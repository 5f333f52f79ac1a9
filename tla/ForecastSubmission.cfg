CONSTANTS
    None = None
    m1 = m1
    m2 = m2
    m3 = m3
    i1 = i1
    i2 = i2
    a1 = a1
    p1 = p1
    p2 = p2
    h1 = h1
    h2 = h2
    Miners = {m1, m2, m3}
    Ips = {i1, i2}
    Forecasts = {p1, p2}
    Handlers = {h1, h2}
    Environments <- MCEnvironments
SYMMETRY Symmetry
SPECIFICATION Spec
INVARIANTS RisksHaveCases OneEligiblePerUnit CountersMatchRows UnitsAreComponents RevealMatchesCommit
CHECK_DEADLOCK FALSE
