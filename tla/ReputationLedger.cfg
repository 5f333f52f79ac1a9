CONSTANTS
    None = None
    b1 = b1
    b2 = b2
    j1 = j1
    j2 = j2
    s1 = s1
    s2 = s2
    r1 = r1
    r2 = r2
    m1 = m1
    m2 = m2
    c1 = c1
    c2 = c2
    d1 = d1
    d2 = d2
    Batches = {b1, b2}
    Jobs = {j1, j2}
    Accounts = {s1, s2}
    Roots = {r1, r2}
    Miners = {m1, m2}
    Controllers = {c1, c2}
    DeltaIds = {d1, d2}
    Amounts <- ChangeAmounts
    Caps = {3, 7}
    MaxScore = 4
    InitialScore = 2
    HalfWord = 8
SPECIFICATION LedgerSpec
INVARIANTS
 AcceptedIsStored ResendNeverRefused
 AppliedOnce ReceiptsAreAnchored DeltaKeepsDirection
