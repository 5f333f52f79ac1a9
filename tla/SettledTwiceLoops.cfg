CONSTANTS
    None = None
    t1 = t1
    t2 = t2
    m1 = m1
    m2 = m2
    p1 = p1
    p2 = p2
    Tasks = {t1}
    Miners = {m1, m2}
    Active = {m1}
    Subs <- SubsOfM1
    Created <- LateMiners
    PublishAt <- TwoTimes
    Amounts = {5}
    Passes = {p1, p2}
    MaxCrashes = 0
SPECIFICATION Spec
INVARIANT BooksMatchRows
