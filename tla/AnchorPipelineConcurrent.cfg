CONSTANTS
    None = None
    b1 = b1
    j1 = j1
    j2 = j2
    s1 = s1
    t1 = t1
    t2 = t2
    w1 = w1
    w2 = w2
    Batch = b1
    Submitter = s1
    Batches = {b1}
    Accounts = {s1}
    Jobs = {j1, j2}
    TaskRuns = {t1}
    Workers = {w1, w2}
    Roots <- MCRoots
    Handlers <- ConfirmAndOperate
    MaxTxs = 2
    MaxCrashes = 0
SYMMETRY Symmetry
SPECIFICATION Spec
INVARIANTS AnchoredJobIsOnChain PaidOnlyIfOnChain
PROPERTY KeepsPromise
