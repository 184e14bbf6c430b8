SPECIFICATION FairSpec
CONSTANTS
    a = a
    b = b
    r = r
    d = d
    File = {a, b}
    Dir = {r, d}
    Rank <- MCRank
    In <- MCIn
    Above <- MCAbove
    Start <- MCStart
    Watch = watch
    Others = {u}
    Hook = {h, k}
    None = None
    Budgets <- MCBudgets
INVARIANTS TypeOK QuietRunSettles IndexesFollow SkippedIsSettled
PROPERTY QueueKeepsPromise Noticed
