CONSTANTS
    Hash = {"design", "todo", "comment"}
    Graph = {"merge", "link", "orphan"}
    Rank <- SmallRank
    LLM = {"design", "todo", "comment", "merge", "link"}
    Lasting = {"todo"}
    Gated = {"orphan"}
    Proposed = {"orphan"}
    Beside <- SmallBeside
    Reliable = {"design", "comment", "link"}
    MaxCalls = 3
    HashCap = 2
    MaxNews = 4
SPECIFICATION LiveSweepSpec
INVARIANTS BudgetKept GraphShareKept NoInversion
PROPERTY Served
