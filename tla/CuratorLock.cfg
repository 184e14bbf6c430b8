CONSTANTS
    Proc = {p1, p2}
    Pid = {x1, x2, x3}
    NoPid = NoPid
    MaxEdits = 1
    MaxFaults = 2
SPECIFICATION LiveSpec
INVARIANTS ExclusiveUnlessRacedOrOverrun IndexLagsOnlyIfDropped
PROPERTIES RefusedForCause OrphanReclaimed
