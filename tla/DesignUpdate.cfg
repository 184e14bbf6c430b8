CONSTANTS
    Iface <- CodeIface
    NoIface = NoIface
    NoDesign = NoDesign
    NoFooter = NoFooter
    NoHash = NoHash
    Structural = Structural
    NoAindex = NoAindex
    Updaters = {u1}
    MaxVersion = 2
    MaxEdits = 1
    Conflicted = {0}
    Oversized = {1}
    Forces = {TRUE, FALSE}
    Limits = {TRUE, FALSE}
SPECIFICATION FairSpec
INVARIANTS TypeOK SecondRunFindsNothing AindexFollows
PROPERTIES NeverFalselyFresh EditInFlightNoticed Converges
