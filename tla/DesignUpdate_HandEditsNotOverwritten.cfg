CONSTANTS
    Iface <- CodeIface
    NoIface = NoIface
    NoDesign = NoDesign
    NoFooter = NoFooter
    NoHash = NoHash
    Structural = Structural
    NoAindex = NoAindex
    Updaters = {u1}
    MaxVersion = 2
    MaxEdits = 2
    Conflicted = {}
    Oversized = {2}
    Forces = {TRUE, FALSE}
    Limits = {TRUE, FALSE}
SPECIFICATION Spec
PROPERTIES HandEditsNotOverwritten
