CONSTANTS
    Iface <- CodeIface
    NoIface = NoIface
    NoDesign = NoDesign
    NoFooter = NoFooter
    NoHash = NoHash
    MaxVersion = 2
    MaxEdits = 2
    Autonomies = {"auto_low", "full", "propose"}
    Answers = {"merge", "low_confidence", "full_regen", "failed"}
SPECIFICATION LiveSpec
PROPERTIES PreservedSectionsKept WriteSettles Converges
