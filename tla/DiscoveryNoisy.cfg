SPECIFICATION Spec
CONSTANTS
    TableSize = 2
    HighBit = 2
    Devices = {0, 1}
    UnmuteTries = 1
    MuteTries = 1
    BranchTries = 1
    QuickFindTries = 2
    QuickBranchTries = 1
    MaxLost = 1
    Late = TRUE
    HotPlug = TRUE
INVARIANTS
    TypeOK
    NoDuplicateEntry
    ProbeInsideTable
    OnlyDevicesListed
