SPECIFICATION FairSpec
CONSTANTS
    TableSize = 2
    HighBit = 2
    Devices = {0, 1}
    UnmuteTries = 2
    MuteTries = 2
    BranchTries = 2
    QuickFindTries = 2
    QuickBranchTries = 2
    MaxLost = 1
    Late = FALSE
    HotPlug = FALSE
INVARIANTS
    OnlyMutedListed
PROPERTIES
    ImplementsPromise
    Terminates
