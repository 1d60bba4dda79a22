SPECIFICATION Spec
CONSTANTS
    TableSize = 2
    HighBit = 4
    Devices = {2, 3, 6}
    UnmuteTries = 1
    MuteTries = 1
    BranchTries = 1
    QuickFindTries = 2
    QuickBranchTries = 1
    MaxLost = 0
    Late = FALSE
    HotPlug = FALSE
INVARIANTS
    BranchesDisjoint
    BranchRepeated
    StackBounded
    CompleteAtFinish
