SPECIFICATION FairSpec
CONSTANTS
    Packets = 2
    Fills = TRUE
INVARIANTS LineClean
PROPERTIES WholeFrame RdmListens
