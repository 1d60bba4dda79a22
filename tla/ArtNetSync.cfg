SPECIFICATION Spec
CONSTANTS
    Ports = {1, 2}
    Streams <- TwoPortStreams
    Commanded = {1}
    MergeTimeout = 1
    SyncTimeout = 1
    LossTimeout = 2
PROPERTIES SyncLength
