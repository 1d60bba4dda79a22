SPECIFICATION FairSpec
CONSTANTS
    MaxSlots = 2
    MinLength = 3
    RdmSize = 5
    DiscMax = 2
    FrameKinds = {"dmx", "rdm", "disc", "other"}
    Lengths = {1, 2, 3}
    Frames = 2
    IdleBetween = TRUE
    Gaps = TRUE
    Interrupts = 1
INVARIANTS ReceiverTypeOK InStep WholePacket
PROPERTIES RdmOnce Recovers
