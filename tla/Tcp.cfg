SPECIFICATION FairSpec
CONSTANTS
    UnackMax = 2
    RtxMaxRetry = 1
    Blocks = 2
    Others = 1
    RcvWnd = 3
    Windows = {1, 2}
    Requests = 2
    Answers <- HeaderAndBody
    MaxSent = 4
    MaxAccepts = 2
    Gaps = {5}
INVARIANTS TcpTypeOK RequestsOnce ReceivedPrefix PoolAccounted
PROPERTIES AllAcknowledged
