SPECIFICATION Spec
CONSTANTS
    A = A
    B = B
    Peer <- TwoPeers
    Size = {1, 2}
    Expected = {0, 1}
    MaxSend <- StreamSends
    MaxRecv <- StreamRecvs
    Room <- StreamRoom
    Pollers = {A}
INVARIANTS TypeOK Fifo CloseDrained SyncSendFlushes OutstandingExact ReportedOnce
PROPERTIES ChannelSteps
CHECK_DEADLOCK FALSE
