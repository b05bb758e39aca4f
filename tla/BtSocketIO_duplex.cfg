SPECIFICATION FairSpec
CONSTANTS
    A = A
    B = B
    Peer <- TwoPeers
    Size = {1}
    Expected = {1}
    MaxSend <- DuplexSends
    MaxRecv <- DuplexRecvs
    Room <- DuplexRoom
    Pollers = {}
INVARIANTS CloseIsGraceful
PROPERTIES CloseReturns SendReturns ImplementsFifoChannel
CHECK_DEADLOCK FALSE
