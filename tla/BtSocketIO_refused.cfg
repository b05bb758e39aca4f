SPECIFICATION FairSpec
CONSTANTS
    A = A
    B = B
    Peer <- TwoPeers
    Size = {1, 2}
    Expected = {1}
    MaxSend <- StreamSends
    MaxRecv <- StreamRecvs
    Room <- StreamRoom
    Pollers = {}
PROPERTIES EveryRecvCompletes
CHECK_DEADLOCK FALSE
