SPECIFICATION FairSpec
CONSTANTS
    Service = {"ios0", "ios1"}
    Endpoint = {"ep0", "ep1"}
    Channel = {"h1", "h2", "k1", "k2"}
    ServiceOf <- TwoServicesOf
    Host = {"ep0"}
    Server <- TwoServer
    Name <- SameName
    EndpointOf <- EndOf
    Local <- LocalNames
    Remote <- RemoteNames
    MaxOps = 2
    EarlyStop = FALSE
    ShortReads = FALSE
INVARIANTS EndpointTypeOK SocketMatches StopMeansClosed NoDangling
PROPERTIES AllStop
CHECK_DEADLOCK FALSE
