SPECIFICATION Spec
CONSTANTS
    Service = {"ios0", "ios1"}
    Endpoint = {"ep0", "ep1"}
    Channel = {"h1", "h2", "k1", "k2"}
    ServiceOf <- TwoServicesOf
    Host = {"ep0"}
    Server <- TwoServer
    Name <- SameName
    EndpointOf <- EndOf
    Local <- LocalNames
    Remote <- RemoteNames
    MaxOps = 1
    EarlyStop = TRUE
    ShortReads = TRUE
INVARIANTS SocketMatches StopMeansClosed
CHECK_DEADLOCK FALSE
