SPECIFICATION FairSpec
CONSTANTS
    Service = {"ios"}
    Endpoint = {"ep0", "ep1"}
    Channel = {"h1", "k1"}
    ServiceOf <- OneServiceOf
    Host = {"ep0"}
    Server <- OneServer
    Name <- SameName
    EndpointOf <- OneEnd
    Local <- OneLocal
    Remote <- OneRemote
    MaxOps = 1
    EarlyStop = FALSE
    ShortReads = TRUE
PROPERTIES AllConnected
CHECK_DEADLOCK FALSE
