SPECIFICATION SysFairSpec
CONSTANTS
    NClients = 2
    Accesses = {"local", "read", "write"}
    BulkWords = {2}
    Refusals = {1}
    BusFaults = {12}
    NoClientRequest = none
    PortRequests <- SysRequests
    ClientRequests <- BulkRequests
INVARIANTS
    SysResponsesOwned
    SysHonest
    SysQuiescedClean
PROPERTIES
    SysAnswers
    SysQuiesces
