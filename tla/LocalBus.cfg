SPECIFICATION LbSpec
CONSTANTS
    NrHosts = 4
    Devices = {"ram"}
    Nowhere = "nowhere"
    NoRequest = "none"
    MaxAwaited = 1
    Addrs = {"ram", "nowhere"}
    Words = {1}
    Concurrent = FALSE
INVARIANTS
    SbIssuesHeld
    SbAnswersInOrder
    SbNoStarvation
    AlExchange
PROPERTY LbComposes
