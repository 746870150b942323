SPECIFICATION Spec
CONSTANTS
    peerP = peerP
    peerA = peerA
    peerB = peerB
    NoConn = NoConn
    Conn = {peerP, peerA, peerB}
    Method = {"ping"}
    Internal = {}
    Offer <- RoutingOffer
    Quota <- RoutingQuota
    Leaver = {peerP}
    MaxAnswers = 2
    Sizes = {FALSE}
    IdMod = 8
INVARIANTS
    ResponseMatchesRequest
CHECK_DEADLOCK FALSE
PROPERTIES
    ImplementsService
