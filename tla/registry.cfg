SPECIFICATION FairSpec
CONSTANTS
    peerP = peerP
    peerA = peerA
    peerB = peerB
    NoConn = NoConn
    Conn = {peerP, peerA, peerB}
    Method = {"ping", "version"}
    Internal = {"version"}
    Offer <- RegistryOffer
    Quota <- RegistryQuota
    Leaver = {peerP}
    MaxAnswers = 1
    Sizes = {FALSE}
    IdMod = 8
INVARIANTS
    NoStaleRoute
    RegistrationHonoured
    OnlyRegistrantsServe
PROPERTIES
    RouteMovesByOwner
    RequestsSettle
    RoutesReleased
CHECK_DEADLOCK FALSE
