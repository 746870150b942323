SPECIFICATION Spec
CONSTANTS
    peerP = peerP
    peerA = peerA
    peerB = peerB
    NoConn = NoConn
    Conn = {peerP, peerA}
    Method = {"ping", "version"}
    Internal = {"version"}
    Offer <- MixedOffer
    Quota <- MixedQuota
    Leaver = {peerP}
    MaxAnswers = 1
    Sizes = {TRUE, FALSE}
    IdMod = 2
INVARIANTS
    LimitRespected
    ForwardedInOrder
    NoRequestLost
CHECK_DEADLOCK FALSE
