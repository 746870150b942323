SPECIFICATION FairSpec
CONSTANTS
    a = a
    b = b
    k1 = k1
    k2 = k2
    k3 = k3
    k4 = k4
    k5 = k5
    k6 = k6
    k7 = k7
    End = {a, b}
    Call = {k1, k2, k3, k4, k5, k6, k7}
    From <- MCFrom
    Unencodable = {k3, k5}
    Unanswerable = {k6, k7}
    Cancellable = {k1}
    Limited = {b}
    Plans <- MCPlans
    Cap = 2
    IdMod = 2
    None = None
INVARIANTS
    ResultMatches
    Framed
    EntriesMatchWaiters
PROPERTIES
    CallsReturn
CHECK_DEADLOCK FALSE
