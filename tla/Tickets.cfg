SPECIFICATION TicketsSpec
CONSTANTS
    Nonces = {n1, n2}
    Requests = {r1, r2, r3}
    Lifetime = 2
    MaxAhead = 3
    MaxTime = 4
    SecretKept = FALSE
INVARIANTS SpentOnceInTime
CHECK_DEADLOCK FALSE
