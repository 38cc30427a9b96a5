SPECIFICATION FairSpec
CONSTANTS
    Requests = {r1, r2}
    Lifetime = 2
    MaxTime = 3
    MaxVersion = 2
    Nobody = Nobody
INVARIANTS FailsClosed
PROPERTIES NeverOlder AllAnswered
CHECK_DEADLOCK FALSE
