SPECIFICATION FairSpec
CONSTANTS
    Emails = {e1, e2}
    Signups = {s1, s2, s3}
    Logins = {l1}
    Nobody = Nobody
INVARIANTS UniqueEmail AnsweredIsDurable RefusedLeavesNothing
PROPERTY AllAnswered
CHECK_DEADLOCK FALSE
