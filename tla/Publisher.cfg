SPECIFICATION Spec
CONSTANTS
    Calls = {a, b, w}
    Writers = {w}
    Tries = 3
    MaxHead = 2
INVARIANTS PullIsComplete StartsFromUpstream ReleaseIsLinked
CHECK_DEADLOCK FALSE
