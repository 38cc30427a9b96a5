--------------------------- MODULE BackendService ---------------------------
(***************************************************************************)
(* What one call of startLocalBackend promises to the launcher, whatever   *)
(* its two service processes do: a promise that settles once, no process   *)
(* left once the call has failed or stop() has resolved, and one onExit    *)
(* notice at most, never after a stop was asked for.                       *)
(***************************************************************************)
EXTENDS Naturals

VARIABLES
    promise,   \* startLocalBackend's promise: "pending", "resolved" or "rejected"
    alive,     \* a service process exists
    stop,      \* stop(): "no", "asked" or "done"
    notices    \* calls of onExit

vars == <<promise, alive, stop, notices>>

Init ==
    /\ promise = "pending"
    /\ alive = FALSE
    /\ stop = "no"
    /\ notices = 0

Spawn ==
    /\ promise = "pending" /\ stop = "no"
    /\ alive' = TRUE
    /\ UNCHANGED <<promise, stop, notices>>

Resolve ==
    /\ promise = "pending"
    /\ promise' = "resolved"
    /\ UNCHANGED <<alive, stop, notices>>

\* A service that was serving is gone: the other one is stopped and the launcher is told.
\* When the launcher is still waiting, only the promise will tell it.
LoseService ==
    /\ stop = "no"
    /\ stop' = "asked"
    /\ notices' = notices + 1
    /\ UNCHANGED <<promise, alive>>

\* The launcher calls stop(), or the start fails and calls it.
AskStop ==
    /\ stop = "no"
    /\ stop' = "asked"
    /\ UNCHANGED <<promise, alive, notices>>

ProcessesEnd ==
    /\ alive
    /\ alive' = FALSE
    /\ UNCHANGED <<promise, stop, notices>>

StopResolves ==
    /\ stop = "asked" /\ ~alive
    /\ stop' = "done"
    /\ UNCHANGED <<promise, alive, notices>>

Reject ==
    /\ promise = "pending" /\ ~alive
    /\ promise' = "rejected"
    /\ UNCHANGED <<alive, stop, notices>>

Next ==
    \/ Spawn \/ Resolve \/ LoseService \/ AskStop
    \/ ProcessesEnd \/ StopResolves \/ Reject

Spec == Init /\ [][Next]_vars
=============================================================================
