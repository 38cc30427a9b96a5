----------------------------- MODULE CatalogCache -----------------------------
(***************************************************************************)
(* Catalog() of services/Api/Program.cs and the two requests that use it:  *)
(* the API's five-minute cache of the reviewed catalog, filled by whichever*)
(* request finds it expired, under catalogLock.  The reviewed catalog on   *)
(* GitHub changes meanwhile; a version of it is a number, 0 the empty list *)
(* the API starts with.  A fetch may fail, or bring a catalog that is not  *)
(* valid.                                                                  *)
(***************************************************************************)
EXTENDS Naturals

CONSTANTS
    Requests,      \* GET /api/apps and GET /api/apps/{id}/download; each is one call
    Lifetime,      \* how long a catalog is served (5 minutes in the code)
    MaxTime,       \* bound on the clock
    MaxVersion,    \* bound on the catalogs published
    Nobody         \* the lock is free

ASSUME LifetimeAssumption ==
    Lifetime \in Nat \ {0} /\ MaxTime \in Nat /\ MaxVersion \in Nat \ {0}
ASSUME RequestsAssumption == Nobody \notin Requests

VARIABLES
    now,         \* the clock
    published,   \* the version on GitHub
    replaced,    \* when each version stopped being the published one
    catalog,     \* the version in memory
    expiry,      \* catalogExpiry
    lock,        \* who holds catalogLock
    pc,          \* where each request stands
    arrived,     \* when each request arrived
    body,        \* the version each request has fetched
    answer       \* the version each request answers with

vars == <<now, published, replaced, catalog, expiry, lock, pc, arrived, body, answer>>

Versions == 0 .. MaxVersion
Times == 0 .. MaxTime + Lifetime
Final == {"ok", "unavailable"}
Inside == {"looking", "fetching", "writing"}
Running(r) == pc[r] \in {"waiting"} \cup Inside

-----------------------------------------------------------------------------
(***************************************************************************)
(* Faulty variants of operators below.                                     *)
(***************************************************************************)
\* The expiry is set before the body is parsed and checked.
FetchFailsLate(r) ==
    /\ pc[r] = "fetching"
    /\ expiry' = now + Lifetime
    /\ pc' = [pc EXCEPT ![r] = "unavailable"]
    /\ lock' = Nobody
    /\ UNCHANGED <<now, published, replaced, catalog, arrived, body, answer>>

\* Nobody waits for the lock.
LockNotNeeded == TRUE

\* The lock is released where the request succeeds, not in a finally block.
LockKept == lock

-----------------------------------------------------------------------------
Init ==
    /\ now = 0 /\ published = 1 /\ replaced = [v \in Versions |-> 0]
    /\ catalog = 0 /\ expiry = 0
    /\ lock = Nobody
    /\ pc = [r \in Requests |-> "idle"] /\ arrived = [r \in Requests |-> 0]
    /\ body = [r \in Requests |-> 0]
    /\ answer = [r \in Requests |-> 0]

Arrive(r) ==
    /\ pc[r] \in {"idle"} \cup Final
    /\ pc' = [pc EXCEPT ![r] = "waiting"]
    /\ arrived' = [arrived EXCEPT ![r] = now]
    /\ UNCHANGED <<now, published, replaced, catalog, expiry, lock, body, answer>>

LockIsFree == lock = Nobody

TakeLock(r) ==
    /\ pc[r] = "waiting"
    /\ LockIsFree
    /\ lock' = r
    /\ pc' = [pc EXCEPT ![r] = "looking"]
    /\ UNCHANGED <<now, published, replaced, catalog, expiry, arrived, body, answer>>

Fresh == now < expiry

UseCached(r) ==
    /\ pc[r] = "looking" /\ Fresh
    /\ answer' = [answer EXCEPT ![r] = catalog]
    /\ pc' = [pc EXCEPT ![r] = "ok"]
    /\ lock' = Nobody
    /\ UNCHANGED <<now, published, replaced, catalog, expiry, arrived, body>>

\* GitHub answers with what is published while the request is under way.
StartFetch(r) ==
    /\ pc[r] = "looking" /\ ~Fresh
    /\ body' = [body EXCEPT ![r] = published]
    /\ pc' = [pc EXCEPT ![r] = "fetching"]
    /\ UNCHANGED <<now, published, replaced, catalog, expiry, lock, arrived, answer>>

\* The body is parsed and valid, and the cache is filled before the snapshot is written.
FillCache(r) ==
    /\ pc[r] = "fetching"
    /\ catalog' = body[r]
    /\ expiry' = now + Lifetime
    /\ pc' = [pc EXCEPT ![r] = "writing"]
    /\ UNCHANGED <<now, published, replaced, lock, arrived, body, answer>>

\* The finally block.
ReleasedLock == Nobody

\* No answer, an error status, or a catalog that is too large or not valid.
FetchFails(r) ==
    /\ pc[r] = "fetching"
    /\ pc' = [pc EXCEPT ![r] = "unavailable"]
    /\ lock' = ReleasedLock
    /\ UNCHANGED <<now, published, replaced, catalog, expiry, arrived, body, answer>>

\* catalog-cache.json is only ever written: nothing in the repository reads it back.
WriteSnapshot(r) ==
    /\ pc[r] = "writing"
    /\ answer' = [answer EXCEPT ![r] = catalog]
    /\ pc' = [pc EXCEPT ![r] = "ok"]
    /\ lock' = Nobody
    /\ UNCHANGED <<now, published, replaced, catalog, expiry, arrived, body>>

\* The request that fetched a valid catalog is refused when the snapshot cannot be written.
WriteFails(r) ==
    /\ pc[r] = "writing"
    /\ pc' = [pc EXCEPT ![r] = "unavailable"]
    /\ lock' = ReleasedLock
    /\ UNCHANGED <<now, published, replaced, catalog, expiry, arrived, body, answer>>

Publish ==
    /\ published < MaxVersion
    /\ published' = published + 1
    /\ replaced' = [replaced EXCEPT ![published] = now]
    /\ UNCHANGED <<now, catalog, expiry, lock, pc, arrived, body, answer>>

\* A fetch, given up after fifteen seconds, takes less than a tick.
Tick ==
    /\ now < MaxTime
    /\ \A r \in Requests : pc[r] # "fetching"
    /\ now' = now + 1
    /\ UNCHANGED <<published, replaced, catalog, expiry, lock, pc, arrived, body, answer>>

Step(r) ==
    \/ TakeLock(r) \/ UseCached(r) \/ StartFetch(r) \/ FillCache(r) \/ FetchFails(r)
    \/ WriteSnapshot(r) \/ WriteFails(r)

Next ==
    \/ \E r \in Requests : Arrive(r) \/ Step(r)
    \/ Publish \/ Tick

Spec == Init /\ [][Next]_vars

FairSpec == Spec /\ \A r \in Requests : SF_vars(TakeLock(r)) /\ WF_vars(Step(r))

-----------------------------------------------------------------------------
\* Every variable keeps its type, and the lock is held by the request that is inside.
TypeOK ==
    /\ now \in 0 .. MaxTime /\ published \in Versions /\ replaced \in [Versions -> Times]
    /\ catalog \in Versions /\ expiry \in Times
    /\ lock \in Requests \cup {Nobody}
    /\ pc \in [Requests -> {"idle", "waiting"} \cup Inside \cup Final]
    /\ \A r \in Requests : pc[r] \in Inside <=> lock = r
    /\ arrived \in [Requests -> Times] /\ body \in [Requests -> Versions]
    /\ answer \in [Requests -> Versions]

\* README.md:70, "It fails closed when a new catalog fetch fails after expiry": an answer is
\* never a catalog that was withdrawn from GitHub five minutes or more before the request
\* came, however many fetches have failed since.
FailsClosed ==
    \A r \in Requests : pc[r] = "ok" =>
        /\ answer[r] # 0
        /\ answer[r] # published => arrived[r] < replaced[answer[r]] + Lifetime

\* The catalogs served only ever get newer, whichever request fills the cache last.
NeverOlder == [][catalog' >= catalog]_vars

\* Every request is answered: a failing fetch or disk leaves the lock free.
AllAnswered == \A r \in Requests : Running(r) ~> pc[r] \in Final
=============================================================================
