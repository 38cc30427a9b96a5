-------------------------- MODULE CatalogCacheProofs --------------------------
(***************************************************************************)
(* What holds of CatalogCache for any number of requests, any lifetime of  *)
(* the cached catalog and any number of published catalogs, with fetches   *)
(* and snapshot writes that fail.                                          *)
(***************************************************************************)
EXTENDS CatalogCache, TLAPS

(***************************************************************************)
(* The invariant.  Time stands still while a request fetches, so a body    *)
(* that is no longer the published catalog was replaced in this very tick; *)
(* whence the expiry of what is cached is at most one lifetime after it    *)
(* was withdrawn.                                                          *)
(***************************************************************************)
Typed ==
    /\ now \in 0 .. MaxTime /\ published \in Versions /\ replaced \in [Versions -> Times]
    /\ catalog \in Versions /\ expiry \in Times
    /\ arrived \in [Requests -> Times] /\ body \in [Requests -> Versions]
    /\ answer \in [Requests -> Versions]

HolderIsInside ==
    /\ lock \in Requests \cup {Nobody}
    /\ pc \in [Requests -> {"idle", "waiting"} \cup Inside \cup Final]
    /\ \A r \in Requests : pc[r] \in Inside <=> lock = r

ClockBounds ==
    /\ published >= 1 /\ expiry =< now + Lifetime
    /\ \A r \in Requests : arrived[r] =< now

BodyIsNew ==
    \A r \in Requests : pc[r] = "fetching" =>
        /\ body[r] # 0 /\ catalog =< body[r] /\ body[r] =< published
        /\ body[r] # published => now =< replaced[body[r]]

CacheExpires ==
    /\ catalog =< published
    /\ catalog = 0 => expiry = 0
    /\ catalog # published => expiry =< replaced[catalog] + Lifetime
    /\ \A r \in Requests : pc[r] = "writing" => catalog # 0 /\ arrived[r] + Lifetime =< expiry

AnswersAreFresh ==
    \A r \in Requests : pc[r] = "ok" =>
        /\ answer[r] # 0 /\ answer[r] =< published
        /\ answer[r] # published => arrived[r] < replaced[answer[r]] + Lifetime

Inv == Typed /\ HolderIsInside /\ ClockBounds /\ BodyIsNew /\ CacheExpires /\ AnswersAreFresh

LEMMA InitInv == Init => Inv
<1> SUFFICES ASSUME Init PROVE Inv
  OBVIOUS
<1> USE LifetimeAssumption DEF Init
<1>1. Typed
  BY DEF Typed, Versions, Times
<1>2. \A r \in Requests : pc[r] = "idle" /\ lock # r
  BY RequestsAssumption
<1>3. HolderIsInside
  BY <1>2 DEF HolderIsInside, Inside
<1>4. ClockBounds /\ BodyIsNew /\ AnswersAreFresh
  BY <1>2 DEF ClockBounds, BodyIsNew, AnswersAreFresh
<1>5. CacheExpires
  BY <1>2 DEF CacheExpires, Versions
<1> QED
  BY <1>1, <1>3, <1>4, <1>5 DEF Inv

\* Only the request that holds the lock is inside.
LEMMA Alone ==
    ASSUME HolderIsInside, NEW r \in Requests, NEW s \in Requests,
           pc[r] \in Inside, pc[s] \in Inside
    PROVE  r = s
BY DEF HolderIsInside

\* A request moves on: into the lock if it is free, inside it, or out of it.
LEMMA OneMoves ==
    ASSUME HolderIsInside, NEW r \in Requests,
           NEW p \in {"idle", "waiting"} \cup Inside \cup Final, pc' = [pc EXCEPT ![r] = p],
           p \in Inside => lock' = r /\ lock \in {r, Nobody},
           p \notin Inside => IF pc[r] \in Inside THEN lock' = Nobody ELSE lock' = lock
    PROVE  /\ HolderIsInside'
           /\ \A s \in Requests : pc'[s] = IF s = r THEN p ELSE pc[s]
<1>1. \A s \in Requests : pc'[s] = IF s = r THEN p ELSE pc[s]
  BY DEF HolderIsInside
<1>2. pc' \in [Requests -> {"idle", "waiting"} \cup Inside \cup Final]
  BY DEF HolderIsInside
<1>3. lock' \in Requests \cup {Nobody}
  BY DEF HolderIsInside
<1>4. ASSUME NEW s \in Requests PROVE pc'[s] \in Inside <=> lock' = s
  <2>1. CASE s = r
    BY <1>1, <2>1, RequestsAssumption DEF HolderIsInside
  <2>2. CASE s # r
    <3>1. pc'[s] = pc[s] /\ (pc[s] \in Inside <=> lock = s)
      BY <1>1, <2>2 DEF HolderIsInside
    <3>2. lock' = s <=> lock = s
      BY <2>2, RequestsAssumption DEF HolderIsInside
    <3> QED
      BY <3>1, <3>2
  <2> QED
    BY <2>1, <2>2
<1> QED
  BY <1>1, <1>2, <1>3, <1>4 DEF HolderIsInside

(***************************************************************************)
(* One lemma per action.                                                   *)
(***************************************************************************)
LEMMA ArriveInv ==
    ASSUME Inv, NEW r \in Requests, Arrive(r)
    PROVE  Inv'
<1> USE LifetimeAssumption DEF Inv, Arrive
<1>1. HolderIsInside' /\ \A s \in Requests : pc'[s] = IF s = r THEN "waiting" ELSE pc[s]
  BY OneMoves DEF Inside, Final
<1>2. Typed'
  BY DEF Typed, Times
<1>3. \A s \in Requests : s # r => arrived'[s] = arrived[s]
  BY DEF Typed
<1>4. ClockBounds'
  BY <1>3 DEF ClockBounds, Typed
<1>5. BodyIsNew' /\ CacheExpires' /\ AnswersAreFresh'
  BY <1>1, <1>3 DEF BodyIsNew, CacheExpires, AnswersAreFresh
<1> QED
  BY <1>1, <1>2, <1>4, <1>5

LEMMA TakeLockInv ==
    ASSUME Inv, NEW r \in Requests, TakeLock(r)
    PROVE  Inv'
<1> USE DEF Inv, TakeLock, LockIsFree
<1>1. HolderIsInside' /\ \A s \in Requests : pc'[s] = IF s = r THEN "looking" ELSE pc[s]
  BY OneMoves DEF Inside
<1>2. Typed' /\ ClockBounds'
  BY DEF Typed, ClockBounds
<1>3. BodyIsNew' /\ CacheExpires' /\ AnswersAreFresh'
  BY <1>1 DEF BodyIsNew, CacheExpires, AnswersAreFresh
<1> QED
  BY <1>1, <1>2, <1>3

\* What is served from the cache was withdrawn less than a lifetime ago, if it was.
LEMMA UseCachedInv ==
    ASSUME Inv, NEW r \in Requests, UseCached(r)
    PROVE  Inv'
<1> USE LifetimeAssumption DEF Inv, UseCached
<1>1. HolderIsInside' /\ \A s \in Requests : pc'[s] = IF s = r THEN "ok" ELSE pc[s]
  BY OneMoves DEF Inside, Final
<1>2. Typed'
  BY DEF Typed
<1>3. ClockBounds' /\ BodyIsNew' /\ CacheExpires'
  BY <1>1 DEF ClockBounds, BodyIsNew, CacheExpires
<1>4. \A s \in Requests : answer'[s] = IF s = r THEN catalog ELSE answer[s]
  BY DEF Typed
<1>5. /\ now \in Nat /\ expiry \in Nat /\ arrived[r] \in Nat
      /\ \A v \in Versions : replaced[v] \in Nat
  BY DEF Typed, Times
<1>6. catalog # 0 /\ (catalog # published => arrived[r] < replaced[catalog] + Lifetime)
  BY <1>5 DEF Fresh, Typed, Times, ClockBounds, CacheExpires
<1>7. AnswersAreFresh'
  BY <1>1, <1>4, <1>6 DEF AnswersAreFresh, CacheExpires
<1> QED
  BY <1>1, <1>2, <1>3, <1>7

LEMMA StartFetchInv ==
    ASSUME Inv, NEW r \in Requests, StartFetch(r)
    PROVE  Inv'
<1> USE DEF Inv, StartFetch
<1>1. lock = r
  BY DEF HolderIsInside, Inside
<1>2. HolderIsInside' /\ \A s \in Requests : pc'[s] = IF s = r THEN "fetching" ELSE pc[s]
  BY <1>1, OneMoves DEF Inside
<1>3. Typed'
  BY DEF Typed
<1>4. \A s \in Requests : body'[s] = IF s = r THEN published ELSE body[s]
  BY DEF Typed
<1>5. published # 0 /\ published =< published
  BY DEF ClockBounds, Typed, Versions
<1>6. BodyIsNew'
  BY <1>2, <1>4, <1>5 DEF BodyIsNew, CacheExpires
<1>7. ClockBounds' /\ CacheExpires' /\ AnswersAreFresh'
  BY <1>2 DEF ClockBounds, CacheExpires, AnswersAreFresh
<1> QED
  BY <1>2, <1>3, <1>6, <1>7

LEMMA FillCacheInv ==
    ASSUME Inv, NEW r \in Requests, FillCache(r)
    PROVE  Inv'
<1> USE LifetimeAssumption DEF Inv, FillCache
<1>1. lock = r
  BY DEF HolderIsInside, Inside
<1>2. HolderIsInside' /\ \A s \in Requests : pc'[s] = IF s = r THEN "writing" ELSE pc[s]
  BY <1>1, OneMoves DEF Inside
<1>3. Typed'
  BY DEF Typed, Times
<1>4. ClockBounds' /\ AnswersAreFresh'
  BY <1>2 DEF ClockBounds, AnswersAreFresh, Typed
<1>5. \A s \in Requests : s # r => pc'[s] \notin Inside
  BY <1>2, Alone DEF Inside
<1>6. BodyIsNew'
  BY <1>2, <1>5 DEF BodyIsNew, Inside
<1>7. /\ catalog' # 0 /\ catalog' =< published
      /\ catalog' # published => now + Lifetime =< replaced[catalog'] + Lifetime
  BY DEF BodyIsNew, Typed, Times
<1>8. arrived[r] + Lifetime =< now + Lifetime
  BY DEF ClockBounds, Typed, Times
<1>9. CacheExpires'
  BY <1>5, <1>7, <1>8 DEF CacheExpires, Inside
<1> QED
  BY <1>2, <1>3, <1>4, <1>6, <1>9

\* A failed fetch and a failed write leave what is cached, and its expiry, as they were.
LEMMA FailureInv ==
    ASSUME Inv, NEW r \in Requests, FetchFails(r) \/ WriteFails(r)
    PROVE  Inv'
<1> USE DEF Inv, FetchFails, WriteFails, ReleasedLock
<1>1. HolderIsInside' /\ \A s \in Requests : pc'[s] = IF s = r THEN "unavailable" ELSE pc[s]
  BY OneMoves DEF Inside, Final
<1>2. Typed' /\ ClockBounds'
  BY DEF Typed, ClockBounds
<1>3. BodyIsNew' /\ CacheExpires' /\ AnswersAreFresh'
  BY <1>1 DEF BodyIsNew, CacheExpires, AnswersAreFresh
<1> QED
  BY <1>1, <1>2, <1>3

LEMMA WriteSnapshotInv ==
    ASSUME Inv, NEW r \in Requests, WriteSnapshot(r)
    PROVE  Inv'
<1> USE LifetimeAssumption DEF Inv, WriteSnapshot
<1>1. HolderIsInside' /\ \A s \in Requests : pc'[s] = IF s = r THEN "ok" ELSE pc[s]
  BY OneMoves DEF Inside, Final
<1>2. Typed'
  BY DEF Typed
<1>3. ClockBounds' /\ BodyIsNew' /\ CacheExpires'
  BY <1>1 DEF ClockBounds, BodyIsNew, CacheExpires
<1>4. \A s \in Requests : answer'[s] = IF s = r THEN catalog ELSE answer[s]
  BY DEF Typed
<1>5. catalog # 0 /\ (catalog # published => arrived[r] < replaced[catalog] + Lifetime)
  BY DEF Typed, Times, CacheExpires
<1>6. AnswersAreFresh'
  BY <1>1, <1>4, <1>5 DEF AnswersAreFresh, CacheExpires
<1> QED
  BY <1>1, <1>2, <1>3, <1>6

\* What was cached, fetched or answered and is withdrawn now is withdrawn at this tick.
LEMMA PublishInv ==
    ASSUME Inv, Publish
    PROVE  Inv'
<1> USE LifetimeAssumption DEF Inv, Publish
<1>1. \A v \in Versions : replaced'[v] = IF v = published THEN now ELSE replaced[v]
  BY DEF Typed
<1>2. Typed'
  BY DEF Typed, Versions, Times
<1>3. HolderIsInside'
  BY DEF HolderIsInside
<1>4. ClockBounds'
  BY DEF ClockBounds, Typed, Versions
<1>5. ASSUME NEW r \in Requests, pc[r] = "fetching"
      PROVE  /\ body[r] # 0 /\ catalog =< body[r] /\ body[r] =< published'
             /\ body[r] # published' => now =< replaced'[body[r]]
  BY <1>1, <1>5 DEF BodyIsNew, Typed, Versions
<1>6. /\ catalog =< published' /\ catalog # published'
      /\ expiry =< replaced'[catalog] + Lifetime
  BY <1>1 DEF CacheExpires, ClockBounds, Typed, Versions, Times
<1>7. ASSUME NEW r \in Requests, pc[r] = "ok"
      PROVE  /\ answer[r] # 0 /\ answer[r] =< published'
             /\ answer[r] # published' => arrived[r] < replaced'[answer[r]] + Lifetime
  BY <1>1, <1>7 DEF AnswersAreFresh, ClockBounds, Typed, Versions, Times
<1>8. BodyIsNew' /\ AnswersAreFresh'
  BY <1>5, <1>7 DEF BodyIsNew, AnswersAreFresh
<1>9. CacheExpires'
  BY <1>6 DEF CacheExpires
<1> QED
  BY <1>2, <1>3, <1>4, <1>8, <1>9

LEMMA TickInv ==
    ASSUME Inv, Tick
    PROVE  Inv'
<1> USE LifetimeAssumption DEF Inv, Tick
<1>1. Typed' /\ HolderIsInside'
  BY DEF Typed, HolderIsInside
<1>2. ClockBounds'
  BY DEF ClockBounds, Typed, Times
<1>3. BodyIsNew' /\ CacheExpires' /\ AnswersAreFresh'
  BY DEF BodyIsNew, CacheExpires, AnswersAreFresh
<1> QED
  BY <1>1, <1>2, <1>3

LEMMA NextInv == Inv /\ [Next]_vars => Inv'
<1> SUFFICES ASSUME Inv, [Next]_vars PROVE Inv'
  OBVIOUS
<1>1. CASE UNCHANGED vars
  BY <1>1 DEF vars, Inv, Typed, HolderIsInside, ClockBounds, BodyIsNew, CacheExpires,
              AnswersAreFresh
<1>2. CASE Next
  BY <1>2, ArriveInv, TakeLockInv, UseCachedInv, StartFetchInv, FillCacheInv, FailureInv,
     WriteSnapshotInv, PublishInv, TickInv DEF Next, Step
<1> QED
  BY <1>1, <1>2

\* The invariant that carries the theorems below.
THEOREM InvCorrect == Spec => []Inv
BY InitInv, NextInv, PTL DEF Spec

\* Every variable keeps its type, and catalogLock is held exactly by the request inside it.
THEOREM TypeCorrect == Spec => []TypeOK
<1>1. Inv => TypeOK
  BY DEF Inv, Typed, HolderIsInside, TypeOK
<1> QED
  BY <1>1, InvCorrect, PTL

\* Whatever fails and for how long: no request is answered with a catalog that was withdrawn
\* a lifetime or more before the request came.
THEOREM FailsClosedCorrect == Spec => []FailsClosed
<1>1. Inv => FailsClosed
  BY DEF Inv, AnswersAreFresh, FailsClosed
<1> QED
  BY <1>1, InvCorrect, PTL

\* Of several fetches the one with the older catalog never wins.
THEOREM NeverOlderCorrect == Spec => NeverOlder
<1>1. ASSUME Inv, [Next]_vars PROVE catalog' >= catalog \/ UNCHANGED vars
  <2>1. catalog \in Nat /\ catalog >= catalog
    BY <1>1 DEF Inv, Typed, Versions
  <2>2. ASSUME NEW r \in Requests, FillCache(r) PROVE catalog' >= catalog
    BY <1>1, <2>2 DEF Inv, Typed, Versions, FillCache, BodyIsNew
  <2>3. ASSUME NEW r \in Requests, Step(r), ~FillCache(r) PROVE catalog' = catalog
    BY <2>3 DEF Step, TakeLock, UseCached, StartFetch, FetchFails, WriteSnapshot, WriteFails
  <2> QED
    BY <1>1, <2>1, <2>2, <2>3 DEF Next, Arrive, Publish, Tick, vars
<1> QED
  BY <1>1, InvCorrect, PTL DEF Spec, NeverOlder
=============================================================================
