-------------------------- MODULE PackageCacheProofs --------------------------
(***************************************************************************)
(* What holds of PackageCache for packages of any size, any bounds on the  *)
(* retries and redirects and, but for the last two theorems, any number of *)
(* calls that share one cache file.                                        *)
(***************************************************************************)
EXTENDS PackageCache, TLAPS

(***************************************************************************)
(* The invariant: a call that is past the comparison of length and hash    *)
(* holds the reviewed bytes in its .part file, and a call that could read  *)
(* on has read no more than the package has.                               *)
(***************************************************************************)
PartIsReviewed ==
    \A c \in Calls : pc[c] \in {"sync", "commit"} => received[c] = Size /\ genuine[c]

Looking == {"lookup", "hash", "remove", "open"}

WithinBounds ==
    /\ \A c \in Calls : pc[c] = "stream" => received[c] =< Size
    /\ \A c \in Calls : pc[c] = "fetch" => received[c] = 0 /\ hop[c] < Hops
    /\ \A c \in Calls : pc[c] \in Looking => received[c] = 0 /\ hop[c] = 0

Inv == TypeOK /\ PartIsReviewed /\ WithinBounds

\* The counters can start from zero.
LEMMA Zeros == 0 \in 0 .. Size + 1 /\ 0 \in 0 .. Hops /\ 0 \in 0 .. Attempts - 1 /\ 0 < Hops
BY BoundsAssumption

LEMMA InitInv == Init => Inv
<1> SUFFICES ASSUME Init PROVE Inv
  OBVIOUS
<1> USE BoundsAssumption DEF Init
<1>1. TypeOK
  BY Zeros DEF TypeOK, Finished, Working
<1>2. PartIsReviewed /\ WithinBounds
  BY DEF PartIsReviewed, WithinBounds, Looking
<1> QED
  BY <1>1, <1>2 DEF Inv

\* A step that moves one call on, and reads nothing.
LEMMA MoveInv ==
    ASSUME Inv, NEW c \in Calls, NEW p \in Finished \cup Working, pc' = [pc EXCEPT ![c] = p],
           UNCHANGED <<received, genuine, hop, aborted, touched>>,
           cache' \in CacheFiles, part' \in [Calls -> BOOLEAN], leftover' \in BOOLEAN,
           attempt' \in [Calls -> 0 .. Attempts - 1],
           p \in {"sync", "commit"} => received[c] = Size /\ genuine[c],
           p = "stream" => received[c] =< Size,
           p = "fetch" => received[c] = 0 /\ hop[c] < Hops,
           p \in Looking => received[c] = 0 /\ hop[c] = 0
    PROVE  Inv'
<1>1. TypeOK'
  BY DEF Inv, TypeOK
<1>2. \A d \in Calls : pc'[d] = IF d = c THEN p ELSE pc[d]
  BY DEF Inv, TypeOK
<1>3. PartIsReviewed' /\ WithinBounds'
  BY <1>2 DEF Inv, PartIsReviewed, WithinBounds
<1> QED
  BY <1>1, <1>3 DEF Inv

(***************************************************************************)
(* One lemma per action, or per group of actions with one argument.        *)
(***************************************************************************)
LEMMA BeginInv ==
    ASSUME Inv, NEW c \in Calls, Begin(c)
    PROVE  Inv'
<1> USE BoundsAssumption DEF Inv, Begin
<1>1. TypeOK'
  BY Zeros DEF TypeOK, Finished, Working
<1>2. PartIsReviewed' /\ WithinBounds'
  BY DEF TypeOK, PartIsReviewed, WithinBounds, Looking
<1> QED
  BY <1>1, <1>2

LEMMA LookupInv ==
    ASSUME Inv, NEW c \in Calls, Lookup(c) \/ HashCached(c) \/ RemoveStale(c) \/ OpenPart(c)
    PROVE  Inv'
<1>1. PICK p \in {"open", "failed", "remove", "hash", "cached", "cleanup", "fetch"} :
        pc' = [pc EXCEPT ![c] = p]
  BY DEF Lookup, HashCached, RemoveStale, OpenPart, Goes, Thrown
<1>2. p \in Finished \cup Working /\ p \notin {"sync", "commit", "stream"}
  BY DEF Finished, Returned, Working
<1>3. cache' \in CacheFiles
  BY DEF Inv, TypeOK, CacheFiles, Lookup, HashCached, RemoveStale, OpenPart
<1>4. part' \in [Calls -> BOOLEAN] /\ leftover' \in BOOLEAN
  BY DEF Inv, TypeOK, Lookup, HashCached, RemoveStale, OpenPart
<1>5. attempt' \in [Calls -> 0 .. Attempts - 1]
  BY Zeros DEF Inv, TypeOK, Lookup, HashCached, RemoveStale, OpenPart
<1>6. received[c] = 0 /\ hop[c] = 0
  BY DEF Inv, WithinBounds, Looking, Lookup, HashCached, RemoveStale, OpenPart
<1>7. UNCHANGED <<received, genuine, hop, aborted, touched>>
  BY DEF Lookup, HashCached, RemoveStale, OpenPart
<1> QED
  BY <1>1, <1>2, <1>3, <1>4, <1>5, <1>6, <1>7, Zeros, MoveInv

LEMMA RetryLaterInv ==
    ASSUME Inv, NEW c \in Calls, RetryLater(c)
    PROVE  Inv'
<1> USE BoundsAssumption DEF Inv, RetryLater, Thrown
<1>1. CASE attempt[c] < Attempts - 1
  <2>1. TypeOK'
    BY <1>1 DEF TypeOK
  <2> QED
    BY <1>1, <2>1 DEF PartIsReviewed, WithinBounds
<1>2. CASE ~(attempt[c] < Attempts - 1)
  <2>1. PICK p \in {"cleanup", "failed"} : pc' = [pc EXCEPT ![c] = p]
    BY <1>2
  <2> QED
    BY <1>2, <2>1, MoveInv DEF TypeOK, Finished, Working, Looking
<1> QED
  BY <1>1, <1>2

\* A redirect is followed while it is not one too many.
LEMMA RedirectInv ==
    ASSUME Inv, NEW c \in Calls, Redirect(c)
    PROVE  Inv'
<1> USE BoundsAssumption DEF Inv, Redirect, NextHop, Goes, Thrown
<1>1. hop[c] \in 0 .. Hops - 1 /\ received[c] = 0
  BY DEF TypeOK, WithinBounds
<1>2. hop' = [hop EXCEPT ![c] = hop[c] + 1] /\ hop[c] + 1 \in 0 .. Hops
  BY <1>1
<1>3. PICK p \in {"cleanup", "failed", "fetch"} :
        pc' = [pc EXCEPT ![c] = p] /\ (p = "fetch" => hop'[c] # Hops)
  OBVIOUS
<1>4. TypeOK'
  BY <1>2, <1>3 DEF TypeOK, Finished, Working
<1>5. \A d \in Calls : /\ pc'[d] = IF d = c THEN p ELSE pc[d]
                       /\ hop'[d] = IF d = c THEN hop[c] + 1 ELSE hop[d]
  BY <1>2, <1>3 DEF TypeOK
<1>6. PartIsReviewed' /\ WithinBounds'
  BY <1>1, <1>3, <1>5 DEF PartIsReviewed, WithinBounds, Looking
<1> QED
  BY <1>4, <1>6

\* A chunk is read while the last one did not exceed the size.
LEMMA ChunkInv ==
    ASSUME Inv, NEW c \in Calls, Chunk(c)
    PROVE  Inv'
<1> USE BoundsAssumption DEF Inv, Chunk, Exceeds, Goes, Thrown
<1>1. received[c] \in 0 .. Size
  BY DEF TypeOK, WithinBounds
<1>2. received' = [received EXCEPT ![c] = received[c] + 1] /\ received[c] + 1 \in 0 .. Size + 1
  BY <1>1
<1>3. PICK real \in BOOLEAN : genuine' = [genuine EXCEPT ![c] = @ /\ real]
  OBVIOUS
<1>4. PICK p \in {"cleanup", "failed", "stream"} :
        pc' = [pc EXCEPT ![c] = p] /\ (p = "stream" => ~(received'[c] > Size))
  OBVIOUS
<1>5. genuine' \in [Calls -> BOOLEAN]
  BY <1>3 DEF TypeOK
<1>6. TypeOK'
  BY <1>2, <1>4, <1>5 DEF TypeOK, Finished, Working
<1>7. \A d \in Calls : /\ pc'[d] = IF d = c THEN p ELSE pc[d]
                       /\ received'[d] = IF d = c THEN received[c] + 1 ELSE received[d]
                       /\ d # c => genuine'[d] = genuine[d]
  BY <1>2, <1>3, <1>4 DEF TypeOK
<1>8. PartIsReviewed'
  BY <1>7 DEF PartIsReviewed
<1>9. WithinBounds'
  BY <1>1, <1>4, <1>7 DEF WithinBounds, Looking
<1> QED
  BY <1>6, <1>8, <1>9

\* The body's end: what goes on to the commit has the manifest's length and hash.
LEMMA EndOfBodyInv ==
    ASSUME Inv, NEW c \in Calls, EndOfBody(c)
    PROVE  Inv'
<1> USE DEF Inv, EndOfBody, Goes, Thrown
<1>1. Verified(c) => received[c] = Size /\ genuine[c]
  BY DEF Verified, Written
<1>2. PICK p \in {"cleanup", "failed", "sync"} :
        pc' = [pc EXCEPT ![c] = p] /\ (p = "sync" => Verified(c))
  OBVIOUS
<1> QED
  BY <1>1, <1>2, MoveInv DEF TypeOK, Finished, Working, Looking

LEMMA CommitInv ==
    ASSUME Inv, NEW c \in Calls, Sync(c) \/ Commit(c)
    PROVE  Inv'
<1> USE DEF Inv, Sync, Commit
<1>1. received[c] = Size /\ genuine[c]
  BY DEF PartIsReviewed
<1>2. cache' \in CacheFiles
  BY <1>1 DEF TypeOK, CacheFiles, Written
<1>3. PICK p \in {"commit", "cleanup", "fetched"} : pc' = [pc EXCEPT ![c] = p]
  OBVIOUS
<1>4. part' \in [Calls -> BOOLEAN]
  BY DEF TypeOK
<1> QED
  BY <1>1, <1>2, <1>3, <1>4, MoveInv DEF TypeOK, Finished, Returned, Working, Looking

LEMMA EndingInv ==
    ASSUME Inv, NEW c \in Calls, Respond(c) \/ Throws(c) \/ Cleanup(c) \/ Crash(c)
    PROVE  Inv'
<1> USE BoundsAssumption DEF Inv, Respond, Throws, Cleanup, Crash, Goes, Thrown
<1>1. PICK p \in {"stream", "cleanup", "failed", "idle"} :
        pc' = [pc EXCEPT ![c] = p] /\ (p = "stream" => pc[c] = "fetch")
  OBVIOUS
<1>2. part' \in [Calls -> BOOLEAN]
  BY DEF TypeOK
<1>3. leftover' \in BOOLEAN
  BY DEF TypeOK
<1>4. p = "stream" => received[c] =< Size
  BY <1>1 DEF WithinBounds
<1> QED
  BY <1>1, <1>2, <1>3, <1>4, MoveInv DEF TypeOK, Finished, Working, Looking

LEMMA OutsideInv ==
    ASSUME Inv, (\E c \in Calls : Cancel(c)) \/ OwnerChanges
    PROVE  Inv'
<1> USE DEF Inv, Cancel, OwnerChanges
<1>1. TypeOK'
  BY DEF TypeOK
<1>2. PartIsReviewed' /\ WithinBounds'
  BY DEF PartIsReviewed, WithinBounds
<1> QED
  BY <1>1, <1>2

LEMMA NextInv == Inv /\ [Next]_vars => Inv'
<1> SUFFICES ASSUME Inv, [Next]_vars PROVE Inv'
  OBVIOUS
<1>1. CASE UNCHANGED vars
  BY <1>1 DEF vars, Inv, TypeOK, PartIsReviewed, WithinBounds
<1>2. CASE Next
  BY <1>2, BeginInv, LookupInv, RetryLaterInv, RedirectInv, ChunkInv, EndOfBodyInv, CommitInv,
     EndingInv, OutsideInv DEF Next, Step
<1> QED
  BY <1>1, <1>2

\* The invariant that carries the theorems below.
THEOREM InvCorrect == Spec => []Inv
BY InitInv, NextInv, PTL DEF Spec

\* Every variable keeps its type; a server that sends for ever is read one chunk too far.
THEOREM TypeCorrect == Spec => []TypeOK
<1>1. Inv => TypeOK
  BY DEF Inv
<1> QED
  BY <1>1, InvCorrect, PTL

\* What a step of a call does to the cache.
LEMMA CacheStep ==
    ASSUME Inv, Next, NEW c \in Calls, pc'[c] # pc[c], cache' # cache
    PROVE  RemoveStale(c) \/ (Commit(c) /\ cache' = "reviewed")
<1>1. PICK d \in Calls : RemoveStale(d) \/ Commit(d)
  BY DEF Next, Step, Begin, Lookup, HashCached, RetryLater, OpenPart, Redirect, Respond, Chunk,
         EndOfBody, Sync, Throws, Cleanup, Cancel, Crash, OwnerChanges
<1>2. d = c
  BY <1>1 DEF Inv, TypeOK, RemoveStale, Commit, Goes
<1>3. CASE Commit(c)
  BY <1>3 DEF Commit, Written, Inv, PartIsReviewed
<1> QED
  BY <1>1, <1>2, <1>3

\* However many calls share the cache and wherever they fail or are killed, nothing but the
\* reviewed bytes is put there.
THEOREM OnlyReviewedIsKeptCorrect == Spec => OnlyReviewedIsKept
<1>1. Inv /\ [Next]_vars
        => \/ \A c \in Calls : pc'[c] # pc[c] /\ cache' # cache
                  => cache' \in {"reviewed", "absent"}
           \/ UNCHANGED vars
  BY CacheStep DEF RemoveStale
<1> QED
  BY <1>1, InvCorrect, PTL DEF Spec, OnlyReviewedIsKept

\* What a call that runs alone is about to remove differs from the reviewed package.
StaleDiffers == \A c \in Calls : pc[c] = "remove" /\ ~touched[c] => cache # "reviewed"

\* As long as calls run one at a time and the owner keeps away from the cache, a call leaves the
\* reviewed package where it is.
THEOREM ReviewedStaysCorrect ==
    ASSUME \A c, d \in Calls : c = d
    PROVE  Spec => ReviewedStays
<1> DEFINE Stays == \A c \in Calls : pc'[c] # pc[c] /\ cache = "reviewed" /\ ~touched[c]
                                       => cache' = "reviewed"
<1>1. Init => StaleDiffers
  BY DEF Init, StaleDiffers
<1>2. ASSUME Inv, StaleDiffers, [Next]_vars PROVE StaleDiffers'
  <2>1. CASE UNCHANGED vars
    BY <1>2, <2>1 DEF vars, StaleDiffers
  <2>2. CASE OwnerChanges
    BY <2>2 DEF OwnerChanges, StaleDiffers
  <2>3. ASSUME NEW c \in Calls, Lookup(c) \/ HashCached(c) PROVE StaleDiffers'
    BY <1>2, <2>3 DEF Inv, TypeOK, Lookup, HashCached, MatchesHash, Goes, Thrown, StaleDiffers
  <2>4. ASSUME NEW c \in Calls, RemoveStale(c) \/ RetryLater(c) PROVE StaleDiffers'
    BY <1>2, <2>4 DEF Inv, TypeOK, RemoveStale, RetryLater, Goes, Thrown, StaleDiffers
  <2>5. ASSUME NEW c \in Calls, Begin(c) \/ OpenPart(c) \/ Redirect(c) \/ Respond(c) \/ Chunk(c)
                                \/ EndOfBody(c) \/ Sync(c) \/ Commit(c)
        PROVE StaleDiffers'
    BY <1>2, <2>5 DEF Inv, TypeOK, Begin, OpenPart, Redirect, Respond, Chunk, EndOfBody, Sync,
       Commit, Goes, Thrown, StaleDiffers
  <2>6. ASSUME NEW c \in Calls, Throws(c) \/ Cleanup(c) \/ Cancel(c) \/ Crash(c)
        PROVE StaleDiffers'
    BY <1>2, <2>6 DEF Inv, TypeOK, Throws, Cleanup, Cancel, Crash, Thrown, StaleDiffers
  <2> QED
    BY <1>2, <2>1, <2>2, <2>3, <2>4, <2>5, <2>6 DEF Next, Step
<1>3. Inv /\ StaleDiffers /\ [Next]_vars => [Stays]_vars
  <2> SUFFICES ASSUME Inv, StaleDiffers, Next, NEW c \in Calls, pc'[c] # pc[c],
                      cache = "reviewed", ~touched[c], cache' # cache
               PROVE  cache' = "reviewed"
    OBVIOUS
  <2>1. ~RemoveStale(c)
    BY DEF RemoveStale, StaleDiffers
  <2> QED
    BY <2>1, CacheStep
<1> QED
  BY <1>1, <1>2, <1>3, InvCorrect, PTL DEF Spec, ReviewedStays

\* As long as calls run one at a time and the owner keeps away from the cache, the path a call
\* has returned names the reviewed bytes.
THEOREM ReturnedIsReviewedCorrect ==
    ASSUME \A c, d \in Calls : c = d
    PROVE  Spec => []ReturnedIsReviewed
<1>1. Init => ReturnedIsReviewed
  BY DEF Init, ReturnedIsReviewed, Returned
<1>2. ASSUME Inv, ReturnedIsReviewed, [Next]_vars PROVE ReturnedIsReviewed'
  <2>1. CASE UNCHANGED vars
    BY <1>2, <2>1 DEF vars, ReturnedIsReviewed
  <2>2. CASE OwnerChanges
    BY <2>2 DEF OwnerChanges, ReturnedIsReviewed
  <2>3. ASSUME NEW c \in Calls, HashCached(c) PROVE ReturnedIsReviewed'
    BY <1>2, <2>3 DEF Inv, TypeOK, HashCached, MatchesHash, Goes, Thrown, ReturnedIsReviewed, Returned
  <2>4. ASSUME NEW c \in Calls, Commit(c) PROVE ReturnedIsReviewed'
    BY <1>2, <2>4 DEF Inv, TypeOK, PartIsReviewed, Commit, Written, ReturnedIsReviewed, Returned
  <2>5. ASSUME NEW c \in Calls, Begin(c) \/ Lookup(c) \/ RemoveStale(c) \/ RetryLater(c)
                                \/ OpenPart(c) \/ Redirect(c) \/ Respond(c)
        PROVE ReturnedIsReviewed'
    BY <1>2, <2>5 DEF Inv, TypeOK, Begin, Lookup, RemoveStale, RetryLater, OpenPart, Redirect,
       Respond, Goes, Thrown, ReturnedIsReviewed, Returned
  <2>6. ASSUME NEW c \in Calls, Chunk(c) \/ EndOfBody(c) \/ Sync(c) \/ Throws(c) \/ Cleanup(c)
                                \/ Cancel(c) \/ Crash(c)
        PROVE ReturnedIsReviewed'
    BY <1>2, <2>6 DEF Inv, TypeOK, Chunk, EndOfBody, Sync, Throws, Cleanup, Cancel, Crash,
       Goes, Thrown, Running, Working, ReturnedIsReviewed, Returned
  <2> QED
    BY <1>2, <2>1, <2>2, <2>3, <2>4, <2>5, <2>6 DEF Next, Step
<1> QED
  BY <1>1, <1>2, InvCorrect, PTL DEF Spec
=============================================================================
