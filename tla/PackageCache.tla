----------------------------- MODULE PackageCache -----------------------------
(***************************************************************************)
(* downloadVerified of desktop/download.mjs: the launcher's cache of       *)
(* packages, for one reviewed manifest.  The launcher runs one call at a   *)
(* time, and the next one finds what the last one left; calls would share  *)
(* only the cache, each writing a .part file of its own.  An action is     *)
(* what a call does between two awaited operations.  The length of a body  *)
(* is counted in chunks, and a chunk either is what the reviewed hash      *)
(* covers or is not.                                                       *)
(***************************************************************************)
EXTENDS Naturals

CONSTANTS
    Calls,      \* calls of downloadVerified
    Size,       \* chunks in the reviewed package
    Attempts,   \* attempts of retryFileOperation (5 in the code)
    Hops        \* requests assetResponse makes before it gives up (6 in the code)

ASSUME BoundsAssumption ==
    Size \in Nat \ {0} /\ Attempts \in Nat \ {0} /\ Hops \in Nat \ {0}

VARIABLES
    cache,      \* what is at the package's place in the cache
    pc,         \* where each call stands
    part,       \* the call's .part file is on disk
    received,   \* chunks of the body written so far
    genuine,    \* every one of them was the reviewed one
    hop,        \* requests made so far
    attempt,    \* the attempt of the file operation being retried, from 0
    aborted,    \* the call's AbortSignal
    touched,    \* somebody else changed the cache since the call began
    leftover    \* a .part file that belongs to no call is on disk

vars == <<cache, pc, part, received, genuine, hop, attempt, aborted, touched, leftover>>

\* "same size": other bytes, as many as the reviewed package has; "link": a link or a folder.
CacheFiles == {"absent", "reviewed", "same size", "other size", "link"}

Returned == {"cached", "fetched"}
Finished == {"idle", "failed"} \cup Returned
Working == {"lookup", "hash", "remove", "open", "fetch", "stream", "sync", "commit", "cleanup"}
Running(c) == pc[c] \in Working

-----------------------------------------------------------------------------
(***************************************************************************)
(* Faulty variants of operators below.                                     *)
(***************************************************************************)
\* A cached file of the right size is taken without hashing it.
MatchesBySize == cache \in {"reviewed", "same size"}

\* Only the number of bytes is compared.
RightLength(c) == received[c] = Size

\* A cached file that cannot be read is taken for one that differs.
HashedOrUnreadable(c) ==
    /\ pc[c] = "hash"
    /\ pc' \in {[pc EXCEPT ![c] = there] : there \in {"cached", "remove"}}
    /\ pc'[c] = "cached" => cache = "reviewed"
    /\ UNCHANGED <<cache, part, received, genuine, hop, attempt, aborted, touched, leftover>>

\* The .part file is removed only where the code asks for it.
FailedInPlace(c) == "failed"

-----------------------------------------------------------------------------
Init ==
    /\ cache \in CacheFiles
    /\ pc = [c \in Calls |-> "idle"]
    /\ part = [c \in Calls |-> FALSE]
    /\ received = [c \in Calls |-> 0]
    /\ genuine = [c \in Calls |-> TRUE]
    /\ hop = [c \in Calls |-> 0]
    /\ attempt = [c \in Calls |-> 0]
    /\ aborted = [c \in Calls |-> FALSE]
    /\ touched = [c \in Calls |-> FALSE]
    /\ leftover = FALSE

\* The manifest is valid and the cache folder is there or is made.
Begin(c) ==
    /\ pc[c] \in Finished
    /\ pc' = [pc EXCEPT ![c] = "lookup"]
    /\ received' = [received EXCEPT ![c] = 0]
    /\ genuine' = [genuine EXCEPT ![c] = TRUE]
    /\ hop' = [hop EXCEPT ![c] = 0]
    /\ attempt' = [attempt EXCEPT ![c] = 0]
    /\ aborted' = [aborted EXCEPT ![c] = FALSE]
    /\ touched' = [touched EXCEPT ![c] = FALSE]
    /\ UNCHANGED <<cache, part, leftover>>

\* Where a call goes when it throws: the .part file is removed if there is one.
Thrown(c) == IF part[c] THEN "cleanup" ELSE "failed"

Goes(c, there) == pc' = [pc EXCEPT ![c] = IF aborted[c] THEN Thrown(c) ELSE there]

\* lstat: a link is refused, and a file of another size need not be hashed.
Lookup(c) ==
    /\ pc[c] = "lookup"
    /\ pc' = [pc EXCEPT ![c] = CASE cache = "absent"     -> "open"
                                 [] cache = "link"       -> "failed"
                                 [] cache = "other size" -> "remove"
                                 [] OTHER                -> "hash"]
    /\ UNCHANGED <<cache, part, received, genuine, hop, attempt, aborted, touched, leftover>>

\* sha256 opens the file again; it may have been replaced or removed since lstat.
MatchesHash == cache = "reviewed"

HashCached(c) ==
    /\ pc[c] = "hash"
    /\ Goes(c, IF cache = "absent" THEN "failed" ELSE IF MatchesHash THEN "cached" ELSE "remove")
    /\ UNCHANGED <<cache, part, received, genuine, hop, attempt, aborted, touched, leftover>>

\* rm with force, of whatever file is at that place by now.
RemoveStale(c) ==
    /\ pc[c] = "remove"
    /\ Goes(c, "open")
    /\ cache' \in IF aborted[c] THEN {cache} ELSE {"absent"}
    /\ attempt' = [attempt EXCEPT ![c] = 0]
    /\ UNCHANGED <<part, received, genuine, hop, aborted, touched, leftover>>

\* A file operation that is refused for now is tried again, up to the last attempt.
RetryLater(c) ==
    /\ pc[c] \in {"remove", "commit"}
    /\ IF attempt[c] < Attempts - 1
       THEN attempt' = [attempt EXCEPT ![c] = @ + 1] /\ UNCHANGED pc
       ELSE pc' = [pc EXCEPT ![c] = Thrown(c)] /\ UNCHANGED attempt
    /\ UNCHANGED <<cache, part, received, genuine, hop, aborted, touched, leftover>>

\* The name is random and the file is opened with wx: it is new.
OpenPart(c) ==
    /\ pc[c] = "open"
    /\ part' = [part EXCEPT ![c] = TRUE]
    /\ pc' = [pc EXCEPT ![c] = "fetch"]
    /\ UNCHANGED <<cache, received, genuine, hop, attempt, aborted, touched, leftover>>

\* assetResponse: a redirect to a GitHub release host is followed, up to the limit.
NextHop(n) == n + 1

Redirect(c) ==
    /\ pc[c] = "fetch"
    /\ hop' = [hop EXCEPT ![c] = NextHop(@)]
    /\ Goes(c, IF hop'[c] = Hops THEN "cleanup" ELSE "fetch")
    /\ UNCHANGED <<cache, part, received, genuine, attempt, aborted, touched, leftover>>

\* The response has a body, and no content-length or the right one.
Respond(c) ==
    /\ pc[c] = "fetch"
    /\ Goes(c, "stream")
    /\ UNCHANGED <<cache, part, received, genuine, hop, attempt, aborted, touched, leftover>>

Exceeds(c) == received'[c] > Size

Chunk(c) ==
    /\ pc[c] = "stream"
    /\ received' = [received EXCEPT ![c] = @ + 1]
    /\ \E real \in BOOLEAN : genuine' = [genuine EXCEPT ![c] = @ /\ real]
    /\ Goes(c, IF Exceeds(c) THEN "cleanup" ELSE "stream")
    /\ UNCHANGED <<cache, part, hop, attempt, aborted, touched, leftover>>

\* What the .part file holds.
Written(c) ==
    IF received[c] # Size THEN "other size" ELSE IF genuine[c] THEN "reviewed" ELSE "same size"

\* The body ends: its length and its hash are compared with the manifest's.
Verified(c) == Written(c) = "reviewed"

EndOfBody(c) ==
    /\ pc[c] = "stream"
    /\ Goes(c, IF Verified(c) THEN "sync" ELSE "cleanup")
    /\ UNCHANGED <<cache, part, received, genuine, hop, attempt, aborted, touched, leftover>>

Sync(c) ==
    /\ pc[c] = "sync"
    /\ pc' = [pc EXCEPT ![c] = "commit"]
    /\ UNCHANGED <<cache, part, received, genuine, hop, attempt, aborted, touched, leftover>>

\* rename replaces a file that another call has put there.
Commit(c) ==
    /\ pc[c] = "commit"
    /\ IF aborted[c]
       THEN pc' = [pc EXCEPT ![c] = "cleanup"] /\ UNCHANGED <<cache, part>>
       ELSE /\ pc' = [pc EXCEPT ![c] = "fetched"]
            /\ cache' = Written(c)
            /\ part' = [part EXCEPT ![c] = FALSE]
    /\ UNCHANGED <<received, genuine, hop, attempt, aborted, touched, leftover>>

\* The network fails, an untrusted redirect, a full drive, a wrong content-length.
Throws(c) ==
    /\ Running(c) /\ pc[c] # "cleanup"
    /\ pc' = [pc EXCEPT ![c] = Thrown(c)]
    /\ UNCHANGED <<cache, part, received, genuine, hop, attempt, aborted, touched, leftover>>

\* cleanupOwnedPath: a .part file that cannot be removed stays, with a warning.
Cleanup(c) ==
    /\ pc[c] = "cleanup"
    /\ \E removed \in BOOLEAN : leftover' = (leftover \/ ~removed)
    /\ part' = [part EXCEPT ![c] = FALSE]
    /\ pc' = [pc EXCEPT ![c] = "failed"]
    /\ UNCHANGED <<cache, received, genuine, hop, attempt, aborted, touched>>

Cancel(c) ==
    /\ Running(c) /\ ~aborted[c]
    /\ aborted' = [aborted EXCEPT ![c] = TRUE]
    /\ UNCHANGED <<cache, pc, part, received, genuine, hop, attempt, touched, leftover>>

\* The process dies and leaves its .part file behind.
Crash(c) ==
    /\ Running(c)
    /\ pc' = [pc EXCEPT ![c] = "idle"]
    /\ part' = [part EXCEPT ![c] = FALSE]
    /\ leftover' = (leftover \/ part[c])
    /\ UNCHANGED <<cache, received, genuine, hop, attempt, aborted, touched>>

\* The owner of the computer changes the cache.
OwnerChanges ==
    /\ cache' \in CacheFiles \ {cache}
    /\ touched' = [c \in Calls |-> TRUE]
    /\ UNCHANGED <<pc, part, received, genuine, hop, attempt, aborted, leftover>>

Step(c) ==
    \/ Lookup(c) \/ HashCached(c) \/ RemoveStale(c) \/ RetryLater(c) \/ OpenPart(c)
    \/ Redirect(c) \/ Respond(c) \/ Chunk(c) \/ EndOfBody(c)
    \/ Sync(c) \/ Commit(c) \/ Throws(c) \/ Cleanup(c)

Next ==
    \/ \E c \in Calls : Begin(c) \/ Step(c) \/ Cancel(c) \/ Crash(c)
    \/ OwnerChanges

Spec == Init /\ [][Next]_vars

\* A running call goes on; the operating system and GitHub answer or fail.
FairSpec == Spec /\ \A c \in Calls : WF_vars(Step(c))

-----------------------------------------------------------------------------
\* Every variable keeps its type; in particular a body is read at most one chunk too far.
TypeOK ==
    /\ cache \in CacheFiles
    /\ pc \in [Calls -> Finished \cup Working]
    /\ part \in [Calls -> BOOLEAN]
    /\ received \in [Calls -> 0 .. Size + 1] /\ genuine \in [Calls -> BOOLEAN]
    /\ hop \in [Calls -> 0 .. Hops] /\ attempt \in [Calls -> 0 .. Attempts - 1]
    /\ aborted \in [Calls -> BOOLEAN] /\ touched \in [Calls -> BOOLEAN]
    /\ leftover \in BOOLEAN

\* The path a call returned names the reviewed bytes, cached or fetched, as long as the owner
\* leaves the cache alone and, as in the launcher (main.cjs:101), one call runs at a time;
\* README.md:68: "existing downloads and installations are verified before reuse".
ReturnedIsReviewed ==
    \A c \in Calls : pc[c] \in Returned /\ ~touched[c] => cache = "reviewed"

\* A call, failed, cancelled or killed, puts nothing but the reviewed package into the cache
\* (tests/download.test.mjs: "corrupt cache is replaced by newly verified bytes"; what a server
\* sends instead never gets there).
OnlyReviewedIsKept ==
    [][\A c \in Calls : pc'[c] # pc[c] /\ cache' # cache
          => cache' \in {"reviewed", "absent"}]_vars

\* A call never takes the reviewed package out of the cache, whatever it had found there before
\* and however often its removal was tried again, as long as the owner leaves the cache alone
\* and, as in the launcher (main.cjs:101), one call runs at a time: what is removed differs.
ReviewedStays ==
    [][\A c \in Calls : pc'[c] # pc[c] /\ cache = "reviewed" /\ ~touched[c]
          => cache' = "reviewed"]_vars

\* Every call ends, whatever the server and the file system answer, and when it has ended its
\* .part file is no more: it was renamed, or its removal was tried (README.md:68, "Failed or
\* cancelled partials are discarded").
CallEnds == \A c \in Calls : Running(c) ~> pc[c] \in Finished /\ ~part[c]
=============================================================================
