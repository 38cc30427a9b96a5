------------------------------ MODULE Publisher ------------------------------
(***************************************************************************)
(* publishApp of desktop/publish.mjs: an author submits an app.  Each call *)
(* makes a branch, a release with the package, a manifest and a pull       *)
(* request under a random name of its own; calls of one author share the   *)
(* author's fork of the catalog repository.                                *)
(*                                                                         *)
(* GitHub (external) may refuse any request, and its answer to one it has  *)
(* carried out may be lost: the launcher then gives up without knowing.    *)
(* A state of the upstream default branch is a number.                     *)
(***************************************************************************)
EXTENDS Naturals

CONSTANTS
    Calls,      \* calls of publishApp
    Writers,    \* calls of authors who have write access to the catalog repository
    Tries,      \* attempts to make the branch in a fork (12 in the code)
    MaxHead     \* bound on the changes of the upstream branch

ASSUME WritersAssumption == Writers \subseteq Calls
ASSUME BoundsAssumption == Tries \in Nat \ {0} /\ MaxHead \in Nat \ {0}

VARIABLES
    pc,          \* where each call stands
    temporary,   \* the call's temporary folder, with the package, is on disk
    since,       \* the upstream state when the call began
    base,        \* the upstream state the call has read
    try,         \* the attempt to make the branch, from 0
    confirmed,   \* assetCreated
    linked,      \* the error the author sees links the release
    head,        \* GitHub: the upstream default branch
    fork,        \* GitHub: the author's fork, "absent", "creating" or "ready"
    made         \* GitHub: what each call has made there

vars == <<pc, temporary, since, base, try, confirmed, linked, head, fork, made>>

\* The branch is the upstream state it starts from, 0 when there is none.
Objects == [branch : 0 .. MaxHead, release : BOOLEAN, asset : BOOLEAN,
            manifest : BOOLEAN, pull : BOOLEAN]
Nothing == [branch |-> 0, release |-> FALSE, asset |-> FALSE, manifest |-> FALSE, pull |-> FALSE]

\* Where a call goes when its request has succeeded; authors who can write upstream need no
\* fork.
After == [package |-> "user", user |-> "upstream",
          upstream |-> "fork",
          fork |-> "base", base |-> "branch", branch |-> "release", release |-> "asset",
          asset |-> "manifest", manifest |-> "pull", pull |-> "published"]
Finished == {"idle", "published", "failed"}
Running(c) == pc[c] \in DOMAIN After

-----------------------------------------------------------------------------
(***************************************************************************)
(* Faulty variants of operators below.                                     *)
(***************************************************************************)
\* The branch starts from where the fork was made.
ForkBase(c) == 1

\* A request without an answer is taken for one that was carried out.
GoesOnUnheard(c) ==
    pc' = [pc EXCEPT ![c] = After[pc[c]]] /\ UNCHANGED <<temporary, linked>>

\* The release is linked only in an error of the last request.
LinkedAtTheEnd(c) == pc[c] = "pull"

-----------------------------------------------------------------------------
Init ==
    /\ pc = [c \in Calls |-> "idle"]
    /\ temporary = [c \in Calls |-> FALSE]
    /\ since = [c \in Calls |-> 1] /\ base = [c \in Calls |-> 1]
    /\ try = [c \in Calls |-> 0]
    /\ confirmed = [c \in Calls |-> FALSE] /\ linked = [c \in Calls |-> FALSE]
    /\ head = 1
    /\ fork \in {"absent", "ready"}
    /\ made = [c \in Calls |-> Nothing]

\* The call begins to package the folder; the package and the author's fields are validated.
Begin(c) ==
    /\ pc[c] = "idle"
    /\ pc' = [pc EXCEPT ![c] = "package"]
    /\ temporary' = [temporary EXCEPT ![c] = TRUE]
    /\ since' = [since EXCEPT ![c] = head]
    /\ UNCHANGED <<base, try, confirmed, linked, head, fork, made>>

\* The request succeeds, and the call goes on to the next one.
Onward(c) == IF pc[c] = "upstream" /\ c \in Writers THEN "base" ELSE After[pc[c]]

GoOn(c) ==
    /\ pc' = [pc EXCEPT ![c] = Onward(c)]
    /\ temporary' = [temporary EXCEPT ![c] = @ /\ pc[c] # "pull"]
    /\ UNCHANGED linked

\* The catch block links the release once its upload is confirmed, the finally block removes
\* the temporary folder.
Links(c) == confirmed[c]

GiveUp(c) ==
    /\ pc' = [pc EXCEPT ![c] = "failed"]
    /\ temporary' = [temporary EXCEPT ![c] = FALSE]
    /\ linked' = [linked EXCEPT ![c] = Links(c)]

\* Packaging, GET /user, GET the catalog repository: nothing is made yet.
Prepare(c) ==
    /\ pc[c] \in {"package", "user", "upstream"}
    /\ GoOn(c)
    /\ UNCHANGED <<since, base, try, confirmed, head, fork, made>>

\* The author's fork is found, or GitHub is asked for one, which it goes on creating.
FindFork(c) ==
    /\ pc[c] = "fork"
    /\ fork' = IF fork = "absent" THEN "creating" ELSE fork
    /\ GoOn(c) \/ GiveUp(c)
    /\ UNCHANGED <<since, base, try, confirmed, head, made>>

\* The submission is based on the upstream branch, even when the fork is stale.
BaseOf(c) == head

ReadBase(c) ==
    /\ pc[c] = "base"
    /\ base' = [base EXCEPT ![c] = BaseOf(c)]
    /\ GoOn(c)
    /\ UNCHANGED <<since, try, confirmed, head, fork, made>>

\* GitHub carries a request out; its answer arrives, and the call goes on, or it is lost.
Unheard(c) == GiveUp(c)

MakeBranch(c) ==
    /\ pc[c] = "branch"
    /\ c \in Writers \/ fork = "ready"
    /\ made' = [made EXCEPT ![c].branch = base[c]]
    /\ GoOn(c) \/ Unheard(c)
    /\ UNCHANGED <<since, base, try, confirmed, head, fork>>

\* A fork that is not ready answers 404, 409 or 422, and is asked again after a pause.
MayTryAgain(c) == c \notin Writers /\ try[c] < Tries - 1

BranchNotYet(c) ==
    /\ pc[c] = "branch" /\ MayTryAgain(c)
    /\ try' = [try EXCEPT ![c] = @ + 1]
    /\ UNCHANGED <<pc, temporary, since, base, confirmed, linked, head, fork, made>>

\* The release, the manifest on the branch and the pull request.
Make(c) ==
    /\ pc[c] \in {"release", "manifest", "pull"}
    /\ made' = [made EXCEPT ![c][pc[c]] = TRUE]
    /\ GoOn(c) \/ Unheard(c)
    /\ UNCHANGED <<since, base, try, confirmed, head, fork>>

\* The package is uploaded; assetCreated is set when GitHub has said so.
Upload(c) ==
    /\ pc[c] = "asset"
    /\ \/ /\ made' = [made EXCEPT ![c].asset = TRUE]
          /\ confirmed' = [confirmed EXCEPT ![c] = TRUE]
          /\ GoOn(c)
       \/ /\ made' \in {made, [made EXCEPT ![c].asset = TRUE]}
          /\ Unheard(c)
          /\ UNCHANGED confirmed
    /\ UNCHANGED <<since, base, try, head, fork>>

\* A request is refused or does not reach GitHub.
Refused(c) ==
    /\ Running(c)
    /\ GiveUp(c)
    /\ UNCHANGED <<since, base, try, confirmed, head, fork, made>>

\* GitHub finishes a fork.
ForkReady ==
    /\ fork = "creating"
    /\ fork' = "ready"
    /\ UNCHANGED <<pc, temporary, since, base, try, confirmed, linked, head, made>>

\* A maintainer merges something upstream.
Merge ==
    /\ head < MaxHead
    /\ head' = head + 1
    /\ UNCHANGED <<pc, temporary, since, base, try, confirmed, linked, fork, made>>

Step(c) ==
    \/ Prepare(c) \/ FindFork(c) \/ ReadBase(c) \/ MakeBranch(c) \/ BranchNotYet(c)
    \/ Make(c) \/ Upload(c) \/ Refused(c)

Next ==
    \/ \E c \in Calls : Begin(c) \/ Step(c)
    \/ ForkReady \/ Merge

Spec == Init /\ [][Next]_vars

-----------------------------------------------------------------------------
\* Every variable keeps its type; the branch is tried at most Tries times, and a call that has
\* ended has removed its temporary folder.
TypeOK ==
    /\ pc \in [Calls -> DOMAIN After \cup Finished]
    /\ temporary \in [Calls -> BOOLEAN] /\ \A c \in Calls : temporary[c] <=> Running(c)
    /\ since \in [Calls -> 1 .. MaxHead] /\ base \in [Calls -> 1 .. MaxHead]
    /\ try \in [Calls -> 0 .. Tries - 1]
    /\ confirmed \in [Calls -> BOOLEAN] /\ linked \in [Calls -> BOOLEAN]
    /\ head \in 1 .. MaxHead /\ fork \in {"absent", "creating", "ready"}
    /\ made \in [Calls -> Objects]

\* A pull request never exists without the branch, the release, the whole package and the
\* manifest it asks a maintainer to review, whichever answer was lost on the way; and the
\* author is told of success only when it exists.
PullIsComplete ==
    \A c \in Calls :
        /\ made[c].pull => /\ made[c].branch # 0
                           /\ made[c].release /\ made[c].asset /\ made[c].manifest
        /\ pc[c] = "published" => made[c].pull

\* README.md:74, "Each submission starts from the current upstream default branch": the branch
\* starts from a state that upstream had during the call, even in an old fork.
StartsFromUpstream ==
    \A c \in Calls : made[c].branch # 0 => since[c] =< made[c].branch /\ made[c].branch =< head

\* README.md:76, "The uploaded release can remain if creating the PR later fails, and the
\* launcher links it for cleanup": a failure after the upload was confirmed links the release,
\* at whichever of the later steps it comes, so does one that leaves a manifest which names the
\* release, and a link is never to a release that does not exist.
ReleaseIsLinked ==
    \A c \in Calls : pc[c] = "failed" =>
        /\ confirmed[c] \/ made[c].manifest => linked[c]
        /\ linked[c] => made[c].asset
=============================================================================
