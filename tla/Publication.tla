----------------------------- MODULE Publication -----------------------------
(***************************************************************************)
(* How a merged submission gets into the catalog: publishCatalog of        *)
(* scripts/catalog.mjs, run by .github/workflows/catalog.yml.              *)
(*                                                                         *)
(* Pull requests add manifests to main, or correct them, while a run of    *)
(* the workflow verifies, for minutes, what it has checked out.  The run   *)
(* then rebases its commit of catalog/apps.json onto main and pushes it.   *)
(* GitHub starts one run at a time and keeps at most one waiting.          *)
(*                                                                         *)
(* A manifest is a path and a revision of that file.  What the             *)
(* verification of one finds never changes: release assets are not         *)
(* replaced (CONTRIBUTING.md).  Nothing but this workflow changes          *)
(* catalog/apps.json on main, so its rebase meets no conflict.             *)
(***************************************************************************)
EXTENDS Naturals

CONSTANTS
    Paths,          \* files under submissions/ and catalog/submissions/
    Apps,           \* app IDs
    AppOf,          \* the app each file is about
    Revisions,      \* bound on the revisions of each file
    Sound,          \* manifests whose package passes the verification
    Methods,        \* how maintainers merge: "squash", "merge"
    None            \* no manifest

Manifests == UNION {{p} \X (1 .. Revisions[p]) : p \in Paths}

ASSUME AppsAssumption == AppOf \in [Paths -> Apps]
ASSUME RevisionsAssumption == Revisions \in [Paths -> Nat]
ASSUME NoneAssumption == None \notin Manifests
ASSUME MethodsAssumption == Methods \subseteq {"squash", "merge"}

VARIABLES
    clock,      \* commits so far, on any branch
    open,       \* per path, the date of the commit in its open pull request, or 0
    revision,   \* per path, the revisions merged so far
    merged,     \* per manifest, the date of its merge, or 0
    dated,      \* per manifest, the date git log gives its commit, or 0
    files,      \* the manifests on main
    catalog,    \* catalog/apps.json on main: the manifest listed for each app
    queued,     \* a run of the workflow waits
    pc,         \* where the run stands
    tree,       \* the manifests the run has checked out
    approved,   \* the run's list of approved manifests
    branch,     \* the manifests in the run's commit
    behind      \* main has moved since that commit was rebased onto it

history == <<clock, open, revision, merged, dated>>
main == <<files, catalog>>
run == <<pc, tree, approved, branch>>
vars == <<history, main, queued, run, behind>>

Ended == {"idle", "published", "failed"}
App(m) == AppOf[m[1]]
Of(a, manifests) == {m \in manifests : App(m) = a}

\* The newest by a date, None if there is none.
Newest(date, manifests) ==
    LET newest == {m \in manifests : \A n \in manifests : date[n] =< date[m]} IN
    IF newest = {} THEN None ELSE CHOOSE m \in newest : TRUE

-----------------------------------------------------------------------------
(***************************************************************************)
(* Faulty variants of operators below.                                     *)
(***************************************************************************)
\* A package that does not pass is reported, and listed all the same.
Reported(a) == TRUE

\* git log without --reverse: the oldest submission of an app stays.
LatestUnreversed(a) ==
    LET oldest == {m \in Of(a, tree) : \A n \in Of(a, tree) : dated[m] =< dated[n]} IN
    IF oldest = {} THEN None ELSE CHOOSE m \in oldest : TRUE

\* git push --force
Forced == TRUE

\* A push that finds the workflow running is not queued.
QueueUnlessRunning == queued' = (queued \/ pc \in Ended)

-----------------------------------------------------------------------------
\* order: git log --reverse lists the files of older commits first, and the last entry of an
\* app stays in the map.
Latest(a) == Newest(dated, Of(a, tree))

\* The apps whose latest submission is not what is listed.
Outstanding == {a \in Apps : Latest(a) \notin {None, approved[a]}}

Init ==
    /\ clock = 0
    /\ open = [p \in Paths |-> 0]
    /\ revision = [p \in Paths |-> 0]
    /\ merged = [m \in Manifests |-> 0] /\ dated = [m \in Manifests |-> 0]
    /\ files = {}
    /\ catalog = [a \in Apps |-> None]
    /\ queued = FALSE
    /\ pc = "idle"
    /\ tree = {} /\ branch = {}
    /\ approved = [a \in Apps |-> None]
    /\ behind = FALSE

\* The revision a merge of the file makes.
NextRevision(p) == <<p, revision[p] + 1>>

\* A pull request with a manifest; its commit is made now.
Submit(p) ==
    /\ open[p] = 0 /\ revision[p] < Revisions[p]
    /\ clock' = clock + 1
    /\ open' = [open EXCEPT ![p] = clock']
    /\ UNCHANGED <<revision, merged, dated, main, queued, run, behind>>

\* on.push.paths: the merge of a submission queues a run, beside the one that is running.
Queue == queued' = TRUE

\* A squash is a new commit; a merge commit leaves the author's with its date.
Merge(p, how) ==
    LET m == NextRevision(p) IN
    /\ open[p] # 0
    /\ clock' = clock + 1
    /\ revision' = [revision EXCEPT ![p] = @ + 1]
    /\ merged' = [merged EXCEPT ![m] = clock']
    /\ dated' = [dated EXCEPT ![m] = IF how = "squash" THEN clock' ELSE open[p]]
    /\ open' = [open EXCEPT ![p] = 0]
    /\ files' = {n \in files : n[1] # p} \cup {m}
    /\ Queue
    /\ behind' = (pc = "push")
    /\ UNCHANGED <<catalog, run>>

\* workflow_dispatch
Dispatch ==
    /\ ~queued
    /\ queued' = TRUE
    /\ UNCHANGED <<history, main, run, behind>>

\* A push that touches no submission; it matters between the pull and the push of a run.
OtherPush ==
    /\ pc = "push" /\ ~behind
    /\ behind' = TRUE
    /\ UNCHANGED <<history, main, queued, run>>

\* The waiting run starts, checks out main as it is now and reads apps.json and the manifests.
Checkout ==
    /\ queued /\ pc \in Ended
    /\ queued' = FALSE
    /\ pc' = "verify"
    /\ tree' = files
    /\ approved' = catalog
    /\ UNCHANGED <<history, main, branch, behind>>

\* inspect-submission.mjs and moderate.mjs exit with 0.
Passes(a) == Latest(a) \in Sound

Verify(a) ==
    /\ pc = "verify" /\ a \in Outstanding
    /\ Passes(a)
    /\ approved' = [approved EXCEPT ![a] = Latest(a)]
    /\ UNCHANGED <<history, main, queued, pc, tree, branch, behind>>

\* The runner goes, and the run's clone of the repository with it.
Ends(how) ==
    /\ pc' = how
    /\ approved' = [a \in Apps |-> None] /\ branch' = {} /\ behind' = FALSE

\* apps.json is written; git diff finds it changed, or there is nothing to commit.
Commit ==
    /\ pc = "verify" /\ Outstanding = {}
    /\ IF approved = catalog
       THEN Ends("published") /\ UNCHANGED main
       ELSE pc' = "commit" /\ UNCHANGED <<main, approved, branch, behind>>
    /\ UNCHANGED <<history, queued, tree>>

\* git pull --rebase
Rebase ==
    /\ pc = "commit"
    /\ pc' = "push"
    /\ branch' = files
    /\ UNCHANGED <<history, main, queued, tree, approved, behind>>

\* git push: refused when main has moved again.
FastForward == ~behind

Push ==
    /\ pc = "push"
    /\ IF FastForward
       THEN Ends("published") /\ files' = branch /\ catalog' = approved
       ELSE Ends("failed") /\ UNCHANGED main
    /\ UNCHANGED <<history, queued, tree>>

\* A package does not pass or cannot be fetched, a manifest is invalid, the runner is lost, the
\* pull or the push does not reach GitHub: nothing of the run is left.
Fails ==
    /\ pc \notin Ended
    /\ Ends("failed")
    /\ UNCHANGED <<history, main, queued, tree>>

Step == Checkout \/ (\E a \in Apps : Verify(a)) \/ Commit \/ Rebase \/ Push \/ Fails

Next ==
    \/ \E p \in Paths : Submit(p) \/ \E how \in Methods : Merge(p, how)
    \/ Dispatch \/ OtherPush
    \/ Step

Spec == Init /\ [][Next]_vars

\* GitHub starts the run that waits, and every step of a run ends or times out.
FairSpec == Spec /\ WF_vars(Step)

-----------------------------------------------------------------------------
\* Every variable keeps its type.
TypeOK ==
    /\ clock \in Nat /\ open \in [Paths -> Nat] /\ revision \in [Paths -> Nat]
    /\ merged \in [Manifests -> Nat] /\ dated \in [Manifests -> Nat]
    /\ files \subseteq Manifests
    /\ catalog \in [Apps -> Manifests \cup {None}]
    /\ queued \in BOOLEAN
    /\ pc \in Ended \cup {"verify", "commit", "push"}
    /\ tree \subseteq Manifests /\ branch \subseteq Manifests
    /\ approved \in [Apps -> Manifests \cup {None}]
    /\ behind \in BOOLEAN

\* docs/OPERATIONS.md:35, "It updates catalog/apps.json only when verification succeeds": what is
\* listed was merged, is about that app and has passed, however many runs have failed half way.
CatalogIsSound ==
    \A a \in Apps : catalog[a] # None =>
        catalog[a] \in Sound /\ App(catalog[a]) = a /\ merged[catalog[a]] # 0

\* docs/OPERATIONS.md:35, "selects the most recently merged manifest per app ID": what a run
\* commits is, for each app, the newest merge of its checkout - where no merge commit has kept
\* the date of the author's own commit, which is the date git log goes by.
SelectsLatestMerged ==
    pc = "commit" =>
        \A a \in Apps :
            LET seen == Of(a, tree) IN
            seen # {} /\ (\A m \in seen : dated[m] = merged[m])
                => approved[a] = Newest(merged, seen)

\* A push of the catalog never takes a merged manifest off main: only its next revision does.
MergesSurvive ==
    [][\A m \in files \ files' : \E n \in files' : n[1] = m[1] /\ n[2] > m[2]]_vars

\* A merged manifest does not stay unnoticed, also when it was merged during a run: as soon as
\* no more are merged for a while, each one is listed, or a newer one has taken its place, or a
\* run that had it checked out has failed, which a maintainer can see.
Noticed(m) ==
    \/ catalog[App(m)] = m
    \/ m # Newest(dated, Of(App(m), files))
    \/ pc = "failed" /\ m \in tree

MergedIsNoticed == []<>(\A m \in files : Noticed(m))
=============================================================================
