-------------------------- MODULE PublicationProofs --------------------------
(***************************************************************************)
(* What holds of Publication for any number of files, apps and revisions,  *)
(* whatever passes the verification and however maintainers merge.         *)
(***************************************************************************)
EXTENDS Publication, TLAPS

LEMMA ManifestOf ==
    ASSUME NEW p \in Paths, NEW k \in Nat, k < Revisions[p]
    PROVE  <<p, k + 1>> \in Manifests
<1>1. k + 1 \in 1 .. Revisions[p]
  BY RevisionsAssumption
<1> QED
  BY <1>1 DEF Manifests

LEMMA ManifestParts ==
    ASSUME NEW m \in Manifests
    PROVE  /\ m[1] \in Paths /\ m[2] \in Nat
           /\ App(m) \in Apps
BY AppsAssumption, RevisionsAssumption DEF Manifests, App

\* The newest of some manifests, if there is one, is one of them.
LEMMA NewestIsOne ==
    ASSUME NEW date, NEW manifests, Newest(date, manifests) # None
    PROVE  Newest(date, manifests) \in manifests
BY DEF Newest

\* What a list of approved manifests may hold for an app.
Approvable(a) == {m \in Manifests : m \in Sound /\ App(m) = a /\ merged[m] # 0}

ListsAreSound ==
    \A a \in Apps :
        /\ catalog[a] \in Approvable(a) \cup {None}
        /\ approved[a] \in Approvable(a) \cup {None}

\* An open pull request makes a revision that there is not yet; main and the checkout hold
\* merged revisions only.
RevisionsAreMerged ==
    /\ \A p \in Paths : open[p] # 0 => revision[p] < Revisions[p]
    /\ \A m \in files : merged[m] # 0 /\ m[2] =< revision[m[1]]
    /\ \A m \in tree : merged[m] # 0

\* While main has not moved, the commit to be pushed is based on it.
BranchIsMain == pc = "push" /\ ~behind => branch = files

Inv == TypeOK /\ ListsAreSound /\ RevisionsAreMerged /\ BranchIsMain

(***************************************************************************)
(* Steps of GitHub and the maintainers.                                    *)
(***************************************************************************)
LEMMA SubmitInv ==
    ASSUME Inv, NEW p \in Paths, Submit(p)
    PROVE  Inv'
<1> USE DEF Inv, Submit, run, main
<1>1. TypeOK'
  BY DEF TypeOK
<1>2. ListsAreSound'
  BY DEF ListsAreSound, Approvable
<1>3. RevisionsAreMerged'
  BY DEF RevisionsAreMerged, TypeOK
<1>4. BranchIsMain'
  BY DEF BranchIsMain
<1> QED
  BY <1>1, <1>2, <1>3, <1>4

LEMMA MergeInv ==
    ASSUME Inv, NEW p \in Paths, NEW how \in Methods, Merge(p, how)
    PROVE  Inv'
<1> DEFINE m == NextRevision(p)
<1>1. m \in Manifests /\ m[1] = p /\ m[2] = revision[p] + 1 /\ revision[p] \in Nat
  BY ManifestOf DEF Inv, TypeOK, RevisionsAreMerged, Merge, NextRevision
<1>2. clock' = clock + 1 /\ clock \in Nat /\ clock' # 0 /\ clock' \in Nat
  BY DEF Merge, Inv, TypeOK
<1>3. /\ merged' = [merged EXCEPT ![m] = clock']
      /\ revision' = [revision EXCEPT ![p] = revision[p] + 1]
      /\ files' = {n \in files : n[1] # p} \cup {m}
      /\ open' = [open EXCEPT ![p] = 0]
  BY DEF Merge, NextRevision
<1>4. TypeOK'
  <2>1. dated' \in [Manifests -> Nat] /\ behind' \in BOOLEAN /\ queued' \in BOOLEAN
    BY <1>1, <1>2 DEF Merge, NextRevision, Queue, Inv, TypeOK
  <2> QED
    BY <1>1, <1>2, <1>3, <2>1 DEF Inv, TypeOK, Merge, run
<1>5. \A n \in Manifests : merged[n] # 0 => merged'[n] # 0
  BY <1>1, <1>2, <1>3 DEF Inv, TypeOK
<1>6. ListsAreSound'
  <2>1. \A a \in Apps : Approvable(a) \subseteq Approvable(a)'
    BY <1>5 DEF Approvable
  <2> QED
    BY <2>1 DEF Inv, ListsAreSound, Merge, run
<1>7. RevisionsAreMerged'
  <2>1. \A q \in Paths : open'[q] # 0 => revision'[q] < Revisions[q]
    BY <1>3 DEF Inv, TypeOK, RevisionsAreMerged
  <2>2. merged'[m] # 0 /\ m[2] =< revision'[m[1]]
    BY <1>1, <1>2, <1>3 DEF Inv, TypeOK
  <2>3. \A n \in files : n[1] # p => merged'[n] # 0 /\ n[2] =< revision'[n[1]]
    BY <1>3, <1>5, ManifestParts DEF Inv, TypeOK, RevisionsAreMerged
  <2>4. tree' = tree /\ \A n \in tree : merged'[n] # 0
    BY <1>5 DEF Inv, TypeOK, RevisionsAreMerged, Merge, run
  <2> QED
    BY <1>3, <2>1, <2>2, <2>3, <2>4 DEF RevisionsAreMerged
<1>8. BranchIsMain'
  BY DEF BranchIsMain, Merge, run
<1> QED
  BY <1>4, <1>6, <1>7, <1>8 DEF Inv

LEMMA OthersInv ==
    ASSUME Inv, Dispatch \/ OtherPush \/ UNCHANGED vars
    PROVE  Inv'
<1> USE DEF Inv, Dispatch, OtherPush, vars, history, run, main
<1>1. TypeOK'
  BY DEF TypeOK
<1>2. ListsAreSound'
  BY DEF ListsAreSound, Approvable
<1>3. RevisionsAreMerged'
  BY DEF RevisionsAreMerged
<1>4. BranchIsMain'
  BY DEF BranchIsMain
<1> QED
  BY <1>1, <1>2, <1>3, <1>4

(***************************************************************************)
(* Steps of a run.                                                         *)
(***************************************************************************)
\* What a run approves is a merged manifest about the app, whose package has passed.
LEMMA VerifyInv ==
    ASSUME Inv, NEW a \in Apps, Verify(a)
    PROVE  Inv'
<1> USE DEF Inv
<1>1. Latest(a) \in Of(a, tree) /\ Latest(a) \in Sound
  BY NewestIsOne DEF Verify, Outstanding, Latest, Passes
<1>2. Latest(a) \in Approvable(a)
  BY <1>1 DEF Of, Approvable, RevisionsAreMerged, TypeOK
<1>3. /\ approved' = [approved EXCEPT ![a] = Latest(a)]
      /\ UNCHANGED <<clock, open, revision, merged, dated, files, catalog, queued, pc, tree, branch,
                     behind>>
  BY DEF Verify, history, main
<1>4. TypeOK'
  BY <1>2, <1>3 DEF TypeOK, Approvable
<1>5. ListsAreSound'
  BY <1>2, <1>3 DEF ListsAreSound, Approvable, TypeOK
<1>6. RevisionsAreMerged' /\ BranchIsMain'
  BY <1>3 DEF RevisionsAreMerged, BranchIsMain
<1> QED
  BY <1>4, <1>5, <1>6

LEMMA RunInv ==
    ASSUME Inv, Checkout \/ Commit \/ Rebase \/ Push \/ Fails
    PROVE  Inv'
<1> USE DEF Inv, Checkout, Commit, Rebase, Push, FastForward, Fails, Ends, Ended, history, main
<1>1. TypeOK'
  <2>1. CASE Checkout \/ Rebase
    BY <2>1 DEF TypeOK
  <2>2. CASE Commit \/ Push \/ Fails
    BY <2>2 DEF TypeOK
  <2> QED
    BY <2>1, <2>2
<1>2. ListsAreSound'
  <2>1. UNCHANGED merged
    OBVIOUS
  <2>3. [a \in Apps |-> None] \in [Apps -> {None}]
    OBVIOUS
  <2>2. \A a \in Apps : /\ catalog'[a] \in {catalog[a], approved[a]}
                        /\ approved'[a] \in {catalog[a], approved[a], None}
    OBVIOUS
  <2> QED
    BY <2>1, <2>2 DEF ListsAreSound, Approvable
<1>3. files' = files
  BY DEF BranchIsMain
<1>4. RevisionsAreMerged'
  BY <1>3 DEF RevisionsAreMerged
<1>5. BranchIsMain'
  BY DEF BranchIsMain
<1> QED
  BY <1>1, <1>2, <1>4, <1>5

\* The invariant that carries the theorems below.
THEOREM InvCorrect == Spec => []Inv
<1>1. Init => Inv
  <2> SUFFICES ASSUME Init PROVE Inv
    OBVIOUS
  <2>1. TypeOK
    BY DEF Init, TypeOK, Ended
  <2>2. ListsAreSound /\ RevisionsAreMerged /\ BranchIsMain
    BY DEF Init, ListsAreSound, RevisionsAreMerged, BranchIsMain
  <2> QED
    BY <2>1, <2>2 DEF Inv
<1>2. Inv /\ [Next]_vars => Inv'
  BY SubmitInv, MergeInv, OthersInv, VerifyInv, RunInv DEF Next, Step
<1> QED
  BY <1>1, <1>2, PTL DEF Spec

\* The state of main and of a run is well formed.
THEOREM TypeCorrect == Spec => []TypeOK
BY InvCorrect, PTL DEF Inv

\* Nothing is listed that was not merged for that app and has not passed, whatever runs fail.
THEOREM CatalogIsSoundCorrect == Spec => []CatalogIsSound
<1>1. Inv => CatalogIsSound
  BY DEF Inv, ListsAreSound, Approvable, CatalogIsSound
<1> QED
  BY <1>1, InvCorrect, PTL

\* However merges and pushes of the catalog interleave, only a newer revision of its file takes
\* a manifest off main.
THEOREM MergesSurviveCorrect == Spec => MergesSurvive
<1> DEFINE Survives == \A m \in files \ files' : \E n \in files' : n[1] = m[1] /\ n[2] > m[2]
<1>1. Inv /\ [Next]_vars => [Survives]_vars
  <2> SUFFICES ASSUME Inv, Next PROVE Survives
    BY DEF vars
  <2>1. ASSUME NEW p \in Paths, NEW how \in Methods, Merge(p, how) PROVE Survives
    <3>1. files' = {n \in files : n[1] # p} \cup {<<p, revision[p] + 1>>}
      BY <2>1 DEF Merge, NextRevision
    <3>2. \A m \in files : m[2] \in Nat /\ revision[m[1]] \in Nat /\ m[2] =< revision[m[1]]
      BY ManifestParts DEF Inv, TypeOK, RevisionsAreMerged
    <3>3. SUFFICES ASSUME NEW m \in files, m \notin files'
                   PROVE  \E n \in files' : n[1] = m[1] /\ n[2] > m[2]
      OBVIOUS
    <3>4. m[1] = p
      BY <3>1, <3>3
    <3>5. revision[p] + 1 > m[2]
      BY <3>2, <3>3, <3>4
    <3>6. <<p, revision[p] + 1>> \in files'
      BY <3>1
    <3> WITNESS <<p, revision[p] + 1>> \in files'
    <3> QED
      BY <3>4, <3>5
  <2>2. CASE \E p \in Paths : Submit(p)
    BY <2>2 DEF Submit, main
  <2>3. CASE Dispatch \/ OtherPush \/ Checkout \/ (\E a \in Apps : Verify(a)) \/ Rebase
    BY <2>3 DEF Dispatch, OtherPush, Checkout, Verify, Rebase, main
  <2>4. CASE Commit \/ Push \/ Fails
    BY <2>4 DEF Commit, Push, Fails, FastForward, Inv, BranchIsMain, main
  <2> QED
    BY <2>1, <2>2, <2>3, <2>4 DEF Next, Step
<1> QED
  BY <1>1, InvCorrect, PTL DEF Spec, MergesSurvive

(***************************************************************************)
(* What a run selects.  Dates of merges are of the past, so a merge is the *)
(* newest of its app; and a merge during a run dates none of the manifests *)
(* the run has checked out again.                                          *)
(***************************************************************************)
HasNewest(manifests) ==
    manifests # {} => \E m \in manifests : \A n \in manifests : merged[n] =< merged[m]

NewestInv ==
    /\ \A m \in Manifests : merged[m] =< clock
    /\ \A m \in tree : m[2] =< revision[m[1]]
    /\ \A a \in Apps : HasNewest(Of(a, files)) /\ HasNewest(Of(a, tree))
    /\ SelectsLatestMerged

\* The newest is the same by two dates that agree on the manifests.
LEMMA SameDatesSameNewest ==
    ASSUME NEW d, NEW e, NEW manifests, \A m \in manifests : d[m] = e[m]
    PROVE  Newest(d, manifests) = Newest(e, manifests)
<1> DEFINE newest(date) == {m \in manifests : \A n \in manifests : date[n] =< date[m]}
           first(date) == IF newest(date) = {} THEN None ELSE CHOOSE m \in newest(date) : TRUE
<1>1. newest(d) = newest(e)
  OBVIOUS
<1>2. first(d) = first(e)
  <2> HIDE DEF newest
  <2> QED
    BY <1>1
<1> QED
  BY <1>2, Zenon DEF Newest

\* The manifest a run takes for an app, all of whose manifests it sees dated as merged.
LEMMA SameNewest ==
    ASSUME Inv, NewestInv, NEW a \in Apps, Of(a, tree) # {},
           \A m \in Of(a, tree) : dated[m] = merged[m]
    PROVE  Latest(a) = Newest(merged, Of(a, tree)) /\ Latest(a) # None
<1> DEFINE newest == {m \in Of(a, tree) : \A n \in Of(a, tree) : merged[n] =< merged[m]}
<1>1. Latest(a) = Newest(merged, Of(a, tree))
  BY SameDatesSameNewest DEF Latest
<1>2. newest # {}
  BY DEF NewestInv, HasNewest
<1>3. Newest(merged, Of(a, tree)) = CHOOSE m \in newest : TRUE
  BY <1>2 DEF Newest
<1>4. Newest(merged, Of(a, tree)) \in Manifests
  BY <1>2, <1>3 DEF Inv, TypeOK, Of
<1> QED
  BY <1>1, <1>4, NoneAssumption

LEMMA MergeIsNewest ==
    ASSUME Inv, NewestInv, NEW p \in Paths, NEW how \in Methods, Merge(p, how)
    PROVE  NewestInv'
<1> DEFINE m == NextRevision(p)
<1>1. m \in Manifests /\ m[1] = p /\ m[2] = revision[p] + 1 /\ revision[p] \in Nat
  BY ManifestOf DEF Inv, TypeOK, RevisionsAreMerged, Merge, NextRevision
<1>2. clock' = clock + 1 /\ clock \in Nat
  BY DEF Merge, Inv, TypeOK
<1>3. /\ \E date : dated' = [dated EXCEPT ![m] = date]
      /\ merged' = [merged EXCEPT ![m] = clock']
      /\ revision' = [revision EXCEPT ![p] = revision[p] + 1]
      /\ files' = {n \in files : n[1] # p} \cup {m}
      /\ UNCHANGED <<pc, tree, approved>>
  BY DEF Merge, NextRevision, run
<1>4. /\ merged'[m] = clock'
      /\ \A n \in Manifests : n # m => merged'[n] = merged[n] /\ dated'[n] = dated[n]
  BY <1>1, <1>3 DEF Inv, TypeOK
<1>5. \A n \in Manifests : merged'[n] \in Nat /\ merged'[n] =< clock'
  BY <1>2, <1>4 DEF NewestInv, Inv, TypeOK
<1>6. m \notin tree /\ tree \subseteq Manifests /\ files \subseteq Manifests
  BY <1>1 DEF NewestInv, Inv, TypeOK
<1>7. \A n \in tree' : n[2] =< revision'[n[1]]
  <2>1. ASSUME NEW n \in tree PROVE n[2] =< revision'[n[1]]
    <3>1. n[1] \in Paths /\ n[2] \in Nat /\ n[2] =< revision[n[1]]
      BY <1>6, ManifestParts DEF NewestInv
    <3>2. revision[n[1]] \in Nat /\ revision'[n[1]] \in {revision[n[1]], revision[n[1]] + 1}
      BY <1>3, <3>1 DEF Inv, TypeOK
    <3> QED
      BY <3>1, <3>2
  <2> QED
    BY <1>3, <2>1
<1>8. ASSUME NEW a \in Apps PROVE HasNewest(Of(a, files))' /\ HasNewest(Of(a, tree))'
  <2>1. HasNewest(Of(a, tree))'
    BY <1>3, <1>4, <1>6 DEF NewestInv, HasNewest, Of
  <2>2. CASE a = App(m)
    <3>1. m \in Of(a, files)'
      BY <1>3, <2>2 DEF Of
    <3>2. \A n \in Of(a, files)' : merged'[n] =< merged'[m]
      BY <1>1, <1>3, <1>4, <1>5, <1>6 DEF Of
    <3> QED
      BY <2>1, <3>1, <3>2 DEF HasNewest
  <2>3. CASE a # App(m)
    <3>1. \A n \in files : n[1] = p => App(n) # a
      BY <1>1, <2>3 DEF App
    <3>2. Of(a, files)' = Of(a, files) /\ m \notin Of(a, files)
      BY <1>3, <2>3, <3>1 DEF Of, App
    <3> QED
      BY <1>4, <1>6, <2>1, <3>2 DEF NewestInv, HasNewest, Of
  <2> QED
    BY <2>2, <2>3, <2>1
<1>9. SelectsLatestMerged'
  <2>1. SUFFICES ASSUME pc = "commit", NEW a \in Apps, Of(a, tree) # {},
                        \A n \in Of(a, tree) : dated'[n] = merged'[n]
                 PROVE  approved[a] = Newest(merged', Of(a, tree))
    BY <1>3 DEF SelectsLatestMerged, Of, App
  <2>2. \A n \in Of(a, tree) : merged'[n] = merged[n] /\ dated'[n] = dated[n]
    BY <1>4, <1>6 DEF Of
  <2>3. Newest(merged', Of(a, tree)) = Newest(merged, Of(a, tree))
    BY <2>2, SameDatesSameNewest
  <2> QED
    BY <2>1, <2>2, <2>3 DEF NewestInv, SelectsLatestMerged
<1> QED
  BY <1>5, <1>7, <1>8, <1>9 DEF NewestInv

LEMMA StepKeepsNewest ==
    ASSUME Inv, NewestInv, [Next]_vars
    PROVE  NewestInv'
<1>1. CASE \E p \in Paths : \E how \in Methods : Merge(p, how)
  BY <1>1, MergeIsNewest
<1>2. ASSUME NEW p \in Paths, Submit(p) PROVE NewestInv'
  <2>1. clock' = clock + 1 /\ UNCHANGED <<revision, merged, dated, files, pc, tree, approved>>
    BY <1>2 DEF Submit, main, run
  <2>2. \A m \in Manifests : merged'[m] =< clock'
    BY <2>1 DEF NewestInv, Inv, TypeOK
  <2> QED
    BY <2>1, <2>2 DEF NewestInv, HasNewest, SelectsLatestMerged, Of
<1>3. CASE Checkout
  <2>1. /\ pc' = "verify" /\ tree' = files
        /\ UNCHANGED <<clock, revision, merged, dated, files>>
    BY <1>3 DEF Checkout, history, main
  <2> QED
    BY <2>1 DEF NewestInv, HasNewest, SelectsLatestMerged, Of, Inv, RevisionsAreMerged
<1>4. CASE Commit
  <2>1. /\ pc' = "commit" => approved' = approved
        /\ UNCHANGED <<clock, revision, merged, dated, files, tree>>
    BY <1>4 DEF Commit, Ends, history, main
  <2>2. \A a \in Apps : Latest(a) \in {None, approved[a]}
    BY <1>4 DEF Commit, Outstanding
  <2>3. SelectsLatestMerged'
    <3>1. SUFFICES ASSUME pc' = "commit", NEW a \in Apps, Of(a, tree) # {},
                          \A n \in Of(a, tree) : dated[n] = merged[n]
                   PROVE  approved[a] = Newest(merged, Of(a, tree))
      BY <2>1 DEF SelectsLatestMerged, Of, App
    <3> QED
      BY <2>2, <3>1, SameNewest
  <2> QED
    BY <2>1, <2>3 DEF NewestInv, HasNewest, Of
<1>5. CASE Rebase \/ Push \/ Fails \/ \E a \in Apps : Verify(a)
  <2>1. UNCHANGED <<clock, revision, merged, dated, tree>> /\ pc' # "commit"
    BY <1>5 DEF Rebase, Push, Fails, Ends, Ended, Verify, history
  <2>2. files' = files
    BY <1>5 DEF Rebase, Push, Fails, Verify, main, FastForward, Inv, BranchIsMain
  <2> QED
    BY <2>1, <2>2 DEF NewestInv, HasNewest, SelectsLatestMerged, Of
<1>6. CASE Dispatch \/ OtherPush \/ UNCHANGED vars
  <2>1. UNCHANGED <<clock, revision, merged, dated, files, tree, pc, approved>>
    BY <1>6 DEF Dispatch, OtherPush, vars, history, main, run
  <2> QED
    BY <2>1 DEF NewestInv, HasNewest, SelectsLatestMerged, Of
<1> QED
  BY <1>1, <1>2, <1>3, <1>4, <1>5, <1>6 DEF Next, Step

\* docs/OPERATIONS.md:35: the catalog a run commits lists, for each app none of whose manifests
\* came by a merge commit, the newest merge of what the run checked out.
THEOREM SelectsLatestCorrect == Spec => []SelectsLatestMerged
<1>1. Init => NewestInv
  <2> SUFFICES ASSUME Init PROVE NewestInv
    OBVIOUS
  <2>1. \A a \in Apps : Of(a, files) = {} /\ Of(a, tree) = {}
    BY DEF Init, Of
  <2> QED
    BY <2>1 DEF Init, NewestInv, HasNewest, SelectsLatestMerged
<1>2. Inv /\ NewestInv /\ [Next]_vars => NewestInv'
  BY StepKeepsNewest
<1>3. NewestInv => SelectsLatestMerged
  BY DEF NewestInv
<1> QED
  BY <1>1, <1>2, <1>3, InvCorrect, PTL DEF Spec
=============================================================================
