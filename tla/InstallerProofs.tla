--------------------------- MODULE InstallerProofs ---------------------------
(***************************************************************************)
(* What holds of Installer for any number of installers, any set of files  *)
(* and any number of attempts.                                             *)
(***************************************************************************)
EXTENDS Installer, TLAPS

(***************************************************************************)
(* Typing.  A file is only ever unpacked into a staging folder the call    *)
(* holds, so the types rest on who holds a folder and are proved with it.  *)
(***************************************************************************)
LEMMA FolderFacts ==
    /\ EmptyFolder \in Folder
    /\ ReviewedFolder \in Folder
    /\ Absent \notin Folder
BY AbsentAssumption DEF EmptyFolder, ReviewedFolder, Folder, Contents

\* Whatever the package holds, reading one of its files yields bytes of a known kind; a
\* reviewed package yields the reviewed bytes.
LEMMA ReadBytes ==
    ASSUME NEW p, NEW read \in FileBytes(p)
    PROVE  read.bytes \in Contents /\ (p = "reviewed" => read.bytes = "reviewed")
BY DEF FileBytes, Contents

Typed == TypeOK /\ StagingIsOwned

LEMMA InitTyped == Init => Typed
BY AttemptsAssumption DEF Init, Typed, TypeOK, StagingIsOwned, HoldsStaging, Packages, Finished, Working

LEMMA StepTyped ==
    ASSUME Typed, NEW i \in Installers, Step(i)
    PROVE  Typed'
<1> USE FolderFacts DEF Typed, TypeOK, StagingIsOwned, HoldsStaging, Finished, Working
<1>1. CASE LookupTarget(i)
  BY <1>1 DEF LookupTarget
<1>2. CASE InspectPackage(i)
  BY <1>2 DEF InspectPackage
<1>3. ASSUME NEW f \in Files, VerifyFile(i, f) PROVE Typed'
  BY <1>3 DEF VerifyFile
<1>4. CASE ReuseInstalled(i)
  BY <1>4 DEF ReuseInstalled
<1>5. CASE Stage(i)
  BY <1>5 DEF Stage
<1>6. CASE ReadInventory(i)
  BY <1>6 DEF ReadInventory
<1>7. ASSUME NEW f \in Files, OpenFile(i, f) PROVE Typed'
  BY <1>7 DEF OpenFile, Folder, Contents
<1>8. CASE FinishFile(i)
  <2>1. CASE aborted[i]
    BY <1>8, <2>1 DEF FinishFile
  <2>2. CASE ~aborted[i]
    <3>1. PICK read \in FileBytes(package[i]) :
            /\ staging' = [staging EXCEPT ![i][writing[i]] = read.bytes]
            /\ IF read.matches
               THEN done' = [done EXCEPT ![i] = @ \cup {writing[i]}] /\ UNCHANGED pc
               ELSE pc' = [pc EXCEPT ![i] = "cleanup"] /\ UNCHANGED done
      BY <1>8, <2>2 DEF FinishFile
    <3>2. read.bytes \in Contents
      BY <3>1, ReadBytes
    <3>3. staging[i] \in Folder /\ writing[i] \in Files
      BY <1>8 DEF FinishFile
    <3>4. staging' \in [Installers -> Folder \cup {Absent}] /\ staging'[i] \in Folder
      BY <3>1, <3>2, <3>3 DEF Folder
    <3>5. /\ writing' = [writing EXCEPT ![i] = NoFile]
          /\ UNCHANGED <<target, package, attempt, aborted, touched, leftover>>
          /\ pc[i] = "unpack"
      BY <1>8 DEF FinishFile
    <3>6. staging'[i] # Absent /\ \A j \in Installers \ {i} : staging'[j] = staging[j]
      BY <3>1, <3>4
    <3>7. CASE read.matches
      <4>1. done' \in [Installers -> SUBSET Files]
        BY <3>1, <3>3, <3>7
      <4> QED
        BY <3>1, <3>4, <3>5, <3>6, <3>7, <4>1
    <3>8. CASE ~read.matches
      BY <3>1, <3>4, <3>5, <3>6, <3>8
    <3> QED
      BY <3>7, <3>8
  <2> QED
    BY <2>1, <2>2
<1>9. CASE CheckPackage(i)
  BY <1>9 DEF CheckPackage
<1>10. CASE RecheckTarget(i)
  BY <1>10 DEF RecheckTarget
<1>11. CASE StartAttempt(i)
  BY <1>11 DEF StartAttempt
<1>12. CASE Rename(i)
  BY <1>12 DEF Rename
<1>13. CASE RenameFails(i)
  BY <1>13, AttemptsAssumption DEF RenameFails, MayRetry
<1>14. CASE FileError(i)
  BY <1>14 DEF FileError, Running, Working
<1>15. CASE Cleanup(i)
  BY <1>15 DEF Cleanup
<1> QED
  BY <1>1, <1>2, <1>3, <1>4, <1>5, <1>6, <1>7, <1>8, <1>9, <1>10, <1>11, <1>12,
     <1>13, <1>14, <1>15 DEF Step

LEMMA NextTyped == Typed /\ [Next]_vars => Typed'
<1> SUFFICES ASSUME Typed, [Next]_vars PROVE Typed'
  OBVIOUS
<1> USE DEF Typed, TypeOK, StagingIsOwned, HoldsStaging
<1>1. ASSUME NEW i \in Installers, Begin(i) PROVE Typed'
  BY <1>1, AttemptsAssumption DEF Begin, Finished, Working
<1>2. ASSUME NEW i \in Installers, Step(i) PROVE Typed'
  BY <1>2, StepTyped
<1>3. ASSUME NEW i \in Installers, Cancel(i) PROVE Typed'
  BY <1>3 DEF Cancel
<1>4. ASSUME NEW i \in Installers, Crash(i) PROVE Typed'
  BY <1>4 DEF Crash, Finished
<1>5. CASE OwnerChanges
  BY <1>5 DEF OwnerChanges
<1>6. CASE UNCHANGED vars
  BY <1>6 DEF vars
<1> QED
  BY <1>1, <1>2, <1>3, <1>4, <1>5, <1>6 DEF Next

LEMMA AlwaysTyped == Spec => []Typed
BY InitTyped, NextTyped, PTL DEF Spec

\* Every reachable state is typed; the final rename is tried at most Attempts times.
THEOREM TypeCorrect == Spec => []TypeOK
BY AlwaysTyped, PTL DEF Typed

\* No exit of a call forgets its staging folder.
THEOREM StagingCorrect == Spec => []StagingIsOwned
BY AlwaysTyped, PTL DEF Typed

(***************************************************************************)
(* The answers are true.                                                   *)
(*                                                                         *)
(* Three steps are delicate.  ReuseInstalled answers for a folder it has   *)
(* looked at file by file: VerifiedSoFar says the files it accepted are    *)
(* still as it saw them, because only the owner changes a folder that is   *)
(* there.  CheckPackage lets a staging folder through: UnpackedSoFar says  *)
(* it is whole and reviewed.  Rename puts it in place where nothing was,   *)
(* so no other call's answer, or half-finished comparison, is about a      *)
(* folder that just disappeared.                                           *)
(***************************************************************************)
Facts == NothingDoneYet /\ VerifiedSoFar /\ UnpackedSoFar /\ AnswerIsTrue /\ OneInstalls

LEMMA InitFacts == Init => Facts
BY DEF Init, Facts, NothingDoneYet, VerifiedSoFar, UnpackedSoFar, AnswerIsTrue, OneInstalls

\* A folder all of whose files are the reviewed ones is the reviewed build.
LEMMA AllReviewed ==
    ASSUME NEW folder \in Folder, \A f \in Files : folder[f] = "reviewed"
    PROVE  folder = ReviewedFolder
BY DEF Folder, ReviewedFolder

LEMMA StepFacts ==
    ASSUME Typed, Facts, NEW i \in Installers, Step(i)
    PROVE  Facts'
<1> USE FolderFacts DEF Typed, TypeOK, Facts, NothingDoneYet, VerifiedSoFar,
        UnpackedSoFar, AnswerIsTrue, OneInstalls
<1>1. CASE LookupTarget(i)
  BY <1>1 DEF LookupTarget
<1>2. CASE InspectPackage(i)
  BY <1>2 DEF InspectPackage
<1>3. ASSUME NEW f \in Files, VerifyFile(i, f) PROVE Facts'
  BY <1>3 DEF VerifyFile, Unchanged
<1>4. CASE ReuseInstalled(i)
  BY <1>4, FilesAssumption, AllReviewed DEF ReuseInstalled
<1>5. CASE Stage(i)
  BY <1>5 DEF Stage
<1>6. CASE ReadInventory(i)
  BY <1>6 DEF ReadInventory
<1>7. ASSUME NEW f \in Files, OpenFile(i, f) PROVE Facts'
  <2>1. CASE aborted[i]
    BY <1>7, <2>1 DEF OpenFile
  <2>2. CASE ~aborted[i]
    <3>1. staging[i] \in Folder
      BY <1>7 DEF OpenFile, StagingIsOwned, HoldsStaging
    <3>2. /\ staging' = [staging EXCEPT ![i][f] = "partial"]
          /\ UNCHANGED <<target, pc, package, done, touched>>
          /\ f \notin done[i] /\ pc[i] = "unpack"
      BY <1>7, <2>2 DEF OpenFile
    <3>3. \A g \in done[i] : staging'[i][g] = staging[i][g]
      BY <3>1, <3>2 DEF Folder
    <3>4. UnpackedSoFar'
      BY <3>2, <3>3
    <3> QED
      BY <3>2, <3>4
  <2> QED
    BY <2>1, <2>2
<1>8. CASE FinishFile(i)
  <2>0. /\ pc[i] = "unpack"
        /\ UNCHANGED <<target, package, touched>>
    BY <1>8 DEF FinishFile
  <2>1. CASE aborted[i]
    BY <1>8, <2>0, <2>1 DEF FinishFile
  <2>2. CASE ~aborted[i]
    <3>1. PICK read \in FileBytes(package[i]) :
            /\ staging' = [staging EXCEPT ![i][writing[i]] = read.bytes]
            /\ IF read.matches
               THEN done' = [done EXCEPT ![i] = @ \cup {writing[i]}] /\ UNCHANGED pc
               ELSE pc' = [pc EXCEPT ![i] = "cleanup"] /\ UNCHANGED done
      BY <1>8, <2>2 DEF FinishFile
    <3>2. staging[i] \in Folder /\ writing[i] \in Files
      BY <1>8 DEF FinishFile, StagingIsOwned, HoldsStaging
    <3>3. /\ staging'[i] = [staging[i] EXCEPT ![writing[i]] = read.bytes]
          /\ \A j \in Installers \ {i} : staging'[j] = staging[j]
      BY <3>1
    <3>4. package[i] = "reviewed" =>
            \A g \in done[i] \cup {writing[i]} : staging'[i][g] = "reviewed"
      BY <2>0, <3>2, <3>3, ReadBytes DEF Folder
    <3>5. CASE read.matches
      BY <2>0, <3>1, <3>3, <3>4, <3>5
    <3>6. CASE ~read.matches
      BY <2>0, <3>1, <3>3, <3>6
    <3> QED
      BY <3>5, <3>6
  <2> QED
    BY <2>1, <2>2
<1>9. CASE CheckPackage(i)
  BY <1>9, AllReviewed DEF CheckPackage, PackageAccepted, StagingIsOwned, HoldsStaging
<1>10. CASE RecheckTarget(i)
  BY <1>10 DEF RecheckTarget
<1>11. CASE StartAttempt(i)
  BY <1>11 DEF StartAttempt
<1>12. CASE Rename(i)
  BY <1>12 DEF Rename, RenameAllowed
<1>13. CASE RenameFails(i)
  BY <1>13 DEF RenameFails
<1>14. CASE FileError(i)
  BY <1>14 DEF FileError
<1>15. CASE Cleanup(i)
  BY <1>15 DEF Cleanup
<1> QED
  BY <1>1, <1>2, <1>3, <1>4, <1>5, <1>6, <1>7, <1>8, <1>9, <1>10, <1>11, <1>12,
     <1>13, <1>14, <1>15 DEF Step

LEMMA NextFacts == Typed /\ Facts /\ [Next]_vars => Facts'
<1> SUFFICES ASSUME Typed, Facts, [Next]_vars PROVE Facts'
  OBVIOUS
<1> USE FolderFacts DEF Typed, TypeOK, Facts, NothingDoneYet, VerifiedSoFar, UnpackedSoFar,
        AnswerIsTrue, OneInstalls
<1>1. ASSUME NEW i \in Installers, Begin(i) PROVE Facts'
  BY <1>1 DEF Begin
<1>2. ASSUME NEW i \in Installers, Step(i) PROVE Facts'
  BY <1>2, StepFacts
<1>3. ASSUME NEW i \in Installers, Cancel(i) PROVE Facts'
  BY <1>3 DEF Cancel
<1>4. ASSUME NEW i \in Installers, Crash(i) PROVE Facts'
  BY <1>4 DEF Crash
<1>5. CASE OwnerChanges
  BY <1>5 DEF OwnerChanges
<1>6. CASE UNCHANGED vars
  BY <1>6 DEF vars
<1> QED
  BY <1>1, <1>2, <1>3, <1>4, <1>5, <1>6 DEF Next

LEMMA AlwaysFacts == Spec => [](Typed /\ Facts)
BY InitTyped, InitFacts, NextTyped, NextFacts, PTL DEF Spec

\* The invariant the model checker is given is the one proved.
THEOREM InvCorrect == Spec => []Inv
<1>1. Typed /\ Facts => Inv
  BY DEF Typed, Facts, Inv
<1> QED
  BY <1>1, AlwaysFacts, PTL

\* A call that answers "installed" or "cached" is right, whatever the others do.
THEOREM AnswersAreTrue == Spec => []AnswerIsTrue
BY AlwaysFacts, PTL DEF Facts

\* Of the calls that race for one folder, one installs it.
THEOREM OneCallInstalls == Spec => []OneInstalls
BY AlwaysFacts, PTL DEF Facts

(***************************************************************************)
(* No installer changes a folder that is there.                            *)
(***************************************************************************)
LEMMA StepKeepsTarget ==
    ASSUME Typed, Facts, NEW i \in Installers, Step(i), target' # target
    PROVE  /\ target = Absent /\ target' = ReviewedFolder
           /\ Rename(i)
<1>1. Rename(i)
  BY DEF Step, LookupTarget, InspectPackage, VerifyFile, ReuseInstalled, Stage,
         ReadInventory, OpenFile, FinishFile, CheckPackage, RecheckTarget, StartAttempt,
         RenameFails, FileError, Cleanup
<1>2. target = Absent /\ target' = staging[i] /\ pc[i] = "renaming"
  BY <1>1 DEF Rename, RenameAllowed
<1> QED
  BY <1>1, <1>2 DEF Facts, UnpackedSoFar

\* A folder that is there is changed by its owner only; the folder an installer puts in
\* place is the whole reviewed build.
THEOREM NeverOverwrittenCorrect == Spec => NeverOverwritten
<1> DEFINE Put == target' # target /\ pc' # pc => target = Absent /\ target' = ReviewedFolder
<1>1. Typed /\ Facts /\ [Next]_vars => [Put]_vars
  <2> SUFFICES ASSUME Typed, Facts, Next PROVE Put
    BY DEF vars
  <2>1. ASSUME NEW i \in Installers, Step(i) PROVE Put
    BY <2>1, StepKeepsTarget
  <2>2. CASE OwnerChanges
    BY <2>2 DEF OwnerChanges
  <2>3. ASSUME NEW i \in Installers, Begin(i) \/ Cancel(i) \/ Crash(i) PROVE Put
    BY <2>3 DEF Begin, Cancel, Crash
  <2> QED
    BY <2>1, <2>2, <2>3 DEF Next
<1> QED
  BY <1>1, AlwaysFacts, PTL DEF Spec, NeverOverwritten

(***************************************************************************)
(* Refinement: a call is one step of the abstract Programs folder.         *)
(***************************************************************************)
\* The answer seen from outside, one installer at a time.
LEMMA AnswerCases ==
    ASSUME NEW i \in Installers
    PROVE  /\ pc[i] \in Working => answerOf[i] = "working"
           /\ pc[i] = "installed" => answerOf[i] = "installed"
           /\ pc[i] = "cached" => answerOf[i] = "reused"
           /\ pc[i] = "failed" => answerOf[i] = "failed"
           /\ pc[i] = "idle" => answerOf[i] = "none"
BY DEF answerOf, Working

\* A step that moves installer i from one position to another changes its answer only.
LEMMA AnswerMoves ==
    ASSUME pc \in [Installers -> Finished \cup Working], NEW i \in Installers,
           NEW to \in Finished \cup Working, pc' = [pc EXCEPT ![i] = to]
    PROVE  /\ to \in Working => answerOf' = [answerOf EXCEPT ![i] = "working"]
           /\ to = "installed" => answerOf' = [answerOf EXCEPT ![i] = "installed"]
           /\ to = "cached" => answerOf' = [answerOf EXCEPT ![i] = "reused"]
           /\ to = "failed" => answerOf' = [answerOf EXCEPT ![i] = "failed"]
           /\ to = "idle" => answerOf' = [answerOf EXCEPT ![i] = "none"]
BY DEF answerOf, Working

\* A call that goes on is a stuttering step.
LEMMA GoesOn ==
    ASSUME pc \in [Installers -> Finished \cup Working], NEW i \in Installers, pc[i] \in Working,
           NEW to \in Working, pc' = [pc EXCEPT ![i] = to] \/ UNCHANGED pc,
           UNCHANGED <<target, touched>>
    PROVE  UNCHANGED <<appOf, answerOf, touched>>
<1>1. answerOf' = answerOf
  BY DEF answerOf, Working
<1> QED
  BY <1>1 DEF appOf

\* A call that fails is a refusal.
LEMMA Fails ==
    ASSUME pc \in [Installers -> Finished \cup Working], NEW i \in Installers, pc[i] \in Working,
           pc' = [pc EXCEPT ![i] = "failed"], UNCHANGED <<target, touched>>
    PROVE  Abstract!Refuse(i)
<1>1. answerOf' = [answerOf EXCEPT ![i] = "failed"]
  BY AnswerMoves DEF Finished
<1> QED
  BY <1>1, AnswerCases DEF appOf, Abstract!Refuse

LEMMA StepRefines ==
    ASSUME Typed, Facts, NEW i \in Installers, Step(i)
    PROVE  Abstract!Next \/ UNCHANGED <<appOf, answerOf, touched>>
<1> USE DEF Typed, TypeOK
<1> DEFINE Still == UNCHANGED <<appOf, answerOf, touched>>
<1>0. {"failed", "installed", "cached", "idle"} \subseteq Finished
  BY DEF Finished
<1>1. CASE LookupTarget(i)
  BY <1>1, GoesOn DEF LookupTarget, Working
<1>2. CASE InspectPackage(i)
  BY <1>2, GoesOn, Fails DEF InspectPackage, Working, Abstract!Next
<1>3. ASSUME NEW f \in Files, VerifyFile(i, f) PROVE Abstract!Next \/ Still
  BY <1>3, GoesOn, Fails DEF VerifyFile, Working, Abstract!Next
<1>4. CASE ReuseInstalled(i)
  <2>1. CASE aborted[i]
    BY <1>4, <2>1, Fails DEF ReuseInstalled, Working, Abstract!Next
  <2>2. CASE ~aborted[i]
    <3>1. pc' = [pc EXCEPT ![i] = "cached"] /\ UNCHANGED <<target, touched>> /\ pc[i] = "verify"
      BY <1>4, <2>2 DEF ReuseInstalled
    <3>2. answerOf' = [answerOf EXCEPT ![i] = "reused"]
      BY <3>1, <1>0, AnswerMoves
    <3>3. target = ReviewedFolder \/ touched[i]
      BY <1>4, <3>1, FilesAssumption, FolderFacts, AllReviewed
         DEF ReuseInstalled, Facts, VerifiedSoFar
    <3>4. appOf = "complete" \/ touched[i]
      BY <3>3, FolderFacts DEF appOf
    <3> QED
      BY <3>1, <3>2, <3>4, AnswerCases DEF Abstract!Next, Abstract!Reuse, appOf, Working
  <2> QED
    BY <2>1, <2>2
<1>5. CASE Stage(i)
  BY <1>5, GoesOn DEF Stage, Working
<1>6. CASE ReadInventory(i)
  BY <1>6, GoesOn DEF ReadInventory, Working
<1>7. ASSUME NEW f \in Files, OpenFile(i, f) PROVE Abstract!Next \/ Still
  BY <1>7, GoesOn DEF OpenFile, Working
<1>8. CASE FinishFile(i)
  BY <1>8, GoesOn DEF FinishFile, Working
<1>9. CASE CheckPackage(i)
  BY <1>9, GoesOn DEF CheckPackage, Working
<1>10. CASE RecheckTarget(i)
  BY <1>10, GoesOn DEF RecheckTarget, Working
<1>11. CASE StartAttempt(i)
  BY <1>11, GoesOn DEF StartAttempt, Working
<1>12. CASE Rename(i)
  <2>1. pc' = [pc EXCEPT ![i] = "installed"] /\ UNCHANGED touched /\ pc[i] = "renaming"
    BY <1>12 DEF Rename
  <2>2. answerOf' = [answerOf EXCEPT ![i] = "installed"]
    BY <2>1, <1>0, AnswerMoves
  <2>3. target = Absent /\ target' = ReviewedFolder
    BY <1>12 DEF Rename, RenameAllowed, Facts, UnpackedSoFar
  <2>4. appOf = "absent" /\ appOf' = "complete"
    BY <2>3, FolderFacts DEF appOf
  <2> QED
    BY <2>1, <2>2, <2>4, AnswerCases DEF Abstract!Next, Abstract!Install, Working
<1>13. CASE RenameFails(i)
  BY <1>13, GoesOn DEF RenameFails, Working
<1>14. CASE FileError(i)
  <2>1. CASE staging[i] = Absent
    BY <1>14, <2>1, Fails DEF FileError, Running, Abstract!Next
  <2>2. CASE staging[i] # Absent
    BY <1>14, <2>2, GoesOn DEF FileError, Running, Working
  <2> QED
    BY <2>1, <2>2
<1>15. CASE Cleanup(i)
  BY <1>15, Fails DEF Cleanup, Working, Abstract!Next
<1> QED
  BY <1>1, <1>2, <1>3, <1>4, <1>5, <1>6, <1>7, <1>8, <1>9, <1>10, <1>11, <1>12,
     <1>13, <1>14, <1>15 DEF Step

LEMMA InitRefines == Init => Abstract!Init
<1> SUFFICES ASSUME Init PROVE Abstract!Init
  OBVIOUS
<1>1. answerOf = [i \in Installers |-> "none"]
  BY DEF Init, answerOf, Working
<1> QED
  BY <1>1 DEF Init, Abstract!Init, appOf, Abstract!Folders

LEMMA NextRefines ==
    Typed /\ Facts /\ [Next]_vars => [Abstract!Next]_(Abstract!vars)
<1> SUFFICES ASSUME Typed, Facts, [Next]_vars
             PROVE  Abstract!Next \/ UNCHANGED <<appOf, answerOf, touched>>
  BY DEF Abstract!vars
<1> USE DEF Typed, TypeOK
<1>1. ASSUME NEW i \in Installers, Begin(i) PROVE Abstract!Next
  <2>1. pc' = [pc EXCEPT ![i] = "lookup"] /\ UNCHANGED target /\ pc[i] \in Finished
    BY <1>1 DEF Begin
  <2>2. answerOf' = [answerOf EXCEPT ![i] = "working"]
    BY <2>1, AnswerMoves DEF Working
  <2>3. answerOf[i] # "working"
    BY <2>1 DEF answerOf, Finished, Working
  <2> QED
    BY <1>1, <2>1, <2>2, <2>3 DEF Begin, appOf, Abstract!Next, Abstract!Ask
<1>2. ASSUME NEW i \in Installers, Step(i)
      PROVE  Abstract!Next \/ UNCHANGED <<appOf, answerOf, touched>>
  BY <1>2, StepRefines
<1>3. ASSUME NEW i \in Installers, Cancel(i) PROVE UNCHANGED <<appOf, answerOf, touched>>
  BY <1>3 DEF Cancel, appOf, answerOf
<1>4. ASSUME NEW i \in Installers, Crash(i) PROVE Abstract!Next
  <2>1. /\ pc' = [pc EXCEPT ![i] = "idle"] /\ UNCHANGED <<target, touched>>
        /\ pc[i] \in Working
    BY <1>4 DEF Crash, Running
  <2>2. answerOf' = [answerOf EXCEPT ![i] = "none"]
    BY <2>1, AnswerMoves DEF Finished
  <2> QED
    BY <2>1, <2>2, AnswerCases DEF appOf, Abstract!Next, Abstract!Vanish
<1>5. CASE OwnerChanges
  BY <1>5 DEF OwnerChanges, appOf, answerOf, Abstract!Next, Abstract!OwnerChanges,
     Abstract!Folders
<1>6. CASE UNCHANGED vars
  BY <1>6 DEF vars, appOf, answerOf
<1> QED
  BY <1>1, <1>2, <1>3, <1>4, <1>5, <1>6 DEF Next

\* installPackage implements the abstract Programs folder: from outside, each call installs,
\* reuses or refuses in one step.
THEOREM Refinement == Spec => ImplementsProgramsFolder
BY InitRefines, NextRefines, AlwaysFacts, PTL
   DEF Spec, ImplementsProgramsFolder, Abstract!Spec
=============================================================================
