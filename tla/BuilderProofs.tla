---------------------------- MODULE BuilderProofs ----------------------------
(***************************************************************************)
(* What holds of Builder for every set of paths and contents, however the  *)
(* app folder changes during the build.                                    *)
(***************************************************************************)
EXTENDS Builder, TLAPS

\* Every variable keeps its type; a .part file is there exactly while it may be written.
LEMMA TypeStep == TypeOK /\ [Next]_vars => TypeOK'
<1> SUFFICES ASSUME TypeOK, [Next]_vars PROVE TypeOK'
  OBVIOUS
<1> USE LimitsAssumption
<1>1. CASE Begin
  <2>1. todo' \subseteq Paths /\ inventory' \in [Paths -> Entries]
        /\ payload' \in [Paths -> {"absent"} \cup Contents] /\ tries' \in 0 .. Tries - 1
    BY <1>1 DEF Begin, TypeOK, Nothing, Entries, In
  <2>2. changed' \in BOOLEAN /\ occupied' \in BOOLEAN
    BY <1>1 DEF Begin
  <2>3. ~temp /\ temp' = temp /\ stage' = "scan"
    BY <1>1 DEF Begin, TypeOK, Ended
  <2> QED
    BY <1>1, <2>1, <2>2, <2>3 DEF Begin, TypeOK, Building
<1>2. ASSUME NEW p \in Paths, ScanEntry(p) PROVE TypeOK'
  BY <1>2 DEF ScanEntry, TypeOK, Entries, Nodes, In, Ended, Building
<1>3. ASSUME NEW p \in Paths, CopyFile(p) PROVE TypeOK'
  BY <1>3 DEF CopyFile, Thrown, TypeOK, FilesOf, Ended, Building
<1>4. CASE ScanDone
  BY <1>4 DEF ScanDone, TypeOK, Ended, Building
<1>5. CASE LookOutput
  BY <1>5 DEF LookOutput, TypeOK, Ended, Building
<1>6. CASE OpenTemp
  BY <1>6 DEF OpenTemp, TypeOK, Ended, Building
<1>7. CASE CopyDone
  BY <1>7 DEF CopyDone, TypeOK, Ended, Building
<1>8. CASE Rename
  BY <1>8 DEF Rename, TypeOK, Ended, Building
<1>9. CASE RenameLater
  <2>1. tries' \in 0 .. Tries - 1
    BY <1>9 DEF RenameLater, TypeOK
  <2>2. temp /\ temp' = temp /\ stage' \in {"commit", "cleanup"}
    BY <1>9 DEF RenameLater, Thrown, TypeOK
  <2> QED
    BY <1>9, <2>1, <2>2 DEF RenameLater, TypeOK, Building
<1>10. CASE Throws
  BY <1>10 DEF Throws, Thrown, TypeOK, Ended, Building
<1>11. CASE Cleanup \/ Crash
  BY <1>11 DEF Cleanup, Crash, TypeOK, Ended, Building
<1>12. CASE SourceChanges
  BY <1>12 DEF SourceChanges, TypeOK
<1>14. CASE OutputChanges
  BY <1>14 DEF OutputChanges, TypeOK
<1>13. CASE UNCHANGED vars
  BY <1>13 DEF vars, TypeOK
<1> QED
  BY <1>1, <1>2, <1>3, <1>4, <1>5, <1>6, <1>7, <1>8, <1>9, <1>10, <1>11, <1>12, <1>13, <1>14 DEF Next, Step

LEMMA InitTyped == Init => TypeOK
<1> SUFFICES ASSUME Init PROVE TypeOK
  OBVIOUS
<1>1. tries \in 0 .. Tries - 1
  BY LimitsAssumption DEF Init
<1>2. inventory \in [Paths -> Entries] /\ payload \in [Paths -> {"absent"} \cup Contents]
  BY DEF Init, Nothing, Entries
<1>3. stage = "idle" /\ temp = FALSE /\ changed = FALSE /\ occupied = FALSE
  BY DEF Init
<1> QED
  BY <1>1, <1>2, <1>3 DEF Init, TypeOK, Ended

\* The state of a build is well formed, with any folder and any number of attempts.
THEOREM TypeCorrect == Spec => []TypeOK
BY InitTyped, TypeStep, PTL DEF Spec

(***************************************************************************)
(* The inductive invariant says what each stage knows.                     *)
(***************************************************************************)
Scanned == {"look", "open", "copy", "commit", "cleanup", "built"}

\* In an undisturbed scan the inventory agrees with the folder, and what it misses is to come or
\* is in a folder that it misses.
ScanIsOnItsWay ==
    stage = "scan" /\ ~changed =>
        /\ \A p \in Listed(inventory) : inventory[p] = source[p]
        /\ \A p \in Paths : source[p] # "absent" =>
              \/ p \in todo \cup Listed(inventory)
              \/ Parent[p] \in Paths \ Listed(inventory)

\* After the scan the inventory has been validated, and is the folder if nobody disturbed it.
ScanIsOver ==
    stage \in Scanned => Valid(inventory) /\ (~changed => inventory = source)

\* Nothing is copied before its time, and what is copied agrees with the scan.
CopyIsOnItsWay ==
    /\ stage \in {"scan", "look", "open"} => FilesOf(payload) = {}
    /\ stage \in {"copy", "commit", "built"} =>
          FilesOf(payload) \subseteq FilesOf(inventory)
          /\ \A p \in FilesOf(payload) : payload[p] = inventory[p]
    /\ stage \in {"commit", "built"} => FilesOf(payload) = FilesOf(inventory)

\* A build that has looked at the output knows that what was there has gone.
LookedAtOutput ==
    /\ occupied => output # "absent"
    /\ stage \in {"open", "copy", "commit", "cleanup"} => ~occupied

Inv == TypeOK /\ ScanIsOnItsWay /\ ScanIsOver /\ CopyIsOnItsWay /\ LookedAtOutput

\* A scan with nothing to do has found the whole folder: of the entries it would have missed,
\* one would be in a folder it has not missed.
LEMMA WholeFolder ==
    ASSUME TypeOK, ScanIsOnItsWay, stage = "scan", ~changed, todo = {}
    PROVE  inventory = source
<1> DEFINE Missed == {p \in Paths : source[p] # "absent" /\ inventory[p] = "absent"}
<1>1. Missed = {}
  <2> SUFFICES ASSUME Missed # {} PROVE FALSE
    OBVIOUS
  <2>1. PICK p \in Missed : Parent[p] \notin Missed
    BY PathsAssumption
  <2>2. Parent[p] \in Paths /\ inventory[Parent[p]] = "absent"
    BY <2>1 DEF ScanIsOnItsWay, Listed
  <2>3. Parent[p] # Top /\ source[Parent[p]] = "folder"
    BY <2>1, <2>2, PathsAssumption DEF TypeOK, Trees, IsTree
  <2> QED
    BY <2>1, <2>2, <2>3
<1>2. \A p \in Paths : inventory[p] = source[p]
  BY <1>1 DEF ScanIsOnItsWay, Listed
<1> QED
  BY <1>2 DEF TypeOK, Trees

LEMMA ScanIsOnItsWayStep ==
    ASSUME Inv, [Next]_vars
    PROVE  ScanIsOnItsWay'
<1> USE DEF Inv, ScanIsOnItsWay
<1>1. CASE Begin
  <2>1. Listed(inventory') = {} /\ todo' = {p \in Paths : Parent[p] = Top /\ source[p] # "absent"}
    BY <1>1 DEF Begin, Listed, Nothing, In
  <2>2. source' = source /\ \A p \in Paths : Parent[p] \in Paths \cup {Top}
    BY <1>1, PathsAssumption DEF Begin
  <2> QED
    BY <2>1, <2>2
<1>2. ASSUME NEW p \in Paths, ScanEntry(p) PROVE ScanIsOnItsWay'
  <2> SUFFICES ASSUME ~changed
               PROVE  /\ \A q \in Listed(inventory') : inventory'[q] = source[q]
                      /\ \A q \in Paths : source[q] # "absent" =>
                            \/ q \in todo' \cup Listed(inventory')
                            \/ Parent[q] \in Paths \ Listed(inventory')
    BY <1>2 DEF ScanEntry, Listed
  <2>1. stage = "scan" /\ inventory' = [inventory EXCEPT ![p] = source[p]]
        /\ source[p] # "absent" /\ inventory \in [Paths -> Entries]
    BY <1>2 DEF ScanEntry, TypeOK
  <2>2. Listed(inventory') = Listed(inventory) \cup {p}
    BY <2>1 DEF Listed
  <2>3. \A q \in Listed(inventory') : inventory'[q] = source[q]
    BY <2>1, <2>2 DEF Listed
  <2>4. ASSUME NEW q \in Paths, source[q] # "absent", Parent[q] = p
        PROVE  q \in todo'
    <3>1. source[p] = "folder"
      BY <2>4, PathsAssumption DEF TypeOK, Trees, IsTree
    <3> QED
      BY <1>2, <2>4, <3>1 DEF ScanEntry, In
  <2>5. \A q \in Paths : q \in todo => q = p \/ q \in todo'
    BY <1>2 DEF ScanEntry
  <2> QED
    BY <2>1, <2>2, <2>3, <2>4, <2>5
<1>3. CASE SourceChanges
  BY <1>3 DEF SourceChanges
<1>4. CASE ScanDone \/ LookOutput \/ OpenTemp \/ CopyDone \/ Rename \/ Throws \/ Cleanup \/ Crash
  BY <1>4 DEF ScanDone, LookOutput, OpenTemp, CopyDone, Rename, Throws, Thrown, Cleanup, Crash
<1>5. CASE RenameLater \/ OutputChanges \/ UNCHANGED vars
  BY <1>5 DEF RenameLater, Thrown, OutputChanges, vars, Listed
<1>6. ASSUME NEW p \in Paths, CopyFile(p) PROVE ScanIsOnItsWay'
  BY <1>6 DEF CopyFile, Thrown
<1> QED
  BY <1>1, <1>2, <1>3, <1>4, <1>5, <1>6 DEF Next, Step

LEMMA ScanIsOverStep ==
    ASSUME Inv, [Next]_vars
    PROVE  ScanIsOver'
<1> USE DEF Inv, ScanIsOver, Scanned
<1>1. CASE Begin
  BY <1>1 DEF Begin
<1>2. ASSUME NEW p \in Paths, ScanEntry(p) PROVE ScanIsOver'
  BY <1>2 DEF ScanEntry
<1>3. CASE ScanDone
  BY <1>3, WholeFolder DEF ScanDone, Valid, FilesOf, Listed, Distinct, HasParents
<1>4. CASE SourceChanges
  BY <1>4 DEF SourceChanges, Valid, FilesOf, Listed, Distinct, HasParents
<1>5. CASE Crash
  BY <1>5 DEF Crash
<1>6. ASSUME inventory' = inventory, source' = source, changed' = changed,
             stage' \in Scanned => stage \in Scanned
      PROVE  ScanIsOver'
  BY <1>6 DEF Valid, FilesOf, Listed, Distinct, HasParents
<1>7. ASSUME NEW p \in Paths, CopyFile(p) PROVE ScanIsOver'
  BY <1>6, <1>7 DEF CopyFile, Thrown
<1>8. CASE LookOutput \/ OpenTemp \/ CopyDone \/ Rename \/ RenameLater
  BY <1>6, <1>8 DEF LookOutput, OpenTemp, CopyDone, Rename, RenameLater, Thrown
<1>9. CASE Throws
  BY <1>6, <1>9 DEF Throws, Thrown, TypeOK, Building
<1>10. CASE Cleanup \/ OutputChanges \/ UNCHANGED vars
  BY <1>6, <1>10 DEF Cleanup, OutputChanges, vars
<1> QED
  BY <1>1, <1>2, <1>3, <1>4, <1>5, <1>7, <1>8, <1>9, <1>10 DEF Next, Step

LEMMA CopyIsOnItsWayStep ==
    ASSUME Inv, [Next]_vars
    PROVE  CopyIsOnItsWay'
<1> USE DEF Inv, CopyIsOnItsWay
<1>1. CASE Begin
  BY <1>1, ContentsAssumption DEF Begin, FilesOf, Nothing
<1>2. ASSUME NEW p \in Paths, ScanEntry(p) PROVE CopyIsOnItsWay'
  BY <1>2 DEF ScanEntry, FilesOf
<1>3. ASSUME NEW p \in Paths, CopyFile(p) PROVE CopyIsOnItsWay'
  <2>1. FilesOf(payload') = FilesOf(payload) \cup {p} /\ FilesOf(inventory') = FilesOf(inventory)
    BY <1>3 DEF CopyFile, FilesOf, TypeOK
  <2>2. CASE Copied(p)
    <3>1. \A q \in FilesOf(payload') : payload'[q] = inventory'[q]
      BY <1>3, <2>1, <2>2 DEF CopyFile, Copied, FilesOf, TypeOK
    <3> QED
      BY <1>3, <2>1, <2>2, <3>1 DEF CopyFile
  <2>3. CASE ~Copied(p)
    BY <1>3, <2>3 DEF CopyFile, Thrown
  <2> QED
    BY <2>2, <2>3
<1>4. CASE ScanDone \/ LookOutput \/ OpenTemp \/ CopyDone \/ Rename \/ RenameLater
  BY <1>4 DEF ScanDone, LookOutput, OpenTemp, CopyDone, Rename, RenameLater, Thrown, FilesOf
<1>5. CASE Throws \/ Cleanup \/ Crash
  BY <1>5 DEF Throws, Thrown, Cleanup, Crash
<1>6. CASE SourceChanges \/ OutputChanges \/ UNCHANGED vars
  BY <1>6 DEF SourceChanges, OutputChanges, vars, FilesOf
<1> QED
  BY <1>1, <1>2, <1>3, <1>4, <1>5, <1>6 DEF Next, Step

LEMMA LookedAtOutputStep ==
    ASSUME Inv, [Next]_vars
    PROVE  LookedAtOutput'
<1> USE DEF Inv, LookedAtOutput
<1>1. CASE Begin
  BY <1>1 DEF Begin
<1>2. ASSUME NEW p \in Paths, ScanEntry(p) \/ CopyFile(p) PROVE LookedAtOutput'
  BY <1>2 DEF ScanEntry, CopyFile, Thrown
<1>3. CASE ScanDone \/ LookOutput \/ OpenTemp \/ CopyDone \/ Rename \/ RenameLater
  BY <1>3 DEF ScanDone, LookOutput, Free, OpenTemp, CopyDone, Rename, RenameLater, Thrown
<1>4. CASE Throws \/ Cleanup \/ Crash
  BY <1>4 DEF Throws, Thrown, TypeOK, Building, Cleanup, Crash
<1>5. CASE SourceChanges \/ OutputChanges \/ UNCHANGED vars
  BY <1>5 DEF SourceChanges, OutputChanges, vars
<1> QED
  BY <1>1, <1>2, <1>3, <1>4, <1>5 DEF Next, Step

\* The invariant that carries the theorems below.
THEOREM InvCorrect == Spec => []Inv
<1>1. Init => Inv
  <2> SUFFICES ASSUME Init PROVE ScanIsOnItsWay /\ ScanIsOver /\ CopyIsOnItsWay /\ LookedAtOutput
    BY InitTyped DEF Inv
  <2> QED
    BY DEF Init, ScanIsOnItsWay, ScanIsOver, Scanned, CopyIsOnItsWay, LookedAtOutput
<1>2. Inv /\ [Next]_vars => Inv'
  BY TypeStep, ScanIsOnItsWayStep, ScanIsOverStep, CopyIsOnItsWayStep, LookedAtOutputStep DEF Inv
<1> QED
  BY <1>1, <1>2, PTL DEF Spec

\* A package holds each file as it was hashed, and is the folder when nobody changed it during
\* the build: folders of any depth, any number of files.
THEOREM PackageCorrect == Spec => []PackageIsTheFolder
<1>1. Inv => PackageIsTheFolder
  BY DEF Inv, ScanIsOver, Scanned, CopyIsOnItsWay, PackageIsTheFolder
<1> QED
  BY <1>1, InvCorrect, PTL

\* What validateInventory accepts can be unpacked where case does not tell names apart.
LEMMA ValidUnpacks ==
    ASSUME NEW inv, Valid(inv)
    PROVE  Unpacks(inv)
<1>1. ASSUME NEW p \in Listed(inv), Parent[p] # Top
      PROVE  \E q \in Listed(inv) : Key[q] = Key[Parent[p]] /\ inv[q] = "folder"
  <2>1. Parent[p] \in Paths /\ inv[Parent[p]] = "folder"
    BY <1>1, PathsAssumption DEF Valid, HasParents, Listed
  <2> QED
    BY <2>1 DEF Listed
<1> QED
  BY <1>1 DEF Valid, Distinct, Unpacks

\* Every package that is built can be unpacked on Windows.
THEOREM BuiltUnpacksCorrect == Spec => []BuiltUnpacks
<1>1. Inv => BuiltUnpacks
  BY ValidUnpacks DEF Inv, ScanIsOver, Scanned, BuiltUnpacks
<1> QED
  BY <1>1, InvCorrect, PTL

\* A file that was at the output when the build began is never replaced.
THEOREM OutputKeptCorrect == Spec => OutputIsKept
<1>1. Inv /\ [Next]_vars => [stage # "built" /\ stage' = "built" => ~occupied]_vars
  <2> SUFFICES ASSUME Inv, Next, stage # "built", stage' = "built" PROVE ~occupied
    BY DEF vars
  <2>1. stage = "commit"
    BY DEF Next, Step, Begin, ScanEntry, ScanDone, LookOutput, OpenTemp, CopyFile, CopyDone, Rename,
           RenameLater, Throws, Thrown, Cleanup, Crash, SourceChanges, OutputChanges
  <2> QED
    BY <2>1 DEF Inv, LookedAtOutput
<1> QED
  BY <1>1, InvCorrect, PTL DEF Spec, OutputIsKept
=============================================================================
