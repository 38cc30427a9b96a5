------------------------------ MODULE Installer ------------------------------
(***************************************************************************)
(* installPackage and unpack of shared/folder-package.mjs, for one package *)
(* and one Programs folder: every process that installs the package (the   *)
(* launcher, the vfdn command line, a second copy of it) is an installer.  *)
(* The installers share nothing but the file system.  An action is what an *)
(* installer does between two awaited file operations.                     *)
(*                                                                         *)
(* A file's bytes are abstracted to what the hashes tell apart: "partial"  *)
(* (some of it written), "reviewed" (the bytes of the reviewed manifest)   *)
(* and "other" (any other bytes).                                          *)
(***************************************************************************)
EXTENDS Integers, FiniteSets

CONSTANTS
    Installers,   \* processes that may call installPackage
    Files,        \* the files of the package's inventory
    Attempts,     \* attempts of retryFileOperation (5 in the code)
    Absent,       \* no folder at a path
    NoFile        \* no file being unpacked

ASSUME InstallersAssumption == IsFiniteSet(Installers)
ASSUME FilesAssumption == IsFiniteSet(Files) /\ Files # {} /\ NoFile \notin Files
ASSUME AttemptsAssumption == Attempts \in Nat \ {0}

VARIABLES
    target,    \* the app's folder in the Programs folder, or Absent
    pc,        \* where each installer's call stands
    package,   \* what the package file given to the call holds
    staging,   \* the call's private .vfdn-XXXXXX folder, or Absent
    done,      \* the files the call has verified, unpacking or re-checking
    writing,   \* the file being unpacked, or NoFile
    attempt,   \* the attempt of the final rename, from 0
    aborted,   \* the call's AbortSignal
    touched,   \* the owner changed the target since the call began
    leftover   \* a staging folder that belongs to no call is on disk

vars == <<target, pc, package, staging, done, writing, attempt, aborted, touched, leftover>>

Contents == {"none", "partial", "reviewed", "other"}
Folder == [Files -> Contents]
ASSUME AbsentAssumption == Absent \notin Folder

EmptyFolder == [f \in Files |-> "none"]
ReviewedFolder == [f \in Files |-> "reviewed"]

\* "reviewed": the bytes whose hash the caller expects; "damaged": some file differs
\* from the inventory; "foreign": consistent, but another build; "malformed": the
\* inventory itself is refused.
Packages == {"reviewed", "damaged", "foreign", "malformed"}

Finished == {"idle", "installed", "cached", "failed"}
Working == {"lookup", "inspect", "verify", "stage", "inventory", "unpack",
            "recheck", "commit", "renaming", "cleanup"}

Running(i) == pc[i] \in Working

-----------------------------------------------------------------------------
(***************************************************************************)
(* Faulty variants of operators below, each a bug the code could have had: *)
(* the properties are checked to notice every one of them.                 *)
(***************************************************************************)
\* The check that the target is still absent stands outside the try block.
RecheckTargetUnprotected(i) ==
    /\ pc[i] = "recheck"
    /\ pc' = [pc EXCEPT ![i] = IF target = Absent THEN "commit" ELSE "failed"]
    /\ UNCHANGED <<target, package, staging, done, writing, attempt, aborted, touched, leftover>>

\* An existing file is looked at, but not hashed.
PresentFile(f) == target # Absent /\ target[f] # "none"

\* The old folder is removed to make room for the new one.
RenameReplaces == TRUE

\* The files' own hashes are believed; the package's is not compared.
AcceptedByFileHashes(i) == ~aborted[i]

\* The comparison of an existing folder stops at the first file that matches.
ReuseAfterOneFile(i) ==
    /\ pc[i] = "verify"
    /\ done[i] # {}
    /\ pc' = [pc EXCEPT ![i] = IF aborted[i] THEN "failed" ELSE "cached"]
    /\ UNCHANGED <<target, package, staging, done, writing, attempt, aborted, touched, leftover>>

-----------------------------------------------------------------------------
Init ==
    /\ target \in Folder \cup {Absent}
    /\ pc = [i \in Installers |-> "idle"]
    /\ package = [i \in Installers |-> "reviewed"]
    /\ staging = [i \in Installers |-> Absent]
    /\ done = [i \in Installers |-> {}]
    /\ writing = [i \in Installers |-> NoFile]
    /\ attempt = [i \in Installers |-> 0]
    /\ aborted = [i \in Installers |-> FALSE]
    /\ touched = [i \in Installers |-> FALSE]
    /\ leftover \in BOOLEAN

\* A call begins: the Programs folder is made if it is missing.
Begin(i) ==
    /\ pc[i] \in Finished
    /\ \E p \in Packages : package' = [package EXCEPT ![i] = p]
    /\ pc' = [pc EXCEPT ![i] = "lookup"]
    /\ done' = [done EXCEPT ![i] = {}]
    /\ attempt' = [attempt EXCEPT ![i] = 0]
    /\ aborted' = [aborted EXCEPT ![i] = FALSE]
    /\ touched' = [touched EXCEPT ![i] = FALSE]
    /\ UNCHANGED <<target, staging, writing, leftover>>

\* lstat(target): a folder that is there is verified, never replaced.
LookupTarget(i) ==
    /\ pc[i] = "lookup"
    /\ pc' = [pc EXCEPT ![i] = IF target = Absent THEN "stage" ELSE "inspect"]
    /\ UNCHANGED <<target, package, staging, done, writing, attempt, aborted, touched, leftover>>

\* inspectPackage: the package file must be the reviewed one before the folder is compared.
InspectPackage(i) ==
    /\ pc[i] = "inspect"
    /\ pc' = [pc EXCEPT ![i] = IF package[i] = "reviewed" /\ ~aborted[i]
                               THEN "verify" ELSE "failed"]
    /\ UNCHANGED <<target, package, staging, done, writing, attempt, aborted, touched, leftover>>

\* The test a declared file of an existing folder must pass.
Unchanged(f) == target # Absent /\ target[f] = "reviewed"

\* One file of the existing folder is hashed; files the package does not declare are ignored.
VerifyFile(i, f) ==
    /\ pc[i] = "verify"
    /\ f \notin done[i]
    /\ IF Unchanged(f) /\ ~aborted[i]
       THEN done' = [done EXCEPT ![i] = @ \cup {f}] /\ UNCHANGED pc
       ELSE pc' = [pc EXCEPT ![i] = "failed"] /\ UNCHANGED done
    /\ UNCHANGED <<target, package, staging, writing, attempt, aborted, touched, leftover>>

ReuseInstalled(i) ==
    /\ pc[i] = "verify"
    /\ done[i] = Files
    /\ pc' = [pc EXCEPT ![i] = IF aborted[i] THEN "failed" ELSE "cached"]
    /\ UNCHANGED <<target, package, staging, done, writing, attempt, aborted, touched, leftover>>

\* mkdtemp: a folder nobody else knows of.
Stage(i) ==
    /\ pc[i] = "stage"
    /\ staging' = [staging EXCEPT ![i] = EmptyFolder]
    /\ pc' = [pc EXCEPT ![i] = "inventory"]
    /\ UNCHANGED <<target, package, done, writing, attempt, aborted, touched, leftover>>

\* readInventory, then the declared directories are made.
ReadInventory(i) ==
    /\ pc[i] = "inventory"
    /\ pc' = [pc EXCEPT ![i] = IF package[i] = "malformed" \/ aborted[i]
                               THEN "cleanup" ELSE "unpack"]
    /\ UNCHANGED <<target, package, staging, done, writing, attempt, aborted, touched, leftover>>

OpenFile(i, f) ==
    /\ pc[i] = "unpack"
    /\ writing[i] = NoFile
    /\ f \notin done[i]
    /\ IF aborted[i]
       THEN pc' = [pc EXCEPT ![i] = "cleanup"] /\ UNCHANGED <<staging, writing>>
       ELSE /\ staging' = [staging EXCEPT ![i][f] = "partial"]
            /\ writing' = [writing EXCEPT ![i] = f]
            /\ UNCHANGED pc
    /\ UNCHANGED <<target, package, done, attempt, aborted, touched, leftover>>

\* What reading one file of the package can produce, and whether it has the inventory's hash.
FileBytes(p) ==
    CASE p = "reviewed" -> {[bytes |-> "reviewed", matches |-> TRUE]}
      [] p = "foreign"  -> {[bytes |-> "other", matches |-> TRUE]}
      [] OTHER          -> {[bytes |-> "reviewed", matches |-> TRUE],
                            [bytes |-> "other", matches |-> FALSE]}

\* The last chunk is written and the file's hash compared, or the call was cancelled on the way.
FinishFile(i) ==
    /\ pc[i] = "unpack"
    /\ writing[i] # NoFile
    /\ writing' = [writing EXCEPT ![i] = NoFile]
    /\ IF aborted[i]
       THEN pc' = [pc EXCEPT ![i] = "cleanup"] /\ UNCHANGED <<staging, done>>
       ELSE \E read \in FileBytes(package[i]) :
              /\ staging' = [staging EXCEPT ![i][writing[i]] = read.bytes]
              /\ IF read.matches
                 THEN done' = [done EXCEPT ![i] = @ \cup {writing[i]}] /\ UNCHANGED pc
                 ELSE pc' = [pc EXCEPT ![i] = "cleanup"] /\ UNCHANGED done
    /\ UNCHANGED <<target, package, attempt, aborted, touched, leftover>>

\* The whole package must hash to what the caller expects.
PackageAccepted(i) == package[i] = "reviewed" /\ ~aborted[i]

CheckPackage(i) ==
    /\ pc[i] = "unpack"
    /\ writing[i] = NoFile
    /\ done[i] = Files
    /\ pc' = [pc EXCEPT ![i] = IF PackageAccepted(i) THEN "recheck" ELSE "cleanup"]
    /\ UNCHANGED <<target, package, staging, done, writing, attempt, aborted, touched, leftover>>

RecheckTarget(i) ==
    /\ pc[i] = "recheck"
    /\ pc' = [pc EXCEPT ![i] = IF target = Absent THEN "commit" ELSE "cleanup"]
    /\ UNCHANGED <<target, package, staging, done, writing, attempt, aborted, touched, leftover>>

\* retryFileOperation: an attempt starts unless the call was cancelled.
StartAttempt(i) ==
    /\ pc[i] = "commit"
    /\ pc' = [pc EXCEPT ![i] = IF aborted[i] THEN "cleanup" ELSE "renaming"]
    /\ UNCHANGED <<target, package, staging, done, writing, attempt, aborted, touched, leftover>>

\* The operating system does not rename a folder over one that exists.
RenameAllowed == target = Absent

Rename(i) ==
    /\ pc[i] = "renaming"
    /\ RenameAllowed
    /\ target' = staging[i]
    /\ staging' = [staging EXCEPT ![i] = Absent]
    /\ pc' = [pc EXCEPT ![i] = "installed"]
    /\ UNCHANGED <<package, done, writing, attempt, aborted, touched, leftover>>

\* EPERM, EACCES and EBUSY are tried again, up to the last attempt; a virus scanner may
\* hold the files, and Windows answers EPERM when the target exists.
MayRetry(i) == attempt[i] < Attempts - 1

RenameFails(i) ==
    /\ pc[i] = "renaming"
    /\ IF MayRetry(i)
       THEN /\ pc' = [pc EXCEPT ![i] = "commit"]
            /\ attempt' = [attempt EXCEPT ![i] = @ + 1]
       ELSE pc' = [pc EXCEPT ![i] = "cleanup"] /\ UNCHANGED attempt
    /\ UNCHANGED <<target, package, staging, done, writing, aborted, touched, leftover>>

\* Any other error of a file operation (a full drive, a missing package file, ENOTEMPTY).
FileError(i) ==
    /\ Running(i) /\ pc[i] # "cleanup"
    /\ pc' = [pc EXCEPT ![i] = IF staging[i] = Absent THEN "failed" ELSE "cleanup"]
    /\ writing' = [writing EXCEPT ![i] = NoFile]
    /\ UNCHANGED <<target, package, staging, done, attempt, aborted, touched, leftover>>

\* cleanupOwnedPath never throws: when the removal fails the folder stays, with a warning,
\* and no later call knows of it.
Cleanup(i) ==
    /\ pc[i] = "cleanup"
    /\ \E removed \in BOOLEAN : leftover' = (leftover \/ ~removed)
    /\ staging' = [staging EXCEPT ![i] = Absent]
    /\ pc' = [pc EXCEPT ![i] = "failed"]
    /\ UNCHANGED <<target, package, done, writing, attempt, aborted, touched>>

\* download:cancel, the window closing, or the caller's own signal.
Cancel(i) ==
    /\ Running(i) /\ ~aborted[i]
    /\ aborted' = [aborted EXCEPT ![i] = TRUE]
    /\ UNCHANGED <<target, pc, package, staging, done, writing, attempt, touched, leftover>>

\* The process dies.  Its staging folder stays on disk under a name nobody uses again.
Crash(i) ==
    /\ Running(i)
    /\ pc' = [pc EXCEPT ![i] = "idle"]
    /\ leftover' = (leftover \/ staging[i] # Absent)
    /\ staging' = [staging EXCEPT ![i] = Absent]
    /\ writing' = [writing EXCEPT ![i] = NoFile]
    /\ UNCHANGED <<target, package, done, attempt, aborted, touched>>

\* The owner of the computer removes, changes or creates the app's folder.
OwnerChanges ==
    /\ target' \in Folder \cup {Absent}
    /\ target' # target
    /\ touched' = [i \in Installers |-> TRUE]
    /\ UNCHANGED <<pc, package, staging, done, writing, attempt, aborted, leftover>>

\* What the code of a call does when it is given the processor.
Step(i) ==
    \/ LookupTarget(i)
    \/ InspectPackage(i)
    \/ \E f \in Files : VerifyFile(i, f)
    \/ ReuseInstalled(i)
    \/ Stage(i)
    \/ ReadInventory(i)
    \/ \E f \in Files : OpenFile(i, f)
    \/ FinishFile(i)
    \/ CheckPackage(i)
    \/ RecheckTarget(i)
    \/ StartAttempt(i)
    \/ Rename(i)
    \/ RenameFails(i)
    \/ FileError(i)
    \/ Cleanup(i)

Next ==
    \/ \E i \in Installers : Begin(i) \/ Step(i) \/ Cancel(i) \/ Crash(i)
    \/ OwnerChanges

Spec == Init /\ [][Next]_vars

-----------------------------------------------------------------------------
\* Every variable keeps its type; in particular the final rename is tried at most Attempts
\* times.
TypeOK ==
    /\ target \in Folder \cup {Absent}
    /\ pc \in [Installers -> Finished \cup Working]
    /\ package \in [Installers -> Packages]
    /\ staging \in [Installers -> Folder \cup {Absent}]
    /\ done \in [Installers -> SUBSET Files]
    /\ writing \in [Installers -> Files \cup {NoFile}]
    /\ attempt \in [Installers -> 0 .. Attempts - 1]
    /\ aborted \in [Installers -> BOOLEAN]
    /\ touched \in [Installers -> BOOLEAN]
    /\ leftover \in BOOLEAN

HoldsStaging(i) == pc[i] \in {"inventory", "unpack", "recheck", "commit", "renaming", "cleanup"}

\* A call holds its staging folder exactly from mkdtemp to the rename or the removal: no exit
\* of the call, error or cancellation, forgets it (docs/FOLDER-PACKAGES.md: "Failed and
\* cancelled staging folders are removed").
StagingIsOwned == \A i \in Installers : staging[i] # Absent <=> HoldsStaging(i)

\* What a call has found out so far.  These are the facts the answers rest on.
VerifiedSoFar ==
    \A i \in Installers :
        pc[i] = "verify" /\ ~touched[i] => \A f \in done[i] : target # Absent /\ target[f] = "reviewed"

UnpackedSoFar ==
    \A i \in Installers :
        /\ pc[i] = "unpack" /\ package[i] = "reviewed"
              => \A f \in done[i] : staging[i][f] = "reviewed"
        /\ pc[i] \in {"recheck", "commit", "renaming"} => staging[i] = ReviewedFolder

NothingDoneYet ==
    \A i \in Installers :
        pc[i] \in {"lookup", "inspect", "stage", "inventory"} => done[i] = {}

\* A call that answers "installed" or "cached" tells the truth: as long as the owner has not
\* changed the folder since the call began, the folder holds every file of the reviewed
\* build, whole, whatever the other installers did (README: "existing downloads and
\* installations are verified before reuse").
AnswerIsTrue ==
    \A i \in Installers :
        pc[i] \in {"installed", "cached"} /\ ~touched[i] => target = ReviewedFolder

\* Of the installers that race for a folder nobody touches, one installs it; the others
\* reuse it or fail.
OneInstalls ==
    \A i, j \in Installers :
        i # j /\ pc[i] = "installed" /\ pc[j] = "installed" => touched[i] \/ touched[j]

\* The invariant the proofs use.
Inv ==
    /\ TypeOK
    /\ StagingIsOwned
    /\ NothingDoneYet
    /\ VerifiedSoFar
    /\ UnpackedSoFar
    /\ AnswerIsTrue
    /\ OneInstalls

\* No installer changes a folder that is there, and the folder it puts in place is the whole
\* reviewed build, never a part of it (README: "Only a completely verified folder is moved").
NeverOverwritten ==
    [][target' # target /\ pc' # pc => target = Absent /\ target' = ReviewedFolder]_vars

-----------------------------------------------------------------------------
\* The Programs folder as callers see it.
appOf == IF target = Absent THEN "absent"
         ELSE IF target = ReviewedFolder THEN "complete" ELSE "changed"

answerOf ==
    [i \in Installers |->
        CASE pc[i] \in Working    -> "working"
          [] pc[i] = "installed"  -> "installed"
          [] pc[i] = "cached"     -> "reused"
          [] pc[i] = "failed"     -> "failed"
          [] OTHER                -> "none"]

Abstract == INSTANCE ProgramsFolder WITH app <- appOf, answer <- answerOf

\* Seen from outside, the dozen file operations of a call are one step that installs,
\* reuses or refuses.
ImplementsProgramsFolder == Abstract!Spec
=============================================================================
