------------------------------- MODULE Builder -------------------------------
(***************************************************************************)
(* buildPackage of shared/folder-package.mjs, with scanFolder and          *)
(* validateInventory: one build at a time of an app folder, whose files    *)
(* other programs may change meanwhile, into one output file.              *)
(*                                                                         *)
(* An action is what the build does between two awaited operations, but    *)
(* reading a file is one step: a file that changes while it is read has,   *)
(* for its hash, a content of its own.  No caller gives a signal, so a     *)
(* build is not cancelled.                                                 *)
(***************************************************************************)
EXTENDS Naturals, FiniteSets

CONSTANTS
    Paths,       \* relative paths that may exist in the app folder
    Parent,      \* the folder each path is in
    Top,         \* the app folder itself
    Key,         \* path.toLowerCase()
    Contents,    \* what files hold, as far as their hashes tell
    MaxEntries,  \* MAX_ENTRIES (20000 in the code)
    Tries        \* attempts of retryFileOperation (5 in the code)

ASSUME PathsAssumption ==
    /\ IsFiniteSet(Paths) /\ Top \notin Paths
    /\ Parent \in [Paths -> Paths \cup {Top}] /\ DOMAIN Key = Paths
    /\ \A T \in (SUBSET Paths) \ {{}} : \E p \in T : Parent[p] \notin T  \* no folder is in itself
ASSUME ContentsAssumption == {"absent", "folder", "refused"} \cap Contents = {}
ASSUME LimitsAssumption == MaxEntries \in Nat /\ Tries \in Nat \ {0}

VARIABLES
    source,     \* the app folder on disk
    stage,      \* where the build stands
    todo,       \* entries that readdir has listed and the scan has not reached
    inventory,  \* what the scan has found: the header of the package
    payload,    \* the files copied so far, as they were written
    temp,       \* the build's .part file is on disk
    output,     \* what is at the path of the package
    tries,      \* the attempt of the rename, from 0
    changed,    \* the app folder has changed since the build began
    occupied    \* what was at the path of the package when the build began is still there

vars == <<source, stage, todo, inventory, payload, temp, output, tries, changed, occupied>>

\* "refused": a link, a device, a name Windows does not allow.
Entries == {"absent", "folder"} \cup Contents
Nodes == Entries \cup {"refused"}

\* A file or a folder is inside a folder.
IsTree(s) == \A p \in Paths : s[p] = "absent" \/ Parent[p] = Top \/ s[Parent[p]] = "folder"
Trees == {s \in [Paths -> Nodes] : IsTree(s)}

Nothing == [p \in Paths |-> "absent"]
Listed(inv) == {p \in Paths : inv[p] # "absent"}
FilesOf(inv) == {p \in Paths : inv[p] \in Contents}

Ended == {"idle", "built", "failed"}
Building == {"scan", "look", "open", "copy", "commit", "cleanup"}

-----------------------------------------------------------------------------
(***************************************************************************)
(* Faulty variants of operators below.                                     *)
(***************************************************************************)
\* Paths are compared with their case.
DistinctWithCase(inv) == TRUE

\* The copy is not compared with the scan.
CopiedAnything(p) == source[p] \in Contents

\* A file that is already there is of no concern.
FreeAnyway == TRUE

\* The .part file is removed only where the code asks for it.
FailedInPlace == "failed"

-----------------------------------------------------------------------------
Init ==
    /\ source \in Trees
    /\ stage = "idle"
    /\ todo = {} /\ inventory = Nothing /\ payload = Nothing
    /\ temp = FALSE
    /\ output \in {"absent", "foreign"}
    /\ tries = 0
    /\ changed = FALSE /\ occupied = FALSE

\* What readdir lists in a folder.
In(dir) == {p \in Paths : Parent[p] = dir /\ source[p] # "absent"}

\* The source and the output folder are there; the output is a .vfdn outside the source.
Begin ==
    /\ stage \in Ended
    /\ stage' = "scan"
    /\ todo' = In(Top)
    /\ inventory' = Nothing /\ payload' = Nothing
    /\ tries' = 0
    /\ changed' = FALSE /\ occupied' = (output # "absent")
    /\ UNCHANGED <<source, temp, output>>

\* walk: a folder is listed in its turn, a file is hashed.
ScanEntry(p) ==
    /\ stage = "scan" /\ p \in todo
    /\ source[p] \in Entries \ {"absent"}
    /\ Cardinality(Listed(inventory)) < MaxEntries
    /\ inventory' = [inventory EXCEPT ![p] = source[p]]
    /\ todo' = (todo \ {p}) \cup (IF source[p] = "folder" THEN In(p) ELSE {})
    /\ UNCHANGED <<source, stage, payload, temp, output, tries, changed, occupied>>

\* validateInventory: no two entries have one key, and every entry is in a listed folder.
Distinct(inv) == \A p, q \in Listed(inv) : Key[p] = Key[q] => p = q
HasParents(inv) == \A p \in Listed(inv) : Parent[p] = Top \/ inv[Parent[p]] = "folder"

Valid(inv) ==
    /\ FilesOf(inv) # {} /\ Cardinality(Listed(inv)) =< MaxEntries
    /\ Distinct(inv) /\ HasParents(inv)

ScanDone ==
    /\ stage = "scan" /\ todo = {}
    /\ stage' = IF Valid(inventory) THEN "look" ELSE "failed"
    /\ UNCHANGED <<source, todo, inventory, payload, temp, output, tries, changed, occupied>>

\* lstat of the output: it must not exist.
Free == output = "absent"

LookOutput ==
    /\ stage = "look"
    /\ stage' = IF Free THEN "open" ELSE "failed"
    /\ UNCHANGED <<source, todo, inventory, payload, temp, output, tries, changed, occupied>>

\* The .part file has a random name and is opened with wx; the header is written.
OpenTemp ==
    /\ stage = "open"
    /\ temp' = TRUE
    /\ stage' = "copy"
    /\ UNCHANGED <<source, todo, inventory, payload, output, tries, changed, occupied>>

\* Where the build goes when it throws.
Thrown == IF temp THEN "cleanup" ELSE "failed"

\* The length and the hash of what was read are those the scan has found.
Copied(p) == source[p] = inventory[p]

CopyFile(p) ==
    /\ stage = "copy" /\ p \in FilesOf(inventory) \ FilesOf(payload)
    /\ source[p] \in Contents
    /\ payload' = [payload EXCEPT ![p] = source[p]]
    /\ stage' = IF Copied(p) THEN "copy" ELSE Thrown
    /\ UNCHANGED <<source, todo, inventory, temp, output, tries, changed, occupied>>

\* sync and close
CopyDone ==
    /\ stage = "copy" /\ FilesOf(payload) = FilesOf(inventory)
    /\ stage' = "commit"
    /\ UNCHANGED <<source, todo, inventory, payload, temp, output, tries, changed, occupied>>

\* rename replaces a file that has come to the path since the look.
Rename ==
    /\ stage = "commit"
    /\ stage' = "built"
    /\ output' = "package" /\ temp' = FALSE
    /\ UNCHANGED <<source, todo, inventory, payload, tries, changed, occupied>>

\* A rename that is refused for now is tried again, up to the last attempt.
RenameLater ==
    /\ stage = "commit"
    /\ IF tries < Tries - 1
       THEN tries' = tries + 1 /\ UNCHANGED stage
       ELSE stage' = Thrown /\ UNCHANGED tries
    /\ UNCHANGED <<source, todo, inventory, payload, temp, output, changed, occupied>>

\* An entry that is refused, has gone or is one too many, a file that cannot be read or has
\* become a link, a full drive, a header that is too long.
Throws ==
    /\ stage \in Building \ {"cleanup"}
    /\ stage' = Thrown
    /\ UNCHANGED <<source, todo, inventory, payload, temp, output, tries, changed, occupied>>

\* cleanupOwnedPath: the removal is tried, and its failure is not told.
Cleanup ==
    /\ stage = "cleanup"
    /\ stage' = "failed"
    /\ temp' = FALSE
    /\ UNCHANGED <<source, todo, inventory, payload, output, tries, changed, occupied>>

\* The process ends, and its .part file is nobody's.
Crash ==
    /\ stage \in Building
    /\ stage' = "idle"
    /\ temp' = FALSE
    /\ UNCHANGED <<source, todo, inventory, payload, output, tries, changed, occupied>>

\* Another program changes the app folder, or what is at the path of the package.
SourceChanges ==
    /\ stage \in Building
    /\ source' \in Trees \ {source}
    /\ changed' = TRUE
    /\ UNCHANGED <<stage, todo, inventory, payload, temp, output, tries, occupied>>

OutputChanges ==
    /\ \/ output = "absent" /\ output' = "foreign" /\ UNCHANGED occupied
       \/ output # "absent" /\ output' = "absent" /\ occupied' = FALSE
    /\ UNCHANGED <<source, stage, todo, inventory, payload, temp, tries, changed>>

Step ==
    \/ \E p \in Paths : ScanEntry(p) \/ CopyFile(p)
    \/ ScanDone \/ LookOutput \/ OpenTemp \/ CopyDone
    \/ Rename \/ RenameLater \/ Throws \/ Cleanup

Next == Begin \/ Step \/ Crash \/ SourceChanges \/ OutputChanges

Spec == Init /\ [][Next]_vars

\* File operations of the build return or throw.
FairSpec == Spec /\ WF_vars(Step)

-----------------------------------------------------------------------------
\* Every variable keeps its type; a .part file is there exactly while it may be written.
TypeOK ==
    /\ source \in Trees
    /\ stage \in Ended \cup Building
    /\ todo \subseteq Paths
    /\ inventory \in [Paths -> Entries]
    /\ payload \in [Paths -> {"absent"} \cup Contents]
    /\ temp \in BOOLEAN /\ (temp <=> stage \in {"copy", "commit", "cleanup"})
    /\ output \in {"absent", "foreign", "package"}
    /\ tries \in 0 .. Tries - 1
    /\ changed \in BOOLEAN /\ occupied \in BOOLEAN

\* docs/FOLDER-PACKAGES.md:21, "The builder includes every regular file, hidden filename, and
\* empty directory" and "A file that changes while being copied fails verification": a package
\* holds every file of its inventory as it was hashed, and if nobody changed the folder during
\* the build, the inventory is the folder.
PackageIsTheFolder ==
    stage = "built" =>
        /\ \A p \in FilesOf(inventory) : payload[p] = inventory[p]
        /\ ~changed => inventory = source

\* unpack on a disk that ignores case: mkdir of a folder and the opening of a file with wx need a
\* name that is free, in a folder that was made before.
Unpacks(inv) ==
    \A p \in Listed(inv) :
        /\ \A q \in Listed(inv) : Key[q] = Key[p] => q = p
        /\ Parent[p] = Top \/ \E q \in Listed(inv) : Key[q] = Key[Parent[p]] /\ inv[q] = "folder"

\* docs/FOLDER-PACKAGES.md:21, "case-colliding paths are rejected": what is built, also on a disk
\* that tells case apart, can be unpacked on one that does not, whatever came and went in the
\* folder while it was scanned.
BuiltUnpacks == stage = "built" => Unpacks(inventory)

\* docs/FOLDER-PACKAGES.md:21, the output "must not already exist": a build never replaces a file
\* that was there when it began (one that comes after the look at the output it does replace).
OutputIsKept == [][stage # "built" /\ stage' = "built" => ~occupied]_vars

\* Every build ends, and when it has ended its .part file is no more: it was renamed, or its
\* removal was tried.
BuildEnds == stage \in Building ~> stage \in Ended /\ ~temp
=============================================================================
