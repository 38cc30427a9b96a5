--------------------------- MODULE ProgramsFolder ---------------------------
(***************************************************************************)
(* What the Programs folder promises about one reviewed build (one app ID  *)
(* and one package hash, hence one folder name), whoever installs it: the  *)
(* launcher, the vfdn command line, or several of them at once.            *)
(*                                                                         *)
(* The folder appears in one step, complete; no installer ever changes a   *)
(* folder that is there; and an installer that answers "reused" has found  *)
(* the complete build, unless the owner of the computer was at work in the *)
(* folder during the call.                                                 *)
(***************************************************************************)
CONSTANT Installers

VARIABLES
    app,      \* the build's folder: "absent", "complete", or "changed" by its owner
    answer,   \* what each installer's latest call answered
    touched   \* the owner changed the folder since the installer's call began

vars == <<app, answer, touched>>

Folders == {"absent", "complete", "changed"}
Answers == {"none", "working", "installed", "reused", "failed"}

Init ==
    /\ app \in Folders
    /\ answer = [i \in Installers |-> "none"]
    /\ touched = [i \in Installers |-> FALSE]

Ask(i) ==
    /\ answer[i] # "working"
    /\ answer' = [answer EXCEPT ![i] = "working"]
    /\ touched' = [touched EXCEPT ![i] = FALSE]
    /\ UNCHANGED app

Install(i) ==
    /\ answer[i] = "working"
    /\ app = "absent"
    /\ app' = "complete"
    /\ answer' = [answer EXCEPT ![i] = "installed"]
    /\ UNCHANGED touched

Reuse(i) ==
    /\ answer[i] = "working"
    /\ app = "complete" \/ touched[i]
    /\ answer' = [answer EXCEPT ![i] = "reused"]
    /\ UNCHANGED <<app, touched>>

\* A refusal, a failure or a cancellation changes nothing.
Refuse(i) ==
    /\ answer[i] = "working"
    /\ answer' = [answer EXCEPT ![i] = "failed"]
    /\ UNCHANGED <<app, touched>>

\* The process of an installer dies: nobody gets an answer.
Vanish(i) ==
    /\ answer[i] = "working"
    /\ answer' = [answer EXCEPT ![i] = "none"]
    /\ UNCHANGED <<app, touched>>

OwnerChanges ==
    /\ app' \in Folders
    /\ touched' = [i \in Installers |-> TRUE]
    /\ UNCHANGED answer

Next ==
    \/ \E i \in Installers :
         Ask(i) \/ Install(i) \/ Reuse(i) \/ Refuse(i) \/ Vanish(i)
    \/ OwnerChanges

Spec == Init /\ [][Next]_vars
=============================================================================
