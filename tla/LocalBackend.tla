---------------------------- MODULE LocalBackend ----------------------------
(***************************************************************************)
(* startLocalBackend of desktop/local-backend.mjs: it starts the .NET API, *)
(* then the Go Bootstrap, each announcing its port with a NUTTYINC_READY   *)
(* line, then checks that they know each other, and returns stop().  The   *)
(* two processes may die, hang or be killed at any moment; the launcher    *)
(* learns of a death only when its event loop handles the exit event.      *)
(***************************************************************************)
EXTENDS Naturals, FiniteSets

VARIABLES
    startup,   \* where the async function stands
    proc,      \* each service's process
    verdict,   \* each launch() promise: "waiting", "ready" or "failed"
    stopping,  \* the flag of that name
    stopped,   \* the promise of that name: "none", "waiting" or "done"
    asked,     \* the processes stop() waits for
    notices    \* calls of onExit

supervisorVars == <<startup, proc, verdict, stopping, stopped, asked, notices>>

Services == {"api", "bootstrap"}

\* "dead" is a process that has ended before its exit event is handled; "nopid" one that
\* the system could not create.
ProcStates == {"unborn", "nopid", "running", "dead", "exited"}
Startups == {"files", "api", "bootstrap", "handshake", "verify", "unwinding", "resolved", "rejected"}

-----------------------------------------------------------------------------
(***************************************************************************)
(* Faulty variants of operators below.                                     *)
(***************************************************************************)
\* The exit handler does not look at the stopping flag.
TellsAlways(c) == verdict[c] = "ready"

\* A failed start does not wait for the processes to end.
UnwoundAtOnce == TRUE

\* stop() ends the services' input but never kills one that ignores it.
NobodyKilled(c) == FALSE

-----------------------------------------------------------------------------
SupervisorInit ==
    /\ startup = "files"
    /\ proc = [c \in Services |-> "unborn"]
    /\ verdict = [c \in Services |-> "waiting"]
    /\ stopping = FALSE
    /\ stopped = "none"
    /\ asked = {}
    /\ notices = 0

\* What stop() will wait for, given the processes: those without an exit code.
WaitedFor(ps) == {c \in Services : ps[c] \in {"running", "dead"}}

\* stop(), called when the processes are as ps says: a second call returns the first promise.
Stop(ps) ==
    IF stopped # "none"
    THEN UNCHANGED <<stopping, stopped, asked>>
    ELSE /\ stopping' = TRUE
         /\ stopped' = "waiting"
         /\ asked' = WaitedFor(ps)

\* The await that was pending throws: the catch block stops what was started.
Unwind(ps) == startup' = "unwinding" /\ Stop(ps)

Spawned(c, ps) == \E p \in {"running", "nopid"} : proc' = [ps EXCEPT ![c] = p]

\* mkdir and access: without the bundled files nothing is started.
FindFiles ==
    /\ startup = "files"
    /\ \/ startup' = "api" /\ Spawned("api", proc)
       \/ startup' = "rejected" /\ UNCHANGED proc
    /\ UNCHANGED <<verdict, stopping, stopped, asked, notices>>

\* The ready line of a service arrives with a valid address: its launch() resolves, and the
\* function goes on to the next service before anything else can run.
ReadyLine(c) ==
    /\ startup = c /\ verdict[c] = "waiting" /\ proc[c] \in {"running", "dead"}
    /\ verdict' = [verdict EXCEPT ![c] = "ready"]
    /\ IF c = "api"
       THEN startup' = "bootstrap" /\ Spawned("bootstrap", proc)
       ELSE startup' = "handshake" /\ UNCHANGED proc
    /\ UNCHANGED <<stopping, stopped, asked, notices>>

\* launch() rejects: an invalid ready line, the startup timer, or the spawn error event.
LaunchFails(c) ==
    /\ startup = c /\ verdict[c] = "waiting" /\ proc[c] # "unborn"
    /\ verdict' = [verdict EXCEPT ![c] = "failed"]
    /\ Unwind(proc)
    /\ UNCHANGED <<proc, notices>>

\* Whether the exit of a service is news to the launcher.
Tells(c) == verdict[c] = "ready" /\ ~stopping

\* The exit event of a service is handled.
ExitEvent(c) ==
    /\ proc[c] = "dead"
    /\ proc' = [proc EXCEPT ![c] = "exited"]
    /\ IF verdict[c] = "waiting"
       THEN /\ verdict' = [verdict EXCEPT ![c] = "failed"]
            /\ Unwind(proc')
            /\ UNCHANGED notices
       ELSE /\ UNCHANGED <<verdict, startup>>
            /\ IF Tells(c)
               THEN Stop(proc') /\ notices' = notices + 1
               ELSE UNCHANGED <<stopping, stopped, asked, notices>>

\* GET /v1/bootstrap, then POST /api/verify; both must succeed within ten seconds, and an
\* answer comes from a process whose exit has not been handled.
Answering(c) == proc[c] \in {"running", "dead"}

Handshake ==
    /\ startup \in {"handshake", "verify"}
    /\ \/ /\ Answering(IF startup = "handshake" THEN "bootstrap" ELSE "api")
          /\ startup' = IF startup = "handshake" THEN "verify" ELSE "resolved"
          /\ UNCHANGED <<stopping, stopped, asked>>
       \/ Unwind(proc)
    /\ UNCHANGED <<proc, verdict, notices>>

\* The stop() promise has resolved, so the error is thrown to the launcher.
Unwound == stopped = "done"

Reject ==
    /\ startup = "unwinding"
    /\ Unwound
    /\ startup' = "rejected"
    /\ UNCHANGED <<proc, verdict, stopping, stopped, asked, notices>>

\* The launcher calls stop() on the backend it was given.
HostStops ==
    /\ startup = "resolved"
    /\ Stop(proc)
    /\ UNCHANGED <<startup, proc, verdict, notices>>

StopDone ==
    /\ stopped = "waiting"
    /\ \A c \in asked : proc[c] = "exited"
    /\ stopped' = "done"
    /\ UNCHANGED <<startup, proc, verdict, stopping, asked, notices>>

\* A service crashes or is killed by somebody.
Die(c) ==
    /\ proc[c] = "running"
    /\ proc' = [proc EXCEPT ![c] = "dead"]
    /\ UNCHANGED <<startup, verdict, stopping, stopped, asked, notices>>

\* A service sees the end of its input and shuts down, or is killed after three seconds.
Asked(c) == c \in asked
Obey(c) == Asked(c) /\ Die(c)

SupervisorNext ==
    \/ FindFiles \/ Handshake \/ Reject \/ HostStops \/ StopDone
    \/ \E c \in Services : ReadyLine(c) \/ LaunchFails(c) \/ ExitEvent(c) \/ Die(c) \/ Obey(c)

SupervisorSpec == SupervisorInit /\ [][SupervisorNext]_supervisorVars

\* The launcher's event loop runs, the startup timer and the fetch timeouts fire, and a
\* process that is asked to stop is killed at the latest.
SupervisorFairSpec ==
    /\ SupervisorSpec
    /\ WF_supervisorVars(FindFiles) /\ WF_supervisorVars(Handshake)
    /\ WF_supervisorVars(Reject) /\ WF_supervisorVars(StopDone)
    /\ \A c \in Services : /\ WF_supervisorVars(LaunchFails(c))
                          /\ WF_supervisorVars(ExitEvent(c)) /\ WF_supervisorVars(Obey(c))

-----------------------------------------------------------------------------
\* Types; the launcher is told at most once.
SupervisorTypeOK ==
    /\ startup \in Startups
    /\ proc \in [Services -> ProcStates]
    /\ verdict \in [Services -> {"waiting", "ready", "failed"}]
    /\ stopping \in BOOLEAN
    /\ stopped \in {"none", "waiting", "done"}
    /\ asked \in SUBSET Services
    /\ notices \in 0 .. 1

ServiceAlive == \E c \in Services : proc[c] = "running"

\* The start settles and every stop() resolves, whether the services hang, ignore the end of
\* their input or die first: a service that hangs is given up, one that stays is killed.
NothingHangs ==
    /\ <>(startup \in {"resolved", "rejected"})
    /\ stopped = "waiting" ~> stopped = "done"

-----------------------------------------------------------------------------
promiseOf == IF startup \in {"resolved", "rejected"} THEN startup ELSE "pending"
stopOf == CASE stopped = "none" -> "no" [] stopped = "waiting" -> "asked" [] OTHER -> "done"

Service == INSTANCE BackendService WITH
               promise <- promiseOf, alive <- ServiceAlive, stop <- stopOf

\* The launcher may rely on BackendService.
ImplementsBackendService == Service!Spec
=============================================================================
