------------------------------- MODULE Updates -------------------------------
(***************************************************************************)
(* LauncherUpdates of desktop/updates.mjs: the launcher's own updates.     *)
(* electron-updater (external) looks for a release, downloads it and       *)
(* reports by events; the class turns the events into a phase the window   *)
(* shows, and hands a downloaded release over to setup when the user asks  *)
(* and the launcher has nothing else to do.                                *)
(*                                                                         *)
(* canInstall, beforeInstall and installFailed are the launcher's: module  *)
(* Launcher gives them; here the first is an argument and the second ends  *)
(* whenever it likes.                                                      *)
(***************************************************************************)
CONSTANT Mode    \* "installed" (by setup), "portable" or "development" (no engine)

VARIABLES
    phase,      \* state.phase
    engine,     \* what the engine is doing for the pending check, "quiet" without one
    handover,   \* install(): "none", "preparing" (beforeInstall) or "called" (quitAndInstall)
    recovery,   \* a call of installFailed is queued
    closed,     \* the flag of that name
    release     \* history: the engine's last check has downloaded and verified a release

vars == <<phase, engine, handover, recovery, closed, release>>

Phases == {"unsupported", "idle", "checking", "available", "downloading", "current",
           "ready", "installing", "error"}

-----------------------------------------------------------------------------
(***************************************************************************)
(* Faulty variants of operators below.                                     *)
(***************************************************************************)
\* The six-hourly check does not spare a release that waits for its installation.
MayCheckAnytime == Mode # "development" /\ ~closed

\* The check spares the release while it waits, and not while it is being installed.
MayCheckWhileInstalling == Mode # "development" /\ ~closed /\ phase # "ready"

-----------------------------------------------------------------------------
Init ==
    /\ phase = IF Mode = "development" THEN "unsupported" ELSE "idle"
    /\ engine = "quiet"
    /\ handover = "none"
    /\ recovery = FALSE
    /\ closed = FALSE
    /\ release = FALSE

\* Without an engine, after stop(), or with a release in hand, a check is a snapshot.
MayCheck == Mode # "development" /\ ~closed /\ phase \notin {"ready", "installing"}

\* check(), from the window or from the timer of start(); while one is pending it is shared.
Check ==
    /\ engine = "quiet" /\ MayCheck
    /\ phase' = "checking"
    /\ engine' = "asked"
    /\ UNCHANGED <<handover, recovery, closed, release>>

\* The next microtask calls the engine, which announces its request.
CheckingForUpdate ==
    /\ engine = "asked"
    /\ phase' = "checking"
    /\ engine' = "contacting"
    /\ release' = FALSE
    /\ UNCHANGED <<handover, recovery, closed>>

UpdateNotAvailable ==
    /\ engine = "contacting"
    /\ phase' = "current"
    /\ engine' = "quiet"
    /\ UNCHANGED <<handover, recovery, closed, release>>

\* Only the setup edition downloads by itself; elsewhere the check ends here.
UpdateAvailable ==
    /\ engine = "contacting"
    /\ phase' = "available"
    /\ engine' = IF Mode = "installed" THEN "downloading" ELSE "quiet"
    /\ UNCHANGED <<handover, recovery, closed, release>>

DownloadProgress ==
    /\ engine = "downloading"
    /\ phase' = "downloading"
    /\ UNCHANGED <<engine, handover, recovery, closed, release>>

UpdateDownloaded ==
    /\ engine = "downloading"
    /\ phase' = "ready"
    /\ engine' = "downloaded"
    /\ release' = TRUE
    /\ UNCHANGED <<handover, recovery, closed>>

\* The download's promise resolves and the check is over.
CheckResolves ==
    /\ engine = "downloaded"
    /\ engine' = "quiet"
    /\ UNCHANGED <<phase, handover, recovery, closed, release>>

\* fail(): the error is shown; an installation that was under way is undone by the launcher.
Fail ==
    /\ phase' = "error"
    /\ recovery' = (recovery \/ phase = "installing")

\* Once it has reported a verified release, the engine reports no error until setup is called.
MayErr == engine \in {"contacting", "downloading"}

\* The engine's error event arrives; its promise is rejected later.
ErrorEvent ==
    /\ MayErr
    /\ Fail
    /\ UNCHANGED <<engine, handover, closed, release>>

\* The pending check is rejected.
CheckRejects ==
    /\ MayErr
    /\ Fail
    /\ engine' = "quiet"
    /\ UNCHANGED <<handover, closed, release>>

\* install(): refused unless a release is ready and the launcher is idle.
Install(canInstall) ==
    /\ Mode = "installed" /\ phase = "ready" /\ canInstall
    /\ phase' = "installing"
    /\ handover' = "preparing"
    /\ UNCHANGED <<engine, recovery, closed, release>>

\* beforeInstall has resolved: the engine starts setup and quits the launcher.
QuitAndInstall ==
    /\ handover = "preparing"
    /\ handover' = "called"
    /\ UNCHANGED <<phase, engine, recovery, closed, release>>

\* quitAndInstall throws, or reports an error, then or later: setup did not start.
SetupFails ==
    /\ handover = "called"
    /\ handover' = "none"
    /\ Fail
    /\ UNCHANGED <<engine, closed, release>>

\* The queued call of installFailed is made.
InstallFailed ==
    /\ recovery
    /\ recovery' = FALSE
    /\ UNCHANGED <<phase, engine, handover, closed, release>>

\* stop(), when the launcher quits.
Stop ==
    /\ ~closed
    /\ closed' = TRUE
    /\ UNCHANGED <<phase, engine, handover, recovery, release>>

EngineStep ==
    \/ CheckingForUpdate \/ UpdateNotAvailable \/ UpdateAvailable \/ DownloadProgress
    \/ UpdateDownloaded \/ CheckResolves \/ ErrorEvent \/ CheckRejects

Next ==
    \/ Check \/ EngineStep
    \/ \E can \in BOOLEAN : Install(can)
    \/ QuitAndInstall \/ SetupFails \/ InstallFailed \/ Stop

Spec == Init /\ [][Next]_vars

-----------------------------------------------------------------------------
TypeOK ==
    /\ phase \in Phases
    /\ engine \in {"quiet", "asked", "contacting", "downloading", "downloaded"}
    /\ handover \in {"none", "preparing", "called"}
    /\ recovery \in BOOLEAN
    /\ closed \in BOOLEAN
    /\ release \in BOOLEAN

\* A release that is ready stays ready until it is installed: no check, timer or event of
\* the engine takes it back.
ReadyKept == [][phase = "ready" => phase' \in {"ready", "installing"}]_vars
=============================================================================
