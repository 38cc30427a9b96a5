------------------------------ MODULE Launcher ------------------------------
(***************************************************************************)
(* The main process of the launcher, desktop/main.cjs, with its updates    *)
(* (module Updates) and its local backend (module BackendService, which    *)
(* LocalBackend implements).                                               *)
(*                                                                         *)
(* One event loop runs the handlers the window calls, the events of the    *)
(* application and the callbacks of the two components.  A handler runs    *)
(* alone between two awaits, so an action is what happens from one await   *)
(* to the next, and everything else may happen in between.  The handlers   *)
(* share flags (active, publishing, changingFolder, selectingSource,       *)
(* quitting), the settings and the backend.                                *)
(***************************************************************************)
EXTENDS Naturals

CONSTANTS
    Roots,          \* Programs folders that can be chosen
    DefaultRoot,    \* defaultProgramsRoot()
    AppFolders,     \* app folders that can be chosen for publishing
    None,           \* no value
    MaxLaunches,    \* bound: starts of the backend in one life of the process
    Mode            \* see Updates

ASSUME RootsAssumption == DefaultRoot \in Roots /\ None \notin Roots
ASSUME AppFoldersAssumption == None \notin AppFolders
ASSUME NoneAssumption == None \notin Nat
ASSUME ModeAssumption == Mode \in {"installed", "portable", "development"}
ASSUME MaxLaunchesAssumption == MaxLaunches \in Nat \ {0}

VARIABLES
    root,        \* settings.installRoot
    saved,       \* the installRoot in settings.json, or None
    download,    \* where the download handler stands; active is set unless it is "off"
    aborted,     \* active.signal
    probed,      \* the root the download has found writable, or None
    folder,      \* where changeInstallFolder stands; changingFolder is set unless it is "off"
    candidate,   \* the folder it is about, or None
    source,      \* where publish:choose stands; selectingSource is set unless it is "off"
    selected,    \* the variable of that name
    publish,     \* where publish:submit stands; publishing is set unless it is "off"
    submitted,   \* what was selected when the user pressed Submit, or None
    quitting,    \* the flag of that name
    life,        \* the process: "running", "stopping" (before-quit waits) or "ended"
    halted,      \* the launch whose stop() before-quit waits for, or None
    launch,      \* per launch, the promise launchBackend returned for it
    launches,    \* calls of launchBackend so far: the last one's promise is connectionReady
    backend,     \* the variable of that name: a launch's number, or None
    backendError,\* the variable of that name, as a flag
    service,     \* per launch, the state of its backend, as BackendService has it
    prepare,     \* beforeInstall: "off", "connecting" or "stopping"
    preparing,   \* the launch it waits for, or None
    phase, engine, handover, recovery, closed, release   \* see Updates

settings == <<root, saved>>
downloadVars == <<download, aborted, probed>>
folderVars == <<folder, candidate>>
publishVars == <<source, selected, publish, submitted>>
handlerVars == <<settings, downloadVars, folderVars, publishVars>>
processVars == <<quitting, life, halted>>
backendVars == <<launch, launches, backend, backendError, service>>
updateVars == <<prepare, preparing, phase, engine, handover, recovery, closed, release>>
vars == <<handlerVars, processVars, backendVars, updateVars>>

U == INSTANCE Updates

active == download # "off"
changingFolder == folder # "off"
selectingSource == source # "off"
publishing == publish # "off"

Launches == 1 .. MaxLaunches
NoService == [promise |-> "none", alive |-> FALSE, stop |-> "no", notices |-> 0]
NewService == [NoService EXCEPT !.promise = "pending"]

\* The event loop runs.
Alive == life # "ended"

\* handle(): the window's calls are refused once the launcher is quitting.
Accepting == life = "running" /\ ~quitting

\* connected(): the promise of the last launch has settled, and nothing has been lost since.
ConnectionKnown == launch[launches] = "settled"
Connected == backend # None /\ ~backendError

-----------------------------------------------------------------------------
(***************************************************************************)
(* Faulty variants of operators below.                                     *)
(***************************************************************************)
\* The Programs folder may be changed during a download.
MayChangeFolderAnytime == ~publishing /\ ~changingFolder

\* A download may start while the Programs folder is being changed.
MayDownloadAnytime == ~active

\* Restart and update looks at downloads only.
CanInstallBesidesDownloads == ~active

\* Setup is started as soon as the backend has been asked to stop.
StoppedWhenAsked(g) == service[g].stop # "no"

\* A backend that comes up while the launcher is quitting is kept.
StopLate(s, g) == s

\* onExit shows the message in the window only.
LossUnnoticed == UNCHANGED backendError

\* The result of the dialog is used without asking whether it was cancelled.
FolderChosenOrNot ==
    /\ folder = "dialog" /\ folder' = "probe" /\ candidate' \in Roots \cup {None}
    /\ UNCHANGED settings

\* A failed installation leaves the flag that refuses the window's calls.
QuittingKept == quitting' = quitting

-----------------------------------------------------------------------------
\* The start of the process: the saved root is taken as it is.
Init ==
    /\ saved \in Roots \cup {None}
    /\ root = IF saved = None THEN DefaultRoot ELSE saved
    /\ download = "off" /\ aborted = FALSE /\ probed = None
    /\ folder = "off" /\ candidate = None
    /\ source = "off" /\ selected = None /\ publish = "off" /\ submitted = None
    /\ quitting = FALSE /\ life = "running" /\ halted = None
    /\ launch = [g \in Launches |-> IF g = 1 THEN "starting" ELSE "none"]
    /\ launches = 1 /\ backend = None /\ backendError = FALSE
    /\ service = [g \in Launches |-> IF g = 1 THEN NewService ELSE NoService]
    /\ prepare = "off" /\ preparing = None
    /\ U!Init

\* saveInstallRoot: settings.json is replaced; only then the setting in memory follows.
SaveRoot(stage, value) ==
    \/ stage = "saving" /\ saved' = value /\ UNCHANGED root
    \/ stage = "saved" /\ root' = value /\ UNCHANGED saved

-----------------------------------------------------------------------------
(***************************************************************************)
(* The download handler.  The actions of a handler say what becomes of its *)
(* own variables; Next adds that the others stay.                          *)
(***************************************************************************)
MayDownload == ~active /\ ~changingFolder

DownloadCalled ==
    /\ Accepting /\ MayDownload
    /\ download' = "resolve"
    /\ UNCHANGED <<aborted, probed, settings>>

\* resolveProgramsRoot: the configured root, or the recommended one when it is not writable.
RootResolved ==
    /\ download = "resolve" /\ ~aborted
    /\ probed' \in {root, DefaultRoot}
    /\ download' = IF probed' # root THEN "saving" ELSE "connect"
    /\ UNCHANGED <<aborted, settings>>

ProbedRootSaved ==
    /\ download \in {"saving", "saved"}
    /\ SaveRoot(download, probed)
    /\ download' = IF download = "saving" THEN "saved" ELSE "connect"
    /\ UNCHANGED <<aborted, probed>>

\* connected(), GET /v1/bootstrap, POST /api/verify, GET the manifest, downloadVerified, and
\* then extractVfdn with the root as the setting has it now.  The signal is looked at after
\* the handshake and during the transfer.
After == [connect |-> "handshake", handshake |-> "verify", verify |-> "manifest",
          manifest |-> "fetch", fetch |-> "extract"]

DownloadProceeds ==
    /\ download \in DOMAIN After
    /\ download = "connect" => ConnectionKnown /\ Connected
    /\ download \in {"handshake", "fetch"} => ~aborted
    /\ download' = After[download]
    /\ UNCHANGED <<aborted, probed, settings>>

DownloadEnds == download' = "off" /\ aborted' = FALSE /\ probed' = None /\ UNCHANGED settings

\* Each of these awaits may throw.
DownloadFails ==
    /\ download \in DOMAIN After \cup {"resolve", "saving"}
    /\ download = "connect" => ConnectionKnown
    /\ DownloadEnds

\* installPackage (module Installer) completes, or it fails and removes its staging folder
\* before the handler ends.
Extracted == download \in {"extract", "unwind"} /\ DownloadEnds

ExtractFails == download = "extract" /\ download' = "unwind" /\ UNCHANGED <<aborted, probed, settings>>

\* download:cancel
DownloadCancelled ==
    Accepting /\ active /\ aborted' = TRUE /\ UNCHANGED <<download, probed, settings>>

DownloadNext ==
    /\ \/ DownloadCalled \/ RootResolved \/ ProbedRootSaved \/ DownloadProceeds
       \/ DownloadFails \/ Extracted \/ ExtractFails \/ DownloadCancelled
    /\ UNCHANGED <<folderVars, publishVars, processVars, backendVars, updateVars>>

(***************************************************************************)
(* settings:choose-folder and settings:reset-folder                        *)
(***************************************************************************)
MayChangeFolder == ~active /\ ~publishing /\ ~changingFolder

ChangeFolderCalled ==
    /\ Accepting /\ MayChangeFolder
    /\ \/ folder' = "dialog" /\ UNCHANGED candidate
       \/ folder' = "probe" /\ candidate' = DefaultRoot
    /\ UNCHANGED settings

FolderChosen ==
    /\ folder = "dialog" /\ folder' = "probe" /\ candidate' \in Roots
    /\ UNCHANGED settings

\* writableProgramsRoot
FolderProbed == folder = "probe" /\ folder' = "saving" /\ UNCHANGED <<settings, candidate>>

FolderWritten ==
    /\ folder = "saving" /\ SaveRoot(folder, candidate)
    /\ folder' = "saved" /\ UNCHANGED candidate

FolderSaved ==
    /\ folder = "saved" /\ SaveRoot(folder, candidate)
    /\ folder' = "off" /\ candidate' = None

\* The dialog is cancelled, the probe fails, or settings.json cannot be replaced.
FolderKept ==
    /\ folder \in {"dialog", "probe", "saving"}
    /\ folder' = "off" /\ candidate' = None /\ UNCHANGED settings

FolderNext ==
    /\ \/ ChangeFolderCalled \/ FolderChosen \/ FolderProbed \/ FolderWritten
       \/ FolderSaved \/ FolderKept
    /\ UNCHANGED <<downloadVars, publishVars, processVars, backendVars, updateVars>>

(***************************************************************************)
(* publish:choose and publish:submit                                       *)
(***************************************************************************)
MayChoose == ~publishing /\ ~selectingSource
MaySubmit == ~publishing /\ ~selectingSource /\ selected # None

ChooseCalled ==
    /\ Accepting /\ MayChoose
    /\ source' = "dialog" /\ UNCHANGED <<selected, publish, submitted>>

\* The folder chosen in the dialog has been scanned, or the dialog or the scan failed.
SourceScanned ==
    /\ selectingSource
    /\ source' = "off" /\ selected' \in AppFolders \cup {selected}
    /\ UNCHANGED <<publish, submitted>>

SubmitCalled ==
    /\ Accepting /\ MaySubmit
    /\ publish' = "connect" /\ submitted' = selected
    /\ UNCHANGED <<source, selected>>

\* connected(), GET /api/auth/me, and then publishApp(selected, ...)
PublishProceeds ==
    /\ \/ publish = "connect" /\ ConnectionKnown /\ Connected /\ publish' = "account"
       \/ publish = "account" /\ publish' = "send"
    /\ UNCHANGED <<source, selected, submitted>>

PublishEnds ==
    /\ publishing
    /\ publish = "connect" => ConnectionKnown
    /\ publish' = "off" /\ submitted' = None
    /\ UNCHANGED <<source, selected>>

PublishNext ==
    /\ \/ ChooseCalled \/ SourceScanned \/ SubmitCalled \/ PublishProceeds \/ PublishEnds
    /\ UNCHANGED <<settings, downloadVars, folderVars, processVars, backendVars, updateVars>>

(***************************************************************************)
(* The backend.  What a service does is what BackendService allows; a      *)
(* failing start that stops its own processes shows only in its rejection. *)
(***************************************************************************)
\* stop() of launch g's backend; asking again changes nothing.
StopAsked(s, g) == [s EXCEPT ![g].stop = IF @ = "no" THEN "asked" ELSE @]

ServiceSpawns(g) ==
    /\ service[g].promise = "pending" /\ service[g].stop = "no"
    /\ service' = [service EXCEPT ![g].alive = TRUE] /\ UNCHANGED backendError

ServiceSettles(g) ==
    /\ service[g].promise = "pending"
    /\ \/ service' = [service EXCEPT ![g].promise = "resolved"]
       \/ ~service[g].alive /\ service' = [service EXCEPT ![g].promise = "rejected"]
    /\ UNCHANGED backendError

ProcessesEnd(g) ==
    /\ service[g].alive
    /\ service' = [service EXCEPT ![g].alive = FALSE] /\ UNCHANGED backendError

StopResolves(g) ==
    /\ service[g].stop = "asked" /\ ~service[g].alive
    /\ service' = [service EXCEPT ![g].stop = "done"] /\ UNCHANGED backendError

\* onExit: a service is gone that nobody asked to stop.
NoticeLoss == backendError' = TRUE

ServiceLost(g) ==
    /\ service[g].promise \in {"pending", "resolved"} /\ service[g].stop = "no"
    /\ service' = [service EXCEPT ![g].stop = "asked", ![g].notices = @ + 1]
    /\ NoticeLoss

ServiceFrame ==
    Alive /\ UNCHANGED <<handlerVars, processVars, updateVars, launch, launches, backend>>

ServiceStep(g) ==
    /\ \/ ServiceSpawns(g) \/ ServiceSettles(g) \/ ProcessesEnd(g)
       \/ StopResolves(g) \/ ServiceLost(g)
    /\ ServiceFrame

\* The continuation of launchBackend: a backend that comes up while the launcher is quitting
\* is stopped again.
LaunchResolved(g) ==
    /\ launch[g] = "starting" /\ service[g].promise = "resolved"
    /\ backend' = g
    /\ launch' = [launch EXCEPT ![g] = IF quitting THEN "halting" ELSE "settled"]
    /\ service' = IF quitting THEN StopAsked(service, g) ELSE service
    /\ UNCHANGED backendError

LaunchRejected(g) ==
    /\ launch[g] = "starting" /\ service[g].promise = "rejected"
    /\ backendError' = TRUE
    /\ launch' = [launch EXCEPT ![g] = "settled"]
    /\ UNCHANGED <<backend, service>>

LaunchHalted(g) ==
    /\ launch[g] = "halting" /\ service[g].stop = "done"
    /\ launch' = [launch EXCEPT ![g] = "settled"]
    /\ UNCHANGED <<backend, backendError, service>>

LaunchStep(g) ==
    /\ Alive
    /\ LaunchResolved(g) \/ LaunchRejected(g) \/ LaunchHalted(g)
    /\ UNCHANGED <<handlerVars, processVars, updateVars, launches>>

BackendNext == \E g \in Launches : ServiceStep(g) \/ LaunchStep(g)

(***************************************************************************)
(* The launcher's side of the updates.                                     *)
(***************************************************************************)
CanInstall ==
    ~active /\ ~publishing /\ ~quitting /\ ~changingFolder /\ ~selectingSource

\* updates:check, the first check of start() and its timer; the engine's events.
CheckOrEvent ==
    /\ U!Check \/ U!EngineStep \/ U!SetupFails
    /\ UNCHANGED <<processVars, backendVars, prepare, preparing>>

\* updates:install: from here the window's calls are refused; beforeInstall waits for the
\* backend to be up before it stops it.
InstallCalled ==
    /\ Accepting /\ launches < MaxLaunches
    /\ U!Install(CanInstall)
    /\ quitting' = TRUE
    /\ prepare' = "connecting" /\ preparing' = launches
    /\ UNCHANGED <<life, halted, backendVars>>

\* beforeInstall forgets the backend, and setup is started, without anything in between.
StartSetup ==
    /\ U!QuitAndInstall
    /\ prepare' = "off" /\ preparing' = None
    /\ backend' = None

ConnectionSettled ==
    /\ prepare = "connecting" /\ launch[preparing] = "settled"
    /\ IF backend = None
       THEN StartSetup /\ UNCHANGED service
       ELSE /\ service' = StopAsked(service, backend)
            /\ prepare' = "stopping" /\ preparing' = backend
            /\ UNCHANGED <<backend, phase, engine, handover, recovery, closed, release>>
    /\ UNCHANGED <<processVars, launch, launches, backendError>>

HasStopped(g) == service[g].stop = "done"

BackendStopped ==
    /\ prepare = "stopping" /\ HasStopped(preparing)
    /\ StartSetup
    /\ UNCHANGED <<processVars, launch, launches, backendError, service>>

\* installFailed: the launcher takes calls again and starts a new backend.
AcceptAgain == quitting' = FALSE

InstallFailed ==
    /\ U!InstallFailed
    /\ launches < MaxLaunches
    /\ AcceptAgain
    /\ launches' = launches + 1
    /\ launch' = [launch EXCEPT ![launches'] = "starting"]
    /\ service' = [service EXCEPT ![launches'] = NewService]
    /\ backendError' = FALSE
    /\ UNCHANGED <<life, halted, backend, prepare, preparing>>

InstallStep ==
    /\ Alive
    /\ ConnectionSettled \/ BackendStopped \/ InstallFailed
    /\ UNCHANGED handlerVars

UpdateNext ==
    \/ Alive /\ (CheckOrEvent \/ InstallCalled) /\ UNCHANGED handlerVars
    \/ InstallStep

(***************************************************************************)
(* The end of the process.                                                 *)
(***************************************************************************)
\* before-quit the first time: the quit is put off until the backend has stopped.
QuitPutOff ==
    /\ life = "running" /\ backend # None /\ ~quitting
    /\ quitting' = TRUE
    /\ aborted' = active
    /\ service' = StopAsked(service, backend)
    /\ halted' = backend /\ life' = "stopping"
    /\ UNCHANGED closed

\* before-quit otherwise: the process ends and no handler is waited for, whether the window
\* was closed (which cancels a download) or the application was asked to quit.
QuitNow ==
    /\ Alive /\ (backend = None \/ quitting)
    /\ quitting' = TRUE /\ closed' = TRUE /\ life' = "ended"
    /\ UNCHANGED <<aborted, halted, service>>

\* The backend has stopped: app.quit() again.
QuitResumed == life = "stopping" /\ HasStopped(halted) /\ QuitNow

QuitFrame ==
    UNCHANGED <<settings, download, probed, folderVars, publishVars, launch, launches, backend,
                backendError, prepare, preparing, phase, engine, handover, recovery, release>>

Quit == (QuitPutOff \/ QuitNow \/ QuitResumed) /\ QuitFrame

Next ==
    \/ Alive /\ (DownloadNext \/ FolderNext \/ PublishNext)
    \/ BackendNext \/ UpdateNext \/ Quit

Spec == Init /\ [][Next]_vars

\* The event loop runs the callbacks that are due; a start of the backend ends by its timers,
\* and a stop by killing the processes.
FairSpec ==
    /\ Spec
    /\ \A g \in Launches :
         /\ WF_vars(LaunchStep(g))
         /\ WF_vars(ServiceSettles(g) /\ ServiceFrame)
         /\ WF_vars(StopResolves(g) /\ ServiceFrame)
         /\ WF_vars(service[g].stop = "asked" /\ ProcessesEnd(g) /\ ServiceFrame)
    /\ WF_vars(InstallStep)
    /\ WF_vars(QuitResumed /\ QuitFrame)

-----------------------------------------------------------------------------
TypeOK ==
    /\ root \in Roots /\ saved \in Roots \cup {None}
    /\ download \in DOMAIN After \cup {"off", "resolve", "saving", "saved", "extract", "unwind"}
    /\ aborted \in BOOLEAN /\ probed \in Roots \cup {None}
    /\ folder \in {"off", "dialog", "probe", "saving", "saved"}
    /\ candidate \in Roots \cup {None}
    /\ source \in {"off", "dialog"} /\ selected \in AppFolders \cup {None}
    /\ publish \in {"off", "connect", "account", "send"}
    /\ submitted \in AppFolders \cup {None}
    /\ quitting \in BOOLEAN /\ life \in {"running", "stopping", "ended"}
    /\ halted \in Launches \cup {None}
    /\ launch \in [Launches -> {"none", "starting", "halting", "settled"}]
    /\ launches \in Launches /\ backend \in Launches \cup {None} /\ backendError \in BOOLEAN
    /\ service \in [Launches -> [promise : {"none", "pending", "resolved", "rejected"},
                                 alive : BOOLEAN, stop : {"no", "asked", "done"},
                                 notices : 0 .. 1]]
    /\ prepare \in {"off", "connecting", "stopping"} /\ preparing \in Launches \cup {None}
    /\ U!TypeOK

(***************************************************************************)
(* Safety.                                                                 *)
(***************************************************************************)
\* What a handler uses after its awaits is what it checked or was given before them, although
\* both are read again from a shared variable: an app is installed under the Programs folder
\* that this very download has found writable (docs/RELEASE-v1.0.4.md: "App downloads now
\* check that the destination supports creating and renaming files before transferring the
\* package"), and the folder that is published is the one selected when the user pressed
\* Submit.
UsesWhatWasChecked ==
    [][/\ download = "fetch" /\ download' = "extract" => root = probed
       /\ publish = "account" /\ publish' = "send"    => selected = submitted]_vars

\* What the launcher uses and what its next start will use agree, except while a change of
\* the setting is being saved: two changes never cross.
SettingSurvives ==
    "saved" \notin {download, folder}
      => root = (IF saved = None THEN DefaultRoot ELSE saved)

\* Setup is called only for a release that the engine's last check has downloaded and verified
\* (tests/updates.test.mjs:23, "failed verification never enables installation"), so neither
\* after a failed or unfinished check nor when another one has begun during the awaits of
\* beforeInstall.  No download, publication or folder change is under way then and no service
\* process exists, and none starts afterwards (docs/OPERATIONS.md:62: Restart and update "waits
\* until transfers finish and stops the local backend before running setup").
SetupAlone ==
    handover = "called" /\ Alive =>
        /\ release
        /\ ~active /\ ~publishing /\ ~changingFolder /\ ~selectingSource
        /\ \A g \in Launches : ~service[g].alive

\* There are never two backends: a new one is started when the last one is gone.
OneBackend ==
    \A g, h \in Launches : service[g].alive /\ service[h].alive => g = h

\* A backend the handlers may use is the last one started, and nobody has begun to stop it.
ConnectedIsLive ==
    Accepting /\ ConnectionKnown /\ Connected
      => backend = launches /\ service[backend].stop = "no"

\* A release that is ready to install is not taken back.
ReadyKept == U!ReadyKept

\* docs/FOLDER-PACKAGES.md:46, "Failed and cancelled staging folders are removed": the
\* launcher does not end while an installation it has cancelled still has its staging folder.
StagingRemovedBeforeExit == life = "ended" => download \notin {"extract", "unwind"}

(***************************************************************************)
(* Liveness.                                                               *)
(***************************************************************************)
\* A quit that was put off happens, and Restart and update is not left waiting for the
\* backend, whatever state it was in.
WaitsEnd ==
    /\ life = "stopping" ~> life = "ended"
    /\ handover = "preparing" ~> handover # "preparing" \/ life = "ended"

\* When setup cannot be started, the launcher comes back: it takes calls, and its connection
\* is known to work or to have failed (tests/updates.test.mjs: "failed installation recovers
\* the backend").
RecoversFromFailedInstall == recovery ~> (Accepting /\ ConnectionKnown) \/ life # "running"
=============================================================================
