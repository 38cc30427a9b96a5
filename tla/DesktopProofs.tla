---------------------------- MODULE DesktopProofs ----------------------------
(***************************************************************************)
(* What holds on the user's computer: of the launcher, for any number of   *)
(* folders, apps and launches of the backend, in every edition; of the     *)
(* supervisor, which does for each launch what the launcher relies on; and *)
(* of the tickets that a download gets from one of the two services and    *)
(* spends at the other, for any number of them and of requests.            *)
(***************************************************************************)
EXTENDS Launcher, LocalBackend, Tickets, TLAPS

(***************************************************************************)
(* The invariant.                                                          *)
(***************************************************************************)
HandlerTypes ==
    /\ root \in Roots /\ saved \in Roots \cup {None}
    /\ download \in {"off", "resolve", "saving", "saved", "connect", "handshake", "verify",
                     "manifest", "fetch", "extract", "unwind"}
    /\ aborted \in BOOLEAN /\ probed \in Roots \cup {None}
    /\ folder \in {"off", "dialog", "probe", "saving", "saved"}
    /\ candidate \in Roots \cup {None}
    /\ source \in {"off", "dialog"} /\ selected \in AppFolders \cup {None}
    /\ publish \in {"off", "connect", "account", "send"}
    /\ submitted \in AppFolders \cup {None}

ProcessTypes ==
    /\ quitting \in BOOLEAN /\ life \in {"running", "stopping", "ended"}
    /\ halted \in Launches \cup {None}

ServiceStates == [promise : {"none", "pending", "resolved", "rejected"}, alive : BOOLEAN,
             stop : {"no", "asked", "done"}, notices : 0 .. 1]

BackendTypes ==
    /\ launch \in [Launches -> {"none", "starting", "halting", "settled"}]
    /\ launches \in Launches /\ backend \in {None, launches} /\ backendError \in BOOLEAN
    /\ service \in [Launches -> ServiceStates]
    /\ prepare \in {"off", "connecting", "stopping"} /\ preparing \in Launches \cup {None}

\* Two handlers that use the same setting or selection do not run together.
HandlersApart ==
    /\ download = "off" \/ folder = "off"
    /\ publish = "off" \/ source = "off"

\* A handler that has found a folder writable has one; what it has saved is that folder; and
\* a download that goes on goes on with the folder it has found.
ProbedIsKept ==
    /\ download \in {"saving", "saved"} => probed \in Roots
    /\ folder \in {"probe", "saving", "saved"} => candidate \in Roots
    /\ download = "saved" => saved = probed
    /\ folder = "saved" => saved = candidate
    /\ download \in {"connect", "handshake", "verify", "manifest", "fetch"} => root = probed

SubmittedIsSelected == publish # "off" => selected = submitted

\* A release that is ready is the one of the last check, and the engine has nothing to do
\* then; install() shows in the phase.
EngineRests ==
    /\ phase \in {"ready", "installing"} => engine \in {"quiet", "downloaded"} /\ release
    /\ phase = "installing" <=> handover # "none"

\* From Restart and update until the launcher takes calls again no handler runs, and a quit
\* that was put off is not mixed with it.
SetupWaits ==
    /\ handover # "none" => /\ ~active /\ ~publishing /\ ~changingFolder /\ ~selectingSource
                            /\ quitting /\ ~recovery
    /\ recovery => quitting
    /\ life = "stopping" => quitting /\ handover = "none" /\ ~recovery

\* A start that failed, or a backend that was stopped: no process is left, and none will come.
Over(s) == s.promise = "rejected" \/ s.stop = "done"

\* The launches before the last one are over, and so is the last one when the launcher has
\* forgotten its backend.
LaunchesInOrder ==
    /\ \A g \in Launches : g > launches => launch[g] = "none" /\ service[g] = NoService
    /\ \A g \in Launches : g < launches => launch[g] = "settled" /\ Over(service[g])
    /\ launch[launches] # "none" /\ service[launches].promise # "none"
    /\ launch[launches] = "starting" => backend = None
    /\ launch[launches] = "halting" => backend # None
    /\ launch[launches] = "settled" /\ backend = None => Over(service[launches])
    /\ handover = "called" \/ recovery => launch[launches] = "settled" /\ backend = None
    /\ prepare = "off" <=> handover # "preparing"
    /\ prepare # "off" => preparing = launches
    /\ prepare = "stopping" => backend # None /\ launch[launches] = "settled"

\* A process belongs to a start that has not failed and a stop that has not ended, and a stop
\* comes before a notice.
ServicesSound ==
    \A g \in Launches :
        /\ service[g].alive => service[g].promise \in {"pending", "resolved"}
        /\ service[g].alive => service[g].stop # "done"
        /\ service[g].stop = "no" => service[g].notices = 0
        /\ service[g].promise = "none" => service[g].stop = "no"

\* The last backend is not stopped behind the handlers' back.
StopIsTold == service[launches].stop # "no" => quitting \/ backendError

HandlerInv ==
    HandlerTypes /\ HandlersApart /\ ProbedIsKept /\ SettingSurvives /\ SubmittedIsSelected
UpdateInv == U!TypeOK /\ EngineRests
BackendInv == BackendTypes /\ LaunchesInOrder /\ ServicesSound
Inv == HandlerInv /\ ProcessTypes /\ UpdateInv /\ SetupWaits /\ BackendInv /\ StopIsTold

-----------------------------------------------------------------------------
LEMMA AfterValues ==
    /\ DOMAIN After = {"connect", "handshake", "verify", "manifest", "fetch"}
    /\ After["connect"] = "handshake" /\ After["handshake"] = "verify"
    /\ After["verify"] = "manifest" /\ After["manifest"] = "fetch" /\ After["fetch"] = "extract"
BY DEF After

LEMMA ServiceValues ==
    /\ NoService \in ServiceStates /\ NewService \in ServiceStates
    /\ NoService.promise = "none" /\ ~NoService.alive /\ NoService.stop = "no"
    /\ NewService.promise = "pending" /\ ~NewService.alive /\ NewService.stop = "no"
    /\ NoService.notices = 0 /\ NewService.notices = 0
<1>1. NoService \in ServiceStates
  BY DEF NoService, ServiceStates
<1>2. /\ NoService.promise = "none" /\ ~NoService.alive
      /\ NoService.stop = "no" /\ NoService.notices = 0
  BY DEF NoService
<1>3. NewService \in ServiceStates
  BY <1>1 DEF NewService, ServiceStates
<1>4. /\ NewService.promise = "pending" /\ ~NewService.alive
      /\ NewService.stop = "no" /\ NewService.notices = 0
  BY <1>1, <1>2 DEF NewService, ServiceStates
<1> QED
  BY <1>1, <1>2, <1>3, <1>4

LEMMA HandlerInit == Init => HandlerInv
BY RootsAssumption DEF Init, HandlerInv, HandlerTypes, HandlersApart, ProbedIsKept,
   SettingSurvives, SubmittedIsSelected

LEMMA OthersInit == Init => ProcessTypes /\ UpdateInv /\ SetupWaits
BY DEF Init, U!Init, ProcessTypes, UpdateInv, U!TypeOK, U!Phases, EngineRests, SetupWaits,
   active, publishing, changingFolder, selectingSource

LEMMA BackendInit == Init => BackendInv /\ StopIsTold
<1> SUFFICES ASSUME Init PROVE BackendInv /\ StopIsTold
  OBVIOUS
<1> USE MaxLaunchesAssumption, ServiceValues DEF Init, U!Init
<1>1. 1 \in Launches /\ Launches \subseteq Nat
  BY DEF Launches
<1>2. BackendTypes
  <2>1. service \in [Launches -> ServiceStates]
    OBVIOUS
  <2> QED
    BY <1>1, <2>1 DEF BackendTypes
<1>3. LaunchesInOrder
  <2>1. launches = 1 /\ \A g \in Launches : ~(g < 1)
    BY <1>1 DEF Launches
  <2>2. \A g \in Launches : g > launches => launch[g] = "none" /\ service[g] = NoService
    BY <1>1, <2>1
  <2>3. launch[1] = "starting" /\ service[1].promise # "none"
    BY <1>1
  <2> QED
    BY <2>1, <2>2, <2>3 DEF LaunchesInOrder
<1>4. ServicesSound /\ StopIsTold
  BY <1>1 DEF ServicesSound, StopIsTold
<1> QED
  BY <1>2, <1>3, <1>4 DEF BackendInv

(***************************************************************************)
(* The handlers.  They leave the process, the backend and the update       *)
(* alone, so only what is said of the handlers is to be shown.             *)
(***************************************************************************)
HandlersOnly == UNCHANGED <<quitting, life, halted, backendVars, updateVars>>

LEMMA HandlerFrame ==
    ASSUME Inv, HandlersOnly, HandlerInv', SetupWaits'
    PROVE  Inv'
<1> USE DEF Inv, HandlersOnly, backendVars, updateVars
<1>1. ProcessTypes' /\ UpdateInv' /\ StopIsTold'
  BY DEF ProcessTypes, UpdateInv, U!TypeOK, EngineRests, StopIsTold
<1>2. BackendInv'
  BY DEF BackendInv, BackendTypes, LaunchesInOrder, ServicesSound
<1> QED
  BY <1>1, <1>2

LEMMA DownloadInv ==
    ASSUME Inv, DownloadNext
    PROVE  Inv'
<1> USE DEF Inv, HandlerInv
<1>1. HandlersOnly /\ UNCHANGED <<folderVars, publishVars>>
  BY DEF DownloadNext, HandlersOnly, processVars
<1>2. CASE DownloadCalled
  <2>1. HandlerInv'
    BY <1>1, <1>2 DEF DownloadCalled, MayDownload, active, changingFolder, settings, folderVars,
       publishVars, HandlerTypes, HandlersApart, ProbedIsKept, SettingSurvives,
       SubmittedIsSelected
  <2>2. SetupWaits'
    BY <1>1, <1>2 DEF DownloadCalled, Accepting, SetupWaits, HandlersOnly, updateVars
  <2> QED
    BY <1>1, <2>1, <2>2, HandlerFrame
<1>3. CASE RootResolved \/ ProbedRootSaved
  <2>1. HandlerInv'
    BY <1>1, <1>3, RootsAssumption DEF RootResolved, ProbedRootSaved, SaveRoot, settings,
       folderVars, publishVars, HandlerTypes, HandlersApart, ProbedIsKept, SettingSurvives,
       SubmittedIsSelected
  <2>2. SetupWaits'
    BY <1>1, <1>3 DEF RootResolved, ProbedRootSaved, SetupWaits, HandlersOnly, updateVars,
       folderVars, publishVars, active, publishing, changingFolder, selectingSource
  <2> QED
    BY <1>1, <2>1, <2>2, HandlerFrame
<1>4. CASE \/ DownloadProceeds \/ DownloadFails \/ Extracted \/ ExtractFails
           \/ DownloadCancelled
  <2> USE AfterValues, <1>4
      DEF DownloadProceeds, DownloadFails, Extracted, ExtractFails, DownloadCancelled, DownloadEnds
  <2>1. HandlerInv'
    BY <1>1 DEF settings, folderVars, publishVars, HandlerTypes, HandlersApart, ProbedIsKept,
       SettingSurvives, SubmittedIsSelected, active
  <2>2. SetupWaits'
    BY <1>1 DEF SetupWaits, HandlersOnly, updateVars, folderVars, publishVars, active,
       publishing, changingFolder, selectingSource, HandlerTypes
  <2> QED
    BY <1>1, <2>1, <2>2, HandlerFrame
<1> QED
  BY <1>2, <1>3, <1>4 DEF DownloadNext

LEMMA FolderInv ==
    ASSUME Inv, FolderNext
    PROVE  Inv'
<1> USE DEF Inv, HandlerInv
<1>1. HandlersOnly /\ UNCHANGED <<downloadVars, publishVars>>
  BY DEF FolderNext, HandlersOnly, processVars
<1>2. HandlerInv'
  BY <1>1, RootsAssumption DEF FolderNext, ChangeFolderCalled, MayChangeFolder, FolderChosen,
     FolderProbed, FolderWritten, FolderSaved, FolderKept, SaveRoot, active, changingFolder,
     settings, downloadVars, publishVars, HandlerTypes, HandlersApart, ProbedIsKept,
     SettingSurvives, SubmittedIsSelected
<1>3. SetupWaits'
  BY <1>1 DEF FolderNext, ChangeFolderCalled, Accepting, FolderChosen, FolderProbed,
     FolderWritten, FolderSaved, FolderKept, SetupWaits, HandlersOnly, updateVars, downloadVars,
     publishVars, active, publishing, changingFolder, selectingSource
<1> QED
  BY <1>1, <1>2, <1>3, HandlerFrame

LEMMA PublishInv ==
    ASSUME Inv, PublishNext
    PROVE  Inv'
<1> USE DEF Inv, HandlerInv
<1>1. HandlersOnly /\ UNCHANGED <<settings, downloadVars, folderVars>>
  BY DEF PublishNext, HandlersOnly, processVars
<1>2. HandlerInv'
  BY <1>1 DEF PublishNext, ChooseCalled, MayChoose, SourceScanned, SubmitCalled, MaySubmit,
     PublishProceeds, PublishEnds, selectingSource, publishing, settings, downloadVars,
     folderVars, HandlerTypes, HandlersApart, ProbedIsKept, SettingSurvives, SubmittedIsSelected
<1>3. SetupWaits'
  BY <1>1 DEF PublishNext, ChooseCalled, SubmitCalled, Accepting, SourceScanned,
     PublishProceeds, PublishEnds, SetupWaits, HandlersOnly, updateVars, downloadVars,
     folderVars, active, publishing, changingFolder, selectingSource
<1> QED
  BY <1>1, <1>2, <1>3, HandlerFrame

(***************************************************************************)
(* The backend.                                                            *)
(***************************************************************************)
BackendOnly == UNCHANGED <<handlerVars, processVars, updateVars, launches>>

LEMMA BackendFrame ==
    ASSUME Inv, BackendOnly, BackendInv', StopIsTold'
    PROVE  Inv'
<1> USE DEF Inv, BackendOnly, handlerVars, settings, downloadVars, folderVars, publishVars,
            processVars, updateVars
<1>1. HandlerInv'
  BY DEF HandlerInv, HandlerTypes, HandlersApart, ProbedIsKept, SettingSurvives,
     SubmittedIsSelected
<1>2. ProcessTypes' /\ UpdateInv'
  BY DEF ProcessTypes, UpdateInv, U!TypeOK, EngineRests
<1>3. SetupWaits'
  BY DEF SetupWaits, active, publishing, changingFolder, selectingSource
<1> QED
  BY <1>1, <1>2, <1>3

\* A service changes its state and stays within its promises; what is over stays over.
LEMMA OneServiceSteps ==
    ASSUME Inv, BackendOnly, UNCHANGED <<launch, backend>>,
           NEW g \in Launches, NEW s \in ServiceStates,
           service' = [service EXCEPT ![g] = s], backendError' \in BOOLEAN,
           service[g].promise # "none", s.promise # "none",
           Over(service[g]) => Over(s),
           s.alive => s.promise \in {"pending", "resolved"} /\ s.stop # "done",
           s.stop = "no" => s.notices = 0,
           backendError => backendError',
           s.stop # "no" => service[g].stop # "no" \/ backendError'
    PROVE  Inv'
<1> USE DEF Inv, BackendOnly, updateVars, processVars
<1>1. /\ service'[g] = s /\ \A h \in Launches : h # g => service'[h] = service[h]
      /\ launches' \in Launches
  BY DEF BackendInv, BackendTypes
<1>2. BackendTypes'
  BY DEF BackendInv, BackendTypes
<1>3. ~(g > launches)
  BY ServiceValues DEF BackendInv, LaunchesInOrder
<1>4. \A h \in Launches : Over(service[h]) => Over(service'[h])
  BY <1>1
<1>5. LaunchesInOrder'
  BY <1>1, <1>3, <1>4 DEF BackendInv, LaunchesInOrder
<1>6. ServicesSound'
  BY <1>1 DEF BackendInv, ServicesSound
<1>7. StopIsTold'
  BY <1>1 DEF StopIsTold
<1> QED
  BY <1>2, <1>5, <1>6, <1>7, BackendFrame DEF BackendInv

LEMMA ServiceInv ==
    ASSUME Inv, NEW g \in Launches, ServiceStep(g)
    PROVE  Inv'
<1> USE DEF Inv, BackendInv
<1>1. BackendOnly /\ UNCHANGED <<launch, backend>>
  BY DEF ServiceStep, ServiceFrame, BackendOnly
<1>2. /\ service \in [Launches -> ServiceStates] /\ service[g] \in ServiceStates
      /\ backendError \in BOOLEAN
  BY DEF BackendTypes
<1>3. /\ service[g].alive => service[g].promise \in {"pending", "resolved"}
      /\ service[g].alive => service[g].stop # "done"
      /\ service[g].stop = "no" => service[g].notices = 0
  BY DEF ServicesSound
<1>4. service[g].promise = "none" => service[g].stop = "no"
  BY DEF ServicesSound
<1>5. CASE ServiceSpawns(g)
  <2> DEFINE s == [service[g] EXCEPT !.alive = TRUE]
  <2>1. /\ s \in ServiceStates /\ s.alive /\ s.promise = "pending" /\ s.stop = "no"
        /\ s.notices = service[g].notices
    BY <1>2, <1>5 DEF ServiceSpawns, ServiceStates
  <2>2. service' = [service EXCEPT ![g] = s] /\ backendError' = backendError
    BY <1>5 DEF ServiceSpawns
  <2>3. service[g].promise = "pending" /\ service[g].stop = "no"
    BY <1>5 DEF ServiceSpawns
  <2> HIDE DEF s
  <2> QED
    BY <1>1, <1>2, <1>3, <2>1, <2>2, <2>3, OneServiceSteps DEF Over
<1>6. CASE ServiceSettles(g)
  <2>1. PICK how \in {"resolved", "rejected"} :
            /\ service' = [service EXCEPT ![g].promise = how]
            /\ how = "rejected" => ~service[g].alive
    BY <1>6 DEF ServiceSettles
  <2> DEFINE s == [service[g] EXCEPT !.promise = how]
  <2>2. /\ s \in ServiceStates /\ s.alive = service[g].alive /\ s.promise = how
        /\ s.stop = service[g].stop /\ s.notices = service[g].notices
    BY <1>2 DEF ServiceStates
  <2>3. service' = [service EXCEPT ![g] = s] /\ backendError' = backendError
    BY <1>6, <2>1 DEF ServiceSettles
  <2>4. service[g].promise = "pending"
    BY <1>6 DEF ServiceSettles
  <2> HIDE DEF s
  <2> QED
    BY <1>1, <1>2, <1>3, <2>1, <2>2, <2>3, <2>4, OneServiceSteps DEF Over
<1>7. CASE ProcessesEnd(g)
  <2> DEFINE s == [service[g] EXCEPT !.alive = FALSE]
  <2>1. /\ s \in ServiceStates /\ ~s.alive /\ s.promise = service[g].promise
        /\ s.stop = service[g].stop /\ s.notices = service[g].notices
    BY <1>2 DEF ServiceStates
  <2>2. service' = [service EXCEPT ![g] = s] /\ backendError' = backendError
    BY <1>7 DEF ProcessesEnd
  <2>3. service[g].promise # "none"
    BY <1>3, <1>7 DEF ProcessesEnd
  <2> HIDE DEF s
  <2> QED
    BY <1>1, <1>2, <1>3, <2>1, <2>2, <2>3, OneServiceSteps DEF Over
<1>8. CASE StopResolves(g)
  <2> DEFINE s == [service[g] EXCEPT !.stop = "done"]
  <2>1. /\ s \in ServiceStates /\ s.alive = service[g].alive /\ s.promise = service[g].promise
        /\ s.stop = "done" /\ s.notices = service[g].notices
    BY <1>2 DEF ServiceStates
  <2>2. service' = [service EXCEPT ![g] = s] /\ backendError' = backendError
    BY <1>8 DEF StopResolves
  <2>3. service[g].stop = "asked" /\ ~service[g].alive
    BY <1>8 DEF StopResolves
  <2> HIDE DEF s
  <2> QED
    BY <1>1, <1>2, <1>3, <1>4, <2>1, <2>2, <2>3, OneServiceSteps DEF Over
<1>9. CASE ServiceLost(g)
  <2> DEFINE s == [service[g] EXCEPT !.stop = "asked", !.notices = @ + 1]
  <2>1. service[g].promise \in {"pending", "resolved"} /\ service[g].stop = "no"
    BY <1>9 DEF ServiceLost
  <2>2. /\ s \in ServiceStates /\ s.alive = service[g].alive /\ s.promise = service[g].promise
        /\ s.stop = "asked"
    <3>1. service[g].notices + 1 \in 0 .. 1
      BY <1>3, <2>1
    <3> QED
      BY <1>2, <3>1 DEF ServiceStates
  <2>3. service' = [service EXCEPT ![g] = s] /\ backendError'
    BY <1>9 DEF ServiceLost, NoticeLoss
  <2> HIDE DEF s
  <2> QED
    BY <1>1, <1>2, <1>3, <2>1, <2>2, <2>3, OneServiceSteps DEF Over
<1> QED
  BY <1>5, <1>6, <1>7, <1>8, <1>9 DEF ServiceStep

\* Asking a backend to stop changes nothing else, and nothing at all the second time.
LEMMA StopAskedOnly ==
    ASSUME service \in [Launches -> ServiceStates], ServicesSound, NEW g \in Launches,
           service[g].promise # "none", service' = StopAsked(service, g)
    PROVE  /\ service' \in [Launches -> ServiceStates]
           /\ ServicesSound'
           /\ service'[g].stop # "no"
           /\ \A h \in Launches : /\ h # g => service'[h] = service[h]
                                  /\ service'[h].promise = service[h].promise
                                  /\ Over(service[h]) => Over(service'[h])
<1> DEFINE s == [service[g] EXCEPT !.stop = IF @ = "no" THEN "asked" ELSE @]
<1>1. /\ s \in ServiceStates /\ s.alive = service[g].alive /\ s.promise = service[g].promise
      /\ s.notices = service[g].notices
      /\ s.stop = IF service[g].stop = "no" THEN "asked" ELSE service[g].stop
  BY DEF ServiceStates
<1>2. service' = [service EXCEPT ![g] = s]
  BY DEF StopAsked
<1> HIDE DEF s
<1>3. service' \in [Launches -> ServiceStates]
  BY <1>1, <1>2
<1>4. service'[g] = s /\ \A h \in Launches : h # g => service'[h] = service[h]
  BY <1>2
<1>5. ServicesSound'
  BY <1>1, <1>4 DEF ServicesSound
<1>6. Over(service[g]) => Over(s)
  BY <1>1 DEF Over
<1> QED
  BY <1>1, <1>3, <1>4, <1>5, <1>6

LEMMA LaunchInv ==
    ASSUME Inv, NEW g \in Launches, LaunchStep(g)
    PROVE  Inv'
<1> USE DEF Inv, BackendInv
<1>1. BackendOnly
  BY DEF LaunchStep, BackendOnly
<1>2. /\ UNCHANGED <<handover, recovery, prepare, preparing, quitting, launches>>
      /\ launches \in Launches /\ launches \in Nat
  BY <1>1 DEF BackendOnly, updateVars, processVars, BackendTypes, Launches
<1>3. launch[g] \in {"starting", "halting"} => g = launches
  BY <1>2 DEF LaunchesInOrder, Launches
<1>4. CASE LaunchResolved(g)
  <2> USE <1>4 DEF LaunchResolved
  <2>1. g = launches /\ service[g].promise = "resolved"
    BY <1>3
  <2>2. /\ service' \in [Launches -> ServiceStates] /\ ServicesSound'
        /\ \A h \in Launches : /\ h # g => service'[h] = service[h]
                               /\ service'[h].promise = service[h].promise
        /\ service'[g].stop # "no" => quitting \/ service[g].stop # "no"
    <3>1. CASE quitting
      BY <2>1, <3>1, StopAskedOnly DEF BackendTypes
    <3>2. CASE ~quitting
      BY <3>2 DEF BackendTypes, ServicesSound
    <3> QED
      BY <3>1, <3>2
  <2>3. BackendTypes'
    BY <1>2, <2>1, <2>2 DEF BackendTypes
  <2>4. /\ backend' # None /\ launch'[g] \in {"halting", "settled"}
        /\ \A h \in Launches : h # g => launch'[h] = launch[h]
    BY <2>1, NoneAssumption DEF BackendTypes, Launches
  <2>5. LaunchesInOrder'
    BY <1>2, <2>1, <2>2, <2>4 DEF LaunchesInOrder
  <2>6. StopIsTold'
    BY <1>2, <2>1, <2>2 DEF StopIsTold
  <2> QED
    BY <1>1, <2>2, <2>3, <2>5, <2>6, BackendFrame
<1>5. CASE LaunchRejected(g) \/ LaunchHalted(g)
  <2> USE <1>5 DEF LaunchRejected, LaunchHalted
  <2>1. /\ g = launches /\ launch'[g] = "settled"
        /\ \A h \in Launches : h # g => launch'[h] = launch[h]
        /\ UNCHANGED <<backend, service>> /\ (backendError => backendError')
    BY <1>3 DEF BackendTypes
  <2>2. BackendTypes' /\ ServicesSound'
    BY <1>2 DEF BackendTypes, ServicesSound
  <2>3. backend = None => Over(service[launches])
    BY <2>1 DEF LaunchesInOrder, Over
  <2>4. LaunchesInOrder'
    BY <1>2, <2>1, <2>3 DEF LaunchesInOrder
  <2>5. StopIsTold'
    BY <1>2, <2>1 DEF StopIsTold
  <2> QED
    BY <1>1, <2>2, <2>4, <2>5, BackendFrame
<1> QED
  BY <1>4, <1>5 DEF LaunchStep

(***************************************************************************)
(* The updates.                                                            *)
(***************************************************************************)
LEMMA EngineInv ==
    ASSUME Inv, Alive, CheckOrEvent, UNCHANGED handlerVars
    PROVE  Inv'
<1> USE DEF Inv, CheckOrEvent
<1>1. UNCHANGED <<handlerVars, processVars, backendVars, prepare, preparing>>
  OBVIOUS
<1>2. UpdateInv'
  BY DEF UpdateInv, EngineRests, U!TypeOK, U!Phases, U!Check, U!MayCheck, U!EngineStep,
     U!CheckingForUpdate, U!UpdateNotAvailable, U!UpdateAvailable, U!DownloadProgress,
     U!UpdateDownloaded, U!CheckResolves, U!ErrorEvent, U!CheckRejects, U!MayErr, U!Fail,
     U!SetupFails
\* Only a setup that did not start is undone by the launcher.
<1>3. \/ UNCHANGED <<handover, recovery>>
      \/ handover = "called" /\ handover' = "none" /\ recovery' \in BOOLEAN
  BY DEF UpdateInv, EngineRests, U!TypeOK, U!Check, U!MayCheck, U!EngineStep,
     U!CheckingForUpdate, U!UpdateNotAvailable, U!UpdateAvailable, U!DownloadProgress,
     U!UpdateDownloaded, U!CheckResolves, U!ErrorEvent, U!CheckRejects, U!MayErr, U!Fail,
     U!SetupFails
<1>4. HandlerInv' /\ ProcessTypes' /\ StopIsTold'
  BY <1>1 DEF handlerVars, settings, downloadVars, folderVars, publishVars, processVars,
     backendVars, HandlerInv, HandlerTypes, HandlersApart, ProbedIsKept, SettingSurvives,
     SubmittedIsSelected, ProcessTypes, StopIsTold
<1>5. SetupWaits'
  BY <1>1, <1>3 DEF handlerVars, settings, downloadVars, folderVars, publishVars, processVars,
     SetupWaits, active, publishing, changingFolder, selectingSource
<1>6. BackendInv'
  BY <1>1, <1>3 DEF backendVars, BackendInv, BackendTypes, LaunchesInOrder, ServicesSound
<1> QED
  BY <1>2, <1>4, <1>5, <1>6

\* What a step of the updates leaves alone is what is said of the handlers.
LEMMA UpdateFrame ==
    ASSUME Inv, UNCHANGED <<handlerVars, life, halted>>, quitting' \in BOOLEAN,
           UpdateInv', SetupWaits', BackendInv', StopIsTold'
    PROVE  Inv'
BY DEF Inv, handlerVars, settings, downloadVars, folderVars, publishVars, HandlerInv,
   HandlerTypes, HandlersApart, ProbedIsKept, SettingSurvives, SubmittedIsSelected, ProcessTypes

LEMMA InstallCalledInv ==
    ASSUME Inv, InstallCalled, UNCHANGED handlerVars
    PROVE  Inv'
<1> USE DEF Inv, InstallCalled
<1>1. /\ phase = "ready" /\ phase' = "installing" /\ handover' = "preparing"
      /\ UNCHANGED <<engine, recovery, closed, release>> /\ CanInstall /\ ~quitting /\ quitting'
      /\ life = "running" /\ prepare' = "connecting" /\ preparing' = launches
      /\ UNCHANGED <<life, halted, launch, launches, backend, backendError, service>>
  BY DEF U!Install, Accepting, backendVars
<1>2. UpdateInv'
  BY <1>1 DEF UpdateInv, U!TypeOK, U!Phases, EngineRests
<1>3. SetupWaits'
  BY <1>1 DEF handlerVars, downloadVars, folderVars, publishVars, CanInstall, SetupWaits, active,
     publishing, changingFolder, selectingSource
<1>4. BackendInv'
  <2>1. ~(handover = "called" \/ recovery)
    BY <1>1 DEF SetupWaits
  <2>2. BackendTypes' /\ ServicesSound'
    BY <1>1 DEF BackendInv, BackendTypes, ServicesSound
  <2>3. LaunchesInOrder'
    BY <1>1, <2>1 DEF BackendInv, LaunchesInOrder
  <2> QED
    BY <2>2, <2>3 DEF BackendInv
<1>5. StopIsTold'
  BY <1>1 DEF StopIsTold
<1> QED
  BY <1>1, <1>2, <1>3, <1>4, <1>5, UpdateFrame

\* The backend that is forgotten was over: its start had failed, or its stop has resolved.
LEMMA StartSetupInv ==
    ASSUME Inv, StartSetup, Over(service[launches]), launch[launches] = "settled",
           UNCHANGED <<handlerVars, processVars, launch, launches, backendError, service>>
    PROVE  Inv'
<1> USE DEF Inv, StartSetup, U!QuitAndInstall
<1>1. /\ handover = "preparing" /\ handover' = "called" /\ prepare' = "off" /\ preparing' = None
      /\ backend' = None
      /\ UNCHANGED <<phase, engine, recovery, closed, release, quitting, life, halted, launch,
                     launches, backendError, service>>
  BY DEF processVars
<1>2. UpdateInv'
  BY <1>1 DEF UpdateInv, U!TypeOK, EngineRests
<1>3. SetupWaits'
  BY <1>1 DEF handlerVars, downloadVars, folderVars, publishVars, SetupWaits, active, publishing,
     changingFolder, selectingSource
<1>4. BackendInv'
  <2>1. BackendTypes' /\ ServicesSound'
    BY <1>1 DEF BackendInv, BackendTypes, ServicesSound
  <2>2. LaunchesInOrder'
    BY <1>1 DEF BackendInv, LaunchesInOrder
  <2> QED
    BY <2>1, <2>2 DEF BackendInv
<1>5. StopIsTold'
  BY <1>1 DEF StopIsTold
<1> QED
  BY <1>1, <1>2, <1>3, <1>4, <1>5, UpdateFrame DEF ProcessTypes

LEMMA ConnectionSettledInv ==
    ASSUME Inv, ConnectionSettled, UNCHANGED handlerVars
    PROVE  Inv'
<1> USE DEF Inv, ConnectionSettled
<1>1. /\ preparing = launches /\ launch[launches] = "settled"
      /\ UNCHANGED <<processVars, launch, launches, backendError>>
  BY DEF BackendInv, LaunchesInOrder
<1>2. CASE backend = None
  BY <1>1, <1>2, StartSetupInv DEF BackendInv, LaunchesInOrder
<1>3. CASE backend # None
  <2>1. /\ backend = launches /\ launches \in Launches /\ service' = StopAsked(service, launches)
        /\ prepare' = "stopping" /\ preparing' = launches
        /\ UNCHANGED <<backend, phase, engine, handover, recovery, closed, release, quitting, life,
                       halted>>
    BY <1>1, <1>3 DEF BackendInv, BackendTypes, processVars
  <2>2. service[launches].promise # "none"
    BY DEF BackendInv, LaunchesInOrder
  <2>3. /\ service' \in [Launches -> ServiceStates] /\ ServicesSound'
        /\ \A h \in Launches : /\ h # launches => service'[h] = service[h]
                               /\ service'[h].promise = service[h].promise
                               /\ Over(service[h]) => Over(service'[h])
    BY <2>1, <2>2, StopAskedOnly DEF BackendInv, BackendTypes
  <2>4. launches \in Nat /\ Launches \subseteq Nat
    BY <2>1 DEF Launches
  <2>5. BackendTypes'
    BY <1>1, <2>1, <2>3 DEF BackendInv, BackendTypes
  <2>6. LaunchesInOrder'
    BY <1>1, <1>3, <2>1, <2>2, <2>3, <2>4 DEF BackendInv, LaunchesInOrder
  <2>7. UpdateInv' /\ SetupWaits'
    BY <2>1 DEF UpdateInv, U!TypeOK, EngineRests, handlerVars, downloadVars, folderVars,
       publishVars, SetupWaits, active, publishing, changingFolder, selectingSource
  <2>8. StopIsTold'
    <3>1. handover = "preparing"
      BY DEF BackendInv, BackendTypes, LaunchesInOrder
    <3> QED
      BY <2>1, <3>1 DEF SetupWaits, StopIsTold
  <2> QED
    BY <2>1, <2>3, <2>5, <2>6, <2>7, <2>8, UpdateFrame DEF BackendInv, ProcessTypes
<1> QED
  BY <1>2, <1>3

LEMMA BackendStoppedInv ==
    ASSUME Inv, BackendStopped, UNCHANGED handlerVars
    PROVE  Inv'
<1>1. preparing = launches /\ launch[launches] = "settled"
  BY DEF Inv, BackendStopped, BackendInv, LaunchesInOrder
<1>2. Over(service[launches])
  BY <1>1 DEF BackendStopped, HasStopped, Over
<1> QED
  BY <1>1, <1>2, StartSetupInv DEF BackendStopped

\* The new launch comes after one that is over.
LEMMA InstallFailedInv ==
    ASSUME Inv, InstallFailed, UNCHANGED handlerVars
    PROVE  Inv'
<1> USE DEF Inv, InstallFailed, AcceptAgain
<1> DEFINE n == launches + 1
<1>1. /\ recovery /\ recovery' = FALSE /\ ~quitting' /\ launches' = n /\ ~backendError'
      /\ launch' = [launch EXCEPT ![n] = "starting"]
      /\ service' = [service EXCEPT ![n] = NewService]
      /\ UNCHANGED <<phase, engine, handover, closed, release, life, halted, backend, prepare,
                     preparing>>
  BY DEF U!InstallFailed
<1>2. /\ launches \in Nat /\ n \in Launches /\ launches \in Launches /\ n # launches
      /\ \A g \in Launches : g \in Nat
  BY MaxLaunchesAssumption DEF BackendInv, BackendTypes, Launches
<1>3. /\ handover = "none" /\ prepare = "off" /\ launch[launches] = "settled"
      /\ backend = None /\ Over(service[launches]) /\ life # "stopping"
  BY <1>1 DEF SetupWaits, BackendInv, BackendTypes, LaunchesInOrder, UpdateInv, U!TypeOK
<1>4. /\ launch'[n] = "starting" /\ service'[n] = NewService
      /\ \A g \in Launches : g # n => launch'[g] = launch[g] /\ service'[g] = service[g]
  BY <1>1, <1>2 DEF BackendInv, BackendTypes
<1> HIDE DEF n
<1>5. BackendTypes'
  BY <1>1, <1>2, <1>3, ServiceValues DEF BackendInv, BackendTypes
<1>6. LaunchesInOrder'
  <2>1. \A g \in Launches : g > n => launch[g] = "none" /\ service[g] = NoService /\ g # n
    BY <1>2 DEF BackendInv, LaunchesInOrder, n
  <2>2. \A g \in Launches : g < n => g # n /\ launch[g] = "settled" /\ Over(service[g])
    BY <1>2, <1>3 DEF BackendInv, LaunchesInOrder, n
  <2> QED
    BY <1>1, <1>3, <1>4, <2>1, <2>2, ServiceValues DEF LaunchesInOrder
<1>7. ServicesSound'
  BY <1>4, ServiceValues DEF BackendInv, ServicesSound
<1>8. UpdateInv' /\ SetupWaits'
  BY <1>1, <1>3 DEF UpdateInv, U!TypeOK, EngineRests, SetupWaits
<1>9. StopIsTold'
  BY <1>1, <1>4, ServiceValues DEF StopIsTold
<1> QED
  BY <1>1, <1>5, <1>6, <1>7, <1>8, <1>9, UpdateFrame DEF BackendInv

(***************************************************************************)
(* The end of the process.                                                 *)
(***************************************************************************)
LEMMA QuitInv ==
    ASSUME Inv, Quit
    PROVE  Inv'
<1> USE DEF Inv
<1>1. UNCHANGED <<root, saved, download, probed, folder, candidate, source, selected, publish,
                  submitted, launch, launches, backend, backendError, prepare, preparing, phase,
                  engine, handover, recovery, release>>
  BY DEF Quit, QuitFrame, settings, folderVars, publishVars
<1>2. /\ \/ aborted' = aborted /\ halted' = halted
         \/ aborted' = active /\ halted' = backend /\ backend # None
      /\ quitting' = TRUE
      /\ closed' \in {closed, TRUE}
      /\ \/ life' = "ended"
         \/ life' = "stopping" /\ ~quitting
  BY DEF Quit, QuitPutOff, QuitNow, QuitResumed
<1>3. HandlerInv'
  <2>1. aborted \in BOOLEAN /\ active \in BOOLEAN
    BY DEF HandlerInv, HandlerTypes, active
  <2>2. aborted' \in BOOLEAN
    BY <1>2, <2>1
  <2> QED
    BY <1>1, <2>2 DEF HandlerInv, HandlerTypes, HandlersApart, ProbedIsKept, SettingSurvives,
       SubmittedIsSelected
<1>4. ProcessTypes' /\ UpdateInv'
  BY <1>1, <1>2 DEF ProcessTypes, BackendInv, BackendTypes, UpdateInv, U!TypeOK, EngineRests
<1>5. SetupWaits'
  BY <1>1, <1>2 DEF SetupWaits, UpdateInv, U!TypeOK, active, publishing, changingFolder,
     selectingSource
<1>6. /\ service' \in [Launches -> ServiceStates] /\ ServicesSound'
      /\ \A h \in Launches : /\ h # launches => service'[h] = service[h]
                             /\ service'[h].promise = service[h].promise
                             /\ Over(service[h]) => Over(service'[h])
  <2>1. CASE QuitPutOff
    <3>1. /\ backend = launches /\ launches \in Launches
          /\ service' = StopAsked(service, launches) /\ service[launches].promise # "none"
      BY <2>1 DEF QuitPutOff, BackendInv, BackendTypes, LaunchesInOrder
    <3> QED
      BY <3>1, StopAskedOnly DEF BackendInv, BackendTypes
  <2>2. CASE service' = service
    BY <2>2 DEF BackendInv, BackendTypes, ServicesSound
  <2> QED
    BY <2>1, <2>2 DEF Quit, QuitNow, QuitResumed
<1>7. BackendInv'
  <2>1. launches \in Nat /\ Launches \subseteq Nat /\ launches \in Launches
    BY DEF BackendInv, BackendTypes, Launches
  <2>2. BackendTypes'
    BY <1>1, <1>6 DEF BackendInv, BackendTypes
  <2>3. LaunchesInOrder'
    BY <1>1, <1>6, <2>1 DEF BackendInv, LaunchesInOrder
  <2> QED
    BY <1>6, <2>2, <2>3 DEF BackendInv
<1>8. StopIsTold'
  BY <1>2 DEF StopIsTold
<1> QED
  BY <1>3, <1>4, <1>5, <1>7, <1>8

-----------------------------------------------------------------------------
LEMMA NextInv ==
    ASSUME Inv, [Next]_vars
    PROVE  Inv'
<1>1. CASE Alive /\ (DownloadNext \/ FolderNext \/ PublishNext)
  BY <1>1, DownloadInv, FolderInv, PublishInv
<1>2. CASE BackendNext
  BY <1>2, ServiceInv, LaunchInv DEF BackendNext
<1>3. CASE UpdateNext
  BY <1>3, EngineInv, InstallCalledInv, ConnectionSettledInv, BackendStoppedInv, InstallFailedInv
  DEF UpdateNext, InstallStep
<1>4. CASE Quit
  BY <1>4, QuitInv
<1>5. CASE UNCHANGED vars
  <2>1. UNCHANGED <<handlerVars, processVars, backendVars, updateVars>>
    BY <1>5 DEF vars
  <2>2. BackendInv' /\ StopIsTold'
    BY <2>1 DEF Inv, BackendInv, BackendTypes, LaunchesInOrder, ServicesSound, StopIsTold,
       backendVars, updateVars, processVars
  <2> QED
    BY <2>1, <2>2, BackendFrame DEF BackendOnly, backendVars
<1> QED
  BY <1>1, <1>2, <1>3, <1>4, <1>5 DEF Next

\* The invariant that carries the theorems below.
THEOREM InvCorrect == Spec => []Inv
<1>1. Init => Inv
  BY HandlerInit, OthersInit, BackendInit DEF Inv
<1>2. Inv /\ [Next]_vars => Inv'
  BY NextInv
<1> QED
  BY <1>1, <1>2, PTL DEF Spec

\* Every variable keeps its type; a backend tells of its loss once at most.
THEOREM TypeCorrect == Spec => []TypeOK
<1>1. Inv => TypeOK
  BY AfterValues DEF Inv, HandlerInv, HandlerTypes, ProcessTypes, UpdateInv, BackendInv,
     BackendTypes, ServiceStates, TypeOK
<1> QED
  BY <1>1, InvCorrect, PTL

\* Two changes of the Programs folder never cross, so what is saved is what is used.
THEOREM SettingSurvivesCorrect == Spec => []SettingSurvives
<1>1. Inv => SettingSurvives
  BY DEF Inv, HandlerInv
<1> QED
  BY <1>1, InvCorrect, PTL

\* However often the backend is lost, stopped and started, there is one at a time.
THEOREM OneBackendCorrect == Spec => []OneBackend
<1>1. Inv => OneBackend
  <2> SUFFICES ASSUME Inv, NEW g \in Launches, service[g].alive PROVE g = launches
    BY DEF OneBackend
  <2>1. ~Over(service[g])
    BY DEF Inv, BackendInv, ServicesSound, Over
  <2>2. ~(g < launches)
    BY <2>1 DEF Inv, BackendInv, LaunchesInOrder
  <2>3. ~(g > launches)
    BY ServiceValues DEF Inv, BackendInv, LaunchesInOrder
  <2> QED
    BY <2>2, <2>3 DEF Inv, BackendInv, BackendTypes, Launches
<1> QED
  BY <1>1, InvCorrect, PTL

\* Setup runs for the release of the engine's last check, which no other check can have
\* replaced since, and alone: no handler is under way, and no process of any launch is left or
\* can come.
THEOREM SetupAloneCorrect == Spec => []SetupAlone
<1>1. Inv => SetupAlone
  <2> SUFFICES ASSUME Inv, handover = "called"
               PROVE  /\ release
                      /\ ~active /\ ~publishing /\ ~changingFolder /\ ~selectingSource
                      /\ \A g \in Launches : ~service[g].alive
    BY DEF SetupAlone
  <2>1. release
    BY DEF Inv, UpdateInv, EngineRests
  <2>2. ~active /\ ~publishing /\ ~changingFolder /\ ~selectingSource
    BY DEF Inv, SetupWaits
  <2>3. ASSUME NEW g \in Launches PROVE ~service[g].alive
    <3>1. g \in Nat /\ launches \in Nat
      BY DEF Inv, BackendInv, BackendTypes, Launches
    <3>2. Over(service[g]) \/ service[g] = NoService
      BY <3>1 DEF Inv, BackendInv, LaunchesInOrder
    <3> QED
      BY <3>2, ServiceValues DEF Inv, BackendInv, ServicesSound, Over
  <2> QED
    BY <2>1, <2>2, <2>3
<1> QED
  BY <1>1, InvCorrect, PTL

\* What the handlers are connected to is the last backend, which nobody has begun to stop.
THEOREM ConnectedIsLiveCorrect == Spec => []ConnectedIsLive
<1>1. Inv => ConnectedIsLive
  BY DEF Inv, BackendInv, BackendTypes, StopIsTold, ConnectedIsLive, Accepting, Connected
<1> QED
  BY <1>1, InvCorrect, PTL

\* A download extracts under the folder it has found writable, and what is published was
\* selected when Submit was pressed, whatever ran during the awaits between.
THEOREM UsesWhatWasCheckedCorrect == Spec => UsesWhatWasChecked
<1> DEFINE Uses == /\ download = "fetch" /\ download' = "extract" => root = probed
                   /\ publish = "account" /\ publish' = "send" => selected = submitted
<1>1. Inv => Uses
  BY DEF Inv, HandlerInv, ProbedIsKept, SubmittedIsSelected
<1>2. Inv /\ [Next]_vars => [Uses]_vars
  BY <1>1
<1> QED
  BY <1>2, InvCorrect, PTL DEF Spec, UsesWhatWasChecked

\* Neither a timer, nor an event of the engine, nor a failed setup, nor a quit takes a release
\* back that is ready.
THEOREM ReadyKeptCorrect == Spec => ReadyKept
<1> DEFINE Kept == phase = "ready" => phase' \in {"ready", "installing"}
<1>1. Inv /\ [Next]_vars => Kept
  <2> SUFFICES ASSUME Inv, [Next]_vars, phase = "ready" PROVE phase' \in {"ready", "installing"}
    OBVIOUS
  <2>1. engine \in {"quiet", "downloaded"} /\ handover = "none"
    BY DEF Inv, UpdateInv, U!TypeOK, EngineRests
  <2>2. CASE CheckOrEvent
    BY <2>1, <2>2 DEF CheckOrEvent, U!Check, U!MayCheck, U!EngineStep, U!CheckingForUpdate,
       U!UpdateNotAvailable, U!UpdateAvailable, U!DownloadProgress, U!UpdateDownloaded,
       U!CheckResolves, U!ErrorEvent, U!CheckRejects, U!MayErr, U!SetupFails
  <2>3. CASE InstallCalled
    BY <2>3 DEF InstallCalled, U!Install
  <2>4. CASE InstallStep
    BY <2>1, <2>4 DEF InstallStep, ConnectionSettled, BackendStopped, StartSetup,
       U!QuitAndInstall, InstallFailed, U!InstallFailed
  <2>5. CASE \/ Alive /\ (DownloadNext \/ FolderNext \/ PublishNext)
             \/ BackendNext \/ Quit \/ UNCHANGED vars
    BY <2>5 DEF DownloadNext, FolderNext, PublishNext, BackendNext, ServiceStep, ServiceFrame,
       LaunchStep, Quit, QuitFrame, updateVars, vars
  <2> QED
    BY <2>2, <2>3, <2>4, <2>5 DEF Next, UpdateNext
<1>2. Inv /\ [Next]_vars => [Kept]_(U!vars)
  BY <1>1
<1> QED
  BY <1>2, InvCorrect, PTL DEF Spec, ReadyKept, U!ReadyKept

-----------------------------------------------------------------------------
(***************************************************************************)
(* The supervisor: what the launcher assumes of each backend, by           *)
(* BackendService, is what startLocalBackend delivers.                     *)
(***************************************************************************)
\* Only the service that is being started has not been heard of, and nothing is started before
\* the files are found or after a stop.
StartsInOrder ==
    /\ startup = "files" => \A c \in Services : proc[c] = "unborn"
    /\ startup = "api" => proc["bootstrap"] = "unborn"
    /\ startup \in {"files", "api"} =>
         stopped = "none" /\ \A c \in Services : verdict[c] = "waiting"
    /\ \A c \in Services : verdict[c] = "waiting" /\ proc[c] # "unborn" => startup = c

\* A stop waits for every process there is, and a loss is only told before a stop.
StopCoversAll ==
    /\ stopping <=> stopped # "none"
    /\ ~stopping => notices = 0
    /\ startup = "unwinding" => stopped # "none"
    /\ stopped # "none" =>
         \A c \in Services : proc[c] \in {"running", "dead"} => c \in asked
    /\ stopped = "done" => \A c \in asked : proc[c] = "exited"

SupervisorInv == SupervisorTypeOK /\ StartsInOrder /\ StopCoversAll

LEMMA SupervisorInitInv == SupervisorInit => SupervisorInv
<1> SUFFICES ASSUME SupervisorInit PROVE SupervisorInv
  OBVIOUS
<1> USE DEF SupervisorInit
<1>1. SupervisorTypeOK
  <2>1. proc \in [Services -> ProcStates]
    BY DEF ProcStates
  <2>2. verdict \in [Services -> {"waiting", "ready", "failed"}]
    OBVIOUS
  <2>3. startup \in Startups /\ notices \in 0 .. 1
    BY DEF Startups
  <2> QED
    BY <2>1, <2>2, <2>3 DEF SupervisorTypeOK
<1>2. StartsInOrder
  BY DEF StartsInOrder, Services
<1>3. StopCoversAll
  BY DEF StopCoversAll
<1> QED
  BY <1>1, <1>2, <1>3 DEF SupervisorInv

\* stop() is called, the first time or again.
LEMMA StopKeeps ==
    ASSUME SupervisorInv, NEW ps \in [Services -> ProcStates],
           Stop(ps), proc' = ps,
           \A c \in Services : ps[c] \in {"running", "dead"} => proc[c] = ps[c],
           \A c \in Services : proc[c] = "exited" => ps[c] = "exited"
    PROVE  /\ stopping' \in BOOLEAN /\ stopped' \in {"none", "waiting", "done"}
           /\ asked' \in SUBSET Services
           /\ stopping' = TRUE /\ stopped' # "none"
           /\ \A c \in Services : ps[c] \in {"running", "dead"} => c \in asked'
           /\ stopped' = "done" => \A c \in asked' : ps[c] = "exited"
           /\ stopped' = stopped \/ (stopped = "none" /\ stopped' = "waiting")
<1> USE DEF SupervisorInv, StopCoversAll, Stop
<1>1. CASE stopped = "none"
  BY <1>1 DEF WaitedFor
<1>2. CASE stopped # "none"
  <2>1. UNCHANGED <<stopping, stopped, asked>>
    BY <1>2
  <2> QED
    BY <1>2, <2>1 DEF SupervisorTypeOK
<1> QED
  BY <1>1, <1>2

\* Once both services are heard of, or the start is given up, nothing waits to be heard of.
BothHeard == startup \in {"handshake", "verify", "unwinding", "resolved", "rejected"}

LEMMA PastTheStarts ==
    ASSUME StartsInOrder, UNCHANGED <<proc, verdict>>, BothHeard, BothHeard'
    PROVE  StartsInOrder'
<1>1. \A c \in Services : ~(verdict[c] = "waiting" /\ proc[c] # "unborn")
  BY DEF StartsInOrder, BothHeard, Services
<1> QED
  BY <1>1 DEF StartsInOrder, BothHeard

LEMMA SupervisorNextInv ==
    ASSUME SupervisorInv, [SupervisorNext]_supervisorVars
    PROVE  SupervisorInv'
<1> USE DEF SupervisorInv, SupervisorTypeOK, Startups, ProcStates
<1>1. CASE FindFiles
  BY <1>1 DEF FindFiles, Spawned, Services, StartsInOrder,
     StopCoversAll
<1>2. ASSUME NEW c \in Services, ReadyLine(c) PROVE SupervisorInv'
  BY <1>2 DEF ReadyLine, Spawned, Services, StartsInOrder,
     StopCoversAll
<1>3. ASSUME NEW c \in Services, LaunchFails(c) PROVE SupervisorInv'
  <2>1. Stop(proc) /\ proc' = proc /\ startup' = "unwinding"
    BY <1>3 DEF LaunchFails, Unwind
  <2>2. StopCoversAll' /\ SupervisorTypeOK'
    BY <1>3, <2>1, StopKeeps DEF LaunchFails, StopCoversAll
  <2>3. StartsInOrder'
    BY <1>3, <2>1 DEF LaunchFails, StartsInOrder
  <2> QED
    BY <2>2, <2>3
<1>4. ASSUME NEW c \in Services, ExitEvent(c) PROVE SupervisorInv'
  <2>1. /\ proc[c] = "dead" /\ proc' = [proc EXCEPT ![c] = "exited"]
        /\ proc' \in [Services -> ProcStates]
        /\ \A d \in Services : /\ proc'[d] \in {"running", "dead"} => proc[d] = proc'[d]
                               /\ proc[d] = "exited" => proc'[d] = "exited"
                               /\ proc'[d] = "unborn" <=> proc[d] = "unborn"
    BY <1>4 DEF ExitEvent
  <2>2. CASE verdict[c] = "waiting"
    <3>1. /\ Stop(proc') /\ startup' = "unwinding" /\ startup = c
          /\ verdict' = [verdict EXCEPT ![c] = "failed"] /\ notices' = notices
      BY <1>4, <2>1, <2>2 DEF ExitEvent, Unwind, StartsInOrder
    <3>2. /\ stopping' = TRUE /\ stopped' # "none" /\ stopped' \in {"none", "waiting", "done"}
          /\ asked' \in SUBSET Services
          /\ \A d \in Services : proc'[d] \in {"running", "dead"} => d \in asked'
          /\ stopped' = "done" => \A d \in asked' : proc'[d] = "exited"
      BY <2>1, <3>1, StopKeeps
    <3>3. StopCoversAll'
      BY <3>1, <3>2 DEF StopCoversAll
    <3>4. SupervisorTypeOK'
      BY <2>1, <3>1, <3>2
    <3>5. StartsInOrder'
      BY <2>1, <3>1 DEF StartsInOrder
    <3> QED
      BY <3>3, <3>4, <3>5
  <2>3. CASE verdict[c] # "waiting" /\ Tells(c)
    <3>1. /\ Stop(proc') /\ UNCHANGED <<startup, verdict>> /\ notices' = notices + 1
          /\ notices = 0 /\ startup \notin {"files", "api"}
      BY <1>4, <2>3 DEF ExitEvent, Tells, StartsInOrder, StopCoversAll
    <3>2. /\ stopping' = TRUE /\ stopped' # "none" /\ stopped' \in {"none", "waiting", "done"}
          /\ asked' \in SUBSET Services
          /\ \A d \in Services : proc'[d] \in {"running", "dead"} => d \in asked'
          /\ stopped' = "done" => \A d \in asked' : proc'[d] = "exited"
      BY <2>1, <3>1, StopKeeps
    <3>3. StopCoversAll'
      BY <3>1, <3>2 DEF StopCoversAll
    <3>4. SupervisorTypeOK'
      BY <2>1, <3>1, <3>2
    <3>5. StartsInOrder'
      BY <2>1, <3>1 DEF StartsInOrder
    <3> QED
      BY <3>3, <3>4, <3>5
  <2>4. CASE verdict[c] # "waiting" /\ ~Tells(c)
    <3>1. UNCHANGED <<startup, verdict, stopping, stopped, asked, notices>>
      BY <1>4, <2>4 DEF ExitEvent
    <3>2. StopCoversAll'
      BY <2>1, <3>1 DEF StopCoversAll
    <3>3. SupervisorTypeOK'
      BY <2>1, <3>1
    <3>4. startup \notin {"files", "api"}
      BY <2>1, <2>4 DEF StartsInOrder
    <3>5. StartsInOrder'
      BY <2>1, <3>1, <3>4 DEF StartsInOrder
    <3> QED
      BY <3>2, <3>3, <3>5
  <2> QED
    BY <2>2, <2>3, <2>4
<1>5. CASE Handshake
  <2>1. CASE startup' \in {"verify", "resolved"} /\ UNCHANGED <<stopping, stopped, asked>>
    <3>1. startup \in {"handshake", "verify"} /\ UNCHANGED <<proc, verdict, notices>>
      BY <1>5 DEF Handshake
    <3>2. SupervisorTypeOK'
      BY <2>1, <3>1
    <3>3. StartsInOrder'
      BY <2>1, <3>1, PastTheStarts DEF BothHeard
    <3>4. StopCoversAll'
      BY <2>1, <3>1 DEF StopCoversAll
    <3> QED
      BY <3>2, <3>3, <3>4
  <2>2. CASE Unwind(proc)
    <3>1. StopCoversAll' /\ SupervisorTypeOK'
      BY <1>5, <2>2, StopKeeps DEF Handshake, Unwind, StopCoversAll
    <3>2. StartsInOrder'
      <4>1. startup' = "unwinding"
        BY <2>2 DEF Unwind
      <4>2. startup \in {"handshake", "verify"} /\ UNCHANGED <<proc, verdict>>
        BY <1>5 DEF Handshake
      <4> QED
        BY <4>1, <4>2, PastTheStarts DEF BothHeard
    <3> QED
      BY <3>1, <3>2
  <2> QED
    BY <1>5, <2>1, <2>2 DEF Handshake
<1>6. CASE HostStops
  <2>1. StopCoversAll' /\ SupervisorTypeOK'
    BY <1>6, StopKeeps DEF HostStops, StopCoversAll
  <2>2. StartsInOrder'
    BY <1>6 DEF HostStops, StartsInOrder
  <2> QED
    BY <2>1, <2>2
<1>7. CASE Reject
  <2>1. SupervisorTypeOK'
    BY <1>7 DEF Reject
  <2>2. StartsInOrder'
    BY <1>7, PastTheStarts DEF Reject, BothHeard
  <2>3. StopCoversAll'
    BY <1>7 DEF Reject, StopCoversAll
  <2> QED
    BY <2>1, <2>2, <2>3
<1>10. CASE StopDone
  <2>1. SupervisorTypeOK'
    BY <1>10 DEF StopDone
  <2>2. StartsInOrder'
    <3>1. UNCHANGED <<startup, proc, verdict>> /\ stopped = "waiting"
      BY <1>10 DEF StopDone
    <3> QED
      BY <3>1 DEF StartsInOrder
  <2>3. StopCoversAll'
    BY <1>10 DEF StopDone, StopCoversAll
  <2> QED
    BY <2>1, <2>2, <2>3
<1>8. ASSUME NEW c \in Services, Die(c) PROVE SupervisorInv'
  BY <1>8 DEF Die, StartsInOrder, StopCoversAll
<1>9. CASE UNCHANGED supervisorVars
  BY <1>9 DEF supervisorVars, StartsInOrder, StopCoversAll
<1> QED
  BY <1>1, <1>2, <1>3, <1>4, <1>5, <1>6, <1>7, <1>8, <1>9, <1>10
  DEF SupervisorNext, Obey

\* The invariant that carries the theorems below: services start one after the other, and stop()
\* waits for every process there is.
THEOREM SupervisorInvCorrect == SupervisorSpec => []SupervisorInv
  BY SupervisorInitInv, SupervisorNextInv, PTL DEF SupervisorSpec

\* Every variable of startLocalBackend keeps its type, and onExit is called once at most.
THEOREM SupervisorTypeCorrect == SupervisorSpec => []SupervisorTypeOK
<1>1. SupervisorInv => SupervisorTypeOK
  BY DEF SupervisorInv
<1> QED
  BY <1>1, SupervisorInvCorrect, PTL

(***************************************************************************)
(* The supervisor does what the launcher relies on: each of its steps is a *)
(* step of BackendService or leaves that unchanged.                        *)
(***************************************************************************)
\* A process can only be alive while stop() waits for it, or before any stop.
LEMMA DoneIsDead ==
    ASSUME SupervisorInv, stopped = "done"
    PROVE  ~ServiceAlive
BY DEF SupervisorInv, StopCoversAll, ServiceAlive

\* Calling stop() asks for the stop, or does nothing.
LEMMA StopAsks ==
    ASSUME SupervisorInv, NEW ps, Stop(ps),
           promiseOf' = promiseOf,
           ServiceAlive' = ServiceAlive, notices' = notices
    PROVE  [Service!Next]_Service!vars
<1>1. CASE stopped = "none"
  <2>1. stopOf = "no" /\ stopOf' = "asked"
    BY <1>1 DEF Stop, stopOf
  <2>2. Service!AskStop
    BY <2>1 DEF Service!AskStop
  <2> QED
    BY <2>2 DEF Service!Next
<1>2. CASE stopped # "none"
  <2>1. stopOf' = stopOf
    BY <1>2 DEF Stop, stopOf
  <2> QED
    BY <2>1 DEF Service!vars
<1> QED
  BY <1>1, <1>2

LEMMA SupervisorStep ==
    ASSUME SupervisorInv, [SupervisorNext]_supervisorVars
    PROVE  [Service!Next]_Service!vars
<1> DEFINE Goal == [Service!Next]_Service!vars
<1>0. ASSUME UNCHANGED <<promiseOf, ServiceAlive, stopOf, notices>>
      PROVE  Goal
  BY <1>0 DEF Service!vars
<1>1. CASE FindFiles
  <2>1. /\ startup = "files" /\ stopped = "none" /\ UNCHANGED <<stopped, notices>>
        /\ \A c \in Services : proc[c] = "unborn"
    BY <1>1 DEF FindFiles, SupervisorInv, StartsInOrder
  <2>2. /\ promiseOf = "pending" /\ ServiceAlive = FALSE
        /\ stopOf = "no" /\ UNCHANGED stopOf
    BY <2>1 DEF promiseOf, ServiceAlive, stopOf
  <2>3. CASE startup' = "api"
    <3>1. promiseOf' = "pending"
      BY <2>3 DEF promiseOf
    <3>2. CASE ServiceAlive' = TRUE
      <4>1. Service!Spawn
        BY <2>1, <2>2, <3>1, <3>2 DEF Service!Spawn
      <4> QED
        BY <4>1 DEF Service!Next
    <3>3. CASE ServiceAlive' = FALSE
      BY <1>0, <2>1, <2>2, <3>1, <3>3
    <3> QED
      BY <3>2, <3>3 DEF ServiceAlive
  <2>4. CASE startup' = "rejected" /\ UNCHANGED proc
    <3>1. promiseOf' = "rejected" /\ UNCHANGED ServiceAlive
      BY <2>4 DEF promiseOf, ServiceAlive
    <3>2. Service!Reject
      BY <2>1, <2>2, <3>1 DEF Service!Reject
    <3> QED
      BY <3>2 DEF Service!Next
  <2> QED
    BY <1>1, <2>3, <2>4 DEF FindFiles
<1>2. ASSUME NEW c \in Services, ReadyLine(c) PROVE Goal
  <2>1. startup = c /\ startup' \in {"bootstrap", "handshake"} /\ UNCHANGED <<stopped, notices>>
    BY <1>2 DEF ReadyLine
  <2>2. promiseOf = "pending" /\ promiseOf' = "pending"
    BY <2>1 DEF promiseOf, Services
  <2>3. UNCHANGED stopOf
    BY <2>1 DEF stopOf
  <2>4. CASE c = "api"
    <3>1. stopOf = "no" /\ proc["bootstrap"] = "unborn"
      BY <2>1, <2>4 DEF SupervisorInv, StartsInOrder, stopOf
    <3>2. PICK p \in {"running", "nopid"} : proc' = [proc EXCEPT !["bootstrap"] = p]
      BY <1>2, <2>4 DEF ReadyLine, Spawned
    <3>3. proc \in [Services -> ProcStates]
      BY DEF SupervisorInv, SupervisorTypeOK
    <3>4. CASE p = "running"
      <4>1. ServiceAlive' = TRUE
        BY <3>2, <3>3, <3>4 DEF ServiceAlive, Services
      <4>2. Service!Spawn
        BY <2>1, <2>2, <2>3, <3>1, <4>1 DEF Service!Spawn
      <4> QED
        BY <4>2 DEF Service!Next
    <3>5. CASE p = "nopid"
      <4>1. \A d \in Services : proc'[d] = "running" <=> proc[d] = "running"
        BY <3>1, <3>2, <3>3, <3>5 DEF Services
      <4>2. UNCHANGED ServiceAlive
        BY <4>1 DEF ServiceAlive
      <4> QED
        BY <1>0, <2>1, <2>2, <2>3, <4>2
    <3> QED
      BY <3>4, <3>5
  <2>5. CASE c # "api"
    <3>1. UNCHANGED ServiceAlive
      BY <1>2, <2>5 DEF ReadyLine, ServiceAlive
    <3> QED
      BY <1>0, <2>1, <2>2, <2>3, <3>1
  <2> QED
    BY <2>4, <2>5
<1>3. ASSUME NEW c \in Services, LaunchFails(c) PROVE Goal
  <2>1. /\ startup = c /\ startup' = "unwinding" /\ Stop(proc)
        /\ UNCHANGED <<proc, notices>>
    BY <1>3 DEF LaunchFails, Unwind
  <2>2. UNCHANGED <<promiseOf, ServiceAlive>>
    BY <2>1 DEF promiseOf, ServiceAlive, Services
  <2> QED
    BY <2>1, <2>2, StopAsks
<1>4. ASSUME NEW c \in Services, ExitEvent(c) PROVE Goal
  <2>1. proc[c] = "dead" /\ proc' = [proc EXCEPT ![c] = "exited"]
    BY <1>4 DEF ExitEvent
  <2>2. \A d \in Services : proc'[d] = "running" <=> proc[d] = "running"
    BY <2>1 DEF SupervisorInv, SupervisorTypeOK
  <2>3. UNCHANGED ServiceAlive
    BY <2>2 DEF ServiceAlive
  <2>4. CASE verdict[c] = "waiting"
    <3>1. /\ startup = c /\ startup' = "unwinding" /\ Stop(proc') /\ notices' = notices
      BY <1>4, <2>1, <2>4 DEF ExitEvent, Unwind, SupervisorInv, StartsInOrder
    <3>2. UNCHANGED promiseOf
      BY <3>1 DEF promiseOf, Services
    <3> QED
      BY <2>3, <3>1, <3>2, StopAsks
  <2>5. CASE verdict[c] # "waiting" /\ Tells(c)
    <3>1. /\ UNCHANGED startup /\ notices' = notices + 1 /\ Stop(proc')
          /\ stopped = "none"
      BY <1>4, <2>5 DEF ExitEvent, Tells, SupervisorInv, StopCoversAll
    <3>2. stopOf = "no" /\ stopOf' = "asked" /\ UNCHANGED promiseOf
      BY <3>1 DEF stopOf, Stop, promiseOf
    <3>3. Service!LoseService
      BY <2>3, <3>1, <3>2 DEF Service!LoseService
    <3> QED
      BY <3>3 DEF Service!Next
  <2>6. CASE verdict[c] # "waiting" /\ ~Tells(c)
    <3>1. UNCHANGED <<startup, stopped, notices>>
      BY <1>4, <2>6 DEF ExitEvent
    <3>2. UNCHANGED <<promiseOf, stopOf>>
      BY <3>1 DEF promiseOf, stopOf
    <3> QED
      BY <1>0, <2>3, <3>1, <3>2
  <2> QED
    BY <2>4, <2>5, <2>6
<1>5. CASE Handshake
  <2>1. startup \in {"handshake", "verify"} /\ UNCHANGED <<proc, notices>>
    BY <1>5 DEF Handshake
  <2>2. promiseOf = "pending" /\ UNCHANGED ServiceAlive
    BY <2>1 DEF promiseOf, ServiceAlive
  <2>3. CASE startup' \in {"verify", "resolved"} /\ UNCHANGED stopped
    <3>1. UNCHANGED stopOf
      BY <2>3 DEF stopOf
    <3>2. CASE startup' = "verify"
      <4>1. promiseOf' = "pending"
        BY <3>2 DEF promiseOf
      <4> QED
        BY <1>0, <2>1, <2>2, <3>1, <4>1
    <3>3. CASE startup' = "resolved"
      <4>1. promiseOf' = "resolved"
        BY <3>3 DEF promiseOf
      <4>2. Service!Resolve
        BY <2>1, <2>2, <3>1, <4>1 DEF Service!Resolve
      <4> QED
        BY <4>2 DEF Service!Next
    <3> QED
      BY <2>3, <3>2, <3>3
  <2>4. CASE Unwind(proc)
    <3>1. startup' = "unwinding" /\ Stop(proc)
      BY <2>4 DEF Unwind
    <3>2. UNCHANGED promiseOf
      BY <2>1, <3>1 DEF promiseOf
    <3> QED
      BY <2>1, <2>2, <3>1, <3>2, StopAsks
  <2> QED
    BY <1>5, <2>1, <2>3, <2>4 DEF Handshake
<1>6. CASE HostStops
  <2>1. Stop(proc) /\ UNCHANGED <<startup, proc, notices>>
    BY <1>6 DEF HostStops
  <2>2. UNCHANGED <<promiseOf, ServiceAlive>>
    BY <2>1 DEF promiseOf, ServiceAlive
  <2> QED
    BY <2>1, <2>2, StopAsks
<1>7. CASE Reject
  <2>1. /\ startup = "unwinding" /\ startup' = "rejected" /\ stopped = "done"
        /\ UNCHANGED <<proc, stopped, notices>>
    BY <1>7 DEF Reject, Unwound
  <2>2. /\ promiseOf = "pending" /\ promiseOf' = "rejected"
        /\ UNCHANGED <<ServiceAlive, stopOf>>
    BY <2>1 DEF promiseOf, ServiceAlive, stopOf
  <2>3. Service!Reject
    BY <2>1, <2>2, DoneIsDead DEF Service!Reject
  <2> QED
    BY <2>3 DEF Service!Next
<1>8. CASE StopDone
  <2>1. /\ stopped = "waiting" /\ stopped' = "done" /\ UNCHANGED <<startup, proc, notices>>
        /\ \A c \in asked : proc[c] = "exited"
    BY <1>8 DEF StopDone
  <2>2. /\ stopOf = "asked" /\ stopOf' = "done"
        /\ UNCHANGED <<promiseOf, ServiceAlive>>
    BY <2>1 DEF stopOf, promiseOf, ServiceAlive
  <2>3. ~ServiceAlive
    BY <2>1 DEF SupervisorInv, StopCoversAll, ServiceAlive
  <2>4. Service!StopResolves
    BY <2>1, <2>2, <2>3 DEF Service!StopResolves
  <2> QED
    BY <2>4 DEF Service!Next
<1>9. ASSUME NEW c \in Services, Die(c) PROVE Goal
  <2>1. proc[c] = "running" /\ UNCHANGED <<startup, stopped, notices>>
    BY <1>9 DEF Die
  <2>2. ServiceAlive = TRUE /\ UNCHANGED <<promiseOf, stopOf>>
    BY <2>1 DEF ServiceAlive, promiseOf, stopOf
  <2>3. CASE ServiceAlive' = TRUE
    BY <1>0, <2>1, <2>2, <2>3
  <2>4. CASE ServiceAlive' = FALSE
    <3>1. Service!ProcessesEnd
      BY <2>1, <2>2, <2>4 DEF Service!ProcessesEnd
    <3> QED
      BY <3>1 DEF Service!Next
  <2> QED
    BY <2>3, <2>4 DEF ServiceAlive
<1>10. CASE UNCHANGED supervisorVars
  <2>1. UNCHANGED <<promiseOf, ServiceAlive, stopOf, notices>>
    BY <1>10 DEF supervisorVars, promiseOf, ServiceAlive, stopOf
  <2> QED
    BY <1>0, <2>1
<1> QED
  BY <1>1, <1>2, <1>3, <1>4, <1>5, <1>6, <1>7, <1>8, <1>9, <1>10
  DEF SupervisorNext, Obey

\* What the launcher relies on when it calls startLocalBackend (launcher's prepare and quit), the
\* supervisor does: a start settles once; when it fails or a stop has resolved, no service
\* process is left; the launcher is told of a loss at most once, and not after a stop.
THEOREM SupervisorImplements == SupervisorSpec => ImplementsBackendService
<1>1. SupervisorInit => Service!Init
  BY DEF SupervisorInit, Service!Init, promiseOf, ServiceAlive,
     stopOf
<1>2. SupervisorInv /\ [SupervisorNext]_supervisorVars
        => [Service!Next]_Service!vars
  BY SupervisorStep
<1> QED
  BY <1>1, <1>2, SupervisorInvCorrect, PTL
  DEF SupervisorSpec, ImplementsBackendService, Service!Spec

\* No service process is left when startLocalBackend has failed or stop() has resolved: whoever
\* keeps to BackendService keeps to this.
THEOREM NothingIsLeftCorrect ==
    SupervisorSpec => [](startup = "rejected" \/ stopped = "done" => ~ServiceAlive)
<1> DEFINE NothingIsLeft == promiseOf = "rejected" \/ stopOf = "done"
                              => ServiceAlive = FALSE
<1>1. Service!Init => NothingIsLeft
  BY DEF Service!Init
<1>2. NothingIsLeft /\ [Service!Next]_Service!vars => NothingIsLeft'
  <2> USE DEF Service!vars, Service!Next, Service!Spawn,
       Service!Resolve, Service!LoseService, Service!AskStop,
       Service!ProcessesEnd, Service!StopResolves,
       Service!Reject
  <2> QED
    OBVIOUS
<1>3. SupervisorInv /\ NothingIsLeft
        => (startup = "rejected" \/ stopped = "done" => ~ServiceAlive)
  BY DEF promiseOf, stopOf
<1> QED
  BY <1>1, <1>2, <1>3, SupervisorInvCorrect, SupervisorImplements, PTL
  DEF ImplementsBackendService, Service!Spec

-----------------------------------------------------------------------------
(***************************************************************************)
(* The tickets one of the services issues and the other one verifies.  The *)
(* secret is new after each start, as it is with the launcher; with a      *)
(* secret that is kept the theorems are false, and what fails is the step  *)
(* for Restart.                                                            *)
(***************************************************************************)
LEMMA TicketsInitInv == TicketsInit => TicketsInv
BY TimesAssumption DEF TicketsInit, TicketsInv, TicketsTypeOK, ExpiryIsKept, ServedIsSigned,
   DoomedIsExpired, SpentIsRemembered, SpentOnceInTime, SameTicketTwice, Times, Positions, Final

(***************************************************************************)
(* One lemma per action.                                                   *)
(***************************************************************************)
\* A fresh nonce is one that nobody has seen, so what is known of the others stands.
LEMMA IssueInv ==
    ASSUME TicketsInv, NEW n \in Nonces, Issue(n)
    PROVE  TicketsInv'
<1> USE DEF TicketsInv, TicketsTypeOK, Issue, Expiry
<1>1. /\ expires[n] = 0 /\ n \notin issued
      /\ now + Lifetime \in Times /\ now + Lifetime # 0
  BY TimesAssumption DEF Times
<1>2. n \notin used /\ (\A r \in Requests : n \notin doomed[r])
  BY <1>1 DEF ExpiryIsKept
<1>3. \A r \in Requests : pc[r] # "unsent" => ticket[r] # n
  BY <1>1 DEF ExpiryIsKept
<1>4. TicketsTypeOK'
  BY <1>1, TimesAssumption DEF Times
<1>5. ExpiryIsKept'
  BY <1>1 DEF ExpiryIsKept
<1>6. ServedIsSigned'
  BY DEF ServedIsSigned
<1>7. DoomedIsExpired'
  BY <1>2 DEF DoomedIsExpired
<1>8. SpentIsRemembered'
  BY <1>3 DEF SpentIsRemembered
<1>9. SpentOnceInTime'
  BY <1>3 DEF SpentOnceInTime, SameTicketTwice
<1> QED
  BY <1>4, <1>5, <1>6, <1>7, <1>8, <1>9

\* Up to the purge a request changes nothing that the others see.
LEMMA ReceiveInv ==
    ASSUME TicketsInv, NEW r \in Requests, Receive(r) \/ CheckSignature(r) \/ FindExpired(r)
    PROVE  TicketsInv'
<1> USE DEF TicketsInv, TicketsTypeOK, Receive, CheckSignature, FindExpired, Positions, Final
<1>1. TicketsTypeOK'
  OBVIOUS
<1>2. ExpiryIsKept'
  BY DEF ExpiryIsKept
<1>3. ServedIsSigned'
  BY DEF ServedIsSigned
<1>4. DoomedIsExpired'
  BY DEF DoomedIsExpired, Expired
<1>5. /\ \A s \in Requests : pc'[s] = "verified" => pc[s] = "verified"
      /\ UNCHANGED <<now, expires, used, issued, ticket>>
  OBVIOUS
<1>6. SpentIsRemembered'
  <2>1. \A s \in Requests : \A n \in doomed'[s] : expires[n] < now
    BY <1>4, <1>5 DEF DoomedIsExpired
  <2>2. \A n \in Nonces : expires[n] \in Nat /\ now \in Nat
    BY TimesAssumption DEF Times
  <2> QED
    BY <1>5, <2>1, <2>2 DEF SpentIsRemembered
<1>7. SpentOnceInTime'
  BY <1>5 DEF SpentOnceInTime, SameTicketTwice
<1> QED
  BY <1>1, <1>2, <1>3, <1>4, <1>6, <1>7

\* The purge forgets only what had expired when it looked, and no good ticket is among it.
LEMMA RemoveExpiredInv ==
    ASSUME TicketsInv, NEW r \in Requests, RemoveExpired(r)
    PROVE  TicketsInv'
<1> USE DEF TicketsInv, TicketsTypeOK, RemoveExpired, Positions, Final
<1>1. TicketsTypeOK'
  OBVIOUS
<1>2. ExpiryIsKept'
  BY DEF ExpiryIsKept
<1>3. ServedIsSigned'
  BY DEF ServedIsSigned
<1>4. DoomedIsExpired'
  BY DEF DoomedIsExpired
<1>5. \A s \in Requests : pc'[s] = "verified" => pc[s] = "verified"
  OBVIOUS
<1>6. SpentIsRemembered'
  BY <1>5 DEF SpentIsRemembered
<1>7. SpentOnceInTime'
  BY <1>5 DEF SpentOnceInTime, SameTicketTwice
<1> QED
  BY <1>1, <1>2, <1>3, <1>4, <1>6, <1>7

\* A nonce that is added was not there, so by SpentIsRemembered no other request has spent
\* this ticket while it was good.
LEMMA SpendInv ==
    ASSUME TicketsInv, NEW r \in Requests, Spend(r)
    PROVE  TicketsInv'
<1> USE DEF TicketsInv, TicketsTypeOK, Spend, Adds, Positions, Final
<1>1. \A n \in Nonces : expires[n] \in Nat /\ now \in Nat
  BY TimesAssumption DEF Times
<1>2. TicketsTypeOK'
  OBVIOUS
<1>3. ExpiryIsKept'
  BY DEF ExpiryIsKept
<1>4. ServedIsSigned'
  BY DEF ServedIsSigned
<1>5. DoomedIsExpired'
  BY DEF DoomedIsExpired
<1>6. SpentIsRemembered'
  <2> SUFFICES ASSUME NEW s \in Requests,
                      pc'[s] = "verified", ticket[s] \in issued, now =< expires[ticket[s]]
               PROVE  /\ ticket[s] \in used'
                      /\ \A q \in Requests : ticket[s] \notin doomed[q]
    BY DEF SpentIsRemembered
  <2>1. \A q \in Requests : ticket[s] \notin doomed[q]
    BY <1>1 DEF DoomedIsExpired
  <2>2. ticket[s] \in used'
    BY DEF SpentIsRemembered
  <2> QED
    BY <2>1, <2>2
<1>7. SpentOnceInTime'
  <2>1. ticket[r] \in issued
    BY DEF ServedIsSigned
  <2>2. \A s \in Requests : s # r => pc'[s] = pc[s]
    OBVIOUS
  <2>3. ASSUME NEW s \in Requests, pc[s] = "verified", ticket[s] = ticket[r],
               pc'[r] = "verified"
        PROVE  expires[ticket[r]] < now
    BY <1>1, <2>1, <2>3 DEF SpentIsRemembered
  <2> QED
    BY <2>2, <2>3 DEF SpentOnceInTime, SameTicketTwice
<1> QED
  BY <1>2, <1>3, <1>4, <1>5, <1>6, <1>7

\* A restart forgets what was spent, and with it the secret those tickets were signed with.
LEMMA RestartInv ==
    ASSUME ~SecretKept, TicketsInv, Restart
    PROVE  TicketsInv'
<1> USE DEF TicketsInv, TicketsTypeOK, Restart, Positions, Final
<1>1. \A s \in Requests : /\ pc'[s] = "verified" => pc[s] = "verified"
                          /\ pc'[s] # "unsent" => pc[s] # "unsent"
                          /\ pc'[s] \notin {"signed", "purging", "purged"}
  OBVIOUS
<1>2. TicketsTypeOK'
  OBVIOUS
<1>3. ExpiryIsKept'
  BY <1>1 DEF ExpiryIsKept
<1>4. ServedIsSigned'
  BY <1>1 DEF ServedIsSigned
<1>5. DoomedIsExpired'
  BY DEF DoomedIsExpired
<1>6. SpentIsRemembered'
  BY DEF SpentIsRemembered
<1>7. SpentOnceInTime'
  BY <1>1 DEF SpentOnceInTime, SameTicketTwice
<1> QED
  BY <1>2, <1>3, <1>4, <1>5, <1>6, <1>7

\* What has expired stays expired.
LEMMA TickInv ==
    ASSUME TicketsInv, Tick
    PROVE  TicketsInv'
<1> USE TimesAssumption DEF TicketsInv, TicketsTypeOK, Tick, Times
<1>1. \A n \in Nonces : /\ expires[n] \in Nat /\ now \in Nat
                        /\ now' = now + 1
  OBVIOUS
<1>2. TicketsTypeOK'
  OBVIOUS
<1>3. ExpiryIsKept'
  BY DEF ExpiryIsKept
<1>4. ServedIsSigned'
  BY DEF ServedIsSigned
<1>5. DoomedIsExpired'
  BY <1>1 DEF DoomedIsExpired
<1>6. SpentIsRemembered'
  BY <1>1 DEF SpentIsRemembered
<1>7. SpentOnceInTime'
  BY <1>1 DEF SpentOnceInTime, SameTicketTwice
<1> QED
  BY <1>2, <1>3, <1>4, <1>5, <1>6, <1>7

LEMMA TicketsNextInv ==
    ASSUME ~SecretKept, TicketsInv, [TicketsNext]_ticketsVars
    PROVE  TicketsInv'
<1>1. ASSUME NEW n \in Nonces, Issue(n) PROVE TicketsInv'
  BY <1>1, IssueInv
<1>2. ASSUME NEW r \in Requests, Serve(r) PROVE TicketsInv'
  BY <1>2, ReceiveInv, RemoveExpiredInv, SpendInv DEF Serve
<1>3. CASE Restart
  BY <1>3, RestartInv
<1>4. CASE Tick
  BY <1>4, TickInv
<1>5. CASE UNCHANGED ticketsVars
  BY <1>5 DEF ticketsVars, TicketsInv, TicketsTypeOK, ExpiryIsKept, ServedIsSigned, DoomedIsExpired,
     SpentIsRemembered, SpentOnceInTime, SameTicketTwice, Expired
<1> QED
  BY <1>1, <1>2, <1>3, <1>4, <1>5 DEF TicketsNext

\* The invariant that carries the two theorems below.
THEOREM TicketsInvCorrect ==
    ASSUME ~SecretKept
    PROVE  TicketsSpec => []TicketsInv
<1>1. TicketsInv /\ [TicketsNext]_ticketsVars => TicketsInv'
  BY TicketsNextInv
<1> QED
  BY TicketsInitInv, <1>1, PTL DEF TicketsSpec

\* No ticket is spent twice before it expires, for any number of concurrent requests, purges
\* and restarts, as long as each start of the API has a secret of its own.
THEOREM TicketsAreSpentOnce ==
    ASSUME ~SecretKept
    PROVE  TicketsSpec => []SpentOnceInTime
<1>1. TicketsInv => SpentOnceInTime
  BY DEF TicketsInv
<1> QED
  BY TicketsInvCorrect, <1>1, PTL

\* A spent ticket that is still good is never forgotten, and no purge is about to.
THEOREM TicketsAreRemembered ==
    ASSUME ~SecretKept
    PROVE  TicketsSpec => []SpentIsRemembered
<1>1. TicketsInv => SpentIsRemembered
  BY DEF TicketsInv
<1> QED
  BY TicketsInvCorrect, <1>1, PTL
=============================================================================
