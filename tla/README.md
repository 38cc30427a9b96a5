# A TLA+ model of download.net

download.net is a Windows app store: an Electron launcher, two bundled services (a .NET API and
a Go bootstrap service), a package format for whole app folders, and a catalog kept in a GitHub
repository. This directory holds TLA+ modules translated from its source, the TLC configurations
that model-check them, and theorems about them that TLAPS proves. Paths below are relative to the
repository.

- [The system](#the-system) · [The modules](#the-modules) · [What the runs show](#what-the-runs-show)
- [Bounds](#bounds) · [Fairness](#fairness) · [What is proved](#what-is-proved)
- [Disagreements found](#disagreements-found) · [Not modelled](#not-modelled) · [Plan](#plan)

To check: `tlc -config Launcher.cfg Launcher` (the configuration is named after the run, the
module is in the table of runs), `tlapm InstallerProofs.tla`.

## The system

| Part | Source | State it keeps | Operations | What makes it correct |
|---|---|---|---|---|
| Folder package installer | `shared/folder-package.mjs` 123–190, `shared/fs-operations.mjs` | the Programs folder on disk; a private `.vfdn-` staging folder per call | look up, verify and reuse, or stage, unpack, verify, rename, clean up | an app appears whole and reviewed, in one step, once; nothing that is there is overwritten |
| Package builder | `shared/folder-package.mjs` 48–122 | a `.part` file | scan, hash, validate, copy, rename | the package is the folder that was scanned, and can be unpacked; no file is replaced |
| Local backend supervisor | `desktop/local-backend.mjs` | two child processes, the `stopping` flag, the `stopped` promise | start, handshake, stop, exit handler | no process is left over; start and stop end; a loss is told once |
| Launcher updates | `desktop/updates.mjs` | a phase, driven by electron-updater's events | check, install, fail | a ready update is not lost; setup is called for a verified one |
| Launcher main process | `desktop/main.cjs`, `desktop/install-paths.mjs` | flags shared by the handlers, settings, the backend | download, folder change, publish, update, quit | handlers do not cross; setup and quit wait for what must be over |
| Bootstrap tickets | `services/bootstrap/main.go`, `services/Api/Program.cs` 114–122 | the spent nonces, in memory | issue, verify | a ticket is spent once |
| Package cache | `desktop/download.mjs` | one file per package; a `.part` file per call | look up, hash, download, rename | only reviewed bytes are kept or returned |
| Accounts and sessions | `services/Api/Program.cs` 31–34, 66–113 | `users.json`, the list in memory, sessions | signup, login, me, logout | unique addresses, durable answers, no trace of a failed signup |
| Catalog cache | `services/Api/Program.cs` 40–65, 123–130 | a list and its expiry | serve, fetch | fails closed, never older, everyone answered |
| Publisher | `desktop/publish.mjs` | a temporary folder; objects on GitHub | a sequence of GitHub requests | no incomplete pull request; leftovers are named |
| Catalog publication | `scripts/catalog.mjs`, `.github/workflows/catalog.yml` | `catalog/apps.json` on main; a clone and a commit per run | verify merged submissions, commit, rebase, push | only verified entries; the latest submission wins; no merge is taken back or missed |

How they interact: the window calls the handlers of `main.cjs` through IPC. A download asks the
bootstrap service for a ticket, spends it at the API, gets the manifest from the API's catalog
cache, fetches the package into the package cache and hands it to the installer. The launcher
starts and stops the two services through the supervisor, which calls back when one dies.
`LauncherUpdates` calls back into `main.cjs` to stop the backend before setup (`beforeInstall`)
and to start it again when setup fails (`installFailed`). The publisher makes a release and a pull
request, for a package the builder makes in a temporary folder; after a merge the catalog
workflow makes the entry the catalog cache serves.

What is hard here is almost always the same thing: an `await`. Between the check of a flag and
the use of what it protects, other handlers, callbacks, requests or processes run; a process may
end; a cancel may arrive; a file may be locked for a moment. PROJECT.json lists the hazards with
the line where each one bites.

## The modules

An action is what the code does between two awaited operations. Each module lists, after its
variables, a few *faulty variants*: operators with the parameters of one below, changed the way a
plausible bug would change it. They are not used by the specification; putting one in the place
of the operator it varies must break the property that PROJECT.json names, which is how the
properties are known to say something.

**ProgramsFolder** — what callers of the installer may rely on: the app is absent, complete or
changed by the owner, and each caller is answered *installed*, *reused* or *failed*. Installing is
one step.

**Installer** (checked as **MCInstaller**, which only adds the symmetry set) — `installPackage`
with `unpack`, `readInventory`, the rename retry and the cleanup, by several processes on one
target folder. `target` is the installed folder, `staging[i]` the call's private one; both map
files to *none*, *partial*, *reviewed* or *other* bytes, which is all that hashes tell apart. The
package given to a call is the reviewed one, damaged, foreign (consistent, but another build) or
malformed. Each file operation that can throw has a step into the `finally` block. `Crash` leaves
the staging folder behind; `OwnerChanges` is the user or the app itself editing the folder, and
`touched` remembers it, because the installer promises nothing about a folder changed meanwhile.
External: what the file system does with a rename onto an existing folder, a crash, the owner.

**BackendService** — what the supervisor promises: the start settles once, no process outlives a
failed start or a resolved `stop()`, one notice at most and none after a stop was asked.

**LocalBackend** — `startLocalBackend`: the files check, both `launch()` calls, the ready line, the
timeout, the handshake and its verification, the exit handler, `stop()` with its kill timer, and
the `catch` that unwinds. A process is *dead* before its `exit` event is handled and *exited*
after; the code can read either in that gap.

**Updates** — `LauncherUpdates` and the part of electron-updater it relies on. `phase` is
`state.phase`; `engine` is what the engine is doing; `handover` follows `install()`; `recovery` is
the queued call of `installFailed`; `release` is a history variable, whether the engine's last check has
brought a verified release. **Launcher** includes it with `INSTANCE`, sharing its
variables.

**Launcher** — the event loop of `main.cjs`: the download handler with every await between
its guards and the extraction, the folder change, the two publish handlers, `launchBackend` and its
`then`/`catch`, the connection, the update callbacks and `before-quit`. A handler variable is
`"off"` when its flag (`active`, `changingFolder`, …) is clear. Each launch of the backend has a
record of BackendService's variables, and what Launcher lets a service do has the guards of
BackendService's actions; LocalBackend, checked and proved to implement BackendService, shows that the
code delivers it. A failing start that stops its own processes shows in Launcher only in its rejection.

**Tickets** — the bootstrap service's `ticket()` and `/api/verify`, line by line, for concurrent
requests. The clock may tick between any two lines. `SecretKept` says whether a restart of the API
keeps the HMAC key: `FALSE` is the desktop (`local-backend.mjs:17`), `TRUE` the hosted
`compose.yaml`.

**PackageCache** — `downloadVerified`, `assetResponse` and `sha256`. The server may redirect, stop,
send too little, too much or other bytes; the call may be cancelled or killed at any await; the
owner may put anything in the place of the cached file, a link included.

**Accounts** — signup, login, `me` and logout as concurrent requests under `userLock`, the write of
`users.json.tmp` in two steps (emptied, whole), the move, and a restart that reads `users.json`
again. An account is named by the signup that made it, a session by the request that opened it.

**CatalogCache** — `Catalog()` and its two callers. A version of the published catalog is a number,
0 the empty list the API starts with. The snapshot file is no variable: nothing reads it back.

**Builder** (checked as **MCBuilder**, which gives a small tree of paths) — `buildPackage` with
`scanFolder` and `validateInventory`. `source` is the app folder, a file, a folder, something
that is refused or nothing at every path; `todo` is what `readdir` has listed and the walk has not
reached; `inventory` what the scan has found, `payload` what was copied. Other programs change the
folder (`SourceChanges`) and the place of the output (`OutputChanges`) at any moment; `changed` and
`occupied` remember it, because the builder promises less then. The walk takes the listed entries
in any order: which one comes first matters to no property. `Key` is the lower-case path.

**Publication** (checked as **MCPublication**, which gives files, apps and verdicts) —
`publishCatalog` and the workflow that runs it. A manifest is a path and a revision. `merged` is when
it was merged and `dated` the date `git log` gives its commit: a squash makes a new commit, a merge
commit leaves the author's with its own date. `queued` is GitHub's one waiting run; `behind` says that
main has moved since the rebase, so that the push is refused. Which packages pass the
verification is the constant `Sound`. External: pull requests, merges and other pushes.

**Publisher** — `publishApp` against GitHub: any request may be refused, and the answer to one that
was carried out may be lost. `made[c]` is what exists on GitHub, `confirmed[c]` the code's
`assetCreated`, `Writers` the calls of authors who may push upstream and need no fork.

**InstallerProofs**, **PackageCacheProofs**, **AccountsProofs**, **CatalogCacheProofs**,
**PublisherProofs**, **BuilderProofs**, **PublicationProofs** — the theorems about the module each is named
after. **DesktopProofs** — those about Launcher, LocalBackend and Tickets. It extends all three, which is why
the specifications of the latter two are named `SupervisorSpec` and `TicketsSpec`, and likewise their
parts.

## What the runs show

| Run | Module | Distinct states | Question |
|---|---|---|---|
| `Installer` | MCInstaller | 657 000 | Do racing installers, cancels, locked files, crashes and the owner leave every answer true (`AnswerIsTrue`), install once (`OneInstalls`), overwrite nothing (`NeverOverwritten`), leak no staging folder of a call that ended (`StagingIsOwned`), and implement ProgramsFolder? |
| `LocalBackend` | LocalBackend | 122 | Does any order of starts, deaths, timeouts and stops hang (`NothingHangs`), and does the supervisor implement BackendService, which leaves no process behind? |
| `Launcher` | Launcher | 1 605 000 | Do the handlers keep out of each other's way (`UsesWhatWasChecked`, `SettingSurvives`), is setup alone and for a verified release (`SetupAlone`), is there one backend and is it the one in use (`OneBackend`, `ConnectedIsLive`), and is a ready update kept (`ReadyKept`)? |
| `LauncherEnds` | Launcher | 477 000 | Do a quit and *Restart and update* end (`WaitsEnd`), and does the launcher come back when setup fails (`RecoversFromFailedInstall`)? |
| `LauncherExit` | Launcher | violation | Does the launcher remove a cancelled staging folder before it ends? |
| `Tickets` | Tickets | 305 000 | Is a ticket spent once while it is in time (`SpentOnceInTime`), across expiry, purges and restarts? |
| `PackageCache` | PackageCache | 7 600 | Are only reviewed bytes kept (`OnlyReviewedIsKept`) and returned (`ReturnedIsReviewed`), does a reviewed file stay (`ReviewedStays`), and does every call end without its `.part` file (`CallEnds`)? |
| `Accounts` | Accounts | 196 000 | `UniqueEmail`, `AnsweredIsDurable`, `RefusedLeavesNothing`, `AllAnswered` |
| `CatalogCache` | CatalogCache | 94 000 | `FailsClosed`, `NeverOlder`, `AllAnswered` |
| `Publisher` | Publisher | 901 000 | `PullIsComplete`, `StartsFromUpstream`, `ReleaseIsLinked` |
| `Builder` | MCBuilder | 41 000 | Is what was built the folder as it was scanned (`PackageIsTheFolder`), can it be unpacked where case does not count (`BuiltUnpacks`), is a file at the output kept (`OutputIsKept`), and does every build end without its `.part` file (`BuildEnds`)? |
| `Publication` | MCPublication | 541 000 | Is only listed what was merged and has passed (`CatalogIsSound`), is it the newest (`SelectsLatestMerged`), does every merge stay on main (`MergesSurvive`) and come to a run's notice (`MergedIsNoticed`)? |

`TypeOK` is an invariant of the runs of Launcher and LocalBackend, and proved as well; in the other
modules it is only proved, as a theorem or a conjunct of the inductive invariant. Where it says
more than types (who holds a lock, a bound on retries) its comment says so. `CHECK_DEADLOCK FALSE`
stands where the system may stop: the process of the launcher has ended, every request of the run has been served, or the backend has
been stopped. The installer's, the package cache's, the builder's and the publication's runs check
for deadlock, since calls can always be made again and a run dispatched again.

## Bounds

- *Installers* 2, *Files* 2, *Attempts* 2 (the code: 5). Two calls are enough to race for a name and
  two files for a folder that is partly verified; a retry exists with 2 attempts, and the theorems
  below hold for all values.
- *Roots* 2, *AppFolders* 2, *MaxLaunches* 2: a folder before and after a change, and the launch
  before and after a failed update. `InstallCalled` needs a launch left for the recovery, so a
  run sees one failed update. `LauncherEnds` has one folder of each kind: its properties do not
  depend on them.
- *Tickets*: `Lifetime` 2, `MaxAhead` 3, `MaxTime` 4 seconds and 3 requests
  let a ticket be spent, expire and be purged by a third request.
- *PackageCache*: 3 chunks, and the code's own 5 attempts and 6 hops. One call at a time, which is how
  the launcher runs it (`main.cjs:101`, and `main.cjs:7` for a second instance); the next call
  starts from what the last one left.
- *Accounts*: 3 signups and 1 login on 2 addresses: two signups for one address, one for another,
  and a session that is not a signup's. Any number of restarts.
- *CatalogCache*: `Lifetime` 2, 3 ticks, 2 publications, 2 requests: a catalog is withdrawn,
  outlived, and replaced while a request waits for the lock.
- *Publisher*: two calls on one fork and one by a writer, 3 attempts (the code: 12), one merge.
- *Builder*: the paths `a`, `A` and `A/b`, two contents, `MaxEntries` 2 (the code: 20 000) and the code's 5
  attempts: names that collide, a folder that turns into a file during the walk, and one entry too
  many. Any number of builds and of changes by others.
- *Publication*: two files about one app, the first corrected once because its first revision does not
  pass, and one about another app: every order of submitting and merging them, in both ways, any
  number of dispatches, runs and failures. `clock` is bounded by the revisions.

`LocalBackend` has no bound: the system is that small.

## Fairness

- **Launcher**: weak fairness of the callbacks that are due (`LaunchStep`, `InstallStep`,
  `QuitResumed`): Node's event loop runs them. A start settles because `startupTimeout` and the
  10-second fetch timeout fire; processes that were asked to stop end because a timer kills them.
  Nothing is assumed of the user, the window, the engine or GitHub.
- **LocalBackend**: the same, of the supervisor's own steps. A service is not assumed to print its
  line or to obey the end of its input; it is assumed to end when it is killed.
- **PackageCache**: a running call goes on: file operations return or throw, `fetch` answers or fails.
- **Accounts**, **CatalogCache**: a request that runs goes on, and `SemaphoreSlim` eventually serves a
  waiter — strong fairness in CatalogCache, where the lock is taken again and again by requests
  that come later; in Accounts each request runs once, so weak fairness of the step is enough.
- **Builder**: weak fairness of the build's own step: file operations return or throw.
- **Publication**: weak fairness of `Step`: GitHub starts the run that waits, and every step of a run ends or
  times out (`timeout` in `catalog.mjs:26`, the job's limit). Nothing is assumed of maintainers: neither
  that they merge nor that they dispatch a failed run again. `MergedIsNoticed` therefore counts a failed
  run that had the manifest checked out as notice.
- **Installer**, **Tickets**, **Publisher** are checked for safety only. Their retry bounds are part of
  `TypeOK`; the endings they need are those of `PackageCache`'s `CallEnds`, which uses the same
  `retryFileOperation`.

## What is proved

TLAPS checks the theorems from the modules' named assumptions on constants and nothing else.

**InstallerProofs** — for every number of installers, files and attempts:
`TypeCorrect`, `StagingCorrect`, `AnswersAreTrue`, `OneCallInstalls`, `NeverOverwrittenCorrect` and
`Refinement` (the specification implements ProgramsFolder). The argument has three layers.
`Typed` (types, and a staging folder exactly between its creation and its end) is inductive by
itself: one lemma per action group, `NextTyped` joins them. `Facts` adds what a program counter
says about data: before the first file nothing is done (`NothingDoneYet`); while verifying, every
file in `done` is reviewed in the target or the owner has touched it (`VerifiedSoFar`); while
unpacking, every file in `done` is whole in staging (`UnpackedSoFar`) and at the rename all of
them are reviewed. Without `VerifiedSoFar` and `UnpackedSoFar` the answers are not inductive: the
step that answers looks at no file. Facts need `Typed` only for the domain of the records. The
refinement then maps `target` and `pc` to `app` and `answer`: a file operation of a working call is
a stutter, the rename is `Install`, the last verification is `Reuse`, the throw is `Refuse`.

**DesktopProofs**, the launcher — for every number of folders, apps and launches, in all three
editions: `TypeCorrect`, `SettingSurvivesCorrect`, `UsesWhatWasCheckedCorrect`, `OneBackendCorrect`,
`ConnectedIsLiveCorrect`, `SetupAloneCorrect`, `ReadyKeptCorrect`. The properties are not inductive: the step that would break one (an extraction, a call of setup) checks
nothing itself and relies on checks made several awaits before. `Inv` says what those checks leave behind:

- `HandlersApart` and `ProbedIsKept`: the download and the folder change exclude each other, so the
  folder a handler has probed is still the one it goes on with, and what it has saved is what it
  will use.
- `Over` and `LaunchesInOrder`: every launch but the last has failed or was stopped, hence has no
  process and will get none; and the last one too whenever the launcher has forgotten its backend.
  This is what `launchBackend` in `installFailed` needs to start another.
- `ServicesSound`: a process belongs to a start that has not failed and a stop that has not ended.
  With `Over` it gives `OneBackend` and, during setup, that nothing is alive.
- `SetupWaits`: from *Restart and update* to the end of the recovery `quitting` is set and no handler
  is under way; a put-off quit does not overlap with it.
- `EngineRests`: once a release is ready, it is the one of the last check, and the engine has no event left
  that would change the phase.
- `StopIsTold`: the last backend is only stopped with `quitting` set, or by its own supervisor after a
  loss, which sets `backendError` in the same step (`onExit`).

There is one lemma per group of actions and part of the invariant; a frame lemma says what the other
groups leave alone. `None` is assumed to be no number (`NoneAssumption`), since a launch is one.

**DesktopProofs**, the supervisor — LocalBackend has no constants, so TLC's run is already complete for the
one pair of services the code has; the proof shows why it holds. `SupervisorInv` is
`SupervisorTypeOK` with `StartsInOrder` (only the service being started has not been heard of, and
before the first ready line nothing was stopped) and `StopCoversAll` (once stop() is called, every process there is, is
one it waits for). The latter is the heart: stop() collects the processes once, so it is sound only
because nothing is spawned after it. `SupervisorImplements` maps each step: a spawned process is
`Spawn`, the failed launch or handshake and the exit during a start are `AskStop`, the exit of a
ready service is `LoseService`, the second half of the handshake is `Resolve`, a death is
`ProcessesEnd` when it was the last. `Reject` and `StopResolves` need that no process is left, which is `StopCoversAll`.
`NothingIsLeftCorrect` then follows from BackendService.

**DesktopProofs**, the tickets — with a secret drawn at every start (`~SecretKept`), for every number
of tickets and requests and every lifetime: `TicketsAreSpentOnce` and `TicketsAreRemembered`. The inductive
invariant is `TicketsInv`: nonces the API knows have an expiry that stays
(`ExpiryIsKept`), a request past the signature check carries a ticket of the present secret
(`ServedIsSigned`), what a purge is about to remove had expired when it looked
(`DoomedIsExpired`), and a spent ticket in time is in `used` and in nobody's purge
(`SpentIsRemembered`). The restart is the step that needs `~SecretKept`: it empties `used`, which is
harmless only because `issued` is emptied too.

**AccountsProofs** — for every number of signups, logins and addresses: `TypeCorrect`,
`UniqueEmailCorrect`, `AnsweredIsDurableCorrect`, `RefusedLeavesNothingCorrect`. The invariant says
who is under the lock (`Inside`), that a signup past the check has found its address free
(`AddressIsFree`), and that memory and disk differ at most by the one account being saved
(`ListsAgree`) — without which the restart, which replaces the one by the other, would not
preserve `UniqueEmail`. `Alone` and `OneMoves` carry the mutual exclusion.

**CatalogCacheProofs** — for every lifetime, number of requests and of publications: `TypeCorrect`,
`FailsClosedCorrect`, `NeverOlderCorrect`. The key conjunct is `CacheExpires`: what is cached expires
at most one lifetime after it was withdrawn. It is inductive because a body that is no longer
published was withdrawn in the very tick of its fetch (`BodyIsNew`).

**PackageCacheProofs** — for every size, bound and, but for the last two, number of concurrent calls:
`TypeCorrect`, `OnlyReviewedIsKeptCorrect`, `ReviewedStaysCorrect`, `ReturnedIsReviewedCorrect`. A call that
has passed the comparison holds the reviewed bytes until the rename (`PartIsReviewed`); what a call is
about to remove differs from the package (`StaleDiffers`). The last two assume one call at a time: of
two calls, one that has found a stale file may remove the fresh one of the other. They also assume that
the owner has left the cache alone since the call began: a file put there between the comparison and
the removal is removed without being compared.

**PublisherProofs** — for every number of calls, attempts and upstream changes: `TypeCorrect`,
`PullIsCompleteCorrect`, `StartsFromUpstreamCorrect`, `ReleaseIsLinkedCorrect`. `MadeInOrder` is what one
call has made by the request it stands at; `BasedOnUpstream` bounds the base it has read; `FailureTold`
says what the error of a failed call links.

**BuilderProofs** — for every tree of paths and every bound: `TypeCorrect`, `PackageCorrect`,
`BuiltUnpacksCorrect`, `OutputKeptCorrect`. While nobody changes the folder, what is listed or in `todo`
is the folder's (`ScanIsOnItsWay`); `WholeFolder` is the step a test cannot take: with `todo` empty
nothing can be missing, since of the missing entries one would lie in a folder that is not missing,
and that folder was listed. It needs that no folder is in itself (`PathsAssumption`). `ValidUnpacks`
is about `validateInventory` alone: what it accepts has one entry per key and a listed folder above
each.

**PublicationProofs** — for every number of files, apps and revisions: `TypeCorrect`,
`CatalogIsSoundCorrect`, `MergesSurviveCorrect`, `SelectsLatestCorrect`. What is listed or approved has passed and was merged
(`ListsAreSound`), and a commit that may still be pushed holds what main holds (`BranchIsMain`), which is
why a push that is a fast-forward takes nothing back. For `SelectsLatestCorrect`, `NewestInv` adds
that the manifests of an app on main and in the checkout have a newest merge (`HasNewest`: a merge gets
a date above all others, so no induction over the set is needed) and that a merge during a run is of a
revision the run has not checked out, which leaves the dates it goes by as they were.

Model-checked only: liveness, which is outside this prover's reach: `NothingHangs`, `WaitsEnd`,
`RecoversFromFailedInstall`, `CallEnds`, `AllAnswered` (twice), `BuildEnds`, `MergedIsNoticed`. Every
invariant and every action property of a passing run, and both refinements, are theorems.

## Disagreements found

1. The run `LauncherExit`: docs/FOLDER-PACKAGES.md:46 says "Failed and cancelled staging folders are
   removed." `before-quit` (`main.cjs:155`) aborts the download and waits for `backend.stop()`, not for
   the download's handler, and a second quit ends the process at once; the `.vfdn-` folder then
   stays, and no later start removes it.

Four more were met on the way. No run of their own shows them; each can be seen by the change named.

2. README.md:65 says "Reused and expired tickets are rejected." `/api/verify` reads the clock for the
   expiry check (`Program.cs:115`) and again for the purge (`:119`). Two requests that pass the check in a
   ticket's last second can both be verified: when the second turns between them, the second
   request's purge removes the nonce the first one spent, and `TryAdd` succeeds. While the ticket is
   in time this cannot happen (`Tickets`, and the theorem). To see it: add the invariant `SpentOnce` to
   `Tickets.cfg`.
3. The same sentence: the spent nonces are in memory only (`Program.cs:36`), and the hosted `compose.yaml`
   restarts the API with the same secret. The desktop is not affected. To see it: set `SecretKept` to
   `TRUE` in `Tickets.cfg`.
4. docs/OPERATIONS.md:35 says the workflow "selects the most recently merged manifest per app ID".
   `catalog.mjs:12` goes by the order of `git log`, which is that of the commits' dates; a pull request
   merged with a merge commit keeps the author's, so a manifest merged later may lose to one that was
   written later. `SelectsLatestMerged` therefore has a condition, `dated[m] = merged[m]`, which squash
   merges fulfil. To see it: drop the condition.
5. docs/FOLDER-PACKAGES.md:21 says of the output that it "must not already exist". The builder looks for
   it (`folder-package.mjs:105`) before it copies, and the rename (`:119`) replaces a file that has come
   there meanwhile. `OutputIsKept` is about a file that was there when the build began. To see it:
   replace `~occupied` by `output = "absent"`.

Assumptions worth knowing: electron-updater reports no error between `update-downloaded` and the
call of setup; a rename or `File.Move` that throws has not moved; clocks do not go back; a
catalog fetch (given up after 15 seconds) takes less than a tick of the five-minute cache.

## Not modelled

- The store page (`web/store.js`, `desktop/preload.cjs`): DOM code around independent requests. Its one
  ordering hazard, an early answer about the account that comes after a login's, is in PROJECT.json.
- Manifest validation (`shared/manifest.mjs`) and the submission checks (`scripts/inspect-submission.mjs`,
  `services/inspector/ExeInspector.java`, `scripts/moderate.mjs`): predicates over one input, without state.
  The models start from a manifest that has passed; Publication has its verdicts as a constant.
- The byte format of a package: the header's encoding and its limits are one of the ways `Throws` covers, and
  the size limits of the scan are left to the bound on entries.
- A removal of a submission from main, by hand: the catalog would keep its entry, which is what the code does,
  and no document says otherwise.
- The write probe of `install-paths.mjs` is one step of Launcher that succeeds or fails; the placeholder
  path it repairs is one of the roots.
- The rate limiter and the code-of-conduct check of signup refuse before the first modelled step.
- `open-link`, `reveal`, `updates:get`, `settings:get` change no state the model has. The installation
  that electron-updater performs by itself when the launcher closes runs after the process.
- AppHost, build, packaging and verification scripts, the Vned text, the web pages: no behaviour over time.

## Plan

Done: Installer with ProgramsFolder, LocalBackend with BackendService, Updates and Launcher, Tickets,
PackageCache, Accounts, CatalogCache, Publisher, Builder, Publication; proofs about all of them.

1. The verdict of `inspect-submission.mjs` on a package, as an operator shared by Publication and the
   installer's `PackageAccepted`, when the two ever differ.

A composition of PackageCache and Installer (from reviewed manifest to installed folder) was
considered and left out: the installer verifies the package it is given again, so the composition
promises nothing that `AnswerIsTrue` does not.
