# The update service in TLA+

This is a verification project for the OpenHarmony update service
(`update_updateservice`): the service that checks a server for new firmware,
downloads the package, installs it and reports to its clients, with the kit and
the JavaScript binding through which clients use it. The modules are translated
from the source under `src/`; `PROJECT.json` gives the lines behind every
definition.

Contents: [the system](#the-system), [modules](#modules), [runs](#runs),
[refinements](#refinements), [where code and text differ](#where-code-and-text-differ),
[proofs](#proofs), [not modelled](#not-modelled), [plan](#plan).

## The system

Paths are relative to `src/`; `upgrade/` is `services/firmware/upgrade/`.

| Component | State | Operations | Correct means |
|---|---|---|---|
| `FirmwareManager` (`upgrade/flow`) | none of its own | one entry per client request; `Init`, `DelayInit` (a thread: `RestoreUpdate`, then the boot event); `HandleEvent` for network and boot | after a restart no transient status stays without a thread; an applied update is judged |
| `FirmwareFlowManager`, the three `Firmware*Mode`s | one object per request: the step it is at | after each step the mode names the next | a request that is not allowed changes nothing; a finished flow settles the status |
| check executor, server connection, answer analysis, data processor | `StatusCache::isChecking_`, the answer | connect, read, parse, compare with the tables, replace or clear | only whole answers are offered; a failed check keeps the offer; a hanging one does not block others for ever |
| download executor, `DownloadThread` (`services/engine`) | the open file, curl handle, static `isCancel_`, `isNoNet_` | append to the package file, report progress, verify the SHA-256 | a resumed package is intact; every download ends, once |
| install and apply executors, installers (`upgrade/install`) | `isInstalling_`, progress of the system installer | hand the package to the system installer (A/B) or write the updater's command and reboot | nothing waits to be applied that is not installed; every install thread ends |
| updater result (`upgrade/status`) | the result file | parse, aggregate over the components, save the description, notify, clear | the verdict is true, is one, and is recorded |
| task and component tables (`services/firmware/data`, `services/core/ability/sqlite`) | rows | insert, update, delete, query; no transactions, errors only logged | tables and files agree, whatever dies in between; a check repairs what failed |
| start-up (`services/startup`) | restart reason in the preferences, last idle check | reason of the start, environment reset, idle loop, unload | never unload a busy service; reset only when asked |
| `UpdateService` and client registry (`services/engine`) | client map, death recipients, cached `UpgradeInfo`, idle flag | register, unregister, client death, events | registered clients are watched and stay; the dead are forgotten; idle exactly without clients |
| network observer (`services/utils`) | net type, callbacks, retries | register with retries, notify | the flag of the download threads follows the network |
| IPC stubs and proxies (`interfaces/inner_api/engine`, `services/engine`) | parcels | write, check the caller, read, answer | what is asked is what arrives; outcomes are not confused |
| client kit and on-demand load (`interfaces/inner_api`) | proxy, callbacks, load status | connect, load, reconnect after the service died | callbacks survive a restart of the service; every call returns |
| NAPI sessions and conversions (`frameworks/js/napi`) | session table, members of the client object | parse, start, time out, complete, emit, build | each call is answered exactly once, with its own arguments and fresh data |

How they interact: JavaScript calls parse their arguments into members of a client
object; a pool thread sends the request through the kit's cached proxy; binder
threads of the service check the caller, read the parcel and run a flow up to its
first worker thread. The check, download, install and apply executors each run on
a thread of their own; the download thread and the system installer call back into
the flow, and the service pushes check results and events back to the client's
callback. There is no lock around the flow. What its threads share are the task
row, the component rows, the package file and a few static flags. The service
manager starts the service, the idle loop unloads it, and a client's
`TerminateUpgrade`, a crash or a reboot may end it at any point.

What is hard: requests judged by a status that a thread writes later; threads of
one task that outlive it and meet the next one; a crash or a reboot between two
writes; time-outs against late answers; notices of death and of the network that
arrive late or interleave; members and static flags that outlive what they mean.
`PROJECT.json` lists these under `hazards`, each at its line, with the property
that covers it.

## Modules

| Module | Models | Checked by | Proved in |
|---|---|---|---|
| `FirmwareUpgrade` (`MCFirmwareUpgrade`) | the upgrade flow with its threads, crashes, reboots and recovery | `upgrade`, `two_downloads` | `FirmwareUpgrade_proofs` |
| `UpgradeLifecycle` | what an upgrade promises, without its threads: abstract specification of `FirmwareUpgrade` | `upgrade` (as `ImplementsLifecycle`) | `FirmwareUpgrade_proofs` |
| `FirmwareTables` (`MCFirmwareTables`) | the two tables row by row, operations that fail, several handlers | `tables` | `FirmwareParts_proofs` |
| `FirmwareStore` | what the store promises: abstract specification of `FirmwareTables` | `tables` (as `ImplementsStore`) | `Recovery_proofs` |
| `ServerCheck` (`MCServerCheck`) | a check from the request to the answer | `check` | `Answers_proofs` |
| `DownloadThread` (`MCDownloadThread`) | the threads of one download of several packages | `download` | `FirmwareParts_proofs` |
| `SysInstaller` | the install thread, the system installer and its callback | `sys_install` | `FirmwareParts_proofs` |
| `UpdaterResult` | hand-over to the updater, its result file, the verdict at boot | `updater_result` | `Recovery_proofs` |
| `NetManager` | network observer, manager, flag of the download threads | `net` | `NetManager_proofs` |
| `ClientRegistry` (`MCClientRegistry`) | clients of the service, deaths, events, idle exit | `registry` | `ClientRegistry_proofs` |
| `ServiceKit` | cached proxy and on-demand loading in a client process | `kit` | `ServiceKit_proofs` |
| `NapiSession` | sessions of the JavaScript kit | `napi` | `NapiSession_proofs` |
| `AsyncCalls` | what the kit promises about a call: abstract specification of `NapiSession` | `napi` (as `ImplementsAsyncCalls`) | |
| `Parcel`, `ClientHelper`, `UpdateCall` (`MCUpdateCall`) | parcels, NAPI conversions, and one API call end to end | `api_calls` | `Answers_proofs` |

A definition whose comment begins with "Fault:" is a plausible mistake in the
definition after it. `PROJECT.json` pairs each checked property with a fault that
TLC must refute, which shows that the property can fail in this model. No
specification uses a fault.

### FirmwareUpgrade

State: `task` is the status column of the one task row, `comp` the version in the
component table, `file` the package at its path (length, and the version it is a
prefix of, or none if it is a mixture), `linked` the threads whose open file is
that one and not a deleted one. `device` and `envReset` are what the device and
the preferences keep; `late` is what the system installer works on after its wait
has given up, and whether it has called back since; `digested` are the versions
that came with a digest; `process` is how far the process is (off, restoring,
booting, ready) and why it was started; `isNoNet`, `isCancel` and `checking` are
the static flags; `chk`, `dl` and `ins` are the worker threads.

An action is one handler with everything it calls: the client requests up to the
start of the worker thread (`Download`, `Upgrade`, `DoCheck`, `Cancel`,
`ClearError`, `TerminateUpgrade`), the steps and callbacks of a download
(`DoDownload`, `OpenFile`, `Transfer`, `DealAbnormal`, `CurlDone`,
`VerifyDownloadPkg`, ...) and of an install or apply (`DoInstall`, `SysSuccess`,
`WaitInstallResult`, `InstallTimeout`, `LateProgress`, `LateResult`,
`RebootAndInstall`, `DoApply`, ...), and the
life of the process (`StartUp`, which is `Start`, `RestoreUpdate` or
`HandleBootComplete`; `IdleExit`, `ProcessDies`, `DeviceReboots`).

Behaviour of the code that the model keeps, and a reader may not expect:

- All tasks have the same id: `BuildTaskId` hashes the components' `versionId`,
  which is never set from the server's answer. A thread of an earlier task
  therefore updates the row of the present one (`SetTask`).
- The status becomes DOWNLOADING with the first progress report, not with the
  request, and only short of 100 %.
- A package that is already complete is verified by the executor itself, which is
  deleted by that callback and runs on; the thread may end or start a transfer.
- The callback of the system installer is never unset: after `WaitInstallResult`
  has given up, progress and result still reach `HandleInstallProgress` and are
  written into the row of whatever task there is (`LateProgress`, `LateResult`), or
  end the process, for the objects they use are gone.
- A version with an empty `verifyInfo` passes `VerifyDownloadPkg` unread (`Passes`),
  and any end of curl without an error counts as a complete package, however short
  the body (`CurlDone`).
- When `fopen` or `curl_easy_init` fails the end reason is a sentence, and `stoi`
  on it ends the process with DOWNLOAD_FAIL in the table (`OpenFails`).
- A cancel that arrives while the package is being verified leaves `isCancel_`
  up, and the next download is cancelled by it.
- APPLY is accepted with status DOWNLOAD_SUCCESS; INSTALL_AND_APPLY does not
  apply; `RestoreUpdate` reinstalls through the system installer on every device.
- If the process dies, or the reboot request fails, after UPDATING was written,
  the status stays until the device reboots.

Abstractions: a version has one package, all at one path. Component status,
progress numbers, notifications and option columns are left out, since no decision
of the flow depends on them. No two versions have the same size
(`SizeAssumption`): `IsUpgradePackagesReady` looks only at path and size. The
system installer is external: one update at a time. If the process dies the
installer may go on, and what comes of its work is shown at once (`ProcessEnds`).
The server sends bytes of the package, from where it was asked to resume, all or
fewer of them: curl is not told to fail on an error status, so that the text of an
error page would be appended like a part of the package, which the model does not
follow. What the next boot runs is external too. `HandleBootComplete` resets
`reason`, the parameter of the start thread, which ends there.

### FirmwareTables and FirmwareStore

`FirmwareTables` has the rows with their keys and integer status, the files, and
the handlers `HandleCheckResult` (with `HandleNewVersion`, `HandleNoNewVersion`)
and `ClearFirmwareInfo`, each operation a step of its own that may fail
(`OperationFails`; only logged, as in the code) or be the last (`Crash`).
`versionId` and `taskId` are the empty text everywhere, so a query by them finds
every row. What a query finds is the set `Found` of row numbers, in their order
(`NthFound`). `FirmwareStore` is the same store seen from outside: one version or
none in each place.

### ServerCheck

The outcome that `FirmwareUpgrade` takes as a choice is computed here from what
the server sends: nothing, no JSON text, a status of any kind, an answer with
parts missing, with no, one or two results, and with no, an empty, an unusable or a
whole list of descriptions (`Descriptions`). Of several results only the last is
described; of an empty list nothing is written and the check is still a success.
`lastCheckTime` is the age of the last check (five minutes are one
step). The size of a component is "known" or "undefined", since it is read into an
uninitialised variable. The upgrade meanwhile goes on (`UpgradeGoesOn`).

### DownloadThread, SysInstaller, UpdaterResult

`DownloadThread` has the loop of `PerformDownload`, a thread per package with its
wake and exit flags, the percent filter, the callback that deletes the flow (and
with it the thread object, whose destructor joins), curl's return, cancel and
network. A package may be complete before the loop comes to it: then the loop
itself ends the download, deletes its executor and runs on in freed memory, where
it may end, end the process, or start the next transfer (`LookAtFile`,
`ThroughFreed`, `UseAfterFree`); a thread still at work is then an orphan.
`SysInstaller` has the single calls to the system installer, one callback
slot that the last caller owns, the once-a-second wait, and both reports of a
result. `UpdaterResult` has the second before the reboot, the updater, the result
file with one line per package, the comparison of versions without a line (`code`,
the version code of the offer, is its name or a text that names no version), and the
steps of `HandleBootUpdateSuccess`/`Fail`, with power lost between them; `ab`
chooses the kind of device.

### NetManager, ClientRegistry, ServiceKit

`NetManager`: a transfer asks for the flag each time curl calls its progress
function with a total (before that, `DownloadProgress` returns without asking, and
curl's time-outs end it). Notices are delivered by several threads in the steps of
`OnNetChange`: compare, store (outside the mutex), lock, call back; the observer is
registered with at most `RetryMax` attempts. `ClientRegistry`: a registration is
served in the steps of `RegisterUpdateCallback` (two of them under the lock), and
the idle flag is set after the lock is released, by what was seen before. A client
is a callback object; several may have equal upgrade infos, register again at any
time, and die inside their own registration, before or after they are watched. A
recipient whose insertion lost against another registration stays (`strays`) and
its notice removes whoever has the info then. Three histories tell what the
properties speak of: `returned`, `fate` (whether an entry was overtaken through an
equal info, or its client died before it was watched) and `raced` (a removal came
between an insertion and its flag). `ServiceKit`: threads of a client share
`updateServiceLock_`, the proxy and the callback map; service processes are
numbered, so that a late notice of death and a late answer to a load request can
be told from current ones.

### NapiSession, UpdateCall, ClientHelper, Parcel

`NapiSession` has the session table, the pool, the JavaScript loop, the callbacks
and the members they share; a value is the number of the call that gave it or the
age of the service's data when it was read. Calls overlap as they like; `since` are
the requests underway when a call was made. `UpdateCall` is one call end to end:
`ClientHelper` parses and builds JavaScript values, `Parcel` writes and reads the
structures cell by cell, `UpdateCall` has proxies, the caller checks, stubs, the
service's answers, the result codes and the callback proxy and stub. Texts are
numbers; only file names are spelled out, because `ParseUpgradeFile` looks at them.

## Runs

| Run | Instance | Properties | States |
|---|---|---|---|
| `upgrade` | device with an updater; one version of two chunks, with a digest or without; one download, one client install, the restore thread, one check | `DownloadingIsBacked`, `InstallingIsBacked`, `ResumedPackageIsIntact`, `ImplementsLifecycle`, `DownloadedIsVerified`, `UpdateAwaitsVerdict` | 1,490,000 |
| `tables` | two handlers, a version of one package and one of two, one failing operation | `CheckRepairs`, `UrlsFitPackages`, `ImplementsStore` | 2,570,000 |
| `check` | two checks, two versions, answers of up to two results | `OfferIsWhole`, `FailureKeepsOffer`, `GuardOpens` | 1,810,000 |
| `download` | packages of 3 and 4 chunks, of which none, 2 or all are there already | `PercentGrows`, `EndIsFinal`, `DownloadEnds` | 1,850,000 |
| `sys_install` | two install threads, two versions | `ApplyWaitIsInstalled`, `InstallEnds` | 260,000 |
| `updater_result` | three upgrades, up to two packages, both kinds of device, version codes that are the name or not | `VerdictIsTrue`, `VerdictsAgree`, `SuccessIsRecorded` | 10,600 |
| `net` | two delivering threads, three attempts | `FlagFollowsNetwork`, `NetFailureIsExplained`, `LossStopsDownload` | 50,000 |
| `registry` | two applications with one upgrade info and a local updater, two IPC threads, one stray recipient | `RegisteredIsWatched`, `RegistrationLasts`, `IdleFlagIsTrue`, `SentToTheUsable`, `DeadAreForgotten` | 735,000 |
| `kit` | two threads, two service processes, three calls | `CallbacksFollowService`, `DeadProxyIsDropped`, `CallsReturn` | 28,000 |
| `napi` | two sessions of five methods, one handler, one event | `OwnArguments`, `HeardOnce`, `AnswerIsFresh`, `ImplementsAsyncCalls`, `EveryCallIsAnswered` | 214,000 |
| `api_calls` | two calls in a row of 26 different ones, six callers, three states of the service, two transport errors, 27 pushed messages | `RequestIntact`, `AnswerShowsTheService`, `OutcomeIsTrue`, `PushIntact` | 1,270,000 |
| `two_downloads` | two download threads | `AtMostOneDownload`, violated | |

What the passing runs say, beyond what the comments of the properties say:

- `DownloadingIsBacked`, `InstallingIsBacked`: DOWNLOADING and INSTALLING refuse
  requests. Whatever ends a thread (an error, a cancel, a lost network, a time-out, a
  crash) ends the status too, at the latest in `RestoreUpdate`. The exception is a
  late callback of the system installer, which writes INSTALLING with no thread
  behind it; it lasts until the installer ends or the service restarts. Between
  `Start` and `RestoreUpdate` nothing is promised, though requests are already
  accepted.
- `UpdateAwaitsVerdict`: while nobody works on the task, no check, request, cancel or
  clearError takes it from UPDATING, only the boot handler after a device reboot. It
  does not say that the handler comes: if the process dies after the boot and before
  the handler, the next start has another reason, and UPDATING stays until the device
  reboots again. Nor does it say that the verdict is right, which is `UpdaterResult`'s.
- `ResumedPackageIsIntact` holds with one version and one download at a time and
  fails with two of either, for the reasons of findings 1 and 3 below;
  `DownloadedIsVerified` holds with one version, for any number of downloads, since
  the digest refuses what two of them have mixed; of a version without a digest it
  says nothing, for the code checks nothing. It speaks of a running service:
  `RestoreUpdate`, short of space, can leave DOWNLOAD_SUCCESS without a package, which
  the next install request with space finds out.
- `ImplementsLifecycle` has the same two bounds, for the same reasons: a thread of an
  earlier version reports the later one as downloaded, two threads mix one file.
- `CheckRepairs`: a failed operation, a crash or two handlers at once can leave two
  tasks, mixed components or a task without any. A check that nothing disturbs leaves
  the component rows of its answer, and one task if it replaces the version. One that
  finds the version in the table already does not look at the tasks, and one that
  finds work under way repairs nothing.
- `UrlsFitPackages`: a new url for a known version is written to every row; that this
  harms no version of several packages is only because the comparison, with the first
  row for all, never finds such a version known (finding 15).
- `VerdictIsTrue` excepts the file of an earlier upgrade and a version code that does
  not compare with the display version (findings 12 and 13), and says that there is no
  other false verdict, and that the second exception never makes a success.
- `RegistrationLasts`, `IdleFlagIsTrue`, `SentToTheUsable` say how an entry may be lost
  (through another client with an equal info), the flag be wrong (through a removal
  between an insertion and its flag) and an event be swallowed (between a death and
  its notice, or by a client that died before it was watched), and that it happens in
  no other way. Each exception does occur: without it TLC finds the property violated.
- `OwnArguments` and `AnswerIsFresh` say how far overlapping calls can mix: the
  service may be asked with a later call's arguments, never an earlier one's, and a
  call may show another one's result, never one older than what was underway when it
  was made, or no result of a check at all (finding 9).
- `EndIsFinal`, with packages that are complete before the loop comes to them, excepts
  what a deleted executor does; where the package's own thread reports the end,
  nothing follows it.

Bounds. Two chunks are the least with a progress report before the last one, which
is what writes DOWNLOADING. One thread of each kind in `upgrade` reaches every
status and every action, together with the restore thread, which installs through
the system installer also on a device with an updater, so both ways of installing
and applying are reached in one instance. Two actors of a kind in the other runs
give every race of two. Two versions let an operation for one meet what is left of
the other. The counters that are bounded (`MaxFaults`, `MaxUpgrades`, `MaxBoots`,
`MaxCalls`, `MaxSessions`, `MaxAge`, `MaxEvents`) count repetitions of the same
situation: a second boot is what a late notice needs, a third upgrade is what a
result file of an earlier one needs, one changed age is what stale data needs.
`api_calls` makes two calls in a row, the second over the members the first left,
with arguments that are accepted and ones that are refused.

Deadlock is checked except where the model may stop: when the bounded calls or
boots are used up (`kit`, `api_calls`), when the one download is over
(`download`), and in `sys_install`, where a callback after the time-out leaves
INSTALLING in the row of a task that no thread works on. There that is the end
(finding 14): only a restart of the service, which is in `FirmwareUpgrade`, clears
it.

No run lists a type invariant. They are proved, for every instance (see
[Proofs](#proofs)); `StoreTypeOK` of `FirmwareStore` is part of `StoreInv`.

Fairness, and why the code justifies it (`FirmwareUpgrade`, `FirmwareTables`,
`UpdaterResult` and `UpdateCall` are checked for safety alone and state none):

| Module | Weakly fair | Because | Not fair |
|---|---|---|---|
| `ServerCheck` | `TimePasses` | five minutes go by | the server: `SSL_read` has no time-out |
| `DownloadThread` | the loop, the thread functions, curl's return | time-outs of curl | cancels, network |
| `SysInstaller` | install threads | `WaitInstallResult` is bounded | the installer and its callback |
| `NetManager` | a delivery under way, curl's callback | threads run; curl calls its progress function periodically | notices |
| `ClientRegistry` | notices of death | the binder delivers obituaries | registrations, clients, idle loop |
| `ServiceKit` | threads of the client, notices of death | `CheckUpdaterSaLoaded` polls a bounded number of times | the service manager's answer, the service |
| `NapiSession` | the work of each session | the pool and the loop run what is queued; the wait for a check ends after 40 s | the service's answer |

## Refinements

- `FirmwareUpgrade` implements `UpgradeLifecycle` (`Life` in `FirmwareUpgrade`): the
  status, version and package of the task, which packages can be checked, what was
  handed over and may still be worked on (by install threads, or by the installer
  after its wait has given up), what the next boot tries, what the device runs, and whether the service is down,
  recovering or up. The package is "whole" when its digest is that of the version in
  the component table, although the code looks at the length alone before it hands a
  package over (`IsUpgradePackagesReady`), also long after the digest was checked. Checked by
  `upgrade`, proved as `LifecycleImplemented`.
- `NapiSession` implements `AsyncCalls` (`Kit` in `NapiSession`): a call is new,
  open, answered or closed; calls are made in order and end once. Open means that
  the session is in the table. Checked by `napi`, proved as `KitImplementsAsyncCalls`.
- `FirmwareTables` implements `FirmwareStore` (`Store` in `FirmwareTables`) as long
  as handlers take turns and no operation fails; crashes may happen at any point.
  With two handlers at once it does not, and the property says so by its premise
  (`alone`, `faults`). Checked by `tables`, proved as `TablesImplementStore` for
  versions of one package: a table then shows one version or none, the handler at
  work shows its operation, and writing a url shows nothing. `Recovery_proofs`
  proves what follows for the store: a task has its components and a package
  belongs to its task.

## Where code and text differ

`two_downloads` is kept as a run: two download requests before the first progress
report are both accepted, although the code means to refuse the second as "busy on
Downloading!"; two threads append to one file.

The other disagreements met while modelling. Each is reached in the module named
and can be reproduced by relaxing the bound or adding the property described:

1. (`two_downloads`.)
2. `FirmwareUpgrade`: a check answered before the first progress report replaces
   the tables and deletes the file under a download, against the comment at
   `firmware_check_data_processor.cpp:88` (while downloading: do nothing).
3. `FirmwareUpgrade`, two versions: a download started for an earlier version marks
   the later version DOWNLOAD_SUCCESS.
4. `FirmwareUpgrade`, two installers: `isInstalling_` belongs to an object made per
   request, so a second install reaches the system installer, fails there and
   deletes the package under the first.
5. `FirmwareUpgrade`, two installers: the install thread repeats INSTALL_SUCCESS up
   to a second late and overwrites UPDATING; after the reboot the package is
   installed again instead of being judged.
6. `FirmwareStore`: after a crash between the two tables every check offers a
   version for which there is no task, and its download is refused every time.
7. `UpdateCall`: of a policy only `downloadStrategy` is kept; sizes are unsigned in
   the service and signed in JavaScript; the numbers of `UpgradeStatus` differ from
   the declaration; of several files of `applyNewVersion` the first is sent.
8. `UpdateCall`: a transport error above 2000 (29189 for a dead peer) is taken for a
   result of the stub, less 2000, instead of an IPC error.
9. `NapiSession`: two calls of one method share the members that hold their arguments,
   so the service may be asked twice with the second's, or with some of each; a policy
   that is being set is overwritten by one that is being read. A check can show the
   result of another, or end with SUCCESS and no result, if a second answer is written
   between the first one's result and the waking of its session.
10. `ClientRegistry`: answers go to the application that registered last. Of two
    clients with an equal info the later takes the place of the earlier, the notice of
    the earlier one's death removes the later, and so does the recipient of a
    registration whose insertion lost. A client that dies before it is watched stays
    in the table until its info is registered again, swallows events and keeps the
    service from leaving. The idle flag is computed and written after the lock is
    released, and a removal in between leaves it wrong.
    `ServiceKit`: a client that only waits for events is registered with a restarted
    service at its next call, not before.
11. `ServerCheck`: two requests pass `IsChecking` together; "no new version" counts
    as a failed check, so an offer is never withdrawn by it; a failed check is shown
    as success without a version. Of several results only the last is described, and
    with an empty list of descriptions a version is offered without any. Text after
    the JSON object is an answer without components and clears the offer.
12. `UpdaterResult`: power lost in the second before the reboot has the next boot read
    the result of the previous upgrade, whose file nobody removes.
13. `UpdaterResult`: without a line the verdict compares versionCode with the display
    version, and an A/B device never has a line.
14. `DownloadThread`: the first package of several that ends makes the task
    DOWNLOAD_SUCCESS; the thread of the last report joins itself and never ends;
    received bytes count twice in the percent. A package that is complete already
    ends the download and deletes the executor under the loop, which may go on to the
    next package and report it after the end.
    `FirmwareUpgrade`, `SysInstaller`: a callback after the time-out writes
    INSTALLING, or the success of another version, into the row of the next task.
    `FirmwareUpgrade`: a package without a digest is reported as downloaded whatever
    has arrived of it.
15. `FirmwareTables`, two handlers: both clear before both insert. With two packages
    per version the second always differs from the first row, and a check deletes a
    version that is downloaded already.

## Proofs

`tlapm` checks every step, for all values of the constants that satisfy the
modules' assumptions (markers such as `None` are not members of the sets they
mark; packages are not empty; bounds are natural numbers; the firmware manager
answers with results of `CallResult`, and a 32-bit cell holds every error code).

| Module | Theorems | Where | Argument |
|---|---|---|---|
| `FirmwareUpgrade_proofs` | `TypeCorrect`, `DownloadBacked`, `InstallBacked` | everywhere | `TypeOK` by one lemma for each of its parts; the others inductive together with it: only a thread in transfer (in the system installer) or a late callback writes DOWNLOADING (INSTALLING), and a thread that leaves writes another status or clears the task |
| | `UpdateAlwaysAwaitsVerdict` | everywhere | action by action: those of threads and late callbacks are not of nobody's, and of the rest only the boot handler touches an UPDATING task |
| | `ResumedAlwaysIntact` | one version, one download thread | with `VersionIsKnown` and `FileIsPrefix`: the thread that has the file open has received as much as is there, and what is there is of a version |
| | `DownloadedAlwaysVerified` | one version | the report follows the verification in one step; a thread at work has read the version, and there is one; a version without a digest passes as the property has it |
| | `LifecycleImplemented` | one version, one download thread | with `VersionHasTask`: a version in the component table has a task, so a package that has its full length is whole (`ReadyIsWhole`), when it is handed over as when it is reported; one step of the simulation per action |
| `FirmwareParts_proofs` | `InstallTypes`, `ApplyWaitAlwaysInstalled` | everywhere | with `StartedIsKnown`: a thread that has started the installer has a version, and a success that was reported has filled the slot |
| | `DownloadTypes`, `EndAlwaysFinal`, `PercentAlwaysGrows` | everywhere | with `OneThread` (the thread the loop waits for, or the last, and once the flow is deleted only those it was deleted under), `ShownIsLast` (the client was shown what that thread keeps as its last report) and `TransferBounds` (nobody writes more than the package) |
| | `RowTypes`, `CheckAlwaysRepairs` | everywhere | with `Knows`: what a handler nobody has disturbed knows of the rows at each of its operations; every step of another one and every failure ends that knowledge |
| | `UrlsAlwaysFit` | everywhere | with `UrlsInv`: while handlers take turns, one that is about to write urls has found a version of one package, for which the comparison with the first row is exact (`SameMeansSame`) |
| | `TablesImplementStore` | one package per version | with `TurnsInv`: while handlers take turns at most one is at work, each place holds one version or none, and the operations of a handler find what the earlier ones left; one step of the simulation per operation |
| `Recovery_proofs` | `TaskAlwaysHasComponents`, `PackageAlwaysBelongs` | everywhere | from `BetweenOperations`: no operation of a clearing or an insertion sees a task, the directory is empty when a version is inserted, its components are there when its task is |
| | `SuccessAlwaysRecorded`, `VerdictsAlwaysAgree` | everywhere, wherever power is lost | with `VerdictStands`: as long as the task is there, each boot comes to the verdict the client was told; with `Recorded`: saved before told |
| | `ResultTypeCorrect` | everywhere | with `FileInv`: the updater leaves no file or a line with a result for each package (`UpdaterWritesLines`), and an upgrade begins only below the bound |
| | `VerdictAlwaysTrue` | everywhere, wherever power is lost | with `VerdictIsSound`: what the next boot judges by is of this upgrade or a file of an earlier one, and without a file only a code that is the name of the version that runs makes a success |
| `Answers_proofs` | `CheckTypes`, `OfferAlwaysWhole`, `FailureAlwaysKeepsOffer` | everywhere | with `RequestOK` and `UselessHasFailed`: a request carries only components with every field read, the last of them described unless the list was empty, and one without a usable answer has failed before it is handled |
| | `OutcomeAlwaysTrue` | `TransportIsNoResult`: no code of `SendRequest`, less `CALL_RESULT_OFFSET`, is one of the stub's results | with `SentOK`: a call that has come back carries a refusal, an error of the transport or the outcome of the method that was called (`HandleServed`, over the twenty proxies and stubs), whose error number is read from the cell it was written to, whatever follows (`ErrorNumberArrives`) |
| | `RequestAlwaysIntact` | `ArgumentsAsDeclared`, `CallersAsDeclared`: arguments of the types of the API, strings that fit the buffers | with `RequestInv`: a queued call has left what it was given in the members of the client (`ArgumentsTaken`, over the twenty parsers), which keeps the business of its caller; a structure is read as it was written, whatever follows it in the parcel (`StructArrives`), so the stub asks for what the client holds (`RequestArrives`, over the twenty proxies and stubs) |
| | `PushAlwaysIntact` | `PushedAsDeclared`: numbers of 32 bits, lists of valid elements that a reader accepts | with `PushInv`: what was pushed last was shown as it was sent; a list is read as it was written, and so is what follows it (`VectorArrives`, `ErrorsArrive`, `ComponentsArrive`), a list of valid elements is shown element by element (`AllSelected`, `ArrayShown`), and joining objects loses neither (`ShowsJoined`) |
| | `AnswerAlwaysShowsTheService` | `TransportIsNoResult`, `ArgumentsAsDeclared`, `CallersAsDeclared`, `WorldsAsDeclared`, `LanguagesAsDeclared`: packages of less than 2<sup>31</sup> bytes together, components with an identity, a language that is named | with `ShownInv`: a queued call for a description holds the language it names, the outcome of a request that was served tells the truth of the service (`OutcomeTold`, over the six methods that show something), and the switch is that of the last policy JavaScript was told is set, or is about to be told of; a sum does not depend on the order its elements are taken in (`SumMapped`), so the size of the one component is the size of the packages it stands for (`SelectedSize`) |
| | `CallTypeCorrect` | `ArgumentsAsDeclared`, `CallersAsDeclared`, `StrategiesAsDeclared`: a policy has a boolean strategy | with `CallTypes`: a parser writes an enumeration only with one of its values (`EnumRead`), so the members of the client stay in their bounds whatever was refused before (`EnumsKept`), and so does what the service is asked |
| `ClientRegistry_proofs` | `RegistryTypes`, `RegisteredAlwaysWatched`, `RegistrationAlwaysLasts` | everywhere | with `EntryIsKept`: from the insertion on, also between the locked steps, a living client that nobody has overtaken has its entry; what removes an entry marks the clients of its info (`OvertakeMarks`), and a notice is about a dead client |
| | `AlwaysSentToTheUsable` | everywhere | with `AppIsRemembered` and `DeadHaveNotice`: the dead in the table are those whose notice is on its way, or that died before they were watched |
| | `IdleFlagAlwaysTrue` | everywhere | with `FlagFollowsTable`: while no removal has come between an insertion and its flag, what a registration saw of the table after its insertion is still true |
| `ServiceKit_proofs` | `KitTypes`, `CallbacksAlwaysFollow`, `CachedAlwaysWatched`, `NoticeAlwaysForCached` | everywhere | with `ThreadsAgree`: what each place inside `GetService` knows about the cache, and that the callbacks still to register are in its list |
| `NetManager_proofs` | `NetTypeOK`, `FlagAlwaysFollows`, `NetFailureAlwaysExplained` | everywhere | with `FlagIsOnItsWay` and `LossIsExplained`: while flag and type differ somebody is on the way who will ask again under the mutex |
| `NapiSession_proofs` | `AnsweredAtMostOnce`, `KitImplementsAsyncCalls` | everywhere | with `SessionInv`: a session in the table, or not started, has no answer; every step maps to a step of `AsyncCalls` or to a stutter |
| | `SessionTypes` | everywhere | with `TypeInv`: a listener stays queued, and only the session of a check waits |
| | `AlwaysHeardOnce` | everywhere | with `ListenersApart` and `HeardInv`: no two sessions listen for one handler, and an event that is queued has not been heard |
| | `AlwaysOwnArguments`, `AnswerAlwaysFresh` | everywhere | with `MemberInv`: the members of a call's arguments are those of the call or of a later one, and the members of its result hold nothing older than what was underway when it was made |

They hold for any number of threads, clients, versions, packages and notices, which
the runs show for one or two. "Where" gives the hypothesis of a theorem, if it has
one. Each is the condition under which the property is true of the code: it fails
without it, as the runs' bounds and the findings say (`OneVersion` and
`OneDownloader`: 1 and 3; one package per version, for the refinement of the store:
15; `TransportIsNoResult`: 8). `ArgumentsAsDeclared` and `CallersAsDeclared` say of JavaScript
what the API's declaration says: a longer string is cut, an argument of another type
leaves a member as it was. `PushedAsDeclared` says of the service what its structures say:
an element without a number or a type is left out of the array, a list of more than
`MAX_VECTOR_SIZE` elements is refused. `WorldsAsDeclared` adds that the packages of a
version have less than 2<sup>31</sup> bytes together, for the size is an unsigned number
in the parcel and a signed one in JavaScript, and that components have an identity, without
which no description of them is shown. `LanguagesAsDeclared` is about callers again: the
client keeps its options between calls, so one that names no language is answered in the
language of the call before. `StrategiesAsDeclared` says that a boolean has one of two
values. TLC checks that the instance of `api_calls` satisfies all
of them (`InstanceAssumption`). With the premises `alone` and `faults = 0`, which are state
and not hypotheses, `TablesImplementStore` still speaks of every behaviour of the tables.

The sums of `AnswerAlwaysShowsTheService` are folds, which are defined by recursion over
finite sets. The library's induction theorems are out of the provers' reach, so `NoneFails`
takes their place: a set of numbers that fail has a least one. With it `SumExists` shows
that the recursion has a solution, `SumSplits` that any element may be taken first, and
`SumMapped` that two sums of the same numbers are equal.

Only model-checked are the liveness properties (`InstallEnds`, `DownloadEnds`, `GuardOpens`, `LossStopsDownload`, `DeadAreForgotten`,
`DeadProxyIsDropped`, `CallsReturn`, `EveryCallIsAnswered`), which need fairness and
are out of the prover's reach.

## Not modelled

- Timers and alarms: `dupdate_timer.c` has no caller; `TimerManager` and
  `AlarmManager` wrap the platform's timers, and their one user, the idle exit, is
  in `ClientRegistry`.
- Preferences, files, digests, device information: wrappers around the platform
  without a state of their own; they appear where they are used.
- Dump output and logs: they change nothing.
- Of the local updater and the restorer only the calls and their conversions
  (`UpdateCall`); the reboot into the updater is external.
- Operations without a caller: `DeleteById`, `QueryByUrl`,
  `firmware_combine_version_utils.cpp`, the empty pause and resume handlers.

Limits of the modules that exist: handlers of `FirmwareUpgrade` are atomic (the
finer modules take the table operations, the download threads, the installer and
the check apart); memory errors are modelled only where they decide how a thread
goes on; the finer modules are not shown to implement `FirmwareUpgrade`, whose
grain differs from theirs.

## Plan

Every safety property the runs check and every type invariant is proved. What is left
is to relate the finer modules to `FirmwareUpgrade`, whose grain differs from theirs.
