--------------------------- MODULE FirmwareUpgrade ---------------------------
(****************************************************************************)
(* The firmware upgrade flow of the update service: FirmwareManager, the    *)
(* flow manager with its check, download and install/apply modes, their     *)
(* executors and worker threads, the task and component tables, the         *)
(* package file and the start-up and recovery of the service process.       *)
(*                                                                          *)
(* An action is one handler: an IPC request, one callback of a worker       *)
(* thread, the restore thread, the start or the death of the process.       *)
(* Between two actions any other thread may run, the process may die, the   *)
(* device may reboot.  What survives the process: task, comp, file,         *)
(* envReset and the work of the system installer.  What survives the        *)
(* device: the first four, running and slot.                                *)
(****************************************************************************)
EXTENDS Naturals, FiniteSets

CONSTANTS
    Versions,      \* versions the server can offer
    Factory,       \* the version the device leaves the factory with
    NoVersion,     \* no component record, or no known version
    Size,          \* Size[v]: chunks in the package of version v
    Downloaders,   \* download threads that client requests start
    Installers,    \* install and apply threads that client requests start
    Boot,          \* the install thread that RestoreUpdate starts
    Checkers,      \* check threads
    InstallType    \* "SYS_INSTALLER" on an A/B device, else "UPDATER"

InstallThreads == Installers \cup {Boot}

ASSUME VersionsAssumption ==
    /\ NoVersion \notin Versions
    /\ Factory \notin Versions
    /\ NoVersion # Factory

\* A package is never empty.  Two versions differ in size, because
\* IsUpgradePackagesReady recognises a package by its path and size alone.
ASSUME SizeAssumption ==
    /\ Size \in [Versions -> Nat \ {0}]
    /\ \A v, w \in Versions : Size[v] = Size[w] => v = w

ASSUME ThreadsAssumption == Boot \notin Installers

ASSUME InstallTypeAssumption == InstallType \in {"SYS_INSTALLER", "UPDATER"}

VARIABLES
    task,      \* status column of the one row of the task table, or "NONE"
    comp,      \* version in the component table, or NoVersion
    file,      \* the package file: length and the version it is a prefix of
    linked,    \* download threads whose open file is the one at that path
    running,   \* version the device runs
    slot,      \* version the next boot is set to try, or NoVersion
    rebooted,  \* the device booted at most BOOT_COMPLETE_SIMULATE_DURATION ago
    envReset,  \* the preferences hold PROCESS_RESTART_REASON = ENV_RESET
    stage,     \* how far the service process is: off ... ready
    reason,    \* start-up reason the restore thread was given
    net,       \* a network is available
    isNoNet,   \* ProgressThread::isNoNet_
    isCancel,  \* ProgressThread::isCancel_
    checking,  \* StatusCache: not checking, checking, or for over 5 minutes
    chk,       \* check threads
    dl,        \* download threads
    ins,       \* install and apply threads
    late,      \* what the system installer works on with no thread waiting
    digested   \* versions whose verifyInfo is not empty; never changes

store   == <<task, comp, file, linked>>
device  == <<running, slot, rebooted>>
process == <<stage, reason>>
flags   == <<isNoNet, isCancel, checking>>
threads == <<chk, dl, ins>>
world   == <<net, late, digested>>
vars    == <<store, device, envReset, process, world, flags, threads>>

(****************************************************************************)
(* The values of the state.                                                 *)
(****************************************************************************)

TaskStatus ==
    {"CHECK_VERSION_SUCCESS", "DOWNLOADING", "DOWNLOAD_FAIL",
     "DOWNLOAD_SUCCESS", "INSTALLING", "INSTALL_FAIL", "INSTALL_SUCCESS",
     "UPDATING", "UPDATE_FAIL"}

IdleDownload == [pc |-> "idle", ver |-> NoVersion, pos |-> 0]
IdleInstall  == [pc |-> "idle", ver |-> NoVersion]

DownloadPc == {"idle", "spawned", "opening", "transfer", "verify"}

InstallPc ==
    {"idle", "spawned", "sysinst", "succeeded", "failed", "reboot",
     "rebooting", "apply", "applied"}

\* The system installer works on ver although nobody waits for it any more, and
\* has called back since or has not.
NoWork == [ver |-> NoVersion, called |-> FALSE]

\* No file, or an empty one: GetLocalFileLength answers 0 for both.
NoFile == [len |-> 0, of |-> NoVersion]

StoreType ==
    /\ task \in TaskStatus \cup {"NONE"}
    /\ comp \in Versions \cup {NoVersion}
    /\ file \in [len : Nat, of : Versions \cup {NoVersion}]
    /\ linked \subseteq Downloaders

ProcessType ==
    /\ running \in Versions \cup {Factory}
    /\ slot \in Versions \cup {NoVersion}
    /\ stage \in {"off", "restoring", "booting", "ready"}
    /\ reason \in {"NONE", "DEVICE_REBOOT", "PROCESS_ENV_RESET",
                   "SCHEDULE_TASK"}
    /\ checking \in {"no", "fresh", "old"}

FlagType ==
    /\ rebooted \in BOOLEAN
    /\ envReset \in BOOLEAN
    /\ net \in BOOLEAN
    /\ isNoNet \in BOOLEAN
    /\ isCancel \in BOOLEAN

ThreadType ==
    /\ chk \in [Checkers -> {"idle", "requesting"}]
    /\ dl \in [Downloaders ->
                  [pc : DownloadPc, ver : Versions \cup {NoVersion}, pos : Nat]]
    /\ ins \in [InstallThreads ->
                  [pc : InstallPc, ver : Versions \cup {NoVersion}]]

SysType ==
    /\ late \in [ver : Versions \cup {NoVersion}, called : BOOLEAN]
    /\ digested \subseteq Versions

\* Type correctness.
TypeOK == StoreType /\ ProcessType /\ FlagType /\ ThreadType /\ SysType

Init ==
    /\ task = "NONE" /\ comp = NoVersion /\ file = NoFile /\ linked = {}
    /\ running = Factory /\ slot = NoVersion /\ rebooted = TRUE
    /\ envReset = FALSE
    /\ stage = "off" /\ reason = "NONE"
    /\ net = TRUE
    /\ isNoNet = FALSE /\ isCancel = FALSE /\ checking = "no"
    /\ chk = [c \in Checkers |-> "idle"]
    /\ dl = [d \in Downloaders |-> IdleDownload]
    /\ ins = [i \in InstallThreads |-> IdleInstall]
    /\ late = NoWork /\ digested \in SUBSET Versions

(****************************************************************************)
(* The tables and the package file.                                         *)
(****************************************************************************)

\* What the task table holds after UpdateProgressByTaskId with status s.  All
\* tasks have the same id, so a thread started for an earlier task updates the
\* row of the present one; without a row the update matches nothing.
SetTask(s) == IF task = "NONE" THEN "NONE" ELSE s

DeleteDownloadFiles == file' = NoFile /\ linked' = {}

ClearFirmwareInfo ==
    /\ task' = "NONE"
    /\ comp' = NoVersion
    /\ DeleteDownloadFiles

\* IsUpgradePackagesReady, on the components of version v: the sizes agree.
Ready(v) == v # NoVersion /\ file.len = Size[v]

\* CheckFileSha256String: the file is the package of version v, byte by byte.
Sha256Matches(v) == Ready(v) /\ file.of = v

\* VerifyDownloadPkg: the file of a version with an empty verifyInfo passes unread.
Passes(v) == v \in digested => Sha256Matches(v)

\* The store after a failed download: the thread removes its package, then
\* DownloadFailProcess clears everything if there still is a task.
DownloadFailed ==
    IF task = "NONE"
    THEN DeleteDownloadFiles /\ UNCHANGED <<task, comp>>
    ELSE ClearFirmwareInfo

EndDownload(d) == dl' = [dl EXCEPT ![d] = IdleDownload]
EndInstall(i)  == ins' = [ins EXCEPT ![i] = IdleInstall]

(****************************************************************************)
(* Check for a new version.                                                 *)
(****************************************************************************)

\* GetStepAfterInit of the check mode: refused while another check is under way
\* (for at most five minutes), while the task is UPDATING and without a network.
CheckAllowed == checking # "fresh" /\ task # "UPDATING" /\ net

DoCheck(c) ==
    /\ stage # "off"
    /\ chk[c] = "idle"
    /\ CheckAllowed
    /\ checking' = "fresh"
    /\ chk' = [chk EXCEPT ![c] = "requesting"]
    /\ UNCHANGED <<store, device, envReset, process, world, isNoNet, isCancel,
                   dl, ins>>

\* Five minutes after the check began, IsChecking answers no again.
CheckAges ==
    /\ checking = "fresh"
    /\ checking' = "old"
    /\ UNCHANGED <<store, device, envReset, process, world, isNoNet, isCancel,
                   threads>>

\* Fault: an update that is under way does not count.
HasUndoneTaskNotUpdating == task \in {"DOWNLOADING", "INSTALLING"}

HasUndoneTask == task \in {"DOWNLOADING", "INSTALLING", "UPDATING"}

\* HandleNewVersion: nothing changes when the component table already holds
\* this version; otherwise the tables and files are replaced.
HandleNewVersion(v) ==
    IF comp = v
    THEN UNCHANGED store
    ELSE /\ task' = "CHECK_VERSION_SUCCESS"
         /\ comp' = v
         /\ DeleteDownloadFiles

\* The server's answer arrives: "FAIL", "NONE" (no new version) or a version.
CheckDone(c, answer) ==
    /\ chk[c] = "requesting"
    /\ chk' = [chk EXCEPT ![c] = "idle"]
    /\ checking' = "no"
    /\ IF answer = "FAIL" \/ HasUndoneTask THEN UNCHANGED store
       ELSE IF answer = "NONE" THEN ClearFirmwareInfo
       ELSE HandleNewVersion(answer)
    /\ UNCHANGED <<device, envReset, process, world, isNoNet, isCancel, dl, ins>>

Answers == {"FAIL", "NONE"} \cup (Versions \ {running})

(****************************************************************************)
(* Download.                                                                *)
(****************************************************************************)

\* GetStepAfterInit of the download mode.  (Without room for the package it
\* refuses too, which is the same as no request.)
DownloadAllowed == task \in {"CHECK_VERSION_SUCCESS", "DOWNLOAD_FAIL"} /\ net

\* The request is accepted by the status in the task table.  That status only
\* becomes DOWNLOADING with the thread's first progress report.
Download(d) ==
    /\ stage # "off"
    /\ dl[d].pc = "idle"
    /\ task = "CHECK_VERSION_SUCCESS"
    /\ DownloadAllowed
    /\ dl' = [dl EXCEPT ![d].pc = "spawned"]
    /\ UNCHANGED <<store, device, envReset, process, world, flags, chk, ins>>

\* The executor reads the component table.  A package that already has its full
\* length goes straight to DownloadCallback, whose last step deletes the flow
\* and with it this executor; PerformDownload then runs on in freed memory, so
\* the thread may end there or may still start a transfer.
DoDownload(d) ==
    /\ dl[d].pc = "spawned"
    /\ \/ /\ comp = NoVersion
          /\ EndDownload(d)
          /\ UNCHANGED store
       \/ /\ comp # NoVersion
          /\ file.len # Size[comp]
          /\ dl' = [dl EXCEPT ![d].pc = "opening", ![d].ver = comp]
          /\ UNCHANGED store
       \/ /\ Ready(comp)
          /\ IF Passes(comp)
             THEN task' = SetTask("DOWNLOAD_SUCCESS")
                  /\ UNCHANGED <<comp, file, linked>>
             ELSE DownloadFailed
          /\ \/ EndDownload(d)
             \/ dl' = [dl EXCEPT ![d].pc = "opening", ![d].ver = comp]
    /\ UNCHANGED <<device, envReset, process, world, flags, chk, ins>>

\* Fault: the server sends the package from its beginning every time.
OpenFileNoResume(d) ==
    /\ dl[d].pc = "opening"
    /\ linked' = linked \cup {d}
    /\ dl' = [dl EXCEPT ![d].pc = "transfer", ![d].pos = 0]
    /\ UNCHANGED <<task, comp, file, device, envReset, process, world, flags,
                   chk, ins>>

\* fopen in append mode; the transfer resumes at the length of the file.
OpenFile(d) ==
    /\ dl[d].pc = "opening"
    /\ linked' = linked \cup {d}
    /\ dl' = [dl EXCEPT ![d].pc = "transfer", ![d].pos = file.len]
    /\ UNCHANGED <<task, comp, file, device, envReset, process, world, flags,
                   chk, ins>>

\* DealAbnormal: the next callback of the thread finds the network gone or the
\* download cancelled and ends the download.
Abnormal == isNoNet \/ isCancel

\* Fault: the transient status stays in the task row.
DownloadCancelledNoReset ==
    /\ task' = "DOWNLOAD_CANCEL"
    /\ DeleteDownloadFiles
    /\ UNCHANGED comp

\* DownloadCancelProcess sends the task back to CHECK_VERSION_SUCCESS.
DownloadCancelled ==
    /\ task' = "CHECK_VERSION_SUCCESS"
    /\ DeleteDownloadFiles
    /\ UNCHANGED comp

\* GetStepAfterDownload does nothing without a task: the file then stays.
DealAbnormal(d) ==
    /\ dl[d].pc \in {"opening", "transfer"}
    /\ Abnormal
    /\ isCancel' = FALSE
    /\ EndDownload(d)
    /\ IF task = "NONE"
       THEN linked' = linked \ {d} /\ UNCHANGED <<task, comp, file>>
       ELSE IF isNoNet THEN ClearFirmwareInfo ELSE DownloadCancelled
    /\ UNCHANGED <<device, envReset, process, world, isNoNet, checking, chk, ins>>

\* An install thread waits for the system installer.
Waiting(i) == ins[i].pc = "sysinst"

\* What the system installer may be working on.
AtWork == ({late.ver} \ {NoVersion}) \cup {ins[i].ver : i \in {j \in InstallThreads : Waiting(j)}}

\* The end of the process: its memory and its threads go.
ProcessDown ==
    /\ stage' = "off" /\ reason' = "NONE"
    /\ isNoNet' = FALSE /\ isCancel' = FALSE /\ checking' = "no"
    /\ chk' = [c \in Checkers |-> "idle"]
    /\ dl' = [d \in Downloaders |-> IdleDownload]
    /\ ins' = [i \in InstallThreads |-> IdleInstall]
    /\ late' = NoWork
    /\ UNCHANGED digested

\* The process ends and the device stays up.  The system installer may go on, with
\* no callback to the next process; what comes of its work is shown at once.
ProcessEnds ==
    /\ ProcessDown
    /\ slot' \in {slot} \cup AtWork
    /\ UNCHANGED <<running, rebooted>>

\* fopen or curl_easy_init fails.  The end reason is a sentence, which stoi in
\* GetStepAfterDownload cannot convert: with a task in the table the exception
\* ends the process, after DOWNLOAD_FAIL was written.
OpenFails(d) ==
    /\ dl[d].pc = "opening"
    /\ ~Abnormal
    /\ DeleteDownloadFiles
    /\ UNCHANGED <<comp, envReset, net>>
    /\ \/ /\ task = "NONE"
          /\ EndDownload(d)
          /\ UNCHANGED <<task, device, process, flags, chk, ins, late, digested>>
       \/ /\ task # "NONE"
          /\ task' = "DOWNLOAD_FAIL"
          /\ ProcessEnds

\* The file after a thread that has received pos chunks of version v appends
\* the next one.
Appended(v, pos) ==
    [len |-> file.len + 1,
     of  |-> IF file.len = pos /\ (pos = 0 \/ file.of = v) THEN v
             ELSE NoVersion]

\* A chunk arrives: it is appended to the file the thread has open, which is no
\* longer the one at the package path if that was deleted meanwhile.  Short of
\* the whole package, the progress callback may write DOWNLOADING to the task
\* row (it does so once per percent).
Transfer(d) ==
    /\ dl[d].pc = "transfer"
    /\ dl[d].pos < Size[dl[d].ver]
    /\ dl' = [dl EXCEPT ![d].pos = @ + 1]
    /\ file' = IF d \in linked THEN Appended(dl[d].ver, dl[d].pos) ELSE file
    /\ \/ UNCHANGED task
       \/ /\ ~Abnormal
          /\ dl[d].pos + 1 < Size[dl[d].ver]
          /\ task' = SetTask("DOWNLOADING")
    /\ UNCHANGED <<comp, linked, device, envReset, process, world, flags, chk,
                   ins>>

\* curl reports an error or its ten-minute timeout.
CurlError(d) ==
    /\ dl[d].pc = "transfer"
    /\ ~Abnormal
    /\ DownloadFailed
    /\ EndDownload(d)
    /\ UNCHANGED <<device, envReset, process, world, flags, chk, ins>>

\* curl is done, with the package or with less: nobody compares the length.  The
\* file is closed and DownloadCallback begins to verify the file at the path.
CurlDone(d) ==
    /\ dl[d].pc = "transfer"
    /\ ~Abnormal
    /\ dl' = [dl EXCEPT ![d].pc = "verify"]
    /\ linked' = linked \ {d}
    /\ UNCHANGED <<task, comp, file, device, envReset, process, world, flags, chk, ins>>

\* Fault: the transfer is taken for a verified package.
VerifyDownloadPkgUnchecked(d) ==
    /\ dl[d].pc = "verify"
    /\ task' = SetTask("DOWNLOAD_SUCCESS")
    /\ EndDownload(d)
    /\ UNCHANGED <<comp, file, linked, device, envReset, process, world, flags,
                   chk, ins>>

\* The digest is known: DownloadCallback reports and the flow completes.
VerifyDownloadPkg(d) ==
    /\ dl[d].pc = "verify"
    /\ IF Passes(dl[d].ver)
       THEN task' = SetTask("DOWNLOAD_SUCCESS")
            /\ UNCHANGED <<comp, file, linked>>
       ELSE DownloadFailed
    /\ EndDownload(d)
    /\ UNCHANGED <<device, envReset, process, world, flags, chk, ins>>

\* Cancel is accepted by the status and raises a flag that the next callback of
\* any download thread of the process consumes.
Cancel ==
    /\ stage # "off"
    /\ task = "DOWNLOADING"
    /\ isCancel' = TRUE
    /\ UNCHANGED <<store, device, envReset, process, world, isNoNet, checking,
                   threads>>

DownloadStep(d) ==
    \/ DoDownload(d) \/ OpenFile(d) \/ OpenFails(d) \/ DealAbnormal(d)
    \/ Transfer(d) \/ CurlError(d) \/ CurlDone(d) \/ VerifyDownloadPkg(d)

(****************************************************************************)
(* Install and apply.                                                       *)
(****************************************************************************)

\* RestoreUpdate always installs through the A/B installer.
InstallTypeOf(i) == IF i = Boot THEN "SYS_INSTALLER" ELSE InstallType

CanInstall ==
    \/ task = "DOWNLOAD_SUCCESS"
    \/ task = "INSTALL_SUCCESS" /\ InstallType = "SYS_INSTALLER"

\* GetStepForInstallAndApplyOrder, for orders INSTALL and INSTALL_AND_APPLY:
\* a package that is not ready costs the task.
StartInstall(i) ==
    /\ task = "DOWNLOAD_SUCCESS"
    /\ IF Ready(comp)
       THEN ins' = [ins EXCEPT ![i].pc = "spawned"] /\ UNCHANGED store
       ELSE ClearFirmwareInfo /\ UNCHANGED ins

\* Order APPLY goes to the apply executor whatever the status.
StartApply(i) ==
    /\ ins' = [ins EXCEPT ![i].pc = "apply"]
    /\ UNCHANGED store

Upgrade(i) ==
    /\ stage # "off"
    /\ ins[i].pc = "idle"
    /\ CanInstall
    /\ StartInstall(i) \/ StartApply(i)
    /\ UNCHANGED <<device, envReset, process, world, flags, chk, dl>>

\* The system installer serves one update at a time.  One whose wait has timed out
\* may have ended without a report.
SysInstallerBusy == \E j \in InstallThreads : Waiting(j)

\* Fault: a package that was ready when the thread was started counts as ready.
DoInstallUnready(i) ==
    /\ ins[i].pc = "spawned"
    /\ comp # NoVersion
    /\ task' = SetTask("UPDATING")
    /\ ins' = [ins EXCEPT ![i].pc = "reboot", ![i].ver = comp]
    /\ UNCHANGED <<comp, file, linked, device, envReset, process, world, flags, chk,
                   dl>>

\* The install executor writes INSTALLING or UPDATING and hands the package
\* over.  A package that is not ready, a busy system installer or any other
\* failure to start makes the install fail, which clears the task.
DoInstall(i) ==
    /\ ins[i].pc = "spawned"
    /\ \/ /\ ~Ready(comp) \/ InstallTypeOf(i) = "SYS_INSTALLER"
          /\ ClearFirmwareInfo
          /\ EndInstall(i)
          /\ UNCHANGED late
       \/ /\ Ready(comp)
          /\ InstallTypeOf(i) = "SYS_INSTALLER"
          /\ ~SysInstallerBusy
          /\ task' = SetTask("INSTALLING")
          /\ ins' = [ins EXCEPT ![i].pc = "sysinst", ![i].ver = comp]
          /\ late' = NoWork
          /\ UNCHANGED <<comp, file, linked>>
       \/ /\ Ready(comp)
          /\ InstallTypeOf(i) = "UPDATER"
          /\ task' = SetTask("UPDATING")
          /\ ins' = [ins EXCEPT ![i].pc = "reboot", ![i].ver = comp]
          /\ UNCHANGED <<comp, file, linked, late>>
    /\ UNCHANGED <<device, envReset, process, net, digested, flags, chk, dl>>

\* OnUpgradeProgress, called by the system installer: progress ...
SysOngoing(i) ==
    /\ Waiting(i)
    /\ task' = SetTask("INSTALLING")
    /\ UNCHANGED <<comp, file, linked, device, envReset, process, world, flags,
                   threads>>

\* ... success: the new version is in the other slot and will be booted next ...
SysSuccess(i) ==
    /\ Waiting(i)
    /\ slot' = ins[i].ver
    /\ ins' = [ins EXCEPT ![i].pc = "succeeded"]
    /\ IF task = "NONE"
       THEN ClearFirmwareInfo
       ELSE task' = "INSTALL_SUCCESS" /\ UNCHANGED <<comp, file, linked>>
    /\ UNCHANGED <<running, rebooted, envReset, process, world, flags, chk, dl>>

\* ... or failure: GetStepAfterInstall clears the task.
SysFail(i) ==
    /\ Waiting(i)
    /\ ins' = [ins EXCEPT ![i].pc = "failed"]
    /\ ClearFirmwareInfo
    /\ UNCHANGED <<device, envReset, process, world, flags, chk, dl>>

\* WaitInstallResult looks once a second, so the install thread learns of the
\* result later and HandleInstallResult writes it to the task row once more.
\* The flow is complete by then and does nothing further.  A success reported
\* short of 100 percent is waited for in vain and becomes a failure.
WaitInstallResult(i) ==
    /\ \/ /\ ins[i].pc = "succeeded"
          /\ task' = SetTask("INSTALL_SUCCESS")
       \/ /\ ins[i].pc \in {"succeeded", "failed"}
          /\ task' = SetTask("INSTALL_FAIL")
    /\ EndInstall(i)
    /\ UNCHANGED <<comp, file, linked, device, envReset, process, world, flags,
                   chk, dl>>

\* Fault: the wait ends but the result is not handled.
InstallTimeoutUnhandled(i) ==
    /\ Waiting(i)
    /\ EndInstall(i)
    /\ late' = [ver |-> ins[i].ver, called |-> FALSE]
    /\ UNCHANGED <<store, device, envReset, process, net, digested, flags, chk, dl>>

\* No result within the configured time.  The system installer is not told and
\* keeps the callback.
InstallTimeout(i) ==
    /\ Waiting(i)
    /\ ClearFirmwareInfo
    /\ EndInstall(i)
    /\ late' = [ver |-> ins[i].ver, called |-> FALSE]
    /\ UNCHANGED <<device, envReset, process, net, digested, flags, chk, dl>>

\* The callback of a wait that has timed out refers to objects that are gone: it
\* ends the process (ProcessDies), or does what it says.  All tasks have the same
\* id, so that is done to the row of whatever task there is; the flow is complete
\* and does nothing further.
LateProgress ==
    /\ late.ver # NoVersion
    /\ task' = SetTask("INSTALLING")
    /\ late' = [late EXCEPT !.called = TRUE]
    /\ UNCHANGED <<comp, file, linked, device, envReset, process, net, digested,
                   flags, threads>>

\* The system installer ends, with a new version in the other slot or without.
LateResult ==
    /\ late.ver # NoVersion
    /\ late' = NoWork
    /\ \E result \in {"INSTALL_SUCCESS", "INSTALL_FAIL"} :
          /\ slot' = IF result = "INSTALL_SUCCESS" THEN late.ver ELSE slot
          /\ task' = SetTask(result)
    /\ UNCHANGED <<comp, file, linked, running, rebooted, envReset, process, net,
                   digested, flags, threads>>

\* RebootAndInstallUpgradePackage cannot write the update command, and the
\* failed update clears the task; or it leaves the command for the updater,
\* asks for the reboot ...
RebootAndInstall(i) ==
    /\ ins[i].pc = "reboot"
    /\ \/ /\ ClearFirmwareInfo
          /\ EndInstall(i)
          /\ UNCHANGED slot
       \/ /\ slot' = ins[i].ver
          /\ ins' = [ins EXCEPT ![i].pc = "rebooting"]
          /\ UNCHANGED store
    /\ UNCHANGED <<running, rebooted, envReset, process, world, flags, chk, dl>>

\* ... and returns, if the device is still up: HandleInstallResult.
RebootReturns(i) ==
    /\ ins[i].pc = "rebooting"
    /\ IF task = "NONE"
       THEN ClearFirmwareInfo
       ELSE task' = "INSTALL_SUCCESS" /\ UNCHANGED <<comp, file, linked>>
    /\ EndInstall(i)
    /\ UNCHANGED <<device, envReset, process, world, flags, chk, dl>>

\* The apply executor writes UPDATING, sleeps two seconds and reboots.
DoApply(i) ==
    /\ ins[i].pc = "apply"
    /\ IF comp = NoVersion
       THEN EndInstall(i) /\ UNCHANGED store
       ELSE /\ task' = SetTask("UPDATING")
            /\ ins' = [ins EXCEPT ![i].pc = "applied"]
            /\ UNCHANGED <<comp, file, linked>>
    /\ UNCHANGED <<device, envReset, process, world, flags, chk, dl>>

\* The device goes down, and the system installer with it.  The next boot runs the
\* version it was set to try, or stays with the present one if there is none or the
\* update does not take.
DeviceDown ==
    /\ ProcessDown
    /\ late' = NoWork
    /\ running' \in {running} \cup ({slot} \ {NoVersion})
    /\ slot' = NoVersion
    /\ rebooted' = TRUE
    /\ linked' = {}
    /\ UNCHANGED <<task, comp, file, envReset, net>>

\* The reboot request succeeds, or fails and leaves the task UPDATING.
DoReboot(i) ==
    /\ ins[i].pc = "applied"
    /\ \/ DeviceDown
       \/ /\ EndInstall(i)
          /\ UNCHANGED <<store, device, envReset, process, world, flags, chk, dl>>

InstallStep(i) ==
    \/ DoInstall(i) \/ SysOngoing(i) \/ SysSuccess(i) \/ SysFail(i)
    \/ WaitInstallResult(i) \/ InstallTimeout(i) \/ RebootAndInstall(i)
    \/ RebootReturns(i) \/ DoApply(i) \/ DoReboot(i)

(****************************************************************************)
(* Errors, termination, start-up and recovery.                              *)
(****************************************************************************)

IsUpgradeFailed == task \in {"DOWNLOAD_FAIL", "INSTALL_FAIL", "UPDATE_FAIL"}

ClearError ==
    /\ stage # "off"
    /\ IsUpgradeFailed
    /\ ClearFirmwareInfo
    /\ UNCHANGED <<device, envReset, process, world, flags, threads>>

\* The restart reason goes into the preferences; a detached thread ends the
\* process a second later (ProcessDies), unless the timer could not be set.
TerminateUpgrade ==
    /\ stage # "off"
    /\ ~envReset
    /\ envReset' = TRUE
    /\ UNCHANGED <<store, device, process, world, flags, threads>>

IsIdle == task = "NONE" /\ checking # "fresh"

\* The idle loop unloads the service.  Scheduling the next start overwrites the
\* restart reason, even if the timer cannot be set and the process stays.
IdleExit ==
    /\ stage # "off"
    /\ IsIdle
    /\ envReset' = FALSE
    /\ \/ linked' = {} /\ ProcessEnds
       \/ UNCHANGED <<linked, device, process, flags, threads, late, digested>>
    /\ UNCHANGED <<task, comp, file, net>>

\* The network comes or goes.  The listener that keeps isNoNet is registered
\* after RestoreUpdate.
NetChanged ==
    /\ net' = ~net
    /\ isNoNet' = IF stage \in {"booting", "ready"} THEN net ELSE isNoNet
    /\ UNCHANGED <<store, device, envReset, process, isCancel, checking,
                   threads, late, digested>>

\* A crash, or the exit that TerminateUpgrade asked for.
ProcessDies ==
    /\ stage # "off"
    /\ linked' = {}
    /\ ProcessEnds
    /\ UNCHANGED <<task, comp, file, envReset, net>>

\* A reboot the service did not ask for, or that the updater's request causes.
DeviceReboots == DeviceDown

LeaveRebootDuration ==
    /\ rebooted
    /\ rebooted' = FALSE
    /\ UNCHANGED <<store, running, slot, envReset, process, world, flags, threads>>

\* GetStartupReason looks for the stored reason only outside the reboot
\* duration, and removes it when it has read it.
GetStartupReason ==
    IF rebooted THEN "DEVICE_REBOOT"
    ELSE IF envReset THEN "PROCESS_ENV_RESET"
    ELSE "SCHEDULE_TASK"

\* FirmwareManager::Init: an environment reset deletes the tables and files.
\* Then the restore thread starts and the service accepts requests.
Start ==
    /\ stage = "off"
    /\ stage' = "restoring"
    /\ reason' = GetStartupReason
    /\ envReset' = (envReset /\ rebooted)
    /\ IF GetStartupReason = "PROCESS_ENV_RESET"
       THEN ClearFirmwareInfo
       ELSE UNCHANGED store
    /\ UNCHANGED <<device, world, flags, threads>>

\* HandleBootInstallOnStatusProcess: back to DOWNLOAD_SUCCESS, and install again
\* (order INSTALL_AND_APPLY).  DoInstall refuses without room for the package,
\* and only then looks for it and clears everything when it is gone.
ReinstallOnBoot ==
    \/ /\ task' = "DOWNLOAD_SUCCESS"
       /\ UNCHANGED <<comp, file, linked, ins>>
    \/ /\ Ready(comp)
       /\ task' = "DOWNLOAD_SUCCESS"
       /\ ins' = [ins EXCEPT ![Boot].pc = "spawned"]
       /\ UNCHANGED <<comp, file, linked>>
    \/ /\ ~Ready(comp)
       /\ ClearFirmwareInfo
       /\ UNCHANGED ins

\* Fault: an interrupted download is left as it is.
RestoreUpdateKeepsDownload ==
    /\ stage = "restoring"
    /\ stage' = "booting"
    /\ IF task \in {"INSTALLING", "INSTALL_SUCCESS"}
       THEN ReinstallOnBoot
       ELSE UNCHANGED <<store, ins>>
    /\ UNCHANGED <<device, envReset, reason, world, flags, chk, dl>>

RestoreUpdate ==
    /\ stage = "restoring"
    /\ stage' = "booting"
    /\ CASE task = "DOWNLOADING" -> ClearFirmwareInfo /\ UNCHANGED ins
         [] task \in {"INSTALLING", "INSTALL_SUCCESS"} -> ReinstallOnBoot
         [] OTHER -> UNCHANGED <<store, ins>>
    /\ UNCHANGED <<device, envReset, reason, world, flags, chk, dl>>

\* HandleEvent: after a reboot, a task that is UPDATING is judged, by the
\* updater's result file or by comparing versions; success and failure are
\* notified and both clear the task.  The restore thread, whose parameter reason
\* is, ends.
HandleBootComplete ==
    /\ stage = "booting"
    /\ stage' = "ready"
    /\ reason' = "NONE"
    /\ IF reason = "DEVICE_REBOOT" /\ task = "UPDATING"
       THEN ClearFirmwareInfo
       ELSE UNCHANGED store
    /\ UNCHANGED <<device, envReset, world, flags, threads>>

StartUp == Start \/ RestoreUpdate \/ HandleBootComplete

Next ==
    \/ \E c \in Checkers : DoCheck(c)
    \/ \E c \in Checkers : \E answer \in Answers : CheckDone(c, answer)
    \/ CheckAges
    \/ \E d \in Downloaders : Download(d) \/ DownloadStep(d)
    \/ Cancel
    \/ \E i \in Installers : Upgrade(i)
    \/ \E i \in InstallThreads : InstallStep(i)
    \/ LateProgress \/ LateResult
    \/ ClearError \/ TerminateUpgrade \/ IdleExit
    \/ NetChanged \/ ProcessDies \/ DeviceReboots \/ LeaveRebootDuration
    \/ StartUp

Spec == Init /\ [][Next]_vars

(****************************************************************************)
(* Properties.                                                              *)
(****************************************************************************)

Recovered == stage \in {"booting", "ready"}

\* Once RestoreUpdate has run, a task is only DOWNLOADING while a download
\* thread is at work on it: no crash, cancel, lost network or failed download
\* leaves the status behind, which would refuse every later request for ever
\* (Download, HandleBootDownloadOnStatusProcess).
DownloadingIsBacked ==
    Recovered /\ task = "DOWNLOADING" =>
        \E d \in Downloaders : dl[d].pc \in {"transfer", "verify"}

\* The same for INSTALLING, which blocks downloads, installs and checks: once
\* RestoreUpdate has run, an install thread waits for the system installer, or the
\* system installer has reported progress after a wait that timed out, into the row
\* of whatever task there was, and has not ended.  Nothing else leaves the status
\* behind: no crash, refused start or time-out by itself (HandleInstallProgress,
\* WaitInstallResult, HandleBootInstallOnStatusProcess).
InstallingIsBacked ==
    Recovered /\ task = "INSTALLING" =>
        (\E i \in InstallThreads : Waiting(i)) \/ late.called

\* While one version is on offer and one download runs at a time, the package
\* file is a prefix of that version's package: resuming where a cancelled, failed
\* or crashed download left off never repeats or skips a part (OpenFile).
ResumedPackageIsIntact ==
    comp # NoVersion /\ file.len > 0 => file.of = comp

\* An update that has been asked for is judged: while no thread works on the task,
\* only the boot handler takes it from UPDATING, after a device reboot and once; no
\* check that was under way when the update began, clearError, cancel or request
\* before the handler runs does, and no download of an earlier task
\* (HasUndoneTask, HandleBootUpdateOnStatusProcess).
NobodyWorks ==
    /\ \A d \in Downloaders : dl[d].pc = "idle"
    /\ \A i \in InstallThreads : ins[i].pc = "idle"
    /\ late.ver = NoVersion
UpdateAwaitsVerdict ==
    [][task = "UPDATING" /\ task' # "UPDATING" /\ NobodyWorks /\ stage # "off"
       => reason = "DEVICE_REBOOT" /\ stage = "booting" /\ stage' = "ready"]_vars

\* A running service reports DOWNLOAD_SUCCESS only when the package in the
\* directory is the verified package of the version in the component table,
\* whatever checks, installs, crashes and retries came between the transfer and
\* its report; of a version the server gave no digest for it may report anything
\* (VerifyDownloadPkg, DoDownload).
DownloadedIsVerified ==
    [][task # "DOWNLOAD_SUCCESS" /\ task' = "DOWNLOAD_SUCCESS" /\ stage' = stage
       => Passes(comp)']_vars

(****************************************************************************)
(* What an upgrade looks like from outside (UpgradeLifecycle).              *)
(****************************************************************************)

LifePackage ==
    IF comp = NoVersion \/ file.len = 0 THEN "none"
    ELSE IF Sha256Matches(comp) THEN "whole" ELSE "part"

\* What install threads have handed over, some of which may be over by now.
HandedPc == {"sysinst", "succeeded", "failed", "reboot", "rebooting"}

LifeHanded ==
    {ins[i].ver : i \in {j \in InstallThreads : ins[j].pc \in HandedPc}}
    \cup ({late.ver} \ {NoVersion})

LifeService ==
    CASE stage = "off" -> "down" [] stage = "restoring" -> "recovering" [] OTHER -> "up"

Life == INSTANCE UpgradeLifecycle WITH
    status <- task, version <- comp, package <- LifePackage, handed <- LifeHanded,
    checkable <- digested, next <- slot, service <- LifeService

\* While one version is on offer and one download runs at a time, clients see
\* the life of an upgrade and the device boots only what was handed over whole,
\* however threads of earlier tasks, crashes, reboots and recovery interleave
\* (HandleCheckResult, DownloadCallback, DoInstall, RestoreUpdate).
ImplementsLifecycle == Life!LifeSpec

\* One download at a time: a request during a download is refused as busy
\* (GetStepAfterInit of the download mode).
AtMostOneDownload ==
    \A d, e \in Downloaders :
        dl[d].pc = "transfer" /\ dl[e].pc = "transfer" => d = e
=============================================================================
