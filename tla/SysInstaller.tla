---------------------------- MODULE SysInstaller ----------------------------
(***************************************************************************)
(* An installation on an A/B device: the install thread starts the system  *)
(* installer and looks once a second for the result, while the installer   *)
(* calls back into the same objects from a thread of its own.              *)
(*                                                                         *)
(* firmware_install_executor.cpp        the thread and its two reports     *)
(* firmware_sys_installer_install.cpp   the calls and the wait             *)
(* firmware_sys_installer_callback.cpp  the callback                       *)
(* firmware_install_apply_mode.cpp,     what a report leads to             *)
(*   firmware_install_data_processor.cpp                                   *)
(*                                                                         *)
(* FirmwareUpgrade takes the calls that start the installer as one step.   *)
(* Here the calls are single, and several threads share the installer and  *)
(* its one callback, which outlives the wait it was made for: all tasks    *)
(* have the same id (no component has a versionId), so it reaches the row  *)
(* of any of them.                                                         *)
(***************************************************************************)
EXTENDS Naturals

CONSTANTS
  Threads,   \* install threads
  Versions,  \* versions that are offered
  None       \* no version, no thread

ASSUME InstallerAssumption == None \notin Versions /\ None \notin Threads

VARIABLES
  offer,      \* the version in the component table
  task,       \* status in the task table, or "NONE"
  slot,       \* the version in the other slot
  pc,         \* where an install thread is
  ver,        \* the version it installs
  progress,   \* sysInstallProgress_ of its installer
  complete,   \* its flow has taken the step after the installation
  sysStatus,  \* the system installer is at work
  sysVer,     \* on this version
  callback,   \* and calls this thread
  told        \* the last event the client got

store == <<offer, task>>
thr == <<pc, ver, progress, complete>>
sys == <<sysStatus, sysVer, callback>>
vars == <<store, slot, thr, sys, told>>

Statuses == {"INSTALLING", "INSTALL_SUCCESS", "INSTALL_FAIL"}

Init ==
  /\ offer = None /\ task = "NONE" /\ slot = None
  /\ pc = [i \in Threads |-> "idle"] /\ ver = [i \in Threads |-> None]
  /\ progress = [i \in Threads |-> "INSTALLING"] /\ complete = [i \in Threads |-> FALSE]
  /\ sysStatus = "INIT" /\ sysVer = None /\ callback = None
  /\ told = "none"

At(i, step) == pc[i] = step
Goto(i, step) == pc' = [pc EXCEPT ![i] = step]

-----------------------------------------------------------------------------
\* A check finds a version; HasUndoneTask keeps it off an installation.
HandleNewVersion(v) ==
  /\ task # "INSTALLING" /\ v # offer
  /\ offer' = v /\ task' = "CHECK_VERSION_SUCCESS"
  /\ UNCHANGED <<slot, thr, sys, told>>

\* The packages of the offer are downloaded and verified (FirmwareUpgrade has the steps).
Download ==
  /\ task = "CHECK_VERSION_SUCCESS"
  /\ task' = "DOWNLOAD_SUCCESS"
  /\ UNCHANGED <<offer, slot, thr, sys, told>>

\* DoClearError: the client gives a failed upgrade up.
DoClearError ==
  /\ task = "INSTALL_FAIL"
  /\ task' = "NONE" /\ offer' = None
  /\ UNCHANGED <<slot, thr, sys, told>>

InitInstallProgress(i) == progress' = [progress EXCEPT ![i] = "INSTALLING"]

\* GetStepForInstallAndApplyOrder: the thread is detached, or the packages are not
\* ready (IsUpgradeFilesReady) and everything is cleared.
Upgrade(i) ==
  /\ At(i, "idle") /\ task = "DOWNLOAD_SUCCESS"
  /\ \/ /\ Goto(i, "spawned")
        /\ ver' = [ver EXCEPT ![i] = None]
        /\ InitInstallProgress(i)
        /\ complete' = [complete EXCEPT ![i] = FALSE]
        /\ UNCHANGED store
     \/ task' = "NONE" /\ offer' = None /\ UNCHANGED thr
  /\ UNCHANGED <<slot, sys, told>>

(***************************************************************************)
(* Reports.  The row of the task gets the status; anything but INSTALLING  *)
(* lets the flow take its next step, which it does once: GetStepAfter-     *)
(* Install reads the status back and clears everything but a success.      *)
(***************************************************************************)
UpdateProgressByTaskId(status) == IF task = "NONE" THEN "NONE" ELSE status

SetInstallResult(status) ==
  IF status = "INSTALL_FAIL" THEN "EVENT_UPGRADE_FAIL"
  ELSE IF status = "INSTALL_SUCCESS" THEN "EVENT_APPLY_WAIT" ELSE "EVENT_UPGRADE_UPDATE"

OnInstallCallback(i, status) ==
  /\ told' = SetInstallResult(status)
  /\ IF status # "INSTALLING" /\ ~complete[i]
        /\ UpdateProgressByTaskId(status) # "INSTALL_SUCCESS"
     THEN task' = "NONE" /\ offer' = None
     ELSE task' = UpdateProgressByTaskId(status) /\ UNCHANGED offer

\* HandleInstallResult, the last thing the thread does.
HandleInstallResult(i, status) ==
  /\ OnInstallCallback(i, status)
  /\ Goto(i, "idle") /\ complete' = [complete EXCEPT ![i] = TRUE]
  /\ UNCHANGED <<slot, ver, progress, sys>>

-----------------------------------------------------------------------------
(***************************************************************************)
(* The install thread.                                                     *)
(***************************************************************************)
\* DoInstall writes INSTALLING; without components the installation has failed.
DoInstall(i) ==
  /\ At(i, "spawned")
  /\ IF offer = None
     THEN HandleInstallResult(i, "INSTALL_FAIL")
     ELSE /\ task' = UpdateProgressByTaskId("INSTALLING")
          /\ Goto(i, "perform") /\ ver' = [ver EXCEPT ![i] = offer]
          /\ UNCHANGED <<offer, slot, progress, complete, sys, told>>

\* StartInstall, PerformInstall: isInstalling_ is a field of a new object and guards
\* nothing; the packages are checked once more.
PerformInstall(i) ==
  /\ At(i, "perform")
  /\ \/ HandleInstallResult(i, "INSTALL_FAIL")
     \/ /\ told' = "EVENT_UPGRADE_START" /\ Goto(i, "init")
        /\ UNCHANGED <<store, slot, ver, progress, complete, sys>>

\* SysInstallerInit and GetUpdateStatus: the installer cannot be reached, or is busy.
SysInstallerInit(i) ==
  /\ At(i, "init")
  /\ \/ HandleInstallResult(i, "INSTALL_FAIL")
     \/ /\ sysStatus = "INIT" /\ Goto(i, "setCallback")
        /\ UNCHANGED <<store, slot, ver, progress, complete, sys, told>>

\* SetUpdateCallback: the installer has one callback, the last that was set.
SetUpdateCallback(i) ==
  /\ At(i, "setCallback")
  /\ \/ HandleInstallResult(i, "INSTALL_FAIL")
     \/ /\ callback' = i /\ Goto(i, "start")
        /\ UNCHANGED <<store, slot, ver, progress, complete, sysStatus, sysVer, told>>

\* Of several packages only the first is handed over.
StartUpdatePackageZip(i) ==
  /\ At(i, "start")
  /\ \/ HandleInstallResult(i, "INSTALL_FAIL")
     \/ /\ sysStatus = "INIT"
        /\ sysStatus' = "ONGOING" /\ sysVer' = ver[i]
        /\ Goto(i, "wait")
        /\ UNCHANGED <<store, slot, ver, progress, complete, callback, told>>

\* Fault: whoever has waited long enough has succeeded.
WaitInstallResultAny(i) ==
  /\ At(i, "wait")
  /\ HandleInstallResult(i, "INSTALL_SUCCESS")

\* Fault: only a report ends the wait.
WaitInstallResultForever(i) ==
  /\ At(i, "wait")
  /\ progress[i] # "INSTALLING" /\ HandleInstallResult(i, progress[i])

\* WaitInstallResult: the status the callback left, or the end of the wait.  A success
\* counts with a percent of 100 only, and not if it comes during the last sleep.
WaitInstallResult(i) ==
  /\ At(i, "wait")
  /\ \/ progress[i] # "INSTALLING" /\ HandleInstallResult(i, progress[i])
     \/ progress[i] # "INSTALL_FAIL" /\ HandleInstallResult(i, "INSTALL_FAIL")

-----------------------------------------------------------------------------
(***************************************************************************)
(* The system installer.  The objects behind a callback that comes after   *)
(* the wait are gone but for the executor; it does nothing, or what it     *)
(* would have done.                                                        *)
(***************************************************************************)
OnUpgradeProgress(status) ==
  /\ progress' = [progress EXCEPT ![callback] = status]
  /\ complete' = [complete EXCEPT ![callback] = @ \/ status # "INSTALLING"]
  /\ OnInstallCallback(callback, status)
  /\ UNCHANGED <<pc, ver>>

Callback(status) ==
  \/ OnUpgradeProgress(status)
  \/ At(callback, "idle") /\ UNCHANGED <<store, thr, told>>

Ongoing ==
  /\ sysStatus = "ONGOING"
  /\ Callback("INSTALLING")
  /\ UNCHANGED <<slot, sys>>

Succeeds ==
  /\ sysStatus = "ONGOING"
  /\ slot' = sysVer /\ sysStatus' = "INIT"
  /\ Callback("INSTALL_SUCCESS")
  /\ UNCHANGED <<sysVer, callback>>

Fails ==
  /\ sysStatus = "ONGOING"
  /\ sysStatus' = "INIT"
  /\ Callback("INSTALL_FAIL")
  /\ UNCHANGED <<slot, sysVer, callback>>

Next ==
  \/ \E v \in Versions : HandleNewVersion(v)
  \/ Download
  \/ \E i \in Threads :
       \/ Upgrade(i) \/ DoInstall(i) \/ PerformInstall(i) \/ SysInstallerInit(i) \/ SetUpdateCallback(i)
       \/ StartUpdatePackageZip(i) \/ WaitInstallResult(i)
  \/ DoClearError \/ Ongoing \/ Succeeds \/ Fails

Spec == Init /\ [][Next]_vars

\* Install threads run on.  The installer need not report anything.
InstallThread(i) ==
  \/ DoInstall(i) \/ PerformInstall(i) \/ SysInstallerInit(i) \/ SetUpdateCallback(i)
  \/ StartUpdatePackageZip(i) \/ WaitInstallResult(i)
FairSpec == Spec /\ \A i \in Threads : WF_vars(InstallThread(i))

-----------------------------------------------------------------------------
\* Type correctness.
TypeOK ==
  /\ offer \in Versions \union {None} /\ slot \in Versions \union {None}
  /\ task \in {"NONE", "CHECK_VERSION_SUCCESS", "DOWNLOAD_SUCCESS"} \union Statuses
  /\ pc \in [Threads -> {"idle", "spawned", "perform", "init", "setCallback", "start", "wait"}]
  /\ ver \in [Threads -> Versions \union {None}]
  /\ progress \in [Threads -> Statuses] /\ complete \in [Threads -> BOOLEAN]
  /\ sysStatus \in {"INIT", "ONGOING"}
  /\ sysVer \in Versions \union {None} /\ callback \in Threads \union {None}
  /\ told \in {"none", "EVENT_UPGRADE_START", "EVENT_UPGRADE_FAIL", "EVENT_APPLY_WAIT", "EVENT_UPGRADE_UPDATE"}

(***************************************************************************)
(* An installation is waiting to be applied, in the table or in the event  *)
(* the client got, only if there is one: a refused start, a callback that  *)
(* another thread took over or a time-out never leaves INSTALL_SUCCESS     *)
(* with nothing in the other slot.  It may be another version's: a late    *)
(* callback reaches the row of the task that has come since.               *)
(***************************************************************************)
ApplyWaitIsInstalled ==
  task = "INSTALL_SUCCESS" \/ told = "EVENT_APPLY_WAIT" => slot # None

(***************************************************************************)
(* Every install thread comes to its end, also when the installer falls    *)
(* silent, is taken by another thread or calls another thread back: the    *)
(* wait is bounded by the configured time (WaitInstallResult).             *)
(***************************************************************************)
InstallEnds == \A i \in Threads : pc[i] # "idle" ~> pc[i] = "idle"
=============================================================================
