---------------------------- MODULE UpdaterResult ----------------------------
(***************************************************************************)
(* How the service finds out, at the next boot, what became of an upgrade. *)
(*                                                                         *)
(* firmware_updater_install.cpp   UPDATING, and the reboot into the        *)
(*                                updater                                  *)
(* firmware_apply_executor.cpp    UPDATING, and the reboot into the other  *)
(*                                slot of an A/B device                    *)
(* firmware_result_process.cpp    the verdict, from the updater's file     *)
(* firmware_manager.cpp           what follows from it, at boot            *)
(*                                                                         *)
(* The updater and the boot loader are external.  The file they leave is   *)
(* read by the service and removed by nobody, and a package's path has no  *)
(* version in it: the packages of different upgrades may share their path. *)
(* FirmwareUpgrade takes the verdict as a choice; here it is computed.     *)
(***************************************************************************)
EXTENDS Naturals, Sequences, FiniteSets, FiniteSetsExt

CONSTANTS
  Paths,        \* the file names of packages, numbered in their order
  MaxUpgrades   \* bound: upgrades in one behaviour

Pcs == {"idle", "sleeping", "rebooting", "fail", "success", "saved", "notified"}

ASSUME ResultAssumption ==
  /\ Paths \subseteq Nat /\ IsFiniteSet(Paths)
  /\ MaxUpgrades \in Nat

VARIABLES
  ab,         \* the device has two slots
  display,    \* const.product.software.version: the version that runs
  task,       \* status in the task table, or "NONE"
  target,     \* the version on offer, upgrade after upgrade
  code,       \* component table: versionNumber, the text the server sent as versionCode
  comps,      \* component table: the paths of the packages
  file,       \* /data/updater/updater_result; "of", the upgrade it tells of, is not in it
  device,     \* "system", "updater" or "booting"
  pc,         \* where the thread of the service is
  currentId,  \* HOTA_CURRENT_COMPONENT_ID: the version it describes
  slot,       \* the version the other slot of an A/B device starts next, or 0
  told        \* the verdicts the client was told about this offer

store == <<task, target, code, comps>>
vars == <<ab, display, store, file, device, pc, currentId, slot, told>>

NoFile == [open |-> FALSE, of |-> 0, lines |-> <<>>]

\* A version code that has the text of no version's name.
NoName == MaxUpgrades + 1

Init ==
  /\ ab \in BOOLEAN
  /\ display = 0 /\ currentId = 0
  /\ task = "NONE" /\ target = 0 /\ code = 0 /\ comps = {}
  /\ file = NoFile
  /\ device = "system" /\ pc = "idle"
  /\ slot = 0 /\ told = {}

InSystem(at) == device = "system" /\ pc = at

-----------------------------------------------------------------------------
(***************************************************************************)
(* The upgrade.                                                            *)
(***************************************************************************)
\* HandleNewVersion and the download of all packages, on an A/B device their installation too.
\* A path is a directory and a file name.  The server need not put the name into the code.
BuildComponentSPath(names) ==
  /\ InSystem("idle")
  /\ task \in {"NONE", "INSTALL_SUCCESS"} /\ target < MaxUpgrades
  /\ target' = target + 1 /\ comps' = names
  /\ code' \in {target', NoName}
  /\ IF ab
     THEN task' = "INSTALL_SUCCESS" /\ slot' = target'
     ELSE task' = "DOWNLOAD_SUCCESS" /\ UNCHANGED slot
  /\ told' = {}
  /\ UNCHANGED <<ab, display, file, device, pc, currentId>>

\* UpdaterInstall or FirmwareApplyExecutor writes the status and goes to sleep.
PerformInstall ==
  /\ InSystem("idle")
  /\ task = IF ab THEN "INSTALL_SUCCESS" ELSE "DOWNLOAD_SUCCESS"
  /\ task' = "UPDATING" /\ pc' = "sleeping"
  /\ UNCHANGED <<ab, display, target, code, comps, file, device, currentId, slot, told>>

\* The packages in the order the updater gets them.
InstallFiles ==
  CHOOSE s \in [1 .. Cardinality(comps) -> comps] :
    \A i, j \in DOMAIN s : i < j => s[i] < s[j]

ClearFirmwareInfo == task' = "NONE" /\ comps' = {} /\ UNCHANGED <<target, code>>

\* The reboot is under way, or refused, which ends the upgrade.
DoUpdaterInstall ==
  /\ ~ab /\ InSystem("sleeping")
  /\ \/ pc' = "rebooting" /\ UNCHANGED store
     \/ pc' = "idle" /\ ClearFirmwareInfo
  /\ UNCHANGED <<ab, display, file, device, currentId, slot, told>>

\* The device stays up long enough for the installer to report.
RebootReturns ==
  /\ InSystem("rebooting") /\ task = "UPDATING"
  /\ task' = "INSTALL_SUCCESS"
  /\ UNCHANGED <<ab, display, target, code, comps, file, device, pc, currentId, slot, told>>

EnterUpdater ==
  /\ InSystem("rebooting")
  /\ device' = "updater" /\ pc' = "idle"
  /\ UNCHANGED <<ab, display, store, file, currentId, slot, told>>

\* What the updater writes: n packages pass, the next one fails or is interrupted.
Lines(n, end) ==
  [i \in DOMAIN InstallFiles |->
     [spath |-> InstallFiles[i],
      result |-> IF i <= n THEN "pass" ELSE IF i = n + 1 THEN end ELSE "none"]]

\* The updater installs the packages, and writes its file or loses it.
UpdaterRuns ==
  /\ device = "updater"
  /\ \E n \in 0 .. Len(InstallFiles), end \in {"fail", "none"} :
       /\ display' = IF n = Len(InstallFiles) THEN target ELSE display
       /\ file' \in {NoFile, [open |-> TRUE, of |-> target, lines |-> Lines(n, end)]}
  /\ device' = "booting"
  /\ UNCHANGED <<ab, store, pc, currentId, slot, told>>

\* The other slot comes up, or the boot loader falls back and gives it up.
StartSlot ==
  /\ device' = "booting"
  /\ slot' = 0
  /\ display' \in IF slot = 0 THEN {display} ELSE {display, slot}

\* The reboot of FirmwareApplyExecutor.  A refused one leaves everything as it is.
DoReboot ==
  /\ ab /\ InSystem("sleeping")
  /\ StartSlot \/ UNCHANGED <<device, display, slot>>
  /\ pc' = "idle"
  /\ UNCHANGED <<ab, store, file, currentId, told>>

\* Power is lost, wherever the thread is.
Reset ==
  /\ device = "system"
  /\ StartSlot
  /\ pc' = "idle"
  /\ UNCHANGED <<ab, store, file, currentId, told>>

-----------------------------------------------------------------------------
(***************************************************************************)
(* The verdict.                                                            *)
(***************************************************************************)
\* A line is split at the first bar and colon; the first line of a path counts.
ParseUpdaterResultRecord(lines) ==
  [p \in {lines[i].spath : i \in DOMAIN lines} |->
     lines[Min({i \in DOMAIN lines : lines[i].spath = p})].result]

\* What a component without a line is judged by: versionCode against the display version.
CompareVersion == IF code = display THEN "pass" ELSE "fail"

\* Without a file every component is compared.
HandleFileError == [p \in comps |-> CompareVersion]

ResultMap == IF file.open THEN ParseUpdaterResultRecord(file.lines) ELSE HandleFileError

\* Fault: only a line that says fail counts against an upgrade.
HandleFileResultsNoFail ==
  \A p \in comps :
    (IF p \in DOMAIN ResultMap THEN ResultMap[p] ELSE CompareVersion) # "fail"

\* Every component has to have passed, one that the updater never came to as well.
HandleFileResults ==
  \A p \in comps :
    (IF p \in DOMAIN ResultMap THEN ResultMap[p] ELSE CompareVersion) = "pass"

GetUpdaterResult == comps # {} /\ HandleFileResults

\* HandleBootComplete, HandleBootUpdateOnStatusProcess.
HandleBootComplete ==
  /\ device = "booting"
  /\ device' = "system"
  /\ pc' = IF task # "UPDATING" THEN "idle" ELSE IF GetUpdaterResult THEN "success" ELSE "fail"
  /\ UNCHANGED <<ab, display, store, file, currentId, slot, told>>

\* Fault: nothing is saved for a single package.
SaveHotaCurrentVersionComponentIdPart ==
  /\ InSystem("success")
  /\ pc' = "saved"
  /\ currentId' = IF Cardinality(comps) > 1 THEN target ELSE currentId
  /\ UNCHANGED <<ab, display, store, file, device, slot, told>>

\* HandleBootUpdateSuccess: the running version's description first ...
SaveHotaCurrentVersionComponentId ==
  /\ InSystem("success")
  /\ pc' = "saved"
  /\ currentId' = IF comps # {} THEN target ELSE currentId
  /\ UNCHANGED <<ab, display, store, file, device, slot, told>>

\* ... then the event, which HandleBootUpdateFail begins with ...
NotifyEvent ==
  /\ device = "system" /\ pc \in {"saved", "fail"}
  /\ pc' = "notified"
  /\ told' = told \union {IF pc = "saved" THEN "EVENT_UPGRADE_SUCCESS" ELSE "EVENT_UPGRADE_FAIL"}
  /\ UNCHANGED <<ab, display, store, file, device, currentId, slot>>

\* Fault: the components go before the task does.
HandleBootUpdateEndReversed ==
  /\ InSystem("notified")
  /\ comps' = {}
  /\ IF comps # {} THEN UNCHANGED <<task, pc>> ELSE task' = "NONE" /\ pc' = "idle"
  /\ UNCHANGED <<ab, display, target, code, file, device, currentId, slot, told>>

\* ... and the information goes, the task before anything else.
HandleBootUpdateEnd ==
  /\ InSystem("notified")
  /\ pc' = "idle" /\ ClearFirmwareInfo
  /\ UNCHANGED <<ab, display, file, device, currentId, slot, told>>

Next ==
  \/ \E names \in (SUBSET Paths) \ {{}} : BuildComponentSPath(names)
  \/ PerformInstall \/ DoUpdaterInstall \/ RebootReturns \/ EnterUpdater
  \/ UpdaterRuns \/ DoReboot \/ Reset
  \/ HandleBootComplete \/ SaveHotaCurrentVersionComponentId
  \/ NotifyEvent \/ HandleBootUpdateEnd

Spec == Init /\ [][Next]_vars

-----------------------------------------------------------------------------
\* Type correctness.
TypeOK ==
  /\ ab \in BOOLEAN
  /\ display \in 0 .. MaxUpgrades /\ target \in 0 .. MaxUpgrades
  /\ code \in 0 .. NoName
  /\ task \in {"NONE", "DOWNLOAD_SUCCESS", "UPDATING", "INSTALL_SUCCESS"}
  /\ comps \subseteq Paths
  /\ file.open \in BOOLEAN /\ file.of \in 0 .. MaxUpgrades
  /\ file.lines \in Seq([spath : Paths, result : {"pass", "fail", "none"}])
  /\ device \in {"system", "updater", "booting"} /\ pc \in Pcs
  /\ currentId \in 0 .. MaxUpgrades
  /\ slot \in 0 .. MaxUpgrades
  /\ told \subseteq {"EVENT_UPGRADE_SUCCESS", "EVENT_UPGRADE_FAIL"}

\* The boot found the file of an earlier upgrade: the updater never ran for this one.
Outdated == file.open /\ file.of # target

\* There is no file, and the version code cannot be compared with the version that runs.
Incomparable == ~file.open /\ code # target

(***************************************************************************)
(* The client is told of a success exactly when the version on offer runs: *)
(* the verdict of GetUpdaterResult, wherever power is lost and whether the *)
(* file is there or not, is the truth, with two exceptions.  Nobody        *)
(* removes the file of an earlier upgrade, and a boot that finds it judges *)
(* by it; and a version code that is not the version's name makes every    *)
(* upgrade without a file a failure, though never a success.               *)
(***************************************************************************)
VerdictIsTrue ==
  Outdated \/ /\ "EVENT_UPGRADE_SUCCESS" \in told => display = target
              /\ "EVENT_UPGRADE_FAIL" \in told => display # target \/ Incomparable

(***************************************************************************)
(* Power that is lost while HandleBootUpdateSuccess or Fail is at work has *)
(* the next boot judge again, from the same file and the same tables: one  *)
(* upgrade never gets both verdicts.                                       *)
(***************************************************************************)
VerdictsAgree == Cardinality(told) <= 1

(***************************************************************************)
(* Who hears of a success finds the description of the version that now    *)
(* runs: SaveHotaCurrentVersionComponentId needs the component table,      *)
(* which the end of the same handler empties.                              *)
(***************************************************************************)
SuccessIsRecorded == "EVENT_UPGRADE_SUCCESS" \in told => currentId = target
==============================================================================
