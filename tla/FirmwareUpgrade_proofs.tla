----------------------- MODULE FirmwareUpgrade_proofs -----------------------
(****************************************************************************)
(* Proofs about FirmwareUpgrade, for every set of versions, package sizes   *)
(* and threads and for both kinds of device.                                *)
(****************************************************************************)
EXTENDS FirmwareUpgrade, TLAPS

\* Clearing leaves nothing (ClearFirmwareInfo).
LEMMA Cleared ==
    ASSUME ClearFirmwareInfo
    PROVE  task' = "NONE" /\ StoreType'
BY DEF ClearFirmwareInfo, DeleteDownloadFiles, NoFile, StoreType

\* So does a failed download, if there was a task (DownloadFailProcess).
LEMMA FailedDownloadCleared ==
    ASSUME StoreType, DownloadFailed
    PROVE  task' = "NONE" /\ StoreType'
BY Cleared DEF DownloadFailed, DeleteDownloadFiles, NoFile, StoreType

\* A process that has ended has no threads and no memory (ProcessDies).
LEMMA DownType ==
    ASSUME ProcessDown
    PROVE  /\ stage' = "off" /\ reason' = "NONE" /\ checking' = "no"
           /\ ThreadType'
BY DEF ProcessDown, ThreadType, IdleDownload, IdleInstall, DownloadPc, InstallPc

\* The next boot is set to nothing that was not worked on (ProcessDies, DeviceDown).
LEMMA EndSlot ==
    ASSUME TypeOK, ProcessEnds
    PROVE  slot' \in Versions \cup {NoVersion} /\ running' = running /\ rebooted' = rebooted
BY DEF ProcessEnds, AtWork, Waiting, TypeOK, ProcessType, ThreadType, SysType

\* The state the device leaves the factory in is well typed (Init).
LEMMA InitType == Init => TypeOK
<1> SUFFICES ASSUME Init PROVE TypeOK
  OBVIOUS
<1>1. StoreType /\ ProcessType
  BY DEF Init, StoreType, ProcessType, NoFile
<1>2. FlagType
  BY Zenon DEF Init, FlagType
<1>3. ThreadType
  BY DEF Init, ThreadType, IdleDownload, IdleInstall, DownloadPc, InstallPc
<1>4. SysType
  BY DEF Init, SysType, NoWork
<1> QED BY <1>1, <1>2, <1>3, <1>4 DEF TypeOK

\* Every step keeps the types of the tables and of the file.
LEMMA StoreStep ==
    ASSUME TypeOK, Next
    PROVE  StoreType'
<1> USE DEF TypeOK, store, TaskStatus
<1>1. ASSUME NEW c \in Checkers, NEW answer \in Answers, CheckDone(c, answer)
      PROVE  StoreType'
  BY <1>1, Cleared
     DEF CheckDone, Answers, HandleNewVersion, DeleteDownloadFiles, NoFile,
         StoreType
<1>2. ASSUME NEW d \in Downloaders, DownloadStep(d)
      PROVE  StoreType'
  <2>1. CASE DoDownload(d)
    BY <2>1, FailedDownloadCleared DEF DoDownload, SetTask, StoreType
  <2>2. CASE OpenFile(d)
    BY <2>2 DEF OpenFile, StoreType
  <2>3. CASE OpenFails(d)
    BY <2>3 DEF OpenFails, DeleteDownloadFiles, NoFile, StoreType
  <2>4. CASE DealAbnormal(d)
    BY <2>4, Cleared
       DEF DealAbnormal, DownloadCancelled, DeleteDownloadFiles, NoFile,
           StoreType
  <2>5. CASE Transfer(d)
    BY <2>5 DEF Transfer, Appended, SetTask, StoreType, ThreadType
  <2>6. CASE CurlError(d) \/ CurlDone(d) \/ VerifyDownloadPkg(d)
    BY <2>6, FailedDownloadCleared
       DEF CurlError, CurlDone, VerifyDownloadPkg, SetTask, StoreType
  <2> QED BY <1>2, <2>1, <2>2, <2>3, <2>4, <2>5, <2>6 DEF DownloadStep
<1>3. ASSUME NEW i \in InstallThreads, Upgrade(i) \/ InstallStep(i)
      PROVE  StoreType'
  <2>1. CASE Upgrade(i)
    BY <2>1, Cleared DEF Upgrade, StartInstall, StartApply, StoreType
  <2>2. CASE DoInstall(i)
    BY <2>2, Cleared DEF DoInstall, SetTask, StoreType
  <2>3. CASE SysOngoing(i) \/ SysSuccess(i) \/ SysFail(i)
    BY <2>3, Cleared DEF SysOngoing, SysSuccess, SysFail, SetTask, StoreType
  <2>4. CASE WaitInstallResult(i) \/ InstallTimeout(i)
    BY <2>4, Cleared DEF WaitInstallResult, InstallTimeout, SetTask, StoreType
  <2>5. CASE RebootAndInstall(i) \/ RebootReturns(i)
    BY <2>5, Cleared DEF RebootAndInstall, RebootReturns, StoreType
  <2>6. CASE DoApply(i) \/ DoReboot(i)
    BY <2>6 DEF DoApply, DoReboot, DeviceDown, SetTask, StoreType
  <2> QED BY <1>3, <2>1, <2>2, <2>3, <2>4, <2>5, <2>6 DEF InstallStep
<1>4. CASE ClearError \/ IdleExit \/ ProcessDies \/ DeviceReboots
  BY <1>4, Cleared
     DEF ClearError, IdleExit, ProcessDies, DeviceReboots, DeviceDown, StoreType
<1>5. CASE Start \/ RestoreUpdate \/ HandleBootComplete
  BY <1>5, Cleared
     DEF Start, RestoreUpdate, ReinstallOnBoot, HandleBootComplete, StoreType
<1>6. CASE \/ CheckAges \/ Cancel \/ TerminateUpgrade \/ NetChanged
           \/ LeaveRebootDuration
           \/ \E c \in Checkers : DoCheck(c)
           \/ \E d \in Downloaders : Download(d)
  BY <1>6
     DEF CheckAges, Cancel, TerminateUpgrade, NetChanged, LeaveRebootDuration,
         DoCheck, Download, StoreType
<1>7. CASE LateProgress \/ LateResult
  BY <1>7 DEF LateProgress, LateResult, SetTask, StoreType
<1> QED
  BY <1>1, <1>2, <1>3, <1>4, <1>5, <1>6, <1>7 DEF Next, StartUp, InstallThreads

\* Every step keeps the types of the process state and of the device's versions.
LEMMA ProcessStep ==
    ASSUME TypeOK, Next
    PROVE  ProcessType'
<1> USE DEF TypeOK, device, process, flags
<1>1. ASSUME NEW c \in Checkers,
             DoCheck(c) \/ \E answer \in Answers : CheckDone(c, answer)
      PROVE  ProcessType'
  BY <1>1 DEF DoCheck, CheckDone, ProcessType
<1>2. ASSUME NEW d \in Downloaders, Download(d) \/ DownloadStep(d)
      PROVE  ProcessType'
  <2>1. CASE OpenFails(d)
    BY <2>1, DownType, EndSlot DEF OpenFails, ProcessEnds, ProcessType
  <2>2. CASE ~OpenFails(d)
    BY <1>2, <2>2
       DEF Download, DownloadStep, DoDownload, OpenFile, DealAbnormal, Transfer, CurlError,
           CurlDone, VerifyDownloadPkg, ProcessType
  <2> QED BY <2>1, <2>2
<1>3. ASSUME NEW i \in InstallThreads, Upgrade(i) \/ InstallStep(i)
      PROVE  ProcessType'
  <2>1. CASE Upgrade(i) \/ DoInstall(i) \/ SysOngoing(i) \/ SysFail(i)
    BY <2>1 DEF Upgrade, DoInstall, SysOngoing, SysFail, ProcessType
  <2>2. CASE WaitInstallResult(i) \/ InstallTimeout(i) \/ RebootReturns(i)
                \/ DoApply(i)
    BY <2>2
       DEF WaitInstallResult, InstallTimeout, RebootReturns, DoApply, ProcessType
  <2>3. CASE SysSuccess(i) \/ RebootAndInstall(i)
    BY <2>3 DEF SysSuccess, RebootAndInstall, ProcessType, ThreadType
  <2>4. CASE DoReboot(i)
    BY <2>4, DownType DEF DoReboot, DeviceDown, ProcessType
  <2> QED BY <1>3, <2>1, <2>2, <2>3, <2>4 DEF InstallStep
<1>4. CASE ClearError \/ IdleExit \/ ProcessDies \/ DeviceReboots
  BY <1>4, DownType, EndSlot
     DEF ClearError, IdleExit, ProcessDies, ProcessEnds, DeviceReboots, DeviceDown,
         ProcessType
<1>5. CASE Start \/ RestoreUpdate \/ HandleBootComplete
  BY <1>5
     DEF Start, GetStartupReason, RestoreUpdate, HandleBootComplete, ProcessType
<1>6. CASE \/ CheckAges \/ Cancel \/ TerminateUpgrade \/ NetChanged
           \/ LeaveRebootDuration
  BY <1>6
     DEF CheckAges, Cancel, TerminateUpgrade, NetChanged, LeaveRebootDuration,
         ProcessType
<1>7. CASE LateProgress \/ LateResult
  BY <1>7 DEF LateProgress, LateResult, ProcessType, SysType
<1> QED
  BY <1>1, <1>2, <1>3, <1>4, <1>5, <1>6, <1>7 DEF Next, StartUp, InstallThreads

\* Every step leaves the flags Boolean.
LEMMA FlagStep ==
    ASSUME TypeOK, Next
    PROVE  FlagType'
<1> USE DEF TypeOK, device, flags, world
<1>1. ASSUME NEW c \in Checkers,
             DoCheck(c) \/ \E answer \in Answers : CheckDone(c, answer)
      PROVE  FlagType'
  BY <1>1, Zenon DEF DoCheck, CheckDone, FlagType
<1>2. ASSUME NEW d \in Downloaders, Download(d) \/ DownloadStep(d)
      PROVE  FlagType'
  <2>1. CASE Download(d) \/ DoDownload(d) \/ OpenFile(d) \/ Transfer(d)
    BY <2>1, Zenon DEF Download, DoDownload, OpenFile, Transfer, FlagType
  <2>2. CASE CurlError(d) \/ CurlDone(d) \/ VerifyDownloadPkg(d)
    BY <2>2, Zenon DEF CurlError, CurlDone, VerifyDownloadPkg, FlagType
  <2>3. CASE OpenFails(d)
    BY <2>3, Zenon DEF OpenFails, ProcessEnds, ProcessDown, FlagType
  <2>4. CASE DealAbnormal(d)
    BY <2>4, Zenon DEF DealAbnormal, FlagType
  <2> QED BY <1>2, <2>1, <2>2, <2>3, <2>4 DEF DownloadStep
<1>3. ASSUME NEW i \in InstallThreads, Upgrade(i) \/ InstallStep(i)
      PROVE  FlagType'
  <2>1. CASE Upgrade(i) \/ DoInstall(i) \/ SysOngoing(i) \/ SysFail(i)
    BY <2>1, Zenon DEF Upgrade, DoInstall, SysOngoing, SysFail, FlagType
  <2>2. CASE WaitInstallResult(i) \/ InstallTimeout(i) \/ RebootReturns(i)
    BY <2>2, Zenon DEF WaitInstallResult, InstallTimeout, RebootReturns, FlagType
  <2>3. CASE DoApply(i) \/ SysSuccess(i) \/ RebootAndInstall(i)
    BY <2>3, Zenon DEF DoApply, SysSuccess, RebootAndInstall, FlagType
  <2>4. CASE DoReboot(i)
    BY <2>4, Zenon DEF DoReboot, DeviceDown, ProcessDown, FlagType
  <2> QED BY <1>3, <2>1, <2>2, <2>3, <2>4 DEF InstallStep
<1>4. CASE ClearError \/ IdleExit \/ ProcessDies \/ DeviceReboots
  BY <1>4, Zenon
     DEF ClearError, IdleExit, ProcessDies, ProcessEnds, DeviceReboots, DeviceDown,
         ProcessDown, FlagType
<1>5. CASE Start \/ RestoreUpdate \/ HandleBootComplete
  BY <1>5, Zenon DEF Start, RestoreUpdate, HandleBootComplete, FlagType
<1>6. CASE NetChanged
  BY <1>6, Zenon DEF NetChanged, FlagType
<1>7. CASE CheckAges \/ Cancel \/ TerminateUpgrade \/ LeaveRebootDuration
  BY <1>7, Zenon
     DEF CheckAges, Cancel, TerminateUpgrade, LeaveRebootDuration, FlagType
<1>8. CASE LateProgress \/ LateResult
  BY <1>8, Zenon DEF LateProgress, LateResult, FlagType
<1> QED
  BY <1>1, <1>2, <1>3, <1>4, <1>5, <1>6, <1>7, <1>8 DEF Next, StartUp, InstallThreads

\* Every step keeps the types of the threads.
LEMMA ThreadStep ==
    ASSUME TypeOK, Next
    PROVE  ThreadType'
<1> USE DEF TypeOK, threads, DownloadPc, InstallPc, IdleDownload, IdleInstall
<1>1. ASSUME NEW c \in Checkers,
             DoCheck(c) \/ \E answer \in Answers : CheckDone(c, answer)
      PROVE  ThreadType'
  BY <1>1 DEF DoCheck, CheckDone, ThreadType
<1>2. ASSUME NEW d \in Downloaders, Download(d) \/ DownloadStep(d)
      PROVE  ThreadType'
  <2>1. CASE Download(d) \/ DoDownload(d)
    BY <2>1 DEF Download, DoDownload, EndDownload, StoreType, ThreadType
  <2>2. CASE OpenFile(d)
    <3>1. file.len \in Nat
      BY DEF StoreType
    <3> QED BY <2>2, <3>1 DEF OpenFile, ThreadType
  <2>3. CASE OpenFails(d)
    BY <2>3, DownType DEF OpenFails, ProcessEnds, EndDownload, ThreadType
  <2>4. CASE DealAbnormal(d) \/ CurlError(d)
    BY <2>4 DEF DealAbnormal, CurlError, EndDownload, ThreadType
  <2>5. CASE CurlDone(d) \/ VerifyDownloadPkg(d)
    BY <2>5 DEF CurlDone, VerifyDownloadPkg, EndDownload, ThreadType
  <2>6. CASE Transfer(d)
    BY <2>6 DEF Transfer, ThreadType
  <2> QED BY <1>2, <2>1, <2>2, <2>3, <2>4, <2>5, <2>6 DEF DownloadStep
<1>3. ASSUME NEW i \in InstallThreads, Upgrade(i) \/ InstallStep(i)
      PROVE  ThreadType'
  <2>1. CASE Upgrade(i)
    BY <2>1 DEF Upgrade, StartInstall, StartApply, ThreadType
  <2>2. CASE DoInstall(i)
    BY <2>2 DEF DoInstall, EndInstall, StoreType, ThreadType
  <2>3. CASE SysOngoing(i) \/ SysSuccess(i) \/ SysFail(i)
    BY <2>3 DEF SysOngoing, SysSuccess, SysFail, ThreadType
  <2>4. CASE WaitInstallResult(i) \/ InstallTimeout(i)
    BY <2>4 DEF WaitInstallResult, InstallTimeout, EndInstall, ThreadType
  <2>5. CASE RebootAndInstall(i)
    BY <2>5 DEF RebootAndInstall, EndInstall, ThreadType
  <2>6. CASE RebootReturns(i) \/ DoApply(i)
    BY <2>6 DEF RebootReturns, DoApply, EndInstall, ThreadType
  <2>7. CASE DoReboot(i)
    BY <2>7, DownType DEF DoReboot, DeviceDown, EndInstall, ThreadType
  <2> QED BY <1>3, <2>1, <2>2, <2>3, <2>4, <2>5, <2>6, <2>7 DEF InstallStep
<1>4. CASE ClearError \/ IdleExit \/ ProcessDies \/ DeviceReboots
  BY <1>4, DownType
     DEF ClearError, IdleExit, ProcessDies, ProcessEnds, DeviceReboots, DeviceDown,
         ThreadType
<1>5. CASE Start \/ RestoreUpdate \/ HandleBootComplete
  BY <1>5
     DEF Start, RestoreUpdate, ReinstallOnBoot, HandleBootComplete,
         InstallThreads, ThreadType
<1>6. CASE \/ CheckAges \/ Cancel \/ TerminateUpgrade \/ NetChanged
           \/ LeaveRebootDuration
  BY <1>6
     DEF CheckAges, Cancel, TerminateUpgrade, NetChanged, LeaveRebootDuration,
         ThreadType
<1>7. CASE LateProgress \/ LateResult
  BY <1>7 DEF LateProgress, LateResult, ThreadType
<1> QED
  BY <1>1, <1>2, <1>3, <1>4, <1>5, <1>6, <1>7 DEF Next, StartUp, InstallThreads

\* What the system installer is left to do: nothing, what it was, or the work of a thread
\* that waited for it; nobody changes what has a digest (InstallTimeout, ProcessDies).
LEMMA LateStep ==
    ASSUME Next
    PROVE  /\ digested' = digested
           /\ \/ late' \in {late, NoWork}
              \/ late' = [late EXCEPT !.called = TRUE]
              \/ \E i \in InstallThreads : late' = [ver |-> ins[i].ver, called |-> FALSE]
<1> USE DEF world
<1>1. ASSUME NEW c \in Checkers,
             DoCheck(c) \/ \E answer \in Answers : CheckDone(c, answer)
      PROVE  late' = late /\ digested' = digested
  BY <1>1 DEF DoCheck, CheckDone
<1>2. ASSUME NEW d \in Downloaders, Download(d) \/ DownloadStep(d)
      PROVE  late' \in {late, NoWork} /\ digested' = digested
  BY <1>2
     DEF Download, DownloadStep, DoDownload, OpenFile, OpenFails, ProcessEnds, ProcessDown,
         DealAbnormal, Transfer, CurlError, CurlDone, VerifyDownloadPkg
<1>3. ASSUME NEW i \in InstallThreads, Upgrade(i) \/ InstallStep(i)
      PROVE  /\ digested' = digested
             /\ \/ late' \in {late, NoWork}
                \/ late' = [ver |-> ins[i].ver, called |-> FALSE]
  BY <1>3
     DEF Upgrade, InstallStep, DoInstall, SysOngoing, SysSuccess, SysFail, WaitInstallResult,
         InstallTimeout, RebootAndInstall, RebootReturns, DoApply, DoReboot, DeviceDown,
         ProcessDown
<1>4. CASE ClearError \/ IdleExit \/ ProcessDies \/ DeviceReboots
  BY <1>4 DEF ClearError, IdleExit, ProcessDies, ProcessEnds, DeviceReboots, DeviceDown, ProcessDown
<1>5. CASE LateProgress \/ LateResult
  BY <1>5 DEF LateProgress, LateResult
<1>6. CASE \/ Start \/ RestoreUpdate \/ HandleBootComplete
           \/ CheckAges \/ Cancel \/ TerminateUpgrade \/ NetChanged
           \/ LeaveRebootDuration
  BY <1>6
     DEF Start, RestoreUpdate, HandleBootComplete, CheckAges, Cancel, TerminateUpgrade,
         NetChanged, LeaveRebootDuration
<1> QED
  BY <1>1, <1>2, <1>3, <1>4, <1>5, <1>6 DEF Next, StartUp, InstallThreads

\* Every step keeps its type.
LEMMA SysStep ==
    ASSUME TypeOK, Next
    PROVE  SysType'
<1> DEFINE W == [ver : Versions \cup {NoVersion}, called : BOOLEAN]
<1>1. late \in W /\ digested \subseteq Versions
  BY DEF TypeOK, SysType
<1>2. NoWork \in W /\ [late EXCEPT !.called = TRUE] \in W
  BY <1>1 DEF NoWork
<1>3. ASSUME NEW i \in InstallThreads
      PROVE  [ver |-> ins[i].ver, called |-> FALSE] \in W
  BY DEF TypeOK, ThreadType
<1> HIDE DEF W
<1>4. late' \in W /\ digested' \subseteq Versions
  BY <1>1, <1>2, <1>3, LateStep
<1> QED BY <1>4 DEF SysType, W

\* Type correctness: every reachable state is well typed (all handlers).
THEOREM TypeCorrect == Spec => []TypeOK
<1>1. TypeOK /\ [Next]_vars => TypeOK'
  <2> SUFFICES ASSUME TypeOK, [Next]_vars PROVE TypeOK'
    OBVIOUS
  <2>1. CASE Next
    BY <2>1, StoreStep, ProcessStep, FlagStep, ThreadStep, SysStep DEF TypeOK
  <2>2. CASE UNCHANGED vars
    <3>1. StoreType' /\ ProcessType'
      BY <2>2
         DEF TypeOK, StoreType, ProcessType, vars, store, device, process, flags
    <3>2. FlagType'
      BY <2>2, Zenon DEF TypeOK, FlagType, vars, device, flags, world
    <3>3. ThreadType'
      BY <2>2 DEF TypeOK, ThreadType, vars, threads
    <3>4. SysType'
      BY <2>2 DEF TypeOK, SysType, vars, world
    <3> QED BY <3>1, <3>2, <3>3, <3>4 DEF TypeOK
  <2> QED BY <2>1, <2>2
<1> QED BY InitType, <1>1, PTL DEF Spec

\* A download thread that ends, for whatever reason, takes the status with it:
\* the step leaves no DOWNLOADING behind (DownloadCallback, DealAbnormal).
LEMMA DownloadStepBacked ==
    ASSUME TypeOK, DownloadingIsBacked, NEW d \in Downloaders, DownloadStep(d)
    PROVE  DownloadingIsBacked'
<1> USE DEF TypeOK, DownloadingIsBacked, Recovered, store, process
<1>1. CASE DoDownload(d)
  BY <1>1, FailedDownloadCleared
     DEF DoDownload, SetTask, EndDownload, IdleDownload, ThreadType
<1>2. CASE OpenFile(d)
  BY <1>2 DEF OpenFile, ThreadType
<1>3. CASE OpenFails(d)
  BY <1>3, DownType DEF OpenFails, ProcessEnds
<1>4. CASE DealAbnormal(d)
  BY <1>4, Cleared DEF DealAbnormal, DownloadCancelled
<1>5. CASE Transfer(d)
  BY <1>5 DEF Transfer, SetTask, ThreadType
<1>6. CASE CurlError(d)
  BY <1>6, FailedDownloadCleared DEF CurlError
<1>7. CASE CurlDone(d)
  BY <1>7 DEF CurlDone, ThreadType
<1>8. CASE VerifyDownloadPkg(d)
  BY <1>8, FailedDownloadCleared DEF VerifyDownloadPkg, SetTask
<1> QED
  BY <1>1, <1>2, <1>3, <1>4, <1>5, <1>6, <1>7, <1>8 DEF DownloadStep

\* Once the service has recovered, DOWNLOADING in the task table means that a
\* download thread is at work, for any number of concurrent downloads
\* (HandleBootDownloadOnStatusProcess, DownloadCallback).
THEOREM DownloadBacked == Spec => []DownloadingIsBacked
<1>1. Init => DownloadingIsBacked
  BY DEF Init, DownloadingIsBacked, Recovered
<1>2. TypeOK /\ DownloadingIsBacked /\ [Next]_vars => DownloadingIsBacked'
  <2> SUFFICES ASSUME TypeOK, DownloadingIsBacked, [Next]_vars
               PROVE  DownloadingIsBacked'
    OBVIOUS
  <2> USE DEF TypeOK, DownloadingIsBacked, Recovered, store, process, threads
  <2>1. ASSUME NEW c \in Checkers, NEW answer \in Answers, CheckDone(c, answer)
        PROVE  DownloadingIsBacked'
    BY <2>1, Cleared DEF CheckDone, HandleNewVersion
  <2>2. ASSUME NEW d \in Downloaders, Download(d)
        PROVE  DownloadingIsBacked'
    BY <2>2 DEF Download
  <2>3. ASSUME NEW d \in Downloaders, DownloadStep(d)
        PROVE  DownloadingIsBacked'
    BY <2>3, DownloadStepBacked
  <2>4. ASSUME NEW i \in InstallThreads, Upgrade(i) \/ InstallStep(i)
        PROVE  DownloadingIsBacked'
    <3>1. CASE Upgrade(i)
      BY <3>1, Cleared DEF Upgrade, StartInstall, StartApply
    <3>2. CASE DoInstall(i)
      BY <3>2, Cleared DEF DoInstall, SetTask
    <3>3. CASE SysOngoing(i) \/ SysSuccess(i) \/ SysFail(i)
      BY <3>3, Cleared DEF SysOngoing, SysSuccess, SysFail, SetTask
    <3>4. CASE WaitInstallResult(i) \/ InstallTimeout(i)
      BY <3>4, Cleared DEF WaitInstallResult, InstallTimeout, SetTask
    <3>5. CASE RebootAndInstall(i) \/ RebootReturns(i)
      BY <3>5, Cleared DEF RebootAndInstall, RebootReturns
    <3>6. CASE DoApply(i) \/ DoReboot(i)
      BY <3>6, DownType DEF DoApply, DoReboot, DeviceDown, SetTask
    <3> QED BY <2>4, <3>1, <3>2, <3>3, <3>4, <3>5, <3>6 DEF InstallStep
  <2>5. CASE ClearError \/ IdleExit \/ ProcessDies \/ DeviceReboots
    BY <2>5, Cleared, DownType
       DEF ClearError, IdleExit, ProcessDies, ProcessEnds, DeviceReboots, DeviceDown
  <2>6. CASE Start \/ RestoreUpdate \/ HandleBootComplete
    BY <2>6, Cleared
       DEF Start, RestoreUpdate, ReinstallOnBoot, HandleBootComplete
  <2>7. CASE \/ CheckAges \/ Cancel \/ TerminateUpgrade \/ NetChanged
             \/ LeaveRebootDuration \/ UNCHANGED vars
             \/ \E c \in Checkers : DoCheck(c)
    BY <2>7
       DEF CheckAges, Cancel, TerminateUpgrade, NetChanged, LeaveRebootDuration,
           DoCheck, vars
  <2>8. CASE LateProgress \/ LateResult
    BY <2>8 DEF LateProgress, LateResult, SetTask
  <2> QED
    BY <2>1, <2>2, <2>3, <2>4, <2>5, <2>6, <2>7, <2>8 DEF Next, StartUp, InstallThreads
<1> QED BY TypeCorrect, <1>1, <1>2, PTL DEF Spec

\* An install thread that stops waiting for the system installer takes INSTALLING
\* with it (HandleInstallProgress, HandleInstallResult, GetStepAfterInstall).
LEMMA InstallStepBacked ==
    ASSUME TypeOK, InstallingIsBacked, NEW i \in InstallThreads, InstallStep(i)
    PROVE  InstallingIsBacked'
<1> USE DEF TypeOK, InstallingIsBacked, Recovered, Waiting, store, process, threads, world
<1>1. CASE DoInstall(i)
  BY <1>1, Cleared DEF DoInstall, SetTask, EndInstall, IdleInstall, ThreadType
<1>2. CASE SysOngoing(i)
  BY <1>2 DEF SysOngoing
<1>3. CASE SysSuccess(i) \/ SysFail(i)
  BY <1>3, Cleared DEF SysSuccess, SysFail
<1>4. CASE WaitInstallResult(i)
  BY <1>4 DEF WaitInstallResult, SetTask
<1>5. CASE InstallTimeout(i)
  BY <1>5, Cleared DEF InstallTimeout
<1>6. CASE RebootAndInstall(i)
  BY <1>6, Cleared DEF RebootAndInstall, ThreadType
<1>7. CASE RebootReturns(i)
  BY <1>7, Cleared DEF RebootReturns
<1>8. CASE DoApply(i)
  BY <1>8 DEF DoApply, SetTask, EndInstall, IdleInstall, ThreadType
<1>9. CASE DoReboot(i)
  BY <1>9, DownType DEF DoReboot, DeviceDown, EndInstall, IdleInstall, ThreadType
<1> QED
  BY <1>1, <1>2, <1>3, <1>4, <1>5, <1>6, <1>7, <1>8, <1>9 DEF InstallStep

\* Once the service has recovered, INSTALLING in the task table means that a thread
\* waits for the system installer, or that the system installer has called back for
\* a wait that had timed out and has not ended since, for any number of install
\* requests and on both kinds of device
\* (HandleBootInstallOnStatusProcess, WaitInstallResult, HandleInstallProgress).
THEOREM InstallBacked == Spec => []InstallingIsBacked
<1>1. Init => InstallingIsBacked
  BY DEF Init, InstallingIsBacked, Recovered
<1>2. TypeOK /\ InstallingIsBacked /\ [Next]_vars => InstallingIsBacked'
  <2> SUFFICES ASSUME TypeOK, InstallingIsBacked, [Next]_vars
               PROVE  InstallingIsBacked'
    OBVIOUS
  <2> USE DEF TypeOK, InstallingIsBacked, Recovered, Waiting, store, process, threads, world
  <2>1. ASSUME NEW c \in Checkers, NEW answer \in Answers, CheckDone(c, answer)
        PROVE  InstallingIsBacked'
    BY <2>1, Cleared DEF CheckDone, HandleNewVersion
  <2>2. ASSUME NEW d \in Downloaders, DownloadStep(d)
        PROVE  InstallingIsBacked'
    <3>1. CASE DoDownload(d) \/ CurlError(d) \/ VerifyDownloadPkg(d)
      BY <3>1, FailedDownloadCleared
         DEF DoDownload, CurlError, VerifyDownloadPkg, SetTask
    <3>2. CASE OpenFile(d) \/ Transfer(d) \/ CurlDone(d)
      BY <3>2 DEF OpenFile, Transfer, CurlDone, SetTask
    <3>3. CASE OpenFails(d)
      BY <3>3, DownType DEF OpenFails, ProcessEnds
    <3>4. CASE DealAbnormal(d)
      BY <3>4, Cleared DEF DealAbnormal, DownloadCancelled
    <3> QED BY <2>2, <3>1, <3>2, <3>3, <3>4 DEF DownloadStep
  <2>3. ASSUME NEW i \in InstallThreads, Upgrade(i)
        PROVE  InstallingIsBacked'
    BY <2>3, Cleared DEF Upgrade, StartInstall, StartApply, ThreadType
  <2>4. ASSUME NEW i \in InstallThreads, InstallStep(i)
        PROVE  InstallingIsBacked'
    BY <2>4, InstallStepBacked
  <2>5. CASE ClearError \/ IdleExit \/ ProcessDies \/ DeviceReboots
    BY <2>5, Cleared, DownType
       DEF ClearError, IdleExit, ProcessDies, ProcessEnds, DeviceReboots, DeviceDown
  <2>6. CASE Start \/ RestoreUpdate \/ HandleBootComplete
    BY <2>6, Cleared
       DEF Start, RestoreUpdate, ReinstallOnBoot, HandleBootComplete
  <2>7. CASE \/ CheckAges \/ Cancel \/ TerminateUpgrade \/ NetChanged
             \/ LeaveRebootDuration \/ UNCHANGED vars
             \/ \E c \in Checkers : DoCheck(c)
             \/ \E d \in Downloaders : Download(d)
    BY <2>7
       DEF CheckAges, Cancel, TerminateUpgrade, NetChanged, LeaveRebootDuration,
           DoCheck, Download, vars
  <2>8. CASE LateProgress \/ LateResult
    BY <2>8 DEF LateProgress, LateResult, SetTask, NoWork, SysType
  <2> QED
    BY <2>1, <2>2, <2>3, <2>4, <2>5, <2>6, <2>7, <2>8 DEF Next, StartUp, InstallThreads
<1> QED BY TypeCorrect, <1>1, <1>2, PTL DEF Spec

\* The step of a thread that works is not one of nobody's, and no handler but the one
\* of the boot event takes an update away, for any number of threads
\* (HasUndoneTask, HandleBootUpdateOnStatusProcess).
THEOREM UpdateAlwaysAwaitsVerdict == Spec => UpdateAwaitsVerdict
<1>1. TypeOK /\ [Next]_vars =>
        [task = "UPDATING" /\ task' # "UPDATING" /\ NobodyWorks /\ stage # "off"
         => reason = "DEVICE_REBOOT" /\ stage = "booting" /\ stage' = "ready"]_vars
  <2> SUFFICES ASSUME TypeOK, [Next]_vars, task = "UPDATING", task' # "UPDATING",
                      NobodyWorks, stage # "off"
               PROVE  reason = "DEVICE_REBOOT" /\ stage = "booting" /\ stage' = "ready"
    OBVIOUS
  <2> USE DEF NobodyWorks, store
  <2>1. ~\E c \in Checkers : DoCheck(c) \/ \E answer \in Answers : CheckDone(c, answer)
    BY DEF DoCheck, CheckDone, HasUndoneTask
  <2>2. ~\E d \in Downloaders : Download(d) \/ DownloadStep(d)
    BY DEF Download, DownloadStep, DoDownload, OpenFile, OpenFails, DealAbnormal, Transfer,
           CurlError, CurlDone, VerifyDownloadPkg
  <2>3. ~\E i \in InstallThreads : Upgrade(i)
    BY DEF Upgrade, CanInstall
  <2>4. ~\E i \in InstallThreads : InstallStep(i)
    BY DEF InstallStep, DoInstall, SysOngoing, SysSuccess, SysFail, Waiting, WaitInstallResult,
           InstallTimeout, RebootAndInstall, RebootReturns, DoApply, DoReboot
  <2>5. ~(LateProgress \/ LateResult \/ ClearError \/ IdleExit \/ ProcessDies \/ DeviceReboots)
    BY DEF LateProgress, LateResult, ClearError, IsUpgradeFailed, IdleExit, IsIdle, ProcessDies,
           DeviceReboots, DeviceDown
  <2>6. ~(CheckAges \/ Cancel \/ TerminateUpgrade \/ NetChanged \/ LeaveRebootDuration
          \/ UNCHANGED vars)
    BY DEF CheckAges, Cancel, TerminateUpgrade, NetChanged, LeaveRebootDuration, vars
  <2>7. ~(Start \/ RestoreUpdate)
    BY DEF Start, RestoreUpdate
  <2>8. HandleBootComplete
    BY <2>1, <2>2, <2>3, <2>4, <2>5, <2>6, <2>7 DEF Next, StartUp, InstallThreads
  <2> QED BY <2>8 DEF HandleBootComplete
<1> QED BY TypeCorrect, <1>1, PTL DEF Spec, UpdateAwaitsVerdict

(****************************************************************************)
(* The package file.  What follows is about a server that offers one        *)
(* version: HandleNewVersion may replace the version under a download       *)
(* thread that has read it and not yet opened its file.                     *)
(****************************************************************************)

OneVersion    == \A v, w \in Versions : v = w
OneDownloader == \A d, e \in Downloaders : d = e

\* A task is a task for a version, and a thread at work has read it.
VersionIsKnown ==
    /\ task # "NONE" => comp # NoVersion
    /\ \A d \in Downloaders :
         dl[d].pc \in {"opening", "transfer", "verify"} => dl[d].ver \in Versions

\* The file holds the package of a version as far as it goes, and the thread that has it
\* open has received as much.
FileIsPrefix ==
    /\ \A d \in linked : dl[d].pc = "transfer" /\ dl[d].pos = file.len
    /\ file.len > 0 => file.of \in Versions

\* A step that concerns neither the package nor a download, unless it clears everything or
\* ends all threads.
QuietStep ==
    /\ \/ ClearFirmwareInfo
       \/ /\ UNCHANGED <<comp, file>> /\ linked' \subseteq linked
          /\ task = "NONE" <=> task' = "NONE"
          /\ task' = "DOWNLOAD_SUCCESS" => task = "DOWNLOAD_SUCCESS" \/ stage' # stage
    /\ \/ dl' = dl
       \/ dl' = [d \in Downloaders |-> IdleDownload] /\ linked' = {}

\* Every step is one of a download thread, a new version or quiet (Next).
LEMMA StepKinds ==
    ASSUME TypeOK, [Next]_vars
    PROVE  \/ QuietStep
           \/ \E d \in Downloaders : Download(d) \/ DownloadStep(d)
           \/ \E v \in Versions : HandleNewVersion(v) /\ comp # v /\ UNCHANGED dl
<1> USE DEF QuietStep, store, threads
<1>1. ASSUME NEW c \in Checkers, NEW answer \in Answers, CheckDone(c, answer)
      PROVE  \/ QuietStep
             \/ \E v \in Versions : HandleNewVersion(v) /\ comp # v /\ UNCHANGED dl
  BY <1>1 DEF CheckDone, Answers, HandleNewVersion
<1>2. ASSUME NEW i \in InstallThreads, Upgrade(i) \/ InstallStep(i)
      PROVE  QuietStep
  <2>1. CASE Upgrade(i)
    BY <2>1 DEF Upgrade, StartInstall, StartApply
  <2>2. CASE DoInstall(i)
    BY <2>2 DEF DoInstall, SetTask
  <2>3. CASE SysOngoing(i) \/ SysSuccess(i) \/ SysFail(i)
    BY <2>3 DEF SysOngoing, SysSuccess, SysFail, SetTask
  <2>4. CASE WaitInstallResult(i) \/ InstallTimeout(i)
    BY <2>4 DEF WaitInstallResult, InstallTimeout, SetTask
  <2>5. CASE RebootAndInstall(i) \/ RebootReturns(i)
    BY <2>5 DEF RebootAndInstall, RebootReturns
  <2>6. CASE DoApply(i) \/ DoReboot(i)
    BY <2>6 DEF DoApply, DoReboot, DeviceDown, ProcessDown, SetTask
  <2> QED BY <1>2, <2>1, <2>2, <2>3, <2>4, <2>5, <2>6 DEF InstallStep
<1>3. CASE ClearError \/ IdleExit \/ ProcessDies \/ DeviceReboots
  BY <1>3 DEF ClearError, IdleExit, ProcessDies, ProcessEnds, DeviceReboots, DeviceDown, ProcessDown
<1>4. CASE Start \/ RestoreUpdate \/ HandleBootComplete
  BY <1>4 DEF Start, RestoreUpdate, ReinstallOnBoot, HandleBootComplete
<1>5. CASE \/ CheckAges \/ Cancel \/ TerminateUpgrade \/ NetChanged
           \/ LeaveRebootDuration \/ UNCHANGED vars
           \/ \E c \in Checkers : DoCheck(c)
  BY <1>5
     DEF CheckAges, Cancel, TerminateUpgrade, NetChanged, LeaveRebootDuration, DoCheck, vars
<1>6. CASE LateProgress \/ LateResult
  BY <1>6 DEF LateProgress, LateResult, SetTask
<1> QED
  BY <1>1, <1>2, <1>3, <1>4, <1>5, <1>6 DEF Next, StartUp, InstallThreads

\* No step leaves a task without a version, or a download thread at work without one
\* (ClearFirmwareInfo, DoDownload).
LEMMA VersionStaysKnown ==
    ASSUME TypeOK, VersionIsKnown, [Next]_vars
    PROVE  VersionIsKnown'
<1> USE VersionsAssumption DEF TypeOK, VersionIsKnown, store
<1>1. CASE QuietStep
  BY <1>1 DEF QuietStep, ClearFirmwareInfo, IdleDownload
<1>2. CASE \E v \in Versions : HandleNewVersion(v) /\ comp # v /\ UNCHANGED dl
  BY <1>2 DEF HandleNewVersion
<1>3. ASSUME NEW d \in Downloaders, Download(d) \/ DownloadStep(d)
      PROVE  VersionIsKnown'
  <2>1. CASE Download(d)
    BY <2>1 DEF Download, ThreadType
  <2>2. CASE DoDownload(d)
    BY <2>2 DEF DoDownload, SetTask, DownloadFailed, ClearFirmwareInfo, DeleteDownloadFiles,
                EndDownload, IdleDownload, Ready, StoreType, ThreadType
  <2>3. CASE OpenFile(d) \/ CurlDone(d)
    BY <2>3 DEF OpenFile, CurlDone, ThreadType
  <2>4. CASE OpenFails(d)
    BY <2>4 DEF OpenFails, ProcessEnds, ProcessDown, EndDownload, IdleDownload, ThreadType
  <2>5. CASE DealAbnormal(d)
    BY <2>5 DEF DealAbnormal, DownloadCancelled, ClearFirmwareInfo, EndDownload, IdleDownload, ThreadType
  <2>6. CASE Transfer(d)
    BY <2>6 DEF Transfer, SetTask, ThreadType
  <2>7. CASE CurlError(d) \/ VerifyDownloadPkg(d)
    BY <2>7 DEF CurlError, VerifyDownloadPkg, DownloadFailed, ClearFirmwareInfo, SetTask,
                EndDownload, IdleDownload, ThreadType
  <2> QED BY <1>3, <2>1, <2>2, <2>3, <2>4, <2>5, <2>6, <2>7 DEF DownloadStep
<1> QED BY <1>1, <1>2, <1>3, StepKinds

\* One download thread at a time appends to the file what follows what is there
\* (OpenFile, Transfer).
LEMMA FileStaysPrefix ==
    ASSUME OneVersion, OneDownloader, TypeOK, VersionIsKnown, FileIsPrefix, [Next]_vars
    PROVE  FileIsPrefix'
<1> USE VersionsAssumption DEF TypeOK, FileIsPrefix, store
<1>1. CASE QuietStep
  BY <1>1 DEF QuietStep, ClearFirmwareInfo, DeleteDownloadFiles, NoFile, StoreType
<1>2. CASE \E v \in Versions : HandleNewVersion(v) /\ comp # v /\ UNCHANGED dl
  BY <1>2 DEF HandleNewVersion, DeleteDownloadFiles, NoFile
<1>3. ASSUME NEW d \in Downloaders, Download(d) \/ DownloadStep(d)
      PROVE  FileIsPrefix'
  <2>0. \A e \in linked : e = d
    BY DEF OneDownloader, StoreType
  <2>1. CASE Download(d)
    BY <2>0, <2>1 DEF Download, ThreadType
  <2>2. CASE DoDownload(d)
    BY <2>0, <2>2 DEF DoDownload, DownloadFailed, ClearFirmwareInfo, DeleteDownloadFiles, NoFile
  <2>3. CASE OpenFile(d)
    BY <2>0, <2>3 DEF OpenFile, StoreType, ThreadType
  <2>4. CASE OpenFails(d)
    BY <2>4 DEF OpenFails, DeleteDownloadFiles, NoFile
  <2>5. CASE DealAbnormal(d)
    BY <2>0, <2>5 DEF DealAbnormal, DownloadCancelled, ClearFirmwareInfo, DeleteDownloadFiles, NoFile
  <2>6. CASE Transfer(d)
    <3>1. dl'[d].pos = dl[d].pos + 1 /\ dl'[d].pc = "transfer" /\ linked' = linked
      BY <2>6 DEF Transfer, ThreadType
    <3>2. CASE d \notin linked
      BY <2>0, <2>6, <3>2 DEF Transfer
    <3>3. CASE d \in linked
      <4>1. /\ file' = Appended(dl[d].ver, dl[d].pos) /\ dl[d].pos = file.len
            /\ dl[d].ver \in Versions /\ file.len \in Nat
        BY <2>6, <3>3 DEF Transfer, VersionIsKnown, StoreType
      <4>2. file.len = 0 \/ file.of = dl[d].ver
        BY <4>1 DEF OneVersion
      <4>3. file'.len = file.len + 1 /\ file'.of = dl[d].ver
        BY <4>1, <4>2 DEF Appended
      <4> QED BY <2>0, <3>1, <4>1, <4>3
    <3> QED BY <3>2, <3>3
  <2>7. CASE CurlDone(d)
    BY <2>0, <2>7 DEF CurlDone
  <2>8. CASE CurlError(d) \/ VerifyDownloadPkg(d)
    BY <2>0, <2>8 DEF CurlError, VerifyDownloadPkg, DownloadFailed, ClearFirmwareInfo,
                      DeleteDownloadFiles, NoFile
  <2> QED BY <1>3, <2>1, <2>2, <2>3, <2>4, <2>5, <2>6, <2>7, <2>8 DEF DownloadStep
<1> QED BY <1>1, <1>2, <1>3, StepKinds

\* The version of a task and of a thread is known from the start on (Init).
LEMMA PackageInit == Init => VersionIsKnown /\ FileIsPrefix
BY DEF Init, VersionIsKnown, FileIsPrefix, NoFile, IdleDownload

\* With one version on offer and one download at a time, whatever crashes, cancels, failures
\* and retries come between its parts, the file is a prefix of that version's package
\* (OpenFile, DealAbnormal).
THEOREM ResumedAlwaysIntact ==
    ASSUME OneVersion, OneDownloader
    PROVE  Spec => []ResumedPackageIsIntact
<1>1. TypeOK /\ VersionIsKnown /\ FileIsPrefix /\ [Next]_vars => (VersionIsKnown /\ FileIsPrefix)'
  BY VersionStaysKnown, FileStaysPrefix
<1>2. TypeOK /\ FileIsPrefix => ResumedPackageIsIntact
  BY DEF TypeOK, StoreType, FileIsPrefix, OneVersion, ResumedPackageIsIntact
<1> QED BY TypeCorrect, PackageInit, <1>1, <1>2, PTL DEF Spec

\* With one version on offer and any number of concurrent downloads, DOWNLOAD_SUCCESS is
\* reported for the verified package of the version in the component table, or for one that
\* has no digest (VerifyDownloadPkg, DoDownload).
THEOREM DownloadedAlwaysVerified ==
    ASSUME OneVersion
    PROVE  Spec => DownloadedIsVerified
<1>1. TypeOK /\ VersionIsKnown /\ [Next]_vars => VersionIsKnown'
  BY VersionStaysKnown
<1>2. TypeOK /\ VersionIsKnown /\ [Next]_vars =>
        [task # "DOWNLOAD_SUCCESS" /\ task' = "DOWNLOAD_SUCCESS" /\ stage' = stage
         => Passes(comp)']_vars
  <2> SUFFICES ASSUME TypeOK, VersionIsKnown, [Next]_vars,
                      task # "DOWNLOAD_SUCCESS", task' = "DOWNLOAD_SUCCESS", stage' = stage
               PROVE  Passes(comp)'
    OBVIOUS
  <2> USE DEF world, Passes
  <2>1. ~QuietStep
    BY DEF QuietStep, ClearFirmwareInfo
  <2>2. \A v : ~(HandleNewVersion(v) /\ comp # v)
    BY DEF HandleNewVersion
  <2>3. PICK d \in Downloaders : Download(d) \/ DownloadStep(d)
    BY <2>1, <2>2, StepKinds
  <2>4. CASE DoDownload(d)
    BY <2>4 DEF DoDownload, DownloadFailed, ClearFirmwareInfo, store, Sha256Matches, Ready
  <2>5. CASE VerifyDownloadPkg(d)
    <3>1. /\ Passes(dl[d].ver) /\ comp' = comp /\ file' = file /\ task # "NONE"
          /\ dl[d].pc = "verify" /\ digested' = digested
      BY <2>5 DEF VerifyDownloadPkg, DownloadFailed, ClearFirmwareInfo, SetTask
    <3>2. comp \in Versions /\ dl[d].ver \in Versions
      BY <3>1 DEF VersionIsKnown, TypeOK, StoreType
    <3> QED BY <3>1, <3>2 DEF OneVersion, Sha256Matches, Ready
  <2>6. ~(Download(d) \/ OpenFile(d) \/ OpenFails(d) \/ DealAbnormal(d) \/ Transfer(d)
          \/ CurlError(d) \/ CurlDone(d))
    BY DEF Download, OpenFile, OpenFails, DealAbnormal, DownloadCancelled, Transfer, CurlError,
           CurlDone, DownloadFailed, ClearFirmwareInfo, SetTask, store
  <2> QED BY <2>3, <2>4, <2>5, <2>6 DEF DownloadStep
<1> QED BY TypeCorrect, PackageInit, <1>1, <1>2, PTL DEF Spec, DownloadedIsVerified

(****************************************************************************)
(* The refinement of UpgradeLifecycle, under the same two hypotheses: with  *)
(* two versions on offer the file may hold another one's package, and be    *)
(* handed over for it.                                                      *)
(****************************************************************************)

\* A step of the lifecycle, or none.
LifeStep == Life!LifeNext \/ UNCHANGED Life!lifeVars

\* A version in the component table has a task (HandleNewVersion, ClearFirmwareInfo).
VersionHasTask == comp # NoVersion => task # "NONE"

\* The system installer is left with nothing, or with what it was left with.
SameLate == late' \in {late, NoWork}

\* Nothing is left of a task that is cleared (ClearFirmwareInfo).
LEMMA ClearedIsCleared ==
    ASSUME ClearFirmwareInfo
    PROVE  Life!Cleared
BY DEF ClearFirmwareInfo, Life!Cleared, LifePackage

\* Nor after a failed download, which without a task finds no version
\* (DownloadFailProcess).
LEMMA FailedIsCleared ==
    ASSUME VersionHasTask, DownloadFailed
    PROVE  Life!Cleared
BY ClearedIsCleared DEF VersionHasTask, DownloadFailed, Life!Cleared, LifePackage

\* The offer is in the tables and the file (FirmwareManager's store).
LEMMA SameOffer ==
    ASSUME UNCHANGED <<task, comp, file>>
    PROVE  UNCHANGED Life!offer
BY DEF Life!offer, LifePackage, Sha256Matches, Ready

\* The status is not part of the package.
LEMMA SamePackage ==
    ASSUME UNCHANGED <<comp, file>>
    PROVE  comp' = comp /\ LifePackage' = LifePackage
BY DEF LifePackage, Sha256Matches, Ready

LEMMA SameService == stage' = stage => LifeService' = LifeService
BY DEF LifeService

\* What is handed over is in the install threads, or left to the system installer
\* (DoInstall, InstallTimeout).
LEMMA SameHanded == ins' = ins /\ late' = late => LifeHanded' = LifeHanded
BY DEF LifeHanded

\* A thread that ends, or was at work on nothing, takes no one's package back but its own.
LEMMA EndedHanded ==
    ASSUME TypeOK, NEW i \in InstallThreads, EndInstall(i), SameLate
    PROVE  LifeHanded' \subseteq LifeHanded
BY DEF TypeOK, ThreadType, EndInstall, IdleInstall, SameLate, NoWork, HandedPc, LifeHanded

\* A thread that gives up leaves its package to the system installer (InstallTimeout).
LEMMA LeftHanded ==
    ASSUME TypeOK, NEW i \in InstallThreads, EndInstall(i), Waiting(i), late'.ver = ins[i].ver
    PROVE  LifeHanded' \subseteq LifeHanded
BY DEF TypeOK, ThreadType, EndInstall, IdleInstall, Waiting, HandedPc, LifeHanded

\* A thread that goes on with the same version.
LEMMA MovedHanded ==
    ASSUME TypeOK, NEW i \in InstallThreads, NEW pc,
           ins' = [ins EXCEPT ![i].pc = pc],
           pc \in HandedPc <=> ins[i].pc \in HandedPc,
           late' = late
    PROVE  LifeHanded' = LifeHanded
<1>1. \A j \in InstallThreads :
          /\ ins'[j].ver = ins[j].ver
          /\ ins'[j].pc \in HandedPc <=> ins[j].pc \in HandedPc
  BY DEF TypeOK, ThreadType
<1> QED BY <1>1 DEF LifeHanded, HandedPc

\* A thread that hands its package over (DoInstall).
LEMMA GivenHanded ==
    ASSUME TypeOK, NEW i \in InstallThreads, NEW pc \in HandedPc,
           ins' = [ins EXCEPT ![i].pc = pc, ![i].ver = comp],
           ins[i].pc \notin HandedPc, SameLate
    PROVE  comp \in LifeHanded' /\ LifeHanded' \subseteq LifeHanded \cup {comp}
<1> DEFINE Handed(v) == \/ \E j \in InstallThreads : ins[j].pc \in HandedPc /\ ins[j].ver = v
                        \/ v = late.ver /\ v # NoVersion
<1>1. /\ ins'[i].pc \in HandedPc /\ ins'[i].ver = comp
      /\ \A j \in InstallThreads \ {i} : ins'[j] = ins[j]
  BY DEF TypeOK, ThreadType
<1>2. \A v : v \in LifeHanded <=> Handed(v)
  BY DEF LifeHanded
<1>3. \A v : v \in LifeHanded' <=> Handed(v)'
  BY DEF LifeHanded
<1>4. late'.ver = late.ver \/ late'.ver = NoVersion
  BY DEF SameLate, NoWork
<1>5. \A v : v = comp => Handed(v)'
  BY <1>1
<1>6. \A v : Handed(v)' => Handed(v) \/ v = comp
  BY <1>1, <1>4
<1> QED BY <1>2, <1>3, <1>5, <1>6

LEMMA NoneHanded == ProcessDown => LifeHanded' = {} /\ LifeService' = "down"
BY DEF ProcessDown, LifeHanded, LifeService, IdleInstall, NoWork, HandedPc

\* What comes of the work the system installer goes on with was handed over (ProcessDies).
LEMMA EndOfLife ==
    ASSUME ProcessEnds
    PROVE  slot' \in {slot} \cup LifeHanded /\ running' = running
BY DEF ProcessEnds, AtWork, Waiting, LifeHanded, HandedPc

LifeInv == TypeOK /\ VersionIsKnown /\ VersionHasTask /\ FileIsPrefix

\* No step takes the task and leaves its version (ClearFirmwareInfo).
LEMMA VersionKeepsTask ==
    ASSUME TypeOK, VersionHasTask, [Next]_vars
    PROVE  VersionHasTask'
<1> USE VersionsAssumption DEF VersionHasTask, store
<1>1. CASE QuietStep
  BY <1>1 DEF QuietStep, ClearFirmwareInfo
<1>2. CASE \E v \in Versions : HandleNewVersion(v) /\ comp # v /\ UNCHANGED dl
  BY <1>2 DEF HandleNewVersion
<1>3. ASSUME NEW d \in Downloaders, Download(d) \/ DownloadStep(d)
      PROVE  VersionHasTask'
  <2>1. CASE Download(d) \/ OpenFile(d) \/ CurlDone(d) \/ Transfer(d)
    BY <2>1 DEF Download, OpenFile, CurlDone, Transfer, SetTask
  <2>2. CASE DoDownload(d) \/ CurlError(d) \/ VerifyDownloadPkg(d)
    BY <2>2 DEF DoDownload, CurlError, VerifyDownloadPkg, SetTask, DownloadFailed, ClearFirmwareInfo
  <2>3. CASE OpenFails(d) \/ DealAbnormal(d)
    BY <2>3 DEF OpenFails, DealAbnormal, DownloadCancelled, ClearFirmwareInfo
  <2> QED BY <1>3, <2>1, <2>2, <2>3 DEF DownloadStep
<1> QED BY <1>1, <1>2, <1>3, StepKinds

\* A package that is ready is whole (IsUpgradePackagesReady).
LEMMA ReadyIsWhole ==
    ASSUME OneVersion, LifeInv, Ready(comp)
    PROVE  LifePackage = "whole" /\ comp \in Versions /\ task # "NONE"
<1>1. comp \in Versions /\ file.len = Size[comp] /\ file.len > 0
  BY SizeAssumption DEF LifeInv, TypeOK, StoreType, Ready
<1>2. file.of = comp
  BY <1>1 DEF LifeInv, FileIsPrefix, OneVersion
<1> QED BY <1>1, <1>2, VersionsAssumption
        DEF LifeInv, VersionHasTask, LifePackage, Sha256Matches, Ready

\* A download thread's step (DownloadThread, DownloadCallback).
LEMMA DownloadStepLife ==
    ASSUME OneVersion, LifeInv, LifeInv', NEW d \in Downloaders, DownloadStep(d)
    PROVE  LifeStep
<1> USE DEF LifeInv, LifeStep, Life!LifeNext, Life!device, store, device, process, world, flags
<1> DEFINE Rest == /\ stage' = stage /\ ins' = ins /\ running' = running /\ slot' = slot
                   /\ late' = late /\ digested' = digested
<1>a. Rest => /\ UNCHANGED Life!device /\ LifeHanded' = LifeHanded /\ LifeService' = LifeService
  BY SameHanded, SameService
<1>b. Rest /\ UNCHANGED <<task, comp, file>> => UNCHANGED Life!lifeVars
  BY <1>a, SameOffer DEF Life!lifeVars
<1>c. Rest /\ Life!Cleared => Life!Withdraw
  BY <1>a DEF Life!Withdraw
<1>1. CASE DoDownload(d)
  <2>1. Rest
    BY <1>1 DEF DoDownload
  <2>2. CASE UNCHANGED <<task, comp, file>>
    BY <2>1, <2>2, <1>b
  <2>3. CASE DownloadFailed
    BY <2>1, <2>3, <1>c, FailedIsCleared
  <2>4. CASE Ready(comp) /\ task' = SetTask("DOWNLOAD_SUCCESS") /\ UNCHANGED <<comp, file>>
    <3>1. LifePackage = "whole" /\ task # "NONE"
      BY <2>4, ReadyIsWhole
    <3> QED BY <3>1, <2>1, <2>4, <1>a, SamePackage DEF Life!Verified, Life!Report, SetTask
  <2> QED BY <1>1, <2>2, <2>3, <2>4 DEF DoDownload
<1>2. CASE OpenFile(d) \/ CurlDone(d)
  BY <1>2, <1>b DEF OpenFile, CurlDone, threads
<1>3. CASE OpenFails(d)
  <2>1. CASE task = "NONE"
    <3>1. UNCHANGED <<task, comp>> /\ Rest /\ comp = NoVersion
      BY <1>3, <2>1 DEF OpenFails, VersionHasTask, ProcessDown
    <3>2. UNCHANGED Life!offer
      BY <3>1 DEF Life!offer, LifePackage
    <3> QED BY <3>1, <3>2, <1>a DEF Life!lifeVars
  <2>2. CASE task # "NONE"
    <3>1. /\ ProcessDown /\ task' = "DOWNLOAD_FAIL" /\ comp' = comp
          /\ file' = NoFile /\ running' = running /\ slot' \in {slot} \cup LifeHanded
          /\ digested' = digested
      BY <1>3, <2>2, EndOfLife DEF OpenFails, DeleteDownloadFiles, ProcessEnds, ProcessDown
    <3>2. LifePackage' = "none"
      BY <3>1 DEF LifePackage, NoFile
    <3> QED BY <2>2, <3>1, <3>2, NoneHanded DEF Life!Down
  <2> QED BY <2>1, <2>2
<1>4. CASE DealAbnormal(d)
  <2>1. Rest
    BY <1>4 DEF DealAbnormal
  <2>2. CASE task = "NONE"
    BY <1>4, <2>1, <2>2, <1>b DEF DealAbnormal
  <2>3. CASE ClearFirmwareInfo
    BY <2>1, <2>3, <1>c, ClearedIsCleared
  <2>4. CASE task # "NONE" /\ DownloadCancelled
    <3>1. LifePackage' = "none"
      BY <2>4 DEF DownloadCancelled, DeleteDownloadFiles, NoFile, LifePackage
    <3> QED BY <2>1, <2>4, <3>1, <1>a DEF DownloadCancelled, Life!Cancelled
  <2> QED BY <1>4, <2>2, <2>3, <2>4 DEF DealAbnormal
<1>5. CASE Transfer(d)
  <2>1. Rest /\ comp' = comp
    BY <1>5 DEF Transfer, threads
  <2>2. CASE comp = NoVersion
    <3>1. task' = task
      BY <1>5, <2>2 DEF Transfer, SetTask, VersionHasTask, VersionIsKnown
    <3>2. UNCHANGED Life!offer
      BY <2>1, <2>2, <3>1 DEF Life!offer, LifePackage
    <3> QED BY <2>1, <3>2, <1>a DEF Life!lifeVars
  <2>3. CASE comp # NoVersion
    <3>1. task # "NONE" /\ task' \in {task, "DOWNLOADING"}
      BY <1>5, <2>3 DEF Transfer, SetTask, VersionHasTask
    <3>2. CASE d \notin linked
      <4>1. file' = file
        BY <1>5, <3>2 DEF Transfer
      <4> QED BY <2>1, <3>1, <4>1, <1>a, SamePackage DEF Life!Fetch
    <3>3. CASE d \in linked
      <4>1. /\ dl[d].pos = file.len /\ file.len < Size[dl[d].ver]
            /\ dl[d].ver = comp /\ file.len \in Nat
            /\ file' = Appended(comp, file.len)
        BY <1>5, <2>3, <3>3
           DEF Transfer, FileIsPrefix, VersionIsKnown, OneVersion, TypeOK, StoreType
      <4>2. LifePackage # "whole"
        BY <4>1, SizeAssumption DEF LifePackage, Sha256Matches, Ready, TypeOK, StoreType
      <4>3. file'.len = file.len + 1
        BY <4>1 DEF Appended
      <4>4. LifePackage' \in {"part", "whole"}
        BY <2>1, <2>3, <4>1, <4>3 DEF LifePackage
      <4> QED BY <2>1, <3>1, <4>2, <4>4, <1>a DEF Life!Fetch
    <3> QED BY <3>2, <3>3
  <2> QED BY <2>2, <2>3
<1>6. CASE CurlError(d)
  BY <1>6, <1>c, FailedIsCleared DEF CurlError
<1>7. CASE VerifyDownloadPkg(d)
  <2>1. Rest
    BY <1>7 DEF VerifyDownloadPkg
  <2>2. CASE DownloadFailed
    BY <2>1, <2>2, <1>c, FailedIsCleared
  <2>3. CASE /\ Passes(dl[d].ver) /\ task' = SetTask("DOWNLOAD_SUCCESS")
             /\ UNCHANGED <<comp, file>>
    <3>1. CASE task = "NONE"
      BY <2>1, <2>3, <3>1, <1>b DEF SetTask
    <3>2. CASE task # "NONE"
      <4>1. dl[d].ver = comp
        BY <1>7, <3>2 DEF VerifyDownloadPkg, VersionIsKnown, OneVersion, TypeOK, StoreType
      <4>2. comp \in digested => LifePackage = "whole"
        BY <2>3, <4>1, ReadyIsWhole DEF Passes, Sha256Matches
      <4> QED BY <2>1, <2>3, <3>2, <4>2, <1>a, SamePackage DEF Life!Verified, Life!Report, SetTask
    <3> QED BY <3>1, <3>2
  <2> QED BY <1>7, <2>2, <2>3 DEF VerifyDownloadPkg
<1> QED
  BY <1>1, <1>2, <1>3, <1>4, <1>5, <1>6, <1>7 DEF DownloadStep

\* An install or apply thread's step (InstallExecutor, InstallApplyExecutor).
LEMMA InstallStepLife ==
    ASSUME OneVersion, LifeInv, NEW i \in InstallThreads, Upgrade(i) \/ InstallStep(i)
    PROVE  LifeStep
<1> USE DEF LifeInv, LifeStep, Life!LifeNext, Life!device, store, device, process, world, flags, HandedPc
<1> DEFINE Rest == /\ stage' = stage /\ running' = running /\ LifeHanded' \subseteq LifeHanded
                   /\ digested' = digested
<1>a. stage' = stage => LifeService' = LifeService
  BY SameService
<1>b. Rest /\ slot' = slot /\ UNCHANGED <<task, comp, file>> => Life!Finish
  BY <1>a, SameOffer DEF Life!Finish
<1>c. Rest /\ slot' = slot /\ Life!Cleared => Life!Withdraw
  BY <1>a DEF Life!Withdraw
<1>1. CASE Upgrade(i)
  <2>1. CASE ClearFirmwareInfo /\ UNCHANGED ins
    BY <1>1, <2>1, <1>c, ClearedIsCleared, SameHanded DEF Upgrade
  <2>2. CASE \/ StartApply(i)
             \/ StartInstall(i) /\ ins' = [ins EXCEPT ![i].pc = "spawned"] /\ UNCHANGED store
    <3>1. LifeHanded' = LifeHanded
      <4>1. PICK pc \in {"spawned", "apply"} : ins' = [ins EXCEPT ![i].pc = pc]
        BY <2>2 DEF StartApply
      <4> QED BY <1>1, <4>1, MovedHanded DEF Upgrade
    <3> QED BY <1>1, <2>2, <3>1, <1>b DEF Upgrade, StartApply
  <2> QED BY <1>1, <2>1, <2>2 DEF Upgrade, StartInstall
<1>2. CASE DoInstall(i)
  <2>1. CASE ClearFirmwareInfo
    <3>1. EndInstall(i)
      BY <1>2, <2>1 DEF DoInstall, ClearFirmwareInfo, Ready
    <3> QED BY <1>2, <2>1, <3>1, <1>c, ClearedIsCleared, EndedHanded DEF DoInstall, SameLate
  <2>2. ASSUME NEW pc \in {"sysinst", "reboot"}, NEW s \in {"INSTALLING", "UPDATING"},
               Ready(comp), task' = SetTask(s), UNCHANGED <<comp, file>>,
               ins' = [ins EXCEPT ![i].pc = pc, ![i].ver = comp], SameLate
        PROVE  Life!HandOver
    <3>1. comp \in LifeHanded' /\ LifeHanded' \subseteq LifeHanded \cup {comp}
      BY <1>2, <2>2, GivenHanded DEF DoInstall
    <3>2. LifePackage = "whole" /\ task # "NONE"
      BY <2>2, ReadyIsWhole
    <3> QED BY <1>2, <2>2, <3>1, <3>2, <1>a, SamePackage
            DEF DoInstall, SetTask, Life!HandOver, Life!Report
  <2>3. digested' = digested
    BY <1>2 DEF DoInstall
  <2> QED BY <1>2, <2>1, <2>2, <2>3 DEF DoInstall, SameLate
<1>3. CASE SysOngoing(i)
  <2>1. /\ UNCHANGED <<comp, file>> /\ Rest /\ slot' = slot /\ ins[i].ver \in LifeHanded
    BY <1>3, SameHanded DEF SysOngoing, Waiting, threads, LifeHanded
  <2>2. CASE task = "NONE"
    BY <1>3, <2>1, <2>2, <1>b DEF SysOngoing, SetTask
  <2>3. CASE task # "NONE"
    BY <1>3, <2>1, <2>3, <1>a, SamePackage
       DEF SysOngoing, SetTask, Life!Installing, Life!Report
  <2> QED BY <2>2, <2>3
<1>4. CASE SysSuccess(i)
  <2>1. /\ stage' = stage /\ running' = running /\ slot' = ins[i].ver
        /\ LifeHanded' = LifeHanded /\ ins[i].ver \in LifeHanded /\ digested' = digested
    BY <1>4, MovedHanded DEF SysSuccess, Waiting, LifeHanded
  <2>2. CASE ClearFirmwareInfo
    BY <2>1, <2>2, <1>a, ClearedIsCleared DEF Life!SetNext
  <2>3. CASE task # "NONE" /\ task' = "INSTALL_SUCCESS" /\ UNCHANGED <<comp, file>>
    BY <2>1, <2>3, <1>a, SamePackage DEF Life!SetNext, Life!Report
  <2> QED BY <1>4, <2>2, <2>3 DEF SysSuccess
<1>5. CASE SysFail(i)
  BY <1>5, <1>c, ClearedIsCleared, MovedHanded DEF SysFail, Waiting
<1>6. CASE WaitInstallResult(i)
  <2>1. Rest /\ slot' = slot /\ UNCHANGED <<comp, file>> /\ ins[i].ver \in LifeHanded
    BY <1>6, EndedHanded DEF WaitInstallResult, LifeHanded, SameLate
  <2>2. CASE task = "NONE"
    BY <1>6, <2>1, <2>2, <1>b DEF WaitInstallResult, SetTask
  <2>3. CASE task # "NONE"
    BY <1>6, <2>1, <2>3, <1>a, SamePackage
       DEF WaitInstallResult, SetTask, Life!Installing, Life!Report
  <2> QED BY <2>2, <2>3
<1>7. CASE InstallTimeout(i)
  BY <1>7, <1>c, ClearedIsCleared, LeftHanded DEF InstallTimeout
<1>8. CASE RebootAndInstall(i)
  <2>1. CASE ClearFirmwareInfo /\ EndInstall(i) /\ slot' = slot
    BY <1>8, <2>1, <1>c, ClearedIsCleared, EndedHanded DEF RebootAndInstall, SameLate
  <2>2. CASE /\ slot' = ins[i].ver /\ UNCHANGED store
             /\ ins' = [ins EXCEPT ![i].pc = "rebooting"]
    <3>1. LifeHanded' = LifeHanded /\ ins[i].ver \in LifeHanded
      BY <1>8, <2>2, MovedHanded DEF RebootAndInstall, LifeHanded
    <3> QED BY <1>8, <2>2, <3>1, <1>a, SameOffer DEF RebootAndInstall, Life!SetNext
  <2> QED BY <1>8, <2>1, <2>2 DEF RebootAndInstall
<1>9. CASE RebootReturns(i)
  <2>1. Rest /\ slot' = slot /\ ins[i].ver \in LifeHanded
    BY <1>9, EndedHanded DEF RebootReturns, LifeHanded, SameLate
  <2>2. CASE ClearFirmwareInfo
    BY <2>1, <2>2, <1>c, ClearedIsCleared
  <2>3. CASE task # "NONE" /\ task' = "INSTALL_SUCCESS" /\ UNCHANGED <<comp, file>>
    BY <2>1, <2>3, <1>a, SamePackage DEF Life!Installing, Life!Report
  <2> QED BY <1>9, <2>2, <2>3 DEF RebootReturns
<1>10. CASE DoApply(i)
  <2>1. CASE EndInstall(i) /\ UNCHANGED store
    BY <1>10, <2>1, <1>b, EndedHanded DEF DoApply, SameLate
  <2>2. CASE /\ comp # NoVersion /\ task' = SetTask("UPDATING") /\ UNCHANGED <<comp, file>>
             /\ ins' = [ins EXCEPT ![i].pc = "applied"]
    <3>1. LifeHanded' = LifeHanded
      BY <1>10, <2>2, MovedHanded DEF DoApply
    <3> QED BY <1>10, <2>2, <3>1, <1>a, SamePackage
            DEF DoApply, SetTask, VersionHasTask, Life!Apply, Life!Report
  <2> QED BY <1>10, <2>1, <2>2 DEF DoApply
<1>11. CASE DoReboot(i)
  <2>1. CASE DeviceDown
    BY <2>1, NoneHanded, SameOffer DEF DeviceDown, ProcessDown, Life!Reboot
  <2>2. CASE EndInstall(i) /\ UNCHANGED <<store, device, process, world>>
    BY <2>2, <1>b, EndedHanded DEF SameLate
  <2> QED BY <1>11, <2>1, <2>2 DEF DoReboot
<1> QED
  BY <1>1, <1>2, <1>3, <1>4, <1>5, <1>6, <1>7, <1>8, <1>9, <1>10, <1>11 DEF InstallStep

\* Every step of the upgrade is one of its life, or shows nothing of it.
LEMMA StepOfLife ==
    ASSUME OneVersion, LifeInv, LifeInv', [Next]_vars
    PROVE  LifeStep
<1> USE DEF LifeStep, Life!LifeNext, Life!device, store, device, process, world, flags, threads
<1> DEFINE Rest == /\ stage' = stage /\ ins' = ins /\ running' = running /\ slot' = slot
                   /\ late' = late /\ digested' = digested
<1>a. Rest => /\ UNCHANGED Life!device /\ LifeHanded' = LifeHanded /\ LifeService' = LifeService
  BY SameHanded, SameService
<1>b. Rest /\ UNCHANGED <<task, comp, file>> => UNCHANGED Life!lifeVars
  BY <1>a, SameOffer DEF Life!lifeVars
<1>c. Rest /\ ClearFirmwareInfo => Life!Withdraw
  BY <1>a, ClearedIsCleared DEF Life!Withdraw
<1>1. ASSUME NEW c \in Checkers, NEW answer \in Answers, CheckDone(c, answer)
      PROVE  LifeStep
  <2>1. Rest
    BY <1>1 DEF CheckDone
  <2>2. CASE UNCHANGED store
    BY <2>1, <2>2, <1>b
  <2>3. CASE ClearFirmwareInfo
    BY <2>1, <2>3, <1>c
  <2>4. CASE answer \in Versions /\ ~HasUndoneTask /\ HandleNewVersion(answer) /\ comp # answer
    <3>1. /\ task' = "CHECK_VERSION_SUCCESS" /\ comp' = answer /\ LifePackage' = "none"
      BY <2>4 DEF HandleNewVersion, DeleteDownloadFiles, NoFile, LifePackage
    <3> QED BY <2>1, <2>4, <3>1, <1>a DEF HasUndoneTask, Life!Offer
  <2> QED BY <1>1, <2>2, <2>3, <2>4 DEF CheckDone, Answers, HandleNewVersion
<1>2. CASE \E d \in Downloaders : Download(d) \/ DownloadStep(d)
  BY <1>2, <1>b, DownloadStepLife DEF Download
<1>3. ASSUME NEW i \in InstallThreads, Upgrade(i) \/ InstallStep(i)
      PROVE  LifeStep
  BY <1>3, InstallStepLife
<1>4. CASE ClearError
  BY <1>4, <1>c DEF ClearError
<1>5. CASE IdleExit \/ ProcessDies
  <2>1. CASE UNCHANGED <<task, comp, file>> /\ ProcessEnds
    BY <2>1, NoneHanded, EndOfLife, SameOffer DEF Life!Down, ProcessEnds, ProcessDown
  <2> QED BY <1>5, <2>1, <1>b DEF IdleExit, ProcessDies
<1>6. CASE DeviceReboots
  BY <1>6, NoneHanded, SameOffer DEF DeviceReboots, DeviceDown, ProcessDown, Life!Reboot
<1>7. CASE Start
  <2>1. /\ LifeService = "down" /\ LifeService' = "recovering"
        /\ UNCHANGED Life!device /\ LifeHanded' = LifeHanded /\ digested' = digested
    BY <1>7, SameHanded DEF Start, LifeService
  <2> QED BY <1>7, <2>1, ClearedIsCleared, SameOffer DEF Start, Life!Start
<1>8. CASE RestoreUpdate
  <2>1. /\ LifeService = "recovering" /\ LifeService' = "up" /\ UNCHANGED Life!device
        /\ late' = late /\ digested' = digested
    BY <1>8 DEF RestoreUpdate, LifeService
  <2>2. CASE ins' = ins
    <3>1. LifeHanded' = LifeHanded
      BY <2>1, <2>2, SameHanded
    <3>2. CASE task = "DOWNLOADING"
      BY <1>8, <2>1, <3>1, <3>2, ClearedIsCleared DEF RestoreUpdate, Life!Recover
    <3>3. CASE task \in {"INSTALLING", "INSTALL_SUCCESS"} /\ ClearFirmwareInfo
      BY <2>1, <3>1, <3>3, ClearedIsCleared DEF Life!Recover
    <3>4. CASE /\ task \in {"INSTALLING", "INSTALL_SUCCESS"}
               /\ task' = "DOWNLOAD_SUCCESS" /\ UNCHANGED <<comp, file>>
      BY <2>1, <3>1, <3>4, SamePackage DEF Life!Recover, Life!Report
    <3>5. CASE task \notin {"DOWNLOADING", "INSTALLING", "INSTALL_SUCCESS"} /\ UNCHANGED store
      BY <2>1, <3>1, <3>5, SameOffer DEF Life!Recover
    <3> QED BY <1>8, <2>2, <3>2, <3>3, <3>4, <3>5 DEF RestoreUpdate, ReinstallOnBoot
  <2>3. CASE /\ task \in {"INSTALLING", "INSTALL_SUCCESS"}
             /\ task' = "DOWNLOAD_SUCCESS" /\ UNCHANGED <<comp, file>>
             /\ ins' = [ins EXCEPT ![Boot].pc = "spawned"]
    <3>1. LifeHanded' \subseteq LifeHanded
      BY <2>1, <2>3 DEF LifeInv, TypeOK, ThreadType, LifeHanded, HandedPc
    <3> QED BY <2>1, <2>3, <3>1, SamePackage DEF Life!Recover, Life!Report
  <2> QED BY <1>8, <2>2, <2>3 DEF RestoreUpdate, ReinstallOnBoot
<1>9. CASE HandleBootComplete
  <2>1. /\ LifeService' = LifeService /\ UNCHANGED Life!device /\ LifeHanded' = LifeHanded
        /\ digested' = digested
    BY <1>9, SameHanded DEF HandleBootComplete, LifeService
  <2>2. CASE ClearFirmwareInfo
    BY <2>1, <2>2, ClearedIsCleared DEF Life!Withdraw
  <2>3. CASE UNCHANGED store
    BY <2>1, <2>3, SameOffer DEF Life!lifeVars
  <2> QED BY <1>9, <2>2, <2>3 DEF HandleBootComplete
<1>10. CASE \/ CheckAges \/ Cancel \/ TerminateUpgrade \/ NetChanged
            \/ LeaveRebootDuration \/ UNCHANGED vars
            \/ \E c \in Checkers : DoCheck(c)
  BY <1>10, <1>b
     DEF CheckAges, Cancel, TerminateUpgrade, NetChanged, LeaveRebootDuration, DoCheck, vars
<1>11. CASE LateProgress \/ LateResult
  <2>1. /\ UNCHANGED <<comp, file, stage, running, digested>> /\ late.ver \in LifeHanded
        /\ LifeHanded' \subseteq LifeHanded
    BY <1>11 DEF LateProgress, LateResult, LifeHanded, LifeInv, TypeOK, SysType, NoWork
  <2>2. LifeService' = LifeService /\ LifePackage' = LifePackage
    BY <2>1, SameService, SamePackage
  <2>3. CASE task = "NONE" /\ slot' = slot
    <3>1. UNCHANGED Life!offer
      BY <1>11, <2>1, <2>3, SameOffer DEF LateProgress, LateResult, SetTask
    <3> QED BY <2>1, <2>2, <2>3, <3>1 DEF Life!Finish
  <2>4. CASE task # "NONE" /\ slot' = slot
    <3>1. task' \in {"INSTALLING", "INSTALL_SUCCESS", "INSTALL_FAIL"}
      BY <1>11, <2>4 DEF LateProgress, LateResult, SetTask
    <3> QED BY <2>1, <2>2, <2>4, <3>1 DEF Life!Installing, Life!Report
  <2>5. CASE slot' # slot
    <3>1. slot' = late.ver /\ task' = SetTask("INSTALL_SUCCESS")
      BY <1>11, <2>5 DEF LateProgress, LateResult
    <3>2. CASE task = "NONE"
      <4>1. UNCHANGED Life!offer
        BY <2>1, <3>1, <3>2, SameOffer DEF SetTask
      <4> QED BY <2>1, <2>2, <3>1, <4>1 DEF Life!SetNext
    <3>3. CASE task # "NONE"
      BY <2>1, <2>2, <3>1, <3>3 DEF Life!SetNext, Life!Report, SetTask
    <3> QED BY <3>2, <3>3
  <2> QED BY <2>3, <2>4, <2>5
<1> QED
  BY <1>1, <1>2, <1>3, <1>4, <1>5, <1>6, <1>7, <1>8, <1>9, <1>10, <1>11
     DEF Next, StartUp, InstallThreads

\* A device that leaves the factory begins its life (Init).
LEMMA LifeBegins ==
    ASSUME Init
    PROVE  Life!LifeInit /\ VersionHasTask
BY DEF Init, Life!LifeInit, VersionHasTask, LifePackage, LifeHanded, LifeService, IdleInstall,
       HandedPc, NoWork

\* With one version on offer and one download at a time, the upgrade has the life that
\* UpgradeLifecycle allows, whatever its threads, crashes, reboots and recovery do: only
\* a whole package is reported as downloaded and handed over, and the device boots only
\* what was (HandleCheckResult, DownloadCallback, DoInstall, RestoreUpdate).
THEOREM LifecycleImplemented ==
    ASSUME OneVersion, OneDownloader
    PROVE  Spec => ImplementsLifecycle
<1>1. Init => Life!LifeInit /\ VersionHasTask
  BY LifeBegins
<1>2. TypeOK /\ VersionIsKnown /\ VersionHasTask /\ FileIsPrefix /\ [Next]_vars
        => (VersionIsKnown /\ VersionHasTask /\ FileIsPrefix)'
  BY VersionStaysKnown, VersionKeepsTask, FileStaysPrefix
<1>3. LifeInv /\ LifeInv' /\ [Next]_vars => [Life!LifeNext]_(Life!lifeVars)
  BY StepOfLife DEF LifeStep
<1> QED BY TypeCorrect, PackageInit, <1>1, <1>2, <1>3, PTL
        DEF Spec, LifeInv, ImplementsLifecycle, Life!LifeSpec
=============================================================================
