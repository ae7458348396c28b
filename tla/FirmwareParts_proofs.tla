------------------------ MODULE FirmwareParts_proofs ------------------------
(***************************************************************************)
(* Proofs about three parts the firmware flow works with.                  *)
(*                                                                         *)
(* SysInstaller, for any number of install threads and versions, and an    *)
(* installer that keeps to the wait or does not.                           *)
(*                                                                         *)
(* DownloadThread, for any number of packages of any size.  The invariant  *)
(* says which thread can still call back: the one whose successor is being *)
(* made, or the last, and none once the flow is deleted.                   *)
(*                                                                         *)
(* FirmwareTables, for any number of handlers, versions, packages and      *)
(* failing operations.  The invariant says what a handler nobody disturbed *)
(* knows of the rows; a second one, for handlers that take turns, carries  *)
(* the step simulation of FirmwareStore.                                   *)
(***************************************************************************)
EXTENDS SysInstaller, DownloadThread, FirmwareTables, FiniteSetTheorems, TLAPS

\* A thread past DoInstall has the version it read; an installer at work has a version
\* and a callback; a thread has heard of a success only after there was one.
StartedIsKnown ==
  /\ \A i \in Threads :
       /\ pc[i] \in {"perform", "init", "setCallback", "start", "wait"} => ver[i] # None
       /\ pc[i] \in {"start", "wait"} => callback # None
       /\ progress[i] = "INSTALL_SUCCESS" => slot # None
  /\ sysStatus = "ONGOING" => sysVer # None /\ callback # None

InstallInv == TypeOK /\ ApplyWaitIsInstalled /\ StartedIsKnown

\* The invariant holds before the first offer (Init).
LEMMA InstallInvInit == Init => InstallInv
BY InstallerAssumption
   DEF Init, InstallInv, TypeOK, ApplyWaitIsInstalled, StartedIsKnown, Statuses

\* A report leaves a well-typed row and event, and INSTALL_SUCCESS only if it says so
\* (OnInstallCallback).
LEMMA ReportIsTyped ==
  ASSUME TypeOK, NEW i, NEW status \in Statuses, OnInstallCallback(i, status)
  PROVE  /\ task' \in {"NONE"} \union Statuses
         /\ offer' \in Versions \union {None}
         /\ told' \in {"EVENT_UPGRADE_FAIL", "EVENT_APPLY_WAIT", "EVENT_UPGRADE_UPDATE"}
         /\ task' = "INSTALL_SUCCESS" \/ told' = "EVENT_APPLY_WAIT"
              => status = "INSTALL_SUCCESS"
BY DEF TypeOK, OnInstallCallback, UpdateProgressByTaskId, SetInstallResult, Statuses

\* The last report of a thread preserves the invariant, if a success has been heard of
\* (HandleInstallResult).
LEMMA ResultKeepsInv ==
  ASSUME InstallInv, NEW i \in Threads, NEW status \in Statuses,
         status = "INSTALL_SUCCESS" => slot # None,
         HandleInstallResult(i, status)
  PROVE  InstallInv'
<1> USE DEF InstallInv
<1>1. /\ task' \in {"NONE"} \union Statuses
      /\ offer' \in Versions \union {None}
      /\ told' \in {"EVENT_UPGRADE_FAIL", "EVENT_APPLY_WAIT", "EVENT_UPGRADE_UPDATE"}
      /\ task' = "INSTALL_SUCCESS" \/ told' = "EVENT_APPLY_WAIT" => status = "INSTALL_SUCCESS"
  BY ReportIsTyped DEF HandleInstallResult
<1>2. TypeOK'
  BY <1>1 DEF HandleInstallResult, Goto, sys, TypeOK
<1>3. ApplyWaitIsInstalled'
  BY <1>1 DEF HandleInstallResult, ApplyWaitIsInstalled
<1>4. StartedIsKnown'
  BY DEF HandleInstallResult, Goto, sys, StartedIsKnown, TypeOK
<1> QED BY <1>2, <1>3, <1>4

\* Every step of a thread, a client or the installer preserves the invariant (Next).
LEMMA InstallInvStep == InstallInv /\ [Next]_vars => InstallInv'
<1> SUFFICES ASSUME InstallInv, [Next]_vars PROVE InstallInv'
  OBVIOUS
<1> USE DEF InstallInv
<1>a. "INSTALL_FAIL" \in Statuses /\ "INSTALL_FAIL" # "INSTALL_SUCCESS"
  BY DEF Statuses
<1>1. ASSUME NEW v \in Versions, HandleNewVersion(v) PROVE InstallInv'
  BY <1>1 DEF HandleNewVersion, thr, sys, TypeOK, ApplyWaitIsInstalled, StartedIsKnown
<1>2. CASE Download
  BY <1>2 DEF Download, thr, sys, TypeOK, ApplyWaitIsInstalled, StartedIsKnown
<1>3. CASE DoClearError
  BY <1>3 DEF DoClearError, thr, sys, TypeOK, ApplyWaitIsInstalled, StartedIsKnown
<1>4. ASSUME NEW i \in Threads, Upgrade(i) PROVE InstallInv'
  <2>1. TypeOK'
    BY <1>4, InstallerAssumption DEF Upgrade, InitInstallProgress, Goto, TypeOK, Statuses, store, thr, sys
  <2>2. ApplyWaitIsInstalled'
    BY <1>4 DEF Upgrade, ApplyWaitIsInstalled, store
  <2>3. StartedIsKnown'
    BY <1>4 DEF Upgrade, StartedIsKnown, InitInstallProgress, Goto, TypeOK, store, thr, sys
  <2> QED BY <2>1, <2>2, <2>3
<1>5. ASSUME NEW i \in Threads, DoInstall(i) PROVE InstallInv'
  <2>1. CASE offer = None
    BY <1>5, <1>a, <2>1, ResultKeepsInv DEF DoInstall
  <2>2. CASE offer # None
    <3>1. TypeOK'
      BY <1>5, <2>2 DEF DoInstall, Goto, sys, TypeOK, UpdateProgressByTaskId, Statuses
    <3>2. ApplyWaitIsInstalled'
      BY <1>5, <2>2 DEF DoInstall, ApplyWaitIsInstalled, UpdateProgressByTaskId
    <3>3. StartedIsKnown'
      BY <1>5, <2>2 DEF DoInstall, Goto, At, sys, StartedIsKnown, TypeOK
    <3> QED BY <3>1, <3>2, <3>3
  <2> QED BY <2>1, <2>2
<1>6. ASSUME NEW i \in Threads, PerformInstall(i) PROVE InstallInv'
  <2>1. CASE HandleInstallResult(i, "INSTALL_FAIL")
    BY <1>a, <2>1, ResultKeepsInv
  <2>2. CASE /\ told' = "EVENT_UPGRADE_START" /\ Goto(i, "init")
             /\ UNCHANGED <<store, slot, ver, progress, complete, sys>>
    BY <1>6, <2>2 DEF PerformInstall, Goto, At, store, sys, TypeOK, ApplyWaitIsInstalled, StartedIsKnown
  <2> QED BY <1>6, <2>1, <2>2 DEF PerformInstall
<1>7. ASSUME NEW i \in Threads, SysInstallerInit(i) PROVE InstallInv'
  <2>1. CASE HandleInstallResult(i, "INSTALL_FAIL")
    BY <1>a, <2>1, ResultKeepsInv
  <2>2. CASE /\ Goto(i, "setCallback")
             /\ UNCHANGED <<store, slot, ver, progress, complete, sys, told>>
    BY <1>7, <2>2 DEF SysInstallerInit, Goto, At, store, sys, TypeOK, ApplyWaitIsInstalled, StartedIsKnown
  <2> QED BY <1>7, <2>1, <2>2 DEF SysInstallerInit
<1>8. ASSUME NEW i \in Threads, SetUpdateCallback(i) PROVE InstallInv'
  <2>1. CASE HandleInstallResult(i, "INSTALL_FAIL")
    BY <1>a, <2>1, ResultKeepsInv
  <2>2. CASE /\ callback' = i /\ Goto(i, "start")
             /\ UNCHANGED <<store, slot, ver, progress, complete, sysStatus, sysVer, told>>
    <3>1. TypeOK' /\ ApplyWaitIsInstalled'
      BY <2>2 DEF Goto, store, TypeOK, ApplyWaitIsInstalled
    <3>2. i # None
      BY InstallerAssumption
    <3>3. StartedIsKnown'
      BY <1>8, <2>2, <3>2 DEF SetUpdateCallback, Goto, At, TypeOK, StartedIsKnown
    <3> QED BY <3>1, <3>3
  <2> QED BY <1>8, <2>1, <2>2 DEF SetUpdateCallback
<1>9. ASSUME NEW i \in Threads, StartUpdatePackageZip(i) PROVE InstallInv'
  <2>1. CASE HandleInstallResult(i, "INSTALL_FAIL")
    BY <1>a, <2>1, ResultKeepsInv
  <2>2. CASE /\ sysStatus' = "ONGOING" /\ sysVer' = ver[i]
             /\ Goto(i, "wait")
             /\ UNCHANGED <<store, slot, ver, progress, complete, callback, told>>
    <3>1. TypeOK' /\ ApplyWaitIsInstalled'
      BY <2>2 DEF Goto, store, TypeOK, ApplyWaitIsInstalled
    <3>3. StartedIsKnown'
      BY <1>9, <2>2 DEF StartUpdatePackageZip, Goto, At, TypeOK, StartedIsKnown
    <3> QED BY <3>1, <3>3
  <2> QED BY <1>9, <2>1, <2>2 DEF StartUpdatePackageZip
<1>10. ASSUME NEW i \in Threads, WaitInstallResult(i) PROVE InstallInv'
  <2>1. progress[i] \in Statuses /\ (progress[i] = "INSTALL_SUCCESS" => slot # None)
    BY DEF TypeOK, StartedIsKnown
  <2> QED BY <1>10, <1>a, <2>1, ResultKeepsInv DEF WaitInstallResult
<1>11. ASSUME NEW status \in Statuses, sysStatus = "ONGOING",
              Callback(status),
              \/ slot' = sysVer
              \/ slot' = slot /\ status # "INSTALL_SUCCESS",
              sysStatus' \in {"INIT", "ONGOING"}, UNCHANGED <<sysVer, callback>>
       PROVE  InstallInv'
  <2>1. /\ callback \in Threads /\ sysVer \in Versions
        /\ slot' \in Versions \union {None} /\ (slot # None => slot' # None)
        /\ status = "INSTALL_SUCCESS" => slot' # None
    BY <1>11, InstallerAssumption DEF StartedIsKnown, TypeOK
  <2>2. CASE UNCHANGED <<store, thr, told>>
    BY <1>11, <2>1, <2>2 DEF TypeOK, ApplyWaitIsInstalled, StartedIsKnown, store, thr
  <2>3. CASE OnUpgradeProgress(status)
    <3>1. /\ task' \in {"NONE"} \union Statuses
          /\ offer' \in Versions \union {None}
          /\ told' \in {"EVENT_UPGRADE_FAIL", "EVENT_APPLY_WAIT", "EVENT_UPGRADE_UPDATE"}
          /\ task' = "INSTALL_SUCCESS" \/ told' = "EVENT_APPLY_WAIT" => status = "INSTALL_SUCCESS"
      BY <2>3, ReportIsTyped DEF OnUpgradeProgress
    <3>2. TypeOK'
      BY <1>11, <2>1, <2>3, <3>1 DEF OnUpgradeProgress, TypeOK
    <3>3. ApplyWaitIsInstalled'
      BY <2>1, <3>1 DEF ApplyWaitIsInstalled
    <3>4. StartedIsKnown'
      BY <2>1, <2>3, <1>11 DEF OnUpgradeProgress, StartedIsKnown, TypeOK
    <3> QED BY <3>2, <3>3, <3>4
  <2> QED BY <1>11, <2>2, <2>3 DEF Callback
<1>12. CASE Ongoing \/ Succeeds \/ Fails
  BY <1>11, <1>12 DEF Ongoing, Succeeds, Fails, Statuses, sys, TypeOK
<1>13. CASE UNCHANGED vars
  BY <1>13 DEF vars, store, thr, sys, TypeOK, ApplyWaitIsInstalled, StartedIsKnown
<1> QED
  BY <1>1, <1>2, <1>3, <1>4, <1>5, <1>6, <1>7, <1>8, <1>9, <1>10, <1>12, <1>13 DEF Next

\* The variables keep their types, whatever the threads and the installer do (Next).
THEOREM InstallTypes == Spec => []TypeOK
<1>1. InstallInv => TypeOK
  BY DEF InstallInv
<1> QED BY InstallInvInit, InstallInvStep, <1>1, PTL DEF Spec

\* Nobody is told to apply what was not installed: however many threads share the
\* installer, and however late its callbacks come (WaitInstallResult, OnUpgradeProgress).
THEOREM ApplyWaitAlwaysInstalled == Spec => []ApplyWaitIsInstalled
<1>1. InstallInv => ApplyWaitIsInstalled
  BY DEF InstallInv
<1> QED BY InstallInvInit, InstallInvStep, <1>1, PTL DEF Spec

-----------------------------------------------------------------------------
(***************************************************************************)
(* The threads of a download.                                              *)
(***************************************************************************)
\* The loop has not come to the thread of package i yet.
Unstarted(i) ==
  loop.i < i \/ (loop.i = i /\ loop.pc \in {"look", "destroy", "make", "join", "start"})

LoopPlaces == {"look", "destroy", "make", "join", "start", "notify", "end"}

ThreadRecord ==
  [pc : {"none", "waiting", "open", "transfer", "joins itself", "ended"},
   wake : BOOLEAN, exit : BOOLEAN, start : Nat, pos : Nat,
   last : [percent : 0 .. 100, status : {"INIT", "DOWNLOADING"}]]

TaskStatuses == {"NONE", "CHECK_VERSION_SUCCESS", "DOWNLOADING", "DOWNLOAD_SUCCESS",
                 "DOWNLOAD_FAIL", "DOWNLOAD_CANCEL"}

\* How a download ends, and what a client is shown.
Ends == {"DOWNLOAD_SUCCESS", "DOWNLOAD_FAIL", "DOWNLOAD_CANCEL"}
Reports == [percent : 0 .. 100, status : Ends \union {"INIT", "DOWNLOADING"}]

\* The loop and the objects it holds.
LoopTypes ==
  /\ loop \in [pc : LoopPlaces, i : Packages]
  /\ owner \in 0 .. Len(Sizes)
  /\ ~freed /\ owner = 0 => loop.pc \in {"look", "make"} /\ loop.i = 1
  /\ ~freed => loop.pc # "destroy"
  /\ freed \in BOOLEAN /\ orphans \subseteq Packages
  /\ threads \in [Packages -> ThreadRecord]

\* One thread at a time: the one the loop waits for, or the last; those after it are not started.
\* Once the flow is deleted only those it was deleted under, or that were started since, are left.
OneThread ==
  /\ \A i \in Packages : Unstarted(i) => threads[i].pc = "none"
  /\ ~freed => \A i \in Packages : Active(i) =>
       \/ loop.pc \in {"look", "make", "join"} /\ loop.i = i + 1
       \/ loop.pc \in {"notify", "end"} /\ loop.i = i
  /\ freed /\ orphans = {} => \A i \in Packages : ~Active(i)

\* The client was shown what the thread of the package reported last.
ShownIsLast ==
  /\ shown \in [Packages -> Reports]
  /\ \A i \in Packages : shown[i].status = "DOWNLOADING" => shown[i] = threads[i].last

\* No thread writes more than its package.
TransferBounds ==
  /\ file \in [Packages -> Nat] /\ removed \subseteq Packages
  /\ \A i \in Packages :
       /\ threads[i].start + threads[i].pos <= Sizes[i] /\ file[i] <= Sizes[i]
       /\ threads[i].pc \in {"none", "waiting", "open"} => threads[i].pos = 0
  /\ alive \in BOOLEAN /\ isNoNet \in BOOLEAN /\ isCancel \in BOOLEAN
  /\ taskStatus \in TaskStatuses

DownloadInv == LoopTypes /\ OneThread /\ ShownIsLast /\ TransferBounds

-----------------------------------------------------------------------------
\* The packages are numbered from one (the walk of PerformDownload).
LEMMA PackageNumbers ==
  /\ Packages = 1 .. Len(Sizes) /\ Len(Sizes) \in Nat /\ 1 \in Packages
  /\ \A i \in Packages : i \in Nat /\ Sizes[i] \in Nat /\ Sizes[i] > 0
<1>1. Sizes \in Seq(Nat \ {0}) /\ Sizes # <<>>
  BY SizesAssumption
<1>2. Packages = 1 .. Len(Sizes) /\ Len(Sizes) \in Nat /\ Len(Sizes) # 0
  BY <1>1 DEF Packages
<1>3. \A i \in Packages : Sizes[i] \in Nat \ {0}
  BY <1>1, <1>2
<1> QED BY <1>2, <1>3

\* Nothing is started yet, and what an interrupted download left is at most a package.
LEMMA DownloadInvInit == DownloadInit => DownloadInv
<1> SUFFICES ASSUME DownloadInit PROVE DownloadInv
  OBVIOUS
<1>1. /\ NewThread \in ThreadRecord /\ NewThread.pc = "none" /\ NewThread.pos = 0
      /\ NewThread.start = 0
  BY DEF NewThread, ThreadRecord, Progress
<1>2. LoopTypes
  <2>1. loop \in [pc : LoopPlaces, i : Packages] /\ loop.pc = "look" /\ loop.i = 1
    BY PackageNumbers DEF DownloadInit, LoopPlaces
  <2>2. owner \in 0 .. Len(Sizes) /\ freed = FALSE /\ orphans = {}
    BY PackageNumbers DEF DownloadInit
  <2>3. threads \in [Packages -> ThreadRecord]
    BY <1>1 DEF DownloadInit
  <2> QED BY <2>1, <2>2, <2>3 DEF LoopTypes
<1>3. OneThread
  BY <1>1 DEF DownloadInit, OneThread, Active
<1>4. ShownIsLast
  <2>1. Progress(0, "INIT") \in Reports /\ Progress(0, "INIT").status # "DOWNLOADING"
    BY DEF Progress, Reports
  <2> QED BY <2>1 DEF DownloadInit, ShownIsLast
<1>5. TransferBounds
  <2>1. \A i \in Packages : Sizes[i] \in Nat /\ Resumed <= Sizes[i] /\ Resumed \in Nat
    BY PackageNumbers, ResumedAssumption DEF Packages
  <2>2. \A i \in Packages : file[i] \in Nat /\ file[i] <= Sizes[i]
    BY <2>1 DEF DownloadInit
  <2>3. file \in [Packages -> Nat]
    BY <2>2 DEF DownloadInit
  <2>4. \A i \in Packages : threads[i] = NewThread
    BY DEF DownloadInit
  <2>5. \A i \in Packages : threads[i].start + threads[i].pos <= Sizes[i] /\ threads[i].pos = 0
    BY <1>1, <2>1, <2>4
  <2>6. /\ removed \subseteq Packages /\ alive \in BOOLEAN /\ isNoNet \in BOOLEAN
        /\ isCancel \in BOOLEAN /\ taskStatus \in TaskStatuses
    BY DEF DownloadInit, TaskStatuses
  <2> QED BY <2>2, <2>3, <2>5, <2>6 DEF TransferBounds
<1> QED BY <1>2, <1>3, <1>4, <1>5 DEF DownloadInv

\* What the end of a download leaves: its files whole or none, its report told, and no flow
\* (EndDownload).
LEMMA EndLeaves ==
  ASSUME DownloadInv, NEW i \in Packages, NEW percent \in 0 .. 100, NEW status \in Ends,
         NEW left \in Nat, left <= Sizes[i], EndDownload(i, percent, status, left)
  PROVE  /\ file' \in [Packages -> Nat] /\ \A j \in Packages : file'[j] <= Sizes[j]
         /\ removed' \subseteq Packages /\ taskStatus' \in TaskStatuses /\ freed' = TRUE
         /\ shown' \in [Packages -> Reports]
         /\ \A j \in Packages : shown'[j] = shown[j] \/ shown'[j].status # "DOWNLOADING"
<1>0. /\ file \in [Packages -> Nat] /\ \A j \in Packages : file[j] <= Sizes[j] /\ Sizes[j] \in Nat
      /\ removed \subseteq Packages /\ shown \in [Packages -> Reports] /\ taskStatus \in TaskStatuses
  BY PackageNumbers DEF DownloadInv, TransferBounds, ShownIsLast
<1>1. file' \in [Packages -> Nat] /\ \A j \in Packages : file'[j] <= Sizes[j]
  <2>1. \/ file' = [file EXCEPT ![i] = left] \/ file' = file
        \/ file' = [j \in Packages |-> 0]
    BY DEF EndDownload, FilesAfter, disk
  <2> QED BY <1>0, <2>1
<1>2. removed' \subseteq Packages
  BY <1>0 DEF EndDownload, FilesAfter, disk
<1>3. taskStatus' \in TaskStatuses
  BY <1>0 DEF EndDownload, Written, TaskAfter, Ends, TaskStatuses
<1>4. Progress(percent, status) \in Reports /\ Progress(percent, status).status # "DOWNLOADING"
  BY DEF Progress, Reports, Ends
<1>5. shown' = [shown EXCEPT ![i] = Progress(percent, status)] /\ freed' = TRUE
  BY DEF EndDownload
<1> QED BY <1>0, <1>1, <1>2, <1>3, <1>4, <1>5

\* The callback of a package's thread that ends a download: while the flow was there it came from
\* the only thread (HandleComplete deletes the flow).
LEMMA CompleteIsSafe ==
  ASSUME DownloadInv, NEW i \in Packages, Active(i), NEW percent \in 0 .. 100, NEW status \in Ends,
         NEW left \in Nat, left <= Sizes[i], Complete(i, percent, status, left),
         isNoNet' \in BOOLEAN, isCancel' \in BOOLEAN
  PROVE  DownloadInv'
<1> USE DEF DownloadInv
<1> DEFINE t == [threads[i] EXCEPT !.pc = IF owner = i THEN "joins itself" ELSE "ended"]
<1>0. EndDownload(i, percent, status, left) /\ UNCHANGED <<loop, owner, orphans, alive>>
  BY DEF Complete
<1>1. threads[i] \in ThreadRecord
  BY DEF LoopTypes
<1>2. /\ t \in ThreadRecord /\ t.pc \in {"joins itself", "ended"} /\ t.last = threads[i].last
      /\ t.start = threads[i].start /\ t.pos = threads[i].pos
  BY <1>1 DEF ThreadRecord
<1>3. threads' = [threads EXCEPT ![i] = t]
  BY <1>1 DEF Complete, LoopTypes
<1> HIDE DEF t
<1>4. /\ threads' \in [Packages -> ThreadRecord] /\ threads'[i] = t
      /\ \A j \in Packages : j # i => threads'[j] = threads[j]
  BY <1>2, <1>3 DEF LoopTypes
<1>5. /\ file' \in [Packages -> Nat] /\ \A j \in Packages : file'[j] <= Sizes[j]
      /\ removed' \subseteq Packages /\ taskStatus' \in TaskStatuses /\ freed' = TRUE
      /\ shown' \in [Packages -> Reports]
      /\ \A j \in Packages : shown'[j] = shown[j] \/ shown'[j].status # "DOWNLOADING"
  BY <1>0, EndLeaves
<1>6. LoopTypes'
  BY <1>0, <1>4, <1>5 DEF LoopTypes
<1>7. OneThread'
  <2>1. ~Unstarted(i)
    BY DEF OneThread, Active
  <2>2. \A j \in Packages : Unstarted(j)' => threads'[j].pc = "none"
    BY <1>0, <1>4, <2>1 DEF OneThread, Unstarted
  <2>3. ASSUME orphans = {} PROVE \A j \in Packages : ~Active(j)'
    <3>1. ~freed
      BY <2>3 DEF OneThread, LoopTypes
    <3>2. ASSUME NEW j \in Packages, j # i, Active(j) PROVE FALSE
      <4>1. i \in Nat /\ j \in Nat
        BY PackageNumbers
      <4>2. \/ loop.pc \in {"look", "make", "join"} /\ loop.i = i + 1 /\ loop.i = j + 1
            \/ loop.pc \in {"notify", "end"} /\ loop.i = i /\ loop.i = j
        BY <3>1, <3>2 DEF OneThread
      <4> QED BY <3>2, <4>1, <4>2
    <3>3. \A j \in Packages : j # i => ~Active(j)'
      BY <1>4, <3>2 DEF Active
    <3> QED BY <1>2, <1>4, <3>3 DEF Active
  <2> QED BY <1>0, <1>5, <2>2, <2>3 DEF OneThread
<1>8. ShownIsLast'
  BY <1>2, <1>4, <1>5 DEF ShownIsLast
<1>9. TransferBounds'
  BY <1>0, <1>2, <1>4, <1>5 DEF TransferBounds
<1> QED BY <1>6, <1>7, <1>8, <1>9

\* The network is gone or the download cancelled (DealAbnormal), or the transfer is over.
LEMMA EndIsSafe ==
  ASSUME DownloadInv, NEW i \in Packages, Active(i), NEW percent \in 0 .. 100, NEW status \in Ends,
         NEW left \in Nat, left <= Sizes[i],
         DealAbnormal(i, percent, left) \/ Finished(i, percent, status, left)
  PROVE  DownloadInv'
<1>1. isNoNet \in BOOLEAN /\ isCancel \in BOOLEAN
  BY DEF DownloadInv, TransferBounds
<1>2. CASE DealAbnormal(i, percent, left)
  <2>1. PICK s \in Ends : Complete(i, percent, s, left)
    BY <1>2 DEF DealAbnormal, Ends
  <2> QED BY <1>1, <1>2, <2>1, CompleteIsSafe DEF DealAbnormal
<1>3. CASE Finished(i, percent, status, left)
  BY <1>1, <1>3, CompleteIsSafe DEF Finished, flags
<1> QED BY <1>2, <1>3

\* What is on disk is at most what was there and what was transferred: no percent exceeds all of
\* it, also while writes are buffered (DownloadProgress).
LEMMA PercentIsBounded ==
  ASSUME DownloadInv, NEW i \in Packages, Total(i) > 0
  PROVE  Percent(i) \in 0 .. DOWNLOAD_FINISH_PERCENT
<1>1. /\ file[i] \in Nat /\ threads[i].pos \in Nat /\ threads[i].start \in Nat
      /\ Sizes[i] \in Nat /\ threads[i].start < Sizes[i]
  <2>1. file[i] \in Nat /\ threads[i] \in ThreadRecord
    BY DEF DownloadInv, TransferBounds, LoopTypes
  <2>2. threads[i].pos \in Nat /\ threads[i].start \in Nat
    BY <2>1 DEF ThreadRecord
  <2>3. Sizes[i] \in Nat /\ Sizes[i] - threads[i].start > 0
    BY PackageNumbers DEF Total
  <2> QED BY <2>1, <2>2, <2>3
<1>2. threads[i].start + threads[i].pos <= Sizes[i]
  BY DEF DownloadInv, TransferBounds
<1>3. PICK d \in Nat : d = file[i] + (Sizes[i] - threads[i].start)
  BY <1>1
<1>4. PICK n \in Nat : n = (threads[i].pos + file[i]) * 100
  BY <1>1
<1>5. d > 0 /\ n <= d * 100
  BY <1>1, <1>2, <1>3, <1>4
<1>6. PICK q \in Int : q = n \div d
  BY <1>5
<1>7. q * d <= n /\ n < (q + 1) * d
  BY <1>5, <1>6
<1>8. q >= 0
  BY <1>5, <1>7
<1>9. q <= 100
  BY <1>5, <1>7
<1>10. Percent(i) = q
  BY <1>3, <1>4, <1>6 DEF Percent, Total, DOWNLOAD_FINISH_PERCENT
<1> QED BY <1>8, <1>9, <1>10 DEF DOWNLOAD_FINISH_PERCENT

\* What a closed file holds is at most its package (ProcessThreadExit).
LEMMA ClosedIsBounded ==
  ASSUME DownloadInv, NEW i \in Packages PROVE Closed(i) \in Nat /\ Closed(i) <= Sizes[i]
<1>1. threads[i] \in ThreadRecord /\ file[i] \in Nat /\ file[i] <= Sizes[i]
  BY DEF DownloadInv, LoopTypes, TransferBounds
<1>2. threads[i].start \in Nat /\ threads[i].pos \in Nat
  BY <1>1 DEF ThreadRecord
<1>3. threads[i].start + threads[i].pos \in Nat
  BY <1>2
<1> QED BY <1>1, <1>3 DEF Closed, DownloadInv, TransferBounds

-----------------------------------------------------------------------------
\* The old thread is let go by a loop at its place (LetGo): nothing else
\* of the threads changes.
LEMMA LetGoKeeps ==
  ASSUME DownloadInv, NEW waits \in LoopPlaces, NEW goes \in LoopPlaces, LetGo(waits, goes)
  PROVE  /\ loop' = [pc |-> IF owner = 0 \/ freed THEN goes ELSE waits, i |-> loop.i]
         /\ threads' \in [Packages -> ThreadRecord]
         /\ \A i \in Packages :
              /\ threads'[i].pc = threads[i].pc /\ threads'[i].last = threads[i].last
              /\ threads'[i].start = threads[i].start /\ threads'[i].pos = threads[i].pos
<1>0. threads \in [Packages -> ThreadRecord] /\ loop \in [pc : LoopPlaces, i : Packages]
  BY DEF DownloadInv, LoopTypes
<1>1. CASE owner = 0 \/ freed
  BY <1>0, <1>1 DEF LetGo
<1>2. CASE ~(owner = 0 \/ freed)
  <2>1. /\ loop' = [loop EXCEPT !.pc = waits]
        /\ threads' = [threads EXCEPT ![owner].wake = TRUE, ![owner].exit = TRUE]
    BY <1>2 DEF LetGo
  <2>2. \A i \in Packages :
          /\ threads'[i] \in ThreadRecord /\ threads'[i].pc = threads[i].pc
          /\ threads'[i].last = threads[i].last /\ threads'[i].start = threads[i].start
          /\ threads'[i].pos = threads[i].pos
    <3> SUFFICES ASSUME NEW i \in Packages
                 PROVE  /\ threads'[i] \in ThreadRecord /\ threads'[i].pc = threads[i].pc
                        /\ threads'[i].last = threads[i].last /\ threads'[i].start = threads[i].start
                        /\ threads'[i].pos = threads[i].pos
      OBVIOUS
    <3>1. \/ threads'[i] = threads[i]
          \/ threads'[i] = [threads[i] EXCEPT !.wake = TRUE, !.exit = TRUE]
      BY <1>0, <2>1
    <3>2. threads[i] \in ThreadRecord
      BY <1>0
    <3> QED BY <3>1, <3>2 DEF ThreadRecord
  <2>3. threads' \in [Packages -> ThreadRecord]
    BY <1>0, <2>1, <2>2
  <2>4. loop' = [pc |-> waits, i |-> loop.i]
    BY <1>0, <2>1
  <2> QED BY <1>2, <2>2, <2>3, <2>4
<1> QED BY <1>1, <1>2

\* The loop moves within a package and touches no thread's place: the invariant is about where it
\* is (PerformDownload).
LEMMA LoopMoves ==
  ASSUME DownloadInv, NEW place \in LoopPlaces,
         loop' = [pc |-> place, i |-> loop.i], owner' \in {owner, loop.i},
         UNCHANGED <<freed, orphans, disk, taskStatus, flags, shown>>, alive' \in BOOLEAN,
         threads' \in [Packages -> ThreadRecord],
         \A i \in Packages :
           /\ threads'[i].pc = threads[i].pc /\ threads'[i].last = threads[i].last
           /\ threads'[i].start = threads[i].start /\ threads'[i].pos = threads[i].pos,
         ~freed => /\ place # "destroy"
                   /\ owner' = 0 => place \in {"look", "make"} /\ loop.i = 1
                   /\ \A i \in Packages : Active(i) =>
                        \/ place \in {"look", "make", "join"} /\ loop.i = i + 1
                        \/ place \in {"notify", "end"} /\ loop.i = i,
         loop.pc \in {"notify", "end"} => place \in {"notify", "end"}
  PROVE  DownloadInv'
<1> USE DEF DownloadInv
<1>1. loop' \in [pc : LoopPlaces, i : Packages] /\ loop'.pc = place /\ loop'.i = loop.i
  BY DEF LoopTypes
<1>2. LoopTypes'
  <2>1. owner' \in 0 .. Len(Sizes)
    BY PackageNumbers DEF LoopTypes
  <2> QED BY <1>1, <2>1 DEF LoopTypes
<1>3. OneThread'
  <2>1. \A i \in Packages : Active(i)' <=> Active(i)
    BY DEF Active
  <2>2. \A i \in Packages : Unstarted(i)' => Unstarted(i)
    BY <1>1 DEF Unstarted, LoopTypes, LoopPlaces
  <2> QED BY <1>1, <2>1, <2>2 DEF OneThread
<1>4. ShownIsLast' /\ TransferBounds'
  BY DEF ShownIsLast, TransferBounds, disk, flags
<1> QED BY <1>2, <1>3, <1>4

\* The loop looks at the file of a package and may end the download itself (LookAtFile).
LEMMA LookIsSafe == ASSUME DownloadInv, LookAtFile PROVE DownloadInv'
<1> USE DEF DownloadInv
<1>0. /\ loop.i \in Packages /\ loop.pc = "look" /\ alive' = alive /\ UNCHANGED flags
      /\ loop \in [pc : LoopPlaces, i : Packages] /\ threads \in [Packages -> ThreadRecord]
      /\ alive \in BOOLEAN
  BY DEF LookAtFile, LoopAt, LoopTypes, TransferBounds
<1>1. CASE file[loop.i] # Sizes[loop.i]
  <2>1. /\ loop' = [pc |-> "make", i |-> loop.i]
        /\ UNCHANGED <<threads, executor, disk, taskStatus, shown>>
    BY <1>0, <1>1 DEF LookAtFile
  <2>2. ~freed => /\ owner' = 0 => loop.i = 1
                  /\ \A i \in Packages : Active(i) => loop.i = i + 1
    BY <1>0, <2>1 DEF LoopTypes, OneThread, executor
  <2> QED BY <1>0, <2>1, <2>2, LoopMoves DEF LoopPlaces, executor
<1>2. CASE file[loop.i] = Sizes[loop.i]
  <2>1. PICK status \in Ends, left \in Nat :
          /\ EndDownload(loop.i, 100, status, left) /\ left <= Sizes[loop.i]
    <3>1. file[loop.i] \in Nat /\ Sizes[loop.i] \in Nat
      BY <1>0, PackageNumbers DEF TransferBounds
    <3> QED BY <1>2, <3>1 DEF LookAtFile, Ends, DOWNLOAD_FINISH_PERCENT
  <2>2. /\ orphans' = orphans \union {i \in Packages : Active(i)} \union ThroughFreed
        /\ LetGo("destroy", "make") /\ owner' = owner
    BY <1>2 DEF LookAtFile
  <2>3. /\ file' \in [Packages -> Nat] /\ \A j \in Packages : file'[j] <= Sizes[j]
        /\ removed' \subseteq Packages /\ taskStatus' \in TaskStatuses /\ freed' = TRUE
        /\ shown' \in [Packages -> Reports]
        /\ \A j \in Packages : shown'[j] = shown[j] \/ shown'[j].status # "DOWNLOADING"
    <3>1. 100 \in 0 .. 100
      OBVIOUS
    <3> QED BY <1>0, <2>1, <3>1, EndLeaves
  <2>4. /\ loop' = [pc |-> IF owner = 0 \/ freed THEN "make" ELSE "destroy", i |-> loop.i]
        /\ threads' \in [Packages -> ThreadRecord]
        /\ \A i \in Packages :
             /\ threads'[i].pc = threads[i].pc /\ threads'[i].last = threads[i].last
             /\ threads'[i].start = threads[i].start /\ threads'[i].pos = threads[i].pos
    BY <2>2, LetGoKeeps DEF LoopPlaces
  <2>5. ThroughFreed \subseteq Packages
    BY <1>0 DEF ThroughFreed
  <2>6. LoopTypes'
    BY <1>0, <2>2, <2>3, <2>4, <2>5 DEF LoopTypes, LoopPlaces
  <2>7. OneThread'
    <3>1. \A i \in Packages : Active(i)' <=> Active(i)
      BY <2>4 DEF Active
    <3>2. \A i \in Packages : Unstarted(i)' => Unstarted(i)
      BY <1>0, <2>4 DEF Unstarted
    <3>3. orphans' = {} => \A i \in Packages : ~Active(i)
      BY <2>2
    <3> QED BY <2>3, <2>4, <3>1, <3>2, <3>3 DEF OneThread
  <2>8. ShownIsLast'
    BY <2>3, <2>4 DEF ShownIsLast
  <2>9. TransferBounds'
    BY <1>0, <2>3, <2>4 DEF TransferBounds, flags
  <2> QED BY <2>6, <2>7, <2>8, <2>9
<1> QED BY <1>1, <1>2

\* The walk over the packages: while the flow is there the next thread is started after the last
\* one has ended (ExitThread).
LEMMA LoopIsSafe ==
  ASSUME DownloadInv, PerformDownload \/ UseAfterFree PROVE DownloadInv'
<1> USE DEF DownloadInv
<1>0. /\ loop.i \in Packages /\ loop.i \in Nat /\ loop.i <= Len(Sizes) /\ Len(Sizes) \in Nat
      /\ loop.i # 0 /\ loop \in [pc : LoopPlaces, i : Packages]
      /\ threads \in [Packages -> ThreadRecord] /\ alive \in BOOLEAN
  BY PackageNumbers DEF LoopTypes, TransferBounds
<1>1. CASE ReplaceThread
  <2> DEFINE next == IF owner = 0 \/ freed THEN "start" ELSE "join"
  <2>1. /\ loop.pc = "make" /\ owner' = loop.i /\ LetGo("join", "start")
        /\ UNCHANGED <<freed, orphans, alive, disk, taskStatus, flags, shown>>
    BY <1>1 DEF ReplaceThread, LoopAt
  <2>2. /\ loop' = [pc |-> next, i |-> loop.i]
        /\ threads' \in [Packages -> ThreadRecord]
        /\ \A i \in Packages :
             /\ threads'[i].pc = threads[i].pc /\ threads'[i].last = threads[i].last
             /\ threads'[i].start = threads[i].start /\ threads'[i].pos = threads[i].pos
    BY <2>1, LetGoKeeps DEF LoopPlaces
  <2>3. ~freed => \A i \in Packages : Active(i) => next = "join" /\ loop.i = i + 1
    <3>1. SUFFICES ASSUME ~freed, NEW i \in Packages, Active(i) PROVE next = "join" /\ loop.i = i + 1
      OBVIOUS
    <3>2. loop.i = i + 1 /\ i \in Nat /\ i # 0
      BY <2>1, <3>1, PackageNumbers DEF OneThread
    <3> QED BY <3>1, <3>2 DEF LoopTypes
  <2>4. next \in LoopPlaces /\ next # "destroy" /\ loop.pc = "make"
    BY <2>1 DEF LoopPlaces
  <2> HIDE DEF next
  <2> QED BY <1>0, <2>1, <2>2, <2>3, <2>4, LoopMoves
<1>2. CASE ExitThread
  <2>1. /\ loop.pc \in {"join", "destroy"} /\ threads[loop.i - 1].pc = "ended"
        /\ loop' = [pc |-> AfterExit, i |-> loop.i]
        /\ UNCHANGED <<executor, threads, alive, disk, taskStatus, flags, shown>>
    BY <1>0, <1>2 DEF ExitThread
  <2>2. ~freed => AfterExit = "start" /\ owner # 0 /\ \A i \in Packages : ~Active(i)
    <3>1. ASSUME ~freed, NEW i \in Packages, Active(i) PROVE FALSE
      <4>1. loop.i = i + 1 /\ i \in Nat
        BY <2>1, <3>1, PackageNumbers DEF OneThread
      <4>2. loop.i - 1 = i
        BY <4>1
      <4> QED BY <2>1, <3>1, <4>2 DEF Active
    <3> QED BY <2>1, <3>1 DEF LoopTypes, AfterExit
  <2>3. AfterExit \in LoopPlaces
    BY DEF AfterExit, LoopPlaces
  <2> QED BY <1>0, <2>1, <2>2, <2>3, LoopMoves DEF executor
<1>3. CASE NotifyStart
  <2>1. /\ loop.pc = "notify" /\ loop' = [pc |-> "end", i |-> loop.i]
        /\ UNCHANGED <<executor, threads, alive, disk, taskStatus, flags, shown>>
    BY <1>0, <1>3 DEF NotifyStart, LoopAt
  <2>2. ~freed => owner # 0 /\ \A i \in Packages : Active(i) => loop.i = i
    BY <2>1 DEF LoopTypes, OneThread
  <2> QED BY <1>0, <2>1, <2>2, LoopMoves DEF executor, LoopPlaces
<1>4. CASE UseAfterFree
  <2>1. /\ freed /\ alive' \in BOOLEAN
        /\ \/ loop' = [pc |-> "end", i |-> loop.i]
           \/ loop' = [pc |-> loop.pc, i |-> loop.i]
        /\ UNCHANGED <<executor, threads, disk, taskStatus, flags, shown>>
    BY <1>0, <1>4 DEF UseAfterFree
  <2>2. loop.pc \in LoopPlaces /\ "end" \in LoopPlaces
    BY <1>0 DEF LoopPlaces
  <2> QED BY <1>0, <2>1, <2>2, LoopMoves DEF executor
<1>5. CASE StartDownload
  <2> DEFINE t == [threads[loop.i] EXCEPT !.pc = "waiting", !.wake = TRUE]
  <2>1. /\ threads' = [threads EXCEPT ![loop.i] = t] /\ loop' = NextPackage /\ loop.pc = "start"
        /\ orphans' = orphans \union ThroughFreed
        /\ UNCHANGED <<owner, freed, alive, disk, taskStatus, flags, shown>>
    BY <1>5 DEF StartDownload, StartProgress, LoopAt
  <2>2. /\ t \in ThreadRecord /\ t.pc = "waiting" /\ t.last = threads[loop.i].last
        /\ t.start = threads[loop.i].start /\ t.pos = threads[loop.i].pos
    <3>1. threads[loop.i] \in ThreadRecord
      BY <1>0
    <3> QED BY <3>1 DEF ThreadRecord
  <2> HIDE DEF t
  <2>3. threads[loop.i].pc = "none"
    BY <1>0, <2>1 DEF OneThread, Unstarted
  <2>4. /\ loop' \in [pc : LoopPlaces, i : Packages]
        /\ \/ loop'.pc = "look" /\ loop'.i = loop.i + 1
           \/ loop'.pc = "notify" /\ loop'.i = loop.i
    <3>1. CASE loop.i < Len(Sizes)
      <4>1. loop.i + 1 \in Packages
        BY <1>0, <3>1, PackageNumbers
      <4> QED BY <2>1, <3>1, <4>1 DEF NextPackage, LoopPlaces
    <3>2. CASE ~(loop.i < Len(Sizes))
      <4>1. loop' = [pc |-> "notify", i |-> loop.i]
        BY <1>0, <2>1, <3>2 DEF NextPackage
      <4> QED BY <1>0, <4>1 DEF LoopPlaces
    <3> QED BY <3>1, <3>2
  <2>5. threads' \in [Packages -> ThreadRecord]
    BY <1>0, <2>1, <2>2
  <2>6. LoopTypes'
    <3>1. ~freed => owner # 0
      BY <2>1 DEF LoopTypes
    <3>2. orphans' \subseteq Packages
      BY <1>0, <2>1 DEF LoopTypes, ThroughFreed
    <3> QED BY <2>1, <2>4, <2>5, <3>1, <3>2 DEF LoopTypes
  <2>7. \A i \in Packages : i # loop.i => threads'[i] = threads[i]
    BY <1>0, <2>1
  <2>8. OneThread'
    <3>1. \A i \in Packages : Unstarted(i)' => Unstarted(i) /\ i # loop.i
      BY <1>0, <2>1, <2>4, PackageNumbers DEF Unstarted
    <3>2. \A i \in Packages : Unstarted(i)' => threads'[i].pc = "none"
      BY <2>7, <3>1 DEF OneThread
    <3>3. ~freed => \A i \in Packages : Active(i)' => i = loop.i
      BY <2>1, <2>7 DEF OneThread, Active
    <3>4. freed => orphans' # {}
      BY <2>1 DEF ThroughFreed
    <3> QED BY <2>1, <2>4, <3>2, <3>3, <3>4 DEF OneThread
  <2>9. threads'[loop.i] = t
    BY <1>0, <2>1
  <2>10. ShownIsLast'
    BY <2>1, <2>2, <2>7, <2>9 DEF ShownIsLast
  <2>11. TransferBounds'
    <3>1. \A i \in Packages :
            /\ threads'[i].start + threads'[i].pos <= Sizes[i]
            /\ threads'[i].pc \in {"none", "waiting", "open"} => threads'[i].pos = 0
      BY <1>0, <2>2, <2>3, <2>7, <2>9 DEF TransferBounds
    <3> QED BY <2>1, <3>1 DEF TransferBounds, disk, flags
  <2> QED BY <2>6, <2>8, <2>10, <2>11
<1> QED BY <1>1, <1>2, <1>3, <1>4, <1>5, LookIsSafe DEF PerformDownload

\* A step of a thread on its own object and its own file, which may report progress.
LEMMA OwnStep ==
  ASSUME DownloadInv, NEW i \in Packages, Active(i), NEW t \in ThreadRecord,
         threads' = [threads EXCEPT ![i] = t], t.pc # "none",
         t.start + t.pos <= Sizes[i], t.pc \in {"waiting", "open"} => t.pos = 0,
         UNCHANGED <<loop, executor, alive, flags>>,
         file' = file \/ \E n \in Nat : n <= Sizes[i] /\ file' = [file EXCEPT ![i] = n],
         removed' \subseteq removed, taskStatus' \in TaskStatuses,
         \/ t.last = threads[i].last /\ shown' = shown
         \/ t.last \in Reports /\ shown' = [shown EXCEPT ![i] = t.last]
  PROVE  DownloadInv'
<1> USE DEF DownloadInv
<1>1. /\ threads'[i] = t /\ \A j \in Packages : j # i => threads'[j] = threads[j]
      /\ threads' \in [Packages -> ThreadRecord]
  BY DEF LoopTypes
<1>2. LoopTypes'
  BY <1>1 DEF LoopTypes, executor
<1>3. OneThread'
  <2>1. ~Unstarted(i) /\ ~(freed /\ orphans = {})
    BY DEF OneThread, Active
  <2>2. \A j \in Packages : Active(j)' => Active(j)
    BY <1>1 DEF Active
  <2>3. \A j \in Packages : Unstarted(j)' => threads'[j].pc = "none"
    BY <1>1, <2>1 DEF OneThread, Unstarted
  <2> QED BY <2>1, <2>2, <2>3 DEF OneThread, executor
<1>4. ShownIsLast'
  BY <1>1 DEF ShownIsLast
<1>5. TransferBounds'
  <2>1. file' \in [Packages -> Nat] /\ \A j \in Packages : file'[j] <= Sizes[j]
    BY DEF TransferBounds
  <2>2. t.pc \in {"none", "waiting", "open"} => t.pos = 0
    OBVIOUS
  <2> QED BY <1>1, <2>1, <2>2 DEF TransferBounds, flags
<1> QED BY <1>2, <1>3, <1>4, <1>5

\* The thread wakes, opens its file, transfers, reports and ends (progress_thread.cpp).
LEMMA ThreadIsSafe ==
  ASSUME DownloadInv, NEW i \in Packages, Thread(i) PROVE DownloadInv'
<1> USE DEF DownloadInv
<1>0. /\ threads[i] \in ThreadRecord /\ threads \in [Packages -> ThreadRecord]
      /\ file \in [Packages -> Nat] /\ taskStatus \in TaskStatuses
      /\ Sizes[i] \in Nat /\ Sizes[i] > 0 /\ 0 \in 0 .. 100 /\ 100 \in 0 .. 100
  BY PackageNumbers DEF LoopTypes, TransferBounds
<1>1. PICK start \in Nat, pos \in Nat, len \in Nat, size \in Nat :
        /\ start = threads[i].start /\ pos = threads[i].pos /\ len = file[i] /\ size = Sizes[i]
        /\ start + pos <= size /\ len <= size
        /\ threads[i].pc \in {"none", "waiting", "open"} => pos = 0
  BY <1>0 DEF ThreadRecord, TransferBounds
<1>2. Closed(i) \in Nat /\ Closed(i) <= Sizes[i]
  BY ClosedIsBounded
<1>3. CASE ExecuteThreadFunc(i)
  <2> DEFINE t == [threads[i] EXCEPT !.pc = IF threads[i].exit THEN "ended" ELSE "open", !.wake = FALSE]
  <2>1. /\ threads' = [threads EXCEPT ![i] = t] /\ threads[i].pc = "waiting"
        /\ UNCHANGED <<loop, executor, alive, disk, taskStatus, flags, shown>>
    BY <1>0, <1>3 DEF ExecuteThreadFunc, ThreadAt
  <2>2. /\ t \in ThreadRecord /\ t.pc \in {"ended", "open"} /\ t.last = threads[i].last
        /\ t.start = start /\ t.pos = pos
    BY <1>0, <1>1 DEF ThreadRecord
  <2>3. Active(i)
    BY <2>1 DEF Active
  <2> HIDE DEF t
  <2>4. t.start + t.pos <= Sizes[i] /\ t.pos = 0
    BY <1>1, <2>1, <2>2
  <2> QED BY <1>0, <2>1, <2>2, <2>3, <2>4, OwnStep DEF disk
<1>4. CASE ProcessThreadExecute(i)
  <2> DEFINE t == [threads[i] EXCEPT !.pc = "transfer", !.start = len]
  <2>1. /\ threads' = [threads EXCEPT ![i] = t] /\ threads[i].pc = "open"
        /\ removed' = removed \ {i}
        /\ UNCHANGED <<loop, executor, alive, file, taskStatus, flags, shown>>
    BY <1>0, <1>1, <1>4 DEF ProcessThreadExecute, ThreadAt
  <2>2. /\ t \in ThreadRecord /\ t.pc = "transfer" /\ t.last = threads[i].last
        /\ t.start = len /\ t.pos = pos
    BY <1>0, <1>1 DEF ThreadRecord
  <2>3. Active(i)
    BY <2>1 DEF Active
  <2> HIDE DEF t
  <2>4. t.start + t.pos <= Sizes[i]
    BY <1>1, <2>1, <2>2
  <2>5. removed' \subseteq removed
    BY <2>1
  <2> QED BY <1>0, <2>1, <2>2, <2>3, <2>4, <2>5, OwnStep
<1>5. CASE OpenFails(i)
  <2>1. Active(i) /\ file[i] \in Nat /\ file[i] <= Sizes[i] /\ "DOWNLOAD_FAIL" \in Ends
    BY <1>1, <1>5 DEF OpenFails, ThreadAt, Active, Ends
  <2>2. CASE DealAbnormal(i, 0, file[i])
    BY <1>0, <2>1, <2>2, EndIsSafe
  <2>3. CASE Finished(i, 0, "DOWNLOAD_FAIL", 0)
    BY <1>0, <2>1, <2>3, EndIsSafe
  <2>4. CASE ~DealAbnormal(i, 0, file[i]) /\ ~Finished(i, 0, "DOWNLOAD_FAIL", 0)
    <3>1. /\ alive' = FALSE /\ file' = [file EXCEPT ![i] = 0] /\ taskStatus' = "DOWNLOAD_FAIL"
          /\ UNCHANGED <<loop, threads, executor, removed, flags, shown>>
      BY <1>5, <2>4 DEF OpenFails
    <3>2. LoopTypes' /\ OneThread' /\ ShownIsLast'
      BY <3>1 DEF LoopTypes, OneThread, ShownIsLast, Active, Unstarted, executor
    <3>3. file' \in [Packages -> Nat] /\ \A j \in Packages : file'[j] <= Sizes[j]
      BY <1>0, <3>1 DEF TransferBounds
    <3> QED BY <3>1, <3>2, <3>3 DEF TransferBounds, TaskStatuses, flags
  <2> QED BY <2>2, <2>3, <2>4
<1>6. CASE WriteFunc(i)
  <2> DEFINE t == [threads[i] EXCEPT !.pos = pos + 1]
  <2>1. /\ threads' = [threads EXCEPT ![i] = t] /\ threads[i].pc = "transfer"
        /\ UNCHANGED <<loop, executor, alive, removed, taskStatus, flags, shown>>
    BY <1>0, <1>1, <1>6 DEF WriteFunc, ThreadAt
  <2>2. pos + 1 \in Nat
    OBVIOUS
  <2>3. /\ t \in ThreadRecord /\ t.pc = "transfer" /\ t.last = threads[i].last
        /\ t.start = start /\ t.pos = pos + 1
    BY <1>0, <1>1, <2>1, <2>2 DEF ThreadRecord
  <2>4. Active(i)
    BY <2>1 DEF Active
  <2>5. pos < size - start
    BY <1>1, <1>6 DEF WriteFunc, Total
  <2> HIDE DEF t
  <2>6. t.start + t.pos <= Sizes[i]
    BY <1>1, <2>3, <2>5
  <2>7. file' = file \/ \E n \in Nat : n <= Sizes[i] /\ file' = [file EXCEPT ![i] = n]
    <3>1. file' = file \/ \E n \in len .. start + pos + 1 : file' = [file EXCEPT ![i] = n]
      BY <1>1, <1>6 DEF WriteFunc
    <3>2. ASSUME NEW n \in len .. start + pos + 1 PROVE n \in Nat /\ n <= Sizes[i]
      BY <1>1, <2>5
    <3> QED BY <3>1, <3>2
  <2> QED BY <1>0, <2>1, <2>3, <2>4, <2>6, <2>7, OwnStep
<1>7. CASE DownloadProgress(i)
  <2>1. Active(i) /\ threads[i].pc = "transfer" /\ Percent(i) \in 0 .. 100
    BY <1>7, PercentIsBounded DEF DownloadProgress, ThreadAt, Active, DOWNLOAD_FINISH_PERCENT
  <2>2. CASE DealAbnormal(i, Percent(i), Closed(i))
    BY <1>2, <2>1, <2>2, EndIsSafe DEF Ends
  <2>3. CASE ~DealAbnormal(i, Percent(i), Closed(i))
    <3> DEFINE t == [threads[i] EXCEPT !.last = Progress(Percent(i), "DOWNLOADING")]
    <3>1. /\ threads' = [threads EXCEPT ![i] = t] /\ taskStatus' = Written("DOWNLOADING")
          /\ shown' = [shown EXCEPT ![i] = Progress(Percent(i), "DOWNLOADING")]
          /\ UNCHANGED <<loop, executor, alive, disk, flags>>
      BY <1>0, <1>7, <2>3 DEF DownloadProgress
    <3>2. Progress(Percent(i), "DOWNLOADING") \in Reports
      BY <2>1 DEF Progress, Reports
    <3>3. /\ t \in ThreadRecord /\ t.pc = "transfer" /\ t.start = start /\ t.pos = pos
          /\ t.last = Progress(Percent(i), "DOWNLOADING")
      BY <1>0, <1>1, <2>1 DEF ThreadRecord, Progress
    <3>4. taskStatus' \in TaskStatuses
      BY <3>1 DEF Written, TaskStatuses
    <3> HIDE DEF t
    <3> QED BY <1>1, <2>1, <3>1, <3>2, <3>3, <3>4, OwnStep DEF disk
  <2> QED BY <2>2, <2>3
<1>8. CASE CurlReturns(i)
  <2>1. Active(i) /\ "DOWNLOAD_FAIL" \in Ends
    BY <1>8 DEF CurlReturns, ThreadAt, Active, Ends
  <2> QED BY <1>0, <1>2, <1>8, <2>1, EndIsSafe DEF CurlReturns
<1>9. CASE CurlDone(i)
  <2>1. /\ Active(i) /\ "DOWNLOAD_FAIL" \in Ends /\ "DOWNLOAD_SUCCESS" \in Ends
        /\ file[i] \in Nat /\ file[i] <= Sizes[i]
    BY <1>1, <1>9 DEF CurlDone, ThreadAt, Active, Ends
  <2> QED BY <1>0, <1>9, <2>1, EndIsSafe DEF CurlDone, DOWNLOAD_FINISH_PERCENT
<1>10. CASE Flush(i)
  <2>1. /\ file' = [file EXCEPT ![i] = Closed(i)] /\ threads[i].pc = "transfer"
        /\ UNCHANGED <<loop, threads, executor, alive, removed, taskStatus, flags, shown>>
    BY <1>10 DEF Flush, ThreadAt
  <2>2. file' \in [Packages -> Nat] /\ \A j \in Packages : file'[j] <= Sizes[j]
    BY <1>0, <1>2, <2>1 DEF TransferBounds
  <2> QED BY <2>1, <2>2 DEF LoopTypes, OneThread, TransferBounds, ShownIsLast, Active, Unstarted,
                            executor, flags
<1> QED BY <1>3, <1>4, <1>5, <1>6, <1>7, <1>8, <1>9, <1>10 DEF Thread

\* Every step of a download preserves the invariant, however many packages it has.
LEMMA DownloadInvStep == DownloadInv /\ [DownloadNext]_downloadVars => DownloadInv'
<1> SUFFICES ASSUME DownloadInv, [DownloadNext]_downloadVars PROVE DownloadInv'
  OBVIOUS
<1>1. CASE PerformDownload \/ UseAfterFree
  BY <1>1, LoopIsSafe
<1>2. ASSUME NEW i \in Packages, Thread(i) PROVE DownloadInv'
  BY <1>2, ThreadIsSafe
<1>3. CASE DoCancelDownload \/ NetChanged \/ UNCHANGED downloadVars
  <2>1. /\ UNCHANGED <<loop, threads, executor, alive, disk, taskStatus, shown>>
        /\ isCancel' \in BOOLEAN /\ isNoNet' \in BOOLEAN
    BY <1>3 DEF DoCancelDownload, NetChanged, downloadVars, flags, DownloadInv, TransferBounds
  <2>2. LoopTypes' /\ OneThread' /\ ShownIsLast'
    BY <2>1 DEF executor, DownloadInv, LoopTypes, OneThread, ShownIsLast, Active, Unstarted
  <2>3. TransferBounds'
    BY <2>1 DEF disk, DownloadInv, TransferBounds
  <2> QED BY <2>2, <2>3 DEF DownloadInv
<1> QED BY <1>1, <1>2, <1>3 DEF DownloadNext

-----------------------------------------------------------------------------
\* The variables of a download keep their types: among them that no file grows beyond its package
\* and no report exceeds 100 (DownloadProgress).
THEOREM DownloadTypes == DownloadSpec => []DownloadTypeOK
<1>1. DownloadInv => DownloadTypeOK
  <2> SUFFICES ASSUME DownloadInv PROVE DownloadTypeOK
    OBVIOUS
  <2>1. ASSUME NEW i \in Packages
        PROVE  /\ threads[i] \in ThreadRecord /\ file[i] \in 0 .. Sizes[i]
               /\ threads[i].start \in 0 .. Sizes[i] /\ threads[i].pos \in 0 .. Sizes[i]
    <3>1. /\ threads[i] \in ThreadRecord /\ file[i] \in Nat /\ Sizes[i] \in Nat
          /\ threads[i].start + threads[i].pos <= Sizes[i] /\ file[i] <= Sizes[i]
      BY PackageNumbers DEF DownloadInv, LoopTypes, TransferBounds
    <3>2. threads[i].start \in Nat /\ threads[i].pos \in Nat
      BY <3>1 DEF ThreadRecord
    <3> QED BY <3>1, <3>2
  <2>2. \A i \in Packages : shown[i].percent \in 0 .. DOWNLOAD_FINISH_PERCENT
    BY DEF DownloadInv, ShownIsLast, Reports, DOWNLOAD_FINISH_PERCENT
  <2>3. /\ loop.pc \in {"look", "destroy", "make", "join", "start", "notify", "end"}
        /\ loop.i \in Packages /\ DOMAIN threads = Packages /\ freed \in BOOLEAN
        /\ owner \in 0 .. Len(Sizes) /\ orphans \subseteq Packages
    BY DEF DownloadInv, LoopTypes, LoopPlaces
  <2>4. \A i \in Packages :
          /\ threads[i].pc \in {"none", "waiting", "open", "transfer", "joins itself", "ended"}
          /\ threads[i].wake \in BOOLEAN /\ threads[i].exit \in BOOLEAN
    BY <2>1 DEF ThreadRecord
  <2>5. /\ removed \subseteq Packages /\ taskStatus \in TaskStatuses
        /\ alive \in BOOLEAN /\ isNoNet \in BOOLEAN /\ isCancel \in BOOLEAN
    BY DEF DownloadInv, TransferBounds
  <2> QED BY <2>1, <2>2, <2>3, <2>4, <2>5 DEF DownloadTypeOK, TaskStatuses
<1> QED BY DownloadInvInit, DownloadInvStep, <1>1, PTL DEF DownloadSpec

\* The threads follow each other: after the end that a package's thread reports, whoever would
\* write the task again or tell the client anything is the thread that ended it, unless the loop
\* goes on in the deleted executor (HandleComplete, ExitThread).
THEOREM EndAlwaysFinal == DownloadSpec => EndIsFinal
<1>1. DownloadInv /\ [DownloadNext]_downloadVars
        => [freed /\ orphans' = {} => UNCHANGED <<taskStatus, shown>>]_downloadVars
  <2> SUFFICES ASSUME DownloadInv, DownloadNext, freed, orphans' = {}
               PROVE  UNCHANGED <<taskStatus, shown>>
    OBVIOUS
  <2>1. CASE LookAtFile
    BY <2>1 DEF LookAtFile, ThroughFreed
  <2>2. CASE (PerformDownload /\ ~LookAtFile) \/ UseAfterFree
    BY <2>2 DEF PerformDownload, ReplaceThread, ExitThread, StartDownload, NotifyStart, UseAfterFree
  <2>3. ASSUME NEW i \in Packages, Thread(i) PROVE UNCHANGED <<taskStatus, shown>>
    <3>1. threads[i].pc \in {"waiting", "open", "transfer"} /\ orphans' = orphans
      BY <2>3 DEF Thread, ExecuteThreadFunc, ProcessThreadExecute, OpenFails, WriteFunc,
                  DownloadProgress, CurlReturns, Flush, CurlDone, ThreadAt, DealAbnormal, Finished,
                  Complete, executor
    <3> QED BY <3>1 DEF DownloadInv, OneThread, Active
  <2>4. CASE DoCancelDownload \/ NetChanged
    BY <2>4 DEF DoCancelDownload, NetChanged
  <2> QED BY <2>1, <2>2, <2>3, <2>4 DEF DownloadNext
<1> QED BY DownloadInvInit, DownloadInvStep, <1>1, PTL DEF DownloadSpec, EndIsFinal

\* The percent the client is shown of a package's transfer only grows, whatever the length of the
\* file says and however the packages' threads follow each other (DownloadProgress).
THEOREM PercentAlwaysGrows == DownloadSpec => PercentGrows
<1>1. DownloadInv /\ [DownloadNext]_downloadVars
        => [ \A i \in Packages :
               /\ shown'[i] # shown[i]
               /\ shown[i].status = "DOWNLOADING" /\ shown'[i].status = "DOWNLOADING"
               => shown[i].percent < shown'[i].percent ]_downloadVars
  <2> SUFFICES ASSUME DownloadInv, DownloadNext, NEW j \in Packages, shown'[j] # shown[j],
                      shown[j].status = "DOWNLOADING", shown'[j].status = "DOWNLOADING"
               PROVE  shown[j].percent < shown'[j].percent
    OBVIOUS
  <2>0. shown \in [Packages -> Reports]
    BY DEF DownloadInv, ShownIsLast
  <2>1. ASSUME NEW i \in Packages, NEW percent, NEW status, NEW left,
               EndDownload(i, percent, status, left), status # "DOWNLOADING"
        PROVE  FALSE
    <3>1. shown' = [shown EXCEPT ![i] = Progress(percent, status)]
      BY <2>1 DEF EndDownload
    <3>2. shown'[j] = shown[j] \/ shown'[j] = Progress(percent, status)
      BY <2>0, <3>1
    <3> QED BY <2>1, <3>2 DEF Progress
  <2>2. ~LookAtFile
    <3>1. loop.i \in Packages
      BY DEF DownloadInv, LoopTypes
    <3>2. ASSUME LookAtFile PROVE FALSE
      BY <2>1, <3>1, <3>2 DEF LookAtFile
    <3> QED BY <3>2
  <2>3. PICK i \in Packages : Thread(i)
    BY <2>2 DEF DownloadNext, PerformDownload, ReplaceThread, ExitThread, StartDownload, NotifyStart,
                UseAfterFree, DoCancelDownload, NetChanged
  <2>4. ASSUME NEW percent, NEW status, NEW left, status # "DOWNLOADING",
               DealAbnormal(i, percent, left) \/ Finished(i, percent, status, left)
        PROVE  FALSE
    BY <2>1, <2>4 DEF DealAbnormal, Finished, Complete
  <2>5. ~\E percent, left : DealAbnormal(i, percent, left)
    <3>1. ASSUME NEW percent, NEW left, DealAbnormal(i, percent, left) PROVE FALSE
      BY <2>4, <3>1
    <3> QED BY <3>1
  <2>6. /\ ~Finished(i, 0, "DOWNLOAD_FAIL", 0)
        /\ ~Finished(i, DOWNLOAD_FINISH_PERCENT, "DOWNLOAD_FAIL", 0)
        /\ ~Finished(i, DOWNLOAD_FINISH_PERCENT, "DOWNLOAD_SUCCESS", file[i])
    BY <2>4
  <2>7. DownloadProgress(i)
    BY <2>3, <2>5, <2>6 DEF Thread, ExecuteThreadFunc, ProcessThreadExecute, OpenFails, WriteFunc,
                            CurlReturns, Flush, CurlDone
  <2>8. /\ WorthReporting(threads[i].last, Percent(i)) /\ Total(i) > 0
        /\ shown' = [shown EXCEPT ![i] = Progress(Percent(i), "DOWNLOADING")]
    BY <2>5, <2>7 DEF DownloadProgress
  <2>9. i = j /\ shown'[j] = Progress(Percent(j), "DOWNLOADING")
    BY <2>0, <2>8
  <2>10. Percent(j) \in Int /\ threads[j].last.percent \in Int
    <3>1. Percent(j) \in 0 .. DOWNLOAD_FINISH_PERCENT
      BY <2>8, <2>9, PercentIsBounded
    <3>2. threads[j] \in ThreadRecord
      BY DEF DownloadInv, LoopTypes
    <3>3. threads[j].last.percent \in 0 .. 100
      BY <3>2 DEF ThreadRecord
    <3> QED BY <3>1, <3>3 DEF DOWNLOAD_FINISH_PERCENT
  <2>11. shown[j] = threads[j].last /\ shown'[j].percent = Percent(j)
    BY <2>9 DEF DownloadInv, ShownIsLast, Progress
  <2> QED BY <2>8, <2>9, <2>10, <2>11 DEF WorthReporting, DOWNLOAD_PERIOD_PERCENT
<1> QED BY DownloadInvInit, DownloadInvStep, <1>1, PTL DEF DownloadSpec, PercentGrows

-----------------------------------------------------------------------------
(***************************************************************************)
(* The tables.                                                             *)
(***************************************************************************)
\* Rows as they are inserted, and handlers.
TaskRows == [taskId : {Empty}, status : StatusCodes]
ComponentRows == [versionId : {Empty}, package : OfferedPackages,
                  url : Numbers \X Mirrors, status : StatusCodes]
HandlerRecords ==
  [pc : {"idle", "compare", "updateUrl", "deleteTask", "deleteComponents", "deleteFiles",
         "insertComponents", "insertTask", "answer"},
   what : {"none", "check", "undone", "same", "clear"},
   ver : Offers \union {NoVersion}, mirror : Mirrors, undisturbed : BOOLEAN]

\* The rows as sequences, and the types of the rest.
TablesTypes ==
  /\ tasks \in Seq(TaskRows) /\ comps \in Seq(ComponentRows)
  /\ files \subseteq OfferedPackages
  /\ h \in [Handlers -> HandlerRecords]
  /\ faults \in 0 .. MaxFaults /\ alone \in BOOLEAN

\* What a handler is called for, at each of its operations.
Called(x) ==
  /\ x.pc = "idle" => x.ver = NoVersion
  /\ x.pc \in {"compare", "updateUrl", "insertComponents", "insertTask"}
       => x.ver # NoVersion /\ x.what = "check"
  /\ x.pc \in {"deleteTask", "deleteComponents", "deleteFiles"}
       => x.what = "check" \/ (x.what = "clear" /\ x.ver = NoVersion)
  /\ x.pc = "answer" => x.what \in {"undone", "same", "check"}

\* What a handler that nobody disturbed knows of the rows.
Knows(x, taskRows, compRows) ==
  x.undisturbed =>
    /\ x.pc \in {"deleteComponents", "deleteFiles", "insertComponents", "insertTask"}
         => taskRows = <<>>
    /\ x.pc \in {"deleteFiles", "insertComponents"} => compRows = <<>>
    /\ x.pc \in {"updateUrl", "insertTask"} \/ (x.pc = "answer" /\ x.what # "undone")
         => PackagesIn(compRows) = PackagesOf(x.ver)
    /\ x.pc = "answer" /\ x.what = "check"
         => Len(taskRows) = IF x.ver = NoVersion THEN 0 ELSE 1

\* The inductive invariant of the tables: what the handlers are called for and know.
TablesInv ==
  TablesTypes /\ \A g \in Handlers : Called(h[g]) /\ Knows(h[g], tasks, comps)

-----------------------------------------------------------------------------
\* The codes of the statuses (UpgradeStatus).
LEMMA Codes ==
  /\ \A s \in DOMAIN UpgradeStatus : UpgradeStatus[s] \in StatusCodes
  /\ {"INIT", "CHECK_VERSION_SUCCESS", "DOWNLOADING", "DOWNLOAD_FAIL", "DOWNLOAD_SUCCESS"}
       = DOMAIN UpgradeStatus
BY DEF StatusCodes, UpgradeStatus

\* A handler at rest is called for nothing and knows nothing (TablesInit, AfterClear).
LEMMA IdleRecord ==
  /\ Idle \in HandlerRecords /\ Called(Idle)
  /\ \A t, c : Knows(Idle, t, c)
  /\ Idle.pc = "idle" /\ Idle.what = "none" /\ Idle.ver = NoVersion /\ Idle.undisturbed
BY TablesAssumption DEF Idle, HandlerRecords, Called, Knows

\* A query whose predicates every row satisfies finds the rows as they are (ReadDb).
LEMMA QueryFindsAll ==
  ASSUME NEW n \in Nat, NEW rows, rows = [i \in 1 .. n |-> rows[i]], NEW predicates,
         \A i \in 1 .. n : Matches(rows[i], predicates)
  PROVE  Query(rows, predicates) = [i \in 1 .. n |-> ParseDbValue(rows[i])]
<1>1. Found(rows, predicates) = 1 .. n
  BY DEF Found
<1>2. \A k \in 1 .. n : {j \in 1 .. n : j <= k} = 1 .. k
  OBVIOUS
<1>3. Cardinality(1 .. n) = n /\ \A k \in 1 .. n : Cardinality(1 .. k) = k
  BY FS_Interval
<1>4. ASSUME NEW k \in 1 .. n PROVE NthFound(1 .. n, k) = k
  <2>1. \A i \in 1 .. n : Cardinality({j \in 1 .. n : j <= i}) = i
    BY <1>2, <1>3
  <2> QED BY <2>1 DEF NthFound
<1>5. DEFINE found == [k \in 1 .. n |-> rows[NthFound(1 .. n, k)]]
<1>6. found = rows
  BY <1>4
<1>7. Query(rows, predicates) = ParseDbValues(found)
  BY <1>1, <1>3 DEF Query
<1> QED BY <1>6, <1>7 DEF ParseDbValues

\* The two queries of a comparison: all components share the versionId.
LEMMA QueryComponents ==
  ASSUME NEW rows \in Seq(ComponentRows)
  PROVE  /\ QueryAll(rows) = [i \in 1 .. Len(rows) |-> ParseDbValue(rows[i])]
         /\ QueryByVersionId(rows) = [i \in 1 .. Len(rows) |-> ParseDbValue(rows[i])]
<1>1. Len(rows) \in Nat /\ rows = [i \in 1 .. Len(rows) |-> rows[i]]
      /\ \A i \in 1 .. Len(rows) : rows[i] \in ComponentRows
  OBVIOUS
<1>2. \A i \in 1 .. Len(rows) : Matches(rows[i], <<>>)
  BY DEF Matches
<1>3. \A i \in 1 .. Len(rows) : Matches(rows[i], [versionId |-> Empty])
  BY <1>1 DEF Matches, ComponentRows
<1> QED BY <1>1, <1>2, <1>3, QueryFindsAll DEF QueryAll, QueryByVersionId

\* Parsing changes the status alone.
LEMMA ParseKeeps ==
  ASSUME NEW row \in ComponentRows PROVE ParseDbValue(row).package = row.package
BY DEF ParseDbValue, ComponentRows

\* The packages of the server's version.
LEMMA ServerPackages ==
  ASSUME NEW v \in Offers, NEW m
  PROVE  /\ Parts[v] \in Nat /\ Parts[v] > 0
         /\ 1 .. Parts[v] \subseteq Numbers /\ Parts[v] \in Numbers
         /\ \A i \in 1 .. Parts[v] : <<v, i>> \in OfferedPackages
         /\ PackagesOf(v) = [i \in 1 .. Parts[v] |-> <<v, i>>]
         /\ DOMAIN Server(v, m) = 1 .. Parts[v] /\ Len(Server(v, m)) = Parts[v]
         /\ \A i \in 1 .. Parts[v] : Server(v, m)[i].package = <<v, i>>
<1>1. Parts[v] \in Nat /\ Parts[v] > 0 /\ v # NoVersion
  BY TablesAssumption
<1>2. \A k : /\ DOMAIN Server(v, k) = 1 .. Parts[v] /\ Len(Server(v, k)) = Parts[v]
             /\ \A i \in 1 .. Parts[v] : Server(v, k)[i].package = <<v, i>>
  BY <1>1 DEF Server, Component
<1>3. PackagesOf(v) = [i \in 1 .. Parts[v] |-> <<v, i>>]
  BY <1>1, <1>2 DEF PackagesOf, PackagesIn
<1>4. 1 .. Parts[v] \subseteq Numbers /\ Parts[v] \in Numbers
  <2>1. 1 .. Parts[v] \subseteq Numbers
    BY DEF Numbers
  <2>2. Parts[v] \in 1 .. Parts[v]
    BY <1>1
  <2> QED BY <2>1, <2>2
<1>5. \A i \in 1 .. Parts[v] : <<v, i>> \in OfferedPackages
  BY <1>1, <1>4 DEF OfferedPackages
<1> QED BY <1>1, <1>2, <1>3, <1>4, <1>5

\* The comparison looks at the first row only, so that it succeeds for a version of one package
\* or not at all (IsVersionSameWithDb).
LEMMA SameMeansSame ==
  ASSUME NEW rows \in Seq(ComponentRows), NEW v \in Offers, NEW m
  PROVE  SameWithDb(rows, Server(v, m)) => Parts[v] = 1 /\ PackagesIn(rows) = PackagesOf(v)
<1>1. Parts[v] \in Nat /\ Parts[v] > 0
  BY ServerPackages
<1>2. /\ Len(QueryAll(rows)) = Len(rows) /\ Len(rows) \in Nat
      /\ \A i \in 1 .. Len(rows) : QueryByVersionId(rows)[i].package = rows[i].package
  BY QueryComponents, ParseKeeps
<1>3. DOMAIN rows = 1 .. Len(rows)
  OBVIOUS
<1>4. SameWithDb(rows, Server(v, m))
        <=> Len(rows) = Parts[v] /\ \A i \in 1 .. Parts[v] : rows[1].package = <<v, i>>
  BY <1>1, <1>2, ServerPackages DEF SameWithDb
<1> SUFFICES ASSUME SameWithDb(rows, Server(v, m))
             PROVE  Parts[v] = 1 /\ PackagesIn(rows) = PackagesOf(v)
  OBVIOUS
<1>5. PICK n \in Nat : n = Parts[v] /\ n > 0
  BY <1>1
<1>6. Len(rows) = n /\ DOMAIN rows = 1 .. n /\ \A i \in 1 .. n : rows[1].package = <<v, i>>
  BY <1>3, <1>4, <1>5
<1>7. n = 1
  <2>1. 1 \in 1 .. n /\ n \in 1 .. n
    BY <1>5
  <2>2. <<v, 1>> = <<v, n>>
    BY <1>6, <2>1
  <2> QED BY <2>2
<1>8. \A i \in 1 .. n : rows[i].package = <<v, i>>
  BY <1>6, <1>7
<1>9. PackagesIn(rows) = [i \in 1 .. n |-> <<v, i>>]
  BY <1>6, <1>8 DEF PackagesIn
<1> QED BY <1>5, <1>7, <1>9, ServerPackages

\* A version of one package that the table holds is recognised (IsVersionSameWithDb).
LEMMA OnePackageIsRecognised ==
  ASSUME NEW rows \in Seq(ComponentRows), NEW v \in Offers, NEW m, Parts[v] = 1,
         PackagesIn(rows) = PackagesOf(v)
  PROVE  SameWithDb(rows, Server(v, m))
<1>1. /\ Len(QueryAll(rows)) = Len(rows) /\ Len(rows) \in Nat
      /\ \A i \in 1 .. Len(rows) : QueryByVersionId(rows)[i].package = rows[i].package
  BY QueryComponents, ParseKeeps
<1>2. DOMAIN rows = 1 .. Len(rows)
  OBVIOUS
<1>3. [i \in DOMAIN rows |-> rows[i].package] = [i \in 1 .. 1 |-> <<v, i>>]
  BY ServerPackages DEF PackagesIn
<1>4. DOMAIN rows = 1 .. 1
  <2>1. DOMAIN [i \in DOMAIN rows |-> rows[i].package] = DOMAIN [i \in 1 .. 1 |-> <<v, i>>]
    BY <1>3
  <2> QED BY <2>1
<1>5. 1 \in 1 .. 1
  OBVIOUS
<1>6. rows[1].package = <<v, 1>> /\ Len(rows) = 1
  BY <1>1, <1>2, <1>3, <1>4, <1>5
<1> QED BY <1>1, <1>6, ServerPackages DEF SameWithDb

\* What is inserted are rows of the server's packages, each with a url of its own
\* (HandleNewVersion).
LEMMA InsertedRows ==
  ASSUME NEW v \in Offers, NEW m \in Mirrors
  PROVE  /\ BuildDbValues(Server(v, m)) \in Seq(ComponentRows)
         /\ PackagesIn(BuildDbValues(Server(v, m))) = PackagesOf(v)
         /\ \A i \in DOMAIN BuildDbValues(Server(v, m)) :
              BuildDbValues(Server(v, m))[i].url[1] = BuildDbValues(Server(v, m))[i].package[2]
<1>1. Parts[v] \in Nat /\ \A i \in 1 .. Parts[v] : Component(v, i, m).status = "INIT"
  BY ServerPackages DEF Component
<1>2. \A i \in 1 .. Parts[v] : /\ BuildDbValue(Component(v, i, m)) \in ComponentRows
                            /\ BuildDbValue(Component(v, i, m)).package = <<v, i>>
                            /\ BuildDbValue(Component(v, i, m)).url = <<i, m>>
  BY <1>1, Codes, ServerPackages DEF BuildDbValue, Component, ComponentRows
<1>3. BuildDbValues(Server(v, m)) = [i \in 1 .. Parts[v] |-> BuildDbValue(Component(v, i, m))]
  BY <1>1 DEF BuildDbValues, Server
<1>4. BuildDbValues(Server(v, m)) \in Seq(ComponentRows)
  BY <1>1, <1>2, <1>3
<1>5. PackagesIn(BuildDbValues(Server(v, m))) = [i \in 1 .. Parts[v] |-> <<v, i>>]
  BY <1>2, <1>3 DEF PackagesIn
<1>6. \A i \in DOMAIN BuildDbValues(Server(v, m)) :
        BuildDbValues(Server(v, m))[i].url[1] = BuildDbValues(Server(v, m))[i].package[2]
  BY <1>2, <1>3
<1> QED BY <1>4, <1>5, <1>6, ServerPackages

\* The task that is inserted is a row (HandleNewVersion, BuildTask).
LEMMA InsertedTask == BuildTask("CHECK_VERSION_SUCCESS") \in TaskRows
BY Codes DEF BuildTask, BuildDbValue, TaskRows

\* An update writes one column, never a package, and keeps the rows (UpdateDb).
LEMMA UpdateKeepsRows ==
  /\ \A url : \A s \in DOMAIN UpgradeStatus :
       comps \in Seq(ComponentRows) =>
         /\ UpdateProgressByUrl(url, s) \in Seq(ComponentRows)
         /\ PackagesIn(UpdateProgressByUrl(url, s)) = PackagesIn(comps)
  /\ \A url \in Numbers \X Mirrors :
       comps \in Seq(ComponentRows) =>
         /\ UpdateUrlByVersionId(url) \in Seq(ComponentRows)
         /\ PackagesIn(UpdateUrlByVersionId(url)) = PackagesIn(comps)
  /\ \A s \in DOMAIN UpgradeStatus :
       tasks \in Seq(TaskRows) =>
         /\ UpdateByTaskId(s) \in Seq(TaskRows)
         /\ UpdateByTaskId(s) = <<>> <=> tasks = <<>>
<1>1. ASSUME NEW predicates, NEW column \in {"status", "url"}, NEW value,
             column = "status" => value \in StatusCodes,
             column = "url" => value \in Numbers \X Mirrors,
             comps \in Seq(ComponentRows)
      PROVE  /\ Update(comps, predicates, column, value) \in Seq(ComponentRows)
             /\ PackagesIn(Update(comps, predicates, column, value)) = PackagesIn(comps)
  <2>1. Len(comps) \in Nat /\ DOMAIN comps = 1 .. Len(comps)
        /\ \A i \in 1 .. Len(comps) : comps[i] \in ComponentRows
    BY <1>1
  <2>2. \A i \in 1 .. Len(comps) :
          /\ [comps[i] EXCEPT ![column] = value] \in ComponentRows
          /\ [comps[i] EXCEPT ![column] = value].package = comps[i].package
    <3>1. CASE column = "status"
      BY <1>1, <2>1, <3>1 DEF ComponentRows
    <3>2. CASE column = "url"
      BY <1>1, <2>1, <3>2 DEF ComponentRows
    <3> QED BY <1>1, <3>1, <3>2
  <2> DEFINE row(i) == IF Matches(comps[i], predicates)
                       THEN [comps[i] EXCEPT ![column] = value] ELSE comps[i]
  <2>3. Update(comps, predicates, column, value) = [i \in 1 .. Len(comps) |-> row(i)]
    BY <2>1 DEF Update
  <2>4. \A i \in 1 .. Len(comps) : row(i) \in ComponentRows /\ row(i).package = comps[i].package
    BY <2>1, <2>2
  <2> HIDE DEF row
  <2> QED BY <2>1, <2>3, <2>4 DEF PackagesIn
<1>2. ASSUME NEW predicates, NEW value \in StatusCodes, tasks \in Seq(TaskRows)
      PROVE  /\ Update(tasks, predicates, "status", value) \in Seq(TaskRows)
             /\ Update(tasks, predicates, "status", value) = <<>> <=> tasks = <<>>
  <2>1. Len(tasks) \in Nat /\ DOMAIN tasks = 1 .. Len(tasks)
        /\ \A i \in 1 .. Len(tasks) : tasks[i] \in TaskRows
    BY <1>2
  <2> DEFINE row(i) == IF Matches(tasks[i], predicates)
                       THEN [tasks[i] EXCEPT !["status"] = value] ELSE tasks[i]
  <2>2. Update(tasks, predicates, "status", value) = [i \in 1 .. Len(tasks) |-> row(i)]
    BY <2>1 DEF Update
  <2>3. \A i \in 1 .. Len(tasks) : row(i) \in TaskRows
    BY <1>2, <2>1 DEF TaskRows
  <2> HIDE DEF row
  <2>4. [i \in 1 .. Len(tasks) |-> row(i)] \in Seq(TaskRows)
    BY <2>1, <2>3
  <2>5. [i \in 1 .. Len(tasks) |-> row(i)] = <<>> <=> tasks = <<>>
    <3>1. Len([i \in 1 .. Len(tasks) |-> row(i)]) = Len(tasks)
      BY <2>1
    <3> QED BY <1>2, <2>4, <3>1
  <2> QED BY <2>2, <2>4, <2>5
<1> QED BY <1>1, <1>2, Codes DEF UpdateProgressByUrl, UpdateUrlByVersionId, UpdateByTaskId

-----------------------------------------------------------------------------
\* A step of one handler disturbs the others: what they knew they no longer say they know.
LEMMA MoveKeeps ==
  ASSUME TablesInv, NEW g \in Handlers, NEW next \in HandlerRecords, Moves(g, next),
         Called(next), Knows(next, tasks', comps'),
         tasks' \in Seq(TaskRows), comps' \in Seq(ComponentRows),
         files' \subseteq OfferedPackages, faults' \in 0 .. MaxFaults
  PROVE  TablesInv'
<1>1. h' = [k \in Handlers |-> IF k = g THEN next ELSE [h[k] EXCEPT !.undisturbed = FALSE]]
  BY DEF Moves
<1>2. alone' \in BOOLEAN
  BY DEF Moves, TablesInv, TablesTypes
<1>3. ASSUME NEW k \in Handlers, k # g
      PROVE  /\ h'[k] \in HandlerRecords /\ Called(h'[k]) /\ ~h'[k].undisturbed
  <2>1. h[k] \in HandlerRecords /\ Called(h[k])
    BY DEF TablesInv, TablesTypes
  <2> DEFINE x == [h[k] EXCEPT !.undisturbed = FALSE]
  <2>2. /\ x \in HandlerRecords /\ x.pc = h[k].pc /\ x.what = h[k].what /\ x.ver = h[k].ver
        /\ ~x.undisturbed
    BY <2>1 DEF HandlerRecords
  <2>3. h'[k] = x
    BY <1>1, <1>3
  <2> HIDE DEF x
  <2> QED BY <2>1, <2>2, <2>3 DEF Called
<1>4. \A k \in Handlers : h'[k] \in HandlerRecords /\ Called(h'[k]) /\ Knows(h'[k], tasks', comps')
  BY <1>1, <1>3 DEF Knows
<1>5. TablesTypes'
  BY <1>1, <1>2, <1>4 DEF TablesTypes
<1> QED BY <1>4, <1>5 DEF TablesInv

\* An operation that fails changes no row and is no longer undisturbed.
LEMMA FailureKeeps ==
  ASSUME TablesInv, NEW g \in Handlers, NEW next \in HandlerRecords, Called(next),
         OperationFails(g, next)
  PROVE  TablesInv'
<1> DEFINE x == [next EXCEPT !.undisturbed = FALSE]
<1>1. /\ x \in HandlerRecords /\ x.pc = next.pc /\ x.what = next.what /\ x.ver = next.ver
      /\ ~x.undisturbed
  BY DEF HandlerRecords
<1>2. Moves(g, x) /\ UNCHANGED <<tasks, comps, files>> /\ faults < MaxFaults /\ faults' = faults + 1
  BY DEF OperationFails, tables
<1>3. faults \in Nat /\ MaxFaults \in Nat
  BY TablesAssumption DEF TablesInv, TablesTypes
<1>4. faults' \in 0 .. MaxFaults
  BY <1>2, <1>3
<1> HIDE DEF x
<1>5. Called(x) /\ Knows(x, tasks', comps')
  BY <1>1 DEF Called, Knows
<1> QED BY <1>1, <1>2, <1>4, <1>5, MoveKeeps DEF TablesInv, TablesTypes

\* A query that may fail counts its failure.
LEMMA ReadCounts ==
  ASSUME TablesInv, NEW rows, NEW found \in Read(rows), CountFault(rows, found)
  PROVE  faults' \in 0 .. MaxFaults
<1>1. faults \in 0 .. MaxFaults /\ MaxFaults \in Nat
  BY TablesAssumption DEF TablesInv, TablesTypes
<1>2. CASE found = rows
  BY <1>1, <1>2 DEF CountFault
<1>3. CASE found # rows
  <2>1. faults < MaxFaults /\ faults' = faults + 1
    BY <1>3 DEF Read, CountFault
  <2> QED BY <1>1, <2>1
<1> QED BY <1>2, <1>3

\* A handler's record with another place.
LEMMA GoingTo ==
  ASSUME TablesInv, NEW g \in Handlers,
         NEW place \in {"idle", "compare", "updateUrl", "deleteTask", "deleteComponents", "deleteFiles",
                     "insertComponents", "insertTask", "answer"}
  PROVE  /\ Going(g, place) \in HandlerRecords /\ Going(g, place).pc = place
         /\ Going(g, place).what = h[g].what /\ Going(g, place).ver = h[g].ver
         /\ Going(g, place).mirror = h[g].mirror
         /\ Going(g, place).undisturbed = h[g].undisturbed
BY DEF Going, TablesInv, TablesTypes, HandlerRecords

\* Every step preserves the invariant (HandleCheckResult to BuildCheckResult, ClearFirmwareInfo).
LEMMA TablesInvStep == TablesInv /\ [TablesNext]_tableVars => TablesInv'
<1> SUFFICES ASSUME TablesInv, [TablesNext]_tableVars PROVE TablesInv'
  OBVIOUS
<1>0. /\ tasks \in Seq(TaskRows) /\ comps \in Seq(ComponentRows)
      /\ files \subseteq OfferedPackages /\ faults \in 0 .. MaxFaults
      /\ \A g \in Handlers : h[g] \in HandlerRecords /\ Called(h[g]) /\ Knows(h[g], tasks, comps)
      /\ <<>> \in Seq(TaskRows) /\ <<>> \in Seq(ComponentRows)
      /\ NoVersion \notin Offers
  BY TablesAssumption DEF TablesInv, TablesTypes
<1>1. ASSUME NEW g \in Handlers, NEW v \in Offers \union {NoVersion}, NEW m \in Mirrors,
             HandleCheckResult(g, v, m)
      PROVE  TablesInv'
  <2>1. PICK found \in Read(tasks) : CountFault(tasks, found) /\
          LET start == [Idle EXCEPT !.ver = v, !.mirror = m, !.undisturbed = found = tasks] IN
          Moves(g, IF HasUndoneTask(found) THEN [start EXCEPT !.pc = "answer", !.what = "undone"]
                   ELSE [start EXCEPT !.pc = IF v = NoVersion THEN "deleteTask" ELSE "compare",
                                      !.what = "check"])
    BY <1>1 DEF HandleCheckResult
  <2>2. PICK place \in {"answer", "deleteTask", "compare"}, what \in {"undone", "check"},
             undisturbed \in BOOLEAN :
          /\ Moves(g, [pc |-> place, what |-> what, ver |-> v, mirror |-> m, undisturbed |-> undisturbed])
          /\ place = "answer" <=> what = "undone"
          /\ place = "compare" => v # NoVersion
          /\ place = "deleteTask" => v = NoVersion
    BY <2>1 DEF Idle
  <2> DEFINE next == [pc |-> place, what |-> what, ver |-> v, mirror |-> m, undisturbed |-> undisturbed]
  <2>3. next \in HandlerRecords /\ Called(next) /\ Knows(next, tasks', comps')
    BY <2>2 DEF HandlerRecords, Called, Knows
  <2>4. faults' \in 0 .. MaxFaults
    BY <2>1, ReadCounts
  <2> HIDE DEF next
  <2> QED BY <1>0, <1>1, <2>2, <2>3, <2>4, MoveKeeps DEF HandleCheckResult, tables, next
<1>2. ASSUME NEW g \in Handlers, ClearFirmwareInfo(g) PROVE TablesInv'
  <2> DEFINE next == [Idle EXCEPT !.pc = "deleteTask", !.what = "clear"]
  <2>1. next \in HandlerRecords /\ Called(next) /\ Knows(next, tasks', comps')
    BY IdleRecord DEF HandlerRecords, Called, Knows
  <2> HIDE DEF next
  <2>2. Moves(g, next) /\ UNCHANGED <<tasks, comps, files, faults>>
    BY <1>2 DEF ClearFirmwareInfo, tables, next
  <2> QED BY <1>0, <2>1, <2>2, MoveKeeps
<1>3. ASSUME NEW g \in Handlers, IsVersionSameWithDb(g) PROVE TablesInv'
  <2>1. h[g].pc = "compare" /\ h[g].what = "check" /\ h[g].ver \in Offers /\ h[g].mirror \in Mirrors
    BY <1>0, <1>3 DEF IsVersionSameWithDb, HandlerAt, Called, HandlerRecords
  <2>2. PICK found \in Read(comps) :
          /\ CountFault(comps, found)
          /\ LET next == IF SameWithDb(found, Server(h[g].ver, h[g].mirror)) THEN "updateUrl" ELSE "deleteTask" IN
             Moves(g, [h[g] EXCEPT !.pc = next, !.undisturbed = @ /\ found = comps])
    BY <1>3 DEF IsVersionSameWithDb
  <2> DEFINE same == SameWithDb(found, Server(h[g].ver, h[g].mirror))
  <2>3. PICK place \in {"updateUrl", "deleteTask"} : place = IF same THEN "updateUrl" ELSE "deleteTask"
    OBVIOUS
  <2> DEFINE next == [h[g] EXCEPT !.pc = place, !.undisturbed = @ /\ found = comps]
  <2>4. Moves(g, next)
    BY <2>2, <2>3
  <2>5. /\ next \in HandlerRecords /\ next.pc = place /\ next.what = "check" /\ next.ver = h[g].ver
        /\ next.undisturbed => found = comps
    BY <1>0, <2>1, <2>3 DEF HandlerRecords
  <2> HIDE DEF next
  <2>6. place = "updateUrl" /\ found = comps => PackagesIn(comps) = PackagesOf(h[g].ver)
    BY <1>0, <2>1, <2>3, SameMeansSame
  <2>7. UNCHANGED <<tasks, comps, files>> /\ faults' \in 0 .. MaxFaults
    BY <1>3, <2>2, ReadCounts DEF IsVersionSameWithDb, tables
  <2>8. Called(next) /\ Knows(next, tasks', comps')
    <3>1. Called(next)
      BY <1>0, <2>1, <2>3, <2>5 DEF Called
    <3>2. Knows(next, tasks', comps')
      BY <2>3, <2>5, <2>6, <2>7 DEF Knows
    <3> QED BY <3>1, <3>2
  <2> QED BY <1>0, <2>4, <2>5, <2>7, <2>8, MoveKeeps
<1>4. ASSUME NEW g \in Handlers, UpdateFirmwareComponent(g) PROVE TablesInv'
  <2>1. /\ h[g].pc = "updateUrl" /\ h[g].what = "check" /\ h[g].mirror \in Mirrors
        /\ h[g].ver \in Offers
    BY <1>0, <1>4 DEF UpdateFirmwareComponent, HandlerAt, Called, HandlerRecords
  <2> DEFINE next == [Going(g, "answer") EXCEPT !.what = "same"]
  <2>2. /\ Going(g, "answer") \in HandlerRecords /\ Going(g, "answer").pc = "answer"
        /\ Going(g, "answer").what = "check"
        /\ next \in HandlerRecords /\ next.pc = "answer" /\ next.what = "same"
        /\ next.ver = h[g].ver /\ next.undisturbed = h[g].undisturbed
    BY <2>1, GoingTo DEF HandlerRecords
  <2> HIDE DEF next
  <2>3. CASE OperationFails(g, Going(g, "answer"))
    BY <2>2, <2>3, FailureKeeps DEF Called
  <2>4. CASE /\ comps' = IF QueryTask(tasks) = "CHECK_VERSION_SUCCESS"
                         THEN UpdateUrlByVersionId(<<Parts[h[g].ver], h[g].mirror>>) ELSE comps
             /\ Moves(g, next) /\ UNCHANGED <<tasks, files, faults>>
    <3>1. <<Parts[h[g].ver], h[g].mirror>> \in Numbers \X Mirrors
      BY <2>1, ServerPackages
    <3>2. comps' \in Seq(ComponentRows) /\ PackagesIn(comps') = PackagesIn(comps)
      BY <1>0, <2>4, <3>1, UpdateKeepsRows
    <3>3. Called(next) /\ Knows(next, tasks', comps')
      BY <1>0, <2>1, <2>2, <2>4, <3>2 DEF Called, Knows
    <3> QED BY <1>0, <2>2, <2>4, <3>2, <3>3, MoveKeeps
  <2> QED BY <1>4, <2>3, <2>4 DEF UpdateFirmwareComponent, next
<1>5. ASSUME NEW g \in Handlers, DeleteTask(g) PROVE TablesInv'
  <2>1. h[g].pc = "deleteTask"
    BY <1>5 DEF DeleteTask, HandlerAt
  <2> DEFINE next == Going(g, "deleteComponents")
  <2>2. /\ next \in HandlerRecords /\ next.pc = "deleteComponents" /\ next.what = h[g].what
        /\ next.ver = h[g].ver /\ next.undisturbed = h[g].undisturbed
    BY GoingTo
  <2> HIDE DEF next
  <2>3. Called(next)
    BY <1>0, <2>1, <2>2 DEF Called
  <2>4. CASE OperationFails(g, next)
    BY <2>2, <2>3, <2>4, FailureKeeps
  <2>5. CASE tasks' = <<>> /\ Moves(g, next) /\ UNCHANGED <<comps, files, faults>>
    <3>1. Knows(next, tasks', comps')
      BY <2>2, <2>5 DEF Knows
    <3> QED BY <1>0, <2>2, <2>3, <2>5, <3>1, MoveKeeps
  <2> QED BY <1>5, <2>4, <2>5 DEF DeleteTask, next
<1>6. ASSUME NEW g \in Handlers, DeleteComponents(g) PROVE TablesInv'
  <2>1. h[g].pc = "deleteComponents"
    BY <1>6 DEF DeleteComponents, HandlerAt
  <2> DEFINE next == Going(g, "deleteFiles")
  <2>2. /\ next \in HandlerRecords /\ next.pc = "deleteFiles" /\ next.what = h[g].what
        /\ next.ver = h[g].ver /\ next.undisturbed = h[g].undisturbed
    BY GoingTo
  <2> HIDE DEF next
  <2>3. Called(next)
    BY <1>0, <2>1, <2>2 DEF Called
  <2>4. CASE OperationFails(g, next)
    BY <2>2, <2>3, <2>4, FailureKeeps
  <2>5. CASE comps' = <<>> /\ Moves(g, next) /\ UNCHANGED <<tasks, files, faults>>
    <3>1. Knows(next, tasks', comps')
      BY <1>0, <2>1, <2>2, <2>5 DEF Knows
    <3> QED BY <1>0, <2>2, <2>3, <2>5, <3>1, MoveKeeps
  <2> QED BY <1>6, <2>4, <2>5 DEF DeleteComponents, next
<1>7. ASSUME NEW g \in Handlers, DeleteFiles(g) PROVE TablesInv'
  <2>1. h[g].pc = "deleteFiles"
    BY <1>7 DEF DeleteFiles, HandlerAt
  <2>2. PICK next \in HandlerRecords :
          /\ next = AfterClear(g)
          /\ \/ next = Idle
             \/ /\ next.pc = (IF h[g].ver = NoVersion THEN "answer" ELSE "insertComponents")
                /\ next.what = h[g].what /\ next.what # "clear"
                /\ next.ver = h[g].ver /\ next.undisturbed = h[g].undisturbed
    <3>1. CASE h[g].what = "clear"
      BY <3>1, IdleRecord DEF AfterClear
    <3>2. CASE h[g].what # "clear"
      BY <3>2, GoingTo DEF AfterClear
    <3> QED BY <3>1, <3>2
  <2>3. Called(next)
    BY <1>0, <2>1, <2>2, IdleRecord DEF Called
  <2>4. CASE OperationFails(g, next)
    BY <2>3, <2>4, FailureKeeps
  <2>5. CASE files' = {} /\ Moves(g, next) /\ UNCHANGED <<tasks, comps, faults>>
    <3>1. CASE next = Idle
      BY <1>0, <2>3, <2>5, <3>1, IdleRecord, MoveKeeps
    <3>2. CASE next # Idle
      <4>1. h[g].undisturbed => tasks = <<>> /\ comps = <<>>
        BY <1>0, <2>1 DEF Knows
      <4>2. PackagesIn(<<>>) = PackagesOf(NoVersion) /\ Len(<<>>) = 0
        BY DEF PackagesIn, PackagesOf
      <4>3. Knows(next, tasks', comps')
        <5>1. CASE h[g].ver = NoVersion
          <6>1. /\ next.pc = "answer" /\ next.ver = NoVersion
                /\ next.undisturbed => tasks' = <<>> /\ comps' = <<>>
            BY <2>2, <2>5, <3>2, <4>1, <5>1
          <6>2. next.undisturbed
                  => PackagesIn(comps') = PackagesOf(next.ver) /\ Len(tasks') = 0 /\ tasks' = <<>>
            BY <4>2, <6>1
          <6> QED BY <6>1, <6>2 DEF Knows
        <5>2. CASE h[g].ver # NoVersion
          BY <2>2, <2>5, <3>2, <4>1, <5>2 DEF Knows
        <5> QED BY <5>1, <5>2
      <4> QED BY <1>0, <2>3, <2>5, <4>3, MoveKeeps
    <3> QED BY <3>1, <3>2
  <2> QED BY <1>7, <2>2, <2>4, <2>5 DEF DeleteFiles
<1>8. ASSUME NEW g \in Handlers, InsertComponents(g) PROVE TablesInv'
  <2>1. /\ h[g].pc = "insertComponents" /\ h[g].ver \in Offers /\ h[g].mirror \in Mirrors
        /\ h[g].what = "check"
    BY <1>0, <1>8 DEF InsertComponents, HandlerAt, Called, HandlerRecords
  <2> DEFINE next == Going(g, "insertTask")
  <2>2. /\ next \in HandlerRecords /\ next.pc = "insertTask" /\ next.what = h[g].what
        /\ next.ver = h[g].ver /\ next.undisturbed = h[g].undisturbed
    BY GoingTo
  <2> HIDE DEF next
  <2>3. Called(next)
    BY <1>0, <2>1, <2>2 DEF Called
  <2>4. CASE OperationFails(g, next)
    BY <2>2, <2>3, <2>4, FailureKeeps
  <2> DEFINE new == BuildDbValues(Server(h[g].ver, h[g].mirror))
  <2>5. new \in Seq(ComponentRows) /\ PackagesIn(new) = PackagesOf(h[g].ver)
    BY <2>1, InsertedRows
  <2> HIDE DEF new
  <2>6. CASE comps' = comps \o new /\ Moves(g, next) /\ UNCHANGED <<tasks, files, faults>>
    <3>1. comps' \in Seq(ComponentRows) /\ (comps = <<>> => comps' = new)
      BY <1>0, <2>5, <2>6
    <3>2. h[g].undisturbed => tasks = <<>> /\ comps = <<>>
      BY <1>0, <2>1 DEF Knows
    <3>3. Knows(next, tasks', comps')
      BY <2>2, <2>5, <2>6, <3>1, <3>2 DEF Knows
    <3> QED BY <1>0, <2>2, <2>3, <2>6, <3>1, <3>3, MoveKeeps
  <2> QED BY <1>8, <2>4, <2>6 DEF InsertComponents, next, new
<1>9. ASSUME NEW g \in Handlers, InsertTask(g) PROVE TablesInv'
  <2>1. h[g].pc = "insertTask" /\ h[g].ver \in Offers /\ h[g].what = "check"
    BY <1>0, <1>9 DEF InsertTask, HandlerAt, Called, HandlerRecords
  <2> DEFINE next == Going(g, "answer")
  <2>2. /\ next \in HandlerRecords /\ next.pc = "answer" /\ next.what = h[g].what
        /\ next.ver = h[g].ver /\ next.undisturbed = h[g].undisturbed
    BY GoingTo
  <2> HIDE DEF next
  <2>3. Called(next)
    BY <2>1, <2>2 DEF Called
  <2>4. CASE OperationFails(g, next)
    BY <2>2, <2>3, <2>4, FailureKeeps
  <2> DEFINE new == BuildTask("CHECK_VERSION_SUCCESS")
  <2>5. CASE tasks' = Append(tasks, new) /\ Moves(g, next) /\ UNCHANGED <<comps, files, faults>>
    <3>1. new \in TaskRows
      BY InsertedTask
    <3> HIDE DEF new
    <3>2. tasks' \in Seq(TaskRows) /\ (tasks = <<>> => Len(tasks') = 1)
      BY <1>0, <2>5, <3>1
    <3>3. h[g].undisturbed => tasks = <<>> /\ PackagesIn(comps) = PackagesOf(h[g].ver)
      <4>1. Knows(h[g], tasks, comps)
        BY <1>0
      <4> QED BY <2>1, <4>1 DEF Knows
    <3>4. Knows(next, tasks', comps')
      BY <1>0, <2>1, <2>2, <2>5, <3>2, <3>3 DEF Knows
    <3> QED BY <1>0, <2>2, <2>3, <2>5, <3>2, <3>4, MoveKeeps
  <2> QED BY <1>9, <2>4, <2>5 DEF InsertTask, next
<1>10. ASSUME NEW g \in Handlers, BuildCheckResult(g) PROVE TablesInv'
  BY <1>0, <1>10, IdleRecord, MoveKeeps DEF BuildCheckResult, tables
<1>11. ASSUME NEW i \in DOMAIN comps, NEW s \in {"DOWNLOADING", "DOWNLOAD_FAIL", "DOWNLOAD_SUCCESS"},
              DownloadCallback(comps[i].url, s)
       PROVE  TablesInv'
  <2>1. s \in DOMAIN UpgradeStatus
    BY Codes
  <2>2. comps' \in Seq(ComponentRows) /\ tasks' \in Seq(TaskRows)
    BY <1>0, <1>11, <2>1, UpdateKeepsRows DEF DownloadCallback
  <2>3. files' \subseteq OfferedPackages
    <3>1. \A j \in DOMAIN comps : comps[j].package \in OfferedPackages
      <4>1. \A j \in DOMAIN comps : comps[j] \in ComponentRows
        BY <1>0
      <4> QED BY <4>1 DEF ComponentRows
    <3> QED BY <1>0, <1>11, <3>1 DEF DownloadCallback, Found
  <2>4. \A g \in Handlers : /\ h'[g] \in HandlerRecords /\ Called(h'[g])
                            /\ Knows(h'[g], tasks', comps')
    <3> SUFFICES ASSUME NEW g \in Handlers
                 PROVE  /\ h'[g] \in HandlerRecords /\ Called(h'[g]) /\ Knows(h'[g], tasks', comps')
      OBVIOUS
    <3> DEFINE x == [h[g] EXCEPT !.undisturbed = FALSE]
    <3>1. /\ x \in HandlerRecords /\ x.pc = h[g].pc /\ x.what = h[g].what /\ x.ver = h[g].ver
          /\ ~x.undisturbed
      BY <1>0 DEF HandlerRecords
    <3>2. h'[g] = x
      BY <1>11 DEF DownloadCallback
    <3> HIDE DEF x
    <3> QED BY <1>0, <3>1, <3>2 DEF Called, Knows
  <2>5. h' \in [Handlers -> HandlerRecords] /\ UNCHANGED <<faults, alone>>
    BY <1>11, <2>4 DEF DownloadCallback
  <2> QED BY <2>2, <2>3, <2>4, <2>5 DEF TablesInv, TablesTypes
<1>12. CASE Crash
  BY <1>12, IdleRecord DEF Crash, tables, TablesInv, TablesTypes
<1>13. CASE UNCHANGED tableVars
  BY <1>13 DEF tableVars, TablesInv, TablesTypes
<1> QED
  BY <1>1, <1>2, <1>3, <1>4, <1>5, <1>6, <1>7, <1>8, <1>9, <1>10, <1>11, <1>12, <1>13 DEF TablesNext

\* The invariant holds on empty tables (TablesInit).
LEMMA TablesInvInit == TablesInit => TablesInv
BY TablesAssumption, IdleRecord DEF TablesInit, TablesInv, TablesTypes

\* Rows and handlers keep their types (BuildDbValue, HandleCheckResult).
THEOREM RowTypes == TablesSpec => []TablesTypeOK
<1>1. TablesInv => TablesTypeOK
  <2> SUFFICES ASSUME TablesInv PROVE TablesTypeOK
    OBVIOUS
  <2>1. /\ \A i \in DOMAIN tasks : tasks[i] \in TaskRows
        /\ \A i \in DOMAIN comps : comps[i] \in ComponentRows
        /\ \A g \in Handlers : h[g] \in HandlerRecords
    BY DEF TablesInv, TablesTypes
  <2>2. \A i \in DOMAIN tasks : tasks[i].taskId = Empty /\ tasks[i].status \in StatusCodes
    BY <2>1 DEF TaskRows
  <2>3. \A i \in DOMAIN comps :
          /\ comps[i].versionId = Empty /\ comps[i].package \in OfferedPackages
          /\ comps[i].url \in Numbers \X Mirrors /\ comps[i].status \in StatusCodes
    BY <2>1 DEF ComponentRows
  <2> QED BY <2>1, <2>2, <2>3 DEF TablesTypeOK, HandlerRecords, TablesInv, TablesTypes
<1> QED BY TablesInvInit, TablesInvStep, <1>1, PTL DEF TablesSpec

\* One undisturbed check puts right whatever failures and other handlers have left
\* (HandleCheckResult, HandleNewVersion, HandleNoNewVersion).
THEOREM CheckAlwaysRepairs == TablesSpec => []CheckRepairs
<1>1. TablesInv => CheckRepairs
  BY DEF TablesInv, Knows, Called, CheckRepairs, HandlerAt
<1> QED BY TablesInvInit, TablesInvStep, <1>1, PTL DEF TablesSpec

\* Urls that belong to their packages, and a handler that writes them has found a version of one
\* package.
UrlsInv ==
  alone =>
    /\ \A g, k \in Handlers : g # k => h[g].pc = "idle" \/ h[k].pc = "idle"
    /\ \A i \in DOMAIN comps : comps[i].url[1] = comps[i].package[2]
    /\ \A g \in Handlers : h[g].pc = "updateUrl" =>
         Parts[h[g].ver] = 1 /\ PackagesIn(comps) = PackagesOf(h[g].ver)

\* A handler's step while the others rest keeps the urls.
LEMMA UrlsStay ==
  ASSUME TablesInv, UrlsInv, NEW g \in Handlers, NEW next, Moves(g, next),
         alone' => /\ \A i \in DOMAIN comps' : comps'[i].url[1] = comps'[i].package[2]
                   /\ next.pc = "updateUrl" =>
                        Parts[next.ver] = 1 /\ PackagesIn(comps') = PackagesOf(next.ver)
  PROVE  UrlsInv'
<1>1. /\ h' = [k \in Handlers |-> IF k = g THEN next ELSE [h[k] EXCEPT !.undisturbed = FALSE]]
      /\ alone' => \A k \in Handlers : k # g => h[k].pc = "idle"
  BY DEF Moves, HandlerAt
<1>2. \A k \in Handlers : h[k] \in HandlerRecords
  BY DEF TablesInv, TablesTypes
<1>3. alone' => \A k \in Handlers : k # g => h'[k].pc = "idle"
  BY <1>1, <1>2 DEF HandlerRecords
<1>4. h'[g] = next
  BY <1>1
<1> QED BY <1>3, <1>4 DEF UrlsInv

\* Every step preserves it (IsVersionSameWithDb, UpdateFirmwareComponent, HandleNewVersion).
LEMMA UrlsStep == TablesInv /\ UrlsInv /\ [TablesNext]_tableVars => UrlsInv'
<1> SUFFICES ASSUME TablesInv, UrlsInv, [TablesNext]_tableVars PROVE UrlsInv'
  OBVIOUS
<1>0. /\ tasks \in Seq(TaskRows) /\ comps \in Seq(ComponentRows)
      /\ \A g \in Handlers : h[g] \in HandlerRecords /\ Called(h[g])
      /\ NoVersion \notin Offers
  BY TablesAssumption DEF TablesInv, TablesTypes
<1>a. \A g \in Handlers : \A next : Moves(g, next) /\ alone' => alone
  BY DEF Moves
<1>b. alone => \A i \in DOMAIN comps : comps[i].url[1] = comps[i].package[2]
  BY DEF UrlsInv
<1>c. ASSUME NEW g \in Handlers, NEW next, next.pc # "updateUrl", comps' = comps, Moves(g, next)
      PROVE  UrlsInv'
  BY <1>a, <1>b, <1>c, UrlsStay
<1>d. ASSUME NEW g \in Handlers, NEW place, place # "updateUrl", OperationFails(g, Going(g, place))
      PROVE  UrlsInv'
  <2> DEFINE next == [Going(g, place) EXCEPT !.undisturbed = FALSE]
  <2>1. Moves(g, next) /\ comps' = comps
    BY <1>d DEF OperationFails, tables
  <2>2. next.pc = place
    BY <1>0 DEF Going, HandlerRecords
  <2> HIDE DEF next
  <2> QED BY <1>c, <1>d, <2>1, <2>2
<1>e. \A g \in Handlers : \A place : Going(g, place).pc = place
  BY <1>0 DEF Going, HandlerRecords
<1>1. ASSUME NEW g \in Handlers, NEW v \in Offers \union {NoVersion}, NEW m \in Mirrors,
             HandleCheckResult(g, v, m)
      PROVE  UrlsInv'
  <2>1. PICK next : Moves(g, next) /\ next.pc \in {"answer", "deleteTask", "compare"}
    <3>1. PICK found \in Read(tasks) :
            LET start == [Idle EXCEPT !.ver = v, !.mirror = m, !.undisturbed = found = tasks] IN
            Moves(g, IF HasUndoneTask(found) THEN [start EXCEPT !.pc = "answer", !.what = "undone"]
                     ELSE [start EXCEPT !.pc = IF v = NoVersion THEN "deleteTask" ELSE "compare",
                                        !.what = "check"])
      BY <1>1 DEF HandleCheckResult
    <3>2. PICK place \in {"answer", "deleteTask", "compare"}, what \in {"undone", "check"},
               undisturbed \in BOOLEAN :
            Moves(g, [pc |-> place, what |-> what, ver |-> v, mirror |-> m,
                      undisturbed |-> undisturbed])
      BY <3>1 DEF Idle
    <3> QED BY <3>2
  <2> QED BY <1>1, <1>c, <2>1 DEF HandleCheckResult, tables
<1>2. ASSUME NEW g \in Handlers, ClearFirmwareInfo(g) PROVE UrlsInv'
  <2> DEFINE next == [Idle EXCEPT !.pc = "deleteTask", !.what = "clear"]
  <2>1. next.pc = "deleteTask" /\ Moves(g, next) /\ comps' = comps
    BY <1>2 DEF ClearFirmwareInfo, tables, Idle
  <2> HIDE DEF next
  <2> QED BY <1>c, <2>1
<1>3. ASSUME NEW g \in Handlers, IsVersionSameWithDb(g) PROVE UrlsInv'
  <2>1. h[g].pc = "compare" /\ h[g].ver \in Offers /\ comps' = comps
    BY <1>0, <1>3 DEF IsVersionSameWithDb, HandlerAt, Called, HandlerRecords, tables
  <2>2. PICK found \in Read(comps) :
          LET next == IF SameWithDb(found, Server(h[g].ver, h[g].mirror)) THEN "updateUrl" ELSE "deleteTask" IN
          Moves(g, [h[g] EXCEPT !.pc = next, !.undisturbed = @ /\ found = comps])
    BY <1>3 DEF IsVersionSameWithDb
  <2> DEFINE same == SameWithDb(found, Server(h[g].ver, h[g].mirror))
             place == IF same THEN "updateUrl" ELSE "deleteTask"
             next == [h[g] EXCEPT !.pc = place, !.undisturbed = @ /\ found = comps]
  <2>3. Moves(g, next)
    BY <2>2
  <2>4. next.pc = place /\ next.ver = h[g].ver
    BY <1>0 DEF HandlerRecords
  <2> HIDE DEF next
  <2>5. ~SameWithDb(<<>>, Server(h[g].ver, h[g].mirror))
    <3>1. <<>> \in Seq(ComponentRows)
      OBVIOUS
    <3>2. ASSUME SameWithDb(<<>>, Server(h[g].ver, h[g].mirror)) PROVE FALSE
      <4>1. PackagesIn(<<>>) = PackagesOf(h[g].ver) /\ Parts[h[g].ver] = 1
        BY <2>1, <3>1, <3>2, SameMeansSame
      <4>2. DOMAIN PackagesIn(<<>>) = {} /\ DOMAIN PackagesOf(h[g].ver) = 1 .. 1
        BY <2>1, <4>1, ServerPackages DEF PackagesIn
      <4>3. 1 \in 1 .. 1
        OBVIOUS
      <4> QED BY <4>1, <4>2, <4>3
    <3> QED BY <3>2
  <2>6. same => Parts[h[g].ver] = 1 /\ PackagesIn(comps) = PackagesOf(h[g].ver)
    BY <1>0, <2>1, <2>5, SameMeansSame DEF Read
  <2>7. next.pc = "updateUrl" => Parts[next.ver] = 1 /\ PackagesIn(comps') = PackagesOf(next.ver)
    BY <2>1, <2>4, <2>6
  <2> HIDE DEF place
  <2> QED BY <1>a, <1>b, <2>1, <2>3, <2>7, UrlsStay
<1>4. ASSUME NEW g \in Handlers, UpdateFirmwareComponent(g) PROVE UrlsInv'
  <2>1. h[g].pc = "updateUrl" /\ h[g].ver \in Offers
    BY <1>0, <1>4 DEF UpdateFirmwareComponent, HandlerAt, Called, HandlerRecords
  <2> DEFINE next == [Going(g, "answer") EXCEPT !.what = "same"]
  <2>2. next.pc = "answer"
    BY <1>0 DEF Going, HandlerRecords
  <2>3. CASE OperationFails(g, Going(g, "answer"))
    BY <1>d, <2>3
  <2>4. CASE /\ comps' = IF QueryTask(tasks) = "CHECK_VERSION_SUCCESS"
                         THEN UpdateUrlByVersionId(<<Parts[h[g].ver], h[g].mirror>>) ELSE comps
             /\ Moves(g, next)
    <3> HIDE DEF next
    <3>1. CASE comps' = comps
      BY <1>c, <2>2, <2>4, <3>1
    <3>2. CASE comps' = UpdateUrlByVersionId(<<Parts[h[g].ver], h[g].mirror>>)
      <4>1. ASSUME alone', NEW i \in DOMAIN comps' PROVE comps'[i].url[1] = comps'[i].package[2]
        <5>1. Parts[h[g].ver] = 1 /\ PackagesIn(comps) = PackagesOf(h[g].ver)
          BY <1>a, <2>1, <2>4, <4>1 DEF UrlsInv
        <5>2. DOMAIN comps' = DOMAIN comps
          BY <3>2 DEF UpdateUrlByVersionId, Update
        <5>3. comps[i] \in ComponentRows
          BY <1>0, <4>1, <5>2
        <5>4. comps'[i] = [comps[i] EXCEPT !["url"] = <<Parts[h[g].ver], h[g].mirror>>]
          <6>1. Matches(comps[i], [versionId |-> Empty])
            BY <5>3 DEF Matches, ComponentRows
          <6> QED BY <3>2, <4>1, <5>2, <6>1 DEF UpdateUrlByVersionId, Update
        <5>5. comps'[i].url[1] = 1 /\ comps'[i].package = comps[i].package
          BY <5>1, <5>3, <5>4 DEF ComponentRows
        <5>6. comps[i].package = <<h[g].ver, 1>>
          <6>1. PackagesOf(h[g].ver) = [k \in 1 .. 1 |-> <<h[g].ver, k>>]
            BY <2>1, <5>1, ServerPackages
          <6>2. [k \in DOMAIN comps |-> comps[k].package] = [k \in 1 .. 1 |-> <<h[g].ver, k>>]
            BY <5>1, <6>1 DEF PackagesIn
          <6>3. DOMAIN comps = 1 .. 1
            <7>1. DOMAIN [k \in DOMAIN comps |-> comps[k].package]
                    = DOMAIN [k \in 1 .. 1 |-> <<h[g].ver, k>>]
              BY <6>2
            <7> QED BY <7>1
          <6>4. i = 1 /\ i \in 1 .. 1
            BY <4>1, <5>2, <6>3
          <6> QED BY <4>1, <5>2, <6>2, <6>4
        <5> QED BY <5>5, <5>6
      <4> QED BY <2>2, <2>4, <4>1, UrlsStay
    <3> QED BY <2>4, <3>1, <3>2
  <2> QED BY <1>4, <2>3, <2>4 DEF UpdateFirmwareComponent
<1>5. ASSUME NEW g \in Handlers, DeleteTask(g) PROVE UrlsInv'
  BY <1>5, <1>c, <1>d, <1>e DEF DeleteTask
<1>6. ASSUME NEW g \in Handlers, DeleteComponents(g) PROVE UrlsInv'
  <2>1. CASE comps' = <<>> /\ Moves(g, Going(g, "deleteFiles"))
    <3>1. \A i \in DOMAIN comps' : comps'[i].url[1] = comps'[i].package[2]
      BY <2>1
    <3> QED BY <1>e, <2>1, <3>1, UrlsStay
  <2> QED BY <1>6, <1>d, <2>1 DEF DeleteComponents
<1>7. ASSUME NEW g \in Handlers, DeleteFiles(g) PROVE UrlsInv'
  <2>1. PICK place \in {"answer", "insertComponents"} : AfterClear(g) = Idle \/ AfterClear(g) = Going(g, place)
    BY DEF AfterClear
  <2>2. AfterClear(g).pc # "updateUrl"
    BY <1>e, <2>1 DEF Idle
  <2>3. CASE OperationFails(g, AfterClear(g))
    <3> DEFINE next == [AfterClear(g) EXCEPT !.undisturbed = FALSE]
    <3>1. Moves(g, next) /\ comps' = comps
      BY <2>3 DEF OperationFails, tables
    <3>2. AfterClear(g) \in HandlerRecords
      BY <1>0, <2>1, IdleRecord DEF Going, HandlerRecords
    <3>3. next.pc = AfterClear(g).pc
      BY <3>2 DEF HandlerRecords
    <3> HIDE DEF next
    <3> QED BY <1>c, <2>2, <3>1, <3>3
  <2> QED BY <1>7, <1>c, <2>2, <2>3 DEF DeleteFiles
<1>8. ASSUME NEW g \in Handlers, InsertComponents(g) PROVE UrlsInv'
  <2> DEFINE new == BuildDbValues(Server(h[g].ver, h[g].mirror))
  <2>1. CASE comps' = comps \o new /\ Moves(g, Going(g, "insertTask"))
    <3>1. h[g].ver \in Offers /\ h[g].mirror \in Mirrors
      BY <1>0, <1>8 DEF InsertComponents, HandlerAt, Called, HandlerRecords
    <3>2. new \in Seq(ComponentRows) /\ \A i \in DOMAIN new : new[i].url[1] = new[i].package[2]
      BY <3>1, InsertedRows
    <3> HIDE DEF new
    <3>3. ASSUME alone', NEW i \in DOMAIN comps' PROVE comps'[i].url[1] = comps'[i].package[2]
      <4>1. /\ Len(comps) \in Nat /\ Len(new) \in Nat
            /\ DOMAIN comps' = 1 .. Len(comps) + Len(new)
            /\ DOMAIN comps = 1 .. Len(comps) /\ DOMAIN new = 1 .. Len(new)
        BY <1>0, <2>1, <3>2
      <4>2. CASE i <= Len(comps)
        BY <1>0, <1>a, <1>b, <2>1, <3>2, <3>3, <4>1, <4>2
      <4>3. CASE i > Len(comps)
        <5>1. i - Len(comps) \in DOMAIN new /\ comps'[i] = new[i - Len(comps)]
          BY <1>0, <2>1, <3>2, <3>3, <4>1, <4>3
        <5> QED BY <3>2, <5>1
      <4> QED BY <3>3, <4>1, <4>2, <4>3
    <3> QED BY <1>e, <2>1, <3>3, UrlsStay
  <2> QED BY <1>8, <1>d, <2>1 DEF InsertComponents
<1>9. ASSUME NEW g \in Handlers, InsertTask(g) PROVE UrlsInv'
  BY <1>9, <1>c, <1>d, <1>e DEF InsertTask
<1>10. ASSUME NEW g \in Handlers, BuildCheckResult(g) PROVE UrlsInv'
  BY <1>10, <1>c, IdleRecord DEF BuildCheckResult, tables
<1>11. ASSUME NEW j \in DOMAIN comps, NEW s \in {"DOWNLOADING", "DOWNLOAD_FAIL", "DOWNLOAD_SUCCESS"},
              DownloadCallback(comps[j].url, s)
       PROVE  UrlsInv'
  <2>1. s \in DOMAIN UpgradeStatus
    BY Codes
  <2>2. comps' = UpdateProgressByUrl(comps[j].url, s) /\ alone' = alone
        /\ h' = [g \in Handlers |-> [h[g] EXCEPT !.undisturbed = FALSE]]
    BY <1>11 DEF DownloadCallback
  <2>3. PackagesIn(comps') = PackagesIn(comps)
    BY <1>0, <2>1, <2>2, UpdateKeepsRows
  <2>4. DOMAIN comps' = DOMAIN comps /\ \A i \in DOMAIN comps :
          comps'[i].url = comps[i].url /\ comps'[i].package = comps[i].package
    <3>1. \A i \in DOMAIN comps : comps[i] \in ComponentRows
      BY <1>0
    <3>2. \A i \in DOMAIN comps :
            comps'[i] = comps[i] \/ comps'[i] = [comps[i] EXCEPT !["status"] = UpgradeStatus[s]]
      BY <2>2 DEF UpdateProgressByUrl, Update
    <3>3. DOMAIN comps' = DOMAIN comps
      BY <2>2 DEF UpdateProgressByUrl, Update
    <3> QED BY <3>1, <3>2, <3>3 DEF ComponentRows
  <2>5. \A g \in Handlers : h'[g].pc = h[g].pc /\ h'[g].ver = h[g].ver
    BY <1>0, <2>2 DEF HandlerRecords
  <2> QED BY <2>2, <2>3, <2>4, <2>5 DEF UrlsInv
<1>12. CASE Crash
  <2>1. comps' = comps /\ alone' = alone /\ \A g \in Handlers : h'[g].pc = "idle"
    BY <1>12, IdleRecord DEF Crash, tables
  <2> QED BY <2>1 DEF UrlsInv
<1>13. CASE UNCHANGED tableVars
  BY <1>13 DEF tableVars, UrlsInv
<1> QED
  BY <1>1, <1>2, <1>3, <1>4, <1>5, <1>6, <1>7, <1>8, <1>9, <1>10, <1>11, <1>12, <1>13 DEF TablesNext

\* As long as handlers take turns, whatever fails and wherever the process dies, every row of the
\* component table has a url of its own package, for any numbers of packages
\* (UpdateUrlByVersionId, IsVersionSameWithDb).
THEOREM UrlsAlwaysFit == TablesSpec => []UrlsFitPackages
<1>1. TablesInit => UrlsInv
  BY IdleRecord DEF TablesInit, UrlsInv
<1>2. UrlsInv => UrlsFitPackages
  BY DEF UrlsInv, UrlsFitPackages
<1> QED BY TablesInvInit, TablesInvStep, UrlsStep, <1>1, <1>2, PTL DEF TablesSpec

-----------------------------------------------------------------------------
(***************************************************************************)
(* The refinement of FirmwareStore, for versions of one package.           *)
(***************************************************************************)
\* Every version consists of one package.
OnePackageEach == \A v \in Offers : Parts[v] = 1

\* The package of a version of one (Server).
LEMMA OnePackage ==
  ASSUME OnePackageEach, NEW v \in Offers
  PROVE  Parts[v] = 1 /\ PackagesOf(v) = [i \in 1 .. 1 |-> <<v, i>>]
<1>1. Parts[v] = 1
  BY DEF OnePackageEach
<1>2. PackagesOf(v) = [i \in 1 .. Parts[v] |-> <<v, i>>]
  BY ServerPackages
<1> QED BY ONLY <1>1, <1>2

\* Where a handler is in the operations it makes one after the other.
Ordered(x, taskRows, compRows, packages) ==
  /\ x.pc \in {"deleteComponents", "deleteFiles", "insertComponents", "insertTask"}
       => taskRows = <<>>
  /\ x.pc \in {"deleteFiles", "insertComponents"} => compRows = <<>>
  /\ x.pc \in {"insertComponents", "insertTask"} => packages = {}
  /\ x.pc = "insertTask" => compRows # <<>> /\ compRows[1].package = <<x.ver, 1>>

\* A table holds one version or none, and a task has its component and no other package.
OneVersionEach(taskRows, compRows, packages) ==
  /\ Len(compRows) <= 1
  /\ \A p, q \in packages : p = q
  /\ taskRows # <<>> => compRows # <<>> /\ packages \subseteq {compRows[1].package}

\* As long as handlers took turns and nothing failed.
TurnsInv ==
  alone /\ faults = 0 =>
    /\ \A g, k \in Handlers : g # k => h[g].pc = "idle" \/ h[k].pc = "idle"
    /\ OneVersionEach(tasks, comps, files)
    /\ \A g \in Handlers : Ordered(h[g], tasks, comps, files)

\* What a handler shows of itself.
OpIn(x) == IF x.pc = "updateUrl" THEN "answer" ELSE x.pc
HandlerIn(x) == IF x.pc = "idle" THEN "none" ELSE IF x.what = "clear" THEN "clear" ELSE "check"

\* With at most one handler at work the store shows that one.
LEMMA WorkerView ==
  \A g \in Handlers :
    (\A k \in Handlers : k # g => h[k].pc = "idle") /\ (h[g].pc = "idle" => h[g].ver = NoVersion)
      => StoreOp = OpIn(h[g]) /\ StoreHandler = HandlerIn(h[g]) /\ StoreVer = h[g].ver
<1> SUFFICES ASSUME NEW g \in Handlers, \A k \in Handlers : k # g => h[k].pc = "idle",
                    h[g].pc = "idle" => h[g].ver = NoVersion
             PROVE  StoreOp = OpIn(h[g]) /\ StoreHandler = HandlerIn(h[g]) /\ StoreVer = h[g].ver
  OBVIOUS
<1>1. CASE h[g].pc = "idle"
  <2>1. Working = {}
    BY <1>1 DEF Working, HandlerAt
  <2> QED BY <1>1, <2>1 DEF StoreOp, StoreHandler, StoreVer, OpIn, HandlerIn
<1>2. CASE h[g].pc # "idle"
  <2>1. Working = {g}
    BY <1>2 DEF Working, HandlerAt
  <2>2. Worker = g
    BY <2>1 DEF Worker
  <2> QED BY <1>2, <2>1, <2>2 DEF StoreOp, StoreHandler, StoreVer, OpIn, HandlerIn, OpOf, HandlerOf, HandlerAt
<1> QED BY <1>1, <1>2

\* The same after a step that leaves one handler at work, or none (Moves).
LEMMA WorkerViewNext ==
  \A g \in Handlers :
    (\A k \in Handlers : k # g => h'[k].pc = "idle") /\ (h'[g].pc = "idle" => h'[g].ver = NoVersion)
      => StoreOp' = OpIn(h'[g]) /\ StoreHandler' = HandlerIn(h'[g]) /\ StoreVer' = h'[g].ver
<1>1. (\A g \in Handlers :
    (\A k \in Handlers : k # g => h[k].pc = "idle") /\ (h[g].pc = "idle" => h[g].ver = NoVersion)
      => StoreOp = OpIn(h[g]) /\ StoreHandler = HandlerIn(h[g]) /\ StoreVer = h[g].ver)'
  BY WorkerView, PTL
<1> QED BY <1>1 DEF OpIn, HandlerIn

\* Nobody at work: the store is idle.
LEMMA RestView ==
  (\A g \in Handlers : h[g].pc = "idle") => StoreOp = "idle" /\ StoreHandler = "none" /\ StoreVer = NoVersion
BY DEF Working, HandlerAt, StoreOp, StoreHandler, StoreVer

\* The same after a step after which nobody is at work (Crash, BuildCheckResult).
LEMMA RestViewNext ==
  (\A g \in Handlers : h'[g].pc = "idle")
     => StoreOp' = "idle" /\ StoreHandler' = "none" /\ StoreVer' = NoVersion
BY DEF Working, HandlerAt, StoreOp, StoreHandler, StoreVer

\* The version a table shows.
LEMMA VersionView ==
  /\ VersionIn({}) = NoVersion
  /\ \A p : VersionIn({p}) = p[1]
BY DEF VersionIn

\* A table of at most one row: the packages in it, and the version they are of (PackagesOf).
LEMMA ComponentsView ==
  ASSUME NEW rows \in Seq(ComponentRows), Len(rows) <= 1, OnePackageEach
  PROVE  /\ rows = <<>> => {rows[i].package : i \in DOMAIN rows} = {}
         /\ rows # <<>> => /\ {rows[i].package : i \in DOMAIN rows} = {rows[1].package}
                           /\ rows[1].package[1] \in Offers
                           /\ rows[1].package = <<rows[1].package[1], 1>>
         /\ \A v \in Offers : PackagesIn(rows) = PackagesOf(v)
                                <=> rows # <<>> /\ rows[1].package = <<v, 1>>
<1>1. CASE rows = <<>>
  <2>1. ASSUME NEW v \in Offers PROVE PackagesIn(rows) # PackagesOf(v)
    <3>1. DOMAIN PackagesIn(rows) = {} /\ DOMAIN PackagesOf(v) = 1 .. 1
      BY <1>1, OnePackage DEF PackagesIn
    <3>2. 1 \in 1 .. 1
      OBVIOUS
    <3> QED BY <3>1, <3>2
  <2> QED BY <1>1, <2>1
<1>2. CASE rows # <<>>
  <2>1. Len(rows) = 1 /\ DOMAIN rows = {1} /\ rows[1] \in ComponentRows
    <3>1. Len(rows) \in Nat /\ Len(rows) # 0 /\ DOMAIN rows = 1 .. Len(rows)
      BY <1>2
    <3>2. Len(rows) = 1
      BY <3>1
    <3> QED BY <3>1, <3>2
  <2>2. rows[1].package \in Offers \X {1}
    <3>1. rows[1].package \in OfferedPackages
      BY <2>1 DEF ComponentRows
    <3>2. rows[1].package[2] = 1
      BY <3>1 DEF OfferedPackages, OnePackageEach, Numbers
    <3> QED BY <3>1, <3>2 DEF OfferedPackages
  <2>3. ASSUME NEW v \in Offers PROVE PackagesIn(rows) = PackagesOf(v) <=> rows[1].package = <<v, 1>>
    <3>1. PackagesIn(rows) = [i \in {1} |-> rows[i].package]
      BY <2>1 DEF PackagesIn
    <3>2. PackagesOf(v) = [i \in {1} |-> <<v, 1>>]
      <4>1. 1 .. 1 = {1}
        OBVIOUS
      <4> QED BY <4>1, OnePackage
    <3> QED BY <3>1, <3>2
  <2> QED BY <1>2, <2>1, <2>2, <2>3
<1> QED BY <1>1, <1>2

\* What has the same packages has as many rows.
LEMMA SamePackages ==
  ASSUME NEW rows \in Seq(ComponentRows), NEW next \in Seq(ComponentRows),
         PackagesIn(next) = PackagesIn(rows)
  PROVE  /\ Len(next) = Len(rows) /\ (next = <<>> <=> rows = <<>>)
         /\ rows # <<>> => next[1].package = rows[1].package
<1>1. /\ Len(rows) \in Nat /\ DOMAIN rows = 1 .. Len(rows)
      /\ Len(next) \in Nat /\ DOMAIN next = 1 .. Len(next)
  OBVIOUS
<1>2. DOMAIN PackagesIn(rows) = DOMAIN rows /\ DOMAIN PackagesIn(next) = DOMAIN next
  BY DEF PackagesIn
<1>3. 1 .. Len(next) = 1 .. Len(rows)
  BY <1>1, <1>2
<1>4. Len(next) = Len(rows)
  <2>1. PICK m \in Nat, n \in Nat : m = Len(next) /\ n = Len(rows)
    BY <1>1
  <2>2. \A i : i \in 1 .. m <=> i \in 1 .. n
    BY <1>3, <2>1
  <2>3. ~(m < n)
    <3>1. m < n => n \in 1 .. n /\ n \notin 1 .. m
      OBVIOUS
    <3> QED BY <2>2, <3>1
  <2>4. ~(n < m)
    <3>1. n < m => m \in 1 .. m /\ m \notin 1 .. n
      OBVIOUS
    <3> QED BY <2>2, <3>1
  <2> QED BY <2>1, <2>3, <2>4
<1>5. rows # <<>> => Len(rows) # 0
  OBVIOUS
<1>6. ASSUME rows # <<>> PROVE next[1].package = rows[1].package
  <2>1. 1 \in DOMAIN rows /\ 1 \in DOMAIN next
    BY <1>1, <1>4, <1>5, <1>6
  <2>2. PackagesIn(rows)[1] = rows[1].package /\ PackagesIn(next)[1] = next[1].package
    BY <2>1 DEF PackagesIn
  <2> QED BY <2>2
<1> QED BY <1>4, <1>6

-----------------------------------------------------------------------------
\* A handler moves while all others rest: what the store shows before and after, and the invariant.
LEMMA AloneMoves ==
  ASSUME TablesInv, NEW g \in Handlers, NEW next \in HandlerRecords, Moves(g, next), Called(next), alone'
  PROVE  /\ alone
         /\ StoreOp = OpIn(h[g]) /\ StoreHandler = HandlerIn(h[g]) /\ StoreVer = h[g].ver
         /\ StoreOp' = OpIn(next) /\ StoreHandler' = HandlerIn(next) /\ StoreVer' = next.ver
         /\ OneVersionEach(tasks', comps', files') /\ Ordered(next, tasks', comps', files') => TurnsInv'
<1>1. alone /\ \A k \in Handlers : k # g => h[k].pc = "idle"
  BY DEF Moves, HandlerAt, TablesInv, TablesTypes
<1>2. h' = [k \in Handlers |-> IF k = g THEN next ELSE [h[k] EXCEPT !.undisturbed = FALSE]]
  BY DEF Moves
<1>3. h'[g] = next
  BY <1>2
<1>4. \A k \in Handlers : k # g => h'[k].pc = "idle"
  BY <1>1, <1>2 DEF TablesInv, TablesTypes, HandlerRecords
<1>5. h[g].pc = "idle" => h[g].ver = NoVersion
  BY DEF TablesInv, Called
<1>6. StoreOp = OpIn(h[g]) /\ StoreHandler = HandlerIn(h[g]) /\ StoreVer = h[g].ver
  BY <1>1, <1>5, WorkerView
<1>7. StoreOp' = OpIn(next) /\ StoreHandler' = HandlerIn(next) /\ StoreVer' = next.ver
  BY <1>3, <1>4, WorkerViewNext DEF Called
<1>8. ASSUME OneVersionEach(tasks', comps', files'), Ordered(next, tasks', comps', files')
      PROVE  TurnsInv'
  <2>1. \A k \in Handlers : Ordered(h'[k], tasks', comps', files')
    BY <1>3, <1>4, <1>8 DEF Ordered
  <2> QED BY <1>4, <1>8, <2>1 DEF TurnsInv
<1> QED BY <1>1, <1>6, <1>7, <1>8

\* Every step that keeps to turns and does not fail is a step of the store or shows nothing.
LEMMA StoreStep ==
  ASSUME OnePackageEach, TablesInv, TurnsInv, [TablesNext]_tableVars, alone', faults' = 0
  PROVE  TurnsInv' /\ [Store!StoreNext]_(Store!storeVars)
<1>0. /\ tasks \in Seq(TaskRows) /\ comps \in Seq(ComponentRows)
      /\ faults \in Nat
      /\ \A g \in Handlers : h[g] \in HandlerRecords /\ Called(h[g])
      /\ NoVersion \notin Offers
  BY TablesAssumption DEF TablesInv, TablesTypes
<1>a. ASSUME NEW g \in Handlers, NEW next, OperationFails(g, next) PROVE FALSE
  BY <1>0, <1>a DEF OperationFails
<1>b. ASSUME NEW rows, NEW found \in Read(rows), CountFault(rows, found) PROVE found = rows /\ faults = 0
  BY <1>0, <1>b DEF CountFault
<1>c. ASSUME alone, faults = 0
      PROVE  /\ \A g, k \in Handlers : g # k => h[g].pc = "idle" \/ h[k].pc = "idle"
             /\ OneVersionEach(tasks, comps, files)
             /\ \A g \in Handlers : Ordered(h[g], tasks, comps, files)
  BY <1>c DEF TurnsInv
<1>d. ASSUME UNCHANGED <<tasks, comps, files>>
      PROVE  UNCHANGED <<tasks # <<>>, StoreComp, StorePkg>>
  BY <1>d DEF StoreComp, StorePkg
<1>1. ASSUME NEW g \in Handlers, NEW v \in Offers \union {NoVersion}, NEW m \in Mirrors,
             HandleCheckResult(g, v, m)
      PROVE  TurnsInv' /\ [Store!StoreNext]_(Store!storeVars)
  <2>1. h[g].pc = "idle" /\ UNCHANGED <<tasks, comps, files>>
    BY <1>1 DEF HandleCheckResult, HandlerAt, tables
  <2>2. PICK found \in Read(tasks) : CountFault(tasks, found) /\
          LET start == [Idle EXCEPT !.ver = v, !.mirror = m, !.undisturbed = found = tasks] IN
          Moves(g, IF HasUndoneTask(found) THEN [start EXCEPT !.pc = "answer", !.what = "undone"]
                   ELSE [start EXCEPT !.pc = IF v = NoVersion THEN "deleteTask" ELSE "compare",
                                      !.what = "check"])
    BY <1>1 DEF HandleCheckResult
  <2>3. found = tasks /\ faults = 0
    BY <1>b, <2>2
  <2>4. HasUndoneTask(tasks) => tasks # <<>>
    BY DEF HasUndoneTask, QueryTask
  <2>5. PICK place \in {"answer", "deleteTask", "compare"}, what \in {"undone", "check"} :
          /\ Moves(g, [pc |-> place, what |-> what, ver |-> v, mirror |-> m, undisturbed |-> TRUE])
          /\ \/ place = "answer" /\ what = "undone" /\ tasks # <<>>
             \/ place = (IF v = NoVersion THEN "deleteTask" ELSE "compare") /\ what = "check"
    BY <2>2, <2>3, <2>4 DEF Idle
  <2> DEFINE next == [pc |-> place, what |-> what, ver |-> v, mirror |-> m, undisturbed |-> TRUE]
  <2>6. /\ next \in HandlerRecords /\ Called(next) /\ Ordered(next, tasks, comps, files)
        /\ next.pc = place /\ next.what = what /\ next.ver = v
    BY <2>5 DEF HandlerRecords, Called, Ordered
  <2>7. Moves(g, next)
    BY <2>5
  <2> HIDE DEF next
  <2>8. TurnsInv'
    BY <1>c, <2>1, <2>3, <2>6, <2>7, AloneMoves
  <2>9. /\ StoreOp = "idle" /\ StoreOp' = place /\ StoreHandler' = "check" /\ StoreVer' = v
    BY <2>1, <2>5, <2>6, <2>7, AloneMoves DEF OpIn, HandlerIn
  <2>10. Store!HandleCheckResult(v)
    BY <1>d, <2>1, <2>5, <2>9 DEF Store!HandleCheckResult
  <2> QED BY <2>8, <2>10 DEF Store!StoreNext
<1>2. ASSUME NEW g \in Handlers, ClearFirmwareInfo(g)
      PROVE  TurnsInv' /\ [Store!StoreNext]_(Store!storeVars)
  <2> DEFINE next == [Idle EXCEPT !.pc = "deleteTask", !.what = "clear"]
  <2>1. /\ next \in HandlerRecords /\ Called(next) /\ Ordered(next, tasks, comps, files)
        /\ next.pc = "deleteTask" /\ next.what = "clear" /\ next.ver = NoVersion
    BY IdleRecord DEF HandlerRecords, Called, Ordered
  <2>2. /\ h[g].pc = "idle" /\ UNCHANGED <<tasks, comps, files>> /\ faults = 0 /\ Moves(g, next)
    BY <1>2 DEF ClearFirmwareInfo, HandlerAt, tables
  <2> HIDE DEF next
  <2>3. TurnsInv'
    BY <1>c, <2>1, <2>2, AloneMoves
  <2>4. /\ StoreOp = "idle" /\ StoreOp' = "deleteTask" /\ StoreHandler' = "clear" /\ StoreVer' = NoVersion
    BY <2>1, <2>2, AloneMoves DEF OpIn, HandlerIn
  <2>5. Store!BeginClear
    BY <1>d, <2>2, <2>4 DEF Store!BeginClear
  <2> QED BY <2>3, <2>5 DEF Store!StoreNext
<1>3. ASSUME NEW g \in Handlers, IsVersionSameWithDb(g)
      PROVE  TurnsInv' /\ [Store!StoreNext]_(Store!storeVars)
  <2>1. h[g].pc = "compare" /\ h[g].what = "check" /\ h[g].ver \in Offers /\ h[g].mirror \in Mirrors
        /\ UNCHANGED <<tasks, comps, files>>
    BY <1>0, <1>3 DEF IsVersionSameWithDb, HandlerAt, Called, HandlerRecords, tables
  <2>2. PICK found \in Read(comps) :
          /\ CountFault(comps, found)
          /\ LET next == IF SameWithDb(found, Server(h[g].ver, h[g].mirror)) THEN "updateUrl" ELSE "deleteTask" IN
             Moves(g, [h[g] EXCEPT !.pc = next, !.undisturbed = @ /\ found = comps])
    BY <1>3 DEF IsVersionSameWithDb
  <2>3. found = comps /\ faults = 0
    BY <1>b, <2>2
  <2> DEFINE same == SameWithDb(comps, Server(h[g].ver, h[g].mirror))
  <2>4. PICK place \in {"updateUrl", "deleteTask"} : place = IF same THEN "updateUrl" ELSE "deleteTask"
    OBVIOUS
  <2> DEFINE next == [h[g] EXCEPT !.pc = place, !.undisturbed = @ /\ comps = comps]
  <2>5. Moves(g, next)
    BY <2>2, <2>3, <2>4
  <2>6. /\ next \in HandlerRecords /\ next.pc = place /\ next.what = "check" /\ next.ver = h[g].ver
    BY <1>0, <2>1, <2>4 DEF HandlerRecords
  <2> HIDE DEF next
  <2>7. Called(next) /\ Ordered(next, tasks, comps, files)
    BY <1>0, <2>1, <2>4, <2>6 DEF Called, Ordered
  <2>8. alone /\ StoreOp = "compare" /\ StoreHandler = "check" /\ StoreVer = h[g].ver
        /\ StoreOp' = (IF place = "updateUrl" THEN "answer" ELSE "deleteTask")
        /\ StoreHandler' = "check" /\ StoreVer' = h[g].ver
    BY <2>1, <2>4, <2>5, <2>6, <2>7, AloneMoves DEF OpIn, HandlerIn
  <2>9. OneVersionEach(tasks, comps, files)
    BY <1>c, <2>3, <2>8
  <2>10. TurnsInv'
    BY <2>1, <2>5, <2>6, <2>7, <2>9, AloneMoves
  <2>11. same <=> StoreComp = h[g].ver
    <3>1. same <=> comps # <<>> /\ comps[1].package = <<h[g].ver, 1>>
      BY <1>0, <2>1, <2>9, SameMeansSame, OnePackageIsRecognised, ComponentsView
      DEF OneVersionEach, OnePackageEach
    <3>2. StoreComp = h[g].ver <=> comps # <<>> /\ comps[1].package[1] = h[g].ver
      BY <1>0, <2>1, <2>9, ComponentsView, VersionView DEF OneVersionEach, StoreComp
    <3>3. comps # <<>> => comps[1].package = <<comps[1].package[1], 1>>
      BY <1>0, <2>9, ComponentsView DEF OneVersionEach
    <3> QED BY <3>1, <3>2, <3>3
  <2>12. Store!IsVersionSameWithDb
    BY <1>d, <2>1, <2>4, <2>8, <2>11 DEF Store!IsVersionSameWithDb
  <2> QED BY <2>10, <2>12 DEF Store!StoreNext
<1>4. ASSUME NEW g \in Handlers, UpdateFirmwareComponent(g)
      PROVE  TurnsInv' /\ [Store!StoreNext]_(Store!storeVars)
  <2>1. /\ h[g].pc = "updateUrl" /\ h[g].what = "check" /\ h[g].mirror \in Mirrors
        /\ h[g].ver \in Offers
    BY <1>0, <1>4 DEF UpdateFirmwareComponent, HandlerAt, Called, HandlerRecords
  <2> DEFINE next == [Going(g, "answer") EXCEPT !.what = "same"]
  <2>2. /\ next \in HandlerRecords /\ next.pc = "answer" /\ next.what = "same"
        /\ next.ver = h[g].ver
    BY <2>1, GoingTo DEF HandlerRecords
  <2>3. /\ comps' = IF QueryTask(tasks) = "CHECK_VERSION_SUCCESS"
                    THEN UpdateUrlByVersionId(<<Parts[h[g].ver], h[g].mirror>>) ELSE comps
        /\ Moves(g, next) /\ UNCHANGED <<tasks, files, faults>>
    BY <1>4, <1>a DEF UpdateFirmwareComponent
  <2> HIDE DEF next
  <2>4. <<Parts[h[g].ver], h[g].mirror>> \in Numbers \X Mirrors
    BY <2>1, ServerPackages
  <2>5. comps' \in Seq(ComponentRows) /\ PackagesIn(comps') = PackagesIn(comps)
    BY <1>0, <2>3, <2>4, UpdateKeepsRows
  <2>6. Called(next) /\ Ordered(next, tasks', comps', files')
    BY <2>2 DEF Called, Ordered
  <2>7. /\ alone /\ faults = 0 /\ StoreOp = "answer" /\ StoreHandler = "check" /\ StoreVer = h[g].ver
        /\ StoreOp' = "answer" /\ StoreHandler' = "check" /\ StoreVer' = h[g].ver
    BY <2>1, <2>2, <2>3, <2>6, AloneMoves DEF OpIn, HandlerIn
  <2>8. OneVersionEach(tasks, comps, files)
    BY <1>c, <2>7
  <2>9. /\ Len(comps') = Len(comps) /\ (comps' = <<>> <=> comps = <<>>)
        /\ comps # <<>> => comps'[1].package = comps[1].package
    BY <1>0, <2>5, SamePackages
  <2>10. TurnsInv'
    BY <2>2, <2>3, <2>6, <2>7, <2>8, <2>9, AloneMoves DEF OneVersionEach
  <2>11. UNCHANGED <<StoreComp, StorePkg, tasks # <<>> >>
    BY <1>0, <2>3, <2>5, <2>8, <2>9, ComponentsView DEF OneVersionEach, StoreComp, StorePkg
  <2>12. UNCHANGED Store!storeVars
    BY <2>7, <2>11 DEF Store!storeVars
  <2> QED BY <2>10, <2>12
<1>5. ASSUME NEW g \in Handlers, DeleteTask(g)
      PROVE  TurnsInv' /\ [Store!StoreNext]_(Store!storeVars)
  <2> DEFINE next == Going(g, "deleteComponents")
  <2>1. h[g].pc = "deleteTask" /\ tasks' = <<>> /\ Moves(g, next) /\ UNCHANGED <<comps, files, faults>>
    BY <1>5, <1>a DEF DeleteTask, HandlerAt
  <2>2. /\ next \in HandlerRecords /\ next.pc = "deleteComponents" /\ next.what = h[g].what
        /\ next.ver = h[g].ver
    BY GoingTo
  <2> HIDE DEF next
  <2>3. Called(next) /\ Ordered(next, tasks', comps', files')
    BY <1>0, <2>1, <2>2 DEF Called, Ordered
  <2>4. /\ alone /\ faults = 0 /\ StoreOp = "deleteTask" /\ StoreOp' = "deleteComponents"
        /\ StoreHandler' = StoreHandler /\ StoreVer' = StoreVer
    BY <2>1, <2>2, <2>3, AloneMoves DEF OpIn, HandlerIn
  <2>5. TurnsInv'
    BY <1>c, <2>1, <2>2, <2>3, <2>4, AloneMoves DEF OneVersionEach
  <2>6. Store!DeleteTask
    BY <2>1, <2>4 DEF Store!DeleteTask, Store!Then, StoreComp, StorePkg
  <2> QED BY <2>5, <2>6 DEF Store!StoreNext
<1>6. ASSUME NEW g \in Handlers, DeleteComponents(g)
      PROVE  TurnsInv' /\ [Store!StoreNext]_(Store!storeVars)
  <2> DEFINE next == Going(g, "deleteFiles")
  <2>1. h[g].pc = "deleteComponents" /\ comps' = <<>> /\ Moves(g, next) /\ UNCHANGED <<tasks, files, faults>>
    BY <1>6, <1>a DEF DeleteComponents, HandlerAt
  <2>2. /\ next \in HandlerRecords /\ next.pc = "deleteFiles" /\ next.what = h[g].what
        /\ next.ver = h[g].ver
    BY GoingTo
  <2> HIDE DEF next
  <2>3. Called(next)
    BY <1>0, <2>1, <2>2 DEF Called
  <2>4. /\ alone /\ faults = 0 /\ StoreOp = "deleteComponents" /\ StoreOp' = "deleteFiles"
        /\ StoreHandler' = StoreHandler /\ StoreVer' = StoreVer
    BY <2>1, <2>2, <2>3, AloneMoves DEF OpIn, HandlerIn
  <2>5. OneVersionEach(tasks, comps, files) /\ tasks = <<>>
    BY <1>c, <2>1, <2>4 DEF Ordered
  <2>6. OneVersionEach(tasks', comps', files') /\ Ordered(next, tasks', comps', files')
    BY <2>1, <2>2, <2>5 DEF OneVersionEach, Ordered
  <2>7. TurnsInv'
    BY <2>1, <2>2, <2>3, <2>4, <2>6, AloneMoves
  <2>8. StoreComp' = NoVersion /\ StorePkg' = StorePkg
    <3>1. {comps'[i].package : i \in DOMAIN comps'} = {}
      BY <2>1
    <3> QED BY <2>1, <3>1, VersionView DEF StoreComp, StorePkg
  <2>9. Store!DeleteComponents
    BY <2>1, <2>4, <2>8 DEF Store!DeleteComponents, Store!Then
  <2> QED BY <2>7, <2>9 DEF Store!StoreNext
<1>7. ASSUME NEW g \in Handlers, DeleteFiles(g)
      PROVE  TurnsInv' /\ [Store!StoreNext]_(Store!storeVars)
  <2>1. h[g].pc = "deleteFiles" /\ files' = {} /\ Moves(g, AfterClear(g)) /\ UNCHANGED <<tasks, comps, faults>>
    BY <1>7, <1>a DEF DeleteFiles, HandlerAt
  <2>2. PICK next \in HandlerRecords :
          /\ next = AfterClear(g)
          /\ \/ h[g].what = "clear" /\ next = Idle
             \/ /\ next.pc = (IF h[g].ver = NoVersion THEN "answer" ELSE "insertComponents")
                /\ h[g].what # "clear" /\ next.what = h[g].what /\ next.ver = h[g].ver
    <3>1. CASE h[g].what = "clear"
      BY <3>1, IdleRecord DEF AfterClear
    <3>2. CASE h[g].what # "clear"
      BY <3>2, GoingTo DEF AfterClear
    <3> QED BY <3>1, <3>2
  <2>3. Called(next)
    BY <1>0, <2>1, <2>2, IdleRecord DEF Called
  <2>4. /\ alone /\ faults = 0 /\ StoreOp = "deleteFiles" /\ StoreHandler = HandlerIn(h[g])
        /\ StoreVer = h[g].ver
        /\ StoreOp' = OpIn(next) /\ StoreHandler' = HandlerIn(next) /\ StoreVer' = next.ver
    BY <2>1, <2>2, <2>3, AloneMoves DEF OpIn
  <2>5. tasks = <<>> /\ comps = <<>>
    BY <1>c, <2>1, <2>4 DEF Ordered
  <2>6. OneVersionEach(tasks', comps', files') /\ Ordered(next, tasks', comps', files')
    <3>1. next.pc # "insertTask"
      BY <2>2, IdleRecord
    <3> QED BY <2>1, <2>5, <3>1 DEF OneVersionEach, Ordered
  <2>7. TurnsInv'
    BY <2>1, <2>2, <2>3, <2>4, <2>6, AloneMoves
  <2>8. StoreComp' = StoreComp /\ StorePkg' = NoVersion
    BY <2>1, VersionView DEF StoreComp, StorePkg
  <2>9. CASE h[g].what = "clear"
    <3>1. StoreHandler = "clear" /\ StoreVer = NoVersion
      BY <1>0, <2>1, <2>4, <2>9 DEF HandlerIn, Called
    <3>2. StoreOp' = "idle" /\ StoreHandler' = "none" /\ StoreVer' = NoVersion
      BY <2>2, <2>4, <2>9, IdleRecord DEF OpIn, HandlerIn
    <3>3. Store!AfterClear = "idle"
      BY <3>1 DEF Store!AfterClear
    <3>4. Store!DeleteFiles
      BY <2>1, <2>4, <2>8, <3>1, <3>2, <3>3 DEF Store!DeleteFiles
    <3> QED BY <2>7, <3>4 DEF Store!StoreNext
  <2>10. CASE h[g].what # "clear"
    <3>1. StoreHandler = "check" /\ StoreVer = h[g].ver
      BY <2>1, <2>4, <2>10 DEF HandlerIn
    <3>2. PICK place \in {"answer", "insertComponents"} :
            place = next.pc /\ place = (IF h[g].ver = NoVersion THEN "answer" ELSE "insertComponents")
      BY <2>2, <2>10
    <3>3. StoreOp' = place /\ StoreHandler' = "check" /\ StoreVer' = h[g].ver
      BY <2>2, <2>4, <2>10, <3>2 DEF OpIn, HandlerIn
    <3>4. Store!AfterClear = place
      BY <3>1, <3>2 DEF Store!AfterClear
    <3>5. Store!DeleteFiles
      BY <2>1, <2>4, <2>8, <3>1, <3>2, <3>3, <3>4 DEF Store!DeleteFiles
    <3> QED BY <2>7, <3>5 DEF Store!StoreNext
  <2> QED BY <2>9, <2>10
<1>8. ASSUME NEW g \in Handlers, InsertComponents(g)
      PROVE  TurnsInv' /\ [Store!StoreNext]_(Store!storeVars)
  <2> DEFINE next == Going(g, "insertTask")
  <2>1. /\ h[g].pc = "insertComponents" /\ Moves(g, next)
        /\ comps' = comps \o BuildDbValues(Server(h[g].ver, h[g].mirror))
        /\ UNCHANGED <<tasks, files, faults>>
    BY <1>8, <1>a DEF InsertComponents, HandlerAt
  <2>2. /\ next \in HandlerRecords /\ next.pc = "insertTask" /\ next.what = h[g].what
        /\ next.ver = h[g].ver
    BY GoingTo
  <2>3. h[g].ver \in Offers /\ h[g].mirror \in Mirrors
    BY <1>0, <2>1 DEF Called, HandlerRecords
  <2>4. PICK new \in Seq(ComponentRows) :
          new = BuildDbValues(Server(h[g].ver, h[g].mirror)) /\ PackagesIn(new) = PackagesOf(h[g].ver)
    BY <2>3, InsertedRows
  <2> HIDE DEF next
  <2>5. Called(next)
    BY <1>0, <2>1, <2>2 DEF Called
  <2>6. /\ alone /\ faults = 0 /\ StoreOp = "insertComponents" /\ StoreOp' = "insertTask"
        /\ StoreHandler' = StoreHandler /\ StoreVer' = StoreVer /\ StoreVer = h[g].ver
    BY <2>1, <2>2, <2>5, AloneMoves DEF OpIn, HandlerIn
  <2>7. tasks = <<>> /\ comps = <<>> /\ files = {}
    BY <1>c, <2>1, <2>6 DEF Ordered
  <2>8. comps' = new
    BY <2>1, <2>4, <2>7
  <2>9. Len(new) = 1
    <3>1. PICK n \in Nat : n = Len(new) /\ DOMAIN new = 1 .. n
      OBVIOUS
    <3>2. 1 .. 1 = 1 .. n
      <4>1. PackagesOf(h[g].ver) = [k \in 1 .. 1 |-> <<h[g].ver, k>>]
        BY <2>3, OnePackage
      <4>2. [k \in DOMAIN new |-> new[k].package] = [k \in 1 .. 1 |-> <<h[g].ver, k>>]
        BY <2>4, <4>1 DEF PackagesIn
      <4>3. DOMAIN new = 1 .. 1
        <5>1. DOMAIN [k \in DOMAIN new |-> new[k].package]
                = DOMAIN [k \in 1 .. 1 |-> <<h[g].ver, k>>]
          BY <4>2
        <5> QED BY <5>1
      <4> QED BY <3>1, <4>3
    <3>3. 1 \in 1 .. 1 /\ 2 \notin 1 .. 1
      OBVIOUS
    <3>4. 1 \in 1 .. n /\ 2 \notin 1 .. n
      BY <3>2, <3>3
    <3>5. n = 1
      BY <3>4
    <3> QED BY <3>1, <3>5
  <2>10. new # <<>> /\ Len(new) <= 1 /\ new[1].package = <<h[g].ver, 1>>
    <3>1. new # <<>> /\ Len(new) <= 1
      <4>1. Len(<<>>) # 1
        OBVIOUS
      <4> QED BY ONLY <2>9, <4>1
    <3> QED BY <2>3, <2>4, <3>1, ComponentsView
  <2>11. OneVersionEach(tasks', comps', files') /\ Ordered(next, tasks', comps', files')
    BY <2>1, <2>2, <2>7, <2>8, <2>9, <2>10 DEF OneVersionEach, Ordered
  <2>12. TurnsInv'
    BY <2>1, <2>2, <2>5, <2>6, <2>11, AloneMoves
  <2>13. StoreComp' = h[g].ver /\ StorePkg' = StorePkg
    <3>1. {new[i].package : i \in DOMAIN new} = {new[1].package}
      BY <2>10, ComponentsView
    <3>2. {comps'[i].package : i \in DOMAIN comps'} = {<<h[g].ver, 1>>}
      BY <2>8, <2>10, <3>1
    <3>3. <<h[g].ver, 1>>[1] = h[g].ver
      OBVIOUS
    <3> QED BY <2>1, <3>2, <3>3, VersionView DEF StoreComp, StorePkg
  <2>14. Store!InsertComponents
    BY <2>1, <2>6, <2>13 DEF Store!InsertComponents, Store!Then
  <2> QED BY <2>12, <2>14 DEF Store!StoreNext
<1>9. ASSUME NEW g \in Handlers, InsertTask(g)
      PROVE  TurnsInv' /\ [Store!StoreNext]_(Store!storeVars)
  <2> DEFINE next == Going(g, "answer")
  <2>1. /\ h[g].pc = "insertTask" /\ tasks' = Append(tasks, BuildTask("CHECK_VERSION_SUCCESS"))
        /\ Moves(g, next) /\ UNCHANGED <<comps, files, faults>>
    BY <1>9, <1>a DEF InsertTask, HandlerAt
  <2>2. /\ next \in HandlerRecords /\ next.pc = "answer" /\ next.what = h[g].what
        /\ next.ver = h[g].ver
    BY GoingTo
  <2> HIDE DEF next
  <2>3. Called(next) /\ Ordered(next, tasks', comps', files')
    BY <1>0, <2>1, <2>2 DEF Called, Ordered
  <2>4. /\ alone /\ faults = 0 /\ StoreOp = "insertTask" /\ StoreOp' = "answer"
        /\ StoreHandler' = StoreHandler /\ StoreVer' = StoreVer
    BY <2>1, <2>2, <2>3, AloneMoves DEF OpIn, HandlerIn
  <2>5. comps # <<>> /\ files = {} /\ OneVersionEach(tasks, comps, files)
    BY <1>c, <2>1, <2>4 DEF Ordered
  <2>6. OneVersionEach(tasks', comps', files')
    BY <2>1, <2>5 DEF OneVersionEach
  <2>7. TurnsInv'
    BY <2>1, <2>2, <2>3, <2>4, <2>6, AloneMoves
  <2>8. tasks' # <<>>
    BY <1>0, <2>1, InsertedTask
  <2>9. Store!InsertTask
    BY <2>1, <2>4, <2>8 DEF Store!InsertTask, Store!Then, StoreComp, StorePkg
  <2> QED BY <2>7, <2>9 DEF Store!StoreNext
<1>10. ASSUME NEW g \in Handlers, BuildCheckResult(g)
       PROVE  TurnsInv' /\ [Store!StoreNext]_(Store!storeVars)
  <2>1. h[g].pc = "answer" /\ Moves(g, Idle) /\ UNCHANGED <<tasks, comps, files, faults>>
    BY <1>10 DEF BuildCheckResult, HandlerAt, tables
  <2>2. Ordered(Idle, tasks', comps', files')
    BY IdleRecord DEF Ordered
  <2>3. /\ alone /\ faults = 0 /\ StoreOp = "answer"
        /\ StoreOp' = "idle" /\ StoreHandler' = "none" /\ StoreVer' = NoVersion
    BY <2>1, IdleRecord, AloneMoves DEF OpIn, HandlerIn
  <2>4. TurnsInv'
    BY <1>c, <2>1, <2>2, <2>3, IdleRecord, AloneMoves
  <2>5. Store!BuildCheckResult
    BY <1>d, <2>1, <2>3 DEF Store!BuildCheckResult, Store!Then
  <2> QED BY <2>4, <2>5 DEF Store!StoreNext
<1>11. ASSUME NEW i \in DOMAIN comps, NEW s \in {"DOWNLOADING", "DOWNLOAD_FAIL", "DOWNLOAD_SUCCESS"},
              DownloadCallback(comps[i].url, s)
       PROVE  TurnsInv' /\ [Store!StoreNext]_(Store!storeVars)
  <2>1. s \in DOMAIN UpgradeStatus
    BY Codes
  <2>2. /\ comps' \in Seq(ComponentRows) /\ PackagesIn(comps') = PackagesIn(comps)
        /\ tasks' = <<>> <=> tasks = <<>>
    BY <1>0, <1>11, <2>1, UpdateKeepsRows DEF DownloadCallback
  <2>3. /\ alone /\ faults = 0 /\ tasks # <<>>
        /\ h' = [g \in Handlers |-> [h[g] EXCEPT !.undisturbed = FALSE]]
        /\ files' = IF s # "DOWNLOAD_SUCCESS" THEN files
                    ELSE files \union {comps[j].package : j \in Found(comps, [url |-> comps[i].url])}
    BY <1>11 DEF DownloadCallback, QueryTask
  <2>4. /\ \A g, k \in Handlers : g # k => h[g].pc = "idle" \/ h[k].pc = "idle"
        /\ OneVersionEach(tasks, comps, files)
        /\ \A g \in Handlers : Ordered(h[g], tasks, comps, files)
    BY <1>c, <2>3
  <2>5. /\ Len(comps') = Len(comps) /\ (comps' = <<>> <=> comps = <<>>)
        /\ comps # <<>> => comps'[1].package = comps[1].package
    BY <1>0, <2>2, SamePackages
  <2>6. /\ comps # <<>> /\ files \subseteq {comps[1].package} /\ DOMAIN comps = {1}
    <3>1. comps # <<>> /\ Len(comps) <= 1 /\ files \subseteq {comps[1].package}
      BY <2>3, <2>4 DEF OneVersionEach
    <3>2. Len(comps) \in Nat /\ Len(comps) # 0 /\ DOMAIN comps = 1 .. Len(comps)
      BY <1>0, <3>1
    <3>3. Len(comps) = 1
      BY <3>1, <3>2
    <3> QED BY <3>1, <3>2, <3>3
  <2>7. files' \subseteq {comps[1].package} /\ (s = "DOWNLOAD_SUCCESS" => files' = {comps[1].package})
    <3>1. 1 \in Found(comps, [url |-> comps[i].url]) /\ Found(comps, [url |-> comps[i].url]) \subseteq {1}
      BY <2>6 DEF Found, Matches
    <3> QED BY <2>3, <2>6, <3>1
  <2>8. OneVersionEach(tasks', comps', files')
    BY <2>2, <2>3, <2>4, <2>5, <2>6, <2>7 DEF OneVersionEach
  <2>9. ASSUME NEW g \in Handlers
        PROVE  /\ h'[g].pc = h[g].pc /\ h'[g].what = h[g].what /\ h'[g].ver = h[g].ver
               /\ Ordered(h'[g], tasks', comps', files')
    <3>1. h[g] \in HandlerRecords
      BY <1>0
    <3>2. h'[g].pc = h[g].pc /\ h'[g].what = h[g].what /\ h'[g].ver = h[g].ver
      BY <2>3, <3>1 DEF HandlerRecords
    <3>3. Ordered(h[g], tasks, comps, files)
      BY <2>4
    <3>4. h[g].pc \notin {"deleteComponents", "deleteFiles", "insertComponents", "insertTask"}
      BY <2>3, <3>3 DEF Ordered
    <3> QED BY <3>2, <3>4 DEF Ordered
  <2>10. TurnsInv'
    BY <2>4, <2>8, <2>9 DEF TurnsInv
  <2>11. UNCHANGED <<StoreOp, StoreHandler, StoreVer>>
    <3>1. CASE \E g \in Handlers : h[g].pc # "idle"
      <4>1. PICK g \in Handlers : h[g].pc # "idle"
        BY <3>1
      <4>2. /\ \A k \in Handlers : k # g => h[k].pc = "idle"
            /\ \A k \in Handlers : k # g => h'[k].pc = "idle"
        BY <2>4, <2>9, <4>1
      <4>3. StoreOp = OpIn(h[g]) /\ StoreHandler = HandlerIn(h[g]) /\ StoreVer = h[g].ver
        BY <4>1, <4>2, WorkerView
      <4>4. StoreOp' = OpIn(h'[g]) /\ StoreHandler' = HandlerIn(h'[g]) /\ StoreVer' = h'[g].ver
        BY <2>9, <4>1, <4>2, WorkerViewNext
      <4> QED BY <2>9, <4>3, <4>4 DEF OpIn, HandlerIn
    <3>2. CASE \A g \in Handlers : h[g].pc = "idle"
      BY <2>9, <3>2, RestView, RestViewNext
    <3> QED BY <3>1, <3>2
  <2>12. StoreComp' = StoreComp /\ StoreComp = comps[1].package[1]
    BY <1>0, <2>2, <2>4, <2>5, <2>6, <2>8, ComponentsView, VersionView DEF OneVersionEach, StoreComp
  <2>13. CASE s = "DOWNLOAD_SUCCESS"
    <3>1. StorePkg' = StoreComp
      BY <2>7, <2>12, <2>13, VersionView DEF StorePkg
    <3>2. Store!PackageArrives
      BY <2>2, <2>3, <2>11, <2>12, <3>1 DEF Store!PackageArrives
    <3> QED BY <2>10, <3>2 DEF Store!StoreNext
  <2>14. CASE s # "DOWNLOAD_SUCCESS"
    <3>1. UNCHANGED Store!storeVars
      BY <2>2, <2>3, <2>11, <2>12, <2>14 DEF Store!storeVars, StorePkg
    <3> QED BY <2>10, <3>1
  <2> QED BY <2>13, <2>14
<1>12. ASSUME Crash PROVE TurnsInv' /\ [Store!StoreNext]_(Store!storeVars)
  <2>1. /\ alone /\ faults = 0 /\ UNCHANGED <<tasks, comps, files>>
        /\ \A g \in Handlers : h'[g] = Idle
    BY <1>12 DEF Crash, tables
  <2>2. PICK g \in Handlers : h[g].pc # "idle"
    BY <1>12 DEF Crash, HandlerAt
  <2>3. \A k \in Handlers : h'[k].pc = "idle" /\ Ordered(h'[k], tasks', comps', files')
    BY <2>1, IdleRecord DEF Ordered
  <2>4. TurnsInv'
    BY <1>c, <2>1, <2>3 DEF TurnsInv
  <2>5. StoreOp' = "idle" /\ StoreHandler' = "none" /\ StoreVer' = NoVersion
    BY <2>3, RestViewNext
  <2>6. StoreOp # "idle"
    <3>1. \A k \in Handlers : k # g => h[k].pc = "idle"
      BY <1>c, <2>1, <2>2
    <3> QED BY <2>2, <3>1, WorkerView DEF OpIn
  <2>7. Store!Crash
    BY <1>d, <2>1, <2>5, <2>6 DEF Store!Crash
  <2> QED BY <2>4, <2>7 DEF Store!StoreNext
<1>13. ASSUME UNCHANGED tableVars PROVE TurnsInv' /\ [Store!StoreNext]_(Store!storeVars)
  <2>1. TurnsInv'
    BY <1>13 DEF tableVars, TurnsInv
  <2>2. UNCHANGED <<StoreOp, StoreHandler, StoreVer>>
    BY <1>13 DEF tableVars, StoreOp, StoreHandler, StoreVer, Working, Worker, HandlerAt, OpOf, HandlerOf
  <2>3. UNCHANGED Store!storeVars
    BY <1>13, <1>d, <2>2 DEF tableVars, Store!storeVars
  <2> QED BY <2>1, <2>3
<1> QED
  BY <1>1, <1>2, <1>3, <1>4, <1>5, <1>6, <1>7, <1>8, <1>9, <1>10, <1>11, <1>12, <1>13 DEF TablesNext

\* Handlers that take turns keep what a store with one version in each place needs.
LEMMA TurnsStep ==
  ASSUME OnePackageEach
  PROVE  TablesInv /\ TurnsInv /\ [TablesNext]_tableVars => TurnsInv'
<1>1. CASE alone' /\ faults' = 0
  BY <1>1, StoreStep
<1>2. CASE ~(alone' /\ faults' = 0)
  BY <1>2 DEF TurnsInv
<1> QED BY <1>1, <1>2

\* As long as handlers take turns and no operation fails the tables implement FirmwareStore, for
\* any number of handlers and versions, whatever downloads report and wherever the process dies
\* (HandleCheckResult, ClearFirmwareInfo, DownloadCallback).
THEOREM TablesImplementStore ==
  ASSUME OnePackageEach
  PROVE  TablesSpec => ImplementsStore
<1>1. TablesInit => Store!StoreInit /\ TurnsInv
  <2> SUFFICES ASSUME TablesInit PROVE Store!StoreInit /\ TurnsInv
    OBVIOUS
  <2>1. \A g \in Handlers : h[g] = Idle
    BY DEF TablesInit
  <2>2. tasks = <<>> /\ comps = <<>> /\ files = {}
    BY DEF TablesInit
  <2>3. StoreComp = NoVersion /\ StorePkg = NoVersion
    <3>1. {comps[i].package : i \in DOMAIN comps} = {}
      BY <2>2
    <3> QED BY <2>2, <3>1, VersionView DEF StoreComp, StorePkg
  <2>4. StoreOp = "idle" /\ StoreHandler = "none" /\ StoreVer = NoVersion
    BY <2>1, IdleRecord, RestView
  <2>5. OneVersionEach(tasks, comps, files) /\ \A g \in Handlers : Ordered(h[g], tasks, comps, files)
    BY <2>1, <2>2, IdleRecord DEF OneVersionEach, Ordered
  <2> QED BY <2>1, <2>2, <2>3, <2>4, <2>5, IdleRecord DEF Store!StoreInit, TurnsInv
<1>2. TablesInv /\ TurnsInv /\ [TablesNext]_tableVars
        => [alone' /\ faults' = 0 => [Store!StoreNext]_(Store!storeVars)]_tableVars
  BY StoreStep
<1> QED BY TablesInvInit, TablesInvStep, TurnsStep, <1>1, <1>2, PTL DEF TablesSpec, ImplementsStore
=============================================================================
