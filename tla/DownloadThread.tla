--------------------------- MODULE DownloadThread ---------------------------
(***************************************************************************)
(* One accepted download, at the grain of its threads: the detached thread *)
(* of the executor walks over the packages, each package has a thread of   *)
(* its own that is woken, transfers and calls back, and the callback that  *)
(* ends the download deletes the flow and everything below it.             *)
(*                                                                         *)
(* progress_thread.cpp                   the threads and their callbacks   *)
(* firmware_download_executor.cpp        the walk over the packages        *)
(* firmware_flow_manager.cpp,            what a callback leads to          *)
(*   firmware_download_mode.cpp                                            *)
(*                                                                         *)
(* FirmwareUpgrade has one package per version and takes a download's      *)
(* thread as a single process.  What the threads do with the executor once *)
(* it is deleted is undefined: they end the process, or go on as if it     *)
(* were still there.                                                       *)
(***************************************************************************)
EXTENDS Integers, Sequences, FiniteSets

CONSTANTS
  Sizes,   \* the packages of the version: how many chunks each has
  Resumed  \* chunks that may be there from an interrupted download

ASSUME SizesAssumption == Sizes \in Seq(Nat \ {0}) /\ Sizes # <<>>
ASSUME ResumedAssumption == Resumed \in Nat /\ \A i \in DOMAIN Sizes : Resumed <= Sizes[i]

DOWNLOAD_FINISH_PERCENT == 100
DOWNLOAD_PERIOD_PERCENT == 1

VARIABLES
  loop,    \* PerformDownload: where it is, and at which package
  threads, \* the threads, one per package
  owner,   \* downloadThread_: the package whose thread the executor holds, 0 for none
  freed,   \* the flow and the executor are deleted
  alive,   \* the process
  orphans, \* packages that are downloaded through the deleted executor
  file,    \* chunks on disk, per package
  removed, \* packages deleted from disk since they were opened
  taskStatus,  \* status in the task table, "NONE" without a row
  isNoNet, isCancel,
  shown    \* the last report to the client, per package

flags == <<isNoNet, isCancel>>
executor == <<owner, freed, orphans>>
disk == <<file, removed>>
downloadVars == <<loop, threads, executor, alive, disk, taskStatus, flags, shown>>

Packages == DOMAIN Sizes

\* downloadProgress_ and what was reported.
Progress(percent, status) == [percent |-> percent, status |-> status]

\* A DownloadThread object before StartDownload.
NewThread == [pc |-> "none", wake |-> FALSE, exit |-> FALSE,
              start |-> 0, pos |-> 0, last |-> Progress(0, "INIT")]

\* The thread of package i may still call back.
Active(i) == threads[i].pc \in {"waiting", "open", "transfer"}

DownloadInit ==
  /\ loop = [pc |-> "look", i |-> 1]
  /\ threads = [i \in Packages |-> NewThread]
  /\ owner = 0 /\ freed = FALSE /\ orphans = {} /\ alive = TRUE
  /\ file \in [Packages -> {0, Resumed} \union {Sizes[i] : i \in Packages}] /\ removed = {}
  /\ \A i \in Packages : file[i] \in {0, Resumed, Sizes[i]}
  /\ taskStatus = "CHECK_VERSION_SUCCESS"
  /\ isNoNet = FALSE /\ isCancel = FALSE
  /\ shown = [i \in Packages |-> Progress(0, "INIT")]

-----------------------------------------------------------------------------
(***************************************************************************)
(* The end of a download.                                                  *)
(***************************************************************************)
\* UpdateProgressByTaskId: a task that is gone has no row to write.
Written(status) == IF taskStatus = "NONE" THEN "NONE" ELSE status

\* What GetStepAfterDownload makes of the end.
TaskAfter(status) ==
  CASE status = "DOWNLOAD_SUCCESS" -> "DOWNLOAD_SUCCESS"
    [] status = "DOWNLOAD_FAIL"    -> "NONE"
    [] status = "DOWNLOAD_CANCEL"  -> "CHECK_VERSION_SUCCESS"

\* DownloadFailProcess and DownloadCancelProcess delete all files.
FilesAfter(status) ==
  IF status = "DOWNLOAD_SUCCESS" THEN UNCHANGED disk
  ELSE file' = [i \in Packages |-> 0] /\ removed' = Packages

\* Execute after the last step: HandleComplete deletes the flow.  A flow that completed before has
\* no step left: the report is written and told, and package i stays with what is left of it.
EndDownload(i, percent, status, left) ==
  /\ IF freed
     THEN /\ taskStatus' = Written(status)
          /\ file' = [file EXCEPT ![i] = left] /\ UNCHANGED removed
     ELSE taskStatus' = TaskAfter(status) /\ FilesAfter(status)
  /\ freed' = TRUE
  /\ shown' = [shown EXCEPT ![i] = Progress(percent, status)]

\* The package's own thread reports the end.  If the executor still holds that thread, ExitThread
\* makes it wait for itself (pthread_join of musl does not refuse).
Complete(i, percent, status, left) ==
  /\ EndDownload(i, percent, status, left)
  /\ threads' = [threads EXCEPT ![i].pc = IF owner = i THEN "joins itself" ELSE "ended"]
  /\ UNCHANGED <<loop, owner, orphans, alive>>

-----------------------------------------------------------------------------
(***************************************************************************)
(* The thread of the executor.                                             *)
(***************************************************************************)
LoopAt(pc) == alive /\ loop.pc = pc

\* The executor is gone: its thread ends somewhere, or a thread that still uses it ends the process.
UseAfterFree ==
  /\ alive /\ freed
  /\ \/ loop.pc \in {"look", "make", "start", "notify"}
        /\ loop' = [loop EXCEPT !.pc = "end"] /\ alive' \in BOOLEAN
     \/ (\E i \in orphans : Active(i)) /\ alive' = FALSE /\ UNCHANGED loop
  /\ UNCHANGED <<threads, executor, disk, taskStatus, flags, shown>>

\* The old thread is woken to exit; a deleted executor has let go of it already.
LetGo(waits, goes) ==
  IF owner = 0 \/ freed
  THEN loop' = [loop EXCEPT !.pc = goes] /\ UNCHANGED threads
  ELSE /\ loop' = [loop EXCEPT !.pc = waits]
       /\ threads' = [threads EXCEPT ![owner].wake = TRUE, ![owner].exit = TRUE]

\* The package at hand, if the loop has gone on in the deleted executor.
ThroughFreed == IF freed THEN {loop.i} ELSE {}

\* The file is there with the length of the package: the loop reports the end itself, verified or
\* not, and then goes on with the package.  Deleting the executor waits for the thread before.
LookAtFile ==
  /\ LoopAt("look")
  /\ \/ /\ file[loop.i] # Sizes[loop.i]
        /\ loop' = [loop EXCEPT !.pc = "make"]
        /\ UNCHANGED <<threads, executor, disk, taskStatus, shown>>
     \/ /\ file[loop.i] = Sizes[loop.i]
        /\ \/ EndDownload(loop.i, DOWNLOAD_FINISH_PERCENT, "DOWNLOAD_SUCCESS", file[loop.i])
           \/ EndDownload(loop.i, DOWNLOAD_FINISH_PERCENT, "DOWNLOAD_FAIL", 0)
        /\ orphans' = orphans \union {i \in Packages : Active(i)} \union ThroughFreed
        /\ LetGo("destroy", "make")
        /\ UNCHANGED owner
  /\ UNCHANGED <<alive, flags>>

\* downloadThread_ = make_shared: the new object is in place, the old one is let go.
ReplaceThread ==
  /\ LoopAt("make")
  /\ owner' = loop.i
  /\ LetGo("join", "start")
  /\ UNCHANGED <<freed, orphans, alive, disk, taskStatus, flags, shown>>

\* Where the loop goes on once the old thread is gone.
AfterExit == IF loop.pc = "join" THEN "start" ELSE "make"

\* Fault: the old thread is not waited for.
ExitThreadNoJoin ==
  /\ alive /\ loop.pc \in {"join", "destroy"}
  /\ loop' = [loop EXCEPT !.pc = AfterExit]
  /\ UNCHANGED <<threads, executor, alive, disk, taskStatus, flags, shown>>

\* ExitThread, in the destructor of the old object: wait for its thread.
ExitThread ==
  /\ alive /\ loop.pc \in {"join", "destroy"}
  /\ threads[loop.i - 1].pc = "ended"
  /\ loop' = [loop EXCEPT !.pc = AfterExit]
  /\ UNCHANGED <<threads, executor, alive, disk, taskStatus, flags, shown>>

NextPackage ==
  IF loop.i < Len(Sizes) THEN [pc |-> "look", i |-> loop.i + 1] ELSE [loop EXCEPT !.pc = "notify"]

\* Fault: the thread is notified, and if it does not wait yet nothing is left of it.
StartProgressUnwoken(i) == [threads[i] EXCEPT !.pc = "waiting"]

StartProgress(i) == [threads[i] EXCEPT !.pc = "waiting", !.wake = TRUE]

\* StartDownload returns 0: creating a thread throws rather than fail.
StartDownload ==
  /\ LoopAt("start")
  /\ threads' = [threads EXCEPT ![loop.i] = StartProgress(loop.i)]
  /\ orphans' = orphans \union ThroughFreed
  /\ loop' = NextPackage
  /\ UNCHANGED <<owner, freed, alive, disk, taskStatus, flags, shown>>

\* EVENT_DOWNLOAD_START, from the executor's task.
NotifyStart ==
  /\ LoopAt("notify")
  /\ loop' = [loop EXCEPT !.pc = "end"]
  /\ UNCHANGED <<threads, executor, alive, disk, taskStatus, flags, shown>>

-----------------------------------------------------------------------------
(***************************************************************************)
(* The thread of a package.                                                *)
(***************************************************************************)
ThreadAt(i, pc) == alive /\ threads[i].pc = pc

\* ExecuteThreadFunc: asleep until woken, and gone if it is to exit.
ExecuteThreadFunc(i) ==
  /\ ThreadAt(i, "waiting")
  /\ threads[i].wake
  /\ threads' = [threads EXCEPT ![i].pc = IF threads[i].exit THEN "ended" ELSE "open",
                        ![i].wake = FALSE]
  /\ UNCHANGED <<loop, executor, alive, disk, taskStatus, flags, shown>>

\* ProcessThreadExecute opens the file for appending and resumes at its length.
ProcessThreadExecute(i) ==
  /\ ThreadAt(i, "open")
  /\ threads' = [threads EXCEPT ![i].pc = "transfer", ![i].start = file[i]]
  /\ removed' = removed \ {i}
  /\ UNCHANGED <<loop, executor, alive, file, taskStatus, flags, shown>>

\* dlTotal, dlNow and what is on disk by now: the writes are buffered.
Total(i) == Sizes[i] - threads[i].start

WriteFunc(i) ==
  /\ ThreadAt(i, "transfer")
  /\ threads[i].pos < Total(i)
  /\ threads' = [threads EXCEPT ![i].pos = @ + 1]
  /\ IF i \in removed THEN UNCHANGED file
     ELSE \E n \in file[i] .. threads[i].start + threads[i].pos + 1 : file' = [file EXCEPT ![i] = n]
  /\ UNCHANGED <<loop, executor, alive, removed, taskStatus, flags, shown>>

\* fclose in ProcessThreadExit writes the rest of the buffer.
Closed(i) == IF i \in removed THEN file[i] ELSE threads[i].start + threads[i].pos

\* DownloadProgress reads the length of the file anew each time.
Percent(i) == ((threads[i].pos + file[i]) * DOWNLOAD_FINISH_PERCENT) \div (file[i] + Total(i))

\* DealAbnormal: the next callback finds the network gone or the download cancelled.
DealAbnormal(i, percent, left) ==
  /\ isNoNet \/ isCancel
  /\ isCancel' = FALSE
  /\ Complete(i, percent, IF isNoNet THEN "DOWNLOAD_FAIL" ELSE "DOWNLOAD_CANCEL", left)
  /\ UNCHANGED isNoNet

\* No reason to stop: the thread's own end is reported.
Finished(i, percent, status, left) ==
  /\ ~isNoNet /\ ~isCancel
  /\ Complete(i, percent, status, left)
  /\ UNCHANGED flags

\* The file cannot be opened.  The reason is a sentence, which stoi in GetStepAfterDownload throws at.
OpenFails(i) ==
  /\ ThreadAt(i, "open")
  /\ \/ DealAbnormal(i, 0, file[i])
     \/ freed /\ Finished(i, 0, "DOWNLOAD_FAIL", 0)
     \/ /\ ~freed /\ ~isNoNet /\ ~isCancel
        /\ alive' = FALSE
        /\ taskStatus' = "DOWNLOAD_FAIL" /\ file' = [file EXCEPT ![i] = 0]
        /\ UNCHANGED <<loop, threads, executor, removed, flags, shown>>

\* Fault: a report for every callback.
WorthReportingAny(last, percent) == percent < DOWNLOAD_FINISH_PERCENT

\* A percent more than last time, and not yet all of it.
WorthReporting(last, percent) ==
  /\ last # Progress(percent, "DOWNLOADING")
  /\ percent >= last.percent + DOWNLOAD_PERIOD_PERCENT
  /\ percent # DOWNLOAD_FINISH_PERCENT

\* DownloadCallback for progress, through the executor to the task table and the client.  Without
\* a length to expect not even the network is looked at.
DownloadProgress(i) ==
  /\ ThreadAt(i, "transfer")
  /\ Total(i) > 0
  /\ LET percent == Percent(i) IN
     \/ DealAbnormal(i, percent, Closed(i))
     \/ /\ ~isNoNet /\ ~isCancel
        /\ WorthReporting(threads[i].last, percent)
        /\ threads' = [threads EXCEPT ![i].last = Progress(percent, "DOWNLOADING")]
        /\ taskStatus' = Written("DOWNLOADING")
        /\ shown' = [shown EXCEPT ![i] = Progress(percent, "DOWNLOADING")]
        /\ UNCHANGED <<loop, executor, alive, disk, flags>>

\* curl_easy_perform returns; an error or its timeout of ten minutes unlinks the file.
CurlReturns(i) ==
  /\ ThreadAt(i, "transfer")
  /\ \/ DealAbnormal(i, 0, Closed(i))
     \/ Finished(i, 0, "DOWNLOAD_FAIL", 0)

\* CURLE_OK, whatever came: the file is closed, and passes for the package or is removed.
CurlDone(i) ==
  /\ ThreadAt(i, "transfer")
  /\ file[i] = Closed(i)
  /\ \/ DealAbnormal(i, DOWNLOAD_FINISH_PERCENT, file[i])
     \/ Finished(i, DOWNLOAD_FINISH_PERCENT, "DOWNLOAD_SUCCESS", file[i])
     \/ Finished(i, DOWNLOAD_FINISH_PERCENT, "DOWNLOAD_FAIL", 0)

\* The last of the buffer.
Flush(i) ==
  /\ ThreadAt(i, "transfer")
  /\ file[i] # Closed(i)
  /\ file' = [file EXCEPT ![i] = Closed(i)]
  /\ UNCHANGED <<loop, threads, executor, alive, removed, taskStatus, flags, shown>>

-----------------------------------------------------------------------------
\* DoCancelDownload, and the network comes and goes.
DoCancelDownload ==
  /\ alive /\ taskStatus # "NONE"
  /\ isCancel' = TRUE
  /\ UNCHANGED <<loop, threads, executor, alive, disk, taskStatus, isNoNet, shown>>

NetChanged ==
  /\ alive
  /\ isNoNet' = ~isNoNet
  /\ UNCHANGED <<loop, threads, executor, alive, disk, taskStatus, isCancel, shown>>

PerformDownload == LookAtFile \/ ReplaceThread \/ ExitThread \/ StartDownload \/ NotifyStart
Thread(i) ==
  \/ ExecuteThreadFunc(i) \/ ProcessThreadExecute(i) \/ OpenFails(i)
  \/ WriteFunc(i) \/ DownloadProgress(i) \/ CurlReturns(i) \/ Flush(i) \/ CurlDone(i)

DownloadNext ==
  \/ PerformDownload \/ UseAfterFree \/ DoCancelDownload \/ NetChanged
  \/ \E i \in Packages : Thread(i)

\* Threads run, and curl has its timeouts: it returns.
Fairness ==
  /\ WF_downloadVars(PerformDownload)
  /\ \A i \in Packages : WF_downloadVars(ExecuteThreadFunc(i)) /\ WF_downloadVars(ProcessThreadExecute(i))
                         /\ WF_downloadVars(CurlReturns(i))

DownloadSpec == DownloadInit /\ [][DownloadNext]_downloadVars
LiveSpec == DownloadSpec /\ Fairness

-----------------------------------------------------------------------------
\* Type correctness.
DownloadTypeOK ==
  /\ loop.pc \in {"look", "destroy", "make", "join", "start", "notify", "end"} /\ loop.i \in Packages
  /\ DOMAIN threads = Packages
  /\ \A i \in Packages :
       /\ threads[i].pc \in {"none", "waiting", "open", "transfer", "joins itself", "ended"}
       /\ threads[i].wake \in BOOLEAN /\ threads[i].exit \in BOOLEAN
       /\ threads[i].start \in 0 .. Sizes[i] /\ threads[i].pos \in 0 .. Sizes[i]
       /\ file[i] \in 0 .. Sizes[i]
  /\ owner \in 0 .. Len(Sizes) /\ orphans \subseteq Packages /\ removed \subseteq Packages
  /\ freed \in BOOLEAN /\ alive \in BOOLEAN /\ isNoNet \in BOOLEAN /\ isCancel \in BOOLEAN
  /\ taskStatus \in {"NONE", "CHECK_VERSION_SUCCESS", "DOWNLOADING", "DOWNLOAD_SUCCESS", "DOWNLOAD_FAIL",
                   "DOWNLOAD_CANCEL"}
  /\ \A i \in Packages : shown[i].percent \in 0 .. DOWNLOAD_FINISH_PERCENT

(***************************************************************************)
(* The percent the client is shown of a package's transfer only grows,     *)
(* though the length of the file it is computed from is read anew for each *)
(* callback, lags behind by what is still buffered, and is nothing again   *)
(* when the files are deleted under the transfer.                          *)
(***************************************************************************)
PercentGrows ==
  [][ \A i \in Packages :
        /\ shown'[i] # shown[i]
        /\ shown[i].status = "DOWNLOADING" /\ shown'[i].status = "DOWNLOADING"
        => shown[i].percent < shown'[i].percent ]_downloadVars

(***************************************************************************)
(* The threads follow each other: an end that a package's own thread       *)
(* reports leaves no other thread that still reports.  Status and reports  *)
(* change after an end only where the loop ended the download itself, over *)
(* a whole package, with a thread still at work, or where it went on with  *)
(* the next package in the deleted executor.                               *)
(***************************************************************************)
EndIsFinal == [][freed /\ orphans' = {} => UNCHANGED <<taskStatus, shown>>]_downloadVars

(***************************************************************************)
(* A download that was started is reported at its end, or the process ends *)
(* with it: the thread is never left asleep by a wake-up that came before  *)
(* it waited.                                                              *)
(***************************************************************************)
DownloadEnds == <>(freed \/ ~alive)
=============================================================================
