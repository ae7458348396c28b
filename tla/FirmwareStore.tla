---------------------------- MODULE FirmwareStore ----------------------------
(****************************************************************************)
(* What the store of the firmware information promises: the task table, the *)
(* component table and the package directory change one after the other,    *)
(* without a transaction, and the process may die in between; a table holds *)
(* one version or none.                                                     *)
(*                                                                          *)
(* FirmwareTables, which has the rows and the operations, implements this   *)
(* as long as one handler writes at a time and no operation fails.          *)
(****************************************************************************)
EXTENDS Naturals

CONSTANTS
    Versions,    \* versions the server can offer
    NoVersion    \* none

VARIABLES
    taskRow,     \* the task table has a row
    comp,        \* version in the component table, or NoVersion
    pkg,         \* version whose package is in the directory, or NoVersion
    op,          \* the operation the handler does next, or "idle"
    handler,     \* what the handler was called for
    ver          \* the version in the server's answer, or NoVersion

storeVars == <<taskRow, comp, pkg, op, handler, ver>>

Ops == {"idle", "compare", "deleteTask", "deleteComponents", "deleteFiles",
        "insertComponents", "insertTask", "answer"}

StoreTypeOK ==
    /\ taskRow \in BOOLEAN
    /\ comp \in Versions \cup {NoVersion}
    /\ pkg \in Versions \cup {NoVersion}
    /\ op \in Ops
    /\ handler \in {"none", "check", "clear"}
    /\ ver \in Versions \cup {NoVersion}

StoreInit ==
    /\ taskRow = FALSE /\ comp = NoVersion /\ pkg = NoVersion
    /\ op = "idle" /\ handler = "none" /\ ver = NoVersion

\* The handler goes from one operation to the next.
Then(now, next) == op = now /\ op' = next

(****************************************************************************)
(* The server's answer: a version, or no new version.                       *)
(****************************************************************************)

\* HandleCheckResult.  With a task under way it goes straight to its own answer.
HandleCheckResult(v) ==
    /\ op = "idle"
    /\ \/ op' = IF v = NoVersion THEN "deleteTask" ELSE "compare"
       \/ taskRow /\ op' = "answer"
    /\ handler' = "check" /\ ver' = v
    /\ UNCHANGED <<taskRow, comp, pkg>>

\* HandleNewVersion asks the component table alone whether the version is known.  One
\* of several packages never is, and is stored anew.
IsVersionSameWithDb ==
    /\ op = "compare"
    /\ op' \in {"deleteTask"} \cup (IF comp = ver THEN {"answer"} ELSE {})
    /\ UNCHANGED <<taskRow, comp, pkg, handler, ver>>

\* ClearFirmwareInfo for any other reason: a failed download or install, a judged
\* update, ClearError, an environment reset.
BeginClear ==
    /\ op = "idle"
    /\ op' = "deleteTask"
    /\ handler' = "clear" /\ ver' = NoVersion
    /\ UNCHANGED <<taskRow, comp, pkg>>

\* ClearFirmwareInfo: three operations.
DeleteTask ==
    /\ Then("deleteTask", "deleteComponents")
    /\ taskRow' = FALSE
    /\ UNCHANGED <<comp, pkg, handler, ver>>

DeleteComponents ==
    /\ Then("deleteComponents", "deleteFiles")
    /\ comp' = NoVersion
    /\ UNCHANGED <<taskRow, pkg, handler, ver>>

\* What comes after the clearing: the insertion of a new version, the answer to
\* the client, or nothing.
AfterClear ==
    CASE handler = "clear"  -> "idle"
      [] ver # NoVersion    -> "insertComponents"
      [] OTHER              -> "answer"

DeleteFiles ==
    /\ op = "deleteFiles"
    /\ op' = AfterClear
    /\ handler' = IF AfterClear = "idle" THEN "none" ELSE handler
    /\ pkg' = NoVersion
    /\ UNCHANGED <<taskRow, comp, ver>>

InsertComponents ==
    /\ Then("insertComponents", "insertTask")
    /\ comp' = ver
    /\ UNCHANGED <<taskRow, pkg, handler, ver>>

InsertTask ==
    /\ Then("insertTask", "answer")
    /\ taskRow' = TRUE
    /\ UNCHANGED <<comp, pkg, handler, ver>>

\* BuildCheckResult reads the component table and tells the client.
BuildCheckResult ==
    /\ Then("answer", "idle")
    /\ handler' = "none" /\ ver' = NoVersion
    /\ UNCHANGED <<taskRow, comp, pkg>>

(****************************************************************************)
(* The other writer of the directory, and the end of the process.           *)
(****************************************************************************)

\* A download for the task in the table has put its package in the directory.
PackageArrives ==
    /\ taskRow
    /\ pkg' = comp
    /\ UNCHANGED <<taskRow, comp, op, handler, ver>>

\* The process dies between two operations.
Crash ==
    /\ op # "idle"
    /\ op' = "idle" /\ handler' = "none" /\ ver' = NoVersion
    /\ UNCHANGED <<taskRow, comp, pkg>>

StoreNext ==
    \/ \E v \in Versions \cup {NoVersion} : HandleCheckResult(v)
    \/ IsVersionSameWithDb
    \/ BeginClear
    \/ DeleteTask \/ DeleteComponents \/ DeleteFiles
    \/ InsertComponents \/ InsertTask
    \/ BuildCheckResult
    \/ PackageArrives
    \/ Crash

StoreSpec == StoreInit /\ [][StoreNext]_storeVars

(****************************************************************************)
(* Properties.                                                              *)
(****************************************************************************)

\* Wherever the process dies, a task in the task table has its components in the
\* component table, so that a download or an install finds them
\* (HandleNewVersion, ClearFirmwareInfo).
TaskHasComponents == taskRow => comp # NoVersion

\* A package in the directory next to a task is a package of that task's version:
\* what a crash left of an earlier version is gone before the next task exists
\* (HandleNewVersion, DeleteDownloadFiles).
PackageBelongsToTask == taskRow /\ pkg # NoVersion => pkg = comp

\* The two hold because no operation of a clearing or an insertion sees a task,
\* and the directory is empty by the time a version is inserted.  This is the
\* invariant by which they are proved (ClearFirmwareInfo, HandleNewVersion).
BetweenOperations ==
    /\ op \in {"deleteComponents", "deleteFiles", "insertComponents",
              "insertTask"} => ~taskRow
    /\ op \in {"insertComponents", "insertTask"} =>
           pkg = NoVersion /\ ver # NoVersion
    /\ op = "insertTask" => comp = ver
=============================================================================
