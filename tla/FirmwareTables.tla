--------------------------- MODULE FirmwareTables ---------------------------
(***************************************************************************)
(* The two tables of the firmware database, row by row, under several      *)
(* handlers at once and with operations that fail: every operator ignores  *)
(* what the database answered, and no handler holds a lock or a            *)
(* transaction across two operations.                                      *)
(*                                                                         *)
(* sqlite_db.cpp, table_base_operator.h, itable.h   the operations         *)
(* firmware_task_table.cpp, firmware_component_table.cpp   the rows        *)
(* firmware_task_operator.cpp, firmware_component_operator.cpp  the keys   *)
(* firmware_check_data_processor.cpp, firmware_update_helper.cpp           *)
(*                                                          the handlers   *)
(*                                                                         *)
(* One handler at a time, and no failure, implement FirmwareStore.  A      *)
(* package is a component's size and verifyInfo.  Its versionId is never   *)
(* set, so a query by versionId finds every row, and all tasks have the    *)
(* same taskId.  Downloads are those of the version in the table; threads  *)
(* left from an earlier version are FirmwareUpgrade's subject.             *)
(***************************************************************************)
EXTENDS Naturals, Sequences, FiniteSets

CONSTANTS
  Handlers,   \* threads that replace or clear the tables
  Offers,     \* versions the server can offer
  NoVersion,  \* no new version
  Parts,      \* how many packages each version has
  Mirrors,    \* the url of a package may change from check to check
  MaxFaults   \* bound on failing operations

ASSUME TablesAssumption ==
  /\ NoVersion \notin Offers /\ Parts \in [Offers -> Nat \ {0}]
  /\ Mirrors # {} /\ MaxFaults \in Nat

VARIABLES
  tasks,   \* the task table
  comps,   \* the component table
  files,   \* the packages in the directory
  h,       \* the handlers
  faults,  \* operations that have failed
  alone    \* never were two handlers at work at once

tables == <<tasks, comps, files>>
tableVars == <<tasks, comps, files, h, faults, alone>>

-----------------------------------------------------------------------------
(***************************************************************************)
(* Values and rows.                                                        *)
(***************************************************************************)
\* What versionId and taskId hold everywhere.
Empty == "empty text"

UpgradeStatus == [INIT |-> 0, CHECK_VERSION_SUCCESS |-> 12, DOWNLOADING |-> 20,
                  DOWNLOAD_FAIL |-> 23, DOWNLOAD_SUCCESS |-> 24]

\* FirmwareComponent as AnalyzeComponents makes it.
Component(v, i, m) == [versionId |-> Empty, package |-> <<v, i>>, url |-> <<i, m>>, status |-> "INIT"]
Server(v, m) == [i \in 1 .. Parts[v] |-> Component(v, i, m)]

\* The status is an integer in the table.
BuildDbValue(value) == [value EXCEPT !.status = UpgradeStatus[@]]
ParseDbValue(row) ==
  [row EXCEPT !.status = CHOOSE s \in DOMAIN UpgradeStatus : UpgradeStatus[s] = row.status]

\* FirmwareTask, in the same way.
BuildTask(status) == BuildDbValue([taskId |-> Empty, status |-> status])
ParseTask(row) == ParseDbValue(row)

BuildDbValues(values) == [i \in DOMAIN values |-> BuildDbValue(values[i])]
ParseDbValues(rows) == [i \in DOMAIN rows |-> ParseDbValue(rows[i])]

\* The predicates of a query: columns and the values they must have.
Matches(row, predicates) == \A column \in DOMAIN predicates : row[column] = predicates[column]

\* The rows the predicates find, in their order, and what a query makes of them.
Found(rows, predicates) == {i \in DOMAIN rows : Matches(rows[i], predicates)}
NthFound(found, n) == CHOOSE i \in found : Cardinality({j \in found : j <= i}) = n
Query(rows, predicates) ==
  LET found == Found(rows, predicates) IN
  ParseDbValues([n \in 1 .. Cardinality(found) |-> rows[NthFound(found, n)]])
QueryAll(rows) == Query(rows, <<>>)

Update(rows, predicates, column, value) ==
  [i \in DOMAIN rows |-> IF Matches(rows[i], predicates)
                         THEN [rows[i] EXCEPT ![column] = value] ELSE rows[i]]

\* The task is the first row; without one isExistTask is FALSE.
QueryTask(rows) == IF rows = <<>> THEN "none" ELSE ParseTask(rows[1]).status

\* By taskId, which all tasks share.
UpdateByTaskId(status) == Update(tasks, [taskId |-> Empty], "status", UpgradeStatus[status])

UpdateProgressByUrl(url, status) ==
  Update(comps, [url |-> url], "status", UpgradeStatus[status])

\* By versionId, which all components share: every row gets the url.
UpdateUrlByVersionId(url) == Update(comps, [versionId |-> Empty], "url", url)

QueryByVersionId(rows) == Query(rows, [versionId |-> Empty])

-----------------------------------------------------------------------------
(***************************************************************************)
(* Handlers.  A handler is undisturbed as long as nobody else writes and   *)
(* none of its operations fails.                                           *)
(***************************************************************************)
Idle == [pc |-> "idle", what |-> "none", ver |-> NoVersion, mirror |-> CHOOSE m \in Mirrors : TRUE,
         undisturbed |-> TRUE]

TablesInit ==
  /\ tasks = <<>> /\ comps = <<>> /\ files = {}
  /\ h = [g \in Handlers |-> Idle]
  /\ faults = 0 /\ alone = TRUE

HandlerAt(g, pc) == h[g].pc = pc

Moves(g, next) ==
  /\ h' = [k \in Handlers |-> IF k = g THEN next ELSE [h[k] EXCEPT !.undisturbed = FALSE]]
  /\ alone' = (alone /\ \A k \in Handlers \ {g} : HandlerAt(k, "idle"))
Going(g, pc) == [h[g] EXCEPT !.pc = pc]

\* The operation fails: it is logged, and the handler goes on.
OperationFails(g, next) ==
  /\ faults < MaxFaults
  /\ faults' = faults + 1
  /\ Moves(g, [next EXCEPT !.undisturbed = FALSE])
  /\ UNCHANGED tables

\* A query that fails has found nothing.
Read(rows) == {rows} \union (IF faults < MaxFaults THEN {<<>>} ELSE {})
CountFault(rows, found) == faults' = IF found = rows THEN faults ELSE faults + 1

HasUndoneTask(rows) == QueryTask(rows) = "DOWNLOADING"

\* HandleCheckResult, with what the server has answered.
HandleCheckResult(g, v, m) ==
  /\ HandlerAt(g, "idle")
  /\ \E found \in Read(tasks) :
       /\ CountFault(tasks, found)
       /\ LET start == [Idle EXCEPT !.ver = v, !.mirror = m, !.undisturbed = found = tasks] IN
          Moves(g, IF HasUndoneTask(found) THEN [start EXCEPT !.pc = "answer", !.what = "undone"]
                   ELSE [start EXCEPT !.pc = IF v = NoVersion THEN "deleteTask" ELSE "compare",
                                      !.what = "check"])
  /\ UNCHANGED tables

\* ClearFirmwareInfo on behalf of anything but a check.
ClearFirmwareInfo(g) ==
  /\ HandlerAt(g, "idle")
  /\ Moves(g, [Idle EXCEPT !.pc = "deleteTask", !.what = "clear"])
  /\ UNCHANGED <<tables, faults>>

\* Fault: the number of components is not looked at.
SameWithAnyNumber(rows, server) ==
  /\ rows # <<>>
  /\ \A i \in DOMAIN server : QueryByVersionId(rows)[1].package = server[i].package

\* Fault: each package is compared with its own row.
SameWithEach(rows, server) ==
  /\ Len(QueryAll(rows)) = Len(server)
  /\ \A i \in DOMAIN server : QueryByVersionId(rows)[i].package = server[i].package

\* As many components, each of them like the first the query finds.
SameWithDb(rows, server) ==
  /\ Len(QueryAll(rows)) = Len(server)
  /\ \A i \in DOMAIN server : QueryByVersionId(rows)[1].package = server[i].package

IsVersionSameWithDb(g) ==
  /\ HandlerAt(g, "compare")
  /\ \E found \in Read(comps) :
       /\ CountFault(comps, found)
       /\ LET next == IF SameWithDb(found, Server(h[g].ver, h[g].mirror)) THEN "updateUrl" ELSE "deleteTask" IN
          Moves(g, [h[g] EXCEPT !.pc = next, !.undisturbed = @ /\ found = comps])
  /\ UNCHANGED tables

\* The url of the last package is written last, to every row.
UpdateFirmwareComponent(g) ==
  /\ HandlerAt(g, "updateUrl")
  /\ \/ /\ comps' = IF QueryTask(tasks) = "CHECK_VERSION_SUCCESS"
                    THEN UpdateUrlByVersionId(<<Parts[h[g].ver], h[g].mirror>>) ELSE comps
        /\ Moves(g, [Going(g, "answer") EXCEPT !.what = "same"])
        /\ UNCHANGED <<tasks, files, faults>>
     \/ OperationFails(g, Going(g, "answer"))

DeleteTask(g) ==
  /\ HandlerAt(g, "deleteTask")
  /\ \/ tasks' = <<>> /\ Moves(g, Going(g, "deleteComponents")) /\ UNCHANGED <<comps, files, faults>>
     \/ OperationFails(g, Going(g, "deleteComponents"))

AfterClear(g) ==
  IF h[g].what = "clear" THEN Idle
  ELSE Going(g, IF h[g].ver = NoVersion THEN "answer" ELSE "insertComponents")

DeleteComponents(g) ==
  /\ HandlerAt(g, "deleteComponents")
  /\ \/ comps' = <<>> /\ Moves(g, Going(g, "deleteFiles")) /\ UNCHANGED <<tasks, files, faults>>
     \/ OperationFails(g, Going(g, "deleteFiles"))

\* Fault: the package directory is not emptied.
DeleteFilesNot(g) ==
  /\ HandlerAt(g, "deleteFiles")
  /\ Moves(g, AfterClear(g))
  /\ UNCHANGED <<tables, faults>>

DeleteFiles(g) ==
  /\ HandlerAt(g, "deleteFiles")
  /\ \/ files' = {} /\ Moves(g, AfterClear(g)) /\ UNCHANGED <<tasks, comps, faults>>
     \/ OperationFails(g, AfterClear(g))

\* HandleNewVersion: all components in one batch, then the task.
InsertComponents(g) ==
  /\ HandlerAt(g, "insertComponents")
  /\ \/ /\ comps' = comps \o BuildDbValues(Server(h[g].ver, h[g].mirror))
        /\ Moves(g, Going(g, "insertTask"))
        /\ UNCHANGED <<tasks, files, faults>>
     \/ OperationFails(g, Going(g, "insertTask"))

InsertTask(g) ==
  /\ HandlerAt(g, "insertTask")
  /\ \/ /\ tasks' = Append(tasks, BuildTask("CHECK_VERSION_SUCCESS"))
        /\ Moves(g, Going(g, "answer"))
        /\ UNCHANGED <<comps, files, faults>>
     \/ OperationFails(g, Going(g, "answer"))

\* BuildCheckResult: the client gets what the component table holds.
BuildCheckResult(g) ==
  /\ HandlerAt(g, "answer")
  /\ Moves(g, Idle)
  /\ UNCHANGED <<tables, faults>>

\* A download reports on one package: its row by url, the task's by taskId.
DownloadCallback(url, status) ==
  /\ QueryTask(tasks) = IF status = "DOWNLOADING" THEN "CHECK_VERSION_SUCCESS" ELSE "DOWNLOADING"
  /\ comps' = UpdateProgressByUrl(url, status)
  /\ tasks' = UpdateByTaskId(status)
  /\ files' = IF status # "DOWNLOAD_SUCCESS" THEN files
              ELSE files \union {comps[i].package : i \in Found(comps, [url |-> url])}
  /\ h' = [g \in Handlers |-> [h[g] EXCEPT !.undisturbed = FALSE]]
  /\ UNCHANGED <<faults, alone>>

\* The process dies between two operations.
Crash ==
  /\ \E g \in Handlers : ~HandlerAt(g, "idle")
  /\ h' = [g \in Handlers |-> Idle]
  /\ UNCHANGED <<tables, faults, alone>>

TablesNext ==
  \/ \E g \in Handlers :
       \/ \E v \in Offers \union {NoVersion}, m \in Mirrors : HandleCheckResult(g, v, m)
       \/ ClearFirmwareInfo(g) \/ IsVersionSameWithDb(g) \/ UpdateFirmwareComponent(g)
       \/ DeleteTask(g) \/ DeleteComponents(g) \/ DeleteFiles(g)
       \/ InsertComponents(g) \/ InsertTask(g) \/ BuildCheckResult(g)
  \/ \E i \in DOMAIN comps, s \in {"DOWNLOADING", "DOWNLOAD_FAIL", "DOWNLOAD_SUCCESS"} :
       DownloadCallback(comps[i].url, s)
  \/ Crash

TablesSpec == TablesInit /\ [][TablesNext]_tableVars

-----------------------------------------------------------------------------
StatusCodes == {UpgradeStatus[s] : s \in DOMAIN UpgradeStatus}
Numbers == UNION {1 .. Parts[v] : v \in Offers}
OfferedPackages == {p \in Offers \X Numbers : p[2] <= Parts[p[1]]}

\* Type correctness.
TablesTypeOK ==
  /\ \A i \in DOMAIN tasks : tasks[i].taskId = Empty /\ tasks[i].status \in StatusCodes
  /\ \A i \in DOMAIN comps :
       /\ comps[i].versionId = Empty /\ comps[i].package \in OfferedPackages
       /\ comps[i].url \in Numbers \X Mirrors /\ comps[i].status \in StatusCodes
  /\ \A g \in Handlers :
       /\ h[g].pc \in {"idle", "compare", "updateUrl", "deleteTask", "deleteComponents",
                       "deleteFiles", "insertComponents", "insertTask", "answer"}
       /\ h[g].what \in {"none", "check", "undone", "same", "clear"}
       /\ h[g].ver \in Offers \union {NoVersion} /\ h[g].mirror \in Mirrors
       /\ h[g].undisturbed \in BOOLEAN
  /\ files \subseteq OfferedPackages
  /\ faults \in 0 .. MaxFaults /\ alone \in BOOLEAN

PackagesIn(components) == [i \in DOMAIN components |-> components[i].package]
PackagesOf(v) == IF v = NoVersion THEN <<>> ELSE PackagesIn(Server(v, Idle.mirror))

(***************************************************************************)
(* Whatever failed operations and other handlers have left in the tables,  *)
(* one undisturbed check puts right: it leaves exactly the packages of     *)
(* the server's version, and unless they were there already, one task      *)
(* (HandleCheckResult, HandleNewVersion, HandleNoNewVersion).              *)
(***************************************************************************)
CheckRepairs ==
  \A g \in Handlers :
    HandlerAt(g, "answer") /\ h[g].undisturbed /\ h[g].what # "undone" =>
      /\ PackagesIn(comps) = PackagesOf(h[g].ver)
      /\ h[g].what = "check" => Len(tasks) = IF h[g].ver = NoVersion THEN 0 ELSE 1

(***************************************************************************)
(* As long as handlers take turns, whatever fails, a url in the table is   *)
(* one of its row's package: UpdateUrlByVersionId writes the last          *)
(* package's url to every row, and DownloadCallback finds the row of a     *)
(* package by its url.  It is only that IsVersionSameWithDb recognises no  *)
(* version of several packages that keeps the packages apart.              *)
(***************************************************************************)
UrlsFitPackages == alone => \A i \in DOMAIN comps : comps[i].url[1] = comps[i].package[2]

-----------------------------------------------------------------------------
\* The store as FirmwareStore sees it: the handler at work, and the version in each table.  Writing the url shows nothing there.
Working == {g \in Handlers : ~HandlerAt(g, "idle")}
Worker == CHOOSE g \in Working : TRUE

OpOf(g) == IF HandlerAt(g, "updateUrl") THEN "answer" ELSE h[g].pc
HandlerOf(g) == IF h[g].what = "clear" THEN "clear" ELSE "check"
VersionIn(packages) == IF packages = {} THEN NoVersion ELSE (CHOOSE p \in packages : TRUE)[1]

StoreComp == VersionIn({comps[i].package : i \in DOMAIN comps})
StorePkg == VersionIn(files)
StoreOp == IF Working = {} THEN "idle" ELSE OpOf(Worker)
StoreHandler == IF Working = {} THEN "none" ELSE HandlerOf(Worker)
StoreVer == IF Working = {} THEN NoVersion ELSE h[Worker].ver

Store == INSTANCE FirmwareStore WITH
  Versions <- Offers, taskRow <- tasks # <<>>, comp <- StoreComp, pkg <- StorePkg,
  op <- StoreOp, handler <- StoreHandler, ver <- StoreVer

(***************************************************************************)
(* As long as handlers take turns and no operation fails, whatever         *)
(* downloads report and wherever the process dies, the tables and the      *)
(* directory behave as FirmwareStore does, where a task has its components *)
(* and a package belongs to the task (HandleNewVersion, ClearFirmwareInfo, *)
(* IsVersionSameWithDb, DownloadCallback).                                 *)
(***************************************************************************)
ImplementsStore ==
  /\ Store!StoreInit
  /\ [][alone' /\ faults' = 0 => [Store!StoreNext]_(Store!storeVars)]_tableVars
=============================================================================
