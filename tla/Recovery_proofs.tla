--------------------------- MODULE Recovery_proofs ---------------------------
(***************************************************************************)
(* Proofs about what the service finds after a crash or a reboot: what the *)
(* tables hold wherever the process dies (FirmwareStore, for every set of  *)
(* versions), and the verdict on an upgrade at the next boot               *)
(* (UpdaterResult, for any packages, any number of upgrades, and power     *)
(* that is lost anywhere unless a theorem says otherwise).                 *)
(***************************************************************************)
EXTENDS UpdaterResult, FirmwareStore, FiniteSetTheorems, TLAPS

-----------------------------------------------------------------------------
(* The tables and the package directory: FirmwareStore. *)

\* The tables agree, and what they lack the handler under way is about to do.
StoreInv ==
    StoreTypeOK /\ TaskHasComponents /\ PackageBelongsToTask /\ BetweenOperations

\* The invariant holds of the empty store (StoreInit).
LEMMA StoreInvInit == StoreInit => StoreInv
BY DEF StoreInit, StoreInv, StoreTypeOK, Ops, TaskHasComponents,
       PackageBelongsToTask, BetweenOperations

\* Every database or file operation, and a crash before any of them, preserves
\* the invariant (HandleNewVersion, ClearFirmwareInfo).
LEMMA StoreInvStep == StoreInv /\ [StoreNext]_storeVars => StoreInv'
<1> SUFFICES ASSUME StoreInv, [StoreNext]_storeVars PROVE StoreInv'
  OBVIOUS
<1> USE DEF StoreInv, StoreTypeOK, Ops, TaskHasComponents,
            PackageBelongsToTask, BetweenOperations
<1>1. ASSUME NEW v \in Versions \cup {NoVersion}, HandleCheckResult(v)
      PROVE  StoreInv'
  BY <1>1 DEF HandleCheckResult
<1>2. CASE IsVersionSameWithDb \/ BeginClear
  BY <1>2 DEF IsVersionSameWithDb, BeginClear
<1>3. CASE DeleteTask \/ DeleteComponents
  <2>1. CASE DeleteTask
    BY <2>1 DEF DeleteTask, Then
  <2>2. CASE DeleteComponents
    BY <2>2 DEF DeleteComponents, Then
  <2> QED BY <1>3, <2>1, <2>2
<1>4. CASE DeleteFiles
  <2>1. /\ AfterClear \in {"idle", "insertComponents", "answer"}
        /\ AfterClear = "insertComponents" => ver # NoVersion
    BY DEF AfterClear
  <2> QED BY <1>4, <2>1 DEF DeleteFiles
<1>5. CASE InsertComponents
  BY <1>5 DEF InsertComponents, Then
<1>6. CASE InsertTask
  BY <1>6 DEF InsertTask, Then
<1>7. CASE BuildCheckResult \/ PackageArrives \/ Crash
  BY <1>7 DEF BuildCheckResult, PackageArrives, Crash, Then
<1>8. CASE UNCHANGED storeVars
  BY <1>8 DEF storeVars
<1> QED
  BY <1>1, <1>2, <1>3, <1>4, <1>5, <1>6, <1>7, <1>8 DEF StoreNext

\* Wherever the process dies, a task in the task table has its components
\* (HandleNewVersion, ClearFirmwareInfo).
THEOREM TaskAlwaysHasComponents == StoreSpec => []TaskHasComponents
<1>1. StoreInv => TaskHasComponents
  BY DEF StoreInv
<1> QED BY StoreInvInit, StoreInvStep, <1>1, PTL DEF StoreSpec

\* Wherever the process dies, a package next to a task is of the task's version
\* (HandleNewVersion, DeleteDownloadFiles).
THEOREM PackageAlwaysBelongs == StoreSpec => []PackageBelongsToTask
<1>1. StoreInv => PackageBelongsToTask
  BY DEF StoreInv
<1> QED BY StoreInvInit, StoreInvStep, <1>1, PTL DEF StoreSpec

-----------------------------------------------------------------------------
(* The packages in the order the updater gets them: UpdaterResult. *)

\* A finite set of numbers has an enumeration in their order (the sort in DoUpdaterInstall).
LEMMA SortedExists ==
  ASSUME NEW S \in SUBSET Nat, IsFiniteSet(S)
  PROVE  /\ Cardinality(S) \in Nat
         /\ \E s \in [1 .. Cardinality(S) -> S] :
              /\ \A i, j \in 1 .. Cardinality(S) : i < j => s[i] < s[j]
              /\ \A x \in S : \E i \in 1 .. Cardinality(S) : s[i] = x
<1> DEFINE n == Cardinality(S)
           Below(x) == {y \in S : y < x}
           rank == [x \in S |-> Cardinality(Below(x)) + 1]
<1>1. n \in Nat
  BY FS_CardinalityType
<1>2. ASSUME NEW x \in S
      PROVE  /\ IsFiniteSet(Below(x)) /\ Cardinality(Below(x)) \in Nat
             /\ Cardinality(Below(x)) < n
  <2>1. Below(x) \in SUBSET S /\ Below(x) # S
    <3>1. ~(x < x)
      OBVIOUS
    <3> QED BY <3>1
  <2> HIDE DEF Below
  <2>2. IsFiniteSet(Below(x)) /\ Cardinality(Below(x)) <= n /\ n # Cardinality(Below(x))
    BY <2>1, FS_Subset
  <2>3. Cardinality(Below(x)) \in Nat
    BY <2>2, FS_CardinalityType
  <2> QED BY <1>1, <2>2, <2>3
<1>3. ASSUME NEW x \in S, NEW y \in S, x < y
      PROVE  Cardinality(Below(x)) < Cardinality(Below(y))
  <2>1. Below(x) \in SUBSET Below(y)
    <3>1. \A z \in S : z < x => z < y
      BY <1>3
    <3> QED BY <3>1
  <2>2. x \in Below(y) /\ x \notin Below(x)
    BY <1>3
  <2>3. IsFiniteSet(Below(y)) /\ Cardinality(Below(y)) \in Nat /\ Cardinality(Below(x)) \in Nat
    BY <1>2
  <2> HIDE DEF Below
  <2>4. Cardinality(Below(x)) <= Cardinality(Below(y)) /\ Cardinality(Below(y)) # Cardinality(Below(x))
    BY <2>1, <2>2, <2>3, FS_Subset
  <2> QED BY <2>3, <2>4
<1> HIDE DEF Below
<1>4. \A x \in S : rank[x] \in 1 .. n
  BY <1>1, <1>2
<1>5. \A x, y \in S : x < y => rank[x] < rank[y]
  BY <1>2, <1>3
<1> HIDE DEF rank
<1>6. rank \in [S -> 1 .. n]
  BY <1>4 DEF rank
<1>7. \A x, y \in S : rank[x] = rank[y] => x = y
  <2> SUFFICES ASSUME NEW x \in S, NEW y \in S, rank[x] = rank[y] PROVE x = y
    OBVIOUS
  <2>1. x \in Nat /\ y \in Nat /\ rank[x] \in Nat
    BY <1>4
  <2> QED BY <1>5, <2>1
<1>8. rank \in Surjection(S, 1 .. n)
  <2>1. rank \in Injection(S, 1 .. n)
    BY <1>6, <1>7 DEF Injection, IsInjective
  <2>2. IsFiniteSet(1 .. n) /\ Cardinality(1 .. n) = n
    BY <1>1, FS_Interval
  <2> HIDE DEF n
  <2> QED BY <2>1, <2>2, FS_Injection DEF n
<1>9. \A i \in 1 .. n : \E x \in S : rank[x] = i
  BY <1>8 DEF Surjection
<1> DEFINE s == [i \in 1 .. n |-> CHOOSE x \in S : rank[x] = i]
<1>10. \A i \in 1 .. n : s[i] \in S /\ rank[s[i]] = i
  BY <1>9
<1>11. s \in [1 .. n -> S]
  BY <1>10
<1> HIDE DEF s
<1>12. ASSUME NEW i \in 1 .. n, NEW j \in 1 .. n, i < j PROVE s[i] < s[j]
  <2>1. s[i] \in Nat /\ s[j] \in Nat
    BY <1>10
  <2>2. ~(s[j] < s[i])
    <3>1. s[j] < s[i] => j < i
      BY <1>5, <1>10
    <3>2. ~(j < i)
      BY <1>1, <1>12
    <3> QED BY <3>1, <3>2
  <2>3. s[j] # s[i]
    BY <1>10, <1>12, <1>1
  <2> QED BY <2>1, <2>2, <2>3
<1>13. \A x \in S : \E i \in 1 .. n : s[i] = x
  BY <1>4, <1>7, <1>10
<1> QED BY <1>1, <1>11, <1>12, <1>13

\* The packages in their order are each of them, and each once (DoUpdaterInstall).
LEMMA FilesInOrder ==
  ASSUME comps \in SUBSET Nat, IsFiniteSet(comps)
  PROVE  /\ Cardinality(comps) \in Nat
         /\ InstallFiles \in [1 .. Cardinality(comps) -> comps]
         /\ Len(InstallFiles) = Cardinality(comps)
         /\ \A i, j \in 1 .. Cardinality(comps) : InstallFiles[i] = InstallFiles[j] => i = j
         /\ \A p \in comps : \E i \in 1 .. Cardinality(comps) : InstallFiles[i] = p
<1> DEFINE n == Cardinality(comps)
           f == InstallFiles
<1>1. n \in Nat /\ \E s \in [1 .. n -> comps] : \A i, j \in DOMAIN s : i < j => s[i] < s[j]
  BY SortedExists
<1>2. f \in [1 .. n -> comps] /\ \A i, j \in DOMAIN f : i < j => f[i] < f[j]
  BY <1>1 DEF InstallFiles
<1> HIDE DEF f
<1>3. Len(f) = n
  BY <1>1, <1>2
<1>4. ASSUME NEW i \in 1 .. n, NEW j \in 1 .. n, f[i] = f[j] PROVE i = j
  <2>0. f[i] \in comps
    BY <1>2
  <2>1. f[i] \in Nat
    BY <2>0
  <2>2. ~(i < j) /\ ~(j < i)
    BY <1>2, <1>4, <2>1
  <2> QED BY <1>1, <2>2
<1>5. \A p \in comps : \E i \in 1 .. n : f[i] = p
  <2>1. f \in Injection(1 .. n, comps)
    BY <1>2, <1>4 DEF Injection, IsInjective
  <2>2. Cardinality(1 .. n) = n
    BY <1>1, FS_Interval
  <2>3. f \in Surjection(1 .. n, comps)
    BY <2>1, <2>2, FS_Injection
  <2> QED BY <2>3 DEF Surjection
<1> QED BY <1>1, <1>2, <1>3, <1>4, <1>5 DEF f

-----------------------------------------------------------------------------
\* Where the thread of the service is while it handles the end of an upgrade.
Judging == device = "system" /\ pc \in {"success", "saved", "fail", "notified"}

\* Types, and what does not depend on the verdict.
ResultTypes ==
  /\ ab \in BOOLEAN
  /\ target \in Nat /\ display \in 0 .. target /\ slot \in 0 .. target
  /\ comps \in SUBSET Paths
  /\ task \in {"NONE", "DOWNLOAD_SUCCESS", "UPDATING", "INSTALL_SUCCESS"}
  /\ task # "NONE" => comps # {}
  /\ device \in {"system", "updater", "booting"} /\ pc \in Pcs
  /\ device # "system" => pc = "idle"
  /\ ~ab \/ device # "system" => slot = 0
  /\ device = "updater" \/ pc = "rebooting" => ~ab
  /\ told \in SUBSET {"EVENT_UPGRADE_SUCCESS", "EVENT_UPGRADE_FAIL"}

\* While the end is handled the verdict stands, and as long as the task is there each boot comes
\* to the one the client was told.
VerdictStands ==
  /\ Judging => task = "UPDATING" /\ slot = 0
  /\ pc \in {"success", "saved"} => GetUpdaterResult
  /\ pc = "fail" => ~GetUpdaterResult
  /\ told # {} =>
       /\ slot = 0
       /\ \/ task = "NONE" /\ pc = "idle" /\ device # "updater"
          \/ task = "UPDATING" /\ (device = "booting" \/ Judging)
  /\ task = "UPDATING" /\ "EVENT_UPGRADE_SUCCESS" \in told => GetUpdaterResult
  /\ task = "UPDATING" /\ "EVENT_UPGRADE_FAIL" \in told => ~GetUpdaterResult
  /\ ~("EVENT_UPGRADE_SUCCESS" \in told /\ "EVENT_UPGRADE_FAIL" \in told)

\* The description is saved before the client hears of the success.
Recorded ==
  /\ pc = "saved" => currentId = target
  /\ SuccessIsRecorded

\* The verdict of the tables, the file and the running version is true, or one of the two
\* exceptions holds.
Truthful ==
  Outdated \/ IF Incomparable THEN ~GetUpdaterResult ELSE GetUpdaterResult <=> display = target

\* What the next boot judges by: a file of this upgrade once the updater was entered.
VerdictIsSound ==
  /\ file.of \in 0 .. target /\ code \in {target, NoName}
  /\ ab => file = NoFile
  /\ pc = "sleeping" => task = "UPDATING"
  /\ device = "updater" \/ pc = "rebooting" => task \in {"UPDATING", "INSTALL_SUCCESS"}
  /\ ~ab /\ task = "DOWNLOAD_SUCCESS" => display < target /\ file.of < target
  /\ ~ab /\ task = "UPDATING" =>
       /\ device = "updater" \/ (device = "system" /\ pc \in {"sleeping", "rebooting"})
            => display < target /\ file.of < target
       /\ ~(device = "system" /\ pc = "idle")
       /\ device = "booting" \/ Judging => Truthful
  /\ VerdictIsTrue

-----------------------------------------------------------------------------
\* The verdict is of the tables, the file and the running version, and of nothing else
\* (GetUpdaterResult): a boot that finds them as they were comes to the same one.
LEMMA SameVerdict ==
  ASSUME UNCHANGED <<comps, file, code, display>>
  PROVE  GetUpdaterResult' <=> GetUpdaterResult
BY DEF GetUpdaterResult, HandleFileResults, ResultMap, HandleFileError, CompareVersion,
       ParseUpdaterResultRecord

\* Without a file the running version decides (HandleFileError, CompareVersion).
LEMMA VerdictWithoutFile ==
  ASSUME ~file.open
  PROVE  GetUpdaterResult <=> comps # {} /\ code = display
BY DEF GetUpdaterResult, HandleFileResults, ResultMap, HandleFileError, CompareVersion

\* A file the updater wrote has a line for each package, and they all say pass exactly if it
\* installed every package (ParseUpdaterResultRecord takes the first line of a path).
LEMMA LinesVerdict ==
  ASSUME comps \in SUBSET Nat, IsFiniteSet(comps),
         NEW n \in 0 .. Len(InstallFiles), NEW e \in {"fail", "none"}
  PROVE  /\ DOMAIN ParseUpdaterResultRecord(Lines(n, e)) = comps
         /\ (\A p \in comps : ParseUpdaterResultRecord(Lines(n, e))[p] = "pass")
              <=> n = Len(InstallFiles)
<1> DEFINE R(i) == IF i <= n THEN "pass" ELSE IF i = n + 1 THEN e ELSE "none"
<1>1. PICK k, f, l, S : /\ k = Cardinality(comps) /\ f = InstallFiles
                        /\ l = Lines(n, e) /\ S = comps
  OBVIOUS
<1>2. /\ k \in Nat /\ f \in [1 .. k -> S] /\ Len(f) = k
      /\ \A i, j \in 1 .. k : f[i] = f[j] => i = j
      /\ \A p \in S : \E i \in 1 .. k : f[i] = p
  BY <1>1, FilesInOrder
<1>3. k \in Nat /\ n \in 0 .. k
  BY <1>1, <1>2
<1>4. DOMAIN l = 1 .. k /\ \A i \in 1 .. k : l[i].spath = f[i] /\ l[i].result = R(i)
  BY <1>1, <1>2 DEF Lines
<1>5. (\A i \in 1 .. k : R(i) = "pass") <=> n = k
  <2>1. ASSUME n # k PROVE n + 1 \in 1 .. k /\ R(n + 1) # "pass"
    BY <1>3, <2>1
  <2>2. ASSUME n = k, NEW i \in 1 .. k PROVE R(i) = "pass"
    BY <1>3, <2>2
  <2> HIDE DEF R
  <2> QED BY <2>1, <2>2
<1> DEFINE m == ParseUpdaterResultRecord(l)
<1> HIDE DEF R
<1>6. DOMAIN m = S
  <2>1. DOMAIN m = {l[i].spath : i \in DOMAIN l}
    BY DEF ParseUpdaterResultRecord
  <2> HIDE DEF m
  <2>2. {l[i].spath : i \in DOMAIN l} = {f[i] : i \in 1 .. k}
    BY <1>4
  <2>3. {f[i] : i \in 1 .. k} = S
    BY <1>2
  <2> QED BY <2>1, <2>2, <2>3
<1>7. ASSUME NEW i \in 1 .. k PROVE m[f[i]] = R(i)
  <2> DEFINE T == {j \in DOMAIN l : l[j].spath = f[i]}
  <2>1. T = {i}
    <3>1. T = {j \in 1 .. k : f[j] = f[i]}
      BY <1>4
    <3> HIDE DEF T
    <3> QED BY <1>2, <3>1
  <2>2. Min(T) = i
    <3> HIDE DEF T
    <3>1. Min(T) = CHOOSE x \in {i} : \A y \in {i} : x =< y
      BY <2>1 DEF Min
    <3>2. i =< i
      BY <1>3
    <3> QED BY <3>1, <3>2
  <2>3. f[i] \in {l[j].spath : j \in DOMAIN l}
    BY <1>4
  <2>4. m[f[i]] = l[Min(T)].result
    BY <2>3 DEF ParseUpdaterResultRecord
  <2> QED BY <1>4, <2>2, <2>4
<1> HIDE DEF m
<1>8. (\A p \in S : m[p] = "pass") <=> \A i \in 1 .. k : R(i) = "pass"
  <2>1. ASSUME \A p \in S : m[p] = "pass", NEW i \in 1 .. k PROVE R(i) = "pass"
    BY <1>2, <1>7, <2>1
  <2>2. ASSUME \A i \in 1 .. k : R(i) = "pass", NEW p \in S PROVE m[p] = "pass"
    BY <1>2, <1>7, <2>2
  <2> QED BY <2>1, <2>2
<1>9. DOMAIN m = S /\ ((\A p \in S : m[p] = "pass") <=> n = k)
  BY <1>5, <1>6, <1>8
<1> QED BY <1>1, <1>2, <1>9 DEF m

-----------------------------------------------------------------------------
\* Before the first upgrade the types hold.
LEMMA ResultTypesInit == Init => ResultTypes
BY DEF Init, ResultTypes, Pcs

\* Every step keeps the types (all the actions of UpdaterResult): a second slot only on a device
\* that has two, and none left to start after a boot.
LEMMA ResultTypesStep == ResultTypes /\ [Next]_vars => ResultTypes'
<1> SUFFICES ASSUME ResultTypes, [Next]_vars PROVE ResultTypes'
  OBVIOUS
<1> USE DEF ResultTypes, Pcs
<1>1. ASSUME NEW names \in (SUBSET Paths) \ {{}}, BuildComponentSPath(names) PROVE ResultTypes'
  <2>1. /\ target' = target + 1 /\ comps' = names /\ told' = {}
        /\ UNCHANGED <<ab, display, device, pc>> /\ device = "system"
        /\ ab => task' = "INSTALL_SUCCESS" /\ slot' = target'
        /\ ~ab => task' = "DOWNLOAD_SUCCESS" /\ slot' = slot
    BY <1>1 DEF BuildComponentSPath, InSystem
  <2>2. target' \in Nat /\ display' \in 0 .. target' /\ slot' \in 0 .. target'
    BY <2>1
  <2> QED BY <2>1, <2>2
<1>2. CASE PerformInstall \/ RebootReturns \/ EnterUpdater
  <2>1. CASE PerformInstall
    BY <2>1 DEF PerformInstall, InSystem
  <2>2. CASE RebootReturns
    BY <2>2 DEF RebootReturns, InSystem
  <2>3. CASE EnterUpdater
    <3>1. ~ab
      BY <2>3 DEF EnterUpdater, InSystem
    <3> QED BY <2>3, <3>1 DEF EnterUpdater, InSystem, store
  <2> QED BY <1>2, <2>1, <2>2, <2>3
<1>3. CASE DoUpdaterInstall
  BY <1>3 DEF DoUpdaterInstall, InSystem, ClearFirmwareInfo, store
<1>4. CASE UpdaterRuns
  BY <1>4 DEF UpdaterRuns, store
<1>5. CASE DoReboot \/ Reset
  <2>1. /\ UNCHANGED <<ab, target, code, comps, task, told>> /\ pc' = "idle"
        /\ device = "system"
        /\ \/ device' = "booting" /\ slot' = 0 /\ display' \in {display, slot}
           \/ ab /\ UNCHANGED <<device, display, slot>>
    BY <1>5 DEF DoReboot, Reset, StartSlot, InSystem, store
  <2>2. display' \in 0 .. target' /\ slot' \in 0 .. target'
    BY <2>1
  <2> QED BY <2>1, <2>2
<1>6. CASE HandleBootComplete \/ SaveHotaCurrentVersionComponentId \/ NotifyEvent
  BY <1>6 DEF HandleBootComplete, SaveHotaCurrentVersionComponentId, NotifyEvent, InSystem, store
<1>7. CASE HandleBootUpdateEnd
  BY <1>7 DEF HandleBootUpdateEnd, ClearFirmwareInfo, InSystem
<1>8. CASE UNCHANGED vars
  BY <1>8 DEF vars, store
<1> QED BY <1>1, <1>2, <1>3, <1>4, <1>5, <1>6, <1>7, <1>8 DEF Next

-----------------------------------------------------------------------------
\* Once the client was told, or while the end is handled, nothing the verdict depends on changes
\* until the next offer: no step but HandleBootUpdateEnd touches the tables.
LEMMA VerdictStandsStep == ResultTypes /\ VerdictStands /\ [Next]_vars => VerdictStands'
<1> SUFFICES ASSUME ResultTypes, VerdictStands, [Next]_vars PROVE VerdictStands'
  OBVIOUS
<1> USE DEF VerdictStands, Judging
<1>1. ASSUME NEW names \in (SUBSET Paths) \ {{}}, BuildComponentSPath(names) PROVE VerdictStands'
  BY <1>1 DEF BuildComponentSPath, InSystem
<1>2. CASE PerformInstall \/ RebootReturns \/ EnterUpdater \/ DoUpdaterInstall \/ UpdaterRuns
  <2>1. told = {} /\ told' = {}
    BY <1>2 DEF PerformInstall, RebootReturns, EnterUpdater, DoUpdaterInstall, UpdaterRuns, InSystem
  <2>2. pc' \in {"idle", "sleeping", "rebooting"}
    BY <1>2 DEF PerformInstall, RebootReturns, EnterUpdater, DoUpdaterInstall, UpdaterRuns,
                InSystem, ResultTypes
  <2> QED BY <2>1, <2>2
<1>3. CASE DoReboot \/ Reset
  <2>1. /\ UNCHANGED <<comps, file, target, code, task, told>>
        /\ pc' = "idle" /\ device = "system"
        /\ \/ device' = "booting" /\ slot' = 0 /\ (slot = 0 => display' = display)
           \/ pc = "sleeping"
    BY <1>3 DEF DoReboot, Reset, StartSlot, InSystem, store
  <2>2. CASE told = {}
    BY <2>1, <2>2
  <2>3. CASE told # {}
    <3>1. UNCHANGED <<comps, file, target, code, display>>
      BY <2>1, <2>3
    <3> QED BY <2>1, <2>3, <3>1, SameVerdict
  <2> QED BY <2>2, <2>3
<1>4. CASE HandleBootComplete
  <2>1. UNCHANGED <<comps, file, target, code, display>>
    BY <1>4 DEF HandleBootComplete, store
  <2> QED BY <1>4, <2>1, SameVerdict DEF HandleBootComplete, store, ResultTypes
<1>5. CASE SaveHotaCurrentVersionComponentId
  <2>1. UNCHANGED <<comps, file, target, code, display>>
    BY <1>5 DEF SaveHotaCurrentVersionComponentId, store
  <2> QED BY <1>5, <2>1, SameVerdict DEF SaveHotaCurrentVersionComponentId, InSystem, store
<1>6. CASE NotifyEvent
  <2>1. UNCHANGED <<comps, file, target, code, display>>
    BY <1>6 DEF NotifyEvent, store
  <2> QED BY <1>6, <2>1, SameVerdict DEF NotifyEvent, store
<1>7. CASE HandleBootUpdateEnd
  BY <1>7 DEF HandleBootUpdateEnd, ClearFirmwareInfo, InSystem
<1>8. CASE UNCHANGED vars
  <2>1. UNCHANGED <<comps, file, target, code, display>>
    BY <1>8 DEF vars, store
  <2> QED BY <1>8, <2>1, SameVerdict DEF vars, store
<1> QED BY <1>1, <1>2, <1>3, <1>4, <1>5, <1>6, <1>7, <1>8 DEF Next

\* The description is saved from a component table that is not empty yet, since only a verdict of
\* success leads there (SaveHotaCurrentVersionComponentId).
LEMMA RecordedStep == VerdictStands /\ Recorded /\ [Next]_vars => Recorded'
<1> SUFFICES ASSUME VerdictStands, Recorded, [Next]_vars PROVE Recorded'
  OBVIOUS
<1> USE DEF Recorded, SuccessIsRecorded
<1>1. ASSUME NEW names, BuildComponentSPath(names) PROVE Recorded'
  BY <1>1 DEF BuildComponentSPath, InSystem
<1>2. CASE SaveHotaCurrentVersionComponentId
  <2>1. comps # {}
    BY <1>2 DEF VerdictStands, GetUpdaterResult, SaveHotaCurrentVersionComponentId, InSystem
  <2> QED BY <1>2, <2>1 DEF SaveHotaCurrentVersionComponentId, store
<1>3. CASE NotifyEvent
  BY <1>3 DEF NotifyEvent, store
<1>4. CASE PerformInstall \/ RebootReturns \/ EnterUpdater \/ DoUpdaterInstall \/ UpdaterRuns
  BY <1>4 DEF PerformInstall, RebootReturns, EnterUpdater, DoUpdaterInstall, UpdaterRuns,
              ClearFirmwareInfo, InSystem, store
<1>5. CASE DoReboot \/ Reset
  BY <1>5 DEF DoReboot, Reset, store
<1>6. CASE HandleBootComplete
  BY <1>6 DEF HandleBootComplete, store
<1>7. CASE HandleBootUpdateEnd
  BY <1>7 DEF HandleBootUpdateEnd, ClearFirmwareInfo
<1>8. CASE UNCHANGED vars
  BY <1>8 DEF vars, store
<1> QED BY <1>1, <1>2, <1>3, <1>4, <1>5, <1>6, <1>7, <1>8 DEF Next

\* What holds whatever the version codes look like and wherever power is lost.
ResultInv == ResultTypes /\ VerdictStands /\ Recorded

\* Before the first upgrade nobody was told anything.
LEMMA ResultInvInit == Init => ResultInv
BY ResultTypesInit DEF Init, ResultInv, VerdictStands, Recorded, SuccessIsRecorded, Judging

\* Every step, loss of power included, preserves it.
LEMMA ResultInvStep == ResultInv /\ [Next]_vars => ResultInv'
BY ResultTypesStep, VerdictStandsStep, RecordedStep DEF ResultInv

\* Wherever power is lost, the client that hears of a success finds the description of the
\* version that now runs (HandleBootUpdateSuccess).
THEOREM SuccessAlwaysRecorded == Spec => []SuccessIsRecorded
<1>1. ResultInv => SuccessIsRecorded
  BY DEF ResultInv, Recorded
<1> QED BY ResultInvInit, ResultInvStep, <1>1, PTL DEF Spec

\* Wherever power is lost and whatever the file says, the boots that judge one upgrade come to one
\* verdict (GetUpdaterResult, HandleBootUpdateEnd).
THEOREM VerdictsAlwaysAgree == Spec => []VerdictsAgree
<1>1. ResultInv => VerdictsAgree
  <2> SUFFICES ASSUME ResultInv PROVE Cardinality(told) <= 1
    BY DEF VerdictsAgree
  <2>1. told = {} \/ told = {"EVENT_UPGRADE_SUCCESS"} \/ told = {"EVENT_UPGRADE_FAIL"}
    BY DEF ResultInv, ResultTypes, VerdictStands
  <2>2. Cardinality({}) = 0
    BY FS_EmptySet
  <2>3. \A x : Cardinality({x}) = 1
    BY FS_Singleton
  <2>4. Cardinality(told) = 0 \/ Cardinality(told) = 1
    BY <2>1, <2>2, <2>3
  <2> QED BY <2>4
<1> QED BY ResultInvInit, ResultInvStep, <1>1, PTL DEF Spec

-----------------------------------------------------------------------------
\* The truth of a verdict, too, is of the tables, the file and the running version.
LEMMA SameTruth ==
  ASSUME UNCHANGED <<comps, file, target, code, display>>
  PROVE  Truthful' <=> Truthful
BY SameVerdict DEF Truthful, Outdated, Incomparable

\* Without a file the verdict is the truth if the version code is the version's name, and else
\* never a success.
LEMMA TruthWithoutFile ==
  ASSUME ~file.open, comps # {}, code \in {target, NoName}, display \in 0 .. target,
         target \in 0 .. MaxUpgrades
  PROVE  Truthful
<1>1. GetUpdaterResult <=> code = display
  BY VerdictWithoutFile
<1>2. code # target => code # display
  BY ResultAssumption DEF NoName
<1> QED BY <1>1, <1>2 DEF Truthful, Incomparable

\* What the updater leaves, a file or none, is judged by the truth (UpdaterRuns; HandleFileError,
\* HandleFileResults).
LEMMA UpdaterLeavesTruth ==
  ASSUME ResultTypes, UpdaterRuns, comps # {}, display < target, target \in 0 .. MaxUpgrades,
         code \in {target, NoName}
  PROVE  Truthful'
<1>1. comps \in SUBSET Nat /\ IsFiniteSet(comps)
  BY ResultAssumption, FS_Subset DEF ResultTypes
<1>2. comps' = comps /\ target' = target /\ code' = code
  BY DEF UpdaterRuns, store
<1>3. PICK n \in 0 .. Len(InstallFiles), e \in {"fail", "none"} :
        /\ display' = IF n = Len(InstallFiles) THEN target ELSE display
        /\ file' \in {NoFile, [open |-> TRUE, of |-> target, lines |-> Lines(n, e)]}
  BY DEF UpdaterRuns
<1>4. display # target /\ display' \in 0 .. target
  BY <1>3 DEF ResultTypes
<1>5. display' = target' <=> n = Len(InstallFiles)
  BY <1>2, <1>3, <1>4
<1>6. CASE file' = NoFile
  <2>1. ~file'.open
    BY <1>6 DEF NoFile
  <2>2. GetUpdaterResult' <=> code' = display'
    BY <1>2, <2>1 DEF GetUpdaterResult, HandleFileResults, ResultMap, HandleFileError,
                      CompareVersion
  <2>3. code # target => code # display'
    BY <1>4, ResultAssumption DEF NoName
  <2> QED BY <1>2, <2>1, <2>2, <2>3 DEF Truthful, Incomparable
<1>7. CASE file' = [open |-> TRUE, of |-> target, lines |-> Lines(n, e)]
  <2>0. file'.open /\ file'.of = target /\ file'.lines = Lines(n, e)
    BY <1>7
  <2>1. ResultMap' = ParseUpdaterResultRecord(Lines(n, e))
    BY <2>0 DEF ResultMap, ParseUpdaterResultRecord
  <2>2. DOMAIN ResultMap' = comps /\ ((\A p \in comps : ResultMap'[p] = "pass") <=> n = Len(InstallFiles))
    BY <1>1, <2>1, LinesVerdict
  <2>3. GetUpdaterResult' <=> display' = target'
    BY <1>2, <1>5, <2>2 DEF GetUpdaterResult, HandleFileResults
  <2> QED BY <1>2, <2>0, <2>3 DEF Truthful, Outdated, Incomparable
<1> QED BY <1>3, <1>6, <1>7

\* A device with two slots never has a file, one with an updater has it of this upgrade once the
\* updater ran, and where the updater did not run the version on offer does not run either.
LEMMA VerdictIsSoundStep ==
  ASSUME ResultInv, VerdictIsSound, target \in 0 .. MaxUpgrades, [Next]_vars
  PROVE  VerdictIsSound'
<1> USE DEF VerdictIsSound, Judging
<1>0. ResultTypes /\ VerdictStands
  BY DEF ResultInv
<1>1. ASSUME NEW names \in (SUBSET Paths) \ {{}}, BuildComponentSPath(names) PROVE VerdictIsSound'
  <2>1. /\ target' = target + 1 /\ told' = {} /\ UNCHANGED <<ab, display, file, device, pc>>
        /\ code' \in {target', NoName}
        /\ device = "system" /\ pc = "idle"
        /\ ab => task' = "INSTALL_SUCCESS"
        /\ ~ab => task' = "DOWNLOAD_SUCCESS"
    BY <1>1 DEF BuildComponentSPath, InSystem
  <2>2. display' < target' /\ file'.of < target' /\ file'.of \in 0 .. target' /\ code' \in {target', NoName'}
    BY <1>0, <2>1 DEF ResultTypes, NoName
  <2> QED BY <1>0, <2>1, <2>2 DEF VerdictIsTrue, ResultTypes
<1>2. CASE PerformInstall \/ RebootReturns \/ EnterUpdater \/ DoUpdaterInstall
  <2>1. told = {} /\ told' = {} /\ UNCHANGED <<ab, display, target, code, file>>
    BY <1>0, <1>2 DEF VerdictStands, PerformInstall, RebootReturns, EnterUpdater, DoUpdaterInstall,
                      ClearFirmwareInfo, InSystem, store
  <2>0. file'.of \in 0 .. target' /\ code' \in {target', NoName'}
    BY <2>1 DEF NoName
  <2>2. CASE PerformInstall
    BY <2>0, <2>1, <2>2 DEF PerformInstall, InSystem, VerdictIsTrue
  <2>3. CASE RebootReturns
    BY <2>0, <2>1, <2>3 DEF RebootReturns, InSystem, VerdictIsTrue
  <2>4. CASE EnterUpdater
    BY <2>0, <2>1, <2>4 DEF EnterUpdater, InSystem, VerdictIsTrue, store
  <2>5. CASE DoUpdaterInstall
    BY <2>0, <2>1, <2>5 DEF DoUpdaterInstall, ClearFirmwareInfo, InSystem, VerdictIsTrue, store
  <2> QED BY <1>2, <2>2, <2>3, <2>4, <2>5
<1>3. CASE UpdaterRuns
  <2>1. /\ told = {} /\ told' = {} /\ ~ab /\ UNCHANGED <<ab, target, code, comps, task>>
        /\ device = "updater" /\ device' = "booting" /\ pc' = pc
    BY <1>0, <1>3 DEF VerdictStands, UpdaterRuns, ResultTypes, store
  <2>2. task = "UPDATING" => Truthful'
    <3> SUFFICES ASSUME task = "UPDATING" PROVE Truthful'
      OBVIOUS
    <3>1. comps # {} /\ display < target
      BY <1>0, <2>1 DEF ResultTypes
    <3> QED BY <1>0, <1>3, <3>1, UpdaterLeavesTruth
  <2>3. task # "DOWNLOAD_SUCCESS"
    BY <1>0, <2>1 DEF ResultTypes
  <2>4. file'.of \in 0 .. target' /\ code' \in {target', NoName'}
    <3>1. PICK l : file' \in {NoFile, [open |-> TRUE, of |-> target, lines |-> l]}
      BY <1>3 DEF UpdaterRuns
    <3>2. file'.of = 0 \/ file'.of = target
      BY <3>1 DEF NoFile
    <3> QED BY <1>0, <2>1, <3>2 DEF ResultTypes, NoName
  <2> QED BY <1>0, <2>1, <2>2, <2>3, <2>4 DEF VerdictIsTrue, ResultTypes
<1>4. CASE DoReboot \/ Reset
  <2>1. /\ UNCHANGED <<ab, comps, file, target, code, task, told>> /\ pc' = "idle"
        /\ device = "system"
        /\ \/ device' = "booting" /\ slot' = 0 /\ (slot = 0 => display' = display)
           \/ ab /\ UNCHANGED <<device, display>>
    BY <1>4 DEF DoReboot, Reset, StartSlot, InSystem, store
  <2>0. file'.of \in 0 .. target' /\ code' \in {target', NoName'}
    BY <2>1 DEF NoName
  <2>4. VerdictIsTrue'
    <3>1. CASE told = {}
      BY <2>1, <3>1 DEF VerdictIsTrue
    <3>2. CASE told # {}
      BY <1>0, <2>1, <3>2 DEF VerdictIsTrue, VerdictStands, Outdated, Incomparable
    <3> QED BY <3>1, <3>2
  <2>2. CASE ab
    BY <1>0, <2>0, <2>1, <2>2, <2>4 DEF VerdictStands
  <2>3. CASE ~ab
    <3>1. UNCHANGED <<comps, file, target, code, display>> /\ device' = "booting"
      BY <1>0, <2>1, <2>3 DEF ResultTypes
    <3>2. Truthful' <=> Truthful
      BY <3>1, SameTruth
    <3>3. task = "UPDATING" => pc \in {"sleeping", "rebooting", "success", "saved", "fail", "notified"}
      BY <1>0, <2>1, <2>3 DEF ResultTypes, Pcs
    <3>4. task = "UPDATING" /\ pc \in {"sleeping", "rebooting"} => Truthful
      <4> SUFFICES ASSUME task = "UPDATING", pc \in {"sleeping", "rebooting"} PROVE Truthful
        OBVIOUS
      <4>1. comps # {} /\ display < target /\ display \in 0 .. target
        BY <1>0, <2>1, <2>3 DEF ResultTypes
      <4>2. CASE ~file.open
        BY <4>1, <4>2, TruthWithoutFile
      <4>3. CASE file.open
        BY <2>1, <2>3, <4>1, <4>3 DEF Truthful, Outdated
      <4> QED BY <4>2, <4>3
    <3> QED BY <2>0, <2>1, <2>3, <2>4, <3>1, <3>2, <3>3, <3>4
  <2> QED BY <1>0, <2>2, <2>3 DEF ResultTypes
<1>5. CASE HandleBootComplete \/ SaveHotaCurrentVersionComponentId
  <2>1. UNCHANGED <<ab, comps, file, target, code, display, task, told>>
    BY <1>5 DEF HandleBootComplete, SaveHotaCurrentVersionComponentId, store
  <2>2. Truthful' <=> Truthful
    BY <2>1, SameTruth
  <2>3. file'.of \in 0 .. target' /\ code' \in {target', NoName'}
    BY <2>1 DEF NoName
  <2> QED BY <1>0, <1>5, <2>1, <2>2, <2>3
            DEF HandleBootComplete, SaveHotaCurrentVersionComponentId, InSystem, VerdictIsTrue,
                Outdated, Incomparable, ResultTypes
<1>6. CASE NotifyEvent
  <2>1. /\ UNCHANGED <<ab, comps, file, target, code, display, task, device>>
        /\ device = "system" /\ pc \in {"saved", "fail"} /\ pc' = "notified"
        /\ told' = told \union {IF pc = "saved" THEN "EVENT_UPGRADE_SUCCESS" ELSE "EVENT_UPGRADE_FAIL"}
    BY <1>6 DEF NotifyEvent, store
  <2>2. task = "UPDATING" /\ comps # {}
    BY <1>0, <2>1 DEF VerdictStands, ResultTypes
  <2>3. Truthful
    <3>1. CASE ab
      <4>1. ~file.open
        BY <3>1 DEF NoFile
      <4> QED BY <1>0, <2>2, <4>1, TruthWithoutFile DEF ResultTypes
    <3>2. CASE ~ab
      BY <2>1, <2>2, <3>2
    <3> QED BY <1>0, <3>1, <3>2 DEF ResultTypes
  <2>4. Truthful' <=> Truthful
    BY <2>1, SameTruth
  <2>5. VerdictIsTrue'
    BY <1>0, <2>1, <2>3 DEF VerdictStands, VerdictIsTrue, Truthful, Outdated, Incomparable
  <2>6. file'.of \in 0 .. target' /\ code' \in {target', NoName'}
    BY <2>1 DEF NoName
  <2> QED BY <2>1, <2>2, <2>3, <2>4, <2>5, <2>6
<1>7. CASE HandleBootUpdateEnd
  <2>1. file'.of \in 0 .. target' /\ code' \in {target', NoName'}
    BY <1>7 DEF HandleBootUpdateEnd, ClearFirmwareInfo, NoName
  <2> QED BY <1>7, <2>1 DEF HandleBootUpdateEnd, ClearFirmwareInfo, InSystem, VerdictIsTrue,
                            Outdated, Incomparable
<1>8. CASE UNCHANGED vars
  <2>1. UNCHANGED <<comps, file, target, code, display>>
    BY <1>8 DEF vars, store
  <2>2. file'.of \in 0 .. target' /\ code' \in {target', NoName'}
    BY <2>1 DEF NoName
  <2> QED BY <1>8, <2>1, <2>2, SameTruth DEF vars, store, VerdictIsTrue, Outdated, Incomparable
<1> QED BY <1>1, <1>2, <1>3, <1>4, <1>5, <1>6, <1>7, <1>8 DEF Next

-----------------------------------------------------------------------------
(* Types, and what the file holds. *)

\* The bounds of the versions, and the lines of the file: each of a path and a result.
FileLine == [spath : Paths, result : {"pass", "fail", "none"}]
FileInv ==
  /\ target \in 0 .. MaxUpgrades /\ currentId \in 0 .. MaxUpgrades
  /\ code \in 0 .. NoName
  /\ file.open \in BOOLEAN /\ file.of \in 0 .. MaxUpgrades /\ file.lines \in Seq(FileLine)

LEMMA NoFileTyped ==
  NoFile.open \in BOOLEAN /\ NoFile.of = 0 /\ NoFile.lines \in Seq(FileLine)
<1>1. NoFile.open = FALSE /\ NoFile.of = 0 /\ NoFile.lines = <<>>
  BY DEF NoFile
<1>2. <<>> \in Seq(FileLine)
  OBVIOUS
<1> QED BY <1>1, <1>2, Zenon

\* The updater writes a line with a result for each package of the upgrade, in their order, or
\* leaves no file (UpdaterRuns).
LEMMA UpdaterWritesLines ==
  ASSUME ResultTypes, UpdaterRuns
  PROVE  file'.open \in BOOLEAN /\ file'.of \in {0, target} /\ file'.lines \in Seq(FileLine)
<1>1. comps \in SUBSET Nat /\ IsFiniteSet(comps)
  BY ResultAssumption, FS_Subset DEF ResultTypes
<1> DEFINE n == Cardinality(comps)
<1>2. n \in Nat /\ InstallFiles \in [1 .. n -> comps]
  BY <1>1, FilesInOrder
<1>3. PICK k \in 0 .. Len(InstallFiles), e \in {"fail", "none"} :
        file' \in {NoFile, [open |-> TRUE, of |-> target, lines |-> Lines(k, e)]}
  BY DEF UpdaterRuns
<1>4. CASE file' = NoFile
  <2> QED BY <1>4, NoFileTyped
<1>5. CASE file' = [open |-> TRUE, of |-> target, lines |-> Lines(k, e)]
  <2>1. Lines(k, e) \in [1 .. n -> FileLine]
    <3>1. DOMAIN InstallFiles = 1 .. n /\ \A i \in 1 .. n : InstallFiles[i] \in Paths
      BY <1>2 DEF ResultTypes
    <3> QED BY <3>1 DEF Lines, FileLine
  <2>2. Lines(k, e) \in Seq(FileLine)
    <3> HIDE DEF n
    <3> QED BY <1>2, <2>1
  <2> QED BY <1>5, <2>2
<1> QED BY <1>3, <1>4, <1>5

\* No other step writes the file; an upgrade begins only below the bound.
LEMMA FileInvStep == ResultTypes /\ FileInv /\ [Next]_vars => FileInv'
<1> SUFFICES ASSUME ResultTypes, FileInv, [Next]_vars PROVE FileInv'
  OBVIOUS
<1>0. 0 \in 0 .. MaxUpgrades
  BY ResultAssumption
<1>1. file'.open \in BOOLEAN /\ file'.of \in 0 .. MaxUpgrades /\ file'.lines \in Seq(FileLine)
  <2>1. CASE UpdaterRuns
    BY <1>0, <2>1, UpdaterWritesLines DEF FileInv
  <2>2. CASE UNCHANGED file
    BY <2>2 DEF FileInv
  <2>3. UpdaterRuns \/ UNCHANGED file
    BY DEF Next, vars, BuildComponentSPath, PerformInstall, DoUpdaterInstall, RebootReturns,
           EnterUpdater, DoReboot, Reset, HandleBootComplete, SaveHotaCurrentVersionComponentId,
           NotifyEvent, HandleBootUpdateEnd
  <2> QED BY <2>1, <2>2, <2>3
<1>2. target' = target \/ (target < MaxUpgrades /\ target' = target + 1)
  BY DEF Next, vars, store, BuildComponentSPath, PerformInstall, DoUpdaterInstall, RebootReturns,
         EnterUpdater, UpdaterRuns, DoReboot, Reset, HandleBootComplete,
         SaveHotaCurrentVersionComponentId, NotifyEvent, HandleBootUpdateEnd, ClearFirmwareInfo
<1>3. currentId' = currentId \/ currentId' = target
  BY DEF Next, vars, BuildComponentSPath, PerformInstall, DoUpdaterInstall, RebootReturns,
         EnterUpdater, UpdaterRuns, DoReboot, Reset, HandleBootComplete,
         SaveHotaCurrentVersionComponentId, NotifyEvent, HandleBootUpdateEnd
<1>4. code' = code \/ code' = target' \/ code' = NoName
  BY DEF Next, vars, store, BuildComponentSPath, PerformInstall, DoUpdaterInstall, RebootReturns,
         EnterUpdater, UpdaterRuns, DoReboot, Reset, HandleBootComplete,
         SaveHotaCurrentVersionComponentId, NotifyEvent, HandleBootUpdateEnd, ClearFirmwareInfo
<1> QED BY <1>1, <1>2, <1>3, <1>4, ResultAssumption DEF FileInv, NoName

\* Before the first upgrade there is no file, and nothing is on offer.
LEMMA FileInvInit == Init => FileInv
<1>1. Init => file.open \in BOOLEAN /\ file.of = 0 /\ file.lines \in Seq(FileLine)
  BY NoFileTyped DEF Init
<1> QED BY <1>1, ResultAssumption DEF Init, FileInv, NoName

\* The versions, the tables, the file and the place of the service's thread have their types: the
\* file is absent or has a line with a result for each package, and the running version, that of
\* the other slot and that of the description are none beyond those that were on offer
\* (UpdaterRuns, DoReboot, SaveHotaCurrentVersionComponentId).
THEOREM ResultTypeCorrect == Spec => []TypeOK
<1>2. ResultTypes /\ FileInv => TypeOK
  BY ResultAssumption DEF ResultTypes, FileInv, FileLine, TypeOK
<1> QED BY ResultTypesInit, ResultTypesStep, FileInvInit, FileInvStep, <1>2, PTL DEF Spec

-----------------------------------------------------------------------------
\* Wherever power is lost, and on either kind of device, the client is told of a success exactly
\* when the version on offer runs (GetUpdaterResult), unless the boot found the file of an earlier
\* upgrade, or found none and the version code is not the version's name: then it may be told of a
\* failure that was none.
THEOREM VerdictAlwaysTrue == Spec => []VerdictIsTrue
<1>1. Init => VerdictIsSound
  <2>1. NoFile.of = 0
    BY DEF NoFile
  <2> QED BY <2>1 DEF Init, VerdictIsSound, VerdictIsTrue, Judging
<1>2. ResultInv /\ FileInv /\ VerdictIsSound /\ [Next]_vars => VerdictIsSound'
  BY VerdictIsSoundStep DEF FileInv
<1>3. ResultInv => ResultTypes
  BY DEF ResultInv
<1>4. VerdictIsSound => VerdictIsTrue
  BY DEF VerdictIsSound
<1> QED BY ResultInvInit, ResultInvStep, FileInvInit, FileInvStep, <1>1, <1>2, <1>3, <1>4, PTL
        DEF Spec
=============================================================================
