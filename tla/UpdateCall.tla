----------------------------- MODULE UpdateCall -----------------------------
(***************************************************************************)
(* One call of the update API, from JavaScript to the service and back.    *)
(*                                                                         *)
(* The JavaScript thread parses the arguments into the members of the      *)
(* UpdateClient (update_client.cpp, local_updater.cpp, restorer.cpp); the  *)
(* proxy writes them into a parcel (update_service_proxy.cpp); the stub    *)
(* checks the caller, reads the parcel and calls the service               *)
(* (update_service_stub.cpp, update_service.cpp,                           *)
(* update_service_impl_firmware.cpp); the proxy reads the reply and the    *)
(* session gives JavaScript a result or an error.  In the other direction  *)
(* the service pushes check results and events through the callback proxy  *)
(* and stub.                                                               *)
(*                                                                         *)
(* The firmware manager behind the service is module FirmwareUpgrade; here *)
(* it answers with any error of ManagerErrors, and the task it works on is *)
(* any element of Worlds.  Message texts are named by their error.         *)
(***************************************************************************)
EXTENDS ClientHelper

CONSTANTS
  Callers,          \* records [token, uid, granted, info] of calling processes; info is
                    \* the upgrade info object they give to getOnlineUpdater
  Calls,            \* a sequence of records [m, args]: the calls JavaScript may make
  Worlds,           \* records [task, components, changelogs, currentId, slots]
  ManagerErrors,    \* business errors the firmware manager answers with
  TransportErrors,  \* codes SendRequest returns when nothing was delivered
  Pushed,           \* events and check results the service pushes
  MaxCalls          \* bound on the number of calls

VARIABLES
  caller,         \* the calling process
  client,         \* the members of its UpdateClient
  call,           \* the call in progress
  world,          \* task, components and files of the service
  autoDownload,   \* preference AUTO_DOWNLOAD_SWITCH
  asked,          \* history: what the service was last asked, after decoding
  truth,          \* history: what it answered, before encoding
  pushed,         \* history: what was pushed last and what JavaScript saw of it
  policySet,      \* history: the last policy JavaScript was told is set
  calls           \* number of calls made

vars == <<caller, client, call, world, autoDownload, asked, truth, pushed, policySet, calls>>

-----------------------------------------------------------------------------
(* updater_sa_ipc_interface_code.h *)

Codes ==
  <<"CheckNewVersion", "Download", "PauseDownload", "ResumeDownload", "Upgrade", "ClearError",
    "TerminateUpgrade", "SetUpgradePolicy", "GetUpgradePolicy", "GetNewVersionInfo",
    "GetNewVersionDescription", "GetCurrentVersionInfo", "GetCurrentVersionDescription",
    "GetTaskInfo", "RegisterUpdateCallback", "UnregisterUpdateCallback", "Cancel",
    "FactoryReset", "ApplyNewVersion", "VerifyUpgradePackage">>
Code(m) == CHOOSE i \in DOMAIN Codes : Codes[i] = m
Methods == Range(Codes)

Err(n) == [message |-> n, errorNum |-> n, data |-> <<>>]
NoError == Err(SUCCESS)

-----------------------------------------------------------------------------
(* update_client.cpp, local_updater.cpp, restorer.cpp: JavaScript thread *)

Arg(args, i) == IF i <= Len(args) THEN args[i] ELSE Undefined

\* The upgrade info of the local updater.
LOCAL_UPGRADE_INFO == 77
MISC_FILE == 78
EmptyInfo == [upgradeApp |-> 0, vendor |-> 0, subType |-> 1, upgradeDevId |-> 0, controlDevId |-> 0]
LocalInfo == [EmptyInfo EXCEPT !.upgradeApp = LOCAL_UPGRADE_INFO]

NewClient ==
  [info |-> EmptyInfo, digest |-> [versionDigest |-> 0],
   description |-> [format |-> 0, language |-> 0],
   download |-> [allowNetwork |-> 6, order |-> 1], pause |-> [isAllowAutoResume |-> 0],
   resume |-> [allowNetwork |-> 6], upgrade |-> [order |-> 2], clear |-> [status |-> 0],
   policy |-> [downloadStrategy |-> 0, autoUpgradeStrategy |-> 0,
               autoUpgradePeriods |-> [i \in 1..2 |-> [start |-> 0, end |-> 0]]],
   files |-> <<>>, certs |-> 0]

GetOnlineUpdater(c, arg) ==
  {[c EXCEPT !.info = r.v] : r \in {x \in GetUpgradeInfoFromArg(arg, c.info) : x.ok}}

\* The digest and one options structure; the digest stays written if the options are bad.
ParseUpgOptions(c, args, member, options) ==
  LET digest == GetVersionDigestInfoFromArg(Arg(args, 1), c.digest)
  IN  [ok |-> options.ok, c |-> [c EXCEPT !.digest = digest.v, ![member] = options.v]]

NapiDownload(c, args) ==
  ParseUpgOptions(c, args, "download", GetDownloadOptions(Arg(args, 2), c.download))
NapiPauseDownload(c, args) ==
  ParseUpgOptions(c, args, "pause", GetPauseDownloadOptions(Arg(args, 2), c.pause))
NapiResumeDownload(c, args) ==
  ParseUpgOptions(c, args, "resume", GetResumeDownloadOptions(Arg(args, 2), c.resume))
NapiUpgrade(c, args) ==
  ParseUpgOptions(c, args, "upgrade", GetUpgradeOptions(Arg(args, 2), c.upgrade))
NapiClearError(c, args) ==
  ParseUpgOptions(c, args, "clear", GetClearOptions(Arg(args, 2), c.clear))
NapiGetNewVersionDescription(c, args) ==
  ParseUpgOptions(c, args, "description", GetDescriptionOptions(Arg(args, 2), c.description))

NapiGetCurrentVersionDescription(c, args) ==
  LET options == GetDescriptionOptions(Arg(args, 1), c.description) IN
  [ok |-> options.ok, c |-> [c EXCEPT !.description = options.v]]

NapiSetUpgradePolicy(c, args) ==
  LET policy == GetUpgradePolicyFromArg(Arg(args, 1), c.policy) IN
  [ok |-> policy.ok, c |-> [c EXCEPT !.policy = policy.v]]

\* These take no arguments but a callback.
NapiNoArguments(c, args) == [ok |-> TRUE, c |-> c]

NapiVerifyUpgradePackage(c, args) ==
  LET file == GetUpgradeFileFromArg(Arg(args, 1)) IN
  IF file.ok /\ Arg(args, 2).t = "string"
  THEN [ok |-> TRUE, c |-> [c EXCEPT !.files = <<file.v>>, !.certs = Truncated(args[2].v)]]
  ELSE [ok |-> FALSE, c |-> c]

NapiApplyNewVersion(c, args) ==
  LET files == GetUpgradeFilesFromArg(Arg(args, 1)) IN
  [ok |-> files.ok, c |-> [c EXCEPT !.files = files.v]]

Parse(m, c, args) ==
  CASE m = "Download" -> NapiDownload(c, args)
    [] m = "PauseDownload" -> NapiPauseDownload(c, args)
    [] m = "ResumeDownload" -> NapiResumeDownload(c, args)
    [] m = "Upgrade" -> NapiUpgrade(c, args)
    [] m = "ClearError" -> NapiClearError(c, args)
    [] m = "SetUpgradePolicy" -> NapiSetUpgradePolicy(c, args)
    [] m = "GetNewVersionDescription" -> NapiGetNewVersionDescription(c, args)
    [] m = "GetCurrentVersionDescription" -> NapiGetCurrentVersionDescription(c, args)
    [] m = "VerifyUpgradePackage" -> NapiVerifyUpgradePackage(c, args)
    [] m = "ApplyNewVersion" -> NapiApplyNewVersion(c, args)
    [] OTHER -> NapiNoArguments(c, args)

-----------------------------------------------------------------------------
(* update_service_proxy.cpp: the request *)

Request(m, cells) == [code |-> Code(m), cells |-> cells]

InfoProxy(m, c) == Request(m, WriteUpgradeInfo(c.info))
\* The callback object follows the info.
REMOTE_OBJECT == 79
RegisterUpdateCallbackProxy(c) ==
  Request("RegisterUpdateCallback", WriteUpgradeInfo(c.info) \o <<REMOTE_OBJECT>>)
UnregisterUpdateCallbackProxy(c) == InfoProxy("UnregisterUpdateCallback", c)
CheckNewVersionProxy(c) == InfoProxy("CheckNewVersion", c)
TerminateUpgradeProxy(c) == InfoProxy("TerminateUpgrade", c)
GetNewVersionInfoProxy(c) == InfoProxy("GetNewVersionInfo", c)
GetCurrentVersionInfoProxy(c) == InfoProxy("GetCurrentVersionInfo", c)
GetTaskInfoProxy(c) == InfoProxy("GetTaskInfo", c)
GetUpgradePolicyProxy(c) == InfoProxy("GetUpgradePolicy", c)

InfoAndDigest(c) == WriteUpgradeInfo(c.info) \o WriteVersionDigestInfo(c.digest)
DownloadProxy(c) == Request("Download", InfoAndDigest(c) \o WriteDownloadOptions(c.download))
PauseDownloadProxy(c) ==
  Request("PauseDownload", InfoAndDigest(c) \o WritePauseDownloadOptions(c.pause))
ResumeDownloadProxy(c) ==
  Request("ResumeDownload", InfoAndDigest(c) \o WriteResumeDownloadOptions(c.resume))
UpgradeProxy(c) == Request("Upgrade", InfoAndDigest(c) \o WriteUpgradeOptions(c.upgrade))
ClearErrorProxy(c) == Request("ClearError", InfoAndDigest(c) \o WriteClearOptions(c.clear))
GetNewVersionDescriptionProxy(c) ==
  Request("GetNewVersionDescription", InfoAndDigest(c) \o WriteDescriptionOptions(c.description))
GetCurrentVersionDescriptionProxy(c) ==
  Request("GetCurrentVersionDescription",
          WriteUpgradeInfo(c.info) \o WriteDescriptionOptions(c.description))
SetUpgradePolicyProxy(c) ==
  Request("SetUpgradePolicy", WriteUpgradeInfo(c.info) \o WriteUpgradePolicy(c.policy))
\* cancel() always asks for the download to be cancelled.
CancelProxy(c) == Request("Cancel", WriteUpgradeInfo(c.info) \o <<Code("Download")>>)
FactoryResetProxy(c) == Request("FactoryReset", <<>>)
\* Only the first of the files is sent.
ApplyNewVersionProxy(c) ==
  Request("ApplyNewVersion", WriteUpgradeInfo(LocalInfo) \o <<MISC_FILE, c.files[1]>>)
VerifyUpgradePackageProxy(c) == Request("VerifyUpgradePackage", <<c.files[1], c.certs>>)

Proxy(m, c) ==
  CASE m = "RegisterUpdateCallback" -> RegisterUpdateCallbackProxy(c)
    [] m = "UnregisterUpdateCallback" -> UnregisterUpdateCallbackProxy(c)
    [] m = "CheckNewVersion" -> CheckNewVersionProxy(c)
    [] m = "TerminateUpgrade" -> TerminateUpgradeProxy(c)
    [] m = "GetNewVersionInfo" -> GetNewVersionInfoProxy(c)
    [] m = "GetCurrentVersionInfo" -> GetCurrentVersionInfoProxy(c)
    [] m = "GetTaskInfo" -> GetTaskInfoProxy(c)
    [] m = "GetUpgradePolicy" -> GetUpgradePolicyProxy(c)
    [] m = "Download" -> DownloadProxy(c)
    [] m = "PauseDownload" -> PauseDownloadProxy(c)
    [] m = "ResumeDownload" -> ResumeDownloadProxy(c)
    [] m = "Upgrade" -> UpgradeProxy(c)
    [] m = "ClearError" -> ClearErrorProxy(c)
    [] m = "GetNewVersionDescription" -> GetNewVersionDescriptionProxy(c)
    [] m = "GetCurrentVersionDescription" -> GetCurrentVersionDescriptionProxy(c)
    [] m = "SetUpgradePolicy" -> SetUpgradePolicyProxy(c)
    [] m = "Cancel" -> CancelProxy(c)
    [] m = "FactoryReset" -> FactoryResetProxy(c)
    [] m = "ApplyNewVersion" -> ApplyNewVersionProxy(c)
    [] m = "VerifyUpgradePackage" -> VerifyUpgradePackageProxy(c)

-----------------------------------------------------------------------------
(* update_service_impl_firmware.cpp and firmware_update_helper.cpp *)

\* An outcome of a request: result code, business error, value, and the new switch.
Outcome(req, ret, err, value) ==
  [asked |-> req, ret |-> ret, err |-> err, value |-> value, switch |-> autoDownload]
Answer(req, err) == Outcome(req, SUCCESS, err, <<>>)
Managed(req) == {Answer(req, e) : e \in ManagerErrors}

CHECK_VERSION_SUCCESS == 12
DOWNLOADING == 20
DOWNLOAD_PAUSE == 21

CheckNewVersionImpl(req) == {Answer(req, NoError)}

DownloadImpl(req) ==
  IF world.task.status # CHECK_VERSION_SUCCESS THEN {Answer(req, Err(FAIL))} ELSE Managed(req)

UpgradeImpl(req) == Managed(req)
ClearErrorImpl(req) == Managed(req)
TerminateUpgradeImpl(req) == Managed(req)

CancelImpl(req) ==
  IF world.task.status \in {DOWNLOADING, DOWNLOAD_PAUSE} THEN Managed(req)
  ELSE {Answer(req, Err(FAIL))}

\* One component for all the packages of the firmware: the first's version, the sum of the sizes.
EmptyComponent ==
  [n \in Range(VersionComponent) |-> IF n = "effectiveMode" THEN 1 ELSE 0]
BuildHotaVersionComponent(list) ==
  [EmptyComponent EXCEPT
     !.componentId = list[1].componentId, !.upgradeAction = 1, !.componentType = 1,
     !.effectiveMode = IF world.slots = 2 THEN 3 ELSE 1,
     !.innerVersion = list[1].innerVersion, !.displayVersion = list[1].displayVersion,
     !.size = FoldLeft(LAMBDA total, c : total + c.size, 0, list)]

HOTA_TYPE == 1
DYNAMIC_TYPE == 100
NewVersionComponents ==
  LET list == world.components
      hota == Selected(list, {i \in DOMAIN list : list[i].blVersionType \in {HOTA_TYPE, DYNAMIC_TYPE}})
  IN  IF hota = <<>> THEN <<>> ELSE <<BuildHotaVersionComponent(hota)>>

GetNewVersionInfoImpl(req) ==
  {Outcome(req, SUCCESS, NoError,
           [versionDigest |-> world.task.taskId, versionComponents |-> NewVersionComponents])}

\* The changelog holds a Chinese and an English section; the other one is cut out.
ZH_CN == 55
GetChangelogContent(log, language) == IF language = ZH_CN THEN log.chinese ELSE log.english
Description(id, language) ==
  [componentId |-> id, descriptionType |-> world.changelogs[id].type,
   content |-> GetChangelogContent(world.changelogs[id], language)]

\* A missing changelog fails the call; the descriptions gathered so far stay in the reply.
GetNewVersionDescriptionImpl(req) ==
  LET list == world.components
      missing == {i \in DOMAIN list : list[i].componentId \notin DOMAIN world.changelogs}
      upto == IF missing = {} THEN Len(list)
              ELSE (CHOOSE i \in missing : \A j \in missing : i <= j) - 1
  IN  {Outcome(req, SUCCESS, IF list = <<>> \/ missing # {} THEN Err(FAIL) ELSE NoError,
               [i \in 1..upto |-> Description(list[i].componentId, req.options.language)])}

BuildCurrentInfo ==
  [osVersion |-> 61, deviceName |-> 62,
   versionComponents |->
     <<[EmptyComponent EXCEPT !.displayVersion = 63, !.innerVersion = 64, !.descriptionType = 2,
                              !.componentId = world.currentId, !.componentType = 1]>>]
GetCurrentVersionInfoImpl(req) == {Outcome(req, SUCCESS, NoError, BuildCurrentInfo)}

GetCurrentVersionDescriptionImpl(req) ==
  {IF world.currentId = 0 \/ world.currentId \notin DOMAIN world.changelogs
   THEN Outcome(req, SUCCESS, Err(FAIL), <<>>)
   ELSE Outcome(req, SUCCESS, NoError, <<Description(world.currentId, req.options.language)>>)}

\* Only status, progress and digest are filled in.
EmptyBody ==
  [versionDigest |-> 0, status |-> 0, subStatus |-> 0, progress |-> 0, installMode |-> 0,
   errorMessages |-> <<>>, versionComponents |-> <<>>]
GetTaskInfoImpl(req) ==
  {Outcome(req, SUCCESS, NoError,
           [existTask |-> world.task.exist,
            taskBody |-> [EmptyBody EXCEPT !.status = world.task.status,
                                           !.progress = world.task.progress,
                                           !.versionDigest = world.task.taskId]])}

\* Nothing of the policy but the download strategy is kept.
SetUpgradePolicyImpl(req) ==
  {[Answer(req, NoError) EXCEPT !.switch = req.options.downloadStrategy]}

GetUpgradePolicyImpl(req) ==
  {Outcome(req, SUCCESS, NoError,
           [downloadStrategy |-> autoDownload, autoUpgradeStrategy |-> 0,
            autoUpgradePeriods |-> <<[start |-> 60 * 2, end |-> 60 * 4], [start |-> 0, end |-> 0]>>])}

-----------------------------------------------------------------------------
(* update_service.cpp and update_service_impl_manager.cpp *)

\* Only firmware has an implementation; any other business fails the call.
HasOnlineUpdater(info) == info.subType = 1
Online(req, Impl(_)) ==
  IF HasOnlineUpdater(req.info) THEN Impl(req) ELSE {Outcome(req, FAIL, NoError, <<>>)}

CheckNewVersion(req) == Online(req, CheckNewVersionImpl)
Download(req) == Online(req, DownloadImpl)
PauseDownload(req) == {Answer(req, Err(UN_SUPPORT))}
ResumeDownload(req) == {Answer(req, Err(UN_SUPPORT))}
Upgrade(req) == Online(req, UpgradeImpl)
ClearError(req) == Online(req, ClearErrorImpl)
TerminateUpgrade(req) == Online(req, TerminateUpgradeImpl)
Cancel(req) == Online(req, CancelImpl)
SetUpgradePolicy(req) == Online(req, SetUpgradePolicyImpl)
GetUpgradePolicy(req) == Online(req, GetUpgradePolicyImpl)
GetNewVersionInfo(req) == Online(req, GetNewVersionInfoImpl)
GetNewVersionDescription(req) == Online(req, GetNewVersionDescriptionImpl)
GetCurrentVersionInfo(req) == Online(req, GetCurrentVersionInfoImpl)
GetCurrentVersionDescription(req) == Online(req, GetCurrentVersionDescriptionImpl)
GetTaskInfo(req) == Online(req, GetTaskInfoImpl)

\* The updater kits reboot the device or report a failure.
Kits(req) == {Outcome(req, ret, NoError, <<>>) : ret \in {SUCCESS, FAIL}}
FactoryReset(req) == Kits(req)
ApplyNewVersion(req) == Kits(req)
VerifyUpgradePackage(req) == Kits(req)

\* The registration itself is module ClientRegistry.
RegisterUpdateCallback(req) == {Answer(req, NoError)}
UnregisterUpdateCallback(req) == {Answer(req, NoError)}

-----------------------------------------------------------------------------
(* update_service_stub.cpp *)

Req(m, info, digest, options) == [m |-> m, info |-> info, digest |-> digest, options |-> options]
WithInfo(m, p, Serve(_)) == Serve(Req(m, ReadUpgradeInfo(p).v, <<>>, <<>>))
WithOptions(m, p, ReadOptions(_), Serve(_)) ==
  LET info == ReadUpgradeInfo(p) IN Serve(Req(m, info.v, <<>>, ReadOptions(info.rest).v))
WithDigest(m, p, ReadOptions(_), Serve(_)) ==
  LET info == ReadUpgradeInfo(p)
      digest == ReadVersionDigestInfo(info.rest)
  IN  Serve(Req(m, info.v, digest.v, ReadOptions(digest.rest).v))

GetNewVersionStub(p) == WithInfo("GetNewVersionInfo", p, GetNewVersionInfo)
GetNewVersionDescriptionStub(p) ==
  WithDigest("GetNewVersionDescription", p, ReadDescriptionOptions, GetNewVersionDescription)
GetCurrentVersionStub(p) == WithInfo("GetCurrentVersionInfo", p, GetCurrentVersionInfo)
\* Fault: the reader expects a digest before the options.
GetCurrentVersionDescriptionStubDigest(p) ==
  WithDigest("GetCurrentVersionDescription", p, ReadDescriptionOptions,
             GetCurrentVersionDescription)
GetCurrentVersionDescriptionStub(p) ==
  WithOptions("GetCurrentVersionDescription", p, ReadDescriptionOptions,
              GetCurrentVersionDescription)
GetTaskInfoStub(p) == WithInfo("GetTaskInfo", p, GetTaskInfo)
CheckNewVersionStub(p) == WithInfo("CheckNewVersion", p, CheckNewVersion)
DownloadVersionStub(p) == WithDigest("Download", p, ReadDownloadOptions, Download)
PauseDownloadStub(p) == WithDigest("PauseDownload", p, ReadPauseDownloadOptions, PauseDownload)
ResumeDownloadStub(p) == WithDigest("ResumeDownload", p, ReadResumeDownloadOptions, ResumeDownload)
DoUpdateStub(p) == WithDigest("Upgrade", p, ReadUpgradeOptions, Upgrade)
ClearErrorStub(p) == WithDigest("ClearError", p, ReadClearOptions, ClearError)
TerminateUpgradeStub(p) == WithInfo("TerminateUpgrade", p, TerminateUpgrade)
SetUpgradePolicyStub(p) == WithOptions("SetUpgradePolicy", p, ReadUpgradePolicy, SetUpgradePolicy)
GetUpgradePolicyStub(p) == WithInfo("GetUpgradePolicy", p, GetUpgradePolicy)
RegisterUpdateCallbackStub(p) ==
  LET info == ReadUpgradeInfo(p)
      req == Req("RegisterUpdateCallback", info.v, <<>>, <<>>)
  IN  IF CellAt(info.rest, 1) = REMOTE_OBJECT THEN RegisterUpdateCallback(req)
      ELSE {Outcome(req, IPC_ERR, NoError, <<>>)}
UnregisterUpdateCallbackStub(p) == WithInfo("UnregisterUpdateCallback", p, UnregisterUpdateCallback)
CancelStub(p) == WithInfo("Cancel", p, Cancel)
FactoryResetStub(p) == FactoryReset(Req("FactoryReset", EmptyInfo, <<>>, <<>>))
ApplyNewVersionStub(p) ==
  LET info == ReadUpgradeInfo(p) IN
  ApplyNewVersion(Req("ApplyNewVersion", info.v, <<>>, <<CellAt(info.rest, 1), CellAt(info.rest, 2)>>))
VerifyUpgradePackageStub(p) ==
  VerifyUpgradePackage(Req("VerifyUpgradePackage", EmptyInfo, <<>>, <<CellAt(p, 1), CellAt(p, 2)>>))

\* requestFuncMap_
Handle(code, p) ==
  CASE code = 1 -> CheckNewVersionStub(p)
    [] code = 2 -> DownloadVersionStub(p)
    [] code = 3 -> PauseDownloadStub(p)
    [] code = 4 -> ResumeDownloadStub(p)
    [] code = 5 -> DoUpdateStub(p)
    [] code = 6 -> ClearErrorStub(p)
    [] code = 7 -> TerminateUpgradeStub(p)
    [] code = 8 -> SetUpgradePolicyStub(p)
    [] code = 9 -> GetUpgradePolicyStub(p)
    [] code = 10 -> GetNewVersionStub(p)
    [] code = 11 -> GetNewVersionDescriptionStub(p)
    [] code = 12 -> GetCurrentVersionStub(p)
    [] code = 13 -> GetCurrentVersionDescriptionStub(p)
    [] code = 14 -> GetTaskInfoStub(p)
    [] code = 15 -> RegisterUpdateCallbackStub(p)
    [] code = 16 -> UnregisterUpdateCallbackStub(p)
    [] code = 17 -> CancelStub(p)
    [] code = 18 -> FactoryResetStub(p)
    [] code = 19 -> ApplyNewVersionStub(p)
    [] code = 20 -> VerifyUpgradePackageStub(p)

\* Applications must be system applications, native processes root or the device manager.
EDM_UID == 3057
IsCallerValid ==
  \/ caller.token = "system_hap"
  \/ caller.token = "native" /\ caller.uid \in {0, EDM_UID}

IsPermissionGranted(code) ==
  (IF code = 18 THEN "FACTORY_RESET" ELSE "UPDATE_SYSTEM") \in caller.granted

CALL_RESULT_OFFSET == 2000

\* What a handler puts in the reply: nothing unless the call succeeded.
NoReply == {"CheckNewVersion", "RegisterUpdateCallback", "UnregisterUpdateCallback"}
Value(m, value) ==
  CASE m = "GetNewVersionInfo" -> WriteNewVersionInfo(value)
    [] m = "GetNewVersionDescription" -> WriteVersionDescriptionInfo(value)
    [] m = "GetCurrentVersionInfo" -> WriteCurrentVersionInfo(value)
    [] m = "GetCurrentVersionDescription" -> WriteVersionDescriptionInfo(value)
    [] m = "GetTaskInfo" -> WriteTaskInfo(value)
    [] m = "GetUpgradePolicy" -> WriteUpgradePolicy(value)
    [] OTHER -> <<>>
Reply(m, out) ==
  IF out.ret # SUCCESS \/ m \in NoReply THEN <<>>
  ELSE WriteBusinessError(out.err) \o Value(m, out.value)

-----------------------------------------------------------------------------
(* update_service_proxy.cpp: the reply *)

\* Fault: a transport error is taken for a call that returned nothing.
CallResultLenient(status) == IF status >= CALL_RESULT_OFFSET THEN status - CALL_RESULT_OFFSET ELSE SUCCESS
\* IPC_RESULT_TO_CALL_RESULT
CallResult(status) ==
  IF status = 0 THEN SUCCESS
  ELSE IF status >= CALL_RESULT_OFFSET THEN status - CALL_RESULT_OFFSET ELSE IPC_ERR

ReadValue(m, p) ==
  CASE m = "GetNewVersionInfo" -> ReadNewVersionInfo(p).v
    [] m = "GetNewVersionDescription" -> ReadVersionDescriptionInfo(p).v
    [] m = "GetCurrentVersionInfo" -> ReadCurrentVersionInfo(p).v
    [] m = "GetCurrentVersionDescription" -> ReadVersionDescriptionInfo(p).v
    [] m = "GetTaskInfo" -> ReadTaskInfo(p).v
    [] m = "GetUpgradePolicy" -> ReadUpgradePolicy(p).v
    [] OTHER -> <<>>

-----------------------------------------------------------------------------
(* update_session.h, update_session.cpp, UpdateClient::GetUpdateResult *)

GetUpdateResult(m, value) ==
  CASE m = "GetNewVersionInfo" -> BuildNewVersionInfo(value)
    [] m = "GetNewVersionDescription" -> BuildVersionDescriptionInfo(value)
    [] m = "GetTaskInfo" -> BuildTaskInfo(value)
    [] m = "GetCurrentVersionInfo" -> BuildCurrentVersionInfo(value)
    [] m = "GetCurrentVersionDescription" -> BuildVersionDescriptionInfo(value)
    [] m = "GetUpgradePolicy" -> BuildUpgradePolicy(value)
    [] OTHER -> BuildUndefinedStatus

BuildWorkBusinessErr(workResult) == Err(workResult)
GetBusinessError(workResult, err) ==
  IF workResult = SUCCESS THEN err ELSE BuildWorkBusinessErr(workResult)

\* What JavaScript gets: the error object, or the result of the method.
NotifyJS(m, workResult, err, value) ==
  LET error == GetBusinessError(workResult, err) IN
  IF IsErrorExist(error) THEN [kind |-> "error", js |-> BuildBusinessError(error)]
  ELSE [kind |-> "result", js |-> GetUpdateResult(m, value)]

-----------------------------------------------------------------------------
\* The error numbers the firmware manager answers with: the results of CallResult in
\* update_helper.h except those of the checks of callers and arguments.
ManagerResults == {SUCCESS, FAIL, 102, 103, IPC_ERR, 402, 501, 502, 503, UN_SUPPORT}

\* JavaScript calls methods the code has; lists are sequences; zero is no error of SendRequest;
\* a 32-bit cell holds every error code.
ASSUME CallAssumption ==
  /\ \A i \in DOMAIN Calls : Calls[i].m \in Methods
  /\ \A e \in ManagerErrors : e.errorNum \in ManagerResults /\ e.data \in Seq(Range(e.data))
  /\ \A w \in Worlds : w.components \in Seq(Range(w.components))
  /\ TransportErrors \subseteq Int \ {0} /\ MaxCalls \in Nat
  /\ Word > 2 * (COMPONENT_ERR + 1000)
  /\ \A code \in TransportErrors : 2 * (COMPONENT_ERR + code) < Word

NoCall == [step |-> "idle", m |-> "none", args |-> <<>>, status |-> 0, reply |-> <<>>,
           answer |-> [kind |-> "none", js |-> Undefined]]
NotAsked == [m |-> "none"]

Init ==
  /\ caller \in Callers
  /\ client \in GetOnlineUpdater(NewClient, caller.info)
  /\ call = NoCall
  /\ world \in Worlds
  /\ autoDownload = 0
  /\ asked = NotAsked /\ truth = NotAsked
  /\ pushed = [kind |-> "none"]
  /\ policySet = Undefined
  /\ calls = 0

\* JavaScript calls a method.  Bad arguments are answered with PARAM_ERR: thrown by the
\* online updater, given by a session that never reaches the service by the local one.
Call(c) ==
  /\ call.step = "idle" /\ calls < MaxCalls
  /\ calls' = calls + 1
  /\ LET parsed == Parse(c.m, client, c.args) IN
     /\ client' = parsed.c
     /\ call' = [NoCall EXCEPT
                   !.step = IF parsed.ok THEN "queued" ELSE "done", !.m = c.m, !.args = c.args,
                   !.answer = IF parsed.ok THEN @
                              ELSE [kind |-> "error", js |-> BuildThrowError(Err(PARAM_ERR))]]
  /\ asked' = NotAsked /\ truth' = NotAsked
  /\ UNCHANGED <<caller, world, autoDownload, pushed, policySet>>

\* The worker sends the request and the stub serves it.
OnRemoteRequest ==
  /\ call.step = "queued"
  /\ LET sent == Proxy(call.m, client) IN
     IF ~IsCallerValid \/ ~IsPermissionGranted(sent.code)
     THEN /\ call' = [call EXCEPT !.step = "sent",
                        !.status = CALL_RESULT_OFFSET
                                     + (IF IsCallerValid THEN APP_NOT_GRANTED ELSE NOT_SYSTEM_APP)]
          /\ UNCHANGED <<autoDownload, asked, truth>>
     ELSE \E out \in Handle(sent.code, sent.cells) :
            /\ asked' = out.asked
            /\ truth' = out
            /\ autoDownload' = out.switch
            /\ call' = [call EXCEPT !.step = "sent", !.status = CALL_RESULT_OFFSET + out.ret,
                                    !.reply = Reply(call.m, out)]
  /\ UNCHANGED <<caller, client, world, pushed, policySet, calls>>

\* Nothing was delivered: the service died, the transport failed.
TransportFails ==
  /\ call.step = "queued"
  /\ \E code \in TransportErrors : call' = [call EXCEPT !.step = "sent", !.status = code]
  /\ UNCHANGED <<caller, client, world, autoDownload, asked, truth, pushed, policySet, calls>>

\* The proxy reads the reply, the session tells JavaScript.  cancel() has no answer; that
\* of checkNewVersion comes with the callback, unless the call itself failed.
CompleteWork ==
  /\ call.step = "sent"
  /\ LET result == CallResult(call.status)
         read == result = SUCCESS /\ call.m \notin NoReply
         err == IF read THEN ReadBusinessError(call.reply) ELSE [v |-> NoError, rest |-> <<>>]
         value == IF read THEN ReadValue(call.m, err.rest) ELSE <<>>
         silent == call.m = "Cancel" \/ (call.m = "CheckNewVersion" /\ result = SUCCESS)
         answer == IF silent THEN [kind |-> "nothing", js |-> Undefined]
                   ELSE NotifyJS(call.m, result, err.v, value)
     IN  /\ call' = [call EXCEPT !.step = "done", !.answer = answer]
         /\ client' = IF read /\ call.m = "GetUpgradePolicy"
                      THEN [client EXCEPT !.policy = value] ELSE client
         /\ policySet' = IF call.m = "SetUpgradePolicy" /\ answer.kind = "result"
                         THEN call.args[1] ELSE policySet
  /\ UNCHANGED <<caller, world, autoDownload, asked, truth, pushed, calls>>

Forget ==
  /\ call.step = "done" /\ call' = NoCall
  /\ asked' = NotAsked /\ truth' = NotAsked
  /\ UNCHANGED <<caller, client, world, autoDownload, pushed, policySet, calls>>

\* The firmware upgrade goes on behind the service.
WorldChanges ==
  /\ call.step = "idle"
  /\ world' \in Worlds
  /\ UNCHANGED <<caller, client, call, autoDownload, asked, truth, pushed, policySet, calls>>

\* update_callback_proxy.cpp and update_callback_stub.cpp: OnCheckVersionDone, OnEvent.
OnCheckVersionDone(p) ==
  LET data == WriteBusinessError(p.err) \o WriteCheckResult(p.result)
      err == ReadBusinessError(data)
  IN  [kind |-> IF IsErrorExist(err.v) THEN "error" ELSE "result",
       js |-> IF IsErrorExist(err.v) THEN BuildBusinessError(err.v)
              ELSE BuildCheckResult(ReadCheckResult(err.rest).v)]
OnEvent(p) ==
  LET built == BuildEventInfo(ReadEventInfo(WriteEventInfo(p.event)).v) IN
  [kind |-> IF built.ok THEN "event" ELSE "nothing", js |-> built.v]

Push(p) ==
  /\ call.step = "idle"
  /\ pushed' = [kind |-> p.kind, sent |-> p,
                seen |-> IF p.kind = "check" THEN OnCheckVersionDone(p) ELSE OnEvent(p)]
  /\ UNCHANGED <<caller, client, call, world, autoDownload, asked, truth, policySet, calls>>

Next ==
  \/ \E i \in DOMAIN Calls : Call(Calls[i])
  \/ OnRemoteRequest
  \/ TransportFails
  \/ CompleteWork
  \/ Forget
  \/ WorldChanges
  \/ \E p \in Pushed : Push(p)

Spec == Init /\ [][Next]_vars

-----------------------------------------------------------------------------
(* Properties *)

OptionsOf(m) == IF m = "GetCurrentVersionDescription" THEN 1 ELSE 2
WithOptionsCalls ==
  {"Download", "PauseDownload", "ResumeDownload", "Upgrade", "ClearError",
   "GetNewVersionDescription", "GetCurrentVersionDescription"}

OptionsMember ==
  [Download |-> "download", PauseDownload |-> "pause", ResumeDownload |-> "resume",
   Upgrade |-> "upgrade", ClearError |-> "clear", GetNewVersionDescription |-> "description",
   GetCurrentVersionDescription |-> "description"]
OptionNames ==
  [Download |-> DownloadOptions, PauseDownload |-> PauseDownloadOptions,
   ResumeDownload |-> ResumeDownloadOptions, Upgrade |-> UpgradeOptions,
   ClearError |-> ClearOptions, GetNewVersionDescription |-> DescriptionOptions,
   GetCurrentVersionDescription |-> DescriptionOptions]

\* No code of SendRequest is one of the results of the stub, which CALL_RESULT_OFFSET shifts.
\* It may well lie above the offset, as that of a dead peer does (29189).
TransportIsNoResult ==
  \A code \in TransportErrors :
    code - CALL_RESULT_OFFSET
      \notin ManagerResults \union {APP_NOT_GRANTED, NOT_SYSTEM_APP, PARAM_ERR}

\* JavaScript passes arguments of the types of the API, with no options but those of the
\* method and strings that fit the buffers; their values may still be refused.
ShortString(arg, name) == Named(arg, name, "string") /\ arg.v[name].v \notin LongStrings
ShortPath(file) == Named(file, "filePath", "string") => ShortString(file, "filePath")
OptionType(n) ==
  IF n = "language" THEN "string" ELSE IF n = "isAllowAutoResume" THEN "boolean" ELSE "number"
OptionsAsDeclared(m, args) ==
  LET given == args[OptionsOf(m)] IN
  /\ OptionsOf(m) <= Len(args)
  /\ given.t = "object"
  /\ \A n \in DOMAIN given.v : n \in Range(OptionNames[m]) /\ given.v[n].t = OptionType(n)
  /\ OptionsOf(m) = 2 => ShortString(args[1], "versionDigest")
AsDeclared(m, args) ==
  /\ m \in WithOptionsCalls => OptionsAsDeclared(m, args)
  /\ (m = "SetUpgradePolicy" /\ Arg(args, 1).t = "object") =>
       \A n \in {"downloadStrategy", "autoUpgradeStrategy"} : Named(args[1], n, "boolean")
  /\ m = "VerifyUpgradePackage" => ShortPath(args[1]) /\ args[2].v \notin LongStrings
  /\ (m = "ApplyNewVersion" /\ Arg(args, 1).t = "array" /\ Len(args[1].v) > 0) =>
       1 \in DOMAIN args[1].v /\ ShortPath(args[1].v[1])
ArgumentsAsDeclared == \A i \in DOMAIN Calls : AsDeclared(Calls[i].m, Calls[i].args)

\* A caller names an application, a vendor and one of the two kinds of business.
CallersAsDeclared ==
  \A k \in Callers :
    /\ ShortString(k.info, "upgradeApp") /\ HasNamed(k.info, "businessType")
    /\ LET business == k.info.v.businessType IN
       /\ ShortString(business, "vendor")
       /\ Named(business, "subType", "number") /\ business.v.subType.v \in {1, 2}

\* The service pushes numbers of 32 bits and lists of valid elements, not longer than the reader
\* of a parcel accepts.
IsInt32(x) == x \in Int /\ -Word <= 2 * x /\ 2 * x < Word
IsListOf(list, names) ==
  /\ list \in Seq(Range(list)) /\ Len(list) <= MAX_VECTOR_SIZE
  /\ \A i \in DOMAIN list : list[i] = [n \in Range(names) |-> list[i][n]]
ErrorsAsDeclared(list) ==
  /\ IsListOf(list, ErrorMessage)
  /\ \A i \in DOMAIN list : IsInt32(list[i].errorCode) /\ IsValidErrorMessage(list[i])
ComponentsAsDeclared(list) ==
  /\ IsListOf(list, VersionComponent)
  /\ \A i \in DOMAIN list : IsValidVersionComponent(list[i])
PushedAsDeclared ==
  \A p \in Pushed :
    \/ /\ p.kind = "check" /\ ErrorsAsDeclared(p.err.data)
       /\ ComponentsAsDeclared(p.result.newVersionInfo.versionComponents)
    \/ LET body == p.event.taskBody IN
       /\ p.kind = "event" /\ IsInt32(p.event.eventId)
       /\ \A n \in {"status", "subStatus", "progress", "installMode"} : IsInt32(body[n])
       /\ ErrorsAsDeclared(body.errorMessages) /\ ComponentsAsDeclared(body.versionComponents)

\* The packages a new version is made of, and their size.
HotaPackages(w) == {i \in DOMAIN w.components : w.components[i].blVersionType \in {1, 100}}
TotalSize(w) == FoldSet(LAMBDA i, total : total + w.components[i].size, 0, HotaPackages(w))

\* The service's task holds numbers of 32 bits, and its table no more components than the reader
\* of a parcel accepts, each with an identity, whose packages have less than 2^31 bytes together.
WorldsAsDeclared ==
  /\ MAX_VECTOR_SIZE # 0
  /\ \A w \in Worlds :
       /\ IsInt32(w.task.status) /\ IsInt32(w.task.progress)
       /\ Len(w.components) <= MAX_VECTOR_SIZE
       /\ \A i \in DOMAIN w.components :
            w.components[i].componentId # 0 /\ w.components[i].size \in Nat
       /\ IsInt32(TotalSize(w))

\* A caller that asks for descriptions names the language, and the Chinese one fits its buffer.
LanguagesAsDeclared ==
  /\ ZH_CN \notin LongStrings
  /\ \A i \in DOMAIN Calls :
       Calls[i].m \in {"GetNewVersionDescription", "GetCurrentVersionDescription"} =>
         Named(Calls[i].args[OptionsOf(Calls[i].m)], "language", "string")

\* A policy that JavaScript sets has a boolean strategy.
StrategiesAsDeclared ==
  \A i \in DOMAIN Calls :
    (Calls[i].m = "SetUpgradePolicy" /\ Arg(Calls[i].args, 1).t = "object") =>
      Calls[i].args[1].v.downloadStrategy.v \in {0, 1}

\* The members of the client and what the service is asked hold only values the
\* enumerations have: client_helper.cpp refuses the others, whatever was asked before.
TypeOK ==
  /\ caller \in Callers /\ world \in Worlds /\ autoDownload \in {0, 1} /\ calls \in 0..MaxCalls
  /\ call.step \in {"idle", "queued", "sent", "done"}
  /\ client.info.subType \in {1, 2}
  /\ client.download.allowNetwork \in {1, 2, 4, 6, 7}
  /\ {client.download.order, client.upgrade.order} \subseteq {1, 2, 3, 4, 6}
  /\ asked.m \in Methods \union {"none"}
  /\ asked.m = "Download" => asked.options.allowNetwork \in {1, 2, 4, 6, 7}

\* The service is asked for the method that was called, with the values JavaScript put into
\* the options, the digest and the upgrade info: what update_service_proxy.cpp writes,
\* update_service_stub.cpp reads in the same order, also after calls that failed.
RequestIntact ==
  asked.m # "none" =>
    /\ asked.m = call.m
    /\ call.m \notin {"FactoryReset", "ApplyNewVersion", "VerifyUpgradePackage"} =>
         /\ asked.info.upgradeApp = caller.info.v.upgradeApp.v
         /\ asked.info.vendor = caller.info.v.businessType.v.vendor.v
         /\ asked.info.subType = caller.info.v.businessType.v.subType.v
    /\ call.m \in WithOptionsCalls =>
         LET given == call.args[OptionsOf(call.m)].v IN
         \A n \in DOMAIN given : given[n].v \notin LongStrings => asked.options[n] = given[n].v
    /\ (call.m \in WithOptionsCalls /\ OptionsOf(call.m) = 2) =>
         asked.digest.versionDigest = call.args[1].v.versionDigest.v
    /\ call.m = "SetUpgradePolicy" =>
         \A n \in {"downloadStrategy", "autoUpgradeStrategy"} :
           asked.options[n] = call.args[1].v[n].v
    /\ call.m = "ApplyNewVersion" =>
         asked.options[2] = TrimString(call.args[1].v[1].v.filePath.v)
    /\ call.m = "VerifyUpgradePackage" =>
         asked.options = <<TrimString(call.args[1].v.filePath.v), call.args[2].v>>

\* What object o shows of the service, whose task, component table and changelogs are w.
TaskShown(o, w) ==
  /\ o.existTask.v = w.task.exist
  /\ w.task.exist = 1 =>
       LET body == o.taskBody.v IN
       /\ body.status.v = w.task.status /\ body.progress.v = w.task.progress
       /\ body.versionDigestInfo.v.versionDigest.v = w.task.taskId

NewVersionShown(o, w) ==
  /\ o.versionDigestInfo.v.versionDigest.v = w.task.taskId
  /\ ("versionComponents" \in DOMAIN o) = (HotaPackages(w) # {})
  /\ HotaPackages(w) # {} => o.versionComponents.v[1].v.size.v = TotalSize(w)

DescriptionShown(d, w, id, language) ==
  /\ d.v.componentId.v = id
  /\ d.v.descriptionInfo.v.content.v
       = IF language = ZH_CN THEN w.changelogs[id].chinese ELSE w.changelogs[id].english
DescriptionsShown(o, w, language) ==
  /\ Len(o) = Len(w.components)
  /\ \A i \in DOMAIN o : DescriptionShown(o[i], w, w.components[i].componentId, language)

\* What a method shows JavaScript is what the service's task, component table, changelogs
\* and preference hold: the structures built by update_service_impl_firmware.cpp survive the
\* parcel and client_helper.cpp.  The size is the sum over the packages of the firmware; the
\* download strategy is that of the last setUpgradePolicy answered with success, however many
\* calls failed in between.
AnswerShowsTheService ==
  LET o == call.answer.js.v
      language == call.args[OptionsOf(call.m)].v.language.v
  IN
  (call.step = "done" /\ call.answer.kind = "result") =>
    /\ call.m = "GetTaskInfo" => TaskShown(o, world)
    /\ call.m = "GetNewVersionInfo" => NewVersionShown(o, world)
    /\ call.m = "GetNewVersionDescription" => DescriptionsShown(o, world, language)
    /\ call.m = "GetCurrentVersionDescription" =>
         Len(o) = 1 /\ DescriptionShown(o[1], world, world.currentId, language)
    /\ call.m = "GetCurrentVersionInfo" =>
         o.versionComponents.v[1].v.componentId.v = world.currentId
    /\ call.m = "GetUpgradePolicy" =>
         /\ o.downloadStrategy.v = autoDownload
         /\ policySet.t = "object" => o.downloadStrategy.v = policySet.v.downloadStrategy.v

\* JavaScript is told of success exactly when the service served the call and succeeded;
\* otherwise it gets the error of the step that failed: the arguments, the caller's rights,
\* the transport, the service's result code or the manager's business error.  A call that was
\* not delivered ends with a component error: IPC_ERR, or the code of the transport where it
\* lies above CALL_RESULT_OFFSET, and never with success, bad arguments or missing rights.  No
\* request is served for a caller that is neither a system application nor a native process of root or
\* the device manager, or that lacks the permission of the method.
OutcomeIsTrue ==
  LET code == call.answer.js.v.code.v
      served == asked.m # "none"
      failed == IF truth.ret # SUCCESS THEN truth.ret ELSE truth.err.errorNum
      system == \/ caller.token = "system_hap"
                \/ caller.token = "native" /\ caller.uid \in {0, EDM_UID}
      permission == IF asked.m = "FactoryReset" THEN "FACTORY_RESET" ELSE "UPDATE_SYSTEM"
  IN
  /\ served => system /\ permission \in caller.granted
  /\ (call.step = "done" /\ call.answer.kind \in {"error", "result"}) =>
       /\ (call.answer.kind = "result") = (served /\ failed = SUCCESS)
       /\ call.answer.kind = "error" =>
            code = IF served
                   THEN (IF failed = UN_SUPPORT THEN UN_SUPPORT ELSE COMPONENT_ERR + failed)
                   ELSE IF call.status = 0 THEN PARAM_ERR
                   ELSE IF call.status \in TransportErrors
                   THEN COMPONENT_ERR + (IF call.status < CALL_RESULT_OFFSET THEN IPC_ERR
                                         ELSE call.status - CALL_RESULT_OFFSET)
                   ELSE IF system THEN APP_NOT_GRANTED ELSE NOT_SYSTEM_APP

\* An event or check result that is pushed to JavaScript shows what the service sent: the
\* members of the event's template, every error message and component of its task body, and no
\* list when there is nothing in it.
Shows(list, name, object, member) ==
  IF list = <<>> THEN member \notin DOMAIN object
  ELSE /\ Len(object[member].v) = Len(list)
       /\ \A i \in DOMAIN list : object[member].v[i].v[name].v = list[i][name]
PushIntact ==
  pushed.kind # "none" =>
    LET seen == pushed.seen.js.v IN
    /\ (pushed.kind = "check" /\ pushed.seen.kind = "result") =>
         /\ seen.isExistNewVersion.v = pushed.sent.result.isExistNewVersion
         /\ seen.isExistNewVersion.v = 1 =>
              Shows(pushed.sent.result.newVersionInfo.versionComponents, "componentId",
                    seen.newVersionInfo.v, "versionComponents")
    /\ (pushed.kind = "check" /\ pushed.seen.kind = "error") =>
         Shows(pushed.sent.err.data, "errorCode", seen, "data")
    /\ (pushed.kind = "event" /\ pushed.seen.kind = "event") =>
         LET body == pushed.sent.event.taskBody
             shown == seen.taskBody.v IN
         /\ seen.eventId.v = pushed.sent.event.eventId
         /\ \A n \in DOMAIN shown :
              CASE n = "versionDigestInfo" -> shown[n].v.versionDigest.v = body.versionDigest
                [] n = "errorMessages" -> Shows(body.errorMessages, "errorCode", shown, n)
                [] n = "versionComponents" -> Shows(body.versionComponents, "innerVersion", shown, n)
                [] OTHER -> shown[n].v = body[n]
=============================================================================
