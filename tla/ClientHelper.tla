---------------------------- MODULE ClientHelper ----------------------------
(***************************************************************************)
(* The conversions between JavaScript values and the service's structures: *)
(* client_helper.cpp and the property accessors of napi_util.cpp.          *)
(*                                                                         *)
(* A JavaScript value is a record [t, v] of its napi type and its content; *)
(* an object's content is a function on its property names, an array's a   *)
(* sequence.  A parse gives [ok, v]: v is the member it fills, which keeps *)
(* what was filled before a failure.  Booleans of the C++ side are 0 and   *)
(* 1, enumerations their values, strings numbers (0 is the empty string).  *)
(***************************************************************************)
EXTENDS Parcel, FiniteSets

CONSTANTS
  LongStrings,   \* strings of 200 bytes or more
  Text           \* the characters of the strings used as paths, as a function

ASSUME HelperAssumption ==
  /\ LongStrings \subseteq Nat \ {0}
  /\ 0 \in DOMAIN Text /\ Text[0] = <<>>

Js(type, value) == [v |-> value, t |-> type]
Undefined == Js("undefined", 0)
NoProperties == [n \in {} |-> Undefined]

-----------------------------------------------------------------------------
(* napi_util.cpp.  A property that is missing or of another type leaves the *)
(* variable as it was.                                                      *)

HasNamed(arg, name) == arg.t = "object" /\ name \in DOMAIN arg.v
Named(arg, name, type) == HasNamed(arg, name) /\ arg.v[name].t = type

GetInt32(arg, name, old) == IF Named(arg, name, "number") THEN arg.v[name].v ELSE old
GetBool(arg, name, old) == IF Named(arg, name, "boolean") THEN arg.v[name].v ELSE old

\* The buffer takes 199 bytes: a longer string becomes another one.
Truncated(s) == IF s \in LongStrings THEN -s ELSE s
GetString(arg, name, old) ==
  IF Named(arg, name, "string") THEN Truncated(arg.v[name].v) ELSE old

SetString(s) == Js("string", s)
SetInt32(x) ==
  LET low == x % Word IN Js("number", IF 2 * low >= Word THEN low - Word ELSE low)
\* A boolean becomes a JavaScript number.
SetBool(b) == Js("number", b)

-----------------------------------------------------------------------------
(* Structures to JavaScript *)

\* Fault: the type of the description is shown as its content.
BuildDescInfoType(d) ==
  [descriptionInfo |-> Js("object", [descriptionType |-> SetInt32(d.descriptionType),
                                     content |-> SetString(d.descriptionType)])]
BuildDescInfo(d) ==
  [descriptionInfo |-> Js("object", [descriptionType |-> SetInt32(d.descriptionType),
                                     content |-> SetString(d.content)])]

IsValidErrorMessage(e) == e.errorCode # 0
IsValidComponentDescription(d) == d.componentId # 0
IsValidVersionComponent(c) == c.componentType # 0

\* The elements of list at the indices, in their order: the array has as many as were counted,
\* and the k-th is the one with k of the indices up to its own.
Selected(list, indices) ==
  [k \in 1..Cardinality(indices) |->
     list[CHOOSE i \in indices : Cardinality({j \in indices : j <= i}) = k]]

\* A list without a valid element is left out of the object.
BuildArray(name, objects) ==
  IF objects = <<>> THEN NoProperties
  ELSE [n \in {name} |-> Js("array", [i \in DOMAIN objects |-> Js("object", objects[i])])]

BuildComponentDescription(d) ==
  [componentId |-> SetString(d.componentId)] ++ BuildDescInfo(d)

BuildComponentDescriptions(list) ==
  LET valid == Selected(list, {i \in DOMAIN list : IsValidComponentDescription(list[i])}) IN
  IF valid = <<>> THEN Undefined
  ELSE Js("array", [i \in DOMAIN valid |-> Js("object", BuildComponentDescription(valid[i]))])

BuildVersionComponent(c) ==
  [componentId |-> SetString(c.componentId), componentType |-> SetInt32(c.componentType),
   upgradeAction |-> SetString(c.upgradeAction), displayVersion |-> SetString(c.displayVersion),
   innerVersion |-> SetString(c.innerVersion), size |-> SetInt32(c.size),
   effectiveMode |-> SetInt32(c.effectiveMode), componentExtra |-> SetString(c.componentExtra)]
    ++ BuildDescInfo(c)

BuildVersionComponents(list) ==
  LET valid == Selected(list, {i \in DOMAIN list : IsValidVersionComponent(list[i])}) IN
  BuildArray("versionComponents", [i \in DOMAIN valid |-> BuildVersionComponent(valid[i])])

BuildCurrentVersionInfo(info) ==
  Js("object", [osVersion |-> SetString(info.osVersion), deviceName |-> SetString(info.deviceName)]
                 ++ BuildVersionComponents(info.versionComponents))

BuildVersionDigestInfo(digest) ==
  [versionDigestInfo |-> Js("object", [versionDigest |-> SetString(digest)])]

BuildErrorMessages(name, list) ==
  LET valid == Selected(list, {i \in DOMAIN list : IsValidErrorMessage(list[i])}) IN
  BuildArray(name, [i \in DOMAIN valid |-> [errorCode |-> SetInt32(valid[i].errorCode),
                                            errorMessage |-> SetString(valid[i].errorMessage)]])

BuildTaskBody(body) ==
  [taskBody |-> Js("object",
     [n \in {"status", "subStatus", "progress", "installMode"} |-> SetInt32(body[n])]
       ++ BuildVersionDigestInfo(body.versionDigest)
       ++ BuildErrorMessages("errorMessages", body.errorMessages)
       ++ BuildVersionComponents(body.versionComponents))]

BuildTaskInfo(info) ==
  Js("object", [existTask |-> SetBool(info.existTask)]
                 ++ (IF info.existTask = 1 THEN BuildTaskBody(info.taskBody) ELSE NoProperties))

NewVersion(info) ==
  BuildVersionDigestInfo(info.versionDigest) ++ BuildVersionComponents(info.versionComponents)
BuildNewVersionInfo(info) == Js("object", NewVersion(info))

BuildVersionDescriptionInfo(info) == BuildComponentDescriptions(info)

BuildCheckResult(r) ==
  Js("object", [isExistNewVersion |-> SetBool(r.isExistNewVersion)]
                 ++ (IF r.isExistNewVersion = 1
                     THEN [newVersionInfo |-> Js("object", NewVersion(r.newVersionInfo))]
                     ELSE NoProperties))

BuildUpgradePolicy(policy) ==
  LET Period(p) == Js("object", [start |-> SetInt32(p.start), end |-> SetInt32(p.end)]) IN
  Js("object", [downloadStrategy |-> SetBool(policy.downloadStrategy),
                autoUpgradeStrategy |-> SetBool(policy.autoUpgradeStrategy),
                autoUpgradePeriods |->
                  Js("array", [i \in 1..2 |-> Period(policy.autoUpgradePeriods[i])])])

BuildUndefinedStatus == Undefined

-----------------------------------------------------------------------------
(* Events: which members of the task body each event shows *)

EventBase == 16777216

TaskBodyTemplate(id) ==
  LET digest == {"versionDigestInfo"}
      mode == digest \union {"installMode"}
      status == digest \union {"status"}
      progress == mode \union {"status", "progress"}
  IN  CASE id \in EventBase + 1 .. EventBase + 2 -> digest
        [] id = EventBase + 3 -> mode \union status
        [] id \in {EventBase + 4, EventBase + 8} -> mode
        [] id \in {EventBase + 5, EventBase + 7, EventBase + 12} -> progress
        [] id = EventBase + 6 -> progress \union {"errorMessages"}
        [] id = EventBase + 9 -> mode \union {"errorMessages"}
        [] id = EventBase + 10 -> mode \union status \union {"errorMessages"}
        [] id = EventBase + 11 -> mode \union status
        [] id = EventBase + 13 -> status \union {"errorMessages"}
        [] id = EventBase + 14 -> digest
        [] id = EventBase + 15 -> digest \union {"versionComponents"}
        [] id = EventBase + 16 -> digest \union {"versionComponents", "errorMessages"}
        [] id \in EventBase + 17 .. EventBase + 18 -> status \union {"versionComponents"}
        [] id = EventBase + 19 -> status
        [] id = EventBase + 20 -> {"status"}

\* EVENT_TASK_BASE has no template: the event is not shown to anybody.
HasTemplate(id) == id \in EventBase + 1 .. EventBase + 20

BuildEventTaskBody(id, body) ==
  LET all == BuildTaskBody(body).taskBody.v
      shown == TaskBodyTemplate(id) \intersect DOMAIN all
  IN  Js("object", [n \in shown |-> all[n]])

BuildEventInfo(event) ==
  [ok |-> HasTemplate(event.eventId),
   v  |-> Js("object", [eventId |-> SetInt32(event.eventId)]
                         ++ (IF HasTemplate(event.eventId)
                             THEN [taskBody |-> BuildEventTaskBody(event.eventId, event.taskBody)]
                             ELSE NoProperties))]

-----------------------------------------------------------------------------
(* Errors *)

SUCCESS == 0
FAIL == 100
IPC_ERR == 104
APP_NOT_GRANTED == 201
NOT_SYSTEM_APP == 202
PARAM_ERR == 401
UN_SUPPORT == 801
COMPONENT_ERR == 11500000

IsCommonError(r) == r \in {UN_SUPPORT, NOT_SYSTEM_APP, APP_NOT_GRANTED, PARAM_ERR}
ConvertToErrorCode(r) == IF IsCommonError(r) \/ r = SUCCESS THEN r ELSE COMPONENT_ERR + r
IsErrorExist(err) == err.errorNum # SUCCESS

ErrorObject(err) ==
  Js("object", [message |-> SetString(err.message), code |-> SetInt32(ConvertToErrorCode(err.errorNum))]
                 ++ BuildErrorMessages("data", err.data))
BuildBusinessError(err) == IF IsErrorExist(err) THEN ErrorObject(err) ELSE Undefined
BuildThrowError(err) == ErrorObject(err)

-----------------------------------------------------------------------------
(* JavaScript to structures *)

CheckNapiObjectType(arg) == arg.t = "object"

\* Without a sub type in the argument the code reads an uninitialised variable.
ParseBusinessType(arg, info) ==
  LET Normal(n) == IF n = 2 THEN 2 ELSE 1
      business == arg.v.businessType
  IN  IF ~HasNamed(arg, "businessType") THEN {[info EXCEPT !.subType = Normal(@)]}
      ELSE {[info EXCEPT !.vendor = GetString(business, "vendor", @), !.subType = Normal(n)]
              : n \in IF Named(business, "subType", "number") THEN {business.v.subType.v} ELSE {1, 2}}

GetUpgradeInfoFromArg(arg, info) ==
  IF ~CheckNapiObjectType(arg) THEN {[ok |-> FALSE, v |-> info]}
  ELSE {[ok |-> TRUE,
         v  |-> [i EXCEPT !.upgradeApp = GetString(arg, "upgradeApp", @),
                          !.upgradeDevId = GetString(arg, "upgradeDevId", @),
                          !.controlDevId = GetString(arg, "controlDevId", @)]]
          : i \in ParseBusinessType(arg, info)}

\* The elements of the list are read as numbers: a period object leaves its entry as it
\* was.  A property that is not an array fails after the strategies have been written.
GetUpgradePolicyFromArg(arg, policy) ==
  LET list == arg.v.autoUpgradePeriods
      flags == [policy EXCEPT !.downloadStrategy = GetBool(arg, "downloadStrategy", @),
                              !.autoUpgradeStrategy = GetBool(arg, "autoUpgradeStrategy", @)]
      Entry(i) == IF i <= Len(list.v) /\ list.v[i].t = "number"
                  THEN [start |-> list.v[i].v, end |-> list.v[i].v]
                  ELSE policy.autoUpgradePeriods[i]
  IN  IF ~CheckNapiObjectType(arg) THEN [ok |-> FALSE, v |-> policy]
      ELSE IF ~HasNamed(arg, "autoUpgradePeriods") THEN [ok |-> TRUE, v |-> flags]
      ELSE IF list.t # "array" THEN [ok |-> FALSE, v |-> flags]
      ELSE [ok |-> TRUE, v |-> [flags EXCEPT !.autoUpgradePeriods = [i \in 1..2 |-> Entry(i)]]]

\* An enumeration member: refused unless it is one of the listed values.
GetEnum(arg, name, values, options) ==
  LET n == GetInt32(arg, name, 0) IN
  IF n \in values THEN [ok |-> TRUE, v |-> [options EXCEPT ![name] = n]]
  ELSE [ok |-> FALSE, v |-> options]

GetDescriptionFormat(arg, options) == GetEnum(arg, "format", {0, 1}, options)
GetNetType(arg, options) == GetEnum(arg, "allowNetwork", {1, 2, 4, 6, 7}, options)
GetOrder(arg, options) == GetEnum(arg, "order", {1, 2, 3, 4, 6}, options)

GetDescriptionOptions(arg, options) ==
  LET format == GetDescriptionFormat(arg, options) IN
  IF ~format.ok THEN format
  ELSE [ok |-> TRUE, v |-> [format.v EXCEPT !.language = GetString(arg, "language", @)]]

GetDownloadOptions(arg, options) ==
  LET net == GetNetType(arg, options) IN
  IF ~net.ok THEN net ELSE GetOrder(arg, net.v)

GetPauseDownloadOptions(arg, options) ==
  [ok |-> TRUE,
   v  |-> [options EXCEPT !.isAllowAutoResume = GetBool(arg, "isAllowAutoResume", @)]]

GetResumeDownloadOptions(arg, options) == GetNetType(arg, options)

GetUpgradeOptions(arg, options) == GetOrder(arg, options)

GetClearOptions(arg, options) ==
  GetEnum(arg, "status",
          {0} \union 10..12 \union 20..24 \union 30..32 \union 70..72 \union 80..82 \union 90..92,
          options)

GetVersionDigestInfoFromArg(arg, info) ==
  [ok |-> TRUE, v |-> [info EXCEPT !.versionDigest = GetString(arg, "versionDigest", @)]]

GetEventClassifyInfoFromArg(arg, info) ==
  LET classify == GetEnum(arg, "eventClassify", {EventBase}, info) IN
  IF ~CheckNapiObjectType(arg) \/ ~classify.ok THEN [ok |-> FALSE, v |-> info]
  ELSE [ok |-> TRUE, v |-> [classify.v EXCEPT !.extraInfo = GetString(arg, "extraInfo", @)]]

-----------------------------------------------------------------------------
(* Upgrade files of the local updater *)

NotSpace(t, i) == t[i] # " "
TrimString(s) ==
  LET t == Text[s]
      ink == {i \in DOMAIN t : NotSpace(t, i)}
      first == CHOOSE i \in ink : \A j \in ink : i <= j
      last == CHOOSE i \in ink : \A j \in ink : j <= i
  IN  IF ink = {} THEN 0
      ELSE CHOOSE r \in DOMAIN Text : Text[r] = SubSeq(t, first, last)

\* An absolute path whose last suffix, in any case, is one of the package suffixes.
IsValidUpgradeFile(s) ==
  LET t == Text[s]
      dots == {i \in DOMAIN t : t[i] = "."}
      dot == CHOOSE i \in dots : \A j \in dots : j <= i
  IN  /\ t # <<>> /\ t[1] = "/"
      /\ dots # {}
      /\ SubSeq(t, dot + 1, Len(t)) \in {<<x>> : x \in {"bin", "zip", "lz4", "gz", "ZIP"}}

ParseUpgradeFile(arg) ==
  LET path == TrimString(GetString(arg, "filePath", 0)) IN
  [ok |-> /\ CheckNapiObjectType(arg)
          /\ GetInt32(arg, "fileType", 0) = 1
          /\ IsValidUpgradeFile(path),
   v  |-> path]

GetUpgradeFileFromArg(arg) == ParseUpgradeFile(arg)

GetUpgradeFilesFromArg(arg) ==
  IF arg.t = "array" /\ Len(arg.v) > 0
       /\ \A i \in DOMAIN arg.v : ParseUpgradeFile(arg.v[i]).ok
  THEN [ok |-> TRUE, v |-> [i \in DOMAIN arg.v |-> ParseUpgradeFile(arg.v[i]).v]]
  ELSE [ok |-> FALSE, v |-> <<>>]
=============================================================================
