---------------------------- MODULE MCUpdateCall ----------------------------
(* The instance of UpdateCall for TLC. *)
EXTENDS UpdateCall

Obj(f) == Js("object", f)
Num(n) == Js("number", n)
Bool(n) == Js("boolean", n)
Str(n) == Js("string", n)

MCInfo(subType) ==
  Obj([upgradeApp |-> Str(41),
       businessType |-> Obj([vendor |-> Str(42), subType |-> Num(subType)])])
MCCaller(token, uid, granted, subType) ==
  [token |-> token, uid |-> uid, granted |-> granted, info |-> MCInfo(subType)]
MCCallers ==
  {MCCaller("system_hap", 100, {"UPDATE_SYSTEM", "FACTORY_RESET"}, 1),
   MCCaller("system_hap", 100, {"UPDATE_SYSTEM"}, 2),
   MCCaller("system_hap", 100, {"FACTORY_RESET"}, 1),
   MCCaller("native", 3057, {"UPDATE_SYSTEM"}, 1),
   MCCaller("native", 7, {"UPDATE_SYSTEM", "FACTORY_RESET"}, 1),
   MCCaller("other", 0, {"UPDATE_SYSTEM", "FACTORY_RESET"}, 1)}

MCText == 0 :> <<>> @@ 1 :> <<"/", "a", ".", "zip">> @@ 2 :> <<" ", "/", "a", ".", "zip">>
            @@ 3 :> <<"/", "a", ".", "zip", ".", "txt">> @@ 4 :> <<"/", "b", ".", "bin">>
            @@ 9 :> <<"c">> @@ 99 :> <<"l">>
MCLongStrings == {99}

Digest == Obj([versionDigest |-> Str(31)])
File(s) == Obj([fileType |-> Num(1), filePath |-> Str(s)])
Policy(download, upgrade) ==
  Obj([downloadStrategy |-> Bool(download), autoUpgradeStrategy |-> Bool(upgrade),
       autoUpgradePeriods |->
         Js("array", <<Obj([start |-> Num(60), end |-> Num(90)]), Num(5)>>)])
MCCall(m, args) == [m |-> m, args |-> args]
PolicyCalls ==
  <<MCCall("SetUpgradePolicy", <<Policy(0, 1)>>), MCCall("SetUpgradePolicy", <<Policy(1, 0)>>),
    MCCall("SetUpgradePolicy", <<Num(1)>>), MCCall("GetUpgradePolicy", <<>>)>>
PlainCalls ==
  <<"CheckNewVersion", "TerminateUpgrade", "GetNewVersionInfo", "GetCurrentVersionInfo",
    "GetTaskInfo", "Cancel", "FactoryReset", "RegisterUpdateCallback", "UnregisterUpdateCallback">>
OptionCalls ==
  <<MCCall("Download", <<Digest, Obj([allowNetwork |-> Num(1), order |-> Num(2)])>>),
    MCCall("Download", <<Digest, Obj([allowNetwork |-> Num(5), order |-> Num(2)])>>),
    MCCall("PauseDownload", <<Digest, Obj([isAllowAutoResume |-> Bool(1)])>>),
    MCCall("ResumeDownload", <<Digest, Obj([allowNetwork |-> Num(4)])>>),
    MCCall("Upgrade", <<Digest, Obj([order |-> Num(6)])>>),
    MCCall("ClearError", <<Digest, Obj([status |-> Num(81)])>>),
    MCCall("ClearError", <<Digest, Obj([status |-> Num(51)])>>),
    MCCall("GetNewVersionDescription", <<Digest, Obj([format |-> Num(1), language |-> Str(ZH_CN)])>>),
    MCCall("GetCurrentVersionDescription", <<Obj([format |-> Num(1), language |-> Str(56)])>>),
    MCCall("GetCurrentVersionDescription", <<Obj([format |-> Num(0), language |-> Str(99)])>>),
    MCCall("VerifyUpgradePackage", <<File(2), Str(9)>>),
    MCCall("VerifyUpgradePackage", <<File(3), Str(9)>>),
    MCCall("ApplyNewVersion", <<Js("array", <<File(1)>>)>>)>>
MCCalls ==
  PolicyCalls \o OptionCalls \o [i \in DOMAIN PlainCalls |-> MCCall(PlainCalls[i], <<>>)]

MCTask(exist, id, status, progress) ==
  [exist |-> exist, taskId |-> id, status |-> status, progress |-> progress]
MCComponent(id, type, size) ==
  [componentId |-> id, blVersionType |-> type, size |-> size, innerVersion |-> id + 100,
   displayVersion |-> id + 200]
MCChangelog(id) == [type |-> 1, chinese |-> id + 300, english |-> id + 400]
MCWorld(task, components, logs, currentId, slots) ==
  [task |-> task, components |-> components, changelogs |-> [i \in logs |-> MCChangelog(i)],
   currentId |-> currentId, slots |-> slots]
MCWorlds ==
  {MCWorld(MCTask(0, 0, 0, 0), <<>>, {}, 0, 1),
   MCWorld(MCTask(1, 31, 12, 0), <<MCComponent(11, 1, 5), MCComponent(12, 100, 7)>>, {11, 12, 15}, 15, 2),
   MCWorld(MCTask(1, 31, 20, 40), <<MCComponent(11, 1, 5), MCComponent(12, 0, 7)>>, {11}, 15, 1)}

MCManagerErrors == {NoError, [message |-> 8, errorNum |-> FAIL, data |-> <<>>]}
MCTransportErrors == {1999, 29189}

MCErrors == <<[errorCode |-> 3, errorMessage |-> 4], [errorCode |-> 5, errorMessage |-> 6]>>
MCVersions ==
  <<[EmptyComponent EXCEPT !.componentId = 11, !.componentType = 1, !.innerVersion = 111, !.size = 5],
    [EmptyComponent EXCEPT !.componentId = 12, !.componentType = 2, !.innerVersion = 112, !.size = 7]>>
MCBody == [versionDigest |-> 31, status |-> 81, subStatus |-> 2, progress |-> 50, installMode |-> 1,
           errorMessages |-> MCErrors, versionComponents |-> MCVersions]
MCPushed ==
  {[kind |-> "event", event |-> [eventId |-> EventBase + i, taskBody |-> MCBody]] : i \in 0..20}
  \union
  {[kind |-> "check", err |-> [message |-> 8, errorNum |-> n, data |-> MCErrors],
    result |-> [isExistNewVersion |-> e,
                newVersionInfo |-> [versionDigest |-> 31, versionComponents |-> MCVersions]]]
     : n \in {SUCCESS, FAIL}, e \in {0, 1}}
  \union
  {[kind |-> "check", err |-> [message |-> 8, errorNum |-> n, data |-> <<>>],
    result |-> [isExistNewVersion |-> 1,
                newVersionInfo |-> [versionDigest |-> 31, versionComponents |-> <<>>]]]
     : n \in {SUCCESS, FAIL}}

\* The instance is one the theorems speak of.
ASSUME InstanceAssumption ==
  /\ TransportIsNoResult /\ ArgumentsAsDeclared /\ CallersAsDeclared /\ PushedAsDeclared
  /\ WorldsAsDeclared /\ LanguagesAsDeclared /\ StrategiesAsDeclared
=============================================================================
