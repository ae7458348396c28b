----------------------------- MODULE ServiceKit -----------------------------
(***************************************************************************)
(* The kit inside a client process: the cached proxy of the update         *)
(* service, its loading on demand, the notices of its death and the        *)
(* callbacks that are registered again with every new service process.     *)
(*                                                                         *)
(* update_service_kits_impl.cpp  GetService, ResetService, the methods     *)
(* update_service_ondemand.cpp   loading through the service manager       *)
(*                                                                         *)
(* The threads of the client share updateServiceLock_, which GetService    *)
(* holds while it waits for the service to be loaded and while it          *)
(* registers the callbacks.  The service process dies and is started at    *)
(* any time; its processes are numbered.                                   *)
(***************************************************************************)
EXTENDS Naturals, FiniteSets

CONSTANTS
  Threads,     \* threads of the client
  Infos,       \* upgrade infos it registers callbacks for
  None,        \* no thread, no info
  MaxBoots,    \* bound on the service processes ever started
  MaxCalls     \* bound on the calls

ASSUME KitAssumption ==
  /\ None \notin Threads /\ None \notin Infos
  /\ MaxBoots \in Nat /\ MaxCalls \in Nat

VARIABLES
  service,        \* number of the running service process, 0 if there is none
  boots,          \* number of service processes so far
  registered,     \* infos with a callback of this client in the running service
  updateService,  \* number of the process behind the cached proxy, 0 if there is none
  watched,        \* service processes with a death recipient of this client
  obituaries,     \* notices of their death on their way
  callbacks,      \* remoteUpdateCallbackMap_
  lock,           \* holder of updateServiceLock_
  loading,        \* answers of the service manager to load requests still to come
  loadStatus,     \* loadUpdaterSaStatus_
  pc,             \* where a thread of the client is
  arg,            \* the info it registers a callback for
  proxy,          \* the process behind the proxy it has got
  todo,           \* the callbacks it has still to register again
  calls           \* number of calls

svc == <<service, boots, registered, watched, obituaries>>
kit == <<updateService, callbacks, lock>>
th == <<pc, arg, proxy, todo>>
vars == <<svc, kit, loading, loadStatus, th, calls>>

-----------------------------------------------------------------------------
Init ==
  /\ service = 0 /\ boots = 0 /\ registered = {} /\ watched = {} /\ obituaries = {}
  /\ updateService = 0 /\ callbacks = {} /\ lock = None
  /\ loading = 0 /\ loadStatus = "WAIT_RESULT"
  /\ pc = [t \in Threads |-> "idle"] /\ arg = [t \in Threads |-> None]
  /\ proxy = [t \in Threads |-> 0] /\ todo = [t \in Threads |-> {}] /\ calls = 0

At(t, step) == pc[t] = step
Goto(t, step) == pc' = [pc EXCEPT ![t] = step]

\* A method calls GetService.  With an info it is RegisterUpdateCallback.
BeginCall(t, info) ==
  /\ At(t, "idle") /\ calls < MaxCalls
  /\ calls' = calls + 1
  /\ Goto(t, "lock") /\ arg' = [arg EXCEPT ![t] = info]
  /\ UNCHANGED <<svc, kit, loading, loadStatus, proxy, todo>>

\* Where GetService returns its proxy p, the lock is released.  Without one the method
\* answers INT_CALL_IPC_ERR.
Return(t, p) ==
  /\ lock' = None
  /\ Goto(t, IF p = 0 THEN "idle" ELSE "request")
  /\ proxy' = [proxy EXCEPT ![t] = p]

\* GetService: a cached proxy is returned.
GetService(t) ==
  /\ At(t, "lock") /\ lock = None
  /\ IF updateService # 0 THEN Return(t, updateService)
     ELSE lock' = t /\ Goto(t, "lookup") /\ UNCHANGED proxy
  /\ UNCHANGED <<svc, updateService, callbacks, loading, loadStatus, arg, todo, calls>>

\* GetSystemAbility finds the running service or, the first time, loads it.
GetSystemAbility(t) ==
  /\ At(t, "lookup") \/ At(t, "loaded")
  /\ \/ /\ service # 0
        /\ Goto(t, "link") /\ proxy' = [proxy EXCEPT ![t] = service]
        /\ UNCHANGED lock
     \/ service = 0 /\ At(t, "lookup") /\ Goto(t, "load") /\ UNCHANGED <<lock, proxy>>
     \/ service = 0 /\ At(t, "loaded") /\ Return(t, 0)
  /\ UNCHANGED <<svc, updateService, callbacks, loading, loadStatus, arg, todo, calls>>

-----------------------------------------------------------------------------
(* update_service_ondemand.cpp *)

\* TryLoadUpdaterSa: the status is reset and the load requested, which may fail at once.
LoadUpdaterSa(t) ==
  /\ At(t, "load")
  /\ loadStatus' = "WAIT_RESULT"
  /\ \/ loading' = loading + 1 /\ Goto(t, "poll") /\ UNCHANGED <<lock, proxy>>
     \/ Return(t, 0) /\ UNCHANGED loading
  /\ UNCHANGED <<svc, updateService, callbacks, arg, todo, calls>>

\* Fault: the wait for the service manager has no end.
CheckUpdaterSaLoadedForever(t) ==
  /\ At(t, "poll") /\ loadStatus # "WAIT_RESULT"
  /\ IF loadStatus = "SUCCESS" THEN Goto(t, "loaded") /\ UNCHANGED <<lock, proxy>> ELSE Return(t, 0)
  /\ UNCHANGED <<svc, updateService, callbacks, loading, loadStatus, arg, todo, calls>>
\* A hundred looks at the status, then the kit gives up.  The answer may still come, and
\* is then taken for the answer to a later request.
CheckUpdaterSaLoaded(t) ==
  /\ At(t, "poll")
  /\ IF loadStatus = "SUCCESS" THEN Goto(t, "loaded") /\ UNCHANGED <<lock, proxy>> ELSE Return(t, 0)
  /\ UNCHANGED <<svc, updateService, callbacks, loading, loadStatus, arg, todo, calls>>

\* OnLoadSystemAbilitySuccess, OnLoadSystemAbilityFail: the service manager answers.
OnLoadSystemAbility ==
  /\ loading > 0 /\ loading' = loading - 1
  /\ \/ service # 0 /\ loadStatus' = "SUCCESS" /\ UNCHANGED svc
     \/ /\ service = 0 /\ boots < MaxBoots /\ loadStatus' = "SUCCESS"
        /\ service' = boots + 1 /\ boots' = boots + 1
        /\ UNCHANGED <<registered, watched, obituaries>>
     \/ loadStatus' = "FAIL" /\ UNCHANGED svc
  /\ UNCHANGED <<kit, th, calls>>

-----------------------------------------------------------------------------
(* The rest of GetService *)

\* The proxy is watched, unless its process is dead already, and cached either way.
AddDeathRecipient(t) ==
  /\ At(t, "link")
  /\ watched' = IF service = proxy[t] THEN watched \union {service} ELSE watched
  /\ updateService' = proxy[t]
  /\ Goto(t, "again") /\ todo' = [todo EXCEPT ![t] = callbacks]
  /\ UNCHANGED <<service, boots, registered, obituaries, callbacks, lock, loading, loadStatus,
                 arg, proxy, calls>>

\* The service at the other end registers the callback, if it is still there.
Registered(p, info) == registered' = IF service = p THEN registered \union {info} ELSE registered

\* Fault: the callbacks are not registered again.
RegisterAgainSkipped(t) ==
  /\ At(t, "again") /\ Return(t, proxy[t])
  /\ UNCHANGED <<svc, updateService, callbacks, loading, loadStatus, arg, todo, calls>>
\* Every callback of the client is registered again; the results are not looked at.
RegisterAgain(t) ==
  /\ At(t, "again")
  /\ \/ /\ todo[t] = {} /\ Return(t, proxy[t]) /\ UNCHANGED <<registered, todo>>
     \/ \E info \in todo[t] :
          /\ Registered(proxy[t], info)
          /\ todo' = [todo EXCEPT ![t] = @ \ {info}]
          /\ UNCHANGED <<lock, pc, proxy>>
  /\ UNCHANGED <<service, boots, watched, obituaries, updateService, callbacks, loading, loadStatus,
                 arg, calls>>

\* The request itself; a dead service fails it with INT_CALL_IPC_ERR.
Request(t) ==
  /\ At(t, "request") /\ arg[t] = None
  /\ Goto(t, "idle")
  /\ UNCHANGED <<svc, kit, loading, loadStatus, arg, proxy, todo, calls>>

\* RegisterUpdateCallback takes the lock again, asks the service whose proxy it got before,
\* and remembers the callback if that went well.
RegisterUpdateCallback(t) ==
  /\ At(t, "request") /\ arg[t] # None /\ lock = None
  /\ Registered(proxy[t], arg[t])
  /\ callbacks' = IF service = proxy[t] THEN callbacks \union {arg[t]} ELSE callbacks
  /\ Goto(t, "idle")
  /\ UNCHANGED <<service, boots, watched, obituaries, updateService, lock, loading, loadStatus,
                 arg, proxy, todo, calls>>

\* UnregisterUpdateCallback forgets the callback; the service keeps it.
UnregisterUpdateCallback(info) ==
  /\ lock = None /\ info \in callbacks
  /\ callbacks' = callbacks \ {info}
  /\ UNCHANGED <<svc, updateService, lock, loading, loadStatus, th, calls>>

\* Fault: the notice is only logged.
ResetServiceLogged(p) ==
  /\ p \in obituaries /\ lock = None
  /\ obituaries' = obituaries \ {p}
  /\ UNCHANGED <<service, boots, registered, watched, kit, loading, loadStatus, th, calls>>
\* ResetService: the notice of a process that is not the cached one changes nothing.
ResetService(p) ==
  /\ p \in obituaries /\ lock = None
  /\ obituaries' = obituaries \ {p}
  /\ updateService' = IF updateService = p THEN 0 ELSE updateService
  /\ UNCHANGED <<service, boots, registered, watched, callbacks, lock, loading, loadStatus, th, calls>>

-----------------------------------------------------------------------------
(* The service manager *)

\* The service is started for another client, or by its timer.
ServiceStarts ==
  /\ service = 0 /\ boots < MaxBoots
  /\ service' = boots + 1 /\ boots' = boots + 1
  /\ UNCHANGED <<registered, watched, obituaries, kit, loading, loadStatus, th, calls>>

\* It crashes or leaves because it is idle.
ServiceDies ==
  /\ service # 0 /\ service' = 0 /\ registered' = {}
  /\ watched' = watched \ {service}
  /\ obituaries' = IF service \in watched THEN obituaries \union {service} ELSE obituaries
  /\ UNCHANGED <<boots, kit, loading, loadStatus, th, calls>>

Step(t) ==
  \/ GetService(t) \/ GetSystemAbility(t) \/ LoadUpdaterSa(t) \/ CheckUpdaterSaLoaded(t)
  \/ AddDeathRecipient(t) \/ RegisterAgain(t) \/ Request(t) \/ RegisterUpdateCallback(t)

Next ==
  \/ \E t \in Threads, info \in Infos \union {None} : BeginCall(t, info)
  \/ \E t \in Threads : Step(t)
  \/ \E info \in Infos : UnregisterUpdateCallback(info)
  \/ \E p \in obituaries : ResetService(p)
  \/ OnLoadSystemAbility \/ ServiceStarts \/ ServiceDies

Spec == Init /\ [][Next]_vars

\* Threads run on and notices of death are delivered.  Nothing makes the service manager
\* answer a load request, or the client call.
FairSpec ==
  /\ Spec
  /\ \A t \in Threads : WF_vars(Step(t))
  /\ \A p \in 1..MaxBoots : WF_vars(ResetService(p))

-----------------------------------------------------------------------------
(* Properties *)

Inside == {"lookup", "load", "poll", "loaded", "link", "again"}

\* Type correctness, and the lock: its holder, and nobody else, is inside GetService.
TypeOK ==
  /\ service \in 0..boots /\ boots \in 0..MaxBoots /\ updateService \in 0..boots
  /\ registered \subseteq Infos /\ callbacks \subseteq Infos
  /\ watched \subseteq 1..boots /\ obituaries \subseteq 1..boots
  /\ loadStatus \in {"WAIT_RESULT", "SUCCESS", "FAIL"} /\ loading \in Nat /\ calls \in 0..MaxCalls
  /\ pc \in [Threads -> {"idle", "lock", "request"} \union Inside]
  /\ arg \in [Threads -> Infos \union {None}]
  /\ proxy \in [Threads -> 0..boots] /\ todo \in [Threads -> SUBSET Infos]
  /\ lock \in Threads \union {None}
  /\ \A t \in Threads : pc[t] \in Inside <=> lock = t

\* While the lock is free and the cached proxy is that of the running service, every
\* callback the client has is registered there: neither a restart of the service nor a race
\* of threads with its death leaves one behind (GetService, RegisterUpdateCallback).
CallbacksFollowService ==
  lock = None /\ updateService = service /\ service # 0 => callbacks \subseteq registered

\* The proxy of the running service, once cached, is watched, so that its death resets it.
CachedIsWatched == updateService = service /\ service # 0 => service \in watched

\* Every process the kit watches, or whose notice of death is on its way, is the one behind
\* the cached proxy: no proxy is
\* replaced before it has been reset, and no late notice meets a newer one.
NoticeIsForCached == watched \union obituaries \subseteq {updateService}

\* A cached proxy whose process died under watch is dropped (OnRemoteDied).
DeadProxyIsDropped ==
  \A p \in 1..MaxBoots : (p \in obituaries /\ updateService = p) ~> updateService # p

\* Every call comes back, even when the service manager does not answer and other threads
\* compete for the lock (CheckUpdaterSaLoaded).
CallsReturn == \A t \in Threads : ~At(t, "idle") ~> At(t, "idle")
=============================================================================
