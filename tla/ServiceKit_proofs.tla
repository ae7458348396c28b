------------------------- MODULE ServiceKit_proofs -------------------------
(***************************************************************************)
(* Proofs about ServiceKit, for any number of client threads, infos, calls *)
(* and restarts of the service.                                            *)
(***************************************************************************)
EXTENDS ServiceKit, TLAPS

\* Only the running process is watched and no notice is about it; a thread looks for the
\* service only while none is cached; one that registers the callbacks again has cached its
\* proxy and, if the process still runs, has left out only what it has still to do.
Searching == {"lookup", "load", "poll", "loaded", "link"}
ThreadsAgree ==
  /\ watched \subseteq {service} /\ service \notin obituaries
  /\ \A t \in Threads :
       /\ pc[t] \in Searching => updateService = 0
       /\ pc[t] \in {"link", "again"} => proxy[t] # 0
       /\ pc[t] = "again" =>
            /\ updateService = proxy[t]
            /\ service = proxy[t] => callbacks \subseteq registered \union todo[t]

KitInv == TypeOK /\ NoticeIsForCached /\ CachedIsWatched /\ CallbacksFollowService /\ ThreadsAgree

-----------------------------------------------------------------------------
\* The invariant holds before the first call (Init).
LEMMA KitInit == Init => KitInv
BY KitAssumption
   DEF Init, KitInv, TypeOK, NoticeIsForCached, CachedIsWatched, CallbacksFollowService,
       ThreadsAgree, Searching, Inside

\* A thread that returns from GetService without having cached anything, or with what was
\* cached, preserves the invariant (GetService).
LEMMA ReturnKeepsInv ==
  ASSUME KitInv, NEW t \in Threads, NEW p \in 0..boots, Return(t, p),
         \/ pc[t] = "lock" /\ lock = None
         \/ pc[t] \in Searching
         \/ pc[t] = "again" /\ todo[t] = {},
         UNCHANGED <<service, boots, registered, watched, obituaries, updateService, callbacks, arg,
                     todo, calls>>,
         loading' \in Nat, loadStatus' \in {"WAIT_RESULT", "SUCCESS", "FAIL"}
  PROVE  KitInv'
<1> USE DEF KitInv
<1>1. /\ lock' = None /\ lock \in {t, None}
      /\ pc' = [pc EXCEPT ![t] = IF p = 0 THEN "idle" ELSE "request"]
      /\ proxy' = [proxy EXCEPT ![t] = p]
  BY DEF Return, Goto, TypeOK, Inside, Searching
<1>2. TypeOK'
  BY <1>1, KitAssumption DEF TypeOK, Inside
<1>3. NoticeIsForCached' /\ CachedIsWatched'
  BY DEF NoticeIsForCached, CachedIsWatched
<1>4. CallbacksFollowService'
  BY <1>1 DEF CallbacksFollowService, ThreadsAgree, TypeOK, Searching
<1>5. ThreadsAgree'
  BY <1>1 DEF ThreadsAgree, TypeOK, Searching
<1> QED BY <1>2, <1>3, <1>4, <1>5

\* A thread that goes on inside GetService, having cached nothing, preserves it too.
LEMMA SearchKeepsInv ==
  ASSUME KitInv, NEW t \in Threads, NEW step \in Searching, Goto(t, step),
         \/ pc[t] = "lock" /\ lock = None /\ lock' = t /\ updateService = 0
         \/ pc[t] \in Searching /\ lock' = lock,
         \/ proxy' = proxy /\ step # "link"
         \/ service # 0 /\ proxy' = [proxy EXCEPT ![t] = service],
         UNCHANGED <<service, boots, registered, watched, obituaries, updateService, callbacks, arg,
                     todo, calls>>,
         loading' \in Nat, loadStatus' \in {"WAIT_RESULT", "SUCCESS", "FAIL"}
  PROVE  KitInv'
<1> USE DEF KitInv
<1>1. TypeOK'
  BY KitAssumption DEF Goto, TypeOK, Inside, Searching
<1>2. NoticeIsForCached' /\ CachedIsWatched'
  BY DEF NoticeIsForCached, CachedIsWatched
<1>3. CallbacksFollowService'
  BY KitAssumption DEF CallbacksFollowService, TypeOK, Searching, Inside
<1>4. ThreadsAgree'
  BY DEF Goto, ThreadsAgree, TypeOK, Searching
<1> QED BY <1>1, <1>2, <1>3, <1>4

-----------------------------------------------------------------------------
\* The steps of a call (GetService to RegisterUpdateCallback).
LEMMA CallKeepsInv ==
  ASSUME KitInv, NEW t \in Threads, Step(t)
  PROVE  KitInv'
<1> USE DEF KitInv
<1>t. /\ updateService \in 0..boots /\ service \in 0..boots /\ 0 \in 0..boots /\ loading \in Nat
      /\ loadStatus \in {"WAIT_RESULT", "SUCCESS", "FAIL"} /\ proxy[t] \in 0..boots
  BY KitAssumption DEF TypeOK
<1>1. CASE GetService(t)
  <2>1. CASE updateService # 0
    BY <1>1, <1>t, <2>1, ReturnKeepsInv DEF GetService, At, svc
  <2>2. CASE updateService = 0
    BY <1>1, <1>t, <2>2, SearchKeepsInv DEF GetService, At, svc, Searching
  <2> QED BY <2>1, <2>2
<1>2. CASE GetSystemAbility(t)
  <2>1. CASE /\ service # 0 /\ Goto(t, "link") /\ proxy' = [proxy EXCEPT ![t] = service]
             /\ UNCHANGED lock
    BY <1>2, <1>t, <2>1, SearchKeepsInv DEF GetSystemAbility, At, svc, Searching
  <2>2. CASE At(t, "lookup") /\ Goto(t, "load") /\ UNCHANGED <<lock, proxy>>
    BY <1>2, <1>t, <2>2, SearchKeepsInv DEF GetSystemAbility, At, svc, Searching
  <2>3. CASE At(t, "loaded") /\ Return(t, 0)
    BY <1>2, <1>t, <2>3, ReturnKeepsInv DEF GetSystemAbility, At, svc, Searching
  <2> QED BY <1>2, <2>1, <2>2, <2>3 DEF GetSystemAbility
<1>3. CASE LoadUpdaterSa(t)
  <2>1. CASE loading' = loading + 1 /\ Goto(t, "poll") /\ UNCHANGED <<lock, proxy>>
    BY <1>3, <1>t, <2>1, SearchKeepsInv DEF LoadUpdaterSa, At, svc, Searching
  <2>2. CASE Return(t, 0) /\ UNCHANGED loading
    BY <1>3, <1>t, <2>2, ReturnKeepsInv DEF LoadUpdaterSa, At, svc, Searching
  <2> QED BY <1>3, <2>1, <2>2 DEF LoadUpdaterSa
<1>4. CASE CheckUpdaterSaLoaded(t)
  <2>1. CASE loadStatus = "SUCCESS"
    BY <1>4, <1>t, <2>1, SearchKeepsInv DEF CheckUpdaterSaLoaded, At, svc, Searching
  <2>2. CASE loadStatus # "SUCCESS"
    BY <1>4, <1>t, <2>2, ReturnKeepsInv DEF CheckUpdaterSaLoaded, At, svc, Searching
  <2> QED BY <2>1, <2>2
<1>5. CASE AddDeathRecipient(t)
  <2>1. /\ pc[t] = "link" /\ updateService = 0 /\ proxy[t] # 0 /\ lock = t
        /\ watched = {} /\ obituaries = {}
        /\ \A u \in Threads : u # t => pc[u] \notin Inside
    BY <1>5 DEF AddDeathRecipient, At, ThreadsAgree, NoticeIsForCached, TypeOK, Searching, Inside
  <2>2. TypeOK'
    BY <1>5, <1>t, <2>1, KitAssumption DEF AddDeathRecipient, Goto, TypeOK, Inside
  <2>3. NoticeIsForCached' /\ CachedIsWatched'
    BY <1>5, <2>1 DEF AddDeathRecipient, NoticeIsForCached, CachedIsWatched
  <2>4. CallbacksFollowService'
    BY <1>5, <2>1, KitAssumption DEF AddDeathRecipient, CallbacksFollowService
  <2>5. ThreadsAgree'
    BY <1>5, <2>1 DEF AddDeathRecipient, Goto, ThreadsAgree, TypeOK, Searching, Inside
  <2> QED BY <2>2, <2>3, <2>4, <2>5
<1>6. CASE RegisterAgain(t)
  <2>1. CASE todo[t] = {} /\ Return(t, proxy[t]) /\ UNCHANGED <<registered, todo>>
    BY <1>6, <1>t, <2>1, ReturnKeepsInv DEF RegisterAgain, At
  <2>2. ASSUME NEW info \in todo[t],
               /\ Registered(proxy[t], info)
               /\ todo' = [todo EXCEPT ![t] = @ \ {info}]
               /\ UNCHANGED <<lock, pc, proxy>>
        PROVE  KitInv'
    <3>1. /\ registered \subseteq registered' /\ registered' \subseteq Infos
          /\ service = proxy[t] => info \in registered'
      BY <2>2 DEF Registered, TypeOK
    <3>2. TypeOK'
      BY <1>6, <2>2, <3>1 DEF RegisterAgain, TypeOK
    <3>3. NoticeIsForCached' /\ CachedIsWatched' /\ CallbacksFollowService'
      BY <1>6, <2>2, <3>1
         DEF RegisterAgain, NoticeIsForCached, CachedIsWatched, CallbacksFollowService
    <3>4. ThreadsAgree'
      BY <1>6, <2>2, <3>1 DEF RegisterAgain, ThreadsAgree, TypeOK
    <3> QED BY <3>2, <3>3, <3>4
  <2> QED BY <1>6, <2>1, <2>2 DEF RegisterAgain
<1>7. CASE Request(t)
  <2>1. TypeOK'
    BY <1>7, KitAssumption DEF Request, At, Goto, svc, kit, TypeOK, Inside
  <2>2. NoticeIsForCached' /\ CachedIsWatched' /\ CallbacksFollowService'
    BY <1>7 DEF Request, svc, kit, NoticeIsForCached, CachedIsWatched, CallbacksFollowService
  <2>3. ThreadsAgree'
    BY <1>7 DEF Request, At, Goto, svc, kit, ThreadsAgree, TypeOK, Searching
  <2> QED BY <2>1, <2>2, <2>3
<1>8. CASE RegisterUpdateCallback(t)
  <2>1. /\ arg[t] \in Infos /\ lock = None /\ pc[t] = "request"
        /\ \A u \in Threads : pc[u] \notin Inside
    BY <1>8, KitAssumption DEF RegisterUpdateCallback, At, TypeOK
  <2>2. /\ callbacks' \subseteq Infos /\ registered' \subseteq Infos
        /\ registered \subseteq registered'
        /\ callbacks' = callbacks \/ (callbacks' = callbacks \union {arg[t]} /\ arg[t] \in registered')
    BY <1>8, <2>1 DEF RegisterUpdateCallback, Registered, TypeOK
  <2>3. TypeOK'
    BY <1>8, <2>1, <2>2 DEF RegisterUpdateCallback, Goto, TypeOK, Inside
  <2>4. NoticeIsForCached' /\ CachedIsWatched' /\ CallbacksFollowService'
    BY <1>8, <2>2
       DEF RegisterUpdateCallback, NoticeIsForCached, CachedIsWatched, CallbacksFollowService
  <2>5. ThreadsAgree'
    BY <1>8, <2>1 DEF RegisterUpdateCallback, Goto, ThreadsAgree, TypeOK, Searching, Inside
  <2> QED BY <2>3, <2>4, <2>5
<1> QED BY <1>1, <1>2, <1>3, <1>4, <1>5, <1>6, <1>7, <1>8 DEF Step

\* A service process that is started has the number after the last: no proxy is cached, no
\* thread has one, and no notice is on its way for it (ServiceStarts).
LEMMA StartKeepsInv ==
  ASSUME KitInv, service = 0, boots < MaxBoots, service' = boots + 1, boots' = boots + 1,
         UNCHANGED <<registered, watched, obituaries, updateService, callbacks, lock, th, calls>>,
         loading' \in Nat, loadStatus' \in {"WAIT_RESULT", "SUCCESS", "FAIL"}
  PROVE  KitInv'
<1> USE DEF KitInv
<1>1. /\ boots \in Nat /\ MaxBoots \in Nat /\ 0..boots \subseteq 0..(boots + 1)
      /\ 1..boots \subseteq 1..(boots + 1) /\ watched = {}
      /\ boots + 1 # updateService /\ boots + 1 \notin obituaries
      /\ \A t \in Threads : proxy[t] # boots + 1
  BY KitAssumption DEF TypeOK, ThreadsAgree
<1>2. TypeOK'
  BY <1>1 DEF th, TypeOK, Inside
<1>3. NoticeIsForCached' /\ CachedIsWatched' /\ CallbacksFollowService'
  BY <1>1 DEF NoticeIsForCached, CachedIsWatched, CallbacksFollowService
<1>4. ThreadsAgree'
  BY <1>1 DEF th, ThreadsAgree
<1> QED BY <1>2, <1>3, <1>4

\* Every step of the client, the service manager and the service preserves the invariant (Next).
LEMMA KitStep == KitInv /\ [Next]_vars => KitInv'
<1> SUFFICES ASSUME KitInv, [Next]_vars PROVE KitInv'
  OBVIOUS
<1> USE DEF KitInv
<1>1. ASSUME NEW t \in Threads, NEW info \in Infos \union {None}, BeginCall(t, info)
      PROVE  KitInv'
  <2>1. TypeOK'
    BY <1>1, KitAssumption DEF BeginCall, At, Goto, svc, kit, TypeOK, Inside
  <2>2. NoticeIsForCached' /\ CachedIsWatched' /\ CallbacksFollowService'
    BY <1>1 DEF BeginCall, svc, kit, NoticeIsForCached, CachedIsWatched, CallbacksFollowService
  <2>3. ThreadsAgree'
    BY <1>1 DEF BeginCall, At, Goto, svc, kit, ThreadsAgree, TypeOK, Searching
  <2> QED BY <2>1, <2>2, <2>3
<1>2. ASSUME NEW t \in Threads, Step(t) PROVE KitInv'
  BY <1>2, CallKeepsInv
<1>3. ASSUME NEW info \in Infos, UnregisterUpdateCallback(info) PROVE KitInv'
  <2>1. TypeOK'
    BY <1>3 DEF UnregisterUpdateCallback, svc, th, TypeOK, Inside
  <2>2. NoticeIsForCached' /\ CachedIsWatched' /\ CallbacksFollowService'
    BY <1>3 DEF UnregisterUpdateCallback, svc, NoticeIsForCached, CachedIsWatched,
                CallbacksFollowService
  <2>3. ThreadsAgree'
    BY <1>3 DEF UnregisterUpdateCallback, svc, th, ThreadsAgree
  <2> QED BY <2>1, <2>2, <2>3
<1>4. ASSUME NEW p \in obituaries, ResetService(p) PROVE KitInv'
  <2>1. /\ updateService = p /\ updateService' = 0 /\ watched = {} /\ obituaries' = {}
        /\ \A t \in Threads : pc[t] \notin Inside
    BY <1>4, KitAssumption DEF ResetService, TypeOK, NoticeIsForCached, ThreadsAgree
  <2>2. TypeOK'
    BY <1>4, <2>1, KitAssumption DEF ResetService, th, TypeOK, Inside
  <2>3. NoticeIsForCached' /\ CachedIsWatched' /\ CallbacksFollowService'
    BY <1>4, <2>1 DEF ResetService, NoticeIsForCached, CachedIsWatched, CallbacksFollowService
  <2>4. ThreadsAgree'
    BY <1>4, <2>1 DEF ResetService, th, ThreadsAgree, Searching, Inside
  <2> QED BY <2>2, <2>3, <2>4
<1>5. CASE OnLoadSystemAbility
  <2>1. loading' \in Nat /\ loadStatus' \in {"WAIT_RESULT", "SUCCESS", "FAIL"}
    BY <1>5 DEF OnLoadSystemAbility, TypeOK
  <2>2. CASE /\ service = 0 /\ boots < MaxBoots
             /\ service' = boots + 1 /\ boots' = boots + 1
             /\ UNCHANGED <<registered, watched, obituaries>>
    BY <1>5, <2>1, <2>2, StartKeepsInv DEF OnLoadSystemAbility, kit
  <2>3. CASE UNCHANGED svc
    BY <1>5, <2>1, <2>3
       DEF OnLoadSystemAbility, svc, kit, th, TypeOK, NoticeIsForCached, CachedIsWatched,
           CallbacksFollowService, ThreadsAgree
  <2> QED BY <1>5, <2>2, <2>3 DEF OnLoadSystemAbility
<1>6. CASE ServiceStarts
  BY <1>6, StartKeepsInv DEF ServiceStarts, kit, TypeOK
<1>7. CASE ServiceDies
  <2>1. service # 0 /\ service' = 0 /\ watched' = {} /\ 0 \notin obituaries'
        /\ obituaries' \subseteq {updateService} /\ obituaries' \subseteq 1..boots
    BY <1>7 DEF ServiceDies, TypeOK, ThreadsAgree, NoticeIsForCached
  <2>2. TypeOK'
    BY <1>7, <2>1, KitAssumption DEF ServiceDies, kit, th, TypeOK, Inside
  <2>3. NoticeIsForCached' /\ CachedIsWatched' /\ CallbacksFollowService'
    BY <1>7, <2>1 DEF ServiceDies, kit, NoticeIsForCached, CachedIsWatched, CallbacksFollowService
  <2>4. ThreadsAgree'
    BY <1>7, <2>1 DEF ServiceDies, kit, th, ThreadsAgree
  <2> QED BY <2>2, <2>3, <2>4
<1>8. CASE UNCHANGED vars
  BY <1>8 DEF vars, svc, kit, th, TypeOK, NoticeIsForCached, CachedIsWatched,
              CallbacksFollowService, ThreadsAgree
<1> QED BY <1>1, <1>2, <1>3, <1>4, <1>5, <1>6, <1>7, <1>8 DEF Next

-----------------------------------------------------------------------------
\* The variables keep their types, and the lock excludes: who is inside GetService holds it.
THEOREM KitTypes == Spec => []TypeOK
<1>1. KitInv => TypeOK
  BY DEF KitInv
<1> QED BY KitInit, KitStep, <1>1, PTL DEF Spec

\* With the lock free and the running service cached, every callback of the client is
\* registered there, however often the service was restarted (RegisterAgain,
\* RegisterUpdateCallback).
THEOREM CallbacksAlwaysFollow == Spec => []CallbacksFollowService
<1>1. KitInv => CallbacksFollowService
  BY DEF KitInv
<1> QED BY KitInit, KitStep, <1>1, PTL DEF Spec

\* The running service, once cached, is watched for its death (AddDeathRecipient).
THEOREM CachedAlwaysWatched == Spec => []CachedIsWatched
<1>1. KitInv => CachedIsWatched
  BY DEF KitInv
<1> QED BY KitInit, KitStep, <1>1, PTL DEF Spec

\* No notice of death meets a newer proxy than its own (ResetService).
THEOREM NoticeAlwaysForCached == Spec => []NoticeIsForCached
<1>1. KitInv => NoticeIsForCached
  BY DEF KitInv
<1> QED BY KitInit, KitStep, <1>1, PTL DEF Spec
=============================================================================
