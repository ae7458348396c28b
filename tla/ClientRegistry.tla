--------------------------- MODULE ClientRegistry ---------------------------
(***************************************************************************)
(* The clients of the update service: who is registered, who watches for   *)
(* their death, where answers and events go, and when the service may      *)
(* leave because nobody needs it.                                          *)
(*                                                                         *)
(* update_service.cpp        clientProxyMap_, death recipients             *)
(* update_service_cache.cpp  the upgrade info of the last registration     *)
(* base_callback_utils.cpp   events to the callback or to the application  *)
(* access_manager.cpp        isRemoteIdle_                                 *)
(* startup_manager.cpp, schedule_manager.cpp  start, idle loop, exit       *)
(*                                                                         *)
(* A registration is served by an IPC thread in several steps, of which    *)
(* only two hold clientProxyMapLock_.  Other registrations, notices of     *)
(* death and the idle loop run in between.  A client is one callback       *)
(* object: an application that is started again is another client with     *)
(* the same upgrade info.                                                  *)
(***************************************************************************)
EXTENDS Naturals, FiniteSets

CONSTANTS
  Clients,      \* callback objects of applications
  Infos,        \* upgrade infos
  InfoOf,       \* InfoOf[c]: the upgrade info that client c registers with
  LocalInfos,   \* the upgrade infos of local updaters
  NoInfo,       \* the empty upgrade info
  NoClient,     \* no entry
  MaxThreads,   \* bound: registrations served at the same time, the IPC threads of the service
  MaxStrays     \* bound: recipients of one client left over by registrations without effect

ASSUME RegistryAssumption ==
  /\ InfoOf \in [Clients -> Infos]
  /\ NoClient \notin Clients /\ NoInfo \notin Infos
  /\ MaxThreads \in Nat /\ MaxStrays \in Nat

VARIABLES
  stage,          \* "off", "up", or "leaving": idle, and about to unload
  alive,          \* clients whose process lives
  clientProxyMap, \* UpdateService::clientProxyMap_
  recipients,     \* clients watched by the death recipient of their entry
  strays,         \* for each client its death recipients that belong to no entry
  obituaries,     \* notices of death to the recipients of entries, on their way
  thread,         \* the IPC thread that serves the registration of each client
  upgradeInfo,    \* UpdateServiceCache::upgradeInfo_
  isRemoteIdle,   \* AccessManager::isRemoteIdle_
  checks,         \* clients that wait for the answer to a check
  returned,       \* history: living clients whose last registration returned success
  fate,           \* history: what came over each client since it called to register
  raced           \* history: when the last entry was removed, a registration was on its
                  \* way from its insertion to the idle flag

registry == <<clientProxyMap, recipients, strays>>
history == <<fate, raced>>
vars == <<stage, alive, registry, obituaries, thread, upgradeInfo, isRemoteIdle, checks,
          returned, history>>

-----------------------------------------------------------------------------
Init ==
  /\ stage = "off" /\ alive = Clients
  /\ clientProxyMap = [i \in Infos |-> NoClient] /\ recipients = {}
  /\ strays = [c \in Clients |-> 0]
  /\ obituaries = {} /\ thread = [c \in Clients |-> "none"]
  /\ upgradeInfo = NoInfo /\ isRemoteIdle = TRUE
  /\ checks = {} /\ returned = {}
  /\ fate = [c \in Clients |-> "kept"] /\ raced = FALSE

Empty == \A i \in Infos : clientProxyMap[i] = NoClient

\* OnStart: a new process with nothing registered.  What starts it is the service manager:
\* a client asks for it, or the timer that the last exit has set.
OnStart ==
  /\ stage = "off" /\ stage' = "up"
  /\ UNCHANGED <<alive, registry, obituaries, thread, upgradeInfo, isRemoteIdle, checks, returned, history>>

\* The process is gone, and with it its memory, threads and death recipients.
Gone ==
  /\ stage' = "off"
  /\ clientProxyMap' = [i \in Infos |-> NoClient] /\ recipients' = {}
  /\ strays' = [c \in Clients |-> 0]
  /\ obituaries' = {} /\ thread' = [c \in Clients |-> "none"]
  /\ upgradeInfo' = NoInfo /\ isRemoteIdle' = TRUE
  /\ checks' = {} /\ returned' = {}
  /\ fate' = [c \in Clients |-> "kept"] /\ raced' = FALSE
  /\ UNCHANGED alive

-----------------------------------------------------------------------------
(* update_service.cpp *)

RemoveDeathRecipient(c) == recipients' = recipients \ {c}

\* What a registration does after its insertion, outside the lock.
Serving == {"cache", "count", "idle", "busy"}
Races == raced' = \E c \in Clients : thread[c] \in Serving

\* Fault: the table is cleared instead of one entry erased.
UnregisterUpdateCallbackAll(info) ==
  /\ clientProxyMap' = [i \in Infos |-> NoClient]
  /\ recipients' = recipients \ {clientProxyMap[i] : i \in Infos}
  /\ isRemoteIdle' = TRUE /\ Races
\* Under the lock: an entry loses its death recipient and goes.  Without an entry nothing
\* happens, not even to the idle flag.
UnregisterUpdateCallback(info) ==
  IF clientProxyMap[info] = NoClient THEN UNCHANGED <<clientProxyMap, recipients, isRemoteIdle, raced>>
  ELSE /\ RemoveDeathRecipient(clientProxyMap[info])
       /\ clientProxyMap' = [clientProxyMap EXCEPT ![info] = NoClient]
       /\ isRemoteIdle' = \A i \in Infos \ {info} : clientProxyMap[i] = NoClient
       /\ Races

\* History: client c acts on the entry of its info, and on the living with an equal one.
Overtaken(c, d) ==
  d # c /\ InfoOf[d] = InfoOf[c] /\ d \in alive /\ (d \in returned \/ thread[d] # "none")
Overtake(c) == fate' = [d \in Clients |-> IF Overtaken(c, d) THEN "overtaken" ELSE fate[d]]

At(c, pc) == stage # "off" /\ thread[c] = pc
Goto(c, pc) == thread' = [thread EXCEPT ![c] = pc]

\* RegisterUpdateCallback arrives, from a client that may be registered already ...
RegisterUpdateCallback(c) ==
  /\ At(c, "none") /\ c \in alive /\ strays[c] < MaxStrays
  /\ Cardinality({d \in Clients : thread[d] # "none"}) < MaxThreads
  /\ Goto(c, "unregister")
  /\ returned' = returned \ {c} /\ fate' = [fate EXCEPT ![c] = "kept"]
  /\ UNCHANGED <<stage, alive, registry, obituaries, upgradeInfo, isRemoteIdle, checks, raced>>

\* ... the entry of the same upgrade info is removed ...
UnregisterOld(c) ==
  /\ At(c, "unregister") /\ Goto(c, "insert")
  /\ UnregisterUpdateCallback(InfoOf[c]) /\ Overtake(c)
  /\ UNCHANGED <<stage, alive, strays, obituaries, upgradeInfo, checks, returned>>

\* The kernel refuses a recipient for a dead process; the service does not notice.
AddDeathRecipient(c) == recipients' = IF c \in alive THEN recipients \union {c} ELSE recipients
StrayRecipient(c) == strays' = IF c \in alive THEN [strays EXCEPT ![c] = @ + 1] ELSE strays

\* Fault: the death recipient is not added.
InsertUnwatched(c) ==
  /\ At(c, "insert") /\ Goto(c, "cache")
  /\ clientProxyMap' = [clientProxyMap EXCEPT ![InfoOf[c]] = IF @ = NoClient THEN c ELSE @]
  /\ Overtake(c)
  /\ UNCHANGED <<stage, alive, recipients, strays, obituaries, upgradeInfo, isRemoteIdle, checks, returned, raced>>
\* ... the new one is watched and inserted.  Where another registration has put an entry
\* in the meantime, map::insert leaves it: the client is watched and not registered ...
Insert(c) ==
  /\ At(c, "insert") /\ Goto(c, "cache")
  /\ \/ /\ clientProxyMap[InfoOf[c]] = NoClient
        /\ clientProxyMap' = [clientProxyMap EXCEPT ![InfoOf[c]] = c]
        /\ AddDeathRecipient(c)
        /\ fate' = [d \in Clients |-> IF d = c THEN IF c \in alive THEN fate[c] ELSE "dead"
                                      ELSE IF Overtaken(c, d) THEN "overtaken" ELSE fate[d]]
        /\ UNCHANGED strays
     \/ /\ clientProxyMap[InfoOf[c]] # NoClient
        /\ StrayRecipient(c)
        /\ UNCHANGED <<clientProxyMap, recipients, fate>>
  /\ UNCHANGED <<stage, alive, obituaries, upgradeInfo, isRemoteIdle, checks, returned, raced>>

\* ... its info is remembered, unless it is that of a local updater ...
SetUpgradeInfo(c) ==
  /\ At(c, "cache") /\ Goto(c, "count")
  /\ upgradeInfo' = IF InfoOf[c] \in LocalInfos THEN upgradeInfo ELSE InfoOf[c]
  /\ UNCHANGED <<stage, alive, registry, obituaries, isRemoteIdle, checks, returned, history>>

\* ... the table is looked at without the lock ...
CountClients(c) ==
  /\ At(c, "count") /\ Goto(c, IF Empty THEN "idle" ELSE "busy")
  /\ UNCHANGED <<stage, alive, registry, obituaries, upgradeInfo, isRemoteIdle, checks, returned, history>>

\* Fault: the flag is not touched.
SetRemoteIdleForgotten(c) ==
  /\ stage # "off" /\ thread[c] \in {"idle", "busy"} /\ Goto(c, "none")
  /\ returned' = returned \union ({c} \intersect alive)
  /\ UNCHANGED <<stage, alive, registry, obituaries, upgradeInfo, isRemoteIdle, checks, history>>
\* ... and the flag set to what was seen.
SetRemoteIdle(c) ==
  /\ stage # "off" /\ thread[c] \in {"idle", "busy"} /\ Goto(c, "none")
  /\ isRemoteIdle' = (thread[c] = "idle")
  /\ returned' = returned \union ({c} \intersect alive)
  /\ UNCHANGED <<stage, alive, registry, obituaries, upgradeInfo, checks, history>>

\* A client may ask for its removal, registered or not.
UnregisterByClient(c) ==
  /\ At(c, "none") /\ c \in alive
  /\ UnregisterUpdateCallback(InfoOf[c]) /\ Overtake(c)
  /\ returned' = returned \ {c}
  /\ UNCHANGED <<stage, alive, strays, obituaries, thread, upgradeInfo, checks>>

\* A client process dies at any time; the kernel sends each recipient its notice, once.
ClientDies(c) ==
  /\ c \in alive /\ alive' = alive \ {c}
  /\ recipients' = recipients \ {c} /\ returned' = returned \ {c}
  /\ obituaries' = IF c \in recipients THEN obituaries \union {c} ELSE obituaries
  /\ fate' = [fate EXCEPT ![c] = "kept"]
  /\ UNCHANGED <<stage, clientProxyMap, strays, thread, upgradeInfo, isRemoteIdle, checks, raced>>

\* A notice of the death of c reaches the recipient of its entry, or one that belongs to none.
NoticeArrives(c) ==
  \/ /\ c \in obituaries /\ obituaries' = obituaries \ {c}
     /\ UNCHANGED strays
  \/ /\ c \notin alive /\ strays[c] > 0 /\ strays' = [strays EXCEPT ![c] = @ - 1]
     /\ UNCHANGED obituaries

\* Fault: the notice is only logged.
OnRemoteDiedLogged(c) ==
  /\ stage # "off" /\ NoticeArrives(c)
  /\ UNCHANGED <<stage, alive, clientProxyMap, recipients, thread, upgradeInfo, isRemoteIdle, checks, returned, history>>
\* The recipient knows the upgrade info, not the client.
OnRemoteDied(c) ==
  /\ stage # "off" /\ NoticeArrives(c)
  /\ UnregisterUpdateCallback(InfoOf[c]) /\ Overtake(c)
  /\ UNCHANGED <<stage, alive, thread, upgradeInfo, checks, returned>>

-----------------------------------------------------------------------------
(* Answers and events *)

GetUpgradeCallback(info) == IF info = NoInfo THEN NoClient ELSE clientProxyMap[info]

CheckNewVersion(c) ==
  /\ stage # "off" /\ c \in alive /\ InfoOf[c] \notin LocalInfos
  /\ c \in returned /\ checks = {}
  /\ checks' = {c}
  /\ UNCHANGED <<stage, alive, registry, obituaries, thread, upgradeInfo, isRemoteIdle, returned, history>>

\* Whom the service addresses: the callback of the info registered last, if there is one.
Addressee == GetUpgradeCallback(upgradeInfo)

\* SearchCallback: the answer to a check goes to the addressee, whoever asked.
SearchCallback(c) ==
  /\ c \in checks /\ checks' = checks \ {c}
  /\ UNCHANGED <<stage, alive, registry, obituaries, thread, upgradeInfo, isRemoteIdle, returned, history>>

\* CallbackToHap: what becomes of an event sent now.  The addressee hears it, or the proxy of
\* a dead one takes it and nobody learns; without an addressee NotifyToAppService starts the
\* update application with it, if the ability manager does.
CallbackToHap ==
  CASE Addressee = NoClient -> {"started", "failed"}
    [] Addressee \in alive  -> {"heard"}
    [] OTHER                -> {"swallowed"}

-----------------------------------------------------------------------------
(* The idle loop *)

\* AccessManager::IsIdle: no client and a firmware manager at rest.
IsIdle == isRemoteIdle /\ checks = {}

IdleCheck ==
  /\ stage = "up" /\ IsIdle /\ stage' = "leaving"
  /\ UNCHANGED <<alive, registry, obituaries, thread, upgradeInfo, isRemoteIdle, checks, returned, history>>

\* PreExit sets the timer for the next start; without a timer the service stays.
PreExitFails ==
  /\ stage = "leaving" /\ stage' = "up"
  /\ UNCHANGED <<alive, registry, obituaries, thread, upgradeInfo, isRemoteIdle, checks, returned, history>>

\* UnloadSystemAbility ends the process, whoever has registered since the check.
SAExit == stage = "leaving" /\ Gone

ServiceDies == stage # "off" /\ Gone

Serve(c) == UnregisterOld(c) \/ Insert(c) \/ SetUpgradeInfo(c) \/ CountClients(c) \/ SetRemoteIdle(c)

Next ==
  \/ OnStart
  \/ \E c \in Clients : RegisterUpdateCallback(c) \/ Serve(c) \/ UnregisterByClient(c)
  \/ \E c \in Clients : ClientDies(c) \/ OnRemoteDied(c)
  \/ \E c \in Clients : CheckNewVersion(c) \/ SearchCallback(c)
  \/ IdleCheck \/ PreExitFails \/ SAExit \/ ServiceDies

Spec == Init /\ [][Next]_vars

\* Notices of death are delivered.
FairSpec == Spec /\ \A c \in Clients : WF_vars(OnRemoteDied(c))

-----------------------------------------------------------------------------
(* Properties *)

\* Type correctness.  A service that is off keeps nothing.
TypeOK ==
  /\ stage \in {"off", "up", "leaving"}
  /\ alive \subseteq Clients
  /\ clientProxyMap \in [Infos -> Clients \union {NoClient}]
  /\ recipients \subseteq Clients /\ obituaries \subseteq Clients
  /\ strays \in [Clients -> Nat]
  /\ thread \in [Clients -> {"none", "unregister", "insert"} \union Serving]
  /\ upgradeInfo \in Infos \union {NoInfo}
  /\ isRemoteIdle \in BOOLEAN
  /\ checks \subseteq Clients /\ returned \subseteq Clients
  /\ fate \in [Clients -> {"kept", "overtaken", "dead"}] /\ raced \in BOOLEAN
  /\ stage = "off" => Empty /\ recipients = {} /\ obituaries = {}

\* A registered client is registered under its own info and, while it lives, watched: its
\* death will be noticed, whatever registrations and removals of others interleave with its
\* own (RegisterUpdateCallback, UnregisterUpdateCallback).
RegisteredIsWatched ==
  \A i \in Infos : clientProxyMap[i] # NoClient =>
    /\ InfoOf[clientProxyMap[i]] = i
    /\ clientProxyMap[i] \in alive => clientProxyMap[i] \in recipients

\* A client stays registered from the return of its registration on, unless another client
\* with an equal info has registered, left or died since it called: nothing else takes its
\* entry, and no registration returns success without one (UnregisterUpdateCallback, Insert).
RegistrationLasts ==
  \A c \in returned \intersect alive :
    stage # "off" /\ fate[c] = "kept" => clientProxyMap[InfoOf[c]] = c

\* A client that died under watch is forgotten, so that its dead callback neither swallows
\* events nor keeps the service from leaving (OnRemoteDied).
DeadAreForgotten ==
  \A c \in Clients :
    (c \in obituaries /\ clientProxyMap[InfoOf[c]] = c) ~> clientProxyMap[InfoOf[c]] # c

\* When no registration is on its way to the idle flag, the flag tells whether a client is
\* registered: the service neither leaves under a client nor stays without one.  The table is
\* looked at without the lock and the flag written later, and only a removal between the
\* insertion and that write can make it wrong, until the next removal puts it right
\* (CountClients, SetRemoteIdle).
IdleFlagIsTrue ==
  (\A c \in Clients : thread[c] \notin Serving) /\ ~raced => (isRemoteIdle <=> Empty)

\* What the service sends reaches who can use it: it is addressed to an application, whatever
\* local updaters have registered since (SearchCallback, IsLocal), and an event is swallowed
\* by a dead callback only in the moment between the death of the client and its notice,
\* afterwards it starts the application instead (CallbackToHap, OnRemoteDied); or when the
\* client died before it was watched, of which no notice is ever sent.
SentToTheUsable ==
  /\ Addressee # NoClient => InfoOf[Addressee] \notin LocalInfos
  /\ CallbackToHap = {"swallowed"} => Addressee \in obituaries \/ fate[Addressee] = "dead"

=============================================================================
