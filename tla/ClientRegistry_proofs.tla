----------------------- MODULE ClientRegistry_proofs -----------------------
(***************************************************************************)
(* Proofs about ClientRegistry, for any clients, upgrade infos shared or    *)
(* not, local updaters and bounds: clients die at any time.                *)
(***************************************************************************)
EXTENDS ClientRegistry, TLAPS

\* A client whose registration has passed the insertion, or has returned, has its entry as
\* long as it lives and nobody has come over it; between the removal of the old entry and
\* the insertion there is none; a notice is about a dead client.
EntryIsKept ==
  /\ \A c \in alive :
       stage # "off" /\ fate[c] = "kept" /\ (c \in returned \/ thread[c] \in Serving)
         => clientProxyMap[InfoOf[c]] = c
  /\ \A c \in alive :
       fate[c] = "kept" /\ thread[c] = "insert" => clientProxyMap[InfoOf[c]] = NoClient
  /\ \A c \in Clients : c \in returned => thread[c] = "none"
  /\ obituaries \intersect alive = {}
  /\ stage = "off" => returned = {} /\ \A c \in Clients : thread[c] = "none"

RegistryInv == TypeOK /\ RegisteredIsWatched /\ EntryIsKept

-----------------------------------------------------------------------------
\* The invariant holds before the first start of the service (Init).
LEMMA RegistryInit == Init => RegistryInv
<1> SUFFICES ASSUME Init PROVE RegistryInv
  OBVIOUS
<1>1. TypeOK
  BY RegistryAssumption DEF Init, TypeOK, Empty
<1>2. RegisteredIsWatched
  BY DEF Init, RegisteredIsWatched
<1>3. EntryIsKept
  BY DEF Init, EntryIsKept, Serving
<1> QED BY <1>1, <1>2, <1>3 DEF RegistryInv

\* A process that is gone leaves nothing that could be wrong (Gone).
LEMMA GoneKeepsInv == RegistryInv /\ Gone => RegistryInv'
<1> SUFFICES ASSUME RegistryInv, Gone PROVE RegistryInv'
  OBVIOUS
<1>1. TypeOK'
  BY RegistryAssumption DEF RegistryInv, Gone, TypeOK, Empty
<1>2. RegisteredIsWatched'
  BY DEF Gone, RegisteredIsWatched
<1>3. EntryIsKept'
  BY DEF Gone, RegistryInv, TypeOK, EntryIsKept, Serving
<1> QED BY <1>1, <1>2, <1>3 DEF RegistryInv

\* What removes an entry leaves a well-typed table, and everybody in it watched
\* (UnregisterUpdateCallback).
LEMMA UnregisterKeepsWatched ==
  ASSUME RegistryInv, NEW info \in Infos, UnregisterUpdateCallback(info), alive' = alive
  PROVE  /\ clientProxyMap' \in [Infos -> Clients \union {NoClient}]
         /\ recipients' \subseteq recipients
         /\ isRemoteIdle' \in BOOLEAN
         /\ \A i \in Infos : i # info => clientProxyMap'[i] = clientProxyMap[i]
         /\ clientProxyMap'[info] = NoClient
         /\ raced' \in BOOLEAN
         /\ RegisteredIsWatched'
<1>1. CASE clientProxyMap[info] = NoClient
  BY <1>1 DEF UnregisterUpdateCallback, RegistryInv, TypeOK, RegisteredIsWatched
<1>2. CASE clientProxyMap[info] # NoClient
  <2>1. /\ recipients' = recipients \ {clientProxyMap[info]}
        /\ clientProxyMap' = [clientProxyMap EXCEPT ![info] = NoClient]
        /\ isRemoteIdle' \in BOOLEAN /\ raced' \in BOOLEAN
    BY <1>2 DEF UnregisterUpdateCallback, RemoveDeathRecipient, Races
  <2>2. RegisteredIsWatched'
    BY <1>2, <2>1 DEF RegistryInv, TypeOK, RegisteredIsWatched
  <2> QED BY <2>1, <2>2 DEF RegistryInv, TypeOK
<1> QED BY <1>1, <1>2

\* Whoever acts on the entry of its info has come over every other client that could count
\* on it (UnregisterUpdateCallback, Insert).
LEMMA OvertakeMarks ==
  ASSUME TypeOK, NEW c \in Clients, Overtake(c)
  PROVE  /\ fate' \in [Clients -> {"kept", "overtaken", "dead"}]
         /\ fate'[c] = fate[c]
         /\ \A d \in Clients : fate'[d] = "kept" => fate[d] = "kept"
         /\ \A d \in Clients : d \notin alive => fate'[d] = fate[d]
         /\ \A d \in Clients : fate'[d] = "kept" /\ d # c /\ d \in alive
                                /\ (d \in returned \/ thread[d] # "none") => InfoOf[d] # InfoOf[c]
BY DEF Overtake, Overtaken, TypeOK

-----------------------------------------------------------------------------
\* Every step of a registration preserves the invariant (RegisterUpdateCallback).
LEMMA ServeKeepsInv ==
  ASSUME RegistryInv, NEW c \in Clients, RegisterUpdateCallback(c) \/ Serve(c)
  PROVE  RegistryInv'
<1> USE DEF RegistryInv
<1>i. InfoOf \in [Clients -> Infos] /\ NoClient \notin Clients /\ NoInfo \notin Infos
  BY RegistryAssumption
<1>1. CASE RegisterUpdateCallback(c)
  <2>1. TypeOK'
    BY <1>1 DEF RegisterUpdateCallback, At, Goto, registry, TypeOK, Empty
  <2>2. RegisteredIsWatched'
    BY <1>1 DEF RegisterUpdateCallback, registry, RegisteredIsWatched
  <2>3. EntryIsKept'
    BY <1>1 DEF RegisterUpdateCallback, At, Goto, registry, TypeOK, EntryIsKept, Serving
  <2> QED BY <2>1, <2>2, <2>3
<1>2. CASE UnregisterOld(c)
  <2>1. /\ UnregisterUpdateCallback(InfoOf[c]) /\ InfoOf[c] \in Infos /\ alive' = alive
        /\ Overtake(c)
    BY <1>2, <1>i DEF UnregisterOld
  <2>2. /\ clientProxyMap' \in [Infos -> Clients \union {NoClient}]
        /\ recipients' \subseteq recipients
        /\ isRemoteIdle' \in BOOLEAN
        /\ \A i \in Infos : i # InfoOf[c] => clientProxyMap'[i] = clientProxyMap[i]
        /\ clientProxyMap'[InfoOf[c]] = NoClient
        /\ raced' \in BOOLEAN
        /\ RegisteredIsWatched'
    BY <2>1, UnregisterKeepsWatched
  <2>3. /\ fate' \in [Clients -> {"kept", "overtaken", "dead"}]
        /\ \A d \in Clients : fate'[d] = "kept" => fate[d] = "kept"
        /\ \A d \in Clients : fate'[d] = "kept" /\ d # c /\ d \in alive
                               /\ (d \in returned \/ thread[d] # "none") => InfoOf[d] # InfoOf[c]
    BY <2>1, OvertakeMarks
  <2>4. TypeOK'
    BY <1>2, <2>2, <2>3 DEF UnregisterOld, At, Goto, TypeOK
  <2>5. EntryIsKept'
    <3>1. /\ thread' = [thread EXCEPT ![c] = "insert"] /\ stage # "off" /\ thread[c] = "unregister"
          /\ UNCHANGED <<stage, alive, obituaries, returned>>
      BY <1>2 DEF UnregisterOld, At, Goto
    <3>2. \A d \in alive : InfoOf[d] \in Infos /\ d \in Clients
      BY <1>i DEF TypeOK
    <3>3. ASSUME NEW d \in alive, fate'[d] = "kept", d \in returned \/ thread'[d] \in Serving
          PROVE  clientProxyMap'[InfoOf[d]] = d
      <4>1. d # c /\ thread'[d] = thread[d]
        BY <3>1, <3>2, <3>3 DEF TypeOK, EntryIsKept, Serving
      <4>2. InfoOf[d] # InfoOf[c] /\ clientProxyMap[InfoOf[d]] = d
        BY <2>3, <3>1, <3>2, <3>3, <4>1 DEF EntryIsKept, Serving
      <4> QED BY <2>2, <3>2, <4>2
    <3>4. ASSUME NEW d \in alive, fate'[d] = "kept", thread'[d] = "insert"
          PROVE  clientProxyMap'[InfoOf[d]] = NoClient
      <4>1. CASE d = c
        BY <2>2, <4>1
      <4>2. CASE d # c
        BY <2>2, <2>3, <3>1, <3>2, <3>4, <4>2 DEF TypeOK, EntryIsKept
      <4> QED BY <4>1, <4>2
    <3> QED BY <3>1, <3>3, <3>4 DEF TypeOK, EntryIsKept
  <2> QED BY <2>2, <2>4, <2>5
<1>3. CASE Insert(c)
  <2>1. CASE clientProxyMap[InfoOf[c]] = NoClient
    <3>1. /\ clientProxyMap' = [clientProxyMap EXCEPT ![InfoOf[c]] = c]
          /\ recipients \subseteq recipients' /\ recipients' \subseteq Clients
          /\ c \in alive => c \in recipients'
          /\ InfoOf[c] \in Infos /\ strays' = strays
      BY <1>3, <1>i, <2>1 DEF Insert, AddDeathRecipient, TypeOK
    <3>2. /\ fate' \in [Clients -> {"kept", "overtaken", "dead"}]
          /\ \A d \in Clients : d # c /\ fate'[d] = "kept" => fate[d] = "kept" /\ ~Overtaken(c, d)
      BY <1>3, <2>1 DEF Insert, TypeOK
    <3>3. TypeOK'
      BY <1>3, <3>1, <3>2 DEF Insert, At, Goto, TypeOK, Serving
    <3>4. RegisteredIsWatched'
      BY <1>3, <3>1 DEF Insert, TypeOK, RegisteredIsWatched
    <3>5. EntryIsKept'
      BY <1>3, <1>i, <3>1, <3>2 DEF Insert, At, Goto, TypeOK, EntryIsKept, Serving, Overtaken
    <3> QED BY <3>3, <3>4, <3>5
  <2>2. CASE clientProxyMap[InfoOf[c]] # NoClient
    <3>1. /\ UNCHANGED <<clientProxyMap, recipients, fate>>
          /\ strays' \in [Clients -> Nat]
      BY <1>3, <2>2 DEF Insert, StrayRecipient, TypeOK
    <3>2. c \in alive => fate[c] # "kept"
      BY <1>3, <2>2 DEF Insert, At, EntryIsKept
    <3>3. TypeOK'
      BY <1>3, <3>1 DEF Insert, At, Goto, TypeOK, Serving
    <3>4. RegisteredIsWatched'
      BY <1>3, <3>1 DEF Insert, RegisteredIsWatched
    <3>5. EntryIsKept'
      BY <1>3, <3>1, <3>2 DEF Insert, At, Goto, TypeOK, EntryIsKept, Serving
    <3> QED BY <3>3, <3>4, <3>5
  <2> QED BY <2>1, <2>2
<1>4. CASE SetUpgradeInfo(c)
  <2>1. TypeOK'
    <3>1. upgradeInfo' \in Infos \union {NoInfo}
      BY <1>4, <1>i DEF SetUpgradeInfo, TypeOK
    <3> QED BY <1>4, <3>1 DEF SetUpgradeInfo, At, Goto, registry, history, TypeOK, Empty, Serving
  <2>2. RegisteredIsWatched'
    BY <1>4 DEF SetUpgradeInfo, registry, RegisteredIsWatched
  <2>3. EntryIsKept'
    BY <1>4 DEF SetUpgradeInfo, At, Goto, registry, history, TypeOK, EntryIsKept, Serving
  <2> QED BY <2>1, <2>2, <2>3
<1>5. CASE CountClients(c)
  <2>1. TypeOK'
    BY <1>5 DEF CountClients, At, Goto, registry, history, TypeOK, Empty, Serving
  <2>2. RegisteredIsWatched'
    BY <1>5 DEF CountClients, registry, RegisteredIsWatched
  <2>3. EntryIsKept'
    BY <1>5 DEF CountClients, At, Goto, registry, history, TypeOK, EntryIsKept, Serving
  <2> QED BY <2>1, <2>2, <2>3
<1>6. CASE SetRemoteIdle(c)
  <2>1. TypeOK'
    <3>1. isRemoteIdle' \in BOOLEAN
      BY <1>6 DEF SetRemoteIdle
    <3> QED BY <1>6, <3>1 DEF SetRemoteIdle, Goto, registry, history, TypeOK, Empty
  <2>2. RegisteredIsWatched'
    BY <1>6 DEF SetRemoteIdle, registry, RegisteredIsWatched
  <2>3. EntryIsKept'
    BY <1>6 DEF SetRemoteIdle, Goto, registry, history, TypeOK, EntryIsKept, Serving
  <2> QED BY <2>1, <2>2, <2>3
<1> QED BY <1>1, <1>2, <1>3, <1>4, <1>5, <1>6 DEF Serve

\* So do removals, deaths and their notices (UnregisterUpdateCallback, OnRemoteDied).
LEMMA RemovalKeepsInv ==
  ASSUME RegistryInv, NEW c \in Clients,
         UnregisterByClient(c) \/ ClientDies(c) \/ OnRemoteDied(c)
  PROVE  RegistryInv'
<1> USE DEF RegistryInv
<1>i. InfoOf \in [Clients -> Infos]
  BY RegistryAssumption
<1>1. CASE ClientDies(c)
  <2>1. TypeOK'
    BY <1>1 DEF ClientDies, TypeOK, Empty
  <2>2. RegisteredIsWatched'
    BY <1>1 DEF ClientDies, TypeOK, RegisteredIsWatched
  <2>3. EntryIsKept'
    BY <1>1 DEF ClientDies, TypeOK, EntryIsKept, Serving
  <2> QED BY <2>1, <2>2, <2>3
<1>2. CASE UnregisterByClient(c) \/ OnRemoteDied(c)
  <2>1. /\ UnregisterUpdateCallback(InfoOf[c]) /\ InfoOf[c] \in Infos /\ alive' = alive
        /\ Overtake(c)
        /\ stage # "off" /\ stage' = stage /\ thread' = thread
        /\ returned' \subseteq returned /\ obituaries' \subseteq obituaries
        /\ c \notin returned' \/ c \notin alive
        /\ c \in alive => thread[c] = "none"
        /\ strays' \in [Clients -> Nat]
    <3>1. CASE UnregisterByClient(c)
      BY <3>1, <1>i DEF UnregisterByClient, At, TypeOK
    <3>2. CASE OnRemoteDied(c)
      <4>1. strays' \in [Clients -> Nat]
        <5>1. CASE strays' = strays
          BY <5>1 DEF TypeOK
        <5>2. CASE strays[c] > 0 /\ strays' = [strays EXCEPT ![c] = @ - 1]
          BY <5>2 DEF TypeOK
        <5> QED BY <3>2, <5>1, <5>2 DEF OnRemoteDied, NoticeArrives
      <4> QED BY <3>2, <1>i, <4>1 DEF OnRemoteDied, NoticeArrives, EntryIsKept
    <3> QED BY <1>2, <3>1, <3>2
  <2>2. /\ clientProxyMap' \in [Infos -> Clients \union {NoClient}]
        /\ recipients' \subseteq recipients
        /\ isRemoteIdle' \in BOOLEAN
        /\ \A i \in Infos : i # InfoOf[c] => clientProxyMap'[i] = clientProxyMap[i]
        /\ clientProxyMap'[InfoOf[c]] = NoClient
        /\ raced' \in BOOLEAN
        /\ RegisteredIsWatched'
    BY <2>1, UnregisterKeepsWatched
  <2>3. /\ fate' \in [Clients -> {"kept", "overtaken", "dead"}]
        /\ \A d \in Clients : fate'[d] = "kept" => fate[d] = "kept"
        /\ \A d \in Clients : fate'[d] = "kept" /\ d # c /\ d \in alive
                               /\ (d \in returned \/ thread[d] # "none") => InfoOf[d] # InfoOf[c]
    BY <2>1, OvertakeMarks
  <2>4. TypeOK'
    BY <1>2, <2>1, <2>2, <2>3 DEF UnregisterByClient, OnRemoteDied, TypeOK
  <2>5. EntryIsKept'
    BY <1>i, <2>1, <2>2, <2>3 DEF TypeOK, EntryIsKept, Serving
  <2> QED BY <2>2, <2>4, <2>5
<1> QED BY <1>1, <1>2

\* And so does everything else (Next).
LEMMA RegistryStep == RegistryInv /\ [Next]_vars => RegistryInv'
<1> SUFFICES ASSUME RegistryInv, [Next]_vars PROVE RegistryInv'
  OBVIOUS
<1> USE DEF RegistryInv
<1>1. ASSUME NEW c \in Clients,
             \/ RegisterUpdateCallback(c) \/ Serve(c)
             \/ UnregisterByClient(c) \/ ClientDies(c) \/ OnRemoteDied(c)
      PROVE  RegistryInv'
  BY <1>1, ServeKeepsInv, RemovalKeepsInv
<1>2. ASSUME NEW c \in Clients, CheckNewVersion(c) \/ SearchCallback(c) PROVE RegistryInv'
  BY <1>2 DEF CheckNewVersion, SearchCallback, registry, history, TypeOK, RegisteredIsWatched,
              EntryIsKept, Serving, Empty
<1>4. CASE SAExit \/ ServiceDies
  BY <1>4, GoneKeepsInv DEF SAExit, ServiceDies
<1>5. CASE OnStart
  <2>1. TypeOK' /\ RegisteredIsWatched'
    BY <1>5 DEF OnStart, registry, history, TypeOK, RegisteredIsWatched, Empty
  <2>2. EntryIsKept'
    BY <1>5 DEF OnStart, registry, history, TypeOK, EntryIsKept, Serving, Empty
  <2> QED BY <2>1, <2>2
<1>6. CASE IdleCheck \/ PreExitFails
  BY <1>6 DEF IdleCheck, PreExitFails, registry, history, TypeOK, RegisteredIsWatched,
              EntryIsKept, Serving, Empty
<1>7. CASE UNCHANGED vars
  BY <1>7 DEF vars, registry, history, TypeOK, RegisteredIsWatched, EntryIsKept, Serving, Empty
<1> QED BY <1>1, <1>2, <1>4, <1>5, <1>6, <1>7 DEF Next

-----------------------------------------------------------------------------
\* The table, the threads and the flags keep their types, and a service that is off keeps
\* nothing (Gone).
THEOREM RegistryTypes == Spec => []TypeOK
<1>1. RegistryInv => TypeOK
  BY DEF RegistryInv
<1> QED BY RegistryInit, RegistryStep, <1>1, PTL DEF Spec

\* Everybody in the table is there under its own info and, while it lives, watched, however
\* registrations, removals and deaths interleave (RegisterUpdateCallback,
\* UnregisterUpdateCallback).
THEOREM RegisteredAlwaysWatched == Spec => []RegisteredIsWatched
<1>1. RegistryInv => RegisteredIsWatched
  BY DEF RegistryInv
<1> QED BY RegistryInit, RegistryStep, <1>1, PTL DEF Spec

\* A client whose registration returned is in the table until it leaves or dies, or another
\* client with an equal info acts: no other client, notice or registration takes its entry,
\* and none returns success without one (UnregisterUpdateCallback, Insert, OnRemoteDied).
THEOREM RegistrationAlwaysLasts == Spec => []RegistrationLasts
<1>1. RegistryInv => RegistrationLasts
  BY DEF RegistryInv, EntryIsKept, RegistrationLasts
<1> QED BY RegistryInit, RegistryStep, <1>1, PTL DEF Spec

-----------------------------------------------------------------------------
(* Where answers and events go, and what the idle flag says.               *)

\* The remembered info, which decides who is told, is not that of a local updater.
AppIsRemembered == upgradeInfo \in LocalInfos => upgradeInfo = NoInfo

\* Of the dead only those are in the table whose notice is still on its way, and those that
\* died before their insertion.
DeadHaveNotice ==
  \A i \in Infos : clientProxyMap[i] \in Clients \ alive =>
    clientProxyMap[i] \in obituaries \/ fate[clientProxyMap[i]] = "dead"

\* Unless the last entry was removed too early, somebody is in the table while a registration
\* is between its insertion and its end, and otherwise the flag is the emptiness of the table.
FlagFollowsTable ==
  ~raced =>
    /\ IdleFlagIsTrue
    /\ \A c \in Clients : thread[c] \in Serving => ~Empty /\ thread[c] # "idle"

\* No step remembers the info of a local updater (SetUpgradeInfo).
LEMMA AppStaysRemembered == RegistryInv /\ AppIsRemembered /\ [Next]_vars => AppIsRemembered'
<1> SUFFICES ASSUME RegistryInv, AppIsRemembered, [Next]_vars PROVE AppIsRemembered'
  OBVIOUS
<1>1. CASE upgradeInfo' = upgradeInfo
  BY <1>1 DEF AppIsRemembered
<1>2. CASE Gone
  BY <1>2 DEF Gone, AppIsRemembered
<1>3. ASSUME NEW c \in Clients, SetUpgradeInfo(c) PROVE AppIsRemembered'
  BY <1>3 DEF SetUpgradeInfo, AppIsRemembered
<1> QED
  BY <1>1, <1>2, <1>3
     DEF Next, vars, OnStart, RegisterUpdateCallback, Serve, UnregisterOld, Insert, CountClients,
         SetRemoteIdle, UnregisterByClient, ClientDies, OnRemoteDied, CheckNewVersion,
         SearchCallback, IdleCheck, PreExitFails, SAExit, ServiceDies

\* A removal takes the entry of an info and no other, and under the lock sets the flag to what
\* it leaves (UnregisterUpdateCallback).
LEMMA RemovalTakesOne ==
  ASSUME TypeOK, NEW info \in Infos, UnregisterUpdateCallback(info)
  PROVE  /\ clientProxyMap'[info] = NoClient
         /\ \A i \in Infos : i # info => clientProxyMap'[i] = clientProxyMap[i]
         /\ \/ UNCHANGED <<clientProxyMap, isRemoteIdle, raced>>
            \/ /\ isRemoteIdle' <=> Empty'
               /\ raced' <=> \E c \in Clients : thread[c] \in Serving
<1>1. CASE clientProxyMap[info] = NoClient
  BY <1>1 DEF UnregisterUpdateCallback
<1>2. CASE clientProxyMap[info] # NoClient
  <2>1. /\ clientProxyMap' = [clientProxyMap EXCEPT ![info] = NoClient]
        /\ isRemoteIdle' = \A i \in Infos \ {info} : clientProxyMap[i] = NoClient
        /\ raced' <=> \E c \in Clients : thread[c] \in Serving
    BY <1>2 DEF UnregisterUpdateCallback, Races
  <2>2. isRemoteIdle' <=> Empty'
    BY <2>1 DEF TypeOK, Empty
  <2> QED BY <2>1, <2>2 DEF TypeOK
<1> QED BY <1>1, <1>2

\* A dead client is in the table only until its notice is handled, unless it died before its
\* insertion (ClientDies, Insert, OnRemoteDied).
LEMMA DeadKeepNotice ==
  ASSUME RegistryInv, DeadHaveNotice, [Next]_vars
  PROVE  DeadHaveNotice'
<1> USE DEF RegistryInv
<1>i. InfoOf \in [Clients -> Infos] /\ NoClient \notin Clients
  BY RegistryAssumption
<1>1. ASSUME NEW c \in Clients, SetUpgradeInfo(c) \/ CountClients(c) \/ SetRemoteIdle(c)
      PROVE  DeadHaveNotice'
  BY <1>1 DEF SetUpgradeInfo, CountClients, SetRemoteIdle, registry, history, DeadHaveNotice
<1>2. ASSUME NEW c \in Clients, Insert(c) PROVE DeadHaveNotice'
  <2>1. CASE clientProxyMap[InfoOf[c]] = NoClient
    <3>1. /\ clientProxyMap' = [clientProxyMap EXCEPT ![InfoOf[c]] = c] /\ InfoOf[c] \in Infos
          /\ alive' = alive /\ obituaries' = obituaries
          /\ c \notin alive => fate'[c] = "dead"
          /\ \A d \in Clients : d # c /\ d \notin alive => fate'[d] = fate[d]
      BY <1>2, <1>i, <2>1 DEF Insert, Overtaken, TypeOK
    <3> QED BY <1>i, <3>1 DEF TypeOK, RegisteredIsWatched, DeadHaveNotice
  <2>2. CASE clientProxyMap[InfoOf[c]] # NoClient
    BY <1>2, <2>2 DEF Insert, DeadHaveNotice
  <2> QED BY <2>1, <2>2
<1>3. ASSUME NEW c \in Clients, UnregisterOld(c) \/ UnregisterByClient(c) \/ OnRemoteDied(c)
      PROVE  DeadHaveNotice'
  <2>1. /\ UnregisterUpdateCallback(InfoOf[c]) /\ InfoOf[c] \in Infos /\ alive' = alive
        /\ Overtake(c)
        /\ obituaries \ {c} \subseteq obituaries'
    BY <1>3, <1>i DEF UnregisterOld, UnregisterByClient, OnRemoteDied, NoticeArrives
  <2>2. /\ clientProxyMap'[InfoOf[c]] = NoClient
        /\ \A i \in Infos : i # InfoOf[c] => clientProxyMap'[i] = clientProxyMap[i]
    BY <2>1, RemovalTakesOne
  <2>3. \A i \in Infos : clientProxyMap[i] # NoClient => InfoOf[clientProxyMap[i]] = i
    BY DEF RegisteredIsWatched
  <2>4. \A d \in Clients : d \notin alive => fate'[d] = fate[d]
    BY <2>1, OvertakeMarks
  <2> QED BY <1>i, <2>1, <2>2, <2>3, <2>4 DEF DeadHaveNotice
<1>4. ASSUME NEW c \in Clients, ClientDies(c) PROVE DeadHaveNotice'
  BY <1>4, <1>i DEF ClientDies, TypeOK, RegisteredIsWatched, DeadHaveNotice
<1>5. ASSUME NEW c \in Clients, CheckNewVersion(c) \/ SearchCallback(c) PROVE DeadHaveNotice'
  BY <1>5 DEF CheckNewVersion, SearchCallback, registry, history, DeadHaveNotice
<1>6. CASE Gone
  BY <1>6, <1>i DEF Gone, DeadHaveNotice
<1>7. CASE OnStart \/ IdleCheck \/ PreExitFails \/ UNCHANGED vars
  BY <1>7 DEF OnStart, IdleCheck, PreExitFails, vars, registry, history, DeadHaveNotice
<1>8. ASSUME NEW c \in Clients, RegisterUpdateCallback(c) PROVE DeadHaveNotice'
  BY <1>8 DEF RegisterUpdateCallback, registry, TypeOK, DeadHaveNotice
<1> QED BY <1>1, <1>2, <1>3, <1>4, <1>5, <1>6, <1>7, <1>8 DEF Next, Serve, SAExit, ServiceDies

\* What a registration counts before it writes the flag still holds when it does, unless an
\* entry was removed in between, which the flag of the removal tells (CountClients,
\* SetRemoteIdle, UnregisterUpdateCallback).
LEMMA FlagKeepsFollowing ==
  ASSUME RegistryInv, FlagFollowsTable, [Next]_vars
  PROVE  FlagFollowsTable'
<1> USE DEF RegistryInv
<1>i. InfoOf \in [Clients -> Infos] /\ NoClient \notin Clients
  BY RegistryAssumption
<1>1. ASSUME NEW c \in Clients, RegisterUpdateCallback(c) PROVE FlagFollowsTable'
  BY <1>1 DEF RegisterUpdateCallback, At, Goto, registry, TypeOK, FlagFollowsTable, IdleFlagIsTrue,
              Serving, Empty
<1>2. ASSUME NEW c \in Clients, SetUpgradeInfo(c) PROVE FlagFollowsTable'
  BY <1>2 DEF SetUpgradeInfo, At, Goto, registry, history, TypeOK, FlagFollowsTable,
              IdleFlagIsTrue, Serving, Empty
<1>3. ASSUME NEW c \in Clients, CountClients(c) PROVE FlagFollowsTable'
  BY <1>3 DEF CountClients, At, Goto, registry, history, TypeOK, FlagFollowsTable,
              IdleFlagIsTrue, Serving, Empty
<1>4. ASSUME NEW c \in Clients, SetRemoteIdle(c) PROVE FlagFollowsTable'
  <2>1. ASSUME ~raced PROVE ~Empty /\ isRemoteIdle' = FALSE
    BY <1>4, <2>1 DEF SetRemoteIdle, FlagFollowsTable, Serving
  <2> QED BY <1>4, <2>1 DEF SetRemoteIdle, Goto, registry, history, TypeOK, FlagFollowsTable,
                            IdleFlagIsTrue, Serving, Empty
<1>5. ASSUME NEW c \in Clients, Insert(c) PROVE FlagFollowsTable'
  <2>1. /\ thread' = [thread EXCEPT ![c] = "cache"] /\ raced' = raced /\ InfoOf[c] \in Infos
        /\ clientProxyMap' = IF clientProxyMap[InfoOf[c]] = NoClient
                             THEN [clientProxyMap EXCEPT ![InfoOf[c]] = c] ELSE clientProxyMap
    BY <1>5, <1>i DEF Insert, Goto
  <2>2. ~Empty'
    BY <1>i, <2>1 DEF TypeOK, Empty
  <2> QED BY <2>1, <2>2 DEF TypeOK, FlagFollowsTable, IdleFlagIsTrue, Serving
<1>6. ASSUME NEW c \in Clients, UnregisterOld(c) \/ UnregisterByClient(c) \/ OnRemoteDied(c)
      PROVE  FlagFollowsTable'
  <2>1. /\ UnregisterUpdateCallback(InfoOf[c]) /\ InfoOf[c] \in Infos
        /\ \A d \in Clients : thread'[d] \in Serving <=> thread[d] \in Serving
        /\ \A d \in Clients : thread'[d] = "idle" <=> thread[d] = "idle"
    BY <1>6, <1>i DEF UnregisterOld, UnregisterByClient, OnRemoteDied, At, Goto, TypeOK, Serving
  <2>2. \/ UNCHANGED <<clientProxyMap, isRemoteIdle, raced>>
        \/ /\ isRemoteIdle' <=> Empty'
           /\ raced' <=> \E d \in Clients : thread[d] \in Serving
    BY <2>1, RemovalTakesOne
  <2> QED BY <2>1, <2>2 DEF FlagFollowsTable, IdleFlagIsTrue, Empty
<1>7. ASSUME NEW c \in Clients, ClientDies(c) \/ CheckNewVersion(c) \/ SearchCallback(c)
      PROVE  FlagFollowsTable'
  BY <1>7 DEF ClientDies, CheckNewVersion, SearchCallback, registry, history, FlagFollowsTable,
              IdleFlagIsTrue, Empty
<1>8. CASE Gone
  BY <1>8 DEF Gone, FlagFollowsTable, IdleFlagIsTrue, Empty, Serving
<1>9. CASE OnStart \/ IdleCheck \/ PreExitFails \/ UNCHANGED vars
  BY <1>9 DEF OnStart, IdleCheck, PreExitFails, vars, registry, history, FlagFollowsTable,
              IdleFlagIsTrue, Empty
<1> QED BY <1>1, <1>2, <1>3, <1>4, <1>5, <1>6, <1>7, <1>8, <1>9 DEF Next, Serve, SAExit, ServiceDies

-----------------------------------------------------------------------------
\* What is sent is addressed to an application, and an event is swallowed by a dead callback
\* only while the notice of that death is on its way, or if the client died before it was
\* watched, for clients that share infos or not (SearchCallback, CallbackToHap, OnRemoteDied).
THEOREM AlwaysSentToTheUsable == Spec => []SentToTheUsable
<1> DEFINE I == RegistryInv /\ AppIsRemembered /\ DeadHaveNotice
<1>i. NoInfo \notin Infos /\ NoClient \notin Clients
  BY RegistryAssumption
<1>1. Init => I
  BY RegistryInit, <1>i DEF Init, AppIsRemembered, DeadHaveNotice
<1>2. I /\ [Next]_vars => I'
  BY RegistryStep, AppStaysRemembered, DeadKeepNotice
<1>3. I => SentToTheUsable
  <2> SUFFICES ASSUME I, Addressee # NoClient
               PROVE  /\ InfoOf[Addressee] \notin LocalInfos
                      /\ Addressee \notin alive =>
                           Addressee \in obituaries \/ fate[Addressee] = "dead"
    BY DEF SentToTheUsable, CallbackToHap
  <2>1. /\ upgradeInfo \in Infos /\ Addressee = clientProxyMap[upgradeInfo]
        /\ Addressee \in Clients
    BY DEF Addressee, GetUpgradeCallback, RegistryInv, TypeOK
  <2>2. InfoOf[Addressee] = upgradeInfo /\ upgradeInfo \notin LocalInfos
    BY <1>i, <2>1 DEF RegistryInv, RegisteredIsWatched, AppIsRemembered
  <2> QED BY <2>1, <2>2 DEF DeadHaveNotice
<1> QED BY <1>1, <1>2, <1>3, PTL DEF Spec

\* When no registration is on its way to the flag, the flag tells whether a client is
\* registered, unless the last removal came between the insertion of a registration and its
\* flag, for any clients and deaths (UnregisterUpdateCallback, CountClients, SetRemoteIdle).
THEOREM IdleFlagAlwaysTrue == Spec => []IdleFlagIsTrue
<1> DEFINE I == RegistryInv /\ FlagFollowsTable
<1>1. Init => I
  BY RegistryInit DEF Init, FlagFollowsTable, IdleFlagIsTrue, Serving, Empty
<1>2. I /\ [Next]_vars => I'
  BY RegistryStep, FlagKeepsFollowing
<1>3. I => IdleFlagIsTrue
  BY DEF FlagFollowsTable, IdleFlagIsTrue
<1> QED BY <1>1, <1>2, <1>3, PTL DEF Spec
=============================================================================
