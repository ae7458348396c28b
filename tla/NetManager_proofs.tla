------------------------- MODULE NetManager_proofs -------------------------
(***************************************************************************)
(* Proofs about NetManager, for any number of threads that deliver notices *)
(* and of attempts to register the observer.                               *)
(***************************************************************************)
EXTENDS NetManager, TLAPS

\* Once nobody is between storing a type and asking for it again, whoever is about to set
\* the flag has seen the type, and if nobody is, the flag says it.  The callback, once
\* registered, is registered for every type, so that no change is passed over.
Seen == \A c \in Callers : notice[c].pc \notin {"lock", "handle"}
Setting(c) == notice[c].pc \in {"found", "lost"}
FlagIsOnItsWay ==
  /\ listener \in {{}, NetTypes}
  /\ told \/ (\E c \in Callers : notice[c].pc \in {"handle", "found", "lost"}) => listener = NetTypes
  /\ Seen => \A c \in Callers : Setting(c) => (notice[c].pc = "lost" <=> netType = "NO_NET")
  /\ told /\ Seen /\ (\A c \in Callers : ~Setting(c)) => (isNoNet <=> netType = "NO_NET")

\* A flag that is raised, or about to be, was preceded by a loss during the download.
LossIsExplained ==
  /\ isNoNet => told
  /\ download /\ netType = "NO_NET" => excused
  /\ \A c \in Callers : download /\ notice[c].pc = "lost" => excused
  /\ download /\ isNoNet => excused

NetInv == TypeOK /\ FlagIsOnItsWay /\ LossIsExplained

-----------------------------------------------------------------------------
\* The invariant holds in a process that has just been started (Init).
LEMMA NetInit == Init => NetInv
<1> SUFFICES ASSUME Init PROVE NetInv
  OBVIOUS
<1>1. \A c \in Callers : notice[c].pc = "idle"
  BY DEF Init, Idle
<1>2. TypeOK
  <2>1. isNoNet \in BOOLEAN /\ download \in BOOLEAN /\ excused \in BOOLEAN /\ told \in BOOLEAN
    BY Zenon DEF Init
  <2>2. 0 \in 0..RetryMax /\ 0 < RetryMax
    BY NetAssumption
  <2>3. /\ notice \in [Callers -> [pc : {"idle", "compare", "store", "lock", "handle", "found", "lost"},
                                   type : NetTypes]]
        /\ \A c \in Callers : notice[c].pc \in {"handle", "found", "lost"} <=> mutex = c
    BY <1>1, NetAssumption DEF Init, Idle, NetTypes
  <2> QED BY <2>1, <2>2, <2>3 DEF Init, TypeOK, NetTypes
<1>3. FlagIsOnItsWay
  BY <1>1 DEF Init, FlagIsOnItsWay, Setting
<1>4. LossIsExplained
  BY DEF Init, LossIsExplained
<1> QED BY <1>2, <1>3, <1>4 DEF NetInv

\* The invariant says more than the two properties (HandleNetChanged, DealAbnormal).
LEMMA NetInvFlag == NetInv => FlagFollowsNetwork /\ NetFailureIsExplained
<1> SUFFICES ASSUME NetInv PROVE FlagFollowsNetwork /\ NetFailureIsExplained
  OBVIOUS
<1>1. ~Delivering => Seen /\ \A c \in Callers : ~Setting(c)
  BY DEF Delivering, Seen, Setting
<1> QED BY <1>1 DEF NetInv, FlagIsOnItsWay, LossIsExplained, FlagFollowsNetwork,
                    NetFailureIsExplained

\* The bearers of a network give one of the types (NetCapabilitiesChange).
LEMMA BearersGiveType ==
  ASSUME NEW b, NEW t \in TypeOfBearers(b)
  PROVE  t \in NetTypes
BY DEF TypeOfBearers, NetTypes

\* A notice that arrives changes none of what the flag is about (NetLost).
LEMMA ReportKeepsInv ==
  ASSUME NetInv, NEW c \in Callers, NEW t \in NetTypes, Report(c, t)
  PROVE  NetInv'
<1> USE DEF NetInv
<1>1. TypeOK'
  BY NetAssumption DEF Report, memory, TypeOK
<1>2. \A d \in Callers : /\ d # c => notice'[d] = notice[d]
                         /\ notice'[c].pc = "compare" /\ notice[c].pc = "idle"
  BY DEF Report, TypeOK
<1>3. FlagIsOnItsWay'
  BY <1>2 DEF Report, memory, FlagIsOnItsWay, Seen, Setting
<1>4. LossIsExplained'
  BY <1>2 DEF Report, memory, LossIsExplained
<1> QED BY <1>1, <1>3, <1>4

\* The delivery of a notice, step by step (OnNetChange, HandleNetChanged).
LEMMA DeliverKeepsInv ==
  ASSUME NetInv, NEW c \in Callers, Deliver(c)
  PROVE  NetInv'
<1> USE DEF NetInv
<1>g. ASSUME NEW step, Goto(c, step)
      PROVE  /\ notice'[c].pc = step /\ notice'[c].type = notice[c].type
             /\ \A d \in Callers : d # c => notice'[d] = notice[d]
             /\ step \in {"store", "lock", "handle", "found", "lost"}
                  => notice' \in [Callers -> [pc : {"idle", "compare", "store", "lock", "handle", "found", "lost"},
                                              type : NetTypes]]
  BY <1>g DEF Goto, TypeOK
<1>d. ASSUME Done(c)
      PROVE  /\ notice'[c].pc = "idle"
             /\ \A d \in Callers : d # c => notice'[d] = notice[d]
             /\ notice' \in [Callers -> [pc : {"idle", "compare", "store", "lock", "handle", "found", "lost"},
                                         type : NetTypes]]
  BY <1>d DEF Done, Idle, TypeOK, NetTypes
<1>1. CASE CompareNetType(c)
  <2>1. /\ notice[c].pc = "compare" /\ notice'[c].pc \in {"idle", "store"}
        /\ \A d \in Callers : d # c => notice'[d] = notice[d]
        /\ notice' \in [Callers -> [pc : {"idle", "compare", "store", "lock", "handle", "found", "lost"},
                                    type : NetTypes]]
    BY <1>1, <1>g, <1>d DEF CompareNetType
  <2>2. TypeOK'
    BY <1>1, <2>1 DEF CompareNetType, memory, TypeOK
  <2>3. FlagIsOnItsWay' /\ LossIsExplained'
    BY <1>1, <2>1 DEF CompareNetType, memory, FlagIsOnItsWay, LossIsExplained, Seen, Setting
  <2> QED BY <2>2, <2>3
<1>2. CASE StoreNetType(c)
  <2>1. /\ notice[c].pc = "store" /\ notice'[c].pc = "lock"
        /\ \A d \in Callers : d # c => notice'[d] = notice[d]
        /\ notice' \in [Callers -> [pc : {"idle", "compare", "store", "lock", "handle", "found", "lost"},
                                    type : NetTypes]]
    BY <1>2, <1>g DEF StoreNetType
  <2>2. netType' \in NetTypes /\ excused' \in BOOLEAN /\ (netType' = "NO_NET" \/ excused => excused')
    BY <1>2 DEF StoreNetType, TypeOK
  <2>3. TypeOK'
    BY <1>2, <2>1, <2>2 DEF StoreNetType, TypeOK
  <2>4. FlagIsOnItsWay'
    BY <1>2, <2>1 DEF StoreNetType, FlagIsOnItsWay, Seen, Setting
  <2>5. LossIsExplained'
    BY <1>2, <2>1, <2>2 DEF StoreNetType, LossIsExplained
  <2> QED BY <2>3, <2>4, <2>5
<1>3. CASE OnNetChange(c)
  <2>1. /\ notice[c].pc = "lock" /\ mutex = None
        /\ \/ notice'[c].pc = "handle" /\ mutex' = c /\ notice[c].type \in listener
           \/ notice'[c].pc = "idle" /\ mutex' = mutex /\ notice[c].type \notin listener
        /\ \A d \in Callers : d # c => notice'[d] = notice[d]
        /\ notice' \in [Callers -> [pc : {"idle", "compare", "store", "lock", "handle", "found", "lost"},
                                    type : NetTypes]]
        /\ notice[c].type \in NetTypes
    BY <1>3, <1>g, <1>d DEF OnNetChange, TypeOK
  <2>2. \A d \in Callers : notice[d].pc \notin {"handle", "found", "lost"}
    BY <2>1, NetAssumption DEF TypeOK
  <2>3. TypeOK'
    BY <1>3, <2>1, <2>2, NetAssumption DEF OnNetChange, memory, TypeOK
  <2>4. FlagIsOnItsWay'
    BY <1>3, <2>1, <2>2 DEF OnNetChange, memory, FlagIsOnItsWay, Seen, Setting
  <2>5. LossIsExplained'
    BY <1>3, <2>1 DEF OnNetChange, memory, LossIsExplained
  <2> QED BY <2>3, <2>4, <2>5
<1>4. CASE HandleNetChanged(c)
  <2>1. /\ notice[c].pc = "handle" /\ mutex = c
        /\ notice'[c].pc = IF netType = "NO_NET" THEN "lost" ELSE "found"
        /\ \A d \in Callers : d # c => notice'[d] = notice[d]
        /\ notice' \in [Callers -> [pc : {"idle", "compare", "store", "lock", "handle", "found", "lost"},
                                    type : NetTypes]]
    BY <1>4, <1>g DEF HandleNetChanged, IsNetAvailable, TypeOK
  <2>2. \A d \in Callers : d # c => notice[d].pc \notin {"handle", "found", "lost"}
    BY <2>1 DEF TypeOK
  <2>3. TypeOK'
    BY <1>4, <2>1 DEF HandleNetChanged, memory, TypeOK
  <2>4. FlagIsOnItsWay'
    BY <1>4, <2>1, <2>2 DEF HandleNetChanged, memory, FlagIsOnItsWay, Seen, Setting
  <2>5. LossIsExplained'
    BY <1>4, <2>1 DEF HandleNetChanged, memory, LossIsExplained
  <2> QED BY <2>3, <2>4, <2>5
<1>5. CASE SetNoNet(c)
  <2>1. /\ notice[c].pc \in {"found", "lost"} /\ mutex = c /\ mutex' = None
        /\ notice'[c].pc = "idle"
        /\ \A d \in Callers : d # c => notice'[d] = notice[d]
        /\ notice' \in [Callers -> [pc : {"idle", "compare", "store", "lock", "handle", "found", "lost"},
                                    type : NetTypes]]
    BY <1>5, <1>d DEF SetNoNet, TypeOK
  <2>2. \A d \in Callers : d # c => notice[d].pc \notin {"handle", "found", "lost"}
    BY <2>1 DEF TypeOK
  <2>3. isNoNet' \in BOOLEAN /\ (isNoNet' <=> notice[c].pc = "lost") /\ told' = TRUE
    BY <1>5 DEF SetNoNet
  <2>4. TypeOK'
    BY <1>5, <2>1, <2>2, <2>3, NetAssumption DEF SetNoNet, TypeOK
  <2>5. FlagIsOnItsWay'
    BY <1>5, <2>1, <2>2, <2>3 DEF SetNoNet, FlagIsOnItsWay, Seen, Setting
  <2>6. LossIsExplained'
    BY <1>5, <2>1, <2>3 DEF SetNoNet, LossIsExplained
  <2> QED BY <2>4, <2>5, <2>6
<1> QED BY <1>1, <1>2, <1>3, <1>4, <1>5 DEF Deliver

\* Downloads, the observer and the end of the process (Next).
LEMMA NetStep == NetInv /\ [Next]_vars => NetInv'
<1> SUFFICES ASSUME NetInv, [Next]_vars PROVE NetInv'
  OBVIOUS
<1> USE DEF NetInv
<1>1. ASSUME NEW c \in Callers,
             \/ NetLost(c) \/ Deliver(c)
             \/ \E internet \in BOOLEAN, b \in SUBSET Bearers : NetCapabilitiesChange(c, internet, b)
      PROVE  NetInv'
  <2>1. "NO_NET" \in NetTypes
    BY DEF NetTypes
  <2> QED BY <1>1, <2>1, BearersGiveType, ReportKeepsInv, DeliverKeepsInv
             DEF NetLost, NetCapabilitiesChange
<1>2. CASE StartObserver \/ RegisterNetConnCallback
  <2>1. /\ observer' \in {"off", "starting", "on", "failed"} /\ retryCount' \in 0..RetryMax
        /\ observer' \in {"off", "starting"} => retryCount' < RetryMax
    <3>1. CASE StartObserver
      BY <3>1 DEF StartObserver, TypeOK
    <3>2. CASE RegisterNetConnCallback
      BY <3>2, NetAssumption DEF RegisterNetConnCallback, TypeOK
    <3> QED BY <1>2, <3>1, <3>2
  <2>2. UNCHANGED <<reported, netType, listener, isNoNet, mutex, notice, download, excused, told>>
    BY <1>2 DEF StartObserver, RegisterNetConnCallback, memory
  <2> QED BY <2>1, <2>2 DEF TypeOK, FlagIsOnItsWay, LossIsExplained, Seen, Setting
<1>3. CASE RegisterNetChangedListener
  <2>1. listener' = NetTypes
    BY <1>3 DEF RegisterNetChangedListener, RegisterCallback, NetTypes
  <2> QED BY <1>3, <2>1
             DEF RegisterNetChangedListener, RegisterCallback, TypeOK, FlagIsOnItsWay,
                 LossIsExplained, Seen, Setting
<1>4. CASE UnregisterCallback
  <2>1. \A c \in Callers : notice'[c].pc = "idle"
    BY <1>4 DEF UnregisterCallback, Delivering
  <2>2. TypeOK'
    <3>1. isNoNet' \in BOOLEAN /\ download' \in BOOLEAN /\ excused' \in BOOLEAN /\ told' \in BOOLEAN
      BY <1>4, Zenon DEF UnregisterCallback
    <3>2. 0 \in 0..RetryMax /\ 0 < RetryMax
      BY NetAssumption
    <3> QED BY <1>4, <3>1, <3>2 DEF UnregisterCallback, TypeOK, NetTypes
  <2>3. FlagIsOnItsWay'
    BY <1>4, <2>1 DEF UnregisterCallback, FlagIsOnItsWay, Setting
  <2>4. LossIsExplained'
    BY <1>4 DEF UnregisterCallback, LossIsExplained
  <2> QED BY <2>2, <2>3, <2>4
<1>5. CASE StartDownload
  <2>1. /\ download' = TRUE /\ excused' \in BOOLEAN /\ netType # "NO_NET"
        /\ (\E c \in Callers : notice[c].pc # "idle") => excused'
    BY <1>5 DEF StartDownload, IsNetAvailable, Delivering
  <2>2. isNoNet => excused'
    BY <2>1 DEF FlagIsOnItsWay, LossIsExplained, Seen, Setting
  <2> QED BY <1>5, <2>1, <2>2
             DEF StartDownload, memory, TypeOK, FlagIsOnItsWay, LossIsExplained, Seen, Setting
<1>6. CASE DealAbnormal \/ EndDownload
  <2>1. /\ download' = FALSE
        /\ UNCHANGED <<observer, retryCount, reported, netType, listener, isNoNet, mutex, notice,
                       excused, told>>
    BY <1>6 DEF DealAbnormal, EndDownload, memory
  <2>2. TypeOK'
    BY <2>1 DEF TypeOK
  <2>3. FlagIsOnItsWay'
    BY <2>1 DEF FlagIsOnItsWay, Seen, Setting
  <2>4. LossIsExplained'
    BY <2>1 DEF LossIsExplained
  <2> QED BY <2>2, <2>3, <2>4
<1>7. CASE UNCHANGED vars
  BY <1>7 DEF vars, memory, TypeOK, FlagIsOnItsWay, LossIsExplained, Seen, Setting
<1> QED BY <1>1, <1>2, <1>3, <1>4, <1>5, <1>6, <1>7 DEF Next

-----------------------------------------------------------------------------
\* The variables keep their types, and the mutex excludes: who holds it, and nobody else, is
\* inside the callbacks.
THEOREM NetTypeOK == Spec => []TypeOK
<1>1. NetInv => TypeOK
  BY DEF NetInv
<1> QED BY NetInit, NetStep, <1>1, PTL DEF Spec

\* However many notices interleave, when none is under way the flag says what the type says
\* (HandleNetChanged).
THEOREM FlagAlwaysFollows == Spec => []FlagFollowsNetwork
<1>1. NetInv => FlagFollowsNetwork
  BY NetInvFlag
<1> QED BY NetInit, NetStep, <1>1, PTL DEF Spec

\* No flag of an earlier loss fails a later download (StartDownload, DealAbnormal).
THEOREM NetFailureAlwaysExplained == Spec => []NetFailureIsExplained
<1>1. NetInv => NetFailureIsExplained
  BY NetInvFlag
<1> QED BY NetInit, NetStep, <1>1, PTL DEF Spec
=============================================================================
