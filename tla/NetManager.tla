----------------------------- MODULE NetManager -----------------------------
(***************************************************************************)
(* How the service follows the network, and how a running download learns  *)
(* that it is gone.                                                        *)
(*                                                                         *)
(* dupdate_net_observer.cpp     notices of the network service             *)
(* dupdate_net_manager.cpp      netType_ and the callbacks of its changes  *)
(* firmware_event_listener.cpp  the callback of the firmware manager       *)
(* firmware_manager.cpp         HandleNetChanged, which sets isNoNet_      *)
(*                                                                         *)
(* netType_ is written before netChangeMutex_ is taken and isNoNet_ is     *)
(* read by the download thread under no lock at all.  Callers are the      *)
(* threads on which the network service calls the observer.                *)
(***************************************************************************)
EXTENDS Naturals

CONSTANTS
  Callers,   \* threads that deliver notices
  None,      \* no thread
  RetryMax   \* RETRY_MAX_TIMES

ASSUME NetAssumption == None \notin Callers /\ RetryMax \in Nat \ {0}

VARIABLES
  observer,   \* "off", "starting", "on" or "failed"
  retryCount, \* attempts to register the observer that failed
  reported,   \* last notice of the network service, as a type
  netType,    \* netType_
  listener,   \* net types of the callback HOTA_DOWNLOAD, {} if there is none
  isNoNet,    \* ProgressThread::isNoNet_
  mutex,      \* holder of netChangeMutex_
  notice,     \* what the callers are doing
  download,   \* a download thread is running
  excused,    \* ghost: the download has run without network, or begun during a notice
  told        \* ghost: HandleNetChanged has run

memory == <<netType, listener, isNoNet>>
vars == <<observer, retryCount, reported, memory, mutex, notice, download, excused, told>>

-----------------------------------------------------------------------------
NetTypes == {"NO_NET", "CELLULAR", "METERED_WIFI", "NOT_METERED_WIFI"}
Bearers == {"CELLULAR", "WIFI", "WIFI_AWARE", "ETHERNET", "VPN"}
Idle == [pc |-> "idle", type |-> "NO_NET"]

\* A process that has just been started.
Init ==
  /\ observer = "off" /\ retryCount = 0 /\ reported = "NO_NET"
  /\ netType = "NO_NET" /\ listener = {} /\ isNoNet = FALSE
  /\ mutex = None /\ notice = [c \in Callers |-> Idle]
  /\ download = FALSE /\ excused = FALSE /\ told = FALSE

\* With the default argument, any network.
IsNetAvailable == netType # "NO_NET"

Goto(c, pc) == notice' = [notice EXCEPT ![c] = [pc |-> pc, type |-> notice[c].type]]
Done(c) == notice' = [notice EXCEPT ![c] = Idle]

\* A notice is between its arrival and the end of its callbacks.
Delivering == \E c \in Callers : notice[c].pc # "idle"

-----------------------------------------------------------------------------
(* The observer *)

\* OnStart of the service.
StartObserver ==
  /\ observer = "off" /\ observer' = "starting"
  /\ UNCHANGED <<retryCount, reported, memory, mutex, notice, download, excused, told>>

\* The detached thread tries once a second and gives up after RetryMax failures.
RegisterNetConnCallback ==
  /\ observer = "starting"
  /\ \/ observer' = "on" /\ UNCHANGED retryCount
     \/ /\ retryCount' = retryCount + 1
        /\ observer' = IF retryCount + 1 < RetryMax THEN observer ELSE "failed"
  /\ UNCHANGED <<reported, memory, mutex, notice, download, excused, told>>

\* Notice of type t on a thread c: the observer calls OnNetChange of the manager.
Report(c, t) ==
  /\ observer = "on" /\ notice[c].pc = "idle"
  /\ reported' = t
  /\ notice' = [notice EXCEPT ![c] = [pc |-> "compare", type |-> t]]
  /\ UNCHANGED <<observer, retryCount, memory, mutex, download, excused, told>>

\* The type of a network with internet and these bearers; some have none.
TypeOfBearers(b) ==
  IF {"ETHERNET", "WIFI"} \intersect b # {} THEN {"NOT_METERED_WIFI"}
  ELSE IF "WIFI_AWARE" \in b THEN {"METERED_WIFI"}
  ELSE IF "CELLULAR" \in b THEN {"CELLULAR"} ELSE {}

NetCapabilitiesChange(c, internet, b) ==
  \E t \in IF internet THEN TypeOfBearers(b) ELSE {"NO_NET"} : Report(c, t)

NetLost(c) == Report(c, "NO_NET")

-----------------------------------------------------------------------------
(* The manager *)

\* OnNetChange: a type that is the current one changes nothing.
CompareNetType(c) ==
  /\ notice[c].pc = "compare"
  /\ IF notice[c].type = netType THEN Done(c) ELSE Goto(c, "store")
  /\ UNCHANGED <<observer, retryCount, reported, memory, mutex, download, excused, told>>

\* The new type is stored, before the mutex is taken.
StoreNetType(c) ==
  /\ notice[c].pc = "store"
  /\ netType' = notice[c].type
  /\ excused' = (excused \/ notice[c].type = "NO_NET")
  /\ Goto(c, "lock")
  /\ UNCHANGED <<observer, retryCount, reported, listener, isNoNet, mutex, download, told>>

\* The callbacks are called under the mutex, if they are registered for the type.
OnNetChange(c) ==
  /\ notice[c].pc = "lock" /\ mutex = None
  /\ IF notice[c].type \in listener
     THEN mutex' = c /\ Goto(c, "handle")
     ELSE Done(c) /\ UNCHANGED mutex
  /\ UNCHANGED <<observer, retryCount, reported, memory, download, excused, told>>

\* Fault: the callback believes its argument.
HandleNetChangedArgument(c) ==
  /\ notice[c].pc = "handle"
  /\ Goto(c, IF notice[c].type = "NO_NET" THEN "lost" ELSE "found")
  /\ UNCHANGED <<observer, retryCount, reported, memory, mutex, download, excused, told>>
\* HandleNetChanged asks the manager again.  Resuming a paused download and the automatic
\* download are empty in this repository.
HandleNetChanged(c) ==
  /\ notice[c].pc = "handle"
  /\ Goto(c, IF IsNetAvailable THEN "found" ELSE "lost")
  /\ UNCHANGED <<observer, retryCount, reported, memory, mutex, download, excused, told>>

\* Fault: the flag is only ever raised.
SetNoNetOnly(c) ==
  /\ notice[c].pc \in {"found", "lost"}
  /\ isNoNet' = (isNoNet \/ notice[c].pc = "lost")
  /\ told' = TRUE /\ mutex' = None
  /\ Done(c)
  /\ UNCHANGED <<observer, retryCount, reported, netType, listener, download, excused>>
\* Fault: the flag is not raised.
SetNoNetNever(c) ==
  /\ notice[c].pc \in {"found", "lost"}
  /\ isNoNet' = FALSE
  /\ told' = TRUE /\ mutex' = None
  /\ Done(c)
  /\ UNCHANGED <<observer, retryCount, reported, netType, listener, download, excused>>
\* The flag is set, HandleNetChanged returns and the mutex is released.
SetNoNet(c) ==
  /\ notice[c].pc \in {"found", "lost"}
  /\ isNoNet' = (notice[c].pc = "lost")
  /\ told' = TRUE /\ mutex' = None
  /\ Done(c)
  /\ UNCHANGED <<observer, retryCount, reported, netType, listener, download, excused>>

\* RegisterCallback: refused without types.  All base types may be registered.
RegisterCallback(types) ==
  /\ types # {} /\ types \subseteq NetTypes
  /\ mutex = None
  /\ listener' = types
  /\ UNCHANGED <<observer, retryCount, reported, netType, isNoNet, mutex, notice, download, excused, told>>

\* DelayInit of the firmware manager, on its thread, some time after the start.
RegisterNetChangedListener ==
  /\ observer # "off" /\ listener = {}
  /\ RegisterCallback({"CELLULAR", "METERED_WIFI", "NOT_METERED_WIFI", "NO_NET"})

\* The firmware manager is destroyed and unregisters its callback, as the process ends.
UnregisterCallback ==
  /\ observer # "off" /\ mutex = None /\ ~Delivering
  /\ observer' = "off" /\ retryCount' = 0 /\ reported' = "NO_NET"
  /\ netType' = "NO_NET" /\ listener' = {} /\ isNoNet' = FALSE
  /\ download' = FALSE /\ excused' = FALSE /\ told' = FALSE
  /\ UNCHANGED <<mutex, notice>>

-----------------------------------------------------------------------------
(* Downloads *)

\* A download is accepted while a network is available, and its thread is started.
StartDownload ==
  /\ ~download /\ IsNetAvailable
  /\ download' = TRUE /\ excused' = Delivering
  /\ UNCHANGED <<observer, retryCount, reported, memory, mutex, notice, told>>

\* DealAbnormal: a progress callback finds the flag raised and fails the download.
DealAbnormal ==
  /\ download /\ isNoNet
  /\ download' = FALSE
  /\ UNCHANGED <<observer, retryCount, reported, memory, mutex, notice, excused, told>>

\* It ends for another reason.
EndDownload ==
  /\ download /\ ~isNoNet
  /\ download' = FALSE
  /\ UNCHANGED <<observer, retryCount, reported, memory, mutex, notice, excused, told>>

-----------------------------------------------------------------------------
Deliver(c) ==
  \/ CompareNetType(c) \/ StoreNetType(c) \/ OnNetChange(c)
  \/ HandleNetChanged(c) \/ SetNoNet(c)

Next ==
  \/ StartObserver \/ RegisterNetConnCallback
  \/ \E c \in Callers, internet \in BOOLEAN, b \in SUBSET Bearers :
       NetCapabilitiesChange(c, internet, b)
  \/ \E c \in Callers : NetLost(c) \/ Deliver(c)
  \/ RegisterNetChangedListener \/ UnregisterCallback
  \/ StartDownload \/ DealAbnormal \/ EndDownload

Spec == Init /\ [][Next]_vars

\* A delivery that has begun goes on, and a running download calls back.  Notices, requests
\* and the end of the process need not come.
FairSpec == Spec /\ WF_vars(DealAbnormal) /\ \A c \in Callers : WF_vars(Deliver(c))

-----------------------------------------------------------------------------
(* Properties *)

\* Type correctness; who holds the mutex is inside the callbacks, and nobody else is; the
\* observer has attempts left as long as it tries.
TypeOK ==
  /\ observer \in {"off", "starting", "on", "failed"} /\ retryCount \in 0..RetryMax
  /\ observer \in {"off", "starting"} => retryCount < RetryMax
  /\ reported \in NetTypes /\ netType \in NetTypes /\ listener \subseteq NetTypes
  /\ isNoNet \in BOOLEAN /\ download \in BOOLEAN /\ excused \in BOOLEAN /\ told \in BOOLEAN
  /\ notice \in [Callers -> [pc : {"idle", "compare", "store", "lock", "handle", "found", "lost"},
                             type : NetTypes]]
  /\ mutex \in Callers \union {None}
  /\ \A c \in Callers : notice[c].pc \in {"handle", "found", "lost"} <=> mutex = c

\* However notices interleave, once none is under way and the firmware manager has heard
\* of one, isNoNet_ says what netType_ says (HandleNetChanged asks again, under the mutex).
FlagFollowsNetwork == told /\ ~Delivering => (isNoNet <=> netType = "NO_NET")

\* A download fails for the network only if it has been gone since the download began, or
\* its return was just being announced when it began: no flag of an earlier loss is left
\* over for a later download (isNoNet_ is static).
NetFailureIsExplained == download /\ isNoNet => excused

\* A download that runs while the network is gone ends, or the network comes back, provided
\* the firmware manager listened in time.
LossStopsDownload ==
  (download /\ netType = "NO_NET" /\ told) ~> (~download \/ netType # "NO_NET")
=============================================================================
