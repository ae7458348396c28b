---------------------------- MODULE NapiSession ----------------------------
(***************************************************************************)
(* The sessions of the JavaScript kit: how a call of the update API        *)
(* becomes work on a pool thread and an answer on the JavaScript thread.   *)
(*                                                                         *)
(* update_module.cpp   the methods, the cached UpdateClient                *)
(* iupdater.cpp        StartSession, On, Off                               *)
(* session_manager.cpp the table of sessions, Emit, PublishToJS            *)
(* update_session.cpp  promise, callback and listener sessions             *)
(* update_client.cpp   the members that the calls share                    *)
(*                                                                         *)
(* Three kinds of thread interleave: the JavaScript thread (Start, On,     *)
(* Off, CompleteWork, PublishToJS), the pool threads (BeginWork, EndWork,  *)
(* Wake, Timeout) and the threads of the service's callbacks               *)
(* (NotifyCheckVersionDone, Emit, NotifyEventInfo).  Arguments and results *)
(* pass from one to the other through members of the UpdateClient, which   *)
(* no lock protects.  What is in them is module UpdateCall; here a value   *)
(* is the number of the call that gave it, or the age of the service's     *)
(* data when they were read.                                               *)
(***************************************************************************)
EXTENDS Integers, Sequences, FiniteSets

CONSTANTS
  Used,          \* the methods that JavaScript calls
  Handlers,      \* the functions it subscribes
  MaxSessions,   \* bound on the sessions ever started
  MaxAge,        \* bound on the changes of the service's data
  MaxEvents      \* bound on the events

ASSUME SessionAssumption == {MaxSessions, MaxAge, MaxEvents} \subseteq Nat

VARIABLES
  updater,    \* the UpdateClient: "none", "created", "registered" or "deaf"
  member,     \* its members
  sessions,   \* SessionManager::sessions_, by session id
  started,    \* g_sessionId
  age,        \* age of the data of the service
  answers,    \* answers to checks on their way to the client
  uv,         \* events queued to the JavaScript loop
  events,     \* number of events
  shown,      \* history: the answers each call got
  heard       \* history: how often each handler was called for each event

vars == <<updater, member, sessions, started, age, answers, uv, events, shown, heard>>

-----------------------------------------------------------------------------
(* The methods: the members their arguments are parsed into and their        *)
(* result is stored in, and whether they have an answer.                     *)

Method(args, result) == [args |-> args, result |-> result]
Api ==
  [checkNewVersion |-> Method({}, "checkResult"),
   getNewVersionInfo |-> Method({}, "newVersionInfo"),
   getNewVersionDescription |-> Method({"digest", "description"}, "newDescription"),
   getCurrentVersionInfo |-> Method({}, "currentVersionInfo"),
   getCurrentVersionDescription |-> Method({"description"}, "currentDescription"),
   getTaskInfo |-> Method({}, "taskInfo"),
   setUpgradePolicy |-> Method({"policy"}, "none"),
   getUpgradePolicy |-> Method({}, "policy"),
   cancel |-> Method({}, "none"),
   download |-> Method({"digest", "download"}, "none"),
   pauseDownload |-> Method({"digest", "pause"}, "none"),
   resumeDownload |-> Method({"digest", "resume"}, "none"),
   upgrade |-> Method({"digest", "upgrade"}, "none"),
   clearError |-> Method({"digest", "clear"}, "none"),
   terminateUpgrade |-> Method({}, "none")]

ASSUME UsedAssumption == Used \subseteq DOMAIN Api

Arguments == UNION {Api[m].args : m \in DOMAIN Api}
Results == {Api[m].result : m \in DOMAIN Api}
Members == Arguments \union Results

IsAsyncCompleteWork(m) == m = "checkNewVersion"

SUCCESS == 0
FAIL == 100
TIME_OUT == 402
IPC_ERR == 104
PARAM_ERR == 401

-----------------------------------------------------------------------------
Init ==
  /\ updater = "none"
  /\ member = [n \in Members |-> 0]
  /\ sessions = <<>>
  /\ started = 0 /\ age = 0 /\ answers = {} /\ uv = {} /\ events = 0
  /\ shown = [id \in 1..MaxSessions |-> <<>>]
  /\ heard = [h \in Handlers |-> [e \in 1..MaxEvents |-> 0]]

\* getOnlineUpdater: the client is made once, and registers its callback once, on a thread
\* of its own.  A failed registration is not repeated.
GetOnlineUpdater ==
  /\ updater = "none" /\ updater' = "created"
  /\ UNCHANGED <<member, sessions, started, age, answers, uv, events, shown, heard>>

InitCallback ==
  /\ updater = "created" /\ updater' \in {"registered", "deaf"}
  /\ UNCHANGED <<member, sessions, started, age, answers, uv, events, shown, heard>>

\* UnwrapJsObject
HasClient == updater # "none"

-----------------------------------------------------------------------------
(* iupdater.cpp, session_manager.cpp: the JavaScript thread *)

AddSession(s) ==
  sessions' = [id \in DOMAIN sessions \union {started + 1} |->
                 IF id = started + 1 THEN s ELSE sessions[id]]
\* Session s with these fields changed.
With(s, new) == [k \in DOMAIN s |-> IF k \in DOMAIN new THEN new[k] ELSE s[k]]
Change(id, new) == sessions' = [sessions EXCEPT ![id] = With(sessions[id], new)]
RemoveSession(id) == sessions' = [i \in DOMAIN sessions \ {id} |-> sessions[i]]

Calls == {id \in DOMAIN sessions : sessions[id].kind # "listener"}

\* History: the ages of the data that a call made now may be shown without its own request:
\* what other requests bring back, and the last answer to a check that is still passed on.
Underway(m) ==
  {age} \union
    IF IsAsyncCompleteWork(m)
    THEN {member["checkResult"] : a \in {b \in answers : b.written}}
    ELSE {sessions[id].reply : id \in {i \in Calls : /\ sessions[i].phase = "asking"
                                                  /\ Api[sessions[i].m].result = Api[m].result}}

\* A session; "since" is history.
NewSession(m, kind) ==
  [m |-> m, kind |-> kind, phase |-> "queued", asked |-> <<>>, reply |-> 0,
   workResult |-> SUCCESS, businessError |-> SUCCESS, asyncExecuteComplete |-> FALSE,
   since |-> IF kind = "listener" THEN {} ELSE Underway(m)]

\* StartWork of the three kinds of session: a callback is a function, a promise needs none.
AsyncStartWork(m, last) == last = "function" /\ AddSession(NewSession(m, "callback"))
PromiseStartWork(m, last) == last = "none" /\ AddSession(NewSession(m, "promise"))
ListenerStartWork(h) == AddSession(NewSession(h, "listener"))

\* Fault: with a callback the arguments are not parsed.
StartSessionUnparsed(m, last) ==
  /\ HasClient /\ started < MaxSessions
  /\ started' = started + 1
  /\ last # "other"
  /\ member' = [n \in Members |-> IF n \in Api[m].args /\ last = "none" THEN started + 1 ELSE member[n]]
  /\ AddSession(NewSession(m, IF last = "none" THEN "promise" ELSE "callback"))
  /\ UNCHANGED <<updater, age, answers, uv, events, shown, heard>>
\* A call: the arguments are parsed into the members, a session is added and its work
\* queued.  With a last argument the session calls it back, without one it is a promise;
\* a last argument that is not a function is refused and the session removed again.
StartSession(m, last) ==
  /\ HasClient /\ started < MaxSessions
  /\ started' = started + 1
  /\ member' = [n \in Members |-> IF n \in Api[m].args THEN started + 1 ELSE member[n]]
  /\ \/ PromiseStartWork(m, last) /\ UNCHANGED shown
     \/ AsyncStartWork(m, last) /\ UNCHANGED shown
     \/ /\ last = "other" /\ UNCHANGED sessions
        /\ shown' = [shown EXCEPT ![started + 1] = <<[error |-> PARAM_ERR, value |-> 0]>>]
  /\ UNCHANGED <<updater, age, answers, uv, events, heard>>

\* cancel(): a session nobody is told the end of.
CancelUpgrade ==
  /\ HasClient /\ started < MaxSessions
  /\ started' = started + 1
  /\ AddSession(NewSession("cancel", "silent"))
  /\ UNCHANGED <<updater, member, age, answers, uv, events, shown, heard>>

Listeners == {id \in DOMAIN sessions : sessions[id].kind = "listener"}
FindSessionByHandle(h) == {id \in Listeners : sessions[id].m = h}

\* Fault: the handler is subscribed again.
OnTwice(h) ==
  /\ HasClient /\ started < MaxSessions
  /\ started' = started + 1
  /\ ListenerStartWork(h)
  /\ UNCHANGED <<updater, member, age, answers, uv, events, shown, heard>>
On(h) ==
  /\ HasClient /\ started < MaxSessions
  /\ FindSessionByHandle(h) = {}
  /\ started' = started + 1
  /\ ListenerStartWork(h)
  /\ UNCHANGED <<updater, member, age, answers, uv, events, shown, heard>>

\* Unsubscribe: one handler, or without a handler all of them.
Off(handles) ==
  /\ HasClient
  /\ sessions' = [id \in DOMAIN sessions \ {i \in Listeners : sessions[i].m \in handles}
                    |-> sessions[id]]
  /\ UNCHANGED <<updater, member, started, age, answers, uv, events, shown, heard>>

-----------------------------------------------------------------------------
(* update_session.cpp: a pool thread *)

\* doWorker_ reads the members and sends the request; the service answers with its data.
BeginWork(id) ==
  /\ id \in Calls /\ sessions[id].phase = "queued"
  /\ Change(id, [phase |-> "asking", reply |-> age,
                 asked |-> [n \in Api[sessions[id].m].args |-> member[n]]])
  /\ UNCHANGED <<updater, member, started, age, answers, uv, events, shown, heard>>

\* The request came back: the result goes into its member.  A check that was accepted is
\* answered later by the callback, which is lost when nothing is registered for it.
EndWork(id) ==
  /\ id \in Calls /\ sessions[id].phase = "asking"
  /\ LET m == sessions[id].m IN
     \/ /\ Change(id, [phase |-> "executed", workResult |-> IPC_ERR])
        /\ UNCHANGED <<member, answers>>
     \/ /\ ~IsAsyncCompleteWork(m)
        /\ \E err \in {SUCCESS, FAIL} :
             Change(id, [phase |-> "executed", businessError |-> err])
        /\ member' = IF Api[m].result = "none" THEN member
                     ELSE [member EXCEPT ![Api[m].result] = sessions[id].reply]
        /\ UNCHANGED answers
     \/ /\ IsAsyncCompleteWork(m)
        /\ Change(id, [phase |-> "waiting"])
        /\ answers' \in {answers} \union
             (IF updater = "registered"
              THEN {answers \union {[id |-> id, err |-> e, written |-> FALSE]} : e \in {SUCCESS, FAIL}}
              ELSE {})
        /\ UNCHANGED member
  /\ UNCHANGED <<updater, started, age, uv, events, shown, heard>>

\* ExecuteWork waits for the answer of the check, at most 40 seconds.
Wake(id) ==
  /\ id \in Calls /\ sessions[id].phase = "waiting" /\ sessions[id].asyncExecuteComplete
  /\ Change(id, [phase |-> "executed"])
  /\ UNCHANGED <<updater, member, started, age, answers, uv, events, shown, heard>>

\* Fault: the wait has no limit.
TimeoutNever(id) == FALSE /\ UNCHANGED vars
Timeout(id) ==
  /\ id \in Calls /\ sessions[id].phase = "waiting" /\ ~sessions[id].asyncExecuteComplete
  /\ Change(id, [phase |-> "executed", businessError |-> TIME_OUT])
  /\ UNCHANGED <<updater, member, started, age, answers, uv, events, shown, heard>>

-----------------------------------------------------------------------------
(* The callbacks of the service *)

Data == IF age = 0 THEN 1 ELSE age

\* UpdateClient::NotifyCheckVersionDone: the result first, 0 where the check failed ...
NotifyCheckVersionDone(a) ==
  /\ a \in answers /\ ~a.written
  /\ member' = [member EXCEPT !["checkResult"] = IF a.err = SUCCESS THEN Data ELSE 0]
  /\ answers' = (answers \ {a}) \union {[a EXCEPT !.written = TRUE]}
  /\ UNCHANGED <<updater, sessions, started, age, uv, events, shown, heard>>

\* ... then the error, to every check session there is: OnAsyncComplete.
Emit(a) ==
  /\ a \in answers /\ a.written
  /\ sessions' = [id \in DOMAIN sessions |->
       IF id \in Calls /\ IsAsyncCompleteWork(sessions[id].m)
       THEN With(sessions[id], [businessError |-> a.err, asyncExecuteComplete |-> TRUE])
       ELSE sessions[id]]
  /\ answers' = answers \ {a}
  /\ UNCHANGED <<updater, member, started, age, uv, events, shown, heard>>

\* An event is queued to the JavaScript loop.
NotifyEventInfo ==
  /\ updater = "registered" /\ events < MaxEvents
  /\ events' = events + 1 /\ uv' = uv \union {events + 1}
  /\ UNCHANGED <<updater, member, sessions, started, age, answers, shown, heard>>

\* The pool threads pass the queued work on in any order.
PublishToJS(e) ==
  /\ e \in uv /\ uv' = uv \ {e}
  /\ heard' = [h \in Handlers |->
       [heard[h] EXCEPT ![e] = @ + Cardinality(FindSessionByHandle(h))]]
  /\ UNCHANGED <<updater, member, sessions, started, age, answers, events, shown>>

-----------------------------------------------------------------------------
(* The JavaScript thread again *)

\* Fault: the task is shown from the member of the new version.
GetUpdateResultMixed(m) == member["newVersionInfo"]
GetUpdateResult(m) == IF Api[m].result = "none" THEN 0 ELSE member[Api[m].result]

GetBusinessError(s) == IF s.workResult # SUCCESS THEN s.workResult ELSE s.businessError

\* The callback gets an error or a result, the promise is rejected or resolved.
AsyncNotifyJS(s) ==
  LET error == GetBusinessError(s) IN
  [error |-> error, value |-> IF error # SUCCESS THEN 0 ELSE GetUpdateResult(s.m)]
Reject(error) == [error |-> error, value |-> 0]
Resolve(value) == [error |-> SUCCESS, value |-> value]
PromiseNotifyJS(s) ==
  IF GetBusinessError(s) = SUCCESS THEN Resolve(GetUpdateResult(s.m))
  ELSE Reject(GetBusinessError(s))
NotifyJS(s) ==
  CASE s.kind = "callback" -> <<AsyncNotifyJS(s)>>
    [] s.kind = "promise" -> <<PromiseNotifyJS(s)>>
    [] OTHER -> <<>>

\* Fault: the first session that ends empties the table.
CompleteWorkClears(id) ==
  /\ id \in Calls /\ sessions[id].phase = "executed"
  /\ shown' = [shown EXCEPT ![id] = @ \o NotifyJS(sessions[id])]
  /\ sessions' = <<>>
  /\ UNCHANGED <<updater, member, started, age, answers, uv, events, heard>>
CompleteWork(id) ==
  /\ id \in Calls /\ sessions[id].phase = "executed"
  /\ shown' = [shown EXCEPT ![id] = @ \o NotifyJS(sessions[id])]
  /\ RemoveSession(id)
  /\ UNCHANGED <<updater, member, started, age, answers, uv, events, heard>>

\* The upgrade goes on in the service.
ServiceChanges ==
  /\ age < MaxAge /\ age' = age + 1
  /\ UNCHANGED <<updater, member, sessions, started, answers, uv, events, shown, heard>>

Ids == 1..MaxSessions

Next ==
  \/ GetOnlineUpdater \/ InitCallback
  \/ \E m \in Used \ {"cancel"}, last \in {"none", "function", "other"} : StartSession(m, last)
  \/ "cancel" \in Used /\ CancelUpgrade
  \/ \E h \in Handlers : On(h) \/ Off({h})
  \/ Handlers # {} /\ Off(Handlers)
  \/ \E id \in Ids : BeginWork(id) \/ EndWork(id) \/ Wake(id) \/ Timeout(id) \/ CompleteWork(id)
  \/ \E a \in answers : NotifyCheckVersionDone(a) \/ Emit(a)
  \/ NotifyEventInfo
  \/ \E e \in uv : PublishToJS(e)
  \/ ServiceChanges

Spec == Init /\ [][Next]_vars

\* The pool and the JavaScript loop run what is queued, a request to the service comes back
\* (a dead service fails it), and the wait for a check ends after 40 seconds.
Work(id) == BeginWork(id) \/ EndWork(id) \/ Wake(id) \/ Timeout(id) \/ CompleteWork(id)
LiveSpec == Spec /\ \A id \in Ids : WF_vars(Work(id))

-----------------------------------------------------------------------------
(* Properties *)

\* Type correctness.  Only check sessions wait, and only sessions of calls carry work.
TypeOK ==
  /\ updater \in {"none", "created", "registered", "deaf"}
  /\ member \in [Members -> 0..(MaxSessions + MaxAge + 1)]
  /\ DOMAIN sessions \subseteq 1..started /\ started \in 0..MaxSessions
  /\ \A id \in DOMAIN sessions :
       /\ sessions[id].phase \in {"queued", "asking", "waiting", "executed"}
       /\ sessions[id].kind = "listener" => sessions[id].phase = "queued"
       /\ sessions[id].phase = "waiting" => sessions[id].m = "checkNewVersion"
  /\ uv \subseteq 1..events

\* A call is answered at most once, and as long as its session is there it is not answered:
\* CompleteWork tells JavaScript and removes the session in one step of the loop.
AnsweredOnce ==
  \A id \in Ids : /\ Len(shown[id]) <= 1
                  /\ id \in DOMAIN sessions => shown[id] = <<>>

\* However calls overlap on the members, the service is never asked with the arguments of an
\* earlier call: with those of the call that asks, or of a later one that overwrote them before
\* the pool came to it.  The policy, which is a result too, may also be what the service had.
OwnArguments ==
  \A id \in Calls :
    sessions[id].phase # "queued" =>
      \A n \in DOMAIN sessions[id].asked \ Results : sessions[id].asked[n] \in id .. started

\* However calls overlap on the member of their result, none is answered with data older than
\* all that were on their way when it was made: its own, those of a request not yet back, or
\* an answer to an earlier check.  A check may end well with nothing at all: the answer that
\* wakes it and the one that is in the member need not be the same.
AnswerIsFresh ==
  [][\A id \in Calls :
       (/\ id \notin DOMAIN sessions'
        /\ shown'[id] # shown[id] /\ shown'[id][1].error = SUCCESS
        /\ Api[sessions[id].m].result \notin Arguments \union {"none"})
       => LET value == shown'[id][1].value IN
          \/ \E x \in sessions[id].since : value >= x
          \/ IsAsyncCompleteWork(sessions[id].m) /\ value = 0]_vars

\* A handler is called at most once for an event, however often it was subscribed: On
\* refuses a handler that FindSessionByHandle knows.
HeardOnce == \A h \in Handlers, e \in 1..MaxEvents : heard[h][e] <= 1

\* Every call of a method with an answer is answered, even when the service dies, refuses
\* or never calls back.
EveryCallIsAnswered ==
  \A id \in Ids : (id \in Calls /\ sessions[id].kind # "silent") ~> (shown[id] # <<>>)

\* The kit implements AsyncCalls: a call is made once, stays open while its session is in
\* the table, and what ends it ends it for good (StartSession, CompleteWork, RemoveSession).
CallState ==
  [id \in Ids |-> IF id > started THEN "new"
                 ELSE IF id \in Calls THEN "open"
                 ELSE IF shown[id] # <<>> THEN "answered" ELSE "closed"]
Kit == INSTANCE AsyncCalls WITH call <- CallState, made <- started, Ids <- Ids
ImplementsAsyncCalls == Kit!Spec

=============================================================================
