------------------------- MODULE NapiSession_proofs -------------------------
(***************************************************************************)
(* Proofs about NapiSession, for any methods, handlers and numbers of      *)
(* sessions, events and changes of the service's data: every call is       *)
(* answered at most once, the kit implements AsyncCalls, a handler hears   *)
(* an event once, and a subscription is never given work.  However calls   *)
(* overlap on the members of the client, the service is never asked with   *)
(* arguments older than the call, and no call is answered with data older  *)
(* than all that were underway when it was made.                           *)
(***************************************************************************)
EXTENDS NapiSession, FiniteSetTheorems, TLAPS

\* The table holds records of sessions that were started, each of a known kind, and nothing
\* has been shown of a session in the table, or not yet started.
Kinds == {"callback", "promise", "silent", "listener"}
Fields == {"m", "kind", "phase", "asked", "reply", "workResult", "businessError",
           "asyncExecuteComplete", "since"}
TableInv ==
  /\ started \in 0..MaxSessions
  /\ DOMAIN sessions \subseteq 1..started
  /\ sessions = [i \in DOMAIN sessions |-> sessions[i]]
  /\ \A i \in DOMAIN sessions :
       /\ sessions[i] = [k \in Fields |-> sessions[i][k]]
       /\ sessions[i].kind \in Kinds
OneOrNone(s) == s = <<>> \/ \E a : s = <<a>>
AnswerInv ==
  /\ shown = [i \in Ids |-> shown[i]]
  /\ \A i \in Ids : /\ OneOrNone(shown[i])
                    /\ i \in DOMAIN sessions \/ i > started => shown[i] = <<>>

SessionInv == TableInv /\ AnswerInv

-----------------------------------------------------------------------------
\* The invariant holds before the first call (Init), and maps to no call at all.
LEMMA SessionInit == Init => SessionInv /\ Kit!Init
<1> SUFFICES ASSUME Init PROVE SessionInv /\ Kit!Init
  OBVIOUS
<1>1. DOMAIN sessions = {} /\ started = 0 /\ shown = [i \in Ids |-> <<>>]
  BY DEF Init, Ids
<1>2. TableInv
  BY <1>1, SessionAssumption DEF TableInv, Init
<1>3. AnswerInv
  BY <1>1 DEF AnswerInv, OneOrNone
<1>4. CallState = [i \in Ids |-> "new"]
  BY <1>1, SessionAssumption DEF CallState, Ids
<1> QED BY <1>1, <1>2, <1>3, <1>4 DEF SessionInv, Kit!Init

\* A session that is added is the next call (AddSession).
LEMMA AddMakesCall ==
  ASSUME SessionInv, NEW s, s = [k \in Fields |-> s[k]], s.kind \in Kinds, AddSession(s),
         started < MaxSessions, started' = started + 1, UNCHANGED shown
  PROVE  SessionInv' /\ Kit!Make
<1> USE DEF SessionInv
<1>n. started \in Nat /\ MaxSessions \in Nat /\ started + 1 \in Ids /\ started + 1 \notin DOMAIN sessions
  BY SessionAssumption DEF TableInv, Ids
<1>1. /\ DOMAIN sessions' = DOMAIN sessions \union {started + 1}
      /\ sessions'[started + 1] = s
      /\ \A i \in DOMAIN sessions : sessions'[i] = sessions[i]
      /\ sessions' = [i \in DOMAIN sessions' |-> sessions'[i]]
  BY <1>n DEF AddSession
<1>2. TableInv'
  <2>1. \A i \in DOMAIN sessions' : i \in DOMAIN sessions \/ (i = started + 1 /\ sessions'[i] = s)
    BY <1>1
  <2>2. \A i \in DOMAIN sessions' :
          /\ sessions'[i] = [k \in Fields |-> sessions'[i][k]]
          /\ sessions'[i].kind \in Kinds
    BY <1>1, <2>1 DEF TableInv
  <2>3. started' \in 0..MaxSessions /\ DOMAIN sessions' \subseteq 1..started'
    BY <1>1, <1>n DEF TableInv
  <2> QED BY <1>1, <2>2, <2>3 DEF TableInv
<1>3. AnswerInv'
  BY <1>1, <1>n DEF AnswerInv, Ids
<1>4. \A i \in Ids : i # started + 1 => CallState'[i] = CallState[i]
  BY <1>1, <1>n DEF CallState, Calls, Ids
<1>5. CallState'[started + 1] \in {"open", "closed"}
  BY <1>1, <1>n DEF CallState, Calls, Ids, AnswerInv
<1>6. CallState' = [CallState EXCEPT ![started + 1] = CallState'[started + 1]]
  BY <1>4, <1>n DEF CallState
<1> QED BY <1>2, <1>3, <1>5, <1>6, <1>n DEF Kit!Make

\* A step that changes nothing of a session but what its work does is a stutter (BeginWork,
\* EndWork, Emit).
LEMMA WorkStutters ==
  ASSUME SessionInv, DOMAIN sessions' = DOMAIN sessions,
         sessions' = [i \in DOMAIN sessions' |-> sessions'[i]],
         \A i \in DOMAIN sessions : /\ sessions'[i] = [k \in Fields |-> sessions'[i][k]]
                                    /\ sessions'[i].kind = sessions[i].kind,
         UNCHANGED <<started, shown>>
  PROVE  SessionInv' /\ UNCHANGED Kit!vars
<1> USE DEF SessionInv
<1>1. TableInv'
  BY DEF TableInv
<1>2. AnswerInv'
  BY DEF AnswerInv
<1>3. Calls' = Calls
  BY DEF Calls
<1>4. CallState' = CallState
  BY <1>3 DEF CallState
<1> QED BY <1>1, <1>2, <1>4 DEF Kit!vars

\* Changing fields of a session leaves the table a table of sessions of the same kind (With).
LEMMA ChangeStutters ==
  ASSUME SessionInv, NEW id \in DOMAIN sessions, NEW new, "kind" \notin DOMAIN new,
         Change(id, new), UNCHANGED <<started, shown>>
  PROVE  SessionInv' /\ UNCHANGED Kit!vars
<1> DEFINE r == With(sessions[id], new)
<1>1. r = [k \in Fields |-> r[k]] /\ r.kind = sessions[id].kind
  BY DEF With, SessionInv, TableInv, Fields
<1>2. sessions' = [sessions EXCEPT ![id] = r]
  BY DEF Change
<1> HIDE DEF r
<1>3. /\ DOMAIN sessions' = DOMAIN sessions
      /\ sessions' = [i \in DOMAIN sessions' |-> sessions'[i]]
      /\ \A i \in DOMAIN sessions : /\ sessions'[i] = [k \in Fields |-> sessions'[i][k]]
                                    /\ sessions'[i].kind = sessions[i].kind
  BY <1>1, <1>2 DEF SessionInv, TableInv
<1> QED BY <1>3, WorkStutters

\* The work of a session on a pool thread (BeginWork, EndWork, Wake, Timeout).
LEMMA PoolStutters ==
  ASSUME SessionInv, NEW id \in Ids, BeginWork(id) \/ EndWork(id) \/ Wake(id) \/ Timeout(id)
  PROVE  SessionInv' /\ UNCHANGED Kit!vars
<1>1. id \in DOMAIN sessions /\ UNCHANGED <<started, shown>>
  BY DEF Calls, BeginWork, EndWork, Wake, Timeout
<1>2. ASSUME NEW a, NEW b, NEW c, Change(id, [phase |-> a, reply |-> b, asked |-> c])
      PROVE  SessionInv' /\ UNCHANGED Kit!vars
  <2>1. "kind" \notin DOMAIN [phase |-> a, reply |-> b, asked |-> c]
    OBVIOUS
  <2> QED BY <1>1, <1>2, <2>1, ChangeStutters
<1>3. ASSUME NEW a, NEW b, Change(id, [phase |-> a, workResult |-> b])
      PROVE  SessionInv' /\ UNCHANGED Kit!vars
  <2>1. "kind" \notin DOMAIN [phase |-> a, workResult |-> b]
    OBVIOUS
  <2> QED BY <1>1, <1>3, <2>1, ChangeStutters
<1>4. ASSUME NEW a, NEW b, Change(id, [phase |-> a, businessError |-> b])
      PROVE  SessionInv' /\ UNCHANGED Kit!vars
  <2>1. "kind" \notin DOMAIN [phase |-> a, businessError |-> b]
    OBVIOUS
  <2> QED BY <1>1, <1>4, <2>1, ChangeStutters
<1>5. ASSUME NEW a, Change(id, [phase |-> a])
      PROVE  SessionInv' /\ UNCHANGED Kit!vars
  <2>1. "kind" \notin DOMAIN [phase |-> a]
    OBVIOUS
  <2> QED BY <1>1, <1>5, <2>1, ChangeStutters
<1> QED BY <1>2, <1>3, <1>4, <1>5 DEF BeginWork, EndWork, Wake, Timeout

\* The service's answer reaches every check session and removes none (Emit).
LEMMA EmitStutters ==
  ASSUME SessionInv, NEW a, Emit(a)
  PROVE  SessionInv' /\ UNCHANGED Kit!vars
<1> DEFINE new == [businessError |-> a.err, asyncExecuteComplete |-> TRUE]
<1>1. "kind" \notin DOMAIN new
  OBVIOUS
<1>2. sessions' = [i \in DOMAIN sessions |->
                     IF i \in Calls /\ IsAsyncCompleteWork(sessions[i].m)
                     THEN With(sessions[i], new) ELSE sessions[i]]
  BY DEF Emit
<1> HIDE DEF new
<1>3. \A i \in DOMAIN sessions :
        /\ With(sessions[i], new) = [k \in Fields |-> With(sessions[i], new)[k]]
        /\ With(sessions[i], new).kind = sessions[i].kind
  BY <1>1 DEF With, SessionInv, TableInv, Fields
<1>4. /\ DOMAIN sessions' = DOMAIN sessions
      /\ sessions' = [i \in DOMAIN sessions' |-> sessions'[i]]
      /\ \A i \in DOMAIN sessions : /\ sessions'[i] = [k \in Fields |-> sessions'[i][k]]
                                    /\ sessions'[i].kind = sessions[i].kind
  BY <1>2, <1>3 DEF SessionInv, TableInv
<1> QED BY <1>4, WorkStutters DEF Emit

-----------------------------------------------------------------------------
\* The end of a session finishes its call, for good (CompleteWork).
LEMMA CompleteFinishes ==
  ASSUME SessionInv, NEW id \in Ids, CompleteWork(id)
  PROVE  SessionInv' /\ Kit!Finish(id)
<1> USE DEF SessionInv
<1>1. /\ id \in DOMAIN sessions /\ sessions[id].kind \in Kinds \ {"listener"}
      /\ shown[id] = <<>> /\ started' = started
      /\ shown' = [shown EXCEPT ![id] = shown[id] \o NotifyJS(sessions[id])]
      /\ sessions' = [i \in DOMAIN sessions \ {id} |-> sessions[i]]
  BY DEF CompleteWork, Calls, TableInv, AnswerInv, RemoveSession
<1>2. NotifyJS(sessions[id]) = <<>> \/ \E a : NotifyJS(sessions[id]) = <<a>>
  BY <1>1 DEF NotifyJS, Kinds
<1>3. OneOrNone(shown'[id])
  BY <1>1, <1>2 DEF AnswerInv, OneOrNone
<1>4. /\ DOMAIN sessions' = DOMAIN sessions \ {id}
      /\ \A i \in DOMAIN sessions' : sessions'[i] = sessions[i]
      /\ sessions' = [i \in DOMAIN sessions' |-> sessions'[i]]
      /\ \A i \in Ids : i # id => shown'[i] = shown[i]
      /\ shown' = [i \in Ids |-> shown'[i]]
      /\ id \in 1..started /\ started \in Nat
  BY <1>1 DEF TableInv, AnswerInv
<1>5. TableInv'
  BY <1>1, <1>4 DEF TableInv
<1>6. AnswerInv'
  <2>1. \A i \in Ids : OneOrNone(shown'[i])
    BY <1>3, <1>4 DEF AnswerInv
  <2>2. \A i \in Ids : i \in DOMAIN sessions' \/ i > started' => shown'[i] = <<>>
    BY <1>1, <1>4 DEF AnswerInv, Ids
  <2> QED BY <1>4, <2>1, <2>2 DEF AnswerInv
<1>7. CallState[id] = "open" /\ CallState'[id] \in {"answered", "closed"}
  BY <1>1, <1>4 DEF CallState, Calls, Kinds
<1>8. \A i \in Ids : i # id => CallState'[i] = CallState[i]
  BY <1>1, <1>4 DEF CallState, Calls
<1>9. CallState' = [CallState EXCEPT ![id] = CallState'[id]]
  BY <1>8 DEF CallState
<1> QED BY <1>1, <1>5, <1>6, <1>7, <1>9 DEF Kit!Finish

\* A call whose last argument is no function is answered at once, without a session
\* (StartSession).
LEMMA RefusalMakesCall ==
  ASSUME SessionInv, NEW a, started < MaxSessions, started' = started + 1, UNCHANGED sessions,
         shown' = [shown EXCEPT ![started + 1] = <<a>>]
  PROVE  SessionInv' /\ Kit!Make
<1> USE DEF SessionInv
<1>1. started \in Nat /\ MaxSessions \in Nat /\ started + 1 \in Ids /\ started + 1 \notin DOMAIN sessions
  BY SessionAssumption DEF TableInv, Ids
<1>2. /\ shown' = [i \in Ids |-> shown'[i]] /\ shown'[started + 1] = <<a>>
      /\ \A i \in Ids : i # started + 1 => shown'[i] = shown[i]
  BY <1>1 DEF AnswerInv
<1>3. TableInv'
  BY <1>1 DEF TableInv
<1>4. AnswerInv'
  <2>1. \A i \in Ids : OneOrNone(shown'[i])
    BY <1>2 DEF AnswerInv, OneOrNone
  <2>2. \A i \in Ids : i \in DOMAIN sessions' \/ i > started' => shown'[i] = <<>>
    BY <1>1, <1>2 DEF AnswerInv, Ids
  <2> QED BY <1>2, <2>1, <2>2 DEF AnswerInv
<1>a. <<a>> # <<>>
  OBVIOUS
<1>5. CallState'[started + 1] = "answered"
  BY <1>1, <1>2, <1>a DEF CallState, Calls
<1>6. \A i \in Ids : i # started + 1 => CallState'[i] = CallState[i]
  BY <1>1, <1>2 DEF CallState, Calls, Ids
<1>7. CallState' = [CallState EXCEPT ![started + 1] = "answered"]
  BY <1>1, <1>5, <1>6 DEF CallState
<1> QED BY <1>1, <1>3, <1>4, <1>7 DEF Kit!Make

-----------------------------------------------------------------------------
\* A new session is a record of a session of its kind (NewSession).
LEMMA NewIsSession ==
  ASSUME NEW m, NEW kind \in Kinds
  PROVE  /\ NewSession(m, kind) = [k \in Fields |-> NewSession(m, kind)[k]]
         /\ NewSession(m, kind).kind \in Kinds
BY DEF NewSession, Fields

\* Every step is a call made, a call finished or a stutter (Next).
LEMMA SessionStep == SessionInv /\ [Next]_vars => SessionInv' /\ [Kit!Next]_(Kit!vars)
<1> SUFFICES ASSUME SessionInv, [Next]_vars PROVE SessionInv' /\ [Kit!Next]_(Kit!vars)
  OBVIOUS
<1> DEFINE Good == SessionInv' /\ [Kit!Next]_(Kit!vars)
<1>m. ASSUME Kit!Make PROVE Kit!Next
  BY <1>m DEF Kit!Next
<1>k. "callback" \in Kinds /\ "promise" \in Kinds /\ "silent" \in Kinds /\ "listener" \in Kinds
  BY DEF Kinds
<1>s. ASSUME UNCHANGED <<sessions, started, shown>> PROVE SessionInv' /\ UNCHANGED Kit!vars
  BY <1>s, WorkStutters DEF SessionInv, TableInv
<1>1. ASSUME NEW m, NEW last, StartSession(m, last) PROVE Good
  <2>1. CASE PromiseStartWork(m, last) /\ UNCHANGED shown
    BY <1>1, <1>k, <1>m, <2>1, NewIsSession, AddMakesCall DEF StartSession, PromiseStartWork
  <2>2. CASE AsyncStartWork(m, last) /\ UNCHANGED shown
    BY <1>1, <1>k, <1>m, <2>2, NewIsSession, AddMakesCall DEF StartSession, AsyncStartWork
  <2>3. CASE /\ UNCHANGED sessions
             /\ shown' = [shown EXCEPT ![started + 1] = <<[error |-> PARAM_ERR, value |-> 0]>>]
    BY <1>1, <1>m, <2>3, RefusalMakesCall DEF StartSession
  <2> QED BY <1>1, <2>1, <2>2, <2>3 DEF StartSession
<1>2. ASSUME CancelUpgrade PROVE Good
  BY <1>2, <1>k, <1>m, NewIsSession, AddMakesCall DEF CancelUpgrade
<1>3. ASSUME NEW h, On(h) PROVE Good
  BY <1>3, <1>k, <1>m, NewIsSession, AddMakesCall DEF On, ListenerStartWork
<1>4. ASSUME NEW handles, Off(handles) PROVE Good
  <2> DEFINE gone == {i \in Listeners : sessions[i].m \in handles}
  <2>1. /\ sessions' = [i \in DOMAIN sessions \ gone |-> sessions[i]]
        /\ started' = started /\ shown' = shown
    BY <1>4 DEF Off
  <2>2. \A i \in gone : i \in DOMAIN sessions /\ sessions[i].kind = "listener"
    BY DEF Listeners
  <2> HIDE DEF gone
  <2>3. /\ DOMAIN sessions' = DOMAIN sessions \ gone
        /\ \A i \in DOMAIN sessions' : sessions'[i] = sessions[i]
        /\ sessions' = [i \in DOMAIN sessions' |-> sessions'[i]]
    BY <2>1
  <2>4. TableInv'
    BY <2>1, <2>3 DEF SessionInv, TableInv
  <2>5. AnswerInv'
    BY <2>1, <2>3 DEF SessionInv, AnswerInv
  <2>6. Calls' = Calls
    BY <2>2, <2>3 DEF Calls
  <2>7. CallState' = CallState
    BY <2>1, <2>6 DEF CallState
  <2> QED BY <2>1, <2>4, <2>5, <2>7 DEF SessionInv, Kit!vars
<1>5. ASSUME NEW id \in Ids, BeginWork(id) \/ EndWork(id) \/ Wake(id) \/ Timeout(id) PROVE Good
  BY <1>5, PoolStutters
<1>6. ASSUME NEW id \in Ids, CompleteWork(id) PROVE Good
  BY <1>6, CompleteFinishes DEF Kit!Next
<1>7. ASSUME NEW a, Emit(a) PROVE Good
  BY <1>7, EmitStutters
<1>8. ASSUME NEW a, NotifyCheckVersionDone(a) PROVE Good
  BY <1>8, <1>s DEF NotifyCheckVersionDone
<1>9. ASSUME NEW e, PublishToJS(e) PROVE Good
  BY <1>9, <1>s DEF PublishToJS
<1>10. ASSUME GetOnlineUpdater \/ InitCallback \/ NotifyEventInfo \/ ServiceChanges PROVE Good
  BY <1>10, <1>s DEF GetOnlineUpdater, InitCallback, NotifyEventInfo, ServiceChanges
<1>11. ASSUME UNCHANGED vars PROVE Good
  BY <1>11, <1>s DEF vars
<1> HIDE DEF Good
<1> QED
  <2>1. Good
    BY <1>1, <1>2, <1>3, <1>4, <1>5, <1>6, <1>7, <1>8, <1>9, <1>10, <1>11 DEF Next
  <2> QED BY <2>1 DEF Good

-----------------------------------------------------------------------------
\* No call is answered twice, nor while its session is in the table (CompleteWork).
THEOREM AnsweredAtMostOnce == Spec => []AnsweredOnce
<1>1. SessionInv => AnsweredOnce
  <2>1. ASSUME NEW s, OneOrNone(s) PROVE Len(s) <= 1
    <3>1. Len(<<>>) <= 1
      OBVIOUS
    <3>2. ASSUME NEW a PROVE Len(<<a>>) <= 1
      OBVIOUS
    <3> QED BY <2>1, <3>1, <3>2 DEF OneOrNone
  <2> QED BY <2>1 DEF SessionInv, AnswerInv, AnsweredOnce
<1> QED BY SessionInit, SessionStep, <1>1, PTL DEF Spec

\* The kit implements its promise: with callbacks and promises, pool threads, shared members
\* and answers of the service in any order, calls are made in order, and what ends one ends
\* it for good (StartSession, CompleteWork, RemoveSession).
THEOREM KitImplementsAsyncCalls == Spec => ImplementsAsyncCalls
BY SessionInit, SessionStep, PTL DEF Spec, ImplementsAsyncCalls, Kit!Spec

-----------------------------------------------------------------------------
(* Events: no handler is called twice for one.                             *)

\* No two sessions listen for the same handler.
ListenersApart == \A i, j \in Listeners : sessions[i].m = sessions[j].m => i = j

\* An event that is queued, or that has not happened, has not been heard.
HeardInv ==
  /\ events \in Nat /\ uv \subseteq 1..events
  /\ heard \in [Handlers -> [1..MaxEvents -> 0..1]]
  /\ \A h \in Handlers, e \in 1..MaxEvents : e \in uv \/ e > events => heard[h][e] = 0

\* What changes fields of one session changes no other, and of that one only those
\* (Change, With).
LEMMA ChangeFields ==
  ASSUME TableInv, NEW id \in DOMAIN sessions, NEW new, Change(id, new)
  PROVE  /\ DOMAIN sessions' = DOMAIN sessions
         /\ \A i \in DOMAIN sessions : i # id => sessions'[i] = sessions[i]
         /\ \A k \in Fields : sessions'[id][k] = IF k \in DOMAIN new THEN new[k] ELSE sessions[id][k]
<1> DEFINE r == With(sessions[id], new)
<1>1. \A k \in Fields : r[k] = IF k \in DOMAIN new THEN new[k] ELSE sessions[id][k]
  BY DEF With, TableInv
<1>2. sessions' = [sessions EXCEPT ![id] = r]
  BY DEF Change
<1> HIDE DEF r
<1> QED BY <1>1, <1>2 DEF TableInv

\* A session that is added is the only change (AddSession).
LEMMA AddChangesOne ==
  ASSUME TableInv, NEW s, AddSession(s)
  PROVE  /\ DOMAIN sessions' = DOMAIN sessions \union {started + 1}
         /\ started + 1 \notin DOMAIN sessions
         /\ sessions'[started + 1] = s
         /\ \A i \in DOMAIN sessions : sessions'[i] = sessions[i]
<1>1. started + 1 \notin DOMAIN sessions
  BY DEF TableInv
<1> QED BY <1>1 DEF AddSession

\* Steps that start no session for a handler leave the listeners apart.
LEMMA ApartWithout ==
  ASSUME ListenersApart,
         \A i \in DOMAIN sessions' : sessions'[i].kind = "listener" =>
             i \in DOMAIN sessions /\ sessions[i].kind = "listener" /\ sessions'[i].m = sessions[i].m
  PROVE  ListenersApart'
BY DEF ListenersApart, Listeners

\* The work of a session on a pool thread leaves its method and its kind (BeginWork, EndWork,
\* Wake, Timeout).
LEMMA PoolKeepsMethod ==
  ASSUME TableInv, NEW id \in Ids, BeginWork(id) \/ EndWork(id) \/ Wake(id) \/ Timeout(id)
  PROVE  /\ DOMAIN sessions' = DOMAIN sessions
         /\ \A i \in DOMAIN sessions : sessions'[i].kind = sessions[i].kind /\ sessions'[i].m = sessions[i].m
<1>1. PICK new : Change(id, new) /\ "kind" \notin DOMAIN new /\ "m" \notin DOMAIN new
  <2>1. CASE BeginWork(id)
    BY <2>1 DEF BeginWork
  <2>2. CASE EndWork(id)
    BY <2>2 DEF EndWork
  <2>3. CASE Wake(id)
    BY <2>3 DEF Wake
  <2>4. CASE Timeout(id)
    BY <2>4 DEF Timeout
  <2> QED BY <2>1, <2>2, <2>3, <2>4
<1>2. id \in DOMAIN sessions
  BY DEF BeginWork, EndWork, Wake, Timeout, Calls
<1> QED BY <1>1, <1>2, ChangeFields DEF Fields

\* Subscribing a handler again is refused, so that each has one session (On).
LEMMA ListenersStayApart == SessionInv /\ ListenersApart /\ [Next]_vars => ListenersApart'
<1> SUFFICES ASSUME SessionInv, ListenersApart, [Next]_vars PROVE ListenersApart'
  OBVIOUS
<1> USE DEF SessionInv
<1>0. ASSUME UNCHANGED sessions PROVE ListenersApart'
  BY <1>0 DEF ListenersApart, Listeners
<1>1. ASSUME NEW m, NEW kind, kind # "listener", AddSession(NewSession(m, kind)) PROVE ListenersApart'
  BY <1>1, AddChangesOne, ApartWithout DEF NewSession
<1>2. ASSUME NEW h, On(h) PROVE ListenersApart'
  <2>1. /\ AddSession(NewSession(h, "listener"))
        /\ \A i \in Listeners : sessions[i].m # h
    BY <1>2 DEF On, ListenerStartWork, FindSessionByHandle
  <2>2. NewSession(h, "listener").m = h
    BY DEF NewSession
  <2> QED BY <2>1, <2>2, AddChangesOne DEF ListenersApart, Listeners
<1>3. ASSUME NEW m, NEW last, StartSession(m, last) PROVE ListenersApart'
  BY <1>3, <1>0, <1>1 DEF StartSession, PromiseStartWork, AsyncStartWork
<1>4. ASSUME NEW handles, Off(handles) PROVE ListenersApart'
  BY <1>4, ApartWithout DEF Off
<1>5. ASSUME NEW id \in Ids, BeginWork(id) \/ EndWork(id) \/ Wake(id) \/ Timeout(id) PROVE ListenersApart'
  BY <1>5, PoolKeepsMethod, ApartWithout
<1>6. ASSUME NEW id \in Ids, CompleteWork(id) PROVE ListenersApart'
  BY <1>6, ApartWithout DEF CompleteWork, RemoveSession
<1>7. ASSUME NEW a, Emit(a) PROVE ListenersApart'
  <2>1. \A i \in DOMAIN sessions : i \in DOMAIN sessions' /\ (i \in Calls \/ sessions'[i] = sessions[i])
    BY <1>7 DEF Emit
  <2>2. DOMAIN sessions' = DOMAIN sessions
    BY <1>7 DEF Emit
  <2>3. \A i \in Calls : sessions'[i].kind = sessions[i].kind
    <3> DEFINE new == [businessError |-> a.err, asyncExecuteComplete |-> TRUE]
    <3>1. "kind" \notin DOMAIN new
      OBVIOUS
    <3>2. \A i \in Calls : sessions'[i] = sessions[i] \/ sessions'[i] = With(sessions[i], new)
      BY <1>7 DEF Emit, Calls
    <3> HIDE DEF new
    <3>3. \A i \in DOMAIN sessions : With(sessions[i], new).kind = sessions[i].kind
      BY <3>1 DEF With, TableInv, Fields
    <3> QED BY <3>2, <3>3 DEF Calls
  <2> QED BY <2>1, <2>2, <2>3, ApartWithout DEF Calls
<1> QED
  BY <1>0, <1>1, <1>2, <1>3, <1>4, <1>5, <1>6, <1>7
     DEF Next, vars, GetOnlineUpdater, InitCallback, CancelUpgrade, NotifyCheckVersionDone,
         NotifyEventInfo, PublishToJS, ServiceChanges

\* A handler with at most one session is called at most once for an event, and an event is
\* taken off the queue when it is passed on (NotifyEventInfo, PublishToJS).
LEMMA HeardStaysOnce ==
  SessionInv /\ ListenersApart /\ HeardInv /\ [Next]_vars => HeardInv'
<1> SUFFICES ASSUME SessionInv, ListenersApart, HeardInv, [Next]_vars PROVE HeardInv'
  OBVIOUS
<1>n. MaxEvents \in Nat
  BY SessionAssumption
<1>1. ASSUME UNCHANGED <<uv, events, heard>> PROVE HeardInv'
  BY <1>1 DEF HeardInv
<1>2. CASE NotifyEventInfo
  BY <1>2, <1>n DEF NotifyEventInfo, HeardInv
<1>3. ASSUME NEW e \in uv, PublishToJS(e) PROVE HeardInv'
  <2>1. \A h \in Handlers : Cardinality(FindSessionByHandle(h)) \in 0..1
    <3>1. SUFFICES ASSUME NEW h \in Handlers PROVE Cardinality(FindSessionByHandle(h)) \in 0..1
      OBVIOUS
    <3>2. CASE FindSessionByHandle(h) = {}
      BY <3>2, FS_EmptySet
    <3>3. ASSUME NEW i \in FindSessionByHandle(h) PROVE Cardinality(FindSessionByHandle(h)) \in 0..1
      <4>1. FindSessionByHandle(h) = {i}
        BY <3>3 DEF FindSessionByHandle, ListenersApart
      <4>2. Cardinality({i}) = 1
        BY FS_Singleton
      <4> QED BY <4>1, <4>2
    <3> QED BY <3>2, <3>3
  <2>2. /\ events' = events /\ uv' = uv \ {e}
        /\ heard' = [h \in Handlers |->
              [heard[h] EXCEPT ![e] = heard[h][e] + Cardinality(FindSessionByHandle(h))]]
    BY <1>3 DEF PublishToJS
  <2>3. \A h \in Handlers : /\ DOMAIN heard'[h] = 1..MaxEvents
                            /\ heard'[h] = [f \in 1..MaxEvents |-> heard'[h][f]]
                            /\ \A f \in 1..MaxEvents : f # e => heard'[h][f] = heard[h][f]
                            /\ e \in 1..MaxEvents => heard'[h][e] \in 0..1
    <3>1. SUFFICES ASSUME NEW h \in Handlers
                   PROVE  /\ DOMAIN heard'[h] = 1..MaxEvents
                          /\ heard'[h] = [f \in 1..MaxEvents |-> heard'[h][f]]
                          /\ \A f \in 1..MaxEvents : f # e => heard'[h][f] = heard[h][f]
                          /\ e \in 1..MaxEvents => heard'[h][e] \in 0..1
      OBVIOUS
    <3>2. heard'[h] = [heard[h] EXCEPT ![e] = heard[h][e] + Cardinality(FindSessionByHandle(h))]
      BY <2>2
    <3>3. heard[h] \in [1..MaxEvents -> 0..1] /\ (e \in 1..MaxEvents => heard[h][e] = 0)
      BY <1>3 DEF HeardInv
    <3>4. Cardinality(FindSessionByHandle(h)) \in 0..1
      BY <2>1
    <3> DEFINE g == heard[h]
               c == Cardinality(FindSessionByHandle(h))
    <3>5. heard'[h] = [g EXCEPT ![e] = g[e] + c]
      BY <3>2
    <3>6. g \in [1..MaxEvents -> 0..1] /\ (e \in 1..MaxEvents => g[e] = 0) /\ c \in 0..1
      BY <3>3, <3>4
    <3>7. \A f \in 1..MaxEvents : f # e => heard'[h][f] = heard[h][f]
      BY <3>2, <3>3
    <3> HIDE DEF g, c
    <3>8. /\ DOMAIN heard'[h] = 1..MaxEvents
          /\ heard'[h] = [f \in 1..MaxEvents |-> heard'[h][f]]
      BY <3>5, <3>6
    <3>9. e \in 1..MaxEvents => heard'[h][e] \in 0..1
      BY <3>5, <3>6
    <3> QED BY <3>7, <3>8, <3>9
  <2>4. heard' \in [Handlers -> [1..MaxEvents -> 0..1]]
    <3>1. ASSUME NEW h \in Handlers, NEW f \in 1..MaxEvents PROVE heard'[h][f] \in 0..1
      <4>1. heard[h][f] \in 0..1
        <5>1. heard[h] \in [1..MaxEvents -> 0..1]
          BY DEF HeardInv
        <5> QED BY <5>1
      <4>2. CASE f = e
        <5>1. heard'[h][e] \in 0..1
          BY <2>3, <4>2
        <5> QED BY <4>2, <5>1
      <4>3. CASE f # e
        <5>1. heard'[h][f] = heard[h][f]
          BY <2>3, <4>3
        <5> QED BY <4>1, <5>1
      <4> QED BY <4>2, <4>3
    <3>2. \A h \in Handlers : heard'[h] \in [1..MaxEvents -> 0..1]
      BY <2>3, <3>1
    <3> QED BY <2>2, <3>2
  <2>5. \A h \in Handlers, f \in 1..MaxEvents : f \in uv' \/ f > events' => heard'[h][f] = 0
    BY <2>2, <2>3, <1>3 DEF HeardInv
  <2> QED BY <2>2, <2>4, <2>5 DEF HeardInv
<1> QED
  BY <1>1, <1>2, <1>3
     DEF Next, vars, GetOnlineUpdater, InitCallback, StartSession, CancelUpgrade, On, Off, BeginWork,
         EndWork, Wake, Timeout, CompleteWork, NotifyCheckVersionDone, Emit, ServiceChanges

\* A handler is called at most once for an event, for any number of handlers, subscriptions
\* and events, in whatever order the loop passes them on (On, PublishToJS).
THEOREM AlwaysHeardOnce == Spec => []HeardOnce
<1> DEFINE I == SessionInv /\ ListenersApart /\ HeardInv
<1>1. Init => I
  <2>1. Init => ListenersApart
    BY DEF Init, ListenersApart, Listeners
  <2>2. Init => HeardInv
    BY SessionAssumption DEF Init, HeardInv
  <2> QED BY <2>1, <2>2, SessionInit
<1>2. I /\ [Next]_vars => I'
  BY SessionStep, ListenersStayApart, HeardStaysOnce
<1>3. I => HeardOnce
  <2>1. HeardInv => \A h \in Handlers, e \in 1..MaxEvents : heard[h][e] \in 0..1
    BY DEF HeardInv
  <2>2. \A n \in 0..1 : n <= 1
    OBVIOUS
  <2> QED BY <2>1, <2>2 DEF HeardOnce
<1> QED BY <1>1, <1>2, <1>3, PTL DEF Spec

-----------------------------------------------------------------------------
(* Arguments and results: what passes through the shared members, however  *)
(* many calls on the same members overlap.                                 *)

NotOlder(ages, value) == \E x \in ages : value >= x
Passing == \E a \in answers : a.written

\* The member of a result of its own: no method parses an argument into it.
HasOwnResult(m) == ~IsAsyncCompleteWork(m) /\ Api[m].result \notin Arguments \union {"none"}

\* What a call finds in the members: before its work begins no argument of an earlier call, and
\* once it may be shown a result, none that is older than what was underway when it was made.
CallInv(i) ==
  LET s == sessions[i] IN
  /\ s.m \in DOMAIN Api /\ s.reply \in Nat
  /\ s.since \subseteq Nat /\ NotOlder(s.since, age)
  /\ s.phase = "waiting" => IsAsyncCompleteWork(s.m)
  /\ s.phase = "queued" => \A n \in Api[s.m].args \ Results : member[n] \in i..started
  /\ s.phase # "queued" => \A n \in DOMAIN s.asked \ Results : s.asked[n] \in i..started
  /\ s.phase = "asking" => NotOlder(s.since, s.reply)
  /\ /\ s.phase = "executed" /\ s.workResult = SUCCESS /\ s.businessError = SUCCESS
     /\ IsAsyncCompleteWork(s.m)
     => s.asyncExecuteComplete
  /\ IsAsyncCompleteWork(s.m) /\ (s.asyncExecuteComplete \/ Passing)
     => member["checkResult"] = 0 \/ NotOlder(s.since, member["checkResult"])
  /\ s.phase = "executed" /\ s.workResult = SUCCESS /\ HasOwnResult(s.m)
     => NotOlder(s.since, member[Api[s.m].result])

\* What a request still brings back is not older either, for every call on the same result.
Pair(i, k) ==
  /\ HasOwnResult(sessions[i].m) /\ sessions[k].phase = "asking"
  /\ Api[sessions[k].m].result = Api[sessions[i].m].result
  => NotOlder(sessions[i].since, sessions[k].reply)
MemberInv ==
  /\ member \in [Members -> Nat] /\ age \in Nat
  /\ \A i \in Calls : CallInv(i)
  /\ \A i, k \in Calls : Pair(i, k)

\* Of the methods: checks alone have their answer in checkResult, no method takes an argument
\* from it, and cancel, which waits for nobody, touches no member (Api).
LEMMA ApiFacts ==
  /\ "checkResult" \in Members /\ "checkResult" \notin Arguments
  /\ \A m \in DOMAIN Api : Api[m].result = "checkResult" => IsAsyncCompleteWork(m)
  /\ "cancel" \in DOMAIN Api /\ Api["cancel"].args = {}
<1>1. \A m \in DOMAIN Api : "checkResult" \notin Api[m].args
  BY DEF Api, Method
<1>2. \A m \in DOMAIN Api : Api[m].result = "checkResult" => IsAsyncCompleteWork(m)
  BY DEF Api, Method, IsAsyncCompleteWork
<1>3. "cancel" \in DOMAIN Api /\ Api["cancel"].args = {}
  BY DEF Api, Method
<1>4. "checkNewVersion" \in DOMAIN Api /\ Api["checkNewVersion"].result = "checkResult"
  BY DEF Api, Method
<1>5. "checkResult" \in Members
  <2>1. "checkResult" \in Results
    BY <1>4 DEF Results
  <2> QED BY <2>1 DEF Members
<1>6. "checkResult" \notin Arguments
  BY <1>1 DEF Arguments
<1> QED BY <1>2, <1>3, <1>5, <1>6

\* The arguments and the result of a method are members of the UpdateClient.
LEMMA MethodMembers ==
  ASSUME NEW m \in DOMAIN Api
  PROVE  /\ Api[m].args \subseteq Members /\ Api[m].args \subseteq Arguments
         /\ Api[m].result \in Members /\ Api[m].result \in Results
<1>1. Api[m].args \subseteq Arguments
  <2> DEFINE A == {Api[k].args : k \in DOMAIN Api}
  <2>1. Arguments = UNION A
    BY DEF Arguments
  <2>2. Api[m].args \in A
    OBVIOUS
  <2> HIDE DEF A
  <2> QED BY <2>1, <2>2
<1>2. Api[m].result \in Results
  BY DEF Results
<1> QED BY <1>1, <1>2 DEF Members

\* A call keeps its part of the invariant if what others write into the members is an argument of
\* a later call, or a result not older than what was underway.
LEMMA CallInvFrame ==
  ASSUME NEW i, CallInv(i), sessions'[i] = sessions[i],
         started \in Nat, started' \in Nat, started <= started',
         age \in Nat, age' \in Nat, age <= age',
         \A n \in Api[sessions[i].m].args \ Results :
           member'[n] = member[n] \/ member'[n] \in i..started',
         HasOwnResult(sessions[i].m) =>
           \/ member'[Api[sessions[i].m].result] = member[Api[sessions[i].m].result]
           \/ NotOlder(sessions[i].since, member'[Api[sessions[i].m].result]),
         IsAsyncCompleteWork(sessions[i].m) =>
           \/ member'["checkResult"] = member["checkResult"] /\ (Passing' => Passing)
           \/ member'["checkResult"] = 0
           \/ NotOlder(sessions[i].since, member'["checkResult"])
  PROVE  CallInv(i)'
<1>1. PICK s : s = sessions[i]
  OBVIOUS
<1>2. sessions'[i] = s
  BY <1>1
<1>3. \A n : n \in i..started => n \in i..started'
  OBVIOUS
<1>4. NotOlder(s.since, age)'
  BY <1>1, <1>2 DEF CallInv, NotOlder
<1>5. /\ s.m \in DOMAIN Api /\ s.reply \in Nat /\ s.since \subseteq Nat
      /\ s.phase = "waiting" => IsAsyncCompleteWork(s.m)
      /\ s.phase = "queued" => \A n \in Api[s.m].args \ Results : member'[n] \in i..started'
      /\ s.phase # "queued" => \A n \in DOMAIN s.asked \ Results : s.asked[n] \in i..started'
      /\ s.phase = "asking" => NotOlder(s.since, s.reply)
  BY <1>1, <1>3 DEF CallInv
<1>6. /\ /\ s.phase = "executed" /\ s.workResult = SUCCESS /\ s.businessError = SUCCESS
         /\ IsAsyncCompleteWork(s.m)
         => s.asyncExecuteComplete
      /\ IsAsyncCompleteWork(s.m) /\ (s.asyncExecuteComplete \/ Passing')
         => member'["checkResult"] = 0 \/ NotOlder(s.since, member'["checkResult"])
      /\ s.phase = "executed" /\ s.workResult = SUCCESS /\ HasOwnResult(s.m)
         => NotOlder(s.since, member'[Api[s.m].result])
  BY <1>1 DEF CallInv
<1> QED BY <1>2, <1>4, <1>5, <1>6 DEF CallInv, HasOwnResult, IsAsyncCompleteWork

\* Pairs of calls that stay as they are.
LEMMA PairFrame ==
  ASSUME NEW i, NEW k, Pair(i, k), sessions'[i].m = sessions[i].m,
         sessions'[i].since = sessions[i].since, sessions'[k].m = sessions[k].m,
         sessions'[k].phase = sessions[k].phase \/ sessions'[k].phase # "asking",
         sessions'[k].reply = sessions[k].reply
  PROVE  Pair(i, k)'
BY DEF Pair, HasOwnResult, IsAsyncCompleteWork

\* What was underway are ages, the present one among them (Underway).
LEMMA UnderwayAges ==
  ASSUME TableInv, MemberInv, NEW m \in DOMAIN Api
  PROVE  /\ Underway(m) \subseteq Nat /\ age \in Underway(m)
         /\ IsAsyncCompleteWork(m) /\ Passing => member["checkResult"] \in Underway(m)
         /\ \A k \in Calls : /\ ~IsAsyncCompleteWork(m) /\ sessions[k].phase = "asking"
                             /\ Api[sessions[k].m].result = Api[m].result
                             => sessions[k].reply \in Underway(m)
<1>1. member["checkResult"] \in Nat
  BY ApiFacts DEF MemberInv
<1>2. \A k \in Calls : sessions[k].reply \in Nat
  BY DEF MemberInv, CallInv
<1>3. age \in Nat
  BY DEF MemberInv
<1>4. CASE IsAsyncCompleteWork(m)
  <2>1. Underway(m) = {age} \union {member["checkResult"] : a \in {b \in answers : b.written}}
    BY <1>4 DEF Underway
  <2>2. Passing => member["checkResult"] \in {member["checkResult"] : a \in {b \in answers : b.written}}
    BY DEF Passing
  <2> QED BY <1>1, <1>3, <1>4, <2>1, <2>2
<1>5. CASE ~IsAsyncCompleteWork(m)
  <2> DEFINE K == {i \in Calls : /\ sessions[i].phase = "asking"
                                 /\ Api[sessions[i].m].result = Api[m].result}
  <2>1. Underway(m) = {age} \union {sessions[id].reply : id \in K}
    BY <1>5 DEF Underway
  <2> QED BY <1>2, <1>3, <1>5, <2>1
<1> QED BY <1>4, <1>5

\* A call that is made writes only arguments, which are those of the newest call on them
\* (StartSession).
LEMMA ParsingIsSafe ==
  ASSUME TableInv, MemberInv, NEW m \in DOMAIN Api, started < MaxSessions,
         started' = started + 1, age' = age, answers' = answers,
         member' = [n \in Members |-> IF n \in Api[m].args THEN started + 1 ELSE member[n]],
         NEW i \in Calls, sessions'[i] = sessions[i]
  PROVE  CallInv(i)'
<1>1. CallInv(i) /\ sessions[i].m \in DOMAIN Api /\ i \in 1..started /\ started \in Nat /\ age \in Nat
  BY SessionAssumption DEF MemberInv, CallInv, TableInv, Calls
<1>2. \A n \in Members : member'[n] = member[n] \/ member'[n] \in i..started'
  <2>1. started + 1 \in i..started'
    BY <1>1
  <2> QED BY <2>1
<1>3. \A n \in Members \ Arguments : member'[n] = member[n]
  BY MethodMembers
<1>4. /\ Api[sessions[i].m].args \subseteq Members /\ Api[sessions[i].m].result \in Members
      /\ "checkResult" \in Members \ Arguments
  BY <1>1, MethodMembers, ApiFacts
<1>5. Passing' <=> Passing
  BY DEF Passing
<1>6. HasOwnResult(sessions[i].m) => Api[sessions[i].m].result \in Members \ Arguments
  BY <1>4 DEF HasOwnResult
<1>7. started' \in Nat /\ started <= started' /\ age <= age' /\ age' \in Nat
  BY <1>1
<1>8. \A n \in Api[sessions[i].m].args \ Results :
        member'[n] = member[n] \/ member'[n] \in i..started'
  BY <1>2, <1>4
<1>9. HasOwnResult(sessions[i].m) =>
        member'[Api[sessions[i].m].result] = member[Api[sessions[i].m].result]
  BY <1>3, <1>6
<1>10. member'["checkResult"] = member["checkResult"]
  BY <1>3, <1>4
<1> QED BY <1>1, <1>5, <1>7, <1>8, <1>9, <1>10, CallInvFrame

\* A new call finds its arguments in the members, whatever other calls run (StartSession).
LEMMA NewCallIsSafe ==
  ASSUME TableInv, MemberInv, NEW m \in DOMAIN Api, NEW kind \in Kinds \ {"listener"},
         AddSession(NewSession(m, kind)), started < MaxSessions, started' = started + 1,
         member' = [n \in Members |-> IF n \in Api[m].args THEN started + 1 ELSE member[n]],
         age' = age, answers' = answers
  PROVE  MemberInv'
<1>p. PICK id : id = started + 1
  OBVIOUS
<1> DEFINE s == NewSession(m, kind)
<1>s. /\ s.m = m /\ s.kind = kind /\ s.phase = "queued" /\ s.reply = 0
      /\ s.since = Underway(m) /\ s.asyncExecuteComplete = FALSE
  BY DEF NewSession
<1>1. /\ DOMAIN sessions' = DOMAIN sessions \union {id}
      /\ id \notin DOMAIN sessions
      /\ sessions'[id] = s
      /\ \A i \in DOMAIN sessions : sessions'[i] = sessions[i]
  BY <1>p, AddChangesOne
<1> HIDE DEF s
<1>2. Calls' = Calls \union {id}
  BY <1>1, <1>s DEF Calls, Kinds
<1>n. started \in Nat /\ age \in Nat /\ member \in [Members -> Nat]
  BY SessionAssumption DEF TableInv, MemberInv
<1>3. \A i \in Calls : CallInv(i)'
  BY <1>1, ParsingIsSafe DEF Calls
<1>4. CallInv(id)'
  <2>1. \A n \in Api[m].args : member'[n] = id
    BY <1>p, MethodMembers
  <2>2. id \in id..started'
    BY <1>n, <1>p
  <2>3. Underway(m) \subseteq Nat /\ NotOlder(Underway(m), age')
    BY <1>n, UnderwayAges DEF NotOlder
  <2>4. member'["checkResult"] = member["checkResult"] /\ member["checkResult"] \in Nat
    <3>1. "checkResult" \in Members /\ "checkResult" \notin Api[m].args
      BY ApiFacts, MethodMembers
    <3> QED BY <1>n, <3>1
  <2>5. Passing' => Passing
    BY DEF Passing
  <2>6. IsAsyncCompleteWork(m) /\ Passing' => NotOlder(Underway(m), member'["checkResult"])
    BY <2>4, <2>5, UnderwayAges DEF NotOlder
  <2> HIDE DEF NotOlder
  <2>7. s.m \in DOMAIN Api /\ s.reply \in Nat
    BY <1>s
  <2> QED BY <1>1, <1>s, <2>1, <2>2, <2>3, <2>6, <2>7 DEF CallInv, IsAsyncCompleteWork
<1>5. ASSUME NEW i \in Calls', NEW k \in Calls' PROVE Pair(i, k)'
  <2>1. CASE k = id
    BY <1>1, <1>s, <2>1 DEF Pair
  <2>2. CASE i \in Calls /\ k \in Calls
    <3>1. sessions'[i] = sessions[i] /\ sessions'[k] = sessions[k]
      BY <1>1, <2>2 DEF Calls
    <3> QED BY <2>2, <3>1, PairFrame DEF MemberInv
  <2>3. CASE i = id /\ k \in Calls
    <3>1. sessions'[i] = s /\ sessions'[k] = sessions[k] /\ sessions[k].reply \in Nat
      BY <1>1, <2>3 DEF Calls, MemberInv, CallInv
    <3>2. /\ HasOwnResult(m) /\ sessions[k].phase = "asking"
          /\ Api[sessions[k].m].result = Api[m].result
          => sessions[k].reply \in Underway(m)
      BY <2>3, UnderwayAges DEF HasOwnResult
    <3> QED BY <1>s, <3>1, <3>2 DEF Pair, NotOlder, HasOwnResult, IsAsyncCompleteWork
  <2> QED BY <1>2, <2>1, <2>2, <2>3
<1>6. member' \in [Members -> Nat] /\ age' \in Nat
  BY <1>n
<1> QED BY <1>2, <1>3, <1>4, <1>5, <1>6 DEF MemberInv

\* A pool thread that changes one session, and no member, leaves the others what they find.
LEMMA OneCallIsSafe ==
  ASSUME TableInv, MemberInv, NEW id \in Calls,
         DOMAIN sessions' = DOMAIN sessions, Calls' = Calls,
         \A i \in DOMAIN sessions : i # id => sessions'[i] = sessions[i],
         sessions'[id].m = sessions[id].m, sessions'[id].since = sessions[id].since,
         started' = started, age' = age, Passing' => Passing,
         member' = member, CallInv(id)',
         \/ sessions'[id].phase # "asking"
         \/ \A i \in Calls : NotOlder(sessions[i].since, sessions'[id].reply)
  PROVE  MemberInv'
<1>n. started \in Nat /\ age \in Nat
  BY SessionAssumption DEF TableInv, MemberInv
<1>1. ASSUME NEW i \in Calls PROVE CallInv(i)'
  <2>1. i # id => sessions'[i] = sessions[i]
    BY DEF Calls
  <2> QED BY <1>n, <2>1, CallInvFrame DEF MemberInv
<1>2. ASSUME NEW i \in Calls, NEW k \in Calls PROVE Pair(i, k)'
  <2>1. sessions'[i].m = sessions[i].m /\ sessions'[i].since = sessions[i].since
    BY DEF Calls
  <2>2. CASE k # id
    <3>1. sessions'[k] = sessions[k]
      BY <2>2 DEF Calls
    <3> QED BY <2>1, <3>1, PairFrame DEF MemberInv
  <2>3. CASE k = id
    BY <2>1, <2>3 DEF Pair, NotOlder
  <2> QED BY <2>2, <2>3
<1> QED BY <1>1, <1>2 DEF MemberInv


\* The work of a call asks with what it finds, and what it writes is as new as what was underway
\* when each call that may show it was made (BeginWork, EndWork, Wake, Timeout).
LEMMA PoolIsSafe ==
  ASSUME TableInv, MemberInv, NEW id \in Ids, BeginWork(id) \/ EndWork(id) \/ Wake(id) \/ Timeout(id)
  PROVE  MemberInv'
<1>1. /\ DOMAIN sessions' = DOMAIN sessions
      /\ \A i \in DOMAIN sessions : sessions'[i].kind = sessions[i].kind /\ sessions'[i].m = sessions[i].m
  BY PoolKeepsMethod
<1>2. /\ Calls' = Calls /\ id \in Calls /\ id \in DOMAIN sessions /\ CallInv(id)
      /\ age' = age /\ started' = started
  BY <1>1 DEF Calls, BeginWork, EndWork, Wake, Timeout, MemberInv
<1>n. started \in Nat /\ age \in Nat
  BY SessionAssumption DEF TableInv, MemberInv
<1> DEFINE m == sessions[id].m
<1>4. m \in DOMAIN Api
  BY <1>2 DEF CallInv
<1>p. answers' = answers => (Passing' <=> Passing)
  BY DEF Passing
<1>5. CASE BeginWork(id)
  <2> DEFINE new == [phase |-> "asking", reply |-> age, asked |-> [n \in Api[m].args |-> member[n]]]
  <2>1. Change(id, new) /\ member' = member /\ sessions[id].phase = "queued" /\ answers' = answers
    BY <1>5 DEF BeginWork
  <2>2. /\ \A k \in Fields : sessions'[id][k] = IF k \in DOMAIN new THEN new[k] ELSE sessions[id][k]
        /\ \A i \in DOMAIN sessions : i # id => sessions'[i] = sessions[i]
    BY <2>1, <1>2, ChangeFields
  <2>3. /\ sessions'[id].phase = "asking" /\ sessions'[id].reply = age
        /\ sessions'[id].asked = [n \in Api[m].args |-> member[n]]
        /\ sessions'[id].since = sessions[id].since
        /\ sessions'[id].asyncExecuteComplete = sessions[id].asyncExecuteComplete
    BY <2>2 DEF Fields
  <2>4. CallInv(id)'
    BY <1>1, <1>2, <1>4, <1>n, <1>p, <2>1, <2>3 DEF CallInv, IsAsyncCompleteWork
  <2>5. \A i \in Calls : NotOlder(sessions[i].since, age)
    BY DEF MemberInv, CallInv
  <2> QED BY <1>1, <1>2, <1>p, <2>1, <2>2, <2>3, <2>4, <2>5, OneCallIsSafe
<1>6. CASE Wake(id) \/ Timeout(id)
  <2>1. PICK new : /\ Change(id, new) /\ new.phase = "executed"
                   /\ DOMAIN new \subseteq {"phase", "businessError"}
                   /\ "phase" \in DOMAIN new
                   /\ \/ DOMAIN new = {"phase"} /\ sessions[id].asyncExecuteComplete
                      \/ "businessError" \in DOMAIN new /\ new.businessError = TIME_OUT
    BY <1>6 DEF Wake, Timeout
  <2>2. sessions[id].phase = "waiting" /\ member' = member /\ answers' = answers
    BY <1>6 DEF Wake, Timeout
  <2>3. /\ \A k \in Fields : sessions'[id][k] = IF k \in DOMAIN new THEN new[k] ELSE sessions[id][k]
        /\ \A i \in DOMAIN sessions : i # id => sessions'[i] = sessions[i]
    BY <2>1, <1>2, ChangeFields
  <2>4. /\ sessions'[id].phase = "executed" /\ sessions'[id].asked = sessions[id].asked
        /\ sessions'[id].reply = sessions[id].reply /\ sessions'[id].since = sessions[id].since
        /\ sessions'[id].asyncExecuteComplete = sessions[id].asyncExecuteComplete
        /\ sessions[id].asyncExecuteComplete \/ sessions'[id].businessError = TIME_OUT
    BY <2>1, <2>3 DEF Fields
  <2>5. CallInv(id)'
    BY <1>1, <1>2, <1>n, <1>p, <2>2, <2>4
       DEF CallInv, IsAsyncCompleteWork, HasOwnResult, TIME_OUT, SUCCESS
  <2>6. sessions'[id].phase # "asking"
    BY <2>4
  <2> QED BY <1>1, <1>2, <1>p, <2>2, <2>3, <2>4, <2>5, <2>6, OneCallIsSafe
<1>7. CASE EndWork(id)
  <2>0. sessions[id].phase = "asking"
    BY <1>7 DEF EndWork
  <2>1. CASE /\ Change(id, [phase |-> "executed", workResult |-> IPC_ERR])
             /\ member' = member /\ answers' = answers
    <3>1. /\ sessions'[id].phase = "executed" /\ sessions'[id].asked = sessions[id].asked
          /\ sessions'[id].reply = sessions[id].reply /\ sessions'[id].workResult = IPC_ERR
          /\ sessions'[id].since = sessions[id].since
          /\ sessions'[id].asyncExecuteComplete = sessions[id].asyncExecuteComplete
          /\ \A i \in DOMAIN sessions : i # id => sessions'[i] = sessions[i]
      BY <2>1, <1>2, ChangeFields DEF Fields
    <3>2. CallInv(id)'
      BY <1>1, <1>2, <1>n, <1>p, <2>0, <2>1, <3>1
         DEF CallInv, IPC_ERR, SUCCESS, IsAsyncCompleteWork, HasOwnResult
    <3>3. sessions'[id].phase # "asking"
      BY <3>1
    <3> QED BY <1>1, <1>2, <1>p, <2>1, <3>1, <3>2, <3>3, OneCallIsSafe
  <2>2. CASE /\ Change(id, [phase |-> "waiting"]) /\ member' = member /\ IsAsyncCompleteWork(m)
             /\ Passing' => Passing
    <3>1. /\ sessions'[id].phase = "waiting" /\ sessions'[id].asked = sessions[id].asked
          /\ sessions'[id].reply = sessions[id].reply
          /\ sessions'[id].since = sessions[id].since
          /\ sessions'[id].asyncExecuteComplete = sessions[id].asyncExecuteComplete
          /\ \A i \in DOMAIN sessions : i # id => sessions'[i] = sessions[i]
      BY <2>2, <1>2, ChangeFields DEF Fields
    <3>2. CallInv(id)'
      BY <1>1, <1>2, <1>n, <2>0, <2>2, <3>1 DEF CallInv, IsAsyncCompleteWork
    <3>3. sessions'[id].phase # "asking"
      BY <3>1
    <3> QED BY <1>1, <1>2, <2>2, <3>1, <3>2, <3>3, OneCallIsSafe
  <2>3. CASE /\ \E err \in {SUCCESS, FAIL} : Change(id, [phase |-> "executed", businessError |-> err])
             /\ member' = IF Api[m].result = "none" THEN member
                          ELSE [member EXCEPT ![Api[m].result] = sessions[id].reply]
             /\ ~IsAsyncCompleteWork(m) /\ answers' = answers
    <3>1. PICK err : Change(id, [phase |-> "executed", businessError |-> err])
      BY <2>3
    <3>2. /\ sessions'[id].phase = "executed" /\ sessions'[id].asked = sessions[id].asked
          /\ sessions'[id].reply = sessions[id].reply
          /\ sessions'[id].since = sessions[id].since
          /\ sessions'[id].asyncExecuteComplete = sessions[id].asyncExecuteComplete
          /\ \A i \in DOMAIN sessions : i # id => sessions'[i] = sessions[i]
      BY <3>1, <1>2, ChangeFields DEF Fields
    <3>3. /\ member' \in [Members -> Nat]
          /\ \A n \in Members : n # Api[m].result => member'[n] = member[n]
          /\ Api[m].result # "none" => member'[Api[m].result] = sessions[id].reply
          /\ Api[m].result \in Results
      <4>1. Api[m].result \in Members /\ Api[m].result \in Results
        BY <1>4, MethodMembers
      <4>2. sessions[id].reply \in Nat /\ member \in [Members -> Nat]
        BY <1>2 DEF CallInv, MemberInv
      <4> QED BY <2>3, <4>1, <4>2
    <3>4. "checkResult" \in Members /\ Api[m].result # "checkResult"
      BY <1>4, <2>3, ApiFacts
    <3>5. CallInv(id)'
      <4>1. HasOwnResult(m) => NotOlder(sessions[id].since, member'[Api[m].result])
        BY <1>2, <2>0, <3>3 DEF CallInv, HasOwnResult
      <4> QED BY <1>1, <1>2, <1>4, <1>n, <2>0, <2>3, <3>2, <4>1
                DEF CallInv, IsAsyncCompleteWork, HasOwnResult
    <3>6. ASSUME NEW i \in Calls, i # id PROVE CallInv(i)'
      <4>1. /\ CallInv(i) /\ sessions[i].m \in DOMAIN Api /\ sessions'[i] = sessions[i]
            /\ Pair(i, id)
        BY <1>2, <3>2, <3>6 DEF MemberInv, CallInv, Calls
      <4>2. /\ Api[sessions[i].m].args \subseteq Members
            /\ Api[sessions[i].m].result \in Members
        BY <4>1, MethodMembers
      <4>3. \A n \in Api[sessions[i].m].args \ Results : member'[n] = member[n]
        BY <3>3, <4>2
      <4>4. HasOwnResult(sessions[i].m) =>
              \/ member'[Api[sessions[i].m].result] = member[Api[sessions[i].m].result]
              \/ NotOlder(sessions[i].since, member'[Api[sessions[i].m].result])
        <5>1. CASE Api[sessions[i].m].result # Api[m].result
          BY <3>3, <4>2, <5>1
        <5>2. CASE Api[sessions[i].m].result = Api[m].result
          BY <2>0, <3>3, <4>1, <5>2 DEF Pair, HasOwnResult
        <5> QED BY <5>1, <5>2
      <4>5. member'["checkResult"] = member["checkResult"]
        BY <3>3, <3>4
      <4> QED BY <1>2, <1>n, <1>p, <2>3, <4>1, <4>3, <4>4, <4>5, CallInvFrame
    <3>7. ASSUME NEW i \in Calls, NEW k \in Calls PROVE Pair(i, k)'
      <4>1. /\ sessions'[i].m = sessions[i].m /\ sessions'[i].since = sessions[i].since
            /\ sessions'[k].m = sessions[k].m /\ sessions'[k].reply = sessions[k].reply
            /\ sessions'[k].phase = sessions[k].phase \/ sessions'[k].phase # "asking"
        BY <1>1, <3>2 DEF Calls
      <4> QED BY <4>1, PairFrame DEF MemberInv
    <3> QED BY <1>2, <1>n, <3>3, <3>5, <3>6, <3>7 DEF MemberInv
  <2>4. ASSUME answers' \in {answers} \union
                 (IF updater = "registered"
                  THEN {answers \union {[id |-> id, err |-> e, written |-> FALSE]} : e \in {SUCCESS, FAIL}}
                  ELSE {})
        PROVE  Passing' => Passing
    <3>1. \A a \in answers' : a \in answers \/ a.written = FALSE
      BY <2>4
    <3> QED BY <3>1 DEF Passing
  <2> QED BY <1>7, <2>1, <2>2, <2>3, <2>4 DEF EndWork
<1> QED BY <1>5, <1>6, <1>7

\* The callback of a check writes a result that is of now, or none, and wakes checks that then
\* find it, or a later one (NotifyCheckVersionDone, Emit).
LEMMA CallbackIsSafe ==
  ASSUME TableInv, MemberInv, NEW a, NotifyCheckVersionDone(a) \/ Emit(a)
  PROVE  MemberInv'
<1>n. started \in Nat /\ age \in Nat /\ "checkResult" \in Members
  BY SessionAssumption, ApiFacts DEF TableInv, MemberInv
<1>1. CASE NotifyCheckVersionDone(a)
  <2>0. Data \in Nat /\ age <= Data
    BY <1>n DEF Data
  <2>1. /\ UNCHANGED <<sessions, age, started>>
        /\ member' = [member EXCEPT !["checkResult"] = IF a.err = SUCCESS THEN Data ELSE 0]
    BY <1>1 DEF NotifyCheckVersionDone
  <2>2. /\ member' \in [Members -> Nat]
        /\ \A n \in Members : n # "checkResult" => member'[n] = member[n]
        /\ member'["checkResult"] = 0 \/ member'["checkResult"] = Data
    BY <1>n, <2>0, <2>1 DEF MemberInv
  <2>3. ASSUME NEW i \in Calls PROVE CallInv(i)'
    <3>1. CallInv(i) /\ sessions[i].m \in DOMAIN Api
      BY <2>3 DEF MemberInv, CallInv
    <3>2. \A n \in Api[sessions[i].m].args : n \in Members /\ n # "checkResult"
      BY <3>1, ApiFacts, MethodMembers
    <3>3. HasOwnResult(sessions[i].m) =>
            Api[sessions[i].m].result \in Members /\ Api[sessions[i].m].result # "checkResult"
      BY <3>1, ApiFacts, MethodMembers DEF HasOwnResult
    <3>4. NotOlder(sessions[i].since, Data)
      <4>1. PICK x \in sessions[i].since : age >= x /\ x \in Nat
        BY <3>1 DEF CallInv, NotOlder
      <4>2. Data >= x
        BY <1>n, <2>0, <4>1
      <4> QED BY <4>1, <4>2 DEF NotOlder
    <3> QED BY <1>n, <2>1, <2>2, <3>1, <3>2, <3>3, <3>4, CallInvFrame
  <2>4. Calls' = Calls /\ \A i, k \in Calls : Pair(i, k)'
    BY <2>1, PairFrame DEF MemberInv, Calls
  <2> QED BY <1>n, <2>1, <2>2, <2>3, <2>4 DEF MemberInv
<1>2. CASE Emit(a)
  <2> DEFINE new == [businessError |-> a.err, asyncExecuteComplete |-> TRUE]
  <2>1. /\ DOMAIN sessions' = DOMAIN sessions
        /\ member' = member /\ age' = age /\ started' = started
        /\ \A i \in Calls : sessions'[i] = IF IsAsyncCompleteWork(sessions[i].m)
                                           THEN With(sessions[i], new) ELSE sessions[i]
        /\ \A i \in DOMAIN sessions : sessions'[i] = sessions[i] \/ sessions'[i] = With(sessions[i], new)
        /\ a \in answers /\ a.written /\ answers' \subseteq answers
    BY <1>2 DEF Emit, Calls
  <2>2. DOMAIN new = {"businessError", "asyncExecuteComplete"} /\ new.asyncExecuteComplete = TRUE
    OBVIOUS
  <2>3. Passing /\ (Passing' => Passing)
    BY <2>1 DEF Passing
  <2> HIDE DEF new
  <2>4. \A i \in DOMAIN sessions, k \in Fields :
          With(sessions[i], new)[k] = IF k \in DOMAIN new THEN new[k] ELSE sessions[i][k]
    BY DEF With, TableInv
  <2>5. \A i \in DOMAIN sessions :
          /\ sessions'[i].m = sessions[i].m /\ sessions'[i].reply = sessions[i].reply
          /\ sessions'[i].phase = sessions[i].phase /\ sessions'[i].asked = sessions[i].asked
          /\ sessions'[i].workResult = sessions[i].workResult /\ sessions'[i].kind = sessions[i].kind
          /\ sessions'[i].since = sessions[i].since
    BY <2>1, <2>2, <2>4 DEF Fields
  <2>6. Calls' = Calls
    BY <2>1, <2>5 DEF Calls
  <2>7. ASSUME NEW i \in Calls PROVE CallInv(i)'
    <3>1. CallInv(i) /\ i \in DOMAIN sessions
      BY <2>7 DEF MemberInv, Calls
    <3>2. CASE IsAsyncCompleteWork(sessions[i].m)
      <4>1. sessions'[i].asyncExecuteComplete = TRUE
        BY <2>1, <2>2, <2>4, <3>1, <3>2 DEF Fields
      <4> QED BY <2>1, <2>3, <2>5, <3>1, <3>2, <4>1 DEF CallInv, HasOwnResult, IsAsyncCompleteWork
    <3>3. CASE ~IsAsyncCompleteWork(sessions[i].m)
      <4>1. sessions'[i] = sessions[i]
        BY <2>1, <3>3
      <4> QED BY <1>n, <2>1, <3>1, <3>3, <4>1, CallInvFrame
    <3> QED BY <3>2, <3>3
  <2>8. \A i, k \in Calls : Pair(i, k)'
    BY <2>5, PairFrame DEF MemberInv, Calls
  <2> QED BY <1>n, <2>1, <2>6, <2>7, <2>8 DEF MemberInv
<1> QED BY <1>1, <1>2

\* Sessions that leave the table take nothing from those that stay (Off, CompleteWork).
LEMMA RemovalIsSafe ==
  ASSUME TableInv, MemberInv, NEW gone, sessions' = [i \in DOMAIN sessions \ gone |-> sessions[i]],
         member' = member, age' = age, started' = started, answers' = answers
  PROVE  MemberInv'
<1>n. started \in Nat /\ age \in Nat
  BY SessionAssumption DEF TableInv, MemberInv
<1>1. DOMAIN sessions' = DOMAIN sessions \ gone /\ \A i \in DOMAIN sessions' : sessions'[i] = sessions[i]
  OBVIOUS
<1>2. \A i \in Calls' : i \in Calls /\ sessions'[i] = sessions[i]
  BY <1>1 DEF Calls
<1>p. Passing' <=> Passing
  BY DEF Passing
<1>3. \A i \in Calls' : CallInv(i)'
  BY <1>2, <1>n, <1>p, CallInvFrame DEF MemberInv
<1>4. \A i, k \in Calls' : Pair(i, k)'
  BY <1>2, PairFrame DEF MemberInv
<1> QED BY <1>3, <1>4 DEF MemberInv

\* Steps that leave the sessions and the members leave what each call finds, and time only
\* makes data newer.
LEMMA RestIsSafe ==
  ASSUME TableInv, MemberInv, UNCHANGED <<sessions, member, started, answers>>,
         age' \in Nat, age <= age'
  PROVE  MemberInv'
<1>n. started \in Nat /\ age \in Nat
  BY SessionAssumption DEF TableInv, MemberInv
<1>p. Calls' = Calls /\ (Passing' <=> Passing)
  BY DEF Passing, Calls
<1>1. \A i \in Calls : CallInv(i)'
  BY <1>n, <1>p, CallInvFrame DEF MemberInv
<1>2. \A i, k \in Calls : Pair(i, k)'
  BY PairFrame DEF MemberInv
<1> QED BY <1>1, <1>2, <1>p DEF MemberInv

\* No step of any thread, in any order, disturbs what a call finds in the members (Next).
LEMMA MembersStaySafe ==
  ASSUME SessionInv, MemberInv, [Next]_vars
  PROVE  MemberInv'
<1> USE DEF SessionInv
<1>n. started \in Nat /\ age \in Nat
  BY SessionAssumption DEF TableInv, MemberInv
<1>1. ASSUME NEW m \in Used, NEW last, StartSession(m, last) PROVE MemberInv'
  <2>1. /\ m \in DOMAIN Api /\ age' = age /\ answers' = answers
        /\ started < MaxSessions /\ started' = started + 1
        /\ member' = [n \in Members |-> IF n \in Api[m].args THEN started + 1 ELSE member[n]]
    BY <1>1, UsedAssumption DEF StartSession
  <2>2. ASSUME NEW kind \in Kinds \ {"listener"}, AddSession(NewSession(m, kind)) PROVE MemberInv'
    BY <2>1, <2>2, NewCallIsSafe
  <2>3. CASE UNCHANGED sessions
    <3>1. \A i \in Calls : CallInv(i)'
      BY <2>1, <2>3, ParsingIsSafe
    <3>2. Calls' = Calls /\ \A i, k \in Calls : Pair(i, k)'
      BY <2>3, PairFrame DEF Calls, MemberInv
    <3>3. member' \in [Members -> Nat]
      BY <1>n, <2>1 DEF MemberInv
    <3> QED BY <1>n, <2>1, <3>1, <3>2, <3>3 DEF MemberInv
  <2>4. "callback" \in Kinds \ {"listener"} /\ "promise" \in Kinds \ {"listener"}
    BY DEF Kinds
  <2> QED BY <1>1, <2>2, <2>3, <2>4 DEF StartSession, PromiseStartWork, AsyncStartWork
<1>2. CASE CancelUpgrade
  <2>1. /\ AddSession(NewSession("cancel", "silent")) /\ member' = member /\ age' = age
        /\ started < MaxSessions /\ started' = started + 1 /\ answers' = answers
        /\ "silent" \in Kinds \ {"listener"}
    BY <1>2 DEF CancelUpgrade, Kinds
  <2>2. "cancel" \in DOMAIN Api /\ Api["cancel"].args = {}
    BY ApiFacts
  <2>3. member' = [n \in Members |-> IF n \in Api["cancel"].args THEN started + 1 ELSE member[n]]
    BY <2>1, <2>2 DEF MemberInv
  <2> QED BY <2>1, <2>2, <2>3, NewCallIsSafe
<1>3. ASSUME NEW h, On(h) PROVE MemberInv'
  <2>1. /\ AddSession(NewSession(h, "listener")) /\ member' = member /\ age' = age
        /\ started' = started + 1 /\ answers' = answers
    BY <1>3 DEF On, ListenerStartWork
  <2>2. NewSession(h, "listener").kind = "listener"
    BY DEF NewSession
  <2>3. Calls' = Calls /\ \A i \in Calls : sessions'[i] = sessions[i]
    BY <2>1, <2>2, AddChangesOne DEF Calls
  <2>p. Passing' <=> Passing
    BY <2>1 DEF Passing
  <2>4. \A i \in Calls : CallInv(i)'
    BY <1>n, <2>1, <2>3, <2>p, CallInvFrame DEF MemberInv
  <2>5. \A i, k \in Calls : Pair(i, k)'
    BY <2>3, PairFrame DEF MemberInv
  <2> QED BY <2>1, <2>3, <2>4, <2>5 DEF MemberInv
<1>4. ASSUME NEW handles, Off(handles) PROVE MemberInv'
  BY <1>4, RemovalIsSafe DEF Off
<1>5. ASSUME NEW id \in Ids, BeginWork(id) \/ EndWork(id) \/ Wake(id) \/ Timeout(id) PROVE MemberInv'
  BY <1>5, PoolIsSafe
<1>6. ASSUME NEW id \in Ids, CompleteWork(id) PROVE MemberInv'
  BY <1>6, RemovalIsSafe DEF CompleteWork, RemoveSession
<1>7. ASSUME NEW a, NotifyCheckVersionDone(a) \/ Emit(a) PROVE MemberInv'
  BY <1>7, CallbackIsSafe
<1>8. CASE \/ GetOnlineUpdater \/ InitCallback \/ NotifyEventInfo \/ ServiceChanges \/ UNCHANGED vars
           \/ \E e \in uv : PublishToJS(e)
  <2>1. /\ UNCHANGED <<sessions, member, started, answers>>
        /\ age' = age \/ age' = age + 1
    BY <1>8 DEF GetOnlineUpdater, InitCallback, NotifyEventInfo, PublishToJS, ServiceChanges, vars
  <2>2. age' \in Nat /\ age <= age'
    BY <1>n, <2>1
  <2> QED BY <2>1, <2>2, RestIsSafe
<1> QED BY <1>1, <1>2, <1>3, <1>4, <1>5, <1>6, <1>7, <1>8 DEF Next

\* Before the first call nothing has been asked (Init).
LEMMA MembersInit == Init => MemberInv
BY DEF Init, MemberInv, Calls

-----------------------------------------------------------------------------
\* For any methods and any number of calls, however they overlap, the service is asked with the
\* arguments of the call that asks or of a later one, never with those of an earlier call
\* (StartSession, BeginWork).
THEOREM AlwaysOwnArguments == Spec => []OwnArguments
<1> DEFINE I == SessionInv /\ MemberInv
<1>1. Init => I
  BY SessionInit, MembersInit
<1>2. I /\ [Next]_vars => I'
  BY SessionStep, MembersStaySafe
<1>3. I => OwnArguments
  BY DEF MemberInv, CallInv, OwnArguments
<1> QED BY <1>1, <1>2, <1>3, PTL DEF Spec

\* A call that ends well shows no data older than all that were underway when it was made,
\* whatever other calls left in the member of its result; a check may show none
\* (EndWork, NotifyCheckVersionDone, Emit, CompleteWork).
THEOREM AnswerAlwaysFresh == Spec => AnswerIsFresh
<1> DEFINE I == SessionInv /\ MemberInv
           Fresh(id) ==
             (/\ id \notin DOMAIN sessions'
              /\ shown'[id] # shown[id] /\ shown'[id][1].error = SUCCESS
              /\ Api[sessions[id].m].result \notin Arguments \union {"none"})
             => LET value == shown'[id][1].value IN
                \/ \E x \in sessions[id].since : value >= x
                \/ IsAsyncCompleteWork(sessions[id].m) /\ value = 0
<1>1. Init => I
  BY SessionInit, MembersInit
<1>2. I /\ [Next]_vars => I'
  BY SessionStep, MembersStaySafe
<1>3. I /\ [Next]_vars => [\A id \in Calls : Fresh(id)]_vars
  <2> SUFFICES ASSUME I, Next, NEW id \in Calls,
                      id \notin DOMAIN sessions',
                      shown'[id] # shown[id], shown'[id][1].error = SUCCESS,
                      Api[sessions[id].m].result \notin Arguments \union {"none"}
               PROVE  \/ NotOlder(sessions[id].since, shown'[id][1].value)
                      \/ IsAsyncCompleteWork(sessions[id].m) /\ shown'[id][1].value = 0
    BY DEF NotOlder
  <2>1. id \in DOMAIN sessions /\ id \in Ids /\ id # started + 1
    <3>1. id \in DOMAIN sessions /\ id \in 1..started /\ started \in 0..MaxSessions /\ MaxSessions \in Nat
      BY SessionAssumption DEF Calls, SessionInv, TableInv
    <3> QED BY <3>1 DEF Ids
  <2>2. shown = [i \in Ids |-> shown[i]]
    BY DEF SessionInv, AnswerInv
  <2>3. \A m, last : ~StartSession(m, last)
    BY <2>1, <2>2 DEF StartSession
  <2>4. PICK k \in Ids : CompleteWork(k)
    BY <2>3 DEF Next, GetOnlineUpdater, InitCallback, CancelUpgrade, On, Off, BeginWork, EndWork, Wake,
                Timeout, NotifyCheckVersionDone, Emit, NotifyEventInfo, PublishToJS, ServiceChanges
  <2>5. k = id
    BY <2>1, <2>2, <2>4 DEF CompleteWork
  <2> DEFINE s == sessions[id]
  <2>6. /\ s.phase = "executed" /\ shown[id] = <<>>
        /\ shown' = [shown EXCEPT ![id] = shown[id] \o NotifyJS(s)]
    BY <2>1, <2>4, <2>5 DEF CompleteWork, SessionInv, AnswerInv
  <2>7. CallInv(id)
    BY DEF MemberInv
  <2> HIDE DEF s
  <2>8. shown'[id] = NotifyJS(s) \/ shown'[id] = <<>> \o NotifyJS(s)
    BY <2>1, <2>2, <2>6
  <2>9. NotifyJS(s) = <<>> \/ NotifyJS(s) = <<AsyncNotifyJS(s)>> \/ NotifyJS(s) = <<PromiseNotifyJS(s)>>
    BY <2>1 DEF NotifyJS, s, Calls
  <2>10. shown'[id] = <<>> \/ shown'[id] = <<AsyncNotifyJS(s)>> \/ shown'[id] = <<PromiseNotifyJS(s)>>
    BY <2>8, <2>9
  <2>11. shown'[id][1] = AsyncNotifyJS(s) \/ shown'[id][1] = PromiseNotifyJS(s)
    BY <2>6, <2>10
  <2>12. /\ s.workResult = SUCCESS /\ s.businessError = SUCCESS
         /\ shown'[id][1].value = GetUpdateResult(s.m)
    BY <2>11 DEF AsyncNotifyJS, PromiseNotifyJS, GetBusinessError, Resolve, Reject
  <2>13. GetUpdateResult(s.m) = member[Api[s.m].result]
    BY DEF GetUpdateResult, s
  <2>14. CASE IsAsyncCompleteWork(s.m)
    <3>1. Api[s.m].result = "checkResult"
      BY <2>14 DEF IsAsyncCompleteWork, Api, Method
    <3>2. s.asyncExecuteComplete
      BY <2>6, <2>7, <2>12, <2>14 DEF CallInv, s
    <3> QED BY <2>7, <2>12, <2>13, <2>14, <3>1, <3>2 DEF CallInv, s
  <2>15. CASE ~IsAsyncCompleteWork(s.m)
    <3>1. HasOwnResult(s.m)
      BY <2>15 DEF HasOwnResult, s
    <3> QED BY <2>6, <2>7, <2>12, <2>13, <3>1 DEF CallInv, s
  <2> QED BY <2>14, <2>15
<1> QED BY <1>1, <1>2, <1>3, PTL DEF Spec, AnswerIsFresh

-----------------------------------------------------------------------------
(* Types: what each phase of a session says of it.                         *)

\* What is known of a session: a listener does no work, and only a check waits.
PhaseOK(s) ==
  /\ s.phase \in {"queued", "asking", "waiting", "executed"}
  /\ s.kind = "listener" => s.phase = "queued"
  /\ s.phase = "waiting" => s.m = "checkNewVersion"
  /\ s.reply \in 0..MaxAge
Values == 0..(MaxSessions + MaxAge + 1)
TypeInv ==
  /\ updater \in {"none", "created", "registered", "deaf"}
  /\ member \in [Members -> Values]
  /\ age \in 0..MaxAge /\ events \in Nat /\ uv \subseteq 1..events
  /\ \A id \in DOMAIN sessions : PhaseOK(sessions[id])

\* A session that is added is queued (AddSession).
LEMMA AddHasPhase ==
  ASSUME TypeInv, NEW m, NEW kind, AddSession(NewSession(m, kind))
  PROVE  \A id \in DOMAIN sessions' : PhaseOK(sessions'[id])
<1> DEFINE s == NewSession(m, kind)
<1>1. PhaseOK(s)
  BY SessionAssumption DEF PhaseOK, NewSession
<1> HIDE DEF s
<1>2. sessions' = [id \in DOMAIN sessions \union {started + 1} |->
                     IF id = started + 1 THEN s ELSE sessions[id]]
  BY DEF AddSession, s
<1> QED BY <1>1, <1>2 DEF TypeInv

\* So are sessions that lose others (RemoveSession, Off).
LEMMA FewerHavePhase ==
  ASSUME TypeInv, NEW gone, sessions' = [id \in DOMAIN sessions \ gone |-> sessions[id]]
  PROVE  \A id \in DOMAIN sessions' : PhaseOK(sessions'[id])
BY DEF TypeInv

\* And one that is changed to a session with a phase (Change).
LEMMA ChangeHasPhase ==
  ASSUME TypeInv, NEW id, NEW r, PhaseOK(r), sessions' = [sessions EXCEPT ![id] = r]
  PROVE  \A i \in DOMAIN sessions' : PhaseOK(sessions'[i])
BY DEF TypeInv

\* The fields of a session that is changed (With).
LEMMA WithFields ==
  ASSUME NEW s, s = [k \in Fields |-> s[k]], NEW new
  PROVE  \A k \in Fields : With(s, new)[k] = IF k \in DOMAIN new THEN new[k] ELSE s[k]
BY DEF With, Fields

\* The work of a session leaves it a phase (BeginWork, EndWork, Wake, Timeout).
LEMMA PoolHasPhase ==
  ASSUME TypeInv, TableInv, NEW id \in Ids,
         BeginWork(id) \/ EndWork(id) \/ Wake(id) \/ Timeout(id)
  PROVE  \A i \in DOMAIN sessions' : PhaseOK(sessions'[i])
<1> DEFINE s == sessions[id]
<1>1. /\ id \in DOMAIN sessions /\ s.kind # "listener"
      /\ PhaseOK(s) /\ s = [k \in Fields |-> s[k]]
  BY DEF Calls, BeginWork, EndWork, Wake, Timeout, TypeInv, TableInv
<1>2. ASSUME NEW new, Change(id, new), DOMAIN new \subseteq Fields \ {"kind", "m"},
             "phase" \in DOMAIN new,
             \/ new.phase \in {"asking", "executed"}
             \/ new.phase = "waiting" /\ s.m = "checkNewVersion",
             "reply" \in DOMAIN new => new.reply \in 0..MaxAge
      PROVE  \A i \in DOMAIN sessions' : PhaseOK(sessions'[i])
  <2> DEFINE r == With(s, new)
  <2>1. \A k \in Fields : r[k] = IF k \in DOMAIN new THEN new[k] ELSE s[k]
    BY <1>1, WithFields
  <2>2. sessions' = [sessions EXCEPT ![id] = r]
    BY <1>2 DEF Change
  <2>3. {"phase", "kind", "m", "reply"} \subseteq Fields
    BY DEF Fields
  <2> HIDE DEF r, s
  <2>4. /\ r["phase"] = new["phase"] /\ r["kind"] = s["kind"] /\ r["m"] = s["m"]
        /\ r["reply"] = IF "reply" \in DOMAIN new THEN new["reply"] ELSE s["reply"]
    BY <1>2, <2>1, <2>3
  <2>5. PhaseOK(r)
    BY <1>1, <1>2, <2>4 DEF PhaseOK
  <2> QED BY <2>2, <2>5, ChangeHasPhase
<1>3. CASE BeginWork(id)
  <2> DEFINE asked == [n \in Api[sessions[id].m].args |-> member[n]]
             new == [phase |-> "asking", reply |-> age, asked |-> asked]
  <2>1. Change(id, new)
    BY <1>3 DEF BeginWork
  <2> HIDE DEF asked
  <2>2. DOMAIN new = {"phase", "reply", "asked"} /\ new.phase = "asking" /\ new.reply = age
    OBVIOUS
  <2> HIDE DEF new, s
  <2> QED BY <1>2, <2>1, <2>2 DEF Fields, TypeInv
<1>4. ASSUME NEW b, NEW c \in {"workResult", "businessError"},
             \/ c = "workResult" /\ Change(id, [phase |-> "executed", workResult |-> b])
             \/ c = "businessError" /\ Change(id, [phase |-> "executed", businessError |-> b])
      PROVE  \A i \in DOMAIN sessions' : PhaseOK(sessions'[i])
  <2> DEFINE new == IF c = "workResult" THEN [phase |-> "executed", workResult |-> b]
                    ELSE [phase |-> "executed", businessError |-> b]
  <2>1. Change(id, new)
    BY <1>4
  <2>2. DOMAIN new = {"phase", c} /\ new.phase = "executed"
    BY <1>4
  <2> HIDE DEF new, s
  <2> QED BY <1>2, <1>4, <2>1, <2>2 DEF Fields
<1>5. ASSUME NEW p, Change(id, [phase |-> p]),
             p = "executed" \/ (p = "waiting" /\ s.m = "checkNewVersion")
      PROVE  \A i \in DOMAIN sessions' : PhaseOK(sessions'[i])
  <2> DEFINE new == [phase |-> p]
  <2>1. DOMAIN new = {"phase"} /\ new.phase = p /\ Change(id, new)
    BY <1>5
  <2> HIDE DEF new, s
  <2> QED BY <1>2, <1>5, <2>1 DEF Fields
<1>6. CASE EndWork(id)
  BY <1>4, <1>5, <1>6 DEF EndWork, IsAsyncCompleteWork
<1>7. CASE Wake(id) \/ Timeout(id)
  BY <1>4, <1>5, <1>7 DEF Wake, Timeout
<1> QED BY <1>3, <1>6, <1>7

\* The answer to a check leaves every session its phase (Emit).
LEMMA EmitHasPhase ==
  ASSUME TypeInv, TableInv, NEW a, Emit(a)
  PROVE  \A i \in DOMAIN sessions' : PhaseOK(sessions'[i])
<1> DEFINE new == [businessError |-> a.err, asyncExecuteComplete |-> TRUE]
<1>1. sessions' = [i \in DOMAIN sessions |->
                     IF i \in Calls /\ IsAsyncCompleteWork(sessions[i].m)
                     THEN With(sessions[i], new) ELSE sessions[i]]
  BY DEF Emit
<1>2. DOMAIN new = {"businessError", "asyncExecuteComplete"}
  OBVIOUS
<1> HIDE DEF new
<1>3. ASSUME NEW i \in DOMAIN sessions PROVE PhaseOK(With(sessions[i], new))
  <2> DEFINE s == sessions[i]
             r == With(s, new)
  <2>1. \A k \in Fields : r[k] = IF k \in DOMAIN new THEN new[k] ELSE s[k]
    BY WithFields DEF TableInv
  <2>2. PhaseOK(s)
    BY DEF TypeInv
  <2>3. {"phase", "kind", "m", "reply"} \subseteq Fields
    BY DEF Fields
  <2> HIDE DEF r, s
  <2>4. /\ r["phase"] = s["phase"] /\ r["kind"] = s["kind"] /\ r["m"] = s["m"]
        /\ r["reply"] = s["reply"]
    BY <1>2, <2>1, <2>3
  <2>5. PhaseOK(r)
    BY <2>2, <2>4 DEF PhaseOK
  <2> QED BY <2>5 DEF r, s
<1> QED BY <1>1, <1>3 DEF TypeInv

\* The members hold the number of a call or the age of data (StartSession, EndWork,
\* NotifyCheckVersionDone).
LEMMA MemberHasValue ==
  ASSUME TypeInv, TableInv, [Next]_vars
  PROVE  member' \in [Members -> Values]
<1>0. /\ started \in 0..MaxSessions /\ age \in 0..MaxAge /\ {MaxSessions, MaxAge} \subseteq Nat
      /\ member \in [Members -> Values]
  BY SessionAssumption DEF TypeInv, TableInv
<1>1. ASSUME NEW m, NEW last, StartSession(m, last) PROVE member' \in [Members -> Values]
  <2>1. /\ member' = [n \in Members |-> IF n \in Api[m].args THEN started + 1 ELSE member[n]]
        /\ started < MaxSessions
    BY <1>1 DEF StartSession
  <2>2. started + 1 \in Values
    BY <1>0, <2>1 DEF Values
  <2> QED BY <1>0, <2>1, <2>2
<1>2. ASSUME NEW id \in Ids, EndWork(id) PROVE member' \in [Members -> Values]
  <2>1. \/ member' = member
        \/ member' = [member EXCEPT ![Api[sessions[id].m].result] = sessions[id].reply]
    BY <1>2 DEF EndWork
  <2>2. id \in DOMAIN sessions
    BY <1>2 DEF EndWork, Calls
  <2>3. sessions[id].reply \in 0..MaxAge
    BY <2>2 DEF TypeInv, PhaseOK
  <2>4. sessions[id].reply \in Values
    BY <1>0, <2>3 DEF Values
  <2> QED BY <1>0, <2>1, <2>4
<1>3. ASSUME NEW a, NotifyCheckVersionDone(a) PROVE member' \in [Members -> Values]
  <2>1. member' = [member EXCEPT !["checkResult"] = IF a.err = SUCCESS THEN Data ELSE 0]
    BY <1>3 DEF NotifyCheckVersionDone
  <2>2. Data \in Values /\ 0 \in Values
    BY <1>0 DEF Data, Values
  <2> QED BY <1>0, <2>1, <2>2
<1>4. \/ \E m \in Used \ {"cancel"}, last \in {"none", "function", "other"} : StartSession(m, last)
      \/ \E id \in Ids : EndWork(id)
      \/ \E a \in answers : NotifyCheckVersionDone(a)
      \/ member' = member
  BY DEF Next, vars, GetOnlineUpdater, InitCallback, CancelUpgrade, On, Off, BeginWork, Wake,
         Timeout, CompleteWork, Emit, NotifyEventInfo, PublishToJS, ServiceChanges
<1> QED BY <1>0, <1>1, <1>2, <1>3, <1>4

\* Every step preserves the types.
LEMMA TypeInvStep == TypeInv /\ SessionInv /\ [Next]_vars => TypeInv'
<1> SUFFICES ASSUME TypeInv, SessionInv, [Next]_vars PROVE TypeInv'
  OBVIOUS
<1>0. TableInv
  BY DEF SessionInv
<1>1. updater' \in {"none", "created", "registered", "deaf"}
  BY DEF TypeInv, Next, vars, GetOnlineUpdater, InitCallback, StartSession, CancelUpgrade, On, Off,
         BeginWork, EndWork, Wake, Timeout, CompleteWork, NotifyCheckVersionDone, Emit,
         NotifyEventInfo, PublishToJS, ServiceChanges
<1>2. member' \in [Members -> Values]
  BY <1>0, MemberHasValue
<1>3. age' \in 0..MaxAge
  <2>1. age' = age \/ (age < MaxAge /\ age' = age + 1)
    BY DEF Next, vars, GetOnlineUpdater, InitCallback, StartSession, CancelUpgrade, On, Off,
           BeginWork, EndWork, Wake, Timeout, CompleteWork, NotifyCheckVersionDone, Emit,
           NotifyEventInfo, PublishToJS, ServiceChanges
  <2> QED BY <2>1, SessionAssumption DEF TypeInv
<1>4. events' \in Nat /\ uv' \subseteq 1..events'
  <2>1. \/ UNCHANGED <<events, uv>>
        \/ events' = events + 1 /\ uv' = uv \union {events + 1}
        \/ events' = events /\ uv' \subseteq uv
    BY DEF Next, vars, GetOnlineUpdater, InitCallback, StartSession, CancelUpgrade, On, Off,
           BeginWork, EndWork, Wake, Timeout, CompleteWork, NotifyCheckVersionDone, Emit,
           NotifyEventInfo, PublishToJS, ServiceChanges
  <2>2. events \in Nat /\ uv \subseteq 1..events
    BY DEF TypeInv
  <2>3. CASE events' = events + 1 /\ uv' = uv \union {events + 1}
    <3>1. events' \in Nat
      BY <2>2, <2>3
    <3>2. ASSUME NEW e \in uv' PROVE e \in 1..events'
      <4>1. CASE e \in uv
        <5>1. e \in 1..events
          BY <2>2, <4>1
        <5> QED BY <2>2, <2>3, <5>1
      <4>2. CASE e = events + 1
        BY <2>2, <2>3, <4>2
      <4> QED BY <2>3, <3>2, <4>1, <4>2
    <3> QED BY <3>1, <3>2
  <2>4. CASE events' = events /\ uv' \subseteq uv
    BY <2>2, <2>4
  <2>5. CASE UNCHANGED <<events, uv>>
    BY <2>2, <2>5
  <2> QED BY <2>1, <2>3, <2>4, <2>5
<1>5. \A i \in DOMAIN sessions' : PhaseOK(sessions'[i])
  <2> DEFINE Good == \A i \in DOMAIN sessions' : PhaseOK(sessions'[i])
  <2>1. ASSUME NEW m, NEW last, StartSession(m, last) PROVE Good
    <3>1. \/ \E kind : AddSession(NewSession(m, kind))
          \/ sessions' = sessions
      BY <2>1 DEF StartSession, PromiseStartWork, AsyncStartWork
    <3> QED BY <3>1, AddHasPhase DEF TypeInv
  <2>2. ASSUME CancelUpgrade \/ \E h : On(h) PROVE Good
    BY <2>2, AddHasPhase DEF CancelUpgrade, On, ListenerStartWork
  <2>3. ASSUME NEW handles, Off(handles) PROVE Good
    BY <2>3, FewerHavePhase DEF Off
  <2>4. ASSUME NEW id \in Ids, CompleteWork(id) PROVE Good
    BY <2>4, FewerHavePhase DEF CompleteWork, RemoveSession
  <2>5. ASSUME NEW id \in Ids, BeginWork(id) \/ EndWork(id) \/ Wake(id) \/ Timeout(id) PROVE Good
    BY <1>0, <2>5, PoolHasPhase
  <2>6. ASSUME NEW a, Emit(a) PROVE Good
    BY <1>0, <2>6, EmitHasPhase
  <2>7. ASSUME sessions' = sessions PROVE Good
    BY <2>7 DEF TypeInv
  <2>8. ASSUME \/ \E a : NotifyCheckVersionDone(a)
               \/ \E e : PublishToJS(e)
               \/ GetOnlineUpdater \/ InitCallback \/ NotifyEventInfo \/ ServiceChanges
               \/ UNCHANGED vars
        PROVE  sessions' = sessions
    BY <2>8 DEF NotifyCheckVersionDone, PublishToJS, GetOnlineUpdater, InitCallback,
                NotifyEventInfo, ServiceChanges, vars
  <2> HIDE DEF Good
  <2>9. Good
    BY <2>1, <2>2, <2>3, <2>4, <2>5, <2>6, <2>7, <2>8 DEF Next
  <2> QED BY <2>9 DEF Good
<1> QED BY <1>1, <1>2, <1>3, <1>4, <1>5 DEF TypeInv

\* The client and its members, the table, and the queued events have their types: however pool
\* threads, callbacks of the service and the JavaScript thread interleave, a subscription is
\* never given work, and no session but that of a check waits for a callback (update_session.cpp,
\* session_manager.cpp, update_client.cpp).
THEOREM SessionTypes == Spec => []TypeOK
<1>1. Init => TypeInv
  <2>1. ASSUME Init PROVE member \in [Members -> Values]
    <3>1. 0 \in Values
      BY SessionAssumption DEF Values
    <3> QED BY <2>1, <3>1 DEF Init
  <2>2. Init => DOMAIN sessions = {}
    BY DEF Init
  <2> QED BY <2>1, <2>2, SessionAssumption DEF TypeInv, Init
<1>2. TypeInv /\ SessionInv => TypeOK
  BY DEF TypeInv, SessionInv, TableInv, TypeOK, PhaseOK, Values
<1> QED BY SessionInit, SessionStep, TypeInvStep, <1>1, <1>2, PTL DEF Spec
=============================================================================
