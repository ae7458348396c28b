----------------------------- MODULE AsyncCalls -----------------------------
(***************************************************************************)
(* What the JavaScript kit promises of its asynchronous methods, whatever  *)
(* threads, members and waits they are made of: the calls are numbered in  *)
(* the order they are made, a call is refused at once or stays open until  *)
(* it is answered, and an answer is final.  What has no answer (cancel, on *)
(* and off) is closed.  NapiSession implements this.                       *)
(***************************************************************************)
EXTENDS Integers

CONSTANT Ids       \* the numbers of the calls, 1 to the last

VARIABLES
  call,    \* call[id]: "new", "open", "answered" or "closed"
  made     \* number of calls made

vars == <<call, made>>

Init == call = [id \in Ids |-> "new"] /\ made = 0

\* The next call is made: open, refused at once, or a subscription, which has no answer.
Make ==
  /\ made + 1 \in Ids /\ made' = made + 1
  /\ \E outcome \in {"open", "answered", "closed"} :
       call' = [call EXCEPT ![made + 1] = outcome]

Finish(id) ==
  /\ call[id] = "open"
  /\ \E outcome \in {"answered", "closed"} : call' = [call EXCEPT ![id] = outcome]
  /\ UNCHANGED made

Next == Make \/ \E id \in Ids : Finish(id)

Spec == Init /\ [][Next]_vars

=============================================================================
