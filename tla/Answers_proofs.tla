---------------------------- MODULE Answers_proofs ----------------------------
(***************************************************************************)
(* Proofs about the answers that come from outside and those that are      *)
(* given.                                                                  *)
(*                                                                         *)
(* ServerCheck, for any number of requests at a time and any set of        *)
(* versions, whatever the server answers: type correctness, what a         *)
(* component in the tables was read from, and what a check that got no     *)
(* usable answer leaves alone.                                             *)
(*                                                                         *)
(* UpdateCall, for any callers, calls, states of the service, errors of    *)
(* the manager and of the transport: JavaScript is told the outcome of     *)
(* the call it made, the service is asked for that call with the           *)
(* arguments JavaScript gave, what it answers is what JavaScript is shown, *)
(* and a check result or an event that is pushed shows what the service    *)
(* sent.                                                                   *)
(***************************************************************************)
EXTENDS ServerCheck, UpdateCall, FiniteSetTheorems, TLAPS

-----------------------------------------------------------------------------
(* ServerCheck *)

Pcs == {"idle", "execute", "connect", "read", "analyze", "complete", "handle", "report"}

\* A component that was read whole.
Whole == [ver : Versions, size : {"known"}, told : Descriptions]

\* Components that were, the last of which was described before them, if descriptions were sent.
ListOK(list) == list \in Seq(Whole) /\ LastIsDescribed(list)

\* A request: its answer as it came or as it was analysed, and its components, which are whole.
RequestOK(r) ==
  /\ r \in [pc : Pcs, answer : Answers \union {Analyzed(a) : a \in Answers},
            failed : BOOLEAN, list : Seq(Whole)]
  /\ ListOK(r.list)
  /\ r.pc = "analyze" => r.answer \in Answers

\* A request with no usable answer has failed by the time its result is handled: ParseJsonFile
\* lets it no further.
UselessHasFailed(r) ==
  /\ r.pc = "analyze" => ParseJsonFile(r.answer)
  /\ r.pc \in {"complete", "handle"}
       => r.failed \/ r.answer.status \in {"HAS_NEW_VERSION", "mistyped", "followed"}

CheckInv ==
  /\ isChecking \in BOOLEAN /\ lastCheckTime \in {"never", "recent", "old"}
  /\ task \in {"NONE", "CHECK_VERSION_SUCCESS", "DOWNLOADING", "DOWNLOAD_SUCCESS", "INSTALLING", "UPDATING"}
  /\ (task = "NONE") = (comp = <<>>)
  /\ changelog \subseteq Versions
  /\ chk = [c \in Checkers |-> chk[c]]
  /\ \A c \in Checkers : RequestOK(chk[c]) /\ UselessHasFailed(chk[c])
  /\ ListOK(comp)

-----------------------------------------------------------------------------
\* What a list is made of, and what makes a list.
LEMMA ListElements ==
  ASSUME NEW S, NEW list \in Seq(S)
  PROVE  /\ Len(list) \in Nat /\ DOMAIN list = 1 .. Len(list)
         /\ \A i \in DOMAIN list : list[i] \in S
         /\ Len(list) > 0 => list[Len(list)] \in S
OBVIOUS

LEMMA ListMade ==
  ASSUME NEW S, NEW n \in Nat, NEW list, list = [i \in 1 .. n |-> list[i]],
         \A i \in 1 .. n : list[i] \in S
  PROVE  list \in Seq(S) /\ Len(list) = n
OBVIOUS

\* A result of a check, with what it lacks.
CheckResults == Seq([ver : Versions, lacks : {"nothing", "id", "size"}])

\* Every answer is a record (the answers ParseJsonFile and DoAnalyze tell apart).
LEMMA AnswerFields ==
  ASSUME NEW a \in Answers
  PROVE  a \in [status : {"garbage", "HAS_NEW_VERSION"} \union SearchStatus, checkResults : BOOLEAN,
                results : CheckResults, descriptInfo : Descriptions]
<1>0. <<>> \in CheckResults
  BY DEF CheckResults
<1>1. CASE \E s \in {"garbage", "HAS_NEW_VERSION"} \union SearchStatus :
             a = [Garbage EXCEPT !.status = s]
  BY <1>0, <1>1 DEF Garbage, Descriptions
<1>2. CASE a \in [status : {"HAS_NEW_VERSION"}, checkResults : {TRUE}, results : Results,
                 descriptInfo : Descriptions]
  BY <1>2, CheckAssumption DEF CheckResults
<1> QED BY <1>1, <1>2 DEF Answers

\* What is kept of an analysed answer is its status (the text is gone when DoAnalyze returns).
LEMMA AnalyzedKeepsStatus ==
  ASSUME NEW a PROVE Analyzed(a).status = a.status
BY DEF Analyzed, Garbage

\* No component is lacking anything when there is none.
LEMMA EmptyIsOK == ListOK(<<>>)
<1>1. <<>> \in Seq(Whole)
  OBVIOUS
<1> QED BY <1>1 DEF ListOK, LastIsDescribed

\* A request that has not begun has nothing.
LEMMA IdleIsOK == RequestOK(Idle) /\ UselessHasFailed(Idle)
<1>1. Garbage \in Answers
  <2>1. Garbage = [Garbage EXCEPT !.status = "garbage"]
    BY DEF Garbage
  <2> QED BY <2>1 DEF Answers
<1>2. <<>> \in Seq(Whole)
  OBVIOUS
<1> QED BY <1>1, <1>2, EmptyIsOK DEF RequestOK, UselessHasFailed, Idle, Pcs

\* Descriptions that are added take none away.
LEMMA ListKept ==
  ASSUME NEW list, ListOK(list), changelog \subseteq changelog'
  PROVE  list \in Seq(Whole) /\ (list # <<>> => LET last == list[Len(list)] IN
                                              last.told = "whole" => last.ver \in changelog')
BY DEF ListOK, LastIsDescribed

\* The invariant holds of a service that has not checked yet.
LEMMA CheckInvInit == CheckInit => CheckInv
<1> SUFFICES ASSUME CheckInit PROVE CheckInv
  OBVIOUS
<1>1. RequestOK(Idle) /\ UselessHasFailed(Idle)
  BY IdleIsOK
<1>2. ListOK(<<>>)
  BY EmptyIsOK
<1> QED BY <1>1, <1>2 DEF CheckInit, CheckInv

-----------------------------------------------------------------------------
\* A step that changes one request keeps the others, as long as descriptions stay.
LEMMA OthersKept ==
  ASSUME CheckInv, NEW c \in Checkers, NEW r,
         chk' = [chk EXCEPT ![c] = r],
         changelog' \subseteq Versions,
         changelog \subseteq changelog',
         RequestOK(r)', UselessHasFailed(r)
  PROVE  /\ chk' = [d \in Checkers |-> chk'[d]]
         /\ \A d \in Checkers : (RequestOK(chk[d]) /\ UselessHasFailed(chk[d]))'
<1>1. chk' = [d \in Checkers |-> chk'[d]]
  BY DEF CheckInv
<1>2. ASSUME NEW d \in Checkers PROVE (RequestOK(chk[d]) /\ UselessHasFailed(chk[d]))'
  <2>1. CASE d = c
    BY <2>1 DEF CheckInv, RequestOK, UselessHasFailed
  <2>2. CASE d # c
    <3>1. chk'[d] = chk[d] /\ RequestOK(chk[d]) /\ UselessHasFailed(chk[d])
      BY <2>2 DEF CheckInv
    <3>2. ListOK(chk[d].list)'
      BY <3>1, ListKept DEF RequestOK, ListOK, LastIsDescribed
    <3> QED BY <3>1, <3>2 DEF RequestOK, UselessHasFailed
  <2> QED BY <2>1, <2>2
<1> QED BY <1>1, <1>2

\* A step that only takes one request on, and leaves tables and descriptions alone, preserves
\* the invariant if it does for the request.
LEMMA RequestStep ==
  ASSUME CheckInv, NEW c \in Checkers, NEW r,
         chk' = [chk EXCEPT ![c] = r], RequestOK(r), UselessHasFailed(r),
         UNCHANGED <<store, changelog>>,
         isChecking' \in BOOLEAN, lastCheckTime' \in {"never", "recent", "old"}
  PROVE  CheckInv'
<1>1. RequestOK(r)'
  BY DEF RequestOK, ListOK, LastIsDescribed
<1>2. changelog' \subseteq Versions
  BY DEF CheckInv
<1>3. /\ chk' = [d \in Checkers |-> chk'[d]]
      /\ \A d \in Checkers : (RequestOK(chk[d]) /\ UselessHasFailed(chk[d]))'
  BY <1>1, <1>2, OthersKept
<1>4. ListOK(comp)'
  BY DEF CheckInv, ListOK, LastIsDescribed, store
<1> QED BY <1>2, <1>3, <1>4 DEF CheckInv, store

\* The request of a check is taken on or refused (GetStepAfterInit, Execute, Connect, ReadFails).
LEMMA RequestIsSafe ==
  ASSUME CheckInv, NEW c \in Checkers,
         GetStepAfterInit(c) \/ Execute(c) \/ Connect(c) \/ ReadFails(c)
  PROVE  CheckInv'
<1> DEFINE r == chk[c]
<1>0. RequestOK(r) /\ UselessHasFailed(r) /\ RequestOK(Idle) /\ UselessHasFailed(Idle)
  BY IdleIsOK DEF CheckInv
<1>1. CASE GetStepAfterInit(c)
  <2> DEFINE s == [Idle EXCEPT !.pc = "execute"]
  <2>1. RequestOK(s) /\ UselessHasFailed(s)
    BY <1>0 DEF RequestOK, UselessHasFailed, Idle, Pcs
  <2>2. UNCHANGED <<store, changelog>> /\ isChecking' \in BOOLEAN
        /\ lastCheckTime' \in {"never", "recent", "old"}
    BY <1>1 DEF GetStepAfterInit, CheckInv, cache
  <2>3. chk' = [chk EXCEPT ![c] = s] \/ chk' = [chk EXCEPT ![c] = r]
    BY <1>1 DEF GetStepAfterInit, CheckInv
  <2> QED BY <1>0, <2>1, <2>2, <2>3, RequestStep
<1>2. CASE Execute(c)
  <2> DEFINE s == [r EXCEPT !.pc = "connect"]
  <2>1. RequestOK(s) /\ UselessHasFailed(s)
    BY <1>0 DEF RequestOK, UselessHasFailed, Pcs
  <2>2. chk' = [chk EXCEPT ![c] = s]
    BY <1>2 DEF Execute, Goto, CheckInv
  <2> QED BY <1>2, <2>1, <2>2, RequestStep DEF Execute
<1>3. CASE Connect(c) \/ ReadFails(c)
  <2> DEFINE s == [r EXCEPT !.pc = "read"]
             f == [r EXCEPT !.pc = "complete", !.failed = TRUE]
  <2>1. RequestOK(s) /\ UselessHasFailed(s) /\ RequestOK(f) /\ UselessHasFailed(f)
    BY <1>0 DEF RequestOK, UselessHasFailed, Pcs
  <2>2. UNCHANGED <<store, changelog>> /\ isChecking' \in BOOLEAN
        /\ lastCheckTime' \in {"never", "recent", "old"}
    BY <1>3 DEF Connect, ReadFails, CheckInv, cache
  <2>3. chk' = [chk EXCEPT ![c] = s] \/ chk' = [chk EXCEPT ![c] = f]
    BY <1>3 DEF Connect, ReadFails, Goto, Fail, CheckInv
  <2> QED BY <2>1, <2>2, <2>3, RequestStep
<1> QED BY <1>1, <1>2, <1>3

\* What the server sends goes on to the analysis only with a status that passes, and fails the
\* check otherwise (ReadDataFromSSL, ParseJsonFile).
LEMMA ReadIsSafe ==
  ASSUME CheckInv, NEW c \in Checkers, NEW a \in Answers, ReadDataFromSSL(c, a)
  PROVE  CheckInv'
<1> DEFINE s == [chk[c] EXCEPT !.answer = a,
                               !.pc = IF ParseJsonFile(a) THEN "analyze" ELSE "complete",
                               !.failed = ~ParseJsonFile(a)]
<1>1. RequestOK(chk[c])
  BY DEF CheckInv
<1>2. ParseJsonFile(a) \in BOOLEAN
  BY DEF ParseJsonFile
<1>3. RequestOK(s)
  BY <1>1, <1>2 DEF RequestOK, Pcs
<1>4. UselessHasFailed(s)
  BY <1>1, <1>2 DEF RequestOK, UselessHasFailed
<1>5. chk' = [chk EXCEPT ![c] = s]
  BY DEF ReadDataFromSSL, CheckInv
<1> QED BY <1>3, <1>4, <1>5, RequestStep DEF ReadDataFromSSL, CheckInv, cache

\* Descriptions are written or fail to be, and none is taken back (SaveDescription); that of the
\* last result of an answer that is whole has been.
LEMMA DescriptionSaved ==
  ASSUME CheckInv, NEW a \in Answers, SaveDescription(a)
  PROVE  /\ changelog' \subseteq Versions
         /\ changelog \subseteq changelog'
         /\ (/\ a.status = "HAS_NEW_VERSION" /\ a.descriptInfo = "whole" /\ Len(a.results) > 0
             /\ a.results[Len(a.results)].lacks # "id")
              => a.results[Len(a.results)].ver \in changelog'
<1> DEFINE last == a.results[Len(a.results)]
<1>1. Len(a.results) > 0 => last.ver \in Versions
  <2>1. a.results \in CheckResults
    BY AnswerFields
  <2>2. Len(a.results) > 0 => last \in [ver : Versions, lacks : {"nothing", "id", "size"}]
    BY <2>1, ListElements DEF CheckResults
  <2> QED BY <2>2
<1>2. CASE changelog' = changelog \union {last.ver} /\ Len(a.results) > 0
  BY <1>1, <1>2 DEF CheckInv
<1>3. CASE /\ changelog' = changelog
           /\ ~(/\ a.status = "HAS_NEW_VERSION" /\ a.descriptInfo \in {"broken", "whole"}
                /\ Len(a.results) > 0 /\ last.lacks # "id")
  BY <1>3 DEF CheckInv
<1> QED BY <1>2, <1>3 DEF SaveDescription

\* The components of an answer are whole, and the last is that of the last result
\* (AnalyzeComponents).
LEMMA AnalysisIsWhole ==
  ASSUME NEW a \in Answers, NEW described,
         (/\ a.status = "HAS_NEW_VERSION" /\ a.descriptInfo = "whole" /\ Len(a.results) > 0
          /\ a.results[Len(a.results)].lacks # "id")
            => a.results[Len(a.results)].ver \in described,
         NEW l, l = IF a.status = "HAS_NEW_VERSION" /\ AnalyzeBlVersionCheckResults(a)
                    THEN AnalyzeComponents(a) ELSE <<>>
  PROVE  /\ l \in Seq(Whole)
         /\ l # <<>> /\ l[Len(l)].told = "whole" => l[Len(l)].ver \in described
<1> DEFINE component == [i \in DOMAIN a.results |->
                           Component(a.results[i].ver, "known", a.descriptInfo)]
<1>0. <<>> \in Seq(Whole)
  OBVIOUS
<1>1. a.results \in CheckResults /\ a.descriptInfo \in Descriptions
  BY AnswerFields
<1>2. /\ Len(a.results) \in Nat /\ DOMAIN a.results = 1 .. Len(a.results)
      /\ \A i \in DOMAIN a.results : a.results[i].ver \in Versions
  <2>1. /\ Len(a.results) \in Nat /\ DOMAIN a.results = 1 .. Len(a.results)
        /\ \A i \in DOMAIN a.results :
             a.results[i] \in [ver : Versions, lacks : {"nothing", "id", "size"}]
    BY <1>1, ListElements DEF CheckResults
  <2> QED BY <2>1
<1>3. component \in Seq(Whole) /\ Len(component) = Len(a.results)
  <2>1. \A i \in DOMAIN a.results : component[i] \in Whole
    BY <1>1, <1>2 DEF Component, Whole
  <2>2. PICK list : list = component
    OBVIOUS
  <2>3. list = [i \in 1 .. Len(a.results) |-> list[i]]
    BY <1>2, <2>2
  <2>4. \A i \in 1 .. Len(a.results) : list[i] \in Whole
    BY <1>2, <2>1, <2>2
  <2> HIDE DEF component
  <2> QED BY <1>2, <2>2, <2>3, <2>4, ListMade
<1>4. CASE l = <<>>
  BY <1>0, <1>4
<1>5. CASE /\ l = component /\ l # <<>> /\ a.status = "HAS_NEW_VERSION"
           /\ \A i \in DOMAIN a.results : a.results[i].lacks = "nothing"
  <2> DEFINE n == Len(a.results)
  <2>1. n > 0 /\ n \in DOMAIN a.results
    BY <1>2, <1>3, <1>5
  <2>2. a.results[n].lacks # "id" /\ Len(l) = n
    BY <1>3, <1>5, <2>1
  <2>3. l[n].told = a.descriptInfo /\ l[n].ver = a.results[n].ver
    BY <1>5, <2>1 DEF Component
  <2> QED BY <1>3, <1>5, <2>1, <2>2, <2>3
<1> QED BY <1>4, <1>5 DEF AnalyzeComponents

\* Components come from an answer that is whole, and its description has been read before them
\* (DoAnalyze, AnalyzeComponents).
LEMMA AnalysisIsSafe ==
  ASSUME CheckInv, NEW c \in Checkers, DoAnalyze(c) PROVE CheckInv'
<1> DEFINE a == chk[c].answer
           l == IF a.status = "HAS_NEW_VERSION" /\ AnalyzeBlVersionCheckResults(a)
                THEN AnalyzeComponents(a) ELSE <<>>
           s == [chk[c] EXCEPT !.pc = "complete", !.answer = Analyzed(a), !.list = l]
<1>1. RequestOK(chk[c]) /\ UselessHasFailed(chk[c]) /\ chk[c].pc = "analyze"
  BY DEF CheckInv, DoAnalyze, At
<1>2. a \in Answers /\ a.status \in {"HAS_NEW_VERSION", "mistyped", "followed"}
  BY <1>1 DEF RequestOK, UselessHasFailed, ParseJsonFile
<1>3. SaveDescription(a)
  BY DEF DoAnalyze
<1>4. /\ changelog' \subseteq Versions
      /\ changelog \subseteq changelog'
      /\ (/\ a.status = "HAS_NEW_VERSION" /\ a.descriptInfo = "whole" /\ Len(a.results) > 0
          /\ a.results[Len(a.results)].lacks # "id")
           => a.results[Len(a.results)].ver \in changelog'
  BY <1>2, <1>3, DescriptionSaved
<1>5. /\ l \in Seq(Whole)
      /\ l # <<>> /\ l[Len(l)].told = "whole" => l[Len(l)].ver \in changelog'
  <2> DEFINE parsed == IF a.status = "HAS_NEW_VERSION" /\ AnalyzeBlVersionCheckResults(a)
                       THEN AnalyzeComponents(a) ELSE <<>>
  <2>1. PICK described : described = changelog'
    OBVIOUS
  <2>2. l = parsed
    OBVIOUS
  <2> HIDE DEF a, l
  <2> QED BY <1>2, <1>4, <2>1, <2>2, AnalysisIsWhole
<1>6. \/ l = <<>>
      \/ l[Len(l)].told = "whole" => l[Len(l)].ver \in changelog'
  BY <1>5
<1>8. Analyzed(a) \in Answers \union {Analyzed(b) : b \in Answers} /\ Analyzed(a).status = a.status
  BY <1>2, AnalyzedKeepsStatus
<1>9. chk' = [chk EXCEPT ![c] = s]
  BY DEF DoAnalyze, CheckInv
<1> HIDE DEF a, l
<1>10. /\ s \in [pc : Pcs, answer : Answers \union {Analyzed(b) : b \in Answers},
                 failed : BOOLEAN, list : Seq(Whole)]
       /\ s.list = l /\ s.pc = "complete" /\ s.answer = Analyzed(a)
  BY <1>1, <1>5, <1>8 DEF RequestOK, Pcs
<1>11. UselessHasFailed(s)
  BY <1>2, <1>8, <1>10 DEF UselessHasFailed
<1> HIDE DEF s
<1>12. PICK r : r = s
  OBVIOUS
<1>13. RequestOK(r)'
  BY <1>6, <1>10, <1>12 DEF RequestOK, ListOK, LastIsDescribed
<1>14. /\ chk' = [d \in Checkers |-> chk'[d]]
       /\ \A d \in Checkers : (RequestOK(chk[d]) /\ UselessHasFailed(chk[d]))'
  BY <1>4, <1>9, <1>11, <1>12, <1>13, OthersKept
<1>15. ListOK(comp)'
  BY <1>4, ListKept DEF CheckInv, DoAnalyze, ListOK, LastIsDescribed, store
<1> QED BY <1>4, <1>14, <1>15 DEF CheckInv, DoAnalyze, store, cache

\* What is taken over into the tables is a request's components or nothing, and the task goes
\* with them (Complete, HandleCheckResult, HandleComplete).
LEMMA ResultIsSafe ==
  ASSUME CheckInv, NEW c \in Checkers, Complete(c) \/ HandleCheckResult(c) \/ HandleComplete(c)
  PROVE  CheckInv'
<1> DEFINE r == chk[c]
<1>0. RequestOK(r) /\ UselessHasFailed(r) /\ RequestOK(Idle) /\ UselessHasFailed(Idle)
  BY IdleIsOK DEF CheckInv
<1>1. CASE Complete(c)
  <2> DEFINE s == [r EXCEPT !.pc = "handle"]
  <2>1. RequestOK(s) /\ UselessHasFailed(s)
    BY <1>0, <1>1 DEF RequestOK, UselessHasFailed, Pcs, Complete, At
  <2>2. chk' = [chk EXCEPT ![c] = s]
    BY <1>1 DEF Complete, Goto, CheckInv
  <2> QED BY <1>1, <2>1, <2>2, RequestStep DEF Complete, CheckInv
<1>2. CASE HandleCheckResult(c)
  <2> DEFINE s == [r EXCEPT !.pc = "report"]
  <2>1. RequestOK(s) /\ UselessHasFailed(s)
    BY <1>0 DEF RequestOK, UselessHasFailed, Pcs
  <2>2. chk' = [chk EXCEPT ![c] = s]
    BY <1>2 DEF HandleCheckResult, Goto, CheckInv
  <2>3. /\ changelog' = changelog /\ isChecking' = isChecking /\ lastCheckTime' = lastCheckTime
        /\ \/ UNCHANGED store
           \/ /\ comp' = r.list
              /\ task' = IF r.list = <<>> THEN "NONE" ELSE "CHECK_VERSION_SUCCESS"
    BY <1>2 DEF HandleCheckResult, cache
  <2>4. /\ chk' = [d \in Checkers |-> chk'[d]]
        /\ \A d \in Checkers : (RequestOK(chk[d]) /\ UselessHasFailed(chk[d]))'
    <3>1. PICK q : q = s
      OBVIOUS
    <3>2. RequestOK(q)' /\ UselessHasFailed(q)
      BY <2>1, <2>3, <3>1 DEF RequestOK, ListOK, LastIsDescribed
    <3>3. chk' = [chk EXCEPT ![c] = q]
      BY <2>2, <3>1
    <3> HIDE DEF s
    <3> QED BY <2>3, <3>2, <3>3, OthersKept DEF CheckInv
  <2>5. ListOK(comp)'
    BY <1>0, <2>3 DEF RequestOK, CheckInv, ListOK, LastIsDescribed, store
  <2>6. /\ task' \in {"NONE", "CHECK_VERSION_SUCCESS", "DOWNLOADING", "DOWNLOAD_SUCCESS", "INSTALLING", "UPDATING"}
        /\ (task' = "NONE") = (comp' = <<>>)
    BY <2>3 DEF CheckInv, store
  <2> QED BY <2>3, <2>4, <2>5, <2>6 DEF CheckInv
<1>3. CASE HandleComplete(c)
  BY <1>0, <1>3, RequestStep DEF HandleComplete, CheckInv, cache
<1> QED BY <1>1, <1>2, <1>3

\* Every step of the service preserves the invariant.
LEMMA CheckInvStep == CheckInv /\ [CheckNext]_checkVars => CheckInv'
<1> SUFFICES ASSUME CheckInv, [CheckNext]_checkVars PROVE CheckInv'
  OBVIOUS
<1>1. ASSUME NEW c \in Checkers, GetStepAfterInit(c) \/ CheckStep(c) PROVE CheckInv'
  BY <1>1, RequestIsSafe, ReadIsSafe, AnalysisIsSafe, ResultIsSafe DEF CheckStep
<1>2. CASE TimePasses \/ UNCHANGED checkVars
  BY <1>2 DEF TimePasses, checkVars, cache, store, CheckInv, RequestOK, UselessHasFailed, ListOK,
              LastIsDescribed
<1>3. ASSUME NEW t \in {"DOWNLOADING", "DOWNLOAD_SUCCESS", "INSTALLING", "UPDATING", "NONE"},
             UpgradeGoesOn(t)
      PROVE  CheckInv'
  <2>1. /\ chk' = chk /\ changelog' = changelog /\ isChecking' = isChecking
        /\ lastCheckTime' = lastCheckTime /\ task' = t
        /\ (comp' = comp /\ task # "NONE" /\ t # "NONE") \/ (comp' = <<>> /\ t = "NONE")
    BY <1>3 DEF UpgradeGoesOn, cache
  <2>2. \A c \in Checkers : (RequestOK(chk[c]) /\ UselessHasFailed(chk[c]))'
    BY <2>1 DEF CheckInv, RequestOK, UselessHasFailed, ListOK, LastIsDescribed
  <2>3. ListOK(comp)'
    BY <2>1, EmptyIsOK DEF CheckInv, ListOK, LastIsDescribed
  <2> QED BY <2>1, <2>2, <2>3 DEF CheckInv
<1> QED BY <1>1, <1>2, <1>3 DEF CheckNext

-----------------------------------------------------------------------------
\* Type correctness, and that a task is in the table exactly when a component is
\* (HandleCheckResult writes both or neither).
THEOREM CheckTypes == CheckSpec => []CheckTypeOK
<1>1. CheckInv => CheckTypeOK
  BY DEF CheckInv, CheckTypeOK, RequestOK, Pcs
<1> QED BY CheckInvInit, CheckInvStep, <1>1, PTL DEF CheckSpec

\* Whatever the server leaves out and however requests interleave, every component in the table
\* has every field read, and the last its description, unless the answer's list of descriptions
\* was empty (the error sum in DoAnalyze).
THEOREM OfferAlwaysWhole == CheckSpec => []OfferIsWhole
<1>1. CheckInv => OfferIsWhole
  <2>1. CheckInv => \A i \in DOMAIN comp : comp[i] \in Whole
    BY ListElements DEF CheckInv, ListOK
  <2> QED BY <2>1 DEF CheckInv, OfferIsWhole, ListOK, Whole
<1> QED BY CheckInvInit, CheckInvStep, <1>1, PTL DEF CheckSpec

\* A check that got no text, no status or a busy server leaves task and offer as they are
\* (ParseJsonFile, IsCheckFailed).
THEOREM FailureAlwaysKeepsOffer == CheckSpec => FailureKeepsOffer
<1> DEFINE Kept(c) == /\ At(c, "handle") /\ chk'[c].pc = "report"
                      /\ chk[c].answer.status \in {"garbage", "missing", "SERVER_BUSY"}
                      => UNCHANGED store
<1>1. CheckInv /\ [CheckNext]_checkVars => [\A c \in Checkers : Kept(c)]_checkVars
  <2> SUFFICES ASSUME CheckInv, CheckNext, NEW c \in Checkers, At(c, "handle"),
                      chk'[c].pc = "report",
                      chk[c].answer.status \in {"garbage", "missing", "SERVER_BUSY"}
               PROVE  UNCHANGED store
    OBVIOUS
  <2>1. chk[c].failed
    BY DEF CheckInv, UselessHasFailed, At
  <2>2. ASSUME NEW d \in Checkers, GetStepAfterInit(d) \/ CheckStep(d) PROVE UNCHANGED store
    <3>1. CASE HandleCheckResult(d)
      <4>1. d = c
        BY <3>1 DEF HandleCheckResult, Goto, At, CheckInv
      <4> QED BY <2>1, <3>1, <4>1 DEF HandleCheckResult
    <3>2. CASE ~HandleCheckResult(d)
      BY <2>2, <3>2 DEF CheckStep, GetStepAfterInit, Execute, Connect, ReadFails, DoAnalyze,
                        Complete, HandleComplete, ReadDataFromSSL, store
    <3> QED BY <3>1, <3>2
  <2>3. CASE TimePasses
    BY <2>3 DEF TimePasses
  <2>4. ASSUME NEW t, UpgradeGoesOn(t) PROVE UNCHANGED store
    BY <2>4 DEF UpgradeGoesOn, At
  <2> QED BY <2>2, <2>3, <2>4 DEF CheckNext
<1> QED BY CheckInvInit, CheckInvStep, <1>1, PTL DEF CheckSpec, FailureKeepsOffer

-----------------------------------------------------------------------------
(* UpdateCall: parcels *)

\* A parcel, or a list: a sequence of anything.
IsSeq(s) == \E S : s \in Seq(S)

\* A function on 1..n is a sequence.
LEMMA FunctionIsSeq ==
  ASSUME NEW n \in Nat, NEW f, DOMAIN f = 1..n, f = [i \in 1..n |-> f[i]]
  PROVE  IsSeq(f)
<1>1. f \in Seq(Range(f))
  BY DEF Range
<1> QED BY <1>1 DEF IsSeq

\* Parcels are joined into parcels.
LEMMA JoinIsSeq ==
  ASSUME NEW s, NEW t, IsSeq(s), IsSeq(t)
  PROVE  IsSeq(s \o t)
<1>1. PICK S : s \in Seq(S)
  BY DEF IsSeq
<1>2. PICK T : t \in Seq(T)
  BY DEF IsSeq
<1>3. s \in Seq(S \union T) /\ t \in Seq(S \union T)
  BY <1>1, <1>2
<1>4. s \o t \in Seq(S \union T)
  BY <1>3
<1> QED BY <1>4 DEF IsSeq

\* A list of structures makes a parcel, whatever its elements are (WriteVector).
LEMMA VectorIsSeq ==
  ASSUME NEW list, IsSeq(list), NEW names, Len(names) \in Nat
  PROVE  IsSeq(WriteVector(list, names))
<1> DEFINE width == Len(names)
           n == Len(list) * width
           f == [k \in 1 .. n |-> Cells(list[1 + ((k - 1) \div width)],
                  names)[1 + ((k - 1) % width)]]
<1>1. Len(list) \in Nat
  BY DEF IsSeq
<1>2. n \in Nat
  BY <1>1
<1>3. IsSeq(f)
  <2> HIDE DEF n, width
  <2> QED BY <1>2, FunctionIsSeq
<1>4. <<Len(list)>> \in Seq(Nat)
  BY <1>1
<1>5. IsSeq(<<Len(list)>>)
  BY <1>4 DEF IsSeq
<1> QED BY <1>3, <1>5, JoinIsSeq DEF WriteVector

\* The error number the stub writes is the one the proxy reads, whatever follows it in the
\* reply: it comes before the list of messages and before the value (WriteBusinessError,
\* ReadBusinessError).
LEMMA ErrorNumberArrives ==
  ASSUME NEW err, IsSeq(err.data), NEW tail, IsSeq(tail)
  PROVE  ReadBusinessError(WriteBusinessError(err) \o tail).v.errorNum = err.errorNum
<1> DEFINE data == WriteErrorMessages(err.data)
           p == (<<err.message, err.errorNum>> \o data) \o tail
<1>1. IsSeq(data)
  BY VectorIsSeq DEF WriteErrorMessages, ErrorMessage
<1>2. PICK S : data \in Seq(S)
  BY <1>1 DEF IsSeq
<1>3. PICK T : tail \in Seq(T)
  BY DEF IsSeq
<1> DEFINE U == S \union T \union {err.message, err.errorNum}
<1>4. data \in Seq(U) /\ tail \in Seq(U) /\ <<err.message, err.errorNum>> \in Seq(U)
  BY <1>2, <1>3
<1> HIDE DEF data, U
<1>5. CellAt(p, 2) = err.errorNum
  BY <1>4 DEF CellAt
<1> QED BY <1>5 DEF ReadBusinessError, WriteBusinessError, data


-----------------------------------------------------------------------------
(* UpdateCall: what the service answers *)

\* The methods that show a value.
Showing == {"GetNewVersionInfo", "GetNewVersionDescription", "GetCurrentVersionInfo",
            "GetCurrentVersionDescription", "GetTaskInfo", "GetUpgradePolicy"}

\* A proper outcome of method m: it is about m, and its error and value can be written.
Served(m, out) ==
  /\ out.asked.m = m
  /\ out.ret \in {SUCCESS, FAIL, IPC_ERR}
  /\ out.err.errorNum \in ManagerResults /\ IsSeq(out.err.data)
  /\ m \in NoReply => out.err.errorNum = SUCCESS
  /\ out.ret = SUCCESS => IsSeq(Value(m, out.value))

\* The empty parcel.
LEMMA EmptyIsSeq == IsSeq(<<>>)
<1>1. <<>> \in Seq({})
  OBVIOUS
<1> QED BY <1>1 DEF IsSeq

\* A method that shows no value adds nothing to the reply.
LEMMA PlainValue ==
  ASSUME NEW m, NEW value,
         m \notin Showing
  PROVE  IsSeq(Value(m, value))
BY EmptyIsSeq, Zenon DEF Value, Showing

\* An outcome with an error without messages is a proper one.
LEMMA ErrServed ==
  ASSUME NEW m, NEW req, req.m = m, NEW n \in {SUCCESS, FAIL, UN_SUPPORT},
         NEW value, NEW ret \in {SUCCESS, FAIL},
         m \in NoReply => n = SUCCESS, 
         ret = SUCCESS => IsSeq(Value(m, value))
  PROVE Served(m, Outcome(req, ret, Err(n), value))
BY EmptyIsSeq DEF Served, Outcome, Err, ManagerResults, SUCCESS, FAIL, UN_SUPPORT

\* So is an answer of the firmware manager.
LEMMA ManagedServed ==
  ASSUME NEW m, NEW req, req.m = m, NEW out \in Managed(req),
         m \notin NoReply,
         m \notin Showing
  PROVE Served(m, out)
<1>1. PICK e \in ManagerErrors : out = Answer(req, e)
  BY DEF Managed
<1>2. e.errorNum \in ManagerResults /\ IsSeq(e.data)
  BY CallAssumption DEF IsSeq
<1>3. IsSeq(Value(m, out.value))
  BY PlainValue
<1> QED BY <1>1, <1>2, <1>3 DEF Served, Answer, Outcome

-----------------------------------------------------------------------------
\* The methods the firmware manager works on.
Managing == {"Download", "Upgrade", "ClearError", "TerminateUpgrade", "Cancel"}

\* A business without an implementation fails the call (GetOnlineUpdater).
LEMMA RefusedServed ==
  ASSUME NEW m, NEW req, req.m = m
  PROVE Served(m, Outcome(req, FAIL, NoError, <<>>))
BY ErrServed DEF NoError, SUCCESS, FAIL

\* An answer without a value.
LEMMA AnsweredServed ==
  ASSUME NEW m, NEW req, req.m = m, NEW n \in {SUCCESS, FAIL, UN_SUPPORT},
         m \in NoReply => n = SUCCESS,
         m \notin Showing
  PROVE Served(m, Answer(req, Err(n)))
BY PlainValue, ErrServed DEF Answer

\* The requests the firmware manager works on (DownloadImpl, UpgradeImpl, ClearErrorImpl,
\* TerminateUpgradeImpl, CancelImpl).
LEMMA ManagingServed ==
  ASSUME NEW m \in Managing, NEW req, req.m = m, NEW out,
         \/ out \in Download(req) /\ m = "Download"
         \/ out \in Upgrade(req)
         \/ out \in ClearError(req)
         \/ out \in TerminateUpgrade(req)
         \/ out \in Cancel(req) /\ m = "Cancel"
  PROVE Served(m, out)
<1>1. \/ out \in Managed(req)
      \/ out = Outcome(req, FAIL, NoError, <<>>)
      \/ out = Answer(req, Err(FAIL))
  BY DEF Download, Upgrade, ClearError, TerminateUpgrade, Cancel, Online, DownloadImpl,
         UpgradeImpl,
         ClearErrorImpl, TerminateUpgradeImpl, CancelImpl
<1> QED BY <1>1, ManagedServed, RefusedServed, AnsweredServed DEF Managing, Showing, NoReply

\* The requests that are answered at once.
LEMMA PlainServed ==
  ASSUME NEW req, NEW out,
         \/ req.m = "CheckNewVersion" /\ out \in CheckNewVersion(req)
         \/ req.m = "PauseDownload" /\ out \in PauseDownload(req)
         \/ req.m = "ResumeDownload" /\ out \in ResumeDownload(req)
         \/ req.m = "RegisterUpdateCallback" /\ out \in RegisterUpdateCallback(req)
         \/ req.m = "UnregisterUpdateCallback" /\ out \in UnregisterUpdateCallback(req)
  PROVE Served(req.m, out)
<1>1. \/ out = Outcome(req, FAIL, NoError, <<>>)
      \/ out = Answer(req, Err(SUCCESS))
      \/ out = Answer(req, Err(UN_SUPPORT)) /\ req.m \in {"PauseDownload", "ResumeDownload"}
  BY DEF CheckNewVersion, PauseDownload, ResumeDownload, RegisterUpdateCallback,
         UnregisterUpdateCallback,
         CheckNewVersionImpl, Online, NoError
<1>2. req.m \in {"CheckNewVersion", "PauseDownload", "ResumeDownload", "RegisterUpdateCallback",
                 "UnregisterUpdateCallback"}
  OBVIOUS
<1> QED BY <1>1, <1>2, RefusedServed, AnsweredServed DEF NoReply, Showing

\* The requests of the local updater and the restorer, for the updater kits.
LEMMA KitsServed ==
  ASSUME NEW m \in {"FactoryReset", "ApplyNewVersion", "VerifyUpgradePackage"},
         NEW req, req.m = m, NEW out \in Kits(req)
  PROVE Served(m, out)
<1>1. PICK ret \in {SUCCESS, FAIL} : out = Outcome(req, ret, Err(SUCCESS), <<>>)
  BY DEF Kits, NoError
<1>2. IsSeq(Value(m, <<>>))
  BY PlainValue DEF Showing
<1> QED BY <1>1, <1>2, ErrServed DEF NoReply

\* The policy is kept or shown (SetUpgradePolicyImpl, GetUpgradePolicyImpl).
LEMMA PolicyServed ==
  ASSUME NEW req, NEW out,
         \/ req.m = "SetUpgradePolicy" /\ out \in SetUpgradePolicy(req)
         \/ req.m = "GetUpgradePolicy" /\ out \in GetUpgradePolicy(req)
  PROVE Served(req.m, out)
<1>1. CASE out = Outcome(req, FAIL, NoError, <<>>)
  BY <1>1, RefusedServed
<1>2. CASE /\ req.m = "SetUpgradePolicy"
           /\ out = [Answer(req, NoError) EXCEPT !.switch = req.options.downloadStrategy]
  <2>1. Served(req.m, Answer(req, Err(SUCCESS)))
    BY <1>2, AnsweredServed DEF NoReply, Showing
  <2> QED BY <1>2, <2>1 DEF Served, Answer, Outcome, NoError
<1>3. CASE req.m = "GetUpgradePolicy" /\ out \in GetUpgradePolicyImpl(req)
  <2> DEFINE periods == <<[start |-> 60 * 2, end |-> 60 * 4], [start |-> 0, end |-> 0]>>
             policy == [downloadStrategy |-> autoDownload, autoUpgradeStrategy |-> 0,
                        autoUpgradePeriods |-> periods]
  <2>1. IsSeq(periods)
    <3>1. periods \in Seq([start : Int, end : Int])
      OBVIOUS
    <3> QED BY <3>1 DEF IsSeq
  <2>2. IsSeq(WriteVector(periods, UpgradePeriod))
    BY <2>1, VectorIsSeq DEF UpgradePeriod
  <2>3. IsSeq(<<autoDownload, 0>>)
    <3>1. <<autoDownload, 0>> \in Seq({autoDownload, 0})
      OBVIOUS
    <3> QED BY <3>1 DEF IsSeq
  <2>4. WriteUpgradePolicy(policy) = <<autoDownload, 0>> \o WriteVector(periods, UpgradePeriod)
    BY DEF WriteUpgradePolicy
  <2>5. IsSeq(WriteUpgradePolicy(policy))
    BY <2>2, <2>3, <2>4, JoinIsSeq
  <2> HIDE DEF policy
  <2>6. Value("GetUpgradePolicy", policy) = WriteUpgradePolicy(policy)
    BY Zenon DEF Value
  <2>7. out = Outcome(req, SUCCESS, Err(SUCCESS), policy)
    BY <1>3 DEF GetUpgradePolicyImpl, NoError, policy
  <2> QED BY <1>3, <2>5, <2>6, <2>7, ErrServed DEF NoReply
<1> QED BY <1>1, <1>2, <1>3 DEF SetUpgradePolicy, GetUpgradePolicy, Online, SetUpgradePolicyImpl

-----------------------------------------------------------------------------
\* A list of version components makes a parcel (WriteVersionComponents).
LEMMA ComponentsAreSeq ==
  ASSUME NEW list, IsSeq(list) PROVE IsSeq(WriteVersionComponents(list))
<1> DEFINE f == [i \in DOMAIN list |-> [list[i] EXCEPT !.size = Uint32(@)]]
<1>1. Len(list) \in Nat /\ DOMAIN list = 1..Len(list)
  BY DEF IsSeq
<1>2. IsSeq(f)
  BY <1>1, FunctionIsSeq
<1> HIDE DEF f
<1>3. IsSeq(WriteVector(f, VersionComponent))
  BY <1>2, VectorIsSeq DEF VersionComponent
<1> QED BY <1>3 DEF WriteVersionComponents, f

\* Single cells make parcels.
LEMMA OneIsSeq == ASSUME NEW x PROVE IsSeq(<<x>>)
<1>1. <<x>> \in Seq({x})
  OBVIOUS
<1> QED BY <1>1 DEF IsSeq

\* So do pairs of cells.
LEMMA TwoIsSeq == ASSUME NEW x, NEW y PROVE IsSeq(<<x, y>>)
<1>1. <<x, y>> \in Seq({x, y})
  OBVIOUS
<1> QED BY <1>1 DEF IsSeq

\* The new version, with one component for all the packages or none (GetNewVersionInfoImpl).
LEMMA NewVersionServed ==
  ASSUME NEW req, req.m = "GetNewVersionInfo", NEW out \in GetNewVersionInfoImpl(req)
  PROVE Served(req.m, out)
<1> DEFINE list == NewVersionComponents
           info == [versionDigest |-> world.task.taskId, versionComponents |-> list]
<1>1. IsSeq(list)
  BY EmptyIsSeq, OneIsSeq DEF NewVersionComponents
<1>2. out = Outcome(req, SUCCESS, Err(SUCCESS), info)
  BY DEF GetNewVersionInfoImpl, NoError
<1> HIDE DEF list
<1>3. WriteNewVersionInfo(info) = <<world.task.taskId>> \o WriteVersionComponents(list)
  BY DEF WriteNewVersionInfo
<1>4. IsSeq(WriteNewVersionInfo(info))
  BY <1>1, <1>3, OneIsSeq, ComponentsAreSeq, JoinIsSeq
<1> HIDE DEF info
<1>5. Value("GetNewVersionInfo", info) = WriteNewVersionInfo(info)
  BY Zenon DEF Value
<1> QED BY <1>2, <1>4, <1>5, ErrServed DEF NoReply

\* The current version (GetCurrentVersionInfoImpl).
LEMMA CurrentVersionServed ==
  ASSUME NEW req, req.m = "GetCurrentVersionInfo", NEW out \in GetCurrentVersionInfoImpl(req)
  PROVE Served(req.m, out)
<1> DEFINE c == [EmptyComponent EXCEPT !.displayVersion = 63, !.innerVersion = 64,
                                     !.descriptionType = 2, !.componentId = world.currentId,
                                     !.componentType = 1]
           info == BuildCurrentInfo
<1> HIDE DEF c
<1>1. info.osVersion = 61 /\ info.deviceName = 62 /\ info.versionComponents = <<c>>
  BY DEF BuildCurrentInfo, c
<1>2. out = Outcome(req, SUCCESS, Err(SUCCESS), info)
  BY DEF GetCurrentVersionInfoImpl, NoError
<1> HIDE DEF info
<1>3. WriteCurrentVersionInfo(info) = <<61, 62>> \o WriteVersionComponents(<<c>>)
  BY <1>1 DEF WriteCurrentVersionInfo
<1>4. IsSeq(WriteCurrentVersionInfo(info))
  BY <1>3, OneIsSeq, TwoIsSeq, ComponentsAreSeq, JoinIsSeq
<1>5. Value("GetCurrentVersionInfo", info) = WriteCurrentVersionInfo(info)
  BY Zenon DEF Value
<1> QED BY <1>2, <1>4, <1>5, ErrServed DEF NoReply

\* The task (GetTaskInfoImpl).
LEMMA TaskInfoServed ==
  ASSUME NEW req, req.m = "GetTaskInfo", NEW out \in GetTaskInfoImpl(req)
  PROVE Served(req.m, out)
<1> DEFINE body == [EmptyBody EXCEPT !.status = world.task.status,
                                           !.progress = world.task.progress,
                                           !.versionDigest = world.task.taskId]
           info == [existTask |-> world.task.exist, taskBody |-> body]
           head == Cells(body, TaskHead)
<1>1. body.errorMessages = <<>> /\ body.versionComponents = <<>>
  BY DEF EmptyBody
<1>2. out = Outcome(req, SUCCESS, Err(SUCCESS), info)
  BY DEF GetTaskInfoImpl, NoError
<1> HIDE DEF body
<1>3. IsSeq(head)
  <2>1. head = [i \in 1..5 |-> body[TaskHead[i]]]
    BY DEF Cells, TaskHead
  <2> HIDE DEF head
  <2> QED BY <2>1, FunctionIsSeq
<1>4. IsSeq(WriteErrorMessages(<<>>))
  BY EmptyIsSeq, VectorIsSeq DEF WriteErrorMessages, ErrorMessage
<1>5. WriteTaskInfo(info)
        = <<world.task.exist>>
            \o ((head \o WriteErrorMessages(<<>>)) \o WriteVersionComponents(<<>>))
  BY <1>1 DEF WriteTaskInfo, WriteTaskBody
<1> HIDE DEF head
<1>6. IsSeq(WriteTaskInfo(info))
  BY <1>3, <1>4, <1>5, OneIsSeq, EmptyIsSeq, ComponentsAreSeq, JoinIsSeq
<1> HIDE DEF info
<1>7. Value("GetTaskInfo", info) = WriteTaskInfo(info)
  BY Zenon DEF Value
<1> QED BY <1>2, <1>6, <1>7, ErrServed DEF NoReply

\* A set of numbers has a smallest one: the first component without a changelog.
LEMMA SmallestOf ==
  ASSUME NEW S \in SUBSET Nat, S # {} PROVE \E i \in S : \A j \in S : i <= j
<1>1. PICK n \in Nat : n \in S
  OBVIOUS
<1>2. PICK x \in S : \A y \in S : ~(<<y, x>> \in OpToRel(<, Nat))
  BY NatLessThanWellFounded, WFMin
<1>3. \A y \in S : y < x => <<y, x>> \in OpToRel(<, Nat)
  BY DEF OpToRel
<1>4. \A y \in S : ~(y < x)
  BY <1>2, <1>3, Zenon
<1>5. \A y \in S : x <= y
  BY <1>4
<1> QED BY <1>5
-----------------------------------------------------------------------------
\* Descriptions make a parcel (WriteVersionDescriptionInfo).
LEMMA DescriptionsAreSeq ==
  ASSUME NEW list, IsSeq(list) PROVE IsSeq(WriteVersionDescriptionInfo(list))
BY VectorIsSeq DEF WriteVersionDescriptionInfo, WriteComponentDescriptions, ComponentDescription

\* The descriptions up to the first missing changelog (GetNewVersionDescriptionImpl).
LEMMA DescriptionServed ==
  ASSUME NEW req, req.m = "GetNewVersionDescription",
         NEW out \in GetNewVersionDescriptionImpl(req),
         world \in Worlds
  PROVE Served(req.m, out)
<1> DEFINE list == world.components
           missing == {i \in DOMAIN list : list[i].componentId \notin DOMAIN world.changelogs}
           upto == IF missing = {} THEN Len(list)
                   ELSE (CHOOSE i \in missing : \A j \in missing : i <= j) - 1
           value == [i \in 1..upto |-> Description(list[i].componentId, req.options.language)]
           e == IF list = <<>> \/ missing # {} THEN FAIL ELSE SUCCESS
<1>1. Len(list) \in Nat /\ DOMAIN list = 1..Len(list)
  BY CallAssumption
<1>2. out = Outcome(req, SUCCESS, Err(e), value)
  BY DEF GetNewVersionDescriptionImpl, NoError
<1>3. missing \subseteq 1..Len(list)
  BY <1>1
<1> HIDE DEF missing
<1>4. upto \in Nat
  <2>1. CASE missing = {}
    BY <1>1, <2>1
  <2>2. CASE missing # {}
    <3>1. missing \in SUBSET Nat
      BY <1>1, <1>3
    <3>2. \E i \in missing : \A j \in missing : i <= j
      BY <2>2, <3>1, SmallestOf
    <3>3. (CHOOSE i \in missing : \A j \in missing : i <= j) \in missing
      BY <3>2
    <3> DEFINE k == CHOOSE i \in missing : \A j \in missing : i <= j
    <3>4. upto = k - 1
      BY <2>2
    <3>5. k \in 1..Len(list)
      BY <1>3, <3>3
    <3> HIDE DEF k, upto
    <3> QED BY <1>1, <3>4, <3>5
  <2> QED BY <2>1, <2>2
<1> HIDE DEF upto
<1>5. IsSeq(value)
  BY <1>4, FunctionIsSeq
<1> HIDE DEF value
<1>6. Value("GetNewVersionDescription", value) = WriteVersionDescriptionInfo(value)
  BY Zenon DEF Value
<1>7. IsSeq(Value(req.m, value))
  BY <1>5, <1>6, DescriptionsAreSeq
<1> QED BY <1>2, <1>7, ErrServed DEF NoReply

\* The description of the current version (GetCurrentVersionDescriptionImpl).
LEMMA CurrentDescriptionServed ==
  ASSUME NEW req, req.m = "GetCurrentVersionDescription",
         NEW out \in GetCurrentVersionDescriptionImpl(req)
  PROVE Served(req.m, out)
<1> DEFINE d == Description(world.currentId, req.options.language)
<1>1. PICK value \in {<<>>, <<d>>}, n \in {FAIL, SUCCESS} :
        out = Outcome(req, SUCCESS, Err(n), value)
  BY DEF GetCurrentVersionDescriptionImpl, NoError
<1> HIDE DEF d
<1>2. Value("GetCurrentVersionDescription", value) = WriteVersionDescriptionInfo(value)
  BY Zenon DEF Value
<1>3. IsSeq(Value(req.m, value))
  BY <1>1, <1>2, EmptyIsSeq, OneIsSeq, DescriptionsAreSeq
<1> QED BY <1>1, <1>3, ErrServed DEF NoReply

\* The requests that show what the service holds.
LEMMA ShowingServed ==
  ASSUME NEW req, NEW out, world \in Worlds,
         \/ req.m = "GetNewVersionInfo" /\ out \in GetNewVersionInfo(req)
         \/ req.m = "GetNewVersionDescription" /\ out \in GetNewVersionDescription(req)
         \/ req.m = "GetCurrentVersionInfo" /\ out \in GetCurrentVersionInfo(req)
         \/ req.m = "GetCurrentVersionDescription" /\ out \in GetCurrentVersionDescription(req)
         \/ req.m = "GetTaskInfo" /\ out \in GetTaskInfo(req)
  PROVE Served(req.m, out)
<1>1. CASE out = Outcome(req, FAIL, NoError, <<>>)
  BY <1>1, RefusedServed
<1>2. CASE out # Outcome(req, FAIL, NoError, <<>>)
  <2>1. \/ req.m = "GetNewVersionInfo" /\ out \in GetNewVersionInfoImpl(req)
        \/ req.m = "GetNewVersionDescription" /\ out \in GetNewVersionDescriptionImpl(req)
        \/ req.m = "GetCurrentVersionInfo" /\ out \in GetCurrentVersionInfoImpl(req)
        \/ req.m = "GetCurrentVersionDescription" /\ out \in GetCurrentVersionDescriptionImpl(req)
        \/ req.m = "GetTaskInfo" /\ out \in GetTaskInfoImpl(req)
    BY <1>2 DEF Online, GetNewVersionInfo, GetNewVersionDescription, GetCurrentVersionInfo,
                GetCurrentVersionDescription, GetTaskInfo
  <2> QED BY <2>1, NewVersionServed, DescriptionServed, CurrentVersionServed,
             CurrentDescriptionServed, TaskInfoServed
<1> QED BY <1>1, <1>2

-----------------------------------------------------------------------------
\* The codes number the methods (updater_sa_ipc_interface_code.h).
LEMMA CodeOfMethod ==
  /\ \A i \in 1..20 : Code(Codes[i]) = i
  /\ Methods = {Codes[i] : i \in 1..20}
<1>1. DOMAIN Codes = 1..20
  BY DEF Codes
<1>2. \A i, j \in 1..20 : Codes[i] = Codes[j] => i = j
  BY DEF Codes
<1>3. \A i \in 1..20 : Code(Codes[i]) = i
  BY <1>1, <1>2 DEF Code
<1> QED BY <1>1, <1>3 DEF Methods, Range

\* The handler of each code (requestFuncMap_).
LEMMA HandlerOf ==
  ASSUME NEW p
  PROVE  /\ Handle(1, p) = CheckNewVersionStub(p)
         /\ Handle(2, p) = DownloadVersionStub(p)
         /\ Handle(3, p) = PauseDownloadStub(p)
         /\ Handle(4, p) = ResumeDownloadStub(p)
         /\ Handle(5, p) = DoUpdateStub(p)
         /\ Handle(6, p) = ClearErrorStub(p)
         /\ Handle(7, p) = TerminateUpgradeStub(p)
         /\ Handle(8, p) = SetUpgradePolicyStub(p)
         /\ Handle(9, p) = GetUpgradePolicyStub(p)
         /\ Handle(10, p) = GetNewVersionStub(p)
         /\ Handle(11, p) = GetNewVersionDescriptionStub(p)
         /\ Handle(12, p) = GetCurrentVersionStub(p)
         /\ Handle(13, p) = GetCurrentVersionDescriptionStub(p)
         /\ Handle(14, p) = GetTaskInfoStub(p)
         /\ Handle(15, p) = RegisterUpdateCallbackStub(p)
         /\ Handle(16, p) = UnregisterUpdateCallbackStub(p)
         /\ Handle(17, p) = CancelStub(p)
         /\ Handle(18, p) = FactoryResetStub(p)
         /\ Handle(19, p) = ApplyNewVersionStub(p)
         /\ Handle(20, p) = VerifyUpgradePackageStub(p)
BY DEF Handle

\* Every handler reads the request and serves the method it is for.
LEMMA StubServed ==
  ASSUME NEW p, NEW m, NEW out, world \in Worlds,
         \/ m = "CheckNewVersion" /\ out \in CheckNewVersionStub(p)
         \/ m = "Download" /\ out \in DownloadVersionStub(p)
         \/ m = "PauseDownload" /\ out \in PauseDownloadStub(p)
         \/ m = "ResumeDownload" /\ out \in ResumeDownloadStub(p)
         \/ m = "Upgrade" /\ out \in DoUpdateStub(p)
         \/ m = "ClearError" /\ out \in ClearErrorStub(p)
         \/ m = "TerminateUpgrade" /\ out \in TerminateUpgradeStub(p)
         \/ m = "SetUpgradePolicy" /\ out \in SetUpgradePolicyStub(p)
         \/ m = "GetUpgradePolicy" /\ out \in GetUpgradePolicyStub(p)
         \/ m = "GetNewVersionInfo" /\ out \in GetNewVersionStub(p)
         \/ m = "GetNewVersionDescription" /\ out \in GetNewVersionDescriptionStub(p)
         \/ m = "GetCurrentVersionInfo" /\ out \in GetCurrentVersionStub(p)
         \/ m = "GetCurrentVersionDescription" /\ out \in GetCurrentVersionDescriptionStub(p)
         \/ m = "GetTaskInfo" /\ out \in GetTaskInfoStub(p)
         \/ m = "RegisterUpdateCallback" /\ out \in RegisterUpdateCallbackStub(p)
         \/ m = "UnregisterUpdateCallback" /\ out \in UnregisterUpdateCallbackStub(p)
         \/ m = "Cancel" /\ out \in CancelStub(p)
         \/ m = "FactoryReset" /\ out \in FactoryResetStub(p)
         \/ m = "ApplyNewVersion" /\ out \in ApplyNewVersionStub(p)
         \/ m = "VerifyUpgradePackage" /\ out \in VerifyUpgradePackageStub(p)
  PROVE  Served(m, out)
<1>0. CASE m = "RegisterUpdateCallback"
  <2> DEFINE req == Req("RegisterUpdateCallback", ReadUpgradeInfo(p).v, <<>>, <<>>)
  <2>1. out \in RegisterUpdateCallback(req) \/ out = Outcome(req, IPC_ERR, NoError, <<>>)
    BY <1>0 DEF RegisterUpdateCallbackStub
  <2>2. req.m = m
    BY <1>0 DEF Req
  <2> HIDE DEF req
  <2>3. CASE out \in RegisterUpdateCallback(req)
    BY <1>0, <2>2, <2>3, PlainServed
  <2>4. CASE out = Outcome(req, IPC_ERR, NoError, <<>>)
    BY <1>0, <2>2, <2>4, EmptyIsSeq
       DEF Outcome, Served, NoError, Err, ManagerResults, SUCCESS, IPC_ERR, Value
  <2> QED BY <2>1, <2>3, <2>4
<1>1. CASE m \in {"CheckNewVersion", "PauseDownload", "ResumeDownload",
                  "UnregisterUpdateCallback"}
  <2>1. PICK req : /\ req.m = m
                   /\ \/ m = "CheckNewVersion" /\ out \in CheckNewVersion(req)
                      \/ m = "PauseDownload" /\ out \in PauseDownload(req)
                      \/ m = "ResumeDownload" /\ out \in ResumeDownload(req)
                      \/ m = "UnregisterUpdateCallback" /\ out \in UnregisterUpdateCallback(req)
    BY <1>1 DEF WithInfo, WithOptions, WithDigest, Req, CheckNewVersionStub, PauseDownloadStub,
                ResumeDownloadStub, UnregisterUpdateCallbackStub
  <2> QED BY <1>1, <2>1, PlainServed
<1>2. CASE m \in {"Download", "Upgrade", "ClearError", "TerminateUpgrade", "Cancel"}
  <2>1. PICK req : /\ req.m = m
                   /\ \/ m = "Download" /\ out \in Download(req)
                      \/ m = "Upgrade" /\ out \in Upgrade(req)
                      \/ m = "ClearError" /\ out \in ClearError(req)
                      \/ m = "TerminateUpgrade" /\ out \in TerminateUpgrade(req)
                      \/ m = "Cancel" /\ out \in Cancel(req)
    BY <1>2 DEF WithInfo, WithOptions, WithDigest, Req, DownloadVersionStub, DoUpdateStub,
                ClearErrorStub, TerminateUpgradeStub, CancelStub
  <2> QED BY <1>2, <2>1, ManagingServed DEF Managing
<1>3. CASE m \in {"SetUpgradePolicy", "GetUpgradePolicy"}
  <2>1. PICK req : /\ req.m = m
                   /\ \/ m = "SetUpgradePolicy" /\ out \in SetUpgradePolicy(req)
                      \/ m = "GetUpgradePolicy" /\ out \in GetUpgradePolicy(req)
    BY <1>3 DEF WithInfo, WithOptions, WithDigest, Req, SetUpgradePolicyStub, GetUpgradePolicyStub
  <2> QED BY <1>3, <2>1, PolicyServed
<1>4. CASE m \in {"GetNewVersionInfo", "GetNewVersionDescription", "GetCurrentVersionInfo",
                  "GetCurrentVersionDescription", "GetTaskInfo"}
  <2>1. PICK req : /\ req.m = m
                   /\ \/ m = "GetNewVersionInfo" /\ out \in GetNewVersionInfo(req)
                      \/ m = "GetNewVersionDescription" /\ out \in GetNewVersionDescription(req)
                      \/ m = "GetCurrentVersionInfo" /\ out \in GetCurrentVersionInfo(req)
                      \/ m = "GetCurrentVersionDescription" /\ out \in GetCurrentVersionDescription(req)
                      \/ m = "GetTaskInfo" /\ out \in GetTaskInfo(req)
    BY <1>4 DEF WithInfo, WithOptions, WithDigest, Req, GetNewVersionStub,
                GetNewVersionDescriptionStub, GetCurrentVersionStub,
                GetCurrentVersionDescriptionStub, GetTaskInfoStub
  <2> QED BY <1>4, <2>1, ShowingServed
<1>5. CASE m \in {"FactoryReset", "ApplyNewVersion", "VerifyUpgradePackage"}
  <2>1. PICK req : /\ req.m = m
                   /\ \/ m = "FactoryReset" /\ out \in FactoryReset(req)
                      \/ m = "ApplyNewVersion" /\ out \in ApplyNewVersion(req)
                      \/ m = "VerifyUpgradePackage" /\ out \in VerifyUpgradePackage(req)
    BY <1>5 DEF WithInfo, WithOptions, WithDigest, Req, FactoryResetStub, ApplyNewVersionStub,
                VerifyUpgradePackageStub
  <2> QED BY <1>5, <2>1, KitsServed DEF FactoryReset, ApplyNewVersion, VerifyUpgradePackage
<1> QED BY <1>0, <1>1, <1>2, <1>3, <1>4, <1>5

\* So the request of a method is served as that method.
LEMMA HandleServed ==
  ASSUME NEW m \in Methods, NEW p, world \in Worlds, NEW out \in Handle(Code(m), p)
  PROVE  Served(m, out)
<1>1. PICK i \in 1..20 : m = Codes[i] /\ Code(m) = i
  BY CodeOfMethod
<1>2. out \in Handle(i, p)
  BY <1>1
<1> QED BY <1>1, <1>2, HandlerOf, StubServed DEF Codes

\* The proxy of each method (update_service_proxy.cpp).
LEMMA ProxyOf ==
  ASSUME NEW c
  PROVE  /\ Proxy("CheckNewVersion", c) = CheckNewVersionProxy(c)
         /\ Proxy("Download", c) = DownloadProxy(c)
         /\ Proxy("PauseDownload", c) = PauseDownloadProxy(c)
         /\ Proxy("ResumeDownload", c) = ResumeDownloadProxy(c)
         /\ Proxy("Upgrade", c) = UpgradeProxy(c)
         /\ Proxy("ClearError", c) = ClearErrorProxy(c)
         /\ Proxy("TerminateUpgrade", c) = TerminateUpgradeProxy(c)
         /\ Proxy("SetUpgradePolicy", c) = SetUpgradePolicyProxy(c)
         /\ Proxy("GetUpgradePolicy", c) = GetUpgradePolicyProxy(c)
         /\ Proxy("GetNewVersionInfo", c) = GetNewVersionInfoProxy(c)
         /\ Proxy("GetNewVersionDescription", c) = GetNewVersionDescriptionProxy(c)
         /\ Proxy("GetCurrentVersionInfo", c) = GetCurrentVersionInfoProxy(c)
         /\ Proxy("GetCurrentVersionDescription", c) = GetCurrentVersionDescriptionProxy(c)
         /\ Proxy("GetTaskInfo", c) = GetTaskInfoProxy(c)
         /\ Proxy("RegisterUpdateCallback", c) = RegisterUpdateCallbackProxy(c)
         /\ Proxy("UnregisterUpdateCallback", c) = UnregisterUpdateCallbackProxy(c)
         /\ Proxy("Cancel", c) = CancelProxy(c)
         /\ Proxy("FactoryReset", c) = FactoryResetProxy(c)
         /\ Proxy("ApplyNewVersion", c) = ApplyNewVersionProxy(c)
         /\ Proxy("VerifyUpgradePackage", c) = VerifyUpgradePackageProxy(c)
BY Zenon DEF Proxy

\* Every proxy sends the code of its method.
LEMMA ProxyCode ==
  ASSUME NEW m \in Methods, NEW c PROVE Proxy(m, c).code = Code(m)
<1>1. \A n, cells : Request(n, cells).code = Code(n)
  BY DEF Request
<1>2. m \in {"UnregisterUpdateCallback", "CheckNewVersion", "TerminateUpgrade", "GetNewVersionInfo", "GetCurrentVersionInfo", "GetTaskInfo",
             "GetUpgradePolicy"}
        => Proxy(m, c) = InfoProxy(m, c)
  BY ProxyOf DEF UnregisterUpdateCallbackProxy, CheckNewVersionProxy, TerminateUpgradeProxy, GetNewVersionInfoProxy,
                 GetCurrentVersionInfoProxy, GetTaskInfoProxy, GetUpgradePolicyProxy
<1>3. InfoProxy(m, c).code = Code(m)
  BY <1>1 DEF InfoProxy
<1>4. DownloadProxy(c).code = Code("Download")
  BY <1>1 DEF DownloadProxy
<1>5. PauseDownloadProxy(c).code = Code("PauseDownload")
  BY <1>1 DEF PauseDownloadProxy
<1>6. ResumeDownloadProxy(c).code = Code("ResumeDownload")
  BY <1>1 DEF ResumeDownloadProxy
<1>7. UpgradeProxy(c).code = Code("Upgrade")
  BY <1>1 DEF UpgradeProxy
<1>8. ClearErrorProxy(c).code = Code("ClearError")
  BY <1>1 DEF ClearErrorProxy
<1>9. SetUpgradePolicyProxy(c).code = Code("SetUpgradePolicy")
  BY <1>1 DEF SetUpgradePolicyProxy
<1>10. GetNewVersionDescriptionProxy(c).code = Code("GetNewVersionDescription")
  BY <1>1 DEF GetNewVersionDescriptionProxy
<1>11. GetCurrentVersionDescriptionProxy(c).code = Code("GetCurrentVersionDescription")
  BY <1>1 DEF GetCurrentVersionDescriptionProxy
<1>12. CancelProxy(c).code = Code("Cancel")
  BY <1>1 DEF CancelProxy
<1>18. RegisterUpdateCallbackProxy(c).code = Code("RegisterUpdateCallback")
  BY <1>1 DEF RegisterUpdateCallbackProxy
<1>13. FactoryResetProxy(c).code = Code("FactoryReset")
  BY <1>1 DEF FactoryResetProxy
<1>14. ApplyNewVersionProxy(c).code = Code("ApplyNewVersion")
  BY <1>1 DEF ApplyNewVersionProxy
<1>15. VerifyUpgradePackageProxy(c).code = Code("VerifyUpgradePackage")
  BY <1>1 DEF VerifyUpgradePackageProxy
<1>16. PICK i \in 1..20 : m = Codes[i]
  BY CodeOfMethod
<1>17. m \in {"CheckNewVersion", "Download", "PauseDownload", "ResumeDownload", "Upgrade",
              "ClearError", "TerminateUpgrade", "SetUpgradePolicy", "GetUpgradePolicy",
              "GetNewVersionInfo", "GetNewVersionDescription", "GetCurrentVersionInfo",
              "GetCurrentVersionDescription", "GetTaskInfo",
              "RegisterUpdateCallback", "UnregisterUpdateCallback",
              "Cancel", "FactoryReset", "ApplyNewVersion",
              "VerifyUpgradePackage"}
  BY <1>16 DEF Codes
<1> QED BY ProxyOf, <1>2, <1>3, <1>4, <1>5, <1>6, <1>7, <1>8, <1>9, <1>10, <1>11, <1>12, <1>13,
           <1>14, <1>15, <1>17, <1>18

\* Joined structures keep the members of the first.
LEMMA MergeKeeps ==
  ASSUME NEW f, NEW g, NEW x \in DOMAIN f PROVE (f ++ g)[x] = f[x]
BY DEF ++

\* A number below the divisor is its own remainder.
LEMMA SmallRemainder ==
  ASSUME NEW w \in Nat \ {0}, NEW x \in Nat, x < w PROVE x % w = x
BY SMT

\* An error code fits a JavaScript number (SetInt32).
LEMMA Int32Kept == ASSUME NEW x \in Nat, 2 * x < Word PROVE SetInt32(x).v = x
<1>1. x < Word /\ ~(2 * x >= Word) /\ Word \in Nat \ {0}
  BY ParcelAssumption, SMT
<1>2. x % Word = x
  BY <1>1, SmallRemainder
<1> QED BY <1>1, <1>2, SMT DEF SetInt32, Js

\* The errors of the checks of callers and arguments.
Refusals == {APP_NOT_GRANTED, NOT_SYSTEM_APP, PARAM_ERR}

\* The error of a call that was not delivered, by its status.
Undelivered(status) == IF status < CALL_RESULT_OFFSET THEN IPC_ERR ELSE status - CALL_RESULT_OFFSET

\* The error numbers of a session.
ErrorNumbers == ManagerResults \union Refusals \union {Undelivered(code) : code \in TransportErrors}

\* The error codes they are shown as are numbers of 32 bits.
LEMMA ErrorNumbersFit ==
  ASSUME NEW n \in ErrorNumbers
  PROVE  /\ n \in Nat /\ ConvertToErrorCode(n) \in Nat
         /\ 2 * ConvertToErrorCode(n) < Word
<1>0. ConvertToErrorCode(n) = n \/ ConvertToErrorCode(n) = COMPONENT_ERR + n
  BY DEF ConvertToErrorCode
<1>1. n \in Nat /\ 2 * (COMPONENT_ERR + n) < Word
  <2>1. CASE n \in ManagerResults \union Refusals
    BY <2>1, CallAssumption, ParcelAssumption, SMT
       DEF COMPONENT_ERR, ManagerResults, SUCCESS, FAIL, IPC_ERR, UN_SUPPORT, APP_NOT_GRANTED,
           NOT_SYSTEM_APP, PARAM_ERR, Refusals
  <2>2. ASSUME NEW code \in TransportErrors, n = Undelivered(code)
        PROVE  n \in Nat /\ 2 * (COMPONENT_ERR + n) < Word
    <3>1. code \in Int /\ 2 * (COMPONENT_ERR + code) < Word
      BY CallAssumption
    <3> QED BY <2>2, <3>1, CallAssumption, ParcelAssumption, SMT
            DEF Undelivered, COMPONENT_ERR, CALL_RESULT_OFFSET, IPC_ERR
  <2> QED BY <2>1, <2>2 DEF ErrorNumbers
<1> QED BY <1>0, <1>1, ParcelAssumption, SMT DEF COMPONENT_ERR

\* The code of the error object is that of the error (BuildBusinessError, BuildThrowError).
LEMMA ErrorCodeShown ==
  ASSUME NEW err, err.errorNum \in ErrorNumbers
  PROVE  ErrorObject(err).v.code.v = ConvertToErrorCode(err.errorNum)
<1> DEFINE n == ConvertToErrorCode(err.errorNum)
           told == [message |-> SetString(err.message), code |-> SetInt32(n)]
<1>1. n \in Nat /\ 2 * n < Word
  BY ErrorNumbersFit
<1>2. ErrorObject(err).v.code = told.code
  BY MergeKeeps DEF ErrorObject, Js
<1> HIDE DEF n
<1>3. SetInt32(n).v = n
  BY <1>1, Int32Kept
<1> QED BY <1>2, <1>3 DEF n


\* JavaScript gets a result exactly for no error, and the code of the error otherwise
\* (NotifyJS).
LEMMA NotifyShows ==
  ASSUME NEW m, NEW workResult, NEW err, NEW value, NEW n,
         n = GetBusinessError(workResult, err).errorNum,
         n \in ErrorNumbers
  PROVE  LET told == NotifyJS(m, workResult, err, value) IN
         /\ told.kind \in {"error", "result"}
         /\ (told.kind = "result") = (n = SUCCESS)
         /\ told.kind = "error" => told.js.v.code.v = ConvertToErrorCode(n)
<1> DEFINE error == GetBusinessError(workResult, err)
           told == NotifyJS(m, workResult, err, value)
<1>1. CASE n = SUCCESS
  BY <1>1 DEF NotifyJS, IsErrorExist
<1>2. CASE n # SUCCESS
  <2>1. told = [kind |-> "error", js |-> ErrorObject(error)]
    BY <1>2 DEF NotifyJS, IsErrorExist, BuildBusinessError
  <2>2. ErrorObject(error).v.code.v = ConvertToErrorCode(n)
    BY ErrorCodeShown
  <2> HIDE DEF error
  <2> QED BY <1>2, <2>1, <2>2
<1> QED BY <1>1, <1>2

-----------------------------------------------------------------------------
\* The members of a call.
CallFields == {"step", "m", "args", "status", "reply", "answer"}

\* The caller may call m.
Permitted(m) ==
  /\ IsCallerValid
  /\ (IF m = "FactoryReset" THEN "FACTORY_RESET" ELSE "UPDATE_SYSTEM") \in caller.granted

\* The error of a caller that may not call.
Refusal == IF IsCallerValid THEN APP_NOT_GRANTED ELSE NOT_SYSTEM_APP

\* What a call that has come back carries: a refusal, an error of the transport, or the outcome
\* of the request that was served.
SentOK ==
  \/ /\ asked = NotAsked
     /\ call.status = CALL_RESULT_OFFSET + Refusal
  \/ asked = NotAsked /\ call.status \in TransportErrors
  \/ /\ asked = truth.asked /\ Served(call.m, truth)
     /\ call.status = CALL_RESULT_OFFSET + truth.ret
     /\ call.reply = Reply(call.m, truth)

CallInv ==
  /\ world \in Worlds
  /\ call = [k \in CallFields |-> call[k]]
  /\ call.step # "idle" => call.m \in Methods
  /\ call.step = "queued" => asked = NotAsked /\ call.status = 0
  /\ asked.m # "none" => Permitted(asked.m)
  /\ call.step = "sent" => SentOK
  /\ OutcomeIsTrue

\* Only factoryReset has the code that asks for its own permission.
LEMMA MethodNames == \A m \in Methods : m # "none" /\ (Code(m) = 18 <=> m = "FactoryReset")
<1>1. \A i \in 1..20 : Codes[i] # "none" /\ (i = 18 <=> Codes[i] = "FactoryReset")
  BY DEF Codes
<1> QED BY <1>1, CodeOfMethod

\* The invariant holds before the first call.
LEMMA CallInvInit == Init => CallInv
BY DEF Init, CallInv, NoCall, NotAsked, CallFields, OutcomeIsTrue

\* It is about the call, the request and its outcome, and the service's world.
LEMMA QuietStep ==
  ASSUME CallInv, UNCHANGED <<caller, call, asked, truth>>, world' \in Worlds
  PROVE  CallInv'
BY DEF CallInv, SentOK, Permitted, Refusal, IsCallerValid, OutcomeIsTrue, Served, Reply

\* Bad arguments are answered with PARAM_ERR and nothing is asked (update_client.cpp,
\* local_updater.cpp).
LEMMA CallIsSafe ==
  ASSUME CallInv, NEW i \in DOMAIN Calls, Call(Calls[i])
  PROVE  CallInv'
<1> DEFINE c == Calls[i]
           parsed == Parse(c.m, client, c.args)
           refused == [kind |-> "error", js |-> BuildThrowError(Err(PARAM_ERR))]
<1>0. c.m \in Methods
  BY CallAssumption
<1>1. /\ call' = [NoCall EXCEPT !.step = IF parsed.ok THEN "queued" ELSE "done", !.m = c.m,
                                 !.args = c.args, !.answer = IF parsed.ok THEN @ ELSE refused]
      /\ asked' = NotAsked /\ truth' = NotAsked /\ UNCHANGED <<caller, world>>
  BY DEF Call
<1>2. refused.kind = "error" /\ refused.js.v.code.v = PARAM_ERR
  <2>1. ErrorObject(Err(PARAM_ERR)).v.code.v = ConvertToErrorCode(Err(PARAM_ERR).errorNum)
    BY ErrorCodeShown DEF Err, Refusals, ErrorNumbers
  <2>2. Err(PARAM_ERR).errorNum = PARAM_ERR
    BY DEF Err
  <2> QED BY <2>1, <2>2 DEF BuildThrowError, ConvertToErrorCode, IsCommonError
<1> HIDE DEF c, parsed, refused
<1>3. CASE parsed.ok
  <2>1. /\ call'.step = "queued" /\ call'.m = c.m /\ call'.status = 0
        /\ call' = [k \in CallFields |-> call'[k]]
    BY <1>1, <1>3 DEF NoCall, CallFields
  <2> QED BY <1>0, <1>1, <2>1 DEF CallInv, OutcomeIsTrue, NotAsked
<1>4. CASE ~parsed.ok
  <2>1. /\ call'.step = "done" /\ call'.m = c.m /\ call'.status = 0 /\ call'.answer = refused
        /\ call' = [k \in CallFields |-> call'[k]]
    BY <1>1, <1>4 DEF NoCall, CallFields
  <2>2. OutcomeIsTrue'
    BY <1>1, <1>2, <2>1 DEF OutcomeIsTrue, NotAsked
  <2> QED BY <1>0, <1>1, <2>1, <2>2 DEF CallInv, NotAsked
<1> QED BY <1>3, <1>4

\* The stub serves nobody but a valid caller with the permission of the method, and its status
\* tells refused calls from served ones (OnRemoteRequest).
LEMMA RemoteRequestIsSafe ==
  ASSUME CallInv, OnRemoteRequest
  PROVE  CallInv'
<1> DEFINE m == call.m
           sent == Proxy(m, client)
<1>1. /\ call.step = "queued" /\ m \in Methods /\ asked = NotAsked
      /\ UNCHANGED <<caller, client, world>> /\ world \in Worlds
  BY DEF OnRemoteRequest, CallInv
<1>2. sent.code = Code(m)
  BY <1>1, ProxyCode
<1>3. CASE ~IsCallerValid \/ ~IsPermissionGranted(sent.code)
  <2>1. /\ call' = [call EXCEPT !.step = "sent", !.status = CALL_RESULT_OFFSET + Refusal]
        /\ UNCHANGED <<asked, truth>>
    BY <1>3 DEF OnRemoteRequest, Refusal
  <2> HIDE DEF sent
  <2>2. /\ call'.step = "sent" /\ call'.m = m /\ call'.status = CALL_RESULT_OFFSET + Refusal
        /\ call' = [k \in CallFields |-> call'[k]]
    BY <2>1 DEF CallInv, CallFields
  <2>3. SentOK'
    BY <1>1, <2>1, <2>2 DEF SentOK, Refusal, IsCallerValid
  <2> QED BY <1>1, <2>1, <2>2, <2>3 DEF CallInv, OutcomeIsTrue, NotAsked
<1>4. CASE IsCallerValid /\ IsPermissionGranted(sent.code)
  <2>1. PICK out \in Handle(sent.code, sent.cells) :
          /\ asked' = out.asked /\ truth' = out
          /\ call' = [call EXCEPT !.step = "sent", !.status = CALL_RESULT_OFFSET + out.ret,
                                  !.reply = Reply(m, out)]
    BY <1>4 DEF OnRemoteRequest
  <2>2. Served(m, out)
    BY <1>1, <1>2, <2>1, HandleServed
  <2>3. out.asked.m = m
    BY <2>2 DEF Served
  <2>4. Permitted(m)
    BY <1>1, <1>2, <1>4, MethodNames DEF Permitted, IsPermissionGranted
  <2> HIDE DEF sent
  <2>5. /\ call'.step = "sent" /\ call'.m = m /\ call'.status = CALL_RESULT_OFFSET + out.ret
        /\ call'.reply = Reply(m, out) /\ call' = [k \in CallFields |-> call'[k]]
    BY <2>1 DEF CallInv, CallFields
  <2>6. Served(call'.m, out)
    BY <2>2, <2>5
  <2>7. SentOK'
    BY <2>1, <2>5, <2>6 DEF SentOK, Served, Reply
  <2>8. Permitted(m)' /\ asked'.m = m
    BY <1>1, <2>1, <2>3, <2>4 DEF Permitted, IsCallerValid
  <2>9. OutcomeIsTrue'
    BY <2>5, <2>8 DEF OutcomeIsTrue, Permitted, IsCallerValid
  <2> QED BY <1>1, <2>5, <2>7, <2>8, <2>9 DEF CallInv
<1> QED BY <1>3, <1>4

\* A request that was not delivered leaves a code of SendRequest.
LEMMA TransportIsSafe ==
  ASSUME CallInv, TransportFails
  PROVE  CallInv'
<1>1. PICK code \in TransportErrors : call' = [call EXCEPT !.step = "sent", !.status = code]
  BY DEF TransportFails
<1>2. /\ call.step = "queued" /\ call.m \in Methods /\ asked = NotAsked
      /\ UNCHANGED <<caller, world, asked, truth>>
  BY DEF TransportFails, CallInv
<1>3. /\ call'.step = "sent" /\ call'.m = call.m /\ call'.status = code
      /\ call' = [k \in CallFields |-> call'[k]]
  BY <1>1 DEF CallInv, CallFields
<1> QED BY <1>2, <1>3 DEF CallInv, SentOK, OutcomeIsTrue, NotAsked

\* The error number the session works with: of the refusal, of the transport or of the service's
\* outcome. The codes of SendRequest and the shifted results do not overlap, and nothing but the
\* outcome's own number can be read from the reply.
LEMMA ResultOfCall ==
  ASSUME TransportIsNoResult, CallInv, call.step = "sent",
         NEW result, result = CallResult(call.status),
         NEW errorNum,
         errorNum = IF result # SUCCESS THEN result
                    ELSE IF call.m \notin NoReply THEN ReadBusinessError(call.reply).v.errorNum
                    ELSE SUCCESS
  PROVE  /\ errorNum \in ErrorNumbers
         /\ asked.m # "none" =>
              errorNum = IF truth.ret # SUCCESS THEN truth.ret ELSE truth.err.errorNum
         /\ asked.m # "none" => errorNum \in ManagerResults
         /\ asked.m = "none" =>
              errorNum = IF call.status \in TransportErrors THEN Undelivered(call.status)
                         ELSE Refusal
         /\ call.status # 0
<1>1. SentOK /\ call.m \in Methods
  BY DEF CallInv
<1>2. CASE /\ asked = NotAsked
           /\ call.status = CALL_RESULT_OFFSET + Refusal
  <2>1. result = Refusal
    BY <1>2 DEF CallResult, Refusal, CALL_RESULT_OFFSET, APP_NOT_GRANTED, NOT_SYSTEM_APP
  <2>2. call.status \notin TransportErrors /\ call.status # 0
    BY <1>2 DEF TransportIsNoResult, Refusal, CALL_RESULT_OFFSET, APP_NOT_GRANTED, NOT_SYSTEM_APP
  <2> QED BY <1>2, <2>1, <2>2 DEF NotAsked, Refusal, Refusals, ErrorNumbers, SUCCESS,
                                  APP_NOT_GRANTED, NOT_SYSTEM_APP
<1>3. CASE asked = NotAsked /\ call.status \in TransportErrors
  <2>1. call.status \in Int /\ call.status # 0
    BY <1>3, CallAssumption
  <2>2. result = Undelivered(call.status)
    BY <2>1 DEF CallResult, CALL_RESULT_OFFSET, Undelivered
  <2>3. result # SUCCESS
    BY <1>3, <2>1, <2>2 DEF TransportIsNoResult, ManagerResults, Undelivered, CALL_RESULT_OFFSET,
                            SUCCESS, IPC_ERR
  <2>4. errorNum = Undelivered(call.status) /\ errorNum \in ErrorNumbers
    BY <1>3, <2>2, <2>3 DEF ErrorNumbers
  <2> QED BY <1>3, <2>1, <2>4 DEF NotAsked
<1>4. CASE /\ asked = truth.asked /\ Served(call.m, truth)
           /\ call.status = CALL_RESULT_OFFSET + truth.ret
           /\ call.reply = Reply(call.m, truth)
  <2>1. result = truth.ret /\ call.status # 0 /\ truth.ret \in {SUCCESS, FAIL, IPC_ERR}
    BY <1>4 DEF CallResult, CALL_RESULT_OFFSET, Served, SUCCESS, FAIL, IPC_ERR
  <2>2. asked.m # "none"
    BY <1>1, <1>4, MethodNames DEF Served
  <2>3. CASE truth.ret = SUCCESS /\ call.m \notin NoReply
    <3>1. call.reply = WriteBusinessError(truth.err) \o Value(call.m, truth.value)
      BY <1>4, <2>3 DEF Reply
    <3>2. ReadBusinessError(call.reply).v.errorNum = truth.err.errorNum
      BY <1>4, <2>3, <3>1, ErrorNumberArrives DEF Served
    <3> QED BY <1>4, <2>1, <2>2, <2>3, <3>2 DEF Served, ErrorNumbers
  <2>4. CASE truth.ret = SUCCESS /\ call.m \in NoReply
    <3>1. errorNum = SUCCESS /\ truth.err.errorNum = SUCCESS
      BY <1>4, <2>1, <2>4 DEF Served
    <3> QED BY <2>1, <2>2, <2>4, <3>1 DEF ManagerResults, ErrorNumbers
  <2>5. CASE truth.ret # SUCCESS
    <3>1. errorNum = truth.ret /\ truth.ret \in {FAIL, IPC_ERR}
      BY <2>1, <2>5
    <3> QED BY <2>1, <2>2, <2>5, <3>1 DEF ManagerResults, ErrorNumbers
  <2> QED BY <2>1, <2>3, <2>4, <2>5
<1> QED BY <1>1, <1>2, <1>3, <1>4 DEF SentOK

\* The session shows JavaScript that error number (CompleteWork).
LEMMA CompleteIsSafe ==
  ASSUME TransportIsNoResult, CallInv, CompleteWork
  PROVE  CallInv'
<1> DEFINE m == call.m
           result == CallResult(call.status)
           read == result = SUCCESS /\ m \notin NoReply
           err == IF read THEN ReadBusinessError(call.reply) ELSE [v |-> NoError, rest |-> <<>>]
           value == IF read THEN ReadValue(m, err.rest) ELSE <<>>
           silent == m = "Cancel" \/ (m = "CheckNewVersion" /\ result = SUCCESS)
           answer == IF silent THEN [kind |-> "nothing", js |-> Undefined]
                     ELSE NotifyJS(m, result, err.v, value)
           n == GetBusinessError(result, err.v).errorNum
<1>1. /\ call.step = "sent" /\ m \in Methods /\ world \in Worlds
      /\ call' = [call EXCEPT !.step = "done", !.answer = answer]
      /\ UNCHANGED <<caller, world, asked, truth>>
  BY DEF CompleteWork, CallInv
<1>2. n = IF result # SUCCESS THEN result
          ELSE IF m \notin NoReply THEN ReadBusinessError(call.reply).v.errorNum ELSE SUCCESS
  BY DEF GetBusinessError, BuildWorkBusinessErr, NoError, Err
<1>3. /\ n \in ErrorNumbers
      /\ asked.m # "none" => n = IF truth.ret # SUCCESS THEN truth.ret ELSE truth.err.errorNum
      /\ asked.m # "none" => n \in ManagerResults
      /\ asked.m = "none" =>
           n = IF call.status \in TransportErrors THEN Undelivered(call.status) ELSE Refusal
      /\ call.status # 0
  <2> HIDE DEF n
  <2> QED BY <1>1, <1>2, ResultOfCall
<1>4. /\ answer.kind \in {"error", "result"} => (answer.kind = "result") = (n = SUCCESS)
      /\ answer.kind = "error" => answer.js.v.code.v = ConvertToErrorCode(n)
  <2> HIDE DEF n, result, err, value, read
  <2>1. CASE silent
    BY <2>1
  <2>2. CASE ~silent
    BY <1>3, <2>2, NotifyShows DEF n
  <2> QED BY <2>1, <2>2
<1> HIDE DEF answer, n
<1>5. /\ call'.step = "done" /\ call'.m = m /\ call'.status = call.status /\ call'.answer = answer
      /\ call' = [k \in CallFields |-> call'[k]]
  BY <1>1 DEF CallInv, CallFields
<1>6. asked.m # "none" => Permitted(asked.m)
  BY DEF CallInv
<1>7. asked.m # "none" =>
        ConvertToErrorCode(n) = IF n = UN_SUPPORT THEN UN_SUPPORT
                                ELSE IF n = SUCCESS THEN SUCCESS ELSE COMPONENT_ERR + n
  BY <1>3 DEF ConvertToErrorCode, IsCommonError, ManagerResults, SUCCESS, FAIL, IPC_ERR,
              UN_SUPPORT, APP_NOT_GRANTED, NOT_SYSTEM_APP, PARAM_ERR
<1>8. asked.m = "none" =>
        /\ n # SUCCESS
        /\ ConvertToErrorCode(n) = IF call.status \in TransportErrors
                                   THEN COMPONENT_ERR + Undelivered(call.status) ELSE Refusal
  <2> SUFFICES ASSUME asked.m = "none"
               PROVE  /\ n # SUCCESS
                      /\ ConvertToErrorCode(n) = IF call.status \in TransportErrors
                                                 THEN COMPONENT_ERR + Undelivered(call.status)
                                                 ELSE Refusal
    OBVIOUS
  <2>1. CASE call.status \in TransportErrors
    <3>1. call.status \in Int
      BY <2>1, CallAssumption
    <3>2. n # SUCCESS /\ ~IsCommonError(n)
      BY <1>3, <2>1, <3>1 DEF TransportIsNoResult, ManagerResults, Undelivered, IsCommonError,
           CALL_RESULT_OFFSET, SUCCESS, IPC_ERR, UN_SUPPORT, APP_NOT_GRANTED, NOT_SYSTEM_APP,
           PARAM_ERR
    <3> QED BY <1>3, <2>1, <3>2 DEF ConvertToErrorCode
  <2>2. CASE call.status \notin TransportErrors
    BY <1>3, <2>2 DEF ConvertToErrorCode, Refusal, IsCommonError, SUCCESS, APP_NOT_GRANTED,
                      NOT_SYSTEM_APP
  <2> QED BY <2>1, <2>2
<1>9. OutcomeIsTrue'
  <2>1. CASE asked.m # "none"
    BY <1>1, <1>3, <1>4, <1>5, <1>6, <1>7, <2>1 DEF OutcomeIsTrue, Permitted, IsCallerValid
  <2>2. CASE asked.m = "none"
    BY <1>1, <1>3, <1>4, <1>5, <1>8, <2>2 DEF OutcomeIsTrue, Refusal, IsCallerValid, Undelivered
  <2> QED BY <2>1, <2>2
<1> QED BY <1>1, <1>5, <1>6, <1>9 DEF CallInv, Permitted, IsCallerValid

\* Every step preserves the invariant.
LEMMA CallInvStep ==
  ASSUME TransportIsNoResult PROVE CallInv /\ [Next]_vars => CallInv'
<1> SUFFICES ASSUME CallInv, [Next]_vars PROVE CallInv'
  OBVIOUS
<1>1. CASE Forget
  BY <1>1 DEF Forget, CallInv, NoCall, NotAsked, CallFields, OutcomeIsTrue
<1>2. CASE WorldChanges \/ (\E p \in Pushed : Push(p)) \/ UNCHANGED vars
  BY <1>2, QuietStep DEF WorldChanges, Push, vars, CallInv
<1> QED BY <1>1, <1>2, CallIsSafe, RemoteRequestIsSafe, TransportIsSafe, CompleteIsSafe DEF Next

\* For any calls, callers, states of the service and errors of the manager, JavaScript is told
\* of success exactly when the service served the call and succeeded, and of the error of the
\* step that failed otherwise; nothing is served for a caller without the rights
\* (update_service_stub.cpp, update_service_proxy.cpp, update_session.cpp).
THEOREM OutcomeAlwaysTrue ==
  ASSUME TransportIsNoResult PROVE Spec => []OutcomeIsTrue
<1>1. CallInv => OutcomeIsTrue
  BY DEF CallInv
<1> QED BY CallInvInit, CallInvStep, <1>1, PTL DEF Spec

-----------------------------------------------------------------------------
(* UpdateCall: requests *)

\* The names of the members of a structure: no two are the same.
MemberNames(names) == IsSeq(names) /\ \A i, j \in DOMAIN names : names[i] = names[j] => i = j

\* What is written before a parcel is read before it: every member of a structure comes back
\* under its name, and the rest of the parcel is what was written after it.
LEMMA StructArrives ==
  ASSUME NEW names, MemberNames(names),
         NEW v, NEW tail, IsSeq(tail)
  PROVE  /\ \A n \in Range(names) : Struct(Cells(v, names) \o tail, names).v[n] = v[n]
         /\ Struct(Cells(v, names) \o tail, names).rest = tail
<1> DEFINE read == Struct(Cells(v, names) \o tail, names)
           cells == Cells(v, names)
           p == cells \o tail
<1>1. Len(names) \in Nat /\ DOMAIN names = 1 .. Len(names)
  BY DEF MemberNames, IsSeq
<1>2. cells = [i \in 1 .. Len(names) |-> v[names[i]]] /\ IsSeq(cells)
  BY <1>1, FunctionIsSeq DEF Cells
<1> HIDE DEF cells
<1>3. PICK S : cells \in Seq(S) /\ tail \in Seq(S)
  <2>1. PICK T : cells \in Seq(T)
    BY <1>2 DEF IsSeq
  <2>2. PICK U : tail \in Seq(U)
    BY DEF IsSeq
  <2>3. cells \in Seq(T \union U) /\ tail \in Seq(T \union U)
    BY <2>1, <2>2
  <2> QED BY <2>3
<1>4. Len(cells) = Len(names)
  BY <1>1, <1>2, <1>3
<1>5. /\ p \in Seq(S) /\ Len(p) = Len(names) + Len(tail) /\ Len(tail) \in Nat
      /\ \A i \in 1 .. Len(names) : p[i] = v[names[i]]
      /\ \A i \in 1 .. Len(tail) : p[Len(names) + i] = tail[i]
  BY <1>1, <1>2, <1>3, <1>4
<1> HIDE DEF p
<1>6. ASSUME NEW n \in Range(names) PROVE read.v[n] = v[n]
  <2>1. PICK i \in DOMAIN names : names[i] = n
    BY DEF Range
  <2>2. (CHOOSE j \in DOMAIN names : names[j] = n) = i
    BY <2>1 DEF MemberNames
  <2>3. read.v[n] = CellAt(p, i)
    BY <2>2 DEF Struct, p, cells
  <2> QED BY <1>1, <1>5, <2>1, <2>3 DEF CellAt
<1>7. Drop(p, Len(names)) = tail
  <2> DEFINE d == SubSeq(p, Len(names) + 1, Len(p))
  <2>1. d \in Seq(S) /\ Len(d) = Len(tail) /\ \A i \in 1 .. Len(tail) : d[i] = tail[i]
    BY <1>1, <1>5
  <2> HIDE DEF d
  <2>2. d = tail
    BY <1>3, <2>1
  <2> QED BY <2>2 DEF d, Drop
<1> QED BY <1>6, <1>7 DEF Struct, p, cells

\* A structure at the end of a parcel.
LEMMA LastStructArrives ==
  ASSUME NEW names, MemberNames(names), NEW v
  PROVE  \A n \in Range(names) : Struct(Cells(v, names), names).v[n] = v[n]
<1>1. IsSeq(Cells(v, names))
  <2>1. Len(names) \in Nat /\ DOMAIN names = 1 .. Len(names)
    BY DEF MemberNames, IsSeq
  <2> DEFINE cells == Cells(v, names)
  <2> SUFFICES IsSeq(cells)
    OBVIOUS
  <2>2. cells = [i \in 1 .. Len(names) |-> v[names[i]]]
    BY <2>1 DEF Cells
  <2> HIDE DEF cells
  <2> QED BY <2>1, <2>2, FunctionIsSeq
<1>2. Cells(v, names) \o <<>> = Cells(v, names)
  BY <1>1 DEF IsSeq
<1>3. \A tail : IsSeq(tail) => \A n \in Range(names) : Struct(Cells(v, names) \o tail, names).v[n] = v[n]
  BY StructArrives
<1> QED BY <1>2, <1>3, EmptyIsSeq

-----------------------------------------------------------------------------
(* UpdateCall: requests *)

\* The members of the structures have names of their own.
LEMMA NamesAreDistinct ==
  /\ MemberNames(UpgradeInfo) /\ MemberNames(VersionDigestInfo) /\ MemberNames(DescriptionOptions)
  /\ MemberNames(DownloadOptions) /\ MemberNames(PauseDownloadOptions)
  /\ MemberNames(ResumeDownloadOptions) /\ MemberNames(UpgradeOptions)
  /\ MemberNames(ClearOptions)
<1>1. \A x, y : x # y => MemberNames(<<x, y>>)
  <2> SUFFICES ASSUME NEW x, NEW y, x # y PROVE MemberNames(<<x, y>>)
    OBVIOUS
  <2>1. DOMAIN <<x, y>> = 1 .. 2
    OBVIOUS
  <2>2. \A i, j \in 1 .. 2 : <<x, y>>[i] = <<x, y>>[j] => i = j
    OBVIOUS
  <2> QED BY <2>1, <2>2, TwoIsSeq DEF MemberNames
<1>2. \A x : MemberNames(<<x>>)
  <2> SUFFICES ASSUME NEW x PROVE MemberNames(<<x>>)
    OBVIOUS
  <2>1. DOMAIN <<x>> = {1}
    OBVIOUS
  <2> QED BY <2>1, OneIsSeq DEF MemberNames
<1>3. MemberNames(UpgradeInfo)
  <2>1. UpgradeInfo = <<"upgradeApp", "vendor", "subType", "upgradeDevId", "controlDevId">>
    BY DEF UpgradeInfo
  <2>2. IsSeq(UpgradeInfo)
    <3>1. \A a, b, c, d, e : <<a, b, c, d, e>> \in Seq({a, b, c, d, e})
      OBVIOUS
    <3> QED BY <2>1, <3>1 DEF IsSeq
  <2>3. DOMAIN UpgradeInfo = 1 .. 5
    BY <2>1
  <2>4. \A i, j \in 1 .. 5 : UpgradeInfo[i] = UpgradeInfo[j] => i = j
    BY <2>1
  <2> QED BY <2>2, <2>3, <2>4 DEF MemberNames
<1> QED BY <1>1, <1>2, <1>3 DEF VersionDigestInfo, DescriptionOptions, DownloadOptions,
             PauseDownloadOptions, ResumeDownloadOptions, UpgradeOptions, ClearOptions

\* A structure makes a parcel.
LEMMA CellsAreSeq ==
  ASSUME NEW names, MemberNames(names), NEW v PROVE IsSeq(Cells(v, names))
<1> DEFINE cells == Cells(v, names)
<1>1. Len(names) \in Nat /\ DOMAIN names = 1 .. Len(names)
  BY DEF MemberNames, IsSeq
<1> SUFFICES IsSeq(cells)
  OBVIOUS
<1>2. cells = [i \in 1 .. Len(names) |-> v[names[i]]]
  BY <1>1 DEF Cells
<1> HIDE DEF cells
<1> QED BY <1>1, <1>2, FunctionIsSeq

\* The grouping of joins does not matter.
LEMMA JoinAssociates ==
  ASSUME NEW s, NEW t, NEW u, IsSeq(s), IsSeq(t), IsSeq(u)
  PROVE  (s \o t) \o u = s \o (t \o u)
<1>1. PICK S : s \in Seq(S)
  BY DEF IsSeq
<1>2. PICK T : t \in Seq(T)
  BY DEF IsSeq
<1>3. PICK U : u \in Seq(U)
  BY DEF IsSeq
<1> DEFINE W == S \union T \union U
<1>4. s \in Seq(W) /\ t \in Seq(W) /\ u \in Seq(W)
  BY <1>1, <1>2, <1>3
<1> HIDE DEF W
<1> QED BY <1>4

\* What every outcome of a request says it was asked is that request.
LEMMA OutcomeAsks ==
  ASSUME NEW req, NEW out,
         \/ out \in CheckNewVersion(req) \/ out \in Download(req)
         \/ out \in PauseDownload(req) \/ out \in ResumeDownload(req)
         \/ out \in Upgrade(req) \/ out \in ClearError(req)
         \/ out \in TerminateUpgrade(req) \/ out \in Cancel(req)
         \/ out \in SetUpgradePolicy(req) \/ out \in GetUpgradePolicy(req)
         \/ out \in GetNewVersionInfo(req) \/ out \in GetNewVersionDescription(req)
         \/ out \in GetCurrentVersionInfo(req) \/ out \in GetCurrentVersionDescription(req)
         \/ out \in GetTaskInfo(req) \/ out \in Kits(req)
         \/ out \in RegisterUpdateCallback(req) \/ out \in UnregisterUpdateCallback(req)
  PROVE  out.asked = req
<1>1. \A ret, err, value : Outcome(req, ret, err, value).asked = req
  BY DEF Outcome
<1>2. \A e : Answer(req, e).asked = req
  BY <1>1 DEF Answer
<1>3. out \in Managed(req) => out.asked = req
  BY <1>2 DEF Managed
<1>4. out \in SetUpgradePolicyImpl(req) => out.asked = req
  BY <1>2 DEF SetUpgradePolicyImpl, Answer, Outcome
<1>5. /\ out \in GetUpgradePolicyImpl(req) => out.asked = req
      /\ out \in GetNewVersionInfoImpl(req) => out.asked = req
      /\ out \in GetNewVersionDescriptionImpl(req) => out.asked = req
      /\ out \in GetCurrentVersionInfoImpl(req) => out.asked = req
      /\ out \in GetTaskInfoImpl(req) => out.asked = req
  BY <1>1 DEF GetUpgradePolicyImpl, GetNewVersionInfoImpl, GetNewVersionDescriptionImpl,
              GetCurrentVersionInfoImpl, GetTaskInfoImpl
<1>6. out \in GetCurrentVersionDescriptionImpl(req) => out.asked = req
  BY <1>1 DEF GetCurrentVersionDescriptionImpl
<1>7. /\ out \in CheckNewVersionImpl(req) => out.asked = req
      /\ out \in DownloadImpl(req) => out.asked = req
      /\ out \in CancelImpl(req) => out.asked = req
  BY <1>2, <1>3 DEF CheckNewVersionImpl, DownloadImpl, CancelImpl
<1> QED BY <1>1, <1>2, <1>3, <1>4, <1>5, <1>6, <1>7
        DEF CheckNewVersion, Download, PauseDownload, ResumeDownload, Upgrade, ClearError,
            TerminateUpgrade, Cancel, SetUpgradePolicy, GetUpgradePolicy, GetNewVersionInfo,
            GetNewVersionDescription, GetCurrentVersionInfo, GetCurrentVersionDescription,
            GetTaskInfo, Kits, RegisterUpdateCallback, UnregisterUpdateCallback, Online,
            UpgradeImpl, ClearErrorImpl, TerminateUpgradeImpl


-----------------------------------------------------------------------------
\* The methods of the local updater and the restorer, which are no business of the caller's.
KitMethods == {"FactoryReset", "ApplyNewVersion", "VerifyUpgradePackage"}

\* Request req asks what client c holds for method m.
Asks(m, c, req) ==
  /\ req.m = m
  /\ m \notin KitMethods => \A n \in Range(UpgradeInfo) : req.info[n] = c.info[n]
  /\ m \in WithOptionsCalls =>
       \A n \in Range(OptionNames[m]) : req.options[n] = c[OptionsMember[m]][n]
  /\ (m \in WithOptionsCalls /\ OptionsOf(m) = 2) =>
       req.digest.versionDigest = c.digest.versionDigest
  /\ m = "SetUpgradePolicy" =>
       /\ req.options.downloadStrategy = c.policy.downloadStrategy
       /\ req.options.autoUpgradeStrategy = c.policy.autoUpgradeStrategy
  /\ m = "ApplyNewVersion" => req.options[2] = c.files[1]
  /\ m = "VerifyUpgradePackage" => req.options = <<c.files[1], c.certs>>

\* The upgrade info arrives, whatever follows it (WriteUpgradeInfo, ReadUpgradeInfo).
LEMMA InfoArrives ==
  ASSUME NEW info, NEW tail, IsSeq(tail)
  PROVE  /\ \A n \in Range(UpgradeInfo) : ReadUpgradeInfo(WriteUpgradeInfo(info) \o tail).v[n] = info[n]
         /\ ReadUpgradeInfo(WriteUpgradeInfo(info) \o tail).rest = tail
BY NamesAreDistinct, StructArrives DEF ReadUpgradeInfo, WriteUpgradeInfo

\* So do the digest and the options behind it.
LEMMA DigestArrives ==
  ASSUME NEW c, NEW names, MemberNames(names), NEW o, NEW info, NEW digest,
         info = ReadUpgradeInfo(InfoAndDigest(c) \o Cells(o, names)),
         digest = ReadVersionDigestInfo(info.rest)
  PROVE  /\ \A n \in Range(UpgradeInfo) : info.v[n] = c.info[n]
         /\ digest.v.versionDigest = c.digest.versionDigest
         /\ \A n \in Range(names) : Struct(digest.rest, names).v[n] = o[n]
<1> DEFINE cells == Cells(o, names)
           tail == WriteVersionDigestInfo(c.digest) \o cells
<1>1. IsSeq(cells) /\ IsSeq(WriteVersionDigestInfo(c.digest)) /\ IsSeq(WriteUpgradeInfo(c.info))
  BY NamesAreDistinct, CellsAreSeq DEF WriteVersionDigestInfo, WriteUpgradeInfo
<1>2. IsSeq(tail)
  BY <1>1, JoinIsSeq
<1>3. InfoAndDigest(c) \o cells = WriteUpgradeInfo(c.info) \o tail
  BY <1>1, JoinAssociates DEF InfoAndDigest
<1> HIDE DEF tail, cells
<1>4. (\A n \in Range(UpgradeInfo) : info.v[n] = c.info[n]) /\ info.rest = tail
  BY <1>2, <1>3, InfoArrives DEF cells
<1>5. /\ \A n \in Range(VersionDigestInfo) : digest.v[n] = c.digest[n]
      /\ digest.rest = cells
  BY <1>1, <1>4, NamesAreDistinct, StructArrives
     DEF tail, ReadVersionDigestInfo, WriteVersionDigestInfo
<1>6. "versionDigest" \in Range(VersionDigestInfo)
  BY DEF VersionDigestInfo, Range
<1>7. \A n \in Range(names) : Struct(cells, names).v[n] = o[n]
  BY LastStructArrives DEF cells
<1> QED BY <1>4, <1>5, <1>6, <1>7


\* What the proxies send (update_service_proxy.cpp).
LEMMA CellsSent ==
  ASSUME NEW c
  PROVE  /\ \A m : InfoProxy(m, c).cells = WriteUpgradeInfo(c.info)
         /\ DownloadProxy(c).cells = InfoAndDigest(c) \o Cells(c.download, DownloadOptions)
         /\ PauseDownloadProxy(c).cells = InfoAndDigest(c) \o Cells(c.pause, PauseDownloadOptions)
         /\ ResumeDownloadProxy(c).cells = InfoAndDigest(c) \o Cells(c.resume, ResumeDownloadOptions)
         /\ UpgradeProxy(c).cells = InfoAndDigest(c) \o Cells(c.upgrade, UpgradeOptions)
         /\ ClearErrorProxy(c).cells = InfoAndDigest(c) \o Cells(c.clear, ClearOptions)
         /\ GetNewVersionDescriptionProxy(c).cells
              = InfoAndDigest(c) \o Cells(c.description, DescriptionOptions)
         /\ GetCurrentVersionDescriptionProxy(c).cells
              = WriteUpgradeInfo(c.info) \o Cells(c.description, DescriptionOptions)
         /\ SetUpgradePolicyProxy(c).cells
              = WriteUpgradeInfo(c.info) \o WriteUpgradePolicy(c.policy)
         /\ CancelProxy(c).cells = WriteUpgradeInfo(c.info) \o <<Code("Download")>>
         /\ RegisterUpdateCallbackProxy(c).cells = WriteUpgradeInfo(c.info) \o <<REMOTE_OBJECT>>
         /\ ApplyNewVersionProxy(c).cells = WriteUpgradeInfo(LocalInfo) \o <<MISC_FILE, c.files[1]>>
         /\ VerifyUpgradePackageProxy(c).cells = <<c.files[1], c.certs>>
<1>1. \A n, cells : Request(n, cells).cells = cells
  BY DEF Request
<1>2. /\ DownloadProxy(c).cells = InfoAndDigest(c) \o Cells(c.download, DownloadOptions)
      /\ PauseDownloadProxy(c).cells = InfoAndDigest(c) \o Cells(c.pause, PauseDownloadOptions)
      /\ ResumeDownloadProxy(c).cells = InfoAndDigest(c) \o Cells(c.resume, ResumeDownloadOptions)
      /\ UpgradeProxy(c).cells = InfoAndDigest(c) \o Cells(c.upgrade, UpgradeOptions)
  BY <1>1, Zenon DEF DownloadProxy, PauseDownloadProxy, ResumeDownloadProxy, UpgradeProxy,
            WriteDownloadOptions, WritePauseDownloadOptions, WriteResumeDownloadOptions,
            WriteUpgradeOptions
<1>3. /\ ClearErrorProxy(c).cells = InfoAndDigest(c) \o Cells(c.clear, ClearOptions)
      /\ GetNewVersionDescriptionProxy(c).cells
           = InfoAndDigest(c) \o Cells(c.description, DescriptionOptions)
      /\ GetCurrentVersionDescriptionProxy(c).cells
           = WriteUpgradeInfo(c.info) \o Cells(c.description, DescriptionOptions)
  BY <1>1, Zenon DEF ClearErrorProxy, GetNewVersionDescriptionProxy,
            GetCurrentVersionDescriptionProxy, WriteClearOptions, WriteDescriptionOptions
<1>4. /\ \A m : InfoProxy(m, c).cells = WriteUpgradeInfo(c.info)
      /\ SetUpgradePolicyProxy(c).cells
              = WriteUpgradeInfo(c.info) \o WriteUpgradePolicy(c.policy)
      /\ CancelProxy(c).cells = WriteUpgradeInfo(c.info) \o <<Code("Download")>>
      /\ RegisterUpdateCallbackProxy(c).cells = WriteUpgradeInfo(c.info) \o <<REMOTE_OBJECT>>
      /\ ApplyNewVersionProxy(c).cells = WriteUpgradeInfo(LocalInfo) \o <<MISC_FILE, c.files[1]>>
      /\ VerifyUpgradePackageProxy(c).cells = <<c.files[1], c.certs>>
  BY <1>1, Zenon DEF InfoProxy, SetUpgradePolicyProxy, CancelProxy, RegisterUpdateCallbackProxy,
            ApplyNewVersionProxy, VerifyUpgradePackageProxy
<1> QED BY <1>2, <1>3, <1>4

\* The methods that take nothing from JavaScript.
InfoMethods == {"CheckNewVersion", "TerminateUpgrade", "GetNewVersionInfo", "GetCurrentVersionInfo",
                "GetTaskInfo", "GetUpgradePolicy", "RegisterUpdateCallback",
                "UnregisterUpdateCallback"}

\* They and cancel ask for the caller's own business.
LEMMA InfoRequestArrives ==
  ASSUME NEW m \in InfoMethods \union {"Cancel"}, NEW c,
         NEW out \in Handle(Code(m), Proxy(m, c).cells)
  PROVE  Asks(m, c, out.asked)
<1> DEFINE p == Proxy(m, c).cells
<1>1. \A n \in Range(UpgradeInfo) : ReadUpgradeInfo(p).v[n] = c.info[n]
  <2>1. CASE m \in InfoMethods \ {"RegisterUpdateCallback"}
    <3>1. Proxy(m, c) = InfoProxy(m, c)
      BY <2>1, ProxyOf DEF InfoMethods, UnregisterUpdateCallbackProxy, CheckNewVersionProxy, TerminateUpgradeProxy, GetNewVersionInfoProxy,
                 GetCurrentVersionInfoProxy, GetTaskInfoProxy, GetUpgradePolicyProxy
    <3>2. p = Cells(c.info, UpgradeInfo)
      BY <3>1, CellsSent DEF WriteUpgradeInfo
    <3> HIDE DEF p
    <3> QED BY <3>2, NamesAreDistinct, LastStructArrives DEF ReadUpgradeInfo
  <2>2. CASE m = "Cancel"
    <3>1. p = WriteUpgradeInfo(c.info) \o <<Code("Download")>>
      BY <2>2, ProxyOf, CellsSent
    <3> HIDE DEF p
    <3> QED BY <3>1, OneIsSeq, InfoArrives
  <2>3. CASE m = "RegisterUpdateCallback"
    <3>1. p = WriteUpgradeInfo(c.info) \o <<REMOTE_OBJECT>>
      BY <2>3, ProxyOf, CellsSent
    <3> HIDE DEF p
    <3> QED BY <3>1, OneIsSeq, InfoArrives
  <2> QED BY <2>1, <2>2, <2>3
<1> HIDE DEF p
<1>2. out.asked = Req(m, ReadUpgradeInfo(p).v, <<>>, <<>>)
  <2>1. /\ Code("CheckNewVersion") = 1 /\ Code("TerminateUpgrade") = 7
        /\ Code("GetUpgradePolicy") = 9 /\ Code("GetNewVersionInfo") = 10
        /\ Code("GetCurrentVersionInfo") = 12 /\ Code("GetTaskInfo") = 14
        /\ Code("RegisterUpdateCallback") = 15 /\ Code("UnregisterUpdateCallback") = 16
        /\ Code("Cancel") = 17
    BY CodeOfMethod DEF Codes
  <2>2. out \in Handle(Code(m), p)
    BY DEF p
  <2>3. CASE m = "RegisterUpdateCallback"
    <3>1. out \in RegisterUpdateCallbackStub(p)
      BY <2>1, <2>2, <2>3, HandlerOf
    <3>2. \A req, e : Outcome(req, IPC_ERR, e, <<>>).asked = req
      BY DEF Outcome
    <3> QED BY <2>3, <3>1, <3>2, OutcomeAsks DEF RegisterUpdateCallbackStub
  <2>4. CASE m # "RegisterUpdateCallback"
    BY <2>1, <2>2, <2>4, HandlerOf, OutcomeAsks
       DEF InfoMethods, WithInfo, CheckNewVersionStub, TerminateUpgradeStub,
           GetUpgradePolicyStub, GetNewVersionStub, GetCurrentVersionStub, GetTaskInfoStub,
           UnregisterUpdateCallbackStub, CancelStub
  <2> QED BY <2>3, <2>4
<1> QED BY <1>1, <1>2 DEF Asks, Req, InfoMethods, WithOptionsCalls

\* The methods about the version with a digest ask about that version, with the caller's options.
LEMMA DigestRequestArrives ==
  ASSUME NEW m \in WithOptionsCalls \ {"GetCurrentVersionDescription"}, NEW c,
         NEW out \in Handle(Code(m), Proxy(m, c).cells)
  PROVE  Asks(m, c, out.asked)
<1> DEFINE p == Proxy(m, c).cells
           names == OptionNames[m]
           info == ReadUpgradeInfo(p)
           digest == ReadVersionDigestInfo(info.rest)
<1>1. p = InfoAndDigest(c) \o Cells(c[OptionsMember[m]], names) /\ MemberNames(names)
  <2>1. CASE m = "Download"
    BY <2>1, ProxyOf, CellsSent, NamesAreDistinct DEF OptionNames, OptionsMember
  <2>2. CASE m = "PauseDownload"
    BY <2>2, ProxyOf, CellsSent, NamesAreDistinct DEF OptionNames, OptionsMember
  <2>3. CASE m = "ResumeDownload"
    BY <2>3, ProxyOf, CellsSent, NamesAreDistinct DEF OptionNames, OptionsMember
  <2>4. CASE m = "Upgrade"
    BY <2>4, ProxyOf, CellsSent, NamesAreDistinct DEF OptionNames, OptionsMember
  <2>5. CASE m = "ClearError"
    BY <2>5, ProxyOf, CellsSent, NamesAreDistinct DEF OptionNames, OptionsMember
  <2>6. CASE m = "GetNewVersionDescription"
    BY <2>6, ProxyOf, CellsSent, NamesAreDistinct DEF OptionNames, OptionsMember
  <2> QED BY <2>1, <2>2, <2>3, <2>4, <2>5, <2>6 DEF WithOptionsCalls
<1>2. out.asked = Req(m, info.v, digest.v, Struct(digest.rest, names).v)
  <2> HIDE DEF p
  <2>1. /\ Code("Download") = 2 /\ Code("PauseDownload") = 3 /\ Code("ResumeDownload") = 4
        /\ Code("Upgrade") = 5 /\ Code("ClearError") = 6 /\ Code("GetNewVersionDescription") = 11
    BY CodeOfMethod DEF Codes
  <2>2. out \in Handle(Code(m), p)
    BY DEF p
  <2>3. CASE m = "Download"
    BY <2>1, <2>2, <2>3, HandlerOf, OutcomeAsks
       DEF WithDigest, DownloadVersionStub, ReadDownloadOptions, OptionNames
  <2>4. CASE m = "PauseDownload"
    BY <2>1, <2>2, <2>4, HandlerOf, OutcomeAsks
       DEF WithDigest, PauseDownloadStub, ReadPauseDownloadOptions, OptionNames
  <2>5. CASE m = "ResumeDownload"
    BY <2>1, <2>2, <2>5, HandlerOf, OutcomeAsks
       DEF WithDigest, ResumeDownloadStub, ReadResumeDownloadOptions, OptionNames
  <2>6. CASE m = "Upgrade"
    BY <2>1, <2>2, <2>6, HandlerOf, OutcomeAsks
       DEF WithDigest, DoUpdateStub, ReadUpgradeOptions, OptionNames
  <2>7. CASE m = "ClearError"
    BY <2>1, <2>2, <2>7, HandlerOf, OutcomeAsks
       DEF WithDigest, ClearErrorStub, ReadClearOptions, OptionNames
  <2>8. CASE m = "GetNewVersionDescription"
    BY <2>1, <2>2, <2>8, HandlerOf, OutcomeAsks
       DEF WithDigest, GetNewVersionDescriptionStub, ReadDescriptionOptions, OptionNames
  <2> QED BY <2>3, <2>4, <2>5, <2>6, <2>7, <2>8 DEF WithOptionsCalls
<1> HIDE DEF p, names
<1>3. /\ \A n \in Range(UpgradeInfo) : info.v[n] = c.info[n]
      /\ digest.v.versionDigest = c.digest.versionDigest
      /\ \A n \in Range(names) : Struct(digest.rest, names).v[n] = c[OptionsMember[m]][n]
  BY <1>1, DigestArrives
<1> HIDE DEF info, digest
<1>4. m \notin {"SetUpgradePolicy", "ApplyNewVersion", "VerifyUpgradePackage"}
  BY DEF WithOptionsCalls
<1> QED BY <1>2, <1>3, <1>4 DEF Asks, Req, names


\* The policy's strategies arrive before its periods.
LEMMA PolicyArrives ==
  ASSUME NEW c, IsSeq(c.policy.autoUpgradePeriods),
         NEW out \in Handle(Code("SetUpgradePolicy"), Proxy("SetUpgradePolicy", c).cells)
  PROVE  Asks("SetUpgradePolicy", c, out.asked)
<1> DEFINE p == Proxy("SetUpgradePolicy", c).cells
           periods == WriteVector(c.policy.autoUpgradePeriods, UpgradePeriod)
           tail == <<c.policy.downloadStrategy, c.policy.autoUpgradeStrategy>> \o periods
           info == ReadUpgradeInfo(p)
<1>1. IsSeq(periods)
  BY VectorIsSeq DEF UpgradePeriod
<1> HIDE DEF periods
<1>2. /\ IsSeq(tail) 
      /\ CellAt(tail, 1) = c.policy.downloadStrategy
      /\ CellAt(tail, 2) = c.policy.autoUpgradeStrategy
  <2>1. PICK S : periods \in Seq(S)
    BY <1>1 DEF IsSeq
  <2> DEFINE U == S \union {c.policy.downloadStrategy, c.policy.autoUpgradeStrategy}
  <2>2. periods \in Seq(U) /\ <<c.policy.downloadStrategy, c.policy.autoUpgradeStrategy>> \in Seq(U)
    BY <2>1
  <2> HIDE DEF U
  <2>3. IsSeq(tail)
    BY <2>2 DEF IsSeq
  <2>4. CellAt(tail, 1) = c.policy.downloadStrategy /\ CellAt(tail, 2) = c.policy.autoUpgradeStrategy
    BY <2>2 DEF CellAt
  <2> QED BY <2>3, <2>4
<1>3. p = WriteUpgradeInfo(c.info) \o tail
  BY ProxyOf, CellsSent DEF WriteUpgradePolicy, periods
<1> HIDE DEF tail, p
<1>4. (\A n \in Range(UpgradeInfo) : info.v[n] = c.info[n]) /\ info.rest = tail
  BY <1>2, <1>3, InfoArrives
<1>5. out.asked = Req("SetUpgradePolicy", info.v, <<>>, ReadUpgradePolicy(info.rest).v)
  <2>1. Code("SetUpgradePolicy") = 8
    BY CodeOfMethod DEF Codes
  <2>2. out \in Handle(8, p)
    BY <2>1 DEF p
  <2> QED BY <2>2, HandlerOf, OutcomeAsks DEF WithOptions, SetUpgradePolicyStub
<1>6. /\ ReadUpgradePolicy(tail).v.downloadStrategy = c.policy.downloadStrategy
      /\ ReadUpgradePolicy(tail).v.autoUpgradeStrategy = c.policy.autoUpgradeStrategy
  BY <1>2 DEF ReadUpgradePolicy
<1> HIDE DEF info
<1> QED BY <1>4, <1>5, <1>6 DEF Asks, Req, WithOptionsCalls

\* The description of the current version needs no digest.
LEMMA CurrentDescriptionArrives ==
  ASSUME NEW c,
         NEW out \in Handle(Code("GetCurrentVersionDescription"),
                            Proxy("GetCurrentVersionDescription", c).cells)
  PROVE  Asks("GetCurrentVersionDescription", c, out.asked)
<1> DEFINE p == Proxy("GetCurrentVersionDescription", c).cells
           tail == Cells(c.description, DescriptionOptions)
           info == ReadUpgradeInfo(p)
<1>1. IsSeq(tail) /\ \A n \in Range(DescriptionOptions) :
                       Struct(tail, DescriptionOptions).v[n] = c.description[n]
  BY NamesAreDistinct, CellsAreSeq, LastStructArrives
<1>2. p = WriteUpgradeInfo(c.info) \o tail
  BY ProxyOf, CellsSent
<1> HIDE DEF tail, p
<1>3. (\A n \in Range(UpgradeInfo) : info.v[n] = c.info[n]) /\ info.rest = tail
  BY <1>1, <1>2, InfoArrives
<1>4. out.asked = Req("GetCurrentVersionDescription", info.v, <<>>,
                      Struct(info.rest, DescriptionOptions).v)
  <2>1. Code("GetCurrentVersionDescription") = 13
    BY CodeOfMethod DEF Codes
  <2>2. out \in Handle(13, p)
    BY <2>1 DEF p
  <2> QED BY <2>2, HandlerOf, OutcomeAsks
          DEF WithOptions, GetCurrentVersionDescriptionStub, ReadDescriptionOptions
<1> HIDE DEF info
<1> QED BY <1>1, <1>3, <1>4 DEF Asks, Req, OptionNames, OptionsMember, OptionsOf

\* The files of the local updater arrive, and nothing of the caller's business.
LEMMA KitRequestArrives ==
  ASSUME NEW m \in KitMethods, NEW c,
         NEW out \in Handle(Code(m), Proxy(m, c).cells)
  PROVE  Asks(m, c, out.asked)
<1> DEFINE p == Proxy(m, c).cells
           info == ReadUpgradeInfo(p)
<1>1. Code("FactoryReset") = 18 /\ Code("ApplyNewVersion") = 19 /\ Code("VerifyUpgradePackage") = 20
  BY CodeOfMethod DEF Codes
<1> HIDE DEF p
<1>2. CASE m = "FactoryReset"
  <2>1. out.asked = Req("FactoryReset", EmptyInfo, <<>>, <<>>)
    BY <1>1, <1>2, HandlerOf, OutcomeAsks DEF FactoryResetStub, FactoryReset
  <2> QED BY <1>2, <2>1 DEF Asks, Req, KitMethods, WithOptionsCalls
<1>3. CASE m = "ApplyNewVersion"
  <2>1. p = WriteUpgradeInfo(LocalInfo) \o <<MISC_FILE, c.files[1]>>
    BY <1>3, ProxyOf, CellsSent DEF p
  <2>2. info.rest = <<MISC_FILE, c.files[1]>>
    BY <2>1, TwoIsSeq, InfoArrives
  <2>3. out.asked = Req("ApplyNewVersion", info.v, <<>>, <<CellAt(info.rest, 1), CellAt(info.rest, 2)>>)
    BY <1>1, <1>3, HandlerOf, OutcomeAsks DEF ApplyNewVersionStub, ApplyNewVersion, p
  <2>4. CellAt(info.rest, 2) = c.files[1]
    BY <2>2 DEF CellAt
  <2> QED BY <1>3, <2>3, <2>4 DEF Asks, Req, KitMethods, WithOptionsCalls
<1>4. CASE m = "VerifyUpgradePackage"
  <2>1. p = <<c.files[1], c.certs>>
    BY <1>4, ProxyOf, CellsSent DEF p
  <2>2. out.asked = Req("VerifyUpgradePackage", EmptyInfo, <<>>, <<CellAt(p, 1), CellAt(p, 2)>>)
    BY <1>1, <1>4, HandlerOf, OutcomeAsks DEF VerifyUpgradePackageStub, VerifyUpgradePackage, p
  <2>3. CellAt(p, 1) = c.files[1] /\ CellAt(p, 2) = c.certs
    BY <2>1 DEF CellAt
  <2> QED BY <1>4, <2>2, <2>3 DEF Asks, Req, KitMethods, WithOptionsCalls
<1> QED BY <1>2, <1>3, <1>4 DEF KitMethods

\* So every request arrives as it was sent.
LEMMA RequestArrives ==
  ASSUME NEW m \in Methods, NEW c, IsSeq(c.policy.autoUpgradePeriods),
         NEW out \in Handle(Code(m), Proxy(m, c).cells)
  PROVE  Asks(m, c, out.asked)
<1>1. m \in InfoMethods \union {"Cancel"} \union WithOptionsCalls \union {"SetUpgradePolicy"}
             \union KitMethods
  <2>1. PICK i \in 1..20 : m = Codes[i]
    BY CodeOfMethod
  <2> QED BY <2>1 DEF Codes, InfoMethods, WithOptionsCalls, KitMethods
<1> QED BY <1>1, InfoRequestArrives, DigestRequestArrives, CurrentDescriptionArrives,
           PolicyArrives, KitRequestArrives

-----------------------------------------------------------------------------
(* UpdateCall: arguments *)

\* The record f has the members K.
HasMembers(f, K) == f = [n \in K |-> f[n]]

\* What was read from options object arg, r, has the members K, and those that arg gives have
\* its values.
OptionsRead(r, arg, K) ==
  /\ HasMembers(r.v, K)
  /\ (r.ok /\ arg.t = "object" /\ \A n \in DOMAIN arg.v : n \in K /\ arg.v[n].t = OptionType(n)) =>
       \A n \in DOMAIN arg.v : arg.v[n].v \notin LongStrings => r.v[n] = arg.v[n].v

\* An enumeration member is taken or left as it was, and the others are left.
LEMMA EnumTaken ==
  ASSUME NEW arg, NEW name, NEW values, NEW K, name \in K, NEW o, HasMembers(o, K)
  PROVE  LET r == GetEnum(arg, name, values, o) IN
         /\ HasMembers(r.v, K)
         /\ \A n \in K \ {name} : r.v[n] = o[n]
         /\ r.ok /\ Named(arg, name, "number") => r.v[name] = arg.v[name].v
BY DEF GetEnum, GetInt32, HasMembers

\* The options with one enumeration member (GetResumeDownloadOptions, GetUpgradeOptions,
\* GetClearOptions).
LEMMA EnumOptionsRead ==
  ASSUME NEW arg, NEW name \in {"allowNetwork", "order", "status"}, NEW values, NEW o,
         HasMembers(o, {name})
  PROVE  OptionsRead(GetEnum(arg, name, values, o), arg, {name})
<1> DEFINE r == GetEnum(arg, name, values, o)
<1>1. HasMembers(r.v, {name}) /\ (r.ok /\ Named(arg, name, "number") => r.v[name] = arg.v[name].v)
  BY EnumTaken
<1> HIDE DEF r
<1>2. OptionsRead(r, arg, {name})
  BY <1>1 DEF OptionsRead, Named, HasNamed, OptionType
<1> QED BY <1>2 DEF r

\* The options of a download.
LEMMA DownloadOptionsRead ==
  ASSUME NEW arg, NEW o, HasMembers(o, {"allowNetwork", "order"})
  PROVE  OptionsRead(GetDownloadOptions(arg, o), arg, {"allowNetwork", "order"})
<1> DEFINE K == {"allowNetwork", "order"}
           net == GetNetType(arg, o)
           order == GetOrder(arg, net.v)
           r == GetDownloadOptions(arg, o)
<1>1. /\ HasMembers(net.v, K)
      /\ net.ok /\ Named(arg, "allowNetwork", "number") => net.v["allowNetwork"] = arg.v["allowNetwork"].v
  BY EnumTaken DEF GetNetType
<1> HIDE DEF net
<1>2. /\ HasMembers(order.v, K)
      /\ order.v["allowNetwork"] = net.v["allowNetwork"]
      /\ order.ok /\ Named(arg, "order", "number") => order.v["order"] = arg.v["order"].v
  <2> DEFINE f == net.v
             e == GetEnum(arg, "order", {1, 2, 3, 4, 6}, f)
  <2>1. HasMembers(f, K) /\ order = e
    BY <1>1 DEF GetOrder
  <2> HIDE DEF f
  <2>2. /\ HasMembers(e.v, K)
        /\ \A n \in K \ {"order"} : e.v[n] = f[n]
        /\ e.ok /\ Named(arg, "order", "number") => e.v["order"] = arg.v["order"].v
    <3>1. "order" \in K
      OBVIOUS
    <3> HIDE DEF K, e
    <3> QED BY <2>1, <3>1, EnumTaken DEF e
  <2> HIDE DEF e
  <2> QED BY <2>1, <2>2 DEF f
<1>3. r = IF ~net.ok THEN net ELSE order
  BY DEF GetDownloadOptions, net
<1> HIDE DEF order, r
<1>4. OptionsRead(r, arg, K)
  BY <1>1, <1>2, <1>3 DEF OptionsRead, Named, HasNamed, OptionType
<1> QED BY <1>4 DEF r

\* The options of a description, whose language is a string.
LEMMA DescriptionOptionsRead ==
  ASSUME NEW arg, NEW o, HasMembers(o, {"format", "language"})
  PROVE  OptionsRead(GetDescriptionOptions(arg, o), arg, {"format", "language"})
<1> DEFINE K == {"format", "language"}
           format == GetDescriptionFormat(arg, o)
           r == GetDescriptionOptions(arg, o)
<1> SUFFICES OptionsRead(r, arg, K)
  OBVIOUS
<1>1. /\ HasMembers(format.v, K)
      /\ format.ok /\ Named(arg, "format", "number") => format.v["format"] = arg.v["format"].v
  BY EnumTaken DEF GetDescriptionFormat
<1>2. r = IF ~format.ok THEN format
          ELSE [ok |-> TRUE,
                v |-> [format.v EXCEPT !.language = GetString(arg, "language", @)]]
  BY DEF GetDescriptionOptions
<1> HIDE DEF format, r
<1>3. CASE ~format.ok
  <2>1. r = format
    BY <1>2, <1>3
  <2>2. HasMembers(r.v, K) /\ ~r.ok
    BY <1>1, <1>3, <2>1
  <2> HIDE DEF K
  <2> QED BY <2>2 DEF OptionsRead
<1>4. CASE format.ok
  <2> DEFINE f == format.v
             g == [f EXCEPT !.language = GetString(arg, "language", @)]
  <2>0. r.v = g /\ HasMembers(f, K)
    BY <1>1, <1>2, <1>4
  <2> HIDE DEF f
  <2>1. /\ HasMembers(r.v, K) /\ r.v["format"] = f["format"]
        /\ r.v["language"] = GetString(arg, "language", f["language"])
    BY <2>0 DEF HasMembers
  <2>2. Named(arg, "language", "string") /\ arg.v["language"].v \notin LongStrings
          => r.v["language"] = arg.v["language"].v
    BY <2>1 DEF GetString, Truncated
  <2> QED BY <1>1, <1>2, <1>4, <2>1, <2>2 DEF f, OptionsRead, Named, HasNamed, OptionType
<1> QED BY <1>3, <1>4

\* The option of a pause, a boolean.
LEMMA PauseOptionsRead ==
  ASSUME NEW arg, NEW o, HasMembers(o, {"isAllowAutoResume"})
  PROVE  OptionsRead(GetPauseDownloadOptions(arg, o), arg, {"isAllowAutoResume"})
<1> DEFINE r == GetPauseDownloadOptions(arg, o)
           old == o.isAllowAutoResume
<1>1. /\ HasMembers(r.v, {"isAllowAutoResume"})
      /\ r.v["isAllowAutoResume"] = GetBool(arg, "isAllowAutoResume", old)
  BY DEF GetPauseDownloadOptions, HasMembers
<1> HIDE DEF r
<1>2. OptionsRead(r, arg, {"isAllowAutoResume"})
  BY <1>1 DEF OptionsRead, GetBool, Named, HasNamed, OptionType
<1> QED BY <1>2 DEF r

\* The names of the options.
LEMMA NamesOfOptions ==
  /\ Range(DownloadOptions) = {"allowNetwork", "order"}
  /\ Range(PauseDownloadOptions) = {"isAllowAutoResume"}
  /\ Range(ResumeDownloadOptions) = {"allowNetwork"}
  /\ Range(UpgradeOptions) = {"order"}
  /\ Range(ClearOptions) = {"status"}
  /\ Range(DescriptionOptions) = {"format", "language"}
<1>1. \A x : Range(<<x>>) = {x}
  <2> SUFFICES ASSUME NEW x PROVE Range(<<x>>) = {x}
    OBVIOUS
  <2>1. DOMAIN <<x>> = {1} /\ <<x>>[1] = x
    OBVIOUS
  <2> QED BY <2>1 DEF Range
<1>2. \A x, y : Range(<<x, y>>) = {x, y}
  <2> SUFFICES ASSUME NEW x, NEW y PROVE Range(<<x, y>>) = {x, y}
    OBVIOUS
  <2>1. DOMAIN <<x, y>> = {1, 2} /\ <<x, y>>[1] = x /\ <<x, y>>[2] = y
    OBVIOUS
  <2> QED BY <2>1 DEF Range
<1> QED BY <1>1, <1>2 DEF DownloadOptions, PauseDownloadOptions, ResumeDownloadOptions,
             UpgradeOptions, ClearOptions, DescriptionOptions

\* The members of UpdateClient.
ClientFields == {"info", "digest", "description", "download", "pause", "resume", "upgrade",
                 "clear", "policy", "files", "certs"}

\* A client whose structures have their members.
ClientOK(c) ==
  /\ HasMembers(c, ClientFields)
  /\ HasMembers(c.digest, {"versionDigest"})
  /\ \A m \in WithOptionsCalls : HasMembers(c[OptionsMember[m]], Range(OptionNames[m]))
  /\ HasMembers(c.policy, {"downloadStrategy", "autoUpgradeStrategy", "autoUpgradePeriods"})
  /\ IsSeq(c.policy.autoUpgradePeriods)

\* Client c holds what JavaScript gave method m.
Taken(m, args, c) ==
  /\ m \in WithOptionsCalls =>
       LET given == args[OptionsOf(m)].v IN
       \A n \in DOMAIN given :
         /\ n \in Range(OptionNames[m])
         /\ given[n].v \notin LongStrings => c[OptionsMember[m]][n] = given[n].v
  /\ (m \in WithOptionsCalls /\ OptionsOf(m) = 2) =>
       c.digest.versionDigest = args[1].v.versionDigest.v
  /\ m = "SetUpgradePolicy" =>
       \A n \in {"downloadStrategy", "autoUpgradeStrategy"} : c.policy[n] = args[1].v[n].v
  /\ m = "ApplyNewVersion" => c.files[1] = TrimString(args[1].v[1].v.filePath.v)
  /\ m = "VerifyUpgradePackage" =>
       c.files[1] = TrimString(args[1].v.filePath.v) /\ c.certs = args[2].v

\* The options of a method have a member of their own, but for the descriptions, which share it.
LEMMA MembersOfOptions ==
  /\ \A m \in WithOptionsCalls : OptionsMember[m] \in ClientFields \ {"info", "digest", "policy"}
  /\ \A m, k \in WithOptionsCalls :
       OptionsMember[m] = OptionsMember[k] => OptionNames[m] = OptionNames[k]
<1> DEFINE D == {"GetNewVersionDescription", "GetCurrentVersionDescription"}
<1>1. \A m \in WithOptionsCalls : OptionsMember[m] \in ClientFields \ {"info", "digest", "policy"}
  BY DEF WithOptionsCalls, OptionsMember, ClientFields
<1>2. \A m \in D : OptionNames[m] = DescriptionOptions
  BY DEF OptionNames
<1>3. \A m, k \in WithOptionsCalls : OptionsMember[m] = OptionsMember[k] => m = k \/ {m, k} \subseteq D
  BY DEF WithOptionsCalls, OptionsMember
<1> QED BY <1>1, <1>2, <1>3

\* How the arguments of each method are parsed.
LEMMA ParseOf ==
  ASSUME NEW c, NEW args
  PROVE  /\ Parse("Download", c, args) = NapiDownload(c, args)
         /\ Parse("PauseDownload", c, args) = NapiPauseDownload(c, args)
         /\ Parse("ResumeDownload", c, args) = NapiResumeDownload(c, args)
         /\ Parse("Upgrade", c, args) = NapiUpgrade(c, args)
         /\ Parse("ClearError", c, args) = NapiClearError(c, args)
         /\ Parse("SetUpgradePolicy", c, args) = NapiSetUpgradePolicy(c, args)
         /\ Parse("GetNewVersionDescription", c, args) = NapiGetNewVersionDescription(c, args)
         /\ Parse("GetCurrentVersionDescription", c, args) = NapiGetCurrentVersionDescription(c, args)
         /\ Parse("VerifyUpgradePackage", c, args) = NapiVerifyUpgradePackage(c, args)
         /\ Parse("ApplyNewVersion", c, args) = NapiApplyNewVersion(c, args)
         /\ \A m \in InfoMethods \union {"Cancel", "FactoryReset"} :
              Parse(m, c, args) = NapiNoArguments(c, args)
<1>1. \A m \in InfoMethods \union {"Cancel", "FactoryReset"} :
        m \notin {"Download", "PauseDownload", "ResumeDownload", "Upgrade", "ClearError",
                  "SetUpgradePolicy", "GetNewVersionDescription", "GetCurrentVersionDescription",
                  "VerifyUpgradePackage", "ApplyNewVersion"}
  BY DEF InfoMethods
<1>2. \A m \in InfoMethods \union {"Cancel", "FactoryReset"} :
        Parse(m, c, args) = NapiNoArguments(c, args)
  BY <1>1 DEF Parse
<1>3. /\ Parse("Download", c, args) = NapiDownload(c, args)
      /\ Parse("PauseDownload", c, args) = NapiPauseDownload(c, args)
      /\ Parse("ResumeDownload", c, args) = NapiResumeDownload(c, args)
      /\ Parse("Upgrade", c, args) = NapiUpgrade(c, args)
      /\ Parse("ClearError", c, args) = NapiClearError(c, args)
  BY Zenon DEF Parse
<1>4. /\ Parse("SetUpgradePolicy", c, args) = NapiSetUpgradePolicy(c, args)
      /\ Parse("GetNewVersionDescription", c, args) = NapiGetNewVersionDescription(c, args)
      /\ Parse("GetCurrentVersionDescription", c, args) = NapiGetCurrentVersionDescription(c, args)
      /\ Parse("VerifyUpgradePackage", c, args) = NapiVerifyUpgradePackage(c, args)
      /\ Parse("ApplyNewVersion", c, args) = NapiApplyNewVersion(c, args)
  BY Zenon DEF Parse
<1> QED BY <1>2, <1>3, <1>4

\* Parsing has read r into the member for the options of the method, and the digest with it.
ReadInto(m, c, args, r) ==
  /\ OptionsRead(r, Arg(args, OptionsOf(m)), Range(OptionNames[m]))
  /\ Parse(m, c, args).ok = r.ok
  /\ Parse(m, c, args).c =
       LET digest == GetVersionDigestInfoFromArg(Arg(args, 1), c.digest).v IN
       IF OptionsOf(m) = 2 THEN [c EXCEPT !.digest = digest, ![OptionsMember[m]] = r.v]
       ELSE [c EXCEPT ![OptionsMember[m]] = r.v]

\* That is what parsing does (ParseUpgOptions, client_helper.cpp).
LEMMA OptionsParsed ==
  ASSUME NEW c, ClientOK(c), NEW m \in WithOptionsCalls, NEW args
  PROVE  \E r : ReadInto(m, c, args, r)
<1> DEFINE arg == Arg(args, OptionsOf(m))
<1>0. HasMembers(c[OptionsMember[m]], Range(OptionNames[m]))
  BY DEF ClientOK
<1> DEFINE D == GetVersionDigestInfoFromArg(Arg(args, 1), c.digest).v
<1>a. ASSUME NEW r, OptionsRead(r, arg, Range(OptionNames[m])), OptionsOf(m) = 2,
             Parse(m, c, args) = ParseUpgOptions(c, args, OptionsMember[m], r)
      PROVE  ReadInto(m, c, args, r)
  <2>1. Parse(m, c, args) = [ok |-> r.ok, c |-> [c EXCEPT !.digest = D, ![OptionsMember[m]] = r.v]]
    BY <1>a DEF ParseUpgOptions
  <2> QED BY <1>a, <2>1 DEF ReadInto, D
<1>1. CASE m = "Download"
  <2> DEFINE r == GetDownloadOptions(arg, c.download)
  <2>1. OptionsRead(r, arg, Range(OptionNames[m]))
    BY <1>0, <1>1, NamesOfOptions, DownloadOptionsRead DEF OptionsMember, OptionNames
  <2>2. Parse(m, c, args) = ParseUpgOptions(c, args, OptionsMember[m], r) /\ OptionsOf(m) = 2
    BY <1>1, ParseOf DEF NapiDownload, OptionsOf, OptionsMember
  <2> QED BY <1>a, <2>1, <2>2
<1>2. CASE m = "PauseDownload"
  <2> DEFINE r == GetPauseDownloadOptions(arg, c.pause)
  <2>1. OptionsRead(r, arg, Range(OptionNames[m]))
    BY <1>0, <1>2, NamesOfOptions, PauseOptionsRead DEF OptionsMember, OptionNames
  <2>2. Parse(m, c, args) = ParseUpgOptions(c, args, OptionsMember[m], r) /\ OptionsOf(m) = 2
    BY <1>2, ParseOf DEF NapiPauseDownload, OptionsOf, OptionsMember
  <2> QED BY <1>a, <2>1, <2>2
<1>3. CASE m = "ResumeDownload"
  <2> DEFINE r == GetResumeDownloadOptions(arg, c.resume)
  <2>1. OptionsRead(r, arg, Range(OptionNames[m]))
    BY <1>0, <1>3, NamesOfOptions, EnumOptionsRead
       DEF OptionsMember, OptionNames, GetResumeDownloadOptions, GetNetType
  <2>2. Parse(m, c, args) = ParseUpgOptions(c, args, OptionsMember[m], r) /\ OptionsOf(m) = 2
    BY <1>3, ParseOf DEF NapiResumeDownload, OptionsOf, OptionsMember
  <2> QED BY <1>a, <2>1, <2>2
<1>4. CASE m = "Upgrade"
  <2> DEFINE r == GetUpgradeOptions(arg, c.upgrade)
  <2>1. OptionsRead(r, arg, Range(OptionNames[m]))
    BY <1>0, <1>4, NamesOfOptions, EnumOptionsRead
       DEF OptionsMember, OptionNames, GetUpgradeOptions, GetOrder
  <2>2. Parse(m, c, args) = ParseUpgOptions(c, args, OptionsMember[m], r) /\ OptionsOf(m) = 2
    BY <1>4, ParseOf DEF NapiUpgrade, OptionsOf, OptionsMember
  <2> QED BY <1>a, <2>1, <2>2
<1>5. CASE m = "ClearError"
  <2> DEFINE r == GetClearOptions(arg, c.clear)
  <2>1. OptionsRead(r, arg, Range(OptionNames[m]))
    BY <1>0, <1>5, NamesOfOptions, EnumOptionsRead
       DEF OptionsMember, OptionNames, GetClearOptions
  <2>2. Parse(m, c, args) = ParseUpgOptions(c, args, OptionsMember[m], r) /\ OptionsOf(m) = 2
    BY <1>5, ParseOf DEF NapiClearError, OptionsOf, OptionsMember
  <2> QED BY <1>a, <2>1, <2>2
<1>6. CASE m = "GetNewVersionDescription"
  <2> DEFINE r == GetDescriptionOptions(arg, c.description)
  <2>1. OptionsRead(r, arg, Range(OptionNames[m]))
    BY <1>0, <1>6, NamesOfOptions, DescriptionOptionsRead DEF OptionsMember, OptionNames
  <2>2. Parse(m, c, args) = ParseUpgOptions(c, args, OptionsMember[m], r) /\ OptionsOf(m) = 2
    BY <1>6, ParseOf DEF NapiGetNewVersionDescription, OptionsOf, OptionsMember
  <2> QED BY <1>a, <2>1, <2>2
<1>7. CASE m = "GetCurrentVersionDescription"
  <2> DEFINE r == GetDescriptionOptions(arg, c.description)
  <2>1. OptionsRead(r, arg, Range(OptionNames[m]))
    BY <1>0, <1>7, NamesOfOptions, DescriptionOptionsRead DEF OptionsMember, OptionNames
  <2>2. Parse(m, c, args) = [ok |-> r.ok, c |-> [c EXCEPT !.description = r.v]]
    BY <1>7, ParseOf DEF NapiGetCurrentVersionDescription, OptionsOf
  <2>3. OptionsMember[m] = "description" /\ OptionsOf(m) = 1
    BY <1>7 DEF OptionsMember, OptionsOf
  <2> HIDE DEF r
  <2>4. ReadInto(m, c, args, r)
    BY <2>1, <2>2, <2>3 DEF ReadInto
  <2> QED BY <2>4
<1> QED BY <1>1, <1>2, <1>3, <1>4, <1>5, <1>6, <1>7 DEF WithOptionsCalls

\* A client with other options or another digest is a client still.
LEMMA ClientWithOptions ==
  ASSUME NEW c, ClientOK(c), NEW m \in WithOptionsCalls,
         NEW d, HasMembers(d, ClientFields),
         \A k \in ClientFields \ {"digest", OptionsMember[m]} : d[k] = c[k],
         HasMembers(d.digest, {"versionDigest"}),
         HasMembers(d[OptionsMember[m]], Range(OptionNames[m]))
  PROVE  ClientOK(d)
<1>1. ASSUME NEW k \in WithOptionsCalls
      PROVE  HasMembers(d[OptionsMember[k]], Range(OptionNames[k]))
  <2>1. CASE OptionsMember[k] = OptionsMember[m]
    BY <2>1, MembersOfOptions
  <2>2. CASE OptionsMember[k] # OptionsMember[m]
    <3>1. d[OptionsMember[k]] = c[OptionsMember[k]]
      BY <2>2, MembersOfOptions
    <3> QED BY <3>1 DEF ClientOK
  <2> QED BY <2>1, <2>2
<1>2. d.policy = c.policy
  BY MembersOfOptions DEF ClientFields
<1> QED BY <1>1, <1>2 DEF ClientOK

\* Parsing options, good or bad, leaves a client with the same info, and one that holds them
\* when they are good.
LEMMA OptionsKept ==
  ASSUME NEW c, ClientOK(c), NEW m \in WithOptionsCalls, NEW args
  PROVE  /\ ClientOK(Parse(m, c, args).c)
         /\ Parse(m, c, args).c.info = c.info
         /\ Parse(m, c, args).ok /\ AsDeclared(m, args) => Taken(m, args, Parse(m, c, args).c)
<1> DEFINE D == GetVersionDigestInfoFromArg(Arg(args, 1), c.digest).v
           e == Parse(m, c, args)
           member == OptionsMember[m]
           given == args[OptionsOf(m)]
<1>0. PICK r : ReadInto(m, c, args, r)
  BY OptionsParsed
<1>1. /\ OptionsRead(r, Arg(args, OptionsOf(m)), Range(OptionNames[m]))
      /\ e.ok = r.ok
      /\ e.c = IF OptionsOf(m) = 2 THEN [c EXCEPT !.digest = D, ![member] = r.v]
               ELSE [c EXCEPT ![member] = r.v]
  BY <1>0 DEF ReadInto
<1>2. /\ HasMembers(D, {"versionDigest"})
      /\ ShortString(Arg(args, 1), "versionDigest")
           => D.versionDigest = Arg(args, 1).v["versionDigest"].v
  <2> DEFINE g == GetString(Arg(args, 1), "versionDigest", c.digest.versionDigest)
  <2>1. D = [c.digest EXCEPT !.versionDigest = g]
    BY DEF GetVersionDigestInfoFromArg
  <2>2. HasMembers(c.digest, {"versionDigest"})
    BY DEF ClientOK
  <2>3. HasMembers(D, {"versionDigest"}) /\ D.versionDigest = g
    <3> HIDE DEF D, g
    <3> QED BY <2>1, <2>2 DEF HasMembers
  <2> HIDE DEF D
  <2> QED BY <2>3 DEF GetString, ShortString, Truncated
<1> HIDE DEF D, e
<1>3. /\ member \in ClientFields \ {"info", "digest", "policy"}
      /\ HasMembers(c, ClientFields) /\ HasMembers(c.digest, {"versionDigest"})
  BY MembersOfOptions DEF ClientOK
<1>4. /\ HasMembers(e.c, ClientFields) /\ e.c[member] = r.v
      /\ \A k \in ClientFields \ {"digest", member} : e.c[k] = c[k]
      /\ e.c["digest"] = IF OptionsOf(m) = 2 THEN D ELSE c["digest"]
  <2> HIDE DEF member
  <2>1. "digest" \in ClientFields /\ member # "digest" /\ member \in ClientFields
    BY <1>3 DEF ClientFields
  <2>2. CASE OptionsOf(m) = 2
    <3>1. e.c = [c EXCEPT !["digest"] = D, ![member] = r.v]
      BY <1>1, <2>2
    <3> QED BY <1>3, <2>1, <2>2, <3>1 DEF HasMembers
  <2>3. CASE OptionsOf(m) # 2
    <3>1. e.c = [c EXCEPT ![member] = r.v]
      BY <1>1, <2>3
    <3> QED BY <1>3, <2>1, <2>3, <3>1 DEF HasMembers
  <2> QED BY <2>2, <2>3
<1>5. HasMembers(e.c.digest, {"versionDigest"}) /\ HasMembers(e.c[member], Range(OptionNames[m]))
  BY <1>1, <1>2, <1>3, <1>4 DEF OptionsRead
<1>6. ClientOK(e.c)
  BY <1>4, <1>5, ClientWithOptions
<1>7. e.c.info = c.info
  <2>1. "info" \in ClientFields \ {"digest", member}
    BY <1>3 DEF ClientFields
  <2> QED BY <1>4, <2>1
<1>8. ASSUME e.ok, AsDeclared(m, args) PROVE Taken(m, args, e.c)
  <2>1. OptionsAsDeclared(m, args) /\ OptionsOf(m) \in {1, 2}
    BY <1>8 DEF AsDeclared, OptionsOf
  <2>2. Arg(args, OptionsOf(m)) = given
    BY <2>1 DEF OptionsAsDeclared, Arg
  <2>3. \A n \in DOMAIN given.v :
          /\ n \in Range(OptionNames[m])
          /\ given.v[n].v \notin LongStrings => e.c[member][n] = given.v[n].v
    <3>1. /\ given.t = "object"
          /\ \A n \in DOMAIN given.v : n \in Range(OptionNames[m]) /\ given.v[n].t = OptionType(n)
      BY <2>1 DEF OptionsAsDeclared
    <3>2. OptionsRead(r, given, Range(OptionNames[m])) /\ r.ok
      BY <1>1, <1>8, <2>2
    <3> HIDE DEF given, member
    <3> QED BY <1>4, <3>1, <3>2 DEF OptionsRead
  <2>4. OptionsOf(m) = 2 => e.c.digest.versionDigest = args[1].v["versionDigest"].v
    <3>1. SUFFICES ASSUME OptionsOf(m) = 2
                   PROVE  e.c.digest.versionDigest = args[1].v["versionDigest"].v
      OBVIOUS
    <3>2. ShortString(args[1], "versionDigest") /\ 2 <= Len(args)
      BY <2>1, <3>1 DEF OptionsAsDeclared
    <3>3. Arg(args, 1) = args[1]
      <4>1. args[1].t = "object"
        BY <3>2 DEF ShortString, Named, HasNamed
      <4> QED BY <1>2, <2>1, <3>1, <3>2 DEF Arg
    <3> QED BY <1>2, <1>4, <3>1, <3>2, <3>3
  <2>5. m \notin {"SetUpgradePolicy", "ApplyNewVersion", "VerifyUpgradePackage"}
    BY DEF WithOptionsCalls
  <2> QED BY <2>3, <2>4, <2>5 DEF Taken
<1> QED BY <1>6, <1>7, <1>8 DEF e

\* An argument that has a type has been given.
LEMMA ArgumentGiven ==
  ASSUME NEW args, NEW i, Arg(args, i).t # "undefined" PROVE Arg(args, i) = args[i]
BY DEF Arg, Undefined, Js

\* The policy takes the strategies, and periods or keeps those it had (GetUpgradePolicyFromArg).
LEMMA PolicyRead ==
  ASSUME NEW arg, NEW policy,
         HasMembers(policy, {"downloadStrategy", "autoUpgradeStrategy", "autoUpgradePeriods"}),
         IsSeq(policy.autoUpgradePeriods)
  PROVE  LET r == GetUpgradePolicyFromArg(arg, policy) IN
         /\ HasMembers(r.v, {"downloadStrategy", "autoUpgradeStrategy", "autoUpgradePeriods"})
         /\ IsSeq(r.v.autoUpgradePeriods)
         /\ r.ok => /\ arg.t = "object"
                    /\ r.v.downloadStrategy = GetBool(arg, "downloadStrategy", policy.downloadStrategy)
                    /\ r.v.autoUpgradeStrategy
                         = GetBool(arg, "autoUpgradeStrategy", policy.autoUpgradeStrategy)
<1> DEFINE K == {"downloadStrategy", "autoUpgradeStrategy", "autoUpgradePeriods"}
           download == GetBool(arg, "downloadStrategy", policy.downloadStrategy)
           auto == GetBool(arg, "autoUpgradeStrategy", policy.autoUpgradeStrategy)
           flags == [policy EXCEPT !.downloadStrategy = download, !.autoUpgradeStrategy = auto]
           list == arg.v.autoUpgradePeriods
           Entry(i) == IF i <= Len(list.v) /\ list.v[i].t = "number"
                       THEN [start |-> list.v[i].v, end |-> list.v[i].v]
                       ELSE policy.autoUpgradePeriods[i]
           periods == [i \in 1..2 |-> Entry(i)]
           r == GetUpgradePolicyFromArg(arg, policy)
<1>1. \/ r = [ok |-> FALSE, v |-> policy]
      \/ r = [ok |-> FALSE, v |-> flags]
      \/ arg.t = "object" /\ r = [ok |-> TRUE, v |-> flags]
      \/ arg.t = "object" /\ r = [ok |-> TRUE, v |-> [flags EXCEPT !.autoUpgradePeriods = periods]]
  BY DEF GetUpgradePolicyFromArg, CheckNapiObjectType
<1>2. IsSeq(periods)
  <2>1. periods = [i \in 1..2 |-> periods[i]]
    OBVIOUS
  <2> HIDE DEF periods
  <2> QED BY <2>1, FunctionIsSeq
<1> HIDE DEF r, download, auto, periods
<1>3. /\ HasMembers(flags, K) /\ flags.downloadStrategy = download
      /\ flags.autoUpgradeStrategy = auto
      /\ flags.autoUpgradePeriods = policy.autoUpgradePeriods
  BY DEF HasMembers
<1> HIDE DEF flags
<1>4. LET g == [flags EXCEPT !.autoUpgradePeriods = periods] IN
      /\ HasMembers(g, K) /\ g.downloadStrategy = download
      /\ g.autoUpgradeStrategy = auto /\ g.autoUpgradePeriods = periods
  BY <1>3 DEF HasMembers
<1>5. /\ HasMembers(r.v, K) /\ IsSeq(r.v.autoUpgradePeriods)
      /\ r.ok => arg.t = "object" /\ r.v.downloadStrategy = download /\ r.v.autoUpgradeStrategy = auto
  <2> DEFINE g == [flags EXCEPT !.autoUpgradePeriods = periods]
  <2>1. \/ r.v = policy /\ ~r.ok
        \/ r.v = flags /\ (r.ok => arg.t = "object")
        \/ r.v = g /\ (r.ok => arg.t = "object")
    BY <1>1
  <2>2. /\ HasMembers(g, K) /\ g.downloadStrategy = download
        /\ g.autoUpgradeStrategy = auto /\ g.autoUpgradePeriods = periods
    BY <1>4
  <2> HIDE DEF K, g
  <2>3. HasMembers(policy, K)
    BY DEF K
  <2> QED BY <1>2, <1>3, <2>1, <2>2, <2>3
<1> QED BY <1>5 DEF r, download, auto

\* A client with another policy, files or certificates is a client still.
LEMMA ClientWithPolicy ==
  ASSUME NEW c, ClientOK(c), NEW d, HasMembers(d, ClientFields),
         \A k \in ClientFields \ {"policy", "files", "certs"} : d[k] = c[k],
         HasMembers(d.policy, {"downloadStrategy", "autoUpgradeStrategy", "autoUpgradePeriods"}),
         IsSeq(d.policy.autoUpgradePeriods)
  PROVE  ClientOK(d)
<1>1. \A m \in WithOptionsCalls : OptionsMember[m] \in ClientFields \ {"policy", "files", "certs"}
  BY DEF WithOptionsCalls, OptionsMember, ClientFields
<1>2. d.digest = c.digest
  BY DEF ClientFields
<1> QED BY <1>1, <1>2 DEF ClientOK

\* Parsing a policy.
LEMMA PolicyKept ==
  ASSUME NEW c, ClientOK(c), NEW args, NEW e, e = Parse("SetUpgradePolicy", c, args)
  PROVE  /\ ClientOK(e.c) /\ e.c.info = c.info
         /\ e.ok /\ AsDeclared("SetUpgradePolicy", args) => Taken("SetUpgradePolicy", args, e.c)
<1> DEFINE K == {"downloadStrategy", "autoUpgradeStrategy", "autoUpgradePeriods"}
           r == GetUpgradePolicyFromArg(Arg(args, 1), c.policy)
<1>1. e = [ok |-> r.ok, c |-> [c EXCEPT !.policy = r.v]]
  BY ParseOf DEF NapiSetUpgradePolicy
<1>2. /\ HasMembers(r.v, K)
      /\ IsSeq(r.v.autoUpgradePeriods)
      /\ r.ok => /\ Arg(args, 1).t = "object"
                 /\ r.v.downloadStrategy
                      = GetBool(Arg(args, 1), "downloadStrategy", c.policy.downloadStrategy)
                 /\ r.v.autoUpgradeStrategy
                      = GetBool(Arg(args, 1), "autoUpgradeStrategy", c.policy.autoUpgradeStrategy)
  BY PolicyRead DEF ClientOK
<1> HIDE DEF r
<1>3. /\ HasMembers(e.c, ClientFields) /\ e.c.policy = r.v /\ e.c.info = c.info
      /\ \A k \in ClientFields \ {"policy"} : e.c[k] = c[k]
  BY <1>1 DEF ClientOK, HasMembers, ClientFields
<1>4. ClientOK(e.c)
  BY <1>2, <1>3, ClientWithPolicy
<1>5. ASSUME e.ok, AsDeclared("SetUpgradePolicy", args) PROVE Taken("SetUpgradePolicy", args, e.c)
  <2>1. r.ok
    BY <1>1, <1>5
  <2>2. Arg(args, 1).t = "object" /\ Arg(args, 1) = args[1]
    BY <1>2, <2>1, ArgumentGiven
  <2>3. Named(args[1], "downloadStrategy", "boolean") /\ Named(args[1], "autoUpgradeStrategy", "boolean")
    BY <1>5, <2>2 DEF AsDeclared
  <2>4. /\ e.c.policy["downloadStrategy"] = args[1].v["downloadStrategy"].v
        /\ e.c.policy["autoUpgradeStrategy"] = args[1].v["autoUpgradeStrategy"].v
    BY <1>2, <1>3, <2>1, <2>2, <2>3 DEF GetBool
  <2> QED BY <2>4 DEF Taken, WithOptionsCalls
<1> QED BY <1>3, <1>4, <1>5

\* A file that is taken is the trimmed path JavaScript gave: without one there is nothing valid
\* (ParseUpgradeFile).
LEMMA FileRead ==
  ASSUME NEW arg, ParseUpgradeFile(arg).ok, ShortPath(arg)
  PROVE  /\ arg.t = "object"
         /\ ParseUpgradeFile(arg).v = TrimString(arg.v["filePath"].v)
<1> DEFINE s == GetString(arg, "filePath", 0)
<1>1. /\ CheckNapiObjectType(arg) /\ IsValidUpgradeFile(TrimString(s))
      /\ ParseUpgradeFile(arg).v = TrimString(s)
  BY DEF ParseUpgradeFile
<1>2. Named(arg, "filePath", "string")
  <2> SUFFICES ASSUME ~Named(arg, "filePath", "string") PROVE FALSE
    OBVIOUS
  <2>1. s = 0
    BY DEF GetString
  <2>2. Text[0] = <<>>
    BY HelperAssumption
  <2>3. TrimString(0) = 0
    BY <2>2 DEF TrimString
  <2>4. ~IsValidUpgradeFile(0)
    BY <2>2 DEF IsValidUpgradeFile
  <2> QED BY <1>1, <2>1, <2>3, <2>4
<1>3. s = arg.v["filePath"].v
  BY <1>2 DEF ShortPath, ShortString, GetString, Truncated
<1> QED BY <1>1, <1>3 DEF CheckNapiObjectType

\* Parsing a package to verify.
LEMMA VerifyKept ==
  ASSUME NEW c, ClientOK(c), NEW args, NEW e, e = Parse("VerifyUpgradePackage", c, args)
  PROVE  /\ ClientOK(e.c) /\ e.c.info = c.info
         /\ e.ok /\ AsDeclared("VerifyUpgradePackage", args)
              => Taken("VerifyUpgradePackage", args, e.c)
<1> DEFINE file == ParseUpgradeFile(Arg(args, 1))
           certs == Truncated(args[2].v)
<1>1. \/ e = [ok |-> FALSE, c |-> c]
      \/ /\ file.ok /\ Arg(args, 2).t = "string"
         /\ e = [ok |-> TRUE, c |-> [c EXCEPT !.files = <<file.v>>, !.certs = certs]]
  BY ParseOf DEF NapiVerifyUpgradePackage, GetUpgradeFileFromArg
<1>2. HasMembers(c, ClientFields)
  BY DEF ClientOK
<1>3. CASE e = [ok |-> FALSE, c |-> c]
  BY <1>3
<1>4. CASE /\ file.ok /\ Arg(args, 2).t = "string"
           /\ e = [ok |-> TRUE, c |-> [c EXCEPT !.files = <<file.v>>, !.certs = certs]]
  <2> DEFINE list == <<file.v>>
  <2> DEFINE new == [c EXCEPT !["files"] = list, !["certs"] = certs]
  <2>e. e = [ok |-> TRUE, c |-> new]
    BY <1>4
  <2> HIDE DEF file, certs
  <2>l. list[1] = file.v
    OBVIOUS
  <2> HIDE DEF list, new
  <2>n. e.c = new
    BY <2>e
  <2>0. list[1] = file.v /\ e.c = [c EXCEPT !["files"] = list, !["certs"] = certs]
    BY <2>n, <2>l DEF new
  <2>1. /\ HasMembers(e.c, ClientFields) /\ e.c.info = c.info /\ e.c.policy = c.policy
        /\ e.c.files[1] = file.v /\ e.c.certs = certs
        /\ \A k \in ClientFields \ {"policy", "files", "certs"} : e.c[k] = c[k]
    BY <1>2, <2>0 DEF HasMembers, ClientFields
  <2>2. ClientOK(e.c)
    BY <2>1, ClientWithPolicy DEF ClientOK
  <2>3. ASSUME AsDeclared("VerifyUpgradePackage", args)
        PROVE  Taken("VerifyUpgradePackage", args, e.c)
    <3>1. ShortPath(args[1]) /\ args[2].v \notin LongStrings
      BY <2>3 DEF AsDeclared
    <3>2. Arg(args, 1) = args[1]
      <4>1. Arg(args, 1).t = "object"
        BY <1>4 DEF file, ParseUpgradeFile, CheckNapiObjectType
      <4> QED BY <4>1, ArgumentGiven
    <3>3. file.v = TrimString(args[1].v["filePath"].v)
      BY <1>4, <3>1, <3>2, FileRead DEF file
    <3>4. certs = args[2].v
      BY <3>1 DEF certs, Truncated
    <3> QED BY <2>1, <3>3, <3>4 DEF Taken, WithOptionsCalls
  <2> QED BY <2>1, <2>2, <2>3
<1> QED BY <1>1, <1>3, <1>4

\* Parsing the files of a new version, of which the first is sent.
LEMMA ApplyKept ==
  ASSUME NEW c, ClientOK(c), NEW args, NEW e, e = Parse("ApplyNewVersion", c, args)
  PROVE  /\ ClientOK(e.c) /\ e.c.info = c.info
         /\ e.ok /\ AsDeclared("ApplyNewVersion", args) => Taken("ApplyNewVersion", args, e.c)
<1> DEFINE arg == Arg(args, 1)
           files == GetUpgradeFilesFromArg(arg)
<1>1. e = [ok |-> files.ok, c |-> [c EXCEPT !.files = files.v]]
  BY ParseOf DEF NapiApplyNewVersion
<1>2. HasMembers(c, ClientFields)
  BY DEF ClientOK
<1> HIDE DEF files
<1>3. /\ HasMembers(e.c, ClientFields) /\ e.c.info = c.info /\ e.c.policy = c.policy
      /\ e.c.files = files.v
      /\ \A k \in ClientFields \ {"policy", "files", "certs"} : e.c[k] = c[k]
  BY <1>1, <1>2 DEF HasMembers, ClientFields
<1>4. ClientOK(e.c)
  BY <1>3, ClientWithPolicy DEF ClientOK
<1>5. ASSUME e.ok, AsDeclared("ApplyNewVersion", args) PROVE Taken("ApplyNewVersion", args, e.c)
  <2>1. /\ arg.t = "array" /\ Len(arg.v) > 0
        /\ \A i \in DOMAIN arg.v : ParseUpgradeFile(arg.v[i]).ok
        /\ files.v = [i \in DOMAIN arg.v |-> ParseUpgradeFile(arg.v[i]).v]
    <3> HIDE DEF arg
    <3> QED BY <1>1, <1>5 DEF files, GetUpgradeFilesFromArg
  <2>2. arg = args[1]
    BY <2>1, ArgumentGiven
  <2>3. 1 \in DOMAIN args[1].v /\ ShortPath(args[1].v[1])
    BY <1>5, <2>1, <2>2 DEF AsDeclared
  <2> HIDE DEF arg
  <2>4. files.v[1] = TrimString(args[1].v[1].v["filePath"].v)
    BY <2>1, <2>2, <2>3, FileRead
  <2> QED BY <1>3, <2>4 DEF Taken, WithOptionsCalls
<1> QED BY <1>3, <1>4, <1>5

\* So parsing leaves the client whole and its info alone, and good arguments are in it.
LEMMA ArgumentsTaken ==
  ASSUME NEW c, ClientOK(c), NEW m \in Methods, NEW args
  PROVE  /\ ClientOK(Parse(m, c, args).c)
         /\ Parse(m, c, args).c.info = c.info
         /\ Parse(m, c, args).ok /\ AsDeclared(m, args) => Taken(m, args, Parse(m, c, args).c)
<1>1. m \in InfoMethods \union {"Cancel", "FactoryReset"} \union WithOptionsCalls
             \union {"SetUpgradePolicy", "VerifyUpgradePackage", "ApplyNewVersion"}
  <2>1. PICK i \in 1..20 : m = Codes[i]
    BY CodeOfMethod
  <2> QED BY <2>1 DEF Codes, InfoMethods, WithOptionsCalls
<1>2. CASE m \in InfoMethods \union {"Cancel", "FactoryReset"}
  <2>1. Parse(m, c, args) = [ok |-> TRUE, c |-> c]
    BY <1>2, ParseOf DEF NapiNoArguments
  <2>2. m \notin WithOptionsCalls \union {"SetUpgradePolicy", "VerifyUpgradePackage", "ApplyNewVersion"}
    BY <1>2 DEF InfoMethods, WithOptionsCalls
  <2> QED BY <2>1, <2>2 DEF Taken
<1> QED BY <1>1, <1>2, OptionsKept, PolicyKept, VerifyKept, ApplyKept

-----------------------------------------------------------------------------
(* UpdateCall: what was asked is what was called *)

\* The client of a caller holds the business the caller named.
InfoTaken(c) ==
  /\ c.info.upgradeApp = caller.info.v.upgradeApp.v
  /\ c.info.vendor = caller.info.v.businessType.v.vendor.v
  /\ c.info.subType = caller.info.v.businessType.v.subType.v

\* The inductive invariant: a queued call has left its arguments in the client, which keeps the
\* business of its caller.
RequestInv ==
  /\ caller \in Callers
  /\ ClientOK(client) /\ InfoTaken(client)
  /\ call = [k \in CallFields |-> call[k]]
  /\ call.step = "queued" =>
       call.m \in Methods /\ asked = NotAsked /\ Taken(call.m, call.args, client)
  /\ RequestIntact

\* The client starts with members of its own (NewClient).
LEMMA NewClientOK == ClientOK(NewClient) /\ HasMembers(NewClient.info, Range(UpgradeInfo))
<1> DEFINE info == EmptyInfo
           policy == NewClient.policy
<1>1. /\ HasMembers(NewClient, ClientFields) /\ HasMembers(NewClient.digest, {"versionDigest"})
      /\ HasMembers(policy, {"downloadStrategy", "autoUpgradeStrategy", "autoUpgradePeriods"})
  BY DEF NewClient, HasMembers, ClientFields
<1>2. IsSeq(policy.autoUpgradePeriods)
  <2> DEFINE f == [i \in 1..2 |-> [start |-> 0, end |-> 0]]
  <2>1. policy.autoUpgradePeriods = f
    BY DEF NewClient
  <2>2. DOMAIN f = 1..2 /\ f = [i \in 1..2 |-> f[i]]
    OBVIOUS
  <2> HIDE DEF f
  <2> QED BY <2>1, <2>2, FunctionIsSeq
<1>3. \A m \in WithOptionsCalls : HasMembers(NewClient[OptionsMember[m]], Range(OptionNames[m]))
  <2>1. /\ HasMembers(NewClient["download"], {"allowNetwork", "order"})
        /\ HasMembers(NewClient["pause"], {"isAllowAutoResume"})
        /\ HasMembers(NewClient["resume"], {"allowNetwork"})
        /\ HasMembers(NewClient["upgrade"], {"order"})
        /\ HasMembers(NewClient["clear"], {"status"})
        /\ HasMembers(NewClient["description"], {"format", "language"})
    BY DEF NewClient, HasMembers
  <2> QED BY <2>1, NamesOfOptions DEF WithOptionsCalls, OptionsMember, OptionNames
<1>4. HasMembers(NewClient.info, Range(UpgradeInfo))
  <2>1. Range(UpgradeInfo) = {"upgradeApp", "vendor", "subType", "upgradeDevId", "controlDevId"}
    <3>1. DOMAIN UpgradeInfo = 1..5
      BY DEF UpgradeInfo
    <3> QED BY <3>1 DEF UpgradeInfo, Range
  <2> QED BY <2>1 DEF NewClient, EmptyInfo, HasMembers
<1> QED BY <1>1, <1>2, <1>3, <1>4 DEF ClientOK

\* The upgrade info takes what the caller names (GetUpgradeInfoFromArg).
LEMMA InfoRead ==
  ASSUME CallersAsDeclared, caller \in Callers, NEW info, HasMembers(info, Range(UpgradeInfo)),
         NEW r \in GetUpgradeInfoFromArg(caller.info, info), r.ok
  PROVE  /\ r.v.upgradeApp = caller.info.v.upgradeApp.v
         /\ r.v.vendor = caller.info.v.businessType.v.vendor.v
         /\ r.v.subType = caller.info.v.businessType.v.subType.v
<1> DEFINE arg == caller.info
           business == arg.v.businessType
<1>1. /\ ShortString(arg, "upgradeApp") /\ HasNamed(arg, "businessType")
      /\ ShortString(business, "vendor")
      /\ Named(business, "subType", "number") /\ business.v.subType.v \in {1, 2}
  BY DEF CallersAsDeclared
<1>2. {"upgradeApp", "vendor", "subType", "upgradeDevId", "controlDevId"} \subseteq Range(UpgradeInfo)
  <2>1. DOMAIN UpgradeInfo = 1..5
    BY DEF UpgradeInfo
  <2> QED BY <2>1 DEF UpgradeInfo, Range
<1> HIDE DEF arg, business
<1> DEFINE Vendor == GetString(business, "vendor", info.vendor)
           SubType == business.v.subType.v
           parsed == [info EXCEPT !.vendor = Vendor, !.subType = SubType]
<1>3. Vendor = business.v.vendor.v
  BY <1>1 DEF GetString, ShortString, Truncated
<1>4. ParseBusinessType(arg, info) = {parsed}
  BY <1>1 DEF ParseBusinessType, business
<1>5. HasMembers(parsed, Range(UpgradeInfo)) /\ parsed.vendor = Vendor /\ parsed.subType = SubType
  BY <1>2 DEF HasMembers
<1> HIDE DEF parsed, Vendor, SubType
<1>6. r.v = [parsed EXCEPT !.upgradeApp = GetString(arg, "upgradeApp", parsed.upgradeApp),
                           !.upgradeDevId = GetString(arg, "upgradeDevId", parsed.upgradeDevId),
                           !.controlDevId = GetString(arg, "controlDevId", parsed.controlDevId)]
  BY <1>4 DEF GetUpgradeInfoFromArg, arg
<1>7. GetString(arg, "upgradeApp", parsed.upgradeApp) = arg.v["upgradeApp"].v
  BY <1>1 DEF GetString, ShortString, Truncated
<1>8. r.v.upgradeApp = arg.v.upgradeApp.v /\ r.v.vendor = Vendor /\ r.v.subType = SubType
  BY <1>2, <1>5, <1>6, <1>7 DEF HasMembers
<1> QED BY <1>3, <1>8 DEF arg, business, SubType

\* A client with another info keeps its other members.
LEMMA ClientWithInfo ==
  ASSUME NEW c, ClientOK(c), NEW i
  PROVE  ClientOK([c EXCEPT !.info = i]) /\ [c EXCEPT !.info = i].info = i
<1> DEFINE d == [c EXCEPT !["info"] = i]
<1>1. /\ HasMembers(d, ClientFields) /\ d.info = i
      /\ \A k \in ClientFields \ {"info"} : d[k] = c[k]
  BY DEF ClientOK, HasMembers, ClientFields
<1> HIDE DEF d
<1>2. \A m \in WithOptionsCalls : d[OptionsMember[m]] = c[OptionsMember[m]]
  BY <1>1, MembersOfOptions
<1>3. d.digest = c.digest /\ d.policy = c.policy
  BY <1>1 DEF ClientFields
<1>4. ClientOK(d)
  BY <1>1, <1>2, <1>3 DEF ClientOK
<1> QED BY <1>1, <1>4 DEF d

\* The invariant holds before the first call.
LEMMA RequestInvInit == ASSUME CallersAsDeclared, Init PROVE RequestInv
<1>1. PICK r \in {x \in GetUpgradeInfoFromArg(caller.info, NewClient.info) : x.ok} :
        client = [NewClient EXCEPT !.info = r.v]
  BY DEF Init, GetOnlineUpdater
<1>2. r \in GetUpgradeInfoFromArg(caller.info, NewClient.info) /\ r.ok /\ caller \in Callers
  BY DEF Init
<1>3. ClientOK(client) /\ client.info = r.v
  BY <1>1, NewClientOK, ClientWithInfo
<1>4. InfoTaken(client)
  <2>1. /\ r.v.upgradeApp = caller.info.v.upgradeApp.v
        /\ r.v.vendor = caller.info.v.businessType.v.vendor.v
        /\ r.v.subType = caller.info.v.businessType.v.subType.v
    BY <1>2, NewClientOK, InfoRead
  <2> QED BY <1>3, <2>1 DEF InfoTaken
<1>5. /\ asked.m = "none" /\ call.step = "idle"
      /\ call = [k \in CallFields |-> call[k]]
  BY DEF Init, NoCall, NotAsked, CallFields
<1> QED BY <1>2, <1>3, <1>4, <1>5 DEF RequestInv, RequestIntact

\* A call leaves its arguments in the client, or is refused (update_client.cpp, local_updater.cpp).
LEMMA CallKeepsRequest ==
  ASSUME ArgumentsAsDeclared, RequestInv, NEW i \in DOMAIN Calls, Call(Calls[i])
  PROVE  RequestInv'
<1> DEFINE m == Calls[i].m
           args == Calls[i].args
           parsed == Parse(m, client, args)
<1>0. m \in Methods /\ AsDeclared(m, args)
  BY CallAssumption DEF ArgumentsAsDeclared
<1>1. /\ client' = parsed.c /\ caller' = caller /\ asked' = NotAsked
      /\ call' = [NoCall EXCEPT !.step = IF parsed.ok THEN "queued" ELSE "done", !.m = m,
                    !.args = args,
                    !.answer = IF parsed.ok THEN @
                               ELSE [kind |-> "error", js |-> BuildThrowError(Err(PARAM_ERR))]]
  BY DEF Call
<1> HIDE DEF m, args
<1>2. /\ ClientOK(parsed.c) /\ parsed.c.info = client.info
      /\ parsed.ok => Taken(m, args, parsed.c)
  BY <1>0, ArgumentsTaken DEF RequestInv
<1> HIDE DEF parsed
<1>3. /\ call'.step = "queued" => parsed.ok
      /\ call'.m = m /\ call'.args = args /\ call' = [k \in CallFields |-> call'[k]]
  BY <1>1 DEF NoCall, CallFields
<1>4. asked'.m = "none"
  BY <1>1 DEF NotAsked
<1>5. RequestIntact'
  BY <1>4 DEF RequestIntact
<1>6. InfoTaken(client)' /\ ClientOK(client)' /\ (caller \in Callers)'
  BY <1>1, <1>2 DEF RequestInv, InfoTaken, ClientOK
<1>7. call'.step = "queued" => Taken(call.m, call.args, client)'
  BY <1>1, <1>2, <1>3 DEF Taken
<1> QED BY <1>0, <1>1, <1>3, <1>5, <1>6, <1>7 DEF RequestInv

\* A request that asks what the client holds is intact.
LEMMA AsksIntact ==
  ASSUME NEW m, NEW args, NEW c, NEW req, Asks(m, c, req), Taken(m, args, c), InfoTaken(c)
  PROVE  /\ m \notin KitMethods =>
              /\ req.info.upgradeApp = caller.info.v.upgradeApp.v
              /\ req.info.vendor = caller.info.v.businessType.v.vendor.v
              /\ req.info.subType = caller.info.v.businessType.v.subType.v
         /\ m \in WithOptionsCalls =>
              LET given == args[OptionsOf(m)].v IN
              \A n \in DOMAIN given :
                given[n].v \notin LongStrings => req.options[n] = given[n].v
         /\ (m \in WithOptionsCalls /\ OptionsOf(m) = 2) =>
              req.digest.versionDigest = args[1].v.versionDigest.v
         /\ m = "SetUpgradePolicy" =>
              \A n \in {"downloadStrategy", "autoUpgradeStrategy"} :
                req.options[n] = args[1].v[n].v
         /\ m = "ApplyNewVersion" => req.options[2] = TrimString(args[1].v[1].v.filePath.v)
         /\ m = "VerifyUpgradePackage" =>
              req.options = <<TrimString(args[1].v.filePath.v), args[2].v>>
<1>1. {"upgradeApp", "vendor", "subType"} \subseteq Range(UpgradeInfo)
  <2>1. DOMAIN UpgradeInfo = 1..5
    BY DEF UpgradeInfo
  <2> QED BY <2>1 DEF UpgradeInfo, Range
<1>2. m \notin KitMethods =>
        /\ req.info.upgradeApp = caller.info.v.upgradeApp.v
        /\ req.info.vendor = caller.info.v.businessType.v.vendor.v
        /\ req.info.subType = caller.info.v.businessType.v.subType.v
  BY <1>1 DEF Asks, InfoTaken
<1>3. m \in WithOptionsCalls =>
        \A n \in DOMAIN args[OptionsOf(m)].v :
          args[OptionsOf(m)].v[n].v \notin LongStrings =>
            req.options[n] = args[OptionsOf(m)].v[n].v
  BY DEF Asks, Taken
<1>4. (m \in WithOptionsCalls /\ OptionsOf(m) = 2) =>
        req.digest.versionDigest = args[1].v.versionDigest.v
  BY DEF Asks, Taken
<1>5. /\ m = "SetUpgradePolicy" =>
           \A n \in {"downloadStrategy", "autoUpgradeStrategy"} : req.options[n] = args[1].v[n].v
      /\ m = "ApplyNewVersion" => req.options[2] = TrimString(args[1].v[1].v.filePath.v)
      /\ m = "VerifyUpgradePackage" =>
           req.options = <<TrimString(args[1].v.filePath.v), args[2].v>>
  BY DEF Asks, Taken
<1> QED BY <1>2, <1>3, <1>4, <1>5

\* The stub asks the service what the proxy wrote, or nothing (OnRemoteRequest).
LEMMA RemoteRequestKeepsRequest ==
  ASSUME RequestInv, OnRemoteRequest
  PROVE  RequestInv'
<1> DEFINE m == call.m
           args == call.args
           sent == Proxy(m, client)
<1>1. /\ call.step = "queued" /\ m \in Methods /\ asked = NotAsked /\ Taken(m, args, client)
      /\ UNCHANGED <<caller, client>> /\ ClientOK(client) /\ InfoTaken(client)
  BY DEF OnRemoteRequest, RequestInv
<1>2. (caller \in Callers /\ ClientOK(client) /\ InfoTaken(client))'
  BY <1>1 DEF RequestInv, ClientOK, InfoTaken
<1>3. sent.code = Code(m)
  BY <1>1, ProxyCode
<1>4. CASE ~IsCallerValid \/ ~IsPermissionGranted(sent.code)
  <2>1. /\ call' = [call EXCEPT !.step = "sent", !.status = CALL_RESULT_OFFSET + Refusal]
        /\ asked' = asked
    BY <1>4 DEF OnRemoteRequest, Refusal
  <2>2. call'.step = "sent" /\ call' = [k \in CallFields |-> call'[k]]
    BY <2>1 DEF RequestInv, CallFields
  <2>3. RequestIntact'
    BY <1>1, <2>1 DEF RequestIntact, NotAsked
  <2> QED BY <1>2, <2>2, <2>3 DEF RequestInv
<1>5. CASE IsCallerValid /\ IsPermissionGranted(sent.code)
  <2>1. PICK out \in Handle(sent.code, sent.cells) :
          /\ asked' = out.asked
          /\ call' = [call EXCEPT !.step = "sent", !.status = CALL_RESULT_OFFSET + out.ret,
                                  !.reply = Reply(m, out)]
    BY <1>5 DEF OnRemoteRequest
  <2>2. Asks(m, client, asked')
    BY <1>1, <1>3, <2>1, RequestArrives DEF ClientOK
  <2> DEFINE status == CALL_RESULT_OFFSET + out.ret
             reply == Reply(m, out)
  <2> HIDE DEF status, reply, m, args
  <2>3. call' = [call EXCEPT !["step"] = "sent", !["status"] = status, !["reply"] = reply]
    BY <2>1 DEF status, reply
  <2>4. /\ call'.step = "sent" /\ call'.m = call.m /\ call'.args = call.args
        /\ call' = [k \in CallFields |-> call'[k]]
    BY <2>3 DEF RequestInv, CallFields
  <2>5. asked'.m = call'.m /\ call'.m = m /\ call'.args = args /\ caller' = caller
    BY <1>1, <2>2, <2>4 DEF Asks, m, args
  <2>6. RequestIntact'
    BY <1>1, <2>2, <2>5, AsksIntact DEF RequestIntact, KitMethods
  <2> QED BY <1>2, <2>4, <2>6 DEF RequestInv
<1> QED BY <1>4, <1>5

\* The last policy the proxy read replaces that of the client, with its two periods.
LEMMA CompleteKeepsRequest ==
  ASSUME RequestInv, CompleteWork
  PROVE  RequestInv'
<1>1. /\ call.step = "sent" /\ UNCHANGED <<caller, asked>>
      /\ \E answer : call' = [call EXCEPT !.step = "done", !.answer = answer]
      /\ \/ client' = client
         \/ \E p : client' = [client EXCEPT !.policy = ReadValue("GetUpgradePolicy", p)]
  <2> DEFINE result == CallResult(call.status)
             read == result = SUCCESS /\ call.m \notin NoReply
             err == IF read THEN ReadBusinessError(call.reply) ELSE [v |-> NoError, rest |-> <<>>]
             value == IF read THEN ReadValue(call.m, err.rest) ELSE <<>>
             silent == call.m = "Cancel" \/ (call.m = "CheckNewVersion" /\ result = SUCCESS)
             answer == IF silent THEN [kind |-> "nothing", js |-> Undefined]
                       ELSE NotifyJS(call.m, result, err.v, value)
  <2>1. /\ call.step = "sent" /\ UNCHANGED <<caller, asked>>
        /\ call' = [call EXCEPT !.step = "done", !.answer = answer]
        /\ client' = IF read /\ call.m = "GetUpgradePolicy"
                     THEN [client EXCEPT !.policy = value] ELSE client
    BY DEF CompleteWork
  <2>2. read /\ call.m = "GetUpgradePolicy" => value = ReadValue("GetUpgradePolicy", err.rest)
    OBVIOUS
  <2> HIDE DEF answer, value, err, read
  <2> QED BY <2>1, <2>2
<1>2. PICK answer : call' = [call EXCEPT !.step = "done", !.answer = answer]
  BY <1>1
<1>3. /\ call'.step = "done" /\ call'.m = call.m /\ call'.args = call.args
      /\ call' = [k \in CallFields |-> call'[k]]
  BY <1>2 DEF RequestInv, CallFields
<1>4. RequestIntact'
  BY <1>1, <1>3 DEF RequestInv, RequestIntact
<1>5. ClientOK(client') /\ client'.info = client.info
  <2>1. CASE client' = client
    BY <2>1 DEF RequestInv
  <2>2. ASSUME NEW p, client' = [client EXCEPT !.policy = ReadValue("GetUpgradePolicy", p)]
        PROVE  ClientOK(client') /\ client'.info = client.info
    <3> DEFINE list == ReadVector(Drop(p, 2), UpgradePeriod)
               periods == [i \in 1..2 |-> IF i <= Len(list.v) THEN list.v[i]
                                          ELSE [start |-> 0, end |-> 0]]
               policy == [downloadStrategy |-> CellAt(p, 1), autoUpgradeStrategy |-> CellAt(p, 2),
                          autoUpgradePeriods |-> periods]
    <3>1. ReadValue("GetUpgradePolicy", p) = policy
      BY DEF ReadValue, ReadUpgradePolicy
    <3>2. IsSeq(periods)
      <4>1. DOMAIN periods = 1..2 /\ periods = [i \in 1..2 |-> periods[i]]
        OBVIOUS
      <4> HIDE DEF periods
      <4> QED BY <4>1, FunctionIsSeq
    <3> HIDE DEF periods
    <3>3. /\ HasMembers(policy, {"downloadStrategy", "autoUpgradeStrategy", "autoUpgradePeriods"})
          /\ IsSeq(policy.autoUpgradePeriods)
      BY <3>2 DEF HasMembers
    <3> HIDE DEF policy
    <3> DEFINE new == [client EXCEPT !["policy"] = policy]
    <3>4. /\ HasMembers(new, ClientFields) /\ new.policy = policy /\ new.info = client.info
          /\ \A k \in ClientFields \ {"policy", "files", "certs"} : new[k] = client[k]
      BY DEF RequestInv, ClientOK, HasMembers, ClientFields
    <3>5. client' = new
      BY <2>2, <3>1
    <3> HIDE DEF new
    <3>6. ClientOK(new)
      BY <3>3, <3>4, ClientWithPolicy DEF RequestInv
    <3> QED BY <3>4, <3>5, <3>6
  <2> QED BY <1>1, <2>1, <2>2
<1>6. (caller \in Callers /\ ClientOK(client) /\ InfoTaken(client))'
  BY <1>1, <1>5 DEF RequestInv, InfoTaken, ClientOK
<1> QED BY <1>3, <1>4, <1>6 DEF RequestInv

\* Every step preserves the invariant.
LEMMA RequestInvStep ==
  ASSUME ArgumentsAsDeclared PROVE RequestInv /\ [Next]_vars => RequestInv'
<1> SUFFICES ASSUME RequestInv, [Next]_vars PROVE RequestInv'
  OBVIOUS
<1>1. ASSUME UNCHANGED <<caller, client>>
      PROVE  (caller \in Callers /\ ClientOK(client) /\ InfoTaken(client))'
  BY <1>1 DEF RequestInv, ClientOK, InfoTaken
<1>2. CASE TransportFails
  <2>1. PICK code \in TransportErrors : call' = [call EXCEPT !.step = "sent", !.status = code]
    BY <1>2 DEF TransportFails
  <2>2. call'.step = "sent" /\ call' = [k \in CallFields |-> call'[k]]
    BY <2>1 DEF RequestInv, CallFields
  <2>3. asked'.m = "none"
    BY <1>2 DEF TransportFails, RequestInv, NotAsked
  <2> QED BY <1>1, <1>2, <2>2, <2>3 DEF TransportFails, RequestInv, RequestIntact
<1>3. CASE Forget
  <2>1. call'.step = "idle" /\ call' = [k \in CallFields |-> call'[k]] /\ asked'.m = "none"
    BY <1>3 DEF Forget, NoCall, NotAsked, CallFields
  <2> QED BY <1>1, <1>3, <2>1 DEF Forget, RequestInv, RequestIntact
<1>4. CASE WorldChanges \/ (\E p \in Pushed : Push(p)) \/ UNCHANGED vars
  <2>1. UNCHANGED <<caller, client, call, asked>>
    BY <1>4 DEF WorldChanges, Push, vars
  <2>2. RequestIntact' /\ (call.step = "queued" => Taken(call.m, call.args, client))'
    BY <2>1 DEF RequestInv, RequestIntact, Taken
  <2> QED BY <1>1, <2>1, <2>2 DEF RequestInv
<1> QED BY <1>2, <1>3, <1>4, CallKeepsRequest, RemoteRequestKeepsRequest, CompleteKeepsRequest
        DEF Next

\* For any callers and any calls with arguments of the declared types, served, refused and
\* failed in any order, the service is asked for the method that was called with the business,
\* digest and options JavaScript gave: parsing puts them into the members the proxy sends, and
\* the stub reads every parcel as the proxy wrote it (client_helper.cpp,
\* update_service_proxy.cpp, update_service_stub.cpp, message_parcel_helper.cpp).
THEOREM RequestAlwaysIntact ==
  ASSUME ArgumentsAsDeclared, CallersAsDeclared PROVE Spec => []RequestIntact
<1>1. RequestInv => RequestIntact
  BY DEF RequestInv
<1> QED BY RequestInvInit, RequestInvStep, <1>1, PTL DEF Spec

-----------------------------------------------------------------------------
(* UpdateCall: what is pushed.  The reader of a parcel gives back every     *)
(* list it was sent, and the objects built from it show it.                 *)

\* When all elements are valid, all are shown (GetValidDataCount).
LEMMA AllSelected ==
  ASSUME NEW list, IsSeq(list)
  PROVE  Selected(list, DOMAIN list) = list
<1> DEFINE n == Len(list)
<1>1. n \in Nat /\ DOMAIN list = 1..n /\ list = [k \in 1..n |-> list[k]]
  BY DEF IsSeq
<1>2. \A i \in 0..n : Cardinality(1..i) = i
  BY <1>1, FS_Interval
<1>3. \A i \in 1..n : {j \in 1..n : j <= i} = 1..i
  BY <1>1
<1>4. \A i \in 1..n : Cardinality({j \in 1..n : j <= i}) = i
  <2> HIDE DEF n
  <2> SUFFICES ASSUME NEW i \in 1..n PROVE Cardinality({j \in 1..n : j <= i}) = i
    OBVIOUS
  <2>1. {j \in 1..n : j <= i} = 1..i
    BY <1>3
  <2>2. Cardinality(1..i) = i
    BY <1>1, <1>2
  <2> QED BY <2>1, <2>2, Zenon
<1>5. \A k \in 1..n : (CHOOSE i \in 1..n : Cardinality({j \in 1..n : j <= i}) = k) = k
  BY <1>4
<1>6. Cardinality(1..n) = n
  BY <1>1, <1>2
<1>7. Selected(list, 1..n) = [k \in 1..n |-> list[k]]
  <2>1. Selected(list, 1..n)
          = [k \in 1..Cardinality(1..n) |->
               list[CHOOSE i \in 1..n : Cardinality({j \in 1..n : j <= i}) = k]]
    BY DEF Selected
  <2> QED BY <1>5, <1>6, <2>1, Zenon
<1> QED BY <1>1, <1>7

\* Where the j-th member of the i-th element of a list lies among its cells, and back.
LEMMA CellOfMember ==
  ASSUME NEW w \in {2, 3, 10}, NEW n \in Nat, NEW i \in 1..n, NEW j \in 1..w
  PROVE  /\ (i - 1) * w \in Nat /\ (i - 1) * w + j \in 1 .. n * w
         /\ ((i - 1) * w + j - 1) \div w = i - 1
         /\ ((i - 1) * w + j - 1) % w = j - 1
<1>1. CASE w = 2
  BY <1>1
<1>2. CASE w = 3
  BY <1>2
<1>3. CASE w = 10
  BY <1>3
<1> QED BY <1>1, <1>2, <1>3

\* A list is read as it was written, and so is what follows it, as long as the reader accepts its
\* length (WriteVector, ReadVector).
LEMMA VectorArrives ==
  ASSUME NEW list, IsSeq(list), Len(list) <= MAX_VECTOR_SIZE,
         NEW names, MemberNames(names), Len(names) \in {2, 3, 10},
         NEW tail, IsSeq(tail)
  PROVE  LET r == ReadVector(WriteVector(list, names) \o tail, names) IN
         /\ r.v = [i \in 1..Len(list) |-> [m \in Range(names) |-> list[i][m]]]
         /\ r.rest = tail
<1> DEFINE n == Len(list)
           w == Len(names)
           z == n * w
           f == [k \in 1 .. z |-> Cells(list[1 + ((k - 1) \div w)], names)[1 + ((k - 1) % w)]]
           p == (<<n>> \o f) \o tail
<1>0. n \in Nat /\ w \in {2, 3, 10} /\ z \in Nat /\ DOMAIN names = 1..w
  BY DEF IsSeq, MemberNames
<1>1. WriteVector(list, names) \o tail = p
  BY DEF WriteVector
<1>2. /\ DOMAIN f = 1 .. z /\ f = [k \in 1 .. z |-> f[k]]
      /\ \A k \in 1 .. z :
           f[k] = Cells(list[1 + ((k - 1) \div w)], names)[1 + ((k - 1) % w)]
  OBVIOUS
<1> HIDE DEF n, w, z, f
<1>3. f \in Seq(Range(f)) /\ Len(f) = z
  BY <1>0, <1>2 DEF Range
<1>4. PICK T : tail \in Seq(T)
  BY DEF IsSeq
<1> DEFINE A == {n} \union Range(f) \union T
<1>5. <<n>> \in Seq(A) /\ f \in Seq(A) /\ tail \in Seq(A)
  BY <1>3, <1>4
<1>6. p \in Seq(A)
  BY <1>5
<1>6a. Len(tail) \in Nat /\ DOMAIN f = 1 .. z
  BY <1>2, <1>4
<1>7. /\ Len(p) = 1 + z + Len(tail) /\ Len(tail) \in Nat
      /\ p[1] = n
      /\ \A k \in 1 .. z : p[1 + k] = f[k]
      /\ \A k \in 1 .. Len(tail) : p[1 + z + k] = tail[k]
  <2> DEFINE s == <<n>> \o f
  <2>1. s \in Seq(A) /\ Len(s) = 1 + z /\ s[1] = n /\ \A k \in 1 .. z : s[1 + k] = f[k]
    BY <1>0, <1>3, <1>5
  <2>2. p = s \o tail
    OBVIOUS
  <2> HIDE DEF s, p, A
  <2>3. Len(p) = Len(s) + Len(tail) /\ \A k \in 1 .. Len(s) : p[k] = s[k]
    <3>1. Len(s \o tail) = Len(s) + Len(tail)
      BY <1>5, <2>1
    <3>2. \A k \in 1 .. Len(s) : (s \o tail)[k] = s[k]
      BY <1>0, <1>5, <1>6a, <2>1
    <3> QED BY <2>2, <3>1, <3>2
  <2>4. \A k \in 1 .. Len(tail) : p[Len(s) + k] = tail[k]
    BY <1>5, <1>6a, <2>1, <2>2
  <2>5. \A k \in 1 .. z : p[1 + k] = s[1 + k]
    BY <1>0, <2>1, <2>3
  <2> QED BY <1>0, <1>6a, <2>1, <2>3, <2>4, <2>5
<1> HIDE DEF p, A
<1>8. CellAt(p, 1) = n
  BY <1>0, <1>7 DEF CellAt
<1>9. ~(n > MAX_VECTOR_SIZE)
  BY <1>0, ParcelAssumption DEF n
<1>10. Drop(p, 1 + z) = tail
  <2> DEFINE d == Drop(p, 1 + z)
  <2>1. d = SubSeq(p, z + 2, Len(p))
    BY <1>0 DEF Drop
  <2> HIDE DEF d
  <2>2. z \in Nat /\ Len(p) = 1 + z + Len(tail)
        /\ \A k \in 1 .. Len(tail) : p[1 + z + k] = tail[k]
    BY <1>0, <1>7
  <2>3. d \in Seq(A) /\ Len(d) = Len(tail) /\ \A k \in 1 .. Len(tail) : d[k] = p[1 + z + k]
    BY <1>6, <1>7, <2>1, <2>2
  <2>4. d = tail
    BY <1>4, <2>2, <2>3
  <2> QED BY <2>4 DEF d
<1>11. ASSUME NEW i \in 1..n
       PROVE  Struct(Drop(p, 1 + (i - 1) * w), names).v = [m \in Range(names) |-> list[i][m]]
  <2> DEFINE off == (i - 1) * w
             d == Drop(p, 1 + off)
             Place(m) == CHOOSE j \in DOMAIN names : names[j] = m
  <2>1. \A j \in 1..w :
          /\ off \in Nat /\ off + j \in 1 .. z
          /\ (off + j - 1) \div w = i - 1 /\ (off + j - 1) % w = j - 1
    BY <1>0, CellOfMember DEF z
  <2>2. off \in Nat
    BY <1>0, <2>1
  <2> HIDE DEF off
  <2>2a. off + w <= z
    <3>1. w \in 1..w
      BY <1>0
    <3>2. off + w \in 1..z
      BY <2>1, <3>1
    <3> QED BY <3>2
  <2>3. d = SubSeq(p, off + 2, Len(p))
    BY <2>2 DEF Drop
  <2> HIDE DEF d
  <2>4. Len(d) = Len(p) - 1 - off /\ \A j \in 1 .. w : d[j] = p[1 + (off + j)]
    BY <1>0, <1>6, <1>7, <2>2, <2>2a, <2>3
  <2>5. ASSUME NEW j \in 1..w PROVE CellAt(d, j) = list[i][names[j]]
    <3>1. j <= Len(d)
      BY <1>0, <1>7, <2>2, <2>2a, <2>4
    <3>2. CellAt(d, j) = f[off + j]
      BY <1>7, <2>1, <2>4, <3>1 DEF CellAt
    <3>3. f[off + j] = Cells(list[i], names)[j]
      <4> DEFINE k == off + j
      <4>1. k \in 1 .. z /\ (k - 1) \div w = i - 1 /\ (k - 1) % w = j - 1
        BY <2>1
      <4> HIDE DEF k
      <4>2. f[k] = Cells(list[1 + ((k - 1) \div w)], names)[1 + ((k - 1) % w)]
        BY <1>2, <4>1, Zenon
      <4>3. 1 + (i - 1) = i /\ 1 + (j - 1) = j
        BY <1>0
      <4>4. f[k] = Cells(list[i], names)[j]
        BY <4>1, <4>2, <4>3, Zenon
      <4> QED BY <4>4 DEF k
    <3> QED BY <1>0, <3>2, <3>3 DEF Cells
  <2>6. \A m \in Range(names) : Place(m) \in 1..w /\ names[Place(m)] = m
    BY <1>0 DEF Range
  <2>7. \A m \in Range(names) : CellAt(d, Place(m)) = list[i][m]
    <3> HIDE DEF Place
    <3> QED BY <2>5, <2>6
  <2>8. Struct(d, names).v = [m \in Range(names) |-> CellAt(d, Place(m))]
    BY DEF Struct
  <2>9. Struct(d, names).v = [m \in Range(names) |-> list[i][m]]
    <3> HIDE DEF Place
    <3> QED BY <2>7, <2>8
  <2> QED BY <2>9 DEF d, off
<1>12. ReadVector(p, names)
         = [v    |-> [i \in 1..n |-> Struct(Drop(p, 1 + (i - 1) * w), names).v],
            rest |-> Drop(p, 1 + z)]
  BY <1>8, <1>9, Zenon DEF ReadVector, w, z
<1>13. [i \in 1..n |-> Struct(Drop(p, 1 + (i - 1) * w), names).v]
         = [i \in 1..n |-> [m \in Range(names) |-> list[i][m]]]
  BY <1>11
<1>14. /\ ReadVector(p, names).v = [i \in 1..n |-> [m \in Range(names) |-> list[i][m]]]
       /\ ReadVector(p, names).rest = tail
  BY <1>10, <1>12, <1>13
<1> QED BY <1>1, <1>14 DEF n

\* A number of 32 bits is shown as it is (SetInt32).
LEMMA Int32Shown ==
  ASSUME NEW x, IsInt32(x) PROVE SetInt32(x).v = x
<1>0. Word \in Nat \ {0}
  BY ParcelAssumption
<1>1. CASE x >= 0
  <2>1. x % Word = x
    BY <1>0, <1>1, SmallRemainder DEF IsInt32
  <2> QED BY <1>0, <1>1, <2>1 DEF SetInt32, Js, IsInt32
<1>2. CASE x < 0
  <2>1. x % Word = x + Word
    BY <1>0, <1>2 DEF IsInt32
  <2> QED BY <1>0, <1>2, <2>1 DEF SetInt32, Js, IsInt32
<1> QED BY <1>1, <1>2 DEF IsInt32

\* What is written first is read first.
LEMMA PrefixRead ==
  ASSUME NEW s, IsSeq(s), NEW t, IsSeq(t)
  PROVE  /\ Drop(s \o t, Len(s)) = t
         /\ \A i \in 1 .. Len(s) : CellAt(s \o t, i) = s[i]
<1>1. PICK S : s \in Seq(S)
  BY DEF IsSeq
<1>2. PICK T : t \in Seq(T)
  BY DEF IsSeq
<1> DEFINE A == S \union T
           p == s \o t
<1>3. s \in Seq(A) /\ t \in Seq(A) /\ Len(s) \in Nat /\ Len(t) \in Nat
  BY <1>1, <1>2
<1>4. /\ p \in Seq(A) /\ Len(p) = Len(s) + Len(t)
      /\ \A i \in 1 .. Len(s) : p[i] = s[i]
      /\ \A i \in 1 .. Len(t) : p[Len(s) + i] = t[i]
  BY <1>3
<1> HIDE DEF p, A
<1>5. \A i \in 1 .. Len(s) : CellAt(p, i) = s[i]
  BY <1>3, <1>4 DEF CellAt
<1>6. Drop(p, Len(s)) = t
  <2> DEFINE d == SubSeq(p, Len(s) + 1, Len(p))
  <2>1. d \in Seq(A) /\ Len(d) = Len(t) /\ \A i \in 1 .. Len(t) : d[i] = t[i]
    BY <1>3, <1>4
  <2> HIDE DEF d
  <2>2. d = t
    BY <1>3, <2>1
  <2> QED BY <2>2 DEF d, Drop
<1> QED BY <1>5, <1>6 DEF p

\* The same for the one or two cells before a structure or a list.
LEMMA CellRead ==
  ASSUME NEW x, NEW t, IsSeq(t)
  PROVE  CellAt(<<x>> \o t, 1) = x /\ Drop(<<x>> \o t, 1) = t
<1> DEFINE s == <<x>>
<1>1. IsSeq(s) /\ Len(s) = 1 /\ s[1] = x
  BY OneIsSeq
<1> HIDE DEF s
<1>2. CellAt(s \o t, 1) = x /\ Drop(s \o t, 1) = t
  BY <1>1, PrefixRead
<1> QED BY <1>2 DEF s

LEMMA CellsRead ==
  ASSUME NEW x, NEW y, NEW t, IsSeq(t)
  PROVE  /\ CellAt(<<x, y>> \o t, 1) = x /\ CellAt(<<x, y>> \o t, 2) = y
         /\ Drop(<<x, y>> \o t, 2) = t
<1> DEFINE s == <<x, y>>
<1>0. IsSeq(s)
  BY TwoIsSeq
<1>1. Len(s) = 2 /\ s[1] = x /\ s[2] = y
  OBVIOUS
<1> HIDE DEF s
<1>2. Drop(s \o t, 2) = t /\ \A i \in 1..2 : CellAt(s \o t, i) = s[i]
  BY <1>0, <1>1, PrefixRead
<1> QED BY <1>1, <1>2 DEF s

\* The names of the lists' structures.
LEMMA ListNames ==
  /\ MemberNames(ErrorMessage) /\ Len(ErrorMessage) = 2
  /\ Range(ErrorMessage) = {"errorCode", "errorMessage"}
  /\ MemberNames(VersionComponent) /\ Len(VersionComponent) = 10
  /\ {"componentId", "componentType", "innerVersion", "size", "displayVersion"}
       \subseteq Range(VersionComponent)
  /\ MemberNames(TaskHead)
  /\ Range(TaskHead) = {"versionDigest", "status", "subStatus", "progress", "installMode"}
<1>1. /\ DOMAIN ErrorMessage = 1..2 /\ Len(ErrorMessage) = 2
      /\ ErrorMessage = [i \in 1..2 |-> ErrorMessage[i]]
  BY DEF ErrorMessage
<1>2. \A i, j \in 1..2 : ErrorMessage[i] = ErrorMessage[j] => i = j
  BY DEF ErrorMessage
<1>3. MemberNames(ErrorMessage)
  BY <1>1, <1>2, FunctionIsSeq DEF MemberNames
<1>4. Range(ErrorMessage) = {"errorCode", "errorMessage"}
  BY <1>1 DEF Range, ErrorMessage
<1>5. /\ DOMAIN VersionComponent = 1..10 /\ Len(VersionComponent) = 10
      /\ VersionComponent = [i \in 1..10 |-> VersionComponent[i]]
  BY DEF VersionComponent
<1>6. \A i, j \in 1..10 : VersionComponent[i] = VersionComponent[j] => i = j
  BY SMTT(60) DEF VersionComponent
<1>7. MemberNames(VersionComponent)
  BY <1>5, <1>6, FunctionIsSeq DEF MemberNames
<1>8. {"componentId", "componentType", "innerVersion", "size", "displayVersion"}
        \subseteq Range(VersionComponent)
  <2>1. /\ VersionComponent[1] = "componentId" /\ VersionComponent[2] = "componentType"
        /\ VersionComponent[5] = "innerVersion" /\ VersionComponent[6] = "size"
        /\ VersionComponent[4] = "displayVersion"
    BY DEF VersionComponent
  <2> QED BY <1>5, <2>1 DEF Range
<1>9. DOMAIN TaskHead = 1..5 /\ Len(TaskHead) = 5 /\ TaskHead = [i \in 1..5 |-> TaskHead[i]]
  BY DEF TaskHead
<1>10. \A i, j \in 1..5 : TaskHead[i] = TaskHead[j] => i = j
  BY DEF TaskHead
<1>11. MemberNames(TaskHead)
  BY <1>9, <1>10, FunctionIsSeq DEF MemberNames
<1>12. Range(TaskHead) = {"versionDigest", "status", "subStatus", "progress", "installMode"}
  BY <1>9 DEF Range, TaskHead
<1> QED BY <1>1, <1>3, <1>4, <1>5, <1>7, <1>8, <1>11, <1>12

\* Error messages are read as they were written (WriteErrorMessages, ReadErrorMessages).
LEMMA ErrorsArrive ==
  ASSUME NEW list, ErrorsAsDeclared(list), NEW tail, IsSeq(tail)
  PROVE  /\ ReadErrorMessages(WriteErrorMessages(list) \o tail).v = list
         /\ ReadErrorMessages(WriteErrorMessages(list) \o tail).rest = tail
         /\ IsSeq(WriteErrorMessages(list)) /\ IsSeq(list)
<1> DEFINE R == Range(list)
<1>0. /\ list \in Seq(R) /\ Len(list) <= MAX_VECTOR_SIZE
      /\ \A i \in DOMAIN list : list[i] = [n \in Range(ErrorMessage) |-> list[i][n]]
  BY DEF ErrorsAsDeclared, IsListOf
<1> HIDE DEF R
<1>1. /\ IsSeq(list) /\ Len(list) <= MAX_VECTOR_SIZE
      /\ DOMAIN list = 1..Len(list) /\ list = [i \in 1..Len(list) |-> list[i]]
      /\ \A i \in 1..Len(list) : list[i] = [n \in Range(ErrorMessage) |-> list[i][n]]
  BY <1>0 DEF IsSeq
<1>2. [i \in 1..Len(list) |-> [n \in Range(ErrorMessage) |-> list[i][n]]]
        = [i \in 1..Len(list) |-> list[i]]
  BY <1>1
<1> DEFINE names == ErrorMessage
<1> HIDE DEF names
<1>n. MemberNames(names) /\ Len(names) = 2
  BY ListNames DEF names
<1>3. IsSeq(WriteErrorMessages(list))
  BY <1>1, <1>n, VectorIsSeq DEF WriteErrorMessages, names
<1>4. /\ ReadErrorMessages(WriteErrorMessages(list) \o tail).v
           = [i \in 1..Len(list) |-> [n \in Range(ErrorMessage) |-> list[i][n]]]
      /\ ReadErrorMessages(WriteErrorMessages(list) \o tail).rest = tail
  BY <1>1, <1>n, VectorArrives DEF WriteErrorMessages, ReadErrorMessages, names
<1> QED BY <1>1, <1>2, <1>3, <1>4

\* The list read is the list sent but for the sizes, which are cut to 32 bits.
SameComponents(list, read) ==
  /\ IsSeq(read) /\ DOMAIN read = DOMAIN list
  /\ \A i \in DOMAIN list : \A n \in Range(VersionComponent) \ {"size"} : read[i][n] = list[i][n]
  /\ \A i \in DOMAIN list : read[i].size = Uint32(list[i].size)

\* Components are read as they were written (WriteVersionComponents, ReadVersionComponents).
LEMMA ComponentsArrive ==
  ASSUME NEW list, IsListOf(list, VersionComponent), NEW tail, IsSeq(tail)
  PROVE  /\ SameComponents(list, ReadVersionComponents(WriteVersionComponents(list) \o tail).v)
         /\ ReadVersionComponents(WriteVersionComponents(list) \o tail).rest = tail
         /\ IsSeq(WriteVersionComponents(list))
<1> DEFINE sent == [i \in DOMAIN list |-> [list[i] EXCEPT !.size = Uint32(@)]]
           names == VersionComponent
           n == Len(list)
           read == [i \in 1..n |-> [m \in Range(names) |-> sent[i][m]]]
<1>1. /\ n \in Nat /\ n <= MAX_VECTOR_SIZE /\ DOMAIN list = 1..n
      /\ \A i \in 1..n : list[i] = [m \in Range(names) |-> list[i][m]]
  BY DEF IsListOf
<1>2. \A i \in 1..n : \A m \in Range(names) :
        sent[i][m] = IF m = "size" THEN Uint32(list[i].size) ELSE list[i][m]
  BY <1>1, ListNames
<1>3. DOMAIN sent = 1..n /\ sent = [i \in 1..n |-> sent[i]]
  BY <1>1
<1> HIDE DEF sent
<1>4. IsSeq(sent) /\ Len(sent) = n
  <2>1. IsSeq(sent)
    BY <1>1, <1>3, FunctionIsSeq
  <2> QED BY <1>1, <1>3, <2>1 DEF IsSeq
<1>5. WriteVersionComponents(list) = WriteVector(sent, names)
  BY DEF WriteVersionComponents, sent
<1> HIDE DEF names
<1>6. /\ ReadVersionComponents(WriteVersionComponents(list) \o tail).v = read
      /\ ReadVersionComponents(WriteVersionComponents(list) \o tail).rest = tail
      /\ IsSeq(WriteVersionComponents(list))
  BY <1>1, <1>4, <1>5, ListNames, VectorArrives, VectorIsSeq DEF ReadVersionComponents, names
<1>7. DOMAIN read = 1..n /\ read = [i \in 1..n |-> read[i]]
  OBVIOUS
<1>8. \A i \in 1..n : \A m \in Range(names) : read[i][m] = sent[i][m]
  OBVIOUS
<1> HIDE DEF read
<1>9. IsSeq(read)
  BY <1>1, <1>7, FunctionIsSeq
<1>10. "size" \in Range(names)
  BY ListNames DEF names
<1>11. SameComponents(list, read)
  BY <1>1, <1>2, <1>7, <1>8, <1>9, <1>10 DEF SameComponents, names
<1> QED BY <1>6, <1>11

\* Properties joined to an object: those of the second that the first does not have.
LEMMA MergeAdds ==
  ASSUME NEW f, NEW g, NEW x \in DOMAIN g, x \notin DOMAIN f PROVE (f ++ g)[x] = g[x]
BY DEF ++

\* A list in an object stays what it is when other properties are joined.
LEMMA ShowsJoined ==
  ASSUME NEW list, NEW name, NEW f, NEW g, NEW member, Shows(list, name, g, member),
         list # <<>> => member \in DOMAIN g,
         member \notin DOMAIN f
  PROVE  Shows(list, name, f ++ g, member) /\ (list # <<>> => member \in DOMAIN (f ++ g))
<1>1. DOMAIN (f ++ g) = DOMAIN f \union DOMAIN g
  BY DEF ++
<1>2. CASE list = <<>>
  BY <1>1, <1>2 DEF Shows
<1>3. CASE list # <<>>
  <2>1. (f ++ g)[member] = g[member]
    BY <1>3, MergeAdds
  <2> QED BY <1>1, <1>3, <2>1 DEF Shows
<1> QED BY <1>2, <1>3

LEMMA ShowsFirst ==
  ASSUME NEW list, NEW name, NEW f, NEW g, NEW member, Shows(list, name, f, member),
         list # <<>> => member \in DOMAIN f,
         member \notin DOMAIN g
  PROVE  Shows(list, name, f ++ g, member) /\ (list # <<>> => member \in DOMAIN (f ++ g))
<1>1. DOMAIN (f ++ g) = DOMAIN f \union DOMAIN g
  BY DEF ++
<1>2. CASE list = <<>>
  BY <1>1, <1>2 DEF Shows
<1>3. CASE list # <<>>
  <2>1. (f ++ g)[member] = f[member]
    BY <1>3, MergeKeeps
  <2> QED BY <1>1, <1>3, <2>1 DEF Shows
<1> QED BY <1>2, <1>3

\* The property of an array of objects, one for each element of a list that is not empty.
ArrayOf(b, member, list, objects) ==
  /\ DOMAIN b = IF list = <<>> THEN {} ELSE {member}
  /\ list # <<>> =>
       /\ Len(b[member].v) = Len(list)
       /\ \A i \in DOMAIN list : b[member].v[i] = Js("object", objects[i])

\* It is what BuildArray makes.
LEMMA ArrayShown ==
  ASSUME NEW list, IsSeq(list), NEW objects, HasMembers(objects, DOMAIN list), NEW member
  PROVE  ArrayOf(BuildArray(member, objects), member, list, objects)
<1> DEFINE visible == [i \in DOMAIN objects |-> Js("object", objects[i])]
           b == BuildArray(member, objects)
<1>0. DOMAIN list = 1..Len(list) /\ Len(list) \in Nat
  BY DEF IsSeq
<1>o. DOMAIN objects = 1..Len(list) /\ objects = [i \in 1..Len(list) |-> objects[i]]
  BY <1>0 DEF HasMembers
<1>1. objects = <<>> <=> list = <<>>
  <2>1. list = <<>> <=> DOMAIN list = {}
    BY DEF IsSeq
  <2>2. IsSeq(objects)
    BY <1>0, <1>o, FunctionIsSeq
  <2>3. objects = <<>> <=> DOMAIN objects = {}
    BY <2>2 DEF IsSeq
  <2> QED BY <1>0, <1>o, <2>1, <2>3
<1>2. CASE list = <<>>
  <2>1. b = NoProperties
    BY <1>1, <1>2 DEF BuildArray
  <2> QED BY <1>2, <2>1 DEF NoProperties, ArrayOf
<1>3. CASE list # <<>>
  <2>1. b = [x \in {member} |-> Js("array", visible)]
    BY <1>1, <1>3 DEF BuildArray
  <2>2. /\ DOMAIN visible = 1..Len(list) /\ visible = [i \in 1..Len(list) |-> visible[i]]
        /\ \A i \in DOMAIN list : visible[i] = Js("object", objects[i])
    BY <1>0, <1>o
  <2> HIDE DEF visible, b
  <2>3. Len(visible) = Len(list)
    <3>1. IsSeq(visible)
      BY <1>0, <2>2, FunctionIsSeq
    <3> QED BY <1>0, <2>2, <3>1 DEF IsSeq
  <2>4. Js("array", visible).v = visible
    BY DEF Js
  <2>5. DOMAIN b = {member} /\ b[member].v = visible
    BY <2>1, <2>4
  <2>6. ArrayOf(b, member, list, objects)
    BY <1>3, <2>2, <2>3, <2>5 DEF ArrayOf
  <2> QED BY <2>6 DEF b
<1> QED BY <1>2, <1>3

\* Every error message is shown (BuildErrorMessages).
LEMMA ErrorsShown ==
  ASSUME NEW list, ErrorsAsDeclared(list), NEW member
  PROVE  LET b == BuildErrorMessages(member, list) IN
         /\ DOMAIN b \subseteq {member}
         /\ list # <<>> => member \in DOMAIN b
         /\ Shows(list, "errorCode", b, member)
<1> DEFINE Object(i) == [errorCode |-> SetInt32(list[i].errorCode),
                         errorMessage |-> SetString(list[i].errorMessage)]
           objects == [i \in DOMAIN list |-> Object(i)]
           b == BuildErrorMessages(member, list)
<1>1. IsSeq(list)
  BY ErrorsArrive, EmptyIsSeq
<1>2. {i \in DOMAIN list : IsValidErrorMessage(list[i])} = DOMAIN list
  BY DEF ErrorsAsDeclared
<1>3. Selected(list, DOMAIN list) = list
  BY <1>1, AllSelected
<1>4. b = BuildArray(member, objects)
  BY <1>2, <1>3 DEF BuildErrorMessages
<1>5. HasMembers(objects, DOMAIN list) /\ \A i \in DOMAIN list : objects[i] = Object(i)
  BY DEF HasMembers
<1> HIDE DEF objects, b
<1>a. ArrayOf(b, member, list, objects)
  BY <1>1, <1>4, <1>5, ArrayShown
<1>6. /\ DOMAIN b = IF list = <<>> THEN {} ELSE {member}
      /\ list # <<>> =>
           /\ Len(b[member].v) = Len(list)
           /\ \A i \in DOMAIN list : b[member].v[i] = Js("object", objects[i])
  BY <1>a DEF ArrayOf
<1>7. \A i \in DOMAIN list : Js("object", Object(i)).v.errorCode.v = list[i].errorCode
  <2> SUFFICES ASSUME NEW i \in DOMAIN list
               PROVE  Js("object", Object(i)).v.errorCode.v = list[i].errorCode
    OBVIOUS
  <2>1. SetInt32(list[i].errorCode).v = list[i].errorCode
    BY Int32Shown DEF ErrorsAsDeclared
  <2>2. Js("object", Object(i)).v.errorCode = SetInt32(list[i].errorCode)
    BY DEF Js
  <2> QED BY <2>1, <2>2
<1>8. Shows(list, "errorCode", b, member)
  <2> HIDE DEF Object
  <2> QED BY <1>5, <1>6, <1>7 DEF Shows
<1> QED BY <1>6, <1>8 DEF b

\* The objects built of components that were read, all of them valid (BuildVersionComponents).
LEMMA ComponentsBuilt ==
  ASSUME NEW list, ComponentsAsDeclared(list), NEW read, SameComponents(list, read)
  PROVE  LET b == BuildVersionComponents(read) IN
         /\ DOMAIN b = IF list = <<>> THEN {} ELSE {"versionComponents"}
         /\ list # <<>> => Len(b.versionComponents.v) = Len(list)
         /\ \A i \in DOMAIN list :
              b.versionComponents.v[i].v = BuildVersionComponent(read[i])
<1> DEFINE objects == [i \in DOMAIN read |-> BuildVersionComponent(read[i])]
           b == BuildVersionComponents(read)
           member == "versionComponents"
<1>1. IsSeq(read) /\ DOMAIN read = DOMAIN list
  BY DEF SameComponents
<1>l. IsSeq(list)
  BY DEF ComponentsAsDeclared, IsListOf, IsSeq
<1>m. Len(read) = Len(list) /\ (read = <<>> <=> list = <<>>) /\ (list = <<>> => DOMAIN list = {})
  BY <1>1, <1>l DEF IsSeq
<1>2. {i \in DOMAIN read : IsValidVersionComponent(read[i])} = DOMAIN read
  <2>1. "componentType" \in Range(VersionComponent) \ {"size"}
    BY ListNames
  <2>2. \A i \in DOMAIN list : read[i]["componentType"] = list[i]["componentType"]
    BY <2>1 DEF SameComponents
  <2>3. \A i \in DOMAIN list : list[i].componentType # 0
    BY DEF ComponentsAsDeclared, IsValidVersionComponent
  <2>4. \A i \in DOMAIN read : IsValidVersionComponent(read[i])
    BY <1>1, <2>2, <2>3 DEF IsValidVersionComponent
  <2> QED BY <2>4
<1>3. Selected(read, DOMAIN read) = read
  BY <1>1, AllSelected
<1>4. b = BuildArray(member, objects)
  BY <1>2, <1>3 DEF BuildVersionComponents
<1>5. /\ HasMembers(objects, DOMAIN read)
      /\ \A i \in DOMAIN read : objects[i] = BuildVersionComponent(read[i])
  BY DEF HasMembers
<1> HIDE DEF objects, b, member
<1>6. ArrayOf(b, member, read, objects)
  BY <1>1, <1>4, <1>5, ArrayShown
<1>7. ASSUME NEW i \in DOMAIN list PROVE b[member].v[i].v = BuildVersionComponent(read[i])
  <2>1. read # <<>>
    BY <1>m
  <2>2. b[member].v[i] = Js("object", objects[i])
    BY <1>1, <1>6, <2>1 DEF ArrayOf
  <2> QED BY <1>1, <1>5, <2>2 DEF Js
<1>8. /\ DOMAIN b = IF list = <<>> THEN {} ELSE {member}
      /\ list # <<>> => Len(b[member].v) = Len(list)
  BY <1>6, <1>m DEF ArrayOf
<1> QED BY <1>7, <1>8 DEF b, member

\* The members of a component that are shown (BuildVersionComponent).
LEMMA ComponentMembers ==
  ASSUME NEW c
  PROVE  /\ BuildVersionComponent(c).componentId = SetString(c.componentId)
         /\ BuildVersionComponent(c).innerVersion = SetString(c.innerVersion)
         /\ BuildVersionComponent(c).size = SetInt32(c.size)
<1> DEFINE head == [componentId |-> SetString(c.componentId),
                    componentType |-> SetInt32(c.componentType),
                    upgradeAction |-> SetString(c.upgradeAction),
                    displayVersion |-> SetString(c.displayVersion),
                    innerVersion |-> SetString(c.innerVersion), size |-> SetInt32(c.size),
                    effectiveMode |-> SetInt32(c.effectiveMode),
                    componentExtra |-> SetString(c.componentExtra)]
<1>1. BuildVersionComponent(c) = head ++ BuildDescInfo(c)
  BY DEF BuildVersionComponent
<1>2. /\ {"componentId", "innerVersion", "size"} \subseteq DOMAIN head
      /\ head["componentId"] = SetString(c.componentId)
      /\ head["innerVersion"] = SetString(c.innerVersion)
      /\ head["size"] = SetInt32(c.size)
  OBVIOUS
<1> HIDE DEF head
<1> QED BY <1>1, <1>2, MergeKeeps

\* So is every component, with its identity and version (BuildVersionComponents).
LEMMA ComponentsShown ==
  ASSUME NEW list, ComponentsAsDeclared(list), NEW read, SameComponents(list, read)
  PROVE  LET b == BuildVersionComponents(read) IN
         /\ DOMAIN b \subseteq {"versionComponents"}
         /\ list # <<>> => "versionComponents" \in DOMAIN b
         /\ Shows(list, "componentId", b, "versionComponents")
         /\ Shows(list, "innerVersion", b, "versionComponents")
<1> DEFINE b == BuildVersionComponents(read)
<1>1. /\ DOMAIN b = IF list = <<>> THEN {} ELSE {"versionComponents"}
      /\ list # <<>> => Len(b["versionComponents"].v) = Len(list)
      /\ \A i \in DOMAIN list : b["versionComponents"].v[i].v = BuildVersionComponent(read[i])
  BY ComponentsBuilt
<1> HIDE DEF b
<1>2. ASSUME NEW i \in DOMAIN list
      PROVE  /\ BuildVersionComponent(read[i])["componentId"].v = list[i]["componentId"]
             /\ BuildVersionComponent(read[i])["innerVersion"].v = list[i]["innerVersion"]
  <2>1. /\ read[i]["componentId"] = list[i]["componentId"]
        /\ read[i]["innerVersion"] = list[i]["innerVersion"]
    BY ListNames DEF SameComponents
  <2>2. \A x : SetString(x).v = x
    BY DEF SetString, Js
  <2>3. /\ BuildVersionComponent(read[i])["componentId"] = SetString(read[i]["componentId"])
        /\ BuildVersionComponent(read[i])["innerVersion"] = SetString(read[i]["innerVersion"])
    BY ComponentMembers
  <2> QED BY <2>1, <2>2, <2>3
<1>3. /\ Shows(list, "componentId", b, "versionComponents")
      /\ Shows(list, "innerVersion", b, "versionComponents")
  BY <1>1, <1>2 DEF Shows
<1> QED BY <1>1, <1>3 DEF b

\* An error is read as it was written (WriteBusinessError, ReadBusinessError).
LEMMA BusinessErrorArrives ==
  ASSUME NEW err, ErrorsAsDeclared(err.data), NEW tail, IsSeq(tail),
         NEW r, r = ReadBusinessError(WriteBusinessError(err) \o tail)
  PROVE  /\ r.v.message = err.message /\ r.v.errorNum = err.errorNum /\ r.v.data = err.data
         /\ r.rest = tail
         /\ IsSeq(WriteBusinessError(err))
<1> DEFINE head == <<err.message, err.errorNum>>
           list == WriteErrorMessages(err.data)
           rest == list \o tail
           p == head \o rest
<1>1. IsSeq(list) /\ IsSeq(head) /\ IsSeq(list \o tail)
  BY ErrorsArrive, TwoIsSeq, JoinIsSeq
<1>2. WriteBusinessError(err) \o tail = p /\ IsSeq(WriteBusinessError(err))
  BY <1>1, JoinAssociates, JoinIsSeq DEF WriteBusinessError
<1>4. ReadErrorMessages(rest).v = err.data /\ ReadErrorMessages(rest).rest = tail
  BY ErrorsArrive
<1>r. IsSeq(rest)
  BY <1>1
<1> HIDE DEF list, rest
<1>3. CellAt(p, 1) = err.message /\ CellAt(p, 2) = err.errorNum /\ Drop(p, 2) = rest
  BY <1>r, CellsRead
<1> HIDE DEF p
<1>5. ReadBusinessError(p) = [v |-> [message |-> err.message, errorNum |-> err.errorNum,
                                     data |-> err.data], rest |-> tail]
  BY <1>3, <1>4 DEF ReadBusinessError
<1> QED BY <1>2, <1>5

\* Components at the end of a parcel.
LEMMA LastComponentsArrive ==
  ASSUME NEW list, IsListOf(list, VersionComponent)
  PROVE  SameComponents(list, ReadVersionComponents(WriteVersionComponents(list)).v)
<1> DEFINE cells == WriteVersionComponents(list)
<1>1. IsSeq(cells)
  BY ComponentsArrive, EmptyIsSeq
<1>2. SameComponents(list, ReadVersionComponents(cells \o <<>>).v)
  BY ComponentsArrive, EmptyIsSeq
<1> HIDE DEF cells
<1>3. cells \o <<>> = cells
  <2>1. PICK S : cells \in Seq(S)
    BY <1>1 DEF IsSeq
  <2> QED BY <2>1
<1> QED BY <1>2, <1>3 DEF cells

\* A check result is read as it was written (WriteCheckResult, ReadCheckResult).
LEMMA CheckResultArrives ==
  ASSUME NEW r, IsListOf(r.newVersionInfo.versionComponents, VersionComponent)
  PROVE  LET read == ReadCheckResult(WriteCheckResult(r)).v IN
         /\ read.isExistNewVersion = r.isExistNewVersion
         /\ SameComponents(r.newVersionInfo.versionComponents,
                           read.newVersionInfo.versionComponents)
         /\ IsSeq(WriteCheckResult(r))
<1> DEFINE list == r.newVersionInfo.versionComponents
           cells == WriteVersionComponents(list)
           digest == r.newVersionInfo.versionDigest
           info == <<digest>> \o cells
           p == <<r.isExistNewVersion>> \o info
<1>1. IsSeq(cells)
  BY ComponentsArrive, EmptyIsSeq
<1>2. SameComponents(list, ReadVersionComponents(cells).v)
  BY LastComponentsArrive
<1>3. WriteCheckResult(r) = p
  BY DEF WriteCheckResult, WriteNewVersionInfo
<1> HIDE DEF cells
<1>4. IsSeq(info) /\ Drop(info, 1) = cells
  BY <1>1, OneIsSeq, JoinIsSeq, CellRead
<1> HIDE DEF info
<1>5. CellAt(p, 1) = r.isExistNewVersion /\ Drop(p, 1) = info /\ IsSeq(p)
  BY <1>4, OneIsSeq, JoinIsSeq, CellRead
<1> HIDE DEF p, list
<1>6. ReadNewVersionInfo(info).v.versionComponents = ReadVersionComponents(cells).v
  BY <1>4 DEF ReadNewVersionInfo
<1>7. /\ ReadCheckResult(p).v.isExistNewVersion = r.isExistNewVersion
      /\ ReadCheckResult(p).v.newVersionInfo = ReadNewVersionInfo(info).v
  BY <1>5 DEF ReadCheckResult
<1> QED BY <1>2, <1>3, <1>5, <1>6, <1>7 DEF list

\* What JavaScript is shown of a check result or of its error (OnCheckVersionDone).
CheckShown(p, seen) ==
  /\ seen.kind = "result" =>
       /\ seen.js.v.isExistNewVersion.v = p.result.isExistNewVersion
       /\ seen.js.v.isExistNewVersion.v = 1 =>
            Shows(p.result.newVersionInfo.versionComponents, "componentId",
                  seen.js.v.newVersionInfo.v, "versionComponents")
  /\ seen.kind = "error" => Shows(p.err.data, "errorCode", seen.js.v, "data")

LEMMA ErrorObjectShown ==
  ASSUME NEW err, ErrorsAsDeclared(err.data)
  PROVE  Shows(err.data, "errorCode", ErrorObject(err).v, "data")
<1> DEFINE f == [message |-> SetString(err.message),
                 code |-> SetInt32(ConvertToErrorCode(err.errorNum))]
           g == BuildErrorMessages("data", err.data)
<1>1. ErrorObject(err).v = f ++ g
  BY DEF ErrorObject, Js
<1>2. "data" \notin DOMAIN f
  OBVIOUS
<1>3. (err.data # <<>> => "data" \in DOMAIN g) /\ Shows(err.data, "errorCode", g, "data")
  BY ErrorsShown
<1> HIDE DEF f, g
<1> QED BY <1>1, <1>2, <1>3, ShowsJoined

LEMMA CheckResultShown ==
  ASSUME NEW r, NEW list, ComponentsAsDeclared(list),
         SameComponents(list, r.newVersionInfo.versionComponents)
  PROVE  LET o == BuildCheckResult(r).v IN
         /\ o.isExistNewVersion.v = r.isExistNewVersion
         /\ o.isExistNewVersion.v = 1 =>
              Shows(list, "componentId", o.newVersionInfo.v, "versionComponents")
<1> DEFINE f == [isExistNewVersion |-> SetBool(r.isExistNewVersion)]
           new == NewVersion(r.newVersionInfo)
           g == IF r.isExistNewVersion = 1 THEN [newVersionInfo |-> Js("object", new)]
                ELSE NoProperties
           o == BuildCheckResult(r).v
           d == BuildVersionDigestInfo(r.newVersionInfo.versionDigest)
           b == BuildVersionComponents(r.newVersionInfo.versionComponents)
<1>1. o = f ++ g
  BY DEF BuildCheckResult, Js
<1>2. DOMAIN f = {"isExistNewVersion"} /\ f["isExistNewVersion"].v = r.isExistNewVersion
  BY DEF SetBool, Js
<1>3. new = d ++ b
  BY DEF NewVersion
<1>4. "versionComponents" \notin DOMAIN d
  BY DEF BuildVersionDigestInfo
<1>5. /\ list # <<>> => "versionComponents" \in DOMAIN b
      /\ Shows(list, "componentId", b, "versionComponents")
  BY ComponentsShown
<1> HIDE DEF d, b
<1>6. Shows(list, "componentId", new, "versionComponents")
  BY <1>3, <1>4, <1>5, ShowsJoined
<1> HIDE DEF new
<1>7. r.isExistNewVersion = 1 =>
        "newVersionInfo" \in DOMAIN g /\ g["newVersionInfo"].v = new
  BY DEF Js
<1> HIDE DEF f, g, o
<1>8. o["isExistNewVersion"].v = r.isExistNewVersion
  BY <1>1, <1>2, MergeKeeps
<1>9. r.isExistNewVersion = 1 => o["newVersionInfo"].v = new
  BY <1>1, <1>2, <1>7, MergeAdds
<1> QED BY <1>6, <1>8, <1>9 DEF o

LEMMA CheckPushShown ==
  ASSUME NEW p, ErrorsAsDeclared(p.err.data),
         ComponentsAsDeclared(p.result.newVersionInfo.versionComponents)
  PROVE  CheckShown(p, OnCheckVersionDone(p))
<1> DEFINE data == WriteBusinessError(p.err) \o WriteCheckResult(p.result)
           err == ReadBusinessError(data)
           read == ReadCheckResult(WriteCheckResult(p.result)).v
           seen == OnCheckVersionDone(p)
           list == p.result.newVersionInfo.versionComponents
<1>1. /\ IsSeq(WriteCheckResult(p.result))
      /\ read.isExistNewVersion = p.result.isExistNewVersion
      /\ SameComponents(list, read.newVersionInfo.versionComponents)
  BY CheckResultArrives DEF ComponentsAsDeclared
<1>2. err.v.data = p.err.data /\ err.rest = WriteCheckResult(p.result)
  BY <1>1, BusinessErrorArrives
<1>3. /\ seen.kind = IF IsErrorExist(err.v) THEN "error" ELSE "result"
      /\ seen.js = IF IsErrorExist(err.v) THEN BuildBusinessError(err.v)
                   ELSE BuildCheckResult(read)
  <2>1. seen = [kind |-> IF IsErrorExist(err.v) THEN "error" ELSE "result",
                js |-> IF IsErrorExist(err.v) THEN BuildBusinessError(err.v)
                       ELSE BuildCheckResult(ReadCheckResult(err.rest).v)]
    BY DEF OnCheckVersionDone
  <2> QED BY <1>2, <2>1
<1> HIDE DEF err, read, seen, data
<1>4. CASE IsErrorExist(err.v)
  <2>1. seen.js = ErrorObject(err.v)
    BY <1>3, <1>4 DEF BuildBusinessError
  <2>2. Shows(p.err.data, "errorCode", ErrorObject(err.v).v, "data")
    BY <1>2, ErrorObjectShown
  <2> QED BY <1>3, <1>4, <2>1, <2>2 DEF CheckShown, seen
<1>5. CASE ~IsErrorExist(err.v)
  <2>1. seen.kind = "result" /\ seen.js = BuildCheckResult(read)
    BY <1>3, <1>5
  <2> DEFINE o == BuildCheckResult(read).v
  <2>2. /\ o.isExistNewVersion.v = read.isExistNewVersion
        /\ o.isExistNewVersion.v = 1 =>
              Shows(list, "componentId", o.newVersionInfo.v, "versionComponents")
    BY <1>1, CheckResultShown
  <2> HIDE DEF o
  <2>3. seen.js.v = o
    BY <2>1 DEF o
  <2>4. CheckShown(p, seen)
    BY <1>1, <2>1, <2>2, <2>3 DEF CheckShown
  <2> QED BY <2>4 DEF seen
<1> QED BY <1>4, <1>5

\* The members of a task body that are shown as numbers.
Numbers == {"status", "subStatus", "progress", "installMode"}

\* What is read of a task body that was written (WriteTaskBody, ReadTaskBody).
SameBody(body, read) ==
  /\ \A n \in Numbers \union {"versionDigest", "errorMessages"} : read[n] = body[n]
  /\ SameComponents(body.versionComponents, read.versionComponents)

LEMMA TaskBodyArrives ==
  ASSUME NEW body, ErrorsAsDeclared(body.errorMessages),
         IsListOf(body.versionComponents, VersionComponent)
  PROVE  SameBody(body, ReadTaskBody(WriteTaskBody(body)).v) /\ IsSeq(WriteTaskBody(body))
<1> DEFINE errors == body.errorMessages
           list == body.versionComponents
           ecells == WriteErrorMessages(errors)
           ccells == WriteVersionComponents(list)
           hcells == Cells(body, TaskHead)
           rest == ecells \o ccells
           p == hcells \o rest
           head == Struct(p, TaskHead)
           lists == [errorMessages |-> errors,
                     versionComponents |-> ReadVersionComponents(ccells).v]
           read == ReadTaskBody(p).v
<1>1. IsSeq(ccells) /\ SameComponents(list, ReadVersionComponents(ccells).v)
  BY ComponentsArrive, EmptyIsSeq, LastComponentsArrive
<1>2. /\ IsSeq(ecells) /\ ReadErrorMessages(rest).v = errors
      /\ ReadErrorMessages(rest).rest = ccells
  BY <1>1, ErrorsArrive
<1>3. IsSeq(hcells)
  BY ListNames, CellsAreSeq
<1>4. IsSeq(rest) /\ IsSeq(p)
  <2> HIDE DEF ecells, ccells, hcells
  <2>1. IsSeq(rest)
    BY <1>1, <1>2, JoinIsSeq
  <2> QED BY <1>3, <2>1, JoinIsSeq
<1>5. WriteTaskBody(body) = p
  BY <1>1, <1>2, <1>3, JoinAssociates DEF WriteTaskBody
<1>6. /\ \A n \in Range(TaskHead) : head.v[n] = body[n]
      /\ head.rest = rest
  <2> HIDE DEF rest
  <2> QED BY <1>4, ListNames, StructArrives
<1>7. DOMAIN head.v = Range(TaskHead)
  BY DEF Struct
<1>8. read = head.v ++ lists
  <2> HIDE DEF rest, head, ccells, errors, p
  <2> QED BY <1>2, <1>6 DEF ReadTaskBody, head, lists
<1>9. /\ DOMAIN lists = {"errorMessages", "versionComponents"}
      /\ lists["errorMessages"] = errors
      /\ lists["versionComponents"] = ReadVersionComponents(ccells).v
  OBVIOUS
<1>10. Range(TaskHead) = Numbers \union {"versionDigest"}
  BY ListNames DEF Numbers
<1>11. "errorMessages" \notin Range(TaskHead) /\ "versionComponents" \notin Range(TaskHead)
  BY <1>10 DEF Numbers
<1> HIDE DEF head, lists, read, p, ccells
<1>12. \A n \in Range(TaskHead) : read[n] = body[n]
  BY <1>6, <1>7, <1>8, MergeKeeps
<1>13. read["errorMessages"] = errors /\ read["versionComponents"] = ReadVersionComponents(ccells).v
  BY <1>7, <1>8, <1>9, <1>11, MergeAdds
<1>14. SameBody(body, read)
  BY <1>1, <1>10, <1>12, <1>13 DEF SameBody
<1> QED BY <1>4, <1>5, <1>14 DEF read

\* So is an event (WriteEventInfo, ReadEventInfo).
LEMMA EventArrives ==
  ASSUME NEW e, ErrorsAsDeclared(e.taskBody.errorMessages),
         IsListOf(e.taskBody.versionComponents, VersionComponent)
  PROVE  LET read == ReadEventInfo(WriteEventInfo(e)).v IN
         read.eventId = e.eventId /\ SameBody(e.taskBody, read.taskBody)
<1> DEFINE cells == WriteTaskBody(e.taskBody)
           p == <<e.eventId>> \o cells
<1>1. IsSeq(cells) /\ SameBody(e.taskBody, ReadTaskBody(cells).v)
  BY TaskBodyArrives
<1>2. WriteEventInfo(e) = p
  BY DEF WriteEventInfo
<1> HIDE DEF cells
<1>3. CellAt(p, 1) = e.eventId /\ Drop(p, 1) = cells
  BY <1>1, CellRead
<1> HIDE DEF p
<1>4. ReadEventInfo(p).v.eventId = e.eventId /\ ReadEventInfo(p).v.taskBody = ReadTaskBody(cells).v
  BY <1>3 DEF ReadEventInfo
<1> QED BY <1>1, <1>2, <1>4

\* What JavaScript is shown of a task body (BuildTaskBody).
BodyShown(body, visible) ==
  \A n \in DOMAIN visible :
    CASE n = "versionDigestInfo" -> visible[n].v.versionDigest.v = body.versionDigest
      [] n = "errorMessages" -> Shows(body.errorMessages, "errorCode", visible, n)
      [] n = "versionComponents" -> Shows(body.versionComponents, "innerVersion", visible, n)
      [] OTHER -> visible[n].v = body[n]

LEMMA TaskBodyShown ==
  ASSUME NEW body, ErrorsAsDeclared(body.errorMessages),
         ComponentsAsDeclared(body.versionComponents),
         \A n \in Numbers : IsInt32(body[n]),
         NEW read, SameBody(body, read),
         NEW names
  PROVE  LET all == BuildTaskBody(read).taskBody.v IN
         BodyShown(body, [n \in names \intersect DOMAIN all |-> all[n]])
<1> DEFINE f == [n \in {"status", "subStatus", "progress", "installMode"} |-> SetInt32(read[n])]
           d == BuildVersionDigestInfo(read.versionDigest)
           e == BuildErrorMessages("errorMessages", read.errorMessages)
           c == BuildVersionComponents(read.versionComponents)
           all == BuildTaskBody(read).taskBody.v
           k == names \intersect DOMAIN all
           visible == [n \in k |-> all[n]]
<1>1. all = f ++ d ++ e ++ c
  BY DEF BuildTaskBody, Js
<1>2. DOMAIN f = Numbers /\ \A n \in Numbers : f[n].v = body[n]
  BY Int32Shown DEF Numbers, SameBody
<1>3. DOMAIN d = {"versionDigestInfo"} /\ d["versionDigestInfo"].v.versionDigest.v = body.versionDigest
  BY DEF BuildVersionDigestInfo, SetString, Js, SameBody, Numbers
<1>4. read.errorMessages = body.errorMessages
  BY DEF SameBody, Numbers
<1>5. /\ DOMAIN e \subseteq {"errorMessages"}
      /\ body.errorMessages # <<>> => "errorMessages" \in DOMAIN e
      /\ Shows(body.errorMessages, "errorCode", e, "errorMessages")
  BY <1>4, ErrorsShown
<1>6. /\ DOMAIN c \subseteq {"versionComponents"}
      /\ body.versionComponents # <<>> => "versionComponents" \in DOMAIN c
      /\ Shows(body.versionComponents, "innerVersion", c, "versionComponents")
  BY ComponentsShown DEF SameBody
<1> HIDE DEF f, d, e, c
<1> DEFINE g == f ++ d
           h == g ++ e
<1>7. DOMAIN g = DOMAIN f \union DOMAIN d
  BY DEF ++
<1>8. /\ \A n \in Numbers : g[n].v = body[n]
      /\ g["versionDigestInfo"].v.versionDigest.v = body.versionDigest
  <2>1. \A n \in Numbers : g[n] = f[n]
    BY <1>2, MergeKeeps
  <2>2. g["versionDigestInfo"] = d["versionDigestInfo"]
    BY <1>2, <1>3, MergeAdds DEF Numbers
  <2> QED BY <1>2, <1>3, <2>1, <2>2
<1>9. Numbers \union {"versionDigestInfo"} = DOMAIN g
  BY <1>2, <1>3, <1>7
<1> HIDE DEF g
<1>10. DOMAIN h = DOMAIN g \union DOMAIN e
  BY DEF ++
<1>11. \A n \in DOMAIN g : h[n] = g[n]
  BY MergeKeeps
<1>12. /\ Shows(body.errorMessages, "errorCode", h, "errorMessages")
       /\ body.errorMessages # <<>> => "errorMessages" \in DOMAIN h
  BY <1>5, <1>9, ShowsJoined DEF Numbers
<1> HIDE DEF h
<1>13. all = h ++ c
  BY <1>1 DEF g, h
<1>14. DOMAIN all = DOMAIN h \union DOMAIN c
  BY <1>13 DEF ++
<1>15. \A n \in DOMAIN h : all[n] = h[n]
  BY <1>13, MergeKeeps
<1>16. Shows(body.errorMessages, "errorCode", all, "errorMessages")
  BY <1>6, <1>12, <1>13, ShowsFirst
<1>17. Shows(body.versionComponents, "innerVersion", all, "versionComponents")
  BY <1>5, <1>6, <1>9, <1>10, <1>13, ShowsJoined DEF Numbers
<1>18. DOMAIN all \subseteq Numbers \union {"versionDigestInfo", "errorMessages", "versionComponents"}
  BY <1>5, <1>6, <1>9, <1>10, <1>14
<1> HIDE DEF all
<1>19. k \subseteq DOMAIN all /\ DOMAIN visible = k /\ \A n \in k : visible[n] = all[n]
  OBVIOUS
<1> HIDE DEF k, visible
<1>20. ASSUME NEW n \in DOMAIN visible
       PROVE  CASE n = "versionDigestInfo" -> visible[n].v.versionDigest.v = body.versionDigest
                [] n = "errorMessages" -> Shows(body.errorMessages, "errorCode", visible, n)
                [] n = "versionComponents" -> Shows(body.versionComponents, "innerVersion", visible, n)
                [] OTHER -> visible[n].v = body[n]
  <2>0. n \in DOMAIN all /\ visible[n] = all[n] /\ DOMAIN visible \subseteq DOMAIN all
    BY <1>19, <1>20
  <2>1. CASE n = "versionDigestInfo"
    <3>1. all[n] = g[n]
      BY <1>9, <1>10, <1>11, <1>15, <2>1
    <3> QED BY <1>8, <2>0, <2>1, <3>1
  <2>2. CASE n = "errorMessages"
    <3>1. Shows(body.errorMessages, "errorCode", visible, n)
      BY <1>16, <2>0, <2>2 DEF Shows
    <3> QED BY <2>2, <3>1
  <2>3. CASE n = "versionComponents"
    <3>1. Shows(body.versionComponents, "innerVersion", visible, n)
      BY <1>17, <2>0, <2>3 DEF Shows
    <3> QED BY <2>3, <3>1
  <2>4. CASE n \in Numbers
    <3>1. all[n] = g[n]
      BY <1>9, <1>10, <1>11, <1>15, <2>4
    <3>2. visible[n].v = body[n]
      BY <1>8, <2>0, <2>4, <3>1
    <3>3. n # "versionDigestInfo" /\ n # "errorMessages" /\ n # "versionComponents"
      BY <2>4 DEF Numbers
    <3> QED BY <3>2, <3>3
  <2> QED BY <1>18, <2>0, <2>1, <2>2, <2>3, <2>4
<1>21. BodyShown(body, visible)
  BY <1>20 DEF BodyShown
<1> QED BY <1>21 DEF visible, k, all

\* What JavaScript is shown of an event (OnEvent).
EventShown(p, seen) ==
  seen.kind = "event" =>
    /\ seen.js.v.eventId.v = p.event.eventId
    /\ BodyShown(p.event.taskBody, seen.js.v.taskBody.v)

LEMMA EventPushShown ==
  ASSUME NEW p, IsInt32(p.event.eventId),
         ErrorsAsDeclared(p.event.taskBody.errorMessages),
         ComponentsAsDeclared(p.event.taskBody.versionComponents),
         \A n \in Numbers : IsInt32(p.event.taskBody[n])
  PROVE  EventShown(p, OnEvent(p))
<1> DEFINE body == p.event.taskBody
           event == ReadEventInfo(WriteEventInfo(p.event)).v
           id == event.eventId
           built == BuildEventInfo(event)
           visible == BuildEventTaskBody(id, event.taskBody)
           f == [eventId |-> SetInt32(id)]
           g == IF HasTemplate(id) THEN [taskBody |-> visible] ELSE NoProperties
           seen == OnEvent(p)
<1>1. id = p.event.eventId /\ SameBody(body, event.taskBody)
  BY EventArrives DEF ComponentsAsDeclared
<1>2. seen = [kind |-> IF built.ok THEN "event" ELSE "nothing", js |-> built.v]
  BY DEF OnEvent
<1>3. /\ built.ok = HasTemplate(id)
      /\ built.v.v = f ++ g
  BY DEF BuildEventInfo, Js
<1>4. seen.kind = "event" => HasTemplate(id)
  <2> HIDE DEF built, id
  <2> QED BY <1>2, <1>3
<1>5. seen.js.v = f ++ g
  <2> HIDE DEF built, f, g
  <2> QED BY <1>2, <1>3
<1>6. BodyShown(body, visible.v)
  <2> DEFINE all == BuildTaskBody(event.taskBody).taskBody.v
             names == TaskBodyTemplate(id)
  <2>1. visible.v = [n \in names \intersect DOMAIN all |-> all[n]]
    BY DEF BuildEventTaskBody, Js
  <2>2. BodyShown(body, [n \in names \intersect DOMAIN all |-> all[n]])
    <3> HIDE DEF event, names, id
    <3> QED BY <1>1, TaskBodyShown
  <2> QED BY <2>1, <2>2
<1>7. DOMAIN f = {"eventId"} /\ f["eventId"].v = p.event.eventId
  <2> HIDE DEF id
  <2> QED BY <1>1, Int32Shown
<1>8. HasTemplate(id) => "taskBody" \in DOMAIN g /\ g["taskBody"] = visible
  <2> HIDE DEF id, visible
  <2> QED OBVIOUS
<1> HIDE DEF f, g, seen, visible, event, id
<1>9. (f ++ g)["eventId"] = f["eventId"]
  BY <1>7, MergeKeeps
<1>10. HasTemplate(id) => (f ++ g)["taskBody"] = visible
  BY <1>7, <1>8, MergeAdds
<1>11. EventShown(p, seen)
  BY <1>4, <1>5, <1>6, <1>7, <1>9, <1>10 DEF EventShown
<1> QED BY <1>11 DEF seen

\* What was pushed last is one of the pushes of the service, and JavaScript was shown it.
PushInv ==
  \/ pushed.kind = "none"
  \/ \E p \in Pushed :
       /\ p.kind \in {"check", "event"} /\ pushed.kind = p.kind /\ pushed.sent = p
       /\ p.kind = "check" => CheckShown(p, pushed.seen)
       /\ p.kind = "event" => EventShown(p, pushed.seen)

LEMMA PushIsShown ==
  ASSUME PushedAsDeclared, NEW p \in Pushed, Push(p) PROVE PushInv'
<1> DEFINE seen == IF p.kind = "check" THEN OnCheckVersionDone(p) ELSE OnEvent(p)
<1>1. pushed' = [kind |-> p.kind, sent |-> p, seen |-> seen]
  BY DEF Push
<1>2. CASE p.kind = "check"
  <2>1. ErrorsAsDeclared(p.err.data) /\ ComponentsAsDeclared(p.result.newVersionInfo.versionComponents)
    BY <1>2 DEF PushedAsDeclared
  <2>2. CheckShown(p, seen)
    BY <1>2, <2>1, CheckPushShown
  <2> HIDE DEF seen
  <2>3. pushed'.kind = p.kind /\ pushed'.sent = p /\ pushed'.seen = seen
    BY <1>1
  <2> QED BY <1>2, <2>2, <2>3 DEF PushInv
<1>3. CASE p.kind # "check"
  <2>1. /\ p.kind = "event" /\ IsInt32(p.event.eventId)
        /\ ErrorsAsDeclared(p.event.taskBody.errorMessages)
        /\ ComponentsAsDeclared(p.event.taskBody.versionComponents)
        /\ \A n \in Numbers : IsInt32(p.event.taskBody[n])
    BY <1>3 DEF PushedAsDeclared, Numbers
  <2>2. EventShown(p, seen)
    BY <1>3, <2>1, EventPushShown
  <2> HIDE DEF seen
  <2>3. pushed'.kind = p.kind /\ pushed'.sent = p /\ pushed'.seen = seen
    BY <1>1
  <2> QED BY <2>1, <2>2, <2>3 DEF PushInv
<1> QED BY <1>2, <1>3

LEMMA PushInvStep ==
  ASSUME PushedAsDeclared, PushInv, [Next]_vars PROVE PushInv'
<1>1. CASE pushed' = pushed
  BY <1>1 DEF PushInv
<1>2. ASSUME NEW p \in Pushed, Push(p) PROVE PushInv'
  BY <1>2, PushIsShown
<1>3. pushed' = pushed \/ \E p \in Pushed : Push(p)
  BY DEF Next, vars, Call, OnRemoteRequest, TransportFails, CompleteWork, Forget, WorldChanges
<1> QED BY <1>1, <1>2, <1>3

\* It says what the property says.
LEMMA PushInvSuffices == PushInv => PushIntact
<1> SUFFICES ASSUME PushInv, pushed.kind # "none" PROVE PushIntact
  BY DEF PushIntact
<1>1. PICK p \in Pushed :
        /\ p.kind \in {"check", "event"} /\ pushed.kind = p.kind /\ pushed.sent = p
        /\ p.kind = "check" => CheckShown(p, pushed.seen)
        /\ p.kind = "event" => EventShown(p, pushed.seen)
  BY DEF PushInv
<1>2. CASE p.kind = "check"
  BY <1>1, <1>2 DEF PushIntact, CheckShown
<1>3. CASE p.kind = "event"
  BY <1>1, <1>3 DEF PushIntact, EventShown, BodyShown
<1> QED BY <1>1, <1>2, <1>3

\* Whatever check results and events the service pushes, JavaScript is shown what was sent: the
\* number of every error message, the identity or the version of every component, in their order,
\* and no list that is empty, for every list a parcel takes and every event with a template
\* (update_callback_proxy.cpp, update_callback_stub.cpp, client_helper.cpp).
THEOREM PushAlwaysIntact ==
  ASSUME PushedAsDeclared PROVE Spec => []PushIntact
<1>1. Init => PushInv
  BY DEF Init, PushInv
<1>2. PushInv /\ [Next]_vars => PushInv'
  BY PushInvStep
<1>3. PushInv => PushIntact
  BY PushInvSuffices
<1> QED BY <1>1, <1>2, <1>3, PTL DEF Spec

-----------------------------------------------------------------------------
(* Sums: FoldSet takes the elements in an order of its choice, which does   *)
(* not change the sum; the packages selected are as big together as those   *)
(* at the indices they are selected by.                                     *)

\* Induction: numbers that fail, but not the first nor one after a number that does not fail.
LEMMA NoneFails ==
  ASSUME NEW F \in SUBSET Nat, 0 \notin F, \A n \in Nat : n + 1 \in F => n \in F
  PROVE  F = {}
<1> SUFFICES ASSUME F # {} PROVE FALSE
  OBVIOUS
<1>1. PICK i \in F : \A j \in F : i <= j
  BY SmallestOf
<1>2. i \in Nat /\ i # 0 /\ i - 1 \in Nat /\ (i - 1) + 1 = i
  BY <1>1
<1>3. i - 1 \in F
  BY <1>1, <1>2
<1> QED BY <1>1, <1>2, <1>3

\* g sums w over the subsets of S, taking the element c chooses first: what the folds of the
\* community modules compute for a sum.
Picks(c, S) == \A s \in SUBSET S : s # {} => c[s] \in s
IsSum(g, w, S, c) ==
  g = [s \in SUBSET S |-> IF s = {} THEN 0 ELSE g[s \ {c[s]}] + w[c[s]]]
SumsUpTo(n, w, S, c) ==
  \E g : \A s \in SUBSET S : Cardinality(s) <= n =>
           g[s] = IF s = {} THEN 0 ELSE g[s \ {c[s]}] + w[c[s]]

\* There is such a sum.
LEMMA SumExists ==
  ASSUME NEW S, IsFiniteSet(S), NEW w, NEW c, Picks(c, S)
  PROVE  \E g : IsSum(g, w, S, c)
<1> DEFINE F == {n \in Nat : ~SumsUpTo(n, w, S, c)}
           V(g, s) == IF s = {} THEN 0 ELSE g[s \ {c[s]}] + w[c[s]]
<1>0. \A s \in SUBSET S : IsFiniteSet(s) /\ Cardinality(s) \in Nat
  BY FS_Subset, FS_CardinalityType
<1>1. 0 \notin F
  <2> DEFINE g == [s \in SUBSET S |-> 0]
  <2>1. \A s \in SUBSET S : Cardinality(s) <= 0 => s = {}
    BY <1>0, FS_EmptySet
  <2>2. \A s \in SUBSET S : Cardinality(s) <= 0 => g[s] = V(g, s)
    BY <2>1
  <2> QED BY <2>2 DEF SumsUpTo
<1>2. ASSUME NEW n \in Nat, SumsUpTo(n, w, S, c) PROVE SumsUpTo(n + 1, w, S, c)
  <2>1. PICK g : \A s \in SUBSET S : Cardinality(s) <= n => g[s] = V(g, s)
    BY <1>2 DEF SumsUpTo
  <2> DEFINE h == [s \in SUBSET S |-> IF Cardinality(s) <= n THEN g[s] ELSE V(g, s)]
  <2>2. ASSUME NEW s \in SUBSET S, Cardinality(s) <= n + 1 PROVE h[s] = V(h, s)
    <3>1. CASE s = {}
      <4>1. Cardinality(s) <= n
        BY <3>1, FS_EmptySet
      <4> QED BY <2>1, <3>1, <4>1
    <3>2. CASE s # {}
      <4> DEFINE t == s \ {c[s]}
      <4>1. c[s] \in s /\ t \in SUBSET S
        BY <3>2 DEF Picks
      <4>2. Cardinality(t) = Cardinality(s) - 1
        BY <1>0, <4>1, FS_RemoveElement
      <4>3. Cardinality(t) <= n
        BY <1>0, <2>2, <4>2
      <4>4. h[t] = g[t]
        BY <4>1, <4>3
      <4>5. h[s] = V(g, s)
        BY <2>1
      <4> QED BY <3>2, <4>4, <4>5
    <3> QED BY <3>1, <3>2
  <2> QED BY <2>2 DEF SumsUpTo
<1>3. F = {}
  BY <1>1, <1>2, NoneFails
<1>4. SumsUpTo(Cardinality(S), w, S, c)
  BY <1>0, <1>3
<1>5. PICK g : \A s \in SUBSET S : Cardinality(s) <= Cardinality(S) => g[s] = V(g, s)
  BY <1>4 DEF SumsUpTo
<1>6. \A s \in SUBSET S : g[s] = V(g, s)
  BY <1>5, FS_Subset
<1> DEFINE h == [s \in SUBSET S |-> g[s]]
<1>7. h = [s \in SUBSET S |-> V(h, s)]
  <2>1. ASSUME NEW s \in SUBSET S PROVE h[s] = V(h, s)
    <3>1. s \ {c[s]} \in SUBSET S
      OBVIOUS
    <3>2. h[s \ {c[s]}] = g[s \ {c[s]}]
      BY <3>1
    <3> QED BY <1>6, <3>2
  <2> QED BY <2>1
<1> QED BY <1>7 DEF IsSum

\* Whatever element of s is taken first, its sum is the same.
Splits(g, w, s) == g[s] \in Int /\ \A x \in s : g[s] = g[s \ {x}] + w[x]

LEMMA SplitsNext ==
  ASSUME NEW S, IsFiniteSet(S), NEW w, \A x \in S : w[x] \in Int, NEW c, Picks(c, S),
         NEW g, IsSum(g, w, S, c),
         NEW n \in Nat, \A s \in SUBSET S : Cardinality(s) < n => Splits(g, w, s),
         NEW s \in SUBSET S, Cardinality(s) = n
  PROVE  Splits(g, w, s)
<1>1. g[s] = IF s = {} THEN 0 ELSE g[s \ {c[s]}] + w[c[s]]
  BY DEF IsSum
<1>2. IsFiniteSet(s)
  BY FS_Subset
<1>3. \A x \in s : Cardinality(s \ {x}) = n - 1 /\ IsFiniteSet(s \ {x})
  BY <1>2, FS_RemoveElement
<1>4. \A x \in s : Splits(g, w, s \ {x})
  <2> SUFFICES ASSUME NEW x \in s PROVE Splits(g, w, s \ {x})
    OBVIOUS
  <2>1. Cardinality(s \ {x}) < n
    BY <1>3
  <2>2. s \ {x} \in SUBSET S
    OBVIOUS
  <2> DEFINE t == s \ {x}
  <2> HIDE DEF t
  <2>3. Cardinality(t) < n => Splits(g, w, t)
    BY <2>2 DEF t
  <2> QED BY <2>1, <2>3 DEF t
<1>5. CASE s = {}
  BY <1>1, <1>5 DEF Splits
<1>6. CASE s # {}
  <2>1. PICK y : y \in s /\ g[s] = g[s \ {y}] + w[y]
    BY <1>1, <1>6 DEF Picks
  <2>2. g[s \ {y}] \in Int /\ w[y] \in Int
    BY <1>4, <2>1 DEF Splits
  <2>3. g[s] \in Int
    BY <2>1, <2>2
  <2>4. ASSUME NEW x \in s PROVE g[s] = g[s \ {x}] + w[x]
    <3>1. CASE x = y
      BY <2>1, <3>1
    <3>2. CASE x # y
      <4> DEFINE b == (s \ {x}) \ {y}
      <4>1. y \in s \ {x} /\ x \in s \ {y} /\ (s \ {y}) \ {x} = b
        BY <2>1, <3>2
      <4>2. Splits(g, w, s \ {x}) /\ Splits(g, w, s \ {y})
        BY <1>4, <2>1
      <4>3. g[s \ {x}] = g[b] + w[y]
        BY <4>1, <4>2 DEF Splits
      <4>4. g[s \ {y}] = g[b] + w[x]
        BY <4>1, <4>2 DEF Splits
      <4>5. g[b] \in Int
        <5>1. Splits(g, w, b)
          <6>1. Cardinality(b) < n
            <7> DEFINE t == s \ {x}
            <7>1. IsFiniteSet(t) /\ Cardinality(t) = n - 1
              BY <1>3
            <7>2. y \in t /\ b = t \ {y}
              BY <4>1
            <7> HIDE DEF t
            <7>3. Cardinality(b) = (n - 1) - 1
              BY <7>1, <7>2, FS_RemoveElement
            <7> QED BY <7>3
          <6>2. b \in SUBSET S
            OBVIOUS
          <6> HIDE DEF b
          <6> QED BY <6>1, <6>2
        <5> QED BY <5>1 DEF Splits
      <4>6. w[x] \in Int /\ w[y] \in Int
        BY <2>2
      <4> DEFINE B == g[b]
                 W == w[x]
                 V == w[y]
      <4>7. g[s] = (B + W) + V /\ g[s \ {x}] = B + V /\ B \in Int /\ W \in Int /\ V \in Int
        BY <2>1, <4>3, <4>4, <4>5, <4>6
      <4> HIDE DEF B, V, W, b
      <4>8. g[s] = g[s \ {x}] + W
        BY <4>7
      <4> QED BY <4>8 DEF W
    <3> QED BY <3>1, <3>2
  <2> QED BY <2>3, <2>4 DEF Splits
<1> QED BY <1>5, <1>6

LEMMA SumSplits ==
  ASSUME NEW S, IsFiniteSet(S), NEW w, \A x \in S : w[x] \in Int, NEW c, Picks(c, S),
         NEW g, IsSum(g, w, S, c)
  PROVE  g[{}] = 0 /\ \A s \in SUBSET S : Splits(g, w, s)
<1> DEFINE F == {n \in Nat : \E s \in SUBSET S : Cardinality(s) <= n /\ ~Splits(g, w, s)}
<1>0. \A s \in SUBSET S : IsFiniteSet(s) /\ Cardinality(s) \in Nat
  BY FS_Subset, FS_CardinalityType
<1>1. \A n \in Nat : (\A s \in SUBSET S : Cardinality(s) < n => Splits(g, w, s)) =>
                       \A s \in SUBSET S : Cardinality(s) = n => Splits(g, w, s)
  BY SplitsNext
<1>2. 0 \notin F
  <2>1. \A s \in SUBSET S : ~(Cardinality(s) < 0)
    BY <1>0
  <2>2. \A s \in SUBSET S : Cardinality(s) = 0 => Splits(g, w, s)
    BY <1>1, <2>1
  <2>3. \A s \in SUBSET S : Cardinality(s) <= 0 => Cardinality(s) = 0
    BY <1>0
  <2> QED BY <2>2, <2>3
<1>3. \A n \in Nat : n + 1 \in F => n \in F
  <2> SUFFICES ASSUME NEW n \in Nat, n \notin F PROVE n + 1 \notin F
    OBVIOUS
  <2>1. \A s \in SUBSET S : Cardinality(s) < n + 1 => Splits(g, w, s)
    BY <1>0
  <2>2. \A s \in SUBSET S : Cardinality(s) = n + 1 => Splits(g, w, s)
    BY <1>1, <2>1
  <2>3. \A s \in SUBSET S : Cardinality(s) <= n + 1 => Cardinality(s) < n + 1 \/ Cardinality(s) = n + 1
    BY <1>0
  <2> QED BY <2>1, <2>2, <2>3
<1>4. F = {}
  <2> HIDE DEF F
  <2>1. F \in SUBSET Nat
    BY DEF F
  <2> QED BY <1>2, <1>3, <2>1, NoneFails
<1>5. \A s \in SUBSET S : Splits(g, w, s)
  BY <1>0, <1>4
<1>6. g[{}] = 0
  BY DEF IsSum
<1> QED BY <1>5, <1>6

\* Two sums of the same numbers are equal, in whatever order they are taken.
Numbered(n, I, f, v, w) ==
  /\ n \in Nat /\ IsFiniteSet(I)
  /\ f \in [1..n -> I] /\ \A j, k \in 1..n : f[j] = f[k] => j = k
  /\ {f[k] : k \in 1..n} = I
  /\ \A x \in I : w[x] \in Int
  /\ \A k \in 1..n : v[k] = w[f[k]]

LEMMA SumMapped ==
  ASSUME NEW n, NEW I, NEW f, NEW v, NEW w, Numbered(n, I, f, v, w),
         NEW c, Picks(c, I), NEW g, IsSum(g, w, I, c),
         NEW d, Picks(d, 1..n), NEW h, IsSum(h, v, 1..n, d)
  PROVE  h[1..n] = g[I]
<1> DEFINE Image(k) == {f[j] : j \in 1..k}
           Same(k) == h[1..k] = g[Image(k)]
           F == {k \in Nat : k <= n /\ ~Same(k)}
<1> USE DEF Numbered
<1>1. \A s \in SUBSET I : Splits(g, w, s)
  BY SumSplits
<1>2. g[{}] = 0
  BY SumSplits
<1>3. (\A s \in SUBSET (1..n) : Splits(h, v, s)) /\ h[{}] = 0
  <2>1. IsFiniteSet(1..n)
    BY FS_Interval
  <2>2. \A k \in 1..n : v[k] \in Int
    OBVIOUS
  <2> DEFINE N == 1..n
  <2>3. IsFiniteSet(N) /\ (\A k \in N : v[k] \in Int) /\ Picks(d, N) /\ IsSum(h, v, N, d)
    BY <2>1, <2>2
  <2> HIDE DEF N
  <2>4. (\A s \in SUBSET N : Splits(h, v, s)) /\ h[{}] = 0
    BY <2>3, SumSplits
  <2> QED BY <2>4 DEF N
<1>4. 0 \notin F
  <2>1. 1..0 = {} /\ Image(0) = {}
    OBVIOUS
  <2>2. Same(0)
    BY <1>2, <1>3, <2>1
  <2> QED BY <2>2
<1>5. \A k \in Nat : k + 1 \in F => k \in F
  <2> HIDE DEF Same
  <2> SUFFICES ASSUME NEW k \in Nat, k + 1 <= n, Same(k) PROVE Same(k + 1)
    OBVIOUS
  <2> USE DEF Same
  <2> DEFINE s == 1..(k + 1)
             t == Image(k + 1)
             x == f[k + 1]
             u == 1..k
  <2>1. s \in SUBSET (1..n) /\ k + 1 \in s /\ s \ {k + 1} = u
    OBVIOUS
  <2>2. t \in SUBSET I /\ x \in t /\ t \ {x} = Image(k)
    <3>1. k + 1 \in 1..n /\ 1..(k+1) \subseteq 1..n
      OBVIOUS
    <3>2. \A j \in 1..k : f[j] # x
      BY <3>1
    <3>3. t = Image(k) \union {x}
      OBVIOUS
    <3>4. x \notin Image(k)
      BY <3>2
    <3>5. t \in SUBSET I
      BY <3>1
    <3> HIDE DEF Image, t
    <3> QED BY <3>3, <3>4, <3>5
  <2>3. v[k + 1] = w[x]
    <3>1. k + 1 \in 1..n
      OBVIOUS
    <3> QED BY <3>1
  <2> HIDE DEF s, t, x, u, Image, Same, Numbered
  <2>4. h[s] = h[u] + v[k + 1]
    BY <1>3, <2>1 DEF Splits
  <2>5. g[t] = g[Image(k)] + w[x]
    BY <1>1, <2>2 DEF Splits
  <2>6. h[u] = g[Image(k)]
    BY DEF Same, u
  <2>7. h[s] = g[t]
    BY <2>3, <2>4, <2>5, <2>6
  <2> QED BY <2>7 DEF s, t, Same
<1>6. F = {}
  <2> HIDE DEF F
  <2>1. F \in SUBSET Nat
    BY DEF F
  <2> QED BY <1>4, <1>5, <2>1, NoneFails
<1>7. Same(n)
  <2> HIDE DEF Same
  <2> QED BY <1>6
<1> QED BY <1>7

\* The place of index i among the indices I, which Selected looks an element up by.
Place(i, I) == Cardinality({j \in I : j <= i})

LEMMA LaterPlaceDiffers ==
  ASSUME NEW I \in SUBSET Nat, IsFiniteSet(I), NEW i \in I, NEW k \in I, i <= k,
         Place(i, I) = Place(k, I)
  PROVE  i = k
<1> DEFINE s == {j \in I : j <= i}
           t == {j \in I : j <= k}
<1>1. \A j \in I : j <= i => j <= k
  <2>1. i \in Nat /\ k \in Nat /\ \A j \in I : j \in Nat
    OBVIOUS
  <2> QED BY <2>1
<1>2. s \in SUBSET t /\ t \in SUBSET I
  BY <1>1
<1>n. k \in t /\ \A j \in s : j <= i
  OBVIOUS
<1>3. Cardinality(s) = Cardinality(t)
  BY DEF Place
<1> HIDE DEF s, t
<1>4. s = t
  BY <1>2, <1>3, FS_Subset
<1>5. k <= i /\ i \in Nat /\ k \in Nat
  BY <1>n, <1>4
<1> QED BY <1>5

LEMMA PlacesDiffer ==
  ASSUME NEW I \in SUBSET Nat, IsFiniteSet(I), NEW i \in I, NEW k \in I, Place(i, I) = Place(k, I)
  PROVE  i = k
<1>1. i <= k \/ k <= i
  OBVIOUS
<1> QED BY <1>1, LaterPlaceDiffers

LEMMA PlaceIsIndex ==
  ASSUME NEW I \in SUBSET Nat, IsFiniteSet(I), NEW i \in I
  PROVE  Place(i, I) \in 1 .. Cardinality(I)
<1> DEFINE s == {j \in I : j <= i}
<1>1. s \in SUBSET I /\ s # {}
  OBVIOUS
<1> HIDE DEF s
<1>2. IsFiniteSet(s) /\ Cardinality(s) <= Cardinality(I)
  BY <1>1, FS_Subset
<1>3. Cardinality(s) \in Nat /\ Cardinality(s) # 0 /\ Cardinality(I) \in Nat
  BY <1>1, <1>2, FS_CardinalityType, FS_EmptySet
<1>4. Cardinality(s) \in 1 .. Cardinality(I)
  BY <1>2, <1>3
<1> QED BY <1>4 DEF Place, s

\* Every place up to the number of indices is that of an index.
LEMMA PlacesTaken ==
  ASSUME NEW I \in SUBSET Nat, IsFiniteSet(I)
  PROVE  \A k \in 1 .. Cardinality(I) : \E i \in I : Place(i, I) = k
<1> DEFINE n == Cardinality(I)
           f == [i \in I |-> Place(i, I)]
           T == 1..n
<1>1. n \in Nat
  BY FS_CardinalityType
<1>2. f \in Injection(I, T)
  <2>1. f \in [I -> T]
    BY PlaceIsIndex
  <2>2. \A i, k \in I : f[i] = f[k] => i = k
    BY PlacesDiffer
  <2> QED BY <2>1, <2>2 DEF Injection, IsInjective
<1>3. IsFiniteSet(T) /\ Cardinality(I) = Cardinality(T)
  BY <1>1, FS_Interval
<1>4. f \in Surjection(I, T)
  <2> HIDE DEF T, f
  <2> QED BY <1>2, <1>3, FS_Injection
<1>5. \A k \in T : \E i \in I : f[i] = k
  BY <1>4 DEF Surjection
<1> QED BY <1>5

\* What is selected, by the indices in their order (Selected).
SelectedBy(f, list, I) ==
  /\ f \in [1 .. Cardinality(I) -> I]
  /\ \A j, k \in DOMAIN f : f[j] = f[k] => j = k
  /\ {f[k] : k \in DOMAIN f} = I
  /\ Selected(list, I) = [k \in 1 .. Cardinality(I) |-> list[f[k]]]

LEMMA SelectedInOrder ==
  ASSUME NEW list, NEW I \in SUBSET Nat, IsFiniteSet(I)
  PROVE  \E f : SelectedBy(f, list, I)
<1> DEFINE n == Cardinality(I)
           f == [k \in 1..n |-> CHOOSE i \in I : Place(i, I) = k]
<1>1. n \in Nat
  BY FS_CardinalityType
<1>2. \A k \in 1..n : f[k] \in I /\ Place(f[k], I) = k
  BY PlacesTaken
<1>4. Selected(list, I) = [k \in 1..n |-> list[f[k]]]
  BY DEF Selected, Place
<1>5. DOMAIN f = 1..n /\ f \in [1..n -> I]
  BY <1>2
<1> HIDE DEF f
<1>6. \A j, k \in DOMAIN f : f[j] = f[k] => j = k
  BY <1>2, <1>5
<1>7. \A i \in I : \E k \in 1..n : f[k] = i
  <2> SUFFICES ASSUME NEW i \in I PROVE \E k \in 1..n : f[k] = i
    OBVIOUS
  <2> DEFINE k == Place(i, I)
  <2>1. k \in 1..n
    BY PlaceIsIndex
  <2>2. f[k] \in I /\ Place(f[k], I) = Place(i, I)
    BY <1>2, <2>1
  <2>3. f[k] = i
    <3> DEFINE x == f[k]
    <3> HIDE DEF x, k
    <3>1. x \in I /\ Place(x, I) = Place(i, I)
      BY <2>2 DEF x
    <3>2. x = i
      BY <3>1, PlacesDiffer
    <3> QED BY <3>2 DEF x
  <2> QED BY <2>1, <2>3
<1>8. {f[k] : k \in DOMAIN f} = I
  BY <1>2, <1>5, <1>7
<1>9. SelectedBy(f, list, I)
  BY <1>4, <1>5, <1>6, <1>8 DEF SelectedBy
<1> QED BY <1>9

\* A set of indices has a greatest one.
LEMMA GreatestOf ==
  ASSUME NEW n \in Nat, NEW s \in SUBSET (1..n), s # {}
  PROVE  Max(s) \in s
<1> DEFINE D == {n - i : i \in s}
<1>0. \A i \in s : i \in Nat /\ n - i \in Nat
  OBVIOUS
<1>1. D \in SUBSET Nat /\ D # {}
  BY <1>0
<1> HIDE DEF D
<1>2. PICK k \in D : \A j \in D : k <= j
  BY <1>1, SmallestOf
<1>3. PICK i \in s : k = n - i
  BY DEF D
<1>4. \A j \in s : i >= j
  <2> SUFFICES ASSUME NEW j \in s PROVE i >= j
    OBVIOUS
  <2>1. n - i <= n - j
    BY <1>2, <1>3 DEF D
  <2>2. i \in Nat /\ j \in Nat
    OBVIOUS
  <2> QED BY <2>1, <2>2
<1>5. \E x \in s : \A y \in s : x >= y
  BY <1>4
<1> QED BY <1>5 DEF Max

\* The size of a list of packages (BuildHotaVersionComponent), and of those at some indices of one.
SizeOf(list) == FoldLeft(LAMBDA total, c : total + c.size, 0, list)
SizeAt(list, I) == FoldSet(LAMBDA i, total : total + list[i].size, 0, I)

\* The packages selected are as big together as those at the indices.
LEMMA SelectedSize ==
  ASSUME NEW list, NEW I \in SUBSET Nat, IsFiniteSet(I), \A i \in I : list[i].size \in Int
  PROVE  SizeOf(Selected(list, I)) = SizeAt(list, I)
<1> DEFINE n == Cardinality(I)
           N == 1..n
           sel == Selected(list, I)
           w == [i \in I |-> list[i].size]
           v == [k \in N |-> sel[k].size]
           c == [s \in SUBSET I |-> CHOOSE x \in s : TRUE]
           d == [s \in SUBSET N |-> Max(s)]
           g == CHOOSE h : h = [s \in SUBSET I |-> IF s = {} THEN 0
                                  ELSE h[s \ {CHOOSE x \in s : TRUE}] + list[CHOOSE x \in s : TRUE].size]
           h == CHOOSE e : e = [s \in SUBSET DOMAIN sel |-> IF s = {} THEN 0
                                  ELSE e[s \ {Max(s)}] + sel[Max(s)].size]
<1>1. SizeAt(list, I) = g[I]
  BY DEF SizeAt, FoldSet, MapThenFoldSet
<1>2. SizeOf(sel) = h[DOMAIN sel]
  BY DEF SizeOf, FoldLeft, MapThenFoldSet
<1>3. DOMAIN sel = N /\ n \in Nat
  BY FS_CardinalityType DEF Selected
<1>4. PICK f : SelectedBy(f, list, I)
  BY SelectedInOrder
<1>5. f \in [N -> I] /\ (\A j, k \in N : f[j] = f[k] => j = k) /\ {f[k] : k \in N} = I
  BY <1>4 DEF SelectedBy
<1>6. \A k \in N : v[k] = w[f[k]]
  BY <1>4, <1>5 DEF SelectedBy
<1>7. Picks(c, I)
  BY DEF Picks
<1>8. Picks(d, N)
  BY <1>3, GreatestOf DEF Picks
<1>9. IsSum(g, w, I, c)
  <2>1. \A s \in SUBSET I : c[s] = CHOOSE x \in s : TRUE
    OBVIOUS
  <2> DEFINE First(s) == CHOOSE x \in s : TRUE
             A(e, s) == IF s = {} THEN 0 ELSE e[s \ {First(s)}] + list[First(s)].size
             B(e, s) == IF s = {} THEN 0 ELSE e[s \ {c[s]}] + w[c[s]]
             Sum(e) == [s \in SUBSET I |-> A(e, s)]
  <2>2. ASSUME NEW s \in SUBSET I, s # {} PROVE list[First(s)].size = w[First(s)]
    <3>1. First(s) \in I
      BY <2>2
    <3> HIDE DEF First
    <3> QED BY <3>1
  <2>s. \A e : \A s \in SUBSET I : A(e, s) = B(e, s)
    <3> HIDE DEF w, c, First
    <3>1. \A s \in SUBSET I : s # {} => list[First(s)].size = w[First(s)]
      BY <2>2
    <3>2. \A s \in SUBSET I : c[s] = First(s)
      BY <2>1 DEF First
    <3> QED BY <3>1, <3>2
  <2>3. \A e : Sum(e) = [s \in SUBSET I |-> B(e, s)]
    <3> HIDE DEF A, B
    <3> QED BY <2>s
  <2>4. \A e : IsSum(e, w, I, c) <=> e = Sum(e)
    BY <2>3, Zenon DEF IsSum
  <2>5. \E e : e = Sum(e)
    <3> HIDE DEF w, c, Sum
    <3>1. \E e : IsSum(e, w, I, c)
      <4>1. \A x \in I : w[x] \in Int
        BY DEF w
      <4> QED BY <1>7, <4>1, SumExists
    <3> QED BY <2>4, <3>1
  <2>6. g = CHOOSE e : e = Sum(e)
    OBVIOUS
  <2>7. g = Sum(g)
    <3> HIDE DEF g, Sum
    <3> QED BY <2>5, <2>6, Zenon
  <2> HIDE DEF g, w, c, Sum
  <2> QED BY <2>4, <2>7
<1>10. IsSum(h, v, N, d)
  <2> DEFINE A(e, s) == IF s = {} THEN 0 ELSE e[s \ {Max(s)}] + sel[Max(s)].size
             B(e, s) == IF s = {} THEN 0 ELSE e[s \ {d[s]}] + v[d[s]]
             Sum(e) == [s \in SUBSET DOMAIN sel |-> A(e, s)]
  <2>1. \A s \in SUBSET N : d[s] = Max(s)
    OBVIOUS
  <2>2. \A s \in SUBSET N : s # {} => sel[Max(s)].size = v[Max(s)]
    <3> HIDE DEF sel
    <3>1. \A s \in SUBSET N : s # {} => Max(s) \in N
      BY <1>3, GreatestOf
    <3> QED BY <3>1
  <2>s. \A e : \A s \in SUBSET N : A(e, s) = B(e, s)
    <3> HIDE DEF v, d, sel
    <3> QED BY <2>1, <2>2
  <2>3. \A e : Sum(e) = [s \in SUBSET N |-> B(e, s)]
    <3> HIDE DEF A, B, sel, N
    <3> QED BY <1>3, <2>s
  <2>4. \A e : IsSum(e, v, N, d) <=> e = Sum(e)
    BY <2>3, Zenon DEF IsSum
  <2>5. \E e : e = Sum(e)
    <3>1. \A x \in N : v[x] \in Int
      <4> HIDE DEF N, v
      <4>1. \A x \in N : w[f[x]] \in Int
        BY <1>5
      <4> QED BY <1>6, <4>1
    <3>2. IsFiniteSet(N)
      BY <1>3, FS_Interval
    <3> HIDE DEF v, d, Sum, N
    <3>3. \E e : IsSum(e, v, N, d)
      BY <1>8, <3>1, <3>2, SumExists
    <3> QED BY <2>4, <3>3
  <2>6. h = CHOOSE e : e = Sum(e)
    OBVIOUS
  <2>7. h = Sum(h)
    <3> HIDE DEF h, Sum
    <3> QED BY <2>5, <2>6, Zenon
  <2> HIDE DEF h, v, d, Sum
  <2> QED BY <2>4, <2>7
<1>11. h[N] = g[I]
  <2>1. \A x \in I : w[x] \in Int
    OBVIOUS
  <2> HIDE DEF g, h, v, w, c, d
  <2> HIDE DEF n, sel
  <2>a. Numbered(n, I, f, v, w)
    BY <1>3, <1>5, <1>6, <2>1 DEF Numbered
  <2>b. Picks(d, 1..n) /\ IsSum(h, v, 1..n, d)
    BY <1>8, <1>10
  <2> QED BY <1>7, <1>9, <2>a, <2>b, SumMapped
<1>12. SizeOf(sel) = h[N]
  BY <1>2, <1>3
<1> QED
  <2> HIDE DEF g, h
  <2> QED BY <1>1, <1>11, <1>12

-----------------------------------------------------------------------------
(* UpdateCall: what a method shows is what the service holds.               *)

\* Nothing but setUpgradePolicy changes the switch.
LEMMA SwitchKept ==
  ASSUME NEW req, NEW out,
         \/ out \in CheckNewVersion(req) \/ out \in Download(req)
         \/ out \in PauseDownload(req) \/ out \in ResumeDownload(req)
         \/ out \in Upgrade(req) \/ out \in ClearError(req)
         \/ out \in TerminateUpgrade(req) \/ out \in Cancel(req)
         \/ out \in GetUpgradePolicy(req)
         \/ out \in GetNewVersionInfo(req) \/ out \in GetNewVersionDescription(req)
         \/ out \in GetCurrentVersionInfo(req) \/ out \in GetCurrentVersionDescription(req)
         \/ out \in GetTaskInfo(req) \/ out \in Kits(req)
         \/ out \in RegisterUpdateCallback(req) \/ out \in UnregisterUpdateCallback(req)
  PROVE  out.switch = autoDownload
<1>1. \A ret, err, value : Outcome(req, ret, err, value).switch = autoDownload
  BY DEF Outcome
<1>2. \A e : Answer(req, e).switch = autoDownload
  BY <1>1 DEF Answer
<1>3. out \in Managed(req) => out.switch = autoDownload
  BY <1>2 DEF Managed
<1>5. /\ out \in GetUpgradePolicyImpl(req) => out.switch = autoDownload
      /\ out \in GetNewVersionInfoImpl(req) => out.switch = autoDownload
      /\ out \in GetNewVersionDescriptionImpl(req) => out.switch = autoDownload
      /\ out \in GetCurrentVersionInfoImpl(req) => out.switch = autoDownload
      /\ out \in GetTaskInfoImpl(req) => out.switch = autoDownload
  BY <1>1 DEF GetUpgradePolicyImpl, GetNewVersionInfoImpl, GetNewVersionDescriptionImpl,
              GetCurrentVersionInfoImpl, GetTaskInfoImpl
<1>6. out \in GetCurrentVersionDescriptionImpl(req) => out.switch = autoDownload
  BY <1>1 DEF GetCurrentVersionDescriptionImpl
<1>7. /\ out \in CheckNewVersionImpl(req) => out.switch = autoDownload
      /\ out \in DownloadImpl(req) => out.switch = autoDownload
      /\ out \in CancelImpl(req) => out.switch = autoDownload
  BY <1>2, <1>3 DEF CheckNewVersionImpl, DownloadImpl, CancelImpl
<1> QED BY <1>1, <1>2, <1>3, <1>5, <1>6, <1>7
        DEF CheckNewVersion, Download, PauseDownload, ResumeDownload, Upgrade, ClearError,
            TerminateUpgrade, Cancel, GetUpgradePolicy, GetNewVersionInfo,
            GetNewVersionDescription, GetCurrentVersionInfo, GetCurrentVersionDescription,
            GetTaskInfo, Kits, RegisterUpdateCallback, UnregisterUpdateCallback, Online,
            UpgradeImpl, ClearErrorImpl, TerminateUpgradeImpl

\* A call that succeeds was answered by the implementation of its method, and the switch is what
\* setUpgradePolicy sets or stays.
AnsweredBy(m, out) ==
  LET req == out.asked IN
  /\ out.switch = IF m = "SetUpgradePolicy" /\ out.ret = SUCCESS THEN req.options.downloadStrategy
                  ELSE autoDownload
  /\ out.ret = SUCCESS =>
       /\ m = "SetUpgradePolicy" => out.err = NoError
       /\ m = "GetUpgradePolicy" => out \in GetUpgradePolicyImpl(req)
       /\ m = "GetNewVersionInfo" => out \in GetNewVersionInfoImpl(req)
       /\ m = "GetNewVersionDescription" => out \in GetNewVersionDescriptionImpl(req)
       /\ m = "GetCurrentVersionInfo" => out \in GetCurrentVersionInfoImpl(req)
       /\ m = "GetCurrentVersionDescription" => out \in GetCurrentVersionDescriptionImpl(req)
       /\ m = "GetTaskInfo" => out \in GetTaskInfoImpl(req)

\* A method that shows something is answered by its implementation (Online).
LEMMA ShowingAnswered ==
  ASSUME NEW m, NEW req, NEW out,
         \/ m = "GetUpgradePolicy" /\ out \in GetUpgradePolicy(req)
         \/ m = "GetNewVersionInfo" /\ out \in GetNewVersionInfo(req)
         \/ m = "GetNewVersionDescription" /\ out \in GetNewVersionDescription(req)
         \/ m = "GetCurrentVersionInfo" /\ out \in GetCurrentVersionInfo(req)
         \/ m = "GetCurrentVersionDescription" /\ out \in GetCurrentVersionDescription(req)
         \/ m = "GetTaskInfo" /\ out \in GetTaskInfo(req)
  PROVE  AnsweredBy(m, out)
<1>1. out.switch = autoDownload
  BY SwitchKept
<1>2. out.asked = req
  BY OutcomeAsks
<1>3. m # "SetUpgradePolicy"
  OBVIOUS
<1>4. out = Outcome(req, FAIL, NoError, <<>>) => out.ret # SUCCESS
  BY DEF Outcome, SUCCESS, FAIL
<1>5. CASE out = Outcome(req, FAIL, NoError, <<>>)
  BY <1>1, <1>3, <1>4, <1>5 DEF AnsweredBy
<1>6. CASE out # Outcome(req, FAIL, NoError, <<>>)
  <2>1. \/ m = "GetUpgradePolicy" /\ out \in GetUpgradePolicyImpl(req)
        \/ m = "GetNewVersionInfo" /\ out \in GetNewVersionInfoImpl(req)
        \/ m = "GetNewVersionDescription" /\ out \in GetNewVersionDescriptionImpl(req)
        \/ m = "GetCurrentVersionInfo" /\ out \in GetCurrentVersionInfoImpl(req)
        \/ m = "GetCurrentVersionDescription" /\ out \in GetCurrentVersionDescriptionImpl(req)
        \/ m = "GetTaskInfo" /\ out \in GetTaskInfoImpl(req)
    BY <1>6 DEF Online, GetUpgradePolicy, GetNewVersionInfo, GetNewVersionDescription,
                GetCurrentVersionInfo, GetCurrentVersionDescription, GetTaskInfo
  <2> QED BY <1>1, <1>2, <1>3, <2>1 DEF AnsweredBy
<1> QED BY <1>5, <1>6

\* setUpgradePolicy keeps the download strategy or fails (SetUpgradePolicyImpl).
LEMMA PolicyAnswered ==
  ASSUME NEW req, NEW out \in SetUpgradePolicy(req)
  PROVE  AnsweredBy("SetUpgradePolicy", out)
<1>1. out.asked = req
  BY OutcomeAsks
<1>2. CASE out = Outcome(req, FAIL, NoError, <<>>)
  BY <1>2 DEF Outcome, SUCCESS, FAIL, AnsweredBy
<1>3. CASE out = [Answer(req, NoError) EXCEPT !.switch = req.options.downloadStrategy]
  <2>1. /\ out.switch = req.options.downloadStrategy /\ out.ret = SUCCESS
        /\ out.err = NoError
    BY <1>3 DEF Answer, Outcome
  <2> QED BY <1>1, <2>1 DEF AnsweredBy
<1> QED BY <1>2, <1>3 DEF SetUpgradePolicy, Online, SetUpgradePolicyImpl

\* The other methods show nothing.
LEMMA OthersAnswered ==
  ASSUME NEW m, m \notin Showing \union {"SetUpgradePolicy"}, NEW out, out.switch = autoDownload
  PROVE  AnsweredBy(m, out)
BY DEF AnsweredBy, Showing

\* Every handler answers so.
LEMMA HandleAnswers ==
  ASSUME NEW m \in Methods, NEW p, NEW out \in Handle(Code(m), p)
  PROVE  AnsweredBy(m, out)
<1>1. PICK i \in 1..20 : m = Codes[i] /\ Code(m) = i
  BY CodeOfMethod
<1>2. out \in Handle(i, p)
  BY <1>1
<1>3. CASE i \in {1, 2, 3, 4, 5, 6, 7, 16, 17}
  <2>1. \E req : \/ out \in CheckNewVersion(req) \/ out \in Download(req)
                 \/ out \in PauseDownload(req) \/ out \in ResumeDownload(req)
                 \/ out \in Upgrade(req) \/ out \in ClearError(req)
                 \/ out \in TerminateUpgrade(req) \/ out \in Cancel(req)
                 \/ out \in UnregisterUpdateCallback(req)
    BY <1>2, <1>3, HandlerOf
       DEF WithInfo, WithOptions, WithDigest, CheckNewVersionStub, DownloadVersionStub,
           PauseDownloadStub, ResumeDownloadStub, DoUpdateStub, ClearErrorStub,
           TerminateUpgradeStub, CancelStub, UnregisterUpdateCallbackStub
  <2>2. out.switch = autoDownload
    BY <2>1, SwitchKept
  <2>3. m \notin Showing \union {"SetUpgradePolicy"}
    BY <1>1, <1>3 DEF Codes, Showing
  <2> QED BY <2>2, <2>3, OthersAnswered
<1>7. CASE i = 15
  <2>1. \E req : \/ out \in RegisterUpdateCallback(req)
                 \/ out = Outcome(req, IPC_ERR, NoError, <<>>)
    BY <1>2, <1>7, HandlerOf DEF RegisterUpdateCallbackStub
  <2>2. out.switch = autoDownload
    BY <2>1, SwitchKept DEF Outcome
  <2>3. m \notin Showing \union {"SetUpgradePolicy"}
    BY <1>1, <1>7 DEF Codes, Showing
  <2> QED BY <2>2, <2>3, OthersAnswered
<1>4. CASE i \in {18, 19, 20}
  <2> DEFINE files == <<CellAt(p, 1), CellAt(p, 2)>>
             rest == ReadUpgradeInfo(p).rest
             applied == <<CellAt(rest, 1), CellAt(rest, 2)>>
  <2>a. /\ FactoryResetStub(p) = Kits(Req("FactoryReset", EmptyInfo, <<>>, <<>>))
        /\ ApplyNewVersionStub(p)
             = Kits(Req("ApplyNewVersion", ReadUpgradeInfo(p).v, <<>>, applied))
        /\ VerifyUpgradePackageStub(p) = Kits(Req("VerifyUpgradePackage", EmptyInfo, <<>>, files))
    BY DEF FactoryResetStub, ApplyNewVersionStub, VerifyUpgradePackageStub, FactoryReset,
           ApplyNewVersion, VerifyUpgradePackage
  <2> HIDE DEF files, applied
  <2>1. \E req : out \in Kits(req)
    BY <1>2, <1>4, <2>a, HandlerOf
  <2>2. out.switch = autoDownload
    BY <2>1, SwitchKept
  <2>3. m \notin Showing \union {"SetUpgradePolicy"}
    BY <1>1, <1>4 DEF Codes, Showing
  <2> QED BY <2>2, <2>3, OthersAnswered
<1>5. CASE i = 8
  <2>1. m = "SetUpgradePolicy"
    BY <1>1, <1>5 DEF Codes
  <2>2. \E req : out \in SetUpgradePolicy(req)
    BY <1>2, <1>5, HandlerOf DEF WithOptions, SetUpgradePolicyStub
  <2> QED BY <2>1, <2>2, PolicyAnswered
<1>6. CASE i \in 9..14
  <2>1. \/ i = 9 /\ m = "GetUpgradePolicy"
        \/ i = 10 /\ m = "GetNewVersionInfo"
        \/ i = 11 /\ m = "GetNewVersionDescription"
        \/ i = 12 /\ m = "GetCurrentVersionInfo"
        \/ i = 13 /\ m = "GetCurrentVersionDescription"
        \/ i = 14 /\ m = "GetTaskInfo"
    BY <1>1, <1>6 DEF Codes
  <2>2. \E req : \/ m = "GetUpgradePolicy" /\ out \in GetUpgradePolicy(req)
                 \/ m = "GetNewVersionInfo" /\ out \in GetNewVersionInfo(req)
                 \/ m = "GetNewVersionDescription" /\ out \in GetNewVersionDescription(req)
                 \/ m = "GetCurrentVersionInfo" /\ out \in GetCurrentVersionInfo(req)
                 \/ m = "GetCurrentVersionDescription" /\ out \in GetCurrentVersionDescription(req)
                 \/ m = "GetTaskInfo" /\ out \in GetTaskInfo(req)
    BY <1>2, <2>1, HandlerOf
       DEF WithInfo, WithOptions, WithDigest, GetUpgradePolicyStub, GetNewVersionStub,
           GetNewVersionDescriptionStub, GetCurrentVersionStub, GetCurrentVersionDescriptionStub,
           GetTaskInfoStub
  <2> QED BY <2>2, ShowingAnswered
<1> QED BY <1>3, <1>7, <1>4, <1>5, <1>6

\* What JavaScript makes of the value a method answers.
ShownBy(m, out) == GetUpdateResult(m, ReadValue(m, Value(m, out.value))).v

\* The download strategy is the switch (GetUpgradePolicyImpl).
LEMMA PolicyTold ==
  ASSUME NEW req, NEW out \in GetUpgradePolicyImpl(req)
  PROVE  /\ out.err.data = <<>>
         /\ ShownBy("GetUpgradePolicy", out).downloadStrategy.v = autoDownload
<1> DEFINE m == "GetUpgradePolicy"
           periods == <<[start |-> 60 * 2, end |-> 60 * 4], [start |-> 0, end |-> 0]>>
           policy == [downloadStrategy |-> autoDownload, autoUpgradeStrategy |-> 0,
                      autoUpgradePeriods |-> periods]
           cells == WriteVector(periods, UpgradePeriod)
           p == <<autoDownload, 0>> \o cells
<1>1. out.err = NoError /\ out.value = policy
  BY DEF GetUpgradePolicyImpl, Outcome
<1>2. Value(m, policy) = p
  <2>1. Value("GetUpgradePolicy", policy) = WriteUpgradePolicy(policy)
    BY Zenon DEF Value
  <2> QED BY <2>1 DEF WriteUpgradePolicy
<1>3. IsSeq(cells)
  BY TwoIsSeq, VectorIsSeq DEF UpgradePeriod
<1> HIDE DEF policy, cells
<1>4. CellAt(p, 1) = autoDownload
  BY <1>3, CellsRead
<1> HIDE DEF p
<1>5. ReadValue(m, p) = ReadUpgradePolicy(p).v
  BY Zenon DEF ReadValue
<1>6. ReadUpgradePolicy(p).v.downloadStrategy = autoDownload
  BY <1>4 DEF ReadUpgradePolicy
<1> DEFINE q == ReadUpgradePolicy(p).v
<1> HIDE DEF q
<1>7. GetUpdateResult(m, q) = BuildUpgradePolicy(q)
  BY Zenon DEF GetUpdateResult
<1>8. BuildUpgradePolicy(q).v.downloadStrategy = SetBool(q.downloadStrategy)
  BY DEF BuildUpgradePolicy, Js
<1> QED BY <1>1, <1>2, <1>5, <1>6, <1>7, <1>8 DEF ShownBy, q, SetBool, Js, NoError, Err

\* Lists with nothing in them are as declared.
LEMMA NothingDeclared ==
  ErrorsAsDeclared(<<>>) /\ ComponentsAsDeclared(<<>>)
<1>1. <<>> \in Seq(Range(<<>>)) /\ Len(<<>>) = 0 /\ DOMAIN <<>> = {}
  OBVIOUS
<1>2. Len(<<>>) <= MAX_VECTOR_SIZE
  BY <1>1, ParcelAssumption
<1> QED BY <1>1, <1>2 DEF ErrorsAsDeclared, ComponentsAsDeclared, IsListOf

\* The task with its status, progress and digest (GetTaskInfoImpl).
LEMMA TaskTold ==
  ASSUME WorldsAsDeclared, world \in Worlds, NEW req, NEW out \in GetTaskInfoImpl(req)
  PROVE  out.err.data = <<>> /\ TaskShown(ShownBy("GetTaskInfo", out), world)
<1> DEFINE m == "GetTaskInfo"
           t == world.task
           body == [EmptyBody EXCEPT !.status = t.status, !.progress = t.progress,
                                     !.versionDigest = t.taskId]
           info == [existTask |-> t.exist, taskBody |-> body]
           cells == WriteTaskBody(body)
           p == <<t.exist>> \o cells
<1>1. out.err = NoError /\ out.value = info
  BY DEF GetTaskInfoImpl, Outcome
<1>2. /\ body.errorMessages = <<>> /\ body.versionComponents = <<>>
      /\ body.status = t.status /\ body.progress = t.progress /\ body.versionDigest = t.taskId
  BY DEF EmptyBody
<1>3. Value(m, info) = p
  <2> HIDE DEF body
  <2>1. Value("GetTaskInfo", info) = WriteTaskInfo(info)
    BY Zenon DEF Value
  <2> QED BY <2>1 DEF WriteTaskInfo
<1> HIDE DEF body, info
<1>4. SameBody(body, ReadTaskBody(cells).v) /\ IsSeq(cells)
  BY <1>2, NothingDeclared, TaskBodyArrives DEF ComponentsAsDeclared
<1> HIDE DEF cells
<1>5. CellAt(p, 1) = t.exist /\ Drop(p, 1) = cells
  BY <1>4, CellRead
<1> DEFINE q == ReadTaskInfo(p).v
           read == ReadTaskBody(cells).v
<1>6. q.existTask = t.exist /\ q.taskBody = read
  <2> HIDE DEF p
  <2> QED BY <1>5 DEF ReadTaskInfo
<1> HIDE DEF q, p, read
<1>7. ShownBy(m, out) = BuildTaskInfo(q).v
  <2>1. ReadValue("GetTaskInfo", p) = ReadTaskInfo(p).v
    BY Zenon DEF ReadValue
  <2>2. GetUpdateResult("GetTaskInfo", q) = BuildTaskInfo(q)
    BY Zenon DEF GetUpdateResult
  <2> QED BY <1>1, <1>3, <2>1, <2>2 DEF ShownBy, q
<1> DEFINE head == [existTask |-> SetBool(q.existTask)]
           rest == IF q.existTask = 1 THEN BuildTaskBody(q.taskBody) ELSE NoProperties
           o == head ++ rest
<1>8. BuildTaskInfo(q).v = o
  BY DEF BuildTaskInfo, Js
<1>9. o["existTask"] = SetBool(t.exist)
  BY <1>6, MergeKeeps
<1>10. ASSUME t.exist = 1
       PROVE  LET shownBody == o["taskBody"].v IN
              /\ shownBody.status.v = t.status /\ shownBody.progress.v = t.progress
              /\ shownBody.versionDigestInfo.v.versionDigest.v = t.taskId
  <2>1. rest = BuildTaskBody(read)
    BY <1>6, <1>10
  <2>2. DOMAIN rest = {"taskBody"}
    BY <2>1 DEF BuildTaskBody
  <2>3. o["taskBody"] = rest["taskBody"]
    <3>1. "taskBody" \in DOMAIN rest /\ "taskBody" \notin DOMAIN head
      BY <2>2
    <3> HIDE DEF rest, head
    <3> QED BY <3>1, MergeAdds
  <2> DEFINE f == [n \in {"status", "subStatus", "progress", "installMode"} |-> SetInt32(read[n])]
             d == BuildVersionDigestInfo(read.versionDigest)
             e == BuildErrorMessages("errorMessages", read.errorMessages)
             c == BuildVersionComponents(read.versionComponents)
             g == f ++ d
  <2>4. rest["taskBody"].v = (g ++ e) ++ c
    BY <2>1 DEF BuildTaskBody, Js
  <2>5. /\ "status" \in DOMAIN f /\ f["status"] = SetInt32(read["status"])
        /\ "progress" \in DOMAIN f /\ f["progress"] = SetInt32(read["progress"])
        /\ "versionDigestInfo" \notin DOMAIN f
    OBVIOUS
  <2>6. /\ "versionDigestInfo" \in DOMAIN d
        /\ d["versionDigestInfo"].v.versionDigest.v = read.versionDigest
    BY DEF BuildVersionDigestInfo, SetString, Js
  <2> HIDE DEF f, d, e, c
  <2>7. /\ g["status"] = f["status"] /\ g["progress"] = f["progress"]
        /\ g["versionDigestInfo"] = d["versionDigestInfo"]
    BY <2>5, <2>6, MergeKeeps, MergeAdds
  <2>8. {"status", "progress", "versionDigestInfo"} \subseteq DOMAIN g
    BY <2>5, <2>6 DEF ++
  <2> HIDE DEF g
  <2>9. DOMAIN g \subseteq DOMAIN (g ++ e) /\ \A n \in DOMAIN g : ((g ++ e) ++ c)[n] = g[n]
    <3>1. DOMAIN g \subseteq DOMAIN (g ++ e)
      BY DEF ++
    <3> QED BY <3>1, MergeKeeps
  <2>10. /\ read["status"] = t.status /\ read["progress"] = t.progress
         /\ read["versionDigest"] = t.taskId
    BY <1>2, <1>4 DEF SameBody, Numbers, read
  <2>11. SetInt32(t.status).v = t.status /\ SetInt32(t.progress).v = t.progress
    BY Int32Shown DEF WorldsAsDeclared
  <2> QED BY <2>3, <2>4, <2>5, <2>6, <2>7, <2>8, <2>9, <2>10, <2>11
<1> HIDE DEF o
<1>11. TaskShown(o, world)
  BY <1>9, <1>10 DEF TaskShown, SetBool, Js
<1> QED BY <1>1, <1>7, <1>8, <1>11 DEF NoError, Err

\* A number of 32 bits that is sent unsigned is shown as it was.
LEMMA SizeShown ==
  ASSUME NEW x, IsInt32(x) PROVE SetInt32(Uint32(x)).v = x
<1>1. Word \in Nat \ {0} /\ x \in Int
  BY ParcelAssumption DEF IsInt32
<1>2. Uint32(x) \in Nat /\ Uint32(x) < Word
  BY <1>1 DEF Uint32
<1>3. Uint32(x) % Word = Uint32(x)
  BY <1>1, <1>2, SmallRemainder
<1>4. SetInt32(Uint32(x)) = SetInt32(x)
  BY <1>3, Zenon DEF SetInt32, Uint32
<1> QED BY <1>4, Int32Shown

\* A list of one component of the structure's members, of a type, is as declared when the reader
\* accepts a list at all.
LEMMA OneDeclared ==
  ASSUME MAX_VECTOR_SIZE # 0, NEW c, HasMembers(c, Range(VersionComponent)), c.componentType # 0
  PROVE  ComponentsAsDeclared(<<c>>)
<1> DEFINE list == <<c>>
<1>0. list \in Seq({c}) /\ Len(list) = 1 /\ DOMAIN list = 1..1 /\ list[1] = c
  OBVIOUS
<1>r. Range(list) = {c}
  BY <1>0 DEF Range
<1>1. /\ list \in Seq(Range(list)) /\ Len(list) = 1 /\ DOMAIN list = {1} /\ list[1] = c
  BY <1>0, <1>r
<1> HIDE DEF list
<1>2. Len(list) <= MAX_VECTOR_SIZE
  BY <1>1, ParcelAssumption
<1>3. \A i \in DOMAIN list : list[i] = [n \in Range(VersionComponent) |-> list[i][n]]
  BY <1>1 DEF HasMembers
<1>4. \A i \in DOMAIN list : IsValidVersionComponent(list[i])
  BY <1>1 DEF IsValidVersionComponent
<1>5. ComponentsAsDeclared(list)
  BY <1>1, <1>2, <1>3, <1>4 DEF ComponentsAsDeclared, IsListOf
<1> QED BY <1>5 DEF list

\* A component with nothing in it has the structure's members.
LEMMA EmptyMembers == HasMembers(EmptyComponent, Range(VersionComponent))
BY DEF HasMembers, EmptyComponent

\* The packages of the new version, as they are selected for its component.
LEMMA HotaSelected ==
  ASSUME WorldsAsDeclared, world \in Worlds, NEW hota,
         hota = Selected(world.components,
                         {i \in DOMAIN world.components :
                            world.components[i].blVersionType \in {HOTA_TYPE, DYNAMIC_TYPE}})
  PROVE  /\ hota = <<>> <=> HotaPackages(world) = {}
         /\ SizeOf(hota) = TotalSize(world)
<1> DEFINE list == world.components
           I == HotaPackages(world)
           n == Cardinality(I)
<1>1. hota = Selected(list, I)
  BY DEF HotaPackages, HOTA_TYPE, DYNAMIC_TYPE
<1>2. Len(list) \in Nat /\ DOMAIN list = 1..Len(list)
  BY CallAssumption
<1>3. I \in SUBSET (1..Len(list))
  BY <1>2 DEF HotaPackages
<1>4. IsFiniteSet(I)
  <2>1. IsFiniteSet(1..Len(list))
    BY <1>2, FS_Interval
  <2> HIDE DEF I, list
  <2> QED BY <1>3, <2>1, FS_Subset
<1>5. I \in SUBSET Nat
  BY <1>2, <1>3
<1>6. \A i \in I : list[i].size \in Int
  BY <1>2, <1>3 DEF WorldsAsDeclared
<1>s. TotalSize(world) = SizeAt(list, I)
  BY DEF TotalSize, SizeAt
<1> HIDE DEF list, I
<1>7. SizeOf(hota) = SizeAt(list, I)
  BY <1>1, <1>4, <1>5, <1>6, SelectedSize
<1>8. n \in Nat /\ (n = 0 <=> I = {})
  BY <1>4, FS_CardinalityType, FS_EmptySet
<1>9. hota = <<>> <=> I = {}
  <2>1. DOMAIN hota = 1..n /\ hota = [k \in 1..n |-> hota[k]]
    BY <1>1 DEF Selected
  <2>2. IsSeq(hota)
    BY <1>8, <2>1, FunctionIsSeq
  <2>3. hota = <<>> <=> DOMAIN hota = {}
    BY <2>2 DEF IsSeq
  <2> QED BY <1>8, <2>1, <2>3
<1> QED BY <1>7, <1>9, <1>s DEF I

\* The component of the new version: none without a package, or one with the size of all
\* (BuildHotaVersionComponent).
LEMMA NewComponents ==
  ASSUME WorldsAsDeclared, world \in Worlds
  PROVE  /\ ComponentsAsDeclared(NewVersionComponents)
         /\ NewVersionComponents = <<>> <=> HotaPackages(world) = {}
         /\ HotaPackages(world) # {} => NewVersionComponents[1].size = TotalSize(world)
<1> DEFINE list == world.components
           hota == Selected(list, {i \in DOMAIN list :
                                     list[i].blVersionType \in {HOTA_TYPE, DYNAMIC_TYPE}})
           total == SizeOf(hota)
           c == BuildHotaVersionComponent(hota)
<1>1. (hota = <<>> <=> HotaPackages(world) = {}) /\ total = TotalSize(world)
  <2> HIDE DEF hota
  <2>1. hota = Selected(list, {i \in DOMAIN list :
                                 list[i].blVersionType \in {HOTA_TYPE, DYNAMIC_TYPE}})
    BY DEF hota
  <2> QED BY <2>1, HotaSelected
<1>2. NewVersionComponents = IF hota = <<>> THEN <<>> ELSE <<c>>
  BY DEF NewVersionComponents
<1> HIDE DEF hota
<1>3. /\ HasMembers(c, Range(VersionComponent)) /\ c.componentType = 1 /\ c.size = total
  <2> HIDE DEF total
  <2>1. c = [EmptyComponent EXCEPT
               !.componentId = hota[1].componentId, !.upgradeAction = 1, !.componentType = 1,
               !.effectiveMode = IF world.slots = 2 THEN 3 ELSE 1,
               !.innerVersion = hota[1].innerVersion, !.displayVersion = hota[1].displayVersion,
               !.size = total]
    BY DEF BuildHotaVersionComponent, SizeOf, total
  <2> HIDE DEF c
  <2>2. {"componentType", "size"} \subseteq DOMAIN EmptyComponent
    BY ListNames DEF EmptyComponent
  <2> QED BY <2>1, <2>2, EmptyMembers DEF HasMembers
<1> HIDE DEF c, total
<1>4. ComponentsAsDeclared(<<c>>)
  BY <1>3, OneDeclared DEF WorldsAsDeclared
<1>5. <<c>>[1] = c /\ <<c>> # <<>>
  OBVIOUS
<1> QED BY <1>1, <1>2, <1>3, <1>4, <1>5, NothingDeclared

\* The digest of the new version and the size of its packages (GetNewVersionInfoImpl).
LEMMA NewVersionTold ==
  ASSUME WorldsAsDeclared, world \in Worlds, NEW req, NEW out \in GetNewVersionInfoImpl(req)
  PROVE  out.err.data = <<>> /\ NewVersionShown(ShownBy("GetNewVersionInfo", out), world)
<1> DEFINE m == "GetNewVersionInfo"
           id == world.task.taskId
           list == NewVersionComponents
           info == [versionDigest |-> id, versionComponents |-> list]
           cells == WriteVersionComponents(list)
           p == <<id>> \o cells
<1>1. out.err = NoError /\ out.value = info
  BY DEF GetNewVersionInfoImpl, Outcome
<1>2. /\ ComponentsAsDeclared(list)
      /\ list = <<>> <=> HotaPackages(world) = {}
      /\ HotaPackages(world) # {} => list[1].size = TotalSize(world)
  BY NewComponents
<1> HIDE DEF list
<1>3. Value(m, info) = p
  <2>1. Value("GetNewVersionInfo", info) = WriteNewVersionInfo(info)
    BY Zenon DEF Value
  <2> QED BY <2>1 DEF WriteNewVersionInfo
<1> DEFINE read == ReadVersionComponents(cells).v
<1>4. IsSeq(cells) /\ SameComponents(list, read)
  BY <1>2, ComponentsArrive, EmptyIsSeq, LastComponentsArrive DEF ComponentsAsDeclared
<1> HIDE DEF cells, info
<1>5. CellAt(p, 1) = id /\ Drop(p, 1) = cells
  BY <1>4, CellRead
<1> HIDE DEF p
<1> DEFINE q == ReadNewVersionInfo(p).v
<1>6. q.versionDigest = id /\ q.versionComponents = read
  BY <1>5 DEF ReadNewVersionInfo
<1> HIDE DEF q, read
<1>7. ShownBy(m, out) = BuildNewVersionInfo(q).v
  <2>1. ReadValue("GetNewVersionInfo", p) = ReadNewVersionInfo(p).v
    BY Zenon DEF ReadValue
  <2>2. GetUpdateResult("GetNewVersionInfo", q) = BuildNewVersionInfo(q)
    BY Zenon DEF GetUpdateResult
  <2> QED BY <1>1, <1>3, <2>1, <2>2 DEF ShownBy, q
<1> DEFINE d == BuildVersionDigestInfo(id)
           b == BuildVersionComponents(read)
           o == d ++ b
<1>8. BuildNewVersionInfo(q).v = o
  BY <1>6 DEF BuildNewVersionInfo, NewVersion, Js
<1>9. /\ DOMAIN b = IF list = <<>> THEN {} ELSE {"versionComponents"}
      /\ \A i \in DOMAIN list : b.versionComponents.v[i].v = BuildVersionComponent(read[i])
  BY <1>2, <1>4, ComponentsBuilt
<1>10. DOMAIN d = {"versionDigestInfo"} /\ d.versionDigestInfo.v.versionDigest.v = id
  BY DEF BuildVersionDigestInfo, SetString, Js
<1> HIDE DEF b, d
<1>11. o.versionDigestInfo.v.versionDigest.v = id
  BY <1>10, MergeKeeps
<1>12. DOMAIN o = DOMAIN d \union DOMAIN b
  BY DEF ++
<1>13. ("versionComponents" \in DOMAIN o) = (HotaPackages(world) # {})
  BY <1>2, <1>9, <1>10, <1>12
<1>14. ASSUME HotaPackages(world) # {}
       PROVE  o.versionComponents.v[1].v.size.v = TotalSize(world)
  <2>1. list # <<>> /\ list[1].size = TotalSize(world) /\ 1 \in DOMAIN list
    <3>1. list # <<>> /\ IsSeq(list)
      BY <1>2, <1>14 DEF ComponentsAsDeclared, IsListOf, IsSeq
    <3> QED BY <1>2, <1>14, <3>1 DEF IsSeq
  <2>2. o.versionComponents = b.versionComponents
    BY <1>9, <1>10, <2>1, MergeAdds
  <2>3. b.versionComponents.v[1].v.size = SetInt32(read[1].size)
    BY <1>9, <2>1, ComponentMembers
  <2>4. read[1].size = Uint32(TotalSize(world))
    BY <1>4, <2>1 DEF SameComponents
  <2>5. SetInt32(Uint32(TotalSize(world))).v = TotalSize(world)
    BY SizeShown DEF WorldsAsDeclared
  <2> HIDE DEF o
  <2> QED BY <2>2, <2>3, <2>4, <2>5
<1> HIDE DEF o
<1>15. NewVersionShown(o, world)
  BY <1>11, <1>13, <1>14 DEF NewVersionShown
<1> QED BY <1>1, <1>7, <1>8, <1>15 DEF NoError, Err

\* The current version has the component it is of (GetCurrentVersionInfoImpl).
LEMMA CurrentVersionTold ==
  ASSUME WorldsAsDeclared, NEW req, NEW out \in GetCurrentVersionInfoImpl(req)
  PROVE  /\ out.err.data = <<>>
         /\ ShownBy("GetCurrentVersionInfo", out).versionComponents.v[1].v.componentId.v
              = world.currentId
<1> DEFINE m == "GetCurrentVersionInfo"
           c == [EmptyComponent EXCEPT !.displayVersion = 63, !.innerVersion = 64,
                                       !.descriptionType = 2, !.componentId = world.currentId,
                                       !.componentType = 1]
           list == <<c>>
           info == BuildCurrentInfo
           cells == WriteVersionComponents(list)
           p == <<61, 62>> \o cells
<1>1. out.err = NoError /\ out.value = info
  BY DEF GetCurrentVersionInfoImpl, Outcome
<1>2. HasMembers(c, Range(VersionComponent)) /\ c.componentType = 1 /\ c.componentId = world.currentId
  <2>1. {"componentType", "componentId"} \subseteq DOMAIN EmptyComponent
    BY ListNames DEF EmptyComponent
  <2> QED BY <2>1, EmptyMembers DEF HasMembers
<1>3. info.osVersion = 61 /\ info.deviceName = 62 /\ info.versionComponents = list
  BY DEF BuildCurrentInfo
<1> HIDE DEF c, info
<1>4. ComponentsAsDeclared(list) /\ list[1] = c /\ DOMAIN list = {1} /\ list # <<>>
  <2>1. ComponentsAsDeclared(<<c>>)
    BY <1>2, OneDeclared DEF WorldsAsDeclared
  <2> QED BY <2>1
<1> HIDE DEF list
<1>5. Value(m, info) = p
  <2>1. Value("GetCurrentVersionInfo", info) = WriteCurrentVersionInfo(info)
    BY Zenon DEF Value
  <2> QED BY <1>3, <2>1 DEF WriteCurrentVersionInfo
<1> DEFINE read == ReadVersionComponents(cells).v
<1>6. IsSeq(cells) /\ SameComponents(list, read)
  BY <1>4, ComponentsArrive, EmptyIsSeq, LastComponentsArrive DEF ComponentsAsDeclared
<1> HIDE DEF cells
<1>7. Drop(p, 2) = cells
  BY <1>6, CellsRead
<1> HIDE DEF p
<1> DEFINE q == ReadCurrentVersionInfo(p).v
<1>8. q.versionComponents = read
  BY <1>7 DEF ReadCurrentVersionInfo
<1> HIDE DEF q, read
<1>9. ShownBy(m, out) = BuildCurrentVersionInfo(q).v
  <2>1. ReadValue("GetCurrentVersionInfo", p) = ReadCurrentVersionInfo(p).v
    BY Zenon DEF ReadValue
  <2>2. GetUpdateResult("GetCurrentVersionInfo", q) = BuildCurrentVersionInfo(q)
    BY Zenon DEF GetUpdateResult
  <2> QED BY <1>1, <1>5, <2>1, <2>2 DEF ShownBy, q
<1> DEFINE d == [osVersion |-> SetString(q.osVersion), deviceName |-> SetString(q.deviceName)]
           b == BuildVersionComponents(read)
           o == d ++ b
<1>10. BuildCurrentVersionInfo(q).v = o
  BY <1>8 DEF BuildCurrentVersionInfo, Js
<1>11. "versionComponents" \in DOMAIN b /\ b.versionComponents.v[1].v = BuildVersionComponent(read[1])
  BY <1>4, <1>6, ComponentsBuilt
<1>12. "versionComponents" \notin DOMAIN d
  OBVIOUS
<1> HIDE DEF b, d
<1>13. o.versionComponents = b.versionComponents
  BY <1>11, <1>12, MergeAdds
<1>14. BuildVersionComponent(read[1]).componentId = SetString(read[1].componentId)
  BY ComponentMembers
<1>15. read[1].componentId = world.currentId
  <2>1. "componentId" \in Range(VersionComponent) \ {"size"} /\ 1 \in DOMAIN list
    BY <1>4, ListNames
  <2>2. read[1]["componentId"] = list[1]["componentId"]
    BY <1>6, <2>1 DEF SameComponents
  <2> QED BY <1>2, <1>4, <2>2
<1> HIDE DEF o
<1> QED BY <1>1, <1>9, <1>10, <1>11, <1>13, <1>14, <1>15 DEF NoError, Err, SetString, Js

\* The names of a description's members.
LEMMA DescriptionNames ==
  /\ MemberNames(ComponentDescription) /\ Len(ComponentDescription) = 3
  /\ Range(ComponentDescription) = {"componentId", "descriptionType", "content"}
<1>1. /\ DOMAIN ComponentDescription = 1..3 /\ Len(ComponentDescription) = 3
      /\ ComponentDescription = [i \in 1..3 |-> ComponentDescription[i]]
  BY DEF ComponentDescription
<1>2. \A i, j \in 1..3 : ComponentDescription[i] = ComponentDescription[j] => i = j
  BY DEF ComponentDescription
<1>3. MemberNames(ComponentDescription)
  BY <1>1, <1>2, FunctionIsSeq DEF MemberNames
<1>4. Range(ComponentDescription) = {"componentId", "descriptionType", "content"}
  BY <1>1 DEF Range, ComponentDescription
<1> QED BY <1>1, <1>3, <1>4

\* The descriptions JavaScript is shown of list, and those it can be shown whole.
DescriptionsRead(list) ==
  BuildVersionDescriptionInfo(ReadVersionDescriptionInfo(WriteVersionDescriptionInfo(list)).v).v
DescriptionsAsDeclared(list) ==
  /\ IsSeq(list) /\ list # <<>> /\ Len(list) <= MAX_VECTOR_SIZE
  /\ \A i \in DOMAIN list : list[i].componentId # 0

\* Descriptions are shown as they were written, when each is of a component
\* (WriteVersionDescriptionInfo, ReadVersionDescriptionInfo, BuildComponentDescriptions).
LEMMA DescriptionsArrive ==
  ASSUME NEW list, DescriptionsAsDeclared(list)
  PROVE  /\ Len(DescriptionsRead(list)) = Len(list) /\ DOMAIN DescriptionsRead(list) = DOMAIN list
         /\ \A i \in DOMAIN list :
              /\ DescriptionsRead(list)[i].v.componentId.v = list[i].componentId
              /\ DescriptionsRead(list)[i].v.descriptionInfo.v.content.v = list[i].content
<1> USE DEF DescriptionsAsDeclared
<1> DEFINE o == DescriptionsRead(list)
<1> DEFINE names == ComponentDescription
           cells == WriteVector(list, names)
           n == Len(list)
           read == [i \in 1..n |-> [m \in Range(names) |-> list[i][m]]]
<1>0. n \in Nat /\ DOMAIN list = 1..n /\ n # 0
  BY DEF IsSeq
<1>1. WriteVersionDescriptionInfo(list) = cells
  BY DEF WriteVersionDescriptionInfo, WriteComponentDescriptions
<1>2. MemberNames(names) /\ Len(names) = 3
  BY DescriptionNames
<1>3. ReadVector(cells, names).v = read
  <2> HIDE DEF names
  <2>1. IsSeq(cells)
    BY <1>2, VectorIsSeq
  <2>2. cells \o <<>> = cells
    <3> HIDE DEF cells
    <3>1. PICK S : cells \in Seq(S)
      BY <2>1 DEF IsSeq
    <3> QED BY <3>1
  <2>3. \A tail : IsSeq(tail) => ReadVector(WriteVector(list, names) \o tail, names).v = read
    BY <1>2, VectorArrives
  <2> QED BY <2>2, <2>3, EmptyIsSeq
<1>4. ReadVersionDescriptionInfo(cells).v = read
  BY <1>3 DEF ReadVersionDescriptionInfo, ReadComponentDescriptions
<1>5. \A i \in 1..n : read[i].componentId = list[i].componentId /\ read[i].content = list[i].content
  BY DescriptionNames
<1>6. DOMAIN read = 1..n /\ read = [i \in 1..n |-> read[i]]
  OBVIOUS
<1> HIDE DEF read, cells, n
<1>7. IsSeq(read) /\ read # <<>>
  <2>1. IsSeq(read)
    BY <1>0, <1>6, FunctionIsSeq
  <2>2. DOMAIN read # {}
    BY <1>0, <1>6
  <2> QED BY <2>1, <2>2
<1>8. {i \in DOMAIN read : IsValidComponentDescription(read[i])} = DOMAIN read
  BY <1>0, <1>5, <1>6 DEF IsValidComponentDescription
<1>9. Selected(read, DOMAIN read) = read
  BY <1>7, AllSelected
<1> DEFINE objects == [i \in DOMAIN read |-> Js("object", BuildComponentDescription(read[i]))]
<1>10. o = objects
  <2>1. o = BuildComponentDescriptions(read).v
    BY <1>1, <1>4 DEF BuildVersionDescriptionInfo, DescriptionsRead
  <2> QED BY <1>7, <1>8, <1>9, <2>1 DEF BuildComponentDescriptions, Js
<1>11. \A i \in 1..n : o[i].v = BuildComponentDescription(read[i])
  BY <1>6, <1>10 DEF Js
<1>12. Len(o) = n /\ DOMAIN o = 1..n
  <2>1. DOMAIN o = 1..n /\ o = [i \in 1..n |-> o[i]]
    BY <1>6, <1>10
  <2>2. IsSeq(o)
    BY <1>0, <2>1, FunctionIsSeq
  <2> QED BY <1>0, <2>1, <2>2 DEF IsSeq
<1>13. ASSUME NEW d
       PROVE  /\ BuildComponentDescription(d).componentId.v = d.componentId
              /\ BuildComponentDescription(d).descriptionInfo.v.content.v = d.content
  <2> DEFINE f == [componentId |-> SetString(d.componentId)]
             g == BuildDescInfo(d)
  <2>1. /\ "componentId" \in DOMAIN f /\ f["componentId"].v = d.componentId
        /\ "descriptionInfo" \notin DOMAIN f
    BY DEF SetString, Js
  <2>2. "descriptionInfo" \in DOMAIN g /\ g["descriptionInfo"].v.content.v = d.content
    BY DEF BuildDescInfo, SetString, Js
  <2>3. BuildComponentDescription(d) = f ++ g
    BY DEF BuildComponentDescription
  <2> HIDE DEF f, g
  <2> QED BY <2>1, <2>2, <2>3, MergeKeeps, MergeAdds
<1> HIDE DEF o
<1>14. \A i \in 1..n : /\ o[i].v.componentId.v = list[i].componentId
                     /\ o[i].v.descriptionInfo.v.content.v = list[i].content
  BY <1>5, <1>11, <1>13
<1> QED BY <1>0, <1>12, <1>14 DEF n, o

\* A description in the language asked for (GetChangelogContent).
LEMMA DescriptionIn ==
  ASSUME NEW id, NEW asking, NEW language, (asking = ZH_CN) = (language = ZH_CN),
         NEW d, d.v.componentId.v = Description(id, asking).componentId,
         d.v.descriptionInfo.v.content.v = Description(id, asking).content
  PROVE  DescriptionShown(d, world, id, language)
<1>1. /\ Description(id, asking).componentId = id
      /\ Description(id, asking).content = GetChangelogContent(world.changelogs[id], asking)
  BY DEF Description
<1>2. GetChangelogContent(world.changelogs[id], asking)
        = IF language = ZH_CN THEN world.changelogs[id].chinese ELSE world.changelogs[id].english
  BY DEF GetChangelogContent
<1> QED BY <1>1, <1>2 DEF DescriptionShown

\* One description for each component, unless a changelog is missing
\* (GetNewVersionDescriptionImpl).
LEMMA NewDescriptionTold ==
  ASSUME WorldsAsDeclared, world \in Worlds, NEW req, NEW out \in GetNewVersionDescriptionImpl(req),
         NEW language, (req.options.language = ZH_CN) = (language = ZH_CN)
  PROVE  /\ out.err.data = <<>>
         /\ out.err.errorNum = SUCCESS =>
              DescriptionsShown(ShownBy("GetNewVersionDescription", out), world, language)
<1> DEFINE m == "GetNewVersionDescription"
           asking == req.options.language
           list == world.components
           missing == {i \in DOMAIN list : list[i].componentId \notin DOMAIN world.changelogs}
           upto == IF missing = {} THEN Len(list)
                   ELSE (CHOOSE i \in missing : \A j \in missing : i <= j) - 1
           value == [i \in 1..upto |-> Description(list[i].componentId, asking)]
           e == IF list = <<>> \/ missing # {} THEN FAIL ELSE SUCCESS
<1>0. out = Outcome(req, SUCCESS, Err(e), value)
  BY DEF GetNewVersionDescriptionImpl, NoError
<1>1. out.err = Err(e) /\ out.value = value
  <2> HIDE DEF value, e
  <2> QED BY <1>0 DEF Outcome
<1>2. out.err.data = <<>> /\ out.err.errorNum = e
  BY <1>1 DEF Err
<1>3. Len(list) \in Nat /\ DOMAIN list = 1..Len(list) /\ (list # <<>> => Len(list) # 0)
  BY CallAssumption
<1>4. /\ Len(list) <= MAX_VECTOR_SIZE
      /\ \A i \in DOMAIN list : list[i].componentId # 0
  BY DEF WorldsAsDeclared
<1>5. ASSUME e = SUCCESS PROVE DescriptionsShown(ShownBy(m, out), world, language)
  <2>1. list # <<>> /\ upto = Len(list)
    BY <1>5 DEF FAIL, SUCCESS
  <2> HIDE DEF upto, e, missing
  <2>2. value = [i \in 1..Len(list) |-> Description(list[i].componentId, asking)]
    BY <2>1
  <2>3. DOMAIN value = 1..Len(list) /\ value = [i \in 1..Len(list) |-> value[i]]
    BY <2>2
  <2>4. IsSeq(value) /\ Len(value) = Len(list) /\ value # <<>>
    <3> HIDE DEF value
    <3>1. IsSeq(value)
      BY <1>3, <2>3, FunctionIsSeq
    <3>2. Len(value) = Len(list)
      BY <1>3, <2>3, <3>1 DEF IsSeq
    <3> QED BY <1>3, <2>1, <3>1, <3>2
  <2>5. \A i \in 1..Len(list) : value[i] = Description(list[i].componentId, asking)
    BY <2>2
  <2>6. \A i \in 1..Len(list) : value[i].componentId # 0
    <3> HIDE DEF value
    <3>0. \A component : Description(component, asking).componentId = component
      BY DEF Description
    <3>1. \A i \in 1..Len(list) : value[i].componentId = list[i].componentId
      BY <2>5, <3>0
    <3> QED BY <1>3, <1>4, <3>1
  <2> HIDE DEF value
  <2> DEFINE cells == WriteVersionDescriptionInfo(value)
             o == DescriptionsRead(value)
  <2>7. ShownBy(m, out) = o
    <3>1. Value("GetNewVersionDescription", value) = cells
      BY Zenon DEF Value
    <3> HIDE DEF cells
    <3>2. ReadValue("GetNewVersionDescription", cells) = ReadVersionDescriptionInfo(cells).v
      BY Zenon DEF ReadValue
    <3> DEFINE q == ReadVersionDescriptionInfo(cells).v
    <3> HIDE DEF q
    <3>3. GetUpdateResult("GetNewVersionDescription", q) = BuildVersionDescriptionInfo(q)
      BY Zenon DEF GetUpdateResult
    <3> QED BY <1>1, <3>1, <3>2, <3>3 DEF ShownBy, q, cells, DescriptionsRead
  <2>8. /\ Len(o) = Len(value) /\ DOMAIN o = DOMAIN value
        /\ \A i \in DOMAIN value :
             /\ o[i].v.componentId.v = value[i].componentId
             /\ o[i].v.descriptionInfo.v.content.v = value[i].content
    <3>1. DescriptionsAsDeclared(value)
      BY <1>4, <2>3, <2>4, <2>6 DEF DescriptionsAsDeclared
    <3> QED BY <3>1, DescriptionsArrive
  <2> HIDE DEF o
  <2>9. ASSUME NEW i \in DOMAIN o PROVE DescriptionShown(o[i], world, list[i].componentId, language)
    <3>1. i \in 1..Len(list)
      BY <2>3, <2>8
    <3>2. /\ o[i].v.componentId.v = Description(list[i].componentId, asking).componentId
          /\ o[i].v.descriptionInfo.v.content.v = Description(list[i].componentId, asking).content
      BY <2>3, <2>5, <2>8, <3>1
    <3> QED BY <3>2, DescriptionIn
  <2>10. DescriptionsShown(o, world, language)
    BY <2>4, <2>8, <2>9 DEF DescriptionsShown
  <2> QED BY <2>7, <2>10
<1> HIDE DEF e
<1> QED BY <1>2, <1>5

\* The description of the current version, when it has a changelog
\* (GetCurrentVersionDescriptionImpl).
LEMMA CurrentDescriptionTold ==
  ASSUME WorldsAsDeclared, NEW req, NEW out \in GetCurrentVersionDescriptionImpl(req),
         NEW language, (req.options.language = ZH_CN) = (language = ZH_CN)
  PROVE  /\ out.err.data = <<>>
         /\ out.err.errorNum = SUCCESS =>
              LET o == ShownBy("GetCurrentVersionDescription", out) IN
              Len(o) = 1 /\ DescriptionShown(o[1], world, world.currentId, language)
<1> DEFINE m == "GetCurrentVersionDescription"
           asking == req.options.language
           id == world.currentId
           d == Description(id, asking)
           value == <<d>>
<1>1. CASE id = 0 \/ id \notin DOMAIN world.changelogs
  <2>1. out = Outcome(req, SUCCESS, Err(FAIL), <<>>)
    BY <1>1 DEF GetCurrentVersionDescriptionImpl
  <2> QED BY <2>1 DEF Outcome, Err, FAIL, SUCCESS
<1>2. CASE ~(id = 0 \/ id \notin DOMAIN world.changelogs)
  <2>1. out.err = NoError /\ out.value = value
    BY <1>2 DEF GetCurrentVersionDescriptionImpl, Outcome
  <2>2. d.componentId # 0
    BY <1>2 DEF Description
  <2> HIDE DEF d
  <2>3. IsSeq(value) /\ Len(value) = 1 /\ value # <<>> /\ DOMAIN value = {1} /\ value[1] = d
    BY OneIsSeq
  <2> HIDE DEF value
  <2>4. Len(value) <= MAX_VECTOR_SIZE
    BY <2>3, ParcelAssumption DEF WorldsAsDeclared
  <2> DEFINE cells == WriteVersionDescriptionInfo(value)
             o == DescriptionsRead(value)
  <2>5. ShownBy(m, out) = o
    <3>1. Value("GetCurrentVersionDescription", value) = cells
      BY Zenon DEF Value
    <3> HIDE DEF cells
    <3>2. ReadValue("GetCurrentVersionDescription", cells) = ReadVersionDescriptionInfo(cells).v
      BY Zenon DEF ReadValue
    <3> DEFINE q == ReadVersionDescriptionInfo(cells).v
    <3> HIDE DEF q
    <3>3. GetUpdateResult("GetCurrentVersionDescription", q) = BuildVersionDescriptionInfo(q)
      BY Zenon DEF GetUpdateResult
    <3> QED BY <2>1, <3>1, <3>2, <3>3 DEF ShownBy, q, cells, DescriptionsRead
  <2>6. /\ Len(o) = 1
        /\ o[1].v.componentId.v = d.componentId
        /\ o[1].v.descriptionInfo.v.content.v = d.content
    <3>1. \A i \in DOMAIN value : value[i].componentId # 0
      BY <2>2, <2>3
    <3>2. DescriptionsAsDeclared(value)
      BY <2>3, <2>4, <3>1 DEF DescriptionsAsDeclared
    <3>3. /\ Len(o) = Len(value)
          /\ \A i \in DOMAIN value :
               /\ o[i].v.componentId.v = value[i].componentId
               /\ o[i].v.descriptionInfo.v.content.v = value[i].content
      BY <3>2, DescriptionsArrive
    <3> QED BY <2>3, <3>3
  <2> HIDE DEF o
  <2>7. DescriptionShown(o[1], world, id, language)
    BY <2>6, DescriptionIn DEF d
  <2> QED BY <2>1, <2>5, <2>6, <2>7 DEF NoError, Err
<1> QED BY <1>1, <1>2

\* What object o shows JavaScript of world w and of switch a, for method m.
ShowsService(m, args, o, w, a) ==
  LET language == args[OptionsOf(m)].v.language.v IN
  /\ m = "GetTaskInfo" => TaskShown(o, w)
  /\ m = "GetNewVersionInfo" => NewVersionShown(o, w)
  /\ m = "GetNewVersionDescription" => DescriptionsShown(o, w, language)
  /\ m = "GetCurrentVersionDescription" =>
       Len(o) = 1 /\ DescriptionShown(o[1], w, w.currentId, language)
  /\ m = "GetCurrentVersionInfo" => o.versionComponents.v[1].v.componentId.v = w.currentId
  /\ m = "GetUpgradePolicy" => o.downloadStrategy.v = a

\* Outcome out of method m tells the truth of world w and switch a.
Told(m, args, out, w, a) ==
  (m \in Showing /\ out.ret = SUCCESS) =>
    /\ out.err.data = <<>>
    /\ out.err.errorNum = SUCCESS => ShowsService(m, args, ShownBy(m, out), w, a)

\* The description is asked for in the language JavaScript gave, or neither is Chinese.
Describing == {"GetNewVersionDescription", "GetCurrentVersionDescription"}
SameLanguage(m, args, options) ==
  m \in Describing => (options.language = ZH_CN) = (args[OptionsOf(m)].v.language.v = ZH_CN)

\* So every outcome tells the truth.
LEMMA OutcomeTold ==
  ASSUME WorldsAsDeclared, world \in Worlds, NEW m, NEW args, NEW out, AnsweredBy(m, out),
         SameLanguage(m, args, out.asked.options)
  PROVE  Told(m, args, out, world, out.switch)
<1> SUFFICES ASSUME m \in Showing, out.ret = SUCCESS
             PROVE  /\ out.err.data = <<>>
                    /\ out.err.errorNum = SUCCESS =>
                         ShowsService(m, args, ShownBy(m, out), world, out.switch)
  BY DEF Told
<1> DEFINE language == args[OptionsOf(m)].v.language.v
           req == out.asked
<1>1. CASE m = "GetTaskInfo"
  <2>1. out \in GetTaskInfoImpl(req)
    BY <1>1 DEF AnsweredBy
  <2> HIDE DEF req
  <2> QED BY <1>1, <2>1, TaskTold DEF ShowsService
<1>2. CASE m = "GetNewVersionInfo"
  <2>1. out \in GetNewVersionInfoImpl(req)
    BY <1>2 DEF AnsweredBy
  <2> HIDE DEF req
  <2> QED BY <1>2, <2>1, NewVersionTold DEF ShowsService
<1>3. CASE m = "GetCurrentVersionInfo"
  <2>1. out \in GetCurrentVersionInfoImpl(req)
    BY <1>3 DEF AnsweredBy
  <2> HIDE DEF req
  <2> QED BY <1>3, <2>1, CurrentVersionTold DEF ShowsService
<1>4. CASE m = "GetUpgradePolicy"
  <2>1. out \in GetUpgradePolicyImpl(req) /\ out.switch = autoDownload
    BY <1>4 DEF AnsweredBy
  <2> HIDE DEF req
  <2> QED BY <1>4, <2>1, PolicyTold DEF ShowsService
<1>5. CASE m = "GetNewVersionDescription"
  <2>1. out \in GetNewVersionDescriptionImpl(req)
    BY <1>5 DEF AnsweredBy
  <2>2. (req.options.language = ZH_CN) = (language = ZH_CN)
    BY <1>5 DEF SameLanguage, Describing
  <2> HIDE DEF req, language
  <2>3. /\ out.err.data = <<>>
        /\ out.err.errorNum = SUCCESS => DescriptionsShown(ShownBy(m, out), world, language)
    BY <1>5, <2>1, <2>2, NewDescriptionTold
  <2> QED BY <1>5, <2>3 DEF ShowsService, language
<1>6. CASE m = "GetCurrentVersionDescription"
  <2>1. out \in GetCurrentVersionDescriptionImpl(req)
    BY <1>6 DEF AnsweredBy
  <2>2. (req.options.language = ZH_CN) = (language = ZH_CN)
    BY <1>6 DEF SameLanguage, Describing
  <2> HIDE DEF req, language
  <2>3. /\ out.err.data = <<>>
        /\ out.err.errorNum = SUCCESS =>
             /\ Len(ShownBy(m, out)) = 1
             /\ DescriptionShown(ShownBy(m, out)[1], world, world.currentId, language)
    BY <1>6, <2>1, <2>2, CurrentDescriptionTold
  <2> QED BY <1>6, <2>3 DEF ShowsService, language
<1> QED BY <1>1, <1>2, <1>3, <1>4, <1>5, <1>6 DEF Showing

\* Parsing leaves the language a caller names in the client, cut when it does not fit
\* (GetDescriptionOptions, NapiUtil::GetString).
LEMMA LanguageTaken ==
  ASSUME NEW c, ClientOK(c), NEW m \in Describing, NEW args, AsDeclared(m, args),
         Named(args[OptionsOf(m)], "language", "string"), Parse(m, c, args).ok
  PROVE  Parse(m, c, args).c.description.language
           = Truncated(args[OptionsOf(m)].v["language"].v)
<1> DEFINE K == {"format", "language"}
           given == args[OptionsOf(m)]
           format == GetDescriptionFormat(given, c.description)
           r == GetDescriptionOptions(given, c.description)
           e == Parse(m, c, args)
           D == GetVersionDigestInfoFromArg(Arg(args, 1), c.digest).v
<1>1. Arg(args, OptionsOf(m)) = given
  <2>1. m \in WithOptionsCalls
    BY DEF Describing, WithOptionsCalls
  <2> QED BY <2>1 DEF AsDeclared, OptionsAsDeclared, Arg
<1>2. /\ e.ok = r.ok
      /\ \/ e.c = [c EXCEPT !["description"] = r.v]
         \/ e.c = [c EXCEPT !["digest"] = D, !["description"] = r.v]
  <2> HIDE DEF r, D
  <2>1. CASE m = "GetNewVersionDescription"
    <3>1. Parse(m, c, args) = ParseUpgOptions(c, args, "description", r)
      BY <1>1, <2>1, ParseOf DEF NapiGetNewVersionDescription, OptionsOf, r
    <3> DEFINE both == [c EXCEPT !["digest"] = D, !["description"] = r.v]
    <3>2. ParseUpgOptions(c, args, "description", r) = [ok |-> r.ok, c |-> both]
      BY DEF ParseUpgOptions, D
    <3> HIDE DEF both, e
    <3>3. e = [ok |-> r.ok, c |-> both]
      BY <3>1, <3>2 DEF e
    <3>4. e.ok = r.ok /\ e.c = both
      BY <3>3
    <3> QED BY <3>4 DEF both
  <2>2. CASE m = "GetCurrentVersionDescription"
    <3>1. Parse(m, c, args) = [ok |-> r.ok, c |-> [c EXCEPT !.description = r.v]]
      BY <1>1, <2>2, ParseOf DEF NapiGetCurrentVersionDescription, OptionsOf, r
    <3> DEFINE one == [c EXCEPT !["description"] = r.v]
    <3> HIDE DEF one, e
    <3>2. e = [ok |-> r.ok, c |-> one]
      BY <3>1 DEF e, one
    <3>3. e.ok = r.ok /\ e.c = one
      BY <3>2
    <3> QED BY <3>3 DEF one
  <2> QED BY <2>1, <2>2 DEF Describing
<1>3. HasMembers(c, ClientFields) /\ HasMembers(c.description, K)
  <2>1. /\ "GetNewVersionDescription" \in WithOptionsCalls
        /\ OptionsMember["GetNewVersionDescription"] = "description"
        /\ OptionNames["GetNewVersionDescription"] = DescriptionOptions
    BY DEF WithOptionsCalls, OptionsMember, OptionNames
  <2>2. HasMembers(c["description"], Range(DescriptionOptions))
    BY <2>1 DEF ClientOK
  <2> QED BY <2>2, NamesOfOptions DEF ClientOK
<1>4. HasMembers(format.v, K)
  BY <1>3, EnumTaken DEF GetDescriptionFormat
<1>5. r = IF ~format.ok THEN format
          ELSE [ok |-> TRUE,
                v |-> [format.v EXCEPT !.language = GetString(given, "language", @)]]
  BY DEF GetDescriptionOptions
<1> HIDE DEF format, e, r, D
<1>6. r.v["language"] = Truncated(given.v["language"].v)
  <2> DEFINE f == format.v
             g == GetString(given, "language", f["language"])
  <2>1. r.ok
    BY <1>2 DEF e
  <2>2. r.v = [f EXCEPT !["language"] = g]
    BY <1>5, <2>1
  <2>3. g = Truncated(given.v["language"].v)
    BY DEF GetString
  <2>4. HasMembers(f, K)
    BY <1>4
  <2> HIDE DEF f, g
  <2> QED BY <2>2, <2>3, <2>4 DEF HasMembers
<1>7. e.c["description"] = r.v
  BY <1>2, <1>3 DEF HasMembers, ClientFields
<1> QED BY <1>6, <1>7 DEF e

\* Cutting a string neither makes the Chinese language nor loses it.
LEMMA ChineseKept ==
  ASSUME LanguagesAsDeclared, NEW s PROVE (Truncated(s) = ZH_CN) = (s = ZH_CN)
<1>1. ZH_CN \notin LongStrings /\ \A x \in LongStrings : x \in Nat /\ -x # ZH_CN
  BY HelperAssumption DEF LanguagesAsDeclared, ZH_CN
<1>2. CASE s \in LongStrings
  BY <1>1, <1>2 DEF Truncated
<1>3. CASE s \notin LongStrings
  BY <1>3 DEF Truncated
<1> QED BY <1>2, <1>3

-----------------------------------------------------------------------------
\* A queued request for a description holds the language JavaScript named.
LanguageInv ==
  (call.step = "queued" /\ call.m \in Describing) =>
    (client.description.language = ZH_CN) = (call.args[OptionsOf(call.m)].v.language.v = ZH_CN)

\* A request that was served and not yet answered: its outcome tells the truth, and the switch
\* is the one it set.
TruthInv ==
  (call.step = "sent" /\ asked.m # "none") =>
    /\ Told(call.m, call.args, truth, world, autoDownload)
    /\ (call.m = "SetUpgradePolicy" /\ truth.ret = SUCCESS) =>
         truth.err = NoError /\ autoDownload = asked.options.downloadStrategy

\* The switch is that of the last policy JavaScript was told is set, unless it is to be told of
\* another one.
SettingPolicy ==
  call.step = "sent" /\ call.m = "SetUpgradePolicy" /\ asked.m # "none" /\ truth.ret = SUCCESS
PolicyInv ==
  (~SettingPolicy /\ policySet.t = "object") => policySet.v.downloadStrategy.v = autoDownload

\* The inductive invariant.
ShownInv ==
  CallInv /\ RequestInv /\ LanguageInv /\ TruthInv /\ PolicyInv /\ AnswerShowsTheService

LEMMA ShownInvInit == ASSUME CallersAsDeclared, Init PROVE ShownInv
<1>1. CallInv /\ RequestInv
  BY CallInvInit, RequestInvInit
<1>2. call.step = "idle" /\ policySet.t = "undefined"
  BY DEF Init, NoCall, Undefined, Js
<1> QED BY <1>1, <1>2 DEF ShownInv, LanguageInv, TruthInv, PolicyInv, AnswerShowsTheService

\* The arguments of a call reach the client with the language they name.
LEMMA CallKeepsShown ==
  ASSUME ArgumentsAsDeclared, LanguagesAsDeclared, ShownInv, NEW i \in DOMAIN Calls, Call(Calls[i])
  PROVE  (LanguageInv /\ TruthInv /\ PolicyInv /\ AnswerShowsTheService)'
<1> DEFINE m == Calls[i].m
           args == Calls[i].args
           parsed == Parse(m, client, args)
           refused == [kind |-> "error", js |-> BuildThrowError(Err(PARAM_ERR))]
<1>1. /\ client' = parsed.c /\ UNCHANGED <<autoDownload, policySet>> /\ call.step = "idle"
      /\ asked'.m = "none"
      /\ call' = [NoCall EXCEPT !.step = IF parsed.ok THEN "queued" ELSE "done", !.m = m,
                                !.args = args, !.answer = IF parsed.ok THEN @ ELSE refused]
  BY DEF Call, NotAsked
<1>2. AsDeclared(m, args) /\ ClientOK(client)
  BY DEF ArgumentsAsDeclared, ShownInv, RequestInv
<1>3. m \in Describing => Named(args[OptionsOf(m)], "language", "string")
  BY DEF LanguagesAsDeclared, Describing
<1>4. refused.kind = "error"
  OBVIOUS
<1>a. /\ m \in Describing /\ parsed.ok =>
           parsed.c.description.language = Truncated(args[OptionsOf(m)].v["language"].v)
  BY <1>2, <1>3, LanguageTaken
<1> HIDE DEF m, args, parsed, refused
<1>5. /\ call'.m = m /\ call'.args = args
      /\ call'.step = "queued" => parsed.ok
      /\ call'.step \in {"queued", "done"}
      /\ call'.step = "done" => call'.answer.kind = "error"
  BY <1>1, <1>4 DEF NoCall
<1>6. LanguageInv'
  <2>1. ASSUME m \in Describing, parsed.ok
        PROVE  (parsed.c.description.language = ZH_CN) = (args[OptionsOf(m)].v["language"].v = ZH_CN)
    BY <1>a, <2>1, ChineseKept
  <2> QED BY <1>1, <1>5, <2>1 DEF LanguageInv
<1>7. PolicyInv'
  BY <1>1, <1>5 DEF PolicyInv, SettingPolicy, ShownInv
<1> QED BY <1>5, <1>6, <1>7 DEF TruthInv, AnswerShowsTheService

\* The service answers for its world, in the language the client holds (OnRemoteRequest).
LEMMA RemoteRequestKeepsShown ==
  ASSUME WorldsAsDeclared, ShownInv, OnRemoteRequest
  PROVE  (LanguageInv /\ TruthInv /\ PolicyInv /\ AnswerShowsTheService)'
<1> DEFINE m == call.m
           args == call.args
           sent == Proxy(m, client)
<1>1. /\ call.step = "queued" /\ m \in Methods /\ asked = NotAsked /\ world \in Worlds
      /\ UNCHANGED <<world, policySet>>
      /\ ClientOK(client) /\ call = [k \in CallFields |-> call[k]]
      /\ LanguageInv
      /\ policySet.t = "object" => policySet.v.downloadStrategy.v = autoDownload
  BY DEF OnRemoteRequest, ShownInv, CallInv, RequestInv, PolicyInv, SettingPolicy
<1>2. sent.code = Code(m)
  BY <1>1, ProxyCode
<1>3. CASE ~IsCallerValid \/ ~IsPermissionGranted(sent.code)
  <2>1. /\ call' = [call EXCEPT !.step = "sent", !.status = CALL_RESULT_OFFSET + Refusal]
        /\ asked' = asked /\ autoDownload' = autoDownload
    BY <1>3 DEF OnRemoteRequest, Refusal
  <2>2. call'.step = "sent"
    BY <1>1, <2>1 DEF CallFields
  <2>3. asked'.m = "none"
    BY <1>1, <2>1 DEF NotAsked
  <2> QED BY <1>1, <2>1, <2>2, <2>3
          DEF LanguageInv, TruthInv, PolicyInv, AnswerShowsTheService
<1>4. CASE IsCallerValid /\ IsPermissionGranted(sent.code)
  <2>1. PICK out \in Handle(sent.code, sent.cells) :
          /\ asked' = out.asked /\ truth' = out /\ autoDownload' = out.switch
          /\ call' = [call EXCEPT !.step = "sent", !.status = CALL_RESULT_OFFSET + out.ret,
                                  !.reply = Reply(m, out)]
    BY <1>4 DEF OnRemoteRequest
  <2>2. AnsweredBy(m, out)
    BY <1>1, <1>2, <2>1, HandleAnswers
  <2>3. Asks(m, client, out.asked)
    BY <1>1, <1>2, <2>1, RequestArrives DEF ClientOK
  <2>4. out.asked.m = m /\ m # "none"
    BY <1>1, <2>3, MethodNames DEF Asks
  <2>5. SameLanguage(m, args, out.asked.options)
    <3> SUFFICES ASSUME m \in Describing
                 PROVE  (out.asked.options.language = ZH_CN)
                          = (args[OptionsOf(m)].v.language.v = ZH_CN)
      BY DEF SameLanguage
    <3>1. /\ m \in WithOptionsCalls /\ OptionNames[m] = DescriptionOptions
          /\ OptionsMember[m] = "description"
      BY DEF Describing, WithOptionsCalls, OptionNames, OptionsMember
    <3>2. "language" \in Range(OptionNames[m])
      BY <3>1, NamesOfOptions
    <3>3. out.asked.options["language"] = client["description"]["language"]
      BY <2>3, <3>1, <3>2 DEF Asks
    <3> QED BY <1>1, <3>3 DEF LanguageInv
  <2>6. Told(m, args, out, world, out.switch)
    BY <1>1, <2>2, <2>5, OutcomeTold
  <2> DEFINE status == CALL_RESULT_OFFSET + out.ret
             reply == Reply(m, out)
  <2> HIDE DEF status, reply, m, args, sent
  <2>7. call' = [call EXCEPT !["step"] = "sent", !["status"] = status, !["reply"] = reply]
    BY <2>1 DEF status, reply
  <2>8. call'.step = "sent" /\ call'.m = m /\ call'.args = args
    BY <1>1, <2>7 DEF CallFields, m, args
  <2>9. TruthInv'
    <3>1. Told(m, args, truth', world', autoDownload')
      BY <1>1, <2>1, <2>6
    <3>2. (m = "SetUpgradePolicy" /\ truth'.ret = SUCCESS) =>
            truth'.err = NoError /\ autoDownload' = asked'.options.downloadStrategy
      BY <2>1, <2>2 DEF AnsweredBy
    <3> QED BY <2>8, <3>1, <3>2 DEF TruthInv
  <2>10. PolicyInv'
    <3>1. ~SettingPolicy' => autoDownload' = autoDownload
      BY <2>1, <2>2, <2>4, <2>8 DEF AnsweredBy, SettingPolicy
    <3> QED BY <1>1, <3>1 DEF PolicyInv
  <2> QED BY <2>8, <2>9, <2>10 DEF LanguageInv, AnswerShowsTheService
<1> QED BY <1>3, <1>4

\* The answer of a method that shows something is made of the value of its outcome
\* (CompleteWork, NotifyJS).
LEMMA AnswerOfOutcome ==
  ASSUME NEW m \in Showing, NEW args, NEW out, Served(m, out), out.ret = SUCCESS,
         out.err.data = <<>>,
         NEW status, status = CALL_RESULT_OFFSET + out.ret,
         NEW err, err = ReadBusinessError(Reply(m, out)),
         NotifyJS(m, CallResult(status), err.v, ReadValue(m, err.rest)).kind = "result"
  PROVE  /\ out.err.errorNum = SUCCESS
         /\ NotifyJS(m, CallResult(status), err.v, ReadValue(m, err.rest)).js.v = ShownBy(m, out)
<1> DEFINE cells == Value(m, out.value)
<1>1. Reply(m, out) = WriteBusinessError(out.err) \o cells
  BY DEF Reply, NoReply, Showing
<1>2. IsSeq(cells)
  BY DEF Served
<1> HIDE DEF cells
<1>3. err.v.errorNum = out.err.errorNum /\ err.rest = cells
  <2>1. ErrorsAsDeclared(out.err.data)
    BY NothingDeclared
  <2> QED BY <1>1, <1>2, <2>1, BusinessErrorArrives
<1>4. CallResult(status) = SUCCESS
  BY DEF CallResult, CALL_RESULT_OFFSET, SUCCESS
<1> DEFINE value == ReadValue(m, cells)
<1> HIDE DEF value
<1>5. NotifyJS(m, SUCCESS, err.v, value)
        = IF IsErrorExist(err.v) THEN [kind |-> "error", js |-> BuildBusinessError(err.v)]
          ELSE [kind |-> "result", js |-> GetUpdateResult(m, value)]
  BY DEF NotifyJS, GetBusinessError
<1>6. /\ ReadValue(m, err.rest) = value
      /\ NotifyJS(m, SUCCESS, err.v, value).kind = "result"
  BY <1>3, <1>4 DEF value
<1>7. ~IsErrorExist(err.v)
  BY <1>5, <1>6
<1>8. NotifyJS(m, SUCCESS, err.v, value).js = GetUpdateResult(m, value)
  BY <1>5, <1>7
<1> QED BY <1>3, <1>4, <1>6, <1>7, <1>8 DEF IsErrorExist, ShownBy, value, cells

\* So an answer shows the service, and the policy that is set is the one asked for.
LEMMA CompleteKeepsShown ==
  ASSUME TransportIsNoResult, ShownInv, CompleteWork
  PROVE  (LanguageInv /\ TruthInv /\ PolicyInv /\ AnswerShowsTheService)'
<1> DEFINE m == call.m
           result == CallResult(call.status)
           read == result = SUCCESS /\ m \notin NoReply
           err == IF read THEN ReadBusinessError(call.reply) ELSE [v |-> NoError, rest |-> <<>>]
           value == IF read THEN ReadValue(m, err.rest) ELSE <<>>
           silent == m = "Cancel" \/ (m = "CheckNewVersion" /\ result = SUCCESS)
           told == NotifyJS(m, result, err.v, value)
           answer == IF silent THEN [kind |-> "nothing", js |-> Undefined] ELSE told
           done == answer.kind = "result"
<1>1. /\ call.step = "sent" /\ SentOK /\ m \in Methods
      /\ call' = [call EXCEPT !.step = "done", !.answer = answer]
      /\ policySet' = IF m = "SetUpgradePolicy" /\ answer.kind = "result" THEN call.args[1]
                      ELSE policySet
      /\ UNCHANGED <<caller, world, autoDownload, asked, truth>>
  BY DEF CompleteWork, ShownInv, CallInv
<1>2. CallInv'
  BY CompleteIsSafe DEF ShownInv
<1>k. answer.kind \in {"nothing", "error", "result"}
  BY DEF NotifyJS
<1>n. m = "SetUpgradePolicy" => answer.kind \in {"error", "result"}
  BY DEF NotifyJS
<1>3. call'.step = "done" /\ call'.m = m /\ call'.args = call.args /\ call'.answer = answer
  <2> HIDE DEF answer
  <2> QED BY <1>1 DEF ShownInv, CallInv, CallFields
<1>4. answer.kind = "result" => /\ asked.m # "none"
                                /\ truth.ret = SUCCESS /\ truth.err.errorNum = SUCCESS
  <2> HIDE DEF answer
  <2> QED BY <1>1, <1>2, <1>3 DEF CallInv, OutcomeIsTrue, SUCCESS
<1>5. SettingPolicy => answer.kind = "result"
  <2> HIDE DEF answer
  <2>1. SettingPolicy => truth.err.errorNum = SUCCESS
    BY DEF SettingPolicy, ShownInv, TruthInv, NoError, Err
  <2>2. SettingPolicy => asked'.m # "none" /\ truth'.ret = SUCCESS /\ truth'.err.errorNum = SUCCESS
    BY <1>1, <2>1 DEF SettingPolicy
  <2> QED BY <1>2, <1>3, <1>n, <2>2 DEF CallInv, OutcomeIsTrue, SettingPolicy
<1>6. asked.m # "none" => /\ Served(m, truth) /\ call.status = CALL_RESULT_OFFSET + truth.ret
                          /\ call.reply = Reply(m, truth)
                          /\ Told(m, call.args, truth, world, autoDownload)
  BY <1>1 DEF SentOK, NotAsked, ShownInv, TruthInv
<1>7. PolicyInv'
  <2> HIDE DEF answer
  <2>1. ~SettingPolicy'
    BY <1>3 DEF SettingPolicy
  <2>2. CASE m = "SetUpgradePolicy" /\ answer.kind = "result"
    <3>1. policySet' = call.args[1] /\ SettingPolicy
      BY <1>1, <1>4, <2>2 DEF SettingPolicy
    <3>2. autoDownload = asked.options["downloadStrategy"]
      BY <3>1 DEF SettingPolicy, ShownInv, TruthInv
    <3>3. asked.options["downloadStrategy"] = call.args[1].v["downloadStrategy"].v
      BY <2>2, <3>1 DEF SettingPolicy, ShownInv, RequestInv, RequestIntact
    <3> QED BY <1>1, <3>1, <3>2, <3>3 DEF PolicyInv
  <2>3. CASE ~(m = "SetUpgradePolicy" /\ answer.kind = "result")
    <3>1. ~SettingPolicy
      BY <1>5, <2>3 DEF SettingPolicy
    <3> QED BY <1>1, <2>3, <3>1 DEF PolicyInv, ShownInv
  <2> QED BY <2>2, <2>3
<1>8. ASSUME answer.kind = "result", m \in Showing
      PROVE  ShowsService(m, call.args, answer.js.v, world, autoDownload)
  <2>1. /\ truth.ret = SUCCESS /\ truth.err.errorNum = SUCCESS
        /\ Served(m, truth) /\ call.status = CALL_RESULT_OFFSET + truth.ret
        /\ call.reply = Reply(m, truth)
        /\ truth.err.data = <<>>
        /\ ShowsService(m, call.args, ShownBy(m, truth), world, autoDownload)
    <3> HIDE DEF answer, m
    <3> QED BY <1>4, <1>6, <1>8 DEF Told
  <2>2. read
    BY <1>8, <2>1 DEF CallResult, CALL_RESULT_OFFSET, SUCCESS, NoReply, Showing
  <2>3. ~silent
    BY <1>8 DEF Showing
  <2> DEFINE e == ReadBusinessError(Reply(m, truth))
  <2> HIDE DEF e
  <2>4. answer = NotifyJS(m, CallResult(call.status), e.v, ReadValue(m, e.rest))
    BY <2>1, <2>2, <2>3 DEF e
  <2> HIDE DEF answer, m
  <2>5. answer.js.v = ShownBy(m, truth)
    BY <1>8, <2>1, <2>4, AnswerOfOutcome DEF e
  <2> QED BY <2>1, <2>5
<1>9. AnswerShowsTheService'
  <2> HIDE DEF answer
  <2>1. ASSUME answer.kind = "result", m = "GetUpgradePolicy", policySet'.t = "object"
        PROVE  policySet'.v.downloadStrategy.v = autoDownload
    <3>1. ~SettingPolicy'
      BY <1>3 DEF SettingPolicy
    <3> QED BY <1>1, <1>7, <2>1, <3>1 DEF PolicyInv
  <2> QED BY <1>1, <1>3, <1>8, <2>1 DEF AnswerShowsTheService, ShowsService, Showing
<1>10. (LanguageInv /\ TruthInv)'
  BY <1>3 DEF LanguageInv, TruthInv
<1> QED BY <1>7, <1>9, <1>10

\* Every step preserves the invariant.
LEMMA ShownInvStep ==
  ASSUME TransportIsNoResult, ArgumentsAsDeclared, WorldsAsDeclared, LanguagesAsDeclared
  PROVE  ShownInv /\ [Next]_vars => ShownInv'
<1> SUFFICES ASSUME ShownInv, [Next]_vars
             PROVE  (LanguageInv /\ TruthInv /\ PolicyInv /\ AnswerShowsTheService)'
  BY CallInvStep, RequestInvStep DEF ShownInv
<1>1. CASE TransportFails
  <2>1. PICK code \in TransportErrors : call' = [call EXCEPT !.step = "sent", !.status = code]
    BY <1>1 DEF TransportFails
  <2>2. /\ call.step = "queued" /\ asked.m = "none"
        /\ UNCHANGED <<autoDownload, asked, policySet>>
    BY <1>1 DEF TransportFails, ShownInv, CallInv, NotAsked
  <2>3. call'.step = "sent"
    BY <2>1 DEF ShownInv, CallInv, CallFields
  <2> QED BY <2>2, <2>3 DEF ShownInv, LanguageInv, TruthInv, PolicyInv, SettingPolicy,
                            AnswerShowsTheService
<1>2. CASE Forget
  <2>1. /\ call.step = "done" /\ call'.step = "idle"
        /\ UNCHANGED <<autoDownload, policySet>>
    BY <1>2 DEF Forget, NoCall
  <2> QED BY <2>1 DEF ShownInv, LanguageInv, TruthInv, PolicyInv, SettingPolicy,
                      AnswerShowsTheService
<1>3. CASE WorldChanges \/ (\E p \in Pushed : Push(p))
  <2>1. call.step = "idle" /\ UNCHANGED <<call, autoDownload, policySet>>
    BY <1>3 DEF WorldChanges, Push
  <2> QED BY <2>1 DEF ShownInv, LanguageInv, TruthInv, PolicyInv, SettingPolicy,
                      AnswerShowsTheService
<1>4. CASE UNCHANGED vars
  BY <1>4 DEF vars, ShownInv, LanguageInv, TruthInv, PolicyInv, SettingPolicy,
              AnswerShowsTheService
<1> QED BY <1>1, <1>2, <1>3, <1>4, CallKeepsShown, RemoteRequestKeepsShown, CompleteKeepsShown
        DEF Next

\* For any worlds, calls and callers as declared, served, refused and failed in any order, what
\* a method shows JavaScript is what the service held when it answered: the task, the size of all
\* the packages of the new version, one description for each component in the language asked for,
\* and the download strategy of the last setUpgradePolicy that succeeded
\* (update_service_impl_firmware.cpp, message_parcel_helper.cpp, client_helper.cpp).
THEOREM AnswerAlwaysShowsTheService ==
  ASSUME TransportIsNoResult, ArgumentsAsDeclared, CallersAsDeclared, WorldsAsDeclared,
         LanguagesAsDeclared
  PROVE  Spec => []AnswerShowsTheService
<1>1. Init => ShownInv
  BY ShownInvInit
<1>2. ShownInv /\ [Next]_vars => ShownInv'
  BY ShownInvStep
<1>3. ShownInv => AnswerShowsTheService
  BY DEF ShownInv
<1> QED BY <1>1, <1>2, <1>3, PTL DEF Spec

-----------------------------------------------------------------------------
(* UpdateCall: types                                                       *)

\* The enumerations in the members of a client.
NetTypesAllowed == {1, 2, 4, 6, 7}
Orders == {1, 2, 3, 4, 6}
EnumsOK(c) ==
  /\ c.download.allowNetwork \in NetTypesAllowed
  /\ c.download.order \in Orders /\ c.upgrade.order \in Orders

\* An enumeration member takes one of its values or none (GetEnum).
LEMMA EnumRead ==
  ASSUME NEW arg, NEW name, NEW values, NEW K, name \in K, NEW o, HasMembers(o, K)
  PROVE  LET r == GetEnum(arg, name, values, o) IN
         /\ HasMembers(r.v, K)
         /\ \A n \in K \ {name} : r.v[n] = o[n]
         /\ o[name] \in values => r.v[name] \in values
BY DEF GetEnum, HasMembers

\* So the options of a download, and of an upgrade, stay in their enumerations
\* (GetDownloadOptions, GetUpgradeOptions).
LEMMA DownloadEnums ==
  ASSUME NEW arg, NEW o, HasMembers(o, {"allowNetwork", "order"}),
         o.allowNetwork \in NetTypesAllowed, o.order \in Orders,
         NEW r, r = GetDownloadOptions(arg, o)
  PROVE  r.v.allowNetwork \in NetTypesAllowed /\ r.v.order \in Orders
<1> DEFINE K == {"allowNetwork", "order"}
           net == GetEnum(arg, "allowNetwork", NetTypesAllowed, o)
           order == GetEnum(arg, "order", Orders, net.v)
<1>1. /\ HasMembers(net.v, K) /\ net.v["order"] = o["order"]
      /\ net.v["allowNetwork"] \in NetTypesAllowed
  <2>1. "allowNetwork" \in K /\ "order" \in K \ {"allowNetwork"} /\ HasMembers(o, K)
    OBVIOUS
  <2> HIDE DEF K
  <2> QED BY <2>1, EnumRead
<1>2. r = IF ~net.ok THEN net ELSE order
  BY DEF GetDownloadOptions, GetNetType, GetOrder, NetTypesAllowed, Orders
<1>3. /\ order.v["allowNetwork"] = net.v["allowNetwork"]
      /\ order.v["order"] \in Orders
  <2> DEFINE f == net.v
  <2>1. /\ "order" \in K /\ "allowNetwork" \in K \ {"order"}
        /\ HasMembers(f, K) /\ f["order"] \in Orders
    BY <1>1
  <2> HIDE DEF K, f
  <2>2. LET x == GetEnum(arg, "order", Orders, f) IN
        x.v["allowNetwork"] = f["allowNetwork"] /\ x.v["order"] \in Orders
    BY <2>1, EnumRead
  <2> QED BY <2>2 DEF f
<1> HIDE DEF net, order
<1> QED BY <1>1, <1>2, <1>3

LEMMA UpgradeEnums ==
  ASSUME NEW arg, NEW o, HasMembers(o, {"order"}), o.order \in Orders,
         NEW r, r = GetUpgradeOptions(arg, o)
  PROVE  r.v.order \in Orders
<1>1. r = GetEnum(arg, "order", Orders, o)
  BY DEF GetUpgradeOptions, GetOrder, Orders
<1> QED BY <1>1, EnumRead

\* How a policy is parsed.
LEMMA PolicyParsed ==
  ASSUME NEW c, NEW args
  PROVE  LET r == GetUpgradePolicyFromArg(Arg(args, 1), c.policy) IN
         Parse("SetUpgradePolicy", c, args) = [ok |-> r.ok, c |-> [c EXCEPT !["policy"] = r.v]]
<1>1. Parse("SetUpgradePolicy", c, args) = NapiSetUpgradePolicy(c, args)
  BY ParseOf
<1> QED BY <1>1 DEF NapiSetUpgradePolicy

\* Two methods write these members, one of them each.
LEMMA EnumMembers ==
  \A m \in WithOptionsCalls :
    /\ m # "Download" => OptionsMember[m] # "download"
    /\ m # "Upgrade" => OptionsMember[m] # "upgrade"
BY DEF WithOptionsCalls, OptionsMember

\* Parsing leaves the enumerations in their bounds, whatever JavaScript gave (update_client.cpp).
LEMMA EnumsKept ==
  ASSUME NEW c, ClientOK(c), EnumsOK(c), NEW m \in Methods, NEW args
  PROVE  EnumsOK(Parse(m, c, args).c)
<1> DEFINE e == Parse(m, c, args)
           D == GetVersionDigestInfoFromArg(Arg(args, 1), c.digest).v
<1>0. HasMembers(c, ClientFields)
  BY DEF ClientOK
<1>1. ASSUME e.c.download = c.download, e.c.upgrade = c.upgrade PROVE EnumsOK(e.c)
  BY <1>1 DEF EnumsOK
<1>2. CASE m = "Download"
  <2> DEFINE r == GetDownloadOptions(Arg(args, 2), c.download)
  <2>1. e.c = [c EXCEPT !["digest"] = D, !["download"] = r.v]
    <3>1. Parse("Download", c, args) = ParseUpgOptions(c, args, "download", r)
      BY ParseOf DEF NapiDownload
    <3>2. ParseUpgOptions(c, args, "download", r)
            = [ok |-> r.ok, c |-> [c EXCEPT !["digest"] = D, !["download"] = r.v]]
      BY DEF ParseUpgOptions
    <3>3. e = Parse("Download", c, args)
      BY <1>2
    <3> DEFINE new == [c EXCEPT !["digest"] = D, !["download"] = r.v]
    <3>4. e = [ok |-> r.ok, c |-> new]
      BY <3>1, <3>2, <3>3
    <3> HIDE DEF r, D, e, new
    <3>5. e.c = new
      BY <3>4
    <3> QED BY <3>5 DEF new
  <2>2. HasMembers(c.download, {"allowNetwork", "order"})
    <3>1. HasMembers(c[OptionsMember["Download"]], Range(OptionNames["Download"]))
      BY DEF ClientOK, WithOptionsCalls
    <3> QED BY <3>1, NamesOfOptions DEF OptionsMember, OptionNames
  <2>3. r.v.allowNetwork \in NetTypesAllowed /\ r.v.order \in Orders
    BY <2>2, DownloadEnums DEF EnumsOK
  <2> HIDE DEF r, D, e
  <2>4. e.c.download = r.v /\ e.c.upgrade = c.upgrade
    BY <1>0, <2>1 DEF HasMembers, ClientFields
  <2> QED BY <2>3, <2>4 DEF EnumsOK, e
<1>3. CASE m = "Upgrade"
  <2> DEFINE r == GetUpgradeOptions(Arg(args, 2), c.upgrade)
  <2>1. e.c = [c EXCEPT !["digest"] = D, !["upgrade"] = r.v]
    <3>1. Parse("Upgrade", c, args) = ParseUpgOptions(c, args, "upgrade", r)
      BY ParseOf DEF NapiUpgrade
    <3>2. ParseUpgOptions(c, args, "upgrade", r)
            = [ok |-> r.ok, c |-> [c EXCEPT !["digest"] = D, !["upgrade"] = r.v]]
      BY DEF ParseUpgOptions
    <3>3. e = Parse("Upgrade", c, args)
      BY <1>3
    <3> DEFINE new == [c EXCEPT !["digest"] = D, !["upgrade"] = r.v]
    <3>4. e = [ok |-> r.ok, c |-> new]
      BY <3>1, <3>2, <3>3
    <3> HIDE DEF r, D, e, new
    <3>5. e.c = new
      BY <3>4
    <3> QED BY <3>5 DEF new
  <2>2. HasMembers(c.upgrade, {"order"})
    <3>1. HasMembers(c[OptionsMember["Upgrade"]], Range(OptionNames["Upgrade"]))
      BY DEF ClientOK, WithOptionsCalls
    <3> QED BY <3>1, NamesOfOptions DEF OptionsMember, OptionNames
  <2>3. r.v.order \in Orders
    BY <2>2, UpgradeEnums DEF EnumsOK
  <2> HIDE DEF r, D, e
  <2>4. e.c.upgrade = r.v /\ e.c.download = c.download
    BY <1>0, <2>1 DEF HasMembers, ClientFields
  <2> QED BY <2>3, <2>4 DEF EnumsOK, e
<1>4. CASE m \in WithOptionsCalls \ {"Download", "Upgrade"}
  <2> DEFINE member == OptionsMember[m]
  <2>1. PICK r : ReadInto(m, c, args, r)
    BY <1>4, OptionsParsed
  <2>2. e.c = IF OptionsOf(m) = 2 THEN [c EXCEPT !["digest"] = D, ![member] = r.v]
              ELSE [c EXCEPT ![member] = r.v]
    BY <2>1 DEF ReadInto
  <2>3. member \notin {"download", "upgrade"}
    BY <1>4, EnumMembers
  <2> HIDE DEF D, e, member
  <2>4. e.c.download = c.download /\ e.c.upgrade = c.upgrade
    BY <1>0, <2>2, <2>3 DEF HasMembers, ClientFields
  <2> QED BY <1>1, <2>4 DEF e
<1>5. CASE m \notin WithOptionsCalls
  <2>1. \/ e.c = c
        \/ \E v : e.c = [c EXCEPT !["policy"] = v]
        \/ \E v : e.c = [c EXCEPT !["files"] = v]
        \/ \E v, w : e.c = [c EXCEPT !["files"] = v, !["certs"] = w]
    <3>1. CASE m = "SetUpgradePolicy"
      <4> DEFINE r == GetUpgradePolicyFromArg(Arg(args, 1), c.policy)
      <4>1. e = [ok |-> r.ok, c |-> [c EXCEPT !["policy"] = r.v]]
        BY <3>1, PolicyParsed
      <4> HIDE DEF r, e
      <4> QED BY <4>1
    <3>2. CASE m = "VerifyUpgradePackage"
      <4> DEFINE file == GetUpgradeFileFromArg(Arg(args, 1))
                 list == <<file.v>>
                 certs == Truncated(args[2].v)
      <4>1. NapiVerifyUpgradePackage(c, args)
              = IF file.ok /\ Arg(args, 2).t = "string"
                THEN [ok |-> TRUE, c |-> [c EXCEPT !["files"] = list, !["certs"] = certs]]
                ELSE [ok |-> FALSE, c |-> c]
        BY DEF NapiVerifyUpgradePackage
      <4>2. e = NapiVerifyUpgradePackage(c, args)
        BY <3>2, ParseOf
      <4> DEFINE new == [c EXCEPT !["files"] = list, !["certs"] = certs]
      <4>3. e = [ok |-> TRUE, c |-> new] \/ e = [ok |-> FALSE, c |-> c]
        BY <4>1, <4>2
      <4> HIDE DEF file, list, certs, e, new
      <4>4. e.c = new \/ e.c = c
        BY <4>3
      <4> QED BY <4>4 DEF new
    <3>3. CASE m = "ApplyNewVersion"
      BY <3>3, ParseOf DEF NapiApplyNewVersion
    <3>4. CASE m \notin {"SetUpgradePolicy", "VerifyUpgradePackage", "ApplyNewVersion"}
      <4>1. Parse(m, c, args) = NapiNoArguments(c, args)
        BY <1>5, <3>4 DEF Parse, WithOptionsCalls
      <4> QED BY <4>1 DEF NapiNoArguments
    <3> QED BY <3>1, <3>2, <3>3, <3>4
  <2> HIDE DEF e
  <2>2. e.c.download = c.download /\ e.c.upgrade = c.upgrade
    BY <1>0, <2>1 DEF HasMembers, ClientFields
  <2> QED BY <1>1, <2>2 DEF e
<1> QED BY <1>2, <1>3, <1>4, <1>5

\* The inductive invariant: a policy that is queued has a boolean strategy.
CallTypes ==
  /\ world \in Worlds /\ autoDownload \in {0, 1} /\ calls \in 0..MaxCalls
  /\ call.step \in {"idle", "queued", "sent", "done"}
  /\ EnumsOK(client)
  /\ asked.m \in Methods \union {"none"}
  /\ asked.m = "Download" => asked.options.allowNetwork \in NetTypesAllowed
  /\ (call.step = "queued" /\ call.m = "SetUpgradePolicy") =>
       client.policy.downloadStrategy \in {0, 1}

LEMMA CallTypesInit == Init => CallTypes
<1> SUFFICES ASSUME Init PROVE CallTypes
  OBVIOUS
<1>1. PICK r : client = [NewClient EXCEPT !.info = r.v]
  BY DEF Init, GetOnlineUpdater
<1>2. client.download = NewClient.download /\ client.upgrade = NewClient.upgrade
  BY <1>1, NewClientOK DEF ClientOK, HasMembers, ClientFields
<1>3. EnumsOK(client)
  BY <1>2 DEF NewClient, EnumsOK, NetTypesAllowed, Orders
<1>4. call.step = "idle" /\ asked.m = "none"
  BY DEF Init, NoCall, NotAsked
<1> QED BY <1>3, <1>4, CallAssumption DEF Init, CallTypes

\* A call that is refused or queued.
LEMMA CallKeepsTypes ==
  ASSUME StrategiesAsDeclared, ArgumentsAsDeclared, RequestInv, CallTypes,
         NEW i \in DOMAIN Calls, Call(Calls[i])
  PROVE  CallTypes'
<1> DEFINE m == Calls[i].m
           args == Calls[i].args
           parsed == Parse(m, client, args)
           answer == IF parsed.ok THEN NoCall.answer
                     ELSE [kind |-> "error", js |-> BuildThrowError(Err(PARAM_ERR))]
<1>1. /\ client' = parsed.c /\ asked' = NotAsked /\ UNCHANGED <<world, autoDownload>>
      /\ calls < MaxCalls /\ calls' = calls + 1
      /\ call' = [NoCall EXCEPT !.step = IF parsed.ok THEN "queued" ELSE "done", !.m = m,
                                !.args = args, !.answer = answer]
  BY DEF Call
<1>2. m \in Methods /\ AsDeclared(m, args) /\ ClientOK(client)
  BY CallAssumption DEF ArgumentsAsDeclared, RequestInv
<1>3. EnumsOK(parsed.c)
  BY <1>2, EnumsKept DEF CallTypes
<1>4. ASSUME m = "SetUpgradePolicy", parsed.ok
      PROVE  parsed.c.policy.downloadStrategy \in {0, 1}
  <2> DEFINE r == GetUpgradePolicyFromArg(Arg(args, 1), client.policy)
  <2>1. parsed.ok = r.ok
    <3>1. parsed = [ok |-> r.ok, c |-> [client EXCEPT !["policy"] = r.v]]
      BY <1>4, PolicyParsed
    <3> HIDE DEF r, parsed
    <3> QED BY <3>1
  <2>2. r.ok => Arg(args, 1).t = "object"
    BY <1>2, PolicyRead DEF ClientOK
  <2>3. Arg(args, 1).t = "object"
    BY <1>4, <2>1, <2>2
  <2>4. args[1].v.downloadStrategy.v \in {0, 1}
    BY <1>4, <2>3 DEF StrategiesAsDeclared
  <2>5. Taken(m, args, parsed.c)
    BY <1>2, <1>4, ArgumentsTaken
  <2> HIDE DEF r, args, parsed
  <2>6. parsed.c.policy["downloadStrategy"] = args[1].v["downloadStrategy"].v
    BY <1>4, <2>5 DEF Taken
  <2> QED BY <2>4, <2>6
<1> HIDE DEF m, args, parsed, answer
<1>5. /\ call'.step = (IF parsed.ok THEN "queued" ELSE "done") /\ call'.m = m
  BY <1>1 DEF NoCall
<1>6. asked'.m = "none"
  BY <1>1 DEF NotAsked
<1>7. calls' \in 0..MaxCalls
  BY <1>1, CallAssumption DEF CallTypes
<1> QED BY <1>1, <1>3, <1>4, <1>5, <1>6, <1>7 DEF CallTypes, EnumsOK

\* The service is asked what the client holds, and keeps the strategy it is asked for.
LEMMA RemoteRequestKeepsTypes ==
  ASSUME RequestInv, CallTypes, OnRemoteRequest
  PROVE  CallTypes'
<1> DEFINE m == call.m
           sent == Proxy(m, client)
<1>1. /\ call.step = "queued" /\ m \in Methods /\ asked = NotAsked
      /\ UNCHANGED <<world, client, calls>> /\ ClientOK(client)
      /\ call = [k \in CallFields |-> call[k]]
  BY DEF OnRemoteRequest, RequestInv
<1>2. sent.code = Code(m)
  BY <1>1, ProxyCode
<1>3. CASE ~IsCallerValid \/ ~IsPermissionGranted(sent.code)
  <2>1. /\ call' = [call EXCEPT !.step = "sent", !.status = CALL_RESULT_OFFSET + Refusal]
        /\ asked' = asked /\ autoDownload' = autoDownload
    BY <1>3 DEF OnRemoteRequest, Refusal
  <2>2. call'.step = "sent"
    BY <1>1, <2>1 DEF CallFields
  <2> QED BY <1>1, <2>1, <2>2 DEF CallTypes, EnumsOK
<1>4. CASE IsCallerValid /\ IsPermissionGranted(sent.code)
  <2>1. PICK out \in Handle(sent.code, sent.cells) :
          /\ asked' = out.asked /\ autoDownload' = out.switch
          /\ call' = [call EXCEPT !.step = "sent", !.status = CALL_RESULT_OFFSET + out.ret,
                                  !.reply = Reply(m, out)]
    BY <1>4 DEF OnRemoteRequest
  <2>2. AnsweredBy(m, out)
    BY <1>1, <1>2, <2>1, HandleAnswers
  <2>3. Asks(m, client, out.asked)
    BY <1>1, <1>2, <2>1, RequestArrives DEF ClientOK
  <2>4. autoDownload' \in {0, 1}
    BY <1>1, <2>1, <2>2, <2>3 DEF AnsweredBy, Asks, CallTypes
  <2>5. asked'.m = m
    BY <2>1, <2>3 DEF Asks
  <2>6. m = "Download" => asked'.options.allowNetwork \in NetTypesAllowed
    <3>1. SUFFICES ASSUME m = "Download" PROVE asked'.options.allowNetwork \in NetTypesAllowed
      OBVIOUS
    <3>2. "allowNetwork" \in Range(OptionNames[m])
      BY <3>1, NamesOfOptions DEF OptionNames
    <3>3. m \in WithOptionsCalls /\ OptionsMember[m] = "download"
      BY <3>1 DEF WithOptionsCalls, OptionsMember
    <3>4. asked'.options["allowNetwork"] = client["download"]["allowNetwork"]
      BY <2>1, <2>3, <3>2, <3>3 DEF Asks
    <3> QED BY <3>4 DEF CallTypes, EnumsOK
  <2> DEFINE status == CALL_RESULT_OFFSET + out.ret
             reply == Reply(m, out)
  <2> HIDE DEF status, reply, m, sent
  <2>7. call' = [call EXCEPT !["step"] = "sent", !["status"] = status, !["reply"] = reply]
    BY <2>1 DEF status, reply
  <2>8. call'.step = "sent"
    BY <1>1, <2>7 DEF CallFields
  <2> QED BY <1>1, <2>4, <2>5, <2>6, <2>8 DEF CallTypes, EnumsOK
<1> QED BY <1>3, <1>4

\* An answer changes nothing of the client but its policy.
LEMMA CompleteKeepsTypes ==
  ASSUME RequestInv, CallTypes, CompleteWork
  PROVE  CallTypes'
<1>1. /\ UNCHANGED <<world, autoDownload, asked, calls>>
      /\ \E answer : call' = [call EXCEPT !.step = "done", !.answer = answer]
      /\ client' = client \/ \E p : client' = [client EXCEPT !.policy = p]
  BY DEF CompleteWork
<1>2. call'.step = "done"
  BY <1>1 DEF RequestInv, CallFields
<1>3. client'.download = client.download /\ client'.upgrade = client.upgrade
  BY <1>1 DEF RequestInv, ClientOK, HasMembers, ClientFields
<1> QED BY <1>1, <1>2, <1>3 DEF CallTypes, EnumsOK

LEMMA CallTypesStep ==
  ASSUME StrategiesAsDeclared, ArgumentsAsDeclared, RequestInv, CallTypes, [Next]_vars
  PROVE  CallTypes'
<1>1. CASE TransportFails
  <2>1. /\ \E code : call' = [call EXCEPT !.step = "sent", !.status = code]
        /\ UNCHANGED <<world, autoDownload, asked, calls, client>>
    BY <1>1 DEF TransportFails
  <2>2. call'.step = "sent"
    BY <2>1 DEF RequestInv, CallFields
  <2> QED BY <2>1, <2>2 DEF CallTypes, EnumsOK
<1>2. CASE Forget
  <2>1. /\ call'.step = "idle" /\ asked'.m = "none"
        /\ UNCHANGED <<world, autoDownload, calls, client>>
    BY <1>2 DEF Forget, NoCall, NotAsked
  <2> QED BY <2>1 DEF CallTypes, EnumsOK
<1>3. CASE WorldChanges \/ (\E p \in Pushed : Push(p)) \/ UNCHANGED vars
  <2>1. world' \in Worlds /\ UNCHANGED <<call, autoDownload, asked, calls, client>>
    BY <1>3 DEF WorldChanges, Push, vars, CallTypes
  <2> QED BY <2>1 DEF CallTypes, EnumsOK
<1> QED BY <1>1, <1>2, <1>3, CallKeepsTypes, RemoteRequestKeepsTypes, CompleteKeepsTypes DEF Next

\* For any callers, calls and worlds as declared, the members of the client and what the service
\* is asked hold only values of the enumerations, also after calls with options that were
\* refused: a parser writes a member only with a value it has found in its enumeration, and the
\* stub reads what the proxy wrote (client_helper.cpp, update_service_stub.cpp).
THEOREM CallTypeCorrect ==
  ASSUME ArgumentsAsDeclared, CallersAsDeclared, StrategiesAsDeclared
  PROVE  Spec => []TypeOK
<1>1. Init => RequestInv /\ CallTypes
  BY RequestInvInit, CallTypesInit
<1>2. RequestInv /\ CallTypes /\ [Next]_vars => (RequestInv /\ CallTypes)'
  BY RequestInvStep, CallTypesStep
<1>3. RequestInv /\ CallTypes => TypeOK
  <2> SUFFICES ASSUME RequestInv, CallTypes PROVE TypeOK
    OBVIOUS
  <2>1. client.info.subType \in {1, 2}
    BY DEF RequestInv, InfoTaken, CallersAsDeclared
  <2> QED BY <2>1 DEF RequestInv, CallTypes, TypeOK, EnumsOK, NetTypesAllowed, Orders
<1> QED BY <1>1, <1>2, <1>3, PTL DEF Spec
=============================================================================
