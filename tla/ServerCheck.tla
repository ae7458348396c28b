----------------------------- MODULE ServerCheck -----------------------------
(***************************************************************************)
(* A check for a new version, from the request to the answer the client    *)
(* sees: the guard against a second check, the connection to the server,   *)
(* the analysis of its answer, and what the answer does to the offer in    *)
(* the tables.                                                             *)
(*                                                                         *)
(* firmware_manual_check_mode.cpp      guards and the result               *)
(* status_cache.cpp                    isChecking_, for five minutes       *)
(* firmware_icheck.h                   connection and reading              *)
(* firmware_check_analyze_utils.cpp    analysis of the answer              *)
(* firmware_check_data_processor.cpp   the offer                           *)
(*                                                                         *)
(* FirmwareUpgrade takes the outcome of a check as a choice of three; here *)
(* the outcome is computed from what the server sends.  An answer is its   *)
(* status, its results, which of their fields are there, and what it says  *)
(* of the descriptions.                                                    *)
(***************************************************************************)
EXTENDS Naturals, Sequences

CONSTANTS
  Checkers,  \* requests under way at a time
  Versions,  \* versions the server offers
  Results    \* the lists of check results it sends

\* A result is about a version and may lack its descriptPackageId, or a field that is no part of
\* the version's name, like the size.
ASSUME CheckAssumption == Results \subseteq Seq([ver : Versions, lacks : {"nothing", "id", "size"}])

VARIABLES
  isChecking,    \* StatusCache::isChecking_
  lastCheckTime, \* "never", "recent" (at most five minutes ago) or "old"
  chk,           \* the requests
  task,          \* status of the task, "NONE" if there is none
  comp,          \* the component table: the components offered
  changelog,     \* the versions whose description was written to its file, or failed to be
  shown          \* what a client was told last

cache == <<isChecking, lastCheckTime>>
store == <<task, comp>>
checkVars == <<cache, chk, store, changelog, shown>>

-----------------------------------------------------------------------------
\* searchStatus, other than HAS_NEW_VERSION: missing, a string where a number belongs, or that of
\* an answer that goes on after its end, which is a text to cJSON and none to nlohmann.
SearchStatus == {"NO_NEW_VERSION", "SERVER_BUSY", "missing", "mistyped", "followed"}

\* descriptInfo: not there, an empty array, an array with a field missing, or whole.
Descriptions == {"missing", "empty", "broken", "whole"}

\* What is no JSON text, or is cut at 4096 bytes.
Garbage == [status |-> "garbage", checkResults |-> FALSE, results |-> <<>>, descriptInfo |-> "missing"]

\* Without a new version, and without checkResults, the rest does not matter.
Answers ==
  {[Garbage EXCEPT !.status = s] : s \in {"garbage", "HAS_NEW_VERSION"} \union SearchStatus}
    \union [status : {"HAS_NEW_VERSION"}, checkResults : {TRUE}, results : Results,
             descriptInfo : Descriptions]

\* A component as analysed, with what its answer said of descriptions.  The size is read into a
\* variable that is not initialised.
Component(v, size, told) == [ver |-> v, size |-> size, told |-> told]

Idle == [pc |-> "idle", answer |-> Garbage, failed |-> FALSE, list |-> <<>>]

CheckInit ==
  /\ isChecking = FALSE /\ lastCheckTime = "never"
  /\ chk = [c \in Checkers |-> Idle]
  /\ task = "NONE" /\ comp = <<>>
  /\ changelog = {}
  /\ shown = [error |-> "SUCCESS", exists |-> FALSE]

At(c, pc) == chk[c].pc = pc
Goto(c, pc) == chk' = [chk EXCEPT ![c].pc = pc]

-----------------------------------------------------------------------------
(* The request *)

\* Fault: the flag alone decides.
IsCheckingForever == isChecking
\* More than five minutes after the last check began the flag does not count.
IsChecking == lastCheckTime # "old" /\ isChecking

\* GetStepAfterInit: refused during a check and while UPDATING.
GetStepAfterInit(c) ==
  /\ At(c, "idle")
  /\ IF IsChecking \/ task = "UPDATING"
     THEN shown' = [error |-> "FAIL", exists |-> FALSE] /\ UNCHANGED chk
     ELSE chk' = [chk EXCEPT ![c] = [Idle EXCEPT !.pc = "execute"]] /\ UNCHANGED shown
  /\ UNCHANGED <<cache, store, changelog>>

\* SetIsChecking, on, and the thread of the check is started.
Execute(c) ==
  /\ At(c, "execute") /\ Goto(c, "connect")
  /\ isChecking' = TRUE /\ lastCheckTime' = "recent"
  /\ UNCHANGED <<store, changelog, shown>>

\* The end of DoAction with CHECK_FAIL.
Fail(c) == chk' = [chk EXCEPT ![c].pc = "complete", ![c].failed = TRUE]

\* DoAction up to the connection.
Connect(c) ==
  /\ At(c, "connect") /\ (Goto(c, "read") \/ Fail(c))
  /\ UNCHANGED <<cache, store, changelog, shown>>

\* Fault: any status passes.
ParseJsonFileAny(a) == a.status \notin {"garbage", "missing"}
\* ParseJsonFile: zero is what counts, and what a string is taken for.
ParseJsonFile(a) == a.status \in {"HAS_NEW_VERSION", "mistyped", "followed"}

\* ReadDataFromSSL returns with answer a.  Nothing limits the time it waits for one.
ReadDataFromSSL(c, a) ==
  /\ At(c, "read")
  /\ chk' = [chk EXCEPT ![c].answer = a,
                        ![c].pc = IF ParseJsonFile(a) THEN "analyze" ELSE "complete",
                        ![c].failed = ~ParseJsonFile(a)]
  /\ UNCHANGED <<cache, store, changelog, shown>>

\* The connection is lost during the handshake or the reading.
ReadFails(c) ==
  /\ At(c, "read") /\ Fail(c)
  /\ UNCHANGED <<cache, store, changelog, shown>>

-----------------------------------------------------------------------------
(* The answer *)

\* AnalyzeBlVersionCheckResults finds its fields in every result; the size is none of them.
AnalyzeBlVersionCheckResults(a) ==
  a.checkResults /\ \A i \in DOMAIN a.results : a.results[i].lacks # "id"

\* The components of the results, if every required part is there; an empty array is as good as
\* descriptions.
AnalyzeComponents(a) ==
  IF /\ \A i \in DOMAIN a.results : a.results[i].lacks = "nothing"
     /\ a.descriptInfo \in {"empty", "whole"}
  THEN [i \in DOMAIN a.results |-> Component(a.results[i].ver, "known", a.descriptInfo)] ELSE <<>>

\* The descriptions of an answer, of however many results, are saved as they are read, each over
\* the one before, as that of the last result, whatever becomes of the rest; a failure is only
\* logged.  Without a result, or if the last has no id, the file has no name but its suffix.
SaveDescription(a) ==
  LET n == Len(a.results) IN
  IF /\ a.status = "HAS_NEW_VERSION" /\ a.descriptInfo \in {"broken", "whole"}
     /\ n > 0 /\ a.results[n].lacks # "id"
  THEN changelog' = changelog \union {a.results[n].ver}
  ELSE UNCHANGED changelog

\* What is left of an answer: the JSON text is gone when DoAnalyze returns.
Analyzed(a) == [Garbage EXCEPT !.status = a.status]

\* Fault: what could be read is offered.
DoAnalyzeAnyway(c) ==
  /\ At(c, "analyze")
  /\ SaveDescription(chk[c].answer)
  /\ LET a == chk[c].answer IN
       chk' = [chk EXCEPT ![c].pc = "complete", ![c].answer = Analyzed(a),
                          ![c].list = [i \in DOMAIN a.results |->
                            Component(a.results[i].ver,
                                      IF a.results[i].lacks = "size" THEN "undefined" ELSE "known",
                                      a.descriptInfo)]]
  /\ UNCHANGED <<cache, store, shown>>
\* DoAnalyze: components only from an answer that is whole.  The check succeeds anyway, even if
\* the text cannot be parsed again.
DoAnalyze(c) ==
  /\ At(c, "analyze")
  /\ SaveDescription(chk[c].answer)
  /\ LET a == chk[c].answer IN
       chk' = [chk EXCEPT ![c].pc = "complete", ![c].answer = Analyzed(a),
                          ![c].list = IF a.status = "HAS_NEW_VERSION" /\ AnalyzeBlVersionCheckResults(a)
                                      THEN AnalyzeComponents(a) ELSE <<>>]
  /\ UNCHANGED <<cache, store, shown>>

\* Complete of the check executor: SetIsChecking, off.
Complete(c) ==
  /\ At(c, "complete") /\ Goto(c, "handle")
  /\ isChecking' = FALSE /\ UNCHANGED lastCheckTime
  /\ UNCHANGED <<store, changelog, shown>>

HasUndoneTask == task \in {"DOWNLOADING", "INSTALLING", "UPDATING"}

\* IsVersionSameWithDb: as many components, each like the first of the table.
IsVersionSameWithDb(list) ==
  Len(list) = Len(comp) /\ \A i \in DOMAIN list : list[i].ver = comp[1].ver

\* HandleCheckResult: an answer with no components clears the offer, one with components the
\* table is taken to have changes nothing.
HandleCheckResult(c) ==
  /\ At(c, "handle") /\ Goto(c, "report")
  /\ LET list == chk[c].list IN
     IF chk[c].failed \/ HasUndoneTask \/ (list # <<>> /\ IsVersionSameWithDb(list))
     THEN UNCHANGED store
     ELSE /\ comp' = list
          /\ task' = IF list = <<>> THEN "NONE" ELSE "CHECK_VERSION_SUCCESS"
  /\ UNCHANGED <<cache, changelog, shown>>

\* HandleComplete: the result is built from the table, unless the check failed.  The error is
\* that of the guards alone.
HandleComplete(c) ==
  /\ At(c, "report")
  /\ shown' = [error |-> "SUCCESS", exists |-> ~chk[c].failed /\ comp # <<>>]
  /\ chk' = [chk EXCEPT ![c] = Idle]
  /\ UNCHANGED <<cache, store, changelog>>

-----------------------------------------------------------------------------
(* The rest of the service *)

\* Five minutes go by, or the clock is set.
TimePasses ==
  /\ lastCheckTime = "recent" /\ lastCheckTime' = "old"
  /\ UNCHANGED <<isChecking, chk, store, changelog, shown>>

\* The upgrade of the offered version goes on, or ends and clears the tables.
UpgradeGoesOn(t) ==
  /\ \/ /\ <<task, t>> \in {<<"CHECK_VERSION_SUCCESS", "DOWNLOADING">>,
                            <<"DOWNLOADING", "DOWNLOAD_SUCCESS">>,
                            <<"DOWNLOAD_SUCCESS", "INSTALLING">>, <<"INSTALLING", "UPDATING">>}
        /\ UNCHANGED comp
     \/ task # "NONE" /\ t = "NONE" /\ comp' = <<>>
  /\ task' = t
  /\ UNCHANGED <<cache, chk, changelog, shown>>

CheckStep(c) ==
  \/ Execute(c) \/ Connect(c) \/ ReadFails(c) \/ DoAnalyze(c) \/ Complete(c)
  \/ HandleCheckResult(c) \/ HandleComplete(c)
  \/ \E a \in Answers : ReadDataFromSSL(c, a)

CheckNext ==
  \/ \E c \in Checkers : GetStepAfterInit(c) \/ CheckStep(c)
  \/ TimePasses
  \/ \E t \in {"DOWNLOADING", "DOWNLOAD_SUCCESS", "INSTALLING", "UPDATING", "NONE"} :
       UpgradeGoesOn(t)

CheckSpec == CheckInit /\ [][CheckNext]_checkVars

\* Time passes.  The server need not answer: SSL_read has no timeout.
FairSpec == CheckSpec /\ WF_checkVars(TimePasses)

-----------------------------------------------------------------------------
(* Properties *)

\* Type correctness.
CheckTypeOK ==
  /\ isChecking \in BOOLEAN /\ lastCheckTime \in {"never", "recent", "old"}
  /\ task \in {"NONE", "CHECK_VERSION_SUCCESS", "DOWNLOADING", "DOWNLOAD_SUCCESS", "INSTALLING", "UPDATING"}
  /\ (task = "NONE") = (comp = <<>>)
  /\ \A c \in Checkers :
       /\ chk[c].pc \in {"idle", "execute", "connect", "read", "analyze", "complete", "handle", "report"}
       /\ chk[c].answer \in Answers \union {Analyzed(a) : a \in Answers}

\* The last of the components has a description on disk, or writing it failed, if its answer had
\* descriptions.
LastIsDescribed(list) ==
  list # <<>> => LET last == list[Len(list)] IN
                 last.told = "whole" => last.ver \in changelog

\* Whatever the server leaves out, components reach the tables only from an answer that is
\* whole: no field of them was never read (the error sum in DoAnalyze, and componetSize that is
\* not initialised), and the last of them is described, unless the answer's list of descriptions
\* was empty.  No more can be said: the others of several are never described.
OfferIsWhole == (\A i \in DOMAIN comp : comp[i].size = "known") /\ LastIsDescribed(comp)

\* A check that got no usable answer leaves the offer, and with it a downloaded package, as
\* they are: no text, no status, a busy server (ParseJsonFile, IsCheckFailed).
FailureKeepsOffer ==
  [][\A c \in Checkers :
       /\ At(c, "handle") /\ chk'[c].pc = "report"
       /\ chk[c].answer.status \in {"garbage", "missing", "SERVER_BUSY"}
       => UNCHANGED store]_checkVars

\* A check that hangs does not keep further checks away for good (IsChecking).
GuardOpens == IsChecking ~> ~IsChecking
=============================================================================
