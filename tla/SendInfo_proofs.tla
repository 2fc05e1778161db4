--------------------------- MODULE SendInfo_proofs ---------------------------
(***************************************************************************)
(* The requests of send_info.c, for any number of answers: types, what a   *)
(* request that returns true has done, and what a request leaves behind.   *)
(***************************************************************************)
EXTENDS SendInfo, TLAPS

USE AnswersAssumption, SilentAssumption

-----------------------------------------------------------------------------
(***************************************************************************)
(* Types.  ReqTypeOK is not inductive: freeing data_json needs a string to *)
(* be allocated.                                                           *)
(***************************************************************************)
DataAllocated ==
  req.step # "done" /\ req.data = "json" => req.jsons > 0

\* The empty request is well typed.
LEMMA NoRequestType ==
  /\ NoRequest \in Requests
  /\ NoRequest.answers = <<>> /\ NoRequest.data = "unset"
BY DEF NoRequest, Requests, Kinds, Steps

\* A request of send_info.c that is just begun is well typed, and has neither
\* an answer nor anything allocated.
LEMMA BeginType ==
  ASSUME NEW kind \in Kinds
  PROVE  /\ Begin(kind) \in Requests
         /\ Begin(kind).answers = <<>> /\ Begin(kind).data = "unset"
BY NoRequestType DEF Begin, Requests, Kinds, Steps

\* free(data_json) changes nothing but the number of strings, which stays a
\* natural number when the string was allocated.
LEMMA FreeDataType ==
  ASSUME NEW r \in Requests, r.data = "json" => r.jsons > 0
  PROVE  /\ FreeData(r) \in Requests
         /\ FreeData(r).answers = r.answers /\ FreeData(r).step = r.step
BY DEF FreeData, Requests

\* What a callback of send_info.c makes of an answer is well typed, has one
\* answer more, and does not name a string that is not allocated.
LEMMA JudgeType ==
  ASSUME NEW r \in Requests, r.data = "json" => r.jsons > 0,
         NEW answer \in {"valid", "invalid"}, NEW s \in Judge(r, answer)
  PROVE  /\ s \in Requests
         /\ Len(s.answers) = Len(r.answers) + 1
         /\ s.data = "json" => s.jsons > 0
<1>1. /\ Append(r.answers, answer) \in Seq({"valid", "invalid"})
      /\ Len(Append(r.answers, answer)) = Len(r.answers) + 1
  BY DEF Requests
<1>2. CASE s = [r EXCEPT !.answers = Append(@, answer), !.success = "no"]
  BY <1>1, <1>2 DEF Requests
<1>3. CASE s = [r EXCEPT !.answers = Append(@, answer), !.success = "yes",
                         !.data = "json", !.jsons = @ + 1]
  <2>1. /\ s = [r EXCEPT !.answers = Append(r.answers, answer),
                        !.success = "yes", !.data = "json",
                        !.jsons = r.jsons + 1]
        /\ r.jsons + 1 \in Nat /\ r.jsons + 1 > 0
    BY <1>3 DEF Requests
  <2>2. s \in Requests
    BY <1>1, <2>1 DEF Requests
  <2>3. s.answers = Append(r.answers, answer) /\ s.jsons = r.jsons + 1
    BY <2>1 DEF Requests
  <2>4. QED
    BY <1>1, <2>1, <2>2, <2>3
<1>4. CASE s = [r EXCEPT !.answers = Append(@, answer), !.success = "yes",
                         !.data = "null"]
  BY <1>1, <1>4 DEF Requests
<1>5. QED
  BY <1>2, <1>3, <1>4 DEF Judge

\* A callback leaves the request where it is, marks the answer, and assigns
\* data_json when the answer is valid.
LEMMA JudgeSettles ==
  ASSUME NEW r \in Requests, NEW answer \in {"valid", "invalid"},
         NEW s \in Judge(r, answer)
  PROVE  /\ s.step = r.step
         /\ s.success = "no" \/ (s.success = "yes" /\ s.data # "unset")
<1> DEFINE more == r.jsons + 1
           grown == Append(r.answers, answer)
<1>1. \/ s = [r EXCEPT !.answers = grown, !.success = "no"]
      \/ s = [r EXCEPT !.answers = grown, !.success = "yes",
                       !.data = "json", !.jsons = more]
      \/ s = [r EXCEPT !.answers = grown, !.success = "yes", !.data = "null"]
  BY DEF Judge
<1> HIDE DEF more, grown
<1>2. QED
  BY <1>1 DEF Requests

\* The steps of a request keep it well typed: free(data_json) never releases
\* more strings than the callbacks allocated.
LEMMA RequestTypes ==
  ASSUME ReqTypeOK, DataAllocated, NEW open \in BOOLEAN, RequestStep(open)
  PROVE  ReqTypeOK' /\ DataAllocated'
<1>1. CASE LookupFound
  BY <1>1 DEF LookupFound, ReqTypeOK, DataAllocated, Requests, Steps
<1>2. CASE LookupFails
  BY <1>2 DEF LookupFails, ReqTypeOK, DataAllocated, Requests, Steps
<1>3. CASE BuildArguments
  BY <1>3 DEF BuildArguments, ReqTypeOK, DataAllocated, Requests, Steps
<1>4. CASE Answer
  <2>1. PICK answer \in {"valid", "invalid"} : req' \in Judge(req, answer)
    BY <1>4 DEF Answer
  <2>2. /\ req.data = "json" => req.jsons > 0
        /\ Len(req.answers) \in Nat /\ Len(req.answers) < MaxAnswers
    BY <1>4 DEF Answer, DataAllocated, ReqTypeOK, Requests
  <2>3. /\ req' \in Requests /\ Len(req'.answers) = Len(req.answers) + 1
        /\ req'.data = "json" => req'.jsons > 0
    BY <2>1, <2>2, JudgeType DEF ReqTypeOK
  <2>4. QED
    BY <1>4, <2>2, <2>3 DEF Answer, ReqTypeOK, DataAllocated
<1>5. CASE InvokeFails
  BY <1>5 DEF InvokeFails, ReqTypeOK, DataAllocated, Requests, Steps
<1>6. CASE InvokeOk
  BY <1>6 DEF InvokeOk, ReqTypeOK, DataAllocated, Requests, Steps
<1>7. CASE Report(open)
  <2>1. PICK r : /\ req' = FreeData(r) /\ r \in Requests
                 /\ r.data = "json" => r.jsons > 0
                 /\ r.answers = req.answers /\ r.step = "done"
    <3>1. CASE req' = FreeData([req EXCEPT !.step = "done"])
      BY <1>7, <3>1
         DEF Report, ReqTypeOK, DataAllocated, Requests, Steps
    <3>2. CASE req' = FreeData([req EXCEPT !.step = "done", !.result = TRUE,
                                 !.published = IF req.data = "json"
                                               THEN "json" ELSE "garbage"])
      <4> DEFINE what == IF req.data = "json" THEN "json" ELSE "garbage"
                 r == [req EXCEPT !.step = "done", !.result = TRUE,
                                  !.published = what]
      <4>1. what \in {"nothing", "json", "garbage"}
        OBVIOUS
      <4>2. req \in Requests /\ (req.data = "json" => req.jsons > 0)
        BY <1>7 DEF Report, ReqTypeOK, DataAllocated
      <4> HIDE DEF what
      <4>3. r \in Requests
        BY <4>1, <4>2 DEF Requests, Steps
      <4>4. /\ r.data = req.data /\ r.jsons = req.jsons
            /\ r.answers = req.answers /\ r.step = "done"
        BY <4>2 DEF Requests
      <4>5. req' = FreeData(r)
        BY <3>2 DEF what
      <4> HIDE DEF r
      <4>6. QED
        BY <4>2, <4>3, <4>4, <4>5
    <3>3. QED
      BY <1>7, <3>1, <3>2 DEF Report
  <2>2. /\ req' \in Requests
        /\ req'.answers = req.answers /\ req'.step = "done"
    BY <2>1, FreeDataType
  <2>3. QED
    BY <1>7, <2>2 DEF Report, ReqTypeOK, DataAllocated
<1>8. CASE RequestCrashes
  BY <1>8 DEF RequestCrashes, ReqTypeOK, DataAllocated
<1>9. QED
  BY <1>1, <1>2, <1>3, <1>4, <1>5, <1>6, <1>7, <1>8 DEF RequestStep

-----------------------------------------------------------------------------
(***************************************************************************)
(* What a request knows and holds, from its begin to its result.           *)
(***************************************************************************)
\* request_successful and data_json tell of the last answer.
Judged(r) ==
  /\ r.success = "unset" <=> r.answers = <<>>
  /\ r.answers # <<>> => (r.success = "yes" <=> Last(r.answers) = "valid")
  /\ r.success = "yes" => r.data # "unset"

\* As long as there was one answer at most, data_json is all there is to free.
Counted(r) ==
  Len(r.answers) <= 1 =>
    /\ r.jsons = IF r.data = "json" THEN 1 ELSE 0
    /\ r.success # "yes" => r.data = "unset"

AccountInv ==
  /\ Judged(req)
  /\ req.step # "done" => Counted(req) /\ ~req.result
  /\ req.step \in {"idle", "lookup", "build"} =>
       req.answers = <<>> /\ req.status = "none" /\ ~req.blob
  /\ req.step = "build" => req.kind = "pin"
  /\ req.step = "invoke" =>
       req.status = "none" /\ (req.blob => req.kind = "pin")
  /\ req.step = "report" =>
       /\ req.status = "ok" /\ ~req.blob
       /\ req.success = "yes" \/ SilentReplies
  /\ ~SilentReplies => TrueMeansSent
  /\ SettledRequestFreesAll
  /\ LeaksAreLate

\* A request that does not exist yet, or has just begun, holds nothing.
LEMMA BeginAccount ==
  ASSUME req' = NoRequest \/ \E kind \in Kinds : req' = Begin(kind)
  PROVE  AccountInv'
<1>1. /\ req'.step \in {"idle", "lookup"} /\ req'.answers = <<>>
      /\ req'.success = "unset" /\ req'.data = "unset" /\ req'.jsons = 0
      /\ ~req'.result /\ ~req'.blob /\ req'.status = "none"
  <2>1. CASE req' = NoRequest
    BY <2>1 DEF NoRequest
  <2>2. ASSUME NEW kind \in Kinds, req' = Begin(kind)
        PROVE  <1>1!1 /\ <1>1!2 /\ <1>1!3
    BY <2>2 DEF Begin, NoRequest
  <2> QED BY <2>1, <2>2
<1> QED BY <1>1 DEF AccountInv, Judged, Counted, TrueMeansSent,
                    SettledRequestFreesAll, LeaksAreLate

\* One more answer: the callback marks it, and counts what it allocates.
LEMMA JudgeAccount ==
  ASSUME NEW r \in Requests, Counted(r), Judged(r),
         NEW answer \in {"valid", "invalid"}, NEW s \in Judge(r, answer)
  PROVE  /\ Judged(s) /\ Counted(s) /\ s.answers # <<>>
         /\ s.step = r.step /\ s.kind = r.kind /\ s.status = r.status
         /\ s.blob = r.blob /\ s.result = r.result
<1> DEFINE more == r.jsons + 1
           grown == Append(r.answers, answer)
<1>1. \/ answer = "invalid" /\ s = [r EXCEPT !.answers = grown, !.success = "no"]
      \/ answer = "valid" /\ s = [r EXCEPT !.answers = grown, !.success = "yes",
                                         !.data = "json", !.jsons = more]
      \/ answer = "valid" /\ s = [r EXCEPT !.answers = grown, !.success = "yes",
                                         !.data = "null"]
  BY DEF Judge
<1>2. /\ Len(grown) = Len(r.answers) + 1 /\ Last(grown) = answer
      /\ grown # <<>> /\ Len(r.answers) \in Nat
      /\ Len(r.answers) = 0 => r.answers = <<>>
  BY DEF Requests, Last
<1>3. Len(r.answers) = 0 => r.jsons = 0 /\ more = 1 /\ r.data = "unset"
  BY <1>2 DEF Counted, Judged, Requests
<1> HIDE DEF more, grown
<1>4. /\ s.answers = grown
      /\ s.step = r.step /\ s.kind = r.kind /\ s.status = r.status
      /\ s.blob = r.blob /\ s.result = r.result
  BY <1>1 DEF Requests
<1>5. \/ /\ answer = "invalid" /\ s.success = "no"
         /\ s.data = r.data /\ s.jsons = r.jsons
      \/ /\ answer = "valid" /\ s.success = "yes"
         /\ s.data = "json" /\ s.jsons = more
      \/ /\ answer = "valid" /\ s.success = "yes"
         /\ s.data = "null" /\ s.jsons = r.jsons
  BY <1>1 DEF Requests
<1>6. Judged(s)
  BY <1>2, <1>4, <1>5 DEF Judged
<1>7. Counted(s)
  BY <1>2, <1>3, <1>4, <1>5 DEF Counted
<1> QED BY <1>2, <1>4, <1>6, <1>7

\* Every step of a request keeps the account.
LEMMA RequestAccount ==
  ASSUME ReqTypeOK, AccountInv, NEW open \in BOOLEAN, RequestStep(open)
  PROVE  AccountInv'
<1> USE DEF TrueMeansSent, SettledRequestFreesAll, LeaksAreLate
<1>0. req \in Requests
  BY DEF ReqTypeOK
<1>a. ASSUME /\ req'.answers = req.answers /\ req'.success = req.success
             /\ req'.data = req.data
      PROVE  Judged(req)' /\ (req'.jsons = req.jsons /\ Counted(req)
                                => Counted(req)')
  BY <1>a DEF AccountInv, Judged, Counted
<1>1. CASE LookupFound \/ LookupFails \/ BuildArguments
  <2>1. /\ req'.answers = req.answers /\ req'.success = req.success
        /\ req'.data = req.data /\ req'.jsons = req.jsons
        /\ req'.result = req.result /\ req'.kind = req.kind
        /\ req'.status = req.status
        /\ \/ /\ req.step = "lookup" /\ req'.blob = req.blob
              /\ \/ req'.step = "build" /\ req.kind = "pin"
                 \/ req'.step \in {"invoke", "done"}
           \/ /\ req.step = "build"
              /\ req'.step \in {"invoke", "done"}
    BY <1>0, <1>1 DEF LookupFound, LookupFails, BuildArguments, Requests
  <2>2. Counted(req)' /\ Judged(req)'
    BY <1>a, <2>1 DEF AccountInv
  <2>3. req'.jsons = 0 /\ req'.answers = <<>>
    BY <2>1 DEF AccountInv, Counted, Judged
  <2> QED BY <2>1, <2>2, <2>3 DEF AccountInv
<1>2. CASE Answer
  <2>1. PICK answer \in {"valid", "invalid"} : req' \in Judge(req, answer)
    BY <1>2 DEF Answer
  <2>2. req.step = "invoke" /\ Counted(req) /\ Judged(req)
    BY <1>2 DEF Answer, AccountInv
  <2>3. /\ Judged(req') /\ Counted(req')
        /\ req'.step = "invoke" /\ req'.kind = req.kind
        /\ req'.status = req.status
        /\ req'.blob = req.blob /\ req'.result = req.result
    BY <1>0, <2>1, <2>2, JudgeAccount
  <2>4. Judged(req)' /\ Counted(req)'
    BY <2>3 DEF Judged, Counted
  <2> QED BY <2>2, <2>3, <2>4 DEF AccountInv
<1>3. CASE InvokeFails \/ InvokeOk
  <2>1. /\ req'.answers = req.answers /\ req'.success = req.success
        /\ req'.data = req.data /\ req'.jsons = req.jsons
        /\ req'.result = req.result /\ req'.kind = req.kind
        /\ req.step = "invoke" /\ ~req'.blob
        /\ \/ req'.step = "done" /\ req'.status = "failed"
           \/ req'.step = "done" /\ req'.status = "ok" /\ req.success # "yes"
           \/ /\ req'.step = "report" /\ req'.status = "ok"
              /\ req.success # "no"
              /\ req.answers # <<>> \/ SilentReplies
    BY <1>0, <1>3 DEF InvokeFails, InvokeOk, Requests
  <2>2. Counted(req)' /\ Judged(req)' /\ ~req'.result
    BY <1>a, <2>1 DEF AccountInv
  <2>3. req'.step = "report" => req'.success = "yes" \/ SilentReplies
    BY <1>0, <2>1 DEF AccountInv, Judged, Requests
  <2>4. req'.step = "done" /\ req'.status = "ok" /\ Len(req'.answers) <= 1
          => req'.jsons = 0
    BY <2>1, <2>2 DEF Counted
  <2>5. /\ Len(req'.answers) \in Nat /\ req'.jsons \in Nat
    BY <1>0, <2>1 DEF Requests
  <2> QED BY <2>1, <2>2, <2>3, <2>4, <2>5 DEF AccountInv
<1>4. CASE Report(open)
  <2>1. /\ req'.answers = req.answers /\ req'.success = req.success
        /\ req'.data = req.data /\ req'.kind = req.kind
        /\ req'.status = req.status /\ req'.blob = req.blob
        /\ req.step = "report" /\ req'.step = "done"
        /\ req'.jsons = IF req.data = "json" THEN req.jsons - 1 ELSE req.jsons
        /\ req'.result => req.data # "null"
        /\ req'.result /\ req.data = "json" => req'.published = "json"
    <3>1. CASE req' = FreeData([req EXCEPT !.step = "done"])
      BY <1>0, <1>4, <3>1 DEF Report, FreeData, Requests, AccountInv
    <3>2. CASE /\ req.data # "null"
               /\ req' = FreeData([req EXCEPT !.step = "done", !.result = TRUE,
                                 !.published = IF req.data = "json"
                                               THEN "json" ELSE "garbage"])
      <4> DEFINE what == IF req.data = "json" THEN "json" ELSE "garbage"
                 r == [req EXCEPT !.step = "done", !.result = TRUE,
                                  !.published = what]
      <4>1. req.data = "json" => what = "json"
        OBVIOUS
      <4>2. req' = FreeData(r)
        BY <3>2
      <4> HIDE DEF what
      <4>3. /\ r.answers = req.answers /\ r.success = req.success
            /\ r.data = req.data /\ r.kind = req.kind
            /\ r.status = req.status /\ r.blob = req.blob
            /\ r.step = "done" /\ r.jsons = req.jsons /\ r.published = what
            /\ r = [r EXCEPT !.jsons = @]
        BY <1>0 DEF Requests
      <4>4. /\ req'.answers = r.answers /\ req'.success = r.success
            /\ req'.data = r.data /\ req'.kind = r.kind
            /\ req'.status = r.status /\ req'.blob = r.blob
            /\ req'.step = r.step /\ req'.published = r.published
            /\ req'.jsons = IF r.data = "json" THEN r.jsons - 1 ELSE r.jsons
        BY <1>0, <4>2 DEF FreeData, Requests
      <4> HIDE DEF r
      <4> QED BY <1>4, <3>2, <4>1, <4>3, <4>4 DEF Report
    <3> QED BY <1>4, <3>1, <3>2 DEF Report
  <2>2. Judged(req)' /\ Counted(req)
    BY <1>a, <2>1 DEF AccountInv
  <2>3. Len(req'.answers) <= 1 => req'.jsons = 0
    BY <1>0, <2>1, <2>2 DEF Counted, Requests
  <2>4. ASSUME ~SilentReplies, req'.result
        PROVE  /\ req'.published = "json" /\ req'.answers # <<>>
               /\ Last(req'.answers) = "valid"
    <3>1. req.success = "yes" /\ Judged(req)
      BY <2>1, <2>4 DEF AccountInv
    <3>2. req.data = "json" /\ req.answers # <<>>
          /\ Last(req.answers) = "valid"
      BY <1>0, <2>1, <2>4, <3>1 DEF Judged, Requests
    <3> QED BY <2>1, <2>4, <3>2
  <2>5. req'.status = "ok" /\ ~req'.blob
    BY <2>1 DEF AccountInv
  <2>6. Len(req'.answers) \in Nat /\ Last(req'.answers) = Last(req.answers)
    BY <1>0, <2>1 DEF Requests
  <2>7. TrueMeansSent' \/ SilentReplies
    BY <2>4
  <2> QED BY <2>1, <2>2, <2>3, <2>5, <2>6, <2>7 DEF AccountInv
<1>5. CASE RequestCrashes
  BY <1>5 DEF RequestCrashes, AccountInv, Judged, Counted
<1> QED BY <1>1, <1>2, <1>3, <1>4, <1>5 DEF RequestStep

-----------------------------------------------------------------------------
ReqInv == ReqTypeOK /\ DataAllocated /\ AccountInv

LEMMA ReqInitInv == ReqInit => ReqInv
<1> SUFFICES ASSUME ReqInit
             PROVE  ReqInv
  OBVIOUS
<1>1. /\ req.step = "idle" /\ req.answers = <<>>
      /\ req.success = "unset" /\ req.data = "unset" /\ req.jsons = 0
      /\ ~req.result /\ ~req.blob /\ req.status = "none"
  BY DEF ReqInit, NoRequest
<1>2. AccountInv
  BY <1>1 DEF AccountInv, Judged, Counted, TrueMeansSent,
              SettledRequestFreesAll, LeaksAreLate
<1>3. ReqTypeOK
  BY NoRequestType DEF ReqInit, ReqTypeOK, UbusStates
<1> QED BY <1>1, <1>2, <1>3 DEF ReqInv, DataAllocated

LEMMA ReqStepInv == ReqInv /\ [ReqNext]_reqVars => ReqInv'
<1> SUFFICES ASSUME ReqInv, [ReqNext]_reqVars
             PROVE  ReqInv'
  OBVIOUS
<1>1. CASE Call
  <2>1. PICK kind \in Kinds : req' = Begin(kind)
    BY <1>1 DEF Call
  <2>2. AccountInv'
    BY <2>1, BeginAccount
  <2>3. req' \in Requests /\ req'.answers = <<>> /\ req'.data = "unset"
    BY <2>1, BeginType
  <2> QED BY <1>1, <2>2, <2>3 DEF Call, ReqInv, ReqTypeOK, DataAllocated
<1>2. ASSUME NEW open \in BOOLEAN, RequestStep(open)
      PROVE  ReqInv'
  BY <1>2, RequestTypes, RequestAccount DEF ReqInv
<1>3. CASE UbusLost \/ ContextFreed \/ UNCHANGED reqVars
  <2>1. req' = req /\ process' = process /\ ubus' \in {ubus, "lost", "freed"}
    BY <1>3 DEF UbusLost, ContextFreed, reqVars
  <2> QED BY <2>1 DEF ReqInv, ReqTypeOK, UbusStates, DataAllocated, AccountInv,
                      Judged, Counted, TrueMeansSent,
                      SettledRequestFreesAll, LeaksAreLate
<1> QED BY <1>1, <1>2, <1>3 DEF ReqNext, Killed

LEMMA ReqInvariant == ReqSpec => []ReqInv
BY ReqInitInv, ReqStepInv, PTL DEF ReqSpec

\* Where every service answers before it returns OK, a request that returns
\* true has published the JSON of its last answer, and that was valid, however
\* many answers there were.
THEOREM TrueIsSent ==
  ASSUME ~SilentReplies
  PROVE  ReqSpec => []TrueMeansSent
<1>1. ReqInv => TrueMeansSent
  BY DEF ReqInv, AccountInv
<1> QED BY <1>1, ReqInvariant, PTL

\* Silent services or not: after one answer at most everything is released,
\* and what is not released after more is one of the known leaks.
THEOREM RequestsRelease == ReqSpec => [](SettledRequestFreesAll /\ LeaksAreLate)
<1>1. ReqInv => SettledRequestFreesAll /\ LeaksAreLate
  BY DEF ReqInv, AccountInv
<1> QED BY <1>1, ReqInvariant, PTL

\* free(data_json) never releases a string that was not allocated.
THEOREM RequestsTyped == ReqSpec => []ReqTypeOK
<1>1. ReqInv => ReqTypeOK
  BY DEF ReqInv
<1> QED BY <1>1, ReqInvariant, PTL
=============================================================================
