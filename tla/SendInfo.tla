------------------------------ MODULE SendInfo ------------------------------
(***************************************************************************)
(* The three requests of send_info.c: memory information, the list of      *)
(* connected devices, switching a pin.  Each looks up a ubus service,      *)
(* invokes a method of it, lets a callback judge every answer, and reports *)
(* what it got as a property of the device.                                *)
(*                                                                         *)
(* Memory is modelled where the code can get it wrong: the response on the *)
(* stack that only the callback initialises, the JSON strings the callback *)
(* allocates, the blob buffer of a pin command, and the ubus context.      *)
(* A use of released or uninitialised memory may kill the process or go    *)
(* either way.                                                             *)
(***************************************************************************)
EXTENDS Integers, Sequences, SequencesExt

CONSTANTS
  MaxAnswers,     \* bound: answers one invocation may deliver
  SilentReplies   \* TRUE: a service may return OK without any answer

ASSUME AnswersAssumption == MaxAnswers \in Nat \ {0}
ASSUME SilentAssumption == SilentReplies \in BOOLEAN

VARIABLES
  ubus,      \* the ubus context
  req,       \* the request in progress
  process    \* the process it runs in

reqVars == <<ubus, req, process>>

\* unset: the variable of main is not assigned yet.  null: ubus_connect
\* failed.  lost: ubusd closed the socket, the context is still allocated.
UbusStates == {"unset", "null", "live", "lost", "freed"}

Kinds == {"memory", "devices", "pin"}

Steps == {"idle", "lookup", "build", "invoke", "report", "done"}

Requests == [step      : Steps,
             kind      : Kinds,
             answers   : Seq({"valid", "invalid"}),  \* history: as judged
             success   : {"unset", "yes", "no"},     \* request_successful
             data      : {"unset", "null", "json"},  \* data_json
             jsons     : Nat,       \* JSON strings allocated, not freed
             blob      : BOOLEAN,   \* blob buffer allocated
             status    : {"none", "ok", "failed"},   \* of ubus_invoke
             published : {"nothing", "json", "garbage"},  \* history
             result    : BOOLEAN]   \* returned to the caller, when done

NoRequest == [step |-> "idle", kind |-> "memory", answers |-> <<>>,
              success |-> "unset", data |-> "unset", jsons |-> 0,
              blob |-> FALSE, status |-> "none", published |-> "nothing",
              result |-> FALSE]

Begin(kind) == [NoRequest EXCEPT !.step = "lookup", !.kind = kind]

Running == process = "running"

(***************************************************************************)
(* The steps of a request.                                                 *)
(***************************************************************************)
\* lookup_ubus_service: fails when the service is not registered, and always
\* once the connection is lost.
LookupFound ==
  /\ Running /\ req.step = "lookup"
  /\ ubus # "lost"
  /\ req' = [req EXCEPT !.step = IF req.kind = "pin" THEN "build"
                                 ELSE "invoke"]
  /\ UNCHANGED <<ubus, process>>

LookupFails ==
  /\ Running /\ req.step = "lookup"
  /\ req' = [req EXCEPT !.step = "done"]
  /\ UNCHANGED <<ubus, process>>

\* Only a pin command has arguments.  When adding one fails the function
\* returns before it reaches blob_buf_free.
BuildArguments ==
  /\ Running /\ req.step = "build"
  /\ req' \in {[req EXCEPT !.blob = TRUE, !.step = "invoke"],
               [req EXCEPT !.blob = TRUE, !.step = "done"]}
  /\ UNCHANGED <<ubus, process>>

\* Mutant: the callback does not mark an answer failed before it validates it.
JudgeUnmarked(r, answer) ==
  IF answer = "invalid"
  THEN {[r EXCEPT !.answers = Append(@, answer),
                  !.success = IF @ = "unset" THEN "no" ELSE @]}
  ELSE {[r EXCEPT !.answers = Append(@, answer), !.success = "yes",
                  !.data = "json", !.jsons = @ + 1]}

\* The data callbacks.  An answer is first marked failed, then validated; a
\* valid one is formatted into a new string that replaces the pointer.
\* Formatting yields NULL when memory is short.
Judge(r, answer) ==
  IF answer = "invalid"
  THEN {[r EXCEPT !.answers = Append(@, answer), !.success = "no"]}
  ELSE {[r EXCEPT !.answers = Append(@, answer), !.success = "yes",
                  !.data = "json", !.jsons = @ + 1],
        [r EXCEPT !.answers = Append(@, answer), !.success = "yes",
                  !.data = "null"]}

Answer ==
  /\ Running /\ req.step = "invoke"
  /\ ubus # "lost" /\ Len(req.answers) < MaxAnswers
  /\ \E answer \in {"valid", "invalid"} : req' \in Judge(req, answer)
  /\ UNCHANGED <<ubus, process>>

\* ubus_invoke returned an error: timeout, method not found, connection lost.
InvokeFails ==
  /\ Running /\ req.step = "invoke"
  /\ req' = [req EXCEPT !.step = "done", !.status = "failed", !.blob = FALSE]
  /\ UNCHANGED <<ubus, process>>

\* ubus_invoke returned OK: request_successful decides.  Without an answer it
\* was never assigned and its value is whatever the stack holds.
InvokeOk ==
  /\ Running /\ req.step = "invoke"
  /\ ubus # "lost" /\ (req.answers # <<>> \/ SilentReplies)
  /\ \/ /\ req.success # "no"
        /\ req' = [req EXCEPT !.step = "report", !.status = "ok",
                              !.blob = FALSE]
     \/ /\ req.success # "yes"
        /\ req' = [req EXCEPT !.step = "done", !.status = "ok",
                              !.blob = FALSE]
  /\ UNCHANGED <<ubus, process>>

\* Mutant: data_json is freed only when it was sent.
FreeSentData(r) ==
  [r EXCEPT !.jsons = IF r.data = "json" /\ r.result THEN @ - 1 ELSE @]

\* free(data_json): freeing NULL does nothing.
FreeData(r) == [r EXCEPT !.jsons = IF r.data = "json" THEN @ - 1 ELSE @]

\* report_property_to_tuya, then free(data_json).  The SDK refuses NULL, and
\* publishing needs an open session and may still fail.  An unassigned
\* pointer may be anything.
Report(sessionOpen) ==
  /\ Running /\ req.step = "report"
  /\ \/ req' = FreeData([req EXCEPT !.step = "done"])
     \/ /\ sessionOpen /\ req.data # "null"
        /\ req' = FreeData([req EXCEPT !.step = "done", !.result = TRUE,
                              !.published = IF req.data = "json" THEN "json"
                                            ELSE "garbage"])
  /\ UNCHANGED <<ubus, process>>

\* The undefined outcomes that stop the process: a released context handed to
\* libubus, an unassigned pointer published or freed.
RequestCrashes ==
  /\ Running
  /\ \/ req.step \in {"lookup", "invoke"} /\ ubus = "freed"
     \/ req.step = "report" /\ req.data = "unset"
  /\ process' = "crashed"
  /\ UNCHANGED <<ubus, req>>

\* ubusd stops or restarts.  The daemon never connects to it again.
UbusLost ==
  /\ Running /\ ubus = "live"
  /\ ubus' = "lost"
  /\ UNCHANGED <<req, process>>

RequestStep(sessionOpen) ==
  \/ LookupFound \/ LookupFails \/ BuildArguments
  \/ Answer \/ InvokeFails \/ InvokeOk
  \/ Report(sessionOpen) \/ RequestCrashes

(***************************************************************************)
(* A caller that makes one request after the other.                        *)
(***************************************************************************)
ReqInit == ubus = "live" /\ req = NoRequest /\ process = "running"

Call ==
  /\ Running /\ req.step \in {"idle", "done"}
  /\ \E kind \in Kinds : req' = Begin(kind)
  /\ UNCHANGED <<ubus, process>>

\* on_disconnect runs between two requests and frees the context, which the
\* next request is still given.
ContextFreed ==
  /\ Running /\ req.step \in {"idle", "done"}
  /\ ubus \in {"live", "lost"}
  /\ ubus' = "freed"
  /\ UNCHANGED <<req, process>>

Killed == ~Running /\ UNCHANGED reqVars

ReqNext ==
  \/ Call
  \/ \E sessionOpen \in BOOLEAN : RequestStep(sessionOpen)
  \/ UbusLost \/ ContextFreed
  \/ Killed

ReqSpec == ReqInit /\ [][ReqNext]_reqVars

-----------------------------------------------------------------------------
\* Every variable stays in its type.
ReqTypeOK ==
  /\ ubus \in UbusStates
  /\ req \in Requests
  /\ Len(req.answers) <= MaxAnswers
  /\ process \in {"running", "exited", "crashed"}

\* send_info.h: "Returns true on success".  A request that returns true has
\* published the JSON of an answer, and of the last answer: an earlier valid
\* answer followed by an invalid one must not be reported.
TrueMeansSent ==
  req.step = "done" /\ req.result =>
    /\ req.published = "json"
    /\ req.answers # <<>>
    /\ Last(req.answers) = "valid"

\* A request whose invocation returned OK after a single answer has released
\* everything it allocated, however the report went.
SettledRequestFreesAll ==
  req.step = "done" /\ req.status = "ok" /\ Len(req.answers) <= 1 =>
    req.jsons = 0 /\ ~req.blob

\* The blob buffer outlives a request only when building the arguments failed
\* (blob_buf_free is skipped there); a JSON string only when a later error or
\* a later answer came after a valid answer.
LeaksAreLate ==
  req.step = "done" =>
    /\ req.blob => req.kind = "pin" /\ req.status = "none"
    /\ req.jsons > 0 =>
         req.status = "failed" \/ Len(req.answers) > 1
=============================================================================
