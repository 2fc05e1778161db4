---------------------------- MODULE ExecuteAction ----------------------------
(***************************************************************************)
(* execute_action of the OpenWrt daemon (connection.c): the document that  *)
(* cJSON parses out of a message, the checks of its fields, the conversion *)
(* of the pin from a double to an uint32_t, and the request it ends in.    *)
(*                                                                         *)
(* Numbers are counted in halves, 2 * valuedouble, so that there are       *)
(* fractions; the width of uint32_t is scaled down to Bits.                *)
(***************************************************************************)
EXTENDS Actions, Integers

CONSTANT Bits    \* 32 in the code
ASSUME BitsAssumption == Bits \in Nat \ {0}

VARIABLES
  pc,        \* parse, code, convert, dispatch, cleanup, done
  data,      \* the content of the message
  tree,      \* full_data: null, live or freed
  pin,       \* an uint32_t
  request    \* history: the request made, with its arguments

vars == <<pc, data, tree, pin, request>>

UInts == 0 .. 2 ^ Bits - 1

\* From below zero to beyond the largest uint32_t.
Halves == -4 .. 2 * 2 ^ Bits + 2

\* actionCode; inputParams is an object; device; pin.
Documents ==
  [code   : {"missing", "no_string", "list_devices", "turn_on_pin",
             "turn_off_pin", "unknown"},
   params : BOOLEAN,
   device : {"missing", "no_string", "string"},
   pin    : [kind : {"missing", "no_number"}, halves : {0}]
              \cup [kind : {"number"}, halves : Halves]]

NoRequest == [kind |-> "none", on |-> FALSE, pin |-> 0]

\* A message without data leaves data_string NULL, which parses to NULL.
Init ==
  /\ pc = "parse" /\ tree = "null" /\ pin = 0
  /\ request = NoRequest
  /\ data \in [parses : {TRUE}, doc : Documents]
       \cup [parses : {FALSE},
             doc    : {[code |-> "missing", params |-> FALSE,
                        device |-> "missing",
                        pin    |-> [kind |-> "missing", halves |-> 0]]}]

Doc == data.doc
Goto(l) == pc' = l

Parse ==
  /\ pc = "parse"
  /\ tree' = IF data.parses THEN "live" ELSE "null"
  /\ Goto("code")
  /\ UNCHANGED <<data, pin, request>>

\* Mutant: a refused message returns at once.
RefuseReturns == Goto("done")

\* goto json_cleanup.
Refuse == Goto("cleanup")

\* cJSON answers NULL for a field of NULL, of no object, or that is missing.
NoAction ==
  /\ pc = "code"
  /\ Doc.code \in {"missing", "no_string"}
  /\ Refuse
  /\ UNCHANGED <<data, tree, pin, request>>

ListDevices ==
  /\ pc = "code"
  /\ Doc.code = "list_devices"
  /\ request' = [NoRequest EXCEPT !.kind = "devices"]
  /\ Goto("cleanup")
  /\ UNCHANGED <<data, tree, pin>>

\* Mutant: any pin that is there passes for a number.
ArgumentsNamed ==
  Doc.params /\ Doc.device = "string" /\ Doc.pin.kind # "missing"

ArgumentsComplete ==
  Doc.params /\ Doc.device = "string" /\ Doc.pin.kind = "number"

\* The arguments are checked before it is known whether the action takes any.
CheckArguments ==
  /\ pc = "code"
  /\ Doc.code \notin {"missing", "no_string", "list_devices"}
  /\ IF ArgumentsComplete THEN Goto("convert") ELSE Refuse
  /\ UNCHANGED <<data, tree, pin, request>>

Truncated(halves) ==
  IF halves >= 0 THEN halves \div 2 ELSE -((-halves) \div 2)

\* Mutant: valueint, the number as a saturated int, is used.
FromInt(halves) ==
  LET max == 2 ^ (Bits - 1) - 1
  IN  {IF Truncated(halves) > max THEN max
       ELSE Truncated(halves) % 2 ^ Bits}

\* The conversion truncates; beyond the range of uint32_t it is undefined.
Converted(halves) ==
  IF Truncated(halves) \in UInts THEN {Truncated(halves)} ELSE UInts

ConvertPin ==
  /\ pc = "convert"
  /\ pin' \in Converted(Doc.pin.halves)
  /\ Goto("dispatch")
  /\ UNCHANGED <<data, tree, request>>

ControlDevicePin ==
  /\ pc = "dispatch"
  /\ Doc.code \in {"turn_on_pin", "turn_off_pin"}
  /\ request' = [kind |-> "pin", on |-> Doc.code = "turn_on_pin", pin |-> pin]
  /\ Goto("cleanup")
  /\ UNCHANGED <<data, tree, pin>>

Unrecognized ==
  /\ pc = "dispatch"
  /\ Doc.code = "unknown"
  /\ Refuse
  /\ UNCHANGED <<data, tree, pin, request>>

\* cJSON_Delete does nothing for NULL.
Cleanup ==
  /\ pc = "cleanup"
  /\ tree' = IF tree = "live" THEN "freed" ELSE tree
  /\ Goto("done")
  /\ UNCHANGED <<data, pin, request>>

Done == pc = "done" /\ UNCHANGED vars

Next ==
  \/ Parse \/ NoAction \/ ListDevices \/ CheckArguments \/ ConvertPin
  \/ ControlDevicePin \/ Unrecognized \/ Cleanup \/ Done

Spec == Init /\ [][Next]_vars

-----------------------------------------------------------------------------
\* The message as the daemon's model sees it.
Abstract ==
  [type   |-> "action_execute",
   action |-> IF Doc.code = "no_string" THEN "missing" ELSE Doc.code,
   device |-> Doc.params /\ Doc.device = "string",
   pin    |-> Doc.params /\ Doc.pin.kind = "number"]

\* execute_action makes exactly the request that Daemon takes it to make, for
\* any document, whichever check comes first.
DoesWhatIsAsked ==
  /\ Abstract \in Messages
  /\ pc = "done" => request.kind = ActionOf(Abstract)

\* The parsed document is released on every path, and read only before.
TreeFreed ==
  /\ pc = "done" => tree # "live"
  /\ pc \in {"convert", "dispatch"} => tree = "live"

\* A pin that is a whole number and fits is the pin that is switched, in the
\* direction that was asked for; of one that fits but is no whole number, the
\* part before the point.  For any other number nothing can be said.
RightPin ==
  request.kind = "pin" /\ Doc.pin.halves \in 0 .. 2 * 2 ^ Bits - 1 =>
    /\ 2 * request.pin <= Doc.pin.halves
    /\ Doc.pin.halves < 2 * (request.pin + 1)
    /\ request.on <=> Doc.code = "turn_on_pin"
=============================================================================
