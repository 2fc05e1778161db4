------------------------ MODULE ExecuteAction_proofs ------------------------
(***************************************************************************)
(* ExecuteAction, proved for every width of the pin's integer.             *)
(***************************************************************************)
EXTENDS ExecuteAction, FiniteSetTheorems, TLAPS

USE BitsAssumption

-----------------------------------------------------------------------------
\* The largest uint32_t is a number: a power of two counts the subsets of a
\* set.
LEMMA WidthIsNatural == 2 ^ Bits \in Nat
<1>1. IsFiniteSet(1 .. Bits) /\ Cardinality(1 .. Bits) = Bits
  BY FS_Interval
<1>2. IsFiniteSet(SUBSET (1 .. Bits)) /\ Cardinality(SUBSET (1 .. Bits)) = 2 ^ Bits
  BY <1>1, FS_SUBSET
<1>3. QED
  BY <1>2, FS_CardinalityType

\* A number in range is halved and rounded down, and there is only one
\* outcome.
LEMMA InRangeConverts ==
  ASSUME NEW halves \in 0 .. 2 * 2 ^ Bits - 1, NEW p \in Converted(halves)
  PROVE  2 * p <= halves /\ halves < 2 * (p + 1)
<1> DEFINE width == 2 ^ Bits
<1>1. width \in Nat
  BY WidthIsNatural
<1>2. halves \in Int /\ 0 <= halves /\ halves <= 2 * width - 1
  BY <1>1
<1>3. Truncated(halves) = halves \div 2
  BY <1>2 DEF Truncated
<1>4. /\ halves \div 2 \in Int
      /\ 2 * (halves \div 2) <= halves /\ halves < 2 * (halves \div 2 + 1)
  BY <1>2
<1> HIDE DEF width
<1>5. halves \div 2 \in 0 .. width - 1
  BY <1>1, <1>2, <1>4
<1>6. p = halves \div 2
  BY <1>3, <1>5 DEF Converted, UInts, width
<1>7. QED
  BY <1>4, <1>6

-----------------------------------------------------------------------------
(***************************************************************************)
(* One invariant for the whole function: which documents get as far as     *)
(* each place, what is known of the pin and the tree there, and that no    *)
(* request is made before the clean-up.                                    *)
(***************************************************************************)
Places == {"parse", "code", "convert", "dispatch", "cleanup", "done"}

\* What was parsed is a document; what was not has no fields.
DocumentRead ==
  \/ data.parses = TRUE /\ Doc \in Documents
  \/ /\ data.parses = FALSE
     /\ Doc.code = "missing" /\ Doc.params = FALSE
     /\ Doc.device = "missing" /\ Doc.pin.kind = "missing"

\* The request is the one for the document, made with the converted pin.
RequestRight ==
  /\ request.kind = ActionOf(Abstract)
  /\ request.kind = "pin" =>
       /\ request.pin \in Converted(Doc.pin.halves)
       /\ request.on <=> Doc.code = "turn_on_pin"

ActionInv ==
  /\ DocumentRead
  /\ pc \in Places
  /\ pc \in {"convert", "dispatch"} =>
       /\ Doc.code \in {"turn_on_pin", "turn_off_pin", "unknown"}
       /\ ArgumentsComplete
  /\ pc = "dispatch" => pin \in Converted(Doc.pin.halves)
  /\ pc \in {"cleanup", "done"} => RequestRight
  /\ pc \notin {"cleanup", "done"} => request = NoRequest
  /\ pc = "parse" => tree = "null"
  /\ pc \in {"code", "convert", "dispatch"} =>
       tree = IF data.parses THEN "live" ELSE "null"
  /\ pc = "done" => tree # "live"

\* Nothing is parsed, converted or requested initially.
LEMMA ActionInit == Init => ActionInv
<1> SUFFICES ASSUME Init PROVE ActionInv
  OBVIOUS
<1>1. pc = "parse" /\ tree = "null" /\ request = NoRequest
  BY DEF Init
<1>2. CASE data \in [parses : {TRUE}, doc : Documents]
  <2>1. data.parses = TRUE /\ data.doc \in Documents
    BY <1>2
  <2>2. QED
    BY <1>1, <2>1 DEF ActionInv, DocumentRead, Doc, Places
<1>3. CASE data \in [parses : {FALSE},
                    doc    : {[code |-> "missing", params |-> FALSE,
                               device |-> "missing",
                               pin    |-> [kind |-> "missing", halves |-> 0]]}]
  <2>0. /\ data.parses = FALSE
        /\ data.doc = [code |-> "missing", params |-> FALSE,
                       device |-> "missing",
                       pin    |-> [kind |-> "missing", halves |-> 0]]
    BY <1>3
  <2>1. DocumentRead
    BY <2>0 DEF DocumentRead, Doc
  <2>2. QED
    BY <1>1, <2>1 DEF ActionInv, Places
<1>4. QED
  BY <1>2, <1>3 DEF Init

\* A message that leads to no request is one for which Daemon sees none.
LEMMA RefusedRightly ==
  ASSUME request = NoRequest, ActionOf(Abstract) = "none"
  PROVE  RequestRight
BY DEF RequestRight, NoRequest

\* What the daemon's model sees of the message, field by field.
LEMMA AbstractFields ==
  /\ Abstract.type = "action_execute"
  /\ Abstract.action = IF Doc.code = "no_string" THEN "missing" ELSE Doc.code
  /\ Abstract.device = (Doc.params /\ Doc.device = "string")
  /\ Abstract.pin = (Doc.params /\ Doc.pin.kind = "number")
BY DEF Abstract

\* Every step of execute_action keeps the invariant.
LEMMA ActionStep ==
  ASSUME ActionInv, [Next]_vars
  PROVE  ActionInv'
<1> USE DEF Doc, Goto, Refuse
<1>a. ASSUME UNCHANGED <<data, request>>, RequestRight PROVE RequestRight'
  BY <1>a DEF RequestRight, ActionOf, Abstract
<1>b. ASSUME UNCHANGED data PROVE DocumentRead'
  BY <1>b DEF ActionInv, DocumentRead
<1>1. CASE Parse
  BY <1>1, <1>b DEF Parse, ActionInv, Places
<1>2. CASE NoAction
  <2>1. ActionOf(Abstract) = "none"
    BY <1>2, AbstractFields DEF NoAction, ActionOf
  <2>2. RequestRight
    BY <1>2, <2>1, RefusedRightly DEF NoAction, ActionInv
  <2>3. QED
    BY <1>2, <2>2, <1>a, <1>b DEF NoAction, ActionInv, Places
<1>3. CASE ListDevices
  <2>1. ActionOf(Abstract) = "devices"
    BY <1>3, AbstractFields DEF ListDevices, ActionOf
  <2>2. Abstract' = Abstract
    BY <1>3 DEF ListDevices, Abstract
  <2>3. request'.kind = "devices"
    BY <1>3 DEF ListDevices, NoRequest
  <2>4. RequestRight'
    BY <2>1, <2>2, <2>3 DEF RequestRight
  <2>5. QED
    BY <1>3, <2>4, <1>b DEF ListDevices, ActionInv, Places
<1>4. CASE CheckArguments
  <2>1. /\ pc = "code" /\ UNCHANGED <<data, tree, pin, request>>
        /\ Doc.code \notin {"missing", "no_string", "list_devices"}
    BY <1>4 DEF CheckArguments
  <2>2. data.parses = TRUE /\ Doc \in Documents
    BY <2>1 DEF ActionInv, DocumentRead
  <2>3. Doc.code \in {"turn_on_pin", "turn_off_pin", "unknown"}
    BY <2>1, <2>2 DEF Documents
  <2>4. CASE ArgumentsComplete
    <3>1. pc' = "convert" /\ ArgumentsComplete'
      BY <1>4, <2>1, <2>4 DEF CheckArguments, ArgumentsComplete
    <3>2. QED
      BY <2>1, <2>3, <3>1, <1>b DEF ActionInv, Places
  <2>5. CASE ~ArgumentsComplete
    <3>1. ActionOf(Abstract) = "none"
      BY <2>1, <2>5, AbstractFields DEF ActionOf, ArgumentsComplete
    <3>2. RequestRight'
      BY <2>1, <3>1, <1>a, RefusedRightly DEF ActionInv
    <3>3. pc' = "cleanup"
      BY <1>4, <2>5 DEF CheckArguments
    <3>4. QED
      BY <2>1, <3>2, <3>3, <1>b DEF ActionInv, Places
  <2>6. QED
    BY <2>4, <2>5
<1>5. CASE ConvertPin
  <2>1. ArgumentsComplete' /\ pin' \in Converted(Doc.pin.halves)'
    BY <1>5 DEF ConvertPin, ActionInv, ArgumentsComplete, Converted
  <2>2. QED
    BY <1>5, <2>1, <1>b DEF ConvertPin, ActionInv, Places
<1>6. CASE ControlDevicePin
  <2>1. ActionOf(Abstract) = "pin"
    BY <1>6, AbstractFields
       DEF ControlDevicePin, ActionOf, ActionInv, ArgumentsComplete
  <2>2. Abstract' = Abstract /\ Doc' = Doc
    BY <1>6 DEF ControlDevicePin, Abstract
  <2>3. /\ request'.kind = "pin" /\ request'.pin = pin
        /\ request'.on = (Doc.code = "turn_on_pin")
        /\ pin \in Converted(Doc.pin.halves)
    BY <1>6 DEF ControlDevicePin, ActionInv
  <2>4. RequestRight'
    BY <2>1, <2>2, <2>3 DEF RequestRight
  <2>5. QED
    BY <1>6, <2>4, <1>b DEF ControlDevicePin, ActionInv, Places
<1>7. CASE Unrecognized
  <2>1. ActionOf(Abstract) = "none"
    BY <1>7, AbstractFields DEF Unrecognized, ActionOf
  <2>2. RequestRight
    BY <1>7, <2>1, RefusedRightly DEF Unrecognized, ActionInv
  <2>3. QED
    BY <1>7, <2>2, <1>a, <1>b DEF Unrecognized, ActionInv, Places
<1>8. CASE Cleanup
  BY <1>8, <1>a, <1>b DEF Cleanup, ActionInv, Places
<1>9. CASE Done \/ UNCHANGED vars
  <2>1. UNCHANGED <<pc, data, tree, pin, request>>
    BY <1>9 DEF Done, vars
  <2>2. ArgumentsComplete' = ArgumentsComplete
    BY <2>1 DEF ArgumentsComplete
  <2>3. QED
    BY <2>1, <2>2, <1>a, <1>b DEF ActionInv
<1>10. QED
  BY <1>1, <1>2, <1>3, <1>4, <1>5, <1>6, <1>7, <1>8, <1>9 DEF Next

\* The invariant, for the theorems.
LEMMA ActionInvariant == Spec => []ActionInv
BY ActionInit, ActionStep, PTL DEF Spec

-----------------------------------------------------------------------------
\* Taken apart field by field, execute_action makes for every document the
\* request that Daemon makes for the message in one step, and Daemon's set of
\* messages leaves none out.
THEOREM ActionRefined == Spec => []DoesWhatIsAsked
<1>1. ASSUME ActionInv PROVE DoesWhatIsAsked
  <2>1. DocumentRead
    BY <1>1 DEF ActionInv
  <2>2. Abstract \in Messages
    BY <2>1 DEF DocumentRead, Abstract, Messages, Documents
  <2>3. pc = "done" => request.kind = ActionOf(Abstract)
    BY <1>1 DEF ActionInv, RequestRight
  <2>4. QED
    BY <2>2, <2>3 DEF DoesWhatIsAsked
<1>2. QED
  BY <1>1, ActionInvariant, PTL

\* No way through the function leaves the parsed document allocated, and the
\* arguments are read only while it lives.
THEOREM TreeIsFreed == Spec => []TreeFreed
<1>1. ASSUME ActionInv PROVE TreeFreed
  <2>1. ASSUME pc \in {"convert", "dispatch"} PROVE tree = "live"
    BY <1>1, <2>1 DEF ActionInv, ArgumentsComplete, DocumentRead
  <2>2. QED
    BY <1>1, <2>1 DEF ActionInv, TreeFreed
<1>2. QED
  BY <1>1, ActionInvariant, PTL

\* Whatever the width of the integer: a number that fits switches the pin it
\* names, or the one before its point, in the direction that was asked for.
THEOREM PinIsRight == Spec => []RightPin
<1>1. ASSUME ActionInv PROVE RightPin
  <2>1. SUFFICES ASSUME request.kind = "pin",
                        Doc.pin.halves \in 0 .. 2 * 2 ^ Bits - 1
                 PROVE  /\ 2 * request.pin <= Doc.pin.halves
                        /\ Doc.pin.halves < 2 * (request.pin + 1)
                        /\ request.on <=> Doc.code = "turn_on_pin"
    BY DEF RightPin
  <2>2. RequestRight
    BY <1>1, <2>1 DEF ActionInv, NoRequest
  <2>3. QED
    BY <2>1, <2>2, InRangeConverts DEF RequestRight
<1>2. QED
  BY <1>1, ActionInvariant, PTL
=============================================================================
