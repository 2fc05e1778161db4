------------------------------- MODULE Actions -------------------------------
(***************************************************************************)
(* What a message of the cloud asks the OpenWrt daemon for (execute_action *)
(* in connection.c).  Daemon takes it as one step; ExecuteAction takes it  *)
(* apart.                                                                  *)
(***************************************************************************)

\* Its data may be missing, not an object, or lack a field; a pin command
\* needs a device and a number.
Messages ==
  [type   : {"action_execute", "other"},
   action : {"missing", "list_devices", "turn_on_pin", "turn_off_pin",
             "unknown"},
   device : BOOLEAN,
   pin    : BOOLEAN]

\* The request execute_action makes for a message, or "none".
ActionOf(msg) ==
  CASE msg.type = "action_execute" /\ msg.action = "list_devices" -> "devices"
    [] /\ msg.type = "action_execute"
       /\ msg.action \in {"turn_on_pin", "turn_off_pin"}
       /\ msg.device /\ msg.pin -> "pin"
    [] OTHER -> "none"
=============================================================================
