------------------------------ MODULE TuyaSdk ------------------------------
(***************************************************************************)
(* The client context of the Tuya link SDK (struct tuya_mqtt_context) as   *)
(* the daemons drive it.  The SDK is a prebuilt library: only its headers  *)
(* are in the repository, so the transitions below are external.  They are *)
(* the ones the daemons depend on: which call moves the client where, and  *)
(* when it calls the daemon back.                                          *)
(*                                                                         *)
(*   raw            zeroed by tuya_mqtt_init, or the initialisation        *)
(*                  failed: disconnecting or deinitialising it is refused  *)
(*   idle           initialised, never connected                           *)
(*   connecting     the broker accepted the session, topics subscribed     *)
(*   connected      subscription acknowledged, on_connected not called yet *)
(*   yield          in service                                             *)
(*   connect_start  session lost, the next loop opens a new one            *)
(***************************************************************************)
EXTENDS Integers

VARIABLE mqtt    \* struct tuya_mqtt_context

ClientStates ==
  {"raw", "idle", "connect_start", "connecting", "connected", "yield"}

\* user_data is what the daemon stored there for its callbacks: nothing yet,
\* or the ubus context.  client tells whether there is an initialised MQTT
\* client; what a tuya_mqtt_init that fails has allocated stays with the SDK.
Contexts == [state             : ClientStates,
             is_connected      : BOOLEAN,
             manual_disconnect : BOOLEAN,
             user_data         : {"null", "ubus"},
             client            : BOOLEAN]

RawContext == [state             |-> "raw",
               is_connected      |-> FALSE,
               manual_disconnect |-> FALSE,
               user_data         |-> "null",
               client            |-> FALSE]

\* A session with the broker is open: a publish has somewhere to go.
SessionOpen == mqtt.state \in {"connecting", "connected", "yield"}

(***************************************************************************)
(* API calls.                                                              *)
(***************************************************************************)
TuyaMqttInitOk ==
  mqtt' = [mqtt EXCEPT !.state = "idle", !.manual_disconnect = TRUE,
                       !.client = TRUE]

TuyaMqttConnectOk ==
  mqtt' = [mqtt EXCEPT !.state = "connecting", !.manual_disconnect = FALSE]

TuyaMqttConnectFails ==
  mqtt' = [mqtt EXCEPT !.manual_disconnect = FALSE]

\* Disconnecting always runs the callback first (unless the context is raw),
\* and the callback arms the automatic reconnect of a client that connected
\* or tried to.
TuyaMqttDisconnect ==
  mqtt' = IF mqtt.state = "raw" THEN mqtt
          ELSE [mqtt EXCEPT !.state = IF mqtt.manual_disconnect
                                      THEN @ ELSE "connect_start",
                            !.is_connected = FALSE,
                            !.manual_disconnect = TRUE]

\* The state survives deinitialisation, only the client is released.  A raw
\* context has none.
TuyaMqttDeinit == mqtt' = [mqtt EXCEPT !.client = FALSE]

(***************************************************************************)
(* What one tuya_mqtt_loop does, by the state it finds.                    *)
(***************************************************************************)
\* connect_start: a new session, or one second asleep and another try later.
LoopReconnects ==
  /\ mqtt.state = "connect_start"
  /\ mqtt' \in {mqtt, [mqtt EXCEPT !.state = "connecting"]}

\* connected: mark the context and call on_connected.
LoopReportsConnected ==
  /\ mqtt.state = "connected"
  /\ mqtt' = [mqtt EXCEPT !.state = "yield", !.is_connected = TRUE]

\* connecting and yield: process packets for up to timeout_ms.
LoopYields == mqtt.state \in {"connecting", "yield"}

SubscriptionAcknowledged ==
  /\ mqtt.state = "connecting"
  /\ mqtt' = [mqtt EXCEPT !.state = "connected"]

\* A packet could not be sent or received, or the keepalive was not answered.
SessionLost ==
  mqtt' = [mqtt EXCEPT !.is_connected = FALSE,
                       !.state = IF mqtt.manual_disconnect
                                 THEN @ ELSE "connect_start"]
=============================================================================
