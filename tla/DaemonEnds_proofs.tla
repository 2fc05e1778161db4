------------------------- MODULE DaemonEnds_proofs -------------------------
(***************************************************************************)
(* How the daemon connects, reports and ends: the SDK's client, the status *)
(* it ends with, what it has released by then, and what its requests have  *)
(* done.                                                                   *)
(***************************************************************************)
EXTENDS Daemon_proofs

-----------------------------------------------------------------------------
(***************************************************************************)
(* The client, the ubus context and the status, place by place.  Nothing   *)
(* here depends on the faults: the session may drop, services be silent.   *)
(***************************************************************************)
BeforeUbus == {"uci_alloc", "config", "tuya_init", "ubus_connect"}
Connecting == {"connect", "retry_check", "retry_sleep"}
MainPlaces == {"main_check", "main_sleep", "main_send"}
Closing == {"disconnect", "deinit", "cleanup_end", "exited"}
Looping == {"wait_check", "loop", "yield", "on_connected", "on_messages"}
             \cup MainPlaces

PlaceInv ==
  /\ pc \in BeforeUbus => ubus = "unset"
  /\ mqtt.user_data = "ubus" => ubus \notin {"unset", "null"}
  /\ pc = "ubus_connect" => mqtt.client /\ mqtt.state # "raw"
  /\ pc \in Connecting \cup Looping =>
       /\ mqtt.client /\ mqtt.state # "raw"
       /\ ubus \notin {"unset", "null"}
  /\ pc \in Looping => mqtt.state # "idle"
  /\ pc \in MainPlaces => caller = "main"
  /\ pc \notin Closing => retVal = 0
  /\ StatusTellsWhy

LEMMA PlaceInit == Init => PlaceInv
BY DEF Init, PlaceInv, BeforeUbus, Connecting, Looping, MainPlaces, Closing,
       StatusTellsWhy, RawContext

\* What the calls of the SDK do to the state of its client.
LEMMA ClientKept ==
  ASSUME mqtt \in Contexts,
         \/ TuyaMqttConnectOk \/ TuyaMqttConnectFails \/ LoopReconnects
         \/ LoopReportsConnected \/ SubscriptionAcknowledged \/ SessionLost
  PROVE  /\ mqtt'.client = mqtt.client /\ mqtt'.user_data = mqtt.user_data
         /\ mqtt.state # "raw" => mqtt'.state # "raw"
         /\ mqtt.state # "idle" => mqtt'.state # "idle"
         /\ TuyaMqttConnectOk => mqtt'.state = "connecting"
         /\ ~SessionLost /\ mqtt.is_connected => mqtt'.is_connected
BY DEF Contexts, ClientStates, TuyaMqttConnectOk, TuyaMqttConnectFails,
       LoopReconnects, LoopReportsConnected, SubscriptionAcknowledged,
       SessionLost

LEMMA PlaceStep ==
  ASSUME TypeInv, PlaceInv, [Next]_vars
  PROVE  PlaceInv'
<1> USE DEF PlaceInv, BeforeUbus, Connecting, Looping, MainPlaces, Closing,
            StatusTellsWhy, At, Goto, GiveUp, connectVars, loopVars, ubusVars
<1>0. /\ mqtt \in Contexts /\ keepRunning \in {0, 1} /\ pc \in Locations
      /\ caller \in {"wait", "main"}
      /\ CallerIsWait
  BY DEF TypeInv, TypeOK
<1>1. CASE UciAlloc \/ ReadConfig
  BY <1>1 DEF UciAlloc, ReadConfig
<1>2. CASE TuyaInit
  <2>1. CASE TuyaMqttInitOk /\ pc' = "ubus_connect" /\ UNCHANGED retVal
    <3>1. mqtt'.client /\ mqtt'.state = "idle"
          /\ mqtt'.user_data = mqtt.user_data
      BY <1>0, <2>1 DEF TuyaMqttInitOk, Contexts
    <3> QED BY <1>2, <2>1, <3>1 DEF TuyaInit
  <2>2. CASE UNCHANGED mqtt /\ GiveUp(-1)
    BY <1>0, <1>2, <2>2 DEF TuyaInit, CallerIsWait, Starting
  <2> QED BY <1>2, <2>1, <2>2 DEF TuyaInit
<1>3. CASE UbusConnect
  <2>1. CASE /\ ubus' = "live" /\ mqtt' = [mqtt EXCEPT !.user_data = "ubus"]
             /\ pc' = "connect" /\ UNCHANGED retVal
    <3>1. mqtt'.client = mqtt.client /\ mqtt'.state = mqtt.state
      BY <1>0, <2>1 DEF Contexts
    <3> QED BY <1>3, <2>1, <3>1 DEF UbusConnect
  <2>2. CASE ubus' = "null" /\ UNCHANGED mqtt /\ UbusRefused
    BY <1>0, <1>3, <2>2
       DEF UbusConnect, UbusRefused, CallerIsWait, Starting
  <2> QED BY <1>3, <2>1, <2>2 DEF UbusConnect
<1>4. CASE Connect
  <2>1. TuyaMqttConnectOk \/ TuyaMqttConnectFails
    BY <1>4 DEF Connect
  <2>2. /\ mqtt'.client = mqtt.client /\ mqtt'.user_data = mqtt.user_data
        /\ mqtt.state # "raw" => mqtt'.state # "raw"
        /\ TuyaMqttConnectOk => mqtt'.state = "connecting"
    BY <1>0, <2>1, ClientKept
  <2> QED BY <1>4, <2>2 DEF Connect
<1>5. CASE RetryCheck \/ RetrySleep
  BY <1>0, <1>5
     DEF RetryCheck, ConnectFailed, RetrySleep, CallerIsWait, Starting
<1>6. CASE WaitCheck \/ MainCheck \/ MainSleep
  BY <1>0, <1>6 DEF WaitCheck, MainCheck, MainSleep, StillServing
<1>7. CASE MainCount
  BY <1>0, <1>7 DEF MainCount, MainLoopFailed
<1>8. CASE LoopError
  BY <1>0, <1>8 DEF LoopError, ConnectFailed, MainLoopFailed
<1>9. CASE LoopReconnect \/ OnConnected \/ YieldAcknowledged
  <2>1. LoopReconnects \/ LoopReportsConnected \/ SubscriptionAcknowledged
    BY <1>9 DEF LoopReconnect, OnConnected, YieldAcknowledged
  <2>2. /\ mqtt'.client = mqtt.client /\ mqtt'.user_data = mqtt.user_data
        /\ mqtt.state # "raw" => mqtt'.state # "raw"
        /\ mqtt.state # "idle" => mqtt'.state # "idle"
    BY <1>0, <2>1, ClientKept
  <2> QED BY <1>0, <1>9, <2>2
          DEF LoopReconnect, OnConnected, YieldAcknowledged, LoopReturned
<1>10. CASE OnConnectedReturns \/ LoopYield \/ YieldReturns \/ OnMessages
            \/ OnMessagesReturns
  BY <1>0, <1>10
     DEF OnConnectedReturns, LoopYield, YieldReturns, OnMessages,
         OnMessagesReturns, LoopReturned
<1>11. CASE YieldLost
  <2>1. /\ mqtt'.client = mqtt.client /\ mqtt'.user_data = mqtt.user_data
        /\ mqtt.state # "raw" => mqtt'.state # "raw"
        /\ mqtt.state # "idle" => mqtt'.state # "idle"
    BY <1>0, <1>11, ClientKept DEF YieldLost
  <2>2. ubus' \in {ubus, "freed"}
    BY <1>11 DEF YieldLost, OnDisconnect
  <2> QED BY <1>0, <1>11, <2>1, <2>2 DEF YieldLost, LoopReturned
<1>12. CASE Disconnect
  <2>1. ubus' = ubus \/ (ubus' = "freed" /\ mqtt.user_data = "ubus")
    BY <1>12 DEF Disconnect, OnDisconnect
  <2>2. mqtt'.user_data = mqtt.user_data
    BY <1>0, <1>12 DEF Disconnect, TuyaMqttDisconnect, Contexts
  <2> QED BY <1>12, <2>1, <2>2 DEF Disconnect
<1>13. CASE Deinit
  <2>1. mqtt'.user_data = mqtt.user_data
    BY <1>0, <1>13 DEF Deinit, TuyaMqttDeinit, Contexts
  <2> QED BY <1>13, <2>1 DEF Deinit
<1>14. CASE CleanupEnd \/ CleanupCrashes
  BY <1>14 DEF CleanupEnd, CleanupCrashes
<1>15. CASE DoRequest
  <2>1. SessionOpen \in BOOLEAN
    BY DEF SessionOpen
  <2>2. ubus' = ubus
    BY <1>15, <2>1, RequestKeepsUbus DEF DoRequest
  <2> QED BY <1>15, <2>2 DEF DoRequest
<1>16. CASE Signal
  BY <1>16 DEF Signal
<1>17. CASE UbusGoes
  BY <1>17 DEF UbusGoes, UbusLost
<1>18. CASE UNCHANGED vars
  BY <1>18 DEF vars
<1> QED
  BY <1>1, <1>2, <1>3, <1>4, <1>5, <1>6, <1>7, <1>8, <1>9, <1>10, <1>11,
     <1>12, <1>13, <1>14, <1>15, <1>16, <1>17, <1>18
     DEF Next, ThreadStep, SetUpStep, ConnectStep, MainLoopStep, LoopStep,
         CleanupStep, Over

LEMMA PlaceInvariant == Spec => []PlaceInv
BY TypeInvariant, PlaceInit, PlaceStep, PTL DEF Spec

\* The status tells why the daemon ends: 0 only after a signal, -2 exactly
\* when ubus was not reached, -1 for the connection, 1 for the main loop.
THEOREM StatusIsTrue == Spec => []StatusTellsWhy
<1>1. PlaceInv => StatusTellsWhy
  BY DEF PlaceInv
<1> QED BY <1>1, PlaceInvariant, PTL

-----------------------------------------------------------------------------
(***************************************************************************)
(* Without session drops, the ubus context is freed once, by the           *)
(* disconnection of the clean-up, and a connected client stays connected   *)
(* until then.                                                             *)
(***************************************************************************)
EndInv ==
  /\ frees = IF ubus = "freed" THEN 1 ELSE 0
  /\ pc \notin Closing \ {"disconnect"} => ubus # "freed"
  /\ mqtt.user_data # "ubus" => ubus \in {"unset", "null"}
  /\ pc \in {"uci_alloc", "config", "tuya_init"} => mqtt = RawContext
  /\ mqtt.state = "raw" => mqtt.user_data # "ubus" /\ ~mqtt.is_connected
  /\ pc \in Closing \ {"disconnect"} =>
       ubus \in {"unset", "null", "freed"} /\ ~mqtt.is_connected
  /\ pc \in {"cleanup_end", "exited"} => ~mqtt.client
  /\ process = "exited" => pc = "exited" /\ uci \in {"null", "freed"}
  /\ ServesConnected

LEMMA EndInit == Init => EndInv
BY DEF Init, EndInv, Closing, RawContext, ServesConnected, InMainLoop, InLoop

LEMMA EndStep ==
  ASSUME TypeInv, PlaceInv, EndInv, ~SessionDrops, [Next]_vars
  PROVE  EndInv'
<1> USE DEF EndInv, Closing, ServesConnected, InMainLoop, InLoop, At, Goto,
            GiveUp, connectVars, loopVars, ubusVars, Running
<1>0. /\ mqtt \in Contexts /\ keepRunning \in {0, 1} /\ pc \in Locations
      /\ caller \in {"wait", "main"} /\ uci \in {"null", "live", "freed"}
      /\ CallerIsWait
  BY DEF TypeInv, TypeOK
<1>1. CASE UciAlloc \/ ReadConfig
  BY <1>1 DEF UciAlloc, ReadConfig, RawContext
<1>2. CASE TuyaInit
  <2>1. mqtt = RawContext /\ pc = "tuya_init" /\ process = "running"
    BY <1>2 DEF TuyaInit
  <2>2. CASE TuyaMqttInitOk /\ pc' = "ubus_connect"
    <3>1. /\ mqtt'.user_data = "null" /\ mqtt'.state = "idle"
          /\ ~mqtt'.is_connected
      BY <2>1, <2>2 DEF TuyaMqttInitOk, RawContext
    <3>2. ubus = "unset"
      BY <2>1 DEF PlaceInv, BeforeUbus
    <3> QED BY <1>2, <2>1, <2>2, <3>1, <3>2 DEF TuyaInit
  <2>3. CASE UNCHANGED mqtt /\ GiveUp(-1)
    BY <1>2, <2>1, <2>3 DEF TuyaInit
  <2> QED BY <1>2, <2>2, <2>3 DEF TuyaInit
<1>3. CASE UbusConnect
  <2>1. CASE /\ ubus' = "live" /\ mqtt' = [mqtt EXCEPT !.user_data = "ubus"]
             /\ pc' = "connect"
    <3>1. mqtt'.user_data = "ubus" /\ mqtt'.state = mqtt.state
      BY <1>0, <2>1 DEF Contexts
    <3>2. mqtt'.state # "raw"
      BY <1>3, <3>1 DEF UbusConnect, PlaceInv
    <3> QED BY <1>3, <2>1, <3>1, <3>2 DEF UbusConnect
  <2>2. CASE ubus' = "null" /\ UNCHANGED mqtt /\ UbusRefused
    <3>1. ubus = "unset"
      BY <1>3 DEF UbusConnect, PlaceInv, BeforeUbus
    <3>2. mqtt.user_data # "ubus"
      BY <3>1 DEF PlaceInv
    <3> QED BY <1>3, <2>2, <3>1, <3>2 DEF UbusConnect, UbusRefused
  <2> QED BY <1>3, <2>1, <2>2 DEF UbusConnect
<1>4. CASE Connect \/ LoopReconnect \/ OnConnected \/ YieldAcknowledged
  <2>1. /\ \/ TuyaMqttConnectOk \/ TuyaMqttConnectFails \/ LoopReconnects
           \/ LoopReportsConnected \/ SubscriptionAcknowledged
        /\ mqtt.state # "raw"
    BY <1>4 DEF Connect, LoopReconnect, OnConnected, YieldAcknowledged,
                LoopReconnects, LoopReportsConnected,
                SubscriptionAcknowledged, PlaceInv, Connecting
  <2>2. mqtt'.user_data = mqtt.user_data /\ mqtt'.state # "raw"
    BY <1>0, <2>1, ClientKept
  <2>3. mqtt.is_connected => mqtt'.is_connected
    BY <1>0, <2>1
       DEF Contexts, TuyaMqttConnectOk, TuyaMqttConnectFails, LoopReconnects,
           LoopReportsConnected, SubscriptionAcknowledged
  <2>4. /\ pc \notin Closing /\ pc' \notin Closing
        /\ pc' \notin {"uci_alloc", "config", "tuya_init"}
        /\ UNCHANGED <<ubus, frees, process>> /\ process = "running"
        /\ InMainLoop' => InMainLoop /\ keepRunning' = keepRunning
    BY <1>0, <1>4 DEF Connect, LoopReconnect, OnConnected, YieldAcknowledged,
                      LoopReturned
  <2> QED BY <2>2, <2>3, <2>4
<1>5. CASE RetryCheck \/ RetrySleep
  BY <1>5 DEF RetryCheck, ConnectFailed, RetrySleep
<1>6. CASE WaitCheck \/ MainCheck \/ MainSleep \/ MainCount
  BY <1>0, <1>6 DEF WaitCheck, MainCheck, MainSleep, MainCount, StillServing,
                    MainLoopFailed, StillWaiting, CallerIsWait, Starting
<1>7. CASE \/ LoopError \/ OnConnectedReturns \/ LoopYield \/ YieldReturns
           \/ OnMessages \/ OnMessagesReturns
  BY <1>0, <1>7
     DEF LoopError, ConnectFailed, MainLoopFailed, OnConnectedReturns,
         LoopYield, YieldReturns, OnMessages, OnMessagesReturns, LoopReturned
<1>8. CASE YieldLost
  BY <1>8 DEF YieldLost
<1>9. CASE Disconnect
  <2>1. /\ mqtt'.user_data = mqtt.user_data /\ ~mqtt'.is_connected
        /\ mqtt'.state = "raw" => mqtt.state = "raw"
    BY <1>0, <1>9
       DEF Disconnect, TuyaMqttDisconnect, Contexts
  <2>2. CASE mqtt.user_data = "ubus"
    <3>1. ubus' = "freed" /\ frees = 0 /\ frees' = 1
      BY <1>9, <2>2 DEF Disconnect, OnDisconnect
    <3> QED BY <1>9, <2>1, <2>2, <3>1 DEF Disconnect
  <2>3. CASE mqtt.user_data # "ubus"
    <3>1. UNCHANGED <<ubus, frees>>
      BY <1>9, <2>3 DEF Disconnect, OnDisconnect
    <3> QED BY <1>9, <2>1, <2>3, <3>1 DEF Disconnect
  <2> QED BY <2>2, <2>3
<1>10. CASE Deinit
  <2>1. /\ mqtt'.user_data = mqtt.user_data /\ mqtt'.state = mqtt.state
        /\ mqtt'.is_connected = mqtt.is_connected /\ ~mqtt'.client
    BY <1>0, <1>10 DEF Deinit, TuyaMqttDeinit, Contexts
  <2> QED BY <1>10, <2>1 DEF Deinit
<1>11. CASE CleanupEnd \/ CleanupCrashes
  BY <1>0, <1>11 DEF CleanupEnd, CleanupCrashes
<1>12. CASE DoRequest
  <2>1. SessionOpen \in BOOLEAN
    BY DEF SessionOpen
  <2>2. ubus' = ubus /\ process' \in {process, "crashed"}
    BY <1>12, <2>1, RequestKeepsUbus DEF DoRequest
  <2> QED BY <1>12, <2>2 DEF DoRequest
<1>13. CASE Signal \/ UbusGoes
  BY <1>13 DEF Signal, UbusGoes, UbusLost
<1>14. CASE UNCHANGED vars
  BY <1>14 DEF vars
<1> QED
  BY <1>1, <1>2, <1>3, <1>4, <1>5, <1>6, <1>7, <1>8, <1>9, <1>10, <1>11,
     <1>12, <1>13, <1>14
     DEF Next, ThreadStep, SetUpStep, ConnectStep, MainLoopStep, LoopStep,
         CleanupStep, Over

LEMMA EndInvariant ==
  ASSUME ~SessionDrops
  PROVE  Spec => []EndInv
BY TypeInvariant, PlaceInvariant, EndInit, EndStep, PTL DEF Spec

\* Without session drops, on every path through main the ubus context is freed
\* once if there was one, and client and UCI context are released.
THEOREM EndsCleanly ==
  ASSUME ~SessionDrops
  PROVE  Spec => []EndsClean
<1>1. EndInv => EndsClean
  BY DEF EndInv, EndsClean, Closing
<1> QED BY <1>1, EndInvariant, PTL

\* Without session drops, the main loop only runs on a connected client, or on
\* the way out after a signal.
THEOREM ServesWhenConnected ==
  ASSUME ~SessionDrops
  PROVE  Spec => []ServesConnected
<1>1. EndInv => ServesConnected
  BY DEF EndInv
<1> QED BY <1>1, EndInvariant, PTL

-----------------------------------------------------------------------------
(***************************************************************************)
(* The requests inside the daemon.                                         *)
(***************************************************************************)
LEMMA AccountStep ==
  ASSUME TypeInv, AccountInv, [Next]_vars
  PROVE  AccountInv'
<1> USE DEF ubusVars
<1>1. CASE DoRequest
  <2>1. SessionOpen \in BOOLEAN
    BY DEF SessionOpen
  <2> QED BY <1>1, <2>1, RequestAccount DEF DoRequest, TypeInv, TypeOK
<1>2. CASE MainSleep \/ OnConnected
  <2>1. \E kind \in Kinds : req' = Begin(kind)
    BY <1>2 DEF MainSleep, OnConnected, Kinds
  <2> QED BY <2>1, BeginAccount
<1>3. CASE MainCount \/ OnConnectedReturns \/ OnMessagesReturns
  BY <1>3, BeginAccount DEF MainCount, OnConnectedReturns, OnMessagesReturns
<1>4. CASE OnMessages /\ req' # req
  <2>1. PICK msg \in Messages : req' = Begin(ActionOf(msg))
                                /\ ActionOf(msg) # "none"
    BY <1>4 DEF OnMessages
  <2>2. ActionOf(msg) \in Kinds
    BY <2>1 DEF ActionOf, Kinds
  <2> QED BY <2>1, <2>2, BeginAccount
<1>5. CASE req' = req
  BY <1>5 DEF AccountInv, Judged, Counted, TrueMeansSent,
              SettledRequestFreesAll, LeaksAreLate
<1>6. CASE SetUpStep \/ ConnectStep \/ MainCheck \/ CleanupStep
  BY <1>5, <1>6
     DEF SetUpStep, UciAlloc, ReadConfig, TuyaInit, UbusConnect, ConnectStep,
         Connect, RetryCheck, RetrySleep, WaitCheck, MainCheck, CleanupStep,
         Disconnect, Deinit, CleanupEnd, CleanupCrashes
<1>7. CASE LoopError \/ LoopReconnect \/ LoopYield \/ YieldAcknowledged
           \/ YieldReturns \/ YieldLost
  BY <1>5, <1>7
     DEF LoopError, LoopReconnect, LoopYield, YieldAcknowledged, YieldReturns,
         YieldLost
<1>8. CASE Signal \/ UbusGoes \/ UNCHANGED vars
  BY <1>5, <1>8 DEF Signal, UbusGoes, UbusLost, vars
<1> QED
  BY <1>1, <1>2, <1>3, <1>4, <1>5, <1>6, <1>7, <1>8
     DEF Next, ThreadStep, MainLoopStep, LoopStep, Over

\* What the main loop counts as sent has been sent, and no request of the
\* running daemon leaks otherwise than in the two known ways.
THEOREM RequestsInDaemon ==
  ASSUME ~SilentReplies
  PROVE  Spec => [](TrueMeansSent /\ SettledRequestFreesAll /\ LeaksAreLate)
<1>1. Init => AccountInv
  BY DEF Init, AccountInv, NoRequest, Judged, Counted, TrueMeansSent,
         SettledRequestFreesAll, LeaksAreLate
<1>2. AccountInv => TrueMeansSent /\ SettledRequestFreesAll /\ LeaksAreLate
  BY DEF AccountInv
<1> QED BY <1>1, <1>2, TypeInvariant, AccountStep, PTL DEF Spec

-----------------------------------------------------------------------------
(***************************************************************************)
(* The daemon implements Lifecycle, with every fault on.                   *)
(***************************************************************************)
\* On its way out it is offline first and has no client then.
ReleaseInv ==
  /\ pc \in {"uci_alloc", "config", "tuya_init"} => mqtt = RawContext
  /\ mqtt.state = "raw" => ~mqtt.is_connected
  /\ pc \in {"deinit", "cleanup_end", "exited"} => ~mqtt.is_connected
  /\ pc \in {"cleanup_end", "exited"} => ~mqtt.client
  /\ process = "running" => pc # "exited"

LEMMA ReleaseInit == Init => ReleaseInv
BY DEF Init, ReleaseInv, RawContext

LEMMA ReleaseStep ==
  ASSUME TypeInv, PlaceInv, ReleaseInv, [Next]_vars
  PROVE  ReleaseInv'
<1> USE DEF ReleaseInv, At, Goto, GiveUp, connectVars, loopVars, ubusVars,
            Running
<1>0. mqtt \in Contexts /\ pc \in Locations /\ caller \in {"wait", "main"}
  BY DEF TypeInv, TypeOK
<1>1. CASE UciAlloc \/ ReadConfig
  BY <1>1 DEF UciAlloc, ReadConfig, RawContext
<1>2. CASE TuyaInit
  <2>1. TuyaMqttInitOk => mqtt'.state = "idle"
    BY <1>0 DEF TuyaMqttInitOk, Contexts
  <2> QED BY <1>2, <2>1 DEF TuyaInit
<1>3. CASE UbusConnect
  <2>1. mqtt'.state = mqtt.state /\ mqtt'.is_connected = mqtt.is_connected
    BY <1>0, <1>3 DEF UbusConnect, Contexts
  <2> QED BY <1>3, <2>1 DEF UbusConnect, UbusRefused
<1>4. CASE Connect \/ LoopReconnect \/ OnConnected \/ YieldAcknowledged
           \/ YieldLost
  <2>1. mqtt.state # "raw"
    BY <1>4 DEF PlaceInv, Connecting, Looping, MainPlaces, Connect,
                LoopReconnect, OnConnected, YieldAcknowledged, YieldLost
  <2>2. mqtt'.state # "raw"
    BY <1>0, <1>4, <2>1, ClientKept
       DEF Connect, LoopReconnect, OnConnected, YieldAcknowledged, YieldLost
  <2>3. pc' \in {"wait_check", "retry_check", "main_sleep", "on_connected",
                "yield"}
    BY <1>4 DEF Connect, LoopReconnect, OnConnected, YieldAcknowledged,
                YieldLost, LoopReturned
  <2> QED BY <2>2, <2>3
<1>5. CASE ConnectStep /\ ~Connect
  BY <1>5 DEF ConnectStep, RetryCheck, RetrySleep, WaitCheck, ConnectFailed
<1>6. CASE MainLoopStep
  BY <1>6 DEF MainLoopStep, MainCheck, MainSleep, MainCount, MainLoopFailed
<1>7. CASE \/ LoopError \/ OnConnectedReturns \/ LoopYield \/ YieldReturns
           \/ OnMessages \/ OnMessagesReturns
  BY <1>7
     DEF LoopError, ConnectFailed, MainLoopFailed, OnConnectedReturns,
         LoopYield, YieldReturns, OnMessages, OnMessagesReturns, LoopReturned
<1>8. CASE Disconnect
  <2>1. ~mqtt'.is_connected
    BY <1>0, <1>8 DEF Disconnect, TuyaMqttDisconnect, Contexts
  <2> QED BY <1>8, <2>1 DEF Disconnect
<1>9. CASE Deinit
  <2>1. ~mqtt'.client /\ mqtt'.is_connected = mqtt.is_connected
        /\ mqtt'.state = mqtt.state
    BY <1>0, <1>9 DEF Deinit, TuyaMqttDeinit, Contexts
  <2> QED BY <1>9, <2>1 DEF Deinit
<1>10. CASE CleanupEnd \/ CleanupCrashes
  BY <1>10 DEF CleanupEnd, CleanupCrashes
<1>11. CASE DoRequest
  BY <1>11 DEF DoRequest
<1>12. CASE Signal \/ UbusGoes \/ UNCHANGED vars
  BY <1>12 DEF Signal, UbusGoes, UbusLost, vars
<1> QED
  BY <1>1, <1>2, <1>3, <1>4, <1>5, <1>6, <1>7, <1>8, <1>9, <1>10, <1>11,
     <1>12
     DEF Next, ThreadStep, SetUpStep, ConnectStep, LoopStep, CleanupStep, Over

LEMMA ReleaseInvariant == Spec => []ReleaseInv
BY TypeInvariant, PlaceInvariant, ReleaseInit, ReleaseStep, PTL DEF Spec

\* What the clean-up's calls of the SDK are given.
ContextInv == pc \in {"disconnect", "deinit"} => CleanupContext

LEMMA ContextStep ==
  ASSUME TypeInv, PlaceInv, ReleaseInv, ContextInv, [Next]_vars
  PROVE  ContextInv'
<1> USE DEF ContextInv, CleanupContext, At, Goto, GiveUp, connectVars,
            loopVars, ubusVars
<1>0. mqtt \in Contexts
  BY DEF TypeInv, TypeOK
<1>1. CASE UciAlloc \/ ReadConfig
  BY <1>1 DEF UciAlloc, ReadConfig
<1>2. CASE TuyaInit
  <2>1. mqtt = RawContext /\ ubus = "unset"
    BY <1>2 DEF TuyaInit, ReleaseInv, PlaceInv, BeforeUbus
  <2> QED BY <1>2, <2>1 DEF TuyaInit
<1>3. CASE UbusConnect
  <2>1. mqtt.client /\ mqtt.state # "raw"
    BY <1>3 DEF UbusConnect, PlaceInv
  <2> QED BY <1>3, <2>1 DEF UbusConnect, UbusRefused
<1>4. CASE RetryCheck \/ LoopError \/ MainCheck \/ MainCount
  <2>1. mqtt.client /\ mqtt.state # "raw" /\ UNCHANGED mqtt
    BY <1>4 DEF RetryCheck, LoopError, MainCheck, MainCount, PlaceInv,
                Connecting, Looping, MainPlaces
  <2> QED BY <2>1
<1>5. CASE \/ Connect \/ RetrySleep \/ WaitCheck \/ MainSleep
           \/ LoopReconnect \/ OnConnected \/ OnConnectedReturns
           \/ LoopYield \/ YieldAcknowledged \/ YieldReturns
           \/ OnMessages \/ OnMessagesReturns \/ YieldLost \/ CleanupEnd
  <2>1. pc' \notin {"disconnect", "deinit"}
    BY <1>5 DEF Connect, RetrySleep, WaitCheck, MainSleep, LoopReconnect,
                OnConnected, OnConnectedReturns, LoopYield,
                YieldAcknowledged, YieldReturns, OnMessages,
                OnMessagesReturns, YieldLost, LoopReturned, CleanupEnd
  <2> QED BY <2>1
<1>6. CASE Disconnect
  <2>1. CASE mqtt.state = "raw"
    BY <1>6, <2>1 DEF Disconnect, TuyaMqttDisconnect
  <2>2. CASE mqtt.state # "raw"
    <3>1. mqtt.client
      BY <1>6, <2>2 DEF Disconnect, RawContext
    <3>2. mqtt'.client /\ mqtt'.state # "raw"
      BY <1>0, <1>6, <2>2, <3>1 DEF Disconnect, TuyaMqttDisconnect, Contexts
    <3> QED BY <3>2
  <2> QED BY <2>1, <2>2
<1>7. CASE Deinit
  BY <1>7 DEF Deinit
<1>8. CASE CleanupCrashes
  BY <1>8 DEF CleanupCrashes
<1>9. CASE DoRequest
  BY <1>9 DEF DoRequest
<1>10. CASE Signal
  BY <1>10 DEF Signal
<1>11. CASE UbusGoes
  <2>1. pc' = pc /\ mqtt' = mqtt /\ retVal' = retVal
        /\ (ubus = "unset" => ubus' = "unset")
    BY <1>11 DEF UbusGoes, UbusLost
  <2> QED BY <2>1
<1>12. CASE UNCHANGED vars
  BY <1>12 DEF vars
<1> QED
  BY <1>1, <1>2, <1>3, <1>4, <1>5, <1>6, <1>7, <1>8, <1>9, <1>10, <1>11,
     <1>12
     DEF Next, ThreadStep, SetUpStep, ConnectStep, MainLoopStep, LoopStep,
         CleanupStep, Over

\* With every fault on, connecting and serving work on an initialised client,
\* and loop it only after it was connected once; the clean-up works on such a
\* client too, or on the zeroed context of a tuya_mqtt_init that failed, and
\* then before ubus was tried and with that failure's status.
THEOREM ClientWhereUsed == Spec => []ClientUnlessInitFailed
<1>1. PlaceInv /\ ContextInv => ClientUnlessInitFailed
  BY DEF PlaceInv, ContextInv, ClientUnlessInitFailed, InConnect, InMainLoop,
         InLoop, Connecting, Looping, MainPlaces
<1>2. Init => ContextInv
  BY DEF Init, ContextInv
<1>3. Spec => []ContextInv
  BY <1>2, TypeInvariant, PlaceInvariant, ReleaseInvariant, ContextStep, PTL
     DEF Spec
<1> QED BY <1>1, <1>3, PlaceInvariant, PTL

InCalls == {"loop", "yield", "on_connected", "on_messages"}

\* The phase of the daemon, place by place.
Places ==
  /\ process = "crashed" => Phase = "killed"
  /\ process = "exited" => Phase = "ended"
  /\ process = "running" =>
       /\ pc \in BeforeUbus => Phase = "setup"
       /\ pc \in Connecting \cup {"wait_check"} => Phase = "connecting"
       /\ pc \in InCalls =>
            Phase = IF caller = "wait" THEN "connecting" ELSE "serving"
       /\ pc \in MainPlaces => Phase = "serving"
       /\ pc \in Closing \ {"exited"} => Phase = "closing"

LEMMA Phases == TypeOK => Places
BY DEF Places, Phase, Running, InConnect, InMainLoop, InLoop, BeforeUbus,
       Connecting, InCalls, MainPlaces, Closing, TypeOK, Locations

Hidden == UNCHANGED <<retVal, keepRunning>>

LEMMA Unseen ==
  ASSUME Phase' = Phase, UNCHANGED mqtt, Hidden
  PROVE  UNCHANGED Promise!vars
BY DEF Promise!vars, Hidden

LEMMA GivesUp ==
  ASSUME Phase \in {"setup", "connecting", "serving"}, Phase' = "closing",
         retVal' \in {1, -1, -2}, UNCHANGED <<mqtt, keepRunning>>
  PROVE  Promise!Next
BY DEF Promise!GiveUp, Promise!Next

\* A crash is one at any moment of a running process.
LEMMA Dies ==
  ASSUME process = "running", process' = "crashed", Places, Places',
         Phase \notin {"ended", "killed"}, UNCHANGED mqtt, Hidden
  PROVE  Promise!Next
<1>1. Phase' = "killed"
  BY DEF Places
<1>2. Promise!Die
  BY <1>1 DEF Promise!Die, Hidden
<1> QED BY <1>2 DEF Promise!Next

\* The session comes and goes, or it does not.
LEMMA Flips ==
  ASSUME mqtt \in Contexts, mqtt' \in Contexts,
         Phase \in {"connecting", "serving"}, Phase' = Phase,
         mqtt'.client = mqtt.client, Hidden
  PROVE  [Promise!Next]_(Promise!vars)
<1>1. mqtt.is_connected \in BOOLEAN /\ mqtt'.is_connected \in BOOLEAN
  BY DEF Contexts
<1>2. CASE mqtt'.is_connected = mqtt.is_connected
  BY <1>2 DEF Promise!vars, Hidden
<1>3. CASE mqtt'.is_connected = ~mqtt.is_connected
  <2>1. Promise!Flip
    BY <1>3 DEF Promise!Flip, Hidden
  <2> QED BY <2>1 DEF Promise!Next
<1> QED BY <1>1, <1>2, <1>3

LEMMA SetUpPromise ==
  ASSUME TypeInv, PlaceInv, ReleaseInv, Places, Places', SetUpStep
  PROVE  [Promise!Next]_(Promise!vars)
<1> USE DEF At, Goto, Running, ubusVars
<1>0. mqtt \in Contexts
  BY DEF TypeInv, TypeOK
<1>1. Phase = "setup" /\ process' = "running" /\ UNCHANGED keepRunning
  BY DEF SetUpStep, UciAlloc, ReadConfig, TuyaInit, UbusConnect, Places,
         BeforeUbus
<1>2. CASE pc' \in {"cleanup_end", "disconnect"} /\ retVal' \in {1, -1, -2}
           /\ UNCHANGED mqtt
  <2>1. Phase' = "closing"
    BY <1>1, <1>2 DEF Places, Closing
  <2> QED BY <1>1, <1>2, <2>1, GivesUp
<1>3. CASE pc' \in {"config", "tuya_init"} /\ UNCHANGED <<mqtt, retVal>>
  <2>1. Phase' = Phase
    BY <1>1, <1>3 DEF Places, BeforeUbus
  <2> QED BY <1>1, <1>3, <2>1, Unseen DEF Hidden
<1>4. CASE TuyaInit /\ TuyaMqttInitOk /\ pc' = "ubus_connect"
           /\ UNCHANGED retVal
  <2>1. mqtt = RawContext
    BY <1>4 DEF TuyaInit, ReleaseInv
  <2>2. mqtt'.client /\ mqtt'.is_connected = mqtt.is_connected
    BY <1>0, <1>4 DEF TuyaMqttInitOk, Contexts
  <2>3. mqtt'.client = TRUE /\ ~mqtt.client
    BY <2>1, <1>0, <1>4 DEF RawContext, TuyaMqttInitOk, Contexts
  <2>4. Phase' = "setup"
    BY <1>1, <1>4 DEF Places, BeforeUbus
  <2>5. Promise!Acquire
    BY <1>1, <1>4, <2>2, <2>3, <2>4 DEF Promise!Acquire
  <2> QED BY <2>5 DEF Promise!Next
<1>5. CASE UbusConnect /\ mqtt' = [mqtt EXCEPT !.user_data = "ubus"]
           /\ pc' = "connect" /\ UNCHANGED retVal
  <2>1. mqtt.client /\ mqtt'.client = mqtt.client
        /\ mqtt'.is_connected = mqtt.is_connected
    BY <1>0, <1>5 DEF UbusConnect, PlaceInv, Contexts
  <2>2. Phase' = "connecting"
    BY <1>1, <1>5 DEF Places, Connecting
  <2>3. Promise!Connect
    BY <1>1, <1>5, <2>1, <2>2 DEF Promise!Connect
  <2> QED BY <2>3 DEF Promise!Next
<1> QED
  BY <1>2, <1>3, <1>4, <1>5
     DEF SetUpStep, UciAlloc, ReadConfig, TuyaInit, UbusConnect, GiveUp,
         UbusRefused

LEMMA ConnectPromise ==
  ASSUME TypeInv, PlaceInv, Places, Places', ConnectStep
  PROVE  [Promise!Next]_(Promise!vars)
<1> USE DEF At, Goto, Running, ubusVars, loopVars
<1>0. mqtt \in Contexts /\ keepRunning \in {0, 1}
  BY DEF TypeInv, TypeOK
<1>1. Phase = "connecting" /\ process' = "running" /\ UNCHANGED keepRunning
      /\ caller = "wait"
  BY DEF ConnectStep, Connect, RetryCheck, RetrySleep, WaitCheck, Places,
         Connecting, TypeInv, CallerIsWait, Starting
<1>2. CASE Connect
  <2>1. Phase' = "connecting"
    BY <1>1, <1>2 DEF Connect, Places, Connecting
  <2>2. mqtt'.client = mqtt.client /\ mqtt'.is_connected = mqtt.is_connected
    BY <1>0, <1>2
       DEF Connect, TuyaMqttConnectOk, TuyaMqttConnectFails, Contexts
  <2> QED BY <1>1, <1>2, <2>1, <2>2 DEF Connect, Promise!vars
<1>3. CASE RetrySleep \/ (RetryCheck /\ pc' = "retry_sleep" /\ UNCHANGED retVal)
  <2>1. Phase' = "connecting" /\ UNCHANGED <<mqtt, retVal>>
    BY <1>1, <1>3 DEF RetrySleep, RetryCheck, Places, Connecting
  <2> QED BY <1>1, <2>1, Unseen DEF Hidden
<1>4. CASE RetryCheck /\ ConnectFailed
  <2>1. Phase' = "closing" /\ retVal' = -1 /\ UNCHANGED mqtt
    BY <1>1, <1>4 DEF RetryCheck, ConnectFailed, GiveUp, Places, Closing
  <2> QED BY <1>1, <2>1, GivesUp
<1>5. CASE WaitCheck /\ StillWaiting
  <2>1. Phase' = "connecting" /\ UNCHANGED <<mqtt, retVal>>
    BY <1>1, <1>5 DEF WaitCheck, Places, InCalls
  <2> QED BY <1>1, <2>1, Unseen DEF Hidden
<1>6. CASE WaitCheck /\ ~StillWaiting
  <2>1. Phase' = "serving" /\ UNCHANGED <<mqtt, retVal>>
    BY <1>1, <1>6 DEF WaitCheck, Places, MainPlaces
  <2>2. mqtt.is_connected \/ keepRunning = 0
    BY <1>0, <1>6 DEF StillWaiting
  <2>3. Promise!Serve
    BY <1>1, <2>1, <2>2 DEF Promise!Serve
  <2> QED BY <2>3 DEF Promise!Next
<1> QED BY <1>2, <1>3, <1>4, <1>5, <1>6 DEF ConnectStep, RetryCheck

LEMMA MainLoopPromise ==
  ASSUME TypeInv, PlaceInv, Places, Places', MainLoopStep
  PROVE  [Promise!Next]_(Promise!vars)
<1> USE DEF At, Goto, Running, ubusVars, loopVars
<1>0. keepRunning \in {0, 1}
  BY DEF TypeInv, TypeOK
<1>1. Phase = "serving" /\ process' = "running" /\ caller' = "main"
      /\ UNCHANGED <<mqtt, keepRunning>>
  BY DEF MainLoopStep, MainCheck, MainSleep, MainCount, Places, MainPlaces,
         PlaceInv
<1>2. CASE UNCHANGED retVal /\ pc' \in {"loop", "main_send", "main_check"}
  <2>1. Phase' = "serving"
    BY <1>1, <1>2 DEF Places, MainPlaces, InCalls
  <2> QED BY <1>1, <1>2, <2>1, Unseen DEF Hidden
<1>3. CASE MainLoopFailed
  <2>1. Phase' = "closing" /\ retVal' = 1
    BY <1>1, <1>3 DEF MainLoopFailed, GiveUp, Places, Closing
  <2> QED BY <1>1, <2>1, GivesUp
<1>4. CASE MainCheck /\ ~StillServing
  <2>1. Phase' = "closing" /\ UNCHANGED retVal
    BY <1>1, <1>4 DEF MainCheck, Places, Closing
  <2>2. keepRunning = 0
    BY <1>0, <1>4 DEF StillServing
  <2>3. Promise!Stop
    BY <1>1, <2>1, <2>2 DEF Promise!Stop
  <2> QED BY <2>3 DEF Promise!Next
<1> QED
  BY <1>2, <1>3, <1>4 DEF MainLoopStep, MainCheck, MainSleep, MainCount

\* Inside tuya_mqtt_loop, callbacks included.
LEMMA LoopPromise ==
  ASSUME TypeInv, TypeInv', Places, Places', LoopStep
  PROVE  [Promise!Next]_(Promise!vars)
<1> USE DEF At, Goto, Running, ubusVars, loopVars
<1>0. mqtt \in Contexts /\ mqtt' \in Contexts /\ caller \in {"wait", "main"}
  BY DEF TypeInv, TypeOK
<1>1. /\ Phase \in {"connecting", "serving"}
      /\ Phase = IF caller = "wait" THEN "connecting" ELSE "serving"
      /\ process' = "running" /\ UNCHANGED <<caller, keepRunning>>
  BY <1>0 DEF LoopStep, LoopError, LoopReconnect, OnConnected,
              OnConnectedReturns, LoopYield, YieldAcknowledged, YieldReturns,
              OnMessages, OnMessagesReturns, YieldLost, LoopReturned, Places,
              InCalls
<1>2. CASE LoopError
  <2>1. Phase' = "closing" /\ retVal' \in {1, -1} /\ UNCHANGED mqtt
    BY <1>1, <1>2
       DEF LoopError, ConnectFailed, MainLoopFailed, GiveUp, Places, Closing
  <2> QED BY <1>1, <2>1, GivesUp
<1>3. CASE LoopStep /\ ~LoopError
  <2>1. /\ UNCHANGED retVal
        /\ \/ pc' \in InCalls
           \/ pc' = IF caller = "wait" THEN "wait_check" ELSE "main_sleep"
    BY <1>3
       DEF LoopStep, LoopReconnect, OnConnected, OnConnectedReturns,
           LoopYield, YieldAcknowledged, YieldReturns, OnMessages,
           OnMessagesReturns, YieldLost, LoopReturned, InCalls
  <2>2. Phase' = Phase
    BY <1>1, <2>1 DEF Places, MainPlaces
  <2>3. CASE UNCHANGED mqtt
    BY <1>1, <2>1, <2>2, <2>3, Unseen DEF Hidden
  <2>4. CASE \/ LoopReconnects \/ LoopReportsConnected
             \/ SubscriptionAcknowledged \/ SessionLost
    <3>1. mqtt'.client = mqtt.client
      BY <1>0, <2>4, ClientKept
    <3> QED BY <1>0, <1>1, <2>1, <2>2, <3>1, Flips DEF Hidden
  <2> QED
    BY <1>3, <2>3, <2>4
       DEF LoopStep, LoopReconnect, OnConnected, OnConnectedReturns,
           LoopYield, YieldAcknowledged, YieldReturns, OnMessages,
           OnMessagesReturns, YieldLost
<1> QED BY <1>2, <1>3

LEMMA CleanupPromise ==
  ASSUME TypeInv, ReleaseInv, ReleaseInv', Places, Places', CleanupStep
  PROVE  [Promise!Next]_(Promise!vars)
<1> USE DEF At, Goto, Running, ubusVars
<1>0. mqtt \in Contexts
  BY DEF TypeInv, TypeOK
<1>1. CASE CleanupCrashes
  <2>1. Phase \notin {"ended", "killed"}
    BY <1>1 DEF CleanupCrashes, Phase
  <2> QED BY <1>1, <2>1, Dies DEF CleanupCrashes, Hidden
<1>2. CASE ~CleanupCrashes
  <2>1. Phase = "closing" /\ Hidden
    BY <1>2 DEF CleanupStep, Disconnect, Deinit, CleanupEnd, Places, Closing,
                Hidden
  <2>2. CASE Disconnect
    <3>1. Phase' = "closing"
      BY <2>2 DEF Disconnect, Places, Closing
    <3>2. ~mqtt'.is_connected /\ mqtt'.client = mqtt.client
      BY <1>0, <2>2 DEF Disconnect, TuyaMqttDisconnect, ReleaseInv, Contexts
    <3>3. CASE mqtt.is_connected
      <4>1. Promise!GoOffline
        BY <2>1, <3>1, <3>2, <3>3
           DEF Promise!GoOffline, Hidden, ReleaseInv, Contexts
      <4> QED BY <4>1 DEF Promise!Next
    <3>4. CASE ~mqtt.is_connected
      <4>1. mqtt'.is_connected = mqtt.is_connected
        BY <1>0, <2>2, <3>4
           DEF Disconnect, TuyaMqttDisconnect, Contexts
      <4> QED BY <2>1, <3>1, <3>2, <4>1 DEF Promise!vars, Hidden
    <3> QED BY <3>3, <3>4
  <2>3. CASE Deinit
    <3>1. Phase' = "closing" /\ ~mqtt.is_connected
      BY <2>3 DEF Deinit, Places, Closing, ReleaseInv
    <3>2. mqtt'.client = FALSE /\ mqtt'.is_connected = mqtt.is_connected
      BY <1>0, <2>3 DEF Deinit, TuyaMqttDeinit, Contexts
    <3>3. CASE mqtt.client
      <4>1. Promise!Release
        BY <2>1, <3>1, <3>2, <3>3 DEF Promise!Release, Hidden
      <4> QED BY <4>1 DEF Promise!Next
    <3>4. CASE mqtt.client = FALSE
      BY <2>1, <3>1, <3>2, <3>4 DEF Promise!vars, Hidden
    <3> QED BY <1>0, <3>3, <3>4 DEF Contexts
  <2>4. CASE CleanupEnd
    <3>1. Phase' = "ended" /\ ~mqtt.client /\ UNCHANGED mqtt
      BY <2>4 DEF CleanupEnd, Places, ReleaseInv
    <3>2. Promise!End
      BY <2>1, <3>1 DEF Promise!End, Hidden
    <3> QED BY <3>2 DEF Promise!Next
  <2> QED BY <1>2, <2>2, <2>3, <2>4 DEF CleanupStep
<1> QED BY <1>1, <1>2

\* A request changes nothing that Lifecycle sees, unless it kills the process.
LEMMA RequestPromise ==
  ASSUME TypeInv, Places, Places', DoRequest
  PROVE  [Promise!Next]_(Promise!vars)
<1>1. SessionOpen \in BOOLEAN
  BY DEF SessionOpen
<1>2. process = "running" /\ process' \in {"running", "crashed"}
  BY <1>1, RequestKeepsUbus
     DEF DoRequest, RequestStep, LookupFound, LookupFails, BuildArguments,
         Answer, InvokeFails, InvokeOk, Report, RequestCrashes, Running
<1>3. UNCHANGED <<pc, caller, mqtt>> /\ Hidden
  BY DEF DoRequest, Hidden, loopVars
<1>4. CASE process' = "running"
  <2>1. Phase' = Phase
    BY <1>2, <1>3, <1>4 DEF Phase, Running, InConnect, InMainLoop, InLoop
  <2> QED BY <1>3, <2>1, Unseen
<1>5. CASE process' = "crashed"
  <2>1. Phase \notin {"ended", "killed"}
    BY <1>2 DEF Phase
  <2> QED BY <1>2, <1>3, <1>5, <2>1, Dies
<1> QED BY <1>2, <1>4, <1>5

\* The signal, and ubusd going away.
LEMMA OutsidePromise ==
  ASSUME Signal \/ UbusGoes
  PROVE  [Promise!Next]_(Promise!vars)
<1>1. Phase' = Phase /\ UNCHANGED <<mqtt, retVal>>
      /\ process = "running"
  BY DEF Signal, UbusGoes, UbusLost, loopVars, ubusVars, Phase, Running,
         InConnect, InMainLoop, InLoop
<1>2. CASE Signal
  <2>1. Phase \notin {"ended", "killed"}
    BY <1>1 DEF Phase
  <2>2. Promise!Ask
    BY <1>1, <1>2, <2>1 DEF Promise!Ask, Signal
  <2> QED BY <2>2 DEF Promise!Next
<1>3. CASE UbusGoes
  BY <1>1, <1>3, Unseen DEF UbusGoes, Hidden
<1> QED BY <1>2, <1>3

\* Whatever drops, fails or answers, every step of the daemon is one that
\* Lifecycle allows, or one that it does not see: it serves only once it is
\* online or asked to stop, and it ends offline, released, and with a status
\* that was decided before.
THEOREM PromiseKept == Spec => KeepsPromise
<1>1. Init => Promise!Init
  BY DEF Init, Promise!Init, Phase, InConnect, InMainLoop, InLoop, Running,
         RawContext
<1>2. /\ TypeInv /\ PlaceInv /\ ReleaseInv /\ Places
      /\ TypeInv' /\ ReleaseInv' /\ Places'
      /\ [Next]_vars
      => [Promise!Next]_(Promise!vars)
  <2> SUFFICES ASSUME TypeInv, PlaceInv, ReleaseInv, Places,
                      TypeInv', ReleaseInv', Places', [Next]_vars
               PROVE  [Promise!Next]_(Promise!vars)
    OBVIOUS
  <2>1. CASE UNCHANGED vars
    BY <2>1 DEF vars, Promise!vars, Phase, Running, InConnect, InMainLoop,
                InLoop
  <2> QED
    BY <2>1, SetUpPromise, ConnectPromise, MainLoopPromise, LoopPromise,
       CleanupPromise, RequestPromise, OutsidePromise
       DEF Next, ThreadStep, Over
<1>3. TypeInv => Places
  BY Phases DEF TypeInv
<1> QED
  BY <1>1, <1>2, <1>3, TypeInvariant, PlaceInvariant, ReleaseInvariant, PTL
     DEF Spec, KeepsPromise, Promise!Spec
=============================================================================
