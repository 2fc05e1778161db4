--------------------------- MODULE Daemon_proofs ---------------------------
(***************************************************************************)
(* Theorems about Daemon, for every value of its constants: its types and  *)
(* its waits; lifetimes, that is, what the daemon may still use and what   *)
(* it has released; and how soon the thread is out after a signal.         *)
(***************************************************************************)
EXTENDS Daemon, SendInfo_proofs, FiniteSetTheorems

USE RetriesAssumption, FailLimitAssumption, MessagesAssumption,
    AnswersAssumption

-----------------------------------------------------------------------------
(***************************************************************************)
(* Type correctness.  TypeOK is not inductive: a request needs the string  *)
(* it frees to be allocated (DataAllocated of SendInfo_proofs), and the two *)
(* counters need the checks that guard them.                               *)
(***************************************************************************)
RetryGuarded == pc = "retry_sleep" => tries < ConnectRetries

FailuresBelowLimit == InMainLoop => failCount < SendFailLimit

\* Until connect_to_tuya returns, tuya_mqtt_loop returns to it.
Starting ==
  pc \in {"uci_alloc", "config", "tuya_init", "ubus_connect", "connect",
          "retry_check", "retry_sleep", "wait_check"}

CallerIsWait == Starting => caller = "wait"

TypeInv ==
  TypeOK /\ DataAllocated /\ RetryGuarded /\ FailuresBelowLimit /\ CallerIsWait

\* Counting a call that returned keeps the counts within their range.
LEMMA ReturnedType ==
  ASSUME late \in [Calls -> 0 .. 2], NEW call \in Calls, Returned(call)
  PROVE  late' \in [Calls -> 0 .. 2]
BY DEF Returned

\* What the SDK makes of its context stays a context.
LEMMA ContextType ==
  ASSUME mqtt \in Contexts,
         \/ TuyaMqttInitOk \/ TuyaMqttConnectOk \/ TuyaMqttConnectFails
         \/ TuyaMqttDisconnect \/ TuyaMqttDeinit \/ LoopReconnects
         \/ LoopReportsConnected \/ SubscriptionAcknowledged \/ SessionLost
  PROVE  mqtt' \in Contexts
BY DEF Contexts, ClientStates, TuyaMqttInitOk, TuyaMqttConnectOk,
       TuyaMqttConnectFails, TuyaMqttDisconnect, TuyaMqttDeinit,
       LoopReconnects, LoopReportsConnected, SubscriptionAcknowledged,
       SessionLost

\* The initial state is well typed.
LEMMA TypeInit == Init => TypeInv
<1> SUFFICES ASSUME Init PROVE TypeInv
  OBVIOUS
<1>1. ReqTypeOK /\ DataAllocated
  BY NoRequestType DEF Init, ReqTypeOK, UbusStates, DataAllocated
<1>2. late \in [Calls -> 0 .. 2]
  BY DEF Init
<1>3. mqtt \in Contexts
  BY DEF Init, RawContext, Contexts, ClientStates
<1>4. QED
  BY <1>1, <1>2, <1>3
     DEF Init, TypeInv, TypeOK, Locations, RetryGuarded, FailuresBelowLimit,
         CallerIsWait, Starting, InMainLoop, InLoop

\* Set-up, connecting and the main loop keep the types.
LEMMA TypeConnecting ==
  ASSUME TypeInv, SetUpStep \/ ConnectStep
  PROVE  TypeInv'
<1> USE DEF TypeInv, TypeOK, DataAllocated, ReqTypeOK, RetryGuarded,
            FailuresBelowLimit, CallerIsWait, Starting, InMainLoop, InLoop,
            Locations, At, Goto, GiveUp, connectVars, loopVars, ubusVars
<1>1. CASE UciAlloc
  BY <1>1 DEF UciAlloc
<1>2. CASE ReadConfig
  BY <1>2 DEF ReadConfig
<1>3. CASE TuyaInit
  BY <1>3, ContextType DEF TuyaInit
<1>4. CASE UbusConnect
  BY <1>4 DEF UbusConnect, UbusRefused, UbusStates, Contexts
<1>5. CASE Connect
  BY <1>5, ContextType, ReturnedType DEF Connect, Calls
<1>6. CASE RetryCheck
  BY <1>6 DEF RetryCheck, RetryAgain, ConnectFailed
<1>7. CASE RetrySleep
  BY <1>7, ReturnedType DEF RetrySleep, Calls
<1>8. CASE WaitCheck
  BY <1>8 DEF WaitCheck
<1>9. QED
  BY <1>1, <1>2, <1>3, <1>4, <1>5, <1>6, <1>7, <1>8
     DEF SetUpStep, ConnectStep

\* The main loop keeps the types: the count of failures stays below the limit
\* as long as the loop goes on.
LEMMA TypeMainLoop ==
  ASSUME TypeInv, MainLoopStep
  PROVE  TypeInv'
<1> USE DEF TypeInv, TypeOK, DataAllocated, ReqTypeOK, RetryGuarded,
            FailuresBelowLimit, CallerIsWait, Starting, InMainLoop, InLoop,
            Locations, At, Goto, GiveUp, connectVars, loopVars, ubusVars
<1>1. CASE MainCheck
  BY <1>1 DEF MainCheck
<1>2. CASE MainSleep
  BY <1>2, BeginType, ReturnedType DEF MainSleep, Calls, Kinds
<1>3. CASE MainCount
  <2>1. late' \in [Calls -> 0 .. 2]
    BY <1>3, ReturnedType DEF MainCount, Calls
  <2>2. /\ failCount < SendFailLimit
        /\ failCount' = IF Sent THEN 0 ELSE failCount + 1
        /\ failCount' = SendFailLimit => pc' = "disconnect"
        /\ pc' \in {"main_check", "disconnect"} /\ retVal' \in {retVal, 1}
    BY <1>3 DEF MainCount, CountFailure, TooMany, MainLoopFailed
  <2>3. /\ failCount' \in 0 .. SendFailLimit
        /\ pc' = "main_check" => failCount' < SendFailLimit
    BY <2>2
  <2>4. QED
    BY <1>3, <2>1, <2>2, <2>3, NoRequestType DEF MainCount
<1>4. QED
  BY <1>1, <1>2, <1>3 DEF MainLoopStep

\* So do tuya_mqtt_loop and the callbacks it makes.
LEMMA TypeLoop ==
  ASSUME TypeInv, LoopStep
  PROVE  TypeInv'
<1> USE DEF TypeInv, TypeOK, DataAllocated, ReqTypeOK, RetryGuarded,
            FailuresBelowLimit, CallerIsWait, Starting, InMainLoop, InLoop,
            Locations, At, Goto, GiveUp, LoopReturned, connectVars, loopVars,
            ubusVars
<1>1. CASE LoopError
  BY <1>1, ReturnedType DEF LoopError, ConnectFailed, MainLoopFailed, Calls
<1>2. CASE LoopReconnect
  BY <1>2, ContextType, ReturnedType DEF LoopReconnect, Calls
<1>3. CASE OnConnected
  BY <1>3, ContextType, BeginType DEF OnConnected, Kinds
<1>4. CASE OnConnectedReturns
  BY <1>4, NoRequestType, ReturnedType DEF OnConnectedReturns, Calls
<1>5. CASE LoopYield
  BY <1>5 DEF LoopYield
<1>6. CASE YieldAcknowledged
  BY <1>6, ContextType DEF YieldAcknowledged
<1>7. CASE YieldReturns
  BY <1>7, ReturnedType DEF YieldReturns, Calls
<1>8. CASE OnMessages
  <2>1. PICK msg \in Messages :
          IF ActionOf(msg) = "none" THEN UNCHANGED <<pc, req>>
          ELSE req' = Begin(ActionOf(msg)) /\ Goto("on_messages")
    BY <1>8 DEF OnMessages
  <2>2. ActionOf(msg) \in Kinds \cup {"none"}
    BY DEF ActionOf, Kinds
  <2>3. handled' \in 0 .. MaxMessages
    BY <1>8 DEF OnMessages
  <2>4. CASE ActionOf(msg) = "none"
    BY <1>8, <2>1, <2>3, <2>4 DEF OnMessages
  <2>5. CASE ActionOf(msg) # "none"
    BY <1>8, <2>1, <2>2, <2>3, <2>5, BeginType DEF OnMessages
  <2>6. QED
    BY <2>4, <2>5
<1>9. CASE OnMessagesReturns
  BY <1>9, NoRequestType DEF OnMessagesReturns
<1>10. CASE YieldLost
  BY <1>10, ContextType, ReturnedType
     DEF YieldLost, OnDisconnect, UbusStates, Calls
<1>11. QED
  BY <1>1, <1>2, <1>3, <1>4, <1>5, <1>6, <1>7, <1>8, <1>9, <1>10
     DEF LoopStep

\* The clean-up, a step of a request, the signal and ubusd keep the types.
LEMMA TypeOthers ==
  ASSUME TypeInv,
         \/ CleanupStep \/ DoRequest \/ Signal \/ UbusGoes
         \/ UNCHANGED vars
  PROVE  TypeInv'
<1> USE DEF TypeInv, TypeOK, RetryGuarded, FailuresBelowLimit,
            CallerIsWait, Starting, InMainLoop, InLoop, Locations, At, Goto,
            connectVars, loopVars, ubusVars
<1>1. CASE Disconnect
  BY <1>1, ContextType
     DEF Disconnect, OnDisconnect, ReqTypeOK, DataAllocated, UbusStates
<1>2. CASE Deinit
  BY <1>2, ContextType DEF Deinit, ReqTypeOK, DataAllocated
<1>3. CASE CleanupEnd
  BY <1>3 DEF CleanupEnd, ReqTypeOK, DataAllocated
<1>4. CASE CleanupCrashes
  BY <1>4 DEF CleanupCrashes, ReqTypeOK, DataAllocated
<1>5. CASE DoRequest
  <2>1. SessionOpen \in BOOLEAN
    BY DEF SessionOpen
  <2>2. ReqTypeOK' /\ DataAllocated'
    BY <1>5, <2>1, RequestTypes DEF DoRequest
  <2>3. QED
    BY <1>5, <2>2 DEF DoRequest
<1>6. CASE Signal
  BY <1>6 DEF Signal, ReqTypeOK, DataAllocated
<1>7. CASE UbusGoes
  BY <1>7 DEF UbusGoes, UbusLost, ReqTypeOK, DataAllocated, UbusStates
<1>8. CASE UNCHANGED vars
  BY <1>8 DEF vars, ReqTypeOK, DataAllocated
<1>9. QED
  BY <1>1, <1>2, <1>3, <1>4, <1>5, <1>6, <1>7, <1>8 DEF CleanupStep

\* Every step keeps the types.
LEMMA TypeStep == TypeInv /\ [Next]_vars => TypeInv'
BY TypeConnecting, TypeMainLoop, TypeLoop, TypeOthers
   DEF Next, ThreadStep, Over

\* The inductive invariant, for the theorems that need it.
LEMMA TypeInvariant == Spec => []TypeInv
BY TypeInit, TypeStep, PTL DEF Spec

\* Every variable of the daemon keeps its type, and every counter its bound:
\* never more than ConnectRetries retries, never more than SendFailLimit
\* failures, never a string freed that is not allocated.
THEOREM TypeCorrect == Spec => []TypeOK
<1>1. TypeInv => TypeOK
  BY DEF TypeInv
<1>2. QED
  BY <1>1, TypeInvariant, PTL

-----------------------------------------------------------------------------
(***************************************************************************)
(* The waits between attempts.  The provers do not unfold the power, so    *)
(* that one more doubles it is proved by counting: a set of one element    *)
(* more has twice the subsets, those without the element and those with it.*)
(***************************************************************************)
LEMMA PowerDoubles ==
  ASSUME NEW n \in Nat
  PROVE  2 ^ n \in Nat /\ 2 ^ (n + 1) = 2 * 2 ^ n
<1> DEFINE Old == SUBSET (1 .. n)
           Added == {s \cup {n + 1} : s \in Old}
<1>1. /\ IsFiniteSet(1 .. n) /\ Cardinality(1 .. n) = n
      /\ IsFiniteSet(1 .. n + 1) /\ Cardinality(1 .. n + 1) = n + 1
  BY FS_Interval
<1>2. /\ IsFiniteSet(Old) /\ Cardinality(Old) = 2 ^ n
      /\ Cardinality(SUBSET (1 .. n + 1)) = 2 ^ (n + 1)
  BY <1>1, FS_SUBSET
<1>3. Cardinality(Old) \in Nat
  BY <1>2, FS_CardinalityType
<1>4. IsFiniteSet(Added) /\ Cardinality(Added) = Cardinality(Old)
  <2> DEFINE f == [s \in Old |-> s \cup {n + 1}]
  <2>1. n + 1 \notin 1 .. n
    OBVIOUS
  <2>2. \A s, r \in Old : s \cup {n + 1} = r \cup {n + 1} => s = r
    BY <2>1
  <2>3. \A t \in Added : \E s \in Old : f[s] = t
    OBVIOUS
  <2>4. \A s \in Old : f[s] = s \cup {n + 1} /\ f[s] \in Added
    OBVIOUS
  <2>5. f \in [Old -> Added]
    BY <2>4
  <2>6. \A s, r \in Old : f[s] = f[r] => s = r
    BY <2>2, <2>4
  <2> HIDE DEF f, Old, Added
  <2>7. f \in Bijection(Old, Added)
    BY <2>3, <2>5, <2>6 DEF Bijection, Injection, IsInjective, Surjection
  <2>8. QED
    BY <1>2, <2>7, FS_Bijection DEF ExistsBijection
<1>5. SUBSET (1 .. n + 1) = Old \cup Added
  <2>1. 1 .. n + 1 = (1 .. n) \cup {n + 1}
    OBVIOUS
  <2>2. ASSUME NEW s \in SUBSET (1 .. n + 1)
        PROVE  s \in Old \cup Added
    <3>1. CASE n + 1 \in s
      <4>1. s \ {n + 1} \in Old /\ s = (s \ {n + 1}) \cup {n + 1}
        BY <2>1, <3>1
      <4>2. QED
        BY <4>1
    <3>2. CASE n + 1 \notin s
      BY <2>1, <3>2
    <3>3. QED
      BY <3>1, <3>2
  <2>3. ASSUME NEW s \in Old \cup Added
        PROVE  s \in SUBSET (1 .. n + 1)
    BY <2>1
  <2> HIDE DEF Old, Added
  <2>4. QED
    BY <2>2, <2>3
<1>6. Old \cap Added = {}
  <2>1. \A s \in Old : n + 1 \notin s
    OBVIOUS
  <2>2. \A s \in Added : n + 1 \in s
    OBVIOUS
  <2> HIDE DEF Old, Added
  <2>3. QED
    BY <2>1, <2>2
<1> HIDE DEF Old, Added
<1>7. Cardinality(Old \cup Added) = Cardinality(Old) + Cardinality(Old)
  <2>1. Cardinality(Old \cap Added) = 0
    BY <1>6, FS_EmptySet
  <2>2. Cardinality(Old \cup Added)
          = Cardinality(Old) + Cardinality(Added) - Cardinality(Old \cap Added)
    BY <1>2, <1>4, FS_Union
  <2>3. QED
    BY <1>3, <1>4, <2>1, <2>2
<1>8. QED
  BY <1>2, <1>3, <1>5, <1>7

\* How often it slept, and how long it will sleep next.
WaitInv == tries \in Nat /\ sleepSeconds = 2 * 2 ^ tries

\* The first wait takes two seconds.
LEMMA WaitInit == Init => WaitInv
<1>1. 2 ^ 0 = 1
  OBVIOUS
<1>2. QED
  BY <1>1 DEF Init, WaitInv

\* Only a retry moves the two, and it moves both.
LEMMA WaitStep ==
  ASSUME WaitInv, [Next]_vars
  PROVE  WaitInv'
<1>1. CASE RetrySleep
  <2>1. tries' = tries + 1 /\ sleepSeconds' = 2 * sleepSeconds
    BY <1>1 DEF RetrySleep
  <2>2. 2 ^ (tries + 1) = 2 * 2 ^ tries
    BY PowerDoubles DEF WaitInv
  <2>3. QED
    BY <2>1, <2>2 DEF WaitInv
<1>2. CASE ~RetrySleep
  <2>1. UNCHANGED <<tries, sleepSeconds>>
    BY <1>2
       DEF Next, ThreadStep, SetUpStep, UciAlloc, ReadConfig, TuyaInit,
           UbusConnect, ConnectStep, Connect, RetryCheck, WaitCheck,
           MainLoopStep, MainCheck, MainSleep, MainCount, LoopStep,
           LoopError, LoopReconnect, OnConnected, OnConnectedReturns,
           LoopYield, YieldAcknowledged, YieldReturns, OnMessages,
           OnMessagesReturns, YieldLost, CleanupStep, Disconnect, Deinit,
           CleanupEnd, CleanupCrashes, DoRequest, Signal, UbusGoes, Over,
           connectVars, vars
  <2>2. QED
    BY <2>1 DEF WaitInv
<1>3. QED
  BY <1>1, <1>2

\* The waits of connect_to_tuya double from two seconds, for however many
\* retries it is built with, and there are never more than that many.
THEOREM WaitsDouble == Spec => []RetryBackoff
<1>1. TypeInv /\ WaitInv => RetryBackoff
  BY DEF TypeInv, TypeOK, WaitInv, RetryBackoff
<1>2. QED
  BY <1>1, TypeInvariant, WaitInit, WaitStep, PTL DEF Spec

-----------------------------------------------------------------------------
(***************************************************************************)
(* The UCI context outlives the SDK client.  Inductive with the places     *)
(* where there is no client yet or any more, and those where the context   *)
(* is known to live.                                                       *)
(***************************************************************************)
Clientless ==
  pc \in {"uci_alloc", "config", "tuya_init", "cleanup_end", "exited"}

LifetimeInv ==
  /\ Clientless => ~mqtt.client
  /\ pc \notin {"uci_alloc", "cleanup_end", "exited"} => uci = "live"

\* The initial state has no client.
LEMMA LifetimeInit == Init => LifetimeInv
BY DEF Init, LifetimeInv, Clientless, RawContext

\* Every step keeps the two lifetimes in order.
LEMMA LifetimeStep ==
  ASSUME TypeInv, LifetimeInv, [Next]_vars
  PROVE  LifetimeInv'
<1> USE DEF LifetimeInv, Clientless, At, Goto, GiveUp, connectVars, loopVars,
            ubusVars
<1>0. mqtt \in Contexts
  BY DEF TypeInv, TypeOK
<1>1. CASE SetUpStep
  BY <1>0, <1>1
     DEF SetUpStep, UciAlloc, ReadConfig, TuyaInit, UbusConnect, UbusRefused,
         Contexts
<1>2. CASE ConnectStep
  BY <1>2
     DEF ConnectStep, Connect, RetryCheck, ConnectFailed, RetrySleep,
         WaitCheck
<1>3. CASE MainLoopStep
  BY <1>3
     DEF MainLoopStep, MainCheck, MainSleep, MainCount, MainLoopFailed
<1>4. CASE LoopStep
  BY <1>4
     DEF LoopStep, LoopReturned, LoopError, LoopReconnect, OnConnected,
         OnConnectedReturns, LoopYield, YieldAcknowledged, YieldReturns,
         OnMessages, OnMessagesReturns, YieldLost, ConnectFailed,
         MainLoopFailed
<1>5. CASE CleanupStep
  BY <1>0, <1>5
     DEF CleanupStep, Disconnect, Deinit, TuyaMqttDeinit, CleanupEnd,
         CleanupCrashes, Contexts
<1>6. CASE DoRequest \/ Signal \/ UbusGoes \/ UNCHANGED vars
  BY <1>6 DEF DoRequest, Signal, UbusGoes, vars
<1>7. QED
  BY <1>1, <1>2, <1>3, <1>4, <1>5, <1>6 DEF Next, ThreadStep, Over

\* As long as the SDK client exists, the UCI context that holds its device id
\* and secret has not been freed, on every path through main.
THEOREM UciLives == Spec => []UciOutlivesClient
<1>1. LifetimeInv => UciOutlivesClient
  BY DEF LifetimeInv, Clientless, UciOutlivesClient
<1>2. Spec => []LifetimeInv
  BY TypeInvariant, LifetimeInit, LifetimeStep, PTL DEF Spec
<1>3. QED
  BY <1>1, <1>2, PTL

-----------------------------------------------------------------------------
(***************************************************************************)
(* The ubus context.  Without session drops, on_disconnect runs once, at   *)
(* the end: before that the context is not freed, and from connect to the  *)
(* last report it is there.  Without silent services, what a request       *)
(* reports has been assigned.                                              *)
(***************************************************************************)
Serving ==
  pc \in {"connect", "retry_check", "retry_sleep", "wait_check", "main_check",
          "main_sleep", "main_send"} \/ InLoop

ResponseAssigned ==
  /\ req.success = "unset" <=> req.answers = <<>>
  /\ req.success = "yes" => req.data # "unset"
  /\ req.step = "report" => req.success = "yes"

UbusInv ==
  /\ Serving => ubus \in {"live", "lost"}
  /\ pc \notin {"deinit", "cleanup_end", "exited"} => ubus # "freed"

ResponseInv ==
  /\ ResponseAssigned
  /\ InRequest \/ req.step = "idle"
  /\ process = "crashed" => uci = "null"

\* Nothing is assigned and nothing freed initially.
LEMMA UbusInit == Init => UbusInv /\ ResponseInv
BY DEF Init, UbusInv, Serving, InLoop, ResponseInv, ResponseAssigned, NoRequest

\* A request does not touch the ubus context.
LEMMA RequestKeepsUbus ==
  ASSUME NEW open \in BOOLEAN, RequestStep(open)
  PROVE  ubus' = ubus /\ process' \in {process, "crashed"}
BY DEF RequestStep, LookupFound, LookupFails, BuildArguments, Answer,
       InvokeFails, InvokeOk, Report, RequestCrashes

\* A request never reports, publishes or frees a pointer that no answer
\* assigned, and does not kill the process.
LEMMA RequestIsSafe ==
  ASSUME ReqTypeOK, DataAllocated, ~SilentReplies, ResponseAssigned, ubus # "freed",
         req.step # "idle", NEW open \in BOOLEAN, RequestStep(open)
  PROVE  /\ ResponseAssigned' /\ UNCHANGED <<ubus, process>>
         /\ req'.step # "idle"
<1> USE DEF Requests, Steps, ResponseAssigned
<1>0. req \in Requests
  BY DEF ReqTypeOK
<1>1. CASE LookupFound \/ LookupFails \/ BuildArguments
  BY <1>0, <1>1 DEF LookupFound, LookupFails, BuildArguments
<1>2. CASE Answer
  <2>1. PICK answer \in {"valid", "invalid"} : req' \in Judge(req, answer)
    BY <1>2 DEF Answer
  <2>2. Len(req'.answers) = Len(req.answers) + 1
    BY <1>0, <1>2, <2>1, JudgeType DEF DataAllocated, Answer
  <2>3. req'.answers # <<>>
    BY <1>0, <2>2
  <2>4. /\ req'.step = "invoke"
        /\ req'.success = "no" \/ (req'.success = "yes" /\ req'.data # "unset")
    BY <1>0, <1>2, <2>1, JudgeSettles DEF Answer
  <2>5. QED
    BY <1>2, <2>3, <2>4 DEF Answer
<1>3. CASE InvokeFails
  BY <1>0, <1>3 DEF InvokeFails
<1>4. CASE InvokeOk
  BY <1>0, <1>4 DEF InvokeOk
<1>5. CASE Report(open)
  <2>1. req.success = "yes" /\ req.data # "unset" /\ req.answers # <<>>
    BY <1>5 DEF Report
  <2>2. /\ req'.success = req.success /\ req'.answers = req.answers
        /\ req'.data = req.data /\ req'.step = "done"
    BY <1>0, <1>5 DEF Report, FreeData
  <2>3. QED
    BY <1>5, <2>1, <2>2 DEF Report
<1>6. CASE RequestCrashes
  BY <1>6 DEF RequestCrashes
<1>7. QED
  BY <1>1, <1>2, <1>3, <1>4, <1>5, <1>6 DEF RequestStep

\* Every step of a daemon without session drops keeps the ubus context alive
\* until tuya_mqtt_disconnect.
LEMMA UbusStep ==
  ASSUME UbusInv, ~SessionDrops, [Next]_vars
  PROVE  UbusInv'
<1> USE DEF UbusInv, Serving, InLoop, At, Goto, GiveUp, connectVars,
            loopVars, ubusVars
<1>1. CASE SetUpStep
  BY <1>1
     DEF SetUpStep, UciAlloc, ReadConfig, TuyaInit, UbusConnect, UbusRefused
<1>2. CASE ConnectStep
  BY <1>2
     DEF ConnectStep, Connect, RetryCheck, ConnectFailed, RetrySleep,
         WaitCheck
<1>3. CASE MainLoopStep
  BY <1>3
     DEF MainLoopStep, MainCheck, MainSleep, MainCount, MainLoopFailed
<1>4. CASE LoopStep
  BY <1>4
     DEF LoopStep, LoopError, LoopReconnect, OnConnected, OnConnectedReturns,
         LoopYield, YieldAcknowledged, YieldReturns, OnMessages,
         OnMessagesReturns, YieldLost, LoopReturned, ConnectFailed,
         MainLoopFailed
<1>5. CASE CleanupStep
  BY <1>5 DEF CleanupStep, Disconnect, Deinit, CleanupEnd, CleanupCrashes
<1>6. CASE DoRequest
  <2>1. SessionOpen \in BOOLEAN
    BY DEF SessionOpen
  <2>2. QED
    BY <1>6, <2>1, RequestKeepsUbus DEF DoRequest
<1>7. CASE Signal \/ UbusGoes \/ UNCHANGED vars
  BY <1>7 DEF Signal, UbusGoes, UbusLost, vars
<1>8. QED
  BY <1>1, <1>2, <1>3, <1>4, <1>5, <1>6, <1>7 DEF Next, ThreadStep, Over

\* When services also answer what they acknowledge, a request never gets as
\* far as reporting what no answer assigned, and nothing kills the process
\* but the want of memory.
LEMMA ResponseStep ==
  ASSUME TypeInv, UbusInv, ResponseInv, ~SessionDrops, ~SilentReplies,
         [Next]_vars
  PROVE  ResponseInv'
<1> USE DEF UbusInv, ResponseInv, Serving, InLoop, InRequest, At, Goto, GiveUp,
            connectVars, loopVars, ubusVars
<1>0. /\ ReqTypeOK /\ DataAllocated /\ pc \in Locations
      /\ NoRequest.step = "idle" /\ ResponseAssigned
  BY DEF TypeInv, TypeOK, NoRequest
<1>a. ASSUME UNCHANGED req PROVE ResponseAssigned'
  BY <1>0, <1>a DEF ResponseAssigned
<1>b. ASSUME req' = NoRequest PROVE ResponseAssigned'
  BY <1>b DEF ResponseAssigned, NoRequest
<1>c. ASSUME NEW kind \in Kinds, req' = Begin(kind) PROVE ResponseAssigned'
  BY <1>c DEF ResponseAssigned, Begin, NoRequest
<1>1. CASE SetUpStep
  <2>1. CASE UciAlloc
    BY <2>1, <1>a DEF UciAlloc, Running
  <2>2. CASE ReadConfig
    BY <2>2, <1>a DEF ReadConfig
  <2>3. CASE TuyaInit
    BY <2>3, <1>a DEF TuyaInit
  <2>4. CASE UbusConnect
    BY <2>4, <1>a DEF UbusConnect, UbusRefused
  <2>5. QED
    BY <1>1, <2>1, <2>2, <2>3, <2>4 DEF SetUpStep
<1>2. CASE ConnectStep
  BY <1>2, <1>a
     DEF ConnectStep, Connect, RetryCheck, ConnectFailed, RetrySleep,
         WaitCheck
<1>3. CASE MainCheck
  BY <1>3, <1>a DEF MainCheck
<1>4. CASE MainSleep
  BY <1>4, <1>c DEF MainSleep, Kinds
<1>5. CASE MainCount
  BY <1>0, <1>5, <1>b DEF MainCount, MainLoopFailed
<1>6. CASE LoopError \/ LoopReconnect \/ LoopYield \/ YieldAcknowledged \/ YieldReturns
  BY <1>6, <1>a
     DEF LoopError, LoopReconnect, LoopYield, YieldAcknowledged,
         YieldReturns, LoopReturned, ConnectFailed, MainLoopFailed
<1>7. CASE OnConnected
  BY <1>7, <1>c DEF OnConnected, Kinds
<1>8. CASE OnConnectedReturns \/ OnMessagesReturns
  BY <1>0, <1>8, <1>b DEF OnConnectedReturns, OnMessagesReturns, LoopReturned
<1>9. CASE OnMessages
  <2>1. PICK msg \in Messages :
          IF ActionOf(msg) = "none" THEN UNCHANGED <<pc, req>>
          ELSE req' = Begin(ActionOf(msg)) /\ Goto("on_messages")
    BY <1>9 DEF OnMessages
  <2>2. ActionOf(msg) \in Kinds \cup {"none"}
    BY DEF ActionOf, Kinds
  <2>3. QED
    BY <1>9, <2>1, <2>2, <1>a, <1>c DEF OnMessages
<1>10. CASE YieldLost
  BY <1>10 DEF YieldLost
<1>11. CASE CleanupStep
  BY <1>11, <1>a
     DEF CleanupStep, Disconnect, Deinit, CleanupEnd, CleanupCrashes,
         OnDisconnect
<1>12. CASE DoRequest
  <2>1. SessionOpen \in BOOLEAN
    BY DEF SessionOpen
  <2>2. req.step # "idle" /\ ubus # "freed"
    BY <1>12 DEF DoRequest, RequestStep, LookupFound, LookupFails,
       BuildArguments, Answer, InvokeFails, InvokeOk, Report, RequestCrashes
  <2>3. /\ ResponseAssigned' /\ UNCHANGED <<ubus, process>>
    BY <1>0, <1>12, <2>1, <2>2, RequestIsSafe DEF DoRequest
  <2>4. QED
    BY <1>12, <2>3 DEF DoRequest
<1>13. CASE Signal
  BY <1>13, <1>a DEF Signal
<1>14. CASE UbusGoes
  BY <1>14, <1>a DEF UbusGoes, UbusLost
<1>15. CASE UNCHANGED vars
  BY <1>15, <1>a DEF vars
<1>16. QED
  BY <1>1, <1>2, <1>3, <1>4, <1>5, <1>6, <1>7, <1>8, <1>9, <1>10, <1>11,
     <1>12, <1>13, <1>14, <1>15
     DEF Next, ThreadStep, MainLoopStep, LoopStep, Over

\* The invariant of a daemon whose sessions are not dropped.
LEMMA UbusInvariant ==
  ASSUME ~SessionDrops
  PROVE  Spec => []UbusInv
BY UbusInit, UbusStep, PTL DEF Spec

\* Without session drops, no request and no callback ever gets a ubus context
\* that was freed, whatever the services answer.
THEOREM UbusLives ==
  ASSUME ~SessionDrops
  PROVE  Spec => []UbusLiveWhenUsed
<1>1. UbusInv => UbusLiveWhenUsed
  BY DEF UbusInv, Serving, InRequest, InLoop, UbusLiveWhenUsed
<1>2. QED
  BY <1>1, UbusInvariant, PTL

\* Without silent services either, it never dies, unless uci_alloc_context had
\* no memory: no use after free, no double free, no use of the uninitialised
\* response.
THEOREM NeverCrashes ==
  ASSUME ~SessionDrops, ~SilentReplies
  PROVE  Spec => []CrashOnlyOutOfMemory
<1>1. ResponseInv => CrashOnlyOutOfMemory
  BY DEF ResponseInv, CrashOnlyOutOfMemory
<1>2. QED
  BY <1>1, TypeInvariant, UbusInvariant, UbusInit, ResponseStep, PTL DEF Spec

-----------------------------------------------------------------------------
(***************************************************************************)
(* StopBound is not inductive: how many calls may still return depends on  *)
(* where the thread is, because keep_running is looked at in four places   *)
(* only.  Nothing is counted before the signal; after it, a place behind   *)
(* the last look has nothing counted yet but what lies between the look    *)
(* and the place.                                                          *)
(***************************************************************************)
Fresh == {"uci_alloc", "config", "tuya_init", "ubus_connect", "retry_sleep",
          "loop", "yield", "on_connected", "on_messages"}

LateInv ==
  /\ keepRunning = 1 \/ pc \in Fresh => \A c \in Calls : late[c] = 0
  /\ pc = "connect" =>
       late["connect"] = 0 /\ late["loop"] = 0 /\ late["send"] = 0
  /\ pc = "retry_check" => late["loop"] = 0 /\ late["send"] = 0
  /\ pc = "wait_check" => late["send"] = 0
  /\ pc = "main_sleep" =>
       late["connect"] = 0 /\ late["sleep"] = 0 /\ late["send"] = 0
  /\ pc = "main_send" => late["connect"] = 0 /\ late["send"] = 0
  /\ StopBound

\* Nothing is counted initially.
LEMMA LateInit == Init => LateInv
BY DEF Init, LateInv, StopBound, Calls

\* Counting a call that returned touches its own count only, by one at most,
\* and only after the signal.
LEMMA ReturnedCounts ==
  ASSUME late \in [Calls -> 0 .. 2], NEW call \in Calls, Returned(call)
  PROVE  /\ late' \in [Calls -> 0 .. 2]
         /\ keepRunning = 1 => late' = late
         /\ \A c \in Calls \ {call} : late'[c] = late[c]
         /\ late'[call] <= late[call] + 1
BY DEF Returned

\* Every step keeps the counts where the thread's place allows them.
LEMMA LateStep ==
  ASSUME TypeInv, LateInv, [Next]_vars
  PROVE  LateInv'
<1> USE DEF LateInv, StopBound, Fresh, Calls, At, Goto, GiveUp, connectVars,
            loopVars, ubusVars
<1>0. late \in [Calls -> 0 .. 2] /\ keepRunning \in {0, 1}
  BY DEF TypeInv, TypeOK
<1>1. CASE SetUpStep
  BY <1>0, <1>1
     DEF SetUpStep, UciAlloc, ReadConfig, TuyaInit, UbusConnect, UbusRefused
<1>2. CASE Connect
  <2>1. Returned("connect")
    BY <1>2 DEF Connect
  <2>2. QED
    BY <1>0, <1>2, <2>1, ReturnedCounts DEF Connect
<1>3. CASE RetryCheck
  BY <1>0, <1>3 DEF RetryCheck, RetryAgain, ConnectFailed
<1>4. CASE RetrySleep
  <2>1. Returned("sleep")
    BY <1>4 DEF RetrySleep
  <2>2. QED
    BY <1>0, <1>4, <2>1, ReturnedCounts DEF RetrySleep
<1>5. CASE WaitCheck
  BY <1>0, <1>5 DEF WaitCheck, StillWaiting
<1>6. CASE MainCheck
  BY <1>0, <1>6 DEF MainCheck, StillServing
<1>7. CASE MainSleep
  <2>1. Returned("sleep")
    BY <1>7 DEF MainSleep
  <2>2. QED
    BY <1>0, <1>7, <2>1, ReturnedCounts DEF MainSleep
<1>8. CASE MainCount
  <2>1. Returned("send") /\ pc' \in {"main_check", "disconnect"}
    BY <1>8 DEF MainCount, MainLoopFailed
  <2>2. QED
    BY <1>0, <1>8, <2>1, ReturnedCounts DEF MainCount
<1>9. CASE LoopError \/ LoopReconnect \/ OnConnectedReturns \/ YieldReturns
           \/ YieldLost
  <2>1. /\ Returned("loop") /\ UNCHANGED keepRunning /\ pc \in Fresh
        /\ pc' \in {"wait_check", "main_sleep", "disconnect"}
    BY <1>9
       DEF LoopError, LoopReconnect, OnConnectedReturns, YieldReturns,
           YieldLost, LoopReturned, ConnectFailed, MainLoopFailed
  <2>2. QED
    BY <1>0, <2>1, ReturnedCounts
<1>10. CASE OnConnected \/ LoopYield \/ YieldAcknowledged \/ OnMessages
            \/ OnMessagesReturns
  BY <1>0, <1>10
     DEF OnConnected, LoopYield, YieldAcknowledged, OnMessages,
         OnMessagesReturns
<1>11. CASE CleanupStep
  BY <1>0, <1>11
     DEF CleanupStep, Disconnect, Deinit, CleanupEnd, CleanupCrashes
<1>12. CASE DoRequest \/ UbusGoes \/ UNCHANGED vars
  BY <1>12 DEF DoRequest, UbusGoes, vars
<1>13. CASE Signal
  BY <1>0, <1>13 DEF Signal
<1>14. QED
  BY <1>1, <1>2, <1>3, <1>4, <1>5, <1>6, <1>7, <1>8, <1>9, <1>10, <1>11,
     <1>12, <1>13
     DEF Next, ThreadStep, ConnectStep, MainLoopStep, LoopStep, Over

\* Wherever a signal finds the thread, at most one sleep, one connection
\* attempt or loop, and one report still return before it cleans up.
THEOREM StopsSoon == Spec => []StopBound
<1>1. LateInv => StopBound
  BY DEF LateInv
<1>2. Spec => []LateInv
  BY TypeInvariant, LateInit, LateStep, PTL DEF Spec
<1>3. QED
  BY <1>1, <1>2, PTL

-----------------------------------------------------------------------------
(***************************************************************************)
(* The way out.  After the signal every step of the thread takes it nearer *)
(* to the end: Distance counts what is left, at most, of a request, of a   *)
(* yield, and of main.  It is SignalStops without the scheduling: a thread *)
(* that goes on taking steps ends.                                         *)
(***************************************************************************)
\* What is left of a request, which an answer takes from MaxAnswers.
RequestLeft ==
  CASE req.step = "lookup" -> MaxAnswers + 4
    [] req.step = "build"  -> MaxAnswers + 3
    [] req.step = "invoke" -> MaxAnswers - Len(req.answers) + 2
    [] req.step = "report" -> 1
    [] OTHER               -> 0

\* More than any request.
Longest == MaxAnswers + 5

\* What is left of a yield: a request for each message, one acknowledgement.
YieldLeft ==
  (MaxMessages - handled) * (Longest + 2)
    + (IF mqtt.state = "connecting" THEN 1 ELSE 0)

\* What is left of main after the signal, by where the thread is.
StepsLeft ==
  [exited       |-> 0,
   cleanup_end  |-> 1,
   deinit       |-> 2,
   disconnect   |-> 3,
   main_check   |-> 4,
   retry_check  |-> 4,
   main_send    |-> 5 + RequestLeft,
   main_sleep   |-> 5 + Longest,
   wait_check   |-> 6 + Longest,
   on_connected |-> 7 + Longest + RequestLeft,
   yield        |-> 7 + Longest + YieldLeft,
   on_messages  |-> 8 + Longest + YieldLeft + RequestLeft,
   loop         |-> 9 + 2 * Longest + YieldLeft,
   connect      |-> 7 + Longest,
   retry_sleep  |-> 8 + Longest,
   ubus_connect |-> 8 + Longest,
   tuya_init    |-> 9 + Longest,
   config       |-> 10 + Longest,
   uci_alloc    |-> 11 + Longest]

Distance == IF Running THEN StepsLeft[pc] ELSE 0

\* A step of a request takes it nearer to its result, or kills the process.
LEMMA RequestNearer ==
  ASSUME ReqTypeOK, DataAllocated, NEW open \in BOOLEAN, RequestStep(open)
  PROVE  \/ process' = "crashed"
         \/ process' = process /\ RequestLeft' < RequestLeft
<1>0. req \in Requests /\ Len(req.answers) \in 0 .. MaxAnswers
  BY DEF ReqTypeOK, Requests
<1> USE DEF RequestLeft, Requests, Steps
<1>1. CASE LookupFound \/ LookupFails
  BY <1>0, <1>1 DEF LookupFound, LookupFails
<1>2. CASE BuildArguments
  <2>1. /\ req'.answers = req.answers /\ req'.step \in {"invoke", "done"}
        /\ req.step = "build" /\ process' = process
    BY <1>0, <1>2 DEF BuildArguments
  <2>2. QED
    BY <1>0, <2>1
<1>3. CASE Answer
  <2>1. PICK answer \in {"valid", "invalid"} : req' \in Judge(req, answer)
    BY <1>3 DEF Answer
  <2>2. /\ req'.step = req.step /\ Len(req'.answers) = Len(req.answers) + 1
        /\ req.step = "invoke" /\ process' = process
    BY <1>0, <1>3, <2>1, JudgeType, JudgeSettles DEF Answer, DataAllocated
  <2>3. QED
    BY <1>0, <2>2
<1>4. CASE InvokeFails \/ InvokeOk
  <2>1. /\ req'.step \in {"report", "done"} /\ req.step = "invoke"
        /\ process' = process
    BY <1>0, <1>4 DEF InvokeFails, InvokeOk
  <2>2. QED
    BY <1>0, <2>1
<1>5. CASE Report(open)
  <2>1. req'.step = "done" /\ req.step = "report" /\ process' = process
    BY <1>0, <1>5 DEF Report, FreeData
  <2>2. QED
    BY <2>1
<1>6. CASE RequestCrashes
  BY <1>6 DEF RequestCrashes
<1>7. QED
  BY <1>1, <1>2, <1>3, <1>4, <1>5, <1>6 DEF RequestStep

\* What is left of a request and of a yield are numbers, and no request is
\* longer than Longest.
LEMMA LeftType ==
  ASSUME TypeInv
  PROVE  /\ RequestLeft \in Nat /\ RequestLeft < Longest
         /\ YieldLeft \in Nat /\ Longest \in Nat
<1>1. req \in Requests /\ Len(req.answers) \in 0 .. MaxAnswers
  BY DEF TypeInv, TypeOK, ReqTypeOK, Requests
<1>2. RequestLeft \in Nat /\ RequestLeft < Longest /\ Longest \in Nat
  <2> DEFINE n == Len(req.answers)
  <2>1. n \in 0 .. MaxAnswers
    BY <1>1
  <2>2. RequestLeft \in {MaxAnswers + 4, MaxAnswers + 3, MaxAnswers - n + 2, 1, 0}
    BY DEF RequestLeft
  <2> HIDE DEF n
  <2>3. QED
    BY <2>1, <2>2 DEF Longest
<1>3. MaxMessages - handled \in Nat /\ Longest + 2 \in Nat
  BY <1>2 DEF TypeInv, TypeOK
<1>4. (MaxMessages - handled) * (Longest + 2) \in Nat
  BY <1>3
<1>5. YieldLeft \in Nat
  BY <1>4 DEF YieldLeft
<1>6. QED
  BY <1>2, <1>5

\* A message that is taken from those that may still come leaves room for its
\* request.
LEMMA MessageTaken ==
  ASSUME TypeInv, handled' = handled + 1, UNCHANGED mqtt, handled < MaxMessages
  PROVE  YieldLeft = YieldLeft' + Longest + 2
<1> DEFINE m == MaxMessages - handled
           w == Longest + 2
<1>1. m \in Int /\ w \in Int
  BY LeftType DEF TypeInv, TypeOK
<1>2. MaxMessages - (handled + 1) = m - 1
  BY DEF TypeInv, TypeOK
<1> HIDE DEF m, w
<1>3. m * w = (m - 1) * w + w /\ m * w \in Int /\ (m - 1) * w \in Int
  BY <1>1
<1>4. YieldLeft = m * w + (IF mqtt.state = "connecting" THEN 1 ELSE 0)
  BY DEF YieldLeft, m, w
<1>5. YieldLeft' = (m - 1) * w + (IF mqtt.state = "connecting" THEN 1 ELSE 0)
  BY <1>2 DEF YieldLeft, Longest, w
<1>6. w = Longest + 2 /\ Longest \in Int
  BY LeftType DEF w
<1>7. QED
  BY <1>1, <1>3, <1>4, <1>5, <1>6

\* A new request is as long as one can be.
LEMMA RequestBegun ==
  ASSUME NEW kind \in Kinds, req' = Begin(kind)
  PROVE  RequestLeft' = Longest - 1
BY DEF Begin, NoRequest, RequestLeft, Longest

\* The distance is a number.
LEMMA DistanceType == TypeInv => Distance \in Nat
<1> SUFFICES ASSUME TypeInv PROVE Distance \in Nat
  OBVIOUS
<1>1. /\ RequestLeft \in Nat /\ YieldLeft \in Nat /\ Longest \in Nat
      /\ pc \in Locations
  BY LeftType DEF TypeInv, TypeOK
<1>2. QED
  BY <1>1 DEF Distance, StepsLeft, Locations

\* Set-up and connecting: the retry loop is left at the next check.
LEMMA NearerConnecting ==
  ASSUME TypeInv, keepRunning = 0, SetUpStep \/ ConnectStep
  PROVE  Distance' < Distance
<1>1. Longest \in Nat
  BY LeftType
<1> USE DEF Distance, StepsLeft, At, Goto, GiveUp, ubusVars
<1>2. Running /\ process' = process /\ Longest' = Longest
  BY DEF SetUpStep, UciAlloc, ReadConfig, TuyaInit, UbusConnect, ConnectStep,
         Connect, RetryCheck, RetrySleep, WaitCheck, Longest
<1>3. /\ pc = "uci_alloc" => pc' \in {"config", "cleanup_end"}
      /\ pc = "config" => pc' \in {"tuya_init", "cleanup_end"}
      /\ pc = "tuya_init" => pc' \in {"ubus_connect", "disconnect"}
      /\ pc = "ubus_connect" => pc' \in {"connect", "disconnect"}
      /\ pc = "connect" => pc' \in {"wait_check", "retry_check"}
      /\ pc = "retry_check" => pc' = "disconnect"
      /\ pc = "retry_sleep" => pc' = "connect"
      /\ pc = "wait_check" => pc' = "main_check"
      /\ pc \in {"uci_alloc", "config", "tuya_init", "ubus_connect", "connect",
                "retry_check", "retry_sleep", "wait_check"}
  BY DEF SetUpStep, UciAlloc, ReadConfig, TuyaInit, UbusConnect, UbusRefused,
         ConnectStep, Connect, RetryCheck, RetryAgain, ConnectFailed,
         RetrySleep, WaitCheck, StillWaiting
<1>4. QED
  BY <1>1, <1>2, <1>3 DEF Running

\* The main loop: the report is finished, and the next check is the last.
LEMMA NearerServing ==
  ASSUME TypeInv, keepRunning = 0, MainLoopStep
  PROVE  Distance' < Distance
<1>1. Longest \in Nat /\ RequestLeft \in Nat /\ RequestLeft < Longest
  BY LeftType
<1> USE DEF Distance, StepsLeft, At, Goto, GiveUp, ubusVars
<1>2. Running /\ process' = process /\ Longest' = Longest
  BY DEF MainLoopStep, MainCheck, MainSleep, MainCount, Longest, Running
<1>3. CASE MainCheck
  <2>1. pc = "main_check" /\ pc' = "disconnect"
    BY <1>3 DEF MainCheck, StillServing
  <2>2. QED
    BY <1>2, <2>1 DEF Running
<1>4. CASE MainSleep
  <2>1. pc = "main_sleep" /\ pc' = "main_send" /\ req' = Begin("memory")
    BY <1>4 DEF MainSleep
  <2>2. RequestLeft' = Longest - 1
    BY <2>1, RequestBegun DEF Kinds
  <2>3. QED
    BY <1>1, <1>2, <2>1, <2>2 DEF Running
<1>5. CASE MainCount
  <2>1. pc = "main_send" /\ pc' \in {"main_check", "disconnect"}
    BY <1>5 DEF MainCount, MainLoopFailed
  <2>2. QED
    BY <1>1, <1>2, <2>1 DEF Running
<1>6. QED
  BY <1>3, <1>4, <1>5 DEF MainLoopStep

\* tuya_mqtt_loop: a yield takes MaxMessages messages at most, each of them
\* makes one request at most, and the session is acknowledged once.
LEMMA NearerLooping ==
  ASSUME TypeInv, LoopStep
  PROVE  Distance' < Distance
<1>1. /\ Longest \in Nat /\ RequestLeft \in Nat /\ RequestLeft < Longest
      /\ YieldLeft \in Nat
  BY LeftType
<1> USE DEF Distance, StepsLeft, At, Goto, GiveUp, ubusVars, loopVars
<1>2. Running /\ process' = process /\ Longest' = Longest
  BY DEF LoopStep, LoopError, LoopReconnect, OnConnected, OnConnectedReturns,
         LoopYield, YieldAcknowledged, YieldReturns, OnMessages,
         OnMessagesReturns, YieldLost, Longest, Running
<1>3. CASE LoopError \/ LoopReconnect \/ OnConnectedReturns \/ YieldReturns
           \/ YieldLost
  <2>1. /\ pc \in {"loop", "yield", "on_connected"}
        /\ pc' \in {"wait_check", "main_sleep", "disconnect"}
    BY <1>3
       DEF LoopError, LoopReconnect, OnConnectedReturns, YieldReturns,
           YieldLost, LoopReturned, ConnectFailed, MainLoopFailed
  <2>2. QED
    BY <1>1, <1>2, <2>1 DEF Running
<1>4. CASE OnConnected
  <2>1. pc = "loop" /\ pc' = "on_connected" /\ req' = Begin("memory")
    BY <1>4 DEF OnConnected
  <2>2. RequestLeft' = Longest - 1
    BY <2>1, RequestBegun DEF Kinds
  <2>3. QED
    BY <1>1, <1>2, <2>1, <2>2 DEF Running
<1>5. CASE LoopYield
  <2>1. pc = "loop" /\ pc' = "yield" /\ YieldLeft' = YieldLeft
    BY <1>5 DEF LoopYield, YieldLeft, Longest
  <2>2. QED
    BY <1>1, <1>2, <2>1 DEF Running
<1>6. CASE YieldAcknowledged
  <2>1. pc = "yield" /\ pc' = "yield" /\ handled' = handled
    BY <1>6 DEF YieldAcknowledged
  <2>2. mqtt.state = "connecting" /\ mqtt'.state = "connected"
    BY <1>6 DEF YieldAcknowledged, SubscriptionAcknowledged, TypeInv, TypeOK,
                Contexts
  <2> DEFINE messages == (MaxMessages - handled) * (Longest + 2)
  <2>3. YieldLeft = messages + 1
    BY <2>2 DEF YieldLeft
  <2>4. YieldLeft' = messages + 0
    BY <2>1, <2>2 DEF YieldLeft, Longest
  <2>5. messages \in Int
    BY <1>1 DEF TypeInv, TypeOK
  <2> HIDE DEF messages
  <2>6. PICK left \in Int : YieldLeft' = left /\ left < YieldLeft
    BY <2>3, <2>4, <2>5
  <2>7. QED
    BY <1>1, <1>2, <2>1, <2>6 DEF Running
<1>7. CASE OnMessages
  <2>1. /\ pc = "yield" /\ handled < MaxMessages /\ handled' = handled + 1
        /\ mqtt' = mqtt
    BY <1>7 DEF OnMessages
  <2>2. YieldLeft' \in Int
    <3>1. (MaxMessages - (handled + 1)) * (Longest + 2) \in Int
      BY <1>1 DEF TypeInv, TypeOK
    <3>2. QED
      BY <2>1, <3>1 DEF YieldLeft, Longest
  <2>3. PICK left \in Int :
          YieldLeft' = left /\ YieldLeft = left + Longest + 2
    BY <2>1, <2>2, MessageTaken
  <2>4. CASE UNCHANGED <<pc, req>>
    BY <1>1, <1>2, <2>1, <2>3, <2>4 DEF Running
  <2>5. CASE pc' = "on_messages" /\ \E kind \in Kinds : req' = Begin(kind)
    <3>1. RequestLeft' = Longest - 1
      BY <2>5, RequestBegun
    <3>2. QED
      BY <1>1, <1>2, <2>1, <2>3, <2>5, <3>1 DEF Running
  <2>6. \A msg \in Messages : ActionOf(msg) \in Kinds \cup {"none"}
    BY DEF ActionOf, Kinds
  <2>7. QED
    BY <1>7, <2>4, <2>5, <2>6 DEF OnMessages
<1>8. CASE OnMessagesReturns
  <2>1. pc = "on_messages" /\ pc' = "yield" /\ YieldLeft' = YieldLeft
    BY <1>8 DEF OnMessagesReturns, YieldLeft, Longest
  <2>2. QED
    BY <1>1, <1>2, <2>1 DEF Running
<1>9. QED
  BY <1>3, <1>4, <1>5, <1>6, <1>7, <1>8 DEF LoopStep

\* Clean-up, and a step of a request.
LEMMA NearerEnding ==
  ASSUME TypeInv, CleanupStep \/ DoRequest
  PROVE  Distance' < Distance
<1>1. /\ Longest \in Nat /\ RequestLeft \in Nat /\ YieldLeft \in Nat
  BY LeftType
<1> USE DEF Distance, StepsLeft, At, Goto, Running
<1>2. CASE CleanupStep
  <2>1. /\ Running
        /\ \/ pc = "disconnect" /\ pc' = "deinit" /\ process' = process
           \/ pc = "deinit" /\ pc' = "cleanup_end" /\ process' = process
           \/ pc \in {"yield", "disconnect", "cleanup_end"} /\ ~Running'
    BY <1>2
       DEF CleanupStep, Disconnect, Deinit, CleanupEnd, CleanupCrashes,
           ubusVars
  <2>2. QED
    BY <1>1, <2>1
<1>3. CASE DoRequest
  <2>1. /\ pc \in {"main_send", "on_connected", "on_messages"} /\ pc' = pc
        /\ YieldLeft' = YieldLeft /\ Longest' = Longest
    BY <1>3 DEF DoRequest, YieldLeft, Longest, loopVars
  <2>2. Running
    BY <1>3
       DEF DoRequest, RequestStep, LookupFound, LookupFails, BuildArguments,
           Answer, InvokeFails, InvokeOk, Report, RequestCrashes
  <2>3. \/ process' = "crashed"
        \/ process' = process /\ RequestLeft' < RequestLeft
    <3>1. SessionOpen \in BOOLEAN
      BY DEF SessionOpen
    <3>2. ReqTypeOK /\ DataAllocated
      BY DEF TypeInv, TypeOK
    <3>3. QED
      BY <1>3, <3>1, <3>2, RequestNearer DEF DoRequest
  <2>4. RequestLeft' \in Int
    <3>1. RequestLeft' \in {MaxAnswers + 4, MaxAnswers + 3, 1, 0,
                           MaxAnswers - Len(req'.answers) + 2}
      BY DEF RequestLeft
    <3>2. Len(req'.answers) \in Int
      BY <1>3, TypeOthers DEF TypeInv, TypeOK, ReqTypeOK, Requests
    <3>3. QED
      BY <3>1, <3>2
  <2>5. QED
    BY <1>1, <2>1, <2>2, <2>3, <2>4
<1>4. QED
  BY <1>2, <1>3

\* What is outside the thread neither takes back the signal nor the way that
\* the thread has gone.
LEMMA OutsideNeutral ==
  ASSUME Signal \/ UbusGoes \/ Over \/ UNCHANGED vars
  PROVE  Distance' = Distance
<1>1. UNCHANGED <<pc, req, process, mqtt, handled>>
  BY DEF Signal, UbusGoes, UbusLost, Over, vars, loopVars, ubusVars
<1>2. QED
  BY <1>1
     DEF Distance, StepsLeft, RequestLeft, YieldLeft, Longest, Running

\* The signal, once it came, is not taken back, and every step of the thread
\* counts down.
Nearer ==
  /\ keepRunning' = 0
  /\ Distance' <= Distance
  /\ ThreadStep => Distance' < Distance

\* From the signal on there is a number that never grows and that every step
\* of the thread decreases, wherever the signal found it: in a retry, in a
\* yield with messages still to come, in a request that waits for ubusd.  The
\* thread stops after that many steps at most.
THEOREM SignalCountsDown ==
  Spec => /\ [](Distance \in Nat)
          /\ [][keepRunning = 0 => Nearer]_vars
<1>1. ASSUME TypeInv, keepRunning = 0, Next
      PROVE  Nearer
  <2>1. Distance \in Nat
    BY <1>1, DistanceType
  <2>2. TypeInv' /\ (TypeInv' => Distance' \in Nat)
    <3>1. TypeInv'
      BY <1>1, TypeStep
    <3>2. (TypeInv => Distance \in Nat)'
      BY DistanceType, PTL
    <3>3. QED
      BY <3>1, <3>2
  <2>3. ThreadStep => Distance' < Distance
    BY <1>1, NearerConnecting, NearerServing, NearerLooping, NearerEnding
       DEF ThreadStep
  <2>4. ~ThreadStep => Distance' = Distance
    BY <1>1, OutsideNeutral DEF Next
  <2>5. keepRunning' = 0
    BY <1>1
       DEF Next, ThreadStep, SetUpStep, UciAlloc, ReadConfig, TuyaInit,
           UbusConnect, ConnectStep, Connect, RetryCheck, RetrySleep,
           WaitCheck, MainLoopStep, MainCheck, MainSleep, MainCount,
           LoopStep, LoopError, LoopReconnect, OnConnected,
           OnConnectedReturns, LoopYield, YieldAcknowledged, YieldReturns,
           OnMessages, OnMessagesReturns, YieldLost, CleanupStep,
           Disconnect, Deinit, CleanupEnd, CleanupCrashes, DoRequest,
           Signal, UbusGoes, Over, vars
  <2>6. QED
    BY <2>1, <2>2, <2>3, <2>4, <2>5 DEF Nearer
<1>2. TypeInv /\ [Next]_vars => [keepRunning = 0 => Nearer]_vars
  BY <1>1
<1>3. QED
  BY <1>2, DistanceType, TypeInvariant, PTL DEF Spec
=============================================================================
