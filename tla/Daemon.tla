------------------------------- MODULE Daemon -------------------------------
(***************************************************************************)
(* The OpenWrt daemon (openwrt/tuya_daemon): one thread that runs main,    *)
(* calls the SDK, and is called back from inside tuya_mqtt_loop and        *)
(* tuya_mqtt_disconnect; a signal handler that may run between any two of  *)
(* its steps; ubusd, which may go away; a broker that may refuse, accept,  *)
(* send messages and drop the session.                                     *)
(*                                                                         *)
(* pc names the call the thread is in:                                     *)
(*   uci_alloc, config, tuya_init, ubus_connect      main, init_connections*)
(*   connect, retry_check, retry_sleep, wait_check   connect_to_tuya       *)
(*   loop, yield, on_connected, on_messages          tuya_mqtt_loop        *)
(*   main_check, main_sleep, main_send               main_loop             *)
(*   disconnect, deinit, cleanup_end                 the labels of main    *)
(***************************************************************************)
EXTENDS TuyaSdk, SendInfo, UciOptions, Actions

CONSTANTS
  ConnectRetries,   \* 10 in the code: repeated attempts after the first one
  SendFailLimit,    \* 10 in the code: failed reports in a row that end it
  MaxMessages,      \* bound: messages the broker delivers in one yield
  SessionDrops,     \* TRUE: an open session may be lost
  OptionEntries     \* the UCI option sets it may be started with

\* sleep_seconds is an unsigned int: 2 * 2^29 still fits.
ASSUME RetriesAssumption == ConnectRetries \in 0 .. 29
ASSUME FailLimitAssumption == SendFailLimit \in Nat \ {0}
ASSUME MessagesAssumption == MaxMessages \in Nat
ASSUME DropsAssumption == SessionDrops \in BOOLEAN

VARIABLES
  pc,
  keepRunning,    \* keep_running, cleared by the signal handler
  caller,         \* who called tuya_mqtt_loop
  handled,        \* messages handled in this yield
  tries,          \* i of connect_to_tuya
  sleepSeconds,   \* sleep_seconds of connect_to_tuya
  failCount,      \* send_fail_count of main_loop
  retVal,         \* ret_val of main
  uci,            \* the UCI context
  frees,          \* history: times the ubus context was freed, up to 2
  late            \* history: blocking calls that returned after the signal

vars == <<pc, keepRunning, caller, handled, tries, sleepSeconds, failCount,
          retVal, uci, frees, late, mqtt, ubus, req, process>>

Calls == {"sleep", "connect", "loop", "send"}

Locations ==
  {"uci_alloc", "config", "tuya_init", "ubus_connect",
   "connect", "retry_check", "retry_sleep", "wait_check",
   "loop", "yield", "on_connected", "on_messages",
   "main_check", "main_sleep", "main_send",
   "disconnect", "deinit", "cleanup_end", "exited"}

Init ==
  /\ pc = "uci_alloc" /\ keepRunning = 1
  /\ caller = "wait" /\ handled = 0
  /\ tries = 0 /\ sleepSeconds = 2 /\ failCount = 0 /\ retVal = 0
  /\ uci = "null" /\ frees = 0
  /\ late = [c \in Calls |-> 0]
  /\ mqtt = RawContext /\ ubus = "unset" /\ req = NoRequest
  /\ process = "running"

\* The thread is at l and moves on to m.
At(l) == Running /\ pc = l
Goto(m) == pc' = m

\* A blocking call returns: count it when the signal came before (up to 2).
Returned(call) ==
  late' = IF keepRunning = 0 /\ late[call] < 2
          THEN [late EXCEPT ![call] = @ + 1] ELSE late

\* Mutant: a failure skips the clean-up of the SDK.
GiveUpToEnd(status) == Goto("cleanup_end") /\ retVal' = status

\* Mutant: a failure releases the client without disconnecting it.
GiveUpToDeinit(status) == Goto("deinit") /\ retVal' = status

\* goto cleanup_mqtt, with the status of the stage that failed.
GiveUp(status) == Goto("disconnect") /\ retVal' = status

\* Groups of variables that most actions leave alone.
connectVars == <<tries, sleepSeconds>>
loopVars == <<caller, handled>>
ubusVars == <<ubus, req, process, frees>>

(***************************************************************************)
(* main: set-up.                                                           *)
(***************************************************************************)
UciAlloc ==
  /\ At("uci_alloc")
  /\ \/ uci' = "live" /\ Goto("config") /\ UNCHANGED retVal
     \/ UNCHANGED uci /\ Goto("cleanup_end") /\ retVal' = 1
  /\ UNCHANGED <<keepRunning, loopVars, connectVars, failCount, late, mqtt,
                 ubusVars>>

ReadConfig ==
  /\ At("config")
  /\ \E entries \in OptionEntries :
       IF OptionsAccepted(entries)
       THEN Goto("tuya_init") /\ UNCHANGED retVal
       ELSE Goto("cleanup_end") /\ retVal' = 1
  /\ UNCHANGED <<keepRunning, loopVars, connectVars, failCount, uci, late,
                 mqtt, ubusVars>>

\* init_connections, first half.
TuyaInit ==
  /\ At("tuya_init")
  /\ \/ TuyaMqttInitOk /\ Goto("ubus_connect") /\ UNCHANGED retVal
     \/ UNCHANGED mqtt /\ GiveUp(-1)
  /\ UNCHANGED <<keepRunning, loopVars, connectVars, failCount, uci, late,
                 ubusVars>>

\* Mutant: the result of ubus_connect is not checked.
UbusUnchecked == Goto("connect") /\ UNCHANGED retVal

\* ubus_connect returned NULL.
UbusRefused == GiveUp(-2)

\* init_connections, second half: the ubus context becomes the user data of
\* the SDK's callbacks.
UbusConnect ==
  /\ At("ubus_connect")
  /\ \/ /\ ubus' = "live" /\ mqtt' = [mqtt EXCEPT !.user_data = "ubus"]
        /\ Goto("connect") /\ UNCHANGED retVal
     \/ ubus' = "null" /\ UNCHANGED mqtt /\ UbusRefused
  /\ UNCHANGED <<keepRunning, loopVars, connectVars, failCount, uci, late,
                 req, process, frees>>

(***************************************************************************)
(* connect_to_tuya.                                                        *)
(***************************************************************************)
Connect ==
  /\ At("connect")
  /\ \/ TuyaMqttConnectOk /\ Goto("wait_check")
     \/ TuyaMqttConnectFails /\ Goto("retry_check")
  /\ Returned("connect")
  /\ UNCHANGED <<keepRunning, loopVars, connectVars, failCount, retVal, uci,
                 ubusVars>>

\* Mutants: a signal does not end the attempts; one attempt too many.
RetryDespiteSignal == tries < ConnectRetries
RetryOnceMore == keepRunning = 1 /\ tries <= ConnectRetries

RetryAgain == keepRunning = 1 /\ tries < ConnectRetries

\* Mutant: the result of the last attempt is not checked.
ConnectUnchecked == Goto("wait_check") /\ UNCHANGED retVal

ConnectFailed == GiveUp(-1)

RetryCheck ==
  /\ At("retry_check")
  /\ IF RetryAgain THEN Goto("retry_sleep") /\ UNCHANGED retVal
     ELSE ConnectFailed
  /\ UNCHANGED <<keepRunning, loopVars, connectVars, failCount, uci, late,
                 mqtt, ubusVars>>

\* The sleep, the doubling, and the ++i that the next check sees.
RetrySleep ==
  /\ At("retry_sleep")
  /\ sleepSeconds' = 2 * sleepSeconds
  /\ tries' = tries + 1
  /\ Returned("sleep")
  /\ Goto("connect")
  /\ UNCHANGED <<keepRunning, loopVars, failCount, retVal, uci, mqtt,
                 ubusVars>>

\* Mutant: a session that tuya_mqtt_connect opened counts as connected.
WaitForSession == ~SessionOpen /\ keepRunning = 1

StillWaiting == ~mqtt.is_connected /\ keepRunning = 1

\* The while loop that finishes the connection.  It has no bound of its own.
WaitCheck ==
  /\ At("wait_check")
  /\ IF StillWaiting
     THEN /\ Goto("loop") /\ UNCHANGED <<caller, failCount>>
     ELSE /\ Goto("main_check") /\ caller' = "main" /\ failCount' = 0
  /\ UNCHANGED <<keepRunning, handled, connectVars, retVal, uci, late, mqtt,
                 ubusVars>>

(***************************************************************************)
(* main_loop.                                                              *)
(***************************************************************************)
\* Mutant: the loop does not look at keep_running.
ServeForever == TRUE

StillServing == keepRunning = 1

\* Mutant: main_loop frees the ubus context when it is done with it.
MainCheckFrees ==
  /\ At("main_check")
  /\ Goto(IF StillServing THEN "loop" ELSE "disconnect")
  /\ ubus' = IF StillServing THEN ubus ELSE "freed"
  /\ UNCHANGED <<keepRunning, loopVars, connectVars, failCount, retVal, uci,
                 late, mqtt, req, process, frees>>

MainCheck ==
  /\ At("main_check")
  /\ Goto(IF StillServing THEN "loop" ELSE "disconnect")
  /\ UNCHANGED <<keepRunning, loopVars, connectVars, failCount, retVal, uci,
                 late, mqtt, ubusVars>>

MainSleep ==
  /\ At("main_sleep")
  /\ req' = Begin("memory")
  /\ Returned("sleep")
  /\ Goto("main_send")
  /\ UNCHANGED <<keepRunning, loopVars, connectVars, failCount, retVal, uci,
                 mqtt, ubus, process, frees>>

\* Mutant: only a failed invocation counts as a failed report.
SentUnlessRefused == req.status # "failed"

Sent == req.result

\* Mutant: the count does not advance.
CountNothing(n) == n

CountFailure(n) == n + 1

\* Mutant: one failure more than the limit.
TooManyBut(n) == n > SendFailLimit

TooMany(n) == n = SendFailLimit

\* Mutant: main does not look at what main_loop returned.
MainLoopUnchecked == Goto("disconnect") /\ UNCHANGED retVal

\* main_loop returned false.
MainLoopFailed == GiveUp(1)

\* send_memory_info returned: count failures in a row.
MainCount ==
  /\ At("main_send") /\ req.step = "done"
  /\ failCount' = IF Sent THEN 0 ELSE CountFailure(failCount)
  /\ IF TooMany(failCount') THEN MainLoopFailed
     ELSE Goto("main_check") /\ UNCHANGED retVal
  /\ req' = NoRequest
  /\ Returned("send")
  /\ UNCHANGED <<keepRunning, loopVars, connectVars, uci, mqtt, ubus,
                 process, frees>>

(***************************************************************************)
(* tuya_mqtt_loop, with the callbacks it makes.                            *)
(***************************************************************************)
\* The loop returned OPRT_OK to its caller.
LoopReturned ==
  /\ Goto(IF caller = "wait" THEN "wait_check" ELSE "main_sleep")
  /\ Returned("loop")
  /\ handled' = 0
  /\ UNCHANGED retVal

\* The loop returned an error, which both callers answer by giving up.
LoopError ==
  /\ At("loop")
  /\ Returned("loop")
  /\ IF caller = "wait" THEN ConnectFailed ELSE MainLoopFailed
  /\ UNCHANGED <<keepRunning, loopVars, connectVars, failCount, uci, mqtt,
                 ubusVars>>

LoopReconnect ==
  /\ At("loop")
  /\ LoopReconnects /\ LoopReturned
  /\ UNCHANGED <<keepRunning, caller, connectVars, failCount, uci, ubusVars>>

\* The loop calls on_connected, which sends the memory information.
OnConnected ==
  /\ At("loop")
  /\ LoopReportsConnected
  /\ req' = Begin("memory")
  /\ Goto("on_connected")
  /\ UNCHANGED <<keepRunning, loopVars, connectVars, failCount, retVal, uci,
                 late, ubus, process, frees>>

\* on_connected ignores whether it was sent.
OnConnectedReturns ==
  /\ At("on_connected") /\ req.step = "done"
  /\ req' = NoRequest
  /\ LoopReturned
  /\ UNCHANGED <<keepRunning, caller, connectVars, failCount, uci, mqtt,
                 ubus, process, frees>>

LoopYield ==
  /\ At("loop")
  /\ LoopYields
  /\ Goto("yield")
  /\ UNCHANGED <<keepRunning, loopVars, connectVars, failCount, retVal, uci,
                 late, mqtt, ubusVars>>

YieldAcknowledged ==
  /\ At("yield")
  /\ SubscriptionAcknowledged
  /\ UNCHANGED <<pc, keepRunning, loopVars, connectVars, failCount, retVal,
                 uci, late, ubusVars>>

YieldReturns ==
  /\ At("yield")
  /\ LoopReturned
  /\ UNCHANGED <<keepRunning, caller, connectVars, failCount, uci, mqtt,
                 ubusVars>>

OnMessages ==
  /\ At("yield") /\ handled < MaxMessages
  /\ handled' = handled + 1
  /\ \E msg \in Messages :
       IF ActionOf(msg) = "none"
       THEN UNCHANGED <<pc, req>>
       ELSE req' = Begin(ActionOf(msg)) /\ Goto("on_messages")
  /\ UNCHANGED <<keepRunning, caller, connectVars, failCount, retVal, uci,
                 late, mqtt, ubus, process, frees>>

OnMessagesReturns ==
  /\ At("on_messages") /\ req.step = "done"
  /\ req' = NoRequest
  /\ Goto("yield")
  /\ UNCHANGED <<keepRunning, loopVars, connectVars, failCount, retVal, uci,
                 late, mqtt, ubus, process, frees>>

\* Mutant: on_disconnect leaves the context alone.
OnDisconnectKeeps == UNCHANGED <<ubus, frees>>

\* on_disconnect frees the context it is given.  There may be none: freeing
\* NULL is allowed.
OnDisconnect ==
  IF mqtt.user_data = "ubus"
  THEN /\ ubus' = "freed"
       /\ frees' = IF frees < 2 THEN frees + 1 ELSE frees
  ELSE UNCHANGED <<ubus, frees>>

\* The session is lost while yielding: on_disconnect, then the loop returns.
YieldLost ==
  /\ SessionDrops
  /\ At("yield")
  /\ SessionLost /\ OnDisconnect /\ LoopReturned
  /\ UNCHANGED <<keepRunning, caller, connectVars, failCount, uci, req,
                 process>>

(***************************************************************************)
(* main: clean-up.                                                         *)
(***************************************************************************)
Disconnect ==
  /\ At("disconnect")
  /\ TuyaMqttDisconnect
  /\ IF mqtt.state = "raw" THEN UNCHANGED <<ubus, frees>> ELSE OnDisconnect
  /\ Goto("deinit")
  /\ UNCHANGED <<keepRunning, loopVars, connectVars, failCount, retVal, uci,
                 late, req, process>>

Deinit ==
  /\ At("deinit")
  /\ TuyaMqttDeinit
  /\ Goto("cleanup_end")
  /\ UNCHANGED <<keepRunning, loopVars, connectVars, failCount, retVal, uci,
                 late, ubusVars>>

CleanupEnd ==
  /\ At("cleanup_end")
  /\ uci' = IF uci = "null" THEN "null" ELSE "freed"
  /\ process' = "exited"
  /\ Goto("exited")
  /\ UNCHANGED <<keepRunning, loopVars, connectVars, failCount, retVal, late,
                 mqtt, ubus, req, frees>>

\* The undefined outcomes that stop the process outside a request: the ubus
\* context freed once more, uci_free_context given NULL.
CleanupCrashes ==
  /\ Running
  /\ \/ pc = "yield" /\ ubus = "freed" /\ SessionDrops
     \/ pc = "disconnect" /\ ubus = "freed"
     \/ pc = "cleanup_end" /\ uci = "null"
  /\ process' = "crashed"
  /\ UNCHANGED <<pc, keepRunning, loopVars, connectVars, failCount, retVal,
                 uci, late, mqtt, ubus, req, frees>>

-----------------------------------------------------------------------------
\* A step of the request in progress.
DoRequest ==
  /\ pc \in {"main_send", "on_connected", "on_messages"}
  /\ RequestStep(SessionOpen)
  /\ UNCHANGED <<pc, keepRunning, loopVars, connectVars, failCount, retVal,
                 uci, late, mqtt, frees>>

SetUpStep == UciAlloc \/ ReadConfig \/ TuyaInit \/ UbusConnect
ConnectStep == Connect \/ RetryCheck \/ RetrySleep \/ WaitCheck
MainLoopStep == MainCheck \/ MainSleep \/ MainCount
LoopStep ==
  \/ LoopError \/ LoopReconnect \/ OnConnected \/ OnConnectedReturns
  \/ LoopYield \/ YieldAcknowledged \/ YieldReturns
  \/ OnMessages \/ OnMessagesReturns \/ YieldLost
CleanupStep == Disconnect \/ Deinit \/ CleanupEnd \/ CleanupCrashes

ThreadStep ==
  \/ SetUpStep \/ ConnectStep \/ MainLoopStep \/ LoopStep \/ CleanupStep
  \/ DoRequest

\* SIGINT or SIGTERM, between any two steps of the thread.
Signal ==
  /\ Running
  /\ keepRunning' = 0
  /\ UNCHANGED <<pc, loopVars, connectVars, failCount, retVal, uci, late,
                 mqtt, ubusVars>>

UbusGoes ==
  /\ UbusLost
  /\ UNCHANGED <<pc, keepRunning, loopVars, connectVars, failCount, retVal,
                 uci, late, mqtt, frees>>

Over == ~Running /\ UNCHANGED vars

Next == ThreadStep \/ Signal \/ UbusGoes \/ Over

\* The thread is always scheduled, and every call it blocks in has a timeout;
\* the signal, ubusd and the broker owe nothing.
Spec == Init /\ [][Next]_vars /\ WF_vars(ThreadStep)

-----------------------------------------------------------------------------
InRequest == pc \in {"main_send", "on_connected", "on_messages"}
InLoop == pc \in {"loop", "yield", "on_connected", "on_messages"}
InMainLoop ==
  \/ pc \in {"main_check", "main_sleep", "main_send"}
  \/ InLoop /\ caller = "main"
InConnect ==
  \/ pc \in {"connect", "retry_check", "retry_sleep", "wait_check"}
  \/ InLoop /\ caller = "wait"

\* Every variable stays in its type, and the counters within their bounds.
TypeOK ==
  /\ ReqTypeOK
  /\ mqtt \in Contexts
  /\ pc \in Locations
  /\ keepRunning \in {0, 1}
  /\ caller \in {"wait", "main"}
  /\ handled \in 0 .. MaxMessages
  /\ tries \in 0 .. ConnectRetries
  /\ sleepSeconds \in Nat
  /\ failCount \in 0 .. SendFailLimit
  /\ retVal \in {0, 1, -1, -2}
  /\ uci \in {"null", "live", "freed"}
  /\ frees \in 0 .. 2
  /\ late \in [Calls -> 0 .. 2]

\* connection.c:134 says that the callbacks get the ubus context.  Whenever a
\* request works with ubus, and whenever a callback may be handed the context,
\* it has not been freed.
UbusLiveWhenUsed ==
  InRequest \/ InLoop => ubus \in {"live", "lost"}

\* Without session drops and silent services the only death is the one for
\* want of memory: no request uses a freed context or an unassigned pointer,
\* nothing is freed twice.
CrashOnlyOutOfMemory == process = "crashed" => uci = "null"

\* A daemon that ended on its own has freed the ubus context once, if it ever
\* had one, and has released the SDK client and the UCI context.
EndsClean ==
  process = "exited" =>
    /\ ubus \in {"unset", "null", "freed"}
    /\ frees = IF ubus = "freed" THEN 1 ELSE 0
    /\ ~mqtt.client /\ ~mqtt.is_connected
    /\ uci \in {"null", "freed"}

\* The SDK keeps the device id and secret as pointers into the UCI context:
\* as long as its client lives, that context does.
UciOutlivesClient == mqtt.client => uci = "live"

\* Everything but the clean-up works on an initialised client, and loops it
\* only after it was connected once.  The clean-up (main.c:97, :98) also gets
\* a context without one, but only the zeroed one of a tuya_mqtt_init that
\* failed: before ubus was tried, and with the status of that failure.  No
\* later failure reaches it that way.
CleanupContext ==
  \/ mqtt.client /\ mqtt.state # "raw"
  \/ mqtt = RawContext /\ ubus = "unset" /\ retVal = -1

ClientUnlessInitFailed ==
  /\ InConnect \/ InMainLoop => mqtt.client /\ mqtt.state # "raw"
  /\ pc = "wait_check" \/ InLoop \/ InMainLoop => mqtt.state # "idle"
  /\ pc \in {"disconnect", "deinit"} => CleanupContext

\* After a signal at most one call of each blocking kind still returns, and
\* never both a connection attempt and a loop: the thread is on its way out.
\* A report is main's own here; those of the callbacks are part of their loop.
StopBound ==
  /\ \A c \in Calls : late[c] <= 1
  /\ late["connect"] + late["loop"] <= 1

\* The waits double from two seconds, and there are never more than
\* ConnectRetries of them.
RetryBackoff ==
  /\ tries <= ConnectRetries
  /\ sleepSeconds = 2 * 2 ^ tries

\* Without session drops, the main loop runs only on a connected client or on
\* the way out after a signal.
ServesConnected == InMainLoop => mqtt.is_connected \/ keepRunning = 0

\* The status tells why it ends: 0 only after a signal; -2 only when ubus was
\* never reached; 1 and -1 come from different stages.
StatusTellsWhy ==
  pc \in {"disconnect", "deinit", "cleanup_end", "exited"} =>
    /\ retVal = 0 => keepRunning = 0 /\ ubus # "unset"
    /\ retVal = -2 <=> ubus = "null"
    /\ retVal = 1 /\ ubus # "unset" => caller = "main"
    /\ retVal = -1 => caller = "wait"

\* A signal ends the daemon, wherever it finds the thread.
SignalStops == (keepRunning = 0) ~> ~Running

\* A daemon that stays in its main loop for ever gets reports through for
\* ever: ten failures in a row end it.
KeepsReporting ==
  <>[]InMainLoop => []<>(pc = "main_send" /\ req.step = "done" /\ req.result)

\* The daemon never reconnects to ubus: when ubusd goes, the failing reports
\* end the main loop.
LostUbusStops == (ubus = "lost" /\ InMainLoop) ~> ~Running

\* connection.c:161 says that a few iterations finish the connection, and
\* :142 that -1 tells that connecting failed: the function returns.
ConnectPhaseEnds == (pc = "wait_check") ~> ~InConnect

(***************************************************************************)
(* The daemon keeps the promises of Lifecycle.                             *)
(***************************************************************************)
Phase ==
  CASE process = "crashed" -> "killed"
    [] process = "exited" -> "ended"
    [] Running /\ InConnect -> "connecting"
    [] Running /\ InMainLoop -> "serving"
    [] Running /\ pc \in {"disconnect", "deinit", "cleanup_end"} -> "closing"
    [] OTHER -> "setup"

Promise == INSTANCE Lifecycle
  WITH Failures <- {1, -1, -2}, ServesOffline <- FALSE, phase <- Phase,
       asked <- keepRunning = 0, client <- mqtt.client,
       online <- mqtt.is_connected, status <- retVal, informs <- FALSE

\* Every behaviour of the daemon is one of Lifecycle: connected before it
\* serves, offline and released before it ends, status 0 only when asked.
KeepsPromise == Promise!Spec
=============================================================================
