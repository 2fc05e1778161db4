---------------------------- MODULE DesktopDaemon ----------------------------
(***************************************************************************)
(* The desktop daemon (src/tuya_daemon): main.c and the callbacks of       *)
(* connection.c, with the SDK's client and the date format.  Like the      *)
(* OpenWrt daemon it is one thread with a signal handler; unlike it, it    *)
(* has arguments and may fork first, stops waiting for the connection      *)
(* after five loops, and has early returns that skip the clean-up.         *)
(*                                                                         *)
(* pc names the call the thread is in:                                     *)
(*   args, become_daemon, tuya_init                   main, init_tuya      *)
(*   connect, retry_check, retry_sleep, setup_check   connect_to_tuya      *)
(*   loop, yield                                      tuya_mqtt_loop       *)
(*   main_check, main_sleep, main_send                the main loop        *)
(*   disconnect, deinit, free_format                  the label cleanup    *)
(*   return                              an early return, or argp's exit   *)
(***************************************************************************)
EXTENDS TuyaSdk, DateFormat

CONSTANTS
  ConnectRetries,   \* 10 in the code: repeated attempts after the first one
  SetupLoops,       \* 5 in the code
  SendFailLimit,    \* 10 in the code: failed reports in a row that end it
  MaxMessages,      \* bound: messages the broker delivers in one yield
  SessionDrops      \* TRUE: an open session may be lost

ASSUME RetriesAssumption == ConnectRetries \in Nat
ASSUME LoopsAssumption == SetupLoops \in Nat
ASSUME FailLimitAssumption == SendFailLimit \in Nat \ {0}
ASSUME MessagesAssumption == MaxMessages \in Nat
ASSUME DropsAssumption == SessionDrops \in BOOLEAN

VARIABLES
  pc,
  keepRunning,    \* keep_running, cleared by the signal handler
  help,           \* argv asks argp for its help, usage or version
  credentials,    \* argv holds a device id and a device secret
  caller,         \* who called tuya_mqtt_loop
  handled,        \* messages handled in this yield
  i,              \* i of the two loops of connect_to_tuya
  failCount,      \* send_fail_count
  retVal,         \* the exit status: ret_val, or that of an early return
  late            \* history: blocking calls that returned after the signal

commandLine == <<help, credentials>>
threadVars == <<pc, keepRunning, commandLine, caller, handled, i, failCount,
                retVal, late>>
vars == <<threadVars, mqtt, fmtVars>>

Calls == {"sleep", "connect", "loop", "send"}

Locations ==
  {"args", "become_daemon", "tuya_init",
   "connect", "retry_check", "retry_sleep", "setup_check", "loop", "yield",
   "main_check", "main_sleep", "main_send",
   "disconnect", "deinit", "free_format", "return", "exited"}

Init ==
  /\ pc = "args" /\ keepRunning = 1
  /\ help \in BOOLEAN /\ credentials \in BOOLEAN
  /\ caller = "setup" /\ handled = 0
  /\ i = 0 /\ failCount = 0 /\ retVal = 0
  /\ late = [c \in Calls |-> 0]
  /\ mqtt = RawContext /\ FmtInit

At(l) == FmtRunning /\ pc = l
Goto(m) == pc' = m

\* A blocking call returns: count it when the signal came before (up to 2).
Returned(call) ==
  late' = IF keepRunning = 0 /\ late[call] < 2
          THEN [late EXCEPT ![call] = @ + 1] ELSE late

\* The end before there is anything to clean up: return EXIT_FAILURE in main,
\* or argp's own exit.
EarlyReturn(status) == Goto("return") /\ retVal' = status

\* Mutants: a later failure returns as the earlier ones do; ret_val is left at
\* the success of the call before.
GiveUpReturns == EarlyReturn(1)
GiveUpUntold == Goto("disconnect") /\ UNCHANGED retVal

\* goto cleanup with ret_val EXIT_FAILURE.
GiveUp == Goto("disconnect") /\ retVal' = 1

(***************************************************************************)
(* main: set-up.                                                           *)
(***************************************************************************)
\* argp_parse as DesktopArgs has it: it accepts what asks for no help, fails,
\* which main answers with EXIT_FAILURE, or ends the program itself, after the
\* help with 0, for a wrong usage with 64.
ParseArgs ==
  /\ At("args")
  /\ \/ /\ ~help
        /\ \E daemon \in BOOLEAN :
             Goto(IF daemon THEN "become_daemon" ELSE "tuya_init")
        /\ UNCHANGED retVal
     \/ EarlyReturn(1)
     \/ help /\ EarlyReturn(0)
     \/ EarlyReturn(64)
  /\ UNCHANGED <<keepRunning, commandLine, caller, handled, i, failCount,
                 late, mqtt, fmtVars>>

\* In the process that returns from become_daemon: 0, or one of the codes
\* that BecomeDaemon shows to be possible.
BecomeDaemon ==
  /\ At("become_daemon")
  /\ \E daemon \in {0, -1, -3, -4, -5, -6} :
       IF daemon = 0 THEN Goto("tuya_init") /\ UNCHANGED retVal
       ELSE EarlyReturn(1)
  /\ UNCHANGED <<keepRunning, commandLine, caller, handled, i, failCount,
                 late, mqtt, fmtVars>>

\* Mutant: the result of init_tuya is not checked.
InitUnchecked == Goto("connect") /\ UNCHANGED retVal

InitFailed == EarlyReturn(1)

\* The SDK refuses a configuration without device id or secret.
TuyaInit ==
  /\ At("tuya_init")
  /\ \/ credentials /\ TuyaMqttInitOk /\ Goto("connect") /\ UNCHANGED retVal
     \/ InitFailed /\ UNCHANGED mqtt
  /\ UNCHANGED <<keepRunning, commandLine, caller, handled, i, failCount,
                 late, fmtVars>>

(***************************************************************************)
(* connect_to_tuya.                                                        *)
(***************************************************************************)
Connect ==
  /\ At("connect")
  /\ \/ TuyaMqttConnectOk /\ Goto("setup_check") /\ i' = 0
     \/ TuyaMqttConnectFails /\ Goto("retry_check") /\ UNCHANGED i
  /\ Returned("connect")
  /\ UNCHANGED <<keepRunning, commandLine, caller, handled, failCount, retVal,
                 fmtVars>>

\* Mutant: a signal does not end the attempts.
RetryDespiteSignal == i < ConnectRetries

RetryAgain == i < ConnectRetries /\ keepRunning = 1

RetryCheck ==
  /\ At("retry_check")
  /\ IF RetryAgain THEN Goto("retry_sleep") /\ UNCHANGED retVal ELSE GiveUp
  /\ UNCHANGED <<keepRunning, commandLine, caller, handled, i, failCount,
                 late, mqtt, fmtVars>>

\* The sleep, and the ++i that the next check sees.  The waits double.
RetrySleep ==
  /\ At("retry_sleep")
  /\ i' = i + 1
  /\ Returned("sleep")
  /\ Goto("connect")
  /\ UNCHANGED <<keepRunning, commandLine, caller, handled, failCount, retVal,
                 mqtt, fmtVars>>

\* Five loops, unless a signal comes; nobody looks whether they connected.
SetupAgain == i < SetupLoops /\ keepRunning = 1

SetupCheck ==
  /\ At("setup_check")
  /\ IF SetupAgain
     THEN Goto("loop") /\ UNCHANGED caller
     ELSE Goto("main_check") /\ caller' = "main"
  /\ UNCHANGED <<keepRunning, commandLine, handled, i, failCount, retVal,
                 late, mqtt, fmtVars>>

(***************************************************************************)
(* The main loop.                                                          *)
(***************************************************************************)
\* Mutant: the loop does not look at keep_running.
ServeForever == TRUE

StillServing == keepRunning = 1

MainCheck ==
  /\ At("main_check")
  /\ Goto(IF StillServing THEN "loop" ELSE "disconnect")
  /\ UNCHANGED <<keepRunning, commandLine, caller, handled, i, failCount,
                 retVal, late, mqtt, fmtVars>>

MainSleep ==
  /\ At("main_sleep")
  /\ Returned("sleep")
  /\ Goto("main_send")
  /\ UNCHANGED <<keepRunning, commandLine, caller, handled, i, failCount,
                 retVal, mqtt, fmtVars>>

\* Mutant: the count does not advance.
CountNothing(ret) == 0

CountFailure(ret) == IF ret = 0 THEN 0 ELSE failCount + 1

\* Mutant: one failure more than the limit.
TooManyBut(n) == n > SendFailLimit

TooMany(n) == n = SendFailLimit

MainSend ==
  /\ At("main_send")
  /\ SendCurrentTime(SessionOpen)
  /\ failCount' = CountFailure(report'.ret)
  /\ IF TooMany(failCount') THEN GiveUp
     ELSE Goto("main_check") /\ UNCHANGED retVal
  /\ Returned("send")
  /\ UNCHANGED <<keepRunning, commandLine, caller, handled, i, mqtt>>

(***************************************************************************)
(* tuya_mqtt_loop, with the callbacks it makes.                            *)
(***************************************************************************)
\* The loop returned OPRT_OK; the setup loop increments i.
LoopReturned ==
  /\ IF caller = "setup" THEN Goto("setup_check") /\ i' = i + 1
     ELSE Goto("main_sleep") /\ UNCHANGED i
  /\ Returned("loop")
  /\ handled' = 0
  /\ UNCHANGED <<keepRunning, commandLine, caller, failCount, retVal>>

\* Both callers give up.
LoopError ==
  /\ At("loop")
  /\ Returned("loop")
  /\ GiveUp
  /\ UNCHANGED <<keepRunning, commandLine, caller, handled, i, failCount,
                 mqtt, fmtVars>>

LoopReconnect ==
  /\ At("loop")
  /\ LoopReconnects /\ LoopReturned
  /\ UNCHANGED fmtVars

\* on_connected sends the time and ignores whether that worked.
OnConnected ==
  /\ At("loop")
  /\ LoopReportsConnected
  /\ SendCurrentTime(SessionOpen)
  /\ LoopReturned

LoopYield ==
  /\ At("loop")
  /\ LoopYields
  /\ Goto("yield")
  /\ UNCHANGED <<keepRunning, commandLine, caller, handled, i, failCount,
                 retVal, late, mqtt, fmtVars>>

YieldAcknowledged ==
  /\ At("yield")
  /\ SubscriptionAcknowledged
  /\ UNCHANGED <<threadVars, fmtVars>>

YieldReturns ==
  /\ At("yield")
  /\ LoopReturned
  /\ UNCHANGED <<mqtt, fmtVars>>

\* on_messages: a PROPERTY_SET; messages of the other types are only logged.
OnMessages ==
  /\ At("yield") /\ handled < MaxMessages
  /\ handled' = handled + 1
  /\ \/ PropertySetCrashes \/ PropertySetRefused \/ SetDateTimeFormat
     \/ UNCHANGED fmtVars
  /\ UNCHANGED <<pc, keepRunning, commandLine, caller, i, failCount, retVal,
                 late, mqtt>>

\* The session is lost while yielding; on_disconnect only logs.
YieldLost ==
  /\ SessionDrops
  /\ At("yield")
  /\ SessionLost /\ LoopReturned
  /\ UNCHANGED fmtVars

(***************************************************************************)
(* main: clean-up, and the early returns.                                  *)
(***************************************************************************)
Disconnect ==
  /\ At("disconnect")
  /\ TuyaMqttDisconnect
  /\ Goto("deinit")
  /\ UNCHANGED <<keepRunning, commandLine, caller, handled, i, failCount,
                 retVal, late, fmtVars>>

Deinit ==
  /\ At("deinit")
  /\ TuyaMqttDeinit
  /\ Goto("free_format")
  /\ UNCHANGED <<keepRunning, commandLine, caller, handled, i, failCount,
                 retVal, late, fmtVars>>

FreeFormat == FreeDateTimeFormat

CleanupEnd ==
  /\ At("free_format")
  /\ FreeFormat
  /\ Goto("exited")
  /\ UNCHANGED <<keepRunning, commandLine, caller, handled, i, failCount,
                 retVal, late, mqtt>>

ReturnEarly ==
  /\ At("return")
  /\ process' = "exited"
  /\ Goto("exited")
  /\ UNCHANGED <<keepRunning, commandLine, caller, handled, i, failCount,
                 retVal, late, mqtt, format, live, report, data>>

-----------------------------------------------------------------------------
SetUpStep == ParseArgs \/ BecomeDaemon \/ TuyaInit
ConnectStep == Connect \/ RetryCheck \/ RetrySleep \/ SetupCheck
MainLoopStep == MainCheck \/ MainSleep \/ MainSend
LoopStep ==
  \/ LoopError \/ LoopReconnect \/ OnConnected \/ LoopYield
  \/ YieldAcknowledged \/ YieldReturns \/ OnMessages \/ YieldLost
CleanupStep == Disconnect \/ Deinit \/ CleanupEnd \/ ReturnEarly

ThreadStep ==
  SetUpStep \/ ConnectStep \/ MainLoopStep \/ LoopStep \/ CleanupStep

\* SIGINT or SIGTERM, between any two steps of the thread.
Signal ==
  /\ FmtRunning
  /\ keepRunning' = 0
  /\ UNCHANGED <<pc, commandLine, caller, handled, i, failCount, retVal, late,
                 mqtt, fmtVars>>

Over == ~FmtRunning /\ UNCHANGED vars

Next == ThreadStep \/ Signal \/ Over

\* The thread is always scheduled, and every call it blocks in has a timeout;
\* the signal and the broker owe nothing.
Spec == Init /\ [][Next]_vars /\ WF_vars(ThreadStep)

-----------------------------------------------------------------------------
InLoop == pc \in {"loop", "yield"}
InMainLoop ==
  \/ pc \in {"main_check", "main_sleep", "main_send"}
  \/ InLoop /\ caller = "main"
InConnect ==
  \/ pc \in {"connect", "retry_check", "retry_sleep", "setup_check"}
  \/ InLoop /\ caller = "setup"

\* Every variable stays in its type, and the counters within their bounds.
TypeOK ==
  /\ FmtTypeOK
  /\ mqtt \in Contexts
  /\ pc \in Locations
  /\ keepRunning \in {0, 1}
  /\ help \in BOOLEAN /\ credentials \in BOOLEAN
  /\ caller \in {"setup", "main"}
  /\ handled \in 0 .. MaxMessages
  /\ i \in 0 .. IF ConnectRetries < SetupLoops THEN SetupLoops
                ELSE ConnectRetries
  /\ failCount \in 0 .. SendFailLimit
  /\ retVal \in {0, 1, 64}
  /\ late \in [Calls -> 0 .. 2]

\* On every way out of main, the early returns included, the SDK's client is
\* offline and released, and no format string is left.
EndsClean ==
  process = "exited" =>
    live = {} /\ ~mqtt.client /\ ~mqtt.is_connected

\* argp lets a command line through that lacks the credentials (see
\* DesktopArgs); no such daemon gets as far as to use the SDK's client.
NeverWithoutCredentials ==
  InConnect \/ InMainLoop => credentials /\ mqtt.client

\* After a signal at most one call of each blocking kind still returns, and
\* never both a connection attempt and a loop.
\* A report is main's own here; those of the callbacks are part of their loop.
StopBound ==
  /\ \A c \in Calls : late[c] <= 1
  /\ late["connect"] + late["loop"] <= 1

\* A signal ends the daemon, wherever it finds the thread.
SignalStops == (keepRunning = 0) ~> ~FmtRunning

\* main.c:76 says that the time is sent every ten seconds.  A daemon that
\* stays in its main loop gets reports through for ever: ten failures in a row
\* end it, whatever they come from.
KeepsReporting ==
  <>[](FmtRunning /\ InMainLoop)
    => []<>(pc = "main_check" /\ report.ret = 0)

(***************************************************************************)
(* Refinements: the date format, and the promises of Lifecycle.            *)
(***************************************************************************)
\* Whatever main and the callbacks do with the format is a step of DateFormat:
\* what is proved there holds of the whole daemon.
KeepsFormat == FmtInit /\ [][FmtNext]_fmtVars

\* It is connecting from the return of the first attempt on.
Phase ==
  CASE process = "crashed" -> "killed"
    [] process = "exited" -> "ended"
    [] FmtRunning /\ InConnect /\ ~(pc = "connect" /\ i = 0) -> "connecting"
    [] FmtRunning /\ InMainLoop -> "serving"
    [] /\ FmtRunning
       /\ pc \in {"disconnect", "deinit", "free_format", "return"} -> "closing"
    [] OTHER -> "setup"

Promise == INSTANCE Lifecycle
  WITH Failures <- {1, 64}, ServesOffline <- TRUE, phase <- Phase,
       asked <- keepRunning = 0, client <- mqtt.client,
       online <- mqtt.is_connected, status <- retVal, informs <- help

\* Every behaviour of the daemon is one of Lifecycle, but for serving before
\* it is online: status 0 only when asked to stop or for help, a failure
\* decided before it closes, no client where only help was asked for, offline
\* and released before it ends.
KeepsPromise == Promise!Spec
=============================================================================
