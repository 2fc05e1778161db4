------------------------ MODULE DesktopDaemon_proofs ------------------------
(***************************************************************************)
(* DateFormat, proved for every set of blocks and texts and every size of  *)
(* the buffer; and DesktopDaemon, proved for every number of retries,      *)
(* loops, failures and messages: that it only handles the format as        *)
(* DateFormat does, so that what is proved of the format holds of the whole *)
(* daemon; that every way out leaves nothing behind; how soon it is out    *)
(* after a signal; and that it keeps the promises of Lifecycle.            *)
(***************************************************************************)
EXTENDS DesktopDaemon, TLAPS

USE LiteralAssumption, TextsAssumption, SizesAssumption

-----------------------------------------------------------------------------
(***************************************************************************)
(* DateFormat: types, the bounds of the buffer, and the ownership of the   *)
(* format string.  The ownership is inductive together with the types: a   *)
(* string is freed exactly when should_free says so.                       *)
(***************************************************************************)

\* A message that is published or refused ends inside buf: what is checked
\* against sizeof(buf) after strftime covers the three characters that follow.
LEMMA LengthFits ==
  ASSUME NEW n \in Nat
  PROVE  /\ Strftime(n) \in 0 .. BufSize - Prefix
         /\ ~TooLong(Strftime(n)) => Prefix + Strftime(n) + 2 < BufSize
         /\ Prefix + Strftime(n) < BufSize
BY DEF Strftime, TooLong

\* What send_current_time leaves behind for a text of n characters.
LEMMA ReportFits ==
  ASSUME NEW n \in Nat, NEW sessionOpen \in BOOLEAN,
         NoTime(n) \/ Refused(n) \/ Published(n, sessionOpen)
  PROVE  /\ report' \in Reports
         /\ report'.end < BufSize
         /\ report'.ret = -2 \/ report'.length = -3 =>
              n = 0 \/ Prefix + n + 3 > BufSize
         /\ report'.rendered = n
<1>1. CASE NoTime(n)
  <2>1. PICK length \in {-1, -2} \cup (IF Strftime(n) = 0 THEN {-3} ELSE {}) :
          report' = [length |-> length, rendered |-> n, end |-> Prefix,
                     ret |-> -1]
    BY <1>1 DEF NoTime
  <2>2. length = -3 => n = 0 \/ Prefix + n + 1 > BufSize
    BY <2>1 DEF Strftime
  <2>3. length \in -3 .. BufSize - Prefix
    BY <2>1
  <2> QED BY <2>1, <2>2, <2>3 DEF Reports
<1>2. CASE Refused(n)
  <2>1. Strftime(n) = n /\ TooLong(n)
    BY <1>2 DEF Refused, Strftime
  <2> QED BY <1>2, <2>1, LengthFits DEF Refused, Reports, TooLong
<1>3. CASE Published(n, sessionOpen)
  <2>1. PICK ret \in {0, -3} :
          report' = [length |-> Strftime(n), rendered |-> n,
                     end |-> Prefix + Strftime(n) + 2, ret |-> ret]
    BY <1>3 DEF Published
  <2>2. ~TooLong(Strftime(n))
    BY <1>3 DEF Published
  <2> QED BY <2>1, <2>2, LengthFits DEF Reports
<1> QED BY <1>1, <1>2, <1>3

\* Types, the buffer, and who owns the format.
FmtInv ==
  /\ FmtTypeOK
  /\ FitsBuffer
  /\ RefusedForLength
  /\ OwnedByOneSide
  /\ DiesOfDataOnly
  /\ FreedAtEnd

LEMMA FmtInitInv == FmtInit => FmtInv
BY DEF FmtInit, FmtInv, FmtTypeOK, FitsBuffer, RefusedForLength,
       OwnedByOneSide, DiesOfDataOnly, FreedAtEnd, FmtRunning, FreedOld,
       Formats,
       LiteralText, Reports, NoReport, Shapes

LEMMA FmtStepInv == FmtInv /\ [FmtNext]_fmtVars => FmtInv'
<1> SUFFICES ASSUME FmtInv, [FmtNext]_fmtVars
             PROVE  FmtInv'
  OBVIOUS
<1> USE DEF FmtInv
<1>1. CASE PropertySetCrashes
  BY <1>1 DEF PropertySetCrashes, FmtTypeOK, FitsBuffer, RefusedForLength,
              OwnedByOneSide, DiesOfDataOnly, FreedAtEnd,
              FmtRunning, Harmful, Shapes
<1>2. CASE PropertySetRefused
  BY <1>2 DEF PropertySetRefused, FmtTypeOK, FitsBuffer, RefusedForLength,
              OwnedByOneSide, DiesOfDataOnly, FreedAtEnd,
              FmtRunning, FreedOld
<1>3. CASE SetDateTimeFormat
  <2>1. PICK s \in Strings \ live, text \in Texts :
          /\ format' = [string |-> s, text |-> text, should_free |-> TRUE]
          /\ live' = ((live \cup {s}) \ FreedOld) \ TreeFreed(s)
    BY <1>3 DEF SetDateTimeFormat
  <2>2. live = FreedOld /\ process = "running"
    BY <1>3 DEF SetDateTimeFormat, OwnedByOneSide, FmtRunning
  <2>3. process' = "running"
    BY <1>3, <2>2 DEF SetDateTimeFormat
  <2>4. live' = {s}
    BY <2>1, <2>2 DEF TreeFreed
  <2>5. FmtTypeOK'
    <3>1. format' \in Formats
      BY <2>1 DEF Formats
    <3> QED BY <1>3, <2>3, <2>4, <3>1
            DEF SetDateTimeFormat, FmtTypeOK, Shapes
  <2>6. OwnedByOneSide'
    BY <2>1, <2>4 DEF OwnedByOneSide, FreedOld
  <2>7. (FitsBuffer /\ RefusedForLength /\ DiesOfDataOnly /\ FreedAtEnd)'
    BY <1>3, <2>3
    DEF SetDateTimeFormat, FitsBuffer, RefusedForLength, DiesOfDataOnly,
        FreedAtEnd
  <2> QED BY <2>5, <2>6, <2>7
<1>4. ASSUME NEW sessionOpen \in BOOLEAN, SendCurrentTime(sessionOpen)
      PROVE  FmtInv'
  <2>1. PICK n \in format.text :
          NoTime(n) \/ Refused(n) \/ Published(n, sessionOpen)
    BY <1>4 DEF SendCurrentTime
  <2>2. n \in Nat
    BY <2>1 DEF FmtTypeOK, Formats
  <2>3. /\ report' \in Reports
        /\ report'.end < BufSize
        /\ report'.ret = -2 \/ report'.length = -3 =>
             n = 0 \/ Prefix + n + 3 > BufSize
        /\ report'.rendered = n
    BY <2>1, <2>2, ReportFits
  <2> QED BY <1>4, <2>3
          DEF SendCurrentTime, FmtTypeOK, FitsBuffer, RefusedForLength,
              OwnedByOneSide, DiesOfDataOnly, FreedAtEnd,
              FmtRunning, FreedOld
<1>5. CASE FreeDateTimeFormat
  <2>1. live = FreedOld
    BY <1>5 DEF FreeDateTimeFormat, OwnedByOneSide
  <2> QED BY <1>5, <2>1
          DEF FreeDateTimeFormat, FmtTypeOK, FitsBuffer, RefusedForLength,
              OwnedByOneSide, DiesOfDataOnly, FreedAtEnd,
              FmtRunning
<1>6. CASE UNCHANGED fmtVars
  BY <1>6 DEF fmtVars, FmtTypeOK, FitsBuffer, RefusedForLength,
              OwnedByOneSide, DiesOfDataOnly, FreedAtEnd,
              FmtRunning, FreedOld
<1> QED
  BY <1>1, <1>2, <1>3, <1>4, <1>5, <1>6 DEF FmtNext, FmtOver

\* The invariant of the format, for the theorems and for the whole daemon.
LEMMA FmtInvariant == FmtSpec => []FmtInv
BY FmtInitInv, FmtStepInv, PTL DEF FmtSpec

\* At every size of buf, for every length of the time, no byte beyond the
\* buffer is written.
THEOREM BufferSafe == FmtSpec => []FitsBuffer
<1>1. FmtInv => FitsBuffer
  BY DEF FmtInv
<1> QED BY <1>1, FmtInvariant, PTL

\* At every size of buf, a report is refused for its length only when it would
\* not have fitted: the check against sizeof(buf) asks for no character more
\* than the message needs.
THEOREM RefusalsNeeded == FmtSpec => []RefusedForLength
<1>1. FmtInv => RefusedForLength
  BY DEF FmtInv
<1> QED BY <1>1, FmtInvariant, PTL

\* After any sequence of messages the daemon holds exactly the format in use:
\* set_date_time_format keeps the string that cJSON_Delete would free, and
\* frees the one it replaces.
THEOREM FormatOwned == FmtSpec => []OwnedByOneSide
<1>1. FmtInv => OwnedByOneSide
  BY DEF FmtInv
<1> QED BY <1>1, FmtInvariant, PTL

\* No sequence of messages, reports and the end makes it free a string twice
\* or the literal: what kills it is a document that does not parse or has no
\* named child.
THEOREM DiesOfData == FmtSpec => []DiesOfDataOnly
<1>1. FmtInv => DiesOfDataOnly
  BY DEF FmtInv
<1> QED BY <1>1, FmtInvariant, PTL

\* When main has returned, whatever was set or refused before, no string that
\* the cloud sent is left.
THEOREM FormatFreed == FmtSpec => []FreedAtEnd
<1>1. FmtInv => FreedAtEnd
  BY DEF FmtInv
<1> QED BY <1>1, FmtInvariant, PTL

-----------------------------------------------------------------------------
USE RetriesAssumption, LoopsAssumption, FailLimitAssumption,
    MessagesAssumption, DropsAssumption

\* Before init_tuya has succeeded, and on the returns from there.
Early == {"args", "become_daemon", "tuya_init", "return"}

\* While the SDK's client is used.
Using == {"connect", "retry_check", "retry_sleep", "setup_check", "loop",
          "yield", "main_check", "main_sleep", "main_send", "disconnect"}

-----------------------------------------------------------------------------
(***************************************************************************)
(* The format: every step of the daemon is one of DateFormat, or leaves    *)
(* the format alone.  An early return frees nothing, and that is a step of *)
(* DateFormat because the format is still the literal there.               *)
(***************************************************************************)
FormatInv ==
  /\ FmtInv
  /\ pc \in Early => ~format.should_free

LEMMA FormatInit == Init => FmtInit /\ FormatInv
<1>1. Init => FmtInit
  BY DEF Init
<1>2. FmtInit => ~format.should_free
  BY DEF FmtInit
<1> QED BY <1>1, <1>2, FmtInitInv DEF FormatInv

LEMMA FormatStep ==
  ASSUME FormatInv, [Next]_vars
  PROVE  [FmtNext]_fmtVars /\ FormatInv'
<1> USE DEF At, Goto, Early, GiveUp, EarlyReturn, InitFailed, LoopReturned
<1>1. CASE SetUpStep
  <2>1. UNCHANGED fmtVars /\ pc \in Early
    BY <1>1 DEF SetUpStep, ParseArgs, BecomeDaemon, TuyaInit
  <2> QED BY <2>1, FmtStepInv DEF FormatInv, fmtVars
<1>2. CASE \/ ConnectStep \/ MainCheck \/ MainSleep \/ LoopError
           \/ LoopReconnect \/ LoopYield \/ YieldAcknowledged \/ YieldReturns
           \/ YieldLost \/ Disconnect \/ Deinit
  <2>1. UNCHANGED fmtVars /\ pc' \notin Early
    BY <1>2
       DEF ConnectStep, Connect, RetryCheck, RetrySleep, SetupCheck,
           MainCheck, MainSleep, LoopError, LoopReconnect, LoopYield,
           YieldAcknowledged, YieldReturns, YieldLost, Disconnect, Deinit,
           threadVars
  <2> QED BY <2>1, FmtStepInv DEF FormatInv
<1>3. CASE MainSend \/ OnConnected
  <2>1. SendCurrentTime(SessionOpen) /\ SessionOpen \in BOOLEAN
    BY <1>3 DEF MainSend, OnConnected, SessionOpen
  <2>2. FmtNext
    BY <2>1 DEF FmtNext
  <2>3. pc' \notin Early
    BY <1>3 DEF MainSend, OnConnected
  <2> QED BY <2>2, <2>3, FmtStepInv DEF FormatInv
<1>4. CASE OnMessages
  <2>1. [FmtNext]_fmtVars
    BY <1>4 DEF OnMessages, FmtNext
  <2>2. pc' \notin Early
    BY <1>4 DEF OnMessages
  <2> QED BY <2>1, <2>2, FmtStepInv DEF FormatInv
<1>5. CASE CleanupEnd
  <2>1. FmtNext
    BY <1>5 DEF CleanupEnd, FreeFormat, FmtNext
  <2>2. pc' \notin Early
    BY <1>5 DEF CleanupEnd
  <2> QED BY <2>1, <2>2, FmtStepInv DEF FormatInv
<1>6. CASE ReturnEarly
  <2>1. FreedOld = {} /\ FmtRunning
    BY <1>6 DEF ReturnEarly, FormatInv, FreedOld
  <2>2. FreeDateTimeFormat
    BY <1>6, <2>1 DEF ReturnEarly, FreeDateTimeFormat
  <2>3. pc' \notin Early
    BY <1>6 DEF ReturnEarly
  <2> QED BY <2>2, <2>3, FmtStepInv DEF FormatInv, FmtNext
<1>7. CASE Signal \/ UNCHANGED vars
  <2>1. UNCHANGED fmtVars /\ pc' = pc
    BY <1>7 DEF Signal, vars, threadVars
  <2> QED BY <2>1, FmtStepInv DEF FormatInv, fmtVars
<1> QED
  BY <1>1, <1>2, <1>3, <1>4, <1>5, <1>6, <1>7
     DEF Next, ThreadStep, MainLoopStep, LoopStep, CleanupStep, Over

LEMMA FormatInvariant == Spec => []FormatInv
BY FormatInit, FormatStep, PTL DEF Spec

\* The daemon implements DateFormat: main and the callbacks of connection.c
\* handle the format in no other way.
THEOREM FormatRefined == Spec => KeepsFormat
<1>1. FormatInv /\ [Next]_vars => [FmtNext]_fmtVars
  BY FormatStep
<1> QED BY <1>1, FormatInit, FormatInvariant, PTL DEF Spec, KeepsFormat

\* So what is proved of DateFormat holds of the daemon: between its retries,
\* loops, callbacks and signals no report leaves the buffer or is refused
\* without need, and it owns, and frees, exactly the format in use.
THEOREM FormatInDaemon ==
  Spec => [](/\ FitsBuffer /\ RefusedForLength
             /\ OwnedByOneSide /\ DiesOfDataOnly /\ FreedAtEnd)
<1>1. KeepsFormat <=> FmtSpec
  BY DEF KeepsFormat, FmtSpec
<1> QED
  BY <1>1, FormatRefined, BufferSafe, RefusalsNeeded, FormatOwned, DiesOfData,
     FormatFreed, PTL

-----------------------------------------------------------------------------
(***************************************************************************)
(* The SDK's client: what is known of it at each place.                    *)
(***************************************************************************)
ClientInv ==
  /\ mqtt \in Contexts
  /\ pc \in Early => ~mqtt.client /\ ~mqtt.is_connected
  /\ pc \in Using => credentials /\ mqtt.client /\ mqtt.state # "raw"
  /\ pc = "deinit" => ~mqtt.is_connected
  /\ pc \in {"free_format", "exited"} => ~mqtt.client /\ ~mqtt.is_connected
  /\ process = "exited" => pc = "exited"

LEMMA ClientInit == Init => ClientInv
BY DEF Init, FmtInit, ClientInv, Contexts, ClientStates, RawContext, Early,
       Using

\* A new context is in its type, and none of the calls but tuya_mqtt_deinit
\* releases the client.
LEMMA ContextType ==
  ASSUME mqtt \in Contexts,
         \/ TuyaMqttInitOk \/ TuyaMqttConnectOk \/ TuyaMqttConnectFails
         \/ TuyaMqttDisconnect \/ LoopReconnects \/ LoopReportsConnected
         \/ SubscriptionAcknowledged \/ SessionLost
  PROVE  /\ mqtt' \in Contexts
         /\ mqtt.client => mqtt'.client
         /\ mqtt.state # "raw" => mqtt'.state # "raw"
BY DEF Contexts, ClientStates, TuyaMqttInitOk, TuyaMqttConnectOk,
       TuyaMqttConnectFails, TuyaMqttDisconnect, LoopReconnects,
       LoopReportsConnected, SubscriptionAcknowledged, SessionLost

LEMMA ClientStep ==
  ASSUME ClientInv, [Next]_vars
  PROVE  ClientInv'
<1> USE DEF At, Goto, Early, Using, FmtRunning, commandLine
<1>1. CASE ParseArgs \/ BecomeDaemon
  <2>1. /\ UNCHANGED <<mqtt, process>> /\ process = "running"
        /\ pc' \in Early /\ pc \in Early
    BY <1>1 DEF ParseArgs, BecomeDaemon, EarlyReturn, fmtVars
  <2> QED BY <2>1 DEF ClientInv
<1>2. CASE TuyaInit
  <2>1. CASE credentials /\ TuyaMqttInitOk /\ pc' = "connect"
    <3>1. mqtt'.client /\ mqtt'.state = "idle" /\ mqtt' \in Contexts
      BY <2>1, ContextType DEF TuyaMqttInitOk, ClientInv, Contexts
    <3> QED BY <1>2, <2>1, <3>1 DEF TuyaInit, ClientInv, fmtVars
  <2>2. CASE InitFailed /\ UNCHANGED mqtt
    BY <1>2, <2>2 DEF TuyaInit, InitFailed, EarlyReturn, ClientInv, fmtVars
  <2> QED BY <1>2, <2>1, <2>2 DEF TuyaInit
<1>3. CASE Connect \/ LoopReconnect \/ OnConnected \/ YieldAcknowledged
           \/ YieldLost
  <2>1. /\ pc \in Using /\ pc' \in Using /\ credentials' = credentials
        /\ process = "running" /\ process' = process
    BY <1>3
       DEF Connect, LoopReconnect, OnConnected, YieldAcknowledged, YieldLost,
           LoopReturned, SendCurrentTime, fmtVars, threadVars
  <2>2. \/ TuyaMqttConnectOk \/ TuyaMqttConnectFails \/ LoopReconnects
        \/ LoopReportsConnected \/ SubscriptionAcknowledged \/ SessionLost
    BY <1>3
       DEF Connect, LoopReconnect, OnConnected, YieldAcknowledged, YieldLost
  <2>3. /\ mqtt' \in Contexts /\ mqtt'.client /\ mqtt'.state # "raw"
    BY <2>1, <2>2, ContextType DEF ClientInv
  <2> QED BY <2>1, <2>3 DEF ClientInv
<1>4. CASE \/ RetryCheck \/ RetrySleep \/ SetupCheck \/ MainCheck \/ MainSleep
           \/ MainSend \/ LoopError \/ LoopYield \/ YieldReturns \/ OnMessages
  <2>1. /\ pc \in Using /\ pc' \in Using /\ UNCHANGED <<mqtt, credentials>>
        /\ process' # "exited"
    BY <1>4
       DEF RetryCheck, RetrySleep, SetupCheck, MainCheck, MainSleep, MainSend,
           LoopError, LoopYield, YieldReturns, OnMessages, GiveUp,
           LoopReturned, SendCurrentTime, PropertySetCrashes,
           PropertySetRefused, SetDateTimeFormat, fmtVars
  <2> QED BY <2>1 DEF ClientInv
<1>5. CASE Disconnect
  <2>1. mqtt' \in Contexts /\ ~mqtt'.is_connected
    BY <1>5, ContextType DEF Disconnect, TuyaMqttDisconnect, ClientInv,
                              Contexts
  <2> QED BY <1>5, <2>1 DEF Disconnect, ClientInv, fmtVars
<1>6. CASE Deinit
  <2>1. mqtt' \in Contexts /\ ~mqtt'.client /\ ~mqtt'.is_connected
    BY <1>6 DEF Deinit, TuyaMqttDeinit, ClientInv, Contexts
  <2> QED BY <1>6, <2>1 DEF Deinit, ClientInv, fmtVars
<1>7. CASE CleanupEnd \/ ReturnEarly
  BY <1>7 DEF CleanupEnd, ReturnEarly, ClientInv
<1>8. CASE Signal \/ UNCHANGED vars
  BY <1>8 DEF Signal, vars, threadVars, fmtVars, ClientInv
<1> QED
  BY <1>1, <1>2, <1>3, <1>4, <1>5, <1>6, <1>7, <1>8
     DEF Next, ThreadStep, SetUpStep, ConnectStep, MainLoopStep, LoopStep,
         CleanupStep, Over

LEMMA ClientInvariant == Spec => []ClientInv
BY ClientInit, ClientStep, PTL DEF Spec

\* Out of main by the clean-up or by an early return, after any messages: the
\* client is offline and released, and no format string is left.
THEOREM EndsCleanly == Spec => []EndsClean
<1>1. FormatInv /\ ClientInv => EndsClean
  BY DEF FormatInv, FmtInv, FreedAtEnd, ClientInv, EndsClean
<1> QED BY <1>1, FormatInvariant, ClientInvariant, PTL

\* Although the command line is accepted without them, no daemon without
\* device id and secret gets to use the client.
THEOREM CredentialsNeeded == Spec => []NeverWithoutCredentials
<1>1. ClientInv => NeverWithoutCredentials
  BY DEF ClientInv, NeverWithoutCredentials, InConnect, InMainLoop, InLoop,
         Using
<1> QED BY <1>1, ClientInvariant, PTL
-----------------------------------------------------------------------------
(***************************************************************************)
(* Counters: each place knows by how much its counter may still grow.      *)
(***************************************************************************)
Most == IF ConnectRetries < SetupLoops THEN SetupLoops ELSE ConnectRetries

CountInv ==
  /\ pc \in Locations /\ keepRunning \in {0, 1}
  /\ help \in BOOLEAN /\ credentials \in BOOLEAN
  /\ caller \in {"setup", "main"} /\ handled \in 0 .. MaxMessages
  /\ i \in 0 .. Most
  /\ pc \in Early \cup {"connect", "retry_check"} => i <= ConnectRetries
  /\ pc = "retry_sleep" => i < ConnectRetries
  /\ pc \in {"loop", "yield"} /\ caller = "setup" => i < SetupLoops
  /\ pc \in {"main_check", "main_sleep", "main_send"} => caller = "main"
  /\ failCount \in 0 .. SendFailLimit
  /\ pc \in Early \cup (Using \ {"disconnect"}) => failCount < SendFailLimit
  /\ retVal \in {0, 1, 64}
  /\ late \in [Calls -> 0 .. 2]

LEMMA CountInit == Init => CountInv
<1> SUFFICES ASSUME Init
             PROVE  CountInv
  OBVIOUS
<1>1. late \in [Calls -> 0 .. 2]
  BY DEF Init
<1>2. 0 \in 0 .. Most /\ 0 <= ConnectRetries /\ 0 < SendFailLimit
      /\ 0 \in 0 .. MaxMessages /\ 0 \in 0 .. SendFailLimit
  BY DEF Most
<1> QED BY <1>1, <1>2 DEF Init, CountInv, Locations

\* Counting a call that returned touches its own count only, by one at most,
\* and only after the signal.
LEMMA ReturnedCounts ==
  ASSUME late \in [Calls -> 0 .. 2], NEW call \in Calls, Returned(call)
  PROVE  /\ late' \in [Calls -> 0 .. 2]
         /\ keepRunning = 1 => late' = late
         /\ \A c \in Calls \ {call} : late'[c] = late[c]
         /\ late'[call] <= late[call] + 1
BY DEF Returned

LEMMA CountStep ==
  ASSUME CountInv, [Next]_vars
  PROVE  CountInv'
<1> USE DEF CountInv, At, Goto, Early, Using, Locations, Most, commandLine
<1>0. {"sleep", "connect", "loop", "send"} \subseteq Calls
  BY DEF Calls
<1>1. CASE SetUpStep
  BY <1>1 DEF SetUpStep, ParseArgs, BecomeDaemon, TuyaInit, InitFailed,
              EarlyReturn
<1>2. CASE Connect
  <2>1. late' \in [Calls -> 0 .. 2]
    BY <1>0, <1>2, ReturnedCounts DEF Connect
  <2> QED BY <1>2, <2>1 DEF Connect
<1>3. CASE RetryCheck
  BY <1>3 DEF RetryCheck, RetryAgain, GiveUp
<1>4. CASE RetrySleep
  <2>1. late' \in [Calls -> 0 .. 2]
    BY <1>0, <1>4, ReturnedCounts DEF RetrySleep
  <2> QED BY <1>4, <2>1 DEF RetrySleep
<1>5. CASE SetupCheck
  BY <1>5 DEF SetupCheck, SetupAgain
<1>6. CASE MainCheck
  BY <1>6 DEF MainCheck
<1>7. CASE MainSleep
  <2>1. late' \in [Calls -> 0 .. 2]
    BY <1>0, <1>7, ReturnedCounts DEF MainSleep
  <2> QED BY <1>7, <2>1 DEF MainSleep
<1>8. CASE MainSend
  <2>1. late' \in [Calls -> 0 .. 2]
    BY <1>0, <1>8, ReturnedCounts DEF MainSend
  <2>2. /\ failCount' \in 0 .. SendFailLimit
        /\ pc' = "main_check" => failCount' < SendFailLimit
        /\ pc' \in {"main_check", "disconnect"} /\ retVal' \in {0, 1, 64}
    BY <1>8 DEF MainSend, CountFailure, TooMany, GiveUp
  <2> QED BY <1>8, <2>1, <2>2 DEF MainSend
<1>9. CASE LoopReconnect \/ OnConnected \/ YieldReturns \/ YieldLost
  <2>1. pc \in {"loop", "yield"} /\ LoopReturned
    BY <1>9 DEF LoopReconnect, OnConnected, YieldReturns, YieldLost
  <2>2. late' \in [Calls -> 0 .. 2]
    BY <1>0, <2>1, ReturnedCounts DEF LoopReturned
  <2> QED BY <2>1, <2>2 DEF LoopReturned
<1>10. CASE LoopError
  <2>1. late' \in [Calls -> 0 .. 2]
    BY <1>0, <1>10, ReturnedCounts DEF LoopError
  <2> QED BY <1>10, <2>1 DEF LoopError, GiveUp
<1>11. CASE LoopYield \/ YieldAcknowledged \/ OnMessages
  BY <1>11 DEF LoopYield, YieldAcknowledged, OnMessages, threadVars
<1>12. CASE CleanupStep
  BY <1>12 DEF CleanupStep, Disconnect, Deinit, CleanupEnd, ReturnEarly
<1>13. CASE Signal \/ UNCHANGED vars
  BY <1>13 DEF Signal, vars, threadVars
<1> QED
  BY <1>1, <1>2, <1>3, <1>4, <1>5, <1>6, <1>7, <1>8, <1>9, <1>10, <1>11,
     <1>12, <1>13
     DEF Next, ThreadStep, ConnectStep, MainLoopStep, LoopStep, Over

LEMMA CountInvariant == Spec => []CountInv
BY CountInit, CountStep, PTL DEF Spec

\* The types, of the format and the client too, and the bounds of every
\* counter: ten failures end the main loop, not eleven.
THEOREM TypeCorrect == Spec => []TypeOK
<1>1. FormatInv /\ ClientInv /\ CountInv => TypeOK
  BY DEF FormatInv, FmtInv, ClientInv, CountInv, TypeOK, Most
<1> QED BY <1>1, FormatInvariant, ClientInvariant, CountInvariant, PTL

-----------------------------------------------------------------------------
(***************************************************************************)
(* After a signal.  Nothing is counted before it; after it, a place behind *)
(* the last look at keep_running has nothing counted but what lies between *)
(* that look and the place.                                                *)
(***************************************************************************)
Fresh == {"args", "become_daemon", "tuya_init", "retry_sleep", "loop",
          "yield", "return"}

LateInv ==
  /\ keepRunning = 1 \/ pc \in Fresh => \A c \in Calls : late[c] = 0
  /\ pc = "connect" =>
       late["connect"] = 0 /\ late["loop"] = 0 /\ late["send"] = 0
  /\ pc = "retry_check" => late["loop"] = 0 /\ late["send"] = 0
  /\ pc = "setup_check" => late["send"] = 0
  /\ pc = "main_sleep" =>
       late["connect"] = 0 /\ late["sleep"] = 0 /\ late["send"] = 0
  /\ pc = "main_send" => late["connect"] = 0 /\ late["send"] = 0
  /\ StopBound

LEMMA LateInit == Init => LateInv
BY DEF Init, LateInv, StopBound, Calls

LEMMA LateStep ==
  ASSUME CountInv, LateInv, [Next]_vars
  PROVE  LateInv'
<1> USE DEF LateInv, StopBound, Fresh, Calls, At, Goto
<1>0. late \in [Calls -> 0 .. 2] /\ keepRunning \in {0, 1}
  BY DEF CountInv
<1>1. CASE SetUpStep
  BY <1>0, <1>1 DEF SetUpStep, ParseArgs, BecomeDaemon, TuyaInit, InitFailed,
                    EarlyReturn
<1>2. CASE Connect
  <2>1. Returned("connect")
    BY <1>2 DEF Connect
  <2> QED BY <1>0, <1>2, <2>1, ReturnedCounts DEF Connect
<1>3. CASE RetryCheck
  BY <1>0, <1>3 DEF RetryCheck, RetryAgain, GiveUp
<1>4. CASE RetrySleep
  <2>1. Returned("sleep")
    BY <1>4 DEF RetrySleep
  <2> QED BY <1>0, <1>4, <2>1, ReturnedCounts DEF RetrySleep
<1>5. CASE SetupCheck
  BY <1>0, <1>5 DEF SetupCheck, SetupAgain
<1>6. CASE MainCheck
  BY <1>0, <1>6 DEF MainCheck, StillServing
<1>7. CASE MainSleep
  <2>1. Returned("sleep")
    BY <1>7 DEF MainSleep
  <2> QED BY <1>0, <1>7, <2>1, ReturnedCounts DEF MainSleep
<1>8. CASE MainSend
  <2>1. Returned("send") /\ pc' \in {"main_check", "disconnect"}
    BY <1>8 DEF MainSend, GiveUp
  <2> QED BY <1>0, <1>8, <2>1, ReturnedCounts DEF MainSend
<1>9. CASE LoopError \/ LoopReconnect \/ OnConnected \/ YieldReturns
           \/ YieldLost
  <2>1. /\ Returned("loop") /\ UNCHANGED keepRunning /\ pc \in Fresh
        /\ pc' \in {"setup_check", "main_sleep", "disconnect"}
    BY <1>9 DEF LoopError, LoopReconnect, OnConnected, YieldReturns,
                YieldLost, LoopReturned, GiveUp
  <2> QED BY <1>0, <2>1, ReturnedCounts
<1>10. CASE LoopYield \/ YieldAcknowledged \/ OnMessages
  BY <1>0, <1>10 DEF LoopYield, YieldAcknowledged, OnMessages, threadVars
<1>11. CASE CleanupStep
  BY <1>0, <1>11 DEF CleanupStep, Disconnect, Deinit, CleanupEnd, ReturnEarly
<1>12. CASE Signal \/ UNCHANGED vars
  BY <1>0, <1>12 DEF Signal, vars, threadVars
<1> QED
  BY <1>1, <1>2, <1>3, <1>4, <1>5, <1>6, <1>7, <1>8, <1>9, <1>10, <1>11,
     <1>12
     DEF Next, ThreadStep, ConnectStep, MainLoopStep, LoopStep, Over

\* Wherever a signal finds the thread, at most one sleep, one connection
\* attempt or loop, and one report still return before it cleans up.
THEOREM StopsSoon == Spec => []StopBound
<1>1. LateInv => StopBound
  BY DEF LateInv
<1>2. Spec => []LateInv
  BY CountInvariant, LateInit, LateStep, PTL DEF Spec
<1> QED BY <1>1, <1>2, PTL
-----------------------------------------------------------------------------
(***************************************************************************)
(* The way out.  After the signal every step of the thread takes it nearer *)
(* to the end; Distance counts the steps that are left at most.  It is     *)
(* SignalStops without the scheduling: a thread that goes on taking steps  *)
(* ends.                                                                   *)
(***************************************************************************)
\* What is left of a yield: the messages, one acknowledgement.
YieldLeft ==
  MaxMessages - handled + (IF mqtt.state = "connecting" THEN 1 ELSE 0)

\* What is left of main after the signal, by where the thread is.
StepsLeft ==
  [exited        |-> 0,
   return        |-> 1,
   free_format   |-> 1,
   deinit        |-> 2,
   disconnect    |-> 3,
   main_check    |-> 4,
   retry_check   |-> 4,
   main_send     |-> 5,
   setup_check   |-> 5,
   main_sleep    |-> 6,
   connect       |-> 6,
   yield         |-> 7 + YieldLeft,
   loop          |-> 8 + YieldLeft,
   retry_sleep   |-> 7,
   tuya_init     |-> 7,
   become_daemon |-> 8,
   args          |-> 9]

Distance == IF FmtRunning THEN StepsLeft[pc] ELSE 0

\* The distance is a number.
LEMMA DistanceType == CountInv => YieldLeft \in Nat /\ Distance \in Nat
<1> SUFFICES ASSUME CountInv PROVE YieldLeft \in Nat /\ Distance \in Nat
  OBVIOUS
<1>1. YieldLeft \in Nat
  BY DEF CountInv, YieldLeft
<1>2. QED
  BY <1>1 DEF CountInv, Distance, StepsLeft, Locations

\* Set-up, connecting, serving and the clean-up: the loops are left at their
\* next check.
LEMMA NearerOutsideLoop ==
  ASSUME keepRunning = 0, SetUpStep \/ ConnectStep \/ MainLoopStep \/ CleanupStep
  PROVE  Distance' < Distance
<1> USE DEF At, Goto, GiveUp, EarlyReturn
<1>1. FmtRunning
  BY DEF SetUpStep, ParseArgs, BecomeDaemon, TuyaInit, ConnectStep, Connect,
         RetryCheck, RetrySleep, SetupCheck, MainLoopStep, MainCheck,
         MainSleep, MainSend, CleanupStep, Disconnect, Deinit, CleanupEnd,
         ReturnEarly
<1>2. /\ pc = "args" => pc' \in {"become_daemon", "tuya_init", "return"}
      /\ pc = "become_daemon" => pc' \in {"tuya_init", "return"}
      /\ pc = "tuya_init" => pc' \in {"connect", "return"}
      /\ pc = "connect" => pc' \in {"setup_check", "retry_check"}
      /\ pc = "retry_check" => pc' = "disconnect"
      /\ pc = "retry_sleep" => pc' = "connect"
      /\ pc = "setup_check" => pc' = "main_check"
      /\ pc = "main_check" => pc' = "disconnect"
      /\ pc = "main_sleep" => pc' = "main_send"
      /\ pc = "main_send" => pc' \in {"main_check", "disconnect"}
      /\ pc = "disconnect" => pc' = "deinit"
      /\ pc = "deinit" => pc' = "free_format"
      /\ pc \in {"free_format", "return"} => pc' = "exited"
      /\ pc \in Locations \ {"loop", "yield", "exited"}
  BY DEF SetUpStep, ParseArgs, BecomeDaemon, TuyaInit, InitFailed,
         ConnectStep, Connect, RetryCheck, RetryAgain, RetrySleep,
         SetupCheck, SetupAgain, MainLoopStep, MainCheck, StillServing,
         MainSleep, MainSend, CleanupStep, Disconnect, Deinit, CleanupEnd,
         ReturnEarly, Locations
<1>3. QED
  BY <1>1, <1>2 DEF Distance, StepsLeft, Locations

\* tuya_mqtt_loop: a yield takes MaxMessages messages at most, and the session
\* is acknowledged once.
LEMMA NearerLooping ==
  ASSUME CountInv, ClientInv, LoopStep
  PROVE  Distance' < Distance
<1>1. YieldLeft \in Nat
  BY DistanceType
<1> USE DEF At, Goto, GiveUp, Distance, StepsLeft
<1>2. CASE LoopError \/ LoopReconnect \/ OnConnected \/ YieldReturns \/ YieldLost
  <2>1. /\ FmtRunning /\ pc \in {"loop", "yield"}
        /\ pc' \in {"setup_check", "main_sleep", "disconnect"}
    BY <1>2
       DEF LoopError, LoopReconnect, OnConnected, YieldReturns, YieldLost,
           LoopReturned
  <2>2. QED
    BY <1>1, <2>1
<1>3. CASE LoopYield
  <2>1. FmtRunning /\ pc = "loop" /\ pc' = "yield" /\ YieldLeft' = YieldLeft
    BY <1>3 DEF LoopYield, YieldLeft
  <2>2. QED
    BY <1>1, <2>1
<1>4. CASE YieldAcknowledged \/ OnMessages
  <2>1. FmtRunning /\ pc = "yield" /\ pc' = "yield"
    BY <1>4 DEF YieldAcknowledged, OnMessages, threadVars
  <2>2. handled \in Nat /\ MaxMessages \in Nat /\ mqtt \in Contexts
    BY DEF CountInv, ClientInv
  <2>3. PICK left \in Int : YieldLeft' = left /\ left < YieldLeft
    <3>1. CASE YieldAcknowledged
      <4>1. /\ handled' = handled /\ mqtt.state = "connecting"
            /\ mqtt'.state = "connected"
        BY <2>2, <3>1
           DEF YieldAcknowledged, SubscriptionAcknowledged, threadVars,
               Contexts
      <4>2. QED
        BY <2>2, <4>1 DEF YieldLeft
    <3>2. CASE OnMessages
      BY <2>2, <3>2 DEF OnMessages, YieldLeft
    <3>3. QED
      BY <1>4, <3>1, <3>2
  <2>4. QED
    BY <1>1, <2>1, <2>3
<1>5. QED
  BY <1>2, <1>3, <1>4 DEF LoopStep

\* The signal, once it came, is not taken back, and every step of the thread
\* counts down.
Nearer ==
  /\ keepRunning' = 0
  /\ Distance' <= Distance
  /\ ThreadStep => Distance' < Distance

\* From the signal on there is a number that never grows and that every step
\* of the thread decreases, wherever the signal found it: waiting to retry, in
\* the five loops of the set-up, in a yield with messages still to come.  The
\* thread stops after that many steps at most.
THEOREM SignalCountsDown ==
  Spec => /\ [](Distance \in Nat)
          /\ [][keepRunning = 0 => Nearer]_vars
<1>1. ASSUME CountInv, CountInv', ClientInv, keepRunning = 0, Next
      PROVE  Nearer
  <2>1. Distance \in Nat
    BY <1>1, DistanceType
  <2>2. Distance' \in Nat
    <3>1. (CountInv => Distance \in Nat)'
      BY DistanceType, PTL
    <3>2. QED
      BY <1>1, <3>1
  <2>3. ThreadStep => Distance' < Distance
    BY <1>1, NearerOutsideLoop, NearerLooping DEF ThreadStep
  <2>4. Signal \/ Over => Distance' = Distance
    BY DEF Signal, Over, vars, threadVars, fmtVars, Distance, StepsLeft,
           YieldLeft, FmtRunning
  <2>5. keepRunning' = 0
    BY <1>1
       DEF Next, ThreadStep, SetUpStep, ParseArgs, BecomeDaemon, TuyaInit,
           ConnectStep, Connect, RetryCheck, RetrySleep, SetupCheck,
           MainLoopStep, MainCheck, MainSleep, MainSend, LoopStep,
           LoopError, LoopReconnect, OnConnected, LoopYield,
           YieldAcknowledged, YieldReturns, OnMessages, YieldLost,
           LoopReturned, CleanupStep, Disconnect, Deinit, CleanupEnd,
           ReturnEarly, Signal, Over, vars, threadVars
  <2>6. QED
    BY <1>1, <2>1, <2>2, <2>3, <2>4, <2>5 DEF Next, Nearer
<1>2. CountInv /\ CountInv' /\ ClientInv /\ [Next]_vars =>
        [keepRunning = 0 => Nearer]_vars
  BY <1>1
<1>3. QED
  BY <1>2, DistanceType, CountInvariant, ClientInvariant, PTL DEF Spec

-----------------------------------------------------------------------------
(***************************************************************************)
(* The daemon implements Lifecycle.  An action maps to the step of         *)
(* Lifecycle that its label names, or leaves the phase alone.              *)
(***************************************************************************)
PromiseInv ==
  /\ pc \in Early => i = 0
  /\ pc \in Early \cup {"connect", "retry_check", "retry_sleep",
                        "setup_check"} => caller = "setup"
  /\ pc \in {"main_check", "main_sleep", "main_send"} => caller = "main"
  /\ process \in {"running", "exited", "crashed"}
  /\ pc = "args" => retVal = 0
  /\ pc \in {"become_daemon", "tuya_init"} => ~help

LEMMA PromiseInit == Init => PromiseInv
BY DEF Init, FmtInit, PromiseInv, Early

LEMMA PromiseInvStep ==
  ASSUME CountInv, PromiseInv, [Next]_vars
  PROVE  PromiseInv'
<1> USE DEF PromiseInv, Early, At, Goto, GiveUp, EarlyReturn, InitFailed,
            LoopReturned, commandLine
<1>0. i \in Nat
  BY DEF CountInv, Most
<1>1. CASE SetUpStep
  BY <1>1 DEF SetUpStep, ParseArgs, BecomeDaemon, TuyaInit, fmtVars
<1>2. CASE ConnectStep
  BY <1>0, <1>2 DEF ConnectStep, Connect, RetryCheck, RetrySleep, SetupCheck,
                    fmtVars
<1>3. CASE MainLoopStep
  BY <1>3 DEF MainLoopStep, MainCheck, MainSleep, MainSend, SendCurrentTime,
              fmtVars
<1>4. CASE LoopStep
  BY <1>4 DEF LoopStep, LoopError, LoopReconnect, OnConnected, LoopYield,
              YieldAcknowledged, YieldReturns, OnMessages, YieldLost,
              SendCurrentTime, PropertySetCrashes, PropertySetRefused,
              SetDateTimeFormat, threadVars, fmtVars, CountInv
<1>5. CASE CleanupStep
  BY <1>5 DEF CleanupStep, Disconnect, Deinit, CleanupEnd, ReturnEarly,
              FreeFormat, FreeDateTimeFormat, fmtVars
<1>6. CASE Signal \/ UNCHANGED vars
  BY <1>6 DEF Signal, vars, threadVars, fmtVars
<1> QED
  BY <1>1, <1>2, <1>3, <1>4, <1>5, <1>6 DEF Next, ThreadStep, Over

\* The phase of the daemon, place by place.
Places ==
  /\ process = "crashed" => Phase = "killed"
  /\ process = "exited" => Phase = "ended"
  /\ process = "running" =>
       /\ pc \in {"args", "become_daemon", "tuya_init"} => Phase = "setup"
       /\ pc = "connect" => Phase = IF i = 0 THEN "setup" ELSE "connecting"
       /\ pc \in {"retry_check", "retry_sleep", "setup_check"} =>
            Phase = "connecting"
       /\ pc \in {"loop", "yield"} =>
            Phase = IF caller = "setup" THEN "connecting" ELSE "serving"
       /\ pc \in {"main_check", "main_sleep", "main_send"} =>
            Phase = "serving"
       /\ pc \in {"disconnect", "deinit", "free_format", "return"} =>
            Phase = "closing"

LEMMA Phases == CountInv /\ PromiseInv => Places
BY DEF Places, Phase, FmtRunning, InConnect, InMainLoop, InLoop, PromiseInv,
       CountInv

\* The command line stays what it is.
LEMMA HelpStays == [Next]_vars => UNCHANGED help
BY DEF Next, ThreadStep, SetUpStep, ParseArgs, BecomeDaemon, TuyaInit,
       ConnectStep, Connect, RetryCheck, RetrySleep, SetupCheck,
       MainLoopStep, MainCheck, MainSleep, MainSend, LoopStep, LoopError,
       LoopReconnect, OnConnected, LoopYield, YieldAcknowledged,
       YieldReturns, OnMessages, YieldLost, LoopReturned, CleanupStep,
       Disconnect, Deinit, CleanupEnd, ReturnEarly, Signal, Over, vars,
       threadVars, commandLine

\* Lifecycle sees the phase, the client, the exit status, the request to stop
\* and the one for help.  A step that keeps them is no step of it.
LEMMA Unseen ==
  ASSUME Phase' = Phase, UNCHANGED <<mqtt, retVal, keepRunning, help>>
  PROVE  UNCHANGED Promise!vars
BY DEF Promise!vars

LEMMA GivesUp ==
  ASSUME Phase \in {"setup", "connecting", "serving"}, Phase' = "closing",
         retVal' \in {1, 64}, UNCHANGED <<mqtt, keepRunning, help>>
  PROVE  Promise!Next
BY DEF Promise!GiveUp, Promise!Next

\* The session comes and goes, or it does not.
LEMMA Flips ==
  ASSUME mqtt \in Contexts, mqtt' \in Contexts,
         Phase \in {"connecting", "serving"}, Phase' = Phase,
         mqtt'.client = mqtt.client, UNCHANGED <<retVal, keepRunning, help>>
  PROVE  [Promise!Next]_(Promise!vars)
<1>1. mqtt.is_connected \in BOOLEAN /\ mqtt'.is_connected \in BOOLEAN
  BY DEF Contexts
<1>2. CASE mqtt'.is_connected = mqtt.is_connected
  BY <1>2 DEF Promise!vars
<1>3. CASE mqtt'.is_connected = ~mqtt.is_connected
  <2>1. Promise!Flip
    BY <1>3 DEF Promise!Flip
  <2> QED BY <2>1 DEF Promise!Next
<1> QED BY <1>1, <1>2, <1>3

LEMMA SetUpPromise ==
  ASSUME ClientInv, PromiseInv, Places, Places', SetUpStep, UNCHANGED help
  PROVE  [Promise!Next]_(Promise!vars)
<1> USE DEF At, Goto, FmtRunning, EarlyReturn
<1>1. Phase = "setup"
  BY DEF SetUpStep, ParseArgs, BecomeDaemon, TuyaInit, Places
<1>2. process' = "running"
  BY DEF SetUpStep, ParseArgs, BecomeDaemon, TuyaInit, fmtVars
<1>3. CASE pc' = "return" /\ retVal' \in {1, 64}
  <2>1. UNCHANGED <<mqtt, keepRunning>>
    BY <1>3 DEF SetUpStep, ParseArgs, BecomeDaemon, TuyaInit
  <2>2. Phase' = "closing"
    BY <1>2, <1>3 DEF Places
  <2> QED BY <1>1, <1>3, <2>1, <2>2, GivesUp
<1>4. CASE ParseArgs /\ help /\ pc' = "return" /\ retVal' = 0
  <2>1. UNCHANGED <<mqtt, keepRunning, retVal>>
    BY <1>4 DEF ParseArgs, PromiseInv, Early
  <2>2. Phase' = "closing"
    BY <1>2, <1>4 DEF Places
  <2>3. Promise!Inform
    BY <1>1, <1>4, <2>1, <2>2 DEF Promise!Inform
  <2> QED BY <2>3 DEF Promise!Next
<1>5. CASE (ParseArgs \/ BecomeDaemon) /\ UNCHANGED retVal
           /\ pc' \in {"become_daemon", "tuya_init"}
  <2>1. Phase' = Phase
    BY <1>1, <1>2, <1>5 DEF Places
  <2>2. UNCHANGED <<mqtt, keepRunning>>
    BY <1>5 DEF ParseArgs, BecomeDaemon
  <2> QED BY <1>5, <2>1, <2>2, Unseen
<1>6. CASE TuyaInit /\ TuyaMqttInitOk /\ pc' = "connect" /\ UNCHANGED retVal
  <2>1. ~mqtt.client /\ mqtt \in Contexts /\ UNCHANGED keepRunning
    BY <1>6 DEF TuyaInit, ClientInv, Early
  <2>2. mqtt'.client /\ mqtt'.is_connected = mqtt.is_connected
    BY <1>6, <2>1 DEF TuyaMqttInitOk, Contexts
  <2>3. i' = 0
    BY <1>6 DEF TuyaInit, PromiseInv, Early
  <2>4. Phase' = "setup"
    BY <1>2, <1>6, <2>3 DEF Places
  <2>5. Promise!Acquire
    BY <1>1, <1>6, <2>1, <2>2, <2>4
       DEF Promise!Acquire, Contexts, TuyaInit, PromiseInv
  <2> QED BY <2>5 DEF Promise!Next
<1> QED
  BY <1>3, <1>4, <1>5, <1>6
     DEF SetUpStep, ParseArgs, BecomeDaemon, TuyaInit, InitFailed

LEMMA ConnectPromise ==
  ASSUME ClientInv, ClientInv', CountInv, PromiseInv, Places, Places',
         ConnectStep, UNCHANGED help
  PROVE  [Promise!Next]_(Promise!vars)
<1> USE DEF At, Goto, FmtRunning
<1>0. i \in Nat /\ mqtt \in Contexts
  BY DEF CountInv, Most, ClientInv
<1>1. process' = "running" /\ process = "running"
  BY DEF ConnectStep, Connect, RetryCheck, RetrySleep, SetupCheck, fmtVars
<1>2. CASE Connect
  <2>1. Phase' = "connecting" /\ pc = "connect"
    BY <1>1, <1>2 DEF Connect, Places
  <2>2. mqtt'.client = mqtt.client /\ mqtt'.is_connected = mqtt.is_connected
    BY <1>0, <1>2
       DEF Connect, TuyaMqttConnectOk, TuyaMqttConnectFails, Contexts
  <2>3. UNCHANGED <<keepRunning, retVal>>
    BY <1>2 DEF Connect
  <2>4. CASE i = 0
    <3>1. Phase = "setup" /\ mqtt.client
      BY <1>1, <2>1, <2>4 DEF Places, ClientInv, Using
    <3>2. Promise!Connect
      BY <2>1, <2>2, <2>3, <3>1 DEF Promise!Connect
    <3> QED BY <3>2 DEF Promise!Next
  <2>5. CASE i # 0
    <3>1. Phase = "connecting"
      BY <1>1, <2>1, <2>5 DEF Places
    <3> QED BY <2>1, <2>2, <2>3, <3>1 DEF Promise!vars
  <2> QED BY <2>4, <2>5
<1>3. CASE RetryCheck
  <2>1. Phase = "connecting" /\ UNCHANGED <<mqtt, keepRunning>>
    BY <1>1, <1>3 DEF RetryCheck, Places
  <2>2. CASE pc' = "retry_sleep" /\ UNCHANGED retVal
    BY <1>1, <2>1, <2>2, Unseen DEF Places
  <2>3. CASE GiveUp
    <3>1. Phase' = "closing" /\ retVal' = 1
      BY <1>1, <2>3 DEF GiveUp, Places
    <3> QED BY <2>1, <3>1, GivesUp
  <2> QED BY <1>3, <2>2, <2>3 DEF RetryCheck
<1>4. CASE RetrySleep
  <2>1. Phase = "connecting" /\ UNCHANGED <<mqtt, keepRunning, retVal>>
    BY <1>1, <1>4 DEF RetrySleep, Places
  <2>2. pc' = "connect" /\ i' # 0
    BY <1>0, <1>4 DEF RetrySleep
  <2>3. Phase' = "connecting"
    BY <1>1, <2>2 DEF Places
  <2> QED BY <2>1, <2>3, Unseen
<1>5. CASE SetupCheck
  <2>1. Phase = "connecting" /\ UNCHANGED <<mqtt, keepRunning, retVal>>
    BY <1>1, <1>5 DEF SetupCheck, Places
  <2>2. CASE pc' = "main_check"
    <3>1. Phase' = "serving"
      BY <1>1, <2>2 DEF Places
    <3>2. Promise!Serve
      BY <2>1, <3>1 DEF Promise!Serve
    <3> QED BY <3>2 DEF Promise!Next
  <2>3. CASE pc' = "loop" /\ caller' = caller
    <3>1. caller = "setup"
      BY <1>5 DEF SetupCheck, CountInv, PromiseInv
    <3>2. Phase' = "connecting"
      BY <1>1, <2>3, <3>1 DEF Places
    <3> QED BY <2>1, <3>2, Unseen
  <2> QED BY <1>5, <2>2, <2>3 DEF SetupCheck
<1> QED BY <1>2, <1>3, <1>4, <1>5 DEF ConnectStep

LEMMA MainLoopPromise ==
  ASSUME CountInv, PromiseInv, Places, Places', MainLoopStep, UNCHANGED help
  PROVE  [Promise!Next]_(Promise!vars)
<1> USE DEF At, Goto, FmtRunning
<1>1. process' = "running" /\ process = "running" /\ UNCHANGED caller
  BY DEF MainLoopStep, MainCheck, MainSleep, MainSend, SendCurrentTime,
         fmtVars
<1>2. Phase = "serving" /\ UNCHANGED <<mqtt, keepRunning>> /\ caller = "main"
  BY <1>1 DEF MainLoopStep, MainCheck, MainSleep, MainSend, Places,
              PromiseInv
<1>3. CASE UNCHANGED retVal /\ pc' \in {"loop", "main_send", "main_check"}
  <2>1. Phase' = "serving"
    BY <1>1, <1>2, <1>3 DEF Places
  <2> QED BY <1>2, <1>3, <2>1, Unseen
<1>4. CASE GiveUp
  <2>1. Phase' = "closing" /\ retVal' = 1
    BY <1>1, <1>4 DEF GiveUp, Places
  <2> QED BY <1>2, <2>1, GivesUp
<1>5. CASE MainCheck /\ ~StillServing
  <2>1. pc' = "disconnect" /\ UNCHANGED retVal
    BY <1>5 DEF MainCheck
  <2>2. Phase' = "closing"
    BY <1>1, <2>1 DEF Places
  <2>3. keepRunning = 0
    BY <1>5 DEF StillServing, CountInv
  <2>4. Promise!Stop
    BY <1>2, <2>1, <2>2, <2>3 DEF Promise!Stop
  <2> QED BY <2>4 DEF Promise!Next
<1> QED
  BY <1>3, <1>4, <1>5 DEF MainLoopStep, MainCheck, MainSleep, MainSend

LEMMA LoopPromise ==
  ASSUME ClientInv, ClientInv', CountInv, Places, Places', LoopStep,
         UNCHANGED help
  PROVE  [Promise!Next]_(Promise!vars)
<1> USE DEF At, Goto, FmtRunning
<1>1. Phase \in {"connecting", "serving"} /\ mqtt \in Contexts
      /\ process = "running" /\ pc \in {"loop", "yield"} /\ UNCHANGED caller
      /\ UNCHANGED keepRunning
  BY DEF LoopStep, LoopError, LoopReconnect, OnConnected, LoopYield,
         YieldAcknowledged, YieldReturns, OnMessages, YieldLost,
         LoopReturned, threadVars, Places, CountInv, ClientInv
<1>2. CASE process' = "running" /\ pc' # "disconnect"
  <2>1. pc' = IF pc' \in {"loop", "yield"} THEN pc'
              ELSE IF caller = "setup" THEN "setup_check" ELSE "main_sleep"
    BY <1>1, <1>2
       DEF LoopStep, LoopError, LoopReconnect, OnConnected, LoopYield,
           YieldAcknowledged, YieldReturns, OnMessages, YieldLost,
           LoopReturned, threadVars, GiveUp
  <2>2. Phase' = Phase
    BY <1>1, <1>2, <2>1 DEF Places, CountInv
  <2>3. UNCHANGED retVal
    BY <1>2
       DEF LoopStep, LoopError, LoopReconnect, OnConnected, LoopYield,
           YieldAcknowledged, YieldReturns, OnMessages, YieldLost,
           LoopReturned, threadVars, GiveUp
  <2>4. mqtt'.client = mqtt.client /\ mqtt' \in Contexts
    BY <1>1, <1>2
       DEF LoopStep, LoopError, LoopReconnect, OnConnected, LoopYield,
           YieldAcknowledged, YieldReturns, OnMessages, YieldLost,
           LoopReconnects, LoopReportsConnected, SubscriptionAcknowledged,
           SessionLost, Contexts, ClientInv
  <2> QED BY <1>1, <2>2, <2>3, <2>4, Flips
<1>3. CASE LoopError
  <2>1. Phase' = "closing" /\ retVal' = 1 /\ UNCHANGED mqtt
    BY <1>1, <1>3 DEF LoopError, GiveUp, Places, fmtVars
  <2> QED BY <1>1, <2>1, GivesUp
<1>4. CASE OnMessages /\ process' = "crashed"
  <2>1. Phase' = "killed" /\ UNCHANGED <<mqtt, retVal>>
    BY <1>4 DEF OnMessages, Places
  <2>2. Promise!Die
    BY <1>1, <2>1 DEF Promise!Die
  <2> QED BY <2>2 DEF Promise!Next
<1> QED
  BY <1>1, <1>2, <1>3, <1>4
     DEF LoopStep, LoopReconnect, OnConnected, LoopYield,
         YieldAcknowledged, YieldReturns, OnMessages, YieldLost,
         LoopReturned, SendCurrentTime, PropertySetCrashes,
         PropertySetRefused, SetDateTimeFormat, threadVars, fmtVars

LEMMA CleanupPromise ==
  ASSUME ClientInv, ClientInv', Places, Places', CleanupStep, UNCHANGED help
  PROVE  [Promise!Next]_(Promise!vars)
<1> USE DEF At, Goto, FmtRunning
<1>1. Phase = "closing" /\ UNCHANGED <<keepRunning, retVal>>
      /\ mqtt \in Contexts
  BY DEF CleanupStep, Disconnect, Deinit, CleanupEnd, ReturnEarly, Places,
         ClientInv
<1>2. CASE Disconnect
  <2>1. Phase' = "closing"
    BY <1>2 DEF Disconnect, Places, fmtVars
  <2>2. ~mqtt'.is_connected /\ mqtt'.client = mqtt.client
    BY <1>1, <1>2 DEF Disconnect, TuyaMqttDisconnect, ClientInv, Using,
                      Contexts
  <2>3. CASE mqtt.is_connected
    <3>1. Promise!GoOffline
      BY <1>1, <2>1, <2>2, <2>3 DEF Promise!GoOffline
    <3> QED BY <3>1 DEF Promise!Next
  <2>4. CASE ~mqtt.is_connected
    <3>1. mqtt'.is_connected = mqtt.is_connected
      BY <1>1, <2>2, <2>4 DEF ClientInv, Contexts
    <3> QED BY <1>1, <2>1, <2>2, <3>1 DEF Promise!vars
  <2> QED BY <2>3, <2>4
<1>3. CASE Deinit
  <2>1. Phase' = "closing" /\ ~mqtt.is_connected
    BY <1>3 DEF Deinit, Places, fmtVars, ClientInv
  <2>2. /\ mqtt'.client = FALSE
        /\ mqtt'.is_connected = mqtt.is_connected
    BY <1>1, <1>3 DEF Deinit, TuyaMqttDeinit, Contexts
  <2>3. CASE mqtt.client
    <3>1. Promise!Release
      BY <1>1, <2>1, <2>2, <2>3 DEF Promise!Release
    <3> QED BY <3>1 DEF Promise!Next
  <2>4. CASE mqtt.client = FALSE
    BY <1>1, <2>1, <2>2, <2>4 DEF Promise!vars
  <2> QED BY <1>1, <2>3, <2>4 DEF Contexts
<1>4. CASE CleanupEnd \/ ReturnEarly
  <2>1. ~mqtt.client /\ UNCHANGED mqtt
    BY <1>4 DEF CleanupEnd, ReturnEarly, ClientInv, Early
  <2>2. CASE process' = "exited"
    <3>1. Phase' = "ended"
      BY <2>2 DEF Places
    <3>2. Promise!End
      BY <1>1, <2>1, <3>1 DEF Promise!End
    <3> QED BY <3>2 DEF Promise!Next
  <2>3. CASE process' = "crashed"
    <3>1. Phase' = "killed"
      BY <2>3 DEF Places
    <3>2. Promise!Die
      BY <1>1, <2>1, <3>1 DEF Promise!Die
    <3> QED BY <3>2 DEF Promise!Next
  <2> QED BY <1>4, <2>2, <2>3
       DEF CleanupEnd, ReturnEarly, FreeFormat, FreeDateTimeFormat
<1> QED BY <1>2, <1>3, <1>4 DEF CleanupStep

LEMMA SignalPromise ==
  ASSUME CountInv, PromiseInv, Places, Signal, UNCHANGED help
  PROVE  Promise!Next
<1>1. Phase' = Phase /\ UNCHANGED <<mqtt, retVal>> /\ keepRunning' = 0
  BY DEF Signal, Phase, InConnect, InMainLoop, InLoop, FmtRunning, fmtVars
<1>2. Phase \notin {"ended", "killed"}
  BY DEF Signal, Phase, FmtRunning
<1>3. Promise!Ask
  BY <1>1, <1>2 DEF Promise!Ask
<1> QED BY <1>3 DEF Promise!Next

\* From the command line to the end, every step of the daemon is one that
\* Lifecycle allows, or one that it does not see: status 0 only when it was
\* asked to stop, or for help and then without ever acquiring a client.
THEOREM PromiseKept == Spec => KeepsPromise
<1>1. Init => Promise!Init
  BY DEF Init, FmtInit, Promise!Init, Phase, InConnect, InMainLoop, InLoop,
         FmtRunning, RawContext
<1>2. /\ ClientInv /\ CountInv /\ PromiseInv /\ Places
      /\ ClientInv' /\ Places'
      /\ [Next]_vars
      => [Promise!Next]_(Promise!vars)
  <2> SUFFICES ASSUME ClientInv, CountInv, PromiseInv, Places, ClientInv',
                      Places', [Next]_vars
               PROVE  [Promise!Next]_(Promise!vars)
    OBVIOUS
  <2>0. UNCHANGED help
    BY HelpStays
  <2>1. CASE UNCHANGED vars
    BY <2>1
       DEF vars, threadVars, commandLine, fmtVars, Promise!vars, Phase,
           FmtRunning, InConnect, InMainLoop, InLoop
  <2> QED
    BY <2>0, <2>1, SetUpPromise, ConnectPromise, MainLoopPromise,
       LoopPromise, CleanupPromise, SignalPromise DEF Next, ThreadStep, Over
<1>3. Spec => []PromiseInv
  BY CountInvariant, PromiseInit, PromiseInvStep, PTL DEF Spec
<1>4. Spec => []Places
  BY <1>3, CountInvariant, Phases, PTL
<1> QED
  BY <1>1, <1>2, <1>3, <1>4, CountInvariant, ClientInvariant, PTL
     DEF Spec, KeepsPromise, Promise!Spec
=============================================================================
