----------------------------- MODULE DateFormat -----------------------------
(***************************************************************************)
(* connection.c of the desktop daemon: the date format, which is a literal *)
(* until the cloud sets another and a string taken over from a parsed      *)
(* message from then on, and the time report built around what strftime    *)
(* makes of it in a buffer of fixed size.                                  *)
(*                                                                         *)
(* A string is the block of memory it lives in, and the allocator may hand *)
(* out a freed block again.  A text is what strftime can make of it: the   *)
(* set of lengths it may render to, which varies with the date and locale. *)
(***************************************************************************)
EXTENDS Integers

CONSTANTS
  Strings,    \* blocks the allocator has for strings
  Literal,    \* the block of "%F %T%z"
  Texts,      \* sets of lengths: what the cloud may set as a format
  BufSize,    \* 200 in the code: sizeof(buf)
  Prefix      \* 9 in the code: the length of {"time":"

ASSUME LiteralAssumption == Literal \notin Strings
ASSUME TextsAssumption == Texts \subseteq (SUBSET Nat) \ {{}}
ASSUME SizesAssumption ==
  BufSize \in Nat /\ Prefix \in Nat /\ Prefix + 3 <= BufSize

VARIABLES
  format,    \* date_time_format, and date_time_format_should_free
  live,      \* the allocated strings
  report,    \* history: the last send_current_time
  data,      \* history: the data of the last PROPERTY_SET
  process

fmtVars == <<format, live, report, data, process>>

Formats == [string : Strings \cup {Literal}, text : SUBSET Nat,
            should_free : BOOLEAN]

\* "%F %T%z": 24 characters.
LiteralText == {24}

\* The data of a PROPERTY_SET: missing or not to be parsed; an array; without
\* a child; the first child has another name; it is no string; a format.
Shapes == {"unparsable", "array", "childless", "unknown", "no_string", "format"}

\* length: what get_time_string returned; rendered: what the text came to; end: the
\* last index of buf that was written; ret: what send_current_time returned.
Reports == [length   : -3 .. BufSize - Prefix,
            rendered : Nat,
            end      : Nat,
            ret      : {0, -1, -2, -3}]

NoReport == [length |-> -1, rendered |-> 0, end |-> 0, ret |-> -1]

FmtInit ==
  /\ format = [string |-> Literal, text |-> LiteralText, should_free |-> FALSE]
  /\ live = {} /\ report = NoReport /\ data = "childless"
  /\ process = "running"

FmtRunning == process = "running"

(***************************************************************************)
(* PROPERTY_SET.                                                           *)
(***************************************************************************)
\* Mutant: the old format is freed whoever owns it.
FreedAlways == {format.string}

\* What set_date_time_format and free_date_time_format free.
FreedOld == IF format.should_free THEN {format.string} ELSE {}

\* Mutant: valuestring is not set to NULL, cJSON_Delete frees the new format.
TreeUndetached(s) == {s}

\* The string that cJSON_Delete frees after the format was taken over.
TreeFreed(s) == {}

\* Dereferenced without a check: the parsed document, the name of its child.
Harmful == {"unparsable", "array"}

\* full_data is NULL, or data->string is NULL in strcmp.
PropertySetCrashes ==
  /\ FmtRunning
  /\ data' \in Harmful
  /\ process' = "crashed"
  /\ UNCHANGED <<format, live, report>>

\* Any other content: the parsed strings are freed with the document.
PropertySetRefused ==
  /\ FmtRunning
  /\ data' \in Shapes \ (Harmful \cup {"format"})
  /\ UNCHANGED <<format, live, report, process>>

\* set_date_time_format, then valuestring = NULL and cJSON_Delete.  Freeing
\* what is not allocated kills the process.
SetDateTimeFormat ==
  /\ FmtRunning
  /\ data' = "format"
  /\ \E s \in Strings \ live, text \in Texts :
       /\ format' = [string |-> s, text |-> text, should_free |-> TRUE]
       /\ live' = ((live \cup {s}) \ FreedOld) \ TreeFreed(s)
  /\ process' = IF FreedOld \subseteq live THEN "running" ELSE "crashed"
  /\ UNCHANGED report

(***************************************************************************)
(* send_current_time.                                                      *)
(***************************************************************************)
\* strftime into what the prefix leaves of buf: 0 when the n characters and
\* the terminator do not fit, the same as for a text that renders to nothing.
Strftime(n) == IF n + 1 > BufSize - Prefix THEN 0 ELSE n

\* Mutants: > for >=; one character more than is needed.
TooLongBut(length) == Prefix + length + 2 > BufSize
TooLongEarly(length) == Prefix + length + 3 >= BufSize

\* No room for the quote, the brace and the terminator.
TooLong(length) == Prefix + length + 2 >= BufSize

\* get_time_string fails: no time, no local time, or nothing rendered.
NoTime(n) ==
  \E length \in {-1, -2} \cup (IF Strftime(n) = 0 THEN {-3} ELSE {}) :
    report' = [length |-> length, rendered |-> n, end |-> Prefix, ret |-> -1]

\* strftime has written its terminator, the message is not finished.
Refused(n) ==
  /\ Strftime(n) # 0 /\ TooLong(Strftime(n))
  /\ report' = [length |-> Strftime(n), rendered |-> n,
                end |-> Prefix + Strftime(n), ret |-> -2]

\* Without an open session the SDK has nowhere to publish to.
Published(n, sessionOpen) ==
  /\ Strftime(n) # 0 /\ ~TooLong(Strftime(n))
  /\ \E ret \in IF sessionOpen THEN {0, -3} ELSE {-3} :
       report' = [length |-> Strftime(n), rendered |-> n,
                  end |-> Prefix + Strftime(n) + 2, ret |-> ret]

\* Called from the main loop and from on_connected.
SendCurrentTime(sessionOpen) ==
  /\ FmtRunning
  /\ \E n \in format.text :
       NoTime(n) \/ Refused(n) \/ Published(n, sessionOpen)
  /\ UNCHANGED <<format, live, data, process>>

\* Clean-up, the last thing main does.
FreeDateTimeFormat ==
  /\ FmtRunning
  /\ live' = live \ FreedOld
  /\ process' = IF FreedOld \subseteq live THEN "exited" ELSE "crashed"
  /\ UNCHANGED <<format, report, data>>

FmtOver == ~FmtRunning /\ UNCHANGED fmtVars

FmtNext ==
  \/ PropertySetCrashes \/ PropertySetRefused \/ SetDateTimeFormat
  \/ \E sessionOpen \in BOOLEAN : SendCurrentTime(sessionOpen)
  \/ FreeDateTimeFormat
  \/ FmtOver

FmtSpec == FmtInit /\ [][FmtNext]_fmtVars

-----------------------------------------------------------------------------
\* Every variable stays in its type, and a length is what fits behind the
\* prefix.
FmtTypeOK ==
  /\ format \in Formats
  /\ live \subseteq Strings
  /\ report \in Reports
  /\ data \in Shapes
  /\ process \in {"running", "exited", "crashed"}

\* connection.c:11: the flag is set for a malloc'ed string.  At any time the
\* daemon holds exactly the string it is responsible for: the format in use
\* is not freed, by cJSON_Delete either, and none that it replaced is left.
OwnedByOneSide ==
  FmtRunning =>
    /\ live = FreedOld
    /\ format.should_free <=> format.string # Literal

\* Only data that is missing or has no named child kills the daemon: no order
\* of messages, reports and the end makes it free a string twice, or the
\* literal.
DiesOfDataOnly == process = "crashed" => data \in {"unparsable", "array"}

\* Nothing is left allocated when main returns.
FreedAtEnd == process = "exited" => live = {}

\* No index of buf beyond its end is written, at any length of the time.
FitsBuffer == report.end < BufSize

\* A report that is refused for its length would not have fitted: the quote,
\* the brace and the terminator take three characters.
RefusedForLength ==
  report.ret = -2 \/ report.length = -3 =>
    report.rendered = 0 \/ Prefix + report.rendered + 3 > BufSize
=============================================================================
