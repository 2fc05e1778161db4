----------------------------- MODULE UciOptions -----------------------------
(***************************************************************************)
(* The options the OpenWrt daemon reads from UCI (args.c) and what main    *)
(* accepts of them.  A value is the sequence of its bytes.                 *)
(***************************************************************************)
EXTENDS Integers, Sequences

OptionNames == {"device_id", "device_secret", "product_id", "log_level"}

\* The result of uci_lookup_ptr for one option.  partial: another error, or
\* a pointer without UCI_LOOKUP_COMPLETE.
Lookup(outcome, type, value) ==
  [outcome |-> outcome, type |-> type, value |-> value]

\* A char, signed or unsigned as the target has it.
Chars == -128 .. 255

\* uci_get_option returns NULL, which is no string.
Null == <<256>>

UciCheckSuccess(entry) == entry.outcome = "complete"

UciGetOption(entry) ==
  IF UciCheckSuccess(entry) /\ entry.type = "string" THEN entry.value
  ELSE Null

\* Mutant: '0' does not pass for a digit.
IsDigitPositive(str) == Len(str) = 1 /\ str[1] > 48 /\ str[1] <= 57

\* str_to_digit: exactly one character, '0' (48) to '9' (57).
IsDigit(str) == Len(str) = 1 /\ str[1] >= 48 /\ str[1] <= 57

DigitOf(str) == str[1] - 48

LogPriorities == 0 .. 7    \* indexes of log_priorities

\* Mutant: every digit passes for a level.
AnyLevel(level) == TRUE

LevelAccepted(level) == ~(level > 7)

\* main goes on to init_connections.
OptionsAccepted(entries) ==
  /\ \A name \in OptionNames : UciGetOption(entries[name]) # Null
  /\ IsDigit(entries["log_level"].value)
  /\ LevelAccepted(DigitOf(entries["log_level"].value))
=============================================================================
