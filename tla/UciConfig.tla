----------------------------- MODULE UciConfig -----------------------------
(***************************************************************************)
(* main's set-up from the first option to setlogmask: the four lookups in  *)
(* their order, the checks, and the log level as an index of               *)
(* log_priorities.  Daemon takes it as one step; here it is taken apart.   *)
(***************************************************************************)
EXTENDS UciOptions

CONSTANT Entries    \* what a lookup of one option may find
ASSUME EntriesAssumption ==
  \A e \in Entries :
    DOMAIN e = {"outcome", "type", "value"} /\ e.value \in Seq(Chars)

VARIABLES
  entries,    \* the configuration, by option
  values,     \* what uci_get_option returned so far
  level,      \* log_level, -1 while it is not assigned
  outcome     \* reading, accepted or refused

vars == <<entries, values, level, outcome>>

Order == <<"device_id", "device_secret", "product_id", "log_level">>

Init ==
  /\ entries \in [OptionNames -> Entries]
  /\ values = <<>> /\ level = -1 /\ outcome = "reading"

\* All four options are looked up, even after one was missing.
GetOption ==
  /\ outcome = "reading" /\ Len(values) < Len(Order)
  /\ values' = Append(values, UciGetOption(entries[Order[Len(values) + 1]]))
  /\ UNCHANGED <<entries, level, outcome>>

Missing == \E i \in 1 .. Len(values) : values[i] = Null

RefuseMissing ==
  /\ outcome = "reading" /\ Len(values) = Len(Order) /\ Missing
  /\ outcome' = "refused"
  /\ UNCHANGED <<entries, values, level>>

\* str_to_digit assigns the level only when it is a digit.
RefuseLevel ==
  /\ outcome = "reading" /\ Len(values) = Len(Order) /\ ~Missing
  /\ \/ ~IsDigit(values[4]) /\ UNCHANGED level
     \/ /\ IsDigit(values[4]) /\ level' = DigitOf(values[4])
        /\ ~LevelAccepted(level')
  /\ outcome' = "refused"
  /\ UNCHANGED <<entries, values>>

SetLogMask ==
  /\ outcome = "reading" /\ Len(values) = Len(Order) /\ ~Missing
  /\ IsDigit(values[4]) /\ LevelAccepted(DigitOf(values[4]))
  /\ level' = DigitOf(values[4])
  /\ outcome' = "accepted"
  /\ UNCHANGED <<entries, values>>

Finished == outcome # "reading" /\ UNCHANGED vars

Next == GetOption \/ RefuseMissing \/ RefuseLevel \/ SetLogMask \/ Finished

Spec == Init /\ [][Next]_vars

-----------------------------------------------------------------------------
\* setlogmask reads log_priorities at the level: it never reads outside the
\* array, and the level is the one decimal digit the user wrote.
LevelIsIndex ==
  outcome = "accepted" =>
    /\ level \in LogPriorities
    /\ entries["log_level"].value = <<48 + level>>

\* An option set is refused only for a reason: some option is absent, not
\* fully resolved or a list, or the level is not one of "0" to "7".
RefusedForAReason ==
  outcome = "refused" =>
    \/ \E n \in OptionNames : entries[n].outcome # "complete"
                              \/ entries[n].type # "string"
    \/ entries["log_level"].value \notin {<<48 + d>> : d \in LogPriorities}
=============================================================================
