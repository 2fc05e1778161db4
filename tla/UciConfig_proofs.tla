-------------------------- MODULE UciConfig_proofs --------------------------
(***************************************************************************)
(* UciConfig, proved for every set of lookup results: values of any length *)
(* and any bytes.                                                          *)
(***************************************************************************)
EXTENDS UciConfig, TLAPS

-----------------------------------------------------------------------------
\* What uci_get_option finds is NULL exactly when the lookup was no full
\* success with a string; no string is mistaken for NULL.
LEMMA NullOrValue ==
  ASSUME NEW e \in Entries
  PROVE  IF e.outcome = "complete" /\ e.type = "string"
         THEN UciGetOption(e) = e.value /\ UciGetOption(e) # Null
         ELSE UciGetOption(e) = Null
<1>1. e.value \in Seq(Chars)
  BY EntriesAssumption
<1>2. e.value # Null
  <2>1. Null[1] = 256 /\ Len(Null) = 1
    BY DEF Null
  <2>2. ASSUME Len(e.value) = 1 PROVE e.value[1] \in Chars
    BY <1>1, <2>2
  <2>3. QED
    BY <2>1, <2>2 DEF Chars
<1>3. QED
  BY <1>2 DEF UciGetOption, UciCheckSuccess

\* A char is a number.
LEMMA CharIsNumber == \A c \in Chars : c \in Int
BY DEF Chars

\* A digit that is accepted is a level, and it is what was written.
LEMMA DigitIsLevel ==
  ASSUME NEW str \in Seq(Chars), IsDigit(str), LevelAccepted(DigitOf(str))
  PROVE  DigitOf(str) \in LogPriorities /\ str = <<48 + DigitOf(str)>>
<1>1. Len(str) = 1 /\ str[1] \in Chars
  BY DEF IsDigit
<1>2. DigitOf(str) \in LogPriorities /\ 48 + DigitOf(str) = str[1]
  <2>1. str[1] \in Int
    BY <1>1, CharIsNumber
  <2>2. str[1] >= 48 /\ ~(str[1] - 48 > 7)
    BY DEF IsDigit, LevelAccepted, DigitOf
  <2>3. QED
    BY <2>1, <2>2 DEF DigitOf, LogPriorities
<1>3. str = <<str[1]>>
  BY <1>1
<1>4. QED
  BY <1>2, <1>3

\* Conversely, every level that is written as one digit is accepted.
LEMMA LevelIsDigit ==
  ASSUME NEW d \in LogPriorities
  PROVE  IsDigit(<<48 + d>>) /\ LevelAccepted(DigitOf(<<48 + d>>))
BY DEF LogPriorities, IsDigit, LevelAccepted, DigitOf

-----------------------------------------------------------------------------
(***************************************************************************)
(* The values read so far are those of the first options of Order, and a   *)
(* decision is made on all four of them.                                   *)
(***************************************************************************)
ReadSoFar ==
  /\ values \in Seq(Seq(Int))
  /\ Len(values) <= 4
  /\ \A i \in 1 .. Len(values) : values[i] = UciGetOption(entries[Order[i]])

ConfigInv ==
  /\ entries \in [OptionNames -> Entries]
  /\ ReadSoFar
  /\ outcome \in {"reading", "accepted", "refused"}
  /\ outcome = "accepted" =>
       /\ OptionsAccepted(entries)
       /\ level = DigitOf(entries["log_level"].value)
  /\ outcome = "refused" => ~OptionsAccepted(entries)

\* Nothing is read initially.
LEMMA ConfigInit == Init => ConfigInv
BY DEF Init, ConfigInv, ReadSoFar

\* When all four are read, main's checks of the values are OptionsAccepted of
\* the entries.
LEMMA ChecksAgree ==
  ASSUME ConfigInv, Len(values) = Len(Order)
  PROVE  /\ OptionsAccepted(entries) <=>
              ~Missing /\ IsDigit(values[4]) /\ LevelAccepted(DigitOf(values[4]))
         /\ ~Missing => values[4] = entries["log_level"].value
<1>1. /\ Len(values) = 4
      /\ values[1] = UciGetOption(entries["device_id"])
      /\ values[2] = UciGetOption(entries["device_secret"])
      /\ values[3] = UciGetOption(entries["product_id"])
      /\ values[4] = UciGetOption(entries["log_level"])
  BY DEF ConfigInv, ReadSoFar, Order
<1>2. Missing <=> \E name \in OptionNames : UciGetOption(entries[name]) = Null
  BY <1>1 DEF Missing, OptionNames
<1>3. ~Missing => values[4] = entries["log_level"].value
  <2>1. entries["log_level"] \in Entries /\ "log_level" \in OptionNames
    BY DEF ConfigInv, OptionNames
  <2>2. QED
    BY <1>1, <1>2, <2>1, NullOrValue
<1>4. QED
  BY <1>2, <1>3 DEF OptionsAccepted

\* Every step of the set-up keeps the invariant.
LEMMA ConfigStep ==
  ASSUME ConfigInv, [Next]_vars
  PROVE  ConfigInv'
<1>1. CASE GetOption
  <2> DEFINE n == Len(values) + 1
             value == UciGetOption(entries[Order[n]])
  <2>1. values \in Seq(Seq(Int)) /\ n \in 1 .. 4 /\ values' = Append(values, value)
    BY <1>1 DEF GetOption, ConfigInv, ReadSoFar, Order
  <2>2. value \in Seq(Int)
    <3>1. Order[n] \in OptionNames
      BY <2>1 DEF Order, OptionNames
    <3>2. entries[Order[n]] \in Entries
      BY <3>1 DEF ConfigInv
    <3>3. Null \in Seq(Int)
      BY DEF Null
    <3>4. entries[Order[n]].value \in Seq(Int)
      <4>1. entries[Order[n]].value \in Seq(Chars)
        BY <3>2, EntriesAssumption
      <4>2. QED
        BY <4>1, CharIsNumber
    <3>5. QED
      BY <3>2, <3>3, <3>4, NullOrValue
  <2> HIDE DEF value
  <2>3. /\ values' \in Seq(Seq(Int)) /\ Len(values') = n
        /\ values'[n] = value
        /\ \A i \in 1 .. Len(values) : values'[i] = values[i]
    BY <2>1, <2>2
  <2>4. ReadSoFar'
    BY <1>1, <2>1, <2>3 DEF GetOption, ConfigInv, ReadSoFar, value
  <2>5. QED
    BY <1>1, <2>4 DEF GetOption, ConfigInv
<1>2. CASE RefuseMissing
  BY <1>2, ChecksAgree DEF RefuseMissing, ConfigInv, ReadSoFar
<1>3. CASE RefuseLevel
  BY <1>3, ChecksAgree DEF RefuseLevel, ConfigInv, ReadSoFar
<1>4. CASE SetLogMask
  BY <1>4, ChecksAgree DEF SetLogMask, ConfigInv, ReadSoFar
<1>5. CASE Finished \/ UNCHANGED vars
  BY <1>5 DEF Finished, vars, ConfigInv, ReadSoFar
<1>6. QED
  BY <1>1, <1>2, <1>3, <1>4, <1>5 DEF Next

\* The invariant, for the theorems.
LEMMA ConfigInvariant == Spec => []ConfigInv
BY ConfigInit, ConfigStep, PTL DEF Spec

-----------------------------------------------------------------------------
\* Read one after the other and checked in main's order, the options decide
\* exactly as Daemon has it, which takes all of this as one step.
THEOREM DecidesAtOnce ==
  Spec => [](outcome # "reading" =>
               (outcome = "accepted" <=> OptionsAccepted(entries)))
<1>1. ConfigInv => (outcome # "reading" =>
                      (outcome = "accepted" <=> OptionsAccepted(entries)))
  BY DEF ConfigInv
<1>2. QED
  BY <1>1, ConfigInvariant, PTL

\* Whatever the option holds, the level that setlogmask gets is an index of
\* log_priorities, and the digit that was written.
THEOREM LevelInRange == Spec => []LevelIsIndex
<1>1. ASSUME ConfigInv, outcome = "accepted"
      PROVE  /\ level \in LogPriorities
             /\ entries["log_level"].value = <<48 + level>>
  <2>1. /\ OptionsAccepted(entries)
        /\ level = DigitOf(entries["log_level"].value)
    BY <1>1 DEF ConfigInv
  <2>2. entries["log_level"].value \in Seq(Chars)
    BY <1>1, EntriesAssumption DEF ConfigInv, OptionNames
  <2>3. QED
    BY <2>1, <2>2, DigitIsLevel DEF OptionsAccepted
<1>2. ConfigInv => LevelIsIndex
  BY <1>1 DEF LevelIsIndex
<1>3. QED
  BY <1>2, ConfigInvariant, PTL

\* And no daemon stays down whose options are all there and whose level is
\* one of "0" to "7".
THEOREM RefusalHasReason == Spec => []RefusedForAReason
<1>1. ASSUME ConfigInv, outcome = "refused",
             \A n \in OptionNames :
               entries[n].outcome = "complete" /\ entries[n].type = "string",
             NEW d \in LogPriorities, entries["log_level"].value = <<48 + d>>
      PROVE  FALSE
  <2>1. \A n \in OptionNames : UciGetOption(entries[n]) # Null
    BY <1>1, NullOrValue DEF ConfigInv
  <2>2. OptionsAccepted(entries)
    BY <1>1, <2>1, LevelIsDigit DEF OptionsAccepted
  <2>3. QED
    BY <1>1, <2>2 DEF ConfigInv
<1>2. ConfigInv => RefusedForAReason
  BY <1>1 DEF RefusedForAReason
<1>3. QED
  BY <1>2, ConfigInvariant, PTL
=============================================================================
