--------------------------- MODULE Service_proofs ---------------------------
(***************************************************************************)
(* Which configuration the service runs with, for any number of changes    *)
(* and starts; that the last change is in effect once all are handled; and *)
(* that the daemon accepts what the form writes.                           *)
(***************************************************************************)
EXTENDS Service, TLAPS

-----------------------------------------------------------------------------
(***************************************************************************)
(* The daemon's one look at its options and the script's one look at       *)
(* enabled both go stale with the next change.  Inductive is what is still *)
(* current as long as no change is announced: the script's look until it   *)
(* is used; the daemon's, unless the script is about to stop it; and what  *)
(* procd runs or has noted to start, once the script is done.              *)
(***************************************************************************)
CurrentInv ==
  /\ ~trigger /\ script = "register" => seen = Enabled(config)
  /\ ~trigger /\ script # "stop" /\ instance = "running" =>
       read \in {config, Unread}
  /\ ~trigger /\ script = "idle" /\ (instance = "running" \/ again) =>
       config.enabled = "1"

\* At boot nothing runs and nothing is noted.
LEMMA CurrentInit == Init => CurrentInv
BY DEF Init, CurrentInv

\* No step leaves something stale in use, unless it announces a change.
LEMMA CurrentStep ==
  ASSUME CurrentInv, [Next]_vars
  PROVE  CurrentInv'
<1> USE DEF CurrentInv, configVars, scriptVars, procdVars, daemonVars
<1>1. CASE Edit
  BY <1>1 DEF Edit, Announced
<1>2. CASE Reap
  BY <1>2 DEF Reap, Spawn
<1>3. CASE BeginReload
  BY <1>3 DEF BeginReload
<1>4. CASE BeginStart
  BY <1>4 DEF BeginStart
<1>5. CASE ScriptStop
  <2>1. instance' # "running"
    BY <1>5 DEF ScriptStop, Terminate
  <2>2. script' = "load"
    BY <1>5 DEF ScriptStop
  <2>3. QED
    BY <2>1, <2>2
<1>6. CASE ScriptLoad
  BY <1>6 DEF ScriptLoad, Enabled
<1>7. CASE ScriptRegister
  <2>1. /\ script = "register" /\ script' = "idle"
        /\ UNCHANGED <<config, trigger, seen>>
    BY <1>7 DEF ScriptRegister
  <2>2. CASE seen
    <3>1. Register
      BY <1>7, <2>2 DEF ScriptRegister
    <3>2. ~trigger => config.enabled = "1"
      BY <2>1, <2>2 DEF Enabled
    <3>3. instance' = "running" =>
            read' = Unread \/ (instance = "running" /\ read' = read)
      BY <3>1 DEF Register, Spawn, Terminate
    <3>4. QED
      BY <2>1, <3>2, <3>3
  <2>3. CASE ~seen
    <3>1. instance' # "running" /\ again' = FALSE
      BY <1>7, <2>3 DEF ScriptRegister, Terminate
    <3>2. QED
      BY <2>1, <3>1
  <2>4. QED
    BY <2>2, <2>3
<1>8. CASE ReadConfig
  BY <1>8 DEF ReadConfig
<1>9. CASE Kill \/ DaemonStep \/ Crash
  BY <1>9 DEF Kill, DaemonStep, Crash
<1>10. CASE Idle \/ UNCHANGED vars
  BY <1>10 DEF Idle, vars
<1>11. QED
  BY <1>1, <1>2, <1>3, <1>4, <1>5, <1>6, <1>7, <1>8, <1>9, <1>10 DEF Next

\* However often the file is changed, and wherever the changes find the
\* script, procd and the daemon: when no change is left to be handled, the
\* daemon that runs was enabled and works with what the file says now.
THEOREM WorksWithTheFile == Spec => []RunsCurrent
<1>1. CurrentInv => RunsCurrent
  BY DEF CurrentInv, RunsCurrent, Settled
<1>2. Spec => []CurrentInv
  BY CurrentInit, CurrentStep, PTL DEF Spec
<1>3. QED
  BY <1>1, <1>2, PTL

-----------------------------------------------------------------------------
(***************************************************************************)
(* That changes take effect is liveness, but what they come to is not:     *)
(* nothing is forgotten on the way.  A start that finds the old process    *)
(* stopping is noted, and only then; a start that is not noted has been    *)
(* made, with what the file says.                                          *)
(***************************************************************************)
EffectInv ==
  /\ instance \in {"none", "running", "stopping"} /\ again \in BOOLEAN
  /\ again => instance = "stopping"
  /\ ~trigger /\ script = "idle" /\ config.enabled = "1" =>
       again \/ spawned = config

\* At boot the script is still to run.
LEMMA EffectInit == Init => EffectInv
BY DEF Init, EffectInv

\* Only the script registers, and only the end of a process uses the note.
LEMMA EffectStep ==
  ASSUME CurrentInv, EffectInv, [Next]_vars
  PROVE  EffectInv'
<1> USE DEF EffectInv, configVars, scriptVars, procdVars
<1>1. CASE Edit
  BY <1>1 DEF Edit, Announced
<1>2. CASE Reap
  BY <1>2 DEF Reap, Spawn
<1>3. CASE BeginReload \/ BeginStart \/ ScriptLoad
  BY <1>3 DEF BeginReload, BeginStart, ScriptLoad
<1>4. CASE ScriptStop
  BY <1>4 DEF ScriptStop, Terminate
<1>5. CASE ScriptRegister
  <2>1. script = "register" /\ UNCHANGED <<config, trigger>>
    BY <1>5 DEF ScriptRegister
  <2>2. CASE seen
    <3>1. /\ instance' \in {"none", "running", "stopping"} /\ again' \in BOOLEAN
          /\ again' => instance' = "stopping"
          /\ again' \/ spawned' = config
      BY <1>5, <2>2 DEF ScriptRegister, Register, Spawn, Terminate
    <3>2. QED
      BY <2>1, <3>1
  <2>3. CASE ~seen
    <3>1. instance' \in {"none", "stopping"} /\ again' = FALSE
      BY <1>5, <2>3 DEF ScriptRegister, Terminate
    <3>2. ~trigger => config.enabled # "1"
      BY <2>1, <2>3 DEF CurrentInv, Enabled
    <3>3. QED
      BY <2>1, <3>1, <3>2
  <2>4. QED
    BY <2>2, <2>3
<1>6. CASE ReadConfig \/ Kill \/ DaemonStep \/ Crash
  BY <1>6 DEF ReadConfig, Kill, DaemonStep, Crash
<1>7. CASE Idle \/ UNCHANGED vars
  BY <1>7 DEF Idle, vars
<1>8. QED
  BY <1>1, <1>2, <1>3, <1>4, <1>5, <1>6, <1>7 DEF Next

\* Whenever the announced changes have been handled and nothing is being
\* stopped, the last one is in effect: an enabled daemon was started with what
\* the file says, a disabled one is gone.  EditsTakeEffect adds that it comes
\* to this.
THEOREM SettledTookEffect ==
  Spec => [](Settled => IF config.enabled = "1" THEN spawned = config
                        ELSE instance = "none")
<1>1. CurrentInv /\ EffectInv =>
        (Settled => IF config.enabled = "1" THEN spawned = config
                    ELSE instance = "none")
  BY DEF CurrentInv, EffectInv, Settled
<1>2. Spec => [](CurrentInv /\ EffectInv)
  BY CurrentInit, CurrentStep, EffectInit, EffectStep, PTL DEF Spec
<1>3. QED
  BY <1>1, <1>2, PTL

-----------------------------------------------------------------------------
(***************************************************************************)
(* What the form writes, the daemon accepts.                               *)
(***************************************************************************)
\* The level is always one of the form's, and what the daemon has read is
\* acceptable if the identifiers are there.
AcceptInv ==
  /\ config \in [enabled : {"absent", "0", "1"},
                 autostart : {"absent", "0", "1"},
                 ids : BOOLEAN, level : FormLevels]
  /\ read.ids => OptionsAccepted(Entries(read))

\* Every level of the form is a digit that main accepts.
LEMMA LevelsAccepted ==
  ASSUME NEW c, c.ids, c.level \in FormLevels
  PROVE  OptionsAccepted(Entries(c))
<1> DEFINE e == Entries(c)
           byte == 48 + c.level
<1>1. byte \in 48 .. 55
  BY DEF FormLevels
<1>2. e["log_level"] = Lookup("complete", "string", <<byte>>)
  BY DEF Entries, OptionNames
<1>3. \A name \in OptionNames \ {"log_level"} :
        e[name] = Lookup("complete", "string", <<120>>)
  BY DEF Entries, OptionNames
<1> HIDE DEF e, byte
<1>4. \A name \in OptionNames : UciGetOption(e[name]) # Null
  <2>1. <<byte>>[1] # <<256>>[1] /\ <<120>>[1] # <<256>>[1]
    BY <1>1
  <2>2. <<byte>> # Null /\ <<120>> # Null
    BY <2>1 DEF Null
  <2>3. UciGetOption(e["log_level"]) # Null
    BY <1>2, <2>2 DEF UciGetOption, UciCheckSuccess, Lookup
  <2>4. \A name \in OptionNames \ {"log_level"} : UciGetOption(e[name]) # Null
    <3>1. TAKE name \in OptionNames \ {"log_level"}
    <3>2. e[name] = Lookup("complete", "string", <<120>>)
      BY <1>3
    <3>3. QED
      BY <2>2, <3>2 DEF UciGetOption, UciCheckSuccess, Lookup
  <2>5. QED
    BY <2>3, <2>4
<1>5. e["log_level"].value = <<byte>>
  BY <1>2 DEF Lookup
<1>6. IsDigit(<<byte>>) /\ LevelAccepted(DigitOf(<<byte>>))
  BY <1>1 DEF IsDigit, LevelAccepted, DigitOf
<1>7. QED
  BY <1>4, <1>5, <1>6 DEF OptionsAccepted, e

\* The installed file has an acceptable level, and nothing was read.
LEMMA AcceptInit == Init => AcceptInv
BY DEF Init, AcceptInv, Installed, Unread, FormLevels

\* The form writes its own levels only; the daemon reads what is there.
LEMMA AcceptStep ==
  ASSUME AcceptInv, [Next]_vars
  PROVE  AcceptInv'
<1> USE DEF configVars, scriptVars, procdVars, daemonVars
<1>1. CASE Edit
  BY <1>1, LevelsAssumption DEF Edit, SaveForm, SetEnabled, AcceptInv
<1>2. CASE ReadConfig
  <2>1. read' = config /\ config' = config
    BY <1>2 DEF ReadConfig
  <2>2. config.level \in FormLevels
    BY DEF AcceptInv
  <2>3. config.ids => OptionsAccepted(Entries(config))
    BY <2>2, LevelsAccepted
  <2>4. QED
    BY <2>1, <2>3 DEF AcceptInv
<1>3. CASE UNCHANGED config /\ (read' = read \/ read' = Unread)
  BY <1>3 DEF AcceptInv, Unread
<1>4. CASE Reap
  BY <1>3, <1>4 DEF Reap, Spawn
<1>5. CASE ScriptStop \/ ScriptLoad \/ ScriptRegister
  BY <1>3, <1>5
     DEF ScriptStop, ScriptLoad, ScriptRegister, Register, Spawn, Terminate
<1>6. CASE BeginReload \/ BeginStart
  BY <1>3, <1>6 DEF BeginReload, BeginStart
<1>7. CASE Kill \/ DaemonStep \/ Crash \/ Idle \/ UNCHANGED vars
  BY <1>3, <1>7 DEF Kill, DaemonStep, Crash, Idle, vars
<1>8. QED
  BY <1>1, <1>2, <1>4, <1>5, <1>6, <1>7 DEF Next

\* Whatever is chosen in the form, the daemon does not refuse to start with
\* it, unless an identifier was left empty.
THEOREM FormIsAccepted == Spec => []FormAccepted
<1>1. AcceptInv => FormAccepted
  BY DEF AcceptInv, FormAccepted
<1>2. Spec => []AcceptInv
  BY AcceptInit, AcceptStep, PTL DEF Spec
<1>3. QED
  BY <1>1, <1>2, PTL
=============================================================================
