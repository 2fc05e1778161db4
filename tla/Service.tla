------------------------------- MODULE Service -------------------------------
(***************************************************************************)
(* The OpenWrt service around the daemon: the init script tuya.init, the   *)
(* configuration tuya.config, and the web form tuya_model.lua that edits   *)
(* it.  procd is external: it keeps one process per service, stops one     *)
(* with SIGTERM and after five seconds with SIGKILL, starts a new one when *)
(* the old one has ended, and runs "reload" for an announced change of the *)
(* configuration.  The daemon itself is what Lifecycle promises of it.     *)
(***************************************************************************)
EXTENDS UciOptions

CONSTANTS
  Levels,       \* the log levels of the form that are tried
  MaxEdits,     \* bound: changes of the configuration
  MaxStarts     \* bound: starts by hand or at boot

\* log_level:value("0", ...) to ("7", ...).
FormLevels == 0 .. 7
ASSUME LevelsAssumption == Levels \subseteq FormLevels
ASSUME EditsAssumption == MaxEdits \in Nat /\ MaxStarts \in Nat

VARIABLES
  config,     \* /etc/config/tuya
  edits,      \* counts its changes
  trigger,    \* a change is announced, the reload has not begun
  script,     \* idle, or where /etc/init.d/tuya is
  seen,       \* enabled, as start_service read it
  starts,     \* counts the starts
  instance,   \* none, running or stopping: what procd has of the daemon
  again,      \* start it anew when it has ended
  spawned,    \* history: the configuration when it was started
  read,       \* history: the configuration it read, or Unread
  phase, asked, client, online, status    \* the daemon, see Lifecycle

daemonVars == <<phase, asked, client, online, status>>
scriptVars == <<script, seen, starts>>
configVars == <<config, edits>>
procdVars == <<instance, again, spawned>>
vars == <<configVars, trigger, scriptVars, procdVars, read, daemonVars>>

TheDaemon == INSTANCE Lifecycle
  WITH Failures <- {1, -1, -2}, ServesOffline <- FALSE, informs <- FALSE

\* A configuration has four parts: the flags enabled and autostart, ids and
\* level.  ids: device_id, device_secret and product_id are there; an
\* emptied field of the form removes its option.
Unread == [enabled |-> "absent", autostart |-> "absent", ids |-> FALSE,
           level |-> 8]

\* tuya.config as it is installed.
Installed == [enabled |-> "1", autostart |-> "absent", ids |-> TRUE,
              level |-> 7]

\* The options as the daemon looks them up.
Entries(c) ==
  [name \in OptionNames |->
     IF name = "log_level" THEN Lookup("complete", "string", <<48 + c.level>>)
     ELSE IF c.ids THEN Lookup("complete", "string", <<120>>)
     ELSE Lookup("notfound", "none", <<>>)]

Alive == phase \notin {"ended", "killed"}

\* At boot the script is about to start the service.
Init ==
  /\ config = Installed /\ edits = 0 /\ trigger = FALSE
  /\ script = "load" /\ seen = FALSE /\ starts = 0
  /\ instance = "none" /\ again = FALSE /\ spawned = Unread /\ read = Unread
  /\ phase = "ended" /\ asked = FALSE
  /\ client = FALSE /\ online = FALSE /\ status = 0

(***************************************************************************)
(* Changes of the configuration, each of them announced.                   *)
(***************************************************************************)
\* The form writes its own options, the flags also when they are off
\* (rmempty); it does not know enabled.
SaveForm ==
  \E autostart \in {"0", "1"}, ids \in BOOLEAN, level \in Levels :
    config' = [config EXCEPT !.autostart = autostart, !.ids = ids,
                             !.level = level]

\* uci set, commit and reload_config on the command line.
SetEnabled ==
  \E enabled \in {"absent", "0", "1"} :
    config' = [config EXCEPT !.enabled = enabled]

\* Mutant: service_triggers registers nothing.
Unannounced == FALSE

\* procd_add_reload_trigger.
Announced == TRUE

Edit ==
  /\ edits < MaxEdits
  /\ SaveForm \/ SetEnabled
  /\ edits' = edits + 1
  /\ trigger' = Announced
  /\ UNCHANGED <<scriptVars, procdVars, read, daemonVars>>

(***************************************************************************)
(* procd.                                                                  *)
(***************************************************************************)
Spawn ==
  /\ instance' = "running" /\ again' = FALSE
  /\ spawned' = config /\ read' = Unread
  /\ phase' = "setup" /\ asked' = FALSE
  /\ client' = FALSE /\ online' = FALSE /\ status' = 0

\* SIGTERM; then to start anew when it has ended, or not.
Terminate(restart) ==
  /\ instance' = IF instance = "none" THEN "none" ELSE "stopping"
  /\ again' = (restart /\ instance # "none")
  /\ asked' = (asked \/ (instance # "none" /\ Alive))
  /\ UNCHANGED <<spawned, read, phase, client, online, status>>

\* service set with an instance: the parameter file restarts one that was
\* started with another content of the configuration.
Register ==
  CASE instance = "none" -> Spawn
    [] instance = "stopping" ->
         again' = TRUE /\ UNCHANGED <<instance, spawned, read, daemonVars>>
    [] OTHER ->
         IF spawned = config THEN UNCHANGED <<procdVars, read, daemonVars>>
         ELSE Terminate(TRUE)

\* The process is over.  There is no respawn: it is started anew only when a
\* start came in between.
Reap ==
  /\ instance # "none" /\ ~Alive
  /\ IF again THEN Spawn
     ELSE instance' = "none" /\ UNCHANGED <<again, spawned, read, daemonVars>>
  /\ UNCHANGED <<configVars, trigger, scriptVars>>

\* SIGKILL after five seconds.
Kill ==
  /\ instance = "stopping"
  /\ TheDaemon!Die
  /\ UNCHANGED <<configVars, trigger, scriptVars, procdVars, read>>

(***************************************************************************)
(* tuya.init, one invocation at a time.                                    *)
(***************************************************************************)
\* procd runs reload_service: stop, then start.
BeginReload ==
  /\ script = "idle" /\ trigger
  /\ script' = "stop" /\ trigger' = FALSE
  /\ UNCHANGED <<configVars, seen, starts, procdVars, read, daemonVars>>

BeginStart ==
  /\ script = "idle" /\ starts < MaxStarts
  /\ script' = "load" /\ starts' = starts + 1
  /\ UNCHANGED <<configVars, trigger, seen, procdVars, read, daemonVars>>

ScriptStop ==
  /\ script = "stop"
  /\ Terminate(FALSE)
  /\ script' = "load"
  /\ UNCHANGED <<configVars, trigger, seen, starts>>

\* Mutant: the default is 1.
EnabledUnlessOff(c) == c.enabled # "0"

\* config_get, which defaults to 0; [ "$enabled" -eq 1 ].
Enabled(c) == c.enabled = "1"

ScriptLoad ==
  /\ script = "load"
  /\ seen' = Enabled(config)
  /\ script' = "register"
  /\ UNCHANGED <<configVars, trigger, starts, procdVars, read, daemonVars>>

\* What start_service described is handed to procd: one instance, or none,
\* which removes the one there was.
ScriptRegister ==
  /\ script = "register"
  /\ IF seen THEN Register ELSE Terminate(FALSE)
  /\ script' = "idle"
  /\ UNCHANGED <<configVars, trigger, seen, starts>>

Script == BeginReload \/ ScriptStop \/ ScriptLoad \/ ScriptRegister

(***************************************************************************)
(* The daemon.                                                             *)
(***************************************************************************)
\* main reads all of its options at once, and gives up when it must.
ReadConfig ==
  /\ phase = "setup" /\ read = Unread
  /\ read' = config
  /\ IF OptionsAccepted(Entries(config)) THEN UNCHANGED daemonVars
     ELSE TheDaemon!GiveUp /\ status' = 1
  /\ UNCHANGED <<configVars, trigger, scriptVars, procdVars>>

DaemonStep ==
  /\ read # Unread
  /\ \/ TheDaemon!Acquire \/ TheDaemon!Connect \/ TheDaemon!Flip
     \/ TheDaemon!Serve \/ TheDaemon!GiveUp \/ TheDaemon!Stop
     \/ TheDaemon!GoOffline \/ TheDaemon!Release \/ TheDaemon!End
  /\ UNCHANGED <<configVars, trigger, scriptVars, procdVars, read>>

\* It may die at any time.
Crash ==
  /\ instance = "running"
  /\ TheDaemon!Die
  /\ UNCHANGED <<configVars, trigger, scriptVars, procdVars, read>>

Idle ==
  /\ ~trigger /\ script = "idle" /\ instance = "none"
  /\ UNCHANGED vars

Next ==
  \/ Edit \/ Reap \/ Kill \/ BeginReload \/ BeginStart
  \/ ScriptStop \/ ScriptLoad \/ ScriptRegister
  \/ ReadConfig \/ DaemonStep \/ Crash \/ Idle

\* The script runs to its end, procd answers the end of a process and kills
\* what does not end; the daemon owes nothing but to read its options.
Spec ==
  /\ Init /\ [][Next]_vars
  /\ WF_vars(Script) /\ WF_vars(Reap) /\ WF_vars(Kill) /\ WF_vars(ReadConfig)

-----------------------------------------------------------------------------
Settled == ~trigger /\ script = "idle" /\ instance # "stopping"

\* The daemon reads its options only once, and the script reads enabled
\* before procd starts anything: nevertheless, whenever no change is left to
\* be handled, the daemon that runs was enabled and works with what the file
\* says now.
RunsCurrent ==
  Settled /\ instance = "running" /\ Alive =>
    /\ config.enabled = "1"
    /\ read \in {config, Unread}

\* Once the file is not changed any more, its last change comes into effect,
\* whatever the script and the daemon were doing when it was made: an enabled
\* daemon has been started with it, a disabled one is gone.
EditsTakeEffect ==
  <>[](IF config.enabled = "1" THEN spawned = config ELSE instance = "none")

\* A configuration that the form wrote with all three identifiers filled in
\* is never refused, whatever log level was chosen.
FormAccepted ==
  read # Unread /\ read.ids => OptionsAccepted(Entries(read))

\* tuya_model.lua:9 calls the flag "Start automatically": the daemon does not
\* run where it is off.
AutostartDecides ==
  Settled /\ instance = "running" => config.autostart # "0"
=============================================================================
