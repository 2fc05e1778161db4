# A verification project for tuya_daemon

TLA+ models of the daemons in this repository, TLC configurations that check
them on small instances, and theorems that TLAPS proves for every instance.
Paths are relative to the repository; `OW/` stands for
`src/openwrt/tuya_daemon/src/`.

## The system

The repository holds two programs that connect a device to the Tuya cloud, and
the packaging of one of them.

| Component | State | Operations | Interacts with |
|---|---|---|---|
| OpenWrt daemon, `OW/main.c`, `OW/connection.c`, `OW/signals.c` | `keep_running`, the SDK context, the ubus context, the UCI context, the retry and failure counters, the return value | set-up, `connect_to_tuya`, `main_loop`, the callbacks `on_connected`, `on_disconnect`, `on_messages`, clean-up, the signal handler | calls the SDK, which calls it back from inside `tuya_mqtt_loop` and `tuya_mqtt_disconnect`; shares `keep_running` with the handler; calls the ubus requests |
| ubus requests, `OW/send_info.c` | the response on the stack, the JSON string, the blob buffer | memory information, device list, pin command: lookup, arguments, invocation with a data callback, report | ubusd and its services; the SDK's publish |
| UCI options, `OW/args.c` | none | `uci_get_option`, `str_to_digit` | libuci |
| Tuya link SDK, `src/tuya_daemon/lib` and `include` (prebuilt, external) | `tuya_mqtt_context`: client state, `is_connected`, `manual_disconnect`, `user_data` | init, connect, loop, disconnect, deinit, property report | both daemons |
| OpenWrt service, `files/tuya.init`, `files/tuya.config` | `/etc/config/tuya`, the running script, the instance that procd keeps | start, stop, reload on an announced change | procd, the OpenWrt daemon |
| LuCI form, `tuya_model.lua` | `/etc/config/tuya` | save | the service's configuration |
| Desktop daemon, `src/tuya_daemon/main.c`, `connection.c` | as the OpenWrt daemon without ubus; the date format and whether it owns it | as above; `send_current_time`, format set from the cloud | the SDK |
| Desktop daemon, `args.c` | `struct Args` | `parse_opt`, called back by argp | the C library, `main` |
| Desktop daemon, `become_daemon.c` | three processes: session, terminal, descriptors | double fork, setsid, the null device | the operating system, `main` |

What makes the OpenWrt daemon hard is that one thread does everything. A
callback runs in the middle of `tuya_mqtt_loop`; a ubus request runs in the
middle of a callback; the signal handler runs between any two steps; every
blocking call may be the one in which the signal comes; the SDK reconnects by
itself, so `on_disconnect` and `on_connected` are not the end and the
beginning of the program's life, although the daemon frees and uses its ubus
context as if they were. The properties that make a component correct follow
from that:

- *daemon*: no context is used or freed after it was freed; what was acquired
  is released in order on every path; the main loop runs on a connected
  client; a signal is answered soon and always; failures end the program
  neither early nor never; the exit status tells why it ended;
- *requests*: true means sent; what is allocated is freed;
- *options*: the log level is a safe index, nothing acceptable is refused;
- *desktop daemon*: the format string is owned by exactly one side,
  the message never overruns its buffer and uses all of it, and only the data
  that nobody checks for can kill the program; every way out of `main`, the
  early returns included, leaves nothing behind;
- *arguments*: the daemon does not go on with what it does not know, nor
  without what it needs;
- *daemonisation*: one process goes on, detached from whoever started it, and
  a failure is told by exactly one;
- *service*: the daemon that runs is enabled and works with the configuration
  as it is now, whenever it was changed.

`PROJECT.json` lists the hazards at their lines, with the properties that
watch them.

## The modules

**`TuyaSdk`** has one variable, the SDK's context. Its headers are in the
repository, its code is not; the transitions are what the headers declare and
what the shipped library does with the states the daemons see: connecting
opens a session, the loop acknowledges the subscription, reports the
connection, yields, and starts over after the session is lost;
`tuya_mqtt_disconnect` always calls `on_disconnect` on an initialised client.
After a `tuya_mqtt_init` that failed the context is raw: both
`tuya_mqtt_disconnect` and `tuya_mqtt_deinit` refuse it and do nothing, and
what the library allocated before it failed is its own to free; `client` means
an initialised client. All of it is marked external.

**`SendInfo`** is `send_info.c`. `req` is the request in progress: where it is,
the response (`success`, `data`, both `unset` until the callback assigns
them), the strings and the buffer that are allocated, and as history the
answers and what was published. The three requests differ in the service, the
validity of an answer and the arguments; only the last matters here (`kind`).
Undefined behaviour is a choice: an unassigned flag is true or false, an
unassigned pointer may be refused, published or fatal, a freed ubus context
may still work, fail or be fatal.

**`UciOptions`** holds the operators of `args.c` and the condition under which
main goes on; **`UciConfig`** is main's sequence of lookups and checks that
leads there.

**`Daemon`** is `main.c`, `connection.c` and `signals.c` with the three modules
above. `pc` names the call the thread is in; an action is what happens until
the next call that can block, call back or look at `keep_running`, so that
`Signal` falls between any two of them. `caller` tells where `tuya_mqtt_loop`
returns to. Histories: `frees` counts `ubus_free`, and `late` counts the
blocking calls of `main` that return after the signal; a request that a
callback makes is part of its loop.

| In the code | In `Daemon` |
|---|---|
| `uci_alloc_context`, options | `UciAlloc`, `ReadConfig` |
| `init_connections` | `TuyaInit`, `UbusConnect` |
| `connect_to_tuya` | `Connect`, `RetryCheck`, `RetrySleep`, `WaitCheck` |
| `main_loop` | `MainCheck`, `MainSleep`, `MainCount` |
| `tuya_mqtt_loop` | `LoopError`, `LoopReconnect`, `LoopYield`, `YieldAcknowledged`, `YieldReturns`, `YieldLost` |
| `on_connected`, `on_messages`, `execute_action` | `OnConnected`, `OnMessages`, `ActionOf`, and the actions by which they return |
| `on_disconnect` | `OnDisconnect`, within `YieldLost` and `Disconnect` |
| `send_memory_info` and the others, wherever called | `DoRequest` |
| `cleanup_mqtt`, `cleanup_end` | `Disconnect`, `Deinit`, `CleanupEnd` |
| `signal_handler` | `Signal` |

**`DateFormat`** is `connection.c` of the desktop daemon. A string is a block
of memory, so that freeing one twice, freeing the literal, and keeping one that
`cJSON_Delete` freed are different from doing it right; the allocator may hand
out a freed block again. A text is the set of lengths it may render to, since
that is all that the buffer sees. One action is one whole handler:
`SetDateTimeFormat`, `PropertySetRefused` and `PropertySetCrashes` are the ways
a `PROPERTY_SET` can go, `SendCurrentTime` is a report, `FreeDateTimeFormat` the
end. Which data the SDK lets through is external: data that is missing, or is
an array, is assumed possible, and `cJSON_Parse` is NULL for want of memory too.

**`Actions`** says which request a message of the cloud asks for, which is
all that `Daemon` needs of `execute_action`. **`ExecuteAction`** takes that
function apart: the document that `cJSON_Parse` makes of the data, each field
present or missing or of the wrong kind, the three ways to `json_cleanup`, and
the conversion of the pin. Numbers are counted in halves, so that there are
fractions, and `uint32_t` has `Bits` bits; a number that does not fit may be
converted to any pin. `DoesWhatIsAsked` ties the two together: for every
document the request is the one that `Actions` names.

**`DesktopDaemon`** is `main.c` of the desktop daemon with the callbacks of
`connection.c`, composed of `TuyaSdk` and `DateFormat`.

| In the code | In `DesktopDaemon` |
|---|---|
| `argp_parse`, `become_daemon`, with main's checks | `ParseArgs`, `BecomeDaemon` |
| `init_tuya` | `TuyaInit` |
| `connect_to_tuya` | `Connect`, `RetryCheck`, `RetrySleep`; `SetupCheck` for the five loops |
| the main loop | `MainCheck`, `MainSleep`, `MainSend` |
| `tuya_mqtt_loop` | as in `Daemon`; `caller` tells which of the two loops called it |
| `on_connected`, `on_messages` | `OnConnected`, `OnMessages`, whole handlers |
| `cleanup` | `Disconnect`, `Deinit`, `CleanupEnd` |
| an early `return` | `ReturnEarly` |
| `signal_handler` | `Signal` |

The doubling of its waits is left out: it is that of `Daemon`, where it is
checked. What the command line asks for, `help` and `credentials`, is fixed at
the start. How the arguments and the process came about is in two modules of
their own, of which it takes every result they show to be possible: arguments
that are accepted or refused (64), a parser that fails (1), and the help (0),
after which the daemon ends before it does anything; each code that
`become_daemon` returns.

**`DesktopArgs`** is `parse_opt`, called back with one key after the other, and
main's check. argp is external, and modelled from its documentation and its
source: positional arguments are moved behind the options, an argument that no
parser takes ends the program, and `ARGP_ERR_UNKNOWN` in answer to
`ARGP_KEY_END` is no error. `--usage` and `--version` end the program as
`--help` does. argp itself may fail for want of memory before it looks at the
first argument (`ArgpFails`), which `main` answers with `EXIT_FAILURE`.

**`BecomeDaemon`** has three processes, which run concurrently after a fork.
A process is where it is, what it got from `become_daemon`, and what a child
inherits: session, leadership, terminal, descriptors. The operating system is
external: `fork` fails or makes a child, `setsid` refuses a group leader,
`open` and `dup` return the lowest free descriptor or fail. `chdir("/")`, whose
result the code ignores, succeeds. The child of a fork starts where its parent
was, and who started the program may have left it any descriptors.

**`DesktopStart`** composes the two: `main` parses the arguments, calls
`become_daemon` when they say so, and the processes go on. What happens in the
process that goes on is `DesktopDaemon`.

**`Service`** is the init script, the installed configuration and the form.
The script is one invocation at a time (rc.common's lock), in three steps:
stop, read `enabled`, hand the instance to procd. procd is external: it has one
process, stops it with SIGTERM and later SIGKILL, restarts an instance whose
parameters or files differ from the one that runs, and delivers every announced
change. The daemon is its abstraction: `ReadConfig`, which uses `UciOptions`,
and otherwise the steps of `Lifecycle`.

**`Lifecycle`** is what a daemon promises to whoever starts and stops it, in
six phases. `Daemon` and `DesktopDaemon` are shown to implement it
(`KeepsPromise`) by a mapping of `pc` to phases. They differ in two points: by
the constant `ServesOffline` the desktop daemon may enter its main loop before
it is connected, and by `informs` it may have been started only to tell how it
is used (`--help`, `--usage`, `--version`), when it ends with status 0 without
being asked to stop (`Inform`) and never acquires the client (`Acquire`). The
other daemon has no command line: for it, and in `Service`, `informs` is FALSE. `DesktopDaemon` also implements `DateFormat` (`KeepsFormat`).

`MC*` modules give small values to the constants. Operators whose comment
starts with *Mutant* are plausible mistakes in the definition that follows
them, kept to show that a property notices them; nothing uses them.

## The runs

| Run | Shows |
|---|---|
| `options` | the level is an index of `log_priorities`; every refusal has a reason |
| `daemon_clean` | the code's ten retries and ten failures; no session drops, no silent services: ubus is alive whenever it is used, nothing crashes, everything is released once, a request that returns true has published the JSON of the last, valid answer, the waits double and are at most ten, the main loop runs connected; a daemon that stays in it reports for ever, one that lost ubus ends |
| `daemon_faults` | everything may happen: types, lifetimes of UCI context and SDK client, where the SDK is given an initialised client, the bound after a signal, exit statuses, leaks only in the late cases, the life cycle, a signal ends it |
| `daemon_drops` | *violated*: after a lost session the freed ubus context is used |
| `daemon_wait` | *violated*: the connection phase need not end |
| `requests_silent` | *violated*: with a service that answers OK without data, true does not mean sent; the requests alone, without the daemon around them |
| `execute_action` | for every document the request is the one `Daemon` takes it for, the document is freed on every path, and a pin that fits is the pin that is switched |
| `desktop_start` | the daemon never starts with a positional argument or an unknown option; it is detached with the null device on 0, 1 and 2 and nothing else open; one process goes on; in the end one serves or exactly one tells the failure |
| `args_required` | *violated*: a command line without the required options is accepted |
| `desktop` | the code's buffer, retries and loops, and everything may happen: nothing left on any way out, no client without credentials, the bound after a signal; the format in use is exactly what is held; the report fits the buffer, and is refused only when it would not; nothing but unchecked data kills the daemon; the life cycle; a signal ends it, and one that stays in the main loop reports for ever, whatever format the cloud sets |
| `service` | when all changes are handled, the daemon that runs is enabled and has read the file as it is; the last change always comes into effect; a configuration of the form with all identifiers is accepted |
| `service_autostart` | *violated*: the flag "Start automatically" decides nothing |

The five violated properties are the project's findings:

1. `OW/connection.c:33`. `on_disconnect` frees the ubus context each time a
   session is lost, and the SDK then reconnects: the next request, and the next
   message, use freed memory, and the final disconnect frees it again. Without
   drops the context is freed exactly once (`EndsClean`, `NeverCrashes`).
2. `OW/send_info.c:148`. The response is read although no callback may have
   assigned it.
3. `OW/connection.c:165`. "Loop a few times" loops without a bound.
4. `src/tuya_daemon/args.c:72`. A missing required option is answered with
   `ARGP_ERR_UNKNOWN`, which argp takes for "not my key": `argp_parse` returns
   0 and the daemon goes on with NULL. The SDK's refusal then ends it
   (`NeverWithoutCredentials`).
5. `tuya_model.lua:9`. The form's "Start automatically" writes `autostart`,
   the init script reads `enabled`.

Two smaller differences between comments and code are built into the models
and have no run of their own. `src/tuya_daemon/connection.c:62` says that
`get_time_string` returns 0 on success; it returns the length, and its caller
needs that (`Published`). `src/tuya_daemon/main.c:164` says that a few loops
finish the setup of the connection; nobody looks whether five did, so the
desktop daemon may serve offline (`SetupCheck`, and `ServesOffline` in its
refinement).

### Bounds

| Constant | Value | Why it is enough |
|---|---|---|
| `ConnectRetries` | 10; 2 with faults | 10 is the code's; two retries have a first, a middle and a last |
| `SendFailLimit` | 10 in `daemon_clean`, else 2 or 3 | 10 is the code's; two have a failure that counts and one that ends |
| `MaxMessages` | 1 or 2 | messages in one yield are independent of each other, but for the loss of the session between them |
| `MaxAnswers` | 2 or 3 | a third answer can only repeat what the second did to the first |
| `SessionDrops`, `SilentReplies` | both values | they separate what the findings break from what holds in spite of them |
| `SetupLoops` | 5 | the code's |
| `Strings` | two blocks | the one in use and the one being taken over; the one freed comes back with the next format |
| `BufSize`, `Prefix` | 200, 9 | the code's |
| `Texts` | 0, 1, 24, 187 to 192, 500 | what fits, what `strftime` refuses, and the two checks' edges at 188 and 190 |
| `Bits`, `Halves` | 3; from -2 to beyond the width | both ends of the range, fractions and what lies outside; the conversion is the same at every width |
| `MaxItems` | 3 | an option, `--daemon`, and a stranger or positional argument in any place; the daemon's steps do not depend on the number |
| `MaxFd` | 3 | a descriptor beyond the standard ones, open or closed |
| `Levels` | the lowest | the form's lowest level is the edge of what the daemon accepts; `options` checks the others |
| `MaxEdits`, `MaxStarts` | 2, 1 | a change while the one before is being handled, and a start in between |

The theorems have none of these bounds.

### Fairness

`WF_vars(ThreadStep)`, in both daemons: the one thread takes its next step. The
calls it blocks in all return: `sleep`, `ubus_invoke` with its 10 seconds, the
SDK's yield with `timeout_ms = 2000`. The handler, ubusd and the broker owe
nothing, and which way a call returns is not fair either. In `DesktopStart`
`main` takes its next step, and each process is scheduled
(`WF_startVars(ProcessStep(p))`). In `Service` the script runs to its end, procd answers the
end of a process and kills what does not end, and a started daemon reads its
options; that it then ends is not assumed, since SIGKILL sees to it, and nobody
has to change or start anything.

## The theorems

They are in eight modules, one for each component or two that belong together.
Every invariant that a run checks on the code as it is has a theorem.

`Daemon_proofs`:

- `TypeCorrect`: `TypeOK` always holds. It needs `DataAllocated` (a request
  that has a string has it allocated, or freeing it would take the count below
  zero), `RetryGuarded` and `FailuresBelowLimit` (the checks that keep the
  counters in range), and `CallerIsWait` (no loop of the connection phase
  returns to the main loop, whose counter would not be reset).
- `WaitsDouble`: `RetryBackoff` for any number of retries. One step of the
  doubling is `PowerDoubles`; it counts the subsets of a set, since the library
  says nothing of powers but that.
- `UciLives`: `UciOutlivesClient`, from where there is no client and where the
  UCI context is known to live.
- `UbusLives`: if sessions are not lost, ubus is alive when it is used. This
  does not depend on the services: `UbusInv` says that the context is not freed
  before the clean-up's second step.
- `NeverCrashes`: if, besides, services are not silent, nothing undefined
  happens, but for a `uci_alloc_context` out of memory. `ResponseInv` adds that
  the response is assigned as soon as there was an answer.
- `StopsSoon`: `StopBound`, with every fault on. The bound itself is not
  inductive: the invariant says for every place what can have been counted
  since the last look at `keep_running`.
- `SignalCountsDown`: after the signal `Distance`, a natural number, never
  grows, and every step of the thread makes it smaller. It is what
  `SignalStops` rests on besides the scheduling: `StepsLeft` gives the steps
  that are left at most at each place, of which `RequestLeft` and `YieldLeft`
  count those of a request and of a yield with its messages.

`DaemonEnds_proofs`:

- `StatusIsTrue`: `StatusTellsWhy`, with every fault on. `PlaceInv` says for
  every place what the client, the ubus context and the status are there.
- `ClientWhereUsed`: `ClientUnlessInitFailed`, with every fault on. Connecting
  and serving always have an initialised client. The clean-up need not: after a
  failed `tuya_mqtt_init`, `main` calls `tuya_mqtt_disconnect` and
  `tuya_mqtt_deinit` all the same. `ContextInv` says that this is the only way
  to get there without a client, and what the context is then. It rests on
  `PlaceInv` and `ReleaseInv`.
- `EndsCleanly`, `ServesWhenConnected`: `EndsClean` and `ServesConnected`, if
  sessions are not lost. `EndInv` adds that the ubus context is freed by the
  final disconnect and by nothing before it, and that a client in its main loop
  is connected.
- `PromiseKept`: the daemon implements `Lifecycle`, with every fault on.
  `Places` gives the phase of each place, and a lemma for each group of actions
  names the step of `Lifecycle` an action is. It rests on `PlaceInv` and on
  `ReleaseInv`: the client is offline before it is released.
- `RequestsInDaemon`: what `SendInfo_proofs` shows holds of the whole daemon,
  with requests made from the main loop and from callbacks.

`SendInfo_proofs`:

- `TrueIsSent`, `RequestsRelease`, `RequestsTyped`: the properties of the
  requests for every number of answers. `AccountInv` counts what is allocated,
  `Judged` ties the response to the last answer, and `Counted` the strings to
  the number of answers. `TrueIsSent` assumes that services are not silent,
  which is what the finding breaks.

`UciConfig_proofs`, for values of any length and any bytes:

- `DecidesAtOnce`: main's lookups and checks, one after the other, come to what
  `OptionsAccepted` says of them all, which is how `Daemon` and `Service` use
  them. `ConfigInv` says what has been read so far; that no string passes for
  NULL is `NullOrValue`.
- `LevelInRange`, `RefusalHasReason`: `LevelIsIndex` and `RefusedForAReason`,
  from the same invariant and the arithmetic of `str_to_digit`.

`ExecuteAction_proofs`, for every width of the pin:

- `ActionRefined`: `DoesWhatIsAsked`, so that `Daemon`, which takes
  `execute_action` as one step, takes the right one.
- `TreeIsFreed`, `PinIsRight`: `TreeFreed` and `RightPin`. `ActionInv` says
  which checks a document has passed at each place, and `InRangeConverts` that
  a number in range has one outcome.

`DesktopDaemon_proofs`, first about `DateFormat`, for every buffer that holds
the prefix and three characters:

- `BufferSafe`, `RefusalsNeeded`: `FitsBuffer` and `RefusedForLength`.
  `LengthFits` is the arithmetic; it needs that `strftime` got what the prefix
  leaves.
- `FormatOwned`, `DiesOfData`, `FormatFreed`: `OwnedByOneSide`,
  `DiesOfDataOnly` and `FreedAtEnd`. The first is inductive together with the
  types: as long as `live` is what `FreedOld` names, the next free is of an
  allocated string.

then about the whole daemon, all with every fault on:

- `FormatRefined`: every step is one of `DateFormat`. An early return frees
  nothing, and is such a step only because the format is still the literal
  there; that is the invariant. `FormatInDaemon` draws the conclusion: the five
  properties above hold of the daemon.
- `PromiseKept`: the desktop daemon implements `Lifecycle`, by the same
  argument as the other one. It rests on `ClientInv` (what the client is at
  each place), on `CountInv`, and on `PromiseInv`: a command line that asks for
  help gets no further than its parsing.
- `EndsCleanly`, `CredentialsNeeded`, `TypeCorrect`, `StopsSoon`: `EndsClean`,
  `NeverWithoutCredentials`, `TypeOK` and `StopBound`.
- `SignalCountsDown`: as in `Daemon_proofs`.

`BecomeDaemon_proofs`, for any number of descriptors:

- `Detaches`, `GoesOnAlone`, `SetsidWorks`, `DaemonTyped`: the safety
  properties of the double fork. `Progress` says how far each process has come
  and what it has by then, which includes that the lowest free descriptor is
  the expected one. `StartsDaemon` carries it over to `DesktopStart`, of which
  the theorems are stated.
- `SettlesAccountable`: once no process has a step left, and that is final
  (`StaysSettled`), one serves or exactly one told the failure. `AccountInv`
  says that the processes are a chain: whoever handed on to a child ended with
  success, and only the last of them is still to answer. With `ForksWhenAsked`
  (`become_daemon` is called only for an accepted command line with `--daemon`)
  it is all of `EndsAccountable` but that it comes to this.
- `RefusesStrangers`: `StrangersRefused` for command lines of any length.
  `ArgsInv` says what the parsed part of the command line holds, and that
  `positional` remembers it until argp complains at the end.

`Service_proofs`, for any number of changes and starts:

- `WorksWithTheFile`: `RunsCurrent`. `CurrentInv` says what is current as long
  as no change is announced: the script's look at `enabled` until it is used,
  the daemon's look at its options unless the script is about to stop it, and
  what procd runs or has noted to start once the script is done.
- `SettledTookEffect`: whenever all changes are handled, an enabled daemon was
  started with what the file says and a disabled one is gone. `EffectInv` adds
  that a start that is not noted has been made. It is `EditsTakeEffect` but
  that it comes to this.
- `FormIsAccepted`: `FormAccepted` for every level of the form.

Assumptions: the constants are natural numbers, `SendFailLimit` is not zero,
`ConnectRetries` of the OpenWrt daemon is below 30, so that `sleep_seconds`
cannot wrap around, the value of an option is a sequence of bytes, and there
are at least the descriptors 0 to 3.

Only model-checked, as liveness is beyond the prover:

- `KeepsReporting`, in both daemons, and `LostUbusStops`;
- the part of `SignalStops` that the thread is scheduled, of `EndsAccountable`
  that every process is, and of `EditsTakeEffect` that script, procd and daemon
  go on; what is left of these three is proved (`SignalCountsDown`,
  `SettlesAccountable` and `ForksWhenAsked`, `SettledTookEffect`).

## Not modelled

- The content of JSON and blob messages, and wording of logs: no property is
  about them.
- Whether the cloud gets a report: it is published without acknowledgement,
  and the code promises nothing.
- The SDK's client in states the daemon never leaves it in (a loop on an idle
  client), and its internal retries within one call.
- A signal before `set_up_signal_handler` ended: it kills the process.
- `str_to_bool`, which nothing calls, and the LuCI controller, which registers
  a menu entry.
- The form's `become_daemon` flag, which nothing reads and which no comment
  explains; a form that was never saved shows defaults that are not the file's.
- A format whose text has quotes makes a report that is no JSON: nothing here
  says what the SDK or the cloud makes of it.
- Build files, the packaging of the SDK and its headers.

## Plan

Done: all modules named above, and the theorems. Left: what `KeepsReporting`
and `LostUbusStops` rest on besides the scheduling, in the form of
`SignalCountsDown`: a number that the thread's steps count down between two
reports, and after the loss of ubus to the end.
