----------------------------- MODULE DesktopArgs -----------------------------
(***************************************************************************)
(* The command line of the desktop daemon: parse_opt of args.c, called     *)
(* back by argp_parse with one key after the other, and what main makes of *)
(* the result.  argp is part of the C library: it moves positional         *)
(* arguments behind the options, calls the parser with ARGP_KEY_ARG for    *)
(* the first of them, and otherwise with ARGP_KEY_NO_ARGS and              *)
(* ARGP_KEY_END.                                                           *)
(***************************************************************************)
EXTENDS Integers, Sequences

CONSTANTS
  Values,      \* what an option may be given
  Null,        \* a member of struct Args that was never set
  MaxItems     \* bound: items on the command line

ASSUME NullAssumption == Null \notin Values
ASSUME ItemsAssumption == MaxItems \in Nat

VARIABLES
  argv,          \* the command line
  next,          \* state.next: the item that is parsed next
  arguments,     \* struct Args
  positional,    \* argp has met a positional argument and moved it to the end
  outcome        \* parsing, accepted, failure (1), usage (64) or help (0)

argsVars == <<argv, next, arguments, positional, outcome>>

Required == {"device_id", "device_secret", "product_id"}

\* stranger: an option that is not in options[], or one without its argument.
Items ==
  [key : Required, arg : Values]
    \cup [key : {"become_daemon", "positional", "stranger", "help"},
          arg : {Null}]

ArgsInit ==
  /\ argv \in UNION {[1 .. n -> Items] : n \in 0 .. MaxItems}
  /\ next = 1
  /\ arguments = [device_id |-> Null, device_secret |-> Null,
                  product_id |-> Null, become_daemon |-> FALSE]
  /\ positional = FALSE
  /\ outcome = "parsing"

Parsing == outcome = "parsing"
Item == argv[next]

\* What parse_opt assigns for an option.
Parsed(args, item) ==
  IF item.key = "become_daemon" THEN [args EXCEPT !.become_daemon = TRUE]
  ELSE [args EXCEPT ![item.key] = item.arg]

ParseOption ==
  /\ Parsing /\ next <= Len(argv)
  /\ Item.key \in Required \cup {"become_daemon"}
  /\ arguments' = Parsed(arguments, Item)
  /\ next' = next + 1
  /\ UNCHANGED <<argv, positional, outcome>>

SkipPositional ==
  /\ Parsing /\ next <= Len(argv)
  /\ Item.key = "positional"
  /\ positional' = TRUE /\ next' = next + 1
  /\ UNCHANGED <<argv, arguments, outcome>>

\* argp ends the program: with a hint at the usage, or after the help.
ArgpExits ==
  /\ Parsing /\ next <= Len(argv)
  /\ \/ Item.key = "stranger" /\ outcome' = "usage"
     \/ Item.key = "help" /\ outcome' = "help"
  /\ UNCHANGED <<argv, next, arguments, positional>>

\* argp cannot start for want of memory, and main's check answers the error.
ArgpFails ==
  /\ Parsing /\ next = 1
  /\ outcome' = "failure"
  /\ UNCHANGED <<argv, next, arguments, positional>>

\* The two values parse_opt returns: 0 and ARGP_ERR_UNKNOWN.
Unknown == 7

\* Mutant: parse_opt takes a positional argument for its own.
TakesPositional == 0

\* parse_opt for ARGP_KEY_ARG.
ParseOptArg == Unknown

\* parse_opt for ARGP_KEY_END.
ParseOptEnd(args) ==
  IF \E option \in Required : args[option] = Null THEN Unknown ELSE 0

\* What argp_parse makes of the answer to ARGP_KEY_END: that no parser knows
\* the key is no error.
ArgpReturns(err) == IF err = Unknown THEN 0 ELSE err

\* An argument nobody takes is one too many: argp ends the program.
RefusePositional ==
  /\ Parsing /\ next > Len(argv) /\ positional
  /\ ParseOptArg = Unknown
  /\ outcome' = "usage"
  /\ UNCHANGED <<argv, next, arguments, positional>>

\* main's check of the result.
ParseEnd ==
  /\ Parsing /\ next > Len(argv)
  /\ positional => ParseOptArg = 0
  /\ outcome' = IF ArgpReturns(ParseOptEnd(arguments)) = 0 THEN "accepted"
                ELSE "failure"
  /\ UNCHANGED <<argv, next, arguments, positional>>

Done == ~Parsing /\ UNCHANGED argsVars

ArgsNext ==
  \/ ParseOption \/ SkipPositional \/ ArgpExits \/ ArgpFails
  \/ RefusePositional \/ ParseEnd \/ Done

ArgsSpec == ArgsInit /\ [][ArgsNext]_argsVars

-----------------------------------------------------------------------------
Given(option) == {i \in 1 .. Len(argv) : argv[i].key = option}

\* args.c:61 says that no positional arguments are taken.  Wherever one
\* stands, or anything else that is not in options[], the daemon does not
\* start; and only then is it told to read the usage.
StrangersRefused ==
  LET strangers == Given("positional") \cup Given("stranger")
  IN  /\ outcome = "accepted" => strangers \cup Given("help") = {}
      /\ outcome = "usage" => strangers # {}

\* args.c:11, :17 and :23 say that these options are required, and :70 that
\* parse_opt refuses a command line without them.
RequiredGiven ==
  outcome = "accepted" => \A option \in Required : Given(option) # {}
=============================================================================
