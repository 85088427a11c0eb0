---------------------------- MODULE ServerMonitor ----------------------------
(***************************************************************************)
(* The program server_monitor from main to its exit code: the defaults,    *)
(* the environment variables, the options, validation, then one session in *)
(* batch mode or the menu (server_monitor.c, monitor_config.c).  A session *)
(* is here only its beginning and its result; module Session is the loop.  *)
(*                                                                         *)
(* What main reads (a variable, an argument, a line) it reads once and in  *)
(* order, so it is chosen when it is read.  A text stands for all strings  *)
(* that the parsing functions treat alike; upper and lower case of the     *)
(* words of parse_bool are not told apart, nor is a server name from its   *)
(* first 63 characters.                                                    *)
(***************************************************************************)
EXTENDS Integers, Sequences

CONSTANTS
  MONITOR_DEFAULT_INTERVAL_MS, MONITOR_MIN_INTERVAL_MS, MONITOR_MAX_INTERVAL_MS,
  MONITOR_DEFAULT_DURATION_MS, MONITOR_MIN_DURATION_MS, MONITOR_MAX_DURATION_MS,
  Texts,     \* the strings the environment, the arguments and stdin may hold
  Names,     \* those of them tried as server names
  strtol,    \* the numbers of those texts that strtol reads to the end
  Lines,     \* the lines of stdin, each as the pieces fgets returns of it
  MaxArgs    \* bound: the length of argv

ASSUME LimitsAssumption ==
  /\ MONITOR_MIN_INTERVAL_MS \in Nat \ {0}
  /\ MONITOR_MIN_DURATION_MS \in Nat \ {0}
  /\ MONITOR_DEFAULT_INTERVAL_MS \in MONITOR_MIN_INTERVAL_MS..MONITOR_MAX_INTERVAL_MS
  /\ MONITOR_DEFAULT_DURATION_MS \in MONITOR_MIN_DURATION_MS..MONITOR_MAX_DURATION_MS
  /\ MONITOR_MAX_INTERVAL_MS \in Nat /\ MONITOR_MAX_DURATION_MS \in Nat

\* Only lines of 127 characters or more come in several pieces.
ASSUME InputAssumption ==
  /\ "local" \in Names /\ Names \subseteq Texts
  /\ strtol \in [DOMAIN strtol -> Int] /\ DOMAIN strtol \subseteq Texts
  /\ Lines \subseteq Seq(Texts) /\ <<>> \notin Lines
  /\ MaxArgs \in Nat \ {0}

VARIABLES
  config,       \* the MonitorConfig of main
  pc,           \* the point main has reached
  argc,         \* arguments consumed so far, the program name included
  show_help,    \* set by --help
  pending,      \* the rest of a line of which fgets returned a piece
  eof,          \* stdin is at its end
  last_session, \* history: the status of the last session, "NONE" before it
  exit_code     \* the exit code, "NONE" while running

vars == <<config, pc, argc, show_help, pending, eof, last_session, exit_code>>

MONITOR_MAX_ITERATIONS == MONITOR_MAX_DURATION_MS \div MONITOR_MIN_INTERVAL_MS

Errors == {"INVALID_ARGUMENT", "IO_ERROR", "PARSE_ERROR", "RANGE_ERROR",
           "INTERNAL_ERROR"}

parse_int_range(text, min, max) ==
  IF text \notin DOMAIN strtol THEN "PARSE_ERROR"
  ELSE IF strtol[text] \in min..max THEN "OK" ELSE "RANGE_ERROR"

interval_ok(text) ==
  parse_int_range(text, MONITOR_MIN_INTERVAL_MS, MONITOR_MAX_INTERVAL_MS) = "OK"

duration_ok(text) ==
  parse_int_range(text, MONITOR_MIN_DURATION_MS, MONITOR_MAX_DURATION_MS) = "OK"

iterations_ok(text) == parse_int_range(text, 1, MONITOR_MAX_ITERATIONS) = "OK"

\* parse_bool: the words for true and for false; any other text is an error.
TrueWords == {"1", "true", "yes", "on"}
FalseWords == {"0", "false", "no", "off"}

exit(code) == pc' = "exited" /\ exit_code' = code

goto(label) == pc' = label /\ UNCHANGED exit_code

-----------------------------------------------------------------------------
monitor_config_init ==
  [server_name     |-> "local",
   interval_ms     |-> MONITOR_DEFAULT_INTERVAL_MS,
   duration_ms     |-> MONITOR_DEFAULT_DURATION_MS,
   non_interactive |-> FALSE,
   iterations      |-> 0]

Init ==
  /\ config = monitor_config_init
  /\ pc = "SHM_SERVER_NAME"
  /\ argc = 1
  /\ show_help = FALSE
  /\ pending = <<>> /\ eof = FALSE
  /\ last_session = "NONE"
  /\ exit_code = "NONE"

with_interval(text) == [config EXCEPT !.interval_ms = strtol[text]]

with_duration(text) == [config EXCEPT !.duration_ms = strtol[text]]

\* A number of iterations also turns the menu off.
with_iterations(text) ==
  [config EXCEPT !.iterations = strtol[text], !.non_interactive = TRUE]

-----------------------------------------------------------------------------
\* monitor_config_apply_env, one action per variable.  At the first value it
\* cannot use it returns; main warns and goes on with what was applied so far.

env_unchanged == <<argc, show_help, pending, eof, last_session>>

EnvServerName ==
  /\ pc = "SHM_SERVER_NAME"
  /\ \/ UNCHANGED config
     \/ \E text \in Names \ {""} : config' = [config EXCEPT !.server_name = text]
  /\ goto("SHM_INTERVAL_MS")
  /\ UNCHANGED env_unchanged

EnvInterval ==
  /\ pc = "SHM_INTERVAL_MS"
  /\ \/ UNCHANGED config /\ goto("SHM_DURATION_MS")
     \/ \E text \in Texts :
          IF interval_ok(text)
          THEN config' = with_interval(text) /\ goto("SHM_DURATION_MS")
          ELSE UNCHANGED config /\ goto("args")
  /\ UNCHANGED env_unchanged

EnvDuration ==
  /\ pc = "SHM_DURATION_MS"
  /\ \/ UNCHANGED config /\ goto("SHM_NON_INTERACTIVE")
     \/ \E text \in Texts :
          IF duration_ok(text)
          THEN config' = with_duration(text) /\ goto("SHM_NON_INTERACTIVE")
          ELSE UNCHANGED config /\ goto("args")
  /\ UNCHANGED env_unchanged

EnvNonInteractive ==
  /\ pc = "SHM_NON_INTERACTIVE"
  /\ \/ UNCHANGED config /\ goto("SHM_ITERATIONS")
     \/ \E text \in Texts :
          IF text \in TrueWords \cup FalseWords
          THEN /\ config' = [config EXCEPT !.non_interactive = text \in TrueWords]
               /\ goto("SHM_ITERATIONS")
          ELSE UNCHANGED config /\ goto("args")
  /\ UNCHANGED env_unchanged

EnvIterations ==
  /\ pc = "SHM_ITERATIONS"
  /\ \/ UNCHANGED config
     \/ \E text \in Texts :
          config' = IF iterations_ok(text) THEN with_iterations(text) ELSE config
  /\ goto("args")
  /\ UNCHANGED env_unchanged

Environment ==
  EnvServerName \/ EnvInterval \/ EnvDuration \/ EnvNonInteractive \/ EnvIterations

-----------------------------------------------------------------------------
\* monitor_config_apply_args, one action per argument read.

args_unchanged == <<pending, eof, last_session>>

Help ==
  /\ pc = "args" /\ argc < MaxArgs
  /\ show_help' = TRUE
  /\ argc' = argc + 1
  /\ exit("SUCCESS")
  /\ UNCHANGED config
  /\ UNCHANGED args_unchanged

NonInteractive ==
  /\ pc = "args" /\ argc < MaxArgs
  /\ config' = [config EXCEPT !.non_interactive = TRUE]
  /\ argc' = argc + 1
  /\ goto("args")
  /\ UNCHANGED show_help
  /\ UNCHANGED args_unchanged

\* Mutant: any argument is followed by another one.
has_value_unchecked == argc < MaxArgs

has_value == argc + 1 < MaxArgs

\* An option with its value, which gives one of these configurations or is refused.
Option(configs, refusable) ==
  /\ pc = "args" /\ has_value
  /\ argc' = argc + 2
  /\ \/ config' \in configs /\ goto("args")
     \/ refusable /\ UNCHANGED config /\ exit("FAILURE")
  /\ UNCHANGED show_help
  /\ UNCHANGED args_unchanged

with_server(text) == [config EXCEPT !.server_name = text]

Server == Option({with_server(text) : text \in Names \ {""}}, "" \in Names)

Interval ==
  LET valid == {text \in Texts : interval_ok(text)}
  IN  Option({with_interval(text) : text \in valid}, Texts \ valid # {})

Duration ==
  LET valid == {text \in Texts : duration_ok(text)}
  IN  Option({with_duration(text) : text \in valid}, Texts \ valid # {})

Iterations ==
  LET valid == {text \in Texts : iterations_ok(text)}
  IN  Option({with_iterations(text) : text \in valid}, Texts \ valid # {})

\* An unknown argument, or a last argument that lacks its value.
BadArgument ==
  /\ pc = "args" /\ argc < MaxArgs
  /\ argc' = argc + 1
  /\ exit("FAILURE")
  /\ UNCHANGED <<config, show_help>>
  /\ UNCHANGED args_unchanged

ArgumentsDone ==
  /\ pc = "args"
  /\ goto("validate")
  /\ UNCHANGED <<config, argc, show_help>>
  /\ UNCHANGED args_unchanged

Arguments ==
  \/ Help \/ NonInteractive \/ Server \/ Interval \/ Duration \/ Iterations
  \/ BadArgument \/ ArgumentsDone

-----------------------------------------------------------------------------
monitor_config_validate(c) ==
  IF c.interval_ms \notin MONITOR_MIN_INTERVAL_MS..MONITOR_MAX_INTERVAL_MS
     \/ c.duration_ms \notin MONITOR_MIN_DURATION_MS..MONITOR_MAX_DURATION_MS
     \/ c.iterations < 0
  THEN "RANGE_ERROR"
  ELSE IF c.iterations > 0 /\ ~c.non_interactive THEN "INVALID_ARGUMENT"
  ELSE IF c.iterations = 0 /\ c.duration_ms < c.interval_ms THEN "RANGE_ERROR"
  ELSE "OK"

\* Mutant: the modes are swapped.
Validate_inverted ==
  /\ pc = "validate"
  /\ IF monitor_config_validate(config) # "OK" THEN exit("FAILURE")
     ELSE goto(IF config.non_interactive THEN "menu" ELSE "batch")
  /\ UNCHANGED <<config, argc, show_help, pending, eof, last_session>>

Validate ==
  /\ pc = "validate"
  /\ IF monitor_config_validate(config) # "OK" THEN exit("FAILURE")
     ELSE goto(IF config.non_interactive THEN "batch" ELSE "menu")
  /\ UNCHANGED <<config, argc, show_help, pending, eof, last_session>>

\* Mutant: the result of the session is not looked at.
BatchSessionEnds_unchecked ==
  /\ pc = "batch"
  /\ last_session' \in {"OK"} \cup Errors
  /\ exit("SUCCESS")
  /\ UNCHANGED <<config, argc, show_help, pending, eof>>

\* The one session of a non-interactive run returns.
BatchSessionEnds ==
  /\ pc = "batch"
  /\ \E s \in {"OK"} \cup Errors :
       /\ last_session' = s
       /\ exit(IF s = "OK" THEN "SUCCESS" ELSE "FAILURE")
  /\ UNCHANGED <<config, argc, show_help, pending, eof>>

\* A session started from the menu returns; its errors are only logged.
LiveSessionEnds ==
  /\ pc = "live"
  /\ last_session' \in {"OK"} \cup Errors
  /\ goto("menu")
  /\ UNCHANGED <<config, argc, show_help, pending, eof>>

-----------------------------------------------------------------------------
\* fgets(buffer, 128, stdin): the next piece of the input.
fgets(text) ==
  /\ IF pending # <<>>
     THEN text = Head(pending) /\ pending' = Tail(pending)
     ELSE \E line \in Lines : text = Head(line) /\ pending' = Tail(line)
  /\ ~eof
  /\ UNCHANGED eof

\* get_integer_input: a text that is not a number of the range is asked again.
get_integer_input(min, max, text) ==
  /\ fgets(text)
  /\ parse_int_range(text, min, max) = "OK"

InvalidInput ==
  /\ pc \in {"menu", "menu_interval", "menu_duration"}
  /\ \E text \in Texts :
       /\ fgets(text)
       /\ CASE pc = "menu" -> parse_int_range(text, 1, 5) # "OK"
            [] pc = "menu_interval" -> ~interval_ok(text)
            [] pc = "menu_duration" -> ~duration_ok(text)
  /\ UNCHANGED <<config, pc, argc, show_help, last_session, exit_code>>

\* Mutant: a question of the menu is asked again.
EndOfInput_reprompts ==
  /\ pc \in {"menu", "menu_interval", "menu_duration"}
  /\ pending = <<>>
  /\ eof' = TRUE
  /\ IF pc = "menu" THEN exit("FAILURE") ELSE goto(pc)
  /\ UNCHANGED <<config, argc, show_help, pending, last_session>>

\* fgets fails, for good.  In the menu main gives up; at a question of the menu
\* it goes back to the menu.
EndOfInput ==
  /\ pc \in {"menu", "menu_interval", "menu_duration"}
  /\ pending = <<>>
  /\ eof' = TRUE
  /\ IF pc = "menu" THEN exit("FAILURE") ELSE goto("menu")
  /\ UNCHANGED <<config, argc, show_help, pending, last_session>>

\* The switch of the menu.  Choice 4 prints the configuration.
MenuChoice ==
  /\ pc = "menu"
  /\ \E text \in Texts :
       /\ get_integer_input(1, 5, text)
       /\ CASE strtol[text] = 1 -> goto("live")
            [] strtol[text] = 2 -> goto("menu_interval")
            [] strtol[text] = 3 -> goto("menu_duration")
            [] strtol[text] = 4 -> goto("menu")
            [] strtol[text] = 5 -> exit("SUCCESS")
  /\ UNCHANGED <<config, argc, show_help, last_session>>

\* Mutant: the new interval is not compared with the duration.
MenuInterval_unchecked ==
  /\ pc = "menu_interval"
  /\ \E text \in Texts :
       /\ get_integer_input(MONITOR_MIN_INTERVAL_MS, MONITOR_MAX_INTERVAL_MS, text)
       /\ config' = with_interval(text)
  /\ goto("menu")
  /\ UNCHANGED <<argc, show_help, last_session>>

MenuInterval ==
  /\ pc = "menu_interval"
  /\ \E text \in Texts :
       /\ get_integer_input(MONITOR_MIN_INTERVAL_MS, MONITOR_MAX_INTERVAL_MS, text)
       /\ config' = IF strtol[text] > config.duration_ms THEN config
                                                         ELSE with_interval(text)
  /\ goto("menu")
  /\ UNCHANGED <<argc, show_help, last_session>>

MenuDuration ==
  /\ pc = "menu_duration"
  /\ \E text \in Texts :
       /\ get_integer_input(MONITOR_MIN_DURATION_MS, MONITOR_MAX_DURATION_MS, text)
       /\ config' = IF strtol[text] < config.interval_ms THEN config
                                                         ELSE with_duration(text)
  /\ goto("menu")
  /\ UNCHANGED <<argc, show_help, last_session>>

Menu == MenuChoice \/ MenuInterval \/ MenuDuration \/ InvalidInput \/ EndOfInput

Sessions == BatchSessionEnds \/ LiveSessionEnds

Next == Environment \/ Arguments \/ Validate \/ Sessions \/ Menu

Spec == Init /\ [][Next]_vars

\* main runs on whenever it can.  That a session ends is what Session shows.
FairSpec == Spec /\ WF_vars(Next)

-----------------------------------------------------------------------------
TypeOK ==
  /\ config \in [server_name: Names, interval_ms: Int, duration_ms: Int,
                 non_interactive: BOOLEAN, iterations: Int]
  /\ pc \in {"SHM_SERVER_NAME", "SHM_INTERVAL_MS", "SHM_DURATION_MS",
             "SHM_NON_INTERACTIVE", "SHM_ITERATIONS", "args", "validate",
             "batch", "live", "menu", "menu_interval", "menu_duration", "exited"}
  /\ argc \in 1..MaxArgs
  /\ show_help \in BOOLEAN
  /\ pending \in Seq(Texts)
  /\ eof \in BOOLEAN
  /\ last_session \in {"NONE", "OK"} \cup Errors
  /\ exit_code \in {"NONE", "SUCCESS", "FAILURE"}

\* Every session, the first as well as one after any edits in the menu, gets a
\* configuration that the loop can work with: in range, with a name, and with
\* room for an interval unless the samples are counted.  The menu checks only
\* the field it edits (lines 457, 473), on a configuration put together from
\* defaults, an environment applied in part (lines 397-400) and options.
SessionConfigOK ==
  pc \in {"batch", "live"} =>
    /\ config.interval_ms \in MONITOR_MIN_INTERVAL_MS..MONITOR_MAX_INTERVAL_MS
    /\ config.duration_ms \in MONITOR_MIN_DURATION_MS..MONITOR_MAX_DURATION_MS
    /\ config.iterations \in 0..MONITOR_MAX_ITERATIONS
    /\ config.iterations = 0 => config.interval_ms <= config.duration_ms
    /\ config.server_name # ""

\* The live dashboard never shows a counted session: iterations imply the
\* non-interactive mode (the usage text, line 51), in whatever order the mode and
\* the iterations are set, by variables or by options.
LiveIsTimed == pc = "live" => config.iterations = 0

\* Exit code 0 is not given to a failed run: it means help, a batch session that
\* succeeded, or a user who chose to leave while there was input.
ExitHonest ==
  exit_code = "SUCCESS" /\ ~show_help =>
    IF config.non_interactive THEN last_session = "OK" ELSE ~eof

\* When the input has come to its end the program ends too: no prompt is
\* repeated forever, neither the menu's nor that of a question asked from it.
EndOfInputEnds == eof ~> pc = "exited"
=============================================================================
