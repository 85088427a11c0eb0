------------------------- MODULE ServerMonitorProofs -------------------------
(***************************************************************************)
(* Proofs about ServerMonitor for all limits that satisfy LimitsAssumption *)
(* and all texts and lines: no session starts with a configuration it      *)
(* cannot work with, and exit code 0 is given to successful runs only.     *)
(***************************************************************************)
EXTENDS ServerMonitor, TLAPS

EnvLabels == {"SHM_SERVER_NAME", "SHM_INTERVAL_MS", "SHM_DURATION_MS",
              "SHM_NON_INTERACTIVE", "SHM_ITERATIONS"}

MenuLabels == {"live", "menu", "menu_interval", "menu_duration"}

ConfigSet == [server_name: Names, interval_ms: Int, duration_ms: Int,
              non_interactive: BOOLEAN, iterations: Int]

\* Each field is in its range from the start, before any validation: a value
\* out of range is never assigned; and iterations imply the non-interactive mode.
Good(c) ==
  /\ c \in ConfigSet
  /\ c.interval_ms \in MONITOR_MIN_INTERVAL_MS..MONITOR_MAX_INTERVAL_MS
  /\ c.duration_ms \in MONITOR_MIN_DURATION_MS..MONITOR_MAX_DURATION_MS
  /\ c.iterations \in 0..MONITOR_MAX_ITERATIONS
  /\ c.server_name # ""
  /\ c.iterations > 0 => c.non_interactive

\* SHM_NON_INTERACTIVE, which may turn the mode off, is read before any number
\* of iterations; the menu and the batch session come after validation.
ModeOK ==
  /\ pc \in EnvLabels => config.iterations = 0
  /\ pc = "batch" => config.non_interactive
  /\ pc \in MenuLabels => ~config.non_interactive
  /\ pc \in {"batch"} \cup MenuLabels =>
       (config.iterations = 0 => config.interval_ms <= config.duration_ms)

\* How the program may come to its exit.
ExitOK ==
  /\ pc # "exited" => exit_code = "NONE" /\ ~show_help
  /\ ExitHonest

IInv == TypeOK /\ Good(config) /\ ModeOK /\ ExitOK

-----------------------------------------------------------------------------
LEMMA IterationsType == MONITOR_MAX_ITERATIONS \in Nat
BY LimitsAssumption DEF MONITOR_MAX_ITERATIONS

\* A text that parse_int_range accepts is a number of the range.
LEMMA ParseRange ==
  ASSUME NEW text, NEW min \in Int, NEW max \in Int,
         parse_int_range(text, min, max) = "OK"
  PROVE  strtol[text] \in Int /\ strtol[text] \in min..max
BY InputAssumption DEF parse_int_range

\* The defaults are a good configuration.
LEMMA GoodInit == Good(monitor_config_init)
BY LimitsAssumption, InputAssumption, IterationsType
   DEF Good, ConfigSet, monitor_config_init

\* An assignment of a valid value keeps a configuration good.
LEMMA NameUpdate ==
  ASSUME Good(config), NEW text \in Names \ {""}
  PROVE  /\ Good(with_server(text))
         /\ with_server(text).iterations = config.iterations
BY DEF Good, ConfigSet, with_server

LEMMA IntervalUpdate ==
  ASSUME Good(config), NEW text, interval_ok(text)
  PROVE  /\ Good(with_interval(text))
         /\ with_interval(text).interval_ms = strtol[text] /\ strtol[text] \in Int
         /\ with_interval(text).duration_ms = config.duration_ms
         /\ with_interval(text).iterations = config.iterations
         /\ with_interval(text).non_interactive = config.non_interactive
<1>1. /\ strtol[text] \in Int
      /\ strtol[text] \in MONITOR_MIN_INTERVAL_MS..MONITOR_MAX_INTERVAL_MS
  BY LimitsAssumption, ParseRange DEF interval_ok
<1> QED
  BY <1>1 DEF Good, ConfigSet, with_interval

LEMMA DurationUpdate ==
  ASSUME Good(config), NEW text, duration_ok(text)
  PROVE  /\ Good(with_duration(text))
         /\ with_duration(text).duration_ms = strtol[text] /\ strtol[text] \in Int
         /\ with_duration(text).interval_ms = config.interval_ms
         /\ with_duration(text).iterations = config.iterations
         /\ with_duration(text).non_interactive = config.non_interactive
<1>1. /\ strtol[text] \in Int
      /\ strtol[text] \in MONITOR_MIN_DURATION_MS..MONITOR_MAX_DURATION_MS
  BY LimitsAssumption, ParseRange DEF duration_ok
<1> QED
  BY <1>1 DEF Good, ConfigSet, with_duration

LEMMA ModeUpdate ==
  ASSUME Good(config), NEW flag \in BOOLEAN, config.iterations = 0 \/ flag
  PROVE  /\ Good([config EXCEPT !.non_interactive = flag])
         /\ [config EXCEPT !.non_interactive = flag].iterations = config.iterations
<1> DEFINE c == [config EXCEPT !.non_interactive = flag]
<1>1. c \in ConfigSet
  BY DEF Good, ConfigSet
<1>2. /\ c.interval_ms = config.interval_ms
      /\ c.duration_ms = config.duration_ms
      /\ c.iterations = config.iterations
      /\ c.server_name = config.server_name
  BY DEF Good, ConfigSet
<1>3. c.iterations > 0 => c.non_interactive
  <2>1. c.non_interactive = flag
    BY DEF Good, ConfigSet
  <2>2. config.iterations = 0 => ~(config.iterations > 0)
    OBVIOUS
  <2> HIDE DEF c
  <2> QED
    BY <1>2, <2>1, <2>2
<1> HIDE DEF c
<1>4. Good(c) /\ c.iterations = config.iterations
  BY <1>1, <1>2, <1>3 DEF Good
<1> QED
  BY <1>4 DEF c

LEMMA IterationsUpdate ==
  ASSUME Good(config), NEW text, iterations_ok(text)
  PROVE  Good(with_iterations(text))
<1>1. strtol[text] \in Int /\ strtol[text] \in 1..MONITOR_MAX_ITERATIONS
  BY IterationsType, ParseRange DEF iterations_ok
<1>2. strtol[text] \in 0..MONITOR_MAX_ITERATIONS
  BY <1>1, IterationsType
<1> QED
  BY <1>1, <1>2 DEF Good, ConfigSet, with_iterations

\* Without the non-interactive mode there are no iterations.
LEMMA NoIterations ==
  ASSUME Good(config), ~config.non_interactive PROVE config.iterations = 0
<1>1. config.iterations \in Int /\ config.iterations >= 0
  <2>1. config.iterations \in 0..MONITOR_MAX_ITERATIONS
    BY Zenon DEF Good
  <2> QED
    BY <2>1, IterationsType
<1>2. ~(config.iterations > 0)
  BY Zenon DEF Good
<1> QED
  BY <1>1, <1>2

-----------------------------------------------------------------------------
LEMMA InitIInv == Init => IInv
<1> SUFFICES ASSUME Init PROVE IInv
  OBVIOUS
<1>0. argc \in 1..MaxArgs
  BY InputAssumption DEF Init
<1>1. Good(config)
  BY GoodInit DEF Init
<1>2. pending \in Seq(Texts)
  BY DEF Init
<1>3. show_help \in BOOLEAN /\ eof \in BOOLEAN
  BY DEF Init
<1>4. TypeOK
  BY <1>0, <1>1, <1>2, <1>3 DEF Init, TypeOK, Good, ConfigSet
<1>5. ModeOK /\ ExitOK
  BY DEF Init, monitor_config_init, ModeOK, ExitOK, ExitHonest, EnvLabels, MenuLabels
<1> QED
  BY <1>1, <1>4, <1>5 DEF IInv

\* A step before validation keeps the invariant if it leaves a good
\* configuration, and no iterations as long as the environment is read.
LEMMA SetupStep ==
  ASSUME IInv, Good(config)', argc' \in 1..MaxArgs,
         UNCHANGED <<pending, eof, last_session>>,
         \/ /\ pc # "exited"
            /\ UNCHANGED <<show_help, exit_code>>
            /\ pc' \in EnvLabels \cup {"args", "validate"}
            /\ pc' \in EnvLabels => config'.iterations = 0
         \/ /\ pc # "exited" /\ UNCHANGED show_help
            /\ pc' = "exited" /\ exit_code' = "FAILURE"
         \/ /\ show_help' = TRUE
            /\ pc' = "exited" /\ exit_code' = "SUCCESS"
  PROVE  IInv'
<1>1. show_help' \in BOOLEAN /\ exit_code' \in {"NONE", "SUCCESS", "FAILURE"}
  BY DEF IInv, TypeOK
<1>2. pc' \in EnvLabels \cup {"args", "validate", "exited"}
  OBVIOUS
<1>3. TypeOK'
  BY <1>1, <1>2 DEF IInv, TypeOK, Good, ConfigSet, EnvLabels
<1>4. ModeOK'
  BY <1>2 DEF ModeOK, EnvLabels, MenuLabels
<1>5. ExitOK'
  BY DEF IInv, ExitOK, ExitHonest, EnvLabels
<1> QED
  BY <1>3, <1>4, <1>5 DEF IInv

\* The environment, applied in full or in part, keeps the invariant.
LEMMA EnvironmentStep == IInv /\ Environment => IInv'
<1> SUFFICES ASSUME IInv, Environment PROVE IInv'
  OBVIOUS
<1>0. /\ Good(config) /\ pc \in EnvLabels /\ config.iterations = 0
      /\ argc' \in 1..MaxArgs /\ UNCHANGED <<argc, show_help, exit_code>>
      /\ UNCHANGED <<pending, eof, last_session>>
      /\ pc' \in EnvLabels \cup {"args"}
  BY DEF IInv, TypeOK, ModeOK, EnvLabels, Environment, EnvServerName, EnvInterval,
     EnvDuration, EnvNonInteractive, EnvIterations, env_unchanged, goto
<1> SUFFICES Good(config)' /\ (pc' \in EnvLabels => config'.iterations = 0)
  BY <1>0, SetupStep DEF EnvLabels
<1>1. CASE UNCHANGED config
  BY <1>0, <1>1 DEF Good, ConfigSet
<1>2. CASE EnvServerName /\ config' # config
  <2>1. PICK text \in Names \ {""} : config' = with_server(text)
    BY <1>2 DEF EnvServerName, with_server
  <2> QED
    BY <1>0, <2>1, NameUpdate DEF Good, ConfigSet
<1>3. CASE EnvInterval /\ config' # config
  <2>1. PICK text \in Texts : interval_ok(text) /\ config' = with_interval(text)
    BY <1>3 DEF EnvInterval
  <2> QED
    BY <1>0, <2>1, IntervalUpdate DEF Good, ConfigSet
<1>4. CASE EnvDuration /\ config' # config
  <2>1. PICK text \in Texts : duration_ok(text) /\ config' = with_duration(text)
    BY <1>4 DEF EnvDuration
  <2> QED
    BY <1>0, <2>1, DurationUpdate DEF Good, ConfigSet
<1>5. CASE EnvNonInteractive /\ config' # config
  <2>1. PICK text \in Texts :
          config' = [config EXCEPT !.non_interactive = text \in TrueWords]
    BY <1>5 DEF EnvNonInteractive
  <2>2. (text \in TrueWords) \in BOOLEAN
    OBVIOUS
  <2> QED
    BY <1>0, <2>1, <2>2, ModeUpdate DEF Good, ConfigSet
<1>6. CASE EnvIterations /\ config' # config
  <2>1. PICK text \in Texts : iterations_ok(text) /\ config' = with_iterations(text)
    BY <1>6 DEF EnvIterations
  <2>2. pc' = "args"
    BY <1>6 DEF EnvIterations, goto
  <2> QED
    BY <1>0, <2>1, <2>2, IterationsUpdate DEF Good, ConfigSet, EnvLabels
<1> QED
  BY <1>1, <1>2, <1>3, <1>4, <1>5, <1>6 DEF Environment

\* So do the options, up to the first that is refused.
LEMMA ArgumentsStep == IInv /\ Arguments => IInv'
<1> SUFFICES ASSUME IInv, Arguments PROVE IInv'
  OBVIOUS
<1>a. argc' \in 1..MaxArgs
  <2>1. argc \in 1..MaxArgs /\ MaxArgs \in Nat
    BY InputAssumption DEF IInv, TypeOK
  <2>2. \/ argc' = argc
        \/ argc < MaxArgs /\ argc' = argc + 1
        \/ argc + 1 < MaxArgs /\ argc' = argc + 2
    BY DEF Arguments, Help, NonInteractive, Option, Server, Interval, Duration,
       Iterations, BadArgument, ArgumentsDone, args_unchanged, has_value
  <2> QED
    BY <2>1, <2>2
<1>0. /\ Good(config) /\ pc = "args" /\ argc' \in 1..MaxArgs
      /\ UNCHANGED <<pending, eof, last_session>>
  BY <1>a DEF IInv, TypeOK, Arguments, Help, NonInteractive, Option, Server, Interval,
     Duration, Iterations, BadArgument, ArgumentsDone, args_unchanged
<1>1. ASSUME UNCHANGED config, exit("FAILURE"), UNCHANGED show_help
      PROVE  IInv'
  BY <1>0, <1>1, SetupStep DEF Good, ConfigSet, exit
<1>2. ASSUME Good(config'), goto("args"), UNCHANGED show_help
      PROVE  IInv'
  BY <1>0, <1>2, SetupStep DEF Good, ConfigSet, goto, EnvLabels
<1>3. CASE Help
  BY <1>0, <1>3, SetupStep DEF Help, exit, Good, ConfigSet
<1>4. CASE NonInteractive
  <2>1. Good(config')
    BY <1>0, <1>4, ModeUpdate DEF NonInteractive
  <2> QED
    BY <1>2, <1>4, <2>1 DEF NonInteractive
<1>5. CASE Server
  <2>1. CASE exit("FAILURE") /\ UNCHANGED config
    BY <1>1, <1>5, <2>1 DEF Server, Option
  <2>2. CASE goto("args") /\ config' \in {with_server(text) : text \in Names \ {""}}
    BY <1>0, <1>2, <1>5, <2>2, NameUpdate DEF Server, Option
  <2> QED
    BY <1>5, <2>1, <2>2 DEF Server, Option
<1>6. CASE Interval
  <2>1. CASE exit("FAILURE") /\ UNCHANGED config
    BY <1>1, <1>6, <2>1 DEF Interval, Option
  <2>2. CASE goto("args") /\ \E text \in Texts : interval_ok(text) /\ config' = with_interval(text)
    BY <1>0, <1>2, <1>6, <2>2, IntervalUpdate DEF Interval, Option
  <2> QED
    BY <1>6, <2>1, <2>2 DEF Interval, Option
<1>7. CASE Duration
  <2>1. CASE exit("FAILURE") /\ UNCHANGED config
    BY <1>1, <1>7, <2>1 DEF Duration, Option
  <2>2. CASE goto("args") /\ \E text \in Texts : duration_ok(text) /\ config' = with_duration(text)
    BY <1>0, <1>2, <1>7, <2>2, DurationUpdate DEF Duration, Option
  <2> QED
    BY <1>7, <2>1, <2>2 DEF Duration, Option
<1>8. CASE Iterations
  <2>1. CASE exit("FAILURE") /\ UNCHANGED config
    BY <1>1, <1>8, <2>1 DEF Iterations, Option
  <2>2. CASE goto("args") /\ \E text \in Texts : iterations_ok(text) /\ config' = with_iterations(text)
    BY <1>0, <1>2, <1>8, <2>2, IterationsUpdate DEF Iterations, Option
  <2> QED
    BY <1>8, <2>1, <2>2 DEF Iterations, Option
<1>9. CASE BadArgument
  BY <1>1, <1>9 DEF BadArgument
<1>10. CASE ArgumentsDone
  BY <1>0, <1>10, SetupStep DEF ArgumentsDone, goto, EnvLabels, Good, ConfigSet
<1> QED
  BY <1>3, <1>4, <1>5, <1>6, <1>7, <1>8, <1>9, <1>10 DEF Arguments

\* Validation lets only configurations pass that a session can work with.
LEMMA ValidateStep == IInv /\ Validate => IInv'
<1> SUFFICES ASSUME IInv, Validate PROVE IInv'
  OBVIOUS
<1>1. /\ Good(config) /\ pc = "validate"
      /\ UNCHANGED <<config, argc, show_help, pending, eof, last_session>>
  BY DEF IInv, Validate
<1>2. CASE monitor_config_validate(config) # "OK"
  BY <1>1, <1>2, SetupStep DEF Validate, exit, IInv, TypeOK, Good, ConfigSet
<1>3. CASE monitor_config_validate(config) = "OK"
  <2>1. config.iterations = 0 => config.interval_ms <= config.duration_ms
    <3>1. ~(config.iterations = 0 /\ config.duration_ms < config.interval_ms)
      <4> HIDE <1>1
      <4> QED
        BY <1>3, Zenon DEF monitor_config_validate
    <3>2. config.interval_ms \in Int /\ config.duration_ms \in Int
      BY <1>1 DEF Good, ConfigSet
    <3> QED
      BY <3>1, <3>2
  <2>2. /\ pc' = IF config.non_interactive THEN "batch" ELSE "menu"
        /\ UNCHANGED exit_code
    BY <1>3 DEF Validate, goto
  <2>3. TypeOK' /\ Good(config)'
    BY <1>1, <2>2 DEF IInv, TypeOK, Good, ConfigSet
  <2>4. ModeOK'
    BY <1>1, <2>1, <2>2 DEF ModeOK, EnvLabels, MenuLabels
  <2>5. ExitOK'
    BY <1>1, <2>2 DEF IInv, ExitOK, ExitHonest
  <2> QED
    BY <2>3, <2>4, <2>5 DEF IInv
<1> QED
  BY <1>2, <1>3

\* The end of a session keeps the invariant.
LEMMA SessionsStep == IInv /\ Sessions => IInv'
<1> SUFFICES ASSUME IInv, Sessions PROVE IInv'
  OBVIOUS
<1>1. /\ UNCHANGED <<config, argc, show_help, pending, eof>>
      /\ last_session' \in {"OK"} \cup Errors
      /\ pc' \in {"menu", "exited"}
      /\ exit_code' \in {"NONE", "SUCCESS", "FAILURE"}
  BY DEF IInv, TypeOK, Sessions, BatchSessionEnds, LiveSessionEnds, exit, goto
<1>2. TypeOK' /\ Good(config)'
  BY <1>1 DEF IInv, TypeOK, Good, ConfigSet
<1>3. ModeOK'
  BY <1>1 DEF IInv, ModeOK, Sessions, BatchSessionEnds, LiveSessionEnds, exit, goto,
     EnvLabels, MenuLabels
<1>4. ExitOK'
  <2>1. CASE BatchSessionEnds
    \* Only a status of OK makes the exit code 0, and the mode is not live.
    BY <1>1, <2>1 DEF BatchSessionEnds, exit, IInv, ModeOK, ExitOK, ExitHonest
  <2>2. CASE LiveSessionEnds
    BY <1>1, <2>2 DEF LiveSessionEnds, goto, IInv, ExitOK, ExitHonest
  <2> QED
    BY <2>1, <2>2 DEF Sessions
<1> QED
  BY <1>2, <1>3, <1>4 DEF IInv

\* The menu keeps the invariant: the interval stays within the duration, and the
\* only way to exit code 0 is choice 5.
LEMMA MenuStep == IInv /\ Menu => IInv'
<1> SUFFICES ASSUME IInv, Menu PROVE IInv'
  OBVIOUS
<1>0. /\ Good(config) /\ ~config.non_interactive /\ exit_code = "NONE" /\ ~show_help
      /\ config.iterations = 0 /\ config.interval_ms <= config.duration_ms
      /\ pc \in {"menu", "menu_interval", "menu_duration"}
      /\ UNCHANGED <<argc, show_help, last_session>>
  <2>1. /\ pc \in {"menu", "menu_interval", "menu_duration"}
        /\ UNCHANGED <<argc, show_help, last_session>>
    BY DEF Menu, MenuChoice, MenuInterval, MenuDuration, InvalidInput, EndOfInput
  <2>2. Good(config) /\ ~config.non_interactive
    BY <2>1 DEF IInv, ModeOK, MenuLabels
  <2>3. config.iterations = 0
    BY <2>2, NoIterations
  <2> QED
    BY <2>1, <2>2, <2>3 DEF IInv, ModeOK, ExitOK, MenuLabels
<1>1. ASSUME NEW text, fgets(text) PROVE pending' \in Seq(Texts) /\ ~eof /\ UNCHANGED eof
  <2>1. pending \in Seq(Texts)
    BY DEF IInv, TypeOK
  <2>2. CASE pending # <<>>
    BY <1>1, <2>1, <2>2 DEF fgets
  <2>3. CASE pending = <<>>
    <3>1. PICK line \in Lines : pending' = Tail(line)
      BY <1>1, <2>3 DEF fgets
    <3>2. line \in Seq(Texts) /\ line # <<>>
      BY InputAssumption
    <3> QED
      BY <1>1, <3>1, <3>2 DEF fgets
  <2> QED
    BY <2>2, <2>3
\* What each action has to show of the fields that change.
<1>2. ASSUME Good(config'), UNCHANGED config.non_interactive, UNCHANGED config.iterations,
             config'.interval_ms <= config'.duration_ms,
             pending' \in Seq(Texts), eof' \in BOOLEAN,
             \/ pc' \in MenuLabels /\ UNCHANGED exit_code
             \/ pc' = "exited" /\ exit_code' = "SUCCESS" /\ ~eof'
             \/ pc' = "exited" /\ exit_code' = "FAILURE"
      PROVE  IInv'
  <2>1. TypeOK'
    BY <1>0, <1>2 DEF IInv, TypeOK, Good, ConfigSet, MenuLabels
  <2>2. ModeOK'
    BY <1>0, <1>2 DEF ModeOK, EnvLabels, MenuLabels
  <2>3. ExitOK'
    BY <1>0, <1>2 DEF ExitOK, ExitHonest, MenuLabels
  <2> QED
    BY <1>2, <2>1, <2>2, <2>3 DEF IInv, Good, ConfigSet
<1>3. CASE MenuChoice
  <2>1. PICK text \in Texts :
          /\ get_integer_input(1, 5, text)
          /\ \/ goto("live") \/ goto("menu_interval") \/ goto("menu_duration")
             \/ goto("menu") \/ exit("SUCCESS")
    <3>1. PICK text \in Texts :
            /\ get_integer_input(1, 5, text)
            /\ CASE strtol[text] = 1 -> goto("live")
                 [] strtol[text] = 2 -> goto("menu_interval")
                 [] strtol[text] = 3 -> goto("menu_duration")
                 [] strtol[text] = 4 -> goto("menu")
                 [] strtol[text] = 5 -> exit("SUCCESS")
      BY <1>3 DEF MenuChoice
    <3>2. strtol[text] \in {1, 2, 3, 4, 5}
      <4>1. strtol[text] \in Int /\ strtol[text] \in 1..5
        <5>1. parse_int_range(text, 1, 5) = "OK"
          BY <3>1, Zenon DEF get_integer_input
        <5> QED
          BY <5>1, ParseRange
      <4> QED
        BY <4>1
    <3> QED
      BY <3>1, <3>2
  <2>2. UNCHANGED config
    BY <1>3 DEF MenuChoice
  <2> QED
    BY <1>0, <1>1, <1>2, <2>1, <2>2 DEF get_integer_input, goto, exit, MenuLabels,
       IInv, TypeOK
<1>4. CASE MenuInterval
  <2>1. PICK text \in Texts :
          /\ get_integer_input(MONITOR_MIN_INTERVAL_MS, MONITOR_MAX_INTERVAL_MS, text)
          /\ config' = IF strtol[text] > config.duration_ms THEN config
                                                            ELSE with_interval(text)
    BY <1>4 DEF MenuInterval
  <2>2. interval_ok(text)
    BY <2>1 DEF get_integer_input, interval_ok
  <2>3. strtol[text] \in Int /\ config.duration_ms \in Int
    BY <1>0, <2>2, IntervalUpdate DEF Good, ConfigSet
  <2>4. /\ Good(config') /\ UNCHANGED config.non_interactive /\ UNCHANGED config.iterations
        /\ config'.interval_ms <= config'.duration_ms
    BY <1>0, <2>1, <2>2, <2>3, IntervalUpdate
  <2>5. /\ pending' \in Seq(Texts) /\ eof' \in BOOLEAN
        /\ pc' \in MenuLabels /\ UNCHANGED exit_code
    BY <1>1, <1>4, <2>1 DEF MenuInterval, get_integer_input, goto, MenuLabels,
       IInv, TypeOK
  <2> QED
    BY <1>2, <2>4, <2>5
<1>5. CASE MenuDuration
  <2>1. PICK text \in Texts :
          /\ get_integer_input(MONITOR_MIN_DURATION_MS, MONITOR_MAX_DURATION_MS, text)
          /\ config' = IF strtol[text] < config.interval_ms THEN config
                                                            ELSE with_duration(text)
    BY <1>5 DEF MenuDuration
  <2>2. duration_ok(text)
    BY <2>1 DEF get_integer_input, duration_ok
  <2>3. strtol[text] \in Int /\ config.interval_ms \in Int
    BY <1>0, <2>2, DurationUpdate DEF Good, ConfigSet
  <2>4. /\ Good(config') /\ UNCHANGED config.non_interactive /\ UNCHANGED config.iterations
        /\ config'.interval_ms <= config'.duration_ms
    BY <1>0, <2>1, <2>2, <2>3, DurationUpdate
  <2>5. /\ pending' \in Seq(Texts) /\ eof' \in BOOLEAN
        /\ pc' \in MenuLabels /\ UNCHANGED exit_code
    BY <1>1, <1>5, <2>1 DEF MenuDuration, get_integer_input, goto, MenuLabels,
       IInv, TypeOK
  <2> QED
    BY <1>2, <2>4, <2>5
<1>6. CASE InvalidInput
  <2>1. pending' \in Seq(Texts) /\ UNCHANGED eof
    BY <1>1, <1>6 DEF InvalidInput
  <2> QED
    BY <1>0, <1>2, <1>6, <2>1 DEF InvalidInput, MenuLabels, IInv, TypeOK
<1>7. CASE EndOfInput
  BY <1>0, <1>2, <1>7 DEF EndOfInput, exit, goto, MenuLabels, IInv, TypeOK
<1> QED
  BY <1>3, <1>4, <1>5, <1>6, <1>7 DEF Menu

-----------------------------------------------------------------------------
\* The invariant holds in every reachable state.
THEOREM Invariance == Spec => []IInv
<1>1. IInv /\ UNCHANGED vars => IInv'
  <2> SUFFICES ASSUME IInv, UNCHANGED vars PROVE IInv'
    OBVIOUS
  <2>1. TypeOK' /\ Good(config)'
    BY DEF vars, IInv, TypeOK, Good, ConfigSet
  <2>2. ModeOK' /\ ExitOK'
    BY DEF vars, IInv, ModeOK, ExitOK, ExitHonest
  <2> QED
    BY <2>1, <2>2 DEF IInv
<1>2. IInv /\ [Next]_vars => IInv'
  BY <1>1, EnvironmentStep, ArgumentsStep, ValidateStep, SessionsStep, MenuStep DEF Next
<1> QED
  BY InitIInv, <1>2, PTL DEF Spec

\* Every variable keeps its type.
THEOREM TypeCorrect == Spec => []TypeOK
<1>1. IInv => TypeOK
  BY DEF IInv
<1> QED
  BY Invariance, <1>1, PTL

\* No session, at any time of any run, starts with a configuration that its
\* loop cannot work with (monitor_config_validate and server_monitor.c 457, 473).
THEOREM SessionConfigCorrect == Spec => []SessionConfigOK
<1>1. IInv => SessionConfigOK
  BY DEF IInv, Good, ModeOK, MenuLabels, SessionConfigOK
<1> QED
  BY Invariance, <1>1, PTL

\* The live dashboard is never asked to count samples, so that branch of the
\* loop is dead (server_monitor.c 302-318).
THEOREM LiveTimed == Spec => []LiveIsTimed
<1>1. IInv => LiveIsTimed
  BY NoIterations DEF IInv, ModeOK, MenuLabels, LiveIsTimed
<1> QED
  BY Invariance, <1>1, PTL

\* Exit code 0 is given to successful runs only (server_monitor.c 404-434, 493).
THEOREM HonestExit == Spec => []ExitHonest
<1>1. IInv => ExitHonest
  BY DEF IInv, ExitOK
<1> QED
  BY Invariance, <1>1, PTL
=============================================================================
