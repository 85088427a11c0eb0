-------------------------- MODULE MonitorRunProofs --------------------------
(***************************************************************************)
(* Proofs about MonitorRun for all limits, inputs and bounds.  What has    *)
(* been proved of the program and of a session is used, not proved again:  *)
(* the run implements ServerMonitor, which therefore gives every session a *)
(* usable configuration, and that is all Session assumes.                  *)
(***************************************************************************)
EXTENDS MonitorRun, ServerMonitorProofs

P == INSTANCE SessionProofs WITH
  Configs <- UsableConfigs, config <- session_config, pc <- session_pc

\* Either there is no session, or one that main waits for, which has the
\* arguments main would pass now and keeps the invariant of a session.
SessionOK ==
  \/ session_pc = "idle" /\ session_config = no_session /\ status = "NONE"
  \/ /\ pc \in {"batch", "live"}
     /\ session_config = arguments
     /\ session_pc # "idle"
     /\ P!IInv

-----------------------------------------------------------------------------
\* What Session assumes of its constants holds of those it gets here.
LEMMA Assumptions == P!ConfigsAssumption /\ P!ClockAssumption
BY LimitsAssumption, RunAssumption, IterationsType
   DEF UsableConfigs, P!ConfigsAssumption, P!ClockAssumption

LEMMA SessionBegins == P!Init => P!IInv
BY Assumptions, P!InitIInv DEF P!ConfigsAssumption, P!ClockAssumption

LEMMA SessionGoesOn == P!IInv /\ [P!Next]_(P!vars) => P!IInv'
BY Assumptions, P!StepIInv DEF P!ConfigsAssumption, P!ClockAssumption

\* SessionProofs speaks of the same session as MonitorRun.
LEMMA SameSession == (S!Next => P!Next) /\ (P!TypeOK => S!TypeOK)
<1> USE DEF S!counted, P!counted, S!goto, P!goto, S!return, P!return,
            S!now_ms, P!now_ms, S!ReadErrors, P!ReadErrors
<1>1. S!EnterForLoop => P!EnterForLoop
  BY DEF S!EnterForLoop, P!EnterForLoop
<1>2. S!EnterDurationLoop => P!EnterDurationLoop
  BY DEF S!EnterDurationLoop, P!EnterDurationLoop
<1>3. S!CheckDeadline => P!CheckDeadline
  BY DEF S!CheckDeadline, P!CheckDeadline
<1>4. S!ReadCpu => P!ReadCpu
  BY DEF S!ReadCpu, P!ReadCpu
<1>5. S!ReadMemoryAndReport => P!ReadMemoryAndReport
  BY DEF S!ReadMemoryAndReport, P!ReadMemoryAndReport,
         S!remaining_shown, P!remaining_shown, S!sample_index, P!sample_index
<1>6. S!NextIteration => P!NextIteration
  BY DEF S!NextIteration, P!NextIteration
<1>7. S!AfterSample => P!AfterSample
  BY DEF S!AfterSample, P!AfterSample, S!sleep_duration, P!sleep_duration
<1>8. S!Nanosleep => P!Nanosleep
  BY DEF S!Nanosleep, P!Nanosleep
<1>9. S!WakeUp => P!WakeUp
  BY DEF S!WakeUp, P!WakeUp
<1>10. S!Interrupt => P!Interrupt
  BY DEF S!Interrupt, P!Interrupt
<1>11. S!Tick => P!Tick
  BY DEF S!Tick, P!Tick
<1>12. P!TypeOK => S!TypeOK
  BY DEF S!TypeOK, P!TypeOK
<1> QED
  BY <1>1, <1>2, <1>3, <1>4, <1>5, <1>6, <1>7, <1>8, <1>9, <1>10, <1>11, <1>12
     DEF S!Next, P!Next, S!Program, P!Program

\* What main passes, in whatever way it got there, is usable.
LEMMA ArgumentsUsable ==
  ASSUME IInv, pc \in {"batch", "live"}
  PROVE  arguments \in UsableConfigs
<1>1. /\ config \in ConfigSet
      /\ config.interval_ms \in MONITOR_MIN_INTERVAL_MS..MONITOR_MAX_INTERVAL_MS
      /\ config.duration_ms \in MONITOR_MIN_DURATION_MS..MONITOR_MAX_DURATION_MS
      /\ config.iterations \in 0..MONITOR_MAX_ITERATIONS
      /\ config.iterations = 0 => config.interval_ms <= config.duration_ms
  BY DEF IInv, Good, ModeOK, MenuLabels
<1>2. pc = "live" => config.iterations = 0
  BY NoIterations DEF IInv, ModeOK, MenuLabels
<1> QED
  BY <1>1, <1>2 DEF arguments, UsableConfigs

-----------------------------------------------------------------------------
\* With its sessions the run still does what ServerMonitor says of the program
\* (the safety part of ImplementsProgram; server_monitor.c 388-494).
THEOREM Implements == RunSpec => Spec
<1>1. RunInit => Init
  BY DEF RunInit
<1>2. [RunNext]_run_vars => [Next]_vars
  BY DEF RunNext, ProgramStep, Call, SessionStep, Return, Next, run_vars
<1> QED
  BY <1>1, <1>2, PTL DEF RunSpec, Spec

LEMMA ProgramInvariance == RunSpec => []IInv
BY Implements, Invariance, PTL

LEMMA InitSessionOK == RunInit => SessionOK
BY DEF RunInit, SessionOK

LEMMA StepSessionOK == IInv /\ SessionOK /\ [RunNext]_run_vars => SessionOK'
<1> SUFFICES ASSUME IInv, SessionOK, [RunNext]_run_vars PROVE SessionOK'
  OBVIOUS
<1>1. CASE ProgramStep
  <2>1. pc \notin {"batch", "live"}
    BY <1>1 DEF ProgramStep, Environment, EnvServerName, EnvInterval, EnvDuration,
       EnvNonInteractive, EnvIterations, Arguments, Help, NonInteractive, Server,
       Interval, Duration, Iterations, Option, BadArgument, ArgumentsDone, Validate,
       Menu, MenuChoice, MenuInterval, MenuDuration, InvalidInput, EndOfInput
  <2> QED
    BY <1>1, <2>1 DEF ProgramStep, SessionOK, session
<1>2. CASE Call
  <2>1. /\ pc \in {"batch", "live"} /\ UNCHANGED <<pc, config>>
        /\ session_config' = arguments
    BY <1>2 DEF Call, vars
  <2>2. session_config' \in UsableConfigs
    BY <2>1, ArgumentsUsable
  <2>3. P!Init'
    BY <1>2, <2>2 DEF Call, fresh_locals, P!Init
  <2>4. P!IInv'
    BY <2>3, SessionBegins, PTL
  <2>5. session_config' = arguments' /\ session_pc' # "idle"
    BY <1>2, <2>1 DEF Call, arguments
  <2> QED
    BY <2>1, <2>4, <2>5 DEF SessionOK
<1>3. CASE SessionStep
  <2>1. P!IInv /\ pc \in {"batch", "live"} /\ session_config = arguments
    BY <1>3 DEF SessionStep, SessionOK
  <2>2. P!IInv'
    BY <1>3, <2>1, SameSession, SessionGoesOn DEF SessionStep
  <2>3. session_config' = session_config /\ session_pc' # "idle"
    BY <1>3, SameSession DEF SessionStep, P!Next, P!Program, P!EnterForLoop,
       P!EnterDurationLoop, P!CheckDeadline, P!ReadCpu, P!ReadMemoryAndReport,
       P!NextIteration, P!AfterSample, P!Nanosleep, P!WakeUp, P!Interrupt, P!Tick,
       P!goto, P!return
  <2> QED
    BY <1>3, <2>1, <2>2, <2>3 DEF SessionStep, SessionOK, vars, arguments
<1>4. CASE Return
  BY <1>4 DEF Return, leave, fresh_locals, SessionOK
<1>5. CASE UNCHANGED run_vars
  <2>1. UNCHANGED vars /\ UNCHANGED session
    BY <1>5 DEF run_vars
  <2>2. P!IInv => P!IInv'
    BY <2>1, SessionGoesOn DEF session, P!vars
  <2> QED
    BY <2>1, <2>2 DEF SessionOK, vars, session, arguments
<1> QED
  BY <1>1, <1>2, <1>3, <1>4, <1>5 DEF RunNext

LEMMA RunInvariance == RunSpec => []SessionOK
BY InitSessionOK, StepSessionOK, ProgramInvariance, PTL DEF RunSpec

\* Every variable keeps its type, and every session has a configuration for
\* which it is proved correct: what Session assumes, main and
\* monitor_config_validate guarantee.
THEOREM RunTypeCorrect == RunSpec => []RunTypeOK
<1>1. IInv /\ SessionOK => RunTypeOK
  BY SameSession DEF IInv, SessionOK, RunTypeOK, P!IInv, P!ScheduleInv
<1> QED
  BY <1>1, ProgramInvariance, RunInvariance, PTL

\* Exit code 0 of a batch run is only given when the sampling that was asked for
\* has been done (server_monitor.c 423-431 with 288-386).
THEOREM Sampled == RunSpec => ExitMeansSampled
<1> DEFINE sampled == IF config.iterations > 0
                      THEN samples = config.iterations
                      ELSE now >= start_ms + config.duration_ms
<1>1. ASSUME IInv, SessionOK, [RunNext]_run_vars, pc = "batch", exit_code' = "SUCCESS"
      PROVE  sampled
  <2>1. exit_code = "NONE"
    BY <1>1 DEF IInv, ExitOK
  <2>2. Return
    BY <1>1, <2>1 DEF RunNext, ProgramStep, Call, SessionStep, run_vars, vars,
       Environment, EnvServerName, EnvInterval, EnvDuration, EnvNonInteractive,
       EnvIterations, Arguments, Help, NonInteractive, Server, Interval, Duration,
       Iterations, Option, BadArgument, ArgumentsDone, Validate,
       Menu, MenuChoice, MenuInterval, MenuDuration, InvalidInput, EndOfInput
  <2>3. status = "OK"
    BY <1>1, <2>2 DEF Return, Sessions, BatchSessionEnds, LiveSessionEnds, exit
  <2>4. P!CompletionHonest /\ session_config = arguments
    BY <1>1, <2>3 DEF SessionOK, P!IInv, P!ScheduleInv
  <2>5. session_config.iterations = config.iterations
        /\ session_config.duration_ms = config.duration_ms
    BY <2>4 DEF arguments
  <2> QED
    BY <2>3, <2>4, <2>5 DEF P!CompletionHonest, P!counted
<1> QED
  BY <1>1, ProgramInvariance, RunInvariance, PTL DEF RunSpec, ExitMeansSampled

\* Every session of a run, the first as well as one after any edits in the menu,
\* keeps its schedule: what holds of a session by itself holds of those that main
\* starts, as it never starts another kind.
OnSchedule ==
  session_pc # "idle" =>
    /\ S!SampleBudget /\ S!Spacing /\ S!IndexAdvances
    /\ S!OneLateSample /\ S!CompletionHonest

\* The sessions that main starts sample an interval apart, no more often than the
\* duration has room for, and succeed only when complete (server_monitor.c 288-386
\* called from 425 and 445).
THEOREM RunOnSchedule == RunSpec => []OnSchedule
<1>1. SessionOK => OnSchedule
  <2> SUFFICES ASSUME SessionOK, session_pc # "idle"
               PROVE  /\ S!SampleBudget /\ S!Spacing /\ S!IndexAdvances
                      /\ S!OneLateSample /\ S!CompletionHonest
    BY DEF OnSchedule
  <2>1. /\ P!SampleBudget /\ P!Spacing /\ P!IndexAdvances
        /\ P!OneLateSample /\ P!CompletionHonest
    BY Assumptions, P!IInvProperties DEF SessionOK, P!ConfigsAssumption, P!ClockAssumption
  <2> QED
    BY <2>1 DEF S!SampleBudget, P!SampleBudget, S!Spacing, P!Spacing, S!IndexAdvances,
       P!IndexAdvances, S!sample_index, P!sample_index, S!OneLateSample, P!OneLateSample,
       S!CompletionHonest, P!CompletionHonest, S!counted, P!counted, S!blind, P!blind
<1> QED
  BY RunInvariance, <1>1, PTL

\* With its real sessions the program still gives each of them a usable
\* configuration, shows timed ones only, and gives exit code 0 to no failed run.
THEOREM RunHonest == RunSpec => [](SessionConfigOK /\ LiveIsTimed /\ ExitHonest)
BY Implements, SessionConfigCorrect, LiveTimed, HonestExit, PTL
=============================================================================
