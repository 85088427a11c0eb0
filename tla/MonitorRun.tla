----------------------------- MODULE MonitorRun -----------------------------
(***************************************************************************)
(* A whole run of server_monitor: the program of module ServerMonitor, in  *)
(* which a session is now a call of monitor_server_health that goes        *)
(* through the steps of module Session, with the configuration main has by *)
(* then, and whose status is what the call returns.                        *)
(*                                                                         *)
(* The clock matters only within a session, which computes with            *)
(* differences, so each session begins at any of StartTimes.               *)
(***************************************************************************)
EXTENDS ServerMonitor

CONSTANTS
  StartTimes,    \* values of the monotonic clock when a session begins
  Horizon,       \* bound: a session never stalls outside a sleep past this time
  MaxOversleep   \* bound: how late the kernel may end a sleep

ASSUME RunAssumption ==
  /\ StartTimes \subseteq Nat /\ StartTimes # {}
  /\ Horizon \in Nat
  /\ MaxOversleep \in Nat

VARIABLES
  session_config, session_pc,             \* arguments and progress of the call
  now, start_ms, elapsed, samples,        \* see Session
  announced, req, until, reported_at, top_index, status

session ==
  <<session_config, session_pc, now, start_ms, elapsed, samples, announced,
    req, until, reported_at, top_index, status>>

run_vars == <<vars, session>>

\* The configurations a session can work with.  Session takes this for granted.
UsableConfigs ==
  {c \in [interval_ms : MONITOR_MIN_INTERVAL_MS..MONITOR_MAX_INTERVAL_MS,
          duration_ms : MONITOR_MIN_DURATION_MS..MONITOR_MAX_DURATION_MS,
          iterations  : 0..MONITOR_MAX_ITERATIONS,
          live_output : BOOLEAN] :
     /\ c.iterations = 0 => c.interval_ms <= c.duration_ms
     /\ c.live_output => c.iterations = 0}

S == INSTANCE Session WITH
  Configs <- UsableConfigs, config <- session_config, pc <- session_pc

\* Mutant: the interval and the duration are swapped.
arguments_swapped ==
  [interval_ms |-> config.duration_ms, duration_ms |-> config.interval_ms,
   iterations |-> config.iterations, live_output |-> pc = "live"]

\* What main passes: monitor_server_health(&config, false) in batch mode, and
\* monitor_server_health(&config, true) from the menu.
arguments ==
  [interval_ms |-> config.interval_ms, duration_ms |-> config.duration_ms,
   iterations |-> config.iterations, live_output |-> pc = "live"]

no_session ==
  [interval_ms |-> 0, duration_ms |-> 0, iterations |-> 0, live_output |-> FALSE]

\* The locals of the call when it begins; the same values while there is none.
fresh_locals ==
  /\ start_ms' = 0 /\ elapsed' = 0 /\ samples' = 0
  /\ announced' = -1
  /\ req' = 0 /\ until' = 0 /\ reported_at' = 0 /\ top_index' = 0
  /\ status' = "NONE"

RunInit ==
  /\ Init
  /\ session_config = no_session
  /\ session_pc = "idle"
  /\ now = 0 /\ start_ms = 0 /\ elapsed = 0 /\ samples = 0
  /\ announced = -1
  /\ req = 0 /\ until = 0 /\ reported_at = 0 /\ top_index = 0
  /\ status = "NONE"

-----------------------------------------------------------------------------
\* Everything main does but run a session.
ProgramStep ==
  /\ Environment \/ Arguments \/ Validate \/ Menu
  /\ UNCHANGED session

Call ==
  /\ pc \in {"batch", "live"}
  /\ session_pc = "idle"
  /\ session_config' = arguments
  /\ session_pc' = "start"
  /\ now' \in StartTimes
  /\ fresh_locals
  /\ UNCHANGED vars

SessionStep ==
  /\ session_pc # "idle"
  /\ S!Next
  /\ UNCHANGED vars

leave ==
  /\ session_config' = no_session
  /\ session_pc' = "idle"
  /\ now' = 0
  /\ fresh_locals

\* Mutant: main does not wait for the session it started.
Return_early ==
  /\ session_pc # "idle"
  /\ Sessions
  /\ last_session' = IF status = "NONE" THEN "OK" ELSE status
  /\ leave

\* Mutant: an error of any session ends the program.
Return_fatal ==
  /\ session_pc = "done"
  /\ last_session' = status
  /\ \/ Sessions /\ status = "OK"
     \/ /\ status # "OK" /\ exit("FAILURE")
        /\ UNCHANGED <<config, argc, show_help, pending, eof>>
  /\ leave

\* The call returns its status to the place in main it was made from.
Return ==
  /\ session_pc = "done"
  /\ Sessions
  /\ last_session' = status
  /\ leave

RunNext == ProgramStep \/ Call \/ SessionStep \/ Return

RunSpec == RunInit /\ [][RunNext]_run_vars

\* The process goes on whenever it can, and a sleep comes to its end.
RunFairSpec ==
  /\ RunSpec
  /\ WF_run_vars(ProgramStep \/ Call \/ Return)
  /\ S!Fairness

-----------------------------------------------------------------------------
\* The type invariant.  While a session runs it includes that of Session, hence
\* that main only passes configurations from which no session goes wrong.
RunTypeOK ==
  /\ TypeOK
  /\ \/ session_pc = "idle" /\ session_config = no_session /\ status = "NONE"
     \/ S!TypeOK /\ pc \in {"batch", "live"}

\* What a script learns from exit code 0 of a non-interactive run: exactly the
\* samples that the options and variables ask for were taken, or the configured
\* time has passed on the clock.  It takes the option parsing, the loop, its
\* failure exits and main's look at the status to make this true (lines 423-431).
ExitMeansSampled ==
  [][pc = "batch" /\ exit_code' = "SUCCESS" =>
       IF config.iterations > 0
       THEN samples = config.iterations
       ELSE now >= start_ms + config.duration_ms]_run_vars

\* The run with its sessions is a run of the program as ServerMonitor sees it:
\* in particular every session ends, so main always gets on.
ImplementsProgram == FairSpec
=============================================================================
