------------------------------- MODULE Session -------------------------------
(***************************************************************************)
(* One call of monitor_server_health (server_monitor.c): the sampling loop *)
(* that reads CPU and memory, reports, and sleeps until the next sample.   *)
(* With config.iterations > 0 it takes that many samples; otherwise it     *)
(* samples until config.duration_ms have passed on the monotonic clock.    *)
(*                                                                         *)
(* Time is the millisecond value of CLOCK_MONOTONIC.  Program steps take   *)
(* no time; Ticks let any amount of it pass before any of them.  A call of *)
(* now_ms may fail, a read of /proc may fail, a sleep may be interrupted   *)
(* by a signal or last longer than requested.                              *)
(***************************************************************************)
EXTENDS Integers

CONSTANTS
  Configs,       \* the <<MonitorConfig, live_output>> pairs a call may get, as records
  StartTimes,    \* values of the monotonic clock when the call begins
  Horizon,       \* bound: the program never stalls outside a sleep past this time
  MaxOversleep   \* bound: how late the kernel may end a sleep

\* What monitor_config_validate guarantees of the fields used here, and the
\* fact that a clock reading is never negative unless the call failed.
ASSUME ConfigsAssumption ==
  \A c \in Configs : /\ c.interval_ms \in Nat \ {0}
                     /\ c.duration_ms \in Nat \ {0}
                     /\ c.iterations \in Nat
                     /\ c.live_output \in BOOLEAN

ASSUME ClockAssumption ==
  /\ StartTimes \subseteq Nat
  /\ Horizon \in Nat
  /\ MaxOversleep \in Nat

VARIABLES
  config,      \* the arguments of the call; never assigned
  pc,          \* the point the call has reached
  now,         \* CLOCK_MONOTONIC in ms
  start_ms,    \* local: the clock when the duration loop was entered
  elapsed,     \* local: set by the check at the top of the duration loop
  samples,     \* reports printed so far; equals i at the top of the for loop
  announced,   \* remaining_ms shown by the last dashboard, -1 when none was
  req,         \* the timespec handed to nanosleep, in ms
  until,       \* when the sleep in progress is due to end
  reported_at, \* history: clock at the last report
  top_index,   \* history: the highest index of a dashboard so far, 0 before the first
  status       \* the MonitorStatus returned, "NONE" before the return

vars == <<config, pc, now, start_ms, elapsed, samples, announced, req, until,
          reported_at, top_index, status>>

ReadErrors == {"IO_ERROR", "PARSE_ERROR"}

\* The values now_ms() may return at this moment.
now_ms == {now, -1}

counted == config.iterations > 0

return(s) == pc' = "done" /\ status' = s

goto(label) == pc' = label /\ UNCHANGED status

-----------------------------------------------------------------------------
Init ==
  /\ config \in Configs
  /\ now \in StartTimes
  /\ pc = "start"
  /\ start_ms = 0 /\ elapsed = 0 /\ samples = 0
  /\ announced = -1
  /\ req = 0 /\ until = 0 /\ reported_at = 0 /\ top_index = 0
  /\ status = "NONE"

\* `if (config->iterations > 0) for (i = 0; ...`: the loop runs at least once.
EnterForLoop ==
  /\ pc = "start"
  /\ counted
  /\ goto("cpu")
  /\ UNCHANGED <<config, now, start_ms, elapsed, samples, announced, req,
                 until, reported_at, top_index>>

\* `start_ms = now_ms()`; a failed clock ends the call.
EnterDurationLoop ==
  /\ pc = "start"
  /\ ~counted
  /\ \E t \in now_ms :
       /\ start_ms' = t
       /\ IF t < 0 THEN return("INTERNAL_ERROR") ELSE goto("check")
  /\ UNCHANGED <<config, now, elapsed, samples, announced, req, until,
                 reported_at, top_index>>

\* Mutant: one more pass when the time is exactly over.
CheckDeadline_strict ==
  /\ pc = "check"
  /\ \E t \in now_ms :
       /\ elapsed' = t - start_ms
       /\ IF t - start_ms > config.duration_ms THEN return("OK") ELSE goto("cpu")
  /\ UNCHANGED <<config, now, start_ms, samples, announced, req, until,
                 reported_at, top_index>>

\* The top of the while loop.  This reading of the clock is not tested for
\* failure: -1 makes elapsed negative and lets the loop go on.
CheckDeadline ==
  /\ pc = "check"
  /\ \E t \in now_ms :
       /\ elapsed' = t - start_ms
       /\ IF t - start_ms >= config.duration_ms THEN return("OK") ELSE goto("cpu")
  /\ UNCHANGED <<config, now, start_ms, samples, announced, req, until,
                 reported_at, top_index>>

\* collect_health_snapshot, first half: monitor_read_cpu_usage, which module
\* CpuUsage models.
ReadCpu ==
  /\ pc = "cpu"
  /\ goto("memory") \/ \E e \in ReadErrors : return(e)
  /\ UNCHANGED <<config, now, start_ms, elapsed, samples, announced, req,
                 until, reported_at, top_index>>

\* The remaining_ms argument of render_live_dashboard.
remaining_shown ==
  IF counted
  THEN IF samples + 1 < config.iterations THEN config.interval_ms ELSE -1
  ELSE config.duration_ms - elapsed

\* The sample_index argument, by the division of C, which truncates.  It is the
\* number on the dashboard of a counted session and turns the spinner of both.
sample_index ==
  IF counted THEN samples + 1
  ELSE IF elapsed >= 0 THEN elapsed \div config.interval_ms + 1
  ELSE 1 - (-elapsed) \div config.interval_ms

\* Mutant: a failed reading of the memory is tried again.
ReadMemoryAndReport_retried ==
  /\ pc = "memory"
  /\ \/ /\ samples' = samples + 1
        /\ announced' = IF config.live_output THEN remaining_shown ELSE -1
        /\ reported_at' = now
        /\ top_index' = IF config.live_output /\ sample_index > top_index
                        THEN sample_index ELSE top_index
        /\ goto(IF counted THEN "next" ELSE "after")
     \/ goto("cpu") /\ UNCHANGED <<samples, announced, reported_at, top_index>>
  /\ UNCHANGED <<config, now, start_ms, elapsed, req, until>>

\* collect_health_snapshot, second half, and the report: the dashboard in
\* live mode, the plain lines of log_health_status otherwise.
ReadMemoryAndReport ==
  /\ pc = "memory"
  /\ \/ /\ samples' = samples + 1
        /\ announced' = IF config.live_output THEN remaining_shown ELSE -1
        /\ reported_at' = now
        /\ top_index' = IF config.live_output /\ sample_index > top_index
                        THEN sample_index ELSE top_index
        /\ goto(IF counted THEN "next" ELSE "after")
     \/ /\ \E e \in ReadErrors : return(e)
        /\ UNCHANGED <<samples, announced, reported_at, top_index>>
  /\ UNCHANGED <<config, now, start_ms, elapsed, req, until>>

\* Mutants: the loop counts one sample too few, or one too many.
NextIteration_early ==
  /\ pc = "next"
  /\ IF samples + 1 < config.iterations
     THEN req' = config.interval_ms /\ goto("sleep")
     ELSE return("OK") /\ UNCHANGED req
  /\ UNCHANGED <<config, now, start_ms, elapsed, samples, announced, until,
                 reported_at, top_index>>

NextIteration_late ==
  /\ pc = "next"
  /\ IF samples <= config.iterations
     THEN req' = config.interval_ms /\ goto("sleep")
     ELSE return("OK") /\ UNCHANGED req
  /\ UNCHANGED <<config, now, start_ms, elapsed, samples, announced, until,
                 reported_at, top_index>>

\* End of a for-loop pass: sleep unless this was the last sample.
NextIteration ==
  /\ pc = "next"
  /\ IF samples < config.iterations
     THEN req' = config.interval_ms /\ goto("sleep")
     ELSE return("OK") /\ UNCHANGED req
  /\ UNCHANGED <<config, now, start_ms, elapsed, samples, announced, until,
                 reported_at, top_index>>

\* The sleep of the duration loop: the interval, cut to the time remaining.
sleep_duration(remaining_ms) ==
  IF remaining_ms < config.interval_ms THEN remaining_ms ELSE config.interval_ms

\* Mutant: no test that there is time left.
AfterSample_untested ==
  /\ pc = "after"
  /\ \E t \in now_ms :
       IF t < 0 THEN return("INTERNAL_ERROR") /\ UNCHANGED req
       ELSE /\ req' = sleep_duration(config.duration_ms - (t - start_ms))
            /\ goto("sleep")
  /\ UNCHANGED <<config, now, start_ms, elapsed, samples, announced, until,
                 reported_at, top_index>>

\* End of a while-loop pass: `after_sample_ms = now_ms()`.
AfterSample ==
  /\ pc = "after"
  /\ \E t \in now_ms :
       LET remaining_ms == config.duration_ms - (t - start_ms)
       IN  \/ t < 0 /\ return("INTERNAL_ERROR") /\ UNCHANGED req
           \/ t >= 0 /\ remaining_ms <= 0 /\ return("OK") /\ UNCHANGED req
           \/ /\ t >= 0 /\ remaining_ms > 0
              /\ req' = sleep_duration(remaining_ms)
              /\ goto("sleep")
  /\ UNCHANGED <<config, now, start_ms, elapsed, samples, announced, until,
                 reported_at, top_index>>

\* sleep_ms calls nanosleep(&req, &req) ...
Nanosleep ==
  /\ pc = "sleep"
  /\ until' = now + req
  /\ goto("sleeping")
  /\ UNCHANGED <<config, now, start_ms, elapsed, samples, announced, req,
                 reported_at, top_index>>

\* Mutant: an interrupted sleep is taken for a finished one.
Interrupt_not_restarted ==
  /\ pc = "sleeping"
  /\ now < until
  /\ until - now < req
  /\ goto(IF counted THEN "cpu" ELSE "check")
  /\ UNCHANGED <<config, now, start_ms, elapsed, samples, announced, req,
                 until, reported_at, top_index>>

\* ... which a signal may interrupt (EINTR): req then holds the time left and
\* the call is repeated.  Signals that arrive before any time has passed are
\* not distinguished from none.
Interrupt ==
  /\ pc = "sleeping"
  /\ now < until
  /\ until - now < req
  /\ req' = until - now
  /\ goto("sleep")
  /\ UNCHANGED <<config, now, start_ms, elapsed, samples, announced, until,
                 reported_at, top_index>>

WakeUp ==
  /\ pc = "sleeping"
  /\ now >= until
  /\ goto(IF counted THEN "cpu" ELSE "check")
  /\ UNCHANGED <<config, now, start_ms, elapsed, samples, announced, req,
                 until, reported_at, top_index>>

\* Time passes: the program is descheduled or blocked, or sleeps.
Tick ==
  /\ pc # "done"
  /\ now < IF pc = "sleeping" THEN until + MaxOversleep ELSE Horizon
  /\ now' = now + 1
  /\ UNCHANGED <<config, pc, start_ms, elapsed, samples, announced, req, until,
                 reported_at, top_index, status>>

Program ==
  \/ EnterForLoop \/ EnterDurationLoop \/ CheckDeadline
  \/ ReadCpu \/ ReadMemoryAndReport
  \/ NextIteration \/ AfterSample
  \/ Nanosleep \/ WakeUp

Next == Program \/ Interrupt \/ Tick

Spec == Init /\ [][Next]_vars

\* The kernel schedules the process, and the clock does not stop while it sleeps.
Fairness == WF_vars(Program) /\ WF_vars(pc = "sleeping" /\ now < until /\ Tick)

FairSpec == Spec /\ Fairness

-----------------------------------------------------------------------------
TypeOK ==
  /\ config \in Configs
  /\ pc \in {"start", "check", "cpu", "memory", "next", "after", "sleep",
             "sleeping", "done"}
  /\ now \in Nat
  /\ start_ms \in Nat \cup {-1}
  /\ elapsed \in Int
  /\ samples \in Nat
  /\ announced \in Int
  /\ req \in Nat
  /\ until \in Nat
  /\ reported_at \in Nat
  /\ top_index \in Nat
  /\ status \in {"NONE", "OK", "INTERNAL_ERROR"} \cup ReadErrors

\* Line 335 uses now_ms() without the test that lines 330 and 365 make.  After a
\* failed call the loop goes on as if no time had passed.
blind == elapsed < 0

\* A timed session never reports more often than its interval allows: sample
\* number n is at least n - 1 intervals after the start, and before the end of
\* the duration, so their number is bounded whatever the delays (lines 334-377).
\* A check that failed lets one more through, and never a second one.
SampleBudget ==
  ~counted /\ samples > 0 =>
    (samples - (IF blind THEN 2 ELSE 1)) * config.interval_ms < config.duration_ms

\* When the loop goes round to another sample, a whole interval has passed
\* since the last report: a signal that interrupts the sleep does not shorten
\* it (line 109), and the shortened last sleep (line 374) leads to the end of
\* the session, not to an early sample.  After a check that failed the sample may
\* be early, but no pass of the loop takes no time.
Spacing ==
  pc = "cpu" /\ samples > 0 =>
    /\ now > reported_at
    /\ ~blind => now >= reported_at + config.interval_ms

\* A dashboard gets a higher index than any dashboard before it, so its spinner
\* moves however late the samples come, and the index stays within the duration or
\* the iterations (lines 313, 354; used at 279).  When the reading of line 335
\* failed this is not so: the index may then fall, even below 0.
IndexAdvances ==
  pc = "memory" /\ config.live_output /\ ~blind =>
    /\ sample_index > top_index
    /\ IF counted THEN sample_index <= config.iterations
       ELSE (sample_index - 1) * config.interval_ms < config.duration_ms

\* At most one sample is taken after the time is over, failed clock or not: the
\* previous report was still within the duration (lines 334-377).
OneLateSample ==
  pc = "cpu" /\ ~counted /\ samples > 0 =>
    reported_at < start_ms + config.duration_ms

\* Success is never reported for an unfinished session: the requested number of
\* samples was taken, or the requested time has really passed, although calls
\* of now_ms may have failed (lines 298, 336, 369).
CompletionHonest ==
  status = "OK" =>
    IF counted THEN samples = config.iterations
               ELSE now >= start_ms + config.duration_ms

\* Every session ends by itself: the loop cannot sleep forever or go round
\* without getting nearer to its end, even when interrupted or late.
Termination == <>(pc = "done")

\* What a session promises: SamplingJob.
Job == INSTANCE SamplingJob WITH
  Jobs  <- Configs,
  job   <- config,
  clock <- now,
  phase <- IF pc = "start" THEN "new"
           ELSE IF pc # "done" THEN "active"
           ELSE IF status = "OK" THEN "succeeded" ELSE "failed",
  began <- IF start_ms < 0 THEN 0 ELSE start_ms,
  taken <- samples,
  last  <- reported_at

\* The loops of monitor_server_health do what SamplingJob promises.
ImplementsJob == Job!Spec

-----------------------------------------------------------------------------
\* Line 277 labels the time it is given "Next sample in"; line 281 states the
\* sampling interval on the same screen.  The first cannot exceed the second.
AnnouncedWithinInterval ==
  announced >= 0 => announced <= config.interval_ms
=============================================================================
