---------------------------- MODULE SessionProofs ----------------------------
(***************************************************************************)
(* Proofs about Session for all configurations, start times and bounds:    *)
(* the safety properties of the sampling loop, and that it implements      *)
(* SamplingJob.                                                            *)
(***************************************************************************)
EXTENDS Session, TLAPS

-----------------------------------------------------------------------------
\* The parts of the inductive invariant.

\* Which loop the call is in; the duration loop starts with a good clock.
LoopOK ==
  /\ counted => pc \notin {"check", "after"} /\ start_ms = 0 /\ elapsed = 0
  /\ ~counted => pc # "next"
  /\ ~counted /\ pc \notin {"start", "done"} => start_ms \in Nat /\ start_ms <= now
  /\ pc = "start" => start_ms = 0 /\ elapsed = 0 /\ samples = 0
  /\ pc \in {"next", "after", "sleep", "sleeping"} => samples > 0
  /\ (pc = "done") = (status # "NONE")

\* At time t another sample is in order: an interval after the last one and,
\* in a timed session, not ahead of schedule; or the time is over.
Ripe(t) ==
  \/ /\ t >= reported_at + config.interval_ms
     /\ ~counted => t - start_ms >= samples * config.interval_ms
  \/ ~counted /\ t >= start_ms + config.duration_ms

\* The next sample will not come before its time.
RipeOK ==
  /\ reported_at <= now
  /\ samples > 0 =>
       /\ pc \in {"check", "cpu", "memory"} => Ripe(now)
       /\ pc = "sleep" => Ripe(now + req)
       /\ pc = "sleeping" => Ripe(until)

\* The sample under way fits the schedule, unless the check was blind.
CheckedOK ==
  ~counted /\ pc \in {"cpu", "memory"} /\ ~blind =>
    /\ elapsed < config.duration_ms
    /\ samples * config.interval_ms <= elapsed
    /\ start_ms + elapsed <= now
    /\ samples > 0 => start_ms + elapsed >= reported_at + config.interval_ms

\* So did the samples already reported.
ReportedOK ==
  ~counted /\ samples > 0 =>
    /\ pc = "after" => \/ now - start_ms >= (samples - 1) * config.interval_ms
                       \/ now - start_ms >= config.duration_ms
    /\ pc \in {"check", "cpu", "memory", "sleep", "sleeping"} =>
         (samples - 1) * config.interval_ms < config.duration_ms
    /\ pc \in {"check", "cpu", "memory", "sleep", "sleeping"} =>
         reported_at < start_ms + config.duration_ms

\* The budget of samples, if the last check of the clock did not fail, and if it did.
SightedBudget ==
  ~counted /\ ~blind /\ samples > 0 =>
    (samples - 1) * config.interval_ms < config.duration_ms

BlindBudget ==
  ~counted /\ samples > 0 => (samples - 2) * config.interval_ms < config.duration_ms

\* The for loop counts to iterations and not beyond.
CountOK ==
  counted =>
    /\ samples <= config.iterations
    /\ pc \in {"start", "cpu", "memory", "sleep", "sleeping"} =>
         samples < config.iterations

\* The highest index so far was given no later than the last report.
TopOK ==
  /\ samples = 0 => top_index = 0
  /\ counted => top_index <= samples
  /\ ~counted /\ samples > 0 =>
       (top_index - 1) * config.interval_ms <= reported_at - start_ms

ScheduleInv ==
  /\ TypeOK
  /\ LoopOK
  /\ RipeOK
  /\ CheckedOK
  /\ ReportedOK
  /\ CountOK
  /\ SightedBudget
  /\ CompletionHonest

IInv == ScheduleInv /\ BlindBudget /\ TopOK

-----------------------------------------------------------------------------
\* What the assumption says of the configuration of a call.
LEMMA ConfigType ==
  ASSUME config \in Configs
  PROVE  /\ config.interval_ms \in Nat /\ config.interval_ms > 0
         /\ config.duration_ms \in Nat /\ config.duration_ms > 0
         /\ config.iterations \in Nat
         /\ config.live_output \in BOOLEAN
BY ConfigsAssumption

LEMMA OneMore == \A m, n \in Int : (m - 1) * n + n = m * n
OBVIOUS

\* The initial state satisfies the invariant.
LEMMA InitSchedule == Init => ScheduleInv
<1> SUFFICES ASSUME Init PROVE ScheduleInv
  OBVIOUS
<1>1. TypeOK
  <2>1. now \in Nat
    BY ClockAssumption DEF Init
  <2> QED
    BY <2>1 DEF Init, TypeOK, ReadErrors
<1>2. LoopOK /\ CheckedOK /\ ReportedOK /\ SightedBudget /\ CompletionHonest
  BY DEF Init, LoopOK, CheckedOK, ReportedOK, SightedBudget, CompletionHonest
<1>3. RipeOK /\ CountOK
  BY <1>1, ConfigType DEF Init, TypeOK, RipeOK, CountOK, counted
<1> QED
  BY <1>1, <1>2, <1>3 DEF ScheduleInv

\* Every step preserves the invariant.
LEMMA StepSchedule == ScheduleInv /\ [Next]_vars => ScheduleInv'
<1> SUFFICES ASSUME ScheduleInv, [Next]_vars PROVE ScheduleInv'
  OBVIOUS
<1> USE DEF ScheduleInv, TypeOK, LoopOK, counted, blind, ReadErrors
<1>0. /\ config.interval_ms \in Nat /\ config.interval_ms > 0
      /\ config.duration_ms \in Nat /\ config.duration_ms > 0
      /\ config.iterations \in Nat
  BY ConfigType
<1>1. CASE EnterForLoop
  BY <1>0, <1>1 DEF EnterForLoop, goto, RipeOK, CheckedOK, ReportedOK, CountOK,
     SightedBudget, CompletionHonest
<1>2. CASE EnterDurationLoop
  BY <1>0, <1>2 DEF EnterDurationLoop, now_ms, goto, return, RipeOK, CheckedOK,
     ReportedOK, CountOK, SightedBudget, CompletionHonest
<1>3. CASE CheckDeadline
  <2>1. PICK t \in now_ms :
          /\ elapsed' = t - start_ms
          /\ IF t - start_ms >= config.duration_ms THEN return("OK") ELSE goto("cpu")
    BY <1>3 DEF CheckDeadline
  <2>2. /\ pc = "check" /\ ~counted /\ t \in {now, -1}
        /\ UNCHANGED <<config, now, start_ms, samples,
                       announced, req, until, reported_at, top_index>>
    BY <1>3 DEF CheckDeadline, now_ms
  <2>3. TypeOK' /\ LoopOK'
    BY <1>0, <2>1, <2>2 DEF return, goto
  <2>4. CompletionHonest' /\ CountOK'
    BY <1>0, <2>1, <2>2 DEF return, goto, CompletionHonest, CountOK
  <2>5. RipeOK' /\ ReportedOK' /\ SightedBudget'
    BY <1>0, <2>1, <2>2 DEF return, goto, RipeOK, Ripe, ReportedOK, SightedBudget
  <2>6. CheckedOK'
    BY <1>0, <2>1, <2>2 DEF return, goto, RipeOK, Ripe, CheckedOK
  <2> QED
    BY <2>3, <2>4, <2>5, <2>6
<1>4. CASE ReadCpu
  BY <1>0, <1>4 DEF ReadCpu, ReadErrors, goto, return, RipeOK, Ripe, CheckedOK,
     ReportedOK, CountOK, SightedBudget, CompletionHonest
<1>5. CASE ReadMemoryAndReport
  <2>1. /\ pc = "memory"
        /\ UNCHANGED <<config, now, start_ms, elapsed, req, until>>
    BY <1>5 DEF ReadMemoryAndReport
  <2>2. CASE \E e \in ReadErrors : return(e) /\ UNCHANGED <<samples, announced, reported_at, top_index>>
    BY <1>0, <2>1, <2>2 DEF ReadErrors, return, RipeOK, Ripe, CheckedOK,
       ReportedOK, CountOK, SightedBudget, CompletionHonest
  <2>3. CASE /\ samples' = samples + 1
             /\ announced' = IF config.live_output THEN remaining_shown ELSE -1
             /\ reported_at' = now
             /\ top_index' = IF config.live_output /\ sample_index > top_index
                             THEN sample_index ELSE top_index
             /\ goto(IF counted THEN "next" ELSE "after")
    <3>0. sample_index \in Int
      BY <1>0 DEF sample_index
    <3>1. TypeOK' /\ LoopOK' /\ CountOK' /\ RipeOK'
      BY <1>0, <2>1, <2>3, <3>0 DEF goto, remaining_shown, CountOK, RipeOK
    <3>2. ~counted => \/ now - start_ms >= samples * config.interval_ms
                      \/ now - start_ms >= config.duration_ms
      BY <1>0, <2>1 DEF RipeOK, Ripe
    <3>3. (samples' - 1) * config'.interval_ms = samples * config.interval_ms
      BY <1>0, <2>1, <2>3
    <3>4. ReportedOK'
      BY <1>0, <2>1, <2>3, <3>2, <3>3 DEF goto, ReportedOK
    <3>5. SightedBudget' /\ CheckedOK' /\ CompletionHonest'
      BY <1>0, <2>1, <2>3, <3>3 DEF goto, CheckedOK, SightedBudget, CompletionHonest
    <3> QED
      BY <3>1, <3>4, <3>5
  <2> QED
    BY <1>5, <2>2, <2>3 DEF ReadMemoryAndReport
<1>6. CASE NextIteration
  BY <1>0, <1>6 DEF NextIteration, goto, return, RipeOK, Ripe, CheckedOK,
     ReportedOK, CountOK, SightedBudget, CompletionHonest
<1>7. CASE AfterSample
  <2> DEFINE remaining(t) == config.duration_ms - (t - start_ms)
  <2>1. PICK t \in now_ms :
          \/ t < 0 /\ return("INTERNAL_ERROR") /\ UNCHANGED req
          \/ t >= 0 /\ remaining(t) <= 0 /\ return("OK") /\ UNCHANGED req
          \/ t >= 0 /\ remaining(t) > 0 /\ req' = sleep_duration(remaining(t)) /\ goto("sleep")
    BY <1>7 DEF AfterSample
  <2>2. /\ pc = "after" /\ ~counted /\ t \in {now, -1}
        /\ UNCHANGED <<config, now, start_ms, elapsed, samples, announced, until, reported_at, top_index>>
    BY <1>7 DEF AfterSample, now_ms
  <2>3. CASE t < 0 \/ remaining(t) <= 0
    BY <1>0, <2>1, <2>2, <2>3 DEF return, RipeOK, CheckedOK, ReportedOK, CountOK,
       SightedBudget, CompletionHonest
  <2>4. CASE t >= 0 /\ remaining(t) > 0
    <3>1. /\ t = now /\ now - start_ms < config.duration_ms
          /\ req' = sleep_duration(remaining(now)) /\ goto("sleep")
      BY <1>0, <2>1, <2>2, <2>4
    <3>2. TypeOK' /\ LoopOK' /\ CheckedOK' /\ CountOK' /\ SightedBudget' /\ CompletionHonest'
      BY <1>0, <2>2, <3>1 DEF goto, sleep_duration, CheckedOK, CountOK,
         SightedBudget, CompletionHonest
    <3>3. now - start_ms >= (samples - 1) * config.interval_ms
      BY <1>0, <2>2, <3>1 DEF ReportedOK
    <3>4. ReportedOK'
      BY <1>0, <2>2, <3>1, <3>3 DEF goto, ReportedOK, RipeOK
    <3>5. (samples - 1) * config.interval_ms + config.interval_ms
            = samples * config.interval_ms
      <4>1. samples \in Int /\ config.interval_ms \in Int
        BY <1>0
      <4> QED
        BY <4>1, OneMore
    <3>6. RipeOK'
      BY <1>0, <2>2, <3>1, <3>3, <3>5 DEF goto, sleep_duration, RipeOK, Ripe
    <3> QED
      BY <3>2, <3>4, <3>6
  <2> QED
    BY <2>1, <2>3, <2>4
<1>8. CASE Nanosleep
  BY <1>0, <1>8 DEF Nanosleep, goto, RipeOK, Ripe, CheckedOK, ReportedOK,
     CountOK, SightedBudget, CompletionHonest
<1>9. CASE Interrupt
  BY <1>0, <1>9 DEF Interrupt, goto, RipeOK, Ripe, CheckedOK, ReportedOK,
     CountOK, SightedBudget, CompletionHonest
<1>10. CASE WakeUp
  BY <1>0, <1>10 DEF WakeUp, goto, RipeOK, Ripe, CheckedOK, ReportedOK, CountOK,
     SightedBudget, CompletionHonest
<1>11. CASE Tick
  BY <1>0, <1>11 DEF Tick, RipeOK, Ripe, CheckedOK, ReportedOK, CountOK,
     SightedBudget, CompletionHonest
<1>12. CASE UNCHANGED vars
  BY <1>12 DEF vars, RipeOK, Ripe, CheckedOK, ReportedOK, CountOK, SightedBudget,
     CompletionHonest
<1> QED
  BY <1>1, <1>2, <1>3, <1>4, <1>5, <1>6, <1>7, <1>8, <1>9, <1>10, <1>11, <1>12
     DEF Next, Program

LEMMA InitIInv == Init => IInv
BY InitSchedule DEF Init, IInv, BlindBudget, TopOK

\* After a check that failed the last sample was still within the duration, so one
\* more breaks the budget by one at most.
LEMMA StepBlindBudget == IInv /\ [Next]_vars => BlindBudget'
<1> SUFFICES ASSUME IInv, [Next]_vars PROVE BlindBudget'
  OBVIOUS
<1>0. /\ config.interval_ms \in Nat /\ config.interval_ms > 0
      /\ config.duration_ms \in Nat /\ config.duration_ms > 0
      /\ samples \in Nat
  BY ConfigType DEF IInv, ScheduleInv, TypeOK
<1>1. CASE UNCHANGED <<config, samples>>
  BY <1>1 DEF IInv, BlindBudget, counted
<1>2. CASE ReadMemoryAndReport /\ samples' = samples + 1
  <2>1. pc = "memory" /\ UNCHANGED config
    BY <1>2 DEF ReadMemoryAndReport
  <2>2. CASE samples > 0
    <3>1. ~counted => (samples - 1) * config.interval_ms < config.duration_ms
      BY <2>1, <2>2 DEF IInv, ScheduleInv, ReportedOK
    <3>2. samples' - 2 = samples - 1
      BY <1>0, <1>2
    <3> QED
      BY <2>1, <3>1, <3>2 DEF BlindBudget, counted
  <2>3. CASE samples = 0
    <3>1. (samples' - 2) * config'.interval_ms = -config.interval_ms
      BY <1>0, <1>2, <2>1, <2>3
    <3> QED
      BY <1>0, <2>1, <3>1 DEF BlindBudget
  <2> QED
    BY <1>0, <2>2, <2>3
<1> QED
  BY <1>1, <1>2 DEF Next, Program, EnterForLoop, EnterDurationLoop, CheckDeadline, ReadCpu,
     ReadMemoryAndReport, NextIteration, AfterSample, Nanosleep, WakeUp, Interrupt, Tick, vars

\* Whole intervals in a time.
LEMMA Intervals ==
  ASSUME NEW time \in Nat, NEW interval \in Nat, interval > 0, NEW n \in Nat,
         n * interval <= time
  PROVE  time \div interval >= n /\ (time \div interval) * interval <= time
<1> DEFINE q == time \div interval
<1>1. q \in Int /\ q * interval <= time /\ time < (q + 1) * interval
  OBVIOUS
<1>2. ASSUME q < n PROVE FALSE
  <2>1. (q + 1) * interval <= n * interval
    BY <1>1, <1>2
  <2> QED
    BY <1>1, <2>1
<1> QED
  BY <1>1, <1>2

\* A dashboard's index is that of its moment: if the clock was read, no more whole
\* intervals than have passed, and otherwise at most 1.
LEMMA StepTop == IInv /\ [Next]_vars => TopOK'
<1> SUFFICES ASSUME IInv, [Next]_vars PROVE TopOK'
  OBVIOUS
<1>0. /\ config.interval_ms \in Nat /\ config.interval_ms > 0
      /\ samples \in Nat /\ top_index \in Nat /\ elapsed \in Int
      /\ now \in Nat /\ reported_at \in Nat /\ reported_at <= now
  BY ConfigType DEF IInv, ScheduleInv, TypeOK, RipeOK
<1>1. CASE UNCHANGED <<config, samples, top_index, reported_at>> /\ (samples > 0 => UNCHANGED start_ms)
  BY <1>0, <1>1 DEF IInv, TopOK, counted
<1>2. CASE ReadMemoryAndReport /\ samples' = samples + 1
  <2>1. /\ pc = "memory" /\ UNCHANGED <<config, now, start_ms>> /\ reported_at' = now
        /\ top_index' = IF config.live_output /\ sample_index > top_index
                        THEN sample_index ELSE top_index
    BY <1>0, <1>2 DEF ReadMemoryAndReport
  <2>2. CASE counted
    BY <1>0, <1>2, <2>1, <2>2 DEF IInv, TopOK, counted, sample_index
  <2>3. CASE ~counted
    <3>1. start_ms \in Nat /\ start_ms <= now
      BY <2>1, <2>3 DEF IInv, ScheduleInv, LoopOK
    <3>2. (top_index - 1) * config.interval_ms <= now - start_ms
      <4>1. CASE samples > 0
        BY <1>0, <2>3, <3>1, <4>1 DEF IInv, TopOK
      <4>2. CASE samples = 0
        <5>1. top_index = 0
          BY <4>2 DEF IInv, TopOK
        <5>2. (top_index - 1) * config.interval_ms = -config.interval_ms
          BY <1>0, <5>1
        <5> QED
          BY <1>0, <3>1, <5>2
      <4> QED
        BY <1>0, <4>1, <4>2
    <3>3. sample_index > top_index =>
            (sample_index - 1) * config.interval_ms <= now - start_ms
      <4>1. CASE elapsed >= 0
        <5> DEFINE q == elapsed \div config.interval_ms
        <5>1. 0 * config.interval_ms <= elapsed /\ elapsed \in Nat
          BY <1>0, <4>1
        <5>2. q * config.interval_ms <= elapsed /\ q \in Int
          BY <1>0, <5>1, Intervals
        <5>3. sample_index = q + 1
          BY <2>3, <4>1 DEF sample_index
        <5>4. start_ms + elapsed <= now
          BY <1>0, <2>1, <2>3, <4>1 DEF IInv, ScheduleInv, CheckedOK, blind
        <5> HIDE DEF q
        <5>5. (sample_index - 1) * config.interval_ms = q * config.interval_ms
          BY <1>0, <5>2, <5>3
        <5> QED
          BY <1>0, <3>1, <5>2, <5>4, <5>5
      <4>2. CASE elapsed < 0
        <5> DEFINE q == (-elapsed) \div config.interval_ms
        <5>1. 0 * config.interval_ms <= -elapsed /\ -elapsed \in Nat
          BY <1>0, <4>2
        <5>2. q >= 0 /\ q \in Int
          BY <1>0, <5>1, Intervals
        <5>3. sample_index = 1 - q
          BY <1>0, <2>3, <4>2 DEF sample_index
        <5> HIDE DEF q
        <5>4. sample_index > top_index => sample_index = 1
          BY <1>0, <5>2, <5>3
        <5>5. (1 - 1) * config.interval_ms <= now - start_ms
          BY <1>0, <3>1
        <5> QED
          BY <5>4, <5>5
      <4> QED
        BY <1>0, <4>1, <4>2
    <3>4. (top_index' - 1) * config.interval_ms <= now - start_ms
      BY <2>1, <3>2, <3>3
    <3> QED
      BY <1>0, <1>2, <2>1, <2>3, <3>4 DEF TopOK, counted
  <2> QED
    BY <2>2, <2>3
<1> QED
  BY <1>1, <1>2 DEF IInv, ScheduleInv, LoopOK, Next, Program, EnterForLoop,
     EnterDurationLoop, CheckDeadline, ReadCpu, ReadMemoryAndReport, NextIteration,
     AfterSample, Nanosleep, WakeUp, Interrupt, Tick, vars

LEMMA StepIInv == IInv /\ [Next]_vars => IInv'
BY StepSchedule, StepBlindBudget, StepTop DEF IInv

\* The invariant holds in every reachable state.
THEOREM Invariance == Spec => []IInv
<1>1. Init => IInv
  BY InitIInv
<1>2. IInv /\ [Next]_vars => IInv'
  BY StepIInv
<1> QED
  BY <1>1, <1>2, PTL DEF Spec

\* What the invariant says of a session.
LEMMA IInvProperties ==
  IInv => /\ TypeOK /\ SampleBudget /\ Spacing
          /\ IndexAdvances /\ OneLateSample /\ CompletionHonest
<1>1. IInv => TypeOK
  BY DEF IInv, ScheduleInv
<1>2. IInv => SampleBudget
  BY DEF IInv, ScheduleInv, SightedBudget, BlindBudget, SampleBudget
<1>3. IInv => Spacing
  <2> SUFFICES ASSUME IInv, pc = "cpu", samples > 0
               PROVE  /\ now > reported_at
                      /\ ~blind => now >= reported_at + config.interval_ms
    BY DEF Spacing
  <2>1. /\ TypeOK /\ LoopOK /\ Ripe(now)
        /\ config.interval_ms \in Nat /\ config.interval_ms > 0
        /\ now \in Nat /\ reported_at \in Nat
    BY ConfigType DEF IInv, ScheduleInv, RipeOK, TypeOK
  <2>2. CASE counted
    BY <2>1, <2>2 DEF Ripe
  <2>3. CASE ~counted
    \* A check that is not blind leaves the loop if the time is over; the last report
    \* came before that.
    <3>1. reported_at < start_ms + config.duration_ms
      BY <2>3 DEF IInv, ScheduleInv, ReportedOK
    <3>2. /\ config.duration_ms \in Nat /\ start_ms \in Nat
          /\ ~blind => now >= reported_at + config.interval_ms
      BY <2>3, ConfigType DEF IInv, ScheduleInv, CheckedOK, LoopOK, TypeOK
    <3> QED
      BY <2>1, <3>1, <3>2 DEF Ripe
  <2> QED
    BY <2>2, <2>3
<1>4. IInv => IndexAdvances
  <2> SUFFICES ASSUME IInv, pc = "memory", config.live_output, ~blind
               PROVE  /\ sample_index > top_index
                      /\ IF counted THEN sample_index <= config.iterations
                         ELSE (sample_index - 1) * config.interval_ms < config.duration_ms
    BY DEF IndexAdvances
  <2>1. /\ config.interval_ms \in Nat /\ config.interval_ms > 0
        /\ config.duration_ms \in Nat /\ config.iterations \in Nat
        /\ samples \in Nat /\ elapsed \in Int /\ top_index \in Nat
        /\ start_ms \in Int /\ reported_at \in Nat
    BY ConfigType DEF IInv, ScheduleInv, TypeOK
  <2>2. CASE counted
    BY <2>1, <2>2 DEF IInv, ScheduleInv, CountOK, TopOK, sample_index
  <2>3. CASE ~counted
    <3>1. /\ elapsed \in Nat /\ elapsed < config.duration_ms
          /\ samples > 0 => start_ms + elapsed >= reported_at + config.interval_ms
      BY <2>1, <2>3 DEF IInv, ScheduleInv, CheckedOK, blind
    <3> DEFINE q == elapsed \div config.interval_ms
    <3>5. top_index * config.interval_ms <= elapsed
      <4>1. CASE samples > 0
        <5>1. (top_index - 1) * config.interval_ms <= reported_at - start_ms
          BY <2>3, <4>1 DEF IInv, TopOK
        <5>2. (top_index - 1) * config.interval_ms + config.interval_ms
                = top_index * config.interval_ms
          <6>1. top_index \in Int /\ config.interval_ms \in Int
            BY <2>1
          <6> QED
            BY <6>1, OneMore
        <5> QED
          BY <2>1, <3>1, <4>1, <5>1, <5>2
      <4>2. CASE samples = 0
        BY <2>1, <3>1, <4>2 DEF IInv, TopOK
      <4> QED
        BY <2>1, <4>1, <4>2
    <3>2. q >= top_index /\ q * config.interval_ms <= elapsed
      BY <2>1, <3>1, <3>5, Intervals
    <3>3. sample_index = q + 1 /\ q \in Int
      BY <2>1, <2>3, <3>1 DEF sample_index
    <3>4. (sample_index - 1) * config.interval_ms = q * config.interval_ms
      BY <2>1, <3>3
    <3> HIDE DEF q
    <3> QED
      BY <2>1, <2>3, <3>1, <3>2, <3>3, <3>4
  <2> QED
    BY <2>2, <2>3
<1>5. IInv => OneLateSample
  BY DEF IInv, ScheduleInv, ReportedOK, OneLateSample
<1>6. IInv => CompletionHonest
  BY DEF IInv, ScheduleInv
<1> QED
  BY <1>1, <1>2, <1>3, <1>4, <1>5, <1>6

\* Every variable keeps its type.
THEOREM TypeCorrect == Spec => []TypeOK
BY Invariance, IInvProperties, PTL

\* A timed session takes no more samples than its duration has room for,
\* whatever the delays of the program (server_monitor.c 334-379).
THEOREM Budget == Spec => []SampleBudget
BY Invariance, IInvProperties, PTL

\* A session that goes on to another sample has waited a whole interval, even
\* if signals interrupted the wait (server_monitor.c 98-110, 376-379).
THEOREM Spaced == Spec => []Spacing
BY Invariance, IInvProperties, PTL

\* Every dashboard whose check could read the clock gets a higher index than any
\* before it, within the session (server_monitor.c 303-312, 346-356).
THEOREM Advances == Spec => []IndexAdvances
BY Invariance, IInvProperties, PTL

\* At most one sample of a timed session comes after its time is over
\* (server_monitor.c 334-379).
THEOREM LateOnce == Spec => []OneLateSample
BY Invariance, IInvProperties, PTL

\* Success is reported for finished sessions only (server_monitor.c 323,
\* 336-338, 373-375).
THEOREM Honest == Spec => []CompletionHonest
BY Invariance, IInvProperties, PTL

-----------------------------------------------------------------------------
\* Every step of a session is a step of the job it is mapped to, or none.
LEMMA JobStep == IInv /\ IInv' /\ [Next]_vars => [Job!Next]_(Job!vars)
<1> SUFFICES ASSUME IInv, IInv', [Next]_vars, ~UNCHANGED Job!vars
             PROVE  Job!Next
  OBVIOUS
<1> USE DEF counted, Job!timed, Job!over, Job!vars
<1>0. /\ TypeOK /\ LoopOK /\ CountOK /\ RipeOK /\ LoopOK'
      /\ config.interval_ms \in Nat /\ config.duration_ms \in Nat
      /\ config.iterations \in Nat
  BY ConfigType DEF IInv, ScheduleInv, TypeOK
<1>1. CASE EnterForLoop
  <2>1. Job!Begin
    BY <1>0, <1>1 DEF EnterForLoop, goto, LoopOK, TypeOK, Job!Begin
  <2> QED
    BY <2>1 DEF Job!Next
<1>2. CASE EnterDurationLoop
  <2>1. Job!Begin \/ Job!Fail
    BY <1>0, <1>2 DEF EnterDurationLoop, now_ms, goto, return, LoopOK, TypeOK,
       Job!Begin, Job!Fail
  <2> QED
    BY <2>1 DEF Job!Next
<1>3. CASE CheckDeadline
  <2>1. Job!Succeed
    BY <1>0, <1>3 DEF CheckDeadline, now_ms, goto, return, LoopOK, TypeOK,
       Job!Succeed
  <2> QED
    BY <2>1 DEF Job!Next
<1>4. CASE ReadCpu
  <2>1. Job!Fail
    BY <1>0, <1>4 DEF ReadCpu, ReadErrors, goto, return, Job!Fail
  <2> QED
    BY <2>1 DEF Job!Next
<1>5. CASE ReadMemoryAndReport
  <2>1. ~counted /\ pc = "memory" /\ samples > 0 =>
          reported_at < start_ms + config.duration_ms
    BY DEF IInv, ScheduleInv, ReportedOK
  <2>2. Job!Take \/ Job!Fail
    BY <1>0, <1>5, <2>1 DEF ReadMemoryAndReport, ReadErrors, goto, return, LoopOK,
       TypeOK, RipeOK, Ripe, CountOK, Job!Take, Job!Fail
  <2> QED
    BY <2>2 DEF Job!Next
<1>6. CASE NextIteration
  <2>1. Job!Succeed
    BY <1>0, <1>6 DEF NextIteration, goto, return, LoopOK, TypeOK, CountOK,
       Job!Succeed
  <2> QED
    BY <2>1 DEF Job!Next
<1>7. CASE AfterSample
  <2>1. Job!Succeed \/ Job!Fail
    BY <1>0, <1>7 DEF AfterSample, now_ms, goto, return, LoopOK, TypeOK,
       Job!Succeed, Job!Fail
  <2> QED
    BY <2>1 DEF Job!Next
<1>8. CASE Nanosleep \/ Interrupt \/ WakeUp
  BY <1>0, <1>8 DEF Nanosleep, Interrupt, WakeUp, goto, LoopOK
<1>9. CASE Tick
  <2>1. Job!Tick
    BY <1>0, <1>9 DEF Tick, TypeOK, LoopOK, Job!Tick
  <2> QED
    BY <2>1 DEF Job!Next
<1>10. CASE UNCHANGED vars
  BY <1>10 DEF vars
<1> QED
  BY <1>1, <1>2, <1>3, <1>4, <1>5, <1>6, <1>7, <1>8, <1>9, <1>10 DEF Next, Program

\* The sampling loops implement the promise of SamplingJob: samples an interval
\* apart, at most one of them late, and no success without completion.
THEOREM Refinement == Spec => ImplementsJob
<1>1. Init => Job!Init
  BY ClockAssumption DEF Init, Job!Init
<1>2. IInv /\ IInv' /\ [Next]_vars => [Job!Next]_(Job!vars)
  BY JobStep
<1> QED
  BY Invariance, <1>1, <1>2, PTL DEF Spec, ImplementsJob, Job!Spec
=============================================================================
