# Server Health Monitor: TLA+ models and proofs

This directory holds TLA+ specifications of the programs of this repository,
the TLC configurations that check them, and TLAPS proofs. `PROJECT.json` lists
components, runs, mutants, hazards, findings and theorems, and maps every
definition to the lines it models.

To check one configuration: `tlc -config MCSession.cfg MCSession` (the run's
module is in `PROJECT.json`; some modules need no MC module, only a `.cfg`).
To check the proofs of a module: `tlapm SessionProofs.tla`.

## The system

The repository is a collection. Its main program is `server_monitor`, a command
line tool that samples CPU and memory usage from `/proc`. Beside it there are a
C++ process table, a GTK demonstration of threads, a small test harness, and
programs that stand alone.

| Component | State | Operations | Interacts with | What makes it correct |
|---|---|---|---|---|
| monitoring session (`server_monitor.c`) | loop locals, the CPU tracker | sample, report, sleep, check the deadline | clock, `nanosleep`, signals, the two readers | samples an interval apart, no more than the duration has room for, success only when complete, it ends |
| program flow and configuration (`server_monitor.c`, `monitor_config.c`) | `MonitorConfig`, the menu loop, stdin | defaults, environment, options, validation, menu, exit code | starts sessions, reads stdin | each session gets a usable configuration; honest exit code; it ends at the end of stdin |
| CPU usage (`monitor.c`) | `CpuTracker` | one reading | the kernel's counters, which wrap | the percentage is that of the time since the last good reading |
| memory usage (`monitor.c`) | locals of one pass | one pass over `/proc/meminfo` | the kernel's text | the result is what the whole file implies |
| SystemLib (`system_lib.hpp`) | process table, id counter, mutex | create, execute, terminate, info, list | caller threads, detached workers | unique ids, pointers stay good, what runs ends, termination sticks |
| thread processor (`pthread_neural_network.c`) | the form, thread arrays, shared counter, mutex | edits, start button, `foo`, cleanup | GTK callbacks, pthreads | what the form says is started; no addition is lost; data outlive their threads; results in range; the handler returns |
| test harness (`test_framework.*`, `mem_test.*`) | counts of tests, bytes and blocks allocated | run a suite, assert, allocate, release, check for leaks | `setjmp`/`longjmp`, tests that run one after the other | the exit code and the counts agree with what happened |
| test runners (`syscall_test.*`, `integration_test.*`) | registries, counts | register, run | none | not modelled: registration is straight-line code, one thread, no state that survives a call but the registry |
| algorithms (`scheduler.cpp`, `trionic.ts`) | none | FCFS times, `isTrionic` | none | not modelled: functions of a few lines without state |
| status messages, tests, tools, page, scripts, build | none | print | none | not modelled |

Hard behaviours: time (stalls, signals, late sleeps and a failing clock around
the deadline check), wrapped counters and failed readings between good ones,
configuration assembled from four sources in a fixed order, end of input and
overlong lines; in SystemLib the unlocked fields shared by caller threads and
workers; in the thread processor a handler that stops half way while its threads
run on; in the test harness jumps out of tests that hold memory. The hazards are
listed one by one, at their lines, in `PROJECT.json`.

`ARCHITECHTURE.md` and `TODO` describe other systems and no code of this
repository; nothing is modelled from them.

## Modules

### Session, SamplingJob, MCSession, SessionProofs

`Session` is one call of `monitor_server_health`. `pc` is the point reached:
`start`, then in the timed loop `check` (line 335), `cpu` and `memory`
(`collect_health_snapshot`), `after` (364), `sleep` and `sleeping` (`sleep_ms`);
in the counted loop `cpu`, `memory`, `next` (322), `sleep`, `sleeping`; and
`done`. The CPU tracker the function owns is in `CpuUsage`. The other variables
are the locals of the function, except `now` (the clock in ms), `until` (the
kernel's timer), and `reported_at` and `top_index`, history variables: the time
of the last report and the highest index of a dashboard so far. `announced` and
`sample_index` are arguments of the dashboard, the former its `remaining_ms`;
the index turns the spinner, and `IndexAdvances` says that it is higher than
that of any dashboard before. Program steps take no time and `Tick` may happen
between any two of them, so every delay is covered. `now_ms` may return -1 at
each call. `Interrupt` is `nanosleep` ending with `EINTR` and the loop of line
109.

`SamplingJob` says what a session promises without loops, sleeps or calls of
the clock: samples one interval apart, only the last one after the time is
over, success only for a complete job. `Session!ImplementsJob` states the
refinement. After a reading of the clock that failed at line 335 (`blind`)
`SampleBudget` and `Spacing` say what is left of them: one sample more than the
duration has room for, and no two at the same time.

`StartTimes` and `Configs` are the inputs. `Horizon` bounds how long the
program may stall outside a sleep, `MaxOversleep` how late a sleep may end.

### ServerMonitor, MCServerMonitor, ServerMonitorProofs

`ServerMonitor` is `main`. Each environment variable is an action, in the order
of `monitor_config_apply_env`, with the early return at an invalid value that
`main` only warns about. Each option is an action on `argc`, the number of
arguments consumed. Then validation, the batch session or the menu. A session
is its start (`pc` is `batch` or `live`) and its status; `Session` is its
inside. Stdin is a sequence of lines chosen when read; `pending` holds the rest
of a line longer than the 128 bytes of the buffer. Texts are abstract: `strtol`
is a constant function from the texts that parse to their numbers.

`last_session` is a history variable.

### MonitorRun, MCMonitorRun, MonitorRunProofs

The composition: `MonitorRun` extends `ServerMonitor` and instantiates
`Session`. `Call` is the call of `monitor_server_health` at `batch` or `live`
with the configuration that `main` has by then, `SessionStep` a step of that
call, and `Return` the step of `ServerMonitor` that receives the status, which
is now the one the call has come to. All other steps of `main` are
`ProgramStep`. `ImplementsProgram` says that the whole is a run of
`ServerMonitor` with its fairness: in particular a session always comes back.
`UsableConfigs` is what `Session` may assume; that every call satisfies it is
part of `RunTypeOK`. The clock restarts with each session, which computes with
differences only.

### CpuUsage, CpuUsageProofs

The kernel's counters grow without bound; `read_cpu_fields` takes them modulo
`Modulus`, and all arithmetic of the program is modulo it. The ten fields are
kept in four groups (see the module's head). `FieldCount` is the number of
fields of the kernel: without fields 8 and 9, or as long as no guest has run,
guest time is on the line once. Where guests run, `GuestErrorBounded` bounds the
error instead: with r the true share, what is reported lies between r and
2r/(1+r), the share if all work were done for guests. A percentage is kept as a
fraction, so no rounding is involved. The first reading of a session reports 0.
The machine is external. `WithdrawIo` is the decrease of `iowait` that proc(5)
documents; `idle_fell` remembers that idle time as a whole was less than at the
reading before; for that interval there is no true share to compare with, and
the properties say nothing of it, but the next one is not spoiled. `last` is
what the counters were at the last good reading. The guard that the sum of the
fields grows by less than `Modulus` between two good readings stands for the
fact that 2^64 ticks never pass; the sum may wrap any number of times.

### MemoryInfo, MCMemoryInfo, MemoryInfoProofs

One pass over the lines of `/proc/meminfo` with the break of line 130, the
fallback of line 137 and the tests of line 141. A line has a label and a
number; a line that `fscanf` does not match ends the pass.

### ProcessManager, ProcessManagerProofs

The calls of the API, each split into a step for every locked section and for
every read or write of a field of a `ProcessInfo`, since these are outside the
lock. Sections that take and release `processMutex` around one access are one
step; `listProcesses`, which copies all processes under the lock, is two.
`worker[w]` is the detached thread of execution `w`; its 100 ms are not a
bound on anything, since the scheduler may delay any other thread as long.
`SpawnFails` is `std::thread` throwing. `terminated` and `unstarted` are history
variables.

The fields are plain `bool` and `int`: concurrent accesses are data races. The
model gives each access the values that some earlier write left there, the
outcomes of aligned loads and stores as compiled for common machines.

### ThreadProcessor, AtomicCounter, ThreadProcessorProofs

The form (`entry`, `num_threads`, `input_entries`), `on_start_button_clicked`
with its loops for creating and joining threads and `cleanup`, and `foo` in every
thread. The handlers run in one thread; the steps of a handler interleave with
those of the threads, also with threads of an earlier press that the handler
left behind. A thread is a press and an index. `foo` is three steps: it gets the
mutex and reads the counter, it writes the counter and gives the mutex up, it
reads the counter again for its result (line 212). `MayFail` says which calls
may fail: those of the handler (`malloc`, `pthread_create`, `pthread_join`),
those of a thread (`malloc`, lock) and the unlock. What C leaves undefined is
`crashed` if it is the use of an unset or null pointer, and any value if it is
a read of freed memory by a thread. `globalCounter` has the width of an `int`, with
`MaxInt` for its largest value, and its overflow wraps (`int_sum`), as addition
does on the machines the program is built for.

`activate` may happen again: a second start of the application gives the running
one a second window, and both edit one `num_threads`. The widgets of `app` are
then those of the newer window (lines 46-91), and either window may be closed
(`CloseWindow`). While the newer one is closed and the older one open (`stale`),
Start and the entries of the older one use widgets that are destroyed. Two
things may come of that: the program ends, at any moment (`UseClosed`), or it
goes on with what the memory of the widgets holds by then (`Decay`: any number
in `entry` and any inputs). `Decay` happens between presses of Start; that the
memory changes between the check of the inputs and their second reading in one
run of the handler is left out, and so is what a write to a destroyed widget
does to other data. `before`, `added` and `failures` are history variables. A
thread is `joined` when `pthread_join` has given its result to the handler,
which frees it.

`AtomicCounter` is what threads and window may take the counter for: each thread
adds its amount once and in one step, and what is shown is a value that the
counter had later. It has no mutex, no handler and no lock that a failed
thread keeps. `ThreadProcessor!ImplementsCounter` states the refinement: the
addition happens at `AddAndUnlock`, all steps of the handler are stutters but the
start of a thread, the join that shows a result, the release of a thread's data
while it runs (it may then add any amount), and the press that clears the output.

### TestHarness, TestHarnessProofs

A run of `run_test_suite` over tests that make any sequence of the calls of
`mem_test`: switch tracking, allocate, free, check for leaks. A test ends by
return or by a failed `ASSERT`, whose `longjmp` leaves its blocks and the setting
of the tracking to the next test. `check_for_leaks` ends the program. `aborted`
and `mixed` are history variables; `mixed` records that a block was freed with
tracking on that was allocated with it off, or the reverse. `counted_bytes` is
what the counter should say, as a set: a pair for each byte of each block that
was allocated with tracking on.

## Runs

| Run | Instance | What it shows |
|---|---|---|
| session | intervals 1 to 3, durations 1 to 5, timed and counted, start at 0 and 3; stalls up to time 10, sleeps up to 2 late | TypeOK, SampleBudget, Spacing, IndexAdvances, OneLateSample, CompletionHonest, ImplementsJob, Termination |
| server_monitor | the limits of the code, numbers on both sides of each of them, argv of up to 5 | TypeOK, SessionConfigOK, LiveIsTimed, ExitHonest, EndOfInputEnds |
| monitor_run | limits of 1 to 3 for the interval, 2 to 4 for the duration, up to 4 iterations, argv of up to 3; stalls up to time 5, sleeps up to 1 late | RunTypeOK, ExitMeansSampled, ImplementsProgram |
| cpu_usage | counters of 6 values, 8 ticks, 10 fields | TypeOK, ReportTrue, GuestErrorBounded |
| memory_info | all orders of five lines and an unreadable one, 12 choices of numbers | TypeOK, AgreesWithFile |
| process_manager | 2 callers, 2 processes, 2 executions | TypeOK, IdsUnique, PointersGood, RunningEnds, Ended |
| thread_processor | 2 threads at most, numbers 0 to 3 in the entry, inputs 0 and 1, 2 presses, 2 windows opened and closed, a largest `int` of 4, one call that fails | TypeOK, StartsWhatIsShown, NothingLost, OutlivesThreads, CleanUnlessFailed, ResultsInRange, NobodyStuck, ImplementsCounter, Responds |
| test_harness | 3 tests of up to 5 calls, 3 blocks, sizes 1 and 2 | TypeOK, CounterExact, SuccessEarned, FailureHasReason |

The bounds are enough for the cases that matter. The durations are a multiple of
the interval, not one, and equal to it; `Horizon` is twice the longest duration,
so a stall can pass the deadline between any two steps; start time 3 makes the
value -1 of a failed clock differ from an elapsed time of 0. With `argc` up to 5
two options with values, or one and two flags, follow one another, in both
orders, after any environment. In monitor_run the limits are small because
sessions are run through; the texts lie on both sides of each. Counters of 6
values wrap within 8 ticks, and their sum, in which a tick for a guest counts
twice, more than once. A file cut at every place in every order leaves every
subset of the lines. Two callers meet on one process; the worker of a first
execution meets the second one; the last id is never a process. Two presses let
threads that the first one left behind meet those of the second; two windows let
`entry` and `num_threads` disagree, as does an entry of 0 or 3, and either of
them can be closed before the other; with a largest `int` of 4 and a counter
that starts at 2 the second press overflows it; one failed call of each kind
reaches every exit of the handler and of `foo`. The second of three tests can
meet what the first has left and leave something to the third. Deadlock is not
checked: the programs end, the calls of the bounded models run out.

Four more runs are violations, each of a statement of the repository:

| Run | Statement | What happens |
|---|---|---|
| announced | "Next sample in" (server_monitor.c:277) | a timed session shows the time left of the whole session |
| guest_time | "based on deltas from the previous sample" (monitor.c:36) | guest time is counted twice in the total: one tick for a guest and one idle tick are reported as two thirds busy |
| terminated_kept | "exitCode = -1; // Terminated" (system_lib.hpp:265) | the worker later writes 0 |
| started_once | "Already running" (system_lib.hpp:233) | two calls both start the process |

Every property of a passing run has a mutant in `PROJECT.json`: a changed
definition, marked `Mutant` in the modules, under which the property fails.

## Fairness

- `Session!Fairness`: the program is scheduled (`WF_vars(Program)`), and the
  clock goes on while it sleeps. Signals and stalls have no fairness, and a read
  of the clock or of `/proc` may fail or not as it likes.
- `ServerMonitor!FairSpec`: `main` runs on whenever it can. The user need not
  ever reach the end of input; `EndOfInputEnds` speaks about what follows it. A
  session in progress ends, which is what `Termination` shows of `Session`.
- `MonitorRun!RunFairSpec`: the process runs on whenever it can, and a session
  has the fairness of `Session`; that sessions end is no assumption here but
  follows, and `ImplementsProgram` includes the fairness of `ServerMonitor`.
- `ProcessManager!Fairness`: each caller inside a call and each worker is
  scheduled. Nobody has to make a call. `std::mutex` promises no order, so the
  lock is not granted fairly: `Ended` assumes that calls of `listProcesses`,
  the only ones seen to hold it, do not go on forever.
- `ThreadProcessor!Fairness`: the handler, once called, and every thread are
  scheduled. The user need not do anything. Weak fairness is enough for the
  mutex, although its grants are not ordered: only finitely many threads exist,
  and each takes it once.

## Proofs

All theorems hold for every value of the constants under the assumptions the
modules name; TLC evaluates these on every run.

`SessionProofs` proves the safety properties of `Session` and the refinement of
`SamplingJob`. `SampleBudget` and `Spacing` are not inductive: that a sample may
be taken depends on the sleep before it, and on what the next reading of the
clock will be. The invariant `IInv` therefore says at each point that the next
sample is *ripe*: at the time it can come, an interval has passed since the last
and `samples` intervals since the start, or the time is over. At `sleep` this is
about `now + req`, at `sleeping` about `until`, so an interruption keeps it.
`CheckedOK` carries what the deadline check saw, unless the clock failed there
(`blind`), and `ReportedOK` what was true at the last report. The refinement
uses this invariant, step by step. `IndexAdvances` needs `TopOK` beside it: the
dashboard with the highest index was shown when no fewer intervals than that had
passed since the start, and the next sample comes an interval later, so that the
quotient is higher; a lemma on quotients does the rest. `BlindBudget`, the
budget with one sample more, holds whether the clock fails or not: a failed
reading lets a sample through, but the next good one, at `after`, sees the time
that has really passed.

`ServerMonitorProofs` proves the safety properties of `ServerMonitor`. Its
invariant says that every assigned field is in range from the start, even
before validation, that iterations imply the non-interactive mode, and that
iterations are 0 until the last variable of the environment is read, which is
why the mode cannot be turned off after them.

`MonitorRunProofs` proves the safety part of the refinement (`Implements`),
`RunTypeOK` and `ExitMeansSampled`. It cites the lemmas of the other two modules
instead of repeating them: `ServerMonitorProofs` gives every call a
configuration that satisfies the assumption of `SessionProofs`, which is
instantiated with them, and the invariant of a session holds from `Call` on.
So what is proved of either part is carried over to the whole: `RunOnSchedule`
states the sampling discipline of every session of every run, `RunHonest` the
properties of `main` with the status its sessions really return.

`CpuUsageProofs` proves `ReportTrue` and `GuestErrorBounded` for every width of the
counters and every number of fields. The
lemmas on `%` reduce sums and differences of wrapped numbers to the wrapped sum
and the true difference; the invariant ties the tracker to the counters at the
last good reading, guests' ticks counted twice (`ReadShare`), and says that guests
had no more of the time since then than was busy. With t ticks, b of them busy and
g of these for guests, `ShareBounds` puts (b + g)/(t + g) between b/t and
2b/(t + b).

`MemoryInfoProofs` proves `AgreesWithFile` for every file in which each line of
interest comes at most once (`OnceAssumption`). The invariant ties `rest` and
`kb` to the lines read so far; a number that has been read is the file's, and
at the end of the pass an absent one is, too.

`ProcessManagerProofs` proves `IdsUnique`, `PointersGood` and `RunningEnds` for any
number of callers, processes and executions. The invariant adds that every id
in use has been drawn from the counter (`Drawn`), so that a new one is above
all of them. For `RunningEnds` each step shows who still has the duty to end
the process, and that it goes from the caller to the worker at `SpawnWorker`. `MutexBriefly`
says who holds the table's mutex between two steps: only a call of
`listProcesses`, and its next step gives it back.

`ThreadProcessorProofs` proves all safety properties of `ThreadProcessor`, for
any limits, presses and failures. Its invariant is one part per property:
`MutexInv` (who writes holds the mutex and has read the present counter),
`BatchInv` (unless the handler failed, a thread alive is one of those not yet
joined, and has its data), `CleanInv` (which data exist at each point of the
handler), `CrashInv` (only a closed window ends the program) and `ResultInv`
(the last thread to add is still to return the total, or its result is in the
output). `NothingLost` rests on a lemma on `int_sum`: a sum that wraps on the
way is the wrapped sum. `GrowthInv` says that without failures the inputs are
positive, so that a counter that fits an `int` now has always done so;
`ResultsInRange` needs it. `Clean` is about the pointers of a batch: destroyed
widgets are a way to crash that it names and does not exclude. Two more parts
hold beside these. `WaitInv` says that the threads the handler has created and
not joined exist, and that the mutex, if held, is held by a thread at `write`
unless an unlock failed; `NeverStuck` follows. `InputInv` says that what is in
the entries and what a thread was given is an input a user may type, which the
refinement of `AtomicCounter` needs; `Refinement` then maps each step to a step
or a stutter, with the invariant `MutexInv` showing that the value a thread read
at `lock` is still the counter's when it adds.

`TestHarnessProofs` proves all properties of `TestHarness`. `CountsOK` says that
tests passed and failed add up to those that are over. `BytesOK` is
`CounterExact` as an inductive invariant: an allocation adds a set of as many
pairs as its size, a release takes one away, and the theorems on finite sets
give the cardinalities. `FailureHasReason` rests on it: if `check_for_leaks` finds
a counter that is not 0, `counted_bytes`, and so `counted_blocks`, is not empty.

Every safety property of a passing run is a theorem. Only model-checked are
`Termination`, `EndOfInputEnds`, `Ended`, `Responds`, and the fairness within
`ImplementsProgram`: liveness is beyond the prover. The four violations are
counterexamples of TLC.

## Not modelled

The text of reports and its layout, colours and thresholds; null pointers that
no caller passes; numbers of memory so large that the fallback's sum wraps;
the wrap of `size + sizeof(size_t)` in
`test_malloc`; the Windows branch of SystemLib and the end of the process under
its detached workers; and the components marked `not_modelled` in
`PROJECT.json` with their reasons: the two runners that loop over a registry,
the stand-alone algorithms, the table of status messages, the tools that print
the output of system commands, tests, page, scripts and build.

`Session!IndexAdvances` excepts samples whose check of the clock failed
(`blind`). `elapsed` is then below zero and so may be the index of the spinner
(server_monitor.c:354, 279), a consequence of the untested reading at line 335.

## What is left

1. `Algorithms`: `isTrionic` and the FCFS times against reference definitions,
   over all short inputs, and the registry of `syscall_test` at its limit.
2. An abstract specification of a process as its callers see it (new, running,
   ended, terminated), with the conditions under which `ProcessManager`
   implements it: today it does not, as `terminated_kept` and `started_once` show.
3. `getProcessInfo` as two reads, once something is done with the copy.
