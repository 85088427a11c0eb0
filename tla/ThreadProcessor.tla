--------------------------- MODULE ThreadProcessor ---------------------------
(***************************************************************************)
(* The thread processor (pthread_neural_network.c).  A GTK window takes a  *)
(* number of threads and one input for each.  Start runs the function foo  *)
(* in that many threads, which add their inputs to one counter behind a    *)
(* mutex, joins them, shows what they return and cleans up.  The handlers  *)
(* run in the main thread, one at a time; their steps and those of foo     *)
(* interleave.  What a thread does without another seeing it is no step of *)
(* its own: it reads the counter as it gets the mutex, and adds its input  *)
(* as it gives the mutex back.                                             *)
(*                                                                         *)
(* A step that C does not define, the use of a pointer that is NULL, was   *)
(* never set or points to a destroyed widget, ends the program, or goes on *)
(* with any value where there is memory to read.  A sum that is too large  *)
(* for an int wraps, as on the machines the program is built for.          *)
(***************************************************************************)
EXTENDS Integers, Sequences

CONSTANTS
  ThreadLimit,     \* the most threads a user may ask for
  DefaultThreads,  \* what the entry says at first
  Counts,          \* the numbers a user may ask for
  Inputs,          \* the numbers that atoi may find in the entry for an input
  MaxInt,          \* the largest int
  NoWorker,        \* owner of the mutex when it is free
  MayFail,         \* the calls that may fail, see fails
  MaxFailures,     \* bound on the calls that do
  MaxPresses,      \* bound on the times Start is pressed
  MaxWindows       \* bound on the times the application is activated

ASSUME ThreadAssumption ==
  /\ ThreadLimit \in Nat /\ DefaultThreads \in 1..ThreadLimit
  /\ Counts \subseteq Int /\ Inputs \subseteq Int /\ 1 \in Inputs
  /\ MaxInt \in Nat /\ MaxInt >= 2
  /\ MayFail \subseteq {"handler", "thread", "unlock"}
  /\ MaxFailures \in Nat /\ MaxPresses \in Nat /\ MaxWindows \in Nat \ {0}

\* The threads are named by the press of Start they belong to and their index.
Workers == (1..MaxPresses) \X (0..ThreadLimit - 1)

ASSUME NoWorkerAssumption == NoWorker \notin Workers

VARIABLES
  windows,        \* how often the application was activated, each time for a window
  open,           \* the windows that have not been closed, by number
  entry,          \* the number in the entry of the newest window
  num_threads,    \* app->num_threads
  input_entries,  \* app->input_entries: the numbers in the entries for inputs
  main,           \* what the main thread is doing, for which thread
  presses,        \* the times Start was pressed with valid inputs
  arrays,         \* the pointers threads and thread_data that are not NULL
  thread_data,    \* the pointers in that array and what they point to
  worker,         \* the threads: where they are, and the variables of foo
  globalCounter,
  counterMutex,   \* the thread that holds it
  output,         \* the results in the output buffer
  before,         \* history: the counter when Start was pressed last
  added,          \* history: the sum of what the threads have added
  failures        \* history: the calls that have failed

form == <<windows, open, entry, num_threads, input_entries>>

shown == <<presses, output, before>>

counter == <<globalCounter, counterMutex, added>>

vars == <<form, main, arrays, thread_data, worker, counter, shown, failures>>

InitialCounter == 2

defaults(n) == [i \in 0..n - 1 |-> 1]

Init ==
  /\ windows = 1 /\ open = {1}
  /\ entry = DefaultThreads
  /\ num_threads = DefaultThreads
  /\ input_entries = defaults(DefaultThreads)
  /\ main = [pc |-> "idle", i |-> 0]
  /\ presses = 0
  /\ arrays = {}
  /\ thread_data = [w \in Workers |-> "unset"]
  /\ worker = [w \in Workers |-> [pc |-> "none", input |-> 0, value |-> 0]]
  /\ globalCounter = InitialCounter
  /\ counterMutex = NoWorker
  /\ output = {}
  /\ before = InitialCounter
  /\ added = 0
  /\ failures = <<>>

\* The main thread's place in on_start_button_clicked, and thread i of the batch.
at(label) == main.pc = label

goto(label, i) == main' = [pc |-> label, i |-> i]

current(i) == <<presses, i>>

\* A call of the handler or of a thread fails, or the release of the mutex.
fails(f) ==
  /\ f \in MayFail /\ Len(failures) < MaxFailures
  /\ failures' = Append(failures, f)

have_failed(f) == \E k \in DOMAIN failures : failures[k] = f

-----------------------------------------------------------------------------
\* The form.

allowed(n) == n \in 1..ThreadLimit

\* Mutant: the number is stored before it is checked.
on_num_threads_changed_unchecked(n) ==
  /\ num_threads' = n
  /\ input_entries' = IF allowed(n) THEN defaults(n) ELSE input_entries

on_num_threads_changed(n) ==
  IF allowed(n)
  THEN num_threads' = n /\ input_entries' = defaults(n)
  ELSE UNCHANGED <<num_threads, input_entries>>

form_only == UNCHANGED <<main, arrays, thread_data, worker, counter, shown, failures>>

\* A second start of the application activates the one that runs: it gets
\* another window, and the widgets of the first are no longer those of app.
activate ==
  /\ at("idle") /\ windows < MaxWindows
  /\ windows' = windows + 1 /\ open' = open \cup {windows + 1}
  /\ entry' = DefaultThreads
  /\ on_num_threads_changed(DefaultThreads)
  /\ form_only

EditThreads ==
  /\ at("idle") /\ windows \in open
  /\ \E n \in Counts : entry' = n /\ on_num_threads_changed(n)
  /\ UNCHANGED <<windows, open>> /\ form_only

\* The entry of an older window has the same handler.
EditOldThreads ==
  /\ at("idle") /\ open \ {windows} # {}
  /\ \E n \in Counts : on_num_threads_changed(n)
  /\ UNCHANGED <<windows, open, entry>> /\ form_only

EditInput ==
  /\ at("idle") /\ windows \in open
  /\ \E i \in DOMAIN input_entries, n \in Inputs :
       input_entries' = [input_entries EXCEPT ![i] = n]
  /\ UNCHANGED <<windows, open, entry, num_threads>> /\ form_only

\* A window is closed, and its widgets are destroyed.  With the last one the mutex
\* is destroyed and the program ends.
CloseWindow ==
  /\ at("idle")
  /\ \E w \in open : open' = open \ {w}
  /\ IF open' = {} THEN goto("ended", 0) ELSE UNCHANGED main
  /\ UNCHANGED <<windows, entry, num_threads, input_entries>>
  /\ UNCHANGED <<arrays, thread_data, worker, counter, shown, failures>>

\* The widgets of app are those of the newest window, even when it is closed.
stale == windows \notin open

\* Start or an edit in an older window then uses destroyed widgets: the program
\* ends ...
UseClosed ==
  /\ stale /\ main.pc \notin {"crashed", "ended"}
  /\ goto("crashed", 0)
  /\ UNCHANGED <<form, arrays, thread_data, worker, counter, shown, failures>>

\* ... or finds what their memory holds by then.
Decay ==
  /\ at("idle") /\ stale
  /\ entry' \in Counts
  /\ input_entries' \in [0..num_threads - 1 -> Inputs]
  /\ UNCHANGED <<windows, open, num_threads>> /\ form_only

\* Mutant: the entry for the number of threads is not looked at.
validate_inputs_only ==
  \A i \in DOMAIN input_entries : i < num_threads => input_entries[i] > 0

\* The entry is checked, and the entries of as many threads as app says.  One
\* that app says and the array does not have is a NULL pointer.
validate_inputs ==
  /\ allowed(entry)
  /\ \A i \in DOMAIN input_entries : i < num_threads => input_entries[i] > 0

-----------------------------------------------------------------------------
\* The handler of the button.

Press ==
  /\ at("idle") /\ presses < MaxPresses
  /\ validate_inputs
  /\ presses' = presses + 1
  /\ output' = {}
  /\ before' = globalCounter
  /\ \/ /\ arrays' = {"threads", "thread_data"}
        /\ goto("create", 0)
        /\ UNCHANGED failures
     \/ /\ arrays' \in {{}, {"threads"}, {"thread_data"}}
        /\ fails("handler")
        /\ UNCHANGED main
  /\ UNCHANGED <<form, thread_data, worker, counter>>

\* The data of a thread are allocated and the thread is created.
CreateThread ==
  /\ at("create") /\ main.i < num_threads
  /\ LET w == current(main.i)
     IN  \/ /\ thread_data' = [thread_data EXCEPT ![w] = "NULL"]
            /\ fails("handler")
            /\ goto("cleanup", 0)
            /\ UNCHANGED worker
         \/ /\ main.i \notin DOMAIN input_entries
            /\ goto("crashed", 0)
            /\ UNCHANGED <<thread_data, worker, failures>>
         \/ /\ main.i \in DOMAIN input_entries
            /\ thread_data' = [thread_data EXCEPT ![w] = "allocated"]
            /\ \/ /\ worker' = [worker EXCEPT ![w].pc = "lock",
                                              ![w].input = input_entries[main.i]]
                  /\ goto("create", main.i + 1)
                  /\ UNCHANGED failures
               \/ fails("handler") /\ goto("cleanup", 0) /\ UNCHANGED worker
  /\ UNCHANGED <<form, arrays, counter, shown>>

\* Mutant: the last thread is not joined.
to_join_short == num_threads - 1

to_join == num_threads

StartJoining ==
  /\ at("create") /\ main.i = num_threads
  /\ goto("join", 0)
  /\ UNCHANGED <<form, arrays, thread_data, worker, counter, shown, failures>>

\* A thread that returned NULL has no result to show.
JoinThread ==
  /\ at("join") /\ main.i < to_join
  /\ LET w == worker[current(main.i)]
     IN  \/ /\ w.pc = "returned"
            /\ output' = output \cup {w.value}
            /\ worker' = [worker EXCEPT ![current(main.i)].pc = "joined",
                                        ![current(main.i)].value = 0]
            /\ goto("join", main.i + 1)
            /\ UNCHANGED failures
         \/ /\ w.pc = "returned_NULL"
            /\ goto("crashed", 0)
            /\ UNCHANGED <<output, worker, failures>>
         \/ fails("handler") /\ goto("cleanup", 0) /\ UNCHANGED <<output, worker>>
  /\ UNCHANGED <<form, arrays, thread_data, counter, presses, before>>

FinishJoining ==
  /\ at("join") /\ main.i >= to_join
  /\ goto("cleanup", 0)
  /\ UNCHANGED <<form, arrays, thread_data, worker, counter, shown, failures>>

\* cleanup, for one thread after the other.  An entry of thread_data that was
\* never set is whatever malloc left there: NULL, or no pointer at all.
FreeData ==
  /\ at("cleanup") /\ main.i < num_threads
  /\ LET w == current(main.i)
     IN  /\ thread_data' = IF thread_data[w] = "allocated"
                           THEN [thread_data EXCEPT ![w] = "freed"]
                           ELSE thread_data
         /\ \/ goto("cleanup", main.i + 1)
            \/ thread_data[w] = "unset" /\ goto("crashed", 0)
  /\ UNCHANGED <<form, arrays, worker, counter, shown, failures>>

\* Mutant: the array of the threads' data is kept.
left_after_cleanup_data == {"thread_data"}

left_after_cleanup == {}

FinishCleanup ==
  /\ at("cleanup") /\ main.i = num_threads
  /\ arrays' = left_after_cleanup
  /\ goto("idle", 0)
  /\ UNCHANGED <<form, thread_data, worker, counter, shown, failures>>

Handler ==
  \/ CreateThread \/ StartJoining \/ JoinThread \/ FinishJoining
  \/ FreeData \/ FinishCleanup

-----------------------------------------------------------------------------
\* foo, for thread w.

running == main.pc \notin {"crashed", "ended"}

in(w, label) == running /\ worker[w].pc = label

moves(w, label) == worker' = [worker EXCEPT ![w].pc = label]

worker_only == UNCHANGED <<form, main, arrays, thread_data, shown>>

\* Mutant: the lock is not taken.
mutex_free_untested == TRUE

mutex_free == counterMutex = NoWorker

\* foo up to the read of the counter: without the memory for a result or without
\* the mutex it ends at once.
LockAndRead(w) ==
  /\ in(w, "lock")
  /\ \/ /\ mutex_free
        /\ counterMutex' = w
        /\ worker' = [worker EXCEPT ![w].pc = "write", ![w].value = globalCounter]
        /\ UNCHANGED failures
     \/ fails("thread") /\ moves(w, "returned_NULL") /\ UNCHANGED counterMutex
  /\ worker_only /\ UNCHANGED <<globalCounter, added>>

\* data->inputValue.
input_values(w) ==
  IF thread_data[w] = "allocated" THEN {worker[w].input} ELSE Inputs

\* The sum of two numbers of type int.
int_sum(a, n) == ((a + n + MaxInt + 1) % (2 * MaxInt + 2)) - MaxInt - 1

\* Mutant: the mutex is not released.
released_never(w) == w

released(w) == NoWorker

AddAndUnlock(w) ==
  /\ in(w, "write")
  /\ \E n \in input_values(w) :
       globalCounter' = int_sum(worker[w].value, n) /\ added' = added + n
  /\ \/ /\ counterMutex' = released(w)
        /\ worker' = [worker EXCEPT ![w].pc = "result", ![w].value = 0]
        /\ UNCHANGED failures
     \/ fails("unlock") /\ moves(w, "returned_NULL") /\ UNCHANGED counterMutex
  /\ worker_only

\* Mutant: the thread returns what it saw before it added its input.
result_of_seen(w) == globalCounter - worker[w].input

\* The counter, read without the mutex.
result_of(w) == globalCounter

ReturnResult(w) ==
  /\ in(w, "result")
  /\ worker' = [worker EXCEPT ![w].pc = "returned", ![w].value = result_of(w)]
  /\ worker_only /\ UNCHANGED <<counter, failures>>

foo(w) == LockAndRead(w) \/ AddAndUnlock(w) \/ ReturnResult(w)

-----------------------------------------------------------------------------
User ==
  \/ activate \/ CloseWindow \/ UseClosed \/ Decay
  \/ EditThreads \/ EditOldThreads \/ EditInput \/ Press

Next == User \/ Handler \/ \E w \in Workers : foo(w)

Spec == Init /\ [][Next]_vars

\* The threads are scheduled, and the user need not do anything.  A mutex that
\* is free is granted: there are only so many threads to be served first.
Fairness == WF_vars(Handler) /\ \A w \in Workers : WF_vars(foo(w))

FairSpec == Spec /\ Fairness

-----------------------------------------------------------------------------
TypeOK ==
  /\ windows \in 1..MaxWindows /\ open \subseteq 1..windows
  /\ entry \in Int /\ num_threads \in 1..ThreadLimit
  /\ input_entries \in [0..num_threads - 1 -> Int]
  /\ main \in [pc: {"idle", "create", "join", "cleanup", "crashed", "ended"},
               i: 0..ThreadLimit]
  /\ presses \in 0..MaxPresses
  /\ arrays \subseteq {"threads", "thread_data"}
  /\ thread_data \in [Workers -> {"unset", "NULL", "allocated", "freed"}]
  /\ worker \in [Workers -> [pc: {"none", "lock", "write", "result", "returned",
                                  "joined", "returned_NULL"},
                             input: Int, value: Int]]
  /\ globalCounter \in Int /\ counterMutex \in Workers \cup {NoWorker}
  /\ output \subseteq Int
  /\ before \in Int /\ added \in Int
  /\ failures \in Seq(MayFail) /\ Len(failures) <= MaxFailures

busy == main.pc \in {"create", "join", "cleanup"}

\* What is started is what the form says, although the entry and app->num_threads
\* part ways at every invalid edit (lines 100-105 and 224-230): the handler finds a
\* positive input for each thread and, with one window, the number in its entry.
StartsWhatIsShown ==
  busy =>
    /\ \A i \in 0..num_threads - 1 : input_entries[i] > 0
    /\ windows = 1 => num_threads = entry

\* No addition is lost, whatever the threads of this press and of earlier ones
\* that failed do at the same time, and one that failed between lock and unlock
\* included (lines 197-209): the counter is the sum of all inputs, as an int.
NothingLost == globalCounter = int_sum(InitialCounter, added)

\* The sum has not become too large for an int.
fits == InitialCounter + added <= MaxInt

\* A thread still reads its data (lines 194 and 203) while the main thread is in
\* the handler, or the handler was left early: data and mutex outlive their users
\* if main's own calls succeed.
alive(w) == worker[w].pc \notin {"none", "returned", "joined", "returned_NULL"}

reads_data(w) == worker[w].pc \in {"lock", "write"}

OutlivesThreads ==
  ~have_failed("handler") =>
    \A w \in Workers :
      /\ reads_data(w) => thread_data[w] = "allocated"
      /\ alive(w) => w[1] = presses /\ main.pc \in {"create", "join", "crashed"}

\* Without a failure no pointer of a batch is used that is NULL, was never set or
\* whose block is freed: the program ends that way only by the widgets of a window
\* that was closed before an older one (lines 46-91).  And an idle program has
\* nothing left of a batch: no array, no data, no thread.
CleanUnlessFailed ==
  failures = <<>> =>
    /\ at("crashed") => stale /\ open # {}
    /\ at("idle") =>
         arrays = {} /\ \A w \in Workers : ~alive(w) /\ thread_data[w] # "allocated"

\* The results shown may include other threads' inputs, as the counter is read
\* again after the mutex is released (line 212), but not arbitrary ones: each is
\* more than the counter was, none more than it is, and one is the total.  After an
\* overflow of the counter (line 203) they may be anything.
ResultsInRange ==
  failures = <<>> /\ fits /\ main.pc \in {"cleanup", "idle"} /\ presses > 0 =>
    /\ \A r \in output : before < r /\ r <= globalCounter
    /\ globalCounter \in output

\* No deadlock between the handler, which waits in pthread_join (line 169), and the
\* threads, which wait for the mutex (line 197): the thread it waits for exists and
\* was not joined before, and whoever has the mutex is about to release it.
NobodyStuck ==
  at("join") /\ main.i < num_threads /\ ~have_failed("unlock") =>
    /\ worker[current(main.i)].pc \notin {"none", "joined"}
    /\ counterMutex # NoWorker => worker[counterMutex].pc = "write"

\* The threads add to one atomic counter: at the moment a thread releases the mutex
\* it adds its input to what the counter then is, and what the window shows of it
\* is the counter at a later moment (lines 197-213 and 168-181).
stage == [w \in Workers |->
  CASE worker[w].pc \in {"lock", "write"} -> "begun"
    [] worker[w].pc = "result" -> "added"
    [] worker[w].pc = "returned_NULL" -> "failed"
    [] OTHER -> worker[w].pc]

given == [w \in Workers |-> IF reads_data(w) THEN input_values(w) ELSE {}]

result == [w \in Workers |-> IF worker[w].pc = "returned" THEN worker[w].value ELSE 0]

Atomic == INSTANCE AtomicCounter WITH
  Threads <- Workers, Amounts <- Inputs, InitialValue <- InitialCounter, Largest <- MaxInt,
  value <- globalCounter, shown <- output

ImplementsCounter == Atomic!Spec

\* The handler returns to the main loop, without which the window is dead, or the
\* program crashes; unless a mutex could not be released (line 206).
Responds == busy ~> ~busy \/ have_failed("unlock")
=============================================================================
