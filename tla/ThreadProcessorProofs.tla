------------------------ MODULE ThreadProcessorProofs ------------------------
(***************************************************************************)
(* The safety properties of ThreadProcessor for any number of threads,     *)
(* presses, windows and failures, and any inputs.                          *)
(***************************************************************************)
EXTENDS ThreadProcessor, TLAPS

\* The program ends with its last window, and the number in the newest entry was
\* handed to app if it is allowed.
FormInv ==
  /\ open = {} => at("ended")
  /\ windows = 1 /\ allowed(entry) => num_threads = entry
  /\ StartsWhatIsShown
  /\ busy => main.i <= num_threads /\ presses > 0

\* The mutex keeps the counter as its holder has read it.
MutexInv ==
  /\ \A w \in Workers :
       worker[w].pc = "write" => counterMutex = w /\ worker[w].value = globalCounter
  /\ NothingLost

\* The threads of later presses do not exist, nor do those of this one that the
\* handler has yet to create.
FutureInv ==
  \A w \in Workers :
    w[1] > presses \/ (w[1] = presses /\ at("create") /\ main.i <= w[2]) =>
      worker[w].pc = "none"

\* What a thread adds is a number that atoi has found in an entry.
InputInv ==
  /\ \A i \in DOMAIN input_entries : input_entries[i] \in Inputs
  /\ \A w \in Workers : reads_data(w) => worker[w].input \in Inputs

\* The threads of the current batch that are joined in what is left to do.
unjoined(w) ==
  /\ w[1] = presses /\ w[2] < num_threads
  /\ \/ at("create") /\ w[2] < main.i
     \/ at("join") /\ main.i <= w[2]

\* They exist, and only a thread that writes the counter keeps the mutex, if it can
\* be released.
WaitInv ==
  /\ \A w \in Workers : unjoined(w) => worker[w].pc \notin {"none", "joined"}
  /\ ~have_failed("unlock") /\ counterMutex # NoWorker =>
       worker[counterMutex].pc = "write"

\* As long as the handler gets what it asks for, every thread that runs is one of
\* those and has its data.
BatchInv ==
  ~have_failed("handler") =>
    \A w \in Workers : alive(w) =>
      /\ thread_data[w] = "allocated"
      /\ w[1] = presses
      /\ unjoined(w) \/ at("crashed")

\* Without any failure only a closed window ends the program.
CrashInv == failures = <<>> /\ at("crashed") => stale /\ open # {}

\* Without any failure every thread that was created has data until it is
\* cleaned up, and nothing else is allocated.
CleanInv ==
  failures = <<>> /\ ~at("crashed") =>
    /\ at("idle") => arrays = {}
    /\ \A w \in Workers :
         /\ worker[w].pc # "returned_NULL"
         /\ thread_data[w] = "allocated" =>
              busy /\ w[1] = presses /\ (at("cleanup") => main.i <= w[2])
                                     /\ w[2] < num_threads
         /\ busy /\ w[1] = presses /\ w[2] < num_threads
                 /\ (at("create") => w[2] < main.i) =>
              worker[w].pc # "none" /\ thread_data[w] # "unset"

\* Without any failure the threads have positive inputs, so the sum only grows.
GrowthInv ==
  failures = <<>> =>
    /\ added >= 0
    /\ \A w \in Workers : alive(w) => worker[w].input > 0

\* Without any failure and overflow the results are past the counter at the start,
\* and the last one to add is still to return the total, or has.
ResultInv ==
  failures = <<>> /\ presses > 0 /\ fits /\ ~at("crashed") =>
    /\ before <= globalCounter
    /\ \A r \in output : before < r /\ r <= globalCounter
    /\ \A w \in Workers : w[1] = presses =>
         /\ worker[w].pc \in {"result", "returned", "joined"} => before < globalCounter
         /\ worker[w].pc = "returned" /\ unjoined(w) =>
              before < worker[w].value /\ worker[w].value <= globalCounter
    /\ \/ globalCounter = before /\ main.pc \in {"create", "join"}
       \/ globalCounter \in output
       \/ \E w \in Workers :
            /\ unjoined(w)
            /\ \/ worker[w].pc = "result"
               \/ worker[w].pc = "returned" /\ worker[w].value = globalCounter

IInv ==
  /\ TypeOK /\ FormInv /\ MutexInv /\ FutureInv /\ InputInv /\ WaitInv
  /\ BatchInv /\ CrashInv /\ CleanInv /\ GrowthInv /\ ResultInv

-----------------------------------------------------------------------------
\* A call that fails is remembered.
LEMMA FailureKept ==
  ASSUME TypeOK, NEW f \in {"handler", "thread", "unlock"}, fails(f)
  PROVE  /\ failures' # <<>>
         /\ failures' \in Seq(MayFail) /\ Len(failures') <= MaxFailures
         /\ have_failed(f)'
         /\ \A g \in {"handler", "unlock"} : have_failed(g) => have_failed(g)'
<1>1. failures \in Seq(MayFail) /\ f \in MayFail /\ failures' = Append(failures, f)
      /\ Len(failures) < MaxFailures
  BY DEF TypeOK, fails
<1>2. failures' \in Seq(MayFail) /\ Len(failures') = Len(failures) + 1
  BY <1>1
<1>3. \A k \in DOMAIN failures : k \in DOMAIN failures' /\ failures'[k] = failures[k]
  BY <1>1
<1>4. Len(failures') \in DOMAIN failures' /\ failures'[Len(failures')] = f
  BY <1>1
<1>5. failures' # <<>>
  BY <1>2, <1>1
<1> QED
  BY <1>1, <1>2, <1>3, <1>4, <1>5, ThreadAssumption DEF have_failed

\* What a thread is.
LEMMA WorkerType ==
  ASSUME NEW w \in Workers
  PROVE  w[1] \in 1..MaxPresses /\ w[2] \in 0..ThreadLimit - 1 /\ w = <<w[1], w[2]>>
BY ThreadAssumption DEF Workers

-----------------------------------------------------------------------------
\* The arithmetic of int.

LEMMA DivMod ==
  ASSUME NEW m \in Nat \ {0}, NEW a \in Int
  PROVE  /\ a = (m * (a \div m)) + (a % m)
         /\ a % m \in 0..m - 1
         /\ a \div m \in Int
OBVIOUS

LEMMA ModUnique ==
  ASSUME NEW m \in Nat \ {0}, NEW q \in Int, NEW r \in 0..m - 1
  PROVE  (q * m + r) % m = r
OBVIOUS

\* A sum that fits is the sum.
LEMMA IntSumFits ==
  ASSUME NEW a \in Int, NEW n \in Int, a + n \in -MaxInt - 1..MaxInt
  PROVE  int_sum(a, n) = a + n
<1> DEFINE m == 2 * MaxInt + 2
           r == a + n + MaxInt + 1
<1>1. m \in Nat \ {0} /\ r \in 0..m - 1
  BY ThreadAssumption
<1>2. r = 0 * m + r
  BY <1>1
<1>3. (0 * m + r) % m = r
  <2> HIDE DEF m, r
  <2> QED
    BY <1>1, ModUnique
<1>4. r % m = r
  BY <1>2, <1>3
<1> QED
  BY <1>4, ThreadAssumption DEF int_sum

LEMMA IntSumType ==
  ASSUME NEW a \in Int, NEW n \in Int
  PROVE  int_sum(a, n) \in Int
<1> DEFINE m == 2 * MaxInt + 2
           r == a + n + MaxInt + 1
<1>1. m \in Nat \ {0} /\ r \in Int
  BY ThreadAssumption
<1>2. r % m \in Int
  <2> HIDE DEF m, r
  <2> QED
    BY <1>1, DivMod
<1> QED
  BY <1>2, ThreadAssumption DEF int_sum

\* Wrapping on the way does not change the sum.
LEMMA IntSumOfSum ==
  ASSUME NEW a \in Int, NEW b \in Int, NEW n \in Int
  PROVE  /\ int_sum(a, b) \in Int
         /\ int_sum(int_sum(a, b), n) = int_sum(a, b + n)
<1> DEFINE m == 2 * MaxInt + 2
           x == a + b + MaxInt + 1
           p == x \div m
           s == x % m
           q == (x + n) \div m
           t == (x + n) % m
<1>1. m \in Nat \ {0} /\ x \in Int /\ MaxInt \in Nat
  BY ThreadAssumption
<1>2. x = m * p + s /\ s \in 0..m - 1 /\ p \in Int
  <2> HIDE DEF m, x
  <2> QED
    BY <1>1, DivMod
<1>3. x + n = m * q + t /\ t \in 0..m - 1 /\ q \in Int
  <2>1. x + n \in Int
    BY <1>1
  <2> HIDE DEF m, x
  <2> QED
    BY <1>1, <2>1, DivMod
<1>4. int_sum(a, b) = s - MaxInt - 1
  BY DEF int_sum
<1>5. int_sum(a, b + n) = t - MaxInt - 1
  <2>1. a + (b + n) + MaxInt + 1 = x + n
    BY <1>1
  <2> QED
    BY <2>1 DEF int_sum
<1>6. int_sum(int_sum(a, b), n) = ((s + n) % m) - MaxInt - 1
  <2>1. (s - MaxInt - 1) + n + MaxInt + 1 = s + n
    BY <1>1, <1>2
  <2> QED
    BY <1>4, <2>1 DEF int_sum
<1> HIDE DEF m, x, p, s, q, t
<1>7. s + n = (q - p) * m + t /\ q - p \in Int
  BY <1>1, <1>2, <1>3
<1>8. (s + n) % m = t
  BY <1>1, <1>3, <1>7, ModUnique
<1> QED
  BY <1>1, <1>2, <1>4, <1>5, <1>6, <1>8

-----------------------------------------------------------------------------
\* The type invariant, part by part.
TypeForm ==
  /\ windows \in 1..MaxWindows /\ open \subseteq 1..windows
  /\ entry \in Int /\ num_threads \in 1..ThreadLimit
  /\ input_entries \in [0..num_threads - 1 -> Int]

TypeMain ==
  /\ main \in [pc: {"idle", "create", "join", "cleanup", "crashed", "ended"},
               i: 0..ThreadLimit]
  /\ presses \in 0..MaxPresses
  /\ arrays \subseteq {"threads", "thread_data"}

TypeThreads ==
  /\ thread_data \in [Workers -> {"unset", "NULL", "allocated", "freed"}]
  /\ worker \in [Workers -> [pc: {"none", "lock", "write", "result", "returned",
                                  "joined", "returned_NULL"},
                             input: Int, value: Int]]

TypeCounter ==
  /\ globalCounter \in Int /\ counterMutex \in Workers \cup {NoWorker}
  /\ added \in Int

TypeOutput ==
  /\ output \subseteq Int /\ before \in Int
  /\ failures \in Seq(MayFail) /\ Len(failures) <= MaxFailures

LEMMA TypeParts ==
  TypeOK <=> TypeForm /\ TypeMain /\ TypeThreads /\ TypeCounter /\ TypeOutput
BY DEF TypeOK, TypeForm, TypeMain, TypeThreads, TypeCounter, TypeOutput

LEMMA TypeInit == Init => TypeOK
<1> SUFFICES ASSUME Init PROVE TypeOK
  OBVIOUS
<1> USE ThreadAssumption, NoWorkerAssumption DEF Init, InitialCounter
<1>1. TypeForm
  BY DEF TypeForm, defaults
<1>2. TypeMain /\ TypeCounter /\ TypeOutput
  BY DEF TypeMain, TypeCounter, TypeOutput
<1>3. TypeThreads
  BY DEF TypeThreads
<1> QED
  BY <1>1, <1>2, <1>3, TypeParts

\* What a step may change in the form, and in the rest of the state.
FormStep ==
  /\ at("idle") /\ form_only
  /\ windows' \in 1..MaxWindows /\ open' \subseteq 1..windows' /\ open' # {}
  /\ entry' \in Int
  /\ num_threads' \in 1..ThreadLimit /\ input_entries' \in [0..num_threads' - 1 -> Int]
  /\ \/ windows' > 1
     \/ allowed(entry') => num_threads' = entry'

LEMMA FormSteps ==
  ASSUME TypeOK, FormInv, activate \/ EditThreads \/ EditOldThreads \/ EditInput \/ Decay
  PROVE  FormStep
<1> USE ThreadAssumption
<1>1. TypeForm
  BY TypeParts
<1>2. ASSUME NEW n \in Int, on_num_threads_changed(n)
      PROVE  /\ num_threads' \in 1..ThreadLimit /\ input_entries' \in [0..num_threads' - 1 -> Int]
             /\ allowed(n) => num_threads' = n
  BY <1>1, <1>2 DEF TypeForm, on_num_threads_changed, allowed, defaults
<1>3. CASE activate
  BY <1>1, <1>2, <1>3 DEF activate, TypeForm, FormStep, FormInv, at
<1>4. CASE EditThreads
  <2>1. PICK n \in Counts : entry' = n /\ on_num_threads_changed(n)
    BY <1>4 DEF EditThreads
  <2> QED
    BY <1>1, <1>2, <1>4, <2>1 DEF EditThreads, TypeForm, FormStep, FormInv, at
<1>5. CASE EditOldThreads
  <2>1. PICK n \in Counts : on_num_threads_changed(n)
    BY <1>5 DEF EditOldThreads
  <2>2. PICK w \in open : w # windows
    BY <1>5 DEF EditOldThreads
  <2>3. windows > 1
    BY <1>1, <2>2 DEF TypeForm
  <2> QED
    BY <1>1, <1>2, <1>5, <2>1, <2>2, <2>3 DEF EditOldThreads, TypeForm, FormStep, FormInv, at
<1>7. CASE Decay
  <2>1. windows > 1
    BY <1>1, <1>7 DEF Decay, stale, TypeForm, FormInv, at
  <2>2. entry' \in Int /\ input_entries' \in [0..num_threads - 1 -> Int]
    BY <1>7 DEF Decay
  <2> QED
    BY <1>1, <1>7, <2>1, <2>2 DEF Decay, TypeForm, FormStep, FormInv, at
<1>6. CASE EditInput
  <2>1. input_entries' \in [0..num_threads - 1 -> Int]
    BY <1>1, <1>6 DEF EditInput, TypeForm
  <2> QED
    BY <1>1, <1>6, <2>1 DEF EditInput, TypeForm, FormStep, FormInv, at
<1> QED
  BY <1>3, <1>4, <1>5, <1>6, <1>7

LEMMA TypeNext ==
  ASSUME TypeOK, FormInv, [Next]_vars
  PROVE  TypeOK'
<1> USE ThreadAssumption, NoWorkerAssumption
<1> TypeForm /\ TypeMain /\ TypeThreads /\ TypeCounter /\ TypeOutput
  BY TypeParts
<1> SUFFICES (TypeForm /\ TypeMain /\ TypeThreads /\ TypeCounter /\ TypeOutput)'
  BY TypeParts, PTL
<1>1. CASE activate \/ EditThreads \/ EditOldThreads \/ EditInput \/ Decay
  BY <1>1, FormSteps
     DEF FormStep, form_only, counter, shown, TypeForm, TypeMain, TypeThreads, TypeCounter,
         TypeOutput
<1>2. CASE Press
  <2>1. (TypeForm /\ TypeThreads /\ TypeCounter)'
    BY <1>2 DEF Press, form, counter, TypeForm, TypeThreads, TypeCounter
  <2>2. TypeMain'
    BY <1>2 DEF Press, goto, TypeMain
  <2>3. TypeOutput'
    BY <1>2, FailureKept DEF Press, TypeOutput, TypeCounter
  <2> QED
    BY <2>1, <2>2, <2>3
<1>3. CASE CloseWindow \/ UseClosed
  <2>1. TypeForm'
    BY <1>3 DEF CloseWindow, UseClosed, form, TypeForm
  <2>2. TypeMain'
    <3>1. main' \in {main, [pc |-> "ended", i |-> 0], [pc |-> "crashed", i |-> 0]}
      BY <1>3 DEF CloseWindow, UseClosed, goto
    <3>2. UNCHANGED <<presses, arrays>>
      BY <1>3 DEF CloseWindow, UseClosed, shown
    <3>3. 0 \in 0..ThreadLimit
      OBVIOUS
    <3> QED
      BY <3>1, <3>2, <3>3 DEF TypeMain
  <2>3. (TypeThreads /\ TypeCounter /\ TypeOutput)'
    BY <1>3 DEF CloseWindow, UseClosed, counter, shown, TypeThreads, TypeCounter, TypeOutput
  <2> QED
    BY <2>1, <2>2, <2>3
<1>4. CASE CreateThread
  <2>1. (TypeForm /\ TypeCounter)'
    BY <1>4 DEF CreateThread, form, counter, TypeForm, TypeCounter
  <2>2. TypeMain'
    BY <1>4 DEF CreateThread, shown, goto, TypeForm, TypeMain
  <2>3. TypeThreads'
    <3>1. main.i \in DOMAIN input_entries => input_entries[main.i] \in Int
      BY DEF TypeForm
    <3>2. thread_data' \in [Workers -> {"unset", "NULL", "allocated", "freed"}]
      BY <1>4 DEF CreateThread, TypeThreads
    <3> QED
      BY <1>4, <3>1, <3>2 DEF CreateThread, TypeThreads
  <2>4. TypeOutput'
    BY <1>4, FailureKept DEF CreateThread, shown, TypeOutput
  <2> QED
    BY <2>1, <2>2, <2>3, <2>4
<1>5. CASE StartJoining
  BY <1>5 DEF StartJoining, form, counter, shown, goto, TypeForm, TypeMain, TypeThreads,
              TypeCounter, TypeOutput
<1>6. CASE JoinThread
  <2>1. (TypeForm /\ TypeCounter)'
    BY <1>6 DEF JoinThread, form, counter, TypeForm, TypeCounter
  <2>2. TypeMain'
    BY <1>6 DEF JoinThread, goto, TypeForm, TypeMain, to_join
  <2>3. TypeThreads'
    BY <1>6 DEF JoinThread, TypeThreads
  <2>4. current(main.i) \in Workers
    BY <1>6 DEF JoinThread, to_join, current, at, FormInv, busy, Workers, TypeForm, TypeMain
  <2>5. TypeOutput'
    BY <1>6, <2>4, FailureKept DEF JoinThread, TypeThreads, TypeOutput
  <2> QED
    BY <2>1, <2>2, <2>3, <2>5
<1>7. CASE FinishJoining
  BY <1>7 DEF FinishJoining, form, counter, shown, goto, TypeForm, TypeMain, TypeThreads,
              TypeCounter, TypeOutput
<1>8. CASE FreeData
  <2>1. (TypeForm /\ TypeCounter /\ TypeOutput)'
    BY <1>8 DEF FreeData, form, counter, shown, TypeForm, TypeCounter, TypeOutput
  <2>2. TypeMain'
    BY <1>8 DEF FreeData, shown, goto, TypeForm, TypeMain
  <2>3. TypeThreads'
    BY <1>8 DEF FreeData, TypeThreads
  <2> QED
    BY <2>1, <2>2, <2>3
<1>9. CASE FinishCleanup
  BY <1>9 DEF FinishCleanup, form, counter, shown, goto, left_after_cleanup, TypeForm,
              TypeMain, TypeThreads, TypeCounter, TypeOutput
<1>10. ASSUME NEW w \in Workers, foo(w)
       PROVE  (TypeForm /\ TypeMain /\ TypeThreads /\ TypeCounter /\ TypeOutput)'
  <2>1. (TypeForm /\ TypeMain)'
    BY <1>10 DEF foo, LockAndRead, AddAndUnlock, ReturnResult, worker_only, form, shown,
                 TypeForm, TypeMain
  <2>2. TypeThreads'
    BY <1>10 DEF foo, LockAndRead, AddAndUnlock, ReturnResult, worker_only, moves, result_of,
                 TypeThreads, TypeCounter
  <2>3. input_values(w) \subseteq Int
    BY DEF input_values, TypeThreads
  <2>4. TypeCounter'
    <3>1. CASE AddAndUnlock(w)
      <4>1. PICK n \in Int :
              globalCounter' = int_sum(worker[w].value, n) /\ added' = added + n
        BY <2>3, <3>1 DEF AddAndUnlock
      <4>2. globalCounter' \in Int /\ added' \in Int
        BY <4>1, IntSumType DEF TypeThreads, TypeCounter
      <4> QED
        BY <3>1, <4>2 DEF AddAndUnlock, released, TypeCounter
    <3>2. CASE LockAndRead(w) \/ ReturnResult(w)
      BY <3>2 DEF LockAndRead, ReturnResult, counter, TypeCounter
    <3> QED
      BY <1>10, <3>1, <3>2 DEF foo
  <2>5. TypeOutput'
    BY <1>10, FailureKept DEF foo, LockAndRead, AddAndUnlock, ReturnResult, worker_only,
                              shown, TypeOutput
  <2> QED
    BY <2>1, <2>2, <2>4, <2>5
<1>11. CASE UNCHANGED vars
  BY <1>11 DEF vars, form, counter, shown, TypeForm, TypeMain, TypeThreads, TypeCounter,
               TypeOutput
<1> QED
  BY <1>1, <1>2, <1>3, <1>4, <1>5, <1>6, <1>7, <1>8, <1>9, <1>10, <1>11
     DEF Next, User, Handler

-----------------------------------------------------------------------------
LEMMA FormNext ==
  ASSUME TypeOK, FormInv, [Next]_vars
  PROVE  FormInv'
<1> USE DEF FormInv, StartsWhatIsShown, busy, at
<1> TypeForm /\ TypeMain
  BY TypeParts
<1>1. CASE activate \/ EditThreads \/ EditOldThreads \/ EditInput \/ Decay
  BY <1>1, FormSteps DEF FormStep, form_only, TypeForm
<1>2. CASE Press
  BY <1>2 DEF Press, validate_inputs, form, goto, TypeForm, TypeMain
<1>3. CASE CreateThread
  BY <1>3 DEF CreateThread, form, shown, goto, TypeForm, TypeMain
<1>4. CASE StartJoining \/ JoinThread \/ FinishJoining
  BY <1>4 DEF StartJoining, JoinThread, FinishJoining, form, shown, goto, to_join, TypeForm,
              TypeMain
<1>5. CASE FreeData \/ FinishCleanup \/ CloseWindow \/ UseClosed
  BY <1>5 DEF FreeData, FinishCleanup, CloseWindow, UseClosed, form, shown, goto, TypeForm, TypeMain
<1>6. CASE (\E w \in Workers : foo(w)) \/ UNCHANGED vars
  BY <1>6 DEF foo, LockAndRead, AddAndUnlock, ReturnResult, worker_only, vars, form, shown
<1> QED
  BY <1>1, <1>2, <1>3, <1>4, <1>5, <1>6 DEF Next, User, Handler

LEMMA MutexNext ==
  ASSUME TypeOK, MutexInv, [Next]_vars
  PROVE  MutexInv'
<1> USE NoWorkerAssumption DEF MutexInv, NothingLost
<1> TypeThreads /\ TypeCounter
  BY TypeParts
<1>1. CASE UNCHANGED <<worker, counter>>
  BY <1>1 DEF counter
<1>2. CASE CreateThread
  BY <1>2 DEF CreateThread, counter, TypeThreads
<1>3. CASE JoinThread
  BY <1>3 DEF JoinThread, counter, TypeThreads
<1>4. ASSUME NEW w \in Workers, LockAndRead(w)
      PROVE  MutexInv'
  BY <1>4 DEF LockAndRead, mutex_free, moves, TypeThreads
<1>5. ASSUME NEW w \in Workers, AddAndUnlock(w)
      PROVE  MutexInv'
  <2>1. input_values(w) \subseteq Int
    BY ThreadAssumption DEF input_values, TypeThreads
  <2>2. PICK n \in Int :
          globalCounter' = int_sum(worker[w].value, n) /\ added' = added + n
    BY <1>5, <2>1 DEF AddAndUnlock
  <2>3. in(w, "write") /\ worker[w].value = globalCounter
    BY <1>5 DEF AddAndUnlock, in
  <2>4. \A v \in Workers : worker'[v].pc # "write"
    BY <1>5, <2>3 DEF AddAndUnlock, in, moves, TypeThreads
  <2>5. int_sum(int_sum(InitialCounter, added), n) = int_sum(InitialCounter, added + n)
    BY IntSumOfSum DEF TypeCounter, InitialCounter
  <2> QED
    BY <2>2, <2>3, <2>4, <2>5
<1>6. ASSUME NEW w \in Workers, ReturnResult(w)
      PROVE  MutexInv'
  BY <1>6 DEF ReturnResult, counter, TypeThreads
<1> QED
  BY <1>1, <1>2, <1>3, <1>4, <1>5, <1>6
     DEF Next, User, Handler, activate, EditThreads, EditOldThreads, EditInput, Decay, form_only,
         Press, StartJoining, FinishJoining, FreeData, FinishCleanup,
         CloseWindow, UseClosed, foo, vars

\* A thread that the handler creates is one that did not exist.
LEMMA CurrentWorker ==
  ASSUME TypeOK, FormInv, busy, main.i < num_threads
  PROVE  /\ current(main.i) \in Workers
         /\ current(main.i)[1] = presses /\ current(main.i)[2] = main.i
         /\ \A w \in Workers : w[1] = presses /\ w[2] = main.i => w = current(main.i)
<1> TypeForm /\ TypeMain
  BY TypeParts
<1> QED
  BY ThreadAssumption, WorkerType DEF busy, current, Workers, FormInv, TypeForm, TypeMain

LEMMA FutureNext ==
  ASSUME TypeOK, FormInv, FutureInv, [Next]_vars
  PROVE  FutureInv'
<1> TypeForm /\ TypeMain /\ TypeThreads
  BY TypeParts
<1> USE WorkerType DEF FutureInv, at
<1>1. CASE UNCHANGED <<worker, presses>> /\ (main' = main \/ main'.pc # "create")
  BY <1>1
<1>2. CASE Press
  BY <1>2 DEF Press, goto, TypeMain
<1>3. CASE CreateThread
  <2>1. \A w \in Workers : w # current(main.i) => worker'[w] = worker[w]
    BY <1>3 DEF CreateThread, TypeThreads
  <2>2. current(main.i)[1] = presses /\ current(main.i)[2] = main.i
    BY DEF current
  <2>3. /\ at("create") /\ UNCHANGED presses
        /\ main'.pc # "create" \/ main' = [pc |-> "create", i |-> main.i + 1]
    BY <1>3 DEF CreateThread, goto, shown
  <2> QED
    BY <2>1, <2>2, <2>3 DEF TypeMain
<1>4. CASE JoinThread
  <2>1. UNCHANGED presses /\ main'.pc # "create"
    BY <1>4 DEF JoinThread, goto
  <2>2. \A w \in Workers : w # current(main.i) => worker'[w] = worker[w]
    BY <1>4 DEF JoinThread, TypeThreads
  <2>3. current(main.i)[1] = presses
    BY DEF current
  <2> QED
    BY <2>1, <2>2, <2>3 DEF TypeMain
<1>5. ASSUME NEW w \in Workers, foo(w)
      PROVE  FutureInv'
  <2>1. UNCHANGED <<main, presses>>
    BY <1>5 DEF foo, LockAndRead, AddAndUnlock, ReturnResult, worker_only, shown
  <2>2. worker[w].pc # "none" /\ \A v \in Workers : v # w => worker'[v] = worker[v]
    BY <1>5 DEF foo, LockAndRead, AddAndUnlock, ReturnResult, in, moves, TypeThreads
  <2> QED
    BY <2>1, <2>2
<1>6. CASE activate \/ EditThreads \/ EditOldThreads \/ EditInput \/ Decay \/ UNCHANGED vars
  BY <1>1, <1>6 DEF activate, EditThreads, EditOldThreads, EditInput, Decay, form_only, vars, shown
<1>7. CASE StartJoining \/ FinishJoining \/ FreeData \/ FinishCleanup \/ CloseWindow \/ UseClosed
  BY <1>1, <1>7 DEF StartJoining, FinishJoining, FreeData, FinishCleanup, CloseWindow,
                    UseClosed, goto, shown
<1> QED
  BY <1>2, <1>3, <1>4, <1>5, <1>6, <1>7 DEF Next, User, Handler

LEMMA InputNext ==
  ASSUME TypeOK, InputInv, [Next]_vars
  PROVE  InputInv'
<1> TypeForm /\ TypeMain /\ TypeThreads
  BY TypeParts
<1> USE ThreadAssumption DEF InputInv, reads_data
<1>1. CASE UNCHANGED <<worker, input_entries>>
  BY <1>1
<1>2. CASE activate \/ EditThreads \/ EditOldThreads \/ EditInput \/ Decay
  <2>1. ASSUME NEW n \in Int, on_num_threads_changed(n)
        PROVE  \A i \in DOMAIN input_entries' : input_entries'[i] \in Inputs
    BY <2>1 DEF on_num_threads_changed, defaults
  <2>2. \A i \in DOMAIN input_entries' : input_entries'[i] \in Inputs
    <3>1. CASE Decay
      BY <3>1 DEF Decay
    <3>2. CASE EditInput
      BY <3>2 DEF EditInput, TypeForm
    <3> QED
      BY <1>2, <2>1, <3>1, <3>2 DEF activate, EditThreads, EditOldThreads
  <2> QED
    BY <1>2, <2>2 DEF activate, EditThreads, EditOldThreads, EditInput, Decay, form_only
<1>3. CASE CreateThread
  BY <1>3 DEF CreateThread, form, TypeThreads
<1>4. CASE JoinThread
  BY <1>4 DEF JoinThread, form, TypeThreads
<1>5. ASSUME NEW w \in Workers, foo(w)
      PROVE  InputInv'
  BY <1>5 DEF foo, LockAndRead, AddAndUnlock, ReturnResult, in, moves, worker_only, form,
              TypeThreads
<1>6. CASE Press \/ StartJoining \/ FinishJoining \/ FreeData \/ FinishCleanup
           \/ CloseWindow \/ UseClosed \/ UNCHANGED vars
  BY <1>1, <1>6 DEF Press, StartJoining, FinishJoining, FreeData, FinishCleanup,
                    CloseWindow, UseClosed, form, vars
<1> QED
  BY <1>2, <1>3, <1>4, <1>5, <1>6 DEF Next, User, Handler

-----------------------------------------------------------------------------
\* What has failed has failed for good.
LEMMA FailuresGrow ==
  ASSUME TypeOK, [Next]_vars
  PROVE  /\ \A g \in {"handler", "unlock"} : have_failed(g) => have_failed(g)'
         /\ failures' = <<>> => failures = <<>>
<1>1. CASE UNCHANGED failures
  BY <1>1 DEF have_failed
<1>2. CASE \E f \in {"handler", "thread", "unlock"} : fails(f)
  BY <1>2, FailureKept
<1> QED
  BY <1>1, <1>2
     DEF Next, User, Handler, activate, EditThreads, EditOldThreads, EditInput, Decay, form_only,
         Press, CloseWindow, UseClosed, CreateThread, StartJoining, JoinThread,
         FinishJoining, FreeData, FinishCleanup, foo, LockAndRead, AddAndUnlock, ReturnResult, vars

\* A program that has crashed does nothing.
LEMMA CrashKept ==
  ASSUME [Next]_vars, at("crashed")
  PROVE  UNCHANGED vars /\ at("crashed")'
BY DEF Next, User, Handler, at, activate, EditThreads, EditOldThreads, EditInput, Decay, Press,
       CloseWindow, UseClosed, CreateThread, StartJoining, JoinThread, FinishJoining,
       FreeData, FinishCleanup, foo, LockAndRead, AddAndUnlock, ReturnResult, in, running,
       vars

LEMMA WaitNext ==
  ASSUME TypeOK, FormInv, FutureInv, WaitInv, [Next]_vars
  PROVE  WaitInv'
<1> TypeForm /\ TypeMain /\ TypeThreads /\ TypeCounter
  BY TypeParts
<1> USE NoWorkerAssumption, WorkerType DEF WaitInv
<1>1. ~have_failed("unlock")' => ~have_failed("unlock")
  BY FailuresGrow
<1>2. CASE activate \/ EditThreads \/ EditOldThreads \/ EditInput \/ Decay
  BY <1>1, <1>2, FormSteps DEF FormStep, form_only, counter, unjoined, at, activate,
     EditThreads, EditOldThreads, EditInput, Decay
<1>3. CASE Press
  BY <1>1, <1>3 DEF Press, goto, counter, unjoined, at
<1>4. CASE CloseWindow \/ UseClosed \/ StartJoining \/ FinishJoining \/ FreeData \/ FinishCleanup
           \/ UNCHANGED vars
  <2>1. UNCHANGED <<worker, counterMutex, failures, presses, num_threads>>
    BY <1>4 DEF CloseWindow, UseClosed, StartJoining, FinishJoining, FreeData,
       FinishCleanup, vars, counter, shown, form
  <2>2. \A w \in Workers : unjoined(w)' => unjoined(w)
    BY <1>4, <2>1 DEF CloseWindow, UseClosed, StartJoining, FinishJoining, FreeData,
       FinishCleanup, vars, goto, unjoined, at, TypeForm
  <2> QED
    BY <1>1, <2>1, <2>2
<1> DEFINE v == current(main.i)
<1>5. CASE CreateThread
  <2>1. /\ at("create") /\ UNCHANGED <<counterMutex, presses, num_threads>>
        /\ \A w \in Workers : w # v => worker'[w] = worker[w]
        /\ \/ main'.pc \in {"cleanup", "crashed"}
           \/ main' = [pc |-> "create", i |-> main.i + 1]
    BY <1>5 DEF CreateThread, goto, form, shown, counter, TypeThreads
  <2>2. /\ v \in Workers /\ worker[v].pc = "none" /\ v[2] = main.i
        /\ \A w \in Workers : w[1] = presses /\ w[2] = main.i => w = v
    BY <1>5, CurrentWorker DEF CreateThread, at, busy, FutureInv, TypeMain
  <2>3. main'.pc = "create" => worker'[v].pc = "lock"
    BY <1>5, <2>2 DEF CreateThread, goto, TypeThreads
  <2> HIDE DEF v
  <2>4. ASSUME NEW w \in Workers, unjoined(w)' PROVE worker'[w].pc \notin {"none", "joined"}
    <3>1. main' = [pc |-> "create", i |-> main.i + 1] /\ w[1] = presses /\ w[2] < main.i + 1
      BY <2>1, <2>4 DEF unjoined, at
    <3>2. CASE w = v
      BY <2>3, <3>1, <3>2
    <3>3. CASE w # v
      BY <2>1, <2>2, <2>4, <3>1, <3>3 DEF unjoined, at, TypeMain
    <3> QED
      BY <3>2, <3>3
  <2>5. ~have_failed("unlock")' /\ counterMutex' # NoWorker =>
          worker'[counterMutex'].pc = "write"
    BY <1>1, <2>1, <2>2 DEF TypeCounter
  <2> QED
    BY <2>4, <2>5
<1>6. CASE JoinThread
  <2>1. /\ at("join") /\ UNCHANGED <<counterMutex, presses, num_threads>>
        /\ \A w \in Workers : w # v => worker'[w] = worker[w]
        /\ \/ main'.pc \in {"cleanup", "crashed"} /\ UNCHANGED worker
           \/ main' = [pc |-> "join", i |-> main.i + 1] /\ worker[v].pc = "returned"
    BY <1>6 DEF JoinThread, goto, form, counter, TypeThreads
  <2>2. v \in Workers /\ v[2] = main.i
    BY <1>6, CurrentWorker DEF JoinThread, to_join, at, busy
  <2> HIDE DEF v
  <2>3. ASSUME NEW w \in Workers, unjoined(w)' PROVE worker'[w].pc \notin {"none", "joined"}
    BY <2>1, <2>2, <2>3 DEF unjoined, at, TypeMain
  <2>4. ~have_failed("unlock")' /\ counterMutex' # NoWorker =>
          worker'[counterMutex'].pc = "write"
    BY <1>1, <2>1, <2>2 DEF TypeCounter
  <2> QED
    BY <2>3, <2>4
<1>7. ASSUME NEW w \in Workers, foo(w)
      PROVE  WaitInv'
  <2>1. UNCHANGED <<main, presses, num_threads>>
    BY <1>7 DEF foo, LockAndRead, AddAndUnlock, ReturnResult, worker_only, form, shown
  <2>2. \A u \in Workers : unjoined(u)' <=> unjoined(u)
    BY <2>1 DEF unjoined, at
  <2>3. /\ \A u \in Workers : u # w => worker'[u] = worker[u]
        /\ worker'[w].pc \notin {"none", "joined"}
    BY <1>7 DEF foo, LockAndRead, AddAndUnlock, ReturnResult, moves, TypeThreads
  <2>4. ~have_failed("unlock")' /\ counterMutex' # NoWorker =>
          worker'[counterMutex'].pc = "write"
    <3>1. CASE LockAndRead(w)
      BY <1>1, <2>3, <3>1 DEF LockAndRead, in, moves, TypeThreads, TypeCounter
    <3>2. CASE AddAndUnlock(w)
      BY <1>1, <3>2, FailureKept DEF AddAndUnlock, released
    <3>3. CASE ReturnResult(w)
      BY <1>1, <2>3, <3>3 DEF ReturnResult, in, counter, TypeThreads, TypeCounter
    <3> QED
      BY <1>7, <3>1, <3>2, <3>3 DEF foo
  <2> QED
    BY <2>2, <2>3, <2>4
<1> QED
  BY <1>2, <1>3, <1>4, <1>5, <1>6, <1>7 DEF Next, User, Handler

LEMMA BatchNext ==
  ASSUME TypeOK, FormInv, BatchInv, [Next]_vars
  PROVE  BatchInv'
<1> SUFFICES ASSUME ~have_failed("handler")', NEW w \in Workers, alive(w)'
             PROVE  /\ thread_data'[w] = "allocated"
                    /\ w[1] = presses'
                    /\ unjoined(w)' \/ at("crashed")'
  BY DEF BatchInv
<1>1. ~fails("handler")
  BY FailureKept
<1>2. alive(w) => /\ thread_data[w] = "allocated"
                  /\ w[1] = presses
                  /\ unjoined(w) \/ at("crashed")
  BY FailuresGrow DEF BatchInv
<1> TypeForm /\ TypeMain /\ TypeThreads
  BY TypeParts
<1> USE WorkerType DEF unjoined, at, alive
<1>3. CASE activate \/ EditThreads \/ EditOldThreads \/ EditInput \/ Decay
  BY <1>2, <1>3, FormSteps DEF FormStep, form_only
<1>4. CASE Press \/ CloseWindow \/ UseClosed
  BY <1>1, <1>2, <1>4 DEF Press, CloseWindow, UseClosed, goto, form, shown
<1>5. CASE CreateThread
  <2>1. CASE w = current(main.i)
    <3>1. w[1] = presses /\ w[2] = main.i
      BY <2>1 DEF current
    <3> QED
      BY <1>1, <1>2, <1>5, <2>1, <3>1
         DEF CreateThread, goto, form, shown, TypeMain, TypeThreads
  <2>2. CASE w # current(main.i)
    BY <1>1, <1>2, <1>5, <2>2 DEF CreateThread, goto, form, shown, TypeMain, TypeThreads
  <2> QED
    BY <2>1, <2>2
<1>6. CASE StartJoining
  BY <1>2, <1>6 DEF StartJoining, goto, form, shown
<1>7. CASE JoinThread
  <2>1. CASE w = current(main.i)
    BY <1>1, <1>2, <1>7, <2>1 DEF JoinThread, current, goto, form, TypeThreads
  <2>2. CASE w # current(main.i)
    <3>1. w[1] = presses => w[2] # main.i
      BY <2>2, WorkerType DEF current
    <3>2. worker'[w] = worker[w]
      BY <1>7, <2>2 DEF JoinThread, TypeThreads
    <3> QED
      BY <1>1, <1>2, <1>7, <3>1, <3>2 DEF JoinThread, goto, form, TypeMain
  <2> QED
    BY <2>1, <2>2
<1>8. CASE FinishJoining \/ FreeData \/ FinishCleanup
  BY <1>2, <1>8 DEF FinishJoining, FreeData, FinishCleanup, to_join, TypeForm, TypeMain
<1>9. ASSUME NEW v \in Workers, foo(v)
      PROVE  /\ thread_data'[w] = "allocated"
             /\ w[1] = presses'
             /\ unjoined(w)' \/ at("crashed")'
  BY <1>2, <1>9 DEF foo, LockAndRead, AddAndUnlock, ReturnResult, in, moves, worker_only,
                    form, shown, TypeThreads
<1>10. CASE UNCHANGED vars
  BY <1>2, <1>10 DEF vars, form, shown
<1> QED
  BY <1>3, <1>4, <1>5, <1>6, <1>7, <1>8, <1>9, <1>10 DEF Next, User, Handler

LEMMA CleanNext ==
  ASSUME TypeOK, FormInv, CleanInv, [Next]_vars
  PROVE  CleanInv'
<1> SUFFICES ASSUME failures' = <<>>, ~at("crashed")' PROVE CleanInv'
  BY DEF CleanInv
<1>1. \A f \in {"handler", "thread", "unlock"} : ~fails(f)
  BY FailureKept
<1>2. /\ at("idle") => arrays = {}
      /\ \A w \in Workers :
           /\ worker[w].pc # "returned_NULL"
           /\ thread_data[w] = "allocated" =>
                /\ busy /\ w[1] = presses /\ w[2] < num_threads
                /\ at("cleanup") => main.i <= w[2]
           /\ /\ busy /\ w[1] = presses /\ w[2] < num_threads
              /\ at("create") => w[2] < main.i
              => worker[w].pc # "none" /\ thread_data[w] # "unset"
  BY FailuresGrow, CrashKept DEF CleanInv
<1> TypeForm /\ TypeMain /\ TypeThreads
  BY TypeParts
<1>3. busy /\ main.i < num_threads =>
        /\ current(main.i) \in Workers
        /\ current(main.i)[1] = presses /\ current(main.i)[2] = main.i
  BY ThreadAssumption DEF busy, current, Workers, FormInv, TypeForm, TypeMain
<1>4. \A w \in Workers : w # current(main.i) /\ w[1] = presses => w[2] # main.i
  BY WorkerType DEF current
<1> USE WorkerType DEF at, busy, CleanInv
<1>5. CASE activate \/ EditThreads \/ EditOldThreads \/ EditInput \/ Decay
  BY <1>2, <1>5, FormSteps DEF FormStep, form_only
<1>6. CASE Press
  BY <1>1, <1>2, <1>6 DEF Press, form, goto
<1>7. CASE CreateThread
  <2>1. main.i \in DOMAIN input_entries
    BY <1>7 DEF CreateThread, TypeForm, TypeMain
  <2>2. /\ thread_data' = [thread_data EXCEPT ![current(main.i)] = "allocated"]
        /\ worker' = [worker EXCEPT ![current(main.i)].pc = "lock",
                                    ![current(main.i)].input = input_entries[main.i]]
        /\ main' = [pc |-> "create", i |-> main.i + 1]
        /\ at("create") /\ main.i < num_threads
        /\ UNCHANGED <<presses, num_threads, arrays>>
    BY <1>1, <1>7, <2>1 DEF CreateThread, goto, form, shown
  <2>3. \A w \in Workers : w # current(main.i) =>
          worker'[w] = worker[w] /\ thread_data'[w] = thread_data[w]
    BY <2>2 DEF TypeThreads
  <2>4. worker'[current(main.i)].pc = "lock" /\ thread_data'[current(main.i)] = "allocated"
    BY <1>3, <2>2 DEF TypeThreads
  <2>5. ASSUME NEW w \in Workers, w # current(main.i), w[1] = presses, w[2] < main.i + 1
        PROVE  w[2] < main.i
    BY <1>4, <2>5 DEF TypeMain
  <2>6. busy /\ main'.i = main.i + 1 /\ main'.pc = "create" /\ busy'
    BY <2>2
  <2> QED
    BY <1>2, <1>3, <2>2, <2>3, <2>4, <2>5, <2>6
<1>8. CASE StartJoining \/ FinishJoining
  BY <1>2, <1>8 DEF StartJoining, FinishJoining, goto, form, shown, TypeForm
<1>9. CASE JoinThread
  <2>1. worker[current(main.i)].pc # "returned_NULL"
    BY <1>2, <1>3, <1>9 DEF JoinThread, to_join
  <2>2. \A w \in Workers : worker'[w].pc = worker[w].pc \/ worker'[w].pc = "joined"
    BY <1>9 DEF JoinThread, TypeThreads
  <2> QED
    BY <1>1, <1>2, <1>9, <2>1, <2>2 DEF JoinThread, goto, form
<1>10. CASE FreeData
  <2>1. thread_data[current(main.i)] # "unset"
    BY <1>2, <1>3, <1>10 DEF FreeData
  <2>2. main' = [pc |-> "cleanup", i |-> main.i + 1] /\ at("cleanup") /\ main.i < num_threads
    BY <1>10, <2>1 DEF FreeData, goto
  <2>3. /\ \A w \in Workers : w # current(main.i) => thread_data'[w] = thread_data[w]
        /\ thread_data'[current(main.i)] \notin {"allocated", "unset"}
    BY <1>3, <1>10, <2>1, <2>2 DEF FreeData, TypeThreads
  <2>4. UNCHANGED <<worker, presses, num_threads>>
    BY <1>10 DEF FreeData, form, shown
  <2> QED
    BY <1>2, <1>4, <2>2, <2>3, <2>4 DEF TypeMain
<1>11. CASE FinishCleanup
  BY <1>2, <1>11 DEF FinishCleanup, goto, form, shown, left_after_cleanup, TypeForm, TypeMain
<1>12. CASE CloseWindow \/ UseClosed
  BY <1>2, <1>12 DEF CloseWindow, UseClosed, goto, form, shown
<1>13. ASSUME NEW v \in Workers, foo(v)
       PROVE  CleanInv'
  <2>1. UNCHANGED <<main, arrays, thread_data, presses, num_threads>>
    BY <1>13 DEF foo, LockAndRead, AddAndUnlock, ReturnResult, worker_only, form, shown
  <2>2. worker[v].pc # "none" /\ worker'[v].pc \in {"write", "result", "returned"}
    BY <1>1, <1>13 DEF foo, LockAndRead, AddAndUnlock, ReturnResult, in, moves, TypeThreads
  <2>3. \A w \in Workers : w # v => worker'[w] = worker[w]
    BY <1>13 DEF foo, LockAndRead, AddAndUnlock, ReturnResult, moves, TypeThreads
  <2> QED
    BY <1>2, <2>1, <2>2, <2>3
<1>14. CASE UNCHANGED vars
  BY <1>2, <1>14 DEF vars, form, shown
<1> QED
  BY <1>2, <1>5, <1>6, <1>7, <1>8, <1>9, <1>10, <1>11, <1>12, <1>13, <1>14
     DEF Next, User, Handler

LEMMA CrashNext ==
  ASSUME IInv, [Next]_vars
  PROVE  CrashInv'
<1> SUFFICES ASSUME failures' = <<>>, at("crashed")' PROVE stale' /\ open' # {}
  BY DEF CrashInv
<1> TypeForm /\ TypeMain /\ TypeOK
  BY TypeParts DEF IInv
<1>1. failures = <<>> /\ \A f \in {"handler", "thread", "unlock"} : ~fails(f)
  BY FailureKept, FailuresGrow
<1>2. CASE at("crashed")
  BY <1>1, <1>2, CrashKept DEF IInv, CrashInv, vars, form, stale
<1>3. CASE ~at("crashed")
  <2>1. CASE UseClosed
    BY <2>1 DEF UseClosed, IInv, FormInv, form, stale, at
  <2>2. CASE CreateThread
    <3>1. main.i \in DOMAIN input_entries
      BY <2>2 DEF CreateThread, TypeForm, TypeMain
    <3> QED
      BY <1>1, <2>2, <3>1 DEF CreateThread, goto, at
  <2>3. CASE JoinThread \/ FreeData
    <3>1. busy /\ main.i < num_threads /\ ~at("create") /\ ~at("crashed")
      BY <2>3 DEF JoinThread, FreeData, to_join, busy, at
    <3>2. current(main.i) \in Workers /\ current(main.i)[1] = presses
          /\ current(main.i)[2] = main.i
      BY <3>1, CurrentWorker DEF IInv
    <3>3. worker[current(main.i)].pc # "returned_NULL"
          /\ thread_data[current(main.i)] # "unset"
      BY <1>1, <3>1, <3>2 DEF IInv, CleanInv
    <3> QED
      BY <1>1, <2>3, <3>3 DEF JoinThread, FreeData, goto, at
  <2>4. CASE activate \/ EditThreads \/ EditOldThreads \/ EditInput \/ Decay \/ CloseWindow
             \/ Press \/ StartJoining \/ FinishJoining \/ FinishCleanup \/ UNCHANGED vars
    <3>1. main'.pc # "crashed" \/ main' = main
      BY <1>1, <2>4
         DEF activate, EditThreads, EditOldThreads, EditInput, Decay, form_only, CloseWindow,
             Press, StartJoining, FinishJoining, FinishCleanup, goto, vars
    <3> QED
      BY <1>3, <3>1 DEF at
  <2>5. CASE \E w \in Workers : foo(w)
    BY <1>3, <2>5 DEF foo, LockAndRead, AddAndUnlock, ReturnResult, worker_only, at
  <2> QED
    BY <2>1, <2>2, <2>3, <2>4, <2>5 DEF Next, User, Handler
<1> QED
  BY <1>2, <1>3

\* Inputs are positive when threads are created, and so are what they add.
LEMMA GrowthNext ==
  ASSUME IInv, [Next]_vars
  PROVE  GrowthInv' /\ (failures' = <<>> => added <= added' /\ added' \in Int)
<1> SUFFICES ASSUME failures' = <<>>
             PROVE  /\ added >= 0 /\ added <= added' /\ added' \in Int
                    /\ \A w \in Workers : alive(w)' => worker'[w].input > 0
  BY DEF GrowthInv, IInv, TypeOK
<1> TypeForm /\ TypeMain /\ TypeThreads /\ TypeCounter /\ TypeOK
  BY TypeParts DEF IInv
<1>1. failures = <<>> /\ \A f \in {"handler", "thread", "unlock"} : ~fails(f)
  BY FailureKept, FailuresGrow
<1>2. added >= 0 /\ \A w \in Workers : alive(w) => worker[w].input > 0
  BY <1>1 DEF IInv, GrowthInv
<1>3. CASE UNCHANGED <<worker, added>>
  BY <1>2, <1>3 DEF alive, TypeCounter
<1>4. CASE CreateThread
  <2>1. main.i \in DOMAIN input_entries /\ input_entries[main.i] > 0
    BY <1>4 DEF CreateThread, IInv, FormInv, StartsWhatIsShown, busy, at, TypeForm, TypeMain
  <2>2. /\ worker' = [worker EXCEPT ![current(main.i)].pc = "lock",
                                    ![current(main.i)].input = input_entries[main.i]]
        /\ UNCHANGED added
    BY <1>1, <1>4, <2>1 DEF CreateThread, counter
  <2> QED
    BY <1>2, <2>1, <2>2 DEF alive, TypeThreads, TypeCounter
<1>5. CASE JoinThread
  <2>1. \A w \in Workers : /\ worker'[w].input = worker[w].input
                           /\ worker'[w].pc \in {worker[w].pc, "joined"}
    BY <1>5 DEF JoinThread, TypeThreads
  <2> QED
    BY <1>2, <1>5, <2>1 DEF JoinThread, counter, alive, TypeCounter
<1>6. ASSUME NEW v \in Workers, foo(v)
      PROVE  /\ added <= added' /\ added' \in Int
             /\ \A w \in Workers : alive(w)' => worker'[w].input > 0
  <2>1. ASSUME NEW w \in Workers
        PROVE  worker'[w].input = worker[w].input /\ (alive(w)' => alive(w))
    <3>1. CASE w = v
      <4>1. alive(v)
        BY <1>6 DEF foo, LockAndRead, AddAndUnlock, ReturnResult, in, alive
      <4>2. worker'[v].input = worker[v].input
        BY <1>6 DEF foo, LockAndRead, AddAndUnlock, ReturnResult, moves, TypeThreads
      <4> QED
        BY <3>1, <4>1, <4>2
    <3>2. CASE w # v
      BY <1>6, <3>2 DEF foo, LockAndRead, AddAndUnlock, ReturnResult, moves, alive, TypeThreads
    <3> QED
      BY <3>1, <3>2
  <2>2. CASE AddAndUnlock(v)
    <3>1. alive(v) /\ ~have_failed("handler")
      BY <1>1, <2>2 DEF AddAndUnlock, in, alive, have_failed
    <3>2. input_values(v) = {worker[v].input}
      BY <3>1 DEF IInv, BatchInv, input_values
    <3>3. added' = added + worker[v].input
      BY <2>2, <3>2 DEF AddAndUnlock
    <3>4. worker[v].input \in Int /\ worker[v].input > 0
      BY <1>2, <3>1 DEF TypeThreads
    <3> QED
      BY <1>2, <2>1, <3>3, <3>4 DEF TypeCounter
  <2>3. CASE ~AddAndUnlock(v)
    BY <1>2, <1>6, <2>1, <2>3 DEF foo, LockAndRead, ReturnResult, counter, TypeCounter
  <2> QED
    BY <2>2, <2>3
<1>7. CASE activate \/ EditThreads \/ EditOldThreads \/ EditInput \/ Decay \/ CloseWindow
           \/ UseClosed \/ Press \/ StartJoining \/ FinishJoining \/ FreeData
           \/ FinishCleanup \/ UNCHANGED vars
  BY <1>3, <1>7 DEF activate, EditThreads, EditOldThreads, EditInput, Decay, form_only,
     CloseWindow, UseClosed, Press, StartJoining, FinishJoining, FreeData, FinishCleanup,
     vars, counter
<1> QED
  BY <1>2, <1>4, <1>5, <1>6, <1>7 DEF Next, User, Handler

LEMMA ResultNext ==
  ASSUME IInv, [Next]_vars
  PROVE  ResultInv'
<1> SUFFICES ASSUME failures' = <<>>, presses' > 0, fits', ~at("crashed")' PROVE ResultInv'
  BY DEF ResultInv
<1> DEFINE adds(w) ==
      /\ unjoined(w)
      /\ \/ worker[w].pc = "result"
         \/ worker[w].pc = "returned" /\ worker[w].value = globalCounter
<1> TypeForm /\ TypeMain /\ TypeThreads /\ TypeCounter /\ TypeOutput
  BY TypeParts DEF IInv
<1>1. /\ \A f \in {"handler", "thread", "unlock"} : ~fails(f)
      /\ failures = <<>> /\ ~have_failed("handler")
  BY FailureKept, FailuresGrow DEF IInv, have_failed
<1>2. presses > 0 =>
        /\ before <= globalCounter
        /\ \A r \in output : before < r /\ r <= globalCounter
        /\ \A w \in Workers : w[1] = presses =>
             /\ worker[w].pc \in {"result", "returned", "joined"} =>
                  before < globalCounter
             /\ worker[w].pc = "returned" /\ unjoined(w) =>
                  before < worker[w].value /\ worker[w].value <= globalCounter
        /\ \/ globalCounter = before /\ main.pc \in {"create", "join"}
           \/ globalCounter \in output
           \/ \E w \in Workers : adds(w)
  <2>1. fits
    <3>1. added <= added' /\ added' \in Int
      BY GrowthNext
    <3>2. 2 + added' <= MaxInt
      BY DEF fits, InitialCounter
    <3>3. added \in Int /\ MaxInt \in Int
      BY ThreadAssumption DEF TypeCounter
    <3>4. 2 + added <= MaxInt
      <4>1. \A a, b, c \in Int : a <= b /\ 2 + b <= c => 2 + a <= c
        OBVIOUS
      <4> QED
        BY <3>1, <3>2, <3>3, <4>1
    <3> QED
      BY <3>4 DEF fits, InitialCounter
  <2> QED
    BY <1>1, <2>1, CrashKept DEF IInv, ResultInv
<1>3. ~at("crashed") /\ \A w \in Workers : worker[w].pc # "returned_NULL"
  BY <1>1, CrashKept DEF IInv, CleanInv
<1>4. \A w \in Workers : alive(w) => thread_data[w] = "allocated" /\ unjoined(w)
  BY <1>1, <1>3 DEF IInv, BatchInv
<1> DEFINE i == current(main.i)
<1>5. busy /\ main.i < num_threads => i \in Workers /\ i[1] = presses /\ i[2] = main.i
  BY ThreadAssumption DEF IInv, FormInv, busy, current, Workers, TypeForm, TypeMain
<1>6. \A w \in Workers : w # i /\ w[1] = presses => w[2] # main.i
  BY WorkerType DEF current
<1> HIDE DEF i
<1> USE WorkerType
<1>7. CASE activate \/ EditThreads \/ EditOldThreads \/ EditInput \/ Decay
  <2>1. at("idle") /\ form_only
    BY <1>7, FormSteps DEF FormStep, IInv
  <2>2. \A w \in Workers : ~unjoined(w) /\ ~unjoined(w)'
    BY <2>1 DEF form_only, unjoined, at
  <2> QED
    BY <1>2, <2>1, <2>2 DEF ResultInv, form_only, shown, counter, at, alive
<1>8. CASE Press
  <2>1. /\ presses' = presses + 1 /\ output' = {} /\ before' = globalCounter
        /\ main'.pc = "create" /\ UNCHANGED <<worker, counter>>
    BY <1>1, <1>8 DEF Press, goto
  <2>2. \A w \in Workers : w[1] = presses' => worker[w].pc = "none"
    BY <2>1, <1>8 DEF Press, at, IInv, FutureInv, TypeMain
  <2> QED
    BY <2>1, <2>2 DEF ResultInv, counter, alive, TypeCounter
<1>9. CASE CreateThread
  <2>1. main.i \in DOMAIN input_entries
    BY <1>9 DEF CreateThread, TypeForm, TypeMain
  <2>2. /\ worker' = [worker EXCEPT ![i].pc = "lock", ![i].input = input_entries[main.i]]
        /\ at("create") /\ main.i < num_threads
        /\ main' = [pc |-> "create", i |-> main.i + 1]
        /\ UNCHANGED <<num_threads, presses, output, before, globalCounter>>
    BY <1>1, <1>9, <2>1 DEF CreateThread, goto, form, shown, counter, i
  <2>3. \A w \in Workers : w # i => worker'[w] = worker[w]
    BY <2>2 DEF TypeThreads
  <2>4. worker'[i].pc = "lock"
    BY <1>5, <2>2 DEF TypeThreads, busy, at
  <2>5. \A w \in Workers : w # i => (unjoined(w)' <=> unjoined(w))
    BY <1>6, <2>2 DEF unjoined, at, TypeMain
  <2>6. \A w \in Workers : adds(w) => w # i
    BY <1>5, <2>2 DEF unjoined, at, busy, TypeMain
  <2> QED
    BY <1>2, <2>2, <2>3, <2>4, <2>5, <2>6 DEF ResultInv, alive, at
<1>10. CASE StartJoining
  <2>1. \A w \in Workers : unjoined(w)' <=> unjoined(w)
    BY <1>10 DEF StartJoining, goto, unjoined, at, form, shown, TypeForm
  <2> QED
    BY <1>2, <1>10, <2>1 DEF ResultInv, StartJoining, goto, at, alive, shown, counter
<1>11. CASE JoinThread
  <2>1. at("join") /\ main.i < num_threads /\ i \in Workers /\ i[1] = presses /\ i[2] = main.i
    BY <1>5, <1>11 DEF JoinThread, to_join, busy, at
  <2>2. /\ worker[i].pc = "returned"
        /\ worker' = [worker EXCEPT ![i].pc = "joined", ![i].value = 0]
        /\ output' = output \cup {worker[i].value}
        /\ main' = [pc |-> "join", i |-> main.i + 1]
        /\ UNCHANGED <<num_threads, presses, before, globalCounter>>
    BY <1>1, <1>3, <1>11, <2>1 DEF JoinThread, goto, form, counter, i
  <2>3. \A w \in Workers : w # i => worker'[w] = worker[w]
    BY <2>2 DEF TypeThreads
  <2>4. worker'[i].pc = "joined"
    BY <2>1, <2>2 DEF TypeThreads
  <2>5. \A w \in Workers : w # i => (unjoined(w)' <=> unjoined(w))
    BY <1>6, <2>1, <2>2 DEF unjoined, at, TypeMain
  <2>6. \A w \in Workers : w = i => unjoined(w) /\ ~unjoined(w)'
    BY <2>1, <2>2 DEF unjoined, at, TypeMain
  <2>7. before < worker[i].value /\ worker[i].value <= globalCounter /\ presses > 0
    BY <1>2, <2>1, <2>2, <2>6
  <2>8. adds(i) => globalCounter \in output'
    BY <2>2
  <2>9. \A w \in Workers : w[1] = presses =>
          /\ worker'[w].pc \in {"result", "returned", "joined"} => before < globalCounter
          /\ worker'[w].pc = "returned" /\ unjoined(w)' =>
               before < worker'[w].value /\ worker'[w].value <= globalCounter
    BY <1>2, <2>2, <2>3, <2>4, <2>5, <2>6, <2>7 DEF alive
  <2>10. globalCounter = before \/ globalCounter \in output' \/ \E w \in Workers : adds(w)'
    BY <1>2, <2>2, <2>3, <2>5, <2>7, <2>8
  <2> QED
    BY <1>2, <2>2, <2>7, <2>9, <2>10 DEF ResultInv, at
<1>12. CASE FinishJoining
  <2>1. /\ at("join") /\ main.i >= num_threads /\ main' = [pc |-> "cleanup", i |-> 0]
        /\ UNCHANGED <<worker, presses, output, before, globalCounter>>
    BY <1>12 DEF FinishJoining, to_join, goto, shown, counter
  <2>2. \A w \in Workers : ~unjoined(w) /\ ~unjoined(w)' /\ ~alive(w)
    BY <1>4, <2>1 DEF unjoined, at, TypeForm, TypeMain
  <2>3. globalCounter # before
    <3>1. PICK w \in Workers : w[1] = presses /\ w[2] = 0
      <4>1. <<presses, 0>> \in Workers
        BY <2>1, ThreadAssumption DEF IInv, FormInv, busy, at, Workers, TypeForm, TypeMain
      <4> QED
        BY <4>1
    <3>2. worker[w].pc # "none"
      BY <1>1, <2>1, <3>1 DEF IInv, CleanInv, busy, at, TypeForm
    <3>3. worker[w].pc \in {"returned", "joined"}
      BY <1>3, <2>2, <3>2 DEF alive
    <3> QED
      BY <1>2, <2>1, <3>1, <3>3 DEF IInv, FormInv, busy, at, TypeCounter, TypeOutput
  <2> QED
    BY <1>2, <2>1, <2>2, <2>3 DEF ResultInv, alive
<1>13. CASE FreeData \/ FinishCleanup \/ CloseWindow \/ UseClosed
  <2>1. /\ main.pc \in {"cleanup", "idle"} /\ main'.pc \in {"cleanup", "idle", "ended"}
        /\ UNCHANGED <<worker, presses, output, before, globalCounter>>
    BY <1>3, <1>13
       DEF FreeData, FinishCleanup, CloseWindow, UseClosed, goto, at, shown, counter
  <2>2. \A w \in Workers : ~unjoined(w) /\ ~unjoined(w)'
    BY <2>1 DEF unjoined, at
  <2> QED
    BY <1>2, <2>1, <2>2 DEF ResultInv, alive
<1>14. ASSUME NEW v \in Workers, foo(v)
       PROVE  ResultInv'
  <2>1. /\ alive(v) /\ unjoined(v) /\ v[1] = presses
        /\ UNCHANGED <<num_threads, main, presses, output, before>>
    BY <1>4, <1>14 DEF foo, LockAndRead, AddAndUnlock, ReturnResult, in, alive, worker_only,
                       form, shown, unjoined
  <2>2. \A w \in Workers : unjoined(w)' <=> unjoined(w)
    BY <2>1 DEF unjoined, at
  <2>3. \A w \in Workers : w # v => worker'[w] = worker[w]
    BY <1>14 DEF foo, LockAndRead, AddAndUnlock, ReturnResult, moves, TypeThreads
  <2>4. worker'[v].input = worker[v].input
    BY <1>14 DEF foo, LockAndRead, AddAndUnlock, ReturnResult, moves, TypeThreads
  <2>5. CASE LockAndRead(v)
    <3>1. worker[v].pc = "lock" /\ worker'[v].pc = "write" /\ UNCHANGED globalCounter
      BY <1>1, <2>5 DEF LockAndRead, in, TypeThreads
    <3> QED
      BY <1>2, <2>1, <2>2, <2>3, <2>4, <3>1 DEF ResultInv, alive
  <2>6. CASE AddAndUnlock(v)
    <3>1. worker[v].pc = "write" /\ worker'[v].pc = "result"
      BY <1>1, <2>6 DEF AddAndUnlock, in, TypeThreads
    <3>2. worker[v].value = globalCounter
      BY <3>1 DEF IInv, MutexInv
    <3>3. input_values(v) = {worker[v].input}
      BY <1>4, <2>1 DEF input_values
    <3>4. worker[v].input \in Int /\ worker[v].input > 0 /\ presses > 0
      BY <1>1, <2>1 DEF TypeThreads, IInv, GrowthInv
    <3>5. globalCounter' = globalCounter + worker[v].input
      <4> DEFINE n == worker[v].input
      <4>1. globalCounter' = int_sum(globalCounter, n) /\ added' = added + n
        BY <2>6, <3>2, <3>3 DEF AddAndUnlock
      <4>2. /\ n \in Int /\ n > 0 /\ added \in Int /\ added >= 0
            /\ InitialCounter + added + n <= MaxInt
        BY <1>1, <3>4, <4>1 DEF IInv, GrowthInv, fits, InitialCounter, TypeCounter
      <4> HIDE DEF n
      <4>3. globalCounter = InitialCounter + added
        <5>1. InitialCounter \in Int /\ InitialCounter + added \in -MaxInt - 1..MaxInt
          BY <4>2, ThreadAssumption DEF InitialCounter
        <5>2. int_sum(InitialCounter, added) = InitialCounter + added
          BY <4>2, <5>1, IntSumFits
        <5> QED
          BY <5>2 DEF IInv, MutexInv, NothingLost
      <4>4. int_sum(globalCounter, n) = globalCounter + n
        <5>1. globalCounter \in Int /\ globalCounter + n \in -MaxInt - 1..MaxInt
          BY <4>2, <4>3, ThreadAssumption DEF InitialCounter
        <5> QED
          BY <4>2, <5>1, IntSumFits
      <4> QED
        BY <4>1, <4>4 DEF n
    <3>6. globalCounter < globalCounter' /\ globalCounter' \in Int
      BY <3>4, <3>5 DEF TypeCounter
    <3>7. /\ before < globalCounter'
          /\ \A r \in output : before < r /\ r <= globalCounter'
      BY <1>2, <3>4, <3>5, <3>6 DEF TypeCounter, TypeOutput
    <3>8. \A w \in Workers : w[1] = presses /\ worker[w].pc = "returned" /\ unjoined(w) =>
            before < worker[w].value /\ worker[w].value <= globalCounter'
      BY <1>2, <3>4, <3>5, <3>6 DEF TypeCounter, TypeThreads
    <3>9. unjoined(v)' /\ worker'[v].pc = "result"
      BY <2>1, <2>2, <3>1
    <3>10. \A w \in Workers : w[1] = presses =>
             /\ worker'[w].pc = "returned" /\ unjoined(w)' =>
                  before < worker'[w].value /\ worker'[w].value <= globalCounter'
      BY <1>2, <2>1, <2>2, <2>3, <2>4, <3>1, <3>4, <3>5, <3>8 DEF alive
    <3> QED
      BY <2>1, <3>4, <3>5, <3>6, <3>7, <3>9, <3>10 DEF ResultInv, TypeCounter, TypeOutput
  <2>7. CASE ReturnResult(v)
    <3>1. /\ worker[v].pc = "result" /\ UNCHANGED globalCounter
          /\ worker'[v].pc = "returned" /\ worker'[v].value = globalCounter
      BY <2>7 DEF ReturnResult, in, result_of, counter, TypeThreads
    <3> QED
      BY <1>2, <2>1, <2>2, <2>3, <2>4, <3>1 DEF ResultInv, alive, TypeCounter
  <2> QED
    BY <1>14, <2>5, <2>6, <2>7 DEF foo
<1>15. CASE UNCHANGED vars
  BY <1>2, <1>15 DEF ResultInv, vars, form, shown, counter, unjoined, at, alive
<1> QED
  BY <1>7, <1>8, <1>9, <1>10, <1>11, <1>12, <1>13, <1>14, <1>15 DEF Next, User, Handler

-----------------------------------------------------------------------------
LEMMA InitIInv == Init => IInv
<1> SUFFICES ASSUME Init PROVE IInv
  OBVIOUS
<1>1. TypeOK
  BY TypeInit
<1>2. FormInv /\ FutureInv /\ InputInv /\ WaitInv
  BY ThreadAssumption DEF Init, InputInv, reads_data, defaults, WaitInv, unjoined, at, FormInv,
     StartsWhatIsShown, busy, FutureInv
<1>3. MutexInv
  <2>1. int_sum(InitialCounter, 0) = InitialCounter
    BY ThreadAssumption, IntSumFits DEF InitialCounter
  <2> QED
    BY <2>1 DEF Init, MutexInv, NothingLost
<1>4. BatchInv /\ CrashInv /\ CleanInv /\ GrowthInv /\ ResultInv
  BY DEF Init, BatchInv, CrashInv, CleanInv, GrowthInv, ResultInv, alive, busy, at
<1> QED
  BY <1>1, <1>2, <1>3, <1>4 DEF IInv

LEMMA NextIInv == IInv /\ [Next]_vars => IInv'
BY TypeNext, FormNext, MutexNext, FutureNext, InputNext, WaitNext, BatchNext, CrashNext,
   CleanNext, GrowthNext, ResultNext DEF IInv

LEMMA Invariance == Spec => []IInv
BY InitIInv, NextIInv, PTL DEF Spec

LEMMA InvProperties ==
  IInv => /\ TypeOK /\ StartsWhatIsShown /\ NothingLost
          /\ OutlivesThreads /\ CleanUnlessFailed /\ ResultsInRange /\ NobodyStuck
<1> SUFFICES ASSUME IInv
             PROVE  /\ OutlivesThreads /\ CleanUnlessFailed /\ ResultsInRange
                    /\ NobodyStuck
  BY DEF IInv, FormInv, MutexInv
<1>1. OutlivesThreads
  BY DEF IInv, BatchInv, OutlivesThreads, unjoined, alive, reads_data, at
<1>2. ASSUME failures = <<>>
      PROVE  main.pc \in {"idle", "cleanup"} =>
               ~at("crashed") /\ \A w \in Workers : ~alive(w) /\ ~unjoined(w)
  <2>1. ~have_failed("handler")
    BY <1>2 DEF have_failed
  <2> QED
    BY <2>1 DEF IInv, BatchInv, unjoined, at
<1>3. CleanUnlessFailed
  BY <1>2 DEF IInv, CrashInv, CleanInv, CleanUnlessFailed, busy, at
<1>4. ResultsInRange
  BY <1>2 DEF IInv, ResultInv, ResultsInRange, at
<1>5. NobodyStuck
  BY CurrentWorker DEF IInv, FormInv, busy, WaitInv, NobodyStuck, unjoined, at, TypeOK
<1> QED
  BY <1>1, <1>3, <1>4, <1>5

\* The type invariant.
THEOREM TypeCorrect == Spec => []TypeOK
BY Invariance, InvProperties, PTL

\* A press of Start starts what the form says (lines 222-240), after any edits.
THEOREM StartsShown == Spec => []StartsWhatIsShown
BY Invariance, InvProperties, PTL

\* The mutex keeps every addition to the counter (lines 198-209), whatever fails.
THEOREM Exact == Spec => []NothingLost
BY Invariance, InvProperties, PTL

\* Unless one of the handler's own calls fails, no thread outlives the handler, its
\* data or the mutex (lines 126-183 and 255-269).
THEOREM Outlived == Spec => []OutlivesThreads
BY Invariance, InvProperties, PTL

\* Unless something fails, a batch uses no pointer that is NULL, unset or freed, and
\* leaves nothing behind: only the use of app's widgets after their window was closed
\* before an older one can end the program (lines 46-91, 93-108, 126-128, 222-240 and
\* 255-269).
THEOREM Clean == Spec => []CleanUnlessFailed
BY Invariance, InvProperties, PTL

\* Unless something fails, and as long as the sum fits an int, the results shown are
\* more than the counter was and none more than it is, the total among them
\* (lines 203 and 212).
THEOREM Results == Spec => []ResultsInRange
BY Invariance, InvProperties, PTL

\* While the handler waits for a thread, that thread is there and whoever has the
\* mutex is about to release it (lines 169, 197 and 206).
THEOREM NeverStuck == Spec => []NobodyStuck
BY Invariance, InvProperties, PTL

-----------------------------------------------------------------------------
\* What a thread's place says about the abstract one, now and after a step.
LEMMA MappedThread ==
  ASSUME NEW w \in Workers
  PROVE  /\ worker[w].pc \in {"none", "returned", "joined"} => stage[w] = worker[w].pc
         /\ worker[w].pc \in {"lock", "write"} => stage[w] = "begun"
         /\ worker[w].pc = "result" => stage[w] = "added"
         /\ worker[w].pc = "returned_NULL" => stage[w] = "failed"
         /\ given[w] = IF reads_data(w) THEN input_values(w) ELSE {}
         /\ result[w] = IF worker[w].pc = "returned" THEN worker[w].value ELSE 0
BY DEF stage, given, result

\* A step that leaves the other threads alone does so in the abstraction.
LEMMA MappedStep ==
  ASSUME NEW w \in Workers,
         \A u \in Workers : u # w =>
           worker'[u] = worker[u] /\ thread_data'[u] = thread_data[u]
  PROVE  /\ stage' = [stage EXCEPT ![w] = stage'[w]]
         /\ given' = [given EXCEPT ![w] = given'[w]]
         /\ result' = [result EXCEPT ![w] = result'[w]]
         /\ stage'[w] = stage[w] => stage' = stage
         /\ given'[w] = given[w] => given' = given
         /\ result'[w] = result[w] => result' = result
<1>1. stage' = [stage EXCEPT ![w] = stage'[w]]
  BY DEF stage
<1>2. given' = [given EXCEPT ![w] = given'[w]]
  BY DEF given, reads_data, input_values
<1>3. result' = [result EXCEPT ![w] = result'[w]]
  BY DEF result
<1>4. /\ stage = [u \in Workers |-> stage[u]]
      /\ given = [u \in Workers |-> given[u]]
      /\ result = [u \in Workers |-> result[u]]
  BY DEF stage, given, result
<1> QED
  BY <1>1, <1>2, <1>3, <1>4

\* The abstract step of every step: a thread begins when it is created, adds when it
\* releases the mutex, and is shown when it is joined.
LEMMA CounterStep == ASSUME IInv, [Next]_vars PROVE [Atomic!Next]_(Atomic!vars)
<1> TypeForm /\ TypeMain /\ TypeThreads /\ TypeCounter /\ TypeOK
  BY TypeParts DEF IInv
<1> USE DEF Atomic!vars
<1>1. CASE UNCHANGED <<worker, thread_data, globalCounter, output>>
  <2>1. UNCHANGED <<stage, given, result>>
    BY <1>1 DEF stage, given, result, reads_data, input_values
  <2> QED
    BY <1>1, <2>1
<1>2. CASE activate \/ EditThreads \/ EditOldThreads \/ EditInput \/ Decay \/ CloseWindow
           \/ UseClosed \/ StartJoining \/ FinishJoining \/ FinishCleanup \/ UNCHANGED vars
  BY <1>1, <1>2 DEF activate, EditThreads, EditOldThreads, EditInput, Decay, form_only,
     CloseWindow, UseClosed, StartJoining, FinishJoining, FinishCleanup, vars, counter, shown
<1>3. CASE Press
  <2>1. UNCHANGED <<worker, thread_data, globalCounter>> /\ output' = {}
    BY <1>3 DEF Press, counter
  <2>2. UNCHANGED <<stage, given, result>>
    BY <2>1 DEF stage, given, result, reads_data, input_values
  <2> QED
    BY <2>1, <2>2 DEF Atomic!Next, Atomic!Clear
<1> DEFINE v == current(main.i)
<1>4. CASE CreateThread
  <2>1. /\ v \in Workers /\ worker[v].pc = "none"
    BY <1>4, CurrentWorker DEF CreateThread, at, busy, IInv, FutureInv, TypeMain
  <2>2. /\ \A u \in Workers : u # v =>
             worker'[u] = worker[u] /\ thread_data'[u] = thread_data[u]
        /\ UNCHANGED <<globalCounter, output>>
    BY <1>4 DEF CreateThread, counter, shown, TypeThreads
  <2>3. \/ UNCHANGED worker
        \/ /\ worker'[v].pc = "lock" /\ worker'[v].input \in Inputs
           /\ thread_data'[v] = "allocated"
    <3>1. CASE UNCHANGED worker
      BY <3>1
    <3>2. CASE ~UNCHANGED worker
      <4>1. /\ main.i \in DOMAIN input_entries
            /\ thread_data' = [thread_data EXCEPT ![v] = "allocated"]
            /\ worker' = [worker EXCEPT ![v].pc = "lock", ![v].input = input_entries[main.i]]
        BY <1>4, <3>2 DEF CreateThread
      <4>2. input_entries[main.i] \in Inputs
        BY <4>1 DEF IInv, InputInv
      <4> HIDE DEF v
      <4> QED
        BY <2>1, <4>1, <4>2 DEF TypeThreads
    <3> QED
      BY <3>1, <3>2
  <2>4. stage[v] = "none" /\ given[v] = {} /\ result[v] = 0
    BY <2>1, MappedThread DEF reads_data
  <2> HIDE DEF v
  <2>5. CASE UNCHANGED worker
    <3>1. stage'[v] = "none" /\ given'[v] = {} /\ result'[v] = 0
      BY <2>1, <2>5 DEF stage, given, result, reads_data
    <3> QED
      BY <2>1, <2>2, <2>4, <3>1, MappedStep
  <2>6. CASE worker'[v].pc = "lock" /\ worker'[v].input \in Inputs
             /\ thread_data'[v] = "allocated"
    <3>1. stage'[v] = "begun" /\ given'[v] = {worker'[v].input} /\ result'[v] = 0
      BY <2>1, <2>6 DEF stage, given, result, reads_data, input_values
    <3>2. Atomic!Begin(v)
      BY <2>1, <2>2, <2>4, <2>6, <3>1, MappedStep DEF Atomic!Begin
    <3> QED
      BY <2>1, <3>2 DEF Atomic!Next
  <2> QED
    BY <2>3, <2>5, <2>6
<1>5. CASE JoinThread
  <2>1. v \in Workers /\ UNCHANGED <<thread_data, globalCounter>>
    BY <1>5, CurrentWorker DEF JoinThread, to_join, at, busy, IInv, counter
  <2>2. CASE UNCHANGED <<worker, output>>
    BY <1>1, <2>1, <2>2
  <2>3. CASE ~UNCHANGED <<worker, output>>
    <3>1. /\ worker[v].pc = "returned" /\ output' = output \cup {worker[v].value}
          /\ worker' = [worker EXCEPT ![v].pc = "joined", ![v].value = 0]
      BY <1>5, <2>3 DEF JoinThread
    <3>2. \A u \in Workers : u # v =>
            worker'[u] = worker[u] /\ thread_data'[u] = thread_data[u]
      BY <2>1, <3>1 DEF TypeThreads
    <3>3. worker'[v].pc = "joined"
      BY <2>1, <3>1 DEF TypeThreads
    <3>4. stage[v] = "returned" /\ given[v] = {} /\ result[v] = worker[v].value
      BY <2>1, <3>1, MappedThread DEF reads_data
    <3> HIDE DEF v
    <3>5. stage'[v] = "joined" /\ given'[v] = {} /\ result'[v] = 0
      BY <2>1, <3>3 DEF stage, given, result, reads_data
    <3>6. Atomic!Show(v)
      BY <2>1, <3>1, <3>2, <3>4, <3>5, MappedStep DEF Atomic!Show
    <3> QED
      BY <2>1, <3>6 DEF Atomic!Next
  <2> QED
    BY <2>2, <2>3
<1>6. CASE FreeData
  <2>1. v \in Workers /\ UNCHANGED <<worker, globalCounter, output>>
    BY <1>6, CurrentWorker DEF FreeData, at, busy, IInv, counter, shown
  <2>2. CASE UNCHANGED thread_data
    BY <1>1, <2>1, <2>2
  <2>3. CASE ~UNCHANGED thread_data
    <3>1. thread_data[v] = "allocated" /\ thread_data' = [thread_data EXCEPT ![v] = "freed"]
      BY <1>6, <2>3 DEF FreeData
    <3>2. /\ thread_data'[v] = "freed"
          /\ \A u \in Workers : u # v =>
               worker'[u] = worker[u] /\ thread_data'[u] = thread_data[u]
      BY <2>1, <3>1 DEF TypeThreads
    <3> HIDE DEF v
    <3>3. stage' = stage /\ result' = result
      BY <2>1 DEF stage, result
    <3>4. CASE reads_data(v)
      <4>1. stage[v] = "begun"
        BY <2>1, <3>4, MappedThread DEF reads_data
      <4>2. given'[v] = Inputs
        BY <2>1, <3>2, <3>4 DEF given, reads_data, input_values
      <4>3. Atomic!TakeAway(v)
        BY <2>1, <3>2, <3>3, <4>1, <4>2, MappedStep DEF Atomic!TakeAway
      <4> QED
        BY <2>1, <4>3 DEF Atomic!Next
    <3>5. CASE ~reads_data(v)
      <4>1. given[v] = {} /\ given'[v] = {}
        BY <2>1, <3>5 DEF given, reads_data
      <4> QED
        BY <2>1, <3>2, <3>3, <4>1, MappedStep
    <3> QED
      BY <3>4, <3>5
  <2> QED
    BY <2>2, <2>3
<1>7. ASSUME NEW w \in Workers, foo(w)
      PROVE  [Atomic!Next]_(Atomic!vars)
  <2>1. /\ UNCHANGED <<thread_data, output>> /\ worker'[w].input = worker[w].input
        /\ \A u \in Workers : u # w =>
             worker'[u] = worker[u] /\ thread_data'[u] = thread_data[u]
    BY <1>7 DEF foo, LockAndRead, AddAndUnlock, ReturnResult, moves, worker_only, shown,
                TypeThreads
  <2>2. CASE LockAndRead(w)
    <3>1. worker[w].pc = "lock" /\ worker'[w].pc \in {"write", "returned_NULL"}
          /\ UNCHANGED globalCounter
      BY <2>2 DEF LockAndRead, in, moves, TypeThreads
    <3>2. stage[w] = "begun" /\ result[w] = 0 /\ given[w] = input_values(w)
      BY <3>1, MappedThread DEF reads_data
    <3>3. CASE worker'[w].pc = "write"
      <4>1. stage'[w] = "begun" /\ result'[w] = 0 /\ given'[w] = input_values(w)
        BY <2>1, <3>3 DEF stage, given, result, reads_data, input_values
      <4> QED
        BY <2>1, <3>1, <3>2, <4>1, MappedStep
    <3>4. CASE worker'[w].pc = "returned_NULL"
      <4>1. stage'[w] = "failed" /\ result'[w] = 0 /\ given'[w] = {}
        BY <3>4 DEF stage, given, result, reads_data
      <4>2. Atomic!GiveUp(w)
        BY <2>1, <3>1, <3>2, <4>1, MappedStep DEF Atomic!GiveUp
      <4> QED
        BY <4>2 DEF Atomic!Next
    <3> QED
      BY <3>1, <3>3, <3>4
  <2>3. CASE AddAndUnlock(w)
    <3>1. worker[w].pc = "write" /\ worker'[w].pc \in {"result", "returned_NULL"}
      BY <2>3 DEF AddAndUnlock, in, moves, TypeThreads
    <3>2. stage[w] = "begun" /\ result[w] = 0 /\ given[w] = input_values(w)
      BY <3>1, MappedThread DEF reads_data
    <3>3. /\ stage'[w] \in {"added", "failed"} /\ result'[w] = 0 /\ given'[w] = {}
      BY <3>1 DEF stage, given, result, reads_data
    <3>4. \E n \in given[w] : globalCounter' = Atomic!sum(globalCounter, n)
      BY <2>3, <3>1, <3>2 DEF AddAndUnlock, IInv, MutexInv, int_sum, Atomic!sum
    <3>5. Atomic!Add(w)
      BY <2>1, <3>2, <3>3, <3>4, MappedStep DEF Atomic!Add
    <3> QED
      BY <3>5 DEF Atomic!Next
  <2>4. CASE ReturnResult(w)
    <3>1. /\ worker[w].pc = "result" /\ worker'[w].pc = "returned"
          /\ worker'[w].value = globalCounter /\ UNCHANGED globalCounter
      BY <2>4 DEF ReturnResult, in, result_of, counter, TypeThreads
    <3>2. stage[w] = "added" /\ given[w] = {}
      BY <3>1, MappedThread DEF reads_data
    <3>3. stage'[w] = "returned" /\ result'[w] = globalCounter /\ given'[w] = {}
      BY <3>1 DEF stage, given, result, reads_data
    <3>4. Atomic!Return(w)
      BY <2>1, <3>1, <3>2, <3>3, MappedStep DEF Atomic!Return
    <3> QED
      BY <3>4 DEF Atomic!Next
  <2> QED
    BY <1>7, <2>2, <2>3, <2>4 DEF foo
<1> QED
  BY <1>2, <1>3, <1>4, <1>5, <1>6, <1>7 DEF Next, User, Handler

\* The threads and the window implement an atomic counter: the mutex makes each
\* addition one step (lines 197-209), and what is shown of a thread is the counter
\* after its addition (lines 212 and 168-181).
THEOREM Refinement == Spec => ImplementsCounter
<1>1. Init => Atomic!Init
  BY DEF Init, Atomic!Init, stage, given, result, reads_data
<1> QED
  BY Invariance, CounterStep, <1>1, PTL DEF Spec, ImplementsCounter, Atomic!Spec
=============================================================================
