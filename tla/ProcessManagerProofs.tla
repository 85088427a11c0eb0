------------------------ MODULE ProcessManagerProofs ------------------------
(***************************************************************************)
(* Proofs about ProcessManager for any number of callers, processes and    *)
(* executions: ids are unique, the pointers getProcess hands out are good, *)
(* and what is marked as running has somebody who will mark it as ended.   *)
(***************************************************************************)
EXTENDS ProcessManager, TLAPS

-----------------------------------------------------------------------------
\* The parts of the type invariant, and of the inductive one.

ProcessType ==
  \A id \in DOMAIN processes :
    processes[id] \in [isRunning: BOOLEAN, exitCode: {0, -1}]

ThreadType == thread \in [Threads -> [pc: Labels, id: Ids]]

WorkerLabels == {"none", "asleep", "clear", "exit_code", "gone"}

WorkerType == worker \in [Workers -> [pc: WorkerLabels, id: Ids]]

\* Every id in use has been drawn from the counter.
Drawn ==
  /\ \A id \in DOMAIN processes : id <= nextProcessId
  /\ \A t \in Threads : creating(t) => thread[t].id <= nextProcessId

IInv == TypeOK /\ Drawn /\ IdsUnique /\ PointersGood /\ RunningEnds

PointerLabels == {"check_idle", "mark", "spawn", "check_running", "clear",
                  "exit_code", "copy"}

LEMMA Types ==
  ASSUME TypeOK
  PROVE  /\ nextProcessId \in Ids /\ DOMAIN processes \subseteq Ids
         /\ ProcessType /\ ThreadType /\ WorkerType
         /\ FirstId \in Int /\ Ids \subseteq Int
BY DEF TypeOK, ProcessType, ThreadType, WorkerType, WorkerLabels, FirstId, Ids

-----------------------------------------------------------------------------
\* A step of caller t leaves the others where they are.
Moved(t, label, id) ==
  /\ ThreadType'
  /\ thread'[t].pc = label /\ thread'[t].id = id
  /\ \A u \in Threads \ {t} : thread'[u] = thread[u]

LEMMA GotoStep ==
  ASSUME ThreadType, NEW t \in Threads, NEW label \in Labels, goto(t, label)
  PROVE  Moved(t, label, thread[t].id)
BY DEF ThreadType, goto, Moved

LEMMA BeginStep ==
  ASSUME ThreadType, NEW t \in Threads, NEW label \in Labels, NEW id \in Ids,
         begin(t, label, id)
  PROVE  Moved(t, label, id)
BY DEF ThreadType, begin, Moved

\* A step that leaves the processes and the workers alone keeps the invariant if
\* its caller does not get a new id or a pointer that is not good, nor gives up
\* the start of a worker.
LEMMA QuietStep ==
  ASSUME IInv, NEW t \in Threads, NEW label \in Labels, NEW id \in Ids,
         Moved(t, label, id), ~at(t, "spawn"),
         UNCHANGED <<nextProcessId, processes, worker, terminated, unstarted>>,
         processMutex' \in Threads \cup {NoThread},
         executions' \in 0..MaxExecutions,
         label \in PointerLabels => known(id),
         label \in {"create", "add"} => creating(t) /\ id = thread[t].id
  PROVE  IInv'
<1>1. TypeOK'
  BY DEF IInv, TypeOK, Moved, ThreadType
<1>2. Drawn'
  BY DEF IInv, Drawn, Moved, creating
<1>3. IdsUnique'
  <2>1. \A u \in Threads : creating(u)' => creating(u) /\ thread'[u].id = thread[u].id
    BY DEF Moved, creating
  <2> QED
    BY <2>1 DEF IInv, IdsUnique, known, creating
<1>4. PointersGood'
  <2>1. \A u \in Threads : thread'[u].pc \in PointerLabels => known(thread'[u].id)
    BY DEF IInv, PointersGood, Moved, PointerLabels
  <2> QED
    BY <2>1 DEF IInv, PointersGood, PointerLabels, known
<1>5. RunningEnds'
  <2>1. \A u \in Threads : at(u, "spawn") => at(u, "spawn")' /\ thread'[u].id = thread[u].id
    BY DEF Moved, at
  <2>2. \A i : will_end(i) => will_end(i)'
    BY <2>1 DEF will_end
  <2> QED
    BY <2>2 DEF IInv, RunningEnds
<1> QED
  BY <1>1, <1>2, <1>3, <1>4, <1>5 DEF IInv

\* The steps of which QuietStep speaks.
Quiet(t) ==
  \/ CreateProcessImpl(t) \/ Call(t) \/ CallExecute(t) \/ GetProcess(t)
  \/ CheckIdle(t) \/ CheckRunning(t) \/ CopyInfo(t) \/ ListProcesses(t) \/ ListEnds(t)

LEMMA QuietSteps == ASSUME IInv, NEW t \in Threads, Quiet(t) PROVE IInv'
<1>0. /\ ThreadType /\ thread[t].id \in Ids /\ TypeOK
      /\ executions \in 0..MaxExecutions /\ MaxExecutions \in Nat
      /\ processMutex \in Threads \cup {NoThread}
  BY Types, ProcessAssumption DEF IInv, TypeOK
<1> USE DEF table_unchanged, runs_unchanged, PointerLabels
<1>1. CASE CreateProcessImpl(t)
  <2>1. PICK label \in {"add", "idle"} : goto(t, label)
    BY <1>1 DEF CreateProcessImpl
  <2>2. Moved(t, label, thread[t].id) /\ label \in Labels
    BY <1>0, <2>1, GotoStep DEF Labels
  <2> QED
    BY <1>0, <1>1, <2>2, QuietStep DEF CreateProcessImpl, at, creating
<1>2. CASE Call(t)
  <2>1. PICK id \in Ids, label \in {"terminate", "info"} : begin(t, label, id)
    BY <1>2 DEF Call
  <2>2. Moved(t, label, id) /\ label \in Labels
    BY <1>0, <2>1, BeginStep DEF Labels
  <2> QED
    BY <1>0, <1>2, <2>2, QuietStep DEF Call, at
<1>3. CASE CallExecute(t)
  <2>1. PICK id \in Ids : begin(t, "execute", id)
    BY <1>3 DEF CallExecute
  <2>2. Moved(t, "execute", id) /\ "execute" \in Labels
    BY <1>0, <2>1, BeginStep DEF Labels
  <2>3. executions' \in 0..MaxExecutions
    BY <1>0, <1>3 DEF CallExecute
  <2> QED
    BY <1>0, <1>3, <2>2, <2>3, QuietStep DEF CallExecute, at
<1>4. CASE GetProcess(t)
  <2>1. PICK label \in {"check_idle", "check_running", "copy", "idle"} :
          goto(t, label) /\ (label # "idle" => known(thread[t].id))
    BY <1>4 DEF GetProcess
  <2>2. Moved(t, label, thread[t].id) /\ label \in Labels
    BY <1>0, <2>1, GotoStep DEF Labels
  <2> QED
    BY <1>0, <1>4, <2>1, <2>2, QuietStep DEF GetProcess, at
<1>5. CASE CheckIdle(t)
  <2>1. PICK label \in {"idle", "mark"} : goto(t, label)
    BY <1>5 DEF CheckIdle
  <2>2. Moved(t, label, thread[t].id) /\ label \in Labels
    BY <1>0, <2>1, GotoStep DEF Labels
  <2>3. known(thread[t].id)
    BY <1>5 DEF CheckIdle, at, IInv, PointersGood
  <2> QED
    BY <1>0, <1>5, <2>2, <2>3, QuietStep DEF CheckIdle, at
<1>6. CASE CheckRunning(t)
  <2>1. PICK label \in {"idle", "clear"} : goto(t, label)
    BY <1>6 DEF CheckRunning
  <2>2. Moved(t, label, thread[t].id) /\ label \in Labels
    BY <1>0, <2>1, GotoStep DEF Labels
  <2>3. known(thread[t].id)
    BY <1>6 DEF CheckRunning, at, IInv, PointersGood
  <2> QED
    BY <1>0, <1>6, <2>2, <2>3, QuietStep DEF CheckRunning, at
<1>7. CASE CopyInfo(t) \/ ListEnds(t)
  <2>1. goto(t, "idle")
    BY <1>7 DEF CopyInfo, ListEnds
  <2>2. Moved(t, "idle", thread[t].id) /\ "idle" \in Labels
    BY <1>0, <2>1, GotoStep DEF Labels
  <2> QED
    BY <1>0, <1>7, <2>2, QuietStep DEF CopyInfo, ListEnds, at
<1>8. CASE ListProcesses(t)
  <2>1. goto(t, "copy_all")
    BY <1>8 DEF ListProcesses
  <2>2. Moved(t, "copy_all", thread[t].id) /\ "copy_all" \in Labels
    BY <1>0, <2>1, GotoStep DEF Labels
  <2> QED
    BY <1>0, <1>8, <2>2, QuietStep DEF ListProcesses, at
<1> QED
  BY <1>1, <1>2, <1>3, <1>4, <1>5, <1>6, <1>7, <1>8 DEF Quiet
-----------------------------------------------------------------------------
\* createProcess: the id drawn is above all that are in use.
LEMMA CreateStep == ASSUME IInv, NEW t \in Threads, CreateProcess(t) PROVE IInv'
<1>0. /\ ThreadType /\ TypeOK /\ Drawn /\ nextProcessId \in Int
      /\ MaxProcesses \in Nat /\ FirstId \in Int
  BY Types, ProcessAssumption DEF IInv
<1>1. nextProcessId + 1 \in Ids /\ nextProcessId' = nextProcessId + 1
  BY <1>0 DEF CreateProcess, TypeOK, Ids
<1>2. Moved(t, "create", nextProcessId + 1)
  BY <1>0, <1>1, BeginStep DEF CreateProcess, Labels
<1>3. UNCHANGED <<processes, processMutex, worker, executions, terminated, unstarted>>
      /\ at(t, "idle")
  BY DEF CreateProcess, runs_unchanged
<1>4. TypeOK'
  BY <1>0, <1>1, <1>2, <1>3 DEF TypeOK, Moved, ThreadType
<1>5. /\ \A id \in DOMAIN processes : id \in Int
      /\ \A u \in Threads : thread[u].id \in Int
  BY <1>0, Types DEF IInv, ThreadType
<1>6. Drawn'
  BY <1>0, <1>1, <1>2, <1>3, <1>5 DEF Drawn, Moved, creating
<1>7. IdsUnique'
  <2>1. ASSUME NEW u \in Threads, creating(u)' PROVE thread'[u].id \notin DOMAIN processes'
    BY <1>0, <1>1, <1>2, <1>3, <1>5, <2>1 DEF IInv, IdsUnique, Drawn, Moved, creating, known
  <2>2. ASSUME NEW u \in Threads, NEW v \in Threads \ {u}, creating(u)', creating(v)'
        PROVE  thread'[u].id # thread'[v].id
    <3>1. CASE u = t
      BY <1>0, <1>1, <1>2, <1>5, <2>2, <3>1 DEF Drawn, Moved, creating
    <3>2. CASE v = t
      BY <1>0, <1>1, <1>2, <1>5, <2>2, <3>2 DEF Drawn, Moved, creating
    <3>3. CASE u # t /\ v # t
      BY <1>2, <2>2, <3>3 DEF IInv, IdsUnique, Moved, creating
    <3> QED
      BY <3>1, <3>2, <3>3
  <2> QED
    BY <2>1, <2>2 DEF IdsUnique, known
<1>8. PointersGood'
  BY <1>2, <1>3 DEF IInv, PointersGood, Moved, known
<1>9. RunningEnds'
  <2>1. \A u \in Threads : at(u, "spawn") => at(u, "spawn")' /\ thread'[u].id = thread[u].id
    BY <1>2, <1>3 DEF Moved, at
  <2>2. \A i : will_end(i) => will_end(i)'
    BY <1>3, <2>1 DEF will_end
  <2> QED
    BY <1>3, <2>2 DEF IInv, RunningEnds
<1> QED
  BY <1>4, <1>6, <1>7, <1>8, <1>9 DEF IInv

\* addProcess: the object that it replaces does not exist.
LEMMA AddStep == ASSUME IInv, NEW t \in Threads, AddProcess(t) PROVE IInv'
<1>0. ThreadType /\ TypeOK /\ Drawn /\ ProcessType
  BY Types DEF IInv
<1>1. Moved(t, "idle", thread[t].id)
  BY <1>0, GotoStep DEF AddProcess, Labels
<1> DEFINE new == thread[t].id
<1>2. /\ at(t, "add") /\ creating(t) /\ new \in Ids
      /\ UNCHANGED <<nextProcessId, processMutex, worker, executions, terminated, unstarted>>
  BY <1>0 DEF AddProcess, runs_unchanged, at, creating, ThreadType
<1>3. /\ DOMAIN processes' = DOMAIN processes \cup {new}
      /\ processes'[new] = [isRunning |-> FALSE, exitCode |-> 0]
      /\ \A id \in DOMAIN processes : id # new => processes'[id] = processes[id]
  BY DEF AddProcess
<1> HIDE DEF new
<1>4. TypeOK'
  <2>1. ThreadType'
    BY <1>1 DEF Moved
  <2>2. ASSUME NEW id \in DOMAIN processes'
        PROVE  processes'[id] \in [isRunning: BOOLEAN, exitCode: {0, -1}]
    <3>1. CASE id = new
      <4>1. processes'[id] = [isRunning |-> FALSE, exitCode |-> 0]
        BY <1>3, <3>1
      <4> QED
        BY <4>1
    <3>2. CASE id # new
      BY <1>0, <1>3, <2>2, <3>2 DEF ProcessType
    <3> QED
      BY <3>1, <3>2
  <2> QED
    BY <1>0, <1>2, <1>3, <2>1, <2>2 DEF TypeOK, ThreadType
<1>5. Drawn'
  BY <1>0, <1>1, <1>2, <1>3 DEF Drawn, Moved, creating, new
<1>6. IdsUnique'
  BY <1>1, <1>2, <1>3 DEF IInv, IdsUnique, Moved, creating, known, new
<1>7. PointersGood'
  BY <1>1, <1>2, <1>3 DEF IInv, PointersGood, Moved, known
<1>8. RunningEnds'
  <2>1. \A u \in Threads : at(u, "spawn") => at(u, "spawn")' /\ thread'[u].id = thread[u].id
    BY <1>1, <1>2 DEF Moved, at
  <2>2. \A i : will_end(i) => will_end(i)'
    BY <1>2, <2>1 DEF will_end
  <2> QED
    BY <1>3, <2>2 DEF IInv, RunningEnds
<1> QED
  BY <1>4, <1>5, <1>6, <1>7, <1>8 DEF IInv

-----------------------------------------------------------------------------
\* A write of a field of a known process.
Written(id) ==
  /\ ProcessType' /\ DOMAIN processes' = DOMAIN processes
  /\ \A other \in DOMAIN processes \ {id} : processes'[other] = processes[other]

LEMMA RunningWritten ==
  ASSUME ProcessType, NEW id \in DOMAIN processes, NEW value \in BOOLEAN,
         set_running(id, value)
  PROVE  Written(id) /\ processes'[id].isRunning = value
BY DEF ProcessType, set_running, Written

LEMMA ExitCodeWritten ==
  ASSUME ProcessType, NEW id \in DOMAIN processes, NEW value \in {0, -1},
         set_exit_code(id, value)
  PROVE  Written(id) /\ processes'[id].isRunning = processes[id].isRunning
BY DEF ProcessType, set_exit_code, Written

\* What a step that writes a field needs besides, if a caller makes it.
LEMMA CallerWrites ==
  ASSUME IInv, NEW t \in Threads, NEW label \in Labels \ {"create", "add"},
         Moved(t, label, thread[t].id), known(thread[t].id),
         \/ UNCHANGED processes
         \/ Written(thread[t].id),
         UNCHANGED <<nextProcessId, processMutex, executions>>,
         WorkerType',
         \A w \in Workers : worker'[w].pc # "none" => known(worker'[w].id),
         terminated' \subseteq DOMAIN processes, unstarted' \subseteq DOMAIN processes
  PROVE  TypeOK' /\ Drawn' /\ IdsUnique' /\ PointersGood'
<1>0. /\ ProcessType' /\ DOMAIN processes' = DOMAIN processes
      /\ \A u \in Threads : creating(u)' => creating(u) /\ thread'[u].id = thread[u].id
      /\ \A u \in Threads : thread'[u].id = thread[u].id
  BY Types DEF IInv, Written, ProcessType, Moved, creating
<1>1. TypeOK'
  <2>1. ThreadType'
    BY DEF Moved
  <2>2. /\ nextProcessId' \in Ids /\ DOMAIN processes' \subseteq Ids
        /\ processMutex' \in Threads \cup {NoThread}
        /\ executions' \in 0..MaxExecutions
        /\ terminated' \subseteq DOMAIN processes' /\ unstarted' \subseteq DOMAIN processes'
    BY <1>0 DEF IInv, TypeOK
  <2> QED
    BY <1>0, <2>1, <2>2 DEF TypeOK, ProcessType, ThreadType, WorkerType, WorkerLabels
<1>2. Drawn'
  BY <1>0 DEF IInv, Drawn
<1>3. IdsUnique'
  BY <1>0 DEF IInv, IdsUnique, known
<1>4. PointersGood'
  <2>1. \A u \in Threads : thread'[u].pc \in PointerLabels => known(thread'[u].id)
    BY DEF IInv, PointersGood, Moved, PointerLabels
  <2> QED
    BY <1>0, <2>1 DEF PointersGood, PointerLabels, known
<1> QED
  BY <1>1, <1>2, <1>3, <1>4

LEMMA MarkStep == ASSUME IInv, NEW t \in Threads, MarkRunning(t) PROVE IInv'
<1>0. /\ ThreadType /\ ProcessType /\ WorkerType /\ TypeOK /\ PointersGood
      /\ at(t, "mark") /\ set_running(thread[t].id, TRUE)
      /\ UNCHANGED <<nextProcessId, processMutex, worker, executions>>
      /\ terminated' = terminated \ {thread[t].id}
      /\ unstarted' = unstarted \ {thread[t].id}
  BY Types DEF MarkRunning, IInv
<1>1. Moved(t, "spawn", thread[t].id) /\ "spawn" \in Labels \ {"create", "add"}
  BY <1>0, GotoStep DEF MarkRunning, Labels
<1>2. thread[t].id \in DOMAIN processes
  BY <1>0 DEF PointersGood, at, known
<1>3. Written(thread[t].id)
  BY <1>0, <1>2, RunningWritten
<1>4. TypeOK' /\ Drawn' /\ IdsUnique' /\ PointersGood'
  BY <1>0, <1>1, <1>2, <1>3, CallerWrites DEF TypeOK, PointersGood, known, WorkerType
<1>5. RunningEnds'
  <2>1. \A i : i = thread[t].id => will_end(i)'
    BY <1>1 DEF will_end, Moved, at
  <2>2. \A u \in Threads : at(u, "spawn") => at(u, "spawn")' /\ thread'[u].id = thread[u].id
    BY <1>0, <1>1 DEF Moved, at
  <2>3. \A i : i # thread[t].id /\ will_end(i) => will_end(i)'
    BY <1>0, <2>2 DEF will_end
  <2> QED
    BY <1>3, <2>1, <2>3 DEF IInv, RunningEnds, Written
<1> QED
  BY <1>4, <1>5 DEF IInv

\* The duty to end the process goes from the caller to the worker.
LEMMA SpawnStep == ASSUME IInv, NEW t \in Threads, SpawnWorker(t) PROVE IInv'
<1>0. /\ ThreadType /\ ProcessType /\ WorkerType /\ TypeOK /\ PointersGood
      /\ at(t, "spawn")
      /\ UNCHANGED <<nextProcessId, processes, processMutex, executions, terminated, unstarted>>
  BY Types DEF SpawnWorker, table_unchanged, IInv
<1>1. Moved(t, "idle", thread[t].id) /\ "idle" \in Labels \ {"create", "add"}
  BY <1>0, GotoStep DEF SpawnWorker, Labels
<1>2. thread[t].id \in DOMAIN processes /\ thread[t].id \in Ids
  BY <1>0 DEF PointersGood, at, known, ThreadType
<1>3. PICK w \in Workers :
        /\ worker[w].pc = "none"
        /\ worker' = [worker EXCEPT ![w] = [pc |-> "asleep", id |-> thread[t].id]]
  BY DEF SpawnWorker
<1>4. /\ WorkerType' /\ worker'[w].pc = "asleep" /\ worker'[w].id = thread[t].id
      /\ \A v \in Workers \ {w} : worker'[v] = worker[v]
  BY <1>0, <1>2, <1>3 DEF WorkerType, WorkerLabels
<1>5. \A v \in Workers : worker'[v].pc # "none" => known(worker'[v].id)
  BY <1>0, <1>2, <1>4 DEF PointersGood, known
<1>6. TypeOK' /\ Drawn' /\ IdsUnique' /\ PointersGood'
  BY <1>0, <1>1, <1>2, <1>4, <1>5, CallerWrites DEF TypeOK, known
<1>7. RunningEnds'
  <2>1. \A i : i = thread[t].id => will_end(i)'
    BY <1>4 DEF will_end
  <2>2. \A u \in Threads \ {t} :
          at(u, "spawn") => at(u, "spawn")' /\ thread'[u].id = thread[u].id
    BY <1>1 DEF Moved, at
  <2>3. \A v \in Workers : worker[v].pc \in {"asleep", "clear"} => worker'[v] = worker[v]
    BY <1>3, <1>4
  <2>4. \A i : i # thread[t].id /\ will_end(i) => will_end(i)'
    BY <1>0, <2>2, <2>3 DEF will_end
  <2> QED
    BY <1>0, <2>1, <2>4 DEF IInv, RunningEnds
<1> QED
  BY <1>6, <1>7 DEF IInv

LEMMA SpawnFailsStep == ASSUME IInv, NEW t \in Threads, SpawnFails(t) PROVE IInv'
<1>0. /\ ThreadType /\ WorkerType /\ TypeOK /\ PointersGood /\ at(t, "spawn")
      /\ UNCHANGED <<nextProcessId, processes, processMutex, worker, executions, terminated>>
      /\ unstarted' = unstarted \cup {thread[t].id}
  BY Types DEF SpawnFails, table_unchanged, IInv
<1>1. Moved(t, "idle", thread[t].id) /\ "idle" \in Labels \ {"create", "add"}
  BY <1>0, GotoStep DEF SpawnFails, Labels
<1>2. thread[t].id \in DOMAIN processes
  BY <1>0 DEF PointersGood, at, known
<1>3. TypeOK' /\ Drawn' /\ IdsUnique' /\ PointersGood'
  BY <1>0, <1>1, <1>2, CallerWrites DEF TypeOK, PointersGood, known, WorkerType
<1>4. RunningEnds'
  <2>1. \A i : i = thread[t].id => will_end(i)'
    BY <1>0 DEF will_end
  <2>2. \A u \in Threads \ {t} :
          at(u, "spawn") => at(u, "spawn")' /\ thread'[u].id = thread[u].id
    BY <1>1 DEF Moved, at
  <2>3. \A i : i # thread[t].id /\ will_end(i) => will_end(i)'
    BY <1>0, <2>2 DEF will_end
  <2> QED
    BY <1>0, <2>1, <2>3 DEF IInv, RunningEnds
<1> QED
  BY <1>3, <1>4 DEF IInv

\* terminateProcess: whoever was to end the process may still do so.
LEMMA TerminateStep ==
  ASSUME IInv, NEW t \in Threads, TerminateClears(t) \/ TerminateExits(t)
  PROVE  IInv'
<1>0. /\ ThreadType /\ ProcessType /\ WorkerType /\ TypeOK /\ PointersGood
      /\ UNCHANGED <<nextProcessId, processMutex, worker, executions, unstarted>>
      /\ thread[t].pc \in {"clear", "exit_code"}
      /\ terminated' \in {terminated, terminated \cup {thread[t].id}}
  BY Types DEF TerminateClears, TerminateExits, runs_unchanged, at, IInv
<1>1. PICK label \in Labels \ {"create", "add"} : Moved(t, label, thread[t].id)
  <2>1. goto(t, "exit_code") \/ goto(t, "idle")
    BY DEF TerminateClears, TerminateExits
  <2>2. "exit_code" \in Labels \ {"create", "add"} /\ "idle" \in Labels \ {"create", "add"}
    BY DEF Labels
  <2> QED
    BY <1>0, <2>1, <2>2, GotoStep
<1>2. thread[t].id \in DOMAIN processes
  BY <1>0 DEF PointersGood, known
<1>3. /\ Written(thread[t].id)
      /\ processes'[thread[t].id].isRunning => processes[thread[t].id].isRunning
  BY <1>0, <1>2, RunningWritten, ExitCodeWritten DEF TerminateClears, TerminateExits
<1>4. TypeOK' /\ Drawn' /\ IdsUnique' /\ PointersGood'
  BY <1>0, <1>1, <1>2, <1>3, CallerWrites DEF TypeOK, PointersGood, known, WorkerType
<1>5. RunningEnds'
  <2>1. \A u \in Threads : at(u, "spawn") => at(u, "spawn")' /\ thread'[u].id = thread[u].id
    BY <1>0, <1>1 DEF Moved, at
  <2>2. \A i : will_end(i) => will_end(i)'
    BY <1>0, <2>1 DEF will_end
  <2> QED
    BY <1>3, <2>2 DEF IInv, RunningEnds, Written
<1> QED
  BY <1>4, <1>5 DEF IInv

-----------------------------------------------------------------------------
\* The worker.  It is done with its duty when the process is no longer marked.
LEMMA WorkStep == ASSUME IInv, NEW w \in Workers, Work(w) PROVE IInv'
<1>0. /\ ThreadType /\ ProcessType /\ WorkerType /\ TypeOK /\ PointersGood
      /\ UNCHANGED <<nextProcessId, processMutex, thread, executions, terminated, unstarted>>
      /\ worker[w].pc \in {"asleep", "clear", "exit_code"}
  BY Types DEF Work, Wake, WorkerClears, WorkerExits, table_unchanged, IInv
<1> DEFINE id == worker[w].id
<1>1. id \in DOMAIN processes
  BY <1>0 DEF PointersGood, known
<1>2. PICK label \in WorkerLabels :
        /\ worker' = [worker EXCEPT ![w].pc = label]
        /\ \/ worker[w].pc = "asleep" /\ label = "clear" /\ UNCHANGED processes
           \/ worker[w].pc = "clear" /\ set_running(id, FALSE)
           \/ worker[w].pc = "exit_code" /\ set_exit_code(id, 0)
  BY <1>1 DEF Work, Wake, WorkerClears, WorkerExits, table_unchanged, known, WorkerLabels
<1>3. /\ WorkerType' /\ worker'[w].pc = label /\ worker'[w].id = id
      /\ \A v \in Workers \ {w} : worker'[v] = worker[v]
  BY <1>0, <1>2 DEF WorkerType
<1>4. /\ ProcessType' /\ DOMAIN processes' = DOMAIN processes
      /\ \A other \in DOMAIN processes \ {id} : processes'[other] = processes[other]
      /\ processes'[id].isRunning =>
           processes[id].isRunning /\ worker[w].pc # "clear"
  <2>1. CASE worker[w].pc = "asleep"
    BY <1>0, <1>2, <2>1 DEF ProcessType
  <2>2. CASE worker[w].pc = "clear"
    BY <1>0, <1>1, <1>2, <2>2, RunningWritten DEF Written
  <2>3. CASE worker[w].pc = "exit_code"
    BY <1>0, <1>1, <1>2, <2>3, ExitCodeWritten DEF Written
  <2> QED
    BY <1>0, <2>1, <2>2, <2>3
<1> HIDE DEF id
<1>5. TypeOK'
  BY <1>0, <1>3, <1>4 DEF TypeOK, ProcessType, WorkerType, WorkerLabels
<1>6. Drawn' /\ IdsUnique'
  BY <1>0, <1>4 DEF IInv, Drawn, IdsUnique, creating, known
<1>7. PointersGood'
  BY <1>0, <1>1, <1>3, <1>4 DEF PointersGood, known
<1>8. RunningEnds'
  <2>1. \A v \in Workers :
          worker[v].pc \in {"asleep", "clear"} =>
            \/ worker'[v].pc \in {"asleep", "clear"} /\ worker'[v].id = worker[v].id
            \/ v = w /\ worker[w].pc = "clear"
    BY <1>2, <1>3 DEF id
  <2>2. \A i : will_end(i) => will_end(i)' \/ (i = id /\ worker[w].pc = "clear")
    BY <1>0, <2>1 DEF will_end, at, id
  <2> QED
    BY <1>4, <2>2 DEF IInv, RunningEnds
<1> QED
  BY <1>5, <1>6, <1>7, <1>8 DEF IInv

-----------------------------------------------------------------------------
LEMMA InitIInv == Init => IInv
<1> SUFFICES ASSUME Init PROVE IInv
  OBVIOUS
<1>0. /\ FirstId \in Ids /\ 0 \in 0..MaxExecutions /\ DOMAIN processes = {}
      /\ NoThread \in Threads \cup {NoThread}
  BY ProcessAssumption DEF Init, FirstId, Ids
<1>1. /\ \A t \in Threads : thread[t].pc = "idle"
      /\ \A w \in Workers : worker[w].pc = "none"
      /\ ThreadType /\ WorkerType
  BY <1>0 DEF Init, ThreadType, WorkerType, WorkerLabels, Labels
<1>2. TypeOK
  BY <1>0, <1>1 DEF Init, TypeOK, ThreadType, WorkerType, WorkerLabels
<1>3. Drawn /\ IdsUnique /\ PointersGood /\ RunningEnds
  BY <1>0, <1>1 DEF Drawn, IdsUnique, PointersGood, RunningEnds, creating
<1> QED
  BY <1>2, <1>3 DEF IInv

LEMMA StutterStep == IInv /\ UNCHANGED vars => IInv'
<1> SUFFICES ASSUME IInv, UNCHANGED vars PROVE IInv'
  OBVIOUS
<1>1. TypeOK'
  BY DEF vars, IInv, TypeOK
<1>2. Drawn' /\ IdsUnique' /\ PointersGood' /\ RunningEnds'
  BY DEF vars, IInv, Drawn, IdsUnique, PointersGood, RunningEnds, creating, known,
     will_end, at
<1> QED
  BY <1>1, <1>2 DEF IInv

\* The invariant holds in every reachable state.
THEOREM Invariance == Spec => []IInv
<1>1. IInv /\ [Next]_vars => IInv'
  <2> SUFFICES ASSUME IInv, [Next]_vars PROVE IInv'
    OBVIOUS
  <2>1. CASE \E t \in Threads : Start(t) \/ Continue(t)
    <3>1. PICK t \in Threads : Start(t) \/ Continue(t)
      BY <2>1
    <3> QED
      BY <3>1, QuietSteps, CreateStep, AddStep, MarkStep, SpawnStep, SpawnFailsStep,
         TerminateStep DEF Start, Continue, Quiet
  <2> QED
    BY <2>1, WorkStep, StutterStep DEF Next
<1> QED
  BY InitIInv, <1>1, PTL DEF Spec

\* Every variable keeps its type.
THEOREM TypeCorrect == Spec => []TypeOK
<1>1. IInv => TypeOK
  BY DEF IInv
<1> QED
  BY Invariance, <1>1, PTL

\* No two calls of createProcess work on the same id, and none on an id of the
\* table (system_lib.hpp 72-84, 205-220).
THEOREM UniqueIds == Spec => []IdsUnique
<1>1. IInv => IdsUnique
  BY DEF IInv
<1> QED
  BY Invariance, <1>1, PTL

\* A pointer that getProcess has handed out points to a process of the table
\* wherever it is used (system_lib.hpp 81-85, 232-276).
THEOREM GoodPointers == Spec => []PointersGood
<1>1. IInv => PointersGood
  BY DEF IInv
<1> QED
  BY Invariance, <1>1, PTL

\* A process marked as running has somebody who will mark it as ended, unless its
\* worker could not be started (system_lib.hpp 236-248).
THEOREM EndInSight == Spec => []RunningEnds
<1>1. IInv => RunningEnds
  BY DEF IInv
<1> QED
  BY Invariance, <1>1, PTL

-----------------------------------------------------------------------------
\* The mutex is held between two steps by listProcesses alone, which copies the
\* table and gives it back: the other operations lock, look up and unlock at
\* once.  So a caller or worker that waits for the mutex waits for a copy of the
\* table, never for another waiter (system_lib.hpp 72-103).
MutexHeld ==
  /\ NoThread \notin Threads
  /\ \A t \in Threads : processMutex = t <=> at(t, "copy_all")

\* A step of a caller that neither is nor will be in listProcesses.
LEMMA NotListing ==
  ASSUME ThreadType, MutexHeld, NEW t \in Threads, NEW label \in Labels \ {"copy_all"},
         NEW id \in Ids, Moved(t, label, id), ~at(t, "copy_all"), UNCHANGED processMutex
  PROVE  MutexHeld'
BY DEF MutexHeld, Moved, at

LEMMA MutexCallerStep ==
  ASSUME ThreadType, MutexHeld, NEW t \in Threads, NEW label \in Labels,
         goto(t, label) \/ (\E id \in Ids : begin(t, label, id)),
         \/ label # "copy_all" /\ ~at(t, "copy_all") /\ UNCHANGED processMutex
         \/ label = "copy_all" /\ processMutex = NoThread /\ processMutex' = t
         \/ label # "copy_all" /\ at(t, "copy_all") /\ processMutex' = NoThread
  PROVE  MutexHeld'
<1>1. PICK id \in Ids : Moved(t, label, id)
  BY GotoStep, BeginStep DEF ThreadType
<1> QED
  BY <1>1, NotListing DEF MutexHeld, Moved, at

LEMMA MutexStep ==
  ASSUME ThreadType, nextProcessId \in Ids, MutexHeld, [Next]_vars
  PROVE  MutexHeld'
<1>0. MaxProcesses \in Nat /\ FirstId \in Int /\ Ids \subseteq Int
  BY ProcessAssumption DEF FirstId, Ids
<1> USE DEF table_unchanged, runs_unchanged, at, Labels
<1>1. ASSUME NEW t \in Threads, Start(t) PROVE MutexHeld'
  <2>1. CASE CreateProcess(t)
    <3>1. nextProcessId + 1 \in Ids
      BY <1>0, <2>1 DEF CreateProcess, Ids
    <3> QED
      BY <2>1, <3>1, MutexCallerStep DEF CreateProcess
  <2>2. CASE Call(t)
    BY <2>2, MutexCallerStep DEF Call
  <2>3. CASE CallExecute(t)
    BY <2>3, MutexCallerStep DEF CallExecute
  <2>4. CASE ListProcesses(t)
    BY <2>4, MutexCallerStep DEF ListProcesses
  <2> QED
    BY <1>1, <2>1, <2>2, <2>3, <2>4 DEF Start
<1>2. ASSUME NEW t \in Threads, Continue(t) PROVE MutexHeld'
  <2>1. CASE ListEnds(t)
    BY <2>1, MutexCallerStep DEF ListEnds
  <2>2. CASE GetProcess(t)
    <3>1. PICK label \in {"check_idle", "check_running", "copy", "idle"} : goto(t, label)
      BY <2>2 DEF GetProcess
    <3> QED
      BY <2>2, <3>1, MutexCallerStep DEF GetProcess
  <2>3. CASE CreateProcessImpl(t) \/ AddProcess(t) \/ CopyInfo(t)
    BY <2>3, MutexCallerStep DEF CreateProcessImpl, AddProcess, CopyInfo
  <2>4. CASE CheckIdle(t) \/ CheckRunning(t)
    <3>1. PICK label \in {"idle", "mark", "clear"} : goto(t, label)
      BY <2>4 DEF CheckIdle, CheckRunning
    <3> QED
      BY <2>4, <3>1, MutexCallerStep DEF CheckIdle, CheckRunning
  <2>5. CASE MarkRunning(t) \/ SpawnWorker(t) \/ SpawnFails(t)
    BY <2>5, MutexCallerStep DEF MarkRunning, SpawnWorker, SpawnFails
  <2>6. CASE TerminateClears(t) \/ TerminateExits(t)
    BY <2>6, MutexCallerStep DEF TerminateClears, TerminateExits
  <2> QED
    BY <1>2, <2>1, <2>2, <2>3, <2>4, <2>5, <2>6 DEF Continue
<1>3. ASSUME NEW w \in Workers, Work(w) PROVE MutexHeld'
  BY <1>3 DEF Work, Wake, WorkerClears, WorkerExits, MutexHeld
<1>4. CASE UNCHANGED vars
  BY <1>4 DEF vars, MutexHeld
<1> QED
  BY <1>1, <1>2, <1>3, <1>4 DEF Next

\* Only a call of listProcesses that is about to give it back holds the mutex
\* (system_lib.hpp 72-103), which is what lets every waiter proceed in Ended.
THEOREM MutexBriefly == Spec => []MutexHeld
<1>1. Init => MutexHeld
  BY ProcessAssumption DEF Init, MutexHeld, at
<1>2. TypeOK => ThreadType /\ nextProcessId \in Ids
  BY Types
<1>3. TypeOK /\ MutexHeld /\ [Next]_vars => MutexHeld'
  BY <1>2, MutexStep
<1> QED
  BY TypeCorrect, <1>1, <1>3, PTL DEF Spec
=============================================================================
