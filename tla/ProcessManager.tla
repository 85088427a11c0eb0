--------------------------- MODULE ProcessManager ---------------------------
(***************************************************************************)
(* The process table of SystemLib (system_lib.hpp) and the calls of its    *)
(* API, made by several threads at once.  The map of processes is guarded  *)
(* by processMutex, the fields of a process are not: every read and write  *)
(* of one is a step of its own.  Executing a process starts a detached     *)
(* worker thread that marks it as ended 100 ms later.                      *)
(*                                                                         *)
(* removeProcess is not called by any operation of the API.                *)
(***************************************************************************)
EXTENDS Integers, FiniteSets

CONSTANTS
  Threads,        \* the callers of the API
  NoThread,       \* owner of the mutex when it is free
  MaxProcesses,   \* bound on the calls of createProcess that get an id
  MaxExecutions,  \* bound on the calls of executeProcess
  SpawnMayFail    \* may std::thread throw for want of resources?

ASSUME ProcessAssumption ==
  /\ NoThread \notin Threads
  /\ MaxProcesses \in Nat /\ MaxExecutions \in Nat
  /\ SpawnMayFail \in BOOLEAN

FirstId == 1000

\* The ids a caller may pass, one of which is never a process.
Ids == FirstId..FirstId + MaxProcesses

VARIABLES
  nextProcessId,   \* atomic counter; holds the id given last
  processes,       \* the ProcessInfo objects, by id
  processMutex,    \* the thread that holds it
  thread,          \* what each caller is doing, on which process
  worker,          \* what the worker of each execution is doing
  executions,      \* calls of executeProcess begun; names the workers
  terminated,      \* history: the processes terminated and not executed since
  unstarted        \* history: the processes whose worker could not be started

vars == <<nextProcessId, processes, processMutex, thread, worker, executions,
          terminated, unstarted>>

Workers == 1..MaxExecutions

Labels == {"idle", "create", "add", "execute", "check_idle", "mark", "spawn",
           "terminate", "check_running", "clear", "exit_code", "info", "copy",
           "list", "copy_all"}

Init ==
  /\ nextProcessId = FirstId
  /\ processes = [id \in {} |-> 0]
  /\ processMutex = NoThread
  /\ thread = [t \in Threads |-> [pc |-> "idle", id |-> FirstId]]
  /\ worker = [w \in Workers |-> [pc |-> "none", id |-> FirstId]]
  /\ executions = 0
  /\ terminated = {}
  /\ unstarted = {}

known(id) == id \in DOMAIN processes

goto(t, label) == thread' = [thread EXCEPT ![t].pc = label]

begin(t, label, id) == thread' = [thread EXCEPT ![t] = [pc |-> label, id |-> id]]

at(t, label) == thread[t].pc = label

\* Writes of a field of a process.
set_running(id, value) == processes' = [processes EXCEPT ![id].isRunning = value]

set_exit_code(id, value) == processes' = [processes EXCEPT ![id].exitCode = value]

table_unchanged == UNCHANGED <<nextProcessId, processes, processMutex>>

runs_unchanged == UNCHANGED <<worker, executions, terminated, unstarted>>

-----------------------------------------------------------------------------
\* Mutant: the counter is read but not written.
CreateProcess_lost_update(t) ==
  /\ at(t, "idle")
  /\ nextProcessId < FirstId + MaxProcesses
  /\ begin(t, "create", nextProcessId + 1)
  /\ table_unchanged /\ runs_unchanged

\* createProcess.  A command that isValidCommand refuses changes nothing.
CreateProcess(t) ==
  /\ at(t, "idle")
  /\ nextProcessId < FirstId + MaxProcesses
  /\ nextProcessId' = nextProcessId + 1
  /\ begin(t, "create", nextProcessId + 1)
  /\ UNCHANGED <<processes, processMutex>> /\ runs_unchanged

\* createProcessImpl: there must be a program to execute.  Otherwise the call
\* fails, and the id is not used again.
CreateProcessImpl(t) ==
  /\ at(t, "create")
  /\ goto(t, "add") \/ goto(t, "idle")
  /\ table_unchanged /\ runs_unchanged

\* Mutant: the exit code is not initialized.
AddProcess_uninitialized(t) ==
  /\ at(t, "add")
  /\ processMutex = NoThread
  /\ processes' = [id \in DOMAIN processes \cup {thread[t].id} |->
                     IF id = thread[t].id THEN [isRunning |-> FALSE, exitCode |-> 99]
                                          ELSE processes[id]]
  /\ goto(t, "idle")
  /\ UNCHANGED <<nextProcessId, processMutex>> /\ runs_unchanged

AddProcess(t) ==
  /\ at(t, "add")
  /\ processMutex = NoThread
  /\ processes' = [id \in DOMAIN processes \cup {thread[t].id} |->
                     IF id = thread[t].id THEN [isRunning |-> FALSE, exitCode |-> 0]
                                          ELSE processes[id]]
  /\ goto(t, "idle")
  /\ UNCHANGED <<nextProcessId, processMutex>> /\ runs_unchanged

\* The calls that start by looking up a process.
Call(t) ==
  /\ at(t, "idle")
  /\ \E id \in Ids, label \in {"terminate", "info"} : begin(t, label, id)
  /\ table_unchanged /\ runs_unchanged

CallExecute(t) ==
  /\ at(t, "idle")
  /\ executions < MaxExecutions
  /\ \E id \in Ids : begin(t, "execute", id)
  /\ executions' = executions + 1
  /\ table_unchanged /\ UNCHANGED <<worker, terminated, unstarted>>

\* Mutant: getProcessInfo does not test the pointer it gets.
GetProcess_untested(t) ==
  /\ processMutex = NoThread
  /\ \/ at(t, "execute") /\ goto(t, IF known(thread[t].id) THEN "check_idle" ELSE "idle")
     \/ at(t, "terminate") /\ goto(t, IF known(thread[t].id) THEN "check_running" ELSE "idle")
     \/ at(t, "info") /\ goto(t, "copy")
  /\ table_unchanged /\ runs_unchanged

\* getProcess; the call ends when the id is not known.
GetProcess(t) ==
  /\ processMutex = NoThread
  /\ \/ at(t, "execute") /\ goto(t, IF known(thread[t].id) THEN "check_idle" ELSE "idle")
     \/ at(t, "terminate") /\ goto(t, IF known(thread[t].id) THEN "check_running" ELSE "idle")
     \/ at(t, "info") /\ goto(t, IF known(thread[t].id) THEN "copy" ELSE "idle")
  /\ table_unchanged /\ runs_unchanged

-----------------------------------------------------------------------------
\* The rest of executeProcess: check, mark as running, start the worker.

CheckIdle(t) ==
  /\ at(t, "check_idle")
  /\ goto(t, IF processes[thread[t].id].isRunning THEN "idle" ELSE "mark")
  /\ table_unchanged /\ runs_unchanged

MarkRunning(t) ==
  /\ at(t, "mark")
  /\ set_running(thread[t].id, TRUE)
  /\ terminated' = terminated \ {thread[t].id}
  /\ unstarted' = unstarted \ {thread[t].id}
  /\ goto(t, "spawn")
  /\ UNCHANGED <<nextProcessId, processMutex, worker, executions>>

\* Mutant: the worker keeps a reference to the id, which is gone when it reads it.
SpawnWorker_by_reference(t) ==
  /\ at(t, "spawn")
  /\ \E w \in Workers, id \in Ids :
       /\ worker[w].pc = "none"
       /\ worker' = [worker EXCEPT ![w] = [pc |-> "asleep", id |-> id]]
  /\ goto(t, "idle")
  /\ table_unchanged /\ UNCHANGED <<executions, terminated, unstarted>>

SpawnWorker(t) ==
  /\ at(t, "spawn")
  /\ \E w \in Workers :
       /\ worker[w].pc = "none"
       /\ worker' = [worker EXCEPT ![w] = [pc |-> "asleep", id |-> thread[t].id]]
  /\ goto(t, "idle")
  /\ table_unchanged /\ UNCHANGED <<executions, terminated, unstarted>>

\* std::thread throws; nothing takes back isRunning.
SpawnFails(t) ==
  /\ at(t, "spawn")
  /\ SpawnMayFail
  /\ unstarted' = unstarted \cup {thread[t].id}
  /\ goto(t, "idle")
  /\ table_unchanged /\ UNCHANGED <<worker, executions, terminated>>

\* Mutant: the test of the pointer is inverted.
Wake_inverted(w) ==
  /\ worker[w].pc = "asleep"
  /\ processMutex = NoThread
  /\ worker' = [worker EXCEPT ![w].pc = IF known(worker[w].id) THEN "gone" ELSE "clear"]
  /\ table_unchanged /\ UNCHANGED <<thread, executions, terminated, unstarted>>

\* The worker: it wakes up, looks the process up, and marks it as ended.
Wake(w) ==
  /\ worker[w].pc = "asleep"
  /\ processMutex = NoThread
  /\ worker' = [worker EXCEPT ![w].pc = IF known(worker[w].id) THEN "clear" ELSE "gone"]
  /\ table_unchanged /\ UNCHANGED <<thread, executions, terminated, unstarted>>

WorkerClears(w) ==
  /\ worker[w].pc = "clear"
  /\ set_running(worker[w].id, FALSE)
  /\ worker' = [worker EXCEPT ![w].pc = "exit_code"]
  /\ UNCHANGED <<nextProcessId, processMutex, thread, executions, terminated, unstarted>>

WorkerExits(w) ==
  /\ worker[w].pc = "exit_code"
  /\ set_exit_code(worker[w].id, 0)
  /\ worker' = [worker EXCEPT ![w].pc = "gone"]
  /\ UNCHANGED <<nextProcessId, processMutex, thread, executions, terminated, unstarted>>

-----------------------------------------------------------------------------
\* The rest of terminateProcess: check, clear, set the exit code.

CheckRunning(t) ==
  /\ at(t, "check_running")
  /\ goto(t, IF processes[thread[t].id].isRunning THEN "clear" ELSE "idle")
  /\ table_unchanged /\ runs_unchanged

TerminateClears(t) ==
  /\ at(t, "clear")
  /\ set_running(thread[t].id, FALSE)
  /\ goto(t, "exit_code")
  /\ UNCHANGED <<nextProcessId, processMutex>> /\ runs_unchanged

TerminateExits(t) ==
  /\ at(t, "exit_code")
  /\ set_exit_code(thread[t].id, -1)
  /\ terminated' = terminated \cup {thread[t].id}
  /\ goto(t, "idle")
  /\ UNCHANGED <<nextProcessId, processMutex, worker, executions, unstarted>>

\* getProcessInfo copies the fields without the mutex, listProcesses those of
\* all processes with it.
CopyInfo(t) ==
  /\ at(t, "copy")
  /\ goto(t, "idle")
  /\ table_unchanged /\ runs_unchanged

ListProcesses(t) ==
  /\ at(t, "idle")
  /\ processMutex = NoThread
  /\ processMutex' = t
  /\ goto(t, "copy_all")
  /\ UNCHANGED <<nextProcessId, processes>> /\ runs_unchanged

ListEnds(t) ==
  /\ at(t, "copy_all")
  /\ processMutex' = NoThread
  /\ goto(t, "idle")
  /\ UNCHANGED <<nextProcessId, processes>> /\ runs_unchanged

-----------------------------------------------------------------------------
\* What a call in progress does next, and what starts a call.
Continue(t) ==
  \/ CreateProcessImpl(t) \/ AddProcess(t) \/ GetProcess(t)
  \/ CheckIdle(t) \/ MarkRunning(t) \/ SpawnWorker(t) \/ SpawnFails(t)
  \/ CheckRunning(t) \/ TerminateClears(t) \/ TerminateExits(t)
  \/ CopyInfo(t) \/ ListEnds(t)

Start(t) == CreateProcess(t) \/ Call(t) \/ CallExecute(t) \/ ListProcesses(t)

Work(w) == Wake(w) \/ WorkerClears(w) \/ WorkerExits(w)

Next == (\E t \in Threads : Start(t) \/ Continue(t)) \/ (\E w \in Workers : Work(w))

Spec == Init /\ [][Next]_vars

\* The system schedules every thread.  Nobody has to make a call, and nothing
\* is assumed of the order in which the mutex is granted.
Fairness ==
  /\ \A t \in Threads : WF_vars(Continue(t))
  /\ \A w \in Workers : WF_vars(Work(w))

FairSpec == Spec /\ Fairness

-----------------------------------------------------------------------------
TypeOK ==
  /\ nextProcessId \in Ids
  /\ DOMAIN processes \subseteq Ids
  /\ \A id \in DOMAIN processes :
       processes[id] \in [isRunning: BOOLEAN, exitCode: {0, -1}]
  /\ processMutex \in Threads \cup {NoThread}
  /\ thread \in [Threads -> [pc: Labels, id: Ids]]
  /\ worker \in [Workers -> [pc: {"none", "asleep", "clear", "exit_code", "gone"},
                             id: Ids]]
  /\ executions \in 0..MaxExecutions
  /\ terminated \subseteq DOMAIN processes
  /\ unstarted \subseteq DOMAIN processes

\* Ids are given once: no two calls of createProcess work on the same id, and
\* none on that of a process in the table, which addProcess would replace under
\* the pointers that other threads hold (lines 72-84, 210-220).
creating(t) == thread[t].pc \in {"create", "add"}

IdsUnique ==
  \A t \in Threads : creating(t) =>
    /\ ~known(thread[t].id)
    /\ \A u \in Threads \ {t} : creating(u) => thread[u].id # thread[t].id

\* The pointers that getProcess hands out stay good: a thread or worker past its
\* look-up works on a process of the table (lines 81-85, used at 232-276).
PointersGood ==
  /\ \A t \in Threads :
       thread[t].pc \in {"check_idle", "mark", "spawn", "check_running", "clear",
                         "exit_code", "copy"} => known(thread[t].id)
  /\ \A w \in Workers : worker[w].pc # "none" => known(worker[w].id)

\* A process marked as running has somebody who will mark it as ended, however
\* executions, terminations and workers overlap: a worker that has not done so,
\* or the call about to start one.  The exception is a failed start (line 241).
will_end(id) ==
  \/ id \in unstarted
  \/ \E t \in Threads : at(t, "spawn") /\ thread[t].id = id
  \/ \E w \in Workers : worker[w].pc \in {"asleep", "clear"} /\ worker[w].id = id

RunningEnds ==
  \A id \in DOMAIN processes : processes[id].isRunning => will_end(id)

\* So it does end if its worker could be started, unless listProcesses keeps
\* the worker from the mutex forever.
Ended ==
  <>[](processMutex = NoThread) =>
    \A id \in Ids :
      []<>(known(id) => ~processes[id].isRunning \/ id \in unstarted)

-----------------------------------------------------------------------------
\* Line 265 writes -1 with the comment "Terminated": until it is executed again
\* a terminated process has that exit code.
TerminatedKept == \A id \in terminated : processes[id].exitCode = -1

\* Line 233 says of a process that is "Already running" that there is nothing to
\* do: two calls do not both start it.
StartedOnce ==
  \A t, u \in Threads :
    /\ thread[t].pc \in {"mark", "spawn"} /\ thread[u].pc \in {"mark", "spawn"}
    /\ thread[t].id = thread[u].id
    => t = u
=============================================================================
