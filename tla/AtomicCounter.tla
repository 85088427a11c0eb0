---------------------------- MODULE AtomicCounter ----------------------------
(***************************************************************************)
(* What the threads of the thread processor and its window may take the    *)
(* shared counter for: each thread adds the amount it was started with, in *)
(* one step and once, and what is shown of it is a value that the counter  *)
(* had after that.  There is no mutex, and no handler that waits.          *)
(***************************************************************************)
EXTENDS Integers

CONSTANTS
  Threads, Amounts, InitialValue,
  Largest   \* the largest value of the counter; past it comes the smallest

VARIABLES
  value,   \* the counter
  stage,   \* how far each thread is
  given,   \* the amounts that a thread in progress may add: its own
  result,  \* what the threads return
  shown    \* the results shown

vars == <<value, stage, given, result, shown>>

sum(a, n) == ((a + n + Largest + 1) % (2 * Largest + 2)) - Largest - 1

Init ==
  /\ value = InitialValue
  /\ stage = [t \in Threads |-> "none"]
  /\ given = [t \in Threads |-> {}]
  /\ result = [t \in Threads |-> 0]
  /\ shown = {}

Begin(t) ==
  /\ stage[t] = "none" /\ stage' = [stage EXCEPT ![t] = "begun"]
  /\ \E n \in Amounts : given' = [given EXCEPT ![t] = {n}]
  /\ UNCHANGED <<value, result, shown>>

\* Who started the thread has taken its data away: it may add any amount.
TakeAway(t) ==
  /\ stage[t] = "begun" /\ given' = [given EXCEPT ![t] = Amounts]
  /\ UNCHANGED <<value, stage, result, shown>>

\* A thread that has added may still fail, and so may one that has not.
Add(t) ==
  /\ stage[t] = "begun"
  /\ \E n \in given[t] : value' = sum(value, n)
  /\ \E next \in {"added", "failed"} : stage' = [stage EXCEPT ![t] = next]
  /\ given' = [given EXCEPT ![t] = {}]
  /\ UNCHANGED <<result, shown>>

GiveUp(t) ==
  /\ stage[t] = "begun" /\ stage' = [stage EXCEPT ![t] = "failed"]
  /\ given' = [given EXCEPT ![t] = {}]
  /\ UNCHANGED <<value, result, shown>>

Return(t) ==
  /\ stage[t] = "added" /\ stage' = [stage EXCEPT ![t] = "returned"]
  /\ result' = [result EXCEPT ![t] = value]
  /\ UNCHANGED <<value, given, shown>>

\* A result is shown once.
Show(t) ==
  /\ stage[t] = "returned" /\ stage' = [stage EXCEPT ![t] = "joined"]
  /\ shown' = shown \cup {result[t]}
  /\ result' = [result EXCEPT ![t] = 0]
  /\ UNCHANGED <<value, given>>

Clear == shown' = {} /\ UNCHANGED <<value, stage, given, result>>

Next ==
  \/ \E t \in Threads :
       Begin(t) \/ TakeAway(t) \/ Add(t) \/ GiveUp(t) \/ Return(t) \/ Show(t)
  \/ Clear

Spec == Init /\ [][Next]_vars
=============================================================================
