----------------------------- MODULE SamplingJob -----------------------------
(***************************************************************************)
(* What a monitoring session promises, without saying how: a job takes     *)
(* samples one interval apart until it has taken job.iterations of them or, *)
(* when iterations is 0, until job.duration_ms have passed.  It may be cut *)
(* short by an error, but only a complete job succeeds.  Session refines   *)
(* this specification.                                                     *)
(***************************************************************************)
EXTENDS Integers

CONSTANT Jobs     \* records with fields interval_ms, duration_ms and iterations

VARIABLES
  job,     \* the job being done
  clock,   \* the time
  phase,   \* "new", "active", "succeeded" or "failed"
  began,   \* when a timed job became active
  taken,   \* samples taken so far
  last     \* when the last of them was taken

vars == <<job, clock, phase, began, taken, last>>

timed == job.iterations = 0

over == timed /\ clock >= began + job.duration_ms

Init ==
  /\ job \in Jobs
  /\ clock \in Nat
  /\ phase = "new"
  /\ began = 0 /\ taken = 0 /\ last = 0

Begin ==
  /\ phase = "new"
  /\ phase' = "active"
  /\ began' = IF timed THEN clock ELSE began
  /\ UNCHANGED <<job, clock, taken, last>>

\* Samples are an interval apart.  The only one that may come sooner, or after
\* the time is over, is the last one of a timed job.
Take ==
  /\ phase = "active"
  /\ IF timed
     THEN taken > 0 => last < began + job.duration_ms
     ELSE taken < job.iterations
  /\ taken > 0 => clock >= last + job.interval_ms \/ over
  /\ taken' = taken + 1
  /\ last' = clock
  /\ UNCHANGED <<job, clock, phase, began>>

Succeed ==
  /\ phase = "active"
  /\ IF timed THEN over ELSE taken = job.iterations
  /\ phase' = "succeeded"
  /\ UNCHANGED <<job, clock, began, taken, last>>

Fail ==
  /\ phase \in {"new", "active"}
  /\ phase' = "failed"
  /\ UNCHANGED <<job, clock, began, taken, last>>

Tick ==
  /\ phase \in {"new", "active"}
  /\ clock' \in Nat /\ clock' > clock
  /\ UNCHANGED <<job, phase, began, taken, last>>

Next == Begin \/ Take \/ Succeed \/ Fail \/ Tick

Spec == Init /\ [][Next]_vars
=============================================================================
