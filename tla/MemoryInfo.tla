----------------------------- MODULE MemoryInfo -----------------------------
(***************************************************************************)
(* monitor_read_memory_usage (monitor.c): one pass over /proc/meminfo that *)
(* stops as soon as it knows the total and the available memory, and falls *)
(* back to free + buffers + cached when no available memory is given.      *)
(***************************************************************************)
EXTENDS Integers, Sequences

CONSTANTS
  Files,    \* the contents /proc/meminfo may have, as sequences of lines
  Sizes     \* the numbers of kB on those lines

Labels == {"MemTotal", "MemFree", "MemAvailable", "Buffers", "Cached", "Other"}

\* A line that fscanf cannot match ends the pass like the end of the file.
Unreadable == [label |-> "unreadable", kb |-> 0]

Lines == [label: Labels, kb: Sizes] \cup {Unreadable}

\* The labels that the code compares with.
Wanted == Labels \ {"Other"}

ASSUME FilesAssumption == Files \subseteq Seq(Lines) /\ Sizes \subseteq Nat

\* The kernel prints each of those lines once.
ASSUME OnceAssumption ==
  \A f \in Files : \A m, n \in 1..Len(f) :
    f[m].label = f[n].label /\ f[m].label \in Wanted => m = n

VARIABLES
  file,     \* the file; never assigned
  rest,     \* the lines not read yet
  kb,       \* the five local variables total_kb, available_kb, free_kb, ...
  usage,    \* *usage: the total and the used memory in kB
  status    \* the status returned, "NONE" before

vars == <<file, rest, kb, usage, status>>

Init ==
  /\ file \in Files
  /\ rest = file
  /\ kb = [label \in Labels |-> 0]
  /\ usage = [total |-> 0, used |-> 0]
  /\ status = "NONE"

\* fopen fails.
OpenFails ==
  /\ status = "NONE" /\ rest = file
  /\ status' = "IO_ERROR"
  /\ UNCHANGED <<file, rest, kb, usage>>

\* Mutant: the pass stops as soon as it knows one of the two.
known_one == kb["MemTotal"] > 0 \/ kb["MemAvailable"] > 0

\* `total_kb > 0 && available_kb > 0`: nothing more to learn.
known == kb["MemTotal"] > 0 /\ kb["MemAvailable"] > 0

readable == rest # <<>> /\ Head(rest) # Unreadable

ReadLine ==
  /\ status = "NONE"
  /\ ~known /\ readable
  /\ kb' = [kb EXCEPT ![Head(rest).label] = Head(rest).kb]
  /\ rest' = Tail(rest)
  /\ UNCHANGED <<file, usage, status>>

available ==
  IF kb["MemAvailable"] = 0 THEN kb["MemFree"] + kb["Buffers"] + kb["Cached"]
                            ELSE kb["MemAvailable"]

\* Mutant: more memory may be available than there is.
Finish_unchecked ==
  /\ status = "NONE"
  /\ known \/ ~readable
  /\ IF kb["MemTotal"] = 0 \/ available = 0
     THEN status' = "PARSE_ERROR" /\ UNCHANGED usage
     ELSE /\ status' = "OK"
          /\ usage' = [total |-> kb["MemTotal"], used |-> kb["MemTotal"] - available]
  /\ UNCHANGED <<file, rest, kb>>

Finish ==
  /\ status = "NONE"
  /\ known \/ ~readable
  /\ IF kb["MemTotal"] = 0 \/ available = 0 \/ available > kb["MemTotal"]
     THEN status' = "PARSE_ERROR" /\ UNCHANGED usage
     ELSE /\ status' = "OK"
          /\ usage' = [total |-> kb["MemTotal"], used |-> kb["MemTotal"] - available]
  /\ UNCHANGED <<file, rest, kb>>

Next == OpenFails \/ ReadLine \/ Finish

Spec == Init /\ [][Next]_vars

-----------------------------------------------------------------------------
TypeOK ==
  /\ file \in Seq(Lines)
  /\ rest \in Seq(Lines)
  /\ kb \in [Labels -> Sizes \cup {0}]
  /\ usage \in [total: Nat, used: Nat]
  /\ status \in {"NONE", "OK", "IO_ERROR", "PARSE_ERROR"}

\* What the file says, whatever the order of its lines: the number on the line
\* with a label, 0 if no such line comes before an unreadable one.

reachable == {n \in 1..Len(file) : \A m \in 1..n : file[m] # Unreadable}

value(label) ==
  IF \E n \in reachable : file[n].label = label
  THEN file[CHOOSE n \in reachable : file[n].label = label].kb
  ELSE 0

available_in_file ==
  IF value("MemAvailable") > 0 THEN value("MemAvailable")
  ELSE value("MemFree") + value("Buffers") + value("Cached")

\* The result does not depend on the order of the lines, although the pass stops
\* early (line 130) and the fallback needs the lines it may not have seen (line
\* 137): success and failure, the total and the used memory are those the whole
\* file implies.
AgreesWithFile ==
  status \in {"OK", "PARSE_ERROR"} =>
    IF available_in_file \in 1..value("MemTotal")
    THEN /\ status = "OK"
         /\ usage.total = value("MemTotal")
         /\ usage.used = value("MemTotal") - available_in_file
    ELSE status = "PARSE_ERROR"
=============================================================================
