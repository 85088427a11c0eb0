-------------------------- MODULE MemoryInfoProofs --------------------------
(***************************************************************************)
(* Proofs about MemoryInfo for all files in which each line of interest    *)
(* comes at most once: the pass may stop early, and its result is still    *)
(* the one that the whole file implies.                                    *)
(***************************************************************************)
EXTENDS MemoryInfo, TLAPS

-----------------------------------------------------------------------------
\* How many lines have been read.
Done == Len(file) - Len(rest)

\* rest is what follows them, and each of them could be read.
RestOK ==
  /\ file \in Files
  /\ Len(rest) <= Len(file)
  /\ \A n \in 1..Len(rest) : rest[n] = file[Done + n]
  /\ \A n \in 1..Done : file[n] # Unreadable

\* The locals hold the numbers of the lines read.
ReadAt(label, n) == file[n].label = label /\ kb[label] = file[n].kb

KbOK ==
  \A label \in Wanted :
    \/ \E n \in 1..Done : ReadAt(label, n)
    \/ kb[label] = 0 /\ \A n \in 1..Done : file[n].label # label

IInv == TypeOK /\ RestOK /\ KbOK /\ AgreesWithFile

LEMMA Types ==
  ASSUME TypeOK
  PROVE  /\ \A label \in Labels : kb[label] \in Nat
         /\ Len(file) \in Nat /\ Len(rest) \in Nat
         /\ {"MemTotal", "MemAvailable", "MemFree", "Buffers", "Cached"} \subseteq Labels
         /\ Wanted \subseteq Labels
         /\ {"MemTotal", "MemAvailable", "MemFree", "Buffers", "Cached"} \subseteq Wanted
<1>1. \A label \in Labels : kb[label] \in Nat
  <2>1. Sizes \cup {0} \subseteq Nat
    BY FilesAssumption
  <2> QED
    BY <2>1 DEF TypeOK
<1>2. Len(file) \in Nat /\ Len(rest) \in Nat
  BY DEF TypeOK
<1>3. /\ {"MemTotal", "MemAvailable", "MemFree", "Buffers", "Cached"} \subseteq Wanted
      /\ Wanted \subseteq Labels
  BY DEF Labels, Wanted
<1> QED
  BY <1>1, <1>2, <1>3

-----------------------------------------------------------------------------
\* What a file says of a label is on its only line with that label.
LEMMA ValueOfLine ==
  ASSUME file \in Files, Len(file) \in Nat, NEW label \in Wanted, NEW n \in reachable,
         file[n].label = label
  PROVE  value(label) = file[n].kb
<1> DEFINE c == CHOOSE m \in reachable : file[m].label = label
<1>1. c \in reachable /\ file[c].label = label
  OBVIOUS
<1>2. reachable \subseteq 1..Len(file)
  BY DEF reachable
<1> HIDE DEF c
<1>3. c = n
  BY <1>1, <1>2, OnceAssumption
<1>4. value(label) = file[c].kb
  BY DEF value, c
<1> QED
  BY <1>3, <1>4

\* The lines read are reachable, so what they say is what the file says.
LEMMA ValueRead ==
  ASSUME TypeOK, RestOK, KbOK, NEW label \in Wanted, kb[label] > 0
  PROVE  value(label) = kb[label]
<1>0. Len(file) \in Nat /\ Len(rest) \in Nat /\ file \in Files
  BY Types DEF RestOK
<1>1. PICK n \in 1..Done : ReadAt(label, n)
  BY DEF KbOK
<1>2. n \in reachable
  BY <1>0 DEF reachable, RestOK, Done
<1>3. value(label) = file[n].kb
  BY <1>0, <1>1, <1>2, ValueOfLine DEF ReadAt
<1> QED
  BY <1>1, <1>3 DEF ReadAt

\* When the pass could not go on, that holds of all labels.
LEMMA ValueAtEnd ==
  ASSUME TypeOK, RestOK, KbOK, NEW label \in Wanted, ~readable
  PROVE  value(label) = kb[label]
<1>0. /\ Len(file) \in Nat /\ Len(rest) \in Nat /\ file \in Files
      /\ rest \in Seq(Lines)
  BY Types DEF RestOK, TypeOK
<1>1. reachable = 1..Done
  <2>1. \A n \in 1..Done : n \in reachable
    BY <1>0 DEF reachable, RestOK, Done
  <2>2. ASSUME NEW n \in reachable PROVE n \in 1..Done
    <3>1. n \in 1..Len(file) /\ \A m \in 1..n : file[m] # Unreadable
      BY DEF reachable
    <3>2. CASE rest = <<>>
      BY <1>0, <3>1, <3>2 DEF Done
    <3>3. CASE rest # <<>>
      <4>1. rest[1] = Unreadable /\ 1 \in 1..Len(rest)
        BY <1>0, <3>3 DEF readable
      <4>2. file[Done + 1] = Unreadable
        BY <4>1 DEF RestOK
      <4>3. Done \in Nat
        BY <1>0 DEF Done, RestOK
      <4> QED
        BY <3>1, <4>2, <4>3
    <3> QED
      BY <3>2, <3>3
  <2> QED
    BY <2>1, <2>2
<1>2. CASE \E n \in 1..Done : ReadAt(label, n)
  <2>1. PICK n \in 1..Done : ReadAt(label, n)
    BY <1>2
  <2>2. value(label) = file[n].kb
    BY <1>0, <1>1, <2>1, ValueOfLine DEF ReadAt
  <2> QED
    BY <2>1, <2>2 DEF ReadAt
<1>3. CASE kb[label] = 0 /\ \A n \in 1..Done : file[n].label # label
  BY <1>1, <1>3 DEF value
<1> QED
  BY <1>2, <1>3 DEF KbOK

\* Whichever way the pass ends, it has the total and the available memory.
LEMMA AvailableRead ==
  ASSUME TypeOK, RestOK, KbOK, known \/ ~readable
  PROVE  value("MemTotal") = kb["MemTotal"] /\ available_in_file = available
<1>0. /\ {"MemTotal", "MemAvailable", "MemFree", "Buffers", "Cached"} \subseteq Wanted
      /\ kb["MemAvailable"] \in Nat
  BY Types
<1>1. CASE known
  BY <1>0, <1>1, ValueRead DEF known, available, available_in_file
<1>2. CASE ~readable
  BY <1>0, <1>2, ValueAtEnd DEF available, available_in_file
<1> QED
  BY <1>1, <1>2

-----------------------------------------------------------------------------
LEMMA ReadLineStep == ASSUME IInv, ReadLine PROVE IInv'
<1>0. /\ Len(file) \in Nat /\ Len(rest) \in Nat /\ file \in Seq(Lines)
      /\ rest \in Seq(Lines) /\ rest # <<>> /\ Head(rest) # Unreadable
      /\ rest' = Tail(rest) /\ UNCHANGED <<file, usage, status>>
      /\ kb' = [kb EXCEPT ![Head(rest).label] = Head(rest).kb]
      /\ kb \in [Labels -> Sizes \cup {0}]
  BY Types DEF IInv, TypeOK, ReadLine, readable
<1> DEFINE line == Head(rest)
<1>1. /\ line.label \in Labels /\ line.kb \in Sizes
      /\ line = rest[1] /\ 1 \in 1..Len(rest)
  <2>1. line \in Lines /\ line = rest[1] /\ 1 \in 1..Len(rest)
    BY <1>0
  <2>2. line \in [label: Labels, kb: Sizes]
    BY <1>0, <2>1 DEF Lines
  <2> QED
    BY <2>1, <2>2
<1>2. /\ Len(rest') = Len(rest) - 1 /\ rest' \in Seq(Lines)
      /\ \A n \in 1..Len(rest') : rest'[n] = rest[n + 1]
  BY <1>0
<1>3. Done' = Done + 1 /\ Done \in Nat /\ line = file[Done + 1]
  BY <1>0, <1>1, <1>2 DEF Done, IInv, RestOK
<1> HIDE DEF line
<1>4. TypeOK'
  BY <1>0, <1>1, <1>2 DEF IInv, TypeOK, line
<1>5. RestOK'
  <2>1. ASSUME NEW n \in 1..Len(rest') PROVE rest'[n] = file[Done' + n]
    <3>1. n + 1 \in 1..Len(rest) /\ rest'[n] = rest[n + 1]
      BY <1>0, <1>2
    <3>2. rest[n + 1] = file[Done + (n + 1)]
      BY <3>1 DEF IInv, RestOK
    <3> QED
      BY <1>3, <3>1, <3>2
  <2>2. ASSUME NEW n \in 1..Done' PROVE file[n] # Unreadable
    <3>1. n \in 1..Done \/ n = Done + 1
      BY <1>3
    <3> QED
      BY <1>0, <1>3, <3>1 DEF IInv, RestOK, line
  <2>3. file \in Files /\ Len(rest') <= Len(file)
    BY <1>0, <1>2 DEF IInv, RestOK
  <2> QED
    BY <1>0, <2>1, <2>2, <2>3 DEF RestOK
<1>6. KbOK'
  <2> SUFFICES ASSUME NEW label \in Wanted
               PROVE  \/ \E n \in 1..Done' : file[n].label = label /\ kb'[label] = file[n].kb
                      \/ kb'[label] = 0 /\ \A n \in 1..Done' : file[n].label # label
    BY <1>0 DEF KbOK, ReadAt
  <2>1. label \in Labels
    BY DEF Wanted
  <2>2. CASE line.label = label
    <3>1. kb'[label] = file[Done + 1].kb /\ file[Done + 1].label = label
      BY <1>0, <1>3, <2>1, <2>2 DEF line
    <3> QED
      BY <1>3, <3>1
  <2>3. CASE line.label # label
    <3>1. kb'[label] = kb[label]
      BY <1>0, <2>1, <2>3 DEF line
    <3>2. \A n \in 1..Done' : n \in 1..Done \/ n = Done + 1
      BY <1>3
    <3>3. 1..Done \subseteq 1..Done'
      BY <1>3
    <3> QED
      BY <1>3, <2>3, <3>1, <3>2, <3>3 DEF IInv, KbOK, ReadAt
  <2> QED
    BY <2>2, <2>3
<1>7. AgreesWithFile'
  BY <1>0 DEF AgreesWithFile, ReadLine
<1> QED
  BY <1>4, <1>5, <1>6, <1>7 DEF IInv

\* The end of the pass: fewer lines may be known than the file has.
LEMMA FinishStep == ASSUME IInv, Finish PROVE IInv'
<1>0. /\ TypeOK /\ RestOK /\ KbOK /\ (known \/ ~readable)
      /\ UNCHANGED <<file, rest, kb>>
  BY DEF IInv, Finish
<1>1. value("MemTotal") = kb["MemTotal"] /\ available_in_file = available
  BY <1>0, AvailableRead
<1>2. kb["MemTotal"] \in Nat /\ available \in Nat
  BY <1>0, Types DEF available
<1> DEFINE total == kb["MemTotal"]
<1>3. \/ /\ total = 0 \/ available = 0 \/ available > total
         /\ status' = "PARSE_ERROR" /\ UNCHANGED usage
      \/ /\ ~(total = 0 \/ available = 0 \/ available > total)
         /\ status' = "OK"
         /\ usage' = [total |-> total, used |-> total - available]
  BY DEF Finish
<1>4. TypeOK'
  BY <1>0, <1>2, <1>3 DEF TypeOK
<1>5. RestOK' /\ KbOK'
  BY <1>0 DEF RestOK, KbOK, ReadAt, Done
<1>6. value("MemTotal")' = value("MemTotal") /\ available_in_file' = available_in_file
  BY <1>0 DEF value, reachable, available_in_file
<1>7. AgreesWithFile'
  <2>1. CASE available \in 1..total
    <3>1. status' = "OK" /\ usage'.total = total /\ usage'.used = total - available
      BY <1>2, <1>3, <2>1
    <3> QED
      BY <1>1, <1>6, <2>1, <3>1 DEF AgreesWithFile
  <2>2. CASE available \notin 1..total
    <3>1. status' = "PARSE_ERROR"
      BY <1>2, <1>3, <2>2
    <3> QED
      BY <1>1, <1>6, <2>2, <3>1 DEF AgreesWithFile
  <2> QED
    BY <2>1, <2>2
<1> QED
  BY <1>4, <1>5, <1>7 DEF IInv

LEMMA OpenFailsStep == ASSUME IInv, OpenFails PROVE IInv'
<1>1. UNCHANGED <<file, rest, kb, usage>> /\ status' = "IO_ERROR"
  BY DEF OpenFails
<1>2. TypeOK' /\ AgreesWithFile'
  BY <1>1 DEF IInv, TypeOK, AgreesWithFile
<1>3. RestOK' /\ KbOK'
  BY <1>1 DEF IInv, RestOK, KbOK, ReadAt, Done
<1> QED
  BY <1>2, <1>3 DEF IInv

LEMMA InitIInv == Init => IInv
<1> SUFFICES ASSUME Init PROVE IInv
  OBVIOUS
<1>0. /\ file \in Files /\ rest = file /\ file \in Seq(Lines)
      /\ kb = [label \in Labels |-> 0] /\ status = "NONE"
  BY FilesAssumption DEF Init
<1>1. TypeOK
  BY <1>0 DEF Init, TypeOK
<1>2. Done = 0 /\ Len(file) \in Nat
  BY <1>0 DEF Done
<1>3. RestOK
  BY <1>0, <1>2 DEF RestOK
<1>4. KbOK
  BY <1>0, <1>2 DEF KbOK, Wanted
<1>5. AgreesWithFile
  BY <1>0 DEF AgreesWithFile
<1> QED
  BY <1>1, <1>3, <1>4, <1>5 DEF IInv

LEMMA StutterStep == IInv /\ UNCHANGED vars => IInv'
<1> SUFFICES ASSUME IInv, UNCHANGED vars PROVE IInv'
  OBVIOUS
<1>1. TypeOK' /\ RestOK' /\ KbOK'
  BY DEF vars, IInv, TypeOK, RestOK, KbOK, ReadAt, Done
<1>2. AgreesWithFile'
  BY DEF vars, IInv, AgreesWithFile, available_in_file, value, reachable
<1> QED
  BY <1>1, <1>2 DEF IInv

\* The invariant holds in every reachable state.
THEOREM Invariance == Spec => []IInv
<1>1. IInv /\ [Next]_vars => IInv'
  BY OpenFailsStep, ReadLineStep, FinishStep, StutterStep DEF Next
<1> QED
  BY InitIInv, <1>1, PTL DEF Spec

\* Every variable keeps its type; the used memory is never negative.
THEOREM TypeCorrect == Spec => []TypeOK
<1>1. IInv => TypeOK
  BY DEF IInv
<1> QED
  BY Invariance, <1>1, PTL

\* The result is the one that the whole file implies, in whatever order its lines
\* come and wherever the pass stops (monitor.c 117-143).
THEOREM Agrees == Spec => []AgreesWithFile
<1>1. IInv => AgreesWithFile
  BY DEF IInv
<1> QED
  BY Invariance, <1>1, PTL
=============================================================================
