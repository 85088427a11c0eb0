-------------------------- MODULE TestHarnessProofs --------------------------
(***************************************************************************)
(* Proofs about TestHarness for suites of any length, any tests and any    *)
(* heap: the counters of the framework agree with what has happened, and   *)
(* the counter of bytes with what is allocated.  The bytes are a set of    *)
(* which a call adds or takes a block's share, so that no sum over the     *)
(* heap is needed.                                                         *)
(***************************************************************************)
EXTENDS TestHarness, FiniteSetTheorems, TLAPS

\* Each test that was started is counted once when it is over, as failed if an
\* assertion ended it; the end of the suite looks at those counts.
CountsOK ==
  /\ pc = "suite" => tests_passed + tests_failed = started
  /\ pc = "test" => tests_passed + tests_failed = started - 1
  /\ tests_failed = 0 <=> aborted = {}
  /\ pc # "exited" => exit_code = "NONE"
  /\ exit_code = "SUCCESS" => started = TestCount /\ tests_failed = 0
                                /\ tests_passed = TestCount

\* The counter is the number of counted bytes, of which there are only finitely
\* many; a leak that ended the program is one of them.
BytesOK ==
  /\ IsFiniteSet(counted_bytes)
  /\ CounterExact
  /\ FailureHasReason

Counted == TypeOK /\ CountsOK

IInv == Counted /\ BytesOK

-----------------------------------------------------------------------------
LEMMA InitCounted == Init => Counted
<1> SUFFICES ASSUME Init PROVE Counted
  OBVIOUS
<1>1. DOMAIN heap = {}
  BY DEF Init
<1>2. TestCount \in Nat /\ MaxCalls \in Nat
  BY HarnessAssumption
<1>3. TypeOK
  <2>1. /\ pc = "suite" /\ started = 0 /\ calls = 0
        /\ tests_passed = 0 /\ tests_failed = 0
        /\ allocated_bytes = 0 /\ tracking_enabled = FALSE /\ mixed = FALSE
        /\ mine = {} /\ aborted = {} /\ exit_code = "NONE"
    BY DEF Init
  <2>2. started \in 0..TestCount /\ calls \in 0..MaxCalls
    BY <1>2, <2>1
  <2>3. \A b \in DOMAIN heap : heap[b] \in [size: Sizes, counted: BOOLEAN]
    BY <1>1
  <2>4. DOMAIN heap \subseteq Blocks /\ mine \subseteq DOMAIN heap
    BY <1>1, <2>1
  <2> QED
    BY <2>1, <2>2, <2>3, <2>4 DEF TypeOK
<1>4. CountsOK
  BY <1>2 DEF Init, CountsOK
<1> QED
  BY <1>3, <1>4 DEF Counted

\* A call of a test changes the memory, and the program's end if it is one.
LEMMA CallsCounted == ASSUME Counted, Calls PROVE Counted'
<1>0. /\ MaxCalls \in Nat /\ calls \in 0..MaxCalls /\ Sizes \subseteq Nat \ {0}
      /\ allocated_bytes \in Nat
  BY HarnessAssumption DEF Counted, TypeOK
<1>1. /\ pc = "test" /\ calls' \in 0..MaxCalls
      /\ UNCHANGED <<started, tests_passed, tests_failed, aborted>>
      /\ \/ UNCHANGED <<pc, exit_code>>
         \/ pc' = "exited" /\ exit_code' = "FAILURE"
  BY <1>0 DEF Calls, enable_memory_tracking, disable_memory_tracking, SetTracking,
     test_malloc, test_free, check_for_leaks, call, test_unchanged, exit
<1>2. CountsOK'
  BY <1>1 DEF Counted, CountsOK
<1>3. /\ allocated_bytes' \in Nat /\ tracking_enabled' \in BOOLEAN
      /\ DOMAIN heap' \subseteq Blocks
      /\ \A b \in DOMAIN heap' : heap'[b] \in [size: Sizes, counted: BOOLEAN]
      /\ mine' \subseteq DOMAIN heap'
      /\ mixed' \in BOOLEAN
  <2>0. /\ tracking_enabled \in BOOLEAN /\ mixed \in BOOLEAN
        /\ DOMAIN heap \subseteq Blocks
        /\ \A b \in DOMAIN heap : heap[b] \in [size: Sizes, counted: BOOLEAN]
        /\ mine \subseteq DOMAIN heap
    BY DEF Counted, TypeOK
  <2>1. CASE \E enabled \in BOOLEAN : SetTracking(enabled)
    BY <1>0, <2>0, <2>1 DEF SetTracking
  <2>2. CASE test_malloc
    <3>1. CASE UNCHANGED <<allocated_bytes, heap, mine>>
      BY <1>0, <2>0, <2>2, <3>1 DEF test_malloc
    <3>2. CASE ~UNCHANGED <<allocated_bytes, heap, mine>>
      <4>1. PICK size \in Sizes, b \in Blocks \ DOMAIN heap :
              /\ heap' = [c \in DOMAIN heap \cup {b} |->
                            IF c = b THEN [size |-> size, counted |-> tracking_enabled]
                                     ELSE heap[c]]
              /\ mine' = mine \cup {b}
              /\ allocated_bytes' = IF tracking_enabled THEN allocated_bytes + size
                                                        ELSE allocated_bytes
        BY <2>2, <3>2 DEF test_malloc
      <4>2. UNCHANGED <<tracking_enabled, mixed>>
        BY <2>2 DEF test_malloc
      <4>3. allocated_bytes' \in Nat
        BY <1>0, <4>1
      <4>4. DOMAIN heap' = DOMAIN heap \cup {b}
        BY <4>1
      <4>5. \A c \in DOMAIN heap' : heap'[c] \in [size: Sizes, counted: BOOLEAN]
        BY <2>0, <4>1, <4>4
      <4> QED
        BY <2>0, <4>1, <4>2, <4>3, <4>4, <4>5
    <3> QED
      BY <3>1, <3>2
  <2>3. CASE test_free
    <3>1. PICK b \in mine :
            /\ heap' = [c \in DOMAIN heap \ {b} |-> heap[c]]
            /\ mine' = mine \ {b}
            /\ allocated_bytes' = IF tracking_enabled THEN less(heap[b].size)
                                                      ELSE allocated_bytes
            /\ mixed' = (mixed \/ heap[b].counted # tracking_enabled)
      BY <2>3 DEF test_free
    <3>2. UNCHANGED tracking_enabled
      BY <2>3 DEF test_free
    <3>3. heap[b].size \in Nat
      BY <1>0, <2>0, <3>1
    <3>4. allocated_bytes' \in Nat
      BY <1>0, <3>1, <3>3 DEF less
    <3>5. DOMAIN heap' = DOMAIN heap \ {b}
      BY <3>1
    <3>6. \A c \in DOMAIN heap' : heap'[c] \in [size: Sizes, counted: BOOLEAN]
      BY <2>0, <3>1, <3>5
    <3>7. mixed' \in BOOLEAN
      BY <3>1, Zenon
    <3> QED
      BY <2>0, <3>1, <3>2, <3>4, <3>5, <3>6, <3>7
  <2>4. CASE check_for_leaks
    BY <1>0, <2>0, <2>4 DEF check_for_leaks, memory
  <2> QED
    BY <2>1, <2>2, <2>3, <2>4 DEF Calls, enable_memory_tracking, disable_memory_tracking
<1> QED
  BY <1>1, <1>2, <1>3 DEF Counted, TypeOK

\* The suite leaves the memory as the test left it.
LEMMA SuiteCounted == ASSUME Counted, run_test_suite PROVE Counted'
<1>0. /\ TestCount \in Nat /\ MaxCalls \in Nat /\ started \in 0..TestCount
      /\ tests_passed \in Nat /\ tests_failed \in Nat
  BY HarnessAssumption DEF Counted, TypeOK
<1>1. UNCHANGED memory /\ (UNCHANGED mine \/ mine' = {})
  BY DEF run_test_suite, StartTest, AssertionFails, TestReturns, SuiteEnds
<1>2. CASE StartTest
  BY <1>0, <1>1, <1>2 DEF StartTest, memory, Counted, TypeOK, CountsOK
<1>3. CASE AssertionFails
  <2>1. started \in 1..TestCount
    BY <1>0, <1>3 DEF AssertionFails, Counted, CountsOK
  <2> QED
    BY <1>0, <1>1, <1>3, <2>1 DEF AssertionFails, memory, Counted, TypeOK, CountsOK
<1>4. CASE TestReturns
  BY <1>0, <1>1, <1>4 DEF TestReturns, memory, Counted, TypeOK, CountsOK
<1>5. CASE SuiteEnds
  BY <1>0, <1>1, <1>5 DEF SuiteEnds, exit, memory, Counted, TypeOK, CountsOK
<1> QED
  BY <1>2, <1>3, <1>4, <1>5 DEF run_test_suite

-----------------------------------------------------------------------------
\* A block has as many bytes as its size says.
LEMMA BlockBytes ==
  ASSUME NEW b, NEW size \in Nat
  PROVE  /\ IsFiniteSet({b} \X (1..size))
         /\ Cardinality({b} \X (1..size)) = size
<1>1. IsFiniteSet(1..size) /\ Cardinality(1..size) = size
  BY FS_Interval
<1>2. IsFiniteSet({b}) /\ Cardinality({b}) = 1
  BY FS_Singleton
<1> QED
  BY <1>1, <1>2, FS_Product

\* The bytes of the counted blocks, one by one.
LEMMA BytesOfBlocks ==
  /\ \A x : x \in counted_bytes <=>
              \E c \in counted_blocks : x \in {c} \X (1..heap[c].size)
  /\ \A x : x \in counted_bytes' <=>
              \E c \in counted_blocks' : x \in {c} \X (1..heap'[c].size)
<1>1. \A x : x \in counted_bytes <=>
               \E c \in counted_blocks : x \in {c} \X (1..heap[c].size)
  BY Zenon DEF counted_bytes
<1>2. \A x : x \in counted_bytes' <=>
               \E c \in counted_blocks' : x \in {c} \X (1..heap'[c].size)
  BY Zenon DEF counted_bytes
<1> QED
  BY <1>1, <1>2, Zenon

\* What heap says of its blocks decides which bytes are counted.
LEMMA BytesUnchanged ==
  ASSUME UNCHANGED heap
  PROVE  counted_bytes' = counted_bytes /\ counted_blocks' = counted_blocks
BY DEF counted_bytes, counted_blocks

\* An allocated block adds its bytes if it is counted, and nothing if it is not.
LEMMA MallocBytes ==
  ASSUME Counted, IsFiniteSet(counted_bytes),
         NEW size \in Sizes, NEW b \in Blocks \ DOMAIN heap,
         heap' = [c \in DOMAIN heap \cup {b} |->
                    IF c = b THEN [size |-> size, counted |-> tracking_enabled]
                             ELSE heap[c]]
  PROVE  /\ IsFiniteSet(counted_bytes')
         /\ Cardinality(counted_bytes') =
              Cardinality(counted_bytes) + (IF tracking_enabled THEN size ELSE 0)
<1> DEFINE block == {b} \X (1..size)
<1>0. size \in Nat /\ tracking_enabled \in BOOLEAN
  BY HarnessAssumption DEF Counted, TypeOK
<1>1. /\ DOMAIN heap' = DOMAIN heap \cup {b}
      /\ heap'[b] = [size |-> size, counted |-> tracking_enabled]
      /\ \A c \in DOMAIN heap : heap'[c] = heap[c]
  OBVIOUS
<1>2. CASE tracking_enabled
  <2>1. counted_blocks' = counted_blocks \cup {b}
    BY <1>1, <1>2 DEF counted_blocks
  <2>2. counted_bytes' = counted_bytes \cup block
    <3>1. \A c \in counted_blocks : heap'[c] = heap[c]
      BY <1>1 DEF counted_blocks
    <3>2. heap'[b].size = size
      BY <1>1
    <3>3. ASSUME NEW x PROVE x \in counted_bytes' <=> x \in counted_bytes \/ x \in block
      BY <2>1, <3>1, <3>2, BytesOfBlocks, Zenon
    <3> HIDE DEF block
    <3> QED
      BY <3>3
  <2>3. counted_bytes \cap block = {}
    <3>1. b \notin counted_blocks
      BY DEF counted_blocks
    <3>2. ASSUME NEW x \in counted_bytes, x \in block PROVE FALSE
      BY <3>1, <3>2, BytesOfBlocks
    <3> HIDE DEF block
    <3> QED
      BY <3>2
  <2>4. /\ IsFiniteSet(block) /\ Cardinality(block) = size
        /\ Cardinality(counted_bytes) \in Nat /\ Cardinality({}) = 0
    BY <1>0, BlockBytes, FS_CardinalityType, FS_EmptySet
  <2> HIDE DEF block
  <2>5. /\ IsFiniteSet(counted_bytes \cup block)
        /\ Cardinality(counted_bytes \cup block) =
             Cardinality(counted_bytes) + Cardinality(block)
               - Cardinality(counted_bytes \cap block)
    BY <2>4, FS_Union
  <2>6. Cardinality(counted_bytes \cap block) = 0
    BY <2>3, <2>4, Zenon
  <2>7. Cardinality(counted_bytes \cup block) = Cardinality(counted_bytes) + size
    BY <1>0, <2>4, <2>5, <2>6
  <2> QED
    BY <1>2, <2>2, <2>5, <2>7
<1>3. CASE ~tracking_enabled
  <2>1. counted_blocks' = counted_blocks
    BY <1>1, <1>3 DEF counted_blocks
  <2>2. counted_bytes' = counted_bytes
    <3>1. \A c \in counted_blocks : heap'[c] = heap[c]
      BY <1>1 DEF counted_blocks
    <3>2. ASSUME NEW x PROVE x \in counted_bytes' <=> x \in counted_bytes
      BY <2>1, <3>1, BytesOfBlocks, Zenon
    <3> QED
      BY <3>2
  <2>3. Cardinality(counted_bytes) \in Nat
    BY FS_CardinalityType
  <2> QED
    BY <1>3, <2>2, <2>3
<1> QED
  BY <1>0, <1>2, <1>3

\* A block that is freed takes its bytes away, of which there were enough.
LEMMA FreeBytes ==
  ASSUME Counted, IsFiniteSet(counted_bytes),
         NEW b \in mine,
         heap' = [c \in DOMAIN heap \ {b} |-> heap[c]]
  PROVE  /\ IsFiniteSet(counted_bytes')
         /\ heap[b].counted =>
              /\ heap[b].size <= Cardinality(counted_bytes)
              /\ Cardinality(counted_bytes') =
                   Cardinality(counted_bytes) - heap[b].size
         /\ ~heap[b].counted => counted_bytes' = counted_bytes
<1> DEFINE block == {b} \X (1..heap[b].size)
<1>0. b \in DOMAIN heap /\ heap[b].size \in Nat
  BY HarnessAssumption DEF Counted, TypeOK
<1>1. /\ DOMAIN heap' = DOMAIN heap \ {b}
      /\ \A c \in DOMAIN heap' : heap'[c] = heap[c]
  OBVIOUS
<1>2. counted_blocks' = counted_blocks \ {b}
  BY <1>1 DEF counted_blocks
<1>3. \A x : x \in counted_bytes' <=>
               \E c \in counted_blocks \ {b} : x \in {c} \X (1..heap[c].size)
  <2>1. \A c \in counted_blocks \ {b} : heap'[c] = heap[c]
    BY <1>1 DEF counted_blocks
  <2> QED
    BY <1>2, <2>1, BytesOfBlocks, Zenon
<1>4. CASE heap[b].counted
  <2>1. b \in counted_blocks
    BY <1>0, <1>4 DEF counted_blocks
  <2>2. counted_bytes' = counted_bytes \ block /\ block \subseteq counted_bytes
    <3>1. ASSUME NEW x
          PROVE  /\ x \in counted_bytes' <=> x \in counted_bytes /\ x \notin block
                 /\ x \in block => x \in counted_bytes
      BY <1>3, <2>1, BytesOfBlocks
    <3> HIDE DEF block
    <3> QED
      BY <3>1
  <2>3. /\ IsFiniteSet(block) /\ Cardinality(block) = heap[b].size
        /\ Cardinality(counted_bytes) \in Nat
    BY <1>0, BlockBytes, FS_CardinalityType
  <2> HIDE DEF block
  <2>4. counted_bytes \cap block = block
    BY <2>2
  <2>5. /\ IsFiniteSet(counted_bytes \ block)
        /\ Cardinality(counted_bytes \ block) =
             Cardinality(counted_bytes) - Cardinality(counted_bytes \cap block)
    BY FS_Difference
  <2>6. Cardinality(block) <= Cardinality(counted_bytes)
    BY <2>2, FS_Subset
  <2> QED
    BY <1>4, <2>2, <2>3, <2>4, <2>5, <2>6
<1>5. CASE ~heap[b].counted
  <2>1. counted_blocks \ {b} = counted_blocks
    BY <1>5 DEF counted_blocks
  <2>2. counted_bytes' = counted_bytes
    BY <1>3, <2>1, BytesOfBlocks
  <2> QED
    BY <1>5, <2>2
<1> QED
  BY <1>4, <1>5

LEMMA InitBytes == Init => BytesOK
<1> SUFFICES ASSUME Init PROVE BytesOK
  OBVIOUS
<1>1. DOMAIN heap = {} /\ allocated_bytes = 0 /\ exit_code = "NONE"
  BY DEF Init
<1>2. counted_bytes = {}
  BY <1>1 DEF counted_bytes, counted_blocks
<1> QED
  BY <1>1, <1>2, FS_EmptySet DEF BytesOK, CounterExact, FailureHasReason

\* Each call leaves the counter exact or the history of the settings mixed.
LEMMA CallsBytes == ASSUME Counted, BytesOK, Calls PROVE BytesOK'
<1>0. /\ pc = "test" /\ exit_code = "NONE" /\ IsFiniteSet(counted_bytes)
      /\ Cardinality(counted_bytes) \in Nat
      /\ allocated_bytes \in Nat /\ tracking_enabled \in BOOLEAN /\ mixed \in BOOLEAN
      /\ Sizes \subseteq Nat \ {0}
  BY HarnessAssumption, FS_CardinalityType DEF Calls, enable_memory_tracking,
     disable_memory_tracking, SetTracking, test_malloc, test_free, check_for_leaks,
     call, Counted, TypeOK, CountsOK, BytesOK
<1>1. CASE check_for_leaks
  <2>1. UNCHANGED <<heap, mixed, allocated_bytes>>
        /\ (exit_code' = "FAILURE" => allocated_bytes > 0)
    BY <1>0, <1>1 DEF check_for_leaks, memory, exit
  <2>2. counted_bytes' = counted_bytes /\ counted_blocks' = counted_blocks
    BY <2>1, BytesUnchanged
  <2>3. CounterExact'
    BY <2>1, <2>2 DEF BytesOK, CounterExact
  <2>4. ASSUME exit_code' = "FAILURE", ~mixed' PROVE counted_blocks' # {}
    <3>1. Cardinality(counted_bytes) > 0
      BY <2>1, <2>4 DEF BytesOK, CounterExact
    <3>2. counted_bytes # {}
      BY <3>1, FS_EmptySet
    <3> QED
      BY <2>2, <3>2 DEF counted_bytes
  <2> QED
    BY <1>0, <2>2, <2>3, <2>4 DEF BytesOK, FailureHasReason
<1>2. CASE Calls /\ ~check_for_leaks
  <2>1. exit_code' = "NONE"
    BY <1>0, <1>2 DEF Calls, enable_memory_tracking, disable_memory_tracking,
       SetTracking, test_malloc, test_free, test_unchanged
  <2>2. FailureHasReason'
    BY <2>1 DEF FailureHasReason
  <2>3. CASE UNCHANGED <<allocated_bytes, heap, mixed>>
    <3>1. counted_bytes' = counted_bytes
      BY <2>3, BytesUnchanged
    <3> QED
      BY <1>0, <2>2, <2>3, <3>1 DEF BytesOK, CounterExact
  <2>4. CASE test_malloc /\ ~UNCHANGED <<allocated_bytes, heap, mixed>>
    <3>1. PICK size \in Sizes, b \in Blocks \ DOMAIN heap :
            /\ heap' = [c \in DOMAIN heap \cup {b} |->
                          IF c = b THEN [size |-> size, counted |-> tracking_enabled]
                                   ELSE heap[c]]
            /\ allocated_bytes' = IF tracking_enabled THEN allocated_bytes + size
                                                      ELSE allocated_bytes
      BY <2>4 DEF test_malloc
    <3>2. mixed' = mixed
      BY <2>4 DEF test_malloc
    <3>3. /\ IsFiniteSet(counted_bytes')
          /\ Cardinality(counted_bytes') =
               Cardinality(counted_bytes) + (IF tracking_enabled THEN size ELSE 0)
      BY <1>0, <3>1, MallocBytes
    <3>4. CounterExact'
      BY <1>0, <3>1, <3>2, <3>3 DEF BytesOK, CounterExact
    <3> QED
      BY <2>2, <3>3, <3>4 DEF BytesOK
  <2>5. CASE test_free
    <3>1. PICK b \in mine :
            /\ heap' = [c \in DOMAIN heap \ {b} |-> heap[c]]
            /\ allocated_bytes' = IF tracking_enabled THEN less(heap[b].size)
                                                      ELSE allocated_bytes
            /\ mixed' = (mixed \/ heap[b].counted # tracking_enabled)
      BY <2>5 DEF test_free
    <3>2. heap[b].size \in Nat /\ heap[b].counted \in BOOLEAN
      BY <1>0, <3>1 DEF Counted, TypeOK
    <3>3. /\ IsFiniteSet(counted_bytes')
          /\ heap[b].counted =>
               /\ heap[b].size <= Cardinality(counted_bytes)
               /\ Cardinality(counted_bytes') =
                    Cardinality(counted_bytes) - heap[b].size
          /\ ~heap[b].counted => counted_bytes' = counted_bytes
      BY <1>0, <3>1, FreeBytes
    <3>4. CASE mixed'
      BY <2>2, <3>3, <3>4 DEF BytesOK, CounterExact
    <3>5. CASE ~mixed'
      <4>1. ~mixed /\ heap[b].counted = tracking_enabled
        BY <3>1, <3>5
      <4>2. allocated_bytes = Cardinality(counted_bytes)
        BY <4>1 DEF BytesOK, CounterExact
      <4>3. CASE tracking_enabled
        BY <1>0, <2>2, <3>1, <3>2, <3>3, <4>1, <4>2, <4>3
        DEF BytesOK, CounterExact, less
      <4>4. CASE ~tracking_enabled
        BY <1>0, <2>2, <3>1, <3>2, <3>3, <4>1, <4>2, <4>4 DEF BytesOK, CounterExact
      <4> QED
        BY <1>0, <4>3, <4>4
    <3> QED
      BY <3>4, <3>5
  <2> QED
    BY <1>2, <2>3, <2>4, <2>5 DEF Calls, enable_memory_tracking,
       disable_memory_tracking, SetTracking
<1> QED
  BY <1>1, <1>2

\* The suite does not touch the memory; it fails only with an assertion that did.
LEMMA SuiteBytes == ASSUME Counted, BytesOK, run_test_suite PROVE BytesOK'
<1>1. /\ UNCHANGED <<heap, allocated_bytes, mixed>>
      /\ aborted \subseteq aborted'
      /\ exit_code' = "FAILURE" => aborted # {}
  BY DEF run_test_suite, StartTest, AssertionFails, TestReturns, SuiteEnds, exit,
     memory, Counted, TypeOK, CountsOK
<1>2. counted_bytes' = counted_bytes
  BY <1>1, BytesUnchanged
<1> QED
  BY <1>1, <1>2 DEF BytesOK, CounterExact, FailureHasReason

THEOREM Invariance == Spec => []IInv
<1>1. Init => IInv
  BY InitCounted, InitBytes DEF IInv
<1>2. IInv /\ Next => IInv'
  BY CallsCounted, SuiteCounted, CallsBytes, SuiteBytes DEF Next, IInv
<1>3. IInv /\ UNCHANGED vars => IInv'
  <2> SUFFICES ASSUME IInv, UNCHANGED vars PROVE IInv'
    OBVIOUS
  <2>1. counted_bytes' = counted_bytes /\ counted_blocks' = counted_blocks
    BY BytesUnchanged DEF vars, memory
  <2>2. BytesOK'
    BY <2>1 DEF vars, memory, IInv, BytesOK, CounterExact, FailureHasReason
  <2>3. Counted'
    BY DEF vars, memory, IInv, Counted, TypeOK, CountsOK
  <2> QED
    BY <2>2, <2>3 DEF IInv
<1> QED
  BY <1>1, <1>2, <1>3, PTL DEF Spec

\* Every variable keeps its type, and the counter of bytes does not fall below
\* zero (mem_test.c 31-37).
THEOREM TypeCorrect == Spec => []TypeOK
<1>1. IInv => TypeOK
  BY DEF IInv, Counted
<1> QED
  BY Invariance, <1>1, PTL

\* A suite succeeds only if all its tests ran and no assertion failed in any
\* (test_framework.h 34-44, test_framework.c 7-22).
THEOREM SuccessCorrect == Spec => []SuccessEarned
<1>1. IInv => SuccessEarned
  BY DEF IInv, Counted, CountsOK, SuccessEarned
<1> QED
  BY Invariance, <1>1, PTL

\* As long as no block is freed under another setting of the tracking than it was
\* allocated under, the counter is the number of bytes allocated and counted,
\* whatever failed assertions left behind (mem_test.c 9-39).
THEOREM CounterCorrect == Spec => []CounterExact
<1>1. IInv => CounterExact
  BY DEF IInv, BytesOK
<1> QED
  BY Invariance, <1>1, PTL

\* A suite that fails had an assertion that failed or a block that leaked
\* (mem_test.c 53-58, test_framework.c 10-22).
THEOREM FailureCorrect == Spec => []FailureHasReason
<1>1. IInv => FailureHasReason
  BY DEF IInv, BytesOK
<1> QED
  BY Invariance, <1>1, PTL
=============================================================================
