----------------------------- MODULE TestHarness -----------------------------
(***************************************************************************)
(* A run of run_test_suite (test_framework) over tests that use the        *)
(* allocation tracking of mem_test.  A failed ASSERT jumps out of the test *)
(* with longjmp, past its test_free, check_for_leaks and                   *)
(* disable_memory_tracking: what it leaves behind is there for the tests   *)
(* after it.  check_for_leaks ends the whole program, not the test.        *)
(*                                                                         *)
(* A test is any sequence of the calls that example-unit-test.c makes.  It *)
(* holds its blocks in local variables, so no other test can free them.    *)
(***************************************************************************)
EXTENDS Integers, FiniteSets

CONSTANTS
  TestCount,  \* the number of tests of the suite
  Blocks,     \* the blocks of the heap
  Sizes,      \* the sizes a test may ask for
  MaxCalls    \* bound: the calls one test makes

ASSUME HarnessAssumption ==
  /\ TestCount \in Nat /\ MaxCalls \in Nat
  /\ Sizes \subseteq Nat \ {0}

VARIABLES
  pc,               \* "suite" between tests, "test" in one, "exited"
  started,          \* tests started so far, the i of run_test_suite
  calls,            \* calls the current test has made
  tests_passed, tests_failed,
  allocated_bytes, tracking_enabled,
  heap,             \* the blocks in use: the size of each, and whether it was counted
  mine,             \* those of the current test
  aborted,          \* history: the tests in which an assertion failed
  mixed,            \* history: a block was freed under another setting than it was
                    \* allocated under
  exit_code         \* the exit code, "NONE" while running

memory == <<allocated_bytes, tracking_enabled, heap, mixed>>

vars == <<pc, started, calls, tests_passed, tests_failed, memory, mine, aborted,
          exit_code>>

Init ==
  /\ pc = "suite" /\ started = 0 /\ calls = 0
  /\ tests_passed = 0 /\ tests_failed = 0
  /\ allocated_bytes = 0 /\ tracking_enabled = FALSE
  /\ heap = <<>> /\ mine = {}
  /\ aborted = {} /\ mixed = FALSE
  /\ exit_code = "NONE"

exit(code) == pc' = "exited" /\ exit_code' = code

-----------------------------------------------------------------------------
\* The calls of a test.

call == pc = "test" /\ calls < MaxCalls /\ calls' = calls + 1

test_unchanged == <<pc, started, tests_passed, tests_failed, aborted, exit_code>>

SetTracking(enabled) ==
  /\ call
  /\ tracking_enabled' = enabled
  /\ UNCHANGED <<allocated_bytes, heap, mixed, mine>>
  /\ UNCHANGED test_unchanged

enable_memory_tracking == SetTracking(TRUE)

disable_memory_tracking == SetTracking(FALSE)

\* Mutant: the bytes are counted before it is known that there are any.
test_malloc_counts_first ==
  /\ call
  /\ \E size \in Sizes :
       /\ allocated_bytes' = IF tracking_enabled THEN allocated_bytes + size
                                                 ELSE allocated_bytes
       /\ \/ \E b \in Blocks \ DOMAIN heap :
               /\ heap' = [c \in DOMAIN heap \cup {b} |->
                             IF c = b THEN [size |-> size, counted |-> tracking_enabled]
                                      ELSE heap[c]]
               /\ mine' = mine \cup {b}
          \/ UNCHANGED <<heap, mine>>
  /\ UNCHANGED <<tracking_enabled, mixed>>
  /\ UNCHANGED test_unchanged

test_malloc ==
  /\ call
  /\ \/ \E size \in Sizes, b \in Blocks \ DOMAIN heap :
          /\ heap' = [c \in DOMAIN heap \cup {b} |->
                        IF c = b THEN [size |-> size, counted |-> tracking_enabled]
                                 ELSE heap[c]]
          /\ mine' = mine \cup {b}
          /\ allocated_bytes' = IF tracking_enabled THEN allocated_bytes + size
                                                    ELSE allocated_bytes
     \/ UNCHANGED <<allocated_bytes, heap, mine>>    \* malloc returns NULL
  /\ UNCHANGED <<tracking_enabled, mixed>>
  /\ UNCHANGED test_unchanged

\* Mutant: the counter may go below zero.
less_signed(size) == allocated_bytes - size

\* A release that was never counted takes no more than there is.
less(size) == IF allocated_bytes >= size THEN allocated_bytes - size ELSE 0

test_free ==
  /\ call
  /\ \E b \in mine :
       /\ heap' = [c \in DOMAIN heap \ {b} |-> heap[c]]
       /\ mine' = mine \ {b}
       /\ allocated_bytes' = IF tracking_enabled THEN less(heap[b].size)
                                                 ELSE allocated_bytes
       /\ mixed' = (mixed \/ heap[b].counted # tracking_enabled)
  /\ UNCHANGED tracking_enabled
  /\ UNCHANGED test_unchanged

\* Mutant: the comparison holds for no bytes, too.
check_for_leaks_at_zero ==
  /\ call
  /\ IF allocated_bytes >= 0 THEN exit("FAILURE") ELSE UNCHANGED <<pc, exit_code>>
  /\ UNCHANGED <<started, tests_passed, tests_failed, aborted, mine>>
  /\ UNCHANGED memory

\* The test goes on if nothing is outstanding, and the program exits if not.
check_for_leaks ==
  /\ call
  /\ IF allocated_bytes > 0 THEN exit("FAILURE") ELSE UNCHANGED <<pc, exit_code>>
  /\ UNCHANGED <<started, tests_passed, tests_failed, aborted, mine>>
  /\ UNCHANGED memory

Calls ==
  \/ enable_memory_tracking \/ disable_memory_tracking
  \/ test_malloc \/ test_free \/ check_for_leaks

-----------------------------------------------------------------------------
\* RUN_TEST calls setjmp and then the test.
StartTest ==
  /\ pc = "suite" /\ started < TestCount
  /\ started' = started + 1
  /\ calls' = 0
  /\ pc' = "test"
  /\ UNCHANGED <<tests_passed, tests_failed, mine, aborted, exit_code>>
  /\ UNCHANGED memory

\* Mutant: the way back by longjmp is taken for the way back by return.
AssertionFails_passes ==
  /\ pc = "test"
  /\ aborted' = aborted \cup {started}
  /\ tests_passed' = tests_passed + 1
  /\ mine' = {}
  /\ pc' = "suite"
  /\ UNCHANGED <<started, calls, tests_failed, exit_code>>
  /\ UNCHANGED memory

\* ASSERT finds its condition false: setjmp returns a second time.
AssertionFails ==
  /\ pc = "test"
  /\ aborted' = aborted \cup {started}
  /\ tests_failed' = tests_failed + 1
  /\ mine' = {}
  /\ pc' = "suite"
  /\ UNCHANGED <<started, calls, tests_passed, exit_code>>
  /\ UNCHANGED memory

\* The test returns TEST_PASSED or TEST_FAILED; RUN_TEST does not look which.
TestReturns ==
  /\ pc = "test"
  /\ tests_passed' = tests_passed + 1
  /\ mine' = {}
  /\ pc' = "suite"
  /\ UNCHANGED <<started, calls, tests_failed, aborted, exit_code>>
  /\ UNCHANGED memory

\* The end of run_test_suite, and of main.
SuiteEnds ==
  /\ pc = "suite" /\ started = TestCount
  /\ exit(IF tests_failed > 0 THEN "FAILURE" ELSE "SUCCESS")
  /\ UNCHANGED <<started, calls, tests_passed, tests_failed, mine, aborted>>
  /\ UNCHANGED memory

run_test_suite == StartTest \/ AssertionFails \/ TestReturns \/ SuiteEnds

Next == run_test_suite \/ Calls

Spec == Init /\ [][Next]_vars

-----------------------------------------------------------------------------
\* The type invariant; the counter, unsigned in the code, is never below zero.
TypeOK ==
  /\ pc \in {"suite", "test", "exited"}
  /\ started \in 0..TestCount /\ calls \in 0..MaxCalls
  /\ tests_passed \in Nat /\ tests_failed \in Nat
  /\ allocated_bytes \in Nat /\ tracking_enabled \in BOOLEAN
  /\ DOMAIN heap \subseteq Blocks
  /\ \A b \in DOMAIN heap : heap[b] \in [size: Sizes, counted: BOOLEAN]
  /\ mine \subseteq DOMAIN heap
  /\ aborted \subseteq 1..TestCount /\ mixed \in BOOLEAN
  /\ exit_code \in {"NONE", "SUCCESS", "FAILURE"}

counted_blocks == {b \in DOMAIN heap : heap[b].counted}

\* The bytes of those blocks, each a block and a place in it.
counted_bytes == UNION {{b} \X (1..heap[b].size) : b \in counted_blocks}

\* As long as no block is freed under another setting of the tracking than it was
\* allocated under, the counter says exactly what is allocated, whatever failed
\* assertions have left behind and however the setting changes (lines 9-39).
CounterExact == ~mixed => allocated_bytes = Cardinality(counted_bytes)

\* Success means that every test ran and that no assertion failed in any of them:
\* of the two ways out of a test, by return and by longjmp, the counters must not
\* take one for the other (test_framework.h 34-44, test_framework.c 10-21).
SuccessEarned ==
  exit_code = "SUCCESS" =>
    started = TestCount /\ aborted = {} /\ tests_passed = TestCount

\* Failure has a reason: an assertion that failed, or a block really leaked when
\* check_for_leaks ended the program, in this test or one before it (mem_test.c
\* 53-58).
FailureHasReason ==
  exit_code = "FAILURE" /\ ~mixed => aborted # {} \/ counted_blocks # {}
=============================================================================
