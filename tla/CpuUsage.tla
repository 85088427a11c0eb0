------------------------------ MODULE CpuUsage ------------------------------
(***************************************************************************)
(* monitor_read_cpu_usage (monitor.c): the share of busy time between two  *)
(* readings of the first line of /proc/stat.  The counters there grow, but *)
(* for iowait, which the kernel may correct, and they are read as unsigned *)
(* integers of a fixed width, summed and subtracted with wraparound.  The  *)
(* ten fields are taken in four groups: idle (field 3), iowait (4), guest  *)
(* (8 and 9) and the busy rest; the kernel counts guest time in the busy   *)
(* fields as well.                                                         *)
(***************************************************************************)
EXTENDS Integers

CONSTANTS
  Modulus,      \* the number of values of an unsigned long long
  FieldCount,   \* how many fields this kernel has on the line
  MaxTicks      \* bound on the time the machine runs

ASSUME CpuAssumption ==
  /\ Modulus \in Nat \ {0}
  /\ FieldCount \in 4..10
  /\ MaxTicks \in Nat

VARIABLES
  busy, idle, iowait, guest,  \* the kernel's counters, as if they had no width
  tracker,                    \* the CpuTracker
  last,                       \* history: the counters at the last good reading
  out_percent,                \* what the last good reading reported, see percent
  true_percent,               \* history: what it should have reported
  idle_fell,                  \* history: idle was less than at the reading before
  status                      \* the status of the last reading

counters == <<busy, idle, iowait, guest>>

vars == <<busy, idle, iowait, guest, tracker, last, out_percent, true_percent,
          idle_fell, status>>

\* A percentage is 100 times the fraction of the record.
percent(n, d) == [num |-> n, den |-> d]

ReadErrors == {"IO_ERROR", "PARSE_ERROR"}

Init ==
  /\ busy = 0 /\ idle = 0 /\ iowait = 0 /\ guest = 0
  /\ tracker = [prev_idle |-> 0, prev_total |-> 0, has_prev |-> FALSE]
  /\ last = [busy |-> 0, idle |-> 0, guest |-> 0]
  /\ out_percent = percent(0, 1)
  /\ true_percent = percent(0, 1)
  /\ idle_fell = FALSE
  /\ status = "NONE"

-----------------------------------------------------------------------------
\* The machine.  Between two good readings the sum of the fields grows by less than
\* a counter has values: 2^64 ticks do not pass.

ticks == busy + idle + iowait

since_last == ticks - (last.busy + last.idle)

\* What is in the fields for guests, which old kernels do not have.
guest_fields(n) == IF FieldCount > 8 THEN n ELSE 0

counted_since_last == since_last + guest_fields(guest) - guest_fields(last.guest)

reader == <<tracker, last, out_percent, true_percent, idle_fell, status>>

Elapse(counted) ==
  /\ ticks < MaxTicks
  /\ tracker.has_prev => counted_since_last + counted < Modulus
  /\ UNCHANGED reader

RunBusy == Elapse(1) /\ busy' = busy + 1 /\ UNCHANGED <<idle, iowait, guest>>

RunGuest ==
  Elapse(2) /\ busy' = busy + 1 /\ guest' = guest + 1 /\ UNCHANGED <<idle, iowait>>

RunIdle == Elapse(1) /\ idle' = idle + 1 /\ UNCHANGED <<busy, iowait, guest>>

\* Old kernels count this as idle.
WaitForIo ==
  Elapse(1) /\ FieldCount > 4 /\ iowait' = iowait + 1 /\ UNCHANGED <<busy, idle, guest>>

\* The kernel takes a wait back when the task that waited is gone to another
\* CPU.  The time becomes idle time, or belongs to neither field for a while.
WithdrawIo ==
  /\ iowait > 0
  /\ iowait' = iowait - 1
  /\ idle' \in {idle, idle + 1}
  /\ UNCHANGED <<busy, guest>>
  /\ UNCHANGED reader

Machine == RunBusy \/ RunGuest \/ RunIdle \/ WaitForIo \/ WithdrawIo

-----------------------------------------------------------------------------
\* read_cpu_fields: fields the line does not have are 0.
field(value, n) == IF n < FieldCount THEN value % Modulus ELSE 0

\* Mutant: guest time is taken out of the busy fields and not added by itself.
total_read_without_guests ==
  (field(busy, 0) - field(guest, 8) + field(idle, 3) + field(iowait, 4)) % Modulus

total_read ==
  (field(busy, 0) + field(idle, 3) + field(iowait, 4) + field(guest, 8)) % Modulus

\* Mutant: waiting for I/O is taken for work.
idle_read_without_iowait == field(idle, 3)

idle_read == (field(idle, 3) + field(iowait, 4)) % Modulus

\* Mutant: a difference of signed numbers.
minus_signed(a, b) == a - b

minus(a, b) == (a - b) % Modulus

\* The end of monitor_read_cpu_usage: the quotient is at most 100 percent.
usage(total_delta, idle_delta) ==
  LET busy_delta == minus(total_delta, idle_delta)
  IN  IF total_delta = 0 THEN percent(0, 1)
      ELSE IF busy_delta > total_delta THEN percent(1, 1)
      ELSE percent(busy_delta, total_delta)

idle_falls == tracker.has_prev /\ idle + iowait < last.idle

\* The share of busy time since the last good reading, for comparison.
true_share ==
  IF ~tracker.has_prev \/ since_last = 0 \/ idle_falls THEN percent(0, 1)
  ELSE percent(busy - last.busy, since_last)

ReadOk ==
  /\ tracker' = [prev_idle |-> idle_read, prev_total |-> total_read, has_prev |-> TRUE]
  /\ out_percent' = IF tracker.has_prev
                    THEN usage(minus(total_read, tracker.prev_total),
                               minus(idle_read, tracker.prev_idle))
                    ELSE percent(0, 1)
  /\ true_percent' = true_share
  /\ idle_fell' = idle_falls
  /\ last' = [busy |-> busy, idle |-> idle + iowait, guest |-> guest]
  /\ status' = "OK"
  /\ UNCHANGED counters

\* /proc/stat cannot be opened, or has fewer than four numbers.
ReadFails ==
  /\ status' \in ReadErrors
  /\ UNCHANGED <<busy, idle, iowait, guest, tracker, last, out_percent, true_percent,
                 idle_fell>>

monitor_read_cpu_usage == ReadOk \/ ReadFails

Next == Machine \/ monitor_read_cpu_usage

Spec == Init /\ [][Next]_vars

-----------------------------------------------------------------------------
TypeOK ==
  /\ busy \in Nat /\ idle \in Nat /\ iowait \in Nat /\ guest \in Nat
  /\ tracker \in [prev_idle: 0..Modulus - 1, prev_total: 0..Modulus - 1,
                  has_prev: BOOLEAN]
  /\ last \in [busy: Nat, idle: Nat, guest: Nat]
  /\ out_percent \in [num: Nat, den: Nat \ {0}]
  /\ true_percent \in [num: Nat, den: Nat \ {0}]
  /\ idle_fell \in BOOLEAN
  /\ status \in {"NONE", "OK"} \cup ReadErrors

\* Guest time is on the line once: there is none yet, or the kernel is too old to
\* have the fields for it.
NoGuestFields == guest = 0 \/ FieldCount <= 8

same_share(p, q) == p.num * q.den = q.num * p.den

\* What is reported is the busy share of the time since the last reading that
\* succeeded, across failed readings, wrapped counters, wrapped sums and waits
\* that the kernel turned into idle time (lines 57-87), where guest time is not
\* counted twice.  A decrease of idle itself spoils the report of that interval
\* only, not the one after it.
ReportTrue ==
  NoGuestFields /\ ~idle_fell => same_share(out_percent, true_percent)

\* Where it is (lines 57-59), the report errs on one side and only so far: it is
\* never below the true share r, and never above 2r/(1 + r), which it would be if
\* all the work were done for guests.  An idle machine is reported idle, a machine
\* without idle time fully busy.
GuestErrorBounded ==
  ~idle_fell =>
    /\ true_percent.num * out_percent.den <= out_percent.num * true_percent.den
    /\ out_percent.num * (true_percent.den + true_percent.num)
         <= 2 * true_percent.num * out_percent.den

\* monitor.c:36 says that the percentage is "based on deltas from the previous
\* sample": the busy part of what passed since then.
GuestsCountedOnce == ~idle_fell => same_share(out_percent, true_percent)
=============================================================================
