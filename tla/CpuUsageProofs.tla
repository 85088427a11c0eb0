--------------------------- MODULE CpuUsageProofs ---------------------------
(***************************************************************************)
(* Proof that the percentage reported by monitor_read_cpu_usage is the     *)
(* busy share since the previous good reading, for counters of any width:  *)
(* differences of wrapped sums are differences of the sums.  And, where    *)
(* guest time is on the line twice, how far the percentage can be off.     *)
(***************************************************************************)
EXTENDS CpuUsage, TLAPS

-----------------------------------------------------------------------------
\* Facts about quotient and remainder.

LEMMA DivMod ==
  ASSUME NEW m \in Nat \ {0}, NEW a \in Int
  PROVE  /\ a = (m * (a \div m)) + (a % m)
         /\ a % m \in 0..m - 1
         /\ a \div m \in Int
OBVIOUS

LEMMA ModUnique ==
  ASSUME NEW m \in Nat \ {0}, NEW q \in Int, NEW r \in 0..m - 1
  PROVE  (q * m + r) % m = r
OBVIOUS

\* A number below the modulus is its own remainder.
LEMMA ModSmall ==
  ASSUME NEW m \in Nat \ {0}, NEW r \in 0..m - 1
  PROVE  r % m = r
<1>1. (0 * m + r) % m = r
  BY ModUnique
<1> QED
  BY <1>1

\* A summand may be reduced before it is added.
LEMMA ModSum ==
  ASSUME NEW m \in Nat \ {0}, NEW a \in Int, NEW b \in Int
  PROVE  ((a % m) + b) % m = (a + b) % m
<1> DEFINE p == a \div m
           s == a % m
           q == (a + b) \div m
           r == (a + b) % m
<1>1. a = m * p + s /\ s \in 0..m - 1 /\ p \in Int
  BY DivMod
<1>2. a + b = m * q + r /\ r \in 0..m - 1 /\ q \in Int
  BY DivMod
<1> HIDE DEF p, q, r, s
<1>3. s + b = (q - p) * m + r /\ q - p \in Int
  BY <1>1, <1>2
<1>4. (s + b) % m = r
  BY <1>2, <1>3, ModUnique
<1> QED
  BY <1>4 DEF r, s

\* So may both summands, or three, or four.
LEMMA ModSum2 ==
  ASSUME NEW m \in Nat \ {0}, NEW a \in Int, NEW b \in Int
  PROVE  ((a % m) + (b % m)) % m = (a + b) % m
<1> DEFINE s == b % m
<1>1. s \in Int
  BY DivMod
<1>2. (s + a) % m = (b + a) % m
  BY ModSum
<1> HIDE DEF s
<1>3. ((a % m) + s) % m = (a + s) % m
  BY <1>1, ModSum
<1>4. a + s = s + a /\ a + b = b + a
  BY <1>1
<1> QED
  BY <1>2, <1>3, <1>4 DEF s

LEMMA ModSum3 ==
  ASSUME NEW m \in Nat \ {0}, NEW a \in Int, NEW b \in Int, NEW c \in Int
  PROVE  ((a % m) + (b % m) + (c % m)) % m = (a + b + c) % m
<1> DEFINE s == a % m
           t == b % m
           u == c % m
           v == (s + t) % m
<1>1. s \in Int /\ t \in Int /\ u \in Int /\ v \in Int
  <2>1. s \in Int /\ t \in Int /\ u \in Int
    BY DivMod
  <2> HIDE DEF s, t
  <2>2. v \in Int
    BY <2>1, DivMod
  <2> QED
    BY <2>1, <2>2
<1>2. v = (a + b) % m
  BY ModSum2
<1>3. (((a + b) % m) + u) % m = ((a + b) + c) % m
  <2>1. a + b \in Int
    OBVIOUS
  <2> QED
    BY <2>1, ModSum2
<1> HIDE DEF s, t, u
<1>4. (v + u) % m = ((s + t) + u) % m
  <2>1. s + t \in Int
    BY <1>1
  <2> QED
    BY <1>1, <2>1, ModSum
<1> HIDE DEF v
<1> QED
  BY <1>2, <1>3, <1>4 DEF s, t, u

LEMMA ModSum4 ==
  ASSUME NEW m \in Nat \ {0}, NEW a \in Int, NEW b \in Int, NEW c \in Int, NEW d \in Int
  PROVE  ((a % m) + (b % m) + (c % m) + (d % m)) % m = (a + b + c + d) % m
<1> DEFINE s == (a % m) + (b % m) + (c % m)
           u == d % m
<1>1. s \in Int /\ u \in Int
  <2>1. a % m \in Int /\ b % m \in Int /\ c % m \in Int /\ d % m \in Int
    BY DivMod
  <2> QED
    BY <2>1
<1>2. s % m = (a + b + c) % m
  BY ModSum3
<1>3. (((a + b + c) % m) + u) % m = (a + b + c + d) % m
  <2>1. a + b + c \in Int
    OBVIOUS
  <2> QED
    BY <2>1, ModSum2
<1> HIDE DEF s, u
<1>4. ((s % m) + u) % m = (s + u) % m
  BY <1>1, ModSum
<1> QED
  BY <1>2, <1>3, <1>4 DEF s, u

\* The wrapped difference of wrapped numbers is their difference.
LEMMA ModDifference ==
  ASSUME NEW m \in Nat \ {0}, NEW a \in Int, NEW b \in Int, a - b \in 0..m - 1
  PROVE  ((a % m) - (b % m)) % m = a - b
<1> DEFINE q == a \div m
           r == a % m
           p == b \div m
           s == b % m
<1>1. a = m * q + r /\ r \in 0..m - 1 /\ q \in Int
  BY DivMod
<1>2. b = m * p + s /\ s \in 0..m - 1 /\ p \in Int
  BY DivMod
<1> HIDE DEF p, q, r, s
<1>3. r - s = (p - q) * m + (a - b) /\ p - q \in Int
  BY <1>1, <1>2
<1>4. (r - s) % m = a - b
  BY <1>3, ModUnique
<1> QED
  BY <1>4 DEF r, s

-----------------------------------------------------------------------------
\* The tracker holds the wrapped sums of the last good reading, since which
\* less time has passed than the counters can tell apart.
TrackerOK ==
  /\ last.guest <= guest /\ guest - last.guest <= busy - last.busy
  /\ FieldCount <= 4 => iowait = 0
  /\ tracker.has_prev =>
       /\ tracker.prev_total
            = (last.busy + last.idle + guest_fields(last.guest)) % Modulus
       /\ tracker.prev_idle = last.idle % Modulus
       /\ counted_since_last < Modulus

IInv == TypeOK /\ TrackerOK /\ ReportTrue /\ GuestErrorBounded

LEMMA GuestFieldsType == \A n \in Nat : guest_fields(n) \in Nat
BY DEF guest_fields

\* The sum of the fields is the wrapped number of ticks, guests' ticks twice.
LEMMA SumsRead ==
  ASSUME IInv
  PROVE  /\ idle_read = (idle + iowait) % Modulus
         /\ total_read = (ticks + guest_fields(guest)) % Modulus
<1>0. /\ busy \in Nat /\ idle \in Nat /\ iowait \in Nat /\ guest \in Nat
      /\ Modulus \in Nat \ {0} /\ FieldCount \in 4..10
  BY CpuAssumption DEF IInv, TypeOK
<1> /\ busy \in Int /\ idle \in Int /\ iowait \in Int
  BY <1>0
<1>1. /\ field(busy, 0) = busy % Modulus
      /\ field(idle, 3) = idle % Modulus
      /\ field(iowait, 4) = iowait % Modulus
  <2>1. 0 % Modulus = 0
    BY <1>0, ModSmall
  <2> QED
    BY <1>0, <2>1 DEF field, IInv, TrackerOK
<1>2. field(guest, 8) = guest_fields(guest) % Modulus
  <2>1. 0 % Modulus = 0
    BY <1>0, ModSmall
  <2> QED
    BY <1>0, <2>1 DEF field, guest_fields
<1>3. ((idle % Modulus) + (iowait % Modulus)) % Modulus = (idle + iowait) % Modulus
  BY <1>0, ModSum2, Zenon
<1>5. idle_read = (idle + iowait) % Modulus
  BY <1>1, <1>3 DEF idle_read
<1>6. total_read = (ticks + guest_fields(guest)) % Modulus
  <2> DEFINE g == guest_fields(guest)
  <2>1. g \in Int
    BY <1>0, GuestFieldsType
  <2>2. total_read = ((busy % Modulus) + (idle % Modulus) + (iowait % Modulus)
                        + (g % Modulus)) % Modulus
    BY <1>1, <1>2 DEF total_read
  <2> HIDE DEF g
  <2>3. ((busy % Modulus) + (idle % Modulus) + (iowait % Modulus) + (g % Modulus)) % Modulus
          = (busy + idle + iowait + g) % Modulus
    <3> DEFINE Reduced(a, b, c, d) ==
                 ((a % Modulus) + (b % Modulus) + (c % Modulus) + (d % Modulus)) % Modulus
                   = (a + b + c + d) % Modulus
    <3>1. \A a, b, c, d \in Int : Reduced(a, b, c, d)
      BY <1>0, ModSum4
    <3> HIDE DEF Reduced
    <3>2. Reduced(busy, idle, iowait, g)
      BY <2>1, <3>1, Zenon
    <3> QED
      BY <3>2 DEF Reduced
  <2> QED
    BY <2>2, <2>3 DEF ticks, g
<1> QED
  BY <1>5, <1>6

-----------------------------------------------------------------------------
LEMMA InitIInv == Init => IInv
<1> SUFFICES ASSUME Init PROVE IInv
  OBVIOUS
<1>1. TypeOK
  <2>1. /\ tracker \in [prev_idle: 0..Modulus - 1, prev_total: 0..Modulus - 1,
                        has_prev: BOOLEAN]
        /\ out_percent \in [num: Nat, den: Nat \ {0}]
        /\ true_percent \in [num: Nat, den: Nat \ {0}]
    BY CpuAssumption DEF Init, percent
  <2> QED
    BY <2>1 DEF Init, TypeOK
<1>2. TrackerOK
  BY DEF Init, TrackerOK
<1>3. ReportTrue /\ GuestErrorBounded
  BY DEF Init, ReportTrue, GuestErrorBounded, percent, same_share
<1> QED
  BY <1>1, <1>2, <1>3 DEF IInv

\* The differences a reading computes are the time that is counted, and the idle
\* part of it.
LEMMA Deltas ==
  ASSUME IInv, tracker.has_prev, ~idle_falls
  PROVE  /\ counted_since_last \in 0..Modulus - 1
         /\ since_last \in 0..counted_since_last
         /\ (idle + iowait) - last.idle \in 0..since_last
         /\ minus(total_read, tracker.prev_total) = counted_since_last
         /\ minus(idle_read, tracker.prev_idle) = (idle + iowait) - last.idle
<1>0. /\ busy \in Nat /\ idle \in Nat /\ iowait \in Nat
      /\ last.busy \in Nat /\ last.idle \in Nat
      /\ guest \in Nat /\ last.guest \in Nat
      /\ guest_fields(guest) \in Nat /\ guest_fields(last.guest) \in Nat
      /\ guest_fields(last.guest) <= guest_fields(guest)
      /\ last.busy <= busy
      /\ Modulus \in Nat \ {0}
  BY CpuAssumption DEF IInv, TypeOK, TrackerOK, guest_fields
<1>1. /\ counted_since_last \in 0..Modulus - 1
      /\ since_last \in 0..counted_since_last
      /\ (idle + iowait) - last.idle \in 0..since_last
      /\ (idle + iowait) - last.idle \in 0..Modulus - 1
  BY <1>0 DEF IInv, TrackerOK, counted_since_last, since_last, ticks, idle_falls
<1>2. (((ticks + guest_fields(guest)) % Modulus)
         - ((last.busy + last.idle + guest_fields(last.guest)) % Modulus)) % Modulus
        = counted_since_last
  <2> DEFINE then == last.busy + last.idle + guest_fields(last.guest)
             at == ticks + guest_fields(guest)
  <2>1. at \in Int /\ then \in Int
    BY <1>0 DEF ticks
  <2>2. counted_since_last = at - then
    BY <1>0 DEF counted_since_last, since_last, ticks
  <2> HIDE DEF then, at
  <2>3. ((at % Modulus) - (then % Modulus)) % Modulus = at - then
    BY <1>0, <1>1, <2>1, <2>2, ModDifference
  <2> QED
    BY <2>2, <2>3 DEF then, at
<1>3. (((idle + iowait) % Modulus) - (last.idle % Modulus)) % Modulus
        = (idle + iowait) - last.idle
  BY <1>0, <1>1, ModDifference
<1> QED
  BY <1>1, <1>2, <1>3, SumsRead DEF IInv, TrackerOK, minus

\* So what a good reading reports is the share of busy time, guests' time twice.
LEMMA ReadShare ==
  ASSUME IInv, tracker.has_prev, ~idle_falls
  PROVE  usage(minus(total_read, tracker.prev_total),
               minus(idle_read, tracker.prev_idle))
           = IF counted_since_last = 0 THEN percent(0, 1)
             ELSE percent(busy - last.busy + (counted_since_last - since_last),
                          counted_since_last)
<1> DEFINE all == counted_since_last
           off == (idle + iowait) - last.idle
           on == busy - last.busy + (counted_since_last - since_last)
<1>1. all \in 0..Modulus - 1 /\ off \in 0..all /\ Modulus \in Nat \ {0}
  BY Deltas, CpuAssumption
<1>2. all - off = on
  <2>1. counted_since_last \in Int /\ since_last \in Int
    BY Deltas, CpuAssumption
  <2>2. since_last = busy - last.busy + off
    BY DEF IInv, TypeOK, since_last, ticks
  <2> QED
    BY <2>1, <2>2 DEF IInv, TypeOK
<1>3. minus(all, off) = all - off
  <2> HIDE DEF all, off
  <2>1. all - off \in 0..Modulus - 1
    BY <1>1
  <2> QED
    BY <1>1, <2>1, ModSmall DEF minus
<1>4. usage(all, off) = IF all = 0 THEN percent(0, 1) ELSE percent(all - off, all)
  <2> HIDE DEF all, off
  <2> QED
    BY <1>1, <1>3 DEF usage
<1> QED
  BY <1>2, <1>4, Deltas

\* With b of t ticks busy and g of these for guests, the share of which both have g
\* more lies between b/t and 2b/(t + b).
LEMMA ShareBounds ==
  ASSUME NEW t \in Nat, NEW b \in 0..t, NEW g \in 0..b
  PROVE  /\ b * (t + g) <= (b + g) * t
         /\ (b + g) * (t + b) <= 2 * b * (t + g)
<1>1. (b + g) * t - b * (t + g) = g * (t - b)
  OBVIOUS
<1>2. 2 * b * (t + g) - (b + g) * (t + b) = (b - g) * (t - b)
  OBVIOUS
<1>3. \A x, y \in Nat : x * y >= 0
  OBVIOUS
<1>4. g * (t - b) >= 0 /\ (b - g) * (t - b) >= 0
  BY <1>3
<1> QED
  BY <1>1, <1>2, <1>4

\* What of the report of a good reading is true.
LEMMA ReadTrue ==
  ASSUME IInv, tracker.has_prev, ~idle_falls,
         NEW p, p = usage(minus(total_read, tracker.prev_total),
                          minus(idle_read, tracker.prev_idle))
  PROVE  /\ p \in [num: Nat, den: Nat \ {0}]
         /\ true_share \in [num: Nat, den: Nat \ {0}]
         /\ NoGuestFields => p = true_share
         /\ true_share.num * p.den <= p.num * true_share.den
         /\ p.num * (true_share.den + true_share.num) <= 2 * true_share.num * p.den
<1> DEFINE t == since_last
           b == busy - last.busy
           g == counted_since_last - since_last
<1>1. /\ t \in Nat /\ b \in 0..t /\ g \in 0..b
      /\ NoGuestFields => g = 0
      /\ counted_since_last = t + g
  <2>1. t \in Nat /\ g \in Nat /\ counted_since_last = t + g
    BY Deltas, CpuAssumption
  <2>2. b \in 0..t
    <3>1. (idle + iowait) - last.idle >= 0
      BY Deltas, CpuAssumption
    <3> QED
      BY <3>1 DEF IInv, TypeOK, TrackerOK, since_last, ticks
  <2>3. g = guest_fields(guest) - guest_fields(last.guest)
    BY <2>1, GuestFieldsType DEF counted_since_last, IInv, TypeOK
  <2>4. g <= b /\ (NoGuestFields => g = 0)
    BY <2>3, CpuAssumption DEF guest_fields, NoGuestFields, IInv, TypeOK, TrackerOK
  <2> QED
    BY <2>1, <2>2, <2>4
<1>2. p = IF t + g = 0 THEN percent(0, 1) ELSE percent(b + g, t + g)
  BY <1>1, ReadShare
<1>3. true_share = IF t = 0 THEN percent(0, 1) ELSE percent(b, t)
  BY DEF true_share
<1> HIDE DEF t, b, g
<1>4. CASE t = 0
  <2>1. p = percent(0, 1) /\ true_share = percent(0, 1)
    BY <1>1, <1>2, <1>3, <1>4
  <2> QED
    BY <2>1 DEF percent
<1>5. CASE t # 0
  <2>1. p = percent(b + g, t + g) /\ true_share = percent(b, t)
    BY <1>1, <1>2, <1>3, <1>5
  <2>2. /\ b * (t + g) <= (b + g) * t
        /\ (b + g) * (t + b) <= 2 * b * (t + g)
    BY <1>1, ShareBounds
  <2>3. /\ p.num = b + g /\ p.den = t + g
        /\ true_share.num = b /\ true_share.den = t
    BY <2>1 DEF percent
  <2>4. /\ p \in [num: Nat, den: Nat \ {0}]
        /\ true_share \in [num: Nat, den: Nat \ {0}]
        /\ NoGuestFields => p = true_share
    BY <1>1, <1>5, <2>1 DEF percent
  <2> QED
    BY <2>2, <2>3, <2>4
<1> QED
  BY <1>4, <1>5

\* Every wrapped number is one of the values of a counter.
LEMMA MinusType ==
  ASSUME NEW a \in Int, NEW b \in Int PROVE minus(a, b) \in 0..Modulus - 1
BY CpuAssumption, DivMod DEF minus

LEMMA WrappedType ==
  ASSUME TypeOK
  PROVE  idle_read \in 0..Modulus - 1 /\ total_read \in 0..Modulus - 1
<1>1. \A v \in Int, n \in Nat : field(v, n) \in Int
  <2> TAKE v \in Int, n \in Nat
  <2>1. v % Modulus \in Int
    BY CpuAssumption, DivMod
  <2> QED
    BY <2>1 DEF field
<1>2. /\ field(idle, 3) + field(iowait, 4) \in Int
      /\ field(busy, 0) + field(idle, 3) + field(iowait, 4) + field(guest, 8) \in Int
  <2>1. busy \in Int /\ idle \in Int /\ iowait \in Int /\ guest \in Int
    BY DEF TypeOK
  <2>2. /\ field(busy, 0) \in Int /\ field(idle, 3) \in Int
        /\ field(iowait, 4) \in Int /\ field(guest, 8) \in Int
    BY <1>1, <2>1
  <2> QED
    BY <2>2
<1> QED
  BY <1>2, CpuAssumption, DivMod DEF idle_read, total_read

\* What a reading computes is a fraction.
Fractions == [num: Nat, den: Nat \ {0}]

LEMMA UsageType ==
  ASSUME TypeOK
  PROVE  usage(minus(total_read, tracker.prev_total),
               minus(idle_read, tracker.prev_idle)) \in Fractions
<1> DEFINE total == minus(total_read, tracker.prev_total)
           off == minus(idle_read, tracker.prev_idle)
           on == minus(total, off)
<1>1. /\ total_read \in Int /\ idle_read \in Int
      /\ tracker.prev_total \in Int /\ tracker.prev_idle \in Int
  BY WrappedType DEF TypeOK
<1>2. total \in 0..Modulus - 1 /\ off \in 0..Modulus - 1
  BY <1>1, MinusType
<1>3. on \in 0..Modulus - 1
  <2> HIDE DEF total, off
  <2>1. total \in Int /\ off \in Int
    BY <1>2
  <2> QED
    BY <2>1, MinusType
<1>4. usage(total, off) = IF total = 0 THEN percent(0, 1)
                          ELSE IF on > total THEN percent(1, 1)
                          ELSE percent(on, total)
  BY DEF usage
<1> HIDE DEF total, off, on
<1>5. usage(total, off) \in Fractions
  BY <1>2, <1>3, <1>4 DEF percent, Fractions
<1> QED
  BY <1>5 DEF total, off

LEMMA ShareType ==
  ASSUME IInv PROVE true_share \in Fractions
<1>1. CASE ~tracker.has_prev \/ since_last = 0 \/ idle_falls
  BY <1>1 DEF true_share, percent, Fractions
<1>2. CASE tracker.has_prev /\ ~idle_falls
  BY <1>2, ReadTrue DEF Fractions
<1> QED
  BY <1>1, <1>2

LEMMA StepIInv == IInv /\ [Next]_vars => IInv'
<1> SUFFICES ASSUME IInv, [Next]_vars PROVE IInv'
  OBVIOUS
<1>0. /\ busy \in Nat /\ idle \in Nat /\ iowait \in Nat /\ guest \in Nat
      /\ last.busy \in Nat /\ last.idle \in Nat /\ last.guest \in Nat
      /\ Modulus \in Nat \ {0} /\ FieldCount \in 4..10 /\ MaxTicks \in Nat
  BY CpuAssumption DEF IInv, TypeOK
<1>1. CASE Machine
  <2>1. /\ UNCHANGED reader
        /\ busy' \in Nat /\ idle' \in Nat /\ iowait' \in Nat /\ guest' \in Nat
        /\ guest <= guest' /\ guest' - guest <= busy' - busy
        /\ FieldCount <= 4 => iowait' = 0
        /\ tracker.has_prev => counted_since_last' < Modulus
    <3>0. /\ FieldCount <= 4 => iowait = 0
          /\ tracker.has_prev => counted_since_last < Modulus
      BY DEF IInv, TrackerOK
    <3> USE DEF counted_since_last, since_last, ticks, guest_fields
    <3>1. CASE RunBusy
      BY <1>0, <3>0, <3>1 DEF RunBusy, Elapse, reader
    <3>2. CASE RunGuest
      BY <1>0, <3>0, <3>2 DEF RunGuest, Elapse, reader
    <3>3. CASE RunIdle
      BY <1>0, <3>0, <3>3 DEF RunIdle, Elapse, reader
    <3>4. CASE WaitForIo
      BY <1>0, <3>0, <3>4 DEF WaitForIo, Elapse, reader
    <3>5. CASE WithdrawIo
      BY <1>0, <3>0, <3>5 DEF WithdrawIo, reader
    <3> QED
      BY <1>1, <3>1, <3>2, <3>3, <3>4, <3>5 DEF Machine
  <2>2. UNCHANGED <<tracker, last, out_percent, true_percent, idle_fell, status>>
    BY <2>1 DEF reader
  <2>3. NoGuestFields' => NoGuestFields
    <3>1. guest' = 0 => guest = 0
      BY <1>0, <2>1
    <3> QED
      BY <3>1 DEF NoGuestFields
  <2>4. TypeOK'
    BY <2>1, <2>2 DEF IInv, TypeOK
  <2>5. TrackerOK'
    <3>1. guest_fields(last.guest)' = guest_fields(last.guest)
      BY <2>2 DEF guest_fields
    <3>2. last'.guest <= guest' /\ guest' - last'.guest <= busy' - last'.busy
      <4>1. last.guest <= guest /\ guest - last.guest <= busy - last.busy
        BY DEF IInv, TrackerOK
      <4>2. last'.guest = last.guest /\ last'.busy = last.busy
        BY <2>2
      <4> DEFINE was == last.guest
                 worked == last.busy
      <4>3. was \in Nat /\ worked \in Nat /\ was <= guest /\ guest - was <= busy - worked
        BY <1>0, <4>1
      <4> HIDE DEF was, worked
      <4>4. /\ guest \in Nat /\ busy \in Nat /\ guest' \in Nat /\ busy' \in Nat
            /\ guest <= guest' /\ guest' - guest <= busy' - busy
        BY <1>0, <2>1
      <4>5. was <= guest' /\ guest' - was <= busy' - worked
        <5>1. \A w, k, g, b, gg, bb \in Nat :
                w <= g /\ g - w <= b - k /\ g <= gg /\ gg - g <= bb - b
                  => w <= gg /\ gg - w <= bb - k
          OBVIOUS
        <5> QED
          BY <4>3, <4>4, <5>1
      <4> QED
        BY <4>2, <4>5 DEF was, worked
    <3>3. tracker' = tracker /\ last' = last
      BY <2>2
    <3> QED
      BY <2>1, <3>1, <3>2, <3>3 DEF IInv, TrackerOK
  <2>6. ReportTrue' /\ GuestErrorBounded'
    BY <2>2, <2>3 DEF IInv, ReportTrue, GuestErrorBounded, same_share
  <2> QED
    BY <2>4, <2>5, <2>6 DEF IInv
<1>2. CASE ReadOk
  <2>1. /\ tracker' = [prev_idle |-> idle_read, prev_total |-> total_read,
                       has_prev |-> TRUE]
        /\ true_percent' = true_share /\ idle_fell' = idle_falls
        /\ last' = [busy |-> busy, idle |-> idle + iowait, guest |-> guest]
        /\ status' = "OK" /\ UNCHANGED <<busy, idle, iowait, guest>>
    BY <1>2 DEF ReadOk, counters
  <2>2. /\ idle_read \in 0..Modulus - 1
        /\ total_read \in 0..Modulus - 1
    BY WrappedType DEF IInv
  <2>3. true_percent' \in Fractions
    BY <1>0, <2>1, ShareType
  <2>4. out_percent' \in Fractions
    <3>1. percent(0, 1) \in Fractions
      BY DEF percent, Fractions
    <3>2. TypeOK
      BY DEF IInv
    <3> QED
      BY <1>2, <3>1, <3>2, UsageType DEF ReadOk
  <2>5. TypeOK'
    BY <1>0, <2>1, <2>2, <2>3, <2>4 DEF TypeOK, Fractions, idle_falls
  <2>6. TrackerOK'
    <3>1. counted_since_last' = 0
      <4>1. guest_fields(guest) \in Nat /\ guest_fields(last.guest)' = guest_fields(guest)
            /\ guest_fields(guest)' = guest_fields(guest)
        BY <1>0, <2>1, GuestFieldsType DEF guest_fields
      <4> QED
        BY <1>0, <2>1, <4>1 DEF counted_since_last, since_last, ticks
    <3>2. idle_read = last'.idle % Modulus
      BY <2>1, SumsRead
    <3>3. total_read = (last'.busy + last'.idle + guest_fields(last.guest)') % Modulus
      <4>1. busy + (idle + iowait) = ticks
        BY <1>0 DEF ticks
      <4>2. guest_fields(last.guest)' = guest_fields(guest)
        BY <2>1 DEF guest_fields
      <4> QED
        BY <2>1, <4>1, <4>2, SumsRead
    <3>4. last'.guest <= guest' /\ guest' - last'.guest <= busy' - last'.busy
      BY <1>0, <2>1
    <3> QED
      BY <1>0, <2>1, <3>1, <3>2, <3>3, <3>4 DEF IInv, TrackerOK
  <2>7. ReportTrue' /\ GuestErrorBounded'
    <3>1. CASE tracker.has_prev /\ ~idle_falls
      <4>1. /\ NoGuestFields => out_percent' = true_percent'
            /\ true_percent'.num * out_percent'.den <= out_percent'.num * true_percent'.den
            /\ out_percent'.num * (true_percent'.den + true_percent'.num)
                 <= 2 * true_percent'.num * out_percent'.den
        BY <1>2, <2>1, <3>1, ReadTrue DEF ReadOk
      <4> QED
        BY <2>1, <4>1 DEF ReportTrue, GuestErrorBounded, NoGuestFields, same_share
    <3>2. CASE ~tracker.has_prev
      <4>1. out_percent' = percent(0, 1) /\ true_percent' = percent(0, 1)
        BY <1>2, <2>1, <3>2 DEF ReadOk, true_share
      <4> QED
        BY <4>1 DEF ReportTrue, GuestErrorBounded, percent, same_share
    <3>3. CASE idle_falls
      BY <2>1, <3>3 DEF ReportTrue, GuestErrorBounded
    <3> QED
      BY <3>1, <3>2, <3>3
  <2> QED
    BY <2>5, <2>6, <2>7 DEF IInv
<1>3. CASE ReadFails
  <2>1. TypeOK'
    BY <1>3 DEF ReadFails, IInv, TypeOK
  <2>2. NoGuestFields' = NoGuestFields
    BY <1>3 DEF ReadFails, NoGuestFields
  <2>3. TrackerOK'
    BY <1>3 DEF ReadFails, IInv, TrackerOK, counted_since_last, since_last, ticks,
       guest_fields
  <2>4. ReportTrue' /\ GuestErrorBounded'
    BY <1>3, <2>2 DEF ReadFails, IInv, ReportTrue, GuestErrorBounded, same_share
  <2> QED
    BY <2>1, <2>3, <2>4 DEF IInv
<1>4. CASE UNCHANGED vars
  BY <1>4 DEF vars, IInv, TypeOK, TrackerOK, ReportTrue, GuestErrorBounded,
     NoGuestFields, counted_since_last, since_last, ticks, guest_fields, same_share
<1> QED
  BY <1>1, <1>2, <1>3, <1>4 DEF Next, monitor_read_cpu_usage

THEOREM Invariance == Spec => []IInv
BY InitIInv, StepIInv, PTL DEF Spec

\* Every variable keeps its type.
THEOREM TypeCorrect == Spec => []TypeOK
<1>1. IInv => TypeOK
  BY DEF IInv
<1> QED
  BY Invariance, <1>1, PTL

\* The CPU usage reported is the busy share of the time since the last good
\* reading, for counters of any width and any run of failed readings
\* (monitor.c 57-87).
THEOREM ReportCorrect == Spec => []ReportTrue
<1>1. IInv => ReportTrue
  BY DEF IInv
<1> QED
  BY Invariance, <1>1, PTL

\* With guests counted twice the percentage is never too low, and too high by a
\* bounded amount only, whatever wraps and whichever readings fail
\* (monitor.c 57-87).
THEOREM GuestsBounded == Spec => []GuestErrorBounded
<1>1. IInv => GuestErrorBounded
  BY DEF IInv
<1> QED
  BY Invariance, <1>1, PTL
=============================================================================
