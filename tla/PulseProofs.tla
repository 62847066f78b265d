----------------------------- MODULE PulseProofs -----------------------------
(***************************************************************************)
(* Theorems about the clock and what runs on it (core/wiring.c and         *)
(* wiring_pulse.c), for any timer period, clock rate, width of unsigned    *)
(* long, handlers as slow as InTime lets them be, and any pin.             *)
(***************************************************************************)
EXTENDS Pulse, TLAPS

LEMMA DivMod ==
  ASSUME NEW n \in Nat, NEW k \in Nat \ {0}
  PROVE  /\ n % k \in 0..(k - 1)
         /\ n \div k \in Nat
         /\ n = (n \div k) * k + (n % k)
<1>1. n % k \in 0..(k - 1)
  BY Z3
<1>2. n = (n \div k) * k + (n % k)
  BY Z3
<1>3. n \div k \in Nat
  BY Z3
<1> QED
  BY <1>1, <1>2, <1>3

LEMMA DivUnique ==
  ASSUME NEW k \in Nat \ {0}, NEW q \in Int, NEW p \in Int, NEW r \in 0..(k - 1), NEW s \in 0..(k - 1),
         q * k + r = p * k + s
  PROVE  q = p /\ r = s
<1>1. ASSUME NEW a \in Nat \ {0} PROVE a * k >= k
  BY <1>1
<1>2. ~(q > p)
  <2> SUFFICES ASSUME q > p PROVE FALSE
    OBVIOUS
  <2>1. (q - p) * k >= k
    BY <1>1
  <2>2. (q - p) * k = q * k - p * k
    OBVIOUS
  <2>3. q * k \in Int /\ p * k \in Int
    OBVIOUS
  <2> QED
    BY <2>1, <2>2, <2>3
<1>3. ~(p > q)
  <2> SUFFICES ASSUME p > q PROVE FALSE
    OBVIOUS
  <2>1. (p - q) * k >= k
    BY <1>1
  <2>2. (p - q) * k = p * k - q * k
    OBVIOUS
  <2>3. q * k \in Int /\ p * k \in Int
    OBVIOUS
  <2> QED
    BY <2>1, <2>2, <2>3
<1>4. q = p
  BY <1>2, <1>3
<1> QED
  BY <1>4

LEMMA DivModIs ==
  ASSUME NEW k \in Nat \ {0}, NEW q \in Nat, NEW r \in 0..(k - 1)
  PROVE  (q * k + r) % k = r /\ (q * k + r) \div k = q
<1>0. q * k + r \in Nat
  OBVIOUS
<1> DEFINE n == q * k + r
<1>1. n % k \in 0..(k - 1) /\ n \div k \in Nat /\ q * k + r = (n \div k) * k + (n % k)
  BY <1>0, DivMod
<1> HIDE DEF n
<1>2. q = n \div k /\ r = n % k
  BY <1>1, DivUnique
<1> QED
  BY <1>2 DEF n

(* A reduced operand does not change the result. *)
LEMMA ModAdd ==
  ASSUME NEW k \in Nat \ {0}, NEW a \in Nat, NEW b \in Nat
  PROVE  ((a % k) + b) % k = (a + b) % k
<1> DEFINE q == a \div k
           r == a % k
           p == (r + b) \div k
           s == (r + b) % k
<1>1. r \in 0..(k - 1) /\ q \in Nat /\ a = q * k + r
  BY DivMod
<1>2. r + b \in Nat
  BY <1>1
<1>3. s \in 0..(k - 1) /\ p \in Nat /\ r + b = p * k + s
  BY <1>2, DivMod
<1> HIDE DEF q, r, p, s
<1>4. a + b = (q + p) * k + s
  <2>1. (q + p) * k = q * k + p * k
    BY <1>1, <1>3
  <2> QED
    BY <2>1, <1>1, <1>3
<1>5. q + p \in Nat
  BY <1>1, <1>3
<1>6. ((q + p) * k + s) % k = s
  BY <1>3, <1>5, DivModIs
<1> QED
  BY <1>4, <1>6 DEF s, r

LEMMA ModTimes ==
  ASSUME NEW k \in Nat \ {0}, NEW a \in Nat, NEW b \in Nat, NEW c \in Nat
  PROVE  ((a % k) * b + c) % k = (a * b + c) % k
<1> DEFINE q == a \div k
           r == a % k
           p == (r * b + c) \div k
           s == (r * b + c) % k
<1>1. r \in 0..(k - 1) /\ q \in Nat /\ a = q * k + r
  BY DivMod
<1>2. r * b + c \in Nat
  BY <1>1
<1>3. s \in 0..(k - 1) /\ p \in Nat /\ r * b + c = p * k + s
  BY <1>2, DivMod
<1> HIDE DEF q, r, p, s
<1>4. a * b + c = (q * b + p) * k + s
  <2>1. (q * b + p) * k = (q * b) * k + p * k
    BY <1>1, <1>3
  <2>2. (q * b) * k = (q * k) * b
    BY <1>1
  <2>3. (q * k + r) * b = (q * k) * b + r * b
    BY <1>1
  <2> QED
    BY <2>1, <2>2, <2>3, <1>1, <1>3
<1>5. q * b + p \in Nat
  BY <1>1, <1>3
<1>6. ((q * b + p) * k + s) % k = s
  BY <1>3, <1>5, DivModIs
<1> QED
  BY <1>4, <1>6 DEF s, r

(* So does a reduced term of a difference, if it is not negative.          *)
LEMMA ModMinus ==
  ASSUME NEW k \in Nat \ {0}, NEW a \in Nat, NEW b \in Nat, b <= a
  PROVE  ((a % k) + k - (b % k)) % k = (a - b) % k
<1> DEFINE q == a \div k
           r == a % k
           p == b \div k
           s == b % k
           e == r + k - s
<1>1. r \in 0..(k - 1) /\ q \in Nat /\ a = q * k + r
  BY DivMod
<1>2. s \in 0..(k - 1) /\ p \in Nat /\ b = p * k + s
  BY DivMod
<1> HIDE DEF q, r, p, s
<1>3. e \in Nat
  BY <1>1, <1>2
<1>4. p <= q
  <2> SUFFICES ASSUME p >= q + 1
               PROVE  FALSE
    BY <1>1, <1>2
  <2>1. p * k >= (q + 1) * k
    BY <1>1, <1>2
  <2>2. (q + 1) * k = q * k + k /\ q * k \in Nat /\ p * k \in Nat
    BY <1>1, <1>2
  <2> QED
    BY <2>1, <2>2, <1>1, <1>2
<1>5. e % k = (a - b) % k
  <2>1. CASE q = p
    <3>1. a - b = r - s /\ a - b \in Nat /\ e = 1 * k + (r - s) /\ r - s \in 0..(k - 1)
      BY <2>1, <1>1, <1>2
    <3>2. (1 * k + (r - s)) % k = r - s
      BY <3>1, DivModIs
    <3>3. (0 * k + (r - s)) % k = r - s
      BY <3>1, DivModIs
    <3> QED
      BY <3>1, <3>2, <3>3
  <2>2. CASE q > p
    <3>1. a - b = (q - p - 1) * k + e
      <4>1. (q - p - 1) * k = q * k - p * k - k /\ q * k \in Nat /\ p * k \in Nat
        BY <1>1, <1>2
      <4> QED
        BY <4>1, <1>1, <1>2
    <3> DEFINE d == e \div k
               u == e % k
    <3>2. u \in 0..(k - 1) /\ d \in Nat /\ e = d * k + u
      BY <1>3, DivMod
    <3> HIDE DEF d, u, e
    <3>3. (q - p - 1) * k + e = (q - p - 1 + d) * k + u
      <4>1. (q - p - 1 + d) * k = (q - p - 1) * k + d * k
        BY <3>2, <1>1, <1>2
      <4> QED
        BY <4>1, <3>2, <1>1, <1>2
    <3>4. q - p - 1 + d \in Nat
      BY <2>2, <3>2, <1>1, <1>2
    <3>5. ((q - p - 1 + d) * k + u) % k = u
      BY <3>2, <3>4, DivModIs
    <3> QED
      BY <3>1, <3>3, <3>5 DEF u
  <2> QED
    BY <2>1, <2>2, <1>4, <1>1, <1>2
<1> QED
  BY <1>5 DEF r, s

(* Of numbers less than k, nothing is lost; of others, no more is found.   *)
LEMMA ModSmall ==
  ASSUME NEW k \in Nat \ {0}, NEW a \in Nat
  PROVE  a % k <= a /\ (a < k => a % k = a)
<1>1. a % k \in 0..(k - 1) /\ a \div k \in Nat /\ a = (a \div k) * k + (a % k)
  BY DivMod
<1>2. (a \div k) * k \in Nat
  BY <1>1
<1>3. ASSUME a < k
      PROVE  a % k = a
  <2>1. (0 * k + a) % k = a
    BY <1>3, DivModIs
  <2> QED
    BY <2>1
<1> QED
  BY <1>1, <1>2, <1>3

LEMMA TimesMonotone ==
  ASSUME NEW a \in Nat, NEW b \in Nat, NEW c \in Nat, a <= b
  PROVE  a * c <= b * c /\ a * c \in Nat /\ b * c \in Nat /\ (b - a) * c = b * c - a * c
<1>1. a * c \in Nat /\ b * c \in Nat /\ (b - a) * c \in Nat
  OBVIOUS
<1>2. (b - a) * c = b * c - a * c
  OBVIOUS
<1> QED
  BY <1>1, <1>2
-----------------------------------------------------------------------------
(* The inductive invariant *)

ReadPlaces == {"micros_count", "micros_tcnt", "micros_tov"}
LoadPlaces == {"millis_low", "millis_high"}
Reading == pc \in ReadPlaces
Loading == pc \in LoadPlaces
Doing(p) == p \in {pc, to}

Returns == {"idle", "delay_start", "delay_check", "pulse_begin", "pulse_previous_check",
            "pulse_gap_check", "pulse_start", "pulse_stop_check", "pulse_end"}
Places == Returns \cup
  {"millis_low", "millis_high", "micros_count", "micros_tcnt", "micros_tov", "delay_loop",
   "pulse_previous", "pulse_gap", "pulse_stop", "count_previous", "count_gap", "count_stop"}

(* A number as an unsigned long; h periods in microseconds, as whole       *)
(* milliseconds and the rest.                                              *)
Unsigned(x) == x % ULong
Periods(h) == h * MICROSECONDS_PER_TIMER0_OVERFLOW
Whole(h) == Periods(h) \div Milli
Rest(h) == Periods(h) % Milli

ClockInv ==
  /\ tcnt \in 0..(TimerSize - 1) /\ wraps \in Nat /\ tov \in BOOLEAN
  /\ tov => wraps > 0 /\ tcnt <= MaxLatency
  /\ count = Unsigned(Handled)
  /\ millis = Unsigned(Whole(Handled))
  /\ fract \in Nat /\ fract * FractUnit = Rest(Handled)

ReadTime == (IF OverflowSeen THEN Handled + 1 ELSE Handled) * TimerSize + t
MicrosInv ==
  /\ pc \in Places /\ to \in Returns /\ inten \in BOOLEAN /\ sreg \in BOOLEAN
  /\ lag \in Nat
  /\ pc # "idle" => lag <= MaxLag
  /\ Reading \/ Loading => ~inten /\ lag <= 1
  /\ ~Reading => to = "idle"
  /\ pc = "millis_high" => m = millis % ByteSize
  /\ pc \in {"micros_tcnt", "micros_tov"} => m = count
  /\ pc = "micros_tov" =>
       /\ t \in 0..(TimerSize - 1)
       /\ Now = ReadTime + lag
       /\ lag = 0 => t = tcnt

AtLeast(x) ==
  /\ pc \in {"micros_count", "micros_tcnt"} => x <= Now * Ratio
  /\ pc = "micros_tov" => x <= ReadTime * Ratio
  /\ ~Reading => \E y \in 0..Now :
       x <= y * Ratio /\ m = Unsigned(y * Ratio) /\ Now <= y + 1 + lag

Counted(s) ==
  /\ start = Unsigned(s)
  /\ called * Ratio + (asked - ms) * Milli <= s
  /\ Doing("delay_check") => ms > 0 /\ AtLeast(s)
DelayInv ==
  /\ ms \in Nat /\ asked \in Nat /\ called \in 0..Now
  /\ Doing("delay_start") => ms = asked /\ AtLeast(called * Ratio)
  /\ pc = "delay_loop" \/ Doing("delay_check") =>
       ms <= asked /\ \E s \in 0..(Now * Ratio) : Counted(s)

CountInv ==
  /\ width \in Nat /\ maxloops \in Nat
  /\ Measuring => timeout \in Timeouts
  /\ pc \in {"count_previous", "count_gap"} => width = 0
  /\ Counting => /\ width < maxloops
                 /\ maxloops * LoopCycles <= timeout * Cycles
  /\ ~Counting => width = 0

Checks == {"pulse_previous_check", "pulse_gap_check", "pulse_stop_check"}
Looks == {"pulse_previous", "pulse_gap", "pulse_stop"}
Timed == \E p \in Checks \cup Looks \cup {"pulse_start", "pulse_end"} : Doing(p)

Ahead(p) ==
  IF p = "pulse_previous" THEN 1 + MaxLag
  ELSE IF p \in {"pulse_gap", "pulse_previous_check"} THEN 1 + 2 * MaxLag
  ELSE IF p \in {"pulse_gap_check", "pulse_start"} THEN 1 + 3 * MaxLag
  ELSE IF p = "pulse_stop" THEN 4 + 4 * MaxLag
  ELSE 4 + 5 * MaxLag
Slack ==
  IF pc = "micros_count" THEN Ahead(to)
  ELSE IF pc = "micros_tcnt" THEN Ahead(to) + 1
  ELSE IF pc = "micros_tov" THEN Ahead(to) + 2
  ELSE IF pc \in Looks THEN Ahead(pc)
  ELSE Ahead(pc) + 3
Risen(b) ==
  /\ start = Unsigned(b * Ratio)
  /\ rose <= b
  /\ b + held <= Now
  /\ Doing("pulse_end") => AtLeast((b + held) * Ratio)
Started(a) ==
  /\ startMicros = Unsigned(a * Ratio)
  /\ (Now - a) * Ratio <= timeout + (Slack + lag) * Ratio
  /\ (\E p \in Checks : Doing(p)) => AtLeast(a * Ratio)
  /\ Doing("pulse_start") => AtLeast(a * Ratio) /\ AtLeast(rose * Ratio)
  /\ InPulse \/ Doing("pulse_end") => \E b \in a..Now : Risen(b)
PulseInv ==
  /\ held \in Nat /\ rose \in 0..Now
  /\ InPulse \/ Doing("pulse_end") \/ held = 0
  /\ Doing("pulse_begin") => AtLeast(called * Ratio)
  /\ Timed => \E a \in called..Now : Started(a)
IInv == ClockInv /\ MicrosInv /\ DelayInv /\ CountInv /\ PulseInv

-----------------------------------------------------------------------------
(* The clock *)

LEMMA Numbers ==
  /\ TimerSize \in Nat \ {0} /\ Ratio \in Nat \ {0} /\ Milli \in Nat \ {0}
  /\ FractUnit \in Nat \ {0} /\ ByteSize \in Nat \ {0} /\ ULong \in Nat \ {0}
  /\ MaxLag \in Nat \ {0} /\ MaxNow \in Nat
  /\ MaxLatency \in Nat /\ MaxLatency < TimerSize - 1 /\ Milli < ULong
  /\ Delays \subseteq Nat /\ Timeouts \subseteq Nat \ {0}
  /\ Cycles \in Nat \ {0} /\ LoopCycles \in Nat \ {0}
  BY TimerAssumption, PulseAssumption

LEMMA Fractions ==
  /\ MICROSECONDS_PER_TIMER0_OVERFLOW \in Nat /\ MILLIS_INC \in Nat
  /\ FRACT_INC \in Nat /\ FRACT_MAX \in Nat
  /\ Milli = FRACT_MAX * FractUnit
  /\ MICROSECONDS_PER_TIMER0_OVERFLOW = MILLIS_INC * Milli + FRACT_INC * FractUnit
  /\ FRACT_INC < FRACT_MAX
<1>1. MICROSECONDS_PER_TIMER0_OVERFLOW \in Nat
  BY Numbers DEF MICROSECONDS_PER_TIMER0_OVERFLOW
<1> DEFINE rest == MICROSECONDS_PER_TIMER0_OVERFLOW % Milli
<1>2. rest \in 0..(Milli - 1) /\ MILLIS_INC \in Nat
  BY <1>1, Numbers, DivMod DEF MILLIS_INC
<1> HIDE DEF rest
<1>3. FRACT_INC \in Nat /\ rest % FractUnit \in Nat
      /\ rest = FRACT_INC * FractUnit + (rest % FractUnit)
  <2>1. FRACT_INC = rest \div FractUnit
    BY DEF FRACT_INC, rest
  <2> QED
    BY <2>1, <1>2, Numbers, DivMod
<1>4. FRACT_MAX \in Nat
  BY Numbers, DivMod DEF FRACT_MAX
<1>5. Milli = FRACT_MAX * FractUnit
  BY TimerAssumption
<1>6. FRACT_INC * FractUnit \in Nat /\ FRACT_INC * FractUnit < FRACT_MAX * FractUnit
  BY <1>2, <1>3, <1>5, Numbers
<1>7. ~(FRACT_MAX <= FRACT_INC)
  BY <1>3, <1>4, <1>6, TimesMonotone, Numbers
<1> QED
  BY <1>1, <1>2, <1>3, <1>4, <1>5, <1>7, TimerAssumption

LEMMA UnsignedIs ==
  ASSUME NEW a \in Nat, NEW b \in Nat, NEW c \in Nat
  PROVE  /\ Unsigned(a) \in 0..(ULong - 1)
         /\ Unsigned(a) <= a
         /\ a < ULong => Unsigned(a) = a
         /\ Unsigned(Unsigned(a) + b) = Unsigned(a + b)
         /\ Unsigned(Unsigned(a) * b + c) = Unsigned(a * b + c)
         /\ b <= a => Unsigned(Unsigned(a) + ULong - Unsigned(b)) = Unsigned(a - b)
<1>1. ULong \in Nat \ {0}
  BY Numbers
<1>2. ((a % ULong) * b + c) % ULong = (a * b + c) % ULong
  BY <1>1, ModTimes, ZenonT(40)
<1>3. Unsigned(Unsigned(a) * b + c) = Unsigned(a * b + c)
  BY <1>2, Zenon DEF Unsigned
<1>4. Unsigned(a) \in 0..(ULong - 1)
  BY <1>1, DivMod DEF Unsigned
<1>5. Unsigned(a) <= a /\ (a < ULong => Unsigned(a) = a)
  BY <1>1, ModSmall DEF Unsigned
<1>6. Unsigned(Unsigned(a) + b) = Unsigned(a + b)
  BY <1>1, ModAdd DEF Unsigned
<1>7. b <= a => Unsigned(Unsigned(a) + ULong - Unsigned(b)) = Unsigned(a - b)
  BY <1>1, ModMinus DEF Unsigned
<1> QED
  BY <1>3, <1>4, <1>5, <1>6, <1>7, Zenon

LEMMA UnsignedNat ==
  ASSUME NEW a \in Nat
  PROVE  Unsigned(a) \in Nat /\ Unsigned(a) < ULong /\ Unsigned(a) <= a /\ (a < ULong => Unsigned(a) = a)
<1>1. /\ Unsigned(a) \in 0..(ULong - 1) /\ Unsigned(a) <= a
      /\ a < ULong => Unsigned(a) = a
  <2>1. 0 \in Nat
    OBVIOUS
  <2> QED
    BY <2>1, UnsignedIs
<1> QED
  BY <1>1, Numbers

LEMMA PeriodIs ==
  ASSUME NEW h \in Nat
  PROVE  /\ Whole(h) \in Nat /\ Rest(h) \in 0..(Milli - 1)
         /\ Periods(h) \in Nat
         /\ Periods(h) = Whole(h) * Milli + Rest(h)
         /\ Periods(h + 1) = Periods(h) + MICROSECONDS_PER_TIMER0_OVERFLOW
<1> DEFINE w == Periods(h)
<1>1. w \in Nat /\ Periods(h + 1) = w + MICROSECONDS_PER_TIMER0_OVERFLOW
  BY Fractions DEF Periods
<1> HIDE DEF w
<1>2. w % Milli \in 0..(Milli - 1) /\ w \div Milli \in Nat
      /\ w = (w \div Milli) * Milli + (w % Milli)
  BY <1>1, DivMod, Numbers
<1> QED
  BY <1>1, <1>2 DEF w, Whole, Rest

LEMMA PeriodUnique ==
  ASSUME NEW h \in Nat, NEW q \in Nat, NEW r \in 0..(Milli - 1), Periods(h) = q * Milli + r
  PROVE  Whole(h) = q /\ Rest(h) = r
<1>1. (q * Milli + r) % Milli = r /\ (q * Milli + r) \div Milli = q
  BY DivModIs, Numbers
<1> QED
  BY <1>1 DEF Whole, Rest

(* One period more, in milliseconds and fractions. *)
LEMMA PeriodsNext ==
  ASSUME NEW h \in Nat, NEW f \in Nat, (f - FRACT_INC) * FractUnit = Rest(h), f >= FRACT_INC
  PROVE  /\ f < FRACT_MAX =>
              /\ Whole(h + 1) = Whole(h) + MILLIS_INC
              /\ Rest(h + 1) = f * FractUnit
         /\ f >= FRACT_MAX =>
              /\ Whole(h + 1) = Whole(h) + (MILLIS_INC + 1)
              /\ Rest(h + 1) = (f - FRACT_MAX) * FractUnit
<1> DEFINE T == Whole(h)
           g == f - FRACT_INC
<1>1. T \in Nat /\ g \in Nat /\ g * FractUnit \in 0..(Milli - 1)
      /\ Periods(h) = T * Milli + g * FractUnit
  BY PeriodIs, Fractions
<1>2. f * FractUnit = g * FractUnit + FRACT_INC * FractUnit
  BY Fractions, Numbers
<1> HIDE DEF T, g
<1>3. /\ (T + MILLIS_INC) * Milli = T * Milli + MILLIS_INC * Milli
      /\ T * Milli \in Nat /\ MILLIS_INC * Milli \in Nat /\ FRACT_INC * FractUnit \in Nat
      /\ f * FractUnit \in Nat
  BY <1>1, Fractions, Numbers
<1>4. Periods(h + 1) = (T + MILLIS_INC) * Milli + f * FractUnit
  BY <1>1, <1>2, <1>3, PeriodIs, Fractions
<1>5. g < FRACT_MAX
  <2>1. FRACT_MAX <= g => FRACT_MAX * FractUnit <= g * FractUnit
    BY <1>1, Fractions, Numbers, TimesMonotone
  <2> QED
    BY <2>1, <1>1, Fractions, Numbers
<1>6. ASSUME NEW e \in Nat, e < FRACT_MAX
      PROVE  e * FractUnit \in 0..(Milli - 1)
  <2>1. (FRACT_MAX - e) * FractUnit >= FractUnit
    BY <1>6, Fractions, Numbers
  <2>2. (FRACT_MAX - e) * FractUnit = FRACT_MAX * FractUnit - e * FractUnit
        /\ e * FractUnit \in Nat
    BY <1>6, Fractions, Numbers
  <2> QED
    BY <2>1, <2>2, Fractions, Numbers
<1>7. ASSUME f < FRACT_MAX
      PROVE  Whole(h + 1) = T + MILLIS_INC /\ Rest(h + 1) = f * FractUnit
  <2>1. f * FractUnit \in 0..(Milli - 1) /\ T + MILLIS_INC \in Nat
    BY <1>1, <1>6, <1>7, Fractions
  <2> QED
    BY <2>1, <1>4, PeriodUnique
<1>8. ASSUME f >= FRACT_MAX
      PROVE  Whole(h + 1) = T + (MILLIS_INC + 1) /\ Rest(h + 1) = (f - FRACT_MAX) * FractUnit
  <2> DEFINE e == f - FRACT_MAX
  <2>1. e \in Nat /\ e < FRACT_MAX
    BY <1>5, <1>8, Fractions DEF g
  <2>2. e * FractUnit = f * FractUnit - FRACT_MAX * FractUnit
    BY <2>1, Fractions, Numbers
  <2> HIDE DEF e
  <2>3. (T + (MILLIS_INC + 1)) * Milli = (T + MILLIS_INC) * Milli + Milli
    BY <1>1, Fractions, Numbers
  <2>4. (T + MILLIS_INC) * Milli \in Nat
    BY <1>1, Fractions, Numbers
  <2>5. Periods(h + 1) = (T + (MILLIS_INC + 1)) * Milli + e * FractUnit
    BY <2>2, <2>3, <2>4, <1>3, <1>4, Fractions, Numbers
  <2>6. e * FractUnit \in 0..(Milli - 1) /\ T + (MILLIS_INC + 1) \in Nat
    BY <2>1, <1>1, <1>6, Fractions
  <2> QED
    BY <2>5, <2>6, PeriodUnique DEF e
<1> QED
  BY <1>7, <1>8 DEF T

(* Only the timer and its handler move the clock. *)
Still == UNCHANGED <<timer, tov, clock>>

LEMMA NowMoves ==
  ASSUME ClockInv
  PROVE  /\ Now \in Nat /\ Handled \in Nat
         /\ Tick => Now' = Now + 1
         /\ OverflowInterrupt => Now' = Now /\ Handled' = Handled + 1
         /\ Still => Now' = Now /\ Handled' = Handled
         /\ Tick => Handled' = Handled
<1> USE Numbers DEF ClockInv
<1>1. Now \in Nat /\ Handled \in Nat
  BY DEF Now, Handled
<1>2. ASSUME Tick
      PROVE  Now' = Now + 1 /\ Handled' = Handled
  <2>1. CASE tcnt < TimerSize - 1
    BY <1>2, <2>1 DEF Tick, Now, Handled
  <2>2. CASE tcnt = TimerSize - 1
    <3>1. ~tov
      BY <2>2
    <3>2. (wraps + 1) * TimerSize = wraps * TimerSize + TimerSize
      OBVIOUS
    <3> QED
      BY <1>2, <2>2, <3>1, <3>2 DEF Tick, Now, Handled
  <2> QED
    BY <2>1, <2>2
<1>3. ASSUME OverflowInterrupt
      PROVE  Now' = Now /\ Handled' = Handled + 1
  BY <1>3 DEF OverflowInterrupt, Now, Handled, timer
<1>4. ASSUME Still
      PROVE  Now' = Now /\ Handled' = Handled
  BY <1>4 DEF Still, Now, Handled, timer
<1> QED
  BY <1>1, <1>2, <1>3, <1>4

LEMMA ClockStep ==
  ASSUME ClockInv, Tick \/ OverflowInterrupt \/ Still
  PROVE  ClockInv'
<1>1. CASE Tick
  <2>1. Handled' = Handled
    BY <1>1, NowMoves
  <2>2. tcnt \in 0..(TimerSize - 1) /\ wraps \in Nat /\ tov \in BOOLEAN /\ (tov => wraps > 0)
    BY DEF ClockInv
  <2>3. /\ tcnt' \in 0..(TimerSize - 1) /\ wraps' \in Nat /\ tov' \in BOOLEAN
        /\ tov' => wraps' > 0 /\ tcnt' <= MaxLatency
    <3>1. tov => tcnt < MaxLatency
      BY <1>1 DEF Tick, InTime
    <3>2. CASE tcnt < TimerSize - 1
      <4>1. tcnt' = tcnt + 1 /\ wraps' = wraps /\ tov' = tov
        BY <1>1, <2>2, <3>2, Numbers DEF Tick
      <4>2. tcnt + 1 \in 0..(TimerSize - 1) /\ (tov => tcnt + 1 <= MaxLatency)
        BY <2>2, <3>1, <3>2, Numbers
      <4> QED
        BY <4>1, <4>2, <2>2, Zenon
    <3>3. CASE tcnt = TimerSize - 1
      <4>1. tcnt' = 0 /\ wraps' = wraps + 1
        BY <1>1, <2>2, <3>3, Numbers DEF Tick
      <4>2. tov' \in BOOLEAN
        BY <1>1, <2>2, <3>3, Numbers, Zenon DEF Tick
      <4>3. wraps + 1 \in Nat /\ wraps + 1 > 0 /\ 0 <= MaxLatency /\ 0 \in 0..(TimerSize - 1)
        BY <2>2, Numbers
      <4> QED
        BY <4>1, <4>2, <4>3
    <3> QED
      BY <2>2, <3>2, <3>3, Numbers
  <2>4. UNCHANGED <<count, millis, fract>>
    BY <1>1 DEF Tick, clock
  <2> QED
    BY <2>1, <2>3, <2>4 DEF ClockInv
<1>2. CASE OverflowInterrupt
  <2> DEFINE f == fract + FRACT_INC
  <2>1. Handled \in Nat /\ Handled' = Handled + 1
    BY <1>2, NowMoves
  <2>2. Whole(Handled) \in Nat /\ fract \in Nat /\ FRACT_INC \in Nat /\ FRACT_MAX \in Nat
        /\ MILLIS_INC \in Nat
    BY <2>1, PeriodIs, Fractions DEF ClockInv
  <2>3. f \in Nat /\ (f - FRACT_INC) * FractUnit = Rest(Handled) /\ f >= FRACT_INC
    BY <2>2 DEF ClockInv
  <2>4. count' = Unsigned(Handled + 1)
    BY <1>2, <2>1, UnsignedIs DEF OverflowInterrupt, ClockInv, Unsigned
  <2>7. /\ tcnt' \in 0..(TimerSize - 1) /\ wraps' \in Nat /\ tov' \in BOOLEAN /\ ~tov'
        /\ count' = Unsigned(Handled') /\ Handled' = Handled + 1
    BY <1>2, <2>1, <2>4 DEF OverflowInterrupt, ClockInv, timer
  <2>5. CASE Carry(f)
    <3>1. fract' = f - FRACT_MAX /\ millis' = Unsigned(millis + MILLIS_INC + 1)
      BY <1>2, <2>5 DEF OverflowInterrupt, Unsigned
    <3> HIDE DEF f
    <3>2. f >= FRACT_MAX
      BY <2>5 DEF Carry
    <3>3. /\ Whole(Handled + 1) = Whole(Handled) + (MILLIS_INC + 1)
          /\ Rest(Handled + 1) = (f - FRACT_MAX) * FractUnit
      BY <2>1, <2>3, <3>2, PeriodsNext
    <3>4. millis = Unsigned(Whole(Handled)) /\ millis \in Nat
      BY <2>2, UnsignedIs, Numbers DEF ClockInv
    <3>5. millis' = Unsigned(Unsigned(Whole(Handled)) + (MILLIS_INC + 1))
      <4>1. millis + MILLIS_INC + 1 = millis + (MILLIS_INC + 1)
        BY <3>4, <2>2
      <4> QED
        BY <3>1, <3>4, <4>1, Zenon
    <3>6. millis' = Unsigned(Whole(Handled + 1))
      <4>1. MILLIS_INC + 1 \in Nat
        BY <2>2
      <4>2. Unsigned(Unsigned(Whole(Handled)) + (MILLIS_INC + 1)) = Unsigned(Whole(Handled) + (MILLIS_INC + 1))
        BY <4>1, <2>2, UnsignedIs, Zenon
      <4> QED
        BY <3>3, <3>5, <4>2, Zenon
    <3>7. f - FRACT_MAX \in Nat
      BY <3>2, <2>2, <2>3
    <3> QED
      BY <3>1, <3>3, <3>6, <3>7, <2>7 DEF ClockInv
  <2>6. CASE ~Carry(f)
    <3>1. fract' = f /\ millis' = Unsigned(millis + MILLIS_INC)
      BY <1>2, <2>6 DEF OverflowInterrupt, Unsigned
    <3> HIDE DEF f
    <3>2. f < FRACT_MAX
      BY <2>6, <2>2, <2>3 DEF Carry
    <3>3. /\ Whole(Handled + 1) = Whole(Handled) + MILLIS_INC
          /\ Rest(Handled + 1) = f * FractUnit
      BY <2>1, <2>3, <3>2, PeriodsNext
    <3>4. millis' = Unsigned(Unsigned(Whole(Handled)) + MILLIS_INC)
      BY <3>1 DEF ClockInv
    <3>5. millis' = Unsigned(Whole(Handled + 1))
      BY <3>3, <3>4, <2>2, UnsignedIs
    <3> QED
      BY <2>3, <3>1, <3>3, <3>5, <2>7 DEF ClockInv
  <2> QED
    BY <2>5, <2>6
<1>3. CASE Still
  <2>1. Handled' = Handled
    BY <1>3, NowMoves
  <2> QED
    BY <1>3, <2>1 DEF Still, ClockInv, timer, clock
<1> QED
  BY <1>1, <1>2, <1>3

LEMMA ClockInitially == Init => ClockInv
<1> SUFFICES ASSUME Init
             PROVE  ClockInv
  OBVIOUS
<1>1. Handled = 0
  BY DEF Init, Handled
<1>2. Periods(0) = 0 * Milli + 0
  BY Fractions, Numbers DEF Periods
<1>3. Whole(0) = 0 /\ Rest(0) = 0
  BY <1>2, PeriodUnique, Numbers
<1>4. Unsigned(0) = 0
  BY UnsignedIs, Numbers
<1>5. 0 * FractUnit = 0
  BY Numbers
<1>6. count = Unsigned(Handled) /\ millis = Unsigned(Whole(Handled)) /\ fract * FractUnit = Rest(Handled)
  BY <1>1, <1>3, <1>4, <1>5, Zenon DEF Init
<1>7. tcnt = 0 /\ wraps = 0 /\ fract = 0
  BY DEF Init
<1>8. tov \in BOOLEAN /\ ~tov
  BY Zenon DEF Init
<1> QED
  BY <1>6, <1>7, <1>8, Numbers DEF ClockInv

-----------------------------------------------------------------------------
(* millis() and micros() *)

(* A step of the main thread between calls of the two. *)
Local ==
  /\ ~Reading /\ ~Loading
  /\ pc' \in Places \ (ReadPlaces \cup LoadPlaces)
  /\ lag' = 0
  /\ UNCHANGED <<timer, tov, clock, inten, sreg, to, t>>
Enters == ~Reading /\ ~Loading /\ \E from \in Returns : EnterMicros(from)
Reads == MicrosCount \/ MicrosTcnt \/ MicrosTov
Loads == Millis \/ MillisLow \/ MillisHigh

LEMMA StepKinds ==
  ASSUME [PulseNext]_allvars
  PROVE  Tick \/ OverflowInterrupt \/ Enters \/ Reads \/ Loads \/ SetInterrupts \/ Local
         \/ UNCHANGED vars
<1> USE DEF Reading, Loading, ReadPlaces, LoadPlaces
<1>1. CASE PulseTick
  BY <1>1 DEF PulseTick
<1>2. CASE Edge
  BY <1>2 DEF Edge
<1>3. CASE Others
  <2>1. CASE Micros \/ \E d \in Delays : Delay(d)
    BY <2>1 DEF Micros, Delay, Enters, Returns
  <2>2. CASE DelayStart
    BY <2>2 DEF DelayStart, Local, Places
  <2>3. CASE DelayLoop
    BY <2>3 DEF DelayLoop, Local, Places, Enters, Returns
  <2>4. CASE DelayCheck
    BY <2>4 DEF DelayCheck, Local, Places
  <2> QED
    BY <1>3, <2>1, <2>2, <2>3, <2>4 DEF Others, Main, Reads, Loads
<1>4. CASE PulseMain
  <2> USE DEF Goto, Return, Enters, Local, Places, Returns
  <2>1. CASE PulseBegin
    BY <2>1 DEF PulseBegin
  <2>2. CASE Wait1 \/ Wait2 \/ Wait3
    BY <2>2 DEF Wait1, Wait2, Wait3, Wait
  <2>3. CASE PreviousOver \/ PulseStarts \/ PulseStops
    BY <2>3 DEF PreviousOver, PulseStarts, PulseStops
  <2>4. CASE PulseCheck
    BY <2>4 DEF PulseCheck, Check
  <2>5. CASE PulseStart \/ PulseEnd
    BY <2>5 DEF PulseStart, PulseEnd
  <2>6. CASE CountPrevious \/ CountGap
    BY <2>6 DEF CountPrevious, CountGap, CountBefore
  <2>7. CASE CountStop
    BY <2>7 DEF CountStop
  <2> QED
    BY <1>4, <2>1, <2>2, <2>3, <2>4, <2>5, <2>6, <2>7 DEF PulseMain
<1>5. ASSUME NEW u \in Timeouts, PulseInLong(u) \/ PulseIn(u)
      PROVE  Enters \/ Local
  BY <1>5 DEF PulseInLong, PulseIn, Called, Enters, Local, Places, Returns
<1>6. CASE UNCHANGED allvars
  BY <1>6 DEF allvars
<1> QED
  BY <1>1, <1>2, <1>3, <1>4, <1>5, <1>6 DEF PulseNext

LEMMA KindsAreStill ==
  ASSUME Enters \/ Reads \/ Loads \/ SetInterrupts \/ Local \/ UNCHANGED vars
  PROVE  Still
  BY DEF Enters, EnterMicros, Reads, MicrosCount, MicrosTcnt, MicrosTov, Loads, Millis, MillisLow,
         MillisHigh, SetInterrupts, Local, vars, Still

LEMMA ClockKept ==
  ASSUME ClockInv, [PulseNext]_allvars
  PROVE  ClockInv'
  BY StepKinds, KindsAreStill, ClockStep

(* What TCNT0 was when it was read, with the overflow it had not counted. *)
LEMMA ReadTimeIs ==
  ASSUME ClockInv, t \in 0..(TimerSize - 1)
  PROVE  ReadTime \in Nat
<1>1. Handled \in Nat
  BY NowMoves
<1>2. Handled * TimerSize \in Nat /\ (Handled + 1) * TimerSize \in Nat
  BY <1>1, Numbers
<1> QED
  BY <1>2, Numbers DEF ReadTime

LEMMA ReadTimeKept ==
  ASSUME ClockInv, t \in 0..(TimerSize - 1), lag = 0, t = tcnt, Now = ReadTime, Tick, t' = t
  PROVE  ReadTime' = ReadTime
<1>1. Handled' = Handled /\ Handled \in Nat
  BY NowMoves
<1>2. CASE tcnt < TimerSize - 1
  <2>1. tov' = tov
    BY <1>2, Numbers DEF Tick, ClockInv
  <2>2. OverflowSeen' = OverflowSeen
    BY <2>1, Zenon DEF OverflowSeen
  <2> QED
    BY <1>1, <2>2 DEF ReadTime
<1>3. CASE tcnt = TimerSize - 1
  <2>1. ~OverflowSeen /\ ~OverflowSeen'
    BY <1>3, Numbers DEF OverflowSeen
  <2> QED
    BY <1>1, <2>1 DEF ReadTime
<1> QED
  BY <1>2, <1>3, Numbers DEF ClockInv

(* The overflow still pending was before TCNT0 was read, unless TCNT0 had  *)
(* its last value then.                                                    *)
LEMMA ReadTimeNow ==
  ASSUME ClockInv, MicrosTcnt
  PROVE  ReadTime' = Now /\ Now' = Now /\ t' = tcnt
<1>1. Still /\ t' = tcnt /\ tov' = tov /\ tcnt' = tcnt /\ wraps' = wraps
  BY DEF MicrosTcnt, Still, timer
<1>2. Handled' = Handled /\ Now' = Now
  BY <1>1, NowMoves
<1>3. /\ tcnt \in 0..(TimerSize - 1) /\ wraps \in Nat
      /\ tov => wraps > 0 /\ tcnt <= MaxLatency
  BY DEF ClockInv
<1>4. CASE tov
  <2>1. OverflowSeen'
    BY <1>1, <1>3, <1>4, Numbers DEF OverflowSeen
  <2>2. Handled = wraps - 1
    BY <1>4 DEF Handled
  <2>3. Handled + 1 = wraps
    BY <2>2, <1>3
  <2> QED
    BY <1>1, <1>2, <2>1, <2>3 DEF ReadTime, Now
<1>5. CASE ~tov
  <2>1. ~OverflowSeen'
    BY <1>1, <1>5 DEF OverflowSeen
  <2>2. Handled = wraps
    BY <1>5 DEF Handled
  <2> QED
    BY <1>1, <1>2, <2>1, <2>2 DEF ReadTime, Now
<1> QED
  BY <1>1, <1>2, <1>4, <1>5

LEMMA MicrosStep ==
  ASSUME ClockInv, MicrosInv, [PulseNext]_allvars
  PROVE  MicrosInv'
<1> USE DEF Reading, Loading, ReadPlaces, LoadPlaces
<1>0. /\ pc \in Places /\ to \in Returns /\ inten \in BOOLEAN /\ sreg \in BOOLEAN
      /\ lag \in Nat /\ MaxLag \in Nat /\ MaxLag > 0
  BY Numbers DEF MicrosInv
<1>1. CASE Tick
  <2>1. /\ UNCHANGED <<count, millis, fract, inten, sreg, pc, to, m, t>>
        /\ lag' = IF pc = "idle" THEN 0 ELSE lag + 1
        /\ pc # "idle" => lag < IF inten THEN MaxLag ELSE 1
    BY <1>1 DEF Tick, clock, InTime
  <2>2. lag' \in Nat /\ (pc # "idle" => lag' <= MaxLag) /\ (Reading \/ Loading => lag' <= 1)
    BY <2>1, <1>0 DEF MicrosInv
  <2>3. ASSUME pc = "micros_tov"
        PROVE  t' \in 0..(TimerSize - 1) /\ Now' = ReadTime' + lag' /\ lag' # 0
    <3>1. lag = 0 /\ t \in 0..(TimerSize - 1) /\ t = tcnt /\ Now = ReadTime /\ lag' = 1
      <4>1. ~inten /\ t \in 0..(TimerSize - 1) /\ Now = ReadTime + lag /\ (lag = 0 => t = tcnt)
        BY <2>3 DEF MicrosInv
      <4>2. ReadTime \in Nat
        BY <4>1, ReadTimeIs
      <4> QED
        BY <4>1, <4>2, <2>1, <2>3, <1>0
    <3>2. ReadTime' = ReadTime
      BY <3>1, <1>1, <2>1, ReadTimeKept
    <3>3. Now' = Now + 1
      BY <1>1, NowMoves
    <3> QED
      BY <3>1, <3>2, <3>3, <2>1
  <2> QED
    BY <1>0, <2>1, <2>2, <2>3 DEF MicrosInv
<1>2. CASE OverflowInterrupt
  <2>1. inten /\ UNCHANGED <<inten, sreg, pc, to, m, t, lag>>
    BY <1>2 DEF OverflowInterrupt, thread
  <2> QED
    BY <1>0, <2>1 DEF MicrosInv
<1>3. CASE Enters
  <2>1. /\ pc' = "micros_count" /\ to' \in Returns /\ lag' = 0
        /\ sreg' = inten /\ ~inten'
    BY <1>3 DEF Enters, EnterMicros
  <2>2. sreg' \in BOOLEAN /\ inten' \in BOOLEAN
    BY <1>0, <1>3, <2>1, Zenon DEF Enters, EnterMicros
  <2> QED
    BY <1>0, <2>1, <2>2 DEF MicrosInv, Places
<1>4. CASE MicrosCount
  BY <1>0, <1>4 DEF MicrosCount, MicrosInv, Places, clock
<1>5. CASE MicrosTcnt
  <2>1. ReadTime' = Now /\ Now' = Now /\ t' = tcnt /\ tcnt' = tcnt
    BY <1>5, ReadTimeNow DEF MicrosTcnt, timer
  <2>2. tcnt \in 0..(TimerSize - 1) /\ Now \in Nat
    BY NowMoves DEF ClockInv
  <2>3. UNCHANGED <<count, inten, sreg, to, m>> /\ pc = "micros_tcnt" /\ pc' = "micros_tov" /\ lag' = 0
    BY <1>5 DEF MicrosTcnt, clock
  <2> QED
    BY <1>0, <2>1, <2>2, <2>3 DEF MicrosInv, Places
<1>6. CASE MicrosTov
  <2>1. pc' \in Returns /\ to' = "idle" /\ lag' = 0 /\ inten' = sreg /\ sreg' = sreg
    BY <1>0, <1>6 DEF MicrosTov
  <2> QED
    BY <1>0, <2>1 DEF MicrosInv, Places, Returns
<1>7. CASE Loads
  <2>1. sreg' \in BOOLEAN /\ inten' \in BOOLEAN /\ lag' = 0 /\ to' = to
    BY <1>0, <1>7, Zenon DEF Loads, Millis, MillisLow, MillisHigh
  <2>2. CASE Millis
    <3>1. pc' = "millis_low" /\ ~inten' /\ to = "idle"
      BY <1>0, <2>2 DEF Millis, MicrosInv
    <3> QED
      BY <1>0, <2>1, <3>1 DEF MicrosInv, Places
  <2>3. CASE MillisLow
    <3>1. /\ pc' = "millis_high" /\ ~inten /\ inten' = inten /\ to = "idle"
          /\ m' = millis % ByteSize /\ millis' = millis
      BY <1>0, <2>3 DEF MillisLow, MicrosInv, clock
    <3> QED
      BY <1>0, <2>1, <3>1 DEF MicrosInv, Places
  <2>4. CASE MillisHigh
    <3>1. pc' = "idle" /\ to = "idle"
      BY <1>0, <2>4 DEF MillisHigh, MicrosInv
    <3> QED
      BY <1>0, <2>1, <3>1 DEF MicrosInv, Places, Returns
  <2> QED
    BY <1>7, <2>2, <2>3, <2>4 DEF Loads
<1>8. CASE SetInterrupts
  BY <1>0, <1>8 DEF SetInterrupts, MicrosInv, thread
<1>9. CASE Local
  BY <1>0, <1>9 DEF Local, MicrosInv, Places
<1>10. CASE UNCHANGED vars
  <2>1. Still
    BY <1>10, KindsAreStill
  <2>2. Now' = Now /\ Handled' = Handled
    BY <2>1, NowMoves
  <2>3. ReadTime' = ReadTime
    BY <1>10, <2>2 DEF ReadTime, OverflowSeen, vars, thread
  <2> QED
    BY <1>0, <1>10, <2>2, <2>3 DEF MicrosInv, vars, thread, timer, clock
<1> QED
  BY <1>1, <1>2, <1>3, <1>4, <1>5, <1>6, <1>7, <1>8, <1>9, <1>10, StepKinds DEF Reads

(* What micros() returns: the time TCNT0 was read, at most a tick ago. *)
LEMMA MicrosResult ==
  ASSUME ClockInv, MicrosInv, MicrosTov
  PROVE  /\ m' = Unsigned(ReadTime * Ratio)
         /\ ReadTime \in 0..Now /\ Now <= ReadTime + 1
         /\ Now' = Now /\ pc' = to /\ lag' = 0
<1>1. /\ t \in 0..(TimerSize - 1) /\ Now = ReadTime + lag /\ lag \in Nat /\ lag <= 1
      /\ m = count /\ count = Unsigned(Handled)
  BY DEF MicrosTov, MicrosInv, ClockInv, Reading, ReadPlaces
<1>2. ReadTime \in Nat /\ Handled \in Nat
  BY <1>1, ReadTimeIs, NowMoves
<1>3. Now' = Now
  <2>1. Still
    BY DEF MicrosTov, Still
  <2> QED
    BY <2>1, NowMoves
<1>4. TimerSize \in Nat /\ Ratio \in Nat /\ t \in Nat
  BY <1>1, Numbers
<1>5. m \in Nat
  BY <1>1, <1>2, UnsignedIs, Numbers
<1> DEFINE period == TimerSize * Ratio
           c == IF OverflowSeen THEN period + t * Ratio ELSE t * Ratio
<1>6. period \in Nat /\ c \in Nat
  BY <1>4
<1>7. ASSUME NEW n \in Nat
      PROVE  ((IF OverflowSeen THEN n + 1 ELSE n) * TimerSize + t) * Ratio = n * period + c
  <2>1. ((n + 1) * TimerSize + t) * Ratio = n * (TimerSize * Ratio) + (TimerSize * Ratio + t * Ratio)
    BY <1>4
  <2>2. (n * TimerSize + t) * Ratio = n * (TimerSize * Ratio) + t * Ratio
    BY <1>4
  <2> QED
    BY <2>1, <2>2
<1>8. m' = Unsigned(((IF OverflowSeen THEN m + 1 ELSE m) * TimerSize + t) * Ratio)
  BY Zenon DEF MicrosTov, Unsigned
<1>9. ReadTime * Ratio = Handled * period + c
  BY <1>2, <1>7 DEF ReadTime
<1>10. m' = Unsigned(m * period + c)
  BY <1>5, <1>7, <1>8
<1> HIDE DEF period, c
<1>11. Unsigned(Unsigned(Handled) * period + c) = Unsigned(Handled * period + c)
  BY <1>2, <1>6, UnsignedIs
<1>12. m' = Unsigned(ReadTime * Ratio)
  BY <1>1, <1>9, <1>10, <1>11, Zenon
<1> QED
  BY <1>1, <1>2, <1>3, <1>12 DEF MicrosTov

-----------------------------------------------------------------------------
(* What a call of micros() returns is no earlier than x. *)

LEMMA NowTimes ==
  ASSUME ClockInv
  PROVE  Now * Ratio \in Nat /\ \A n \in 0..Now : n * Ratio \in Nat /\ n * Ratio <= Now * Ratio
<1>1. Now \in Nat /\ Ratio \in Nat
  BY NowMoves, Numbers
<1> QED
  BY <1>1, TimesMonotone

LEMMA AtLeastEnter ==
  ASSUME ClockInv, NEW from, EnterMicros(from), NEW x \in Nat, x <= Now * Ratio
  PROVE  AtLeast(x)'
<1>1. Now' = Now /\ pc' = "micros_count"
  <2>1. Still
    BY DEF EnterMicros, Still
  <2> QED
    BY <2>1, NowMoves DEF EnterMicros
<1> QED
  BY <1>1 DEF AtLeast, Reading, ReadPlaces

Quiet == (Tick \/ OverflowInterrupt \/ Reads \/ UNCHANGED vars) /\ UNCHANGED delayVars

LEMMA QuietPlaces ==
  ASSUME MicrosInv, Quiet
  PROVE  /\ \A p \in Returns : p # "idle" => Doing(p)' = Doing(p)
         /\ \A p \in Places \ (Returns \cup ReadPlaces) : (pc' = p) = (pc = p)
<1>1. to \in Returns /\ (to = "idle" \/ Reading) /\ pc \in Places
  BY DEF MicrosInv
<1>2. CASE UNCHANGED <<pc, to>>
  BY <1>2 DEF Doing
<1>3. CASE Reads
  <2>1. Reading /\ ((pc' \in ReadPlaces /\ to' = to) \/ (pc' = to /\ to' = "idle"))
    <3>1. CASE MicrosCount
      BY <3>1 DEF MicrosCount, Reading, ReadPlaces
    <3>2. CASE MicrosTcnt
      BY <3>2 DEF MicrosTcnt, Reading, ReadPlaces
    <3>3. CASE MicrosTov
      BY <3>3 DEF MicrosTov, Reading, ReadPlaces
    <3> QED
      BY <1>3, <3>1, <3>2, <3>3 DEF Reads
  <2> QED
    BY <1>1, <2>1 DEF Doing, Reading, ReadPlaces, Returns, Places
<1> QED
  BY <1>2, <1>3 DEF Quiet, Tick, OverflowInterrupt, vars, thread

LEMMA NowQuiet ==
  ASSUME ClockInv, Quiet
  PROVE  Now' \in Nat /\ Now \in Nat /\ Now <= Now' /\ Now' <= Now + 1
<1>1. Tick \/ OverflowInterrupt \/ Still
  BY KindsAreStill DEF Quiet
<1> QED
  BY <1>1, NowMoves

LEMMA AtLeastKept ==
  ASSUME ClockInv, MicrosInv, MicrosInv', Quiet, pc # "idle", NEW x \in Nat, AtLeast(x)
  PROVE  AtLeast(x)'
<1> USE DEF Reading, ReadPlaces
<1>0. Now \in Nat /\ Now' \in Nat /\ Ratio \in Nat
  BY NowQuiet, Numbers
<1>1. CASE Tick
  <2>1. Now' = Now + 1 /\ pc' = pc /\ m' = m /\ t' = t /\ lag' = lag + 1 /\ lag \in Nat
    BY <1>1, NowMoves DEF Tick, MicrosInv
  <2>2. Now * Ratio <= Now' * Ratio /\ Now * Ratio \in Nat /\ Now' * Ratio \in Nat
    BY <1>0, <2>1, TimesMonotone
  <2>3. CASE pc \in {"micros_count", "micros_tcnt"}
    <3>1. x <= Now * Ratio
      BY <2>3 DEF AtLeast
    <3>2. x <= Now' * Ratio
      BY <2>2, <3>1
    <3> QED
      BY <2>1, <2>3, <3>2 DEF AtLeast
  <2>4. CASE pc = "micros_tov"
    <3>1. t \in 0..(TimerSize - 1) /\ Now = ReadTime + lag /\ Now' = ReadTime' + lag'
      BY <2>1, <2>4 DEF MicrosInv
    <3>2. ReadTime \in Nat
      BY <3>1, ReadTimeIs
    <3>3. ReadTime' \in Nat
      <4>1. Handled' \in Nat
        BY <1>1, NowMoves
      <4>2. \A h \in Nat : h * TimerSize \in Nat /\ (h + 1) * TimerSize \in Nat
        BY Numbers
      <4>3. t' \in Nat
        BY <2>1, <3>1, Numbers
      <4> QED
        BY <4>1, <4>2, <4>3 DEF ReadTime
    <3>4. ReadTime' = ReadTime
      <4>1. ReadTime' + (lag + 1) = ReadTime + lag + 1
        BY <2>1, <3>1
      <4>2. \A a, b, c \in Nat : a + (c + 1) = b + c + 1 => a = b
        OBVIOUS
      <4>3. lag \in Nat
        BY <2>1
      <4> QED
        BY <4>1, <4>2, <4>3, <3>2, <3>3, Zenon
    <3> QED
      BY <2>1, <2>4, <3>4 DEF AtLeast
  <2>5. CASE ~Reading
    <3>1. PICK y \in 0..Now : x <= y * Ratio /\ m = Unsigned(y * Ratio) /\ Now <= y + 1 + lag
      BY <2>5 DEF AtLeast
    <3>2. y \in 0..Now' /\ Now' <= y + 1 + lag'
      BY <1>0, <2>1, <3>1
    <3> QED
      BY <2>1, <2>5, <3>1, <3>2 DEF AtLeast, Unsigned
  <2> QED
    BY <2>3, <2>4, <2>5
<1>2. CASE MicrosCount
  <2>1. Now' = Now /\ pc = "micros_count" /\ pc' = "micros_tcnt"
    BY <1>2, KindsAreStill, NowMoves DEF MicrosCount, Reads
  <2> QED
    BY <2>1 DEF AtLeast
<1>3. CASE MicrosTcnt
  <2>1. ReadTime' = Now /\ pc = "micros_tcnt" /\ pc' = "micros_tov"
    BY <1>3, ReadTimeNow DEF MicrosTcnt
  <2> QED
    BY <2>1 DEF AtLeast
<1>4. CASE MicrosTov
  <2>1. /\ m' = Unsigned(ReadTime * Ratio) /\ ReadTime \in 0..Now' /\ Now' <= ReadTime + 1
        /\ pc' = to /\ to \in Returns /\ lag' = 0
    BY <1>4, MicrosResult DEF MicrosInv
  <2>2. x <= ReadTime * Ratio
    BY <1>4 DEF AtLeast, MicrosTov
  <2>3. pc' \notin ReadPlaces
    BY <2>1 DEF Returns
  <2>4. Now' <= ReadTime + 1 + lag'
    BY <2>1, <1>0
  <2> QED
    BY <2>1, <2>2, <2>3, <2>4 DEF AtLeast, Unsigned
<1>5. CASE OverflowInterrupt
  <2>1. Now' = Now /\ UNCHANGED <<pc, m, lag>> /\ ~Reading
    BY <1>5, NowMoves DEF OverflowInterrupt, thread, MicrosInv
  <2> QED
    BY <2>1 DEF AtLeast, Unsigned
<1>6. CASE UNCHANGED vars
  <2>1. Now' = Now /\ Handled' = Handled
    BY <1>6, KindsAreStill, NowMoves
  <2>2. UNCHANGED <<pc, m, lag, t, tov>>
    BY <1>6 DEF vars, thread
  <2>3. ReadTime' = ReadTime
    BY <2>1, <2>2 DEF ReadTime, OverflowSeen
  <2> QED
    BY <2>1, <2>2, <2>3 DEF AtLeast, Unsigned
<1> QED
  BY <1>1, <1>2, <1>3, <1>4, <1>5, <1>6 DEF Quiet, Reads

-----------------------------------------------------------------------------
(* delay() *)

Elsewhere ==
  /\ Still /\ ms' = ms
  /\ asked' \in {asked, 0} /\ called' \in {called, 0, Now}
  /\ \A p \in {"delay_start", "delay_loop", "delay_check"} : ~Doing(p)'

LEMMA DelayKinds ==
  ASSUME MicrosInv, [PulseNext]_allvars
  PROVE  Quiet \/ Elsewhere \/ (\E d \in Delays : Delay(d)) \/ DelayStart \/ DelayLoop \/ DelayCheck
<1>1. Reading \/ to = "idle"
  BY DEF MicrosInv
<1> USE DEF Doing, Reading, ReadPlaces
<1>2. CASE PulseTick
  BY <1>2 DEF PulseTick, Quiet, Tick
<1>3. CASE Edge
  BY <1>3 DEF Edge, Quiet, vars
<1>4. CASE Others
  <2>1. CASE Main
    <3>1. CASE Reads
      BY <3>1 DEF Quiet, Reads, MicrosCount, MicrosTcnt, MicrosTov
    <3>2. CASE MillisLow \/ MillisHigh
      BY <1>1, <3>2 DEF MillisLow, MillisHigh, Elsewhere, delayVars, Still
    <3> QED
      BY <2>1, <3>1, <3>2 DEF Main, Reads
  <2>2. CASE OverflowInterrupt
    BY <2>2 DEF OverflowInterrupt, Quiet
  <2>3. CASE Micros
    BY <2>3 DEF Micros, EnterMicros, Elsewhere, Still, delayVars
  <2>4. CASE Millis \/ SetInterrupts
    BY <1>1, <2>4 DEF Millis, SetInterrupts, Elsewhere, Still, delayVars, thread
  <2> QED
    BY <1>4, <2>1, <2>2, <2>3, <2>4 DEF Others
<1>5. CASE PulseMain
  <2> USE <1>1 DEF Goto, Return, EnterMicros, Elsewhere, Still, delayVars, pulse
  <2>1. CASE PulseBegin
    BY <2>1 DEF PulseBegin
  <2>2. CASE Wait1 \/ Wait2 \/ Wait3
    BY <2>2 DEF Wait1, Wait2, Wait3, Wait
  <2>3. CASE PreviousOver \/ PulseStarts \/ PulseStops
    BY <2>3 DEF PreviousOver, PulseStarts, PulseStops
  <2>4. CASE PulseCheck
    BY <2>4 DEF PulseCheck, Check
  <2>5. CASE PulseStart \/ PulseEnd
    BY <2>5 DEF PulseStart, PulseEnd
  <2>6. CASE CountPrevious \/ CountGap
    BY <2>6 DEF CountPrevious, CountGap, CountBefore
  <2>7. CASE CountStop
    BY <2>7 DEF CountStop
  <2> QED
    BY <1>5, <2>1, <2>2, <2>3, <2>4, <2>5, <2>6, <2>7 DEF PulseMain
<1>6. ASSUME NEW u \in Timeouts, PulseInLong(u) \/ PulseIn(u)
      PROVE  Elsewhere
  BY <1>1, <1>6 DEF PulseInLong, PulseIn, Called, EnterMicros, Elsewhere, Still, delayVars
<1>7. CASE UNCHANGED allvars
  BY <1>7 DEF allvars, Quiet, vars
<1> QED
  BY <1>2, <1>3, <1>4, <1>5, <1>6, <1>7 DEF PulseNext

LEMMA DelayStep ==
  ASSUME ClockInv, MicrosInv, MicrosInv', DelayInv, [PulseNext]_allvars
  PROVE  DelayInv'
<1>0. /\ ms \in Nat /\ asked \in Nat /\ called \in 0..Now /\ Now \in Nat
      /\ Ratio \in Nat /\ Milli \in Nat
      /\ to \in Returns /\ (Reading \/ to = "idle")
  BY NowMoves, Numbers DEF DelayInv, MicrosInv
<1>1. CASE Quiet
  <2>1. UNCHANGED <<ms, start, asked, called>> /\ Now' \in Nat /\ Now <= Now'
    BY <1>1, NowQuiet DEF Quiet, delayVars
  <2>2. /\ Doing("delay_start")' = Doing("delay_start")
        /\ Doing("delay_check")' = Doing("delay_check")
        /\ (pc' = "delay_loop") = (pc = "delay_loop")
    BY <1>1, QuietPlaces DEF Returns, Places, ReadPlaces
  <2>3. Doing("delay_start") \/ Doing("delay_check") => pc # "idle"
    BY <1>0 DEF Doing, Reading, ReadPlaces
  <2>4. ASSUME NEW x \in Nat, Doing("delay_start") \/ Doing("delay_check"), AtLeast(x)
        PROVE  AtLeast(x)'
    BY <1>1, <2>3, <2>4, AtLeastKept
  <2>5. ASSUME Doing("delay_start")'
        PROVE  (ms = asked /\ AtLeast(called * Ratio))'
    <3>1. PICK x \in Nat : x = called * Ratio
      BY <1>0
    <3>2. ms = asked /\ AtLeast(x)
      BY <2>2, <2>5, <3>1 DEF DelayInv
    <3>3. AtLeast(x)' /\ x = called' * Ratio
      BY <2>1, <2>2, <2>4, <2>5, <3>1, <3>2
    <3> QED
      BY <2>1, <3>2, <3>3 DEF AtLeast
  <2>6. ASSUME (pc = "delay_loop" \/ Doing("delay_check"))'
        PROVE  (ms <= asked /\ \E s \in 0..(Now * Ratio) : Counted(s))'
    <3>1. PICK s \in 0..(Now * Ratio) : Counted(s)
      BY <2>2, <2>6 DEF DelayInv
    <3>2. s \in 0..(Now' * Ratio)
      <4>1. Now * Ratio \in Nat /\ Now' * Ratio \in Nat /\ Now * Ratio <= Now' * Ratio
        BY <1>0, <2>1, TimesMonotone
      <4> QED
        BY <4>1
    <3>3. Doing("delay_check")' => AtLeast(s)'
      BY <2>2, <2>4, <3>1 DEF Counted
    <3>4. Counted(s)'
      BY <2>1, <2>2, <3>1, <3>3 DEF Counted, Unsigned
    <3>5. ms' <= asked'
      BY <2>1, <2>2, <2>6 DEF DelayInv
    <3> QED
      BY <3>2, <3>4, <3>5
  <2>7. ms' \in Nat /\ asked' \in Nat /\ called' \in 0..Now'
    BY <1>0, <2>1
  <2> QED
    BY <2>5, <2>6, <2>7, Zenon DEF DelayInv
<1>2. CASE Elsewhere
  <2>1. Now' = Now
    BY <1>2, NowMoves DEF Elsewhere
  <2> QED
    BY <1>0, <1>2, <2>1 DEF Elsewhere, DelayInv, Doing
<1>3. ASSUME NEW d \in Delays, Delay(d)
      PROVE  DelayInv'
  <2>1. /\ ms' = d /\ asked' = d /\ called' = Now /\ d \in Nat
        /\ pc' = "micros_count" /\ to' = "delay_start" /\ Still
    BY <1>3, Numbers DEF Delay, EnterMicros, Still
  <2>2. Now' = Now
    BY <2>1, NowMoves
  <2>3. Now * Ratio <= Now * Ratio
    BY <1>0
  <2>4. AtLeast(called * Ratio)'
    BY <2>1, <2>2, <2>3 DEF AtLeast, Reading, ReadPlaces
  <2>5. ~Doing("delay_check")'
    BY <2>1 DEF Doing
  <2> QED
    BY <1>0, <2>1, <2>2, <2>4, <2>5 DEF DelayInv
<1>4. CASE DelayStart
  <2>1. /\ UNCHANGED <<ms, asked, called>> /\ start' = m /\ pc' = "delay_loop" /\ to' = "idle"
        /\ Still /\ Doing("delay_start") /\ ~Reading
    BY <1>0, <1>4 DEF DelayStart, Still, Doing, Reading, ReadPlaces
  <2>2. Now' = Now
    BY <2>1, NowMoves
  <2>3. ms = asked /\ AtLeast(called * Ratio)
    BY <2>1 DEF DelayInv
  <2>4. PICK y \in 0..Now : called * Ratio <= y * Ratio /\ m = Unsigned(y * Ratio)
    BY <2>1, <2>3 DEF AtLeast
  <2>5. PICK s \in Nat : s = y * Ratio
    BY <1>0, <2>4
  <2>6. s \in 0..(Now' * Ratio) /\ called' * Ratio <= s /\ start' = Unsigned(s)
    BY <2>1, <2>2, <2>4, <2>5, NowTimes
  <2>7. called' * Ratio + (asked' - ms') * Milli <= s
    <3>1. (asked' - ms') * Milli = 0
      BY <1>0, <2>1, <2>3
    <3>2. called' * Ratio \in Nat
      BY <1>0, <2>1
    <3> QED
      BY <2>5, <2>6, <3>1, <3>2
  <2>8. ~Doing("delay_check")' /\ ~Doing("delay_start")'
    BY <2>1 DEF Doing
  <2>9. Counted(s)'
    BY <2>6, <2>7, <2>8 DEF Counted, Unsigned
  <2> QED
    BY <1>0, <2>1, <2>2, <2>3, <2>6, <2>8, <2>9 DEF DelayInv
<1>5. CASE DelayLoop
  <2>1. PICK s \in 0..(Now * Ratio) : Counted(s) /\ ms <= asked
    BY <1>5 DEF DelayLoop, DelayInv
  <2>2. Still
    BY <1>5 DEF DelayLoop, EnterMicros, Still
  <2>3. Now' = Now
    BY <2>2, NowMoves
  <2>4. CASE ms > 0
    <3>1. /\ UNCHANGED <<ms, start, asked, called>> /\ EnterMicros("delay_check")
          /\ pc' = "micros_count" /\ to' = "delay_check"
      BY <1>5, <2>4 DEF DelayLoop, EnterMicros, delayVars
    <3>2. AtLeast(s)'
      <4>1. s \in Nat /\ s <= Now * Ratio
        BY <2>1, NowTimes
      <4> QED
        BY <3>1, <4>1, AtLeastEnter
    <3>3. Counted(s)'
      BY <2>1, <2>4, <3>1, <3>2 DEF Counted, Unsigned
    <3>4. ~Doing("delay_start")'
      BY <3>1 DEF Doing
    <3> QED
      BY <1>0, <2>1, <2>3, <3>1, <3>3, <3>4 DEF DelayInv
  <2>5. CASE ~(ms > 0)
    <3>1. ms' = ms /\ asked' = 0 /\ called' = 0 /\ pc' = "idle" /\ to' = to /\ to = "idle"
      BY <1>0, <1>5, <2>5 DEF DelayLoop, Reading, ReadPlaces
    <3> QED
      BY <1>0, <2>3, <3>1 DEF DelayInv, Doing
  <2> QED
    BY <2>4, <2>5
<1>6. CASE DelayCheck
  <2>1. /\ Still /\ pc' = "delay_loop" /\ to' = "idle" /\ UNCHANGED <<asked, called>>
        /\ Doing("delay_check") /\ ~Reading
    BY <1>0, <1>6 DEF DelayCheck, Still, Doing, Reading, ReadPlaces
  <2>2. Now' = Now
    BY <2>1, NowMoves
  <2>3. PICK s \in 0..(Now * Ratio) : Counted(s) /\ ms <= asked
    BY <2>1 DEF DelayInv
  <2>4. ms > 0 /\ AtLeast(s) /\ s \in Nat /\ start = Unsigned(s)
        /\ called * Ratio + (asked - ms) * Milli <= s
    BY <2>1, <2>3, NowTimes DEF Counted
  <2>5. PICK y \in 0..Now : s <= y * Ratio /\ m = Unsigned(y * Ratio)
    BY <2>1, <2>4 DEF AtLeast
  <2>6. ~Doing("delay_start")' /\ ~Doing("delay_check")'
    BY <2>1 DEF Doing
  <2>7. CASE Elapsed
    <3>1. Unsigned(Unsigned(y * Ratio) + ULong - Unsigned(s)) = Unsigned(y * Ratio - s)
          /\ Unsigned(y * Ratio - s) <= y * Ratio - s
      <4>1. y * Ratio \in Nat /\ y * Ratio - s \in Nat
        BY <2>4, <2>5, NowTimes
      <4> QED
        BY <2>4, <2>5, <4>1, UnsignedIs
    <3>2. Milli <= Unsigned(Unsigned(y * Ratio) + ULong - Unsigned(s))
      <4>1. Milli <= Unsigned(m + ULong - start)
        <5>1. Unsigned(m + ULong - start) >= Milli
          BY <2>7, Zenon DEF Elapsed, Unsigned
        <5> QED
          BY <5>1
      <4> QED
        BY <4>1, <2>4, <2>5
    <3>3. Milli <= y * Ratio - s
      <4>1. y * Ratio \in Nat /\ y * Ratio - s \in Nat
        BY <2>4, <2>5, NowTimes
      <4>2. Unsigned(y * Ratio - s) \in Nat
        BY <4>1, UnsignedNat
      <4> QED
        BY <3>1, <3>2, <4>1, <4>2, <1>0
    <3>4. s + Milli <= Now * Ratio /\ s + Milli \in Nat
      BY <1>0, <2>4, <2>5, <3>3, NowTimes
    <3>5. ms' = ms - 1 /\ start' = Unsigned(start + Milli)
      BY <1>6, <2>7, Zenon DEF DelayCheck, Unsigned
    <3>6. start' = Unsigned(s + Milli)
      BY <1>0, <2>4, <3>5, UnsignedIs
    <3>7. called * Ratio + (asked - (ms - 1)) * Milli <= s + Milli
      <4>1. (asked - (ms - 1)) * Milli = (asked - ms) * Milli + Milli
        BY <1>0
      <4>2. called * Ratio \in Nat /\ (asked - ms) * Milli \in Int
        BY <1>0
      <4> QED
        BY <4>1, <4>2, <2>4, <1>0
    <3>8. ms' \in Nat /\ ms' <= asked
      BY <1>0, <2>3, <2>4, <3>5
    <3>9. Counted(s + Milli)'
      BY <2>1, <2>6, <3>5, <3>6, <3>7 DEF Counted, Unsigned
    <3>10. s + Milli \in 0..(Now' * Ratio)
      BY <2>2, <3>4, NowTimes
    <3> QED
      BY <1>0, <2>1, <2>2, <2>6, <3>8, <3>9, <3>10 DEF DelayInv
  <2>8. CASE ~Elapsed
    <3>1. ms' = ms /\ start' = start
      BY <1>6, <2>8 DEF DelayCheck
    <3>2. Counted(s)'
      BY <2>1, <2>3, <2>6, <3>1 DEF Counted, Unsigned
    <3> QED
      BY <1>0, <2>1, <2>2, <2>3, <2>6, <3>1, <3>2 DEF DelayInv
  <2> QED
    BY <2>7, <2>8
<1> QED
  BY <1>1, <1>2, <1>3, <1>4, <1>5, <1>6, DelayKinds

-----------------------------------------------------------------------------
(* The kinds of steps, for the two measurements *)

PulsePlaces ==
  {"pulse_begin", "pulse_previous", "pulse_previous_check", "pulse_gap", "pulse_gap_check",
   "pulse_start", "pulse_stop", "pulse_stop_check", "pulse_end"}
CountPlaces == {"count_previous", "count_gap", "count_stop"}

Watching == Quiet /\ (PulseTick \/ Edge \/ UNCHANGED pulse)
Aside ==
  /\ UNCHANGED pulse /\ Still
  /\ {pc, to, pc', to'} \cap (PulsePlaces \cup CountPlaces) = {}

LEMMA PulseKinds ==
  ASSUME MicrosInv, [PulseNext]_allvars
  PROVE  Watching \/ Aside \/ PulseMain \/ \E u \in Timeouts : PulseInLong(u) \/ PulseIn(u)
<1>1. Reading \/ to = "idle"
  BY DEF MicrosInv
<1> USE DEF Reading, ReadPlaces
<1>2. CASE PulseTick
  BY <1>2 DEF PulseTick, Watching, Quiet, Tick
<1>3. CASE Edge
  BY <1>3 DEF Edge, Watching, Quiet, vars
<1>4. CASE Others
  <2>0. UNCHANGED pulse
    BY <1>4 DEF Others
  <2>1. CASE Reads \/ OverflowInterrupt
    BY <2>0, <2>1 DEF Watching, Quiet, OverflowInterrupt, Reads, MicrosCount, MicrosTcnt, MicrosTov
  <2> USE <2>0, <1>1 DEF Aside, Still, PulsePlaces, CountPlaces, EnterMicros
  <2>2. CASE MillisLow \/ MillisHigh
    BY <2>2 DEF MillisLow, MillisHigh
  <2>3. CASE DelayStart
    BY <2>3 DEF DelayStart
  <2>4. CASE DelayLoop
    BY <2>4 DEF DelayLoop
  <2>5. CASE DelayCheck
    BY <2>5 DEF DelayCheck
  <2>6. CASE Millis \/ SetInterrupts
    BY <2>6 DEF Millis, SetInterrupts, thread
  <2>7. CASE Micros
    BY <2>7 DEF Micros
  <2>8. ASSUME NEW d \in Delays, Delay(d) PROVE Aside
    BY <2>8 DEF Delay
  <2> QED
    BY <1>4, <2>1, <2>2, <2>3, <2>4, <2>5, <2>6, <2>7, <2>8 DEF Others, Main, Reads
<1>5. CASE UNCHANGED allvars
  BY <1>5 DEF allvars, Watching, Quiet, vars
<1> QED
  BY <1>2, <1>3, <1>4, <1>5 DEF PulseNext

LEMMA WatchingPlaces ==
  ASSUME MicrosInv, Watching
  PROVE  /\ \A p \in PulsePlaces \cup CountPlaces : Doing(p)' = Doing(p)
         /\ \A p \in {"pulse_previous", "pulse_gap", "pulse_stop"} \cup CountPlaces :
              (pc' = p) = (pc = p)
         /\ UNCHANGED <<timeout, startMicros, maxloops, width, ms, start, asked, called>>
<1>1. /\ \A p \in Returns : p # "idle" => Doing(p)' = Doing(p)
      /\ \A p \in Places \ (Returns \cup ReadPlaces) : (pc' = p) = (pc = p)
  BY QuietPlaces DEF Watching
<1>2. \A p \in {"pulse_previous", "pulse_gap", "pulse_stop"} \cup CountPlaces :
        /\ (pc' = p) = (pc = p)
        /\ to # p /\ to' # p
  <2>1. to \in Returns /\ to' \in Returns
    BY DEF MicrosInv, Watching, Quiet, Tick, OverflowInterrupt, Reads, MicrosCount, MicrosTcnt,
           MicrosTov, vars, thread, Returns
  <2> QED
    BY <1>1, <2>1 DEF Places, Returns, ReadPlaces, CountPlaces
<1>3. \A p \in PulsePlaces \cup CountPlaces :
        p \in Returns \ {"idle"} \/ p \in {"pulse_previous", "pulse_gap", "pulse_stop"} \cup CountPlaces
  BY DEF PulsePlaces, CountPlaces, Returns
<1>4. \A p \in {"pulse_previous", "pulse_gap", "pulse_stop"} \cup CountPlaces : Doing(p)' = Doing(p)
  BY <1>2 DEF Doing
<1>5. UNCHANGED <<timeout, startMicros, maxloops, width, ms, start, asked, called>>
  BY DEF Watching, Quiet, delayVars, PulseTick, Edge, pulse
<1> QED
  BY <1>1, <1>2, <1>3, <1>4, <1>5

-----------------------------------------------------------------------------
(* pulseIn() *)

(* The steps of pulseInLong. *)
Timing ==
  \/ PulseBegin \/ Wait1 \/ Wait2 \/ Wait3
  \/ PreviousOver \/ PulseStarts \/ PulseStops \/ PulseCheck \/ PulseStart \/ PulseEnd

LEMMA TurnsFit ==
  ASSUME NEW n \in Nat, NEW u \in Timeouts, n * LoopCycles <= u * Cycles
  PROVE  n < ULong
<1>1. u * Cycles < ULong /\ u * Cycles \in Nat /\ LoopCycles \in Nat /\ LoopCycles >= 1 /\ ULong \in Nat
  BY PulseAssumption, Numbers
<1>2. n * LoopCycles >= n /\ n * LoopCycles \in Nat
  BY <1>1
<1> QED
  BY <1>1, <1>2

LEMMA CountStep ==
  ASSUME MicrosInv, CountInv, [PulseNext]_allvars
  PROVE  CountInv'
<1>0. /\ width \in Nat /\ maxloops \in Nat /\ ULong \in Nat \ {0}
      /\ Cycles \in Nat \ {0} /\ LoopCycles \in Nat \ {0} /\ 1 < ULong
      /\ to \in Returns /\ (Reading \/ to = "idle")
  BY Numbers DEF CountInv, MicrosInv
<1>1. Measuring = \E p \in PulsePlaces \cup CountPlaces : Doing(p)
  BY <1>0 DEF Measuring, Counting, Before, InPulse, Doing, PulsePlaces, CountPlaces, Returns
<1>2. CASE Watching
  <2>1. /\ \A p \in PulsePlaces \cup CountPlaces : Doing(p)' = Doing(p)
        /\ \A p \in CountPlaces : (pc' = p) = (pc = p)
        /\ UNCHANGED <<timeout, maxloops, width>>
    BY <1>2, WatchingPlaces
  <2>2. Counting' = Counting /\ (pc' \in {"count_previous", "count_gap"}) = (pc \in {"count_previous", "count_gap"})
    BY <2>1 DEF Counting, CountPlaces
  <2>3. Measuring' => Measuring
    BY <1>1, <2>1 DEF Measuring, Counting, Before, InPulse, Doing, PulsePlaces, CountPlaces
  <2> QED
    BY <2>1, <2>2, <2>3 DEF CountInv
<1>3. CASE Aside
  BY <1>3 DEF Aside, CountInv, Measuring, Counting, Before, InPulse, PulsePlaces, CountPlaces, pulse
<1>4. ASSUME NEW u \in Timeouts, PulseInLong(u)
      PROVE  CountInv'
  <2>1. /\ timeout' = u /\ width' = width /\ maxloops' = maxloops /\ width = 0
        /\ pc' = "micros_count"
    BY <1>4 DEF PulseInLong, Called, EnterMicros, CountInv, Counting
  <2> QED
    BY <1>0, <2>1 DEF CountInv, Counting
<1>5. ASSUME NEW u \in Timeouts, PulseIn(u)
      PROVE  CountInv'
  <2>1. /\ timeout' = u /\ width' = width /\ width = 0
        /\ maxloops' = ((u * Cycles) % ULong) \div LoopCycles /\ pc' = "count_previous"
    BY <1>5 DEF PulseIn, Called, CountInv, Counting
  <2>2. u \in Nat /\ LoopCycles <= u * Cycles /\ u * Cycles < ULong
    BY PulseAssumption
  <2>3. PICK n \in Nat : n = u * Cycles
    BY <1>0, <2>2
  <2>4. n % ULong = n
    BY <1>0, <2>2, <2>3, ModSmall
  <2>5. maxloops' = n \div LoopCycles
    BY <2>1, <2>3, <2>4, Zenon
  <2>6. /\ n % LoopCycles \in 0..(LoopCycles - 1) /\ n \div LoopCycles \in Nat
        /\ n = (n \div LoopCycles) * LoopCycles + (n % LoopCycles)
    BY <1>0, DivMod
  <2>7. PICK q \in Nat : maxloops' = q /\ q * LoopCycles <= n /\ n - q * LoopCycles < LoopCycles
    <3>1. (n \div LoopCycles) * LoopCycles \in Nat
      BY <1>0, <2>6
    <3> QED
      BY <1>0, <2>5, <2>6, <3>1
  <2>8. q # 0
    BY <1>0, <2>2, <2>3, <2>7
  <2> QED
    BY <1>0, <2>1, <2>2, <2>3, <2>7, <2>8 DEF CountInv, Counting
<1>6. ASSUME Timing
      PROVE  CountInv'
  <2>1. /\ ~Counting /\ ~Counting' /\ Measuring
        /\ width' \in {width, 0} /\ maxloops' \in {maxloops, 0}
        /\ timeout' = timeout \/ ~Measuring'
    <3> USE <1>0 DEF Goto, Return, EnterMicros, Measuring, Counting, Before, InPulse, pulse,
                    Reading, ReadPlaces
    <3>1. CASE PulseBegin
      BY <3>1 DEF PulseBegin
    <3>2. CASE Wait1 \/ Wait2 \/ Wait3
      BY <3>2 DEF Wait1, Wait2, Wait3, Wait
    <3>3. CASE PreviousOver \/ PulseStarts \/ PulseStops
      BY <3>3 DEF PreviousOver, PulseStarts, PulseStops
    <3>4. CASE PulseCheck
      BY <3>4 DEF PulseCheck, Check
    <3>5. CASE PulseStart \/ PulseEnd
      BY <3>5 DEF PulseStart, PulseEnd
    <3> QED
      BY <1>6, <3>1, <3>2, <3>3, <3>4, <3>5 DEF Timing
  <2> QED
    BY <1>0, <2>1 DEF CountInv, Counting
<1>7. ASSUME NEW r, Return(r), Counting
      PROVE  CountInv'
  <2>1. width' = 0 /\ maxloops' = 0 /\ pc' = "idle" /\ to' = "idle"
    BY <1>0, <1>7 DEF Return, Counting, Reading, ReadPlaces
  <2> QED
    BY <2>1 DEF CountInv, Measuring, Counting, Before, InPulse
<1>8. ASSUME NEW here \in {"count_previous", "count_gap"}, NEW while,
             NEW next \in {"count_gap", "count_stop"}, CountBefore(here, while, next)
      PROVE  CountInv'
  <2>1. /\ Counting /\ Measuring /\ width = 0 /\ width < maxloops
        /\ maxloops * LoopCycles <= timeout * Cycles /\ timeout \in Timeouts
    BY <1>8 DEF CountBefore, Counting, Measuring, CountInv
  <2>2. CASE pc' = next /\ UNCHANGED <<width, maxloops, timeout>>
    BY <1>0, <2>1, <2>2 DEF CountInv, Counting
  <2>3. CASE Return(0)
    BY <2>1, <2>3, <1>7
  <2>4. CASE /\ maxloops # 1 /\ maxloops' = (maxloops + ULong - 1) % ULong
             /\ pc' = here /\ UNCHANGED <<width, timeout>>
    <3>1. maxloops < ULong
      BY <1>0, <2>1, TurnsFit
    <3>2. maxloops' = maxloops - 1
      <4>1. Unsigned(Unsigned(maxloops) + ULong - Unsigned(1)) = Unsigned(maxloops - 1)
        BY <1>0, <2>1, UnsignedIs
      <4>2. /\ Unsigned(maxloops) = maxloops /\ Unsigned(1) = 1
            /\ Unsigned(maxloops - 1) = maxloops - 1
        BY <1>0, <2>1, <3>1, UnsignedNat
      <4>3. maxloops' = Unsigned(maxloops + ULong - 1)
        BY <2>4, Zenon DEF Unsigned
      <4> QED
        BY <4>1, <4>2, <4>3, Zenon
    <3>3. (maxloops - 1) * LoopCycles <= maxloops * LoopCycles
      BY <1>0, <2>1, TimesMonotone
    <3>4. \A x \in Timeouts : x * Cycles \in Nat
      BY <1>0, Numbers
    <3>5. maxloops * LoopCycles \in Nat /\ (maxloops - 1) * LoopCycles \in Nat
      BY <1>0, <2>1
    <3>6. (maxloops - 1) * LoopCycles <= timeout * Cycles
      BY <2>1, <3>3, <3>4, <3>5
    <3> QED
      BY <1>0, <2>1, <2>4, <3>2, <3>6 DEF CountInv, Counting
  <2> QED
    BY <1>8, <2>2, <2>3, <2>4 DEF CountBefore, Goto, pulse
<1>9. CASE CountStop
  <2>1. /\ Counting /\ Measuring /\ width < maxloops /\ pc = "count_stop"
        /\ maxloops * LoopCycles <= timeout * Cycles /\ timeout \in Timeouts
    BY <1>9 DEF CountStop, Counting, Measuring, CountInv
  <2>2. ASSUME NEW r, Return(r) PROVE CountInv'
    BY <2>1, <2>2, <1>7
  <2>3. CASE /\ ~Full /\ width' = width + 1 /\ pc' = "count_stop"
             /\ UNCHANGED <<timeout, maxloops>>
    BY <1>0, <2>1, <2>3 DEF CountInv, Counting, Full
  <2> QED
    BY <1>9, <2>2, <2>3 DEF CountStop, Goto
<1>10. PulseMain => Timing \/ CountPrevious \/ CountGap \/ CountStop
  BY DEF PulseMain, Timing
<1> QED
  BY <1>2, <1>3, <1>4, <1>5, <1>6, <1>8, <1>9, <1>10, PulseKinds DEF CountPrevious, CountGap

-----------------------------------------------------------------------------
(* pulseInLong() *)

LEMMA Budget ==
  ASSUME NEW x \in Nat, NEW y \in Nat, NEW s \in Nat, NEW n \in Nat, NEW u \in Nat,
         x * Ratio <= u + s * Ratio, y + s <= x + n
  PROVE  y * Ratio <= u + n * Ratio
<1>1. (y + s) * Ratio <= (x + n) * Ratio
  BY TimesMonotone, Numbers
<1>2. (y + s) * Ratio = y * Ratio + s * Ratio /\ (x + n) * Ratio = x * Ratio + n * Ratio
  BY Numbers
<1>3. /\ x * Ratio \in Nat /\ y * Ratio \in Nat /\ s * Ratio \in Nat /\ n * Ratio \in Nat
  BY Numbers
<1> QED
  BY <1>1, <1>2, <1>3

LEMMA Aheads ==
  /\ \A p : Ahead(p) \in Nat /\ Ahead(p) <= 4 + 5 * MaxLag
  /\ \A p \in Looks : Ahead(p) >= 1 + MaxLag
  /\ Ahead("pulse_previous_check") >= Ahead("pulse_previous") + MaxLag
  /\ Ahead("pulse_gap") >= Ahead("pulse_previous") + MaxLag
  /\ Ahead("pulse_gap_check") >= Ahead("pulse_gap") + MaxLag
  /\ Ahead("pulse_start") >= Ahead("pulse_gap") + MaxLag
  /\ Ahead("pulse_stop") >= Ahead("pulse_start") + 3 + MaxLag
  /\ Ahead("pulse_stop_check") >= Ahead("pulse_stop") + MaxLag
  /\ Ahead("pulse_end") >= Ahead("pulse_stop") + MaxLag
  BY Numbers DEF Ahead, Looks

LEMMA Slacks == Slack \in Nat /\ Slack' \in Nat /\ Slack <= 7 + 5 * MaxLag
<1>1. \A p : Ahead(p) \in Nat /\ Ahead(p) <= 4 + 5 * MaxLag
  BY Aheads
<1> QED
  BY <1>1, Numbers DEF Slack

LEMMA SlackKept ==
  ASSUME ClockInv, MicrosInv, Quiet, pc # "idle"
  PROVE  lag \in Nat /\ lag' \in Nat /\ Now' + Slack + lag <= Now + Slack' + lag'
<1>0. /\ Now \in Nat /\ Slack \in Nat /\ lag \in Nat /\ \A p : Ahead(p) \in Nat
      /\ Reading => lag <= 1
  BY NowQuiet, Slacks, Aheads DEF MicrosInv
<1>1. CASE Tick
  <2>1. Now' = Now + 1 /\ pc' = pc /\ to' = to /\ lag' = lag + 1
    BY <1>1, NowMoves DEF Tick
  <2>2. Slack' = Slack
    BY <2>1 DEF Slack
  <2> QED
    BY <1>0, <2>1, <2>2
<1>2. CASE OverflowInterrupt \/ UNCHANGED vars
  <2>1. UNCHANGED <<pc, to, lag>>
    BY <1>2 DEF OverflowInterrupt, vars, thread
  <2>2. Slack' = Slack /\ Now' = Now
    BY <1>2, <2>1, NowMoves, KindsAreStill DEF Slack
  <2> QED
    BY <1>0, <2>1, <2>2
<1>3. CASE Reads
  <2>1. Now' = Now /\ lag' = 0 /\ lag <= 1
    BY <1>0, <1>3, NowMoves, KindsAreStill
       DEF Reads, MicrosCount, MicrosTcnt, MicrosTov, Reading, ReadPlaces
  <2>2. Slack' = Slack + 1
    <3>1. CASE MicrosCount
      BY <1>0, <3>1 DEF MicrosCount, Slack
    <3>2. CASE MicrosTcnt
      BY <1>0, <3>2 DEF MicrosTcnt, Slack
    <3>3. CASE MicrosTov
      <4>1. pc = "micros_tov" /\ pc' = to /\ to \in Returns
        BY <3>3 DEF MicrosTov, MicrosInv
      <4>2. pc' \notin Looks \cup ReadPlaces
        BY <4>1 DEF Looks, ReadPlaces, Returns
      <4>3. Slack = Ahead(to) + 2
        BY <4>1 DEF Slack
      <4>4. Slack' = Ahead(to) + 3
        BY <4>1, <4>2 DEF Slack, ReadPlaces
      <4> QED
        BY <1>0, <4>3, <4>4
    <3> QED
      BY <1>3, <3>1, <3>2, <3>3 DEF Reads
  <2> QED
    BY <1>0, <2>1, <2>2
<1> QED
  BY <1>1, <1>2, <1>3 DEF Quiet

LEMMA Apart ==
  ASSUME MicrosInv, NEW p \in PulsePlaces, NEW q \in PulsePlaces, Doing(p), Doing(q)
  PROVE  p = q
  BY DEF MicrosInv, Doing, Reading, ReadPlaces, PulsePlaces

LEMMA PlacesOf ==
  /\ InPulse = (Doing("pulse_stop") \/ Doing("pulse_stop_check"))
  /\ Before = \E p \in {"pulse_begin", "pulse_previous", "pulse_previous_check", "pulse_gap",
                        "pulse_gap_check"} : Doing(p)
  /\ Checks \cup Looks \cup {"pulse_begin", "pulse_start", "pulse_end"} = PulsePlaces
  /\ Timed = \E p \in PulsePlaces \ {"pulse_begin"} : Doing(p)
  BY DEF InPulse, Before, Doing, Checks, Looks, PulsePlaces, Timed

LEMMA PulseWatching ==
  ASSUME ClockInv, MicrosInv, MicrosInv', DelayInv, CountInv, PulseInv, Watching
  PROVE  PulseInv'
<1>0. /\ held \in Nat /\ rose \in 0..Now /\ called \in 0..Now /\ Ratio \in Nat
      /\ Now \in Nat /\ Now' \in Nat /\ Now <= Now' /\ Quiet
      /\ UNCHANGED <<timeout, startMicros, start, called>>
  BY NowQuiet, WatchingPlaces, Numbers DEF PulseInv, DelayInv, Watching
<1>1. \A p \in PulsePlaces : Doing(p)' = Doing(p)
  BY WatchingPlaces
<1>2. /\ InPulse' = InPulse /\ Before' = Before /\ Timed' = Timed
      /\ (\E p \in Checks : Doing(p))' = \E p \in Checks : Doing(p)
  <2>1. /\ InPulse' = (Doing("pulse_stop")' \/ Doing("pulse_stop_check")')
        /\ Before' = \E p \in {"pulse_begin", "pulse_previous", "pulse_previous_check",
                               "pulse_gap", "pulse_gap_check"} : Doing(p)'
        /\ Timed' = \E p \in PulsePlaces \ {"pulse_begin"} : Doing(p)'
    BY DEF InPulse, Before, Doing, Checks, Looks, PulsePlaces, Timed
  <2> QED
    BY <1>1, <2>1, PlacesOf DEF PulsePlaces, Checks
<1>3. ASSUME NEW p \in PulsePlaces, Doing(p), NEW x \in Nat, AtLeast(x)
      PROVE  AtLeast(x)'
  <2>1. pc # "idle"
    BY <1>3 DEF MicrosInv, Doing, Reading, ReadPlaces, PulsePlaces
  <2> QED
    BY <1>0, <1>3, <2>1, AtLeastKept
<1>4. /\ held' \in Nat /\ held' <= held + (Now' - Now)
      /\ ~InPulse => held' = held
  <2>1. CASE PulseTick
    <3>1. Now' = Now + 1
      BY <2>1, NowMoves DEF PulseTick
    <3> QED
      BY <1>0, <2>1, <3>1 DEF PulseTick
  <2>2. CASE Edge \/ UNCHANGED pulse
    BY <1>0, <2>2 DEF Edge, pulse
  <2> QED
    BY <2>1, <2>2 DEF Watching
<1>5. rose' \in 0..Now' /\ (~Before => rose' = rose)
  <2>1. rose' = rose \/ (rose' = Now /\ Before)
    BY <1>2 DEF Watching, PulseTick, Edge, pulse
  <2> QED
    BY <1>0, <2>1
<1>6. (InPulse \/ Doing("pulse_end") \/ held = 0)'
  BY <1>1, <1>2, <1>4 DEF PulseInv, PulsePlaces
<1>7. ASSUME Doing("pulse_begin")'
      PROVE  AtLeast(called * Ratio)'
  <2>1. PICK x \in Nat : x = called * Ratio
    BY <1>0
  <2>2. AtLeast(x) /\ Doing("pulse_begin")
    BY <1>1, <1>7, <2>1 DEF PulseInv, PulsePlaces
  <2>3. AtLeast(x)' /\ x = called' * Ratio
    BY <1>0, <1>3, <2>1, <2>2 DEF PulsePlaces
  <2> QED
    BY <2>3 DEF AtLeast
<1>8. ASSUME Timed'
      PROVE  (\E a \in called..Now : Started(a))'
  <2>1. PICK a \in called..Now : Started(a)
    BY <1>2, <1>8 DEF PulseInv
  <2>2. a \in Nat /\ a <= Now /\ a \in called'..Now'
    BY <1>0, <2>1
  <2>3. PICK p \in PulsePlaces : Doing(p)
    BY <1>2, <1>8, PlacesOf
  <2>4. pc # "idle"
    BY <2>3 DEF MicrosInv, Doing, Reading, ReadPlaces, PulsePlaces
  <2>5. startMicros' = Unsigned(a * Ratio)
    BY <1>0, <2>1 DEF Started
  <2>6. (Now' - a) * Ratio <= timeout' + (Slack' + lag') * Ratio
    <3>1. timeout \in Nat
      <4>1. Measuring
        BY <2>3 DEF Measuring, Doing, PulsePlaces, InPulse, Before
      <4> QED
        BY <4>1, Numbers DEF CountInv
    <3>2. (Now - a) * Ratio <= timeout + (Slack + lag) * Ratio
      BY <2>1 DEF Started
    <3>3. lag \in Nat /\ lag' \in Nat /\ Now' + Slack + lag <= Now + Slack' + lag'
      BY <1>0, <2>4, SlackKept
    <3>4. Slack \in Nat /\ Slack' \in Nat
      BY Slacks
    <3>5. /\ Now - a \in Nat /\ Now' - a \in Nat /\ Slack + lag \in Nat /\ Slack' + lag' \in Nat
          /\ (Now' - a) + (Slack + lag) <= (Now - a) + (Slack' + lag')
      <4>1. \A n, k, i, j, g, h \in Nat :
              a <= n /\ n <= k /\ k + i + g <= n + j + h =>
                /\ n - a \in Nat /\ k - a \in Nat /\ i + g \in Nat /\ j + h \in Nat
                /\ (k - a) + (i + g) <= (n - a) + (j + h)
        BY <2>2
      <4> QED
        BY <1>0, <2>2, <3>3, <3>4, <4>1, Zenon
    <3>6. (Now' - a) * Ratio <= timeout + (Slack' + lag') * Ratio
      BY <3>1, <3>2, <3>5, Budget
    <3> QED
      BY <1>0, <3>6
  <2>7. (\E q \in Checks : Doing(q))' => AtLeast(a * Ratio)'
    <3>1. ASSUME NEW q \in Checks, Doing(q)
          PROVE  AtLeast(a * Ratio)'
      <4>1. AtLeast(a * Ratio) /\ a * Ratio \in Nat /\ q \in PulsePlaces
        BY <1>0, <2>1, <2>2, <3>1 DEF Started, Checks, PulsePlaces
      <4> QED
        BY <1>3, <3>1, <4>1
    <3> QED
      BY <1>2, <3>1
  <2>8. ASSUME Doing("pulse_start")'
        PROVE  AtLeast(a * Ratio)' /\ AtLeast(rose * Ratio)'
    <3>1. Doing("pulse_start") /\ "pulse_start" \in PulsePlaces
      BY <1>1, <2>8 DEF PulsePlaces
    <3>2. ~Before
      BY <3>1, Apart, PlacesOf DEF PulsePlaces
    <3>3. PICK x \in Nat : x = rose * Ratio
      BY <1>0
    <3>4. AtLeast(a * Ratio) /\ AtLeast(x) /\ a * Ratio \in Nat
      BY <1>0, <2>1, <2>2, <3>1, <3>3 DEF Started
    <3>5. AtLeast(a * Ratio)' /\ AtLeast(x)' /\ x = rose' * Ratio
      BY <1>3, <1>5, <3>1, <3>2, <3>3, <3>4
    <3> QED
      BY <3>5 DEF AtLeast
  <2>9. ASSUME (InPulse \/ Doing("pulse_end"))'
        PROVE  (\E b \in a..Now : Risen(b))'
    <3>1. InPulse \/ Doing("pulse_end")
      BY <1>1, <1>2, <2>9 DEF PulsePlaces
    <3>2. PICK b \in a..Now : Risen(b)
      BY <2>1, <3>1 DEF Started
    <3>3. ~Before
      BY <3>1, Apart, PlacesOf DEF PulsePlaces
    <3>4. start' = Unsigned(b * Ratio) /\ rose' <= b /\ b \in a..Now'
      BY <1>0, <1>5, <2>2, <3>2, <3>3 DEF Risen
    <3>5. b + held' <= Now'
      <4>1. b \in Nat /\ b + held <= Now
        BY <2>2, <3>2 DEF Risen
      <4>2. \A n, k, i, j \in Nat : b + i <= n /\ j <= i + (k - n) => b + j <= k
        BY <4>1
      <4> QED
        BY <1>0, <1>4, <4>1, <4>2, Zenon
    <3>6. ASSUME Doing("pulse_end")'
          PROVE  AtLeast((b + held) * Ratio)'
      <4>1. Doing("pulse_end") /\ "pulse_end" \in PulsePlaces
        BY <1>1, <3>6 DEF PulsePlaces
      <4>2. ~InPulse
        BY <4>1, Apart, PlacesOf DEF PulsePlaces
      <4>3. PICK x \in Nat : x = (b + held) * Ratio
        BY <1>0, <2>2, <3>2
      <4>4. AtLeast(x)
        BY <3>2, <4>1, <4>3 DEF Risen
      <4>5. AtLeast(x)' /\ x = (b + held') * Ratio
        BY <1>3, <1>4, <4>1, <4>2, <4>3, <4>4
      <4> QED
        BY <4>5 DEF AtLeast
    <3>7. Risen(b)'
      BY <3>4, <3>5, <3>6 DEF Risen, Unsigned
    <3> QED
      BY <3>4, <3>7
  <2>10. Started(a)'
    BY <2>5, <2>6, <2>7, <2>8, <2>9 DEF Started, Unsigned
  <2> QED
    BY <2>2, <2>10
<1> QED
  BY <1>4, <1>5, <1>6, <1>7, <1>8 DEF PulseInv

(* A call of micros() from one of the three loops. *)
LEMMA PulseEnters ==
  ASSUME ClockInv, MicrosInv, DelayInv, CountInv, PulseInv,
         NEW here \in Looks, NEW next \in Checks \cup {"pulse_start", "pulse_end"},
         pc = here, EnterMicros(next), UNCHANGED <<delayVars, pulse>>,
         Ahead(next) >= Ahead(here) + MaxLag,
         next \in {"pulse_stop_check", "pulse_end"} <=> here = "pulse_stop"
  PROVE  PulseInv'
<1>0. /\ held \in Nat /\ rose \in 0..Now /\ called \in 0..Now /\ Ratio \in Nat
      /\ Now \in Nat /\ Now' = Now
      /\ UNCHANGED <<timeout, startMicros, start, called, rose, held>>
      /\ pc' = "micros_count" /\ to' = next /\ lag' = 0
      /\ lag \in Nat /\ lag <= MaxLag /\ MaxLag \in Nat /\ to = "idle"
  <2>1. Still
    BY DEF EnterMicros, Still
  <2> QED
    BY <2>1, NowMoves, Numbers
       DEF PulseInv, DelayInv, MicrosInv, EnterMicros, delayVars, pulse, Looks, Reading, ReadPlaces
<1>1. \A p \in PulsePlaces : Doing(p)' = (p = next) /\ Doing(p) = (p = here)
  BY <1>0 DEF Doing, PulsePlaces, Looks, Checks
<1>2. PICK a \in called..Now : Started(a)
  BY <1>0 DEF PulseInv, Timed, Doing, Looks
<1>3. a \in Nat /\ a <= Now /\ a * Ratio \in Nat /\ a * Ratio <= Now * Ratio
  BY <1>0, <1>2, NowTimes
<1>4. startMicros' = Unsigned(a * Ratio)
  BY <1>0, <1>2 DEF Started
<1>5. (Now' - a) * Ratio <= timeout' + (Slack' + lag') * Ratio
  <2>1. Slack' = Ahead(next) /\ Slack = Ahead(here) /\ Ahead(here) \in Nat /\ Ahead(next) \in Nat
    BY <1>0, Aheads DEF Slack, Looks
  <2>2. timeout \in Nat
    <3>1. Measuring
      BY DEF Measuring, Looks, InPulse, Before
    <3> QED
      BY <3>1, Numbers DEF CountInv
  <2>3. (Now - a) * Ratio <= timeout + (Slack + lag) * Ratio
    BY <1>2 DEF Started
  <2>4. /\ Now - a \in Nat /\ Slack + lag \in Nat /\ Slack' \in Nat
        /\ (Now - a) + (Slack + lag) <= (Now - a) + Slack'
    BY <1>0, <1>3, <2>1
  <2>5. (Now - a) * Ratio <= timeout + Slack' * Ratio
    BY <2>2, <2>3, <2>4, Budget
  <2>6. Slack' + lag' = Slack'
    <3>1. \A n \in Nat : n + 0 = n
      OBVIOUS
    <3> QED
      BY <1>0, <2>4, <3>1, Zenon
  <2> QED
    BY <1>0, <2>5, <2>6
<1>6. AtLeast(a * Ratio)'
  BY <1>3, AtLeastEnter
<1>7. AtLeast(rose * Ratio)'
  <2>1. rose * Ratio <= Now * Ratio
    BY <1>0, NowTimes
  <2> QED
    BY <1>0, <2>1 DEF AtLeast, Reading, ReadPlaces
<1>8. InPulse' = (next = "pulse_stop_check")
  BY <1>0 DEF InPulse, Checks
<1>9. ASSUME (InPulse \/ Doing("pulse_end"))'
      PROVE  (\E b \in a..Now : Risen(b))'
  <2>1. here = "pulse_stop"
    BY <1>1, <1>8, <1>9 DEF PulsePlaces
  <2>2. PICK b \in a..Now : Risen(b)
    BY <1>2, <2>1 DEF Started, InPulse
  <2>3. start' = Unsigned(b * Ratio) /\ rose' <= b /\ b + held' <= Now' /\ b \in a..Now'
    BY <1>0, <1>2, <2>2 DEF Risen
  <2>4. AtLeast((b + held) * Ratio)'
    <3>1. (b + held) * Ratio <= Now * Ratio
      BY <1>0, <1>2, <2>2, NowTimes DEF Risen
    <3> QED
      BY <1>0, <3>1 DEF AtLeast, Reading, ReadPlaces
  <2>5. Risen(b)'
    BY <2>3, <2>4 DEF Risen, Unsigned
  <2> QED
    BY <2>3, <2>5
<1>10. Started(a)'
  BY <1>4, <1>5, <1>6, <1>7, <1>9 DEF Started, Unsigned
<1>11. (InPulse \/ Doing("pulse_end") \/ held = 0)'
  <2>1. CASE here = "pulse_stop"
    BY <1>0, <1>1, <1>8, <2>1 DEF PulsePlaces, Checks, Looks, PulseInv, InPulse
  <2>2. CASE here # "pulse_stop"
    <3>1. held = 0
      BY <1>0, <1>1, <2>2 DEF PulseInv, InPulse, PulsePlaces, Looks
    <3> QED
      BY <1>0, <3>1
  <2> QED
    BY <2>1, <2>2
<1>12. ~Doing("pulse_begin")'
  BY <1>1 DEF PulsePlaces, Checks
<1> QED
  BY <1>0, <1>2, <1>10, <1>11, <1>12 DEF PulseInv

(* Nothing is being timed. *)
LEMMA PulseOver ==
  ASSUME Now' \in Nat, held' = 0, rose' \in 0..Now', \A p \in PulsePlaces : ~Doing(p)'
  PROVE  PulseInv'
<1>1. ~Timed' /\ ~Doing("pulse_begin")'
  BY DEF Timed, PulsePlaces, Checks, Looks
<1> QED
  BY <1>1 DEF PulseInv

(* What PulseCheck and PulseEnd know of the result of micros(). *)
LEMMA TimeSince ==
  ASSUME ClockInv, MicrosInv, CountInv, NEW a \in 0..Now, ~Reading, pc # "idle", Measuring,
         (Now - a) * Ratio <= timeout + (Slack + lag) * Ratio, NEW b \in a..Now,
         NEW c \in b..Now, AtLeast(c * Ratio)
  PROVE  \E y \in c..Now :
           /\ m = Unsigned(y * Ratio) /\ Now <= y + 1 + lag
           /\ Unsigned(m + ULong - Unsigned(b * Ratio)) = (y - b) * Ratio
<1>0. /\ Now \in Nat /\ Ratio \in Nat \ {0} /\ MaxLag \in Nat /\ ULong \in Nat
      /\ lag \in Nat /\ lag <= MaxLag /\ a \in Nat /\ b \in Nat /\ c \in Nat
      /\ timeout \in Timeouts /\ timeout \in Nat
  <2>1. Now \in Nat /\ lag \in Nat /\ lag <= MaxLag /\ timeout \in Timeouts
    BY NowMoves DEF MicrosInv, CountInv
  <2> QED
    BY <2>1, Numbers
<1>1. PICK y \in 0..Now : c * Ratio <= y * Ratio /\ m = Unsigned(y * Ratio) /\ Now <= y + 1 + lag
  BY DEF AtLeast
<1>2. y \in Nat /\ c <= y
  <2>1. ASSUME y < c PROVE FALSE
    <3>1. (y + 1) * Ratio <= c * Ratio /\ (y + 1) * Ratio \in Nat /\ c * Ratio \in Nat
      BY <1>0, <1>1, <2>1, TimesMonotone
    <3>2. (y + 1) * Ratio = y * Ratio + Ratio /\ y * Ratio \in Nat
      BY <1>0, <1>1
    <3> QED
      BY <1>0, <1>1, <3>1, <3>2
  <2> QED
    BY <1>0, <1>1, <2>1
<1>3. (y - b) * Ratio < ULong
  <2>1. /\ Now - a \in Nat /\ Slack + lag \in Nat /\ 7 + 6 * MaxLag \in Nat
        /\ (Now - a) + (Slack + lag) <= (Now - a) + (7 + 6 * MaxLag)
    BY <1>0, Slacks
  <2>2. (Now - a) * Ratio <= timeout + (7 + 6 * MaxLag) * Ratio
    BY <1>0, <2>1, Budget
  <2>3. (y - b) * Ratio <= (Now - a) * Ratio /\ (y - b) * Ratio \in Nat /\ (Now - a) * Ratio \in Nat
    <3>1. y - b \in Nat /\ y - b <= Now - a
      BY <1>0, <1>1, <1>2
    <3> QED
      BY <1>0, <2>1, <3>1, TimesMonotone
  <2>4. timeout + (6 * MaxLag + 7) * Ratio < ULong
    BY <1>0, PulseAssumption
  <2>5. (6 * MaxLag + 7) * Ratio = (7 + 6 * MaxLag) * Ratio
    BY <1>0
  <2>6. (7 + 6 * MaxLag) * Ratio \in Nat
    BY <1>0
  <2> QED
    BY <1>0, <2>2, <2>3, <2>4, <2>5, <2>6
<1>4. /\ y * Ratio \in Nat /\ b * Ratio \in Nat /\ b * Ratio <= y * Ratio
      /\ (y - b) * Ratio = y * Ratio - b * Ratio /\ (y - b) * Ratio \in Nat
  <2>1. b <= y
    BY <1>0, <1>2
  <2>2. y - b \in Nat
    BY <1>0, <1>2
  <2> QED
    BY <1>0, <1>2, <2>1, <2>2, TimesMonotone
<1>5. Unsigned(Unsigned(y * Ratio) + ULong - Unsigned(b * Ratio)) = Unsigned(y * Ratio - b * Ratio)
  BY <1>4, UnsignedIs
<1>6. Unsigned((y - b) * Ratio) = (y - b) * Ratio
  BY <1>3, <1>4, UnsignedNat
<1>7. Unsigned(m + ULong - Unsigned(b * Ratio)) = (y - b) * Ratio
  BY <1>1, <1>4, <1>5, <1>6, Zenon
<1> QED
  BY <1>0, <1>1, <1>2, <1>7

LEMMA PulseChecked ==
  ASSUME ClockInv, MicrosInv, DelayInv, CountInv, PulseInv,
         NEW here \in Checks, NEW back \in Looks, Check(here, back),
         here = "pulse_stop_check" <=> back = "pulse_stop"
  PROVE  /\ TimedOut => (Now - called) * Ratio > timeout
         /\ ~TimedOut => PulseInv'
<1>0. /\ Now \in Nat /\ Ratio \in Nat /\ pc = here /\ called \in 0..Now
      /\ lag \in Nat /\ lag <= MaxLag /\ MaxLag \in Nat /\ to = "idle"
      /\ ~Reading /\ Measuring /\ timeout \in Nat /\ held \in Nat /\ rose \in 0..Now
  <2>1. /\ Now \in Nat /\ pc = here /\ called \in 0..Now /\ lag \in Nat /\ lag <= MaxLag
        /\ ~Reading /\ to = "idle" /\ held \in Nat /\ rose \in 0..Now
    BY NowMoves DEF Check, DelayInv, MicrosInv, PulseInv, Reading, ReadPlaces, Checks
  <2>2. Measuring
    BY <2>1 DEF Checks, Measuring, Before, InPulse
  <2>3. timeout \in Nat
    BY <2>2, Numbers DEF CountInv
  <2> QED
    BY <2>1, <2>2, <2>3, Numbers
<1>1. PICK a \in called..Now : Started(a)
  BY <1>0 DEF PulseInv, Timed, Doing
<1>2. a \in 0..Now /\ a \in a..Now
  BY <1>0, <1>1
<1>3. /\ startMicros = Unsigned(a * Ratio) /\ AtLeast(a * Ratio)
      /\ (Now - a) * Ratio <= timeout + (Slack + lag) * Ratio
  BY <1>0, <1>1 DEF Started, Doing
<1>4. PICK y \in a..Now :
        /\ Now <= y + 1 + lag
        /\ Unsigned(m + ULong - startMicros) = (y - a) * Ratio
  <2>1. pc # "idle"
    BY <1>0 DEF Checks
  <2> QED
    BY <1>0, <1>2, <1>3, <2>1, TimeSince
<1>5. TimedOut <=> (y - a) * Ratio > timeout
  <2>1. TimedOut <=> Unsigned(m + ULong - startMicros) > timeout
    BY Zenon DEF TimedOut, Unsigned
  <2> QED
    BY <1>4, <2>1
<1>6. ASSUME TimedOut
      PROVE  (Now - called) * Ratio > timeout
  <2>1. /\ y - a \in Nat /\ Now - called \in Nat /\ y - a <= Now - called
    BY <1>0, <1>1, <1>4
  <2>2. /\ (y - a) * Ratio <= (Now - called) * Ratio
        /\ (y - a) * Ratio \in Nat /\ (Now - called) * Ratio \in Nat
    BY <1>0, <2>1, TimesMonotone
  <2> QED
    BY <1>0, <1>5, <1>6, <2>2
<1>7. ASSUME ~TimedOut
      PROVE  PulseInv'
  <2>1. /\ pc' = back /\ to' = "idle" /\ lag' = 0 /\ Still
        /\ UNCHANGED <<timeout, startMicros, start, called, rose, held>>
    BY <1>0, <1>7 DEF Check, Goto, Still, delayVars, pulse
  <2>2. Now' = Now
    BY <2>1, NowMoves
  <2>3. /\ \A p \in PulsePlaces : Doing(p)' = (p = back) /\ Doing(p) = (p = here)
        /\ InPulse' = (back = "pulse_stop") /\ InPulse = (here = "pulse_stop_check")
    <3>1. \A p \in PulsePlaces : Doing(p)' = (p = back)
      BY <2>1 DEF Doing, PulsePlaces
    <3>2. \A p \in PulsePlaces : Doing(p) = (p = here)
      BY <1>0 DEF Doing, PulsePlaces
    <3>3. InPulse' = (back = "pulse_stop")
      BY <2>1 DEF InPulse, Looks
    <3>4. InPulse = (here = "pulse_stop_check")
      BY <1>0 DEF InPulse, Checks
    <3> QED
      BY <3>1, <3>2, <3>3, <3>4
  <2>4. (Now' - a) * Ratio <= timeout' + (Slack' + lag') * Ratio
    <3>1. Slack' = Ahead(back) /\ Slack' \in Nat /\ Ahead(back) >= 1 + MaxLag
      BY <2>1, Aheads, Slacks DEF Slack, Looks
    <3>2. /\ (y - a) * Ratio <= timeout + 0 * Ratio
      BY <1>0, <1>4, <1>5, <1>7
    <3>3. /\ y - a \in Nat /\ Now - a \in Nat /\ (Now - a) + 0 <= (y - a) + Slack'
      BY <1>0, <1>1, <1>4, <3>1
    <3>4. (Now - a) * Ratio <= timeout + Slack' * Ratio
      BY <1>0, <3>1, <3>2, <3>3, Budget
    <3>5. Slack' + lag' = Slack'
      <4>1. \A n \in Nat : n + 0 = n
        OBVIOUS
      <4> QED
        BY <2>1, <3>1, <4>1, Zenon
    <3> QED
      BY <2>1, <2>2, <3>4, <3>5
  <2>5. ASSUME (InPulse \/ Doing("pulse_end"))'
        PROVE  (\E b \in a..Now : Risen(b))'
    <3>1. back = "pulse_stop" /\ InPulse /\ ~Doing("pulse_end")'
      BY <2>3, <2>5 DEF PulsePlaces, Looks
    <3>2. PICK b \in a..Now : Risen(b)
      BY <1>1, <3>1 DEF Started
    <3>3. Risen(b)'
      BY <2>1, <2>2, <3>1, <3>2 DEF Risen, Unsigned
    <3> QED
      BY <2>2, <3>2, <3>3
  <2>6. ~(\E p \in Checks : Doing(p))' /\ ~Doing("pulse_start")' /\ ~Doing("pulse_begin")'
    BY <2>1, <2>3 DEF PulsePlaces, Checks, Looks, Doing
  <2>7. startMicros' = Unsigned(a * Ratio)
    BY <1>3, <2>1
  <2>8. Started(a)'
    BY <2>4, <2>5, <2>6, <2>7 DEF Started, Unsigned
  <2>9. (InPulse \/ Doing("pulse_end") \/ held = 0)'
    BY <2>1, <2>3 DEF PulseInv, PulsePlaces, Checks, Looks
  <2> QED
    BY <1>0, <1>1, <2>1, <2>2, <2>6, <2>8, <2>9 DEF PulseInv
<1> QED
  BY <1>6, <1>7

LEMMA PulseReturns ==
  ASSUME ClockInv, MicrosInv, NEW r, Return(r), ~Reading
  PROVE  PulseInv'
<1>1. /\ held' = 0 /\ rose' = 0 /\ pc' = "idle" /\ to' = "idle" /\ Still
  BY DEF Return, MicrosInv, Still
<1>2. Now' \in Nat
  BY <1>1, NowMoves
<1> QED
  BY <1>1, <1>2, PulseOver DEF PulsePlaces, Doing

LEMMA PulseBegins ==
  ASSUME ClockInv, MicrosInv, DelayInv, CountInv, PulseInv, PulseBegin
  PROVE  PulseInv'
<1>0. /\ Now \in Nat /\ Ratio \in Nat \ {0} /\ pc = "pulse_begin" /\ to = "idle" /\ ~Reading
      /\ called \in 0..Now /\ lag \in Nat /\ lag <= MaxLag /\ MaxLag \in Nat
      /\ held = 0 /\ rose \in 0..Now
  <2>1. /\ Now \in Nat /\ pc = "pulse_begin" /\ to = "idle" /\ ~Reading
        /\ called \in 0..Now /\ lag \in Nat /\ lag <= MaxLag
    BY NowMoves DEF PulseBegin, MicrosInv, DelayInv, Reading, ReadPlaces
  <2>2. held = 0 /\ rose \in 0..Now
    BY <2>1 DEF PulseInv, InPulse, Doing
  <2> QED
    BY <2>1, <2>2, Numbers
<1>1. /\ startMicros' = m /\ pc' = "pulse_previous" /\ to' = "idle" /\ lag' = 0 /\ Still
      /\ UNCHANGED <<timeout, called, rose, held>>
  BY <1>0 DEF PulseBegin, Goto, Still, delayVars
<1>2. Now' = Now
  BY <1>1, NowMoves
<1>3. AtLeast(called * Ratio)
  BY <1>0 DEF PulseInv, Doing
<1>4. PICK a \in 0..Now : called * Ratio <= a * Ratio /\ m = Unsigned(a * Ratio) /\ Now <= a + 1 + lag
  BY <1>0, <1>3 DEF AtLeast
<1>5. called <= a
  <2>1. ASSUME a < called PROVE FALSE
    <3>1. (a + 1) * Ratio <= called * Ratio /\ (a + 1) * Ratio \in Nat /\ called * Ratio \in Nat
      BY <1>0, <1>4, <2>1, TimesMonotone
    <3>2. (a + 1) * Ratio = a * Ratio + Ratio /\ a * Ratio \in Nat
      BY <1>0, <1>4
    <3> QED
      BY <1>0, <1>4, <3>1, <3>2
  <2> QED
    BY <1>0, <1>4, <2>1
<1>6. (Now' - a) * Ratio <= timeout' + (Slack' + lag') * Ratio
  <2>1. Slack' = 1 + MaxLag
    BY <1>1 DEF Slack, Looks, Ahead
  <2>2. timeout \in Nat
    <3>1. Measuring
      BY <1>0 DEF Measuring, Before
    <3> QED
      BY <3>1, Numbers DEF CountInv
  <2>3. Now - a \in Nat /\ (Now - a) + 0 <= 0 + (1 + MaxLag) /\ 0 * Ratio <= timeout + 0 * Ratio
    BY <1>0, <1>4, <2>2
  <2>4. (Now - a) * Ratio <= timeout + (1 + MaxLag) * Ratio
    BY <1>0, <2>2, <2>3, Budget
  <2>5. Slack' + lag' = 1 + MaxLag
    BY <1>0, <1>1, <2>1
  <2> QED
    BY <1>1, <1>2, <2>4, <2>5
<1>7. \A p \in PulsePlaces : Doing(p)' = (p = "pulse_previous")
  BY <1>1 DEF Doing, PulsePlaces
<1>8. /\ ~(\E p \in Checks : Doing(p))' /\ ~Doing("pulse_start")' /\ ~Doing("pulse_begin")'
      /\ ~InPulse' /\ ~Doing("pulse_end")'
  BY <1>1 DEF Doing, Checks, InPulse
<1>9. startMicros' = Unsigned(a * Ratio)
  BY <1>1, <1>4
<1>10. Started(a)'
  BY <1>6, <1>8, <1>9 DEF Started, Unsigned
<1>11. a \in called'..Now'
  BY <1>0, <1>1, <1>2, <1>4, <1>5
<1>12. held' \in Nat /\ rose' \in 0..Now' /\ held' = 0
  BY <1>0, <1>1, <1>2
<1> QED
  BY <1>8, <1>10, <1>11, <1>12 DEF PulseInv

LEMMA PreviousEnds ==
  ASSUME ClockInv, MicrosInv, DelayInv, CountInv, PulseInv, PreviousOver
  PROVE  PulseInv'
<1>0. /\ Now \in Nat /\ Ratio \in Nat /\ pc = "pulse_previous" /\ to = "idle"
      /\ called \in 0..Now /\ lag \in Nat /\ lag <= MaxLag /\ MaxLag \in Nat
      /\ held = 0 /\ rose \in 0..Now
  <2>1. /\ Now \in Nat /\ pc = "pulse_previous" /\ to = "idle"
        /\ called \in 0..Now /\ lag \in Nat /\ lag <= MaxLag
    BY NowMoves DEF PreviousOver, MicrosInv, DelayInv, Reading, ReadPlaces
  <2>2. held = 0 /\ rose \in 0..Now
    BY <2>1 DEF PulseInv, InPulse, Doing
  <2> QED
    BY <2>1, <2>2, Numbers
<1>1. /\ pc' = "pulse_gap" /\ to' = "idle" /\ lag' = 0 /\ Still
      /\ UNCHANGED <<timeout, startMicros, called, rose, held>>
  BY <1>0 DEF PreviousOver, Goto, Still, delayVars, pulse
<1>2. Now' = Now
  BY <1>1, NowMoves
<1>3. PICK a \in called..Now : Started(a)
  BY <1>0 DEF PulseInv, Timed, Doing, Looks
<1>4. (Now' - a) * Ratio <= timeout' + (Slack' + lag') * Ratio
  <2>1. Slack = 1 + MaxLag /\ Slack' = 1 + 2 * MaxLag
    BY <1>0, <1>1 DEF Slack, Looks, Ahead
  <2>2. timeout \in Nat
    <3>1. Measuring
      BY <1>0 DEF Measuring, Before
    <3> QED
      BY <3>1, Numbers DEF CountInv
  <2>3. /\ Now - a \in Nat /\ Slack + lag \in Nat /\ 1 + 2 * MaxLag \in Nat
        /\ (Now - a) + (Slack + lag) <= (Now - a) + (1 + 2 * MaxLag)
        /\ (Now - a) * Ratio <= timeout + (Slack + lag) * Ratio
    BY <1>0, <1>3, <2>1 DEF Started
  <2>4. (Now - a) * Ratio <= timeout + (1 + 2 * MaxLag) * Ratio
    BY <2>2, <2>3, Budget
  <2>5. Slack' + lag' = 1 + 2 * MaxLag
    BY <1>0, <1>1, <2>1
  <2> QED
    BY <1>1, <1>2, <2>4, <2>5
<1>5. /\ ~(\E p \in Checks : Doing(p))' /\ ~Doing("pulse_start")' /\ ~Doing("pulse_begin")'
      /\ ~InPulse' /\ ~Doing("pulse_end")'
  BY <1>1 DEF Doing, Checks, InPulse
<1>6. startMicros' = Unsigned(a * Ratio)
  BY <1>1, <1>3 DEF Started
<1>7. Started(a)'
  BY <1>4, <1>5, <1>6 DEF Started, Unsigned
<1>8. a \in called'..Now' /\ held' \in Nat /\ rose' \in 0..Now' /\ held' = 0
  BY <1>0, <1>1, <1>2, <1>3
<1> QED
  BY <1>5, <1>7, <1>8 DEF PulseInv

LEMMA PulseRises ==
  ASSUME ClockInv, MicrosInv, DelayInv, CountInv, PulseInv, PulseStart
  PROVE  PulseInv'
<1>0. /\ Now \in Nat /\ Ratio \in Nat \ {0} /\ pc = "pulse_start" /\ to = "idle" /\ ~Reading
      /\ called \in 0..Now /\ lag \in Nat /\ lag <= MaxLag /\ MaxLag \in Nat
      /\ held = 0 /\ rose \in 0..Now
  <2>1. /\ Now \in Nat /\ pc = "pulse_start" /\ to = "idle" /\ ~Reading
        /\ called \in 0..Now /\ lag \in Nat /\ lag <= MaxLag
    BY NowMoves DEF PulseStart, MicrosInv, DelayInv, Reading, ReadPlaces
  <2>2. held = 0 /\ rose \in 0..Now
    BY <2>1 DEF PulseInv, InPulse, Doing
  <2> QED
    BY <2>1, <2>2, Numbers
<1>1. /\ start' = m /\ pc' = "pulse_stop" /\ to' = "idle" /\ lag' = 0 /\ Still
      /\ UNCHANGED <<timeout, startMicros, called, rose, held>>
  BY <1>0 DEF PulseStart, Goto, Still, pulse
<1>2. Now' = Now
  BY <1>1, NowMoves
<1>3. PICK a \in called..Now : Started(a)
  BY <1>0 DEF PulseInv, Timed, Doing, Looks
<1>4. /\ startMicros = Unsigned(a * Ratio) /\ AtLeast(a * Ratio) /\ AtLeast(rose * Ratio)
      /\ (Now - a) * Ratio <= timeout + (Slack + lag) * Ratio
  BY <1>0, <1>3 DEF Started, Doing
<1>5. \E b \in 0..Now : /\ a * Ratio <= b * Ratio /\ rose * Ratio <= b * Ratio
                        /\ m = Unsigned(b * Ratio)
  <2>1. PICK i \in 0..Now : a * Ratio <= i * Ratio /\ m = Unsigned(i * Ratio)
    BY <1>0, <1>4 DEF AtLeast
  <2>2. PICK j \in 0..Now : rose * Ratio <= j * Ratio /\ m = Unsigned(j * Ratio)
    BY <1>0, <1>4 DEF AtLeast
  <2>3. i * Ratio \in Nat /\ j * Ratio \in Nat /\ a * Ratio \in Nat /\ rose * Ratio \in Nat
    BY <1>0, <1>3, <2>1, <2>2
  <2>4. CASE i * Ratio <= j * Ratio
    BY <2>1, <2>2, <2>3, <2>4
  <2>5. CASE j * Ratio <= i * Ratio
    BY <2>1, <2>2, <2>3, <2>5
  <2> QED
    BY <2>3, <2>4, <2>5
<1>6. PICK b \in 0..Now : /\ a * Ratio <= b * Ratio /\ rose * Ratio <= b * Ratio
                          /\ m = Unsigned(b * Ratio)
  BY <1>5
<1>7. ASSUME NEW x \in Nat, x * Ratio <= b * Ratio
      PROVE  x <= b
  <2>1. ASSUME b < x PROVE FALSE
    <3>1. (b + 1) * Ratio <= x * Ratio /\ (b + 1) * Ratio \in Nat /\ x * Ratio \in Nat
      BY <1>0, <1>6, <2>1, TimesMonotone
    <3>2. (b + 1) * Ratio = b * Ratio + Ratio /\ b * Ratio \in Nat
      BY <1>0, <1>6
    <3> QED
      BY <1>0, <1>6, <1>7, <3>1, <3>2
  <2> QED
    BY <1>0, <1>6, <2>1
<1>8. a <= b /\ rose <= b
  BY <1>0, <1>3, <1>6, <1>7
<1>9. Risen(b)'
  <2>1. start' = Unsigned(b * Ratio) /\ rose' <= b /\ b + held' <= Now' /\ ~Doing("pulse_end")'
    BY <1>0, <1>1, <1>2, <1>6, <1>8 DEF Doing
  <2> QED
    BY <2>1 DEF Risen, Unsigned
<1>10. (Now' - a) * Ratio <= timeout' + (Slack' + lag') * Ratio
  <2>1. Slack = 4 + 3 * MaxLag /\ Slack' = 4 + 4 * MaxLag
    BY <1>0, <1>1 DEF Slack, Looks, Ahead
  <2>2. timeout \in Nat
    <3>1. Measuring
      BY <1>0 DEF Measuring
    <3> QED
      BY <3>1, Numbers DEF CountInv
  <2>3. /\ Now - a \in Nat /\ Slack + lag \in Nat /\ 4 + 4 * MaxLag \in Nat
        /\ (Now - a) + (Slack + lag) <= (Now - a) + (4 + 4 * MaxLag)
    BY <1>0, <1>3, <2>1
  <2>4. (Now - a) * Ratio <= timeout + (4 + 4 * MaxLag) * Ratio
    BY <1>4, <2>2, <2>3, Budget
  <2>5. Slack' + lag' = 4 + 4 * MaxLag
    BY <1>0, <1>1, <2>1
  <2> QED
    BY <1>1, <1>2, <2>4, <2>5
<1>11. ~(\E p \in Checks : Doing(p))' /\ ~Doing("pulse_start")' /\ ~Doing("pulse_begin")' /\ InPulse'
  BY <1>1 DEF Doing, Checks, InPulse
<1>12. startMicros' = Unsigned(a * Ratio) /\ b \in a..Now'
  BY <1>0, <1>1, <1>2, <1>3, <1>4, <1>6, <1>8
<1>13. Started(a)'
  BY <1>9, <1>10, <1>11, <1>12 DEF Started, Unsigned
<1>14. a \in called'..Now' /\ held' \in Nat /\ rose' \in 0..Now' /\ held' = 0
  BY <1>0, <1>1, <1>2, <1>3
<1> QED
  BY <1>11, <1>13, <1>14 DEF PulseInv

LEMMA PulseStep ==
  ASSUME ClockInv, MicrosInv, MicrosInv', DelayInv, CountInv, PulseInv, [PulseNext]_allvars
  PROVE  PulseInv'
<1>0. Now \in Nat /\ Ratio \in Nat /\ (Reading \/ to = "idle") /\ held \in Nat /\ rose \in 0..Now
  BY NowMoves, Numbers DEF MicrosInv, PulseInv
<1>1. CASE Watching
  BY <1>1, PulseWatching
<1>2. CASE Aside
  <2>1. /\ \A p \in PulsePlaces : ~Doing(p) /\ ~Doing(p)'
        /\ Now' = Now /\ held' = held /\ rose' = rose
    BY <1>2, NowMoves DEF Aside, Doing, pulse
  <2>2. held = 0
    BY <2>1, PlacesOf DEF PulseInv, PulsePlaces
  <2> QED
    BY <1>0, <2>1, <2>2, PulseOver
<1>3. ASSUME NEW u \in Timeouts, PulseInLong(u) \/ PulseIn(u)
      PROVE  PulseInv'
  <2>1. /\ pc = "idle" /\ to = "idle" /\ called' = Now /\ rose' = Now /\ held' = held /\ Still
        /\ \/ pc' = "micros_count" /\ to' = "pulse_begin"
           \/ pc' = "count_previous" /\ to' = "idle"
    BY <1>0, <1>3 DEF PulseInLong, PulseIn, Called, EnterMicros, Still, Reading, ReadPlaces
  <2>2. held = 0 /\ Now' = Now
    BY <2>1, NowMoves DEF PulseInv, InPulse, Doing
  <2>3. ~Timed' /\ ~InPulse'
    BY <2>1 DEF Timed, Checks, Looks, InPulse, Doing
  <2>4. Doing("pulse_begin")' => AtLeast(called * Ratio)'
    <3>1. Now * Ratio <= Now * Ratio
      BY <1>0
    <3> QED
      BY <2>1, <2>2, <3>1 DEF Doing, AtLeast, Reading, ReadPlaces
  <2> QED
    BY <1>0, <2>1, <2>2, <2>3, <2>4 DEF PulseInv
<1>4. CASE PulseBegin
  BY <1>4, PulseBegins
<1>5. CASE Wait1
  BY <1>5, Aheads, PulseEnters DEF Wait1, Wait, Looks, Checks
<1>6. CASE Wait2
  BY <1>6, Aheads, PulseEnters DEF Wait2, Wait, Looks, Checks
<1>7. CASE Wait3
  BY <1>7, Aheads, PulseEnters DEF Wait3, Wait, Looks, Checks
<1>8. CASE PreviousOver
  BY <1>8, PreviousEnds
<1>9. CASE PulseStarts
  BY <1>9, Aheads, PulseEnters DEF PulseStarts, Looks, Checks
<1>10. CASE PulseStops
  BY <1>10, Aheads, PulseEnters DEF PulseStops, Looks, Checks
<1>11. ASSUME NEW here \in Checks, NEW back \in Looks, Check(here, back),
              here = "pulse_stop_check" <=> back = "pulse_stop"
       PROVE  PulseInv'
  <2>1. ~Reading
    BY <1>11 DEF Check, Checks, Reading, ReadPlaces
  <2>2. ~TimedOut => PulseInv'
    BY <1>11, PulseChecked
  <2>3. TimedOut => Return(0)
    BY <1>11 DEF Check
  <2> QED
    BY <2>1, <2>2, <2>3, PulseReturns
<1>12. CASE PulseStart
  BY <1>12, PulseRises
<1>13. CASE PulseEnd
  BY <1>13, PulseReturns DEF PulseEnd, Reading, ReadPlaces
<1>14. ASSUME CountPrevious \/ CountGap \/ CountStop
       PROVE  PulseInv'
  <2>1. pc \in CountPlaces /\ ~Reading /\ to = "idle"
    BY <1>0, <1>14 DEF CountPrevious, CountGap, CountStop, CountBefore, CountPlaces, Reading, ReadPlaces
  <2>2. ASSUME NEW r, Return(r)
        PROVE  PulseInv'
    BY <2>1, <2>2, PulseReturns
  <2>3. CASE Still /\ pc' \in CountPlaces /\ to' = to /\ held' = held /\ rose' = rose
    <3>1. Now' = Now /\ \A p \in PulsePlaces : ~Doing(p) /\ ~Doing(p)'
      BY <2>1, <2>3, NowMoves DEF CountPlaces, PulsePlaces, Doing
    <3>2. held = 0
      BY <3>1, PlacesOf DEF PulseInv, PulsePlaces
    <3> QED
      BY <1>0, <2>3, <3>1, <3>2, PulseOver
  <2> QED
    BY <1>14, <2>2, <2>3
       DEF CountPrevious, CountGap, CountStop, CountBefore, Goto, Still, CountPlaces, pulse
<1>15. PulseCheck => \E here \in Checks, back \in Looks :
                       Check(here, back) /\ (here = "pulse_stop_check" <=> back = "pulse_stop")
  BY DEF PulseCheck, Checks, Looks
<1> QED
  BY <1>1, <1>2, <1>3, <1>4, <1>5, <1>6, <1>7, <1>8, <1>9, <1>10, <1>11, <1>12, <1>13, <1>14,
     <1>15, PulseKinds DEF PulseMain

-----------------------------------------------------------------------------
(* The theorems *)

(* The states of a run: the clock's counts agree with the true time, the   *)
(* reads of micros() and millis() are on their way with interrupts off,    *)
(* delay() has counted off only time that passed, pulseIn() has turns left *)
(* and pulseInLong() times from a moment after its call, within the wrap   *)
(* of micros().                                                            *)
THEOREM ClockAndCallsHold == PulseSpec => []IInv
<1>1. PulseInit => IInv
  <2> SUFFICES ASSUME PulseInit
               PROVE  IInv
    OBVIOUS
  <2>1. Init /\ ClockInv
    BY ClockInitially DEF PulseInit
  <2>2. Now \in Nat
    BY <2>1, NowMoves
  <2>3. /\ pc = "idle" /\ to = "idle" /\ lag = 0 /\ ms = 0 /\ asked = 0 /\ called = 0
        /\ width = 0 /\ maxloops = 0 /\ held = 0 /\ rose = 0
    BY DEF PulseInit, Init
  <2>4. inten \in BOOLEAN /\ sreg \in BOOLEAN
    BY <2>1, Zenon DEF Init
  <2>5. MicrosInv
    BY <2>3, <2>4, Numbers DEF MicrosInv, Reading, Loading, ReadPlaces, LoadPlaces, Places, Returns
  <2>6. DelayInv
    BY <2>2, <2>3 DEF DelayInv, Doing
  <2>7. CountInv
    BY <2>3 DEF CountInv, Measuring, Counting, Before, InPulse
  <2>8. PulseInv
    BY <2>2, <2>3 DEF PulseInv, InPulse, Doing, Timed, Checks, Looks
  <2> QED
    BY <2>1, <2>5, <2>6, <2>7, <2>8 DEF IInv
<1>2. IInv /\ [PulseNext]_allvars => IInv'
  BY ClockKept, MicrosStep, DelayStep, CountStep, PulseStep DEF IInv
<1> QED
  BY <1>1, <1>2, PTL DEF PulseSpec

(* micros() returns the true time of the timer, modulo the width of an     *)
(* unsigned long and at most one tick old, whichever overflows come while  *)
(* it runs (wiring.c:79-104).                                               *)
THEOREM MicrosIsFresh == PulseSpec => MicrosFresh
<1>1. ASSUME IInv, [PulseNext]_allvars, pc = "micros_tov", pc' # pc
      PROVE  \E age \in {0, 1} : Now >= age /\ m' = ((Now - age) * Ratio) % ULong
  <2>1. ClockInv /\ MicrosInv
    BY <1>1 DEF IInv
  <2>2. MicrosTov
    <3>1. CASE Reads
      BY <1>1, <3>1 DEF Reads, MicrosCount, MicrosTcnt
    <3>2. CASE Tick \/ OverflowInterrupt \/ UNCHANGED vars
      BY <1>1, <3>2 DEF Tick, OverflowInterrupt, thread, vars
    <3>3. CASE Enters \/ Local \/ Loads \/ SetInterrupts
      BY <1>1, <3>3 DEF Enters, Local, Loads, Reading, ReadPlaces, Millis, MillisLow, MillisHigh,
                        SetInterrupts
    <3> QED
      BY <1>1, <3>1, <3>2, <3>3, StepKinds
  <2>3. /\ m' = Unsigned(ReadTime * Ratio) /\ ReadTime \in 0..Now /\ Now <= ReadTime + 1
    BY <2>1, <2>2, MicrosResult
  <2>4. Now \in Nat
    BY <2>1, NowMoves
  <2>5. PICK y \in 0..Now : y = ReadTime
    BY <2>3
  <2>6. m' = (y * Ratio) % ULong /\ Now <= y + 1
    BY <2>3, <2>5 DEF Unsigned
  <2>7. CASE y = Now
    <3>1. Now - 0 = y /\ Now >= 0
      BY <2>4, <2>7
    <3> QED
      BY <2>6, <3>1
  <2>8. CASE y # Now
    <3>1. Now - 1 = y /\ Now >= 1
      BY <2>4, <2>5, <2>6, <2>8
    <3> QED
      BY <2>6, <3>1
  <2> QED
    BY <2>7, <2>8
<1>2. IInv /\ [PulseNext]_allvars =>
        [(pc = "micros_tov" /\ pc' # pc) =>
           \E age \in {0, 1} : Now >= age /\ m' = ((Now - age) * Ratio) % ULong]_vars
  BY <1>1
<1> QED
  BY <1>2, ClockAndCallsHold, PTL DEF PulseSpec, MicrosFresh

(* millis() returns the whole milliseconds of the overflows that the       *)
(* handler has counted: the fraction it carries does not drift, and its    *)
(* four bytes are read as one (wiring.c:43-77).                            *)
THEOREM MillisIsTrue == PulseSpec => MillisTrue
<1>1. ASSUME IInv, [PulseNext]_allvars, pc = "millis_high", pc' # pc
      PROVE  m' = ((Handled * MICROSECONDS_PER_TIMER0_OVERFLOW) \div Milli) % ULong
  <2>1. ClockInv /\ MicrosInv
    BY <1>1 DEF IInv
  <2>2. MillisHigh
    <3>1. CASE Reads
      BY <1>1, <3>1 DEF Reads, MicrosCount, MicrosTcnt, MicrosTov
    <3>2. CASE Tick \/ OverflowInterrupt \/ UNCHANGED vars
      BY <1>1, <3>2 DEF Tick, OverflowInterrupt, thread, vars
    <3>3. CASE Enters \/ Local \/ SetInterrupts
      BY <1>1, <3>3 DEF Enters, Local, Loading, LoadPlaces, SetInterrupts
    <3>4. CASE Loads
      BY <1>1, <3>4 DEF Loads, Millis, MillisLow
    <3> QED
      BY <1>1, <3>1, <3>2, <3>3, <3>4, StepKinds
  <2>3. millis = Unsigned(Whole(Handled)) /\ m = millis % ByteSize
    BY <1>1, <2>1 DEF ClockInv, MicrosInv
  <2>4. millis \in Nat
    <3>1. Handled \in Nat
      BY <2>1, NowMoves
    <3>2. Whole(Handled) \in Nat
      BY <3>1, PeriodIs
    <3> QED
      BY <2>3, <3>2, UnsignedNat
  <2>5. millis = (millis \div ByteSize) * ByteSize + (millis % ByteSize)
    BY <2>4, Numbers, DivMod
  <2>6. m' = (millis \div ByteSize) * ByteSize + m
    BY <2>2, Zenon DEF MillisHigh
  <2>7. m' = Unsigned(Whole(Handled))
    BY <2>3, <2>5, <2>6, Zenon
  <2> QED
    BY <2>7, Zenon DEF Unsigned, Whole, Periods
<1>2. IInv /\ [PulseNext]_allvars =>
        [(pc = "millis_high" /\ pc' # pc) =>
           m' = ((Handled * MICROSECONDS_PER_TIMER0_OVERFLOW) \div Milli) % ULong]_vars
  BY <1>1
<1> QED
  BY <1>2, ClockAndCallsHold, PTL DEF PulseSpec, MillisTrue

(* delay(d) returns no earlier than d milliseconds after its call, also    *)
(* when micros() wraps in between (wiring.c:106-117).                      *)
THEOREM DelayIsLongEnough == PulseSpec => DelayLongEnough
<1>1. ASSUME IInv, [PulseNext]_allvars, pc = "delay_loop", pc' = "idle"
      PROVE  (Now - called) * Ratio >= asked * Milli
  <2>1. ClockInv /\ MicrosInv /\ DelayInv
    BY <1>1 DEF IInv
  <2>2. DelayLoop
    <3>1. CASE Quiet
      BY <1>1, <2>1, <3>1, QuietPlaces DEF Places, Returns, ReadPlaces
    <3>2. CASE Others
      BY <1>1, <3>2 DEF Others, Main, MillisLow, MillisHigh, MicrosCount, MicrosTcnt, MicrosTov,
                        DelayStart, DelayCheck, Millis, Micros, Delay, SetInterrupts,
                        OverflowInterrupt, thread
    <3>3. CASE PulseTick \/ Edge \/ UNCHANGED allvars
      BY <1>1, <3>3 DEF PulseTick, Tick, Edge, vars, thread, allvars
    <3>4. CASE PulseMain
      BY <1>1, <3>4 DEF PulseMain, PulseBegin, Wait1, Wait2, Wait3, Wait, PreviousOver, PulseStarts,
                        PulseStops, PulseCheck, Check, PulseStart, PulseEnd, CountPrevious, CountGap,
                        CountBefore, CountStop
    <3>5. ASSUME NEW u \in Timeouts, PulseInLong(u) \/ PulseIn(u) PROVE DelayLoop
      BY <1>1, <3>5 DEF PulseInLong, PulseIn, Called
    <3> QED
      BY <1>1, <3>2, <3>3, <3>4, <3>5 DEF PulseNext
  <2>3. ms = 0
    BY <1>1, <2>1, <2>2 DEF DelayLoop, DelayInv, EnterMicros
  <2>4. PICK s \in 0..(Now * Ratio) : Counted(s)
    BY <1>1, <2>1 DEF DelayInv
  <2>5. /\ Now \in Nat /\ called \in Nat /\ called <= Now /\ asked \in Nat
        /\ Ratio \in Nat /\ Milli \in Nat
    BY <2>1, NowMoves, Numbers DEF DelayInv
  <2>6. /\ (Now - called) * Ratio = Now * Ratio - called * Ratio
        /\ Now * Ratio \in Nat /\ called * Ratio \in Nat /\ asked * Milli \in Nat
    BY <2>5, TimesMonotone
  <2>7. called * Ratio + asked * Milli <= s /\ s <= Now * Ratio /\ s \in Nat
    <3>1. asked - ms = asked
      BY <2>3, <2>5
    <3> QED
      BY <2>4, <2>6, <3>1 DEF Counted
  <2> QED
    BY <2>6, <2>7
<1>2. IInv /\ [PulseNext]_allvars =>
        [(pc = "delay_loop" /\ pc' = "idle") => (Now - called) * Ratio >= asked * Milli]_vars
  BY <1>1
<1> QED
  BY <1>2, ClockAndCallsHold, PTL DEF PulseSpec, DelayLongEnough

(* A call of delay, millis or micros, and a step of its own, does not end  *)
(* a measurement.                                                          *)
LEMMA WhoReturns ==
  ASSUME [PulseNext]_allvars, pc' = "idle", pc \in Checks \cup {"pulse_end"} \cup CountPlaces
  PROVE  \/ pc = "pulse_end" /\ PulseEnd
         \/ \E here \in Checks, back \in Looks :
              Check(here, back) /\ (here = "pulse_stop_check" <=> back = "pulse_stop")
         \/ CountPrevious \/ CountGap \/ CountStop
<1> USE DEF Checks, CountPlaces
<1>1. CASE Others
  BY <1>1 DEF Others, Main, MillisLow, MillisHigh, MicrosCount, MicrosTcnt, MicrosTov,
              DelayStart, DelayLoop, DelayCheck, Millis, Micros, Delay, SetInterrupts,
              OverflowInterrupt, thread
<1>2. CASE PulseTick \/ Edge \/ UNCHANGED allvars
  BY <1>2 DEF PulseTick, Tick, Edge, vars, thread, allvars
<1>3. CASE PulseMain
  <2>1. CASE PulseCheck
    BY <2>1 DEF PulseCheck, Looks
  <2> QED
    BY <1>3, <2>1 DEF PulseMain, PulseBegin, Wait1, Wait2, Wait3, Wait, PreviousOver, PulseStarts,
                      PulseStops, PulseStart, PulseEnd
<1>4. ASSUME NEW u \in Timeouts, PulseInLong(u) \/ PulseIn(u) PROVE FALSE
  BY <1>4 DEF PulseInLong, PulseIn, Called
<1> QED
  BY <1>1, <1>2, <1>3, <1>4 DEF PulseNext

LEMMA WidthIsTrue ==
  ASSUME IInv, pc = "pulse_end", PulseEnd
  PROVE  m' <= (Now - rose + 1) * Ratio /\ m' + Ratio >= held * Ratio
<1>1. ClockInv /\ MicrosInv /\ DelayInv /\ CountInv /\ PulseInv
  BY DEF IInv
<1>2. /\ Now \in Nat /\ Ratio \in Nat /\ called \in 0..Now /\ held \in Nat /\ rose \in 0..Now
      /\ ~Reading /\ Measuring
  BY <1>1, NowMoves, Numbers DEF DelayInv, PulseInv, Reading, ReadPlaces, Measuring
<1>3. PICK a \in called..Now : Started(a)
  BY <1>1 DEF PulseInv, Timed, Doing
<1>4. PICK b \in a..Now : Risen(b)
  BY <1>3 DEF Started, Doing
<1>5. /\ a \in 0..Now /\ b \in Nat /\ b + held \in b..Now /\ rose <= b
      /\ start = Unsigned(b * Ratio) /\ AtLeast((b + held) * Ratio)
      /\ (Now - a) * Ratio <= timeout + (Slack + lag) * Ratio
  BY <1>2, <1>3, <1>4 DEF Started, Risen, Doing
<1>6. PICK y \in (b + held)..Now : Unsigned(m + ULong - start) = (y - b) * Ratio
  <2>1. pc # "idle"
    OBVIOUS
  <2> QED
    BY <1>1, <1>2, <1>4, <1>5, <2>1, TimeSince
<1>7. m' = Unsigned(m + ULong - start)
  BY Zenon DEF PulseEnd, Return, Width, Unsigned
<1>8. /\ y - b \in Nat /\ Now - rose + 1 \in Nat /\ y - b <= Now - rose + 1 /\ held <= y - b
  BY <1>2, <1>5, <1>6
<1>9. /\ (y - b) * Ratio <= (Now - rose + 1) * Ratio /\ held * Ratio <= (y - b) * Ratio
      /\ (y - b) * Ratio \in Nat /\ held * Ratio \in Nat
  BY <1>2, <1>8, TimesMonotone
<1> QED
  BY <1>2, <1>6, <1>7, <1>9

LEMMA CountKept ==
  ASSUME IInv, Counting, pc' = "idle", CountPrevious \/ CountGap \/ CountStop
  PROVE  m' <= timeout
<1>1. /\ width \in Nat /\ maxloops \in Nat /\ width < maxloops /\ timeout \in Timeouts
      /\ maxloops * LoopCycles <= timeout * Cycles
      /\ timeout \in Nat /\ Cycles \in Nat \ {0} /\ LoopCycles \in Nat \ {0}
  <2>1. /\ width \in Nat /\ maxloops \in Nat /\ width < maxloops /\ timeout \in Timeouts
        /\ maxloops * LoopCycles <= timeout * Cycles
    BY DEF IInv, CountInv, Measuring
  <2> QED
    BY <2>1, Numbers
<1>2. m' = 0 \/ m' = (width * LoopCycles + LoopCycles) \div Cycles
  BY DEF CountPrevious, CountGap, CountStop, CountBefore, Return, Goto
<1>3. ASSUME NEW n \in Nat, n <= timeout * Cycles
      PROVE  n \div Cycles <= timeout
  <2>1. /\ n % Cycles \in 0..(Cycles - 1) /\ n \div Cycles \in Nat
        /\ n = (n \div Cycles) * Cycles + (n % Cycles)
    BY <1>1, DivMod
  <2>2. PICK q \in Nat : n \div Cycles = q /\ q * Cycles <= n
    <3>1. (n \div Cycles) * Cycles \in Nat
      BY <1>1, <2>1
    <3> QED
      BY <1>1, <2>1, <3>1
  <2>3. ASSUME timeout < q PROVE FALSE
    <3>1. (timeout + 1) * Cycles <= q * Cycles /\ (timeout + 1) * Cycles \in Nat /\ q * Cycles \in Nat
      BY <1>1, <2>2, <2>3, TimesMonotone
    <3>2. (timeout + 1) * Cycles = timeout * Cycles + Cycles /\ timeout * Cycles \in Nat
      BY <1>1
    <3> QED
      BY <1>1, <1>3, <2>2, <3>1, <3>2
  <2> QED
    BY <1>1, <2>2, <2>3
<1>4. /\ width * LoopCycles + LoopCycles \in Nat
      /\ width * LoopCycles + LoopCycles <= timeout * Cycles
  <2>1. (width + 1) * LoopCycles <= maxloops * LoopCycles
    BY <1>1, TimesMonotone
  <2>2. (width + 1) * LoopCycles = width * LoopCycles + LoopCycles
    BY <1>1
  <2>3. width * LoopCycles \in Nat /\ maxloops * LoopCycles \in Nat /\ timeout * Cycles \in Nat
    BY <1>1
  <2> QED
    BY <1>1, <2>1, <2>2, <2>3
<1> QED
  BY <1>1, <1>2, <1>3, <1>4

(* pulseInLong returns a width within the time from the edge until now, no *)
(* less than the time it watched the pulse for, and gives up no earlier    *)
(* than its timeout; pulseIn reports no pulse longer than its timeout      *)
(* (wiring_pulse.c:33-93).                                                 *)
THEOREM PulseIsTrue == PulseSpec => PulseTrue
<1>1. ASSUME IInv, [PulseNext]_allvars
      PROVE  WidthTrue /\ TimeoutKept
  <2>1. ASSUME pc = "pulse_end", pc' = "idle"
        PROVE  m' <= (Now - rose + 1) * Ratio /\ m' + Ratio >= held * Ratio
    <3>1. PulseEnd
      BY <1>1, <2>1, WhoReturns DEF Checks, Check, CountPrevious, CountGap, CountStop, CountBefore
    <3> QED
      BY <1>1, <2>1, <3>1, WidthIsTrue
  <2>2. ASSUME pc' = "idle", pc \in Checks
        PROVE  (Now - called) * Ratio > timeout
    <3>1. PICK here \in Checks, back \in Looks :
            Check(here, back) /\ (here = "pulse_stop_check" <=> back = "pulse_stop")
      BY <1>1, <2>2, WhoReturns DEF Checks, CountPrevious, CountGap, CountStop, CountBefore
    <3>2. TimedOut
      BY <2>2, <3>1 DEF Check, Goto, Looks
    <3> QED
      BY <1>1, <3>1, <3>2, PulseChecked DEF IInv
  <2>3. ASSUME pc' = "idle", Counting
        PROVE  m' <= timeout
    <3>1. CountPrevious \/ CountGap \/ CountStop
      BY <1>1, <2>3, WhoReturns DEF Counting, CountPlaces, Check, Checks
    <3> QED
      BY <1>1, <2>3, <3>1, CountKept
  <2> QED
    BY <2>1, <2>2, <2>3 DEF WidthTrue, TimeoutKept, Checks
<1>2. IInv /\ [PulseNext]_allvars => [WidthTrue /\ TimeoutKept]_allvars
  BY <1>1
<1> QED
  BY <1>2, ClockAndCallsHold, PTL DEF PulseSpec, PulseTrue

-----------------------------------------------------------------------------
(* delayMicroseconds() *)

LEMMA Tables ==
  /\ AtOnce[1] = 25 /\ Factor[1] = 1 /\ TakenOff[1] = 22 /\ Burned[1] = 22
  /\ AtOnce[8] = 2 /\ Factor[8] = 2 /\ TakenOff[8] = 4 /\ Burned[8] = 19
  /\ AtOnce[12] = 1 /\ Factor[12] = 3 /\ TakenOff[12] = 5 /\ Burned[12] = 22
  /\ AtOnce[16] = 1 /\ Factor[16] = 4 /\ TakenOff[16] = 5 /\ Burned[16] = 21
  /\ AtOnce[20] = 1 /\ Factor[20] = 5 /\ TakenOff[20] = 7 /\ Burned[20] = 28
  /\ AtOnce[24] = 0 /\ Factor[24] = 6 /\ TakenOff[24] = 5 /\ Burned[24] = 24
<1>1. 8 \div 4 = 2 /\ 12 \div 4 = 3 /\ 16 \div 4 = 4 /\ 20 \div 4 = 5 /\ 24 \div 4 = 6
  BY Z3
<1> QED
  BY <1>1 DEF AtOnce, Factor, TakenOff, Burned, Speed

(* delayMicroseconds(us) takes us microseconds to within 20 cycles, at     *)
(* each clock and for every argument whose product fits: none runs the     *)
(* loop 65536 times (wiring.c:120-239).                                    *)
THEOREM ShortDelaysHold == PulseSpec => []ShortDelayTrue
<1> USE DEF ShortDelay, SpinCycles
<1>1. ASSUME NEW us \in Nat, us <= (UInt - 1) \div Factor[1]
      PROVE  ShortDelay(1, us)
  <2>1. us <= 65535
    BY <1>1, Tables DEF UInt
  <2>2. CASE us <= 25
    BY <2>1, <2>2, Tables
  <2>3. CASE us > 25
    <3>1. Turns(1, us) = (us - 22) \div 4
      BY <2>1, <2>3, Tables DEF Turns, UInt
    <3>2. (us - 22) \div 4 # 0 /\ us - 22 - 4 * ((us - 22) \div 4) \in 0..3
      BY <2>1, <2>3
    <3> QED
      BY <2>1, <2>3, <3>1, <3>2, Tables
  <2> QED
    BY <2>2, <2>3
<1>2. ASSUME NEW us \in Nat, us <= (UInt - 1) \div Factor[8]
      PROVE  ShortDelay(8, us)
  <2>1. us <= 32767
    BY <1>2, Tables DEF UInt
  <2>2. CASE us <= 2
    BY <2>2, Tables
  <2>3. CASE us > 2
    <3>1. Turns(8, us) = us * 2 - 4
      BY <2>1, <2>3, Tables DEF Turns, UInt
    <3> QED
      BY <2>1, <2>3, <3>1, Tables
  <2> QED
    BY <2>2, <2>3
<1>3. ASSUME NEW us \in Nat, us <= (UInt - 1) \div Factor[12]
      PROVE  ShortDelay(12, us)
  <2>1. us <= 21845
    BY <1>3, Tables DEF UInt
  <2>2. CASE us <= 1
    BY <2>2, Tables
  <2>3. CASE us > 1
    <3>1. Turns(12, us) = us * 3 - 5
      BY <2>1, <2>3, Tables DEF Turns, UInt
    <3> QED
      BY <2>1, <2>3, <3>1, Tables
  <2> QED
    BY <2>2, <2>3
<1>4. ASSUME NEW us \in Nat, us <= (UInt - 1) \div Factor[16]
      PROVE  ShortDelay(16, us)
  <2>1. us <= 16383
    BY <1>4, Tables DEF UInt
  <2>2. CASE us <= 1
    BY <2>2, Tables
  <2>3. CASE us > 1
    <3>1. Turns(16, us) = us * 4 - 5
      BY <2>1, <2>3, Tables DEF Turns, UInt
    <3> QED
      BY <2>1, <2>3, <3>1, Tables
  <2> QED
    BY <2>2, <2>3
<1>5. ASSUME NEW us \in Nat, us <= (UInt - 1) \div Factor[20]
      PROVE  ShortDelay(20, us)
  <2>1. us <= 13107
    BY <1>5, Tables DEF UInt
  <2>2. CASE us <= 1
    BY <2>2, Tables
  <2>3. CASE us > 1
    <3>1. Turns(20, us) = us * 5 - 7
      BY <2>1, <2>3, Tables DEF Turns, UInt
    <3> QED
      BY <2>1, <2>3, <3>1, Tables
  <2> QED
    BY <2>2, <2>3
<1>6. ASSUME NEW us \in Nat, us <= (UInt - 1) \div Factor[24]
      PROVE  ShortDelay(24, us)
  <2>1. us <= 10922
    BY <1>6, Tables DEF UInt
  <2>2. CASE us <= 0
    BY <2>2, Tables
  <2>3. CASE us > 0
    <3>1. Turns(24, us) = us * 6 - 5
      BY <2>1, <2>3, Tables DEF Turns, UInt
    <3> QED
      BY <2>1, <2>3, <3>1, Tables
  <2> QED
    BY <2>2, <2>3
<1> HIDE DEF ShortDelay, SpinCycles
<1>7. ASSUME NEW mhz \in Speed, NEW us \in 0..((UInt - 1) \div Factor[mhz])
      PROVE  ShortDelay(mhz, us)
  <2>1. us \in Nat /\ us <= (UInt - 1) \div Factor[mhz]
    BY <1>7
  <2> QED
    BY <2>1, <1>1, <1>2, <1>3, <1>4, <1>5, <1>6, Zenon DEF Speed
<1>8. ShortDelays
  BY <1>7 DEF ShortDelays
<1>9. ShortDelayTrue
  BY <1>8 DEF ShortDelayTrue
<1> QED
  BY <1>9, PTL

=============================================================================
