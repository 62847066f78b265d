------------------------------- MODULE Timer -------------------------------
(***************************************************************************)
(* The clock of the Arduino core (core/wiring.c): timer 0 counts ticks,    *)
(* its overflow interrupt keeps timer0_overflow_count and timer0_millis,   *)
(* and millis(), micros() and delay() read them from the main thread.      *)
(*                                                                         *)
(* The main thread moves by one access per step; the overflow handler is   *)
(* one step, as it runs with interrupts disabled.  Ticks come at any time. *)
(***************************************************************************)
EXTENDS Naturals

CONSTANTS
  TimerSize,  \* ticks from one overflow to the next: 256
  Ratio,      \* microseconds per tick: 64 / clockCyclesPerMicrosecond() = 4
  Milli,      \* microseconds in a millisecond: 1000
  FractUnit,  \* the unit timer0_fract counts in: 8, the "shift right by three"
  ByteSize,   \* 256
  ULong,      \* values of an unsigned long: 2^32
  MaxLag,     \* ticks a handler may hold up the main thread between two steps
  MaxLatency, \* ticks an overflow may stay pending
  MaxNow,     \* bound: ticks until the modelled time ends
  Delays      \* the arguments of delay(), in milliseconds

MICROSECONDS_PER_TIMER0_OVERFLOW == TimerSize * Ratio
MILLIS_INC == MICROSECONDS_PER_TIMER0_OVERFLOW \div Milli
FRACT_INC == (MICROSECONDS_PER_TIMER0_OVERFLOW % Milli) \div FractUnit
FRACT_MAX == Milli \div FractUnit

(* Fractions are exact, as the comment at wiring.c:32-34 wants them, and    *)
(* the sum in the handler fits a byte; an overflow is served before the     *)
(* timer reaches its last value again.                                      *)
ASSUME TimerAssumption ==
  /\ {TimerSize, Ratio, Milli, FractUnit, ByteSize, ULong, MaxLag} \subseteq Nat \ {0}
  /\ MaxNow \in Nat /\ Delays \subseteq Nat
  /\ MaxLatency \in Nat /\ MaxLatency < TimerSize - 1
  /\ Milli = FRACT_MAX * FractUnit
  /\ MICROSECONDS_PER_TIMER0_OVERFLOW = MILLIS_INC * Milli + FRACT_INC * FractUnit
  /\ FRACT_INC + FRACT_MAX <= ByteSize
  /\ Milli < ULong

VARIABLES
  tcnt,    \* TCNT0
  tov,     \* TOV0: an overflow is pending
  count,   \* timer0_overflow_count
  millis,  \* timer0_millis
  fract,   \* timer0_fract
  inten,   \* the I bit of SREG
  sreg,    \* oldSREG
  pc,      \* the next access of the main thread
  to,      \* where micros() returns to
  m, t,    \* the locals of millis() and micros(); m also holds the result
  ms, start, \* the argument and the local of delay()
  lag,     \* ticks since the main thread last moved
  wraps,   \* ghost: overflows so far
  asked, called \* ghosts: the argument of delay() and the time of its call

timer == <<tcnt, wraps>>
clock == <<count, millis, fract>>
delayVars == <<ms, start, asked, called>>
thread == <<sreg, pc, to, m, t, lag>>
vars == <<timer, tov, clock, inten, thread, delayVars>>

(* The true time, in ticks, and the overflows the handler has counted. *)
Now == wraps * TimerSize + tcnt
Handled == IF tov THEN wraps - 1 ELSE wraps

----------------------------------------------------------------------------
(* After init(): timer 0 runs and its interrupt is enabled. *)
Init ==
  /\ tcnt = 0 /\ wraps = 0 /\ tov = FALSE
  /\ count = 0 /\ millis = 0 /\ fract = 0
  /\ inten = TRUE /\ sreg = TRUE
  /\ pc = "idle" /\ to = "idle" /\ m = 0 /\ t = 0 /\ lag = 0
  /\ ms = 0 /\ start = 0 /\ asked = 0 /\ called = 0

(* Timing: with interrupts off, one step of a call is shorter than a tick  *)
(* (64 cycles); with interrupts on, handlers may hold it up for MaxLag     *)
(* ticks.  A pending overflow is served within MaxLatency ticks.           *)
InTime ==
  /\ tov => tcnt < MaxLatency
  /\ pc # "idle" => lag < IF inten THEN MaxLag ELSE 1

(* The timer counts and, from its last value, overflows. *)
Tick ==
  /\ Now < MaxNow
  /\ InTime
  /\ lag' = IF pc = "idle" THEN 0 ELSE lag + 1
  /\ \/ /\ tcnt < TimerSize - 1
        /\ tcnt' = tcnt + 1
        /\ UNCHANGED <<wraps, tov>>
     \/ /\ tcnt = TimerSize - 1
        /\ tcnt' = 0
        /\ wraps' = wraps + 1
        /\ tov' = TRUE
  /\ UNCHANGED <<clock, inten, sreg, pc, to, m, t, delayVars>>

(* A whole millisecond has come together in f. *)
CarryLate(f) == f > FRACT_MAX
Carry(f) == f >= FRACT_MAX

(* SIGNAL(TIMER0_OVF_vect) *)
OverflowInterrupt ==
  /\ inten /\ tov
  /\ tov' = FALSE
  /\ LET f == fract + FRACT_INC
     IN IF Carry(f)
        THEN /\ fract' = f - FRACT_MAX
             /\ millis' = (millis + MILLIS_INC + 1) % ULong
        ELSE /\ fract' = f
             /\ millis' = (millis + MILLIS_INC) % ULong
  /\ count' = (count + 1) % ULong
  /\ UNCHANGED <<timer, inten, thread, delayVars>>

----------------------------------------------------------------------------
(* unsigned long millis(): interrupts off, then timer0_millis byte by byte *)
(* (two loads stand for four), then SREG as it was.                        *)
MillisNoCli ==
  /\ pc = "idle"
  /\ sreg' = inten
  /\ pc' = "millis_low" /\ lag' = 0
  /\ UNCHANGED <<timer, tov, clock, inten, to, m, t, delayVars>>
Millis ==
  /\ pc = "idle"
  /\ sreg' = inten
  /\ inten' = FALSE
  /\ pc' = "millis_low" /\ lag' = 0
  /\ UNCHANGED <<timer, tov, clock, to, m, t, delayVars>>

MillisLow ==
  /\ pc = "millis_low"
  /\ m' = millis % ByteSize
  /\ pc' = "millis_high" /\ lag' = 0
  /\ UNCHANGED <<timer, tov, clock, inten, sreg, to, t, delayVars>>

MillisHigh ==
  /\ pc = "millis_high"
  /\ m' = (millis \div ByteSize) * ByteSize + m
  /\ inten' = sreg
  /\ pc' = "idle" /\ lag' = 0
  /\ UNCHANGED <<timer, tov, clock, sreg, to, t, delayVars>>

(* unsigned long micros(), called from where it returns to. *)
EnterMicros(from) ==
  /\ sreg' = inten
  /\ inten' = FALSE
  /\ to' = from
  /\ pc' = "micros_count" /\ lag' = 0
  /\ UNCHANGED <<timer, tov, clock, m, t>>

Micros ==
  /\ pc = "idle"
  /\ EnterMicros("idle")
  /\ UNCHANGED delayVars

MicrosCount ==
  /\ pc = "micros_count"
  /\ m' = count
  /\ pc' = "micros_tcnt" /\ lag' = 0
  /\ UNCHANGED <<timer, tov, clock, inten, sreg, to, t, delayVars>>

MicrosTcnt ==
  /\ pc = "micros_tcnt"
  /\ t' = tcnt
  /\ pc' = "micros_tov" /\ lag' = 0
  /\ UNCHANGED <<timer, tov, clock, inten, sreg, to, m, delayVars>>

(* The overflow still pending happened before TCNT0 was read. *)
OverflowSeenAlways == tov
OverflowSeen == tov /\ t < TimerSize - 1

MicrosTov ==
  /\ pc = "micros_tov"
  /\ m' = (((IF OverflowSeen THEN m + 1 ELSE m) * TimerSize + t) * Ratio) % ULong
  /\ inten' = sreg
  /\ pc' = to /\ lag' = 0
  /\ to' = "idle" /\ t' = 0
  /\ UNCHANGED <<timer, tov, clock, sreg, delayVars>>

----------------------------------------------------------------------------
(* delay(d), called with interrupts enabled: start = micros(). *)
Delay(d) ==
  /\ pc = "idle" /\ inten
  /\ ms' = d
  /\ asked' = d /\ called' = Now
  /\ EnterMicros("delay_start")
  /\ UNCHANGED start

DelayStart ==
  /\ pc = "delay_start"
  /\ start' = m
  /\ pc' = "delay_loop" /\ lag' = 0
  /\ UNCHANGED <<timer, tov, clock, inten, sreg, to, m, t, ms, asked, called>>

(* Both loop conditions; yield() does nothing. *)
DelayLoop ==
  /\ pc = "delay_loop"
  /\ IF ms > 0
     THEN EnterMicros("delay_check") /\ UNCHANGED delayVars
     ELSE /\ pc' = "idle" /\ lag' = 0
          /\ m' = 0 /\ start' = 0 /\ asked' = 0 /\ called' = 0
          /\ UNCHANGED <<timer, tov, clock, inten, sreg, to, t, ms>>

(* The unsigned difference survives the wrap of micros(). *)
ElapsedCompare == m >= (start + Milli) % ULong
ElapsedWide == m >= start + Milli
Elapsed == (m + ULong - start) % ULong >= Milli

DelayCheck ==
  /\ pc = "delay_check"
  /\ IF Elapsed
     THEN /\ ms' = ms - 1
          /\ start' = (start + Milli) % ULong
     ELSE UNCHANGED <<ms, start>>
  /\ pc' = "delay_loop" /\ lag' = 0
  /\ UNCHANGED <<timer, tov, clock, inten, sreg, to, m, t, asked, called>>

(* noInterrupts() and interrupts() of the sketch. *)
SetInterrupts ==
  /\ pc = "idle"
  /\ inten' = ~inten
  /\ UNCHANGED <<timer, tov, clock, thread, delayVars>>

Main ==
  \/ MillisLow \/ MillisHigh
  \/ MicrosCount \/ MicrosTcnt \/ MicrosTov
  \/ DelayStart \/ DelayLoop \/ DelayCheck

Next ==
  \/ Tick \/ OverflowInterrupt
  \/ Millis \/ Micros \/ (\E d \in Delays : Delay(d)) \/ SetInterrupts
  \/ Main

Spec == Init /\ [][Next]_vars

(* A call runs on; the timer runs; a pending interrupt is taken, also when *)
(* calls disable and enable interrupts all the time.                       *)
Fairness == WF_vars(Main) /\ SF_vars(Tick) /\ SF_vars(OverflowInterrupt)
LiveSpec == Spec /\ Fairness

----------------------------------------------------------------------------
(* micros() returns the true time (modulo 2^32), at most one tick old,     *)
(* whatever overflows while it runs: it never runs backwards.              *)
MicrosFresh ==
  [][(pc = "micros_tov" /\ pc' # pc) =>
       \E age \in {0, 1} :
         Now >= age /\ m' = ((Now - age) * Ratio) % ULong]_vars

(* millis() returns the whole milliseconds in the overflow periods that    *)
(* the handler has counted, and it has counted all but a pending one: the  *)
(* fractions do not drift, and no torn value is returned.                  *)
MillisTrue ==
  [][(pc = "millis_high" /\ pc' # pc) =>
       m' = ((Handled * MICROSECONDS_PER_TIMER0_OVERFLOW) \div Milli) % ULong]_vars

(* delay(d) returns no earlier than d milliseconds after its call, also    *)
(* when micros() wraps in between.                                         *)
DelayLongEnough ==
  [][(pc = "delay_loop" /\ pc' = "idle") =>
       (Now - called) * Ratio >= asked * Milli]_vars

(* delay() returns: when the modelled time is long enough for it, it does  *)
(* not miss the end because micros() wrapped.                              *)
TicksIn == [d \in Delays |-> (d * Milli + Ratio) \div Ratio]
DelayReturns ==
  \A d \in Delays :
    (pc = "delay_start" /\ asked = d /\ Now + TicksIn[d] <= MaxNow) ~> (pc = "idle")
=============================================================================
