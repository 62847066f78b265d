-------------------------------- MODULE Pulse --------------------------------
(***************************************************************************)
(* wiring_pulse.c on the clock of Timer: pulseInLong(), which measures a   *)
(* pulse with micros(), and pulseIn(), which counts the turns of a loop    *)
(* (countPulseASM); and delayMicroseconds() of wiring.c, which counts too. *)
(* The pin changes at any time.                                            *)
(***************************************************************************)
EXTENDS Timer, Integers

CONSTANTS
  Cycles,     \* clockCyclesPerMicrosecond()
  LoopCycles, \* cycles of one turn of countPulseASM: 16
  Timeouts,   \* the timeouts given, in microseconds
  MaxEdges    \* bound: changes of the pin during a call

(* A time-out, and what handlers may add before it is noticed, is shorter  *)
(* than the time after which micros() wraps.                               *)
ASSUME PulseAssumption ==
  /\ {Cycles, LoopCycles} \subseteq Nat \ {0} /\ MaxEdges \in Nat
  /\ Timeouts \subseteq Nat \ {0}
  /\ \A u \in Timeouts :
       /\ LoopCycles <= u * Cycles /\ u * Cycles < ULong
       /\ u + (6 * MaxLag + 7) * Ratio < ULong

VARIABLES
  signal,      \* the pin is in the state asked for; FALSE when nobody looks
  timeout, startMicros, \* argument and local of pulseInLong; its start is
                        \* the variable start
  maxloops, width, \* locals of countPulseASM
  edges,       \* changes of the pin during the call
  rose,        \* ghost: when the pin last came into the state asked for
  held         \* ghost: ticks it has been seen there since start was taken

pulse == <<signal, timeout, startMicros, maxloops, width, edges, rose, held>>
allvars == <<vars, pulse>>

PulseInit ==
  /\ Init
  /\ signal = FALSE
  /\ timeout = 0 /\ startMicros = 0 /\ maxloops = 0 /\ width = 0
  /\ edges = 0 /\ rose = 0 /\ held = 0

Counting == pc \in {"count_previous", "count_gap", "count_stop"}
Before == {pc, to} \cap {"pulse_begin", "pulse_previous", "pulse_previous_check",
                       "pulse_gap", "pulse_gap_check"} # {}
InPulse == {pc, to} \cap {"pulse_stop", "pulse_stop_check"} # {}
Measuring == Counting \/ Before \/ InPulse \/ {pc, to} \cap {"pulse_start", "pulse_end"} # {}

(* The outside: the pin changes. *)
Edge ==
  /\ Measuring /\ edges < MaxEdges
  /\ edges' = edges + 1
  /\ signal' = ~signal
  /\ rose' = IF signal' /\ Before THEN Now ELSE rose
  /\ UNCHANGED <<vars, timeout, startMicros, maxloops, width, held>>

PulseTick ==
  /\ Tick
  /\ held' = IF InPulse /\ signal THEN held + 1 ELSE held
  /\ UNCHANGED <<signal, timeout, startMicros, maxloops, width, edges, rose>>

-----------------------------------------------------------------------------
(* A step of the call that leads to next, by way of micros() or at once. *)
Goto(next) ==
  /\ pc' = next /\ lag' = 0
  /\ UNCHANGED <<timer, tov, clock, inten, sreg, to, m, t>>

(* The call returns r, in m as the others do. *)
Return(r) ==
  /\ pc' = "idle" /\ lag' = 0 /\ m' = r /\ start' = 0 /\ asked' = 0 /\ called' = 0
  /\ width' = 0
  /\ timeout' = 0 /\ startMicros' = 0 /\ maxloops' = 0
  /\ edges' = 0 /\ rose' = 0 /\ held' = 0
  /\ signal' = FALSE
  /\ UNCHANGED <<timer, tov, clock, inten, sreg, to, t, ms>>

Called(u) ==
  /\ pc = "idle" /\ inten
  /\ timeout' = u /\ called' = Now
  /\ rose' = Now /\ signal' \in BOOLEAN
  /\ UNCHANGED <<ms, start, asked, startMicros, width, edges, held>>

(* pulseInLong *)
PulseInLong(u) ==
  /\ Called(u)
  /\ EnterMicros("pulse_begin")
  /\ UNCHANGED maxloops

PulseBegin ==
  /\ pc = "pulse_begin"
  /\ startMicros' = m
  /\ Goto("pulse_previous")
  /\ UNCHANGED <<delayVars, signal, timeout, maxloops, width, edges, rose, held>>

(* The three waits: for the end of a pulse already there, for the pulse,   *)
(* for its end.  Each looks at the pin, then at the time.                  *)
Wait(here, while, check) ==
  /\ pc = here /\ while
  /\ EnterMicros(check)
  /\ UNCHANGED <<delayVars, pulse>>

Wait1 == Wait("pulse_previous", signal, "pulse_previous_check")
Wait2 == Wait("pulse_gap", ~signal, "pulse_gap_check")
Wait3 == Wait("pulse_stop", signal, "pulse_stop_check")

PreviousOver == pc = "pulse_previous" /\ ~signal /\ Goto("pulse_gap") /\ UNCHANGED <<delayVars, pulse>>
PulseStarts == pc = "pulse_gap" /\ signal /\ EnterMicros("pulse_start") /\ UNCHANGED <<delayVars, pulse>>
PulseStops == pc = "pulse_stop" /\ ~signal /\ EnterMicros("pulse_end") /\ UNCHANGED <<delayVars, pulse>>

(* micros() - startMicros > timeout *)
TimedOutCompare == m > (startMicros + timeout) % ULong
TimedOutWide == m > startMicros + timeout
TimedOut == (m + ULong - startMicros) % ULong > timeout
Check(here, back) ==
  /\ pc = here
  /\ IF TimedOut THEN Return(0) ELSE Goto(back) /\ UNCHANGED <<delayVars, pulse>>

PulseCheck ==
  \/ Check("pulse_previous_check", "pulse_previous")
  \/ Check("pulse_gap_check", "pulse_gap")
  \/ Check("pulse_stop_check", "pulse_stop")

PulseStart ==
  /\ pc = "pulse_start"
  /\ start' = m
  /\ Goto("pulse_stop")
  /\ UNCHANGED <<ms, asked, called, pulse>>

WidthFromCall == (m + ULong - startMicros) % ULong
Width == (m + ULong - start) % ULong
PulseEnd == pc = "pulse_end" /\ Return(Width)

-----------------------------------------------------------------------------
(* pulseIn: the timeout in turns of the loop *)
PulseIn(u) ==
  /\ Called(u)
  /\ maxloops' = ((u * Cycles) % ULong) \div LoopCycles
  /\ pc' = "count_previous" /\ lag' = 0
  /\ UNCHANGED <<timer, tov, clock, inten, sreg, to, m, t>>

(* The loops before the pulse: --maxloops, or on to the next loop. *)
CountBefore(here, while, next) ==
  /\ pc = here
  /\ IF ~while THEN Goto(next) /\ UNCHANGED <<delayVars, pulse>>
     ELSE IF maxloops = 1 THEN Return(0)
     ELSE /\ maxloops' = (maxloops + ULong - 1) % ULong
          /\ Goto(here)
          /\ UNCHANGED <<delayVars, signal, timeout, startMicros, width, edges, rose, held>>

CountPrevious == CountBefore("count_previous", signal, "count_gap")
CountGap == CountBefore("count_gap", ~signal, "count_stop")

(* The loop during the pulse: ++width == maxloops *)
FullLate == width = maxloops
Full == width + 1 = maxloops
CountStop ==
  /\ pc = "count_stop"
  /\ IF ~signal
       THEN Return(IF width = 0 THEN 0 ELSE (width * LoopCycles + LoopCycles) \div Cycles)
     ELSE IF Full THEN Return(0)
     ELSE /\ width' = width + 1
          /\ Goto("count_stop")
          /\ UNCHANGED <<delayVars, signal, timeout, startMicros, maxloops, edges, rose, held>>

-----------------------------------------------------------------------------
PulseMain ==
  \/ PulseBegin \/ Wait1 \/ Wait2 \/ Wait3
  \/ PreviousOver \/ PulseStarts \/ PulseStops \/ PulseCheck \/ PulseStart \/ PulseEnd
  \/ CountPrevious \/ CountGap \/ CountStop

Others ==
  \/ OverflowInterrupt /\ UNCHANGED pulse
  \/ Main /\ UNCHANGED pulse
  \/ /\ Millis \/ Micros \/ (\E d \in Delays : Delay(d)) \/ SetInterrupts
     /\ UNCHANGED pulse

PulseNext ==
  \/ PulseTick \/ Edge \/ Others \/ PulseMain
  \/ \E u \in Timeouts : PulseInLong(u) \/ PulseIn(u)

(* As for Timer; a call of either kind runs on. *)
PulseFairness ==
  /\ WF_allvars((Main /\ UNCHANGED pulse) \/ PulseMain)
  /\ SF_allvars(PulseTick)
  /\ SF_allvars(OverflowInterrupt /\ UNCHANGED pulse)
PulseSpec == PulseInit /\ [][PulseNext]_allvars /\ PulseFairness

-----------------------------------------------------------------------------
(* The width pulseInLong returns is within the time from the moment the    *)
(* pin came into the state asked for until now, and no less than the time  *)
(* the pulse was then watched for, each to a tick, also when micros()      *)
(* wraps in the middle of the pulse.                                       *)
WidthTrue ==
  (pc = "pulse_end" /\ pc' = "idle") =>
    m' <= (Now - rose + 1) * Ratio /\ m' + Ratio >= held * Ratio

(* pulseInLong gives up no earlier than its timeout; what pulseIn reports  *)
(* is never longer than its timeout.                                       *)
TimeoutKept ==
  pc' = "idle" =>
    /\ pc \in {"pulse_previous_check", "pulse_gap_check", "pulse_stop_check"} =>
         (Now - called) * Ratio > timeout
    /\ Counting => m' <= timeout

(* Both, whenever a measurement ends.                                      *)
PulseTrue == [][WidthTrue /\ TimeoutKept]_allvars

TicksOf == [u \in Timeouts |-> u \div Ratio + 3]

(* delay() returns, and pulseInLong, pulse or none, when the modelled time *)
(* is long enough: neither misses its end because micros() wrapped.        *)
CallsReturn ==
  DelayReturns /\ \A u \in Timeouts :
    (pc = "pulse_begin" /\ timeout = u /\ Now + TicksOf[u] <= MaxNow) ~> (pc = "idle")

-----------------------------------------------------------------------------
(* delayMicroseconds() at each clock: arguments that return at once, the   *)
(* factor and the divisor of the turns, the turns taken off, the cycles    *)
(* spent before the loop (the comments' counts, with a variable argument). *)
Speed == {1, 8, 12, 16, 20, 24}
AtOnce == [mhz \in Speed |->
  CASE mhz = 1 -> 25 [] mhz = 8 -> 2 [] mhz = 24 -> 0 [] OTHER -> 1]
Factor == [mhz \in Speed |-> IF mhz = 1 THEN 1 ELSE mhz \div 4]
TakenOff == [mhz \in Speed |->
  CASE mhz = 1 -> 22 [] mhz = 8 -> 4 [] mhz = 20 -> 7 [] OTHER -> 5]
Burned == [mhz \in Speed |->
  CASE mhz = 8 -> 19 [] mhz = 16 -> 21 [] mhz = 20 -> 28 [] mhz = 24 -> 24 [] OTHER -> 22]
UInt == 65536

TurnsUncorrected(mhz, us) == (us * Factor[mhz]) % UInt
Turns(mhz, us) ==
  LET n == (us * Factor[mhz] - TakenOff[mhz]) % UInt
  IN IF mhz = 1 THEN n \div 4 ELSE n

(* sbiw before brne: no turns are 65536 turns. *)
SpinCycles(mhz, us) ==
  IF us <= AtOnce[mhz] THEN IF mhz = 20 THEN 20 ELSE 16
  ELSE Burned[mhz] + 4 * (IF Turns(mhz, us) = 0 THEN UInt ELSE Turns(mhz, us))

(* delayMicroseconds(us) takes us microseconds to within 20 cycles, at     *)
(* every clock, for every argument whose product fits an unsigned int: no  *)
(* argument runs the loop from zero.                                       *)
ShortDelay(mhz, us) ==
  LET d == SpinCycles(mhz, us) - us * mhz IN -20 <= d /\ d <= 20
ShortDelays ==
  \A mhz \in Speed : \A us \in 0..((UInt - 1) \div Factor[mhz]) : ShortDelay(mhz, us)
ShortDelayTrue == pc = "idle" => ShortDelays
=============================================================================
