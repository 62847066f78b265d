--------------------------------- MODULE Pins ---------------------------------
(***************************************************************************)
(* wiring_digital.c and wiring_shift.c on one port and one timer: pinMode, *)
(* digitalWrite, digitalRead, shiftOut, shiftIn of the sketch, and the     *)
(* digitalWrite of an interrupt handler on a pin of its own.  The handler  *)
(* comes between any two accesses of the sketch unless interrupts are off, *)
(* and runs to its end.  A register is the set of the pins whose bit is    *)
(* set.                                                                    *)
(***************************************************************************)
EXTENDS Naturals, Sequences, FiniteSets

CONSTANTS
  Pin,                  \* the pins of the port
  TimerPin,             \* those with a PWM output of the timer
  HandlerPin,           \* written by the handler only
  DataPin, ClockPin,    \* of shiftOut and shiftIn
  BitCount              \* 8

ASSUME PinsAssumption ==
  /\ TimerPin \subseteq Pin /\ {HandlerPin, DataPin, ClockPin} \subseteq Pin
  /\ HandlerPin \notin {DataPin, ClockPin} /\ DataPin # ClockPin
  /\ BitCount \in Nat

VARIABLES
  ddr, out,         \* *portModeRegister, *portOutputRegister
  com,              \* COMnx1 bits of TCCRnA: pins the timer drives
  inten, oldSREG,   \* the I bit of SREG, its saved value
  pc, call,         \* next access; the function: "mode", "write", "read" or "none"
  pin, val,         \* its arguments
  reg,              \* a register loaded and not yet stored
  level,            \* what the outside puts on DataPin
  shift,            \* shiftOut, shiftIn: what is done, bits done, the value
  far,              \* ghost: the bits in the shift register outside
  given,            \* ghost: value and order of the last shiftOut
  want,             \* ghost: the pins last written HIGH
  off               \* ghost: the sketch called noInterrupts()

lines == <<level, far, given>>
ghosts == <<want, off>>
pinvars == <<ddr, out, com, inten, oldSREG, pc, call, pin, val, reg, shift, lines, ghosts>>

With(r, p, v) == IF v THEN r \cup {p} ELSE r \ {p}
SketchPin == Pin \ {HandlerPin}
LSBFIRST == 0
Idle == [kind |-> "none", phase |-> 0, i |-> 0, value |-> {}, order |-> LSBFIRST]

PinsInit ==
  /\ ddr = {} /\ out = {} /\ com \in SUBSET TimerPin
  /\ inten = TRUE /\ oldSREG = TRUE
  /\ pc = "idle" /\ call = "none" /\ pin = DataPin /\ val = FALSE /\ reg = {}
  /\ level = FALSE /\ shift = Idle /\ far = <<>> /\ given = <<{}, LSBFIRST>>
  /\ want = {} /\ off = FALSE

-----------------------------------------------------------------------------
(* The sketch calls *)

Begin(c, p, v) ==
  /\ call' = c /\ pin' = p /\ val' = v
  /\ pc' = IF c # "mode" /\ p \in TimerPin THEN "loadTimer"
           ELSE IF c = "read" THEN "read" ELSE "lock"

(* The locals of a call end with it. *)
Return ==
  /\ pc' = "idle" /\ call' = "none" /\ pin' = DataPin /\ val' = FALSE
  /\ oldSREG' = TRUE

(* pinMode: to OUTPUT, or to INPUT with the pull-up off or on. *)
PinMode ==
  /\ pc = "idle" /\ shift.kind = "none"
  /\ \E p \in SketchPin, mode \in {"OUTPUT", "INPUT", "INPUT_PULLUP"} :
       /\ Begin("mode", p, mode = "INPUT_PULLUP")
       /\ reg' = IF mode = "OUTPUT" THEN {"OUTPUT"} ELSE {}
  /\ UNCHANGED <<ddr, out, com, inten, oldSREG, shift, lines, ghosts>>

DigitalWrite ==
  /\ pc = "idle" /\ shift.kind = "none"
  /\ \E p \in SketchPin, v \in BOOLEAN : Begin("write", p, v)
  /\ UNCHANGED <<ddr, out, com, inten, oldSREG, reg, shift, lines, ghosts>>

(* noInterrupts() and interrupts() *)
Interrupts ==
  /\ pc = "idle" /\ shift.kind = "none"
  /\ off' = ~off /\ inten' = off
  /\ UNCHANGED <<ddr, out, com, oldSREG, pc, call, pin, val, reg, shift, lines, want>>

-----------------------------------------------------------------------------
(* turnOffPWM: two accesses, interrupts as they are *)

LoadTimer ==
  /\ pc = "loadTimer"
  /\ reg' = com
  /\ pc' = "storeTimer"
  /\ UNCHANGED <<ddr, out, com, inten, oldSREG, call, pin, val, shift, lines, ghosts>>

StoreTimer ==
  /\ pc = "storeTimer"
  /\ com' = reg \ {pin}
  /\ reg' = {}
  /\ pc' = IF call = "read" THEN "read" ELSE "lock"
  /\ UNCHANGED <<ddr, out, inten, oldSREG, call, pin, val, shift, lines, ghosts>>

-----------------------------------------------------------------------------
(* SREG saved, cli(), registers loaded, stored, SREG restored *)

AfterCliForgotten == inten
AfterCli == FALSE
Lock ==
  /\ pc = "lock"
  /\ oldSREG' = inten
  /\ inten' = AfterCli
  /\ pc' = "load"
  /\ UNCHANGED <<ddr, out, com, call, pin, val, reg, shift, lines, ghosts>>

(* The output register, and for pinMode the direction register before it.  *)
(* OUTPUT leaves the output register alone.                                *)
ToOutput == call = "mode" /\ reg # {}
Load ==
  /\ pc = "load"
  /\ ddr' = IF call = "mode" THEN With(ddr, pin, ToOutput) ELSE ddr
  /\ IF ToOutput
       THEN pc' = "unlock" /\ reg' = {}
       ELSE pc' = "store" /\ reg' = out
  /\ UNCHANGED <<out, com, inten, oldSREG, call, pin, val, shift, lines, ghosts>>

(* The outside follows the clock: it takes a bit, or shows the next one. *)
ClockRises == pin = ClockPin /\ val /\ ClockPin \notin out
Outside ==
  IF ~ClockRises THEN UNCHANGED <<level, far>>
  ELSE IF shift.kind = "out"
    THEN far' = Append(far, DataPin \in out) /\ UNCHANGED level
  ELSE IF shift.kind = "in" /\ far # <<>>
    THEN level' = Head(far) /\ far' = Tail(far)
  ELSE UNCHANGED <<level, far>>

Store ==
  /\ pc = "store"
  /\ out' = With(reg, pin, val)
  /\ want' = With(want, pin, val)
  /\ reg' = {}
  /\ pc' = "unlock"
  /\ Outside
  /\ UNCHANGED <<ddr, com, inten, oldSREG, call, pin, val, shift, given, off>>

RestoredAlways == TRUE
Restored == oldSREG
Unlock ==
  /\ pc = "unlock"
  /\ inten' = Restored
  /\ Return
  /\ UNCHANGED <<ddr, out, com, reg, shift, lines, ghosts>>

-----------------------------------------------------------------------------
(* shiftOut and shiftIn: their loops, each digitalWrite as above.  A value *)
(* is the set of its bits.  The sketch has the clock low before it shifts, *)
(* as it must be for the first clock pulse to have an edge.                *)

BitAt(i, order) == IF order = LSBFIRST THEN i ELSE BitCount - 1 - i

ShiftOut ==
  /\ pc = "idle" /\ shift.kind = "none" /\ far = <<>> /\ ClockPin \notin out
  /\ \E value \in SUBSET (0..(BitCount - 1)), order \in {LSBFIRST, 1} :
       /\ shift' = [kind |-> "out", phase |-> 0, i |-> 0, value |-> value, order |-> order]
       /\ given' = <<value, order>>
  /\ UNCHANGED <<ddr, out, com, inten, oldSREG, pc, call, pin, val, reg, level, far, ghosts>>

(* The sketch reads back what it shifted out, in the order it likes. *)
ShiftIn ==
  /\ pc = "idle" /\ shift.kind = "none" /\ Len(far) = BitCount /\ ClockPin \notin out
  /\ \E order \in {LSBFIRST, 1} :
       shift' = [kind |-> "in", phase |-> 0, i |-> 0, value |-> {}, order |-> order]
  /\ UNCHANGED <<ddr, out, com, inten, oldSREG, pc, call, pin, val, reg, lines, ghosts>>

(* Data, clock up, clock down; or clock up, data read, clock down. *)
ShiftStep ==
  /\ pc = "idle" /\ shift.kind # "none" /\ shift.i < BitCount
  /\ \/ /\ shift.kind = "out" /\ shift.phase = 0
        /\ Begin("write", DataPin, BitAt(shift.i, shift.order) \in shift.value)
     \/ /\ shift.kind = "in" /\ shift.phase = 1
        /\ Begin("read", DataPin, FALSE)
     \/ /\ shift.phase = (IF shift.kind = "out" THEN 1 ELSE 0)
        /\ Begin("write", ClockPin, TRUE)
     \/ /\ shift.phase = 2
        /\ Begin("write", ClockPin, FALSE)
  /\ shift' = IF shift.phase = 2 THEN [shift EXCEPT !.phase = 0, !.i = @ + 1]
              ELSE [shift EXCEPT !.phase = @ + 1]
  /\ UNCHANGED <<ddr, out, com, inten, oldSREG, reg, lines, ghosts>>

(* digitalRead of the data pin; value |= bit << place *)
PlaceOfOther(i, order) == BitAt(i, 1 - order)
Place(i, order) == BitAt(i, order)
Read ==
  /\ pc = "read"
  /\ shift' = IF level THEN [shift EXCEPT !.value = @ \cup {Place(shift.i, shift.order)}] ELSE shift
  /\ Return
  /\ UNCHANGED <<ddr, out, com, inten, reg, lines, ghosts>>

ShiftDone ==
  /\ pc = "idle" /\ shift.kind # "none" /\ shift.i = BitCount
  /\ shift' = Idle
  /\ IF shift.kind = "in" THEN level' = FALSE /\ given' = <<{}, LSBFIRST>>
     ELSE UNCHANGED <<level, given>>
  /\ UNCHANGED <<ddr, out, com, inten, oldSREG, pc, call, pin, val, reg, far, ghosts>>

-----------------------------------------------------------------------------
(* digitalWrite in a handler: interrupts are off, so it is one step. *)
HandlerWrites(v) ==
  /\ com' = com \ {HandlerPin}
  /\ out' = With(out, HandlerPin, v)
  /\ want' = With(want, HandlerPin, v)

SketchCalls == PinMode \/ DigitalWrite \/ Interrupts \/ ShiftOut \/ ShiftIn
SketchRuns == \/ LoadTimer \/ StoreTimer \/ Lock \/ Load \/ Store \/ Unlock
              \/ ShiftStep \/ Read \/ ShiftDone

-----------------------------------------------------------------------------
(* The port holds what was written last to each of its pins: neither the   *)
(* sketch nor the handler undoes the other's write to a neighbour pin.     *)
PortKept == out = want

(* While the sketch has switched interrupts off, no call switches them on. *)
StaysOff == off => ~inten

(* Both: no access of the port is lost to an interrupt, or let one in.     *)
PinsKept == PortKept /\ StaysOff

(* What shiftOut sends arrives in the order asked for, and shiftIn in the  *)
(* same order gives the value back, whatever the handler writes meanwhile. *)
ShiftsRoundTrip ==
  /\ shift.kind = "none" /\ Len(far) = BitCount =>
       \A i \in 0..(BitCount - 1) : far[i + 1] = (BitAt(i, given[2]) \in given[1])
  /\ shift.kind = "in" /\ shift.i = BitCount /\ pc = "idle" /\ shift.order = given[2] =>
       shift.value = given[1]

(* A pin written by digitalWrite is no longer driven by the timer.         *)
(* wiring_digital.c: "If the pin that support PWM output, we need to turn  *)
(* it off before doing a digital write."  It fails where a pin of the      *)
(* sketch has an output of the same timer: turnOffPWM leaves interrupts on *)
(* between its two accesses (README, known disagreements).                 *)
WrittenPinIsDigital == HandlerPin \in want => HandlerPin \notin com
=============================================================================
