----------------------- MODULE ExternalInterruptsProofs -----------------------
(***************************************************************************)
(* Theorems about the port, the shift registers and the table of handlers  *)
(* (core/wiring_digital.c, wiring_shift.c, WInterrupts.c), for any pins,   *)
(* any number of bits and of external interrupts.                          *)
(***************************************************************************)
EXTENDS ExternalInterrupts, Integers, TLAPS

-----------------------------------------------------------------------------
(* The inductive invariant *)

(* Between cli() and the restoring of SREG. *)
Locked == pc \in {"load", "store", "unlock"}

PortInv ==
  /\ pc \in {"idle", "loadTimer", "storeTimer", "read", "lock", "load", "store", "unlock"}
  /\ {inten, oldSREG, off} \subseteq BOOLEAN
  /\ out = want
  /\ Locked => ~inten
  /\ pc = "store" => reg = out
  /\ off => ~inten
  /\ Locked /\ off => ~oldSREG

Bytes == Function \cup {Nothing}
Attaching == <<"low", "high", "enable">>
Detaching == <<"disable", "low", "high">>
HighLeft == <<"high", "enable">>
EnableLeft == <<"enable">>
ClearLeft == <<"low", "high">>
ClearHighLeft == <<"high">>
TableInv ==
  /\ intFunc \in [ExtInt -> [low : Bytes, high : Bytes]] /\ handler \in [ExtInt -> Bytes]
  /\ eimsk \subseteq ExtInt
  /\ \A m \in eimsk : intFunc[m] = Both(handler[m])
  /\ todo # <<>> => n \in ExtInt
  /\ \/ todo = <<>>
     \/ /\ todo = Detaching /\ f = Nothing
     \/ /\ todo \in {ClearLeft, ClearHighLeft}
        /\ n \notin eimsk /\ f = Nothing
     \/ /\ todo \in {Attaching, HighLeft, EnableLeft}
        /\ n \notin eimsk /\ f \in Function /\ handler[n] = f
        /\ todo # Attaching => intFunc[n].low = f
        /\ todo = EnableLeft => intFunc[n].high = f

(* Bit j of what was last shifted out. *)
Sent(j) == BitAt(j, given[2]) \in given[1]
Pending == pc \notin {"idle", "unlock"}
Writing(p, v) == pc # "idle" => call = "write" /\ pin = p /\ val = v

(* shiftOut: the clock goes low, the data bit is put, the clock goes high. *)
OutLow ==
  /\ Len(far) = shift.i
  /\ Writing(ClockPin, FALSE) /\ (~Pending => ClockPin \notin out)
OutData ==
  /\ Len(far) = shift.i /\ ClockPin \notin out
  /\ Writing(DataPin, Sent(shift.i)) /\ (~Pending => (DataPin \in out) = Sent(shift.i))
OutHigh ==
  /\ Writing(ClockPin, TRUE) /\ (DataPin \in out) = Sent(shift.i)
  /\ Pending => Len(far) = shift.i /\ ClockPin \notin out
  /\ ~Pending => Len(far) = shift.i + 1 /\ ClockPin \in out
OutInv ==
  /\ given = <<shift.value, shift.order>>
  /\ \A j \in 0..(Len(far) - 1) : far[j + 1] = Sent(j)
  /\ shift.phase # 0 => shift.i < BitCount
  /\ shift.phase = 0 => OutLow
  /\ shift.phase = 1 => OutData
  /\ shift.phase = 2 => OutHigh

(* The first k bits, and no others, are in the value of shiftIn, if it     *)
(* reads in the order of shiftOut.                                         *)
Received(k) ==
  shift.order = given[2] =>
    \A b \in 0..(BitCount - 1) :
      b \in shift.value <=> b \in given[1] /\ BitAt(b, given[2]) \in 0..(k - 1)

(* shiftIn: the clock goes low, it goes high, the data pin is read. *)
InLow ==
  /\ Len(far) = BitCount - shift.i /\ Received(shift.i) /\ pc # "read"
  /\ Writing(ClockPin, FALSE) /\ (~Pending => ClockPin \notin out)
InHigh ==
  /\ Writing(ClockPin, TRUE) /\ Received(shift.i) /\ pc # "read"
  /\ Pending => Len(far) = BitCount - shift.i /\ ClockPin \notin out
  /\ ~Pending => Len(far) = BitCount - shift.i - 1 /\ ClockPin \in out /\ level = Sent(shift.i)
InRead ==
  /\ Len(far) = BitCount - shift.i - 1
  /\ pc # "idle" => /\ call = "read" /\ level = Sent(shift.i) /\ Received(shift.i)
                    /\ pc \in {"loadTimer", "storeTimer", "read"}
  /\ pc = "idle" => Received(shift.i + 1)
InInv ==
  /\ \A k \in 0..(Len(far) - 1) : far[k + 1] = Sent(BitCount - Len(far) + k)
  /\ shift.phase # 0 => shift.i < BitCount
  /\ shift.phase = 0 => InLow
  /\ shift.phase = 1 => InHigh
  /\ shift.phase = 2 => InRead

ShiftInv ==
  /\ far \in Seq(BOOLEAN)
  /\ given \in (SUBSET (0..(BitCount - 1))) \X {LSBFIRST, 1}
  /\ shift \in [kind : {"none", "out", "in"}, phase : 0..2, i : 0..BitCount,
                value : SUBSET (0..(BitCount - 1)), order : {LSBFIRST, 1}]
  /\ shift.kind # "in" => pc # "read" /\ call # "read"
  /\ pc = "idle" => call # "read"
  /\ shift.kind = "none" =>
       \/ far = <<>>
       \/ Len(far) = BitCount /\ \A j \in 0..(BitCount - 1) : far[j + 1] = Sent(j)
  /\ shift.kind = "out" => OutInv
  /\ shift.kind = "in" => InInv

-----------------------------------------------------------------------------
(* The kinds of steps: of an access of the sketch, of a handler, of none   *)
(* of the two.                                                             *)

Handling ==
  /\ inten
  /\ \E v \in BOOLEAN : HandlerWrites(v)
  /\ UNCHANGED <<ddr, inten, oldSREG, pc, call, pin, val, reg, shift, lines, off>>

LEMMA StepKinds ==
  ASSUME [Next]_vars
  PROVE  UNCHANGED pinvars \/ Handling \/ SketchRuns \/ SketchCalls
<1>1. CASE Attach \/ Detach \/ StoreByte \/ SetMask \/ \E m \in ExtInt : Event(m)
  BY <1>1 DEF Attach, Detach, StoreByte, SetMask, Event
<1>2. ASSUME NEW m \in ExtInt, ISR(m)
      PROVE  UNCHANGED pinvars \/ Handling
  BY <1>2 DEF ISR, Handling, pinvars, ghosts
<1> QED
  BY <1>1, <1>2 DEF Next, vars

LEMMA PortStep ==
  ASSUME PortInv, [Next]_vars
  PROVE  PortInv'
<1> USE DEF Locked
<1>1. CASE UNCHANGED pinvars
  BY <1>1 DEF PortInv, pinvars, ghosts
<1>2. CASE Handling
  BY <1>2 DEF PortInv, Handling, HandlerWrites
<1>3. CASE SketchCalls
  <2>1. CASE PinMode \/ DigitalWrite \/ ShiftOut \/ ShiftIn
    <3>1. /\ UNCHANGED <<inten, oldSREG, off, out, want>>
          /\ pc' \in {"idle", "loadTimer", "read", "lock"}
      BY <2>1 DEF PinMode, DigitalWrite, ShiftOut, ShiftIn, Begin, ghosts, PortInv
    <3> QED
      BY <3>1 DEF PortInv
  <2>2. CASE Interrupts
    <3>1. /\ pc = "idle" /\ off' = ~off /\ inten' = off
          /\ UNCHANGED <<pc, oldSREG, out, want>>
      BY <2>2 DEF Interrupts
    <3> QED
      BY <3>1 DEF PortInv
  <2> QED
    BY <1>3, <2>1, <2>2 DEF SketchCalls
<1>4. CASE SketchRuns
  <2>1. CASE LoadTimer \/ StoreTimer \/ ShiftStep \/ ShiftDone
    <3>1. /\ UNCHANGED <<inten, oldSREG, off, out, want>>
          /\ pc' \in {"idle", "loadTimer", "storeTimer", "read", "lock"}
      BY <2>1 DEF LoadTimer, StoreTimer, ShiftStep, ShiftDone, Begin, ghosts, PortInv
    <3> QED
      BY <3>1 DEF PortInv
  <2>2. CASE Read
    <3>1. UNCHANGED <<inten, off, out, want>> /\ pc' = "idle" /\ oldSREG' = TRUE
      BY <2>2 DEF Read, Return, ghosts
    <3> QED
      BY <3>1 DEF PortInv
  <2>3. CASE Lock
    <3>1. UNCHANGED <<off, out, want>> /\ pc' = "load" /\ oldSREG' = inten /\ inten' = FALSE
      BY <2>3 DEF Lock, AfterCli, ghosts
    <3> QED
      BY <3>1 DEF PortInv
  <2>4. CASE Load
    <3>1. /\ UNCHANGED <<inten, oldSREG, off, out, want>> /\ pc = "load"
          /\ pc' = "unlock" \/ (pc' = "store" /\ reg' = out)
      BY <2>4 DEF Load, ghosts
    <3> QED
      BY <3>1 DEF PortInv
  <2>5. CASE Store
    <3>1. /\ UNCHANGED <<inten, oldSREG, off>> /\ pc = "store" /\ pc' = "unlock"
          /\ out' = With(reg, pin, val) /\ want' = With(want, pin, val)
      BY <2>5 DEF Store
    <3>2. out' = want'
      BY <3>1 DEF PortInv
    <3> QED
      BY <3>1, <3>2 DEF PortInv
  <2>6. CASE Unlock
    <3>1. /\ UNCHANGED <<off, out, want>> /\ pc = "unlock" /\ pc' = "idle"
          /\ oldSREG' = TRUE /\ inten' = oldSREG
      BY <2>6 DEF Unlock, Restored, Return, ghosts
    <3> QED
      BY <3>1 DEF PortInv
  <2> QED
    BY <1>4, <2>1, <2>2, <2>3, <2>4, <2>5, <2>6 DEF SketchRuns
<1> QED
  BY <1>1, <1>2, <1>3, <1>4, StepKinds

(* Neither the sketch nor a handler undoes the other's write to a pin of   *)
(* the port, and no call of the three functions switches interrupts on     *)
(* that the sketch has off (wiring_digital.c:29-163: SREG saved, cli(),    *)
(* the register read and written, SREG restored).                          *)
THEOREM PinsAreKept == Spec => []PinsKept
<1>1. Init => PortInv
  <2> SUFFICES ASSUME Init
               PROVE  PortInv
    OBVIOUS
  <2>1. pc = "idle" /\ out = want /\ inten = TRUE /\ oldSREG = TRUE /\ off = FALSE
    BY DEF Init, PinsInit
  <2> QED
    BY <2>1 DEF PortInv, Locked
<1>2. PortInv /\ [Next]_vars => PortInv'
  BY PortStep
<1>3. PortInv => PinsKept
  BY DEF PortInv, PinsKept, PortKept, StaysOff
<1> QED
  BY <1>1, <1>2, <1>3, PTL DEF Spec

-----------------------------------------------------------------------------
(* The table of handlers *)

LEMMA BothIs ==
  ASSUME NEW r \in [low : Bytes, high : Bytes], NEW g, r.low = g, r.high = g
  PROVE  r = Both(g)
  BY DEF Both

LEMMA Orders ==
  /\ Attaching # <<>> /\ Head(Attaching) = "low" /\ Tail(Attaching) = HighLeft
  /\ HighLeft # <<>> /\ Head(HighLeft) = "high" /\ Tail(HighLeft) = EnableLeft
  /\ EnableLeft # <<>> /\ Head(EnableLeft) = "enable" /\ Tail(EnableLeft) = <<>>
  /\ Detaching # <<>> /\ Head(Detaching) = "disable" /\ Tail(Detaching) = ClearLeft
  /\ ClearLeft # <<>> /\ Head(ClearLeft) = "low" /\ Tail(ClearLeft) = ClearHighLeft
  /\ ClearHighLeft # <<>> /\ Head(ClearHighLeft) = "high" /\ Tail(ClearHighLeft) = <<>>
  /\ Attaching # EnableLeft /\ Attaching # HighLeft /\ HighLeft # EnableLeft
  /\ {Detaching, ClearLeft, ClearHighLeft} \cap {Attaching, HighLeft, EnableLeft} = {}
  BY DEF Attaching, HighLeft, EnableLeft, Detaching, ClearLeft, ClearHighLeft

LEMMA TableStep ==
  ASSUME TableInv, ~wild, ~MayReattach, [Next]_vars
  PROVE  TableInv' /\ ~wild'
<1> USE DEF TableInv
<1>1. CASE Attach
  <2>1. PICK m \in ExtInt, g \in Function :
          /\ m \notin eimsk /\ n' = m /\ f' = g /\ todo' = Attaching
          /\ handler' = [handler EXCEPT ![m] = g]
          /\ UNCHANGED <<intFunc, eimsk, wild>>
    BY <1>1 DEF Attach, AttachOrder, Attaching
  <2>2. handler' \in [ExtInt -> Bytes] /\ handler'[m] = g /\ \A k \in ExtInt \ {m} : handler'[k] = handler[k]
    BY <2>1 DEF Bytes
  <2>3. \A k \in eimsk' : intFunc'[k] = Both(handler'[k])
    BY <2>1, <2>2
  <2> QED
    BY <2>1, <2>2, <2>3, Orders
<1>2. CASE Detach
  <2>1. n' \in ExtInt /\ f' = Nothing /\ todo' = Detaching /\ UNCHANGED <<intFunc, eimsk, handler, wild>>
    BY <1>2 DEF Detach, Detaching
  <2> QED
    BY <2>1, Orders
<1>3. CASE StoreByte
  <2>1. /\ todo # <<>> /\ Head(todo) \in {"low", "high"} /\ todo' = Tail(todo)
        /\ intFunc' = [intFunc EXCEPT ![n][Head(todo)] = f] /\ n \in ExtInt
        /\ todo' # <<>> => n' = n /\ f' = f
        /\ handler' = IF f = Nothing /\ todo' = <<>> THEN [handler EXCEPT ![n] = Nothing] ELSE handler
        /\ UNCHANGED <<eimsk, wild>>
    BY <1>3 DEF StoreByte, Proceed
  <2>2. f \in Bytes /\ n \notin eimsk
    BY <2>1, Orders DEF Bytes
  <2>3. /\ intFunc' \in [ExtInt -> [low : Bytes, high : Bytes]]
        /\ \A k \in ExtInt \ {n} : intFunc'[k] = intFunc[k]
    BY <2>1, <2>2
  <2>4. /\ handler' \in [ExtInt -> Bytes] /\ \A k \in ExtInt \ {n} : handler'[k] = handler[k]
    BY <2>1 DEF Bytes
  <2>5. \A k \in eimsk' : intFunc'[k] = Both(handler'[k])
    BY <2>1, <2>2, <2>3, <2>4
  <2>6. CASE todo \in {ClearLeft, ClearHighLeft}
    <3>1. f = Nothing /\ todo' \in {ClearHighLeft, <<>>}
      BY <2>1, <2>6, Orders
    <3> QED
      BY <2>1, <2>2, <2>3, <2>4, <2>5, <3>1, Orders
  <2>7. CASE todo = Attaching
    <3>1. /\ todo' = HighLeft /\ handler' = handler /\ n' = n /\ f' = f
          /\ f \in Function /\ handler[n] = f /\ intFunc'[n].low = f
      BY <2>1, <2>7, Orders DEF Nothing, Function
    <3> QED
      BY <2>1, <2>2, <2>3, <2>4, <2>5, <3>1, Orders
  <2>8. CASE todo = HighLeft
    <3>1. /\ todo' = EnableLeft /\ handler' = handler /\ n' = n /\ f' = f
          /\ f \in Function /\ handler[n] = f /\ intFunc'[n].low = f /\ intFunc'[n].high = f
      BY <2>1, <2>8, Orders DEF Nothing, Function
    <3> QED
      BY <2>1, <2>2, <2>3, <2>4, <2>5, <3>1, Orders
  <2> QED
    BY <2>1, <2>6, <2>7, <2>8, Orders
<1>4. CASE SetMask
  <2>1. /\ todo # <<>> /\ Head(todo) \in {"enable", "disable"} /\ todo' = Tail(todo)
        /\ eimsk' = With(eimsk, n, Head(todo) = "enable") /\ n \in ExtInt
        /\ todo' # <<>> => n' = n /\ f' = f
        /\ UNCHANGED <<intFunc, handler, wild>>
    BY <1>4 DEF SetMask, Proceed
  <2>2. CASE todo = Detaching
    <3>1. eimsk' = eimsk \ {n} /\ todo' = ClearLeft
      BY <2>1, <2>2, Orders DEF With
    <3>2. f = Nothing
      BY <2>2, Orders
    <3> QED
      BY <2>1, <3>1, <3>2, Orders
  <2>3. CASE todo = EnableLeft
    <3>1. eimsk' = eimsk \cup {n} /\ todo' = <<>>
      BY <2>1, <2>3, Orders DEF With
    <3>2. intFunc[n].low = handler[n] /\ intFunc[n].high = handler[n]
      BY <2>3, Orders
    <3>3. intFunc[n] = Both(handler[n])
      BY <2>1, <3>2, BothIs
    <3> QED
      BY <2>1, <3>1, <3>3
  <2> QED
    BY <2>1, <2>2, <2>3, Orders
<1>5. ASSUME NEW m \in ExtInt, Event(m)
      PROVE  TableInv' /\ ~wild'
  BY <1>5 DEF Event
<1>6. ASSUME NEW m \in ExtInt, ISR(m)
      PROVE  TableInv' /\ ~wild'
  <2>1. intFunc[m] = Both(handler[m]) /\ m \in eimsk
    BY <1>6 DEF ISR
  <2>2. ~wild'
    BY <1>6, <2>1 DEF ISR
  <2>3. UNCHANGED <<todo, n, f>>
    BY <1>6 DEF ISR
  <2>4. CASE handler[m] = "once"
    <3>1. /\ eimsk' = eimsk \ {m}
          /\ intFunc' = [intFunc EXCEPT ![m] = Both(Nothing)]
          /\ handler' = [handler EXCEPT ![m] = Nothing]
      BY <1>6, <2>2, <2>4 DEF ISR
    <3>2. /\ intFunc' \in [ExtInt -> [low : Bytes, high : Bytes]]
          /\ handler' \in [ExtInt -> Bytes]
          /\ \A k \in ExtInt \ {m} : intFunc'[k] = intFunc[k] /\ handler'[k] = handler[k]
      BY <3>1 DEF Both, Bytes
    <3>3. \A k \in eimsk' : intFunc'[k] = Both(handler'[k])
      BY <3>1, <3>2
    <3>4. n \notin eimsk => n # m
      BY <2>1
    <3> QED
      BY <2>2, <2>3, <3>1, <3>2, <3>3, <3>4
  <2>5. CASE handler[m] # "once"
    <3>1. UNCHANGED <<eimsk, intFunc, handler>>
      BY <1>6, <2>2, <2>5 DEF ISR
    <3> QED
      BY <2>2, <2>3, <3>1
  <2> QED
    BY <2>4, <2>5
<1>7. CASE UNCHANGED intvars
  BY <1>7 DEF intvars
<1> QED
  BY <1>1, <1>2, <1>3, <1>4, <1>5, <1>6, <1>7 DEF Next, vars

(* An interrupt calls the function the sketch attached to it: attach       *)
(* stores the pointer before it enables, detach disables first             *)
(* (WInterrupts.c:70-285); a sketch that attaches to an enabled interrupt  *)
(* is left out, as is what an interrupt between the two stores would call. *)
THEOREM HandlersAreRight == Spec /\ ~MayReattach => []RightHandler
<1> DEFINE HInv == TableInv /\ ~wild /\ ~MayReattach
<1>1. Init /\ ~MayReattach => HInv
  <2> SUFFICES ASSUME Init, ~MayReattach
               PROVE  HInv
    OBVIOUS
  <2>1. /\ intFunc = [m \in ExtInt |-> Both(Nothing)] /\ handler = [m \in ExtInt |-> Nothing]
        /\ eimsk = {} /\ todo = <<>> /\ wild = FALSE
    BY DEF Init
  <2> QED
    BY <2>1 DEF TableInv, Both, Bytes
<1>2. HInv /\ [Next]_vars => HInv'
  BY TableStep
<1>3. HInv => RightHandler
  BY DEF RightHandler
<1> QED
  BY <1>1, <1>2, <1>3, PTL DEF Spec

-----------------------------------------------------------------------------
(* shiftOut and shiftIn *)

LEMMA Bits ==
  ASSUME NEW order \in {LSBFIRST, 1}, NEW i \in 0..(BitCount - 1)
  PROVE  BitAt(i, order) \in 0..(BitCount - 1) /\ BitAt(BitAt(i, order), order) = i
  BY PinsAssumption DEF BitAt, LSBFIRST

LEMMA ShiftTypes ==
  ASSUME ShiftInv
  PROVE  /\ far \in Seq(BOOLEAN) /\ Len(far) \in Nat /\ BitCount \in Nat
         /\ shift.kind \in {"none", "out", "in"} /\ shift.phase \in 0..2 /\ shift.i \in 0..BitCount
         /\ shift.value \in SUBSET (0..(BitCount - 1)) /\ shift.order \in {LSBFIRST, 1}
         /\ given[1] \in SUBSET (0..(BitCount - 1)) /\ given[2] \in {LSBFIRST, 1}
         /\ given = <<given[1], given[2]>>
  BY PinsAssumption DEF ShiftInv

(* Steps that do not finish an access of the port, or finish a call. *)
Passing ==
  /\ UNCHANGED <<shift, lines>>
  /\ (DataPin \in out') = (DataPin \in out) /\ (ClockPin \in out') = (ClockPin \in out)
  /\ Pending' = Pending
  /\ pc' # "idle" => pc # "idle" /\ UNCHANGED <<call, pin, val>>
  /\ pc' = "idle" => pc \in {"idle", "unlock"}
  /\ pc' = "read" => call = "read"
  /\ pc' # "idle" /\ call = "read" => pc' \in {"loadTimer", "storeTimer", "read"}
  /\ pc' = "idle" /\ pc # "idle" => call' = "none"
  /\ pc' = "idle" /\ pc = "idle" => call' = call

LEMMA PassingKeeps ==
  ASSUME ShiftInv, Passing
  PROVE  ShiftInv'
<1>1. UNCHANGED <<shift, level, far, given>>
  BY DEF Passing, lines
<1>2. \A j : Sent(j)' = Sent(j)
  BY <1>1 DEF Sent
<1>3. \A p, v : Writing(p, v) => Writing(p, v)'
  BY DEF Passing, Writing
<1>4. \A k : Received(k)' = Received(k)
  BY <1>1 DEF Received
<1>5. ASSUME OutInv PROVE OutInv'
  <2>1. (OutLow => OutLow') /\ (OutData => OutData') /\ (OutHigh => OutHigh')
    BY <1>1, <1>2, <1>3 DEF OutLow, OutData, OutHigh, Passing
  <2> QED
    BY <1>1, <1>2, <1>5, <2>1 DEF OutInv
<1>6. ASSUME InInv PROVE InInv'
  <2>1. InLow /\ shift.phase = 0 => InLow'
    BY <1>1, <1>2, <1>3, <1>4, <1>6 DEF InLow, Writing, Passing
  <2>2. InHigh => InHigh'
    BY <1>1, <1>2, <1>3, <1>4, <1>6 DEF InHigh, Writing, Passing
  <2>3. InRead => InRead'
    BY <1>1, <1>2, <1>4, <1>6 DEF InRead, Passing
  <2> QED
    BY <1>1, <1>2, <1>6, <2>1, <2>2, <2>3 DEF InInv
<1>7. /\ shift.kind # "in" => pc' # "read" /\ call' # "read"
      /\ pc' = "idle" => call' # "read"
  BY DEF ShiftInv, Passing
<1> QED
  BY <1>1, <1>2, <1>5, <1>6, <1>7 DEF ShiftInv

(* With no shift going on, what the sketch does is of no concern. *)
LEMMA NoneKeeps ==
  ASSUME ShiftInv, shift.kind = "none", UNCHANGED <<shift, far, given>>,
         pc' # "read", call' # "read"
  PROVE  ShiftInv'
<1>1. \A j : Sent(j)' = Sent(j)
  BY DEF Sent
<1> QED
  BY <1>1 DEF ShiftInv

(* What a shift is in the middle of. *)
LEMMA Calling ==
  ASSUME ShiftInv, shift.kind # "none", pc # "idle"
  PROVE  /\ call \in {"write", "read"}
         /\ call = "read" => /\ shift.kind = "in" /\ shift.phase = 2
                             /\ pc \in {"loadTimer", "storeTimer", "read"}
         /\ pc = "read" => call = "read"
         /\ call = "write" => pin \in {DataPin, ClockPin}
<1>1. CASE shift.kind = "out"
  <2>1. OutInv /\ pc # "read" /\ shift.phase \in 0..2
    BY <1>1 DEF ShiftInv
  <2> QED
    BY <2>1 DEF OutInv, OutLow, OutData, OutHigh, Writing
<1>2. CASE shift.kind = "in"
  <2>1. InInv /\ shift.phase \in 0..2
    BY <1>2 DEF ShiftInv
  <2> QED
    BY <1>2, <2>1 DEF InInv, InLow, InHigh, InRead, Writing
<1> QED
  BY <1>1, <1>2 DEF ShiftInv

LEMMA HandlingPasses ==
  ASSUME ShiftInv, Handling
  PROVE  ShiftInv'
<1>1. HandlerPin # DataPin /\ HandlerPin # ClockPin
  BY PinsAssumption
<1>2. (DataPin \in out') = (DataPin \in out) /\ (ClockPin \in out') = (ClockPin \in out)
  BY <1>1 DEF Handling, HandlerWrites, With
<1>3. UNCHANGED <<pc, call, pin, val, shift, lines>>
  BY DEF Handling
<1>4. pc # "idle" /\ shift.kind # "none" =>
        /\ pc = "read" => call = "read"
        /\ call = "read" => pc \in {"loadTimer", "storeTimer", "read"}
  BY Calling
<1>5. CASE shift.kind = "none"
  BY <1>3, <1>5, NoneKeeps DEF ShiftInv, lines
<1>6. CASE shift.kind # "none"
  <2>1. Passing
    BY <1>2, <1>3, <1>4, <1>6 DEF Passing, Pending
  <2> QED
    BY <2>1, PassingKeeps
<1> QED
  BY <1>5, <1>6

LEMMA AccessPasses ==
  ASSUME ShiftInv, shift.kind # "none",
         LoadTimer \/ StoreTimer \/ Lock \/ Load \/ Unlock
  PROVE  ShiftInv'
<1>1. pc # "idle" /\ UNCHANGED <<out, shift, lines>>
  BY DEF LoadTimer, StoreTimer, Lock, Load, Unlock
<1>2. CASE Unlock
  <2>1. pc = "unlock" /\ pc' = "idle" /\ call' = "none"
    BY <1>2 DEF Unlock, Return
  <2>2. Passing
    BY <1>1, <2>1 DEF Passing, Pending
  <2> QED
    BY <2>2, PassingKeeps
<1>3. CASE LoadTimer \/ StoreTimer \/ Lock \/ Load
  <2>1. UNCHANGED <<call, pin, val>>
    BY <1>3 DEF LoadTimer, StoreTimer, Lock, Load
  <2>2. call # "mode"
    BY <1>1, Calling
  <2>3. /\ pc \in {"loadTimer", "storeTimer", "lock", "load"}
        /\ pc' \in {"storeTimer", "read", "lock", "load", "store"}
        /\ pc' = "read" => call = "read"
        /\ call = "read" => pc' \in {"storeTimer", "read"}
    <3>1. CASE LoadTimer
      BY <3>1 DEF LoadTimer
    <3>2. CASE StoreTimer
      BY <3>2 DEF StoreTimer
    <3>3. CASE Lock \/ Load
      <4>1. call # "read"
        BY <1>1, <3>3, Calling DEF Lock, Load
      <4> QED
        BY <2>2, <3>3, <4>1 DEF Lock, Load, ToOutput
    <3> QED
      BY <1>3, <3>1, <3>2, <3>3
  <2>4. Passing
    BY <1>1, <2>1, <2>3 DEF Passing, Pending
  <2> QED
    BY <2>4, PassingKeeps
<1> QED
  BY <1>2, <1>3

LEMMA StoreShifts ==
  ASSUME PortInv, ShiftInv, shift.kind # "none", Store
  PROVE  ShiftInv'
<1>1. /\ pc = "store" /\ pc' = "unlock" /\ out' = With(out, pin, val)
      /\ UNCHANGED <<call, pin, val, shift, given>>
  BY DEF Store, PortInv
<1>2. call = "write" /\ Pending /\ ~Pending'
  BY <1>1, Calling DEF Pending
<1>3. \A j : Sent(j)' = Sent(j)
  BY <1>1 DEF Sent
<1>4. \A k : Received(k)' = Received(k)
  BY <1>1 DEF Received
<1>5. \A p, v : Writing(p, v) => Writing(p, v)' /\ pin = p /\ val = v
  BY <1>1 DEF Writing
<1>6. DataPin # ClockPin
  BY PinsAssumption
<1>7. CASE shift.kind = "out"
  <2>1. OutInv /\ shift.phase \in 0..2 /\ far \in Seq(BOOLEAN)
    BY <1>7 DEF ShiftInv
  <2>2. CASE shift.phase = 0
    <3>1. OutLow /\ pin = ClockPin /\ val = FALSE
      BY <1>5, <2>1, <2>2 DEF OutInv, OutLow
    <3>2. far' = far /\ ClockPin \notin out'
      BY <1>1, <3>1 DEF Store, Outside, ClockRises, With
    <3>3. OutLow'
      BY <1>1, <1>5, <3>1, <3>2 DEF OutLow
    <3> QED
      BY <1>1, <1>2, <1>3, <1>7, <2>1, <2>2, <3>2, <3>3 DEF ShiftInv, OutInv
  <2>3. CASE shift.phase = 1
    <3>1. OutData /\ pin = DataPin /\ val = Sent(shift.i)
      BY <1>5, <2>1, <2>3 DEF OutInv, OutData
    <3>2. far' = far /\ ClockPin \notin out' /\ (DataPin \in out') = Sent(shift.i)
      <4>1. ClockPin \notin out
        BY <3>1 DEF OutData
      <4>2. far' = far
        BY <1>1, <1>6, <3>1 DEF Store, Outside, ClockRises
      <4>3. Sent(shift.i) => out' = out \cup {DataPin}
        BY <1>1, <3>1 DEF With
      <4>4. ~Sent(shift.i) => out' = out \ {DataPin}
        BY <1>1, <3>1 DEF With
      <4>5. Sent(shift.i) \in BOOLEAN
        BY DEF Sent
      <4> QED
        BY <1>6, <4>1, <4>2, <4>3, <4>4, <4>5
    <3>3. OutData'
      BY <1>1, <1>3, <1>5, <3>1, <3>2 DEF OutData
    <3> QED
      BY <1>1, <1>2, <1>3, <1>7, <2>1, <2>3, <3>2, <3>3 DEF ShiftInv, OutInv
  <2>4. CASE shift.phase = 2
    <3>1. OutHigh /\ pin = ClockPin /\ val = TRUE
      BY <1>5, <2>1, <2>4 DEF OutInv, OutHigh
    <3>2. Len(far) = shift.i /\ ClockPin \notin out /\ (DataPin \in out) = Sent(shift.i)
      BY <1>2, <3>1 DEF OutHigh
    <3>3. far' = Append(far, DataPin \in out)
      BY <1>1, <1>7, <3>1, <3>2 DEF Store, Outside, ClockRises
    <3>4. ClockPin \in out' /\ (DataPin \in out') = (DataPin \in out)
      BY <1>1, <1>6, <3>1 DEF With
    <3>5. /\ far' \in Seq(BOOLEAN) /\ Len(far') = shift.i + 1
          /\ \A j \in 0..(Len(far') - 1) : far'[j + 1] = Sent(j)
      <4>1. shift.i \in 0..BitCount /\ BitCount \in Nat
        BY PinsAssumption DEF ShiftInv
      <4>2. (DataPin \in out) \in BOOLEAN
        OBVIOUS
      <4>3. /\ Len(far') = shift.i + 1 /\ far' \in Seq(BOOLEAN)
            /\ far'[shift.i + 1] = (DataPin \in out)
            /\ \A j \in 1..Len(far) : far'[j] = far[j]
        BY <2>1, <3>2, <3>3, <4>1, <4>2
      <4>4. \A j \in 0..(Len(far) - 1) : far[j + 1] = Sent(j)
        BY <2>1 DEF OutInv
      <4>5. ASSUME NEW j \in 0..(Len(far') - 1) PROVE far'[j + 1] = Sent(j)
        <5>1. CASE j = shift.i
          BY <3>2, <4>3, <5>1
        <5>2. CASE j # shift.i
          <6>1. j \in 0..(Len(far) - 1) /\ j + 1 \in 1..Len(far)
            BY <3>2, <4>1, <4>3, <5>2
          <6> QED
            BY <4>3, <4>4, <6>1
        <5> QED
          BY <5>1, <5>2
      <4> QED
        BY <4>3, <4>5
    <3>6. OutHigh'
      BY <1>1, <1>2, <1>3, <1>5, <3>1, <3>2, <3>4, <3>5 DEF OutHigh
    <3>7. OutInv'
      BY <1>1, <1>3, <2>1, <2>4, <3>5, <3>6 DEF OutInv
    <3> QED
      BY <1>1, <1>2, <1>7, <3>5, <3>7 DEF ShiftInv
  <2> QED
    BY <2>1, <2>2, <2>3, <2>4
<1>8. CASE shift.kind = "in"
  <2>1. InInv /\ shift.phase \in 0..2 /\ far \in Seq(BOOLEAN)
    BY <1>8 DEF ShiftInv
  <2>2. CASE shift.phase = 0
    <3>1. InLow /\ pin = ClockPin /\ val = FALSE
      BY <1>5, <1>1, <2>1, <2>2 DEF InInv, InLow
    <3>2. far' = far /\ level' = level /\ ClockPin \notin out'
      BY <1>1, <3>1 DEF Store, Outside, ClockRises, With
    <3>3. InLow'
      BY <1>1, <1>2, <1>4, <1>5, <3>1, <3>2 DEF InLow
    <3> QED
      BY <1>1, <1>2, <1>3, <1>8, <2>1, <2>2, <3>2, <3>3 DEF ShiftInv, InInv
  <2>3. CASE shift.phase = 1
    <3>1. InHigh /\ pin = ClockPin /\ val = TRUE
      BY <1>5, <1>1, <2>1, <2>3 DEF InInv, InHigh
    <3>2. Len(far) = BitCount - shift.i /\ ClockPin \notin out
      BY <1>2, <3>1 DEF InHigh
    <3>3. shift.i < BitCount /\ shift.i \in 0..BitCount /\ BitCount \in Nat
      BY <2>1, <2>3, PinsAssumption DEF InInv, ShiftInv
    <3>4. far # <<>>
      BY <2>1, <3>2, <3>3
    <3>5. level' = Head(far) /\ far' = Tail(far)
      BY <1>1, <1>8, <3>1, <3>2, <3>4 DEF Store, Outside, ClockRises
    <3>6. ClockPin \in out'
      BY <1>1, <3>1 DEF With
    <3>7. \A k \in 0..(Len(far) - 1) : far[k + 1] = Sent(BitCount - Len(far) + k)
      BY <2>1 DEF InInv
    <3>8. level' = Sent(shift.i)
      <4>1. Head(far) = far[0 + 1]
        BY <2>1, <3>4
      <4>2. 0 \in 0..(Len(far) - 1) /\ BitCount - Len(far) + 0 = shift.i
        BY <3>2, <3>3
      <4> QED
        BY <3>5, <3>7, <4>1, <4>2
    <3>9. far' \in Seq(BOOLEAN) /\ Len(far') = BitCount - shift.i - 1
      BY <2>1, <3>2, <3>3, <3>4, <3>5
    <3>10. ASSUME NEW k \in 0..(Len(far') - 1)
           PROVE  far'[k + 1] = Sent(BitCount - Len(far') + k)
      <4>1. far'[k + 1] = far[(k + 1) + 1]
        BY <2>1, <3>2, <3>3, <3>4, <3>5, <3>9
      <4>2. k + 1 \in 0..(Len(far) - 1) /\ BitCount - Len(far') + k = BitCount - Len(far) + (k + 1)
        <5>1. Len(far) \in Nat /\ Len(far') = Len(far) - 1 /\ BitCount \in Nat
          BY <3>2, <3>3, <3>9
        <5> QED
          BY <5>1
      <4> QED
        BY <3>7, <4>1, <4>2
    <3>11. InHigh'
      BY <1>1, <1>2, <1>3, <1>4, <1>5, <3>1, <3>6, <3>8, <3>9 DEF InHigh
    <3>12. InInv'
      BY <1>1, <1>3, <2>1, <2>3, <3>10, <3>11 DEF InInv
    <3> QED
      BY <1>1, <1>2, <1>8, <3>9, <3>12 DEF ShiftInv
  <2>4. CASE shift.phase = 2
    BY <1>1, <1>2, <1>8, <2>1, <2>4 DEF InInv, InRead
  <2> QED
    BY <2>1, <2>2, <2>3, <2>4
<1> QED
  BY <1>7, <1>8 DEF ShiftInv

(* The loops of shiftOut and shiftIn: the next call. *)
LEMMA StepShifts ==
  ASSUME ShiftInv, ShiftStep
  PROVE  ShiftInv'
<1>1. /\ pc = "idle" /\ ~Pending /\ shift.kind # "none" /\ shift.i < BitCount
      /\ UNCHANGED <<out, level, far, given>>
  BY DEF ShiftStep, lines, Pending
<1>2. /\ far \in Seq(BOOLEAN) /\ shift.kind \in {"none", "out", "in"} /\ shift.phase \in 0..2
      /\ shift.i \in 0..BitCount /\ BitCount \in Nat /\ call # "read"
  BY <1>1, PinsAssumption DEF ShiftInv
<1>3. \A j : Sent(j)' = Sent(j)
  BY <1>1 DEF Sent
<1>4. /\ shift'.kind = shift.kind /\ shift'.value = shift.value /\ shift'.order = shift.order
      /\ shift.phase # 2 => shift'.phase = shift.phase + 1 /\ shift'.i = shift.i
      /\ shift.phase = 2 => shift'.phase = 0 /\ shift'.i = shift.i + 1
      /\ shift' \in [kind : {"none", "out", "in"}, phase : 0..2, i : 0..BitCount,
                     value : SUBSET (0..(BitCount - 1)), order : {LSBFIRST, 1}]
  <2>1. shift \in [kind : {"none", "out", "in"}, phase : 0..2, i : 0..BitCount,
                   value : SUBSET (0..(BitCount - 1)), order : {LSBFIRST, 1}]
    BY DEF ShiftInv
  <2>2. shift' = IF shift.phase = 2 THEN [shift EXCEPT !.phase = 0, !.i = @ + 1]
                 ELSE [shift EXCEPT !.phase = @ + 1]
    BY DEF ShiftStep
  <2>3. CASE shift.phase = 2
    <3>1. /\ shift' = [shift EXCEPT !.phase = 0, !.i = shift.i + 1]
          /\ 0 \in 0..2 /\ shift.i + 1 \in 0..BitCount
      BY <1>1, <1>2, <2>2, <2>3
    <3> QED
      BY <2>1, <2>3, <3>1
  <2>4. CASE shift.phase # 2
    <3>1. shift' = [shift EXCEPT !.phase = @ + 1] /\ shift.phase + 1 \in 0..2
      BY <1>2, <2>2, <2>4
    <3> QED
      BY <2>1, <2>4, <3>1
  <2> QED
    BY <2>3, <2>4
<1>5. \A k : Received(k)' = Received(k)
  BY <1>1, <1>4 DEF Received
<1>6. ASSUME NEW c, NEW p, NEW v, Begin(c, p, v)
      PROVE  /\ call' = c /\ pin' = p /\ val' = v /\ pc' \in {"loadTimer", "read", "lock"} /\ Pending'
             /\ c = "write" => Writing(p, v)' /\ pc' # "read" /\ pc' # "idle" /\ call' # "read"
  BY <1>6 DEF Begin, Pending, Writing
<1>7. CASE shift.kind = "out"
  <2>1. OutInv
    BY <1>7 DEF ShiftInv
  <2>2. CASE shift.phase = 0
    <3>1. Begin("write", DataPin, Sent(shift.i))
      <4>1. Sent(shift.i) = (BitAt(shift.i, shift.order) \in shift.value)
        BY <2>1 DEF OutInv, Sent
      <4> QED
        BY <1>7, <2>2, <4>1 DEF ShiftStep
    <3>2. Writing(DataPin, Sent(shift.i))' /\ Pending' /\ pc' # "read" /\ pc' # "idle" /\ call' # "read"
      BY <1>3, <1>4, <1>6, <2>2, <3>1 DEF Writing
    <3>3. OutData'
      BY <1>1, <1>2, <1>4, <2>1, <2>2, <3>2 DEF OutInv, OutLow, OutData
    <3> QED
      BY <1>1, <1>2, <1>3, <1>4, <1>7, <2>1, <2>2, <3>2, <3>3 DEF ShiftInv, OutInv
  <2>3. CASE shift.phase = 1
    <3>1. Begin("write", ClockPin, TRUE)
      <4>1. shift.phase # 0 /\ shift.phase # 2 /\ shift.kind # "in"
        BY <1>7, <2>3
      <4> QED
        BY <4>1, Zenon DEF ShiftStep
    <3>2. Writing(ClockPin, TRUE)' /\ Pending' /\ pc' # "read" /\ pc' # "idle" /\ call' # "read"
      BY <1>6, <3>1, Zenon
    <3>3. OutHigh'
      BY <1>1, <1>2, <1>3, <1>4, <2>1, <2>3, <3>2 DEF OutInv, OutData, OutHigh
    <3> QED
      BY <1>1, <1>2, <1>3, <1>4, <1>7, <2>1, <2>3, <3>2, <3>3 DEF ShiftInv, OutInv
  <2>4. CASE shift.phase = 2
    <3>1. Begin("write", ClockPin, FALSE)
      <4>1. shift.phase # 0 /\ shift.phase # 1 /\ shift.phase # (IF shift.kind = "out" THEN 1 ELSE 0)
        BY <1>7, <2>4
      <4> QED
        BY <4>1, Zenon DEF ShiftStep
    <3>2. Writing(ClockPin, FALSE)' /\ Pending' /\ pc' # "read" /\ pc' # "idle" /\ call' # "read"
      BY <1>6, <3>1, Zenon
    <3>3. OutLow'
      BY <1>1, <1>2, <1>3, <1>4, <2>1, <2>4, <3>2 DEF OutInv, OutHigh, OutLow
    <3> QED
      BY <1>1, <1>2, <1>3, <1>4, <1>7, <2>1, <2>4, <3>2, <3>3 DEF ShiftInv, OutInv
  <2> QED
    BY <1>2, <2>2, <2>3, <2>4
<1>8. CASE shift.kind = "in"
  <2>1. InInv
    BY <1>8 DEF ShiftInv
  <2>2. CASE shift.phase = 0
    <3>1. Begin("write", ClockPin, TRUE)
      <4>1. shift.phase # 1 /\ shift.phase # 2 /\ shift.kind # "out"
        BY <1>8, <2>2
      <4> QED
        BY <4>1, Zenon DEF ShiftStep
    <3>2. Writing(ClockPin, TRUE)' /\ Pending' /\ pc' # "read" /\ pc' # "idle" /\ call' # "read"
      BY <1>6, <3>1, Zenon
    <3>3. InHigh'
      <4>1. InLow /\ ClockPin \notin out /\ shift'.i = shift.i
        <5>1. InLow
          BY <2>1, <2>2 DEF InInv
        <5>2. ClockPin \notin out
          BY <1>1, <5>1 DEF InLow
        <5>3. shift'.i = shift.i
          BY <1>4, <2>2
        <5> QED
          BY <5>1, <5>2, <5>3
      <4>2. Received(shift.i)'
        <5>1. Received(shift.i)
          BY <4>1 DEF InLow
        <5> QED
          BY <1>1, <1>4, <4>1, <5>1 DEF Received
      <4> QED
        BY <1>1, <3>2, <4>1, <4>2 DEF InLow, InHigh
    <3> QED
      BY <1>1, <1>2, <1>3, <1>4, <1>8, <2>1, <2>2, <3>2, <3>3 DEF ShiftInv, InInv
  <2>3. CASE shift.phase = 1
    <3>1. call' = "read" /\ pc' \in {"loadTimer", "read"} /\ pc' # "idle"
      BY <1>8, <2>3 DEF ShiftStep, Begin
    <3>2. InRead'
      BY <1>1, <1>2, <1>3, <1>4, <1>5, <2>1, <2>3, <3>1 DEF InInv, InHigh, InRead
    <3> QED
      BY <1>1, <1>2, <1>3, <1>4, <1>8, <2>1, <2>3, <3>1, <3>2 DEF ShiftInv, InInv
  <2>4. CASE shift.phase = 2
    <3>1. Begin("write", ClockPin, FALSE)
      <4>1. shift.phase # 0 /\ shift.phase # 1 /\ shift.phase # (IF shift.kind = "out" THEN 1 ELSE 0)
        BY <1>8, <2>4
      <4> QED
        BY <4>1, Zenon DEF ShiftStep
    <3>2. Writing(ClockPin, FALSE)' /\ Pending' /\ pc' # "read" /\ pc' # "idle" /\ call' # "read"
      BY <1>6, <3>1, Zenon
    <3>3. InLow'
      <4>1. InRead /\ shift'.i = shift.i + 1
        BY <1>4, <2>1, <2>4 DEF InInv
      <4>2. Received(shift.i)'
        <5>1. Received(shift.i + 1)
          BY <1>1, <4>1 DEF InRead
        <5> QED
          BY <1>1, <1>4, <4>1, <5>1 DEF Received
      <4>3. Len(far') = BitCount - shift'.i
        BY <1>1, <1>2, <4>1 DEF InRead
      <4> QED
        BY <3>2, <4>2, <4>3 DEF InLow
    <3> QED
      BY <1>1, <1>2, <1>3, <1>4, <1>8, <2>1, <2>4, <3>2, <3>3 DEF ShiftInv, InInv
  <2> QED
    BY <1>2, <2>2, <2>3, <2>4
<1> QED
  BY <1>1, <1>2, <1>7, <1>8

(* The bit that digitalRead returns goes to the place it came from. *)
LEMMA ReadShifts ==
  ASSUME ShiftInv, shift.kind # "none", Read
  PROVE  ShiftInv'
<1>1. /\ pc = "read" /\ pc' = "idle" /\ call' = "none"
      /\ UNCHANGED <<level, far, given>>
  BY DEF Read, Return, lines
<1>2. shift.kind = "in" /\ shift.phase = 2 /\ call = "read"
  BY <1>1, Calling
<1>3. InInv /\ InRead
  BY <1>2 DEF ShiftInv, InInv
<1>4. /\ far \in Seq(BOOLEAN) /\ shift.i \in 0..BitCount /\ BitCount \in Nat /\ shift.i < BitCount
      /\ shift.order \in {LSBFIRST, 1}
  BY <1>2, <1>3, PinsAssumption DEF ShiftInv, InInv
<1>5. DEFINE place == BitAt(shift.i, shift.order)
<1>6. place \in 0..(BitCount - 1) /\ BitAt(place, shift.order) = shift.i
  <2>1. shift.i \in 0..(BitCount - 1)
    BY <1>4
  <2> QED
    BY <1>4, <2>1, Bits
<1>7. /\ shift'.kind = "in" /\ shift'.phase = 2 /\ shift'.i = shift.i /\ shift'.order = shift.order
      /\ level => shift'.value = shift.value \cup {place}
      /\ ~level => shift'.value = shift.value
      /\ shift' \in [kind : {"none", "out", "in"}, phase : 0..2, i : 0..BitCount,
                     value : SUBSET (0..(BitCount - 1)), order : {LSBFIRST, 1}]
  <2>1. shift \in [kind : {"none", "out", "in"}, phase : 0..2, i : 0..BitCount,
                   value : SUBSET (0..(BitCount - 1)), order : {LSBFIRST, 1}]
    BY DEF ShiftInv
  <2>2. shift' = IF level THEN [shift EXCEPT !.value = @ \cup {place}] ELSE shift
    BY DEF Read, Place
  <2> HIDE DEF place
  <2> QED
    BY <1>2, <1>6, <2>1, <2>2
<1>8. \A j : Sent(j)' = Sent(j)
  BY <1>1 DEF Sent
<1>9. Received(shift.i + 1)'
  <2> SUFFICES ASSUME shift.order = given[2], NEW b \in 0..(BitCount - 1)
               PROVE  b \in shift'.value <=> b \in given[1] /\ BitAt(b, given[2]) \in 0..shift.i
    BY <1>1, <1>4, <1>7 DEF Received, BitAt
  <2>1. b \in shift.value <=> b \in given[1] /\ BitAt(b, given[2]) \in 0..(shift.i - 1)
    BY <1>1, <1>3 DEF InRead, Received
  <2>2. level <=> place \in given[1]
    <3>1. level = (place \in given[1])
      BY <1>1, <1>3 DEF InRead, Sent
    <3> QED
      BY <3>1
  <2>3. BitAt(b, given[2]) \in 0..(BitCount - 1) /\ (BitAt(b, given[2]) = shift.i <=> b = place)
    <3>1. BitAt(b, given[2]) \in 0..(BitCount - 1) /\ BitAt(BitAt(b, given[2]), given[2]) = b
      BY <1>4, Bits
    <3>2. b = place => BitAt(b, given[2]) = shift.i
      BY <1>6
    <3>3. BitAt(b, given[2]) = shift.i => b = place
      BY <3>1
    <3> QED
      BY <3>1, <3>2, <3>3
  <2>4. BitAt(b, given[2]) \in 0..shift.i <=> BitAt(b, given[2]) \in 0..(shift.i - 1) \/ b = place
    BY <1>4, <2>3
  <2>5. place = b => ~(BitAt(b, given[2]) \in 0..(shift.i - 1))
    BY <1>4, <2>3
  <2>6. b \in shift'.value <=> b \in shift.value \/ (level /\ b = place)
    BY <1>7
  <2> QED
    BY <2>1, <2>2, <2>4, <2>5, <2>6
<1>10. InRead'
  BY <1>1, <1>3, <1>7, <1>9 DEF InRead
<1>11. InInv'
  BY <1>1, <1>3, <1>4, <1>7, <1>8, <1>10 DEF InInv
<1> QED
  BY <1>1, <1>2, <1>7, <1>11 DEF ShiftInv

LEMMA StartsAndEnds ==
  ASSUME ShiftInv, ShiftOut \/ ShiftIn \/ ShiftDone
  PROVE  ShiftInv'
<1>1. /\ pc = "idle" /\ pc' = "idle" /\ call' = call /\ call # "read"
      /\ UNCHANGED <<far, out>> /\ ~Pending'
  BY DEF ShiftOut, ShiftIn, ShiftDone, lines, Pending, ShiftInv
<1>2. far \in Seq(BOOLEAN) /\ BitCount \in Nat /\ LSBFIRST \in {LSBFIRST, 1}
  BY PinsAssumption DEF ShiftInv
<1>3. CASE ShiftOut
  <2>1. PICK value \in SUBSET (0..(BitCount - 1)), order \in {LSBFIRST, 1} :
          /\ shift' = [kind |-> "out", phase |-> 0, i |-> 0, value |-> value, order |-> order]
          /\ given' = <<value, order>>
    BY <1>3 DEF ShiftOut
  <2>2. far = <<>> /\ ClockPin \notin out
    BY <1>3 DEF ShiftOut
  <2>3. OutInv'
    BY <1>1, <1>2, <2>1, <2>2 DEF OutInv, OutLow, Writing
  <2>4. shift' \in [kind : {"none", "out", "in"}, phase : 0..2, i : 0..BitCount,
                    value : SUBSET (0..(BitCount - 1)), order : {LSBFIRST, 1}]
    BY <1>2, <2>1
  <2> QED
    BY <1>1, <1>2, <2>1, <2>3, <2>4 DEF ShiftInv
<1>4. CASE ShiftIn
  <2>1. PICK order \in {LSBFIRST, 1} :
          shift' = [kind |-> "in", phase |-> 0, i |-> 0, value |-> {}, order |-> order]
    BY <1>4 DEF ShiftIn
  <2>2. /\ shift.kind = "none" /\ Len(far) = BitCount /\ ClockPin \notin out /\ given' = given
    BY <1>4 DEF ShiftIn, lines
  <2>3. \A j \in 0..(BitCount - 1) : far[j + 1] = Sent(j)
    BY <1>2, <2>2 DEF ShiftInv
  <2>4. \A j : Sent(j)' = Sent(j)
    BY <2>2 DEF Sent
  <2>5. \A k \in 0..(Len(far') - 1) : far'[k + 1] = Sent(BitCount - Len(far) + k)'
    <3> SUFFICES ASSUME NEW k \in 0..(BitCount - 1)
                 PROVE  far'[k + 1] = Sent(BitCount - Len(far) + k)'
      BY <1>1, <2>2
    <3>1. BitCount - Len(far') + k = k
      BY <1>1, <1>2, <2>2
    <3> QED
      BY <1>1, <2>2, <2>3, <3>1 DEF Sent
  <2>6. Received(0)'
    <3>1. shift'.value = {}
      BY <2>1
    <3>2. \A x : ~(x \in 0..(0 - 1))
      OBVIOUS
    <3> QED
      BY <3>1, <3>2 DEF Received
  <2>7. InLow'
    BY <1>1, <1>2, <2>1, <2>2, <2>6 DEF InLow, Writing
  <2>8. InInv'
    BY <1>1, <2>1, <2>5, <2>7 DEF InInv
  <2>9. shift' \in [kind : {"none", "out", "in"}, phase : 0..2, i : 0..BitCount,
                    value : SUBSET (0..(BitCount - 1)), order : {LSBFIRST, 1}]
    BY <1>2, <2>1
  <2> QED
    BY <1>1, <1>2, <2>1, <2>2, <2>8, <2>9 DEF ShiftInv
<1>5. CASE ShiftDone
  <2>1. shift.kind \in {"out", "in"} /\ shift.i = BitCount /\ shift' = Idle
    BY <1>5 DEF ShiftDone, ShiftInv
  <2>2. shift'.kind = "none"
    BY <2>1 DEF Idle
  <2>3. shift' \in [kind : {"none", "out", "in"}, phase : 0..2, i : 0..BitCount,
                    value : SUBSET (0..(BitCount - 1)), order : {LSBFIRST, 1}]
    BY <1>2, <2>1 DEF Idle
  <2>4. CASE shift.kind = "out"
    <3>1. given' = given
      BY <1>5, <2>4 DEF ShiftDone
    <3>2. OutInv /\ shift.phase = 0 /\ Len(far) = BitCount
      <4>1. OutInv
        BY <2>4 DEF ShiftInv
      <4>2. shift.phase = 0
        BY <1>2, <2>1, <4>1 DEF OutInv
      <4> QED
        BY <2>1, <4>1, <4>2 DEF OutInv, OutLow
    <3>3. \A j \in 0..(BitCount - 1) : far'[j + 1] = Sent(j)'
      BY <1>1, <3>1, <3>2 DEF OutInv, Sent
    <3> QED
      BY <1>1, <1>2, <2>2, <2>3, <3>1, <3>2, <3>3 DEF ShiftInv
  <2>5. CASE shift.kind = "in"
    <3>1. given' = <<{}, LSBFIRST>>
      BY <1>5, <2>5 DEF ShiftDone
    <3>2. Len(far) = BitCount - BitCount
      <4>1. InInv
        BY <2>5 DEF ShiftInv
      <4>2. shift.phase = 0
        BY <1>2, <2>1, <4>1 DEF InInv
      <4> QED
        BY <2>1, <4>1, <4>2 DEF InInv, InLow
    <3>3. far = <<>>
      BY <1>2, <3>2
    <3> QED
      BY <1>1, <1>2, <2>2, <2>3, <3>1, <3>3 DEF ShiftInv
  <2> QED
    BY <2>1, <2>4, <2>5
<1> QED
  BY <1>3, <1>4, <1>5

LEMMA ShiftsStep ==
  ASSUME PortInv, ShiftInv, [Next]_vars
  PROVE  ShiftInv'
<1>1. CASE UNCHANGED pinvars
  <2>1. UNCHANGED <<out, pc, call, pin, val, shift, level, far, given>>
    BY <1>1 DEF pinvars, lines
  <2>2. shift.kind = "none" => ShiftInv'
    BY <2>1, NoneKeeps DEF ShiftInv
  <2>3. shift.kind # "none" => Passing
    BY <2>1, Calling DEF Passing, Pending, lines
  <2> QED
    BY <2>2, <2>3, PassingKeeps
<1>2. CASE SketchCalls
  <2>1. CASE PinMode \/ DigitalWrite
    <3>1. shift.kind = "none" /\ UNCHANGED <<shift, far, given>> /\ pc' # "read" /\ call' # "read"
      BY <2>1 DEF PinMode, DigitalWrite, Begin, lines
    <3> QED
      BY <3>1, NoneKeeps
  <2>2. CASE Interrupts
    <3>1. shift.kind = "none" /\ UNCHANGED <<shift, far, given>> /\ pc' # "read" /\ call' # "read"
      BY <2>2 DEF Interrupts, lines, ShiftInv
    <3> QED
      BY <3>1, NoneKeeps
  <2> QED
    BY <1>2, <2>1, <2>2, StartsAndEnds DEF SketchCalls
<1>3. CASE SketchRuns /\ shift.kind = "none"
  <2>1. UNCHANGED <<shift, far, given>> /\ pc' # "read" /\ call' # "read"
    <3>1. pc # "read" /\ call # "read"
      BY <1>3 DEF ShiftInv
    <3>2. CASE LoadTimer \/ StoreTimer \/ Lock \/ Load \/ Unlock
      BY <3>1, <3>2 DEF LoadTimer, StoreTimer, Lock, Load, Unlock, Return, lines
    <3>3. CASE Store
      BY <1>3, <3>1, <3>3 DEF Store, Outside
    <3> QED
      BY <1>3, <3>1, <3>2, <3>3 DEF SketchRuns, ShiftStep, ShiftDone, Read
  <2> QED
    BY <1>3, <2>1, NoneKeeps
<1>4. CASE SketchRuns /\ shift.kind # "none"
  BY <1>4, AccessPasses, StoreShifts, StepShifts, ReadShifts, StartsAndEnds DEF SketchRuns
<1> QED
  BY <1>1, <1>2, <1>3, <1>4, StepKinds, HandlingPasses

(* What shiftOut sends arrives bit by bit in the order asked for, and      *)
(* shiftIn in the same order gives the value back, for any number of bits  *)
(* and with a handler on the same port (wiring_shift.c:25-55).             *)
THEOREM ShiftsGoRoundTrip == Spec => []ShiftsRoundTrip
<1> DEFINE SInv == PortInv /\ ShiftInv
<1>1. Init => SInv
  <2> SUFFICES ASSUME Init
               PROVE  SInv
    OBVIOUS
  <2>1. /\ pc = "idle" /\ call = "none" /\ out = want /\ inten = TRUE /\ oldSREG = TRUE /\ off = FALSE
        /\ far = <<>> /\ shift = Idle /\ given = <<{}, LSBFIRST>>
    BY DEF Init, PinsInit
  <2>2. PortInv
    BY <2>1 DEF PortInv, Locked
  <2>3. ShiftInv
    BY <2>1, PinsAssumption DEF ShiftInv, Idle
  <2> QED
    BY <2>2, <2>3
<1>2. SInv /\ [Next]_vars => SInv'
  BY PortStep, ShiftsStep
<1>3. SInv => ShiftsRoundTrip
  <2> SUFFICES ASSUME ShiftInv
               PROVE  ShiftsRoundTrip
    OBVIOUS
  <2>1. BitCount \in Nat
    BY PinsAssumption
  <2>2. ASSUME shift.kind = "none", Len(far) = BitCount, NEW i \in 0..(BitCount - 1)
        PROVE  far[i + 1] = (BitAt(i, given[2]) \in given[1])
    <3>1. far # <<>>
      BY <2>1, <2>2
    <3> QED
      BY <2>2, <3>1 DEF ShiftInv, Sent
  <2>3. ASSUME shift.kind = "in", shift.i = BitCount, pc = "idle", shift.order = given[2]
        PROVE  shift.value = given[1]
    <3>1. InInv /\ shift.value \subseteq 0..(BitCount - 1) /\ given[1] \subseteq 0..(BitCount - 1)
          /\ given[2] \in {LSBFIRST, 1} /\ shift.phase \in 0..2
      BY <2>3 DEF ShiftInv
    <3>2. shift.phase = 0
      BY <2>1, <2>3, <3>1 DEF InInv
    <3>3. Received(BitCount)
      BY <2>3, <3>1, <3>2 DEF InInv, InLow
    <3>4. \A b \in 0..(BitCount - 1) : b \in shift.value <=> b \in given[1]
      BY <2>3, <3>1, <3>3, Bits DEF Received
    <3> QED
      BY <3>1, <3>4
  <2> QED
    BY <2>2, <2>3 DEF ShiftsRoundTrip
<1> QED
  BY <1>1, <1>2, <1>3, PTL DEF Spec

=============================================================================
