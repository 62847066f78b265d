-------------------------- MODULE ExternalInterrupts --------------------------
(***************************************************************************)
(* WInterrupts.c: the table of handlers, attachInterrupt, detachInterrupt  *)
(* and the interrupt routines, with handlers that write a pin (Pins) or    *)
(* detach their own interrupt.  A pointer is two bytes, stored one by one; *)
(* attachInterrupt and detachInterrupt do not disable interrupts.  EICRA,  *)
(* which selects the edges, is left out: an event is any of them.          *)
(***************************************************************************)
EXTENDS Pins

CONSTANTS
  ExtInt,       \* the external interrupts
  MayReattach   \* TRUE: the sketch may attach to an interrupt that is enabled

ASSUME InterruptsAssumption == MayReattach \in BOOLEAN

VARIABLES
  intFunc,      \* two bytes per interrupt, named after the function they are of
  eimsk,        \* EIMSK
  eifr,         \* EIFR: events that wait
  todo,         \* attachInterrupt or detachInterrupt: the accesses left
  n, f,         \* its arguments
  handler,      \* ghost: the function the sketch wants called, per interrupt
  wild          \* ghost: a routine called something else

intvars == <<intFunc, eimsk, eifr, todo, n, f, handler, wild>>
vars == <<pinvars, intvars>>

(* "toggle" writes HandlerPin, "once" detaches its own interrupt as well. *)
Function == {"toggle", "once"}
Nothing == "nothing"
Both(g) == [low |-> g, high |-> g]

Init ==
  /\ PinsInit
  /\ intFunc = [m \in ExtInt |-> Both(Nothing)]
  /\ eimsk = {} /\ eifr = {}
  /\ todo = <<>> /\ n = (CHOOSE m \in ExtInt : TRUE) /\ f = Nothing
  /\ handler = [m \in ExtInt |-> Nothing] /\ wild = FALSE

-----------------------------------------------------------------------------
(* The pointer first, then the mask. *)
AttachMaskFirst == <<"enable", "low", "high">>
AttachOrder == <<"low", "high", "enable">>
Attach ==
  /\ pc = "idle" /\ shift.kind = "none" /\ todo = <<>>
  /\ \E m \in ExtInt, g \in Function :
       /\ m \notin eimsk \/ MayReattach
       /\ n' = m /\ f' = g
       /\ handler' = [handler EXCEPT ![m] = g]
  /\ todo' = AttachOrder
  /\ UNCHANGED <<pinvars, intFunc, eimsk, eifr, wild>>

(* The mask first, then the pointer. *)
Detach ==
  /\ pc = "idle" /\ shift.kind = "none" /\ todo = <<>>
  /\ n' \in ExtInt /\ f' = Nothing
  /\ todo' = <<"disable", "low", "high">>
  /\ UNCHANGED <<pinvars, intFunc, eimsk, eifr, handler, wild>>

Proceed ==
  /\ todo' = Tail(todo)
  /\ IF todo' = <<>> THEN n' = CHOOSE m \in ExtInt : TRUE ELSE UNCHANGED n
  /\ IF todo' = <<>> THEN f' = Nothing ELSE UNCHANGED f

StoreByte ==
  /\ todo # <<>> /\ Head(todo) \in {"low", "high"}
  /\ intFunc' = [intFunc EXCEPT ![n][Head(todo)] = f]
  /\ Proceed
  /\ handler' = IF f = Nothing /\ todo' = <<>> THEN [handler EXCEPT ![n] = Nothing] ELSE handler
  /\ UNCHANGED <<pinvars, eimsk, eifr, wild>>

(* EIMSK is within reach of sbi and cbi: one access. *)
SetMask ==
  /\ todo # <<>> /\ Head(todo) \in {"enable", "disable"}
  /\ eimsk' = With(eimsk, n, Head(todo) = "enable")
  /\ Proceed
  /\ UNCHANGED <<pinvars, intFunc, eifr, handler, wild>>

-----------------------------------------------------------------------------
(* An edge sets the flag of its interrupt, enabled or not. *)
Event(m) ==
  /\ eifr' = eifr \cup {m}
  /\ UNCHANGED <<pinvars, intFunc, eimsk, todo, n, f, handler, wild>>

(* Between two accesses of the sketch: intFunc[m]() is called and runs to  *)
(* its end.  What follows a wild jump is not modelled.                     *)
ISR(m) ==
  /\ inten /\ m \in eimsk \cap eifr /\ ~wild
  /\ eifr' = eifr \ {m}
  /\ wild' = (intFunc[m] # Both(handler[m]))
  /\ IF wild' THEN UNCHANGED <<com, out, want, eimsk, intFunc, handler>>
     ELSE /\ \E v \in BOOLEAN : HandlerWrites(v)
          /\ IF handler[m] = "once"
               THEN /\ eimsk' = eimsk \ {m}
                    /\ intFunc' = [intFunc EXCEPT ![m] = Both(Nothing)]
                    /\ handler' = [handler EXCEPT ![m] = Nothing]
               ELSE UNCHANGED <<eimsk, intFunc, handler>>
  /\ UNCHANGED <<ddr, inten, oldSREG, pc, call, pin, val, reg, shift, lines, off, todo, n, f>>

Next ==
  \/ /\ SketchRuns \/ (todo = <<>> /\ SketchCalls)
     /\ UNCHANGED intvars
  \/ Attach \/ Detach \/ StoreByte \/ SetMask
  \/ \E m \in ExtInt : Event(m) \/ ISR(m)

Spec == Init /\ [][Next]_vars

-----------------------------------------------------------------------------
(* An interrupt calls the function the sketch attached to it and nothing   *)
(* else: no half stored pointer, nothing detached (attachInterrupt stores  *)
(* the pointer before it enables, detachInterrupt disables first).         *)
RightHandler == ~wild
=============================================================================
