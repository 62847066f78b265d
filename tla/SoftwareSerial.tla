--------------------------- MODULE SoftwareSerial ---------------------------
(***************************************************************************)
(* The bit-banged serial port of the sketch (lib/SoftwareSerial).  All     *)
(* objects share one receive ring and one active_object pointer; the pin   *)
(* change interrupt fills the ring, the sketch empties it.                 *)
(*                                                                         *)
(* The main thread moves by one memory access (or one group of accesses    *)
(* that nothing else can see) per step; pc names the next one.  The pin    *)
(* change interrupt is one step: it runs with interrupts disabled.  A      *)
(* pending, enabled interrupt runs before the next step of the main        *)
(* thread, as the processor does.                                          *)
(***************************************************************************)
EXTENDS Naturals, Sequences, FiniteSets

CONSTANTS Port,       \* the SoftwareSerial objects
          PcintPort,  \* those whose RX pin can raise a pin change interrupt
          Byte,       \* the bytes a frame can carry
          None,       \* the null pointer, "no byte", an idle line
          Late,       \* a line in the middle of a frame nobody started to sample
          MaxRxBuff   \* _SS_MAX_RX_BUFF

ASSUME SoftwareSerialAssumption ==
  /\ MaxRxBuff \in 2..256
  /\ PcintPort \subseteq Port
  /\ None \notin Port \cup Byte \cup {Late}
  /\ Late \notin Byte

VARIABLES
  active,    \* active_object
  rxBuf,     \* _receive_buffer
  tail,      \* _receive_buffer_tail, where the interrupt stores
  head,      \* _receive_buffer_head, where read() takes
  mask,      \* the ports whose bit is set in PCMSK
  rxDelay,   \* the ports whose _rx_delay_* are not zero
  txDelay,   \* the ports whose _tx_delay is not zero
  overflow,  \* the ports whose _buffer_overflow is set
  inten,     \* the I bit of SREG
  pcif,      \* a pin change interrupt is pending
  line,      \* what is on each RX line: None, a byte whose start bit has just
             \* begun, or Late
  pc, self, reg,    \* the main thread: next access, the object it is called
                    \* on, and the local variable of that call
  got,       \* ghost: the byte the last successful read() returned
  peeked,    \* ghost: the byte peek() returned that was not read since
  promised,  \* ghost: bytes available() reported that were not read since
  unreported \* ghost: ports that dropped a byte overflow() has not reported

ring == <<rxBuf, tail, head>>
setup == <<rxDelay, txDelay>>
thread == <<pc, self, reg>>
claims == <<got, peeked, promised>>
vars == <<active, ring, mask, setup, overflow, inten, pcif, line, thread,
          claims, unreported>>

Slot == 0..(MaxRxBuff - 1)

(* (x + 1) % _SS_MAX_RX_BUFF *)
SuccUnwrapped(x) == x + 1
Succ(x) == (x + 1) % MaxRxBuff

(* What available() computes from the two indices. *)
Count(t, h) == (t + MaxRxBuff - h) % MaxRxBuff

Init ==
  /\ active = None
  /\ rxBuf \in [Slot -> Byte]
  /\ tail = 0 /\ head = 0
  /\ mask = {} /\ rxDelay = {} /\ txDelay = {} /\ overflow = {}
  /\ inten = TRUE /\ pcif = FALSE
  /\ line = [p \in Port |-> None]
  /\ pc = "idle" /\ self = None /\ reg = None
  /\ got = None /\ peeked = None /\ promised = 0
  /\ unreported = {}

-----------------------------------------------------------------------------
(* The main thread.  A pending interrupt goes first.                       *)

Preempted == pcif /\ inten
At(label) == pc = label /\ ~Preempted
Goto(label) == pc' = label /\ UNCHANGED <<self, reg>>
Call(p, label) == pc' = label /\ self' = p /\ UNCHANGED reg
Forget == promised' = 0 /\ peeked' = None /\ UNCHANGED got

(* begin(): the delays are zeroed, then computed again, then listen().     *)
Begin(p) ==
  /\ At("idle")
  /\ rxDelay' = rxDelay \ {p} /\ txDelay' = txDelay \ {p}
  /\ Call(p, "begin_tx")
  /\ UNCHANGED <<active, ring, mask, overflow, inten, pcif, line, claims, unreported>>

BeginTx ==
  /\ At("begin_tx")
  /\ txDelay' = txDelay \cup {self}
  /\ Goto(IF self \in PcintPort THEN "begin_rx" ELSE "listen")
  /\ UNCHANGED <<active, ring, mask, rxDelay, overflow, inten, pcif, line, claims, unreported>>

BeginRx ==
  /\ At("begin_rx")
  /\ rxDelay' = rxDelay \cup {self}
  /\ Goto("listen")
  /\ UNCHANGED <<active, ring, mask, txDelay, overflow, inten, pcif, line, claims, unreported>>

(* listen() *)
Listen(p) ==
  /\ At("idle")
  /\ Call(p, "listen")
  /\ UNCHANGED <<active, ring, mask, setup, overflow, inten, pcif, line, claims, unreported>>

(* No delay computed, or already listening: return false. *)
ListenReturnsFalse ==
  /\ At("listen")
  /\ self \notin rxDelay \/ active = self
  /\ Goto("idle")
  /\ UNCHANGED <<active, ring, mask, setup, overflow, inten, pcif, line, claims, unreported>>

(* Otherwise the listening object, if any, stops: stopListening() masks its
   pin first and clears the pointer in the next step. *)
ListenStopOtherNoMask ==
  /\ At("listen")
  /\ self \in rxDelay /\ active # self
  /\ pc' = IF active = None THEN "listen_reset" ELSE "listen_null"
  /\ reg' = active
  /\ UNCHANGED <<self, mask, active, ring, setup, overflow, inten, pcif, line, claims, unreported>>
ListenStopOther ==
  /\ At("listen")
  /\ self \in rxDelay /\ active # self
  /\ pc' = IF active = None THEN "listen_reset" ELSE "listen_null"
  /\ reg' = active
  /\ mask' = mask \ {active}
  /\ UNCHANGED <<self, active, ring, setup, overflow, inten, pcif, line, claims, unreported>>

ListenNull ==
  /\ At("listen_null")
  /\ active' = None
  /\ Goto("listen_reset")
  /\ UNCHANGED <<ring, mask, setup, overflow, inten, pcif, line, claims, unreported>>

(* No object is active here, so the interrupt sees none of these stores. *)
ListenReset ==
  /\ At("listen_reset")
  /\ overflow' = overflow \ {self} /\ unreported' = unreported \ {self}
  /\ head' = 0 /\ tail' = 0
  /\ Forget
  /\ Goto("listen_activate")
  /\ UNCHANGED <<rxBuf, active, mask, setup, inten, pcif, line>>

ListenActivate ==
  /\ At("listen_activate")
  /\ active' = self
  /\ Goto("listen_on")
  /\ UNCHANGED <<mask, ring, setup, overflow, inten, pcif, line, claims, unreported>>

ListenOn ==
  /\ At("listen_on")
  /\ mask' = mask \cup {self}
  /\ Goto("idle")
  /\ UNCHANGED <<active, ring, setup, overflow, inten, pcif, line, claims, unreported>>

(* stopListening(), end() and the destructor on the active object; on another
   object they return at once. *)
StopListening(p) ==
  /\ At("idle")
  /\ active = p
  /\ mask' = mask \ {p}
  /\ Forget
  /\ Call(p, "stop_null")
  /\ UNCHANGED <<active, ring, setup, overflow, inten, pcif, line, unreported>>

StopNull ==
  /\ At("stop_null")
  /\ active' = None
  /\ Goto("idle")
  /\ UNCHANGED <<ring, mask, setup, overflow, inten, pcif, line, claims, unreported>>

(* read(): the tests, the load and the new head are separate accesses.  On
   an object that is not listening, or an empty ring, it returns -1. *)
Read(p) ==
  /\ At("idle")
  /\ active = p /\ head # tail
  /\ Call(p, "read_load")
  /\ UNCHANGED <<active, ring, mask, setup, overflow, inten, pcif, line, claims, unreported>>

ReadLoad ==
  /\ At("read_load")
  /\ reg' = rxBuf[head]
  /\ pc' = "read_advance"
  /\ UNCHANGED <<self, active, ring, mask, setup, overflow, inten, pcif, line, claims, unreported>>

ReadAdvance ==
  /\ At("read_advance")
  /\ head' = Succ(head)
  /\ got' = reg
  /\ peeked' = None
  /\ promised' = IF promised = 0 THEN 0 ELSE promised - 1
  /\ Goto("idle")
  /\ UNCHANGED <<active, rxBuf, tail, mask, setup, overflow, inten, pcif, line, unreported>>

(* available(): tail is read before head; 0 on an object not listening. *)
Available(p) ==
  /\ At("idle")
  /\ active = p
  /\ reg' = tail
  /\ pc' = "available" /\ self' = p
  /\ UNCHANGED <<active, ring, mask, setup, overflow, inten, pcif, line, claims, unreported>>

AvailableReturn ==
  /\ At("available")
  /\ promised' = Count(reg, head)
  /\ Goto("idle")
  /\ UNCHANGED <<active, ring, mask, setup, overflow, inten, pcif, line, got, peeked, unreported>>

(* peek() *)
Peek(p) ==
  /\ At("idle")
  /\ active = p /\ head # tail
  /\ Call(p, "peek_load")
  /\ UNCHANGED <<active, ring, mask, setup, overflow, inten, pcif, line, claims, unreported>>

PeekLoad ==
  /\ At("peek_load")
  /\ peeked' = rxBuf[head]
  /\ Goto("idle")
  /\ UNCHANGED <<active, ring, mask, setup, overflow, inten, pcif, line, got, promised, unreported>>

(* overflow(): the flag is cleared, in a step of its own, only when it was
   read set. *)
OverflowAlwaysClears(p) ==
  /\ At("idle")
  /\ reg' = (p \in overflow)
  /\ pc' = "overflow_clear" /\ self' = p
  /\ UNCHANGED <<active, ring, mask, setup, overflow, inten, pcif, line, claims, unreported>>
Overflow(p) ==
  /\ At("idle")
  /\ p \in overflow
  /\ reg' = TRUE
  /\ pc' = "overflow_clear" /\ self' = p
  /\ UNCHANGED <<active, ring, mask, setup, overflow, inten, pcif, line, claims, unreported>>

OverflowClear ==
  /\ At("overflow_clear")
  /\ overflow' = overflow \ {self}
  /\ unreported' = IF reg THEN unreported \ {self} ELSE unreported
  /\ Goto("idle")
  /\ UNCHANGED <<active, ring, mask, setup, inten, pcif, line, claims>>

(* write(): interrupts are off while the ten bits go out.  Without a delay
   it only sets the write error of Print, which nothing here reads. *)
Write(p) ==
  /\ At("idle")
  /\ p \in txDelay
  /\ inten' = FALSE
  /\ Call(p, "write_restore")
  /\ UNCHANGED <<active, ring, mask, setup, overflow, pcif, line, claims, unreported>>

WriteForgetsRestore ==
  /\ At("write_restore")
  /\ Goto("idle")
  /\ UNCHANGED <<inten, active, ring, mask, setup, overflow, pcif, line, claims, unreported>>
WriteRestore ==
  /\ At("write_restore")
  /\ inten' = TRUE
  /\ Goto("idle")
  /\ UNCHANGED <<active, ring, mask, setup, overflow, pcif, line, claims, unreported>>

-----------------------------------------------------------------------------
(* The pin change interrupt, handle_interrupt() and recv().                *)

HasRoomAlways(t, h) == TRUE
HasRoom(t, h) == Succ(t) # h

(* recv() got the byte d: store it, or drop it and set the overflow flag. *)
StoreDropsOldest(p, d) ==
  /\ rxBuf' = [rxBuf EXCEPT ![tail] = d]
  /\ tail' = Succ(tail)
  /\ head' = IF HasRoom(tail, head) THEN head ELSE Succ(head)
  /\ UNCHANGED <<overflow, unreported>>
StoreDropsSilently(p, d) ==
  IF HasRoom(tail, head)
  THEN /\ rxBuf' = [rxBuf EXCEPT ![tail] = d]
       /\ tail' = Succ(tail)
       /\ UNCHANGED <<head, overflow, unreported>>
  ELSE UNCHANGED <<ring, overflow, unreported>>
Store(p, d) ==
  IF HasRoom(tail, head)
  THEN /\ rxBuf' = [rxBuf EXCEPT ![tail] = d]
       /\ tail' = Succ(tail)
       /\ UNCHANGED <<head, overflow, unreported>>
  ELSE /\ overflow' = overflow \cup {p}
       /\ unreported' = unreported \cup {p}
       /\ UNCHANGED ring

(* recv() turns the pin's interrupt off while it samples, then on again. *)
MaskStaysOff(p) == mask' = mask \ {p}
MaskAfterRecv(p) == mask' = mask \cup {p}

Interrupt == Preempted /\ pcif' = FALSE
Untouched == UNCHANGED <<active, setup, inten, thread, claims>>

(* The start bit has just begun and the delays are set: all eight samples
   are of this frame. *)
RecvFrame(p) ==
  /\ Interrupt /\ active = p
  /\ line[p] \in Byte /\ p \in rxDelay
  /\ Store(p, line[p])
  /\ line' = [line EXCEPT ![p] = None]
  /\ MaskAfterRecv(p)
  /\ Untouched

(* A low bit in the middle of a frame is taken for a start bit, or the delay
   loops run with a zero count: the samples are arbitrary and may run into
   the next frame. *)
RecvGarbage(p, d, rest) ==
  /\ Interrupt /\ active = p
  /\ line[p] = Late \/ (line[p] \in Byte /\ p \notin rxDelay)
  /\ Store(p, d)
  /\ line' = [line EXCEPT ![p] = rest]
  /\ MaskAfterRecv(p)
  /\ Untouched

(* The pin is high: no start bit. *)
RecvNothing(p) ==
  /\ Interrupt /\ active = p
  /\ line[p] \in {None, Late}
  /\ UNCHANGED <<ring, mask, overflow, unreported, line>>
  /\ Untouched

(* handle_interrupt().  Its test for a null active_object never fails
   (InterruptOnlyForListener): the pin is masked while there is none. *)
Recv ==
  \E p \in Port : \/ RecvFrame(p)
                  \/ \E d \in Byte, rest \in {None, Late} : RecvGarbage(p, d, rest)
                  \/ RecvNothing(p)

-----------------------------------------------------------------------------
(* The RX lines.  A start bit on a pin whose interrupt is masked goes       *)
(* unnoticed; later edges of that frame are noticed once it is unmasked.   *)

Wire == UNCHANGED <<active, ring, mask, setup, overflow, inten, thread, claims, unreported>>

FrameStart(p, b) ==
  /\ line[p] = None /\ ~Preempted
  /\ IF p \in mask
     THEN line' = [line EXCEPT ![p] = b] /\ pcif' = TRUE
     ELSE line' = [line EXCEPT ![p] = Late] /\ UNCHANGED pcif
  /\ Wire

(* The interrupt stays disabled past the start bit. *)
StartMissed(p) ==
  /\ line[p] \in Byte /\ ~inten
  /\ line' = [line EXCEPT ![p] = Late]
  /\ UNCHANGED pcif /\ Wire

LateEdge(p) ==
  /\ line[p] = Late /\ p \in mask
  /\ pcif' = TRUE
  /\ UNCHANGED line /\ Wire

FrameEnd(p) ==
  /\ line[p] = Late
  /\ line' = [line EXCEPT ![p] = None]
  /\ UNCHANGED pcif /\ Wire

-----------------------------------------------------------------------------
(* A call of the sketch, and the rest of that call.                        *)
Calls == \E p \in Port : \/ Begin(p) \/ Listen(p) \/ StopListening(p)
                         \/ Read(p) \/ Available(p) \/ Peek(p)
                         \/ Overflow(p) \/ Write(p)
Continue ==
  \/ BeginTx \/ BeginRx
  \/ ListenReturnsFalse \/ ListenStopOther \/ ListenNull
  \/ ListenReset \/ ListenActivate \/ ListenOn
  \/ StopNull
  \/ ReadLoad \/ ReadAdvance \/ AvailableReturn \/ PeekLoad
  \/ OverflowClear \/ WriteRestore
Lines == \E p \in Port : \/ \E b \in Byte : FrameStart(p, b)
                         \/ StartMissed(p) \/ LateEdge(p) \/ FrameEnd(p)

Next == Calls \/ Continue \/ Recv \/ Lines

(* A call once begun runs on, and a pending enabled interrupt is taken. *)
Fairness == WF_vars(Continue) /\ WF_vars(Recv)

Spec == Init /\ [][Next]_vars
FairSpec == Spec /\ Fairness

-----------------------------------------------------------------------------
(* Properties                                                              *)

Labels == {"idle", "begin_tx", "begin_rx", "listen", "listen_null",
           "listen_reset", "listen_activate", "listen_on", "stop_null",
           "read_load", "read_advance", "available", "peek_load",
           "overflow_clear", "write_restore"}

(* Every variable keeps its type; in particular both indices stay inside the
   ring (recv 171 and read 403 wrap them). *)
TypeOK ==
  /\ active \in Port \cup {None}
  /\ rxBuf \in [Slot -> Byte] /\ tail \in Slot /\ head \in Slot
  /\ mask \subseteq Port /\ rxDelay \subseteq Port /\ txDelay \subseteq Port
  /\ overflow \subseteq Port /\ unreported \subseteq Port
  /\ inten \in BOOLEAN /\ pcif \in BOOLEAN
  /\ line \in [Port -> Byte \cup {None, Late}]
  /\ pc \in Labels
  /\ pc # "idle" => self \in Port
  /\ pc = "read_advance" => reg \in Byte
  /\ pc = "available" => reg \in Slot
  /\ pc = "overflow_clear" => reg \in BOOLEAN
  /\ got \in Byte \cup {None} /\ peeked \in Byte \cup {None}
  /\ promised \in 0..(MaxRxBuff - 1)

(* The interrupt handler only ever runs for an object whose pointer is stored
   whole and whose pin is unmasked: listen() and stopListening() mask the pin
   before they change the two-byte active_object (listen 94-101,
   stopListening 113-114). *)
InterruptOnlyForListener ==
  /\ \A p \in mask : p = active
  /\ pcif => active # None /\ active \in mask

(* No byte is dropped behind the sketch's back: until overflow() has returned
   true, or listen() has started afresh, a drop leaves the flag set, even when
   it falls between the test and the clear inside overflow() (SoftwareSerial.h
   99, recv 181). *)
NoSilentDrop == unreported \subseteq overflow

(* What available() reported stays true: the sketch may read that many bytes,
   whatever the interrupt did since (main 21-23 relies on it). *)
AvailableKept == promised <= Count(tail, head)

(* The byte peek() showed is the byte the next read() returns. *)
PeekKept == peeked # None => head # tail /\ rxBuf[head] = peeked

(* What a call told the sketch stays true, whatever the interrupt does before
   the next call: as many bytes as available() reported, and first among them
   the one peek() showed. *)
BytesTold == AvailableKept /\ PeekKept

(* Between calls the listening object can hear: nothing leaves the pin of the
   active object masked (recv 151 and 189, listen 101). *)
ListenerHears == pc = "idle" /\ active # None => active \in mask

(* The pin change interrupt is on when it must be and off when it must not:
   never under a half-written pointer, always for the listener between calls. *)
PinInterruptRight == InterruptOnlyForListener /\ ListenerHears

(* A frame whose start bit is seen in time, by an object whose delays are set,
   is stored whole or, only when the ring is full, flagged as overflow (recv
   171-182). *)
FrameKept ==
  [][\A p \in Port :
       line[p] \in Byte /\ line'[p] # line[p] /\ inten /\ p \in rxDelay =>
         \/ /\ Count(tail', head') = Count(tail, head) + 1
            /\ rxBuf'[tail] = line[p]
         \/ /\ Count(tail, head) = MaxRxBuff - 1
            /\ p \in overflow']_vars

(* write() never leaves a received edge unserved for good: the I bit it saved
   comes back (write 429-464). *)
InterruptServed == pcif ~> ~pcif

(* SoftwareSerial.h 62 says of the delays "must never be 0!": recv() is never
   about to run with one that is.  It fails after begin() on an object that
   is listening, so no run checks it (README, known disagreements). *)
DelaysSetWhenSampling == Preempted => active \in rxDelay

(* The ring is a queue of at most MaxRxBuff - 1 bytes: refinement of RxQueue. *)
StoredBytes ==
  [k \in 1..Count(tail, head) |-> rxBuf[(head + k - 1) % MaxRxBuff]]

Queue == INSTANCE RxQueue WITH
           queue <- StoredBytes, NoByte <- None, Cap <- MaxRxBuff - 1

(* read() hands out what recv() stored, oldest first, nothing twice, nothing
   overwritten before it is read, although the two share only the indices. *)
ImplementsQueue == Queue!QSpec

-----------------------------------------------------------------------------
(* Where each call stands: what the properties rest on, conjunct by conjunct. *)
Consistent ==
  \* Only write() disables interrupts.
  /\ inten = (pc # "write_restore")
  \* Listening changes hands with no pin unmasked and, in the middle, no
  \* active object.
  /\ pc \in {"listen_null", "listen_reset", "listen_activate", "listen_on",
              "stop_null"} => mask = {}
  /\ pc \in {"listen_reset", "listen_activate"} => active = None
  /\ pc = "listen_on" => active = self
  /\ pc \notin {"listen_null", "listen_on", "stop_null"} /\ active # None
       => active \in mask
  \* A byte that read() or peek() found stays where it is.
  /\ pc \in {"read_load", "read_advance", "peek_load"} => head # tail
  /\ pc = "read_advance" => reg = rxBuf[head]
  \* available() works with a tail the interrupt may have left behind.
  /\ pc = "available" => Count(reg, head) <= Count(tail, head)
  /\ pc = "overflow_clear" => reg = TRUE

IInv == /\ TypeOK /\ Consistent
        /\ InterruptOnlyForListener /\ NoSilentDrop
        /\ AvailableKept /\ PeekKept
=============================================================================
