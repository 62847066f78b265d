--------------------------- MODULE HardwareSerial ---------------------------
(***************************************************************************)
(* The interrupt driven USART driver (core/HardwareSerial), Serial in the  *)
(* sketch, with the USART it drives.                                       *)
(*                                                                         *)
(* Three parties interleave: the main thread (pc), the data register empty *)
(* handler _tx_udr_empty_irq (irq), and the USART, which shifts out what   *)
(* it is given and receives at any time.  The main thread does not move    *)
(* while the handler runs, nor does any other handler.  The receive handler*)
(* is one step: only the main thread shares its data.                      *)
(***************************************************************************)
EXTENDS Naturals, Sequences, FiniteSets

CONSTANTS TxByte,      \* the bytes the sketch writes
          RxByte,      \* the bytes that arrive
          None,        \* an empty register
          BadParity,   \* a received frame with the UPE flag set
          TxBufSize,   \* SERIAL_TX_BUFFER_SIZE
          RxBufSize,   \* SERIAL_RX_BUFFER_SIZE
          MayDisable,  \* the sketch may call its API with interrupts disabled
          MayRebegin   \* the sketch may call begin() on an open port

ASSUME HardwareSerialAssumption ==
  /\ TxBufSize \in 2..256 /\ RxBufSize \in 2..256
  /\ None \notin TxByte \cup RxByte \cup {BadParity}
  /\ BadParity \notin RxByte
  /\ MayDisable \in BOOLEAN /\ MayRebegin \in BOOLEAN

VARIABLES
  txBuf, txHead, txTail,  \* _tx_buffer: the main thread moves head, the handler tail
  written,                \* _written
  rxBuf, rxHead, rxTail,  \* _rx_buffer: the handler moves head, the main thread tail
  ucsrb,                  \* the bits set in UCSRB
  udr, shift,             \* transmit data register and shift register; UDRE is udr = None
  txc,                    \* the TXC flag of UCSRA
  rxFifo,                 \* the USART's receive FIFO
  inten,                  \* the I bit of SREG
  irq, irqByte,           \* _tx_udr_empty_irq: next access ("off": not running), its c
  pc, call,               \* the main thread: next access, the API function it is in
  arg, idx, reg, sreg,    \* c and i of write(), a loaded UCSRB or byte, a saved I bit
  sent, got,              \* ghost: the byte sent last, the byte read last
  room, promised          \* ghost: what availableForWrite() and available() reported
                          \* and the sketch has not used since

tx == <<txBuf, txHead, txTail>>
rx == <<rxBuf, rxHead, rxTail>>
usart == <<udr, shift, txc, sent>>
handler == <<irq, irqByte>>
locals == <<arg, idx, reg, sreg>>
vars == <<tx, written, rx, ucsrb, usart, rxFifo, inten, handler, pc, call,
          locals, got, room, promised>>

TxSlot == 0..(TxBufSize - 1)
RxSlot == 0..(RxBufSize - 1)
Bits == {"RXEN", "TXEN", "RXCIE", "UDRIE"}
FifoSize == 2           \* of the USART

TxSuccUnwrapped(x) == x + 1
TxSucc(x) == (x + 1) % TxBufSize
RxSucc(x) == (x + 1) % RxBufSize
TxCount == (txHead + TxBufSize - txTail) % TxBufSize
(* available() *)
RxCount == (RxBufSize + rxHead - rxTail) % RxBufSize

Init ==
  /\ txBuf = [s \in TxSlot |-> None] /\ txHead = 0 /\ txTail = 0
  /\ written = FALSE
  /\ rxBuf = [s \in RxSlot |-> None] /\ rxHead = 0 /\ rxTail = 0
  /\ ucsrb = {} /\ udr = None /\ shift = None /\ txc = FALSE /\ rxFifo = <<>>
  /\ inten = TRUE
  /\ irq = "off" /\ irqByte = None
  /\ pc = "idle" /\ call = "none"
  /\ arg = None /\ idx = 0 /\ reg = None /\ sreg = TRUE
  /\ sent = None /\ got = None /\ room = 0 /\ promised = 0

-----------------------------------------------------------------------------
(* _tx_udr_empty_irq, entered by the interrupt or called by the main thread *)

(* Its first two lines: take the byte at tail. *)
IrqTake ==
  /\ irqByte' = txBuf[txTail]
  /\ txTail' = TxSucc(txTail)
  /\ irq' = "udr"
  /\ UNCHANGED <<txBuf, txHead>>

UdreInterrupt ==
  /\ irq = "off" /\ inten /\ "UDRIE" \in ucsrb /\ udr = None
  /\ IrqTake
  /\ UNCHANGED <<written, rx, ucsrb, usart, rxFifo, inten, pc, call, locals, got, room, promised>>

IrqWriteUdr ==
  /\ irq = "udr"
  /\ udr' = irqByte
  /\ irq' = "txc"
  /\ UNCHANGED <<tx, written, rx, ucsrb, shift, txc, sent, rxFifo, inten, irqByte, pc, call, locals, got, room, promised>>

IrqClearTxc ==
  /\ irq = "txc"
  /\ txc' = FALSE
  /\ irq' = "check"
  /\ UNCHANGED <<tx, written, rx, ucsrb, udr, shift, sent, rxFifo, inten, irqByte, pc, call, locals, got, room, promised>>

(* Buffer empty: disable the interrupt.  The byte taken is dead now. *)
IrqCheckAlways ==
  /\ irq = "check"
  /\ ucsrb' = ucsrb \ {"UDRIE"}
  /\ irq' = "off" /\ irqByte' = None
  /\ UNCHANGED <<tx, written, rx, usart, rxFifo, inten, pc, call, locals, got, room, promised>>
IrqCheck ==
  /\ irq = "check"
  /\ ucsrb' = IF txHead = txTail THEN ucsrb \ {"UDRIE"} ELSE ucsrb
  /\ irq' = "off" /\ irqByte' = None
  /\ UNCHANGED <<tx, written, rx, usart, rxFifo, inten, pc, call, locals, got, room, promised>>

Irq == IrqWriteUdr \/ IrqClearTxc \/ IrqCheck

-----------------------------------------------------------------------------
(* The USART (external).                                                   *)

(* A byte written to UDR leaves for the idle shift register. *)
LoadShift ==
  /\ udr # None /\ shift = None /\ "TXEN" \in ucsrb
  /\ shift' = udr /\ udr' = None
  /\ UNCHANGED <<tx, written, rx, ucsrb, txc, sent, rxFifo, inten, handler, pc, call, locals, got, room, promised>>

(* Uninterrupted code is between writing UDR and clearing TXC: a few cycles,
   in which a frame may end but the one just written cannot be sent whole. *)
TxcWindow == irq = "txc" \/ (pc = "write_txc" /\ ~inten)

(* A frame has been sent: the next byte follows, or TXC is set. *)
FinishShift ==
  /\ shift # None
  /\ TxcWindow => udr # None
  /\ sent' = shift
  /\ shift' = udr /\ udr' = None
  /\ txc' = (IF udr = None THEN TRUE ELSE txc)
  /\ UNCHANGED <<tx, written, rx, ucsrb, rxFifo, inten, handler, pc, call, locals, got, room, promised>>

(* A frame arrives; with the FIFO full it would be lost in the USART. *)
RxArrive(f) ==
  /\ "RXEN" \in ucsrb /\ Len(rxFifo) < FifoSize
  /\ rxFifo' = Append(rxFifo, f)
  /\ UNCHANGED <<tx, written, rx, ucsrb, usart, inten, handler, pc, call, locals, got, room, promised>>

(* _rx_complete_irq: a byte with good parity is stored if there is room. *)
RxHasRoomAlways == TRUE
RxHasRoom == RxSucc(rxHead) # rxTail

RxCompleteInterrupt ==
  /\ irq = "off" /\ inten /\ "RXCIE" \in ucsrb /\ rxFifo # <<>>
  /\ rxFifo' = Tail(rxFifo)
  /\ IF Head(rxFifo) # BadParity /\ RxHasRoom
     THEN /\ rxBuf' = [rxBuf EXCEPT ![rxHead] = Head(rxFifo)]
          /\ rxHead' = RxSucc(rxHead)
          /\ UNCHANGED rxTail
     ELSE UNCHANGED rx
  /\ UNCHANGED <<tx, written, ucsrb, usart, inten, handler, pc, call, locals, got, room, promised>>

-----------------------------------------------------------------------------
(* The main thread.                                                        *)

At(label) == pc = label /\ irq = "off"
Enter(fun, label) == At("idle") /\ call' = fun /\ pc' = label
Goto(label) == pc' = label /\ UNCHANGED call
Return == pc' = "idle" /\ call' = "none"

(* begin() and end() change UCSRB by sbi and cbi, which load it, change one
   bit and store it; idx counts these four changes. *)
BeginChange == << "RXEN", "TXEN", "RXCIE", "UDRIE" >>
Changed(fun, i, bits) ==
  IF fun = "begin" /\ i < 4 THEN bits \cup {BeginChange[i]}
                            ELSE bits \ {BeginChange[i]}

Begin ==
  /\ Enter("begin", "rmw_load")
  /\ MayRebegin \/ "TXEN" \notin ucsrb
  /\ written' = FALSE
  /\ idx' = 1
  /\ UNCHANGED <<tx, rx, ucsrb, usart, rxFifo, inten, handler, arg, reg, sreg, got, room, promised>>

RmwLoad ==
  /\ At("rmw_load")
  /\ reg' = ucsrb
  /\ Goto("rmw_store")
  /\ UNCHANGED <<tx, written, rx, ucsrb, usart, rxFifo, inten, handler, arg, idx, sreg, got, room, promised>>

(* Turning the receiver off flushes its FIFO.  end() then forgets what was
   received. *)
EndForgetsNothing == UNCHANGED rx
EndClearsReceived == rxHead' = rxTail /\ UNCHANGED <<rxBuf, rxTail>>

RmwStore ==
  /\ At("rmw_store")
  /\ ucsrb' = Changed(call, idx, reg)
  /\ rxFifo' = IF "RXEN" \in ucsrb' THEN rxFifo ELSE <<>>
  /\ reg' = None
  /\ IF idx < 4
     THEN Goto("rmw_load") /\ idx' = idx + 1
     ELSE idx' = 0 /\ IF call = "end" THEN Goto("end_clear") ELSE Return
  /\ UNCHANGED <<tx, written, rx, usart, inten, handler, arg, sreg, got, room, promised>>

EndClear ==
  /\ At("end_clear")
  /\ EndClearsReceived
  /\ promised' = 0
  /\ Return
  /\ UNCHANGED <<tx, written, ucsrb, usart, rxFifo, inten, handler, locals, got, room>>

(* flush(), which end() starts with.  Nothing was written: return at once. *)
Flush(fun) ==
  /\ fun \in {"flush", "end"}
  /\ Enter(fun, IF written THEN "flush_udrie" ELSE "flush_done")
  /\ UNCHANGED <<tx, written, rx, ucsrb, usart, rxFifo, inten, handler, locals, got, room, promised>>

FlushUdrieIgnored ==
  /\ At("flush_udrie")
  /\ Goto("flush_txc")
  /\ UNCHANGED <<tx, written, rx, ucsrb, usart, rxFifo, inten, handler, locals, got, room, promised>>
FlushUdrie ==
  /\ At("flush_udrie")
  /\ "UDRIE" \notin ucsrb
  /\ Goto("flush_txc")
  /\ UNCHANGED <<tx, written, rx, ucsrb, usart, rxFifo, inten, handler, locals, got, room, promised>>

FlushTxc ==
  /\ At("flush_txc")
  /\ Goto(IF txc THEN "flush_done" ELSE "flush_udrie")
  /\ UNCHANGED <<tx, written, rx, ucsrb, usart, rxFifo, inten, handler, locals, got, room, promised>>

(* Interrupts are disabled: flush() calls the handler itself. *)
FlushPoll ==
  /\ At("flush_udrie")
  /\ ~inten /\ "UDRIE" \in ucsrb /\ udr = None
  /\ IrqTake
  /\ UNCHANGED <<written, rx, ucsrb, usart, rxFifo, inten, pc, call, locals, got, room, promised>>

FlushDone ==
  /\ At("flush_done")
  /\ IF call = "end" THEN Goto("rmw_load") /\ idx' = 1
                     ELSE Return /\ UNCHANGED idx
  /\ UNCHANGED <<tx, written, rx, ucsrb, usart, rxFifo, inten, handler, arg, reg, sreg, got, room, promised>>

(* write(c): straight to UDR when nothing is queued and UDR is free.  The
   sketch writes to an open port only. *)
Write(c) ==
  /\ "TXEN" \in ucsrb
  /\ Enter("write", IF txHead = txTail /\ udr = None THEN "write_udr" ELSE "write_wait")
  /\ written' = TRUE
  /\ arg' = c
  /\ idx' = TxSucc(txHead)
  /\ room' = IF room = 0 THEN 0 ELSE room - 1
  /\ UNCHANGED <<tx, rx, ucsrb, usart, rxFifo, inten, handler, reg, sreg, got, promised>>

(* ATOMIC_BLOCK: write UDR, then clear TXC. *)
WriteUdr ==
  /\ At("write_udr")
  /\ sreg' = inten /\ inten' = FALSE
  /\ udr' = arg
  /\ Goto("write_txc")
  /\ UNCHANGED <<tx, written, rx, ucsrb, shift, txc, sent, rxFifo, handler, arg, idx, reg, got, room, promised>>

WriteTxc ==
  /\ At("write_txc")
  /\ txc' = FALSE
  /\ inten' = sreg
  /\ arg' = None /\ idx' = 0 /\ sreg' = TRUE
  /\ Return
  /\ UNCHANGED <<tx, written, rx, ucsrb, udr, shift, sent, rxFifo, handler, reg, got, room, promised>>

(* The ring is full: wait for the handler, or call it with interrupts off. *)
WriteWaitNot ==
  /\ At("write_wait")
  /\ Goto("write_store")
  /\ UNCHANGED <<tx, written, rx, ucsrb, usart, rxFifo, inten, handler, locals, got, room, promised>>
WriteWait ==
  /\ At("write_wait")
  /\ idx # txTail
  /\ Goto("write_store")
  /\ UNCHANGED <<tx, written, rx, ucsrb, usart, rxFifo, inten, handler, locals, got, room, promised>>

WritePollSpins ==
  /\ At("write_wait")
  /\ idx = txTail /\ ~inten
  /\ UNCHANGED vars
WritePoll ==
  /\ At("write_wait")
  /\ idx = txTail /\ ~inten /\ udr = None
  /\ IrqTake
  /\ UNCHANGED <<written, rx, ucsrb, usart, rxFifo, inten, pc, call, locals, got, room, promised>>

WriteStore ==
  /\ At("write_store")
  /\ txBuf' = [txBuf EXCEPT ![txHead] = arg]
  /\ Goto("write_commit")
  /\ UNCHANGED <<txHead, txTail, written, rx, ucsrb, usart, rxFifo, inten, handler, locals, got, room, promised>>

(* ATOMIC_BLOCK: advance head, then enable the interrupt. *)
WriteCommitNotAtomic ==
  /\ At("write_commit")
  /\ sreg' = inten /\ UNCHANGED inten
  /\ txHead' = idx
  /\ Goto("write_enable")
  /\ UNCHANGED <<txBuf, txTail, written, rx, ucsrb, usart, rxFifo, handler, arg, idx, reg, got, room, promised>>
WriteCommit ==
  /\ At("write_commit")
  /\ sreg' = inten /\ inten' = FALSE
  /\ txHead' = idx
  /\ Goto("write_enable")
  /\ UNCHANGED <<txBuf, txTail, written, rx, ucsrb, usart, rxFifo, handler, arg, idx, reg, got, room, promised>>

WriteEnable ==
  /\ At("write_enable")
  /\ ucsrb' = ucsrb \cup {"UDRIE"}
  /\ inten' = sreg
  /\ arg' = None /\ idx' = 0 /\ sreg' = TRUE
  /\ Return
  /\ UNCHANGED <<tx, written, rx, usart, rxFifo, handler, reg, got, room, promised>>

(* availableForWrite(): head is the main thread's own, so only the load of
   tail matters. *)
FreeSlotsOffByOne(h, t) == IF h >= t THEN TxBufSize - h + t ELSE t - h
FreeSlots(h, t) == IF h >= t THEN TxBufSize - 1 - h + t ELSE t - h - 1

AvailableForWrite ==
  /\ At("idle")
  /\ room' = FreeSlots(txHead, txTail)
  /\ UNCHANGED <<tx, written, rx, ucsrb, usart, rxFifo, inten, handler, pc, call, locals, got, promised>>

(* available(): likewise, only the load of head matters. *)
Available ==
  /\ At("idle")
  /\ promised' = RxCount
  /\ UNCHANGED <<tx, written, rx, ucsrb, usart, rxFifo, inten, handler, pc, call, locals, got, room>>

(* read() of a ring that is not empty, and peek(); on an empty ring both
   return -1. *)
Read(fun) ==
  /\ fun \in {"read", "peek"}
  /\ rxHead # rxTail
  /\ Enter(fun, "read_load")
  /\ UNCHANGED <<tx, written, rx, ucsrb, usart, rxFifo, inten, handler, locals, got, room, promised>>

ReadLoad ==
  /\ At("read_load")
  /\ reg' = rxBuf[rxTail]
  /\ Goto("read_advance")
  /\ UNCHANGED <<tx, written, rx, ucsrb, usart, rxFifo, inten, handler, arg, idx, sreg, got, room, promised>>

ReadAdvance ==
  /\ At("read_advance")
  /\ IF call = "read"
     THEN /\ rxTail' = RxSucc(rxTail)
          /\ got' = reg
          /\ promised' = IF promised = 0 THEN 0 ELSE promised - 1
     ELSE UNCHANGED <<rxTail, got, promised>>
  /\ reg' = None
  /\ Return
  /\ UNCHANGED <<tx, written, rxBuf, rxHead, ucsrb, usart, rxFifo, inten, handler, arg, idx, sreg, room>>

(* noInterrupts() and interrupts() of the sketch. *)
SetInterrupts(i) ==
  /\ MayDisable /\ At("idle")
  /\ inten' = i
  /\ UNCHANGED <<tx, written, rx, ucsrb, usart, rxFifo, handler, pc, call, locals, got, room, promised>>

-----------------------------------------------------------------------------
Calls == \/ Begin \/ Flush("flush") \/ Flush("end")
         \/ \E c \in TxByte : Write(c)
         \/ AvailableForWrite \/ Available \/ Read("read") \/ Read("peek")
         \/ \E i \in BOOLEAN : SetInterrupts(i)
Continue == \/ RmwLoad \/ RmwStore \/ EndClear
            \/ FlushUdrie \/ FlushTxc \/ FlushPoll \/ FlushDone
            \/ WriteUdr \/ WriteTxc \/ WriteWait \/ WritePoll
            \/ WriteStore \/ WriteCommit \/ WriteEnable
            \/ ReadLoad \/ ReadAdvance
Transmitter == LoadShift \/ FinishShift
Receiver == \E f \in RxByte \cup {BadParity} : RxArrive(f)

Next == Calls \/ Continue \/ UdreInterrupt \/ Irq \/ Transmitter
        \/ Receiver \/ RxCompleteInterrupt

(* A call once begun runs on, a handler once entered runs on, the USART sends
   what it has, and an enabled interrupt is taken between two instructions of
   the main thread, however briefly it is enabled. *)
Fairness == /\ WF_vars(Continue) /\ WF_vars(Irq) /\ WF_vars(Transmitter)
            /\ SF_vars(UdreInterrupt)

Spec == Init /\ [][Next]_vars
FairSpec == Spec /\ Fairness

-----------------------------------------------------------------------------
(* Properties                                                              *)

Labels == {"idle", "rmw_load", "rmw_store", "end_clear", "flush_udrie",
           "flush_txc", "flush_done", "write_udr", "write_txc", "write_wait",
           "write_store", "write_commit", "write_enable", "read_load",
           "read_advance"}
Functions == {"none", "begin", "end", "flush", "write", "read", "peek"}

(* Every variable keeps its type; in particular the four indices stay inside
   their rings (HardwareSerial.cpp 94, 187, 251, HardwareSerial_private.h 107). *)
TypeOK ==
  /\ txBuf \in [TxSlot -> TxByte \cup {None}]
  /\ txHead \in TxSlot /\ txTail \in TxSlot
  /\ written \in BOOLEAN
  /\ rxBuf \in [RxSlot -> RxByte \cup {None}]
  /\ rxHead \in RxSlot /\ rxTail \in RxSlot
  /\ ucsrb \subseteq Bits
  /\ udr \in TxByte \cup {None} /\ shift \in TxByte \cup {None}
  /\ txc \in BOOLEAN
  /\ rxFifo \in Seq(RxByte \cup {BadParity}) /\ Len(rxFifo) <= FifoSize
  /\ inten \in BOOLEAN /\ sreg \in BOOLEAN
  /\ irq \in {"off", "udr", "txc", "check"} /\ irqByte \in TxByte \cup {None}
  /\ pc \in Labels /\ call \in Functions
  /\ arg \in TxByte \cup {None}
  /\ idx \in 0..255
  /\ pc \in {"write_wait", "write_store", "write_commit"} => idx \in TxSlot
  /\ pc \in {"write_udr", "write_store"} => arg \in TxByte
  /\ pc = "rmw_store" => reg \subseteq Bits
  /\ pc = "read_advance" => reg \in RxByte \cup {None}
  /\ sent \in TxByte \cup {None} /\ got \in RxByte \cup {None}
  /\ room \in 0..(TxBufSize - 1) /\ promised \in 0..(RxBufSize - 1)

(* HardwareSerial.cpp 91-92, "If interrupts are enabled, there must be more
   data in the output buffer": whenever the handler could be entered with
   UDRIE set, there is a byte to take. *)
UdrieMeansData == irq = "off" /\ "UDRIE" \in ucsrb => txHead # txTail

(* No byte is left in the ring with nobody to fetch it: outside write() and
   the handler, a queued byte has its interrupt enabled. *)
DataMeansUdrie ==
  irq = "off" /\ pc # "write_enable" /\ txHead # txTail => "UDRIE" \in ucsrb

(* What is under way: in the shift register, in UDR, taken by the handler, in
   the ring. *)
One(b) == IF b = None THEN <<>> ELSE <<b>>
TxQueue == [k \in 1..TxCount |-> txBuf[(txTail + k - 1) % TxBufSize]]
UnderWay == One(shift) \o One(udr)
            \o (IF irq = "udr" THEN <<irqByte>> ELSE <<>>) \o TxQueue

(* HardwareSerial.cpp 221-222: when flush() gets there "nothing is queued
   anymore" and the last frame has left; also when it returns early because
   "we have never written a byte" (207). *)
FlushMeansSent == pc = "flush_done" => UnderWay = <<>>

(* write() called as often as availableForWrite() allowed finds room each
   time, whatever the handler and the USART did since. *)
RoomKept == room + TxCount <= TxBufSize - 1

(* available() stays true whatever the receive handler does. *)
AvailableKept == promised <= RxCount

(* end() leaves nothing to read, although the receive handler runs until
   RXCIE is off (152-163). *)
EndLeavesNothing == pc = "idle" /\ "RXCIE" \notin ucsrb => rxHead = rxTail

(* What the sketch is told of the transmitter is true, the handler is enabled
   exactly when it has a byte to take, and all keep their types. *)
ToldTrue == /\ TypeOK /\ UdrieMeansData /\ DataMeansUdrie
            /\ FlushMeansSent /\ RoomKept

(* The same of the receiver: available(), and end() on a port that a byte is
   just arriving at. *)
ReceivedTrue == TypeOK /\ AvailableKept /\ EndLeavesNothing

(* The transmitter is a queue: bytes leave once each, in the order written,
   none lost and none sent twice: refinement of TxChannel. *)
Channel == INSTANCE TxChannel WITH
             Byte <- TxByte, NoByte <- None, Cap <- TxBufSize + 1, pending <- UnderWay
ImplementsChannel == Channel!TSpec

(* The receive ring is a queue of what arrived: refinement of RxQueue. *)
RxStored == [k \in 1..RxCount |-> rxBuf[(rxTail + k - 1) % RxBufSize]]
Queue == INSTANCE RxQueue WITH
           Byte <- RxByte, NoByte <- None, Cap <- RxBufSize - 1, queue <- RxStored
ImplementsQueue == Queue!QSpec

(* write(), flush() and end() return, with interrupts enabled or disabled:
   waiting for a full ring or for the last frame never hangs (213-219,
   253-266). *)
CallsReturn == pc # "idle" ~> pc = "idle"

(* Where interrupts are enabled again and again, the ring drains: its oldest
   byte leaves. *)
QueueMoves ==
  []<>inten => \A s \in TxSlot :
                 txTail = s /\ txHead # txTail ~> txTail # s
=============================================================================
