------------------------ MODULE HardwareSerialProofs ------------------------
(***************************************************************************)
(* Theorems about HardwareSerial, for any bytes, rings of any size, calls  *)
(* with interrupts on or off, and any speed of the USART, of a sketch that *)
(* calls begin() on a closed port only.                                    *)
(***************************************************************************)
EXTENDS HardwareSerial, DataTheorems

(* The sketch does not call begin() on an open port. *)
BeginsClosed == MayRebegin = FALSE

Quiet == /\ shift = None /\ udr = None /\ txHead = txTail
         /\ irq = "off" /\ "UDRIE" \notin ucsrb

Writing == pc \in {"write_udr", "write_txc", "write_wait", "write_store",
                   "write_commit", "write_enable"}
Changing == pc \in {"rmw_load", "rmw_store"}

(* The handler and the interrupt enable. *)
HandlerInv ==
  /\ irq # "off" => "UDRIE" \in ucsrb
  /\ irq = "off" /\ "UDRIE" \in ucsrb => txHead # txTail
  /\ irq = "off" /\ pc # "write_enable" /\ txHead # txTail => "UDRIE" \in ucsrb
  /\ pc \in {"write_txc", "write_enable"} => ~inten /\ irq = "off"
  /\ pc \in {"write_udr", "flush_txc"} => irq = "off" /\ "UDRIE" \notin ucsrb

(* flush(): TXC is set only when all has left. *)
QuietInv ==
  /\ pc = "flush_done" \/ Changing \/ pc = "end_clear" => Quiet
  /\ ~written => Quiet /\ ~Writing
  /\ "TXEN" \notin ucsrb => Quiet /\ ~Writing
  /\ txc /\ irq # "txc" /\ pc # "write_txc" => udr = None /\ shift = None
  /\ irq = "udr" \/ pc = "write_udr" => udr = None

(* write(): the byte, the slot, and the room. *)
RoomInv ==
  /\ pc \in {"write_udr", "write_wait", "write_store"} => arg \in TxByte
  /\ pc \in {"write_wait", "write_store", "write_commit"} => idx = TxSucc(txHead)
  /\ pc \in {"write_store", "write_commit"} => idx # txTail
  /\ pc = "write_enable" => txHead # txTail
  /\ room + TxCount <= TxBufSize - 1
  /\ pc = "write_wait" /\ room > 0 => room + TxCount + 1 <= TxBufSize - 1
  /\ pc \in {"write_store", "write_commit"} => room + TxCount + 1 <= TxBufSize - 1

(* begin() and end() change UCSRB with nobody in between. *)
ChangeInv ==
  /\ Changing => call \in {"begin", "end"} /\ idx \in 1..4
  /\ pc = "rmw_store" => reg = ucsrb
  /\ pc \in {"flush_udrie", "flush_txc", "flush_done"} => call \in {"flush", "end"}

(* The receive ring. *)
ReceiveInv ==
  /\ pc \in {"read_load", "read_advance"} => rxHead # rxTail /\ "RXCIE" \in ucsrb
  /\ "RXCIE" \notin ucsrb /\ ~Changing /\ pc # "end_clear" => rxHead = rxTail
  /\ Changing /\ call = "begin" /\ idx = 4 => "RXCIE" \in ucsrb
  /\ promised <= RxCount

IInv == TypeOK /\ HandlerInv /\ QuietInv /\ RoomInv /\ ChangeInv /\ ReceiveInv

-----------------------------------------------------------------------------
(* Arithmetic of the rings *)

LEMMA Sizes ==
  /\ TxBufSize \in 2..256 /\ RxBufSize \in 2..256
  /\ TxBufSize \in Nat \ {0} /\ RxBufSize \in Nat \ {0}
  BY HardwareSerialAssumption

(* One byte stored is one more, one taken is one less. *)
LEMMA FillStep ==
  ASSUME NEW size \in Nat \ {0}, NEW in \in 0..(size - 1), NEW out \in 0..(size - 1)
  PROVE  /\ Wrap(size, in + 1) # out
              => Fill(size, Wrap(size, in + 1), out) = Fill(size, in, out) + 1
         /\ in # out
              => Fill(size, in, Wrap(size, out + 1)) = Fill(size, in, out) - 1
         /\ Fill(size, in, out) = 0 <=> in = out
<1>1. /\ Wrap(size, in + 1) \in 0..(size - 1) /\ Wrap(size, out + 1) \in 0..(size - 1)
      /\ Wrap(size, in + 1) = IF in + 1 = size THEN 0 ELSE in + 1
      /\ Wrap(size, out + 1) = IF out + 1 = size THEN 0 ELSE out + 1
  BY NextSlot
<1> DEFINE up == Wrap(size, in + 1)
           down == Wrap(size, out + 1)
<1>2. Fill(size, in, out) = IF in >= out THEN in - out ELSE in + size - out
  BY FillCases
<1>3. Fill(size, up, out) = IF up >= out THEN up - out ELSE up + size - out
  BY <1>1, FillCases
<1>4. Fill(size, in, down) = IF in >= down THEN in - down ELSE in + size - down
  BY <1>1, FillCases
<1> HIDE DEF up, down
<1>5. /\ up = IF in + 1 = size THEN 0 ELSE in + 1
      /\ down = IF out + 1 = size THEN 0 ELSE out + 1
  BY <1>1 DEF up, down
<1>6. /\ up # out => Fill(size, up, out) = Fill(size, in, out) + 1
      /\ in # out => Fill(size, in, down) = Fill(size, in, out) - 1
      /\ Fill(size, in, out) = 0 <=> in = out
  BY <1>2, <1>3, <1>4, <1>5
<1> QED
  BY <1>6 DEF up, down

LEMMA TxRing ==
  ASSUME NEW h \in TxSlot, NEW t \in TxSlot
  PROVE  /\ TxSucc(h) \in TxSlot /\ TxSucc(h) # h
         /\ Fill(TxBufSize, h, t) \in 0..(TxBufSize - 1)
         /\ FreeSlots(h, t) = TxBufSize - 1 - Fill(TxBufSize, h, t)
         /\ TxSucc(h) # t => Fill(TxBufSize, TxSucc(h), t) = Fill(TxBufSize, h, t) + 1
         /\ h # t => Fill(TxBufSize, h, TxSucc(t)) = Fill(TxBufSize, h, t) - 1
         /\ Fill(TxBufSize, h, t) = 0 <=> h = t
<1>1. /\ TxSucc(h) = Wrap(TxBufSize, h + 1) /\ TxSucc(t) = Wrap(TxBufSize, t + 1)
      /\ h \in 0..(TxBufSize - 1) /\ t \in 0..(TxBufSize - 1)
  BY DEF TxSucc, Wrap, TxSlot
<1>2. /\ Wrap(TxBufSize, h + 1) \in 0..(TxBufSize - 1)
      /\ Wrap(TxBufSize, h + 1) = IF h + 1 = TxBufSize THEN 0 ELSE h + 1
  BY <1>1, Sizes, NextSlot
<1>3. /\ Fill(TxBufSize, h, t) \in 0..(TxBufSize - 1)
      /\ Fill(TxBufSize, h, t) = IF h >= t THEN h - t ELSE h + TxBufSize - t
  BY <1>1, Sizes, FillCases
<1>4. TxSucc(h) \in TxSlot /\ TxSucc(h) # h
  BY <1>1, <1>2, Sizes DEF TxSlot
<1>5. FreeSlots(h, t) = TxBufSize - 1 - Fill(TxBufSize, h, t)
  BY <1>1, <1>3, Sizes DEF FreeSlots
<1> QED
  BY <1>1, <1>3, <1>4, <1>5, Sizes, FillStep

LEMMA SlotsSmall == TxSlot \subseteq 0..255
  BY Sizes DEF TxSlot

LEMMA RxRing ==
  ASSUME NEW h \in RxSlot, NEW t \in RxSlot
  PROVE  /\ RxSucc(h) \in RxSlot
         /\ Fill(RxBufSize, h, t) \in 0..(RxBufSize - 1)
         /\ RxSucc(h) # t => Fill(RxBufSize, RxSucc(h), t) = Fill(RxBufSize, h, t) + 1
         /\ h # t => Fill(RxBufSize, h, RxSucc(t)) = Fill(RxBufSize, h, t) - 1
         /\ Fill(RxBufSize, h, t) = 0 <=> h = t
<1>1. /\ RxSucc(h) = Wrap(RxBufSize, h + 1) /\ RxSucc(t) = Wrap(RxBufSize, t + 1)
      /\ h \in 0..(RxBufSize - 1) /\ t \in 0..(RxBufSize - 1)
  BY DEF RxSucc, Wrap, RxSlot
<1>2. RxSucc(h) \in RxSlot
  BY <1>1, Sizes, NextSlot DEF RxSlot
<1>3. Fill(RxBufSize, h, t) \in 0..(RxBufSize - 1)
  BY <1>1, Sizes, FillCases
<1> QED
  BY <1>1, <1>2, <1>3, Sizes, FillStep

(* available() adds in another order. *)
LEMMA RxFillIn ==
  ASSUME NEW h \in RxSlot, NEW t \in RxSlot
  PROVE  Fill(RxBufSize, h, t) \in 0..(RxBufSize - 1)
BY RxRing

LEMMA RxFill ==
  ASSUME NEW h \in RxSlot, NEW t \in RxSlot
  PROVE  (RxBufSize + h - t) % RxBufSize = Fill(RxBufSize, h, t)
<1> DEFINE a == RxBufSize + h - t
           b == h + RxBufSize - t
<1>1. a = b
  BY Sizes DEF RxSlot
<1>2. Fill(RxBufSize, h, t) = b % RxBufSize
  BY DEF Fill, Wrap
<1> HIDE DEF a, b
<1>3. a % RxBufSize = b % RxBufSize
  BY <1>1
<1> QED
  BY <1>2, <1>3 DEF a

(* What begin() and end() do to UCSRB. *)
LEMMA ChangedBits ==
  ASSUME NEW fun \in {"begin", "end"}, NEW n \in 1..4, NEW bits \in SUBSET Bits
  PROVE  /\ Changed(fun, n, bits) \subseteq Bits
         /\ "UDRIE" \notin bits => "UDRIE" \notin Changed(fun, n, bits)
         /\ fun = "begin" /\ n = 3 => "RXCIE" \in Changed(fun, n, bits)
         /\ fun = "begin" /\ n = 4 /\ "RXCIE" \in bits => "RXCIE" \in Changed(fun, n, bits)
<1>1. /\ BeginChange[1] = "RXEN" /\ BeginChange[2] = "TXEN"
      /\ BeginChange[3] = "RXCIE" /\ BeginChange[4] = "UDRIE"
  BY DEF BeginChange
<1>2. BeginChange[n] \in Bits /\ (n < 4 => BeginChange[n] # "UDRIE")
  BY <1>1 DEF Bits
<1>3. Changed(fun, n, bits) = IF fun = "begin" /\ n < 4 THEN bits \cup {BeginChange[n]}
                                                       ELSE bits \ {BeginChange[n]}
  BY DEF Changed
<1> HIDE DEF BeginChange, Changed
<1>4. CASE fun = "begin" /\ n < 4
  BY <1>1, <1>2, <1>3, <1>4
<1>5. CASE ~(fun = "begin" /\ n < 4)
  BY <1>1, <1>2, <1>3, <1>5
<1> QED
  BY <1>4, <1>5

-----------------------------------------------------------------------------
(* Types *)

(* TypeOK in three: the transmitter, the receiver, the call in progress. *)
TxTypes ==
  /\ txBuf \in [TxSlot -> TxByte \cup {None}]
  /\ txHead \in TxSlot /\ txTail \in TxSlot
  /\ udr \in TxByte \cup {None} /\ shift \in TxByte \cup {None}
  /\ sent \in TxByte \cup {None}
  /\ irq \in {"off", "udr", "txc", "check"} /\ irqByte \in TxByte \cup {None}
  /\ room \in 0..(TxBufSize - 1)
RxTypes ==
  /\ rxBuf \in [RxSlot -> RxByte \cup {None}]
  /\ rxHead \in RxSlot /\ rxTail \in RxSlot
  /\ rxFifo \in Seq(RxByte \cup {BadParity}) /\ Len(rxFifo) <= FifoSize
  /\ pc = "read_advance" => reg \in RxByte \cup {None}
  /\ got \in RxByte \cup {None} /\ promised \in 0..(RxBufSize - 1)
CallTypes ==
  /\ ucsrb \subseteq Bits
  /\ pc \in Labels /\ call \in Functions
  /\ arg \in TxByte \cup {None}
  /\ idx \in 0..255
FlagTypes == written \in BOOLEAN /\ txc \in BOOLEAN /\ inten \in BOOLEAN /\ sreg \in BOOLEAN
(* Implied by RoomInv and ChangeInv. *)
LocalTypes ==
  /\ pc \in {"write_wait", "write_store", "write_commit"} => idx \in TxSlot
  /\ pc \in {"write_udr", "write_store"} => arg \in TxByte
  /\ pc = "rmw_store" => reg \subseteq Bits

LEMMA TypeParts == TypeOK <=> TxTypes /\ RxTypes /\ CallTypes /\ FlagTypes /\ LocalTypes
  BY Zenon DEF TypeOK, TxTypes, RxTypes, CallTypes, FlagTypes, LocalTypes

LEMMA TxTypesKept ==
  ASSUME IInv, Next
  PROVE  TxTypes'
<1> USE DEF tx, rx, usart, handler, locals, At, Enter, Goto, Return
<1>0. TxTypes /\ RoomInv
  BY TypeParts DEF IInv
<1>1. CASE UNCHANGED <<tx, usart, handler, room>>
  BY <1>0, <1>1 DEF TxTypes
<1>2. ASSUME NEW c \in TxByte, Write(c)
      PROVE  TxTypes'
  <2>1. room' \in 0..(TxBufSize - 1)
    BY <1>0, <1>2, Sizes DEF TxTypes, Write
  <2> QED
    BY <1>0, <1>2, <2>1 DEF TxTypes, Write
<1>3. CASE AvailableForWrite
  <2>1. /\ FreeSlots(txHead, txTail) = TxBufSize - 1 - Fill(TxBufSize, txHead, txTail)
        /\ Fill(TxBufSize, txHead, txTail) \in 0..(TxBufSize - 1)
    BY <1>0, TxRing DEF TxTypes
  <2>2. room' \in 0..(TxBufSize - 1)
    BY <1>3, <2>1, Sizes DEF AvailableForWrite
  <2> QED
    BY <1>0, <1>3, <2>2 DEF TxTypes, AvailableForWrite
<1>4. CASE WriteUdr
  BY <1>0, <1>4 DEF RoomInv, TxTypes, WriteUdr
<1>5. CASE WriteTxc \/ WriteEnable
  BY <1>0, <1>5 DEF TxTypes, WriteTxc, WriteEnable
<1>6. CASE WriteStore
  BY <1>0, <1>6 DEF RoomInv, TxTypes, WriteStore
<1>7. CASE WriteCommit
  <2>1. idx \in TxSlot
    BY <1>0, <1>7, TxRing DEF RoomInv, TxTypes, WriteCommit
  <2> QED
    BY <1>0, <1>7, <2>1 DEF TxTypes, WriteCommit
<1>8. CASE UdreInterrupt \/ FlushPoll \/ WritePoll
  <2>1. TxSucc(txTail) \in TxSlot
    BY <1>0, TxRing DEF TxTypes
  <2> QED
    BY <1>0, <1>8, <2>1 DEF TxTypes, UdreInterrupt, FlushPoll, WritePoll, IrqTake
<1>9. CASE Irq
  BY <1>0, <1>9 DEF TxTypes, Irq, IrqWriteUdr, IrqClearTxc, IrqCheck
<1>10. CASE Transmitter
  BY <1>0, <1>10 DEF TxTypes, Transmitter, LoadShift, FinishShift
<1>11. CASE \/ Begin \/ Flush("flush") \/ Flush("end") \/ Available \/ Read("read") \/ Read("peek")
            \/ \E i \in BOOLEAN : SetInterrupts(i)
  BY <1>1, <1>11, Zenon DEF Begin, Flush, Available, Read, SetInterrupts
<1>12. CASE \/ RmwLoad \/ RmwStore \/ EndClear \/ FlushUdrie \/ FlushTxc \/ FlushDone \/ WriteWait
  BY <1>1, <1>12, Zenon DEF RmwLoad, RmwStore, EndClear, FlushUdrie, FlushTxc, FlushDone, WriteWait
<1>13. CASE ReadLoad \/ ReadAdvance \/ Receiver \/ RxCompleteInterrupt
  BY <1>1, <1>13, Zenon DEF ReadLoad, ReadAdvance, Receiver, RxArrive, RxCompleteInterrupt
<1> QED
  BY <1>2, <1>3, <1>4, <1>5, <1>6, <1>7, <1>8, <1>9, <1>10, <1>11, <1>12, <1>13
  DEF Next, Calls, Continue

LEMMA RxTypesKept ==
  ASSUME IInv, Next
  PROVE  RxTypes'
<1> USE DEF tx, rx, usart, handler, locals, At, Enter, Goto, Return
<1>0. RxTypes
  BY TypeParts DEF IInv
<1>1. CASE UNCHANGED <<rx, rxFifo, got, promised>> /\ pc' # "read_advance"
  BY <1>0, <1>1 DEF RxTypes
<1>2. CASE UNCHANGED <<rx, rxFifo, got, promised, reg, pc>>
  BY <1>0, <1>2 DEF RxTypes
<1>3. CASE Available
  <2>1. promised' \in 0..(RxBufSize - 1)
    <3>1. rxHead \in RxSlot /\ rxTail \in RxSlot
      BY <1>0 DEF RxTypes
    <3>2. RxCount \in 0..(RxBufSize - 1)
      BY <3>1, RxFillIn, RxFill DEF RxCount
    <3> QED
      BY <1>0, <1>3, <3>2 DEF RxTypes, Available
  <2> QED
    BY <1>0, <1>3, <2>1 DEF RxTypes, Available
<1>4. CASE RmwStore
  <2>1. rxFifo' \in Seq(RxByte \cup {BadParity}) /\ Len(rxFifo') <= FifoSize
    BY <1>0, <1>4 DEF RxTypes, RmwStore, FifoSize
  <2>2. pc' # "read_advance"
    BY <1>4 DEF RmwStore
  <2> QED
    BY <1>0, <1>4, <2>1, <2>2 DEF RxTypes, RmwStore
<1>5. CASE EndClear
  <2>1. pc' # "read_advance"
    BY <1>5 DEF EndClear
  <2>2. promised' \in 0..(RxBufSize - 1) /\ rxHead' \in RxSlot
    BY <1>0, <1>5, Sizes DEF RxTypes, EndClear, EndClearsReceived
  <2> QED
    BY <1>0, <1>5, <2>1, <2>2 DEF RxTypes, EndClear, EndClearsReceived
<1>6. CASE ReadLoad
  BY <1>0, <1>6 DEF RxTypes, ReadLoad
<1>7. CASE ReadAdvance
  <2>1. RxSucc(rxTail) \in RxSlot
    BY <1>0, RxRing DEF RxTypes
  <2>2. rxTail' \in RxSlot /\ got' \in RxByte \cup {None}
    BY <1>0, <1>7, <2>1 DEF RxTypes, ReadAdvance
  <2>3. promised' \in 0..(RxBufSize - 1)
    BY <1>0, <1>7, Sizes DEF RxTypes, ReadAdvance
  <2> QED
    BY <1>0, <1>7, <2>2, <2>3 DEF RxTypes, ReadAdvance
<1>8. CASE Receiver
  <2> PICK f \in RxByte \cup {BadParity} : RxArrive(f)
    BY <1>8 DEF Receiver
  <2> QED
    BY <1>0 DEF RxTypes, RxArrive, FifoSize
<1>9. CASE RxCompleteInterrupt
  <2>1. /\ rxFifo \in Seq(RxByte \cup {BadParity}) /\ rxFifo # <<>>
        /\ Len(rxFifo) <= FifoSize
    BY <1>0, <1>9 DEF RxTypes, RxCompleteInterrupt
  <2>2. /\ Head(rxFifo) \in RxByte \cup {BadParity}
        /\ Tail(rxFifo) \in Seq(RxByte \cup {BadParity})
        /\ Len(Tail(rxFifo)) <= FifoSize
    BY <2>1 DEF FifoSize
  <2>3. RxSucc(rxHead) \in RxSlot
    BY <1>0, RxRing DEF RxTypes
  <2>4. rxBuf' \in [RxSlot -> RxByte \cup {None}] /\ rxHead' \in RxSlot /\ rxTail' \in RxSlot
    BY <1>0, <1>9, <2>2, <2>3 DEF RxTypes, RxCompleteInterrupt
  <2> QED
    BY <1>0, <1>9, <2>2, <2>4 DEF RxTypes, RxCompleteInterrupt
<1>10. CASE \/ Begin \/ Flush("flush") \/ Flush("end") \/ (\E c \in TxByte : Write(c))
            \/ Read("read") \/ Read("peek") \/ RmwLoad \/ FlushUdrie \/ FlushTxc
  BY <1>1, <1>10 DEF Begin, Flush, Write, Read, RmwLoad, FlushUdrie, FlushTxc
<1>11. CASE \/ FlushDone \/ WriteUdr \/ WriteTxc \/ WriteWait \/ WriteStore
            \/ WriteCommit \/ WriteEnable
  BY <1>1, <1>11 DEF FlushDone, WriteUdr, WriteTxc, WriteWait, WriteStore, WriteCommit, WriteEnable
<1>12. CASE \/ AvailableForWrite \/ (\E i \in BOOLEAN : SetInterrupts(i))
            \/ UdreInterrupt \/ FlushPoll \/ WritePoll \/ Irq \/ Transmitter
  BY <1>2, <1>12, Zenon DEF AvailableForWrite, SetInterrupts, UdreInterrupt, FlushPoll, WritePoll,
     Irq, IrqWriteUdr, IrqClearTxc, IrqCheck, Transmitter, LoadShift, FinishShift
<1> QED
  BY <1>3, <1>4, <1>5, <1>6, <1>7, <1>8, <1>9, <1>10, <1>11, <1>12 DEF Next, Calls, Continue

LEMMA CallTypesKept ==
  ASSUME IInv, Next
  PROVE  CallTypes'
<1> USE DEF tx, rx, usart, handler, locals, At, Enter, Goto, Return
<1>0. CallTypes /\ TxTypes /\ ChangeInv
  BY TypeParts DEF IInv
<1>1. CASE UNCHANGED <<ucsrb, pc, call, arg, idx>>
  BY <1>0, <1>1 DEF CallTypes
<1>2. ASSUME NEW c \in TxByte, Write(c)
      PROVE  CallTypes'
  <2>1. TxSucc(txHead) \in 0..255
    BY <1>0, TxRing, SlotsSmall DEF TxTypes
  <2> QED
    BY <1>0, <1>2, <2>1 DEF CallTypes, Write, Labels, Functions
<1>3. CASE Begin \/ Flush("flush") \/ Flush("end") \/ Read("read") \/ Read("peek")
  BY <1>0, <1>3 DEF CallTypes, Begin, Flush, Read, Labels, Functions
<1>4. CASE \/ RmwLoad \/ EndClear \/ FlushUdrie \/ FlushTxc \/ FlushDone
  BY <1>0, <1>4 DEF CallTypes, RmwLoad, EndClear, FlushUdrie, FlushTxc, FlushDone,
     Labels, Functions
<1>5. CASE RmwStore
  <2>1. ucsrb' \subseteq Bits /\ idx' \in 0..255
    <3>1. reg \in SUBSET Bits /\ call \in {"begin", "end"} /\ idx \in 1..4
      BY <1>0, <1>5 DEF CallTypes, ChangeInv, Changing, RmwStore
    <3>2. ucsrb' = Changed(call, idx, reg) /\ (idx' = idx + 1 \/ idx' = 0)
      BY <1>5 DEF RmwStore
    <3> QED BY <3>1, <3>2, ChangedBits
  <2>2. pc' \in Labels /\ call' \in Functions /\ arg' = arg
    BY <1>0, <1>5 DEF CallTypes, RmwStore, Labels, Functions
  <2> QED
    BY <1>0, <2>1, <2>2 DEF CallTypes
<1>6. CASE WriteUdr \/ WriteTxc \/ WriteEnable
  <2>1. ucsrb' \subseteq Bits
    BY <1>0, <1>6 DEF CallTypes, WriteUdr, WriteTxc, WriteEnable, Bits
  <2>2. /\ pc' \in Labels /\ call' \in Functions
        /\ arg' \in {arg, None} /\ idx' \in {idx, 0}
    BY <1>0, <1>6 DEF CallTypes, WriteUdr, WriteTxc, WriteEnable, Labels, Functions
  <2> QED
    BY <1>0, <2>1, <2>2 DEF CallTypes
<1>7. CASE WriteWait \/ WriteStore \/ WriteCommit
  BY <1>0, <1>7 DEF CallTypes, WriteWait, WriteStore, WriteCommit, Labels
<1>8. CASE ReadLoad \/ ReadAdvance
  BY <1>0, <1>8 DEF CallTypes, ReadLoad, ReadAdvance, Labels, Functions
<1>9. CASE Irq
  BY <1>0, <1>9 DEF CallTypes, Irq, IrqWriteUdr, IrqClearTxc, IrqCheck
<1>10. CASE \/ AvailableForWrite \/ Available \/ UdreInterrupt \/ FlushPoll \/ WritePoll
            \/ Transmitter \/ Receiver \/ RxCompleteInterrupt
            \/ \E i \in BOOLEAN : SetInterrupts(i)
  BY <1>1, <1>10, Zenon DEF AvailableForWrite, Available, UdreInterrupt, FlushPoll, WritePoll,
     Transmitter, LoadShift, FinishShift, Receiver, RxArrive, RxCompleteInterrupt, SetInterrupts
<1> QED
  BY <1>2, <1>3, <1>4, <1>5, <1>6, <1>7, <1>8, <1>9, <1>10 DEF Next, Calls, Continue

LEMMA FlagTypesKept ==
  ASSUME IInv, Next
  PROVE  FlagTypes'
<1> USE DEF tx, rx, usart, handler, locals
<1>0. FlagTypes
  BY TypeParts DEF IInv
<1>1. CASE UNCHANGED <<written, txc, inten, sreg>>
  BY <1>0, <1>1, Zenon DEF FlagTypes
<1>2. CASE Begin \/ (\E c \in TxByte : Write(c)) \/ (\E i \in BOOLEAN : SetInterrupts(i))
  BY <1>0, <1>2, Zenon DEF FlagTypes, Begin, Write, SetInterrupts
<1>3. CASE WriteUdr \/ WriteCommit
  BY <1>0, <1>3, Zenon DEF FlagTypes, WriteUdr, WriteCommit
<1>4. CASE WriteTxc \/ WriteEnable
  BY <1>0, <1>4, Zenon DEF FlagTypes, WriteTxc, WriteEnable
<1>5. CASE LoadShift \/ IrqClearTxc
  BY <1>0, <1>5, Zenon DEF FlagTypes, LoadShift, IrqClearTxc
<1>6. CASE FinishShift
  <2>1. txc' \in {TRUE, txc} /\ UNCHANGED <<written, inten, sreg>>
    BY <1>6, Zenon DEF FinishShift
  <2> QED
    BY <1>0, <2>1, Zenon DEF FlagTypes
<1>7. CASE \/ Flush("flush") \/ Flush("end") \/ AvailableForWrite \/ Available
           \/ Read("read") \/ Read("peek")
  BY <1>1, <1>7, Zenon DEF Flush, AvailableForWrite, Available, Read
<1>8. CASE \/ RmwLoad \/ RmwStore \/ EndClear \/ FlushUdrie \/ FlushTxc \/ FlushPoll \/ FlushDone
           \/ WriteWait \/ WritePoll \/ WriteStore \/ ReadLoad \/ ReadAdvance
  BY <1>1, <1>8, Zenon DEF RmwLoad, RmwStore, EndClear, FlushUdrie, FlushTxc, FlushPoll,
     FlushDone, WriteWait, WritePoll, WriteStore, ReadLoad, ReadAdvance
<1>9. CASE UdreInterrupt \/ IrqWriteUdr \/ IrqCheck \/ Receiver \/ RxCompleteInterrupt
  BY <1>1, <1>9, Zenon DEF UdreInterrupt, IrqWriteUdr, IrqCheck, Receiver, RxArrive,
     RxCompleteInterrupt
<1> QED
  BY <1>2, <1>3, <1>4, <1>5, <1>6, <1>7, <1>8, <1>9
  DEF Next, Calls, Continue, Irq, Transmitter

-----------------------------------------------------------------------------
(* The parts of the invariant *)

LEMMA HandlerKept ==
  ASSUME IInv, Next
  PROVE  HandlerInv'
<1> USE DEF tx, rx, usart, handler, locals, At, Enter, Goto, Return
<1>0. HandlerInv /\ QuietInv /\ RoomInv /\ ChangeInv
  BY DEF IInv
<1>1. CASE \/ UNCHANGED <<irq, ucsrb, txHead, txTail, pc, inten>>
           \/ /\ UNCHANGED <<irq, ucsrb, txHead, txTail, inten>>
              /\ pc # "write_enable"
              /\ pc' \notin {"write_txc", "write_enable", "write_udr", "flush_txc"}
  BY <1>0, <1>1 DEF HandlerInv
<1>2. CASE Begin \/ Flush("flush") \/ Flush("end") \/ Read("read") \/ Read("peek")
  BY <1>1, <1>2 DEF Begin, Flush, Read
<1>3. ASSUME NEW c \in TxByte, Write(c)
      PROVE  HandlerInv'
  BY <1>0, <1>3 DEF HandlerInv, Write
<1>4. CASE AvailableForWrite \/ Available
  BY <1>1, <1>4 DEF AvailableForWrite, Available
<1>5. CASE \E i \in BOOLEAN : SetInterrupts(i)
  BY <1>0, <1>5 DEF HandlerInv, SetInterrupts
<1>6. CASE \/ RmwLoad \/ EndClear \/ FlushTxc \/ FlushDone \/ WriteWait \/ WriteStore
           \/ ReadLoad \/ ReadAdvance
  BY <1>1, <1>6 DEF RmwLoad, EndClear, FlushTxc, FlushDone, WriteWait, WriteStore,
     ReadLoad, ReadAdvance
<1>7. CASE RmwStore
  <2>1. Quiet /\ reg = ucsrb /\ call \in {"begin", "end"} /\ idx \in 1..4 /\ ucsrb \in SUBSET Bits
    BY <1>0, <1>7, TypeParts DEF IInv, CallTypes, QuietInv, ChangeInv, Changing, RmwStore
  <2>2. "UDRIE" \notin ucsrb'
    BY <1>7, <2>1, ChangedBits DEF RmwStore, Quiet
  <2>3. UNCHANGED <<irq, txHead, txTail>> /\ pc' \in {"rmw_load", "end_clear", "idle"}
    BY <1>7 DEF RmwStore
  <2> QED
    BY <2>1, <2>2, <2>3 DEF HandlerInv, Quiet
<1>8. CASE FlushUdrie
  BY <1>0, <1>8 DEF HandlerInv, FlushUdrie
<1>9. CASE WriteUdr \/ WriteTxc
  BY <1>0, <1>9 DEF HandlerInv, WriteUdr, WriteTxc
<1>10. CASE WriteCommit
  BY <1>0, <1>10 DEF HandlerInv, RoomInv, WriteCommit
<1>11. CASE WriteEnable
  BY <1>0, <1>11 DEF HandlerInv, RoomInv, WriteEnable
<1>12. CASE UdreInterrupt \/ FlushPoll
  BY <1>0, <1>12 DEF HandlerInv, UdreInterrupt, FlushPoll, IrqTake
<1>13. CASE WritePoll
  <2>1. idx = TxSucc(txHead) /\ TxSucc(txHead) # txHead
    BY <1>0, <1>13, TypeParts, TxRing DEF IInv, TxTypes, RoomInv, WritePoll
  <2> QED
    BY <1>0, <1>13, <2>1 DEF HandlerInv, WritePoll, IrqTake
<1>14. CASE Irq
  BY <1>0, <1>14 DEF HandlerInv, Irq, IrqWriteUdr, IrqClearTxc, IrqCheck
<1>15. CASE Transmitter \/ Receiver \/ RxCompleteInterrupt
  BY <1>1, <1>15, Zenon DEF Transmitter, LoadShift, FinishShift, Receiver, RxArrive,
     RxCompleteInterrupt
<1> QED
  BY <1>2, <1>3, <1>4, <1>5, <1>6, <1>7, <1>8, <1>9, <1>10, <1>11, <1>12, <1>13, <1>14, <1>15
  DEF Next, Calls, Continue

LEMMA QuietKept ==
  ASSUME IInv, Next, BeginsClosed
  PROVE  QuietInv'
<1> USE DEF tx, rx, usart, handler, locals, At, Enter, Goto, Return
<1>0. HandlerInv /\ QuietInv /\ ChangeInv
  BY DEF IInv
<1>1. CASE UNCHANGED <<pc, shift, udr, txHead, txTail, irq, ucsrb, written, txc>>
  BY <1>0, <1>1, Zenon DEF QuietInv, Quiet, Writing, Changing
<1>2. CASE Begin
  BY <1>0, <1>2 DEF QuietInv, Quiet, Writing, Changing, Begin, BeginsClosed
<1>3. CASE Flush("flush") \/ Flush("end")
  BY <1>0, <1>3 DEF QuietInv, Quiet, Writing, Changing, Flush
<1>4. ASSUME NEW c \in TxByte, Write(c)
      PROVE  QuietInv'
  BY <1>0, <1>4 DEF QuietInv, Quiet, Writing, Changing, Write
<1>5. CASE Read("read") \/ Read("peek") \/ ReadLoad \/ ReadAdvance
  BY <1>0, <1>5 DEF QuietInv, Quiet, Writing, Changing, Read, ReadLoad, ReadAdvance
<1>6. CASE AvailableForWrite \/ Available \/ \E i \in BOOLEAN : SetInterrupts(i)
  BY <1>1, <1>6, Zenon DEF AvailableForWrite, Available, SetInterrupts
<1>7. CASE RmwLoad \/ EndClear \/ FlushUdrie \/ FlushDone
  BY <1>0, <1>7 DEF QuietInv, Quiet, Writing, Changing, RmwLoad, EndClear, FlushUdrie, FlushDone
<1>8. CASE RmwStore
  <2>1. Quiet /\ reg = ucsrb /\ call \in {"begin", "end"} /\ idx \in 1..4 /\ ucsrb \in SUBSET Bits
    BY <1>0, <1>8, TypeParts DEF IInv, CallTypes, QuietInv, ChangeInv, Changing, RmwStore
  <2>2. "UDRIE" \notin ucsrb'
    BY <1>8, <2>1, ChangedBits DEF RmwStore, Quiet
  <2>3. UNCHANGED <<irq, txHead, txTail, udr, shift>> /\ pc' \in {"rmw_load", "end_clear", "idle"}
    BY <1>8 DEF RmwStore
  <2> QED
    BY <2>1, <2>2, <2>3 DEF QuietInv, Quiet, Writing
<1>9. CASE FlushTxc
  BY <1>0, <1>9 DEF HandlerInv, QuietInv, Quiet, Writing, Changing, FlushTxc
<1>10. CASE WriteUdr \/ WriteTxc
  BY <1>0, <1>10 DEF QuietInv, Quiet, Writing, Changing, WriteUdr, WriteTxc
<1>11. CASE WriteWait \/ WriteStore \/ WriteCommit \/ WriteEnable
  BY <1>0, <1>11 DEF QuietInv, Quiet, Writing, Changing, WriteWait, WriteStore, WriteCommit,
     WriteEnable
<1>12. CASE UdreInterrupt \/ FlushPoll \/ WritePoll
  BY <1>0, <1>12 DEF QuietInv, Quiet, Writing, Changing, HandlerInv, UdreInterrupt, FlushPoll,
     WritePoll, IrqTake
<1>13. CASE Irq
  <2>1. irq # "off" /\ ~Quiet /\ "TXEN" \in ucsrb /\ written
    BY <1>0, <1>13 DEF QuietInv, Quiet, Irq, IrqWriteUdr, IrqClearTxc, IrqCheck
  <2>2. CASE IrqWriteUdr
    BY <1>0, <2>1, <2>2 DEF QuietInv, Quiet, Writing, Changing, HandlerInv, IrqWriteUdr
  <2>3. CASE IrqClearTxc
    BY <1>0, <2>1, <2>3 DEF QuietInv, Quiet, Writing, Changing, HandlerInv, IrqClearTxc
  <2>4. CASE IrqCheck
    <3>1. "TXEN" \in ucsrb' /\ irq' = "off" /\ UNCHANGED <<written, txc, udr, shift, pc>>
      BY <2>1, <2>4 DEF IrqCheck
    <3> QED
      BY <1>0, <2>1, <2>4, <3>1 DEF QuietInv, Quiet, Writing, Changing, IrqCheck
  <2> QED
    BY <1>13, <2>2, <2>3, <2>4 DEF Irq
<1>14. CASE LoadShift
  BY <1>0, <1>14 DEF QuietInv, Quiet, Writing, Changing, LoadShift
<1>15. CASE FinishShift
  BY <1>0, <1>15 DEF QuietInv, Quiet, Writing, Changing, HandlerInv, FinishShift, TxcWindow
<1>16. CASE Receiver \/ RxCompleteInterrupt
  BY <1>1, <1>16, Zenon DEF Receiver, RxArrive, RxCompleteInterrupt
<1> QED
  BY <1>2, <1>3, <1>4, <1>5, <1>6, <1>7, <1>8, <1>9, <1>10, <1>11, <1>12, <1>13, <1>14, <1>15,
     <1>16 DEF Next, Calls, Continue, Transmitter

(* After a call of the handler there is one byte less. *)
LEMMA TakeGivesRoom ==
  ASSUME IInv, IrqTake, UNCHANGED <<pc, room>>, irq = "off",
         UNCHANGED <<arg, idx>>, txHead # txTail, pc # "write_enable"
  PROVE  RoomInv'
<1>0. /\ RoomInv /\ txHead \in TxSlot /\ txTail \in TxSlot
      /\ room \in Nat /\ TxBufSize \in Nat
  BY TypeParts, Sizes DEF IInv, TxTypes
<1>1. txHead' = txHead /\ txTail' = TxSucc(txTail)
  BY DEF IrqTake
<1>2. /\ TxCount = Fill(TxBufSize, txHead, txTail)
      /\ TxCount' = Fill(TxBufSize, txHead, TxSucc(txTail))
  BY <1>1 DEF TxCount, Fill, Wrap
<1>3. TxCount' = TxCount - 1 /\ TxCount \in Nat
  BY <1>0, <1>2, TxRing
<1>4. pc \in {"write_store", "write_commit"} => idx # txTail'
  <2>1. txHead + 1 # txTail + 1 /\ TxSucc(txHead) = TxSucc(txTail) => txHead = txTail
    <3>1. /\ TxSucc(txHead) = IF txHead + 1 = TxBufSize THEN 0 ELSE txHead + 1
          /\ TxSucc(txTail) = IF txTail + 1 = TxBufSize THEN 0 ELSE txTail + 1
      BY <1>0, Sizes, NextSlot DEF TxSucc, Wrap, TxSlot
    <3> QED BY <1>0, <3>1 DEF TxSlot
  <2> QED BY <1>0, <1>1, <2>1 DEF RoomInv, TxSlot
<1>5. UNCHANGED <<pc, idx, arg, txHead, room>> /\ TxSucc(txHead)' = TxSucc(txHead)
  BY <1>1 DEF TxSucc
<1>6. /\ room' + TxCount' <= TxBufSize - 1
      /\ pc = "write_wait" /\ room > 0 => room + TxCount' + 1 <= TxBufSize - 1
      /\ pc \in {"write_store", "write_commit"} => room + TxCount' + 1 <= TxBufSize - 1
  BY <1>0, <1>3, <1>5 DEF RoomInv
<1> QED
  BY <1>0, <1>4, <1>5, <1>6 DEF RoomInv

LEMMA RoomInvKept ==
  ASSUME IInv, Next
  PROVE  RoomInv'
<1> USE DEF tx, rx, usart, handler, locals, At, Enter, Goto, Return
<1>0. HandlerInv /\ RoomInv /\ ChangeInv
  BY DEF IInv
<1> DEFINE n == TxCount
<1>a. /\ txHead \in TxSlot /\ txTail \in TxSlot /\ TxSucc(txHead) \in TxSlot
      /\ room \in Nat /\ TxBufSize \in Nat
      /\ n \in Nat /\ n <= TxBufSize - 1
      /\ FreeSlots(txHead, txTail) = TxBufSize - 1 - n
      /\ TxSucc(txHead) # txTail => Fill(TxBufSize, TxSucc(txHead), txTail) = n + 1
  <2>1. txHead \in TxSlot /\ txTail \in TxSlot /\ room \in Nat
    BY TypeParts, Sizes DEF IInv, TxTypes
  <2>2. n = Fill(TxBufSize, txHead, txTail)
    BY DEF TxCount, Fill, Wrap
  <2>3. Fill(TxBufSize, txHead, txTail) \in 0..(TxBufSize - 1) /\ TxBufSize \in Nat
    BY <2>1, TxRing, Sizes
  <2> HIDE DEF n
  <2> QED
    BY <2>1, <2>2, <2>3, TxRing
<1>b. txHead' = txHead /\ txTail' = txTail => TxCount' = n /\ TxSucc(txHead)' = TxSucc(txHead)
  BY DEF TxCount, TxSucc
<1>c. TxCount' = Fill(TxBufSize, txHead', txTail')
  BY DEF TxCount, Fill, Wrap
<1> HIDE DEF n
<1>n. n = TxCount
  BY DEF n
<1>1. CASE UNCHANGED <<txHead, txTail, pc, room, idx, arg>>
  BY <1>0, <1>1, <1>b, <1>n DEF RoomInv
<1>2. CASE /\ UNCHANGED <<txHead, txTail, room>>
           /\ pc' \notin {"write_udr", "write_wait", "write_store", "write_commit", "write_enable"}
  BY <1>0, <1>2, <1>b, <1>n DEF RoomInv
<1>3. ASSUME NEW c \in TxByte, Write(c)
      PROVE  RoomInv'
  <2>1. /\ UNCHANGED <<txHead, txTail>> /\ arg' = c /\ idx' = TxSucc(txHead)
        /\ pc' \in {"write_udr", "write_wait"}
        /\ room' = IF room = 0 THEN 0 ELSE room - 1
    BY <1>3 DEF Write
  <2>2. room' + n <= TxBufSize - 1 /\ (room' > 0 => room' + n + 1 <= TxBufSize - 1)
    BY <1>0, <1>a, <1>n, <2>1 DEF RoomInv
  <2> QED
    BY <1>b, <2>1, <2>2 DEF RoomInv
<1>4. CASE AvailableForWrite
  <2>1. UNCHANGED <<txHead, txTail>> /\ pc' = "idle" /\ room' = TxBufSize - 1 - n
    BY <1>4, <1>a DEF AvailableForWrite
  <2> QED
    BY <1>a, <1>b, <2>1 DEF RoomInv
<1>5. CASE \/ Begin \/ Flush("flush") \/ Flush("end") \/ Available \/ Read("read") \/ Read("peek")
           \/ \E i \in BOOLEAN : SetInterrupts(i)
  BY <1>2, <1>5 DEF Begin, Flush, Available, Read, SetInterrupts
<1>6. CASE RmwLoad \/ RmwStore \/ EndClear \/ FlushUdrie \/ FlushTxc \/ FlushDone
  BY <1>2, <1>6 DEF RmwLoad, RmwStore, EndClear, FlushUdrie, FlushTxc, FlushDone
<1>7. CASE WriteUdr \/ WriteTxc \/ WriteEnable \/ ReadLoad \/ ReadAdvance
  BY <1>2, <1>7 DEF WriteUdr, WriteTxc, WriteEnable, ReadLoad, ReadAdvance
<1>8. CASE WriteWait
  <2>1. /\ UNCHANGED <<txHead, txTail, room, idx, arg>> /\ pc' = "write_store"
        /\ idx = TxSucc(txHead) /\ arg \in TxByte /\ idx # txTail
        /\ room + n <= TxBufSize - 1 /\ (room > 0 => room + n + 1 <= TxBufSize - 1)
    BY <1>0, <1>8, <1>n DEF RoomInv, WriteWait
  <2>2. n + 1 <= TxBufSize - 1
    <3>1. Fill(TxBufSize, TxSucc(txHead), txTail) <= TxBufSize - 1
      BY <1>a, TxRing
    <3> QED BY <1>a, <2>1, <3>1
  <2>3. room + n + 1 <= TxBufSize - 1
    BY <1>a, <2>1, <2>2
  <2> QED
    BY <1>b, <2>1, <2>3 DEF RoomInv
<1>9. CASE WriteStore
  <2>1. UNCHANGED <<txHead, txTail, room, idx, arg>> /\ pc = "write_store" /\ pc' = "write_commit"
    BY <1>9 DEF WriteStore
  <2> QED
    BY <1>0, <1>b, <1>n, <2>1 DEF RoomInv
<1>10. CASE WriteCommit
  <2>1. /\ txHead' = idx /\ txTail' = txTail /\ room' = room /\ pc' = "write_enable"
        /\ idx = TxSucc(txHead) /\ idx # txTail /\ room + n + 1 <= TxBufSize - 1
    BY <1>0, <1>10, <1>n DEF RoomInv, WriteCommit
  <2>2. TxCount' = n + 1
    BY <1>a, <1>c, <2>1
  <2> QED
    BY <1>a, <2>1, <2>2 DEF RoomInv
<1>11. CASE UdreInterrupt
  BY <1>0, <1>11, TakeGivesRoom DEF HandlerInv, UdreInterrupt
<1>12. CASE FlushPoll
  BY <1>0, <1>12, TakeGivesRoom DEF HandlerInv, FlushPoll
<1>13. CASE WritePoll
  <2>1. txHead # txTail
    BY <1>0, <1>13, <1>a, TxRing DEF RoomInv, WritePoll
  <2> QED
    BY <1>13, <2>1, TakeGivesRoom DEF WritePoll
<1>14. CASE Irq \/ Transmitter \/ Receiver \/ RxCompleteInterrupt
  BY <1>1, <1>14, Zenon DEF Irq, IrqWriteUdr, IrqClearTxc, IrqCheck, Transmitter, LoadShift,
     FinishShift, Receiver, RxArrive, RxCompleteInterrupt
<1> QED
  BY <1>3, <1>4, <1>5, <1>6, <1>7, <1>8, <1>9, <1>10, <1>11, <1>12, <1>13, <1>14
  DEF Next, Calls, Continue

LEMMA ChangeKept ==
  ASSUME IInv, Next
  PROVE  ChangeInv'
<1> USE DEF tx, rx, usart, handler, locals, At, Enter, Goto, Return
<1>0. HandlerInv /\ QuietInv /\ ChangeInv
  BY DEF IInv
<1>1. CASE UNCHANGED <<pc, call, idx, reg, ucsrb>>
  BY <1>0, <1>1, Zenon DEF ChangeInv, Changing
<1>2. CASE pc' \notin {"rmw_load", "rmw_store", "flush_udrie", "flush_txc", "flush_done"}
  BY <1>2 DEF ChangeInv, Changing
<1>3. CASE (\E c \in TxByte : Write(c)) \/ Read("read") \/ Read("peek")
  BY <1>2, <1>3 DEF Write, Read
<1>4. CASE \/ AvailableForWrite \/ Available \/ Transmitter \/ Receiver \/ RxCompleteInterrupt
           \/ \E i \in BOOLEAN : SetInterrupts(i)
  BY <1>1, <1>4, Zenon DEF AvailableForWrite, Available, Transmitter, LoadShift, FinishShift,
     Receiver, RxArrive, RxCompleteInterrupt, SetInterrupts
<1>5. CASE Begin \/ Flush("flush") \/ Flush("end")
  BY <1>5 DEF ChangeInv, Changing, Begin, Flush
<1>6. CASE RmwLoad
  BY <1>0, <1>6 DEF ChangeInv, Changing, RmwLoad
<1>7. CASE RmwStore
  <2>1. call \in {"begin", "end"} /\ idx \in 1..4
    BY <1>0, <1>7 DEF ChangeInv, Changing, RmwStore
  <2>2. CASE idx < 4
    <3>1. pc' = "rmw_load" /\ call' = call /\ idx' = idx + 1
      BY <1>7, <2>2 DEF RmwStore
    <3> QED BY <2>1, <2>2, <3>1 DEF ChangeInv, Changing
  <2>3. CASE ~(idx < 4)
    <3>1. pc' \in {"end_clear", "idle"}
      BY <1>7, <2>3 DEF RmwStore
    <3> QED BY <1>2, <3>1
  <2> QED BY <2>2, <2>3
<1>8. CASE FlushUdrie \/ FlushTxc
  BY <1>0, <1>8 DEF ChangeInv, Changing, FlushUdrie, FlushTxc
<1>9. CASE FlushDone
  BY <1>0, <1>9 DEF ChangeInv, Changing, FlushDone
<1>10. CASE EndClear \/ WriteUdr \/ WriteTxc \/ WriteWait \/ WriteStore
  BY <1>2, <1>10 DEF EndClear, WriteUdr, WriteTxc, WriteWait, WriteStore
<1>11. CASE WriteCommit \/ WriteEnable \/ ReadLoad \/ ReadAdvance
  BY <1>2, <1>11 DEF WriteCommit, WriteEnable, ReadLoad, ReadAdvance
<1>12. CASE UdreInterrupt \/ FlushPoll \/ WritePoll
  BY <1>1, <1>12, Zenon DEF UdreInterrupt, FlushPoll, WritePoll
<1>13. CASE IrqWriteUdr \/ IrqClearTxc
  BY <1>1, <1>13, Zenon DEF IrqWriteUdr, IrqClearTxc
<1>14. CASE IrqCheck
  <2>1. irq # "off" /\ UNCHANGED <<pc, call, idx, reg>>
    BY <1>14 DEF IrqCheck
  <2>2. pc # "rmw_store"
    BY <1>0, <2>1 DEF QuietInv, Changing, Quiet
  <2> QED
    BY <1>0, <2>1, <2>2 DEF ChangeInv, Changing
<1> QED
  BY <1>3, <1>4, <1>5, <1>6, <1>7, <1>8, <1>9, <1>10, <1>11, <1>12, <1>13, <1>14
  DEF Next, Calls, Continue, Irq

LEMMA ReceiveKept ==
  ASSUME IInv, Next
  PROVE  ReceiveInv'
<1> USE DEF tx, rx, usart, handler, locals, At, Enter, Goto, Return
<1>0. HandlerInv /\ QuietInv /\ ChangeInv /\ ReceiveInv
  BY DEF IInv
<1> DEFINE n == RxCount
<1>a. /\ rxHead \in RxSlot /\ rxTail \in RxSlot /\ promised \in Nat
      /\ n = Fill(RxBufSize, rxHead, rxTail) /\ n \in Nat
  <2>1. rxHead \in RxSlot /\ rxTail \in RxSlot /\ promised \in Nat
    BY TypeParts, Sizes DEF IInv, RxTypes
  <2>2. n = Fill(RxBufSize, rxHead, rxTail)
    BY <2>1, RxFill DEF RxCount
  <2> HIDE DEF n
  <2> QED
    BY <2>1, <2>2, RxFillIn
<1>b. rxHead' = rxHead /\ rxTail' = rxTail => RxCount' = n
  BY DEF RxCount
<1>c. rxHead' \in RxSlot /\ rxTail' \in RxSlot => RxCount' = Fill(RxBufSize, rxHead', rxTail')
  BY RxFill DEF RxCount
<1> HIDE DEF n
<1>n. n = RxCount
  BY DEF n
<1>1. CASE /\ UNCHANGED <<rxHead, rxTail, promised>>
           /\ "RXCIE" \in ucsrb' <=> "RXCIE" \in ucsrb
           /\ \/ UNCHANGED <<pc, call, idx>>
              \/ /\ ~Changing /\ pc # "end_clear"
                 /\ pc' \notin {"rmw_load", "rmw_store", "end_clear", "read_load", "read_advance"}
  BY <1>0, <1>1, <1>b, <1>n DEF ReceiveInv, Changing
<1>2. CASE Begin
  BY <1>0, <1>2, <1>b, <1>n DEF ReceiveInv, Changing, Begin
<1>3. CASE Flush("flush") \/ Flush("end") \/ \E c \in TxByte : Write(c)
  BY <1>1, <1>3 DEF Changing, Flush, Write
<1>4. CASE AvailableForWrite \/ \E i \in BOOLEAN : SetInterrupts(i)
  BY <1>1, <1>4, Zenon DEF AvailableForWrite, SetInterrupts
<1>5. CASE Available
  <2>1. UNCHANGED <<rxHead, rxTail, pc, call, idx, ucsrb>> /\ promised' = n
    BY <1>5, <1>n DEF Available
  <2> QED
    BY <1>0, <1>a, <1>b, <2>1 DEF ReceiveInv, Changing
<1>6. CASE Read("read") \/ Read("peek")
  BY <1>0, <1>6, <1>b, <1>n DEF ReceiveInv, Changing, Read
<1>7. CASE RmwLoad
  BY <1>0, <1>7, <1>b, <1>n DEF ReceiveInv, Changing, RmwLoad
<1>8. CASE RmwStore
  <2>1. /\ reg = ucsrb /\ call \in {"begin", "end"} /\ idx \in 1..4 /\ ucsrb \in SUBSET Bits
        /\ UNCHANGED <<rxHead, rxTail, promised>> /\ ucsrb' = Changed(call, idx, ucsrb)
    BY <1>0, <1>8, TypeParts DEF IInv, CallTypes, ChangeInv, Changing, RmwStore
  <2>2. CASE idx < 4
    <3>1. pc' = "rmw_load" /\ call' = call /\ idx' = idx + 1
      BY <1>8, <2>2 DEF RmwStore
    <3>2. call = "begin" /\ idx' = 4 => "RXCIE" \in ucsrb'
      BY <2>1, <3>1, ChangedBits
    <3> QED BY <1>0, <1>b, <1>n, <2>1, <3>1, <3>2 DEF ReceiveInv, Changing
  <2>3. CASE ~(idx < 4)
    <3>1. idx = 4
      BY <2>1, <2>3
    <3>2. pc' = IF call = "end" THEN "end_clear" ELSE "idle"
      BY <1>8, <2>3 DEF RmwStore
    <3>3. call = "begin" => "RXCIE" \in ucsrb'
      BY <1>0, <1>8, <2>1, <3>1, ChangedBits DEF ReceiveInv, Changing, RmwStore
    <3> QED BY <1>0, <1>b, <1>n, <2>1, <3>2, <3>3 DEF ReceiveInv, Changing
  <2> QED BY <2>2, <2>3
<1>9. CASE EndClear
  <2>1. rxHead' = rxTail /\ rxTail' = rxTail /\ promised' = 0 /\ pc' = "idle"
    BY <1>9 DEF EndClear, EndClearsReceived
  <2>2. RxCount' \in Nat
    BY <1>a, <1>c, <2>1, RxRing
  <2> QED
    BY <2>1, <2>2 DEF ReceiveInv, Changing
<1>10. CASE FlushUdrie \/ FlushTxc \/ WriteUdr \/ WriteTxc \/ WriteWait \/ WriteStore
  BY <1>1, <1>10 DEF Changing, FlushUdrie, FlushTxc, WriteUdr, WriteTxc, WriteWait, WriteStore
<1>11. CASE FlushDone
  BY <1>0, <1>11, <1>b, <1>n DEF ReceiveInv, ChangeInv, Changing, FlushDone
<1>12. CASE WriteCommit \/ WriteEnable
  BY <1>1, <1>12 DEF Changing, WriteCommit, WriteEnable
<1>13. CASE ReadLoad
  BY <1>0, <1>13, <1>b, <1>n DEF ReceiveInv, Changing, ReadLoad
<1>14. CASE ReadAdvance
  <2>1. /\ rxHead # rxTail /\ "RXCIE" \in ucsrb' /\ pc' = "idle" /\ rxHead' = rxHead
        /\ promised <= n
    BY <1>0, <1>14, <1>n DEF ReceiveInv, ReadAdvance
  <2>2. CASE call = "read"
    <3>1. rxTail' = RxSucc(rxTail) /\ promised' = IF promised = 0 THEN 0 ELSE promised - 1
      BY <1>14, <2>2 DEF ReadAdvance
    <3>2. RxSucc(rxTail) \in RxSlot /\ Fill(RxBufSize, rxHead, RxSucc(rxTail)) = n - 1
      BY <1>a, <2>1, RxRing
    <3>3. RxCount' = n - 1 /\ n - 1 \in Nat
      BY <1>a, <1>c, <2>1, <3>1, <3>2, RxRing
    <3>4. promised' <= RxCount'
      BY <1>a, <2>1, <3>1, <3>3
    <3> QED BY <2>1, <3>4 DEF ReceiveInv, Changing
  <2>3. CASE call # "read"
    <3>1. rxTail' = rxTail /\ promised' = promised
      BY <1>14, <2>3 DEF ReadAdvance
    <3> QED BY <1>b, <2>1, <3>1 DEF ReceiveInv, Changing
  <2> QED BY <2>2, <2>3
<1>15. CASE UdreInterrupt \/ FlushPoll \/ WritePoll \/ Transmitter \/ Receiver
  BY <1>1, <1>15, Zenon DEF UdreInterrupt, FlushPoll, WritePoll, IrqTake, Transmitter, LoadShift,
     FinishShift, Receiver, RxArrive
<1>16. CASE Irq
  <2>1. ("RXCIE" \in ucsrb' <=> "RXCIE" \in ucsrb) /\ UNCHANGED <<rxHead, rxTail, promised, pc, call, idx>>
    BY <1>16 DEF Irq, IrqWriteUdr, IrqClearTxc, IrqCheck
  <2> QED BY <1>1, <2>1
<1>17. CASE RxCompleteInterrupt
  <2>1. UNCHANGED <<rxTail, promised, pc, call, idx, ucsrb>> /\ "RXCIE" \in ucsrb
    BY <1>17 DEF RxCompleteInterrupt
  <2>2. CASE rxHead' = rxHead
    BY <1>1, <2>1, <2>2
  <2>3. CASE rxHead' # rxHead
    <3>1. rxHead' = RxSucc(rxHead) /\ RxSucc(rxHead) # rxTail
      BY <1>17, <2>3 DEF RxCompleteInterrupt, RxHasRoom
    <3>2. RxCount' = n + 1
      BY <1>a, <1>c, <2>1, <3>1, RxRing
    <3>3. promised' <= RxCount'
      BY <1>0, <1>a, <1>n, <2>1, <3>2 DEF ReceiveInv
    <3> QED BY <1>0, <2>1, <3>1, <3>3 DEF ReceiveInv, Changing
  <2> QED BY <2>2, <2>3
<1> QED
  BY <1>2, <1>3, <1>4, <1>5, <1>6, <1>7, <1>8, <1>9, <1>10, <1>11, <1>12, <1>13, <1>14, <1>15,
     <1>16, <1>17 DEF Next, Calls, Continue

(* The types of the locals follow. *)
LEMMA TypeKept ==
  ASSUME IInv, Next, RoomInv', ChangeInv', TxTypes', CallTypes'
  PROVE  LocalTypes'
<1>1. TxSucc(txHead)' \in TxSlot
  BY TxRing DEF TxTypes, TxSucc
<1> QED
  BY <1>1 DEF LocalTypes, RoomInv, ChangeInv, CallTypes

-----------------------------------------------------------------------------
LEMMA Initially == Init => IInv
<1> SUFFICES ASSUME Init PROVE IInv
  OBVIOUS
<1>1. TxTypes
  BY Sizes DEF Init, TxTypes, TxSlot
<1>2. RxTypes
  BY Sizes DEF Init, RxTypes, RxSlot, FifoSize
<1>3. CallTypes /\ LocalTypes
  BY DEF Init, CallTypes, LocalTypes, Labels, Functions
<1>4. FlagTypes
  BY Zenon DEF Init, FlagTypes
<1>5. TxCount = 0 /\ RxCount = 0
  <2>1. txHead = 0 /\ txTail = 0 /\ rxHead = 0 /\ rxTail = 0 /\ 0 \in TxSlot /\ 0 \in RxSlot
    BY Sizes DEF Init, TxSlot, RxSlot
  <2>2. TxCount = Fill(TxBufSize, txHead, txTail)
    BY DEF TxCount, Fill, Wrap
  <2>3. RxCount = Fill(RxBufSize, rxHead, rxTail)
    BY <2>1, RxFill DEF RxCount
  <2> QED BY <2>1, <2>2, <2>3, TxRing, RxRing
<1>6. HandlerInv /\ QuietInv /\ ChangeInv
  BY DEF Init, HandlerInv, QuietInv, Quiet, Writing, ChangeInv, Changing
<1>7. RoomInv /\ ReceiveInv
  BY <1>5, Sizes DEF Init, RoomInv, ReceiveInv, Changing
<1> QED
  BY <1>1, <1>2, <1>3, <1>4, <1>6, <1>7, TypeParts DEF IInv

LEMMA StepKeeps ==
  ASSUME IInv, [Next]_vars, BeginsClosed
  PROVE  IInv'
<1>1. CASE Next
  <2>1. TxTypes' /\ RxTypes' /\ CallTypes' /\ FlagTypes'
    BY <1>1, TxTypesKept, RxTypesKept, CallTypesKept, FlagTypesKept
  <2>2. HandlerInv' /\ QuietInv' /\ RoomInv' /\ ChangeInv' /\ ReceiveInv'
    BY <1>1, HandlerKept, QuietKept, RoomInvKept, ChangeKept, ReceiveKept
  <2>3. LocalTypes'
    BY <1>1, <2>1, <2>2, TypeKept
  <2>4. TypeOK'
    BY <2>1, <2>3, Zenon DEF TypeOK, TxTypes, RxTypes, CallTypes, FlagTypes, LocalTypes
  <2> QED
    BY <2>2, <2>4 DEF IInv
<1>2. CASE UNCHANGED vars
  <2>1. TypeOK'
    BY <1>2 DEF IInv, TypeOK, vars, tx, rx, usart, handler, locals
  <2>2. HandlerInv' /\ QuietInv' /\ ChangeInv'
    BY <1>2, Zenon DEF IInv, HandlerInv, QuietInv, Quiet, Writing, ChangeInv, Changing, vars, tx,
       usart, handler, locals
  <2>3. RoomInv' /\ ReceiveInv'
    BY <1>2, Zenon DEF IInv, RoomInv, ReceiveInv, Changing, TxCount, RxCount, TxSucc, vars, tx, rx,
       locals
  <2> QED
    BY <2>1, <2>2, <2>3 DEF IInv
<1> QED
  BY <1>1, <1>2

LEMMA Invariant == BeginsClosed => (Spec => []IInv)
<1> SUFFICES ASSUME BeginsClosed PROVE Spec => []IInv
  OBVIOUS
<1>1. Init => IInv
  BY Initially
<1>2. IInv /\ [Next]_vars => IInv'
  BY StepKeeps
<1> QED
  BY <1>1, <1>2, PTL DEF Spec

(* What availableForWrite(), flush() and the interrupt enable tell is true *)
(* (HardwareSerial.cpp 89-118, 191-270): the room reported is there, flush *)
(* returns when all has left, and the handler is enabled exactly when it   *)
(* has a byte to take; the indices stay in their rings.                    *)
THEOREM TransmitterTold == BeginsClosed => (Spec => []ToldTrue)
<1>1. IInv => ToldTrue
  <2> SUFFICES ASSUME IInv PROVE ToldTrue
    OBVIOUS
  <2>1. UdrieMeansData /\ DataMeansUdrie
    BY Zenon DEF IInv, HandlerInv, UdrieMeansData, DataMeansUdrie
  <2>2. RoomKept
    BY Zenon DEF IInv, RoomInv, RoomKept
  <2>3. FlushMeansSent
    <3> SUFFICES ASSUME pc = "flush_done" PROVE UnderWay = <<>>
      BY DEF FlushMeansSent
    <3>1. Quiet /\ txHead \in TxSlot /\ txTail \in TxSlot
      BY TypeParts DEF IInv, QuietInv, TxTypes
    <3>2. TxQueue = <<>>
      <4>1. TxCount = 0
        BY <3>1, TxRing DEF Quiet, TxCount, Fill, Wrap
      <4> QED BY <4>1 DEF TxQueue
    <3> QED
      BY <3>1, <3>2 DEF UnderWay, One, Quiet
  <2> QED
    BY <2>1, <2>2, <2>3 DEF IInv, ToldTrue
<1> QED
  BY <1>1, Invariant, PTL

(* available() is not taken back by the receive interrupt, and end()       *)
(* leaves nothing to read although that interrupt runs until RXCIE is off  *)
(* (HardwareSerial.cpp 152-189).                                           *)
THEOREM ReceiverTold == BeginsClosed => (Spec => []ReceivedTrue)
<1>1. IInv => ReceivedTrue
  BY DEF IInv, ReceiveInv, Changing, ReceivedTrue, AvailableKept, EndLeavesNothing
<1> QED
  BY <1>1, Invariant, PTL
-----------------------------------------------------------------------------
(* The receive ring implements the queue of RxQueue *)

(* The receive interrupt stores behind what is there. *)
LEMMA RxStoreAppends ==
  ASSUME RxBufSize \in Nat \ {0}, rxBuf \in [0..(RxBufSize - 1) -> RxByte \cup {None}],
         rxHead \in 0..(RxBufSize - 1), rxTail \in 0..(RxBufSize - 1),
         NEW d \in RxByte, rxBuf'[rxHead] = d,
         \A i \in 0..(RxBufSize - 1) : i # rxHead => rxBuf'[i] = rxBuf[i],
         rxHead' = Wrap(RxBufSize, rxHead + 1), rxHead' # rxTail
  PROVE  Contents(rxBuf', RxBufSize, rxHead', rxTail)
           = Append(Contents(rxBuf, RxBufSize, rxHead, rxTail), d)
  BY ContentsStore

LEMMA RxStoredIsRing ==
  ASSUME IInv, IInv'
  PROVE  /\ RxStored = Contents(rxBuf, RxBufSize, rxHead, rxTail)
         /\ RxStored' = Contents(rxBuf', RxBufSize, rxHead', rxTail')
<1>1. /\ rxHead \in RxSlot /\ rxTail \in RxSlot
      /\ rxHead' \in RxSlot /\ rxTail' \in RxSlot
  BY TypeParts DEF IInv, TypeOK, RxTypes
<1>2. RxCount = Fill(RxBufSize, rxHead, rxTail) /\ RxCount' = Fill(RxBufSize, rxHead', rxTail')
  BY <1>1, RxFill DEF RxCount
<1> QED
  BY <1>2 DEF RxStored, Contents, Wrap

(* read() between its two accesses: the byte it loaded is still the oldest. *)
Loaded == pc = "read_advance" => reg = rxBuf[rxTail]

LEMMA LoadedKept ==
  ASSUME IInv, Loaded, [Next]_vars
  PROVE  Loaded'
<1> USE DEF tx, rx, usart, handler, locals, At, Enter, Goto, Return
<1>1. CASE UNCHANGED <<pc, reg, rxBuf, rxTail>>
  BY <1>1 DEF Loaded
<1>2. CASE pc' # "read_advance"
  BY <1>2 DEF Loaded
<1>3. CASE ReadLoad
  BY <1>3 DEF Loaded, ReadLoad
<1>4. CASE RxCompleteInterrupt
  <2>1. pc = "read_advance" => rxHead # rxTail
    BY DEF IInv, ReceiveInv
  <2>2. rxBuf \in [RxSlot -> RxByte \cup {None}] /\ rxHead \in RxSlot /\ rxTail \in RxSlot
    BY DEF IInv, TypeOK
  <2> QED
    BY <1>4, <2>1, <2>2 DEF Loaded, RxCompleteInterrupt
<1>5. CASE Begin \/ Flush("flush") \/ Flush("end") \/ Read("read") \/ Read("peek")
  BY <1>2, <1>5 DEF Begin, Flush, Read
<1>6. CASE \E c \in TxByte : Write(c)
  BY <1>2, <1>6 DEF Write
<1>7. CASE \/ RmwLoad \/ RmwStore \/ EndClear \/ FlushUdrie \/ FlushTxc \/ FlushDone
           \/ WriteUdr \/ WriteTxc
  BY <1>2, <1>7 DEF RmwLoad, RmwStore, EndClear, FlushUdrie, FlushTxc, FlushDone, WriteUdr, WriteTxc
<1>8. CASE WriteWait \/ WriteStore \/ WriteCommit \/ WriteEnable \/ ReadAdvance
  BY <1>2, <1>8 DEF WriteWait, WriteStore, WriteCommit, WriteEnable, ReadAdvance
<1>9. CASE \/ AvailableForWrite \/ Available \/ FlushPoll \/ WritePoll \/ UdreInterrupt
           \/ \E i \in BOOLEAN : SetInterrupts(i)
  BY <1>1, <1>9, Zenon DEF AvailableForWrite, Available, FlushPoll, WritePoll, UdreInterrupt,
     SetInterrupts
<1>10. CASE Irq \/ Transmitter \/ Receiver \/ UNCHANGED vars
  BY <1>1, <1>10, Zenon DEF Irq, IrqWriteUdr, IrqClearTxc, IrqCheck, Transmitter, LoadShift,
     FinishShift, Receiver, RxArrive, vars
<1> QED
  BY <1>3, <1>4, <1>5, <1>6, <1>7, <1>8, <1>9, <1>10 DEF Next, Calls, Continue

LEMMA NextIsQueueStep ==
  ASSUME IInv, IInv', Loaded, [Next]_vars
  PROVE  [Queue!QNext]_Queue!qvars
<1> USE DEF tx, rx, usart, handler, locals, At, Enter, Goto, Return
<1>1. /\ RxBufSize \in Nat \ {0} /\ RxBufSize >= 2
      /\ rxHead \in 0..(RxBufSize - 1) /\ rxTail \in 0..(RxBufSize - 1)
      /\ rxBuf \in [0..(RxBufSize - 1) -> RxByte \cup {None}]
  BY Sizes DEF IInv, TypeOK, RxSlot
<1>2. ASSUME UNCHANGED <<rx, got>> PROVE UNCHANGED Queue!qvars
  BY <1>2, RxStoredIsRing DEF Queue!qvars
<1>3. CASE EndClear
  <2>1. rxBuf' = rxBuf /\ rxHead' = rxTail /\ rxTail' = rxTail /\ got' = got
    BY <1>3 DEF EndClear, EndClearsReceived
  <2>2. RxStored' = <<>>
    BY <1>1, <2>1, ContentsEmpty, RxStoredIsRing
  <2> QED
    BY <2>1, <2>2 DEF Queue!QNext, Queue!Discard
<1>4. CASE ReadAdvance
  <2>1. CASE call = "read"
    <3>1. /\ rxBuf' = rxBuf /\ rxHead' = rxHead /\ rxTail' = Wrap(RxBufSize, rxTail + 1)
          /\ got' = rxBuf[rxTail] /\ rxHead # rxTail
      BY <1>4, <2>1 DEF IInv, ReceiveInv, Loaded, ReadAdvance, RxSucc, Wrap
    <3>2. RxStored # <<>> /\ got' = Head(RxStored) /\ RxStored' = Tail(RxStored)
      BY <1>1, <3>1, ContentsRead, RxStoredIsRing
    <3> QED
      BY <3>2 DEF Queue!QNext, Queue!Get
  <2>2. CASE call # "read"
    BY <1>2, <1>4, <2>2 DEF ReadAdvance
  <2> QED
    BY <2>1, <2>2
<1>5. CASE RxCompleteInterrupt
  <2>1. CASE Head(rxFifo) # BadParity /\ RxHasRoom
    <3> DEFINE d == Head(rxFifo)
    <3>1. d \in RxByte
      <4>1. rxFifo \in Seq(RxByte \cup {BadParity}) /\ rxFifo # <<>>
        BY <1>5 DEF IInv, TypeOK, RxCompleteInterrupt
      <4>2. Head(rxFifo) \in RxByte \cup {BadParity}
        BY <4>1
      <4> QED
        BY <2>1, <4>2
    <3>2. /\ rxBuf' = [rxBuf EXCEPT ![rxHead] = d]
          /\ rxHead' = Wrap(RxBufSize, rxHead + 1) /\ rxTail' = rxTail /\ got' = got
          /\ Wrap(RxBufSize, rxHead + 1) # rxTail
      BY <1>5, <2>1 DEF RxCompleteInterrupt, RxHasRoom, RxSucc, Wrap
    <3> HIDE DEF d
    <3>3. rxBuf'[rxHead] = d /\ \A i \in 0..(RxBufSize - 1) : i # rxHead => rxBuf'[i] = rxBuf[i]
      BY <1>1, <3>2
    <3>4. Contents(rxBuf', RxBufSize, rxHead', rxTail)
            = Append(Contents(rxBuf, RxBufSize, rxHead, rxTail), d)
      <4>1. rxHead' = Wrap(RxBufSize, rxHead + 1) /\ rxHead' # rxTail
        BY <3>2
      <4> QED
        BY <1>1, <3>1, <3>3, <4>1, RxStoreAppends
    <3>5. RxStored' = Append(RxStored, d)
      BY <3>2, <3>4, RxStoredIsRing
    <3>6. Len(RxStored) < RxBufSize - 1
      <4>1. Len(RxStored) = Fill(RxBufSize, rxHead, rxTail)
        BY <1>1, ContentsSeq, RxStoredIsRing
      <4>2. Fill(RxBufSize, rxHead, rxTail)
              = IF rxHead >= rxTail THEN rxHead - rxTail ELSE rxHead + RxBufSize - rxTail
        BY <1>1, FillCases
      <4>3. Wrap(RxBufSize, rxHead + 1) = IF rxHead + 1 = RxBufSize THEN 0 ELSE rxHead + 1
        BY <1>1, NextSlot
      <4> QED
        BY <1>1, <3>2, <4>1, <4>2, <4>3
    <3> QED
      BY <3>1, <3>2, <3>5, <3>6 DEF Queue!QNext, Queue!Put
  <2>2. CASE ~(Head(rxFifo) # BadParity /\ RxHasRoom)
    BY <1>2, <1>5, <2>2 DEF RxCompleteInterrupt
  <2> QED
    BY <2>1, <2>2
<1>6. CASE Calls
  BY <1>2, <1>6, Zenon DEF Calls, Begin, Flush, Write, AvailableForWrite, Available, Read,
     SetInterrupts
<1>7. CASE \/ RmwLoad \/ RmwStore \/ FlushUdrie \/ FlushTxc \/ FlushPoll \/ FlushDone
           \/ WriteUdr \/ WriteTxc \/ WriteWait \/ WritePoll
  BY <1>2, <1>7, Zenon DEF RmwLoad, RmwStore, FlushUdrie, FlushTxc, FlushPoll, FlushDone,
     WriteUdr, WriteTxc, WriteWait, WritePoll
<1>8. CASE WriteStore \/ WriteCommit \/ WriteEnable \/ ReadLoad
  BY <1>2, <1>8, Zenon DEF WriteStore, WriteCommit, WriteEnable, ReadLoad
<1>9. CASE UdreInterrupt \/ Irq \/ Transmitter \/ Receiver \/ UNCHANGED vars
  BY <1>2, <1>9, Zenon DEF UdreInterrupt, Irq, IrqWriteUdr, IrqClearTxc, IrqCheck, Transmitter,
     LoadShift, FinishShift, Receiver, RxArrive, vars
<1> QED
  BY <1>3, <1>4, <1>5, <1>6, <1>7, <1>8, <1>9 DEF Next, Continue

(* read() hands out what the receive interrupt stored, oldest first, each  *)
(* byte once, although the two share nothing but the ring and its indices  *)
(* and the interrupt may come between any two accesses of read(); only     *)
(* end() gives bytes up (HardwareSerial.cpp 160-189,                       *)
(* HardwareSerial_private.h 101-121).                                      *)
THEOREM ReceiveRingIsQueue == BeginsClosed => (Spec => ImplementsQueue)
<1> SUFFICES ASSUME BeginsClosed PROVE Spec => ImplementsQueue
  OBVIOUS
<1>1. Init => Queue!QInit /\ Loaded
  <2> SUFFICES ASSUME Init PROVE Queue!QInit /\ Loaded
    OBVIOUS
  <2>1. 0 \in RxSlot /\ rxHead = 0 /\ rxTail = 0 /\ RxBufSize \in Nat \ {0}
    BY Sizes DEF Init, RxSlot
  <2>2. RxCount = 0
    BY <2>1, RxFill, RxRing DEF RxCount
  <2>3. RxStored = <<>>
    BY <2>2 DEF RxStored
  <2> QED
    BY <2>3 DEF Init, Queue!QInit, Loaded
<1>2. IInv /\ Loaded /\ [Next]_vars => Loaded'
  BY LoadedKept
<1>3. IInv /\ IInv' /\ Loaded /\ [Next]_vars => [Queue!QNext]_Queue!qvars
  BY NextIsQueueStep
<1>4. Spec => []IInv
  BY Invariant
<1> QED
  BY <1>1, <1>2, <1>3, <1>4, PTL DEF Spec, ImplementsQueue, Queue!QSpec

-----------------------------------------------------------------------------
(* The transmitter implements the channel of TxChannel *)

(* A ring does not hold the slot that is stored to next. *)
LEMMA ContentsSame ==
  ASSUME NEW size \in Nat \ {0}, NEW in \in 0..(size - 1), NEW out \in 0..(size - 1),
         NEW buf, NEW buf2, \A i \in 0..(size - 1) : i # in => buf2[i] = buf[i]
  PROVE  Contents(buf2, size, in, out) = Contents(buf, size, in, out)
<1> DEFINE n == Fill(size, in, out)
<1>1. n \in 0..(size - 1) /\ n = IF in >= out THEN in - out ELSE in + size - out
  BY FillCases
<1>2. ASSUME NEW k \in 1..n
      PROVE  buf2[Wrap(size, out + k - 1)] = buf[Wrap(size, out + k - 1)]
  <2> DEFINE x == out + k - 1
  <2>1. x \in 0..(2 * size - 1)
    BY ContentsAt
  <2> HIDE DEF n
  <2>2. k \in Int /\ 1 <= k /\ k <= n
    BY <1>1
  <2>3. x < size => x # in
    BY <1>1, <2>2
  <2>4. x >= size => x - size # in
    BY <1>1, <2>2
  <2> HIDE DEF x
  <2>5. Wrap(size, x) \in 0..(size - 1) /\ Wrap(size, x) # in
    BY <2>1, <2>3, <2>4, WrapCases
  <2> QED
    BY <2>5 DEF x
<1> QED
  BY <1>2 DEF Contents

(* What concatenation does at the places a byte passes. *)
LEMMA Joins ==
  ASSUME NEW S, NEW a \in S, NEW f \in Seq(S), NEW q \in Seq(S)
  PROVE  /\ <<>> \o q = q /\ q \o <<>> = q
         /\ f \o Append(q, a) = Append(f \o q, a)
         /\ q # <<>> => (f \o <<Head(q)>>) \o Tail(q) = f \o q
         /\ <<a>> \o f # <<>> /\ Head(<<a>> \o f) = a /\ Tail(<<a>> \o f) = f
<1>1. <<a>> \in Seq(S) /\ Len(<<a>>) = 1 /\ <<a>>[1] = a
  OBVIOUS
<1>2. <<>> \o q = q /\ q \o <<>> = q
  BY ConcatEmptySeq
<1>3. f \o Append(q, a) = Append(f \o q, a)
  <2>1. Append(q, a) = q \o <<a>> /\ f \o q \in Seq(S)
    BY AppendIsConcat, ConcatProperties
  <2>2. Append(f \o q, a) = (f \o q) \o <<a>>
    BY <2>1, AppendIsConcat
  <2>3. (f \o q) \o <<a>> = f \o (q \o <<a>>)
    BY <1>1, ConcatAssociative
  <2> QED BY <2>1, <2>2, <2>3
<1>4. /\ <<a>> \o f \in Seq(S) /\ Len(<<a>> \o f) = 1 + Len(f)
      /\ (<<a>> \o f)[1] = a
      /\ \A i \in 1..Len(f) : (<<a>> \o f)[i + 1] = f[i]
  <2>1. Len(f) \in Nat
    OBVIOUS
  <2>2. /\ <<a>> \o f \in Seq(S) /\ Len(<<a>> \o f) = Len(<<a>>) + Len(f)
        /\ \A i \in 1..(Len(<<a>>) + Len(f)) :
             (<<a>> \o f)[i] = IF i <= Len(<<a>>) THEN <<a>>[i] ELSE f[i - Len(<<a>>)]
    BY <1>1, ConcatProperties
  <2>3. \A i \in 1..(1 + Len(f)) :
             (<<a>> \o f)[i] = IF i <= 1 THEN a ELSE f[i - 1]
    BY <1>1, <2>2
  <2> QED BY <1>1, <2>1, <2>2, <2>3
<1>5. <<a>> \o f # <<>> /\ Head(<<a>> \o f) = a
  BY <1>4, EmptySeq
<1>6. Tail(<<a>> \o f) = f
  <2> DEFINE c == <<a>> \o f
  <2>1. c \in Seq(S) /\ c # <<>> /\ Len(c) = 1 + Len(f) /\ \A i \in 1..Len(f) : c[i + 1] = f[i]
    BY <1>4, <1>5
  <2> HIDE DEF c
  <2>2. /\ Tail(c) \in Seq(S) /\ Len(Tail(c)) = Len(c) - 1
        /\ \A i \in 1..(Len(c) - 1) : Tail(c)[i] = c[i + 1]
    BY <2>1, HeadTailProperties
  <2>3. Len(Tail(c)) = Len(f) /\ \A i \in 1..Len(f) : Tail(c)[i] = f[i]
    BY <2>1, <2>2
  <2>4. Tail(c) = f
    BY <2>2, <2>3, SeqEqual
  <2> QED BY <2>4 DEF c
<1>7. q # <<>> => (f \o <<Head(q)>>) \o Tail(q) = f \o q
  <2> SUFFICES ASSUME q # <<>> PROVE (f \o <<Head(q)>>) \o Tail(q) = f \o q
    OBVIOUS
  <2> DEFINE h == Head(q)
             t == Tail(q)
             c == <<h>> \o t
  <2>1. h \in S /\ t \in Seq(S) /\ Len(t) = Len(q) - 1 /\ h = q[1]
        /\ \A i \in 1..(Len(q) - 1) : t[i] = q[i + 1]
    BY HeadTailProperties
  <2>2. <<h>> \in Seq(S) /\ Len(<<h>>) = 1 /\ <<h>>[1] = h
    BY <2>1
  <2> HIDE DEF h, t
  <2>3. /\ c \in Seq(S) /\ Len(c) = Len(<<h>>) + Len(t)
        /\ \A i \in 1..(Len(<<h>>) + Len(t)) :
             c[i] = IF i <= Len(<<h>>) THEN <<h>>[i] ELSE t[i - Len(<<h>>)]
    BY <2>1, <2>2, ConcatProperties
  <2> HIDE DEF c
  <2>4. Len(c) = Len(q) /\ \A i \in 1..Len(q) : c[i] = q[i]
    BY <2>1, <2>2, <2>3
  <2>5. c = q
    BY <2>3, <2>4, SeqEqual
  <2>6. (f \o <<h>>) \o t = f \o c
    BY <2>1, <2>2, ConcatAssociative DEF c
  <2> QED BY <2>5, <2>6 DEF h, t
<1> QED
  BY <1>2, <1>3, <1>5, <1>6, <1>7

(* The oldest byte of the ring passes to what stands before it. *)
LEMMA HeadPasses ==
  ASSUME NEW f \in Seq(TxByte), NEW q \in Seq(TxByte), q # <<>>
  PROVE  (f \o <<Head(q)>>) \o Tail(q) = f \o q
BY HeadTailProperties, Joins

(* How the ring moves. *)
LEMMA TxQueueMoves ==
  ASSUME IInv, IInv'
  PROVE  /\ UNCHANGED tx => TxQueue' = TxQueue
         /\ WriteStore => TxQueue' = TxQueue
         /\ WriteCommit => TxQueue' = Append(TxQueue, txBuf[txHead])
         /\ IrqTake /\ txHead # txTail
              => /\ TxQueue # <<>> /\ irqByte' = Head(TxQueue)
                 /\ TxQueue' = Tail(TxQueue)
<1>1. /\ TxBufSize \in Nat \ {0} /\ txBuf \in [0..(TxBufSize - 1) -> TxByte \cup {None}]
      /\ txHead \in 0..(TxBufSize - 1) /\ txTail \in 0..(TxBufSize - 1)
  BY Sizes DEF IInv, TypeOK, TxSlot
<1>2. /\ TxQueue = Contents(txBuf, TxBufSize, txHead, txTail)
      /\ TxQueue' = Contents(txBuf', TxBufSize, txHead', txTail')
  BY DEF TxQueue, TxCount, Contents, Fill, Wrap
<1>3. UNCHANGED tx => TxQueue' = TxQueue
  BY <1>2 DEF tx
<1>4. ASSUME WriteStore PROVE TxQueue' = TxQueue
  <2>1. /\ txHead' = txHead /\ txTail' = txTail
        /\ \A i \in 0..(TxBufSize - 1) : i # txHead => txBuf'[i] = txBuf[i]
    BY <1>1, <1>4 DEF WriteStore
  <2>2. Contents(txBuf', TxBufSize, txHead, txTail) = Contents(txBuf, TxBufSize, txHead, txTail)
    BY <1>1, <2>1, ContentsSame
  <2> QED BY <1>2, <2>1, <2>2
<1>5. ASSUME WriteCommit PROVE TxQueue' = Append(TxQueue, txBuf[txHead])
  <2>1. /\ txBuf' = txBuf /\ txTail' = txTail
        /\ txHead' = Wrap(TxBufSize, txHead + 1) /\ txHead' # txTail
    BY <1>5 DEF IInv, RoomInv, WriteCommit, At, TxSucc, Wrap
  <2>2. Contents(txBuf, TxBufSize, txHead', txTail)
          = Append(Contents(txBuf, TxBufSize, txHead, txTail), txBuf[txHead])
    <3>1. /\ TxBufSize \in Nat \ {0}
          /\ txHead \in 0..(TxBufSize - 1) /\ txTail \in 0..(TxBufSize - 1)
      BY <1>1
    <3>2. \A i \in 0..(TxBufSize - 1) : i # txHead => txBuf[i] = txBuf[i]
      OBVIOUS
    <3> QED BY <2>1, <3>1, <3>2, ContentsStore
  <2> QED BY <1>2, <2>1, <2>2
<1>6. ASSUME IrqTake, txHead # txTail
      PROVE  /\ TxQueue # <<>> /\ irqByte' = Head(TxQueue)
             /\ TxQueue' = Tail(TxQueue)
  <2>1. /\ txBuf' = txBuf /\ txHead' = txHead /\ txTail' = Wrap(TxBufSize, txTail + 1)
        /\ irqByte' = txBuf[txTail]
    BY <1>6 DEF IrqTake, TxSucc, Wrap
  <2> QED BY <1>1, <1>2, <1>6, <2>1, ContentsRead
<1> QED
  BY <1>3, <1>4, <1>5, <1>6

(* Only bytes are under way. *)
ChannelInv ==
  /\ TxQueue \in Seq(TxByte)
  /\ pc = "write_commit" => txBuf[txHead] \in TxByte
  /\ irq = "udr" => irqByte \in TxByte

(* The steps that do not take a byte from the ring or put one in it. *)
RingKept ==
  /\ UNCHANGED tx
  /\ pc' = "write_commit" => UNCHANGED pc
  /\ irq' = "udr" => UNCHANGED handler

LEMMA StepMovesRing ==
  ASSUME Next
  PROVE  \/ RingKept \/ WriteStore \/ WriteCommit
         \/ UdreInterrupt \/ FlushPoll \/ WritePoll
<1> USE DEF At, Enter, Goto, Return, RingKept
<1>1. CASE \/ Begin \/ Flush("flush") \/ Flush("end") \/ Read("read") \/ Read("peek")
           \/ \E c \in TxByte : Write(c)
  BY <1>1 DEF Begin, Flush, Write, Read
<1>2. CASE \/ RmwLoad \/ RmwStore \/ EndClear \/ FlushUdrie \/ FlushTxc \/ FlushDone
           \/ WriteUdr \/ WriteTxc
  BY <1>2 DEF RmwLoad, RmwStore, EndClear, FlushUdrie, FlushTxc, FlushDone, WriteUdr, WriteTxc
<1>3. CASE WriteWait \/ WriteEnable \/ ReadLoad \/ ReadAdvance
  BY <1>3 DEF WriteWait, WriteEnable, ReadLoad, ReadAdvance, tx
<1>4. CASE Irq
  BY <1>4 DEF Irq, IrqWriteUdr, IrqClearTxc, IrqCheck
<1>5. CASE \/ Transmitter \/ Receiver \/ RxCompleteInterrupt \/ AvailableForWrite \/ Available
           \/ \E i \in BOOLEAN : SetInterrupts(i)
  BY <1>5, Zenon DEF Transmitter, LoadShift, FinishShift, Receiver, RxArrive, RxCompleteInterrupt,
     AvailableForWrite, Available, SetInterrupts
<1> QED
  BY <1>1, <1>2, <1>3, <1>4, <1>5, Zenon DEF Next, Calls, Continue

(* Whoever calls the handler, it finds a byte and a free UDR. *)
LEMMA TakesOne ==
  ASSUME IInv, UdreInterrupt \/ FlushPoll \/ WritePoll
  PROVE  /\ IrqTake /\ txHead # txTail /\ irq = "off"
         /\ UNCHANGED <<pc, txBuf, txHead, shift, udr, sent>>
<1> USE DEF At, usart
<1>1. CASE UdreInterrupt
  BY <1>1 DEF IInv, HandlerInv, UdreInterrupt, IrqTake
<1>2. CASE FlushPoll
  BY <1>2 DEF IInv, HandlerInv, FlushPoll, IrqTake
<1>3. CASE WritePoll
  <2>1. idx = TxSucc(txHead) /\ TxSucc(txHead) # txHead
    BY <1>3, TypeParts, TxRing DEF IInv, TxTypes, RoomInv, WritePoll
  <2> QED BY <1>3, <2>1 DEF WritePoll, IrqTake
<1> QED
  BY <1>1, <1>2, <1>3

LEMMA ChannelKept ==
  ASSUME IInv, IInv', ChannelInv, [Next]_vars
  PROVE  ChannelInv'
<1> USE DEF At, Enter, Goto, Return
<1>1. CASE RingKept
  <2>1. TxQueue' = TxQueue /\ txBuf' = txBuf /\ txHead' = txHead
    BY <1>1, TxQueueMoves DEF RingKept, tx
  <2> QED
    BY <1>1, <2>1 DEF ChannelInv, RingKept, handler
<1>2. CASE WriteStore
  <2>1. TxQueue' = TxQueue
    BY <1>2, TxQueueMoves
  <2>2. /\ txBuf' = [txBuf EXCEPT ![txHead] = arg] /\ txHead' = txHead /\ arg \in TxByte
        /\ txBuf \in [TxSlot -> TxByte \cup {None}] /\ txHead \in TxSlot
        /\ irq' = irq /\ irqByte' = irqByte
    BY <1>2 DEF IInv, TypeOK, RoomInv, WriteStore, handler
  <2> QED
    BY <2>1, <2>2 DEF ChannelInv
<1>3. CASE WriteCommit
  <2>1. TxQueue' = Append(TxQueue, txBuf[txHead]) /\ txBuf[txHead] \in TxByte
    BY <1>3, TxQueueMoves DEF ChannelInv, WriteCommit
  <2>2. pc' # "write_commit" /\ irq' = irq /\ irqByte' = irqByte
    BY <1>3 DEF WriteCommit, handler
  <2> QED
    BY <2>1, <2>2, AppendProperties DEF ChannelInv
<1>4. CASE UdreInterrupt \/ FlushPoll \/ WritePoll
  <2>1. IrqTake /\ txHead # txTail /\ UNCHANGED <<pc, txBuf, txHead>>
    BY <1>4, TakesOne
  <2>2. TxQueue # <<>> /\ irqByte' = Head(TxQueue) /\ TxQueue' = Tail(TxQueue)
    BY <2>1, TxQueueMoves
  <2>3. Head(TxQueue) \in TxByte /\ Tail(TxQueue) \in Seq(TxByte)
    BY <2>2, HeadTailProperties DEF ChannelInv
  <2> QED
    BY <2>1, <2>2, <2>3 DEF ChannelInv
<1>5. CASE UNCHANGED vars
  <2>1. RingKept
    BY <1>5 DEF RingKept, vars
  <2> QED BY <1>1, <2>1
<1> QED
  BY <1>1, <1>2, <1>3, <1>4, <1>5, StepMovesRing

(* What has left the ring and not the chip. *)
Taken == IF irq = "udr" THEN <<irqByte>> ELSE <<>>
Ahead == One(shift) \o One(udr) \o Taken

LEMMA AheadIsBytes ==
  ASSUME IInv, ChannelInv
  PROVE  /\ UnderWay = Ahead \o TxQueue
         /\ One(shift) \in Seq(TxByte) /\ One(udr) \in Seq(TxByte) /\ Taken \in Seq(TxByte)
         /\ One(shift) \o One(udr) \in Seq(TxByte) /\ Ahead \in Seq(TxByte)
         /\ <<>> \o One(udr) = One(udr) /\ One(shift) \o <<>> = One(shift)
         /\ Ahead \o <<>> = Ahead
         /\ (One(shift) \o One(udr)) \o <<>> = One(shift) \o One(udr)
<1>1. One(shift) \in Seq(TxByte) /\ One(udr) \in Seq(TxByte) /\ Taken \in Seq(TxByte)
  BY DEF IInv, TypeOK, ChannelInv, One, Taken
<1>2. One(shift) \o One(udr) \in Seq(TxByte)
  BY <1>1, ConcatProperties
<1>3. Ahead \in Seq(TxByte)
  BY <1>1, <1>2, ConcatProperties DEF Ahead
<1> QED
  BY <1>1, <1>2, <1>3, ConcatEmptySeq DEF UnderWay, Ahead, Taken

LEMMA NextIsChannelStep ==
  ASSUME IInv, IInv', ChannelInv, ChannelInv', [Next]_vars
  PROVE  [Channel!TNext]_Channel!tvars
<1> USE DEF At, Enter, Goto, Return
<1>a. UnderWay = Ahead \o TxQueue /\ UnderWay' = Ahead' \o TxQueue'
  BY DEF UnderWay, Ahead, Taken
<1>1. ASSUME UNCHANGED <<shift, udr, sent, Taken, tx>>
      PROVE  UNCHANGED Channel!tvars
  <2>1. TxQueue' = TxQueue
    BY <1>1, TxQueueMoves DEF tx
  <2> QED
    BY <1>1, <1>a, <2>1 DEF Channel!tvars, Ahead, One
<1>2. ASSUME UNCHANGED <<shift, udr, sent, irq, irqByte, tx>>
      PROVE  UNCHANGED Channel!tvars
  BY <1>1, <1>2 DEF Taken
<1>3. CASE WriteStore
  <2>1. UNCHANGED <<shift, udr, sent, irq, irqByte>> /\ TxQueue' = TxQueue
    BY <1>3, TxQueueMoves DEF WriteStore, usart, handler
  <2> QED
    BY <1>a, <2>1 DEF Channel!tvars, Ahead, One, Taken
<1>4. CASE WriteCommit
  <2> DEFINE b == txBuf[txHead]
  <2>1. UNCHANGED <<shift, udr, sent, irq, irqByte>> /\ b \in TxByte /\ TxQueue' = Append(TxQueue, b)
    BY <1>4, TxQueueMoves DEF WriteCommit, usart, handler, ChannelInv
  <2>2. Ahead' = Ahead
    BY <2>1 DEF Ahead, Taken, One
  <2>3. TxQueue \in Seq(TxByte) /\ Ahead \in Seq(TxByte)
    BY AheadIsBytes DEF ChannelInv
  <2>4. UnderWay' = Append(UnderWay, b)
    BY <1>a, <2>1, <2>2, <2>3, Joins
  <2>5. Len(UnderWay) < TxBufSize + 1
    <3>1. irq = "off" /\ TxCount + 1 <= TxBufSize - 1 /\ TxCount \in Nat
      <4>1. /\ txHead \in TxSlot /\ txTail \in TxSlot /\ room \in Nat
            /\ room + TxCount + 1 <= TxBufSize - 1 /\ irq = "off"
        BY <1>4, Sizes DEF IInv, TypeOK, RoomInv, WriteCommit
      <4>2. TxCount = Fill(TxBufSize, txHead, txTail)
        BY DEF TxCount, Fill, Wrap
      <4>3. TxCount \in Nat
        BY <4>1, <4>2, TxRing
      <4> QED BY <4>1, <4>3, Sizes
    <3>2. Len(TxQueue) = TxCount
      <4>1. /\ TxBufSize \in Nat \ {0} /\ txBuf \in [0..(TxBufSize - 1) -> TxByte \cup {None}]
            /\ txHead \in 0..(TxBufSize - 1) /\ txTail \in 0..(TxBufSize - 1)
        BY Sizes DEF IInv, TypeOK, TxSlot
      <4>2. TxQueue = Contents(txBuf, TxBufSize, txHead, txTail)
        BY DEF TxQueue, TxCount, Contents, Fill, Wrap
      <4>3. \A i \in 0..(TxBufSize - 1) : txBuf[i] \in TxByte \cup {None}
        BY <4>1
      <4>4. Len(TxQueue) = Fill(TxBufSize, txHead, txTail)
        BY <4>1, <4>2, <4>3, ContentsSeq
      <4> QED BY <4>4 DEF TxCount, Fill, Wrap
    <3>3. Len(One(shift)) <= 1 /\ Len(One(udr)) <= 1 /\ Taken = <<>>
      BY <3>1 DEF One, Taken
    <3>4. Ahead = One(shift) \o One(udr)
      BY <3>3, AheadIsBytes DEF Ahead
    <3>5. Len(Ahead) = Len(One(shift)) + Len(One(udr))
      BY <3>4, AheadIsBytes, ConcatProperties
    <3>6. Len(UnderWay) = Len(Ahead) + Len(TxQueue)
      BY <1>a, <2>3, ConcatProperties
    <3>7. Len(One(shift)) \in Nat /\ Len(One(udr)) \in Nat
      BY AheadIsBytes
    <3> QED
      BY <3>1, <3>2, <3>3, <3>5, <3>6, <3>7, Sizes
  <2> QED
    BY <2>1, <2>4, <2>5 DEF Channel!TNext, Channel!Accept
<1>5. CASE UdreInterrupt \/ FlushPoll \/ WritePoll
  <2>1. IrqTake /\ txHead # txTail /\ irq = "off" /\ UNCHANGED <<shift, udr, sent>>
    BY <1>5, TakesOne
  <2>2. TxQueue # <<>> /\ irqByte' = Head(TxQueue) /\ TxQueue' = Tail(TxQueue) /\ irq' = "udr"
    BY <2>1, TxQueueMoves DEF IrqTake
  <2> DEFINE f == One(shift) \o One(udr)
  <2>3. f \in Seq(TxByte) /\ TxQueue \in Seq(TxByte) /\ Head(TxQueue) \in TxByte
    BY <2>2, AheadIsBytes, HeadTailProperties DEF ChannelInv
  <2>4. Ahead = f
    BY <2>1, AheadIsBytes DEF Ahead, Taken
  <2>5. Ahead' = f \o <<Head(TxQueue)>>
    BY <2>1, <2>2 DEF Ahead, Taken, One
  <2> HIDE DEF f
  <2>6. UnderWay' = UnderWay
    <3>1. (f \o <<Head(TxQueue)>>) \o Tail(TxQueue) = f \o TxQueue
      BY <2>2, <2>3, HeadPasses
    <3> QED
      BY <1>a, <2>2, <2>4, <2>5, <3>1
  <2> QED
    BY <2>1, <2>6 DEF Channel!tvars
<1>6. CASE IrqWriteUdr
  <2>1. /\ udr = None /\ udr' = irqByte /\ irqByte \in TxByte /\ irqByte # None
        /\ irq = "udr" /\ irq' = "txc" /\ UNCHANGED <<shift, sent, tx>>
    BY <1>6, HardwareSerialAssumption DEF IInv, QuietInv, ChannelInv, IrqWriteUdr
  <2>2. Ahead = One(shift) \o <<irqByte>> /\ One(shift)' = One(shift)
    BY <2>1, AheadIsBytes DEF Ahead, Taken, One
  <2>3. Ahead' = One(shift) \o <<irqByte>> \o <<>>
    BY <2>1 DEF Ahead, Taken, One
  <2>4. Ahead \in Seq(TxByte)
    BY AheadIsBytes
  <2>5. Ahead' = Ahead
    BY <2>2, <2>3, <2>4, ConcatEmptySeq
  <2>6. TxQueue' = TxQueue
    BY <2>1, TxQueueMoves DEF tx
  <2> QED
    BY <1>a, <2>1, <2>5, <2>6 DEF Channel!tvars
<1>7. CASE IrqClearTxc \/ IrqCheck
  <2>1. irq # "udr" /\ irq' # "udr" /\ UNCHANGED <<shift, udr, sent, tx>>
    BY <1>7 DEF IrqClearTxc, IrqCheck, usart
  <2> QED
    BY <1>1, <2>1 DEF Taken
<1>8. CASE LoadShift
  <2>1. /\ shift = None /\ shift' = udr /\ udr # None /\ udr' = None
        /\ UNCHANGED <<sent, tx, irq, irqByte>>
    BY <1>8 DEF LoadShift, handler
  <2>2. One(shift) = <<>> /\ One(udr)' = <<>> /\ One(shift)' = One(udr) /\ Taken' = Taken
    BY <2>1 DEF One, Taken
  <2>3. Ahead = One(udr) \o Taken /\ Ahead' = One(udr) \o Taken
    BY <2>2, AheadIsBytes, ConcatEmptySeq DEF Ahead
  <2>4. TxQueue' = TxQueue
    BY <2>1, TxQueueMoves DEF tx
  <2> QED
    BY <1>a, <2>1, <2>3, <2>4 DEF Channel!tvars
<1>9. CASE FinishShift
  <2>1. /\ shift # None /\ shift \in TxByte /\ sent' = shift /\ shift' = udr /\ udr' = None
        /\ UNCHANGED <<tx, irq, irqByte>>
    BY <1>9 DEF IInv, TypeOK, FinishShift, handler
  <2>2. One(shift) = <<shift>> /\ One(udr)' = <<>> /\ One(shift)' = One(udr) /\ Taken' = Taken
    BY <2>1 DEF One, Taken
  <2> DEFINE u == One(udr)
             x == Taken
             q == TxQueue
             rest == (u \o x) \o q
  <2>3. TxQueue' = TxQueue
    BY <2>1, TxQueueMoves DEF tx
  <2>4. u \in Seq(TxByte) /\ x \in Seq(TxByte) /\ q \in Seq(TxByte) /\ <<shift>> \in Seq(TxByte)
    BY <2>1, AheadIsBytes DEF ChannelInv
  <2>5. u \o x \in Seq(TxByte) /\ u \o <<>> = u
    BY <2>4, ConcatProperties, ConcatEmptySeq
  <2>6. UnderWay' = rest
    BY <1>a, <2>2, <2>3, <2>5 DEF Ahead
  <2>7. UnderWay = ((<<shift>> \o u) \o x) \o q
    BY <1>a, <2>2 DEF Ahead
  <2> HIDE DEF u, x, q
  <2>8. rest \in Seq(TxByte)
    BY <2>4, <2>5, ConcatProperties
  <2>9. UnderWay = <<shift>> \o rest
    <3>1. (<<shift>> \o u) \o x = <<shift>> \o (u \o x)
      BY <2>4, ConcatAssociative
    <3>2. (<<shift>> \o (u \o x)) \o q = <<shift>> \o ((u \o x) \o q)
      BY <2>4, <2>5, ConcatAssociative
    <3> QED BY <2>7, <3>1, <3>2
  <2> HIDE DEF rest
  <2>10. UnderWay # <<>> /\ Head(UnderWay) = shift /\ Tail(UnderWay) = rest
    BY <2>1, <2>4, <2>8, <2>9, Joins
  <2> QED
    BY <2>1, <2>6, <2>10 DEF Channel!TNext, Channel!Emit
<1>10. CASE WriteUdr
  <2>1. /\ udr = None /\ irq = "off" /\ txHead = txTail /\ arg \in TxByte /\ arg # None
        /\ udr' = arg /\ UNCHANGED <<shift, sent, tx, irq, irqByte>>
    BY <1>10, HardwareSerialAssumption DEF IInv, HandlerInv, QuietInv, RoomInv, WriteUdr, handler
  <2>2. TxQueue = <<>> /\ TxQueue' = <<>>
    <3>1. txHead \in TxSlot /\ txTail \in TxSlot
      BY DEF IInv, TypeOK
    <3>2. TxCount = 0
      BY <2>1, <3>1, TxRing DEF TxCount, Fill, Wrap
    <3>3. TxQueue = <<>>
      BY <3>2 DEF TxQueue
    <3> QED BY <2>1, <3>3, TxQueueMoves DEF tx
  <2>3. /\ One(shift)' = One(shift) /\ One(udr) = <<>> /\ One(udr)' = <<arg>>
        /\ Taken = <<>> /\ Taken' = <<>>
    BY <2>1 DEF One, Taken
  <2>4. One(shift) \in Seq(TxByte) /\ Len(One(shift)) <= 1
    BY AheadIsBytes DEF One
  <2> DEFINE s == One(shift)
  <2>5. UnderWay = s \o <<>> \o <<>> \o <<>> /\ UnderWay' = s \o <<arg>> \o <<>> \o <<>>
    BY <1>a, <2>2, <2>3 DEF Ahead
  <2> HIDE DEF s
  <2>6. s \in Seq(TxByte) /\ Len(s) <= 1
    BY <2>4 DEF s
  <2>7. UnderWay = s
    BY <2>5, <2>6, ConcatEmptySeq
  <2>8. Append(s, arg) = s \o <<arg>> /\ Append(s, arg) \in Seq(TxByte)
    BY <2>1, <2>6, AppendIsConcat, AppendProperties
  <2>9. UnderWay' = Append(UnderWay, arg)
    BY <2>5, <2>7, <2>8, ConcatEmptySeq
  <2> QED
    BY <2>1, <2>6, <2>7, <2>9, Sizes DEF Channel!TNext, Channel!Accept
<1>11. CASE Calls
  BY <1>2, <1>11, Zenon DEF Calls, Begin, Flush, Write, AvailableForWrite, Available, Read,
     SetInterrupts, usart, handler
<1>12. CASE \/ RmwLoad \/ RmwStore \/ EndClear \/ FlushUdrie \/ FlushTxc \/ FlushDone
            \/ WriteTxc \/ WriteWait \/ WriteEnable \/ ReadLoad \/ ReadAdvance
  BY <1>2, <1>12, Zenon DEF RmwLoad, RmwStore, EndClear, FlushUdrie, FlushTxc, FlushDone,
     WriteTxc, WriteWait, WriteEnable, ReadLoad, ReadAdvance, usart, handler
<1>13. CASE Receiver \/ RxCompleteInterrupt \/ UNCHANGED vars
  BY <1>2, <1>13, Zenon DEF Receiver, RxArrive, RxCompleteInterrupt, vars, usart, handler
<1> QED
  BY <1>3, <1>4, <1>5, <1>6, <1>7, <1>8, <1>9, <1>10, <1>11, <1>12, <1>13
  DEF Next, Continue, Irq, Transmitter

(* Every byte given to write() is sent, once, in the order written, however *)
(* write(), the data register empty interrupt, the polling of flush() and   *)
(* write() with interrupts off, and the USART interleave, and never more    *)
(* than the ring, UDR and the shift register hold are under way             *)
(* (HardwareSerial.cpp 89-118, 213-270).                                    *)
THEOREM TransmitterIsChannel == BeginsClosed => (Spec => ImplementsChannel)
<1> SUFFICES ASSUME BeginsClosed PROVE Spec => ImplementsChannel
  OBVIOUS
<1>1. Init => Channel!TInit /\ ChannelInv
  <2> SUFFICES ASSUME Init PROVE Channel!TInit /\ ChannelInv
    OBVIOUS
  <2>1. txHead \in TxSlot /\ txTail \in TxSlot /\ txHead = txTail
    BY Sizes DEF Init, TxSlot
  <2>2. TxCount = 0
    BY <2>1, TxRing DEF TxCount, Fill, Wrap
  <2>3. TxQueue = <<>>
    BY <2>2 DEF TxQueue
  <2>4. UnderWay = <<>>
    BY <2>3 DEF Init, UnderWay, One
  <2> QED
    BY <2>3, <2>4 DEF Init, Channel!TInit, ChannelInv
<1>2. IInv /\ IInv' /\ ChannelInv /\ [Next]_vars => ChannelInv'
  BY ChannelKept
<1>3. IInv /\ IInv' /\ ChannelInv /\ ChannelInv' /\ [Next]_vars => [Channel!TNext]_Channel!tvars
  BY NextIsChannelStep
<1>4. Spec => []IInv
  BY Invariant
<1> QED
  BY <1>1, <1>2, <1>3, <1>4, PTL DEF Spec, ImplementsChannel, Channel!TSpec
=============================================================================
