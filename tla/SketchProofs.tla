---------------------------- MODULE SketchProofs ----------------------------
(***************************************************************************)
(* Theorems about what the sketch is made of: the software serial port it  *)
(* reads (SoftwareSerial), for every number of objects, every set of bytes *)
(* and every ring size, and the way of a character from that port to the   *)
(* target's keyboard input (KeyboardOverSerial), for every set of          *)
(* characters and every capacity of the two queues.                        *)
(***************************************************************************)
EXTENDS SoftwareSerial, KeyboardOverSerial, DataTheorems, TLAPS

-----------------------------------------------------------------------------
(* SoftwareSerial *)

(* The ring indices move like a clock: Succ and Count without %. *)
LEMMA SuccCases ==
  ASSUME NEW x \in Slot
  PROVE  /\ Succ(x) \in Slot
         /\ Succ(x) = IF x + 1 = MaxRxBuff THEN 0 ELSE x + 1
BY SoftwareSerialAssumption DEF Slot, Succ

(* The count of available(), without the modulus. *)
LEMMA CountCases ==
  ASSUME NEW t \in Slot, NEW h \in Slot
  PROVE  /\ Count(t, h) \in 0..(MaxRxBuff - 1)
         /\ Count(t, h) = IF t >= h THEN t - h ELSE t + MaxRxBuff - h
BY SoftwareSerialAssumption DEF Slot, Count

(* Storing a byte, where there is room, adds one to the count. *)
LEMMA CountStore ==
  ASSUME NEW t \in Slot, NEW h \in Slot, Succ(t) # h
  PROVE  Count(Succ(t), h) = Count(t, h) + 1
<1>1. Succ(t) \in Slot /\ Succ(t) = IF t + 1 = MaxRxBuff THEN 0 ELSE t + 1
  BY SuccCases
<1>2. Count(t, h) = IF t >= h THEN t - h ELSE t + MaxRxBuff - h
  BY CountCases
<1>3. Count(Succ(t), h) = IF Succ(t) >= h THEN Succ(t) - h ELSE Succ(t) + MaxRxBuff - h
  BY <1>1, CountCases
<1>4. QED
  BY <1>1, <1>2, <1>3, SoftwareSerialAssumption DEF Slot

(* Reading a byte, where there is one, takes one off. *)
LEMMA CountRead ==
  ASSUME NEW t \in Slot, NEW h \in Slot, t # h
  PROVE  Count(t, h) > 0 /\ Count(t, Succ(h)) = Count(t, h) - 1
<1>1. Succ(h) \in Slot /\ Succ(h) = IF h + 1 = MaxRxBuff THEN 0 ELSE h + 1
  BY SuccCases
<1>2. Count(t, h) = IF t >= h THEN t - h ELSE t + MaxRxBuff - h
  BY CountCases
<1>3. Count(t, Succ(h)) = IF t >= Succ(h) THEN t - Succ(h) ELSE t + MaxRxBuff - Succ(h)
  BY <1>1, CountCases
<1>4. QED
  BY <1>1, <1>2, <1>3, SoftwareSerialAssumption DEF Slot

(* A ring just reset is empty. *)
LEMMA CountReset == 0 \in Slot /\ 0 \in 0..(MaxRxBuff - 1) /\ Count(0, 0) = 0
<1>1. 0 \in Slot /\ 0 \in 0..(MaxRxBuff - 1)
  BY SoftwareSerialAssumption DEF Slot
<1> QED
  BY <1>1, CountCases

-----------------------------------------------------------------------------
(* The inductive invariant. *)

(* It holds before begin(). *)
LEMMA InitIInv == Init => IInv
<1> SUFFICES ASSUME Init PROVE IInv
  OBVIOUS
<1>1. 0 \in Slot /\ 0 \in 0..(MaxRxBuff - 1) /\ Count(0, 0) = 0
  BY CountReset
<1>2. tail = 0 /\ head = 0 /\ promised = 0
  BY DEF Init
<1>3. TypeOK
  BY <1>1, <1>2 DEF Init, TypeOK, Labels
<1>4. Consistent /\ InterruptOnlyForListener /\ NoSilentDrop /\ PeekKept
  BY DEF Init, Consistent, InterruptOnlyForListener, NoSilentDrop, PeekKept
<1>5. AvailableKept
  BY <1>1, <1>2 DEF AvailableKept
<1> QED
  BY <1>3, <1>4, <1>5 DEF IInv

(* recv() preserves it, whatever byte it sampled: the byte goes where read(),
   peek() and available() do not look. *)
LEMMA StoreIInv ==
  ASSUME IInv, NEW p \in Port, NEW d \in Byte,
         Interrupt, active = p, Store(p, d), MaskAfterRecv(p), Untouched,
         line' \in [Port -> Byte \cup {None, Late}]
  PROVE  IInv'
<1> USE DEF IInv
<1>1. tail \in Slot /\ head \in Slot /\ Succ(tail) \in Slot
  BY SuccCases DEF TypeOK
<1>2. CASE HasRoom(tail, head)
  <2>1. /\ rxBuf' = [rxBuf EXCEPT ![tail] = d] /\ tail' = Succ(tail)
        /\ UNCHANGED <<head, overflow, unreported>>
    BY <1>2 DEF Store
  <2>2. Succ(tail) # head
    BY <1>2 DEF HasRoom
  <2>3. /\ Count(tail', head') = Count(tail, head) + 1
        /\ Count(tail, head) \in 0..(MaxRxBuff - 1)
    BY <2>1, <2>2, <1>1, CountStore, CountCases
  <2>4. TypeOK'
    BY <1>1, <2>1 DEF TypeOK, Interrupt, Untouched, MaskAfterRecv, Preempted, setup, thread, claims
  <2>5. head # tail => head' # tail' /\ rxBuf'[head'] = rxBuf[head]
    BY <1>1, <2>1, <2>2 DEF TypeOK
  <2>6. pc = "available" => Count(reg', head') <= Count(tail', head')
    <3>1. SUFFICES ASSUME pc = "available" PROVE Count(reg, head) <= Count(tail, head) + 1
      BY <2>1, <2>3 DEF Untouched, thread
    <3>2. Count(reg, head) \in 0..(MaxRxBuff - 1) /\ Count(reg, head) <= Count(tail, head)
      BY <3>1, <1>1, CountCases DEF TypeOK, Consistent
    <3> QED
      BY <3>2, <2>3, SoftwareSerialAssumption
  <2>7. Consistent'
    BY <2>1, <2>5, <2>6
    DEF Consistent, InterruptOnlyForListener, Interrupt, Untouched, MaskAfterRecv,
        Preempted, TypeOK, setup, thread, claims
  <2>8. InterruptOnlyForListener' /\ NoSilentDrop'
    BY <2>1 DEF InterruptOnlyForListener, NoSilentDrop, Interrupt, Untouched, MaskAfterRecv
  <2>9. AvailableKept' /\ PeekKept'
    BY <2>1, <2>3, <2>5, SoftwareSerialAssumption
    DEF AvailableKept, PeekKept, Untouched, claims, TypeOK
  <2> QED
    BY <2>4, <2>7, <2>8, <2>9
<1>3. CASE ~HasRoom(tail, head)
  <2>1. /\ overflow' = overflow \cup {p} /\ unreported' = unreported \cup {p}
        /\ UNCHANGED <<rxBuf, tail, head>>
    BY <1>3 DEF Store, ring
  <2> QED
    BY <2>1
    DEF TypeOK, Consistent, InterruptOnlyForListener, NoSilentDrop, AvailableKept, PeekKept,
        Interrupt, Untouched, MaskAfterRecv, Preempted, setup, thread, claims
<1> QED
  BY <1>2, <1>3

(* Every step preserves it. *)
LEMMA NextIInv == IInv /\ [Next]_vars => IInv'
<1> SUFFICES ASSUME IInv, [Next]_vars PROVE IInv'
  OBVIOUS
<1> USE DEF IInv, TypeOK, Consistent, InterruptOnlyForListener, NoSilentDrop,
            AvailableKept, PeekKept
<1> USE DEF At, Preempted, Goto, Call, Forget, ring, setup, claims, thread
<1>1. /\ tail \in Slot /\ head \in Slot
      /\ Count(tail, head) \in 0..(MaxRxBuff - 1)
  BY CountCases
<1>2. 0 \in Slot /\ 0 \in 0..(MaxRxBuff - 1) /\ Count(0, 0) = 0
  BY CountReset
<1>3. ASSUME NEW p \in Port, Begin(p) PROVE IInv'
  BY <1>3 DEF Begin, Labels
<1>4. ASSUME NEW p \in Port, Listen(p) PROVE IInv'
  BY <1>4 DEF Listen, Labels
<1>5. ASSUME NEW p \in Port, StopListening(p) PROVE IInv'
  BY <1>5, <1>1, <1>2, SoftwareSerialAssumption DEF StopListening, Labels
<1>6. ASSUME NEW p \in Port, Read(p) PROVE IInv'
  BY <1>6 DEF Read, Labels
<1>7. ASSUME NEW p \in Port, Available(p) PROVE IInv'
  BY <1>7, <1>1, SoftwareSerialAssumption DEF Available, Labels
<1>8. ASSUME NEW p \in Port, Peek(p) PROVE IInv'
  BY <1>8 DEF Peek, Labels
<1>9. ASSUME NEW p \in Port, Overflow(p) PROVE IInv'
  BY <1>9 DEF Overflow, Labels
<1>10. ASSUME NEW p \in Port, Write(p) PROVE IInv'
  BY <1>10 DEF Write, Labels
<1>11. ASSUME BeginTx PROVE IInv'
  BY <1>11 DEF BeginTx, Labels
<1>12. ASSUME BeginRx PROVE IInv'
  BY <1>12 DEF BeginRx, Labels
<1>13. ASSUME ListenReturnsFalse PROVE IInv'
  BY <1>13 DEF ListenReturnsFalse, Labels
<1>14. ASSUME ListenStopOther PROVE IInv'
  BY <1>14 DEF ListenStopOther, Labels
<1>15. ASSUME ListenNull PROVE IInv'
  BY <1>15 DEF ListenNull, Labels
<1>16. ASSUME ListenReset PROVE IInv'
  BY <1>16, <1>2 DEF ListenReset, Labels
<1>17. ASSUME ListenActivate PROVE IInv'
  BY <1>17 DEF ListenActivate, Labels
<1>18. ASSUME ListenOn PROVE IInv'
  BY <1>18 DEF ListenOn, Labels
<1>19. ASSUME StopNull PROVE IInv'
  BY <1>19 DEF StopNull, Labels
<1>20. ASSUME ReadLoad PROVE IInv'
  BY <1>20 DEF ReadLoad, Labels
<1>21. ASSUME ReadAdvance PROVE IInv'
  <2>1. tail # head /\ Succ(head) \in Slot /\ UNCHANGED tail /\ head' = Succ(head)
    BY <1>21, SuccCases DEF ReadAdvance
  <2>2. Count(tail', head') = Count(tail, head) - 1 /\ Count(tail, head) > 0
    BY <1>1, <2>1, CountRead
  <2>3. promised' \in 0..(MaxRxBuff - 1) /\ promised' <= Count(tail', head')
    BY <1>21, <1>1, <2>2, SoftwareSerialAssumption DEF ReadAdvance
  <2> QED
    BY <1>21, <2>1, <2>3 DEF ReadAdvance, Labels
<1>22. ASSUME AvailableReturn PROVE IInv'
  <2>1. Count(reg, head) \in 0..(MaxRxBuff - 1) /\ Count(reg, head) <= Count(tail, head)
    BY <1>22, <1>1, CountCases DEF AvailableReturn
  <2> QED
    BY <1>22, <2>1 DEF AvailableReturn, Labels
<1>23. ASSUME PeekLoad PROVE IInv'
  BY <1>23 DEF PeekLoad, Labels
<1>24. ASSUME OverflowClear PROVE IInv'
  BY <1>24 DEF OverflowClear, Labels
<1>25. ASSUME WriteRestore PROVE IInv'
  BY <1>25 DEF WriteRestore, Labels
<1>26. ASSUME NEW p \in Port, RecvFrame(p) PROVE IInv'
  BY <1>26, StoreIInv DEF RecvFrame
<1>27. ASSUME NEW p \in Port, NEW d \in Byte, NEW rest \in {None, Late}, RecvGarbage(p, d, rest)
      PROVE  IInv'
  BY <1>27, StoreIInv DEF RecvGarbage
<1>28. ASSUME NEW p \in Port, RecvNothing(p) PROVE IInv'
  BY <1>28 DEF RecvNothing, Interrupt, Untouched
<1>29. ASSUME NEW p \in Port, NEW b \in Byte, FrameStart(p, b)
      PROVE  IInv'
  <2>1. CASE p \in mask
    <3>1. line' = [line EXCEPT ![p] = b] /\ pcif' = TRUE
      BY <1>29, <2>1 DEF FrameStart
    <3>2. p # None /\ active = p
      BY <2>1, SoftwareSerialAssumption
    <3> QED
      BY <1>29, <2>1, <3>1, <3>2 DEF FrameStart, Wire
  <2>2. CASE p \notin mask
    <3>1. line' = [line EXCEPT ![p] = Late] /\ UNCHANGED pcif
      BY <1>29, <2>2 DEF FrameStart
    <3> QED
      BY <1>29, <3>1 DEF FrameStart, Wire
  <2> QED
    BY <2>1, <2>2
<1>30. ASSUME NEW p \in Port, StartMissed(p) PROVE IInv'
  BY <1>30 DEF StartMissed, Wire
<1>31. ASSUME NEW p \in Port, LateEdge(p) PROVE IInv'
  BY <1>31, SoftwareSerialAssumption DEF LateEdge, Wire
<1>32. ASSUME NEW p \in Port, FrameEnd(p) PROVE IInv'
  BY <1>32 DEF FrameEnd, Wire
<1>33. ASSUME UNCHANGED vars PROVE IInv'
  BY <1>33 DEF vars
<1> QED
    BY <1>3, <1>4, <1>5, <1>6, <1>7, <1>8, <1>9, <1>10, <1>11, <1>12, <1>13, <1>14,
     <1>15, <1>16, <1>17, <1>18, <1>19, <1>20, <1>21, <1>22, <1>23, <1>24, <1>25,
     <1>26, <1>27, <1>28, <1>29, <1>30, <1>31, <1>32, <1>33
  DEF Next, Calls, Continue, Recv, Lines

(* The invariant the theorems below are read off. *)
THEOREM Invariant == Spec => []IInv
<1>1. Init => IInv
  BY InitIInv
<1>2. IInv /\ [Next]_vars => IInv'
  BY NextIInv
<1> QED
  BY <1>1, <1>2, PTL DEF Spec

(* Every variable keeps its type: in particular recv() and read() keep both ring
   indices inside the ring (recv 171, read 403). *)
THEOREM TypeCorrect == Spec => []TypeOK
<1>1. IInv => TypeOK
  BY DEF IInv
<1> QED
  BY <1>1, Invariant, PTL

(* A byte dropped by recv() leaves the overflow flag set until overflow() reports
   it, even when the drop falls between that function's test and its clear. *)
THEOREM NoByteDroppedSilently == Spec => []NoSilentDrop
<1>1. IInv => NoSilentDrop
  BY DEF IInv
<1> QED
  BY <1>1, Invariant, PTL

(* What available() and peek() told the sketch stays true: the bytes reported
   can all be read and the byte shown is the next one, whatever the interrupt
   does. *)
THEOREM ToldStaysTrue == Spec => []BytesTold
<1>1. IInv => BytesTold
  BY DEF IInv, BytesTold
<1> QED
  BY <1>1, Invariant, PTL

(* The interrupt handler never sees a null or half-written active_object, since
   it only runs for the one object whose pin is unmasked; and between calls the
   pin of the listening object is: recv(), listen() and stopListening() always
   leave it so. *)
THEOREM HandlerHasListener == Spec => []PinInterruptRight
<1>1. IInv => InterruptOnlyForListener
  BY DEF IInv
<1>2. IInv => ListenerHears
  BY DEF IInv, Consistent, ListenerHears
<1>3. IInv => PinInterruptRight
  BY <1>1, <1>2 DEF PinInterruptRight
<1> QED
  BY <1>3, Invariant, PTL

(* A frame seen in time is stored, or flagged because the ring was full: recv()
   is the only step that takes a byte off the line while interrupts are on. *)
THEOREM FramesStoredOrFlagged == Spec => FrameKept
<1> DEFINE Kept(p) == \/ /\ Count(tail', head') = Count(tail, head) + 1
                         /\ rxBuf'[tail] = line[p]
                      \/ /\ Count(tail, head) = MaxRxBuff - 1
                         /\ p \in overflow'
           Taken(p) == line[p] \in Byte /\ line'[p] # line[p] /\ inten /\ p \in rxDelay
           Step == \A p \in Port : Taken(p) => Kept(p)
<1>1. IInv /\ [Next]_vars => [Step]_vars
  <2> SUFFICES ASSUME IInv, Next, NEW p \in Port, Taken(p) PROVE Kept(p)
    BY DEF vars
  <2> HIDE DEF Kept
  <2>1. line \in [Port -> Byte \cup {None, Late}] /\ Late \notin Byte /\ None \notin Byte
    BY SoftwareSerialAssumption DEF IInv, TypeOK
  <2>2. RecvFrame(p)
    <3>1. ~(Calls \/ Continue)
      BY DEF Calls, Begin, Listen, StopListening, Read, Available, Peek, Overflow, Write,
             Continue, BeginTx, BeginRx, ListenReturnsFalse, ListenStopOther, ListenNull,
             ListenReset, ListenActivate, ListenOn, StopNull, ReadLoad, ReadAdvance,
             AvailableReturn, PeekLoad, OverflowClear, WriteRestore
    <3>2. ~Lines
      BY <2>1 DEF Lines, FrameStart, StartMissed, LateEdge, FrameEnd, Wire
    <3> QED
      BY <2>1, <3>1, <3>2 DEF Next, Recv, RecvFrame, RecvGarbage, RecvNothing
  <2>3. tail \in Slot /\ head \in Slot /\ rxBuf \in [Slot -> Byte]
    BY DEF IInv, TypeOK
  <2>4. CASE HasRoom(tail, head)
    <3>1. rxBuf'[tail] = line[p] /\ tail' = Succ(tail) /\ head' = head
      BY <2>2, <2>3, <2>4 DEF RecvFrame, Store
    <3>2. Count(tail', head') = Count(tail, head) + 1
      BY <2>3, <2>4, <3>1, CountStore DEF HasRoom
    <3> QED
      BY <3>1, <3>2 DEF Kept
  <2>5. CASE ~HasRoom(tail, head)
    <3>1. p \in overflow'
      BY <2>2, <2>5 DEF RecvFrame, Store
    <3>2. Succ(tail) = head /\ Succ(tail) = IF tail + 1 = MaxRxBuff THEN 0 ELSE tail + 1
      BY <2>3, <2>5, SuccCases DEF HasRoom
    <3>3. Count(tail, head) = IF tail >= head THEN tail - head ELSE tail + MaxRxBuff - head
      BY <2>3, CountCases
    <3>4. Count(tail, head) = MaxRxBuff - 1
      BY <2>3, <3>2, <3>3, SoftwareSerialAssumption DEF Slot
    <3> QED
      BY <3>1, <3>4 DEF Kept
  <2> QED
    BY <2>4, <2>5
<1> QED
  BY <1>1, Invariant, PTL DEF Spec, FrameKept

-----------------------------------------------------------------------------
(* The ring implements the queue of RxQueue. *)

(* What is stored is the contents of the ring. *)
LEMMA StoredIsRing ==
  /\ StoredBytes = Contents(rxBuf, MaxRxBuff, tail, head)
  /\ StoredBytes' = Contents(rxBuf', MaxRxBuff, tail', head')
BY DEF StoredBytes, Count, Contents, Fill, Wrap

(* recv() appends the byte it sampled, or drops it. *)
LEMMA StoreIsPut ==
  ASSUME TypeOK, NEW p \in Port, NEW d \in Byte, Store(p, d), UNCHANGED got
  PROVE  Queue!Put(d) \/ UNCHANGED Queue!qvars
<1>1. CASE HasRoom(tail, head)
  <2>1. rxBuf' = [rxBuf EXCEPT ![tail] = d] /\ tail' = Wrap(MaxRxBuff, tail + 1) /\ head' = head
    BY <1>1 DEF Store, Succ, Wrap
  <2>2. Wrap(MaxRxBuff, tail + 1) # head
    BY <1>1 DEF HasRoom, Succ, Wrap
  <2>3. /\ MaxRxBuff \in Nat \ {0} /\ MaxRxBuff >= 2
        /\ tail \in 0..(MaxRxBuff - 1) /\ head \in 0..(MaxRxBuff - 1)
        /\ rxBuf \in [0..(MaxRxBuff - 1) -> Byte]
    BY SoftwareSerialAssumption DEF TypeOK, Slot
  <2>4. StoredBytes' = Append(StoredBytes, d)
    <3>1. /\ rxBuf'[tail] = d
          /\ \A i \in 0..(MaxRxBuff - 1) : i # tail => rxBuf'[i] = rxBuf[i]
      BY <2>1, <2>3
    <3>2. tail' = Wrap(MaxRxBuff, tail + 1) /\ tail' # head
      BY <2>1, <2>2
    <3>3. /\ MaxRxBuff \in Nat \ {0}
          /\ tail \in 0..(MaxRxBuff - 1) /\ head \in 0..(MaxRxBuff - 1)
      BY <2>3
    <3>4. Contents(rxBuf', MaxRxBuff, tail', head)
            = Append(Contents(rxBuf, MaxRxBuff, tail, head), d)
      BY <3>1, <3>2, <3>3, ContentsStore
    <3> QED
      BY <2>1, <3>4, StoredIsRing
  <2>5. Len(StoredBytes) < MaxRxBuff - 1
    <3>1. Len(StoredBytes) = Fill(MaxRxBuff, tail, head)
      BY <2>3, ContentsSeq, StoredIsRing
    <3>2. Fill(MaxRxBuff, tail, head)
            = IF tail >= head THEN tail - head ELSE tail + MaxRxBuff - head
      BY <2>3, FillCases
    <3>3. Wrap(MaxRxBuff, tail + 1) = IF tail + 1 = MaxRxBuff THEN 0 ELSE tail + 1
      BY <2>3, NextSlot
    <3> QED
      BY <2>2, <2>3, <3>1, <3>2, <3>3
  <2> QED
    BY <2>4, <2>5 DEF Queue!Put
<1>2. CASE ~HasRoom(tail, head)
  <2>1. UNCHANGED <<rxBuf, tail, head>>
    BY <1>2 DEF Store, ring
  <2> QED
    BY <2>1, StoredIsRing DEF Queue!qvars
<1> QED
  BY <1>1, <1>2

(* Every step is one of the queue's, or changes neither what is stored nor what
   was read last. *)
LEMMA NextIsQueueStep == IInv /\ [Next]_vars => [Queue!QNext]_Queue!qvars
<1> SUFFICES ASSUME IInv, [Next]_vars PROVE [Queue!QNext]_Queue!qvars
  OBVIOUS
<1> USE DEF IInv
<1>1. /\ MaxRxBuff \in Nat \ {0}
      /\ tail \in 0..(MaxRxBuff - 1) /\ head \in 0..(MaxRxBuff - 1)
      /\ rxBuf \in [0..(MaxRxBuff - 1) -> Byte]
  BY SoftwareSerialAssumption DEF TypeOK, Slot
<1>2. ASSUME UNCHANGED <<rxBuf, tail, head, got>> PROVE UNCHANGED Queue!qvars
  BY <1>2, StoredIsRing DEF Queue!qvars
<1>3. CASE ListenReset
  <2>1. rxBuf' = rxBuf /\ tail' = 0 /\ head' = 0 /\ got' = got
    BY <1>3 DEF ListenReset, Forget
  <2>2. StoredBytes' = <<>>
    BY <1>1, <2>1, ContentsEmpty, StoredIsRing
  <2> QED
    BY <2>1, <2>2 DEF Queue!QNext, Queue!Discard
<1>4. CASE ReadAdvance
  <2>1. /\ rxBuf' = rxBuf /\ tail' = tail /\ head' = Wrap(MaxRxBuff, head + 1)
        /\ got' = rxBuf[head] /\ tail # head
    BY <1>4 DEF ReadAdvance, At, Consistent, Succ, Wrap
  <2>2. StoredBytes # <<>> /\ got' = Head(StoredBytes) /\ StoredBytes' = Tail(StoredBytes)
    <3> DEFINE old == Contents(rxBuf, MaxRxBuff, tail, head)
               new == Contents(rxBuf, MaxRxBuff, tail, Wrap(MaxRxBuff, head + 1))
    <3> HIDE DEF IInv
    <3>1. \A size \in Nat \ {0} : \A in, out \in 0..(size - 1) : in # out =>
            /\ Contents(rxBuf, size, in, out) # <<>>
            /\ Head(Contents(rxBuf, size, in, out)) = rxBuf[out]
            /\ Tail(Contents(rxBuf, size, in, out))
                 = Contents(rxBuf, size, in, Wrap(size, out + 1))
      BY ContentsRead
    <3>2. old # <<>> /\ Head(old) = rxBuf[head] /\ new = Tail(old)
      BY <1>1, <2>1, <3>1
    <3>3. StoredBytes = old /\ StoredBytes' = new
      BY <2>1, StoredIsRing
    <3> QED
      BY <2>1, <3>2, <3>3
  <2> QED
    BY <2>2 DEF Queue!QNext, Queue!Get
<1>5. ASSUME NEW p \in Port, NEW d \in Byte, Store(p, d), UNCHANGED got
      PROVE  [Queue!QNext]_Queue!qvars
  BY <1>5, StoreIsPut DEF Queue!QNext
<1>6. CASE Recv
  <2>1. ASSUME NEW p \in Port, RecvFrame(p) PROVE [Queue!QNext]_Queue!qvars
    BY <2>1, <1>5 DEF RecvFrame, Untouched, claims
  <2>2. ASSUME NEW p \in Port, NEW d \in Byte, NEW rest \in {None, Late}, RecvGarbage(p, d, rest)
        PROVE  [Queue!QNext]_Queue!qvars
    BY <2>2, <1>5 DEF RecvGarbage, Untouched, claims
  <2>3. ASSUME NEW p \in Port, RecvNothing(p) PROVE [Queue!QNext]_Queue!qvars
    BY <2>3, <1>2 DEF RecvNothing, Untouched, claims, ring
  <2> QED
    BY <1>6, <2>1, <2>2, <2>3 DEF Recv
<1>7. CASE Calls
  <2>1. UNCHANGED <<rxBuf, tail, head, got>>
    BY <1>7 DEF Calls, Begin, Listen, StopListening, Read, Available, Peek, Overflow,
                Write, Call, Forget, ring, claims
  <2> QED
    BY <1>2, <2>1
<1>8. CASE Continue /\ ~ListenReset /\ ~ReadAdvance
  <2>1. UNCHANGED <<rxBuf, tail, head, got>>
    BY <1>8 DEF Continue, BeginTx, BeginRx, ListenReturnsFalse, ListenStopOther, ListenNull,
                ListenActivate, ListenOn, StopNull, ReadLoad, AvailableReturn, PeekLoad,
                OverflowClear, WriteRestore, ring, claims
  <2> QED
    BY <1>2, <2>1
<1>9. CASE Lines
  <2>1. UNCHANGED <<rxBuf, tail, head, got>>
    BY <1>9 DEF Lines, FrameStart, StartMissed, LateEdge, FrameEnd, Wire, ring, claims
  <2> QED
    BY <1>2, <2>1
<1>10. CASE UNCHANGED vars
  BY <1>2, <1>10 DEF vars, ring, claims
<1> QED
  BY <1>3, <1>4, <1>6, <1>7, <1>8, <1>9, <1>10 DEF Next

(* read() hands out what recv() stored, oldest first, each byte once, although
   handler and main thread share nothing but the ring and its two indices. *)
THEOREM RingImplementsQueue == Spec => ImplementsQueue
<1>1. Init => Queue!QInit
  <2> SUFFICES ASSUME Init PROVE Queue!QInit
    OBVIOUS
  <2>1. /\ MaxRxBuff \in Nat \ {0} /\ 0 \in 0..(MaxRxBuff - 1)
        /\ rxBuf \in [0..(MaxRxBuff - 1) -> Byte] /\ tail = 0 /\ head = 0
    BY SoftwareSerialAssumption DEF Init, Slot
  <2>2. StoredBytes = <<>>
    BY <2>1, ContentsEmpty, StoredIsRing
  <2> QED
    BY <2>2 DEF Init, Queue!QInit
<1>2. IInv /\ [Next]_vars => [Queue!QNext]_Queue!qvars
  BY NextIsQueueStep
<1> QED
  BY <1>1, <1>2, Invariant, PTL DEF Spec, ImplementsQueue, Queue!QSpec

-----------------------------------------------------------------------------
(* KeyboardOverSerial *)

(* What the inductive invariant says: the bytes between main() and the     *)
(* target are whole reports, presses and releases in turn, and the keys    *)
(* they press, with those of the stored characters, are the keys still     *)
(* expected.                                                               *)

Octet == 0..255
Pair == (0..255) \X (0..255)    \* modifiers and key code, 0 for no key
Key == (0..255) \X (1..255)

KeyOf(c) == IF Rows(c) = {} THEN <<0, 0>> ELSE <<Row(c)[2], Row(c)[3]>>
KeysOf(chars) == [i \in 1..Len(chars) |-> KeyOf(chars[i])]
Press(x) == [Zeroes EXCEPT ![1] = x[1], ![3] = x[2]]

(* rest is due without the pairs that stand for no key; at[i] of its keys  *)
(* are before due[i].                                                      *)
Leaves(due, rest, at) ==
  /\ at \in [1..(Len(due) + 1) -> Nat]
  /\ at[1] = 0 /\ at[Len(due) + 1] = Len(rest)
  /\ \A i, j \in 1..(Len(due) + 1) : i <= j => at[i] <= at[j]
  /\ \A i \in 1..Len(due) :
       IF due[i][2] = 0 THEN at[i + 1] = at[i]
       ELSE at[i + 1] = at[i] + 1 /\ rest[at[i] + 1] = due[i]
Types(due, rest) == \E at : Leaves(due, rest, at)

(* Presses and releases in turn, behind a release if offset is 8. *)
InTurn(bytes, offset, presses) ==
  /\ Len(bytes) = 16 * Len(presses) + offset
  /\ offset = 8 => \A k \in 1..8 : bytes[k] = clear_command[k]
  /\ \A i \in 1..Len(presses), k \in 1..8 :
       /\ bytes[offset + 16 * i - 16 + k] = Press(presses[i])[k]
       /\ bytes[offset + 16 * i - 8 + k] = clear_command[k]

Unwritten ==
  IF point = "loop" THEN <<>>
  ELSE IF point = "press" THEN SubSeq(keyboard_buffer, written + 1, 8) \o clear_command
  ELSE SubSeq(clear_command, written + 1, 8)
OnTheWay == (frame \o pending) \o Unwritten

Relayed(offset, presses, soon, later) ==
  /\ offset \in {0, 8} /\ presses \in Seq(Pair) /\ soon \in Seq(Key) /\ later \in Seq(Key)
  /\ expected = typed \o (soon \o later)
  /\ Types(presses, soon) /\ Types(KeysOf(stored), later)
  /\ InTurn(OnTheWay, offset, presses)
  /\ offset = 0 => down = 0

SketchInv ==
  /\ SketchTypes
  /\ point = "loop" => written = 0
  /\ \E offset, presses, soon, later : Relayed(offset, presses, soon, later)

-----------------------------------------------------------------------------
(* The keys of the characters *)

LEMMA TypesNothing == Types(<<>>, <<>>)
<1> DEFINE at == [i \in 1..1 |-> 0]
<1>1. Leaves(<<>>, <<>>, at)
  BY DEF Leaves
<1> QED
  BY <1>1 DEF Types

LEMMA TypesAppend ==
  ASSUME NEW due \in Seq(Pair), NEW rest \in Seq(Key), NEW x \in Pair, Types(due, rest)
  PROVE  Types(Append(due, x), IF x[2] = 0 THEN rest ELSE Append(rest, x))
<1>1. PICK at : Leaves(due, rest, at)
  BY DEF Types
<1>2. PICK n \in Nat : n = Len(due)
  BY LenProperties
<1>3. PICK m \in Nat : m = Len(rest)
  BY LenProperties
<1>4. /\ at \in [1..(n + 1) -> Nat] /\ at[1] = 0 /\ at[n + 1] = m
      /\ \A i, j \in 1..(n + 1) : i <= j => at[i] <= at[j]
      /\ \A i \in 1..n : IF due[i][2] = 0 THEN at[i + 1] = at[i]
                         ELSE at[i + 1] = at[i] + 1 /\ rest[at[i] + 1] = due[i]
  BY <1>1, <1>2, <1>3 DEF Leaves
<1> DEFINE more == Append(due, x)
           new == IF x[2] = 0 THEN rest ELSE Append(rest, x)
           last == IF x[2] = 0 THEN m ELSE m + 1
           at2 == [i \in 1..(n + 2) |-> IF i = n + 2 THEN last ELSE at[i]]
<1>5. /\ Len(more) = n + 1 /\ more[n + 1] = x
      /\ \A i \in 1..n : more[i] = due[i]
  BY <1>2, AppendProperties
<1>6. Len(new) = last /\ last \in Nat /\ m <= last /\ \A k \in 1..m : new[k] = rest[k]
  BY <1>3
<1>7. x[2] # 0 => last = m + 1 /\ new[m + 1] = x
  BY <1>3
<1>8. x[2] = 0 => last = m
  OBVIOUS
<1> HIDE DEF more, new, last
<1>9. /\ at2 \in [1..(n + 2) -> Nat] /\ at2[1] = 0 /\ at2[n + 2] = last
      /\ \A i \in 1..(n + 1) : at2[i] = at[i]
  BY <1>4, <1>6
<1> HIDE DEF at2
<1>10. \A i, j \in 1..(n + 2) : i <= j => at2[i] <= at2[j]
  <2> SUFFICES ASSUME NEW i \in 1..(n + 2), NEW j \in 1..(n + 2), i <= j
               PROVE  at2[i] <= at2[j]
    OBVIOUS
  <2>1. CASE j \in 1..(n + 1)
    BY <1>4, <1>9, <2>1
  <2>2. CASE j = n + 2 /\ i = n + 2
    BY <1>6, <1>9, <2>2
  <2>3. CASE j = n + 2 /\ i \in 1..(n + 1)
    <3>1. at[i] <= at[n + 1]
      BY <1>4, <2>3
    <3> QED
      BY <1>4, <1>6, <1>9, <2>3, <3>1
  <2> QED
    BY <2>1, <2>2, <2>3
<1>11. \A i \in 1..(n + 1) :
         IF more[i][2] = 0 THEN at2[i + 1] = at2[i]
         ELSE at2[i + 1] = at2[i] + 1 /\ new[at2[i] + 1] = more[i]
  <2> SUFFICES ASSUME NEW i \in 1..(n + 1)
               PROVE  IF more[i][2] = 0 THEN at2[i + 1] = at2[i]
                      ELSE at2[i + 1] = at2[i] + 1 /\ new[at2[i] + 1] = more[i]
    OBVIOUS
  <2>1. CASE i \in 1..n
    <3>1. at2[i + 1] = at[i + 1] /\ at2[i] = at[i] /\ more[i] = due[i]
      <4>1. i \in 1..(n + 1) /\ i + 1 \in 1..(n + 1)
        BY <1>4, <2>1
      <4> QED
        BY <1>5, <1>9, <2>1, <4>1
    <3>2. at[i + 1] <= m /\ at[i] \in Nat
      BY <1>4, <2>1
    <3>3. IF due[i][2] = 0 THEN at[i + 1] = at[i]
          ELSE at[i + 1] = at[i] + 1 /\ rest[at[i] + 1] = due[i]
      BY <1>4, <2>1
    <3>4. at[i + 1] = at[i] + 1 => at[i] + 1 \in 1..m
      BY <3>2
    <3>5. at[i + 1] = at[i] + 1 => new[at[i] + 1] = rest[at[i] + 1]
      BY <1>6, <3>4
    <3> QED
      BY <3>1, <3>3, <3>5
  <2>2. CASE i = n + 1
    <3>1. at2[i + 1] = last /\ at2[i] = m /\ more[i] = x
      BY <1>4, <1>5, <1>9, <2>2
    <3> QED
      BY <1>7, <1>8, <3>1
  <2> QED
    BY <2>1, <2>2
<1>12. Leaves(more, new, at2)
  BY <1>5, <1>6, <1>9, <1>10, <1>11 DEF Leaves
<1> QED
  BY <1>12 DEF Types, more, new

LEMMA TypesTail ==
  ASSUME NEW due \in Seq(Pair), NEW rest \in Seq(Key), due # <<>>, Types(due, rest)
  PROVE  /\ Head(due)[2] = 0 => Types(Tail(due), rest)
         /\ Head(due)[2] # 0 => /\ rest # <<>> /\ Head(rest) = Head(due)
                                /\ Types(Tail(due), Tail(rest))
<1>1. PICK at : Leaves(due, rest, at)
  BY DEF Types
<1>2. PICK n \in Nat : n + 1 = Len(due)
  <2>1. Len(due) \in Nat \ {0}
    BY EmptySeq
  <2>2. Len(due) - 1 \in Nat /\ (Len(due) - 1) + 1 = Len(due)
    BY <2>1
  <2> QED
    BY <2>2
<1>3. PICK m \in Nat : m = Len(rest)
  BY LenProperties
<1>4. /\ at \in [1..(n + 2) -> Nat] /\ at[1] = 0 /\ at[n + 2] = m
      /\ \A i, j \in 1..(n + 2) : i <= j => at[i] <= at[j]
      /\ \A i \in 1..(n + 1) : IF due[i][2] = 0 THEN at[i + 1] = at[i]
                               ELSE at[i + 1] = at[i] + 1 /\ rest[at[i] + 1] = due[i]
  <2>1. Len(due) + 1 = n + 2
    BY <1>2
  <2> QED
    BY <1>1, <1>2, <1>3, <2>1 DEF Leaves
<1>5. Len(Tail(due)) = n /\ Head(due) = due[1] /\ \A i \in 1..n : Tail(due)[i] = due[i + 1]
  BY <1>2, HeadTailProperties
<1>6. /\ 1 \in 1..(n + 1) /\ 2 \in 1..(n + 2) /\ n + 2 \in 1..(n + 2)
      /\ \A i \in 1..(n + 1) : i + 1 \in 1..(n + 2)
      /\ \A i \in 1..n : i + 1 \in 1..(n + 1) /\ (i + 1) + 1 \in 1..(n + 2)
  OBVIOUS
<1>7. CASE due[1][2] = 0
  <2> DEFINE at2 == [i \in 1..(n + 1) |-> at[i + 1]]
  <2>1. at[2] = 0
    BY <1>4, <1>6, <1>7
  <2>2. /\ at2 \in [1..(n + 1) -> Nat] /\ at2[1] = 0 /\ at2[n + 1] = m
        /\ \A i \in 1..(n + 1) : at2[i] = at[i + 1]
    BY <1>4, <1>6, <2>1
  <2> HIDE DEF at2
  <2>3. \A i, j \in 1..(n + 1) : i <= j => at2[i] <= at2[j]
    BY <1>4, <1>6, <2>2
  <2>4. \A i \in 1..n :
          IF Tail(due)[i][2] = 0 THEN at2[i + 1] = at2[i]
          ELSE at2[i + 1] = at2[i] + 1 /\ rest[at2[i] + 1] = Tail(due)[i]
    <3> SUFFICES ASSUME NEW i \in 1..n
                 PROVE  IF Tail(due)[i][2] = 0 THEN at2[i + 1] = at2[i]
                        ELSE at2[i + 1] = at2[i] + 1 /\ rest[at2[i] + 1] = Tail(due)[i]
      OBVIOUS
    <3>0. i \in 1..(n + 1) /\ i + 1 \in 1..(n + 1)
      BY <1>6
    <3>1. /\ at2[i] = at[i + 1] /\ at2[i + 1] = at[(i + 1) + 1] /\ Tail(due)[i] = due[i + 1]
          /\ i + 1 \in 1..(n + 1)
      BY <1>5, <2>2, <3>0
    <3>2. IF due[i + 1][2] = 0 THEN at[(i + 1) + 1] = at[i + 1]
          ELSE at[(i + 1) + 1] = at[i + 1] + 1 /\ rest[at[i + 1] + 1] = due[i + 1]
      BY <1>4, <3>1
    <3> QED
      BY <3>1, <3>2
  <2>5. Leaves(Tail(due), rest, at2)
    BY <1>3, <1>5, <2>2, <2>3, <2>4 DEF Leaves
  <2> QED
    BY <1>5, <1>7, <2>5 DEF Types
<1>8. CASE due[1][2] # 0
  <2> DEFINE at2 == [i \in 1..(n + 1) |-> at[i + 1] - 1]
  <2>1. at[2] = 1 /\ rest[1] = due[1]
    BY <1>4, <1>6, <1>8
  <2>2. \A i \in 1..(n + 1) : at[i + 1] \in Nat /\ at[i + 1] >= 1
    <3> SUFFICES ASSUME NEW i \in 1..(n + 1) PROVE at[i + 1] \in Nat /\ at[i + 1] >= 1
      OBVIOUS
    <3>1. at[2] <= at[i + 1] /\ at[i + 1] \in Nat
      BY <1>4, <1>6
    <3> QED
      BY <2>1, <3>1
  <2>3. m >= 1
    BY <1>4, <2>2
  <2>4. rest # <<>> /\ Head(rest) = due[1] /\ Len(Tail(rest)) = m - 1
        /\ \A i \in 1..(m - 1) : Tail(rest)[i] = rest[i + 1]
    BY <1>3, <2>1, <2>3, EmptySeq, HeadTailProperties
  <2>5. /\ at2 \in [1..(n + 1) -> Nat] /\ at2[1] = 0 /\ at2[n + 1] = m - 1
        /\ \A i \in 1..(n + 1) : at2[i] = at[i + 1] - 1
    BY <1>4, <1>6, <2>1, <2>2
  <2> HIDE DEF at2
  <2>6. \A i, j \in 1..(n + 1) : i <= j => at2[i] <= at2[j]
    <3> SUFFICES ASSUME NEW i \in 1..(n + 1), NEW j \in 1..(n + 1), i <= j
                 PROVE  at2[i] <= at2[j]
      OBVIOUS
    <3>1. at[i + 1] <= at[j + 1]
      BY <1>4, <1>6
    <3>2. at2[i] = at[i + 1] - 1 /\ at2[j] = at[j + 1] - 1
      BY <2>5
    <3>3. at[i + 1] \in Nat /\ at[j + 1] \in Nat
      BY <2>2
    <3> QED
      BY <3>1, <3>2, <3>3
  <2>7. \A i \in 1..n :
          IF Tail(due)[i][2] = 0 THEN at2[i + 1] = at2[i]
          ELSE at2[i + 1] = at2[i] + 1 /\ Tail(rest)[at2[i] + 1] = Tail(due)[i]
    <3> SUFFICES ASSUME NEW i \in 1..n
                 PROVE  IF Tail(due)[i][2] = 0 THEN at2[i + 1] = at2[i]
                        ELSE at2[i + 1] = at2[i] + 1 /\ Tail(rest)[at2[i] + 1] = Tail(due)[i]
      OBVIOUS
    <3> DEFINE j == i + 1
    <3>0. i \in 1..(n + 1) /\ j \in 1..(n + 1) /\ j + 1 \in 1..(n + 2)
      BY <1>6
    <3>1. /\ j \in 1..(n + 1) /\ j + 1 \in 1..(n + 2)
          /\ at2[i] = at[j] - 1 /\ at2[j] = at[j + 1] - 1 /\ Tail(due)[i] = due[j]
      <4>1. at2[i] = at[i + 1] - 1 /\ at2[j] = at[j + 1] - 1
        BY <2>5, <3>0
      <4>2. Tail(due)[i] = due[i + 1]
        BY <1>5
      <4> QED
        BY <3>0, <4>1, <4>2
    <3>2. at[j] \in Nat /\ at[j] >= 1 /\ at[j + 1] <= m /\ at[j + 1] \in Nat
      <4>1. j + 1 <= n + 2 /\ n + 2 \in 1..(n + 2)
        OBVIOUS
      <4>2. at[j + 1] <= at[n + 2]
        BY <1>4, <3>1, <4>1
      <4>3. at[j] \in Nat /\ at[j] >= 1
        BY <2>2
      <4> HIDE DEF j
      <4> QED
        BY <1>4, <3>1, <4>2, <4>3
    <3>3. IF due[j][2] = 0 THEN at[j + 1] = at[j]
          ELSE at[j + 1] = at[j] + 1 /\ rest[at[j] + 1] = due[j]
      BY <1>4, <3>1
    <3>4. CASE due[j][2] = 0
      BY <3>1, <3>2, <3>3, <3>4
    <3>5. CASE due[j][2] # 0
      <4>1. at[j] \in 1..(m - 1)
        BY <3>2, <3>3, <3>5
      <4>2. Tail(rest)[at[j]] = rest[at[j] + 1]
        BY <2>4, <4>1
      <4>3. at2[i] + 1 = at[j] /\ at2[j] = at2[i] + 1
        <5>1. at[j + 1] = at[j] + 1 /\ at2[i] = at[j] - 1 /\ at2[j] = at[j + 1] - 1
          BY <3>1, <3>3, <3>5
        <5>2. at[j] \in Nat
          BY <3>2
        <5> HIDE DEF j
        <5> QED
          BY <5>1, <5>2
      <4> QED
        BY <3>1, <3>3, <3>5, <4>2, <4>3
    <3> QED
      BY <3>4, <3>5
  <2>8. Leaves(Tail(due), Tail(rest), at2)
    BY <1>5, <2>4, <2>5, <2>6, <2>7 DEF Leaves
  <2> QED
    BY <1>5, <1>8, <2>4, <2>8 DEF Types
<1> QED
  BY <1>7, <1>8

-----------------------------------------------------------------------------
(* The reports on the way *)

(* A report is eight bytes, and so is clear_command. *)
LEMMA EightLong ==
  ASSUME NEW S, NEW r \in [1..8 -> S]
  PROVE  r \in Seq(S) /\ Len(r) = 8
<1>1. 8 \in Nat
  OBVIOUS
<1>2. r \in Seq(S)
  BY <1>1, SeqDef
<1>3. DOMAIN r = 1..Len(r) /\ DOMAIN r = 1..8 /\ Len(r) \in Nat
  BY <1>2, LenProperties
<1> QED
  BY <1>2, <1>3

LEMMA Joined ==
  ASSUME NEW S, NEW s \in Seq(S), NEW t \in Seq(S)
  PROVE  /\ s \o t \in Seq(S) /\ Len(s \o t) = Len(s) + Len(t)
         /\ \A i \in 1..Len(s) : (s \o t)[i] = s[i]
         /\ \A i \in 1..Len(t) : (s \o t)[Len(s) + i] = t[i]
<1> DEFINE w == s \o t
<1>1. PICK n \in Nat : n = Len(s)
  BY LenProperties
<1>2. PICK m \in Nat : m = Len(t)
  BY LenProperties
<1>3. /\ w \in Seq(S) /\ Len(w) = Len(s) + Len(t)
      /\ \A i \in 1..(Len(s) + Len(t)) : w[i] = IF i <= Len(s) THEN s[i] ELSE t[i - Len(s)]
  BY ConcatProperties
<1> HIDE DEF w
<1>4. \A i \in 1..(n + m) : w[i] = IF i <= n THEN s[i] ELSE t[i - n]
  BY <1>1, <1>2, <1>3
<1>5. \A i \in 1..n : w[i] = s[i]
  BY <1>4
<1>6. \A i \in 1..m : w[n + i] = t[i]
  <2> SUFFICES ASSUME NEW i \in 1..m PROVE w[n + i] = t[i]
    OBVIOUS
  <2>1. n + i \in 1..(n + m) /\ ~(n + i <= n) /\ (n + i) - n = i
    OBVIOUS
  <2> QED
    BY <1>4, <2>1
<1> QED
  BY <1>1, <1>2, <1>3, <1>5, <1>6 DEF w

LEMMA SameBytes ==
  ASSUME NEW S, NEW r \in Seq(S), NEW q \in Seq(S), Len(r) = 8, Len(q) = 8,
         \A k \in 1..8 : r[k] = q[k]
  PROVE  r = q
<1>1. \A k \in 1..Len(r) : r[k] = q[k]
  OBVIOUS
<1> QED
  BY <1>1, SeqEqual

IsReport(r) == r \in Seq(Octet) /\ Len(r) = 8

LEMMA ClearIsReport ==
  /\ clear_command \in [1..8 -> Octet]
  /\ clear_command \in Seq(Octet) /\ Len(clear_command) = 8
  /\ clear_command[3] = 0
<1>1. clear_command \in [1..8 -> Octet] /\ clear_command[3] = 0
  BY DEF clear_command, Zeroes, ReportSize, Shift, Octet
<1> QED
  BY <1>1, EightLong

LEMMA ClearHoldsShift == clear_command[1] = Shift
BY DEF clear_command, Zeroes, ReportSize, Shift

LEMMA PressIsReport ==
  ASSUME NEW x \in Pair
  PROVE  /\ Press(x) \in [1..8 -> Octet]
         /\ Press(x) \in Seq(Octet) /\ Len(Press(x)) = 8
         /\ Press(x)[1] = x[1] /\ Press(x)[3] = x[2]
<1>1. Press(x) \in [1..8 -> Octet] /\ Press(x)[1] = x[1] /\ Press(x)[3] = x[2]
  BY DEF Press, Zeroes, ReportSize, Pair, Octet
<1> QED
  BY <1>1, EightLong

LEMMA TwoReports ==
  ASSUME NEW r, NEW q, IsReport(r), IsReport(q)
  PROVE  /\ (r \o q) \in Seq(Octet) /\ Len((r \o q)) = Len(r) + Len(q)
         /\ \A i \in 1..Len(r) : (r \o q)[i] = r[i]
         /\ \A i \in 1..Len(q) : (r \o q)[Len(r) + i] = q[i]
<1>1. r \in Seq(Octet) /\ q \in Seq(Octet)
  BY DEF IsReport
<1> QED
  BY <1>1, Joined

LEMMA InTurnAppend ==
  ASSUME NEW bytes \in Seq(Octet), NEW offset \in {0, 8}, NEW presses \in Seq(Pair),
         NEW x \in Pair, InTurn(bytes, offset, presses)
  PROVE  InTurn(bytes \o (Press(x) \o clear_command), offset, Append(presses, x))
<1> DEFINE two == Press(x) \o clear_command
           all == bytes \o two
           more == Append(presses, x)
<1>1. PICK n \in Nat : n = Len(presses)
  BY LenProperties
<1>2. /\ two \in Seq(Octet) /\ Len(two) = 16
      /\ \A k \in 1..8 : two[k] = Press(x)[k] /\ two[8 + k] = clear_command[k]
  <2>1. /\ Press(x) \in Seq(Octet) /\ Len(Press(x)) = 8 /\ 8 \in Nat
        /\ clear_command \in Seq(Octet) /\ Len(clear_command) = 8
    BY PressIsReport, ClearIsReport
  <2> DEFINE press == Press(x)
             clear == clear_command
  <2>2. IsReport(press) /\ IsReport(clear)
    BY <2>1 DEF IsReport
  <2>3. two = press \o clear
    OBVIOUS
  <2> HIDE DEF press, clear, two
  <2>4. /\ two \in Seq(Octet) /\ Len(two) = Len(press) + Len(clear)
        /\ \A i \in 1..Len(press) : two[i] = press[i]
        /\ \A i \in 1..Len(clear) : two[Len(press) + i] = clear[i]
    BY <2>2, <2>3, TwoReports
  <2>5. Len(press) = 8 /\ Len(clear) = 8
    BY <2>2 DEF IsReport
  <2>6. /\ two \in Seq(Octet) /\ Len(two) = 16
        /\ \A k \in 1..8 : two[k] = press[k] /\ two[8 + k] = clear[k]
    BY <2>4, <2>5
  <2> QED
    BY <2>6 DEF press, clear
<1> HIDE DEF two
<1>3. /\ Len(bytes) = 16 * n + offset
      /\ offset = 8 => \A k \in 1..8 : bytes[k] = clear_command[k]
      /\ \A i \in 1..n, k \in 1..8 :
           /\ bytes[offset + 16 * i - 16 + k] = Press(presses[i])[k]
           /\ bytes[offset + 16 * i - 8 + k] = clear_command[k]
  BY <1>1 DEF InTurn
<1>4. /\ Len(all) = 16 * n + offset + 16
      /\ \A i \in 1..(16 * n + offset) : all[i] = bytes[i]
      /\ \A k \in 1..16 : all[16 * n + offset + k] = two[k]
  <2> DEFINE l == 16 * n + offset
  <2>1. l \in Nat /\ 16 \in Nat /\ l = Len(bytes) /\ 16 = Len(two)
    BY <1>2, <1>3
  <2> HIDE DEF l
  <2>2. /\ Len(all) = l + 16 /\ \A i \in 1..l : all[i] = bytes[i]
        /\ \A i \in 1..16 : all[l + i] = two[i]
    <3>1. /\ all \in Seq(Octet) /\ Len(all) = Len(bytes) + Len(two)
          /\ \A i \in 1..Len(bytes) : all[i] = bytes[i]
          /\ \A i \in 1..Len(two) : all[Len(bytes) + i] = two[i]
      <4>1. two \in Seq(Octet)
        BY <1>2
      <4> QED
        BY <4>1, Joined
    <3> HIDE DEF all
    <3> QED
      BY <2>1, <3>1
  <2> QED
    BY <2>2 DEF l
<1>5. Len(more) = n + 1 /\ more[n + 1] = x /\ \A i \in 1..n : more[i] = presses[i]
  BY <1>1, AppendProperties
<1> HIDE DEF all, more
<1>6. offset = 8 => \A k \in 1..8 : all[k] = clear_command[k]
  <2> SUFFICES ASSUME offset = 8, NEW k \in 1..8 PROVE all[k] = clear_command[k]
    OBVIOUS
  <2>1. k \in 1..(16 * n + offset)
    OBVIOUS
  <2> QED
    BY <1>3, <1>4, <2>1
<1>7. ASSUME NEW i \in 1..(n + 1), NEW k \in 1..8
      PROVE  /\ all[offset + 16 * i - 16 + k] = Press(more[i])[k]
             /\ all[offset + 16 * i - 8 + k] = clear_command[k]
  <2>1. CASE i \in 1..n
    <3>1. /\ offset + 16 * i - 16 + k \in 1..(16 * n + offset)
          /\ offset + 16 * i - 8 + k \in 1..(16 * n + offset)
      BY <2>1
    <3> QED
      <4>1. /\ all[offset + 16 * i - 16 + k] = bytes[offset + 16 * i - 16 + k]
            /\ all[offset + 16 * i - 8 + k] = bytes[offset + 16 * i - 8 + k]
        BY <1>4, <3>1
      <4>2. more[i] = presses[i]
        BY <1>5, <2>1
      <4>3. /\ bytes[offset + 16 * i - 16 + k] = Press(presses[i])[k]
            /\ bytes[offset + 16 * i - 8 + k] = clear_command[k]
        BY <1>3, <2>1
      <4> QED
        BY <4>1, <4>2, <4>3
  <2>2. CASE i = n + 1
    <3>1. /\ offset + 16 * i - 16 + k = 16 * n + offset + k
          /\ offset + 16 * i - 8 + k = 16 * n + offset + (8 + k)
          /\ k \in 1..16 /\ 8 + k \in 1..16
      BY <2>2
    <3>2. /\ all[16 * n + offset + k] = two[k]
          /\ all[16 * n + offset + (8 + k)] = two[8 + k]
      BY <1>4, <3>1
    <3> QED
      BY <1>2, <1>5, <2>2, <3>1, <3>2
  <2> QED
    BY <2>1, <2>2
<1>8. Len(all) = 16 * Len(more) + offset
  <2>1. Len(all) = 16 * n + offset + 16
    BY <1>4
  <2>2. 16 * (n + 1) + offset = 16 * n + offset + 16
    OBVIOUS
  <2>3. Len(more) = n + 1
    BY <1>5
  <2> QED
    BY <2>1, <2>2, <2>3
<1>9. InTurn(all, offset, more)
  BY <1>5, <1>6, <1>7, <1>8 DEF InTurn
<1> QED
  BY <1>9 DEF all, more, two

(* Of bytes in turn the first eight are a report and the rest is in turn.  *)
LEMMA InTurnRelease ==
  ASSUME NEW r, IsReport(r), NEW t \in Seq(Octet), NEW presses \in Seq(Pair),
         InTurn(r \o t, 8, presses)
  PROVE  r = clear_command /\ InTurn(t, 0, presses)
<1> DEFINE all == r \o t
<1>1. PICK n \in Nat : n = Len(presses)
  BY LenProperties
<1>2. PICK l \in Nat : l = Len(t)
  BY LenProperties
<1>3. /\ Len(all) = 8 + l
      /\ \A i \in 1..8 : all[i] = r[i]
      /\ \A i \in 1..l : all[8 + i] = t[i]
  <2>1. r \in Seq(Octet)
    BY DEF IsReport
  <2>2. /\ all \in Seq(Octet) /\ Len(all) = Len(r) + Len(t)
        /\ \A i \in 1..Len(r) : all[i] = r[i]
        /\ \A i \in 1..Len(t) : all[Len(r) + i] = t[i]
    BY <2>1, Joined
  <2> HIDE DEF all
  <2>3. Len(r) = 8
    BY DEF IsReport
  <2> QED
    BY <1>2, <2>2, <2>3
<1>4. /\ Len(all) = 16 * n + 8
      /\ \A k \in 1..8 : all[k] = clear_command[k]
      /\ \A i \in 1..n, k \in 1..8 :
           /\ all[8 + 16 * i - 16 + k] = Press(presses[i])[k]
           /\ all[8 + 16 * i - 8 + k] = clear_command[k]
  BY <1>1 DEF InTurn
<1> HIDE DEF all
<1>5. r = clear_command
  <2>1. \A k \in 1..8 : r[k] = clear_command[k]
    BY <1>3, <1>4
  <2> QED
    BY <2>1, ClearIsReport, SameBytes DEF IsReport
<1>6. l = 16 * n /\ \A j \in 1..l : t[j] = all[8 + j]
  BY <1>3, <1>4
<1>7. ASSUME NEW i \in 1..n, NEW k \in 1..8
      PROVE  /\ t[0 + 16 * i - 16 + k] = Press(presses[i])[k]
             /\ t[0 + 16 * i - 8 + k] = clear_command[k]
  <2>1. /\ 0 + 16 * i - 16 + k \in 1..l /\ 8 + (0 + 16 * i - 16 + k) = 8 + 16 * i - 16 + k
        /\ 0 + 16 * i - 8 + k \in 1..l /\ 8 + (0 + 16 * i - 8 + k) = 8 + 16 * i - 8 + k
    BY <1>6
  <2>2. /\ t[0 + 16 * i - 16 + k] = all[8 + 16 * i - 16 + k]
        /\ t[0 + 16 * i - 8 + k] = all[8 + 16 * i - 8 + k]
    BY <1>6, <2>1
  <2> QED
    BY <1>4, <2>2
<1>8. InTurn(t, 0, presses)
  BY <1>1, <1>2, <1>6, <1>7 DEF InTurn
<1> QED
  BY <1>5, <1>8

LEMMA InTurnPress ==
  ASSUME NEW r, IsReport(r), NEW t \in Seq(Octet), NEW presses \in Seq(Pair),
         InTurn(r \o t, 0, presses)
  PROVE  presses # <<>> /\ r = Press(Head(presses)) /\ InTurn(t, 8, Tail(presses))
<1> DEFINE all == r \o t
<1>1. PICK m \in Nat : m = Len(presses)
  BY LenProperties
<1>2. PICK l \in Nat : l = Len(t)
  BY LenProperties
<1>3. /\ Len(all) = 8 + l
      /\ \A i \in 1..8 : all[i] = r[i]
      /\ \A i \in 1..l : all[8 + i] = t[i]
  <2>1. r \in Seq(Octet)
    BY DEF IsReport
  <2>2. /\ all \in Seq(Octet) /\ Len(all) = Len(r) + Len(t)
        /\ \A i \in 1..Len(r) : all[i] = r[i]
        /\ \A i \in 1..Len(t) : all[Len(r) + i] = t[i]
    BY <2>1, Joined
  <2> HIDE DEF all
  <2>3. Len(r) = 8
    BY DEF IsReport
  <2> QED
    BY <1>2, <2>2, <2>3
<1>4. /\ Len(all) = 16 * m
      /\ \A i \in 1..m, k \in 1..8 :
           /\ all[0 + 16 * i - 16 + k] = Press(presses[i])[k]
           /\ all[0 + 16 * i - 8 + k] = clear_command[k]
  <2>1. 16 * m + 0 = 16 * m
    OBVIOUS
  <2> QED
    BY <1>1, <2>1 DEF InTurn
<1> HIDE DEF all
<1>5. PICK n \in Nat : m = n + 1
  <2>1. m >= 1
    BY <1>3, <1>4
  <2>2. m - 1 \in Nat /\ m = (m - 1) + 1
    BY <2>1
  <2> QED
    BY <2>2
<1>6. presses # <<>> /\ Head(presses) = presses[1] /\ Head(presses) \in Pair
      /\ Len(Tail(presses)) = n /\ \A i \in 1..n : Tail(presses)[i] = presses[i + 1]
      /\ Tail(presses) \in Seq(Pair)
  <2>1. Len(presses) = n + 1 /\ n + 1 # 0 /\ (n + 1) - 1 = n
    BY <1>1, <1>5
  <2>2. presses # <<>>
    BY <2>1, EmptySeq
  <2>3. /\ Head(presses) \in Pair /\ Len(Tail(presses)) = Len(presses) - 1
        /\ \A i \in 1..Len(Tail(presses)) : Tail(presses)[i] = presses[i + 1]
        /\ Tail(presses) \in Seq(Pair)
    BY <2>2, HeadTailProperties
  <2>4. Len(Tail(presses)) = n
    BY <2>1, <2>3
  <2>5. Head(presses) = presses[1]
    BY <2>2
  <2> QED
    BY <2>2, <2>3, <2>4, <2>5
<1>7. r = Press(Head(presses))
  <2>1. \A k \in 1..8 : r[k] = Press(presses[1])[k]
    <3> SUFFICES ASSUME NEW k \in 1..8 PROVE r[k] = Press(presses[1])[k]
      OBVIOUS
    <3>1. 1 \in 1..m /\ 0 + 16 * 1 - 16 + k = k
      BY <1>5
    <3>2. all[0 + 16 * 1 - 16 + k] = Press(presses[1])[k]
      BY <1>4, <3>1
    <3>3. all[k] = r[k]
      BY <1>3
    <3> QED
      BY <3>1, <3>2, <3>3
  <2> QED
    <3>1. /\ Press(presses[1]) \in Seq(Octet) /\ Len(Press(presses[1])) = 8
          /\ presses[1] = Head(presses)
      BY <1>6, PressIsReport
    <3>2. r = Press(presses[1])
      BY <2>1, <3>1, SameBytes DEF IsReport
    <3> QED
      BY <3>1, <3>2
<1>8. l = 16 * n + 8 /\ \A j \in 1..l : t[j] = all[8 + j]
  BY <1>3, <1>4, <1>5
<1>9. \A k \in 1..8 : t[k] = clear_command[k]
  <2> SUFFICES ASSUME NEW k \in 1..8 PROVE t[k] = clear_command[k]
    OBVIOUS
  <2>1. 1 \in 1..m /\ 0 + 16 * 1 - 8 + k = 8 + k /\ k \in 1..l
    BY <1>5, <1>8
  <2>2. all[0 + 16 * 1 - 8 + k] = clear_command[k]
    BY <1>4, <2>1
  <2> QED
    BY <1>8, <2>1, <2>2
<1>10. ASSUME NEW i \in 1..n, NEW k \in 1..8
       PROVE  /\ t[8 + 16 * i - 16 + k] = Press(Tail(presses)[i])[k]
              /\ t[8 + 16 * i - 8 + k] = clear_command[k]
  <2> DEFINE j == i + 1
  <2>1. j \in 1..m /\ j \in Int
    BY <1>5
  <2>2. /\ 8 + 16 * i - 16 + k \in 1..l /\ 8 + (8 + 16 * i - 16 + k) = 0 + 16 * j - 16 + k
        /\ 8 + 16 * i - 8 + k \in 1..l /\ 8 + (8 + 16 * i - 8 + k) = 0 + 16 * j - 8 + k
    BY <1>8
  <2>3. Tail(presses)[i] = presses[j]
    BY <1>6
  <2> HIDE DEF j
  <2>4. /\ t[8 + 16 * i - 16 + k] = all[0 + 16 * j - 16 + k]
        /\ t[8 + 16 * i - 8 + k] = all[0 + 16 * j - 8 + k]
    BY <1>8, <2>2
  <2>5. /\ all[0 + 16 * j - 16 + k] = Press(presses[j])[k]
        /\ all[0 + 16 * j - 8 + k] = clear_command[k]
    BY <1>4, <2>1
  <2> QED
    BY <2>3, <2>4, <2>5
<1>11. InTurn(t, 8, Tail(presses))
  BY <1>2, <1>6, <1>8, <1>9, <1>10 DEF InTurn
<1> QED
  BY <1>6, <1>7, <1>11

-----------------------------------------------------------------------------
(* The key table *)

LEMMA RowTypes ==
  \A r \in keyboard_map : r[1] \in 0..255 /\ r[2] \in 0..255 /\ r[3] \in 0..255
<1> SUFFICES ASSUME NEW r \in keyboard_map
             PROVE  r[1] \in 0..255 /\ r[2] \in 0..255 /\ r[3] \in 0..255
  OBVIOUS
<1>1. CASE \E c \in 97..122 : r = <<c, 0, c - 93>>
  BY <1>1
<1>2. CASE \E c \in 65..90 : r = <<c, Shift, c - 61>>
  BY <1>2 DEF Shift
<1>3. CASE \E c \in 49..57 : r = <<c, 0, c - 19>>
  BY <1>3
<1> QED
  BY <1>1, <1>2, <1>3 DEF keyboard_map, Control, Shift

LEMMA KeyOfChar ==
  ASSUME NEW c
  PROVE  /\ KeyOf(c) \in Pair
         /\ Expect(c) = IF KeyOf(c)[2] = 0 THEN expected ELSE Append(expected, KeyOf(c))
         /\ Rows(c) = {} => KeyOf(c)[2] = 0
         /\ Rows(c) # {} => translateInput(c) = Press(KeyOf(c))
<1>1. CASE Rows(c) = {}
  BY <1>1 DEF KeyOf, Pair, Expect, HasKey
<1>2. CASE Rows(c) # {}
  <2>1. Row(c) \in keyboard_map
    BY <1>2 DEF Row, Rows
  <2>2. Row(c)[2] \in 0..255 /\ Row(c)[3] \in 0..255
    BY <2>1, RowTypes
  <2>3. KeyOf(c) = <<Row(c)[2], Row(c)[3]>>
    BY <1>2 DEF KeyOf
  <2> QED
    BY <1>2, <2>2, <2>3 DEF Pair, Expect, HasKey, translateInput, Press
<1> QED
  BY <1>1, <1>2

LEMMA KeyOrNone ==
  ASSUME NEW x \in Pair, x[2] # 0
  PROVE  x \in Key
BY DEF Pair, Key

(* The keys of the stored characters follow the queue. *)
LEMMA KeysOfQueue ==
  ASSUME NEW chars \in Seq(Char)
  PROVE  /\ KeysOf(chars) \in Seq(Pair) /\ Len(KeysOf(chars)) = Len(chars)
         /\ \A c \in Char : KeysOf(Append(chars, c)) = Append(KeysOf(chars), KeyOf(c))
         /\ chars # <<>> => /\ KeysOf(chars) # <<>> /\ Head(KeysOf(chars)) = KeyOf(Head(chars))
                            /\ KeysOf(Tail(chars)) = Tail(KeysOf(chars))
<1>1. ASSUME NEW s \in Seq(Char)
      PROVE  /\ KeysOf(s) \in Seq(Pair) /\ Len(KeysOf(s)) = Len(s)
             /\ \A i \in 1..Len(s) : KeysOf(s)[i] = KeyOf(s[i])
  <2>1. Len(s) \in Nat
    BY LenProperties
  <2>2. KeysOf(s) \in [1..Len(s) -> Pair] /\ \A i \in 1..Len(s) : KeysOf(s)[i] = KeyOf(s[i])
    BY KeyOfChar DEF KeysOf
  <2>3. KeysOf(s) \in Seq(Pair)
    BY <2>1, <2>2, SeqDef
  <2>4. Len(KeysOf(s)) = Len(s)
    BY <2>1, <2>2, <2>3, LenProperties
  <2> QED
    BY <2>2, <2>3, <2>4
<1>2. ASSUME NEW c \in Char PROVE KeysOf(Append(chars, c)) = Append(KeysOf(chars), KeyOf(c))
  <2> DEFINE s == Append(chars, c)
             a == KeysOf(s)
             b == Append(KeysOf(chars), KeyOf(c))
  <2>1. PICK n \in Nat : n = Len(chars)
    BY LenProperties
  <2>2. s \in Seq(Char) /\ Len(s) = n + 1 /\ s[n + 1] = c /\ \A i \in 1..n : s[i] = chars[i]
    BY <2>1, AppendProperties
  <2> HIDE DEF s
  <2>3. a \in Seq(Pair) /\ Len(a) = n + 1 /\ \A i \in 1..(n + 1) : a[i] = KeyOf(s[i])
    BY <1>1, <2>2
  <2>4. KeysOf(chars) \in Seq(Pair) /\ Len(KeysOf(chars)) = n
        /\ \A i \in 1..n : KeysOf(chars)[i] = KeyOf(chars[i])
    BY <1>1, <2>1
  <2>5. b \in Seq(Pair) /\ Len(b) = n + 1 /\ b[n + 1] = KeyOf(c)
        /\ \A i \in 1..n : b[i] = KeyOf(chars[i])
    BY <2>4, KeyOfChar, AppendProperties
  <2> HIDE DEF a, b
  <2>6. \A i \in 1..(n + 1) : a[i] = b[i]
    BY <2>2, <2>3, <2>5
  <2> QED
    BY <2>3, <2>5, <2>6, SeqEqual DEF a, b, s
<1>3. ASSUME chars # <<>>
      PROVE  /\ KeysOf(chars) # <<>> /\ Head(KeysOf(chars)) = KeyOf(Head(chars))
             /\ KeysOf(Tail(chars)) = Tail(KeysOf(chars))
  <2> DEFINE k == KeysOf(chars)
             s == Tail(chars)
             a == KeysOf(s)
  <2>1. PICK n \in Nat : n + 1 = Len(chars)
    <3>1. Len(chars) \in Nat \ {0}
      BY <1>3, EmptySeq
    <3>2. Len(chars) - 1 \in Nat /\ (Len(chars) - 1) + 1 = Len(chars)
      BY <3>1
    <3> QED
      BY <3>2
  <2>2. s \in Seq(Char) /\ Len(s) = n /\ Head(chars) = chars[1]
        /\ \A i \in 1..n : s[i] = chars[i + 1]
    BY <1>3, <2>1, HeadTailProperties
  <2>3. k \in Seq(Pair) /\ Len(k) = n + 1 /\ \A i \in 1..(n + 1) : k[i] = KeyOf(chars[i])
    BY <1>1, <2>1
  <2> HIDE DEF s, k
  <2>4. a \in Seq(Pair) /\ Len(a) = n /\ \A i \in 1..n : a[i] = KeyOf(s[i])
    BY <1>1, <2>2
  <2> HIDE DEF a
  <2>5. k # <<>>
    BY <2>3, EmptySeq
  <2>6. Tail(k) \in Seq(Pair) /\ Len(Tail(k)) = n /\ Head(k) = k[1]
        /\ \A i \in 1..n : Tail(k)[i] = k[i + 1]
    BY <2>3, <2>5, HeadTailProperties
  <2>7. \A i \in 1..n : a[i] = Tail(k)[i]
    BY <2>2, <2>3, <2>4, <2>6
  <2>8. a = Tail(k)
    BY <2>4, <2>6, <2>7, SeqEqual
  <2>9. 1 \in 1..(n + 1)
    OBVIOUS
  <2> QED
    BY <2>2, <2>3, <2>5, <2>6, <2>8, <2>9 DEF a, k, s
<1> QED
  BY <1>1, <1>2, <1>3

-----------------------------------------------------------------------------
(* The inductive invariant *)

LEMMA OctetsMove ==
  ASSUME NEW f \in Seq(Octet), NEW p \in Seq(Octet), NEW b \in Octet, NEW rest \in Seq(Octet)
  PROVE  (f \o Append(p, b)) \o rest = (f \o p) \o (<<b>> \o rest)
<1> DEFINE one == <<b>>
           fp == f \o p
<1>1. Append(p, b) = p \o one
  BY AppendIsConcat
<1>2. fp \in Seq(Octet)
  BY ConcatProperties
<1>3. one \in Seq(Octet)
  OBVIOUS
<1> HIDE DEF one
<1> HIDE DEF fp
<1>4. Glued(f, p, one) /\ Glued(fp, one, rest)
  BY <1>2, <1>3, Glue
<1> QED
  BY <1>1, <1>4 DEF one, fp, Glued

LEMMA OctetLeads ==
  ASSUME NEW S, NEW f \in Seq(S), NEW p \in Seq(S), NEW b \in S
  PROVE  Append(f, b) \o p = f \o (<<b>> \o p)
<1> DEFINE one == <<b>>
<1>1. Append(f, b) = f \o one
  BY AppendIsConcat
<1>2. one \in Seq(S)
  OBVIOUS
<1> HIDE DEF one
<1>3. Glued(f, one, p)
  BY <1>2, Glue
<1> QED
  BY <1>1, <1>3 DEF one, Glued

LEMMA HeadAndTail ==
  ASSUME NEW S, NEW s \in Seq(S), s # <<>>
  PROVE  /\ s = <<Head(s)>> \o Tail(s) /\ Head(s) \in S /\ Tail(s) \in Seq(S)
         /\ Len(Tail(s)) = Len(s) - 1 /\ Len(s) \in Nat \ {0}
<1>1. /\ Head(s) \in S /\ Tail(s) \in Seq(S) /\ Len(Tail(s)) = Len(s) - 1
      /\ \A i \in 1..Len(Tail(s)) : Tail(s)[i] = s[i + 1]
  BY HeadTailProperties
<1>2. Len(s) \in Nat \ {0}
  BY EmptySeq
<1>3. SubSeq(s, 1, Len(s)) = <<s[1]>> \o SubSeq(s, 2, Len(s))
  <2>1. 1 \in 1..Len(s) /\ Len(s) \in 1..Len(s) /\ 1 + 1 = 2
    BY <1>2
  <2> QED
    BY <2>1, SubSeqRecursiveFirst
<1>4. SubSeq(s, 1, Len(s)) = s /\ Tail(s) = SubSeq(s, 2, Len(s)) /\ Head(s) = s[1]
  BY SubSeqFull, TailIsSubSeq
<1> QED
  BY <1>1, <1>2, <1>3, <1>4

Behind(s, t, u, b) == Append(s \o (t \o u), b) = s \o (t \o Append(u, b))
LEMMA KeyBehind ==
  ASSUME NEW s \in Seq(Key), NEW t \in Seq(Key), NEW u \in Seq(Key), NEW b \in Key
  PROVE  Behind(s, t, u, b)
<1> DEFINE one == <<b>>
           tu == t \o u
<1>1. one \in Seq(Key) /\ Append(u, b) = u \o one /\ tu \in Seq(Key)
  BY AppendIsConcat, ConcatProperties
<1>2. s \o tu \in Seq(Key)
  BY <1>1, ConcatProperties
<1>3. Append(s \o tu, b) = (s \o tu) \o one
  BY <1>2, AppendIsConcat
<1>4. one \in Seq(Key)
  BY <1>1
<1> HIDE DEF one
<1>5. tu \in Seq(Key)
  BY <1>1
<1> HIDE DEF tu
<1>6. Glued(t, u, one) /\ Glued(s, tu, one)
  BY <1>4, <1>5, Glue
<1> QED
  BY <1>1, <1>3, <1>6 DEF tu, Glued, Behind

HeadMoves(s, t, u, b) == Append(s, b) \o (t \o u) = s \o ((<<b>> \o t) \o u)

LEMMA HeadOver ==
  ASSUME NEW S, NEW s \in Seq(S), NEW t \in Seq(S), NEW u \in Seq(S), NEW b \in S
  PROVE  HeadMoves(s, t, u, b)
<1> DEFINE one == <<b>>
           tu == t \o u
<1>1. one \in Seq(S) /\ Append(s, b) = s \o one
  BY AppendIsConcat
<1>2. tu \in Seq(S)
  BY ConcatProperties
<1>3. one \in Seq(S)
  BY <1>1
<1> HIDE DEF one
<1> HIDE DEF tu
<1>4. Glued(one, t, u) /\ Glued(s, one, tu)
  BY <1>2, <1>3, Glue
<1> QED
  BY <1>1, <1>4 DEF one, tu, Glued, HeadMoves

LEMMA IsBeginning ==
  ASSUME NEW S, NEW s \in Seq(S), NEW t \in Seq(S)
  PROVE  IsPrefix(s, s \o t)
<1>1. PICK n \in Nat : n = Len(s)
  BY LenProperties
<1>2. PICK m \in Nat : m = Len(t)
  BY LenProperties
<1> DEFINE w == s \o t
<1>3. /\ w \in Seq(S) /\ Len(w) = Len(s) + Len(t)
      /\ \A i \in 1..Len(s) : w[i] = s[i]
  BY Joined
<1> HIDE DEF w
<1>4. Len(s) <= Len(w) /\ \A i \in 1..n : w[i] = s[i] /\ w[i] \in S
  <2>1. \A i \in 1..n : s[i] \in S
    BY <1>1, ElementOfSeq
  <2> QED
    BY <1>1, <1>2, <1>3, <2>1
<1>5. SubSeq(w, 1, n) \in Seq(S) /\ Len(SubSeq(w, 1, n)) = n
      /\ \A i \in 1..n : SubSeq(w, 1, n)[i] = s[i]
  BY <1>1, <1>3, <1>4
<1>6. SubSeq(w, 1, n) = s
  BY <1>1, <1>5, SeqEqual
<1>7. SubSeq(s, 1, n) = s
  BY <1>1, SubSeqFull
<1> QED
  BY <1>1, <1>4, <1>6, <1>7 DEF IsPrefix, w

(* The last bytes of a report. *)
LEMMA RestOfReport ==
  ASSUME NEW r \in [1..8 -> Octet], NEW w \in 0..7
  PROVE  /\ SubSeq(r, w + 1, 8) \in Seq(Octet) /\ SubSeq(r, (w + 1) + 1, 8) \in Seq(Octet)
         /\ SubSeq(r, w + 1, 8) = <<r[w + 1]>> \o SubSeq(r, (w + 1) + 1, 8)
         /\ r[w + 1] \in Octet
         /\ SubSeq(r, 1, 8) = r /\ SubSeq(r, 9, 8) = <<>>
<1>1. r \in Seq(Octet) /\ Len(r) = 8
  BY EightLong
<1>2. /\ w + 1 \in 1..8 /\ 8 \in (w + 1)..8 /\ w + 1 \in Int /\ (w + 1) + 1 \in Int /\ 8 \in Int
      /\ \A i \in (w + 1)..8 : i \in 1..8
      /\ \A i \in ((w + 1) + 1)..8 : i \in 1..8
  OBVIOUS
<1>3. SubSeq(r, w + 1, 8) = <<r[w + 1]>> \o SubSeq(r, (w + 1) + 1, 8)
  BY <1>1, <1>2, SubSeqRecursiveFirst
<1>4. SubSeq(r, 1, 8) = r
  BY <1>1, SubSeqFull
<1>5. SubSeq(r, 9, 8) = <<>>
  BY SubSeqEmpty
<1>6. SubSeq(r, w + 1, 8) \in Seq(Octet) /\ SubSeq(r, (w + 1) + 1, 8) \in Seq(Octet)
  BY <1>2, SubSeqProperties
<1> QED
  BY <1>2, <1>3, <1>4, <1>5, <1>6

LEMMA WayIs ==
  ASSUME SketchTypes
  PROVE  /\ frame \in Seq(Octet) /\ pending \in Seq(Octet) /\ frame \o pending \in Seq(Octet)
         /\ keyboard_buffer \in [1..8 -> Octet] /\ written \in 0..7
         /\ Unwritten \in Seq(Octet) /\ OnTheWay \in Seq(Octet)
<1>1. /\ frame \in Seq(Octet) /\ pending \in Seq(Octet)
      /\ keyboard_buffer \in [1..8 -> Octet] /\ written \in 0..7
      /\ point \in {"loop", "press", "clear"}
  BY DEF SketchTypes, Octet, ReportSize
<1>2. Unwritten \in Seq(Octet)
  <2>1. /\ SubSeq(keyboard_buffer, written + 1, 8) \in Seq(Octet)
        /\ SubSeq(clear_command, written + 1, 8) \in Seq(Octet)
    BY <1>1, ClearIsReport, RestOfReport
  <2>2. SubSeq(keyboard_buffer, written + 1, 8) \o clear_command \in Seq(Octet)
    BY <2>1, ClearIsReport, ConcatProperties
  <2> QED
    BY <2>1, <2>2, EmptySeq DEF Unwritten
<1>3. frame \o pending \in Seq(Octet)
  BY <1>1, ConcatProperties
<1>4. OnTheWay \in Seq(Octet)
  BY <1>2, <1>3, ConcatProperties DEF OnTheWay
<1> QED
  BY <1>1, <1>2, <1>3, <1>4

LEMMA SketchStarts == SketchInit => SketchInv
<1> SUFFICES ASSUME SketchInit PROVE SketchInv
  OBVIOUS
<1>1. /\ stored = <<>> /\ lastRead = 256 /\ pending = <<>> /\ sent = 256
      /\ point = "loop" /\ keyboard_buffer = Zeroes /\ written = 0
      /\ frame = <<>> /\ down = 0 /\ mods = 0 /\ typed = <<>> /\ arrived = 0 /\ expected = <<>>
  BY DEF SketchInit, Uart!QInit, Serial!TInit
<1>2. SketchTypes
  <2>1. RxCap \in Nat /\ TxCap \in Nat /\ MaxChars \in Nat
    BY KeyboardOverSerialAssumption
  <2>2. Zeroes \in [1..ReportSize -> 0..255] /\ 0 \in 0..(ReportSize - 1)
    BY DEF Zeroes, ReportSize
  <2>3. Len(<<>>) = 0
    OBVIOUS
  <2> QED
    BY <1>1, <2>1, <2>2, <2>3, EmptySeq DEF SketchTypes, ReportSize
<1>3. OnTheWay = <<>> /\ KeysOf(stored) = <<>>
  BY <1>1 DEF OnTheWay, Unwritten, KeysOf
<1>4. InTurn(<<>>, 0, <<>>)
  BY DEF InTurn
<1>5. Relayed(0, <<>>, <<>>, <<>>)
  BY <1>1, <1>3, <1>4, TypesNothing, EmptySeq DEF Relayed
<1> QED
  BY <1>1, <1>2, <1>5 DEF SketchInv

(* The main loop reads a character. *)
LEMMA ReadTypes ==
  ASSUME SketchTypes, point = "loop" => written = 0, ReadAndTranslate
  PROVE  SketchTypes' /\ (point = "loop" => written = 0)'
<1>1. /\ stored # <<>> /\ lastRead' = Head(stored) /\ stored' = Tail(stored)
      /\ point = "loop" /\ point' \in {"loop", "press"} /\ keyboard_buffer' = translateInput(lastRead')
      /\ UNCHANGED <<written, pending, sent, frame, down, mods, typed, arrived, expected>>
  BY DEF ReadAndTranslate, Uart!Get, serial, target
<1>2. lastRead' \in Char /\ stored' \in Seq(Char) /\ Len(stored') <= RxCap
  BY <1>1, HeadAndTail, KeyboardOverSerialAssumption DEF SketchTypes
<1>3. keyboard_buffer' \in [1..8 -> 0..255]
  <2>1. CASE Rows(lastRead') = {}
    BY <1>1, <2>1 DEF translateInput, Zeroes, ReportSize
  <2>2. CASE Rows(lastRead') # {}
    <3>1. translateInput(lastRead') = Press(KeyOf(lastRead')) /\ KeyOf(lastRead') \in Pair
      BY <2>2, KeyOfChar
    <3>2. Press(KeyOf(lastRead')) \in [1..8 -> Octet]
      BY <3>1, PressIsReport
    <3> QED
      BY <1>1, <3>1, <3>2 DEF Octet
  <2> QED
    BY <2>1, <2>2
<1> QED
  BY <1>1, <1>2, <1>3 DEF SketchTypes, ReportSize

LEMMA ReadRelays ==
  ASSUME SketchTypes, point = "loop" => written = 0, ReadAndTranslate,
         NEW offset, NEW presses, NEW soon, NEW later, Relayed(offset, presses, soon, later)
  PROVE  \E presses2, soon2, later2 : Relayed(offset, presses2, soon2, later2)'
<1> DEFINE c == Head(stored)
           x == KeyOf(c)
<1>1. /\ stored # <<>> /\ stored' = Tail(stored) /\ point = "loop" /\ written' = 0
      /\ keyboard_buffer' = translateInput(c)
      /\ point' = IF Rows(c) = {} THEN "loop" ELSE "press"
      /\ UNCHANGED <<pending, frame, down, mods, typed, expected>>
  BY DEF ReadAndTranslate, Uart!Get, serial, target
<1>2. /\ offset \in {0, 8} /\ presses \in Seq(Pair) /\ soon \in Seq(Key) /\ later \in Seq(Key)
      /\ expected = typed \o (soon \o later)
      /\ Types(presses, soon) /\ Types(KeysOf(stored), later)
      /\ InTurn(OnTheWay, offset, presses) /\ (offset = 0 => down = 0)
  BY DEF Relayed
<1>3. stored \in Seq(Char)
  BY DEF SketchTypes
<1>4. /\ KeysOf(stored) \in Seq(Pair) /\ KeysOf(stored) # <<>>
      /\ Head(KeysOf(stored)) = x /\ KeysOf(stored') = Tail(KeysOf(stored))
  BY <1>1, <1>3, KeysOfQueue
<1>5. /\ x \in Pair
      /\ Rows(c) = {} => x[2] = 0
      /\ Rows(c) # {} => translateInput(c) = Press(x)
  BY KeyOfChar
<1> HIDE DEF c, x
<1>6. /\ x[2] = 0 => Types(KeysOf(stored'), later)
      /\ x[2] # 0 => /\ later # <<>> /\ Head(later) = x
                     /\ Types(KeysOf(stored'), Tail(later))
  BY <1>2, <1>4, TypesTail
<1>7. OnTheWay \in Seq(Octet) /\ frame \o pending \in Seq(Octet)
  BY WayIs
<1>8. OnTheWay = frame \o pending
  BY <1>1, <1>7, ConcatEmptySeq DEF OnTheWay, Unwritten
<1>9. CASE Rows(c) = {}
  <2>1. OnTheWay' = OnTheWay
    BY <1>1, <1>9 DEF OnTheWay, Unwritten
  <2>2. Types(KeysOf(stored'), later)
    BY <1>5, <1>6, <1>9
  <2>3. Relayed(offset, presses, soon, later)'
    BY <1>1, <1>2, <2>1, <2>2 DEF Relayed
  <2> QED
    BY <2>3
<1>10. CASE Rows(c) # {}
  <2>1. OnTheWay' = OnTheWay \o (Press(x) \o clear_command)
    <3>1. keyboard_buffer' = Press(x) /\ Press(x) \in [1..8 -> Octet]
      BY <1>1, <1>5, <1>10, PressIsReport
    <3>2. SubSeq(keyboard_buffer', written' + 1, 8) = Press(x)
      <4>1. written' + 1 = 1
        BY <1>1
      <4> QED
        BY <3>1, <4>1, RestOfReport
    <3>3. Unwritten' = Press(x) \o clear_command
      BY <1>1, <1>10, <3>2 DEF Unwritten
    <3>4. OnTheWay' = (frame \o pending) \o Unwritten'
      BY <1>1 DEF OnTheWay
    <3> QED
      BY <1>8, <3>3, <3>4
  <2>2. InTurn(OnTheWay', offset, Append(presses, x))
    BY <1>2, <1>5, <1>7, <2>1, InTurnAppend
  <2>3. /\ Append(presses, x) \in Seq(Pair)
        /\ Types(Append(presses, x), IF x[2] = 0 THEN soon ELSE Append(soon, x))
    BY <1>2, <1>5, AppendProperties, TypesAppend
  <2>4. CASE x[2] = 0
    <3>1. PICK p \in Seq(Pair) : Types(p, soon) /\ InTurn(OnTheWay', offset, p)
      BY <2>2, <2>3, <2>4
    <3>2. Types(KeysOf(stored'), later)
      BY <1>6, <2>4
    <3>3. Relayed(offset, p, soon, later)'
      BY <1>1, <1>2, <3>1, <3>2 DEF Relayed
    <3> QED
      BY <3>3
  <2>5. CASE x[2] # 0
    <3>1. x \in Key
      BY <1>5, <2>5, KeyOrNone
    <3>2. Append(soon, x) \in Seq(Key)
      BY <1>2, <3>1, AppendProperties
    <3>3. Tail(later) \in Seq(Key) /\ later = <<x>> \o Tail(later)
      BY <1>2, <1>6, <2>5, HeadAndTail
    <3>4. Append(soon, x) \o Tail(later) = soon \o later
      BY <1>2, <3>1, <3>3, OctetLeads
    <3>5. PICK p \in Seq(Pair), s \in Seq(Key), l \in Seq(Key) :
            /\ Types(p, s) /\ Types(KeysOf(stored'), l) /\ InTurn(OnTheWay', offset, p)
            /\ s \o l = soon \o later
      <4>1. /\ Append(presses, x) \in Seq(Pair) /\ Types(Append(presses, x), Append(soon, x))
            /\ Types(KeysOf(stored'), Tail(later))
        BY <1>6, <2>3, <2>5
      <4> QED
        BY <2>2, <3>2, <3>3, <3>4, <4>1, Zenon
    <3>6. Relayed(offset, p, s, l)'
      BY <1>1, <1>2, <3>5 DEF Relayed
    <3> QED
      BY <3>6
  <2> QED
    BY <2>4, <2>5
<1> QED
  BY <1>9, <1>10

(* One byte of a report is written. *)
LEMMA WriteMoves ==
  ASSUME SketchTypes, point = "loop" => written = 0, WritePress \/ WriteClear
  PROVE  /\ SketchTypes' /\ (point = "loop" => written = 0)' /\ OnTheWay' = OnTheWay
         /\ UNCHANGED <<stored, frame, down, mods, typed, expected>>
<1> DEFINE report == IF point = "press" THEN keyboard_buffer ELSE clear_command
           b == report[written + 1]
           next == IF point = "press" THEN "clear" ELSE "loop"
<1>1. /\ point \in {"press", "clear"}
      /\ Len(pending) < TxCap /\ pending' = Append(pending, b) /\ sent' = sent
      /\ IF written = 7 THEN written' = 0 /\ point' = next
         ELSE written' = written + 1 /\ point' = point
      /\ UNCHANGED <<stored, lastRead, keyboard_buffer, frame, down, mods, typed, arrived, expected>>
  BY DEF WritePress, WriteClear, WriteReport, Serial!Accept, ReportSize, uart, target
<1>2. /\ frame \in Seq(Octet) /\ pending \in Seq(Octet)
      /\ keyboard_buffer \in [1..8 -> Octet] /\ written \in 0..7
  BY WayIs
<1>3. report \in [1..8 -> Octet]
  BY <1>2, ClearIsReport
<1> HIDE DEF report
<1>4. /\ SubSeq(report, written + 1, 8) = <<b>> \o SubSeq(report, (written + 1) + 1, 8)
      /\ SubSeq(report, (written + 1) + 1, 8) \in Seq(Octet) /\ b \in Octet
      /\ SubSeq(report, 9, 8) = <<>>
  BY <1>2, <1>3, RestOfReport
<1> HIDE DEF b
<1>5. Append(pending, b) \in Seq(0..255) /\ Len(Append(pending, b)) <= TxCap
  <2>1. Len(Append(pending, b)) = Len(pending) + 1 /\ Append(pending, b) \in Seq(Octet)
        /\ Len(pending) \in Nat
    BY <1>2, <1>4, AppendProperties, LenProperties
  <2> QED
    BY <1>1, <2>1, KeyboardOverSerialAssumption DEF Octet
<1>6. written' \in 0..7 /\ point' \in {"loop", "press", "clear"} /\ (point' = "loop" => written' = 0)
  BY <1>1, <1>2
<1>7. SketchTypes'
  BY <1>1, <1>5, <1>6 DEF SketchTypes, ReportSize
<1>8. ASSUME NEW rest \in Seq(Octet), Unwritten = <<b>> \o rest, Unwritten' = rest
      PROVE  OnTheWay' = OnTheWay
  <2>1. (frame \o Append(pending, b)) \o rest = (frame \o pending) \o (<<b>> \o rest)
    <3>1. frame \in Seq(Octet) /\ pending \in Seq(Octet) /\ b \in Octet
      BY <1>2, <1>4
    <3> QED
      BY <3>1, OctetsMove
  <2> QED
    BY <1>1, <1>8, <2>1 DEF OnTheWay
<1>9. SubSeq(clear_command, 1, 8) = clear_command /\ clear_command \in Seq(Octet)
  BY ClearIsReport, RestOfReport
<1>10. CASE point = "press"
  <2>1. report = keyboard_buffer
    BY <1>10 DEF report
  <2> DEFINE rest == SubSeq(report, (written + 1) + 1, 8)
             one == <<b>>
  <2>2. Unwritten = (one \o rest) \o clear_command
    BY <1>4, <1>10, <2>1 DEF Unwritten
  <2>3. (one \o rest) \o clear_command = one \o (rest \o clear_command)
    <3>1. one \in Seq(Octet) /\ rest \in Seq(Octet)
      BY <1>4
    <3> HIDE DEF one, rest
    <3>2. Glued(one, rest, clear_command)
      BY <1>9, <3>1, Glue
    <3> QED
      BY <3>2 DEF Glued
  <2>4. rest \o clear_command \in Seq(Octet)
    BY <1>4, <1>9, ConcatProperties
  <2>5. Unwritten' = rest \o clear_command
    <3>1. CASE written = 7
      <4>1. rest = <<>>
        BY <1>4, <3>1
      <4>2. Unwritten' = clear_command
        <5>1. point' = "clear" /\ written' + 1 = 1
          BY <1>1, <1>10, <3>1
        <5>2. Unwritten' = SubSeq(clear_command, 1, 8)
          BY <5>1 DEF Unwritten
        <5> QED
          BY <1>9, <5>2
      <4>3. <<>> \o clear_command = clear_command
        BY <1>9, ConcatEmptySeq
      <4> QED
        BY <4>1, <4>2, <4>3
    <3>2. CASE written # 7
      <4>1. point' = "press" /\ written' = written + 1 /\ keyboard_buffer' = keyboard_buffer
        BY <1>1, <1>10, <3>2
      <4> QED
        BY <2>1, <4>1 DEF Unwritten
    <3> QED
      BY <3>1, <3>2
  <2>6. OnTheWay' = OnTheWay
    <3> HIDE DEF rest
    <3> QED
      BY <1>8, <2>2, <2>3, <2>4, <2>5
  <2> QED
    BY <1>1, <1>6, <1>7, <2>6
<1>11. CASE point = "clear"
  <2>1. report = clear_command
    BY <1>11 DEF report
  <2> DEFINE rest == SubSeq(report, (written + 1) + 1, 8)
  <2>2. Unwritten = <<b>> \o rest
    BY <1>4, <1>11, <2>1 DEF Unwritten
  <2>3. Unwritten' = rest
    <3>1. CASE written = 7
      <4>1. rest = <<>>
        BY <1>4, <3>1
      <4> QED
        BY <1>1, <1>11, <3>1, <4>1 DEF Unwritten
    <3>2. CASE written # 7
      <4>1. point' = "clear" /\ written' = written + 1
        BY <1>1, <1>11, <3>2
      <4> QED
        BY <2>1, <4>1 DEF Unwritten
    <3> QED
      BY <3>1, <3>2
  <2>4. OnTheWay' = OnTheWay
    BY <1>4, <1>8, <2>2, <2>3
  <2> QED
    BY <1>1, <1>6, <1>7, <2>4
<1> QED
  BY <1>1, <1>10, <1>11

(* A character arrives. *)
LEMMA ArriveRelays ==
  ASSUME SketchTypes, point = "loop" => written = 0, NEW c \in Char, Arrive(c)
  PROVE  /\ SketchTypes' /\ (point = "loop" => written = 0)'
         /\ \A offset, presses, soon, later :
              Relayed(offset, presses, soon, later) =>
                \E later2 : Relayed(offset, presses, soon, later2)'
<1>1. /\ arrived < MaxChars /\ arrived' = arrived + 1
      /\ UNCHANGED <<pending, sent, point, keyboard_buffer, written, frame, down, mods, typed>>
  BY DEF Arrive, serial, sketch, target
<1>2. (point = "loop" => written = 0)' /\ OnTheWay' = OnTheWay
  BY <1>1 DEF OnTheWay, Unwritten
<1>3. arrived' \in 0..MaxChars
  BY <1>1, KeyboardOverSerialAssumption DEF SketchTypes
<1>4. stored \in Seq(Char) /\ Len(stored) <= RxCap /\ expected \in Seq(Key)
  BY DEF SketchTypes, Key
<1> DEFINE x == KeyOf(c)
<1>5. x \in Pair /\ Expect(c) = IF x[2] = 0 THEN expected ELSE Append(expected, x)
  BY KeyOfChar
<1> HIDE DEF x
<1>6. CASE UNCHANGED <<stored, lastRead, expected>>
  <2>1. SketchTypes'
    BY <1>1, <1>3, <1>6 DEF SketchTypes
  <2>2. \A offset, presses, soon, later :
          Relayed(offset, presses, soon, later) => Relayed(offset, presses, soon, later)'
    BY <1>1, <1>2, <1>6 DEF Relayed
  <2> QED
    BY <1>2, <2>1, <2>2
<1>7. CASE Uart!Put(c) /\ expected' = Expect(c)
  <2>1. Len(stored) < RxCap /\ stored' = Append(stored, c) /\ lastRead' = lastRead
        /\ expected' = Expect(c)
    BY <1>7 DEF Uart!Put
  <2>2. stored' \in Seq(Char) /\ Len(stored') <= RxCap
    <3>1. Len(Append(stored, c)) = Len(stored) + 1 /\ Append(stored, c) \in Seq(Char)
          /\ Len(stored) \in Nat
      BY <1>4, AppendProperties, LenProperties
    <3> QED
      BY <2>1, <3>1, KeyboardOverSerialAssumption
  <2>3. expected' \in Seq(Key)
    <3>1. CASE x[2] = 0
      BY <1>4, <1>5, <2>1, <3>1
    <3>2. CASE x[2] # 0
      BY <1>4, <1>5, <2>1, <3>2, KeyOrNone, AppendProperties
    <3> QED
      BY <3>1, <3>2
  <2>4. SketchTypes'
    BY <1>1, <1>3, <2>1, <2>2, <2>3 DEF SketchTypes, Key
  <2>5. ASSUME NEW offset, NEW presses, NEW soon, NEW later, Relayed(offset, presses, soon, later)
        PROVE  \E later2 : Relayed(offset, presses, soon, later2)'
    <3>1. /\ offset \in {0, 8} /\ presses \in Seq(Pair) /\ soon \in Seq(Key) /\ later \in Seq(Key)
          /\ expected = typed \o (soon \o later)
          /\ Types(presses, soon) /\ Types(KeysOf(stored), later)
          /\ InTurn(OnTheWay, offset, presses) /\ (offset = 0 => down = 0)
      BY <2>5 DEF Relayed
    <3>2. KeysOf(stored) \in Seq(Pair) /\ KeysOf(stored') = Append(KeysOf(stored), x)
      BY <1>4, <2>1, KeysOfQueue DEF x
    <3> DEFINE later2 == IF x[2] = 0 THEN later ELSE Append(later, x)
    <3>3. Types(KeysOf(stored'), later2)
      BY <1>5, <3>1, <3>2, TypesAppend
    <3>4. later2 \in Seq(Key) /\ expected' = typed \o (soon \o later2)
      <4>1. CASE x[2] = 0
        BY <1>5, <2>1, <3>1, <4>1
      <4>2. CASE x[2] # 0
        <5>1. x \in Key
          BY <1>5, <4>2, KeyOrNone
        <5>2. typed \in Seq(Key)
          BY DEF SketchTypes, Key
        <5>3. Append(typed \o (soon \o later), x) = typed \o (soon \o Append(later, x))
          <6>1. /\ typed \in Seq(Key) /\ soon \in Seq(Key) /\ later \in Seq(Key) /\ x \in Key
            BY <3>1, <5>1, <5>2
          <6>2. Behind(typed, soon, later, x)
            BY <6>1, KeyBehind
          <6> QED
            BY <6>2 DEF Behind
        <5>4. Append(later, x) \in Seq(Key)
          BY <3>1, <5>1, AppendProperties
        <5> QED
          BY <1>5, <2>1, <3>1, <4>2, <5>3, <5>4
      <4> QED
        BY <4>1, <4>2
    <3> HIDE DEF later2
    <3>5. Relayed(offset, presses, soon, later2)'
      BY <1>1, <1>2, <3>1, <3>3, <3>4 DEF Relayed
    <3> QED
      BY <3>5
  <2> QED
    BY <1>2, <2>4, <2>5
<1> QED
  BY <1>6, <1>7 DEF Arrive, uart

(* A byte reaches the USB chip; the eighth completes a report. *)
LEMMA SendTypes ==
  ASSUME SketchTypes, point = "loop" => written = 0, SendByte
  PROVE  SketchTypes' /\ (point = "loop" => written = 0)'
<1> DEFINE report == Append(frame, Head(pending))
<1>1. /\ pending # <<>> /\ sent' = Head(pending) /\ pending' = Tail(pending)
      /\ IF Len(report) < 8 THEN frame' = report /\ UNCHANGED <<down, mods, typed>>
         ELSE /\ frame' = <<>> /\ down' = report[3] /\ mods' = report[1]
              /\ typed' = IF report[3] \in {0, down} THEN typed
                          ELSE Append(typed, <<report[1], report[3]>>)
      /\ UNCHANGED <<stored, lastRead, point, keyboard_buffer, written, arrived, expected>>
  BY DEF SendByte, Serial!Emit, ReportSize, uart, sketch
<1>2. /\ frame \in Seq(Octet) /\ Len(frame) < 8 /\ pending \in Seq(Octet)
      /\ Len(pending) <= TxCap /\ typed \in Seq(Key) /\ down \in Octet /\ mods \in Octet
  BY DEF SketchTypes, Octet, Key, ReportSize
<1>3. Head(pending) \in Octet /\ Tail(pending) \in Seq(Octet) /\ Len(Tail(pending)) <= TxCap
  BY <1>1, <1>2, HeadAndTail, KeyboardOverSerialAssumption
<1>4. report \in Seq(Octet) /\ Len(report) = Len(frame) + 1 /\ Len(frame) \in Nat
  BY <1>2, <1>3, AppendProperties, LenProperties
<1> HIDE DEF report
<1>5. frame' \in Seq(Octet) /\ Len(frame') < 8
  <2>1. CASE Len(report) < 8
    BY <1>1, <1>4, <2>1
  <2>2. CASE ~(Len(report) < 8)
    <3>1. frame' = <<>> /\ <<>> \in Seq(Octet) /\ Len(<<>>) = 0
      BY <1>1, <2>2, EmptySeq
    <3> QED
      BY <3>1
  <2> QED
    BY <2>1, <2>2
<1>6. down' \in Octet /\ mods' \in Octet /\ typed' \in Seq(Key)
  <2>1. CASE Len(report) < 8
    BY <1>1, <1>2, <2>1
  <2>2. CASE ~(Len(report) < 8)
    <3>1. Len(report) = 8
      BY <1>2, <1>4, <2>2
    <3>2. report[1] \in Octet /\ report[3] \in Octet
      <4>1. 1 \in 1..Len(report) /\ 3 \in 1..Len(report)
        BY <3>1
      <4> QED
        BY <1>4, <4>1, ElementOfSeq
    <3>3. CASE report[3] \in {0, down}
      BY <1>1, <1>2, <2>2, <3>2, <3>3
    <3>4. CASE report[3] \notin {0, down}
      <4>1. <<report[1], report[3]>> \in Key
        BY <3>2, <3>4 DEF Octet, Key
      <4>2. Append(typed, <<report[1], report[3]>>) \in Seq(Key)
        BY <1>2, <4>1, AppendProperties
      <4> QED
        BY <1>1, <2>2, <3>2, <3>4, <4>2
    <3> QED
      BY <3>3, <3>4
  <2> QED
    BY <2>1, <2>2
<1>7. sent' \in 0..256
  BY <1>1, <1>3 DEF Octet
<1> QED
  BY <1>1, <1>3, <1>5, <1>6, <1>7 DEF SketchTypes, Octet, Key, ReportSize

LEMMA SendRelays ==
  ASSUME SketchTypes, SendByte, NEW offset, NEW presses, NEW soon, NEW later,
         Relayed(offset, presses, soon, later)
  PROVE  /\ \E offset2, presses2, soon2 : Relayed(offset2, presses2, soon2, later)'
         /\ down # 0 /\ Reported => AtMostShift'
<1> DEFINE report == Append(frame, Head(pending))
           rest == Tail(pending) \o Unwritten
<1>1. /\ pending # <<>> /\ sent' = Head(pending) /\ pending' = Tail(pending)
      /\ IF Len(report) < 8 THEN frame' = report /\ UNCHANGED <<down, mods, typed>>
         ELSE /\ frame' = <<>> /\ down' = report[3] /\ mods' = report[1]
              /\ typed' = IF report[3] \in {0, down} THEN typed
                          ELSE Append(typed, <<report[1], report[3]>>)
      /\ UNCHANGED <<stored, point, keyboard_buffer, written, expected>>
  BY DEF SendByte, Serial!Emit, ReportSize, uart, sketch
<1>2. /\ offset \in {0, 8} /\ presses \in Seq(Pair) /\ soon \in Seq(Key) /\ later \in Seq(Key)
      /\ expected = typed \o (soon \o later)
      /\ Types(presses, soon) /\ Types(KeysOf(stored), later)
      /\ InTurn(OnTheWay, offset, presses) /\ (offset = 0 => down = 0)
  BY DEF Relayed
<1>3. /\ frame \in Seq(Octet) /\ Len(frame) < 8 /\ pending \in Seq(Octet)
      /\ Unwritten \in Seq(Octet) /\ typed \in Seq(Key)
  BY WayIs DEF SketchTypes, Key, ReportSize
<1>4. /\ Head(pending) \in Octet /\ Tail(pending) \in Seq(Octet)
      /\ pending = <<Head(pending)>> \o Tail(pending)
  BY <1>1, <1>3, HeadAndTail
<1>5. report \in Seq(Octet) /\ Len(report) = Len(frame) + 1 /\ Len(frame) \in Nat
  BY <1>3, <1>4, AppendProperties, LenProperties
<1>6. frame \o pending = report \o Tail(pending)
  <2> DEFINE b == Head(pending)
             t == Tail(pending)
  <2>1. b \in Octet /\ t \in Seq(Octet) /\ pending = <<b>> \o t
    BY <1>4
  <2> HIDE DEF b, t
  <2>2. Append(frame, b) \o t = frame \o (<<b>> \o t)
    BY <1>3, <2>1, OctetLeads
  <2> QED
    BY <2>1, <2>2 DEF b, t
<1>7. Unwritten' = Unwritten
  BY <1>1 DEF Unwritten
<1>8. rest \in Seq(Octet)
  BY <1>3, <1>4, ConcatProperties
<1>9. OnTheWay = report \o rest
  <2> DEFINE t == Tail(pending)
  <2>1. report \in Seq(Octet) /\ t \in Seq(Octet) /\ Unwritten \in Seq(Octet)
    BY <1>3, <1>4, <1>5
  <2> HIDE DEF report, t
  <2>2. (report \o t) \o Unwritten = report \o (t \o Unwritten)
    <3>1. Glued(report, t, Unwritten)
      BY <2>1, Glue
    <3> QED
      BY <3>1 DEF Glued
  <2> QED
    BY <1>6, <2>2 DEF OnTheWay, t
<1> HIDE DEF report
<1>10. CASE Len(report) < 8
  <2>1. OnTheWay' = OnTheWay
    BY <1>1, <1>6, <1>7, <1>10 DEF OnTheWay
  <2>2. UNCHANGED <<down, mods, typed, expected, stored>>
    BY <1>1, <1>10
  <2>3. Relayed(offset, presses, soon, later)'
    BY <1>2, <2>1, <2>2 DEF Relayed
  <2>4. ~Reported
    <3>1. frame' = report /\ Len(report) # 0
      BY <1>1, <1>5, <1>10
    <3>2. Len(<<>>) = 0
      OBVIOUS
    <3> QED
      BY <3>1, <3>2 DEF Reported
  <2> QED
    BY <2>3, <2>4
<1>11. CASE ~(Len(report) < 8)
  <2>1. IsReport(report)
    BY <1>3, <1>5, <1>11 DEF IsReport
  <2>2. /\ frame' = <<>> /\ down' = report[3] /\ mods' = report[1]
        /\ typed' = IF report[3] \in {0, down} THEN typed
                    ELSE Append(typed, <<report[1], report[3]>>)
        /\ expected' = expected /\ stored' = stored
    BY <1>1, <1>11
  <2>3. OnTheWay' = rest
    <3>1. <<>> \o Tail(pending) = Tail(pending)
      BY <1>4, ConcatEmptySeq
    <3> QED
      BY <1>1, <1>7, <2>2, <3>1 DEF OnTheWay
  <2> HIDE DEF rest
  <2>5. CASE offset = 8
    <3>1. InTurn(report \o rest, 8, presses)
      BY <1>2, <1>9, <2>5
    <3>2. report = clear_command /\ InTurn(rest, 0, presses)
      BY <1>2, <1>8, <2>1, <3>1, InTurnRelease
    <3>3. down' = 0 /\ typed' = typed
      BY <2>2, <3>2, ClearIsReport
    <3>4. Relayed(0, presses, soon, later)'
      BY <1>2, <2>2, <2>3, <3>2, <3>3 DEF Relayed
    <3>5. AtMostShift'
      BY <2>2, <3>2, <3>3, ClearHoldsShift DEF AtMostShift
    <3> QED
      BY <3>4, <3>5
  <2>6. CASE offset = 0
    <3> DEFINE x == Head(presses)
               p == Tail(presses)
    <3>1. InTurn(report \o rest, 0, presses)
      BY <1>2, <1>9, <2>6
    <3>2. presses # <<>> /\ report = Press(x) /\ InTurn(rest, 8, p)
      BY <1>2, <1>8, <2>1, <3>1, InTurnPress
    <3>3. x \in Pair /\ p \in Seq(Pair)
      BY <1>2, <3>2, HeadTailProperties
    <3>4. /\ x[2] = 0 => Types(p, soon)
          /\ x[2] # 0 => soon # <<>> /\ Head(soon) = x /\ Types(p, Tail(soon))
      BY <1>2, <3>2, TypesTail
    <3> HIDE DEF x, p
    <3>5. report[1] = x[1] /\ report[3] = x[2] /\ down = 0
      BY <1>2, <2>6, <3>2, <3>3, PressIsReport
    <3>6. CASE x[2] = 0
      <4>1. typed' = typed
        BY <2>2, <3>5, <3>6
      <4>2. Types(p, soon) /\ soon \in Seq(Key)
        BY <1>2, <3>4, <3>6
      <4>3. PICK p2 \in Seq(Pair), s2 \in Seq(Key) :
              /\ Types(p2, s2) /\ InTurn(OnTheWay', 8, p2)
              /\ expected' = typed' \o (s2 \o later)
        BY <1>2, <2>2, <2>3, <3>2, <3>3, <4>1, <4>2
      <4>4. Relayed(8, p2, s2, later)'
        BY <1>2, <2>2, <4>3 DEF Relayed
      <4> QED
        BY <3>5, <4>4
    <3>7. CASE x[2] # 0
      <4>1. <<report[1], report[3]>> = x /\ x \in Key
        BY <3>3, <3>5, <3>7, KeyOrNone DEF Pair
      <4>2. typed' = Append(typed, x)
        BY <2>2, <3>5, <3>7, <4>1
      <4> DEFINE s == Tail(soon)
      <4>3. soon = <<x>> \o s /\ s \in Seq(Key) /\ Types(p, s)
        BY <1>2, <3>4, <3>7, HeadAndTail
      <4> HIDE DEF s
      <4>4. expected = Append(typed, x) \o (s \o later)
        <5>1. Append(typed, x) \o (s \o later) = typed \o ((<<x>> \o s) \o later)
          <6>1. typed \in Seq(Key) /\ s \in Seq(Key) /\ later \in Seq(Key) /\ x \in Key
            BY <1>2, <1>3, <4>1, <4>3
          <6>2. HeadMoves(typed, s, later, x)
            BY <6>1, HeadOver
          <6> QED
            BY <6>2 DEF HeadMoves
        <5> QED
          BY <1>2, <4>3, <5>1
      <4>5. PICK p2 \in Seq(Pair), s2 \in Seq(Key) :
              /\ Types(p2, s2) /\ InTurn(OnTheWay', 8, p2)
              /\ expected' = typed' \o (s2 \o later)
        BY <2>2, <2>3, <3>2, <3>3, <4>2, <4>3, <4>4
      <4>6. Relayed(8, p2, s2, later)'
        BY <1>2, <2>2, <4>5 DEF Relayed
      <4> QED
        BY <3>5, <4>6
    <3> QED
      BY <3>6, <3>7
  <2> QED
    BY <1>2, <2>5, <2>6
<1> QED
  BY <1>10, <1>11

LEMMA SketchStep ==
  ASSUME SketchInv, [SketchNext]_sketchvars
  PROVE  /\ SketchInv'
         /\ down # 0 /\ Reported => AtMostShift'
<1>1. SketchTypes /\ (point = "loop" => written = 0)
  BY DEF SketchInv
<1>2. PICK offset, presses, soon, later : Relayed(offset, presses, soon, later)
  BY DEF SketchInv
<1>3. CASE ReadAndTranslate
  <2>1. ~Reported
    BY <1>3 DEF ReadAndTranslate, target, Reported
  <2> QED
    BY <1>1, <1>2, <1>3, <2>1, ReadTypes, ReadRelays DEF SketchInv
<1>4. CASE WritePress \/ WriteClear
  <2>1. /\ SketchTypes' /\ (point = "loop" => written = 0)' /\ OnTheWay' = OnTheWay
        /\ UNCHANGED <<stored, frame, down, mods, typed, expected>>
    BY <1>1, <1>4, WriteMoves
  <2>2. Relayed(offset, presses, soon, later)'
    BY <1>2, <2>1 DEF Relayed
  <2>3. ~Reported
    BY <2>1 DEF Reported
  <2> QED
    BY <2>1, <2>2, <2>3 DEF SketchInv
<1>5. CASE \E c \in Char : Arrive(c)
  <2>1. PICK c \in Char : Arrive(c)
    BY <1>5
  <2>2. ~Reported
    BY <2>1 DEF Arrive, target, Reported
  <2> QED
    BY <1>1, <1>2, <2>1, <2>2, ArriveRelays DEF SketchInv
<1>6. CASE SendByte
  <2>1. /\ \E offset2, presses2, soon2 : Relayed(offset2, presses2, soon2, later)'
        /\ down # 0 /\ Reported => AtMostShift'
    BY <1>1, <1>2, <1>6, SendRelays
  <2>2. SketchTypes' /\ (point = "loop" => written = 0)'
    BY <1>1, <1>6, SendTypes
  <2> QED
    BY <2>1, <2>2 DEF SketchInv
<1>7. CASE UNCHANGED sketchvars
  <2>1. /\ UNCHANGED <<stored, lastRead, pending, sent, point, keyboard_buffer, written>>
        /\ UNCHANGED <<frame, down, mods, typed, arrived, expected>>
    BY <1>7 DEF sketchvars, uart, serial, sketch, target
  <2>2. SketchTypes' /\ (point = "loop" => written = 0)'
    BY <1>1, <2>1 DEF SketchTypes
  <2>3. Relayed(offset, presses, soon, later)'
    BY <1>2, <2>1 DEF Relayed, OnTheWay, Unwritten
  <2>4. ~Reported
    BY <2>1 DEF Reported
  <2> QED
    BY <2>2, <2>3, <2>4 DEF SketchInv
<1> QED
  BY <1>3, <1>4, <1>5, <1>6, <1>7 DEF SketchNext, Main

(* What was typed is a beginning of what is expected. *)
LEMMA TypedIsBeginning == SketchInv => TypedInOrder
<1> SUFFICES ASSUME SketchInv PROVE TypedInOrder
  OBVIOUS
<1>1. PICK offset, presses, soon, later : Relayed(offset, presses, soon, later)
  BY DEF SketchInv
<1> DEFINE more == soon \o later
<1>2. more \in Seq(Key) /\ expected = typed \o more /\ typed \in Seq(Key)
  <2>1. soon \in Seq(Key) /\ later \in Seq(Key)
    BY <1>1 DEF Relayed
  <2>2. expected = typed \o more
    BY <1>1 DEF Relayed
  <2>3. typed \in Seq(Key)
    BY DEF SketchInv, SketchTypes, Key
  <2>4. more \in Seq(Key)
    BY <2>1, ConcatProperties
  <2> QED
    BY <2>2, <2>3, <2>4
<1> HIDE DEF more
<1>3. IsPrefix(typed, typed \o more)
  BY <1>2, IsBeginning
<1> QED
  BY <1>2, <1>3 DEF TypedInOrder

(* The target types the keys of the characters that the software serial    *)
(* port stored, in order, once each, and the report behind each key's      *)
(* lifts it and every modifier but Left Shift: for any characters, any     *)
(* number of them, and ports of any size (Keyboard_Over_Serial.cpp:18-29). *)
THEOREM KeysTypedRight == SketchSpec => TypedRight
<1>1. SketchInv => SketchTypes /\ TypedInOrder
  BY TypedIsBeginning DEF SketchInv
<1>2. SketchInv /\ [SketchNext]_sketchvars =>
        /\ SketchInv'
        /\ down # 0 /\ Reported => AtMostShift'
  BY SketchStep
<1> QED
  BY <1>1, <1>2, SketchStarts, PTL DEF SketchSpec, TypedRight

-----------------------------------------------------------------------------
(* The table (include/UsbKeyboardMapping.h), read backwards                *)

(* The character of a key without a modifier and with Shift, where the keys *)
(* are not in the order of the characters.                                  *)
PlainOf(key) ==
  CASE key = 39 -> 48 [] key = 40 -> 13 [] key = 41 -> 27 [] key = 42 -> 8
    [] key = 43 -> 9  [] key = 44 -> 32 [] key = 45 -> 45 [] key = 46 -> 61
    [] key = 47 -> 91 [] key = 48 -> 93 [] key = 49 -> 92 [] key = 51 -> 59
    [] key = 52 -> 39 [] key = 53 -> 96 [] key = 54 -> 44 [] key = 55 -> 46
    [] key = 56 -> 47 [] key = 79 -> 29 [] key = 80 -> 28 [] key = 81 -> 31
    [] OTHER -> 30
ShiftedOf(key) ==
  CASE key = 30 -> 33 [] key = 31 -> 64 [] key = 32 -> 35 [] key = 33 -> 36
    [] key = 34 -> 37 [] key = 35 -> 94 [] key = 36 -> 38 [] key = 37 -> 42
    [] key = 38 -> 40 [] key = 39 -> 41 [] key = 45 -> 95 [] key = 46 -> 43
    [] key = 47 -> 123 [] key = 48 -> 125 [] key = 49 -> 124 [] key = 51 -> 58
    [] key = 52 -> 34 [] key = 53 -> 126 [] key = 54 -> 60 [] key = 55 -> 62
    [] OTHER -> 63
CharacterOf(modifier, key) ==
  IF modifier = Control THEN key - 3
  ELSE IF modifier = Shift THEN IF key \in 4..29 THEN key + 61 ELSE ShiftedOf(key)
  ELSE IF key \in 4..29 THEN key + 93
  ELSE IF key \in 30..38 THEN key + 19 ELSE PlainOf(key)

(* What the table says of each row. *)
LEMMA TableInverted ==
  \A r \in keyboard_map :
    /\ r[3] # 0 => r[1] = CharacterOf(r[2], r[3])
    /\ r[1] \in 32..126 => r[3] # 0
<1>1. \A r \in keyboard_map : r[1] \in 32..126 => r[3] # 0
  BY DEF keyboard_map, Control, Shift
<1>2. \A r \in keyboard_map : r[2] = Control /\ r[3] # 0 => r[1] = r[3] - 3
  BY DEF keyboard_map, Control, Shift
<1>3. \A r \in keyboard_map : r[2] = Shift /\ r[3] # 0 =>
        r[1] = IF r[3] \in 4..29 THEN r[3] + 61 ELSE ShiftedOf(r[3])
  BY SMTT(60) DEF keyboard_map, Control, Shift, ShiftedOf
<1>4. \A r \in keyboard_map : r[2] # Shift /\ r[2] # Control /\ r[3] # 0 =>
        r[1] = IF r[3] \in 4..29 THEN r[3] + 93 ELSE
               IF r[3] \in 30..38 THEN r[3] + 19 ELSE PlainOf(r[3])
  BY SMTT(60) DEF keyboard_map, Control, Shift, PlainOf
<1>5. Shift # Control
  BY DEF Shift, Control
<1> QED BY <1>1, <1>2, <1>3, <1>4, <1>5 DEF CharacterOf

(* Each printable character has a row. *)
LEMMA TableComplete ==
  \A c \in 32..126 : \E r \in keyboard_map : r[1] = c
<1> SUFFICES ASSUME NEW c \in 32..126
             PROVE  \E r \in keyboard_map : r[1] = c
  OBVIOUS
<1>1. CASE c \in 97..122
  <2>1. <<c, 0, c - 93>> \in keyboard_map
    BY <1>1 DEF keyboard_map
  <2> QED BY <2>1
<1>2. CASE c \in 65..90
  <2>1. <<c, Shift, c - 61>> \in keyboard_map
    BY <1>2 DEF keyboard_map
  <2> QED BY <2>1
<1>3. CASE c \in 49..57
  <2>1. <<c, 0, c - 19>> \in keyboard_map
    BY <1>3 DEF keyboard_map
  <2> QED BY <2>1
<1>4. CASE c \in 32..48
  <2>1. {<<32, 0, 44>>, <<33, Shift, 30>>, <<34, Shift, 52>>, <<35, Shift, 32>>,
         <<36, Shift, 33>>, <<37, Shift, 34>>, <<38, Shift, 36>>, <<39, 0, 52>>,
         <<40, Shift, 38>>, <<41, Shift, 39>>, <<42, Shift, 37>>, <<43, Shift, 46>>,
         <<44, 0, 54>>, <<45, 0, 45>>, <<46, 0, 55>>, <<47, 0, 56>>,
         <<48, 0, 39>>}
        \subseteq keyboard_map
    BY DEF keyboard_map
  <2> QED BY <1>4, <2>1
<1>5. CASE c \in 58..64
  <2>1. {<<58, Shift, 51>>, <<59, 0, 51>>, <<60, Shift, 54>>, <<61, 0, 46>>,
         <<62, Shift, 55>>, <<63, Shift, 56>>, <<64, Shift, 31>>}
        \subseteq keyboard_map
    BY DEF keyboard_map
  <2> QED BY <1>5, <2>1
<1>6. CASE c \in 91..96
  <2>1. {<<91, 0, 47>>, <<92, 0, 49>>, <<93, 0, 48>>, <<94, Shift, 35>>,
         <<95, Shift, 45>>, <<96, 0, 53>>}
        \subseteq keyboard_map
    BY DEF keyboard_map
  <2> QED BY <1>6, <2>1
<1>7. CASE c \in 123..126
  <2>1. {<<123, Shift, 47>>, <<124, Shift, 49>>, <<125, Shift, 48>>, <<126, Shift, 53>>}
        \subseteq keyboard_map
    BY DEF keyboard_map
  <2> QED BY <1>7, <2>1
<1> QED
  BY <1>1, <1>2, <1>3, <1>4, <1>5, <1>6, <1>7

(* A printable character is relayed, as its own key. *)
LEMMA TranslatesPrintable ==
  ASSUME NEW c \in 32..126
  PROVE  LET report == translateInput(c)
         IN  /\ report[3] # 0
             /\ \A r \in keyboard_map : r[2] = report[1] /\ r[3] = report[3] => r[1] = c
<1>1. Rows(c) # {}
  BY TableComplete DEF Rows
<1>2. Row(c) \in Rows(c)
  BY <1>1 DEF Row
<1>3. PICK row \in keyboard_map : row = Row(c) /\ row[1] = c
  BY <1>2 DEF Rows
<1>4. row[3] # 0
  BY <1>3, TableInverted
<1>5. /\ translateInput(c)[1] = row[2]
      /\ translateInput(c)[3] = row[3]
  <2>1. translateInput(c) = [Zeroes EXCEPT ![1] = row[2], ![3] = row[3]]
    BY <1>1, <1>3 DEF translateInput
  <2>2. DOMAIN Zeroes = 1..8
    BY DEF Zeroes, ReportSize
  <2> QED BY <2>1, <2>2
<1>6. ASSUME NEW r \in keyboard_map, r[2] = row[2], r[3] = row[3]
      PROVE  r[1] = c
  <2>1. r[1] = CharacterOf(r[2], r[3]) /\ row[1] = CharacterOf(row[2], row[3])
    BY <1>4, <1>6, TableInverted
  <2> QED BY <1>3, <1>6, <2>1
<1> QED
  BY <1>4, <1>5, <1>6

(* For each printable character translateInput() makes a report with a key, *)
(* and no other character of the table has the same key and modifiers      *)
(* (UsbKeyboardMapping.h:12-36).                                           *)
THEOREM PrintableAreRelayed == SketchSpec => []PrintableRelayed
<1>1. PrintableRelayed
  BY TranslatesPrintable DEF PrintableRelayed
<1> QED
  BY <1>1, PTL
=============================================================================
