--------------------------- MODULE UsbSerialProofs ---------------------------
(***************************************************************************)
(* Theorems about the data path of the USB serial port (core/CDC.cpp and   *)
(* USBCore.cpp), for any buffers, any size of the end points, any number   *)
(* of waits and whatever the host does: transfers are ended, available()   *)
(* tells the truth, and both directions are pipes of packets.              *)
(***************************************************************************)
EXTENDS UsbSerial, SequenceTheorems, TLAPS

-----------------------------------------------------------------------------
(* The bytes of no, one or two banks *)

LEMMA FlatOfNone == FlattenSeq(<<>>) = <<>>
  BY DEF FlattenSeq

LEMMA FlatOfOne ==
  ASSUME NEW a
  PROVE  FlattenSeq(<<a>>) = a
<1> DEFINE s == <<a>>
           Is(g) == g = [i \in 1..Len(s) |-> IF i = 1 THEN s[i] ELSE g[i - 1] \o s[i]]
           h == CHOOSE g : Is(g)
           w == [i \in 1..1 |-> a]
<1>1. Len(s) = 1 /\ s[1] = a
  OBVIOUS
<1>2. FlattenSeq(s) = h[Len(s)]
  BY <1>1 DEF FlattenSeq
<1>3. Is(w)
  BY <1>1
<1>4. Is(h)
  BY <1>3
<1>5. h[1] = s[1]
  <2> HIDE DEF h
  <2> QED
    BY <1>1, <1>4
<1> QED
  BY <1>1, <1>2, <1>5

LEMMA FlatOfTwo ==
  ASSUME NEW a, NEW b
  PROVE  FlattenSeq(<<a, b>>) = a \o b
<1> DEFINE s == <<a, b>>
           Is(g) == g = [i \in 1..Len(s) |-> IF i = 1 THEN s[i] ELSE g[i - 1] \o s[i]]
           h == CHOOSE g : Is(g)
           w == [i \in 1..2 |-> IF i = 1 THEN a ELSE a \o b]
<1>1. Len(s) = 2 /\ s[1] = a /\ s[2] = b
  OBVIOUS
<1>2. FlattenSeq(s) = h[Len(s)]
  BY <1>1 DEF FlattenSeq
<1>3. Is(w)
  BY <1>1
<1>4. Is(h)
  BY <1>3
<1>5. h[1] = s[1] /\ h[2] = h[1] \o s[2]
  <2> HIDE DEF h
  <2>1. \A i \in 1..2 : h[i] = IF i = 1 THEN s[i] ELSE h[i - 1] \o s[i]
    BY <1>1, <1>4
  <2>2. h[1] = s[1]
    BY <2>1
  <2>3. h[2] = h[1] \o s[2]
    <3>1. h[2] = IF 2 = 1 THEN s[2] ELSE h[2 - 1] \o s[2]
      BY <2>1
    <3>2. 2 - 1 = 1 /\ 2 # 1
      OBVIOUS
    <3> HIDE DEF s
    <3> QED
      BY <3>1, <3>2, Zenon
  <2> QED
    BY <2>2, <2>3
<1> QED
  BY <1>1, <1>2, <1>5

LEMMA BankCases ==
  ASSUME NEW S, NEW s \in Seq(S), Len(s) <= 2
  PROVE  \/ s = <<>>
         \/ \E a \in S : s = <<a>>
         \/ \E a \in S, b \in S : s = <<a, b>>
<1>1. CASE Len(s) = 0
  BY <1>1
<1>2. CASE Len(s) = 1
  <2>1. s[1] \in S
    BY <1>2
  <2>2. s = <<s[1]>>
    BY <1>2, <2>1, SeqEqual
  <2> QED
    BY <2>1, <2>2
<1>3. CASE Len(s) = 2
  <2>1. s = <<s[1], s[2]>> /\ s[1] \in S /\ s[2] \in S
    BY <1>3
  <2> QED
    BY <2>1
<1>4. Len(s) = 0 \/ Len(s) = 1 \/ Len(s) = 2
  <2>1. PICK k \in Nat : k = Len(s)
    BY LenProperties
  <2>2. k <= 2
    BY <2>1
  <2>3. k = 0 \/ k = 1 \/ k = 2
    BY <2>2
  <2> QED
    BY <2>1, <2>3
<1> QED
  BY <1>1, <1>2, <1>3, <1>4

-----------------------------------------------------------------------------
(* The inductive invariant *)

TxByte == UNION {ToSet(msg) : msg \in Message}
Packet(S) == {s \in Seq(S) : Len(s) <= EpSize}
Sending == pc \in {"space", "push"}

UsbTypes ==
  /\ {configured, enabled, lineState, suspended, rmwkup, hostReads, writeError, sendZlp} \subseteq BOOLEAN
  /\ uenum \in {"any", "tx", "ep0"}
  /\ pc \in {"idle", "start", "space", "push", "count", "release"}
  /\ n \in 0..EpSize /\ timeout \in 0..Timeout
  /\ Sending => timeout # 0

(* A bank being written is never full: it is released at once.             *)
TxInv ==
  /\ in \in Seq(Packet(TxByte)) /\ Len(in) <= Banks
  /\ fill \in Seq(TxByte) /\ Len(fill) < EpSize
  /\ lastLen \in Nat
  /\ todo \in Seq(TxByte) /\ Len(todo) <= Longest
  /\ pc \in {"idle", "count", "release"} => todo = <<>>
  /\ IF Sending THEN sendZlp = (todo = <<>>) /\ (sendZlp => fill = <<>>) ELSE sendZlp = FALSE
  /\ pc = "push" => /\ n <= Len(todo) /\ Len(fill) + n <= EpSize
                    /\ n = 0 => todo = <<>>

Ended == ~Sending /\ writeError = FALSE => lastLen < EpSize \/ fill # <<>>

(* A host that sends no empty packets leaves no empty bank.                *)
RxInv ==
  /\ out \in Seq(Packet(RxByte)) /\ Len(out) <= Banks
  /\ peek_buffer \in RxByte \cup {None}
  /\ HostZlp = FALSE => \A i \in 1..Len(out) : out[i] # <<>>

UInv == UsbTypes /\ TxInv /\ Ended /\ RxInv

-----------------------------------------------------------------------------
(* Banks *)

LEMMA EmptyConcat ==
  ASSUME NEW S, NEW s \in Seq(S)
  PROVE  s \o <<>> = s /\ <<>> \o s = s
  BY ConcatEmptySeq

LEMMA FlatProps ==
  ASSUME NEW S, NEW s \in Seq(Packet(S)), Len(s) <= Banks
  PROVE  /\ FlattenSeq(s) \in Seq(S) /\ Len(FlattenSeq(s)) <= Banks * EpSize
         /\ s # <<>> => /\ FlattenSeq(s) = Head(s) \o FlattenSeq(Tail(s))
                        /\ FlattenSeq(Tail(s)) \in Seq(S)
         /\ \A a \in Packet(S) : Len(s) < Banks => FlattenSeq(Append(s, a)) = FlattenSeq(s) \o a
<1>1. EpSize \in Nat /\ Banks = 2 /\ Banks * EpSize = EpSize + EpSize
  BY UsbSerialAssumption DEF Banks
<1>2. \A a \in Packet(S) : a \in Seq(S) /\ Len(a) \in Nat /\ Len(a) <= EpSize
  BY DEF Packet
<1>3. CASE s = <<>>
  <2>1. ASSUME NEW a \in Packet(S) PROVE FlattenSeq(Append(s, a)) = FlattenSeq(s) \o a
    <3>1. Append(s, a) = <<a>>
      BY <1>3
    <3> QED
      BY <1>2, <1>3, <3>1, FlatOfNone, FlatOfOne, EmptyConcat
  <2> QED
    <3>1. FlattenSeq(s) = <<>> /\ <<>> \in Seq(S) /\ Len(<<>>) = 0
      BY <1>3, FlatOfNone
    <3>2. Len(FlattenSeq(s)) <= Banks * EpSize
      BY <1>1, <3>1
    <3> QED
      BY <1>3, <2>1, <3>1, <3>2
<1>4. ASSUME NEW a \in Packet(S), s = <<a>>
      PROVE  /\ FlattenSeq(s) \in Seq(S) /\ Len(FlattenSeq(s)) <= Banks * EpSize
             /\ FlattenSeq(s) = Head(s) \o FlattenSeq(Tail(s)) /\ FlattenSeq(Tail(s)) \in Seq(S)
             /\ \A b \in Packet(S) : FlattenSeq(Append(s, b)) = FlattenSeq(s) \o b
  <2>1. Head(s) = a /\ Tail(s) = <<>> /\ \A b \in Packet(S) : Append(s, b) = <<a, b>>
    <3>1. Head(s) = a /\ Tail(s) = <<>>
      BY <1>4
    <3>2. ASSUME NEW b \in Packet(S) PROVE Append(s, b) = <<a, b>>
      <4>1. Append(<<a>>, b) \in Seq(Packet(S)) /\ <<a, b>> \in Seq(Packet(S))
        OBVIOUS
      <4>2. Len(Append(<<a>>, b)) = 2 /\ Append(<<a>>, b)[1] = a /\ Append(<<a>>, b)[2] = b
        OBVIOUS
      <4>3. Len(<<a, b>>) = 2 /\ <<a, b>>[1] = a /\ <<a, b>>[2] = b
        OBVIOUS
      <4>4. \A i \in 1..2 : Append(<<a>>, b)[i] = <<a, b>>[i]
        BY <4>2, <4>3
      <4>5. Append(<<a>>, b) = <<a, b>>
        BY <4>1, <4>2, <4>3, <4>4, SeqEqual
      <4> QED
        BY <1>4, <4>5
    <3> QED
      BY <3>1, <3>2
  <2>2. FlattenSeq(s) = a /\ FlattenSeq(Tail(s)) = <<>> /\ a \o <<>> = a
    BY <1>2, <1>4, <2>1, FlatOfNone, FlatOfOne, EmptyConcat
  <2>3. \A b \in Packet(S) : FlattenSeq(Append(s, b)) = a \o b
    BY <2>1, FlatOfTwo
  <2> QED
    <3>1. FlattenSeq(s) \in Seq(S) /\ Len(FlattenSeq(s)) <= Banks * EpSize
      BY <1>1, <1>2, <2>2
    <3>2. <<>> \in Seq(S)
      OBVIOUS
    <3> QED
      BY <2>1, <2>2, <2>3, <3>1, <3>2
<1>5. ASSUME NEW a \in Packet(S), NEW b \in Packet(S), s = <<a, b>>
      PROVE  /\ FlattenSeq(s) \in Seq(S) /\ Len(FlattenSeq(s)) <= Banks * EpSize
             /\ FlattenSeq(s) = Head(s) \o FlattenSeq(Tail(s)) /\ FlattenSeq(Tail(s)) \in Seq(S)
             /\ Len(s) = 2
  <2>1. Head(s) = a /\ Tail(s) = <<b>> /\ Len(s) = 2
    BY <1>5
  <2>2. FlattenSeq(s) = a \o b /\ FlattenSeq(Tail(s)) = b
    BY <1>5, <2>1, FlatOfOne, FlatOfTwo
  <2>3. a \o b \in Seq(S) /\ Len(a \o b) = Len(a) + Len(b)
    BY <1>2, ConcatProperties
  <2> QED
    BY <1>1, <1>2, <2>1, <2>2, <2>3
<1>6. Len(s) <= 2
  BY <1>1
<1>7. \/ s = <<>>
      \/ \E a \in Packet(S) : s = <<a>>
      \/ \E a \in Packet(S), b \in Packet(S) : s = <<a, b>>
  BY <1>6, BankCases
<1>8. CASE \E a \in Packet(S) : s = <<a>>
  BY <1>4, <1>8, Zenon
<1>9. CASE \E a \in Packet(S), b \in Packet(S) : s = <<a, b>>
  <2>1. /\ FlattenSeq(s) \in Seq(S) /\ Len(FlattenSeq(s)) <= Banks * EpSize
        /\ FlattenSeq(s) = Head(s) \o FlattenSeq(Tail(s)) /\ FlattenSeq(Tail(s)) \in Seq(S)
        /\ Len(s) = 2
    BY <1>5, <1>9, Zenon
  <2>2. ~(Len(s) < Banks)
    BY <1>1, <2>1
  <2> QED
    BY <2>1, <2>2, Zenon
<1> QED
  BY <1>3, <1>7, <1>8, <1>9

(* The bank goes to the host, or nothing changes.                          *)
LEMMA Released ==
  ASSUME UInv, NEW bank \in Packet(TxByte), ReleaseTX(bank)
  PROVE  \/ /\ enabled /\ Len(in) < Banks
            /\ in' \in Seq(Packet(TxByte)) /\ Len(in') <= Banks
            /\ FlattenSeq(in') = FlattenSeq(in) \o bank
            /\ fill' = <<>> /\ lastLen' = Len(bank)
         \/ UNCHANGED <<in, fill, lastLen>> /\ ~(enabled /\ Len(in) < Banks)
<1>1. in \in Seq(Packet(TxByte)) /\ Len(in) <= Banks /\ Banks = 2
  BY DEF UInv, TxInv, Banks
<1>2. CASE enabled /\ Len(in) < Banks
  <2>1. in' = Append(in, bank) /\ fill' = <<>> /\ lastLen' = Len(bank)
    BY <1>2 DEF ReleaseTX
  <2>2. FlattenSeq(in') = FlattenSeq(in) \o bank
    BY <1>1, <1>2, <2>1, FlatProps
  <2>3. in' \in Seq(Packet(TxByte)) /\ Len(in') <= Banks
    BY <1>1, <1>2, <2>1
  <2> QED
    BY <1>2, <2>1, <2>2, <2>3
<1> QED
  BY <1>2 DEF ReleaseTX, txBanks

LEMMA MessageBytes ==
  ASSUME NEW msg \in Message
  PROVE  msg \in Seq(TxByte) /\ Len(msg) <= Longest /\ Len(msg) \in Nat
<1>1. msg \in Seq(0..255) /\ Len(msg) <= Longest
  BY UsbSerialAssumption
<1>2. \A i \in 1..Len(msg) : msg[i] \in TxByte
  BY <1>1 DEF TxByte, ToSet
<1> QED
  BY <1>1, <1>2

(* What a locked block of USB_Send does.                                   *)
LEMMA Pushed ==
  ASSUME UInv, SendPush, ReadWriteAllowed
  PROVE  \E bank \in Packet(TxByte), rest \in Seq(TxByte) :
           /\ bank = fill \o SubSeq(todo, 1, n) /\ rest = SubSeq(todo, n + 1, Len(todo))
           /\ Len(bank) = Len(fill) + n /\ Len(rest) = Len(todo) - n
           /\ SubSeq(todo, 1, n) \in Seq(TxByte) /\ SubSeq(todo, 1, n) \o rest = todo
           /\ todo' = rest
           /\ IF sendZlp \/ Len(bank) = EpSize
                THEN ReleaseTX(bank)
                ELSE fill' = bank /\ UNCHANGED <<in, lastLen>>
           /\ sendZlp' = (~sendZlp /\ Len(bank) = EpSize /\ rest = <<>>)
           /\ pc' = IF rest = <<>> /\ ~sendZlp' THEN "idle" ELSE "space"
           /\ timeout' = IF pc' = "idle" THEN 0 ELSE timeout
<1> DEFINE first == SubSeq(todo, 1, n)
           rest == SubSeq(todo, n + 1, Len(todo))
           bank == fill \o first
<1>1. /\ todo \in Seq(TxByte) /\ n \in Nat /\ n <= Len(todo) /\ Len(fill) + n <= EpSize
      /\ fill \in Seq(TxByte) /\ pc = "push"
  BY UsbSerialAssumption DEF UInv, TxInv, UsbTypes, SendPush
<1>2. first \in Seq(TxByte) /\ Len(first) = n
  BY <1>1
<1>3. rest \in Seq(TxByte) /\ Len(rest) = Len(todo) - n
  BY <1>1
<1>4. first \o rest = todo
  <2>1. SubSeq(todo, 1, n) \o SubSeq(todo, n + 1, Len(todo)) = SubSeq(todo, 1, Len(todo))
    <3>1. 1 \in 1..(Len(todo) + 1) /\ n \in (1 - 1)..Len(todo) /\ Len(todo) \in n..Len(todo)
      BY <1>1
    <3> QED
      BY <1>1, <3>1, ConcatAdjacentSubSeq
  <2> QED
    BY <1>1, <2>1, SubSeqFull
<1>5. bank \in Seq(TxByte) /\ Len(bank) = Len(fill) + n
  <2> HIDE DEF first
  <2>1. fill \in Seq(TxByte) /\ first \in Seq(TxByte) /\ Len(first) = n
    BY <1>1, <1>2
  <2> QED
    BY <2>1, ConcatProperties
<1>6. bank \in Packet(TxByte)
  BY <1>1, <1>5 DEF Packet
<1>7. Written(first) = bank
  BY DEF Written
<1>8. /\ todo' = rest
      /\ IF sendZlp \/ Len(bank) = EpSize
           THEN ReleaseTX(bank)
           ELSE fill' = bank /\ UNCHANGED <<in, lastLen>>
      /\ sendZlp' = (~sendZlp /\ Len(bank) = EpSize /\ rest = <<>>)
      /\ pc' = IF rest = <<>> /\ ~sendZlp' THEN "idle" ELSE "space"
      /\ timeout' = IF pc' = "idle" THEN 0 ELSE timeout
  <2> HIDE DEF first, rest, bank
  <2>1. first = SubSeq(todo, 1, n) /\ rest = SubSeq(todo, n + 1, Len(todo))
    BY DEF first, rest
  <2> QED
    BY <1>7, <2>1, Zenon DEF SendPush, MayPush, NeedsZlp
<1> HIDE DEF first, rest, bank
<1>9. bank = fill \o SubSeq(todo, 1, n) /\ rest = SubSeq(todo, n + 1, Len(todo)) /\ first = SubSeq(todo, 1, n)
  BY DEF first, rest, bank
<1> QED
  BY <1>2, <1>3, <1>4, <1>5, <1>6, <1>8, <1>9, Zenon

-----------------------------------------------------------------------------
(* The invariant is inductive *)

LEMMA ByteTypes ==
  /\ <<>> \in Seq(TxByte) /\ <<>> \in Seq(RxByte) /\ <<>> \in Packet(TxByte) /\ <<>> \in Packet(RxByte)
  /\ <<>> \in Seq(Packet(TxByte)) /\ <<>> \in Seq(Packet(RxByte))
  /\ Len(<<>>) = 0 /\ EpSize \in Nat /\ 0 < EpSize /\ Longest \in Nat /\ Timeout \in 1..255
  /\ Banks = 2
  BY UsbSerialAssumption DEF Packet, Banks

(* Steps that are none of the main thread's and touch no bank.             *)
LEMMA QuietKeeps ==
  ASSUME UInv, UNCHANGED <<txBanks, rxBanks, writeError, pc, locals>>,
         {configured', enabled', lineState', suspended', rmwkup', hostReads'} \subseteq BOOLEAN,
         uenum' \in {"any", "tx", "ep0"}
  PROVE  UInv'
BY DEF UInv, UsbTypes, TxInv, Ended, RxInv, Sending, txBanks, rxBanks, locals

(* The fill bank is released, or all banks are cleared.                    *)
LEMMA FillReleased ==
  ASSUME UInv, ReleaseTX(fill)
  PROVE  /\ in' \in Seq(Packet(TxByte)) /\ Len(in') <= Banks
         /\ fill' \in Seq(TxByte) /\ Len(fill') < EpSize /\ lastLen' \in Nat
         /\ fill' = fill \/ fill' = <<>>
         /\ lastLen' < EpSize \/ (lastLen' = lastLen /\ fill' = fill)
         /\ FlattenSeq(in') \o fill' = FlattenSeq(in) \o fill
<1>1. fill \in Packet(TxByte) /\ fill \in Seq(TxByte) /\ Len(fill) < EpSize /\ Len(fill) \in Nat
  <2>1. fill \in Seq(TxByte) /\ Len(fill) < EpSize
    BY DEF UInv, TxInv
  <2>2. Len(fill) \in Nat
    BY <2>1
  <2> QED
    BY <2>1, <2>2, ByteTypes DEF Packet
<1>2. /\ in \in Seq(Packet(TxByte)) /\ Len(in) <= Banks /\ lastLen \in Nat
      /\ FlattenSeq(in) \in Seq(TxByte)
  BY FlatProps DEF UInv, TxInv
<1>3. CASE /\ in' \in Seq(Packet(TxByte)) /\ Len(in') <= Banks
           /\ FlattenSeq(in') = FlattenSeq(in) \o fill
           /\ fill' = <<>> /\ lastLen' = Len(fill)
  <2>1. FlattenSeq(in) \o fill \in Seq(TxByte)
    BY <1>1, <1>2, ConcatProperties
  <2>2. FlattenSeq(in') \o fill' = FlattenSeq(in) \o fill
    BY <1>3, <2>1, EmptyConcat
  <2> QED
    BY <1>1, <1>3, <2>2, ByteTypes
<1>4. CASE UNCHANGED <<in, fill, lastLen>>
  BY <1>1, <1>2, <1>4
<1> QED
  BY <1>1, <1>3, <1>4, Released

(* The invariant of the two kinds of steps that follow.                    *)
LEMMA CallKeeps ==
  ASSUME UInv, (\E msg \in Message : Write(msg)) \/ SendStart \/ FlushSelect \/ FlushCount
  PROVE  UInv'
<1>1. RxInv' /\ UNCHANGED <<txBanks, sendZlp>>
  BY DEF UInv, RxInv, rxBanks, Write, SendStart, FlushSelect, FlushCount, locals
<1>2. CASE \E msg \in Message : Write(msg)
  <2>1. PICK msg \in Message : Write(msg)
    BY <1>2
  <2>2. CASE lineState
    <3>1. /\ pc = "idle" /\ pc' = "start" /\ todo' = msg
          /\ UNCHANGED <<host, rmwkup, uenum, writeError, n, timeout>>
      BY <2>1, <2>2 DEF Write
    <3>2. msg \in Seq(TxByte) /\ Len(msg) <= Longest
      BY MessageBytes
    <3> QED
      BY <1>1, <3>1, <3>2 DEF UInv, UsbTypes, TxInv, Ended, Sending, txBanks, host
  <2>3. CASE ~lineState
    <3>1. /\ pc = "idle" /\ pc' = "idle" /\ writeError' = TRUE
          /\ UNCHANGED <<host, rmwkup, uenum, todo, n, timeout>>
      BY <2>1, <2>3 DEF Write, Fail
    <3> QED
      BY <1>1, <3>1 DEF UInv, UsbTypes, TxInv, Ended, Sending, txBanks, host
  <2> QED
    BY <2>2, <2>3
<1>3. CASE SendStart
  <2>1. /\ pc = "start" /\ UNCHANGED <<host, uenum, n>> /\ rmwkup' \in BOOLEAN
    BY <1>3 DEF SendStart
  <2>2. CASE configured /\ todo # <<>>
    <3>1. pc' = "space" /\ timeout' = Timeout /\ UNCHANGED <<writeError, todo>>
      BY <1>3, <2>2 DEF SendStart
    <3> QED
      BY <1>1, <2>1, <2>2, <3>1, ByteTypes DEF UInv, UsbTypes, TxInv, Ended, Sending, txBanks, host
  <2>3. CASE ~(configured /\ todo # <<>>)
    <3>1. pc' = "idle" /\ writeError' = TRUE /\ todo' = <<>> /\ timeout' = timeout
      BY <1>3, <2>3 DEF SendStart, Fail
    <3> QED
      BY <1>1, <2>1, <3>1, ByteTypes DEF UInv, UsbTypes, TxInv, Ended, Sending, txBanks, host
  <2> QED
    BY <2>2, <2>3
<1>4. CASE FlushSelect
  <2>1. /\ pc = "idle" /\ pc' = "count" /\ uenum' = "tx"
        /\ UNCHANGED <<host, rmwkup, writeError, todo, n, timeout>>
    BY <1>4 DEF FlushSelect, locals
  <2> QED
    BY <1>1, <2>1 DEF UInv, UsbTypes, TxInv, Ended, Sending, txBanks, host
<1>5. CASE FlushCount
  <2>1. /\ pc = "count" /\ pc' = "release"
        /\ UNCHANGED <<host, rmwkup, uenum, writeError, todo, timeout>>
    BY <1>5 DEF FlushCount
  <2>2. n' \in 0..EpSize
    <3>1. Len(fill) \in Nat /\ Len(fill) < EpSize
      BY DEF UInv, TxInv
    <3>2. n' \in {Len(fill), 0, 1}
      BY <1>5 DEF FlushCount
    <3> QED
      BY <3>1, <3>2, ByteTypes
  <2> QED
    BY <1>1, <2>1, <2>2 DEF UInv, UsbTypes, TxInv, Ended, Sending, txBanks, host
<1> QED
  BY <1>2, <1>3, <1>4, <1>5

LEMMA SpaceKeeps ==
  ASSUME UInv, SendSpaceStep
  PROVE  UInv'
<1>1. RxInv' /\ UNCHANGED txBanks
  BY DEF UInv, RxInv, rxBanks, SendSpaceStep
<1>2. pc = "space" /\ UNCHANGED <<host, rmwkup, uenum>>
  BY DEF SendSpaceStep
<1>3. /\ Len(fill) \in Nat /\ Len(fill) < EpSize /\ Len(todo) \in Nat /\ todo \in Seq(TxByte)
      /\ timeout \in 0..Timeout /\ timeout # 0 /\ n \in 0..EpSize
  BY <1>2 DEF UInv, TxInv, UsbTypes, Sending
<1>4. CASE SendSpace > 0
  <2>1. /\ n' = IF SendSpace > Len(todo) THEN Len(todo) ELSE SendSpace
        /\ pc' = "push" /\ UNCHANGED <<writeError, todo, timeout, sendZlp>>
    BY <1>4 DEF SendSpaceStep
  <2>2. SendSpace = EpSize - Len(fill)
    BY <1>4 DEF SendSpace
  <2>3. n' \in 0..EpSize /\ n' <= Len(todo) /\ Len(fill) + n' <= EpSize /\ (n' = 0 => Len(todo) = 0)
    BY <1>3, <1>4, <2>1, <2>2, ByteTypes
  <2>4. n' = 0 => todo = <<>>
    BY <1>3, <2>3
  <2> QED
    BY <1>1, <1>2, <2>1, <2>3, <2>4 DEF UInv, UsbTypes, TxInv, Ended, Sending, txBanks, host
<1>5. CASE ~(SendSpace > 0)
  <2>1. timeout' = timeout - 1 /\ n' = n
    BY <1>5 DEF SendSpaceStep, AfterWait
  <2>2. timeout' \in 0..Timeout
    BY <1>3, <2>1, ByteTypes
  <2>3. CASE timeout' = 0
    <3>1. pc' = "idle" /\ writeError' = TRUE /\ todo' = <<>> /\ sendZlp' = FALSE
      BY <1>5, <2>3 DEF SendSpaceStep, Fail
    <3>2. UsbTypes'
      BY <1>2, <1>3, <2>1, <2>2, <3>1 DEF UInv, UsbTypes, Sending, host
    <3>3. TxInv' /\ Ended'
      BY <1>1, <1>2, <3>1, ByteTypes DEF UInv, TxInv, Ended, Sending, txBanks
    <3> QED
      BY <1>1, <3>2, <3>3 DEF UInv
  <2>4. CASE timeout' # 0
    <3>1. UNCHANGED <<pc, writeError, todo, sendZlp>>
      BY <1>5, <2>4 DEF SendSpaceStep
    <3> QED
      BY <1>1, <1>2, <1>3, <2>1, <2>2, <2>4, <3>1, ByteTypes
         DEF UInv, UsbTypes, TxInv, Ended, Sending, txBanks, host
  <2> QED
    BY <2>3, <2>4
<1> QED
  BY <1>4, <1>5

LEMMA PushKeeps ==
  ASSUME UInv, SendPush
  PROVE  UInv'
<1>1. /\ RxInv' /\ pc = "push" /\ n' = 0 /\ UNCHANGED <<host, rmwkup, uenum, writeError>>
  BY DEF UInv, RxInv, rxBanks, SendPush
<1>2. CASE ~ReadWriteAllowed
  <2>1. pc' = "space" /\ UNCHANGED <<txBanks, todo, timeout, sendZlp>>
    BY <1>2 DEF SendPush, MayPush
  <2> QED
    BY <1>1, <2>1, ByteTypes DEF UInv, UsbTypes, TxInv, Ended, Sending, txBanks, host
<1>3. CASE ReadWriteAllowed
  <2>1. PICK bank \in Packet(TxByte), rest \in Seq(TxByte) :
           /\ Len(bank) = Len(fill) + n /\ Len(rest) = Len(todo) - n
           /\ todo' = rest
           /\ IF sendZlp \/ Len(bank) = EpSize
                THEN ReleaseTX(bank)
                ELSE fill' = bank /\ UNCHANGED <<in, lastLen>>
           /\ sendZlp' = (~sendZlp /\ Len(bank) = EpSize /\ rest = <<>>)
           /\ pc' = IF rest = <<>> /\ ~sendZlp' THEN "idle" ELSE "space"
           /\ timeout' = IF pc' = "idle" THEN 0 ELSE timeout
    BY <1>3, Pushed, Zenon
  <2>2. /\ enabled /\ Len(in) < Banks
        /\ in \in Seq(Packet(TxByte)) /\ Len(in) <= Banks /\ lastLen \in Nat
        /\ Len(fill) \in Nat /\ Len(todo) \in Nat /\ Len(todo) <= Longest
        /\ n \in Nat /\ (n = 0 => todo = <<>>) /\ n <= Len(todo)
        /\ sendZlp \in BOOLEAN /\ sendZlp = (todo = <<>>) /\ (sendZlp => fill = <<>>)
        /\ timeout \in 0..Timeout /\ timeout # 0 /\ writeError \in BOOLEAN
    BY <1>1, <1>3, ByteTypes DEF UInv, TxInv, UsbTypes, Sending, ReadWriteAllowed
  <2>3. bank \in Seq(TxByte) /\ Len(bank) <= EpSize /\ Len(bank) \in Nat
    BY DEF Packet
  <2>4. rest \in Seq(TxByte) /\ Len(rest) <= Longest
    BY <2>1, <2>2, ByteTypes
  <2>5. CASE sendZlp
    <3>1. todo = <<>> /\ fill = <<>> /\ n = 0 /\ Len(bank) = 0 /\ rest = <<>>
      <4>1. todo = <<>> /\ fill = <<>>
        BY <2>2, <2>5
      <4>2. n = 0 /\ Len(fill) = 0 /\ Len(todo) = 0
        BY <2>2, <4>1, ByteTypes
      <4>3. Len(bank) = 0 /\ Len(rest) = 0
        BY <2>1, <4>2
      <4> QED
        BY <2>4, <4>1, <4>2, <4>3
    <3>2. sendZlp' = FALSE /\ pc' = "idle" /\ timeout' = 0
      BY <2>1, <2>5, <3>1
    <3>3. /\ in' \in Seq(Packet(TxByte)) /\ Len(in') <= Banks
          /\ fill' = <<>> /\ lastLen' = 0
      BY <2>1, <2>2, <2>5, <3>1, Released
    <3> QED
      BY <1>1, <2>1, <2>2, <3>1, <3>2, <3>3, ByteTypes DEF UInv, UsbTypes, TxInv, Ended, Sending, host
  <2>6. CASE ~sendZlp /\ Len(bank) = EpSize
    <3>1. /\ in' \in Seq(Packet(TxByte)) /\ Len(in') <= Banks
          /\ fill' = <<>> /\ lastLen' \in Nat
      BY <2>1, <2>2, <2>3, <2>6, Released
    <3>2. pc' = "space" /\ timeout' = timeout /\ sendZlp' = (rest = <<>>)
      BY <2>1, <2>6
    <3> QED
      BY <1>1, <2>1, <2>2, <2>4, <3>1, <3>2, ByteTypes DEF UInv, UsbTypes, TxInv, Ended, Sending, host
  <2>7. CASE ~sendZlp /\ Len(bank) # EpSize
    <3>1. fill' = bank /\ UNCHANGED <<in, lastLen>> /\ sendZlp' = FALSE
      BY <2>1, <2>7
    <3>2. bank # <<>> /\ Len(bank) < EpSize
      <4>1. n # 0
        BY <2>2, <2>7
      <4>2. Len(bank) # 0 /\ Len(bank) < EpSize
        BY <2>1, <2>2, <2>3, <2>7, <4>1, ByteTypes
      <4> QED
        BY <4>2, ByteTypes
    <3>3. IF rest = <<>> THEN pc' = "idle" /\ timeout' = 0 ELSE pc' = "space" /\ timeout' = timeout
      BY <2>1, <3>1
    <3> QED
      BY <1>1, <2>1, <2>2, <2>3, <2>4, <3>1, <3>2, <3>3, ByteTypes DEF UInv, UsbTypes, TxInv, Ended, Sending, host
  <2> QED
    BY <2>5, <2>6, <2>7
<1> QED
  BY <1>2, <1>3

LEMMA FrameKeeps ==
  ASSUME UInv, FlushRelease \/ StartOfFrame
  PROVE  UInv'
<1>1. RxInv' /\ UNCHANGED <<host, rmwkup, writeError, todo, timeout, sendZlp>>
  BY DEF UInv, RxInv, rxBanks, FlushRelease, StartOfFrame, locals
<1>2. ReleaseTX(fill) \/ UNCHANGED txBanks
  BY DEF FlushRelease, StartOfFrame
<1>3. /\ in' \in Seq(Packet(TxByte)) /\ Len(in') <= Banks
      /\ fill' \in Seq(TxByte) /\ Len(fill') < EpSize /\ lastLen' \in Nat
      /\ fill' = fill \/ fill' = <<>>
      /\ lastLen' < EpSize \/ (lastLen' = lastLen /\ fill' = fill)
  <2>1. CASE ReleaseTX(fill)
    BY <2>1, FillReleased
  <2>2. CASE UNCHANGED txBanks
    BY <2>2 DEF txBanks, UInv, TxInv
  <2> QED
    BY <1>2, <2>1, <2>2
<1>4. Len(fill) + n <= EpSize => Len(fill') + n <= EpSize
  BY <1>3, ByteTypes DEF UInv, UsbTypes, TxInv
<1>5. CASE FlushRelease
  <2>1. pc = "release" /\ pc' = "idle" /\ n' = 0 /\ uenum' = "any"
    BY <1>5 DEF FlushRelease
  <2> QED
    BY <1>1, <1>3, <2>1, ByteTypes DEF UInv, UsbTypes, TxInv, Ended, Sending, host
<1>6. CASE StartOfFrame
  <2>1. UNCHANGED <<pc, n>> /\ uenum' \in {"any", "tx", "ep0"}
    BY <1>6 DEF StartOfFrame, locals
  <2> QED
    BY <1>1, <1>3, <1>4, <2>1, ByteTypes DEF UInv, UsbTypes, TxInv, Ended, Sending, host
<1> QED
  BY <1>5, <1>6

LEMMA ClearKeeps ==
  ASSUME UInv, BusReset \/ SetConfiguration
  PROVE  UInv'
<1>1. /\ UNCHANGED <<lineState, hostReads, rmwkup, writeError, pc, locals, peek_buffer>>
      /\ {configured', enabled', suspended'} \subseteq BOOLEAN
      /\ uenum' \in {"any", "tx", "ep0"}
      /\ in' = <<>> /\ fill' = <<>> /\ lastLen' = 0 /\ out' = <<>>
  BY DEF BusReset, SetConfiguration, ClearBanks, Unselect, SelectLast, UInv, UsbTypes
<1>2. Len(fill') + n <= EpSize
  BY <1>1, ByteTypes DEF UInv, UsbTypes
<1>3. UsbTypes'
  BY <1>1 DEF UInv, UsbTypes, Sending, locals
<1>4. TxInv' /\ Ended'
  BY <1>1, <1>2, ByteTypes DEF UInv, TxInv, Ended, Sending, locals
<1>5. RxInv'
  BY <1>1, ByteTypes DEF UInv, RxInv
<1> QED
  BY <1>3, <1>4, <1>5 DEF UInv

(* What USB_Recv takes out of the bank in front.                           *)
LEMMA Received ==
  ASSUME UInv
  PROVE  \/ RecvByte = None /\ RecvOut = out
         \/ /\ RecvByte \in RxByte /\ RecvByte >= 0 /\ RecvByte # None
            /\ RecvOut \in Seq(Packet(RxByte)) /\ Len(RecvOut) <= Banks
            /\ HostZlp = FALSE => \A i \in 1..Len(RecvOut) : RecvOut[i] # <<>>
            /\ FlattenSeq(RecvOut) \in Seq(RxByte)
            /\ FlattenSeq(out) = <<RecvByte>> \o FlattenSeq(RecvOut)
<1>1. CASE ~(configured /\ Bank # <<>>)
  BY <1>1 DEF RecvByte, RecvOut
<1>2. CASE configured /\ Bank # <<>>
  <2>1. out # <<>> /\ Bank = Head(out) /\ out \in Seq(Packet(RxByte)) /\ Len(out) <= Banks
    BY <1>2 DEF Bank, UInv, RxInv
  <2>2. /\ Head(out) \in Packet(RxByte) /\ Tail(out) \in Seq(Packet(RxByte))
        /\ Len(Tail(out)) = Len(out) - 1 /\ Len(out) \in Nat /\ Len(Tail(out)) <= Banks
        /\ \A i \in 1..Len(Tail(out)) : Tail(out)[i] = out[i + 1]
    BY <2>1, ByteTypes
  <2>3. Head(out) \in Seq(RxByte) /\ Head(out) # <<>> /\ Len(Head(out)) <= EpSize
    BY <1>2, <2>1, <2>2 DEF Packet
  <2>4. /\ FlattenSeq(out) = Head(out) \o FlattenSeq(Tail(out))
        /\ FlattenSeq(Tail(out)) \in Seq(RxByte)
    BY <2>1, FlatProps
  <2>5. RecvByte = Head(Head(out)) /\ Head(Head(out)) \in RxByte
    BY <1>2, <2>1, <2>3 DEF RecvByte
  <2>6. RecvByte \in RxByte /\ RecvByte >= 0 /\ RecvByte # None
    <3>1. \A b \in RxByte : b \in 0..255
      BY UsbSerialAssumption
    <3>2. \A b \in RxByte : b >= 0 /\ b # None
      BY <3>1 DEF None
    <3> QED
      BY <2>5, <3>2
  <2>7. Tail(Head(out)) \in Seq(RxByte) /\ Len(Tail(Head(out))) = Len(Head(out)) - 1 /\ Len(Head(out)) \in Nat
    BY <2>3
  <2>8. <<RecvByte>> \o Tail(Head(out)) = Head(out)
    <3>1. Head(out) = <<Head(Head(out))>> \o Tail(Head(out))
      BY <2>3
    <3> QED
      BY <2>5, <3>1
  <2>9. HostZlp = FALSE => \A i \in 1..Len(out) : out[i] # <<>>
    BY DEF UInv, RxInv
  <2>10. CASE Len(Head(out)) = 1
    <3>1. RecvOut = Tail(out)
      BY <2>1, <2>6, <2>10 DEF RecvOut
    <3>2. Tail(Head(out)) = <<>>
      <4>1. Len(Tail(Head(out))) = 0
        BY <2>7, <2>10
      <4> QED
        BY <2>7, <4>1, EmptySeq
    <3>3. <<RecvByte>> = Head(out)
      <4>1. <<RecvByte>> \o <<>> = <<RecvByte>>
        BY <2>6, EmptyConcat
      <4> QED
        BY <2>8, <3>2, <4>1
    <3>4. HostZlp = FALSE => \A i \in 1..Len(Tail(out)) : Tail(out)[i] # <<>>
      BY <2>2, <2>9
    <3> QED
      BY <2>2, <2>4, <2>6, <3>1, <3>3, <3>4
  <2>11. CASE Len(Head(out)) # 1
    <3> DEFINE rest == <<Tail(Head(out))>> \o Tail(out)
    <3>1. RecvOut = rest
      BY <2>1, <2>6, <2>11 DEF RecvOut
    <3>2. Tail(Head(out)) \in Packet(RxByte) /\ Tail(Head(out)) # <<>>
      <4>1. Len(Tail(Head(out))) <= EpSize /\ Len(Tail(Head(out))) # 0
        BY <2>3, <2>7, <2>11, ByteTypes
      <4> QED
        BY <2>7, <4>1, ByteTypes DEF Packet
    <3>3. <<Tail(Head(out))>> \in Seq(Packet(RxByte)) /\ Len(<<Tail(Head(out))>>) = 1
      BY <3>2
    <3>4. /\ rest \in Seq(Packet(RxByte)) /\ Len(rest) = 1 + Len(Tail(out))
          /\ \A i \in 1..(1 + Len(Tail(out))) :
               rest[i] = IF i <= 1 THEN <<Tail(Head(out))>>[i] ELSE Tail(out)[i - 1]
      BY <2>2, <3>3, ConcatProperties
    <3>5. Len(rest) = Len(out) /\ rest # <<>> /\ Len(rest) <= Banks
      BY <2>1, <2>2, <3>4
    <3>6. rest[1] = Tail(Head(out)) /\ \A i \in 2..Len(rest) : rest[i] = out[i]
      <4>1. rest[1] = Tail(Head(out))
        BY <2>2, <3>4
      <4>2. ASSUME NEW i \in 2..Len(rest) PROVE rest[i] = out[i]
        <5>1. rest[i] = Tail(out)[i - 1] /\ i - 1 \in 1..Len(Tail(out))
          BY <2>2, <3>4, <3>5, <4>2
        <5>2. (i - 1) + 1 = i
          BY <4>2
        <5> QED
          BY <2>2, <5>1, <5>2
      <4> QED
        BY <4>1, <4>2
    <3>7. Head(rest) = Tail(Head(out)) /\ Tail(rest) = Tail(out)
      <4>1. Head(rest) = rest[1]
        BY <3>4, <3>5
      <4>2. /\ Tail(rest) \in Seq(Packet(RxByte)) /\ Len(Tail(rest)) = Len(rest) - 1
            /\ \A i \in 1..Len(Tail(rest)) : Tail(rest)[i] = rest[i + 1]
        BY <3>4, <3>5, HeadTailProperties
      <4>3. \A i \in 1..Len(Tail(rest)) : Tail(rest)[i] = Tail(out)[i]
        <5> HIDE DEF rest
        <5> SUFFICES ASSUME NEW i \in 1..Len(Tail(rest)) PROVE Tail(rest)[i] = Tail(out)[i]
          OBVIOUS
        <5>1. i + 1 \in 2..Len(rest) /\ i \in 1..Len(Tail(out))
          BY <2>2, <3>5, <4>2
        <5> QED
          BY <2>2, <3>6, <4>2, <5>1
      <4>4. Len(Tail(rest)) = Len(Tail(out))
        BY <2>2, <3>5, <4>2
      <4> HIDE DEF rest
      <4>5. Tail(rest) = Tail(out)
        BY <2>2, <4>2, <4>3, <4>4, SeqEqual
      <4> QED
        BY <3>6, <4>1, <4>5
    <3> HIDE DEF rest
    <3>8. FlattenSeq(rest) = Tail(Head(out)) \o FlattenSeq(Tail(out)) /\ FlattenSeq(rest) \in Seq(RxByte)
      BY <3>4, <3>5, <3>7, FlatProps
    <3>9. FlattenSeq(out) = <<RecvByte>> \o FlattenSeq(rest)
      <4>1. <<RecvByte>> \in Seq(RxByte)
        BY <2>6
      <4>2. (<<RecvByte>> \o Tail(Head(out))) \o FlattenSeq(Tail(out))
              = <<RecvByte>> \o (Tail(Head(out)) \o FlattenSeq(Tail(out)))
        <5> DEFINE h == <<RecvByte>>
                   t == Tail(Head(out))
                   u == FlattenSeq(Tail(out))
        <5>1. h \in Seq(RxByte) /\ t \in Seq(RxByte) /\ u \in Seq(RxByte)
          BY <2>4, <2>7, <4>1
        <5> HIDE DEF h, t, u
        <5>2. (h \o t) \o u = h \o (t \o u)
          BY <5>1, ConcatAssociative
        <5> QED
          BY <5>2 DEF h, t, u
      <4> QED
        BY <2>4, <2>8, <3>8, <4>2
    <3>10. HostZlp = FALSE => \A i \in 1..Len(rest) : rest[i] # <<>>
      <4> SUFFICES ASSUME HostZlp = FALSE, NEW i \in 1..Len(rest) PROVE rest[i] # <<>>
        OBVIOUS
      <4>1. i = 1 \/ i \in 2..Len(rest)
        BY <2>2, <3>5
      <4> QED
        BY <2>9, <3>2, <3>5, <3>6, <4>1
    <3> QED
      BY <2>6, <3>1, <3>4, <3>5, <3>8, <3>9, <3>10
  <2> QED
    BY <2>10, <2>11
<1> QED
  BY <1>1, <1>2

LEMMA SeqOfPackets ==
  ASSUME NEW S, NEW p \in SeqOf(S, EpSize)
  PROVE  p \in Packet(S)
<1>1. EpSize \in Nat
  BY ByteTypes
<1>2. PICK m \in 0..EpSize : p \in [1..m -> S]
  BY <1>1 DEF SeqOf
<1>3. p \in Seq(S) /\ Len(p) = m
  BY <1>1, <1>2
<1> QED
  BY <1>1, <1>2, <1>3 DEF Packet

LEMMA ReadKeeps ==
  ASSUME UInv, Peek \/ Read \/ Begin \/ HostSends
  PROVE  UInv'
<1>1. UNCHANGED <<host, rmwkup, uenum, txBanks, writeError, pc, locals>>
  BY DEF Peek, Read, Begin, HostSends
<1>2. UsbTypes' /\ TxInv' /\ Ended'
  BY <1>1 DEF UInv, UsbTypes, TxInv, Ended, Sending, host, txBanks, locals
<1>3. /\ out \in Seq(Packet(RxByte)) /\ Len(out) <= Banks
      /\ peek_buffer \in RxByte \cup {None}
      /\ HostZlp = FALSE => \A i \in 1..Len(out) : out[i] # <<>>
  BY DEF UInv, RxInv
<1>4. RxInv'
  <2>1. CASE Peek
    <3>1. peek_buffer' = RecvByte /\ out' = RecvOut
      BY <2>1 DEF Peek
    <3> QED
      BY <1>3, <3>1, Received DEF RxInv
  <2>2. CASE Read \/ Begin
    <3>1. /\ out' = out \/ out' = RecvOut
          /\ peek_buffer' = peek_buffer \/ peek_buffer' = None
      BY <2>2 DEF Read, Begin
    <3> QED
      BY <1>3, <3>1, Received DEF RxInv
  <2>3. CASE HostSends
    <3>1. PICK p \in SeqOf(RxByte, EpSize) : (p # <<>> \/ HostZlp) /\ out' = Append(out, p)
      BY <2>3 DEF HostSends
    <3>2. p \in Packet(RxByte)
      BY SeqOfPackets
    <3>3. Len(out) < Banks /\ peek_buffer' = peek_buffer
      BY <2>3 DEF HostSends
    <3>4. /\ out' \in Seq(Packet(RxByte)) /\ Len(out') = Len(out) + 1
          /\ \A i \in 1..Len(out') : out'[i] = IF i = Len(out) + 1 THEN p ELSE out[i]
      BY <1>3, <3>1, <3>2
    <3>5. Len(out') <= Banks
      BY <1>3, <3>3, <3>4, ByteTypes
    <3>6. HostZlp = FALSE => \A i \in 1..Len(out') : out'[i] # <<>>
      <4> SUFFICES ASSUME HostZlp = FALSE, NEW i \in 1..Len(out') PROVE out'[i] # <<>>
        OBVIOUS
      <4>1. CASE i = Len(out) + 1
        BY <3>1, <3>4, <4>1
      <4>2. CASE i # Len(out) + 1
        <5>1. i \in 1..Len(out)
          BY <1>3, <3>4, <4>2
        <5> QED
          BY <1>3, <3>4, <4>2, <5>1
      <4> QED
        BY <4>1, <4>2
    <3> QED
      BY <1>3, <3>3, <3>4, <3>5, <3>6 DEF RxInv
  <2> QED
    BY <2>1, <2>2, <2>3
<1> QED
  BY <1>2, <1>4 DEF UInv

LEMMA TakeKeeps ==
  ASSUME UInv, HostTakes
  PROVE  UInv'
<1>1. in # <<>> /\ in' = Tail(in) /\ UNCHANGED <<host, rmwkup, uenum, fill, lastLen, rxBanks, writeError, pc, locals>>
  BY DEF HostTakes
<1>2. in \in Seq(Packet(TxByte)) /\ Len(in) <= Banks
  BY DEF UInv, TxInv
<1>3. in' \in Seq(Packet(TxByte)) /\ Len(in') <= Banks
  BY <1>1, <1>2, ByteTypes
<1> QED
  BY <1>1, <1>3 DEF UInv, UsbTypes, TxInv, Ended, RxInv, Sending, host, rxBanks, locals

LEMMA UStep ==
  ASSUME UInv, [Next]_vars
  PROVE  UInv'
<1>1. CASE SetControlLineState \/ Suspend \/ Resume \/ HostTurns
  <2>1. UNCHANGED <<txBanks, rxBanks, writeError, pc, locals>>
    BY <1>1 DEF SetControlLineState, Suspend, Resume, HostTurns
  <2>2. /\ {configured', enabled', lineState', suspended', rmwkup', hostReads'} \subseteq BOOLEAN
        /\ uenum' \in {"any", "tx", "ep0"}
    BY <1>1 DEF SetControlLineState, Suspend, Resume, HostTurns, Unselect, UInv, UsbTypes
  <2> QED
    BY <2>1, <2>2, QuietKeeps
<1>2. CASE UNCHANGED vars
  BY <1>2, QuietKeeps DEF vars, host, UInv, UsbTypes
<1>3. CASE Main
  BY <1>3, CallKeeps, SpaceKeeps, PushKeeps, FrameKeeps DEF Main
<1>4. CASE Call
  BY <1>4, CallKeeps, ReadKeeps DEF Call
<1>5. CASE Host
  BY <1>1, <1>5, ClearKeeps, TakeKeeps, ReadKeeps DEF Host
<1> QED
  BY <1>2, <1>3, <1>4, <1>5, FrameKeeps DEF Next

LEMMA UStart == Init => UInv
<1> SUFFICES ASSUME Init
             PROVE  UInv
  OBVIOUS
<1>1. UsbTypes
  <2>1. 0 \in 0..EpSize /\ 0 \in 0..Timeout
    BY ByteTypes
  <2> QED
    BY <2>1 DEF Init, UsbTypes, Sending
<1>2. TxInv /\ Ended
  BY ByteTypes DEF Init, TxInv, Ended, Sending
<1>3. RxInv
  BY ByteTypes DEF Init, RxInv
<1> QED
  BY <1>1, <1>2, <1>3 DEF UInv

LEMMA UAlways == Spec => []UInv
<1>1. UInv /\ [Next]_vars => UInv'
  BY UStep
<1> QED
  BY <1>1, UStart, PTL DEF Spec

(* Every transfer that write() did not report as failed ends with a packet *)
(* shorter than the end point, or with bytes that the next frame sends     *)
(* (USBCore.cpp: the empty packet of USB_Send behind a full bank).         *)
THEOREM TransfersEnd == Spec => []TransferEnded
<1>1. UInv => TransferEnded
  BY DEF UInv, UsbTypes, Ended, TransferEnded, Sending
<1> QED
  BY <1>1, UAlways, PTL

(* And, if the host sends no empty packet in the middle of its bytes,      *)
(* available() is zero exactly when all of them were read (CDC.cpp:        *)
(* Serial_::available, peek and read; USBCore.cpp: USB_Available looks at  *)
(* the bank in front only).                                                *)
THEOREM BanksAreTrue == Spec /\ HostZlp = FALSE => []BanksTrue
<1>1. UInv => TypeOK
  <2> SUFFICES ASSUME UInv PROVE TypeOK
    OBVIOUS
  <2>1. Len(fill) \in Nat
    BY DEF UInv, TxInv
  <2>2. Len(fill) <= EpSize
    BY <2>1, ByteTypes DEF UInv, TxInv
  <2> QED
    BY <2>2 DEF UInv, UsbTypes, TxInv, RxInv, TypeOK
<1>2. UInv => TransferEnded
  BY DEF UInv, UsbTypes, Ended, TransferEnded, Sending
<1>3. UInv /\ HostZlp = FALSE => AvailableTells
  <2> SUFFICES ASSUME UInv, HostZlp = FALSE PROVE AvailableTells
    OBVIOUS
  <2>1. out \in Seq(Packet(RxByte)) /\ Len(out) <= Banks /\ \A i \in 1..Len(out) : out[i] # <<>>
    BY DEF UInv, RxInv
  <2>2. Bank \in Seq(RxByte) /\ Len(Bank) \in Nat
    BY <2>1, ByteTypes DEF Bank, Packet
  <2>3. Available > 0 <=> peek_buffer >= 0 \/ Len(Bank) > 0
    BY <2>2 DEF Available
  <2>4. Len(Bank) > 0 <=> out # <<>>
    <3>1. out # <<>> => Bank = out[1] /\ 1 \in 1..Len(out)
      BY <2>1 DEF Bank
    <3>2. Bank # <<>> => Len(Bank) > 0
      BY <2>2
    <3>3. out = <<>> => Len(Bank) = 0
      BY DEF Bank
    <3> QED
      BY <2>1, <3>1, <3>2, <3>3
  <2>5. FlattenSeq(out) # <<>> <=> out # <<>>
    <3>1. CASE out = <<>>
      BY <3>1, FlatOfNone
    <3>2. CASE out # <<>>
      <4>1. FlattenSeq(out) = Head(out) \o FlattenSeq(Tail(out)) /\ FlattenSeq(Tail(out)) \in Seq(RxByte)
        BY <2>1, <3>2, FlatProps
      <4>2. Head(out) = Bank /\ Len(Bank) > 0
        BY <2>4, <3>2 DEF Bank
      <4>3. Bank # <<>>
        BY <4>2
      <4> QED
        BY <2>2, <3>2, <4>1, <4>2, <4>3, ConcatEqualIffEmpty
    <3> QED
      BY <3>1, <3>2
  <2> QED
    BY <2>3, <2>4, <2>5 DEF AvailableTells
<1>4. UInv /\ HostZlp = FALSE => BanksTrue
  BY <1>1, <1>2, <1>3 DEF BanksTrue
<1>5. UInv /\ HostZlp = FALSE /\ [Next]_vars => (UInv /\ HostZlp = FALSE)'
  BY UStep
<1> QED
  BY <1>4, <1>5, UStart, PTL DEF Spec

-----------------------------------------------------------------------------
(* Both directions are pipes of packets *)

LEMMA Cut ==
  ASSUME NEW S, NEW s \in Seq(S), NEW t \in Seq(S)
  PROVE  /\ s \o t \in Seq(S) /\ Len(s \o t) = Len(s) + Len(t)
         /\ Len(s) \in Nat /\ Len(t) \in Nat
         /\ SubSeq(s \o t, 1, Len(s)) = s
         /\ SubSeq(s \o t, Len(s) + 1, Len(s \o t)) = t
<1> DEFINE w == s \o t
<1>1. /\ w \in Seq(S) /\ Len(w) = Len(s) + Len(t) /\ Len(s) \in Nat /\ Len(t) \in Nat
      /\ \A i \in 1..(Len(s) + Len(t)) : w[i] = IF i <= Len(s) THEN s[i] ELSE t[i - Len(s)]
  BY ConcatProperties, LenProperties
<1> HIDE DEF w
<1>2. SubSeq(w, 1, Len(s)) = s
  <2>1. /\ SubSeq(w, 1, Len(s)) \in Seq(S) /\ Len(SubSeq(w, 1, Len(s))) = Len(s)
        /\ \A i \in 1..Len(s) : SubSeq(w, 1, Len(s))[i] = w[i]
    BY <1>1
  <2>2. \A i \in 1..Len(s) : w[i] = s[i]
    BY <1>1
  <2>3. \A i \in 1..Len(SubSeq(w, 1, Len(s))) : SubSeq(w, 1, Len(s))[i] = s[i]
    BY <2>1, <2>2
  <2> QED
    BY <2>1, <2>3, SeqEqual
<1>3. SubSeq(w, Len(s) + 1, Len(w)) = t
  <2> DEFINE r == SubSeq(w, Len(s) + 1, Len(w))
  <2>1. /\ r \in Seq(S) /\ Len(r) = Len(t)
        /\ \A i \in 1..Len(t) : r[i] = w[Len(s) + i]
    BY <1>1
  <2>2. \A i \in 1..Len(t) : w[Len(s) + i] = t[i]
    <3> SUFFICES ASSUME NEW i \in 1..Len(t) PROVE w[Len(s) + i] = t[i]
      OBVIOUS
    <3>1. Len(s) + i \in 1..(Len(s) + Len(t)) /\ ~(Len(s) + i <= Len(s)) /\ (Len(s) + i) - Len(s) = i
      BY <1>1
    <3> QED
      BY <1>1, <3>1
  <2> HIDE DEF r
  <2>3. \A i \in 1..Len(r) : r[i] = t[i]
    BY <2>1, <2>2
  <2>4. r = t
    BY <2>1, <2>3, SeqEqual
  <2> QED
    BY <2>4 DEF r
<1> QED
  BY <1>1, <1>2, <1>3 DEF w

LEMMA Prefix ==
  ASSUME NEW S, NEW s \in Seq(S), NEW t \in Seq(S)
  PROVE  IsPrefix(s, s \o t)
<1>1. SubSeq(s, 1, Len(s)) = s
  BY SubSeqFull
<1>2. SubSeq(s \o t, 1, Len(s)) = s /\ Len(s) <= Len(s \o t)
  BY Cut
<1> QED
  BY <1>1, <1>2 DEF IsPrefix

(* From the host *)

Rx == (IF peek_buffer >= 0 THEN <<peek_buffer>> ELSE <<>>) \o FlattenSeq(out)

LEMMA PeekedAndBanks ==
  ASSUME NEW b \in RxByte \cup {None}, NEW s \in Seq(Packet(RxByte)), Len(s) <= Banks,
         NEW r, r = (IF b >= 0 THEN <<b>> ELSE <<>>) \o FlattenSeq(s)
  PROVE  /\ FlattenSeq(s) \in Seq(RxByte)
         /\ b >= 0 => b \in RxByte /\ r = <<b>> \o FlattenSeq(s)
         /\ ~(b >= 0) => r = FlattenSeq(s)
         /\ r \in Seq(RxByte) /\ Len(r) \in Nat /\ Len(r) <= Banks * EpSize + 1
<1>1. FlattenSeq(s) \in Seq(RxByte) /\ Len(FlattenSeq(s)) <= Banks * EpSize
  BY FlatProps
<1>2. Banks * EpSize \in Nat
  BY ByteTypes
<1>3. CASE b >= 0
  <2>1. b \in RxByte
    BY <1>3 DEF None
  <2>2. r = <<b>> \o FlattenSeq(s)
    BY <1>3
  <2>3. <<b>> \in Seq(RxByte) /\ Len(<<b>>) = 1
    BY <2>1
  <2>4. r \in Seq(RxByte) /\ Len(r) = 1 + Len(FlattenSeq(s)) /\ Len(FlattenSeq(s)) \in Nat
    BY <1>1, <2>2, <2>3, Cut
  <2> QED
    BY <1>1, <1>2, <1>3, <2>1, <2>2, <2>4
<1>4. CASE ~(b >= 0)
  <2>1. r = FlattenSeq(s)
    BY <1>1, <1>4, EmptyConcat
  <2>2. Len(FlattenSeq(s)) \in Nat
    BY <1>1
  <2> QED
    <3>1. Len(r) <= Banks * EpSize + 1
      BY <1>1, <1>2, <2>1, <2>2
    <3> QED
      BY <1>1, <1>4, <2>1, <2>2, <3>1
<1> QED
  BY <1>3, <1>4

LEMMA RxIs ==
  ASSUME UInv
  PROVE  /\ FlattenSeq(out) \in Seq(RxByte)
         /\ peek_buffer >= 0 => peek_buffer \in RxByte /\ Rx = <<peek_buffer>> \o FlattenSeq(out)
         /\ ~(peek_buffer >= 0) => Rx = FlattenSeq(out)
         /\ Rx \in Seq(RxByte) /\ Len(Rx) \in Nat /\ Len(Rx) <= Banks * EpSize + 1
  BY PeekedAndBanks DEF UInv, RxInv, Rx

LEMMA RxNext ==
  ASSUME UInv'
  PROVE  /\ FlattenSeq(out') \in Seq(RxByte)
         /\ peek_buffer' >= 0 => peek_buffer' \in RxByte /\ Rx' = <<peek_buffer'>> \o FlattenSeq(out')
         /\ ~(peek_buffer' >= 0) => Rx' = FlattenSeq(out')
         /\ Rx' \in Seq(RxByte) /\ Len(Rx') \in Nat /\ Len(Rx') <= Banks * EpSize + 1
  BY PeekedAndBanks DEF UInv, RxInv, Rx

LEMMA RxDeliver ==
  ASSUME NEW b \in RxByte, NEW r \in Seq(RxByte),
         Rx = <<b>> \o r, Rx' = r, got' = <<b>>
  PROVE  \E k \in 1..Len(Rx) : got' = SubSeq(Rx, 1, k) /\ Rx' = SubSeq(Rx, k + 1, Len(Rx))
<1> DEFINE h == <<b>>
<1>1. h \in Seq(RxByte) /\ Len(h) = 1
  OBVIOUS
<1>2. /\ Len(Rx) = 1 + Len(r) /\ Len(r) \in Nat
      /\ SubSeq(Rx, 1, 1) = h /\ SubSeq(Rx, 1 + 1, Len(Rx)) = r
  <2> HIDE DEF h
  <2>1. Rx = h \o r
    BY DEF h
  <2>2. /\ Len(h \o r) = 1 + Len(r) /\ Len(r) \in Nat
        /\ SubSeq(h \o r, 1, Len(h)) = h /\ SubSeq(h \o r, Len(h) + 1, Len(h \o r)) = r
    <3>0. h \in Seq(RxByte) /\ r \in Seq(RxByte)
      BY <1>1
    <3>1. Len(h \o r) = Len(h) + Len(r) /\ Len(r) \in Nat
      BY <3>0, Cut
    <3>2. SubSeq(h \o r, 1, Len(h)) = h
      BY <3>0, Cut
    <3>3. SubSeq(h \o r, Len(h) + 1, Len(h \o r)) = r
      BY <3>0, Cut
    <3> QED
      BY <1>1, <3>1, <3>2, <3>3
  <2> QED
    BY <1>1, <2>1, <2>2
<1>3. 1 \in 1..Len(Rx)
  BY <1>2
<1> QED
  BY <1>2, <1>3

LEMMA RxPipeStep ==
  ASSUME UInv, UInv', [Next]_vars
  PROVE  [FromHost!Accept \/ FromHost!Deliver \/ FromHost!Lose]_(FromHost!pvars)
<1> USE DEF FromHost!pvars
<1>0. FromHost!pvars = <<Rx, got, HostUp, FALSE>>
  BY DEF Rx
<1>1. ASSUME UNCHANGED <<Rx, got, HostUp>>
      PROVE  UNCHANGED FromHost!pvars
  BY <1>1 DEF Rx
<1>2. CASE UNCHANGED <<out, peek_buffer, got, configured, suspended>>
  <2>1. UNCHANGED <<Rx, got, HostUp>>
    BY <1>2 DEF Rx, HostUp
  <2> QED
    BY <1>1, <2>1
<1>3. ASSUME got' = got, ~HostUp \/ ~HostUp',
             NEW i \in 1..(Len(Rx) + 1), NEW j \in 0..Len(Rx), Rx' = SubSeq(Rx, i, j)
      PROVE  FromHost!Lose
  BY <1>3 DEF FromHost!Lose, Rx
<1>4. CASE Suspend \/ Resume
  <2>1. /\ UNCHANGED <<out, peek_buffer, got>>
        /\ ~HostUp \/ ~HostUp'
    BY <1>4 DEF Suspend, Resume, HostUp, rxBanks
  <2>2. Rx' = SubSeq(Rx, 1, Len(Rx)) /\ 1 \in 1..(Len(Rx) + 1) /\ Len(Rx) \in 0..Len(Rx)
    <3>1. Rx' = Rx
      BY <2>1 DEF Rx
    <3> QED
      BY <3>1, RxIs, SubSeqFull
  <2> QED
    BY <1>3, <2>1, <2>2
<1>5. CASE BusReset \/ SetConfiguration
  <2>1. out' = <<>> /\ UNCHANGED <<peek_buffer, got>>
    BY <1>5 DEF BusReset, SetConfiguration, ClearBanks
  <2>2. ~HostUp \/ ~HostUp'
    BY <1>5 DEF BusReset, SetConfiguration, HostUp
  <2>3. FlattenSeq(out)' = <<>>
    BY <2>1, FlatOfNone
  <2>4. CASE peek_buffer >= 0
    <3>1. <<peek_buffer>> \in Seq(RxByte) /\ Len(<<peek_buffer>>) = 1
      BY <2>4, RxIs
    <3>2. Rx' = <<peek_buffer>>
      BY <2>1, <2>3, <2>4, <3>1, EmptyConcat DEF Rx
    <3>3. SubSeq(Rx, 1, 1) = <<peek_buffer>> /\ Len(Rx) = 1 + Len(FlattenSeq(out)) /\ Len(FlattenSeq(out)) \in Nat
      <4> DEFINE h == <<peek_buffer>>
      <4>1. h \in Seq(RxByte) /\ Len(h) = 1 /\ Rx = h \o FlattenSeq(out) /\ FlattenSeq(out) \in Seq(RxByte)
        BY <2>4, <3>1, RxIs
      <4> HIDE DEF h
      <4>2. SubSeq(Rx, 1, 1) = h /\ Len(Rx) = 1 + Len(FlattenSeq(out)) /\ Len(FlattenSeq(out)) \in Nat
        <5>1. PICK t \in Seq(RxByte) : t = FlattenSeq(out)
          BY <4>1
        <5>2. h \in Seq(RxByte)
          BY <4>1
        <5>3. /\ Len(h \o t) = Len(h) + Len(t) /\ Len(t) \in Nat
              /\ SubSeq(h \o t, 1, Len(h)) = h
          BY <5>2, Cut
        <5>4. Rx = h \o t /\ Len(h) = 1
          BY <4>1, <5>1
        <5> HIDE DEF Rx
        <5> QED
          BY <5>1, <5>3, <5>4
      <4> QED
        BY <4>2 DEF h
    <3>4. 1 \in 1..(Len(Rx) + 1) /\ 1 \in 0..Len(Rx)
      BY <3>3
    <3> QED
      BY <1>3, <2>1, <2>2, <3>2, <3>3, <3>4
  <2>5. CASE ~(peek_buffer >= 0)
    <3>1. Rx' = <<>>
      BY <2>1, <2>3, <2>5, RxNext
    <3>2. SubSeq(Rx, 1, 0) = <<>>
      BY SubSeqEmpty
    <3>3. 1 \in 1..(Len(Rx) + 1) /\ 0 \in 0..Len(Rx)
      BY RxIs
    <3> QED
      BY <1>3, <2>1, <2>2, <3>1, <3>2, <3>3
  <2> QED
    BY <2>4, <2>5
<1>6. CASE Peek
  <2>1. /\ peek_buffer < 0 /\ peek_buffer' = RecvByte /\ out' = RecvOut
        /\ UNCHANGED <<got, configured, suspended>>
    BY <1>6 DEF Peek, host
  <2>2. ~(peek_buffer >= 0)
    <3>1. peek_buffer \in Int
      <4>1. RxByte \subseteq 0..255
        BY UsbSerialAssumption
      <4> QED
        BY <4>1 DEF UInv, RxInv, None
    <3> QED
      BY <2>1, <3>1
  <2>3. Rx = FlattenSeq(out)
    BY <2>2, RxIs
  <2>4. Rx' = FlattenSeq(out)
    <3>1. CASE RecvByte = None /\ RecvOut = out
      <4>1. ~(peek_buffer' >= 0)
        BY <2>1, <3>1 DEF None
      <4> QED
        BY <2>1, <3>1, <4>1, RxNext
    <3>2. CASE RecvByte >= 0 /\ FlattenSeq(out) = <<RecvByte>> \o FlattenSeq(RecvOut)
      BY <2>1, <3>2, RxNext
    <3> QED
      BY <3>1, <3>2, Received
  <2>5. HostUp' = HostUp
    BY <2>1 DEF HostUp
  <2> QED
    BY <1>1, <2>1, <2>3, <2>4, <2>5
<1>7. ASSUME NEW b \in RxByte, NEW r \in Seq(RxByte),
             Rx = <<b>> \o r, Rx' = r, got' = <<b>>, UNCHANGED <<configured, suspended>>
      PROVE  FromHost!Deliver
  <2>1. \E k \in 1..Len(Rx) : got' = SubSeq(Rx, 1, k) /\ Rx' = SubSeq(Rx, k + 1, Len(Rx))
    BY <1>7, RxDeliver
  <2>2. HostUp' = HostUp
    BY <1>7 DEF HostUp
  <2> QED
    BY <2>1, <2>2 DEF FromHost!Deliver, Rx
<1>8. CASE (Read \/ Begin) /\ peek_buffer >= 0
  <2>1. /\ got' = <<peek_buffer>> /\ peek_buffer' = None /\ out' = out
        /\ UNCHANGED <<configured, suspended>>
    BY <1>8 DEF Read, Begin, host
  <2>2. Rx' = FlattenSeq(out)
    <3>1. ~(peek_buffer' >= 0)
      BY <2>1 DEF None
    <3> QED
      BY <2>1, <3>1, RxNext
  <2> QED
    BY <1>7, <1>8, <2>1, <2>2, RxIs
<1>9. CASE Read /\ ~(peek_buffer >= 0)
  <2>1. /\ got' = IF RecvByte = None THEN got ELSE <<RecvByte>>
        /\ out' = RecvOut /\ peek_buffer' = peek_buffer /\ UNCHANGED <<configured, suspended>>
    BY <1>9 DEF Read, host
  <2>2. Rx = FlattenSeq(out) /\ Rx' = FlattenSeq(RecvOut)
    BY <1>9, <2>1, RxIs, RxNext
  <2>3. CASE RecvByte = None /\ RecvOut = out
    BY <1>2, <2>1, <2>3
  <2>4. CASE /\ RecvByte \in RxByte /\ RecvByte # None
             /\ FlattenSeq(RecvOut) \in Seq(RxByte)
             /\ FlattenSeq(out) = <<RecvByte>> \o FlattenSeq(RecvOut)
    BY <1>7, <2>1, <2>2, <2>4
  <2> QED
    BY <2>3, <2>4, Received
<1>10. CASE HostSends
  <2>1. PICK p \in SeqOf(RxByte, EpSize) : out' = Append(out, p)
    BY <1>10 DEF HostSends
  <2>2. Len(out) < Banks /\ UNCHANGED <<peek_buffer, got, configured, suspended>>
    BY <1>10 DEF HostSends, host
  <2>3. p \in Packet(RxByte) /\ p \in Seq(RxByte)
    BY SeqOfPackets DEF Packet
  <2>4. FlattenSeq(out') = FlattenSeq(out) \o p
    BY <2>1, <2>2, <2>3, FlatProps DEF UInv, RxInv
  <2>5. Rx' = Rx \o p
    <3>1. CASE peek_buffer >= 0
      <4>1. <<peek_buffer>> \in Seq(RxByte)
        BY <3>1, RxIs
      <4>2. Rx' = <<peek_buffer>> \o (FlattenSeq(out) \o p)
        BY <2>2, <2>4, <3>1 DEF Rx
      <4>3. Rx = <<peek_buffer>> \o FlattenSeq(out)
        BY <3>1, RxIs
      <4> QED
        BY <2>3, <4>1, <4>2, <4>3, RxIs, ConcatAssociative
    <3>2. CASE ~(peek_buffer >= 0)
      <4>1. Rx' = FlattenSeq(out')
        BY <2>2, <3>2, RxNext
      <4> QED
        BY <2>4, <3>2, <4>1, RxIs
    <3> QED
      BY <3>1, <3>2
  <2>6. Rx' \in Seq(RxByte) /\ Len(Rx') <= Banks * EpSize + 1
    BY RxNext
  <2>7. IsPrefix(Rx, Rx')
    BY <2>3, <2>5, RxIs, Prefix
  <2>8. FromHost!Accept
    <3>1. UNCHANGED <<got, HostUp>>
      BY <2>2 DEF HostUp
    <3>2. FromHost!IsPrefix(Rx, Rx')
      BY <2>7 DEF IsPrefix, FromHost!IsPrefix
    <3> QED
      BY <2>6, <3>1, <3>2, Zenon DEF FromHost!Accept, Rx
  <2> QED
    BY <2>8
<1>11. CASE SetControlLineState \/ HostTurns \/ HostTakes \/ StartOfFrame \/ Main \/ FlushSelect
            \/ (\E msg \in Message : Write(msg)) \/ UNCHANGED vars
  BY <1>2, <1>11 DEF SetControlLineState, HostTurns, HostTakes, StartOfFrame, Main, SendStart,
       SendSpaceStep, SendPush, FlushSelect, FlushCount, FlushRelease, Write, vars, rxBanks, host
<1> QED
  BY <1>4, <1>5, <1>6, <1>8, <1>9, <1>10, <1>11 DEF Next, Call, Host, Begin

(* Bytes of the host are read in order and once each, through peek_buffer  *)
(* or not, until the connection is lost (CDC.cpp:181-204).                 *)
THEOREM HostIsRead == Spec => ReadsInOrder
<1>1. Init => FromHost!PInit
  BY FlatOfNone DEF Init, FromHost!PInit, HostUp, None
<1>2. UInv /\ UInv' /\ [Next]_vars => [FromHost!Accept \/ FromHost!Deliver \/ FromHost!Lose]_(FromHost!pvars)
  BY RxPipeStep
<1> QED
  BY <1>1, <1>2, UAlways, PTL DEF Spec, ReadsInOrder, FromHost!PSpec

-----------------------------------------------------------------------------
(* To the host *)

Banked == FlattenSeq(in) \o fill
Tx == Banked \o todo

(* What is in two banks, one being written and a buffer.                   *)
LEMMA BanksAndBuffer ==
  ASSUME NEW s \in Seq(Packet(TxByte)), Len(s) <= Banks,
         NEW b \in Seq(TxByte), Len(b) < EpSize, NEW t \in Seq(TxByte), Len(t) <= Longest
  PROVE  /\ FlattenSeq(s) \in Seq(TxByte) /\ FlattenSeq(s) \o b \in Seq(TxByte)
         /\ (FlattenSeq(s) \o b) \o t \in Seq(TxByte)
         /\ Len((FlattenSeq(s) \o b) \o t) <= (Banks + 1) * EpSize + Longest
<1>1. FlattenSeq(s) \in Seq(TxByte) /\ Len(FlattenSeq(s)) <= Banks * EpSize
  BY FlatProps
<1>2. /\ FlattenSeq(s) \o b \in Seq(TxByte)
      /\ Len(FlattenSeq(s) \o b) = Len(FlattenSeq(s)) + Len(b)
      /\ Len(FlattenSeq(s)) \in Nat /\ Len(b) \in Nat
  BY <1>1, Cut
<1> DEFINE bb == FlattenSeq(s) \o b
<1>3. bb \in Seq(TxByte) /\ Len(bb) = Len(FlattenSeq(s)) + Len(b)
  BY <1>2
<1> HIDE DEF bb
<1>4. bb \o t \in Seq(TxByte) /\ Len(bb \o t) = Len(bb) + Len(t) /\ Len(t) \in Nat
  BY <1>3, Cut
<1>5. Len(bb \o t) <= (Banks + 1) * EpSize + Longest
  <2>1. Banks * EpSize = EpSize + EpSize /\ (Banks + 1) * EpSize = EpSize + EpSize + EpSize
    BY ByteTypes
  <2>2. Len(bb \o t) = Len(FlattenSeq(s)) + Len(b) + Len(t)
    BY <1>3, <1>4
  <2>3. Len(FlattenSeq(s)) <= EpSize + EpSize
    BY <1>1, <2>1
  <2>4. Len(FlattenSeq(s)) + Len(b) + Len(t) <= EpSize + EpSize + EpSize + Longest
    BY <1>2, <1>4, <2>3, ByteTypes
  <2> QED
    BY <2>1, <2>2, <2>4
<1> QED
  BY <1>1, <1>2, <1>4, <1>5 DEF bb

LEMMA TxIs ==
  ASSUME UInv
  PROVE  /\ FlattenSeq(in) \in Seq(TxByte) /\ Banked \in Seq(TxByte)
         /\ fill \in Seq(TxByte) /\ todo \in Seq(TxByte)
         /\ Tx \in Seq(TxByte) /\ Len(Tx) <= (Banks + 1) * EpSize + Longest
  BY BanksAndBuffer DEF UInv, TxInv, Banked, Tx

LEMMA TxNext ==
  ASSUME UInv'
  PROVE  /\ FlattenSeq(in') \in Seq(TxByte) /\ Banked' \in Seq(TxByte)
         /\ fill' \in Seq(TxByte) /\ todo' \in Seq(TxByte)
         /\ Tx' \in Seq(TxByte) /\ Len(Tx') <= (Banks + 1) * EpSize + Longest
  BY BanksAndBuffer DEF UInv, TxInv, Banked, Tx

(* Four parts of what is under way, cut in two ways.  The names keep the   *)
(* provers from cutting on for ever.                                       *)
Glued(s, t, u) == (s \o t) \o u = s \o (t \o u)
Regrouped(f, s, t, r) == (f \o (s \o t)) \o r = (f \o s) \o (t \o r)

LEMMA Glue ==
  ASSUME NEW s \in Seq(TxByte), NEW t \in Seq(TxByte), NEW u \in Seq(TxByte)
  PROVE  Glued(s, t, u)
BY ConcatAssociative DEF Glued

LEMMA Regroup ==
  ASSUME NEW f \in Seq(TxByte), NEW s \in Seq(TxByte), NEW t \in Seq(TxByte),
         NEW r \in Seq(TxByte)
  PROVE  Regrouped(f, s, t, r)
<1>1. PICK g \in Seq(TxByte) : g = f \o s
  BY Cut
<1>2. Glued(f, s, t) /\ Glued(g, t, r)
  BY Glue
<1> QED
  BY <1>1, <1>2 DEF Glued, Regrouped

(* The main thread puts a part of the buffer in the bank, or releases it:  *)
(* what is under way stays the same.                                       *)
LEMMA PushMoves ==
  ASSUME UInv, UInv', SendPush
  PROVE  Tx' = Tx
<1>1. CASE ~ReadWriteAllowed
  <2>1. UNCHANGED <<in, fill, todo>>
    BY <1>1 DEF SendPush, MayPush, txBanks
  <2> QED
    BY <2>1 DEF Tx, Banked
<1>2. CASE ReadWriteAllowed
  <2>1. PICK bank \in Packet(TxByte), rest \in Seq(TxByte) :
           /\ bank = fill \o SubSeq(todo, 1, n) /\ rest = SubSeq(todo, n + 1, Len(todo))
           /\ SubSeq(todo, 1, n) \in Seq(TxByte) /\ SubSeq(todo, 1, n) \o rest = todo
           /\ todo' = rest
           /\ IF sendZlp \/ Len(bank) = EpSize
                THEN ReleaseTX(bank)
                ELSE fill' = bank /\ UNCHANGED <<in, lastLen>>
    BY <1>2, Pushed, Zenon
  <2> DEFINE first == SubSeq(todo, 1, n)
  <2>2. first \in Seq(TxByte) /\ bank = fill \o first /\ first \o rest = todo
    BY <2>1
  <2> HIDE DEF first
  <2>3. bank \in Seq(TxByte)
    BY DEF Packet
  <2>4. Banked' = FlattenSeq(in) \o bank
    <3>1. CASE ReleaseTX(bank)
      <4>1. FlattenSeq(in') = FlattenSeq(in) \o bank /\ fill' = <<>>
        BY <1>2, <3>1, Released DEF ReadWriteAllowed
      <4>2. FlattenSeq(in') \o <<>> = FlattenSeq(in')
        BY TxNext, EmptyConcat
      <4> QED
        BY <4>1, <4>2 DEF Banked
    <3>2. CASE fill' = bank /\ UNCHANGED <<in, lastLen>>
      BY <3>2 DEF Banked
    <3> QED
      BY <2>1, <3>1, <3>2
  <2>5. (FlattenSeq(in) \o (fill \o first)) \o rest = (FlattenSeq(in) \o fill) \o (first \o rest)
    <3>1. FlattenSeq(in) \in Seq(TxByte) /\ fill \in Seq(TxByte)
      BY TxIs
    <3>2. rest \in Seq(TxByte)
      BY <2>1, TxNext
    <3>3. first \in Seq(TxByte)
      BY <2>2
    <3> DEFINE flat == FlattenSeq(in)
    <3> HIDE DEF flat
    <3>4. Regrouped(flat, fill, first, rest)
      <4>1. flat \in Seq(TxByte)
        BY <3>1 DEF flat
      <4> QED
        BY <3>1, <3>2, <3>3, <4>1, Regroup
    <3> QED
      BY <3>4 DEF flat, Regrouped
  <2> QED
    BY <2>1, <2>2, <2>4, <2>5 DEF Tx, Banked
<1> QED
  BY <1>1, <1>2

LEMMA ReleaseMoves ==
  ASSUME UInv, FlushRelease \/ StartOfFrame
  PROVE  Tx' = Tx
<1>1. todo' = todo /\ (ReleaseTX(fill) \/ UNCHANGED txBanks)
  BY DEF FlushRelease, StartOfFrame, locals
<1>2. Banked' = Banked
  <2>1. CASE ReleaseTX(fill)
    BY <2>1, FillReleased DEF Banked
  <2>2. CASE UNCHANGED txBanks
    BY <2>2 DEF txBanks, Banked
  <2> QED
    BY <1>1, <2>1, <2>2
<1> QED
  BY <1>1, <1>2 DEF Tx

LEMMA TakeDelivers ==
  ASSUME UInv, UInv', HostTakes, Head(in) # <<>>
  PROVE  \E k \in 1..Len(Tx) : heard' = SubSeq(Tx, 1, k) /\ Tx' = SubSeq(Tx, k + 1, Len(Tx))
<1> DEFINE h == Head(in)
           r == FlattenSeq(Tail(in))
<1>1. /\ in # <<>> /\ in \in Seq(Packet(TxByte)) /\ Len(in) <= Banks
      /\ in' = Tail(in) /\ heard' = h /\ UNCHANGED <<fill, todo>>
  BY DEF HostTakes, UInv, TxInv, locals
<1>2. h \in Seq(TxByte) /\ h # <<>> /\ Len(h) \in Nat \ {0}
  <2>1. Head(in) \in Packet(TxByte)
    BY <1>1
  <2>2. Head(in) \in Seq(TxByte)
    BY <2>1 DEF Packet
  <2> QED
    BY <2>2, EmptySeq
<1>3. FlattenSeq(in) = h \o r /\ r \in Seq(TxByte)
  BY <1>1, FlatProps
<1>4. Banked' = r \o fill /\ Tx' = (r \o fill) \o todo
  BY <1>1 DEF Banked, Tx
<1> HIDE DEF h, r
<1>5. r \o fill \in Seq(TxByte) /\ (r \o fill) \o todo \in Seq(TxByte)
  BY <1>3, TxIs, Cut
<1>6. Tx = h \o Tx'
  <2>1. (h \o r) \o fill = h \o (r \o fill)
    <3>1. h \in Seq(TxByte) /\ r \in Seq(TxByte) /\ fill \in Seq(TxByte)
      BY <1>2, <1>3, TxIs
    <3> QED
      BY <3>1, ConcatAssociative
  <2>2. (h \o (r \o fill)) \o todo = h \o ((r \o fill) \o todo)
    <3> DEFINE banked == r \o fill
    <3>1. h \in Seq(TxByte) /\ banked \in Seq(TxByte) /\ todo \in Seq(TxByte)
      BY <1>2, <1>5, TxIs
    <3> HIDE DEF banked
    <3>2. (h \o banked) \o todo = h \o (banked \o todo)
      BY <3>1, ConcatAssociative
    <3> QED
      BY <3>2 DEF banked
  <2> QED
    BY <1>3, <1>4, <2>1, <2>2 DEF Tx, Banked
<1> DEFINE t == (r \o fill) \o todo
<1>7. t \in Seq(TxByte) /\ Tx = h \o t /\ Tx' = t
  BY <1>4, <1>5, <1>6
<1> HIDE DEF t
<1>8. Len(Tx) = Len(h) + Len(t) /\ Len(t) \in Nat
  BY <1>2, <1>7, Cut
<1>9. SubSeq(Tx, 1, Len(h)) = h
  BY <1>2, <1>7, Cut
<1>10. SubSeq(Tx, Len(h) + 1, Len(Tx)) = t
  BY <1>2, <1>7, Cut
<1>11. Len(h) \in 1..Len(Tx)
  BY <1>2, <1>8
<1> QED
  BY <1>1, <1>7, <1>9, <1>10, <1>11 DEF h

LEMMA TxPipeStep ==
  ASSUME UInv, UInv', [Next]_vars
  PROVE  [ToHost!Accept \/ ToHost!Deliver \/ ToHost!Lose]_(ToHost!pvars)
<1> DEFINE up == HostUp /\ hostReads
<1>1. ASSUME UNCHANGED <<heard, writeError, configured, suspended, hostReads>>, Tx' = Tx
      PROVE  UNCHANGED ToHost!pvars
  BY <1>1 DEF ToHost!pvars, Tx, Banked, HostUp
<1>2. CASE UNCHANGED <<in, fill, todo, heard, writeError, configured, suspended, hostReads>>
  <2>1. Tx' = Tx
    BY <1>2 DEF Tx, Banked
  <2> QED
    BY <1>1, <1>2, <2>1
<1>3. ASSUME heard' = heard, ~up \/ ~up' \/ writeError',
             NEW i \in 1..(Len(Tx) + 1), NEW j \in 0..Len(Tx), Tx' = SubSeq(Tx, i, j)
      PROVE  ToHost!Lose
  BY <1>3 DEF ToHost!Lose, Tx, Banked
<1>4. ASSUME heard' = heard, ~up \/ ~up' \/ writeError', Tx' = Tx
      PROVE  ToHost!Lose
  <2>1. SubSeq(Tx, 1, Len(Tx)) = Tx /\ Len(Tx) \in Nat
    BY TxIs, SubSeqFull
  <2>2. 1 \in 1..(Len(Tx) + 1) /\ Len(Tx) \in 0..Len(Tx)
    BY <2>1
  <2> QED
    BY <1>3, <1>4, <2>1, <2>2
<1>5. ASSUME heard' = heard, ~up \/ ~up' \/ writeError', todo' = <<>>, UNCHANGED <<in, fill>>
      PROVE  ToHost!Lose
  <2>1. Banked' = Banked
    BY <1>5 DEF Banked
  <2>2. Tx' = Banked
    BY <1>5, <2>1, TxIs, EmptyConcat DEF Tx
  <2>3. SubSeq(Tx, 1, Len(Banked)) = Banked /\ Len(Tx) = Len(Banked) + Len(todo)
        /\ Len(Banked) \in Nat /\ Len(todo) \in Nat
    BY TxIs, Cut DEF Tx
  <2>4. 1 \in 1..(Len(Tx) + 1) /\ Len(Banked) \in 0..Len(Tx)
    BY <2>3
  <2> QED
    BY <1>3, <1>5, <2>2, <2>3, <2>4
<1>6. CASE BusReset \/ SetConfiguration
  <2>1. /\ in' = <<>> /\ fill' = <<>> /\ todo' = todo /\ heard' = heard
        /\ ~up \/ ~up'
    BY <1>6 DEF BusReset, SetConfiguration, ClearBanks, locals, HostUp
  <2>2. Tx' = todo
    <3>1. FlattenSeq(in') = <<>>
      BY <2>1, FlatOfNone
    <3>2. Banked' = <<>>
      BY <2>1, <3>1 DEF Banked
    <3> QED
      BY <2>1, <3>2, TxIs, EmptyConcat DEF Tx
  <2>3. /\ SubSeq(Tx, Len(Banked) + 1, Len(Tx)) = todo
        /\ Len(Tx) = Len(Banked) + Len(todo) /\ Len(Banked) \in Nat /\ Len(todo) \in Nat
    BY TxIs, Cut DEF Tx
  <2>4. Len(Banked) + 1 \in 1..(Len(Tx) + 1) /\ Len(Tx) \in 0..Len(Tx)
    BY <2>3
  <2> QED
    BY <1>3, <2>1, <2>2, <2>3, <2>4
<1>7. CASE \E msg \in Message : Write(msg)
  <2>1. PICK msg \in Message : Write(msg)
    BY <1>7
  <2>2. todo = <<>> /\ UNCHANGED <<in, fill, heard, configured, suspended, hostReads>>
    BY <2>1 DEF Write, UInv, TxInv, txBanks, host
  <2>3. CASE lineState
    <3>1. todo' = msg /\ writeError' = writeError
      BY <2>1, <2>3 DEF Write
    <3>2. Tx = Banked
      BY <2>2, TxIs, EmptyConcat DEF Tx
    <3>3. Tx' = Tx \o msg
      BY <2>2, <3>1, <3>2 DEF Tx, Banked
    <3>4. IsPrefix(Tx, Tx')
      BY <3>3, TxIs, MessageBytes, Prefix
    <3>5. ToHost!IsPrefix(Tx, Tx')
      BY <3>4 DEF IsPrefix, ToHost!IsPrefix
    <3>6. UNCHANGED <<heard, HostUp, hostReads, writeError>>
      BY <2>2, <3>1 DEF HostUp
    <3>7. Tx' \in Seq(TxByte) /\ Len(Tx') <= (Banks + 1) * EpSize + Longest
      BY TxNext
    <3>8. ToHost!Accept
      BY <3>5, <3>6, <3>7, Zenon DEF ToHost!Accept, Tx, Banked, TxByte
    <3> QED
      BY <3>8
  <2>4. CASE ~lineState
    <3>1. writeError' = TRUE /\ todo' = todo
      BY <2>1, <2>4 DEF Write, Fail
    <3>2. Tx' = Tx
      BY <2>2, <3>1 DEF Tx, Banked
    <3> QED
      BY <1>4, <2>2, <3>1, <3>2
  <2> QED
    BY <2>3, <2>4
<1>8. CASE SendStart \/ SendSpaceStep
  <2>1. UNCHANGED <<in, fill, heard, configured, suspended, hostReads>>
    BY <1>8 DEF SendStart, SendSpaceStep, txBanks, host
  <2>2. (UNCHANGED <<todo, writeError>>) \/ (todo' = <<>> /\ writeError' = TRUE)
    BY <1>8 DEF SendStart, SendSpaceStep, Fail
  <2> QED
    BY <1>2, <1>5, <2>1, <2>2
<1>9. CASE SendPush \/ FlushRelease \/ StartOfFrame
  <2>1. UNCHANGED <<heard, writeError, configured, suspended, hostReads>>
    BY <1>9 DEF SendPush, FlushRelease, StartOfFrame, host
  <2>2. Tx' = Tx
    BY <1>9, PushMoves, ReleaseMoves
  <2> QED
    BY <1>1, <2>1, <2>2
<1>10. CASE Suspend \/ Resume \/ HostTurns
  <2>1. UNCHANGED <<in, fill, todo, heard, writeError>>
    BY <1>10 DEF Suspend, Resume, HostTurns, txBanks, locals
  <2>2. Tx' = Tx
    BY <2>1 DEF Tx, Banked
  <2>3. ~up \/ ~up'
    BY <1>10 DEF Suspend, Resume, HostTurns, HostUp, UInv, UsbTypes
  <2> QED
    BY <1>4, <2>1, <2>2, <2>3
<1>11. CASE HostTakes
  <2>1. UNCHANGED <<fill, todo, writeError, configured, suspended, hostReads>> /\ in' = Tail(in) /\ in # <<>>
    BY <1>11 DEF HostTakes, host, locals
  <2>2. CASE Head(in) = <<>>
    <3>1. heard' = heard
      BY <1>11, <2>2 DEF HostTakes
    <3>2. FlattenSeq(in) = FlattenSeq(Tail(in))
      <4>1. FlattenSeq(in) = <<>> \o FlattenSeq(Tail(in)) /\ FlattenSeq(Tail(in)) \in Seq(TxByte)
        BY <2>1, <2>2, FlatProps DEF UInv, TxInv
      <4> QED
        BY <4>1, EmptyConcat
    <3>3. Tx' = Tx
      BY <2>1, <3>2 DEF Tx, Banked
    <3> QED
      BY <1>1, <2>1, <3>1, <3>3
  <2>3. CASE Head(in) # <<>>
    <3>1. \E k \in 1..Len(Tx) : heard' = SubSeq(Tx, 1, k) /\ Tx' = SubSeq(Tx, k + 1, Len(Tx))
      BY <1>11, <2>3, TakeDelivers
    <3>2. UNCHANGED <<HostUp, hostReads, writeError>>
      BY <2>1 DEF HostUp
    <3> QED
      BY <3>1, <3>2 DEF ToHost!Deliver, Tx, Banked
  <2> QED
    BY <2>2, <2>3
<1>12. CASE SetControlLineState \/ Peek \/ Read \/ Begin \/ HostSends \/ FlushSelect \/ FlushCount
            \/ UNCHANGED vars
  BY <1>2, <1>12 DEF SetControlLineState, Peek, Read, Begin, HostSends, FlushSelect, FlushCount,
       vars, txBanks, host, locals
<1> QED
  BY <1>6, <1>7, <1>8, <1>9, <1>10, <1>11, <1>12 DEF Next, Main, Call, Host

(* The safety half of WritesArrive: bytes given to write() reach the host  *)
(* in order and once each, whatever the frame interrupt, flush() or the    *)
(* host do, unless the connection is lost or the write error is set        *)
(* (USBCore.cpp: USB_Send, USB_Flush).                                     *)
THEOREM WritesInOrder == Spec => ToHost!PSpec
<1>1. Init => ToHost!PInit
  <2> SUFFICES ASSUME Init PROVE ToHost!PInit
    OBVIOUS
  <2>1. /\ in = <<>> /\ fill = <<>> /\ todo = <<>> /\ heard = <<>> /\ writeError = FALSE
    BY DEF Init
  <2>2. Tx = <<>>
    BY <2>1, FlatOfNone DEF Tx, Banked
  <2>3. (HostUp /\ hostReads) \in BOOLEAN
    OBVIOUS
  <2> QED
    BY <2>1, <2>2, <2>3 DEF ToHost!PInit, Tx, Banked
<1>2. UInv /\ UInv' /\ [Next]_vars => [ToHost!Accept \/ ToHost!Deliver \/ ToHost!Lose]_(ToHost!pvars)
  BY TxPipeStep
<1> QED
  BY <1>1, <1>2, UAlways, PTL DEF Spec, ToHost!PSpec

=============================================================================
