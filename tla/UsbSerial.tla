------------------------------ MODULE UsbSerial ------------------------------
(***************************************************************************)
(* The data path of the USB serial port: Serial_ of CDC.cpp over USB_Send, *)
(* USB_Recv, USB_SendSpace, USB_Available and USB_Flush of USBCore.cpp,    *)
(* the two bulk end points with their double banks, the start-of-frame and *)
(* bus reset handlers, and a host that reads, stops reading, sleeps,       *)
(* resets and configures the device whenever it likes.                     *)
(*                                                                         *)
(* A bank is the sequence of its bytes.  in holds the banks released to    *)
(* the host and fill the one being written; out holds the banks the host   *)
(* filled, the first of them being read.  LockEP is a step of its own that *)
(* no handler can split; the loop of USB_Send and USB_Flush, which takes   *)
(* no lock, are split at every access a handler can come between.          *)
(***************************************************************************)
EXTENDS Integers, Sequences, SequencesExt

CONSTANTS
  Message,      \* the buffers the sketch writes
  Longest,      \* the longest of them has at most so many bytes
  RxByte,       \* the bytes the host sends
  EpSize,       \* USB_EP_SIZE, 64 in the code
  Timeout,      \* the 250 waits of USB_Send
  HostZlp       \* TRUE: the host may send a packet of no bytes

ASSUME UsbSerialAssumption ==
  /\ EpSize \in Nat \ {0}
  /\ Timeout \in 1..255
  /\ HostZlp \in BOOLEAN
  /\ RxByte \subseteq 0..255
  /\ Longest \in Nat
  /\ \A msg \in Message : msg \in Seq(0..255) /\ Len(msg) <= Longest

VARIABLES
  configured,   \* _usbConfiguration # 0
  enabled,      \* EPEN of the bulk end points
  lineState,    \* _usbLineInfo.lineState > 0: a program of the host opened the port
  suspended,    \* SUSPI in _usbSuspendState; the bus is silent
  rmwkup,       \* RMWKUP in UDCON
  hostReads,    \* the host polls the IN end point
  uenum,        \* UENUM while USB_Flush relies on it, else "any"
  in, fill,     \* CDC_TX: banks released, bank being written
  lastLen,      \* ghost: bytes in the bank released last
  out,          \* CDC_RX: banks received
  peek_buffer,  \* -1 is None
  heard, got,   \* ghost: what the host took last, what the sketch read last
  writeError,   \* write_error of class Print
  pc,           \* next step of the main thread
  todo, n,      \* data and len of USB_Send; its n, or the count USB_Flush read
  timeout, sendZlp

host == <<configured, enabled, lineState, suspended, hostReads>>
txBanks == <<in, fill, lastLen>>
rxBanks == <<out, peek_buffer, got>>
locals == <<todo, n, timeout, sendZlp>>
vars == <<host, rmwkup, uenum, txBanks, rxBanks, heard, writeError, pc, locals>>

None == -1
Banks == 2              \* EP_DOUBLE_64

Init ==
  /\ configured = FALSE /\ enabled = FALSE /\ lineState = FALSE
  /\ suspended = FALSE /\ rmwkup = FALSE /\ hostReads = TRUE
  /\ uenum = "any"
  /\ in = <<>> /\ fill = <<>> /\ lastLen = 0 /\ out = <<>>
  /\ peek_buffer = None /\ heard = <<>> /\ got = <<>>
  /\ writeError = FALSE
  /\ pc = "idle" /\ todo = <<>> /\ n = 0 /\ timeout = 0 /\ sendZlp = FALSE

-----------------------------------------------------------------------------
(* The IN end point *)

(* A bank is free and has room: RWAL. *)
ReadWriteAllowed == enabled /\ Len(in) < Banks /\ Len(fill) < EpSize

(* The bank after UEDATX is written: nothing is stored without room. *)
Written(bytes) == IF ReadWriteAllowed THEN fill \o bytes ELSE fill

SendSpace == IF ReadWriteAllowed THEN EpSize - Len(fill) ELSE 0

(* FIFOCON cleared: bank goes to the host; without a free bank, nothing. *)
ReleaseTX(bank) ==
  IF enabled /\ Len(in) < Banks
    THEN /\ in' = Append(in, bank)
         /\ fill' = <<>>
         /\ lastLen' = Len(bank)
    ELSE UNCHANGED txBanks

-----------------------------------------------------------------------------
(* Serial_::write and USB_Send *)

Fail == writeError' = TRUE /\ pc' = "idle"

(* The port must be open. *)
Write(msg) ==
  /\ pc = "idle"
  /\ IF lineState
       THEN pc' = "start" /\ todo' = msg /\ UNCHANGED writeError
       ELSE Fail /\ UNCHANGED todo
  /\ UNCHANGED <<host, rmwkup, uenum, txBanks, rxBanks, heard, n, timeout, sendZlp>>

(* A write of no bytes returns 0, which is taken for a failure. *)
SendStart ==
  /\ pc = "start"
  /\ rmwkup' = (rmwkup \/ (configured /\ suspended))
  /\ IF configured /\ todo # <<>>
       THEN pc' = "space" /\ timeout' = Timeout /\ UNCHANGED <<writeError, todo>>
       ELSE Fail /\ todo' = <<>> /\ UNCHANGED timeout
  /\ UNCHANGED <<host, uenum, txBanks, rxBanks, heard, n, sendZlp>>

(* No room: wait a millisecond, or give up with -1. *)
AfterWaitEndless == timeout
AfterWait == timeout - 1
SendSpaceStep ==
  /\ pc = "space"
  /\ LET room == SendSpace IN
       IF room > 0
         THEN /\ n' = IF room > Len(todo) THEN Len(todo) ELSE room
              /\ pc' = "push"
              /\ UNCHANGED <<writeError, todo, timeout, sendZlp>>
         ELSE /\ timeout' = AfterWait
              /\ IF timeout' = 0
                   THEN Fail /\ todo' = <<>> /\ sendZlp' = FALSE
                   ELSE UNCHANGED <<pc, writeError, todo, sendZlp>>
              /\ UNCHANGED n
  /\ UNCHANGED <<host, rmwkup, uenum, txBanks, rxBanks, heard>>

(* The locked block.  The frame may have been released since: start over.  *)
(* A transfer that ends on a full bank needs an empty one behind it.       *)
MayPushAlways == TRUE
MayPush == ReadWriteAllowed
NeedsZlpNever(bank, rest) == FALSE
NeedsZlp(bank, rest) == Len(bank) = EpSize /\ rest = <<>>
SendPush ==
  /\ pc = "push"
  /\ n' = 0
  /\ IF ~MayPush
       THEN pc' = "space" /\ UNCHANGED <<txBanks, todo, timeout, sendZlp>>
       ELSE LET bank == Written(SubSeq(todo, 1, n))
                rest == SubSeq(todo, n + 1, Len(todo))
            IN /\ todo' = rest
               /\ IF sendZlp \/ Len(bank) = EpSize
                    THEN ReleaseTX(bank)
                    ELSE fill' = bank /\ UNCHANGED <<in, lastLen>>
               /\ sendZlp' = (~sendZlp /\ NeedsZlp(bank, rest))
               /\ pc' = IF rest = <<>> /\ ~sendZlp' THEN "idle" ELSE "space"
               /\ timeout' = IF pc' = "idle" THEN 0 ELSE timeout
  /\ UNCHANGED <<host, rmwkup, uenum, rxBanks, heard, writeError>>

-----------------------------------------------------------------------------
(* Serial_::flush: USB_Flush on the main thread, without a lock *)

FlushSelect ==
  /\ pc = "idle"
  /\ uenum' = "tx"
  /\ pc' = "count"
  /\ UNCHANGED <<host, rmwkup, txBanks, rxBanks, heard, writeError, locals>>

(* FifoByteCount of the selected end point, whatever that is by now. *)
FlushCount ==
  /\ pc = "count"
  /\ n' \in IF uenum = "tx" THEN {Len(fill)} ELSE {0, 1}
  /\ pc' = "release"
  /\ UNCHANGED <<host, rmwkup, uenum, txBanks, rxBanks, heard, writeError, todo, timeout, sendZlp>>

FlushRelease ==
  /\ pc = "release"
  /\ IF n > 0 /\ uenum = "tx" THEN ReleaseTX(fill) ELSE UNCHANGED txBanks
  /\ n' = 0 /\ uenum' = "any" /\ pc' = "idle"
  /\ UNCHANGED <<host, rmwkup, rxBanks, heard, writeError, todo, timeout, sendZlp>>

-----------------------------------------------------------------------------
(* The OUT end point: available, peek, read, begin *)

Bank == IF out = <<>> THEN <<>> ELSE Head(out)

Available == (IF peek_buffer >= 0 THEN 1 ELSE 0) + Len(Bank)

(* USB_Recv(ep) of one byte: the byte, or -1; an emptied bank is released. *)
RecvByte == IF configured /\ Bank # <<>> THEN Head(Bank) ELSE None
RecvOutKept ==
  IF RecvByte = None THEN out ELSE <<Tail(Bank)>> \o Tail(out)
RecvOut ==
  IF RecvByte = None THEN out
  ELSE IF Len(Bank) = 1 THEN Tail(out) ELSE <<Tail(Bank)>> \o Tail(out)

PeekAgain ==
  /\ pc = "idle"
  /\ peek_buffer' = RecvByte
  /\ out' = RecvOut
  /\ UNCHANGED <<host, rmwkup, uenum, txBanks, got, heard, writeError, pc, locals>>
Peek ==
  /\ pc = "idle" /\ peek_buffer < 0
  /\ peek_buffer' = RecvByte
  /\ out' = RecvOut
  /\ UNCHANGED <<host, rmwkup, uenum, txBanks, got, heard, writeError, pc, locals>>

Read ==
  /\ pc = "idle"
  /\ IF peek_buffer >= 0
       THEN got' = <<peek_buffer>> /\ peek_buffer' = None /\ UNCHANGED out
       ELSE /\ got' = IF RecvByte = None THEN got ELSE <<RecvByte>>
            /\ out' = RecvOut
            /\ UNCHANGED peek_buffer
  /\ UNCHANGED <<host, rmwkup, uenum, txBanks, heard, writeError, pc, locals>>

(* begin() forgets a byte that peek() took: as if it had been read. *)
Begin ==
  /\ pc = "idle" /\ peek_buffer >= 0
  /\ got' = <<peek_buffer>> /\ peek_buffer' = None
  /\ UNCHANGED <<host, rmwkup, uenum, txBanks, out, heard, writeError, pc, locals>>

-----------------------------------------------------------------------------
(* Handlers, each with the host or bus event it answers *)

(* USB_GEN_vect, start of frame: USB_Flush(CDC_TX) with interrupts off. *)
StartOfFrame ==
  /\ ~suspended
  /\ IF fill # <<>> THEN ReleaseTX(fill) ELSE UNCHANGED txBanks
  /\ uenum' = IF uenum = "any" THEN "any" ELSE "tx"
  /\ UNCHANGED <<host, rmwkup, rxBanks, heard, writeError, pc, locals>>

Unselect == uenum' = IF uenum = "any" THEN "any" ELSE "ep0"
(* InitEndpoints leaves the last end point with a type selected: the one to *)
(* the host, or a plugged module's.                                         *)
SelectLast == uenum' \in IF uenum = "any" THEN {"any"} ELSE {"tx", "ep0"}

ClearBanks ==
  /\ in' = <<>> /\ fill' = <<>> /\ lastLen' = 0
  /\ out' = <<>> /\ UNCHANGED <<peek_buffer, got>>

(* End of bus reset: end point 0 set up, the others disabled by the chip. *)
BusReset ==
  /\ configured' = FALSE /\ enabled' = FALSE /\ suspended' = FALSE
  /\ UNCHANGED <<lineState, hostReads>>
  /\ ClearBanks /\ Unselect
  /\ UNCHANGED <<rmwkup, heard, writeError, pc, locals>>

(* SET_CONFIGURATION: InitEndpoints, whatever the value.  To configure a    *)
(* configured device again is here to unconfigure it first.                *)
SetConfiguration ==
  /\ ~suspended
  /\ configured' \in {FALSE, ~configured} /\ enabled' = TRUE
  /\ UNCHANGED <<lineState, suspended, hostReads>>
  /\ ClearBanks /\ SelectLast
  /\ UNCHANGED <<rmwkup, heard, writeError, pc, locals>>

(* SET_CONTROL_LINE_STATE, the effect on the data path only; any other     *)
(* control request leaves lineState as it is.                              *)
SetControlLineState ==
  /\ ~suspended /\ configured
  /\ lineState' \in BOOLEAN
  /\ Unselect
  /\ UNCHANGED <<configured, enabled, suspended, hostReads, rmwkup, txBanks, rxBanks,
                 heard, writeError, pc, locals>>

(* SUSPI and WAKEUPI. *)
Suspend ==
  /\ ~suspended /\ suspended' = TRUE
  /\ UNCHANGED <<configured, enabled, lineState, hostReads, rmwkup, uenum, txBanks, rxBanks,
                 heard, writeError, pc, locals>>
Resume ==
  /\ suspended /\ suspended' = FALSE /\ rmwkup' = FALSE
  /\ UNCHANGED <<configured, enabled, lineState, hostReads, uenum, txBanks, rxBanks,
                 heard, writeError, pc, locals>>

HostUp == configured /\ ~suspended

(* The host takes the oldest bank. *)
HostTakes ==
  /\ HostUp /\ hostReads /\ in # <<>>
  /\ heard' = IF Head(in) = <<>> THEN heard ELSE Head(in)
  /\ in' = Tail(in)
  /\ UNCHANGED <<host, rmwkup, uenum, fill, lastLen, rxBanks, writeError, pc, locals>>

HostSends ==
  /\ HostUp /\ Len(out) < Banks
  /\ \E p \in SeqOf(RxByte, EpSize) :
       /\ p # <<>> \/ HostZlp
       /\ out' = Append(out, p)
  /\ UNCHANGED <<host, rmwkup, uenum, txBanks, peek_buffer, got, heard, writeError, pc, locals>>

(* The host's driver stops reading and takes it up again. *)
HostTurns ==
  /\ hostReads' = ~hostReads
  /\ UNCHANGED <<configured, enabled, lineState, suspended, rmwkup, uenum, txBanks, rxBanks,
                 heard, writeError, pc, locals>>

-----------------------------------------------------------------------------
Main == \/ SendStart \/ SendSpaceStep \/ SendPush
        \/ FlushCount \/ FlushRelease
Call == \/ \E msg \in Message : Write(msg)
        \/ FlushSelect \/ Peek \/ Read \/ Begin
Host == \/ BusReset \/ SetConfiguration \/ SetControlLineState
        \/ Suspend \/ Resume \/ HostTakes \/ HostSends \/ HostTurns

Next == Main \/ Call \/ StartOfFrame \/ Host

Spec == Init /\ [][Next]_vars

(* The main thread runs; frames come every millisecond while the bus is    *)
(* awake; a host that reads polls.                                         *)
FairSpec == Spec /\ WF_vars(Main) /\ WF_vars(StartOfFrame) /\ WF_vars(HostTakes)

-----------------------------------------------------------------------------
(* Every variable keeps its type: no more banks than there are, and none   *)
(* overfilled.                                                             *)
TypeOK ==
  /\ {configured, enabled, lineState, suspended, rmwkup, hostReads, writeError, sendZlp} \subseteq BOOLEAN
  /\ uenum \in {"any", "tx", "ep0"}
  /\ Len(in) <= Banks /\ Len(fill) <= EpSize /\ Len(out) <= Banks
  /\ n \in 0..EpSize /\ timeout \in 0..Timeout
  /\ pc \in {"idle", "start", "space", "push", "count", "release"}

(* A transfer ends with a packet shorter than the end point: when write()  *)
(* has returned and none failed, the packet released last was short, or    *)
(* bytes that will make a short one wait for the next frame.  A host whose *)
(* driver waits for the end of a transfer depends on it.                   *)
TransferEnded ==
  pc = "idle" /\ ~writeError => lastLen < EpSize \/ fill # <<>>

(* available() says zero exactly when everything the host sent was read:   *)
(* an empty bank in front, or a peeked byte, hides nothing.                *)
AvailableTells ==
  (Available > 0) <=> (peek_buffer >= 0 \/ FlattenSeq(out) # <<>>)

(* Both, and the types: the banks tell the host and the sketch the truth.  *)
BanksTrue == TypeOK /\ TransferEnded /\ AvailableTells

(* Bytes given to write() reach the host in order, once, whatever the      *)
(* frame interrupt, flush() or the host do, unless the connection is lost  *)
(* or the write error is set; while the host reads, they arrive.           *)
ToHost == INSTANCE PacketPipe WITH
  Byte <- UNION {ToSet(msg) : msg \in Message}, Cap <- (Banks + 1) * EpSize + Longest,
  pending <- FlattenSeq(in) \o fill \o todo, delivered <- heard,
  up <- HostUp /\ hostReads, failed <- writeError
WritesArrive == ToHost!FairPSpec

(* Bytes the host sent are read in order, once, through peek_buffer or     *)
(* not, until the connection is lost.                                      *)
FromHost == INSTANCE PacketPipe WITH
  Byte <- RxByte, Cap <- Banks * EpSize + 1,
  pending <- (IF peek_buffer >= 0 THEN <<peek_buffer>> ELSE <<>>) \o FlattenSeq(out),
  delivered <- got, up <- HostUp, failed <- FALSE
ReadsInOrder == FromHost!PSpec

(* write() and flush() return, also when the host has stopped reading, is  *)
(* asleep or has reset the device in the middle of a call; a host that     *)
(* resets it for ever may catch SendPush each time.                        *)
CallsReturn ==
  []<><<BusReset>>_enabled \/ ((pc # "idle") ~> (pc = "idle"))
=============================================================================
