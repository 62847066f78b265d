----------------------------- MODULE TxChannel -----------------------------
(***************************************************************************)
(* What a serial transmitter promises: every byte accepted is sent, once,  *)
(* in the order of acceptance, and at most Cap bytes are under way.        *)
(* HardwareSerial implements it.                                           *)
(***************************************************************************)
EXTENDS Naturals, Sequences

CONSTANTS Byte,     \* the bytes that can be sent
          NoByte,   \* "nothing was sent yet"
          Cap       \* how many accepted bytes can be under way

VARIABLES pending,  \* the accepted bytes not yet sent, oldest first
          sent      \* the byte sent last

tvars == <<pending, sent>>

TInit == pending = <<>> /\ sent = NoByte

Accept(b) == /\ Len(pending) < Cap
             /\ pending' = Append(pending, b)
             /\ UNCHANGED sent

Emit == /\ pending # <<>>
        /\ sent' = Head(pending)
        /\ pending' = Tail(pending)

TNext == (\E b \in Byte : Accept(b)) \/ Emit

TSpec == TInit /\ [][TNext]_tvars

(* With a transmitter that runs, whatever is accepted is sent. *)
FairTSpec == TSpec /\ WF_tvars(Emit)
=============================================================================
