----------------------------- MODULE PacketPipe -----------------------------
(***************************************************************************)
(* What a pipe of packets promises its two ends: bytes accepted in batches *)
(* come out in batches cut elsewhere, in order and once each; bytes are    *)
(* lost only with the connection or with an error reported to the sender,  *)
(* and while the connection stays up the rest arrives.  Both directions of *)
(* the USB serial port implement it.                                       *)
(***************************************************************************)
EXTENDS Naturals, Sequences, SequencesExt

CONSTANTS Byte,     \* the bytes that can be sent
          Cap       \* how many accepted bytes can be under way

VARIABLES pending,    \* the accepted bytes not yet delivered, oldest first
          delivered,  \* the batch delivered last
          up,         \* the far end takes what it is offered
          failed      \* the sender was told of an error

pvars == <<pending, delivered, up, failed>>

PInit == pending = <<>> /\ delivered = <<>> /\ up \in BOOLEAN /\ failed = FALSE

Accept == /\ IsPrefix(pending, pending')
          /\ pending' \in Seq(Byte) /\ Len(pending') <= Cap
          /\ UNCHANGED <<delivered, up, failed>>

(* At least one byte; the batch is a beginning of what is pending. *)
Deliver == /\ \E k \in 1..Len(pending) :
                /\ delivered' = SubSeq(pending, 1, k)
                /\ pending' = SubSeq(pending, k + 1, Len(pending))
           /\ UNCHANGED <<up, failed>>

(* The connection goes, is down or comes back, or an error is reported:    *)
(* a part of what is pending is kept.                                      *)
Lose == /\ ~up \/ ~up' \/ failed'
        /\ \E i \in 1..(Len(pending) + 1), j \in 0..Len(pending) :
             pending' = SubSeq(pending, i, j)
        /\ UNCHANGED delivered

PSpec == PInit /\ [][Accept \/ Deliver \/ Lose]_pvars

(* A pipe that stays up delivers. *)
FairPSpec == PSpec /\ WF_pvars(up /\ Deliver)
=============================================================================
