------------------------------ MODULE RxQueue ------------------------------
(***************************************************************************)
(* What a serial receiver promises the sketch: the bytes it stored are     *)
(* handed out oldest first, each exactly once, and at most Cap of them are *)
(* stored at a time.  Both receive rings of the firmware, the one of       *)
(* SoftwareSerial and the one of HardwareSerial, implement it.             *)
(***************************************************************************)
EXTENDS Naturals, Sequences

CONSTANTS Byte,     \* the bytes that can be received
          NoByte,   \* "nothing was read yet"
          Cap       \* how many bytes the receiver stores

VARIABLES queue,    \* the stored bytes, oldest first
          got       \* the byte the last successful read() returned

qvars == <<queue, got>>

QInit == queue = <<>> /\ got = NoByte

(* A byte is stored behind the others. *)
Put(b) == /\ Len(queue) < Cap
          /\ queue' = Append(queue, b)
          /\ UNCHANGED got

(* The reader takes the oldest byte. *)
Get == /\ queue # <<>>
       /\ got' = Head(queue)
       /\ queue' = Tail(queue)

(* Everything stored is given up: another listener, or the port is closed. *)
Discard == queue' = <<>> /\ UNCHANGED got

QNext == (\E b \in Byte : Put(b)) \/ Get \/ Discard

QSpec == QInit /\ [][QNext]_qvars
=============================================================================
