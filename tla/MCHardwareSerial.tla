-------------------------- MODULE MCHardwareSerial --------------------------
(* Instances of HardwareSerial for TLC. *)
EXTENDS HardwareSerial

CONSTANTS t1, t2, r1, r2

TwoTx == {t1, t2}
TwoRx == {r1, r2}
Nothing == {}
=============================================================================
