-------------------------- MODULE MCSoftwareSerial --------------------------
(* Instances of SoftwareSerial for TLC. *)
EXTENDS SoftwareSerial

CONSTANTS p1, p2, b1, b2

OnePort == {p1}
TwoPorts == {p1, p2}
OneByte == {b1}
TwoBytes == {b1, b2}
=============================================================================
