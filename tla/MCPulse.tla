------------------------------ MODULE MCPulse ------------------------------
(* Instances of Pulse for TLC. *)
EXTENDS Pulse

CONSTANT PulseAt

(* Pulses are measured from a few moments on, such that micros() wraps     *)
(* before, during and after the pulse.                                     *)
FewPulses == Measuring => called \in PulseAt
=============================================================================
