------------------------- MODULE MCExternalInterrupts -------------------------
(***************************************************************************)
(* Instances of ExternalInterrupts: a data, a clock and a handler pin, two *)
(* external interrupts.                                                    *)
(***************************************************************************)
EXTENDS ExternalInterrupts

CONSTANTS data, clock, led

MCPin == {data, clock, led}

=============================================================================
