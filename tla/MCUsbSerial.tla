---------------------------- MODULE MCUsbSerial ----------------------------
(* Values for the constants of UsbSerial. *)
EXTENDS UsbSerial

(* Nothing, a part of an end point, a full one, more than one. *)
SomeMessages == {<<>>, <<1>>, <<1, 2>>, <<1, 2, 1>>}
OneByte == {1}
TwoBytes == {1, 2}

(* A bound: the two directions share the end point selector and the main   *)
(* thread only, so states in which both hold bytes are not continued.      *)
OneWay == \/ out = <<>> /\ peek_buffer < 0 /\ got = <<>>
          \/ in = <<>> /\ fill = <<>> /\ heard = <<>> /\ pc = "idle" /\ ~writeError
=============================================================================
