------------------------ MODULE MCKeyboardOverSerial ------------------------
(* Instances of KeyboardOverSerial for TLC. *)
EXTENDS KeyboardOverSerial

(* 'a', 'A' and ctrl-a (the same key with Shift and with Control), Enter, NUL
   and a character without a row. *)
SomeChars == {97, 65, 1, 13, 0, 2}
=============================================================================
