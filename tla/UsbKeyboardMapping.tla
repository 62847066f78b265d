------------------------- MODULE UsbKeyboardMapping -------------------------
(***************************************************************************)
(* keyboard_map of include/UsbKeyboardMapping.h and translateInput(): the  *)
(* received character, the HID modifier byte and the HID key code.         *)
(***************************************************************************)
EXTENDS Naturals, Sequences

Control == 1    Shift == 2    \* bits of the modifier byte

(* Rows of the table.  The array has keyCount = 110 rows and 109 are written:
   the last one is all zeroes. *)
keyboard_map ==
       {<<22, Control, 25>>, <<1, Control, 4>>, <<26, Control, 29>>,
        <<3, Control, 6>>, <<4, Control, 7>>, <<20, Control, 23>>}
  \cup {<<13, 0, 40>>, <<8, 0, 42>>, <<27, 0, 41>>,
        <<31, 0, 81>>, <<29, 0, 79>>, <<30, 0, 82>>, <<28, 0, 80>>}
  \cup {<<c, 0, c - 93>> : c \in 97..122}          \* a..z
  \cup {<<c, Shift, c - 61>> : c \in 65..90}       \* A..Z
  \cup {<<c, 0, c - 19>> : c \in 49..57}           \* 1..9
  \cup {<<33, Shift, 30>>, <<64, Shift, 31>>, <<35, Shift, 32>>,
        <<36, Shift, 33>>, <<37, Shift, 34>>, <<94, Shift, 35>>,
        <<38, Shift, 36>>, <<42, Shift, 37>>, <<40, Shift, 38>>,
        <<48, 0, 39>>, <<41, Shift, 39>>, <<63, Shift, 56>>, <<32, 0, 44>>,
        <<45, 0, 45>>, <<95, Shift, 45>>, <<61, 0, 46>>, <<43, Shift, 46>>,
        <<91, 0, 47>>, <<123, Shift, 47>>, <<93, 0, 48>>, <<125, Shift, 48>>,
        <<126, Shift, 53>>, <<96, 0, 53>>, <<124, Shift, 49>>, <<92, 0, 49>>,
        <<59, 0, 51>>, <<58, Shift, 51>>, <<44, 0, 54>>, <<60, Shift, 54>>,
        <<46, 0, 55>>, <<62, Shift, 55>>, <<47, 0, 56>>,
        <<34, Shift, 52>>, <<39, 0, 52>>, <<9, 0, 43>>}
  \cup {<<0, 0, 0>>}
=============================================================================
