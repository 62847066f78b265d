----------------------------- MODULE MCWString -----------------------------
(* Literals for WString: letters and a blank. *)
EXTENDS WString
CONSTANTS a, b

Words == {<<>>, <<a>>, <<Blank, a>>}
(* What replace() meets again in its own replacement. *)
Repeating == {<<a, a, b>>, <<a, b>>, <<b, b, b>>}
=============================================================================
