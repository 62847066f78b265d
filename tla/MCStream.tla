------------------------------ MODULE MCStream ------------------------------
(* The calls TLC makes on Stream. *)
EXTENDS Stream
CONSTANT Comma

(* find() of every word of three bits, and findUntil() of words that        *)
(* overlap, that complete together, and of an empty one.                   *)
FindCalls ==
  {FindCall(<<w>>) : w \in [1..3 -> 0..1]}
    \cup {FindCall(<<<<0, 1, 0>>, <<1, 1>>>>), FindCall(<<<<0, 1>>, <<1>>>>),
          FindCall(<<<<0>>, <<>>>>)}

(* Numbers to read and parse; a terminator that is not there, buffers that  *)
(* are full before it comes, an ignored '-'.                               *)
MCChar == {0, 1, Minus, Dot, Comma}
TextCalls ==
  {ReadCall(0, None), ReadCall(2, None), ReadCall(2, Comma), ReadCall(None, Comma),
   ParseCall("all", Comma, TRUE), ParseCall("none", Comma, FALSE),
   ParseCall("whitespace", Comma, FALSE), ParseCall("all", Minus, FALSE)}
MCCalls == FindCalls \cup TextCalls

(* A search sees up to MaxChars characters, bits only, and one only after   *)
(* another search; the other calls see every character, three in all.      *)
Searching == call # None /\ call.kind = "find"
Bounded ==
  IF Searching THEN ToSet(taken \o inbox) \subseteq 0..1 ELSE arrivals <= 3
=============================================================================
