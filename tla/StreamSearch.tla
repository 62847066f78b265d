---------------------------- MODULE StreamSearch ----------------------------
(***************************************************************************)
(* How Stream::findMulti (core/Stream.cpp) follows one target through the  *)
(* stream, one character at a time and without keeping the stream, and     *)
(* what that has to mean.                                                  *)
(***************************************************************************)
EXTENDS Naturals, Sequences

(* The int c of timedRead(), 0..255, against a char of the target, which    *)
(* is signed: the characters of high are negative there and equal no c.     *)
SameChar(high, c, ch) == c = ch /\ ch \notin high

(* The positions the walk back may stop at: str[k] is c, and what stands   *)
(* before it in str is what was matched last.                              *)
WalkBackUnchecked(high, str, index, c) ==
  {k \in 1..index : SameChar(high, c, str[k])}
WalkBack(high, str, index, c) ==
  {k \in 1..index :
     /\ SameChar(high, c, str[k])
     /\ \A i \in 1..(k - 1) : str[i] = str[i + (index - (k - 1))]}

(* t->index after the character c; Len(str) means found. *)
NextIndexReset(high, str, index, c) ==
  IF SameChar(high, c, str[index + 1]) THEN index + 1 ELSE 0
NextIndex(high, str, index, c) ==
  IF SameChar(high, c, str[index + 1])
  THEN index + 1
  ELSE LET stops == WalkBack(high, str, index, c)
       IN IF stops = {} THEN 0
          ELSE CHOOSE k \in stops : \A j \in stops : j <= k

(* The first n characters of str are the last n of seen. *)
EndsWith(seen, str, n) ==
  /\ n <= Len(seen)
  /\ \A i \in 1..n : str[i] = seen[Len(seen) - n + i]

(* The reference: as much of str as the stream ends with. *)
IsLongestMatch(seen, str, n) ==
  /\ EndsWith(seen, str, n)
  /\ \A j \in (n + 1)..Len(str) : ~EndsWith(seen, str, j)

(* str occurs in seen. *)
Occurs(str, seen) ==
  \E e \in 0..Len(seen) : EndsWith(SubSeq(seen, 1, e), str, Len(str))
=============================================================================
