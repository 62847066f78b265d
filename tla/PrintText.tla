------------------------------ MODULE PrintText ------------------------------
(***************************************************************************)
(* Print.cpp, which every port inherits: texts and numbers become calls of *)
(* write(c), and the calls' answers become the number returned.  A port is *)
(* what write() answers in turn, what it took and what the calls returned. *)
(***************************************************************************)
EXTENDS Integers, Sequences, FiniteSetsExt

CONSTANTS
  Base,       \* 10
  LongMax,    \* the greatest value of a long
  Minus, Dot  \* '-' and '.'

ASSUME PrintAssumption ==
  Base \in Nat \ {0, 1} /\ LongMax \in Nat \ {0} /\ Base <= LongMax /\ Minus # Dot

Longs == 2 * (LongMax + 1)

(* write() takes every character, or refuses the ones numbered in no. *)
Port(no) == [no |-> no, asked |-> 0, out |-> <<>>, n |-> 0]

(* write(buffer, size): stops at the first character refused. *)
TakenOf(p, size) ==
  LET refused == {i \in 1..size : p.asked + i \in p.no}
  IN IF refused = {} THEN size ELSE Min(refused) - 1
WriteGoesOn(p, text) ==
  [p EXCEPT !.asked = @ + Len(text), !.n = @ + Len(text),
            !.out = @ \o SubSeq(text, 1, TakenOf(p, Len(text)))]
Write(p, text) ==
  LET size == TakenOf(p, Len(text))
  IN [p EXCEPT !.asked = @ + size + (IF size < Len(text) THEN 1 ELSE 0),
               !.n = @ + size, !.out = @ \o SubSeq(text, 1, size)]

(* printNumber: the digits of n, a value of an unsigned long, in a base. *)
DigitsIn(b) ==
  LET f[n \in 0..(Longs - 1)] == IF n < b THEN <<n>> ELSE Append(f[n \div b], n % b)
  IN f
PrintNumber(p, n, base) == Write(p, DigitsIn(IF base < 2 THEN Base ELSE base)[n])

(* print(long, base).  -n of the least long is that long: as an unsigned   *)
(* long it is right.  In another base a negative number is its complement. *)
PrintLongUnsigned(p, n, base) == PrintNumber(p, n % Longs, base)
PrintLong(p, n, base) ==
  IF base = 0 THEN Write(p, <<n % 256>>)
  ELSE IF base = Base /\ n < 0
    THEN PrintNumber(Write(p, <<Minus>>), (-n) % Longs, Base)
  ELSE PrintNumber(p, n % Longs, base)

(* printFloat(num / den, digits), for a number in range, in exact          *)
(* arithmetic: half a unit of the last digit is added first.  In units of  *)
(* 1 / (2 den Base^digits) the rest is multiplied and cut digit by digit.  *)
Power[k \in 0..8] == IF k = 0 THEN 1 ELSE Power[k - 1] * Base
Rest(rest, unit) ==
  LET f[k \in 0..8] == IF k = 0 THEN rest ELSE (f[k - 1] * Base) % unit
  IN f
RoundingNone(den) == 0
Rounding(den) == den
PrintFloat(p, num, den, digits) ==
  LET unit  == 2 * den * Power[digits]
      sum   == (IF num < 0 THEN -num ELSE num) * 2 * Power[digits] + Rounding(den)
      sign  == IF num < 0 THEN Write(p, <<Minus>>) ELSE p
      whole == PrintNumber(sign, sum \div unit, Base)
      point == IF digits > 0 THEN Write(whole, <<Dot>>) ELSE whole
      f[k \in 0..digits] ==
        IF k = 0 THEN point
        ELSE PrintNumber(f[k - 1], (Rest(sum % unit, unit)[k - 1] * Base) \div unit, Base)
  IN f[digits]

(* println: what was printed, however much of it, then the end of line. *)
Println(p, eol) == Write(p, eol)

-----------------------------------------------------------------------------
(* What the calls write is the number they were given: in every base from  *)
(* 2 on its digits as an unsigned long, in Base with a sign; of a fraction *)
(* the multiple of the last digit nearest to it, "so that print(1.999, 2)  *)
(* prints as "2.00"" (Print.cpp:239).  What they return is how much the    *)
(* port took, whichever characters it refuses.                             *)
ValueIn(s, b) == LET v[k \in 0..Len(s)] == IF k = 0 THEN 0 ELSE v[k - 1] * b + s[k] IN v[Len(s)]
Signed(s) == s # <<>> /\ s[1] = Minus
Unsigned(s) == IF Signed(s) THEN Tail(s) ELSE s
Fresh == Port({})
Long == (-LongMax - 1)..LongMax

PrintsLongs ==
  \A n \in Long, b \in 2..16 :
    LET s == PrintLong(Fresh, n, b).out
    IN /\ ValueIn(Unsigned(s), b) = (IF b # Base THEN n % Longs ELSE IF n < 0 THEN -n ELSE n)
       /\ Signed(s) <=> b = Base /\ n < 0
       /\ \A i \in DOMAIN Unsigned(s) : Unsigned(s)[i] \in 0..(b - 1)
       /\ Len(Unsigned(s)) > 1 => Unsigned(s)[1] # 0

(* The text with its point taken out, in units of the last digit. *)
PrintsFraction(num, den, digits) ==
  LET s == Unsigned(PrintFloat(Fresh, num, den, digits).out)
      size == IF num < 0 THEN -num ELSE num
      v == ValueIn(IF digits = 0 THEN s
                   ELSE SubSeq(s, 1, Len(s) - digits - 1) \o SubSeq(s, Len(s) - digits + 1, Len(s)), Base)
  IN /\ digits > 0 => s[Len(s) - digits] = Dot
     /\ 2 * v * den > 2 * size * Power[digits] - den
     /\ 2 * v * den <= 2 * size * Power[digits] + den

(* The whole part, rounded, is an unsigned long; above that the code       *)
(* prints "ovf" (Print.cpp:229).                                           *)
Doubled(num, den, digits) == (IF num < 0 THEN -num ELSE num) * 2 * Power[digits] + den
InRange(num, den, digits) == Doubled(num, den, digits) \div (2 * den * Power[digits]) < Longs

CountsTaken ==
  \A n \in Long, no \in SUBSET (1..4) :
    LET p == Println(PrintLong(Port(no), n, Base), <<Dot, Dot>>) IN p.n = Len(p.out)

PrintsTrue ==
  /\ PrintsLongs /\ CountsTaken
  /\ \A num \in -40..40, den \in {1, 3, 16}, digits \in 0..2 :
       InRange(num, den, digits) => PrintsFraction(num, den, digits)
=============================================================================
