------------------------------ MODULE WString ------------------------------
(***************************************************************************)
(* class String (core/WString.cpp): a buffer that realloc() may refuse to  *)
(* grow, its capacity, and a length kept beside the text it holds.         *)
(*                                                                         *)
(* Calls run to completion: one action each.  An object is a record: valid *)
(* (buffer # NULL), cap, len, and text, the characters before the first    *)
(* NUL of the buffer.  A text longer than cap has been written past the    *)
(* end of the array.                                                       *)
(***************************************************************************)
EXTENDS Integers, Sequences, SequencesExt

CONSTANTS
  Obj,        \* the String objects of the sketch
  StringChar, \* the characters
  Blank,      \* the one of them isspace() is true of
  Literals,   \* the C strings the sketch uses
  Sizes,      \* arguments of reserve() and of remove()
  MaxLen,     \* bound: calls that would make a longer text are not made
  MayKeep,    \* the sketch goes on using objects it moved from
  MaySelf,    \* the sketch appends objects to themselves
  MayRepeat   \* the sketch replaces texts by texts that can complete another
              \* occurrence of them

ASSUME WStringAssumption ==
  /\ Literals \subseteq Seq(StringChar) /\ Sizes \subseteq Nat /\ MaxLen \in Nat
  /\ {MayKeep, MaySelf, MayRepeat} \subseteq BOOLEAN

VARIABLES
  str,  \* the objects
  done  \* the last call: what it was, on which objects, what it returned

strvars == <<str, done>>

Null == [valid |-> FALSE, cap |-> 0, len |-> 0, text |-> <<>>]

(* What the object stands for: the text that len says it has. *)
Val(r) == SubSeq(r.text, 1, r.len)

----------------------------------------------------------------------------
(* reserve(size): the outcomes, each whether it succeeded and the object.  *)
ReserveOneLess(r, size) ==
  IF r.valid /\ r.cap + 1 >= size THEN {[ok |-> TRUE, r |-> r]}
  ELSE {[ok |-> FALSE, r |-> r],
        [ok |-> TRUE,
         r |-> [r EXCEPT !.valid = TRUE, !.cap = size,
                         !.text = IF r.len = 0 THEN <<>> ELSE @]]}
Reserve(r, size) ==
  IF r.valid /\ r.cap >= size THEN {[ok |-> TRUE, r |-> r]}
  ELSE {[ok |-> FALSE, r |-> r],
        [ok |-> TRUE,
         r |-> [r EXCEPT !.valid = TRUE, !.cap = size,
                         !.text = IF r.len = 0 THEN <<>> ELSE @]]}

(* copy(cstr, length): strcpy() takes the whole text. *)
CopyKeepsOld(r, text, length) ==
  {IF a.ok THEN [a.r EXCEPT !.len = length, !.text = text] ELSE r :
     a \in Reserve(r, length)}
Copy(r, text, length) ==
  {IF a.ok THEN [a.r EXCEPT !.len = length, !.text = text] ELSE Null :
     a \in Reserve(r, length)}

(* operator = (const String &) *)
AssignFrom(r, rhs) == IF rhs.valid THEN Copy(r, rhs.text, rhs.len) ELSE {Null}

(* move(rhs): the objects afterwards.  The text is copied if there is room, *)
(* else the buffer changes hands.                                          *)
MoveFrom(r, rhs) ==
  IF r.valid /\ rhs.valid /\ r.cap >= rhs.len
  THEN <<[r EXCEPT !.text = rhs.text, !.len = rhs.len], [rhs EXCEPT !.len = 0]>>
  ELSE <<rhs, Null>>

(* concat(cstr, length) with a C string that is not part of the object. *)
ConcatForgetsLen(r, text, length) ==
  IF length = 0 THEN {[ok |-> TRUE, r |-> r]}
  ELSE {[ok |-> a.ok,
         r |-> IF a.ok THEN [a.r EXCEPT !.text = Val(a.r) \o text] ELSE a.r] :
          a \in Reserve(r, r.len + length)}
ConcatText(r, text, length) ==
  IF length = 0 THEN {[ok |-> TRUE, r |-> r]}
  ELSE {[ok |-> a.ok,
         r |-> IF a.ok THEN [a.r EXCEPT !.text = Val(a.r) \o text,
                                        !.len = r.len + length]
               ELSE a.r] :
          a \in Reserve(r, r.len + length)}

(* concat(const String &): of an invalid object nothing. *)
ConcatFrom(r, rhs) ==
  IF rhs.valid THEN ConcatText(r, rhs.text, rhs.len) ELSE {[ok |-> FALSE, r |-> r]}

(* The object itself: strcpy() overwrites the end of what it copies, or    *)
(* reads the block realloc() gave back; what is written is undefined.      *)
ConcatSelf(r) ==
  IF ~r.valid \/ r.len = 0 THEN ConcatFrom(r, r)
  ELSE {[ok |-> a.ok,
         r |-> IF a.ok THEN [a.r EXCEPT !.text = Val(a.r) \o more, !.len = r.len * 2]
               ELSE a.r] :
          a \in Reserve(r, r.len * 2),
          more \in {r.text, r.text \o r.text}}

----------------------------------------------------------------------------
StringInit ==
  /\ str = [o \in Obj |-> Null]
  /\ done = [op |-> "none"]

Did(d) == done' = d

(* String(cstr), operator = (cstr) *)
AssignText(o, text) ==
  /\ \E r \in Copy(str[o], text, Len(text)) : str' = [str EXCEPT ![o] = r]
  /\ Did([op |-> "assign", o |-> o, with |-> text])

(* operator = of a null pointer *)
AssignNull(o) ==
  /\ str' = [str EXCEPT ![o] = Null]
  /\ Did([op |-> "invalidate", o |-> o])

Assign(o, p) ==
  /\ o # p
  /\ \E r \in AssignFrom(str[o], str[p]) : str' = [str EXCEPT ![o] = r]
  /\ Did(IF str[p].valid THEN [op |-> "assign", o |-> o, with |-> Val(str[p])]
         ELSE [op |-> "invalidate", o |-> o])

(* operator = (String &&).  A temporary is destroyed next; the sketch may   *)
(* also move from an object and go on using it.                            *)
Move(o, p) ==
  /\ o # p
  /\ LET moved == MoveFrom(str[o], str[p])
     IN str' \in {[str EXCEPT ![o] = moved[1], ![p] = after] :
                    after \in {Null} \cup (IF MayKeep THEN {moved[2]} ELSE {})}
  /\ Did([op |-> "move", o |-> o, p |-> p])

Concat(o, text) ==
  /\ str[o].len + Len(text) <= MaxLen
  /\ \E a \in ConcatText(str[o], text, Len(text)) :
       /\ str' = [str EXCEPT ![o] = a.r]
       /\ Did([op |-> "concat", o |-> o, with |-> text, ok |-> a.ok])

ConcatString(o, p) ==
  /\ str[o].len + str[p].len <= MaxLen
  /\ o = p => MaySelf
  /\ \E a \in IF o = p THEN ConcatSelf(str[o]) ELSE ConcatFrom(str[o], str[p]) :
       /\ str' = [str EXCEPT ![o] = a.r]
       /\ Did([op |-> "concat", o |-> o, with |-> Val(str[p]), ok |-> a.ok])

(* o = p + text: a StringSumHelper, a copy of p, takes the text or becomes  *)
(* invalid, and is assigned to o (operator + returns an lvalue).           *)
Plus(o, p, text) ==
  /\ str[p].len + Len(text) <= MaxLen
  /\ \E helper \in AssignFrom(Null, str[p]) :
     \E a \in ConcatText(helper, text, Len(text)) :
     \E r \in AssignFrom(str[o], IF a.ok THEN a.r ELSE Null) :
       str' = [str EXCEPT ![o] = r]
  /\ Did([op |-> "sum", o |-> o, left |-> Val(str[p]), right |-> text])

ReserveCall(o, size) ==
  /\ \E a \in Reserve(str[o], size) :
       /\ str' = [str EXCEPT ![o] = a.r]
       /\ Did([op |-> "reserve", o |-> o, size |-> size, ok |-> a.ok])

(* o = p.substring(left, right): out starts as "" and takes the text, or   *)
(* becomes invalid, and is moved to o.                                     *)
Bounds(r, left, right) ==
  LET first == IF left <= right THEN left ELSE right
      last == IF left <= right THEN right ELSE left
  IN [first |-> first, last |-> IF last > r.len THEN r.len ELSE last]

SubstringOf(r, left, right) ==
  LET bounds == Bounds(r, left, right)
      text == SubSeq(r.text, bounds.first + 1, bounds.last)
  IN UNION {IF bounds.first >= r.len THEN {out} ELSE Copy(out, text, Len(text)) :
              out \in Copy(Null, <<>>, 0)}

Substring(o, p, left, right) ==
  /\ \E out \in SubstringOf(str[p], left, right) :
       str' = [str EXCEPT ![o] = MoveFrom(str[o], out)[1]]
  /\ Did([op |-> "substring", o |-> o, of |-> Val(str[p]), left |-> left, right |-> right])

SetCharAt(o, loc, ch) ==
  /\ str' = IF loc < str[o].len THEN [str EXCEPT ![o].text[loc + 1] = ch] ELSE str
  /\ Did([op |-> "set", o |-> o, loc |-> loc, with |-> ch])

(* replace(char, char) *)
ReplaceChar(o, find, with) ==
  /\ str' = [str EXCEPT ![o].text = [i \in DOMAIN @ |-> IF @[i] = find THEN with ELSE @[i]]]
  /\ Did([op |-> "other"])

----------------------------------------------------------------------------
(* replace(const String &, const String &).  The text find stands at the   *)
(* position i of text.                                                     *)
At(text, i, find) ==
  /\ i + Len(find) - 1 <= Len(text)
  /\ SubSeq(text, i, i + Len(find) - 1) = find

(* From left to right, each occurrence after the end of the one before. *)
ReplaceLeft(text, find, with) ==
  LET from[i \in 1..(Len(text) + Len(find))] ==
        IF i > Len(text) THEN <<>>
        ELSE IF At(text, i, find) THEN with \o from[i + Len(find)]
        ELSE <<text[i]>> \o from[i + 1]
  IN from[1]

(* The size a longer replacement needs, counted from left to right, ... *)
SizeNeeded(r, find, with) ==
  LET left[i \in 1..(Len(r.text) + Len(find))] ==
        IF i > Len(r.text) THEN 0
        ELSE IF At(r.text, i, find) THEN 1 + left[i + Len(find)]
        ELSE left[i + 1]
  IN r.len + left[1] * (Len(with) - Len(find))

(* ... and the replacement, from right to left (lastIndexOf), each time in  *)
(* the text as it is by then.                                              *)
Splice(text, i, find, with) ==
  SubSeq(text, 1, i - 1) \o with \o SubSeq(text, i + Len(find), Len(text))
ReplaceRight(text, find, with) ==
  LET to[i \in 1..(Len(text) + 1)] ==
        IF i > Len(text) THEN text
        ELSE IF At(to[i + 1], i, find) THEN Splice(to[i + 1], i, find, with)
        ELSE to[i + 1]
  IN to[1]

ReplaceIn(r, find, with) ==
  IF r.len = 0 \/ Len(find) = 0 THEN {r}
  ELSE IF Len(with) <= Len(find)
  THEN LET new == ReplaceLeft(r.text, find, with)
       IN {[r EXCEPT !.text = new, !.len = r.len + (Len(new) - Len(r.text))]}
  ELSE LET size == SizeNeeded(r, find, with)
           new == ReplaceRight(r.text, find, with)
           grown == [r EXCEPT !.text = new, !.len = r.len + (Len(new) - Len(r.text))]
       IN IF size = r.len THEN {r}
          ELSE IF size <= r.cap THEN {grown}
          ELSE {r, [grown EXCEPT !.cap = size]}

(* A longer replacement that begins like an end of find may complete an    *)
(* occurrence with the characters before it; a find that overlaps itself   *)
(* is met from the left by the count and from the right by the replacement. *)
SameEnds(s, t) ==
  \E n \in 1..(Len(t) - 1) :
    n <= Len(s) /\ SubSeq(s, 1, n) = SubSeq(t, Len(t) - n + 1, Len(t))
Repeats(find, with) ==
  Len(with) > Len(find) /\ (SameEnds(with, find) \/ SameEnds(find, find))

Replace(o, find, with) ==
  /\ Repeats(find, with) => MayRepeat
  /\ str[o].len # 0 /\ find # <<>> => SizeNeeded(str[o], find, with) <= MaxLen
  /\ \E r \in ReplaceIn(str[o], find, with) : str' = [str EXCEPT ![o] = r]
  /\ Did([op |-> "replace", o |-> o, find |-> find, with |-> with])

(* remove(index, count) *)
RemoveUntruncated(r, index, count) ==
  IF index >= r.len \/ count = 0 THEN r
  ELSE [r EXCEPT !.len = @ - count,
                 !.text = SubSeq(@, 1, index) \o SubSeq(@, index + count + 1, r.len)]
RemoveIn(r, index, count) ==
  IF index >= r.len \/ count = 0 THEN r
  ELSE LET n == IF count > r.len - index THEN r.len - index ELSE count
       IN [r EXCEPT !.len = @ - n,
                    !.text = SubSeq(@, 1, index) \o SubSeq(@, index + n + 1, r.len)]

RemoveCount(o, index, count) ==
  /\ str' = [str EXCEPT ![o] = RemoveIn(@, index, count)]
  /\ Did([op |-> "remove", o |-> o, index |-> index, count |-> count])

(* trim() *)
TrimText(text) ==
  LET kept == {i \in DOMAIN text : text[i] # Blank}
  IN IF kept = {} THEN <<>> ELSE SubSeq(text, Min(kept), Max(kept))
TrimIn(r) ==
  IF ~r.valid \/ r.len = 0 THEN r
  ELSE LET t == TrimText(r.text) IN [r EXCEPT !.text = t, !.len = Len(t)]

Trim(o) ==
  /\ str' = [str EXCEPT ![o] = TrimIn(@)]
  /\ Did([op |-> "trim", o |-> o])

----------------------------------------------------------------------------
StringNext ==
  \E o \in Obj :
    \/ \E text \in Literals : AssignText(o, text) \/ Concat(o, text)
    \/ AssignNull(o)
    \/ \E p \in Obj : Assign(o, p) \/ Move(o, p) \/ ConcatString(o, p)
    \/ \E p \in Obj, text \in Literals : Plus(o, p, text)
    \/ \E size \in Sizes : ReserveCall(o, size)
    \/ \E p \in Obj, left, right \in Sizes : Substring(o, p, left, right)
    \/ \E loc \in Sizes, ch \in StringChar : SetCharAt(o, loc, ch)
    \/ \E find, with \in StringChar : ReplaceChar(o, find, with)
    \/ \E find, with \in Literals : Replace(o, find, with)
    \/ \E index, count \in Sizes : RemoveCount(o, index, count)
    \/ Trim(o)

StringSpec == StringInit /\ [][StringNext]_strvars

----------------------------------------------------------------------------
(* The text and its end fit the array whose size capacity tells: "the      *)
(* array length minus one (for the '\0')", WString.h:197, whatever realloc *)
(* refuses and in whatever order the calls come.                           *)
TextFits ==
  \A o \in Obj : IF str[o].valid THEN Len(str[o].text) <= str[o].cap /\ str[o].len <= str[o].cap
                 ELSE str[o] = Null

(* length() is the length of the text c_str() shows.                       *)
LengthIsTrue == \A o \in Obj : str[o].len = Len(str[o].text)

(* Both: capacity, length and text agree.                                  *)
TextKept == TextFits /\ LengthIsTrue

(* Each call does what WString.h says of it, and to no other object: an    *)
(* assignment without memory leaves an invalid string, any other call      *)
(* without memory leaves the string as it was.  A sum whose left operand   *)
(* could not be copied may be the right operand alone: the empty helper    *)
(* still takes it.                                                         *)
Without(s, index, count) ==
  [i \in 1..(Len(s) - Cardinality({j \in DOMAIN s : j > index /\ j <= index + count})) |->
     IF i <= index THEN s[i] ELSE s[i + count]]

Trimmed(s, t) ==
  \E i \in 1..(Len(s) + 1) : \E j \in (i - 1)..Len(s) :
    /\ t = SubSeq(s, i, j)
    /\ \A k \in DOMAIN s : k < i \/ k > j => s[k] = Blank
    /\ t # <<>> => t[1] # Blank /\ t[Len(t)] # Blank

Promised(d, old, new) ==
  LET value == Val(new)
  IN CASE d.op = "assign" -> new.valid => value = d.with
       [] d.op = "invalidate" -> ~new.valid
       [] d.op = "sum" -> new.valid => value \in {d.left \o d.right, d.right}
       [] d.op = "concat" -> IF d.ok THEN value = Val(old) \o d.with ELSE new = old
       [] d.op = "reserve" ->
            IF d.ok THEN value = Val(old) /\ new.valid /\ new.cap >= d.size ELSE new = old
       [] d.op = "substring" ->
            new.valid => value =
              Without(Without(d.of, Max({d.left, d.right}), Len(d.of)),
                      0, Min({d.left, d.right}))
       [] d.op = "set" ->
            value = [i \in DOMAIN Val(old) |-> IF i = d.loc + 1 THEN d.with ELSE Val(old)[i]]
       [] d.op = "replace" ->
            \/ value = IF d.find = <<>> THEN Val(old) ELSE ReplaceLeft(Val(old), d.find, d.with)
            \/ Len(d.with) > Len(d.find) /\ new = old
       [] d.op = "remove" -> value = Without(Val(old), d.index, d.count)
       [] d.op = "trim" -> Trimmed(Val(old), value)
       [] d.op = "move" -> value = Val(str[d.p]) /\ new.valid = str[d.p].valid
       [] OTHER -> TRUE

DoesWhatItSays ==
  [][LET d == done'
     IN d.op \notin {"none", "other"} =>
          /\ Promised(d, str[d.o], str'[d.o])
          /\ d.op # "move" => \A p \in Obj \ {d.o} : str'[p] = str[p]]_strvars
=============================================================================
