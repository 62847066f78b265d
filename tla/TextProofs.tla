------------------------------- MODULE TextProofs ----------------------------
(***************************************************************************)
(* Stream (core/Stream.cpp) for any characters, any calls, any time-out    *)
(* and any width of unsigned long: how findMulti() walks back in a target, *)
(* the types of the variables, that no timed read gives up early, what     *)
(* find(), findUntil() and findMulti() return, what a read takes, and the  *)
(* number parseInt() and parseFloat() make.  Class String                  *)
(* (core/WString.cpp) for any texts and any refusals of realloc(): length, *)
(* capacity and text stay in agreement, through replace() above all.  And  *)
(* Print (core/Print.cpp) for any numbers, and that they are read back.    *)
(***************************************************************************)
EXTENDS Stream, WString, DataTheorems, FiniteSetTheorems

-----------------------------------------------------------------------------
(* The walk back of Stream::findMulti (256-319) is right for every target, *)
(* every stream and every alphabet: from the target and what was matched   *)
(* alone it finds how much of the target the stream ends with.             *)

(* The greatest, if they are bounded. *)
LEMMA GreatestExists ==
  ASSUME NEW n \in Nat, NEW S, S \subseteq 0..n, S # {}
  PROVE  \E k \in S : \A j \in S : j <= k
<1> DEFINE T == {n - k : k \in S}
<1>1. T \subseteq Nat /\ T # {}
  <2>1. ASSUME NEW k \in S PROVE n - k \in Nat
    OBVIOUS
  <2>2. T \subseteq Nat
    BY <2>1
  <2>3. T # {}
    <3>1. PICK k \in S : TRUE
      OBVIOUS
    <3>2. n - k \in T
      OBVIOUS
    <3> QED BY <3>2
  <2> QED BY <2>2, <2>3
<1>2. PICK t \in T : \A u \in T : t <= u
  <2> HIDE DEF T
  <2> QED BY <1>1, LeastOf
<1>3. PICK k \in S : t = n - k
  OBVIOUS
<1>4. ASSUME NEW j \in S PROVE j <= k
  <2>1. n - j \in T
    OBVIOUS
  <2>2. n - k <= n - j
    <3> HIDE DEF T
    <3> QED BY <1>2, <1>3, <2>1
  <2> QED BY <2>2
<1> QED
  BY <1>4

-----------------------------------------------------------------------------
(* With one more character the stream ends with k characters of the target  *)
(* when it ended with one less before and the character is the k-th.        *)
LEMMA EndsWithAppend ==
  ASSUME NEW C, NEW seen \in Seq(C), NEW text, NEW r \in C, NEW k \in Nat \ {0}
  PROVE  EndsWith(Append(seen, r), text, k)
           <=> EndsWith(seen, text, k - 1) /\ text[k] = r
<1>0. PICK n \in Nat : n = k - 1 /\ k = n + 1
  OBVIOUS
<1> DEFINE more == Append(seen, r)
<1>1. Len(more) = Len(seen) + 1 /\ more[Len(seen) + 1] = r
      /\ \A i \in 1..Len(seen) : more[i] = seen[i]
  OBVIOUS
<1>2. Len(seen) \in Nat
  OBVIOUS
<1> HIDE DEF more
<1>3. ASSUME EndsWith(more, text, n + 1)
      PROVE  EndsWith(seen, text, n) /\ text[n + 1] = r
  <2>1. n + 1 <= Len(seen) + 1 /\ \A i \in 1..(n + 1) : text[i] = more[Len(seen) + 1 - (n + 1) + i]
    <3>1. n + 1 <= Len(more) /\ \A i \in 1..(n + 1) : text[i] = more[Len(more) - (n + 1) + i]
      BY <1>3 DEF EndsWith
    <3>2. Len(more) = Len(seen) + 1
      BY <1>1
    <3> QED BY <3>1, <3>2
  <2>2. text[n + 1] = r
    <3>1. text[n + 1] = more[Len(seen) + 1 - (n + 1) + (n + 1)]
      BY <2>1
    <3>2. Len(seen) + 1 - (n + 1) + (n + 1) = Len(seen) + 1
      BY <1>2
    <3> QED BY <3>1, <3>2, <1>1
  <2>3. ASSUME NEW i \in 1..n
        PROVE  text[i] = seen[Len(seen) - n + i]
    <3>1. text[i] = more[Len(seen) + 1 - (n + 1) + i]
      BY <2>1
    <3>2. Len(seen) + 1 - (n + 1) + i = Len(seen) - n + i /\ Len(seen) - n + i \in 1..Len(seen)
      BY <1>2, <2>1
    <3> QED BY <3>1, <3>2, <1>1
  <2> QED BY <1>2, <2>1, <2>2, <2>3 DEF EndsWith
<1>4. ASSUME EndsWith(seen, text, n), text[n + 1] = r
      PROVE  EndsWith(more, text, n + 1)
  <2>1. n <= Len(seen) /\ \A i \in 1..n : text[i] = seen[Len(seen) - n + i]
    BY <1>4 DEF EndsWith
  <2>2. ASSUME NEW i \in 1..(n + 1)
        PROVE  text[i] = more[Len(more) - (n + 1) + i]
    <3>1. Len(more) - (n + 1) + i = Len(seen) - n + i
      BY <1>1, <1>2
    <3>2. CASE i = n + 1
      <4>1. Len(seen) - n + i = Len(seen) + 1
        BY <3>2, <1>2
      <4> QED BY <3>1, <3>2, <4>1, <1>1, <1>4
    <3>3. CASE i # n + 1
      <4>1. i \in 1..n /\ Len(seen) - n + i \in 1..Len(seen)
        BY <3>3, <1>2, <2>1
      <4> QED BY <3>1, <4>1, <1>1, <2>1
    <3> QED BY <3>2, <3>3
  <2> QED BY <1>1, <1>2, <2>1, <2>2 DEF EndsWith
<1>5. EndsWith(more, text, k) <=> EndsWith(seen, text, k - 1) /\ text[k] = r
  BY <1>0, <1>3, <1>4
<1> QED
  BY <1>5 DEF more

(* What the stream ends with can be read off the target: when it ends with  *)
(* n characters of text, it ends with k <= n of them exactly when text itself *)
(* repeats its beginning there (the loop at 301-304).                       *)
LEMMA EndsWithShorter ==
  ASSUME NEW C, NEW seen \in Seq(C), NEW text, NEW n \in Nat, NEW k \in 0..n,
         EndsWith(seen, text, n)
  PROVE  EndsWith(seen, text, k) <=> \A i \in 1..k : text[i] = text[i + (n - k)]
<1>1. Len(seen) \in Nat /\ n <= Len(seen) /\ k <= Len(seen)
  BY DEF EndsWith
<1>2. ASSUME NEW i \in 1..k
      PROVE  text[i + (n - k)] = seen[Len(seen) - k + i]
  <2>1. i + (n - k) \in 1..n
    OBVIOUS
  <2>2. text[i + (n - k)] = seen[Len(seen) - n + (i + (n - k))]
    BY <2>1 DEF EndsWith
  <2>3. Len(seen) - n + (i + (n - k)) = Len(seen) - k + i
    BY <1>1
  <2> QED BY <2>2, <2>3
<1> QED
  BY <1>1, <1>2 DEF EndsWith

-----------------------------------------------------------------------------
(* The characters of text compare as written: none is negative as a char.    *)
Plain(high, text) == \A i \in DOMAIN text : text[i] \notin high

(* The positions the walk back stops at are the lengths, up to what was     *)
(* matched, of what the stream ends with now.                               *)
LEMMA WalkBackFindsEnds ==
  ASSUME NEW C, NEW seen \in Seq(C), NEW r \in C, NEW high,
         NEW text \in Seq(C), Plain(high, text),
         NEW m \in Nat, m <= Len(text), EndsWith(seen, text, m),
         NEW k \in 1..m
  PROVE  k \in WalkBack(high, text, m, r) <=> EndsWith(Append(seen, r), text, k)
<1>1. k - 1 \in Nat /\ k - 1 \in 0..m /\ (k - 1) + 1 = k
  OBVIOUS
<1>2. EndsWith(Append(seen, r), text, k) <=> EndsWith(seen, text, k - 1) /\ text[k] = r
  <2>1. k \in Nat \ {0}
    OBVIOUS
  <2> QED BY <2>1, EndsWithAppend
<1>3. EndsWith(seen, text, k - 1)
        <=> \A i \in 1..(k - 1) : text[i] = text[i + (m - (k - 1))]
  BY <1>1, EndsWithShorter
<1>4. SameChar(high, r, text[k]) <=> text[k] = r
  <2>1. k \in DOMAIN text
    OBVIOUS
  <2> QED BY <2>1 DEF SameChar, Plain
<1> QED
  BY <1>2, <1>3, <1>4 DEF WalkBack

(* One character: if m was the longest match, NextIndex is.             *)
THEOREM NextIndexCorrect ==
  ASSUME NEW C, NEW seen \in Seq(C), NEW r \in C, NEW high,
         NEW text \in Seq(C), Plain(high, text),
         NEW m \in Nat, m < Len(text), IsLongestMatch(seen, text, m)
  PROVE  /\ NextIndex(high, text, m, r) \in 0..Len(text)
         /\ IsLongestMatch(Append(seen, r), text, NextIndex(high, text, m, r))
<1> DEFINE more == Append(seen, r)
           next == NextIndex(high, text, m, r)
           stops == WalkBack(high, text, m, r)
<1>1. Len(text) \in Nat /\ m + 1 \in DOMAIN text
  OBVIOUS
<1>2. EndsWith(seen, text, m) /\ \A j \in (m + 1)..Len(text) : ~EndsWith(seen, text, j)
  BY DEF IsLongestMatch
<1>3. ASSUME NEW j \in (m + 2)..Len(text)
      PROVE  ~EndsWith(more, text, j)
  <2>1. j \in Nat \ {0} /\ j - 1 \in (m + 1)..Len(text)
    BY <1>1
  <2>2. EndsWith(more, text, j) => EndsWith(seen, text, j - 1)
    BY <2>1, EndsWithAppend
  <2> QED BY <1>2, <2>1, <2>2
<1>4. EndsWith(more, text, m + 1) <=> text[m + 1] = r
  <2>1. m + 1 \in Nat \ {0} /\ (m + 1) - 1 = m
    OBVIOUS
  <2> HIDE DEF more
  <2>2. EndsWith(more, text, m + 1) <=> EndsWith(seen, text, (m + 1) - 1) /\ text[m + 1] = r
    BY <2>1, EndsWithAppend DEF more
  <2> QED BY <1>2, <2>1, <2>2
<1>5. SameChar(high, r, text[m + 1]) <=> text[m + 1] = r
  BY <1>1 DEF SameChar, Plain
<1>6. CASE text[m + 1] = r
  <2>1. next = m + 1
    BY <1>5, <1>6 DEF NextIndex
  <2>2. \A j \in (next + 1)..Len(text) : ~EndsWith(more, text, j)
    BY <1>1, <1>3, <2>1
  <2>3. EndsWith(more, text, next)
    BY <1>4, <1>6, <2>1
  <2> QED BY <1>1, <2>1, <2>2, <2>3 DEF IsLongestMatch
<1>7. CASE text[m + 1] # r
  <2>1. \A k \in 1..m : k \in stops <=> EndsWith(more, text, k)
    BY <1>2, WalkBackFindsEnds
  <2>2. stops \subseteq 1..m
    BY DEF WalkBack
  <2> HIDE DEF stops
  <2>3. next = IF stops = {} THEN 0 ELSE CHOOSE k \in stops : \A j \in stops : j <= k
    BY <1>5, <1>7 DEF NextIndex, stops
  <2>4. /\ next \in 0..m
        /\ EndsWith(more, text, next)
        /\ \A j \in stops : j <= next
    <3>1. CASE stops = {}
      <4>1. EndsWith(more, text, 0)
        BY DEF EndsWith
      <4> QED BY <2>3, <3>1, <4>1
    <3>2. CASE stops # {}
      <4>1. stops \subseteq 0..m
        BY <2>2
      <4>2. \E k \in stops : \A j \in stops : j <= k
        BY <3>2, <4>1, GreatestExists
      <4>3. next \in stops /\ \A j \in stops : j <= next
        <5> HIDE DEF next
        <5> QED BY <2>3, <3>2, <4>2
      <4>4. next \in 1..m
        BY <2>2, <4>3
      <4>5. EndsWith(more, text, next)
        <5> HIDE DEF next, more
        <5> QED BY <2>1, <4>3, <4>4
      <4> QED
        <5> HIDE DEF next, more
        <5> QED BY <4>3, <4>4, <4>5
    <3> QED BY <3>1, <3>2
  <2> HIDE DEF next
  <2>5. ASSUME NEW j \in (next + 1)..Len(text)
        PROVE  ~EndsWith(more, text, j)
    <3>1. CASE j <= m
      <4>1. j \in 1..m /\ j \notin stops
        BY <2>4, <3>1
      <4> QED BY <2>1, <4>1
    <3>2. CASE j = m + 1
      BY <1>4, <1>7, <3>2
    <3>3. CASE j > m + 1
      <4>1. j \in (m + 2)..Len(text)
        BY <2>4, <3>3, <1>1
      <4> QED BY <1>3, <4>1
    <3> QED BY <3>1, <3>2, <3>3, <2>4
  <2>6. IsLongestMatch(more, text, next)
    BY <2>4, <2>5 DEF IsLongestMatch
  <2> QED BY <1>1, <2>4, <2>6 DEF next
<1> QED
  BY <1>6, <1>7

-----------------------------------------------------------------------------
(* What has occurred in a stream one character longer.                      *)
LEMMA OccursAppend ==
  ASSUME NEW C, NEW seen \in Seq(C), NEW r \in C, NEW text
  PROVE  Occurs(text, Append(seen, r))
           <=> Occurs(text, seen) \/ EndsWith(Append(seen, r), text, Len(text))
<1> DEFINE more == Append(seen, r)
<1>1. more \in Seq(C) /\ Len(more) = Len(seen) + 1 /\ Len(seen) \in Nat
  OBVIOUS
<1>2. SubSeq(more, 1, Len(seen) + 1) = more
  <2> HIDE DEF more
  <2> QED BY <1>1
<1>3. ASSUME NEW e \in 0..Len(seen)
      PROVE  SubSeq(more, 1, e) = SubSeq(seen, 1, e)
  OBVIOUS
<1> HIDE DEF more
<1>4. Occurs(text, more)
        <=> \E e \in 0..(Len(seen) + 1) : EndsWith(SubSeq(more, 1, e), text, Len(text))
  BY <1>1 DEF Occurs
<1>5. 0..(Len(seen) + 1) = (0..Len(seen)) \cup {Len(seen) + 1}
  BY <1>1
<1>6. Occurs(text, more)
        <=> \/ \E e \in 0..Len(seen) : EndsWith(SubSeq(seen, 1, e), text, Len(text))
            \/ EndsWith(more, text, Len(text))
  BY <1>2, <1>3, <1>4, <1>5
<1> QED
  BY <1>6 DEF Occurs, more

-----------------------------------------------------------------------------
(* Types and time-outs *)

(* A call is in progress when the program is in one, and a character that   *)
(* timedPeek() saw is still there.                                          *)
CallKnown == pc # "idle" => call \in Calls
PeekedThere == pc = "got" /\ c # None /\ Peeks => inbox # <<>>
TypeInv == TypeOK /\ CallKnown /\ PeekedThere

(* The constants as numbers. *)
LEMMA Numbers ==
  /\ Base \in Nat \ {0} /\ LongMax \in Nat \ {0} /\ ULong \in Nat \ {0} /\ MaxLag \in Nat \ {0}
  /\ Timeout \in Nat /\ MaxChars \in Nat
  /\ Timeout < ULong
  BY StreamAssumption, PrintAssumption

(* Before the first call. *)
LEMMA InitTypeInv == Init => TypeInv
<1> SUFFICES ASSUME Init PROVE TypeInv
  OBVIOUS
<1>1. TextOK
  BY Numbers DEF Init, TextOK
<1>2. TimeOK
  BY Numbers DEF Init, TimeOK
<1>3. CallOK
  BY DEF Init, CallOK
<1>4. NumberOK
  <2>1. 0 \in 0..LongMax /\ 0 \in Nat
    BY Numbers
  <2> QED BY <2>1, Zenon DEF Init, NumberOK
<1>5. CallKnown /\ PeekedThere
  BY DEF Init, CallKnown, PeekedThere
<1> QED
  BY <1>1, <1>2, <1>3, <1>4, <1>5 DEF TypeInv, TypeOK

-----------------------------------------------------------------------------
(* millis() after another millisecond. *)
LEMMA MillisNext ==
  ASSUME NEW m \in 0..(ULong - 1)
  PROVE  (m + 1) % ULong = IF m + 1 = ULong THEN 0 ELSE m + 1
<1>1. ULong \in Nat \ {0}
  BY Numbers
<1>2. CASE m + 1 = ULong
  <2>1. (m + 1) % ULong = 0
    BY <1>1, <1>2, Z3
  <2> QED BY <1>2, <2>1
<1>3. CASE m + 1 # ULong
  <2>1. m + 1 \in 0..(ULong - 1)
    BY <1>1, <1>3
  <2>2. (m + 1) % ULong = m + 1
    BY <1>1, <2>1, Z3
  <2> QED BY <1>3, <2>2
<1> QED
  BY <1>2, <1>3

(* The clock, the start of the wait and the time waited stay in range. *)
LEMMA TimeStep ==
  ASSUME TimeOK, [Next]_vars
  PROVE  TimeOK'
<1>1. CASE Tick
  <2>1. millis \in 0..(ULong - 1)
    BY DEF TimeOK
  <2>2. (millis + 1) % ULong = IF millis + 1 = ULong THEN 0 ELSE millis + 1
    BY <2>1, MillisNext
  <2>3. millis' \in 0..(ULong - 1)
    BY <1>1, <2>1, <2>2, Numbers DEF Tick
  <2>4. startMillis' = startMillis
    BY <1>1 DEF Tick
  <2>5. lag' \in 0..MaxLag
    BY <1>1, Numbers DEF Tick, TimeOK
  <2>6. waited' \in 0..Timeout
    BY <1>1, Numbers DEF Tick, TimeOK
  <2> QED BY <2>3, <2>4, <2>5, <2>6 DEF TimeOK
<1>2. CASE TimedStart
  <2>1. startMillis' = millis /\ millis' = millis /\ waited' = 0 /\ lag' = 0
    BY <1>2 DEF TimedStart, Goto
  <2> QED BY <2>1, Numbers DEF TimeOK
<1>3. ASSUME UNCHANGED <<millis, startMillis, waited>>, lag' \in {lag, 0}
      PROVE  TimeOK'
  BY <1>3, Numbers DEF TimeOK
<1>4. ASSUME NEW ch \in Char, Arrive(ch) PROVE UNCHANGED <<millis, startMillis, waited, lag>>
  BY <1>4 DEF Arrive, time
<1>5. ASSUME NEW cl \in Calls, Begin(cl)
      PROVE  UNCHANGED <<millis, startMillis, waited>> /\ lag' = 0
  BY <1>5 DEF Begin, Goto, Return
<1>6. CASE TimedPoll \/ TimedCheck \/ ReadGot \/ FindGot \/ SkipGot \/ ParseGot
  <2>1. UNCHANGED <<millis, startMillis, waited>> /\ lag' = 0
    BY <1>6 DEF TimedPoll, TimedCheck, ReadGot, FindGot, SkipGot, ParseGot, Goto, Return, Consume
  <2> QED BY <1>3, <2>1
<1>7. CASE UNCHANGED vars
  BY <1>3, <1>7 DEF vars, time
<1> QED
  BY <1>1, <1>2, <1>3, <1>4, <1>5, <1>6, <1>7 DEF Next, Main

-----------------------------------------------------------------------------
(* The index of a target is a number, whatever the target. *)
LEMMA NextIndexNat ==
  ASSUME NEW text, NEW n \in Nat, NEW ch
  PROVE  NextIndex(High, text, n, ch) \in Nat
<1> DEFINE stops == WalkBack(High, text, n, ch)
<1>1. stops \subseteq 0..n
  BY DEF WalkBack
<1> HIDE DEF stops
<1>2. CASE stops = {}
  BY <1>2 DEF NextIndex, stops
<1>3. CASE stops # {}
  <2>1. \E k \in stops : \A j \in stops : j <= k
    BY <1>1, <1>3, GreatestExists
  <2>2. (CHOOSE k \in stops : \A j \in stops : j <= k) \in stops
    BY <2>1
  <2>3. \A k \in stops : k \in Nat
    BY <1>1
  <2>4. (CHOOSE k \in stops : \A j \in stops : j <= k) \in Nat
    BY <2>2, <2>3
  <2> QED BY <2>4, <1>3 DEF NextIndex, stops
<1> QED
  BY <1>2, <1>3

(* Where the call is after a step of the main thread. *)
LEMMA CallStep ==
  ASSUME CallOK, CallKnown, TextOK, [Next]_vars
  PROVE  CallOK' /\ CallKnown'
<1>1. ASSUME UNCHANGED <<call, pc, c, index>> PROVE CallOK' /\ CallKnown'
  BY <1>1 DEF CallOK, CallKnown
<1>2. CASE (\E ch \in Char : Arrive(ch)) \/ Tick \/ UNCHANGED vars
  BY <1>1, <1>2 DEF Arrive, Tick, vars
<1>3. ASSUME NEW cl \in Calls, Begin(cl) PROVE CallOK' /\ CallKnown'
  <2>1. call' = cl /\ c' = None /\ pc' \in {"idle", "start"}
    BY <1>3 DEF Begin, Goto, Return
  <2>2. index' \in Seq(Nat)
    <3>1. CASE cl.kind = "find"
      <4>1. cl.targets \in Seq(Seq(Char))
        BY <3>1, StreamAssumption
      <4>2. index' = [i \in DOMAIN cl.targets |-> 0]
        BY <1>3, <3>1 DEF Begin
      <4> QED BY <4>1, <4>2
    <3>2. CASE cl.kind # "find"
      BY <1>3, <3>2 DEF Begin
    <3> QED BY <3>1, <3>2
  <2> QED BY <2>1, <2>2 DEF CallOK, CallKnown
<1>4. ASSUME Main, pc' \in {"idle", "start", "poll", "check", "got"}, call' = call,
             c' \in Char \cup {None}, index' \in Seq(Nat)
      PROVE  CallOK' /\ CallKnown'
  <2>1. pc # "idle"
    BY <1>4 DEF Main, TimedStart, TimedPoll, TimedCheck, ReadGot, FindGot, SkipGot, ParseGot
  <2> QED BY <1>4, <2>1 DEF CallOK, CallKnown
<1>5. CASE TimedStart \/ TimedPoll \/ TimedCheck
  <2>1. pc' \in {"poll", "check", "got"} /\ call' = call /\ index' = index
    BY <1>5 DEF TimedStart, TimedPoll, TimedCheck, Goto
  <2>2. c' \in {c, None} \/ (inbox # <<>> /\ c' = Head(inbox))
    BY <1>5 DEF TimedStart, TimedPoll, TimedCheck
  <2>3. inbox # <<>> => Head(inbox) \in Char
    BY DEF TextOK
  <2>4. c' \in Char \cup {None} /\ index' \in Seq(Nat)
    BY <2>1, <2>2, <2>3 DEF CallOK
  <2> QED BY <1>4, <1>5, <2>1, <2>4 DEF Main
<1>6. CASE ReadGot \/ SkipGot \/ ParseGot
  <2>1. pc' \in {"idle", "start"} /\ UNCHANGED <<call, c, index>>
    BY <1>6 DEF ReadGot, SkipGot, ParseGot, Goto, Return, Consume
  <2> QED BY <1>4, <1>6, <2>1 DEF Main, CallOK
<1>7. CASE FindGot
  <2> DEFINE next == [i \in DOMAIN index |-> NextIndex(High, call.targets[i], index[i], c)]
  <2>1. pc' \in {"idle", "start"} /\ UNCHANGED <<call, c>> /\ index' \in {index, next}
    BY <1>7 DEF FindGot, Goto, Return
  <2>2. index \in Seq(Nat)
    BY DEF CallOK
  <2>3. \A i \in DOMAIN index : NextIndex(High, call.targets[i], index[i], c) \in Nat
    BY <2>2, NextIndexNat
  <2>4. next \in Seq(Nat)
    <3> DEFINE f(i) == NextIndex(High, call.targets[i], index[i], c)
    <3>1. \A i \in DOMAIN index : f(i) \in Nat
      BY <2>3
    <3> HIDE DEF f
    <3>2. [i \in DOMAIN index |-> f(i)] \in Seq(Nat)
      BY <2>2, <3>1
    <3> QED BY <3>2 DEF f
  <2> HIDE DEF next
  <2> QED BY <1>4, <1>7, <2>1, <2>2, <2>4 DEF Main, CallOK
<1> QED
  BY <1>2, <1>3, <1>5, <1>6, <1>7 DEF Next, Main

-----------------------------------------------------------------------------
(* A character that a method accounts for and takes. *)
LEMMA TextStep ==
  ASSUME TextOK, CallOK, PeekedThere, [Next]_vars
  PROVE  TextOK' /\ PeekedThere'
<1>1. ASSUME UNCHANGED <<inbox, taken, buffer, arrivals>> PROVE TextOK'
  BY <1>1 DEF TextOK
<1>2. ASSUME NEW ch \in Char, Arrive(ch) PROVE TextOK' /\ PeekedThere'
  <2>1. inbox' = Append(inbox, ch) /\ UNCHANGED <<taken, buffer, pc, c, call>>
    BY <1>2 DEF Arrive
  <2>2. inbox' \in Seq(Char) /\ inbox' # <<>>
    BY <2>1 DEF TextOK
  <2>3. arrivals' \in 0..MaxChars
    BY <1>2, Numbers DEF Arrive, TextOK
  <2> QED BY <2>1, <2>2, <2>3 DEF TextOK, PeekedThere
<1>3. CASE Tick \/ UNCHANGED vars
  <2>1. UNCHANGED <<inbox, taken, buffer, arrivals, pc, c, call>>
    BY <1>3 DEF Tick, vars, port
  <2> QED BY <1>1, <2>1 DEF PeekedThere, Peeks
<1>4. ASSUME NEW cl \in Calls, Begin(cl) PROVE TextOK' /\ PeekedThere'
  <2>1. /\ inbox' = inbox /\ taken' = <<>> /\ buffer' = <<>> /\ arrivals' = arrivals
        /\ pc' # "got"
    BY <1>4 DEF Begin, Goto, Return
  <2> QED BY <2>1 DEF TextOK, PeekedThere
<1>5. CASE TimedPoll /\ inbox # <<>>
  <2>1. /\ UNCHANGED <<call, buffer, arrivals>>
        /\ \/ Peeks /\ UNCHANGED <<inbox, taken>>
           \/ ~Peeks /\ inbox' = Tail(inbox) /\ taken' = Append(taken, Head(inbox))
    BY <1>5 DEF TimedPoll, Goto
  <2>2. Head(inbox) \in Char /\ Tail(inbox) \in Seq(Char)
    BY <1>5 DEF TextOK
  <2>3. Append(taken, Head(inbox)) \in Seq(Char)
    BY <2>2 DEF TextOK
  <2>4. Peeks' <=> Peeks
    BY <2>1 DEF Peeks
  <2> QED BY <1>5, <2>1, <2>2, <2>3, <2>4 DEF TextOK, PeekedThere
<1>6. CASE TimedStart \/ (TimedPoll /\ inbox = <<>>) \/ TimedCheck
  <2>1. UNCHANGED <<inbox, taken, buffer, arrivals>> /\ (pc' # "got" \/ c' = None)
    BY <1>6 DEF TimedStart, TimedPoll, TimedCheck, Goto
  <2> QED BY <1>1, <2>1 DEF PeekedThere
<1>7. CASE FindGot
  <2>1. UNCHANGED <<inbox, taken, buffer, arrivals>> /\ pc' # "got"
    BY <1>7 DEF FindGot, Goto, Return
  <2> QED BY <1>1, <2>1 DEF PeekedThere
<1>8. CASE ReadGot
  <2>1. UNCHANGED <<inbox, taken, arrivals>> /\ pc' # "got"
    BY <1>8 DEF ReadGot, Goto, Return
  <2>2. buffer' = buffer \/ (c # None /\ buffer' = Append(buffer, c))
    BY <1>8 DEF ReadGot, Stops
  <2>3. c # None => Append(buffer, c) \in Seq(Char)
    BY DEF TextOK, CallOK
  <2>4. buffer' \in Seq(Char)
    BY <2>2, <2>3 DEF TextOK
  <2> QED BY <2>1, <2>4 DEF TextOK, PeekedThere
<1>9. CASE SkipGot \/ ParseGot
  <2>1. pc = "got" /\ pc' # "got" /\ arrivals' = arrivals
    BY <1>9 DEF SkipGot, ParseGot, Consume, Goto, Return
  <2>2. \/ UNCHANGED <<inbox, taken, buffer>>
        \/ /\ c # None /\ Peeks
           /\ inbox' = Tail(inbox) /\ taken' = Append(taken, Head(inbox))
           /\ buffer' \in {buffer, <<c>>, Append(buffer, c)}
    BY <1>9 DEF SkipGot, ParseGot, Continues, Consume, Peeks
  <2>3. c # None /\ Peeks => inbox # <<>> /\ c \in Char
    BY <2>1 DEF PeekedThere, CallOK
  <2>4. inbox # <<>> => Head(inbox) \in Char /\ Tail(inbox) \in Seq(Char)
    BY DEF TextOK
  <2>5. inbox # <<>> => Append(taken, Head(inbox)) \in Seq(Char)
    BY <2>4 DEF TextOK
  <2>6. c \in Char => <<c>> \in Seq(Char) /\ Append(buffer, c) \in Seq(Char)
    BY DEF TextOK
  <2> QED BY <2>1, <2>2, <2>3, <2>4, <2>5, <2>6 DEF TextOK, PeekedThere
<1> QED
  BY <1>2, <1>3, <1>4, <1>5, <1>6, <1>7, <1>8, <1>9 DEF Next, Main

(* The number being parsed stays within a long. *)
LEMMA AddDigitType ==
  ASSUME NEW v \in 0..LongMax, NEW d \in Nat, NEW w \in AddDigit(v, d)
  PROVE  w \in 0..LongMax
<1>1. v * Base + d \in Nat
  BY Numbers
<1> QED
  BY <1>1, Numbers DEF AddDigit

(* Only a digit changes the number being parsed, and it stays a long. *)
LEMMA NumberStep ==
  ASSUME NumberOK, [Next]_vars
  PROVE  NumberOK'
<1>1. CASE UNCHANGED number
  BY <1>1 DEF number, NumberOK
<1>2. CASE Account
  <2>1. CASE IsIgnored
    BY <1>1, <1>2, <2>1 DEF Account
  <2>2. CASE ~IsIgnored
    <3>1. isNegative' \in BOOLEAN /\ isFraction' \in BOOLEAN
      BY <1>2, <2>2 DEF Account
    <3>2. CASE c \in Digit
      <4>1. value' \in AddDigit(value, c) /\ places' = IF isFraction THEN places + 1 ELSE places
        BY <1>2, <2>2, <3>2 DEF Account
      <4>2. value' \in 0..LongMax
        BY <3>2, <4>1, AddDigitType DEF Digit, NumberOK
      <4>3. places' \in Nat
        BY <4>1 DEF NumberOK
      <4> QED BY <3>1, <4>2, <4>3 DEF NumberOK
    <3>3. CASE c \notin Digit
      <4>1. UNCHANGED <<value, places>>
        BY <1>2, <2>2, <3>3 DEF Account
      <4> QED BY <3>1, <4>1 DEF NumberOK
    <3> QED BY <3>2, <3>3
  <2> QED BY <2>1, <2>2
<1>3. ASSUME NEW cl \in Calls, Begin(cl) PROVE NumberOK'
  <2>1. value' = 0 /\ isNegative' = FALSE /\ isFraction' = FALSE /\ places' = 0
    BY <1>3 DEF Begin
  <2>2. 0 \in 0..LongMax /\ 0 \in Nat
    BY Numbers
  <2> QED BY <2>1, <2>2, Zenon DEF NumberOK
<1>4. CASE TimedStart \/ TimedPoll \/ TimedCheck \/ ReadGot \/ FindGot
  BY <1>1, <1>4 DEF TimedStart, TimedPoll, TimedCheck, ReadGot, FindGot
<1>5. CASE SkipGot \/ ParseGot
  <2>1. UNCHANGED number \/ Account
    BY <1>5 DEF SkipGot, ParseGot
  <2> QED BY <1>1, <1>2, <2>1
<1>6. CASE (\E ch \in Char : Arrive(ch)) \/ Tick \/ UNCHANGED vars
  <2>1. UNCHANGED number
    BY <1>6 DEF Arrive, Tick, vars
  <2> QED BY <1>1, <2>1
<1> QED
  BY <1>3, <1>4, <1>5, <1>6 DEF Next, Main

-----------------------------------------------------------------------------
(* Together: every step keeps the types. *)
LEMMA TypeStep ==
  ASSUME TypeInv, [Next]_vars
  PROVE  TypeInv'
  BY TextStep, TimeStep, CallStep, NumberStep DEF TypeInv, TypeOK

(* The types, with what they rest on. *)
LEMMA TypeInvariant == Spec => []TypeInv
<1>1. TypeInv /\ [Next]_vars => TypeInv'
  BY TypeStep
<1> QED
  BY InitTypeInv, <1>1, PTL DEF Spec

(* Nothing but characters is ever placed, taken or matched, millis() stays  *)
(* an unsigned long and the number being parsed a long.                     *)
THEOREM TypeCorrect == Spec => []TypeOK
<1>1. TypeInv => TypeOK
  BY DEF TypeInv
<1> QED
  BY <1>1, TypeInvariant, PTL

-----------------------------------------------------------------------------
(* Until the time-out is over, the clock has moved on from _startMillis by  *)
(* exactly the time waited, whether it wrapped or not.                      *)
ClockInv ==
  pc \in {"poll", "check"} /\ waited < Timeout =>
    millis = (IF startMillis + waited < ULong THEN startMillis + waited
              ELSE startMillis + waited - ULong)

(* Every step keeps the clock and the time waited together. *)
LEMMA ClockStep ==
  ASSUME TypeInv, ClockInv, [Next]_vars
  PROVE  ClockInv'
<1> USE DEF TypeInv, TypeOK
<1>1. CASE Tick
  <2>1. millis \in 0..(ULong - 1) /\ startMillis \in 0..(ULong - 1) /\ waited \in 0..Timeout
    BY DEF TimeOK
  <2>2. /\ millis' = (IF millis + 1 = ULong THEN 0 ELSE millis + 1)
        /\ waited' = (IF waited < Timeout THEN waited + 1 ELSE waited)
        /\ startMillis' = startMillis /\ pc' = pc
    BY <1>1, <2>1, MillisNext DEF Tick
  <2> QED BY <2>1, <2>2, Numbers DEF ClockInv
<1>2. CASE TimedStart
  <2>1. millis' = millis /\ startMillis' = millis /\ waited' = 0
    BY <1>2 DEF TimedStart, Goto
  <2>2. millis \in 0..(ULong - 1)
    BY DEF TimeOK
  <2> QED BY <2>1, <2>2, Numbers DEF ClockInv
<1>3. ASSUME UNCHANGED <<millis, startMillis, waited>>,
             pc' \in {"poll", "check"} => pc \in {"poll", "check"}
      PROVE  ClockInv'
  BY <1>3 DEF ClockInv
<1>4. CASE TimedPoll \/ TimedCheck
  <2>1. UNCHANGED <<millis, startMillis, waited>> /\ pc \in {"poll", "check"}
    BY <1>4 DEF TimedPoll, TimedCheck, Goto
  <2> QED BY <1>3, <2>1
<1>5. CASE \E cl \in Calls : Begin(cl)
  <2>1. UNCHANGED <<millis, startMillis, waited>> /\ pc' \in {"idle", "start"}
    BY <1>5 DEF Begin, Goto, Return
  <2> QED BY <1>3, <2>1
<1>6. CASE ReadGot \/ FindGot \/ SkipGot \/ ParseGot
  <2>1. UNCHANGED <<millis, startMillis, waited>> /\ pc' \in {"idle", "start"}
    BY <1>6 DEF ReadGot, FindGot, SkipGot, ParseGot, Goto, Return, Consume
  <2> QED BY <1>3, <2>1
<1>7. CASE (\E ch \in Char : Arrive(ch)) \/ UNCHANGED vars
  <2>1. UNCHANGED <<millis, startMillis, waited, pc>>
    BY <1>7 DEF Arrive, vars, time
  <2> QED BY <1>3, <2>1
<1> QED
  BY <1>1, <1>2, <1>4, <1>5, <1>6, <1>7 DEF Next, Main

(* timedRead() and timedPeek() (30-52) give up only when the whole time-out *)
(* has passed since they began, for every time-out and width of millis(),   *)
(* also when it wraps meanwhile.                                            *)
THEOREM NoEarlyTimeout == Spec => GivesUpInTime
<1>1. Init => ClockInv
  BY DEF Init, ClockInv
<1>2. TypeInv /\ ClockInv /\ [Next]_vars => ClockInv'
  BY ClockStep
<1>3. TypeInv /\ ClockInv /\ [Next]_vars => [(pc = "check" /\ pc' = "got") => waited >= Timeout]_vars
  <2> SUFFICES ASSUME TypeInv, ClockInv, Next, pc = "check", pc' = "got"
               PROVE  waited >= Timeout
    OBVIOUS
  <2>1. TimedCheck
    <3>1. ~(\E ch \in Char : Arrive(ch)) /\ ~Tick /\ ~(\E cl \in Calls : Begin(cl))
      BY DEF Arrive, Tick, Begin
    <3> QED BY <3>1 DEF Next, Main, TimedStart, TimedPoll, ReadGot, FindGot, SkipGot, ParseGot
  <2>2. ~Waits
    BY <2>1 DEF TimedCheck, Goto
  <2>3. /\ millis \in 0..(ULong - 1) /\ startMillis \in 0..(ULong - 1) /\ waited \in 0..Timeout
        /\ ULong \in Nat \ {0} /\ Timeout \in Nat /\ Timeout < ULong
    BY Numbers DEF TypeInv, TypeOK, TimeOK
  <2>4. CASE waited < Timeout
    <3>1. \/ millis + ULong - startMillis = waited + ULong
          \/ millis + ULong - startMillis = waited
      BY <2>3, <2>4 DEF ClockInv
    <3>2. waited \in 0..(ULong - 1)
      BY <2>3, <2>4
    <3>3. waited % ULong = waited
      BY <2>3, <3>2, Z3
    <3>4. (waited + ULong) % ULong = waited
      BY <2>3, <3>2, Z3
    <3>5. (millis + ULong - startMillis) % ULong = waited
      BY <3>1, <3>3, <3>4
    <3> QED BY <2>2, <2>4, <3>5 DEF Waits
  <2> QED BY <2>3, <2>4
<1> QED
  BY <1>1, <1>2, <1>3, TypeInvariant, PTL DEF Spec, GivesUpInTime

-----------------------------------------------------------------------------
(* find(), findUntil() and findMulti() (92-319) for any targets, any       *)
(* characters, any time-out and any number of arrivals.  The hypothesis    *)
(* PlainTargets keeps the targets to characters below 0x80: a char is      *)
(* signed, so a target's character above never equals the int that         *)
(* timedRead() returns.                                                    *)

PlainTargets ==
  \A cl \in Calls : cl.kind = "find" =>
    \A i \in DOMAIN cl.targets : Plain(High, cl.targets[i])

(* What findMulti() knows when it has seen s and found nothing in it. *)
NothingIn(s) ==
  \A i \in DOMAIN call.targets :
    /\ index[i] \in Nat /\ index[i] < Len(call.targets[i])
    /\ IsLongestMatch(s, call.targets[i], index[i])
    /\ ~Occurs(call.targets[i], s)

(* A search has all of taken behind it, except at "got", where the last     *)
(* character is in c and not yet looked at.                                 *)
Searching == call # None /\ call.kind = "find" /\ pc # "idle"
SearchInv ==
  Searching =>
    /\ DOMAIN index = DOMAIN call.targets
    /\ pc # "got" \/ c = None => NothingIn(taken)
    /\ pc = "got" /\ c # None =>
         \E before \in Seq(Char) : taken = Append(before, c) /\ NothingIn(before)

FindInv == SearchInv /\ FindsFirst

-----------------------------------------------------------------------------
(* Nothing has been seen: nothing is matched, and no target that is not     *)
(* empty occurs.                                                            *)
LEMMA NothingSeen ==
  ASSUME NEW C, NEW text \in Seq(C), Len(text) # 0
  PROVE  IsLongestMatch(<<>>, text, 0) /\ ~Occurs(text, <<>>)
<1>1. Len(<<>>) = 0 /\ Len(text) \in Nat
  OBVIOUS
<1>2. \A j \in Nat \ {0} : ~EndsWith(<<>>, text, j)
  BY <1>1 DEF EndsWith
<1>3. EndsWith(<<>>, text, 0)
  BY <1>1 DEF EndsWith
<1>4. ASSUME NEW e \in 0..0 PROVE ~EndsWith(SubSeq(<<>>, 1, e), text, Len(text))
  <2>1. Len(SubSeq(<<>>, 1, 0)) = 0
    OBVIOUS
  <2> QED BY <1>1, <2>1 DEF EndsWith
<1> QED
  BY <1>1, <1>2, <1>3, <1>4 DEF IsLongestMatch, Occurs

(* The character c after what was seen, for one target: the target is       *)
(* complete when its index says so, and has not occurred otherwise.         *)
LEMMA OneTarget ==
  ASSUME NEW C, NEW seen \in Seq(C), NEW ch \in C, NEW text \in Seq(C), Plain(High, text),
         NEW n \in Nat, n < Len(text), IsLongestMatch(seen, text, n), ~Occurs(text, seen)
  PROVE  LET next == NextIndex(High, text, n, ch)
             more == Append(seen, ch)
         IN /\ next \in 0..Len(text)
            /\ IsLongestMatch(more, text, next)
            /\ next = Len(text) => EndsWith(more, text, Len(text))
            /\ next # Len(text) => ~Occurs(text, more)
<1> DEFINE next == NextIndex(High, text, n, ch)
           more == Append(seen, ch)
<1>1. next \in 0..Len(text) /\ IsLongestMatch(more, text, next)
  BY NextIndexCorrect
<1>2. Occurs(text, more) <=> EndsWith(more, text, Len(text))
  BY OccursAppend
<1>3. Len(text) \in Nat
  OBVIOUS
<1> HIDE DEF next, more
<1>4. next = Len(text) => EndsWith(more, text, Len(text))
  BY <1>1 DEF IsLongestMatch
<1>5. next # Len(text) => ~EndsWith(more, text, Len(text))
  <2>1. next # Len(text) => Len(text) \in (next + 1)..Len(text)
    BY <1>1, <1>3
  <2> QED BY <1>1, <2>1 DEF IsLongestMatch
<1> QED
  BY <1>1, <1>2, <1>4, <1>5 DEF next, more

-----------------------------------------------------------------------------
(* Before the first call there is no search. *)
LEMMA InitFindInv == Init => FindInv
  BY DEF Init, FindInv, SearchInv, Searching, FindsFirst, Returned

(* A step that leaves the search alone keeps what it knows. *)
LEMMA SearchUntouched ==
  ASSUME SearchInv, FindsFirst, UNCHANGED <<pc, call, c, index, result, taken>>
  PROVE  SearchInv' /\ FindsFirst'
<1>1. NothingIn(taken)' <=> NothingIn(taken)
  BY DEF NothingIn
<1>2. ASSUME NEW s PROVE NothingIn(s)' <=> NothingIn(s)
  BY DEF NothingIn
<1>3. SearchInv'
  BY <1>1, <1>2 DEF SearchInv, Searching
<1>4. FindsFirst'
  BY DEF FindsFirst, Returned
<1> QED
  BY <1>3, <1>4

(* Another character on the port, another millisecond. *)
LEMMA EnvironmentStep ==
  ASSUME FindInv, (\E ch \in Char : Arrive(ch)) \/ Tick \/ UNCHANGED vars
  PROVE  FindInv'
<1>1. UNCHANGED <<pc, call, c, index, result, taken>>
  BY DEF Arrive, Tick, vars
<1> QED
  BY <1>1, SearchUntouched DEF FindInv

(* A call begins: nothing has been seen. *)
LEMMA BeginStep ==
  ASSUME FindInv, NEW cl \in Calls, Begin(cl)
  PROVE  FindInv'
<1>1. /\ call' = cl /\ inbox' = inbox /\ taken' = <<>> /\ c' = None
      /\ pc' \in {"idle", "start"}
  BY DEF Begin, Goto, Return
<1>2. CASE cl.kind # "find"
  <2>1. ~Searching' /\ ~Returned("find")'
    BY <1>1, <1>2 DEF Searching, Returned
  <2> QED BY <2>1 DEF FindInv, SearchInv, FindsFirst
<1>3. CASE cl.kind = "find" /\ EmptyTargets(cl) # {}
  <2>1. pc' = "idle"
    BY <1>3 DEF Begin, Goto, Return
  <2>2. ~Searching' /\ (EmptyTargets(call) # {})'
    BY <1>1, <1>3, <2>1 DEF Searching, EmptyTargets
  <2> QED BY <2>2 DEF FindInv, SearchInv, FindsFirst
<1>4. CASE cl.kind = "find" /\ EmptyTargets(cl) = {}
  <2>1. pc' = "start" /\ index' = [i \in DOMAIN cl.targets |-> 0]
    BY <1>4 DEF Begin, Goto, Return
  <2>2. ~Returned("find")' /\ (pc # "got" \/ c = None)'
    BY <1>1, <2>1 DEF Returned
  <2>3. cl.targets \in Seq(Seq(Char))
    BY <1>4, StreamAssumption
  <2>4. ASSUME NEW i \in DOMAIN cl.targets
        PROVE  /\ index'[i] \in Nat /\ index'[i] < Len(cl.targets[i])
               /\ IsLongestMatch(<<>>, cl.targets[i], index'[i])
               /\ ~Occurs(cl.targets[i], <<>>)
    <3>1. cl.targets[i] \in Seq(Char) /\ Len(cl.targets[i]) \in Nat
      BY <2>3
    <3>2. Len(cl.targets[i]) # 0
      BY <1>4 DEF EmptyTargets
    <3>3. index'[i] = 0
      BY <2>1
    <3>4. IsLongestMatch(<<>>, cl.targets[i], 0) /\ ~Occurs(cl.targets[i], <<>>)
      BY <3>1, <3>2, NothingSeen
    <3> QED BY <3>1, <3>2, <3>3, <3>4
  <2>5. NothingIn(taken)'
    BY <1>1, <2>4 DEF NothingIn
  <2>6. (DOMAIN index = DOMAIN call.targets)' /\ (pc # "got")'
    BY <1>1, <2>1
  <2> QED BY <2>2, <2>5, <2>6 DEF FindInv, SearchInv, FindsFirst
<1> QED
  BY <1>2, <1>3, <1>4

(* The timed read: the character it delivers is the last one taken. *)
LEMMA TimedReadStep ==
  ASSUME TypeInv, FindInv, TimedStart \/ TimedPoll \/ TimedCheck
  PROVE  FindInv'
<1>1. /\ pc \in {"start", "poll", "check"} /\ pc' # "idle"
      /\ pc' \in {"poll", "check", "got"} /\ UNCHANGED <<call, index>>
  BY DEF TimedStart, TimedPoll, TimedCheck, Goto
<1>2. ~Returned("find")' /\ FindsFirst'
  BY <1>1 DEF Returned, FindsFirst
<1>3. ASSUME NEW s PROVE NothingIn(s)' <=> NothingIn(s)
  BY <1>1 DEF NothingIn
<1>4. CASE UNCHANGED <<inbox, taken>> /\ c' \in {c, None} /\ (pc' = "got" => c' = None)
  <2>1. SearchInv'
    <3>1. NothingIn(taken)' <=> NothingIn(taken)
      BY <1>1, <1>4 DEF NothingIn
    <3> QED BY <1>1, <1>4, <3>1 DEF FindInv, SearchInv, Searching
  <2> QED BY <1>2, <2>1 DEF FindInv
<1>5. CASE TimedPoll /\ inbox # <<>>
  <2>1. /\ pc' = "got" /\ c' = Head(inbox)
        /\ \/ Peeks /\ UNCHANGED <<inbox, taken>>
           \/ ~Peeks /\ inbox' = Tail(inbox) /\ taken' = Append(taken, Head(inbox))
    BY <1>5 DEF TimedPoll, Goto
  <2>2. Head(inbox) \in Char /\ taken \in Seq(Char)
    BY <1>5 DEF TypeInv, TypeOK, TextOK
  <2>3. SearchInv'
    <3>1. SUFFICES ASSUME Searching'
                   PROVE  /\ DOMAIN index = DOMAIN call.targets
                          /\ taken' = Append(taken, c') /\ NothingIn(taken) /\ c' # None
      BY <1>1, <1>3, <2>1, <2>2 DEF SearchInv
    <3>2. Searching /\ ~Peeks
      BY <1>1, <3>1 DEF Searching, Peeks
    <3> QED BY <1>1, <2>1, <2>2, <3>2, StreamAssumption DEF FindInv, SearchInv
  <2> QED BY <1>2, <2>3 DEF FindInv
<1>6. TimedStart => UNCHANGED <<inbox, taken, c>> /\ pc' = "poll"
  BY DEF TimedStart, Goto
<1>7. TimedPoll /\ inbox = <<>> => UNCHANGED <<inbox, taken, c>> /\ pc' = "check"
  BY DEF TimedPoll, Goto
<1>8. TimedCheck => /\ UNCHANGED <<inbox, taken>>
                    /\ \/ pc' = "poll" /\ UNCHANGED c
                       \/ pc' = "got" /\ c' = None
  BY DEF TimedCheck, Goto
<1> QED
  BY <1>4, <1>5, <1>6, <1>7, <1>8

(* The other methods: the call in progress is none of find()'s. *)
LEMMA OtherCallsStep ==
  ASSUME ReadGot \/ SkipGot \/ ParseGot
  PROVE  FindInv'
<1>1. call.kind # "find" /\ call' = call
  BY DEF ReadGot, SkipGot, ParseGot
<1>2. ~Searching' /\ ~Returned("find")'
  BY <1>1 DEF Searching, Returned
<1> QED
  BY <1>2 DEF FindInv, SearchInv, FindsFirst

-----------------------------------------------------------------------------
(* findMulti() looks at the character it has read. *)
LEMMA FindStep ==
  ASSUME PlainTargets, TypeInv, FindInv, FindGot
  PROVE  FindInv'
<1> DEFINE targets == call.targets
           next == [i \in DOMAIN index |-> NextIndex(High, targets[i], index[i], c)]
           complete == {i \in DOMAIN next : next[i] = Len(targets[i])}
<1>1. /\ pc = "got" /\ call.kind = "find" /\ UNCHANGED <<call, c, inbox, taken>>
      /\ pc' \in {"idle", "start"}
  BY DEF FindGot, Goto, Return
<1>2. call \in Calls /\ Searching /\ DOMAIN index = DOMAIN targets
  BY <1>1, StreamAssumption DEF FindInv, TypeInv, CallKnown, SearchInv, Searching
<1>3. targets \in Seq(Seq(Char)) /\ \A i \in DOMAIN targets : Plain(High, targets[i])
  BY <1>1, <1>2, StreamAssumption DEF PlainTargets
<1>4. CASE c = None
  <2>1. result' = None /\ pc' = "idle" /\ NothingIn(taken)
    BY <1>1, <1>2, <1>4 DEF FindGot, Return, Goto, FindInv, SearchInv
  <2>2. \A i \in DOMAIN targets : ~Occurs(targets[i], taken)
    BY <2>1 DEF NothingIn
  <2>3. FindsFirst'
    BY <1>1, <2>1, <2>2 DEF FindsFirst
  <2>4. SearchInv'
    BY <2>1 DEF SearchInv, Searching
  <2> QED BY <2>3, <2>4 DEF FindInv
<1>5. CASE c # None
  <2>1. PICK before \in Seq(Char) : taken = Append(before, c) /\ NothingIn(before)
    BY <1>1, <1>2, <1>5 DEF FindInv, SearchInv
  <2>2. c \in Char
    BY <1>5 DEF TypeInv, TypeOK, CallOK
  <2>3. ASSUME NEW i \in DOMAIN targets
        PROVE  /\ next[i] \in 0..Len(targets[i]) /\ Len(targets[i]) \in Nat
               /\ IsLongestMatch(taken, targets[i], next[i])
               /\ next[i] = Len(targets[i]) => EndsWith(taken, targets[i], Len(targets[i]))
               /\ next[i] # Len(targets[i]) => ~Occurs(targets[i], taken)
    <3>1. targets[i] \in Seq(Char) /\ Plain(High, targets[i])
      BY <1>3
    <3>2. /\ index[i] \in Nat /\ index[i] < Len(targets[i])
          /\ IsLongestMatch(before, targets[i], index[i]) /\ ~Occurs(targets[i], before)
      BY <2>1 DEF NothingIn
    <3>3. next[i] = NextIndex(High, targets[i], index[i], c)
      BY <1>2
    <3> HIDE DEF next, targets
    <3>4. Len(targets[i]) \in Nat
      BY <3>1
    <3> QED BY <2>1, <2>2, <3>1, <3>2, <3>3, <3>4, OneTarget
  <2>4. DOMAIN next = DOMAIN targets /\ complete \subseteq DOMAIN targets
    BY <1>2
  <2>5. \/ complete # {} /\ Return(Min(complete)) /\ UNCHANGED index
        \/ complete = {} /\ index' = next /\ Goto("start")
    BY <1>1, <1>5 DEF FindGot
  <2>6. targets' = targets
    BY <1>1
  <2>7. CASE complete = {} /\ index' = next /\ Goto("start")
    <3>1. pc' = "start" /\ DOMAIN index' = DOMAIN targets'
      BY <2>4, <2>6, <2>7 DEF Goto
    <3>2. ASSUME NEW i \in DOMAIN targets
          PROVE  /\ index'[i] \in Nat /\ index'[i] < Len(targets[i])
                 /\ IsLongestMatch(taken, targets[i], index'[i])
                 /\ ~Occurs(targets[i], taken)
      <4>1. next[i] # Len(targets[i])
        BY <2>4, <2>7
      <4>2. /\ next[i] \in 0..Len(targets[i]) /\ Len(targets[i]) \in Nat
            /\ IsLongestMatch(taken, targets[i], next[i])
            /\ ~Occurs(targets[i], taken)
        <5> HIDE DEF next, targets, complete
        <5> QED BY <2>3, <4>1
      <4>3. index'[i] = next[i]
        BY <2>7
      <4>4. next[i] \in Nat /\ next[i] < Len(targets[i])
        <5> HIDE DEF next, targets, complete
        <5>1. PICK m : m = next[i]
          OBVIOUS
        <5>2. PICK L : L = Len(targets[i])
          OBVIOUS
        <5>3. L \in Nat /\ m \in 0..L /\ m # L
          BY <4>1, <4>2, <5>1, <5>2
        <5>4. m \in Nat /\ m < L
          BY <5>3
        <5> QED BY <5>1, <5>2, <5>4
      <4> HIDE DEF next, targets, complete
      <4> QED BY <4>2, <4>3, <4>4
    <3>3. NothingIn(taken)'
      BY <1>1, <3>2 DEF NothingIn
    <3>4. SearchInv'
      BY <3>1, <3>3 DEF SearchInv
    <3>5. FindsFirst'
      BY <3>1 DEF FindsFirst, Returned
    <3> QED BY <3>4, <3>5 DEF FindInv
  <2>8. CASE complete # {} /\ Return(Min(complete)) /\ UNCHANGED index
    <3>1. pc' = "idle" /\ result' = Min(complete)
      BY <2>8 DEF Return, Goto
    <3>2. result' \in complete /\ \A j \in complete : result' <= j
      <4>1. complete \subseteq Nat
        BY <1>3, <2>4
      <4> HIDE DEF complete
      <4>2. \E k \in complete : \A j \in complete : k <= j
        BY <2>8, <4>1, LeastOf
      <4> QED BY <3>1, <4>2 DEF Min
    <3>3. result' \in DOMAIN targets /\ result' # None /\ result' \in Nat
      <4>1. PICK r : r = result'
        OBVIOUS
      <4>2. r \in complete
        BY <3>2, <4>1
      <4>3. r \in DOMAIN targets /\ r \in Nat
        BY <1>3, <2>4, <4>2
      <4>4. None \notin Nat
        BY StreamAssumption
      <4> QED BY <4>1, <4>3, <4>4
    <3>4. EndsWith(taken, targets[result'], Len(targets[result']))
      <4>1. next[result'] = Len(targets[result'])
        BY <3>2
      <4> HIDE DEF next, targets, complete
      <4> QED BY <2>3, <3>3, <4>1
    <3>5. Front(taken) = before
      BY <2>1, <2>2 DEF Front
    <3>6. \A i \in DOMAIN targets : ~Occurs(targets[i], Front(taken))
      BY <2>1, <3>5 DEF NothingIn
    <3>7. ASSUME NEW i \in DOMAIN targets, i < result'
          PROVE  ~Occurs(targets[i], taken)
      <4>1. i \in Nat
        BY <1>3
      <4>2. i \notin complete
        <5> HIDE DEF complete
        <5> QED BY <3>2, <3>3, <3>7, <4>1
      <4>3. next[i] # Len(targets[i])
        BY <2>4, <4>2
      <4> HIDE DEF next, targets, complete
      <4> QED BY <2>3, <4>3
    <3>8. FindsFirst'
      BY <1>1, <3>3, <3>4, <3>6, <3>7 DEF FindsFirst
    <3>9. SearchInv'
      BY <3>1 DEF SearchInv, Searching
    <3> QED BY <3>8, <3>9 DEF FindInv
  <2> QED BY <2>5, <2>7, <2>8
<1> QED
  BY <1>4, <1>5

-----------------------------------------------------------------------------
(* The invariant: between two characters findMulti() knows of each target   *)
(* how much of it the stream ends with, and no target has occurred.         *)
THEOREM SearchInvariant == PlainTargets => (Spec => []FindInv)
<1>1. ASSUME PlainTargets, TypeInv, FindInv, [Next]_vars
      PROVE  FindInv'
  <2>1. CASE \E cl \in Calls : Begin(cl)
    BY <1>1, <2>1, BeginStep
  <2>2. CASE Main
    BY <1>1, <2>2, TimedReadStep, OtherCallsStep, FindStep DEF Main
  <2>3. CASE (\E ch \in Char : Arrive(ch)) \/ Tick \/ UNCHANGED vars
    BY <1>1, <2>3, EnvironmentStep
  <2> QED BY <1>1, <2>1, <2>2, <2>3 DEF Next
<1>2. ASSUME PlainTargets PROVE Spec => []FindInv
  <2>1. TypeInv /\ FindInv /\ [Next]_vars => FindInv'
    BY <1>1, <1>2
  <2> QED BY InitFindInv, <2>1, TypeInvariant, PTL DEF Spec
<1> QED
  BY <1>2

(* findMulti() (256-319) never loses track: although it sees each character *)
(* once and keeps none, its index of a target is always the length of the   *)
(* longest beginning of the target that the stream ends with.               *)
THEOREM SearchKeepsMatch == PlainTargets => (Spec => []MatchKept)
<1>1. FindInv => MatchKept
  BY DEF FindInv, SearchInv, Searching, Finding, MatchKept, NothingIn
<1> QED
  BY <1>1, SearchInvariant, PTL

(* find() and findUntil() (92-123) return with the first target listed      *)
(* among those the stream has just completed, before any other occurrence,  *)
(* and time out only when no target has occurred.                           *)
THEOREM SearchFindsFirst == PlainTargets => (Spec => []FindsFirst)
<1>1. FindInv => FindsFirst
  BY DEF FindInv
<1> QED
  BY <1>1, SearchInvariant, PTL

-----------------------------------------------------------------------------
(* readBytes(), readBytesUntil(), readString() and readStringUntil()       *)
(* (197-254) for any limits and terminators, any characters, any time-out  *)
(* and any number of arrivals.  The hypothesis PlainStops keeps the        *)
(* terminators below 0x80, as PlainTargets does the targets.               *)

PlainStops ==
  \A cl \in Calls : cl.kind = "read" => cl.stop \notin High /\ cl.limit \in Nat \cup {None}

(* All that was taken is in the buffer, except at "got", where the last    *)
(* character is in c and not yet looked at; and there is room for one more. *)
Filling == call # None /\ call.kind = "read" /\ pc # "idle"
FillInv ==
  Filling =>
    /\ taken = IF pc = "got" /\ c # None THEN Append(buffer, c) ELSE buffer
    /\ call.stop \notin ToSet(buffer)
    /\ call.limit # None => Len(buffer) < call.limit

ReadInv == FillInv /\ ReadsExactly

(* A character more in the buffer. *)
LEMMA OneMore ==
  ASSUME NEW s \in Seq(Char), NEW ch \in Char
  PROVE  /\ Len(Append(s, ch)) = Len(s) + 1
         /\ ToSet(Append(s, ch)) = ToSet(s) \cup {ch}
<1>1. /\ Len(Append(s, ch)) = Len(s) + 1 /\ Len(s) \in Nat
      /\ \A i \in 1..Len(s) : Append(s, ch)[i] = s[i]
      /\ Append(s, ch)[Len(s) + 1] = ch
      /\ Append(s, ch) \in Seq(Char)
  OBVIOUS
<1>2. DOMAIN s = 1..Len(s) /\ DOMAIN Append(s, ch) = 1..(Len(s) + 1)
  BY <1>1
<1>3. 1..(Len(s) + 1) = 1..Len(s) \cup {Len(s) + 1}
  BY <1>1
<1> QED
  BY <1>1, <1>2, <1>3 DEF ToSet

(* Before the first call. *)
LEMMA InitReadInv == Init => ReadInv
BY DEF Init, ReadInv, FillInv, Filling, ReadsExactly, Returned

(* A call begins, with room or without. *)
LEMMA BeginReadStep ==
  ASSUME PlainStops, NEW cl \in Calls, Begin(cl)
  PROVE  ReadInv'
<1>1. call' = cl /\ taken' = <<>> /\ buffer' = <<>> /\ c' = None /\ pc' \in {"idle", "start"}
  BY DEF Begin, Return, Goto
<1>2. ToSet(buffer') = {} /\ Len(buffer') = 0
  BY <1>1 DEF ToSet
<1>3. CASE cl.kind # "read"
  BY <1>1, <1>3 DEF ReadInv, FillInv, Filling, ReadsExactly, Returned
<1>4. CASE cl.kind = "read"
  <2>1. cl.limit \in Nat \cup {None}
    BY <1>4 DEF PlainStops
  <2>2. \/ cl.limit = 0 /\ pc' = "idle" /\ result' = 0
        \/ cl.limit # 0 /\ pc' = "start"
    BY <1>4 DEF Begin, Return, Goto
  <2>3. FillInv'
    BY <1>1, <1>2, <2>1, <2>2 DEF FillInv, Filling
  <2>4. ReadsExactly'
    BY <1>1, <1>2, <2>1, <2>2 DEF ReadsExactly, Returned
  <2> QED BY <2>3, <2>4 DEF ReadInv
<1> QED
  BY <1>3, <1>4

(* The timed read: the character it delivers is the last one taken. *)
LEMMA TimedReadFills ==
  ASSUME TypeInv, ReadInv, TimedStart \/ TimedPoll \/ TimedCheck
  PROVE  ReadInv'
<1>1. /\ pc \in {"start", "poll", "check"} /\ pc' # "idle"
      /\ pc' \in {"poll", "check", "got"} /\ UNCHANGED <<call, buffer>>
  BY DEF TimedStart, TimedPoll, TimedCheck, Goto
<1>2. ReadsExactly'
  BY <1>1 DEF ReadsExactly, Returned
<1>3. Filling' <=> Filling
  BY <1>1 DEF Filling
<1>4. CASE UNCHANGED taken /\ (pc' = "got" => c' = None)
  <2>1. FillInv'
    BY <1>1, <1>3, <1>4 DEF ReadInv, FillInv
  <2> QED BY <1>2, <2>1 DEF ReadInv
<1>5. CASE TimedPoll /\ inbox # <<>>
  <2>1. /\ pc' = "got" /\ c' = Head(inbox)
        /\ ~Peeks => taken' = Append(taken, Head(inbox))
    BY <1>5 DEF TimedPoll, Goto
  <2>2. Head(inbox) \in Char
    BY <1>5 DEF TypeInv, TypeOK, TextOK
  <2>3. c' # None
    BY <2>1, <2>2, StreamAssumption
  <2>4. Filling => ~Peeks
    BY DEF Filling, Peeks
  <2>5. FillInv'
    BY <1>1, <1>3, <2>1, <2>3, <2>4 DEF ReadInv, FillInv
  <2> QED BY <1>2, <2>5 DEF ReadInv
<1>6. TimedStart => UNCHANGED taken /\ pc' = "poll"
  BY DEF TimedStart, Goto
<1>7. TimedPoll /\ inbox = <<>> => UNCHANGED taken /\ pc' = "check"
  BY DEF TimedPoll, Goto
<1>8. TimedCheck => UNCHANGED taken /\ (pc' = "got" => c' = None)
  BY DEF TimedCheck, Goto
<1> QED
  BY <1>4, <1>5, <1>6, <1>7, <1>8

(* The character is placed, or ends the call. *)
LEMMA ReadStep ==
  ASSUME PlainStops, TypeInv, ReadInv, ReadGot
  PROVE  ReadInv'
<1>1. pc = "got" /\ call.kind = "read" /\ UNCHANGED <<call, c, taken>>
  BY DEF ReadGot
<1>2. /\ call \in Calls /\ Filling /\ call.stop \notin High /\ call.limit \in Nat \cup {None}
      /\ buffer \in Seq(Char) /\ Len(buffer) \in Nat /\ c \in Char \cup {None} /\ None \notin Char
  BY <1>1, StreamAssumption DEF Filling, PlainStops, TypeInv, CallKnown, TypeOK, TextOK, CallOK
<1>3. /\ taken = IF c # None THEN Append(buffer, c) ELSE buffer
      /\ call.stop \notin ToSet(buffer)
      /\ call.limit # None => Len(buffer) < call.limit
  BY <1>1, <1>2 DEF ReadInv, FillInv
<1>4. CASE Stops /\ Return(Len(buffer)) /\ UNCHANGED buffer
  <2>1. pc' = "idle" /\ result' = Len(buffer) /\ buffer' = buffer
    BY <1>4 DEF Return, Goto
  <2>2. c = None \/ (call.stop # None /\ c = call.stop)
    BY <1>4 DEF Stops, SameChar
  <2>3. taken = buffer \/ (call.stop # None /\ taken = Append(buffer, call.stop))
    BY <1>3, <2>2
  <2>4. call.limit # None => Len(buffer) <= call.limit
    BY <1>2, <1>3
  <2>5. ReadsExactly'
    BY <1>1, <1>3, <2>1, <2>3, <2>4 DEF ReadsExactly
  <2> QED BY <2>1, <2>5 DEF ReadInv, FillInv, Filling
<1>5. CASE /\ ~Stops /\ buffer' = Append(buffer, c)
           /\ IF Len(buffer) + 1 = call.limit
              THEN Return(Len(buffer) + 1)
              ELSE Goto("start") /\ UNCHANGED <<startMillis, waited, result>>
  <2>1. c \in Char /\ c # call.stop
    BY <1>2, <1>5 DEF Stops, SameChar
  <2>2. /\ taken' = buffer' /\ call.stop \notin ToSet(buffer') /\ Len(buffer') = Len(buffer) + 1
    BY <1>1, <1>2, <1>3, <1>5, <2>1, OneMore
  <2>3. CASE Len(buffer) + 1 = call.limit
    <3>1. pc' = "idle" /\ result' = Len(buffer')
      BY <1>5, <2>2, <2>3 DEF Return, Goto
    <3>2. ReadsExactly'
      BY <1>1, <1>2, <2>2, <2>3, <3>1 DEF ReadsExactly
    <3> QED BY <3>1, <3>2 DEF ReadInv, FillInv, Filling
  <2>4. CASE Len(buffer) + 1 # call.limit
    <3>1. pc' = "start"
      BY <1>5, <2>4 DEF Goto
    <3>2. call.limit # None => Len(buffer') < call.limit
      BY <1>2, <1>3, <2>2, <2>4
    <3>3. FillInv'
      BY <1>1, <2>2, <3>1, <3>2 DEF FillInv
    <3> QED BY <3>1, <3>3 DEF ReadInv, ReadsExactly, Returned
  <2> QED BY <2>3, <2>4
<1> QED
  BY <1>4, <1>5 DEF ReadGot

(* The other methods: the call in progress is none that reads. *)
LEMMA OthersFillNothing ==
  ASSUME FindGot \/ SkipGot \/ ParseGot
  PROVE  ReadInv'
<1>1. call.kind # "read" /\ call' = call
  BY DEF FindGot, SkipGot, ParseGot
<1> QED
  BY <1>1 DEF ReadInv, FillInv, Filling, ReadsExactly, Returned

(* readBytes() and its kin give the caller exactly what they take from the *)
(* port but the terminator, in order, and no more than fits, however       *)
(* characters and milliseconds come in between.                            *)
THEOREM ReadsAreExact == PlainStops => (Spec => []ReadsExactly)
<1>1. ASSUME PlainStops, TypeInv, ReadInv, [Next]_vars
      PROVE  ReadInv'
  <2>1. CASE \E cl \in Calls : Begin(cl)
    BY <1>1, <2>1, BeginReadStep
  <2>2. CASE Main
    BY <1>1, <2>2, TimedReadFills, OthersFillNothing, ReadStep DEF Main
  <2>3. CASE (\E ch \in Char : Arrive(ch)) \/ Tick \/ UNCHANGED vars
    <3>1. UNCHANGED <<call, pc, c, buffer, result, taken>>
      BY <2>3 DEF Arrive, Tick, vars
    <3> QED BY <1>1, <3>1 DEF ReadInv, FillInv, Filling, ReadsExactly, Returned
  <2> QED BY <1>1, <2>1, <2>2, <2>3 DEF Next
<1>2. ASSUME PlainStops PROVE Spec => []ReadsExactly
  <2>1. TypeInv /\ ReadInv /\ [Next]_vars => ReadInv'
    BY <1>1, <1>2
  <2>2. ReadInv => ReadsExactly
    BY DEF ReadInv
  <2> QED BY InitReadInv, <2>1, <2>2, TypeInvariant, PTL DEF Spec
<1> QED
  BY <1>2

-----------------------------------------------------------------------------
(* parseInt() and parseFloat() (104-195): which characters they take, for  *)
(* any calls, any characters and any time-out.                             *)

Skippable(x) ==
  /\ x \notin NumberStart
  /\ call.lookahead = "all" \/ (call.lookahead = "whitespace" /\ x \in Space)
Allowed(x) == x \in Digit \cup {call.ignore} \cup (NumberStart \ {Minus})

(* The number so far is the end of what was taken, and what stands before  *)
(* it was skipped; the character looked at is still the next in the port.  *)
Parsing == call # None /\ call.kind = "parse"
Skipped == Len(taken) - Len(buffer)
ExtentInv ==
  Parsing =>
    /\ Len(buffer) <= Len(taken)
    /\ \A j \in 1..Skipped : Skippable(taken[j])
    /\ buffer # <<>> => taken[Skipped + 1] \in NumberStart
    /\ \A j \in (Skipped + 2)..Len(taken) : Allowed(taken[j])
    /\ pc \in {"got", "idle"} /\ c # None => inbox # <<>> /\ Head(inbox) = c
    /\ pc = "idle" /\ c # None => c \notin Digit

(* The number begins behind what was skipped. *)
LEMMA NumberIsEnd ==
  ASSUME NEW s \in Seq(Char), NEW k \in 0..Len(s),
         \A j \in 1..k : s[j] \notin NumberStart,
         k < Len(s) => s[k + 1] \in NumberStart
  PROVE  /\ Len(NumberIn(s)) = Len(s) - k
         /\ \A j \in 1..(Len(s) - k) : NumberIn(s)[j] = s[k + j]
<1> DEFINE starts == {j \in DOMAIN s : s[j] \in NumberStart}
<1>1. Len(s) \in Nat /\ DOMAIN s = 1..Len(s) /\ k \in Nat
  OBVIOUS
<1>2. NumberIn(s) = IF starts = {} THEN <<>> ELSE SubSeq(s, Min(starts), Len(s))
  BY DEF NumberIn
<1>3. CASE k = Len(s)
  <2>1. starts = {}
    BY <1>1, <1>3
  <2> QED BY <1>1, <1>2, <1>3, <2>1
<1>4. CASE k < Len(s)
  <2>1. k + 1 \in starts /\ starts \subseteq Nat /\ \A j \in starts : k + 1 <= j
    BY <1>1, <1>4
  <2>2. Min(starts) = k + 1
    <3> HIDE DEF starts
    <3>1. \A x \in starts : (\A y \in starts : x <= y) => x = k + 1
      BY <1>1, <2>1
    <3> QED BY <2>1, <3>1 DEF Min
  <2>3. NumberIn(s) = SubSeq(s, k + 1, Len(s))
    BY <1>2, <2>1, <2>2
  <2>4. /\ Len(SubSeq(s, k + 1, Len(s))) = Len(s) - k
        /\ \A j \in 1..(Len(s) - k) : SubSeq(s, k + 1, Len(s))[j] = s[k + j]
    <3>1. k + 1 \in 1..Len(s) /\ Len(s) - (k + 1) + 1 = Len(s) - k
      BY <1>1, <1>4
    <3>2. Len(SubSeq(s, k + 1, Len(s))) = Len(s) - k
      BY <1>1, <3>1
    <3>3. ASSUME NEW j \in 1..(Len(s) - k)
          PROVE  SubSeq(s, k + 1, Len(s))[j] = s[k + j]
      <4> HIDE DEF starts
      <4>1. Len(s) \in Nat /\ k \in Nat /\ j \in Int
        BY <1>1
      <4>2. (k + 1) + j - 1 = k + j
        BY <4>1
      <4>3. j \in 1..Len(SubSeq(s, k + 1, Len(s)))
        BY <3>2
      <4>4. SubSeq(s, k + 1, Len(s))[j] = s[(k + 1) + j - 1]
        BY <1>1, <3>1, <4>1, <4>3
      <4> QED BY <4>2, <4>4
    <3> QED BY <3>2, <3>3
  <2> QED BY <2>3, <2>4
<1>5. k = Len(s) \/ k < Len(s)
  <2> HIDE DEF starts
  <2>1. Len(s) \in Nat
    BY <1>1
  <2> QED BY <2>1
<1> QED
  BY <1>3, <1>4, <1>5

LEMMA ExtentMeans ==
  ASSUME TypeInv, ExtentInv
  PROVE  Returned("parse") => ParsedExtent
<1> SUFFICES ASSUME Returned("parse") PROVE ParsedExtent
  OBVIOUS
<1>1. Parsing /\ pc = "idle"
  BY DEF Returned, Parsing
<1>2. PICK k : k = Skipped
  OBVIOUS
<1>3. PICK s : s = taken
  OBVIOUS
<1>4. /\ s \in Seq(Char) /\ Len(s) \in Nat /\ Len(buffer) \in Nat
      /\ k = Len(s) - Len(buffer) /\ Len(buffer) <= Len(s)
  BY <1>1, <1>2, <1>3 DEF TypeInv, TypeOK, TextOK, ExtentInv, Skipped
<1>5. k \in 0..Len(s) /\ (k < Len(s) => buffer # <<>>)
  BY <1>4
<1>6. /\ \A j \in 1..k : Skippable(s[j])
      /\ buffer # <<>> => s[k + 1] \in NumberStart
      /\ \A j \in (k + 2)..Len(s) : Allowed(s[j])
  BY <1>1, <1>2, <1>3 DEF ExtentInv
<1> DEFINE n == NumberIn(s)
<1>7. Len(n) = Len(s) - k /\ \A j \in 1..(Len(s) - k) : n[j] = s[k + j]
  BY <1>4, <1>5, <1>6, NumberIsEnd DEF Skippable
<1> HIDE DEF n
<1>8. \A j \in 1..(Len(s) - Len(n)) :
        call.lookahead = "all" \/ (call.lookahead = "whitespace" /\ s[j] \in Space)
  BY <1>4, <1>5, <1>6, <1>7 DEF Skippable
<1>9. ASSUME NEW j \in 2..Len(n)
      PROVE  Allowed(n[j])
  <2>1. j \in 1..(Len(s) - k) /\ k + j \in (k + 2)..Len(s)
    BY <1>4, <1>5, <1>7
  <2> QED BY <1>6, <1>7, <2>1
<1>10. c # None => inbox # <<>> /\ Head(inbox) = c /\ c \notin Digit
  BY <1>1 DEF ExtentInv
<1> QED
  BY <1>3, <1>8, <1>9, <1>10 DEF ParsedExtent, Allowed, n

(* A character more taken: to the number, or skipped. *)
LEMMA TakeOne ==
  ASSUME TypeInv, ExtentInv, Parsing, c \in Char, UNCHANGED <<call, c>>, taken' = Append(taken, c),
         pc' = "start",
         \/ buffer = <<>> /\ buffer' = <<>> /\ Skippable(c)
         \/ buffer = <<>> /\ buffer' = <<c>> /\ c \in NumberStart
         \/ buffer # <<>> /\ buffer' = Append(buffer, c) /\ Allowed(c)
  PROVE  ExtentInv'
<1>1. taken \in Seq(Char) /\ buffer \in Seq(Char) /\ Len(taken) \in Nat /\ Len(buffer) \in Nat
  BY DEF TypeInv, TypeOK, TextOK
<1>2. /\ Len(taken') = Len(taken) + 1 /\ taken'[Len(taken) + 1] = c
      /\ \A j \in 1..Len(taken) : taken'[j] = taken[j]
  BY <1>1
<1>3. \A x : /\ Skippable(x)' <=> Skippable(x)
             /\ Allowed(x)' <=> Allowed(x)
             /\ x \in NumberStart' <=> x \in NumberStart
  BY DEF Skippable, Allowed, NumberStart
<1>4. /\ Len(buffer) <= Len(taken)
      /\ \A j \in 1..(Len(taken) - Len(buffer)) : Skippable(taken[j])
      /\ buffer # <<>> => taken[Len(taken) - Len(buffer) + 1] \in NumberStart
      /\ \A j \in (Len(taken) - Len(buffer) + 2)..Len(taken) : Allowed(taken[j])
  BY DEF ExtentInv, Skipped
<1>5. CASE buffer = <<>> /\ buffer' = <<>> /\ Skippable(c)
  <2>1. Len(buffer') = 0 /\ Len(buffer) = 0 /\ Skipped' = Len(taken) + 1
    BY <1>1, <1>2, <1>5 DEF Skipped
  <2>2. \A j \in 1..(Len(taken) + 1) : Skippable(taken'[j])
    BY <1>1, <1>2, <1>4, <1>5, <2>1
  <2> QED BY <1>1, <1>2, <1>3, <1>5, <2>1, <2>2 DEF ExtentInv
<1>6. CASE buffer = <<>> /\ buffer' = <<c>> /\ c \in NumberStart
  <2>1. Len(buffer') = 1 /\ Len(buffer) = 0 /\ Skipped' = Len(taken)
    BY <1>1, <1>2, <1>6 DEF Skipped
  <2>2. \A j \in 1..Len(taken) : Skippable(taken'[j])
    BY <1>1, <1>2, <1>4, <2>1
  <2> QED BY <1>1, <1>2, <1>3, <1>6, <2>1, <2>2 DEF ExtentInv
<1>7. CASE buffer # <<>> /\ buffer' = Append(buffer, c) /\ Allowed(c)
  <2>1. Len(buffer') = Len(buffer) + 1 /\ Len(buffer) > 0
    BY <1>1, <1>7
  <2>2. Skipped' = Len(taken) - Len(buffer)
    BY <1>1, <1>2, <2>1 DEF Skipped
  <2>3. \A j \in 1..(Len(taken) - Len(buffer)) : Skippable(taken'[j])
    BY <1>1, <1>2, <1>4, <2>1
  <2>4. taken'[Len(taken) - Len(buffer) + 1] \in NumberStart
    BY <1>1, <1>2, <1>4, <1>7, <2>1
  <2>5. ASSUME NEW j \in (Len(taken) - Len(buffer) + 2)..(Len(taken) + 1)
        PROVE  Allowed(taken'[j])
    <3>1. CASE j = Len(taken) + 1
      BY <1>2, <1>7, <3>1
    <3>2. CASE j # Len(taken) + 1
      <4>1. Len(taken) \in Nat /\ Len(buffer) \in Nat /\ Len(buffer) <= Len(taken)
        BY <1>1, <1>4
      <4>2. j \in (Len(taken) - Len(buffer) + 2)..Len(taken) /\ j \in 1..Len(taken)
        BY <3>2, <4>1
      <4>3. taken'[j] = taken[j]
        BY <1>2, <4>2
      <4>4. Allowed(taken[j])
        BY <1>4, <4>2
      <4> QED BY <4>3, <4>4
    <3> QED BY <3>1, <3>2
  <2>6. Len(buffer') <= Len(taken')
    BY <1>1, <1>2, <1>4, <2>1
  <2>7. \A j \in 1..Skipped' : Skippable(taken[j])'
    BY <1>3, <2>2, <2>3
  <2>8. taken'[Skipped' + 1] \in NumberStart'
    BY <1>3, <2>2, <2>4
  <2>9. \A j \in (Skipped' + 2)..Len(taken') : Allowed(taken[j])'
    BY <1>2, <1>3, <2>2, <2>5
  <2> QED BY <2>6, <2>7, <2>8, <2>9 DEF ExtentInv
<1> QED
  BY <1>5, <1>6, <1>7

(* A step that takes nothing. *)
LEMMA TakeNone ==
  ASSUME ExtentInv, UNCHANGED <<call, taken, buffer>>,
         Parsing /\ pc' \in {"got", "idle"} /\ c' # None => inbox' # <<>> /\ Head(inbox') = c',
         Parsing /\ pc' = "idle" /\ c' # None => c' \notin Digit
  PROVE  ExtentInv'
<1>1. \A x : /\ Skippable(x)' <=> Skippable(x)
             /\ Allowed(x)' <=> Allowed(x)
             /\ x \in NumberStart' <=> x \in NumberStart
  BY DEF Skippable, Allowed, NumberStart
<1>2. Parsing' <=> Parsing
  BY DEF Parsing
<1>3. Skipped' = Skipped
  BY DEF Skipped
<1> QED
  BY <1>1, <1>2, <1>3 DEF ExtentInv

LEMMA ParseStep ==
  ASSUME TypeInv, ExtentInv, SkipGot \/ ParseGot
  PROVE  ExtentInv'
<1>1. pc = "got" /\ call.kind = "parse" /\ UNCHANGED <<call, c>> /\ call # None /\ Parsing /\ Peeks
  BY StreamAssumption DEF SkipGot, ParseGot, Parsing, TypeInv, CallKnown, Peeks
<1>2. c # None => c \in Char /\ inbox # <<>> /\ Head(inbox) = c
  BY <1>1 DEF TypeInv, TypeOK, CallOK, ExtentInv
<1>3. StartsNumber <=> c \in NumberStart
  BY DEF StartsNumber, NumberStart
<1>4. CASE UNCHANGED <<inbox, taken, buffer>> /\ pc' = "idle" /\ (c # None => c \notin Digit)
  BY <1>1, <1>2, <1>4, TakeNone
<1>5. CASE /\ c # None /\ Consume
           /\ \/ buffer = <<>> /\ buffer' = <<>> /\ Skippable(c)
              \/ buffer = <<>> /\ buffer' = <<c>> /\ c \in NumberStart
              \/ buffer # <<>> /\ buffer' = Append(buffer, c) /\ Allowed(c)
  <2>1. taken' = Append(taken, c) /\ pc' = "start"
    BY <1>2, <1>5 DEF Consume, Goto
  <2> QED BY <1>1, <1>2, <1>5, <2>1, TakeOne
<1>6. CASE SkipGot
  <2>1. CASE c # None /\ StartsNumber /\ Account /\ buffer' = <<c>> /\ Consume
    BY <1>3, <1>5, <1>6, <2>1 DEF SkipGot
  <2>2. CASE c # None /\ ~StartsNumber /\ Skips /\ Consume /\ UNCHANGED <<number, buffer>>
    <3>1. buffer = <<>> /\ buffer' = <<>>
      BY <1>6, <2>2 DEF SkipGot
    <3>2. Skippable(c)
      BY <1>3, <2>2 DEF Skippable, Skips
    <3> QED BY <1>5, <2>2, <3>1, <3>2
  <2>3. CASE /\ c = None \/ (~StartsNumber /\ ~Skips)
             /\ Return(0) /\ UNCHANGED <<inbox, taken, number, buffer>>
    <3>1. c # None => c \notin Digit
      BY <1>3, <2>3 DEF NumberStart
    <3>2. pc' = "idle"
      BY <2>3 DEF Return, Goto
    <3> QED BY <1>4, <2>3, <3>1, <3>2
  <2> QED BY <1>6, <2>1, <2>2, <2>3 DEF SkipGot
<1>7. CASE ParseGot
  <2>1. CASE Continues /\ Account /\ Consume /\ buffer' = Append(buffer, c)
    <3>1. c # None /\ Allowed(c)
      BY <2>1, PrintAssumption DEF Continues, Allowed, IsIgnored, SameChar, NumberStart
    <3> QED BY <1>5, <1>7, <2>1, <3>1 DEF ParseGot
  <2>2. CASE /\ ~Continues /\ Return(IF isNegative THEN -value ELSE value)
             /\ UNCHANGED <<inbox, taken, number, buffer>>
    <3>1. (c # None => c \notin Digit) /\ pc' = "idle"
      BY <2>2 DEF Continues, Return, Goto
    <3> QED BY <1>4, <2>2, <3>1
  <2> QED BY <1>7, <2>1, <2>2 DEF ParseGot
<1> QED
  BY <1>6, <1>7

LEMMA ExtentStep ==
  ASSUME TypeInv, ExtentInv, [Next]_vars
  PROVE  ExtentInv'
<1>1. inbox \in Seq(Char)
  BY DEF TypeInv, TypeOK, TextOK
<1>2. ASSUME NEW ch \in Char, Arrive(ch)
      PROVE  ExtentInv'
  <2>1. UNCHANGED <<call, taken, buffer, pc, c>> /\ inbox' = Append(inbox, ch)
    BY <1>2 DEF Arrive
  <2>2. inbox # <<>> => inbox' # <<>> /\ Head(inbox') = Head(inbox)
    BY <1>1, <2>1
  <2>3. /\ Parsing /\ pc' \in {"got", "idle"} /\ c' # None => inbox' # <<>> /\ Head(inbox') = c'
        /\ Parsing /\ pc' = "idle" /\ c' # None => c' \notin Digit
    BY <2>1, <2>2 DEF ExtentInv
  <2> QED BY <2>1, <2>3, TakeNone
<1>3. CASE Tick \/ UNCHANGED vars
  <2>1. UNCHANGED <<call, taken, buffer, pc, c, inbox>>
    BY <1>3 DEF Tick, vars, port
  <2>2. /\ Parsing /\ pc' \in {"got", "idle"} /\ c' # None => inbox' # <<>> /\ Head(inbox') = c'
        /\ Parsing /\ pc' = "idle" /\ c' # None => c' \notin Digit
    BY <2>1 DEF ExtentInv
  <2> QED BY <2>1, <2>2, TakeNone
<1>4. ASSUME NEW cl \in Calls, Begin(cl)
      PROVE  ExtentInv'
  <2>1. taken' = <<>> /\ buffer' = <<>> /\ c' = None
    BY <1>4 DEF Begin
  <2>2. Len(taken') = 0 /\ Len(buffer') = 0 /\ Skipped' = 0
    BY <2>1 DEF Skipped
  <2> QED BY <2>1, <2>2 DEF ExtentInv
<1>5. CASE TimedStart \/ TimedPoll \/ TimedCheck
  <2>1. UNCHANGED <<call, buffer>> /\ pc' # "idle"
    BY <1>5 DEF TimedStart, TimedPoll, TimedCheck, Goto
  <2>2. Parsing => Peeks
    BY DEF Parsing, Peeks
  <2>3. pc' = "got" /\ c' # None => c' = Head(inbox) /\ inbox # <<>>
    BY <1>5 DEF TimedStart, TimedPoll, TimedCheck, Goto
  <2>4. Parsing => UNCHANGED <<inbox, taken>>
    BY <1>5, <2>2 DEF TimedStart, TimedPoll, TimedCheck, Goto
  <2>5. CASE Parsing
    BY <2>1, <2>3, <2>4, <2>5, TakeNone
  <2>6. CASE ~Parsing
    BY <2>1, <2>6 DEF Parsing, ExtentInv
  <2> QED BY <2>5, <2>6
<1>6. CASE ReadGot \/ FindGot
  <2>1. call.kind # "parse" /\ call' = call
    BY <1>6 DEF ReadGot, FindGot
  <2> QED BY <2>1 DEF ExtentInv, Parsing
<1>7. CASE SkipGot \/ ParseGot
  BY <1>7, ParseStep
<1> QED
  BY <1>2, <1>3, <1>4, <1>5, <1>6, <1>7 DEF Next, Main

(* parseInt() and parseFloat() skip only what they may skip, take only     *)
(* what can belong to a number, and leave the character that ended it in   *)
(* the port, however characters and milliseconds come in between.          *)
THEOREM ParsedExtentRight == Spec => [](Returned("parse") => ParsedExtent)
<1>1. Init => ExtentInv
  BY DEF Init, ExtentInv, Parsing
<1>2. TypeInv /\ ExtentInv /\ [Next]_vars => ExtentInv'
  BY ExtentStep
<1>3. TypeInv /\ ExtentInv => (Returned("parse") => ParsedExtent)
  BY ExtentMeans
<1> QED
  BY <1>1, <1>2, <1>3, TypeInvariant, PTL DEF Spec

-----------------------------------------------------------------------------
(* parseInt() and parseFloat(): the number they return (104-195).          *)

(* What the recursion that reads digits comes to, place by place. *)
LEMMA ValuesAre ==
  ASSUME NEW N \in Nat, NEW s, N = Len(s), NEW ignore
  PROVE  /\ Values(s, ignore) \in [0..N -> Nat]
         /\ Values(s, ignore)[0] = 0
         /\ \A k \in 1..N :
              Values(s, ignore)[k] =
                IF s[k] \in Digit /\ s[k] # ignore
                THEN Values(s, ignore)[k - 1] * Base + s[k]
                ELSE Values(s, ignore)[k - 1]
<1>2. \A k \in 1..N : s[k] \in Digit => s[k] \in Nat
  BY DEF Digit
<1> DEFINE Step(g, k) ==
             IF k = 0 THEN 0
             ELSE IF s[k] \in Digit /\ s[k] # ignore THEN g[k - 1] * Base + s[k]
             ELSE g[k - 1]
           F == [g \in [0..N -> Nat] |-> [k \in 0..N |-> Step(g, k)]]
<1>3. \A g \in [0..N -> Nat], k \in 0..N : Step(g, k) \in Nat
  <2> SUFFICES ASSUME NEW g \in [0..N -> Nat], NEW k \in 0..N PROVE Step(g, k) \in Nat
    OBVIOUS
  <2>1. CASE k = 0
    BY <2>1
  <2>2. CASE k # 0
    <3>1. k - 1 \in 0..N /\ k \in 1..N
      BY <2>2
    <3>2. g[k - 1] \in Nat
      BY <3>1
    <3>3. g[k - 1] * Base \in Nat
      BY <3>2, Numbers
    <3>4. s[k] \in Digit => g[k - 1] * Base + s[k] \in Nat
      BY <1>2, <3>1, <3>3
    <3> QED BY <2>2, <3>2, <3>4
  <2> QED BY <2>1, <2>2
<1>4. F \in [[0..N -> Nat] -> [0..N -> Nat]]
  <2> HIDE DEF Step
  <2> QED BY <1>3
<1>5. ASSUME NEW g \in [0..N -> Nat], NEW h \in [0..N -> Nat], NEW k \in 0..N,
             \A j \in 0..N : j < k => g[j] = h[j]
      PROVE  F[g][k] = F[h][k]
  <2>1. Step(g, k) = Step(h, k)
    <3>1. CASE k = 0
      BY <3>1
    <3>2. CASE k # 0
      <4>1. k - 1 \in 0..N /\ k - 1 < k
        BY <3>2
      <4>2. g[k - 1] = h[k - 1]
        BY <1>5, <4>1
      <4> QED BY <4>2
    <3> QED BY <3>1, <3>2
  <2> HIDE DEF Step
  <2> QED BY <2>1
<1>6. Solved(0..N, Nat, F)
  <2> HIDE DEF F
  <2>1. Nat # {}
    OBVIOUS
  <2>2. FromStart(N, Nat, F)
    BY <1>4, <1>5 DEF FromStart
  <2> QED BY <2>1, <2>2, RecursionFromStart
<1>7. PICK f \in [0..N -> Nat] : f = [k \in 0..N |-> Step(f, k)]
  <2> HIDE DEF Step
  <2> QED BY <1>6 DEF Solved
<1> DEFINE v == Values(s, ignore)
<1>8. v = CHOOSE g : g = [k \in 0..N |-> Step(g, k)]
  BY DEF Values
<1>9. v = [k \in 0..N |-> Step(v, k)]
  <2> HIDE DEF v, Step
  <2> QED BY <1>7, <1>8
<1>10. \A k \in 0..N : v[k] = Step(v, k) /\ f[k] = Step(f, k)
  <2> HIDE DEF Step, v
  <2> QED BY <1>7, <1>9
<1>11. \A k \in 0..N : v[k] = f[k]
  <2> HIDE DEF v
  <2> DEFINE Good == {k \in 0..N : v[k] = f[k]}
  <2>1. 0 \in Good
    BY <1>10
  <2>2. ASSUME NEW k \in 0..N, k < N, k \in Good
        PROVE  k + 1 \in Good
    <3>1. k + 1 \in 0..N /\ k + 1 # 0 /\ (k + 1) - 1 = k /\ v[k] = f[k]
      BY <2>2
    <3>2. Step(v, k + 1) = Step(f, k + 1)
      BY <3>1
    <3>3. v[k + 1] = f[k + 1]
      <4> HIDE DEF Step
      <4> QED BY <1>10, <3>1, <3>2
    <3> QED BY <3>1, <3>3
  <2>3. \A k \in 0..N : k \in Good
    <3> HIDE DEF Good
    <3> QED BY <2>1, <2>2, InductionTo
  <2> QED BY <2>3
<1>12. v = [k \in 0..N |-> f[k]]
  <2>1. \A k \in 0..N : Step(v, k) = f[k]
    <3> HIDE DEF Step, v
    <3> QED BY <1>10, <1>11
  <2> HIDE DEF v, Step
  <2> QED BY <1>9, <2>1
<1>13. v \in [0..N -> Nat]
  <2> HIDE DEF v
  <2> QED BY <1>12
<1>14. v[0] = 0
  BY <1>10
<1>15. ASSUME NEW k \in 1..N
       PROVE  v[k] = IF s[k] \in Digit /\ s[k] # ignore THEN v[k - 1] * Base + s[k]
                     ELSE v[k - 1]
  <2>1. k \in 0..N /\ k # 0
    OBVIOUS
  <2>2. v[k] = Step(v, k)
    <3> HIDE DEF v, Step
    <3> QED BY <1>10, <2>1
  <2> HIDE DEF v
  <2> QED BY <2>1, <2>2
<1> HIDE DEF v
<1> QED BY <1>13, <1>14, <1>15 DEF v

Number(s, ignore) == Values(s, ignore)[Len(s)]

(* A character more: a digit that is not ignored adds itself. *)
LEMMA NumberGrows ==
  ASSUME NEW s \in Seq(Char), NEW d \in Char, NEW ignore
  PROVE  /\ Number(s, ignore) \in Nat
         /\ Number(Append(s, d), ignore) =
              IF d \in Digit /\ d # ignore THEN Number(s, ignore) * Base + d
              ELSE Number(s, ignore)
<1>1. PICK N \in Nat : N = Len(s)
  BY LenProperties
<1>2. PICK t : t = Append(s, d)
  OBVIOUS
<1>3. N + 1 = Len(t) /\ t[N + 1] = d /\ \A k \in 1..N : t[k] = s[k]
  BY <1>1, <1>2
<1>4. PICK v : v = Values(s, ignore)
  OBVIOUS
<1>5. PICK w : w = Values(t, ignore)
  OBVIOUS
<1>6. /\ v \in [0..N -> Nat] /\ v[0] = 0
      /\ \A k \in 1..N : v[k] = IF s[k] \in Digit /\ s[k] # ignore THEN v[k - 1] * Base + s[k]
                                ELSE v[k - 1]
  BY <1>1, <1>4, ValuesAre
<1>7. /\ w \in [0..(N + 1) -> Nat] /\ w[0] = 0
      /\ \A k \in 1..(N + 1) : w[k] = IF t[k] \in Digit /\ t[k] # ignore
                                      THEN w[k - 1] * Base + t[k] ELSE w[k - 1]
  <2>1. N + 1 \in Nat
    OBVIOUS
  <2> QED BY <1>3, <1>5, <2>1, ValuesAre
<1> DEFINE Same == {k \in 0..N : w[k] = v[k]}
<1>8. ASSUME NEW k \in 0..N, k < N, k \in Same
      PROVE  k + 1 \in Same
  <2>1. k + 1 \in 1..N /\ k + 1 \in 1..(N + 1) /\ (k + 1) - 1 = k /\ k + 1 \in 0..N
    BY <1>8
  <2>2. w[k] = v[k] /\ t[k + 1] = s[k + 1]
    BY <1>3, <1>8, <2>1
  <2>3. v[k + 1] = IF s[k + 1] \in Digit /\ s[k + 1] # ignore THEN v[k] * Base + s[k + 1]
                   ELSE v[k]
    BY <1>6, <2>1
  <2>4. w[k + 1] = IF t[k + 1] \in Digit /\ t[k + 1] # ignore THEN w[k] * Base + t[k + 1]
                   ELSE w[k]
    BY <1>7, <2>1
  <2> QED BY <2>1, <2>2, <2>3, <2>4
<1>9. N \in Same
  <2>1. 0 \in Same /\ N \in 0..N
    BY <1>6, <1>7
  <2> HIDE DEF Same
  <2> QED BY <1>8, <2>1, InductionTo
<1>10. w[N] = v[N] /\ N + 1 \in 1..(N + 1) /\ (N + 1) - 1 = N
  BY <1>9
<1>11. w[N + 1] = IF t[N + 1] \in Digit /\ t[N + 1] # ignore THEN w[N] * Base + t[N + 1]
                  ELSE w[N]
  BY <1>7, <1>10
<1>12. Number(s, ignore) = v[N] /\ Number(Append(s, d), ignore) = w[N + 1]
  BY <1>1, <1>2, <1>3, <1>4, <1>5 DEF Number
<1>13. v[N] \in Nat
  BY <1>6
<1> QED
  BY <1>3, <1>10, <1>11, <1>12, <1>13

(* Nothing is no number. *)
LEMMA NumberOfNothing ==
  ASSUME NEW ignore
  PROVE  Number(<<>>, ignore) = 0
<1>1. 0 \in Nat /\ 0 = Len(<<>>)
  OBVIOUS
<1> QED
  BY <1>1, ValuesAre DEF Number

-----------------------------------------------------------------------------
(* The number so far is what was taken behind what was skipped, and the    *)
(* variables say which: its value, while that fits a long, and its sign.   *)
ValueInv ==
  Parsing =>
    /\ \A j \in 1..Len(buffer) : buffer[j] = taken[Skipped + j]
    /\ Number(buffer, call.ignore) <= LongMax => value = Number(buffer, call.ignore)
    /\ isNegative <=> buffer # <<>> /\ buffer[1] = Minus /\ Minus # call.ignore
    /\ pc = "idle" => result = IF isNegative THEN -value ELSE value

(* The characters of numbers compare as written. *)
LEMMA IgnoredIsIgnore ==
  ASSUME c \in Digit \cup {Minus}
  PROVE  IsIgnored <=> c = call.ignore
<1>1. c \notin High
  BY StreamAssumption DEF Digit
<1> QED
  BY <1>1 DEF IsIgnored, SameChar

(* Account (the loop bodies at 116-133 and 150-175): the value and the sign *)
(* of the number with the character.                                        *)
LEMMA AccountsFor ==
  ASSUME TypeInv, ValueInv, Parsing, c \in Char, Account, call' = call,
         buffer' = Append(buffer, c),
         buffer # <<>> => c \in Digit \/ IsIgnored \/ c = Dot
  PROVE  /\ Number(buffer', call.ignore) <= LongMax => value' = Number(buffer', call.ignore)
         /\ isNegative' <=> buffer'[1] = Minus /\ Minus # call.ignore
<1>1. buffer \in Seq(Char) /\ value \in 0..LongMax /\ isNegative \in BOOLEAN
  BY DEF TypeInv, TypeOK, TextOK, NumberOK
<1>2. PICK ig : ig = call.ignore
  OBVIOUS
<1>3. PICK old \in Nat : old = Number(buffer, ig)
  BY <1>1, NumberGrows
<1>4. PICK new : new = Number(Append(buffer, c), ig)
  OBVIOUS
<1>5. new = IF c \in Digit /\ c # ig THEN old * Base + c ELSE old
  BY <1>1, <1>3, <1>4, NumberGrows
<1>6. old <= LongMax => value = old
  BY <1>2, <1>3 DEF ValueInv
<1>7. new <= LongMax => value' = new
  <2>1. CASE c \in Digit /\ c # ig
    <3>1. ~IsIgnored
      BY <1>2, <2>1, IgnoredIsIgnore
    <3>2. value' \in AddDigit(value, c)
      BY <2>1, <3>1 DEF Account
    <3>3. c \in Nat /\ new = old * Base + c
      BY <1>5, <2>1 DEF Digit
    <3>4. PICK prod \in Nat : prod = old * Base /\ old <= prod
      BY Numbers
    <3>5. new <= LongMax => old <= LongMax
      BY <3>3, <3>4, Numbers
    <3>6. new <= LongMax => value' \in {value * Base + c}
      BY <1>6, <3>2, <3>3, <3>5 DEF AddDigit
    <3> QED BY <1>6, <3>3, <3>5, <3>6
  <2>2. CASE ~(c \in Digit /\ c # ig)
    <3>1. c \in Digit => IsIgnored
      BY <1>2, <2>2, IgnoredIsIgnore
    <3>2. value' = value
      BY <3>1 DEF Account, number
    <3> QED BY <1>5, <1>6, <2>2, <3>2
  <2> QED BY <2>1, <2>2
<1>8. isNegative <=> buffer # <<>> /\ buffer[1] = Minus /\ Minus # ig
  BY <1>2 DEF ValueInv
<1>9. CASE buffer = <<>>
  <2>1. buffer'[1] = c /\ isNegative = FALSE
    BY <1>1, <1>8, <1>9
  <2>2. isNegative' <=> ~IsIgnored /\ c = Minus
    BY <2>1 DEF Account, number
  <2>3. c = Minus => (IsIgnored <=> Minus = ig)
    BY <1>2, IgnoredIsIgnore
  <2>4. isNegative' <=> buffer'[1] = Minus /\ Minus # ig
    BY <2>1, <2>2, <2>3
  <2> QED BY <1>2, <1>4, <1>7, <2>4
<1>10. CASE buffer # <<>>
  <2>1. buffer'[1] = buffer[1]
    <3>1. 1 \in 1..Len(buffer)
      BY <1>1, <1>10
    <3> QED BY <1>1, <3>1
  <2>2. c = Minus => IsIgnored
    BY <1>10, StreamAssumption, PrintAssumption DEF Digit
  <2>3. isNegative' <=> isNegative
    BY <2>2 DEF Account, number
  <2> QED BY <1>2, <1>4, <1>7, <1>8, <1>10, <2>1, <2>3
<1> QED
  BY <1>9, <1>10

(* A step that leaves the number alone. *)
LEMMA ValueUntouched ==
  ASSUME ValueInv, UNCHANGED <<call, number, buffer>>,
         Parsing => \A j \in 1..Len(buffer) : buffer[j] = taken'[Len(taken') - Len(buffer) + j],
         Parsing /\ pc' = "idle" => result' = IF isNegative THEN -value ELSE value
  PROVE  ValueInv'
<1>1. call' = call /\ value' = value /\ isNegative' = isNegative /\ buffer' = buffer
  BY DEF number
<1>2. Parsing' <=> Parsing
  BY <1>1 DEF Parsing
<1>3. Skipped' = Len(taken') - Len(buffer)
  BY <1>1 DEF Skipped
<1> QED
  BY <1>1, <1>2, <1>3 DEF ValueInv

LEMMA ParseValueStep ==
  ASSUME TypeInv, ExtentInv, ValueInv, SkipGot \/ ParseGot
  PROVE  ValueInv'
<1>1. pc = "got" /\ call.kind = "parse" /\ call' = call /\ c' = c /\ call # None /\ Parsing /\ Parsing' /\ Peeks
  BY StreamAssumption DEF SkipGot, ParseGot, Parsing, TypeInv, CallKnown, Peeks
<1>2. c # None => c \in Char /\ inbox # <<>> /\ Head(inbox) = c
  BY <1>1 DEF TypeInv, TypeOK, CallOK, ExtentInv
<1>3. taken \in Seq(Char) /\ buffer \in Seq(Char) /\ Len(taken) \in Nat /\ Len(buffer) \in Nat
      /\ Len(buffer) <= Len(taken)
  BY <1>1 DEF TypeInv, TypeOK, TextOK, ExtentInv
<1>4. \A j \in 1..Len(buffer) : buffer[j] = taken[Len(taken) - Len(buffer) + j]
  BY <1>1 DEF ValueInv, Skipped
<1>5. ASSUME c # None, Consume, Account, buffer' = Append(buffer, c),
             buffer # <<>> => c \in Digit \/ IsIgnored \/ c = Dot
      PROVE  ValueInv'
  <2>1. taken' = Append(taken, c) /\ pc' = "start" /\ c \in Char
    BY <1>2, <1>5 DEF Consume, Goto
  <2>2. /\ Number(buffer', call.ignore) <= LongMax => value' = Number(buffer', call.ignore)
        /\ isNegative' <=> buffer'[1] = Minus /\ Minus # call.ignore
    BY <1>1, <1>5, <2>1, AccountsFor
  <2>3. Len(buffer') = Len(buffer) + 1 /\ Len(taken') = Len(taken) + 1 /\ buffer' # <<>>
    BY <1>3, <1>5, <2>1
  <2>4. Skipped' = Len(taken) - Len(buffer)
    BY <1>3, <2>3 DEF Skipped
  <2>5. ASSUME NEW j \in 1..(Len(buffer) + 1)
        PROVE  buffer'[j] = taken'[Len(taken) - Len(buffer) + j]
    <3>1. CASE j = Len(buffer) + 1
      <4>1. Len(taken) - Len(buffer) + j = Len(taken) + 1
        BY <1>3, <3>1
      <4>2. buffer'[j] = c /\ taken'[Len(taken) + 1] = c
        BY <1>3, <1>5, <2>1, <3>1
      <4> QED BY <4>1, <4>2
    <3>2. CASE j # Len(buffer) + 1
      <4>1. j \in 1..Len(buffer) /\ Len(taken) - Len(buffer) + j \in 1..Len(taken)
        BY <1>3, <3>2
      <4>2. buffer'[j] = buffer[j]
        BY <1>3, <1>5, <4>1
      <4>3. taken'[Len(taken) - Len(buffer) + j] = taken[Len(taken) - Len(buffer) + j]
        BY <1>3, <2>1, <4>1
      <4> QED BY <1>4, <4>1, <4>2, <4>3
    <3> QED BY <3>1, <3>2
  <2>6. \A j \in 1..Len(buffer') : buffer'[j] = taken'[Skipped' + j]
    BY <2>3, <2>4, <2>5
  <2> QED BY <1>1, <2>1, <2>2, <2>3, <2>6 DEF ValueInv
<1>6. CASE SkipGot
  <2>1. CASE c # None /\ StartsNumber /\ Account /\ buffer' = <<c>> /\ Consume
    <3>1. buffer = <<>> /\ <<c>> = Append(buffer, c)
      BY <1>6 DEF SkipGot
    <3> QED BY <1>5, <2>1, <3>1
  <2>2. CASE c # None /\ ~StartsNumber /\ Skips /\ Consume /\ UNCHANGED <<number, buffer>>
    <3>1. buffer = <<>> /\ pc' = "start"
      BY <1>6, <2>2 DEF SkipGot, Consume, Goto
    <3>2. \A j \in 1..Len(buffer) : FALSE
      BY <3>1
    <3> QED BY <1>1, <2>2, <3>1, <3>2, ValueUntouched
  <2>3. CASE /\ c = None \/ (~StartsNumber /\ ~Skips)
             /\ Return(0) /\ UNCHANGED <<inbox, taken, number, buffer>>
    <3>1. buffer = <<>> /\ result' = 0
      BY <1>6, <2>3 DEF SkipGot, Return
    <3>2. Number(buffer, call.ignore) = 0
      BY <3>1, NumberOfNothing
    <3>3. value = 0 /\ isNegative = FALSE
      <4>1. isNegative \in BOOLEAN
        BY DEF TypeInv, TypeOK, NumberOK
      <4>2. value = 0
        BY <1>1, <3>2, Numbers DEF ValueInv
      <4>3. ~isNegative
        BY <1>1, <3>1 DEF ValueInv
      <4> QED BY <4>1, <4>2, <4>3
    <3>4. result' = IF isNegative THEN -value ELSE value
      BY <3>1, <3>3
    <3>5. taken' = taken /\ UNCHANGED <<number, buffer>>
      BY <2>3
    <3> QED BY <1>1, <1>4, <3>4, <3>5, ValueUntouched
  <2> QED BY <1>6, <2>1, <2>2, <2>3 DEF SkipGot
<1>7. CASE ParseGot
  <2>1. CASE Continues /\ Account /\ Consume /\ buffer' = Append(buffer, c)
    BY <1>5, <2>1 DEF Continues
  <2>2. CASE /\ ~Continues /\ Return(IF isNegative THEN -value ELSE value)
             /\ UNCHANGED <<inbox, taken, number, buffer>>
    <3>1. result' = IF isNegative THEN -value ELSE value
      BY <2>2 DEF Return
    <3>2. taken' = taken /\ UNCHANGED <<number, buffer>>
      BY <2>2
    <3> QED BY <1>1, <1>4, <3>1, <3>2, ValueUntouched
  <2> QED BY <1>7, <2>1, <2>2 DEF ParseGot
<1> QED
  BY <1>6, <1>7

LEMMA ValueStep ==
  ASSUME TypeInv, ExtentInv, ValueInv, [Next]_vars
  PROVE  ValueInv'
<1>1. Parsing => \A j \in 1..Len(buffer) : buffer[j] = taken[Len(taken) - Len(buffer) + j]
  BY DEF ValueInv, Skipped
<1>2. CASE (\E ch \in Char : Arrive(ch)) \/ Tick \/ UNCHANGED vars
  <2>1. UNCHANGED <<call, number, buffer, taken, pc, result>>
    BY <1>2 DEF Arrive, Tick, vars
  <2>2. taken' = taken /\ pc' = pc /\ result' = result
    BY <2>1
  <2>3. Parsing /\ pc' = "idle" => result' = IF isNegative THEN -value ELSE value
    BY <2>2 DEF ValueInv
  <2> QED BY <1>1, <2>1, <2>2, <2>3, ValueUntouched
<1>3. ASSUME NEW cl \in Calls, Begin(cl)
      PROVE  ValueInv'
  <2>1. /\ taken' = <<>> /\ buffer' = <<>> /\ value' = 0 /\ isNegative' = FALSE /\ call' = cl
        /\ cl.kind = "parse" => pc' = "start"
    BY <1>3 DEF Begin, Goto
  <2>2. \A j \in 1..Len(<<>>) : FALSE
    OBVIOUS
  <2>3. Number(buffer', cl.ignore) = 0
    BY <2>1, NumberOfNothing
  <2> QED BY <2>1, <2>2, <2>3 DEF ValueInv, Parsing
<1>4. CASE TimedStart \/ TimedPoll \/ TimedCheck
  <2>1. UNCHANGED <<call, number, buffer>> /\ pc' # "idle"
    BY <1>4 DEF TimedStart, TimedPoll, TimedCheck, Goto
  <2>2. Parsing => taken' = taken
    BY <1>4 DEF TimedStart, TimedPoll, TimedCheck, Goto, Parsing, Peeks
  <2> QED BY <1>1, <2>1, <2>2, ValueUntouched
<1>5. CASE ReadGot \/ FindGot
  <2>1. call.kind # "parse" /\ call' = call
    BY <1>5 DEF ReadGot, FindGot
  <2> QED BY <2>1 DEF ValueInv, Parsing
<1>6. CASE SkipGot \/ ParseGot
  BY <1>6, ParseValueStep
<1> QED
  BY <1>2, <1>3, <1>4, <1>5, <1>6 DEF Next, Main

(* The number that was parsed is what NumberIn finds in what was taken. *)
LEMMA BufferIsNumber ==
  ASSUME TypeInv, ExtentInv, ValueInv, Parsing
  PROVE  NumberIn(taken) = buffer
<1>1. PICK s : s = taken
  OBVIOUS
<1>2. PICK b : b = buffer
  OBVIOUS
<1>3. /\ s \in Seq(Char) /\ b \in Seq(Char) /\ Len(s) \in Nat /\ Len(b) \in Nat
      /\ Len(b) <= Len(s)
  BY <1>1, <1>2 DEF TypeInv, TypeOK, TextOK, ExtentInv
<1>4. PICK k : k = Len(s) - Len(b)
  OBVIOUS
<1>5. k \in 0..Len(s) /\ (k < Len(s) => b # <<>>) /\ Len(s) - k = Len(b)
  BY <1>3, <1>4
<1>6. /\ \A j \in 1..k : Skippable(s[j])
      /\ b # <<>> => s[k + 1] \in NumberStart
  BY <1>1, <1>2, <1>4 DEF ExtentInv, Skipped
<1>7. Len(NumberIn(s)) = Len(s) - k /\ \A j \in 1..(Len(s) - k) : NumberIn(s)[j] = s[k + j]
  BY <1>3, <1>5, <1>6, NumberIsEnd DEF Skippable
<1>8. \A j \in 1..Len(b) : b[j] = s[k + j]
  BY <1>1, <1>2, <1>4 DEF ValueInv, Skipped
<1>9. NumberIn(s) \in Seq(Char)
  <2> DEFINE starts == {i \in DOMAIN s : s[i] \in NumberStart}
  <2>1. NumberIn(s) = <<>> \/ \E i \in starts : NumberIn(s) = SubSeq(s, i, Len(s))
    <3>1. CASE starts = {}
      BY <3>1 DEF NumberIn
    <3>2. CASE starts # {}
      <4>1. starts \subseteq Nat
        BY <1>3
      <4>2. \E i \in starts : \A j \in starts : i <= j
        <5> HIDE DEF starts
        <5> QED BY <3>2, <4>1, LeastOf
      <4>3. Min(starts) \in starts
        <5> HIDE DEF starts
        <5> QED BY <4>2 DEF Min
      <4> QED BY <3>2, <4>3 DEF NumberIn
    <3> QED BY <3>1, <3>2
  <2>2. CASE NumberIn(s) = <<>>
    BY <2>2
  <2>3. ASSUME NEW i \in starts, NumberIn(s) = SubSeq(s, i, Len(s))
        PROVE  NumberIn(s) \in Seq(Char)
    <3>1. i \in 1..Len(s) /\ Len(s) \in 1..Len(s)
      BY <1>3
    <3>2. SubSeq(s, i, Len(s)) \in Seq(Char)
      BY <1>3, <3>1
    <3> QED BY <2>3, <3>2
  <2> HIDE DEF starts
  <2> QED BY <2>1, <2>2, <2>3
<1>10. PICK m \in Seq(Char) : m = NumberIn(s)
  BY <1>9
<1>11. Len(m) = Len(b) /\ \A j \in 1..Len(b) : m[j] = b[j]
  BY <1>5, <1>7, <1>8, <1>10
<1>12. m = b
  BY <1>3, <1>11, SeqEqual
<1> QED
  BY <1>1, <1>2, <1>10, <1>12

(* parseInt() and parseFloat() return the number that stands behind what   *)
(* they skip, with its sign and without the ignored character, if it fits  *)
(* a long, and leave what ended it in the port.                            *)
THEOREM ParsesNumberRight == Spec => []ParsesNumber
<1>1. Init => ExtentInv /\ ValueInv
  BY DEF Init, ExtentInv, ValueInv, Parsing
<1>2. TypeInv /\ ExtentInv /\ [Next]_vars => ExtentInv'
  BY ExtentStep
<1>3. TypeInv /\ ExtentInv /\ ValueInv /\ [Next]_vars => ValueInv'
  BY ValueStep
<1>4. TypeInv /\ ExtentInv /\ ValueInv => ParsesNumber
  <2> SUFFICES ASSUME TypeInv, ExtentInv, ValueInv, Returned("parse")
               PROVE  ParsedExtent /\ ParsedValue
    BY DEF ParsesNumber
  <2>1. ParsedExtent
    BY ExtentMeans
  <2>2. Parsing /\ pc = "idle"
    BY DEF Returned, Parsing
  <2>3. NumberIn(taken) = buffer
    BY <2>2, BufferIsNumber
  <2>4. ValueOf(buffer) = Number(buffer, call.ignore)
    BY DEF ValueOf, Number
  <2>5. ParsedValue
    BY <2>2, <2>3, <2>4 DEF ParsedValue, ValueInv
  <2> QED BY <2>1, <2>5
<1> QED
  BY <1>1, <1>2, <1>3, <1>4, TypeInvariant, PTL DEF Spec

-----------------------------------------------------------------------------
(* class String (core/WString.cpp)                                         *)

(* The places of a text, seen from each of which replace() goes on. *)
LEMMA Places ==
  ASSUME NEW S, NEW text \in Seq(S), NEW find \in Seq(S), find # <<>>
  PROVE  /\ Len(text) \in Nat /\ Len(find) \in Nat \ {0}
         /\ \A i \in 1..Len(text) : /\ i + Len(find) \in 1..(Len(text) + Len(find))
                                    /\ i + 1 \in 1..(Len(text) + Len(find))
                                    /\ i + 1 \in 1..(Len(text) + 1)
<1>1. Len(text) \in Nat /\ Len(find) \in Nat \ {0}
  BY EmptySeq, LenProperties
<1> QED
  BY <1>1

(* One step of the replacement from left to right, of the count, and of the *)
(* replacement from right to left.                                         *)
LeftStep(text, find, with, g, i) ==
  IF i > Len(text) THEN <<>>
  ELSE IF At(text, i, find) THEN with \o g[i + Len(find)]
  ELSE <<text[i]>> \o g[i + 1]
CountStep(text, find, g, i) ==
  IF i > Len(text) THEN 0
  ELSE IF At(text, i, find) THEN 1 + g[i + Len(find)]
  ELSE g[i + 1]
RightStep(text, find, with, g, i) ==
  IF i > Len(text) THEN text
  ELSE IF At(g[i + 1], i, find) THEN Splice(g[i + 1], i, find, with)
  ELSE g[i + 1]

(* The texts that from gives for each place: the rest of the text, replaced. *)
Replaced(S, text, find, with, from) ==
  /\ from \in [1..(Len(text) + Len(find)) -> Seq(S)]
  /\ \A i \in 1..(Len(text) + Len(find)) : from[i] = LeftStep(text, find, with, from, i)

(* How many characters each place counts, and the text as it is when the    *)
(* replacement from the right has passed a place *)
Counted(text, find, left) ==
  /\ left \in [1..(Len(text) + Len(find)) -> Nat]
  /\ \A i \in 1..(Len(text) + Len(find)) : left[i] = CountStep(text, find, left, i)

FromRight(S, text, find, with, to) ==
  /\ to \in [1..(Len(text) + 1) -> Seq(S)]
  /\ \A i \in 1..(Len(text) + 1) : to[i] = RightStep(text, find, with, to, i)

(* The functions that ReplaceLeft, SizeNeeded and ReplaceRight recur with   *)
(* are there, and are what their equations say.                            *)
LEMMA ReplaceLeftIs ==
  ASSUME NEW S, NEW text \in Seq(S), NEW find \in Seq(S), find # <<>>, NEW with \in Seq(S)
  PROVE  \E from : /\ Replaced(S, text, find, with, from)
                    /\ ReplaceLeft(text, find, with) = from[1]
<1>1. PICK M : M = Len(text) + Len(find)
  OBVIOUS
<1>2. PICK V : V = Seq(S)
  OBVIOUS
<1>3. M \in Nat /\ V # {} /\ 1 \in 1..M
  BY <1>1, <1>2, Places
<1> DEFINE G == [g \in [1..M -> V] |-> [i \in 1..M |-> LeftStep(text, find, with, g, i)]]
<1>4. ASSUME NEW g \in [1..M -> V], NEW i \in 1..M
      PROVE  LeftStep(text, find, with, g, i) \in V
  <2>1. CASE i > Len(text)
    <3>1. <<>> \in V
      BY <1>2
    <3> QED BY <2>1, <3>1 DEF LeftStep
  <2>2. CASE ~(i > Len(text))
    <3>1. i \in 1..Len(text)
      BY <2>2, Places
    <3>2. i + Len(find) \in 1..M /\ i + 1 \in 1..M
      BY <1>1, <3>1, Places
    <3>3. g[i + Len(find)] \in V /\ g[i + 1] \in V
      BY <3>2
    <3>4. text[i] \in S
      BY <3>1
    <3>5. with \o g[i + Len(find)] \in V
      BY <1>2, <3>3, ConcatProperties
    <3>6. <<text[i]>> \o g[i + 1] \in V
      <4>1. <<text[i]>> \in Seq(S)
        BY <3>4
      <4> QED BY <1>2, <3>3, <4>1, ConcatProperties
    <3> QED BY <2>2, <3>5, <3>6 DEF LeftStep
  <2> QED BY <2>1, <2>2
<1>5. ASSUME NEW g, NEW h, NEW i \in 1..M, \A j \in 1..M : j > i => g[j] = h[j]
      PROVE  LeftStep(text, find, with, g, i) = LeftStep(text, find, with, h, i)
  <2>1. CASE i > Len(text)
    BY <2>1 DEF LeftStep
  <2>2. CASE ~(i > Len(text))
    <3>1. i \in 1..Len(text)
      BY <2>2, Places
    <3>2. i + Len(find) \in 1..M /\ i + 1 \in 1..M /\ i + Len(find) > i /\ i + 1 > i
      BY <1>1, <3>1, Places
    <3>3. g[i + Len(find)] = h[i + Len(find)] /\ g[i + 1] = h[i + 1]
      BY <1>5, <3>2
    <3> QED BY <2>2, <3>3 DEF LeftStep
  <2> QED BY <2>1, <2>2
<1>6. FromEnd(M, V, G)
  <2>1. G \in [[1..M -> V] -> [1..M -> V]]
    BY <1>4
  <2>2. \A g, h \in [1..M -> V] : \A k \in 1..M :
          (\A j \in 1..M : j > k => g[j] = h[j]) => G[g][k] = G[h][k]
    <3> SUFFICES ASSUME NEW g \in [1..M -> V], NEW h \in [1..M -> V], NEW k \in 1..M,
                        \A j \in 1..M : j > k => g[j] = h[j]
                 PROVE  G[g][k] = G[h][k]
      OBVIOUS
    <3>1. LeftStep(text, find, with, g, k) = LeftStep(text, find, with, h, k)
      BY <1>5
    <3>2. G[g][k] = LeftStep(text, find, with, g, k) /\ G[h][k] = LeftStep(text, find, with, h, k)
      OBVIOUS
    <3> HIDE DEF G
    <3> QED BY <3>1, <3>2
  <2> HIDE DEF G
  <2> QED BY <2>1, <2>2 DEF FromEnd
<1>7. Solved(1..M, V, G)
  <2> HIDE DEF G
  <2> QED BY <1>3, <1>6, RecursionFromEnd
<1>8. PICK f \in [1..M -> V] : f = [i \in 1..M |-> LeftStep(text, find, with, f, i)]
  BY <1>7 DEF Solved
<1>9. PICK from : from = CHOOSE g : g = [i \in 1..M |-> LeftStep(text, find, with, g, i)]
  OBVIOUS
<1>10. from = [i \in 1..M |-> LeftStep(text, find, with, from, i)]
  BY <1>8, <1>9
<1>11. ReplaceLeft(text, find, with) = from[1]
  BY <1>1, <1>9 DEF ReplaceLeft, LeftStep
<1>12. /\ \A i \in 1..M : from[i] = LeftStep(text, find, with, from, i)
       /\ \A i \in 1..M : f[i] = LeftStep(text, find, with, f, i)
  BY <1>8, <1>10
<1>13. ASSUME NEW i \in 1..M, \A j \in 1..M : j > i => from[j] = f[j]
       PROVE  from[i] = f[i]
  BY <1>5, <1>12, <1>13
<1>14. \A i \in 1..M : from[i] = f[i]
  <2>1. AlikeFromEnd(M, from, f)
    BY <1>13 DEF AlikeFromEnd
  <2> QED BY <1>3, <2>1, SameFromEnd
<1>15. from = [i \in 1..M |-> f[i]]
  BY <1>10, <1>12, <1>14
<1>16. from \in [1..M -> V]
  BY <1>15
<1>17. Replaced(S, text, find, with, from)
  BY <1>1, <1>2, <1>12, <1>16 DEF Replaced
<1> QED
  BY <1>11, <1>17

LEMMA SizeNeededIs ==
  ASSUME NEW S, NEW text \in Seq(S), NEW find \in Seq(S), find # <<>>
  PROVE  \E left : /\ Counted(text, find, left)
                    /\ \A r, with : r.text = text =>
                         SizeNeeded(r, find, with) = r.len + left[1] * (Len(with) - Len(find))
<1>1. PICK M : M = Len(text) + Len(find)
  OBVIOUS
<1>2. M \in Nat /\ Nat # {} /\ 1 \in 1..M
  BY <1>1, Places
<1> DEFINE G == [g \in [1..M -> Nat] |-> [i \in 1..M |-> CountStep(text, find, g, i)]]
<1>3. ASSUME NEW i \in 1..M, ~(i > Len(text))
      PROVE  i + Len(find) \in 1..M /\ i + 1 \in 1..M /\ i + Len(find) > i /\ i + 1 > i
  <2>1. i \in 1..Len(text)
    BY <1>3, Places
  <2> QED BY <1>1, <2>1, Places
<1>4. ASSUME NEW g \in [1..M -> Nat], NEW i \in 1..M
      PROVE  CountStep(text, find, g, i) \in Nat
  <2>1. CASE i > Len(text)
    BY <2>1 DEF CountStep
  <2>2. CASE ~(i > Len(text))
    <3>1. g[i + Len(find)] \in Nat /\ g[i + 1] \in Nat
      BY <1>3, <2>2
    <3>2. 1 + g[i + Len(find)] \in Nat
      BY <3>1
    <3> QED BY <2>2, <3>1, <3>2 DEF CountStep
  <2> QED BY <2>1, <2>2
<1>5. ASSUME NEW g, NEW h, NEW i \in 1..M, \A j \in 1..M : j > i => g[j] = h[j]
      PROVE  CountStep(text, find, g, i) = CountStep(text, find, h, i)
  <2>1. CASE i > Len(text)
    BY <2>1 DEF CountStep
  <2>2. CASE ~(i > Len(text))
    <3>1. g[i + Len(find)] = h[i + Len(find)] /\ g[i + 1] = h[i + 1]
      BY <1>3, <1>5, <2>2
    <3> QED BY <2>2, <3>1 DEF CountStep
  <2> QED BY <2>1, <2>2
<1>6. FromEnd(M, Nat, G)
  <2>1. G \in [[1..M -> Nat] -> [1..M -> Nat]]
    BY <1>4
  <2>2. \A g, h \in [1..M -> Nat] : \A k \in 1..M :
          (\A j \in 1..M : j > k => g[j] = h[j]) => G[g][k] = G[h][k]
    <3> SUFFICES ASSUME NEW g \in [1..M -> Nat], NEW h \in [1..M -> Nat], NEW k \in 1..M,
                        \A j \in 1..M : j > k => g[j] = h[j]
                 PROVE  G[g][k] = G[h][k]
      OBVIOUS
    <3>1. CountStep(text, find, g, k) = CountStep(text, find, h, k)
      BY <1>5
    <3>2. G[g][k] = CountStep(text, find, g, k) /\ G[h][k] = CountStep(text, find, h, k)
      OBVIOUS
    <3> HIDE DEF G
    <3> QED BY <3>1, <3>2
  <2> HIDE DEF G
  <2> QED BY <2>1, <2>2 DEF FromEnd
<1>7. Solved(1..M, Nat, G)
  <2> HIDE DEF G
  <2> QED BY <1>2, <1>6, RecursionFromEnd
<1>8. PICK f \in [1..M -> Nat] : f = [i \in 1..M |-> CountStep(text, find, f, i)]
  BY <1>7 DEF Solved
<1>9. PICK left : left = CHOOSE g : g = [i \in 1..M |-> CountStep(text, find, g, i)]
  OBVIOUS
<1>10. left = [i \in 1..M |-> CountStep(text, find, left, i)]
  BY <1>8, <1>9
<1>11. ASSUME NEW r, NEW with, r.text = text
       PROVE  SizeNeeded(r, find, with) = r.len + left[1] * (Len(with) - Len(find))
  BY <1>1, <1>9, <1>11 DEF SizeNeeded, CountStep
<1>12. /\ \A i \in 1..M : left[i] = CountStep(text, find, left, i)
       /\ \A i \in 1..M : f[i] = CountStep(text, find, f, i)
  BY <1>8, <1>10
<1>13. ASSUME NEW i \in 1..M, \A j \in 1..M : j > i => left[j] = f[j]
       PROVE  left[i] = f[i]
  BY <1>5, <1>12, <1>13
<1>14. \A i \in 1..M : left[i] = f[i]
  <2>1. AlikeFromEnd(M, left, f)
    BY <1>13 DEF AlikeFromEnd
  <2> QED BY <1>2, <2>1, SameFromEnd
<1>15. left = [i \in 1..M |-> f[i]]
  BY <1>10, <1>12, <1>14
<1>16. left \in [1..M -> Nat]
  BY <1>15
<1>17. Counted(text, find, left)
  BY <1>1, <1>12, <1>16 DEF Counted
<1> QED
  BY <1>11, <1>17

(* A replacement is one where find stands: the rest is kept. *)
LEMMA SpliceIs ==
  ASSUME NEW S, NEW text \in Seq(S), NEW find \in Seq(S), NEW with \in Seq(S),
         NEW i \in Nat \ {0}, At(text, i, find)
  PROVE  /\ Splice(text, i, find, with) \in Seq(S)
         /\ SubSeq(text, 1, i - 1) \in Seq(S) /\ Len(SubSeq(text, 1, i - 1)) = i - 1
         /\ SubSeq(text, i + Len(find), Len(text)) \in Seq(S)
         /\ Len(SubSeq(text, i + Len(find), Len(text))) = Len(text) - (i + Len(find)) + 1
<1>1. i + Len(find) - 1 <= Len(text) /\ Len(find) \in Nat /\ Len(text) \in Nat
  BY DEF At
<1> DEFINE l == SubSeq(text, 1, i - 1)
           r == SubSeq(text, i + Len(find), Len(text))
<1>2. l \in Seq(S) /\ Len(l) = i - 1
  BY <1>1
<1>3. r \in Seq(S) /\ Len(r) = Len(text) - (i + Len(find)) + 1
  BY <1>1
<1>4. l \o with \o r \in Seq(S)
  <2> HIDE DEF l, r
  <2> QED BY <1>2, <1>3, ConcatProperties
<1> QED
  BY <1>2, <1>3, <1>4 DEF Splice

LEMMA ReplaceRightIs ==
  ASSUME NEW S, NEW text \in Seq(S), NEW find \in Seq(S), NEW with \in Seq(S)
  PROVE  \E to : FromRight(S, text, find, with, to) /\ ReplaceRight(text, find, with) = to[1]
<1>1. PICK M : M = Len(text) + 1
  OBVIOUS
<1>2. PICK V : V = Seq(S)
  OBVIOUS
<1>3. M \in Nat /\ V # {} /\ 1 \in 1..M
  <2>1. Len(text) \in Nat
    BY LenProperties
  <2> QED BY <1>1, <1>2, <2>1
<1> DEFINE G == [g \in [1..M -> V] |-> [i \in 1..M |-> RightStep(text, find, with, g, i)]]
<1>4. ASSUME NEW i \in 1..M, ~(i > Len(text))
      PROVE  i + 1 \in 1..M /\ i + 1 > i /\ i \in Nat \ {0}
  BY <1>1, <1>4, LenProperties
<1>5. ASSUME NEW g \in [1..M -> V], NEW i \in 1..M
      PROVE  RightStep(text, find, with, g, i) \in V
  <2>1. CASE i > Len(text)
    BY <1>2, <2>1 DEF RightStep
  <2>2. CASE ~(i > Len(text))
    <3>1. g[i + 1] \in V /\ i \in Nat \ {0}
      BY <1>4, <2>2
    <3>2. At(g[i + 1], i, find) => Splice(g[i + 1], i, find, with) \in V
      BY <1>2, <3>1, SpliceIs
    <3> QED BY <2>2, <3>1, <3>2 DEF RightStep
  <2> QED BY <2>1, <2>2
<1>6. ASSUME NEW g, NEW h, NEW i \in 1..M, \A j \in 1..M : j > i => g[j] = h[j]
      PROVE  RightStep(text, find, with, g, i) = RightStep(text, find, with, h, i)
  <2>1. CASE i > Len(text)
    BY <2>1 DEF RightStep
  <2>2. CASE ~(i > Len(text))
    <3>1. g[i + 1] = h[i + 1]
      BY <1>4, <1>6, <2>2
    <3> QED BY <2>2, <3>1 DEF RightStep
  <2> QED BY <2>1, <2>2
<1>7. FromEnd(M, V, G)
  <2>1. G \in [[1..M -> V] -> [1..M -> V]]
    BY <1>5
  <2>2. \A g, h \in [1..M -> V] : \A k \in 1..M :
          (\A j \in 1..M : j > k => g[j] = h[j]) => G[g][k] = G[h][k]
    <3> SUFFICES ASSUME NEW g \in [1..M -> V], NEW h \in [1..M -> V], NEW k \in 1..M,
                        \A j \in 1..M : j > k => g[j] = h[j]
                 PROVE  G[g][k] = G[h][k]
      OBVIOUS
    <3>1. RightStep(text, find, with, g, k) = RightStep(text, find, with, h, k)
      BY <1>6
    <3>2. G[g][k] = RightStep(text, find, with, g, k) /\ G[h][k] = RightStep(text, find, with, h, k)
      OBVIOUS
    <3> HIDE DEF G
    <3> QED BY <3>1, <3>2
  <2> HIDE DEF G
  <2> QED BY <2>1, <2>2 DEF FromEnd
<1>8. Solved(1..M, V, G)
  <2> HIDE DEF G
  <2> QED BY <1>3, <1>7, RecursionFromEnd
<1>9. PICK f \in [1..M -> V] : f = [i \in 1..M |-> RightStep(text, find, with, f, i)]
  BY <1>8 DEF Solved
<1>10. PICK to : to = CHOOSE g : g = [i \in 1..M |-> RightStep(text, find, with, g, i)]
  OBVIOUS
<1>11. to = [i \in 1..M |-> RightStep(text, find, with, to, i)]
  BY <1>9, <1>10
<1>12. ReplaceRight(text, find, with) = to[1]
  BY <1>1, <1>10 DEF ReplaceRight, RightStep
<1>13. /\ \A i \in 1..M : to[i] = RightStep(text, find, with, to, i)
       /\ \A i \in 1..M : f[i] = RightStep(text, find, with, f, i)
  BY <1>9, <1>11
<1>14. ASSUME NEW i \in 1..M, \A j \in 1..M : j > i => to[j] = f[j]
       PROVE  to[i] = f[i]
  BY <1>6, <1>13, <1>14
<1>15. \A i \in 1..M : to[i] = f[i]
  <2>1. AlikeFromEnd(M, to, f)
    BY <1>14 DEF AlikeFromEnd
  <2> QED BY <1>3, <2>1, SameFromEnd
<1>16. to = [i \in 1..M |-> f[i]]
  BY <1>11, <1>13, <1>15
<1>17. to \in [1..M -> V]
  BY <1>16
<1>18. FromRight(S, text, find, with, to)
  BY <1>1, <1>2, <1>13, <1>17 DEF FromRight
<1> QED
  BY <1>12, <1>18

(* The characters of two texts, one behind the other *)
LEMMA TwoTexts ==
  ASSUME NEW S, NEW s \in Seq(S), NEW t \in Seq(S)
  PROVE  /\ s \o t \in Seq(S) /\ Len(s) \in Nat /\ Len(t) \in Nat
         /\ Len(s \o t) = Len(s) + Len(t)
         /\ \A k \in 1..Len(s) : (s \o t)[k] = s[k]
         /\ \A k \in 1..Len(t) : (s \o t)[Len(s) + k] = t[k]
<1>1. /\ s \o t \in Seq(S) /\ Len(s) \in Nat /\ Len(t) \in Nat
      /\ Len(s \o t) = Len(s) + Len(t)
      /\ \A i \in 1..(Len(s) + Len(t)) : (s \o t)[i] = IF i <= Len(s) THEN s[i] ELSE t[i - Len(s)]
  BY ConcatProperties, LenProperties
<1>2. ASSUME NEW k \in 1..Len(s) PROVE (s \o t)[k] = s[k]
  <2>1. k \in 1..(Len(s) + Len(t)) /\ k <= Len(s)
    BY <1>1
  <2> QED BY <1>1, <2>1
<1>3. ASSUME NEW k \in 1..Len(t) PROVE (s \o t)[Len(s) + k] = t[k]
  <2>1. /\ Len(s) + k \in 1..(Len(s) + Len(t)) /\ ~(Len(s) + k <= Len(s))
        /\ (Len(s) + k) - Len(s) = k
    BY <1>1
  <2> QED BY <1>1, <2>1
<1> QED BY <1>1, <1>2, <1>3

LEMMA PastTheEnd ==
  ASSUME NEW S, NEW text \in Seq(S), NEW find \in Seq(S), NEW with, NEW from,
         Replaced(S, text, find, with, from),
         NEW i \in 1..(Len(text) + Len(find)), i > Len(text)
  PROVE  from[i] = <<>>
BY DEF Replaced, LeftStep

LEMMA NotFound ==
  ASSUME NEW S, NEW text \in Seq(S), NEW find \in Seq(S), find # <<>>, NEW with, NEW from,
         Replaced(S, text, find, with, from), NEW i \in 1..Len(text), ~At(text, i, find)
  PROVE  /\ from[i + 1] \in Seq(S) /\ from[i] = <<text[i]>> \o from[i + 1]
         /\ Len(from[i + 1]) \in Nat /\ Len(from[i]) = 1 + Len(from[i + 1])
         /\ from[i][1] = text[i]
         /\ \A k \in 1..Len(from[i + 1]) : from[i][1 + k] = from[i + 1][k]
<1>1. i + 1 \in 1..(Len(text) + Len(find)) /\ i \in 1..(Len(text) + Len(find)) /\ ~(i > Len(text))
  BY Places
<1>2. from[i + 1] \in Seq(S) /\ from[i] = <<text[i]>> \o from[i + 1]
  BY <1>1 DEF Replaced, LeftStep
<1>3. PICK s : s = <<text[i]>>
  OBVIOUS
<1>4. s \in Seq(S) /\ Len(s) = 1 /\ s[1] = text[i] /\ 1 \in 1..Len(s)
  BY <1>3
<1>5. PICK t \in Seq(S) : t = from[i + 1]
  BY <1>2
<1>6. PICK w : w = from[i]
  OBVIOUS
<1>7. w = s \o t
  BY <1>2, <1>3, <1>5, <1>6
<1>8. /\ Len(t) \in Nat /\ Len(w) = 1 + Len(t) /\ w[1] = text[i]
      /\ \A k \in 1..Len(t) : w[1 + k] = t[k]
  <2>1. /\ Len(t) \in Nat /\ Len(s \o t) = Len(s) + Len(t)
        /\ \A k \in 1..Len(s) : (s \o t)[k] = s[k]
        /\ \A k \in 1..Len(t) : (s \o t)[Len(s) + k] = t[k]
    <3>1. s \in Seq(S)
      BY <1>4
    <3> QED BY <3>1, TwoTexts
  <2>2. w[1] = s[1]
    BY <1>4, <1>7, <2>1
  <2>3. \A k \in 1..Len(t) : w[1 + k] = t[k]
    BY <1>4, <1>7, <2>1
  <2> QED BY <1>4, <1>7, <2>1, <2>2, <2>3
<1> QED BY <1>2, <1>5, <1>6, <1>8

LEMMA Found ==
  ASSUME NEW S, NEW text \in Seq(S), NEW find \in Seq(S), find # <<>>, NEW with \in Seq(S),
         NEW from, Replaced(S, text, find, with, from), NEW i \in 1..Len(text), At(text, i, find)
  PROVE  /\ i + Len(find) \in 1..(Len(text) + Len(find))
         /\ from[i + Len(find)] \in Seq(S) /\ from[i] = with \o from[i + Len(find)]
         /\ Len(with) \in Nat /\ Len(from[i + Len(find)]) \in Nat
         /\ Len(from[i]) = Len(with) + Len(from[i + Len(find)])
         /\ \A k \in 1..Len(with) : from[i][k] = with[k]
<1>1. /\ i + Len(find) \in 1..(Len(text) + Len(find)) /\ i \in 1..(Len(text) + Len(find))
      /\ ~(i > Len(text))
  BY Places
<1>2. from[i + Len(find)] \in Seq(S) /\ from[i] = with \o from[i + Len(find)]
  BY <1>1 DEF Replaced, LeftStep
<1>3. PICK t \in Seq(S) : t = from[i + Len(find)]
  BY <1>2
<1>4. PICK w : w = from[i]
  OBVIOUS
<1>5. w = with \o t
  BY <1>2, <1>3, <1>4
<1>6. /\ Len(with) \in Nat /\ Len(t) \in Nat /\ Len(w) = Len(with) + Len(t)
      /\ \A k \in 1..Len(with) : w[k] = with[k]
  BY <1>5, TwoTexts
<1> QED BY <1>1, <1>2, <1>3, <1>4, <1>6

(* Where find stands, the characters are its. *)
Stands(text, i, find) ==
  /\ i + Len(find) - 1 <= Len(text)
  /\ \A k \in 1..Len(find) : text[i + k - 1] = find[k]

LEMMA AtIs ==
  ASSUME NEW S, NEW text \in Seq(S), NEW find \in Seq(S), NEW i \in Nat \ {0}
  PROVE  At(text, i, find) <=> Stands(text, i, find)
<1>1. Len(text) \in Nat /\ Len(find) \in Nat
  BY LenProperties
<1>2. ASSUME i + Len(find) - 1 <= Len(text)
      PROVE  /\ SubSeq(text, i, i + Len(find) - 1) \in Seq(S)
             /\ Len(SubSeq(text, i, i + Len(find) - 1)) = Len(find)
             /\ \A k \in 1..Len(find) : SubSeq(text, i, i + Len(find) - 1)[k] = text[i + k - 1]
  BY <1>1, <1>2
<1>3. ASSUME i + Len(find) - 1 <= Len(text)
      PROVE  SubSeq(text, i, i + Len(find) - 1) = find
               <=> \A k \in 1..Len(find) : text[i + k - 1] = find[k]
  <2>1. PICK cp : cp = SubSeq(text, i, i + Len(find) - 1)
    OBVIOUS
  <2>2. cp \in Seq(S) /\ Len(cp) = Len(find) /\ \A k \in 1..Len(find) : cp[k] = text[i + k - 1]
    BY <1>2, <1>3, <2>1
  <2>3. (\A k \in 1..Len(find) : cp[k] = find[k]) => cp = find
    BY <2>2, SeqEqual
  <2> QED BY <2>1, <2>2, <2>3
<1> QED BY <1>3 DEF At, Stands

LEMMA FirstOf ==
  ASSUME NEW S, NEW text \in Seq(S), NEW i \in 1..Len(text), NEW j \in i..Len(text)
  PROVE  /\ SubSeq(text, i, j) = <<text[i]>> \o SubSeq(text, i + 1, j)
         /\ <<text[i]>> \in Seq(S) /\ SubSeq(text, i + 1, j) \in Seq(S)
<1>1. Len(text) \in Nat
  BY LenProperties
<1>2. i \in 1..(Len(text) + 1) /\ i \in (i - 1)..Len(text)
  BY <1>1
<1>3. SubSeq(text, i, i) \o SubSeq(text, i + 1, j) = SubSeq(text, i, j)
  BY <1>1, <1>2, ConcatAdjacentSubSeq
<1>4. <<text[i]>> \in Seq(S)
  OBVIOUS
<1>5. SubSeq(text, i, i) = <<text[i]>>
  <2>1. PICK cp : cp = SubSeq(text, i, i)
    OBVIOUS
  <2>2. PICK d : d = <<text[i]>>
    OBVIOUS
  <2>3. cp \in Seq(S) /\ Len(cp) = 1 /\ cp[1] = text[i]
    BY <1>1, <2>1
  <2>4. d \in Seq(S) /\ Len(d) = 1 /\ d[1] = text[i]
    BY <1>4, <2>2
  <2>5. cp = d
    BY <2>3, <2>4, SeqEqual
  <2> QED BY <2>1, <2>2, <2>5
<1>6. SubSeq(text, i + 1, j) \in Seq(S)
  BY <1>1
<1> QED BY <1>3, <1>4, <1>5, <1>6

LEMMA EndsDiffer ==
  ASSUME NEW S, NEW s \in Seq(S), NEW t \in Seq(S), ~SameEnds(s, t),
         NEW n \in 1..(Len(t) - 1), n <= Len(s)
  PROVE  \E k \in 1..n : s[k] # t[Len(t) - n + k]
<1>1. Len(s) \in Nat /\ Len(t) \in Nat
  BY LenProperties
<1>2. PICK cp : cp = SubSeq(s, 1, n)
  OBVIOUS
<1>3. PICK d : d = SubSeq(t, Len(t) - n + 1, Len(t))
  OBVIOUS
<1>4. cp # d
  BY <1>2, <1>3 DEF SameEnds
<1>5. cp \in Seq(S) /\ Len(cp) = n /\ \A k \in 1..n : cp[k] = s[k]
  BY <1>1, <1>2
<1>6. d \in Seq(S) /\ Len(d) = n /\ \A k \in 1..n : d[k] = t[Len(t) - n + k]
  BY <1>1, <1>3
<1>7. ~(\A k \in 1..n : cp[k] = d[k])
  BY <1>4, <1>5, <1>6, SeqEqual
<1> QED BY <1>5, <1>6, <1>7

(* A text that begins like an end of find, and that end at a place of text. *)
EndBegins(t, find, n) ==
  n <= Len(t) /\ \A k \in 1..n : t[k] = find[Len(find) - n + k]
EndStands(text, find, i, n) ==
  /\ n = 0 \/ i + n - 1 <= Len(text)
  /\ \A k \in 1..n : text[i + k - 1] = find[Len(find) - n + k]

(* When no beginning of with is an end of find, the replaced rest begins    *)
(* like an end of find only where the text itself does.                    *)
LEMMA NoneMade ==
  ASSUME NEW S, NEW text \in Seq(S), NEW find \in Seq(S), find # <<>>, NEW with \in Seq(S),
         NEW from, Replaced(S, text, find, with, from),
         Len(with) > Len(find), ~SameEnds(with, find)
  PROVE  \A i \in 1..(Len(text) + Len(find)) : \A n \in 0..(Len(find) - 1) :
           EndBegins(from[i], find, n) => EndStands(text, find, i, n)
<1>1. PICK M : M = Len(text) + Len(find)
  OBVIOUS
<1>2. M \in Nat /\ Len(text) \in Nat /\ Len(find) \in Nat \ {0} /\ Len(with) \in Nat
  BY <1>1, Places, LenProperties
<1> DEFINE Good == {i \in 1..M : \A n \in 0..(Len(find) - 1) :
                      EndBegins(from[i], find, n) => EndStands(text, find, i, n)}
<1>3. ASSUME NEW i \in 1..M, \A j \in 1..M : j > i => j \in Good
      PROVE  i \in Good
  <2> SUFFICES ASSUME NEW n \in 0..(Len(find) - 1), EndBegins(from[i], find, n)
               PROVE  EndStands(text, find, i, n)
    OBVIOUS
  <2>1. CASE n = 0
    BY <2>1 DEF EndStands
  <2>2. CASE n # 0 /\ i > Len(text)
    <3>1. from[i] = <<>>
      BY <1>1, <2>2, PastTheEnd
    <3>2. Len(from[i]) = 0
      BY <3>1
    <3>3. n <= Len(from[i])
      BY DEF EndBegins
    <3> QED BY <1>2, <2>2, <3>2, <3>3
  <2>3. CASE n # 0 /\ ~(i > Len(text)) /\ At(text, i, find)
    <3>1. i \in 1..Len(text)
      BY <1>2, <2>3
    <3>2. \A k \in 1..Len(with) : from[i][k] = with[k]
      BY <2>3, <3>1, Found
    <3>3. n \in 1..(Len(find) - 1) /\ n <= Len(with)
      BY <1>2, <2>3
    <3>4. PICK k \in 1..n : with[k] # find[Len(find) - n + k]
      BY <3>3, EndsDiffer
    <3>5. k \in 1..Len(with)
      BY <1>2, <3>3
    <3>6. from[i][k] = find[Len(find) - n + k]
      BY DEF EndBegins
    <3> QED BY <3>2, <3>4, <3>5, <3>6
  <2>4. CASE n # 0 /\ ~(i > Len(text)) /\ ~At(text, i, find)
    <3>1. i \in 1..Len(text) /\ i + 1 \in 1..M /\ i + 1 > i
      <4>1. i \in 1..Len(text)
        BY <1>2, <2>4
      <4> QED BY <1>1, <1>2, <4>1
    <3>2. /\ Len(from[i + 1]) \in Nat /\ Len(from[i]) = 1 + Len(from[i + 1])
          /\ from[i][1] = text[i]
          /\ \A k \in 1..Len(from[i + 1]) : from[i][1 + k] = from[i + 1][k]
      <4> HIDE DEF Good
      <4>1. ~At(text, i, find) /\ i \in 1..Len(text)
        BY <2>4, <3>1
      <4>2. /\ from[i + 1] \in Seq(S) /\ from[i] = <<text[i]>> \o from[i + 1]
            /\ Len(from[i + 1]) \in Nat /\ Len(from[i]) = 1 + Len(from[i + 1])
            /\ from[i][1] = text[i]
            /\ \A k \in 1..Len(from[i + 1]) : from[i][1 + k] = from[i + 1][k]
        BY <4>1, NotFound
      <4> QED BY <4>2
    <3>3. n <= Len(from[i]) /\ \A k \in 1..n : from[i][k] = find[Len(find) - n + k]
      BY DEF EndBegins
    <3>4. PICK m : m = n - 1
      OBVIOUS
    <3>5. m \in 0..(Len(find) - 1) /\ n = m + 1 /\ m <= Len(from[i + 1])
      BY <1>2, <2>4, <3>2, <3>3, <3>4
    <3>6. ASSUME NEW k \in 1..m
          PROVE  from[i + 1][k] = find[Len(find) - m + k]
      <4>1. k \in 1..Len(from[i + 1])
        BY <3>2, <3>5
      <4>2. 1 + k \in 1..n /\ Len(find) - n + (1 + k) = Len(find) - m + k
        BY <1>2, <3>5
      <4>3. from[i][1 + k] = find[Len(find) - n + (1 + k)]
        BY <3>3, <4>2
      <4> QED BY <3>2, <4>1, <4>2, <4>3
    <3>7. EndBegins(from[i + 1], find, m)
      BY <3>5, <3>6 DEF EndBegins
    <3>8. EndStands(text, find, i + 1, m)
      BY <1>3, <3>1, <3>5, <3>7
    <3>9. /\ m = 0 \/ (i + 1) + m - 1 <= Len(text)
          /\ \A k \in 1..m : text[(i + 1) + k - 1] = find[Len(find) - m + k]
      BY <3>8 DEF EndStands
    <3>10. i + n - 1 <= Len(text)
      BY <1>2, <3>1, <3>5, <3>9
    <3>11. ASSUME NEW k \in 1..n
           PROVE  text[i + k - 1] = find[Len(find) - n + k]
      <4>1. CASE k = 1
        <5>1. i + k - 1 = i
          BY <3>1, <4>1
        <5> QED BY <3>2, <3>3, <4>1, <5>1
      <4>2. CASE k # 1
        <5>1. PICK l : l = k - 1
          OBVIOUS
        <5>2. /\ l \in 1..m /\ (i + 1) + l - 1 = i + k - 1
              /\ Len(find) - m + l = Len(find) - n + k
          BY <1>2, <3>1, <3>5, <4>2, <5>1
        <5> QED BY <3>9, <5>2
      <4> QED BY <4>1, <4>2
    <3> QED BY <3>10, <3>11 DEF EndStands
  <2> QED BY <2>1, <2>2, <2>3, <2>4
<1>4. \A i \in 1..M : i \in Good
  <2> HIDE DEF Good
  <2> QED BY <1>2, <1>3, InductionFromEnd
<1> QED BY <1>1, <1>4

(* When no beginning of find is an end of find, the characters of an        *)
(* occurrence behind its first are kept by a replacement that starts there. *)
KeptInside(text, find, from, i) ==
  \A k \in 1..Len(find) :
    from[i + k] = SubSeq(text, i + k, i + Len(find) - 1) \o from[i + Len(find)]

LEMMA InsideKept ==
  ASSUME NEW S, NEW text \in Seq(S), NEW find \in Seq(S), find # <<>>, NEW with \in Seq(S),
         NEW from, Replaced(S, text, find, with, from),
         NEW i \in 1..Len(text), At(text, i, find), ~SameEnds(find, find)
  PROVE  KeptInside(text, find, from, i)
<1>1. PICK F : F = Len(find)
  OBVIOUS
<1>2. F \in Nat /\ F # 0 /\ Len(text) \in Nat
  BY <1>1, Places
<1>3. PICK rest \in Seq(S) : rest = from[i + F]
  BY <1>1, Found
<1>4. /\ i + F - 1 <= Len(text)
      /\ \A k \in 1..F : text[i + k - 1] = find[k]
  BY <1>1, AtIs DEF Stands
<1> DEFINE Good == {k \in 1..F : from[i + k] = SubSeq(text, i + k, i + F - 1) \o rest}
<1>5. ASSUME NEW k \in 1..F, \A j \in 1..F : j > k => j \in Good
      PROVE  k \in Good
  <2>1. CASE k = F
    <3>1. SubSeq(text, i + F, i + F - 1) = <<>>
      BY <1>2, SubSeqEmpty
    <3>2. <<>> \o rest = rest
      BY ConcatEmptySeq
    <3> QED BY <1>3, <2>1, <3>1, <3>2
  <2>2. CASE k # F
    <3> DEFINE p == i + k
    <3>1. /\ p \in 1..Len(text) /\ k + 1 \in 1..F /\ k + 1 > k /\ i + (k + 1) = p + 1
          /\ i + F - 1 \in p..Len(text) /\ F - k \in 1..(F - 1) /\ p \in Nat \ {0}
      BY <1>2, <1>4, <2>2
    <3>2. ~At(text, p, find)
      <4> SUFFICES ASSUME At(text, p, find) PROVE FALSE
        OBVIOUS
      <4> HIDE DEF p
      <4>1. \A l \in 1..F : text[p + l - 1] = find[l]
        <5>1. p \in Nat \ {0}
          BY <3>1
        <5>2. Stands(text, p, find)
          BY <5>1, AtIs
        <5> QED BY <1>1, <5>2 DEF Stands
      <4>2. PICK l \in 1..(F - k) : find[l] # find[F - (F - k) + l]
        <5>1. PICK m : m = F - k
          OBVIOUS
        <5>2. m \in 1..(Len(find) - 1) /\ m <= Len(find)
          BY <1>1, <1>2, <3>1, <5>1
        <5>3. \E l \in 1..m : find[l] # find[Len(find) - m + l]
          BY <5>2, EndsDiffer
        <5> QED BY <1>1, <5>1, <5>3
      <4>3. /\ l \in 1..F /\ k + l \in 1..F /\ F - (F - k) + l = k + l
        BY <1>2, <4>2
      <4>4. p + l - 1 = i + (k + l) - 1
        BY <1>2, <4>3 DEF p
      <4>5. text[i + (k + l) - 1] = find[k + l]
        BY <1>4, <4>3
      <4>6. text[p + l - 1] = find[l]
        BY <4>1, <4>3
      <4> QED BY <4>2, <4>3, <4>4, <4>5, <4>6
    <3>3. from[p] = <<text[p]>> \o from[p + 1]
      <4> HIDE DEF p
      <4>1. p \in 1..Len(text)
        BY <3>1
      <4> QED BY <3>2, <4>1, NotFound
    <3>4. from[p + 1] = SubSeq(text, p + 1, i + F - 1) \o rest
      <4>1. k + 1 \in Good
        BY <1>5, <3>1
      <4>2. from[i + (k + 1)] = SubSeq(text, i + (k + 1), i + F - 1) \o rest
        BY <4>1
      <4> HIDE DEF p
      <4> QED BY <3>1, <4>2
    <3>5. /\ SubSeq(text, p, i + F - 1) = <<text[p]>> \o SubSeq(text, p + 1, i + F - 1)
          /\ <<text[p]>> \in Seq(S) /\ SubSeq(text, p + 1, i + F - 1) \in Seq(S)
      <4> HIDE DEF p
      <4> QED BY <3>1, FirstOf
    <3>6. Glued(<<text[p]>>, SubSeq(text, p + 1, i + F - 1), rest)
      <4> HIDE DEF p
      <4> QED BY <3>5, Glue
    <3>7. from[p] = SubSeq(text, p, i + F - 1) \o rest
      <4> HIDE DEF p
      <4> QED BY <3>3, <3>4, <3>5, <3>6 DEF Glued
    <3> QED BY <3>7
  <2> QED BY <2>1, <2>2
<1>6. \A k \in 1..F : k \in Good
  <2> HIDE DEF Good
  <2> QED BY <1>2, <1>5, InductionFromEnd
<1> QED BY <1>1, <1>3, <1>6 DEF KeptInside

(* The characters of a part of a text *)
LEMMA PartOf ==
  ASSUME NEW S, NEW text \in Seq(S), NEW i \in 1..(Len(text) + 1), NEW j \in (i - 1)..Len(text)
  PROVE  /\ SubSeq(text, i, j) \in Seq(S)
         /\ Len(SubSeq(text, i, j)) = j - i + 1
         /\ \A k \in 1..(j - i + 1) : SubSeq(text, i, j)[k] = text[i + k - 1]
<1>1. Len(text) \in Nat /\ i \in Int /\ j \in Int /\ j - i + 1 \in Nat
  BY LenProperties
<1>2. \A k \in i..j : text[k] \in S
  BY <1>1, ElementOfSeq
<1>3. /\ SubSeq(text, i, j) \in Seq(S)
      /\ Len(SubSeq(text, i, j)) = IF i <= j THEN j - i + 1 ELSE 0
      /\ \A k \in 1..(j - i + 1) : SubSeq(text, i, j)[k] = text[i + k - 1]
  BY <1>1, <1>2, SubSeqProperties
<1>4. (IF i <= j THEN j - i + 1 ELSE 0) = j - i + 1
  BY <1>1
<1> QED BY <1>3, <1>4

(* The text whose beginning is kept up to a place, and what a step of the   *)
(* replacement from the right makes of a text u at a place.                *)
Upto(u, text, i, rest) == u = SubSeq(text, 1, i) \o rest
BecomesAt(u, text, i, find, with, rest) ==
  /\ At(u, i, find)
  /\ Splice(u, i, find, with) = SubSeq(text, 1, i - 1) \o rest

(* What the replacement from the right does at an occurrence that is still  *)
(* there: it keeps what is before it and what is behind it.                *)
LEMMA SplicedAt ==
  ASSUME NEW S, NEW text \in Seq(S), NEW find \in Seq(S), find # <<>>, NEW with \in Seq(S),
         NEW rest \in Seq(S), NEW i \in 1..Len(text), At(text, i, find),
         NEW u, Upto(u, text, i + Len(find) - 1, rest)
  PROVE  BecomesAt(u, text, i, find, with, with \o rest)
<1>1. PICK F : F = Len(find)
  OBVIOUS
<1>2. F \in Nat /\ F # 0 /\ Len(text) \in Nat /\ i \in Nat \ {0}
  BY <1>1, Places
<1>3. /\ i + F - 1 <= Len(text)
      /\ \A k \in 1..F : text[i + k - 1] = find[k]
  BY <1>1, <1>2, AtIs DEF Stands
<1>4. PICK P : P = SubSeq(text, 1, i + F - 1)
  OBVIOUS
<1>5. P \in Seq(S) /\ Len(P) = i + F - 1 /\ \A k \in 1..(i + F - 1) : P[k] = text[k]
  <2>1. 1 \in 1..(Len(text) + 1) /\ i + F - 1 \in (1 - 1)..Len(text)
    BY <1>2, <1>3
  <2>2. PICK j : j = i + F - 1
    OBVIOUS
  <2>3. /\ P \in Seq(S) /\ Len(P) = j - 1 + 1
        /\ \A k \in 1..(j - 1 + 1) : P[k] = text[1 + k - 1]
    BY <1>4, <2>1, <2>2, PartOf
  <2>4. j - 1 + 1 = i + F - 1 /\ \A k \in 1..(i + F - 1) : 1 + k - 1 = k
    BY <1>2, <2>2
  <2> QED BY <2>3, <2>4
<1>6. u = P \o rest
  BY <1>1, <1>4 DEF Upto
<1>7. /\ u \in Seq(S) /\ Len(rest) \in Nat /\ Len(u) = (i + F - 1) + Len(rest)
      /\ \A k \in 1..(i + F - 1) : u[k] = P[k]
      /\ \A k \in 1..Len(rest) : u[(i + F - 1) + k] = rest[k]
  <2>1. P \in Seq(S)
    BY <1>5
  <2>2. /\ P \o rest \in Seq(S) /\ Len(rest) \in Nat
        /\ Len(P \o rest) = Len(P) + Len(rest)
        /\ \A k \in 1..Len(P) : (P \o rest)[k] = P[k]
        /\ \A k \in 1..Len(rest) : (P \o rest)[Len(P) + k] = rest[k]
    BY <2>1, TwoTexts
  <2>3. Len(P) = i + F - 1
    BY <1>5
  <2> QED BY <1>6, <2>2, <2>3
<1>8. At(u, i, find)
  <2>1. i + F - 1 <= Len(u)
    BY <1>2, <1>7
  <2>2. ASSUME NEW k \in 1..F PROVE u[i + k - 1] = find[k]
    <3>1. i + k - 1 \in 1..(i + F - 1)
      BY <1>2
    <3> QED BY <1>3, <1>5, <1>7, <3>1
  <2>3. u \in Seq(S)
    BY <1>7
  <2> QED BY <1>1, <1>2, <2>1, <2>2, <2>3, AtIs DEF Stands
<1>9. PICK a : a = SubSeq(text, 1, i - 1)
  OBVIOUS
<1>10. a \in Seq(S) /\ Len(a) = i - 1 /\ \A k \in 1..(i - 1) : a[k] = text[k]
  BY <1>2, <1>9
<1>11. SubSeq(u, 1, i - 1) = a
  <2>1. PICK cp : cp = SubSeq(u, 1, i - 1)
    OBVIOUS
  <2>2. i - 1 <= Len(u) /\ i - 1 \in Nat /\ u \in Seq(S)
    BY <1>2, <1>7
  <2>3. cp \in Seq(S) /\ Len(cp) = i - 1 /\ \A k \in 1..(i - 1) : cp[k] = u[k]
    BY <2>1, <2>2
  <2>4. ASSUME NEW k \in 1..(i - 1) PROVE cp[k] = a[k]
    <3>1. k \in 1..(i + F - 1)
      BY <1>2
    <3> QED BY <1>5, <1>7, <1>10, <2>3, <3>1
  <2>5. cp = a
    BY <1>10, <2>3, <2>4, SeqEqual
  <2> QED BY <2>1, <2>5
<1>12. SubSeq(u, i + F, Len(u)) = rest
  <2>1. PICK cp : cp = SubSeq(u, i + F, Len(u))
    OBVIOUS
  <2>2. u \in Seq(S) /\ Len(u) \in Nat /\ i + F \in 1..(Len(u) + 1) /\ Len(u) - (i + F) + 1 = Len(rest)
    BY <1>2, <1>7
  <2>3. cp \in Seq(S) /\ Len(cp) = Len(u) - (i + F) + 1
        /\ \A k \in 1..(Len(u) - (i + F) + 1) : cp[k] = u[(i + F) + k - 1]
    <3>1. Len(u) \in ((i + F) - 1)..Len(u)
      BY <2>2
    <3> QED BY <2>1, <2>2, <3>1, PartOf
  <2>4. ASSUME NEW k \in 1..Len(rest) PROVE cp[k] = rest[k]
    <3>1. (i + F) + k - 1 = (i + F - 1) + k
      BY <1>2
    <3> QED BY <1>7, <2>2, <2>3, <3>1
  <2>5. cp = rest
    BY <2>2, <2>3, <2>4, SeqEqual
  <2> QED BY <2>1, <2>5
<1>13. Glued(a, with, rest)
  BY <1>10, Glue
<1>14. Splice(u, i, find, with) = a \o with \o rest
  BY <1>1, <1>11, <1>12 DEF Splice
<1> QED BY <1>8, <1>9, <1>13, <1>14 DEF Glued, BecomesAt

(* Where find does not stand, it does not stand either once the rest has    *)
(* been replaced.                                                          *)
LEMMA NoneStands ==
  ASSUME NEW S, NEW text \in Seq(S), NEW find \in Seq(S), find # <<>>, NEW with \in Seq(S),
         NEW from, Replaced(S, text, find, with, from),
         Len(with) > Len(find), ~SameEnds(with, find),
         NEW i \in 1..Len(text), ~At(text, i, find),
         NEW u, Upto(u, text, i, from[i + 1])
  PROVE  ~At(u, i, find)
<1>1. PICK F : F = Len(find)
  OBVIOUS
<1>2. F \in Nat /\ F # 0 /\ Len(text) \in Nat /\ i \in Nat \ {0}
  BY <1>1, Places
<1>3. PICK P : P = SubSeq(text, 1, i)
  OBVIOUS
<1>4. P \in Seq(S) /\ Len(P) = i /\ P[i] = text[i]
  <2>1. 1 \in 1..(Len(text) + 1) /\ i \in (1 - 1)..Len(text)
    BY <1>2
  <2>2. /\ P \in Seq(S) /\ Len(P) = i - 1 + 1
        /\ \A k \in 1..(i - 1 + 1) : P[k] = text[1 + k - 1]
    BY <1>3, <2>1, PartOf
  <2>3. i - 1 + 1 = i /\ i \in 1..(i - 1 + 1) /\ 1 + i - 1 = i
    BY <1>2
  <2> QED BY <2>2, <2>3
<1>5. PICK r : r = from[i + 1]
  OBVIOUS
<1>6. r \in Seq(S) /\ i + 1 \in 1..(Len(text) + Len(find))
  <2>1. i + 1 \in 1..(Len(text) + Len(find))
    BY Places
  <2> QED BY <1>5, <2>1 DEF Replaced
<1>7. /\ u \in Seq(S) /\ Len(r) \in Nat /\ Len(u) = i + Len(r) /\ u[i] = text[i]
      /\ \A k \in 1..Len(r) : u[i + k] = r[k]
  <2>1. /\ P \o r \in Seq(S) /\ Len(r) \in Nat
        /\ Len(P \o r) = Len(P) + Len(r)
        /\ \A k \in 1..Len(P) : (P \o r)[k] = P[k]
        /\ \A k \in 1..Len(r) : (P \o r)[Len(P) + k] = r[k]
    <3>1. P \in Seq(S) /\ r \in Seq(S)
      BY <1>4, <1>6
    <3> QED BY <3>1, TwoTexts
  <2>2. u = P \o r /\ i \in 1..Len(P)
    BY <1>2, <1>3, <1>4, <1>5 DEF Upto
  <2>3. u[i] = text[i]
    BY <1>4, <2>1, <2>2
  <2> QED BY <1>4, <2>1, <2>2, <2>3
<1> SUFFICES ASSUME At(u, i, find) PROVE FALSE
  OBVIOUS
<1>8. i + F - 1 <= Len(u) /\ \A k \in 1..F : u[i + k - 1] = find[k]
  <2>1. u \in Seq(S) /\ i \in Nat \ {0}
    BY <1>2, <1>7
  <2>2. Stands(u, i, find)
    BY <2>1, AtIs
  <2> QED BY <1>1, <2>2 DEF Stands
<1>9. PICK n : n = F - 1
  OBVIOUS
<1>10. n \in 0..(Len(find) - 1) /\ n <= Len(r)
  BY <1>1, <1>2, <1>7, <1>8, <1>9
<1>11. ASSUME NEW k \in 1..n
       PROVE  r[k] = find[Len(find) - n + k]
  <2>1. k \in 1..Len(r) /\ k + 1 \in 1..F /\ i + (k + 1) - 1 = i + k /\ Len(find) - n + k = k + 1
    BY <1>1, <1>2, <1>7, <1>9, <1>10
  <2>2. u[i + (k + 1) - 1] = find[k + 1]
    BY <1>8, <2>1
  <2>3. u[i + k] = r[k]
    BY <1>7, <2>1
  <2> QED BY <2>1, <2>2, <2>3
<1>12. EndBegins(from[i + 1], find, n)
  BY <1>5, <1>10, <1>11 DEF EndBegins
<1>13. EndStands(text, find, i + 1, n)
  <2>1. \A j \in 1..(Len(text) + Len(find)) : \A m \in 0..(Len(find) - 1) :
          EndBegins(from[j], find, m) => EndStands(text, find, j, m)
    BY NoneMade
  <2> QED BY <1>6, <1>10, <1>12, <2>1
<1>14. /\ n = 0 \/ (i + 1) + n - 1 <= Len(text)
       /\ \A k \in 1..n : text[(i + 1) + k - 1] = find[Len(find) - n + k]
  BY <1>13 DEF EndStands
<1>15. i + F - 1 <= Len(text)
  BY <1>2, <1>9, <1>14
<1>16. ASSUME NEW k \in 1..F
       PROVE  text[i + k - 1] = find[k]
  <2>1. CASE k = 1
    <3>1. i + k - 1 = i /\ k \in 1..F
      BY <1>2, <2>1
    <3> QED BY <1>7, <1>8, <3>1
  <2>2. CASE k # 1
    <3>1. PICK l : l = k - 1
      OBVIOUS
    <3>2. l \in 1..n /\ (i + 1) + l - 1 = i + k - 1 /\ Len(find) - n + l = k
      BY <1>1, <1>2, <1>9, <2>2, <3>1
    <3> QED BY <1>14, <3>2
  <2> QED BY <2>1, <2>2
<1>17. At(text, i, find)
  BY <1>1, <1>2, <1>15, <1>16, AtIs DEF Stands
<1> QED BY <1>17

(* One place more, from the right: with find there, and without.            *)
LEMMA RightFound ==
  ASSUME NEW S, NEW text \in Seq(S), NEW find \in Seq(S), find # <<>>, NEW with \in Seq(S),
         NEW from, Replaced(S, text, find, with, from), ~SameEnds(find, find),
         NEW i \in 1..Len(text), At(text, i, find),
         NEW u, Upto(u, text, i, from[i + 1])
  PROVE  BecomesAt(u, text, i, find, with, from[i])
<1>1. PICK F : F = Len(find)
  OBVIOUS
<1>2. F \in Nat /\ F # 0 /\ Len(text) \in Nat /\ i \in Nat \ {0}
  BY <1>1, Places
<1>3. from[i + F] \in Seq(S) /\ from[i] = with \o from[i + F]
  BY <1>1, Found
<1>4. PICK rest \in Seq(S) : rest = from[i + F]
  BY <1>3
<1>5. PICK mid : mid = SubSeq(text, i + 1, i + F - 1)
  OBVIOUS
<1>6. from[i + 1] = mid \o rest
  <2>1. KeptInside(text, find, from, i)
    BY InsideKept
  <2>2. 1 \in 1..F
    BY <1>2
  <2> QED BY <1>1, <1>4, <1>5, <2>1, <2>2 DEF KeptInside
<1>7. i + F - 1 <= Len(text)
  BY <1>1 DEF At
<1>8. mid \in Seq(S)
  <2>1. i + 1 \in 1..(Len(text) + 1) /\ i + F - 1 \in ((i + 1) - 1)..Len(text)
    BY <1>2, <1>7
  <2> QED BY <1>5, <2>1, PartOf
<1>9. PICK head : head = SubSeq(text, 1, i)
  OBVIOUS
<1>10. head \in Seq(S) /\ head \o mid = SubSeq(text, 1, i + F - 1)
  <2>1. 1 \in 1..(Len(text) + 1) /\ i \in (1 - 1)..Len(text) /\ i + F - 1 \in i..Len(text)
    BY <1>2, <1>7
  <2>2. SubSeq(text, 1, i) \o SubSeq(text, i + 1, i + F - 1) = SubSeq(text, 1, i + F - 1)
    BY <2>1, ConcatAdjacentSubSeq
  <2>3. SubSeq(text, 1, i) \in Seq(S)
    BY <2>1, PartOf
  <2> QED BY <1>5, <1>9, <2>2, <2>3
<1>11. Upto(u, text, i + Len(find) - 1, rest)
  <2>1. Glued(head, mid, rest)
    BY <1>8, <1>10, Glue
  <2> QED BY <1>1, <1>6, <1>9, <1>10, <2>1 DEF Glued, Upto
<1>12. BecomesAt(u, text, i, find, with, with \o rest)
  BY <1>11, SplicedAt
<1> QED BY <1>3, <1>4, <1>12

LEMMA RightNotFound ==
  ASSUME NEW S, NEW text \in Seq(S), NEW find \in Seq(S), find # <<>>, NEW with \in Seq(S),
         NEW from, Replaced(S, text, find, with, from),
         Len(with) > Len(find), ~SameEnds(with, find),
         NEW i \in 1..Len(text), ~At(text, i, find),
         NEW u, Upto(u, text, i, from[i + 1])
  PROVE  /\ ~At(u, i, find)
         /\ Upto(u, text, i - 1, from[i])
<1>1. ~At(u, i, find)
  BY NoneStands
<1>2. from[i + 1] \in Seq(S) /\ from[i] = <<text[i]>> \o from[i + 1]
  BY NotFound
<1>3. i \in Nat \ {0} /\ Len(text) \in Nat
  BY LenProperties
<1>4. SubSeq(text, i, i) = <<text[i]>> /\ <<text[i]>> \in Seq(S)
  <2>1. i \in i..Len(text)
    BY <1>3
  <2>2. SubSeq(text, i, i) = <<text[i]>> \o SubSeq(text, i + 1, i) /\ <<text[i]>> \in Seq(S)
    BY <2>1, FirstOf
  <2>3. SubSeq(text, i + 1, i) = <<>>
    BY <1>3, SubSeqEmpty
  <2> QED BY <2>2, <2>3, ConcatEmptySeq
<1>5. SubSeq(text, 1, i - 1) \in Seq(S)
      /\ SubSeq(text, 1, i - 1) \o SubSeq(text, i, i) = SubSeq(text, 1, i)
  <2>1. /\ 1 \in 1..(Len(text) + 1) /\ i - 1 \in (1 - 1)..Len(text)
        /\ i \in (i - 1)..Len(text) /\ (i - 1) + 1 = i
    BY <1>3
  <2>2. SubSeq(text, 1, i - 1) \o SubSeq(text, (i - 1) + 1, i) = SubSeq(text, 1, i)
    BY <2>1, ConcatAdjacentSubSeq
  <2>3. SubSeq(text, 1, i - 1) \in Seq(S)
    BY <2>1, PartOf
  <2> QED BY <2>1, <2>2, <2>3
<1>6. Glued(SubSeq(text, 1, i - 1), <<text[i]>>, from[i + 1])
  BY <1>2, <1>4, <1>5, Glue
<1> QED BY <1>1, <1>2, <1>4, <1>5, <1>6 DEF Glued, Upto

(* Replaced from the right, a text becomes what it becomes from the left,   *)
(* unless find meets itself or what it is replaced by.                     *)
LEMMA RightIsLeft ==
  ASSUME NEW S, NEW text \in Seq(S), NEW find \in Seq(S), find # <<>>, NEW with \in Seq(S),
         Len(with) > Len(find), ~Repeats(find, with)
  PROVE  ReplaceRight(text, find, with) = ReplaceLeft(text, find, with)
<1>1. ~SameEnds(with, find) /\ ~SameEnds(find, find)
  BY DEF Repeats
<1>2. PICK from : Replaced(S, text, find, with, from) /\ ReplaceLeft(text, find, with) = from[1]
  BY ReplaceLeftIs
<1>3. PICK to : FromRight(S, text, find, with, to) /\ ReplaceRight(text, find, with) = to[1]
  BY ReplaceRightIs
<1>4. PICK N : N = Len(text)
  OBVIOUS
<1>5. N \in Nat /\ N + 1 \in Nat
  BY <1>4, LenProperties
<1> DEFINE Good == {i \in 1..(N + 1) : to[i] = SubSeq(text, 1, i - 1) \o from[i]}
<1>6. \A i \in 1..(N + 1) : to[i] = RightStep(text, find, with, to, i)
  BY <1>3, <1>4 DEF FromRight
<1>7. N + 1 \in Good
  <2>1. to[N + 1] = text
    <3>1. N + 1 \in 1..(N + 1) /\ N + 1 > Len(text)
      BY <1>4, <1>5
    <3> QED BY <1>6, <3>1 DEF RightStep
  <2>2. from[N + 1] = <<>>
    <3>1. N + 1 \in 1..(Len(text) + Len(find)) /\ N + 1 > Len(text)
      BY <1>4, <1>5, Places
    <3> QED BY <1>2, <3>1, PastTheEnd
  <2>3. SubSeq(text, 1, (N + 1) - 1) = text
    <3>1. (N + 1) - 1 = N
      BY <1>5
    <3> QED BY <1>4, <3>1, SubSeqFull
  <2>4. text \o <<>> = text
    BY ConcatEmptySeq
  <2>5. N + 1 \in 1..(N + 1)
    BY <1>5
  <2> QED BY <2>1, <2>2, <2>3, <2>4, <2>5
<1>8. ASSUME NEW i \in 1..N, i + 1 \in Good
      PROVE  i \in Good
  <2>1. i \in 1..Len(text) /\ i \in 1..(N + 1) /\ ~(i > Len(text)) /\ (i + 1) - 1 = i
    BY <1>4, <1>5
  <2>2. PICK u : u = to[i + 1]
    OBVIOUS
  <2>3. Upto(u, text, i, from[i + 1])
    <3>1. to[i + 1] = SubSeq(text, 1, (i + 1) - 1) \o from[i + 1]
      BY <1>8
    <3> QED BY <2>1, <2>2, <3>1 DEF Upto
  <2>4. to[i] = IF At(u, i, find) THEN Splice(u, i, find, with) ELSE u
    BY <1>6, <2>1, <2>2 DEF RightStep
  <2> HIDE DEF Good
  <2>5. CASE At(text, i, find)
    <3>1. BecomesAt(u, text, i, find, with, from[i])
      BY <1>1, <1>2, <2>1, <2>3, <2>5, RightFound
    <3> QED BY <2>1, <2>4, <3>1 DEF BecomesAt, Good
  <2>6. CASE ~At(text, i, find)
    <3>1. /\ ~At(u, i, find)
          /\ Upto(u, text, i - 1, from[i])
      BY <1>1, <1>2, <2>1, <2>3, <2>6, RightNotFound
    <3> QED BY <2>1, <2>4, <3>1 DEF Upto, Good
  <2> QED BY <2>5, <2>6
<1>9. ASSUME NEW i \in 1..(N + 1), \A j \in 1..(N + 1) : j > i => j \in Good
      PROVE  i \in Good
  <2> HIDE DEF Good
  <2>1. i = N + 1 \/ (i \in 1..N /\ i + 1 \in 1..(N + 1) /\ i + 1 > i)
    BY <1>5
  <2> QED BY <1>7, <1>8, <1>9, <2>1
<1>10. \A i \in 1..(N + 1) : i \in Good
  <2> HIDE DEF Good
  <2> QED BY <1>5, <1>9, InductionFromEnd
<1>11. to[1] = SubSeq(text, 1, 0) \o from[1]
  <2>1. 1 \in 1..(N + 1)
    BY <1>5
  <2>2. 1 \in Good
    BY <1>10, <2>1
  <2>3. to[1] = SubSeq(text, 1, 1 - 1) \o from[1]
    BY <2>2
  <2> QED BY <2>3
<1>12. from[1] \in Seq(S)
  <2>1. 1 \in 1..(Len(text) + Len(find))
    BY Places
  <2> QED BY <1>2, <2>1 DEF Replaced
<1>13. to[1] = from[1]
  <2>1. SubSeq(text, 1, 0) = <<>>
    BY SubSeqEmpty
  <2> QED BY <1>11, <1>12, <2>1, ConcatEmptySeq
<1> QED BY <1>2, <1>3, <1>13

(* How long the replaced text is: as counted. *)
Remaining(text, i) == IF i > Len(text) THEN 0 ELSE Len(text) - i + 1

LEMMA RestNext ==
  ASSUME NEW S, NEW text \in Seq(S), NEW find \in Seq(S), find # <<>>, NEW i \in 1..Len(text)
  PROVE  /\ Remaining(text, i) = 1 + Remaining(text, i + 1) /\ Remaining(text, i + 1) \in Nat
         /\ At(text, i, find) =>
              /\ Remaining(text, i) = Len(find) + Remaining(text, i + Len(find))
              /\ Remaining(text, i + Len(find)) \in Nat
<1>1. Len(text) \in Nat /\ Len(find) \in Nat \ {0}
  BY Places
<1>2. Remaining(text, i) = 1 + Remaining(text, i + 1) /\ Remaining(text, i + 1) \in Nat
  BY <1>1 DEF Remaining
<1>3. ASSUME At(text, i, find)
      PROVE  /\ Remaining(text, i) = Len(find) + Remaining(text, i + Len(find))
             /\ Remaining(text, i + Len(find)) \in Nat
  <2>1. i + Len(find) - 1 <= Len(text)
    BY <1>3 DEF At
  <2> QED BY <1>1, <2>1 DEF Remaining
<1> QED BY <1>2, <1>3

LEMMA Distributes ==
  ASSUME NEW l \in Nat, NEW d \in Int
  PROVE  (1 + l) * d = d + l * d /\ l * d \in Int
OBVIOUS

LEMMA ReplacedLen ==
  ASSUME NEW S, NEW text \in Seq(S), NEW find \in Seq(S), find # <<>>, NEW with \in Seq(S),
         NEW from, Replaced(S, text, find, with, from), NEW left, Counted(text, find, left)
  PROVE  /\ Len(from[1]) = Len(text) + left[1] * (Len(with) - Len(find))
         /\ left[1] \in Nat /\ from[1] \in Seq(S)
<1>1. PICK M : M = Len(text) + Len(find)
  OBVIOUS
<1>2. M \in Nat /\ Len(text) \in Nat /\ Len(find) \in Nat \ {0} /\ Len(with) \in Nat
  BY <1>1, Places, LenProperties
<1>3. PICK d : d = Len(with) - Len(find)
  OBVIOUS
<1>4. d \in Int
  BY <1>2, <1>3
<1> DEFINE Good == {i \in 1..M : Len(from[i]) = Remaining(text, i) + left[i] * d}
<1>5. \A i \in 1..M : left[i] \in Nat /\ left[i] = CountStep(text, find, left, i)
  BY <1>1 DEF Counted
<1>6. ASSUME NEW i \in 1..M, \A j \in 1..M : j > i => j \in Good
      PROVE  i \in Good
  <2>1. CASE i > Len(text)
    <3>1. from[i] = <<>>
      BY <1>1, <2>1, PastTheEnd
    <3>2. Len(from[i]) = 0
      BY <3>1
    <3>3. left[i] = 0 /\ Remaining(text, i) = 0
      BY <1>5, <2>1 DEF CountStep, Remaining
    <3>4. 0 * d = 0
      BY <1>4
    <3> QED BY <3>2, <3>3, <3>4
  <2>2. CASE ~(i > Len(text)) /\ At(text, i, find)
    <3>1. i \in 1..Len(text)
      BY <1>2, <2>2
    <3>2. PICK k : k = i + Len(find)
      OBVIOUS
    <3>3. k \in 1..M /\ k > i /\ Len(from[k]) \in Nat /\ Len(from[i]) = Len(with) + Len(from[k])
      <4>1. /\ i + Len(find) \in 1..(Len(text) + Len(find))
            /\ Len(from[i + Len(find)]) \in Nat
            /\ Len(from[i]) = Len(with) + Len(from[i + Len(find)])
        BY <2>2, <3>1, Found
      <4> QED BY <1>1, <1>2, <3>1, <3>2, <4>1
    <3>4. Len(from[k]) = Remaining(text, k) + left[k] * d
      BY <1>6, <3>3
    <3> HIDE DEF Good
    <3>5. left[i] = 1 + left[k] /\ left[k] \in Nat
      BY <1>5, <2>2, <3>2, <3>3 DEF CountStep
    <3>6. Remaining(text, i) = Len(find) + Remaining(text, k) /\ Remaining(text, k) \in Nat
      BY <2>2, <3>1, <3>2, RestNext
    <3>7. (1 + left[k]) * d = d + left[k] * d /\ left[k] * d \in Int
      BY <1>4, <3>5, Distributes
    <3>8. PICK x \in Int : x = left[k] * d
      BY <3>7
    <3>9. Len(from[k]) = Remaining(text, k) + x /\ left[i] * d = d + x
      BY <3>4, <3>5, <3>7, <3>8
    <3>10. Len(from[i]) = Remaining(text, i) + left[i] * d
      <4>1. PICK y : y = left[i] * d
        OBVIOUS
      <4>2. PICK r \in Nat : r = Remaining(text, k)
        BY <3>6
      <4>3. PICK W \in Nat : W = Len(with)
        BY <1>2
      <4>4. PICK F \in Nat : F = Len(find)
        BY <1>2
      <4>5. PICK a : a = Len(from[i])
        OBVIOUS
      <4>6. PICK b : b = Len(from[k])
        OBVIOUS
      <4>7. PICK R : R = Remaining(text, i)
        OBVIOUS
      <4>8. d = W - F /\ a = W + b /\ b = r + x /\ R = F + r /\ y = d + x
        BY <1>3, <3>3, <3>6, <3>9, <4>1, <4>2, <4>3, <4>4, <4>5, <4>6, <4>7
      <4>9. a = R + y
        BY <4>8
      <4> QED BY <4>1, <4>5, <4>7, <4>9
    <3> QED BY <3>10 DEF Good
  <2>3. CASE ~(i > Len(text)) /\ ~At(text, i, find)
    <3>1. i \in 1..Len(text)
      BY <1>2, <2>3
    <3>2. PICK k : k = i + 1
      OBVIOUS
    <3>3. k \in 1..M /\ k > i /\ Len(from[k]) \in Nat /\ Len(from[i]) = 1 + Len(from[k])
      <4>1. Len(from[i + 1]) \in Nat /\ Len(from[i]) = 1 + Len(from[i + 1])
        <5> HIDE DEF Good
        <5>1. /\ from[i + 1] \in Seq(S) /\ from[i] = <<text[i]>> \o from[i + 1]
              /\ Len(from[i + 1]) \in Nat /\ Len(from[i]) = 1 + Len(from[i + 1])
              /\ from[i][1] = text[i]
              /\ \A m \in 1..Len(from[i + 1]) : from[i][1 + m] = from[i + 1][m]
          BY <2>3, <3>1, NotFound
        <5> QED BY <5>1
      <4> QED BY <1>1, <1>2, <3>1, <3>2, <4>1
    <3>4. Len(from[k]) = Remaining(text, k) + left[k] * d
      BY <1>6, <3>3
    <3> HIDE DEF Good
    <3>5. left[i] = left[k] /\ left[k] \in Nat
      BY <1>5, <2>3, <3>2, <3>3 DEF CountStep
    <3>6. Remaining(text, i) = 1 + Remaining(text, k) /\ Remaining(text, k) \in Nat
      BY <3>1, <3>2, RestNext
    <3>7. PICK x \in Int : x = left[k] * d
      BY <1>4, <3>5, Distributes
    <3>8. Len(from[i]) = Remaining(text, i) + left[i] * d
      <4>1. left[i] * d = x /\ Len(from[k]) = Remaining(text, k) + x
        BY <3>4, <3>5, <3>7
      <4>2. PICK r \in Nat : r = Remaining(text, k)
        BY <3>6
      <4>3. PICK a : a = Len(from[i])
        OBVIOUS
      <4>4. PICK b : b = Len(from[k])
        OBVIOUS
      <4>5. PICK R : R = Remaining(text, i)
        OBVIOUS
      <4>6. a = 1 + b /\ b = r + x /\ R = 1 + r
        BY <3>3, <3>6, <4>1, <4>2, <4>3, <4>4, <4>5
      <4>7. a = R + x
        BY <4>6
      <4> QED BY <4>1, <4>3, <4>5, <4>7
    <3> QED BY <3>8 DEF Good
  <2> QED BY <2>1, <2>2, <2>3
<1>7. \A i \in 1..M : i \in Good
  <2> HIDE DEF Good
  <2> QED BY <1>2, <1>6, InductionFromEnd
<1>8. 1 \in 1..M
  BY <1>1, <1>2
<1>9. Len(from[1]) = Remaining(text, 1) + left[1] * d
  BY <1>7, <1>8
<1>10. Remaining(text, 1) = Len(text)
  BY <1>2 DEF Remaining
<1>11. from[1] \in Seq(S)
  BY <1>1, <1>8 DEF Replaced
<1> QED BY <1>3, <1>5, <1>8, <1>9, <1>10, <1>11

-----------------------------------------------------------------------------
(* What each call keeps: length and text of an object agree, the text fits  *)
(* its array, and an object without a buffer is as init() leaves it.       *)
Strings == [valid : BOOLEAN, cap : Nat, len : Nat, text : Seq(StringChar)]
KeptString(r) ==
  /\ r \in Strings
  /\ r.len = Len(r.text) /\ r.len <= r.cap
  /\ ~r.valid => r = Null

LEMMA NullKept == KeptString(Null) /\ Null.text = <<>> /\ Null.valid = FALSE
<1>1. <<>> \in Seq(StringChar) /\ Len(<<>>) = 0
  OBVIOUS
<1> QED BY <1>1 DEF KeptString, Strings, Null

LEMMA ValIsText ==
  ASSUME NEW r, KeptString(r)
  PROVE  Val(r) = r.text
<1>1. r.text \in Seq(StringChar) /\ r.len = Len(r.text)
  BY DEF KeptString, Strings
<1> QED BY <1>1, SubSeqFull DEF Val

(* A record with the fields of a string *)
LEMMA StringOf ==
  ASSUME NEW cap \in Nat, NEW len \in Nat, NEW text \in Seq(StringChar),
         len = Len(text), len <= cap
  PROVE  KeptString([valid |-> TRUE, cap |-> cap, len |-> len, text |-> text])
BY DEF KeptString, Strings

(* Fields assigned *)
LEMMA FieldsOf ==
  ASSUME NEW v, NEW cp, NEW l, NEW t,
         NEW q \in [valid : {v}, cap : {cp}, len : {l}, text : {t}]
  PROVE  q = [valid |-> v, cap |-> cp, len |-> l, text |-> t]
OBVIOUS

LEMMA Grown ==
  ASSUME NEW v, NEW cp, NEW l, NEW t, NEW v2, NEW c2, NEW t2,
         NEW r, r = [valid |-> v, cap |-> cp, len |-> l, text |-> t]
  PROVE  [r EXCEPT !.valid = v2, !.cap = c2, !.text = t2]
           = [valid |-> v2, cap |-> c2, len |-> l, text |-> t2]
<1>1. [r EXCEPT !.valid = v2, !.cap = c2, !.text = t2]
        \in [valid : {v2}, cap : {c2}, len : {l}, text : {t2}]
  OBVIOUS
<1> QED BY <1>1, FieldsOf

SetLenText(r, l, t) == [r EXCEPT !.len = l, !.text = t]
SetTextLen(r, t, l) == [r EXCEPT !.text = t, !.len = l]

HasFields(r) == r = [valid |-> r.valid, cap |-> r.cap, len |-> r.len, text |-> r.text]

LEMMA TextLen ==
  ASSUME NEW r, HasFields(r), NEW l, NEW t
  PROVE  /\ SetTextLen(r, t, l) = [valid |-> r.valid, cap |-> r.cap, len |-> l, text |-> t]
         /\ SetLenText(r, l, t) = [valid |-> r.valid, cap |-> r.cap, len |-> l, text |-> t]
<1>1. SetTextLen(r, t, l) \in [valid : {r.valid}, cap : {r.cap}, len : {l}, text : {t}]
  BY DEF SetTextLen, HasFields
<1>2. SetLenText(r, l, t) \in [valid : {r.valid}, cap : {r.cap}, len : {l}, text : {t}]
  BY DEF SetLenText, HasFields
<1> QED BY <1>1, <1>2, FieldsOf

(* reserve() changes no text. *)
LEMMA ReserveKeeps ==
  ASSUME NEW r, KeptString(r), NEW size \in Nat, NEW a \in Reserve(r, size)
  PROVE  IF a.ok THEN /\ a.r = [valid |-> TRUE, cap |-> a.r.cap, len |-> r.len, text |-> r.text]
                      /\ a.r.cap \in Nat /\ size <= a.r.cap /\ r.len <= a.r.cap
                 ELSE a.r = r
<1>1. /\ r = [valid |-> r.valid, cap |-> r.cap, len |-> r.len, text |-> r.text]
      /\ r.valid \in BOOLEAN /\ r.cap \in Nat /\ r.len \in Nat /\ r.text \in Seq(StringChar)
      /\ r.len = Len(r.text) /\ r.len <= r.cap
  BY DEF KeptString, Strings
<1>2. CASE r.valid /\ r.cap >= size
  <2>1. a = [ok |-> TRUE, r |-> r]
    BY <1>2 DEF Reserve
  <2>2. a.ok /\ a.r = r
    BY <2>1
  <2>3. r.valid = TRUE
    BY <1>1, <1>2
  <2>4. r = [valid |-> TRUE, cap |-> r.cap, len |-> r.len, text |-> r.text]
    BY <1>1, <2>3
  <2> QED BY <1>1, <1>2, <2>2, <2>4
<1>3. CASE ~(r.valid /\ r.cap >= size)
  <2> DEFINE g == [r EXCEPT !.valid = TRUE, !.cap = size, !.text = IF r.len = 0 THEN <<>> ELSE @]
  <2>1. a = [ok |-> FALSE, r |-> r] \/ a = [ok |-> TRUE, r |-> g]
    BY <1>3 DEF Reserve
  <2>2. (IF r.len = 0 THEN <<>> ELSE r.text) = r.text
    BY <1>1, EmptySeq
  <2>3. g = [valid |-> TRUE, cap |-> size, len |-> r.len, text |-> r.text]
    <3>1. g = [r EXCEPT !.valid = TRUE, !.cap = size, !.text = r.text]
      BY <2>2
    <3> HIDE DEF g
    <3> QED BY <1>1, <3>1, Grown
  <2>4. r.len <= size
    <3>1. CASE r.valid
      BY <1>1, <1>3, <3>1
    <3>2. CASE ~r.valid
      <4>1. r.len = 0
        BY <3>2 DEF KeptString, Null
      <4> QED BY <4>1
    <3> QED BY <3>1, <3>2
  <2> HIDE DEF g
  <2>5. CASE a = [ok |-> FALSE, r |-> r]
    BY <2>5
  <2>6. CASE a = [ok |-> TRUE, r |-> g]
    <3>1. a.ok /\ a.r = g
      BY <2>6
    <3>2. g.cap = size
      BY <2>3
    <3> QED BY <2>3, <2>4, <3>1, <3>2
  <2> QED BY <2>1, <2>5, <2>6
<1> QED BY <1>2, <1>3

(* copy(): the text, or an invalid object. *)
LEMMA CopyKeeps ==
  ASSUME NEW r, KeptString(r), NEW text \in Seq(StringChar), NEW new \in Copy(r, text, Len(text))
  PROVE  KeptString(new) /\ (new = Null \/ (new.valid /\ new.text = text))
<1>1. PICK n \in Nat : n = Len(text)
  BY LenProperties
<1>2. PICK a \in Reserve(r, n) : new = IF a.ok THEN [a.r EXCEPT !.len = n, !.text = text] ELSE Null
  BY <1>1 DEF Copy
<1>3. CASE a.ok
  <2>1. /\ a.r = [valid |-> TRUE, cap |-> a.r.cap, len |-> r.len, text |-> r.text]
        /\ a.r.cap \in Nat /\ n <= a.r.cap
    BY <1>3, ReserveKeeps
  <2>2. new = [valid |-> TRUE, cap |-> a.r.cap, len |-> n, text |-> text]
    <3>1. new = SetLenText(a.r, n, text)
      BY <1>2, <1>3 DEF SetLenText
    <3>2. PICK q : q = a.r
      OBVIOUS
    <3>3. HasFields(q) /\ q.valid = TRUE /\ q.cap = a.r.cap
      BY <2>1, <3>2 DEF HasFields
    <3>4. SetLenText(q, n, text) = [valid |-> q.valid, cap |-> q.cap, len |-> n, text |-> text]
      BY <3>3, TextLen
    <3> QED BY <3>1, <3>2, <3>3, <3>4
  <2>3. KeptString([valid |-> TRUE, cap |-> a.r.cap, len |-> n, text |-> text])
    BY <1>1, <2>1, StringOf
  <2>4. new.valid /\ new.text = text
    BY <2>2
  <2> QED BY <2>2, <2>3, <2>4
<1>4. CASE ~a.ok
  BY <1>2, <1>4, NullKept
<1> QED BY <1>3, <1>4

LEMMA AssignKeeps ==
  ASSUME NEW r, KeptString(r), NEW rhs, KeptString(rhs), NEW new \in AssignFrom(r, rhs)
  PROVE  /\ KeptString(new)
         /\ new = Null \/ (rhs.valid /\ new.valid /\ new.text = rhs.text)
<1>1. rhs.text \in Seq(StringChar) /\ rhs.len = Len(rhs.text)
  BY DEF KeptString, Strings
<1>2. CASE rhs.valid
  <2>1. new \in Copy(r, rhs.text, Len(rhs.text))
    BY <1>1, <1>2 DEF AssignFrom
  <2> QED BY <1>1, <1>2, <2>1, CopyKeeps
<1>3. CASE ~rhs.valid
  BY <1>3, NullKept DEF AssignFrom
<1> QED BY <1>2, <1>3

(* move(): the other's text. *)
LEMMA MoveKeeps ==
  ASSUME NEW r, KeptString(r), NEW rhs, KeptString(rhs)
  PROVE  /\ KeptString(MoveFrom(r, rhs)[1])
         /\ MoveFrom(r, rhs)[1].text = rhs.text /\ MoveFrom(r, rhs)[1].valid = rhs.valid
<1>1. /\ r = [valid |-> r.valid, cap |-> r.cap, len |-> r.len, text |-> r.text]
      /\ r.valid \in BOOLEAN /\ r.cap \in Nat
  BY DEF KeptString, Strings
<1>2. /\ rhs.valid \in BOOLEAN /\ rhs.len \in Nat /\ rhs.text \in Seq(StringChar)
      /\ rhs.len = Len(rhs.text)
  BY DEF KeptString, Strings
<1>3. CASE r.valid /\ rhs.valid /\ r.cap >= rhs.len
  <2>1. MoveFrom(r, rhs)[1] = [r EXCEPT !.text = rhs.text, !.len = rhs.len]
    BY <1>3 DEF MoveFrom
  <2>2. r.valid = TRUE /\ rhs.valid = TRUE
    BY <1>1, <1>2, <1>3
  <2>3. MoveFrom(r, rhs)[1] = [valid |-> TRUE, cap |-> r.cap, len |-> rhs.len, text |-> rhs.text]
    BY <1>1, <2>1, <2>2
  <2>4. KeptString([valid |-> TRUE, cap |-> r.cap, len |-> rhs.len, text |-> rhs.text])
    BY <1>1, <1>2, <1>3, StringOf
  <2>5. PICK m : m = MoveFrom(r, rhs)[1]
    OBVIOUS
  <2>6. m = [valid |-> TRUE, cap |-> r.cap, len |-> rhs.len, text |-> rhs.text]
    BY <2>3, <2>5
  <2>7. m.text = rhs.text
    BY <2>6
  <2>8. m.valid = rhs.valid
    BY <2>2, <2>6
  <2>9. KeptString(m)
    BY <2>4, <2>6
  <2> QED BY <2>5, <2>7, <2>8, <2>9
<1>4. CASE ~(r.valid /\ rhs.valid /\ r.cap >= rhs.len)
  <2>1. MoveFrom(r, rhs)[1] = rhs
    BY <1>4 DEF MoveFrom
  <2> QED BY <2>1
<1> QED BY <1>3, <1>4

(* concat(): the text behind its own, or nothing. *)
LEMMA ConcatKeeps ==
  ASSUME NEW r, KeptString(r), NEW text \in Seq(StringChar),
         NEW a \in ConcatText(r, text, Len(text))
  PROVE  /\ KeptString(a.r)
         /\ IF a.ok THEN a.r.text = r.text \o text ELSE a.r = r
<1>1. PICK n \in Nat : n = Len(text)
  BY LenProperties
<1>2. r.len \in Nat /\ r.text \in Seq(StringChar) /\ r.len = Len(r.text)
  BY DEF KeptString, Strings
<1>3. CASE n = 0
  <2>1. a = [ok |-> TRUE, r |-> r]
    BY <1>1, <1>3 DEF ConcatText
  <2>2. a.r = r /\ a.ok
    BY <2>1
  <2>3. text = <<>>
    BY <1>1, <1>3, EmptySeq
  <2>4. r.text \o text = r.text
    BY <1>2, <2>3, ConcatEmptySeq
  <2> QED BY <2>2, <2>4
<1>4. CASE n # 0
  <2>1. PICK b \in Reserve(r, r.len + n) :
          a = [ok |-> b.ok, r |-> IF b.ok THEN [b.r EXCEPT !.text = Val(b.r) \o text,
                                                          !.len = r.len + n]
                                  ELSE b.r]
    BY <1>1, <1>4 DEF ConcatText
  <2>2. r.len + n \in Nat
    BY <1>2
  <2>3. CASE b.ok
    <3>1. /\ b.r = [valid |-> TRUE, cap |-> b.r.cap, len |-> r.len, text |-> r.text]
          /\ b.r.cap \in Nat /\ r.len + n <= b.r.cap
      BY <2>2, <2>3, ReserveKeeps
    <3>2. b.r.len = r.len /\ b.r.text = r.text
      BY <3>1
    <3>3. Val(b.r) = r.text
      BY <1>2, <3>2, SubSeqFull DEF Val
    <3>4. PICK t : t = r.text \o text
      OBVIOUS
    <3>5. t \in Seq(StringChar) /\ Len(t) = r.len + n
      BY <1>1, <1>2, <3>4, ConcatProperties
    <3>6. a.ok /\ a.r = [valid |-> TRUE, cap |-> b.r.cap, len |-> r.len + n, text |-> t]
      <4>1. a.ok /\ a.r = SetTextLen(b.r, t, r.len + n)
        BY <2>1, <2>3, <3>3, <3>4 DEF SetTextLen
      <4>2. PICK q : q = b.r
        OBVIOUS
      <4>3. HasFields(q) /\ q.valid = TRUE /\ q.cap = b.r.cap
        BY <3>1, <4>2 DEF HasFields
      <4>4. PICK l : l = r.len + n
        OBVIOUS
      <4>5. SetTextLen(q, t, l) = [valid |-> q.valid, cap |-> q.cap, len |-> l, text |-> t]
        BY <4>3, TextLen
      <4> QED BY <4>1, <4>2, <4>3, <4>4, <4>5
    <3>7. KeptString([valid |-> TRUE, cap |-> b.r.cap, len |-> r.len + n, text |-> t])
      BY <2>2, <3>1, <3>5, StringOf
    <3>8. a.r.text = t
      BY <3>6
    <3> QED BY <3>4, <3>6, <3>7, <3>8
  <2>4. CASE ~b.ok
    <3>1. b.r = r
      BY <2>2, <2>4, ReserveKeeps
    <3>2. a.r = r /\ ~a.ok
      BY <2>1, <2>4, <3>1
    <3> QED BY <3>2
  <2> QED BY <2>3, <2>4
<1> QED BY <1>3, <1>4

(* A record whose text and length are set anew is a string if they agree    *)
(* and fit. *)
LEMMA TextSet ==
  ASSUME NEW r, KeptString(r), NEW t \in Seq(StringChar), Len(t) <= r.cap, r.valid
  PROVE  /\ KeptString(SetTextLen(r, t, Len(t))) /\ SetTextLen(r, t, Len(t)).text = t
         /\ KeptString(SetLenText(r, Len(t), t)) /\ SetLenText(r, Len(t), t).text = t
         /\ SetTextLen(r, t, Len(t)).valid /\ SetLenText(r, Len(t), t).valid
<1>1. r.valid = TRUE /\ r.cap \in Nat /\ HasFields(r) /\ Len(t) \in Nat
  BY LenProperties DEF KeptString, Strings, HasFields
<1>2. PICK l \in Nat : l = Len(t)
  BY <1>1
<1>3. /\ SetTextLen(r, t, l) = [valid |-> r.valid, cap |-> r.cap, len |-> l, text |-> t]
      /\ SetLenText(r, l, t) = [valid |-> r.valid, cap |-> r.cap, len |-> l, text |-> t]
  BY <1>1, TextLen
<1>4. PICK q : q = [valid |-> TRUE, cap |-> r.cap, len |-> l, text |-> t]
  OBVIOUS
<1>5. KeptString(q)
  BY <1>1, <1>2, <1>4, StringOf
<1>6. q.text = t /\ q.valid
  BY <1>4
<1>7. SetTextLen(r, t, l) = q /\ SetLenText(r, l, t) = q
  BY <1>1, <1>3, <1>4
<1> QED BY <1>2, <1>5, <1>6, <1>7

(* How many characters of l lie in the d behind place i. *)
Behind(l, i, d) == IF i >= l THEN 0 ELSE IF d > l - i THEN l - i ELSE d

LEMMA BehindIs ==
  ASSUME NEW l \in Nat, NEW i \in Nat, NEW d \in Nat
  PROVE  /\ Behind(l, i, d) \in 0..l
         /\ Cardinality({j \in 1..l : j > i /\ j <= i + d}) = Behind(l, i, d)
<1>1. PICK n : n = Behind(l, i, d)
  OBVIOUS
<1>2. n \in 0..l
  BY <1>1 DEF Behind
<1>3. {j \in 1..l : j > i /\ j <= i + d} = (i + 1)..(i + n)
  <2>1. ASSUME NEW j \in Int
        PROVE  (j \in 1..l /\ j > i /\ j <= i + d) <=> (j \in (i + 1)..(i + n))
    BY <1>1, <1>2 DEF Behind
  <2> QED BY <2>1
<1>4. Cardinality((i + 1)..(i + n)) = n
  <2>1. i + 1 \in Int /\ i + n \in Int
    BY <1>2
  <2>2. Cardinality((i + 1)..(i + n)) = IF i + 1 > i + n THEN 0 ELSE (i + n) - (i + 1) + 1
    BY <2>1, FS_Interval
  <2>3. (IF i + 1 > i + n THEN 0 ELSE (i + n) - (i + 1) + 1) = n
    BY <1>2
  <2> QED BY <2>2, <2>3
<1> QED BY <1>1, <1>2, <1>3, <1>4

(* A text without some of its characters: w has length l, and is s but for  *)
(* the d characters behind place i. *)
LeavesOut(w, s, l, i, d) ==
  Len(w) = l /\ \A k \in 1..l : w[k] = IF k <= i THEN s[k] ELSE s[k + d]

LEMMA WithoutIs ==
  ASSUME NEW S, NEW s \in Seq(S), NEW l \in Nat, l = Len(s), NEW i \in Nat, NEW d \in Nat,
         NEW n, n = Behind(l, i, d), NEW u, u = Without(s, i, d)
  PROVE  u \in Seq(S) /\ LeavesOut(u, s, l - n, i, d)
<1>1. DOMAIN s = 1..l
  BY LenProperties
<1>2. n \in 0..l /\ l - n \in Nat
  <2>1. n = Behind(l, i, d)
    BY <1>1
  <2>2. Behind(l, i, d) \in 0..l
    BY BehindIs
  <2> QED BY <2>1, <2>2
<1>3. PICK w : w = [k \in 1..(l - n) |-> IF k <= i THEN s[k] ELSE s[k + d]]
  OBVIOUS
<1>4. Without(s, i, d) = w
  <2>1. Cardinality({j \in DOMAIN s : j > i /\ j <= i + d}) = n
    <3>1. n = Behind(l, i, d) /\ Cardinality({j \in 1..l : j > i /\ j <= i + d}) = Behind(l, i, d)
      BY <1>1, BehindIs
    <3> QED BY <1>1, <3>1
  <2> QED BY <1>1, <1>3, <2>1 DEF Without
<1>5. ASSUME NEW k \in 1..(l - n)
      PROVE  w[k] \in S /\ w[k] = IF k <= i THEN s[k] ELSE s[k + d]
  <2>1. w[k] = IF k <= i THEN s[k] ELSE s[k + d]
    BY <1>3
  <2>2. CASE k <= i
    <3>1. k \in 1..Len(s)
      BY <1>1, <1>2
    <3> QED BY <2>1, <2>2, <3>1, ElementOfSeq
  <2>3. CASE k > i
    <3>1. k + d \in 1..Len(s)
      BY <1>1, <1>2, <2>3 DEF Behind
    <3> QED BY <2>1, <2>3, <3>1, ElementOfSeq
  <2> QED BY <1>2, <2>2, <2>3
<1>6. w \in Seq(S) /\ Len(w) = l - n
  <2>1. PICK m \in Nat : m = l - n
    BY <1>2
  <2>2. w \in [1..m -> S]
    BY <1>3, <1>5, <2>1
  <2>3. w \in Seq(S) /\ Len(w) = m
    BY <2>1, <2>2
  <2> QED BY <2>1, <2>3
<1> QED BY <1>4, <1>5, <1>6 DEF LeavesOut

(* What remove() keeps is the text without them. *)
LEMMA NothingRemoved ==
  ASSUME NEW S, NEW s \in Seq(S), NEW i \in Nat, NEW d \in Nat, i >= Len(s) \/ d = 0
  PROVE  Without(s, i, d) = s
<1>1. PICK l \in Nat : l = Len(s)
  BY LenProperties
<1>2. Behind(l, i, d) = 0
  BY <1>1 DEF Behind
<1>3. PICK w : w = Without(s, i, d)
  OBVIOUS
<1>4. w \in Seq(S) /\ Len(w) = l
      /\ \A k \in 1..l : w[k] = IF k <= i THEN s[k] ELSE s[k + d]
  <2>1. w \in Seq(S) /\ LeavesOut(w, s, l - 0, i, d)
    BY <1>1, <1>2, <1>3, WithoutIs
  <2> QED BY <2>1 DEF LeavesOut
<1>5. Len(w) = l /\ \A k \in 1..l : w[k] = s[k]
  <2>1. ASSUME NEW k \in 1..l PROVE w[k] = s[k]
    <3>1. w[k] = IF k <= i THEN s[k] ELSE s[k + d]
      BY <1>4
    <3>2. CASE d = 0
      BY <3>1, <3>2
    <3>3. CASE i >= l
      BY <3>1, <3>3
    <3> QED BY <1>1, <3>2, <3>3
  <2> QED BY <1>4, <2>1
<1> QED BY <1>1, <1>3, <1>4, <1>5, SeqEqual

RemovedBehind(s, l, i, d, n) ==
  Without(s, i, d) = SubSeq(s, 1, i) \o SubSeq(s, i + n + 1, l)

LEMMA SomeRemoved ==
  ASSUME NEW S, NEW s \in Seq(S), NEW l \in Nat, l = Len(s),
         NEW i \in Nat, NEW d \in Nat, i < l,
         NEW n, n = IF d > l - i THEN l - i ELSE d
  PROVE  RemovedBehind(s, l, i, d, n)
<1>1. l = Len(s)
  OBVIOUS
<1>2. n = Behind(l, i, d) /\ n \in Nat /\ n <= l - i /\ n <= d /\ (n < d => n = l - i)
  BY <1>1 DEF Behind
<1>3. PICK w : w = Without(s, i, d)
  OBVIOUS
<1>4. /\ w \in Seq(S) /\ Len(w) = l - n
      /\ \A k \in 1..(l - n) : w[k] = IF k <= i THEN s[k] ELSE s[k + d]
  <2>1. w \in Seq(S) /\ LeavesOut(w, s, l - n, i, d)
    BY <1>1, <1>2, <1>3, WithoutIs
  <2> QED BY <2>1 DEF LeavesOut
<1>5. PICK a : a = SubSeq(s, 1, i)
  OBVIOUS
<1>6. PICK b : b = SubSeq(s, i + n + 1, l)
  OBVIOUS
<1>7. a \in Seq(S) /\ Len(a) = i /\ \A k \in 1..i : a[k] = s[k]
  <2>1. 1 \in 1..(Len(s) + 1) /\ i \in (1 - 1)..Len(s) /\ i - 1 + 1 = i
    BY <1>1
  <2>2. a \in Seq(S) /\ Len(a) = i /\ \A k \in 1..i : a[k] = s[1 + k - 1]
    BY <1>5, <2>1, PartOf
  <2> QED BY <2>2
<1>8. /\ b \in Seq(S) /\ Len(b) = l - (i + n)
      /\ \A k \in 1..(l - (i + n)) : b[k] = s[i + n + k]
  <2>1. /\ i + n + 1 \in 1..(Len(s) + 1) /\ l \in ((i + n + 1) - 1)..Len(s)
        /\ l - (i + n + 1) + 1 = l - (i + n)
    BY <1>1, <1>2
  <2>2. /\ b \in Seq(S) /\ Len(b) = l - (i + n)
        /\ \A k \in 1..(l - (i + n)) : b[k] = s[(i + n + 1) + k - 1]
    <3>1. PICK p : p = i + n + 1
      OBVIOUS
    <3>2. PICK m : m = l - (i + n)
      OBVIOUS
    <3>3. p \in 1..(Len(s) + 1) /\ l \in (p - 1)..Len(s) /\ l - p + 1 = m
      BY <2>1, <3>1, <3>2
    <3>4. b = SubSeq(s, p, l)
      BY <1>6, <3>1
    <3>5. /\ b \in Seq(S) /\ Len(b) = l - p + 1
          /\ \A k \in 1..(l - p + 1) : b[k] = s[p + k - 1]
      BY <3>3, <3>4, PartOf
    <3>6. Len(b) = m /\ \A k \in 1..m : b[k] = s[p + k - 1]
      BY <3>3, <3>5
    <3> QED BY <3>1, <3>2, <3>5, <3>6
  <2>3. ASSUME NEW k \in 1..(l - (i + n)) PROVE b[k] = s[i + n + k]
    <3>1. (i + n + 1) + k - 1 = i + n + k
      BY <1>1, <1>2
    <3> QED BY <2>2, <3>1
  <2> QED BY <2>2, <2>3
<1>9. PICK u : u = a \o b
  OBVIOUS
<1>10. /\ u \in Seq(S) /\ Len(u) = l - n
       /\ \A k \in 1..(l - n) : u[k] = IF k <= i THEN a[k] ELSE b[k - i]
  <2>1. i + (l - (i + n)) = l - n
    BY <1>1, <1>2
  <2>2. PICK m \in Nat : m = l - (i + n) /\ i + m = l - n
    <3>1. l - (i + n) \in Nat
      BY <1>1, <1>2
    <3> QED BY <2>1, <3>1
  <2>3. Len(a) = i /\ Len(b) = m
    BY <1>7, <1>8, <2>2
  <2>4. /\ u \in Seq(S) /\ Len(u) = Len(a) + Len(b)
        /\ \A k \in 1..(Len(a) + Len(b)) : u[k] = IF k <= Len(a) THEN a[k] ELSE b[k - Len(a)]
    <3>1. a \in Seq(S) /\ b \in Seq(S)
      BY <1>7, <1>8
    <3> QED BY <1>9, <3>1, ConcatProperties
  <2>5. /\ Len(u) = i + m
        /\ \A k \in 1..(i + m) : u[k] = IF k <= i THEN a[k] ELSE b[k - i]
    BY <2>3, <2>4
  <2> QED BY <2>2, <2>4, <2>5
<1>11. ASSUME NEW k \in 1..(l - n) PROVE w[k] = u[k]
  <2>1. CASE k <= i
    BY <1>4, <1>7, <1>10, <2>1
  <2>2. CASE k > i
    <3>1. k - i \in 1..(l - (i + n)) /\ n = d
      BY <1>1, <1>2, <2>2
    <3>2. i + n + (k - i) = k + d
      BY <1>1, <1>2, <3>1
    <3>3. u[k] = b[k - i]
      <4>1. ~(k <= i)
        BY <1>1, <1>2, <2>2
      <4> QED BY <1>10, <4>1
    <3>4. b[k - i] = s[k + d]
      BY <1>8, <3>1, <3>2
    <3>5. w[k] = s[k + d]
      BY <1>4, <2>2
    <3> QED BY <3>3, <3>4, <3>5
  <2> QED BY <1>1, <1>2, <2>1, <2>2
<1>12. w = u
  BY <1>4, <1>10, <1>11, SeqEqual
<1> QED BY <1>1, <1>3, <1>5, <1>6, <1>9, <1>12 DEF RemovedBehind

(* What substring() keeps is the text without its end and its beginning. *)
LeftBetween(s, l, lo, hi, last) ==
  Without(Without(s, hi, l), 0, lo)
    = IF lo >= l THEN <<>> ELSE SubSeq(s, lo + 1, last)

LEMMA BothEndsRemoved ==
  ASSUME NEW S, NEW s \in Seq(S), NEW l \in Nat, l = Len(s),
         NEW lo \in Nat, NEW hi \in Nat, lo <= hi,
         NEW last, last = IF hi > l THEN l ELSE hi
  PROVE  LeftBetween(s, l, lo, hi, last)
<1>1. l = Len(s)
  OBVIOUS
<1>2. last \in Nat /\ last <= l /\ last <= hi /\ Behind(l, hi, l) = l - last
  <2>1. last = IF hi > l THEN l ELSE hi
    BY <1>1
  <2>2. Behind(l, hi, l) = IF hi >= l THEN 0 ELSE IF l > l - hi THEN l - hi ELSE l
    BY DEF Behind
  <2>3. last \in Nat /\ last <= l /\ last <= hi
    BY <2>1
  <2>4. CASE hi >= l
    BY <2>1, <2>2, <2>3, <2>4
  <2>5. CASE hi < l
    <3>1. last = hi /\ ~(hi >= l)
      BY <2>1, <2>5
    <3>2. (IF l > l - hi THEN l - hi ELSE l) = l - hi
      OBVIOUS
    <3> QED BY <2>2, <2>3, <3>1, <3>2
  <2> QED BY <2>3, <2>4, <2>5
<1>3. PICK w : w = Without(s, hi, l)
  OBVIOUS
<1>4. w \in Seq(S) /\ Len(w) = last /\ \A k \in 1..last : w[k] = s[k]
  <2>1. w \in Seq(S) /\ LeavesOut(w, s, l - (l - last), hi, l)
    BY <1>1, <1>2, <1>3, WithoutIs
  <2>2. l - (l - last) = last /\ \A k \in 1..last : k <= hi
    BY <1>1, <1>2
  <2>3. w \in Seq(S) /\ LeavesOut(w, s, last, hi, l)
    BY <2>1, <2>2
  <2> QED BY <2>2, <2>3 DEF LeavesOut
<1>5. PICK n : n = Behind(last, 0, lo) /\ n \in 0..last
  <2>1. Behind(last, 0, lo) \in 0..last
    BY <1>2, BehindIs
  <2> QED BY <2>1
<1>6. PICK u : u = Without(w, 0, lo)
  OBVIOUS
<1>7. /\ u \in Seq(S) /\ Len(u) = last - n
      /\ \A k \in 1..(last - n) : u[k] = w[k + lo]
  <2>1. u \in Seq(S) /\ LeavesOut(u, w, last - n, 0, lo)
    BY <1>2, <1>4, <1>5, <1>6, WithoutIs
  <2>2. \A k \in 1..(last - n) : ~(k <= 0)
    BY <1>2, <1>5
  <2> QED BY <2>1, <2>2 DEF LeavesOut
<1>8. CASE lo >= l
  <2>1. Len(u) = 0
    BY <1>1, <1>2, <1>5, <1>7, <1>8 DEF Behind
  <2>2. u = <<>>
    BY <1>7, <2>1, EmptySeq
  <2> QED BY <1>1, <1>3, <1>6, <1>8, <2>2 DEF LeftBetween
<1>9. CASE lo < l
  <2>1. lo <= last /\ (last - n = last - lo)
    <3>1. last = IF hi > l THEN l ELSE hi
      BY <1>1
    <3>2. lo <= last
      BY <1>9, <3>1
    <3>3. n = lo
      BY <1>2, <1>5, <3>2 DEF Behind
    <3> QED BY <3>2, <3>3
  <2>2. PICK t : t = SubSeq(s, lo + 1, last)
    OBVIOUS
  <2>3. /\ lo + 1 \in 1..(Len(s) + 1) /\ last \in ((lo + 1) - 1)..Len(s)
        /\ last - (lo + 1) + 1 = last - lo
    BY <1>1, <1>2, <1>9, <2>1
  <2>4. /\ t \in Seq(S) /\ Len(t) = last - lo
        /\ \A k \in 1..(last - lo) : t[k] = s[(lo + 1) + k - 1]
    BY <2>2, <2>3, PartOf
  <2>5. ASSUME NEW k \in 1..(last - lo) PROVE u[k] = t[k]
    <3>1. k + lo \in 1..last /\ (lo + 1) + k - 1 = k + lo
      BY <1>2, <2>1
    <3> QED BY <1>4, <1>7, <2>1, <2>4, <3>1
  <2>6. u = t
    <3>1. Len(u) = last - lo
      BY <1>7, <2>1
    <3> QED BY <1>7, <2>4, <2>5, <3>1, SeqEqual
  <2> QED BY <1>1, <1>3, <1>6, <1>9, <2>2, <2>6 DEF LeftBetween
<1> QED BY <1>8, <1>9

(* remove(): the text without the characters named. *)
LEMMA RemoveKeeps ==
  ASSUME NEW r, KeptString(r), NEW begin \in Nat, NEW count \in Nat
  PROVE  /\ KeptString(RemoveIn(r, begin, count))
         /\ RemoveIn(r, begin, count).text = Without(r.text, begin, count)
<1>1. /\ r.len \in Nat /\ r.text \in Seq(StringChar) /\ r.len = Len(r.text)
      /\ r.cap \in Nat /\ r.len <= r.cap
  BY DEF KeptString, Strings
<1>2. CASE begin >= r.len \/ count = 0
  <2>1. RemoveIn(r, begin, count) = r
    BY <1>2 DEF RemoveIn
  <2>2. Without(r.text, begin, count) = r.text
    BY <1>1, <1>2, NothingRemoved
  <2> QED BY <2>1, <2>2
<1>3. CASE ~(begin >= r.len \/ count = 0)
  <2>1. PICK n : n = IF count > r.len - begin THEN r.len - begin ELSE count
    OBVIOUS
  <2>2. n \in Nat /\ n <= r.len - begin
    BY <1>1, <1>3, <2>1
  <2>3. PICK t : t = SubSeq(r.text, 1, begin) \o SubSeq(r.text, begin + n + 1, r.len)
    OBVIOUS
  <2>4. t \in Seq(StringChar) /\ Len(t) = r.len - n
    <3>1. PICK a : a = SubSeq(r.text, 1, begin)
      OBVIOUS
    <3>2. PICK b : b = SubSeq(r.text, begin + n + 1, r.len)
      OBVIOUS
    <3>3. a \in Seq(StringChar) /\ Len(a) = begin
      <4>1. 1 \in 1..(Len(r.text) + 1) /\ begin \in (1 - 1)..Len(r.text) /\ begin - 1 + 1 = begin
        BY <1>1, <1>3
      <4> QED BY <1>1, <3>1, <4>1, PartOf
    <3>4. b \in Seq(StringChar) /\ Len(b) = r.len - (begin + n)
      <4>1. /\ begin + n + 1 \in 1..(Len(r.text) + 1)
            /\ r.len \in ((begin + n + 1) - 1)..Len(r.text)
            /\ r.len - (begin + n + 1) + 1 = r.len - (begin + n)
        BY <1>1, <1>3, <2>2
      <4> QED BY <1>1, <3>2, <4>1, PartOf
    <3>5. a \o b \in Seq(StringChar) /\ Len(a \o b) = Len(a) + Len(b)
      BY <3>3, <3>4, ConcatProperties
    <3>6. t = a \o b
      BY <2>3, <3>1, <3>2
    <3>7. begin + (r.len - (begin + n)) = r.len - n
      BY <1>1, <2>2
    <3> QED BY <3>3, <3>4, <3>5, <3>6, <3>7
  <2>5. RemoveIn(r, begin, count) = SetLenText(r, r.len - n, t)
    BY <1>1, <1>3, <2>1, <2>3 DEF RemoveIn, SetLenText
  <2>6. r.valid
    BY <1>1, <1>3 DEF KeptString, Null
  <2>7. Len(t) <= r.cap
    BY <1>1, <2>2, <2>4
  <2>8. t = Without(r.text, begin, count)
    <3>1. PICK s \in Seq(StringChar), l \in Nat : s = r.text /\ l = r.len /\ l = Len(s)
      BY <1>1
    <3>2. begin < l /\ n = IF count > l - begin THEN l - begin ELSE count
      BY <1>3, <2>1, <3>1
    <3>3. RemovedBehind(s, l, begin, count, n)
      BY <3>1, <3>2, SomeRemoved
    <3> QED BY <2>3, <3>1, <3>3 DEF RemovedBehind
  <2>9. KeptString(SetLenText(r, Len(t), t)) /\ SetLenText(r, Len(t), t).text = t
    BY <2>4, <2>6, <2>7, TextSet
  <2>10. RemoveIn(r, begin, count) = SetLenText(r, Len(t), t)
    BY <2>4, <2>5
  <2> QED BY <2>8, <2>9, <2>10
<1> QED BY <1>2, <1>3

(* trim(): a part of the text. *)
LEMMA TrimTextIs ==
  ASSUME NEW s \in Seq(StringChar), NEW t, t = TrimText(s)
  PROVE  t \in Seq(StringChar) /\ Len(t) <= Len(s) /\ Trimmed(s, t)
<1>1. PICK l \in Nat : l = Len(s) /\ DOMAIN s = 1..l
  BY LenProperties
<1>2. PICK kept : kept = {i \in DOMAIN s : s[i] # Blank}
  OBVIOUS
<1>3. kept \subseteq 1..l
  BY <1>1, <1>2
<1>4. CASE kept = {}
  <2>1. t = <<>>
    BY <1>2, <1>4 DEF TrimText
  <2>2. \A k \in DOMAIN s : s[k] = Blank
    BY <1>2, <1>4
  <2>3. 1 \in 1..(Len(s) + 1) /\ 0 \in (1 - 1)..Len(s)
    BY <1>1
  <2>4. SubSeq(s, 1, 0) = <<>>
    BY SubSeqEmpty
  <2>5. Trimmed(s, <<>>)
    BY <2>2, <2>3, <2>4 DEF Trimmed
  <2>6. Len(<<>>) <= Len(s) /\ <<>> \in Seq(StringChar)
    BY <1>1
  <2> QED BY <2>1, <2>5, <2>6
<1>5. CASE kept # {}
  <2>1. t = SubSeq(s, Min(kept), Max(kept))
    BY <1>2, <1>5 DEF TrimText
  <2>2. PICK lo \in kept : lo = Min(kept) /\ \A i \in kept : lo <= i
    <3>1. \E x \in kept : \A y \in kept : x <= y
      <4>1. kept \subseteq Nat
        BY <1>3
      <4> QED BY <1>5, <4>1, LeastOf
    <3> QED BY <3>1 DEF Min
  <2>3. PICK hi \in kept : hi = Max(kept) /\ \A i \in kept : i <= hi
    <3>1. \E x \in kept : \A y \in kept : y <= x
      <4>1. kept \subseteq 0..l
        BY <1>3
      <4> QED BY <1>5, <4>1, GreatestExists
    <3> QED BY <3>1 DEF Max
  <2>4. lo <= hi /\ lo \in 1..l /\ hi \in 1..l
    BY <1>3, <2>2, <2>3
  <2>5. lo \in 1..(Len(s) + 1) /\ hi \in (lo - 1)..Len(s) /\ hi - lo + 1 <= Len(s)
    BY <1>1, <2>4
  <2>6. t = SubSeq(s, lo, hi)
    BY <2>1, <2>2, <2>3
  <2>7. /\ t \in Seq(StringChar) /\ Len(t) = hi - lo + 1
        /\ \A k \in 1..(hi - lo + 1) : t[k] = s[lo + k - 1]
    BY <2>5, <2>6, PartOf
  <2>8. \A k \in DOMAIN s : k < lo \/ k > hi => s[k] = Blank
    <3> SUFFICES ASSUME NEW k \in DOMAIN s, k < lo \/ k > hi, s[k] # Blank PROVE FALSE
      OBVIOUS
    <3>1. k \in kept /\ k \in Nat
      BY <1>1, <1>2
    <3> QED BY <2>2, <2>3, <2>4, <3>1
  <2>9. t[1] # Blank /\ t[Len(t)] # Blank
    <3>1. 1 \in 1..(hi - lo + 1) /\ lo + 1 - 1 = lo
      BY <2>4
    <3>2. hi - lo + 1 \in 1..(hi - lo + 1) /\ lo + (hi - lo + 1) - 1 = hi
      BY <2>4
    <3>3. t[1] = s[lo] /\ t[hi - lo + 1] = s[hi]
      BY <2>7, <3>1, <3>2
    <3>4. s[lo] # Blank /\ s[hi] # Blank
      BY <1>2
    <3> QED BY <2>7, <3>3, <3>4
  <2>10. Trimmed(s, t)
    BY <2>5, <2>6, <2>8, <2>9 DEF Trimmed
  <2> QED BY <2>5, <2>7, <2>10
<1> QED BY <1>4, <1>5

LEMMA TrimKeeps ==
  ASSUME NEW r, KeptString(r)
  PROVE  KeptString(TrimIn(r)) /\ Trimmed(r.text, TrimIn(r).text)
<1>1. /\ r.len \in Nat /\ r.text \in Seq(StringChar) /\ r.len = Len(r.text)
      /\ r.cap \in Nat /\ r.len <= r.cap
  BY DEF KeptString, Strings
<1>2. PICK t : t = TrimText(r.text)
  OBVIOUS
<1>3. t \in Seq(StringChar) /\ Len(t) <= r.len /\ Trimmed(r.text, t)
  BY <1>1, <1>2, TrimTextIs
<1>4. CASE ~r.valid \/ r.len = 0
  <2>1. TrimIn(r) = r
    BY <1>4 DEF TrimIn
  <2>2. r.text = <<>>
    <3>1. CASE ~r.valid
      BY <3>1, NullKept DEF KeptString
    <3>2. CASE r.len = 0
      BY <1>1, <3>2, EmptySeq
    <3> QED BY <1>4, <3>1, <3>2
  <2>3. t = <<>>
    <3>1. Len(t) = 0
      BY <1>1, <1>3, <2>2, EmptySeq, LenProperties
    <3> QED BY <1>3, <3>1, EmptySeq
  <2> QED BY <1>3, <2>1, <2>2, <2>3
<1>5. CASE ~(~r.valid \/ r.len = 0)
  <2>1. TrimIn(r) = SetTextLen(r, t, Len(t))
    BY <1>2, <1>5 DEF TrimIn, SetTextLen
  <2>2. r.valid /\ Len(t) <= r.cap
    BY <1>1, <1>3, <1>5, LenProperties
  <2>3. KeptString(SetTextLen(r, t, Len(t))) /\ SetTextLen(r, t, Len(t)).text = t
    BY <1>3, <2>2, TextSet
  <2> QED BY <1>3, <2>1, <2>3
<1> QED BY <1>4, <1>5

(* substring(), and the text that is promised *)
SubstringText(text, left, right) ==
  Without(Without(text, Max({left, right}), Len(text)), 0, Min({left, right}))

LEMMA Ordered ==
  ASSUME NEW left \in Nat, NEW right \in Nat
  PROVE  /\ Min({left, right}) = IF left <= right THEN left ELSE right
         /\ Max({left, right}) = IF left <= right THEN right ELSE left
<1>1. PICK lo \in Nat : lo = IF left <= right THEN left ELSE right
  OBVIOUS
<1>2. PICK hi \in Nat : hi = IF left <= right THEN right ELSE left
  OBVIOUS
<1>3. {left, right} = {lo, hi} /\ lo <= hi
  BY <1>1, <1>2
<1>4. Min({lo, hi}) = lo
  BY <1>3 DEF Min
<1>5. Max({lo, hi}) = hi
  BY <1>3 DEF Max
<1> QED BY <1>1, <1>2, <1>3, <1>4, <1>5

LEMMA SubstringKeeps ==
  ASSUME NEW r, KeptString(r), NEW left \in Nat, NEW right \in Nat,
         NEW new \in SubstringOf(r, left, right)
  PROVE  /\ KeptString(new)
         /\ new.valid => new.text = SubstringText(r.text, left, right)
<1>1. /\ r.len \in Nat /\ r.text \in Seq(StringChar) /\ r.len = Len(r.text)
  BY DEF KeptString, Strings
<1>2. PICK b : b = Bounds(r, left, right)
  OBVIOUS
<1>3. PICK t : t = SubSeq(r.text, b.first + 1, b.last)
  OBVIOUS
<1>4. PICK out \in Copy(Null, <<>>, 0) :
        new \in IF b.first >= r.len THEN {out} ELSE Copy(out, t, Len(t))
  BY <1>2, <1>3 DEF SubstringOf
<1>5. KeptString(out) /\ (out.valid => out.text = <<>>)
  <2>1. <<>> \in Seq(StringChar) /\ Len(<<>>) = 0
    OBVIOUS
  <2>2. out \in Copy(Null, <<>>, Len(<<>>))
    BY <2>1
  <2> QED BY <2>1, <2>2, NullKept, CopyKeeps
<1>0. PICK lo \in Nat, hi \in Nat : /\ lo = Min({left, right}) /\ hi = Max({left, right})
                                    /\ lo <= hi /\ b.first = lo
                                    /\ b.last = IF hi > r.len THEN r.len ELSE hi
  <2>1. PICK lo \in Nat : lo = IF left <= right THEN left ELSE right
    OBVIOUS
  <2>2. PICK hi \in Nat : hi = IF left <= right THEN right ELSE left
    OBVIOUS
  <2>3. lo <= hi /\ lo = Min({left, right}) /\ hi = Max({left, right})
    BY <2>1, <2>2, Ordered
  <2>4. b = [first |-> lo, last |-> IF hi > r.len THEN r.len ELSE hi]
    BY <1>2, <2>1, <2>2 DEF Bounds
  <2>5. b.first = lo /\ b.last = IF hi > r.len THEN r.len ELSE hi
    BY <2>4
  <2> QED BY <2>3, <2>5
<1>8. SubstringText(r.text, left, right)
        = IF lo >= r.len THEN <<>> ELSE SubSeq(r.text, lo + 1, b.last)
  <2>1. PICK s \in Seq(StringChar), l \in Nat : s = r.text /\ l = r.len /\ l = Len(s)
    BY <1>1
  <2>2. PICK last : last = b.last /\ last = IF hi > l THEN l ELSE hi
    BY <1>0, <2>1
  <2>3. LeftBetween(s, l, lo, hi, last)
    BY <1>0, <2>1, <2>2, BothEndsRemoved
  <2> QED BY <1>0, <1>1, <2>1, <2>2, <2>3 DEF SubstringText, LeftBetween
<1>6. CASE b.first >= r.len
  BY <1>0, <1>4, <1>5, <1>6, <1>8
<1>7. CASE ~(b.first >= r.len)
  <2>1. b.first \in Nat /\ b.last \in Nat /\ b.last <= r.len /\ b.first <= b.last
    BY <1>1, <1>2, <1>7 DEF Bounds
  <2>2. t \in Seq(StringChar)
    <3>1. b.first + 1 \in 1..(Len(r.text) + 1) /\ b.last \in ((b.first + 1) - 1)..Len(r.text)
      BY <1>1, <2>1
    <3> QED BY <1>1, <1>3, <3>1, PartOf
  <2>3. new \in Copy(out, t, Len(t))
    BY <1>4, <1>7
  <2>4. t = SubstringText(r.text, left, right)
    BY <1>0, <1>3, <1>7, <1>8
  <2>5. KeptString(new) /\ (new = Null \/ (new.valid /\ new.text = t))
    BY <1>5, <2>2, <2>3, CopyKeeps
  <2> QED BY <2>4, <2>5, NullKept
<1> QED BY <1>6, <1>7

(* setCharAt() and replace(char, char): other characters, not more. *)
LEMMA CharSet ==
  ASSUME NEW r, KeptString(r), NEW i \in Nat, i < r.len, NEW ch \in StringChar
  PROVE  /\ KeptString([r EXCEPT !.text[i + 1] = ch])
         /\ [r EXCEPT !.text[i + 1] = ch].text
              = [k \in DOMAIN r.text |-> IF k = i + 1 THEN ch ELSE r.text[k]]
<1>1. /\ r.len \in Nat /\ r.text \in Seq(StringChar) /\ r.len = Len(r.text)
      /\ r.cap \in Nat /\ r.len <= r.cap /\ HasFields(r)
  BY DEF KeptString, Strings, HasFields
<1>2. PICK t : t = [r.text EXCEPT ![i + 1] = ch]
  OBVIOUS
<1>3. t \in Seq(StringChar) /\ Len(t) = r.len
  <2>1. i + 1 \in 1..Len(r.text)
    BY <1>1
  <2>2. PICK s \in Seq(StringChar) : s = r.text
    BY <1>1
  <2> QED BY <1>1, <1>2, <2>1, <2>2, ExceptSeq
<1>4. [r EXCEPT !.text[i + 1] = ch] = [r EXCEPT !.text = t]
  BY <1>2
<1>5. PICK q : q = [r EXCEPT !.text = t]
  OBVIOUS
<1>6. q = [valid |-> r.valid, cap |-> r.cap, len |-> r.len, text |-> t]
  BY <1>1, <1>5 DEF HasFields
<1>7. r.valid = TRUE
  BY <1>1 DEF KeptString, Strings, Null
<1>8. KeptString(q)
  <2>1. KeptString([valid |-> TRUE, cap |-> r.cap, len |-> r.len, text |-> t])
    BY <1>1, <1>3, StringOf
  <2> QED BY <1>6, <1>7, <2>1
<1>9. t = [k \in DOMAIN r.text |-> IF k = i + 1 THEN ch ELSE r.text[k]]
  BY <1>2
<1>10. q.text = t
  BY <1>6
<1> QED BY <1>4, <1>5, <1>8, <1>9, <1>10

LEMMA CharsReplaced ==
  ASSUME NEW r, KeptString(r), NEW find \in StringChar, NEW with \in StringChar
  PROVE  KeptString([r EXCEPT !.text =
                       [i \in DOMAIN @ |-> IF @[i] = find THEN with ELSE @[i]]])
<1>1. /\ r.len \in Nat /\ r.text \in Seq(StringChar) /\ r.len = Len(r.text)
      /\ r.cap \in Nat /\ r.len <= r.cap /\ HasFields(r) /\ r.valid \in BOOLEAN
  BY DEF KeptString, Strings, HasFields
<1>2. PICK t : t = [i \in DOMAIN r.text |-> IF r.text[i] = find THEN with ELSE r.text[i]]
  OBVIOUS
<1>3. t \in Seq(StringChar) /\ Len(t) = r.len
  <2>1. DOMAIN r.text = 1..r.len
    BY <1>1, LenProperties
  <2>2. \A i \in 1..r.len : r.text[i] \in StringChar
    BY <1>1, ElementOfSeq
  <2>3. t \in [1..r.len -> StringChar]
    BY <1>2, <2>1, <2>2
  <2>4. t \in Seq(StringChar)
    BY <1>1, <2>3, SeqDef
  <2> QED BY <1>1, <2>3, <2>4, LenProperties
<1>4. [r EXCEPT !.text = [i \in DOMAIN @ |-> IF @[i] = find THEN with ELSE @[i]]]
        = [r EXCEPT !.text = t]
  BY <1>2
<1>5. PICK q : q = [r EXCEPT !.text = t]
  OBVIOUS
<1>6. q = [valid |-> r.valid, cap |-> r.cap, len |-> r.len, text |-> t]
  BY <1>1, <1>5 DEF HasFields
<1>7. CASE r.valid
  <2>1. KeptString([valid |-> TRUE, cap |-> r.cap, len |-> r.len, text |-> t])
    BY <1>1, <1>3, StringOf
  <2>2. r.valid = TRUE
    BY <1>1, <1>7
  <2> QED BY <1>4, <1>5, <1>6, <2>1, <2>2
<1>8. CASE ~r.valid
  <2>1. r = Null
    BY <1>8 DEF KeptString
  <2>2. r.text = <<>>
    BY <2>1, NullKept
  <2>3. t = <<>>
    <3>1. r.len = 0
      BY <1>1, <2>2
    <3> QED BY <1>3, <3>1, EmptySeq
  <2>4. q = r
    BY <1>1, <1>6, <2>2, <2>3 DEF HasFields
  <2> QED BY <1>4, <1>5, <2>4
<1> QED BY <1>7, <1>8

(* replace(): the text with every occurrence replaced, or as it was. *)
LEMMA ReplaceKeeps ==
  ASSUME NEW r, KeptString(r), NEW find \in Seq(StringChar), NEW with \in Seq(StringChar),
         ~Repeats(find, with), NEW new \in ReplaceIn(r, find, with)
  PROVE  /\ KeptString(new)
         /\ \/ find = <<>> /\ new = r
            \/ find # <<>> /\ new.text = ReplaceLeft(r.text, find, with)
            \/ Len(with) > Len(find) /\ new = r
<1>1. /\ r.len \in Nat /\ r.text \in Seq(StringChar) /\ r.len = Len(r.text)
      /\ r.cap \in Nat /\ r.len <= r.cap /\ HasFields(r)
  BY DEF KeptString, Strings, HasFields
<1>2. Len(find) \in Nat /\ Len(with) \in Nat /\ (Len(find) = 0 <=> find = <<>>)
  BY LenProperties, EmptySeq
<1>3. CASE find = <<>>
  <2>1. new = r
    BY <1>2, <1>3 DEF ReplaceIn
  <2> QED BY <1>3, <2>1
<1>4. CASE find # <<>>
  <2>1. PICK from : /\ Replaced(StringChar, r.text, find, with, from)
                    /\ ReplaceLeft(r.text, find, with) = from[1]
    BY <1>1, <1>4, ReplaceLeftIs
  <2>2. PICK left : /\ Counted(r.text, find, left)
                    /\ SizeNeeded(r, find, with) = r.len + left[1] * (Len(with) - Len(find))
    <3>1. PICK left : /\ Counted(r.text, find, left)
                      /\ \A q, w : q.text = r.text =>
                           SizeNeeded(q, find, w) = q.len + left[1] * (Len(w) - Len(find))
      BY <1>1, <1>4, SizeNeededIs
    <3> QED BY <3>1
  <2>3. PICK t : t = ReplaceLeft(r.text, find, with)
    OBVIOUS
  <2>4. PICK d : d = left[1] * (Len(with) - Len(find))
    OBVIOUS
  <2>5. /\ t \in Seq(StringChar) /\ Len(t) = r.len + d
        /\ left[1] \in Nat
    BY <1>1, <1>4, <2>1, <2>2, <2>3, <2>4, ReplacedLen
  <2>6. Len(t) \in Nat
    BY <2>5, LenProperties
  <2>7. SizeNeeded(r, find, with) = Len(t)
    BY <2>2, <2>4, <2>5
  <2>8. r.len + (Len(t) - Len(r.text)) = Len(t)
    <3>1. PICK L \in Nat : L = Len(t)
      BY <2>6
    <3>2. PICK N \in Nat : N = r.len
      BY <1>1
    <3>3. N + (L - N) = L
      OBVIOUS
    <3>4. Len(r.text) = N
      BY <1>1, <3>2
    <3> QED BY <3>1, <3>2, <3>3, <3>4
  <2>9. CASE r.len = 0
    <3>1. new = r
      BY <2>9 DEF ReplaceIn
    <3>2. r.text = <<>>
      BY <1>1, <2>9, EmptySeq
    <3>3. t = r.text
      <4>1. 1 \in 1..(Len(r.text) + Len(find)) /\ 1 > Len(r.text)
        BY <1>1, <1>2, <1>4, <2>9
      <4>2. from[1] = <<>>
        BY <1>1, <2>1, <4>1, PastTheEnd
      <4> QED BY <2>1, <2>3, <3>2, <4>2
    <3> QED BY <1>4, <2>3, <3>1, <3>3
  <2>10. CASE r.len # 0 /\ Len(with) <= Len(find)
    <3>1. r.valid
      BY <2>10 DEF KeptString, Null
    <3>2. new = SetTextLen(r, t, r.len + (Len(t) - Len(r.text)))
      BY <1>2, <1>4, <2>3, <2>10 DEF ReplaceIn, SetTextLen
    <3>3. r.len + (Len(t) - Len(r.text)) = Len(t)
      BY <2>8
    <3>4. Len(t) <= r.cap
      <4>1. PICK x \in Nat : x = Len(find) - Len(with)
        BY <1>2, <2>10
      <4>2. PICK l \in Nat : l = left[1]
        BY <2>5
      <4>3. l * (0 - x) <= 0
        OBVIOUS
      <4>4. d = l * (0 - x)
        BY <1>2, <2>4, <4>1, <4>2
      <4>5. d <= 0 /\ d \in Int
        BY <4>3, <4>4
      <4> QED BY <1>1, <2>5, <4>5
    <3>5. new = SetTextLen(r, t, Len(t))
      BY <3>2, <3>3
    <3> QED BY <1>4, <2>3, <2>5, <3>1, <3>4, <3>5, TextSet
  <2>11. CASE r.len # 0 /\ ~(Len(with) <= Len(find))
    <3>1. r.valid /\ Len(with) > Len(find)
      BY <1>2, <2>11 DEF KeptString, Null
    <3>2. ReplaceRight(r.text, find, with) = t
      BY <1>1, <1>4, <2>3, <3>1, RightIsLeft
    <3>3. r.len + (Len(t) - Len(r.text)) = Len(t)
      BY <2>8
    <3>4. PICK g : g = SetTextLen(r, t, Len(t))
      OBVIOUS
    <3>5. new = r \/ (Len(t) <= r.cap /\ new = g) \/ new = [g EXCEPT !.cap = Len(t)]
      <4>1. [r EXCEPT !.text = t, !.len = r.len + (Len(t) - Len(r.text))] = g
        BY <3>3, <3>4 DEF SetTextLen
      <4> QED BY <1>2, <1>4, <2>7, <2>11, <3>2, <4>1 DEF ReplaceIn
    <3>6. CASE new = r
      BY <3>1, <3>6
    <3>7. CASE Len(t) <= r.cap /\ new = g
      BY <1>4, <2>3, <2>5, <3>1, <3>4, <3>7, TextSet
    <3>8. CASE new = [g EXCEPT !.cap = Len(t)]
      <4>1. g = [valid |-> r.valid, cap |-> r.cap, len |-> Len(t), text |-> t]
        BY <1>1, <3>4, TextLen
      <4>2. r.valid = TRUE
        BY <3>1 DEF KeptString, Strings
      <4>3. new = [valid |-> TRUE, cap |-> Len(t), len |-> Len(t), text |-> t]
        BY <3>8, <4>1, <4>2
      <4>4. KeptString([valid |-> TRUE, cap |-> Len(t), len |-> Len(t), text |-> t])
        BY <2>5, <2>6, StringOf
      <4>5. new.text = t
        BY <4>3
      <4> QED BY <1>4, <2>3, <4>3, <4>4, <4>5
    <3> QED BY <3>5, <3>6, <3>7, <3>8
  <2> QED BY <2>9, <2>10, <2>11
<1> QED BY <1>3, <1>4

(* The inductive invariant: every object is kept. *)
StringInv ==
  /\ str \in [Obj -> Strings]
  /\ \A o \in Obj : KeptString(str[o])

LEMMA OneObject ==
  ASSUME StringInv, NEW o \in Obj, NEW r, KeptString(r), str' = [str EXCEPT ![o] = r]
  PROVE  StringInv'
<1>1. r \in Strings
  BY DEF KeptString
<1>2. str' \in [Obj -> Strings]
  <2> HIDE DEF Strings
  <2> QED BY <1>1 DEF StringInv
<1>3. ASSUME NEW p \in Obj PROVE KeptString(str'[p])
  <2>1. str'[p] = IF p = o THEN r ELSE str[p]
    <3> HIDE DEF Strings, KeptString
    <3> QED BY DEF StringInv
  <2> QED BY <2>1 DEF StringInv
<1>4. PICK s : s = str'
  OBVIOUS
<1>5. s \in [Obj -> Strings] /\ \A p \in Obj : KeptString(s[p])
  BY <1>2, <1>3, <1>4
<1> QED BY <1>4, <1>5 DEF StringInv, KeptString, Strings

LEMMA StringInitInv == StringInit => StringInv
<1> SUFFICES ASSUME StringInit PROVE StringInv
  OBVIOUS
<1>1. KeptString(Null) /\ Null \in Strings
  BY NullKept DEF KeptString
<1> QED BY <1>1 DEF StringInit, StringInv

LEMMA StringStepInv ==
  ASSUME ~MayKeep, ~MaySelf, ~MayRepeat, StringInv, StringNext
  PROVE  StringInv'
<1> USE DEF Did
<1>1. \A o \in Obj : KeptString(str[o])
  BY DEF StringInv
<1>2. \A text \in Literals : text \in Seq(StringChar)
  BY WStringAssumption
<1>3. \A n \in Sizes : n \in Nat
  BY WStringAssumption
<1>4. ASSUME NEW o \in Obj, NEW text \in Literals, AssignText(o, text)
      PROVE  StringInv'
  <2>1. PICK r \in Copy(str[o], text, Len(text)) : str' = [str EXCEPT ![o] = r]
    BY <1>4 DEF AssignText
  <2>2. KeptString(r)
    BY <1>1, <1>2, CopyKeeps
  <2> QED BY <2>1, <2>2, OneObject
<1>5. ASSUME NEW o \in Obj, NEW text \in Literals, Concat(o, text)
      PROVE  StringInv'
  <2>1. PICK a \in ConcatText(str[o], text, Len(text)) : str' = [str EXCEPT ![o] = a.r]
    BY <1>5 DEF Concat
  <2>2. KeptString(a.r)
    BY <1>1, <1>2, ConcatKeeps
  <2> QED BY <2>1, <2>2, OneObject
<1>6. ASSUME NEW o \in Obj, AssignNull(o)
      PROVE  StringInv'
  <2>1. str' = [str EXCEPT ![o] = Null]
    BY <1>6 DEF AssignNull
  <2> QED BY <2>1, NullKept, OneObject
<1>7. ASSUME NEW o \in Obj, NEW p \in Obj, Assign(o, p)
      PROVE  StringInv'
  <2>1. PICK r \in AssignFrom(str[o], str[p]) : str' = [str EXCEPT ![o] = r]
    BY <1>7 DEF Assign
  <2>2. KeptString(r)
    BY <1>1, AssignKeeps
  <2> QED BY <2>1, <2>2, OneObject
<1>8. ASSUME NEW o \in Obj, NEW p \in Obj, Move(o, p)
      PROVE  StringInv'
  <2>1. PICK m : m = MoveFrom(str[o], str[p])[1]
    OBVIOUS
  <2>2. o # p /\ str' = [str EXCEPT ![o] = m, ![p] = Null]
    BY <1>8, <2>1 DEF Move
  <2>3. KeptString(m) /\ KeptString(Null)
    BY <1>1, <2>1, MoveKeeps, NullKept
  <2>4. m \in Strings /\ Null \in Strings
    BY <2>3 DEF KeptString
  <2>5. str' \in [Obj -> Strings]
    <3> HIDE DEF Strings, Null
    <3> QED BY <2>2, <2>4 DEF StringInv
  <2>6. ASSUME NEW q \in Obj PROVE KeptString(str'[q])
    <3>1. str'[q] = IF q = p THEN Null ELSE IF q = o THEN m ELSE str[q]
      BY <2>2 DEF StringInv
    <3> QED BY <1>1, <2>3, <3>1
  <2>7. PICK s : s = str'
    OBVIOUS
  <2>8. s \in [Obj -> Strings] /\ \A q \in Obj : KeptString(s[q])
    BY <2>5, <2>6, <2>7
  <2> QED BY <2>7, <2>8 DEF StringInv, KeptString, Strings
<1>9. ASSUME NEW o \in Obj, NEW p \in Obj, ConcatString(o, p)
      PROVE  StringInv'
  <2>1. PICK a \in ConcatFrom(str[o], str[p]) : str' = [str EXCEPT ![o] = a.r]
    BY <1>9 DEF ConcatString
  <2>2. KeptString(a.r)
    <3>1. CASE str[p].valid
      <4>1. str[p].text \in Seq(StringChar) /\ str[p].len = Len(str[p].text)
        BY <1>1 DEF KeptString, Strings
      <4>2. a \in ConcatText(str[o], str[p].text, Len(str[p].text))
        BY <3>1, <4>1 DEF ConcatFrom
      <4> QED BY <1>1, <4>1, <4>2, ConcatKeeps
    <3>2. CASE ~str[p].valid
      <4>1. a = [ok |-> FALSE, r |-> str[o]]
        BY <3>2 DEF ConcatFrom
      <4>2. a.r = str[o]
        BY <4>1
      <4> QED BY <1>1, <4>2
    <3> QED BY <3>1, <3>2
  <2> QED BY <2>1, <2>2, OneObject
<1>10. ASSUME NEW o \in Obj, NEW p \in Obj, NEW text \in Literals, Plus(o, p, text)
       PROVE  StringInv'
  <2>1. PICK helper \in AssignFrom(Null, str[p]) :
          \E a \in ConcatText(helper, text, Len(text)) :
          \E r \in AssignFrom(str[o], IF a.ok THEN a.r ELSE Null) :
            str' = [str EXCEPT ![o] = r]
    BY <1>10 DEF Plus
  <2>2. KeptString(helper)
    BY <1>1, NullKept, AssignKeeps
  <2>3. PICK a \in ConcatText(helper, text, Len(text)) :
          \E r \in AssignFrom(str[o], IF a.ok THEN a.r ELSE Null) :
            str' = [str EXCEPT ![o] = r]
    BY <2>1
  <2>4. KeptString(a.r)
    BY <1>2, <2>2, ConcatKeeps
  <2>5. PICK s : s = IF a.ok THEN a.r ELSE Null
    OBVIOUS
  <2>6. KeptString(s)
    BY <2>4, <2>5, NullKept
  <2>7. PICK r \in AssignFrom(str[o], s) : str' = [str EXCEPT ![o] = r]
    BY <2>3, <2>5
  <2>8. KeptString(r)
    BY <1>1, <2>6, AssignKeeps
  <2> QED BY <2>7, <2>8, OneObject
<1>11. ASSUME NEW o \in Obj, NEW size \in Sizes, ReserveCall(o, size)
       PROVE  StringInv'
  <2>1. PICK a \in Reserve(str[o], size) : str' = [str EXCEPT ![o] = a.r]
    BY <1>11 DEF ReserveCall
  <2>2. IF a.ok THEN /\ a.r = [valid |-> TRUE, cap |-> a.r.cap, len |-> str[o].len,
                               text |-> str[o].text]
                     /\ a.r.cap \in Nat /\ size <= a.r.cap /\ str[o].len <= a.r.cap
                ELSE a.r = str[o]
    BY <1>1, <1>3, ReserveKeeps
  <2>3. /\ str[o].len \in Nat /\ str[o].text \in Seq(StringChar)
        /\ str[o].len = Len(str[o].text)
    BY <1>1 DEF KeptString, Strings
  <2>4. KeptString(a.r)
    <3>1. CASE a.ok
      <4>1. PICK cp : cp = a.r.cap
        OBVIOUS
      <4>2. KeptString([valid |-> TRUE, cap |-> cp, len |-> str[o].len, text |-> str[o].text])
        BY <2>2, <2>3, <3>1, <4>1, StringOf
      <4> QED BY <2>2, <3>1, <4>1, <4>2
    <3>2. CASE ~a.ok
      BY <1>1, <2>2, <3>2
    <3> QED BY <3>1, <3>2
  <2> QED BY <2>1, <2>4, OneObject
<1>12. ASSUME NEW o \in Obj, NEW p \in Obj, NEW left \in Sizes, NEW right \in Sizes,
              Substring(o, p, left, right)
       PROVE  StringInv'
  <2>1. PICK out \in SubstringOf(str[p], left, right) :
          str' = [str EXCEPT ![o] = MoveFrom(str[o], out)[1]]
    BY <1>12 DEF Substring
  <2>2. KeptString(out)
    BY <1>1, <1>3, SubstringKeeps
  <2>3. KeptString(MoveFrom(str[o], out)[1])
    BY <1>1, <2>2, MoveKeeps
  <2> QED BY <2>1, <2>3, OneObject
<1>13. ASSUME NEW o \in Obj, NEW loc \in Sizes, NEW ch \in StringChar, SetCharAt(o, loc, ch)
       PROVE  StringInv'
  <2>1. CASE loc < str[o].len
    <3>1. PICK r : r = [str[o] EXCEPT !.text[loc + 1] = ch]
      OBVIOUS
    <3>2. str' = [str EXCEPT ![o].text[loc + 1] = ch]
      BY <1>13, <2>1 DEF SetCharAt
    <3>3. str' = [str EXCEPT ![o] = r]
      BY <3>1, <3>2
    <3>4. KeptString(r)
      BY <1>1, <1>3, <2>1, <3>1, CharSet
    <3> QED BY <3>3, <3>4, OneObject
  <2>2. CASE ~(loc < str[o].len)
    <3>1. str' = str
      BY <1>13, <2>2 DEF SetCharAt
    <3> QED BY <3>1 DEF StringInv, KeptString, Strings
  <2> QED BY <2>1, <2>2
<1>14. ASSUME NEW o \in Obj, NEW find \in StringChar, NEW with \in StringChar,
              ReplaceChar(o, find, with)
       PROVE  StringInv'
  <2>1. PICK r : r = [str[o] EXCEPT !.text =
                        [i \in DOMAIN @ |-> IF @[i] = find THEN with ELSE @[i]]]
    OBVIOUS
  <2>2. str' = [str EXCEPT ![o] = r]
    BY <1>14, <2>1 DEF ReplaceChar
  <2>3. KeptString(r)
    BY <1>1, <2>1, CharsReplaced
  <2> QED BY <2>2, <2>3, OneObject
<1>15. ASSUME NEW o \in Obj, NEW find \in Literals, NEW with \in Literals,
              Replace(o, find, with)
       PROVE  StringInv'
  <2>1. ~Repeats(find, with)
    BY <1>15 DEF Replace
  <2>2. PICK r \in ReplaceIn(str[o], find, with) : str' = [str EXCEPT ![o] = r]
    BY <1>15 DEF Replace
  <2>3. KeptString(r)
    BY <1>1, <1>2, <2>1, ReplaceKeeps
  <2> QED BY <2>2, <2>3, OneObject
<1>16. ASSUME NEW o \in Obj, NEW begin \in Sizes, NEW count \in Sizes,
              RemoveCount(o, begin, count)
       PROVE  StringInv'
  <2>1. PICK r : r = RemoveIn(str[o], begin, count)
    OBVIOUS
  <2>2. str' = [str EXCEPT ![o] = r]
    BY <1>16, <2>1 DEF RemoveCount
  <2>3. KeptString(r)
    BY <1>1, <1>3, <2>1, RemoveKeeps
  <2> QED BY <2>2, <2>3, OneObject
<1>17. ASSUME NEW o \in Obj, Trim(o)
       PROVE  StringInv'
  <2>1. PICK r : r = TrimIn(str[o])
    OBVIOUS
  <2>2. str' = [str EXCEPT ![o] = r]
    BY <1>17, <2>1 DEF Trim
  <2>3. KeptString(r)
    BY <1>1, <2>1, TrimKeeps
  <2> QED BY <2>2, <2>3, OneObject
<1> QED
  BY <1>4, <1>5, <1>6, <1>7, <1>8, <1>9, <1>10, <1>11, <1>12, <1>13, <1>14, <1>15, <1>16, <1>17
  DEF StringNext

LEMMA StringInvKeeps == StringInv => TextKept
<1> SUFFICES ASSUME StringInv, NEW o \in Obj
             PROVE  /\ IF str[o].valid THEN /\ Len(str[o].text) <= str[o].cap
                                            /\ str[o].len <= str[o].cap
                       ELSE str[o] = Null
                    /\ str[o].len = Len(str[o].text)
  BY DEF TextKept, TextFits, LengthIsTrue
<1>1. KeptString(str[o])
  BY DEF StringInv
<1> QED BY <1>1 DEF KeptString

(* As long as a sketch does not go on using what it moved from, appends no   *)
(* object to itself, and replaces no text by one that completes another      *)
(* occurrence, every text and its end fit the array whose size capacity      *)
(* tells, and length() is the length of the text: whatever reserve() is      *)
(* refused, in every order of the calls, for every text.                     *)
THEOREM TextIsKept ==
  ASSUME ~MayKeep, ~MaySelf, ~MayRepeat
  PROVE  StringSpec => []TextKept
<1>1. StringInit => StringInv
  BY StringInitInv
<1>2. StringInv /\ [StringNext]_strvars => StringInv'
  <2> SUFFICES ASSUME StringInv, [StringNext]_strvars PROVE StringInv'
    OBVIOUS
  <2>1. CASE StringNext
    BY <2>1, StringStepInv
  <2>2. CASE UNCHANGED strvars
    BY <2>2 DEF StringInv, KeptString, Strings, strvars
  <2> QED BY <2>1, <2>2
<1>3. StringInv => TextKept
  BY StringInvKeeps
<1> QED BY <1>1, <1>2, <1>3, PTL DEF StringSpec

-----------------------------------------------------------------------------
(* What a call says it did, and does to no other object. *)
Says ==
  LET d == done'
  IN d.op \notin {"none", "other"} =>
       /\ Promised(d, str[d.o], str'[d.o])
       /\ d.op # "move" => \A p \in Obj \ {d.o} : str'[p] = str[p]

LEMMA CallSays ==
  ASSUME StringInv, NEW o \in Obj, NEW r, str' = [str EXCEPT ![o] = r],
         NEW d, done' = d, d.o = o, Promised(d, str[o], r)
  PROVE  Says
<1>1. str'[o] = r /\ \A p \in Obj \ {o} : str'[p] = str[p]
  BY DEF StringInv
<1> QED BY <1>1 DEF Says

(* Texts are what strings stand for. *)
LEMMA Texts ==
  ASSUME StringInv
  PROVE  \A o \in Obj : /\ KeptString(str[o]) /\ Val(str[o]) = str[o].text
                        /\ str[o].text \in Seq(StringChar) /\ str[o].len = Len(str[o].text)
                        /\ str[o].valid \in BOOLEAN
<1> SUFFICES ASSUME NEW o \in Obj
             PROVE  /\ KeptString(str[o]) /\ Val(str[o]) = str[o].text
                    /\ str[o].text \in Seq(StringChar) /\ str[o].len = Len(str[o].text)
                    /\ str[o].valid \in BOOLEAN
  OBVIOUS
<1>1. KeptString(str[o])
  BY DEF StringInv
<1>2. Val(str[o]) = str[o].text
  BY <1>1, ValIsText
<1> QED BY <1>1, <1>2 DEF KeptString, Strings

LEMMA StepSays ==
  ASSUME ~MayKeep, ~MaySelf, ~MayRepeat, StringInv, StringNext
  PROVE  Says
<1> USE DEF Did
<1>1. \A o \in Obj : /\ KeptString(str[o]) /\ Val(str[o]) = str[o].text
                     /\ str[o].text \in Seq(StringChar) /\ str[o].len = Len(str[o].text)
                     /\ str[o].valid \in BOOLEAN
  BY Texts
<1>2. \A text \in Literals : text \in Seq(StringChar)
  BY WStringAssumption
<1>3. \A n \in Sizes : n \in Nat
  BY WStringAssumption
<1>4. ASSUME NEW o \in Obj, NEW text \in Literals, AssignText(o, text)
      PROVE  Says
  <2>1. PICK r \in Copy(str[o], text, Len(text)) : str' = [str EXCEPT ![o] = r]
    BY <1>4 DEF AssignText
  <2>2. KeptString(r) /\ (r = Null \/ (r.valid /\ r.text = text))
    BY <1>1, <1>2, CopyKeeps
  <2>3. PICK d : d = [op |-> "assign", o |-> o, with |-> text]
    OBVIOUS
  <2>4. r.valid => Val(r) = text
    BY <2>2, NullKept, ValIsText
  <2>5. Promised(d, str[o], r)
    BY <2>3, <2>4 DEF Promised
  <2>6. done' = d /\ d.o = o
    BY <1>4, <2>3 DEF AssignText
  <2> QED BY <2>1, <2>5, <2>6, CallSays
<1>5. ASSUME NEW o \in Obj, NEW text \in Literals, Concat(o, text)
      PROVE  Says
  <2>1. PICK a \in ConcatText(str[o], text, Len(text)) :
          /\ str' = [str EXCEPT ![o] = a.r]
          /\ done' = [op |-> "concat", o |-> o, with |-> text, ok |-> a.ok]
    BY <1>5 DEF Concat
  <2>2. /\ KeptString(a.r)
        /\ IF a.ok THEN a.r.text = str[o].text \o text ELSE a.r = str[o]
    BY <1>1, <1>2, ConcatKeeps
  <2>3. PICK d : d = [op |-> "concat", o |-> o, with |-> text, ok |-> a.ok]
    OBVIOUS
  <2>4. IF a.ok THEN Val(a.r) = Val(str[o]) \o text ELSE a.r = str[o]
    BY <1>1, <2>2, ValIsText
  <2>5. Promised(d, str[o], a.r)
    BY <2>3, <2>4 DEF Promised
  <2>6. done' = d /\ d.o = o
    BY <2>1, <2>3
  <2> QED BY <2>1, <2>5, <2>6, CallSays
<1>6. ASSUME NEW o \in Obj, AssignNull(o)
      PROVE  Says
  <2>1. PICK d : d = [op |-> "invalidate", o |-> o]
    OBVIOUS
  <2>2. str' = [str EXCEPT ![o] = Null] /\ done' = d /\ d.o = o
    BY <1>6, <2>1 DEF AssignNull
  <2>3. Promised(d, str[o], Null)
    BY <2>1, NullKept DEF Promised
  <2> QED BY <2>2, <2>3, CallSays
<1>7. ASSUME NEW o \in Obj, NEW p \in Obj, Assign(o, p)
      PROVE  Says
  <2>1. PICK r \in AssignFrom(str[o], str[p]) : str' = [str EXCEPT ![o] = r]
    BY <1>7 DEF Assign
  <2>2. /\ KeptString(r)
        /\ r = Null \/ (str[p].valid /\ r.valid /\ r.text = str[p].text)
    BY <1>1, AssignKeeps
  <2>3. PICK d : d = IF str[p].valid THEN [op |-> "assign", o |-> o, with |-> Val(str[p])]
                     ELSE [op |-> "invalidate", o |-> o]
    OBVIOUS
  <2>4. done' = d /\ d.o = o
    BY <1>7, <2>3 DEF Assign
  <2>5. Promised(d, str[o], r)
    <3>1. CASE str[p].valid
      <4>1. r.valid => Val(r) = Val(str[p])
        BY <1>1, <2>2, NullKept, ValIsText
      <4>2. d.op = "assign" /\ d.with = Val(str[p])
        BY <2>3, <3>1
      <4> QED BY <4>1, <4>2 DEF Promised
    <3>2. CASE ~str[p].valid
      <4>1. d.op = "invalidate" /\ ~r.valid
        BY <2>2, <2>3, <3>2, NullKept
      <4> QED BY <4>1 DEF Promised
    <3> QED BY <3>1, <3>2
  <2> QED BY <2>1, <2>4, <2>5, CallSays
<1>8. ASSUME NEW o \in Obj, NEW p \in Obj, Move(o, p)
      PROVE  Says
  <2>1. PICK m : m = MoveFrom(str[o], str[p])[1]
    OBVIOUS
  <2>2. o # p /\ str' = [str EXCEPT ![o] = m, ![p] = Null]
    BY <1>8, <2>1 DEF Move
  <2>3. KeptString(m) /\ m.text = str[p].text /\ m.valid = str[p].valid
    <3>1. KeptString(str[o]) /\ KeptString(str[p])
      BY <1>1
    <3>2. /\ KeptString(MoveFrom(str[o], str[p])[1])
          /\ MoveFrom(str[o], str[p])[1].text = str[p].text
          /\ MoveFrom(str[o], str[p])[1].valid = str[p].valid
      BY <3>1, MoveKeeps
    <3> QED BY <2>1, <3>2
  <2>4. PICK d : d = [op |-> "move", o |-> o, p |-> p]
    OBVIOUS
  <2>5. done' = d /\ d.o = o /\ d.op = "move" /\ d.p = p
    BY <1>8, <2>4 DEF Move
  <2>6. Val(m) = Val(str[p])
    BY <1>1, <2>3, ValIsText
  <2>7. Promised(d, str[o], m)
    BY <2>3, <2>5, <2>6 DEF Promised
  <2>8. str'[o] = m
    BY <2>2 DEF StringInv
  <2> QED BY <2>5, <2>7, <2>8 DEF Says
<1>9. ASSUME NEW o \in Obj, NEW p \in Obj, ConcatString(o, p)
      PROVE  Says
  <2>1. PICK a \in ConcatFrom(str[o], str[p]) :
          /\ str' = [str EXCEPT ![o] = a.r]
          /\ done' = [op |-> "concat", o |-> o, with |-> Val(str[p]), ok |-> a.ok]
    BY <1>9 DEF ConcatString
  <2>2. IF a.ok THEN Val(a.r) = Val(str[o]) \o Val(str[p]) ELSE a.r = str[o]
    <3>1. CASE str[p].valid
      <4>1. a \in ConcatText(str[o], str[p].text, Len(str[p].text))
        BY <1>1, <3>1 DEF ConcatFrom
      <4>2. /\ KeptString(a.r)
            /\ IF a.ok THEN a.r.text = str[o].text \o str[p].text ELSE a.r = str[o]
        BY <1>1, <4>1, ConcatKeeps
      <4> QED BY <1>1, <4>2, ValIsText
    <3>2. CASE ~str[p].valid
      <4>1. a = [ok |-> FALSE, r |-> str[o]]
        BY <3>2 DEF ConcatFrom
      <4>2. a.r = str[o] /\ ~a.ok
        BY <4>1
      <4> QED BY <4>2
    <3> QED BY <3>1, <3>2
  <2>3. PICK d : d = [op |-> "concat", o |-> o, with |-> Val(str[p]), ok |-> a.ok]
    OBVIOUS
  <2>4. Promised(d, str[o], a.r)
    BY <2>2, <2>3 DEF Promised
  <2>5. done' = d /\ d.o = o
    BY <2>1, <2>3
  <2> QED BY <2>1, <2>4, <2>5, CallSays
<1>10. ASSUME NEW o \in Obj, NEW p \in Obj, NEW text \in Literals, Plus(o, p, text)
       PROVE  Says
  <2>1. PICK helper \in AssignFrom(Null, str[p]) :
          \E a \in ConcatText(helper, text, Len(text)) :
          \E r \in AssignFrom(str[o], IF a.ok THEN a.r ELSE Null) :
            str' = [str EXCEPT ![o] = r]
    BY <1>10 DEF Plus
  <2>2. KeptString(helper) /\ (helper = Null \/ helper.text = str[p].text)
    BY <1>1, NullKept, AssignKeeps
  <2>3. PICK a \in ConcatText(helper, text, Len(text)) :
          \E r \in AssignFrom(str[o], IF a.ok THEN a.r ELSE Null) :
            str' = [str EXCEPT ![o] = r]
    BY <2>1
  <2>4. KeptString(a.r) /\ (a.ok => a.r.text = helper.text \o text)
    BY <1>2, <2>2, ConcatKeeps
  <2>5. PICK s : s = IF a.ok THEN a.r ELSE Null
    OBVIOUS
  <2>6. KeptString(s)
    BY <2>4, <2>5, NullKept
  <2>7. PICK r \in AssignFrom(str[o], s) : str' = [str EXCEPT ![o] = r]
    BY <2>3, <2>5
  <2>8. /\ KeptString(r)
        /\ r = Null \/ (s.valid /\ r.valid /\ r.text = s.text)
    BY <1>1, <2>6, AssignKeeps
  <2>9. r.valid => Val(r) \in {Val(str[p]) \o text, text}
    <3> SUFFICES ASSUME r.valid PROVE Val(r) \in {Val(str[p]) \o text, text}
      OBVIOUS
    <3>1. s.valid /\ Val(r) = s.text
      BY <2>8, NullKept, ValIsText
    <3>2. s = a.r /\ a.ok
      BY <2>5, <3>1, NullKept
    <3>3. Val(r) = helper.text \o text
      BY <2>4, <3>1, <3>2
    <3>4. CASE helper = Null
      <4>1. <<>> \o text = text
        BY <1>2, ConcatEmptySeq
      <4> QED BY <3>3, <3>4, <4>1, NullKept
    <3>5. CASE helper.text = str[p].text
      BY <1>1, <3>3, <3>5
    <3> QED BY <2>2, <3>4, <3>5
  <2>10. PICK d : d = [op |-> "sum", o |-> o, left |-> Val(str[p]), right |-> text]
    OBVIOUS
  <2>11. Promised(d, str[o], r)
    BY <2>9, <2>10 DEF Promised
  <2>12. done' = d /\ d.o = o
    BY <1>10, <2>10 DEF Plus
  <2> QED BY <2>7, <2>11, <2>12, CallSays
<1>11. ASSUME NEW o \in Obj, NEW size \in Sizes, ReserveCall(o, size)
       PROVE  Says
  <2>1. PICK a \in Reserve(str[o], size) :
          /\ str' = [str EXCEPT ![o] = a.r]
          /\ done' = [op |-> "reserve", o |-> o, size |-> size, ok |-> a.ok]
    BY <1>11 DEF ReserveCall
  <2>2. IF a.ok THEN /\ a.r = [valid |-> TRUE, cap |-> a.r.cap, len |-> str[o].len,
                               text |-> str[o].text]
                     /\ a.r.cap \in Nat /\ size <= a.r.cap /\ str[o].len <= a.r.cap
                ELSE a.r = str[o]
    BY <1>1, <1>3, ReserveKeeps
  <2>3. IF a.ok THEN Val(a.r) = Val(str[o]) /\ a.r.valid /\ a.r.cap >= size
        ELSE a.r = str[o]
    <3>1. CASE a.ok
      <4>1. PICK new : new = a.r
        OBVIOUS
      <4>2. PICK cp \in Nat : cp = new.cap /\ size <= cp
        BY <2>2, <3>1, <4>1
      <4>3. new = [valid |-> TRUE, cap |-> cp, len |-> str[o].len, text |-> str[o].text]
        BY <2>2, <3>1, <4>1, <4>2
      <4>4. new.valid /\ new.len = str[o].len /\ new.text = str[o].text
        BY <4>3
      <4>5. Val(new) = Val(str[o])
        BY <4>4 DEF Val
      <4>6. new.cap >= size
        BY <1>3, <4>2
      <4> QED BY <3>1, <4>1, <4>4, <4>5, <4>6
    <3>2. CASE ~a.ok
      BY <2>2, <3>2
    <3> QED BY <3>1, <3>2
  <2>4. PICK d : d = [op |-> "reserve", o |-> o, size |-> size, ok |-> a.ok]
    OBVIOUS
  <2>5. Promised(d, str[o], a.r)
    BY <2>3, <2>4 DEF Promised
  <2>6. done' = d /\ d.o = o
    BY <2>1, <2>4
  <2> QED BY <2>1, <2>5, <2>6, CallSays
<1>12. ASSUME NEW o \in Obj, NEW p \in Obj, NEW left \in Sizes, NEW right \in Sizes,
              Substring(o, p, left, right)
       PROVE  Says
  <2>1. PICK out \in SubstringOf(str[p], left, right) :
          str' = [str EXCEPT ![o] = MoveFrom(str[o], out)[1]]
    BY <1>12 DEF Substring
  <2>2. /\ KeptString(out)
        /\ out.valid => out.text = SubstringText(str[p].text, left, right)
    BY <1>1, <1>3, SubstringKeeps
  <2>3. PICK r : r = MoveFrom(str[o], out)[1]
    OBVIOUS
  <2>4. KeptString(r) /\ r.text = out.text /\ r.valid = out.valid
    BY <1>1, <2>2, <2>3, MoveKeeps
  <2>5. r.valid => Val(r) = SubstringText(Val(str[p]), left, right)
    BY <1>1, <2>2, <2>4, ValIsText
  <2>6. PICK d : d = [op |-> "substring", o |-> o, of |-> Val(str[p]), left |-> left,
                      right |-> right]
    OBVIOUS
  <2>7. Promised(d, str[o], r)
    BY <2>5, <2>6 DEF Promised, SubstringText
  <2>8. done' = d /\ d.o = o
    BY <1>12, <2>6 DEF Substring
  <2> QED BY <2>1, <2>3, <2>7, <2>8, CallSays
<1>13. ASSUME NEW o \in Obj, NEW loc \in Sizes, NEW ch \in StringChar, SetCharAt(o, loc, ch)
       PROVE  Says
  <2>1. PICK d : d = [op |-> "set", o |-> o, loc |-> loc, with |-> ch]
    OBVIOUS
  <2>2. done' = d /\ d.o = o
    BY <1>13, <2>1 DEF SetCharAt
  <2>3. PICK s \in Seq(StringChar), l \in Nat : s = str[o].text /\ l = str[o].len /\ l = Len(s)
    BY <1>1, LenProperties
  <2>4. PICK set : set = [i \in DOMAIN s |-> IF i = loc + 1 THEN ch ELSE s[i]]
    OBVIOUS
  <2>5. PICK r : /\ str' = [str EXCEPT ![o] = r] /\ KeptString(r) /\ r.text = set
    <3>1. CASE loc < str[o].len
      <4>1. PICK r : r = [str[o] EXCEPT !.text[loc + 1] = ch]
        OBVIOUS
      <4>2. str' = [str EXCEPT ![o].text[loc + 1] = ch]
        BY <1>13, <3>1 DEF SetCharAt
      <4>3. str' = [str EXCEPT ![o] = r]
        BY <4>1, <4>2
      <4>4. /\ KeptString(r)
            /\ r.text = [i \in DOMAIN str[o].text |-> IF i = loc + 1 THEN ch
                                                      ELSE str[o].text[i]]
        <5>1. PICK q : q = str[o]
          OBVIOUS
        <5>2. KeptString(q) /\ loc \in Nat /\ loc < q.len
          BY <1>1, <1>3, <3>1, <5>1
        <5>3. /\ KeptString([q EXCEPT !.text[loc + 1] = ch])
              /\ [q EXCEPT !.text[loc + 1] = ch].text
                   = [k \in DOMAIN q.text |-> IF k = loc + 1 THEN ch ELSE q.text[k]]
          BY <5>2, CharSet
        <5> QED BY <4>1, <5>1, <5>3
      <4> QED BY <2>3, <2>4, <4>3, <4>4
    <3>2. CASE ~(loc < str[o].len)
      <4>1. str' = [str EXCEPT ![o] = str[o]]
        BY <1>13, <3>2 DEF SetCharAt, StringInv
      <4>2. \A i \in DOMAIN s : i # loc + 1
        BY <1>3, <2>3, <3>2
      <4>3. set = s
        BY <2>4, <4>2
      <4> QED BY <1>1, <2>3, <4>1, <4>3
    <3> QED BY <3>1, <3>2
  <2>6. Val(r) = set /\ Val(str[o]) = s
    BY <1>1, <2>3, <2>5, ValIsText
  <2>7. Promised(d, str[o], r)
    <3>1. d.op = "set" /\ d.with = ch /\ d.loc = loc
      BY <2>1
    <3>2. Val(r) = [i \in DOMAIN Val(str[o]) |-> IF i = d.loc + 1 THEN d.with ELSE Val(str[o])[i]]
      BY <2>4, <2>6, <3>1
    <3> QED BY <3>1, <3>2 DEF Promised
  <2> QED BY <2>2, <2>5, <2>7, CallSays
<1>14. ASSUME NEW o \in Obj, NEW find \in StringChar, NEW with \in StringChar,
              ReplaceChar(o, find, with)
       PROVE  Says
  <2>1. done'.op = "other"
    BY <1>14 DEF ReplaceChar
  <2> QED BY <2>1 DEF Says
<1>15. ASSUME NEW o \in Obj, NEW find \in Literals, NEW with \in Literals,
              Replace(o, find, with)
       PROVE  Says
  <2>1. ~Repeats(find, with)
    BY <1>15 DEF Replace
  <2>2. PICK r \in ReplaceIn(str[o], find, with) : str' = [str EXCEPT ![o] = r]
    BY <1>15 DEF Replace
  <2>3. /\ KeptString(r)
        /\ \/ find = <<>> /\ r = str[o]
           \/ find # <<>> /\ r.text = ReplaceLeft(str[o].text, find, with)
           \/ Len(with) > Len(find) /\ r = str[o]
    BY <1>1, <1>2, <2>1, ReplaceKeeps
  <2>4. PICK d : d = [op |-> "replace", o |-> o, find |-> find, with |-> with]
    OBVIOUS
  <2>5. Val(r) = r.text
    BY <2>3, ValIsText
  <2>6. \/ Val(r) = IF find = <<>> THEN Val(str[o]) ELSE ReplaceLeft(Val(str[o]), find, with)
        \/ Len(with) > Len(find) /\ r = str[o]
    BY <1>1, <2>3, <2>5
  <2>7. Promised(d, str[o], r)
    BY <2>4, <2>6 DEF Promised
  <2>8. done' = d /\ d.o = o
    BY <1>15, <2>4 DEF Replace
  <2> QED BY <2>2, <2>7, <2>8, CallSays
<1>16. ASSUME NEW o \in Obj, NEW begin \in Sizes, NEW count \in Sizes,
              RemoveCount(o, begin, count)
       PROVE  Says
  <2>1. PICK r : r = RemoveIn(str[o], begin, count)
    OBVIOUS
  <2>2. str' = [str EXCEPT ![o] = r]
    BY <1>16, <2>1 DEF RemoveCount
  <2>3. KeptString(r) /\ r.text = Without(str[o].text, begin, count)
    BY <1>1, <1>3, <2>1, RemoveKeeps
  <2>4. Val(r) = Without(Val(str[o]), begin, count)
    BY <1>1, <2>3, ValIsText
  <2>5. PICK d : d = [op |-> "remove", o |-> o, index |-> begin, count |-> count]
    OBVIOUS
  <2>6. Promised(d, str[o], r)
    BY <2>4, <2>5 DEF Promised
  <2>7. done' = d /\ d.o = o
    BY <1>16, <2>5 DEF RemoveCount
  <2> QED BY <2>2, <2>6, <2>7, CallSays
<1>17. ASSUME NEW o \in Obj, Trim(o)
       PROVE  Says
  <2>1. PICK r : r = TrimIn(str[o])
    OBVIOUS
  <2>2. str' = [str EXCEPT ![o] = r]
    BY <1>17, <2>1 DEF Trim
  <2>3. KeptString(r) /\ Trimmed(str[o].text, r.text)
    BY <1>1, <2>1, TrimKeeps
  <2>4. Trimmed(Val(str[o]), Val(r))
    BY <1>1, <2>3, ValIsText
  <2>5. PICK d : d = [op |-> "trim", o |-> o]
    OBVIOUS
  <2>6. Promised(d, str[o], r)
    BY <2>4, <2>5 DEF Promised
  <2>7. done' = d /\ d.o = o
    BY <1>17, <2>5 DEF Trim
  <2> QED BY <2>2, <2>6, <2>7, CallSays
<1> QED
  BY <1>4, <1>5, <1>6, <1>7, <1>8, <1>9, <1>10, <1>11, <1>12, <1>13, <1>14, <1>15, <1>16, <1>17
  DEF StringNext

(* Under the same hypotheses each call does what WString.h says of it and   *)
(* leaves the other objects alone, for every text: what is assigned, joined,*)
(* cut out, removed, trimmed, replaced or moved is the text named, and a    *)
(* call without memory leaves an invalid string or the one there was.       *)
THEOREM CallsDoWhatTheySay ==
  ASSUME ~MayKeep, ~MaySelf, ~MayRepeat
  PROVE  StringSpec => DoesWhatItSays
<1>1. StringInit => StringInv
  BY StringInitInv
<1>2. StringInv /\ [StringNext]_strvars => StringInv'
  <2> SUFFICES ASSUME StringInv, [StringNext]_strvars PROVE StringInv'
    OBVIOUS
  <2>1. CASE StringNext
    BY <2>1, StringStepInv
  <2>2. CASE UNCHANGED strvars
    BY <2>2 DEF StringInv, KeptString, Strings, strvars
  <2> QED BY <2>1, <2>2
<1>3. StringInv /\ [StringNext]_strvars => [Says]_strvars
  BY StepSays
<1> QED BY <1>1, <1>2, <1>3, PTL DEF StringSpec, DoesWhatItSays, Says

-----------------------------------------------------------------------------
(* Numbers printed.  The digits of n in base b are those of n \div b and a *)
(* last one; the value of a text grows by a digit in the same way.         *)
Parts(n, b, q, r) ==
  /\ q \in Nat /\ r \in 0..(b - 1) /\ n = q * b + r
  /\ n >= b => q >= 1 /\ q < n

LEMMA Divided ==
  ASSUME NEW b \in Nat, b >= 2, NEW n \in Nat, NEW q, q = n \div b, NEW r, r = n % b
  PROVE  Parts(n, b, q, r)
<1>1. q \in Nat /\ r \in 0..(b - 1)
  OBVIOUS
<1>2. n = q * b + r
  OBVIOUS
<1>3. ASSUME n >= b PROVE q >= 1 /\ q < n
  <2>1. q # 0
    BY <1>1, <1>2, <1>3
  <2>2. q * b >= q + q
    <3>1. PICK t \in Nat : b = 2 + t
      <4>1. b - 2 \in Nat /\ b = 2 + (b - 2)
        OBVIOUS
      <4> QED BY <4>1
    <3>2. q * b = q + q + q * t /\ q * t \in Nat
      BY <1>1, <3>1
    <3> QED BY <1>1, <3>2
  <2> QED BY <1>1, <1>2, <2>1, <2>2
<1> QED BY <1>1, <1>2, <1>3 DEF Parts

Horner(v, s, b, l) ==
  /\ v \in [0..l -> Nat] /\ v[0] = 0
  /\ \A k \in 1..l : v[k] = v[k - 1] * b + s[k]

LEMMA HornerIs ==
  ASSUME NEW s \in Seq(Nat), NEW b \in Nat, NEW l \in Nat, l = Len(s)
  PROVE  \E v : Horner(v, s, b, l) /\ ValueIn(s, b) = v[l]
<1> DEFINE Step(g, k) == IF k = 0 THEN 0 ELSE g[k - 1] * b + s[k]
           F == [g \in [0..l -> Nat] |-> [k \in 0..l |-> Step(g, k)]]
           v == CHOOSE g : g = [k \in 0..l |-> Step(g, k)]
<1>1. \A k \in 1..l : s[k] \in Nat
  OBVIOUS
<1>2. ASSUME NEW g \in [0..l -> Nat], NEW k \in 0..l PROVE Step(g, k) \in Nat
  <2>1. CASE k = 0
    BY <2>1
  <2>2. CASE k # 0
    <3>1. k \in 1..l /\ k - 1 \in 0..l
      BY <2>2
    <3>2. PICK x \in Nat : x = g[k - 1]
      BY <3>1
    <3>3. PICK y \in Nat : y = s[k]
      BY <1>1, <3>1
    <3>4. Step(g, k) = x * b + y
      BY <2>2, <3>2, <3>3
    <3>5. x * b \in Nat
      OBVIOUS
    <3> HIDE DEF Step
    <3> QED BY <3>4, <3>5
  <2> QED BY <2>1, <2>2
<1>3. ASSUME NEW g \in [0..l -> Nat], NEW h \in [0..l -> Nat], NEW k \in 0..l,
             \A j \in 0..l : j < k => g[j] = h[j]
      PROVE  Step(g, k) = Step(h, k)
  <2>1. CASE k = 0
    BY <2>1
  <2>2. CASE k # 0
    <3>1. k - 1 \in 0..l /\ k - 1 < k
      BY <2>2
    <3>2. g[k - 1] = h[k - 1]
      BY <1>3, <3>1
    <3> QED BY <2>2, <3>2
  <2> QED BY <2>1, <2>2
<1>4. Solved(0..l, Nat, F)
  <2>1. F \in [[0..l -> Nat] -> [0..l -> Nat]]
    <3> HIDE DEF Step
    <3> QED BY <1>2
  <2>2. \A g, h \in [0..l -> Nat] : \A k \in 0..l :
          (\A j \in 0..l : j < k => g[j] = h[j]) => F[g][k] = F[h][k]
    <3>1. ASSUME NEW g \in [0..l -> Nat], NEW h \in [0..l -> Nat], NEW k \in 0..l,
                 \A j \in 0..l : j < k => g[j] = h[j]
          PROVE  F[g][k] = F[h][k]
      <4> HIDE DEF Step
      <4>1. Step(g, k) = Step(h, k)
        BY <1>3, <3>1
      <4>2. F[g] = [j \in 0..l |-> Step(g, j)] /\ F[h] = [j \in 0..l |-> Step(h, j)]
        OBVIOUS
      <4> HIDE DEF F
      <4> QED BY <4>1, <4>2
    <3> HIDE DEF F
    <3> QED BY <3>1
  <2>3. FromStart(l, Nat, F)
    <3> HIDE DEF F
    <3> QED BY <2>1, <2>2 DEF FromStart
  <2>4. Nat # {}
    OBVIOUS
  <2> HIDE DEF F
  <2> QED BY <2>3, <2>4, RecursionFromStart
<1>5. PICK f \in [0..l -> Nat] : f = [k \in 0..l |-> Step(f, k)]
  <2> HIDE DEF Step
  <2> QED BY <1>4 DEF Solved
<1>6. v = [k \in 0..l |-> Step(v, k)]
  <2> HIDE DEF Step
  <2> QED BY <1>5
<1>7. ValueIn(s, b) = v[l]
  BY DEF ValueIn
<1> HIDE DEF v
<1>8. v[0] = 0
  <2>1. 0 \in 0..l
    OBVIOUS
  <2> QED BY <1>6, <2>1
<1>9. ASSUME NEW k \in 1..l PROVE v[k] = v[k - 1] * b + s[k]
  <2>1. k \in 0..l /\ k # 0
    OBVIOUS
  <2>2. v[k] = Step(v, k)
    <3> HIDE DEF Step
    <3> QED BY <1>6, <2>1
  <2> QED BY <2>1, <2>2
<1>10. \A k \in 0..l : v[k] \in Nat
  <2> DEFINE Good == {k \in 0..l : v[k] \in Nat}
  <2>1. 0 \in Good
    BY <1>8
  <2>2. ASSUME NEW k \in 0..l, k < l, k \in Good PROVE k + 1 \in Good
    <3>1. k + 1 \in 1..l /\ k + 1 \in 0..l /\ (k + 1) - 1 = k /\ v[k] \in Nat
      BY <2>2
    <3>2. v[k + 1] = v[k] * b + s[k + 1] /\ s[k + 1] \in Nat
      BY <1>1, <1>9, <3>1
    <3>3. v[k] * b \in Nat
      BY <3>1
    <3> QED BY <3>1, <3>2, <3>3
  <2>3. \A k \in 0..l : k \in Good
    <3> HIDE DEF Good
    <3> QED BY <2>1, <2>2, InductionTo
  <2> QED BY <2>3
<1>11. v \in [0..l -> Nat]
  <2> HIDE DEF Step
  <2>1. v = [k \in 0..l |-> v[k]]
    BY <1>6
  <2> QED BY <1>10, <2>1
<1>12. Horner(v, s, b, l)
  BY <1>8, <1>9, <1>11 DEF Horner
<1> QED BY <1>7, <1>12

AgreeAt(v, w, m) == v[m] = w[m]

LEMMA SameHorner ==
  ASSUME NEW l \in Nat, NEW b \in Nat, NEW s, NEW t, NEW v, NEW w, NEW m \in Nat, m <= l,
         Horner(v, s, b, m), Horner(w, t, b, l), \A k \in 1..m : s[k] = t[k]
  PROVE  AgreeAt(v, w, m)
<1> DEFINE Same == {k \in 0..m : w[k] = v[k]}
<1>1. 0 \in Same
  BY DEF Horner
<1>2. ASSUME NEW k \in 0..m, k < m, k \in Same
      PROVE  k + 1 \in Same
  <2>1. k + 1 \in 1..m /\ k + 1 \in 1..l /\ (k + 1) - 1 = k /\ k + 1 \in 0..m /\ w[k] = v[k]
    BY <1>2
  <2>2. v[k + 1] = v[k] * b + s[k + 1] /\ w[k + 1] = w[k] * b + t[k + 1]
    BY <2>1 DEF Horner
  <2> QED BY <2>1, <2>2
<1>3. m \in Same
  <2>1. m \in 0..m
    OBVIOUS
  <2> HIDE DEF Same
  <2> QED BY <1>1, <1>2, <2>1, InductionTo
<1> QED BY <1>3 DEF AgreeAt

LEMMA ValueGrows ==
  ASSUME NEW s, s \in Seq(Nat), NEW x \in Nat, NEW b \in Nat
  PROVE  /\ ValueIn(s, b) \in Nat
         /\ ValueIn(Append(s, x), b) = ValueIn(s, b) * b + x
         /\ ValueIn(<<>>, b) = 0
<1>1. PICK l \in Nat : l = Len(s)
  BY LenProperties
<1>2. PICK t \in Seq(Nat) : t = Append(s, x)
  BY AppendProperties
<1>3. l + 1 = Len(t) /\ t[l + 1] = x /\ \A k \in 1..l : s[k] = t[k]
  BY <1>1, <1>2
<1>4. PICK v : Horner(v, s, b, l) /\ ValueIn(s, b) = v[l]
  BY <1>1, HornerIs
<1>5. PICK m \in Nat : m = l + 1
  OBVIOUS
<1>6. PICK w : Horner(w, t, b, m) /\ ValueIn(t, b) = w[m]
  BY <1>3, <1>5, HornerIs
<1>7. w[l] = v[l]
  <2>1. l <= m
    BY <1>5
  <2>2. AgreeAt(v, w, l)
    BY <1>3, <1>4, <1>6, <2>1, SameHorner
  <2> QED BY <2>2 DEF AgreeAt
<1>8. w[m] = w[l] * b + x
  <2>1. m \in 1..m /\ m - 1 = l
    BY <1>5
  <2> QED BY <1>3, <1>5, <1>6, <2>1 DEF Horner
<1>9. v[l] \in Nat
  BY <1>4 DEF Horner
<1>10. ValueIn(<<>>, b) = 0
  <2>1. <<>> \in Seq(Nat) /\ 0 = Len(<<>>) /\ 0 \in Nat
    OBVIOUS
  <2>2. PICK u : Horner(u, <<>>, b, 0) /\ ValueIn(<<>>, b) = u[0]
    BY <2>1, HornerIs
  <2> QED BY <2>2 DEF Horner
<1> QED BY <1>2, <1>4, <1>6, <1>7, <1>8, <1>9, <1>10

(* printNumber() writes the digits of n, the first of them not zero unless *)
(* it is the only one.                                                     *)
PlainDigits(d, n, b) ==
  /\ d \in Seq(0..(b - 1)) /\ d # <<>> /\ ValueIn(d, b) = n
  /\ Len(d) > 1 => d[1] # 0

LEMMA LongEnough ==
  ASSUME NEW S, NEW d \in Seq(S), d # <<>>
  PROVE  \E l \in Nat : l = Len(d) /\ l >= 1
<1>1. PICK l \in Nat : l = Len(d)
  BY LenProperties
<1>2. l # 0
  BY <1>1, EmptySeq
<1> QED BY <1>1, <1>2

LEMMA PlainOne ==
  ASSUME NEW b \in Nat, NEW n \in Nat, n < b
  PROVE  PlainDigits(<<n>>, n, b)
<1>1. <<n>> = Append(<<>>, n) /\ <<>> \in Seq(Nat) /\ <<n>> \in Seq(0..(b - 1)) /\ <<n>> # <<>>
      /\ ~(Len(<<n>>) > 1)
  OBVIOUS
<1>2. ValueIn(<<n>>, b) = n
  <2>1. PICK s \in Seq(Nat) : s = <<>>
    BY <1>1
  <2>2. ValueIn(Append(s, n), b) = ValueIn(s, b) * b + n
    BY ValueGrows
  <2>3. ValueIn(s, b) = 0
    BY <2>1, ValueGrows
  <2>4. 0 * b + n = n
    OBVIOUS
  <2> QED BY <1>1, <2>1, <2>2, <2>3, <2>4
<1> QED BY <1>1, <1>2 DEF PlainDigits

LEMMA PlainMore ==
  ASSUME NEW b \in Nat, NEW q \in Nat, q >= 1, NEW d, PlainDigits(d, q, b), NEW r \in 0..(b - 1),
         NEW n, n = q * b + r
  PROVE  PlainDigits(Append(d, r), n, b)
<1>1. d \in Seq(0..(b - 1)) /\ d # <<>> /\ ValueIn(d, b) = q /\ (Len(d) > 1 => d[1] # 0)
  BY DEF PlainDigits
<1>2. PICK l \in Nat : l = Len(d) /\ l >= 1
  BY <1>1, LongEnough
<1>3. PICK e : e = Append(d, r)
  OBVIOUS
<1>4. e \in Seq(0..(b - 1)) /\ Len(e) = l + 1 /\ e[1] = d[1]
  <2>1. 1 \in 1..l
    BY <1>2
  <2> QED BY <1>1, <1>2, <1>3, <2>1, AppendProperties
<1>5. d \in Seq(Nat)
  <2>1. d \in [1..l -> 0..(b - 1)]
    BY <1>1, <1>2, LenProperties
  <2>2. d \in [1..l -> Nat]
    BY <2>1
  <2> QED BY <2>2, SeqDef
<1>6. ValueIn(e, b) = n
  BY <1>1, <1>3, <1>5, ValueGrows
<1>7. d[1] # 0
  <2>1. CASE l > 1
    BY <1>1, <1>2, <2>1
  <2>2. CASE l = 1
    <3>1. PICK v : Horner(v, d, b, l) /\ ValueIn(d, b) = v[l]
      BY <1>2, <1>5, HornerIs
    <3>2. v[1] = v[0] * b + d[1] /\ v[0] = 0
      <4>1. 1 \in 1..l /\ 1 - 1 = 0
        BY <1>2
      <4> QED BY <3>1, <4>1 DEF Horner
    <3>3. 0 * b = 0 /\ d[1] \in Nat
      BY <1>2, <1>5
    <3> QED BY <1>1, <2>2, <3>1, <3>2, <3>3
  <2> QED BY <1>2, <2>1, <2>2
<1>8. e # <<>>
  BY <1>4
<1> QED BY <1>3, <1>4, <1>6, <1>7, <1>8 DEF PlainDigits

(* The recursion of printNumber(): what divides n gives its other digits. *)
DigitsLaw(f, b, last) ==
  \A k \in 0..last :
    /\ k < b => f[k] = <<k>>
    /\ ~(k < b) => \E q \in 0..last : \E r \in 0..(b - 1) :
                     Parts(k, b, q, r) /\ q >= 1 /\ q < k /\ f[k] = Append(f[q], r)

LEMMA DigitsAre ==
  ASSUME NEW b \in Nat, b >= 2, NEW last \in Nat, last = Longs - 1
  PROVE  DigitsLaw(DigitsIn(b), b, last)
<1> DEFINE V == Seq(Nat)
           Step(g, k) == IF k < b THEN <<k>> ELSE Append(g[k \div b], k % b)
           F == [g \in [0..last -> V] |-> [k \in 0..last |-> Step(g, k)]]
           f == CHOOSE g : g = [k \in 0..last |-> Step(g, k)]
<1>2. ASSUME NEW k \in 0..last, ~(k < b)
      PROVE  \E q \in 0..last : \E r \in 0..(b - 1) :
               q = k \div b /\ r = k % b /\ Parts(k, b, q, r) /\ q >= 1 /\ q < k
  <2>1. PICK q : q = k \div b
    OBVIOUS
  <2>2. PICK r : r = k % b
    OBVIOUS
  <2>3. k \in Nat /\ k >= b
    BY <1>2
  <2>4. Parts(k, b, q, r)
    BY <2>1, <2>2, <2>3, Divided
  <2>5. q \in Nat /\ r \in 0..(b - 1) /\ q >= 1 /\ q < k
    BY <2>3, <2>4 DEF Parts
  <2>6. q \in 0..last
    BY <2>5
  <2> QED BY <2>1, <2>2, <2>4, <2>5, <2>6
<1>3. ASSUME NEW g \in [0..last -> V], NEW k \in 0..last PROVE Step(g, k) \in V
  <2>1. CASE k < b
    BY <2>1
  <2>2. CASE ~(k < b)
    <3>1. PICK q \in 0..last, r \in 0..(b - 1) : q = k \div b /\ r = k % b
      BY <1>2, <2>2
    <3>2. g[q] \in V /\ r \in Nat
      OBVIOUS
    <3>3. Append(g[q], r) \in V
      BY <3>2, AppendProperties
    <3> QED BY <2>2, <3>1, <3>3
  <2> QED BY <2>1, <2>2
<1>4. ASSUME NEW g \in [0..last -> V], NEW h \in [0..last -> V], NEW k \in 0..last,
             \A j \in 0..last : j < k => g[j] = h[j]
      PROVE  Step(g, k) = Step(h, k)
  <2>1. CASE k < b
    BY <2>1
  <2>2. CASE ~(k < b)
    <3>1. PICK q \in 0..last : q = k \div b /\ q < k
      BY <1>2, <2>2
    <3>2. g[q] = h[q]
      BY <1>4, <3>1
    <3> QED BY <2>2, <3>1, <3>2
  <2> QED BY <2>1, <2>2
<1>5. Solved(0..last, V, F)
  <2>1. F \in [[0..last -> V] -> [0..last -> V]]
    <3> HIDE DEF Step, V
    <3> QED BY <1>3
  <2>2. \A g, h \in [0..last -> V] : \A k \in 0..last :
          (\A j \in 0..last : j < k => g[j] = h[j]) => F[g][k] = F[h][k]
    <3> HIDE DEF Step, V
    <3> QED BY <1>4
  <2>3. FromStart(last, V, F)
    <3> HIDE DEF F, V
    <3> QED BY <2>1, <2>2 DEF FromStart
  <2>4. V # {}
    <3>1. <<>> \in V
      OBVIOUS
    <3> QED BY <3>1
  <2> HIDE DEF F, V
  <2> QED BY <2>3, <2>4, RecursionFromStart
<1>6. PICK e \in [0..last -> V] : e = [k \in 0..last |-> Step(e, k)]
  <2> HIDE DEF Step, V
  <2> QED BY <1>5 DEF Solved
<1>7. f = [k \in 0..last |-> Step(f, k)]
  <2> HIDE DEF Step
  <2> QED BY <1>6
<1>8. DigitsIn(b) = f
  BY DEF DigitsIn
<1> HIDE DEF f
<1>9. ASSUME NEW k \in 0..last PROVE f[k] = Step(f, k)
  <2> HIDE DEF Step
  <2> QED BY <1>7
<1>10. ASSUME NEW k \in 0..last, ~(k < b)
       PROVE  \E q \in 0..last : \E r \in 0..(b - 1) :
                Parts(k, b, q, r) /\ q >= 1 /\ q < k /\ f[k] = Append(f[q], r)
  <2>1. PICK q \in 0..last, r \in 0..(b - 1) :
          q = k \div b /\ r = k % b /\ Parts(k, b, q, r) /\ q >= 1 /\ q < k
    BY <1>2, <1>10
  <2>2. f[k] = Append(f[q], r)
    BY <1>9, <1>10, <2>1
  <2> QED BY <2>1, <2>2
<1>11. ASSUME NEW k \in 0..last, k < b PROVE f[k] = <<k>>
  BY <1>9, <1>11
<1> QED BY <1>8, <1>10, <1>11 DEF DigitsLaw

LEMMA DigitsArePlain ==
  ASSUME NEW b \in Nat, b >= 2, NEW n \in 0..(Longs - 1)
  PROVE  PlainDigits(DigitsIn(b)[n], n, b)
<1>1. PICK last \in Nat : last = Longs - 1
  BY PrintAssumption DEF Longs
<1>2. PICK f : f = DigitsIn(b) /\ DigitsLaw(f, b, last)
  BY <1>1, DigitsAre
<1> DEFINE Good == {k \in 0..last : \A j \in 0..k : PlainDigits(f[j], j, b)}
<1>9. ASSUME NEW k \in 0..last, \A j \in 0..(k - 1) : PlainDigits(f[j], j, b)
      PROVE  PlainDigits(f[k], k, b)
  <2>1. CASE k < b
    <3>1. f[k] = <<k>>
      BY <1>2, <2>1 DEF DigitsLaw
    <3> QED BY <2>1, <3>1, PlainOne
  <2>2. CASE ~(k < b)
    <3>1. PICK q \in 0..last, r \in 0..(b - 1) :
            Parts(k, b, q, r) /\ q >= 1 /\ q < k /\ f[k] = Append(f[q], r)
      BY <1>2, <2>2 DEF DigitsLaw
    <3>2. k = q * b + r /\ q \in Nat
      BY <3>1 DEF Parts
    <3>3. PICK d : d = f[q]
      OBVIOUS
    <3>4. PlainDigits(d, q, b)
      <4>1. q \in 0..(k - 1)
        BY <3>1, <3>2
      <4> QED BY <1>9, <3>3, <4>1
    <3>5. PlainDigits(Append(d, r), k, b)
      BY <3>1, <3>2, <3>4, PlainMore
    <3> QED BY <3>1, <3>3, <3>5
  <2> QED BY <2>1, <2>2
<1>10. 0 \in Good
  <2>1. PlainDigits(f[0], 0, b)
    BY <1>9
  <2> QED BY <2>1
<1>11. ASSUME NEW k \in 0..last, k < last, k \in Good
       PROVE  k + 1 \in Good
  <2>1. k + 1 \in 0..last /\ (k + 1) - 1 = k
    BY <1>11
  <2>2. \A j \in 0..((k + 1) - 1) : PlainDigits(f[j], j, b)
    BY <1>11, <2>1
  <2>3. PlainDigits(f[k + 1], k + 1, b)
    BY <1>9, <2>1, <2>2
  <2>4. ASSUME NEW j \in 0..(k + 1) PROVE PlainDigits(f[j], j, b)
    <3>1. j \in 0..k \/ j = k + 1
      OBVIOUS
    <3> QED BY <1>11, <2>3, <3>1
  <2> QED BY <2>1, <2>4
<1>12. last \in Good
  <2>1. last \in 0..last
    OBVIOUS
  <2> HIDE DEF Good
  <2> QED BY <1>10, <1>11, <2>1, InductionTo
<1>13. n \in 0..last
  BY <1>1
<1> QED BY <1>2, <1>12, <1>13

(* A port that takes every character has taken s. *)
Glyph == Nat \cup {Minus, Dot}
PortCounts(p) ==
  /\ p \in [no : SUBSET Nat, asked : Nat, out : Seq(Glyph), n : Nat]
  /\ p.n = Len(p.out)
Taking(p, s) == PortCounts(p) /\ p.no = {} /\ p.out = s

LEMMA TakenBounds ==
  ASSUME NEW p, PortCounts(p), NEW size \in Nat
  PROVE  TakenOf(p, size) \in 0..size /\ (p.no = {} => TakenOf(p, size) = size)
<1> DEFINE refused == {i \in 1..size : p.asked + i \in p.no}
<1>1. p.asked \in Nat
  BY DEF PortCounts
<1>2. p.no = {} => refused = {}
  OBVIOUS
<1>3. ASSUME refused # {} PROVE Min(refused) \in 1..size
  <2>1. refused \subseteq Nat /\ refused \subseteq 1..size
    OBVIOUS
  <2>2. \E i \in refused : \A j \in refused : i <= j
    <3> HIDE DEF refused
    <3> QED BY <1>3, <2>1, LeastOf
  <2>3. Min(refused) \in refused
    <3> HIDE DEF refused
    <3> QED BY <2>2 DEF Min
  <2> QED BY <2>1, <2>3
<1>4. TakenOf(p, size) = IF refused = {} THEN size ELSE Min(refused) - 1
  BY DEF TakenOf
<1> HIDE DEF refused
<1> QED BY <1>2, <1>3, <1>4

LEMMA WriteCounts ==
  ASSUME NEW p, PortCounts(p), NEW t, t \in Seq(Glyph)
  PROVE  /\ PortCounts(Write(p, t)) /\ Write(p, t).no = p.no
         /\ p.no = {} => Write(p, t).out = p.out \o t
<1>1. PICK l \in Nat : l = Len(t)
  BY LenProperties
<1>2. PICK size \in 0..l : size = TakenOf(p, l) /\ (p.no = {} => size = l)
  BY TakenBounds
<1>3. PICK u \in Seq(Glyph) : u = SubSeq(t, 1, size) /\ Len(u) = size
  <2>1. SubSeq(t, 1, size) \in Seq(Glyph) /\ Len(SubSeq(t, 1, size)) = size
    BY <1>1, <1>2
  <2> QED BY <2>1
<1>4. PICK more \in Nat : more = IF size < l THEN 1 ELSE 0
  OBVIOUS
<1>5. Write(p, t) = [p EXCEPT !.asked = p.asked + size + more, !.n = p.n + size,
                              !.out = p.out \o u]
  BY <1>1, <1>2, <1>3, <1>4 DEF Write
<1>6. /\ p \in [no : SUBSET Nat, asked : Nat, out : Seq(Glyph), n : Nat]
      /\ p.n = Len(p.out) /\ p.out \in Seq(Glyph)
  BY DEF PortCounts
<1>7. p.out \o u \in Seq(Glyph) /\ Len(p.out \o u) = Len(p.out) + size
  BY <1>3, <1>6
<1>8. PortCounts(Write(p, t)) /\ Write(p, t).no = p.no /\ Write(p, t).out = p.out \o u
  <2>1. PICK out \in Seq(Glyph) : out = p.out \o u
    BY <1>7
  <2>2. PICK asked \in Nat : asked = p.asked + size + more
    BY <1>6
  <2>3. PICK n \in Nat : n = p.n + size
    BY <1>6
  <2>4. PICK q : q = [p EXCEPT !.asked = asked, !.n = n, !.out = out]
    OBVIOUS
  <2>5. /\ q \in [no : SUBSET Nat, asked : Nat, out : Seq(Glyph), n : Nat]
        /\ q.no = p.no /\ q.out = out /\ q.n = n
    BY <1>6, <2>4
  <2>6. q.n = Len(q.out)
    BY <1>6, <1>7, <2>1, <2>3, <2>5
  <2>7. q = Write(p, t)
    BY <1>5, <2>1, <2>2, <2>3, <2>4
  <2> QED BY <2>1, <2>5, <2>6, <2>7 DEF PortCounts
<1>9. p.no = {} => u = t
  <2>1. size = l => SubSeq(t, 1, size) = t
    BY <1>1
  <2> QED BY <1>2, <1>3, <2>1
<1> QED BY <1>8, <1>9

LEMMA TakesMore ==
  ASSUME NEW p, NEW s, Taking(p, s), NEW t, t \in Seq(Glyph)
  PROVE  Taking(Write(p, t), s \o t)
BY WriteCounts DEF Taking

LEMMA PortIsOpen ==
  ASSUME NEW no, no \in SUBSET Nat
  PROVE  PortCounts(Port(no)) /\ Port(no).no = no /\ Port(no).out = <<>>
BY DEF Port, PortCounts

LEMMA FreshTakes == Taking(Fresh, <<>>)
<1>1. {} \in SUBSET Nat
  OBVIOUS
<1> QED BY <1>1, PortIsOpen DEF Fresh, Taking

(* print(long, base): the sign, then the digits of what is left. *)
Magnitude(n, b) == IF b # Base THEN n % Longs ELSE IF n < 0 THEN -n ELSE n
Sign(n, b) == IF b = Base /\ n < 0 THEN <<Minus>> ELSE <<>>

LEMMA MagnitudeFits ==
  ASSUME NEW n \in Long, NEW b \in Nat
  PROVE  /\ Magnitude(n, b) \in 0..(Longs - 1)
         /\ b = Base /\ n < 0 => (-n) % Longs = Magnitude(n, b)
         /\ ~(b = Base /\ n < 0) => n % Longs = Magnitude(n, b)
<1>1. LongMax \in Nat \ {0} /\ Longs = LongMax + LongMax + 2
  BY PrintAssumption DEF Longs
<1>2. PICK w \in Nat : w = Longs /\ w > 0 /\ LongMax + 1 < w
  BY <1>1
<1>3. n \in Int /\ n >= -LongMax - 1 /\ n <= LongMax
  BY <1>1 DEF Long
<1>4. n % w \in 0..(w - 1)
  BY <1>2, <1>3
<1>5. ASSUME n < 0 PROVE (-n) % w = -n /\ -n \in 0..(w - 1)
  <2>1. PICK k \in Nat : k = -n /\ k < w
    BY <1>1, <1>2, <1>3, <1>5
  <2>2. k % w = k
    BY <1>2, <2>1
  <2> QED BY <2>1, <2>2
<1>6. ASSUME ~(n < 0) PROVE n % w = n /\ n \in 0..(w - 1)
  <2>1. n \in Nat /\ n < w
    BY <1>1, <1>2, <1>3, <1>6
  <2> QED BY <1>2, <2>1
<1> QED BY <1>2, <1>4, <1>5, <1>6 DEF Magnitude

PrintedAs(p, n, b, d) == PlainDigits(d, Magnitude(n, b), b) /\ Taking(p, Sign(n, b) \o d)

LEMMA GlyphDigits ==
  ASSUME NEW d, NEW b \in Nat, NEW n, PlainDigits(d, n, b)
  PROVE  d \in Seq(Glyph)
<1>1. d \in Seq(0..(b - 1))
  BY DEF PlainDigits
<1>2. PICK l \in Nat : l = Len(d)
  BY <1>1, LenProperties
<1>3. \A k \in 1..l : d[k] \in Glyph
  BY <1>1, <1>2 DEF Glyph
<1>4. d = [k \in 1..l |-> d[k]]
  BY <1>1, <1>2
<1> QED BY <1>3, <1>4

LEMMA LongPrinted ==
  ASSUME NEW n \in Long, NEW b \in Nat, b >= 2
  PROVE  \E d : PrintedAs(PrintLong(Fresh, n, b), n, b, d)
<1>1. PICK k \in 0..(Longs - 1) : k = Magnitude(n, b)
  BY MagnitudeFits
<1>2. PICK d : d = DigitsIn(b)[k]
  OBVIOUS
<1>3. PlainDigits(d, k, b)
  BY <1>2, DigitsArePlain
<1>4. d \in Seq(Glyph)
  BY <1>3, GlyphDigits
<1>5. CASE b = Base /\ n < 0
  <2>1. PrintLong(Fresh, n, b) = Write(Write(Fresh, <<Minus>>), d)
    <3>1. (-n) % Longs = k
      BY <1>1, <1>5, MagnitudeFits
    <3> QED BY <1>2, <1>5, <3>1 DEF PrintLong, PrintNumber
  <2>2. <<Minus>> \in Seq(Glyph) /\ <<>> \o <<Minus>> = <<Minus>>
    BY DEF Glyph
  <2>3. Taking(Write(Fresh, <<Minus>>), <<Minus>>)
    BY <2>2, FreshTakes, TakesMore
  <2>4. Taking(Write(Write(Fresh, <<Minus>>), d), <<Minus>> \o d)
    BY <1>4, <2>3, TakesMore
  <2> QED BY <1>1, <1>3, <1>5, <2>1, <2>4 DEF PrintedAs, Sign
<1>6. CASE ~(b = Base /\ n < 0)
  <2>1. PrintLong(Fresh, n, b) = Write(Fresh, d)
    <3>1. n % Longs = k
      BY <1>1, <1>6, MagnitudeFits
    <3> QED BY <1>2, <1>6, <3>1 DEF PrintLong, PrintNumber
  <2>2. Taking(Write(Fresh, d), <<>> \o d)
    BY <1>4, FreshTakes, TakesMore
  <2> QED BY <1>1, <1>3, <1>6, <2>1, <2>2 DEF PrintedAs, Sign
<1> QED BY <1>5, <1>6

(* print() of a long writes its sign and its digits in the base, whatever  *)
(* the long and the base.                                                  *)
LEMMA SignSplit ==
  ASSUME NEW d, NEW k, NEW n \in Int, NEW b \in Nat, PlainDigits(d, k, b),
         NEW s, s = Sign(n, b) \o d
  PROVE  /\ Unsigned(s) = d /\ (Signed(s) <=> b = Base /\ n < 0)
         /\ s \in Seq(Glyph)
<1>1. d \in Seq(Glyph) /\ d \in Seq(0..(b - 1)) /\ d # <<>>
  BY GlyphDigits DEF PlainDigits
<1>2. PICK l \in Nat : l = Len(d) /\ l >= 1
  BY <1>1, LongEnough
<1>3. CASE b = Base /\ n < 0
  <2>1. s = <<Minus>> \o d /\ <<Minus>> \in Seq(Glyph)
    BY <1>3 DEF Sign, Glyph
  <2>2. s # <<>> /\ s[1] = Minus /\ s \in Seq(Glyph)
    BY <1>1, <2>1
  <2>3. Tail(s) = d
    BY <1>1, <2>1
  <2> QED BY <1>3, <2>2, <2>3 DEF Signed, Unsigned
<1>4. CASE ~(b = Base /\ n < 0)
  <2>1. s = d
    BY <1>1, <1>4 DEF Sign
  <2>2. d[1] \in Nat
    BY <1>1, <1>2
  <2>3. s[1] # Minus
    BY <2>1, <2>2, StreamAssumption
  <2> QED BY <1>1, <1>4, <2>1, <2>3 DEF Signed, Unsigned
<1> QED BY <1>3, <1>4

LEMMA LongsPrinted == PrintsLongs
<1> SUFFICES ASSUME NEW n \in Long, NEW b \in 2..16, NEW s, s = PrintLong(Fresh, n, b).out
             PROVE  /\ ValueIn(Unsigned(s), b) = Magnitude(n, b)
                    /\ Signed(s) <=> b = Base /\ n < 0
                    /\ \A i \in DOMAIN Unsigned(s) : Unsigned(s)[i] \in 0..(b - 1)
                    /\ Len(Unsigned(s)) > 1 => Unsigned(s)[1] # 0
  BY DEF PrintsLongs, Magnitude
<1>1. b \in Nat /\ b >= 2 /\ n \in Int
  BY PrintAssumption DEF Long
<1>2. PICK d : PrintedAs(PrintLong(Fresh, n, b), n, b, d)
  BY <1>1, LongPrinted
<1>3. PlainDigits(d, Magnitude(n, b), b) /\ s = Sign(n, b) \o d
  BY <1>2 DEF PrintedAs, Taking
<1>4. Unsigned(s) = d /\ (Signed(s) <=> b = Base /\ n < 0)
  BY <1>1, <1>3, SignSplit
<1>5. d \in Seq(0..(b - 1)) /\ ValueIn(d, b) = Magnitude(n, b) /\ (Len(d) > 1 => d[1] # 0)
  BY <1>3 DEF PlainDigits
<1>6. \A i \in DOMAIN d : d[i] \in 0..(b - 1)
  BY <1>5
<1> QED BY <1>4, <1>5, <1>6

(* What print() and println() return is what the port took. *)
LEMMA TakenCounted == CountsTaken
<1> SUFFICES ASSUME NEW n \in Long, NEW no \in SUBSET (1..4)
             PROVE  PortCounts(Println(PrintLong(Port(no), n, Base), <<Dot, Dot>>))
  BY DEF CountsTaken, PortCounts
<1>1. Base \in Nat /\ Base >= 2 /\ n \in Int
  BY PrintAssumption DEF Long
<1>2. PortCounts(Port(no))
  <2>1. no \in SUBSET Nat
    OBVIOUS
  <2> QED BY <2>1, PortIsOpen
<1>3. PICK k \in 0..(Longs - 1) : k = Magnitude(n, Base)
  BY <1>1, MagnitudeFits
<1>4. PICK d : d = DigitsIn(Base)[k]
  OBVIOUS
<1>5. d \in Seq(Glyph)
  <2>1. PlainDigits(d, k, Base)
    BY <1>1, <1>4, DigitsArePlain
  <2> QED BY <1>1, <2>1, GlyphDigits
<1>6. <<Minus>> \in Seq(Glyph) /\ <<Dot, Dot>> \in Seq(Glyph)
  BY DEF Glyph
<1>7. PICK p : p = PrintLong(Port(no), n, Base)
  OBVIOUS
<1>8. p = Write(Write(Port(no), <<Minus>>), d) \/ p = Write(Port(no), d)
  <2>1. CASE n < 0
    <3>1. (-n) % Longs = k
      BY <1>1, <1>3, <2>1, MagnitudeFits
    <3> QED BY <1>1, <1>4, <1>7, <2>1, <3>1 DEF PrintLong, PrintNumber
  <2>2. CASE ~(n < 0)
    <3>1. n % Longs = k
      BY <1>1, <1>3, <2>2, MagnitudeFits
    <3> QED BY <1>1, <1>4, <1>7, <2>2, <3>1 DEF PrintLong, PrintNumber
  <2> QED BY <2>1, <2>2
<1>9. PortCounts(p)
  BY <1>2, <1>5, <1>6, <1>8, WriteCounts
<1> QED BY <1>6, <1>7, <1>9, WriteCounts DEF Println

(* The powers of the base, and the rest of a division after k digits. *)
PowerLaw(p, m) ==
  /\ p[0] = 1
  /\ \A k \in 0..m : p[k] \in Nat \ {0}
  /\ \A k \in 1..m : p[k] = p[k - 1] * Base

LEMMA PowersAre == PowerLaw(Power, 8)
<1> DEFINE Step(g, k) == IF k = 0 THEN 1 ELSE g[k - 1] * Base
           F == [g \in [0..8 -> Nat] |-> [k \in 0..8 |-> Step(g, k)]]
           v == CHOOSE g : g = [k \in 0..8 |-> Step(g, k)]
<1>1. Base \in Nat \ {0} /\ 8 \in Nat
  BY PrintAssumption
<1>2. ASSUME NEW g \in [0..8 -> Nat], NEW k \in 0..8 PROVE Step(g, k) \in Nat
  <2>1. CASE k = 0
    BY <2>1
  <2>2. CASE k # 0
    <3>1. k - 1 \in 0..8
      BY <2>2
    <3>2. g[k - 1] \in Nat
      BY <3>1
    <3> QED BY <1>1, <2>2, <3>2
  <2> QED BY <2>1, <2>2
<1>3. ASSUME NEW g \in [0..8 -> Nat], NEW h \in [0..8 -> Nat], NEW k \in 0..8,
             \A j \in 0..8 : j < k => g[j] = h[j]
      PROVE  Step(g, k) = Step(h, k)
  <2>1. CASE k = 0
    BY <2>1
  <2>2. CASE k # 0
    <3>1. k - 1 \in 0..8 /\ k - 1 < k
      BY <2>2
    <3>2. g[k - 1] = h[k - 1]
      BY <1>3, <3>1
    <3> QED BY <2>2, <3>2
  <2> QED BY <2>1, <2>2
<1>4. Solved(0..8, Nat, F)
  <2>1. F \in [[0..8 -> Nat] -> [0..8 -> Nat]]
    <3> HIDE DEF Step
    <3> QED BY <1>2
  <2>2. \A g, h \in [0..8 -> Nat] : \A k \in 0..8 :
          (\A j \in 0..8 : j < k => g[j] = h[j]) => F[g][k] = F[h][k]
    <3> HIDE DEF Step
    <3> QED BY <1>3
  <2>3. FromStart(8, Nat, F)
    <3> HIDE DEF F
    <3> QED BY <2>1, <2>2 DEF FromStart
  <2>4. Nat # {}
    OBVIOUS
  <2> HIDE DEF F
  <2> QED BY <1>1, <2>3, <2>4, RecursionFromStart
<1>5. PICK f \in [0..8 -> Nat] : f = [k \in 0..8 |-> Step(f, k)]
  <2> HIDE DEF Step
  <2> QED BY <1>4 DEF Solved
<1>6. v = [k \in 0..8 |-> Step(v, k)]
  <2> HIDE DEF Step
  <2> QED BY <1>5
<1>7. Power = v
  BY DEF Power
<1> HIDE DEF v
<1>8. v[0] = 1
  BY <1>6
<1>9. ASSUME NEW k \in 1..8 PROVE v[k] = v[k - 1] * Base
  <2>1. k \in 0..8 /\ k # 0
    OBVIOUS
  <2>2. v[k] = Step(v, k)
    <3> HIDE DEF Step
    <3> QED BY <1>6, <2>1
  <2> QED BY <2>1, <2>2
<1>10. \A k \in 0..8 : v[k] \in Nat \ {0}
  <2> DEFINE Good == {k \in 0..8 : v[k] \in Nat \ {0}}
  <2>1. 0 \in Good
    BY <1>8
  <2>2. ASSUME NEW k \in 0..8, k < 8, k \in Good PROVE k + 1 \in Good
    <3>1. k + 1 \in 1..8 /\ k + 1 \in 0..8 /\ (k + 1) - 1 = k /\ v[k] \in Nat \ {0}
      BY <2>2
    <3>2. v[k + 1] = v[k] * Base
      BY <1>9, <3>1
    <3>3. v[k] * Base \in Nat \ {0}
      BY <1>1, <3>1
    <3> QED BY <3>1, <3>2, <3>3
  <2>3. \A k \in 0..8 : k \in Good
    <3> HIDE DEF Good
    <3> QED BY <1>1, <2>1, <2>2, InductionTo
  <2> QED BY <2>3
<1> QED BY <1>7, <1>8, <1>9, <1>10 DEF PowerLaw

RestLaw(f, rest, unit) ==
  /\ f[0] = rest
  /\ \A k \in 0..8 : f[k] \in 0..(unit - 1)
  /\ \A k \in 1..8 : f[k] = (f[k - 1] * Base) % unit

LEMMA RestsAre ==
  ASSUME NEW unit \in Nat, NEW rest \in 0..(unit - 1)
  PROVE  RestLaw(Rest(rest, unit), rest, unit)
<1> DEFINE V == 0..(unit - 1)
           Step(g, k) == IF k = 0 THEN rest ELSE (g[k - 1] * Base) % unit
           F == [g \in [0..8 -> V] |-> [k \in 0..8 |-> Step(g, k)]]
           v == CHOOSE g : g = [k \in 0..8 |-> Step(g, k)]
<1>1. Base \in Nat /\ 8 \in Nat /\ unit > 0
  BY PrintAssumption
<1>2. ASSUME NEW g \in [0..8 -> V], NEW k \in 0..8 PROVE Step(g, k) \in V
  <2>1. CASE k = 0
    BY <2>1
  <2>2. CASE k # 0
    <3>1. k - 1 \in 0..8
      BY <2>2
    <3>2. PICK r \in Nat : r = g[k - 1]
      BY <3>1
    <3>3. PICK a \in Nat : a = r * Base
      BY <1>1
    <3>4. a % unit \in V
      BY <1>1
    <3> QED BY <2>2, <3>2, <3>3, <3>4
  <2> QED BY <2>1, <2>2
<1>3. ASSUME NEW g \in [0..8 -> V], NEW h \in [0..8 -> V], NEW k \in 0..8,
             \A j \in 0..8 : j < k => g[j] = h[j]
      PROVE  Step(g, k) = Step(h, k)
  <2>1. CASE k = 0
    BY <2>1
  <2>2. CASE k # 0
    <3>1. k - 1 \in 0..8 /\ k - 1 < k
      BY <2>2
    <3>2. g[k - 1] = h[k - 1]
      BY <1>3, <3>1
    <3> QED BY <2>2, <3>2
  <2> QED BY <2>1, <2>2
<1>4. Solved(0..8, V, F)
  <2>1. F \in [[0..8 -> V] -> [0..8 -> V]]
    <3> HIDE DEF Step, V
    <3> QED BY <1>2
  <2>2. \A g, h \in [0..8 -> V] : \A k \in 0..8 :
          (\A j \in 0..8 : j < k => g[j] = h[j]) => F[g][k] = F[h][k]
    <3> HIDE DEF Step, V
    <3> QED BY <1>3
  <2>3. FromStart(8, V, F)
    <3> HIDE DEF F, V
    <3> QED BY <2>1, <2>2 DEF FromStart
  <2>4. V # {}
    OBVIOUS
  <2> HIDE DEF F, V
  <2> QED BY <1>1, <2>3, <2>4, RecursionFromStart
<1>5. PICK f \in [0..8 -> V] : f = [k \in 0..8 |-> Step(f, k)]
  <2> HIDE DEF Step, V
  <2> QED BY <1>4 DEF Solved
<1>6. v = [k \in 0..8 |-> Step(v, k)]
  <2> HIDE DEF Step
  <2> QED BY <1>5
<1>7. Rest(rest, unit) = v
  BY DEF Rest
<1> HIDE DEF v
<1>8. v[0] = rest
  BY <1>6
<1>9. ASSUME NEW k \in 1..8 PROVE v[k] = (v[k - 1] * Base) % unit
  <2>1. k \in 0..8 /\ k # 0
    OBVIOUS
  <2>2. v[k] = Step(v, k)
    <3> HIDE DEF Step
    <3> QED BY <1>6, <2>1
  <2> QED BY <2>1, <2>2
<1>10. \A k \in 0..8 : v[k] \in V
  <2> DEFINE Good == {k \in 0..8 : v[k] \in V}
  <2>1. 0 \in Good
    BY <1>8
  <2>2. ASSUME NEW k \in 0..8, k < 8, k \in Good PROVE k + 1 \in Good
    <3>1. k + 1 \in 1..8 /\ k + 1 \in 0..8 /\ (k + 1) - 1 = k /\ v[k] \in V
      BY <2>2
    <3>2. v[k + 1] = (v[k] * Base) % unit
      BY <1>9, <3>1
    <3>3. PICK a \in Nat : a = v[k] * Base
      <4>1. v[k] \in Nat
        BY <3>1
      <4> QED BY <1>1, <4>1
    <3>4. a % unit \in V
      BY <1>1
    <3> QED BY <3>1, <3>2, <3>3, <3>4
  <2>3. \A k \in 0..8 : k \in Good
    <3> HIDE DEF Good, V
    <3> QED BY <1>1, <2>1, <2>2, InductionTo
  <2> QED BY <2>3
<1> QED BY <1>7, <1>8, <1>9, <1>10 DEF RestLaw

(* One digit more of a fraction: what is left, times the base, is divided  *)
(* by the unit.                                                            *)
LEMMA DigitBelowBase ==
  ASSUME NEW unit \in Nat, NEW r \in 0..(unit - 1),
         NEW d \in Nat, NEW s \in Nat, r * Base = d * unit + s
  PROVE  d \in 0..(Base - 1)
<1>1. PICK b \in Nat : b = Base /\ b > 0
  BY PrintAssumption
<1>2. PICK a \in Nat : a = r * b
  BY <1>1
<1>3. a = d * unit + s
  BY <1>1, <1>2
<1> SUFFICES ASSUME d >= b PROVE FALSE
  BY <1>1
<1>4. PICK e \in Nat : d = b + e
  <2>1. d - b \in Nat /\ d = b + (d - b)
    OBVIOUS
  <2> QED BY <2>1
<1>5. PICK h \in Nat : unit = r + 1 + h
  <2>1. unit - r - 1 \in Nat /\ unit = r + 1 + (unit - r - 1)
    OBVIOUS
  <2> QED BY <2>1
<1>6. d * unit = b * unit + e * unit /\ e * unit \in Nat
  BY <1>4
<1>7. b * unit = b * r + b + b * h /\ b * h \in Nat /\ b * r = r * b
  BY <1>5
<1>8. a > r * b
  BY <1>1, <1>3, <1>6, <1>7
<1> QED BY <1>2, <1>8

LEMMA NextDigit ==
  ASSUME NEW unit \in Nat, NEW r \in 0..(unit - 1), NEW v \in Nat, NEW t \in Nat,
         v * unit + r = t, NEW d \in Nat, NEW s \in Nat, r * Base = d * unit + s
  PROVE  (v * Base + d) * unit + s = t * Base
<1>1. PICK b \in Nat : b = Base
  BY PrintAssumption
<1>2. PICK a \in Nat : a = r * b /\ a = d * unit + s
  BY <1>1
<1>3. t * b = v * unit * b + r * b
  OBVIOUS
<1>4. (v * b + d) * unit = v * unit * b + d * unit
  OBVIOUS
<1>5. (v * b + d) * unit + s = t * b
  BY <1>2, <1>3, <1>4
<1> QED BY <1>1, <1>5

(* After all digits the text is within half a unit of the last one. *)
LEMMA LastDigit ==
  ASSUME NEW D \in Nat, NEW P \in Nat \ {0}, NEW unit \in Nat, unit = D * P,
         NEW R \in 0..(unit - 1), NEW v \in Nat, NEW sum \in Nat, v * unit + R = sum * P
  PROVE  v * D <= sum /\ sum < v * D + D
<1>1. PICK m \in Nat : m = v * D
  OBVIOUS
<1>2. v * unit = m * P
  BY <1>1
<1>3. PICK e \in Int : sum = m + e
  <2>1. sum - m \in Int /\ sum = m + (sum - m)
    OBVIOUS
  <2> QED BY <2>1
<1>4. sum * P = m * P + e * P
  BY <1>3
<1>5. R = e * P
  <2>1. PICK x \in Int, y \in Int, z \in Int : x = m * P /\ y = e * P /\ z = sum * P
    OBVIOUS
  <2> QED BY <1>2, <1>4, <2>1
<1>6. e >= 0
  <2> SUFFICES ASSUME e < 0 PROVE FALSE
    OBVIOUS
  <2>1. PICK g \in Nat : e = -1 - g
    <3>1. -1 - e \in Nat /\ e = -1 - (-1 - e)
      OBVIOUS
    <3> QED BY <3>1
  <2>2. e * P = -P - g * P /\ g * P \in Nat
    BY <2>1
  <2> QED BY <1>5, <2>2
<1>7. e < D
  <2> SUFFICES ASSUME e >= D PROVE FALSE
    OBVIOUS
  <2>1. PICK g \in Nat : e = D + g
    <3>1. e - D \in Nat /\ e = D + (e - D)
      OBVIOUS
    <3> QED BY <3>1
  <2>2. e * P = D * P + g * P /\ g * P \in Nat
    BY <2>1
  <2> QED BY <1>5, <2>2
<1> QED BY <1>1, <1>3, <1>6, <1>7

Decimal(q) == q \in Seq(0..(Base - 1))

LEMMA DecimalIs ==
  ASSUME NEW q, Decimal(q)
  PROVE  q \in Seq(Nat) /\ q \in Seq(Glyph)
<1>1. q \in Seq(0..(Base - 1))
  BY DEF Decimal
<1>2. PICK l \in Nat : l = Len(q)
  BY <1>1, LenProperties
<1>3. \A k \in 1..l : q[k] \in Nat
  <2>1. PICK S : S = 0..(Base - 1)
    OBVIOUS
  <2>2. \A k \in 1..l : q[k] \in S
    <3>1. q \in Seq(S)
      BY <1>1, <2>1
    <3> QED BY <1>2, <3>1
  <2> QED BY <2>1, <2>2, PrintAssumption
<1>4. \A k \in 1..l : q[k] \in Glyph
  BY <1>3 DEF Glyph
<1>5. q = [k \in 1..l |-> q[k]]
  BY <1>1, <1>2
<1> QED BY <1>3, <1>4, <1>5

Joined(w, q, d, head, e) ==
  /\ Decimal(w \o q) /\ Decimal(e) /\ Len(e) = Len(q) + 1
  /\ w \o e = Append(w \o q, d) /\ (head \o q) \o <<d>> = head \o e

LEMMA DecimalJoins ==
  ASSUME NEW w, Decimal(w), NEW q, Decimal(q), NEW d, d \in 0..(Base - 1), NEW head, head \in Seq(Glyph)
  PROVE  Joined(w, q, d, head, Append(q, d))
<1>1. q \in Seq(Glyph) /\ d \in Glyph
  BY DecimalIs DEF Glyph
<1>2. PICK t \in Seq(Glyph) : t = <<d>> /\ Append(q, d) = q \o t
  <2>1. <<d>> \in Seq(Glyph)
    BY <1>1
  <2>2. Append(q, d) = q \o <<d>>
    BY <1>1, AppendIsConcat
  <2> QED BY <2>1, <2>2
<1>3. (head \o q) \o <<d>> = head \o Append(q, d)
  <2>1. Glued(head, q, t)
    BY <1>1, <1>2, Glue
  <2> QED BY <1>2, <2>1 DEF Glued
<1>4. PICK S : S = 0..(Base - 1)
  OBVIOUS
<1>5. w \in Seq(S) /\ q \in Seq(S) /\ d \in S
  BY <1>4 DEF Decimal
<1>6. w \o q \in Seq(S) /\ Append(q, d) \in Seq(S) /\ Len(Append(q, d)) = Len(q) + 1
  BY <1>5, ConcatProperties, AppendProperties
<1>7. w \o Append(q, d) = Append(w \o q, d)
  <2>1. PICK u \in Seq(S) : u = <<d>>
    <3>1. <<d>> \in Seq(S)
      BY <1>5
    <3> QED BY <3>1
  <2>2. Append(q, d) = q \o u /\ Append(w \o q, d) = (w \o q) \o u
    BY <1>5, <1>6, <2>1, AppendIsConcat
  <2>3. Glued(w, q, u)
    BY <1>5, <2>1, Glue
  <2> QED BY <2>2, <2>3 DEF Glued
<1> QED BY <1>3, <1>4, <1>6, <1>7 DEF Decimal, Joined

LEMMA Regrouped ==
  ASSUME NEW x \in Nat, NEW y \in Nat, NEW z \in Nat
  PROVE  (x * y) * z = x * (y * z)
OBVIOUS

(* head has been written, then k digits q; with the whole part's digits w  *)
(* they stand for v, and v units and r are t.                              *)
Progress(p, k, r, t, unit, head, w, q, v) ==
  /\ Decimal(q) /\ Len(q) = k /\ Taking(p, head \o q)
  /\ v \in Nat /\ v = ValueIn(w \o q, Base) /\ v * unit + r = t

LEMMA FractionDigit ==
  ASSUME NEW unit \in Nat, unit >= 2, NEW r \in 0..(unit - 1), NEW t \in Nat,
         NEW p, NEW k \in Nat, NEW head, head \in Seq(Glyph), NEW w, Decimal(w), NEW q, NEW v,
         Progress(p, k, r, t, unit, head, w, q, v),
         NEW d \in Nat, NEW s \in Nat, r * Base = d * unit + s
  PROVE  Progress(PrintNumber(p, d, Base), k + 1, s, t * Base, unit, head, w,
                  Append(q, d), v * Base + d)
<1>1. Base \in Nat /\ Base >= 2 /\ Base <= Longs /\ Longs \in Nat
  BY PrintAssumption DEF Longs
<1>2. Decimal(q) /\ Len(q) = k /\ Taking(p, head \o q) /\ v \in Nat
      /\ v = ValueIn(w \o q, Base) /\ v * unit + r = t
  BY DEF Progress
<1>3. d \in 0..(Base - 1) /\ (v * Base + d) * unit + s = t * Base
  <2>1. d \in 0..(Base - 1)
    BY DigitBelowBase
  <2>2. (v * Base + d) * unit + s = t * Base
    BY <1>2, NextDigit
  <2> QED BY <2>1, <2>2
<1>4. DigitsIn(Base)[d] = <<d>>
  <2>1. PICK last \in Nat : last = Longs - 1
    BY PrintAssumption DEF Longs
  <2>2. DigitsLaw(DigitsIn(Base), Base, last)
    BY <1>1, <2>1, DigitsAre
  <2>3. d \in 0..last /\ d < Base
    BY <1>1, <1>3, <2>1
  <2> QED BY <2>2, <2>3 DEF DigitsLaw
<1>5. PrintNumber(p, d, Base) = Write(p, <<d>>)
  BY <1>1, <1>4 DEF PrintNumber
<1>6. PICK e : e = Append(q, d)
  OBVIOUS
<1>7. /\ Decimal(w \o q) /\ Decimal(e) /\ Len(e) = k + 1 /\ w \o e = Append(w \o q, d)
      /\ (head \o q) \o <<d>> = head \o e
  <2>1. Joined(w, q, d, head, Append(q, d))
    BY <1>2, <1>3, DecimalJoins
  <2> QED BY <1>2, <1>6, <2>1 DEF Joined
<1>8. <<d>> \in Seq(Glyph)
  <2>1. d \in Glyph
    BY DEF Glyph
  <2> QED BY <2>1
<1>10. Taking(Write(p, <<d>>), head \o e)
  <2>1. Taking(Write(p, <<d>>), (head \o q) \o <<d>>)
    BY <1>2, <1>8, TakesMore
  <2> QED BY <1>7, <2>1
<1>11. ValueIn(w \o e, Base) = v * Base + d
  <2>1. w \o q \in Seq(Nat)
    BY <1>7, DecimalIs
  <2>2. ValueIn(Append(w \o q, d), Base) = ValueIn(w \o q, Base) * Base + d
    BY <1>1, <2>1, ValueGrows
  <2> QED BY <1>2, <1>7, <2>2
<1>12. v * Base + d \in Nat
  <2>1. v \in Nat /\ Base \in Nat
    BY <1>1, <1>2
  <2>2. v * Base \in Nat
    BY <2>1
  <2> QED BY <2>2
<1> QED BY <1>3, <1>5, <1>6, <1>7, <1>10, <1>11, <1>12 DEF Progress

(* print(x, digits): sign, whole part, point and decimals; without the     *)
(* point, as many units of the last digit as are nearest.                  *)
MinusOf(num) == IF num < 0 THEN <<Minus>> ELSE <<>>
DotOf(digits) == IF digits > 0 THEN <<Dot>> ELSE <<>>
FractionText(p, num, den, digits, w, q) ==
  /\ Decimal(w) /\ w # <<>> /\ Decimal(q) /\ Len(q) = digits
  /\ Taking(p, ((MinusOf(num) \o w) \o DotOf(digits)) \o q)
  /\ ValueIn(w \o q, Base) \in Nat
  /\ ValueIn(w \o q, Base) * (2 * den) <= Doubled(num, den, digits)
  /\ Doubled(num, den, digits) < ValueIn(w \o q, Base) * (2 * den) + 2 * den

LEMMA FractionPrinted ==
  ASSUME NEW num \in Int, NEW den \in Nat \ {0}, NEW digits \in 0..8, InRange(num, den, digits)
  PROVE  \E w, q : FractionText(PrintFloat(Fresh, num, den, digits), num, den, digits, w, q)
<1>1. PICK b \in Nat : b = Base /\ b >= 2
  BY PrintAssumption
<1>2. PICK P \in Nat \ {0} : P = Power[digits]
  BY PowersAre DEF PowerLaw
<1>3. PICK size \in Nat : size = IF num < 0 THEN -num ELSE num
  OBVIOUS
<1>4. PICK sum \in Nat : sum = size * 2 * P + den /\ sum = Doubled(num, den, digits)
  <2>1. size * 2 * P + den \in Nat
    OBVIOUS
  <2> QED BY <1>2, <1>3, <2>1 DEF Doubled
<1>5. PICK D \in Nat : D = 2 * den /\ D >= 2
  OBVIOUS
<1>6. PICK unit \in Nat : unit = D * P /\ unit = 2 * den * P /\ unit >= 2
  <2>1. D * P \in Nat /\ D * P = 2 * den * P
    BY <1>5
  <2>2. PICK h \in Nat : P = 1 + h
    <3>1. P - 1 \in Nat /\ P = 1 + (P - 1)
      OBVIOUS
    <3> QED BY <3>1
  <2>3. D * P = D + D * h /\ D * h \in Nat
    BY <2>2
  <2> QED BY <1>5, <2>1, <2>3
<1>7. PICK whole : whole = sum \div unit
  OBVIOUS
<1>8. PICK rest : rest = sum % unit
  OBVIOUS
<1>9. whole \in Nat /\ rest \in 0..(unit - 1) /\ sum = whole * unit + rest
  <2>1. Parts(sum, unit, whole, rest)
    BY <1>6, <1>7, <1>8, Divided
  <2> QED BY <2>1 DEF Parts
<1>10. whole \in 0..(Longs - 1)
  <2>1. whole < Longs /\ Longs \in Nat
    BY <1>2, <1>4, <1>6, <1>7, PrintAssumption DEF InRange, Longs
  <2> QED BY <1>9, <2>1
<1>11. PICK w : w = DigitsIn(Base)[whole]
  OBVIOUS
<1>12. PlainDigits(w, whole, Base)
  BY <1>1, <1>10, <1>11, DigitsArePlain
<1>13. Decimal(w) /\ w # <<>> /\ ValueIn(w, Base) = whole /\ w \in Seq(Glyph)
  BY <1>1, <1>12, GlyphDigits DEF PlainDigits, Decimal
<1>14. MinusOf(num) \in Seq(Glyph) /\ DotOf(digits) \in Seq(Glyph)
  <2>1. <<Minus>> \in Seq(Glyph) /\ <<Dot>> \in Seq(Glyph) /\ <<>> \in Seq(Glyph)
    BY DEF Glyph
  <2> QED BY <2>1 DEF MinusOf, DotOf
<1>15. PICK m \in Seq(Glyph) : m = MinusOf(num) \o w
  <2>1. MinusOf(num) \o w \in Seq(Glyph)
    BY <1>13, <1>14, ConcatProperties
  <2> QED BY <2>1
<1>16. PICK head \in Seq(Glyph) : head = m \o DotOf(digits)
  <2>1. m \o DotOf(digits) \in Seq(Glyph)
    BY <1>14, ConcatProperties
  <2> QED BY <2>1
<1>17. PICK sign : sign = IF num < 0 THEN Write(Fresh, <<Minus>>) ELSE Fresh
  OBVIOUS
<1>18. PICK point : point = IF digits > 0 THEN Write(PrintNumber(sign, whole, Base), <<Dot>>)
                            ELSE PrintNumber(sign, whole, Base)
  OBVIOUS
<1>19. Taking(point, head)
  <2>1. Taking(sign, MinusOf(num))
    <3>1. CASE num < 0
      <4>1. <<>> \o <<Minus>> = <<Minus>> /\ <<Minus>> \in Seq(Glyph)
        BY DEF Glyph
      <4>2. Taking(Write(Fresh, <<Minus>>), <<>> \o <<Minus>>)
        BY <4>1, FreshTakes, TakesMore
      <4> QED BY <1>17, <3>1, <4>1, <4>2 DEF MinusOf
    <3>2. CASE ~(num < 0)
      BY <1>17, <3>2, FreshTakes DEF MinusOf
    <3> QED BY <3>1, <3>2
  <2>2. PrintNumber(sign, whole, Base) = Write(sign, w)
    BY <1>1, <1>11 DEF PrintNumber
  <2>3. Taking(Write(sign, w), m)
    BY <1>13, <1>15, <2>1, TakesMore
  <2>4. CASE digits > 0
    <3>1. point = Write(Write(sign, w), <<Dot>>) /\ DotOf(digits) = <<Dot>>
      BY <1>18, <2>2, <2>4 DEF DotOf
    <3>2. Taking(Write(Write(sign, w), <<Dot>>), m \o <<Dot>>)
      BY <1>14, <2>3, <3>1, TakesMore
    <3> QED BY <1>16, <3>1, <3>2
  <2>5. CASE ~(digits > 0)
    <3>1. point = Write(sign, w) /\ m \o DotOf(digits) = m
      BY <1>18, <2>2, <2>5 DEF DotOf
    <3> QED BY <1>16, <2>3, <3>1
  <2> QED BY <2>4, <2>5
<1>20. PICK rests : rests = Rest(rest, unit)
  OBVIOUS
<1>21. /\ rests[0] = rest
       /\ \A k \in 0..8 : rests[k] \in 0..(unit - 1)
       /\ \A k \in 1..8 : rests[k] = (rests[k - 1] * b) % unit
  <2>1. RestLaw(rests, rest, unit)
    BY <1>9, <1>20, RestsAre
  <2> QED BY <1>1, <2>1 DEF RestLaw
<1> DEFINE V == {p \in [no : SUBSET Nat, asked : Nat, out : Seq(Glyph), n : Nat] :
                   p.n = Len(p.out)}
           Next1(k) == (rests[k - 1] * Base) \div unit
           Step(g, k) == IF k = 0 THEN point ELSE PrintNumber(g[k - 1], Next1(k), Base)
           F == [g \in [0..digits -> V] |-> [k \in 0..digits |-> Step(g, k)]]
           Unit == 2 * den * Power[digits]
           Sum == (IF num < 0 THEN -num ELSE num) * 2 * Power[digits] + Rounding(den)
           Body(g, k) ==
             IF k = 0
             THEN IF digits > 0
                  THEN Write(PrintNumber(IF num < 0 THEN Write(Fresh, <<Minus>>) ELSE Fresh,
                                         Sum \div Unit, Base), <<Dot>>)
                  ELSE PrintNumber(IF num < 0 THEN Write(Fresh, <<Minus>>) ELSE Fresh,
                                   Sum \div Unit, Base)
             ELSE PrintNumber(g[k - 1], (Rest(Sum % Unit, Unit)[k - 1] * Base) \div Unit, Base)
           f == CHOOSE g : g = [k \in 0..digits |-> Body(g, k)]
<1>22. \A p : p \in V <=> PortCounts(p)
  BY DEF PortCounts
<1>23. ASSUME NEW k \in 1..digits
       PROVE  \E d \in Nat : /\ d = Next1(k) /\ d \in 0..(Base - 1)
                             /\ rests[k - 1] * Base = d * unit + rests[k]
  <2>1. k \in 1..8 /\ k - 1 \in 0..8 /\ k \in 0..8
    OBVIOUS
  <2>2. PICK r \in 0..(unit - 1) : r = rests[k - 1]
    BY <1>21, <2>1
  <2>3. PICK s \in 0..(unit - 1) : s = rests[k]
    BY <1>21, <2>1
  <2>4. PICK a \in Nat : a = r * b
    <3>1. r * b \in Nat
      OBVIOUS
    <3> QED BY <3>1
  <2>5. s = a % unit
    BY <1>21, <2>1, <2>2, <2>3, <2>4
  <2>6. PICK d : d = a \div unit
    OBVIOUS
  <2>7. Parts(a, unit, d, s)
    BY <1>6, <2>5, <2>6, Divided
  <2>8. d \in Nat /\ a = d * unit + s
    BY <2>7 DEF Parts
  <2>9. d \in 0..(Base - 1)
    <3>1. r * Base = d * unit + s /\ s \in Nat
      BY <1>1, <2>4, <2>8
    <3> QED BY <2>8, <3>1, DigitBelowBase
  <2> QED BY <1>1, <2>2, <2>3, <2>4, <2>6, <2>8, <2>9
<1>24. ASSUME NEW d \in 0..(Base - 1), NEW p \in V PROVE PrintNumber(p, d, Base) \in V
  <2>1. PICK t : t = DigitsIn(Base)[d]
    OBVIOUS
  <2>2. PlainDigits(t, d, Base)
    <3>1. d \in 0..(Longs - 1)
      BY <1>1, PrintAssumption DEF Longs
    <3> QED BY <1>1, <2>1, <3>1, DigitsArePlain
  <2>3. t \in Seq(Glyph)
    BY <1>1, <2>2, GlyphDigits
  <2>4. PrintNumber(p, d, Base) = Write(p, t)
    BY <1>1, <2>1 DEF PrintNumber
  <2>5. PortCounts(Write(p, t))
    BY <1>22, <2>3, WriteCounts
  <2> QED BY <1>22, <2>4, <2>5
<1>25. ASSUME NEW g \in [0..digits -> V], NEW k \in 0..digits PROVE Step(g, k) \in V
  <2>1. CASE k = 0
    <3>1. point \in V
      BY <1>19, <1>22 DEF Taking
    <3> HIDE DEF V
    <3> QED BY <2>1, <3>1
  <2>2. CASE k # 0
    <3>1. k - 1 \in 0..digits /\ k \in 1..digits
      BY <2>2
    <3>2. PICK d \in 0..(Base - 1) : d = Next1(k)
      <4> HIDE DEF Next1
      <4> QED BY <1>23, <3>1
    <3>3. PICK p \in V : p = g[k - 1]
      <4> HIDE DEF V
      <4> QED BY <3>1
    <3>4. PrintNumber(p, d, Base) \in V
      BY <1>24
    <3> HIDE DEF V, Next1
    <3> QED BY <2>2, <3>2, <3>3, <3>4
  <2> QED BY <2>1, <2>2
<1>26. ASSUME NEW g \in [0..digits -> V], NEW h \in [0..digits -> V], NEW k \in 0..digits,
              \A j \in 0..digits : j < k => g[j] = h[j]
       PROVE  Step(g, k) = Step(h, k)
  <2> HIDE DEF V, Next1
  <2>1. CASE k = 0
    BY <2>1
  <2>2. CASE k # 0
    <3>1. k - 1 \in 0..digits /\ k - 1 < k
      BY <2>2
    <3>2. g[k - 1] = h[k - 1]
      BY <1>26, <3>1
    <3> QED BY <2>2, <3>2
  <2> QED BY <2>1, <2>2
<1>27. Solved(0..digits, V, F)
  <2>1. F \in [[0..digits -> V] -> [0..digits -> V]]
    <3> HIDE DEF Step, V
    <3> QED BY <1>25
  <2>2. \A g, h \in [0..digits -> V] : \A k \in 0..digits :
          (\A j \in 0..digits : j < k => g[j] = h[j]) => F[g][k] = F[h][k]
    <3> HIDE DEF Step, V
    <3> QED BY <1>26
  <2>3. FromStart(digits, V, F)
    <3> HIDE DEF F, V
    <3> QED BY <2>1, <2>2 DEF FromStart
  <2>4. V # {}
    <3>1. point \in V
      BY <1>19, <1>22 DEF Taking
    <3> HIDE DEF V
    <3> QED BY <3>1
  <2>5. digits \in Nat
    OBVIOUS
  <2> HIDE DEF F, V
  <2> QED BY <2>3, <2>4, <2>5, RecursionFromStart
<1>28. PICK e \in [0..digits -> V] : e = [k \in 0..digits |-> Step(e, k)]
  <2> HIDE DEF Step, V
  <2> QED BY <1>27 DEF Solved
<1>29. f = [k \in 0..digits |-> Step(f, k)]
  <2>1. Sum = sum
    BY <1>2, <1>3, <1>4 DEF Rounding
  <2>2. Unit = unit
    BY <1>2, <1>6
  <2> HIDE DEF Sum, Unit
  <2>3. ASSUME NEW g, NEW k \in 0..digits PROVE Body(g, k) = Step(g, k)
    <3>1. CASE k = 0
      BY <1>7, <1>17, <1>18, <2>1, <2>2, <3>1
    <3>2. CASE k # 0
      BY <1>8, <1>20, <2>1, <2>2, <3>2
    <3> QED BY <3>1, <3>2
  <2> HIDE DEF Step, Body
  <2>4. e = [k \in 0..digits |-> Body(e, k)]
    BY <1>28, <2>3
  <2>5. f = [k \in 0..digits |-> Body(f, k)]
    BY <2>4
  <2> HIDE DEF f
  <2> QED BY <2>3, <2>5
<1>30. PrintFloat(Fresh, num, den, digits) = f[digits]
  BY DEF PrintFloat
<1> DEFINE Reached(k) == \E q, v : Progress(f[k], k, rests[k], sum * Power[k], unit, head, w, q, v)
           Good == {k \in 0..digits : Reached(k)}
<1> HIDE DEF f
<1>31. ASSUME NEW k \in 0..digits PROVE f[k] = Step(f, k)
  <2> HIDE DEF Step
  <2> QED BY <1>29
<1>32. 0 \in Good
  <2>1. f[0] = point
    BY <1>31
  <2>2. Decimal(<<>>) /\ Len(<<>>) = 0 /\ head \o <<>> = head /\ w \o <<>> = w
    BY <1>13 DEF Decimal
  <2>3. whole * unit + rests[0] = sum * Power[0]
    BY <1>9, <1>21, PowersAre DEF PowerLaw
  <2>4. Progress(f[0], 0, rests[0], sum * Power[0], unit, head, w, <<>>, whole)
    BY <1>9, <1>13, <1>19, <2>1, <2>2, <2>3 DEF Progress
  <2>5. Reached(0)
    BY <2>4
  <2> QED BY <2>5
<1>33. ASSUME NEW k \in 0..digits, k < digits, k \in Good PROVE k + 1 \in Good
  <2>1. k \in 0..8 /\ k + 1 \in 1..digits /\ k + 1 \in 1..8 /\ k + 1 \in 0..digits
        /\ (k + 1) - 1 = k /\ k \in Nat /\ k + 1 # 0
    <3>1. digits \in Nat /\ digits <= 8 /\ k \in Nat /\ k < digits
      BY <1>33
    <3> HIDE DEF Good
    <3> QED BY <3>1
  <2>2. PICK q, v : Progress(f[k], k, rests[k], sum * Power[k], unit, head, w, q, v)
    <3>1. Reached(k)
      <4> HIDE DEF Reached
      <4> QED BY <1>33
    <3> QED BY <3>1
  <2>3. PICK r \in 0..(unit - 1) : r = rests[k]
    BY <1>21, <2>1
  <2>4. PICK t \in Nat : t = sum * Power[k]
    <3>1. PICK x \in Nat : x = Power[k]
      BY <2>1, PowersAre DEF PowerLaw
    <3>2. sum * x \in Nat
      OBVIOUS
    <3> QED BY <3>1, <3>2
  <2>5. PICK d \in Nat : d = Next1(k + 1) /\ rests[(k + 1) - 1] * Base = d * unit + rests[k + 1]
    BY <1>23, <2>1
  <2>6. PICK s \in Nat : s = rests[k + 1]
    <3>1. k + 1 \in 0..8
      BY <2>1
    <3>2. rests[k + 1] \in 0..(unit - 1)
      BY <1>21, <3>1
    <3> QED BY <3>2
  <2>7. r * Base = d * unit + s
    BY <2>1, <2>3, <2>5, <2>6
  <2>8. PICK p : p = f[k]
    OBVIOUS
  <2>9. Progress(p, k, r, t, unit, head, w, q, v)
    BY <2>2, <2>3, <2>4, <2>8
  <2>10. Progress(PrintNumber(p, d, Base), k + 1, s, t * Base, unit, head, w,
                  Append(q, d), v * Base + d)
    BY <1>6, <1>13, <2>1, <2>7, <2>9, FractionDigit
  <2>11. f[k + 1] = PrintNumber(p, d, Base)
    <3>1. f[k + 1] = Step(f, k + 1)
      <4> HIDE DEF Step
      <4> QED BY <1>31, <2>1
    <3> HIDE DEF Next1
    <3> QED BY <2>1, <2>5, <2>8, <3>1
  <2>12. t * Base = sum * Power[k + 1]
    <3>1. PICK x \in Nat : x = Power[k]
      BY <2>1, PowersAre DEF PowerLaw
    <3>2. Power[k + 1] = x * b
      BY <1>1, <2>1, <3>1, PowersAre DEF PowerLaw
    <3>3. t * b = sum * (x * b)
      <4>1. t = sum * x
        BY <2>4, <3>1
      <4>2. (sum * x) * b = sum * (x * b)
        BY Regrouped
      <4> QED BY <4>1, <4>2
    <3> QED BY <1>1, <3>2, <3>3
  <2>13. Reached(k + 1)
    BY <2>6, <2>10, <2>11, <2>12
  <2> QED BY <2>1, <2>13
<1>34. digits \in Good
  <2>1. digits \in Nat /\ digits \in 0..digits
    OBVIOUS
  <2> HIDE DEF Good
  <2> QED BY <1>32, <1>33, <2>1, InductionTo
<1>35. PICK q, v : Progress(f[digits], digits, rests[digits], sum * Power[digits], unit, head, w, q, v)
  BY <1>34
<1>36. /\ Decimal(q) /\ Len(q) = digits /\ Taking(f[digits], head \o q) /\ v \in Nat
       /\ v = ValueIn(w \o q, Base) /\ v * unit + rests[digits] = sum * P
  BY <1>2, <1>35 DEF Progress
<1>37. v * D <= sum /\ sum < v * D + D
  <2>1. PICK R \in 0..(unit - 1) : R = rests[digits]
    BY <1>21
  <2>2. v * unit + R = sum * P
    BY <1>36, <2>1
  <2> QED BY <1>6, <1>36, <2>2, LastDigit
<1>38. PICK p : p = PrintFloat(Fresh, num, den, digits)
  OBVIOUS
<1>39. Taking(p, ((MinusOf(num) \o w) \o DotOf(digits)) \o q)
  BY <1>15, <1>16, <1>30, <1>36, <1>38
<1>40. /\ ValueIn(w \o q, Base) * (2 * den) <= Doubled(num, den, digits)
       /\ Doubled(num, den, digits) < ValueIn(w \o q, Base) * (2 * den) + 2 * den
  BY <1>4, <1>5, <1>36, <1>37
<1>41. FractionText(p, num, den, digits, w, q)
  BY <1>13, <1>36, <1>39, <1>40 DEF FractionText
<1> QED BY <1>38, <1>41

(* A text of three parts, cut. *)
Cut3(s, w, x, q, l, m) ==
  /\ s \in Seq(Glyph) /\ Len(s) = l + 1 + m
  /\ s[l + 1] = x /\ SubSeq(s, 1, l) = w /\ SubSeq(s, l + 2, l + 1 + m) = q
  /\ \A k \in 1..l : s[k] = w[k]
  /\ \A k \in 1..m : s[l + 1 + k] = q[k]

LEMMA CutAround ==
  ASSUME NEW w \in Seq(Glyph), NEW x \in Glyph, NEW q \in Seq(Glyph),
         NEW s, s = (w \o <<x>>) \o q, NEW l \in Nat, l = Len(w), NEW m \in Nat, m = Len(q)
  PROVE  Cut3(s, w, x, q, l, m)
<1>1. PICK t \in Seq(Glyph) : t = w \o <<x>>
  <2>1. w \o <<x>> \in Seq(Glyph)
    OBVIOUS
  <2> QED BY <2>1
<1>2. Len(t) = l + 1 /\ t[l + 1] = x /\ \A k \in 1..l : t[k] = w[k]
  BY <1>1
<1>3. s \in Seq(Glyph) /\ Len(s) = l + 1 + m
  BY <1>1, <1>2
<1>4. \A k \in 1..(l + 1) : s[k] = t[k]
  BY <1>1, <1>2
<1>5. \A k \in 1..m : s[l + 1 + k] = q[k]
  BY <1>1, <1>2
<1>6. s[l + 1] = x /\ \A k \in 1..l : s[k] = w[k]
  BY <1>2, <1>4
<1>7. SubSeq(s, 1, l) = w
  <2>1. SubSeq(s, 1, l) = [k \in 1..l |-> s[k]]
    BY <1>3
  <2>2. w = [k \in 1..l |-> w[k]]
    OBVIOUS
  <2> QED BY <1>6, <2>1, <2>2
<1>8. SubSeq(s, l + 2, l + 1 + m) = q
  <2>1. SubSeq(s, l + 2, l + 1 + m) = [k \in 1..m |-> s[l + 1 + k]]
    BY <1>3
  <2>2. q = [k \in 1..m |-> q[k]]
    OBVIOUS
  <2> QED BY <1>5, <2>1, <2>2
<1> QED BY <1>3, <1>5, <1>6, <1>7, <1>8 DEF Cut3

(* What stands behind the sign. *)
SignedText(num, w, dot, q, s) ==
  /\ Unsigned(s) = (w \o dot) \o q /\ (Signed(s) <=> num < 0)
  /\ s = MinusOf(num) \o ((w \o dot) \o q)

LEMMA FractionUnsigned ==
  ASSUME NEW num \in Int, NEW w, Decimal(w), w # <<>>, NEW dot \in Seq(Glyph), NEW q, Decimal(q),
         NEW s, s = ((MinusOf(num) \o w) \o dot) \o q
  PROVE  SignedText(num, w, dot, q, s)
<1>1. w \in Seq(Glyph) /\ w \in Seq(Nat) /\ q \in Seq(Glyph)
  BY DecimalIs
<1>2. PICK u \in Seq(Glyph) : u = (w \o dot) \o q
  <2>1. (w \o dot) \o q \in Seq(Glyph)
    BY <1>1, ConcatProperties
  <2> QED BY <2>1
<1>3. PICK m \in Seq(Glyph) : m = MinusOf(num)
  <2>1. <<Minus>> \in Seq(Glyph) /\ <<>> \in Seq(Glyph)
    BY DEF Glyph
  <2> QED BY <2>1 DEF MinusOf
<1>4. s = m \o u
  <2>1. PICK t \in Seq(Glyph) : t = w \o dot
    <3>1. w \o dot \in Seq(Glyph)
      BY <1>1, ConcatProperties
    <3> QED BY <3>1
  <2>2. Glued(m, w, dot) /\ Glued(m, t, q)
    BY <1>1, <2>1, Glue
  <2>3. PICK x : x = m \o w
    OBVIOUS
  <2>4. x \o dot = m \o t
    BY <2>1, <2>2, <2>3 DEF Glued
  <2>5. (m \o t) \o q = m \o u
    BY <1>2, <2>1, <2>2 DEF Glued
  <2>6. s = (x \o dot) \o q
    BY <1>3, <2>3
  <2> QED BY <2>4, <2>5, <2>6
<1>5. w[1] \in Nat /\ u[1] = w[1] /\ u # <<>>
  <2>1. Len(w) \in Nat /\ Len(w) >= 1
    BY <1>1, EmptySeq, LenProperties
  <2>2. w[1] \in Nat
    BY <1>1, <2>1
  <2>3. PICK t \in Seq(Glyph) : t = w \o dot
    <3>1. w \o dot \in Seq(Glyph)
      BY <1>1, ConcatProperties
    <3> QED BY <3>1
  <2>4. t[1] = w[1] /\ Len(t) >= 1
    BY <1>1, <2>1, <2>3
  <2>5. u[1] = t[1] /\ Len(u) >= 1
    BY <1>1, <1>2, <2>3, <2>4
  <2> QED BY <2>2, <2>4, <2>5
<1>6. CASE num < 0
  <2>1. s = <<Minus>> \o u
    BY <1>3, <1>4, <1>6 DEF MinusOf
  <2>2. s # <<>> /\ s[1] = Minus /\ Tail(s) = u
    BY <2>1
  <2> QED BY <1>2, <1>3, <1>4, <1>6, <2>2 DEF Signed, Unsigned, SignedText
<1>7. CASE ~(num < 0)
  <2>1. s = u
    <3>1. m = <<>> /\ <<>> \o u = u
      BY <1>3, <1>7 DEF MinusOf
    <3> QED BY <1>4, <3>1
  <2>2. s[1] # Minus
    BY <1>5, <2>1, StreamAssumption
  <2> QED BY <1>2, <1>3, <1>4, <1>7, <2>1, <2>2 DEF Signed, Unsigned, SignedText
<1> QED BY <1>6, <1>7 DEF SignedText

LEMMA FractionIsNearest ==
  ASSUME NEW num \in Int, NEW den \in Nat \ {0}, NEW digits \in 0..8, InRange(num, den, digits)
  PROVE  PrintsFraction(num, den, digits)
<1>1. PICK p : p = PrintFloat(Fresh, num, den, digits)
  OBVIOUS
<1>2. PICK w, q : FractionText(p, num, den, digits, w, q)
  BY <1>1, FractionPrinted
<1>3. /\ Decimal(w) /\ w # <<>> /\ Decimal(q) /\ Len(q) = digits
      /\ p.out = ((MinusOf(num) \o w) \o DotOf(digits)) \o q
  BY <1>2 DEF FractionText, Taking
<1>4. DotOf(digits) \in Seq(Glyph)
  <2>1. <<Dot>> \in Seq(Glyph) /\ <<>> \in Seq(Glyph)
    BY DEF Glyph
  <2> QED BY <2>1 DEF DotOf
<1>5. PICK s : s = Unsigned(p.out)
  OBVIOUS
<1>6. s = (w \o DotOf(digits)) \o q
  <2>1. SignedText(num, w, DotOf(digits), q, p.out)
    BY <1>3, <1>4, FractionUnsigned
  <2> QED BY <1>5, <2>1 DEF SignedText
<1>7. w \in Seq(Glyph) /\ q \in Seq(Glyph)
  BY <1>3, DecimalIs
<1>8. PICK e : e = IF digits = 0 THEN s
                   ELSE SubSeq(s, 1, Len(s) - digits - 1) \o SubSeq(s, Len(s) - digits + 1, Len(s))
  OBVIOUS
<1>9. e = w \o q /\ (digits > 0 => s[Len(s) - digits] = Dot)
  <2>1. CASE digits = 0
    <3>1. q = <<>> /\ DotOf(digits) = <<>>
      BY <1>3, <1>7, <2>1, EmptySeq DEF DotOf
    <3>2. s = w /\ w \o q = w
      BY <1>6, <1>7, <3>1
    <3> QED BY <1>8, <2>1, <3>2
  <2>2. CASE digits # 0
    <3>1. DotOf(digits) = <<Dot>> /\ Dot \in Glyph
      BY <2>2 DEF DotOf, Glyph
    <3>2. PICK l \in Nat : l = Len(w)
      BY <1>7, LenProperties
    <3>3. digits \in Nat
      OBVIOUS
    <3>4. /\ Len(s) = l + 1 + digits /\ s[l + 1] = Dot
          /\ SubSeq(s, 1, l) = w /\ SubSeq(s, l + 2, l + 1 + digits) = q
      <4>1. Cut3(s, w, Dot, q, l, digits)
        BY <1>3, <1>6, <1>7, <3>1, <3>2, <3>3, CutAround
      <4> QED BY <4>1 DEF Cut3
    <3>5. Len(s) - digits = l + 1 /\ Len(s) - digits - 1 = l /\ Len(s) - digits + 1 = l + 2
      BY <3>3, <3>4
    <3> QED BY <1>8, <2>2, <3>4, <3>5
  <2> QED BY <2>1, <2>2
<1>10. PICK v \in Nat : /\ v = ValueIn(w \o q, Base)
                        /\ v * (2 * den) <= Doubled(num, den, digits)
                        /\ Doubled(num, den, digits) < v * (2 * den) + 2 * den
  BY <1>2 DEF FractionText
<1>11. PICK size \in Nat : size = IF num < 0 THEN -num ELSE num
  OBVIOUS
<1>12. PICK P \in Nat : P = Power[digits]
  BY PowersAre DEF PowerLaw
<1>13. 2 * v * den > 2 * size * P - den /\ 2 * v * den <= 2 * size * P + den
  <2>1. Doubled(num, den, digits) = size * 2 * P + den
    BY <1>11, <1>12 DEF Doubled
  <2>2. PICK x \in Nat : x = v * (2 * den) /\ x = 2 * v * den
    <3>1. v * (2 * den) \in Nat /\ v * (2 * den) = 2 * v * den
      OBVIOUS
    <3> QED BY <3>1
  <2>3. PICK y \in Nat : y = size * 2 * P /\ y = 2 * size * P
    <3>1. size * 2 * P \in Nat /\ size * 2 * P = 2 * size * P
      OBVIOUS
    <3> QED BY <3>1
  <2>4. x <= y + den /\ y + den < x + 2 * den
    BY <1>10, <2>1, <2>2, <2>3
  <2>5. x > y - den /\ x <= y + den
    BY <2>4
  <2> QED BY <2>2, <2>3, <2>5
<1> QED BY <1>1, <1>5, <1>8, <1>9, <1>10, <1>11, <1>12, <1>13 DEF PrintsFraction

(* print() writes the number it was given, in any base: a long as its      *)
(* digits, in Base with a sign; a fraction as the nearest multiple of its  *)
(* last digit, if it is not too large (Print.cpp:225).  It returns how     *)
(* much the port took.                                                     *)
THEOREM PrintedRight ==
  /\ PrintsLongs /\ CountsTaken
  /\ \A num \in Int, den \in Nat \ {0}, digits \in 0..8 :
       InRange(num, den, digits) => PrintsFraction(num, den, digits)
BY LongsPrinted, TakenCounted, FractionIsNearest

-----------------------------------------------------------------------------
(* What print() writes, parseInt() and parseFloat() read back.             *)

Added(v, s, ig, N) ==
  /\ v[0] = 0
  /\ \A k \in 1..N : v[k] = IF s[k] \in Digit /\ s[k] # ig THEN v[k - 1] * Base + s[k]
                            ELSE v[k - 1]

LEMMA ValuesAdd ==
  ASSUME NEW N \in Nat, NEW s, N = Len(s), NEW ig, NEW v, v = Values(s, ig)
  PROVE  Added(v, s, ig, N)
<1>1. v[0] = 0
  BY ValuesAre
<1>2. \A k \in 1..N : v[k] = IF s[k] \in Digit /\ s[k] # ig THEN v[k - 1] * Base + s[k]
                           ELSE v[k - 1]
  BY ValuesAre
<1> QED BY <1>1, <1>2 DEF Added

(* Digits none of which is ignored stand for the number they stand for.    *)
LEMMA NumberOfDigits ==
  ASSUME NEW e, e \in Seq(Nat), NEW ig, \A k \in 1..Len(e) : e[k] \in Digit /\ e[k] # ig
  PROVE  Number(e, ig) = ValueIn(e, Base)
<1>1. PICK l \in Nat : l = Len(e)
  BY LenProperties
<1>2. Base \in Nat
  BY PrintAssumption
<1>3. PICK u : Horner(u, e, Base, l) /\ ValueIn(e, Base) = u[l]
  BY <1>1, <1>2, HornerIs
<1>4. PICK v : v = Values(e, ig)
  OBVIOUS
<1>5. v[0] = 0 /\ \A k \in 1..l : v[k] = v[k - 1] * Base + e[k]
  <2>1. Added(v, e, ig, l)
    BY <1>1, <1>4, ValuesAdd
  <2>2. v[0] = 0
    BY <2>1 DEF Added
  <2>3. ASSUME NEW k \in 1..l PROVE v[k] = v[k - 1] * Base + e[k]
    <3>1. e[k] \in Digit /\ e[k] # ig
      BY <1>1
    <3> QED BY <2>1, <3>1 DEF Added
  <2> QED BY <2>2, <2>3
<1> DEFINE Same == {k \in 0..l : u[k] = v[k]}
<1>6. 0 \in Same
  BY <1>3, <1>5 DEF Horner
<1>7. ASSUME NEW k \in 0..l, k < l, k \in Same PROVE k + 1 \in Same
  <2>1. k + 1 \in 1..l /\ k + 1 \in 0..l /\ (k + 1) - 1 = k /\ u[k] = v[k]
    BY <1>7
  <2>2. u[k + 1] = u[k] * Base + e[k + 1]
    BY <1>3, <2>1 DEF Horner
  <2>3. v[k + 1] = v[k] * Base + e[k + 1]
    BY <1>5, <2>1
  <2> QED BY <2>1, <2>2, <2>3
<1>8. l \in Same
  <2>1. l \in 0..l
    OBVIOUS
  <2> HIDE DEF Same
  <2> QED BY <1>6, <1>7, <2>1, InductionTo
<1> QED BY <1>1, <1>3, <1>4, <1>8 DEF Number

(* A character that is no digit may as well not be there. *)
Without1(s, t, m, N) ==
  /\ N + 1 = Len(s) /\ N = Len(t) /\ m \in 1..(N + 1) /\ s[m] \notin Digit
  /\ \A k \in 1..N : (k < m => s[k] = t[k]) /\ (k >= m => s[k + 1] = t[k])

LEMMA NumberSkips ==
  ASSUME NEW s, NEW t, NEW m, NEW N \in Nat, Without1(s, t, m, N), NEW ig
  PROVE  Number(s, ig) = Number(t, ig)
<1>1. /\ N + 1 \in Nat /\ N + 1 = Len(s) /\ N = Len(t) /\ m \in 1..(N + 1) /\ s[m] \notin Digit
      /\ \A k \in 1..N : (k < m => s[k] = t[k]) /\ (k >= m => s[k + 1] = t[k])
  BY DEF Without1
<1>2. PICK v : v = Values(s, ig)
  OBVIOUS
<1>3. PICK u : u = Values(t, ig)
  OBVIOUS
<1>4. /\ v[0] = 0
      /\ \A k \in 1..(N + 1) : v[k] = IF s[k] \in Digit /\ s[k] # ig THEN v[k - 1] * Base + s[k]
                                      ELSE v[k - 1]
  <2>1. Added(v, s, ig, N + 1)
    BY <1>1, <1>2, ValuesAdd
  <2> QED BY <2>1 DEF Added
<1>5. /\ u[0] = 0
      /\ \A k \in 1..N : u[k] = IF t[k] \in Digit /\ t[k] # ig THEN u[k - 1] * Base + t[k]
                                ELSE u[k - 1]
  <2>1. Added(u, t, ig, N)
    BY <1>1, <1>3, ValuesAdd
  <2> QED BY <2>1 DEF Added
<1>6. v[m] = v[m - 1]
  BY <1>1, <1>4
<1> DEFINE Same == {k \in 0..N : (k < m => v[k] = u[k]) /\ (k >= m => v[k + 1] = u[k])}
<1>7. 0 \in Same
  BY <1>1, <1>4, <1>5
<1>8. ASSUME NEW k \in 0..N, k < N, k \in Same PROVE k + 1 \in Same
  <2>1. k + 1 \in 1..N /\ k + 1 \in 1..(N + 1) /\ k + 2 \in 1..(N + 1) /\ (k + 1) - 1 = k
        /\ (k + 2) - 1 = k + 1 /\ k + 1 \in 0..N /\ (k + 1) + 1 = k + 2
    BY <1>8
  <2>2. u[k + 1] = IF t[k + 1] \in Digit /\ t[k + 1] # ig THEN u[k] * Base + t[k + 1] ELSE u[k]
    BY <1>5, <2>1
  <2>3. v[k + 1] = IF s[k + 1] \in Digit /\ s[k + 1] # ig THEN v[k] * Base + s[k + 1] ELSE v[k]
    BY <1>4, <2>1
  <2>4. v[k + 2] = IF s[k + 2] \in Digit /\ s[k + 2] # ig THEN v[k + 1] * Base + s[k + 2]
                   ELSE v[k + 1]
    BY <1>4, <2>1
  <2>5. CASE k + 1 < m
    <3>1. s[k + 1] = t[k + 1] /\ v[k] = u[k] /\ ~(k + 1 >= m)
      BY <1>1, <1>8, <2>1, <2>5
    <3>2. v[k + 1] = u[k + 1]
      BY <2>2, <2>3, <3>1
    <3> QED BY <2>1, <3>1, <3>2
  <2>6. CASE ~(k + 1 < m)
    <3>1. k + 1 >= m /\ s[k + 2] = t[k + 1]
      BY <1>1, <2>1, <2>6
    <3>2. v[k + 1] = u[k]
      <4>1. CASE k >= m
        BY <1>8, <4>1
      <4>2. CASE ~(k >= m)
        <5>1. k + 1 = m /\ k < m /\ m - 1 = k
          BY <1>1, <3>1, <4>2
        <5> QED BY <1>6, <1>8, <5>1
      <4> QED BY <4>1, <4>2
    <3>3. v[k + 2] = u[k + 1]
      BY <2>2, <2>4, <3>1, <3>2
    <3>4. ~(k + 1 < m)
      BY <2>6
    <3> QED BY <2>1, <3>3, <3>4
  <2> QED BY <2>5, <2>6
<1>9. N \in Same
  <2>1. N \in 0..N
    OBVIOUS
  <2> HIDE DEF Same
  <2> QED BY <1>7, <1>8, <2>1, InductionTo
<1>10. v[N + 1] = u[N]
  <2>1. CASE N >= m
    BY <1>9, <2>1
  <2>2. CASE ~(N >= m)
    <3>1. N + 1 = m /\ N < m /\ m - 1 = N
      BY <1>1, <2>2
    <3> QED BY <1>6, <1>9, <3>1
  <2> QED BY <2>1, <2>2
<1> QED BY <1>1, <1>2, <1>3, <1>10 DEF Number

(* parseFloat() counts the digits behind the first point. *)
PlacesInv ==
  Parsing /\ call.ignore # Dot =>
    /\ ~isFraction => places = 0 /\ \A j \in 1..Len(buffer) : buffer[j] # Dot
    /\ isFraction =>
         \E d \in 1..Len(buffer) :
           /\ buffer[d] = Dot /\ \A j \in 1..(d - 1) : buffer[j] # Dot
           /\ (\A j \in (d + 1)..Len(buffer) : buffer[j] \in Digit /\ buffer[j] # call.ignore)
                => places = Len(buffer) - d

LEMMA PlacesCounted ==
  ASSUME TypeInv, PlacesInv, Parsing, c \in Char, Account, call' = call,
         buffer' = Append(buffer, c), c = Dot => ~isFraction
  PROVE  PlacesInv'
<1> SUFFICES ASSUME call.ignore # Dot
             PROVE  /\ ~isFraction' => places' = 0 /\ \A j \in 1..Len(buffer') : buffer'[j] # Dot
                    /\ isFraction' =>
                         \E d \in 1..Len(buffer') :
                           /\ buffer'[d] = Dot /\ \A j \in 1..(d - 1) : buffer'[j] # Dot
                           /\ (\A j \in (d + 1)..Len(buffer') : buffer'[j] \in Digit /\ buffer'[j] # call.ignore)
                                => places' = Len(buffer') - d
  BY DEF PlacesInv
<1>1. buffer \in Seq(Char) /\ places \in Nat /\ isFraction \in BOOLEAN
  BY DEF TypeInv, TypeOK, TextOK, NumberOK
<1>2. PICK l \in Nat : l = Len(buffer)
  BY <1>1, LenProperties
<1>3. Len(buffer') = l + 1 /\ buffer'[l + 1] = c /\ \A j \in 1..l : buffer'[j] = buffer[j]
  BY <1>1, <1>2
<1>4. /\ ~isFraction => places = 0 /\ \A j \in 1..l : buffer[j] # Dot
      /\ isFraction => \E d \in 1..l :
           /\ buffer[d] = Dot /\ \A j \in 1..(d - 1) : buffer[j] # Dot
           /\ (\A j \in (d + 1)..l : buffer[j] \in Digit /\ buffer[j] # call.ignore)
                => places = l - d
  BY <1>2 DEF PlacesInv
<1>5. Dot \notin Digit
  BY StreamAssumption DEF Digit
<1>6. CASE c = Dot
  <2>1. ~isFraction /\ ~IsIgnored
    BY <1>6 DEF IsIgnored, SameChar
  <2>2. isFraction' /\ places' = 0
    BY <1>4, <1>5, <1>6, <2>1 DEF Account
  <2>3. l + 1 \in 1..(l + 1) /\ buffer'[l + 1] = Dot /\ (l + 1) - (l + 1) = 0
        /\ \A j \in 1..((l + 1) - 1) : buffer'[j] # Dot
    BY <1>3, <1>4, <1>6, <2>1
  <2> QED BY <1>3, <2>2, <2>3
<1>7. CASE c # Dot /\ c \in Digit /\ c # call.ignore
  <2>1. ~IsIgnored
    BY <1>7, IgnoredIsIgnore
  <2>2. isFraction' = isFraction /\ places' = IF isFraction THEN places + 1 ELSE places
    BY <1>1, <1>7, <2>1 DEF Account
  <2>3. CASE ~isFraction
    <3>1. \A j \in 1..(l + 1) : buffer'[j] # Dot
      BY <1>3, <1>4, <1>7, <2>3
    <3> QED BY <1>3, <1>4, <2>2, <2>3, <3>1
  <2>4. CASE isFraction
    <3>1. PICK d \in 1..l :
            /\ buffer[d] = Dot /\ \A j \in 1..(d - 1) : buffer[j] # Dot
            /\ (\A j \in (d + 1)..l : buffer[j] \in Digit /\ buffer[j] # call.ignore)
                 => places = l - d
      BY <1>4, <2>4
    <3>2. d \in 1..(l + 1) /\ buffer'[d] = Dot /\ \A j \in 1..(d - 1) : buffer'[j] # Dot
      BY <1>3, <3>1
    <3>3. ASSUME \A j \in (d + 1)..(l + 1) : buffer'[j] \in Digit /\ buffer'[j] # call.ignore
          PROVE  places' = (l + 1) - d
      <4>1. \A j \in (d + 1)..l : buffer[j] \in Digit /\ buffer[j] # call.ignore
        BY <1>3, <3>3
      <4> QED BY <2>2, <2>4, <3>1, <4>1
    <3> QED BY <1>3, <2>2, <2>4, <3>2, <3>3
  <2> QED BY <2>3, <2>4
<1>8. CASE c # Dot /\ ~(c \in Digit /\ c # call.ignore)
  <2>1. isFraction' = isFraction /\ places' = places
    <3>1. c \in Digit => IsIgnored
      BY <1>8, IgnoredIsIgnore
    <3> QED BY <1>1, <1>8, <3>1 DEF Account, number
  <2>2. CASE ~isFraction
    <3>1. \A j \in 1..(l + 1) : buffer'[j] # Dot
      BY <1>3, <1>4, <1>8, <2>2
    <3> QED BY <1>3, <1>4, <2>1, <2>2, <3>1
  <2>3. CASE isFraction
    <3>1. PICK d \in 1..l : buffer[d] = Dot /\ \A j \in 1..(d - 1) : buffer[j] # Dot
      BY <1>4, <2>3
    <3>2. d \in 1..(l + 1) /\ buffer'[d] = Dot /\ \A j \in 1..(d - 1) : buffer'[j] # Dot
      BY <1>3, <3>1
    <3>3. ~(\A j \in (d + 1)..(l + 1) : buffer'[j] \in Digit /\ buffer'[j] # call.ignore)
      <4>1. l + 1 \in (d + 1)..(l + 1)
        OBVIOUS
      <4> QED BY <1>3, <1>8, <4>1
    <3> QED BY <1>3, <2>1, <2>3, <3>2, <3>3
  <2> QED BY <2>2, <2>3
<1> QED BY <1>6, <1>7, <1>8

LEMMA PlacesStep ==
  ASSUME TypeInv, PlacesInv, [Next]_vars
  PROVE  PlacesInv'
<1>1. ASSUME UNCHANGED <<call, number, buffer>> PROVE PlacesInv'
  BY <1>1 DEF PlacesInv, Parsing, number
<1>2. CASE (\E ch \in Char : Arrive(ch)) \/ Tick \/ UNCHANGED vars
  <2>1. UNCHANGED <<call, number, buffer>>
    BY <1>2 DEF Arrive, Tick, vars
  <2> QED BY <1>1, <2>1
<1>3. ASSUME NEW cl \in Calls, Begin(cl) PROVE PlacesInv'
  <2>1. buffer' = <<>> /\ isFraction' = FALSE /\ places' = 0
    BY <1>3 DEF Begin
  <2>2. \A j \in 1..Len(<<>>) : FALSE
    OBVIOUS
  <2> QED BY <2>1, <2>2 DEF PlacesInv
<1>4. CASE TimedStart \/ TimedPoll \/ TimedCheck
  <2>1. UNCHANGED <<call, number, buffer>>
    BY <1>4 DEF TimedStart, TimedPoll, TimedCheck
  <2> QED BY <1>1, <2>1
<1>5. CASE ReadGot \/ FindGot
  <2>1. call.kind # "parse" /\ call' = call
    BY <1>5 DEF ReadGot, FindGot
  <2> QED BY <2>1 DEF PlacesInv, Parsing
<1>6. CASE SkipGot \/ ParseGot
  <2>1. call' = call /\ Parsing /\ c \in Char \cup {None}
    BY <1>6, StreamAssumption DEF SkipGot, ParseGot, Parsing, TypeInv, CallKnown, TypeOK, CallOK
  <2>2. ASSUME c # None, Account, buffer' = Append(buffer, c), c = Dot => ~isFraction
        PROVE  PlacesInv'
    BY <2>1, <2>2, PlacesCounted
  <2>3. CASE call.ignore = Dot
    BY <2>1, <2>3 DEF PlacesInv
  <2>4. CASE call.ignore # Dot
    <3>1. CASE SkipGot
      <4>1. buffer = <<>>
        BY <3>1 DEF SkipGot
      <4>2. isFraction = FALSE
        <5>1. \A d \in 1..Len(<<>>) : FALSE
          OBVIOUS
        <5>2. ~isFraction
          BY <2>1, <2>4, <4>1, <5>1 DEF PlacesInv
        <5> QED BY <5>2 DEF TypeInv, TypeOK, NumberOK
      <4>3. CASE c # None /\ Account /\ buffer' = <<c>>
        <5>1. <<c>> = Append(buffer, c)
          BY <4>1
        <5> QED BY <2>2, <4>2, <4>3, <5>1
      <4>4. CASE UNCHANGED <<number, buffer>>
        BY <1>1, <2>1, <4>4
      <4> QED BY <3>1, <4>3, <4>4 DEF SkipGot
    <3>2. CASE ParseGot
      <4>1. CASE Continues /\ Account /\ buffer' = Append(buffer, c)
        <5>1. c = Dot => ~isFraction
          <6>1. c = Dot => c \notin Digit /\ ~IsIgnored
            BY <2>4, StreamAssumption DEF Digit, IsIgnored, SameChar
          <6> QED BY <4>1, <6>1 DEF Continues
        <5> QED BY <2>2, <4>1, <5>1 DEF Continues
      <4>2. CASE UNCHANGED <<number, buffer>>
        BY <1>1, <2>1, <4>2
      <4> QED BY <3>2, <4>1, <4>2 DEF ParseGot
    <3> QED BY <1>6, <3>1, <3>2
  <2> QED BY <2>3, <2>4
<1> QED
  BY <1>2, <1>3, <1>4, <1>5, <1>6 DEF Next, Main

(* A text that begins like a number is one. *)
LEMMA AllIsNumber ==
  ASSUME TypeInv, ExtentInv, ValueInv, Parsing, Len(taken) >= 1, taken[1] \in NumberStart
  PROVE  buffer = taken
<1>1. PICK s \in Seq(Char) : s = taken
  BY DEF TypeInv, TypeOK, TextOK
<1>2. PICK b \in Seq(Char) : b = buffer
  BY DEF TypeInv, TypeOK, TextOK
<1>3. NumberIn(s) = b
  BY <1>1, <1>2, BufferIsNumber
<1>4. 0 \in 0..Len(s) /\ (\A j \in 1..0 : s[j] \notin NumberStart)
      /\ (0 < Len(s) => s[0 + 1] \in NumberStart)
  BY <1>1
<1>5. Len(NumberIn(s)) = Len(s) - 0 /\ \A j \in 1..(Len(s) - 0) : NumberIn(s)[j] = s[0 + j]
  BY <1>4, NumberIsEnd
<1>6. Len(b) = Len(s) /\ \A j \in 1..Len(b) : b[j] = s[j]
  BY <1>3, <1>5
<1>7. b = s
  BY <1>6, SeqEqual
<1> QED BY <1>1, <1>2, <1>7

(* The value of a text without its sign. *)
LEMMA SignSkipped ==
  ASSUME NEW u \in Seq(Glyph), NEW s, s = <<Minus>> \o u, NEW ig
  PROVE  Number(s, ig) = Number(u, ig)
<1>1. PICK N \in Nat : N = Len(u)
  BY LenProperties
<1>2. <<Minus>> \in Seq(Glyph)
  BY DEF Glyph
<1>3. N + 1 = Len(s) /\ s[1] = Minus /\ \A k \in 1..N : s[k + 1] = u[k]
  BY <1>1, <1>2
<1>4. Minus \notin Digit
  BY StreamAssumption DEF Digit
<1>5. Without1(s, u, 1, N)
  BY <1>1, <1>3, <1>4 DEF Without1
<1> QED BY <1>5, NumberSkips

SameNumber(s, t, ig) == Number(s, ig) = Number(t, ig)

LEMMA PointSkipped ==
  ASSUME NEW w \in Seq(Glyph), NEW q \in Seq(Glyph), NEW s, s = (w \o <<Dot>>) \o q, NEW ig
  PROVE  SameNumber(s, w \o q, ig)
<1>1. PICK l \in Nat : l = Len(w)
  BY LenProperties
<1>2. PICK m \in Nat : m = Len(q)
  BY LenProperties
<1>3. Dot \in Glyph /\ Dot \notin Digit
  BY StreamAssumption DEF Glyph, Digit
<1>4. /\ Len(s) = l + 1 + m /\ s[l + 1] = Dot
      /\ \A k \in 1..l : s[k] = w[k]
      /\ \A k \in 1..m : s[l + 1 + k] = q[k]
  <2>1. Cut3(s, w, Dot, q, l, m)
    BY <1>1, <1>2, <1>3, CutAround
  <2> QED BY <2>1 DEF Cut3
<1>5. PICK t \in Seq(Glyph) : t = w \o q
  <2>1. w \o q \in Seq(Glyph)
    BY ConcatProperties
  <2> QED BY <2>1
<1>6. /\ Len(t) = l + m
      /\ \A k \in 1..l : t[k] = w[k]
      /\ \A k \in 1..m : t[l + k] = q[k]
  BY <1>1, <1>2, <1>5
<1>7. ASSUME NEW k \in 1..(l + m), k >= l + 1 PROVE s[k + 1] = t[k]
  <2>1. PICK j \in 1..m : j = k - l
    BY <1>7
  <2>2. k + 1 = l + 1 + j /\ k = l + j
    BY <2>1
  <2> QED BY <1>4, <1>6, <2>2
<1>8. ASSUME NEW k \in 1..(l + m), k < l + 1 PROVE s[k] = t[k]
  <2>1. k \in 1..l
    BY <1>8
  <2> QED BY <1>4, <1>6, <2>1
<1>9. Without1(s, t, l + 1, l + m)
  <2>1. (l + m) + 1 = Len(s) /\ l + m = Len(t) /\ l + 1 \in 1..((l + m) + 1)
    BY <1>4, <1>6
  <2>2. \A k \in 1..(l + m) : (k < l + 1 => s[k] = t[k]) /\ (k >= l + 1 => s[k + 1] = t[k])
    BY <1>7, <1>8
  <2> QED BY <1>3, <1>4, <2>1, <2>2 DEF Without1
<1>10. Number(s, ig) = Number(t, ig)
  <2>1. PICK N \in Nat : N = l + m
    OBVIOUS
  <2>2. PICK n : n = l + 1
    OBVIOUS
  <2>3. Without1(s, t, n, N)
    BY <1>9, <2>1, <2>2
  <2> QED BY <2>3, NumberSkips
<1> QED BY <1>5, <1>10 DEF SameNumber

Tried == TypeInv /\ ExtentInv /\ ValueInv /\ PlacesInv

LEMMA LongsReadBack ==
  ASSUME Tried, Returned("parse"), NEW n \in (-LongMax)..LongMax,
         Sent(PrintLong(Fresh, n, Base).out)
  PROVE  result = n
<1>1. Base \in Nat /\ Base >= 2 /\ LongMax \in Nat
  BY PrintAssumption
<1>2. n \in Long /\ n \in Int
  BY <1>1 DEF Long
<1>3. PICK d : PrintedAs(PrintLong(Fresh, n, Base), n, Base, d)
  BY <1>1, <1>2, LongPrinted
<1>4. PICK k \in Nat : k = IF n < 0 THEN -n ELSE n
  BY <1>1
<1>5. PlainDigits(d, k, Base) /\ taken = Sign(n, Base) \o d
  BY <1>3, <1>4 DEF PrintedAs, Taking, Sent, Magnitude
<1>6. d \in Seq(Glyph) /\ Decimal(d) /\ d # <<>> /\ ValueIn(d, Base) = k
  BY <1>1, <1>5, GlyphDigits DEF PlainDigits, Decimal
<1>7. PICK l \in Nat : l = Len(d) /\ l >= 1
  BY <1>6, LongEnough
<1>8. PICK ig : ig = call.ignore
  OBVIOUS
<1>9. ig \notin Digit /\ ig # Minus
  BY <1>8 DEF Sent
<1>10. Parsing /\ pc = "idle" /\ taken \in Seq(Char)
  BY DEF Returned, Parsing, Tried, TypeInv, TypeOK, TextOK
<1>11. /\ Len(taken) >= 1
       /\ \A j \in 1..l : d[j] \in Char
       /\ n < 0 => taken[1] = Minus
       /\ ~(n < 0) => taken[1] = d[1]
       /\ Number(taken, ig) = Number(d, ig)
  <2>1. CASE n < 0
    <3>1. taken = <<Minus>> \o d /\ <<Minus>> \in Seq(Glyph)
      BY <1>5, <2>1 DEF Sign, Glyph
    <3>2. Len(taken) = l + 1 /\ taken[1] = Minus /\ \A j \in 1..l : taken[j + 1] = d[j]
      BY <1>6, <1>7, <3>1
    <3>3. \A j \in 1..l : d[j] \in Char
      <4>1. \A j \in 1..(l + 1) : taken[j] \in Char
        BY <1>10, <3>2
      <4>2. \A j \in 1..l : j + 1 \in 1..(l + 1)
        OBVIOUS
      <4> QED BY <3>2, <4>1, <4>2
    <3>4. Number(taken, ig) = Number(d, ig)
      BY <1>6, <3>1, SignSkipped
    <3> QED BY <1>7, <2>1, <3>2, <3>3, <3>4
  <2>2. CASE ~(n < 0)
    <3>1. taken = d
      BY <1>5, <1>6, <2>2 DEF Sign
    <3>2. \A j \in 1..l : d[j] \in Char
      BY <1>7, <1>10, <3>1
    <3> QED BY <1>7, <2>2, <3>1, <3>2
  <2> QED BY <2>1, <2>2
<1>12. d \in Seq(Nat) /\ \A j \in 1..l : d[j] \in Digit /\ d[j] # ig
  <2>1. d \in Seq(Nat)
    BY <1>6, DecimalIs
  <2>2. \A j \in 1..l : d[j] \in Nat
    BY <1>7, <2>1
  <2> QED BY <1>9, <1>11, <2>1, <2>2 DEF Digit
<1>13. Number(d, ig) = k
  BY <1>6, <1>7, <1>12, NumberOfDigits
<1>14. buffer = taken
  <2>1. 1 \in 1..l
    BY <1>7
  <2>2. taken[1] \in NumberStart
    BY <1>11, <1>12, <2>1 DEF NumberStart
  <2> QED BY <1>10, <1>11, <2>2, AllIsNumber DEF Tried
<1>15. k <= LongMax
  BY <1>1, <1>4
<1>16. value = k /\ result = IF isNegative THEN -value ELSE value
  BY <1>8, <1>10, <1>11, <1>13, <1>14, <1>15 DEF Tried, ValueInv
<1>17. isNegative <=> n < 0
  <2>1. isNegative <=> taken # <<>> /\ taken[1] = Minus /\ Minus # ig
    BY <1>8, <1>10, <1>14 DEF Tried, ValueInv
  <2>2. d[1] # Minus
    <3>1. 1 \in 1..l
      BY <1>7
    <3>2. d[1] \in Nat
      BY <1>12, <3>1 DEF Digit
    <3> QED BY <3>2, StreamAssumption
  <2>3. taken # <<>>
    BY <1>11
  <2> QED BY <1>9, <1>11, <2>1, <2>2, <2>3
<1> QED BY <1>4, <1>16, <1>17

(* What is true of the characters of a text is true of its parts. *)
Within(s, S) == \A k \in 1..Len(s) : s[k] \in S

LEMMA WithinParts ==
  ASSUME NEW a \in Seq(Glyph), NEW b \in Seq(Glyph), NEW s, s = a \o b, NEW S
  PROVE  Within(s, S) <=> Within(a, S) /\ Within(b, S)
<1>1. PICK l \in Nat : l = Len(a)
  BY LenProperties
<1>2. PICK m \in Nat : m = Len(b)
  BY LenProperties
<1>3. /\ Len(s) = l + m
      /\ \A k \in 1..l : s[k] = a[k]
      /\ \A k \in 1..m : s[l + k] = b[k]
  BY <1>1, <1>2
<1>4. ASSUME Within(s, S) PROVE Within(a, S) /\ Within(b, S)
  <2>1. \A k \in 1..(l + m) : s[k] \in S
    BY <1>3, <1>4 DEF Within
  <2>2. \A k \in 1..l : a[k] \in S
    BY <1>3, <2>1
  <2>3. ASSUME NEW k \in 1..m PROVE b[k] \in S
    <3>1. l + k \in 1..(l + m)
      OBVIOUS
    <3> QED BY <1>3, <2>1, <3>1
  <2> QED BY <1>1, <1>2, <2>2, <2>3 DEF Within
<1>5. ASSUME Within(a, S), Within(b, S) PROVE Within(s, S)
  <2> SUFFICES ASSUME NEW k \in 1..(l + m) PROVE s[k] \in S
    BY <1>3 DEF Within
  <2>1. CASE k \in 1..l
    BY <1>1, <1>3, <1>5, <2>1 DEF Within
  <2>2. CASE k \notin 1..l
    <3>1. PICK j \in 1..m : j = k - l /\ k = l + j
      BY <2>2
    <3>2. b[j] \in S
      BY <1>2, <1>5 DEF Within
    <3> QED BY <1>3, <3>1, <3>2
  <2> QED BY <2>1, <2>2
<1> QED BY <1>4, <1>5

LEMMA Nearest ==
  ASSUME NEW v \in Nat, NEW y \in Nat, v * 4 <= 4 * y + 2, 4 * y + 2 < v * 4 + 4
  PROVE  v = y
OBVIOUS

LEMMA FractionsReadBack ==
  ASSUME Tried, Returned("parse"), NEW half \in Nat, Base = 2 * half,
         NEW num \in (-3)..3, NEW digits \in 1..2, call.decimal,
         Sent(PrintFloat(Fresh, num, 2, digits).out),
         ValueOf(PrintFloat(Fresh, num, 2, digits).out) <= LongMax
  PROVE  places = digits /\ 2 * result = num * Power[digits]
<1>1. Base \in Nat /\ Base >= 2 /\ LongMax \in Nat /\ half >= 1 /\ Longs \in Nat /\ Longs >= 4
  BY PrintAssumption DEF Longs
<1>2. PICK size \in 0..3 : size = IF num < 0 THEN -num ELSE num
  OBVIOUS
<1>3. PICK P \in Nat \ {0} : P = Power[digits]
  BY PowersAre DEF PowerLaw
<1>4. PICK h \in Nat : P = 2 * h /\ h >= 1
  <2>1. PICK x \in Nat \ {0} : x = Power[digits - 1]
    <3>1. digits - 1 \in 0..8
      OBVIOUS
    <3> QED BY <3>1, PowersAre DEF PowerLaw
  <2>2. P = x * Base
    <3>1. digits \in 1..8
      OBVIOUS
    <3> QED BY <1>3, <2>1, <3>1, PowersAre DEF PowerLaw
  <2>3. x * half \in Nat /\ P = 2 * (x * half)
    BY <2>2
  <2> QED BY <2>3
<1>5. PICK y \in Nat : y = size * h
  OBVIOUS
<1>6. PICK sum \in Nat : sum = Doubled(num, 2, digits) /\ sum = 4 * y + 2
  <2>1. size * 2 * P + 2 = 4 * y + 2
    BY <1>4, <1>5
  <2>2. Doubled(num, 2, digits) = size * 2 * P + 2
    BY <1>2, <1>3 DEF Doubled
  <2> QED BY <2>1, <2>2
<1>7. InRange(num, 2, digits)
  <2>1. PICK unit \in Nat : unit = 2 * 2 * P /\ unit = 8 * h /\ unit >= 2
    <3>1. 2 * 2 * P \in Nat /\ 2 * 2 * P = 8 * h
      BY <1>4
    <3> QED BY <1>4, <3>1
  <2>2. PICK whole : whole = sum \div unit
    OBVIOUS
  <2>3. PICK rest : rest = sum % unit
    OBVIOUS
  <2>4. Parts(sum, unit, whole, rest)
    BY <2>1, <2>2, <2>3, Divided
  <2>5. whole \in Nat /\ rest \in Nat /\ sum = whole * unit + rest
    BY <2>1, <2>4 DEF Parts
  <2>6. y <= 3 * h
    BY <1>5
  <2>7. whole < 2
    <3> SUFFICES ASSUME whole >= 2 PROVE FALSE
      BY <2>5
    <3>1. PICK g \in Nat : whole = 2 + g
      <4>1. whole - 2 \in Nat /\ whole = 2 + (whole - 2)
        BY <2>5
      <4> QED BY <4>1
    <3>2. whole * unit = 2 * unit + g * unit /\ g * unit \in Nat
      BY <3>1
    <3> QED BY <1>4, <1>6, <2>1, <2>5, <2>6, <3>2
  <2> QED BY <1>1, <1>3, <1>6, <2>1, <2>2, <2>5, <2>7 DEF InRange
<1>8. PICK p : p = PrintFloat(Fresh, num, 2, digits)
  OBVIOUS
<1>9. PICK w, q : FractionText(p, num, 2, digits, w, q)
  <2>1. num \in Int /\ 2 \in Nat \ {0} /\ digits \in 0..8
    OBVIOUS
  <2> QED BY <1>7, <1>8, <2>1, FractionPrinted
<1>10. /\ Decimal(w) /\ w # <<>> /\ Decimal(q) /\ Len(q) = digits
       /\ taken = ((MinusOf(num) \o w) \o <<Dot>>) \o q
  <2>1. /\ Decimal(w) /\ w # <<>> /\ Decimal(q) /\ Len(q) = digits
        /\ p.out = ((MinusOf(num) \o w) \o DotOf(digits)) \o q
    BY <1>9 DEF FractionText, Taking
  <2>2. taken = p.out
    BY <1>8 DEF Sent
  <2>3. DotOf(digits) = <<Dot>>
    BY DEF DotOf
  <2> QED BY <2>1, <2>2, <2>3
<1>11. PICK v \in Nat : v = ValueIn(w \o q, Base) /\ v = y
  <2>1. PICK v \in Nat : v = ValueIn(w \o q, Base) /\ v * (2 * 2) <= sum /\ sum < v * (2 * 2) + 2 * 2
    BY <1>6, <1>9 DEF FractionText
  <2>2. v * 4 <= 4 * y + 2 /\ 4 * y + 2 < v * 4 + 4
    BY <1>6, <2>1
  <2>3. v = y
    BY <2>2, Nearest
  <2> QED BY <2>1, <2>3
<1>12. PICK ig : ig = call.ignore /\ ig \notin Digit /\ ig # Minus /\ ig # Dot
  BY DEF Sent
<1>13. w \in Seq(Glyph) /\ q \in Seq(Glyph) /\ w \in Seq(Nat) /\ q \in Seq(Nat)
  BY <1>10, DecimalIs
<1>14. PICK sg \in Seq(Glyph) : sg = MinusOf(num) /\ Within(sg, Glyph \ {Dot})
  <2>1. <<Minus>> \in Seq(Glyph) /\ <<>> \in Seq(Glyph)
    BY DEF Glyph
  <2>2. Within(<<Minus>>, Glyph \ {Dot}) /\ Within(<<>>, Glyph \ {Dot})
    BY PrintAssumption DEF Within, Glyph
  <2> QED BY <2>1, <2>2 DEF MinusOf
<1>15. PICK m \in Seq(Glyph) : m = sg \o w
  BY <1>13, ConcatProperties
<1>16. PICK e \in Seq(Glyph) : e = w \o q
  BY <1>13, ConcatProperties
<1>17. m \o q = sg \o e
  <2>1. Glued(sg, w, q)
    BY <1>13, Glue
  <2> QED BY <1>15, <1>16, <2>1 DEF Glued
<1>18. taken = (m \o <<Dot>>) \o q
  BY <1>10, <1>14, <1>15
<1>19. Parsing /\ pc = "idle" /\ taken \in Seq(Char)
  BY DEF Returned, Parsing, Tried, TypeInv, TypeOK, TextOK
<1>20. PICK l \in Nat : l = Len(m)
  BY LenProperties
<1>21. /\ Len(taken) = l + 1 + digits /\ taken[l + 1] = Dot
       /\ \A k \in 1..l : taken[k] = m[k]
       /\ \A k \in 1..digits : taken[l + 1 + k] = q[k]
  <2>1. digits \in Nat /\ Dot \in Glyph
    BY DEF Glyph
  <2>2. PICK s : s = (m \o <<Dot>>) \o q
    OBVIOUS
  <2>3. /\ Len(s) = l + 1 + digits /\ s[l + 1] = Dot
        /\ \A k \in 1..l : s[k] = m[k]
        /\ \A k \in 1..digits : s[l + 1 + k] = q[k]
    <3>1. PICK k \in Nat : k = digits /\ k = Len(q)
      BY <1>10, <2>1
    <3>2. Cut3(s, m, Dot, q, l, k)
      BY <1>13, <1>20, <2>1, <2>2, <3>1, CutAround
    <3> QED BY <3>1, <3>2 DEF Cut3
  <2> QED BY <1>18, <2>2, <2>3
<1>22. Within(m, Char) /\ Within(q, Char)
  <2>1. \A k \in 1..(l + 1 + digits) : taken[k] \in Char
    BY <1>19, <1>21
  <2>2. ASSUME NEW k \in 1..l PROVE m[k] \in Char
    <3>1. k \in 1..(l + 1 + digits) /\ taken[k] = m[k]
      BY <1>21
    <3> QED BY <2>1, <3>1
  <2>3. ASSUME NEW k \in 1..digits PROVE q[k] \in Char
    <3>1. PICK j : j = l + 1 + k /\ j \in 1..(l + 1 + digits)
      OBVIOUS
    <3>2. taken[j] = q[k]
      BY <1>21, <3>1
    <3> QED BY <2>1, <3>1, <3>2
  <2> QED BY <1>10, <1>20, <2>2, <2>3 DEF Within
<1>23. Within(e, Char) /\ Within(e, Nat) /\ Within(q, Nat) /\ Within(w, Nat)
  <2>1. Within(w, Nat) /\ Within(q, Nat)
    <3>1. ASSUME NEW s \in Seq(Nat), NEW k \in 1..Len(s) PROVE s[k] \in Nat
      BY ElementOfSeq
    <3>2. w \in Seq(Nat) /\ q \in Seq(Nat)
      BY <1>13
    <3> QED BY <3>1, <3>2 DEF Within
  <2>2. Within(w, Char)
    BY <1>13, <1>15, <1>22, WithinParts
  <2> QED BY <1>13, <1>16, <1>22, <2>1, <2>2, WithinParts
<1>24. Within(m, Glyph \ {Dot})
  <2>1. Within(w, Glyph \ {Dot})
    <3>1. \A k \in 1..Len(w) : w[k] \in Nat
      BY <1>23 DEF Within
    <3>2. \A x \in Nat : x \in Glyph \ {Dot}
      BY StreamAssumption DEF Glyph
    <3> QED BY <3>1, <3>2 DEF Within
  <2> QED BY <1>13, <1>14, <1>15, <2>1, WithinParts
<1>25. Number(taken, ig) = v
  <2>1. Number(taken, ig) = Number(m \o q, ig)
    <3>1. PICK s : s = (m \o <<Dot>>) \o q
      OBVIOUS
    <3>2. SameNumber(s, m \o q, ig)
      BY <1>13, <3>1, PointSkipped
    <3> QED BY <1>18, <3>1, <3>2 DEF SameNumber
  <2>2. Number(sg \o e, ig) = Number(e, ig)
    <3>1. CASE num < 0
      <4>1. sg = <<Minus>>
        BY <1>14, <3>1 DEF MinusOf
      <4> QED BY <4>1, SignSkipped
    <3>2. CASE ~(num < 0)
      <4>1. sg = <<>> /\ <<>> \o e = e
        BY <1>14, <3>2 DEF MinusOf
      <4> QED BY <4>1
    <3> QED BY <3>1, <3>2
  <2>3. Number(e, ig) = ValueIn(e, Base)
    <3>1. \A k \in 1..Len(e) : e[k] \in Digit /\ e[k] # ig
      BY <1>12, <1>23 DEF Within, Digit
    <3>2. e \in Seq(Nat)
      <4>1. Decimal(e)
        <5>1. PICK S : S = 0..(Base - 1)
          OBVIOUS
        <5>2. w \in Seq(S) /\ q \in Seq(S)
          BY <1>10, <5>1 DEF Decimal
        <5>3. w \o q \in Seq(S)
          BY <5>2, ConcatProperties
        <5> QED BY <1>16, <5>1, <5>3 DEF Decimal
      <4> QED BY <4>1, DecimalIs
    <3> QED BY <3>1, <3>2, NumberOfDigits
  <2> QED BY <1>11, <1>16, <1>17, <2>1, <2>2, <2>3
<1>26. l >= 1 /\ (num < 0 => m[1] = Minus) /\ (~(num < 0) => m[1] \in Digit)
  <2>1. PICK lw \in Nat : lw = Len(w) /\ lw >= 1
    BY <1>10, <1>13, LongEnough
  <2>2. CASE num < 0
    <3>1. m = <<Minus>> \o w /\ <<Minus>> \in Seq(Glyph)
      BY <1>14, <1>15, <2>2 DEF MinusOf, Glyph
    <3>2. Len(m) = lw + 1 /\ m[1] = Minus
      BY <1>13, <2>1, <3>1
    <3> QED BY <1>20, <2>1, <2>2, <3>2
  <2>3. CASE ~(num < 0)
    <3>1. m = w
      <4>1. sg = <<>> /\ <<>> \o w = w
        BY <1>13, <1>14, <2>3 DEF MinusOf
      <4> QED BY <1>15, <4>1
    <3>2. 1 \in 1..Len(m)
      BY <2>1, <3>1
    <3>3. m[1] \in Nat /\ m[1] \in Char
      BY <1>22, <1>23, <3>1, <3>2 DEF Within
    <3> QED BY <1>20, <2>1, <2>3, <3>1, <3>3 DEF Digit
  <2> QED BY <2>2, <2>3
<1>27. taken[1] = m[1] /\ Len(taken) >= 1
  BY <1>21, <1>26
<1>28. buffer = taken
  <2>1. taken[1] \in NumberStart
    BY <1>26, <1>27 DEF NumberStart
  <2> QED BY <1>19, <1>27, <2>1, AllIsNumber DEF Tried
<1>29. value = v /\ result = IF isNegative THEN -value ELSE value
  <2>1. v <= LongMax
    BY <1>8, <1>12, <1>18, <1>25 DEF ValueOf, Number, Sent
  <2> QED BY <1>12, <1>19, <1>25, <1>28, <2>1 DEF Tried, ValueInv
<1>30. isNegative <=> num < 0
  <2>1. isNegative <=> taken # <<>> /\ taken[1] = Minus /\ Minus # ig
    BY <1>12, <1>19, <1>28 DEF Tried, ValueInv
  <2>2. ~(num < 0) => m[1] # Minus
    BY <1>26, StreamAssumption DEF Digit
  <2>3. taken # <<>>
    BY <1>27
  <2> QED BY <1>12, <1>26, <1>27, <2>1, <2>2, <2>3
<1>31. 2 * result = num * P
  <2>1. num * P = IF num < 0 THEN -(size * P) ELSE size * P
    BY <1>2
  <2>2. size * P = 2 * y
    BY <1>4, <1>5
  <2> QED BY <1>11, <1>29, <1>30, <2>1, <2>2
<1>32. places = digits
  <2>1. l + 1 \in 1..(l + 1 + digits)
    OBVIOUS
  <2>2. isFraction
    BY <1>12, <1>19, <1>21, <1>28, <2>1 DEF Tried, PlacesInv
  <2>3. PICK d \in 1..(l + 1 + digits) :
          /\ taken[d] = Dot /\ \A j \in 1..(d - 1) : taken[j] # Dot
          /\ (\A j \in (d + 1)..(l + 1 + digits) : taken[j] \in Digit /\ taken[j] # ig)
               => places = (l + 1 + digits) - d
    BY <1>12, <1>19, <1>21, <1>28, <2>2 DEF Tried, PlacesInv
  <2>4. d = l + 1
    <3>1. CASE d < l + 1
      <4>1. d \in 1..l
        BY <3>1
      <4>2. m[d] # Dot
        BY <1>20, <1>24, <4>1 DEF Within
      <4> QED BY <1>21, <2>3, <4>1, <4>2
    <3>2. CASE d > l + 1
      <4>1. l + 1 \in 1..(d - 1)
        BY <3>2
      <4> QED BY <1>21, <2>3, <4>1
    <3> QED BY <3>1, <3>2
  <2>5. ASSUME NEW j \in (l + 2)..(l + 1 + digits) PROVE taken[j] \in Digit /\ taken[j] # ig
    <3>1. PICK k \in 1..digits : k = j - l - 1 /\ j = l + 1 + k
      OBVIOUS
    <3>2. q[k] \in Char /\ q[k] \in Nat
      BY <1>10, <1>22, <1>23 DEF Within
    <3> QED BY <1>12, <1>21, <3>1, <3>2 DEF Digit
  <2>6. (d + 1)..(l + 1 + digits) = (l + 2)..(l + 1 + digits) /\ (l + 1 + digits) - d = digits
    BY <2>4
  <2> QED BY <2>3, <2>5, <2>6
<1> QED BY <1>3, <1>31, <1>32

(* print() writes the number it was given, and with an even base, as 10,   *)
(* parseInt() reads a long back from what print() wrote, parseFloat() a    *)
(* fraction to its last place, if it fits a long (Print.cpp against        *)
(* Stream.cpp:104-195).                                                    *)
THEOREM PrintedIsTrue ==
  ASSUME NEW half \in Nat, Base = 2 * half
  PROVE  Spec => []PrintedTrue
<1>1. Init => Tried
  BY InitTypeInv DEF Init, Tried, ExtentInv, ValueInv, PlacesInv, Parsing
<1>2. Tried /\ [Next]_vars => Tried'
  BY TypeStep, ExtentStep, ValueStep, PlacesStep DEF Tried
<1>3. Tried => PrintedReadsBack
  <2> SUFFICES ASSUME Tried, Returned("parse") PROVE PrintedReadsBack
    BY DEF PrintedReadsBack
  <2>1. \A n \in -LongMax..LongMax : Sent(PrintLong(Fresh, n, Base).out) => result = n
    BY LongsReadBack
  <2>2. \A num \in -3..3, digits \in 1..2 :
          LET s == PrintFloat(Fresh, num, 2, digits).out
          IN call.decimal /\ Sent(s) /\ ValueOf(s) <= LongMax =>
               places = digits /\ 2 * result = num * Power[digits]
    BY FractionsReadBack
  <2> QED BY <2>1, <2>2 DEF PrintedReadsBack
<1>4. PrintsTrue
  <2> SUFFICES ASSUME NEW num \in -40..40, NEW den \in {1, 3, 16}, NEW digits \in 0..2,
                      InRange(num, den, digits)
               PROVE  PrintsFraction(num, den, digits)
    BY PrintedRight DEF PrintsTrue
  <2>1. num \in Int /\ den \in Nat \ {0} /\ digits \in 0..8
    OBVIOUS
  <2> QED BY <2>1, PrintedRight
<1>5. Tried => PrintedTrue
  BY <1>3, <1>4 DEF PrintedTrue
<1> QED
  BY <1>1, <1>2, <1>5, PTL DEF Spec
=============================================================================
