---------------------------- MODULE DataTheorems ----------------------------
(***************************************************************************)
(* Lemmas about the data of the models, used by the proof modules.         *)
(*                                                                         *)
(* The ring buffers of the firmware are all of one kind: size slots, the   *)
(* next byte is stored at index in and the oldest one read at index out,   *)
(* and both move by (i + 1) % size.  The first part says, for every size,  *)
(* that such a ring is a sequence: storing appends, reading takes the head.*)
(*                                                                         *)
(* The second part is what a proof about a recursive function needs:       *)
(* induction along an interval of numbers, and that a function which is    *)
(* defined by its values at smaller, or larger, arguments is there.        *)
(***************************************************************************)
EXTENDS Naturals, Sequences, SequenceTheorems, WellFoundedInduction, TLAPS

Wrap(size, x) == x % size
Fill(size, in, out) == Wrap(size, in + size - out)
Contents(buf, size, in, out) ==
  [k \in 1..Fill(size, in, out) |-> buf[Wrap(size, out + k - 1)]]

(* On the numbers the code applies it to, % is a subtraction or nothing. *)
LEMMA WrapCases ==
  ASSUME NEW size \in Nat \ {0}, NEW x \in 0..(2 * size - 1)
  PROVE  /\ Wrap(size, x) \in 0..(size - 1)
         /\ Wrap(size, x) = IF x < size THEN x ELSE x - size
<1>1. CASE x < size
  <2>1. x % size = x
    BY <1>1, Z3
  <2> QED
    BY <1>1, <2>1 DEF Wrap
<1>2. CASE x >= size
  <2>1. x % size = x - size
    BY <1>2, Z3
  <2> QED
    BY <1>2, <2>1 DEF Wrap
<1> QED
  BY <1>1, <1>2

(* The number of bytes held, without the modulus. *)
LEMMA FillCases ==
  ASSUME NEW size \in Nat \ {0}, NEW in \in 0..(size - 1), NEW out \in 0..(size - 1)
  PROVE  /\ Fill(size, in, out) \in 0..(size - 1)
         /\ Fill(size, in, out) = IF in >= out THEN in - out ELSE in + size - out
<1>1. in + size - out \in 0..(2 * size - 1)
  OBVIOUS
<1> QED
  BY <1>1, WrapCases DEF Fill

(* A ring holds a sequence, of the bytes that were put in its slots. *)
LEMMA ContentsAt ==
  ASSUME NEW size \in Nat \ {0}, NEW in \in 0..(size - 1), NEW out \in 0..(size - 1),
         NEW buf, NEW k \in 1..Fill(size, in, out)
  PROVE  /\ Contents(buf, size, in, out)[k] = buf[Wrap(size, out + k - 1)]
         /\ out + k - 1 \in 0..(2 * size - 1)
<1>1. Fill(size, in, out) \in 0..(size - 1)
  BY FillCases
<1>2. out + k - 1 \in 0..(2 * size - 1)
  BY <1>1
<1> QED
  BY <1>2 DEF Contents

(* As many as it is filled with. *)
LEMMA ContentsSeq ==
  ASSUME NEW size \in Nat \ {0}, NEW in \in 0..(size - 1), NEW out \in 0..(size - 1),
         NEW S, NEW buf, \A i \in 0..(size - 1) : buf[i] \in S
  PROVE  /\ Contents(buf, size, in, out) \in Seq(S)
         /\ Len(Contents(buf, size, in, out)) = Fill(size, in, out)
<1> DEFINE n == Fill(size, in, out)
           c == Contents(buf, size, in, out)
<1>1. n \in 0..(size - 1)
  BY FillCases
<1>2. ASSUME NEW k \in 1..n PROVE Wrap(size, out + k - 1) \in 0..(size - 1)
  <2>1. k \in Int /\ out + k - 1 \in 0..(2 * size - 1)
    BY <1>1, ContentsAt
  <2> QED
    BY <2>1, WrapCases
<1>3. c \in [1..n -> S]
  BY <1>2 DEF Contents
<1>4. c \in Seq(S)
  BY <1>1, <1>3, SeqDef
<1>5. Len(c) = n
  BY <1>1, <1>3, <1>4, LenProperties
<1> QED
  BY <1>4, <1>5

(* It is empty when the indices meet. *)
LEMMA ContentsEmpty ==
  ASSUME NEW size \in Nat \ {0}, NEW i \in 0..(size - 1), NEW buf
  PROVE  Contents(buf, size, i, i) = <<>>
<1> DEFINE c == Contents(buf, size, i, i)
           S == {buf[j] : j \in 0..(size - 1)}
<1>1. Fill(size, i, i) = 0
  BY FillCases
<1>2. \A j \in 0..(size - 1) : buf[j] \in S
  OBVIOUS
<1> HIDE DEF S
<1>3. c \in Seq(S) /\ Len(c) = 0
  BY <1>1, <1>2, ContentsSeq
<1> QED
  BY <1>3, EmptySeq

(* The index after i. *)
LEMMA NextSlot ==
  ASSUME NEW size \in Nat \ {0}, NEW i \in 0..(size - 1)
  PROVE  /\ Wrap(size, i + 1) \in 0..(size - 1)
         /\ Wrap(size, i + 1) = IF i + 1 = size THEN 0 ELSE i + 1
BY WrapCases

(* Storing a byte, with one slot to spare, appends it. *)
LEMMA ContentsStore ==
  ASSUME NEW size \in Nat \ {0}, NEW in \in 0..(size - 1), NEW out \in 0..(size - 1),
         NEW next, next = Wrap(size, in + 1), next # out,
         NEW buf, NEW d, NEW buf2, buf2[in] = d,
         \A i \in 0..(size - 1) : i # in => buf2[i] = buf[i]
  PROVE  Contents(buf2, size, next, out) = Append(Contents(buf, size, in, out), d)
<1> DEFINE n == Fill(size, in, out)
           old == Contents(buf, size, in, out)
           new == Contents(buf2, size, next, out)
           more == Append(old, d)
           S == {buf[i] : i \in 0..(size - 1)} \cup {d}
<1>1. next \in 0..(size - 1) /\ next = IF in + 1 = size THEN 0 ELSE in + 1
  BY NextSlot
<1>2. n \in 0..(size - 1) /\ n = IF in >= out THEN in - out ELSE in + size - out
  BY FillCases
<1>3. Fill(size, next, out) = n + 1
  <2>1. Fill(size, next, out) = IF next >= out THEN next - out ELSE next + size - out
    BY <1>1, FillCases
  <2> QED
    BY <1>1, <1>2, <2>1
<1>4. d \in S /\ \A i \in 0..(size - 1) : buf[i] \in S /\ buf2[i] \in S
  OBVIOUS
<1> HIDE DEF S
<1>5. old \in Seq(S) /\ Len(old) = n
  BY <1>4, ContentsSeq
<1>6. new \in Seq(S) /\ Len(new) = n + 1
  BY <1>1, <1>3, <1>4, ContentsSeq
<1>7. more \in Seq(S) /\ Len(more) = n + 1
  <2> HIDE DEF old
  <2> QED BY <1>4, <1>5
<1>8. ASSUME NEW k \in 1..(n + 1) PROVE new[k] = more[k]
  <2> DEFINE j == Wrap(size, out + k - 1)
  <2>1. k \in 1..Fill(size, next, out)
    BY <1>3
  <2>2. new[k] = buf2[j]
    BY <2>1 DEF Contents
  <2>3. k \in 1..n => old[k] = buf[j]
    BY DEF Contents
  <2> HIDE DEF n, old, new
  <2>4. out + k - 1 \in 0..(2 * size - 1)
    BY <1>2
  <2>5. j = IF out + k - 1 < size THEN out + k - 1 ELSE out + k - 1 - size
    BY <1>2, <2>4, WrapCases
  <2> HIDE DEF j
  <2>6. CASE k = n + 1
    <3>1. j = in
      BY <1>2, <2>5, <2>6
    <3>2. new[k] = d
      BY <2>2, <3>1
    <3> QED
      BY <1>5, <2>6, <3>2
  <2>7. CASE k \in 1..n
    <3>1. j # in /\ j \in 0..(size - 1)
      BY <1>2, <2>5, <2>7
    <3>2. new[k] = buf[j]
      BY <2>2, <3>1
    <3>3. more[k] = old[k]
      BY <1>5, <2>7
    <3> QED
      BY <2>3, <2>7, <3>2, <3>3
  <2>8. k = n + 1 \/ k \in 1..n
    BY <1>2
  <2> QED
    BY <2>6, <2>7, <2>8
<1> HIDE DEF new, more
<1> QED
  BY <1>6, <1>7, <1>8, SeqEqual DEF new, more

(* Reading takes the head off. *)
LEMMA ContentsRead ==
  ASSUME NEW size \in Nat \ {0}, NEW in \in 0..(size - 1), NEW out \in 0..(size - 1),
         in # out, NEW buf
  PROVE  /\ Contents(buf, size, in, out) # <<>>
         /\ Head(Contents(buf, size, in, out)) = buf[out]
         /\ Tail(Contents(buf, size, in, out))
              = Contents(buf, size, in, Wrap(size, out + 1))
<1> DEFINE next == Wrap(size, out + 1)
           n == Fill(size, in, out)
           old == Contents(buf, size, in, out)
           new == Contents(buf, size, in, next)
           S == {buf[i] : i \in 0..(size - 1)}
<1>1. next \in 0..(size - 1) /\ next = IF out + 1 = size THEN 0 ELSE out + 1
  BY NextSlot
<1>2. n \in 1..(size - 1) /\ n = IF in >= out THEN in - out ELSE in + size - out
  <2>1. n \in 0..(size - 1) /\ n = IF in >= out THEN in - out ELSE in + size - out
    BY FillCases
  <2> HIDE DEF n
  <2> QED
    BY <2>1
<1>3. Fill(size, in, next) = n - 1
  <2>1. Fill(size, in, next) = IF in >= next THEN in - next ELSE in + size - next
    BY <1>1, FillCases
  <2> QED
    BY <1>1, <1>2, <2>1
<1>4. \A i \in 0..(size - 1) : buf[i] \in S
  OBVIOUS
<1> HIDE DEF S
<1>5. old \in Seq(S) /\ Len(old) = n
  BY <1>4, ContentsSeq
<1>6. new \in Seq(S) /\ Len(new) = n - 1
  BY <1>1, <1>3, <1>4, ContentsSeq
<1>7. old # <<>>
  BY <1>2, <1>5, EmptySeq
<1>8. /\ Tail(old) \in Seq(S) /\ Len(Tail(old)) = n - 1
      /\ \A k \in 1..(n - 1) : Tail(old)[k] = old[k + 1]
  BY <1>5, <1>7, HeadTailProperties
<1>9. Head(old) = buf[out]
  <2>1. 1 \in 1..n
    BY <1>2
  <2>2. old[1] = buf[Wrap(size, out + 1 - 1)]
    BY <2>1, ContentsAt
  <2>3. Wrap(size, out + 1 - 1) = out
    BY WrapCases
  <2> QED
    BY <1>5, <1>7, <2>2, <2>3
<1>10. ASSUME NEW k \in 1..(n - 1) PROVE Tail(old)[k] = new[k]
  <2> DEFINE m == k + 1
             x == next + k - 1
             y == out + m - 1
  <2>1. k \in 1..Fill(size, in, next)
    BY <1>3
  <2>2. new[k] = buf[Wrap(size, x)] /\ x \in 0..(2 * size - 1)
    <3> HIDE DEF next
    <3> QED
      BY <1>1, <2>1, ContentsAt
  <2>3. m \in 1..n /\ m \in Nat
    <3> HIDE DEF n
    <3> QED
      BY <1>2
  <2>4. old[m] = buf[Wrap(size, y)] /\ y \in 0..(2 * size - 1)
    <3>1. \A l \in 1..n : old[l] = buf[Wrap(size, out + l - 1)]
      BY DEF Contents
    <3>2. \A l \in 1..n : out + l - 1 \in 0..(2 * size - 1)
      <4> HIDE DEF n
      <4> QED
        BY <1>2
    <3> HIDE DEF m, n, old
    <3> QED
      BY <2>3, <3>1, <3>2
  <2>5. Tail(old)[k] = old[m]
    BY <1>8
  <2> HIDE DEF n, old, new, next
  <2>6. x = y \/ x = y - size
    BY <1>1, <1>2
  <2> HIDE DEF x, y
  <2>7. Wrap(size, x) = Wrap(size, y)
    BY <2>2, <2>4, <2>6, WrapCases
  <2> QED
    BY <2>2, <2>4, <2>5, <2>7
<1>11. Tail(old) = new
  <2> HIDE DEF old, new, n
  <2> QED
    BY <1>6, <1>8, <1>10, SeqEqual
<1> QED
  BY <1>7, <1>9, <1>11
-----------------------------------------------------------------------------
(* Concatenation is associative.  The name keeps the provers, where they   *)
(* cite it, from regrouping for ever.                                      *)
Glued(s, t, u) == (s \o t) \o u = s \o (t \o u)

LEMMA Glue ==
  ASSUME NEW S, NEW s \in Seq(S), NEW t \in Seq(S), NEW u \in Seq(S)
  PROVE  Glued(s, t, u)
BY ConcatAssociative DEF Glued

-----------------------------------------------------------------------------
(* A set of naturals has a least element; the induction of the proofs is   *)
(* on the least counterexample.                                            *)
LEMMA LeastOf ==
  ASSUME NEW T, T \subseteq Nat, T # {}
  PROVE  \E x \in T : \A y \in T : x <= y
<1> DEFINE R == OpToRel(<, Nat)
<1>1. IsWellFoundedOn(R, Nat)
  BY NatLessThanWellFounded
<1>2. \A y, x \in Nat : <<y, x>> \in R <=> y < x
  BY DEF OpToRel
<1> HIDE DEF R
<1>3. PICK x \in T : \A y \in T : ~ (<<y, x>> \in R)
  BY <1>1, WFMin
<1>4. x \in Nat
  OBVIOUS
<1>5. ASSUME NEW y \in T
      PROVE  x <= y
  <2>1. y \in Nat
    OBVIOUS
  <2>2. ~(y < x)
    BY <1>2, <1>3, <1>4, <2>1
  <2> QED BY <1>4, <2>1, <2>2
<1> QED BY <1>5

(* Induction up to N over the set of the numbers a statement is true of. *)
LEMMA InductionTo ==
  ASSUME NEW N \in Nat, NEW Good,
         0 \in Good, \A k \in 0..N : k < N /\ k \in Good => k + 1 \in Good
  PROVE  \A k \in 0..N : k \in Good
<1> DEFINE Bad == (0..N) \ Good
<1> SUFFICES ASSUME Bad # {} PROVE FALSE
  OBVIOUS
<1>1. Bad \subseteq Nat
  OBVIOUS
<1>2. PICK k \in Bad : \A j \in Bad : k <= j
  <2> HIDE DEF Bad
  <2> QED BY <1>1, LeastOf
<1>3. k \in 0..N /\ k # 0 /\ k \notin Good
  OBVIOUS
<1>4. k - 1 \in 0..N /\ k - 1 < N /\ ~(k <= k - 1) /\ (k - 1) + 1 = k
  BY <1>3
<1>5. k - 1 \notin Bad
  <2> HIDE DEF Bad
  <2> QED BY <1>2, <1>4
<1>6. k - 1 \in Good
  BY <1>4, <1>5
<1> QED BY <1>3, <1>4, <1>6

(* The equation of a recursive function has a solution. *)
Solved(D, V, F) == \E f \in [D -> V] : f = F[f]

(* Recursion from the end: F gives the values from those behind. *)
FromEnd(N, V, F) ==
  /\ F \in [[1..N -> V] -> [1..N -> V]]
  /\ \A g, h \in [1..N -> V] : \A k \in 1..N :
       (\A j \in 1..N : j > k => g[j] = h[j]) => F[g][k] = F[h][k]

LEMMA RecursionFromEnd ==
  ASSUME NEW N \in Nat, NEW V, V # {}, NEW F, FromEnd(N, V, F)
  PROVE  Solved(1..N, V, F)
<1> USE DEF FromEnd, Solved
<1> DEFINE Right(f, k) == \A j \in 1..N : j > N - k => F[f][j] = f[j]
           Good == {k \in 0..N : \E f \in [1..N -> V] : Right(f, k)}
<1>1. 0 \in Good
  <2>1. PICK v : v \in V
    OBVIOUS
  <2>2. [j \in 1..N |-> v] \in [1..N -> V] /\ Right([j \in 1..N |-> v], 0)
    BY <2>1
  <2> QED BY <2>2
<1>2. ASSUME NEW k \in 0..N, k < N, k \in Good
      PROVE  k + 1 \in Good
  <2>1. PICK f \in [1..N -> V] : Right(f, k)
    BY <1>2
  <2> DEFINE g == F[f]
  <2>2. g \in [1..N -> V]
    OBVIOUS
  <2>3. ASSUME NEW j \in 1..N, j > N - (k + 1)
        PROVE  F[g][j] = g[j]
    <3>1. \A m \in 1..N : m > j => F[f][m] = f[m]
      BY <2>1, <2>3
    <3> QED BY <2>2, <3>1
  <2> HIDE DEF g
  <2>4. Right(g, k + 1)
    BY <2>3
  <2> QED BY <1>2, <2>2, <2>4
<1>3. N \in Good
  <2> HIDE DEF Good
  <2>1. N \in 0..N
    OBVIOUS
  <2>2. \A k \in 0..N : k < N /\ k \in Good => k + 1 \in Good
    BY <1>2
  <2> QED BY <1>1, <2>1, <2>2, InductionTo
<1>4. PICK f \in [1..N -> V] : Right(f, N)
  BY <1>3
<1>5. ASSUME NEW j \in 1..N PROVE F[f][j] = f[j]
  <2>1. j > N - N
    OBVIOUS
  <2> QED BY <1>4, <2>1
<1>6. F[f] \in [1..N -> V]
  OBVIOUS
<1>7. f = F[f]
  BY <1>5, <1>6
<1> QED BY <1>7

(* Recursion from the beginning *)
FromStart(N, V, F) ==
  /\ F \in [[0..N -> V] -> [0..N -> V]]
  /\ \A g, h \in [0..N -> V] : \A k \in 0..N :
       (\A j \in 0..N : j < k => g[j] = h[j]) => F[g][k] = F[h][k]

LEMMA RecursionFromStart ==
  ASSUME NEW N \in Nat, NEW V, V # {}, NEW F, FromStart(N, V, F)
  PROVE  Solved(0..N, V, F)
<1> USE DEF FromStart, Solved
<1> DEFINE Right(f, k) == \A j \in 0..N : j < k => F[f][j] = f[j]
           Good == {k \in 0..(N + 1) : \E f \in [0..N -> V] : Right(f, k)}
<1>1. 0 \in Good
  <2>1. PICK v : v \in V
    OBVIOUS
  <2>2. [j \in 0..N |-> v] \in [0..N -> V] /\ Right([j \in 0..N |-> v], 0)
    BY <2>1
  <2> QED BY <2>2
<1>2. ASSUME NEW k \in 0..(N + 1), k < N + 1, k \in Good
      PROVE  k + 1 \in Good
  <2>1. PICK f \in [0..N -> V] : Right(f, k)
    BY <1>2
  <2> DEFINE g == F[f]
  <2>2. g \in [0..N -> V]
    OBVIOUS
  <2>3. ASSUME NEW j \in 0..N, j < k + 1
        PROVE  F[g][j] = g[j]
    <3>1. \A m \in 0..N : m < j => F[f][m] = f[m]
      BY <2>1, <2>3
    <3> QED BY <2>2, <3>1
  <2> HIDE DEF g
  <2>4. Right(g, k + 1)
    BY <2>3
  <2> QED BY <1>2, <2>2, <2>4
<1>3. N + 1 \in Good
  <2>1. N + 1 \in Nat /\ N + 1 \in 0..(N + 1)
    OBVIOUS
  <2> HIDE DEF Good
  <2> QED BY <1>1, <1>2, <2>1, InductionTo
<1>4. PICK f \in [0..N -> V] : Right(f, N + 1)
  BY <1>3
<1>5. ASSUME NEW j \in 0..N PROVE F[f][j] = f[j]
  <2>1. j < N + 1
    OBVIOUS
  <2> QED BY <1>4, <2>1
<1>6. F[f] \in [0..N -> V]
  OBVIOUS
<1>7. f = F[f]
  BY <1>5, <1>6
<1> QED BY <1>7

(* Induction from N down, and that two functions are the same when each of *)
(* their values follows from those behind.                                 *)
LEMMA InductionFromEnd ==
  ASSUME NEW N \in Nat, NEW Good,
         \A k \in 1..N : (\A j \in 1..N : j > k => j \in Good) => k \in Good
  PROVE  \A k \in 1..N : k \in Good
<1> DEFINE T == {m \in 0..N : \A j \in 1..N : j > N - m => j \in Good}
<1>1. 0 \in T
  OBVIOUS
<1>2. ASSUME NEW m \in 0..N, m < N, m \in T
      PROVE  m + 1 \in T
  <2>1. N - m \in 1..N /\ m + 1 \in 0..N
    BY <1>2
  <2>2. N - m \in Good
    BY <1>2, <2>1
  <2>3. ASSUME NEW j \in 1..N, j > N - (m + 1)
        PROVE  j \in Good
    <3>1. j > N - m \/ j = N - m
      BY <2>3
    <3> QED BY <1>2, <2>2, <3>1
  <2> QED BY <2>1, <2>3
<1>3. N \in T
  <2> HIDE DEF T
  <2>1. N \in 0..N
    OBVIOUS
  <2> QED BY <1>1, <1>2, <2>1, InductionTo
<1> SUFFICES ASSUME NEW k \in 1..N PROVE k \in Good
  OBVIOUS
<1>4. k > N - N
  OBVIOUS
<1> QED BY <1>3, <1>4

AlikeFromEnd(N, f, g) ==
  \A k \in 1..N : (\A j \in 1..N : j > k => f[j] = g[j]) => f[k] = g[k]

LEMMA SameFromEnd ==
  ASSUME NEW N \in Nat, NEW f, NEW g, AlikeFromEnd(N, f, g)
  PROVE  \A k \in 1..N : f[k] = g[k]
<1> DEFINE Good == {k \in 1..N : f[k] = g[k]}
<1>1. \A k \in 1..N : (\A j \in 1..N : j > k => j \in Good) => k \in Good
  BY DEF AlikeFromEnd
<1>2. \A k \in 1..N : k \in Good
  <2> HIDE DEF Good
  <2> QED BY <1>1, InductionFromEnd
<1> QED BY <1>2

-----------------------------------------------------------------------------
(* Folds.  A fold over 1..N of the community modules is a recursion over   *)
(* sets of numbers that takes the greatest away.                           *)
Top(s, x) == x \in s /\ \A y \in s : x >= y

LEMMA TopIs ==
  ASSUME NEW N \in Nat, NEW s, s \subseteq 1..N, s # {}
  PROVE  \E x \in 1..N : Top(s, x)
<1> DEFINE T == {y \in 0..N : \A x \in s : x <= y}
<1>1. T # {} /\ T \subseteq Nat
  <2>1. N \in T
    OBVIOUS
  <2> QED BY <2>1
<1>2. PICK y \in T : \A z \in T : y <= z
  <2> HIDE DEF T
  <2> QED BY <1>1, LeastOf
<1>3. y \in 0..N /\ \A x \in s : x <= y /\ x \in 1..N
  OBVIOUS
<1>4. y # 0
  <2>1. PICK x : x \in s
    OBVIOUS
  <2>2. x <= y /\ x \in 1..N
    BY <1>3, <2>1
  <2> QED BY <1>3, <2>2
<1>5. y \in s
  <2> SUFFICES ASSUME y \notin s PROVE FALSE
    OBVIOUS
  <2>1. y - 1 \in 0..N /\ \A x \in s : x <= y - 1
    BY <1>3, <1>4
  <2>2. y - 1 \in T
    BY <2>1
  <2>3. y <= y - 1
    <3> HIDE DEF T
    <3> QED BY <1>2, <2>2
  <2> QED BY <1>3, <2>3
<1> QED BY <1>3, <1>4, <1>5 DEF Top

LEMMA TopOfRange ==
  ASSUME NEW k \in Nat, k > 0
  PROVE  /\ Top(1..k, k) /\ (1..k) \ {k} = 1..(k - 1)
         /\ \A x : Top(1..k, x) => x = k
<1>1. ASSUME NEW x, Top(1..k, x) PROVE x = k
  <2>1. x \in 1..k /\ k \in 1..k /\ x >= k
    BY <1>1 DEF Top
  <2> QED BY <2>1
<1> QED BY <1>1 DEF Top

FromTop(N, V, F) ==
  /\ F \in [[SUBSET (1..N) -> V] -> [SUBSET (1..N) -> V]]
  /\ \A g, h \in [SUBSET (1..N) -> V] :
       /\ F[g][{}] = F[h][{}]
       /\ \A s \in SUBSET (1..N) : \A x \in 1..N :
            Top(s, x) /\ g[s \ {x}] = h[s \ {x}] => F[g][s] = F[h][s]

LEMMA RecursionFromTop ==
  ASSUME NEW N \in Nat, NEW V, V # {}, NEW F, FromTop(N, V, F)
  PROVE  Solved(SUBSET (1..N), V, F)
<1> USE DEF FromTop, Solved
<1> DEFINE D == SUBSET (1..N)
           Right(f, k) == \A s \in D : s \subseteq 1..k => F[f][s] = f[s]
           Good == {k \in 0..N : \E f \in [D -> V] : Right(f, k)}
<1>1. 0 \in Good
  <2>1. PICK v : v \in V
    OBVIOUS
  <2> DEFINE f == F[[s \in D |-> v]]
  <2>2. [s \in D |-> v] \in [D -> V]
    BY <2>1
  <2>3. f \in [D -> V]
    BY <2>2
  <2>4. F[f][{}] = f[{}]
    BY <2>2, <2>3
  <2>5. \A s \in D : s \subseteq 1..0 => s = {}
    OBVIOUS
  <2>6. Right(f, 0)
    BY <2>4, <2>5
  <2> HIDE DEF f, Right, D
  <2> QED BY <2>3, <2>6
<1>2. ASSUME NEW k \in 0..N, k < N, k \in Good
      PROVE  k + 1 \in Good
  <2>1. PICK f \in [D -> V] : Right(f, k)
    BY <1>2
  <2> DEFINE g == F[f]
  <2>2. g \in [D -> V]
    OBVIOUS
  <2>3. ASSUME NEW s \in D, s \subseteq 1..(k + 1), s # {}
        PROVE  F[g][s] = g[s]
    <3>1. PICK x \in 1..N : Top(s, x)
      BY <2>3, TopIs
    <3>2. s \ {x} \in D /\ s \ {x} \subseteq 1..k
      BY <2>3, <3>1 DEF Top
    <3>3. F[f][s \ {x}] = f[s \ {x}]
      BY <2>1, <3>2
    <3>4. g[s \ {x}] = f[s \ {x}]
      BY <3>3
    <3> QED BY <2>2, <3>1, <3>4
  <2>4. F[g][{}] = g[{}]
    BY <2>2
  <2>5. Right(g, k + 1)
    BY <2>3, <2>4
  <2> HIDE DEF g, Right, D
  <2> QED BY <1>2, <2>2, <2>5
<1>3. N \in Good
  <2> HIDE DEF Good
  <2>1. N \in 0..N
    OBVIOUS
  <2>2. \A k \in 0..N : k < N /\ k \in Good => k + 1 \in Good
    BY <1>2
  <2> QED BY <1>1, <2>1, <2>2, InductionTo
<1>4. PICK f \in [D -> V] : Right(f, N)
  BY <1>3
<1>5. ASSUME NEW s \in D PROVE F[f][s] = f[s]
  BY <1>4
<1>6. F[f] \in [D -> V]
  OBVIOUS
<1>7. f = F[f]
  BY <1>5, <1>6
<1> QED BY <1>7
=============================================================================
