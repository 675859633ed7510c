---------------------------- MODULE ReadingProofs ----------------------------
(***************************************************************************)
(* Theorems about Reading and the journal it reads, for every set of        *)
(* readers, every budget and every number of texts: the numbers of records *)
(* grow, drops are announced, waiting readers are reached, pages miss       *)
(* nothing and a delegate prints all that was retained.                     *)
(*                                                                         *)
(* Sums, pages and texts are recursive functions; what they compute is      *)
(* proved by induction, from the least element of a set of numbers.         *)
(***************************************************************************)
EXTENDS Reading, FiniteSetTheorems, WellFoundedInduction, TLAPS

-----------------------------------------------------------------------------
(* Induction, by least elements.                                           *)

\* A set of natural numbers that is not empty has a least element.
LEMMA LeastElement ==
  ASSUME NEW S \in SUBSET Nat, S # {}
  PROVE  \E n \in S : \A m \in S : n <= m
<1> DEFINE R == OpToRel(<, Nat)
<1>1. IsWellFoundedOn(R, Nat)
  BY NatLessThanWellFounded
<1>2. \A x, y \in Nat : x < y => <<x, y>> \in R
  BY DEF OpToRel
<1> HIDE DEF R
<1>3. PICK n \in S : \A y \in S : <<y, n>> \notin R
  BY <1>1, WFMin
<1>4. \A y \in S : ~(y < n)
  BY <1>2, <1>3, Zenon
<1> QED BY <1>4

\* A set that holds 0 and the successor of each of its elements is Nat.
LEMMA SetInduction ==
  ASSUME NEW S \in SUBSET Nat, 0 \in S, \A n \in Nat : n \in S => n + 1 \in S
  PROVE  S = Nat
<1> SUFFICES ASSUME S # Nat PROVE FALSE
  OBVIOUS
<1>1. Nat \ S # {} /\ Nat \ S \in SUBSET Nat
  OBVIOUS
<1>2. PICK n \in Nat \ S : \A m \in Nat \ S : n <= m
  BY <1>1, LeastElement
<1>3. n # 0 /\ n - 1 \in Nat /\ n - 1 \in S
  BY <1>2
<1> QED BY <1>2, <1>3

\* g is defined on an interval from its value one below.
Step(step, S, m, n) == step \in [m + 1..n -> [S -> S]]
Iterates(g, S, base, step, m, n) ==
  g \in [m..n -> S] /\ g[m] = base /\ \A i \in m + 1..n : g[i] = step[i][g[i - 1]]

\* There is such a function.
LEMMA RecursiveFunction ==
  ASSUME NEW S, NEW base \in S, NEW m \in Nat, NEW n \in Nat, m <= n,
         NEW step, Step(step, S, m, n)
  PROVE  \E g : Iterates(g, S, base, step, m, n)
<1> USE DEF Step, Iterates
<1> DEFINE Upto(k, g) == g[m] = base /\ \A i \in m + 1..m + k : g[i] = step[i][g[i - 1]]
           K == {k \in Nat : m + k <= n => \E g \in [m..m + k -> S] : Upto(k, g)}
<1>1. 0 \in K
  <2> DEFINE g == [i \in m..m + 0 |-> base]
  <2>1. g \in [m..m + 0 -> S] /\ Upto(0, g)
    OBVIOUS
  <2> QED BY <2>1
<1>2. ASSUME NEW k \in Nat, k \in K PROVE k + 1 \in K
  <2> SUFFICES ASSUME m + (k + 1) <= n
               PROVE  \E g \in [m..m + (k + 1) -> S] : Upto(k + 1, g)
    OBVIOUS
  <2>1. PICK g \in [m..m + k -> S] : Upto(k, g)
    BY <1>2
  <2> DEFINE last == step[m + k + 1][g[m + k]]
             h == [i \in m..m + (k + 1) |-> IF i = m + k + 1 THEN last ELSE g[i]]
  <2>2. last \in S
    <3>1. m + k \in m..m + k /\ m + k + 1 \in m + 1..n
      OBVIOUS
    <3>2. g[m + k] \in S /\ step[m + k + 1] \in [S -> S]
      BY <3>1
    <3> QED BY <3>2
  <2>3. h \in [m..m + (k + 1) -> S]
    BY <2>2
  <2>4. \A i \in m..m + k : h[i] = g[i]
    OBVIOUS
  <2>5. h[m + k + 1] = last
    OBVIOUS
  <2> HIDE DEF h, last
  <2>6. h[m] = base
    BY <2>1, <2>4
  <2>7. ASSUME NEW i \in m + 1..m + (k + 1) PROVE h[i] = step[i][h[i - 1]]
    <3>1. CASE i = m + k + 1
      <4>1. i - 1 = m + k /\ h[i - 1] = g[m + k]
        BY <3>1, <2>4
      <4> QED BY <4>1, <3>1, <2>5 DEF last
    <3>2. CASE i # m + k + 1
      <4>1. i \in m + 1..m + k /\ i - 1 \in m..m + k /\ i \in m..m + k
        BY <3>2
      <4>2. h[i] = g[i] /\ h[i - 1] = g[i - 1]
        BY <4>1, <2>4
      <4> QED BY <4>1, <4>2, <2>1
    <3> QED BY <3>1, <3>2
  <2> QED BY <2>3, <2>6, <2>7
<1> HIDE DEF K
<1>3. K = Nat
  <2>1. K \in SUBSET Nat
    BY DEF K
  <2> QED BY <1>1, <1>2, <2>1, SetInduction
<1>4. n - m \in K /\ m + (n - m) = n
  BY <1>3
<1> QED BY <1>4 DEF K

-----------------------------------------------------------------------------
(* Sums.                                                                   *)

\* Total is the last of its partial sums.
LEMMA PartialSums ==
  ASSUME NEW s \in Seq(Nat)
  PROVE  \E sum \in [0..Len(s) -> Nat] :
           /\ sum[0] = 0
           /\ \A n \in 1..Len(s) : sum[n] = sum[n - 1] + s[n]
           /\ Total(s) = sum[Len(s)]
<1> DEFINE sum[n \in 0..Len(s)] == IF n = 0 THEN 0 ELSE sum[n - 1] + s[n]
           IsSum(g) == g = [n \in 0..Len(s) |-> IF n = 0 THEN 0 ELSE g[n - 1] + s[n]]
           step == [n \in 1..Len(s) |-> [x \in Nat |-> x + s[n]]]
<1>1. Total(s) = sum[Len(s)]
  BY DEF Total
<1>2. PICK g \in [0..Len(s) -> Nat] :
        g[0] = 0 /\ \A i \in 1..Len(s) : g[i] = step[i][g[i - 1]]
  <2>1. Step(step, Nat, 0, Len(s))
    BY DEF Step
  <2>2. 0 \in Nat /\ Len(s) \in Nat /\ 0 <= Len(s)
    OBVIOUS
  <2> HIDE DEF step
  <2>3. PICK g : Iterates(g, Nat, 0, step, 0, Len(s))
    BY <2>1, <2>2, RecursiveFunction, Zenon
  <2> QED BY <2>3 DEF Iterates
<1>3. IsSum(g)
  <2>1. ASSUME NEW n \in 1..Len(s) PROVE g[n] = g[n - 1] + s[n]
    <3>1. n - 1 \in 0..Len(s) /\ s[n] \in Nat
      OBVIOUS
    <3>2. g[n - 1] \in Nat /\ g[n] = step[n][g[n - 1]]
      BY <1>2, <3>1
    <3> QED BY <3>1, <3>2
  <2>2. g = [n \in 0..Len(s) |-> g[n]]
    BY <1>2
  <2>3. \A n \in 0..Len(s) : g[n] = IF n = 0 THEN 0 ELSE g[n - 1] + s[n]
    BY <1>2, <2>1
  <2> QED BY <2>2, <2>3
<1>4. IsSum(sum)
  BY <1>3, Zenon
<1> HIDE DEF sum
<1>5. sum[0] = 0 /\ \A n \in 1..Len(s) : sum[n] = sum[n - 1] + s[n]
  <2>1. 0 \in 0..Len(s) /\ \A n \in 1..Len(s) : n \in 0..Len(s) /\ n # 0
    OBVIOUS
  <2>2. \A n \in 0..Len(s) : sum[n] = IF n = 0 THEN 0 ELSE sum[n - 1] + s[n]
    BY <1>4
  <2> QED BY <2>1, <2>2
<1> DEFINE K == {n \in Nat : n <= Len(s) => sum[n] \in Nat}
<1>6. K = Nat
  <2>1. 0 \in K
    BY <1>5
  <2>2. ASSUME NEW n \in Nat, n \in K PROVE n + 1 \in K
    <3> SUFFICES ASSUME n + 1 <= Len(s) PROVE sum[n + 1] \in Nat
      OBVIOUS
    <3>1. sum[n] \in Nat
      BY <2>2
    <3>2. n + 1 \in 1..Len(s) /\ (n + 1) - 1 = n /\ s[n + 1] \in Nat
      OBVIOUS
    <3> QED BY <3>1, <3>2, <1>5
  <2>3. K \in SUBSET Nat
    OBVIOUS
  <2> HIDE DEF K
  <2> QED BY <2>1, <2>2, <2>3, SetInduction
<1>7. sum \in [0..Len(s) -> Nat]
  <2>1. \A n \in 0..Len(s) : sum[n] \in Nat
    BY <1>6
  <2>2. sum = [n \in 0..Len(s) |-> sum[n]]
    BY <1>4
  <2> QED BY <2>1, <2>2
<1> QED BY <1>1, <1>5, <1>7

\* A total is a number, and an appended number adds to it.
LEMMA TotalAppend ==
  ASSUME NEW s \in Seq(Nat), NEW x \in Nat
  PROVE  Total(s) \in Nat /\ Total(Append(s, x)) = Total(s) + x
<1> DEFINE t == Append(s, x)
<1>1. t \in Seq(Nat) /\ Len(t) = Len(s) + 1 /\ t[Len(s) + 1] = x
      /\ \A n \in 1..Len(s) : t[n] = s[n]
  OBVIOUS
<1>2. PICK a \in [0..Len(s) -> Nat] :
        /\ a[0] = 0
        /\ \A n \in 1..Len(s) : a[n] = a[n - 1] + s[n]
        /\ Total(s) = a[Len(s)]
  BY PartialSums
<1> HIDE DEF t
<1>3. PICK b \in [0..Len(t) -> Nat] :
        /\ b[0] = 0
        /\ \A n \in 1..Len(t) : b[n] = b[n - 1] + t[n]
        /\ Total(t) = b[Len(t)]
  BY <1>1, PartialSums
<1> DEFINE K == {n \in Nat : n <= Len(s) => a[n] = b[n]}
<1>4. K = Nat
  <2>1. 0 \in K
    BY <1>2, <1>3
  <2>2. ASSUME NEW n \in Nat, n \in K PROVE n + 1 \in K
    <3> SUFFICES ASSUME n + 1 <= Len(s) PROVE a[n + 1] = b[n + 1]
      OBVIOUS
    <3>1. a[n] = b[n]
      BY <2>2
    <3>2. n + 1 \in 1..Len(s) /\ n + 1 \in 1..Len(t) /\ (n + 1) - 1 = n
      BY <1>1
    <3>3. a[n + 1] = a[n] + s[n + 1]
      BY <3>2, <1>2
    <3>4. b[n + 1] = b[n] + t[n + 1]
      BY <3>2, <1>3
    <3> QED BY <3>1, <3>2, <3>3, <3>4, <1>1
  <2>3. K \in SUBSET Nat
    OBVIOUS
  <2> HIDE DEF K
  <2> QED BY <2>1, <2>2, <2>3, SetInduction
<1>5. Len(s) \in Nat /\ a[Len(s)] = b[Len(s)]
  BY <1>4
<1>6. Len(t) \in 1..Len(t) /\ Len(t) - 1 = Len(s)
  BY <1>1, <1>5
<1>7. b[Len(t)] = b[Len(s)] + x
  BY <1>1, <1>3, <1>6
<1>8. a[Len(s)] \in Nat
  <2>1. Len(s) \in 0..Len(s)
    BY <1>5
  <2> QED BY <2>1, <1>2
<1> QED BY <1>2, <1>3, <1>5, <1>7, <1>8 DEF t

\* The size of the journal, and what a write adds to it.
LEMMA BytesAppend ==
  ASSUME NEW f \in Seq(Chunk), NEW c \in Chunk
  PROVE  Bytes(f) \in Nat /\ Bytes(Append(f, c)) = Bytes(f) + c.size
<1> DEFINE s == [i \in DOMAIN f |-> f[i].size]
           t == [i \in DOMAIN Append(f, c) |-> Append(f, c)[i].size]
<1>1. s \in Seq(Nat) /\ c.size \in Nat
  <2>1. \A x \in Chunk : x.size \in Nat
    BY DEF Chunk
  <2>2. DOMAIN f = 1..Len(f) /\ Len(f) \in Nat
    OBVIOUS
  <2> QED BY <2>1, <2>2
<1>2. t = Append(s, c.size)
  OBVIOUS
<1>3. Bytes(f) = Total(s) /\ Bytes(Append(f, c)) = Total(t)
  BY DEF Bytes
<1> HIDE DEF s, t
<1> QED BY <1>1, <1>2, <1>3, TotalAppend
-----------------------------------------------------------------------------
(* Numbers of records.                                                     *)

\* A set of numbers that has a bound has a maximum.
LEMMA MaxOfBounded ==
  ASSUME NEW S \in SUBSET Nat, S # {}, NEW b \in Nat, \A x \in S : x <= b
  PROVE  Max(S) \in S /\ \A x \in S : x <= Max(S)
<1> DEFINE U == {u \in Nat : \A x \in S : x <= u}
<1>1. PICK u \in U : \A v \in U : u <= v
  <2>1. U \in SUBSET Nat /\ U # {}
    OBVIOUS
  <2> HIDE DEF U
  <2> QED BY <2>1, LeastElement
<1>2. u \in S
  <2> SUFFICES ASSUME u \notin S PROVE FALSE
    OBVIOUS
  <2>1. \A x \in S : x < u
    BY <1>1
  <2>2. PICK x \in S : TRUE
    OBVIOUS
  <2>3. x \in Nat /\ x < u /\ u \in Nat
    BY <2>1, <1>1
  <2>4. u # 0 /\ u - 1 \in Nat
    BY <2>3
  <2>5. u - 1 \in U
    BY <2>1, <2>4
  <2>6. u <= u - 1
    BY <1>1, <2>5
  <2> QED BY <2>3, <2>6
<1>3. u \in S /\ \A x \in S : u >= x
  BY <1>1, <1>2
<1>4. Max(S) \in S /\ \A x \in S : Max(S) >= x
  BY <1>3, Zenon DEF Max
<1> QED BY <1>4

\* The numbers of a journal have a bound.
LEMMA NumbersBounded ==
  ASSUME NEW f \in Seq(Chunk)
  PROVE  \E b \in Nat : \A i \in DOMAIN f : f[i].seq <= b
<1> DEFINE K == {n \in Nat : n <= Len(f) => \E b \in Nat : \A i \in 1..n : f[i].seq <= b}
<1>1. 0 \in K
  OBVIOUS
<1>2. ASSUME NEW n \in Nat, n \in K PROVE n + 1 \in K
  <2> SUFFICES ASSUME n + 1 <= Len(f) PROVE \E b \in Nat : \A i \in 1..n + 1 : f[i].seq <= b
    OBVIOUS
  <2>1. PICK b \in Nat : \A i \in 1..n : f[i].seq <= b
    BY <1>2
  <2>2. f[n + 1] \in Chunk
    OBVIOUS
  <2>3. f[n + 1].seq \in Nat
    BY <2>2 DEF Chunk
  <2>4. \A i \in 1..n : f[i] \in Chunk
    OBVIOUS
  <2>5. \A i \in 1..n : f[i].seq \in Nat
    BY <2>4 DEF Chunk
  <2>6. \A i \in 1..n + 1 : f[i].seq <= b + f[n + 1].seq
    <3>1. \A i \in 1..n + 1 : i = n + 1 \/ i \in 1..n
      OBVIOUS
    <3> QED BY <3>1, <2>1, <2>3, <2>5
  <2>7. b + f[n + 1].seq \in Nat
    BY <2>3
  <2> QED BY <2>6, <2>7
<1>3. K = Nat
  <2>1. K \in SUBSET Nat
    OBVIOUS
  <2> HIDE DEF K
  <2> QED BY <1>1, <1>2, <2>1, SetInduction
<1>4. Len(f) \in Nat /\ DOMAIN f = 1..Len(f)
  OBVIOUS
<1>5. Len(f) \in K
  BY <1>3, <1>4
<1>6. PICK b \in Nat : \A i \in 1..Len(f) : f[i].seq <= b
  <2>1. Len(f) <= Len(f)
    BY <1>4
  <2> QED BY <1>5, <2>1
<1> QED BY <1>4, <1>6

\* The records of f that can be read have numbers up to n.
UpTo(f, n) == \A i \in DOMAIN f : Intact(f, i) => f[i].seq <= n

\* SequenceGrows, of a journal f
Grows(f) ==
  \A i, j \in DOMAIN f : i < j /\ Intact(f, i) /\ Intact(f, j) => f[i].seq < f[j].seq

Memory == [seq : Nat \cup {-1}, noted : BOOLEAN, truncated : BOOLEAN, cut : BOOLEAN,
           decoding : BOOLEAN]

\* LastSeq is the greatest number that can be read.
LEMMA LastSeqBounds ==
  ASSUME NEW f \in Seq(Chunk)
  PROVE  LastSeq(f) \in Nat /\ UpTo(f, LastSeq(f))
<1> DEFINE S == {0} \cup {f[i].seq : i \in {k \in DOMAIN f : Intact(f, k)}}
<1>1. PICK b \in Nat : \A i \in DOMAIN f : f[i].seq <= b
  BY NumbersBounded
<1>2. \A i \in DOMAIN f : f[i].seq \in Nat
  <2>1. \A i \in DOMAIN f : f[i] \in Chunk
    OBVIOUS
  <2> QED BY <2>1 DEF Chunk
<1>3. S \in SUBSET Nat /\ S # {} /\ \A x \in S : x <= b
  BY <1>1, <1>2
<1>4. LastSeq(f) = Max(S)
  BY DEF LastSeq
<1>5. \A i \in DOMAIN f : Intact(f, i) => f[i].seq \in S
  OBVIOUS
<1> HIDE DEF S
<1>6. Max(S) \in S /\ \A x \in S : x <= Max(S)
  BY <1>3, MaxOfBounded
<1> QED BY <1>3, <1>4, <1>5, <1>6 DEF UpTo

\* The next number is above all that can be read.
LEMMA KnownSeqBounds ==
  ASSUME NEW f \in Seq(Chunk), NEW m \in Memory, m.seq # -1 => UpTo(f, m.seq)
  PROVE  KnownSeq(f, m) \in Nat /\ UpTo(f, KnownSeq(f, m))
<1>1. m.seq \in Nat \cup {-1}
  BY DEF Memory
<1> QED BY <1>1, LastSeqBounds DEF KnownSeq

\* What can be read after one more write.
LEMMA IntactAppend ==
  ASSUME NEW f \in Seq(Chunk), NEW c \in Chunk
  PROVE  /\ Append(f, c) \in Seq(Chunk) /\ Len(Append(f, c)) = Len(f) + 1
         /\ DOMAIN Append(f, c) = 1..Len(f) + 1 /\ DOMAIN f = 1..Len(f) /\ Len(f) \in Nat
         /\ Append(f, c)[Len(f) + 1] = c
         /\ \A i \in 1..Len(f) : Append(f, c)[i] = f[i] /\ Intact(Append(f, c), i) = Intact(f, i)
         /\ Intact(Append(f, c), Len(f) + 1) => c.ended
         /\ (c.ended /\ \A i \in DOMAIN f : f[i].ended) => Intact(Append(f, c), Len(f) + 1)
<1> DEFINE g == Append(f, c)
<1>1. g \in Seq(Chunk) /\ Len(g) = Len(f) + 1 /\ DOMAIN g = 1..Len(f) + 1
      /\ DOMAIN f = 1..Len(f) /\ Len(f) \in Nat /\ g[Len(f) + 1] = c
  OBVIOUS
<1>2. \A i \in 1..Len(f) : g[i] = f[i]
  OBVIOUS
<1> HIDE DEF g
<1>3. ASSUME NEW i \in 1..Len(f) PROVE Intact(g, i) = Intact(f, i)
  <2>1. i = 1 \/ i - 1 \in 1..Len(f)
    BY <1>1
  <2> QED BY <2>1, <1>2 DEF Intact
<1>4. Intact(g, Len(f) + 1) => c.ended
  BY <1>1 DEF Intact
<1>5. (c.ended /\ \A i \in DOMAIN f : f[i].ended) => Intact(g, Len(f) + 1)
  <2>1. Len(f) + 1 = 1 \/ (Len(f) \in 1..Len(f) /\ (Len(f) + 1) - 1 = Len(f))
    BY <1>1
  <2> QED BY <2>1, <1>1, <1>2 DEF Intact
<1> QED BY <1>1, <1>2, <1>3, <1>4, <1>5 DEF g

\* A write keeps the order if its number is above the others or its line does
\* not end.
LEMMA AppendGrows ==
  ASSUME NEW f \in Seq(Chunk), NEW c \in Chunk, NEW n \in Nat, NEW p \in Nat,
         Grows(f), UpTo(f, n), n <= p, c.ended => n < c.seq /\ c.seq <= p
  PROVE  Grows(Append(f, c)) /\ UpTo(Append(f, c), p)
<1> DEFINE g == Append(f, c)
<1>1. /\ DOMAIN g = 1..Len(f) + 1 /\ DOMAIN f = 1..Len(f) /\ Len(f) \in Nat
      /\ g[Len(f) + 1] = c /\ (Intact(g, Len(f) + 1) => c.ended)
      /\ \A i \in 1..Len(f) : g[i] = f[i] /\ Intact(g, i) = Intact(f, i)
  BY IntactAppend, Zenon
<1>2. \A i \in DOMAIN f : f[i].seq \in Nat
  <2>1. \A i \in DOMAIN f : f[i] \in Chunk
    OBVIOUS
  <2> QED BY <2>1 DEF Chunk
<1>3. c.seq \in Nat
  BY DEF Chunk
<1> HIDE DEF g
<1>4. ASSUME NEW i \in DOMAIN g PROVE i \in DOMAIN f \/ i = Len(f) + 1
  BY <1>1
<1>5. UpTo(g, p)
  BY <1>1, <1>2, <1>3, <1>4 DEF UpTo
<1>6. ASSUME NEW i \in DOMAIN g, NEW j \in DOMAIN g, i < j, Intact(g, i), Intact(g, j)
      PROVE  g[i].seq < g[j].seq
  <2>1. i \in DOMAIN f
    BY <1>1, <1>4, <1>6
  <2>2. Intact(f, i) /\ g[i] = f[i]
    BY <2>1, <1>1, <1>6
  <2>3. CASE j \in DOMAIN f
    BY <2>1, <2>2, <2>3, <1>1, <1>6 DEF Grows
  <2>4. CASE j = Len(f) + 1
    <3>1. n < c.seq /\ g[j] = c
      BY <2>4, <1>1, <1>6
    <3>2. f[i].seq <= n
      BY <2>1, <2>2 DEF UpTo
    <3> QED BY <3>1, <3>2, <2>1, <2>2, <1>2, <1>3
  <2> QED BY <2>3, <2>4, <1>4
<1> QED BY <1>5, <1>6 DEF Grows, g
\* The record that Recorded would write, and its warning.
RecordOf(f, m, kind, text, size) ==
  [seq |-> KnownSeq(f, m) + 1, kind |-> kind, text |-> text, size |-> size, ended |-> TRUE,
   garbled |-> FALSE]
WarningOf(f, m) ==
  [seq |-> KnownSeq(f, m) + 2, kind |-> "warning", text |-> NoText, size |-> WarningSize,
   ended |-> TRUE, garbled |-> FALSE]

\* g is f and what was written since.
Continues(f, g) == Len(f) <= Len(g) /\ \A i \in DOMAIN f : g[i] = f[i]

Kinds == {"event", "warning", "terminal"}

\* The sizes are positive numbers.
LEMMA Sizes ==
  /\ Header \in Nat \ {0} /\ WarningSize \in Nat \ {0} /\ TerminalSize \in Nat \ {0}
  /\ WarningSize <= TerminalSize /\ Budget \in Nat /\ PartialBudget \in Nat
  /\ MaxDeltas \in Nat /\ \A w \in Widths : w \in Nat
BY JournalAssumption DEF JournalAssumption

\* The arguments that Recorded is given.
Recording(f, m, kind, text, size) ==
  /\ f \in Seq(Chunk) /\ m \in Memory /\ (m.seq # -1 => UpTo(f, m.seq))
  /\ kind \in Kinds /\ text \in Text \cup {NoText} /\ size \in Nat

\* What it may do: write the record, or the warning, or nothing.
Outcome(f, m, size, k, record, warning, done) ==
  \/ Fits(f, size) /\ done = [file |-> Append(f, record), memory |-> [m EXCEPT !.seq = k + 1]]
  \/ ~Fits(f, size) /\ m.noted /\ done = [file |-> f, memory |-> [m EXCEPT !.seq = k + 1]]
  \/ /\ ~Fits(f, size) /\ ~m.noted /\ Fits(f, WarningSize)
     /\ done = [file |-> Append(f, warning),
                memory |-> [m EXCEPT !.seq = k + 2, !.noted = TRUE, !.truncated = TRUE]]
  \/ /\ ~Fits(f, size) /\ ~m.noted /\ ~Fits(f, WarningSize)
     /\ done = [file |-> f,
                memory |-> [m EXCEPT !.seq = k + 2, !.noted = TRUE, !.truncated = TRUE]]

LEMMA RecordedCases ==
  ASSUME NEW f, NEW m, NEW kind, NEW text, NEW size, Recording(f, m, kind, text, size)
  PROVE  /\ KnownSeq(f, m) \in Nat /\ UpTo(f, KnownSeq(f, m))
         /\ RecordOf(f, m, kind, text, size) \in Chunk /\ WarningOf(f, m) \in Chunk
         /\ Outcome(f, m, size, KnownSeq(f, m), RecordOf(f, m, kind, text, size),
                    WarningOf(f, m), Recorded(f, m, kind, text, size))
<1> DEFINE k == KnownSeq(f, m)
           done == Recorded(f, m, kind, text, size)
<1> USE DEF Recording
<1>1. k \in Nat /\ UpTo(f, k)
  BY KnownSeqBounds
<1> HIDE DEF k
<1>2. RecordOf(f, m, kind, text, size) \in Chunk
  BY <1>1 DEF RecordOf, Chunk, Kinds, k
<1>3. WarningOf(f, m) \in Chunk
  BY <1>1, Sizes DEF WarningOf, Chunk, k
<1>4. Outcome(f, m, size, k, RecordOf(f, m, kind, text, size), WarningOf(f, m), done)
  <2> DEFINE after == [m EXCEPT !.seq = k + 2, !.noted = TRUE, !.truncated = TRUE]
  <2>1. CASE Fits(f, size)
    <3>1. done = [file |-> Append(f, RecordOf(f, m, kind, text, size)),
                  memory |-> [m EXCEPT !.seq = k + 1]]
      BY <2>1, Zenon DEF Recorded, Written, RecordOf, k
    <3> QED BY <3>1, <2>1, Zenon DEF Outcome
  <2>2. CASE ~Fits(f, size) /\ m.noted
    <3>1. done = [file |-> f, memory |-> [m EXCEPT !.seq = k + 1]]
      BY <2>2, Zenon DEF Recorded, k
    <3> QED BY <3>1, <2>2, Zenon DEF Outcome
  <2>3. CASE ~Fits(f, size) /\ ~m.noted /\ Fits(f, WarningSize)
    <3>1. done = [file |-> Append(f, WarningOf(f, m)), memory |-> after]
      BY <2>3, Zenon DEF Recorded, Written, WarningOf, k
    <3> QED BY <3>1, <2>3, Zenon DEF Outcome
  <2>4. CASE ~Fits(f, size) /\ ~m.noted /\ ~Fits(f, WarningSize)
    <3>1. done = [file |-> f, memory |-> after]
      BY <2>4, Zenon DEF Recorded, k
    <3> QED BY <3>1, <2>4, Zenon DEF Outcome
  <2> QED BY <2>1, <2>2, <2>3, <2>4, Zenon
<1> QED BY <1>1, <1>2, <1>3, <1>4 DEF k

\* A write continues the journal.
LEMMA AppendContinues ==
  ASSUME NEW f \in Seq(Chunk), NEW c \in Chunk
  PROVE  Continues(f, Append(f, c))
<1>1. Len(Append(f, c)) = Len(f) + 1 /\ Len(f) \in Nat /\ DOMAIN f = 1..Len(f)
      /\ \A i \in 1..Len(f) : Append(f, c)[i] = f[i]
  OBVIOUS
<1> QED BY <1>1 DEF Continues

\* Recorded keeps the order of the journal, and knows its last number.
LEMMA RecordedGrows ==
  ASSUME NEW f, NEW m, NEW kind, NEW text, NEW size, Recording(f, m, kind, text, size), Grows(f),
         NEW done, done = Recorded(f, m, kind, text, size)
  PROVE  /\ done.file \in Seq(Chunk) /\ Continues(f, done.file)
         /\ done.memory \in Memory /\ done.memory.seq \in Nat
         /\ Grows(done.file) /\ UpTo(done.file, done.memory.seq)
<1> DEFINE k == KnownSeq(f, m)
           c == RecordOf(f, m, kind, text, size)
           w == WarningOf(f, m)
<1>0. f \in Seq(Chunk) /\ m \in Memory
  BY DEF Recording
<1>1. k \in Nat /\ UpTo(f, k) /\ c \in Chunk /\ w \in Chunk /\ Outcome(f, m, size, k, c, w, done)
  BY RecordedCases, Zenon
<1>2. c.seq = k + 1 /\ w.seq = k + 2
  BY DEF RecordOf, WarningOf
<1> HIDE DEF k, c, w
<1> DEFINE m1 == [m EXCEPT !.seq = k + 1]
           m2 == [m EXCEPT !.seq = k + 2, !.noted = TRUE, !.truncated = TRUE]
<1>3. m1 \in Memory /\ m1.seq = k + 1 /\ m2 \in Memory /\ m2.seq = k + 2
  <2>1. \A n \in Nat :
          /\ [m EXCEPT !.seq = n] \in Memory
          /\ [m EXCEPT !.seq = n, !.noted = TRUE, !.truncated = TRUE] \in Memory
    BY <1>0 DEF Memory
  <2>2. \A n \in Nat :
          /\ [m EXCEPT !.seq = n].seq = n
          /\ [m EXCEPT !.seq = n, !.noted = TRUE, !.truncated = TRUE].seq = n
    BY <1>0 DEF Memory
  <2>3. k + 1 \in Nat /\ k + 2 \in Nat
    BY <1>1
  <2> QED BY <2>1, <2>2, <2>3
<1>4. done \in {[file |-> Append(f, c), memory |-> m1], [file |-> f, memory |-> m1],
               [file |-> Append(f, w), memory |-> m2], [file |-> f, memory |-> m2]}
  BY <1>1 DEF Outcome
<1> HIDE DEF m1, m2
<1>5. CASE done.file = f /\ done.memory \in {m1, m2}
  <2>1. \A i \in DOMAIN f : f[i].seq \in Nat
    <3>1. \A i \in DOMAIN f : f[i] \in Chunk
      BY <1>0
    <3> QED BY <3>1 DEF Chunk
  <2>2. done.memory.seq \in Nat /\ k <= done.memory.seq
    BY <1>1, <1>3, <1>5
  <2>3. UpTo(f, done.memory.seq)
    BY <1>1, <2>1, <2>2 DEF UpTo
  <2> QED BY <2>2, <2>3, <1>0, <1>3, <1>5 DEF Continues
<1>6. CASE done.file = Append(f, c) /\ done.memory = m1
  <2>1. k + 1 \in Nat /\ k <= k + 1 /\ (c.ended => k < c.seq /\ c.seq <= k + 1)
    BY <1>1, <1>2
  <2>2. Grows(Append(f, c)) /\ UpTo(Append(f, c), k + 1)
    BY <2>1, <1>0, <1>1, AppendGrows
  <2>3. Append(f, c) \in Seq(Chunk) /\ Continues(f, Append(f, c))
    BY <1>0, <1>1, AppendContinues
  <2> QED BY <2>1, <2>2, <2>3, <1>3, <1>6
<1>7. CASE done.file = Append(f, w) /\ done.memory = m2
  <2>1. k + 2 \in Nat /\ k <= k + 2 /\ (w.ended => k < w.seq /\ w.seq <= k + 2)
    BY <1>1, <1>2
  <2>2. Grows(Append(f, w)) /\ UpTo(Append(f, w), k + 2)
    BY <2>1, <1>0, <1>1, AppendGrows
  <2>3. Append(f, w) \in Seq(Chunk) /\ Continues(f, Append(f, w))
    BY <1>0, <1>1, AppendContinues
  <2> QED BY <2>1, <2>2, <2>3, <1>3, <1>7
<1> QED BY <1>4, <1>5, <1>6, <1>7

-----------------------------------------------------------------------------
(* The steps of the journal.                                               *)

Row == [truncated : BOOLEAN, cut : BOOLEAN, failed : BOOLEAN]

\* Steps that write nothing, but may store the time of the last output.
Stands ==
  /\ UNCHANGED <<status, file, memory, partial, row, answer, died>>
  /\ stamp' \in {stamp, stamp + 1}

JournalStep ==
  \/ \E recorded \in BOOLEAN : Launch(recorded)
  \/ \E w \in Widths, persist \in BOOLEAN : Delta(w, persist)
  \/ \E w \in Widths, torn, garbled, warned \in BOOLEAN :
       NormalizationFails(w, torn, garbled, warned)
  \/ \E recorded \in BOOLEAN : Finish(recorded)
  \/ \E recorded \in BOOLEAN : CancelQueued(recorded)
  \/ Forget
  \/ \E recorded \in BOOLEAN : Restart(recorded)
  \/ \E verdict \in Ended : DiesEnding(verdict)
  \/ Stands

\* Every step is one of them.
LEMMA NextIsJournalStep == [Next]_vars => JournalStep
<1> SUFFICES ASSUME [Next]_vars PROVE JournalStep
  OBVIOUS
<1> USE DEF JournalStep
<1>1. CASE Launches
  BY <1>1 DEF Launches
<1>2. CASE Deltas
  BY <1>2 DEF Deltas
<1>3. CASE Outputs
  BY <1>3 DEF Outputs, Output, Stands
<1>4. CASE Finishes
  BY <1>4 DEF Finishes
<1>5. CASE Cancels
  BY <1>5 DEF Cancels
<1>6. CASE Cleanup
  BY <1>6 DEF Cleanup
<1>7. CASE Restarts
  BY <1>7 DEF Restarts
<1>8. CASE Stalls \/ Polls \/ Begins \/ Wakes \/ TimeOuts \/ UNCHANGED vars
  <2>1. UNCHANGED journalVars
    BY <1>8 DEF Stalls, Polls, Begins, Wakes, TimeOuts, Poll, Begin, Wake, TimeOut, vars, journalVars
  <2> QED BY <2>1 DEF Stands, journalVars
<1> QED BY <1>1, <1>2, <1>3, <1>4, <1>5, <1>6, <1>7, <1>8 DEF Next

\* A job that was not started has written nothing.
QueuedIsNew ==
  status = "queued" => file = <<>> /\ memory = Forgotten /\ partial = <<>> /\ answer = <<>>

JournalInv ==
  JournalTypeOK /\ QueuedIsNew /\ Grows(file) /\ (memory.seq # -1 => UpTo(file, memory.seq))

\* What a step does to the journal.
JournalKept ==
  /\ file' \in Seq(Chunk) /\ Continues(file, file') /\ Grows(file')
  /\ memory' \in Memory /\ (memory'.seq # -1 => UpTo(file', memory'.seq))
\* The summary is well typed after it is persisted.
LEMMA PersistedTyped ==
  ASSUME row \in Row, NEW m \in Memory
  PROVE  Persisted(m) \in Row /\ [Persisted(m) EXCEPT !.failed = TRUE] \in Row
BY DEF Persisted, Row, Memory

\* No memory of the journal is well typed.
LEMMA ForgottenTyped == Forgotten \in Memory /\ Forgotten.seq = -1
BY DEF Forgotten, Memory

\* A journal that is left alone
LEMMA SameContinues == ASSUME NEW f PROVE f \in Seq(Chunk) => Continues(f, f)
BY DEF Continues

\* _record_event of an event without text
LEMMA RecordKept ==
  ASSUME JournalInv, NEW kind \in Kinds, NEW size \in Nat, NEW m \in Memory,
         m.seq # -1 => UpTo(file, m.seq), NEW recorded \in BOOLEAN,
         Record(kind, size, m, recorded)
  PROVE  JournalKept /\ row' \in Row /\ stamp' \in Nat
<1> DEFINE done == Recorded(file, m, kind, NoText, size)
<1>0. file \in Seq(Chunk) /\ row \in Row /\ stamp \in Nat /\ Grows(file)
  BY DEF JournalInv, JournalTypeOK, Row
<1>1. Recording(file, m, kind, NoText, size)
  BY <1>0 DEF Recording
<1>2. /\ done.file \in Seq(Chunk) /\ Continues(file, done.file)
      /\ done.memory \in Memory /\ done.memory.seq \in Nat
      /\ Grows(done.file) /\ UpTo(done.file, done.memory.seq)
  BY <1>0, <1>1, RecordedGrows
<1>3. KnownSeq(file, m) \in Nat /\ UpTo(file, KnownSeq(file, m))
  BY <1>1, RecordedCases
<1>4. stamp' \in Nat
  BY <1>0 DEF Record
<1>5. CASE recorded
  <2>1. file' = done.file /\ memory' = done.memory /\ row' = Persisted(done.memory)
    BY <1>5, Zenon DEF Record
  <2> HIDE DEF done
  <2> QED BY <2>1, <1>0, <1>2, <1>4, PersistedTyped DEF JournalKept
<1>6. CASE ~recorded
  <2> DEFINE k == KnownSeq(file, m)
             mm == [m EXCEPT !.seq = k + 1, !.decoding = FALSE]
  <2>1. file' = file /\ row' = row /\ memory' = mm
    BY <1>6, Zenon DEF Record
  <2> HIDE DEF k
  <2>2. mm \in Memory /\ mm.seq = k + 1
    <3>1. \A n \in Nat :
            /\ [m EXCEPT !.seq = n, !.decoding = FALSE] \in Memory
            /\ [m EXCEPT !.seq = n, !.decoding = FALSE].seq = n
      BY DEF Memory
    <3>2. k + 1 \in Nat
      BY <1>3 DEF k
    <3> QED BY <3>1, <3>2
  <2> HIDE DEF mm
  <2>3. UpTo(file, k + 1)
    <3>1. \A i \in DOMAIN file : file[i].seq \in Nat
      <4>1. \A i \in DOMAIN file : file[i] \in Chunk
        BY <1>0
      <4> QED BY <4>1 DEF Chunk
    <3>2. k \in Nat /\ UpTo(file, k)
      BY <1>3 DEF k
    <3> QED BY <3>1, <3>2 DEF UpTo
  <2> QED BY <2>1, <2>2, <2>3, <1>0, <1>4, SameContinues DEF JournalKept
<1> QED BY <1>5, <1>6

\* job_terminal of a job whose memory is lost or was never there
LEMMA TerminalKept ==
  ASSUME JournalInv, NEW recorded \in BOOLEAN, memory' = Forgotten,
         file' = IF recorded THEN Recorded(file, Forgotten, "terminal", NoText, TerminalSize).file
                 ELSE file,
         row' = IF recorded
                  THEN Persisted(Recorded(file, Forgotten, "terminal", NoText, TerminalSize).memory)
                  ELSE row
  PROVE  JournalKept /\ row' \in Row
<1> DEFINE done == Recorded(file, Forgotten, "terminal", NoText, TerminalSize)
<1>0. file \in Seq(Chunk) /\ row \in Row /\ Grows(file)
  BY DEF JournalInv, JournalTypeOK, Row
<1>1. Recording(file, Forgotten, "terminal", NoText, TerminalSize)
  BY <1>0, ForgottenTyped, Sizes DEF Recording, Kinds
<1>2. /\ done.file \in Seq(Chunk) /\ Continues(file, done.file) /\ done.memory \in Memory
      /\ Grows(done.file)
  BY <1>0, <1>1, RecordedGrows
<1> HIDE DEF done
<1>3. file' = (IF recorded THEN done.file ELSE file)
      /\ row' = (IF recorded THEN Persisted(done.memory) ELSE row)
  BY DEF done
<1>4. memory' \in Memory /\ memory'.seq = -1
  BY ForgottenTyped
<1> QED BY <1>0, <1>2, <1>3, <1>4, SameContinues, PersistedTyped DEF JournalKept

\* The next text is a text.
LEMMA NextTextTyped ==
  ASSUME JournalTypeOK, Decodes, NEW w \in Widths
  PROVE  NextText(w) \in Text /\ NextText(w) # NoText /\ NextText(w).width = w
<1>1. Len(answer) \in Nat /\ Len(answer) < MaxDeltas /\ MaxDeltas \in Nat
  BY Sizes DEF JournalTypeOK, Decodes
<1>2. Len(answer) + 1 \in 1..MaxDeltas
  BY <1>1
<1> QED BY <1>1, <1>2 DEF NextText, NoText, Text

\* What the answer and the partial response become
LEMMA SpokenTyped ==
  ASSUME JournalTypeOK, NEW text \in Text, Spoken(text)
  PROVE  /\ answer' \in Seq(Text) /\ partial' \in Seq(Text)
         /\ CutBy(text) \in Memory /\ CutBy(text).seq = memory.seq
         /\ CutBy(text).noted = memory.noted /\ CutBy(text).truncated = memory.truncated
<1>1. answer \in Seq(Text) /\ partial \in Seq(Text) /\ memory \in Memory
  BY DEF JournalTypeOK, Memory
<1>2. answer' \in Seq(Text) /\ partial' \in Seq(Text)
  BY <1>1 DEF Spoken
<1>3. PartialFits(text) \in BOOLEAN
  BY DEF PartialFits
<1> HIDE DEF PartialFits
<1> QED BY <1>1, <1>2, <1>3 DEF CutBy, Memory

\* A delta
LEMMA DeltaKept ==
  ASSUME JournalInv, NEW w \in Widths, NEW persist \in BOOLEAN, Delta(w, persist)
  PROVE  JournalKept /\ row' \in Row /\ stamp' \in Nat /\ answer' \in Seq(Text) /\ partial' \in Seq(Text)
<1> DEFINE text == NextText(w)
           m == CutBy(text)
           done == Recorded(file, m, "event", text, Header + w)
<1>0. JournalTypeOK /\ file \in Seq(Chunk) /\ row \in Row /\ stamp \in Nat /\ Grows(file)
      /\ (memory.seq # -1 => UpTo(file, memory.seq))
  BY DEF JournalInv, JournalTypeOK, Row
<1>1. /\ Decodes /\ Spoken(text) /\ file' = done.file /\ memory' = done.memory
      /\ row' = (IF persist THEN Persisted(done.memory) ELSE row) /\ stamp' = stamp + 1
  BY Zenon DEF Delta
<1>2. text \in Text
  BY <1>0, <1>1, NextTextTyped
<1> HIDE DEF text
<1>3. answer' \in Seq(Text) /\ partial' \in Seq(Text) /\ m \in Memory /\ m.seq = memory.seq
  BY <1>0, <1>1, <1>2, SpokenTyped
<1>4. Header + w \in Nat
  BY Sizes
<1> HIDE DEF m
<1>5. Recording(file, m, "event", text, Header + w)
  BY <1>0, <1>2, <1>3, <1>4 DEF Recording, Kinds
<1>6. /\ done.file \in Seq(Chunk) /\ Continues(file, done.file)
      /\ done.memory \in Memory /\ done.memory.seq \in Nat
      /\ Grows(done.file) /\ UpTo(done.file, done.memory.seq)
  BY <1>0, <1>5, RecordedGrows
<1> HIDE DEF done
<1>7. row' \in Row
  BY <1>0, <1>1, <1>6, PersistedTyped
<1>8. JournalKept
  BY <1>1, <1>6 DEF JournalKept
<1> QED BY <1>0, <1>1, <1>3, <1>7, <1>8

\* What a torn write of a text leaves in the journal
TornOf(f, m, text, garbled) ==
  [seq |-> KnownSeq(f, m) + 1, kind |-> "event", text |-> text, size |-> Header, ended |-> FALSE,
   garbled |-> garbled]

\* A write of a delta that fails
LEMMA FailureKept ==
  ASSUME JournalInv, NEW w \in Widths, NEW torn \in BOOLEAN, NEW garbled \in BOOLEAN,
         NEW warned \in BOOLEAN, NormalizationFails(w, torn, garbled, warned)
  PROVE  JournalKept /\ row' \in Row /\ stamp' \in Nat /\ answer' \in Seq(Text) /\ partial' \in Seq(Text)
<1> DEFINE text == NextText(w)
           seq == KnownSeq(file, memory) + 1
           left == IF torn THEN Append(file, TornOf(file, memory, text, garbled)) ELSE file
           m == [CutBy(text) EXCEPT !.seq = seq, !.decoding = FALSE]
           done == Recorded(left, m, "event", NoText, Header)
<1>0. JournalTypeOK /\ file \in Seq(Chunk) /\ row \in Row /\ stamp \in Nat /\ Grows(file)
      /\ memory \in Memory /\ (memory.seq # -1 => UpTo(file, memory.seq))
  BY DEF JournalInv, JournalTypeOK, Row, Memory
<1>1. /\ Decodes /\ Spoken(text)
      /\ file' = (IF warned THEN done.file ELSE left)
      /\ memory' = (IF warned THEN done.memory ELSE [m EXCEPT !.seq = seq + 1])
      /\ row' = [(IF warned THEN Persisted(done.memory) ELSE row) EXCEPT !.failed = TRUE]
      /\ stamp' = (IF warned THEN stamp + 1 ELSE stamp)
  BY Zenon DEF NormalizationFails, TornOf
<1>2. text \in Text
  BY <1>0, <1>1, NextTextTyped
<1> HIDE DEF text
<1>3. answer' \in Seq(Text) /\ partial' \in Seq(Text) /\ CutBy(text) \in Memory
  BY <1>0, <1>1, <1>2, SpokenTyped
<1>4. KnownSeq(file, memory) \in Nat /\ UpTo(file, KnownSeq(file, memory))
  BY <1>0, KnownSeqBounds
<1>5. TornOf(file, memory, text, garbled) \in Chunk /\ ~TornOf(file, memory, text, garbled).ended
  BY <1>2, <1>4, Sizes DEF TornOf, Chunk
<1>6. seq \in Nat /\ KnownSeq(file, memory) <= seq
  BY <1>4
<1> HIDE DEF seq
<1>7. left \in Seq(Chunk) /\ Continues(file, left) /\ Grows(left) /\ UpTo(left, seq)
  <2>1. CASE torn
    <3>1. Grows(Append(file, TornOf(file, memory, text, garbled)))
          /\ UpTo(Append(file, TornOf(file, memory, text, garbled)), seq)
      BY <1>0, <1>4, <1>5, <1>6, AppendGrows
    <3> QED BY <2>1, <3>1, <1>0, <1>5, AppendContinues
  <2>2. CASE ~torn
    <3>1. \A i \in DOMAIN file : file[i].seq \in Nat
      <4>1. \A i \in DOMAIN file : file[i] \in Chunk
        BY <1>0
      <4> QED BY <4>1 DEF Chunk
    <3>2. UpTo(file, seq)
      BY <3>1, <1>4, <1>6 DEF UpTo
    <3> QED BY <2>2, <3>2, <1>0, SameContinues
  <2> QED BY <2>1, <2>2
<1>8. m \in Memory /\ m.seq = seq /\ [m EXCEPT !.seq = seq + 1] \in Memory
      /\ [m EXCEPT !.seq = seq + 1].seq = seq + 1
  <2>1. \A c \in Memory, n \in Nat :
          /\ [c EXCEPT !.seq = n, !.decoding = FALSE] \in Memory
          /\ [c EXCEPT !.seq = n, !.decoding = FALSE].seq = n
    BY DEF Memory
  <2>2. m \in Memory /\ m.seq = seq
    BY <2>1, <1>3, <1>6
  <2>3. \A c \in Memory, n \in Nat :
          [c EXCEPT !.seq = n] \in Memory /\ [c EXCEPT !.seq = n].seq = n
    BY DEF Memory
  <2> HIDE DEF m
  <2> QED BY <2>2, <2>3, <1>6
<1> HIDE DEF m, left
<1>9. Recording(left, m, "event", NoText, Header)
  BY <1>7, <1>8, Sizes DEF Recording, Kinds
<1>10. /\ done.file \in Seq(Chunk) /\ Continues(left, done.file)
       /\ done.memory \in Memory /\ done.memory.seq \in Nat
       /\ Grows(done.file) /\ UpTo(done.file, done.memory.seq)
  BY <1>7, <1>9, RecordedGrows
<1> HIDE DEF done
<1>11. Continues(file, done.file)
  <2>1. \A i \in DOMAIN file : i \in DOMAIN left
    BY <1>0, <1>7 DEF Continues
  <2>2. Len(file) \in Nat /\ Len(left) \in Nat /\ Len(done.file) \in Nat
    BY <1>0, <1>7, <1>10
  <2> QED BY <2>1, <2>2, <1>7, <1>10 DEF Continues
<1>12. UpTo(left, seq + 1) /\ seq + 1 \in Nat
  <2>1. \A i \in DOMAIN left : left[i].seq \in Nat
    <3>1. \A i \in DOMAIN left : left[i] \in Chunk
      BY <1>7
    <3> QED BY <3>1 DEF Chunk
  <2> QED BY <2>1, <1>6, <1>7 DEF UpTo
<1>13. row' \in Row
  <2>1. [row EXCEPT !.failed = TRUE] \in Row
    BY <1>0 DEF Row
  <2>2. [Persisted(done.memory) EXCEPT !.failed = TRUE] \in Row
    BY <1>0, <1>10, PersistedTyped
  <2> QED BY <2>1, <2>2, <1>1
<1>14. JournalKept
  <2>1. CASE warned
    <3>1. file' = done.file /\ memory' = done.memory
      BY <2>1, <1>1
    <3> QED BY <3>1, <1>10, <1>11 DEF JournalKept
  <2>2. CASE ~warned
    <3>1. file' = left /\ memory' = [m EXCEPT !.seq = seq + 1]
      BY <2>2, <1>1
    <3> QED BY <3>1, <1>7, <1>8, <1>12 DEF JournalKept
  <2> QED BY <2>1, <2>2
<1>15. stamp' \in Nat
  BY <1>0, <1>1
<1> QED BY <1>3, <1>13, <1>14, <1>15

\* Every step keeps the journal in order.
LEMMA StepKeepsJournal ==
  ASSUME JournalInv, JournalStep
  PROVE  JournalInv' /\ Continues(file, file')
<1>0. /\ JournalTypeOK /\ file \in Seq(Chunk) /\ row \in Row /\ stamp \in Nat /\ Grows(file)
      /\ memory \in Memory /\ (memory.seq # -1 => UpTo(file, memory.seq))
      /\ answer \in Seq(Text) /\ partial \in Seq(Text) /\ status \in Status
  BY DEF JournalInv, JournalTypeOK, Row, Memory
<1> DEFINE Kept == JournalKept /\ row' \in Row /\ stamp' \in Nat
                   /\ answer' \in Seq(Text) /\ partial' \in Seq(Text)
<1>1. ASSUME NEW recorded \in BOOLEAN, Launch(recorded) PROVE Kept /\ status' = "running"
  <2> DEFINE m == [memory EXCEPT !.decoding = TRUE]
  <2>1. m \in Memory /\ m.seq = memory.seq
    BY <1>0 DEF Memory
  <2>2. status' = "running" /\ Record("event", Header, m, recorded)
        /\ answer' = answer /\ partial' = partial
    BY <1>1 DEF Launch
  <2> HIDE DEF m
  <2>3. JournalKept /\ row' \in Row /\ stamp' \in Nat
    BY <2>1, <2>2, <1>0, RecordKept, Sizes DEF Kinds
  <2> QED BY <2>2, <2>3, <1>0
<1>2. ASSUME NEW recorded \in BOOLEAN, Finish(recorded) PROVE Kept /\ status' = "completed"
  <2>1. status' = "completed" /\ Record("terminal", TerminalSize, memory, recorded)
        /\ answer' = answer /\ partial' = partial
    BY <1>2 DEF Finish
  <2>2. JournalKept /\ row' \in Row /\ stamp' \in Nat
    BY <2>1, <1>0, RecordKept, Sizes DEF Kinds
  <2> QED BY <2>1, <2>2, <1>0
<1>3. ASSUME NEW w \in Widths, NEW persist \in BOOLEAN, Delta(w, persist)
      PROVE  Kept /\ status' = "running"
  BY <1>3, DeltaKept DEF Delta, Decodes
<1>4. ASSUME NEW w \in Widths, NEW torn \in BOOLEAN, NEW garbled \in BOOLEAN,
             NEW warned \in BOOLEAN, NormalizationFails(w, torn, garbled, warned)
      PROVE  Kept /\ status' = "running"
  BY <1>4, FailureKept DEF NormalizationFails, Decodes
<1>5. ASSUME NEW recorded \in BOOLEAN, CancelQueued(recorded) PROVE Kept /\ status' = "cancelled"
  <2>1. memory = Forgotten
    BY <1>5 DEF JournalInv, QueuedIsNew, CancelQueued
  <2>2. JournalKept /\ row' \in Row
    <3>1. memory' = Forgotten
      BY <2>1, <1>5 DEF CancelQueued
    <3> QED BY <3>1, <1>5, TerminalKept DEF CancelQueued
  <2> QED BY <2>2, <1>0, <1>5 DEF CancelQueued
<1>6. ASSUME Forget PROVE Kept /\ status' # "queued"
  <2>1. JournalKept
    BY <1>0, <1>6, ForgottenTyped, SameContinues DEF Forget, JournalKept
  <2> QED BY <2>1, <1>0, <1>6 DEF Forget, Ended
<1>7. ASSUME NEW recorded \in BOOLEAN, Restart(recorded)
      PROVE  /\ Kept
             /\ status' = "queued" =>
                  status = "queued" /\ UNCHANGED <<file, answer, partial>> /\ memory' = Forgotten
  <2>1. memory' = Forgotten
    BY <1>7 DEF Restart
  <2>2. answer' \in Seq(Text) /\ partial' \in Seq(Text)
    <3>1. CASE UNCHANGED <<partial, answer, died>>
      BY <3>1, <1>0
    <3>2. ASSUME Decodes, NEW w \in Widths, Spoken(NextText(w))
          PROVE  answer' \in Seq(Text) /\ partial' \in Seq(Text)
      BY <3>2, <1>0, NextTextTyped, SpokenTyped
    <3> QED BY <3>1, <3>2, <1>7 DEF Restart
  <2>3. CASE status = "running"
    <3>1. JournalKept /\ row' \in Row
      BY <2>1, <2>3, <1>7, TerminalKept DEF Restart
    <3>2. stamp' \in Nat /\ status' = "interrupted"
      BY <2>3, <1>0, <1>7 DEF Restart
    <3> QED BY <2>1, <2>2, <3>1, <3>2
  <2>4. CASE status # "running"
    <3>1. file' = file /\ row' = row /\ stamp' = stamp /\ status' = status
      BY <2>4, <1>7 DEF Restart
    <3>2. JournalKept
      BY <2>1, <3>1, <1>0, ForgottenTyped, SameContinues DEF JournalKept
    <3>3. UNCHANGED <<answer, partial>>
      BY <2>4, <1>7 DEF Restart, Decodes
    <3> QED BY <2>1, <2>2, <3>1, <3>2, <3>3, <1>0
  <2> QED BY <2>3, <2>4
<1>14. ASSUME NEW verdict \in Ended, DiesEnding(verdict) PROVE Kept /\ status' = verdict
  <2>1. memory' = Forgotten /\ status' = verdict
        /\ UNCHANGED <<file, partial, row, stamp, answer>>
    BY <1>14 DEF DiesEnding
  <2>2. JournalKept
    BY <2>1, <1>0, ForgottenTyped, SameContinues DEF JournalKept
  <2> QED BY <2>1, <2>2, <1>0
<1>8. ASSUME Stands PROVE Kept
  BY <1>0, <1>8, SameContinues DEF Stands, JournalKept
<1>9. Kept
  BY <1>1, <1>2, <1>3, <1>4, <1>5, <1>6, <1>7, <1>14, <1>8 DEF JournalStep
<1>10. QueuedIsNew'
  <2>1. CASE Stands
    BY <2>1 DEF Stands, JournalInv, QueuedIsNew
  <2>2. CASE \E recorded \in BOOLEAN : Restart(recorded)
    BY <2>2, <1>7 DEF JournalInv, QueuedIsNew
  <2>3. CASE \E verdict \in Ended : DiesEnding(verdict)
    BY <2>3, <1>14 DEF Ended, QueuedIsNew
  <2> QED BY <2>1, <2>2, <2>3, <1>1, <1>2, <1>3, <1>4, <1>5, <1>6 DEF JournalStep, QueuedIsNew
<1>11. status' \in Status
  BY <1>0, <1>1, <1>2, <1>3, <1>4, <1>5, <1>6, <1>7, <1>14
     DEF JournalStep, Stands, Forget, Restart, CancelQueued, Status, Ended
<1>13. died' \in BOOLEAN
  <2>1. \A recorded \in BOOLEAN :
          Launch(recorded) \/ Finish(recorded) \/ CancelQueued(recorded) => died' = died
    BY DEF Launch, Finish, CancelQueued
  <2>2. \A w \in Widths, persist \in BOOLEAN : Delta(w, persist) => died' = died
    BY Zenon DEF Delta
  <2>3. ASSUME NEW w \in Widths, NEW torn \in BOOLEAN, NEW garbled \in BOOLEAN,
               NEW warned \in BOOLEAN, NormalizationFails(w, torn, garbled, warned)
        PROVE  died' = died
    BY <2>3, Zenon DEF NormalizationFails
  <2>4. Forget \/ Stands => died' = died
    BY DEF Forget, Stands
  <2>5. \A recorded \in BOOLEAN : Restart(recorded) => died' = died \/ died' = TRUE
    BY DEF Restart
  <2>6. \A verdict \in Ended : DiesEnding(verdict) => died' = TRUE
    BY DEF DiesEnding
  <2>7. died' = died \/ died' = TRUE
    BY <2>1, <2>2, <2>3, <2>4, <2>5, <2>6 DEF JournalStep
  <2> QED BY <2>7 DEF JournalInv, JournalTypeOK
<1>12. JournalTypeOK'
  BY <1>9, <1>11, <1>13 DEF JournalTypeOK, JournalKept, Row, Memory
<1> QED BY <1>9, <1>10, <1>12 DEF JournalInv, JournalKept
\* The first state
LEMMA JournalInvInit == Init => JournalInv
<1> SUFFICES ASSUME Init PROVE JournalInv
  OBVIOUS
<1>1. /\ status = "queued" /\ file = <<>> /\ partial = <<>> /\ answer = <<>> /\ memory = Forgotten
      /\ row = [truncated |-> FALSE, cut |-> FALSE, failed |-> FALSE] /\ stamp = 0
      /\ died = FALSE
  BY DEF Init, JournalInit
<1>2. JournalTypeOK
  <2>1. died \in BOOLEAN
    BY <1>1
  <2> QED BY <1>1, <2>1 DEF JournalTypeOK, Status, Forgotten
<1>3. Grows(file)
  BY <1>1 DEF Grows
<1> QED BY <1>1, <1>2, <1>3, ForgottenTyped DEF JournalInv, QueuedIsNew

LEMMA JournalInvHolds == Spec => []JournalInv
<1>1. JournalInv /\ [Next]_vars => JournalInv'
  BY NextIsJournalStep, StepKeepsJournal
<1> QED BY JournalInvInit, <1>1, PTL DEF Spec

\* The numbers of the records that can be read grow along the journal, through
\* restarts, budgets and torn writes: _next_event_seq finds the last one again.
THEOREM NumbersGrow == Spec => []SequenceGrows
<1>1. JournalInv => SequenceGrows
  BY DEF JournalInv, Grows, SequenceGrows
<1> QED BY JournalInvHolds, <1>1, PTL

-----------------------------------------------------------------------------
(* The budget.                                                             *)

\* Every write of f ended its line.
Whole(f) == \A i \in DOMAIN f : f[i].ended
\* A warning in f can be read.
WarnedIn(f) == \E i \in DOMAIN f : f[i].kind = "warning" /\ Intact(f, i)
\* The records of f that carry a text
SpokenIn(f) == {i \in DOMAIN f : f[i].text # NoText}

\* There are finitely many texts in f, and an appended one is one more.
LEMMA SpokenAppend ==
  ASSUME NEW f \in Seq(Chunk), NEW c \in Chunk
  PROVE  /\ Cardinality(SpokenIn(f)) \in Nat
         /\ c.text = NoText => SpokenIn(Append(f, c)) = SpokenIn(f)
         /\ c.text # NoText =>
              Cardinality(SpokenIn(Append(f, c))) = Cardinality(SpokenIn(f)) + 1
<1> DEFINE g == Append(f, c)
<1>1. /\ DOMAIN g = 1..Len(f) + 1 /\ DOMAIN f = 1..Len(f) /\ Len(f) \in Nat
      /\ g[Len(f) + 1] = c /\ \A i \in 1..Len(f) : g[i] = f[i]
  OBVIOUS
<1> HIDE DEF g
<1>2. IsFiniteSet(SpokenIn(f)) /\ Cardinality(SpokenIn(f)) \in Nat
  <2>1. IsFiniteSet(1..Len(f))
    <3>1. 1 \in Int /\ Len(f) \in Int
      BY <1>1
    <3> QED BY <3>1, FS_Interval
  <2>2. SpokenIn(f) \subseteq 1..Len(f)
    BY <1>1 DEF SpokenIn
  <2>3. IsFiniteSet(SpokenIn(f))
    BY <2>1, <2>2, FS_Subset
  <2> QED BY <2>3, FS_CardinalityType
<1>3. c.text = NoText => SpokenIn(g) = SpokenIn(f)
  BY <1>1 DEF SpokenIn
<1>4. c.text # NoText => SpokenIn(g) = SpokenIn(f) \cup {Len(f) + 1}
  BY <1>1 DEF SpokenIn
<1>5. Len(f) + 1 \notin SpokenIn(f)
  BY <1>1 DEF SpokenIn
<1>6. Cardinality(SpokenIn(f) \cup {Len(f) + 1}) = Cardinality(SpokenIn(f)) + 1
  BY <1>2, <1>5, FS_AddElement
<1> QED BY <1>2, <1>3, <1>4, <1>6 DEF g

\* There are chunks.
LEMMA SomeChunk == \E c : c \in Chunk
<1> DEFINE c == [seq |-> 0, kind |-> "event", text |-> NoText, size |-> 0, ended |-> TRUE,
                 garbled |-> FALSE]
<1>1. c \in Chunk
  BY DEF Chunk
<1> QED BY <1>1

\* What does not fit does not fit later, and less fits where more does.
LEMMA FitsLess ==
  ASSUME NEW f \in Seq(Chunk), NEW c \in Chunk, NEW n \in Nat, NEW p \in Nat
  PROVE  /\ Fits(Append(f, c), n) => Fits(f, n)
         /\ n <= p /\ Fits(f, p) => Fits(f, n)
<1>1. Bytes(f) \in Nat /\ Bytes(Append(f, c)) = Bytes(f) + c.size
  BY BytesAppend
<1>2. c.size \in Nat
  BY DEF Chunk
<1> QED BY <1>1, <1>2, Sizes DEF Fits

\* What a record or its absence says of the budget: what did not fit is in
\* memory, and there is a warning unless there is no room for one.
LEMMA RecordedAnnounces ==
  ASSUME NEW f, NEW m, NEW kind, NEW text, NEW size, Recording(f, m, kind, text, size), Whole(f),
         m.noted => m.truncated,
         NEW done, done = Recorded(f, m, kind, text, size)
  PROVE  /\ Whole(done.file)
         /\ done.memory.noted => done.memory.truncated
         /\ m.truncated => done.memory.truncated
         /\ WarnedIn(f) => WarnedIn(done.file)
         /\ Fits(done.file, WarningSize) => Fits(f, WarningSize)
         /\ done.memory.truncated =>
              m.truncated \/ WarnedIn(done.file) \/ ~Fits(done.file, WarningSize)
         /\ ~Fits(f, size) => done.memory.truncated
         /\ Cardinality(SpokenIn(done.file)) \in Nat /\ Cardinality(SpokenIn(f)) \in Nat
         /\ Cardinality(SpokenIn(f)) <= Cardinality(SpokenIn(done.file))
         /\ done.memory.truncated \/ text = NoText
            \/ Cardinality(SpokenIn(done.file)) = Cardinality(SpokenIn(f)) + 1
<1> DEFINE k == KnownSeq(f, m)
           c == RecordOf(f, m, kind, text, size)
           w == WarningOf(f, m)
           m1 == [m EXCEPT !.seq = k + 1]
           m2 == [m EXCEPT !.seq = k + 2, !.noted = TRUE, !.truncated = TRUE]
<1>1. f \in Seq(Chunk) /\ m \in Memory
  BY DEF Recording
<1>2. k \in Nat /\ c \in Chunk /\ w \in Chunk /\ Outcome(f, m, size, k, c, w, done)
  BY RecordedCases, Zenon
<1>3. /\ c.text = text /\ c.ended /\ w.text = NoText /\ w.ended /\ w.kind = "warning"
  BY DEF RecordOf, WarningOf
<1> HIDE DEF k, c, w
<1>4. /\ m1.noted = m.noted /\ m1.truncated = m.truncated
      /\ m2.noted = TRUE /\ m2.truncated = TRUE
  BY <1>1 DEF Memory
<1>5. \/ Fits(f, size) /\ done.file = Append(f, c) /\ done.memory = m1
      \/ ~Fits(f, size) /\ m.noted /\ done.file = f /\ done.memory = m1
      \/ ~Fits(f, size) /\ done.file = Append(f, w) /\ done.memory = m2
      \/ ~Fits(f, size) /\ ~Fits(f, WarningSize) /\ done.file = f /\ done.memory = m2
  BY <1>2 DEF Outcome
<1> HIDE DEF m1, m2
<1>6. ASSUME NEW x \in {c, w}
      PROVE  /\ Whole(Append(f, x)) /\ (WarnedIn(f) => WarnedIn(Append(f, x)))
             /\ Fits(Append(f, x), WarningSize) => Fits(f, WarningSize)
             /\ Cardinality(SpokenIn(Append(f, x))) \in Nat
             /\ x.text = NoText => Cardinality(SpokenIn(Append(f, x))) = Cardinality(SpokenIn(f))
             /\ x.text # NoText =>
                  Cardinality(SpokenIn(Append(f, x))) = Cardinality(SpokenIn(f)) + 1
  <2>1. x \in Chunk /\ x.ended
    BY <1>2, <1>3
  <2> DEFINE g == Append(f, x)
  <2>2. /\ DOMAIN g = 1..Len(f) + 1 /\ DOMAIN f = 1..Len(f) /\ Len(f) \in Nat
        /\ g[Len(f) + 1] = x
        /\ \A i \in 1..Len(f) : g[i] = f[i] /\ Intact(g, i) = Intact(f, i)
    BY <1>1, <2>1, IntactAppend, Zenon
  <2>3. Cardinality(SpokenIn(f)) \in Nat
        /\ (x.text = NoText => SpokenIn(g) = SpokenIn(f))
        /\ (x.text # NoText => Cardinality(SpokenIn(g)) = Cardinality(SpokenIn(f)) + 1)
    BY <1>1, <2>1, SpokenAppend, Zenon
  <2>4. Fits(g, WarningSize) => Fits(f, WarningSize)
    BY <1>1, <2>1, FitsLess, Sizes
  <2> HIDE DEF g
  <2>5. Whole(g)
    BY <2>1, <2>2 DEF Whole
  <2>6. WarnedIn(f) => WarnedIn(g)
    BY <2>2 DEF WarnedIn
  <2>7. Cardinality(SpokenIn(g)) \in Nat
    BY <2>3
  <2> QED BY <2>3, <2>4, <2>5, <2>6, <2>7 DEF g
<1>7. WarnedIn(Append(f, w))
  <2> DEFINE g == Append(f, w)
  <2>1. /\ DOMAIN g = 1..Len(f) + 1 /\ Len(f) \in Nat /\ g[Len(f) + 1] = w
        /\ Intact(g, Len(f) + 1)
    BY <1>1, <1>2, <1>3, IntactAppend DEF Whole
  <2> HIDE DEF g
  <2>2. Len(f) + 1 \in DOMAIN g
    BY <2>1
  <2>3. WarnedIn(g)
    BY <2>1, <2>2, <1>3 DEF WarnedIn
  <2> QED BY <2>3 DEF g
<1>8. Cardinality(SpokenIn(f)) \in Nat
  BY <1>1, <1>2, SpokenAppend
<1>9. CASE Fits(f, size) /\ done.file = Append(f, c) /\ done.memory = m1
  BY <1>9, <1>3, <1>4, <1>6, <1>8
<1>10. CASE ~Fits(f, size) /\ m.noted /\ done.file = f /\ done.memory = m1
  BY <1>10, <1>4, <1>8
<1>11. CASE ~Fits(f, size) /\ done.file = Append(f, w) /\ done.memory = m2
  BY <1>11, <1>3, <1>4, <1>6, <1>7, <1>8
<1>12. CASE ~Fits(f, size) /\ ~Fits(f, WarningSize) /\ done.file = f /\ done.memory = m2
  BY <1>12, <1>4, <1>8
<1> QED BY <1>5, <1>9, <1>10, <1>11, <1>12

Told == row.truncated \/ memory.truncated \/ WarnedIn(file)

\* What memory knows of a dropped text outlives it: the row or a warning says
\* it, or job_terminal will not fit either and the row will say it then, unless
\* the daemon died in between.
BudgetInv ==
  ~row.failed =>
    /\ Whole(file) /\ (memory.noted => memory.truncated)
    /\ memory.truncated =>
         row.truncated \/ WarnedIn(file) \/ (status = "running" /\ ~Fits(file, WarningSize))
    /\ Told \/ died \/ Len(answer) <= Cardinality(SpokenIn(file))
\* A record of an event without text, at the launch or at the end
LEMMA RecordBudget ==
  ASSUME JournalInv, BudgetInv, NEW kind \in Kinds, NEW size \in Nat, NEW m \in Memory,
         m.seq = memory.seq, m.noted = memory.noted, m.truncated = memory.truncated,
         NEW recorded \in BOOLEAN, Record(kind, size, m, recorded),
         answer' = answer, died' = died,
         status # "running" \/ WarningSize <= size
  PROVE  BudgetInv'
<1> DEFINE done == Recorded(file, m, kind, NoText, size)
<1> SUFFICES ASSUME ~row'.failed PROVE BudgetInv'
  BY DEF BudgetInv
<1>0. /\ file \in Seq(Chunk) /\ row \in Row /\ answer \in Seq(Text)
      /\ (memory.seq # -1 => UpTo(file, memory.seq))
  BY DEF JournalInv, JournalTypeOK, Row
<1>1. Recording(file, m, kind, NoText, size)
  BY <1>0 DEF Recording
<1>2. CASE recorded
  <2>1. file' = done.file /\ memory' = done.memory /\ row' = Persisted(done.memory)
    BY <1>2, Zenon DEF Record
  <2>2. row'.failed = row.failed /\ row'.truncated = (row.truncated \/ done.memory.truncated)
    BY <2>1, <1>0 DEF Persisted, Row
  <2>3. /\ Whole(file) /\ (memory.noted => memory.truncated)
        /\ Told \/ died \/ Len(answer) <= Cardinality(SpokenIn(file))
    BY <2>2 DEF BudgetInv
  <2>4. /\ Whole(done.file) /\ (done.memory.noted => done.memory.truncated)
        /\ (m.truncated => done.memory.truncated) /\ (WarnedIn(file) => WarnedIn(done.file))
        /\ Cardinality(SpokenIn(done.file)) \in Nat /\ Cardinality(SpokenIn(file)) \in Nat
        /\ Cardinality(SpokenIn(file)) <= Cardinality(SpokenIn(done.file))
    BY <2>3, <1>1, RecordedAnnounces
  <2> HIDE DEF done
  <2>5. Len(answer) \in Nat
    BY <1>0
  <2>6. Told => Told'
    BY <2>1, <2>2, <2>4 DEF Told
  <2>7. Told' \/ died' \/ Len(answer') <= Cardinality(SpokenIn(file'))
    BY <2>1, <2>3, <2>4, <2>5, <2>6
  <2> QED BY <2>1, <2>2, <2>4, <2>7 DEF BudgetInv
<1>3. CASE ~recorded
  <2>1. file' = file /\ row' = row /\ memory'.noted = memory.noted
        /\ memory'.truncated = memory.truncated /\ Fits(file, size)
    <3>1. /\ file' = file /\ row' = row /\ Fits(file, size)
          /\ memory' = [m EXCEPT !.seq = KnownSeq(file, m) + 1, !.decoding = FALSE]
      BY <1>3, Zenon DEF Record
    <3>2. \A n : /\ [m EXCEPT !.seq = n, !.decoding = FALSE].noted = m.noted
                 /\ [m EXCEPT !.seq = n, !.decoding = FALSE].truncated = m.truncated
      BY DEF Memory
    <3> QED BY <3>1, <3>2
  <2>2. status = "running" => Fits(file, WarningSize)
    <3>1. PICK c \in Chunk : TRUE
      BY SomeChunk
    <3> QED BY <2>1, <1>0, FitsLess, Sizes
  <2>3. Told' = Told /\ Whole(file)' = Whole(file) /\ WarnedIn(file)' = WarnedIn(file)
        /\ SpokenIn(file)' = SpokenIn(file)
    BY <2>1 DEF Told
  <2> QED BY <2>1, <2>2, <2>3 DEF BudgetInv
<1> QED BY <1>2, <1>3

\* job_terminal of a job whose memory is lost
LEMMA TerminalBudget ==
  ASSUME JournalInv, BudgetInv, NEW recorded \in BOOLEAN, memory' = Forgotten,
         (answer' = answer /\ died' = died) \/ died', recorded \/ Fits(file, TerminalSize),
         file' = IF recorded THEN Recorded(file, Forgotten, "terminal", NoText, TerminalSize).file
                 ELSE file,
         row' = IF recorded
                  THEN Persisted(Recorded(file, Forgotten, "terminal", NoText, TerminalSize).memory)
                  ELSE row
  PROVE  BudgetInv'
<1> DEFINE done == Recorded(file, Forgotten, "terminal", NoText, TerminalSize)
<1> SUFFICES ASSUME ~row'.failed PROVE BudgetInv'
  BY DEF BudgetInv
<1>0. file \in Seq(Chunk) /\ row \in Row /\ answer \in Seq(Text) /\ Len(answer) \in Nat
  BY DEF JournalInv, JournalTypeOK, Row
<1>1. Recording(file, Forgotten, "terminal", NoText, TerminalSize)
  BY <1>0, ForgottenTyped, Sizes DEF Recording, Kinds
<1>2. ~memory'.noted /\ ~memory'.truncated
  BY DEF Forgotten
<1>3. Fits(file, TerminalSize) => Fits(file, WarningSize)
  <2>1. PICK c \in Chunk : TRUE
    BY SomeChunk
  <2> QED BY <1>0, FitsLess, Sizes
<1>4. CASE recorded
  <2>1. file' = done.file /\ row' = Persisted(done.memory)
    BY <1>4, Zenon
  <2>2. row'.failed = row.failed /\ row'.truncated = (row.truncated \/ done.memory.truncated)
    BY <2>1, <1>0 DEF Persisted, Row
  <2>3. /\ Whole(file) /\ (memory.noted => memory.truncated)
        /\ memory.truncated => row.truncated \/ WarnedIn(file) \/ ~Fits(file, WarningSize)
        /\ Told \/ died \/ Len(answer) <= Cardinality(SpokenIn(file))
    BY <2>2 DEF BudgetInv
  <2>4. /\ Whole(done.file) /\ (WarnedIn(file) => WarnedIn(done.file))
        /\ (~Fits(file, TerminalSize) => done.memory.truncated)
        /\ Cardinality(SpokenIn(done.file)) \in Nat /\ Cardinality(SpokenIn(file)) \in Nat
        /\ Cardinality(SpokenIn(file)) <= Cardinality(SpokenIn(done.file))
    <3>1. Forgotten.noted => Forgotten.truncated
      BY DEF Forgotten
    <3> QED BY <3>1, <2>3, <1>1, RecordedAnnounces
  <2> HIDE DEF done
  <2>5. Told => row'.truncated \/ WarnedIn(file')
    BY <2>1, <2>2, <2>3, <2>4, <1>3 DEF Told
  <2>6. Told' \/ died' \/ Len(answer') <= Cardinality(SpokenIn(file'))
    BY <2>1, <2>3, <2>4, <2>5, <1>0 DEF Told
  <2> QED BY <2>1, <2>4, <2>6, <1>2 DEF BudgetInv
<1>5. CASE ~recorded
  <2>1. file' = file /\ row' = row /\ Fits(file, WarningSize)
    BY <1>5, <1>3
  <2>2. Whole(file)' = Whole(file) /\ WarnedIn(file)' = WarnedIn(file)
        /\ SpokenIn(file)' = SpokenIn(file)
    BY <2>1
  <2> QED BY <2>1, <2>2, <1>2 DEF BudgetInv, Told
<1> QED BY <1>4, <1>5

\* A delta
LEMMA DeltaBudget ==
  ASSUME JournalInv, BudgetInv, NEW w \in Widths, NEW persist \in BOOLEAN, Delta(w, persist)
  PROVE  BudgetInv'
<1> DEFINE text == NextText(w)
           m == CutBy(text)
           done == Recorded(file, m, "event", text, Header + w)
<1> SUFFICES ASSUME ~row'.failed PROVE BudgetInv'
  BY DEF BudgetInv
<1>0. /\ JournalTypeOK /\ file \in Seq(Chunk) /\ row \in Row /\ answer \in Seq(Text)
      /\ Len(answer) \in Nat /\ (memory.seq # -1 => UpTo(file, memory.seq))
  BY DEF JournalInv, JournalTypeOK, Row
<1>1. /\ Decodes /\ Spoken(text) /\ file' = done.file /\ memory' = done.memory
      /\ row' = (IF persist THEN Persisted(done.memory) ELSE row) /\ status' = status
      /\ died' = died
  BY Zenon DEF Delta
<1>2. text \in Text /\ text # NoText
  BY <1>0, <1>1, NextTextTyped
<1>3. Len(answer') = Len(answer) + 1
  BY <1>0, <1>1 DEF Spoken
<1> HIDE DEF text
<1>4. m \in Memory /\ m.seq = memory.seq /\ m.noted = memory.noted
      /\ m.truncated = memory.truncated
  BY <1>0, <1>1, <1>2, SpokenTyped
<1>5. Header + w \in Nat
  BY Sizes
<1> HIDE DEF m
<1>6. Recording(file, m, "event", text, Header + w)
  BY <1>0, <1>2, <1>4, <1>5 DEF Recording, Kinds
<1>7. row'.failed = row.failed /\ (row.truncated => row'.truncated)
  BY <1>0, <1>1 DEF Persisted, Row
<1>8. /\ Whole(file) /\ (memory.noted => memory.truncated)
      /\ memory.truncated => row.truncated \/ WarnedIn(file) \/ ~Fits(file, WarningSize)
      /\ Told \/ died \/ Len(answer) <= Cardinality(SpokenIn(file))
  BY <1>7 DEF BudgetInv
<1>9. /\ Whole(done.file) /\ (done.memory.noted => done.memory.truncated)
      /\ (m.truncated => done.memory.truncated) /\ (WarnedIn(file) => WarnedIn(done.file))
      /\ (Fits(done.file, WarningSize) => Fits(file, WarningSize))
      /\ done.memory.truncated =>
           m.truncated \/ WarnedIn(done.file) \/ ~Fits(done.file, WarningSize)
      /\ Cardinality(SpokenIn(done.file)) \in Nat /\ Cardinality(SpokenIn(file)) \in Nat
      /\ done.memory.truncated
         \/ Cardinality(SpokenIn(done.file)) = Cardinality(SpokenIn(file)) + 1
  BY <1>2, <1>4, <1>6, <1>8, RecordedAnnounces
<1> HIDE DEF done
<1>10. status' = "running"
  BY <1>1 DEF Decodes
<1>11. memory'.truncated =>
         row'.truncated \/ WarnedIn(file') \/ (status' = "running" /\ ~Fits(file', WarningSize))
  BY <1>1, <1>4, <1>7, <1>8, <1>9, <1>10
<1>12. Told => Told'
  BY <1>1, <1>4, <1>7, <1>9 DEF Told
<1>13. Told' \/ died' \/ Len(answer') <= Cardinality(SpokenIn(file'))
  BY <1>0, <1>1, <1>3, <1>8, <1>9, <1>12 DEF Told
<1> QED BY <1>1, <1>9, <1>11, <1>13 DEF BudgetInv

\* Every step keeps what is known of the budget.
LEMMA StepKeepsBudget ==
  ASSUME JournalInv, BudgetInv, JournalStep
  PROVE  BudgetInv'
<1>0. memory \in Memory /\ row \in Row
  BY DEF JournalInv, JournalTypeOK, Memory, Row
<1>1. ASSUME NEW recorded \in BOOLEAN, Launch(recorded) PROVE BudgetInv'
  <2> DEFINE m == [memory EXCEPT !.decoding = TRUE]
  <2>1. m \in Memory /\ m.seq = memory.seq /\ m.noted = memory.noted
        /\ m.truncated = memory.truncated
    BY <1>0 DEF Memory
  <2>2. status = "queued" /\ Record("event", Header, m, recorded)
        /\ answer' = answer /\ died' = died
    BY <1>1 DEF Launch
  <2> HIDE DEF m
  <2> QED BY <2>1, <2>2, RecordBudget, Sizes DEF Kinds
<1>2. ASSUME NEW recorded \in BOOLEAN, Finish(recorded) PROVE BudgetInv'
  <2>1. Record("terminal", TerminalSize, memory, recorded) /\ answer' = answer /\ died' = died
    BY <1>2 DEF Finish
  <2> QED BY <2>1, <1>0, RecordBudget, Sizes DEF Kinds
<1>3. ASSUME NEW w \in Widths, NEW torn \in BOOLEAN, NEW garbled \in BOOLEAN,
             NEW warned \in BOOLEAN, NormalizationFails(w, torn, garbled, warned)
      PROVE  BudgetInv'
  <2>1. row'.failed
    <3> DEFINE seq == KnownSeq(file, memory) + 1
               left == IF torn THEN Append(file, TornOf(file, memory, NextText(w), garbled)) ELSE file
               m == [CutBy(NextText(w)) EXCEPT !.seq = seq, !.decoding = FALSE]
               done == Recorded(left, m, "event", NoText, Header)
    <3>1. row' = [(IF warned THEN Persisted(done.memory) ELSE row) EXCEPT !.failed = TRUE]
      BY <1>3, Zenon DEF NormalizationFails, TornOf
    <3> HIDE DEF done
    <3>2. [row EXCEPT !.failed = TRUE].failed
      BY <1>0 DEF Row
    <3>3. [Persisted(done.memory) EXCEPT !.failed = TRUE].failed
      BY <1>0 DEF Row, Persisted
    <3> QED BY <3>1, <3>2, <3>3
  <2> QED BY <2>1 DEF BudgetInv
<1>4. ASSUME NEW recorded \in BOOLEAN, CancelQueued(recorded) PROVE BudgetInv'
  <2>1. memory' = Forgotten /\ answer' = answer /\ died' = died
    BY <1>4 DEF JournalInv, QueuedIsNew, CancelQueued
  <2> QED BY <2>1, <1>4, TerminalBudget DEF CancelQueued
<1>5. ASSUME UNCHANGED <<file, row>>, memory' = Forgotten,
             \/ status # "running" /\ UNCHANGED <<answer, died>>
             \/ died'
      PROVE  BudgetInv'
  <2>1. ~memory'.noted /\ ~memory'.truncated
    BY <1>5 DEF Forgotten
  <2>2. Whole(file)' = Whole(file) /\ WarnedIn(file)' = WarnedIn(file)
        /\ SpokenIn(file)' = SpokenIn(file)
    BY <1>5
  <2> QED BY <2>1, <2>2, <1>5 DEF BudgetInv, Told
<1>6. ASSUME Forget PROVE BudgetInv'
  BY <1>5, <1>6 DEF Forget, Ended
<1>7. ASSUME NEW recorded \in BOOLEAN, Restart(recorded) PROVE BudgetInv'
  <2>1. memory' = Forgotten /\ ((answer' = answer /\ died' = died) \/ died')
    BY <1>7 DEF Restart
  <2>2. CASE status = "running"
    BY <2>1, <2>2, <1>7, TerminalBudget DEF Restart
  <2>3. CASE status # "running"
    <3>1. UNCHANGED <<file, row, answer, died>>
      BY <2>3, <1>7 DEF Restart, Decodes
    <3> QED BY <2>1, <2>3, <3>1, <1>5
  <2> QED BY <2>2, <2>3
<1>9. ASSUME NEW verdict \in Ended, DiesEnding(verdict) PROVE BudgetInv'
  <2>1. UNCHANGED <<file, row>> /\ memory' = Forgotten /\ died'
    BY <1>9 DEF DiesEnding
  <2> QED BY <2>1, <1>5
<1>8. ASSUME Stands PROVE BudgetInv'
  BY <1>8 DEF Stands, BudgetInv, Told
<1> QED BY <1>1, <1>2, <1>3, <1>4, <1>6, <1>7, <1>8, <1>9, DeltaBudget DEF JournalStep

\* No text is dropped for the budget without a trace that outlives the daemon's
\* memory of it: the row says it, a warning does, or job_terminal will not fit
\* either and makes the row say it.  Only a daemon that died between the commit of a
\* verdict and that of its record, or within the record of a text, may leave none.
THEOREM DropsAreAnnounced == Spec => []DropIsAnnounced
<1>1. Init => BudgetInv
  <2> SUFFICES ASSUME Init PROVE BudgetInv
    OBVIOUS
  <2>1. file = <<>> /\ answer = <<>> /\ memory = Forgotten
    BY DEF Init, JournalInit
  <2>2. SpokenIn(file) = {} /\ Whole(file) /\ Len(answer) = 0
    BY <2>1 DEF SpokenIn, Whole
  <2>3. Cardinality(SpokenIn(file)) = 0
    BY <2>2, FS_EmptySet
  <2> QED BY <2>1, <2>2, <2>3 DEF BudgetInv, Forgotten
<1>2. JournalInv /\ BudgetInv /\ [Next]_vars => BudgetInv'
  BY NextIsJournalStep, StepKeepsBudget
<1>3. JournalInv /\ BudgetInv => DropIsAnnounced
  <2> SUFFICES ASSUME JournalInv, BudgetInv, ~row.failed, ~died,
                      Len(answer) > Cardinality(SpokenIn(file))
               PROVE  Told
    BY DEF DropIsAnnounced, Told, WarnedIn, SpokenIn
  <2>1. file \in Seq(Chunk) /\ Len(answer) \in Nat
    BY DEF JournalInv, JournalTypeOK
  <2>2. PICK c \in Chunk : TRUE
    BY SomeChunk
  <2>3. Cardinality(SpokenIn(file)) \in Nat
    BY <2>1, SpokenAppend
  <2> QED BY <2>1, <2>3 DEF BudgetInv
<1> QED BY JournalInvHolds, <1>1, <1>2, <1>3, PTL DEF Spec
-----------------------------------------------------------------------------
(* Pages of the journal.                                                   *)

\* Answers that end a sequence end it as a suffix.
LEMMA SuffixOfConcat ==
  ASSUME NEW S, NEW a \in Seq(S), NEW b \in Seq(S)
  PROVE  IsSuffix(b, a \o b)
<1> DEFINE t == a \o b
           x == Reverse(b)
           y == Reverse(t)
<1>1. /\ t \in Seq(S) /\ Len(t) = Len(a) + Len(b) /\ Len(a) \in Nat /\ Len(b) \in Nat
      /\ \A i \in 1..Len(b) : t[Len(a) + i] = b[i]
  OBVIOUS
<1> HIDE DEF t
<1>2. x \in Seq(S) /\ Len(x) = Len(b) /\ \A i \in 1..Len(b) : x[i] = b[Len(b) - i + 1]
  BY <1>1 DEF Reverse
<1>3. y \in Seq(S) /\ Len(y) = Len(t) /\ \A i \in 1..Len(t) : y[i] = t[Len(t) - i + 1]
  BY <1>1 DEF Reverse
<1> HIDE DEF x, y
<1>4. ASSUME NEW i \in 1..Len(b) PROVE x[i] = y[i]
  <2>1. i \in 1..Len(t) /\ Len(b) - i + 1 \in 1..Len(b)
        /\ Len(t) - i + 1 = Len(a) + (Len(b) - i + 1)
    BY <1>1
  <2> QED BY <2>1, <1>1, <1>2, <1>3
<1>5. Len(x) <= Len(y) /\ Len(x) \in Nat /\ Len(y) \in Nat
  <2>1. Len(x) = Len(b) /\ Len(y) = Len(a) + Len(b)
    BY <1>1, <1>2, <1>3
  <2> QED BY <2>1, <1>1
<1>6. SubSeq(x, 1, Len(x)) = SubSeq(y, 1, Len(x))
  <2>1. SubSeq(x, 1, Len(x)) = [i \in 1..Len(b) |-> x[i]]
    BY <1>1, <1>2
  <2>2. SubSeq(y, 1, Len(x)) = [i \in 1..Len(b) |-> y[i]]
    BY <1>1, <1>2, <1>3
  <2> QED BY <2>1, <2>2, <1>4
<1> QED BY <1>5, <1>6 DEF IsSuffix, IsPrefix, x, y, t

\* A page ends behind its cursor, within the journal.
LEMMA PageEndBounds ==
  ASSUME file \in Seq(Chunk), NEW cursor \in 0..Len(file), NEW max
  PROVE  PageEnd(cursor, max) \in cursor..Len(file)
<1> DEFINE Full(e) == EndsLine(e) /\ Bytes(SubSeq(file, cursor + 1, e)) >= max
           Stop(e) == e = Len(file) \/ (e > cursor /\ Full(e))
           S == {e \in cursor..Len(file) : Stop(e)}
           End(e) == Stop(e) /\ \A d \in cursor + 1..e - 1 : ~Full(d)
<1>1. PageEnd(cursor, max) = CHOOSE e \in cursor..Len(file) : End(e)
  BY DEF PageEnd
<1>0. Len(file) \in Nat /\ cursor \in Nat /\ cursor <= Len(file)
  OBVIOUS
<1> HIDE DEF Full
<1>2. PICK n \in S : \A m \in S : n <= m
  <2>1. S \in SUBSET Nat
    BY <1>0
  <2>2. Len(file) \in S
    BY <1>0
  <2> HIDE DEF S
  <2> QED BY <2>1, <2>2, LeastElement
<1>3. n \in cursor..Len(file) /\ Stop(n)
  OBVIOUS
<1>4. ASSUME NEW d \in cursor + 1..n - 1, Full(d) PROVE FALSE
  <2>1. d \in cursor..Len(file) /\ d > cursor /\ ~(n <= d)
    BY <1>0, <1>3
  <2>2. d \in S
    BY <2>1, <1>4
  <2> QED BY <2>1, <2>2, <1>2
<1>5. \E e \in cursor..Len(file) : End(e)
  BY <1>3, <1>4
<1> HIDE DEF End
<1> QED BY <1>1, <1>5

\* p holds what can be read between cursor and e, in order; what it holds
\* besides is made up (0), or comes after a line that was cut.
PageIs(f, p, cursor, e) ==
  /\ p \in Seq(Nat)
  /\ \A i \in DOMAIN p : p[i] # 0 => p[i] \in cursor + 1..e
  /\ \A i, j \in DOMAIN p : i < j /\ p[i] # 0 /\ p[j] # 0 => p[i] < p[j]
  /\ \A d \in cursor + 1..e : Intact(f, d) => \E i \in DOMAIN p : p[i] = d

\* One more record of a page
LEMMA PageAppend ==
  ASSUME NEW p, NEW cursor \in Nat, NEW e \in Nat, cursor < e, PageIs(file, p, cursor, e - 1),
         NEW x \in {0, e}, x = 0 => ~Intact(file, e)
  PROVE  PageIs(file, Append(p, x), cursor, e)
<1> DEFINE q == Append(p, x)
<1>1. /\ p \in Seq(Nat) /\ q \in Seq(Nat) /\ Len(p) \in Nat
      /\ DOMAIN q = 1..Len(p) + 1 /\ DOMAIN p = 1..Len(p)
      /\ q[Len(p) + 1] = x /\ \A i \in 1..Len(p) : q[i] = p[i]
  BY DEF PageIs
<1> HIDE DEF q
<1>2. \A i \in DOMAIN q : i \in DOMAIN p \/ i = Len(p) + 1
  BY <1>1
<1>3. \A i \in DOMAIN p : p[i] \in Nat /\ (p[i] # 0 => p[i] \in cursor + 1..e - 1)
  BY DEF PageIs
<1>4. ASSUME NEW i \in DOMAIN q, q[i] # 0 PROVE q[i] \in cursor + 1..e
  <2>1. CASE i \in DOMAIN p
    <3>1. p[i] \in cursor + 1..e - 1
      BY <2>1, <1>1, <1>3, <1>4
    <3>2. \A d \in cursor + 1..e - 1 : d \in cursor + 1..e
      OBVIOUS
    <3> QED BY <3>1, <3>2, <2>1, <1>1
  <2>2. CASE i = Len(p) + 1
    BY <2>2, <1>1, <1>4
  <2> QED BY <2>1, <2>2, <1>2
<1>5. ASSUME NEW i \in DOMAIN q, NEW j \in DOMAIN q, i < j, q[i] # 0, q[j] # 0
      PROVE  q[i] < q[j]
  <2>1. i \in DOMAIN p /\ q[i] = p[i]
    BY <1>1, <1>2, <1>5
  <2>2. CASE j \in DOMAIN p
    BY <2>1, <2>2, <1>1, <1>5 DEF PageIs
  <2>3. CASE j = Len(p) + 1
    BY <2>1, <2>3, <1>1, <1>3, <1>5
  <2> QED BY <2>2, <2>3, <1>2
<1>6. ASSUME NEW d \in cursor + 1..e, Intact(file, d) PROVE \E i \in DOMAIN q : q[i] = d
  <2>1. CASE d = e
    <3>1. Len(p) + 1 \in DOMAIN q /\ q[Len(p) + 1] = d
      BY <2>1, <1>1, <1>6
    <3> QED BY <3>1
  <2>2. CASE d # e
    <3>1. d \in cursor + 1..e - 1
      BY <2>2
    <3>2. PICK i \in DOMAIN p : p[i] = d
      BY <3>1, <1>6 DEF PageIs
    <3>3. i \in DOMAIN q /\ q[i] = d
      BY <3>2, <1>1
    <3> QED BY <3>3
  <2> QED BY <2>1, <2>2
<1> QED BY <1>1, <1>4, <1>5, <1>6 DEF PageIs, q

\* What _read_events returns
LEMMA PageContents ==
  ASSUME file \in Seq(Chunk), NEW cursor \in 0..Len(file), NEW max
  PROVE  PageIs(file, Page(cursor, max), cursor, PageEnd(cursor, max))
<1> DEFINE E == PageEnd(cursor, max)
           Event(e) == IF file[e].ended /\ (e = cursor + 1 \/ file[e - 1].ended) THEN e ELSE 0
           upTo[e \in cursor..E] ==
             IF e = cursor THEN <<>>
             ELSE IF EndsLine(e) THEN Append(upTo[e - 1], Event(e)) ELSE upTo[e - 1]
           Computes(g) == g = [e \in cursor..E |->
             IF e = cursor THEN <<>>
             ELSE IF EndsLine(e) THEN Append(g[e - 1], Event(e)) ELSE g[e - 1]]
           step == [e \in cursor + 1..E |->
             [s \in Seq(Nat) |-> IF EndsLine(e) THEN Append(s, Event(e)) ELSE s]]
<1>1. Page(cursor, max) = upTo[E]
  BY DEF Page
<1>2. cursor \in Nat /\ E \in Nat /\ cursor <= E /\ E <= Len(file) /\ Len(file) \in Nat
  BY PageEndBounds
<1> HIDE DEF E
<1>3. PICK g : Iterates(g, Seq(Nat), <<>>, step, cursor, E)
  <2>1. Step(step, Seq(Nat), cursor, E)
    <3>1. \A e \in cursor + 1..E : Event(e) \in Nat
      BY <1>2
    <3> HIDE DEF Event
    <3> QED BY <3>1 DEF Step
  <2>2. <<>> \in Seq(Nat)
    OBVIOUS
  <2> HIDE DEF step
  <2> QED BY <2>1, <2>2, <1>2, RecursiveFunction
<1> HIDE DEF Event
<1>4. Computes(g)
  <2>1. g \in [cursor..E -> Seq(Nat)] /\ g[cursor] = <<>>
        /\ \A e \in cursor + 1..E : g[e] = step[e][g[e - 1]]
    BY <1>3 DEF Iterates
  <2>2. ASSUME NEW e \in cursor + 1..E
        PROVE  g[e] = IF EndsLine(e) THEN Append(g[e - 1], Event(e)) ELSE g[e - 1]
    <3>1. e - 1 \in cursor..E
      BY <1>2
    <3>2. g[e - 1] \in Seq(Nat) /\ g[e] = step[e][g[e - 1]]
      BY <2>1, <3>1
    <3> QED BY <3>2
  <2>3. \A e \in cursor..E : e = cursor \/ e \in cursor + 1..E
    BY <1>2
  <2> HIDE DEF step
  <2>4. \A e \in cursor..E : g[e] =
          IF e = cursor THEN <<>>
          ELSE IF EndsLine(e) THEN Append(g[e - 1], Event(e)) ELSE g[e - 1]
    BY <2>1, <2>2, <2>3
  <2>5. g = [e \in cursor..E |-> g[e]]
    BY <2>1
  <2> QED BY <2>4, <2>5
<1>5. Computes(upTo)
  BY <1>4, Zenon
<1> HIDE DEF upTo
<1>6. upTo[cursor] = <<>> /\ \A e \in cursor + 1..E :
        upTo[e] = IF EndsLine(e) THEN Append(upTo[e - 1], Event(e)) ELSE upTo[e - 1]
  <2>1. cursor \in cursor..E /\ \A e \in cursor + 1..E : e \in cursor..E /\ e # cursor
    BY <1>2
  <2>2. \A e \in cursor..E : upTo[e] =
          IF e = cursor THEN <<>>
          ELSE IF EndsLine(e) THEN Append(upTo[e - 1], Event(e)) ELSE upTo[e - 1]
    BY <1>5
  <2> QED BY <2>1, <2>2
<1> DEFINE K == {k \in Nat : cursor + k <= E => PageIs(file, upTo[cursor + k], cursor, cursor + k)}
<1>7. 0 \in K
  <2>1. cursor + 0 = cursor
    BY <1>2
  <2>2. PageIs(file, <<>>, cursor, cursor)
    BY <1>2 DEF PageIs
  <2> QED BY <2>1, <2>2, <1>6
<1>8. ASSUME NEW k \in Nat, k \in K PROVE k + 1 \in K
  <2> SUFFICES ASSUME cursor + (k + 1) <= E
               PROVE  PageIs(file, upTo[cursor + (k + 1)], cursor, cursor + (k + 1))
    OBVIOUS
  <2> DEFINE e == cursor + (k + 1)
             p == upTo[e - 1]
  <2>1. e \in cursor + 1..E /\ e \in Nat /\ cursor < e /\ e - 1 = cursor + k
        /\ e \in DOMAIN file
    BY <1>2
  <2>2. PageIs(file, p, cursor, e - 1)
    BY <1>8, <1>2, <2>1
  <2>3. upTo[e] = IF EndsLine(e) THEN Append(p, Event(e)) ELSE p
    BY <1>6, <2>1
  <2> HIDE DEF e, p
  <2>4. Event(e) \in {0, e} /\ (Event(e) = 0 => ~Intact(file, e))
    <3>1. Intact(file, e) => file[e].ended /\ (e = cursor + 1 \/ file[e - 1].ended)
      BY <2>1, <1>2 DEF Intact
    <3> QED BY <3>1, <2>1 DEF Event
  <2>5. CASE EndsLine(e)
    <3>1. PageIs(file, Append(p, Event(e)), cursor, e)
      BY <2>1, <2>2, <2>4, <1>2, PageAppend
    <3> QED BY <3>1, <2>3, <2>5 DEF e
  <2>6. CASE ~EndsLine(e)
    <3>1. ~Intact(file, e)
      BY <2>6 DEF EndsLine, Intact
    <3>2. \A d \in cursor + 1..e : d = e \/ d \in cursor + 1..e - 1
      BY <2>1, <1>2
    <3>3. \A d \in cursor + 1..e - 1 : d \in cursor + 1..e
      BY <2>1, <1>2
    <3>4. PageIs(file, p, cursor, e)
      BY <2>2, <3>1, <3>2, <3>3 DEF PageIs
    <3> QED BY <3>4, <2>3, <2>6 DEF e
  <2> QED BY <2>5, <2>6
<1>9. K = Nat
  <2>1. K \in SUBSET Nat
    OBVIOUS
  <2> HIDE DEF K
  <2> QED BY <1>7, <1>8, <2>1, SetInduction
<1>10. E - cursor \in Nat /\ cursor + (E - cursor) = E
  BY <1>2
<1>11. PageIs(file, upTo[E], cursor, E)
  <2>1. E - cursor \in K
    BY <1>9, <1>10
  <2>2. cursor + (E - cursor) <= E
    BY <1>2, <1>10
  <2>3. PageIs(file, upTo[cursor + (E - cursor)], cursor, cursor + (E - cursor))
    BY <2>1, <2>2
  <2> QED BY <2>3, <1>10
<1> QED BY <1>1, <1>11 DEF E

\* The texts of a page are texts.
LEMMA TextsTyped ==
  ASSUME file \in Seq(Chunk), NEW page \in Seq(Nat),
         \A i \in DOMAIN page : page[i] # 0 => page[i] \in DOMAIN file
  PROVE  Texts(page) \in Seq(Text)
<1> DEFINE Speaks(e) == e # 0 /\ file[e].text # NoText
           upTo[n \in 0..Len(page)] ==
             IF n = 0 THEN <<>>
             ELSE IF Speaks(page[n]) THEN Append(upTo[n - 1], file[page[n]].text) ELSE upTo[n - 1]
           Computes(g) == g = [n \in 0..Len(page) |->
             IF n = 0 THEN <<>>
             ELSE IF Speaks(page[n]) THEN Append(g[n - 1], file[page[n]].text) ELSE g[n - 1]]
           step == [n \in 1..Len(page) |->
             [s \in Seq(Text) |->
               IF Speaks(page[n]) THEN Append(s, file[page[n]].text) ELSE s]]
<1>1. Texts(page) = upTo[Len(page)]
  BY DEF Texts
<1>2. ASSUME NEW n \in 1..Len(page), Speaks(page[n]) PROVE file[page[n]].text \in Text
  <2>1. file[page[n]] \in Chunk
    BY <1>2
  <2> QED BY <2>1, <1>2 DEF Chunk
<1>0. Len(page) \in Nat /\ 0 \in Nat /\ 0 <= Len(page) /\ <<>> \in Seq(Text)
  OBVIOUS
<1> HIDE DEF Speaks
<1>3. PICK g : Iterates(g, Seq(Text), <<>>, step, 0, Len(page))
  <2>1. Step(step, Seq(Text), 0, Len(page))
    <3>1. ASSUME NEW n \in 1..Len(page) PROVE step[n] \in [Seq(Text) -> Seq(Text)]
      BY <1>2
    <3> QED BY <3>1 DEF Step
  <2> HIDE DEF step
  <2> QED BY <2>1, <1>0, RecursiveFunction, Zenon
<1>4. g \in [0..Len(page) -> Seq(Text)] /\ g[0] = <<>>
      /\ \A n \in 1..Len(page) : g[n] = step[n][g[n - 1]]
  BY <1>3 DEF Iterates
<1>5. ASSUME NEW n \in 1..Len(page)
      PROVE  g[n] = IF Speaks(page[n]) THEN Append(g[n - 1], file[page[n]].text) ELSE g[n - 1]
  <2>1. n - 1 \in 0..Len(page)
    OBVIOUS
  <2>2. g[n - 1] \in Seq(Text) /\ g[n] = step[n][g[n - 1]]
    BY <2>1, <1>4
  <2> QED BY <2>2
<1> HIDE DEF step
<1>6. Computes(g)
  <2>1. \A n \in 0..Len(page) : n = 0 \/ n \in 1..Len(page)
    OBVIOUS
  <2>2. \A n \in 0..Len(page) : g[n] =
          IF n = 0 THEN <<>>
          ELSE IF Speaks(page[n]) THEN Append(g[n - 1], file[page[n]].text) ELSE g[n - 1]
    BY <2>1, <1>4, <1>5
  <2>3. g = [n \in 0..Len(page) |-> g[n]]
    BY <1>4
  <2> QED BY <2>2, <2>3
<1>7. Computes(upTo)
  BY <1>6, Zenon
<1> HIDE DEF upTo
<1>8. upTo[0] = <<>> /\ \A n \in 1..Len(page) :
        upTo[n] = IF Speaks(page[n]) THEN Append(upTo[n - 1], file[page[n]].text) ELSE upTo[n - 1]
  <2>1. 0 \in 0..Len(page) /\ \A n \in 1..Len(page) : n \in 0..Len(page) /\ n # 0
    OBVIOUS
  <2>2. \A n \in 0..Len(page) : upTo[n] =
          IF n = 0 THEN <<>>
          ELSE IF Speaks(page[n]) THEN Append(upTo[n - 1], file[page[n]].text) ELSE upTo[n - 1]
    BY <1>7
  <2> QED BY <2>1, <2>2
<1> DEFINE K == {n \in Nat : n <= Len(page) => upTo[n] \in Seq(Text)}
<1>9. 0 \in K
  BY <1>8, <1>0
<1>10. ASSUME NEW n \in Nat, n \in K PROVE n + 1 \in K
  <2> SUFFICES ASSUME n + 1 <= Len(page) PROVE upTo[n + 1] \in Seq(Text)
    OBVIOUS
  <2>1. n + 1 \in 1..Len(page) /\ (n + 1) - 1 = n
    BY <1>0
  <2>2. upTo[n] \in Seq(Text)
    BY <1>10, <1>0
  <2>3. upTo[n + 1] = IF Speaks(page[n + 1]) THEN Append(upTo[n], file[page[n + 1]].text)
                      ELSE upTo[n]
    BY <2>1, <1>8
  <2> QED BY <2>1, <2>2, <2>3, <1>2
<1>11. K = Nat
  <2>1. K \in SUBSET Nat
    OBVIOUS
  <2> HIDE DEF K
  <2> QED BY <1>9, <1>10, <2>1, SetInduction
<1>12. upTo[Len(page)] \in Seq(Text)
  <2>1. Len(page) \in K /\ Len(page) <= Len(page)
    BY <1>0, <1>11
  <2> QED BY <2>1
<1> QED BY <1>1, <1>12
-----------------------------------------------------------------------------
(* What a read gives its reader.                                           *)

ReaderState ==
  [stage : Stage, page : Pages \cup {0}, cursor : Nat, got : Seq(Nat),
   seen : Status \X BOOLEAN \X Nat, attached : BOOLEAN, woken : BOOLEAN, printed : Seq(Text)]

\* A reader whose cursor is in the journal and that has all there is before it
UpToDate(f, x) == x.cursor \in 0..Len(f) /\ PageIs(f, x.got, 0, x.cursor)

\* A page goes on where the last one ended.
LEMMA PagesConcat ==
  ASSUME NEW p, NEW q, NEW c \in Nat, NEW e \in Nat, c <= e, PageIs(file, p, 0, c), PageIs(file, q, c, e)
  PROVE  PageIs(file, p \o q, 0, e)
<1> DEFINE t == p \o q
<1>1. p \in Seq(Nat) /\ q \in Seq(Nat)
  BY DEF PageIs
<1>2. /\ t \in Seq(Nat) /\ Len(p) \in Nat /\ Len(q) \in Nat
      /\ DOMAIN p = 1..Len(p) /\ DOMAIN q = 1..Len(q) /\ DOMAIN t = 1..Len(p) + Len(q)
      /\ \A i \in 1..Len(p) : t[i] = p[i]
      /\ \A i \in 1..Len(q) : t[Len(p) + i] = q[i]
  BY <1>1
<1> HIDE DEF t
<1>3. ASSUME NEW i \in DOMAIN t
      PROVE  \/ i \in DOMAIN p /\ t[i] = p[i]
             \/ i > Len(p) /\ i - Len(p) \in DOMAIN q /\ t[i] = q[i - Len(p)]
  <2>1. i \in 1..Len(p) \/ (i - Len(p) \in 1..Len(q) /\ i = Len(p) + (i - Len(p)) /\ i > Len(p))
    BY <1>2
  <2> QED BY <2>1, <1>2
<1>4. /\ \A i \in DOMAIN p : p[i] \in Nat /\ (p[i] # 0 => p[i] \in 1..c)
      /\ \A i \in DOMAIN q : q[i] \in Nat /\ (q[i] # 0 => q[i] \in c + 1..e)
  BY <1>1 DEF PageIs
<1>5. ASSUME NEW i \in DOMAIN t, t[i] # 0 PROVE t[i] \in 1..e
  BY <1>3, <1>4, <1>5
<1>6. ASSUME NEW i \in DOMAIN t, NEW j \in DOMAIN t, i < j, t[i] # 0, t[j] # 0
      PROVE  t[i] < t[j]
  <2>1. CASE i \in DOMAIN p /\ t[i] = p[i] /\ j \in DOMAIN p /\ t[j] = p[j]
    BY <2>1, <1>6 DEF PageIs
  <2>2. CASE /\ i \in DOMAIN p /\ t[i] = p[i]
             /\ j > Len(p) /\ j - Len(p) \in DOMAIN q /\ t[j] = q[j - Len(p)]
    <3>1. t[i] \in 1..c /\ t[j] \in c + 1..e
      BY <2>2, <1>4, <1>6
    <3> QED BY <3>1
  <2>3. CASE /\ i > Len(p) /\ i - Len(p) \in DOMAIN q /\ t[i] = q[i - Len(p)]
             /\ j > Len(p) /\ j - Len(p) \in DOMAIN q /\ t[j] = q[j - Len(p)]
    <3>1. i - Len(p) < j - Len(p)
      BY <1>2, <1>6
    <3> QED BY <3>1, <2>3, <1>6 DEF PageIs
  <2>4. ~(i > Len(p) /\ j \in DOMAIN p)
    BY <1>2, <1>6
  <2> QED BY <2>1, <2>2, <2>3, <2>4, <1>3
<1>7. ASSUME NEW d \in 1..e, Intact(file, d) PROVE \E i \in DOMAIN t : t[i] = d
  <2>1. CASE d \in 1..c
    <3>1. PICK i \in DOMAIN p : p[i] = d
      BY <2>1, <1>7 DEF PageIs
    <3>2. i \in DOMAIN t /\ t[i] = d
      BY <3>1, <1>2
    <3> QED BY <3>2
  <2>2. CASE d \in c + 1..e
    <3>1. PICK i \in DOMAIN q : q[i] = d
      BY <2>2, <1>7 DEF PageIs
    <3>2. Len(p) + i \in DOMAIN t /\ t[Len(p) + i] = d
      BY <3>1, <1>2
    <3> QED BY <3>2
  <2> QED BY <2>1, <2>2
<1>8. \A d \in 0 + 1..e : d \in 1..e
  OBVIOUS
<1>9. \A d \in 1..e : d \in 0 + 1..e
  OBVIOUS
<1>10. PageIs(file, t, 0, e)
  BY <1>2, <1>5, <1>6, <1>7, <1>8, <1>9 DEF PageIs
<1> QED BY <1>10 DEF t

\* What was read stays read when the journal goes on.
LEMMA StaysUpToDate ==
  ASSUME NEW f \in Seq(Chunk), NEW g \in Seq(Chunk), Continues(f, g),
         NEW x, UpToDate(f, x), NEW y, y.cursor = x.cursor, y.got = x.got
  PROVE  UpToDate(g, y)
<1>1. /\ Len(f) \in Nat /\ Len(g) \in Nat /\ Len(f) <= Len(g)
      /\ DOMAIN f = 1..Len(f) /\ \A i \in 1..Len(f) : g[i] = f[i]
  BY DEF Continues
<1>2. x.cursor \in 0..Len(f) /\ PageIs(f, x.got, 0, x.cursor)
  BY DEF UpToDate
<1>3. ASSUME NEW d \in 0 + 1..x.cursor PROVE Intact(g, d) = Intact(f, d)
  <2>1. d \in 1..Len(f) /\ (d = 1 \/ d - 1 \in 1..Len(f))
    BY <1>1, <1>2
  <2> QED BY <2>1, <1>1 DEF Intact
<1>4. PageIs(g, x.got, 0, x.cursor)
  BY <1>2, <1>3 DEF PageIs
<1> QED BY <1>1, <1>2, <1>4 DEF UpToDate

\* The rest of the partial response completes what was printed.
LEMMA RemainderCompletes ==
  ASSUME partial \in Seq(Text), NEW emitted \in Seq(Text)
  PROVE  /\ emitted \o Remainder(emitted) \in Seq(Text)
         /\ IsSuffix(partial, emitted \o Remainder(emitted))
<1>1. CASE IsPrefix(emitted, partial)
  <2> DEFINE rest == SubSeq(partial, Len(emitted) + 1, Len(partial))
             n == Len(emitted)
  <2>1. n \in Nat /\ n <= Len(partial) /\ SubSeq(emitted, 1, n) = SubSeq(partial, 1, n)
        /\ Len(partial) \in Nat
    BY <1>1 DEF IsPrefix
  <2>2. \A i \in 1..n : emitted[i] = partial[i]
    <3>1. \A i \in 1..n : SubSeq(emitted, 1, n)[i] = emitted[i]
      BY <2>1
    <3>2. \A i \in 1..n : SubSeq(partial, 1, n)[i] = partial[i]
      BY <2>1
    <3> QED BY <3>1, <3>2, <2>1
  <2>3. rest \in Seq(Text) /\ Len(rest) = Len(partial) - n
        /\ \A i \in 1..Len(partial) - n : rest[i] = partial[n + i]
    BY <2>1
  <2> HIDE DEF rest
  <2>4. emitted \o rest \in Seq(Text) /\ Len(emitted \o rest) = Len(partial)
    BY <2>1, <2>3
  <2>5. ASSUME NEW i \in 1..Len(partial) PROVE (emitted \o rest)[i] = partial[i]
    <3>1. CASE i <= n
      BY <3>1, <2>1, <2>2, <2>3
    <3>2. CASE i > n
      <4>1. i - n \in 1..Len(rest) /\ i = n + (i - n)
        BY <3>2, <2>1, <2>3
      <4>2. (emitted \o rest)[i] = rest[i - n]
        BY <4>1, <3>2, <2>1, <2>3
      <4> QED BY <4>1, <4>2, <2>3
    <3>3. n \in Nat
      BY <2>1
    <3> HIDE DEF n
    <3>4. i <= n \/ i > n
      BY <3>3
    <3> QED BY <3>1, <3>2, <3>4
  <2>6. emitted \o rest = partial
    <3> DEFINE whole == emitted \o rest
    <3>1. whole \in Seq(Text) /\ Len(whole) = Len(partial)
      BY <2>4
    <3>2. \A i \in 1..Len(partial) : whole[i] = partial[i]
      BY <2>5
    <3> HIDE DEF whole
    <3>3. whole = partial
      BY <3>1, <3>2
    <3> QED BY <3>3 DEF whole
  <2>7. IsSuffix(partial, <<>> \o partial) /\ <<>> \o partial = partial
    <3>1. <<>> \in Seq(Text)
      OBVIOUS
    <3>2. IsSuffix(partial, <<>> \o partial)
      BY <3>1, SuffixOfConcat
    <3> QED BY <3>2
  <2>8. Remainder(emitted) = rest
    BY <1>1 DEF Remainder, rest
  <2> QED BY <2>6, <2>7, <2>8
<1>2. CASE ~IsPrefix(emitted, partial)
  <2>1. Remainder(emitted) = partial
    BY <1>2 DEF Remainder
  <2> QED BY <2>1, SuffixOfConcat
<1> QED BY <1>1, <1>2

\* A read of the events
LEMMA FollowedKept ==
  ASSUME JournalTypeOK, NEW x \in ReaderState, UpToDate(file, x), NEW y, y = Followed(x)
  PROVE  /\ y \in ReaderState /\ UpToDate(file, y)
         /\ y.stage = x.stage /\ y.attached = x.attached /\ y.woken = x.woken
         /\ status \in Ended /\ ~row.failed => IsSuffix(partial, y.printed)
<1> DEFINE page == Page(x.cursor, x.page)
           E == PageEnd(x.cursor, x.page)
           emitted == IF row.failed THEN x.printed ELSE x.printed \o Texts(page)
           last == IF status \in Ended /\ ~row.failed
                     THEN emitted \o Remainder(emitted) ELSE emitted
<1>1. y = [x EXCEPT !.cursor = E, !.got = @ \o page, !.printed = last]
  BY DEF Followed, NextCursor
<1>2. file \in Seq(Chunk) /\ partial \in Seq(Text) /\ row \in Row
  BY DEF JournalTypeOK, Row
<1>3. x.cursor \in 0..Len(file) /\ PageIs(file, x.got, 0, x.cursor) /\ x.got \in Seq(Nat)
      /\ x.printed \in Seq(Text)
  BY DEF UpToDate, ReaderState
<1>4. E \in x.cursor..Len(file) /\ PageIs(file, page, x.cursor, E)
  BY <1>2, <1>3, PageEndBounds, PageContents
<1> HIDE DEF page, E
<1>5. Len(file) \in Nat /\ x.cursor \in Nat /\ E \in Nat /\ x.cursor <= E /\ E \in 0..Len(file)
      /\ DOMAIN file = 1..Len(file)
  BY <1>2, <1>3, <1>4
<1>6. PageIs(file, x.got \o page, 0, E)
  BY <1>3, <1>4, <1>5, PagesConcat
<1>7. page \in Seq(Nat) /\ \A i \in DOMAIN page : page[i] # 0 => page[i] \in DOMAIN file
  BY <1>4, <1>5 DEF PageIs
<1>8. Texts(page) \in Seq(Text)
  BY <1>2, <1>7, TextsTyped
<1>9. emitted \in Seq(Text)
  BY <1>3, <1>8
<1> HIDE DEF emitted
<1>10. last \in Seq(Text) /\ (status \in Ended /\ ~row.failed => IsSuffix(partial, last))
  BY <1>2, <1>9, RemainderCompletes
<1> HIDE DEF last
<1>11. x.got \o page \in Seq(Nat)
  BY <1>3, <1>7
<1>12. /\ y.cursor = E /\ y.got = x.got \o page /\ y.printed = last
       /\ y.stage = x.stage /\ y.attached = x.attached /\ y.woken = x.woken
  BY <1>1 DEF ReaderState
<1>13. y \in ReaderState
  BY <1>1, <1>5, <1>10, <1>11 DEF ReaderState
<1>14. UpToDate(file, y)
  BY <1>5, <1>6, <1>12 DEF UpToDate
<1> QED BY <1>10, <1>12, <1>13, <1>14

\* A request that is over
LEMMA OverKept ==
  ASSUME NEW x \in ReaderState, UpToDate(file, x), NEW next \in Stage
  PROVE  LET y == Over(x, next)
         IN /\ y \in ReaderState /\ UpToDate(file, y) /\ ~y.attached /\ ~y.woken
            /\ y.stage = next /\ y.printed = x.printed /\ y.cursor = x.cursor /\ y.got = x.got
<1> DEFINE y == Over(x, next)
<1>1. NewReader.seen \in Status \X BOOLEAN \X Nat
  BY DEF NewReader, Status
<1>2. y = [x EXCEPT !.stage = next, !.page = 0, !.seen = NewReader.seen,
                    !.attached = FALSE, !.woken = FALSE]
  BY DEF Over
<1> HIDE DEF y
<1>3. /\ y \in ReaderState /\ y.cursor = x.cursor /\ y.got = x.got /\ y.printed = x.printed
      /\ y.stage = next /\ y.attached = FALSE /\ y.woken = FALSE
  BY <1>1, <1>2 DEF ReaderState
<1>4. UpToDate(file, y)
  BY <1>3 DEF UpToDate
<1> QED BY <1>3, <1>4 DEF y

\* A read that answers, or raises
LEMMA AnsweredKept ==
  ASSUME JournalTypeOK, NEW r \in Readers, NEW x \in ReaderState, UpToDate(file, x),
         NEW y, y = Answered(r, x)
  PROVE  /\ y \in ReaderState /\ UpToDate(file, y) /\ ~y.attached /\ ~y.woken
         /\ y.stage \in {"ready", "done"} /\ (y.stage = "done" => status \in Ended)
         /\ r \in Followers /\ y.stage = "done" /\ ~row.failed => IsSuffix(partial, y.printed)
<1> DEFINE z == IF r \in Followers THEN Followed(x) ELSE x
           stage == IF status \in Ended THEN "done" ELSE "ready"
<1>1. y = IF Refused(r, x) THEN Over(x, "ready") ELSE Over(z, stage)
  BY Zenon DEF Answered
<1>2. /\ z \in ReaderState /\ UpToDate(file, z)
      /\ r \in Followers /\ status \in Ended /\ ~row.failed => IsSuffix(partial, z.printed)
  BY FollowedKept
<1> HIDE DEF z
<1>3. stage \in Stage /\ stage \in {"ready", "done"} /\ (stage = "done" => status \in Ended)
      /\ "ready" \in Stage
  BY DEF Stage
<1> HIDE DEF stage
<1>4. CASE Refused(r, x)
  BY <1>1, <1>3, <1>4, OverKept
<1>5. CASE ~Refused(r, x)
  <2>1. y = Over(z, stage)
    BY <1>1, <1>5
  <2>2. /\ y \in ReaderState /\ UpToDate(file, y) /\ ~y.attached /\ ~y.woken
        /\ y.stage = stage /\ y.printed = z.printed
    BY <2>1, <1>2, <1>3, OverKept
  <2> QED BY <2>2, <1>2, <1>3
<1> QED BY <1>4, <1>5
-----------------------------------------------------------------------------
(* The steps of the readers.                                               *)

ReadersTyped ==
  /\ deferred \in BOOLEAN /\ stalled \in BOOLEAN
  /\ event \in {"none", "clear", "set"} /\ outputs \in 0..MaxOutputs
  /\ reader \in [Readers -> ReaderState]

\* Readers have what is before their cursors; those that are done have seen
\* the end, and followers have printed what was retained.
ReadersInv ==
  /\ ReadersTyped
  /\ \A r \in Readers :
       /\ UpToDate(file, reader[r])
       /\ reader[r].stage = "done" => status \in Ended
       /\ r \in Followers /\ reader[r].stage = "done" /\ ~row.failed =>
            IsSuffix(partial, reader[r].printed)

\* A reader that is suspended, and no other, is reached by the event of the
\* registry, unless the job has ended.
WakeInv ==
  /\ ~deferred => \A r \in Readers : reader[r].stage # "starting"
  /\ \A r \in Readers : reader[r].attached => event # "none" /\ Suspended(r)
  /\ \A r \in Readers : Suspended(r) /\ ~reader[r].attached => status \in Ended
  /\ NoLostWakeup

SameProgress(x, y) == y.cursor = x.cursor /\ y.got = x.got /\ y.printed = x.printed

\* A reader may change, but for its progress; or it is answered.
Flagged(x, y) == SameProgress(x, y) /\ (y.stage = "done" => x.stage = "done")
Served(r, x, y) ==
  \E z \in ReaderState :
    /\ SameProgress(x, z) /\ SameProgress(Answered(r, z), y)
    /\ y.stage = Answered(r, z).stage
ReaderMoves ==
  /\ deferred' = deferred /\ stalled' \in BOOLEAN /\ event' \in {"none", "clear", "set"}
  /\ outputs' \in 0..MaxOutputs
  /\ reader' \in [Readers -> ReaderState]
  /\ \A r \in Readers :
       \/ Flagged(reader[r], reader'[r])
       \/ UNCHANGED journalVars /\ Served(r, reader[r], reader'[r])

\* Nothing happens to a job after its end but that its memory goes.
LEMMA EndIsFinal ==
  ASSUME JournalStep, status \in Ended
  PROVE  status' = status /\ partial' = partial /\ row' = row
<1> SUFFICES ASSUME status \notin {"queued", "running"} PROVE status' = status /\ partial' = partial /\ row' = row
  BY DEF Ended
<1>1. \A recorded \in BOOLEAN : ~Launch(recorded) /\ ~Finish(recorded) /\ ~CancelQueued(recorded)
  BY DEF Launch, Finish, CancelQueued
<1>2. ~Decodes
  BY DEF Decodes
<1>3. \A w \in Widths, persist \in BOOLEAN : ~Delta(w, persist)
  BY <1>2, Zenon DEF Delta
<1>4. ASSUME NEW w \in Widths, NEW torn \in BOOLEAN, NEW garbled \in BOOLEAN, NEW warned \in BOOLEAN
      PROVE  ~NormalizationFails(w, torn, garbled, warned)
  BY <1>2, Zenon DEF NormalizationFails
<1>5. ASSUME NEW recorded \in BOOLEAN, Restart(recorded)
      PROVE  status' = status /\ partial' = partial /\ row' = row
  BY <1>2, <1>5 DEF Restart
<1>6. ASSUME NEW verdict \in Ended PROVE ~DiesEnding(verdict)
  BY DEF DiesEnding
<1>7. Forget \/ Stands => status' = status /\ partial' = partial /\ row' = row
  BY DEF Forget, Stands
<1> QED BY <1>1, <1>3, <1>4, <1>5, <1>6, <1>7 DEF JournalStep

\* The readers' invariant follows from their moves and the journal's.
LEMMA MovesKeepReaders ==
  ASSUME JournalInv, JournalInv', JournalStep, Continues(file, file'), ReadersInv, ReaderMoves
  PROVE  ReadersInv'
<1>1. ReadersTyped'
  BY DEF ReadersInv, ReadersTyped, ReaderMoves
<1>2. file \in Seq(Chunk) /\ file' \in Seq(Chunk) /\ JournalTypeOK
  BY DEF JournalInv, JournalTypeOK
<1>3. ASSUME NEW r \in Readers
      PROVE  /\ UpToDate(file', reader'[r])
             /\ reader'[r].stage = "done" => status' \in Ended
             /\ r \in Followers /\ reader'[r].stage = "done" /\ ~row'.failed =>
                  IsSuffix(partial', reader'[r].printed)
  <2>1. /\ reader[r] \in ReaderState /\ UpToDate(file, reader[r])
        /\ reader[r].stage = "done" => status \in Ended
        /\ r \in Followers /\ reader[r].stage = "done" /\ ~row.failed =>
             IsSuffix(partial, reader[r].printed)
    BY DEF ReadersInv, ReadersTyped
  <2>2. CASE Flagged(reader[r], reader'[r])
    <3>1. UpToDate(file', reader'[r])
      BY <1>2, <2>1, <2>2, StaysUpToDate DEF Flagged, SameProgress
    <3>2. reader'[r].stage = "done" =>
            /\ reader[r].stage = "done" /\ reader'[r].printed = reader[r].printed
            /\ status' = status /\ partial' = partial /\ row' = row
      BY <2>1, <2>2, EndIsFinal DEF Flagged, SameProgress
    <3> QED BY <3>1, <3>2, <2>1
  <2>3. CASE UNCHANGED journalVars /\ Served(r, reader[r], reader'[r])
    <3>1. PICK z \in ReaderState :
            /\ SameProgress(reader[r], z) /\ SameProgress(Answered(r, z), reader'[r])
            /\ reader'[r].stage = Answered(r, z).stage
      BY <2>3 DEF Served
    <3> DEFINE y == Answered(r, z)
    <3>2. status' = status /\ partial' = partial /\ row' = row /\ file' = file
      BY <2>3 DEF journalVars
    <3>3. z.cursor = reader[r].cursor /\ z.got = reader[r].got
      BY <3>1 DEF SameProgress
    <3>4. UpToDate(file, z)
      BY <3>3, <2>1 DEF UpToDate
    <3>5. /\ UpToDate(file, y) /\ (y.stage = "done" => status \in Ended)
          /\ r \in Followers /\ y.stage = "done" /\ ~row.failed => IsSuffix(partial, y.printed)
      BY <3>4, <1>2, AnsweredKept
    <3>6. reader'[r].cursor = y.cursor /\ reader'[r].got = y.got /\ reader'[r].printed = y.printed
          /\ reader'[r].stage = y.stage
      BY <3>1 DEF SameProgress
    <3> HIDE DEF y
    <3>7. UpToDate(file', reader'[r])
      BY <3>2, <3>5, <3>6 DEF UpToDate
    <3> QED BY <3>2, <3>5, <3>6, <3>7
  <2> QED BY <2>2, <2>3 DEF ReaderMoves
<1> QED BY <1>1, <1>3 DEF ReadersInv
\* What _signal_change does to the readers
LEMMA WokenReaders ==
  ASSUME ReadersTyped
  PROVE  /\ Woken \in [Readers -> ReaderState] /\ Set \in {"none", "clear", "set"}
         /\ (event # "none" => Set # "none")
         /\ \A r \in Readers :
              /\ SameProgress(reader[r], Woken[r]) /\ Woken[r].stage = reader[r].stage
              /\ Woken[r].attached = reader[r].attached
              /\ Woken[r].woken =
                   (reader[r].woken \/ (Waiting(r) /\ event # "none" /\ reader[r].attached))
<1>1. \A r \in Readers : reader[r] \in ReaderState
  BY DEF ReadersTyped
<1>2. ASSUME NEW r \in Readers
      PROVE  /\ Woken[r] \in ReaderState
             /\ SameProgress(reader[r], Woken[r]) /\ Woken[r].stage = reader[r].stage
             /\ Woken[r].attached = reader[r].attached
             /\ Woken[r].woken =
                  (reader[r].woken \/ (Waiting(r) /\ event # "none" /\ reader[r].attached))
  <2>1. Woken[r] = IF Waiting(r) /\ event # "none" /\ reader[r].attached
                     THEN [reader[r] EXCEPT !.woken = TRUE] ELSE reader[r]
    BY DEF Woken
  <2>2. reader[r] \in ReaderState
    BY <1>1
  <2>3. /\ [reader[r] EXCEPT !.woken = TRUE] \in ReaderState
        /\ SameProgress(reader[r], [reader[r] EXCEPT !.woken = TRUE])
        /\ [reader[r] EXCEPT !.woken = TRUE].stage = reader[r].stage
        /\ [reader[r] EXCEPT !.woken = TRUE].attached = reader[r].attached
        /\ [reader[r] EXCEPT !.woken = TRUE].woken = TRUE
    BY <2>2 DEF ReaderState, SameProgress
  <2>4. reader[r].woken \in BOOLEAN
    BY <2>2 DEF ReaderState
  <2>5. CASE Waiting(r) /\ event # "none" /\ reader[r].attached
    BY <2>1, <2>3, <2>5
  <2>6. CASE ~(Waiting(r) /\ event # "none" /\ reader[r].attached)
    <3>1. Woken[r] = reader[r]
      BY <2>1, <2>6
    <3> QED BY <3>1, <2>2, <2>4, <2>6 DEF SameProgress
  <2> QED BY <2>5, <2>6
<1>3. Woken = [r \in Readers |-> Woken[r]]
  BY DEF Woken
<1>4. Set \in {"none", "clear", "set"} /\ (event # "none" => Set # "none")
  BY DEF Set
<1> HIDE DEF Woken, Set
<1> QED BY <1>2, <1>3, <1>4

\* What the removal of the event does to them
LEMMA UnregisteredReaders ==
  ASSUME NEW rs \in [Readers -> ReaderState], NEW flag
  PROVE  /\ Unregistered(rs, flag) \in [Readers -> ReaderState]
         /\ \A r \in Readers :
              /\ SameProgress(rs[r], Unregistered(rs, flag)[r])
              /\ Unregistered(rs, flag)[r].stage = rs[r].stage
              /\ ~Unregistered(rs, flag)[r].attached
              /\ rs[r].woken => Unregistered(rs, flag)[r].woken
<1> DEFINE us == Unregistered(rs, flag)
           late(r) == rs[r].stage = "starting" /\ rs[r].attached /\ flag = "set"
<1>1. us = [r \in Readers |-> [rs[r] EXCEPT !.attached = FALSE, !.woken = @ \/ late(r)]]
  BY DEF Unregistered
<1>2. ASSUME NEW r \in Readers
      PROVE  /\ us[r] \in ReaderState /\ SameProgress(rs[r], us[r]) /\ us[r].stage = rs[r].stage
             /\ ~us[r].attached /\ (rs[r].woken => us[r].woken)
  <2>1. rs[r] \in ReaderState /\ late(r) \in BOOLEAN
    OBVIOUS
  <2> HIDE DEF late
  <2>2. us[r] = [rs[r] EXCEPT !.attached = FALSE, !.woken = @ \/ late(r)]
    BY <1>1
  <2> QED BY <2>1, <2>2 DEF ReaderState, SameProgress
<1>3. us = [r \in Readers |-> us[r]]
  BY <1>1
<1> HIDE DEF us, late
<1>4. us \in [Readers -> ReaderState]
  BY <1>2, <1>3
<1> QED BY <1>2, <1>4 DEF us

\* What a step has to show for the readers
Moved == ReaderMoves /\ WakeInv'

\* A change of a job that has not ended, and its signal
LEMMA SignalMoves ==
  ASSUME ReadersInv, WakeInv, status \notin Ended, Signals, deferred' = deferred,
         stalled' \in BOOLEAN, outputs' \in 0..MaxOutputs
  PROVE  Moved
<1>0. ReadersTyped /\ reader' = Woken /\ event' = Set
  BY DEF ReadersInv, Signals
<1>1. /\ reader' \in [Readers -> ReaderState] /\ event' \in {"none", "clear", "set"}
      /\ (event # "none" => event' # "none")
      /\ \A r \in Readers :
           /\ SameProgress(reader[r], reader'[r]) /\ reader'[r].stage = reader[r].stage
           /\ reader'[r].attached = reader[r].attached
           /\ reader'[r].woken =
                (reader[r].woken \/ (Waiting(r) /\ event # "none" /\ reader[r].attached))
  BY <1>0, WokenReaders
<1>2. ReaderMoves
  BY <1>1 DEF ReaderMoves, Flagged
<1>3. (\A r \in Readers : reader[r].attached => event # "none" /\ Suspended(r))'
  BY <1>1 DEF WakeInv, Suspended
<1>4. \A r \in Readers : Suspended(r) => reader[r].attached
  BY DEF WakeInv
<1>5. \A r \in Readers : reader'[r].stage \in {"starting", "waiting"} => reader'[r].attached
  BY <1>1, <1>4 DEF Suspended
<1>6. \A r \in Readers : reader'[r].stage = "waiting" => reader'[r].woken
  BY <1>1, <1>4 DEF WakeInv, Suspended, Waiting
<1>7. ~deferred' => \A r \in Readers : reader'[r].stage # "starting"
  BY <1>1 DEF WakeInv
<1>8. NoLostWakeup'
  BY <1>6 DEF NoLostWakeup, Waiting
<1>9. (\A r \in Readers : Suspended(r) /\ ~reader[r].attached => status \in Ended)'
  BY <1>5 DEF Suspended
<1> QED BY <1>2, <1>3, <1>7, <1>8, <1>9 DEF Moved, WakeInv

\* The handler of cancel
LEMMA CancelMoves == ASSUME ReadersInv, WakeInv, Cancels PROVE Moved
<1>0. ReadersTyped /\ status = "queued" /\ status' = "cancelled" /\ event' = "none"
      /\ reader' = Unregistered(Woken, Set) /\ deferred' = deferred /\ outputs' = outputs
      /\ stalled' = stalled
  BY DEF ReadersInv, Cancels, CancelQueued
<1>1. /\ Woken \in [Readers -> ReaderState]
      /\ \A r \in Readers :
           /\ SameProgress(reader[r], Woken[r]) /\ Woken[r].stage = reader[r].stage
           /\ Woken[r].woken =
                (reader[r].woken \/ (Waiting(r) /\ event # "none" /\ reader[r].attached))
  BY <1>0, WokenReaders
<1>2. /\ reader' \in [Readers -> ReaderState]
      /\ \A r \in Readers :
           /\ SameProgress(Woken[r], reader'[r]) /\ reader'[r].stage = Woken[r].stage
           /\ ~reader'[r].attached /\ (Woken[r].woken => reader'[r].woken)
  BY <1>0, <1>1, UnregisteredReaders
<1>3. \A r \in Readers : Flagged(reader[r], reader'[r])
  BY <1>1, <1>2 DEF Flagged, SameProgress
<1>4. ReaderMoves
  BY <1>0, <1>2, <1>3 DEF ReaderMoves, ReadersTyped
<1>5. \A r \in Readers : Waiting(r) => event # "none" /\ reader[r].attached
  BY <1>0 DEF WakeInv, Ended, Waiting, Suspended
<1>6. \A r \in Readers : reader'[r].stage = "waiting" => reader'[r].woken
  BY <1>1, <1>2, <1>5 DEF Waiting
<1>7. NoLostWakeup'
  BY <1>6 DEF NoLostWakeup, Waiting
<1>8. ~deferred' => \A r \in Readers : reader'[r].stage # "starting"
  BY <1>0, <1>1, <1>2 DEF WakeInv
<1>9. status' \in Ended
  BY <1>0 DEF Ended
<1> QED BY <1>2, <1>4, <1>7, <1>8, <1>9 DEF Moved, WakeInv

\* The end of the task
LEMMA CleanupMoves == ASSUME ReadersInv, WakeInv, Cleanup PROVE Moved
<1>0. ReadersTyped /\ status \in Ended /\ status' = status /\ event' = "none"
      /\ reader' = Unregistered(reader, event) /\ deferred' = deferred /\ outputs' = outputs
      /\ stalled' = stalled
  BY DEF ReadersInv, Cleanup, Forget
<1>1. reader \in [Readers -> ReaderState]
  BY <1>0 DEF ReadersTyped
<1>2. /\ reader' \in [Readers -> ReaderState]
      /\ \A r \in Readers :
           /\ SameProgress(reader[r], reader'[r]) /\ reader'[r].stage = reader[r].stage
           /\ ~reader'[r].attached /\ (reader[r].woken => reader'[r].woken)
  BY <1>0, <1>1, UnregisteredReaders
<1>3. ReaderMoves
  BY <1>0, <1>2 DEF ReaderMoves, ReadersTyped, Flagged
<1>4. ~deferred => \A r \in Readers : Waiting(r) => reader[r].woken
  BY <1>0 DEF WakeInv, NoLostWakeup, News, OnlyStalled
<1>5. NoLostWakeup'
  BY <1>0, <1>2, <1>4 DEF NoLostWakeup, Waiting
<1>6. ~deferred' => \A r \in Readers : reader'[r].stage # "starting"
  BY <1>0, <1>2 DEF WakeInv
<1> QED BY <1>0, <1>2, <1>3, <1>5, <1>6 DEF Moved, WakeInv

\* The daemon dies, and with it every connection.
LEMMA RestartMoves == ASSUME ReadersInv, WakeInv, Restarts PROVE Moved
<1>0. /\ ReadersTyped /\ event' = "none" /\ deferred' = deferred /\ outputs' = outputs
      /\ stalled' = FALSE
      /\ reader' = [r \in Readers |-> IF Suspended(r) THEN Over(reader[r], "ready") ELSE reader[r]]
  BY DEF ReadersInv, Restarts
<1>1. ASSUME NEW r \in Readers
      PROVE  /\ reader'[r] \in ReaderState /\ Flagged(reader[r], reader'[r])
             /\ reader'[r].stage \notin {"starting", "waiting"} /\ ~reader'[r].attached
  <2>1. reader[r] \in ReaderState /\ UpToDate(file, reader[r])
    BY DEF ReadersInv, ReadersTyped
  <2>2. reader'[r] = IF Suspended(r) THEN Over(reader[r], "ready") ELSE reader[r]
    BY <1>0
  <2>3. CASE Suspended(r)
    <3>1. "ready" \in Stage
      BY DEF Stage
    <3>2. /\ Over(reader[r], "ready") \in ReaderState /\ ~Over(reader[r], "ready").attached
          /\ Over(reader[r], "ready").stage = "ready"
          /\ Over(reader[r], "ready").printed = reader[r].printed
          /\ Over(reader[r], "ready").cursor = reader[r].cursor
          /\ Over(reader[r], "ready").got = reader[r].got
      BY <2>1, <3>1, OverKept
    <3>3. reader'[r] = Over(reader[r], "ready")
      BY <2>2, <2>3
    <3> QED BY <3>2, <3>3 DEF Flagged, SameProgress
  <2>4. CASE ~Suspended(r)
    <3>1. reader'[r] = reader[r]
      BY <2>2, <2>4
    <3> QED BY <2>1, <2>4, <3>1 DEF Flagged, SameProgress, WakeInv, Suspended
  <2> QED BY <2>3, <2>4
<1>2. reader' \in [Readers -> ReaderState]
  BY <1>0, <1>1
<1>3. ReaderMoves
  BY <1>0, <1>1, <1>2 DEF ReaderMoves, ReadersTyped
<1>4. NoLostWakeup'
  BY <1>1 DEF NoLostWakeup, Waiting
<1> QED BY <1>1, <1>3, <1>4 DEF Moved, WakeInv, Suspended

\* The public status turns possibly_stalled, and no reader is told.
LEMMA StallsMoves == ASSUME ReadersInv, WakeInv, Stalls PROVE Moved
<1>0. /\ ReadersTyped /\ ~stalled /\ stalled' = TRUE /\ status = "running" /\ status' = status
      /\ stamp' = stamp /\ file' = file /\ UNCHANGED <<deferred, event, outputs, reader>>
  BY DEF ReadersInv, Stalls, journalVars
<1>1. \A r \in Readers : Flagged(reader[r], reader[r])
  BY DEF Flagged, SameProgress
<1>2. ReaderMoves
  BY <1>0, <1>1 DEF ReaderMoves, ReadersTyped
<1>3. ASSUME NEW r \in Readers, ~deferred, Waiting(r), ~reader[r].woken
      PROVE  (~News(r, reader[r]) \/ OnlyStalled(r))'
  <2>1. ~News(r, reader[r]) /\ stalled = FALSE
    BY <1>0, <1>3 DEF WakeInv, NoLostWakeup, OnlyStalled, ReadersTyped
  <2>2. /\ ~(r \in Followers /\ reader[r].cursor < Len(file)) /\ status \notin Ended
        /\ reader[r].seen = <<status, FALSE, stamp>>
    BY <2>1 DEF News, Fingerprint
  <2> QED BY <2>2, <1>0 DEF OnlyStalled
<1>4. NoLostWakeup'
  BY <1>0, <1>3 DEF NoLostWakeup, Waiting
<1> QED BY <1>0, <1>2, <1>4 DEF Moved, WakeInv, Suspended
\* Any number of readers is left alone by what happens to one.
LEMMA OneMoves ==
  ASSUME ReadersInv, WakeInv, NEW r \in Readers, NEW v \in ReaderState,
         reader' = [reader EXCEPT ![r] = v], UNCHANGED <<journalVars, deferred, stalled, outputs>>,
         event' \in {"none", "clear", "set"}, event # "none" => event' # "none",
         Flagged(reader[r], v) \/ Served(r, reader[r], v),
         v.attached => event' # "none" /\ v.stage \in {"starting", "waiting"},
         v.stage \in {"starting", "waiting"} /\ ~v.attached => status \in Ended,
         ~deferred => v.stage # "starting" /\ (v.stage = "waiting" /\ ~v.woken => ~News(r, v))
  PROVE  Moved
<1>0. /\ status' = status /\ file' = file /\ stamp' = stamp /\ deferred' = deferred
      /\ outputs' = outputs /\ stalled' = stalled /\ ReadersTyped
      /\ reader \in [Readers -> ReaderState]
  BY DEF journalVars, ReadersInv, ReadersTyped
<1>1. /\ reader' \in [Readers -> ReaderState] /\ reader'[r] = v
      /\ \A q \in Readers : q # r => reader'[q] = reader[q]
  BY <1>0
<1>2. \A q \in Readers : Flagged(reader[q], reader[q])
  BY DEF Flagged, SameProgress
<1>3. ReaderMoves
  BY <1>0, <1>1, <1>2 DEF ReaderMoves, ReadersTyped
<1>4. ASSUME NEW q \in Readers
      PROVE  /\ reader'[q].attached => event' # "none" /\ Suspended(q)'
             /\ reader'[q].stage \in {"starting", "waiting"} /\ ~reader'[q].attached =>
                  status' \in Ended
             /\ ~deferred' => reader'[q].stage # "starting"
  BY <1>0, <1>1 DEF WakeInv, Suspended
<1>5. ASSUME NEW q \in Readers, ~deferred', Waiting(q)', ~reader'[q].woken
      PROVE  (~News(q, reader[q]) \/ OnlyStalled(q))'
  <2>1. CASE q = r
    BY <2>1, <1>0, <1>1, <1>5 DEF Waiting, News, Fingerprint
  <2>2. CASE q # r
    <3>1. Waiting(q) /\ ~reader[q].woken /\ ~deferred
      BY <2>2, <1>0, <1>1, <1>5 DEF Waiting
    <3>2. ~News(q, reader[q]) \/ OnlyStalled(q)
      BY <3>1 DEF WakeInv, NoLostWakeup
    <3>3. reader'[q] = reader[q]
      BY <2>2, <1>1
    <3>4. News(q, reader[q])' = News(q, reader[q])
      BY <3>3, <1>0 DEF News, Fingerprint
    <3>5. OnlyStalled(q) => OnlyStalled(q)'
      <4>1. SUFFICES ASSUME OnlyStalled(q) PROVE OnlyStalled(q)'
        OBVIOUS
      <4>2. /\ ~(q \in Followers /\ reader[q].cursor < Len(file)) /\ status \notin Ended
            /\ reader[q].seen = <<status, FALSE, stamp>> /\ stalled
        BY <4>1 DEF OnlyStalled
      <4>3. ~(q \in Followers /\ reader'[q].cursor < Len(file')) /\ status' \notin Ended
        BY <4>2, <3>3, <1>0
      <4>4. reader'[q].seen = <<status', FALSE, stamp'>>
        BY <4>2, <3>3, <1>0
      <4>5. stalled'
        BY <4>2, <1>0
      <4> QED BY <4>3, <4>4, <4>5 DEF OnlyStalled
    <3> QED BY <3>2, <3>4, <3>5
  <2> QED BY <2>1, <2>2
<1>6. NoLostWakeup'
  BY <1>5 DEF NoLostWakeup
<1> QED BY <1>3, <1>4, <1>6 DEF Moved, WakeInv, Suspended

\* The answer to a reader
LEMMA AnswerServes ==
  ASSUME JournalInv, ReadersInv, NEW r \in Readers, NEW x \in ReaderState,
         SameProgress(reader[r], x), NEW v, v = Answered(r, x)
  PROVE  /\ v \in ReaderState /\ Served(r, reader[r], v) /\ ~v.attached /\ ~v.woken
         /\ v.stage \in {"ready", "done"}
<1>1. UpToDate(file, x) /\ JournalTypeOK
  BY DEF ReadersInv, SameProgress, UpToDate, JournalInv
<1>2. /\ v \in ReaderState /\ ~v.attached /\ ~v.woken /\ v.stage \in {"ready", "done"}
  BY <1>1, AnsweredKept
<1>3. SameProgress(v, v)
  BY DEF SameProgress
<1> QED BY <1>2, <1>3 DEF Served

\* A request
LEMMA PollMoves ==
  ASSUME JournalInv, ReadersInv, WakeInv, NEW r \in Readers, NEW page \in Pages, Poll(r, page)
  PROVE  Moved
<1> DEFINE asked == [reader[r] EXCEPT !.page = page, !.seen = Fingerprint]
<1>0. /\ reader[r] \in ReaderState /\ reader \in [Readers -> ReaderState]
      /\ event \in {"none", "clear", "set"} /\ status \in Status /\ stamp \in Nat
      /\ stalled \in BOOLEAN
  BY DEF ReadersInv, ReadersTyped, JournalInv, JournalTypeOK
<1>1. /\ UNCHANGED <<journalVars, deferred, stalled, outputs>> /\ reader[r].stage = "ready"
      /\ IF News(r, asked)
           THEN reader' = [reader EXCEPT ![r] = Answered(r, asked)] /\ event' = event
           ELSE /\ reader' = [reader EXCEPT ![r] = [asked EXCEPT !.stage = Waits, !.attached = TRUE]]
                /\ event' = "clear"
  BY DEF Poll, Register
<1>2. asked \in ReaderState /\ SameProgress(reader[r], asked)
  <2>1. Fingerprint \in Status \X BOOLEAN \X Nat
    BY <1>0 DEF Fingerprint
  <2> QED BY <2>1, <1>0 DEF ReaderState, SameProgress
<1> HIDE DEF asked
<1>3. CASE News(r, asked)
  <2> DEFINE v == Answered(r, asked)
  <2>1. reader' = [reader EXCEPT ![r] = v] /\ event' = event
    BY <1>1, <1>3
  <2>2. /\ v \in ReaderState /\ Served(r, reader[r], v) /\ ~v.attached
        /\ v.stage \in {"ready", "done"}
    BY <1>2, AnswerServes
  <2> HIDE DEF v
  <2> QED BY <2>1, <2>2, <1>0, <1>1, OneMoves
<1>4. CASE ~News(r, asked)
  <2> DEFINE v == [asked EXCEPT !.stage = Waits, !.attached = TRUE]
  <2>1. reader' = [reader EXCEPT ![r] = v] /\ event' = "clear"
    BY <1>1, <1>4
  <2>2. Waits \in Stage /\ Waits \in {"starting", "waiting"} /\ (~deferred => Waits # "starting")
    BY DEF Waits, Stage
  <2> HIDE DEF Waits
  <2>3. /\ v \in ReaderState /\ v.stage = Waits /\ v.attached /\ SameProgress(asked, v)
        /\ v.seen = asked.seen
    BY <2>2, <1>2 DEF ReaderState, SameProgress
  <2> HIDE DEF v
  <2>4. Flagged(reader[r], v)
    BY <2>2, <2>3, <1>2 DEF Flagged, SameProgress
  <2>5. ~News(r, v)
    BY <2>3, <1>4 DEF News, SameProgress
  <2> QED BY <2>1, <2>2, <2>3, <2>4, <2>5, <1>0, <1>1, OneMoves
<1> QED BY <1>3, <1>4

\* event.wait() begins.
LEMMA BeginMoves ==
  ASSUME ReadersInv, WakeInv, NEW r \in Readers, Begin(r)
  PROVE  Moved
<1> DEFINE v == [reader[r] EXCEPT !.stage = "waiting",
                                  !.woken = @ \/ (reader[r].attached /\ event = "set")]
<1>0. reader[r] \in ReaderState /\ event \in {"none", "clear", "set"}
  BY DEF ReadersInv, ReadersTyped
<1>1. /\ UNCHANGED <<journalVars, deferred, stalled, outputs>> /\ event' = event
      /\ reader[r].stage = "starting" /\ reader' = [reader EXCEPT ![r] = v]
  BY DEF Begin
<1>2. /\ v \in ReaderState /\ v.stage = "waiting" /\ v.attached = reader[r].attached
      /\ SameProgress(reader[r], v)
  BY <1>0 DEF ReaderState, SameProgress, Stage
<1> HIDE DEF v
<1>3. deferred /\ (reader[r].attached => event # "none")
      /\ (~reader[r].attached => status \in Ended)
  BY <1>1 DEF WakeInv, Suspended
<1> QED BY <1>0, <1>1, <1>2, <1>3, OneMoves DEF Flagged

\* What a reader leaves behind
LEMMA LeavesMoves ==
  ASSUME JournalInv, ReadersInv, WakeInv, NEW r \in Readers, Leaves(r),
         UNCHANGED <<journalVars, deferred, stalled, outputs>>
  PROVE  Moved
<1> DEFINE v == Answered(r, reader[r])
           left == [reader EXCEPT ![r] = v]
<1>0. /\ reader[r] \in ReaderState /\ reader \in [Readers -> ReaderState]
      /\ event \in {"none", "clear", "set"} /\ ReadersTyped
  BY DEF ReadersInv, ReadersTyped
<1>1. IF status \in Ended /\ event # "none" /\ reader[r].attached
        THEN event' = "none" /\ reader' = Unregistered(left, event)
        ELSE event' = event /\ reader' = left
  BY Zenon DEF Leaves
<1>2. /\ v \in ReaderState /\ Served(r, reader[r], v) /\ ~v.attached
      /\ v.stage \in {"ready", "done"}
  <2>1. SameProgress(reader[r], reader[r])
    BY DEF SameProgress
  <2> QED BY <2>1, <1>0, AnswerServes
<1> HIDE DEF v
<1>3. CASE ~(status \in Ended /\ event # "none" /\ reader[r].attached)
  BY <1>0, <1>1, <1>2, <1>3, OneMoves
<1>4. CASE status \in Ended /\ event # "none" /\ reader[r].attached
  <2>1. event' = "none" /\ reader' = Unregistered(left, event)
    BY <1>1, <1>4
  <2>2. left \in [Readers -> ReaderState] /\ left[r] = v
        /\ \A q \in Readers : q # r => left[q] = reader[q]
    BY <1>0, <1>2
  <2> HIDE DEF left
  <2>3. /\ reader' \in [Readers -> ReaderState]
        /\ \A q \in Readers :
             /\ SameProgress(left[q], reader'[q]) /\ reader'[q].stage = left[q].stage
             /\ ~reader'[q].attached /\ (left[q].woken => reader'[q].woken)
    BY <2>1, <2>2, UnregisteredReaders
  <2>4. status' = status /\ deferred' = deferred /\ outputs' = outputs /\ stalled' = stalled
    BY DEF journalVars
  <2>5. \A q \in Readers : Flagged(reader[q], reader'[q]) \/ Served(q, reader[q], reader'[q])
    <3>1. Served(r, reader[r], reader'[r])
      <4>1. PICK z \in ReaderState :
              /\ SameProgress(reader[r], z) /\ SameProgress(Answered(r, z), v)
              /\ v.stage = Answered(r, z).stage
        BY <1>2 DEF Served
      <4>2. SameProgress(v, reader'[r]) /\ reader'[r].stage = v.stage
        BY <2>2, <2>3
      <4>3. SameProgress(Answered(r, z), reader'[r])
        BY <4>1, <4>2 DEF SameProgress
      <4> QED BY <4>1, <4>2, <4>3 DEF Served
    <3>2. \A q \in Readers : q # r => Flagged(reader[q], reader'[q])
      BY <2>2, <2>3 DEF Flagged
    <3> QED BY <3>1, <3>2
  <2>6. ReaderMoves
    BY <2>1, <2>3, <2>4, <2>5, <1>0 DEF ReaderMoves, ReadersTyped
  <2>7. ASSUME NEW q \in Readers, ~deferred, reader'[q].stage = "waiting" PROVE reader'[q].woken
    <3>1. q # r /\ Waiting(q)
      BY <2>2, <2>3, <2>7, <1>2 DEF Waiting
    <3>2. reader[q].woken
      BY <3>1, <2>7, <1>4 DEF WakeInv, NoLostWakeup, News, OnlyStalled
    <3> QED BY <3>1, <3>2, <2>2, <2>3
  <2>8. NoLostWakeup'
    BY <2>4, <2>7 DEF NoLostWakeup, Waiting
  <2>9. ~deferred' => \A q \in Readers : reader'[q].stage # "starting"
    BY <2>2, <2>3, <2>4, <1>2 DEF WakeInv
  <2> QED BY <2>3, <2>4, <2>6, <2>8, <2>9, <1>4 DEF Moved, WakeInv
<1> QED BY <1>3, <1>4

\* The wait is over.
LEMMA WakeMoves ==
  ASSUME JournalInv, ReadersInv, WakeInv, NEW r \in Readers, Wake(r)
  PROVE  Moved
<1>0. /\ reader[r] \in ReaderState /\ event \in {"none", "clear", "set"}
      /\ UNCHANGED <<journalVars, deferred, stalled, outputs>> /\ reader[r].stage = "waiting"
  BY DEF ReadersInv, ReadersTyped, Wake, Waiting
<1>1. CASE News(r, reader[r])
  BY <1>0, <1>1, LeavesMoves DEF Wake
<1>2. CASE ~News(r, reader[r])
  <2> DEFINE v == [reader[r] EXCEPT !.stage = Waits, !.woken = FALSE]
  <2>1. /\ reader' = [reader EXCEPT ![r] = v]
        /\ event' = IF reader[r].attached THEN "clear" ELSE event
    <3>1. reader' = [reader EXCEPT ![r].stage = Waits, ![r].woken = FALSE]
          /\ event' = IF reader[r].attached THEN "clear" ELSE event
      BY <1>2 DEF Wake
    <3>2. reader \in [Readers -> ReaderState]
      BY DEF ReadersInv, ReadersTyped
    <3> QED BY <3>1, <3>2
  <2>2. Waits \in Stage /\ Waits \in {"starting", "waiting"} /\ (~deferred => Waits # "starting")
    BY DEF Waits, Stage
  <2> HIDE DEF Waits
  <2>3. /\ v \in ReaderState /\ v.stage = Waits /\ v.attached = reader[r].attached
        /\ SameProgress(reader[r], v) /\ v.seen = reader[r].seen
    BY <2>2, <1>0 DEF ReaderState, SameProgress
  <2> HIDE DEF v
  <2>4. Flagged(reader[r], v)
    BY <2>2, <2>3 DEF Flagged
  <2>5. ~News(r, v)
    BY <2>3, <1>2 DEF News, SameProgress
  <2>6. reader[r].attached
    BY <1>0, <1>2 DEF WakeInv, Suspended, News
  <2> QED BY <2>1, <2>2, <2>3, <2>4, <2>5, <2>6, <1>0, OneMoves
<1> QED BY <1>1, <1>2

\* Every step of Next moves the readers so.
LEMMA NextMoves ==
  ASSUME JournalInv, ReadersInv, WakeInv, [Next]_vars
  PROVE  Moved
<1>0. outputs \in 0..MaxOutputs /\ MaxOutputs \in Nat
  BY ReadingAssumption DEF ReadersInv, ReadersTyped, ReadingAssumption
<1>13. stalled \in BOOLEAN /\ (Stirs => stalled' \in BOOLEAN)
  BY DEF ReadersInv, ReadersTyped, Stirs
<1>1. CASE Launches
  BY <1>0, <1>1, <1>13, SignalMoves DEF Launches, Launch, Ended
<1>2. CASE Deltas
  <2>1. status = "running"
    <3>1. \A w \in Widths, persist \in BOOLEAN : Delta(w, persist) => Decodes
      BY Zenon DEF Delta
    <3>2. ASSUME NEW w \in Widths, NEW torn \in BOOLEAN, NEW garbled \in BOOLEAN,
                 NEW warned \in BOOLEAN, NormalizationFails(w, torn, garbled, warned)
          PROVE  Decodes
      BY <3>2, Zenon DEF NormalizationFails
    <3> QED BY <3>1, <3>2, <1>2 DEF Deltas, Decodes
  <2>2. stalled' \in BOOLEAN
    BY <1>2, <1>13 DEF Deltas
  <2> QED BY <2>1, <2>2, <1>0, <1>2, SignalMoves DEF Deltas, Ended
<1>3. CASE Outputs
  <2>1. outputs' \in 0..MaxOutputs
    BY <1>0, <1>3 DEF Outputs, Output
  <2> QED BY <2>1, <1>3, <1>13, SignalMoves DEF Outputs, Output, Ended
<1>4. CASE Finishes
  BY <1>0, <1>4, SignalMoves DEF Finishes, Finish, Ended
<1>5. CASE Cancels
  BY <1>5, CancelMoves
<1>6. CASE Cleanup
  BY <1>6, CleanupMoves
<1>7. CASE Restarts
  BY <1>7, RestartMoves
<1>8. CASE Polls
  BY <1>8, PollMoves DEF Polls
<1>9. CASE Begins
  BY <1>9, BeginMoves DEF Begins
<1>10. CASE Wakes
  BY <1>10, WakeMoves DEF Wakes
<1>11. CASE TimeOuts
  BY <1>11, LeavesMoves DEF TimeOuts, TimeOut
<1>14. CASE Stalls
  BY <1>14, StallsMoves
<1>12. CASE UNCHANGED vars
  <2>1. UNCHANGED <<journalVars, deferred, stalled, event, outputs, reader>>
    BY <1>12 DEF vars, journalVars
  <2>2. \A r \in Readers : Flagged(reader[r], reader[r])
    BY DEF Flagged, SameProgress
  <2>3. ReaderMoves
    BY <2>1, <2>2 DEF ReaderMoves, ReadersInv, ReadersTyped
  <2>4. WakeInv'
    BY <1>12 DEF vars, WakeInv, NoLostWakeup, Waiting, Suspended, News, Fingerprint, OnlyStalled
  <2> QED BY <2>3, <2>4 DEF Moved
<1> QED BY <1>1, <1>2, <1>3, <1>4, <1>5, <1>6, <1>7, <1>8, <1>9, <1>10, <1>11, <1>12,
          <1>14 DEF Next
-----------------------------------------------------------------------------
(* Theorems about readers.                                                 *)

\* The first state
LEMMA ReadersInit == Init => ReadersInv /\ WakeInv
<1> SUFFICES ASSUME Init PROVE ReadersInv /\ WakeInv
  OBVIOUS
<1>1. /\ file = <<>> /\ deferred \in BOOLEAN /\ stalled = FALSE /\ event = "none" /\ outputs = 0
      /\ reader = [r \in Readers |-> NewReader]
  BY DEF Init, JournalInit
<1>2. NewReader \in ReaderState
  <2>1. <<"queued", FALSE, 0>> \in Status \X BOOLEAN \X Nat
    BY DEF Status
  <2> QED BY <2>1 DEF NewReader, ReaderState, Stage
<1>3. MaxOutputs \in Nat
  BY ReadingAssumption DEF ReadingAssumption
<1>4. ReadersTyped
  <2>1. stalled \in BOOLEAN
    BY <1>1
  <2>2. event \in {"none", "clear", "set"} /\ outputs \in 0..MaxOutputs
    BY <1>1, <1>3
  <2> QED BY <1>1, <1>2, <2>1, <2>2 DEF ReadersTyped
<1>5. /\ NewReader.cursor = 0 /\ NewReader.got = <<>> /\ NewReader.stage = "ready"
      /\ ~NewReader.attached
  BY DEF NewReader
<1>6. UpToDate(file, NewReader)
  BY <1>1, <1>5 DEF UpToDate, PageIs
<1>7. \A r \in Readers : reader[r] = NewReader
  BY <1>1
<1>8. ReadersInv
  BY <1>4, <1>5, <1>6, <1>7 DEF ReadersInv
<1>9. WakeInv
  BY <1>5, <1>7 DEF WakeInv, NoLostWakeup, Waiting, Suspended
<1> QED BY <1>8, <1>9

\* The invariants hold.
LEMMA ReadersInvHolds == Spec => [](JournalInv /\ ReadersInv /\ WakeInv)
<1>1. JournalInv /\ ReadersInv /\ WakeInv /\ [Next]_vars => ReadersInv' /\ WakeInv'
  <2> SUFFICES ASSUME JournalInv, ReadersInv, WakeInv, [Next]_vars
               PROVE  ReadersInv' /\ WakeInv'
    OBVIOUS
  <2>1. JournalStep
    BY NextIsJournalStep
  <2>2. JournalInv' /\ Continues(file, file')
    BY <2>1, StepKeepsJournal
  <2>3. ReaderMoves /\ WakeInv'
    BY NextMoves DEF Moved
  <2> QED BY <2>1, <2>2, <2>3, MovesKeepReaders
<1> QED BY JournalInvHolds, ReadersInit, <1>1, PTL DEF Spec

\* Every variable of Reading keeps its type: read never hands out a cursor that
\* is not in the journal, nor a record that is not there.
THEOREM ReadingTyped == Spec => []TypeOK
<1>1. JournalInv /\ ReadersInv => TypeOK
  BY DEF JournalInv, ReadersInv, ReadersTyped, ReaderState, TypeOK
<1> QED BY ReadersInvHolds, <1>1, PTL

\* read_wait misses no event, no end and no change that a task makes: where wait_for
\* begins event.wait() at once, every reader that waits and has news is about to be
\* resumed, unless its news is only that time has made the job look stalled.
THEOREM WakeupsReach == Spec => []NoLostWakeup
<1>1. WakeInv => NoLostWakeup
  BY DEF WakeInv
<1> QED BY ReadersInvHolds, <1>1, PTL

\* _read_events hands out every record that can be read once and in order,
\* whatever max_bytes is, whatever is appended between two pages, and whichever
\* pages it fails to decode: a read that raises leaves the cursor where it was.
THEOREM PagesAreComplete == Spec => []PagesMissNothing
<1>1. ASSUME ReadersInv, NEW r \in Readers
      PROVE  LET got == reader[r].got
                 readable == {i \in DOMAIN got : got[i] # 0 /\ Intact(file, got[i])}
             IN /\ {got[i] : i \in readable} = {e \in 1..reader[r].cursor : Intact(file, e)}
                /\ \A i, j \in readable : i < j => got[i] < got[j]
  <2> DEFINE got == reader[r].got
             c == reader[r].cursor
             readable == {i \in DOMAIN got : got[i] # 0 /\ Intact(file, got[i])}
  <2>1. PageIs(file, got, 0, c)
    BY <1>1 DEF ReadersInv, UpToDate
  <2> HIDE DEF got, c
  <2>2. /\ \A i \in DOMAIN got : got[i] # 0 => got[i] \in 1..c
        /\ \A i, j \in DOMAIN got : i < j /\ got[i] # 0 /\ got[j] # 0 => got[i] < got[j]
        /\ \A d \in 1..c : Intact(file, d) => \E i \in DOMAIN got : got[i] = d
    <3>1. 0 + 1 = 1
      OBVIOUS
    <3> QED BY <2>1, <3>1 DEF PageIs
  <2>3. \A d \in 1..c : d # 0
    OBVIOUS
  <2>4. {got[i] : i \in readable} = {e \in 1..c : Intact(file, e)}
    BY <2>2, <2>3
  <2>5. \A i, j \in readable : i < j => got[i] < got[j]
    BY <2>2
  <2> QED BY <2>4, <2>5 DEF got, c
<1>2. ReadersInv => PagesMissNothing
  BY <1>1, Zenon DEF PagesMissNothing
<1> QED BY ReadersInvHolds, <1>2, PTL

\* A delegate that is done has printed all that was retained of the answer, in
\* its order and last, also when budgets left gaps in the journal.
THEOREM AllIsPrinted == Spec => []RetainedIsPrinted
<1>1. ReadersInv => RetainedIsPrinted
  BY ReadingAssumption DEF ReadersInv, RetainedIsPrinted, ReadingAssumption
<1> QED BY ReadersInvHolds, <1>1, PTL
=============================================================================
