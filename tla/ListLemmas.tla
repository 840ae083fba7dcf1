----------------------------- MODULE ListLemmas -----------------------------
(***************************************************************************)
(* What the proofs need to know of the lists the models keep: induction    *)
(* over their length and over finite sets, what a fold over a list         *)
(* computes, what unlinking an item and moving one to the front do to the  *)
(* elements and the order of a recency list without duplicates, and sums   *)
(* of bytes over sets.  And what the arithmetic proofs need: division,     *)
(* definitions by recursion, powers of two.                                *)
(***************************************************************************)
EXTENDS RecencyList, Powers, SequenceTheorems, FiniteSetTheorems,
        WellFoundedInduction, TLAPS

\* The least-number principle, for a set of natural numbers.
LEMMA LeastElement ==
    ASSUME NEW T \in SUBSET Nat, T # {}
    PROVE  \E x \in T : \A y \in T : x <= y
<1> DEFINE Less == OpToRel(<, Nat)
<1>1. IsWellFoundedOn(Less, Nat)
  BY NatLessThanWellFounded
<1> HIDE DEF Less
<1>2. PICK x \in T : \A y \in T : ~ (<<y, x>> \in Less)
  BY <1>1, WFMin
<1>3. ASSUME NEW y \in T
      PROVE  x <= y
  <2>1. x \in Nat /\ y \in Nat
    OBVIOUS
  <2>2. y < x => <<y, x>> \in Less
    BY <2>1 DEF Less, OpToRel
  <2> QED BY <1>2, <2>1, <2>2
<1> QED BY <1>3

\* Induction, for a set of natural numbers.  (The library's form takes a predicate,
\* which the provers do not instantiate.)
LEMMA Induction ==
    ASSUME NEW S, 0 \in S, \A n \in Nat : n \in S => n + 1 \in S
    PROVE  Nat \subseteq S
<1> SUFFICES ASSUME Nat \ S # {} PROVE FALSE
  OBVIOUS
<1>1. PICK x \in Nat \ S : \A y \in Nat \ S : x <= y
  BY LeastElement
<1>2. x - 1 \in Nat /\ x - 1 \in S
  BY <1>1
<1> QED BY <1>1, <1>2

-----------------------------------------------------------------------------
(* Folding a list                                                          *)

\* iter is the function that FoldLeft iterates over the prefixes of a list of
\* length n, where step[<<a, i>>] is what visiting the i-th element makes of a.
IsFold(iter, n, base, step) ==
    iter = [s \in SUBSET (1..n) |->
              IF s = {} THEN base ELSE step[<<iter[s \ {Max(s)}], Max(s)>>]]

\* There is such a function, whatever the step.
LEMMA FoldExists ==
    ASSUME NEW A, NEW base \in A, NEW n \in Nat, NEW step \in [A \X (1..n) -> A]
    PROVE  \E iter \in [SUBSET (1..n) -> A] : IsFold(iter, n, base, step)
<1> DEFINE P(m) == m <= n => \E iter \in [SUBSET (1..m) -> A] : IsFold(iter, m, base, step)
           S == {m \in Nat : P(m)}
<1>1. P(0)
  <2> DEFINE iter == [s \in SUBSET (1..0) |-> base]
  <2>1. SUBSET (1..0) = {{}}
    OBVIOUS
  <2>2. iter \in [SUBSET (1..0) -> A] /\ IsFold(iter, 0, base, step)
    BY <2>1 DEF IsFold
  <2> QED BY <2>2
<1>2. ASSUME NEW m \in Nat, P(m)
      PROVE  P(m + 1)
  <2> SUFFICES ASSUME m + 1 <= n
               PROVE  \E iter \in [SUBSET (1..(m + 1)) -> A] : IsFold(iter, m + 1, base, step)
    OBVIOUS
  <2>1. PICK old \in [SUBSET (1..m) -> A] : IsFold(old, m, base, step)
    <3>1. m <= n
      OBVIOUS
    <3> QED BY <1>2, <3>1, Zenon
  <2> DEFINE iter == [s \in SUBSET (1..(m + 1)) |->
                        IF m + 1 \in s THEN step[<<old[s \ {m + 1}], m + 1>>] ELSE old[s]]
  <2>2. ASSUME NEW s \in SUBSET (1..(m + 1))
        PROVE  /\ iter[s] \in A
               /\ iter[s] = IF s = {} THEN base ELSE step[<<iter[s \ {Max(s)}], Max(s)>>]
    <3>1. CASE m + 1 \in s
      <4>1. Max(s) = m + 1
        <5>1. \A y \in s : m + 1 >= y
          OBVIOUS
        <5>2. \A x \in s : (\A y \in s : x >= y) => x = m + 1
          BY <3>1
        <5> QED BY <3>1, <5>1, <5>2 DEF Max
      <4>2. s \ {m + 1} \in SUBSET (1..m) /\ m + 1 \notin s \ {m + 1}
            /\ s \ {m + 1} \in SUBSET (1..(m + 1))
        OBVIOUS
      <4>3. iter[s \ {m + 1}] = old[s \ {m + 1}] /\ old[s \ {m + 1}] \in A
        BY <4>2
      <4>4. m + 1 \in 1..n
        OBVIOUS
      <4>5. iter[s] = step[<<old[s \ {m + 1}], m + 1>>]
        BY <3>1
      <4> HIDE DEF iter
      <4> QED BY <3>1, <4>1, <4>3, <4>4, <4>5
    <3>2. CASE m + 1 \notin s
      <4>1. s \in SUBSET (1..m) /\ s \ {Max(s)} \in SUBSET (1..m)
        <5>1. \A i \in s : i \in 1..m
          BY <3>2
        <5> QED BY <5>1
      <4>2. s \ {Max(s)} \in SUBSET (1..(m + 1)) /\ m + 1 \notin s \ {Max(s)}
        BY <3>2
      <4>3. iter[s] = old[s] /\ iter[s \ {Max(s)}] = old[s \ {Max(s)}]
        BY <3>2, <4>1, <4>2
      <4>4. old[s] = IF s = {} THEN base ELSE step[<<old[s \ {Max(s)}], Max(s)>>]
        BY <2>1, <4>1 DEF IsFold
      <4> HIDE DEF iter
      <4> QED BY <4>1, <4>3, <4>4
    <3> QED BY <3>1, <3>2
  <2>3. iter \in [SUBSET (1..(m + 1)) -> A]
    <3>1. iter = [s \in SUBSET (1..(m + 1)) |-> iter[s]]
      OBVIOUS
    <3> HIDE DEF iter
    <3> QED BY <2>2, <3>1
  <2>4. IsFold(iter, m + 1, base, step)
    <3>1. iter = [s \in SUBSET (1..(m + 1)) |-> iter[s]]
      OBVIOUS
    <3> HIDE DEF iter
    <3> QED BY <2>2, <3>1 DEF IsFold
  <2> QED BY <2>3, <2>4
<1>3. P(n)
  <2> HIDE DEF P
  <2>1. 0 \in S /\ \A m \in Nat : m \in S => m + 1 \in S
    BY <1>1, <1>2
  <2> HIDE DEF S
  <2>2. n \in S
    BY <2>1, Induction
  <2> QED BY <2>2 DEF S
<1>4. n <= n
  OBVIOUS
<1> QED BY <1>3, <1>4, Zenon

\* The largest element of a bounded set.
LEMMA LargestOf ==
    ASSUME NEW n \in Nat, NEW s \in SUBSET (0..n), s # {}
    PROVE  Max(s) \in s /\ \A y \in s : Max(s) >= y
<1> DEFINE T == {n - y : y \in s}
<1>1. T \in SUBSET Nat /\ T # {}
  <2>1. \A y \in s : y \in 0..n /\ n - y \in Nat
    OBVIOUS
  <2> QED BY <2>1
<1> HIDE DEF T
<1>2. PICK t \in T : \A u \in T : t <= u
  BY <1>1, LeastElement
<1>3. PICK x \in s : t = n - x
  BY DEF T
<1>4. \A y \in s : x >= y
  <2> SUFFICES ASSUME NEW y \in s PROVE x >= y
    OBVIOUS
  <2>1. n - y \in T
    BY DEF T
  <2>2. n - x <= n - y
    BY <1>2, <1>3, <2>1
  <2>3. x \in Nat /\ y \in Nat
    OBVIOUS
  <2> QED BY <2>2, <2>3
<1> QED BY <1>4 DEF Max

LEMMA LargestIndex ==
    ASSUME NEW n \in Nat, NEW s \in SUBSET (1..n), s # {}
    PROVE  Max(s) \in s /\ \A y \in s : Max(s) >= y
<1>1. s \in SUBSET (0..n)
  OBVIOUS
<1> QED BY <1>1, LargestOf

\* The prefixes of the indices of a list.
LEMMA PrefixIndices ==
    ASSUME NEW n \in Nat, NEW i \in 1..n
    PROVE  /\ 1..i \in SUBSET (1..n) /\ 1..i # {}
           /\ Max(1..i) = i
           /\ (1..i) \ {i} = 1..(i - 1)
<1>1. 1..i \in SUBSET (1..n) /\ 1..i # {} /\ (1..i) \ {i} = 1..(i - 1)
  OBVIOUS
<1>2. Max(1..i) \in 1..i /\ \A y \in 1..i : Max(1..i) >= y
  BY <1>1, LargestIndex
<1>3. i \in 1..i
  OBVIOUS
<1> QED BY <1>1, <1>2, <1>3

\* What holds of the longer prefix where it holds of the shorter one holds of
\* the whole list.
LEMMA PrefixInduction ==
    ASSUME NEW n \in Nat, NEW iter, NEW Good, iter[{}] \in Good[0],
           \A i \in 1..n : iter[1..(i - 1)] \in Good[i - 1] => iter[1..i] \in Good[i]
    PROVE  iter[1..n] \in Good[n]
<1> DEFINE P(i) == i <= n => iter[1..i] \in Good[i]
           S == {i \in Nat : P(i)}
<1>1. P(0)
  <2>1. 1..0 = {}
    OBVIOUS
  <2> QED BY <2>1
<1>2. ASSUME NEW i \in Nat, P(i) PROVE P(i + 1)
  <2> SUFFICES ASSUME i + 1 <= n PROVE iter[1..(i + 1)] \in Good[i + 1]
    OBVIOUS
  <2>1. i + 1 \in 1..n /\ (i + 1) - 1 = i /\ i <= n
    OBVIOUS
  <2>2. iter[1..i] \in Good[i]
    BY <1>2, <2>1, Zenon
  <2>3. iter[1..((i + 1) - 1)] \in Good[(i + 1) - 1] => iter[1..(i + 1)] \in Good[i + 1]
    BY <2>1
  <2> QED BY <2>1, <2>2, <2>3, Zenon
<1> HIDE DEF P
<1>3. 0 \in S /\ \A i \in Nat : i \in S => i + 1 \in S
  BY <1>1, <1>2
<1> HIDE DEF S
<1>4. n \in S
  BY <1>3, Induction
<1>5. n <= n
  OBVIOUS
<1> QED BY <1>4, <1>5, Zenon DEF P, S
-----------------------------------------------------------------------------
(* Lists that grow and shrink at their end                                 *)

LEMMA AppendElements ==
    ASSUME NEW S, NEW s \in Seq(S), NEW x \in S
    PROVE  /\ Append(s, x) \in Seq(S)
           /\ Elems(Append(s, x)) = Elems(s) \cup {x}
           /\ Distinct(s) /\ x \notin Elems(s) => Distinct(Append(s, x))
<1> DEFINE t == Append(s, x)
<1>1. /\ t \in Seq(S) /\ Len(t) = Len(s) + 1 /\ Len(s) \in Nat
      /\ \A i \in 1..Len(s) : t[i] = s[i]
      /\ t[Len(s) + 1] = x
  BY AppendProperties, LenProperties
<1> HIDE DEF t
<1>2. /\ DOMAIN s = 1..Len(s) /\ DOMAIN t = 1..(Len(s) + 1)
      /\ \A i \in DOMAIN t : i \in DOMAIN s \/ i = Len(s) + 1
  BY <1>1, LenProperties
<1>3. Elems(t) = Elems(s) \cup {x}
  BY <1>1, <1>2 DEF Elems
<1>4. Distinct(s) /\ x \notin Elems(s) => Distinct(t)
  BY <1>1, <1>2 DEF Elems, Distinct
<1> QED BY <1>1, <1>3, <1>4 DEF t

LEMMA ButLastElements ==
    ASSUME NEW S, NEW s \in Seq(S), s # <<>>
    PROVE  /\ s[Len(s)] \in Elems(s) /\ s[Len(s)] \in S
           /\ SubSeq(s, 1, Len(s) - 1) \in Seq(S)
           /\ Distinct(s) => /\ Elems(SubSeq(s, 1, Len(s) - 1)) = Elems(s) \ {s[Len(s)]}
                             /\ Distinct(SubSeq(s, 1, Len(s) - 1))
<1> DEFINE n == Len(s)
           t == SubSeq(s, 1, n - 1)
<1>1. n \in Nat /\ n > 0 /\ DOMAIN s = 1..n
  BY LenProperties, EmptySeq
<1>2. t \in Seq(S) /\ Len(t) = n - 1 /\ \A i \in 1..(n - 1) : t[i] = s[i]
  <2>1. \A i \in 1..(n - 1) : s[i] \in S
    BY <1>1, ElementOfSeq
  <2>2. /\ t \in Seq(S)
        /\ Len(t) = IF 1 <= n - 1 THEN (n - 1) - 1 + 1 ELSE 0
        /\ \A i \in 1..((n - 1) - 1 + 1) : t[i] = s[1 + i - 1]
    BY <1>1, <2>1, SubSeqProperties
  <2> HIDE DEF t, n
  <2> QED BY <1>1, <2>2
<1> HIDE DEF t, n
<1>3. /\ DOMAIN t = 1..(n - 1) /\ n \in DOMAIN s /\ s[n] \in S
      /\ \A i \in DOMAIN s : i # n => i \in DOMAIN t
      /\ \A i \in DOMAIN t : i \in DOMAIN s /\ i # n
  BY <1>1, <1>2, LenProperties, ElementOfSeq
<1>4. ASSUME Distinct(s)
      PROVE  Elems(t) = Elems(s) \ {s[n]} /\ Distinct(t)
  <2>1. \A i \in DOMAIN t : t[i] = s[i]
    BY <1>2, <1>3
  <2> QED BY <1>3, <1>4, <2>1 DEF Elems, Distinct
<1> QED BY <1>2, <1>3, <1>4 DEF Elems, t, n
-----------------------------------------------------------------------------
(* Recency lists                                                           *)

\* RemoveAt, spelled out.
LEMMA RemoveAtElements ==
    ASSUME NEW S, NEW s \in Seq(S), NEW p \in 1..Len(s)
    PROVE  /\ RemoveAt(s, p) \in Seq(S)
           /\ Len(RemoveAt(s, p)) = Len(s) - 1
           /\ \A j \in 1 .. Len(s) - 1 :
                 RemoveAt(s, p)[j] = IF j < p THEN s[j] ELSE s[j + 1]
<1> DEFINE f == SubSeq(s, 1, p - 1)
           b == SubSeq(s, p + 1, Len(s))
<1>0. Len(s) \in Nat /\ p \in Nat /\ 1 <= p /\ p <= Len(s)
  BY LenProperties
<1>1. f \in Seq(S) /\ Len(f) = p - 1 /\ \A j \in 1..(p - 1) : f[j] = s[j]
  <2>1. \A j \in 1..(p - 1) : s[j] \in S
    BY <1>0, ElementOfSeq
  <2>2. /\ f \in Seq(S)
        /\ Len(f) = IF 1 <= p - 1 THEN p - 1 - 1 + 1 ELSE 0
        /\ \A j \in 1..(p - 1 - 1 + 1) : f[j] = s[1 + j - 1]
    BY <1>0, <2>1, SubSeqProperties
  <2> QED BY <1>0, <2>2
<1>2. /\ b \in Seq(S) /\ Len(b) = Len(s) - p
      /\ \A j \in 1..(Len(s) - p) : b[j] = s[j + p]
  <2>1. \A j \in (p + 1)..Len(s) : s[j] \in S
    BY <1>0, ElementOfSeq
  <2>2. /\ b \in Seq(S)
        /\ Len(b) = IF p + 1 <= Len(s) THEN Len(s) - (p + 1) + 1 ELSE 0
        /\ \A j \in 1..(Len(s) - (p + 1) + 1) : b[j] = s[p + 1 + j - 1]
    BY <1>0, <2>1, SubSeqProperties
  <2> HIDE DEF b
  <2>3. Len(b) = Len(s) - p
    <3>1. CASE p = Len(s)
      BY <1>0, <2>2, <3>1
    <3>2. CASE p < Len(s)
      BY <1>0, <2>2, <3>2
    <3> QED BY <1>0, <3>1, <3>2
  <2>4. ASSUME NEW j \in 1..(Len(s) - p)
        PROVE  b[j] = s[j + p]
    <3>1. j \in 1..(Len(s) - (p + 1) + 1) /\ p + 1 + j - 1 = j + p
      BY <1>0
    <3>2. b[j] = s[p + 1 + j - 1]
      BY <2>2, <3>1
    <3> QED BY <3>1, <3>2
  <2> QED BY <2>2, <2>3, <2>4
<1> HIDE DEF f, b
<1>3. /\ f \o b \in Seq(S) /\ Len(f \o b) = Len(f) + Len(b)
      /\ \A j \in 1..(Len(f) + Len(b)) :
            (f \o b)[j] = IF j <= Len(f) THEN f[j] ELSE b[j - Len(f)]
  BY <1>1, <1>2, ConcatProperties
<1>4. ASSUME NEW j \in 1 .. Len(s) - 1
      PROVE  (f \o b)[j] = IF j < p THEN s[j] ELSE s[j + 1]
  <2>1. CASE j < p
    BY <1>0, <1>1, <1>2, <1>3, <2>1
  <2>2. CASE ~(j < p)
    <3>1. (f \o b)[j] = b[j - (p - 1)]
      BY <1>0, <1>1, <1>2, <1>3, <2>2
    <3>2. j - (p - 1) \in 1..(Len(s) - p)
      BY <1>0, <2>2
    <3>3. b[j - (p - 1)] = s[j - (p - 1) + p] /\ j - (p - 1) + p = j + 1
      BY <1>0, <1>2, <3>2
    <3> QED BY <2>2, <3>1, <3>3
  <2> QED BY <2>1, <2>2
<1>5. RemoveAt(s, p) = f \o b
  BY DEF RemoveAt, f, b
<1>6. Len(f \o b) = Len(s) - 1
  BY <1>0, <1>1, <1>2, <1>3
<1> QED BY <1>3, <1>4, <1>5, <1>6

\* Unlinking a key takes exactly that key out of the list.
LEMMA UnlinkElements ==
    ASSUME NEW S, NEW s \in Seq(S), Distinct(s), NEW k
    PROVE  /\ Unlink(s, k) \in Seq(S)
           /\ Distinct(Unlink(s, k))
           /\ Elems(Unlink(s, k)) = Elems(s) \ {k}
<1>0. Len(s) \in Nat /\ DOMAIN s = 1..Len(s)
  BY LenProperties
<1>1. CASE ~ \E j \in DOMAIN s : s[j] = k
  BY <1>1 DEF Unlink, Elems
<1>2. CASE \E j \in DOMAIN s : s[j] = k
  <2> DEFINE p == CHOOSE j \in DOMAIN s : s[j] = k
             t == RemoveAt(s, p)
  <2>1. p \in 1..Len(s) /\ s[p] = k
    BY <1>0, <1>2
  <2>2. Unlink(s, k) = t
    BY <1>2 DEF Unlink
  <2> HIDE DEF p
  <2>3. /\ t \in Seq(S) /\ Len(t) = Len(s) - 1 /\ DOMAIN t = 1 .. Len(s) - 1
        /\ \A j \in 1 .. Len(s) - 1 : t[j] = IF j < p THEN s[j] ELSE s[j + 1]
    BY <2>1, RemoveAtElements, LenProperties
  <2> HIDE DEF t
  <2>4. Distinct(t)
    <3> DEFINE q(i) == IF i < p THEN i ELSE i + 1
    <3>1. \A i \in DOMAIN t : q(i) \in DOMAIN s /\ t[i] = s[q(i)]
      BY <1>0, <2>1, <2>3
    <3>2. \A i, j \in DOMAIN t : q(i) = q(j) => i = j
      BY <1>0, <2>1, <2>3
    <3> HIDE DEF q
    <3> QED BY <3>1, <3>2 DEF Distinct
  <2>5. Elems(t) \subseteq Elems(s) \ {k}
    BY <1>0, <2>1, <2>3 DEF Distinct, Elems
  <2>6. ASSUME NEW x \in Elems(s) \ {k}
        PROVE  x \in Elems(t)
    <3>1. PICK i \in 1..Len(s) : s[i] = x
      BY <1>0 DEF Elems
    <3>2. i # p
      BY <2>1, <2>6, <3>1
    <3>3. CASE i < p
      <4>1. i \in DOMAIN t /\ t[i] = x
        BY <1>0, <2>1, <2>3, <3>1, <3>3
      <4> QED BY <4>1 DEF Elems
    <3>4. CASE i > p
      <4>1. i - 1 \in DOMAIN t /\ t[i - 1] = x
        BY <1>0, <2>1, <2>3, <3>1, <3>4
      <4> QED BY <4>1 DEF Elems
    <3> QED BY <1>0, <2>1, <3>1, <3>2, <3>3, <3>4
  <2> QED BY <2>2, <2>3, <2>4, <2>5, <2>6
<1> QED BY <1>1, <1>2

\* Moving a key to the front puts it in the list once, whether it was there or not.
LEMMA ToFrontElements ==
    ASSUME NEW S, NEW s \in Seq(S), Distinct(s), NEW k \in S
    PROVE  /\ ToFront(s, k) \in Seq(S)
           /\ Distinct(ToFront(s, k))
           /\ Elems(ToFront(s, k)) = Elems(s) \cup {k}
<1> DEFINE u == Unlink(s, k)
           t == <<k>> \o u
<1>1. u \in Seq(S) /\ Distinct(u) /\ Elems(u) = Elems(s) \ {k}
  BY UnlinkElements
<1> HIDE DEF u
<1>2. Len(u) \in Nat /\ DOMAIN u = 1..Len(u)
  BY <1>1, LenProperties
<1>3. /\ t \in Seq(S) /\ DOMAIN t = 1..(Len(u) + 1)
      /\ t[1] = k /\ \A j \in 1..Len(u) : t[j + 1] = u[j]
  <2>1. <<k>> \in Seq(S) /\ Len(<<k>>) = 1 /\ <<k>>[1] = k
    OBVIOUS
  <2> QED BY <1>1, <1>2, <2>1, ConcatProperties, LenProperties
<1> HIDE DEF t
<1>4. k \notin Elems(u)
  BY <1>1
<1>5. \A j \in 2..(Len(u) + 1) : j - 1 \in DOMAIN u /\ t[j] = u[j - 1]
  BY <1>2, <1>3
<1>6. Distinct(t)
  <2> SUFFICES ASSUME NEW i \in DOMAIN t, NEW j \in DOMAIN t, t[i] = t[j]
               PROVE  i = j
    BY DEF Distinct
  <2>1. CASE i = 1 /\ j = 1
    BY <2>1
  <2>2. CASE i = 1 /\ j # 1
    <3>1. j \in 2..(Len(u) + 1)
      BY <1>2, <1>3, <2>2
    <3>2. t[j] \in Elems(u)
      BY <1>5, <3>1 DEF Elems
    <3> QED BY <1>3, <1>4, <2>2, <3>2
  <2>3. CASE i # 1 /\ j = 1
    <3>1. i \in 2..(Len(u) + 1)
      BY <1>2, <1>3, <2>3
    <3>2. t[i] \in Elems(u)
      BY <1>5, <3>1 DEF Elems
    <3> QED BY <1>3, <1>4, <2>3, <3>2
  <2>4. CASE i # 1 /\ j # 1
    <3>1. i \in 2..(Len(u) + 1) /\ j \in 2..(Len(u) + 1)
      BY <1>2, <1>3, <2>4
    <3>2. i - 1 = j - 1
      BY <1>1, <1>5, <3>1 DEF Distinct
    <3> QED BY <1>2, <3>1, <3>2
  <2> QED BY <2>1, <2>2, <2>3, <2>4
<1>7. Elems(t) = Elems(u) \cup {k}
  <2>1. ASSUME NEW j \in DOMAIN t PROVE t[j] \in Elems(u) \cup {k}
    <3>1. CASE j = 1
      BY <1>3, <3>1
    <3>2. CASE j # 1
      <4>1. j \in 2..(Len(u) + 1)
        BY <1>2, <1>3, <3>2
      <4> QED BY <1>5, <4>1 DEF Elems
    <3> QED BY <3>1, <3>2
  <2>2. Elems(u) \subseteq Elems(t)
    <3>1. ASSUME NEW j \in DOMAIN u PROVE u[j] \in Elems(t)
      <4>1. j + 1 \in DOMAIN t /\ t[j + 1] = u[j]
        BY <1>2, <1>3
      <4> QED BY <4>1 DEF Elems
    <3> QED BY <3>1 DEF Elems
  <2>3. k \in Elems(t)
    BY <1>2, <1>3 DEF Elems
  <2>4. Elems(t) \subseteq Elems(u) \cup {k}
    BY <2>1 DEF Elems
  <2> QED BY <2>2, <2>3, <2>4
<1>8. ToFront(s, k) = t
  BY DEF ToFront, u, t
<1> QED BY <1>1, <1>3, <1>6, <1>7, <1>8
-----------------------------------------------------------------------------
(* Lists that a loop goes through                                          *)

\* x comes before y in a list.
Before(s, x, y) == \E i, j \in DOMAIN s : i < j /\ s[i] = x /\ s[j] = y

\* Unlinking an item leaves the others in their order.
LEMMA UnlinkOrder ==
    ASSUME NEW S, NEW s \in Seq(S), Distinct(s), NEW k, NEW x, NEW y, x # k, y # k,
           Before(s, x, y)
    PROVE  Before(Unlink(s, k), x, y)
<1>0. Len(s) \in Nat /\ DOMAIN s = 1..Len(s)
  BY LenProperties
<1>1. CASE ~ \E j \in DOMAIN s : s[j] = k
  BY <1>1 DEF Unlink
<1>2. CASE \E j \in DOMAIN s : s[j] = k
  <2> DEFINE p == CHOOSE j \in DOMAIN s : s[j] = k
             t == RemoveAt(s, p)
             at(i) == IF i < p THEN i ELSE i - 1
  <2>1. p \in 1..Len(s) /\ s[p] = k
    BY <1>0, <1>2
  <2>2. Unlink(s, k) = t
    BY <1>2 DEF Unlink
  <2> HIDE DEF p
  <2>3. /\ t \in Seq(S) /\ Len(t) = Len(s) - 1 /\ DOMAIN t = 1 .. Len(s) - 1
        /\ \A j \in 1 .. Len(s) - 1 : t[j] = IF j < p THEN s[j] ELSE s[j + 1]
    BY <2>1, RemoveAtElements, LenProperties
  <2> HIDE DEF t
  <2>4. PICK i \in 1..Len(s), j \in 1..Len(s) : i < j /\ s[i] = x /\ s[j] = y
    BY <1>0 DEF Before
  <2>5. i # p /\ j # p
    BY <2>1, <2>4
  <2>6. at(i) \in DOMAIN t /\ at(j) \in DOMAIN t /\ at(i) < at(j)
    BY <1>0, <2>1, <2>3, <2>4, <2>5
  <2>7. t[at(i)] = x /\ t[at(j)] = y
    <3>1. ASSUME NEW m \in 1..Len(s), m # p PROVE t[at(m)] = s[m]
      <4>1. CASE m < p
        BY <1>0, <2>1, <2>3, <4>1
      <4>2. CASE m > p
        <5>1. m - 1 \in 1 .. Len(s) - 1 /\ ~ (m - 1 < p) /\ (m - 1) + 1 = m /\ at(m) = m - 1
          BY <1>0, <2>1, <4>2
        <5> QED BY <2>3, <5>1
      <4> QED BY <1>0, <2>1, <3>1, <4>1, <4>2
    <3> QED BY <2>4, <2>5, <3>1
  <2> HIDE DEF at
  <2> QED BY <2>2, <2>6, <2>7 DEF Before
<1> QED BY <1>1, <1>2

\* An item moved to the front comes before all others, which keep their order.
LEMMA ToFrontOrder ==
    ASSUME NEW S, NEW s \in Seq(S), Distinct(s), NEW k \in S
    PROVE  /\ \A y \in Elems(s) \ {k} : Before(ToFront(s, k), k, y)
           /\ \A x, y : x # k /\ y # k /\ Before(s, x, y) => Before(ToFront(s, k), x, y)
<1> DEFINE u == Unlink(s, k)
           t == <<k>> \o u
<1>1. u \in Seq(S) /\ Elems(u) = Elems(s) \ {k}
  BY UnlinkElements
<1>2. \A x, y : x # k /\ y # k /\ Before(s, x, y) => Before(u, x, y)
  BY UnlinkOrder
<1> HIDE DEF u
<1>3. Len(u) \in Nat /\ DOMAIN u = 1..Len(u)
  BY <1>1, LenProperties
<1>4. /\ DOMAIN t = 1..(Len(u) + 1)
      /\ t[1] = k /\ \A j \in 1..Len(u) : t[j + 1] = u[j]
  <2>1. <<k>> \in Seq(S) /\ Len(<<k>>) = 1 /\ <<k>>[1] = k
    OBVIOUS
  <2> QED BY <1>1, <1>3, <2>1, ConcatProperties, LenProperties
<1> HIDE DEF t
<1>5. ASSUME NEW y \in Elems(s) \ {k} PROVE Before(t, k, y)
  <2>1. PICK j \in 1..Len(u) : u[j] = y
    BY <1>1, <1>3 DEF Elems
  <2>2. 1 \in DOMAIN t /\ j + 1 \in DOMAIN t /\ 1 < j + 1
    BY <1>3, <1>4
  <2> QED BY <1>4, <2>1, <2>2 DEF Before
<1>6. ASSUME NEW x, NEW y, Before(u, x, y) PROVE Before(t, x, y)
  <2>1. PICK i \in 1..Len(u), j \in 1..Len(u) : i < j /\ u[i] = x /\ u[j] = y
    BY <1>3, <1>6 DEF Before
  <2>2. i + 1 \in DOMAIN t /\ j + 1 \in DOMAIN t /\ i + 1 < j + 1
    BY <1>3, <1>4, <2>1
  <2> QED BY <1>4, <2>1, <2>2 DEF Before
<1> QED BY <1>2, <1>5, <1>6 DEF ToFront, t, u

\* A list is its first item and the others.
LEMMA TailElements ==
    ASSUME NEW S, NEW s \in Seq(S), s # <<>>, Distinct(s)
    PROVE  /\ Head(s) \in Elems(s) /\ Tail(s) \in Seq(S) /\ Distinct(Tail(s))
           /\ Elems(Tail(s)) = Elems(s) \ {Head(s)}
<1> DEFINE t == Tail(s)
<1>1. Len(s) \in Nat /\ Len(s) > 0 /\ DOMAIN s = 1..Len(s)
  BY LenProperties, EmptySeq
<1>2. /\ Head(s) = s[1] /\ t \in Seq(S) /\ Len(t) = Len(s) - 1
      /\ \A i \in 1..Len(t) : t[i] = s[i + 1]
  BY HeadTailProperties
<1> HIDE DEF t
<1>3. DOMAIN t = 1..Len(t)
  BY <1>2, LenProperties
<1>4. \A i \in DOMAIN t : i + 1 \in DOMAIN s /\ i + 1 # 1 /\ t[i] = s[i + 1]
  BY <1>1, <1>2, <1>3
<1>5. \A i \in DOMAIN s \ {1} : i - 1 \in DOMAIN t /\ t[i - 1] = s[i]
  <2> TAKE i \in DOMAIN s \ {1}
  <2>1. i - 1 \in 1..Len(t) /\ (i - 1) + 1 = i
    BY <1>1, <1>2
  <2> QED BY <1>2, <1>3, <2>1
<1>6. 1 \in DOMAIN s
  BY <1>1
<1>7. Elems(t) = Elems(s) \ {s[1]}
  <2>1. Elems(t) \subseteq Elems(s) \ {s[1]}
    BY <1>4, <1>6 DEF Elems, Distinct
  <2>2. Elems(s) \ {s[1]} \subseteq Elems(t)
    BY <1>5 DEF Elems
  <2> QED BY <2>1, <2>2
<1>8. Distinct(t)
  <2> SUFFICES ASSUME NEW i \in DOMAIN t, NEW j \in DOMAIN t, t[i] = t[j] PROVE i = j
    BY DEF Distinct
  <2>1. i + 1 = j + 1
    BY <1>4 DEF Distinct
  <2> QED BY <1>2, <1>3, <2>1
<1> QED BY <1>2, <1>6, <1>7, <1>8 DEF t, Elems

\* From the least recently used item to the most recently used one.
LEMMA ReverseElements ==
    ASSUME NEW S, NEW s \in Seq(S)
    PROVE  Reverse(s) \in Seq(S) /\ Elems(Reverse(s)) = Elems(s)
<1> DEFINE n == Len(s)
           t == Reverse(s)
<1>1. n \in Nat /\ DOMAIN s = 1..n /\ \A i \in 1..n : s[i] \in S
  BY LenProperties, ElementOfSeq
<1>2. t = [i \in 1..n |-> s[(n - i) + 1]]
  BY DEF Reverse
<1>3. \A i \in 1..n : (n - i) + 1 \in 1..n /\ (n - ((n - i) + 1)) + 1 = i
  BY <1>1
<1>4. t \in [1..n -> S]
  BY <1>1, <1>2, <1>3
<1>5. t \in Seq(S)
  BY <1>1, <1>4, IsASeq
<1>6. DOMAIN t = 1..n /\ \A i \in 1..n : t[i] = s[(n - i) + 1] /\ s[i] = t[(n - i) + 1]
  BY <1>1, <1>2, <1>3
<1> HIDE DEF t
<1>7. Elems(t) \subseteq Elems(s)
  BY <1>1, <1>3, <1>6 DEF Elems
<1>8. Elems(s) \subseteq Elems(t)
  BY <1>1, <1>3, <1>6 DEF Elems
<1> QED BY <1>5, <1>7, <1>8 DEF t

\* A set, in some order.
LEMMA SetToSeqElements ==
    ASSUME NEW S, IsFiniteSet(S)
    PROVE  SetToSeq(S) \in Seq(S) /\ Elems(SetToSeq(S)) = S /\ Distinct(SetToSeq(S))
<1> DEFINE n == Cardinality(S)
           f == SetToSeq(S)
<1>1. n \in Nat /\ ExistsBijection(1..n, S)
  BY FS_CardinalityType
<1>2. PICK b \in [1..n -> S] : /\ \A i, j \in 1..n : b[i] = b[j] => i = j
                               /\ \A x \in S : \E i \in 1..n : b[i] = x
  BY <1>1 DEF ExistsBijection, Bijection, Injection, Surjection, IsInjective
<1>3. f \in [1..n -> S] /\ IsInjective(f)
  <2>1. \E g \in [1..n -> S] : IsInjective(g)
    BY <1>2 DEF IsInjective
  <2> QED BY <2>1 DEF SetToSeq
<1>4. f \in Seq(S)
  BY <1>1, <1>3, IsASeq
<1> HIDE DEF f
<1>5. f \in Surjection(1..n, S)
  <2>1. IsFiniteSet(1..n) /\ Cardinality(1..n) = n
    BY <1>1, FS_Interval
  <2>2. f \in Injection(1..n, S)
    BY <1>3 DEF Injection, IsInjective
  <2> QED BY <2>1, <2>2, FS_Injection
<1>6. DOMAIN f = 1..n /\ \A x \in S : \E i \in 1..n : f[i] = x
  BY <1>3, <1>5 DEF Surjection
<1>7. Elems(f) = S
  BY <1>3, <1>6 DEF Elems
<1>8. Distinct(f)
  BY <1>3 DEF Distinct, IsInjective
<1> QED BY <1>4, <1>7, <1>8 DEF f
-----------------------------------------------------------------------------
(* Sums over sets                                                          *)

\* What the items of S weigh together.
Total(w, S) == FoldSet(LAMBDA x, n : w[x] + n, 0, S)

\* A set of subsets has all if it has each one that it has the parts of.
LEMMA SetInduction ==
    ASSUME NEW U, IsFiniteSet(U), NEW S,
           \A s \in SUBSET U : (\A x \in s : s \ {x} \in S) => s \in S
    PROVE  SUBSET U \subseteq S
<1> SUFFICES ASSUME (SUBSET U) \ S # {} PROVE FALSE
  OBVIOUS
<1> DEFINE T == (SUBSET U) \ S
           sizes == {Cardinality(s) : s \in T}
<1>1. \A s \in SUBSET U : IsFiniteSet(s) /\ Cardinality(s) \in Nat
  BY FS_Subset, FS_CardinalityType
<1>2. sizes \in SUBSET Nat /\ sizes # {}
  BY <1>1
<1> HIDE DEF sizes
<1>3. PICK n \in sizes : \A m \in sizes : n <= m
  BY <1>2, LeastElement
<1>4. PICK s \in T : n = Cardinality(s)
  BY DEF sizes
<1>5. ASSUME NEW x \in s
      PROVE  s \ {x} \in S
  <2>1. Cardinality(s \ {x}) = n - 1 /\ n \in Nat
    BY <1>1, <1>4, FS_RemoveElement
  <2>2. s \ {x} \in SUBSET U
    OBVIOUS
  <2>3. CASE s \ {x} \in T
    <3>1. n - 1 \in sizes
      BY <2>1, <2>3 DEF sizes
    <3>2. n <= n - 1
      BY <1>3, <3>1
    <3> QED BY <2>1, <3>2
  <2> QED BY <2>2, <2>3
<1> QED BY <1>5

\* t is the function that FoldSet iterates over the subsets of U, where
\* step[<<x, b>>] is what visiting x makes of b.
IsSetFold(t, U, base, step) ==
    t = [s \in SUBSET U |-> IF s = {} THEN base
                            ELSE LET x == CHOOSE x \in s : TRUE IN step[<<x, t[s \ {x}]>>]]

\* There is such a function, whatever the step.
LEMMA SetFoldExists ==
    ASSUME NEW U, IsFiniteSet(U), NEW B, NEW base \in B, NEW step \in [U \X B -> B]
    PROVE  \E t \in [SUBSET U -> B] : IsSetFold(t, U, base, step)
<1> DEFINE some(s) == CHOOSE x \in s : TRUE
           fold(t, s) == IF s = {} THEN base ELSE step[<<some(s), t[s \ {some(s)}]>>]
           Right(t, n) == \A s \in SUBSET U : Cardinality(s) <= n => t[s] = fold(t, s)
           S == {n \in Nat : \E t \in [SUBSET U -> B] : Right(t, n)}
<1>1. \A s \in SUBSET U : IsFiniteSet(s) /\ Cardinality(s) \in Nat
                          /\ (s # {} => some(s) \in s)
  BY FS_Subset, FS_CardinalityType
<1>2. \A s \in SUBSET U : s # {} =>
          /\ s \ {some(s)} \in SUBSET U
          /\ Cardinality(s \ {some(s)}) = Cardinality(s) - 1
          /\ some(s) \in U
  BY <1>1, FS_RemoveElement
<1> HIDE DEF some
<1>3. 0 \in S
  <2> DEFINE t == [s \in SUBSET U |-> base]
  <2>1. t \in [SUBSET U -> B]
    OBVIOUS
  <2>2. ASSUME NEW s \in SUBSET U, Cardinality(s) <= 0
        PROVE  t[s] = fold(t, s)
    <3>1. s = {}
      BY <1>1, <2>2, FS_EmptySet
    <3> QED BY <3>1
  <2> QED BY <2>1, <2>2
<1>4. ASSUME NEW n \in Nat, n \in S
      PROVE  n + 1 \in S
  <2>1. PICK t \in [SUBSET U -> B] : Right(t, n)
    BY <1>4
  <2> DEFINE u == [s \in SUBSET U |-> fold(t, s)]
  <2>2. ASSUME NEW s \in SUBSET U
        PROVE  fold(t, s) \in B
    <3>1. CASE s # {}
      <4>1. some(s) \in U /\ t[s \ {some(s)}] \in B
        BY <1>2, <3>1
      <4> QED BY <3>1, <4>1
    <3> QED BY <3>1
  <2>3. u \in [SUBSET U -> B]
    BY <2>2
  <2>4. ASSUME NEW s \in SUBSET U, Cardinality(s) <= n + 1
        PROVE  u[s] = fold(u, s)
    <3>1. CASE s = {}
      BY <3>1
    <3>2. CASE s # {}
      <4> DEFINE r == s \ {some(s)}
      <4>1. r \in SUBSET U /\ Cardinality(r) <= n
        BY <1>1, <1>2, <2>4, <3>2
      <4>2. t[r] = fold(t, r)
        BY <2>1, <4>1
      <4>3. u[r] = fold(t, r) /\ u[s] = fold(t, s)
        BY <4>1
      <4> HIDE DEF u, r
      <4>4. fold(t, s) = step[<<some(s), t[r]>>] /\ fold(u, s) = step[<<some(s), u[r]>>]
        BY <3>2 DEF r
      <4> QED BY <4>2, <4>3, <4>4
    <3> QED BY <3>1, <3>2
  <2> HIDE DEF u, fold
  <2>5. Right(u, n + 1)
    BY <2>4
  <2> QED BY <2>3, <2>5
<1>5. Cardinality(U) \in S
  <2> HIDE DEF S
  <2> QED BY <1>1, <1>3, <1>4, Induction
<1>6. PICK t \in [SUBSET U -> B] : Right(t, Cardinality(U))
  BY <1>5
<1>7. \A s \in SUBSET U : t[s] = fold(t, s)
  BY <1>6, FS_Subset
<1>8. t = [s \in SUBSET U |-> t[s]]
  OBVIOUS
<1>9. t = [s \in SUBSET U |-> fold(t, s)]
  <2> HIDE DEF fold
  <2> QED BY <1>7, <1>8
<1> QED BY <1>9 DEF IsSetFold, some

\* t gives every subset of U its weight, an item at a time.
IsSum(t, U, w) ==
    t = [s \in SUBSET U |-> IF s = {} THEN 0
                            ELSE LET x == CHOOSE x \in s : TRUE IN w[x] + t[s \ {x}]]

LEMMA SumExists ==
    ASSUME NEW U, IsFiniteSet(U), NEW w \in [U -> Nat]
    PROVE  \E t \in [SUBSET U -> Nat] : IsSum(t, U, w)
<1> DEFINE step == [p \in U \X Nat |-> w[p[1]] + p[2]]
           some(s) == CHOOSE x \in s : TRUE
<1>1. step \in [U \X Nat -> Nat]
  OBVIOUS
<1>2. PICK t \in [SUBSET U -> Nat] : IsSetFold(t, U, 0, step)
  <2> HIDE DEF step
  <2> QED BY <1>1, SetFoldExists
<1>3. ASSUME NEW s \in SUBSET U, s # {}
      PROVE  step[<<some(s), t[s \ {some(s)}]>>] = w[some(s)] + t[s \ {some(s)}]
  <2>1. some(s) \in U /\ t[s \ {some(s)}] \in Nat
    BY <1>3
  <2> HIDE DEF some
  <2> QED BY <2>1
<1> HIDE DEF step
<1>4. t = [s \in SUBSET U |-> IF s = {} THEN 0 ELSE step[<<some(s), t[s \ {some(s)}]>>]]
  BY <1>2 DEF IsSetFold
<1> HIDE DEF some
<1>5. t = [s \in SUBSET U |-> IF s = {} THEN 0 ELSE w[some(s)] + t[s \ {some(s)}]]
  BY <1>3, <1>4
<1> QED BY <1>5 DEF IsSum, some

\* A fold over a subset computes its weight.
LEMMA TotalIsSum ==
    ASSUME NEW U, IsFiniteSet(U), NEW w \in [U -> Nat],
           NEW t \in [SUBSET U -> Nat], IsSum(t, U, w), NEW V \in SUBSET U
    PROVE  Total(w, V) = t[V]
<1> DEFINE some(s) == CHOOSE x \in s : TRUE
           r == CHOOSE r : IsSum(r, V, w)
<1>1. Total(w, V) = r[V]
  BY DEF Total, FoldSet, MapThenFoldSet, IsSum
<1>2. IsSum(r, V, w)
  <2>1. IsFiniteSet(V) /\ [x \in V |-> w[x]] \in [V -> Nat]
    BY FS_Subset
  <2> DEFINE v == [x \in V |-> w[x]]
  <2>2. PICK u \in [SUBSET V -> Nat] : IsSum(u, V, v)
    BY <2>1, SumExists
  <2>3. \A s \in SUBSET V : s # {} => some(s) \in V /\ v[some(s)] = w[some(s)]
    OBVIOUS
  <2> HIDE DEF v
  <2>4. u = [s \in SUBSET V |-> IF s = {} THEN 0 ELSE v[some(s)] + u[s \ {some(s)}]]
    BY <2>2 DEF IsSum
  <2> HIDE DEF some
  <2>5. u = [s \in SUBSET V |-> IF s = {} THEN 0 ELSE w[some(s)] + u[s \ {some(s)}]]
    BY <2>3, <2>4
  <2>6. IsSum(u, V, w)
    BY <2>5 DEF IsSum, some
  <2> QED BY <2>6
<1> HIDE DEF r
<1> DEFINE S == {s \in SUBSET V : r[s] = t[s]}
<1>3. ASSUME NEW s \in SUBSET V, \A x \in s : s \ {x} \in S
      PROVE  s \in S
  <2>1. r[s] = (IF s = {} THEN 0 ELSE w[some(s)] + r[s \ {some(s)}])
    BY <1>2 DEF IsSum
  <2>2. t[s] = (IF s = {} THEN 0 ELSE w[some(s)] + t[s \ {some(s)}])
    BY DEF IsSum
  <2>3. s # {} => r[s \ {some(s)}] = t[s \ {some(s)}]
    BY <1>3
  <2> QED BY <2>1, <2>2, <2>3
<1>4. IsFiniteSet(V)
  BY FS_Subset
<1>5. V \in S
  <2> HIDE DEF S
  <2> QED BY <1>3, <1>4, SetInduction
<1> QED BY <1>1, <1>5

\* Any item of the set may be weighed first.
LEMMA TotalWithout ==
    ASSUME NEW U, IsFiniteSet(U), NEW w \in [U -> Nat]
    PROVE  /\ Total(w, {}) = 0
           /\ \A s \in SUBSET U : Total(w, s) \in Nat
           /\ \A s \in SUBSET U : \A x \in s : Total(w, s) = w[x] + Total(w, s \ {x})
<1> DEFINE some(s) == CHOOSE x \in s : TRUE
<1>1. PICK t \in [SUBSET U -> Nat] : IsSum(t, U, w)
  BY SumExists
<1>2. \A s \in SUBSET U : Total(w, s) = t[s] /\ t[s] \in Nat
  BY <1>1, TotalIsSum
<1>3. t[{}] = 0 /\ \A s \in SUBSET U : s # {} => t[s] = w[some(s)] + t[s \ {some(s)}]
  BY <1>1 DEF IsSum
<1> DEFINE S == {s \in SUBSET U : \A x \in s : t[s] = w[x] + t[s \ {x}]}
<1>4. ASSUME NEW s \in SUBSET U, \A x \in s : s \ {x} \in S
      PROVE  s \in S
  <2> SUFFICES ASSUME NEW z \in s PROVE t[s] = w[z] + t[s \ {z}]
    BY <1>4
  <2> DEFINE y == some(s)
  <2>1. y \in s /\ t[s] = w[y] + t[s \ {y}]
    BY <1>3
  <2> HIDE DEF y, some
  <2>2. CASE z = y
    BY <2>1, <2>2
  <2>3. CASE z # y
    <3> DEFINE r == s \ {z, y}
    <3>1. r = (s \ {y}) \ {z} /\ r = (s \ {z}) \ {y} /\ r \in SUBSET U
      OBVIOUS
    <3>2. z \in s \ {y} /\ y \in s \ {z}
      BY <2>1, <2>3
    <3> HIDE DEF r
    <3>3. t[s \ {y}] = w[z] + t[r] /\ t[s \ {z}] = w[y] + t[r]
      BY <1>4, <2>1, <3>1, <3>2
    <3>4. w[z] \in Nat /\ w[y] \in Nat /\ t[r] \in Nat
      BY <1>2, <2>1, <3>1
    <3> QED BY <2>1, <3>3, <3>4
  <2> QED BY <2>2, <2>3
<1>5. SUBSET U \subseteq S
  <2> HIDE DEF S
  <2>1. \A s \in SUBSET U : (\A x \in s : s \ {x} \in S) => s \in S
    BY <1>4
  <2>2. \A T : (\A s \in SUBSET U : (\A x \in s : s \ {x} \in T) => s \in T) => SUBSET U \subseteq T
    BY SetInduction
  <2> QED BY <2>1, <2>2
<1> QED BY <1>2, <1>3, <1>5

\* A set that an item joins.
LEMMA TotalWith ==
    ASSUME NEW U, IsFiniteSet(U), NEW w \in [U -> Nat], NEW s \in SUBSET U, NEW x \in U,
           x \notin s
    PROVE  Total(w, s \cup {x}) = Total(w, s) + w[x]
<1>1. s \cup {x} \in SUBSET U /\ (s \cup {x}) \ {x} = s
  OBVIOUS
<1>2. Total(w, s \cup {x}) = w[x] + Total(w, (s \cup {x}) \ {x}) /\ Total(w, s) \in Nat
  BY <1>1, TotalWithout
<1> QED BY <1>1, <1>2

\* The weights of other items do not matter.
LEMMA TotalSame ==
    ASSUME NEW U, IsFiniteSet(U), NEW w \in [U -> Nat], NEW v \in [U -> Nat],
           NEW s \in SUBSET U, \A x \in s : w[x] = v[x]
    PROVE  Total(w, s) = Total(v, s)
<1> DEFINE S == {r \in SUBSET s : Total(w, r) = Total(v, r)}
<1>1. ASSUME NEW r \in SUBSET s, \A x \in r : r \ {x} \in S
      PROVE  r \in S
  <2>1. CASE r = {}
    BY <2>1, TotalWithout
  <2>2. ASSUME NEW x \in r PROVE Total(w, r) = Total(v, r)
    <3>1. r \in SUBSET U /\ w[x] = v[x]
      OBVIOUS
    <3>2. Total(w, r) = w[x] + Total(w, r \ {x}) /\ Total(v, r) = v[x] + Total(v, r \ {x})
      BY <3>1, TotalWithout
    <3> QED BY <1>1, <3>1, <3>2
  <2> QED BY <2>1, <2>2
<1>2. IsFiniteSet(s)
  BY FS_Subset
<1>3. s \in S
  <2> HIDE DEF S
  <2> QED BY <1>1, <1>2, SetInduction
<1> QED BY <1>3

\* More items weigh no less.
LEMMA TotalAtMost ==
    ASSUME NEW U, IsFiniteSet(U), NEW w \in [U -> Nat], NEW t \in SUBSET U, NEW s \in SUBSET t
    PROVE  Total(w, s) <= Total(w, t)
<1> DEFINE S == {r \in SUBSET U : \A q \in SUBSET r : Total(w, q) <= Total(w, r)}
<1>1. ASSUME NEW r \in SUBSET U, \A x \in r : r \ {x} \in S
      PROVE  r \in S
  <2> SUFFICES ASSUME NEW q \in SUBSET r PROVE Total(w, q) <= Total(w, r)
    OBVIOUS
  <2>1. Total(w, q) \in Nat /\ Total(w, r) \in Nat
    BY TotalWithout
  <2>2. CASE q = r
    BY <2>1, <2>2
  <2>3. ASSUME NEW x \in r \ q PROVE Total(w, q) <= Total(w, r)
    <3>1. q \in SUBSET (r \ {x}) /\ r \ {x} \in S /\ r \ {x} \in SUBSET U /\ w[x] \in Nat
      BY <1>1, <2>3
    <3>2. Total(w, q) <= Total(w, r \ {x}) /\ Total(w, r \ {x}) \in Nat
      BY <3>1, TotalWithout
    <3>3. Total(w, r) = w[x] + Total(w, r \ {x})
      BY <2>3, TotalWithout
    <3> QED BY <2>1, <3>1, <3>2, <3>3
  <2> QED BY <2>2, <2>3
<1>2. SUBSET U \subseteq S
  <2> HIDE DEF S
  <2> QED BY <1>1, SetInduction
<1> QED BY <1>2

\* A sum of weights of which at most one, that of z, is not 0
LEMMA TotalOfOne ==
    ASSUME NEW U, IsFiniteSet(U), NEW w \in [U -> Nat], NEW z, \A y \in U : y # z => w[y] = 0
    PROVE  Total(w, U) = IF z \in U THEN w[z] ELSE 0
<1> DEFINE S == {r \in SUBSET U : z \notin r => Total(w, r) = 0}
<1>1. ASSUME NEW r \in SUBSET U, \A x \in r : r \ {x} \in S PROVE r \in S
  <2> SUFFICES ASSUME z \notin r PROVE Total(w, r) = 0
    OBVIOUS
  <2>1. CASE r = {}
    BY <2>1, TotalWithout
  <2>2. ASSUME NEW x \in r PROVE Total(w, r) = 0
    <3>1. w[x] = 0 /\ Total(w, r \ {x}) = 0
      BY <1>1, <2>2
    <3>2. Total(w, r) = w[x] + Total(w, r \ {x})
      BY <2>2, TotalWithout
    <3> QED BY <3>1, <3>2
  <2> QED BY <2>1, <2>2
<1>2. SUBSET U \subseteq S
  <2> HIDE DEF S
  <2> QED BY <1>1, SetInduction
<1>3. CASE z \in U
  <2>1. Total(w, U) = w[z] + Total(w, U \ {z}) /\ w[z] \in Nat
    BY <1>3, TotalWithout
  <2>2. Total(w, U \ {z}) = 0
    BY <1>2
  <2> QED BY <1>3, <2>1, <2>2
<1>4. CASE z \notin U
  BY <1>2, <1>4
<1> QED BY <1>3, <1>4

-----------------------------------------------------------------------------
(* Division                                                                *)

\* What division means
LEMMA Division ==
    ASSUME NEW x \in Int, NEW y \in Nat \ {0}
    PROVE  /\ x \div y \in Int /\ x % y \in 0..y - 1
           /\ x = y * (x \div y) + (x % y)
OBVIOUS

\* Multiples of y below y
LEMMA NoMultiple ==
    ASSUME NEW y \in Nat \ {0}, NEW k \in Int, -y < y * k, y * k < y
    PROVE  k = 0
<1>1. CASE k >= 1
  <2>1. y * k >= y  BY <1>1
  <2> QED  BY <2>1
<1>2. CASE k <= -1
  <2>1. y * k <= -y  BY <1>2
  <2> QED  BY <2>1
<1> QED  BY <1>1, <1>2

\* A number in range that differs from x by a multiple of y is its remainder.
LEMMA Remainder ==
    ASSUME NEW x \in Int, NEW y \in Nat \ {0}, NEW k \in Int, NEW z \in 0..y - 1, x = y * k + z
    PROVE  x % y = z /\ x \div y = k
<1> DEFINE q == x \div y
           r == x % y
<1>1. q \in Int /\ r \in 0..y - 1 /\ x = y * q + r  BY Division
<1> HIDE DEF q, r
<1>2. y * (q - k) = z - r  BY <1>1
<1>3. -y < z - r /\ z - r < y  BY <1>1
<1>4. q - k = 0  BY <1>1, <1>2, <1>3, NoMultiple
<1>5. z - r = 0  BY <1>1, <1>2, <1>4
<1> QED  BY <1>1, <1>4, <1>5 DEF q, r

\* Multiples of t keep the order of their factors.
LEMMA MultipleOrder ==
    ASSUME NEW t \in Nat \ {0}, NEW x \in Int, NEW y \in Int
    PROVE  x < y <=> t * x + t <= t * y
<1>1. CASE x < y
  <2> DEFINE d == y - x - 1
  <2>1. d \in Nat /\ y = x + 1 + d
    BY <1>1
  <2> HIDE DEF d
  <2>2. t * d \in Nat /\ t * y = t * x + t + t * d
    BY <2>1
  <2>3. t * x \in Int
    OBVIOUS
  <2> QED BY <1>1, <2>2, <2>3
<1>2. CASE y <= x
  <2> DEFINE d == x - y
  <2>1. d \in Nat /\ x = y + d
    BY <1>2
  <2> HIDE DEF d
  <2>2. t * d \in Nat /\ t * x = t * y + t * d
    BY <2>1
  <2>3. t * y \in Int
    OBVIOUS
  <2> QED BY <1>2, <2>2, <2>3
<1> QED BY <1>1, <1>2

LEMMA CancelFactor ==
    ASSUME NEW t \in Nat \ {0}, NEW x \in Int, NEW y \in Int
    PROVE  x * t = y * t <=> x = y
<1>1. x * t = t * x /\ y * t = t * y /\ t * x \in Int /\ t * y \in Int
  OBVIOUS
<1>2. (x < y => t * x + t <= t * y) /\ (y < x => t * y + t <= t * x)
  BY MultipleOrder
<1> QED BY <1>1, <1>2
-----------------------------------------------------------------------------
(* Definitions by recursion                                                *)

\* s is what a definition by recursion computes: base at 0, and at k what step makes of
\* the value at back[k].
IsRecursion(s, n, base, back, step) ==
    s = [k \in 0..n |-> IF k = 0 THEN base ELSE step[<<k, s[back[k]]>>]]

\* There is such a function, when back goes back.
LEMMA RecursionExists ==
    ASSUME NEW B, NEW base \in B, NEW n \in Nat, NEW back \in [1..n -> Nat],
           \A k \in 1..n : back[k] < k, NEW step \in [(1..n) \X B -> B]
    PROVE  \E s \in [0..n -> B] : IsRecursion(s, n, base, back, step)
<1> DEFINE value(s, k) == IF k = 0 THEN base ELSE step[<<k, s[back[k]]>>]
           Right(s, m) == \A k \in 0..m : s[k] = value(s, k)
           S == {m \in Nat : m <= n => \E s \in [0..n -> B] : Right(s, m)}
<1>1. 0 \in S
  <2> DEFINE s == [k \in 0..n |-> base]
  <2>1. s \in [0..n -> B] /\ Right(s, 0)
    OBVIOUS
  <2> QED BY <2>1
<1>2. ASSUME NEW m \in Nat, m \in S PROVE m + 1 \in S
  <2> SUFFICES ASSUME m + 1 <= n PROVE \E s \in [0..n -> B] : Right(s, m + 1)
    OBVIOUS
  <2>1. PICK s \in [0..n -> B] : Right(s, m)
    BY <1>2
  <2> DEFINE t == [k \in 0..n |-> IF k <= m THEN s[k] ELSE value(s, k)]
  <2>2. ASSUME NEW k \in 1..n PROVE value(s, k) \in B /\ back[k] \in 0..n
    <3>1. back[k] \in 0..n /\ s[back[k]] \in B
      OBVIOUS
    <3>2. step[<<k, s[back[k]]>>] \in B
      BY <3>1
    <3> QED BY <3>1, <3>2
  <2>3. t \in [0..n -> B]
    BY <2>2
  <2>4. ASSUME NEW k \in 0..m + 1 PROVE t[k] = value(t, k)
    <3>1. t[k] = value(s, k)
      <4>1. CASE k <= m
        BY <4>1, <2>1
      <4>2. CASE k = m + 1
        BY <4>2
      <4> QED BY <4>1, <4>2
    <3>2. k # 0 => t[back[k]] = s[back[k]]
      <4> SUFFICES ASSUME k # 0 PROVE t[back[k]] = s[back[k]]
        OBVIOUS
      <4>1. k \in 1..n /\ back[k] \in 0..n /\ back[k] <= m
        OBVIOUS
      <4> QED BY <4>1
    <3> HIDE DEF t
    <3>3. value(t, k) = value(s, k)
      BY <3>2
    <3> QED BY <3>1, <3>3
  <2> HIDE DEF t, value
  <2>5. Right(t, m + 1)
    BY <2>4
  <2> QED BY <2>3, <2>5
<1>3. n \in S
  <2> HIDE DEF S
  <2> QED BY <1>1, <1>2, Induction
<1>4. PICK s \in [0..n -> B] : Right(s, n)
  BY <1>3
<1>5. s = [k \in 0..n |-> s[k]]
  OBVIOUS
<1>6. s = [k \in 0..n |-> value(s, k)]
  <2> HIDE DEF value
  <2> QED BY <1>4, <1>5
<1> QED BY <1>6 DEF IsRecursion

\* The same where every value is made of the one before.
IsSteps(s, n, base, step) ==
    s = [k \in 0..n |-> IF k = 0 THEN base ELSE step[<<k, s[k - 1]>>]]

\* There is such a function, step by step.
LEMMA StepsExist ==
    ASSUME NEW B, NEW base \in B, NEW n \in Nat, NEW step \in [(1..n) \X B -> B]
    PROVE  \E s \in [0..n -> B] : IsSteps(s, n, base, step)
<1> DEFINE back == [k \in 1..n |-> k - 1]
<1>1. back \in [1..n -> Nat] /\ \A k \in 1..n : back[k] < k
  OBVIOUS
<1>2. PICK s \in [0..n -> B] : IsRecursion(s, n, base, back, step)
  <2> HIDE DEF back
  <2> QED BY <1>1, RecursionExists
<1>3. \A k \in 0..n : k # 0 => back[k] = k - 1
  OBVIOUS
<1> HIDE DEF back
<1>4. s = [k \in 0..n |-> IF k = 0 THEN base ELSE step[<<k, s[k - 1]>>]]
  BY <1>2, <1>3 DEF IsRecursion
<1> QED BY <1>4 DEF IsSteps

\* What holds at 0, and at k + 1 if it holds at k, holds up to n.
LEMMA UpTo ==
    ASSUME NEW n \in Nat, NEW G, 0 \in G, \A k \in 0..n - 1 : k \in G => k + 1 \in G
    PROVE  0..n \subseteq G
<1> DEFINE S == {k \in Nat : k <= n => k \in G}
<1>1. 0 \in S
  OBVIOUS
<1>2. ASSUME NEW k \in Nat, k \in S PROVE k + 1 \in S
  BY <1>2
<1>3. Nat \subseteq S
  <2> HIDE DEF S
  <2> QED BY <1>1, <1>2, Induction
<1> QED BY <1>3
-----------------------------------------------------------------------------
(* Powers of two                                                           *)

\* Powers of two double.
LEMMA TwoToValue ==
    /\ TwoTo(0) = 1
    /\ \A n \in Nat : TwoTo(n) \in Nat \ {0} /\ TwoTo(n + 1) = 2 * TwoTo(n)
<1> DEFINE IsPower(t, n) == t = [k \in 0..n |-> IF k = 0 THEN 1 ELSE 2 * t[k - 1]]
<1>1. ASSUME NEW n \in Nat PROVE \E t \in [0..n -> Nat] : IsPower(t, n)
  <2> DEFINE step == [x \in (1..n) \X Nat |-> 2 * x[2]]
  <2>1. step \in [(1..n) \X Nat -> Nat] /\ 1 \in Nat
    OBVIOUS
  <2>2. \A k \in 1..n, v \in Nat : step[<<k, v>>] = 2 * v
    OBVIOUS
  <2> HIDE DEF step
  <2>3. PICK t \in [0..n -> Nat] : IsSteps(t, n, 1, step)
    BY <2>1, StepsExist
  <2>4. \A k \in 0..n : k # 0 => step[<<k, t[k - 1]>>] = 2 * t[k - 1]
    BY <2>2
  <2>5. IsPower(t, n)
    BY <2>3, <2>4 DEF IsSteps
  <2> QED BY <2>5
<1> DEFINE power(n) == CHOOSE t : IsPower(t, n)
<1>2. ASSUME NEW n \in Nat PROVE IsPower(power(n), n)
  <2>1. \E t : IsPower(t, n)
    BY <1>1
  <2> HIDE DEF IsPower
  <2> QED BY <2>1
<1>3. \A n : TwoTo(n) = power(n)[n]
  BY DEF TwoTo
<1>4. TwoTo(0) = 1
  <2>1. IsPower(power(0), 0) /\ TwoTo(0) = power(0)[0]
    BY <1>2, <1>3
  <2> HIDE DEF power
  <2> QED BY <2>1
<1> HIDE DEF power
<1>5. ASSUME NEW n \in Nat, NEW s, IsPower(s, n), NEW t, IsPower(t, n + 1), NEW k \in 0..n
      PROVE  s[k] = t[k] /\ s[k] \in Nat \ {0}
  <2> DEFINE G == {j \in 0..n : s[j] = t[j] /\ s[j] \in Nat \ {0}}
  <2>1. 0 \in G
    BY <1>5
  <2>2. ASSUME NEW j \in 0..n - 1, j \in G PROVE j + 1 \in G
    <3>1. j + 1 \in 0..n /\ j + 1 \in 0..n + 1 /\ j + 1 # 0 /\ (j + 1) - 1 = j
      OBVIOUS
    <3>2. s[j + 1] = 2 * s[j] /\ t[j + 1] = 2 * t[j]
      BY <1>5, <3>1
    <3> QED BY <2>2, <3>1, <3>2
  <2>3. 0..n \subseteq G
    <3> HIDE DEF G
    <3> QED BY <2>1, <2>2, UpTo
  <2> QED BY <2>3
<1>6. ASSUME NEW n \in Nat PROVE TwoTo(n) \in Nat \ {0} /\ TwoTo(n + 1) = 2 * TwoTo(n)
  <2>1. IsPower(power(n), n) /\ IsPower(power(n + 1), n + 1) /\ n \in 0..n
    BY <1>2
  <2>2. power(n)[n] = power(n + 1)[n] /\ power(n)[n] \in Nat \ {0}
    <3> HIDE DEF IsPower
    <3> QED BY <2>1, <1>5
  <2>3. power(n + 1)[n + 1] = 2 * power(n + 1)[n]
    <3>1. n + 1 \in 0..n + 1 /\ n + 1 # 0 /\ (n + 1) - 1 = n
      OBVIOUS
    <3> QED BY <2>1, <3>1
  <2> QED BY <1>3, <2>2, <2>3
<1> QED BY <1>4, <1>6

\* TwoTo(a + b) is a product.
LEMMA TwoToSum ==
    ASSUME NEW a \in Nat, NEW b \in Nat
    PROVE  TwoTo(a + b) = TwoTo(a) * TwoTo(b)
<1> DEFINE S == {c \in Nat : TwoTo(a + c) = TwoTo(a) * TwoTo(c)}
<1>1. 0 \in S
  <2>1. a + 0 = a /\ TwoTo(0) = 1 /\ TwoTo(a) \in Nat
    BY TwoToValue
  <2> QED BY <2>1
<1>2. ASSUME NEW c \in Nat, c \in S PROVE c + 1 \in S
  <2>1. TwoTo(c + 1) = 2 * TwoTo(c) /\ TwoTo(c) \in Nat /\ TwoTo(a) \in Nat
    BY TwoToValue
  <2>2. TwoTo((a + c) + 1) = 2 * TwoTo(a + c) /\ a + c \in Nat
    BY TwoToValue
  <2>3. TwoTo(a + c) = TwoTo(a) * TwoTo(c) /\ (a + c) + 1 = a + (c + 1)
    BY <1>2
  <2>4. 2 * (TwoTo(a) * TwoTo(c)) = TwoTo(a) * (2 * TwoTo(c))
    BY <2>1
  <2> QED BY <2>1, <2>2, <2>3, <2>4
<1>3. Nat \subseteq S
  <2> HIDE DEF S
  <2> QED BY <1>1, <1>2, Induction
<1> QED BY <1>3

\* Powers of two in order
LEMMA TwoToOrder ==
    ASSUME NEW a \in Nat, NEW c \in Nat, TwoTo(a) < TwoTo(c)
    PROVE  a < c
<1> SUFFICES ASSUME c <= a PROVE FALSE
  OBVIOUS
<1> DEFINE d == a - c
           x == TwoTo(c)
           y == TwoTo(d)
<1>1. d \in Nat /\ a = c + d
  OBVIOUS
<1> HIDE DEF d
<1>2. TwoTo(a) = x * y
  BY <1>1, TwoToSum
<1>3. x \in Nat \ {0} /\ y \in Nat \ {0} /\ TwoTo(a) < x
  BY <1>1, TwoToValue
<1> HIDE DEF x, y
<1>4. x * y >= x
  BY <1>3
<1> QED BY <1>2, <1>3, <1>4
=============================================================================
