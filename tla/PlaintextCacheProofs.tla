------------------------- MODULE PlaintextCacheProofs -------------------------
(***************************************************************************)
(* Proofs about the plaintext cache, for any plaintexts, sizes, budgets    *)
(* and operations.                                                         *)
(***************************************************************************)
EXTENDS PlaintextCache, ListLemmas

CacheRec == [lru : Seq(Pt), entries : SUBSET Pt, total : Nat, pinned : SUBSET Pt]

\* The list and the byte count tell of the entries, and only these are pinned.
Exact(c) ==
    /\ c \in CacheRec
    /\ Elems(c.lru) = c.entries /\ Distinct(c.lru)
    /\ c.total = Total(Bytes, c.entries)
    /\ c.pinned \subseteq c.entries
-----------------------------------------------------------------------------
(* The bookkeeping                                                         *)

\* RegisterDevicePlaintext of a new device copy
LEMMA TrackExact ==
    ASSUME PlaintextAssumption, NEW c, Exact(c), NEW p \in Pt, p \notin c.entries
    PROVE  /\ Exact(TrackPlaintext(c, p))
           /\ TrackPlaintext(c, p).entries = c.entries \cup {p}
           /\ TrackPlaintext(c, p).pinned = c.pinned
<1> DEFINE d == TrackPlaintext(c, p)
<1>1. c \in CacheRec /\ Bytes[p] \in Nat
  BY DEF Exact, PlaintextAssumption
<1>2. /\ ToFront(c.lru, p) \in Seq(Pt) /\ Distinct(ToFront(c.lru, p))
      /\ Elems(ToFront(c.lru, p)) = c.entries \cup {p}
  BY <1>1, ToFrontElements DEF Exact, CacheRec
<1>3. Total(Bytes, c.entries \cup {p}) = c.total + Bytes[p]
  BY <1>1, TotalWith DEF Exact, CacheRec, PlaintextAssumption
<1>4. /\ d \in CacheRec
      /\ d.lru = ToFront(c.lru, p) /\ d.entries = c.entries \cup {p}
      /\ d.total = c.total + Bytes[p] /\ d.pinned = c.pinned
  <2>1. c.entries \cup {p} \in SUBSET Pt /\ c.total + Bytes[p] \in Nat
    BY <1>1 DEF CacheRec
  <2> QED BY <1>1, <1>2, <2>1 DEF TrackPlaintext, CacheRec
<1> HIDE DEF d
<1>5. Exact(d)
  BY <1>2, <1>3, <1>4 DEF Exact
<1> QED BY <1>4, <1>5 DEF d

LEMMA UntrackExact ==
    ASSUME PlaintextAssumption, NEW c, Exact(c), NEW p \in Pt
    PROVE  /\ Exact(UntrackPlaintext(c, p))
           /\ UntrackPlaintext(c, p).entries = c.entries \ {p}
           /\ UntrackPlaintext(c, p).pinned = c.pinned \ {p}
           /\ UntrackPlaintext(c, p).total <= c.total
<1> DEFINE d == UntrackPlaintext(c, p)
<1>1. c \in CacheRec /\ Bytes[p] \in Nat /\ c.total \in Nat
  BY DEF Exact, PlaintextAssumption, CacheRec
<1>2. CASE p \notin c.entries
  BY <1>1, <1>2 DEF UntrackPlaintext, Exact
<1>3. CASE p \in c.entries
  <2>1. /\ Unlink(c.lru, p) \in Seq(Pt) /\ Distinct(Unlink(c.lru, p))
        /\ Elems(Unlink(c.lru, p)) = c.entries \ {p}
    BY <1>1, UnlinkElements DEF Exact, CacheRec
  <2>2. /\ c.total = Bytes[p] + Total(Bytes, c.entries \ {p})
        /\ Total(Bytes, c.entries \ {p}) \in Nat
    <3>1. /\ IsFiniteSet(Pt) /\ Bytes \in [Pt -> Nat] /\ c.total = Total(Bytes, c.entries)
          /\ c.entries \in SUBSET Pt /\ c.entries \ {p} \in SUBSET Pt
      BY <1>1 DEF Exact, CacheRec, PlaintextAssumption
    <3> QED BY <1>3, <3>1, TotalWithout
  <2>3. /\ d \in CacheRec
        /\ d.lru = Unlink(c.lru, p) /\ d.entries = c.entries \ {p}
        /\ d.total = c.total - Bytes[p] /\ d.pinned = c.pinned \ {p}
    <3>1. c.total - Bytes[p] \in Nat /\ ~ (Bytes[p] > c.total)
      BY <1>1, <2>2
    <3> QED BY <1>1, <1>3, <2>1, <3>1 DEF UntrackPlaintext, CacheRec
  <2> HIDE DEF d
  <2>4. d.total = Total(Bytes, d.entries) /\ d.total <= c.total
    BY <1>1, <2>2, <2>3
  <2>5. Exact(d)
    BY <2>1, <2>3, <2>4 DEF Exact
  <2> QED BY <2>3, <2>4, <2>5 DEF d
<1> QED BY <1>2, <1>3

LEMMA TouchExact ==
    ASSUME NEW c, Exact(c), NEW p \in Pt
    PROVE  /\ Exact(TouchPlaintext(c, p))
           /\ TouchPlaintext(c, p).entries = c.entries
           /\ TouchPlaintext(c, p).pinned = c.pinned
           /\ TouchPlaintext(c, p).total = c.total
<1> DEFINE d == TouchPlaintext(c, p)
<1>1. CASE p \notin c.entries
  BY <1>1 DEF TouchPlaintext
<1>2. CASE p \in c.entries
  <2>1. /\ ToFront(c.lru, p) \in Seq(Pt) /\ Distinct(ToFront(c.lru, p))
        /\ Elems(ToFront(c.lru, p)) = c.entries
    <3>1. c.lru \in Seq(Pt) /\ Distinct(c.lru) /\ Elems(c.lru) = c.entries
      BY DEF Exact, CacheRec
    <3>2. /\ ToFront(c.lru, p) \in Seq(Pt) /\ Distinct(ToFront(c.lru, p))
          /\ Elems(ToFront(c.lru, p)) = Elems(c.lru) \cup {p}
      BY <3>1, ToFrontElements
    <3> QED BY <1>2, <3>1, <3>2
  <2>2. /\ d \in CacheRec /\ d.lru = ToFront(c.lru, p)
        /\ d.entries = c.entries /\ d.total = c.total /\ d.pinned = c.pinned
    BY <1>2, <2>1 DEF TouchPlaintext, Exact, CacheRec
  <2> HIDE DEF d
  <2>3. Exact(d)
    BY <2>1, <2>2 DEF Exact
  <2> QED BY <2>2, <2>3 DEF d
<1> QED BY <1>1, <1>2
-----------------------------------------------------------------------------
(* The loops                                                               *)

\* The bookkeeping that a loop may leave of c: it drops nothing that is pinned
\* or protected.
Pruned(c, protect) ==
    {d \in CacheRec : /\ Exact(d) /\ d.pinned = c.pinned /\ d.entries \subseteq c.entries
                      /\ c.entries \cap (protect \cup c.pinned) \subseteq d.entries}

LEMMA UntrackPrunes ==
    ASSUME PlaintextAssumption, NEW c, NEW protect, NEW d \in Pruned(c, protect),
           NEW p \in Victims(d, protect)
    PROVE  /\ UntrackPlaintext(d, p) \in Pruned(c, protect)
           /\ UntrackPlaintext(d, p).entries = d.entries \ {p}
<1>1. Exact(d) /\ p \in Pt /\ p \notin protect \cup d.pinned /\ d.pinned = c.pinned
  BY DEF Pruned, Victims, Exact, CacheRec
<1>2. /\ Exact(UntrackPlaintext(d, p))
      /\ UntrackPlaintext(d, p).entries = d.entries \ {p}
      /\ UntrackPlaintext(d, p).pinned = d.pinned \ {p}
  BY <1>1, UntrackExact
<1>3. d.pinned \ {p} = d.pinned
  BY <1>1
<1> QED BY <1>1, <1>2, <1>3 DEF Pruned, Exact

\* EnforcePlaintextBudget, where it evicts: the budget is met at the end, or
\* nothing is left that may go.
LEMMA EnforceEvicts ==
    ASSUME PlaintextAssumption, NEW c, Exact(c), NEW protect, NEW b \in Nat, NEW holds,
           Evicts(b, holds)
    PROVE  LET e == EnforcePlaintextBudget(c, protect, b, holds)
           IN  /\ e \in Pruned(c, protect)
               /\ e.total <= b \/ Victims(e, protect) = {}
<1> DEFINE list == Reverse(c.lru)
           n == Len(list)
           A == Pruned(c, protect)
           visit(d, p) == IF d.total <= b \/ p \notin Victims(d, protect) THEN d
                          ELSE UntrackPlaintext(d, p)
           step == [x \in A \X (1..n) |-> visit(x[1], list[x[2]])]
           IsIter(f) == f = [s \in SUBSET DOMAIN list |->
                               IF s = {} THEN c
                               ELSE LET x == Max(s) IN visit(f[s \ {x}], list[x])]
           iter == CHOOSE f : IsIter(f)
           e == EnforcePlaintextBudget(c, protect, b, holds)
<1>1. c \in A
  BY DEF Pruned, Exact
<1>2. /\ n \in Nat /\ DOMAIN list = 1..n /\ list \in Seq(Pt)
      /\ \A p \in c.entries : \E i \in 1..n : list[i] = p
  <2>1. c.lru \in Seq(Pt) /\ Elems(c.lru) = c.entries
    BY DEF Exact, CacheRec
  <2>2. list \in Seq(Pt) /\ Elems(list) = c.entries
    BY <2>1, ReverseElements
  <2> HIDE DEF list
  <2>3. n \in Nat /\ DOMAIN list = 1..n
    BY <2>2, LenProperties
  <2> QED BY <2>2, <2>3 DEF Elems
<1>3. e = iter[1..n]
  BY <1>2 DEF EnforcePlaintextBudget, FoldLeft, MapThenFoldSet
<1> HIDE DEF list, A
<1>4. ASSUME NEW d \in A, NEW i \in 1..n
      PROVE  visit(d, list[i]) \in A
  BY UntrackPrunes DEF A
<1>5. IsIter(iter)
  <2>1. step \in [A \X (1..n) -> A]
    BY <1>4
  <2> HIDE DEF step
  <2>2. PICK f \in [SUBSET (1..n) -> A] : IsFold(f, n, c, step)
    BY <1>1, <1>2, <2>1, FoldExists
  <2>3. ASSUME NEW s \in SUBSET (1..n), s # {}
        PROVE  f[s] = visit(f[s \ {Max(s)}], list[Max(s)])
    <3>1. Max(s) \in 1..n /\ f[s \ {Max(s)}] \in A
      BY <1>2, <2>3, LargestIndex
    <3>2. f[s] = step[<<f[s \ {Max(s)}], Max(s)>>]
      BY <2>2, <2>3 DEF IsFold
    <3> HIDE DEF visit
    <3> QED BY <3>1, <3>2 DEF step
  <2>4. f[{}] = c
    BY <2>2 DEF IsFold
  <2>5. f = [s \in SUBSET DOMAIN list |-> f[s]]
    BY <1>2
  <2> HIDE DEF visit
  <2>6. IsIter(f)
    BY <1>2, <2>3, <2>4, <2>5
  <2> QED BY <2>6
<1> HIDE DEF iter
\* What has been visited is gone or has to stay, unless the budget is met.
<1> DEFINE P(i) == i <= n => /\ iter[1..i] \in A
                             /\ \/ iter[1..i].total <= b
                                \/ \A j \in 1..i : list[j] \notin Victims(iter[1..i], protect)
<1>6. P(0)
  <2>1. 1..0 = {} /\ {} \in SUBSET DOMAIN list
    OBVIOUS
  <2>2. iter[1..0] = c
    BY <1>5, <2>1
  <2> QED BY <1>1, <2>1, <2>2
<1>7. ASSUME NEW i \in Nat, P(i)
      PROVE  P(i + 1)
  <2> SUFFICES ASSUME i + 1 <= n
               PROVE  /\ iter[1..(i + 1)] \in A
                      /\ \/ iter[1..(i + 1)].total <= b
                         \/ \A j \in 1..(i + 1) : list[j] \notin Victims(iter[1..(i + 1)], protect)
    OBVIOUS
  <2> DEFINE d == iter[1..i]
             p == list[i + 1]
             r == iter[1..(i + 1)]
  <2>1. i + 1 \in 1..n /\ i <= n /\ (i + 1) - 1 = i
    BY <1>2
  <2>2. r = visit(d, p)
    <3>1. /\ 1..(i + 1) \in SUBSET (1..n) /\ 1..(i + 1) # {}
          /\ Max(1..(i + 1)) = i + 1
          /\ (1..(i + 1)) \ {i + 1} = 1..i
      BY <1>2, <2>1, PrefixIndices
    <3> HIDE DEF visit
    <3> QED BY <1>2, <1>5, <3>1
  <2>3. d \in A /\ (d.total <= b \/ \A j \in 1..i : list[j] \notin Victims(d, protect))
    BY <1>7, <2>1, Zenon
  <2>4. \A j \in 1..(i + 1) : j \in 1..i \/ list[j] = p
    OBVIOUS
  <2> HIDE DEF d, p, r
  <2>5. CASE d.total <= b \/ p \notin Victims(d, protect)
    BY <2>2, <2>3, <2>4, <2>5 DEF d, p, r
  <2>6. CASE ~ (d.total <= b) /\ p \in Victims(d, protect)
    <3>1. r = UntrackPlaintext(d, p)
      BY <2>2, <2>6
    <3>2. r \in A /\ r.entries = d.entries \ {p}
      BY <2>3, <2>6, <3>1, UntrackPrunes DEF A
    <3>3. Victims(r, protect) \subseteq Victims(d, protect) \ {p}
      BY <2>3, <3>2 DEF Victims, A, Pruned
    <3> QED BY <2>3, <2>4, <2>6, <3>2, <3>3 DEF r
  <2> QED BY <2>5, <2>6
<1>8. P(n)
  <2> DEFINE S == {i \in Nat : P(i)}
  <2> HIDE DEF P
  <2>1. 0 \in S /\ \A i \in Nat : i \in S => i + 1 \in S
    BY <1>6, <1>7
  <2> HIDE DEF S
  <2>2. n \in S
    BY <1>2, <2>1, Induction
  <2> QED BY <2>2 DEF S
<1>9. n <= n
  BY <1>2
<1>10. e \in A /\ (e.total <= b \/ \A j \in 1..n : list[j] \notin Victims(e, protect))
  BY <1>3, <1>8, <1>9, Zenon
<1> HIDE DEF e
<1>11. Victims(e, protect) \subseteq c.entries
  BY <1>10 DEF A, Pruned, Victims
<1> QED BY <1>2, <1>10, <1>11 DEF A, e

\* OffloadPlaintexts drops what is not pinned.
LEMMA OffloadDrops ==
    ASSUME PlaintextAssumption, NEW c, Exact(c)
    PROVE  LET e == FoldLeft(UntrackPlaintext, c, SetToSeq(c.entries \ c.pinned))
           IN  e \in Pruned(c, {}) /\ e.entries = c.pinned
<1> DEFINE list == SetToSeq(c.entries \ c.pinned)
           n == Len(list)
           A == Pruned(c, {})
           step == [x \in A \X (1..n) |-> UntrackPlaintext(x[1], list[x[2]])]
           IsIter(f) == f = [s \in SUBSET DOMAIN list |->
                               IF s = {} THEN c
                               ELSE LET x == Max(s) IN UntrackPlaintext(f[s \ {x}], list[x])]
           iter == CHOOSE f : IsIter(f)
           e == FoldLeft(UntrackPlaintext, c, list)
<1>1. c \in A /\ c.pinned \subseteq c.entries
  BY DEF Pruned, Exact
<1>2. /\ n \in Nat /\ DOMAIN list = 1..n
      /\ \A p \in c.entries \ c.pinned : \E i \in 1..n : list[i] = p
      /\ \A i \in 1..n : list[i] \in c.entries \ c.pinned
  <2>1. IsFiniteSet(c.entries \ c.pinned)
    <3>1. c.entries \ c.pinned \in SUBSET Pt /\ IsFiniteSet(Pt)
      BY DEF Exact, CacheRec, PlaintextAssumption
    <3> QED BY <3>1, FS_Subset
  <2>2. list \in Seq(c.entries \ c.pinned) /\ Elems(list) = c.entries \ c.pinned
    BY <2>1, SetToSeqElements
  <2> HIDE DEF list
  <2>3. n \in Nat /\ DOMAIN list = 1..n
    BY <2>2, LenProperties
  <2> QED BY <2>2, <2>3, ElementOfSeq DEF Elems
<1>3. e = iter[1..n]
  BY <1>2 DEF FoldLeft, MapThenFoldSet
<1> HIDE DEF list, A
<1>4. ASSUME NEW d \in A, NEW i \in 1..n
      PROVE  /\ UntrackPlaintext(d, list[i]) \in A
             /\ UntrackPlaintext(d, list[i]).entries = d.entries \ {list[i]}
  <2>1. list[i] \in c.entries \ c.pinned /\ d.pinned = c.pinned
    BY <1>2 DEF A, Pruned
  <2>2. CASE list[i] \in d.entries
    BY <2>1, <2>2, UntrackPrunes DEF A, Victims
  <2>3. CASE list[i] \notin d.entries
    BY <2>3 DEF UntrackPlaintext
  <2> QED BY <2>2, <2>3
<1>5. IsIter(iter)
  <2>1. step \in [A \X (1..n) -> A]
    BY <1>4
  <2> HIDE DEF step
  <2>2. PICK f \in [SUBSET (1..n) -> A] : IsFold(f, n, c, step)
    BY <1>1, <1>2, <2>1, FoldExists
  <2>3. ASSUME NEW s \in SUBSET (1..n), s # {}
        PROVE  f[s] = UntrackPlaintext(f[s \ {Max(s)}], list[Max(s)])
    <3>1. Max(s) \in 1..n /\ f[s \ {Max(s)}] \in A
      BY <1>2, <2>3, LargestIndex
    <3>2. f[s] = step[<<f[s \ {Max(s)}], Max(s)>>]
      BY <2>2, <2>3 DEF IsFold
    <3> QED BY <3>1, <3>2 DEF step
  <2>4. f[{}] = c
    BY <2>2 DEF IsFold
  <2>5. f = [s \in SUBSET DOMAIN list |-> f[s]]
    BY <1>2
  <2>6. IsIter(f)
    BY <1>2, <2>3, <2>4, <2>5
  <2> QED BY <2>6
<1> HIDE DEF iter
<1> DEFINE P(i) == i <= n => iter[1..i] \in A /\ \A j \in 1..i : list[j] \notin iter[1..i].entries
<1>6. P(0)
  <2>1. 1..0 = {} /\ {} \in SUBSET DOMAIN list
    OBVIOUS
  <2>2. iter[1..0] = c
    BY <1>5, <2>1
  <2> QED BY <1>1, <2>1, <2>2
<1>7. ASSUME NEW i \in Nat, P(i)
      PROVE  P(i + 1)
  <2> SUFFICES ASSUME i + 1 <= n
               PROVE  /\ iter[1..(i + 1)] \in A
                      /\ \A j \in 1..(i + 1) : list[j] \notin iter[1..(i + 1)].entries
    OBVIOUS
  <2> DEFINE d == iter[1..i]
             r == iter[1..(i + 1)]
  <2>1. i + 1 \in 1..n /\ i <= n /\ (i + 1) - 1 = i
    BY <1>2
  <2>2. r = UntrackPlaintext(d, list[i + 1])
    <3>1. /\ 1..(i + 1) \in SUBSET (1..n) /\ 1..(i + 1) # {}
          /\ Max(1..(i + 1)) = i + 1
          /\ (1..(i + 1)) \ {i + 1} = 1..i
      BY <1>2, <2>1, PrefixIndices
    <3> DEFINE s == 1..(i + 1)
    <3>2. iter[s] = UntrackPlaintext(iter[s \ {Max(s)}], list[Max(s)])
      <4>1. s \in SUBSET DOMAIN list /\ s # {}
        BY <1>2, <3>1
      <4> HIDE DEF s
      <4> QED BY <1>5, <4>1
    <3> QED BY <3>1, <3>2
  <2>3. d \in A /\ \A j \in 1..i : list[j] \notin d.entries
    BY <1>7, <2>1, Zenon
  <2>4. \A j \in 1..(i + 1) : j \in 1..i \/ j = i + 1
    OBVIOUS
  <2> HIDE DEF d, r
  <2>5. r \in A /\ r.entries = d.entries \ {list[i + 1]}
    BY <1>4, <2>1, <2>2, <2>3
  <2> QED BY <2>3, <2>4, <2>5 DEF r
<1>8. P(n)
  <2> DEFINE S == {i \in Nat : P(i)}
  <2> HIDE DEF P
  <2>1. 0 \in S /\ \A i \in Nat : i \in S => i + 1 \in S
    BY <1>6, <1>7
  <2> HIDE DEF S
  <2>2. n \in S
    BY <1>2, <2>1, Induction
  <2> QED BY <2>2 DEF S
<1>9. n <= n
  BY <1>2
<1>10. e \in A /\ \A j \in 1..n : list[j] \notin e.entries
  BY <1>3, <1>8, <1>9, Zenon
<1> HIDE DEF e
<1>11. e.entries \subseteq c.entries /\ c.pinned \subseteq e.entries
  BY <1>1, <1>10 DEF A, Pruned
<1>12. e.entries \cap (c.entries \ c.pinned) = {}
  BY <1>2, <1>10
<1> QED BY <1>10, <1>11, <1>12 DEF A, e, list
-----------------------------------------------------------------------------
(* The inductive invariant                                                 *)

\* A budget that is set is met, but for what is pinned and for one entry.
Met(c, b) ==
    \/ b = SizeMax \/ c.total <= b
    \/ Cardinality(c.entries \ c.pinned) <= 1

IInv ==
    /\ objects \subseteq Pt /\ decoded \subseteq objects
    /\ Exact(cache) /\ cache.entries \subseteq objects
    /\ loaded = cache.entries /\ device_plaintexts = cache.entries
    /\ budget \in Nat /\ hold \in {0, 1}
    /\ args \in Seq(objects) /\ held \subseteq device_plaintexts
    /\ hold = 0 => args = <<>> /\ held = {} /\ Met(cache, budget)

\* What EnforcePlaintextBudget leaves, in any case
LEMMA EnforceExact ==
    ASSUME PlaintextAssumption, NEW c, Exact(c), NEW protect, NEW b \in Nat, NEW holds
    PROVE  LET e == EnforcePlaintextBudget(c, protect, b, holds)
           IN  /\ Exact(e) /\ e.pinned = c.pinned /\ e.entries \subseteq c.entries
               /\ c.entries \cap (protect \cup c.pinned) \subseteq e.entries
               /\ ~ Evicts(b, holds) => e = c
               /\ Evicts(b, holds) => e.total <= b \/ e.entries \ e.pinned \subseteq protect
<1> DEFINE e == EnforcePlaintextBudget(c, protect, b, holds)
<1>1. CASE Evicts(b, holds)
  <2>1. e \in Pruned(c, protect) /\ (e.total <= b \/ Victims(e, protect) = {})
    BY <1>1, EnforceEvicts
  <2> HIDE DEF e
  <2>2. e.total <= b \/ e.entries \ e.pinned \subseteq protect
    BY <2>1 DEF Victims
  <2> QED BY <1>1, <2>1, <2>2 DEF Pruned, e
<1>2. CASE ~ Evicts(b, holds)
  BY <1>2 DEF EnforcePlaintextBudget
<1> QED BY <1>1, <1>2

\* Fewer entries, and no fewer pins on them, meet a budget that was met.
LEMMA MetStays ==
    ASSUME PlaintextAssumption, NEW c, Exact(c), NEW b \in Nat, Met(c, b), NEW d, Exact(d),
           d.total <= c.total, d.entries \ d.pinned \subseteq c.entries \ c.pinned
    PROVE  Met(d, b)
<1>1. c.total \in Nat /\ d.total \in Nat
  BY DEF Exact, CacheRec
<1>2. IsFiniteSet(c.entries \ c.pinned)
  <2>1. c.entries \ c.pinned \in SUBSET Pt /\ IsFiniteSet(Pt)
    BY DEF Exact, CacheRec, PlaintextAssumption
  <2> QED BY <2>1, FS_Subset
<1>3. Cardinality(d.entries \ d.pinned) <= Cardinality(c.entries \ c.pinned)
      /\ Cardinality(c.entries \ c.pinned) \in Nat
      /\ Cardinality(d.entries \ d.pinned) \in Nat
  <2>1. d.entries \ d.pinned \in SUBSET (c.entries \ c.pinned)
    OBVIOUS
  <2> QED BY <1>2, <2>1, FS_Subset, FS_CardinalityType
<1> QED BY <1>1, <1>3 DEF Met

\* The budget is met, where at most p was protected.
LEMMA MetBut ==
    ASSUME PlaintextAssumption, NEW c, Exact(c), NEW b, NEW p,
           \/ b = SizeMax \/ c.total <= b \/ c.entries \ c.pinned \subseteq {p}
    PROVE  Met(c, b)
<1>1. CASE c.entries \ c.pinned \subseteq {p}
  <2>1. c.entries \ c.pinned = {} \/ c.entries \ c.pinned = {p}
    BY <1>1
  <2>2. Cardinality({}) <= 1 /\ Cardinality({p}) <= 1
    BY FS_EmptySet, FS_Singleton
  <2> QED BY <2>1, <2>2 DEF Met
<1> QED BY <1>1 DEF Met
-----------------------------------------------------------------------------
(* The calls                                                               *)

LEMMA LoadedExact ==
    ASSUME PlaintextAssumption, IInv, NEW p \in objects, NEW holds
    PROVE  LET e == Loaded(cache, p, holds)
           IN  /\ Exact(e) /\ e.pinned = cache.pinned /\ p \in e.entries
               /\ e.entries \subseteq cache.entries \cup {p}
               /\ holds # 0 => cache.entries \subseteq e.entries
               /\ holds = 0 /\ Met(cache, budget) => Met(e, budget)
<1> DEFINE e == Loaded(cache, p, holds)
           t == TrackPlaintext(cache, p)
<1>1. p \in Pt /\ Exact(cache) /\ loaded = cache.entries /\ budget \in Nat
  BY DEF IInv
<1>2. CASE p \in loaded
  BY <1>1, <1>2 DEF Loaded
<1>3. CASE p \notin loaded
  <2>1. Exact(t) /\ t.entries = cache.entries \cup {p} /\ t.pinned = cache.pinned
    BY <1>1, <1>3, TrackExact
  <2>2. e = EnforcePlaintextBudget(t, {p}, budget, holds)
    BY <1>3 DEF Loaded
  <2> HIDE DEF t, e
  <2>3. /\ Exact(e) /\ e.pinned = t.pinned /\ e.entries \subseteq t.entries
        /\ t.entries \cap ({p} \cup t.pinned) \subseteq e.entries
        /\ ~ Evicts(budget, holds) => e = t
        /\ Evicts(budget, holds) => e.total <= budget \/ e.entries \ e.pinned \subseteq {p}
    BY <1>1, <2>1, <2>2, EnforceExact
  <2>4. holds = 0 => Met(e, budget)
    BY <2>3, MetBut DEF Evicts
  <2>5. holds # 0 => e = t
    BY <2>3 DEF Evicts
  <2> QED BY <2>1, <2>3, <2>4, <2>5 DEF e
<1> QED BY <1>2, <1>3

LEMMA ReleasedExact ==
    ASSUME PlaintextAssumption, NEW c, Exact(c), NEW b \in Nat
    PROVE  LET e == EnforcePlaintextBudget(c, {}, b, 0)
           IN  /\ Exact(e) /\ e.pinned = c.pinned /\ e.entries \subseteq c.entries
               /\ Met(e, b)
<1> DEFINE e == EnforcePlaintextBudget(c, {}, b, 0)
<1>1. Exact(e)
  BY EnforceExact
<1>2. e.pinned = c.pinned
  <2>1. e.pinned \subseteq c.pinned
    BY EnforceExact
  <2>2. c.pinned \subseteq e.pinned
    BY EnforceExact
  <2> QED BY <2>1, <2>2
<1>3. e.entries \subseteq c.entries
  BY EnforceExact
<1>4. Evicts(b, 0) => e.total <= b \/ e.entries \ e.pinned \subseteq {}
  BY EnforceExact
<1> HIDE DEF e
<1>5. b = SizeMax \/ e.total <= b \/ e.entries \ e.pinned \subseteq {0}
  BY <1>4 DEF Evicts
<1>6. Met(e, b)
  BY <1>1, <1>5, MetBut
<1> QED BY <1>1, <1>2, <1>3, <1>6 DEF e

\* A new cache, between operations.
LEMMA IdleIInv ==
    ASSUME PlaintextAssumption, IInv, NEW c, Exact(c), Becomes(c), c.entries \subseteq objects',
           objects' \subseteq Pt, decoded' \subseteq objects',
           budget' \in Nat, hold' = 0, args' = <<>>, held' = {}, Met(c, budget')
    PROVE  IInv' /\ cache' = c
<1>1. cache' = c /\ loaded' = c.entries /\ device_plaintexts' = c.entries
  BY DEF IInv, Becomes
<1>2. args' \in Seq(objects')
  OBVIOUS
<1> QED BY <1>1, <1>2 DEF IInv

\* A step that leaves the cache alone, between operations
LEMMA SameCacheIInv ==
    ASSUME IInv, UNCHANGED <<loaded, device_plaintexts, cache, budget, held>>,
           objects' \subseteq Pt, decoded' \subseteq objects', objects \subseteq objects',
           hold = 0, hold' \in {0, 1}, args' \in Seq(objects'), hold' = 0 => args' = <<>>
    PROVE  IInv'
BY DEF IInv, Exact, Met

LEMMA InitIInv == ASSUME PlaintextAssumption, Init PROVE IInv
<1>1. Total(Bytes, {}) = 0
  BY TotalWithout DEF PlaintextAssumption
<1>2. cache.lru = <<>> /\ cache.entries = {} /\ cache.total = 0 /\ cache.pinned = {}
      /\ cache \in CacheRec
  BY DEF Init, CacheRec
<1>3. Elems(<<>>) = {} /\ Distinct(<<>>)
  BY DEF Elems, Distinct
<1>4. Exact(cache)
  BY <1>1, <1>2, <1>3 DEF Exact
<1>5. budget \in Nat /\ cache.total <= budget
  BY <1>2 DEF Init, PlaintextAssumption
<1> QED BY <1>2, <1>4, <1>5 DEF Init, IInv, Met

LEMMA MakePlaintextKeeps ==
    ASSUME IInv, NEW p \in Pt, MakePlaintext(p)
    PROVE  IInv' /\ cache' = cache
<1>1. IInv'
  BY SameCacheIInv DEF MakePlaintext, Idle, IInv
<1> QED BY <1>1 DEF MakePlaintext

LEMMA DecryptIntoKeeps ==
    ASSUME IInv, NEW p \in Pt, DecryptInto(p)
    PROVE  IInv' /\ cache' = cache
<1>1. IInv'
  BY SameCacheIInv DEF DecryptInto, Idle, IInv
<1> QED BY <1>1 DEF DecryptInto

LEMMA BeginOperationKeeps ==
    ASSUME IInv, NEW ps \in ArgLists, BeginOperation(ps)
    PROVE  IInv' /\ cache' = cache
<1>1. PICK n \in 1..MaxArgs : ps \in [1..n -> objects \ decoded]
  BY DEF ArgLists
<1>2. n \in Nat
  BY <1>1, PlaintextAssumption DEF PlaintextAssumption
<1>3. ps \in [1..n -> objects]
  BY <1>1
<1>4. ps \in Seq(objects)
  BY <1>2, <1>3, IsASeq
<1>5. IInv'
  BY <1>4, SameCacheIInv DEF BeginOperation, Idle, IInv, objectVars
<1> QED BY <1>5 DEF BeginOperation

LEMMA LoadPlaintextKeeps ==
    ASSUME PlaintextAssumption, IInv, NEW p \in Pt, LoadPlaintext(p)
    PROVE  IInv' /\ cache'.pinned = cache.pinned
<1> DEFINE c == Loaded(cache, p, 0)
<1>0. /\ hold = 0 /\ p \in objects /\ Becomes(c)
      /\ UNCHANGED <<objects, decoded, budget, hold, args, held>>
  BY DEF LoadPlaintext, Idle, objectVars
<1>1. /\ objects \subseteq Pt /\ decoded \subseteq objects /\ cache.entries \subseteq objects
      /\ budget \in Nat /\ args = <<>> /\ held = {} /\ Met(cache, budget)
  BY <1>0 DEF IInv
<1>2. /\ Exact(c) /\ c.pinned = cache.pinned /\ c.entries \subseteq cache.entries \cup {p}
      /\ Met(c, budget)
  BY <1>0, <1>1, LoadedExact
<1> HIDE DEF c
<1> QED BY <1>0, <1>1, <1>2, IdleIInv

LEMMA DestroyKeeps ==
    ASSUME PlaintextAssumption, IInv, NEW p \in Pt, Destroy(p)
    PROVE  IInv' /\ cache'.pinned = cache.pinned \ {p}
<1> DEFINE c == UntrackPlaintext(cache, p)
<1>0. /\ hold = 0 /\ p \in objects /\ objects' = objects \ {p} /\ decoded' = decoded \ {p}
      /\ Becomes(c) /\ UNCHANGED <<budget, hold, args, held>>
  BY DEF Destroy, Idle
<1>1. /\ objects \subseteq Pt /\ decoded \subseteq objects /\ cache.entries \subseteq objects
      /\ budget \in Nat /\ args = <<>> /\ held = {} /\ Met(cache, budget) /\ Exact(cache)
  BY <1>0 DEF IInv
<1>2. /\ Exact(c) /\ c.pinned = cache.pinned \ {p} /\ c.entries = cache.entries \ {p}
      /\ c.total <= cache.total
  BY <1>1, UntrackExact
<1> HIDE DEF c
<1>3. Met(c, budget)
  <2>1. c.entries \ c.pinned \subseteq cache.entries \ cache.pinned
    BY <1>2
  <2> QED BY <1>1, <1>2, <2>1, MetStays
<1> QED BY <1>0, <1>1, <1>2, <1>3, IdleIInv

LEMMA SetPlaintextCacheKeeps ==
    ASSUME PlaintextAssumption, IInv, NEW b \in Budgets, SetPlaintextCache(b)
    PROVE  IInv' /\ cache'.pinned = cache.pinned
<1> DEFINE c == EnforcePlaintextBudget(cache, {}, b, 0)
<1>0. /\ hold = 0 /\ budget' = b /\ Becomes(c) /\ b \in Nat
      /\ UNCHANGED <<objects, decoded, hold, args, held>>
  BY DEF SetPlaintextCache, Idle, objectVars, PlaintextAssumption
<1>1. /\ objects \subseteq Pt /\ decoded \subseteq objects /\ cache.entries \subseteq objects
      /\ args = <<>> /\ held = {} /\ Exact(cache)
  BY <1>0 DEF IInv
<1>2. /\ Exact(c) /\ c.pinned = cache.pinned /\ c.entries \subseteq cache.entries
      /\ Met(c, b)
  BY <1>0, <1>1, ReleasedExact
<1> HIDE DEF c
<1> QED BY <1>0, <1>1, <1>2, IdleIInv

LEMMA OffloadPlaintextsKeeps ==
    ASSUME PlaintextAssumption, IInv, OffloadPlaintexts
    PROVE  IInv' /\ cache'.pinned = cache.pinned
<1> DEFINE c == FoldLeft(UntrackPlaintext, cache, SetToSeq(cache.entries \ cache.pinned))
<1>0. /\ hold = 0 /\ Becomes(c) /\ UNCHANGED <<objects, decoded, budget, hold, args, held>>
  BY DEF OffloadPlaintexts, Idle, objectVars
<1>1. /\ objects \subseteq Pt /\ decoded \subseteq objects /\ cache.entries \subseteq objects
      /\ budget \in Nat /\ args = <<>> /\ held = {} /\ Exact(cache)
  BY <1>0 DEF IInv
<1>2. c \in Pruned(cache, {}) /\ c.entries = cache.pinned
  BY <1>1, OffloadDrops
<1> HIDE DEF c
<1>3. /\ Exact(c) /\ c.pinned = cache.pinned /\ c.entries \subseteq cache.entries
      /\ c.entries \ c.pinned \subseteq {0}
  BY <1>2 DEF Pruned
<1>4. Met(c, budget)
  BY <1>3, MetBut
<1> QED BY <1>0, <1>1, <1>3, <1>4, IdleIInv

\* Pinning or unpinning an entry
LEMMA RepinnedExact ==
    ASSUME NEW c, Exact(c), NEW P \in SUBSET c.entries
    PROVE  /\ Exact([c EXCEPT !.pinned = P])
           /\ [c EXCEPT !.pinned = P].pinned = P /\ [c EXCEPT !.pinned = P].entries = c.entries
<1> DEFINE d == [c EXCEPT !.pinned = P]
<1>1. /\ d \in CacheRec /\ d.lru = c.lru /\ d.entries = c.entries /\ d.total = c.total
      /\ d.pinned = P
  BY DEF Exact, CacheRec
<1> HIDE DEF d
<1>2. Exact(d)
  BY <1>1 DEF Exact
<1> QED BY <1>1, <1>2 DEF d

LEMMA PinPlaintextKeeps ==
    ASSUME PlaintextAssumption, IInv, NEW p \in Pt, PinPlaintext(p)
    PROVE  IInv' /\ cache'.pinned = cache.pinned \cup {p}
<1> DEFINE l == Loaded(cache, p, 1)
           d == [l EXCEPT !.pinned = @ \cup {p}]
           c == Released(d)
<1>0. /\ hold = 0 /\ p \in objects /\ Becomes(c)
      /\ UNCHANGED <<objects, decoded, budget, hold, args, held>>
  BY DEF PinPlaintext, Idle, objectVars
<1>1. /\ objects \subseteq Pt /\ decoded \subseteq objects /\ cache.entries \subseteq objects
      /\ budget \in Nat /\ args = <<>> /\ held = {}
  BY <1>0 DEF IInv
<1>2. /\ Exact(l) /\ l.pinned = cache.pinned /\ p \in l.entries
      /\ l.entries \subseteq cache.entries \cup {p}
  BY <1>0, LoadedExact
<1> HIDE DEF l
<1>3. Exact(d) /\ d.pinned = cache.pinned \cup {p} /\ d.entries = l.entries
  <2>1. l.pinned \cup {p} \in SUBSET l.entries
    BY <1>2 DEF Exact
  <2> QED BY <1>2, <2>1, RepinnedExact
<1> HIDE DEF d
<1>4. Exact(c) /\ c.pinned = d.pinned /\ c.entries \subseteq d.entries /\ Met(c, budget)
  BY <1>1, <1>3, ReleasedExact DEF Released
<1> HIDE DEF c
<1> QED BY <1>0, <1>1, <1>2, <1>3, <1>4, IdleIInv

LEMMA UnpinPlaintextKeeps ==
    ASSUME PlaintextAssumption, IInv, NEW p \in Pt, UnpinPlaintext(p)
    PROVE  IInv' /\ cache'.pinned = cache.pinned \ {p}
<1> DEFINE d == [cache EXCEPT !.pinned = @ \ {p}]
           c == Released(d)
<1>0. /\ hold = 0 /\ Becomes(c) /\ UNCHANGED <<objects, decoded, budget, hold, args, held>>
  BY DEF UnpinPlaintext, Idle, objectVars
<1>1. /\ objects \subseteq Pt /\ decoded \subseteq objects /\ cache.entries \subseteq objects
      /\ budget \in Nat /\ args = <<>> /\ held = {} /\ Exact(cache)
  BY <1>0 DEF IInv
<1>2. Exact(d) /\ d.pinned = cache.pinned \ {p} /\ d.entries = cache.entries
  <2>1. cache.pinned \ {p} \in SUBSET cache.entries
    BY <1>1 DEF Exact
  <2> QED BY <1>1, <2>1, RepinnedExact
<1> HIDE DEF d
<1>3. Exact(c) /\ c.pinned = d.pinned /\ c.entries \subseteq d.entries /\ Met(c, budget)
  BY <1>1, <1>2, ReleasedExact DEF Released
<1> HIDE DEF c
<1> QED BY <1>0, <1>1, <1>2, <1>3, IdleIInv

LEMMA LoadAndFetchKeeps ==
    ASSUME PlaintextAssumption, IInv, LoadAndFetch
    PROVE  IInv' /\ cache'.pinned = cache.pinned
<1> DEFINE p == Head(args)
           l == Loaded(cache, p, hold)
           c == TouchPlaintext(l, p)
<1>0. /\ args # <<>> /\ Becomes(c) /\ held' = held \cup {p} /\ args' = Tail(args)
      /\ UNCHANGED <<objects, decoded, budget, hold>>
  BY DEF LoadAndFetch, objectVars
<1>1. /\ objects \subseteq Pt /\ decoded \subseteq objects /\ cache.entries \subseteq objects
      /\ budget \in Nat /\ hold = 1 /\ held \subseteq cache.entries /\ Exact(cache)
      /\ loaded = cache.entries /\ device_plaintexts = cache.entries
      /\ args \in Seq(objects)
  BY <1>0 DEF IInv
<1>2. p \in objects /\ args' \in Seq(objects)
  BY <1>0, <1>1, HeadTailProperties
<1> HIDE DEF p
<1>3. /\ Exact(l) /\ l.pinned = cache.pinned /\ p \in l.entries
      /\ l.entries \subseteq cache.entries \cup {p} /\ cache.entries \subseteq l.entries
  BY <1>1, <1>2, LoadedExact
<1> HIDE DEF l
<1>4. Exact(c) /\ c.entries = l.entries /\ c.pinned = l.pinned
  BY <1>1, <1>2, <1>3, TouchExact
<1> HIDE DEF c
<1>5. cache' = c /\ loaded' = c.entries /\ device_plaintexts' = c.entries
  BY <1>0, <1>1 DEF Becomes
<1> QED BY <1>0, <1>1, <1>2, <1>3, <1>4, <1>5 DEF IInv

LEMMA EndOperationKeeps ==
    ASSUME PlaintextAssumption, IInv, EndOperation
    PROVE  IInv' /\ cache'.pinned = cache.pinned
<1> DEFINE c == Released(cache)
<1>0. /\ hold' = 0 /\ args' = <<>> /\ held' = {} /\ Becomes(c)
      /\ UNCHANGED <<objects, decoded, budget>>
  BY DEF EndOperation, objectVars
<1>1. /\ objects \subseteq Pt /\ decoded \subseteq objects /\ cache.entries \subseteq objects
      /\ budget \in Nat /\ Exact(cache)
  BY DEF IInv
<1>2. Exact(c) /\ c.pinned = cache.pinned /\ c.entries \subseteq cache.entries /\ Met(c, budget)
  BY <1>1, ReleasedExact DEF Released
<1> HIDE DEF c
<1> QED BY <1>0, <1>1, <1>2, IdleIInv
-----------------------------------------------------------------------------
(* The theorems                                                            *)

\* A step keeps the invariant, and ends a pin only as an unpin or with the plaintext.
LEMMA NextKeeps ==
    ASSUME PlaintextAssumption, IInv, [Next]_vars
    PROVE  /\ IInv'
           /\ \A p \in cache.pinned \ cache'.pinned : UnpinPlaintext(p) \/ Destroy(p)
<1>1. ASSUME NEW p \in Pt, MakePlaintext(p) \/ DecryptInto(p)
      PROVE  IInv' /\ cache' = cache
  BY <1>1, MakePlaintextKeeps, DecryptIntoKeeps
<1>2. ASSUME NEW p \in Pt, LoadPlaintext(p)
      PROVE  IInv' /\ cache'.pinned = cache.pinned
  BY <1>2, LoadPlaintextKeeps
<1>3. ASSUME NEW p \in Pt, Destroy(p)
      PROVE  IInv' /\ cache'.pinned = cache.pinned \ {p}
  BY <1>3, DestroyKeeps
<1>4. ASSUME NEW p \in Pt, PinPlaintext(p)
      PROVE  IInv' /\ cache'.pinned = cache.pinned \cup {p}
  BY <1>4, PinPlaintextKeeps
<1>5. ASSUME NEW p \in Pt, UnpinPlaintext(p)
      PROVE  IInv' /\ cache'.pinned = cache.pinned \ {p}
  BY <1>5, UnpinPlaintextKeeps
<1>6. ASSUME NEW b \in Budgets, SetPlaintextCache(b)
      PROVE  IInv' /\ cache'.pinned = cache.pinned
  BY <1>6, SetPlaintextCacheKeeps
<1>7. ASSUME NEW ps \in ArgLists, BeginOperation(ps)
      PROVE  IInv' /\ cache' = cache
  BY <1>7, BeginOperationKeeps
<1>8. CASE OffloadPlaintexts \/ LoadAndFetch \/ EndOperation
  BY <1>8, OffloadPlaintextsKeeps, LoadAndFetchKeeps, EndOperationKeeps
<1>9. CASE UNCHANGED vars
  BY <1>9 DEF vars, objectVars, IInv, Exact, Met
<1> QED BY <1>1, <1>2, <1>3, <1>4, <1>5, <1>6, <1>7, <1>8, <1>9 DEF Next

\* The strengthened invariant holds in every state the cache reaches.
LEMMA IInvHolds == Spec => []IInv
<1>1. Init => IInv
  BY PlaintextAssumption, InitIInv
<1>2. IInv /\ [Next]_vars => IInv'
  BY PlaintextAssumption, NextKeeps
<1> QED BY <1>1, <1>2, PTL DEF Spec

\* The registry, the entries, the recency list, the byte count and the marks on
\* the plaintexts always tell of the same device copies.
THEOREM RegistryAlwaysExact == Spec => []RegistryExact
<1>1. IInv => RegistryExact
  BY DEF IInv, RegistryExact, Exact, Total
<1> QED BY <1>1, IInvHolds, PTL

\* The hold an operation takes keeps its device pointers good until its kernels
\* are enqueued.
THEOREM HeldAlwaysAlive == Spec => []HeldAlive
<1>1. IInv => HeldAlive
  BY DEF IInv, HeldAlive
<1> QED BY <1>1, IInvHolds, PTL

\* Every step that ends outside an operation leaves a budget met, but for pinned
\* plaintexts and one just loaded, and no eviction takes a pinned plaintext.
THEOREM EvictionAlwaysExact == Spec => EvictionExact
<1>1. ASSUME IInv, [Next]_vars
      PROVE  [/\ BudgetSoftByOne'
              /\ \A p \in cache.pinned \ cache'.pinned : UnpinPlaintext(p) \/ Destroy(p)]_vars
  <2>1. /\ IInv'
        /\ \A p \in cache.pinned \ cache'.pinned : UnpinPlaintext(p) \/ Destroy(p)
    BY <1>1, PlaintextAssumption, NextKeeps
  <2>2. BudgetSoftByOne'
    BY <2>1 DEF IInv, BudgetSoftByOne, Met
  <2> QED BY <2>1, <2>2
<1> QED BY <1>1, IInvHolds, PTL DEF Spec, EvictionExact
=============================================================================
