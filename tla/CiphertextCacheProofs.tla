------------------------- MODULE CiphertextCacheProofs -------------------------
(***************************************************************************)
(* Proofs about the ciphertext cache, for any handles, contents, budgets   *)
(* and sequences of calls.  The invariant has four parts: the handles that *)
(* share a payload (Payloads), what is where (Contents), the cache against *)
(* the handles (Fits), and what is left of the script of the operation     *)
(* under way (Scripted).                                                   *)
(***************************************************************************)
EXTENDS CiphertextCache, ListLemmas

CacheRec == [lru : Seq(Handle), resident : SUBSET Handle, bytes : [Handle -> Nat], total : Nat,
             pinned : SUBSET Handle, offloaded : SUBSET Handle, shape : [Handle -> Shape]]

\* The list and the byte count tell of the resident entries.
Exact(c) ==
    /\ c \in CacheRec
    /\ Elems(c.lru) = c.resident /\ Distinct(c.lru)
    /\ c.total = Total(c.bytes, c.resident)

\* c is what the cache should be where the handles L are loaded.
Fits(c, L) ==
    /\ Exact(c)
    /\ L \subseteq Handle /\ c.pinned \subseteq L /\ c.offloaded \subseteq L
    /\ c.resident = L \ c.offloaded
-----------------------------------------------------------------------------
(* The bookkeeping                                                         *)

LEMMA SizeType == ASSUME NEW c \in CacheRec, NEW h \in Handle PROVE LimbBytes(c, h) \in Nat
BY DEF LimbBytes

\* An entry gets a size and becomes resident, at the front of the list.
LEMMA TouchExact ==
    ASSUME CiphertextAssumption, NEW c, Exact(c), NEW h \in Handle
    PROVE  LET d == TouchCiphertext(c, h)
           IN  /\ Exact(d) /\ d.resident = c.resident \cup {h} /\ d.pinned = c.pinned
               /\ d.offloaded = c.offloaded /\ d.shape = c.shape
<1> DEFINE d == TouchCiphertext(c, h)
           k == LimbBytes(c, h)
           r == IF h \in c.resident THEN Less(c.total, c.bytes[h]) ELSE c.total
           w == [c.bytes EXCEPT ![h] = k]
           others == c.resident \ {h}
<1>1. c \in CacheRec /\ k \in Nat /\ c.total \in Nat /\ c.bytes \in [Handle -> Nat]
  BY SizeType DEF Exact, CacheRec
<1>2. /\ ToFront(c.lru, h) \in Seq(Handle) /\ Distinct(ToFront(c.lru, h))
      /\ Elems(ToFront(c.lru, h)) = c.resident \cup {h}
  BY <1>1, ToFrontElements DEF Exact, CacheRec
<1>3. others \in SUBSET Handle /\ c.resident \in SUBSET Handle
  BY <1>1 DEF CacheRec
<1>4. r = Total(c.bytes, others) /\ r \in Nat
  <2>1. Total(c.bytes, others) \in Nat /\ c.total = Total(c.bytes, c.resident)
    BY <1>1, <1>3, TotalWithout DEF CiphertextAssumption, Exact
  <2>2. CASE h \in c.resident
    <3>1. c.total = c.bytes[h] + Total(c.bytes, others) /\ c.bytes[h] \in Nat
      BY <1>1, <1>3, <2>1, <2>2, TotalWithout DEF CiphertextAssumption
    <3> HIDE DEF others
    <3>2. r = c.total - c.bytes[h]
      BY <2>1, <2>2, <3>1 DEF Less
    <3> HIDE DEF r
    <3> QED BY <2>1, <3>1, <3>2
  <2>3. CASE h \notin c.resident
    <3>1. others = c.resident
      BY <2>3
    <3> QED BY <2>1, <2>3, <3>1
  <2> QED BY <2>2, <2>3
<1> HIDE DEF k, r
<1>5. w \in [Handle -> Nat] /\ w[h] = k /\ \A g \in others : w[g] = c.bytes[g]
  BY <1>1
<1>6. /\ d \in CacheRec
      /\ d.lru = ToFront(c.lru, h) /\ d.resident = c.resident \cup {h} /\ d.bytes = w
      /\ d.total = r + k /\ d.pinned = c.pinned /\ d.offloaded = c.offloaded
      /\ d.shape = c.shape
  <2>1. r + k \in Nat /\ c.resident \cup {h} \in SUBSET Handle
    BY <1>1, <1>3, <1>4
  <2> HIDE DEF w
  <2>2. d = [c EXCEPT !.lru = ToFront(c.lru, h), !.resident = c.resident \cup {h},
                      !.total = r + k, !.bytes = w]
    BY <1>1 DEF TouchCiphertext, r, k, w, CacheRec
  <2> HIDE DEF d
  <2> QED BY <1>1, <1>2, <1>5, <2>1, <2>2 DEF CacheRec
<1> HIDE DEF d, w
<1>7. d.total = Total(d.bytes, d.resident)
  <2>1. Total(w, others) = Total(c.bytes, others)
    BY <1>1, <1>3, <1>5, TotalSame DEF CiphertextAssumption
  <2>2. h \notin others /\ others \cup {h} = c.resident \cup {h}
    OBVIOUS
  <2> HIDE DEF others
  <2>3. Total(w, others \cup {h}) = Total(w, others) + w[h]
    BY <1>3, <1>5, <2>2, TotalWith DEF CiphertextAssumption
  <2> QED BY <1>4, <1>5, <1>6, <2>1, <2>2, <2>3
<1>8. Exact(d)
  BY <1>2, <1>6, <1>7 DEF Exact
<1> QED BY <1>6, <1>8 DEF d

\* A new entry has nothing to give back.
LEMMA TrackTouches ==
    ASSUME NEW c, NEW h, h \notin c.resident
    PROVE  TrackCiphertext(c, h) = TouchCiphertext(c, h)
BY DEF TrackCiphertext, TouchCiphertext

\* An entry stops being resident.
LEMMA MarkExact ==
    ASSUME CiphertextAssumption, NEW c, Exact(c), NEW h \in Handle
    PROVE  LET d == MarkCiphertextOffloaded(c, h)
           IN  /\ Exact(d) /\ d.resident = c.resident \ {h} /\ d.pinned = c.pinned
               /\ d.offloaded = c.offloaded /\ d.shape = c.shape
<1> DEFINE d == MarkCiphertextOffloaded(c, h)
           r == Less(c.total, c.bytes[h])
           w == [c.bytes EXCEPT ![h] = 0]
           others == c.resident \ {h}
<1>1. /\ c \in CacheRec /\ c.total \in Nat /\ c.bytes \in [Handle -> Nat]
      /\ c.resident \in SUBSET Handle /\ others \in SUBSET Handle
  BY DEF Exact, CacheRec
<1>2. CASE h \notin c.resident
  <2>1. d = c /\ c.resident = others
    BY <1>2 DEF MarkCiphertextOffloaded
  <2> QED BY <2>1
<1>3. CASE h \in c.resident
  <2>1. /\ Unlink(c.lru, h) \in Seq(Handle) /\ Distinct(Unlink(c.lru, h))
        /\ Elems(Unlink(c.lru, h)) = others
    BY <1>1, UnlinkElements DEF Exact, CacheRec
  <2>2. r = Total(c.bytes, others) /\ r \in Nat
    <3>1. /\ c.total = c.bytes[h] + Total(c.bytes, others) /\ c.bytes[h] \in Nat
          /\ Total(c.bytes, others) \in Nat
      BY <1>1, <1>3, TotalWithout DEF CiphertextAssumption, Exact
    <3> HIDE DEF others
    <3> QED BY <1>1, <3>1 DEF Less
  <2> HIDE DEF r
  <2>3. w \in [Handle -> Nat] /\ \A g \in others : w[g] = c.bytes[g]
    BY <1>1
  <2>4. /\ d \in CacheRec
        /\ d.lru = Unlink(c.lru, h) /\ d.resident = others /\ d.bytes = w
        /\ d.total = r /\ d.pinned = c.pinned /\ d.offloaded = c.offloaded
        /\ d.shape = c.shape
    <3> HIDE DEF w
    <3>1. d = [c EXCEPT !.total = r, !.lru = Unlink(c.lru, h), !.resident = others, !.bytes = w]
      BY <1>1, <1>3 DEF MarkCiphertextOffloaded, r, w, CacheRec
    <3> HIDE DEF d
    <3> QED BY <1>1, <2>1, <2>2, <2>3, <3>1 DEF CacheRec
  <2> HIDE DEF d, w
  <2>5. Total(w, others) = Total(c.bytes, others)
    BY <1>1, <2>3, TotalSame DEF CiphertextAssumption
  <2>6. Exact(d)
    BY <2>1, <2>2, <2>4, <2>5 DEF Exact
  <2> QED BY <2>4, <2>6 DEF d
<1> QED BY <1>2, <1>3

\* What the list and the byte count do not depend on
LEMMA OtherFieldsExact ==
    ASSUME NEW c, Exact(c), NEW d \in CacheRec, d.lru = c.lru, d.resident = c.resident,
           d.bytes = c.bytes, d.total = c.total
    PROVE  Exact(d)
BY DEF Exact
-----------------------------------------------------------------------------
(* The steps of the calls                                                  *)

\* GetDeviceCiphertext
LEMMA GetFits ==
    ASSUME CiphertextAssumption, NEW c, NEW L, Fits(c, L), NEW h \in L
    PROVE  LET d == GetDeviceCiphertext(c, h)
           IN  /\ Fits(d, L) /\ d.pinned = c.pinned /\ d.offloaded = c.offloaded \ {h}
               /\ d.shape = c.shape
<1> DEFINE d == GetDeviceCiphertext(c, h)
           e == [c EXCEPT !.offloaded = @ \ {h}]
<1>1. /\ c \in CacheRec /\ Exact(c) /\ h \in Handle /\ L \subseteq Handle
      /\ c.pinned \in SUBSET Handle /\ c.offloaded \ {h} \in SUBSET Handle
      /\ c.shape \in [Handle -> Shape]
      /\ c.pinned \subseteq L /\ c.offloaded \subseteq L /\ c.resident = L \ c.offloaded
  BY DEF Fits, Exact, CacheRec
<1>2. /\ e \in CacheRec /\ e.resident = c.resident /\ e.pinned = c.pinned
      /\ e.offloaded = c.offloaded \ {h} /\ e.shape = c.shape
      /\ e.lru = c.lru /\ e.bytes = c.bytes /\ e.total = c.total
  BY <1>1 DEF CacheRec
<1>4. d = TouchCiphertext(e, h)
  BY DEF GetDeviceCiphertext
<1> HIDE DEF d, e
<1>3. Exact(e)
  BY <1>1, <1>2, OtherFieldsExact
<1>5. /\ Exact(d) /\ d.resident = e.resident \cup {h} /\ d.pinned = e.pinned
      /\ d.offloaded = e.offloaded /\ d.shape = e.shape
  BY <1>1, <1>3, <1>4, TouchExact
<1>6. Fits(d, L)
  BY <1>1, <1>2, <1>5 DEF Fits
<1> QED BY <1>2, <1>5, <1>6 DEF d

\* ReloadCiphertext
LEMMA ReloadFits ==
    ASSUME CiphertextAssumption, NEW c, NEW L, Fits(c, L), NEW h \in L
    PROVE  LET d == ReloadCiphertext(c, h)
           IN  /\ Fits(d, L) /\ d.pinned = c.pinned /\ d.offloaded = c.offloaded \ {h}
               /\ d.shape = c.shape
<1>1. CASE h \in c.offloaded
  <2>1. ReloadCiphertext(c, h) = GetDeviceCiphertext(c, h)
    BY <1>1 DEF ReloadCiphertext, GetDeviceCiphertext
  <2> QED BY <2>1, GetFits
<1>2. CASE h \notin c.offloaded
  BY <1>2 DEF ReloadCiphertext
<1> QED BY <1>1, <1>2

\* RegisterDeviceCiphertext
LEMMA RegisterFits ==
    ASSUME CiphertextAssumption, NEW c, NEW L, Fits(c, L), NEW h \in Handle \ L, NEW sh \in Shape
    PROVE  LET d == RegisterDeviceCiphertext(c, h, sh)
           IN  Fits(d, L \cup {h}) /\ d.pinned = c.pinned /\ d.offloaded = c.offloaded
<1> DEFINE d == RegisterDeviceCiphertext(c, h, sh)
           e == [c EXCEPT !.shape[h] = sh]
<1>1. /\ c \in CacheRec /\ Exact(c) /\ L \subseteq Handle
      /\ c.pinned \in SUBSET Handle /\ c.offloaded \in SUBSET Handle
      /\ c.shape \in [Handle -> Shape]
      /\ c.pinned \subseteq L /\ c.offloaded \subseteq L /\ c.resident = L \ c.offloaded
  BY DEF Fits, Exact, CacheRec
<1>2. [c.shape EXCEPT ![h] = sh] \in [Handle -> Shape]
  BY <1>1
<1>3. /\ e \in CacheRec /\ e.resident = c.resident /\ e.pinned = c.pinned
      /\ e.offloaded = c.offloaded
      /\ e.lru = c.lru /\ e.bytes = c.bytes /\ e.total = c.total
  BY <1>1, <1>2 DEF CacheRec
<1> HIDE DEF e
<1>4. Exact(e)
  BY <1>1, <1>3, OtherFieldsExact
<1>5. d = TouchCiphertext(e, h)
  <2>1. h \notin e.resident
    BY <1>1, <1>3
  <2> QED BY <2>1, TrackTouches DEF RegisterDeviceCiphertext, e
<1> HIDE DEF d
<1>6. /\ Exact(d) /\ d.resident = e.resident \cup {h} /\ d.pinned = e.pinned
      /\ d.offloaded = e.offloaded
  BY <1>4, <1>5, TouchExact
<1>7. Fits(d, L \cup {h})
  BY <1>1, <1>3, <1>6 DEF Fits
<1> QED BY <1>3, <1>6, <1>7 DEF d

\* UntrackCiphertext
LEMMA UntrackFits ==
    ASSUME CiphertextAssumption, NEW c, NEW L, Fits(c, L), NEW h \in Handle
    PROVE  LET d == UntrackCiphertext(c, h)
           IN  /\ Fits(d, L \ {h}) /\ d.pinned = c.pinned \ {h}
               /\ d.offloaded = c.offloaded \ {h}
<1> DEFINE d == UntrackCiphertext(c, h)
           e == MarkCiphertextOffloaded(c, h)
<1>1. /\ Exact(c) /\ L \subseteq Handle
      /\ c.pinned \subseteq L /\ c.offloaded \subseteq L /\ c.resident = L \ c.offloaded
  BY DEF Fits
<1>2. /\ Exact(e) /\ e.resident = c.resident \ {h} /\ e.pinned = c.pinned
      /\ e.offloaded = c.offloaded
  BY <1>1, MarkExact
<1> HIDE DEF e
<1>3. /\ e \in CacheRec /\ e.shape \in [Handle -> Shape]
      /\ e.pinned \ {h} \in SUBSET Handle /\ e.offloaded \ {h} \in SUBSET Handle
      /\ [e.shape EXCEPT ![h] = "plain"] \in [Handle -> Shape]
  BY <1>2 DEF Exact, CacheRec, Shape
<1>4. /\ d \in CacheRec /\ d.resident = e.resident /\ d.pinned = e.pinned \ {h}
      /\ d.offloaded = e.offloaded \ {h}
      /\ d.lru = e.lru /\ d.bytes = e.bytes /\ d.total = e.total
  <2>1. d = [e EXCEPT !.pinned = @ \ {h}, !.offloaded = @ \ {h}, !.shape[h] = "plain"]
    BY DEF UntrackCiphertext, e
  <2> HIDE DEF d
  <2> QED BY <1>3, <2>1 DEF CacheRec
<1> HIDE DEF d
<1>5. Exact(d)
  BY <1>2, <1>4, OtherFieldsExact
<1>6. Fits(d, L \ {h})
  BY <1>1, <1>2, <1>4, <1>5 DEF Fits
<1> QED BY <1>2, <1>4, <1>6 DEF d

\* Ciphertext::offload of a loaded handle, as the cache records it
LEMMA OffloadFits ==
    ASSUME CiphertextAssumption, NEW c, NEW L, Fits(c, L), NEW h \in L
    PROVE  LET d == MarkCiphertextOffloaded(Offload(c, h), h)
           IN  /\ Fits(d, L) /\ d.pinned = c.pinned /\ d.offloaded = c.offloaded \cup {h}
               /\ d.resident = c.resident \ {h}
               /\ d.shape = [c.shape EXCEPT ![h] = "plain"]
<1> DEFINE d == MarkCiphertextOffloaded(Offload(c, h), h)
           e == Offload(c, h)
<1>1. /\ c \in CacheRec /\ Exact(c) /\ h \in Handle /\ L \subseteq Handle
      /\ c.pinned \in SUBSET Handle /\ c.offloaded \cup {h} \in SUBSET Handle
      /\ c.shape \in [Handle -> Shape] /\ [c.shape EXCEPT ![h] = "plain"] \in [Handle -> Shape]
      /\ c.pinned \subseteq L /\ c.offloaded \subseteq L /\ c.resident = L \ c.offloaded
  BY DEF Fits, Exact, CacheRec, Shape
<1>2. /\ e \in CacheRec /\ e.resident = c.resident /\ e.pinned = c.pinned
      /\ e.offloaded = c.offloaded \cup {h} /\ e.shape = [c.shape EXCEPT ![h] = "plain"]
      /\ e.lru = c.lru /\ e.bytes = c.bytes /\ e.total = c.total
  BY <1>1 DEF Offload, CacheRec
<1> HIDE DEF e
<1>3. Exact(e)
  BY <1>1, <1>2, OtherFieldsExact
<1>4. /\ Exact(d) /\ d.resident = e.resident \ {h} /\ d.pinned = e.pinned
      /\ d.offloaded = e.offloaded /\ d.shape = e.shape
  BY <1>1, <1>3, MarkExact DEF e
<1> HIDE DEF d
<1>5. Fits(d, L)
  BY <1>1, <1>2, <1>4 DEF Fits
<1> QED BY <1>2, <1>4, <1>5 DEF d, e
-----------------------------------------------------------------------------
(* The loops                                                               *)

\* What an eviction may take
Victims(c, protect) == {h \in c.resident : ~ Spared(c, h, protect) /\ c.shape[h] # "extended"}

\* What parking some of the handles L leaves of c: nothing that is pinned or
\* protected goes.
Parked(c, L, protect) ==
    {d \in CacheRec : /\ Fits(d, L) /\ d.pinned = c.pinned /\ c.offloaded \subseteq d.offloaded
                      /\ d.offloaded \cap (protect \cup c.pinned) \subseteq c.offloaded}

LEMMA OffloadForCacheParks ==
    ASSUME CiphertextAssumption, NEW c, NEW L, NEW protect, NEW d \in Parked(c, L, protect),
           NEW h \in L, ~ Spared(d, h, protect)
    PROVE  LET r == OffloadCiphertextForCache(d, h)
           IN  r \in Parked(c, L, protect) /\ Victims(r, protect) \subseteq Victims(d, protect) \ {h}
<1> DEFINE r == OffloadCiphertextForCache(d, h)
<1>1. /\ d \in CacheRec /\ Fits(d, L) /\ d.pinned = c.pinned /\ c.offloaded \subseteq d.offloaded
      /\ d.offloaded \cap (protect \cup c.pinned) \subseteq c.offloaded
  BY DEF Parked
<1>2. CASE h \notin d.resident \/ d.shape[h] = "extended"
  <2>1. r = d
    BY <1>2 DEF OffloadCiphertextForCache
  <2> QED BY <1>2, <2>1 DEF Victims
<1>3. CASE ~ (h \notin d.resident \/ d.shape[h] = "extended")
  <2>1. r = MarkCiphertextOffloaded(Offload(d, h), h)
    BY <1>3 DEF OffloadCiphertextForCache
  <2>2. /\ Fits(r, L) /\ r.pinned = d.pinned /\ r.offloaded = d.offloaded \cup {h}
        /\ r.resident = d.resident \ {h} /\ r.shape = [d.shape EXCEPT ![h] = "plain"]
    BY <1>1, <2>1, OffloadFits
  <2> HIDE DEF r
  <2>3. h \notin protect \cup c.pinned
    BY <1>1 DEF Spared
  <2>4. r \in Parked(c, L, protect)
    BY <1>1, <2>2, <2>3 DEF Parked, Fits, Exact
  <2>5. ASSUME NEW g \in Victims(r, protect)
        PROVE  g \in Victims(d, protect) \ {h}
    <3>1. g \in d.resident /\ g # h /\ ~ Spared(r, g, protect) /\ r.shape[g] # "extended"
      BY <2>2, <2>5 DEF Victims
    <3>2. d.shape \in [Handle -> Shape] /\ d.resident \subseteq Handle
      BY <1>1 DEF CacheRec
    <3>3. d.shape[g] # "extended"
      BY <2>2, <3>1, <3>2
    <3> QED BY <2>2, <3>1, <3>3 DEF Victims, Spared
  <2> QED BY <2>4, <2>5 DEF r
<1> QED BY <1>2, <1>3

\* EnforceCiphertextBudget: the budget is met at the end, or nothing is left that may go.
LEMMA EnforceParks ==
    ASSUME CiphertextAssumption, NEW c, NEW L, Fits(c, L), NEW b, NEW protect
    PROVE  LET e == EnforceCiphertextBudget(c, b, protect)
           IN  /\ e \in Parked(c, L, protect)
               /\ b = SizeMax \/ e.total <= b \/ Victims(e, protect) = {}
<1> DEFINE list == Reverse(c.lru)
           n == Len(list)
           A == Parked(c, L, protect)
           visit(d, h) == IF d.total <= b \/ Spared(d, h, protect) THEN d
                          ELSE OffloadCiphertextForCache(d, h)
           step == [x \in A \X (1..n) |-> visit(x[1], list[x[2]])]
           IsIter(f) == f = [s \in SUBSET DOMAIN list |->
                               IF s = {} THEN c
                               ELSE LET x == Max(s) IN visit(f[s \ {x}], list[x])]
           iter == CHOOSE f : IsIter(f)
           e == EnforceCiphertextBudget(c, b, protect)
<1>1. c \in A /\ c.resident = L \ c.offloaded
  BY DEF Parked, Fits, Exact
<1>2. /\ n \in Nat /\ DOMAIN list = 1..n /\ list \in Seq(Handle)
      /\ \A h \in c.resident : \E i \in 1..n : list[i] = h
      /\ \A i \in 1..n : list[i] \in c.resident
  <2>1. c.lru \in Seq(Handle) /\ Elems(c.lru) = c.resident
    BY DEF Fits, Exact, CacheRec
  <2>2. list \in Seq(Handle) /\ Elems(list) = c.resident
    BY <2>1, ReverseElements
  <2> HIDE DEF list
  <2>3. n \in Nat /\ DOMAIN list = 1..n
    BY <2>2, LenProperties
  <2> QED BY <2>2, <2>3 DEF Elems
<1>3. CASE b = SizeMax
  <2>1. e = c
    BY <1>3 DEF EnforceCiphertextBudget
  <2> QED BY <1>1, <1>3, <2>1
<1> SUFFICES ASSUME b # SizeMax
             PROVE  e \in A /\ (e.total <= b \/ Victims(e, protect) = {})
  BY <1>3
<1>4. e = iter[1..n]
  BY <1>2 DEF EnforceCiphertextBudget, FoldLeft, MapThenFoldSet
<1> HIDE DEF list, A
<1>5. ASSUME NEW d \in A, NEW i \in 1..n
      PROVE  visit(d, list[i]) \in A
  <2>1. list[i] \in L
    BY <1>1, <1>2
  <2> QED BY <2>1, OffloadForCacheParks DEF A
<1>6. IsIter(iter)
  <2>1. step \in [A \X (1..n) -> A]
    BY <1>5
  <2> HIDE DEF step
  <2>2. PICK f \in [SUBSET (1..n) -> A] : IsFold(f, n, c, step)
    BY <1>1, <1>2, <2>1, FoldExists
  <2>3. ASSUME NEW s \in SUBSET (1..n), s # {}
        PROVE  f[s] = visit(f[s \ {Max(s)}], list[Max(s)])
    <3>1. Max(s) \in 1..n /\ f[s \ {Max(s)}] \in A
      BY <1>2, <2>3, LargestIndex
    <3>2. f[s] = step[<<f[s \ {Max(s)}], Max(s)>>]
      BY <2>2, <2>3 DEF IsFold
    <3> HIDE DEF visit
    <3> QED BY <3>1, <3>2 DEF step
  <2>4. f[{}] = c
    BY <2>2 DEF IsFold
  <2>5. f = [s \in SUBSET DOMAIN list |-> f[s]]
    BY <1>2
  <2> HIDE DEF visit
  <2>6. IsIter(f)
    BY <1>2, <2>3, <2>4, <2>5
  <2> QED BY <2>6
<1> HIDE DEF iter
\* What has been visited is gone or has to stay, unless the budget is met.
<1> DEFINE Visited(i) == {d \in A : d.total <= b \/ \A j \in 1..i : list[j] \notin Victims(d, protect)}
           Good == [i \in 0..n |-> Visited(i)]
<1>7. iter[{}] \in Good[0]
  <2>1. iter[{}] = c
    BY <1>2, <1>6
  <2>2. c \in Visited(0) /\ 0 \in 0..n
    BY <1>1, <1>2
  <2> HIDE DEF Visited
  <2> QED BY <2>1, <2>2
<1>8. ASSUME NEW i \in 1..n, iter[1..(i - 1)] \in Good[i - 1]
      PROVE  iter[1..i] \in Good[i]
  <2> DEFINE d == iter[1..(i - 1)]
             h == list[i]
             r == iter[1..i]
  <2>1. i \in 0..n /\ i - 1 \in 0..n
    BY <1>2
  <2>2. r = visit(d, h)
    <3>1. 1..i \in SUBSET (1..n) /\ 1..i # {} /\ Max(1..i) = i /\ (1..i) \ {i} = 1..(i - 1)
      BY <1>2, PrefixIndices
    <3> HIDE DEF visit
    <3> QED BY <1>2, <1>6, <3>1
  <2>3. d \in A /\ (d.total <= b \/ \A j \in 1..(i - 1) : list[j] \notin Victims(d, protect))
    BY <1>8, <2>1
  <2>4. \A j \in 1..i : j \in 1..(i - 1) \/ list[j] = h
    BY <1>2
  <2>5. h \in L
    BY <1>1, <1>2
  <2> HIDE DEF d, h, r
  <2>6. r \in Visited(i)
    <3>1. CASE d.total <= b
      BY <2>2, <2>3, <3>1
    <3>2. CASE ~ (d.total <= b) /\ Spared(d, h, protect)
      <4>1. r = d /\ h \notin Victims(d, protect)
        BY <2>2, <3>2 DEF Victims
      <4> QED BY <2>3, <2>4, <3>2, <4>1
    <3>3. CASE ~ (d.total <= b) /\ ~ Spared(d, h, protect)
      <4>1. r = OffloadCiphertextForCache(d, h)
        BY <2>2, <3>3
      <4>2. r \in A /\ Victims(r, protect) \subseteq Victims(d, protect) \ {h}
        BY <2>3, <2>5, <3>3, <4>1, OffloadForCacheParks DEF A
      <4> QED BY <2>3, <2>4, <3>3, <4>2
    <3> QED BY <3>1, <3>2, <3>3
  <2> HIDE DEF Visited
  <2> QED BY <2>1, <2>6 DEF r
<1> HIDE DEF Good
<1>9. iter[1..n] \in Good[n]
  BY <1>2, <1>7, <1>8, PrefixInduction
<1>10. e \in A /\ (e.total <= b \/ \A j \in 1..n : list[j] \notin Victims(e, protect))
  <2>1. n \in 0..n
    BY <1>2
  <2> QED BY <1>4, <1>9, <2>1 DEF Good
<1> HIDE DEF e
<1>11. Victims(e, protect) \subseteq c.resident
  BY <1>1, <1>10 DEF A, Parked, Victims, Fits
<1> QED BY <1>2, <1>10, <1>11

\* OffloadCiphertexts passes over what is pinned.
LEMMA OffloadAllParks ==
    ASSUME CiphertextAssumption, NEW c, NEW L, Fits(c, L)
    PROVE  LET visit(d, h) == IF h \in d.pinned THEN d ELSE OffloadCiphertextForCache(d, h)
           IN  FoldLeft(visit, c, c.lru) \in Parked(c, L, {})
<1> DEFINE list == c.lru
           n == Len(list)
           A == Parked(c, L, {})
           visit(d, h) == IF h \in d.pinned THEN d ELSE OffloadCiphertextForCache(d, h)
           step == [x \in A \X (1..n) |-> visit(x[1], list[x[2]])]
           IsIter(f) == f = [s \in SUBSET DOMAIN list |->
                               IF s = {} THEN c
                               ELSE LET x == Max(s) IN visit(f[s \ {x}], list[x])]
           iter == CHOOSE f : IsIter(f)
           e == FoldLeft(visit, c, list)
<1>1. c \in A /\ c.resident = L \ c.offloaded
  BY DEF Parked, Fits, Exact
<1>2. n \in Nat /\ DOMAIN list = 1..n /\ \A i \in 1..n : list[i] \in c.resident
  <2>1. list \in Seq(Handle) /\ Elems(list) = c.resident
    BY DEF Fits, Exact, CacheRec
  <2> HIDE DEF list
  <2>2. n \in Nat /\ DOMAIN list = 1..n
    BY <2>1, LenProperties
  <2> QED BY <2>1, <2>2 DEF Elems
<1>3. e = iter[1..n]
  BY <1>2 DEF FoldLeft, MapThenFoldSet
<1> HIDE DEF list, A
<1>4. ASSUME NEW d \in A, NEW i \in 1..n
      PROVE  visit(d, list[i]) \in A
  <2>1. list[i] \in L
    BY <1>1, <1>2
  <2>2. CASE list[i] \in d.pinned
    BY <2>2
  <2>3. CASE list[i] \notin d.pinned
    <3>1. ~ Spared(d, list[i], {})
      BY <2>3 DEF Spared
    <3> QED BY <2>1, <2>3, <3>1, OffloadForCacheParks DEF A
  <2> QED BY <2>2, <2>3
<1>5. IsIter(iter)
  <2>1. step \in [A \X (1..n) -> A]
    BY <1>4
  <2> HIDE DEF step
  <2>2. PICK f \in [SUBSET (1..n) -> A] : IsFold(f, n, c, step)
    BY <1>1, <1>2, <2>1, FoldExists
  <2>3. ASSUME NEW s \in SUBSET (1..n), s # {}
        PROVE  f[s] = visit(f[s \ {Max(s)}], list[Max(s)])
    <3>1. Max(s) \in 1..n /\ f[s \ {Max(s)}] \in A
      BY <1>2, <2>3, LargestIndex
    <3>2. f[s] = step[<<f[s \ {Max(s)}], Max(s)>>]
      BY <2>2, <2>3 DEF IsFold
    <3> HIDE DEF visit
    <3> QED BY <3>1, <3>2 DEF step
  <2>4. f[{}] = c
    BY <2>2 DEF IsFold
  <2>5. f = [s \in SUBSET DOMAIN list |-> f[s]]
    BY <1>2
  <2> HIDE DEF visit
  <2>6. IsIter(f)
    BY <1>2, <2>3, <2>4, <2>5
  <2> QED BY <2>6
<1> HIDE DEF iter
<1> DEFINE Good == [i \in 0..n |-> A]
<1>6. iter[{}] \in Good[0]
  <2>1. iter[{}] = c /\ 0 \in 0..n
    BY <1>2, <1>5
  <2> QED BY <1>1, <2>1
<1>7. ASSUME NEW i \in 1..n, iter[1..(i - 1)] \in Good[i - 1]
      PROVE  iter[1..i] \in Good[i]
  <2>1. i \in 0..n /\ i - 1 \in 0..n
    BY <1>2
  <2>2. iter[1..i] = visit(iter[1..(i - 1)], list[i])
    <3>1. 1..i \in SUBSET (1..n) /\ 1..i # {} /\ Max(1..i) = i /\ (1..i) \ {i} = 1..(i - 1)
      BY <1>2, PrefixIndices
    <3> HIDE DEF visit
    <3> QED BY <1>2, <1>5, <3>1
  <2> HIDE DEF visit
  <2> QED BY <1>4, <1>7, <2>1, <2>2
<1> HIDE DEF Good
<1>8. iter[1..n] \in Good[n] /\ n \in 0..n
  BY <1>2, <1>6, <1>7, PrefixInduction
<1> QED BY <1>3, <1>8 DEF A, Good, list

\* The device ciphertexts of the handles S go.
LEMMA DestroyFits ==
    ASSUME CiphertextAssumption, NEW c, NEW L, Fits(c, L), NEW S
    PROVE  LET e == FoldLeft(UntrackCiphertext, c, SetToSeq(S \cap L))
           IN  Fits(e, L \ S) /\ e.offloaded \subseteq c.offloaded
<1> DEFINE list == SetToSeq(S \cap L)
           n == Len(list)
           Rest(M) == {d \in CacheRec : Fits(d, M) /\ d.offloaded \subseteq c.offloaded}
           A == UNION {Rest(M) : M \in SUBSET L}
           step == [x \in A \X (1..n) |-> UntrackCiphertext(x[1], list[x[2]])]
           IsIter(f) == f = [s \in SUBSET DOMAIN list |->
                               IF s = {} THEN c
                               ELSE LET x == Max(s) IN UntrackCiphertext(f[s \ {x}], list[x])]
           iter == CHOOSE f : IsIter(f)
           e == FoldLeft(UntrackCiphertext, c, list)
<1>1. c \in Rest(L) /\ c \in A /\ L \subseteq Handle
  <2>1. c \in Rest(L) /\ L \in SUBSET L /\ L \subseteq Handle
    BY DEF Fits, Exact
  <2> HIDE DEF Rest
  <2> QED BY <2>1
<1>2. /\ n \in Nat /\ DOMAIN list = 1..n /\ Elems(list) = S \cap L
      /\ \A i \in 1..n : list[i] \in S \cap L
  <2>1. IsFiniteSet(S \cap L)
    <3>1. S \cap L \in SUBSET Handle /\ IsFiniteSet(Handle)
      BY <1>1 DEF CiphertextAssumption
    <3> QED BY <3>1, FS_Subset
  <2>2. list \in Seq(S \cap L) /\ Elems(list) = S \cap L
    BY <2>1, SetToSeqElements
  <2> HIDE DEF list
  <2>3. n \in Nat /\ DOMAIN list = 1..n
    BY <2>2, LenProperties
  <2> QED BY <2>2, <2>3, ElementOfSeq
<1>3. e = iter[1..n]
  BY <1>2 DEF FoldLeft, MapThenFoldSet
<1> HIDE DEF list
<1>4. ASSUME NEW M \in SUBSET L, NEW d \in Rest(M), NEW i \in 1..n
      PROVE  UntrackCiphertext(d, list[i]) \in Rest(M \ {list[i]})
  <2>1. list[i] \in Handle /\ Fits(d, M) /\ d.offloaded \subseteq c.offloaded
    BY <1>1, <1>2
  <2>2. /\ Fits(UntrackCiphertext(d, list[i]), M \ {list[i]})
        /\ UntrackCiphertext(d, list[i]).offloaded = d.offloaded \ {list[i]}
    BY <2>1, UntrackFits
  <2> QED BY <2>1, <2>2 DEF Fits, Exact
<1> HIDE DEF Rest
<1>5. ASSUME NEW d \in A, NEW i \in 1..n
      PROVE  UntrackCiphertext(d, list[i]) \in A
  <2>1. PICK M \in SUBSET L : d \in Rest(M)
    OBVIOUS
  <2>2. M \ {list[i]} \in SUBSET L
    OBVIOUS
  <2> QED BY <1>4, <2>1, <2>2
<1> HIDE DEF A
<1>6. IsIter(iter)
  <2>1. step \in [A \X (1..n) -> A]
    BY <1>5
  <2> HIDE DEF step
  <2>2. PICK f \in [SUBSET (1..n) -> A] : IsFold(f, n, c, step)
    BY <1>1, <1>2, <2>1, FoldExists
  <2>3. ASSUME NEW s \in SUBSET (1..n), s # {}
        PROVE  f[s] = UntrackCiphertext(f[s \ {Max(s)}], list[Max(s)])
    <3>1. Max(s) \in 1..n /\ f[s \ {Max(s)}] \in A
      BY <1>2, <2>3, LargestIndex
    <3>2. f[s] = step[<<f[s \ {Max(s)}], Max(s)>>]
      BY <2>2, <2>3 DEF IsFold
    <3> QED BY <3>1, <3>2 DEF step
  <2>4. f[{}] = c
    BY <2>2 DEF IsFold
  <2>5. f = [s \in SUBSET DOMAIN list |-> f[s]]
    BY <1>2
  <2>6. IsIter(f)
    BY <1>2, <2>3, <2>4, <2>5
  <2> QED BY <2>6
<1> HIDE DEF iter
<1> DEFINE Left(i) == {h \in L : \A j \in 1..i : list[j] # h}
           Good == [i \in 0..n |-> Rest(Left(i))]
<1>7. iter[{}] \in Good[0]
  <2>1. iter[{}] = c /\ 0 \in 0..n /\ Left(0) = L
    BY <1>2, <1>6
  <2> HIDE DEF Left
  <2> QED BY <1>1, <2>1
<1>8. ASSUME NEW i \in 1..n, iter[1..(i - 1)] \in Good[i - 1]
      PROVE  iter[1..i] \in Good[i]
  <2>1. i \in 0..n /\ i - 1 \in 0..n
    BY <1>2
  <2>2. iter[1..i] = UntrackCiphertext(iter[1..(i - 1)], list[i])
    <3>1. 1..i \in SUBSET (1..n) /\ 1..i # {} /\ Max(1..i) = i /\ (1..i) \ {i} = 1..(i - 1)
      BY <1>2, PrefixIndices
    <3> QED BY <1>2, <1>6, <3>1
  <2>3. Left(i - 1) \in SUBSET L /\ Left(i - 1) \ {list[i]} = Left(i)
    <3>1. \A j \in 1..i : j \in 1..(i - 1) \/ j = i
      BY <1>2
    <3>2. \A j \in 1..(i - 1) : j \in 1..i
      BY <1>2
    <3>3. i \in 1..i
      BY <1>2
    <3> QED BY <3>1, <3>2, <3>3
  <2> HIDE DEF Left
  <2>4. iter[1..(i - 1)] \in Rest(Left(i - 1))
    BY <1>8, <2>1
  <2>5. iter[1..i] \in Rest(Left(i))
    BY <1>4, <2>2, <2>3, <2>4
  <2> QED BY <2>1, <2>5
<1> HIDE DEF Good
<1>9. iter[1..n] \in Good[n]
  BY <1>2, <1>7, <1>8, PrefixInduction
<1>10. e \in Rest(Left(n))
  <2>1. n \in 0..n
    BY <1>2
  <2> QED BY <1>3, <1>9, <2>1 DEF Good
<1>11. Left(n) = L \ S
  BY <1>2 DEF Elems
<1> HIDE DEF e, Left
<1>12. Fits(e, L \ S) /\ e.offloaded \subseteq c.offloaded
  BY <1>10, <1>11 DEF Rest
<1> QED BY <1>12 DEF e, list

\* What EnforceCiphertextBudget leaves
LEMMA EnforceFits ==
    ASSUME CiphertextAssumption, NEW c, NEW L, Fits(c, L), NEW b, NEW protect
    PROVE  LET e == EnforceCiphertextBudget(c, b, protect)
           IN  /\ Fits(e, L) /\ e.pinned = c.pinned
               /\ e.offloaded \cap c.pinned \subseteq c.offloaded
               /\ \/ b = SizeMax \/ e.total <= b
                  \/ \A g \in e.resident \ protect : g \in e.pinned \/ e.shape[g] = "extended"
<1> DEFINE e == EnforceCiphertextBudget(c, b, protect)
<1>1. /\ e \in Parked(c, L, protect)
      /\ b = SizeMax \/ e.total <= b \/ Victims(e, protect) = {}
  BY EnforceParks
<1> HIDE DEF e
<1>2. /\ Fits(e, L) /\ e.pinned = c.pinned
      /\ e.offloaded \cap c.pinned \subseteq c.offloaded
  BY <1>1 DEF Parked
<1>3. Victims(e, protect) = {} =>
          \A g \in e.resident \ protect : g \in e.pinned \/ e.shape[g] = "extended"
  BY DEF Victims, Spared
<1> QED BY <1>1, <1>2, <1>3 DEF e
-----------------------------------------------------------------------------
(* The scripts                                                             *)

CallRec == [do : {"load", "copy", "fetch"}, ct : Handle, of : Handle]

OpRec == [todo : Seq(CallRec), writes : SUBSET Handle, makes : SUBSET Handle,
          held : SUBSET Handle]

\* When its i-th call comes, h is loaded, if the handles L are at the start.
Ready(todo, L, i, h) == h \in L \/ \E j \in 1..(i - 1) : todo[j].do # "fetch" /\ todo[j].ct = h

\* From where the handles L are loaded, those of O exist and the operation
\* holds pointers to those of H, each call finds what it needs: what it loads
\* exists, and nothing is held yet; what it copies or fetches is loaded; a copy is new.
Follows(todo, L, O, H) ==
    \A i \in 1..Len(todo) :
        /\ todo[i].do = "load" =>
              todo[i].ct \in O /\ H = {} /\ \A j \in 1..i : todo[j].do = "load"
        /\ todo[i].do = "copy" =>
              /\ Ready(todo, L, i, todo[i].of) /\ todo[i].ct \in Handle \ O
              /\ \A j \in 1..Len(todo) :
                    todo[j].do = "copy" /\ todo[j].ct = todo[i].ct => j = i
        /\ todo[i].do = "fetch" => Ready(todo, L, i, todo[i].ct)

Scripted(o, L, O) ==
    /\ o \in OpRec
    /\ Follows(o.todo, L, O, o.held)
    /\ \A h \in o.writes : Ready(o.todo, L, Len(o.todo) + 1, h)

LEMMA IdleScripted == ASSUME NEW L, NEW O PROVE Scripted(NoOp, L, O)
BY DEF NoOp, Scripted, OpRec, Follows

\* The first call is made: one that loads a handle, which may be new, or one
\* that fetches a handle.
LEMMA CallScripted ==
    ASSUME NEW o, NEW L, NEW O, Scripted(o, L, O), o.todo # <<>>,
           NEW c, c = Head(o.todo), NEW H,
           H \in SUBSET Handle, c.do = "load" => H = {},
           NEW r, r = [o EXCEPT !.todo = Tail(@), !.held = H],
           NEW M, L \subseteq M, c.do # "fetch" => c.ct \in M,
           NEW P, O \subseteq P, P \subseteq O \cup (IF c.do = "copy" THEN {c.ct} ELSE {})
    PROVE  Scripted(r, M, P)
<1> DEFINE t == o.todo
           u == Tail(t)
<1>1. o \in OpRec /\ t \in Seq(CallRec) /\ t # <<>>
  BY DEF Scripted, OpRec
<1>2. Follows(t, L, O, o.held) /\ \A h \in o.writes : Ready(t, L, Len(t) + 1, h)
  BY DEF Scripted
<1>3. /\ Len(t) \in Nat /\ Len(t) > 0 /\ c = t[1]
      /\ u \in Seq(CallRec) /\ Len(u) = Len(t) - 1
      /\ \A i \in 1..Len(u) : i + 1 \in 1..Len(t) /\ u[i] = t[i + 1]
  <2>1. Len(t) \in Nat /\ Len(t) > 0
    BY <1>1, LenProperties, EmptySeq
  <2>2. /\ c = t[1] /\ u \in Seq(CallRec) /\ Len(u) = Len(t) - 1
        /\ \A i \in 1..Len(u) : u[i] = t[i + 1]
    BY <1>1, HeadTailProperties
  <2> HIDE DEF t, u
  <2> QED BY <2>1, <2>2
<1>4. r \in OpRec /\ r.todo = u /\ r.held = H /\ r.writes = o.writes
  BY <1>1, <1>3 DEF OpRec
<1> HIDE DEF t, u
<1>5. ASSUME NEW h, NEW i \in 1..(Len(u) + 1), Ready(t, L, i + 1, h)
      PROVE  Ready(u, M, i, h)
  <2>1. CASE h \in L
    BY <2>1 DEF Ready
  <2>2. ASSUME NEW j \in 1..((i + 1) - 1), t[j].do # "fetch", t[j].ct = h
        PROVE  Ready(u, M, i, h)
    <3>1. CASE j = 1
      BY <1>3, <2>2, <3>1 DEF Ready
    <3>2. CASE j # 1
      <4>1. j - 1 \in 1..(i - 1) /\ j - 1 \in 1..Len(u) /\ (j - 1) + 1 = j
        BY <1>3, <3>2
      <4>2. u[j - 1] = t[j]
        BY <1>3, <4>1
      <4> QED BY <2>2, <4>1, <4>2 DEF Ready
    <3> QED BY <3>1, <3>2
  <2> QED BY <1>5, <2>1, <2>2 DEF Ready
<1>6. ASSUME NEW i \in 1..Len(u)
      PROVE  /\ u[i].do = "load" =>
                   u[i].ct \in P /\ H = {} /\ \A j \in 1..i : u[j].do = "load"
             /\ u[i].do = "copy" =>
                   /\ Ready(u, M, i, u[i].of) /\ u[i].ct \in Handle \ P
                   /\ \A j \in 1..Len(u) :
                         u[j].do = "copy" /\ u[j].ct = u[i].ct => j = i
             /\ u[i].do = "fetch" => Ready(u, M, i, u[i].ct)
  <2>1. i + 1 \in 1..Len(t) /\ u[i] = t[i + 1] /\ 1 \in 1..Len(t) /\ i \in 1..(Len(u) + 1)
        /\ 1 \in 1..(i + 1)
    BY <1>3
  <2>2. ASSUME u[i].do = "load"
        PROVE  u[i].ct \in P /\ H = {} /\ \A j \in 1..i : u[j].do = "load"
    <3>1. u[i].ct \in O /\ \A j \in 1..(i + 1) : t[j].do = "load"
      BY <1>2, <2>1, <2>2 DEF Follows
    <3>2. H = {}
      BY <1>3, <2>1, <3>1
    <3>3. \A j \in 1..i : j + 1 \in 1..(i + 1) /\ u[j] = t[j + 1]
      BY <1>3
    <3> QED BY <3>1, <3>2, <3>3
  <2>3. ASSUME u[i].do = "copy"
        PROVE  /\ Ready(u, M, i, u[i].of) /\ u[i].ct \in Handle \ P
               /\ \A j \in 1..Len(u) : u[j].do = "copy" /\ u[j].ct = u[i].ct => j = i
    <3>1. /\ Ready(t, L, i + 1, t[i + 1].of) /\ t[i + 1].ct \in Handle \ O
          /\ \A j \in 1..Len(t) : t[j].do = "copy" /\ t[j].ct = t[i + 1].ct => j = i + 1
      BY <1>2, <2>1, <2>3 DEF Follows
    <3>2. Ready(u, M, i, u[i].of)
      BY <1>5, <2>1, <3>1
    <3>3. ~ (c.do = "copy" /\ c.ct = u[i].ct)
      BY <1>3, <2>1, <3>1
    <3>4. u[i].ct \in Handle \ P
      BY <2>1, <3>1, <3>3
    <3>5. ASSUME NEW j \in 1..Len(u), u[j].do = "copy", u[j].ct = u[i].ct
          PROVE  j = i
      <4>1. j + 1 \in 1..Len(t) /\ u[j] = t[j + 1]
        BY <1>3
      <4>2. j + 1 = i + 1
        BY <2>1, <3>1, <3>5, <4>1
      <4> QED BY <4>2
    <3> QED BY <3>2, <3>4, <3>5
  <2>4. ASSUME u[i].do = "fetch" PROVE Ready(u, M, i, u[i].ct)
    <3>1. Ready(t, L, i + 1, t[i + 1].ct)
      BY <1>2, <2>1, <2>4 DEF Follows
    <3> QED BY <1>5, <2>1, <3>1
  <2> QED BY <2>2, <2>3, <2>4
<1>7. Follows(u, M, P, H)
  BY <1>6 DEF Follows
<1>8. ASSUME NEW h \in o.writes PROVE Ready(u, M, Len(u) + 1, h)
  <2>1. Ready(t, L, (Len(u) + 1) + 1, h) /\ Len(u) + 1 \in 1..(Len(u) + 1)
    BY <1>2, <1>3
  <2> QED BY <1>5, <2>1
<1> QED BY <1>4, <1>7, <1>8 DEF Scripted

\* What the first call of a script finds
LEMMA FirstCall ==
    ASSUME NEW o, NEW L, NEW O, Scripted(o, L, O), o.todo # <<>>, NEW c, c = Head(o.todo)
    PROVE  /\ c \in CallRec
           /\ c.do = "load" => c.ct \in O /\ o.held = {}
           /\ c.do = "copy" => c.of \in L /\ c.ct \in Handle \ O
           /\ c.do = "fetch" => c.ct \in L
<1>1. o.todo \in Seq(CallRec)
  BY DEF Scripted, OpRec
<1>2. 1 \in 1..Len(o.todo) /\ c = o.todo[1] /\ c \in CallRec
  <2>1. Len(o.todo) \in Nat /\ Len(o.todo) > 0
    BY <1>1, LenProperties, EmptySeq
  <2>2. c = o.todo[1] /\ c \in CallRec
    BY <1>1, HeadTailProperties
  <2> QED BY <2>1, <2>2
<1>3. \A h : Ready(o.todo, L, 1, h) => h \in L
  BY DEF Ready
<1>4. Follows(o.todo, L, O, o.held)
  BY DEF Scripted
<1> QED BY <1>2, <1>3, <1>4 DEF Follows

\* What the kernels find
LEMMA LastCall ==
    ASSUME NEW o, NEW L, NEW O, Scripted(o, L, O), o.todo = <<>>
    PROVE  o.writes \subseteq L
<1>1. Len(o.todo) = 0
  OBVIOUS
<1> QED BY <1>1 DEF Scripted, Ready

\* A list of calls on the handles of a list
LEMMA EachCalls ==
    ASSUME NEW do \in {"load", "copy", "fetch"}, NEW hs \in Seq(Handle)
    PROVE  /\ Each(do, hs) \in Seq(CallRec) /\ Len(Each(do, hs)) = Len(hs)
           /\ \A i \in 1..Len(hs) : /\ Each(do, hs)[i].do = do
                                    /\ Each(do, hs)[i].ct = hs[i] /\ hs[i] \in Handle
<1>1. /\ Len(hs) \in Nat /\ DOMAIN hs = 1..Len(hs)
      /\ \A i \in 1..Len(hs) : hs[i] \in Handle
  BY LenProperties, ElementOfSeq
<1>2. \A i \in 1..Len(hs) : /\ Call(do, hs[i]) \in CallRec
                            /\ Call(do, hs[i]).do = do /\ Call(do, hs[i]).ct = hs[i]
  BY <1>1 DEF Call, CallRec
<1>3. Each(do, hs) = [i \in 1..Len(hs) |-> Call(do, hs[i])]
  BY <1>1 DEF Each
<1> HIDE DEF Call
<1>4. Each(do, hs) \in [1..Len(hs) -> CallRec]
  BY <1>2, <1>3
<1>5. Each(do, hs) \in Seq(CallRec) /\ Len(Each(do, hs)) = Len(hs)
  BY <1>1, <1>3, <1>4, IsASeq, LenProperties
<1> QED BY <1>1, <1>2, <1>3, <1>5

\* The operands of an operation
LEMMA OperandLists ==
    ASSUME objects \subseteq Handle, NEW ins \in Operands
    PROVE  /\ ins \in Seq(Handle) /\ ins # <<>>
           /\ \A i \in 1..Len(ins) : ins[i] \in objects
<1>1. CASE \E a \in objects : ins = <<a>>
  BY <1>1
<1>2. CASE \E a, b \in objects : ins = <<a, b>>
  BY <1>2
<1> QED BY <1>1, <1>2 DEF Operands

LEMMA InPlaceScripted ==
    ASSUME objects \subseteq Handle, NEW ins \in Operands, NEW L
    PROVE  Scripted(InPlace(ins), L, objects)
<1> DEFINE s == Each("load", ins)
           u == Each("fetch", ins)
           t == s \o u
           n == Len(ins)
           o == InPlace(ins)
<1>1. /\ ins \in Seq(Handle) /\ ins # <<>> /\ n \in Nat /\ n > 0
      /\ \A i \in 1..n : ins[i] \in objects
  <2>1. ins \in Seq(Handle) /\ ins # <<>> /\ \A i \in 1..n : ins[i] \in objects
    BY OperandLists
  <2> QED BY <2>1, LenProperties, EmptySeq
<1>2. /\ s \in Seq(CallRec) /\ u \in Seq(CallRec) /\ Len(s) = n /\ Len(u) = n
      /\ \A i \in 1..n : /\ s[i].do = "load" /\ s[i].ct = ins[i]
                         /\ u[i].do = "fetch" /\ u[i].ct = ins[i]
  BY <1>1, EachCalls
<1>3. o = [todo |-> t, writes |-> {ins[1]}, makes |-> {}, held |-> {}]
  BY DEF InPlace
<1> HIDE DEF s, u, o, n
<1>4. /\ t \in Seq(CallRec) /\ Len(t) = n + n
      /\ \A i \in 1..n : t[i] = s[i]
      /\ \A i \in (n + 1)..(n + n) : i - n \in 1..n /\ t[i] = u[i - n]
  <2>1. /\ t \in Seq(CallRec) /\ Len(t) = Len(s) + Len(u)
        /\ \A i \in 1..(Len(s) + Len(u)) :
              t[i] = IF i <= Len(s) THEN s[i] ELSE u[i - Len(s)]
    BY <1>2, ConcatProperties
  <2> HIDE DEF t
  <2> QED BY <1>1, <1>2, <2>1
<1> HIDE DEF t
<1>5. ASSUME NEW h \in Handle, NEW j \in 1..n, h = ins[j], NEW i, i \in (n + 1)..(n + n + 1)
      PROVE  Ready(t, L, i, h)
  <2>1. j \in 1..(i - 1) /\ t[j].do = "load" /\ t[j].ct = h
    BY <1>1, <1>2, <1>4, <1>5
  <2> QED BY <2>1 DEF Ready
<1>6. ASSUME NEW i \in 1..(n + n)
      PROVE  /\ t[i].do = "load" => t[i].ct \in objects /\ \A j \in 1..i : t[j].do = "load"
             /\ t[i].do # "copy"
             /\ t[i].do = "fetch" => Ready(t, L, i, t[i].ct)
  <2>1. CASE i <= n
    <3>1. \A j \in 1..i : j \in 1..n
      BY <1>1, <2>1
    <3>2. i \in 1..n /\ \A j \in 1..i : t[j].do = "load"
      BY <1>1, <1>2, <1>4, <2>1, <3>1
    <3>3. t[i].do = "load" /\ t[i].ct \in objects
      BY <1>1, <1>2, <1>4, <3>2
    <3> QED BY <3>2, <3>3
  <2>2. CASE ~ (i <= n)
    <3>1. i \in (n + 1)..(n + n) /\ i - n \in 1..n /\ i \in (n + 1)..(n + n + 1)
      BY <1>1, <2>2
    <3>2. t[i].do = "fetch" /\ t[i].ct = ins[i - n] /\ ins[i - n] \in Handle
      BY <1>1, <1>2, <1>4, <3>1
    <3> QED BY <1>5, <3>1, <3>2
  <2> QED BY <2>1, <2>2
<1>7. Follows(t, L, objects, {})
  BY <1>4, <1>6 DEF Follows
<1>8. ins[1] \in Handle /\ Ready(t, L, Len(t) + 1, ins[1])
  <2>1. 1 \in 1..n /\ n + n + 1 \in (n + 1)..(n + n + 1) /\ ins[1] \in Handle
    BY <1>1
  <2> QED BY <1>4, <1>5, <2>1
<1>9. o \in OpRec /\ o.todo = t /\ o.writes = {ins[1]} /\ o.held = {}
  BY <1>3, <1>4, <1>8 DEF OpRec
<1> HIDE DEF o
<1>10. Scripted(o, L, objects)
  BY <1>7, <1>8, <1>9 DEF Scripted
<1> QED BY <1>10 DEF o

LEMMA ReturningScripted ==
    ASSUME objects \subseteq Handle, NEW ins \in Operands, NEW r \in Missing, NEW L
    PROVE  Scripted(Returning(ins, r), L, objects)
<1> DEFINE s == Each("load", ins)
           c == CopyOf(ins[1], r)
           hs == <<r>> \o Tail(ins)
           u == Each("fetch", hs)
           v == s \o <<c>>
           t == v \o u
           n == Len(ins)
           o == Returning(ins, r)
<1>1. /\ ins \in Seq(Handle) /\ ins # <<>> /\ n \in Nat /\ n > 0
      /\ \A i \in 1..n : ins[i] \in objects
      /\ r \in Handle \ objects
  <2>1. ins \in Seq(Handle) /\ ins # <<>> /\ \A i \in 1..n : ins[i] \in objects
    BY OperandLists
  <2> QED BY <2>1, LenProperties, EmptySeq DEF Missing
<1>2. /\ hs \in Seq(Handle) /\ Len(hs) = n /\ hs[1] = r
      /\ \A i \in 2..n : hs[i] = ins[i]
  <2>1. /\ Tail(ins) \in Seq(Handle) /\ Len(Tail(ins)) = n - 1
        /\ \A i \in 1..(n - 1) : Tail(ins)[i] = ins[i + 1]
    BY <1>1, HeadTailProperties
  <2>2. <<r>> \in Seq(Handle) /\ Len(<<r>>) = 1 /\ <<r>>[1] = r
    BY <1>1
  <2>3. /\ hs \in Seq(Handle) /\ Len(hs) = Len(<<r>>) + Len(Tail(ins))
        /\ \A i \in 1..(Len(<<r>>) + Len(Tail(ins))) :
              hs[i] = IF i <= Len(<<r>>) THEN <<r>>[i] ELSE Tail(ins)[i - Len(<<r>>)]
    BY <2>1, <2>2, ConcatProperties
  <2> HIDE DEF hs
  <2>4. hs \in Seq(Handle) /\ Len(hs) = n /\ hs[1] = r
    BY <1>1, <2>1, <2>2, <2>3
  <2>5. ASSUME NEW i \in 2..n PROVE hs[i] = ins[i]
    <3>1. i \in 1..n /\ i - 1 \in 1..(n - 1) /\ ~ (i <= 1) /\ (i - 1) + 1 = i
      BY <1>1
    <3> QED BY <1>1, <2>1, <2>2, <2>3, <3>1
  <2> QED BY <2>4, <2>5
<1> HIDE DEF hs
<1>3. /\ s \in Seq(CallRec) /\ Len(s) = n
      /\ \A i \in 1..n : s[i].do = "load" /\ s[i].ct = ins[i]
  BY <1>1, EachCalls
<1>4. /\ u \in Seq(CallRec) /\ Len(u) = n
      /\ \A i \in 1..n : u[i].do = "fetch" /\ u[i].ct = hs[i]
  BY <1>2, EachCalls
<1>5. c \in CallRec /\ c.do = "copy" /\ c.ct = r /\ c.of = ins[1] /\ ins[1] \in Handle
  BY <1>1 DEF CopyOf, CallRec
<1>6. o = [todo |-> t, writes |-> {r}, makes |-> {r}, held |-> {}]
  <2>1. t = s \o <<c>> \o u
    OBVIOUS
  <2> HIDE DEF t
  <2> QED BY <2>1 DEF Returning, hs
<1> HIDE DEF s, u, o, n, c
<1>7. /\ v \in Seq(CallRec) /\ Len(v) = n + 1
      /\ \A i \in 1..n : v[i] = s[i]
      /\ v[n + 1] = c
  <2>1. <<c>> \in Seq(CallRec) /\ Len(<<c>>) = 1 /\ <<c>>[1] = c
    BY <1>5
  <2>2. /\ v \in Seq(CallRec) /\ Len(v) = Len(s) + Len(<<c>>)
        /\ \A i \in 1..(Len(s) + Len(<<c>>)) :
              v[i] = IF i <= Len(s) THEN s[i] ELSE <<c>>[i - Len(s)]
    BY <1>3, <2>1, ConcatProperties
  <2> HIDE DEF v
  <2>3. \A i \in 1..(n + 1) : v[i] = IF i <= n THEN s[i] ELSE <<c>>[i - n]
    BY <1>3, <2>1, <2>2
  <2>4. (n + 1) - n = 1 /\ ~ (n + 1 <= n) /\ n + 1 \in 1..(n + 1)
    BY <1>1
  <2>5. v[n + 1] = c
    BY <2>1, <2>3, <2>4
  <2>6. \A i \in 1..n : i \in 1..(n + 1) /\ i <= n
    BY <1>1
  <2> QED BY <1>3, <2>1, <2>2, <2>3, <2>5, <2>6
<1> HIDE DEF v
<1>8. /\ t \in Seq(CallRec) /\ Len(t) = n + 1 + n
      /\ \A i \in 1..n : t[i] = s[i]
      /\ t[n + 1] = c
      /\ \A i \in (n + 2)..(n + 1 + n) : t[i] = u[i - (n + 1)]
  <2>1. /\ t \in Seq(CallRec) /\ Len(t) = Len(v) + Len(u)
        /\ \A i \in 1..(Len(v) + Len(u)) :
              t[i] = IF i <= Len(v) THEN v[i] ELSE u[i - Len(v)]
    BY <1>4, <1>7, ConcatProperties
  <2> HIDE DEF t
  <2>2. \A i \in 1..(n + 1 + n) : t[i] = IF i <= n + 1 THEN v[i] ELSE u[i - (n + 1)]
    BY <1>4, <1>7, <2>1
  <2>3. n + 1 \in 1..(n + 1 + n) /\ \A i \in 1..n : i \in 1..(n + 1 + n) /\ i <= n + 1
    BY <1>1
  <2>4. t[n + 1] = c /\ \A i \in 1..n : t[i] = s[i]
    BY <1>1, <1>7, <2>2, <2>3
  <2>5. \A i \in (n + 2)..(n + 1 + n) : i \in 1..(n + 1 + n) /\ ~ (i <= n + 1)
    BY <1>1
  <2> QED BY <1>1, <1>4, <1>7, <2>1, <2>2, <2>4, <2>5
<1> HIDE DEF t
<1>9. ASSUME NEW h \in Handle, NEW j \in 1..(n + 1), t[j].do # "fetch", t[j].ct = h,
             NEW i, i \in (n + 1)..(n + 1 + n + 1), j # i
      PROVE  Ready(t, L, i, h)
  <2>1. j \in 1..(i - 1)
    BY <1>1, <1>9
  <2> QED BY <1>9, <2>1 DEF Ready
<1>10. ASSUME NEW i \in 1..(n + 1 + n)
       PROVE  \/ i \in 1..n /\ t[i].do = "load" /\ t[i].ct \in objects
              \/ i = n + 1 /\ t[i].do = "copy" /\ t[i].ct = r /\ Ready(t, L, i, t[i].of)
              \/ t[i].do = "fetch" /\ Ready(t, L, i, t[i].ct)
  <2>1. CASE i <= n
    BY <1>1, <1>3, <1>8, <2>1
  <2>2. CASE i = n + 1
    <3>1. 1 \in 1..(n + 1) /\ 1 \in 1..n /\ i \in (n + 1)..(n + 1 + n + 1) /\ 1 # i
      BY <1>1, <2>2
    <3>2. t[1].do = "load" /\ t[1].ct = ins[1]
      BY <1>3, <1>8, <3>1
    <3>3. t[i] = c
      BY <1>8, <2>2
    <3> QED BY <1>5, <1>9, <2>2, <3>1, <3>2, <3>3
  <2>3. CASE i > n + 1
    <3> DEFINE k == i - (n + 1)
    <3>1. k \in 1..n /\ k \in 1..(n + 1) /\ i \in (n + 2)..(n + 1 + n) /\ k # i
          /\ n + 1 \in 1..(n + 1) /\ n + 1 # i /\ i \in (n + 1)..(n + 1 + n + 1)
      BY <1>1, <2>3
    <3>2. t[i].do = "fetch" /\ t[i].ct = hs[k]
      BY <1>4, <1>8, <3>1
    <3> HIDE DEF k
    <3>3. CASE k = 1
      <4>1. t[n + 1].do # "fetch" /\ t[n + 1].ct = r /\ r \in Handle /\ t[i].ct = r
        BY <1>1, <1>2, <1>5, <1>8, <3>2, <3>3
      <4> QED BY <1>9, <3>1, <3>2, <4>1
    <3>4. CASE k # 1
      <4>1. hs[k] = ins[k] /\ ins[k] \in Handle
        <5>1. k \in 2..n
          BY <1>1, <3>1, <3>4
        <5> QED BY <1>1, <1>2, <3>1, <5>1
      <4>2. t[k].do # "fetch" /\ t[k].ct = ins[k]
        BY <1>3, <1>8, <3>1
      <4> QED BY <1>9, <3>1, <3>2, <4>1, <4>2
    <3> QED BY <3>3, <3>4
  <2> QED BY <1>1, <2>1, <2>2, <2>3
<1>11. Follows(t, L, objects, {})
  <2>1. \A i \in 1..n : \A j \in 1..i : j \in 1..n
    BY <1>1
  <2>2. \A i \in 1..n : t[i].do = "load"
    BY <1>3, <1>8
  <2>3. \A i \in 1..n : \A j \in 1..i : t[j].do = "load"
    BY <2>1, <2>2
  <2> QED BY <1>1, <1>8, <1>10, <2>3 DEF Follows
<1>12. r \in Handle /\ Ready(t, L, Len(t) + 1, r)
  <2>1. n + 1 \in 1..(n + 1) /\ n + 1 + n + 1 \in (n + 1)..(n + 1 + n + 1)
        /\ n + 1 # n + 1 + n + 1
    BY <1>1
  <2>2. t[n + 1].do # "fetch" /\ t[n + 1].ct = r /\ r \in Handle
    BY <1>1, <1>5, <1>8
  <2> QED BY <1>8, <1>9, <2>1, <2>2
<1>13. o \in OpRec /\ o.todo = t /\ o.writes = {r} /\ o.held = {}
  BY <1>6, <1>8, <1>12 DEF OpRec
<1> HIDE DEF o
<1>14. Scripted(o, L, objects)
  BY <1>11, <1>12, <1>13 DEF Scripted
<1> QED BY <1>14 DEF o

\* Two lists of two items in one
LEMMA PairAfterPair ==
    ASSUME NEW S, NEW s \in Seq(S), Len(s) = 2, NEW u \in Seq(S)
    PROVE  /\ s \o u \in Seq(S) /\ Len(s \o u) = 2 + Len(u)
           /\ (s \o u)[1] = s[1] /\ (s \o u)[2] = s[2]
           /\ \A i \in 1..Len(u) : (s \o u)[i + 2] = u[i]
<1> DEFINE t == s \o u
<1>1. Len(u) \in Nat
  BY LenProperties
<1>2. /\ t \in Seq(S) /\ Len(t) = Len(s) + Len(u)
      /\ \A i \in 1..(Len(s) + Len(u)) : t[i] = IF i <= Len(s) THEN s[i] ELSE u[i - Len(s)]
  BY ConcatProperties
<1> HIDE DEF t
<1>3. t[1] = s[1] /\ t[2] = s[2] /\ Len(t) = 2 + Len(u)
  BY <1>1, <1>2
<1>4. ASSUME NEW i \in 1..Len(u) PROVE t[i + 2] = u[i]
  <2>1. i + 2 \in 1..(Len(s) + Len(u)) /\ ~ (i + 2 <= Len(s)) /\ (i + 2) - Len(s) = i
    BY <1>1
  <2> QED BY <1>2, <2>1
<1> QED BY <1>2, <1>3, <1>4 DEF t

\* FlattenSeq of one pair, or of two
LEMMA FlattenPairs ==
    ASSUME NEW S, NEW m \in 1..2, NEW seqs \in [1..m -> Seq(S)],
           \A k \in 1..m : Len(seqs[k]) = 2
    PROVE  /\ FlattenSeq(seqs) \in Seq(S) /\ Len(FlattenSeq(seqs)) = m + m
           /\ \A k \in 1..m : /\ FlattenSeq(seqs)[k + k - 1] = seqs[k][1]
                              /\ FlattenSeq(seqs)[k + k] = seqs[k][2]
<1> DEFINE IsFlat(f) == f = [i \in 1..Len(seqs) |->
                               IF i = 1 THEN seqs[i] ELSE f[i - 1] \o seqs[i]]
           flat == CHOOSE f : IsFlat(f)
           two == [i \in 1..m |-> IF i = 1 THEN seqs[1] ELSE seqs[1] \o seqs[2]]
<1>1. seqs \in Seq(Seq(S)) /\ Len(seqs) = m
  BY IsASeq, LenProperties
<1>2. IsFlat(two)
  <2>1. \A i \in 1..m : two[i] = IF i = 1 THEN seqs[i] ELSE two[i - 1] \o seqs[i]
    <3>1. \A i \in 1..m : i = 1 \/ (i = 2 /\ 1 \in 1..m)
      OBVIOUS
    <3> QED BY <3>1
  <2>2. two = [i \in 1..m |-> two[i]]
    OBVIOUS
  <2> HIDE DEF two
  <2> QED BY <1>1, <2>1, <2>2
<1>3. IsFlat(flat)
  BY <1>2
<1>4. FlattenSeq(seqs) = flat[m]
  BY <1>1 DEF FlattenSeq
<1> HIDE DEF flat
<1>5. flat[1] = seqs[1] /\ (m = 2 => flat[2] = flat[1] \o seqs[2])
  <2>1. \A i \in 1..m : flat[i] = IF i = 1 THEN seqs[i] ELSE flat[i - 1] \o seqs[i]
    BY <1>1, <1>3
  <2>2. 1 \in 1..m /\ (m = 2 => 2 \in 1..m) /\ 2 - 1 = 1 /\ 2 # 1
    OBVIOUS
  <2>3. ASSUME m = 2 PROVE flat[2] = flat[2 - 1] \o seqs[2]
    BY <2>1, <2>2, <2>3
  <2> QED BY <2>1, <2>2, <2>3
<1>6. 1 \in 1..m /\ seqs[1] \in Seq(S) /\ Len(seqs[1]) = 2
  OBVIOUS
<1>7. CASE m = 1
  <2>1. flat[m] = seqs[1] /\ \A k \in 1..m : k = 1
    BY <1>5, <1>7
  <2> QED BY <1>4, <1>6, <1>7, <2>1
<1>8. CASE m = 2
  <2>1. seqs[2] \in Seq(S) /\ Len(seqs[2]) = 2
    BY <1>8
  <2>2. /\ seqs[1] \o seqs[2] \in Seq(S) /\ Len(seqs[1] \o seqs[2]) = 2 + Len(seqs[2])
        /\ (seqs[1] \o seqs[2])[1] = seqs[1][1] /\ (seqs[1] \o seqs[2])[2] = seqs[1][2]
        /\ \A i \in 1..Len(seqs[2]) : (seqs[1] \o seqs[2])[i + 2] = seqs[2][i]
    BY <1>6, <2>1, PairAfterPair
  <2>3. flat[m] = seqs[1] \o seqs[2]
    BY <1>5, <1>8
  <2> DEFINE f == seqs[1] \o seqs[2]
  <2> HIDE DEF f
  <2>4. f \in Seq(S) /\ Len(f) = 4 /\ f[1] = seqs[1][1] /\ f[2] = seqs[1][2]
        /\ f[3] = seqs[2][1] /\ f[4] = seqs[2][2]
    <3>1. /\ f \in Seq(S) /\ Len(f) = 2 + Len(seqs[2]) /\ f[1] = seqs[1][1]
          /\ f[2] = seqs[1][2] /\ \A i \in 1..Len(seqs[2]) : f[i + 2] = seqs[2][i]
      BY <2>2 DEF f
    <3>2. f[1 + 2] = seqs[2][1] /\ f[2 + 2] = seqs[2][2]
      BY <2>1, <3>1
    <3> QED BY <2>1, <3>1, <3>2
  <2>5. \A k \in 1..m : (k = 1 /\ k + k - 1 = 1 /\ k + k = 2) \/ (k = 2 /\ k + k - 1 = 3 /\ k + k = 4)
    BY <1>8
  <2> QED BY <1>4, <1>8, <2>3, <2>4, <2>5 DEF f
<1> QED BY <1>7, <1>8

\* The calls of EvalFastRotation
LEMMA HoistedCalls ==
    ASSUME NEW a \in Handle, NEW rs \in ResultLists
    PROVE  LET m == Len(rs)
               t == Hoisted(a, rs).todo
           IN  /\ m \in 1..2 /\ rs \in [1..m -> Missing]
               /\ \A k, l \in 1..m : rs[k] = rs[l] => k = l
               /\ t \in Seq(CallRec) /\ Len(t) = 2 + (m + m)
               /\ t[1].do = "load" /\ t[1].ct = a /\ t[2].do = "fetch" /\ t[2].ct = a
               /\ \A k \in 1..m :
                     /\ t[k + k + 1].do = "copy" /\ t[k + k + 1].ct = rs[k]
                     /\ t[k + k + 1].of = a
                     /\ t[k + k + 2].do = "fetch" /\ t[k + k + 2].ct = rs[k]
<1> DEFINE m == Len(rs)
           t == Hoisted(a, rs).todo
           p == Each("load", <<a>>)
           q == Each("fetch", <<a>>)
           seqs == [i \in DOMAIN rs |-> <<CopyOf(a, rs[i]), Call("fetch", rs[i])>>]
           f == FlattenSeq(seqs)
<1>1. /\ m \in 1..2 /\ DOMAIN rs = 1..m /\ rs \in [1..m -> Missing]
      /\ \A k, l \in 1..m : rs[k] = rs[l] => k = l
  <2>1. PICK n \in 1..2 : rs \in [1..n -> Missing] /\ Distinct(rs)
    BY DEF ResultLists
  <2>2. rs \in Seq(Missing) /\ n = m
    BY <2>1, IsASeq, LenProperties
  <2> QED BY <2>1, <2>2 DEF Distinct
<1> HIDE DEF m
<1>2. /\ p \in Seq(CallRec) /\ Len(p) = 1 /\ p[1].do = "load" /\ p[1].ct = a
      /\ q \in Seq(CallRec) /\ Len(q) = 1 /\ q[1].do = "fetch" /\ q[1].ct = a
  <2> DEFINE hs == <<a>>
  <2>1. hs \in Seq(Handle) /\ Len(hs) = 1 /\ hs[1] = a /\ 1 \in 1..Len(hs)
    OBVIOUS
  <2>2. p = Each("load", hs) /\ q = Each("fetch", hs)
    OBVIOUS
  <2> HIDE DEF p, q, hs
  <2>3. /\ p \in Seq(CallRec) /\ Len(p) = Len(hs)
        /\ \A i \in 1..Len(hs) : p[i].do = "load" /\ p[i].ct = hs[i]
    BY <2>1, <2>2, EachCalls
  <2>4. /\ q \in Seq(CallRec) /\ Len(q) = Len(hs)
        /\ \A i \in 1..Len(hs) : q[i].do = "fetch" /\ q[i].ct = hs[i]
    BY <2>1, <2>2, EachCalls
  <2> QED BY <2>1, <2>3, <2>4
<1>3. ASSUME NEW k \in 1..m
      PROVE  /\ seqs[k] \in Seq(CallRec) /\ Len(seqs[k]) = 2
             /\ seqs[k][1].do = "copy" /\ seqs[k][1].ct = rs[k] /\ seqs[k][1].of = a
             /\ seqs[k][2].do = "fetch" /\ seqs[k][2].ct = rs[k]
  <2>1. rs[k] \in Handle /\ seqs[k] = <<CopyOf(a, rs[k]), Call("fetch", rs[k])>>
    BY <1>1 DEF Missing
  <2> DEFINE c == CopyOf(a, rs[k])
             d == Call("fetch", rs[k])
  <2>2. /\ c \in CallRec /\ c.do = "copy" /\ c.ct = rs[k] /\ c.of = a
        /\ d \in CallRec /\ d.do = "fetch" /\ d.ct = rs[k]
    BY <2>1 DEF CopyOf, Call, CallRec
  <2> HIDE DEF c, d
  <2>3. <<c, d>> \in Seq(CallRec) /\ Len(<<c, d>>) = 2 /\ <<c, d>>[1] = c /\ <<c, d>>[2] = d
    BY <2>2
  <2> QED BY <2>1, <2>2, <2>3 DEF c, d
<1>4. seqs \in [1..m -> Seq(CallRec)]
  BY <1>1, <1>3
<1>5. t = (p \o q) \o f
  BY DEF Hoisted
<1> HIDE DEF t, p, q, seqs
<1>6. /\ f \in Seq(CallRec) /\ Len(f) = m + m
      /\ \A k \in 1..m : f[k + k - 1] = seqs[k][1] /\ f[k + k] = seqs[k][2]
  <2>1. \A k \in 1..m : Len(seqs[k]) = 2
    BY <1>3
  <2>2. /\ FlattenSeq(seqs) \in Seq(CallRec) /\ Len(FlattenSeq(seqs)) = m + m
        /\ \A k \in 1..m : /\ FlattenSeq(seqs)[k + k - 1] = seqs[k][1]
                           /\ FlattenSeq(seqs)[k + k] = seqs[k][2]
    <3>1. m \in 1..2
      BY <1>1
    <3>2. \A S : \A s \in [1..m -> Seq(S)] : (\A k \in 1..m : Len(s[k]) = 2) =>
            /\ FlattenSeq(s) \in Seq(S) /\ Len(FlattenSeq(s)) = m + m
            /\ \A k \in 1..m : /\ FlattenSeq(s)[k + k - 1] = s[k][1]
                               /\ FlattenSeq(s)[k + k] = s[k][2]
      BY <3>1, FlattenPairs
    <3> QED BY <1>4, <2>1, <3>2
  <2> QED BY <2>2
<1> HIDE DEF f
<1> DEFINE v == p \o q
<1>7. v \in Seq(CallRec) /\ Len(v) = 2 /\ v[1] = p[1] /\ v[2] = q[1]
  <2>1. /\ v \in Seq(CallRec) /\ Len(v) = Len(p) + Len(q)
        /\ \A i \in 1..(Len(p) + Len(q)) : v[i] = IF i <= Len(p) THEN p[i] ELSE q[i - Len(p)]
    BY <1>2, ConcatProperties
  <2> HIDE DEF v
  <2> QED BY <1>2, <2>1
<1> HIDE DEF v
<1>8. /\ t \in Seq(CallRec) /\ Len(t) = 2 + (m + m)
      /\ t[1] = p[1] /\ t[2] = q[1] /\ \A i \in 1..(m + m) : t[i + 2] = f[i]
  <2>1. t = v \o f
    BY <1>5 DEF v
  <2>2. /\ v \o f \in Seq(CallRec) /\ Len(v \o f) = 2 + Len(f)
        /\ (v \o f)[1] = v[1] /\ (v \o f)[2] = v[2]
        /\ \A i \in 1..Len(f) : (v \o f)[i + 2] = f[i]
    BY <1>6, <1>7, PairAfterPair
  <2> QED BY <1>6, <1>7, <2>1, <2>2
<1>9. ASSUME NEW k \in 1..m
      PROVE  t[k + k + 1] = seqs[k][1] /\ t[k + k + 2] = seqs[k][2]
  <2>1. k + k - 1 \in 1..(m + m) /\ k + k \in 1..(m + m) /\ (k + k - 1) + 2 = k + k + 1
    BY <1>1
  <2>2. t[(k + k - 1) + 2] = f[k + k - 1] /\ t[k + k + 2] = f[k + k]
    BY <1>8, <2>1
  <2> QED BY <1>6, <2>1, <2>2
<1>10. /\ t[1].do = "load" /\ t[1].ct = a /\ t[2].do = "fetch" /\ t[2].ct = a
       /\ \A k \in 1..m : /\ t[k + k + 1].do = "copy" /\ t[k + k + 1].ct = rs[k]
                          /\ t[k + k + 1].of = a
                          /\ t[k + k + 2].do = "fetch" /\ t[k + k + 2].ct = rs[k]
  BY <1>2, <1>3, <1>8, <1>9
<1>11. t \in Seq(CallRec) /\ Len(t) = 2 + (m + m)
  BY <1>8
<1> HIDE DEF m, t
<1>12. /\ m \in 1..2 /\ rs \in [1..m -> Missing] /\ \A k, l \in 1..m : rs[k] = rs[l] => k = l
  BY <1>1
<1> QED BY <1>10, <1>11, <1>12, Zenon DEF m, t

LEMMA HoistedScripted ==
    ASSUME objects \subseteq Handle, NEW a \in objects, NEW rs \in ResultLists, NEW L
    PROVE  Scripted(Hoisted(a, rs), L, objects)
<1> DEFINE m == Len(rs)
           o == Hoisted(a, rs)
           t == o.todo
<1>1. /\ m \in 1..2 /\ rs \in [1..m -> Missing]
      /\ \A k, l \in 1..m : rs[k] = rs[l] => k = l
      /\ t \in Seq(CallRec) /\ Len(t) = 2 + (m + m)
      /\ t[1].do = "load" /\ t[1].ct = a /\ t[2].do = "fetch" /\ t[2].ct = a
      /\ \A k \in 1..m : /\ t[k + k + 1].do = "copy" /\ t[k + k + 1].ct = rs[k]
                         /\ t[k + k + 1].of = a
                         /\ t[k + k + 2].do = "fetch" /\ t[k + k + 2].ct = rs[k]
  BY HoistedCalls
<1>2. /\ o = [todo |-> t, writes |-> Elems(rs), makes |-> Elems(rs), held |-> {}]
      /\ Elems(rs) = {rs[k] : k \in 1..m}
  BY <1>1 DEF Hoisted, Elems
<1> HIDE DEF m, o, t
<1>3. ASSUME NEW i \in 2..(2 + (m + m) + 1) PROVE Ready(t, L, i, a)
  <2>1. 1 \in 1..(i - 1)
    BY <1>1
  <2> QED BY <1>1, <2>1 DEF Ready
<1>4. ASSUME NEW k \in 1..m, NEW i \in (k + k + 2)..(2 + (m + m) + 1) PROVE Ready(t, L, i, rs[k])
  <2>1. k + k + 1 \in 1..(i - 1)
    BY <1>1
  <2> QED BY <1>1, <2>1 DEF Ready
<1>5. ASSUME NEW i \in 1..Len(t)
      PROVE  /\ t[i].do = "load" =>
                   t[i].ct \in objects /\ {} = {} /\ \A j \in 1..i : t[j].do = "load"
             /\ t[i].do = "copy" =>
                   /\ Ready(t, L, i, t[i].of) /\ t[i].ct \in Handle \ objects
                   /\ \E k \in 1..m : i = k + k + 1
             /\ t[i].do = "fetch" => Ready(t, L, i, t[i].ct)
  <2>1. i = 1 \/ i = 2 \/ \E k \in 1..m : i = k + k + 1 \/ i = k + k + 2
    BY <1>1
  <2>2. CASE i = 1
    <3>1. \A j \in 1..i : j = 1
      BY <2>2
    <3> QED BY <1>1, <2>2, <3>1
  <2>3. CASE i = 2
    <3>1. Ready(t, L, i, a)
      BY <1>1, <1>3, <2>3
    <3> QED BY <1>1, <2>3, <3>1
  <2>4. ASSUME NEW k \in 1..m, i = k + k + 1
        PROVE  t[i].do = "copy" /\ Ready(t, L, i, t[i].of) /\ t[i].ct \in Handle \ objects
    <3>1. Ready(t, L, i, a)
      BY <1>1, <1>3, <2>4
    <3>2. rs[k] \in Handle \ objects
      BY <1>1 DEF Missing
    <3> QED BY <1>1, <2>4, <3>1, <3>2
  <2>5. ASSUME NEW k \in 1..m, i = k + k + 2
        PROVE  t[i].do = "fetch" /\ Ready(t, L, i, t[i].ct)
    <3>1. Ready(t, L, i, rs[k])
      BY <1>1, <1>4, <2>5
    <3> QED BY <1>1, <2>5, <3>1
  <2> QED BY <2>1, <2>2, <2>3, <2>4, <2>5
<1>6. ASSUME NEW i \in 1..Len(t), NEW j \in 1..Len(t), t[i].do = "copy", t[j].do = "copy",
             t[j].ct = t[i].ct
      PROVE  j = i
  <2>1. PICK k \in 1..m : i = k + k + 1
    BY <1>5, <1>6
  <2>2. PICK l \in 1..m : j = l + l + 1
    BY <1>5, <1>6
  <2>3. rs[l] = rs[k]
    BY <1>1, <1>6, <2>1, <2>2
  <2> QED BY <1>1, <2>1, <2>2, <2>3
<1>7. Follows(t, L, objects, {})
  BY <1>5, <1>6 DEF Follows
<1>8. Elems(rs) \in SUBSET Handle /\ \A h \in Elems(rs) : Ready(t, L, Len(t) + 1, h)
  <2>1. \A k \in 1..m : rs[k] \in Handle
    BY <1>1 DEF Missing
  <2>2. \A k \in 1..m : Len(t) + 1 \in (k + k + 2)..(2 + (m + m) + 1)
    BY <1>1
  <2> QED BY <1>2, <1>4, <2>1, <2>2
<1>9. o \in OpRec /\ o.todo = t /\ o.writes = Elems(rs) /\ o.held = {}
  BY <1>1, <1>2, <1>8 DEF OpRec
<1>10. Scripted(o, L, objects)
  BY <1>7, <1>8, <1>9 DEF Scripted
<1> QED BY <1>10 DEF o
-----------------------------------------------------------------------------
(* The inductive invariant                                                 *)

\* The handles that share a payload: of every two, one has yet to detach itself.
Payloads ==
    /\ objects \subseteq Handle /\ copied \subseteq objects /\ lazy \subseteq copied
    /\ sharers \in [Handle -> SUBSET objects]
    /\ \A h \in Handle : IF h \in objects THEN h \in sharers[h] ELSE sharers[h] = {}
    /\ \A h \in Handle : \A g \in sharers[h] :
          sharers[g] = sharers[h] /\ (g # h => g \in lazy \/ h \in lazy)

Content == Val \cup {NoVal}

Contents ==
    /\ loaded \subseteq objects
    /\ value \in [Handle -> Content] /\ host \in [Handle -> Content]
    /\ device \in [Handle -> Content]
    /\ OriginalsKept

IInv ==
    /\ Payloads /\ Contents
    /\ Fits(cache, loaded)
    /\ budget \in Nat
    /\ Scripted(op, loaded, objects)
    /\ HeldResident

\* No pinned ciphertext is parked.
PinnedStay == cache.pinned \cap cache'.pinned \cap cache'.offloaded \subseteq cache.offloaded

LEMMA InitIInv == ASSUME CiphertextAssumption, Init PROVE IInv
<1>1. Payloads /\ Contents
  BY DEF Init, Payloads, Contents, Content, OriginalsKept
<1>2. Fits(cache, {})
  <2> DEFINE none == [h \in Handle |-> 0]
  <2>1. none \in [Handle -> Nat]
    OBVIOUS
  <2>2. /\ cache.lru = <<>> /\ cache.resident = {} /\ cache.bytes = none
        /\ cache.total = 0 /\ cache.pinned = {} /\ cache.offloaded = {}
        /\ cache \in CacheRec
    BY DEF Init, CacheRec, Shape
  <2> HIDE DEF none
  <2>3. Total(none, {}) = 0
    BY <2>1, TotalWithout DEF CiphertextAssumption
  <2>4. Elems(<<>>) = {} /\ Distinct(<<>>)
    BY DEF Elems, Distinct
  <2> QED BY <2>2, <2>3, <2>4 DEF Fits, Exact
<1>3. Scripted(op, loaded, objects)
  BY IdleScripted DEF Init
<1> QED BY <1>1, <1>2, <1>3 DEF Init, IInv, CiphertextAssumption, HeldResident, NoOp

\* Between operations, the invariant is about the rest.
LEMMA IdleIInv ==
    ASSUME IInv, Idle, op' = op, Payloads', Contents', Fits(cache', loaded'), budget' \in Nat
    PROVE  IInv'
<1>1. Scripted(op', loaded', objects') /\ op'.held = {}
  BY IdleScripted DEF Idle, NoOp
<1> QED BY <1>1 DEF IInv, HeldResident
-----------------------------------------------------------------------------
(* Handles and payloads                                                    *)

\* r becomes a copy of s.
LEMMA CopyKeeps ==
    ASSUME CiphertextAssumption, IInv, NEW s \in objects, NEW r \in Handle \ objects, Copy(s, r)
    PROVE  /\ Payloads' /\ Contents' /\ Fits(cache', loaded') /\ PinnedStay
           /\ cache'.offloaded \subseteq cache.offloaded
           /\ loaded \subseteq loaded' /\ (s \in loaded => r \in loaded')
<1>1. Payloads /\ Contents /\ Fits(cache, loaded) /\ s \in Handle
  BY DEF IInv, Payloads
<1>2. Payloads'
  <2>1. /\ objects' = objects \cup {r} /\ copied' = copied \cup {r} /\ lazy' = lazy \cup {r}
        /\ sharers' = [g \in Handle |-> IF g \in sharers[s] \cup {r} THEN sharers[s] \cup {r}
                                        ELSE sharers[g]]
    BY DEF Copy
  <2>2. objects' \subseteq Handle /\ copied' \subseteq objects' /\ lazy' \subseteq copied'
    BY <1>1, <2>1 DEF Payloads
  <2>3. sharers' \in [Handle -> SUBSET objects']
    BY <1>1, <2>1 DEF Payloads
  <2>4. ASSUME NEW h \in Handle
        PROVE  IF h \in objects' THEN h \in sharers'[h] ELSE sharers'[h] = {}
    BY <1>1, <2>1 DEF Payloads
  <2>5. ASSUME NEW h \in Handle, NEW g \in sharers'[h]
        PROVE  sharers'[g] = sharers'[h] /\ (g # h => g \in lazy' \/ h \in lazy')
    <3>1. CASE h \in sharers[s] \cup {r}
      <4>1. g \in sharers[s] \cup {r} /\ g \in Handle
        BY <1>1, <2>1, <3>1 DEF Payloads
      <4>2. sharers'[g] = sharers[s] \cup {r} /\ sharers'[h] = sharers[s] \cup {r}
        BY <2>1, <3>1, <4>1
      <4>3. CASE g = r \/ h = r
        BY <2>1, <4>2, <4>3
      <4>4. CASE g \in sharers[s] /\ h \in sharers[s]
        <5>1. sharers[h] = sharers[s]
          BY <1>1, <4>4 DEF Payloads
        <5>2. g # h => g \in lazy \/ h \in lazy
          BY <1>1, <4>4, <5>1 DEF Payloads
        <5> QED BY <2>1, <4>2, <5>2
      <4> QED BY <3>1, <4>1, <4>3, <4>4
    <3>2. CASE h \notin sharers[s] \cup {r}
      <4>1. g \in sharers[h] /\ sharers'[h] = sharers[h]
        BY <2>1, <2>5, <3>2
      <4>2. g \in objects /\ g \in Handle /\ h \in sharers[h]
        BY <1>1, <4>1 DEF Payloads
      <4>3. sharers[g] = sharers[h] /\ (g # h => g \in lazy \/ h \in lazy)
        BY <1>1, <4>1 DEF Payloads
      <4>4. g \notin sharers[s]
        <5> SUFFICES ASSUME g \in sharers[s] PROVE FALSE
          OBVIOUS
        <5>1. sharers[g] = sharers[s]
          BY <1>1 DEF Payloads
        <5> QED BY <3>2, <4>2, <4>3, <5>1
      <4>5. sharers'[g] = sharers[g]
        BY <2>1, <4>2, <4>4
      <4> QED BY <2>1, <4>1, <4>3, <4>5
    <3> QED BY <3>1, <3>2
  <2> QED BY <2>2, <2>3, <2>4, <2>5 DEF Payloads
<1>3. CASE s \in loaded
  <2> DEFINE c == GetDeviceCiphertext(cache, s)
             sh == IF c.shape[s] = "extended" THEN "extended" ELSE "plain"
  <2>1. /\ cache' = RegisterDeviceCiphertext(c, r, sh) /\ loaded' = loaded \cup {r}
        /\ device' = [device EXCEPT ![r] = device[s]]
    BY <1>3 DEF Copy
  <2>2. Fits(c, loaded) /\ c.pinned = cache.pinned /\ c.offloaded = cache.offloaded \ {s}
    BY <1>1, <1>3, GetFits
  <2>3. sh \in Shape /\ r \notin loaded
    BY <1>1 DEF Shape, Contents
  <2> HIDE DEF c, sh
  <2>4. /\ Fits(cache', loaded \cup {r}) /\ cache'.pinned = c.pinned
        /\ cache'.offloaded = c.offloaded
    BY <2>1, <2>2, <2>3, RegisterFits
  <2>5. Contents'
    BY <1>1, <1>2, <2>1 DEF Copy, Contents, Content, Payloads, OriginalsKept, Held
  <2> QED BY <1>2, <2>1, <2>2, <2>4, <2>5 DEF PinnedStay
<1>4. CASE s \notin loaded
  <2>1. UNCHANGED <<cache, loaded, device>>
    BY <1>4 DEF Copy
  <2>2. Contents'
    BY <1>1, <1>2, <2>1 DEF Copy, Contents, Content, Payloads, OriginalsKept, Held
  <2> QED BY <1>1, <1>2, <1>4, <2>1, <2>2 DEF PinnedStay
<1> QED BY <1>3, <1>4

\* The handles S are destroyed.
LEMMA DestroyedKeeps ==
    ASSUME CiphertextAssumption, IInv, NEW S, Destroyed(S)
    PROVE  Payloads' /\ Contents' /\ Fits(cache', loaded') /\ PinnedStay
<1>1. Payloads /\ Contents /\ Fits(cache, loaded)
  BY DEF IInv
<1>2. /\ objects' = objects \ S /\ copied' = copied \ S /\ lazy' = lazy \ S
      /\ loaded' = loaded \ S
      /\ value' = [h \in Handle |-> IF h \in S THEN NoVal ELSE value[h]]
      /\ host' = [h \in Handle |-> IF h \in S THEN NoVal ELSE host[h]]
      /\ device' = [h \in Handle |-> IF h \in S THEN NoVal ELSE device[h]]
      /\ sharers' = [h \in Handle |-> IF h \in S THEN {} ELSE sharers[h] \ S]
      /\ cache' = FoldLeft(UntrackCiphertext, cache, SetToSeq(S \cap loaded))
  BY DEF Destroyed
<1>3. Payloads'
  BY <1>1, <1>2 DEF Payloads
<1>4. Contents'
  BY <1>1, <1>2 DEF Contents, Content, Payloads, OriginalsKept, Held
<1>5. Fits(cache', loaded \ S) /\ cache'.offloaded \subseteq cache.offloaded
  BY <1>1, <1>2, DestroyFits
<1> QED BY <1>2, <1>3, <1>4, <1>5 DEF PinnedStay

\* h gets a payload of its own.
LEMMA DetachKeeps ==
    ASSUME Payloads, NEW h \in objects, objects' = objects, copied' = copied,
           lazy' = lazy \ {h},
           sharers' = [g \in Handle |-> IF g = h THEN {h} ELSE sharers[g] \ {h}]
    PROVE  Payloads'
<1>1. h \in Handle /\ sharers' \in [Handle -> SUBSET objects']
  BY DEF Payloads
<1>2. ASSUME NEW k \in Handle
      PROVE  IF k \in objects' THEN k \in sharers'[k] ELSE sharers'[k] = {}
  BY DEF Payloads
<1>3. ASSUME NEW k \in Handle, NEW g \in sharers'[k]
      PROVE  sharers'[g] = sharers'[k] /\ (g # k => g \in lazy' \/ k \in lazy')
  <2>1. CASE k = h
    BY <1>1, <1>3, <2>1
  <2>2. CASE k # h
    <3>1. g \in sharers[k] /\ g # h /\ g \in Handle
      BY <1>3, <2>2 DEF Payloads
    <3>2. sharers[g] = sharers[k] /\ (g # k => g \in lazy \/ k \in lazy)
      BY <3>1 DEF Payloads
    <3> QED BY <2>2, <3>1, <3>2
  <2> QED BY <2>1, <2>2
<1> QED BY <1>1, <1>2, <1>3 DEF Payloads

\* A write to the payload of h reaches no original but h.
LEMMA WriteHostKeeps ==
    ASSUME Payloads, Contents, NEW h \in objects, NEW v \in Content, WriteHost(h, v),
           objects' = objects, copied' = copied
    PROVE  /\ Payloads'
           /\ host' \in [Handle -> Content] /\ host'[h] = v
           /\ \A g \in objects \ copied : g # h => host'[g] = host[g]
<1>1. h \in Handle /\ h \in sharers[h]
  BY DEF Payloads
<1>2. CASE h \in lazy
  <2>1. Detached(h) = [g \in Handle |-> IF g = h THEN {h} ELSE sharers[g] \ {h}]
    BY <1>2 DEF Detached
  <2>2. Payloads'
    BY <2>1, DetachKeeps DEF WriteHost
  <2>3. host' = [g \in Handle |-> IF g \in {h} THEN v ELSE host[g]]
    BY <1>1, <2>1 DEF WriteHost
  <2> QED BY <1>1, <2>2, <2>3 DEF Contents, Payloads
<1>3. CASE h \notin lazy
  <2>1. Detached(h) = sharers /\ lazy' = lazy
    BY <1>3 DEF Detached, WriteHost
  <2>2. Payloads'
    BY <2>1 DEF WriteHost, Payloads
  <2>3. host' = [g \in Handle |-> IF g \in sharers[h] THEN v ELSE host[g]]
    BY <2>1 DEF WriteHost
  <2>4. \A g \in sharers[h] : g # h => g \in copied
    BY <1>1, <1>3 DEF Payloads
  <2> QED BY <1>1, <2>2, <2>3, <2>4 DEF Contents, Payloads
<1> QED BY <1>2, <1>3

\* The host payload of h takes over what the device has.
LEMMA DownloadKeeps ==
    ASSUME Payloads, Contents, NEW h \in Handle, EnsureUpToDateCPUCopy(h) \/ ReplaceHost(h),
           objects' = objects
    PROVE  /\ Payloads' /\ h \in loaded /\ value' = value /\ copied' = copied
           /\ host' \in [Handle -> Content] /\ host'[h] = device[h]
           /\ \A g \in objects \ copied : g # h => host'[g] = host[g]
<1>1. CASE EnsureUpToDateCPUCopy(h)
  <2>1. h \in objects /\ device[h] \in Content
    BY <1>1 DEF EnsureUpToDateCPUCopy, Contents
  <2>2. WriteHost(h, device[h]) /\ value' = value /\ copied' = copied /\ h \in loaded
    BY <1>1 DEF EnsureUpToDateCPUCopy
  <2>3. /\ Payloads'
        /\ host' \in [Handle -> Content] /\ host'[h] = device[h]
        /\ \A g \in objects \ copied : g # h => host'[g] = host[g]
    BY <2>1, <2>2, WriteHostKeeps
  <2> QED BY <2>2, <2>3
<1>2. CASE ReplaceHost(h)
  <2>1. /\ h \in objects /\ h \in loaded /\ value' = value /\ copied' = copied
        /\ lazy' = lazy \ {h} /\ host' = [host EXCEPT ![h] = device[h]]
        /\ sharers' = [g \in Handle |-> IF g = h THEN {h} ELSE sharers[g] \ {h}]
    BY <1>2 DEF ReplaceHost, Contents
  <2>2. Payloads'
    BY <2>1, DetachKeeps
  <2>3. host \in [Handle -> Content] /\ device[h] \in Content /\ objects \subseteq Handle
    BY DEF Contents, Payloads
  <2>4. /\ host' \in [Handle -> Content] /\ host'[h] = device[h]
        /\ \A g \in objects \ copied : g # h => host'[g] = host[g]
    BY <2>1, <2>3
  <2> QED BY <2>1, <2>2, <2>4
<1> QED BY <1>1, <1>2

\* LoadCiphertext
LEMMA LoadKeeps ==
    ASSUME CiphertextAssumption, IInv, NEW h \in objects, LoadCiphertext(h)
    PROVE  /\ Payloads' /\ Contents' /\ Fits(cache', loaded') /\ PinnedStay
           /\ loaded' = loaded \cup {h}
           /\ \/ budget = SizeMax \/ cache'.total <= budget
              \/ \A g \in cache'.resident \ {h} : g \in cache'.pinned \/ cache'.shape[g] = "extended"
<1>1. Payloads /\ Contents /\ Fits(cache, loaded) /\ h \in Handle
  BY DEF IInv, Payloads
<1>2. Payloads'
  BY <1>1 DEF LoadCiphertext, hostVars, Payloads
<1>3. ASSUME NEW c, Fits(c, loaded'), c.pinned = cache.pinned, c.offloaded \subseteq cache.offloaded,
             cache' = EnforceCiphertextBudget(c, budget, {h})
      PROVE  /\ Fits(cache', loaded') /\ PinnedStay
             /\ \/ budget = SizeMax \/ cache'.total <= budget
                \/ \A g \in cache'.resident \ {h} :
                      g \in cache'.pinned \/ cache'.shape[g] = "extended"
  <2>1. /\ Fits(cache', loaded') /\ cache'.pinned = c.pinned
        /\ cache'.offloaded \cap c.pinned \subseteq c.offloaded
        /\ \/ budget = SizeMax \/ cache'.total <= budget
           \/ \A g \in cache'.resident \ {h} : g \in cache'.pinned \/ cache'.shape[g] = "extended"
    BY <1>3, EnforceFits
  <2> QED BY <1>3, <2>1 DEF PinnedStay
<1>4. CASE h \in loaded
  <2> DEFINE c == ReloadCiphertext(cache, h)
  <2>1. /\ cache' = EnforceCiphertextBudget(c, budget, {h})
        /\ UNCHANGED <<loaded, device, objects, hostVars>>
    BY <1>4 DEF LoadCiphertext
  <2>2. /\ Fits(c, loaded) /\ c.pinned = cache.pinned
        /\ c.offloaded = cache.offloaded \ {h}
    BY <1>1, <1>4, ReloadFits
  <2> HIDE DEF c
  <2>3. Contents'
    BY <1>1, <2>1 DEF hostVars, Contents, OriginalsKept, Held
  <2>4. loaded' = loaded \cup {h} /\ loaded' = loaded
    BY <1>4, <2>1
  <2> QED BY <1>2, <1>3, <2>1, <2>2, <2>3, <2>4
<1>5. CASE h \notin loaded
  <2> DEFINE c == RegisterDeviceCiphertext(cache, h, "plain")
             d == GetDeviceCiphertext(c, h)
  <2>1. /\ cache' = EnforceCiphertextBudget(d, budget, {h})
        /\ loaded' = loaded \cup {h} /\ device' = [device EXCEPT ![h] = host[h]]
        /\ UNCHANGED <<objects, hostVars>>
    BY <1>5 DEF LoadCiphertext
  <2>2. /\ Fits(c, loaded \cup {h}) /\ c.pinned = cache.pinned
        /\ c.offloaded = cache.offloaded
    BY <1>1, <1>5, RegisterFits DEF Shape
  <2> HIDE DEF c
  <2>3. Fits(d, loaded \cup {h}) /\ d.pinned = c.pinned /\ d.offloaded = c.offloaded \ {h}
    BY <2>2, GetFits
  <2> HIDE DEF d
  <2>4. Contents'
    <3>1. loaded' \subseteq objects' /\ value' = value /\ host' = host /\ copied' = copied
          /\ objects' = objects /\ device' \in [Handle -> Content]
      BY <1>1, <2>1 DEF hostVars, Contents
    <3>2. ASSUME NEW g \in objects \ copied PROVE Held(g)' = value[g]
      <4>1. Held(g) = value[g] /\ device[g] \in Content /\ g \in Handle
        BY <1>1 DEF Contents, OriginalsKept, Payloads
      <4>2. device'[g] = IF g = h THEN host[h] ELSE device[g]
        BY <1>1, <2>1, <4>1 DEF Contents
      <4> QED BY <1>5, <2>1, <3>1, <4>1, <4>2 DEF Held
    <3> QED BY <1>1, <3>1, <3>2 DEF Contents, OriginalsKept
  <2> QED BY <1>2, <1>3, <2>1, <2>2, <2>3, <2>4
<1> QED BY <1>4, <1>5
-----------------------------------------------------------------------------
(* The calls between operations                                            *)

\* What the invariant says of the cache and the contents
LEMMA IdleFacts ==
    ASSUME IInv
    PROVE  /\ Payloads /\ Contents /\ Fits(cache, loaded) /\ budget \in Nat
           /\ objects \subseteq Handle /\ loaded \subseteq objects
           /\ value \in [Handle -> Content] /\ host \in [Handle -> Content]
           /\ device \in [Handle -> Content]
           /\ \A h \in objects \ copied : Held(h) = value[h]
BY DEF IInv, Payloads, Contents, OriginalsKept

\* A call that changes the cache alone
LEMMA CacheKeeps ==
    ASSUME CiphertextAssumption, IInv, Idle, Fits(cache', loaded), budget' \in Nat,
           UNCHANGED <<objects, hostVars, loaded, device, op>>
    PROVE  IInv'
<1>1. Payloads' /\ Contents' /\ Fits(cache', loaded')
  BY IdleFacts DEF hostVars, Payloads, Contents, OriginalsKept, Held
<1> QED BY <1>1, IdleIInv

LEMMA EncryptKeeps ==
    ASSUME CiphertextAssumption, IInv, NEW h \in Handle, NEW v \in Val, Encrypt(h, v)
    PROVE  IInv' /\ PinnedStay
<1>1. /\ Idle /\ h \notin objects /\ objects' = objects \cup {h}
      /\ value' = [value EXCEPT ![h] = v] /\ host' = [host EXCEPT ![h] = v]
      /\ sharers' = [sharers EXCEPT ![h] = {h}]
      /\ UNCHANGED <<copied, lazy, loaded, device, cache, budget, op>>
  BY DEF Encrypt
<1>2. Payloads /\ Contents /\ Fits(cache, loaded) /\ budget \in Nat
  BY DEF IInv
<1>3. Payloads'
  <2>1. /\ objects' \subseteq Handle /\ copied' \subseteq objects' /\ lazy' \subseteq copied'
        /\ sharers' \in [Handle -> SUBSET objects']
        /\ \A k \in Handle : IF k \in objects' THEN k \in sharers'[k] ELSE sharers'[k] = {}
    BY <1>1, <1>2 DEF Payloads
  <2>2. ASSUME NEW k \in Handle, NEW g \in sharers'[k]
        PROVE  sharers'[g] = sharers'[k] /\ (g # k => g \in lazy' \/ k \in lazy')
    <3>1. CASE k = h
      BY <1>1, <1>2, <2>2, <3>1 DEF Payloads
    <3>2. CASE k # h
      <4>1. g \in sharers[k] /\ g \in objects /\ g # h /\ g \in Handle
        BY <1>1, <1>2, <2>2, <3>2 DEF Payloads
      <4> QED BY <1>1, <1>2, <3>2, <4>1 DEF Payloads
    <3> QED BY <3>1, <3>2
  <2> QED BY <2>1, <2>2 DEF Payloads
<1>4. Contents'
  <2>1. loaded' \subseteq objects' /\ h \notin loaded
    BY <1>1, <1>2 DEF Contents
  <2>2. value' \in [Handle -> Content] /\ host' \in [Handle -> Content]
    BY <1>1, <1>2 DEF Contents, Content
  <2>3. ASSUME NEW g \in objects' \ copied' PROVE Held(g)' = value'[g]
    BY <1>1, <1>2, <2>1, <2>3 DEF Contents, OriginalsKept, Held, Payloads
  <2> QED BY <1>1, <1>2, <2>1, <2>2, <2>3 DEF Contents, OriginalsKept
<1>5. IInv'
  BY <1>1, <1>2, <1>3, <1>4, IdleIInv
<1> QED BY <1>1, <1>5 DEF PinnedStay

LEMMA CloneKeeps ==
    ASSUME CiphertextAssumption, IInv, NEW s \in Handle, NEW r \in Handle, Clone(s, r)
    PROVE  IInv' /\ PinnedStay
<1>1. /\ Idle /\ s \in objects /\ r \in Handle \ objects /\ Copy(s, r)
      /\ UNCHANGED <<budget, op>>
  BY DEF Clone
<1>2. Payloads' /\ Contents' /\ Fits(cache', loaded') /\ PinnedStay
  BY <1>1, CopyKeeps
<1>3. budget' \in Nat
  BY <1>1 DEF IInv
<1> QED BY <1>1, <1>2, <1>3, IdleIInv

LEMMA DestroyKeeps ==
    ASSUME CiphertextAssumption, IInv, NEW h \in Handle, Destroy(h)
    PROVE  IInv' /\ PinnedStay
<1>1. Idle /\ Destroyed({h}) /\ UNCHANGED <<budget, op>>
  BY DEF Destroy
<1>2. Payloads' /\ Contents' /\ Fits(cache', loaded') /\ PinnedStay
  BY <1>1, DestroyedKeeps
<1>3. budget' \in Nat
  BY <1>1 DEF IInv
<1> QED BY <1>1, <1>2, <1>3, IdleIInv

LEMMA DownloadCallKeeps ==
    ASSUME CiphertextAssumption, IInv, NEW h \in Handle, Download(h)
    PROVE  IInv' /\ PinnedStay
<1>1. /\ Idle /\ (EnsureUpToDateCPUCopy(h) \/ ReplaceHost(h))
      /\ cache' = GetDeviceCiphertext(cache, h)
      /\ UNCHANGED <<objects, loaded, device, budget, op>>
  BY DEF Download
<1>2. /\ Payloads /\ Contents /\ Fits(cache, loaded) /\ budget \in Nat /\ loaded \subseteq objects
      /\ device \in [Handle -> Content] /\ value \in [Handle -> Content]
      /\ \A g \in objects \ copied : Held(g) = value[g]
  BY IdleFacts
<1>3. /\ Payloads' /\ h \in loaded /\ value' = value /\ copied' = copied
      /\ host' \in [Handle -> Content]
      /\ \A g \in objects \ copied : g # h => host'[g] = host[g]
  BY <1>1, <1>2, DownloadKeeps
<1>4. ASSUME NEW g \in objects' \ copied' PROVE Held(g)' = value'[g]
  BY <1>1, <1>2, <1>3 DEF Held
<1>5. Contents'
  BY <1>1, <1>2, <1>3, <1>4 DEF Contents, OriginalsKept
<1>6. /\ Fits(cache', loaded') /\ cache'.pinned = cache.pinned
      /\ cache'.offloaded = cache.offloaded \ {h}
  BY <1>1, <1>2, <1>3, GetFits
<1>7. IInv'
  BY <1>1, <1>2, <1>3, <1>5, <1>6, IdleIInv
<1> QED BY <1>6, <1>7 DEF PinnedStay

LEMMA UnloadKeeps ==
    ASSUME CiphertextAssumption, IInv, NEW h \in Handle, UnloadCiphertext(h)
    PROVE  IInv' /\ PinnedStay
<1>1. /\ Idle /\ EnsureUpToDateCPUCopy(h)
      /\ cache' = UntrackCiphertext(cache, h) /\ loaded' = loaded \ {h}
      /\ device' = [device EXCEPT ![h] = NoVal]
      /\ UNCHANGED <<objects, budget, op>>
  BY DEF UnloadCiphertext
<1>2. /\ Payloads /\ Contents /\ Fits(cache, loaded) /\ budget \in Nat /\ loaded \subseteq objects
      /\ device \in [Handle -> Content] /\ value \in [Handle -> Content]
      /\ objects \subseteq Handle
      /\ \A g \in objects \ copied : Held(g) = value[g]
  BY IdleFacts
<1>3. /\ Payloads' /\ h \in loaded /\ value' = value /\ copied' = copied
      /\ host' \in [Handle -> Content] /\ host'[h] = device[h]
      /\ \A g \in objects \ copied : g # h => host'[g] = host[g]
  BY <1>1, <1>2, DownloadKeeps
<1>4. device' \in [Handle -> Content]
  BY <1>1, <1>2 DEF Content
<1>5. ASSUME NEW g \in objects' \ copied' PROVE Held(g)' = value'[g]
  <2>1. g # h => device'[g] = device[g]
    BY <1>1, <1>2, <1>5
  <2> QED BY <1>1, <1>2, <1>3, <1>5, <2>1 DEF Held
<1>6. Contents'
  BY <1>1, <1>2, <1>3, <1>4, <1>5 DEF Contents, OriginalsKept
<1>7. /\ Fits(cache', loaded') /\ cache'.pinned = cache.pinned \ {h}
      /\ cache'.offloaded = cache.offloaded \ {h}
  BY <1>1, <1>2, UntrackFits
<1>8. IInv'
  BY <1>1, <1>2, <1>3, <1>6, <1>7, IdleIInv
<1> QED BY <1>7, <1>8 DEF PinnedStay

LEMMA SetMetadataKeeps ==
    ASSUME CiphertextAssumption, IInv, NEW h \in Handle, NEW v \in Val, SetMetadata(h, v)
    PROVE  IInv' /\ PinnedStay
<1>1. /\ Idle /\ h \in objects /\ value' = [value EXCEPT ![h] = v]
      /\ UNCHANGED <<objects, copied, loaded, budget, op>>
  BY DEF SetMetadata
<1>2. /\ Payloads /\ Contents /\ Fits(cache, loaded) /\ budget \in Nat /\ loaded \subseteq objects
      /\ objects \subseteq Handle /\ value \in [Handle -> Content]
      /\ host \in [Handle -> Content] /\ device \in [Handle -> Content]
      /\ \A g \in objects \ copied : Held(g) = value[g]
  BY IdleFacts
<1>3. value' \in [Handle -> Content] /\ v \in Content
  BY <1>1, <1>2 DEF Content
<1>4. CASE h \in loaded
  <2>1. /\ device' = [device EXCEPT ![h] = v] /\ cache' = GetDeviceCiphertext(cache, h)
        /\ UNCHANGED <<host, sharers, lazy>>
    BY <1>4 DEF SetMetadata
  <2>2. Payloads'
    BY <1>1, <1>2, <2>1 DEF Payloads
  <2>3. ASSUME NEW g \in objects' \ copied' PROVE Held(g)' = value'[g]
    BY <1>1, <1>2, <1>4, <2>1, <2>3 DEF Held
  <2>4. Contents'
    BY <1>1, <1>2, <1>3, <2>1, <2>3 DEF Contents, OriginalsKept
  <2>5. /\ Fits(cache', loaded') /\ cache'.pinned = cache.pinned
        /\ cache'.offloaded = cache.offloaded \ {h}
    BY <1>1, <1>2, <1>4, <2>1, GetFits
  <2>6. IInv'
    BY <1>1, <1>2, <2>2, <2>4, <2>5, IdleIInv
  <2> QED BY <2>5, <2>6 DEF PinnedStay
<1>5. CASE h \notin loaded
  <2>1. WriteHost(h, v) /\ UNCHANGED <<device, cache>>
    BY <1>5 DEF SetMetadata
  <2>2. /\ Payloads' /\ host' \in [Handle -> Content] /\ host'[h] = v
        /\ \A g \in objects \ copied : g # h => host'[g] = host[g]
    BY <1>1, <1>2, <1>3, <2>1, WriteHostKeeps
  <2>3. ASSUME NEW g \in objects' \ copied' PROVE Held(g)' = value'[g]
    BY <1>1, <1>2, <1>5, <2>1, <2>2, <2>3 DEF Held
  <2>4. Contents'
    BY <1>1, <1>2, <1>3, <2>1, <2>2, <2>3 DEF Contents, OriginalsKept
  <2>5. IInv'
    BY <1>1, <1>2, <2>1, <2>2, <2>4, IdleIInv
  <2> QED BY <2>1, <2>5 DEF PinnedStay
<1> QED BY <1>4, <1>5

\* The one call that may park a pinned ciphertext
LEMMA OffloadKeeps ==
    ASSUME CiphertextAssumption, IInv, NEW h \in Handle, OffloadCiphertext(h)
    PROVE  IInv' /\ cache'.offloaded = cache.offloaded \cup {h}
<1>1. /\ Idle /\ h \in loaded
      /\ cache' = MarkCiphertextOffloaded(Offload(cache, h), h)
      /\ UNCHANGED <<objects, hostVars, loaded, device, budget, op>>
  BY DEF OffloadCiphertext
<1>2. Fits(cache', loaded) /\ cache'.offloaded = cache.offloaded \cup {h}
  <2>1. Fits(cache, loaded)
    BY IdleFacts
  <2> DEFINE d == MarkCiphertextOffloaded(Offload(cache, h), h)
  <2>2. /\ Fits(d, loaded) /\ d.pinned = cache.pinned /\ d.offloaded = cache.offloaded \cup {h}
        /\ d.resident = cache.resident \ {h}
        /\ d.shape = [cache.shape EXCEPT ![h] = "plain"]
    BY <1>1, <2>1, OffloadFits, Zenon
  <2> HIDE DEF d
  <2>3. cache' = d
    BY <1>1 DEF d
  <2> QED BY <2>2, <2>3
<1>3. IInv'
  BY <1>1, <1>2, IdleFacts, CacheKeeps
<1> QED BY <1>2, <1>3

LEMMA ReloadKeeps ==
    ASSUME CiphertextAssumption, IInv, NEW h \in Handle, Reload(h)
    PROVE  IInv' /\ PinnedStay
<1>1. /\ Idle /\ h \in loaded /\ cache' = ReloadCiphertext(cache, h)
      /\ UNCHANGED <<objects, hostVars, loaded, device, budget, op>>
  BY DEF Reload
<1>2. Fits(cache', loaded) /\ cache'.offloaded = cache.offloaded \ {h}
  BY <1>1, IdleFacts, ReloadFits
<1>3. IInv'
  BY <1>1, <1>2, IdleFacts, CacheKeeps
<1> QED BY <1>2, <1>3 DEF PinnedStay

LEMMA LoadCallKeeps ==
    ASSUME CiphertextAssumption, IInv, NEW h \in Handle, Load(h)
    PROVE  IInv' /\ PinnedStay
<1>1. Idle /\ h \in objects /\ LoadCiphertext(h) /\ UNCHANGED <<budget, op>>
  BY DEF Load
<1>2. Payloads' /\ Contents' /\ Fits(cache', loaded') /\ PinnedStay
  BY <1>1, LoadKeeps
<1>3. IInv'
  BY <1>1, <1>2, IdleFacts, IdleIInv
<1> QED BY <1>2, <1>3

LEMMA SetCacheKeeps ==
    ASSUME CiphertextAssumption, IInv, NEW b \in Budgets, SetCiphertextCache(b)
    PROVE  IInv' /\ PinnedStay
<1>1. /\ Idle /\ budget' = b /\ b \in Nat
      /\ cache' = EnforceCiphertextBudget(cache, b, {})
      /\ UNCHANGED <<objects, hostVars, loaded, device, op>>
  BY DEF SetCiphertextCache, CiphertextAssumption
<1>2. /\ Fits(cache', loaded) /\ cache'.offloaded \cap cache.pinned \subseteq cache.offloaded
  BY <1>1, IdleFacts, EnforceFits
<1>3. IInv'
  BY <1>1, <1>2, CacheKeeps
<1> QED BY <1>2, <1>3 DEF PinnedStay

LEMMA OffloadAllKeeps ==
    ASSUME CiphertextAssumption, IInv, OffloadCiphertexts
    PROVE  IInv' /\ PinnedStay
<1>1. Idle /\ UNCHANGED <<objects, hostVars, loaded, device, budget, op>>
  BY DEF OffloadCiphertexts
<1>2. cache' \in Parked(cache, loaded, {})
  BY IdleFacts, OffloadAllParks DEF OffloadCiphertexts
<1>3. Fits(cache', loaded) /\ cache'.offloaded \cap cache.pinned \subseteq cache.offloaded
  BY <1>2 DEF Parked
<1>4. IInv'
  BY <1>1, <1>3, IdleFacts, CacheKeeps
<1> QED BY <1>3, <1>4 DEF PinnedStay

\* Pins are not on the books of the list.
LEMMA RepinnedFits ==
    ASSUME NEW c, NEW L, Fits(c, L), NEW P \in SUBSET L
    PROVE  LET d == [c EXCEPT !.pinned = P]
           IN  Fits(d, L) /\ d.pinned = P /\ d.offloaded = c.offloaded
<1> DEFINE d == [c EXCEPT !.pinned = P]
<1>1. c \in CacheRec /\ Exact(c) /\ P \in SUBSET Handle
  BY DEF Fits, Exact
<1>2. /\ d \in CacheRec /\ d.lru = c.lru /\ d.resident = c.resident /\ d.bytes = c.bytes
      /\ d.total = c.total /\ d.pinned = P /\ d.offloaded = c.offloaded
  BY <1>1 DEF CacheRec
<1> HIDE DEF d
<1>3. Exact(d)
  BY <1>1, <1>2, OtherFieldsExact
<1>4. Fits(d, L)
  BY <1>2, <1>3 DEF Fits
<1> QED BY <1>2, <1>4 DEF d

LEMMA PinKeeps ==
    ASSUME CiphertextAssumption, IInv, NEW h \in Handle, Pin(h)
    PROVE  IInv' /\ PinnedStay
<1> DEFINE r == ReloadCiphertext(cache, h)
           c == EnforceCiphertextBudget(r, budget, {h})
           d == ReloadCiphertext(c, h)
<1>1. /\ Idle /\ h \in loaded /\ cache' = [d EXCEPT !.pinned = @ \cup {h}]
      /\ UNCHANGED <<objects, hostVars, loaded, device, budget, op>>
  BY DEF Pin
<1>2. Fits(cache, loaded) /\ budget \in Nat
  BY IdleFacts
<1>3. Fits(r, loaded) /\ r.pinned = cache.pinned /\ r.offloaded = cache.offloaded \ {h}
  BY <1>1, <1>2, ReloadFits
<1> HIDE DEF r
<1>4. Fits(c, loaded) /\ c.pinned = r.pinned /\ c.offloaded \cap r.pinned \subseteq r.offloaded
  BY <1>3, EnforceFits
<1> HIDE DEF c
<1>5. Fits(d, loaded) /\ d.pinned = c.pinned /\ d.offloaded = c.offloaded \ {h}
  BY <1>1, <1>4, ReloadFits
<1> HIDE DEF d
<1>6. Fits(cache', loaded) /\ cache'.offloaded = d.offloaded
  <2>1. d.pinned \cup {h} \in SUBSET loaded
    BY <1>1, <1>5 DEF Fits
  <2> QED BY <1>1, <1>5, <2>1, RepinnedFits
<1>7. IInv'
  BY <1>1, <1>2, <1>6, CacheKeeps
<1> QED BY <1>3, <1>4, <1>5, <1>6, <1>7 DEF PinnedStay

LEMMA UnpinKeeps ==
    ASSUME CiphertextAssumption, IInv, NEW h \in Handle, Unpin(h)
    PROVE  IInv' /\ PinnedStay
<1> DEFINE d == [cache EXCEPT !.pinned = @ \ {h}]
<1>1. /\ Idle /\ cache' = EnforceCiphertextBudget(d, budget, {})
      /\ UNCHANGED <<objects, hostVars, loaded, device, budget, op>>
  BY DEF Unpin
<1>2. Fits(cache, loaded) /\ budget \in Nat
  BY IdleFacts
<1>3. Fits(d, loaded) /\ d.pinned = cache.pinned \ {h} /\ d.offloaded = cache.offloaded
  <2>1. cache.pinned \ {h} \in SUBSET loaded
    BY <1>2 DEF Fits
  <2> QED BY <1>2, <2>1, RepinnedFits
<1> HIDE DEF d
<1>4. /\ Fits(cache', loaded) /\ cache'.pinned = d.pinned
      /\ cache'.offloaded \cap d.pinned \subseteq d.offloaded
  BY <1>1, <1>3, EnforceFits
<1>5. IInv'
  BY <1>1, <1>2, <1>4, CacheKeeps
<1> QED BY <1>3, <1>4, <1>5 DEF PinnedStay
-----------------------------------------------------------------------------
(* Operations                                                              *)

LEMMA StartKeeps ==
    ASSUME CiphertextAssumption, IInv, Start
    PROVE  IInv' /\ PinnedStay
<1>1. /\ UNCHANGED <<objects, hostVars, loaded, device, cache, budget>>
      /\ \/ \E ins \in Operands : op' = InPlace(ins)
         \/ \E ins \in Operands, r \in Missing : op' = Returning(ins, r)
         \/ \E a \in objects, rs \in ResultLists : op' = Hoisted(a, rs)
  BY DEF Start
<1>2. /\ Payloads /\ Contents /\ Fits(cache, loaded) /\ budget \in Nat
      /\ objects \subseteq Handle
  BY IdleFacts
<1>3. Scripted(op', loaded, objects) /\ op'.held = {}
  <2>1. ASSUME NEW ins \in Operands PROVE InPlace(ins).held = {}
    BY DEF InPlace
  <2>2. ASSUME NEW ins \in Operands, NEW r PROVE Returning(ins, r).held = {}
    BY DEF Returning
  <2>3. ASSUME NEW a, NEW rs PROVE Hoisted(a, rs).held = {}
    BY DEF Hoisted
  <2> QED BY <1>1, <1>2, <2>1, <2>2, <2>3, InPlaceScripted, ReturningScripted, HoistedScripted
<1>4. Payloads' /\ Contents' /\ Fits(cache', loaded') /\ budget' \in Nat
  BY <1>1, <1>2 DEF hostVars, Payloads, Contents, OriginalsKept, Held
<1>5. Scripted(op', loaded', objects')
  BY <1>1, <1>3
<1>6. HeldResident'
  BY <1>3 DEF HeldResident
<1> QED BY <1>1, <1>4, <1>5, <1>6 DEF IInv, PinnedStay

\* Each call of the script, and what it does to the script
LEMMA CallFacts ==
    ASSUME IInv, NEW do, NEW h, NEW s, OpCalls(do, h, s)
    PROVE  /\ Scripted(op, loaded, objects) /\ op.todo # <<>> /\ op \in OpRec
           /\ do = "load" => h \in objects /\ op.held = {}
           /\ do = "copy" => s \in loaded /\ h \in Handle \ objects
           /\ do = "fetch" => h \in loaded
<1> DEFINE c == Head(op.todo)
<1>1. c = [do |-> do, ct |-> h, of |-> s] /\ op.todo # <<>>
  BY DEF OpCalls
<1>2. Scripted(op, loaded, objects) /\ op \in OpRec
  BY DEF IInv, Scripted
<1> HIDE DEF c
<1>3. /\ c.do = "load" => c.ct \in objects /\ op.held = {}
      /\ c.do = "copy" => c.of \in loaded /\ c.ct \in Handle \ objects
      /\ c.do = "fetch" => c.ct \in loaded
  BY <1>1, <1>2, FirstCall DEF c
<1> QED BY <1>1, <1>2, <1>3

LEMMA OpLoadsKeeps ==
    ASSUME CiphertextAssumption, IInv, NEW h \in Handle, OpLoads(h)
    PROVE  IInv' /\ PinnedStay
<1> DEFINE c == Head(op.todo)
           H == op.held
<1>1. /\ OpCalls("load", h, h) /\ LoadCiphertext(h) /\ budget' = budget
      /\ op' = [op EXCEPT !.todo = Tail(@)]
  BY DEF OpLoads
<1>2. /\ Scripted(op, loaded, objects) /\ op.todo # <<>> /\ op \in OpRec
      /\ h \in objects /\ op.held = {}
  BY <1>1, CallFacts
<1>3. /\ Payloads' /\ Contents' /\ Fits(cache', loaded') /\ PinnedStay
      /\ loaded' = loaded \cup {h}
  BY <1>2, <1>1, LoadKeeps
<1>4. c.do = "load" /\ c.ct = h
  BY <1>1 DEF OpCalls
<1>5. op' = [op EXCEPT !.todo = Tail(@), !.held = H] /\ op'.held = H /\ H = {}
  BY <1>1, <1>2 DEF OpRec
<1>6. objects' = objects
  BY <1>1 DEF LoadCiphertext
<1> HIDE DEF c, H
<1>7. Scripted(op', loaded', objects')
  <2>1. /\ loaded \subseteq loaded' /\ c.ct \in loaded' /\ H \in SUBSET Handle
        /\ objects \subseteq objects' /\ objects' \subseteq objects \cup {}
    BY <1>3, <1>4, <1>5, <1>6
  <2>2. c = Head(op.todo) /\ c.do # "copy"
    BY <1>4 DEF c
  <2> QED BY <1>2, <1>5, <2>1, <2>2, CallScripted
<1> QED BY <1>1, <1>3, <1>5, <1>7, IdleFacts DEF IInv, HeldResident

LEMMA OpCopiesKeeps ==
    ASSUME CiphertextAssumption, IInv, NEW s \in Handle, NEW r \in Handle, OpCopies(s, r)
    PROVE  IInv' /\ PinnedStay
<1> DEFINE c == Head(op.todo)
<1>1. /\ OpCalls("copy", r, s) /\ Copy(s, r) /\ budget' = budget
      /\ op' = [op EXCEPT !.todo = Tail(@)]
  BY DEF OpCopies
<1>2. /\ Scripted(op, loaded, objects) /\ op.todo # <<>> /\ op \in OpRec
      /\ s \in loaded /\ r \in Handle \ objects /\ s \in objects
  BY <1>1, CallFacts, IdleFacts
<1>3. /\ Payloads' /\ Contents' /\ Fits(cache', loaded') /\ PinnedStay
      /\ cache'.offloaded \subseteq cache.offloaded
      /\ loaded \subseteq loaded' /\ r \in loaded'
  BY <1>1, <1>2, CopyKeeps
<1>4. c.do = "copy" /\ c.ct = r
  BY <1>1 DEF OpCalls
<1>5. /\ op' = [op EXCEPT !.todo = Tail(@), !.held = op.held] /\ op'.held = op.held
      /\ op.held \in SUBSET Handle
  BY <1>1, <1>2 DEF OpRec
<1>6. objects' = objects \cup {r}
  BY <1>1 DEF Copy
<1> HIDE DEF c
<1>7. Scripted(op', loaded', objects')
  BY <1>2, <1>3, <1>4, <1>5, <1>6, CallScripted DEF c
<1>8. HeldResident'
  BY <1>3, <1>5 DEF IInv, HeldResident
<1> QED BY <1>1, <1>3, <1>7, <1>8, IdleFacts DEF IInv

LEMMA OpFetchesKeeps ==
    ASSUME CiphertextAssumption, IInv, NEW h \in Handle, OpFetches(h)
    PROVE  IInv' /\ PinnedStay
<1> DEFINE c == Head(op.todo)
           H == op.held \cup {h}
<1>1. /\ OpCalls("fetch", h, h) /\ cache' = GetDeviceCiphertext(cache, h)
      /\ op' = [op EXCEPT !.todo = Tail(@), !.held = @ \cup {h}]
      /\ UNCHANGED <<objects, hostVars, loaded, device, budget>>
  BY DEF OpFetches
<1>2. /\ Scripted(op, loaded, objects) /\ op.todo # <<>> /\ op \in OpRec /\ h \in loaded
  BY <1>1, CallFacts
<1>3. /\ Fits(cache', loaded) /\ cache'.pinned = cache.pinned
      /\ cache'.offloaded = cache.offloaded \ {h}
  BY <1>1, <1>2, IdleFacts, GetFits
<1>4. Payloads' /\ Contents'
  BY <1>1, IdleFacts DEF hostVars, Payloads, Contents, OriginalsKept, Held
<1>5. c.do = "fetch"
  BY <1>1 DEF OpCalls
<1>6. op' = [op EXCEPT !.todo = Tail(@), !.held = H] /\ op'.held = H /\ H \in SUBSET Handle
  BY <1>1, <1>2 DEF OpRec
<1> HIDE DEF c, H
<1>7. Scripted(op', loaded', objects')
  <2>1. /\ loaded \subseteq loaded' /\ objects \subseteq objects'
        /\ objects' \subseteq objects \cup {}
    BY <1>1
  <2>2. c = Head(op.todo) /\ c.do # "copy" /\ c.do # "load"
    BY <1>5 DEF c
  <2> QED BY <1>2, <1>5, <1>6, <2>1, <2>2, CallScripted
<1>8. HeldResident'
  BY <1>3, <1>6 DEF IInv, HeldResident, H
<1> QED BY <1>1, <1>3, <1>4, <1>7, <1>8, IdleFacts DEF IInv, PinnedStay

\* The operation is over.
LEMMA EndIInv ==
    ASSUME op' = NoOp, Payloads', Contents', Fits(cache', loaded'), budget' \in Nat
    PROVE  IInv'
<1>1. Scripted(op', loaded', objects') /\ op'.held = {}
  BY IdleScripted DEF NoOp
<1> QED BY <1>1 DEF IInv, HeldResident

LEMMA OpComputesKeeps ==
    ASSUME CiphertextAssumption, IInv, NEW v \in Val, NEW sh \in Shape, OpComputes(v, sh)
    PROVE  IInv' /\ PinnedStay
<1> DEFINE shapes == [h \in Handle |-> IF h \in op.writes THEN sh ELSE cache.shape[h]]
<1>1. /\ op.todo = <<>> /\ op' = NoOp
      /\ value' = [h \in Handle |-> IF h \in op.writes THEN v ELSE value[h]]
      /\ device' = [h \in Handle |-> IF h \in op.writes THEN v ELSE device[h]]
      /\ cache' = [cache EXCEPT !.shape = shapes]
      /\ UNCHANGED <<objects, copied, host, sharers, lazy, loaded, budget>>
  BY DEF OpComputes
<1>2. op.writes \subseteq loaded
  BY <1>1, LastCall DEF IInv
<1>3. Payloads'
  BY <1>1, IdleFacts DEF Payloads
<1>4. Contents'
  <2>1. /\ value' \in [Handle -> Content] /\ device' \in [Handle -> Content]
        /\ host' \in [Handle -> Content] /\ loaded' \subseteq objects'
    BY <1>1, IdleFacts DEF Content
  <2>2. ASSUME NEW g \in objects' \ copied' PROVE Held(g)' = value'[g]
    <3>1. g \in Handle /\ g \in objects \ copied /\ Held(g) = value[g]
      BY <1>1, <2>2, IdleFacts
    <3>2. CASE g \in op.writes
      BY <1>1, <1>2, <3>1, <3>2 DEF Held
    <3>3. CASE g \notin op.writes
      BY <1>1, <3>1, <3>3 DEF Held
    <3> QED BY <3>2, <3>3
  <2> QED BY <2>1, <2>2 DEF Contents, OriginalsKept
<1>5. Fits(cache', loaded') /\ cache'.offloaded = cache.offloaded
  <2>1. cache \in CacheRec /\ Exact(cache) /\ Fits(cache, loaded)
    BY IdleFacts DEF Fits, Exact
  <2>2. shapes \in [Handle -> Shape]
    BY <2>1 DEF CacheRec
  <2> HIDE DEF shapes
  <2>3. /\ cache' \in CacheRec /\ cache'.lru = cache.lru /\ cache'.resident = cache.resident
        /\ cache'.bytes = cache.bytes /\ cache'.total = cache.total
        /\ cache'.pinned = cache.pinned /\ cache'.offloaded = cache.offloaded
    BY <1>1, <2>1, <2>2 DEF CacheRec
  <2>4. Exact(cache')
    BY <2>1, <2>3, OtherFieldsExact
  <2> QED BY <1>1, <2>1, <2>3, <2>4 DEF Fits
<1>6. IInv'
  BY <1>1, <1>3, <1>4, <1>5, IdleFacts, EndIInv
<1> QED BY <1>5, <1>6 DEF PinnedStay

LEMMA OpThrowsKeeps ==
    ASSUME CiphertextAssumption, IInv, OpThrows
    PROVE  IInv' /\ PinnedStay
<1>1. Destroyed(op.makes) /\ op' = NoOp /\ budget' = budget
  BY DEF OpThrows
<1>2. Payloads' /\ Contents' /\ Fits(cache', loaded') /\ PinnedStay
  BY <1>1, DestroyedKeeps
<1>3. IInv'
  BY <1>1, <1>2, IdleFacts, EndIInv
<1> QED BY <1>2, <1>3
-----------------------------------------------------------------------------
(* The theorems                                                            *)

\* A step keeps the invariant, and parks no pinned ciphertext unless it is the
\* call that says so.
LEMMA NextKeeps ==
    ASSUME CiphertextAssumption, IInv, [Next]_vars
    PROVE  /\ IInv'
           /\ \/ PinnedStay
              \/ \E h \in Handle : /\ OffloadCiphertext(h)
                                   /\ cache'.offloaded = cache.offloaded \cup {h}
<1>1. ASSUME NEW h \in Handle,
             \/ Destroy(h) \/ Download(h) \/ UnloadCiphertext(h)
             \/ Reload(h) \/ Load(h) \/ Pin(h) \/ Unpin(h)
      PROVE  IInv' /\ PinnedStay
  BY <1>1, DestroyKeeps, DownloadCallKeeps, UnloadKeeps, ReloadKeeps, LoadCallKeeps, PinKeeps,
     UnpinKeeps
<1>2. ASSUME NEW h \in Handle, OffloadCiphertext(h)
      PROVE  IInv' /\ cache'.offloaded = cache.offloaded \cup {h}
  BY <1>2, OffloadKeeps
<1>3. ASSUME NEW h \in Handle, OpLoads(h) \/ OpFetches(h)
      PROVE  IInv' /\ PinnedStay
  BY <1>3, OpLoadsKeeps, OpFetchesKeeps
<1>4. ASSUME NEW h \in Handle, NEW v \in Val, Encrypt(h, v) \/ SetMetadata(h, v)
      PROVE  IInv' /\ PinnedStay
  BY <1>4, EncryptKeeps, SetMetadataKeeps
<1>5. ASSUME NEW h \in Handle, NEW r \in Handle, Clone(h, r) \/ OpCopies(h, r)
      PROVE  IInv' /\ PinnedStay
  BY <1>5, CloneKeeps, OpCopiesKeeps
<1>6. ASSUME NEW b \in Budgets, SetCiphertextCache(b)
      PROVE  IInv' /\ PinnedStay
  BY <1>6, SetCacheKeeps
<1>7. ASSUME NEW v \in Val, NEW sh \in Shape, OpComputes(v, sh)
      PROVE  IInv' /\ PinnedStay
  BY <1>7, OpComputesKeeps
<1>8. CASE OffloadCiphertexts \/ Start \/ OpThrows
  BY <1>8, OffloadAllKeeps, StartKeeps, OpThrowsKeeps
<1>9. CASE UNCHANGED vars
  <2>1. UNCHANGED <<objects, copied, value, host, sharers, lazy, loaded, device, cache, budget, op>>
    BY <1>9 DEF vars, hostVars
  <2> QED BY <2>1 DEF IInv, Payloads, Contents, OriginalsKept, Held, Fits, Exact, HeldResident,
             PinnedStay
<1> QED BY <1>1, <1>2, <1>3, <1>4, <1>5, <1>6, <1>7, <1>8, <1>9 DEF Next

\* The strengthened invariant holds in every state the cache reaches.
LEMMA IInvHolds == Spec => []IInv
<1>1. Init => IInv
  BY CiphertextAssumption, InitIInv
<1>2. IInv /\ [Next]_vars => IInv'
  BY CiphertextAssumption, NextKeeps
<1> QED BY <1>1, <1>2, PTL DEF Spec

\* A load leaves the budget met, or nothing but the ciphertext loaded to evict.
LEMMA LoadEvicts ==
    ASSUME CiphertextAssumption, IInv, NEW h \in Handle, OpLoads(h) \/ Load(h)
    PROVE  \/ budget = SizeMax \/ cache'.total <= budget
           \/ \A g \in cache'.resident \ {h} :
                 g \in cache'.pinned \/ cache'.shape[g] = "extended"
<1>1. LoadCiphertext(h) /\ h \in objects
  <2>1. CASE OpLoads(h)
    BY <2>1, CallFacts DEF OpLoads
  <2>2. CASE Load(h)
    BY <2>2 DEF Load
  <2> QED BY <2>1, <2>2
<1> QED BY <1>1, LoadKeeps

\* The registry of device ciphertexts, the entries, the recency list, the byte
\* count and the marks on parked and pinned ciphertexts always agree.
THEOREM AccountingAlwaysExact == Spec => []AccountingExact
<1>1. IInv => AccountingExact
  BY DEF IInv, Contents, Fits, Exact, Total, AccountingExact
<1> QED BY <1>1, IInvHolds, PTL

\* An operation loads its operands before it fetches the first of them, so no
\* eviction takes the limbs of a ciphertext it holds a pointer to.
THEOREM HeldAlwaysResident == Spec => []HeldResident
<1>1. IInv => HeldResident
  BY DEF IInv
<1> QED BY <1>1, IInvHolds, PTL

\* A ciphertext that was not made by copying always holds what its own history
\* gave it, on the device or, shared with its copies, on the host.
THEOREM OriginalsAlwaysKept == Spec => []OriginalsKept
<1>1. IInv => OriginalsKept
  BY DEF IInv, Contents
<1> QED BY <1>1, IInvHolds, PTL

\* No eviction parks a pinned ciphertext, and a load evicts until the budget is
\* met or nothing but the ciphertext loaded is left to evict.
THEOREM EvictionAlwaysExact == Spec => EvictionExact
<1> DEFINE Evicts(h) ==
              /\ h \in (cache.pinned \cap cache'.pinned \cap cache'.offloaded) \ cache.offloaded =>
                    OffloadCiphertext(h)
              /\ OpLoads(h) \/ Load(h) =>
                    \/ budget = SizeMax \/ cache'.total <= budget
                    \/ \A g \in cache'.resident \ {h} :
                          g \in cache'.pinned \/ cache'.shape[g] = "extended"
<1>1. ASSUME IInv, [Next]_vars
      PROVE  [\A h \in Handle : Evicts(h)]_vars
  <2>1. ASSUME NEW h \in Handle,
               h \in (cache.pinned \cap cache'.pinned \cap cache'.offloaded) \ cache.offloaded
        PROVE  OffloadCiphertext(h)
    BY <1>1, <2>1, CiphertextAssumption, NextKeeps DEF PinnedStay
  <2>2. ASSUME NEW h \in Handle, OpLoads(h) \/ Load(h)
        PROVE  \/ budget = SizeMax \/ cache'.total <= budget
               \/ \A g \in cache'.resident \ {h} :
                     g \in cache'.pinned \/ cache'.shape[g] = "extended"
    BY <1>1, <2>2, CiphertextAssumption, LoadEvicts
  <2> QED BY <2>1, <2>2
<1> QED BY <1>1, IInvHolds, PTL DEF Spec, EvictionExact
=============================================================================
