----------------------- MODULE RotationKeyCacheProofs -----------------------
(***************************************************************************)
(* Proofs about the rotation-key cache, for any keys, key sets, key size   *)
(* and budgets.                                                            *)
(***************************************************************************)
EXTENDS RotationKeyCache, ListLemmas, FiniteSetTheorems

-----------------------------------------------------------------------------
(* Counting the resident keys of a key set                                 *)

Count(R, h) == Cardinality({k \in R : KeyIdOf[k] = h})

\* Loading a key of key set h, or of another, moves the number of h's resident
\* keys by one or not at all.
LEMMA CountAddKey ==
    ASSUME NEW R \in SUBSET RotKey, NEW k \in RotKey \ R, NEW h
    PROVE  /\ Count(R, h) \in Nat
           /\ Count(R \cup {k}, h) =
                 IF KeyIdOf[k] = h THEN Count(R, h) + 1 ELSE Count(R, h)
<1> DEFINE A == {x \in R : KeyIdOf[x] = h}
           B == {x \in R \cup {k} : KeyIdOf[x] = h}
<1>1. IsFiniteSet(A) /\ k \notin A
  BY CacheAssumption, FS_Subset DEF CacheAssumption
<1>2. Cardinality(A) \in Nat
  BY <1>1, FS_CardinalityType
<1>3. CASE KeyIdOf[k] = h
  <2>1. B = A \cup {k}
    BY <1>3
  <2>2. Cardinality(B) = Cardinality(A) + 1
    BY <1>1, <2>1, FS_AddElement
  <2> QED BY <1>2, <1>3, <2>2 DEF Count
<1>4. CASE KeyIdOf[k] # h
  <2>1. B = A
    BY <1>4
  <2> QED BY <1>2, <1>4, <2>1 DEF Count
<1> QED BY <1>3, <1>4

\* The same for a key that leaves VRAM.
LEMMA CountRemoveKey ==
    ASSUME NEW R \in SUBSET RotKey, NEW k \in R, NEW h
    PROVE  /\ Count(R, h) \in Nat
           /\ KeyIdOf[k] = h => Count(R, h) >= 1
           /\ Count(R \ {k}, h) =
                 IF KeyIdOf[k] = h THEN Count(R, h) - 1 ELSE Count(R, h)
<1>1. Count(R \ {k}, h) \in Nat
      /\ Count((R \ {k}) \cup {k}, h) =
            IF KeyIdOf[k] = h THEN Count(R \ {k}, h) + 1 ELSE Count(R \ {k}, h)
  BY CountAddKey
<1>2. Count((R \ {k}) \cup {k}, h) = Count(R, h)
  <2>1. (R \ {k}) \cup {k} = R
    OBVIOUS
  <2> QED BY <2>1
<1>3. CASE KeyIdOf[k] = h
  BY <1>1, <1>2, <1>3
<1>4. CASE KeyIdOf[k] # h
  BY <1>1, <1>2, <1>4
<1> QED BY <1>3, <1>4

\* One key more, or less, in a product.
LEMMA TimesOneMore ==
    ASSUME NEW b \in Nat, NEW n \in Nat
    PROVE  /\ b * n \in Nat
           /\ b * (n + 1) = b * n + b
           /\ n >= 1 => b * (n - 1) = b * n - b /\ b * n >= b
<1>1. b * n \in Nat /\ b * (n + 1) = b * n + b
  BY SMT
<1>2. ASSUME n >= 1
      PROVE  b * (n - 1) = b * n - b /\ b * n >= b
  <2>1. n - 1 \in Nat
    BY <1>2
  <2>2. b * (n - 1) \in Nat /\ b * (n - 1) = b * n - b
    BY <1>2, <2>1, SMT
  <2> QED BY <1>1, <2>2
<1> QED BY <1>1, <1>2
-----------------------------------------------------------------------------
(* The inductive invariant                                                 *)

\* What the loops rely on: one call is in a loop at a time, it runs while no
\* operation holds a key, and the key being loaded is still out of VRAM.
CallShape ==
    /\ \A k, l \in loading : k = l
    /\ loading \subseteq rot_keys \ resident
    /\ offloading \subseteq rot_keys
    /\ ~Idle => hold = 0 /\ fetched = {}
    /\ loading # {} => enforcing = {} /\ offloading = {}
    /\ enforcing # {} => offloading = {}

\* A key that is not in VRAM can be brought back.
Recoverable == rot_keys \ resident \subseteq has_snapshot

IInv == TypeOK /\ AccountingExact /\ LRUExact /\ InUseResident /\ Recoverable /\ CallShape

\* The list half of LRUExact, for one key set.
ListOK(h) ==
    /\ lru_order[h] \in Seq(RotKey)
    /\ Distinct(lru_order[h])
    /\ Elems(lru_order[h]) \subseteq ResidentOf(h)
    /\ ResidentOf(h) \cap has_snapshot \subseteq Elems(lru_order[h])

BytesOK(h) ==
    /\ resident_bytes[h] \in Nat
    /\ resident_bytes[h] = KeyBytes * (Count(resident, h) + readds[h])

\* The invariants, written out for one key set.
LEMMA PerKeySet ==
    ASSUME TypeOK
    PROVE  /\ LRUExact <=> \A h \in KeyHash : ListOK(h)
           /\ AccountingExact <=> \A h \in KeyHash : BytesOK(h)
BY DEF TypeOK, LRUExact, ListOK, Listed, Distinct, Elems, AccountingExact, BytesOK,
       Count, ResidentOf

\* offloadKey keeps the list and the accounting in step with the VRAM, and
\* never takes more off resident_bytes than it holds.
LEMMA OffloadKeyKeepsStep ==
    ASSUME TypeOK, AccountingExact, LRUExact,
           NEW k \in RotKey, OffloadKey(k),
           UNCHANGED <<rot_keys, has_snapshot, readds>>
    PROVE  /\ resident' \subseteq resident
           /\ inflight' \subseteq inflight
           /\ resident # resident' => /\ resident' = resident \ {k}
                                     /\ inflight' = {} /\ k \in has_snapshot
           /\ \A h \in KeyHash : ListOK(h)' /\ BytesOK(h)'
           /\ resident_bytes' \in [KeyHash -> Nat]
           /\ lru_order' \in [KeyHash -> Seq(RotKey)]
<1>1. \A h \in KeyHash : ListOK(h) /\ BytesOK(h)
  BY PerKeySet
<1>2. CASE ~Offloadable(k)
  <2>1. UNCHANGED <<resident, resident_bytes, lru_order, inflight>>
    BY <1>2 DEF OffloadKey
  <2> QED BY <1>1, <2>1 DEF ListOK, BytesOK, TypeOK, ResidentOf, Count
<1>3. CASE Offloadable(k)
  <2>1. /\ k \in resident /\ k \in RotKey /\ KeyIdOf[k] \in KeyHash
        /\ resident \in SUBSET RotKey /\ KeyBytes \in Nat
    BY <1>3, CacheAssumption DEF Offloadable, TypeOK, CacheAssumption
  <2>2. /\ inflight' = {}
        /\ resident' = resident \ {k}
        /\ resident_bytes' = [resident_bytes EXCEPT ![KeyIdOf[k]] = @ - KeyBytes]
        /\ lru_order' = [lru_order EXCEPT ![KeyIdOf[k]] = Unlink(@, k)]
    BY <1>3 DEF OffloadKey, Drain
  <2>3. ASSUME NEW h \in KeyHash
        PROVE  ListOK(h)'
    <3>1. CASE h = KeyIdOf[k]
      <4>1. lru_order'[h] = Unlink(lru_order[h], k)
        BY <2>2, <3>1 DEF TypeOK
      <4>2. /\ lru_order'[h] \in Seq(RotKey) /\ Distinct(lru_order'[h])
            /\ Elems(lru_order'[h]) = Elems(lru_order[h]) \ {k}
        BY <1>1, <4>1, UnlinkElements DEF ListOK
      <4>3. ResidentOf(h)' = ResidentOf(h) \ {k}
        BY <2>2 DEF ResidentOf
      <4> QED BY <1>1, <4>2, <4>3 DEF ListOK, Distinct, Elems
    <3>2. CASE h # KeyIdOf[k]
      <4>1. lru_order'[h] = lru_order[h]
        BY <2>2, <3>2 DEF TypeOK
      <4>2. ResidentOf(h)' = ResidentOf(h)
        BY <2>2, <3>2 DEF ResidentOf
      <4> QED BY <1>1, <4>1, <4>2 DEF ListOK, Distinct, Elems
    <3> QED BY <3>1, <3>2
  <2>4. ASSUME NEW h \in KeyHash
        PROVE  BytesOK(h)'
    <3> DEFINE c == Count(resident, h)
               r == readds[h]
    <3>1. /\ c \in Nat /\ (KeyIdOf[k] = h => c >= 1)
          /\ Count(resident', h) = IF KeyIdOf[k] = h THEN c - 1 ELSE c
      BY <2>1, <2>2, CountRemoveKey
    <3>2. r \in Nat /\ readds'[h] = r /\ resident_bytes[h] = KeyBytes * (c + r)
      BY <1>1, CacheAssumption DEF TypeOK, BytesOK, CacheAssumption
    <3>3. resident_bytes[h] \in Nat
      BY <1>1 DEF BytesOK
    <3> HIDE DEF c, r
    <3>4. CASE h = KeyIdOf[k]
      <4>1. c + r \in Nat /\ c + r >= 1 /\ (c - 1) + r = (c + r) - 1
        BY <3>1, <3>2, <3>4
      <4>2. /\ KeyBytes * ((c + r) - 1) = KeyBytes * (c + r) - KeyBytes
            /\ KeyBytes * (c + r) >= KeyBytes
        BY <2>1, <4>1, TimesOneMore
      <4>3. resident_bytes'[h] = resident_bytes[h] - KeyBytes
        BY <2>2, <3>4 DEF TypeOK
      <4>4. resident_bytes'[h] \in Nat
        BY <2>1, <3>2, <3>3, <4>2, <4>3
      <4>5. resident_bytes'[h] = KeyBytes * (Count(resident', h) + readds'[h])
        BY <3>1, <3>2, <3>4, <4>1, <4>2, <4>3
      <4> QED BY <4>4, <4>5 DEF BytesOK, Count
    <3>5. CASE h # KeyIdOf[k]
      <4>1. resident_bytes'[h] = resident_bytes[h]
        BY <2>2, <3>5 DEF TypeOK
      <4>2. resident_bytes'[h] = KeyBytes * (Count(resident', h) + readds'[h])
        BY <3>1, <3>2, <3>5, <4>1
      <4> QED BY <3>3, <4>1, <4>2 DEF BytesOK, Count
    <3> QED BY <3>4, <3>5
  <2>5. resident_bytes' \in [KeyHash -> Nat] /\ lru_order' \in [KeyHash -> Seq(RotKey)]
    <3>1. /\ resident_bytes' = [h \in KeyHash |-> resident_bytes'[h]]
          /\ lru_order' = [h \in KeyHash |-> lru_order'[h]]
      BY <2>2 DEF TypeOK
    <3> QED BY <2>3, <2>4, <3>1 DEF ListOK, BytesOK
  <2> QED BY <1>3, <2>2, <2>3, <2>4, <2>5 DEF Offloadable
<1> QED BY <1>2, <1>3

\* touch(k) of a resident key k keeps every list in order.
LEMMA TouchKeepsLists ==
    ASSUME TypeOK, LRUExact, NEW k \in RotKey,
           lru_order' = Touched(k), UNCHANGED <<rot_keys, has_snapshot>>,
           resident' = resident \cup {k}
    PROVE  /\ \A h \in KeyHash : ListOK(h)'
           /\ lru_order' \in [KeyHash -> Seq(RotKey)]
<1>1. \A h \in KeyHash : ListOK(h)
  BY PerKeySet DEF TypeOK, LRUExact, ListOK, Listed, Distinct, Elems
<1>2. KeyIdOf[k] \in KeyHash
  BY CacheAssumption DEF CacheAssumption
<1>3. lru_order' = [lru_order EXCEPT ![KeyIdOf[k]] = ToFront(@, k)]
  BY DEF Touched
<1>4. ASSUME NEW h \in KeyHash
      PROVE  ListOK(h)'
  <2>1. CASE h = KeyIdOf[k]
    <3>1. lru_order'[h] = ToFront(lru_order[h], k)
      BY <1>3, <2>1 DEF TypeOK
    <3>2. /\ lru_order'[h] \in Seq(RotKey) /\ Distinct(lru_order'[h])
          /\ Elems(lru_order'[h]) = Elems(lru_order[h]) \cup {k}
      BY <1>1, <3>1, ToFrontElements DEF ListOK
    <3>3. ResidentOf(h)' = ResidentOf(h) \cup {k}
      BY <2>1 DEF ResidentOf
    <3> QED BY <1>1, <3>2, <3>3 DEF ListOK, Distinct, Elems
  <2>2. CASE h # KeyIdOf[k]
    <3>1. lru_order'[h] = lru_order[h]
      BY <1>3, <2>2 DEF TypeOK
    <3>2. ResidentOf(h)' = ResidentOf(h)
      BY <2>2 DEF ResidentOf
    <3> QED BY <1>1, <3>1, <3>2 DEF ListOK, Distinct, Elems
  <2> QED BY <2>1, <2>2
<1>5. lru_order' = [h \in KeyHash |-> lru_order'[h]]
  BY <1>3 DEF TypeOK
<1> QED BY <1>4, <1>5 DEF ListOK

\* Accounting a key that enters VRAM.
LEMMA AccountKeepsBytes ==
    ASSUME TypeOK, AccountingExact, NEW k \in RotKey \ resident,
           resident' = resident \cup {k}, UNCHANGED readds,
           resident_bytes' = [resident_bytes EXCEPT ![KeyIdOf[k]] = @ + KeyBytes]
    PROVE  /\ \A h \in KeyHash : BytesOK(h)'
           /\ resident_bytes' \in [KeyHash -> Nat]
<1>1. \A h \in KeyHash : BytesOK(h)
  BY DEF TypeOK, AccountingExact, BytesOK, Count, ResidentOf
<1>2. KeyIdOf[k] \in KeyHash /\ KeyBytes \in Nat /\ resident \in SUBSET RotKey
  BY CacheAssumption DEF CacheAssumption, TypeOK
<1>3. ASSUME NEW h \in KeyHash
      PROVE  BytesOK(h)'
  <2> DEFINE c == Count(resident, h)
             r == readds[h]
  <2>1. c \in Nat /\ Count(resident', h) = IF KeyIdOf[k] = h THEN c + 1 ELSE c
    BY <1>2, CountAddKey
  <2>2. /\ r \in Nat /\ readds'[h] = r
        /\ resident_bytes[h] \in Nat /\ resident_bytes[h] = KeyBytes * (c + r)
    BY <1>1, CacheAssumption DEF TypeOK, BytesOK, CacheAssumption
  <2> HIDE DEF c, r
  <2>3. CASE h = KeyIdOf[k]
    <3>1. c + r \in Nat /\ (c + 1) + r = (c + r) + 1
      BY <2>1, <2>2
    <3>2. KeyBytes * ((c + r) + 1) = KeyBytes * (c + r) + KeyBytes
      BY <1>2, <3>1, TimesOneMore
    <3>3. resident_bytes'[h] = resident_bytes[h] + KeyBytes
      BY <2>3 DEF TypeOK
    <3>4. resident_bytes'[h] = KeyBytes * (Count(resident', h) + readds'[h])
      BY <2>1, <2>2, <2>3, <3>1, <3>2, <3>3
    <3> QED BY <1>2, <2>2, <3>3, <3>4 DEF BytesOK, Count
  <2>4. CASE h # KeyIdOf[k]
    <3>1. resident_bytes'[h] = resident_bytes[h]
      BY <2>4 DEF TypeOK
    <3>2. resident_bytes'[h] = KeyBytes * (Count(resident', h) + readds'[h])
      BY <2>1, <2>2, <2>4, <3>1
    <3> QED BY <2>2, <3>1, <3>2 DEF BytesOK, Count
  <2> QED BY <2>3, <2>4
<1>4. resident_bytes' = [h \in KeyHash |-> resident_bytes'[h]]
  BY DEF TypeOK
<1> QED BY <1>3, <1>4 DEF BytesOK

\* From the per-key-set facts back to the invariants.
LEMMA FromPerKeySet ==
    ASSUME TypeOK', \A h \in KeyHash : ListOK(h)' /\ BytesOK(h)'
    PROVE  LRUExact' /\ AccountingExact'
BY DEF TypeOK, LRUExact, ListOK, Listed, Distinct, Elems, AccountingExact, BytesOK,
       Count, ResidentOf

\* The end of ensureResident, from whichever caller.
LEMMA LoadKeyKeepsStep ==
    ASSUME IInv, NEW k \in rot_keys \ resident, LoadKey(k),
           loading' = {}, UNCHANGED <<enforcing, offloading>>
    PROVE  TypeOK' /\ AccountingExact' /\ LRUExact' /\ InUseResident' /\ Recoverable'
<1> USE DEF IInv
<1>1. k \in RotKey /\ k \in RotKey \ resident
  BY DEF TypeOK
<1>2. \A h \in KeyHash : ListOK(h)' /\ BytesOK(h)'
  BY <1>1, TouchKeepsLists, AccountKeepsBytes DEF LoadKey
<1>3. resident_bytes' \in [KeyHash -> Nat] /\ lru_order' \in [KeyHash -> Seq(RotKey)]
  BY <1>1, TouchKeepsLists, AccountKeepsBytes DEF LoadKey
<1>4. TypeOK'
  BY <1>1, <1>3 DEF TypeOK, LoadKey
<1>5. InUseResident'
  BY DEF InUseResident, LoadKey
<1>6. Recoverable'
  BY DEF Recoverable, LoadKey
<1> QED BY <1>2, <1>4, <1>5, <1>6, FromPerKeySet

\* An offload, from whichever loop.
LEMMA OffloadKeyKeepsInv ==
    ASSUME IInv, NEW k \in RotKey, OffloadKey(k), ~Idle,
           UNCHANGED <<rot_keys, has_snapshot, readds, pinned, budget, hold, fetched>>,
           loading' \subseteq loading, enforcing' \subseteq enforcing,
           offloading' \subseteq offloading
    PROVE  IInv'
<1> USE DEF IInv
<1>1. /\ resident' \subseteq resident
      /\ inflight' \subseteq inflight
      /\ resident # resident' => /\ resident' = resident \ {k}
                                /\ inflight' = {} /\ k \in has_snapshot
      /\ \A h \in KeyHash : ListOK(h)' /\ BytesOK(h)'
      /\ resident_bytes' \in [KeyHash -> Nat]
      /\ lru_order' \in [KeyHash -> Seq(RotKey)]
  BY OffloadKeyKeepsStep
<1>2. TypeOK'
  BY <1>1 DEF TypeOK
<1>3. LRUExact' /\ AccountingExact'
  BY <1>1, <1>2, FromPerKeySet
<1>4. fetched = {} /\ hold = 0
  BY DEF CallShape
<1>5. InUseResident'
  <2>1. CASE resident' = resident
    BY <1>1, <2>1 DEF InUseResident
  <2>2. CASE resident' # resident
    BY <1>1, <1>4, <2>2 DEF InUseResident
  <2> QED BY <2>1, <2>2
<1>6. CallShape'
  BY <1>1, <1>4 DEF CallShape, Idle
<1>7. Recoverable'
  BY <1>1 DEF Recoverable
<1> QED BY <1>2, <1>3, <1>5, <1>6, <1>7

\* No key is registered at first.
LEMMA InitInv == Init => IInv
<1> SUFFICES ASSUME Init PROVE IInv
  OBVIOUS
<1>1. TypeOK
  BY CacheAssumption DEF Init, TypeOK, CacheAssumption
<1>2. ASSUME NEW h \in KeyHash
      PROVE  resident_bytes[h] = KeyBytes * (Cardinality(ResidentOf(h)) + readds[h])
  <2>1. ResidentOf(h) = {} /\ resident_bytes[h] = 0 /\ readds[h] = 0
    BY DEF Init, ResidentOf
  <2>2. Cardinality(ResidentOf(h)) = 0
    BY <2>1, FS_EmptySet
  <2>3. KeyBytes \in Nat
    BY CacheAssumption DEF CacheAssumption
  <2>4. KeyBytes * (0 + 0) = 0
    BY <2>3
  <2> QED BY <2>1, <2>2, <2>4
<1>3. LRUExact
  BY DEF Init, LRUExact, Listed, ResidentOf, Distinct, Elems
<1>4. InUseResident /\ Recoverable /\ CallShape
  BY DEF Init, InUseResident, Recoverable, CallShape, Idle
<1> QED BY <1>1, <1>2, <1>3, <1>4 DEF IInv, AccountingExact

\* A step that moves nothing in or out of VRAM keeps the bookkeeping exact.
LEMMA SameResidency ==
    ASSUME UNCHANGED <<resident, has_snapshot, resident_bytes, readds, lru_order>>
    PROVE  /\ AccountingExact => AccountingExact'
           /\ LRUExact => LRUExact'
BY DEF AccountingExact, LRUExact, Listed, ResidentOf

\* One step of a loop.
LEMMA LoopStepKeepsInv == IInv /\ LoopStep => IInv'
<1> SUFFICES ASSUME IInv, LoopStep PROVE IInv'
  OBVIOUS
<1>1. ASSUME NEW k \in RotKey, EvictForLoad(k)
      PROVE  IInv'
  <2>1. PICK v \in RotKey : OffloadKey(v)
    <3>1. PICK j \in DOMAIN lru_order[KeyIdOf[k]] : OffloadKey(lru_order[KeyIdOf[k]][j])
      BY <1>1 DEF EvictForLoad, EvictOne
    <3>2. KeyIdOf[k] \in KeyHash
      BY CacheAssumption DEF CacheAssumption
    <3>3. lru_order[KeyIdOf[k]] \in Seq(RotKey)
      BY <3>2 DEF IInv, TypeOK
    <3>4. lru_order[KeyIdOf[k]][j] \in RotKey
      BY <3>1, <3>3, ElementOfSeq, LenProperties
    <3> QED BY <3>1, <3>4
  <2>2. ~Idle
    BY <1>1 DEF EvictForLoad, Idle
  <2> QED BY <1>1, <2>1, <2>2, OffloadKeyKeepsInv DEF EvictForLoad, callVars
<1>2. ASSUME NEW k \in RotKey, FinishLoad(k)
      PROVE  IInv'
  <2>1. k \in rot_keys \ resident /\ loading = {k} /\ hold = 0
    BY <1>2 DEF FinishLoad, IInv, CallShape, Idle
  <2>2. TypeOK' /\ AccountingExact' /\ LRUExact' /\ InUseResident' /\ Recoverable'
    BY <1>2, <2>1, LoadKeyKeepsStep DEF FinishLoad
  <2>3. CallShape'
    BY <1>2, <2>1 DEF FinishLoad, LoadKey, IInv, CallShape, Idle
  <2> QED BY <2>2, <2>3 DEF IInv
<1>3. ASSUME NEW k \in RotKey, OffloadNext(k)
      PROVE  IInv'
  <2>1. ~Idle
    BY <1>3 DEF OffloadNext, Idle
  <2> QED BY <1>3, <2>1, OffloadKeyKeepsInv DEF OffloadNext
<1>4. ASSUME NEW h \in KeyHash, EnforceBudget(h)
      PROVE  IInv'
  <2>1. PICK v \in RotKey : OffloadKey(v)
    <3>1. PICK j \in DOMAIN lru_order[h] : OffloadKey(lru_order[h][j])
      BY <1>4 DEF EnforceBudget, EvictOne
    <3>2. lru_order[h] \in Seq(RotKey)
      BY DEF IInv, TypeOK
    <3>3. lru_order[h][j] \in RotKey
      BY <3>1, <3>2, ElementOfSeq, LenProperties
    <3> QED BY <3>1, <3>3
  <2>2. ~Idle
    BY <1>4 DEF EnforceBudget, Idle
  <2> QED BY <1>4, <2>1, <2>2, OffloadKeyKeepsInv DEF EnforceBudget, callVars
<1>5. ASSUME NEW h \in KeyHash, EnforceDone(h)
      PROVE  IInv'
  BY <1>5, SameResidency
  DEF EnforceDone, IInv, TypeOK, InUseResident, Recoverable, CallShape, Idle, cacheVars, useVars
<1> QED BY <1>1, <1>2, <1>3, <1>4, <1>5 DEF LoopStep

\* Registering and clearing keys.
LEMMA RegisterKeepsInv ==
    ASSUME IInv, NEW k \in RotKey, AddNewKey(k) \/ AddKeyAgain(k)
    PROVE  IInv'
<1> USE DEF IInv
<1>1. CASE AddNewKey(k) /\ Lazy
  <2>1. /\ rot_keys' = rot_keys \cup {k} /\ has_snapshot' = has_snapshot \cup {k}
        /\ k \notin resident
        /\ UNCHANGED <<resident, resident_bytes, readds, lru_order, pinned, budget,
                       useVars, callVars>>
    BY <1>1 DEF AddNewKey, TypeOK
  <2>2. TypeOK' /\ InUseResident' /\ Recoverable' /\ CallShape'
    BY <2>1 DEF TypeOK, InUseResident, Recoverable, CallShape, Idle, useVars, callVars
  <2>3. AccountingExact' /\ LRUExact'
    BY <2>1 DEF AccountingExact, LRUExact, Listed, ResidentOf
  <2> QED BY <2>2, <2>3
<1>2. CASE AddNewKey(k) /\ ~Lazy
  <2>1. /\ rot_keys' = rot_keys \cup {k} /\ resident' = resident \cup {k}
        /\ k \notin resident /\ k \notin has_snapshot
        /\ resident_bytes' = [resident_bytes EXCEPT ![KeyIdOf[k]] = @ + KeyBytes]
        /\ Idle
        /\ UNCHANGED <<has_snapshot, readds, lru_order, pinned, budget,
                       useVars, callVars>>
    BY <1>2 DEF AddNewKey, TypeOK, Quiet
  <2>2. \A h \in KeyHash : BytesOK(h)'
    BY <2>1, AccountKeepsBytes
  <2>3. \A h \in KeyHash : ListOK(h)'
    <3>1. \A h \in KeyHash : ListOK(h)
      BY PerKeySet
    <3> QED BY <2>1, <3>1 DEF ListOK, ResidentOf, Distinct, Elems
  <2>4. resident_bytes' \in [KeyHash -> Nat]
    BY <2>1, AccountKeepsBytes
  <2>5. TypeOK' /\ InUseResident' /\ Recoverable' /\ CallShape'
    BY <2>1, <2>4 DEF TypeOK, InUseResident, Recoverable, CallShape, Idle, useVars, callVars
  <2> QED BY <2>2, <2>3, <2>5, FromPerKeySet
<1>3. CASE AddKeyAgain(k)
  <2> DEFINE g == KeyIdOf[k]
  <2>1. g \in KeyHash /\ KeyBytes \in Nat /\ MaxReAdds \in Nat
    BY CacheAssumption DEF CacheAssumption
  <2>2. /\ readds' = [readds EXCEPT ![g] = @ + 1]
        /\ resident_bytes' = [resident_bytes EXCEPT ![g] = @ + KeyBytes]
        /\ readds[g] < MaxReAdds
        /\ UNCHANGED <<rot_keys, resident, has_snapshot, lru_order, pinned, budget,
                       useVars, callVars>>
    BY <1>3 DEF AddKeyAgain
  <2>3. readds' \in [KeyHash -> 0..MaxReAdds]
    <3>1. readds[g] + 1 \in 0..MaxReAdds
      BY <2>1, <2>2 DEF TypeOK
    <3> QED BY <2>2, <3>1 DEF TypeOK
  <2>4. resident_bytes' \in [KeyHash -> Nat]
    BY <2>1, <2>2 DEF TypeOK
  <2>5. TypeOK' /\ InUseResident' /\ Recoverable' /\ CallShape'
    BY <2>2, <2>3, <2>4 DEF TypeOK, InUseResident, Recoverable, CallShape, Idle, useVars, callVars
  <2>6. LRUExact'
    BY <2>2 DEF LRUExact, Listed, ResidentOf
  <2>7. ASSUME NEW h \in KeyHash
        PROVE  resident_bytes'[h] = KeyBytes * (Cardinality(ResidentOf(h)') + readds'[h])
    <3> DEFINE c == Cardinality(ResidentOf(h))
               r == readds[h]
    <3>1. c \in Nat
      BY CacheAssumption, FS_CardinalityType, FS_Subset DEF ResidentOf, CacheAssumption, TypeOK
    <3>2. /\ r \in Nat /\ resident_bytes[h] = KeyBytes * (c + r)
          /\ Cardinality(ResidentOf(h)') = c
      BY <2>1, <2>2 DEF TypeOK, AccountingExact, ResidentOf
    <3>3. CASE h = g
      <4>1. readds'[h] = r + 1 /\ resident_bytes'[h] = resident_bytes[h] + KeyBytes
        BY <2>2, <3>3 DEF TypeOK
      <4> HIDE DEF c, r
      <4>2. c + r \in Nat /\ c + (r + 1) = (c + r) + 1
        BY <3>1, <3>2
      <4>3. KeyBytes * ((c + r) + 1) = KeyBytes * (c + r) + KeyBytes
        BY <2>1, <4>2, TimesOneMore
      <4> QED BY <3>2, <4>1, <4>2, <4>3
    <3>4. CASE h # g
      BY <2>2, <3>2, <3>4 DEF TypeOK
    <3> QED BY <3>3, <3>4
  <2> QED BY <2>5, <2>6, <2>7 DEF AccountingExact
<1> QED BY <1>1, <1>2, <1>3 DEF AddNewKey

\* ClearAutomorphismKeys forgets the keys of a key set with their accounting.
LEMMA ClearKeepsInv ==
    ASSUME IInv, NEW g \in KeyHash, ClearAutomorphismKeys(g)
    PROVE  IInv'
<1> USE DEF IInv
<1>1. /\ rot_keys' = rot_keys \ KeysOf(g) /\ resident' = resident \ KeysOf(g)
      /\ has_snapshot' = has_snapshot \ KeysOf(g) /\ pinned' = pinned \ KeysOf(g)
      /\ lru_order' = [lru_order EXCEPT ![g] = <<>>]
      /\ resident_bytes' = [resident_bytes EXCEPT ![g] = 0]
      /\ readds' = [readds EXCEPT ![g] = 0]
      /\ Idle /\ hold = 0 /\ fetched = {} /\ inflight = {}
      /\ UNCHANGED <<budget, useVars, callVars>>
  BY DEF ClearAutomorphismKeys, ResetCacheBookkeeping, Quiet
<1>2. MaxReAdds \in Nat /\ KeyBytes \in Nat
  BY CacheAssumption DEF CacheAssumption
<1>3. TypeOK'
  <2>1. <<>> \in Seq(RotKey)
    OBVIOUS
  <2>2. /\ lru_order' \in [KeyHash -> Seq(RotKey)]
        /\ resident_bytes' \in [KeyHash -> Nat]
        /\ readds' \in [KeyHash -> 0..MaxReAdds]
    BY <1>1, <1>2, <2>1 DEF TypeOK
  <2> QED BY <1>1, <2>2 DEF TypeOK, useVars, callVars
<1>4. InUseResident' /\ Recoverable' /\ CallShape'
  BY <1>1 DEF InUseResident, Recoverable, CallShape, Idle, useVars, callVars
<1>5. ASSUME NEW h \in KeyHash
      PROVE  /\ ResidentOf(h)' = IF h = g THEN {} ELSE ResidentOf(h)
             /\ h # g => ResidentOf(h)' \cap has_snapshot' = ResidentOf(h) \cap has_snapshot
             /\ lru_order'[h] = IF h = g THEN <<>> ELSE lru_order[h]
  BY <1>1 DEF ResidentOf, KeysOf, TypeOK
<1>6. LRUExact'
  <2>1. ASSUME NEW h \in KeyHash
        PROVE  /\ Distinct(lru_order'[h])
               /\ Listed(h)' \subseteq ResidentOf(h)'
               /\ ResidentOf(h)' \cap has_snapshot' \subseteq Listed(h)'
    <3>1. CASE h = g
      BY <1>5, <3>1 DEF Listed, Distinct, Elems
    <3>2. CASE h # g
      BY <1>5, <3>2 DEF Listed, LRUExact
    <3> QED BY <3>1, <3>2
  <2> QED BY <2>1 DEF LRUExact
<1>7. ASSUME NEW h \in KeyHash
      PROVE  resident_bytes'[h] = KeyBytes * (Cardinality(ResidentOf(h)') + readds'[h])
  <2>1. CASE h = g
    <3>1. resident_bytes'[h] = 0 /\ readds'[h] = 0 /\ ResidentOf(h)' = {}
      BY <1>1, <1>5, <2>1 DEF TypeOK
    <3>2. Cardinality(ResidentOf(h)') = 0
      BY <3>1, FS_EmptySet
    <3>3. KeyBytes * (0 + 0) = 0
      BY <1>2
    <3> QED BY <3>1, <3>2, <3>3
  <2>2. CASE h # g
    <3>1. /\ resident_bytes'[h] = resident_bytes[h] /\ readds'[h] = readds[h]
          /\ ResidentOf(h)' = ResidentOf(h)
      BY <1>1, <1>5, <2>2 DEF TypeOK
    <3> QED BY <3>1 DEF AccountingExact
  <2> QED BY <2>1, <2>2
<1> QED BY <1>3, <1>4, <1>6, <1>7 DEF AccountingExact

\* The calls of one operation that only fetch, pin or touch one key.
LEMMA KeyCallKeepsInv ==
    ASSUME IInv, NEW k \in RotKey,
           \/ GetResidentKey(k) \/ BeginLoad(k) \/ LoadUnderHold(k)
           \/ PinRotationKey(k) \/ UnpinRotationKey(k) \/ KernelDone(k)
    PROVE  IInv'
<1> USE DEF IInv
<1>1. CASE GetResidentKey(k)
  <2>1. lru_order' = Touched(k) /\ k \in resident /\ resident' = resident \cup {k}
        /\ UNCHANGED <<rot_keys, resident, has_snapshot, resident_bytes, readds>>
    BY <1>1 DEF GetResidentKey
  <2>2. lru_order' \in [KeyHash -> Seq(RotKey)] /\ \A h \in KeyHash : ListOK(h)'
    BY <2>1, TouchKeepsLists
  <2>3. \A h \in KeyHash : BytesOK(h)'
    <3>1. \A h \in KeyHash : BytesOK(h)
      BY PerKeySet
    <3> QED BY <2>1, <3>1 DEF BytesOK, Count
  <2>4. TypeOK'
    BY <1>1, <2>2 DEF TypeOK, GetResidentKey, callVars
  <2>5. InUseResident' /\ Recoverable' /\ CallShape'
    BY <1>1 DEF GetResidentKey, MayFetch, InUseResident, Recoverable, CallShape, Idle, callVars
  <2> QED BY <2>2, <2>3, <2>4, <2>5, FromPerKeySet
<1>2. CASE BeginLoad(k)
  BY <1>2, SameResidency
  DEF BeginLoad, MayFetch, MayEvict, TypeOK, InUseResident, Recoverable, CallShape, Idle, cacheVars, useVars
<1>3. CASE LoadUnderHold(k)
  <2>1. k \in rot_keys \ resident /\ LoadKey(k) /\ Idle /\ UNCHANGED callVars
    BY <1>3 DEF LoadUnderHold, MayFetch
  <2>2. loading' = {} /\ UNCHANGED <<enforcing, offloading>>
    BY <2>1 DEF Idle, callVars
  <2>3. TypeOK' /\ AccountingExact' /\ LRUExact' /\ InUseResident' /\ Recoverable'
    BY <2>1, <2>2, LoadKeyKeepsStep
  <2>4. CallShape'
    BY <2>1 DEF CallShape, Idle, callVars
  <2> QED BY <2>3, <2>4
<1>4. CASE PinRotationKey(k) \/ UnpinRotationKey(k)
  BY <1>4, SameResidency
  DEF PinRotationKey, UnpinRotationKey, TypeOK, InUseResident, Recoverable, CallShape, Idle, useVars, callVars
<1>5. CASE KernelDone(k)
  BY <1>5, SameResidency
  DEF KernelDone, TypeOK, InUseResident, Recoverable, CallShape, Idle, cacheVars, callVars
<1> QED BY <1>1, <1>2, <1>3, <1>4, <1>5

\* The remaining calls.
LEMMA PlainCallKeepsInv ==
    ASSUME IInv,
           \/ BeginHoisted \/ Launch \/ FetchThrows
           \/ \E b \in Budgets : SetRotationKeyCache(b)
           \/ \E S \in SUBSET rot_keys : OffloadRotationKeys(S)
    PROVE  IInv'
<1> USE DEF IInv
<1>1. CASE BeginHoisted
  BY <1>1, SameResidency
  DEF BeginHoisted, Quiet, TypeOK, InUseResident, Recoverable, CallShape, Idle, cacheVars, callVars
<1>2. CASE Launch
  BY <1>2, SameResidency
  DEF Launch, TypeOK, InUseResident, Recoverable, CallShape, Idle, cacheVars, callVars
<1>3. CASE FetchThrows
  BY <1>3, SameResidency
  DEF FetchThrows, TypeOK, InUseResident, Recoverable, CallShape, Idle, cacheVars, callVars
<1>4. CASE \E b \in Budgets : SetRotationKeyCache(b)
  BY <1>4, SameResidency
  DEF SetRotationKeyCache, Quiet, TypeOK, InUseResident, Recoverable, CallShape, Idle, cacheVars, useVars
<1>5. CASE \E S \in SUBSET rot_keys : OffloadRotationKeys(S)
  BY <1>5, SameResidency
  DEF OffloadRotationKeys, Quiet, TypeOK, InUseResident, Recoverable, CallShape, Idle, cacheVars, useVars
<1> QED BY <1>1, <1>2, <1>3, <1>4, <1>5

\* The invariant is inductive.
LEMMA StepKeepsInv == IInv /\ [Next]_vars => IInv'
<1> SUFFICES ASSUME IInv, [Next]_vars PROVE IInv'
  OBVIOUS
<1>1. CASE LoopStep
  BY <1>1, LoopStepKeepsInv
<1>2. CASE UserStep
  <2>1. CASE \E k \in RotKey : AddNewKey(k) \/ AddKeyAgain(k)
    BY <2>1, RegisterKeepsInv
  <2>2. CASE \E k \in RotKey : \/ GetResidentKey(k) \/ BeginLoad(k) \/ LoadUnderHold(k)
                               \/ PinRotationKey(k) \/ UnpinRotationKey(k)
    BY <2>2, KeyCallKeepsInv
  <2>3. CASE \E h \in KeyHash : ClearAutomorphismKeys(h)
    BY <2>3, ClearKeepsInv
  <2>4. CASE OffloadRotationKeys(rot_keys) \/ \E k \in rot_keys : OffloadRotationKeys({k})
    <3>1. \E S \in SUBSET rot_keys : OffloadRotationKeys(S)
      BY <2>4
    <3> QED BY <3>1, PlainCallKeepsInv
  <2>5. CASE BeginHoisted \/ Launch \/ FetchThrows \/ \E b \in Budgets : SetRotationKeyCache(b)
    BY <2>5, PlainCallKeepsInv
  <2> QED BY <1>2, <2>1, <2>2, <2>3, <2>4, <2>5 DEF UserStep
<1>3. CASE DeviceStep
  BY <1>3, KeyCallKeepsInv DEF DeviceStep
<1>4. CASE UNCHANGED vars
  BY <1>4, SameResidency
  DEF IInv, TypeOK, InUseResident, Recoverable, CallShape, Idle, vars, cacheVars, useVars, callVars
<1> QED BY <1>1, <1>2, <1>3, <1>4 DEF Next

\* Hence it holds throughout.
LEMMA Invariance == Spec => []IInv
<1>1. Init => IInv
  BY InitInv
<1>2. IInv /\ [Next]_vars => IInv'
  BY StepKeepsInv
<1> QED BY <1>1, <1>2, PTL DEF Spec
-----------------------------------------------------------------------------
(* The theorems                                                            *)

\* Whatever the keys, budgets and calls: the accounting subtractions of
\* offloadKey never underflow and every variable keeps its type.
THEOREM TypeCorrect == Spec => []TypeOK
<1>1. IInv => TypeOK
  BY DEF IInv
<1> QED BY <1>1, Invariance, PTL

\* resident_bytes is exact up to the keys registered again.
THEOREM AccountingIsExact == Spec => []AccountingExact
<1>1. IInv => AccountingExact
  BY DEF IInv
<1> QED BY <1>1, Invariance, PTL

\* The LRU list holds each evictable key once and no key that is not resident.
THEOREM ListIsExact == Spec => []LRUExact
<1>1. IInv => LRUExact
  BY DEF IInv
<1> QED BY <1>1, Invariance, PTL

\* No key is taken off the device while an operation or a kernel uses it.
THEOREM InUseStaysResident == Spec => []InUseResident
<1>1. IInv => InUseResident
  BY DEF IInv
<1> QED BY <1>1, Invariance, PTL

\* What one step of a loop may take off the device.
LEMMA LoopTakesOff ==
    ASSUME IInv, LoopStep, NEW k \in resident \ resident'
    PROVE  /\ Offloadable(k) /\ resident' = resident \ {k} /\ inflight' = {}
           /\ fetched = {} /\ UNCHANGED <<rot_keys, has_snapshot, fetched>>
           /\ loading # {} \/ enforcing # {} => k \notin pinned
<1> USE DEF IInv
<1>1. ASSUME NEW h, EvictOne(h, KeyBytes) \/ EvictOne(h, 0)
      PROVE  Offloadable(k) /\ resident' = resident \ {k} /\ inflight' = {} /\ k \notin pinned
  <2>1. PICK j \in DOMAIN lru_order[h] : IsVictim(h, j) /\ OffloadKey(lru_order[h][j])
    BY <1>1 DEF EvictOne
  <2> QED BY <2>1 DEF IsVictim, OffloadKey, Drain
<1>2. CASE \E l \in RotKey : EvictForLoad(l)
  BY <1>1, <1>2 DEF EvictForLoad, CallShape, Idle
<1>3. CASE \E h \in KeyHash : EnforceBudget(h)
  BY <1>1, <1>3 DEF EnforceBudget, CallShape, Idle
<1>4. CASE \E l \in RotKey : OffloadNext(l)
  BY <1>4 DEF OffloadNext, OffloadKey, Drain, CallShape, Idle
<1>5. CASE \E l \in RotKey : FinishLoad(l)
  BY <1>5 DEF FinishLoad, LoadKey
<1>6. CASE \E h \in KeyHash : EnforceDone(h)
  BY <1>6 DEF EnforceDone, cacheVars
<1> QED BY <1>2, <1>3, <1>4, <1>5, <1>6 DEF LoopStep

\* Only a loop runs while a call is in one; the other calls wait, and the
\* device touches no VRAM.
LEMMA OthersWait ==
    ASSUME IInv, UserStep \/ DeviceStep \/ UNCHANGED vars,
           loading # {} \/ enforcing # {}
    PROVE  UNCHANGED <<resident, callVars, resident_bytes>>
<1>1. ~Idle /\ hold = 0 /\ fetched = {}
  BY DEF IInv, CallShape, Idle
<1>2. CASE UserStep
  BY <1>1, <1>2
  DEF UserStep, AddNewKey, AddKeyAgain, GetResidentKey, BeginLoad, LoadUnderHold,
      PinRotationKey, UnpinRotationKey, ClearAutomorphismKeys, BeginHoisted, Launch,
      FetchThrows, SetRotationKeyCache, OffloadRotationKeys, MayFetch, Quiet
<1>3. CASE DeviceStep
  BY <1>3 DEF DeviceStep, KernelDone, cacheVars, callVars
<1>4. CASE UNCHANGED vars
  BY <1>4 DEF vars, cacheVars
<1> QED BY <1>2, <1>3, <1>4

\* The eviction loop spares pinned keys and keys without a host copy.
THEOREM EvictionSparesPinnedAlways == Spec => EvictionSparesPinned
<1>1. ASSUME IInv, [Next]_vars, loading # {} \/ enforcing # {},
             NEW k \in resident \ resident'
      PROVE  k \notin pinned /\ k \in has_snapshot
  <2>1. CASE LoopStep
    BY <1>1, <2>1, LoopTakesOff DEF Offloadable
  <2>2. CASE UserStep \/ DeviceStep \/ UNCHANGED vars
    BY <1>1, <2>2, OthersWait
  <2> QED BY <1>1, <2>1, <2>2 DEF Next
<1>2. IInv /\ [Next]_vars =>
        [loading # {} \/ enforcing # {} =>
            \A k \in resident \ resident' : k \notin pinned /\ k \in has_snapshot]_vars
  BY <1>1
<1> QED BY <1>2, Invariance, PTL DEF Spec, EvictionSparesPinned

\* A load outside a hold, and a new budget, end within the budget unless the
\* keys that remain cannot be evicted.
THEOREM ShrinksToBudgetAlways == Spec => ShrinksToBudget
<1> DEFINE Ends(h) ==
             \/ h \in enforcing /\ h \notin enforcing'
             \/ loading # {} /\ loading' = {} /\ \E k \in loading : KeyIdOf[k] = h
           Fits(h) ==
             \/ resident_bytes'[h] <= budget
             \/ ResidentOf(h) \cap has_snapshot \subseteq pinned
<1>1. ASSUME IInv, [Next]_vars, NEW h \in KeyHash, Ends(h)
      PROVE  Fits(h)
  <2>1. loading # {} \/ enforcing # {}
    BY <1>1
  <2>2. CASE UserStep \/ DeviceStep \/ UNCHANGED vars
    <3>1. UNCHANGED callVars
      BY <1>1, <2>1, <2>2, OthersWait
    <3> QED BY <1>1, <3>1 DEF callVars
  <2>3. ASSUME NEW n \in Nat, EvictionOver(h, n)
        PROVE  resident_bytes[h] + n <= budget \/ ResidentOf(h) \cap has_snapshot \subseteq pinned
    <3>1. CASE ~OverBudget(h, n)
      <4>1. resident_bytes[h] \in Nat /\ budget \in Nat
        BY <1>1, CacheAssumption DEF IInv, TypeOK, CacheAssumption
      <4> QED BY <3>1, <4>1 DEF OverBudget
    <3>2. CASE \A j \in DOMAIN lru_order[h] : lru_order[h][j] \in pinned
      <4>1. Listed(h) \subseteq pinned
        BY <3>2 DEF Listed, Elems
      <4> QED BY <1>1, <4>1 DEF IInv, LRUExact
    <3> QED BY <2>3, <3>1, <3>2 DEF EvictionOver
  <2>4. CASE LoopStep
    <3>1. ASSUME NEW g \in KeyHash, EnforceDone(g)
          PROVE  Fits(h)
      <4>1. g = h
        BY <1>1, <3>1 DEF EnforceDone
      <4>2. resident_bytes[h] + 0 <= budget \/ ResidentOf(h) \cap has_snapshot \subseteq pinned
        BY <2>3, <3>1, <4>1 DEF EnforceDone
      <4>3. resident_bytes' = resident_bytes /\ resident_bytes[h] \in Nat
        BY <1>1, <3>1 DEF EnforceDone, cacheVars, IInv, TypeOK
      <4> QED BY <4>2, <4>3
    <3>2. ASSUME NEW k \in RotKey, FinishLoad(k)
          PROVE  Fits(h)
      <4>1. loading = {k} /\ enforcing = enforcing'
        BY <1>1, <3>2 DEF FinishLoad, IInv, CallShape
      <4>2. h = KeyIdOf[k]
        BY <1>1, <4>1
      <4>3. KeyBytes \in Nat
        BY CacheAssumption DEF CacheAssumption
      <4>4. resident_bytes[h] + KeyBytes <= budget
            \/ ResidentOf(h) \cap has_snapshot \subseteq pinned
        BY <2>3, <3>2, <4>2, <4>3 DEF FinishLoad
      <4>5. resident_bytes'[h] = resident_bytes[h] + KeyBytes
        BY <1>1, <3>2, <4>2 DEF FinishLoad, LoadKey, IInv, TypeOK
      <4> QED BY <4>4, <4>5
    <3>3. ASSUME NEW k \in RotKey, EvictForLoad(k) \/ OffloadNext(k)
          PROVE  Fits(h)
      BY <1>1, <3>3 DEF EvictForLoad, OffloadNext, callVars
    <3>4. ASSUME NEW g \in KeyHash, EnforceBudget(g)
          PROVE  Fits(h)
      BY <1>1, <3>4 DEF EnforceBudget, callVars
    <3> QED BY <2>4, <3>1, <3>2, <3>3, <3>4 DEF LoopStep
  <2> QED BY <1>1, <2>2, <2>4 DEF Next
<1>2. IInv /\ [Next]_vars => [\A h \in KeyHash : Ends(h) => Fits(h)]_vars
  BY <1>1
<1> QED BY <1>2, Invariance, PTL DEF Spec, ShrinksToBudget

\* Every step of a loop is a step of the abstract cache, or a stutter.
LEMMA LoopStepRefines == IInv /\ LoopStep => [Cache!Next]_(Cache!vars)
<1> SUFFICES ASSUME IInv, LoopStep PROVE [Cache!Next]_(Cache!vars)
  OBVIOUS
<1> USE DEF IInv
<1>1. ASSUME NEW k \in resident \ resident'
      PROVE  [Cache!Next]_(Cache!vars)
  <2>1. Cache!Evict
    BY <1>1, LoopTakesOff DEF Offloadable, Cache!Evict, Cache!MayLose, TypeOK
  <2> QED BY <2>1 DEF Cache!Next
<1>2. CASE resident \subseteq resident'
  <2>1. ASSUME NEW k \in RotKey, FinishLoad(k)
        PROVE  Cache!Fetch(k)
    BY <2>1 DEF FinishLoad, LoadKey, Cache!Fetch, Cache!MayLose, CallShape, Recoverable
  <2>2. ASSUME NEW v, OffloadKey(v)
        PROVE  UNCHANGED <<resident, inflight>>
    BY <1>2, <2>2 DEF OffloadKey, Offloadable
  <2>3. ASSUME NEW k \in RotKey, OffloadNext(k) \/ EvictForLoad(k)
        PROVE  UNCHANGED Cache!vars
    BY <2>2, <2>3 DEF OffloadNext, EvictForLoad, EvictOne, Cache!vars
  <2>4. ASSUME NEW h \in KeyHash, EnforceBudget(h) \/ EnforceDone(h)
        PROVE  UNCHANGED Cache!vars
    BY <2>2, <2>4
    DEF EnforceBudget, EvictOne, EnforceDone, Cache!vars, cacheVars, useVars
  <2> QED BY <2>1, <2>3, <2>4 DEF LoopStep, Cache!Next
<1> QED BY <1>1, <1>2

\* So is every call and every step of the device.
LEMMA CallRefines ==
    ASSUME IInv, UserStep \/ DeviceStep
    PROVE  [Cache!Next]_(Cache!vars)
<1> USE DEF IInv
<1>1. ASSUME NEW k \in RotKey, AddNewKey(k)
      PROVE  Cache!Register({k})
  BY <1>1 DEF AddNewKey, Cache!Register, useVars
<1>2. ASSUME NEW k \in RotKey, GetResidentKey(k)
      PROVE  Cache!Fetch(k)
  BY <1>2 DEF GetResidentKey, Cache!Fetch, Cache!MayLose
<1>3. ASSUME NEW k \in RotKey, LoadUnderHold(k)
      PROVE  Cache!Fetch(k)
  BY <1>3 DEF LoadUnderHold, LoadKey, Cache!Fetch, Cache!MayLose, Recoverable
<1>4. ASSUME NEW h \in KeyHash, ClearAutomorphismKeys(h)
      PROVE  Cache!Forget(KeysOf(h)) /\ KeysOf(h) \in SUBSET RotKey
  BY <1>4 DEF ClearAutomorphismKeys, Cache!Forget, Quiet, KeysOf, useVars
<1>5. Launch => Cache!Enqueue
  BY DEF Launch, Cache!Enqueue, cacheVars
<1>6. FetchThrows => Cache!GiveUp
  BY DEF FetchThrows, Cache!GiveUp, cacheVars
<1>7. ASSUME NEW k \in RotKey, KernelDone(k)
      PROVE  Cache!Complete
  BY <1>7 DEF KernelDone, Cache!Complete, cacheVars
<1>8. ASSUME NEW k \in RotKey,
             AddKeyAgain(k) \/ BeginLoad(k) \/ PinRotationKey(k) \/ UnpinRotationKey(k)
      PROVE  UNCHANGED Cache!vars
  BY <1>8 DEF AddKeyAgain, BeginLoad, PinRotationKey, UnpinRotationKey, Cache!vars,
              cacheVars, useVars
<1>9. ASSUME BeginHoisted \/ (\E b \in Budgets : SetRotationKeyCache(b))
             \/ (\E S : OffloadRotationKeys(S))
      PROVE  UNCHANGED Cache!vars
  BY <1>9 DEF BeginHoisted, SetRotationKeyCache, OffloadRotationKeys, Cache!vars,
              cacheVars, useVars
<1>10. CASE DeviceStep
  BY <1>7, <1>10 DEF DeviceStep, Cache!Next
<1>11. CASE UserStep
  BY <1>1, <1>2, <1>3, <1>4, <1>5, <1>6, <1>8, <1>9, <1>11 DEF UserStep, Cache!Next
<1> QED BY <1>10, <1>11

\* The rotation-key cache implements the abstract cache: whatever the budgets,
\* pins and holds, it only ever takes off the device what can come back, what
\* no operation holds and what no kernel reads.
THEOREM RefinesVramCache == Spec => ImplementsVramCache
<1>1. Init => Cache!Init
  BY DEF Init, Cache!Init
<1>2. IInv /\ [Next]_vars => [Cache!Next]_(Cache!vars)
  <2>1. UNCHANGED vars => UNCHANGED Cache!vars
    BY DEF vars, cacheVars, useVars, Cache!vars
  <2> QED BY <2>1, LoopStepRefines, CallRefines DEF Next
<1> QED BY <1>1, <1>2, Invariance, PTL DEF Spec, ImplementsVramCache, Cache!Spec
=============================================================================
