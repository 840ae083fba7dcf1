-------------------------- MODULE RotationKeyCache --------------------------
(***************************************************************************)
(* The rotation-key VRAM cache of one GPU context (ContextData and         *)
(* Precomputations::KeyPrecomputations in Context.cuh / Context.cu, the    *)
(* snapshot half of KeySwitchingKey).                                      *)
(*                                                                         *)
(* A key set (one KeyHash) keeps its rotation keys, the bytes of those     *)
(* that are resident, an LRU list and a set of pinned keys.  One host      *)
(* thread drives the context, so a call runs to its end before the next;   *)
(* the loops of a call (the eviction loop, the per-key-set and per-key     *)
(* loops) are taken one iteration at a time.  The device runs kernels      *)
(* asynchronously: `inflight' holds the keys that enqueued kernels still   *)
(* read, `fetched' those whose consuming kernel is not even enqueued yet.  *)
(***************************************************************************)
EXTENDS Naturals, RecencyList

CONSTANTS RotKey,    \* the rotation keys, one per (KeyHash, index)
          KeyHash,   \* the key sets
          KeyIdOf,   \* KeyIdOf[k]: the key set of k
          KeyBytes,  \* limbBytes() of a key: the context's shape alone decides it
          SizeMax,   \* SIZE_MAX: no budget
          Budgets,   \* the budgets callers set, SizeMax among them or not
          MaxReAdds  \* bound: how often callers register an index a key set holds

ASSUME CacheAssumption ==
    /\ KeyIdOf \in [RotKey -> KeyHash]
    /\ IsFiniteSet(RotKey)
    /\ KeyBytes \in Nat \ {0}
    /\ SizeMax \in Nat
    /\ Budgets \subseteq Nat
    /\ MaxReAdds \in Nat

VARIABLES rot_keys,       \* the keys registered
          resident,       \* those whose limbs are in VRAM
          has_snapshot,   \* those that keep a host copy
          resident_bytes, \* the accounting, per key set
          readds,         \* history: resident keys registered again, per key set
          lru_order,      \* the LRU list, per key set: front = most recently used
          pinned,         \* the pinned keys
          budget,         \* rotation_key_cache_bytes
          hold,           \* rotation_key_eviction_hold
          fetched,        \* keys the running operation has a reference to
          inflight,       \* keys that enqueued kernels read
          loading,        \* ensureResident(k) in its eviction loop: {k}, else {}
          enforcing,      \* key sets SetRotationKeyCache has still to shrink
          offloading      \* keys OffloadRotationKeys has still to visit

cacheVars == <<rot_keys, resident, has_snapshot, resident_bytes, readds,
               lru_order, pinned>>
useVars   == <<hold, fetched, inflight>>
callVars  == <<loading, enforcing, offloading>>
vars      == <<cacheVars, budget, useVars, callVars>>

KeysOf(h) == {k \in RotKey : KeyIdOf[k] = h}
ResidentOf(h) == {k \in resident : KeyIdOf[k] = h}

\* rotationKeysLazy(): a key created now keeps a snapshot and stays out of VRAM.
Lazy == budget # SizeMax

\* No call is in one of its loops.
Idle == loading = {} /\ enforcing = {} /\ offloading = {}
\* No operation is under way: the caller may call anything.
Quiet == Idle /\ hold = 0 /\ fetched = {}

Init ==
    /\ rot_keys = {} /\ resident = {} /\ has_snapshot = {} /\ pinned = {}
    /\ resident_bytes = [h \in KeyHash |-> 0]
    /\ readds = [h \in KeyHash |-> 0]
    /\ lru_order = [h \in KeyHash |-> <<>>]
    /\ budget \in Budgets
    /\ hold = 0 /\ fetched = {} /\ inflight = {}
    /\ loading = {} /\ enforcing = {} /\ offloading = {}
-----------------------------------------------------------------------------
(* The steps every call is made of.  (An operator whose comment says       *)
(* "faulty" is not part of the model: it is what the definition after it   *)
(* could have been, and breaks a property.)                                *)

\* touch(k): k moves, or enters, at the front of its key set's list.
Touched(k) == [lru_order EXCEPT ![KeyIdOf[k]] = ToFront(@, k)]

\* Faulty: no test that k is resident.
OffloadableAnyway(k) == k \in has_snapshot

\* What offloadKey tests first: k is resident and has a host copy.
Offloadable(k) == k \in resident /\ k \in has_snapshot

\* Faulty: rely on the stream order of the frees.
NoDrain == UNCHANGED inflight

\* KeySwitchingKey::offload drains every device of the context.
Drain == inflight' = {}

\* offloadKey(k): free the limbs, account, unlink; it returns false and does
\* nothing when k is not offloadable.
OffloadKey(k) ==
    IF Offloadable(k)
    THEN /\ Drain
         /\ resident' = resident \ {k}
         /\ resident_bytes' = [resident_bytes EXCEPT ![KeyIdOf[k]] = @ - KeyBytes]
         /\ lru_order' = [lru_order EXCEPT ![KeyIdOf[k]] = Unlink(@, k)]
    ELSE UNCHANGED <<resident, resident_bytes, lru_order, inflight>>

\* Faulty: the key about to be loaded is not counted.
OverBudgetWithoutIncoming(h, incoming) == resident_bytes[h] > budget

\* The guard of evictToFit's loop.
OverBudget(h, incoming) == resident_bytes[h] + incoming > budget

\* Faulty: pins are not looked at.
IsVictimIgnoringPins(h, j) == j = Len(lru_order[h]) /\ j > 0

\* Position j of h's list holds the victim: the least recently used key that
\* is not pinned.
IsVictim(h, j) ==
    /\ j \in DOMAIN lru_order[h]
    /\ lru_order[h][j] \notin pinned
    /\ \A i \in DOMAIN lru_order[h] : i > j => lru_order[h][i] \in pinned

\* Faulty: never give up.
EvictionOverOnceFitting(h, incoming) == ~OverBudget(h, incoming)

\* evictToFit stops: the budget holds, or nothing in the list is unpinned.
EvictionOver(h, incoming) ==
    \/ ~OverBudget(h, incoming)
    \/ \A j \in DOMAIN lru_order[h] : lru_order[h][j] \in pinned

\* One iteration of evictToFit.  It counts as progress whatever offloadKey
\* returned.
EvictOne(h, incoming) ==
    /\ OverBudget(h, incoming)
    /\ \E j \in DOMAIN lru_order[h] : IsVictim(h, j) /\ OffloadKey(lru_order[h][j])

\* The rest of ensureResident(k): upload from the snapshot, account, touch.
LoadKey(k) ==
    /\ resident' = resident \cup {k}
    /\ resident_bytes' = [resident_bytes EXCEPT ![KeyIdOf[k]] = @ + KeyBytes]
    /\ lru_order' = Touched(k)
    /\ fetched' = fetched \cup {k}
    /\ UNCHANGED <<rot_keys, has_snapshot, readds, pinned, budget, hold, inflight>>
-----------------------------------------------------------------------------
(* Registering and clearing keys                                           *)

\* KeySwitchingKey::Initialize(rkk, rotationKeysLazy()) then AddRotationKey:
\* a new key starts offloaded under a budget, resident for good without one.
AddNewKey(k) ==
    /\ Quiet
    /\ k \notin rot_keys
    /\ rot_keys' = rot_keys \cup {k}
    /\ IF Lazy
       THEN /\ has_snapshot' = has_snapshot \cup {k}
            /\ UNCHANGED <<resident, resident_bytes>>
       ELSE /\ resident' = resident \cup {k}
            /\ resident_bytes' = [resident_bytes EXCEPT ![KeyIdOf[k]] = @ + KeyBytes]
            /\ UNCHANGED has_snapshot
    /\ UNCHANGED <<readds, lru_order, pinned, budget, useVars, callVars>>

\* AddRotationKey for an index the key set holds: emplace keeps the old key
\* and registerKey accounts it again.
AddKeyAgain(k) ==
    /\ Quiet
    /\ k \in rot_keys
    /\ k \in resident
    /\ readds[KeyIdOf[k]] < MaxReAdds
    /\ readds' = [readds EXCEPT ![KeyIdOf[k]] = @ + 1]
    /\ resident_bytes' = [resident_bytes EXCEPT ![KeyIdOf[k]] = @ + KeyBytes]
    /\ UNCHANGED <<rot_keys, resident, has_snapshot, lru_order, pinned,
                   budget, useVars, callVars>>

\* Faulty: the byte count survives.
ResetListsOnly(h) ==
    /\ pinned' = pinned \ KeysOf(h)
    /\ lru_order' = [lru_order EXCEPT ![h] = <<>>]
    /\ UNCHANGED <<resident_bytes, readds>>

ResetCacheBookkeeping(h) ==
    /\ pinned' = pinned \ KeysOf(h)
    /\ lru_order' = [lru_order EXCEPT ![h] = <<>>]
    /\ resident_bytes' = [resident_bytes EXCEPT ![h] = 0]
    /\ readds' = [readds EXCEPT ![h] = 0]

\* clearAutomorphismKeys(h).  Its callers have read every result back to the
\* host, so no kernel is in flight.
ClearAutomorphismKeys(h) ==
    /\ Quiet
    /\ inflight = {}
    /\ rot_keys' = rot_keys \ KeysOf(h)
    /\ resident' = resident \ KeysOf(h)
    /\ has_snapshot' = has_snapshot \ KeysOf(h)
    /\ ResetCacheBookkeeping(h)
    /\ UNCHANGED <<budget, useVars, callVars>>
-----------------------------------------------------------------------------
(* Fetching keys for an operation                                          *)

\* A fused hoisted rotation opens a RotationKeyEvictionHold.
BeginHoisted ==
    /\ Quiet
    /\ hold' = 1
    /\ UNCHANGED <<cacheVars, budget, fetched, inflight, callVars>>

\* Faulty: the hold is not looked at.
MayAlwaysEvict == TRUE

\* The may_evict argument of ensureResident.
MayEvict == hold = 0

\* Outside a hold an operation fetches one key and enqueues its kernel before
\* it fetches another.
MayFetch == Idle /\ (hold = 0 => fetched = {})

\* GetRotationKey finds k resident.
GetResidentKey(k) ==
    /\ MayFetch
    /\ k \in rot_keys
    /\ k \in resident
    /\ lru_order' = Touched(k)
    /\ fetched' = fetched \cup {k}
    /\ UNCHANGED <<rot_keys, resident, has_snapshot, resident_bytes, readds,
                   pinned, budget, hold, inflight, callVars>>

\* GetRotationKey finds k offloaded and may evict: it enters the loop.
BeginLoad(k) ==
    /\ MayFetch
    /\ k \in rot_keys \ resident
    /\ MayEvict
    /\ loading' = {k}
    /\ UNCHANGED <<cacheVars, budget, useVars, enforcing, offloading>>

EvictForLoad(k) ==
    /\ k \in loading
    /\ EvictOne(KeyIdOf[k], KeyBytes)
    /\ UNCHANGED <<rot_keys, has_snapshot, readds, pinned, budget, hold, fetched, callVars>>

FinishLoad(k) ==
    /\ k \in loading
    /\ EvictionOver(KeyIdOf[k], KeyBytes)
    /\ LoadKey(k)
    /\ loading' = {}
    /\ UNCHANGED <<enforcing, offloading>>

\* GetRotationKey finds k offloaded under a hold: it loads without evicting.
LoadUnderHold(k) ==
    /\ MayFetch
    /\ k \in rot_keys \ resident
    /\ ~MayEvict
    /\ LoadKey(k)
    /\ UNCHANGED callVars

\* The operation enqueues the kernels that read the keys it fetched; the hold
\* ends with its scope.
Launch ==
    /\ Idle
    /\ fetched # {} \/ hold > 0
    /\ inflight' = inflight \cup fetched
    /\ fetched' = {}
    /\ hold' = 0
    /\ UNCHANGED <<cacheVars, budget, callVars>>

\* GetRotationKey throws (no such key): the scope unwinds, nothing is enqueued.
FetchThrows ==
    /\ Idle
    /\ hold > 0
    /\ rot_keys # RotKey
    /\ hold' = 0
    /\ fetched' = {}
    /\ UNCHANGED <<cacheVars, budget, inflight, callVars>>

\* The device finishes with a key.
KernelDone(k) ==
    /\ k \in inflight
    /\ inflight' = inflight \ {k}
    /\ UNCHANGED <<cacheVars, budget, hold, fetched, callVars>>
-----------------------------------------------------------------------------
(* Budget, manual offload, pins                                            *)

SetRotationKeyCache(b) ==
    /\ Quiet
    /\ budget' = b
    /\ enforcing' = KeyHash
    /\ UNCHANGED <<cacheVars, useVars, loading, offloading>>

EnforceBudget(h) ==
    /\ h \in enforcing
    /\ EvictOne(h, 0)
    /\ UNCHANGED <<rot_keys, has_snapshot, readds, pinned, budget, hold, fetched, callVars>>

EnforceDone(h) ==
    /\ h \in enforcing
    /\ EvictionOver(h, 0)
    /\ enforcing' = enforcing \ {h}
    /\ UNCHANGED <<cacheVars, budget, useVars, loading, offloading>>

\* OffloadRotationKeys: `indexes' and `keyID' select keys.
OffloadRotationKeys(S) ==
    /\ Quiet
    /\ S # {}
    /\ offloading' = S
    /\ UNCHANGED <<cacheVars, budget, useVars, loading, enforcing>>

OffloadNext(k) ==
    /\ k \in offloading
    /\ OffloadKey(k)
    /\ offloading' = offloading \ {k}
    /\ UNCHANGED <<rot_keys, has_snapshot, readds, pinned, budget, hold, fetched,
                   loading, enforcing>>

PinRotationKey(k) ==
    /\ Quiet
    /\ k \in rot_keys
    /\ pinned' = pinned \cup {k}
    /\ UNCHANGED <<rot_keys, resident, has_snapshot, resident_bytes, readds,
                   lru_order, budget, useVars, callVars>>

UnpinRotationKey(k) ==
    /\ Quiet
    /\ k \in rot_keys
    /\ pinned' = pinned \ {k}
    /\ UNCHANGED <<rot_keys, resident, has_snapshot, resident_bytes, readds,
                   lru_order, budget, useVars, callVars>>
-----------------------------------------------------------------------------
\* The steps of a call that is in one of its loops.
LoopStep ==
    \/ \E k \in RotKey : EvictForLoad(k) \/ FinishLoad(k) \/ OffloadNext(k)
    \/ \E h \in KeyHash : EnforceBudget(h) \/ EnforceDone(h)

UserStep ==
    \/ \E k \in RotKey :
          \/ AddNewKey(k) \/ AddKeyAgain(k)
          \/ GetResidentKey(k) \/ BeginLoad(k) \/ LoadUnderHold(k)
          \/ PinRotationKey(k) \/ UnpinRotationKey(k)
    \/ \E h \in KeyHash : ClearAutomorphismKeys(h)
    \/ BeginHoisted \/ Launch \/ FetchThrows
    \/ \E b \in Budgets : SetRotationKeyCache(b)
    \/ OffloadRotationKeys(rot_keys)
    \/ \E k \in rot_keys : OffloadRotationKeys({k})

DeviceStep == \E k \in RotKey : KernelDone(k)

Next == LoopStep \/ UserStep \/ DeviceStep

\* The host thread executes the loop it is in; callers and the device owe
\* nothing.
Spec == Init /\ [][Next]_vars /\ WF_vars(LoopStep)
-----------------------------------------------------------------------------
(* Properties                                                              *)

Listed(h) == Elems(lru_order[h])

\* Every variable has its type; in particular the subtractions of offloadKey
\* never take resident_bytes (a size_t) below zero.
TypeOK ==
    /\ rot_keys \subseteq RotKey
    /\ resident \subseteq rot_keys /\ has_snapshot \subseteq rot_keys
    /\ pinned \subseteq rot_keys
    /\ resident_bytes \in [KeyHash -> Nat]
    /\ readds \in [KeyHash -> 0..MaxReAdds]
    /\ lru_order \in [KeyHash -> Seq(RotKey)]
    /\ budget \in Budgets
    /\ hold \in {0, 1}
    /\ fetched \subseteq RotKey /\ inflight \subseteq RotKey
    /\ loading \subseteq RotKey /\ enforcing \subseteq KeyHash
    /\ offloading \subseteq RotKey

\* resident_bytes (what evictToFit compares with the budget) is the VRAM the
\* key set's resident keys hold, plus one key for each resident key that
\* AddRotationKey registered again: loads, evictions, manual offloads and
\* clears all keep it in step.
AccountingExact ==
    \A h \in KeyHash :
        resident_bytes[h] = KeyBytes * (Cardinality(ResidentOf(h)) + readds[h])

\* The LRU list holds resident keys of its key set, each once, and none that
\* could be evicted is missing from it (evictToFit would never find it).
LRUExact ==
    \A h \in KeyHash :
        /\ Distinct(lru_order[h])
        /\ Listed(h) \subseteq ResidentOf(h)
        /\ ResidentOf(h) \cap has_snapshot \subseteq Listed(h)

\* No key leaves VRAM while an operation holds a reference to it (the eviction
\* hold) or a kernel already enqueued reads it (the drain in offload).
InUseResident == fetched \cup inflight \subseteq resident

\* The eviction loop (of a load or of a new budget) takes neither a pinned
\* key nor one that has no host copy to come back from.
EvictionSparesPinned ==
    [][loading # {} \/ enforcing # {} =>
          \A k \in resident \ resident' : k \notin pinned /\ k \in has_snapshot]_vars

\* A load outside a hold, and a new budget, end within the budget, or else
\* every other resident key of the set is pinned or has no host copy: the
\* overshoot a hoisted rotation leaves behind is gone after the next load.
ShrinksToBudget ==
    [][\A h \in KeyHash :
          \/ h \in enforcing /\ h \notin enforcing'
          \/ loading # {} /\ loading' = {} /\ \E k \in loading : KeyIdOf[k] = h
          => \/ resident_bytes'[h] <= budget
             \/ ResidentOf(h) \cap has_snapshot \subseteq pinned]_vars

\* Every call that enters one of the cache's loops returns.
CallsReturn == ~Idle ~> Idle

\* The keys the eviction loop may pick can really be offloaded.
ListedKeysOffloadable == \A h \in KeyHash : Listed(h) \subseteq has_snapshot

\* Seen from outside the cache is a VramCache: recency, budgets, pins and holds
\* only choose among the evictions that one allows.
Cache == INSTANCE VramCache WITH
            Item <- RotKey, known <- rot_keys, backed <- has_snapshot,
            onDevice <- resident, wanted <- fetched, reading <- inflight
ImplementsVramCache == Cache!Spec

\* As long as no key without a host copy has entered the LRU list, every call
\* returns: the loop of evictToFit shrinks the list each time round.
CallsReturnWhenOffloadable == []ListedKeysOffloadable => CallsReturn
=============================================================================
