--------------------------- MODULE PlaintextCache ---------------------------
(***************************************************************************)
(* The plaintexts of the API (PlaintextImpl), their device copies, and the *)
(* cache that drops the latter under a VRAM budget (CryptoContextImpl).  A *)
(* dropped plaintext is built again from its host encoding.                *)
(*                                                                         *)
(* One host thread calls the API; the context is loaded on its devices.    *)
(* An operation takes a PlaintextCacheHold, loads and fetches plaintexts   *)
(* one by one, enqueues its kernels, and releases the hold, however it     *)
(* ends.                                                                   *)
(***************************************************************************)
EXTENDS Naturals, RecencyList

CONSTANTS Pt,      \* the PlaintextImpl objects
          Bytes,   \* Bytes[p]: limbBytes() of the device copy of p
          SizeMax, \* SIZE_MAX: no budget
          Budgets, \* the budgets callers set
          MaxArgs  \* bound: how many plaintexts an operation takes

ASSUME PlaintextAssumption ==
    /\ IsFiniteSet(Pt)
    /\ Bytes \in [Pt -> Nat]
    /\ SizeMax \in Nat /\ Budgets \subseteq Nat
    /\ MaxArgs \in Nat

VARIABLES objects,           \* the plaintexts that exist
          decoded,           \* those a Decrypt filled: no longer operands
          loaded,            \* those marked loaded
          device_plaintexts, \* those with a device copy
          cache,             \* the cache's bookkeeping, below
          budget,            \* plaintext_cache_bytes
          hold,              \* plaintext_cache_hold
          args,              \* what the operation under way has still to fetch
          held               \* those whose device pointer it has

objectVars == <<objects, decoded>>
vars == <<objectVars, loaded, device_plaintexts, cache, budget, hold, args, held>>

Idle == hold = 0

Init ==
    /\ objects = {} /\ decoded = {}
    /\ loaded = {} /\ device_plaintexts = {}
    /\ cache = [lru |-> <<>>, entries |-> {}, total |-> 0, pinned |-> {}]
    /\ budget \in Budgets
    /\ hold = 0 /\ args = <<>> /\ held = {}
-----------------------------------------------------------------------------
(* The bookkeeping, as functions of it.  (An operator whose comment says   *)
(* "faulty" is not part of the model: it is what the definition after it   *)
(* could have been, and breaks a property.)                                *)

TrackPlaintext(c, p) ==
    [c EXCEPT !.lru = ToFront(@, p), !.entries = @ \cup {p}, !.total = @ + Bytes[p]]

UntrackPlaintext(c, p) ==
    IF p \in c.entries
    THEN [c EXCEPT !.total = IF Bytes[p] > @ THEN 0 ELSE @ - Bytes[p],
                   !.lru = Unlink(@, p), !.pinned = @ \ {p}, !.entries = @ \ {p}]
    ELSE c

TouchPlaintext(c, p) == IF p \in c.entries THEN [c EXCEPT !.lru = ToFront(@, p)] ELSE c

\* What an eviction may drop.
Victims(c, protect) == c.entries \ (protect \cup c.pinned)

\* Faulty: an operation in progress does not defer evictions.
AlwaysEvicts(b, holds) == b # SizeMax

\* Evictions happen under a budget, and never while a hold is active.
Evicts(b, holds) == b # SizeMax /\ holds = 0

\* EnforcePlaintextBudget(protect) under budget b and so many holds: drop the
\* least recently used victims until the budget is met or none is left.
EnforcePlaintextBudget(c, protect, b, holds) ==
    LET visit(d, p) == IF d.total <= b \/ p \notin Victims(d, protect) THEN d
                       ELSE UntrackPlaintext(d, p)
    IN  IF Evicts(b, holds) THEN FoldLeft(visit, c, Reverse(c.lru)) ELSE c

\* Faulty: the plaintexts dropped are still marked loaded.
BecomesStillMarked(c) ==
    /\ cache' = c
    /\ device_plaintexts' = (device_plaintexts \ cache.entries) \cup c.entries
    /\ loaded' = loaded \cup c.entries

\* The cache becomes c.  A plaintext whose entry goes loses its device copy and
\* its `loaded' mark in the same call (OffloadPlaintextHandle).
Becomes(c) ==
    /\ cache' = c
    /\ device_plaintexts' = (device_plaintexts \ cache.entries) \cup c.entries
    /\ loaded' = (loaded \ cache.entries) \cup c.entries
-----------------------------------------------------------------------------
(* Loading and fetching                                                    *)

\* The cache after LoadPlaintext(p)
Loaded(c, p, holds) ==
    IF p \in loaded THEN c
    ELSE EnforcePlaintextBudget(TrackPlaintext(c, p), {p}, budget, holds)

MakePlaintext(p) ==
    /\ Idle /\ p \notin objects
    /\ objects' = objects \cup {p}
    /\ UNCHANGED <<decoded, loaded, device_plaintexts, cache, budget, hold, args, held>>

LoadPlaintext(p) ==
    /\ Idle /\ p \in objects \ decoded
    /\ Becomes(Loaded(cache, p, hold))
    /\ UNCHANGED <<objectVars, budget, hold, args, held>>

\* Faulty: the device copy outlives its plaintext.
DestroyLeaking(p) ==
    /\ Idle /\ p \in objects
    /\ objects' = objects \ {p} /\ decoded' = decoded \ {p}
    /\ UNCHANGED <<loaded, device_plaintexts, cache, budget, hold, args, held>>

\* ~PlaintextImpl
Destroy(p) ==
    /\ Idle /\ p \in objects
    /\ objects' = objects \ {p} /\ decoded' = decoded \ {p}
    /\ Becomes(UntrackPlaintext(cache, p))
    /\ UNCHANGED <<budget, hold, args, held>>

\* Decrypt into p.  (Into a plaintext that is loaded it throws, and changes
\* nothing: the test of `devices' before the eviction is the wrong way round.)
DecryptInto(p) ==
    /\ Idle /\ p \in objects \ loaded
    /\ decoded' = decoded \cup {p}
    /\ UNCHANGED <<objects, loaded, device_plaintexts, cache, budget, hold, args, held>>
-----------------------------------------------------------------------------
(* The cache's own calls                                                   *)

SetPlaintextCache(b) ==
    /\ Idle
    /\ budget' = b
    /\ Becomes(EnforcePlaintextBudget(cache, {}, b, 0))
    /\ UNCHANGED <<objectVars, hold, args, held>>

OffloadPlaintexts ==
    /\ Idle
    /\ Becomes(FoldLeft(UntrackPlaintext, cache, SetToSeq(cache.entries \ cache.pinned)))
    /\ UNCHANGED <<objectVars, budget, hold, args, held>>

\* Faulty: wait for the next load.
NotEnforced(c) == c

\* What the end of a hold does: the destructor of PlaintextCacheHold.
Released(c) == EnforcePlaintextBudget(c, {}, budget, 0)

PinPlaintext(p) ==
    /\ Idle /\ p \in objects \ decoded
    /\ LET c == Loaded(cache, p, 1)
       IN  Becomes(Released([c EXCEPT !.pinned = @ \cup {p}]))
    /\ UNCHANGED <<objectVars, budget, hold, args, held>>

UnpinPlaintext(p) ==
    /\ Idle /\ p \in loaded
    /\ Becomes(Released([cache EXCEPT !.pinned = @ \ {p}]))
    /\ UNCHANGED <<objectVars, budget, hold, args, held>>
-----------------------------------------------------------------------------
(* Operations                                                              *)

\* EvalAdd, EvalMult, ConvolutionTransformInPlace, ... of the plaintexts ps
BeginOperation(ps) ==
    /\ Idle
    /\ hold' = 1 /\ args' = ps
    /\ UNCHANGED <<objectVars, loaded, device_plaintexts, cache, budget, held>>

\* LoadPlaintext, then GetDevicePlaintext
LoadAndFetch ==
    /\ args # <<>>
    /\ Becomes(TouchPlaintext(Loaded(cache, Head(args), hold), Head(args)))
    /\ held' = held \cup {Head(args)}
    /\ args' = Tail(args)
    /\ UNCHANGED <<objectVars, budget, hold>>

\* The kernels are enqueued, or the operation throws: in both cases the hold
\* goes, and the budget is enforced.
EndOperation ==
    /\ hold = 1
    /\ hold' = 0 /\ args' = <<>> /\ held' = {}
    /\ Becomes(Released(cache))
    /\ UNCHANGED <<objectVars, budget>>

ArgLists == UNION {[1..n -> objects \ decoded] : n \in 1..MaxArgs}

Next ==
    \/ \E p \in Pt :
          \/ MakePlaintext(p) \/ LoadPlaintext(p) \/ Destroy(p) \/ DecryptInto(p)
          \/ PinPlaintext(p) \/ UnpinPlaintext(p)
    \/ \E b \in Budgets : SetPlaintextCache(b)
    \/ \E ps \in ArgLists : BeginOperation(ps)
    \/ OffloadPlaintexts \/ LoadAndFetch \/ EndOperation

Spec == Init /\ [][Next]_vars
-----------------------------------------------------------------------------
(* Properties                                                              *)

\* The registry, the entries, the recency list, the byte count and the marks
\* on the plaintexts all tell of the same device copies; only these are pinned,
\* and none outlives its plaintext.
RegistryExact ==
    /\ loaded \subseteq objects
    /\ loaded = device_plaintexts /\ cache.entries = device_plaintexts
    /\ Elems(cache.lru) = cache.entries /\ Distinct(cache.lru)
    /\ cache.total = FoldSet(LAMBDA p, n : Bytes[p] + n, 0, cache.entries)
    /\ cache.pinned \subseteq cache.entries

\* An operation's device pointers stay good until its kernels are enqueued.
HeldAlive == held \subseteq device_plaintexts

\* Between operations a budget that is set is met, but for pinned plaintexts and
\* for one plaintext just loaded.
BudgetSoftByOne ==
    hold = 0 => \/ budget = SizeMax \/ cache.total <= budget
                \/ Cardinality(cache.entries \ cache.pinned) <= 1

\* Enforcing the budget takes neither too little nor too much: every step that ends
\* outside an operation meets the budget, and a pin ends only with an unpin or with the
\* plaintext (EnforcePlaintextBudget).
EvictionExact ==
    [][/\ BudgetSoftByOne'
       /\ \A p \in cache.pinned \ cache'.pinned : UnpinPlaintext(p) \/ Destroy(p)]_vars
=============================================================================
