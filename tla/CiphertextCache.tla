--------------------------- MODULE CiphertextCache ---------------------------
(***************************************************************************)
(* The ciphertexts of the API: the handles callers hold (CiphertextImpl),  *)
(* the host payload of each, which copies share until one writes to it,    *)
(* the device ciphertext of a loaded handle, and the cache that parks      *)
(* device ciphertexts in host RAM under a VRAM budget (CryptoContextImpl). *)
(*                                                                         *)
(* One host thread calls the API.  An operation is a script of the calls   *)
(* it makes on the cache, taken one at a time, and ends with its kernels.  *)
(* The context is loaded on its devices throughout.                        *)
(***************************************************************************)
EXTENDS Naturals, RecencyList

CONSTANTS Handle,  \* the CiphertextImpl objects
          Val,     \* what a ciphertext can hold
          NoVal,   \* the content of an object that does not exist
          SizeMax, \* SIZE_MAX: no budget
          Budgets  \* the budgets callers set

ASSUME CiphertextAssumption ==
    /\ IsFiniteSet(Handle)
    /\ NoVal \notin Val
    /\ SizeMax \in Nat /\ Budgets \subseteq Nat

VARIABLES objects, \* the handles that exist
          copied,  \* history: those the copy constructor made
          value,   \* history: what each should hold
          host,    \* host[h]: what the host payload of h holds
          sharers, \* sharers[h]: the handles with the same payload as h
          lazy,    \* need_lazy_copy
          loaded,  \* loaded, and gpu # 0: registered in device_ciphertexts
          device,  \* device[h]: what the device ciphertext, or its snapshot, holds
          cache,   \* the cache's fields and the state of the device ciphertexts, below
          budget,  \* ciphertext_cache_bytes
          op       \* the operation under way

hostVars == <<copied, value, host, sharers, lazy>>
vars == <<objects, hostVars, loaded, device, cache, budget, op>>

\* The shape of a device ciphertext: it owns no special limbs, or a key
\* switch has left it some, or it is in the extended basis (isModUp).
Shape == {"plain", "grown", "extended"}

NoOp == [todo |-> <<>>, writes |-> {}, makes |-> {}, held |-> {}]
Idle == op = NoOp

Init ==
    /\ objects = {} /\ copied = {} /\ lazy = {} /\ loaded = {}
    /\ value = [h \in Handle |-> NoVal] /\ host = value /\ device = value
    /\ sharers = [h \in Handle |-> {}]
    /\ cache = [lru      |-> <<>>,  \* ciphertext_lru
                resident |-> {},    \* the entries that say resident
                bytes    |-> [h \in Handle |-> 0], \* of the resident entries; the others' are never read
                total    |-> 0,     \* ciphertext_resident_bytes
                pinned   |-> {},    \* ciphertext_pinned
                offloaded |-> {},   \* device ciphertexts whose limbs are a host snapshot
                shape    |-> [h \in Handle |-> "plain"]]
    /\ budget \in Budgets
    /\ op = NoOp
-----------------------------------------------------------------------------
(* The steps the calls are made of, as functions of the cache.  (An        *)
(* operator whose comment says "faulty" is not part of the model: it is    *)
(* what the definition after it could have been, and breaks a property.)   *)

\* limbBytes() of the device ciphertext of h
LimbBytes(c, h) == IF c.shape[h] = "plain" THEN 1 ELSE 2

\* a - std::min(b, a)
Less(a, b) == IF b > a THEN 0 ELSE a - b

TrackCiphertext(c, h) ==
    [c EXCEPT !.lru = ToFront(@, h), !.resident = @ \cup {h},
              !.bytes[h] = LimbBytes(c, h), !.total = @ + LimbBytes(c, h)]

\* Faulty: the entry's bytes are not given back first.
TouchAddingTwice(c, h) ==
    [c EXCEPT !.lru = ToFront(@, h), !.resident = @ \cup {h},
              !.total = @ + LimbBytes(c, h), !.bytes[h] = LimbBytes(c, h)]

TouchCiphertext(c, h) ==
    [c EXCEPT !.lru = ToFront(@, h), !.resident = @ \cup {h},
              !.total = (IF h \in c.resident THEN Less(@, c.bytes[h]) ELSE @) + LimbBytes(c, h),
              !.bytes[h] = LimbBytes(c, h)]

MarkCiphertextOffloaded(c, h) ==
    IF h \in c.resident
    THEN [c EXCEPT !.total = Less(@, c.bytes[h]), !.lru = Unlink(@, h),
                   !.resident = @ \ {h}, !.bytes[h] = 0]
    ELSE c

\* Faulty: the pin outlives the device copy it was tied to.
UntrackKeepingPin(c, h) ==
    [MarkCiphertextOffloaded(c, h) EXCEPT !.offloaded = @ \ {h}, !.shape[h] = "plain"]

UntrackCiphertext(c, h) ==
    [MarkCiphertextOffloaded(c, h) EXCEPT !.pinned = @ \ {h}, !.offloaded = @ \ {h},
                                          !.shape[h] = "plain"]

\* Ciphertext::offload: the limbs go, the snapshot keeps what they held.
Offload(c, h) == [c EXCEPT !.offloaded = @ \cup {h}, !.shape[h] = "plain"]

OffloadCiphertextForCache(c, h) ==
    IF h \notin c.resident \/ c.shape[h] = "extended" THEN c
    ELSE MarkCiphertextOffloaded(Offload(c, h), h)

\* What an eviction passes over.
Spared(c, h, protect) == h \in protect \cup c.pinned

\* Faulty: give up at the first entry that has to stay.
EnforceUntilSpared(c, b, protect) ==
    LET visit(d, h) ==
            IF d.total <= b \/ Spared(d, d.lru[Len(d.lru)], protect) THEN d
            ELSE OffloadCiphertextForCache(d, h)
    IN  IF b = SizeMax THEN c ELSE FoldLeft(visit, c, Reverse(c.lru))

\* EnforceCiphertextBudget(protect) under budget b: one pass over the entries,
\* the least recently used first.
EnforceCiphertextBudget(c, b, protect) ==
    LET visit(d, h) ==
            IF d.total <= b \/ Spared(d, h, protect) THEN d
            ELSE OffloadCiphertextForCache(d, h)
    IN  IF b = SizeMax THEN c ELSE FoldLeft(visit, c, Reverse(c.lru))

ReloadCiphertext(c, h) ==
    IF h \in c.offloaded THEN TouchCiphertext([c EXCEPT !.offloaded = @ \ {h}], h) ELSE c

\* GetDeviceCiphertext: reload if parked, then touch.
GetDeviceCiphertext(c, h) == TouchCiphertext([c EXCEPT !.offloaded = @ \ {h}], h)

\* Faulty: registering is an eviction point.
RegisterEnforcing(c, h, sh) ==
    EnforceCiphertextBudget(TrackCiphertext([c EXCEPT !.shape[h] = sh], h), budget, {h})

\* RegisterDeviceCiphertext of a new device ciphertext of the given shape
RegisterDeviceCiphertext(c, h, sh) == TrackCiphertext([c EXCEPT !.shape[h] = sh], h)
-----------------------------------------------------------------------------
(* LoadCiphertext, and the copy constructor                                *)

LoadCiphertext(h) ==
    /\ IF h \in loaded
       THEN /\ cache' = EnforceCiphertextBudget(ReloadCiphertext(cache, h), budget, {h})
            /\ UNCHANGED <<loaded, device>>
       ELSE /\ LET c == RegisterDeviceCiphertext(cache, h, "plain")
               IN  cache' = EnforceCiphertextBudget(GetDeviceCiphertext(c, h), budget, {h})
            /\ loaded' = loaded \cup {h}
            /\ device' = [device EXCEPT ![h] = host[h]]
    /\ UNCHANGED <<objects, hostVars>>

\* r becomes a copy of s: it shares the host payload of s, and gets a device
\* ciphertext of its own if s has one.
Copy(s, r) ==
    /\ objects' = objects \cup {r} /\ copied' = copied \cup {r}
    /\ lazy' = lazy \cup {r}
    /\ value' = [value EXCEPT ![r] = value[s]]
    /\ host' = [host EXCEPT ![r] = host[s]]
    /\ sharers' = [g \in Handle |-> IF g \in sharers[s] \cup {r} THEN sharers[s] \cup {r}
                                    ELSE sharers[g]]
    /\ IF s \in loaded
       THEN LET c == GetDeviceCiphertext(cache, s)
                sh == IF c.shape[s] = "extended" THEN "extended" ELSE "plain"
            IN  /\ cache' = RegisterDeviceCiphertext(c, r, sh)
                /\ loaded' = loaded \cup {r}
                /\ device' = [device EXCEPT ![r] = device[s]]
       ELSE UNCHANGED <<cache, loaded, device>>

\* The handles S are destroyed, and with them their device ciphertexts.
Destroyed(S) ==
    LET without(f, default) == [h \in Handle |-> IF h \in S THEN default ELSE f[h]]
    IN  /\ objects' = objects \ S /\ copied' = copied \ S
        /\ lazy' = lazy \ S /\ loaded' = loaded \ S
        /\ value' = without(value, NoVal) /\ host' = without(host, NoVal)
        /\ device' = without(device, NoVal)
        /\ sharers' = [h \in Handle |-> IF h \in S THEN {} ELSE sharers[h] \ S]
        /\ cache' = FoldLeft(UntrackCiphertext, cache, SetToSeq(S \cap loaded))
-----------------------------------------------------------------------------
(* The host payload                                                        *)

\* Faulty: a copy writes to the payload it shares.
NotDetached(h) == sharers

\* EnsureLazyCPUCopy: a copy that has not done so yet gets a payload of its own.
Detached(h) ==
    IF h \in lazy
    THEN [g \in Handle |-> IF g = h THEN {h} ELSE sharers[g] \ {h}]
    ELSE sharers

\* h writes v to its payload, as EnsureLazyCPUCopy leaves it.
WriteHost(h, v) ==
    /\ lazy' = lazy \ {h}
    /\ sharers' = Detached(h)
    /\ host' = [g \in Handle |-> IF g \in Detached(h)[h] THEN v ELSE host[g]]

\* EnsureUpToDateCPUCopy of a loaded handle: the device has the truth.
EnsureUpToDateCPUCopy(h) ==
    /\ h \in loaded
    /\ WriteHost(h, device[h])
    /\ UNCHANGED <<copied, value>>

\* Decrypt of a loaded handle whose payload has too few towers: a payload of
\* its own replaces the shared one.
ReplaceHost(h) ==
    /\ h \in loaded
    /\ lazy' = lazy \ {h}
    /\ sharers' = [g \in Handle |-> IF g = h THEN {h} ELSE sharers[g] \ {h}]
    /\ host' = [host EXCEPT ![h] = device[h]]
    /\ UNCHANGED <<copied, value>>
-----------------------------------------------------------------------------
(* Calls between operations                                                *)

Encrypt(h, v) ==
    /\ Idle /\ h \notin objects
    /\ objects' = objects \cup {h}
    /\ value' = [value EXCEPT ![h] = v] /\ host' = [host EXCEPT ![h] = v]
    /\ sharers' = [sharers EXCEPT ![h] = {h}]
    /\ UNCHANGED <<copied, lazy, loaded, device, cache, budget, op>>

Clone(s, r) ==
    /\ Idle /\ s \in objects /\ r \notin objects
    /\ Copy(s, r)
    /\ UNCHANGED <<budget, op>>

Destroy(h) ==
    /\ Idle /\ h \in objects
    /\ Destroyed({h})
    /\ UNCHANGED <<budget, op>>

\* Decrypt, GetElements and serialization download a loaded ciphertext.
Download(h) ==
    /\ Idle
    /\ EnsureUpToDateCPUCopy(h) \/ ReplaceHost(h)
    /\ cache' = GetDeviceCiphertext(cache, h)
    /\ UNCHANGED <<objects, loaded, device, budget, op>>

UnloadCiphertext(h) ==
    /\ Idle
    /\ EnsureUpToDateCPUCopy(h)
    /\ cache' = UntrackCiphertext(cache, h)
    /\ loaded' = loaded \ {h}
    /\ device' = [device EXCEPT ![h] = NoVal]
    /\ UNCHANGED <<objects, budget, op>>

\* SetLevel and SetSlots write where the truth is.
SetMetadata(h, v) ==
    /\ Idle /\ h \in objects
    /\ value' = [value EXCEPT ![h] = v]
    /\ IF h \in loaded
       THEN /\ device' = [device EXCEPT ![h] = v]
            /\ cache' = GetDeviceCiphertext(cache, h)
            /\ UNCHANGED <<host, sharers, lazy>>
       ELSE WriteHost(h, v) /\ UNCHANGED <<device, cache>>
    /\ UNCHANGED <<objects, copied, loaded, budget, op>>

\* Ciphertext::offload asserts that the ciphertext is not in the extended basis.
OffloadCiphertext(h) ==
    /\ Idle /\ h \in loaded
    /\ cache.shape[h] # "extended"
    /\ cache' = MarkCiphertextOffloaded(Offload(cache, h), h)
    /\ UNCHANGED <<objects, hostVars, loaded, device, budget, op>>

Reload(h) ==
    /\ Idle /\ h \in loaded
    /\ cache' = ReloadCiphertext(cache, h)
    /\ UNCHANGED <<objects, hostVars, loaded, device, budget, op>>

Load(h) ==
    /\ Idle /\ h \in objects
    /\ LoadCiphertext(h)
    /\ UNCHANGED <<budget, op>>

SetCiphertextCache(b) ==
    /\ Idle
    /\ budget' = b
    /\ cache' = EnforceCiphertextBudget(cache, b, {})
    /\ UNCHANGED <<objects, hostVars, loaded, device, op>>

OffloadCiphertexts ==
    /\ Idle
    /\ LET visit(c, h) == IF h \in c.pinned THEN c ELSE OffloadCiphertextForCache(c, h)
       IN  cache' = FoldLeft(visit, cache, cache.lru)
    /\ UNCHANGED <<objects, hostVars, loaded, device, budget, op>>

\* PinCiphertext of a handle that Load has just made resident.
Pin(h) ==
    /\ Idle /\ h \in loaded
    /\ LET c == EnforceCiphertextBudget(ReloadCiphertext(cache, h), budget, {h})
       IN  cache' = [ReloadCiphertext(c, h) EXCEPT !.pinned = @ \cup {h}]
    /\ UNCHANGED <<objects, hostVars, loaded, device, budget, op>>

Unpin(h) ==
    /\ Idle /\ h \in loaded
    /\ cache' = EnforceCiphertextBudget([cache EXCEPT !.pinned = @ \ {h}], budget, {})
    /\ UNCHANGED <<objects, hostVars, loaded, device, budget, op>>
-----------------------------------------------------------------------------
(* Operations                                                              *)

Call(do, h) == [do |-> do, ct |-> h, of |-> h]
CopyOf(s, r) == [do |-> "copy", ct |-> r, of |-> s]
Each(do, hs) == [i \in DOMAIN hs |-> Call(do, hs[i])]

\* EvalAddInPlace, EvalRotateInPlace, ...: all operands are loaded before any
\* of them is fetched.
InPlace(ins) ==
    [todo |-> Each("load", ins) \o Each("fetch", ins),
     writes |-> {ins[1]}, makes |-> {}, held |-> {}]

\* EvalMult, EvalRotate, ...: the result starts as a copy of the first operand.
Returning(ins, r) ==
    [todo |-> Each("load", ins) \o <<CopyOf(ins[1], r)>> \o Each("fetch", <<r>> \o Tail(ins)),
     writes |-> {r}, makes |-> {r}, held |-> {}]

\* EvalFastRotation of several indices: the operand is held while the results
\* are copied from it.
Hoisted(a, rs) ==
    [todo |-> Each("load", <<a>>) \o Each("fetch", <<a>>)
              \o FlattenSeq([i \in DOMAIN rs |-> <<CopyOf(a, rs[i]), Call("fetch", rs[i])>>]),
     writes |-> Elems(rs), makes |-> Elems(rs), held |-> {}]

Operands == {<<a>> : a \in objects} \cup {<<a, b>> : a, b \in objects}
Missing == Handle \ objects
ResultLists == {rs \in UNION {[1..n -> Missing] : n \in 1..2} : Distinct(rs)}

Start ==
    /\ Idle
    /\ \/ \E ins \in Operands : op' = InPlace(ins)
       \/ \E ins \in Operands, r \in Missing : op' = Returning(ins, r)
       \/ \E a \in objects, rs \in ResultLists : op' = Hoisted(a, rs)
    /\ UNCHANGED <<objects, hostVars, loaded, device, cache, budget>>

OpCalls(do, h, s) ==
    /\ op.todo # <<>>
    /\ Head(op.todo) = [do |-> do, ct |-> h, of |-> s]

OpLoads(h) ==
    /\ OpCalls("load", h, h)
    /\ LoadCiphertext(h)
    /\ op' = [op EXCEPT !.todo = Tail(@)]
    /\ UNCHANGED budget

OpCopies(s, r) ==
    /\ OpCalls("copy", r, s)
    /\ Copy(s, r)
    /\ op' = [op EXCEPT !.todo = Tail(@)]
    /\ UNCHANGED budget

OpFetches(h) ==
    /\ OpCalls("fetch", h, h)
    /\ cache' = GetDeviceCiphertext(cache, h)
    /\ op' = [op EXCEPT !.todo = Tail(@), !.held = @ \cup {h}]
    /\ UNCHANGED <<objects, hostVars, loaded, device, budget>>

\* The kernels leave the results with v, in some shape.
OpComputes(v, sh) ==
    /\ op.todo = <<>> /\ ~Idle
    /\ value' = [h \in Handle |-> IF h \in op.writes THEN v ELSE value[h]]
    /\ device' = [h \in Handle |-> IF h \in op.writes THEN v ELSE device[h]]
    /\ cache' = [cache EXCEPT !.shape = [h \in Handle |-> IF h \in op.writes THEN sh ELSE @[h]]]
    /\ op' = NoOp
    /\ UNCHANGED <<objects, copied, host, sharers, lazy, loaded, budget>>

\* A rotation key is missing: the results are destroyed, nothing was written.
OpThrows ==
    /\ op.todo = <<>> /\ ~Idle
    /\ Destroyed(op.makes)
    /\ op' = NoOp
    /\ UNCHANGED budget
-----------------------------------------------------------------------------
Next ==
    \/ \E h \in Handle :
          \/ Destroy(h) \/ Download(h) \/ UnloadCiphertext(h)
          \/ OffloadCiphertext(h) \/ Reload(h) \/ Load(h) \/ Pin(h) \/ Unpin(h)
          \/ OpLoads(h) \/ OpFetches(h)
          \/ \E v \in Val : Encrypt(h, v) \/ SetMetadata(h, v)
          \/ \E r \in Handle : Clone(h, r) \/ OpCopies(h, r)
    \/ \E b \in Budgets : SetCiphertextCache(b)
    \/ \E v \in Val, sh \in Shape : OpComputes(v, sh)
    \/ OffloadCiphertexts \/ Start \/ OpThrows

Spec == Init /\ [][Next]_vars
-----------------------------------------------------------------------------
(* Properties                                                              *)

\* What the owner of h would read.
Held(h) == IF h \in loaded THEN device[h] ELSE host[h]

\* The cache knows what is on the device: its entries say resident exactly of
\* the device ciphertexts that have their limbs, the list holds each of these
\* once, and ciphertext_resident_bytes is the sum of their entries.  Nothing is
\* left pinned or offloaded of a handle that is no longer on the device.
AccountingExact ==
    /\ cache.pinned \cup cache.offloaded \subseteq loaded /\ loaded \subseteq objects
    /\ cache.resident = loaded \ cache.offloaded
    /\ Elems(cache.lru) = cache.resident /\ Distinct(cache.lru)
    /\ cache.total = FoldSet(LAMBDA h, n : cache.bytes[h] + n, 0, cache.resident)

\* No eviction takes the limbs of a ciphertext an operation holds a pointer to.
HeldResident == op.held \cap cache.offloaded = {}

\* Enforcing the budget takes neither too much nor too little: no call but an explicit
\* offload parks a pinned ciphertext; after a load, what is resident fits the budget, or
\* else all but the ciphertext loaded is pinned or in the extended basis
\* (EnforceCiphertextBudget).
EvictionExact ==
    [][\A h \in Handle :
          /\ h \in (cache.pinned \cap cache'.pinned \cap cache'.offloaded) \ cache.offloaded =>
                OffloadCiphertext(h)
          /\ OpLoads(h) \/ Load(h) =>
                \/ budget = SizeMax \/ cache'.total <= budget
                \/ \A g \in cache'.resident \ {h} :
                      g \in cache'.pinned \/ cache'.shape[g] = "extended"]_vars

\* A ciphertext nobody made by copying holds what its own history gave it,
\* whatever its copies, the cache and the other operations do.
OriginalsKept == \A h \in objects \ copied : Held(h) = value[h]
=============================================================================
