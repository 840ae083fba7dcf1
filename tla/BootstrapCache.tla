--------------------------- MODULE BootstrapCache ---------------------------
(***************************************************************************)
(* The VRAM cache of the bootstrap precomputation of one GPU context       *)
(* (ContextData in Context.cu, BootCacheBlock).  The unit of the cache is  *)
(* a group of plaintexts used together: one transform stage, or LT.A, or   *)
(* LT.invA.  A bootstrap of some slot count visits its groups in a fixed   *)
(* order; each is acquired, then the kernels that read it are enqueued.    *)
(* One host thread drives the context and each call is one step; kernels   *)
(* run asynchronously.                                                     *)
(***************************************************************************)
EXTENDS Naturals, RecencyList

CONSTANTS BootBlock,  \* the groups of plaintexts
          Slots,      \* the slot counts bootstrapping is set up for
          NoSlots,    \* none of them
          Stages,     \* Stages[s]: the groups a bootstrap of s slots visits, in order
          Bytes,      \* Bytes[b]: device bytes of a group
          Unlimited,  \* SIZE_MAX: no budget
          BootBudgets \* the budgets callers set

TotalBytes(S) == MapThenSumSet(LAMBDA b : Bytes[b], S)

\* All groups together have fewer bytes than a size_t counts.
ASSUME BootstrapAssumption ==
    /\ NoSlots \notin Slots
    /\ Stages \in [Slots -> Seq(BootBlock)]
    /\ \A s \in Slots : Stages[s] # <<>> /\ Distinct(Stages[s])
    /\ \A s, t \in Slots : s # t => Elems(Stages[s]) \cap Elems(Stages[t]) = {}
    /\ BootBlock = UNION {Elems(Stages[s]) : s \in Slots} /\ IsFiniteSet(BootBlock)
    /\ Bytes \in [BootBlock -> Nat \ {0}] /\ TotalBytes(BootBlock) <= Unlimited
    /\ Unlimited \in Nat /\ BootBudgets \subseteq Nat

VARIABLES boot,         \* the slot counts in precom.boot
          resident,     \* the groups whose limbs are in VRAM
          has_snapshot, \* those with a host copy
          last_use,     \* the groups used so far, the most recently used first
          bootBudget,   \* bootstrap_cache_bytes
          running,      \* the slot count of the running bootstrap, or NoSlots
          program,      \* the groups it has still to visit
          held,         \* the group acquired and not yet used
          inflight,     \* the groups enqueued kernels read
          last_run,     \* history: the bootstrap that was the last call, or NoSlots
          repeated,     \* history: the running bootstrap repeats the last call
          reloaded      \* history: bytes the running bootstrap has reloaded

blockVars == <<boot, resident, has_snapshot>>
runVars   == <<running, program, held>>
histVars  == <<last_run, repeated, reloaded>>
bootVars  == <<blockVars, last_use, bootBudget, runVars, inflight, histVars>>

BlocksOf(s) == Elems(Stages[s])
Registered == UNION {BlocksOf(s) : s \in boot}

\* bootstrapPrecomputationLazy()
Lazy == bootBudget # Unlimited

BootInit ==
    /\ boot = {} /\ resident = {} /\ has_snapshot = {}
    /\ last_use = <<>>
    /\ bootBudget \in BootBudgets
    /\ running = NoSlots /\ program = <<>> /\ held = {} /\ inflight = {}
    /\ last_run = NoSlots /\ repeated = FALSE /\ reloaded = 0
-----------------------------------------------------------------------------
(* Eviction.  (An operator whose comment says "faulty" is not part of the  *)
(* model: it is what the definition after it could have been, and breaks a *)
(* property.)                                                              *)

\* Faulty: least recently used first.
LessRecent(b, c) ==
    \E i, j \in DOMAIN last_use : i > j /\ last_use[i] = b /\ last_use[j] = c

\* Group b comes before group c in the order of eviction: most recently used
\* first.
EvictedBefore(b, c) ==
    \E i, j \in DOMAIN last_use : i < j /\ last_use[i] = b /\ last_use[j] = c

\* Faulty: a group without a host copy can be evicted.
AnyResident(keep) == resident \ keep

\* What evictBootstrapCache may take.
Candidates(keep) == {b \in resident \cap has_snapshot : b \notin keep}

\* Faulty: nothing is set aside for the group about to be loaded.
VictimsWithoutIncoming(limit, incoming, keep) ==
    {b \in Candidates(keep) :
        TotalBytes(resident \ {c \in Candidates(keep) : EvictedBefore(c, b)}) > limit}

\* What evictBootstrapCache takes: a candidate goes if the budget does not
\* hold yet once every candidate before it has gone.
Victims(limit, incoming, keep) ==
    {b \in Candidates(keep) :
        TotalBytes(resident \ {c \in Candidates(keep) : EvictedBefore(c, b)})
            + incoming > limit}

\* Faulty: rely on the stream order of the frees.
NoDrain(freed) == inflight

\* freeBootBlocks synchronizes every device before it frees anything.
Drained(freed) == IF freed = {} THEN inflight ELSE {}
-----------------------------------------------------------------------------
(* Building and clearing precomputations                                   *)

\* No bootstrap is running.
Quiet == running = NoSlots

\* AddBootstrapPrecomputation of a slot count that has none: AdmitBootBlock
\* takes every group, which under a budget is offloaded as soon as it is
\* built; then AddBootPrecomputation registers them.
AddBootPrecomputation(s) ==
    /\ Quiet
    /\ s \notin boot
    /\ boot' = boot \cup {s}
    /\ IF Lazy
       THEN /\ has_snapshot' = has_snapshot \cup BlocksOf(s)
            /\ inflight' = Drained(BlocksOf(s))
            /\ UNCHANGED resident
       ELSE /\ resident' = resident \cup BlocksOf(s)
            /\ UNCHANGED <<has_snapshot, inflight>>
    /\ last_run' = NoSlots
    /\ UNCHANGED <<last_use, bootBudget, runVars, repeated, reloaded>>

\* The groups S are destroyed with what they own.
Forget(S) == resident' = resident \ S /\ has_snapshot' = has_snapshot \ S

\* clearBootPrecomputation(slots).  Its callers have read every result back
\* to the host.
ClearBootPrecomputation(s) ==
    /\ Quiet
    /\ inflight = {}
    /\ s \in boot
    /\ boot' = boot \ {s}
    /\ Forget(BlocksOf(s))
    /\ last_run' = NoSlots
    /\ UNCHANGED <<last_use, bootBudget, runVars, inflight, repeated, reloaded>>

\* evictBootstrapCache(limit, 0, nullptr)
Evict(limit) ==
    LET V == Victims(limit, 0, {})
    IN  /\ resident' = resident \ V
        /\ inflight' = Drained(V)
        /\ last_run' = NoSlots
        /\ UNCHANGED <<boot, has_snapshot, last_use, runVars, repeated, reloaded>>

SetBootstrapCache(limit) ==
    /\ Quiet
    /\ bootBudget' = limit
    /\ Evict(limit)

OffloadBootstrapPrecomputation ==
    /\ Quiet
    /\ Evict(0)
    /\ UNCHANGED bootBudget
-----------------------------------------------------------------------------
(* A bootstrap                                                             *)

Bootstrap(s) ==
    /\ Quiet
    /\ s \in boot
    /\ running' = s
    /\ program' = Stages[s]
    /\ repeated' = (last_run = s)
    /\ reloaded' = 0
    /\ last_run' = NoSlots
    /\ UNCHANGED <<blockVars, last_use, bootBudget, held, inflight>>

\* AcquireBootBlock of a resident group.
AcquireResident(b) ==
    /\ program # <<>> /\ held = {}
    /\ b = Head(program)
    /\ b \in resident
    /\ last_use' = ToFront(last_use, b)
    /\ held' = {b}
    /\ UNCHANGED <<blockVars, bootBudget, running, program, inflight, histVars>>

\* AcquireBootBlock of an offloaded group: evict, reload, synchronize.
AcquireOffloaded(b) ==
    /\ program # <<>> /\ held = {}
    /\ b = Head(program)
    /\ b \notin resident
    /\ resident' = (resident \ Victims(bootBudget, Bytes[b], {b})) \cup {b}
    /\ inflight' = {}
    /\ last_use' = ToFront(last_use, b)
    /\ reloaded' = reloaded + Bytes[b]
    /\ held' = {b}
    /\ UNCHANGED <<boot, has_snapshot, bootBudget, running, program, last_run, repeated>>

\* The stage enqueues its kernels; after the last one the bootstrap is over.
RunStage ==
    /\ held # {}
    /\ inflight' = inflight \cup held
    /\ held' = {}
    /\ program' = Tail(program)
    /\ IF Tail(program) = <<>>
       THEN running' = NoSlots /\ last_run' = running
       ELSE UNCHANGED <<running, last_run>>
    /\ UNCHANGED <<blockVars, last_use, bootBudget, repeated, reloaded>>

\* A rotation key a stage needs is missing: the bootstrap ends there, before
\* or after the stage's first kernels.
StageThrows ==
    /\ held # {}
    /\ inflight' \in {inflight, inflight \cup held}
    /\ held' = {} /\ program' = <<>> /\ running' = NoSlots
    /\ UNCHANGED <<blockVars, last_use, bootBudget, histVars>>

\* The device finishes with a group.
KernelDone(b) ==
    /\ b \in inflight
    /\ inflight' = inflight \ {b}
    /\ UNCHANGED <<blockVars, last_use, bootBudget, runVars, histVars>>
-----------------------------------------------------------------------------
BootNext ==
    \/ \E s \in Slots :
          AddBootPrecomputation(s) \/ ClearBootPrecomputation(s) \/ Bootstrap(s)
    \/ \E limit \in BootBudgets : SetBootstrapCache(limit)
    \/ OffloadBootstrapPrecomputation
    \/ \E b \in BootBlock : AcquireResident(b) \/ AcquireOffloaded(b) \/ KernelDone(b)
    \/ RunStage \/ StageThrows

BootSpec == BootInit /\ [][BootNext]_bootVars
-----------------------------------------------------------------------------
(* Properties                                                              *)

\* Every variable has its type; only registered groups are resident or keep a
\* host copy, and a registered group that is not resident has one (what
\* AcquireBootBlock asserts).
TypeOK ==
    /\ boot \subseteq Slots
    /\ resident \subseteq Registered /\ has_snapshot \subseteq Registered
    /\ Registered \subseteq resident \cup has_snapshot
    /\ last_use \in Seq(BootBlock)
    /\ bootBudget \in BootBudgets
    /\ running \in boot \cup {NoSlots}
    /\ held \subseteq BootBlock /\ inflight \subseteq BootBlock
    /\ last_run \in Slots \cup {NoSlots} /\ repeated \in BOOLEAN /\ reloaded \in Nat

\* No group leaves VRAM while a stage is about to use it or an enqueued kernel
\* reads it.
InUseResident == held \cup inflight \subseteq resident

\* "The budget is soft by one group": above the budget there is at most one
\* group that could be evicted, the one being used.
BudgetSoftByOne ==
    TotalBytes(resident) > bootBudget => Cardinality(resident \cap has_snapshot) <= 1

LargestBytes == CHOOSE n \in {Bytes[b] : b \in BootBlock} : \A b \in BootBlock : Bytes[b] <= n

\* The running bootstrap of s completes in this step.
Completes(s) == running = s /\ held # {} /\ running' = NoSlots /\ last_run' = s

\* The point of evicting the most recently used group: when a bootstrap repeats
\* the previous one, nothing else is in VRAM and two groups fit, some stage is
\* found resident.
ReusesStages ==
    [][\A s \in Slots :
          /\ Completes(s) /\ repeated
          /\ boot = {s} /\ Len(Stages[s]) > 1
          /\ 2 * LargestBytes <= bootBudget
          => reloaded < TotalBytes(BlocksOf(s))]_bootVars

\* Seen from outside the bootstrap cache is a VramCache.
Cache == INSTANCE VramCache WITH
            Item <- BootBlock, known <- Registered, backed <- has_snapshot,
            onDevice <- resident, wanted <- held, reading <- inflight
ImplementsVramCache == Cache!Spec
=============================================================================
