------------------------ MODULE BootstrapCacheProofs ------------------------
(***************************************************************************)
(* Proofs about the bootstrap-precomputation cache, for any slot counts,   *)
(* stages, sizes and budgets.  That no group leaves VRAM while it is used, *)
(* and the refinement, depend on what may be evicted at all.  How far the  *)
(* budget is overshot depends on how much is evicted (VictimsSuffice), and *)
(* what a repeated bootstrap reuses on the order (AcquireSpares).          *)
(***************************************************************************)
EXTENDS BootstrapCache, ListLemmas

\* A group is held only while a bootstrap runs, and the groups still to visit
\* belong to the running slot count.
RunShape ==
    /\ running = NoSlots => held = {} /\ program = <<>>
    /\ running # NoSlots => program \in Seq(BlocksOf(running))
    /\ held # {} => program # <<>>
    /\ Distinct(last_use)

IInv == TypeOK /\ InUseResident /\ RunShape

\* The groups of two slot counts are different objects.
LEMMA BlocksDisjoint ==
    /\ \A s \in Slots : BlocksOf(s) \subseteq BootBlock
    /\ \A s, t \in Slots : s # t => BlocksOf(s) \cap BlocksOf(t) = {}
BY BootstrapAssumption DEF BootstrapAssumption, BlocksOf

\* Whatever the budget, eviction takes resident groups that have a host copy.
LEMMA VictimsEvictable ==
    ASSUME NEW limit, NEW incoming, NEW keep
    PROVE  Victims(limit, incoming, keep) \subseteq (resident \cap has_snapshot) \ keep
BY DEF Victims, Candidates

\* The group a bootstrap acquires next is registered.
LEMMA NextIsRegistered ==
    ASSUME IInv, program # <<>>
    PROVE  /\ running \in boot /\ running # NoSlots
           /\ Head(program) \in BlocksOf(running)
           /\ Head(program) \in Registered
           /\ Tail(program) \in Seq(BlocksOf(running))
<1>1. running \in boot /\ running # NoSlots /\ program \in Seq(BlocksOf(running))
  BY DEF IInv, TypeOK, RunShape
<1>2. Head(program) \in BlocksOf(running) /\ Tail(program) \in Seq(BlocksOf(running))
  BY <1>1, HeadTailProperties
<1> QED BY <1>1, <1>2 DEF Registered

\* Nothing is registered and no bootstrap runs at first.
LEMMA InitInv == BootInit => IInv
<1> SUFFICES ASSUME BootInit PROVE IInv
  OBVIOUS
<1>1. Registered = {}
  BY DEF BootInit, Registered
<1>2. TypeOK
  <2>1. last_use \in Seq(BootBlock) /\ reloaded \in Nat
    BY DEF BootInit
  <2>2. repeated \in BOOLEAN
    BY DEF BootInit
  <2> QED BY <1>1, <2>1, <2>2 DEF BootInit, TypeOK
<1>3. InUseResident /\ RunShape
  BY DEF BootInit, InUseResident, RunShape, Distinct
<1> QED BY <1>2, <1>3 DEF IInv

\* Registering and destroying precomputations.
LEMMA RegisterKeepsInv ==
    ASSUME IInv, NEW s \in Slots, AddBootPrecomputation(s) \/ ClearBootPrecomputation(s)
    PROVE  IInv'
<1> USE DEF IInv
<1>1. CASE AddBootPrecomputation(s)
  <2>1. /\ running = NoSlots /\ held = {} /\ program = <<>>
        /\ boot' = boot \cup {s} /\ last_run' = NoSlots
        /\ resident \subseteq resident' /\ has_snapshot \subseteq has_snapshot'
        /\ resident' \subseteq resident \cup BlocksOf(s)
        /\ has_snapshot' \subseteq has_snapshot \cup BlocksOf(s)
        /\ BlocksOf(s) \subseteq resident' \cup has_snapshot'
        /\ inflight' \subseteq inflight
        /\ UNCHANGED <<last_use, bootBudget, runVars, repeated, reloaded>>
    BY <1>1 DEF AddBootPrecomputation, Quiet, RunShape, Drained
  <2>2. Registered' = Registered \cup BlocksOf(s)
    BY <2>1 DEF Registered
  <2>3. TypeOK'
    BY <2>1, <2>2 DEF TypeOK, runVars
  <2>4. InUseResident' /\ RunShape'
    BY <2>1 DEF InUseResident, RunShape, runVars
  <2> QED BY <2>3, <2>4
<1>2. CASE ClearBootPrecomputation(s)
  <2>1. /\ running = NoSlots /\ held = {} /\ program = <<>> /\ inflight = {}
        /\ boot' = boot \ {s} /\ last_run' = NoSlots
        /\ resident' = resident \ BlocksOf(s)
        /\ has_snapshot' = has_snapshot \ BlocksOf(s)
        /\ UNCHANGED <<last_use, bootBudget, runVars, inflight, repeated, reloaded>>
    BY <1>2 DEF ClearBootPrecomputation, Forget, Quiet, RunShape
  <2>2. Registered' = Registered \ BlocksOf(s)
    <3>1. \A t \in boot : t # s => BlocksOf(t) \cap BlocksOf(s) = {}
      BY BlocksDisjoint DEF TypeOK
    <3> QED BY <2>1, <3>1 DEF Registered
  <2>3. TypeOK'
    BY <2>1, <2>2 DEF TypeOK, runVars
  <2>4. InUseResident' /\ RunShape'
    BY <2>1 DEF InUseResident, RunShape, runVars
  <2> QED BY <2>3, <2>4
<1> QED BY <1>1, <1>2

\* Shrinking to a new budget, or to nothing.
LEMMA EvictKeepsInv ==
    ASSUME IInv, Quiet, NEW limit, Evict(limit), bootBudget' \in BootBudgets
    PROVE  IInv'
<1> USE DEF IInv
<1> DEFINE V == Victims(limit, 0, {})
<1>1. V \subseteq resident \cap has_snapshot
  BY VictimsEvictable
<1>2. /\ resident' = resident \ V /\ inflight' = Drained(V)
      /\ last_run' = NoSlots
      /\ UNCHANGED <<boot, has_snapshot, last_use, runVars, repeated, reloaded>>
  BY DEF Evict
<1> HIDE DEF V
<1>3. Registered' = Registered
  BY <1>2 DEF Registered
<1>4. TypeOK'
  BY <1>1, <1>2, <1>3 DEF TypeOK, runVars, Drained
<1>5. held = {} /\ held' = {}
  BY <1>2 DEF RunShape, Quiet, runVars
<1>6. InUseResident'
  BY <1>2, <1>5 DEF InUseResident, Drained
<1>7. RunShape'
  BY <1>2 DEF RunShape, runVars
<1> QED BY <1>4, <1>6, <1>7

\* Bringing in the next group.
LEMMA AcquireKeepsInv ==
    ASSUME IInv, NEW b \in BootBlock, AcquireResident(b) \/ AcquireOffloaded(b)
    PROVE  IInv'
<1> USE DEF IInv
<1>1. /\ program # <<>> /\ held = {} /\ b = Head(program) /\ b \in Registered
      /\ last_use' = ToFront(last_use, b) /\ held' = {b}
      /\ UNCHANGED <<boot, has_snapshot, bootBudget, running, program, last_run, repeated>>
  BY NextIsRegistered DEF AcquireResident, AcquireOffloaded, blockVars, histVars
<1>2. last_use' \in Seq(BootBlock) /\ Distinct(last_use')
  BY <1>1, ToFrontElements DEF TypeOK, RunShape
<1>3. Registered' = Registered
  BY <1>1 DEF Registered
<1>4. /\ resident' \subseteq resident \cup {b} /\ b \in resident'
      /\ resident \ resident' \subseteq has_snapshot
      /\ inflight' \subseteq inflight /\ inflight' \subseteq resident'
      /\ reloaded' \in Nat
  <2>1. CASE AcquireResident(b)
    BY <2>1 DEF AcquireResident, blockVars, histVars, TypeOK, InUseResident
  <2>2. CASE AcquireOffloaded(b)
    <3>1. Victims(bootBudget, Bytes[b], {b}) \subseteq has_snapshot
      BY VictimsEvictable
    <3>2. Bytes[b] \in Nat
      BY BootstrapAssumption DEF BootstrapAssumption
    <3>3. reloaded' \in Nat
      BY <2>2, <3>2 DEF AcquireOffloaded, TypeOK
    <3> QED BY <2>2, <3>1, <3>3 DEF AcquireOffloaded
  <2> QED BY <2>1, <2>2
<1>5. TypeOK'
  BY <1>1, <1>2, <1>3, <1>4 DEF TypeOK
<1>6. InUseResident' /\ RunShape'
  BY <1>1, <1>2, <1>4 DEF InUseResident, RunShape, BlocksOf
<1> QED BY <1>5, <1>6

\* Starting a bootstrap, and the stages' kernels.
LEMMA RunKeepsInv ==
    ASSUME IInv,
           \/ \E s \in Slots : Bootstrap(s)
           \/ RunStage \/ StageThrows \/ \E b \in BootBlock : KernelDone(b)
    PROVE  IInv'
<1> USE DEF IInv
<1>1. UNCHANGED <<blockVars, last_use, bootBudget>>
  BY DEF Bootstrap, RunStage, StageThrows, KernelDone
<1>2. Registered' = Registered
  BY <1>1 DEF Registered, blockVars
<1>3. ASSUME NEW s \in Slots, Bootstrap(s)
      PROVE  IInv'
  <2>1. Stages[s] \in Seq(BlocksOf(s)) /\ s # NoSlots
    <3>1. Stages[s] \in Seq(BootBlock)
      BY BootstrapAssumption DEF BootstrapAssumption
    <3>2. \A j \in 1..Len(Stages[s]) : Stages[s][j] \in BlocksOf(s)
      BY <3>1, LenProperties DEF BlocksOf, Elems
    <3>3. Len(Stages[s]) \in Nat /\ Stages[s] = [j \in 1..Len(Stages[s]) |-> Stages[s][j]]
      BY <3>1, LenProperties
    <3> QED BY <3>2, <3>3, BootstrapAssumption, IsASeq DEF BootstrapAssumption
  <2>2. TypeOK' /\ InUseResident' /\ RunShape'
    BY <1>1, <1>2, <1>3, <2>1
    DEF Bootstrap, Quiet, TypeOK, InUseResident, RunShape, blockVars, BlocksOf
  <2> QED BY <2>2
<1>4. CASE RunStage
  <2>1. program # <<>> /\ Tail(program) \in Seq(BlocksOf(running)) /\ running \in boot
        /\ running # NoSlots
    BY <1>4, NextIsRegistered DEF RunStage, RunShape
  <2>2. TypeOK' /\ InUseResident' /\ RunShape'
    BY <1>1, <1>2, <1>4, <2>1
    DEF RunStage, TypeOK, InUseResident, RunShape, blockVars, BlocksOf
  <2> QED BY <2>2
<1>5. CASE StageThrows
  BY <1>1, <1>2, <1>5
  DEF StageThrows, TypeOK, InUseResident, RunShape, blockVars, histVars, BlocksOf
<1>6. ASSUME NEW b \in BootBlock, KernelDone(b)
      PROVE  IInv'
  BY <1>1, <1>2, <1>6
  DEF KernelDone, TypeOK, InUseResident, RunShape, blockVars, histVars, runVars, BlocksOf
<1> QED BY <1>3, <1>4, <1>5, <1>6

\* The invariant is inductive.
LEMMA StepKeepsInv == IInv /\ [BootNext]_bootVars => IInv'
<1> SUFFICES ASSUME IInv, [BootNext]_bootVars PROVE IInv'
  OBVIOUS
<1>1. CASE UNCHANGED bootVars
  BY <1>1 DEF IInv, TypeOK, InUseResident, RunShape, Registered, bootVars, blockVars, runVars,
              histVars
<1>2. ASSUME NEW limit \in BootBudgets, SetBootstrapCache(limit)
      PROVE  IInv'
  BY <1>2, EvictKeepsInv DEF SetBootstrapCache
<1>3. CASE OffloadBootstrapPrecomputation
  BY <1>3, EvictKeepsInv DEF OffloadBootstrapPrecomputation, IInv, TypeOK
<1> QED BY <1>1, <1>2, <1>3, RegisterKeepsInv, AcquireKeepsInv, RunKeepsInv DEF BootNext

\* Hence it holds throughout.
LEMMA Invariance == BootSpec => []IInv
BY InitInv, StepKeepsInv, PTL DEF BootSpec
-----------------------------------------------------------------------------
\* Only registered groups are resident, and every registered group is resident
\* or has a host copy to come back from: AcquireBootBlock's assertion holds.
THEOREM TypeCorrect == BootSpec => []TypeOK
<1>1. IInv => TypeOK
  BY DEF IInv
<1> QED BY <1>1, Invariance, PTL

\* No group leaves VRAM while a stage or a kernel uses it.
THEOREM InUseStaysResident == BootSpec => []InUseResident
<1>1. IInv => InUseResident
  BY DEF IInv
<1> QED BY <1>1, Invariance, PTL

\* Every step of the bootstrap cache is one of the abstract cache, or a stutter.
LEMMA StepRefines == IInv /\ [BootNext]_bootVars => [Cache!Next]_(Cache!vars)
<1> SUFFICES ASSUME IInv, [BootNext]_bootVars PROVE [Cache!Next]_(Cache!vars)
  OBVIOUS
<1> USE DEF IInv
<1>1. ASSUME NEW s \in Slots, AddBootPrecomputation(s)
      PROVE  Cache!Register(BlocksOf(s)) /\ BlocksOf(s) \in SUBSET BootBlock
  <2>1. s \notin boot /\ \A t \in boot : BlocksOf(t) \cap BlocksOf(s) = {}
    BY <1>1, BlocksDisjoint DEF AddBootPrecomputation, TypeOK
  <2>2. BlocksOf(s) \cap Registered = {}
    BY <2>1 DEF Registered
  <2>3. Registered' = Registered \cup BlocksOf(s)
    BY <1>1 DEF AddBootPrecomputation, Registered
  <2> QED BY <1>1, <2>2, <2>3, BlocksDisjoint
          DEF AddBootPrecomputation, Cache!Register, Drained, runVars
<1>2. ASSUME NEW s \in Slots, ClearBootPrecomputation(s)
      PROVE  Cache!Forget(BlocksOf(s)) /\ BlocksOf(s) \in SUBSET BootBlock
  <2>1. \A t \in boot : t # s => BlocksOf(t) \cap BlocksOf(s) = {}
    BY BlocksDisjoint DEF TypeOK
  <2>2. Registered' = Registered \ BlocksOf(s)
    BY <1>2, <2>1 DEF ClearBootPrecomputation, Registered
  <2>3. held = {} /\ inflight = {}
    BY <1>2 DEF ClearBootPrecomputation, Quiet, RunShape
  <2> QED BY <1>2, <2>2, <2>3, BlocksDisjoint
          DEF ClearBootPrecomputation, Forget, Cache!Forget, runVars
<1>3. ASSUME NEW limit, Quiet, Evict(limit)
      PROVE  Cache!Evict
  <2>1. Victims(limit, 0, {}) \subseteq resident \cap has_snapshot
    BY VictimsEvictable
  <2>2. held = {} /\ Registered' = Registered
    BY <1>3 DEF Quiet, RunShape, Evict, Registered
  <2> QED BY <1>3, <2>1, <2>2 DEF Evict, Drained, Cache!Evict, Cache!MayLose, runVars
<1>4. ASSUME NEW b \in BootBlock, AcquireResident(b) \/ AcquireOffloaded(b)
      PROVE  Cache!Fetch(b)
  <2>1. program # <<>> /\ held = {} /\ b \in Registered
    BY <1>4, NextIsRegistered DEF AcquireResident, AcquireOffloaded
  <2>2. Registered' = Registered
    BY <1>4 DEF AcquireResident, AcquireOffloaded, Registered, blockVars
  <2>3. CASE AcquireResident(b)
    BY <2>1, <2>2, <2>3 DEF AcquireResident, blockVars, Cache!Fetch, Cache!MayLose
  <2>4. CASE AcquireOffloaded(b)
    <3>1. Victims(bootBudget, Bytes[b], {b}) \subseteq has_snapshot
      BY VictimsEvictable
    <3>2. b \in has_snapshot
      BY <2>1, <2>4 DEF AcquireOffloaded, TypeOK
    <3> QED BY <2>1, <2>2, <2>4, <3>1, <3>2
            DEF AcquireOffloaded, Cache!Fetch, Cache!MayLose
  <2> QED BY <1>4, <2>3, <2>4
<1>5. RunStage => Cache!Enqueue
  BY DEF RunStage, blockVars, Cache!Enqueue, Registered
<1>6. StageThrows => Cache!Enqueue \/ Cache!GiveUp
  BY DEF StageThrows, blockVars, Cache!Enqueue, Cache!GiveUp, Registered
<1>7. ASSUME NEW b \in BootBlock, KernelDone(b)
      PROVE  Cache!Complete
  BY <1>7 DEF KernelDone, blockVars, runVars, Cache!Complete, Registered
<1>8. ASSUME (\E s \in Slots : Bootstrap(s)) \/ UNCHANGED bootVars
      PROVE  UNCHANGED Cache!vars
  BY <1>8 DEF Bootstrap, blockVars, bootVars, runVars, Cache!vars, Registered
<1>9. CASE \E s \in Slots : AddBootPrecomputation(s) \/ ClearBootPrecomputation(s)
  BY <1>1, <1>2, <1>9 DEF Cache!Next
<1>10. CASE (\E limit \in BootBudgets : SetBootstrapCache(limit)) \/ OffloadBootstrapPrecomputation
  BY <1>3, <1>10 DEF SetBootstrapCache, OffloadBootstrapPrecomputation, Cache!Next
<1>11. CASE \E b \in BootBlock : AcquireResident(b) \/ AcquireOffloaded(b) \/ KernelDone(b)
  BY <1>4, <1>7, <1>11 DEF Cache!Next
<1>12. CASE RunStage \/ StageThrows
  BY <1>5, <1>6, <1>12 DEF Cache!Next
<1> QED BY <1>8, <1>9, <1>10, <1>11, <1>12 DEF BootNext

\* The bootstrap cache implements the abstract cache, whatever its order of
\* eviction: it only takes off the device what can come back, what no stage is
\* about to use and what no kernel reads.
THEOREM RefinesVramCache == BootSpec => ImplementsVramCache
<1>1. BootInit => Cache!Init
  BY DEF BootInit, Cache!Init, Registered
<1>2. IInv /\ [BootNext]_bootVars => [Cache!Next]_(Cache!vars)
  BY StepRefines
<1> QED BY <1>1, <1>2, Invariance, PTL DEF BootSpec, ImplementsVramCache, Cache!Spec
-----------------------------------------------------------------------------
(* How much is evicted                                                     *)

\* Only groups that have been used can be evicted.
UsedListed == resident \cap has_snapshot \subseteq Elems(last_use)

LEMMA BytesAreTotal == \A S : TotalBytes(S) = Total(Bytes, S)
BY DEF TotalBytes, MapThenSumSet, Total, FoldSet, MapThenFoldSet

LEMMA ByteFacts ==
    /\ IsFiniteSet(BootBlock) /\ Bytes \in [BootBlock -> Nat]
    /\ \A b \in BootBlock : Bytes[b] > 0
    /\ TotalBytes({}) = 0
    /\ \A T \in SUBSET BootBlock : TotalBytes(T) \in Nat
    /\ \A T \in SUBSET BootBlock : \A S \in SUBSET T : TotalBytes(S) <= TotalBytes(T)
    /\ \A T \in SUBSET BootBlock : \A b \in BootBlock \ T :
          TotalBytes(T \cup {b}) = TotalBytes(T) + Bytes[b]
<1>1. IsFiniteSet(BootBlock) /\ Bytes \in [BootBlock -> Nat \ {0}]
  BY BootstrapAssumption DEF BootstrapAssumption
<1>2. Bytes \in [BootBlock -> Nat] /\ \A b \in BootBlock : Bytes[b] > 0
  BY <1>1
<1> QED BY <1>1, <1>2, BytesAreTotal, TotalWithout, TotalAtMost, TotalWith

LEMMA BudgetTypes == ASSUME TypeOK PROVE resident \in SUBSET BootBlock /\ bootBudget \in Nat
<1>1. Registered \in SUBSET BootBlock
  BY BlocksDisjoint DEF TypeOK, Registered
<1> QED BY <1>1, BootstrapAssumption DEF TypeOK, BootstrapAssumption

\* An eviction makes room for what comes in, or takes every group it may.
LEMMA VictimsSuffice ==
    ASSUME IInv, UsedListed, NEW limit \in Nat, NEW incoming \in Nat, NEW keep
    PROVE  LET left == resident \ Victims(limit, incoming, keep)
           IN  TotalBytes(left) + incoming <= limit \/ left \cap has_snapshot \subseteq keep
<1> DEFINE V == Victims(limit, incoming, keep)
           C == Candidates(keep)
           earlier(b) == {c \in C : EvictedBefore(c, b)}
           T == {i \in DOMAIN last_use : last_use[i] \in C \ V}
<1>1. /\ C = {b \in resident \cap has_snapshot : b \notin keep}
      /\ V = {b \in C : TotalBytes(resident \ earlier(b)) + incoming > limit}
  BY DEF Candidates, Victims
<1>2. /\ resident \in SUBSET BootBlock
      /\ DOMAIN last_use \subseteq Nat /\ Distinct(last_use)
  <2>1. last_use \in Seq(BootBlock) /\ Distinct(last_use)
    BY DEF IInv, TypeOK, RunShape
  <2> QED BY <2>1, BudgetTypes, LenProperties DEF IInv
<1> HIDE DEF V, C
<1>3. CASE T = {}
  <2>1. C \ V = {}
    BY <1>1, <1>3 DEF UsedListed, Elems
  <2> QED BY <1>1, <2>1 DEF V
<1>4. CASE T # {}
  <2>1. T \in SUBSET Nat
    BY <1>2
  <2>2. PICK i \in T : \A j \in T : i <= j
    BY <1>4, <2>1, LeastElement
  <2> DEFINE b == last_use[i]
  <2>3. b \in C \ V /\ i \in DOMAIN last_use
    BY <2>2
  <2>4. earlier(b) \subseteq V
    <3> SUFFICES ASSUME NEW c \in C, EvictedBefore(c, b), c \notin V PROVE FALSE
      OBVIOUS
    <3>1. PICK k \in DOMAIN last_use, m \in DOMAIN last_use :
                k < m /\ last_use[k] = c /\ last_use[m] = b
      BY DEF EvictedBefore
    <3>2. m = i
      BY <1>2, <2>3, <3>1 DEF Distinct
    <3>3. k \in T
      BY <3>1
    <3>4. k \in Nat /\ i \in Nat
      BY <1>2, <2>3, <3>1
    <3> QED BY <2>2, <3>1, <3>2, <3>3, <3>4
  <2>5. TotalBytes(resident \ V) <= TotalBytes(resident \ earlier(b))
    <3>1. resident \ V \in SUBSET (resident \ earlier(b))
      BY <2>4
    <3>2. resident \ earlier(b) \in SUBSET BootBlock
      BY <1>2
    <3> QED BY <3>1, <3>2, ByteFacts
  <2>6. ~ (TotalBytes(resident \ earlier(b)) + incoming > limit)
    BY <1>1, <2>3
  <2>7. TotalBytes(resident \ V) \in Nat /\ TotalBytes(resident \ earlier(b)) \in Nat
    <3>1. resident \ V \in SUBSET BootBlock /\ resident \ earlier(b) \in SUBSET BootBlock
      BY <1>2
    <3> QED BY <3>1, ByteFacts
  <2>8. TotalBytes(resident \ V) + incoming <= limit
    <3> HIDE DEF earlier, b
    <3> QED BY <2>5, <2>6, <2>7
  <2> QED BY <2>8 DEF V
<1> QED BY <1>3, <1>4

\* What an eviction that empties the cache, or meets the budget, leaves is within it.
LEMMA EvictedSoft ==
    ASSUME IInv, UsedListed, NEW limit \in Nat, Evict(limit), bootBudget' \in Nat, limit <= bootBudget'
    PROVE  BudgetSoftByOne'
<1>1. resident' = resident \ Victims(limit, 0, {}) /\ has_snapshot' = has_snapshot
  BY DEF Evict
<1>2. resident' \in SUBSET BootBlock
  BY <1>1, BudgetTypes DEF IInv
<1>3. TotalBytes(resident') \in Nat
  BY <1>2, ByteFacts
<1>4. TotalBytes(resident') + 0 <= limit \/ resident' \cap has_snapshot \subseteq {}
  BY <1>1, VictimsSuffice
<1>5. Cardinality({}) = 0
  BY FS_EmptySet
<1> QED BY <1>1, <1>3, <1>4, <1>5 DEF BudgetSoftByOne

\* A step neither leaves a group that was never used where it can be evicted, nor
\* two groups that can be evicted where there is no budget for them.
LEMMA StepKeepsSoft ==
    ASSUME IInv, UsedListed, BudgetSoftByOne, [BootNext]_bootVars
    PROVE  UsedListed' /\ BudgetSoftByOne'
<1>1. /\ IInv' /\ resident \in SUBSET BootBlock /\ resident' \in SUBSET BootBlock
      /\ bootBudget \in Nat /\ bootBudget' \in Nat
  <2>1. IInv'
    BY StepKeepsInv
  <2>2. TypeOK /\ TypeOK'
    BY <2>1 DEF IInv
  <2>3. resident' \in SUBSET BootBlock
    <3>1. Registered' \in SUBSET BootBlock
      BY <2>2, BlocksDisjoint DEF TypeOK, Registered
    <3> QED BY <2>2, <3>1 DEF TypeOK
  <2>4. bootBudget' \in Nat
    BY <2>2, BootstrapAssumption DEF TypeOK, BootstrapAssumption
  <2> QED BY <2>1, <2>2, <2>3, <2>4, BudgetTypes
<1>2. ASSUME UNCHANGED <<blockVars, last_use, bootBudget>>
      PROVE  UsedListed' /\ BudgetSoftByOne'
  BY <1>2 DEF blockVars, UsedListed, BudgetSoftByOne
<1>3. ASSUME resident' \cap has_snapshot' \subseteq resident \cap has_snapshot,
             UNCHANGED <<last_use, bootBudget>>, resident' \subseteq resident
      PROVE  UsedListed' /\ BudgetSoftByOne'
  <2>1. UsedListed'
    BY <1>3 DEF UsedListed
  <2>2. TotalBytes(resident') <= TotalBytes(resident)
        /\ TotalBytes(resident') \in Nat /\ TotalBytes(resident) \in Nat
    BY <1>1, <1>3, ByteFacts
  <2>3. /\ Cardinality(resident' \cap has_snapshot') <= Cardinality(resident \cap has_snapshot)
        /\ Cardinality(resident' \cap has_snapshot') \in Nat
        /\ Cardinality(resident \cap has_snapshot) \in Nat
    <3>1. IsFiniteSet(resident \cap has_snapshot)
      <4>1. resident \cap has_snapshot \in SUBSET BootBlock
        BY <1>1
      <4> QED BY <4>1, ByteFacts, FS_Subset
    <3> QED BY <1>3, <3>1, FS_Subset, FS_CardinalityType
  <2> QED BY <1>1, <1>3, <2>1, <2>2, <2>3 DEF BudgetSoftByOne
<1>4. ASSUME NEW s \in Slots, AddBootPrecomputation(s)
      PROVE  UsedListed' /\ BudgetSoftByOne'
  <2>1. UNCHANGED <<last_use, bootBudget>>
    BY <1>4 DEF AddBootPrecomputation
  <2>2. BlocksOf(s) \cap Registered = {}
    <3>1. s \notin boot /\ \A t \in boot : BlocksOf(t) \cap BlocksOf(s) = {}
      BY <1>4, BlocksDisjoint DEF AddBootPrecomputation, IInv, TypeOK
    <3> QED BY <3>1 DEF Registered
  <2>3. CASE Lazy
    <3>1. resident' = resident /\ has_snapshot' = has_snapshot \cup BlocksOf(s)
      BY <1>4, <2>3 DEF AddBootPrecomputation
    <3>2. resident' \cap has_snapshot' \subseteq resident \cap has_snapshot
      BY <2>2, <3>1 DEF IInv, TypeOK
    <3> QED BY <1>3, <2>1, <3>1, <3>2
  <2>4. CASE ~ Lazy
    <3>1. resident' = resident \cup BlocksOf(s) /\ has_snapshot' = has_snapshot
          /\ bootBudget = Unlimited
      BY <1>4, <2>4 DEF AddBootPrecomputation, Lazy
    <3>2. UsedListed'
      BY <2>1, <2>2, <3>1 DEF UsedListed, IInv, TypeOK
    <3>3. TotalBytes(resident') <= TotalBytes(BootBlock)
          /\ TotalBytes(resident') \in Nat /\ TotalBytes(BootBlock) \in Nat
          /\ TotalBytes(BootBlock) <= Unlimited /\ Unlimited \in Nat
      BY <1>1, ByteFacts, BootstrapAssumption DEF BootstrapAssumption
    <3> QED BY <2>1, <3>1, <3>2, <3>3 DEF BudgetSoftByOne
  <2> QED BY <2>3, <2>4
<1>5. ASSUME NEW s \in Slots, ClearBootPrecomputation(s)
      PROVE  UsedListed' /\ BudgetSoftByOne'
  BY <1>3, <1>5 DEF ClearBootPrecomputation, Forget
<1>6. ASSUME NEW limit \in Nat, Evict(limit), limit <= bootBudget'
      PROVE  UsedListed' /\ BudgetSoftByOne'
  <2>1. BudgetSoftByOne'
    BY <1>1, <1>6, EvictedSoft
  <2> QED BY <1>6, <2>1 DEF Evict, UsedListed
<1>7. ASSUME NEW limit \in BootBudgets, SetBootstrapCache(limit)
      PROVE  UsedListed' /\ BudgetSoftByOne'
  <2>1. limit \in Nat /\ limit <= limit
    BY BootstrapAssumption DEF BootstrapAssumption
  <2> QED BY <1>6, <1>7, <2>1 DEF SetBootstrapCache
<1>8. CASE OffloadBootstrapPrecomputation
  BY <1>1, <1>6, <1>8 DEF OffloadBootstrapPrecomputation
<1>9. ASSUME NEW b \in BootBlock, AcquireResident(b) \/ AcquireOffloaded(b)
      PROVE  UsedListed' /\ BudgetSoftByOne'
  <2>1. /\ Elems(last_use') = Elems(last_use) \cup {b}
        /\ UNCHANGED <<has_snapshot, bootBudget>>
    BY <1>9, ToFrontElements
    DEF AcquireResident, AcquireOffloaded, blockVars, IInv, TypeOK, RunShape
  <2>2. CASE AcquireResident(b)
    BY <2>1, <2>2 DEF AcquireResident, blockVars, UsedListed, BudgetSoftByOne
  <2>3. CASE AcquireOffloaded(b)
    <3> DEFINE left == resident \ Victims(bootBudget, Bytes[b], {b})
    <3>1. resident' = left \cup {b} /\ b \notin left
      BY <2>3 DEF AcquireOffloaded
    <3>2. UsedListed'
      BY <2>1, <3>1 DEF UsedListed
    <3>3. Bytes[b] \in Nat
      BY ByteFacts
    <3>4. TotalBytes(left) + Bytes[b] <= bootBudget \/ left \cap has_snapshot \subseteq {b}
      BY <1>1, <3>3, VictimsSuffice
    <3>5. left \in SUBSET BootBlock
      BY <1>1
    <3> HIDE DEF left
    <3>6. TotalBytes(resident') = TotalBytes(left) + Bytes[b] /\ TotalBytes(left) \in Nat
      BY <3>1, <3>5, ByteFacts
    <3>7. left \cap has_snapshot \subseteq {b} =>
             Cardinality(resident' \cap has_snapshot') <= 1
      <4>1. Cardinality({}) = 0 /\ Cardinality({b}) = 1
        BY FS_EmptySet, FS_Singleton
      <4>2. left \cap has_snapshot \subseteq {b} =>
               resident' \cap has_snapshot' = {} \/ resident' \cap has_snapshot' = {b}
        BY <2>1, <3>1
      <4> QED BY <4>1, <4>2
    <3> QED BY <1>1, <2>1, <3>2, <3>3, <3>4, <3>6, <3>7 DEF BudgetSoftByOne
  <2> QED BY <1>9, <2>2, <2>3
<1>10. ASSUME \/ \E s \in Slots : Bootstrap(s)
              \/ RunStage \/ StageThrows \/ \E b \in BootBlock : KernelDone(b)
              \/ UNCHANGED bootVars
       PROVE  UNCHANGED <<blockVars, last_use, bootBudget>>
  BY <1>10 DEF Bootstrap, RunStage, StageThrows, KernelDone, bootVars
<1> QED BY <1>2, <1>4, <1>5, <1>7, <1>8, <1>9, <1>10 DEF BootNext

LEMMA InitSoft == BootInit => UsedListed /\ BudgetSoftByOne
<1> SUFFICES ASSUME BootInit PROVE UsedListed /\ BudgetSoftByOne
  OBVIOUS
<1>1. resident = {} /\ bootBudget \in Nat
  BY BootstrapAssumption DEF BootInit, BootstrapAssumption
<1> QED BY <1>1, ByteFacts DEF UsedListed, BudgetSoftByOne

\* Above the budget there is at most one group that could be evicted: an eviction
\* stops only where what comes in fits, or where nothing is left to take.
THEOREM BudgetAlwaysSoft == BootSpec => []BudgetSoftByOne
<1>1. BootInit => UsedListed /\ BudgetSoftByOne
  BY InitSoft
<1>2. IInv /\ (UsedListed /\ BudgetSoftByOne) /\ [BootNext]_bootVars => (UsedListed /\ BudgetSoftByOne)'
  BY StepKeepsSoft
<1> QED BY <1>1, <1>2, Invariance, PTL DEF BootSpec
-----------------------------------------------------------------------------
(* What a repeated bootstrap reuses                                        *)

\* The groups the running bootstrap has still to acquire, and the others.
Waiting == Elems(program) \ held
Visited == BlocksOf(running) \ Waiting

\* The conditions under which a repeated bootstrap reuses something
Roomy == repeated /\ boot = {running} /\ 2 * LargestBytes <= bootBudget

\* The groups visited are the most recently used.  If all of them had to be reloaded
\* although there is room, some group is resident that has still to be visited.
ReuseInv ==
    /\ last_run # NoSlots => running = NoSlots /\ resident \cap BlocksOf(last_run) # {}
    /\ running # NoSlots =>
          /\ Distinct(program) /\ (held = {} \/ held = {Head(program)})
          /\ reloaded <= TotalBytes(Visited)
          /\ Visited \subseteq Elems(last_use)
          /\ \A v \in Visited, w \in Waiting \cap Elems(last_use) : Before(last_use, v, w)
          /\ Roomy /\ reloaded = TotalBytes(Visited) =>
                resident \cap Waiting # {} /\ Visited \cap resident \subseteq has_snapshot

LEMMA LargestFacts ==
    ASSUME NEW b \in BootBlock
    PROVE  LargestBytes \in Nat /\ Bytes[b] <= LargestBytes
<1> DEFINE all == TotalBytes(BootBlock)
           T == {all - Bytes[c] : c \in BootBlock}
<1>1. all \in Nat
  BY ByteFacts
<1>2. \A c \in BootBlock : Bytes[c] \in Nat /\ Bytes[c] <= all
  <2> TAKE c \in BootBlock
  <2>1. BootBlock \ {c} \in SUBSET BootBlock /\ c \in BootBlock \ (BootBlock \ {c})
        /\ (BootBlock \ {c}) \cup {c} = BootBlock
    OBVIOUS
  <2>2. all = TotalBytes(BootBlock \ {c}) + Bytes[c] /\ TotalBytes(BootBlock \ {c}) \in Nat
    BY <2>1, ByteFacts
  <2>3. Bytes[c] \in Nat
    BY ByteFacts
  <2> HIDE DEF all
  <2> QED BY <2>2, <2>3
<1> HIDE DEF all
<1>3. T \in SUBSET Nat /\ T # {}
  BY <1>1, <1>2
<1>4. PICK x \in T : \A y \in T : x <= y
  BY <1>3, LeastElement
<1>5. PICK c \in BootBlock : x = all - Bytes[c]
  BY <1>4
<1>6. ASSUME NEW d \in BootBlock PROVE Bytes[d] <= Bytes[c]
  <2>1. all - Bytes[c] <= all - Bytes[d]
    BY <1>4, <1>5
  <2> QED BY <1>1, <1>2, <2>1
<1> DEFINE L == {Bytes[e] : e \in BootBlock}
<1>7. Bytes[c] \in L /\ \A d \in BootBlock : Bytes[d] <= Bytes[c]
  BY <1>6
<1>8. LargestBytes \in L /\ \A d \in BootBlock : Bytes[d] <= LargestBytes
  BY <1>7 DEF LargestBytes
<1> QED BY <1>2, <1>8

\* With room for two groups, bringing in the one and evicting the groups used since
\* last leaves a group that the bootstrap has still to visit.
LEMMA AcquireSpares ==
    ASSUME IInv, UsedListed, ReuseInv, running # NoSlots, Roomy, reloaded = TotalBytes(Visited),
           NEW b \in Waiting, b \notin resident
    PROVE  (resident \ Victims(bootBudget, Bytes[b], {b})) \cap (Waiting \ {b}) # {}
<1> DEFINE U == resident \cap Waiting
           V == Victims(bootBudget, Bytes[b], {b})
           C == Candidates({b})
           earlier(c) == {d \in C : EvictedBefore(d, c)}
<1>1. /\ C = {c \in resident \cap has_snapshot : c \notin {b}}
      /\ V = {c \in C : TotalBytes(resident \ earlier(c)) + Bytes[b] > bootBudget}
  BY DEF Candidates, Victims
<1>2. /\ U # {} /\ Visited \cap resident \subseteq has_snapshot
      /\ \A v \in Visited, w \in Waiting \cap Elems(last_use) : Before(last_use, v, w)
  BY DEF ReuseInv
<1>3. resident \subseteq Visited \cup Waiting /\ Visited \cap Waiting = {}
  <2>1. resident \subseteq BlocksOf(running)
    BY DEF IInv, TypeOK, Registered, Roomy
  <2> QED BY <2>1 DEF Visited
<1>4. /\ b \in BootBlock /\ resident \in SUBSET BootBlock /\ bootBudget \in Nat
  <2>1. program \in Seq(BlocksOf(running)) /\ running \in Slots
    BY DEF IInv, RunShape, TypeOK
  <2>2. b \in BlocksOf(running)
    BY <2>1, LenProperties DEF Waiting, Elems
  <2> QED BY <2>1, <2>2, BlocksDisjoint, BudgetTypes DEF IInv
<1> HIDE DEF V, C
<1>5. CASE ~ (U \subseteq has_snapshot)
  BY <1>1, <1>5 DEF V
<1>6. CASE U \subseteq has_snapshot
  <2> DEFINE n == Len(last_use)
             T == {i \in 1..n : last_use[i] \in U}
             i == Max(T)
             u == last_use[i]
  <2>1. n \in Nat /\ DOMAIN last_use = 1..n
    BY LenProperties DEF IInv, TypeOK
  <2>2. U \subseteq Elems(last_use)
    BY <1>6 DEF UsedListed
  <2>3. T # {} /\ T \in SUBSET (1..n)
    BY <1>2, <2>1, <2>2 DEF Elems
  <2>4. i \in T /\ \A k \in T : i >= k
    BY <2>1, <2>3, LargestIndex
  <2> HIDE DEF i
  <2>5. u \in U /\ i \in 1..n /\ u # b
    BY <2>4
  <2>6. resident \ earlier(u) \subseteq {u}
    <3> SUFFICES ASSUME NEW w \in resident, w # u PROVE w \in C /\ EvictedBefore(w, u)
      OBVIOUS
    <3>1. w # b
      OBVIOUS
    <3>2. CASE w \in Visited
      BY <1>1, <1>2, <2>2, <2>5, <3>1, <3>2 DEF Before, EvictedBefore
    <3>3. CASE w \in Waiting
      <4>1. w \in U /\ w \in has_snapshot
        BY <1>6, <3>3
      <4>2. PICK k \in 1..n : last_use[k] = w
        BY <2>1, <2>2, <4>1 DEF Elems
      <4>3. k \in T /\ k # i /\ i \in Nat /\ k \in Nat
        BY <2>1, <2>5, <4>1, <4>2
      <4>4. k < i
        BY <2>4, <4>3
      <4>5. EvictedBefore(w, u)
        BY <2>1, <2>5, <4>2, <4>4 DEF EvictedBefore
      <4> QED BY <1>1, <3>1, <4>1, <4>5
    <3> QED BY <1>3, <3>2, <3>3
  <2>7. TotalBytes(resident \ earlier(u)) <= Bytes[u] /\ u \in BootBlock
        /\ TotalBytes(resident \ earlier(u)) \in Nat
    <3>1. u \in BootBlock
      BY <1>4, <2>5
    <3>2. {u} \in SUBSET BootBlock /\ resident \ earlier(u) \in SUBSET {u}
          /\ resident \ earlier(u) \in SUBSET BootBlock
      BY <2>6, <3>1
    <3>3. TotalBytes(resident \ earlier(u)) <= TotalBytes({u})
          /\ TotalBytes(resident \ earlier(u)) \in Nat
      BY <3>2, ByteFacts
    <3>4. TotalBytes({} \cup {u}) = TotalBytes({}) + Bytes[u] /\ {} \cup {u} = {u}
      BY <3>1, ByteFacts
    <3>5. TotalBytes({u}) = Bytes[u]
      <4>1. TotalBytes({}) = 0 /\ Bytes[u] \in Nat
        BY <3>1, ByteFacts
      <4> QED BY <3>4, <4>1
    <3> QED BY <3>1, <3>3, <3>5
  <2>8. Bytes[u] <= LargestBytes /\ Bytes[b] <= LargestBytes /\ LargestBytes \in Nat
        /\ 2 * LargestBytes <= bootBudget /\ Bytes[u] \in Nat /\ Bytes[b] \in Nat
    BY <1>4, <2>7, LargestFacts, ByteFacts DEF Roomy
  <2>9. ~ (TotalBytes(resident \ earlier(u)) + Bytes[b] > bootBudget)
    <3> HIDE DEF earlier, u
    <3> QED BY <1>4, <2>7, <2>8
  <2>10. u \notin V
    BY <1>1, <2>9
  <2> QED BY <2>5, <2>10 DEF V
<1> QED BY <1>5, <1>6

\* The next group of a bootstrap is acquired.
LEMMA AcquireKeepsReuse ==
    ASSUME IInv, UsedListed, ReuseInv, NEW b \in BootBlock, AcquireResident(b) \/ AcquireOffloaded(b)
    PROVE  ReuseInv'
<1>1. /\ program # <<>> /\ held = {} /\ b = Head(program) /\ held' = {b}
      /\ last_use' = ToFront(last_use, b)
      /\ UNCHANGED <<boot, has_snapshot, bootBudget, running, program, last_run, repeated>>
  BY DEF AcquireResident, AcquireOffloaded, blockVars, histVars
<1>2. /\ running # NoSlots /\ program \in Seq(BlocksOf(running)) /\ running \in Slots
      /\ Distinct(program) /\ last_use \in Seq(BootBlock) /\ Distinct(last_use)
      /\ b \in Registered /\ last_run = NoSlots
  BY <1>1, NextIsRegistered DEF IInv, TypeOK, RunShape, ReuseInv
<1>3. b \in Elems(program) /\ Elems(program) \subseteq BlocksOf(running)
  <2>1. b \in Elems(program)
    BY <1>1, <1>2, TailElements
  <2> QED BY <1>2, <2>1, LenProperties DEF Elems
<1>4. /\ Waiting = Elems(program) /\ Waiting' = Waiting \ {b} /\ b \in Waiting
      /\ Visited' = Visited \cup {b} /\ b \notin Visited
  BY <1>1, <1>3 DEF Waiting, Visited, BlocksOf
<1>5. /\ Elems(last_use') = Elems(last_use) \cup {b}
      /\ \A y \in Elems(last_use) \ {b} : Before(last_use', b, y)
      /\ \A x, y : x # b /\ y # b /\ Before(last_use, x, y) => Before(last_use', x, y)
  <2>1. Elems(ToFront(last_use, b)) = Elems(last_use) \cup {b}
    BY <1>2, ToFrontElements
  <2>2. /\ \A y \in Elems(last_use) \ {b} : Before(ToFront(last_use, b), b, y)
        /\ \A x, y : x # b /\ y # b /\ Before(last_use, x, y) => Before(ToFront(last_use, b), x, y)
    BY <1>2, ToFrontOrder
  <2> QED BY <1>1, <2>1, <2>2
<1>6. Visited' \subseteq Elems(last_use')
  BY <1>2, <1>4, <1>5 DEF ReuseInv
<1>7. ASSUME NEW v \in Visited', NEW w \in (Waiting \cap Elems(last_use))'
      PROVE  Before(last_use', v, w)
  <2>1. w \in Waiting \ {b} /\ w \in Elems(last_use)
    BY <1>4, <1>5, <1>7
  <2>2. CASE v = b
    BY <1>5, <2>1, <2>2
  <2>3. CASE v # b
    <3>1. Before(last_use, v, w)
      BY <1>2, <1>4, <1>7, <2>1, <2>3 DEF ReuseInv
    <3> QED BY <1>5, <2>1, <2>3, <3>1
  <2> QED BY <2>2, <2>3
<1>8. /\ TotalBytes(Visited') = TotalBytes(Visited) + Bytes[b] /\ TotalBytes(Visited) \in Nat
      /\ Bytes[b] \in Nat /\ Bytes[b] > 0 /\ reloaded \in Nat /\ reloaded <= TotalBytes(Visited)
  <2>1. Visited \in SUBSET BootBlock /\ b \in BootBlock \ Visited
    BY <1>2, <1>4, BlocksDisjoint DEF Visited
  <2> QED BY <1>2, <1>4, <2>1, ByteFacts DEF ReuseInv, IInv, TypeOK
<1>9. CASE AcquireResident(b)
  <2>1. reloaded' = reloaded
    BY <1>9 DEF AcquireResident, histVars
  <2>2. reloaded' <= TotalBytes(Visited') /\ reloaded' # TotalBytes(Visited')
    BY <1>8, <2>1
  <2> QED BY <1>1, <1>2, <1>6, <1>7, <2>2 DEF ReuseInv
<1>10. CASE AcquireOffloaded(b)
  <2>1. /\ reloaded' = reloaded + Bytes[b] /\ b \notin resident
        /\ resident' = (resident \ Victims(bootBudget, Bytes[b], {b})) \cup {b}
    BY <1>10 DEF AcquireOffloaded
  <2>2. reloaded' <= TotalBytes(Visited')
    BY <1>8, <2>1
  <2>3. ASSUME Roomy', reloaded' = TotalBytes(Visited')
        PROVE  (resident \cap Waiting)' # {} /\ (Visited \cap resident)' \subseteq has_snapshot'
    <3>1. Roomy /\ reloaded = TotalBytes(Visited)
      <4>1. reloaded = TotalBytes(Visited)
        BY <1>8, <2>1, <2>3
      <4> QED BY <1>1, <2>3, <4>1 DEF Roomy
    <3>2. (resident \ Victims(bootBudget, Bytes[b], {b})) \cap (Waiting \ {b}) # {}
      BY <1>2, <1>4, <2>1, <3>1, AcquireSpares
    <3>3. b \in has_snapshot
      BY <1>2, <2>1 DEF IInv, TypeOK
    <3>4. Visited \cap resident \subseteq has_snapshot
      BY <1>2, <3>1 DEF ReuseInv
    <3> QED BY <1>1, <1>4, <2>1, <3>2, <3>3, <3>4
  <2> QED BY <1>1, <1>2, <1>6, <1>7, <2>2, <2>3 DEF ReuseInv
<1> QED BY <1>9, <1>10

\* A bootstrap that repeats the last one finds a group where that one left it.
LEMMA BeginKeepsReuse ==
    ASSUME IInv, ReuseInv, NEW s \in Slots, Bootstrap(s)
    PROVE  ReuseInv'
<1>1. /\ running = NoSlots /\ held = {} /\ running' = s /\ program' = Stages[s] /\ held' = {}
      /\ repeated' = (last_run = s) /\ reloaded' = 0 /\ last_run' = NoSlots
      /\ UNCHANGED <<resident, has_snapshot>>
  BY DEF Bootstrap, Quiet, blockVars, IInv, RunShape
<1>2. s # NoSlots /\ Distinct(Stages[s])
  BY BootstrapAssumption DEF BootstrapAssumption
<1>3. Waiting' = BlocksOf(s) /\ Visited' = {}
  BY <1>1 DEF Waiting, Visited, BlocksOf
<1>4. TotalBytes(Visited') = 0
  BY <1>3, ByteFacts
<1>5. Roomy' => resident' \cap Waiting' # {}
  BY <1>1, <1>2, <1>3 DEF Roomy, ReuseInv
<1> QED BY <1>1, <1>2, <1>3, <1>4, <1>5 DEF ReuseInv

\* The kernels of a stage; the last of them leave the bootstrap the last call.
LEMMA StageKeepsReuse ==
    ASSUME IInv, ReuseInv, RunStage
    PROVE  ReuseInv'
<1>1. /\ held # {} /\ held' = {} /\ program' = Tail(program)
      /\ UNCHANGED <<blockVars, last_use, bootBudget, repeated, reloaded>>
      /\ IF Tail(program) = <<>> THEN running' = NoSlots /\ last_run' = running
                                 ELSE UNCHANGED <<running, last_run>>
  BY DEF RunStage
<1>2. /\ running # NoSlots /\ program \in Seq(BlocksOf(running)) /\ program # <<>>
      /\ Distinct(program) /\ held = {Head(program)}
  BY <1>1 DEF IInv, RunShape, ReuseInv
<1>3. /\ Elems(Tail(program)) = Elems(program) \ {Head(program)} /\ Distinct(Tail(program))
      /\ Head(program) \in Elems(program) /\ Head(program) \in BlocksOf(running)
  BY <1>2, TailElements, HeadTailProperties
<1>4. CASE Tail(program) = <<>>
  <2>1. Head(program) \in resident
    BY <1>2 DEF IInv, InUseResident
  <2> QED BY <1>1, <1>2, <1>3, <1>4, <2>1 DEF ReuseInv, blockVars, BlocksOf
<1>5. CASE Tail(program) # <<>>
  <2>1. Waiting' = Waiting /\ Visited' = Visited
    BY <1>1, <1>2, <1>3, <1>5 DEF Waiting, Visited, BlocksOf
  <2>2. Roomy' = Roomy
    BY <1>1, <1>5 DEF Roomy, blockVars
  <2> QED BY <1>1, <1>2, <1>3, <1>5, <2>1, <2>2 DEF ReuseInv, blockVars
<1> QED BY <1>4, <1>5

LEMMA StepKeepsReuse ==
    ASSUME IInv, UsedListed, ReuseInv, [BootNext]_bootVars
    PROVE  ReuseInv'
<1>1. ASSUME running' = NoSlots, last_run' = NoSlots PROVE ReuseInv'
  BY <1>1 DEF ReuseInv
<1>2. CASE \/ \E s \in Slots : AddBootPrecomputation(s) \/ ClearBootPrecomputation(s)
           \/ \E limit \in BootBudgets : SetBootstrapCache(limit)
           \/ OffloadBootstrapPrecomputation
  BY <1>1, <1>2 DEF AddBootPrecomputation, ClearBootPrecomputation, SetBootstrapCache,
     OffloadBootstrapPrecomputation, Evict, Quiet, runVars
<1>3. CASE StageThrows
  <2>1. running # NoSlots
    BY <1>3 DEF StageThrows, IInv, RunShape
  <2> QED BY <1>1, <1>3, <2>1 DEF StageThrows, histVars, ReuseInv
<1>4. CASE UNCHANGED <<blockVars, last_use, bootBudget, runVars, histVars>>
  <2>1. UNCHANGED <<boot, resident, has_snapshot, last_use, bootBudget, running, program, held,
                    last_run, repeated, reloaded>>
    BY <1>4 DEF blockVars, runVars, histVars
  <2>2. Waiting' = Waiting /\ Visited' = Visited /\ Roomy' = Roomy
    BY <2>1 DEF Waiting, Visited, Roomy, BlocksOf
  <2> QED BY <2>1, <2>2 DEF ReuseInv, BlocksOf
<1>5. CASE UNCHANGED bootVars \/ \E b \in BootBlock : KernelDone(b)
  BY <1>4, <1>5 DEF bootVars, KernelDone
<1> QED BY <1>2, <1>3, <1>5, AcquireKeepsReuse, BeginKeepsReuse, StageKeepsReuse DEF BootNext

\* A bootstrap ends with the kernels of its last stage, or with an exception.
LEMMA EndOfRun ==
    ASSUME IInv, [BootNext]_bootVars, running # NoSlots, running' = NoSlots
    PROVE  RunStage \/ StageThrows
BY DEF BootNext, AddBootPrecomputation, ClearBootPrecomputation, SetBootstrapCache,
   OffloadBootstrapPrecomputation, Evict, Quiet, runVars, Bootstrap, AcquireResident,
   AcquireOffloaded, KernelDone, bootVars

\* A bootstrap that repeats the last call, with the cache to itself and room for two
\* groups, finds at least one of its groups in VRAM: evicting the most recently used
\* first does what it is for.
THEOREM RepeatReuses == BootSpec => ReusesStages
<1> DEFINE Reuses(s) ==
              /\ Completes(s) /\ repeated
              /\ boot = {s} /\ Len(Stages[s]) > 1
              /\ 2 * LargestBytes <= bootBudget
              => reloaded < TotalBytes(BlocksOf(s))
<1>1. BootInit => UsedListed /\ BudgetSoftByOne /\ ReuseInv
  BY InitSoft DEF BootInit, ReuseInv
<1>2. IInv /\ (UsedListed /\ BudgetSoftByOne /\ ReuseInv) /\ [BootNext]_bootVars
         => (UsedListed /\ BudgetSoftByOne /\ ReuseInv)'
  BY StepKeepsSoft, StepKeepsReuse
<1>3. ASSUME IInv, ReuseInv, [BootNext]_bootVars
      PROVE  [\A s \in Slots : Reuses(s)]_bootVars
  <2> SUFFICES ASSUME NEW s \in Slots, Completes(s), repeated, boot = {s},
                      2 * LargestBytes <= bootBudget
               PROVE  reloaded < TotalBytes(BlocksOf(s))
    OBVIOUS
  <2>1. running = s /\ s # NoSlots /\ running' = NoSlots /\ last_run' = s
    BY BootstrapAssumption DEF Completes, BootstrapAssumption
  <2>2. RunStage
    <3>1. last_run = NoSlots
      BY <1>3, <2>1 DEF ReuseInv
    <3> QED BY <1>3, <2>1, <3>1, EndOfRun DEF StageThrows, histVars
  <2>3. Tail(program) = <<>> /\ held # {}
    BY <2>1, <2>2 DEF RunStage
  <2>4. /\ program \in Seq(BlocksOf(s)) /\ program # <<>> /\ Distinct(program)
        /\ held = {Head(program)}
    BY <1>3, <2>1, <2>3 DEF IInv, RunShape, ReuseInv
  <2>5. Waiting = {}
    <3>1. Elems(Tail(program)) = Elems(program) \ {Head(program)}
      BY <2>4, TailElements
    <3>2. Elems(<<>>) = {}
      BY DEF Elems
    <3> QED BY <2>3, <2>4, <3>1, <3>2 DEF Waiting
  <2>6. Visited = BlocksOf(s)
    BY <2>1, <2>5 DEF Visited
  <2>7. reloaded <= TotalBytes(BlocksOf(s)) /\ reloaded # TotalBytes(BlocksOf(s))
    BY <1>3, <2>1, <2>5, <2>6 DEF ReuseInv, Roomy
  <2>8. reloaded \in Nat /\ TotalBytes(BlocksOf(s)) \in Nat
    <3>1. BlocksOf(s) \in SUBSET BootBlock
      BY BlocksDisjoint
    <3> QED BY <1>3, <3>1, ByteFacts DEF IInv, TypeOK
  <2> QED BY <2>7, <2>8
<1> QED BY <1>1, <1>2, <1>3, Invariance, PTL DEF BootSpec, ReusesStages
=============================================================================
