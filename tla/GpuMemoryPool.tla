---------------------------- MODULE GpuMemoryPool ----------------------------
(***************************************************************************)
(* The caching allocator of one device (GPUmalloc, GPUfree, GPUtrim) and   *)
(* the Stream objects whose events are all that orders the work of one     *)
(* owner of a chunk before the work of the next (CudaUtils.cu).            *)
(*                                                                         *)
(* A Stream object wraps a CUDA queue, which several objects may share,    *)
(* and one event.  Waiting on an object records its event again only when  *)
(* `updated' says the event is out of date.  One host thread drives the    *)
(* device, so a host call is one step; the device runs the enqueued work   *)
(* later, in any order that keeps each queue and each wait.                *)
(***************************************************************************)
EXTENDS Naturals, FiniteSets, SequencesExt

CONSTANTS Stream,  \* the Stream objects
          Pool,    \* the one the allocator works on
          Queue,   \* the CUDA queues
          QueueOf, \* QueueOf[s]: the queue s wraps
          Slab,    \* the slabs the driver can give
          Slices,  \* Slices[b]: the chunks carved from b, in address order
          NoOne,   \* no stream
          Op       \* bound: names for the operations in flight

Chunk == UNION {{Slices[b][i] : i \in DOMAIN Slices[b]} : b \in Slab}
SlicesOf(b) == {Slices[b][i] : i \in DOMAIN Slices[b]}

ASSUME PoolAssumption ==
    /\ Pool \in Stream /\ NoOne \notin Stream
    /\ QueueOf \in [Stream -> Queue]
    /\ IsFiniteSet(Op)
    /\ Slices \in [Slab -> Seq(Chunk)]
    /\ \A b, d \in Slab : b # d => SlicesOf(b) \cap SlicesOf(d) = {}
    /\ \A b \in Slab : Slices[b] # <<>>
    /\ \A b \in Slab : \A i, j \in DOMAIN Slices[b] : Slices[b][i] = Slices[b][j] => i = j

VARIABLES slabs,     \* slab_registry: the slabs reserved
          free_limb, \* the free list; chunks are taken from and returned to its end
          home,      \* home[c]: the stream the owner of a live chunk frees it on, or NoOne
          writers,   \* writers[c]: streams that used c and that home[c] has not waited for
          presynced, \* gpufree_presynced
          after,     \* after[q]: the pending operations that work enqueued on q next comes after
          ev,        \* ev[s]: the pending operations the event of s covers
          updated,   \* updated[s]
          touches,   \* touches[k]: the chunks a pending operation accesses, {} if k is not pending
          deps,      \* deps[k]: the pending operations that come before k
          former     \* pending operations issued for a tenant that has gone

poolVars  == <<slabs, free_limb, home, writers, presynced>>
orderVars == <<after, ev, updated>>
opVars    == <<touches, deps, former>>
chunkVars      == <<poolVars, orderVars, opVars>>

Pending == {k \in Op : touches[k] # {}}
Live == {c \in Chunk : home[c] # NoOne}
FreeChunks == {free_limb[i] : i \in DOMAIN free_limb}

PoolInit ==
    /\ slabs = {} /\ free_limb = <<>>
    /\ home = [c \in Chunk |-> NoOne] /\ writers = [c \in Chunk |-> {}]
    /\ presynced = FALSE
    /\ after = [q \in Queue |-> {}] /\ ev = [s \in Stream |-> {}]
    /\ updated = [s \in Stream |-> FALSE]
    /\ touches = [k \in Op |-> {}] /\ deps = [k \in Op |-> {}] /\ former = {}
-----------------------------------------------------------------------------
(* What one call on a Stream does to the order of the device's work: each  *)
(* operator takes an order and returns the next.  (An operator whose       *)
(* comment says "faulty" is not part of the model: it is what the          *)
(* definition after it could have been, and breaks a property.)            *)

Order == [after |-> after, ev |-> ev, updated |-> updated]

BecomesOrder(o) ==
    /\ after' = o.after /\ ev' = o.ev /\ updated' = o.updated

\* Stream::ptr(): whoever takes the raw queue may enqueue on it.
Ptr(o, s) == [o EXCEPT !.updated[s] = FALSE]

\* A kernel launched through s.
Enqueue(o, s, k) == [o EXCEPT !.after[QueueOf[s]] = @ \cup {k}]

\* Stream::record()
Record(o, s) == [o EXCEPT !.ev[s] = o.after[QueueOf[s]], !.updated[s] = TRUE]

\* cudaStreamWaitEvent(s, e)
WaitEvent(o, s, e) == [o EXCEPT !.after[QueueOf[s]] = @ \cup e]

\* s.wait(t), t a Stream object
WaitStream(o, s, t) ==
    IF QueueOf[s] = QueueOf[t]
    THEN [o EXCEPT !.updated[s] = FALSE]
    ELSE LET r == IF o.updated[t] THEN o ELSE Record(o, t)
         IN  [WaitEvent(r, s, r.ev[t]) EXCEPT !.updated[s] = FALSE]

\* s.wait(q), q a raw queue: the event of s itself is recorded on q.
WaitQueue(o, s, q) ==
    IF QueueOf[s] = q
    THEN [o EXCEPT !.updated[s] = FALSE]
    ELSE [WaitEvent(o, s, o.after[q]) EXCEPT !.ev[s] = o.after[q], !.updated[s] = FALSE]
-----------------------------------------------------------------------------
(* The device                                                              *)

\* The pending operations S complete.
Completed(S) ==
    /\ touches' = [k \in Op |-> IF k \in S THEN {} ELSE touches[k]]
    /\ deps' = [k \in Op |-> IF k \in S THEN {} ELSE deps[k] \ S]
    /\ former' = former \ S

\* The order o, once the operations S have completed.
OrderWithout(o, S) ==
    [o EXCEPT !.after = [q \in Queue |-> o.after[q] \ S],
              !.ev = [s \in Stream |-> o.ev[s] \ S]]

OpCompletes(k) ==
    /\ k \in Pending
    /\ deps[k] = {}
    /\ Completed({k})
    /\ BecomesOrder(OrderWithout(Order, {k}))
    /\ UNCHANGED poolVars

\* An operation on the chunks C starts its life on stream s.
Issue(k, C, o, s) ==
    /\ k \notin Pending
    /\ touches' = [touches EXCEPT ![k] = C]
    /\ deps' = [deps EXCEPT ![k] = o.after[QueueOf[s]]]
-----------------------------------------------------------------------------
(* GPUmalloc                                                               *)

\* The order after GPUmalloc has handed a chunk to s: the caller took s.ptr()
\* for the call, the pool's event is recorded and s waits for it.
\* Faulty: the event is not recorded again.
HandedOverUnrecorded(o, s) == WaitEvent(Ptr(Ptr(o, s), Pool), s, o.ev[Pool])

HandedOver(o, s) ==
    LET r == Record(Ptr(Ptr(o, s), Pool), Pool)
    IN  WaitEvent(r, s, r.ev[Pool])

Take(list, s) ==
    /\ home' = [home EXCEPT ![list[Len(list)]] = s]
    /\ free_limb' = SubSeq(list, 1, Len(list) - 1)

GPUmallocFromList(s) ==
    /\ ~presynced
    /\ free_limb # <<>>
    /\ Take(free_limb, s)
    /\ BecomesOrder(HandedOver(Order, s))
    /\ UNCHANGED <<slabs, writers, presynced, opVars>>

\* The free list is empty: cudaMallocAsync on the pool's stream.
GPUmallocNewSlab(s, b, k) ==
    /\ ~presynced
    /\ free_limb = <<>>
    /\ b \notin slabs
    /\ slabs' = slabs \cup {b}
    /\ Take(Slices[b], s)
    /\ Issue(k, SlicesOf(b), Order, Pool)
    /\ former' = former \cup {k}
    /\ BecomesOrder(HandedOver(Enqueue(Order, Pool, k), s))
    /\ UNCHANGED <<writers, presynced>>
-----------------------------------------------------------------------------
(* The owner of a chunk                                                    *)

\* A kernel launched through s accesses c.  A stream other than the home of c
\* first waits for it.
Use(s, c, k) ==
    /\ ~presynced
    /\ c \in Live
    /\ LET o == Ptr(IF s = home[c] THEN Order ELSE WaitStream(Order, s, home[c]), s)
       IN  /\ Issue(k, {c}, o, s)
           /\ BecomesOrder(Enqueue(o, s, k))
    /\ writers' = [writers EXCEPT ![c] = @ \cup ({s} \ {home[c]})]
    /\ UNCHANGED <<slabs, free_limb, home, presynced, former>>

\* The home of the chunk waits for a stream that used it.
HomeJoined(o, h, s) == WaitStream(o, h, s)

Join(c, s) ==
    /\ ~presynced
    /\ s \in writers[c]
    /\ writers' = [writers EXCEPT ![c] = @ \ {s}]
    /\ BecomesOrder(HomeJoined(Order, home[c], s))
    /\ UNCHANGED <<slabs, free_limb, home, presynced, opVars>>
-----------------------------------------------------------------------------
(* GPUfree                                                                 *)

\* The order after GPUfree of a chunk whose home is h.
ReturnedToPool(o, h) ==
    LET p == Ptr(Ptr(o, h), Pool)
    IN  IF presynced THEN p ELSE WaitQueue(p, Pool, QueueOf[h])

\* The owner has joined every stream that used c, or synchronized the device.
GPUfree(c) ==
    /\ c \in Live
    /\ presynced \/ writers[c] = {}
    /\ BecomesOrder(ReturnedToPool(Order, home[c]))
    /\ free_limb' = Append(free_limb, c)
    /\ home' = [home EXCEPT ![c] = NoOne]
    /\ writers' = [writers EXCEPT ![c] = {}]
    /\ former' = former \cup {k \in Pending : c \in touches[k]}
    /\ UNCHANGED <<slabs, presynced, touches, deps>>

\* cudaDeviceSynchronize on the device
Synchronized == Pending

\* clearAuxilarPoly and freeBootBlocks synchronize the device, then free with
\* gpufree_presynced set.
BeginPresynced ==
    /\ ~presynced
    /\ presynced' = TRUE
    /\ Completed(Synchronized)
    /\ BecomesOrder(OrderWithout(Order, Synchronized))
    /\ UNCHANGED <<slabs, free_limb, home, writers>>

EndPresynced ==
    /\ presynced
    /\ presynced' = FALSE
    /\ UNCHANGED <<slabs, free_limb, home, writers, orderVars, opVars>>
-----------------------------------------------------------------------------
(* GPUtrim                                                                 *)

\* Faulty: one free slice is enough.
SomewhatIdle(b) == SlicesOf(b) \cap FreeChunks # {}

\* Every slice carved from b is back in the free list.
IdleSlab(b) == SlicesOf(b) \subseteq FreeChunks

\* Faulty: trust the order of the pool's stream.
NothingSynced == {}

\* cudaStreamSynchronize of the pool's stream
PoolSynced == after[QueueOf[Pool]]

\* The chunks that survive when the slabs S go.
SurvivingChunks(S) ==
    LET visit(survivors, c) ==
            IF \E b \in S : c \in SlicesOf(b) THEN survivors ELSE Append(survivors, c)
    IN  FoldLeft(visit, <<>>, free_limb)

\* The cudaFreeAsync calls are followed by another synchronization.
GPUtrim ==
    /\ ~presynced
    /\ LET trimmed == {b \in slabs : IdleSlab(b)}
       IN  /\ slabs' = slabs \ trimmed
           /\ free_limb' = SurvivingChunks(trimmed)
    /\ Completed(PoolSynced)
    /\ BecomesOrder(OrderWithout(Ptr(Order, Pool), PoolSynced))
    /\ UNCHANGED <<home, writers, presynced>>
-----------------------------------------------------------------------------
PoolNext ==
    \/ \E k \in Op : OpCompletes(k)
    \/ \E s \in Stream \ {Pool} :
          \/ GPUmallocFromList(s)
          \/ \E b \in Slab, k \in Op : GPUmallocNewSlab(s, b, k)
          \/ \E c \in Chunk, k \in Op : Use(s, c, k)
          \/ \E c \in Chunk : Join(c, s)
    \/ \E c \in Chunk : GPUfree(c)
    \/ BeginPresynced \/ EndPresynced \/ GPUtrim

PoolSpec == PoolInit /\ [][PoolNext]_chunkVars
-----------------------------------------------------------------------------
(* Properties                                                              *)

\* Every variable has its type; the free list holds chunks of reserved slabs.
TypeOK ==
    /\ slabs \subseteq Slab
    /\ free_limb \in Seq(UNION {SlicesOf(b) : b \in slabs})
    /\ home \in [Chunk -> Stream \cup {NoOne}]
    /\ writers \in [Chunk -> SUBSET Stream]
    /\ presynced \in BOOLEAN
    /\ after \in [Queue -> SUBSET Pending] /\ ev \in [Stream -> SUBSET Pending]
    /\ updated \in [Stream -> BOOLEAN]
    /\ touches \in [Op -> SUBSET Chunk] /\ deps \in [Op -> SUBSET Pending]
    /\ former \subseteq Pending

\* The work of a chunk's former tenants comes before that of its present one:
\* a kernel never runs on memory another tenant's kernel still reads or writes.
TenantsOrdered ==
    \A j \in former, k \in Pending \ former :
        touches[j] \cap touches[k] # {} => j \in deps[k]

\* No operation that has not finished accesses memory of a slab that was given
\* back to the driver.
NoDangling == \A k \in Pending : \A c \in touches[k] : \E b \in slabs : c \in SlicesOf(b)

\* The variables have their types, and each chunk of a reserved slab, and no other one,
\* is live or exactly once in the free list (GPUmalloc, GPUfree, GPUtrim).
ChunksAccounted ==
    /\ TypeOK
    /\ Live \cap FreeChunks = {}
    /\ Live \cup FreeChunks = UNION {SlicesOf(b) : b \in slabs}
    /\ \A i, j \in DOMAIN free_limb : free_limb[i] = free_limb[j] => i = j
=============================================================================
