------------------------ MODULE GpuMemoryPoolProofs ------------------------
(***************************************************************************)
(* Proofs about the memory pool, for any streams, queues, slabs and        *)
(* operations in flight.                                                   *)
(***************************************************************************)
EXTENDS GpuMemoryPool, ListLemmas

-----------------------------------------------------------------------------
(* The free list                                                           *)

ChunksOf(B) == UNION {SlicesOf(b) : b \in B}

\* GPUtrim's loop over the free list keeps the chunks of no slab that goes, in
\* their order.
LEMMA SurvivorsElements ==
    ASSUME NEW X, free_limb \in Seq(X), Distinct(free_limb), NEW B
    PROVE  /\ SurvivingChunks(B) \in Seq(X \ ChunksOf(B))
           /\ Distinct(SurvivingChunks(B))
           /\ Elems(SurvivingChunks(B)) = Elems(free_limb) \ ChunksOf(B)
<1> DEFINE n == Len(free_limb)
           D == ChunksOf(B)
           A == Seq(X \ D)
           visit(l, c) == IF \E b \in B : c \in SlicesOf(b) THEN l ELSE Append(l, c)
           step == [p \in A \X (1..n) |-> visit(p[1], free_limb[p[2]])]
           IsIter(f) == f = [s \in SUBSET DOMAIN free_limb |->
                               IF s = {} THEN <<>>
                               ELSE LET x == Max(s) IN visit(f[s \ {x}], free_limb[x])]
           iter == CHOOSE f : IsIter(f)
<1>1. n \in Nat /\ DOMAIN free_limb = 1..n /\ \A i \in 1..n : free_limb[i] \in X
  BY LenProperties, ElementOfSeq
<1>2. SurvivingChunks(B) = iter[1..n]
  BY <1>1 DEF SurvivingChunks, FoldLeft, MapThenFoldSet
<1>3. \A c : (\E b \in B : c \in SlicesOf(b)) <=> c \in D
  BY DEF ChunksOf
<1>4. ASSUME NEW l \in A, NEW i \in 1..n
      PROVE  visit(l, free_limb[i]) \in A
  <2>1. CASE free_limb[i] \in D
    BY <1>3, <2>1
  <2>2. CASE free_limb[i] \notin D
    BY <1>1, <1>3, <2>2, AppendElements
  <2> QED BY <2>1, <2>2
<1>5. IsIter(iter)
  <2>1. <<>> \in A
    OBVIOUS
  <2>2. step \in [A \X (1..n) -> A]
    BY <1>4
  <2> HIDE DEF A, step
  <2>3. PICK f \in [SUBSET (1..n) -> A] : IsFold(f, n, <<>>, step)
    BY <1>1, <2>1, <2>2, FoldExists
  <2>4. ASSUME NEW s \in SUBSET (1..n), s # {}
        PROVE  f[s] = visit(f[s \ {Max(s)}], free_limb[Max(s)])
    <3>1. Max(s) \in 1..n /\ f[s \ {Max(s)}] \in A
      BY <1>1, <2>4, LargestIndex
    <3>2. f[s] = step[<<f[s \ {Max(s)}], Max(s)>>]
      BY <2>3, <2>4 DEF IsFold
    <3> HIDE DEF visit
    <3> QED BY <3>1, <3>2 DEF step
  <2>5. f[{}] = <<>>
    BY <2>3 DEF IsFold
  <2>6. f = [s \in SUBSET DOMAIN free_limb |-> f[s]]
    BY <1>1
  <2> HIDE DEF visit
  <2>7. IsIter(f)
    BY <1>1, <2>4, <2>5, <2>6
  <2> QED BY <2>7
<1> HIDE DEF iter
<1> DEFINE g(i) == iter[1..i]
           P(i) == i <= n => /\ g(i) \in A
                             /\ Distinct(g(i))
                             /\ Elems(g(i)) = {free_limb[j] : j \in 1..i} \ D
<1>6. P(0)
  <2>1. 1..0 = {} /\ {} \in SUBSET DOMAIN free_limb
    OBVIOUS
  <2>2. g(0) = <<>>
    BY <1>5, <2>1
  <2> QED BY <2>1, <2>2 DEF Distinct, Elems
<1>7. ASSUME NEW i \in Nat, P(i)
      PROVE  P(i + 1)
  <2> SUFFICES ASSUME i + 1 <= n
               PROVE  /\ g(i + 1) \in A
                      /\ Distinct(g(i + 1))
                      /\ Elems(g(i + 1)) = {free_limb[j] : j \in 1..(i + 1)} \ D
    OBVIOUS
  <2> DEFINE c == free_limb[i + 1]
             E == {free_limb[j] : j \in 1..i}
  <2>1. i + 1 \in 1..n /\ i <= n /\ (i + 1) - 1 = i
    BY <1>1
  <2>2. g(i + 1) = visit(g(i), c)
    <3>1. /\ 1..(i + 1) \in SUBSET (1..n) /\ 1..(i + 1) # {}
          /\ Max(1..(i + 1)) = i + 1
          /\ (1..(i + 1)) \ {i + 1} = 1..i
      BY <1>1, <2>1, PrefixIndices
    <3> HIDE DEF visit
    <3> QED BY <1>1, <1>5, <3>1
  <2>3. g(i) \in A /\ Distinct(g(i)) /\ Elems(g(i)) = E \ D
    BY <1>7, <2>1, Zenon
  <2>4. {free_limb[j] : j \in 1..(i + 1)} = E \cup {c}
    <3>1. 1..(i + 1) = (1..i) \cup {i + 1}
      OBVIOUS
    <3> QED BY <3>1
  <2>5. c \notin E /\ c \in X
    BY <1>1, <2>1 DEF Distinct
  <2> HIDE DEF g, E, c
  <2>6. CASE c \in D
    BY <1>3, <2>2, <2>3, <2>4, <2>6
  <2>7. CASE c \notin D
    <3>1. g(i + 1) = Append(g(i), c)
      BY <1>3, <2>2, <2>7
    <3>2. c \in X \ D /\ c \notin Elems(g(i))
      BY <2>3, <2>5, <2>7
    <3>3. g(i) \in Seq(X \ D)
      BY <2>3
    <3> HIDE DEF A, D
    <3>4. /\ Append(g(i), c) \in Seq(X \ D) /\ Distinct(Append(g(i), c))
          /\ Elems(Append(g(i), c)) = Elems(g(i)) \cup {c}
      BY <2>3, <3>2, <3>3, AppendElements
    <3> QED BY <2>3, <2>4, <2>7, <3>1, <3>4 DEF A
  <2> QED BY <2>6, <2>7
<1>8. P(n)
  <2> DEFINE S == {i \in Nat : P(i)}
  <2> HIDE DEF P
  <2>1. 0 \in S /\ \A i \in Nat : i \in S => i + 1 \in S
    BY <1>6, <1>7
  <2> HIDE DEF S
  <2>2. n \in S
    BY <1>1, <2>1, Induction
  <2> QED BY <2>2 DEF S
<1>9. Elems(free_limb) = {free_limb[j] : j \in 1..n}
  BY <1>1 DEF Elems
<1>10. n <= n
  BY <1>1
<1> HIDE DEF D
<1> QED BY <1>2, <1>8, <1>9, <1>10 DEF D
-----------------------------------------------------------------------------
(* What the calls on a Stream do to the order                              *)

OrderOver(P) == [after   : [Queue -> SUBSET P],
                 ev      : [Stream -> SUBSET P],
                 updated : [Stream -> BOOLEAN]]

\* Whoever waits for s in the order o comes after k.
Covered(o, s, k) == k \in o.after[QueueOf[s]] /\ (o.updated[s] => k \in o.ev[s])

\* From o to r, nothing that enqueued work comes after is forgotten.  (The
\* allocator alone may let its own event fall behind its queue.)
Keeps(o, r) ==
    /\ \A q \in Queue : o.after[q] \subseteq r.after[q]
    /\ \A s \in Stream \ {Pool} : \A k : Covered(o, s, k) => Covered(r, s, k)

LEMMA KeepsTransitive ==
    ASSUME NEW o, NEW p, NEW r, Keeps(o, p), Keeps(p, r)
    PROVE  Keeps(o, r)
BY DEF Keeps

LEMMA PtrKeeps ==
    ASSUME PoolAssumption, NEW P, NEW o \in OrderOver(P), NEW s \in Stream
    PROVE  /\ Ptr(o, s) \in OrderOver(P) /\ Keeps(o, Ptr(o, s))
           /\ Ptr(o, s).after = o.after
           /\ ~ Ptr(o, s).updated[s]
           /\ \A u \in Stream : ~ o.updated[u] => ~ Ptr(o, s).updated[u]
BY DEF PoolAssumption, OrderOver, Ptr, Keeps, Covered

LEMMA RecordKeeps ==
    ASSUME PoolAssumption, NEW P, NEW o \in OrderOver(P), NEW s \in Stream
    PROVE  /\ Record(o, s) \in OrderOver(P) /\ Keeps(o, Record(o, s))
           /\ Record(o, s).after = o.after
           /\ Record(o, s).ev[s] = o.after[QueueOf[s]]
           /\ \A u \in Stream \ {s} : Record(o, s).updated[u] = o.updated[u]
BY DEF PoolAssumption, OrderOver, Record, Keeps, Covered

LEMMA WaitEventKeeps ==
    ASSUME PoolAssumption, NEW P, NEW o \in OrderOver(P), NEW s \in Stream, NEW e \in SUBSET P
    PROVE  /\ WaitEvent(o, s, e) \in OrderOver(P) /\ Keeps(o, WaitEvent(o, s, e))
           /\ e \subseteq WaitEvent(o, s, e).after[QueueOf[s]]
           /\ WaitEvent(o, s, e).updated = o.updated
BY DEF PoolAssumption, OrderOver, WaitEvent, Keeps, Covered

\* k joins the operations in flight.
LEMMA EnqueueKeeps ==
    ASSUME PoolAssumption, NEW P, NEW o \in OrderOver(P), NEW s \in Stream, NEW k
    PROVE  /\ Enqueue(o, s, k) \in OrderOver(P \cup {k}) /\ Keeps(o, Enqueue(o, s, k))
           /\ k \in Enqueue(o, s, k).after[QueueOf[s]]
           /\ Enqueue(o, s, k).updated = o.updated
BY DEF PoolAssumption, OrderOver, Enqueue, Keeps, Covered

\* s.wait(t) covers what t's event covers, or its queue if it is recorded anew.
LEMMA WaitStreamKeeps ==
    ASSUME PoolAssumption, NEW P, NEW o \in OrderOver(P), NEW s \in Stream, NEW t \in Stream
    PROVE  /\ WaitStream(o, s, t) \in OrderOver(P) /\ Keeps(o, WaitStream(o, s, t))
           /\ \A k : Covered(o, t, k) => k \in WaitStream(o, s, t).after[QueueOf[s]]
           /\ ~ WaitStream(o, s, t).updated[s]
<1>1. CASE QueueOf[s] = QueueOf[t]
  <2>1. WaitStream(o, s, t) = Ptr(o, s)
    BY <1>1 DEF WaitStream, Ptr
  <2> QED BY <1>1, <2>1, PtrKeeps DEF Covered
<1>2. CASE QueueOf[s] # QueueOf[t]
  <2> DEFINE r == IF o.updated[t] THEN o ELSE Record(o, t)
             w == WaitEvent(r, s, r.ev[t])
  <2>1. r \in OrderOver(P) /\ Keeps(o, r) /\ r.after = o.after
        /\ \A k : Covered(o, t, k) => k \in r.ev[t]
    <3>1. CASE o.updated[t]
      BY <3>1 DEF Keeps, Covered
    <3>2. CASE ~ o.updated[t]
      <4>1. r = Record(o, t)
        BY <3>2
      <4> HIDE DEF r
      <4> QED BY <4>1, RecordKeeps DEF Covered
    <3> QED BY <3>1, <3>2
  <2> HIDE DEF r
  <2>2. r.ev[t] \in SUBSET P
    BY <2>1 DEF OrderOver
  <2>3. w \in OrderOver(P) /\ Keeps(r, w) /\ r.ev[t] \subseteq w.after[QueueOf[s]]
    BY <2>1, <2>2, WaitEventKeeps
  <2>4. WaitStream(o, s, t) = Ptr(w, s)
    BY <1>2 DEF WaitStream, Ptr, r
  <2> HIDE DEF w
  <2>5. Ptr(w, s) \in OrderOver(P) /\ Keeps(w, Ptr(w, s)) /\ Ptr(w, s).after = w.after
        /\ ~ Ptr(w, s).updated[s]
    BY <2>3, PtrKeeps
  <2>6. Keeps(o, Ptr(w, s))
    BY <2>1, <2>3, <2>5, KeepsTransitive
  <2> QED BY <2>1, <2>3, <2>4, <2>5, <2>6
<1> QED BY <1>1, <1>2

\* s[device].wait(stream): the allocator's queue comes after what is on q.
LEMMA PoolWaitKeeps ==
    ASSUME PoolAssumption, NEW P, NEW o \in OrderOver(P), NEW q \in Queue
    PROVE  /\ WaitQueue(o, Pool, q) \in OrderOver(P) /\ Keeps(o, WaitQueue(o, Pool, q))
           /\ o.after[q] \subseteq WaitQueue(o, Pool, q).after[QueueOf[Pool]]
<1> Pool \in Stream /\ QueueOf \in [Stream -> Queue]
  BY DEF PoolAssumption
<1>1. CASE QueueOf[Pool] = q
  <2>1. WaitQueue(o, Pool, q) = Ptr(o, Pool)
    BY <1>1 DEF WaitQueue, Ptr
  <2> QED BY <1>1, <2>1, PtrKeeps
<1>2. CASE QueueOf[Pool] # q
  BY <1>2 DEF OrderOver, WaitQueue, WaitEvent, Keeps, Covered
<1> QED BY <1>1, <1>2

\* GPUmalloc for s: what is enqueued on s next comes after all that the
\* allocator's queue comes after.
LEMMA HandedOverKeeps ==
    ASSUME PoolAssumption, NEW P, NEW o \in OrderOver(P), NEW s \in Stream \ {Pool}
    PROVE  /\ HandedOver(o, s) \in OrderOver(P) /\ Keeps(o, HandedOver(o, s))
           /\ o.after[QueueOf[Pool]] \subseteq HandedOver(o, s).after[QueueOf[s]]
           /\ ~ HandedOver(o, s).updated[s]
<1> DEFINE a == Ptr(o, s)
           b == Ptr(a, Pool)
           r == Record(b, Pool)
           w == WaitEvent(r, s, r.ev[Pool])
<1>0. Pool \in Stream /\ QueueOf[Pool] \in Queue /\ s \in Stream \ {Pool}
  BY DEF PoolAssumption
<1>1. a \in OrderOver(P) /\ Keeps(o, a) /\ a.after = o.after /\ ~ a.updated[s]
  BY PtrKeeps
<1> HIDE DEF a
<1>2. b \in OrderOver(P) /\ Keeps(a, b) /\ b.after = a.after /\ ~ b.updated[s]
  BY <1>0, <1>1, PtrKeeps
<1> HIDE DEF b
<1>3. r \in OrderOver(P) /\ Keeps(b, r) /\ ~ r.updated[s]
      /\ r.ev[Pool] = b.after[QueueOf[Pool]]
  BY <1>0, <1>2, RecordKeeps
<1> HIDE DEF r
<1>4. r.ev[Pool] \in SUBSET P
  BY <1>0, <1>3 DEF OrderOver
<1>5. w \in OrderOver(P) /\ Keeps(r, w) /\ ~ w.updated[s]
      /\ r.ev[Pool] \subseteq w.after[QueueOf[s]]
  BY <1>3, <1>4, WaitEventKeeps
<1>6. HandedOver(o, s) = w
  BY DEF HandedOver, w, r, b, a
<1> HIDE DEF w
<1>7. Keeps(o, w)
  BY <1>1, <1>2, <1>3, <1>5, KeepsTransitive
<1> QED BY <1>1, <1>2, <1>3, <1>5, <1>6, <1>7

\* GPUfree of a chunk of h: what is enqueued for the allocator next comes after
\* all that h's queue comes after.
LEMMA ReturnedKeeps ==
    ASSUME PoolAssumption, NEW P, NEW o \in OrderOver(P), NEW h \in Stream
    PROVE  /\ ReturnedToPool(o, h) \in OrderOver(P) /\ Keeps(o, ReturnedToPool(o, h))
           /\ ~presynced => o.after[QueueOf[h]] \subseteq ReturnedToPool(o, h).after[QueueOf[Pool]]
<1> DEFINE a == Ptr(o, h)
           b == Ptr(a, Pool)
           w == WaitQueue(b, Pool, QueueOf[h])
<1>0. Pool \in Stream /\ QueueOf[h] \in Queue
  BY DEF PoolAssumption
<1>1. a \in OrderOver(P) /\ Keeps(o, a) /\ a.after = o.after
  BY PtrKeeps
<1> HIDE DEF a
<1>2. b \in OrderOver(P) /\ Keeps(a, b) /\ b.after = a.after
  BY <1>0, <1>1, PtrKeeps
<1> HIDE DEF b
<1>3. Keeps(o, b) /\ b.after = o.after
  BY <1>1, <1>2, KeepsTransitive
<1>4. w \in OrderOver(P) /\ Keeps(b, w) /\ b.after[QueueOf[h]] \subseteq w.after[QueueOf[Pool]]
  BY <1>0, <1>2, PoolWaitKeeps
<1>5. ReturnedToPool(o, h) = IF presynced THEN b ELSE w
  BY DEF ReturnedToPool, w, b, a
<1> HIDE DEF w
<1>6. Keeps(o, w)
  BY <1>3, <1>4, KeepsTransitive
<1> QED BY <1>2, <1>3, <1>4, <1>5, <1>6

\* When operations complete, the others stay covered.
LEMMA WithoutCovers ==
    ASSUME PoolAssumption, NEW P, NEW o \in OrderOver(P), NEW S
    PROVE  /\ OrderWithout(o, S) \in OrderOver(P \ S)
           /\ \A q \in Queue : OrderWithout(o, S).after[q] = o.after[q] \ S
           /\ \A s \in Stream : \A k : Covered(o, s, k) /\ k \notin S =>
                 Covered(OrderWithout(o, S), s, k)
BY DEF PoolAssumption, OrderOver, OrderWithout, Covered
-----------------------------------------------------------------------------
(* The inductive invariant                                                 *)

\* The allocator works on a stream of its own, and only live chunks are used.
OwnersApart ==
    \A c \in Chunk : /\ home[c] # Pool /\ Pool \notin writers[c]
                     /\ home[c] = NoOne => writers[c] = {}

\* What the home of a live chunk enqueues comes after the work of all who had
\* the chunk before, and so does what is enqueued on a stream that waits for it.
FormerSettled ==
    \A c \in Live : \A j \in former : c \in touches[j] => Covered(Order, home[c], j)

\* The owner's own work on a live chunk is on its home's queue, or covered by a
\* stream that the home has still to wait for.
UsesTracked ==
    \A c \in Live : \A k \in Pending : c \in touches[k] =>
        \/ k \in after[QueueOf[home[c]]]
        \/ \E w \in writers[c] : Covered(Order, w, k)

\* The allocator's queue comes after all work on a free chunk.
FreeSettled ==
    \A c \in FreeChunks : \A k \in Pending : c \in touches[k] => k \in after[QueueOf[Pool]]

\* An operation of a present owner works on that owner's chunk only.
OwnWorkLocal == \A k \in Pending \ former : \E c \in Live : touches[k] = {c}

\* Nothing runs while chunks are freed without waiting.
PresyncedQuiet == presynced => Pending = {}

IInv == /\ ChunksAccounted /\ NoDangling /\ TenantsOrdered
        /\ OwnersApart /\ FormerSettled /\ UsesTracked /\ FreeSettled
        /\ OwnWorkLocal /\ PresyncedQuiet

\* The typing, in two parts and in terms of the order.
PoolTyped == /\ slabs \subseteq Slab
             /\ free_limb \in Seq(ChunksOf(slabs))
             /\ home \in [Chunk -> Stream \cup {NoOne}]
             /\ writers \in [Chunk -> SUBSET Stream]
             /\ presynced \in BOOLEAN

WorkTyped == /\ Order \in OrderOver(Pending)
             /\ touches \in [Op -> SUBSET Chunk]
             /\ deps \in [Op -> SUBSET Pending]
             /\ former \subseteq Pending

LEMMA Typed == /\ TypeOK <=> PoolTyped /\ WorkTyped
               /\ TypeOK' <=> PoolTyped' /\ WorkTyped'
BY DEF TypeOK, PoolTyped, WorkTyped, OrderOver, Order, ChunksOf

\* Taking a new order.
LEMMA OrderBecomes ==
    ASSUME NEW P, NEW o \in OrderOver(P), BecomesOrder(o)
    PROVE  Order' = o
BY DEF OrderOver, BecomesOrder, Order

LEMMA InitIInv ==
    ASSUME PoolAssumption, PoolInit
    PROVE  IInv
<1>1. Pending = {} /\ Live = {} /\ FreeChunks = {}
  BY DEF PoolInit, Pending, Live, FreeChunks
<1>2. TypeOK
  <2>1. PoolTyped
    <3>1. <<>> \in Seq(ChunksOf(slabs))
      OBVIOUS
    <3> QED BY <3>1 DEF PoolInit, PoolTyped
  <2>2. WorkTyped
    BY DEF PoolInit, WorkTyped, Order, OrderOver
  <2> QED BY <2>1, <2>2, Typed
<1> QED BY <1>1, <1>2 DEF PoolInit, IInv, ChunksAccounted, NoDangling, TenantsOrdered, OwnersApart,
       FormerSettled, UsesTracked, FreeSettled, OwnWorkLocal, PresyncedQuiet, PoolAssumption
-----------------------------------------------------------------------------
(* Operations complete                                                     *)

\* What is left when the operations S have completed, o being the order up to then.
LEMMA Completion ==
    ASSUME PoolAssumption, TypeOK, NEW S, Completed(S),
           NEW o \in OrderOver(Pending), Keeps(Order, o), BecomesOrder(OrderWithout(o, S))
    PROVE  /\ Pending' = Pending \ S
           /\ Order' \in OrderOver(Pending')
           /\ touches' \in [Op -> SUBSET Chunk]
           /\ deps' \in [Op -> SUBSET Pending']
           /\ former' = former \ S
           /\ \A k \in Pending' : touches'[k] = touches[k] /\ deps'[k] = deps[k] \ S
           /\ \A q \in Queue : after[q] \ S \subseteq after'[q]
           /\ \A s \in Stream \ {Pool} : \A k : Covered(Order, s, k) /\ k \notin S => Covered(Order', s, k)
<1>1. Pending' = Pending \ S
  BY DEF Completed, Pending
<1>2. touches' \in [Op -> SUBSET Chunk] /\ deps' \in [Op -> SUBSET Pending']
  BY <1>1 DEF TypeOK, Completed
<1>3. \A k \in Pending' : touches'[k] = touches[k] /\ deps'[k] = deps[k] \ S
  BY <1>1 DEF Completed, Pending
<1>4. former' = former \ S
  BY DEF Completed
<1>5. /\ OrderWithout(o, S) \in OrderOver(Pending \ S)
      /\ \A q \in Queue : OrderWithout(o, S).after[q] = o.after[q] \ S
      /\ \A s \in Stream : \A k : Covered(o, s, k) /\ k \notin S => Covered(OrderWithout(o, S), s, k)
  BY WithoutCovers
<1>6. Order' = OrderWithout(o, S)
  BY <1>5, OrderBecomes
<1>7. Order.after = after /\ Order'.after = after'
  BY DEF Order
<1>8. \A q \in Queue : after[q] \ S \subseteq after'[q]
  BY <1>5, <1>6, <1>7 DEF Keeps
<1>9. \A s \in Stream \ {Pool} : \A k : Covered(Order, s, k) /\ k \notin S => Covered(Order', s, k)
  BY <1>5, <1>6 DEF Keeps
<1> QED BY <1>1, <1>2, <1>3, <1>4, <1>5, <1>6, <1>8, <1>9

\* None of this disturbs what the invariant says of the operations that are left.
LEMMA CompletionKeeps ==
    ASSUME PoolAssumption, IInv, NEW S, Completed(S),
           NEW o \in OrderOver(Pending), Keeps(Order, o), BecomesOrder(OrderWithout(o, S)),
           UNCHANGED <<home, writers>>, FreeChunks' \subseteq FreeChunks
    PROVE  /\ TenantsOrdered' /\ OwnersApart' /\ FormerSettled' /\ UsesTracked'
           /\ FreeSettled' /\ OwnWorkLocal'
<1> USE DEF IInv, ChunksAccounted
<1>1. /\ Pending' = Pending \ S /\ former' = former \ S /\ former \subseteq Pending
      /\ \A k \in Pending' : touches'[k] = touches[k] /\ deps'[k] = deps[k] \ S
      /\ \A q \in Queue : after[q] \ S \subseteq after'[q]
      /\ \A s \in Stream \ {Pool} : \A k : Covered(Order, s, k) /\ k \notin S => Covered(Order', s, k)
  BY Completion DEF TypeOK
<1>2. Live' = Live /\ Live \subseteq Chunk /\ \A c \in Live : home[c] \in Stream \ {Pool}
  BY DEF Live, TypeOK, OwnersApart
<1>3. \A c \in Chunk : writers[c] \subseteq Stream \ {Pool}
  BY DEF TypeOK, OwnersApart
<1>4. \A s \in Stream : QueueOf[s] \in Queue
  BY DEF PoolAssumption
<1>5. TenantsOrdered'
  BY <1>1 DEF TenantsOrdered
<1>6. OwnersApart'
  BY DEF OwnersApart
<1>7. FormerSettled'
  <2> SUFFICES ASSUME NEW c \in Live', NEW j \in former', c \in touches'[j]
               PROVE  Covered(Order', home'[c], j)
    BY DEF FormerSettled
  <2>1. j \in former /\ j \notin S /\ c \in touches[j] /\ c \in Live /\ home'[c] = home[c]
    BY <1>1, <1>2
  <2>2. Covered(Order, home[c], j)
    BY <2>1 DEF FormerSettled
  <2> QED BY <1>1, <1>2, <2>1, <2>2
<1>8. UsesTracked'
  <2> SUFFICES ASSUME NEW c \in Live', NEW k \in Pending', c \in touches'[k]
               PROVE  \/ k \in after'[QueueOf[home'[c]]]
                      \/ \E w \in writers'[c] : Covered(Order', w, k)
    BY DEF UsesTracked
  <2>1. k \in Pending /\ k \notin S /\ c \in touches[k] /\ c \in Live
        /\ home'[c] = home[c] /\ writers'[c] = writers[c]
    BY <1>1, <1>2
  <2>2. \/ k \in after[QueueOf[home[c]]]
        \/ \E w \in writers[c] : Covered(Order, w, k)
    BY <2>1 DEF UsesTracked
  <2> QED BY <1>1, <1>2, <1>3, <1>4, <2>1, <2>2
<1>9. FreeSettled'
  <2>1. Pool \in Stream
    BY DEF PoolAssumption
  <2> QED BY <1>1, <1>4, <2>1 DEF FreeSettled
<1>10. OwnWorkLocal'
  BY <1>1, <1>2 DEF OwnWorkLocal
<1> QED BY <1>5, <1>6, <1>7, <1>8, <1>9, <1>10

LEMMA OpCompletesKeeps ==
    ASSUME PoolAssumption, IInv, NEW k \in Op, OpCompletes(k)
    PROVE  IInv'
<1>1. Order \in OrderOver(Pending) /\ Keeps(Order, Order)
  BY Typed DEF IInv, ChunksAccounted, WorkTyped, Keeps
<1>2. /\ Completed({k}) /\ BecomesOrder(OrderWithout(Order, {k}))
      /\ UNCHANGED <<slabs, free_limb, home, writers, presynced>>
  BY DEF OpCompletes, poolVars
<1>3. /\ TenantsOrdered' /\ OwnersApart' /\ FormerSettled' /\ UsesTracked'
      /\ FreeSettled' /\ OwnWorkLocal'
  BY <1>1, <1>2, CompletionKeeps DEF FreeChunks
<1>4. /\ Pending' = Pending \ {k} /\ Order' \in OrderOver(Pending')
      /\ touches' \in [Op -> SUBSET Chunk] /\ deps' \in [Op -> SUBSET Pending']
      /\ former' = former \ {k} /\ \A j \in Pending' : touches'[j] = touches[j]
  BY <1>1, <1>2, Completion DEF IInv, ChunksAccounted
<1>5. TypeOK'
  BY <1>2, <1>4, Typed DEF IInv, ChunksAccounted, PoolTyped, WorkTyped
<1>6. ChunksAccounted'
  BY <1>2, <1>5 DEF IInv, ChunksAccounted, Live, FreeChunks
<1>7. NoDangling'
  BY <1>2, <1>4 DEF IInv, NoDangling
<1>8. PresyncedQuiet'
  BY <1>2, <1>4 DEF IInv, PresyncedQuiet
<1> QED BY <1>3, <1>6, <1>7, <1>8 DEF IInv

LEMMA BeginPresyncedKeeps ==
    ASSUME PoolAssumption, IInv, BeginPresynced
    PROVE  IInv'
<1>1. Order \in OrderOver(Pending) /\ Keeps(Order, Order)
  BY Typed DEF IInv, ChunksAccounted, WorkTyped, Keeps
<1>2. /\ Completed(Pending) /\ BecomesOrder(OrderWithout(Order, Pending))
      /\ UNCHANGED <<slabs, free_limb, home, writers>> /\ presynced'
  BY DEF BeginPresynced, Synchronized
<1>3. /\ TenantsOrdered' /\ OwnersApart' /\ FormerSettled' /\ UsesTracked'
      /\ FreeSettled' /\ OwnWorkLocal'
  BY <1>1, <1>2, CompletionKeeps DEF FreeChunks
<1>4. /\ Pending' = Pending \ Pending /\ Order' \in OrderOver(Pending')
      /\ touches' \in [Op -> SUBSET Chunk] /\ deps' \in [Op -> SUBSET Pending']
      /\ former' = former \ Pending /\ \A j \in Pending' : touches'[j] = touches[j]
  BY <1>1, <1>2, Completion DEF IInv, ChunksAccounted
<1>5. TypeOK'
  BY <1>2, <1>4, Typed DEF IInv, ChunksAccounted, PoolTyped, WorkTyped, BeginPresynced
<1>6. ChunksAccounted'
  BY <1>2, <1>5 DEF IInv, ChunksAccounted, Live, FreeChunks
<1>7. NoDangling'
  BY <1>4 DEF NoDangling
<1>8. PresyncedQuiet'
  BY <1>4 DEF PresyncedQuiet
<1> QED BY <1>3, <1>6, <1>7, <1>8 DEF IInv

LEMMA EndPresyncedKeeps ==
    ASSUME PoolAssumption, IInv, EndPresynced
    PROVE  IInv'
<1>1. /\ UNCHANGED <<slabs, free_limb, home, writers, after, ev, updated, touches, deps, former>>
      /\ presynced' = FALSE
  BY DEF EndPresynced, orderVars, opVars
<1>2. Pending' = Pending /\ Live' = Live /\ FreeChunks' = FreeChunks /\ Order' = Order
  BY <1>1 DEF Pending, Live, FreeChunks, Order
<1>3. TypeOK'
  BY <1>1, <1>2, Typed DEF IInv, ChunksAccounted, PoolTyped, WorkTyped
<1>4. ChunksAccounted' /\ NoDangling' /\ TenantsOrdered'
  BY <1>1, <1>2, <1>3 DEF IInv, ChunksAccounted, NoDangling, TenantsOrdered
<1>5. OwnersApart' /\ FormerSettled' /\ UsesTracked' /\ FreeSettled' /\ OwnWorkLocal'
  BY <1>1, <1>2 DEF IInv, OwnersApart, FormerSettled, UsesTracked, FreeSettled, OwnWorkLocal
<1> QED BY <1>1, <1>4, <1>5 DEF IInv, PresyncedQuiet

\* A slab that goes has only free slices, and the synchronized queue comes after
\* all work on these.
LEMMA GPUtrimKeeps ==
    ASSUME PoolAssumption, IInv, GPUtrim
    PROVE  IInv'
<1> DEFINE B == {b \in slabs : IdleSlab(b)}
           S == after[QueueOf[Pool]]
           o == Ptr(Order, Pool)
<1>0. Pool \in Stream /\ Order \in OrderOver(Pending) /\ PoolTyped
  BY Typed DEF PoolAssumption, IInv, ChunksAccounted, WorkTyped
<1>1. /\ slabs' = slabs \ B /\ free_limb' = SurvivingChunks(B)
      /\ Completed(S) /\ BecomesOrder(OrderWithout(o, S))
      /\ UNCHANGED <<home, writers, presynced>>
  BY DEF GPUtrim, PoolSynced
<1>2. o \in OrderOver(Pending) /\ Keeps(Order, o)
  BY <1>0, PtrKeeps
<1> HIDE DEF o, B
<1>3. /\ FreeChunks' = FreeChunks \ ChunksOf(B) /\ Distinct(free_limb')
      /\ free_limb' \in Seq(ChunksOf(slabs) \ ChunksOf(B))
  <2>1. FreeChunks = Elems(free_limb) /\ FreeChunks' = Elems(free_limb') /\ Distinct(free_limb)
    BY DEF FreeChunks, Elems, Distinct, IInv, ChunksAccounted
  <2> QED BY <1>0, <1>1, <2>1, SurvivorsElements DEF PoolTyped
<1>4. /\ TenantsOrdered' /\ OwnersApart' /\ FormerSettled' /\ UsesTracked'
      /\ FreeSettled' /\ OwnWorkLocal'
  BY <1>1, <1>2, <1>3, CompletionKeeps
<1>5. /\ Pending' = Pending \ S /\ Order' \in OrderOver(Pending')
      /\ touches' \in [Op -> SUBSET Chunk] /\ deps' \in [Op -> SUBSET Pending']
      /\ former' = former \ S /\ \A j \in Pending' : touches'[j] = touches[j]
  BY <1>1, <1>2, Completion DEF IInv, ChunksAccounted
<1>6. ChunksOf(slabs') = ChunksOf(slabs) \ ChunksOf(B) /\ B \subseteq slabs
  <2>1. slabs \subseteq Slab /\ slabs' = slabs \ B /\ B \subseteq slabs
    BY <1>0, <1>1 DEF PoolTyped, B
  <2>2. \A b, d \in Slab : b # d => SlicesOf(b) \cap SlicesOf(d) = {}
    BY DEF PoolAssumption
  <2> HIDE DEF B
  <2> QED BY <2>1, <2>2 DEF ChunksOf
<1>7. ChunksOf(B) \subseteq FreeChunks
  BY DEF ChunksOf, IdleSlab, B
<1>8. TypeOK'
  <2>1. PoolTyped'
    BY <1>0, <1>1, <1>3, <1>6 DEF PoolTyped
  <2>2. WorkTyped'
    BY <1>5, Typed DEF WorkTyped, IInv, ChunksAccounted
  <2> QED BY <2>1, <2>2, Typed
<1>9. ChunksAccounted'
  <2>1. Live' = Live
    BY <1>1 DEF Live
  <2>2. Live \cap FreeChunks = {} /\ Live \cup FreeChunks = ChunksOf(slabs)
    BY DEF IInv, ChunksAccounted, ChunksOf
  <2>3. Live' \cap FreeChunks' = {} /\ Live' \cup FreeChunks' = ChunksOf(slabs')
    BY <1>3, <1>6, <1>7, <2>1, <2>2
  <2> QED BY <1>3, <1>8, <2>3 DEF ChunksAccounted, ChunksOf, Distinct
<1>10. NoDangling'
  <2> SUFFICES ASSUME NEW k \in Pending', NEW c \in touches'[k]
               PROVE  c \in ChunksOf(slabs')
    BY DEF NoDangling, ChunksOf
  <2>1. k \in Pending /\ k \notin S /\ c \in touches[k]
    BY <1>5
  <2>2. c \in ChunksOf(slabs)
    BY <2>1 DEF IInv, NoDangling, ChunksOf
  <2>3. c \notin FreeChunks
    BY <2>1 DEF IInv, FreeSettled
  <2> QED BY <1>6, <1>7, <2>2, <2>3
<1>11. PresyncedQuiet'
  BY <1>1, <1>5 DEF IInv, PresyncedQuiet
<1> QED BY <1>4, <1>9, <1>10, <1>11 DEF IInv
-----------------------------------------------------------------------------
(* Chunks change hands                                                     *)

\* Where the order only grows and nobody's work is begun, finished or disowned,
\* an operation is still covered where it was.
LEMMA GrowingOrder ==
    ASSUME PoolAssumption, TypeOK, Keeps(Order, Order')
    PROVE  /\ \A q \in Queue : after[q] \subseteq after'[q]
           /\ \A s \in Stream \ {Pool} : \A k : Covered(Order, s, k) => Covered(Order', s, k)
BY DEF Keeps, Order

\* What taking a chunk from the end of a list does to the chunks' accounts.
LEMMA TakeAccounts ==
    ASSUME PoolAssumption, ChunksAccounted, OwnersApart, NEW s \in Stream \ {Pool},
           NEW list \in Seq(ChunksOf(slabs')), list # <<>>, Distinct(list),
           Elems(list) \cap Live = {}, Elems(list) \cup Live = ChunksOf(slabs'),
           slabs' \subseteq Slab, Take(list, s), UNCHANGED <<writers, presynced>>
    PROVE  LET c == list[Len(list)]
           IN  /\ PoolTyped' /\ OwnersApart'
               /\ c \in Chunk /\ c \in Elems(list) /\ c \notin Live
               /\ home' = [home EXCEPT ![c] = s]
               /\ Live' = Live \cup {c} /\ FreeChunks' = Elems(list) \ {c}
               /\ Live' \cap FreeChunks' = {} /\ Live' \cup FreeChunks' = ChunksOf(slabs')
               /\ Distinct(free_limb')
<1> DEFINE c == list[Len(list)]
<1>1. /\ home' = [home EXCEPT ![c] = s]
      /\ free_limb' = SubSeq(list, 1, Len(list) - 1)
  BY DEF Take
<1>2. /\ c \in Elems(list) /\ c \in ChunksOf(slabs')
      /\ free_limb' \in Seq(ChunksOf(slabs'))
      /\ Elems(free_limb') = Elems(list) \ {c} /\ Distinct(free_limb')
  BY <1>1, ButLastElements
<1> HIDE DEF c
<1>3. ChunksOf(slabs') \subseteq Chunk
  BY DEF ChunksOf, Chunk, SlicesOf
<1>4. PoolTyped
  BY Typed DEF ChunksAccounted
<1>5. s # NoOne /\ NoOne \notin Stream
  BY DEF PoolAssumption
<1>6. Live' = Live \cup {c}
  BY <1>1, <1>2, <1>3, <1>4, <1>5 DEF Live, PoolTyped
<1>7. FreeChunks' = Elems(free_limb')
  BY DEF FreeChunks, Elems
<1>8. PoolTyped'
  BY <1>1, <1>2, <1>4 DEF PoolTyped
<1>9. OwnersApart'
  BY <1>1, <1>4 DEF OwnersApart, PoolTyped
<1>10. c \in Chunk /\ c \notin Live
  BY <1>2, <1>3
<1>11. Live' \cap FreeChunks' = {} /\ Live' \cup FreeChunks' = ChunksOf(slabs')
  BY <1>2, <1>6, <1>7, <1>10
<1> QED BY <1>1, <1>2, <1>6, <1>7, <1>8, <1>9, <1>10, <1>11 DEF c

LEMMA GPUmallocFromListKeeps ==
    ASSUME PoolAssumption, IInv, NEW s \in Stream \ {Pool}, GPUmallocFromList(s)
    PROVE  IInv'
<1> DEFINE c == free_limb[Len(free_limb)]
<1>0. /\ ~presynced /\ free_limb # <<>> /\ Take(free_limb, s)
      /\ BecomesOrder(HandedOver(Order, s))
      /\ UNCHANGED <<slabs, writers, presynced, touches, deps, former>>
  BY DEF GPUmallocFromList, opVars
<1>1. ChunksAccounted /\ OwnersApart /\ PoolTyped /\ WorkTyped /\ TypeOK
  BY Typed DEF IInv, ChunksAccounted
<1>2. FreeChunks = Elems(free_limb) /\ Distinct(free_limb) /\ Elems(free_limb) \cap Live = {}
      /\ Elems(free_limb) \cup Live = ChunksOf(slabs')
  BY <1>0, <1>1 DEF FreeChunks, Elems, Distinct, ChunksAccounted, ChunksOf
<1>3. /\ PoolTyped' /\ OwnersApart'
      /\ c \in Chunk /\ c \in FreeChunks /\ c \notin Live
      /\ home' = [home EXCEPT ![c] = s]
      /\ Live' = Live \cup {c} /\ FreeChunks' = FreeChunks \ {c}
      /\ Live' \cap FreeChunks' = {} /\ Live' \cup FreeChunks' = ChunksOf(slabs')
      /\ Distinct(free_limb')
  BY <1>0, <1>1, <1>2, TakeAccounts DEF PoolTyped
<1>4. /\ Order' \in OrderOver(Pending) /\ Keeps(Order, Order')
      /\ after[QueueOf[Pool]] \subseteq after'[QueueOf[s]] /\ ~ updated'[s]
  <2>1. Order.after = after /\ Order'.after = after' /\ Order'.updated = updated'
    BY DEF Order
  <2>2. Order \in OrderOver(Pending)
    BY <1>1 DEF WorkTyped
  <2>3. Order' = HandedOver(Order, s)
    BY <1>0, <2>2, HandedOverKeeps, OrderBecomes
  <2> QED BY <2>1, <2>2, <2>3, HandedOverKeeps
<1> HIDE DEF c
<1>5. Pending' = Pending
  BY <1>0 DEF Pending
<1>6. WorkTyped'
  BY <1>0, <1>1, <1>4, <1>5 DEF WorkTyped
<1>7. ChunksAccounted'
  BY <1>3, <1>6, Typed DEF ChunksAccounted, ChunksOf, Distinct
<1>8. NoDangling' /\ TenantsOrdered' /\ PresyncedQuiet'
  BY <1>0, <1>5 DEF IInv, NoDangling, TenantsOrdered, PresyncedQuiet
<1>9. /\ \A q \in Queue : after[q] \subseteq after'[q]
      /\ \A u \in Stream \ {Pool} : \A k : Covered(Order, u, k) => Covered(Order', u, k)
  BY <1>1, <1>4, GrowingOrder
<1>10. \A d \in Live : home'[d] = home[d] /\ home[d] \in Stream \ {Pool}
  BY <1>1, <1>3 DEF Live, PoolTyped, OwnersApart
<1>11. Pool \in Stream /\ \A u \in Stream : QueueOf[u] \in Queue
  BY DEF PoolAssumption
<1>12. \A k \in Pending : c \in touches[k] => k \in after'[QueueOf[s]]
  BY <1>3, <1>4 DEF IInv, FreeSettled
<1>13. home'[c] = s
  BY <1>1, <1>3 DEF PoolTyped
<1>14. FormerSettled'
  <2> SUFFICES ASSUME NEW d \in Live', NEW j \in former, d \in touches[j]
               PROVE  Covered(Order', home'[d], j)
    BY <1>0 DEF FormerSettled
  <2>1. CASE d = c
    <3>1. j \in Pending
      BY <1>1 DEF WorkTyped
    <3> QED BY <1>4, <1>12, <1>13, <2>1, <3>1 DEF Covered, Order
  <2>2. CASE d \in Live
    BY <1>9, <1>10, <2>2 DEF IInv, FormerSettled
  <2> QED BY <1>3, <2>1, <2>2
<1>15. UsesTracked'
  <2> SUFFICES ASSUME NEW d \in Live', NEW k \in Pending, d \in touches[k]
               PROVE  \/ k \in after'[QueueOf[home'[d]]]
                      \/ \E w \in writers[d] : Covered(Order', w, k)
    BY <1>0, <1>5 DEF UsesTracked
  <2>1. CASE d = c
    BY <1>12, <1>13, <2>1
  <2>2. CASE d \in Live
    <3>1. writers[d] \subseteq Stream \ {Pool}
      BY <1>1, <2>2 DEF PoolTyped, OwnersApart, Live
    <3>2. \/ k \in after[QueueOf[home[d]]]
          \/ \E w \in writers[d] : Covered(Order, w, k)
      BY <2>2 DEF IInv, UsesTracked
    <3> QED BY <1>9, <1>10, <1>11, <2>2, <3>1, <3>2
  <2> QED BY <1>3, <2>1, <2>2
<1>16. FreeSettled'
  BY <1>0, <1>3, <1>5, <1>9, <1>11 DEF IInv, FreeSettled
<1>17. OwnWorkLocal'
  BY <1>0, <1>3, <1>5 DEF IInv, OwnWorkLocal
<1> QED BY <1>3, <1>7, <1>8, <1>14, <1>15, <1>16, <1>17 DEF IInv

\* The slices of a slab that is not reserved are new to everybody.
LEMMA NewSlices ==
    ASSUME PoolAssumption, IInv, NEW b \in Slab, b \notin slabs
    PROVE  /\ SlicesOf(b) \subseteq Chunk /\ SlicesOf(b) # {}
           /\ Elems(Slices[b]) = SlicesOf(b) /\ Distinct(Slices[b])
           /\ Slices[b] \in Seq(SlicesOf(b)) /\ Slices[b] # <<>>
           /\ SlicesOf(b) \cap ChunksOf(slabs) = {}
           /\ \A k \in Pending : SlicesOf(b) \cap touches[k] = {}
<1>1. Slices[b] \in Seq(Chunk) /\ Slices[b] # <<>>
  BY DEF PoolAssumption
<1>2. /\ DOMAIN Slices[b] = 1..Len(Slices[b]) /\ Len(Slices[b]) \in Nat \ {0}
      /\ \A i \in DOMAIN Slices[b] : Slices[b][i] \in Chunk
  BY <1>1, LenProperties, EmptySeq, ElementOfSeq
<1>3. SlicesOf(b) \subseteq Chunk /\ SlicesOf(b) # {}
  BY <1>2 DEF SlicesOf
<1>4. Elems(Slices[b]) = SlicesOf(b) /\ Distinct(Slices[b])
  BY DEF Elems, SlicesOf, Distinct, PoolAssumption
<1>5. Slices[b] \in Seq(SlicesOf(b))
  <2>1. \A i \in 1..Len(Slices[b]) : Slices[b][i] \in SlicesOf(b)
    BY <1>2 DEF SlicesOf
  <2> QED BY <1>1, <1>2, <2>1, LenProperties, IsASeq
<1>6. slabs \subseteq Slab
  BY DEF IInv, ChunksAccounted, TypeOK
<1>7. SlicesOf(b) \cap ChunksOf(slabs) = {}
  BY <1>6 DEF ChunksOf, PoolAssumption
<1>8. \A k \in Pending : touches[k] \subseteq ChunksOf(slabs)
  BY DEF IInv, NoDangling, ChunksOf
<1> QED BY <1>1, <1>3, <1>4, <1>5, <1>7, <1>8

LEMMA GPUmallocNewSlabKeeps ==
    ASSUME PoolAssumption, IInv, NEW s \in Stream \ {Pool}, NEW b \in Slab, NEW k \in Op,
           GPUmallocNewSlab(s, b, k)
    PROVE  IInv'
<1> DEFINE c == Slices[b][Len(Slices[b])]
           e == Enqueue(Order, Pool, k)
<1>0. /\ ~presynced /\ free_limb = <<>> /\ b \notin slabs /\ slabs' = slabs \cup {b}
      /\ Take(Slices[b], s)
      /\ k \notin Pending /\ touches' = [touches EXCEPT ![k] = SlicesOf(b)]
      /\ deps' = [deps EXCEPT ![k] = after[QueueOf[Pool]]]
      /\ former' = former \cup {k}
      /\ BecomesOrder(HandedOver(e, s))
      /\ UNCHANGED <<writers, presynced>>
  BY DEF GPUmallocNewSlab, Issue, Order
<1>1. ChunksAccounted /\ OwnersApart /\ PoolTyped /\ WorkTyped /\ TypeOK
  BY Typed DEF IInv, ChunksAccounted
<1>2. /\ SlicesOf(b) \subseteq Chunk /\ SlicesOf(b) # {}
      /\ Elems(Slices[b]) = SlicesOf(b) /\ Distinct(Slices[b])
      /\ Slices[b] \in Seq(SlicesOf(b)) /\ Slices[b] # <<>>
      /\ SlicesOf(b) \cap ChunksOf(slabs) = {}
      /\ \A j \in Pending : SlicesOf(b) \cap touches[j] = {}
  BY <1>0, NewSlices
<1>3. Live = ChunksOf(slabs) /\ ChunksOf(slabs') = ChunksOf(slabs) \cup SlicesOf(b)
  BY <1>0, <1>1 DEF ChunksAccounted, ChunksOf, FreeChunks
<1>4. /\ PoolTyped' /\ OwnersApart'
      /\ c \in Chunk /\ c \in SlicesOf(b) /\ c \notin Live
      /\ home' = [home EXCEPT ![c] = s]
      /\ Live' = Live \cup {c} /\ FreeChunks' = SlicesOf(b) \ {c}
      /\ Live' \cap FreeChunks' = {} /\ Live' \cup FreeChunks' = ChunksOf(slabs')
      /\ Distinct(free_limb')
  <2>1. slabs' \subseteq Slab
    BY <1>0, <1>1 DEF PoolTyped
  <2>2. Slices[b] \in Seq(ChunksOf(slabs'))
    BY <1>2, <1>3, SeqMonotonic
  <2>3. Elems(Slices[b]) \cap Live = {} /\ Elems(Slices[b]) \cup Live = ChunksOf(slabs')
    <3>1. Elems(Slices[b]) = SlicesOf(b) /\ SlicesOf(b) \cap ChunksOf(slabs) = {}
      BY <1>2
    <3> QED BY <1>3, <3>1
  <2> DEFINE list == Slices[b]
  <2>4. /\ list \in Seq(ChunksOf(slabs')) /\ list # <<>> /\ Distinct(list)
        /\ Elems(list) \cap Live = {} /\ Elems(list) \cup Live = ChunksOf(slabs')
    BY <1>2, <2>2, <2>3
  <2>5. /\ Take(list, s) /\ Elems(list) = SlicesOf(b) /\ c = list[Len(list)]
        /\ UNCHANGED <<writers, presynced>>
    BY <1>0, <1>2
  <2> HIDE DEF list, c, e
  <2>6. /\ PoolTyped' /\ OwnersApart'
        /\ list[Len(list)] \in Chunk /\ list[Len(list)] \in Elems(list)
        /\ list[Len(list)] \notin Live
        /\ home' = [home EXCEPT ![list[Len(list)]] = s]
        /\ Live' = Live \cup {list[Len(list)]} /\ FreeChunks' = Elems(list) \ {list[Len(list)]}
        /\ Live' \cap FreeChunks' = {} /\ Live' \cup FreeChunks' = ChunksOf(slabs')
        /\ Distinct(free_limb')
    BY <1>1, <2>1, <2>4, <2>5, TakeAccounts
  <2> QED BY <2>5, <2>6
<1> HIDE DEF c
<1>5. Pool \in Stream /\ \A u \in Stream : QueueOf[u] \in Queue
  BY DEF PoolAssumption
<1>6. Pending' = Pending \cup {k}
  BY <1>0, <1>1, <1>2 DEF Pending, WorkTyped
<1>7. /\ Order' \in OrderOver(Pending') /\ Keeps(Order, Order')
      /\ k \in after'[QueueOf[s]] /\ k \in after'[QueueOf[Pool]] /\ ~ updated'[s]
  <2>1. Order \in OrderOver(Pending)
    BY <1>1 DEF WorkTyped
  <2>2. e \in OrderOver(Pending \cup {k}) /\ Keeps(Order, e) /\ k \in e.after[QueueOf[Pool]]
    BY <1>5, <2>1, EnqueueKeeps
  <2> HIDE DEF e
  <2>3. /\ HandedOver(e, s) \in OrderOver(Pending \cup {k}) /\ Keeps(e, HandedOver(e, s))
        /\ e.after[QueueOf[Pool]] \subseteq HandedOver(e, s).after[QueueOf[s]]
        /\ ~ HandedOver(e, s).updated[s]
    BY <2>2, HandedOverKeeps
  <2>4. Order' = HandedOver(e, s)
    BY <1>0, <2>3, OrderBecomes
  <2>5. Order'.after = after' /\ Order'.updated = updated'
    BY DEF Order
  <2>6. e.after[QueueOf[Pool]] \subseteq after'[QueueOf[Pool]]
    BY <1>5, <2>3, <2>4, <2>5 DEF Keeps
  <2> QED BY <1>6, <2>2, <2>3, <2>4, <2>5, <2>6, KeepsTransitive
<1>8. WorkTyped'
  <2>1. after[QueueOf[Pool]] \subseteq Pending
    BY <1>1, <1>5 DEF WorkTyped, Order, OrderOver
  <2> QED BY <1>0, <1>1, <1>2, <1>6, <1>7, <2>1 DEF WorkTyped
<1>9. ChunksAccounted'
  BY <1>4, <1>8, Typed DEF ChunksAccounted, ChunksOf, Distinct
<1>10. /\ \A j \in Pending : j # k /\ touches'[j] = touches[j] /\ deps'[j] = deps[j]
       /\ touches'[k] = SlicesOf(b) /\ former \subseteq Pending
  BY <1>0, <1>1 DEF WorkTyped, Pending
<1>11. NoDangling'
  <2>1. \A j \in Pending : touches'[j] \subseteq ChunksOf(slabs')
    BY <1>3, <1>10 DEF IInv, NoDangling, ChunksOf
  <2>2. touches'[k] \subseteq ChunksOf(slabs')
    BY <1>3, <1>10
  <2> QED BY <1>6, <2>1, <2>2 DEF NoDangling, ChunksOf
<1>12. TenantsOrdered'
  <2> SUFFICES ASSUME NEW j \in former', NEW m \in Pending' \ former',
                      touches'[j] \cap touches'[m] # {}
               PROVE  j \in deps'[m]
    BY DEF TenantsOrdered
  <2>1. m \in Pending \ former /\ touches'[m] = touches[m] /\ deps'[m] = deps[m]
    BY <1>0, <1>6, <1>10
  <2>2. j # k
    BY <1>2, <1>10, <2>1
  <2>3. j \in former /\ touches'[j] = touches[j]
    BY <1>0, <1>10, <2>2
  <2> QED BY <2>1, <2>3 DEF IInv, TenantsOrdered
<1>13. PresyncedQuiet'
  BY <1>0 DEF PresyncedQuiet
<1>14. /\ \A q \in Queue : after[q] \subseteq after'[q]
       /\ \A u \in Stream \ {Pool} : \A j : Covered(Order, u, j) => Covered(Order', u, j)
  BY <1>1, <1>7, GrowingOrder
<1>15. \A d \in Live : /\ home'[d] = home[d] /\ home[d] \in Stream \ {Pool}
                       /\ d \notin touches'[k]
  BY <1>1, <1>2, <1>3, <1>4, <1>10 DEF Live, PoolTyped, OwnersApart
<1>16. \A j \in Pending, d \in SlicesOf(b) : d \notin touches'[j]
  BY <1>2, <1>10
<1>17. home'[c] = s
  BY <1>1, <1>4 DEF PoolTyped
<1>18. FormerSettled'
  <2> SUFFICES ASSUME NEW d \in Live', NEW j \in former', d \in touches'[j]
               PROVE  Covered(Order', home'[d], j)
    BY DEF FormerSettled
  <2>1. CASE d = c
    <3>1. j = k
      BY <1>0, <1>4, <1>10, <1>16, <2>1
    <3> QED BY <1>7, <1>17, <2>1, <3>1 DEF Covered, Order
  <2>2. CASE d \in Live
    <3>1. j \in former /\ d \in touches[j]
      BY <1>0, <1>10, <1>15, <2>2
    <3> QED BY <1>14, <1>15, <2>2, <3>1 DEF IInv, FormerSettled
  <2> QED BY <1>4, <2>1, <2>2
<1>19. UsesTracked'
  <2> SUFFICES ASSUME NEW d \in Live', NEW j \in Pending', d \in touches'[j]
               PROVE  \/ j \in after'[QueueOf[home'[d]]]
                      \/ \E w \in writers[d] : Covered(Order', w, j)
    BY <1>0 DEF UsesTracked
  <2>1. CASE d = c
    <3>1. j = k
      BY <1>4, <1>6, <1>16, <2>1
    <3> QED BY <1>7, <1>17, <2>1, <3>1
  <2>2. CASE d \in Live
    <3>1. writers[d] \subseteq Stream \ {Pool}
      BY <1>1, <2>2 DEF PoolTyped, OwnersApart, Live
    <3>2. j \in Pending /\ d \in touches[j]
      BY <1>6, <1>10, <1>15, <2>2
    <3>3. \/ j \in after[QueueOf[home[d]]]
          \/ \E w \in writers[d] : Covered(Order, w, j)
      BY <2>2, <3>2 DEF IInv, UsesTracked
    <3> QED BY <1>5, <1>14, <1>15, <2>2, <3>1, <3>3
  <2> QED BY <1>4, <2>1, <2>2
<1>20. FreeSettled'
  <2> SUFFICES ASSUME NEW d \in FreeChunks', NEW j \in Pending', d \in touches'[j]
               PROVE  j \in after'[QueueOf[Pool]]
    BY DEF FreeSettled
  <2>1. j = k
    BY <1>4, <1>6, <1>16
  <2> QED BY <1>7, <2>1
<1>21. OwnWorkLocal'
  BY <1>0, <1>4, <1>6, <1>10 DEF IInv, OwnWorkLocal
<1> QED BY <1>4, <1>9, <1>11, <1>12, <1>13, <1>18, <1>19, <1>20, <1>21 DEF IInv
-----------------------------------------------------------------------------
(* The owner's work                                                        *)

\* The streams of a chunk's owner are not the allocator's.
LEMMA OwnersStreams ==
    ASSUME PoolAssumption, IInv
    PROVE  /\ TypeOK /\ PoolTyped /\ WorkTyped
           /\ Pool \in Stream /\ \A u \in Stream : QueueOf[u] \in Queue
           /\ \A d \in Live : d \in Chunk /\ home[d] \in Stream \ {Pool}
           /\ \A d \in Chunk : writers[d] \subseteq Stream \ {Pool}
<1>1. TypeOK /\ PoolTyped /\ WorkTyped
  BY Typed DEF IInv, ChunksAccounted
<1>2. OwnersApart
  BY DEF IInv
<1>3. \A d \in Live : d \in Chunk /\ home[d] \in Stream \ {Pool}
  BY <1>1, <1>2 DEF Live, PoolTyped, OwnersApart
<1>4. \A d \in Chunk : writers[d] \subseteq Stream \ {Pool}
  BY <1>1, <1>2 DEF PoolTyped, OwnersApart
<1> QED BY <1>1, <1>3, <1>4 DEF PoolAssumption

LEMMA UseKeeps ==
    ASSUME PoolAssumption, IInv, NEW s \in Stream \ {Pool}, NEW c \in Chunk, NEW k \in Op,
           Use(s, c, k)
    PROVE  IInv'
<1> DEFINE w == IF s = home[c] THEN Order ELSE WaitStream(Order, s, home[c])
           o == Ptr(w, s)
<1>0. /\ ~presynced /\ c \in Live
      /\ k \notin Pending /\ touches' = [touches EXCEPT ![k] = {c}]
      /\ deps' = [deps EXCEPT ![k] = o.after[QueueOf[s]]]
      /\ BecomesOrder(Enqueue(o, s, k))
      /\ writers' = [writers EXCEPT ![c] = @ \cup ({s} \ {home[c]})]
      /\ UNCHANGED <<slabs, free_limb, home, presynced, former>>
  BY DEF Use, Issue
<1>1. /\ TypeOK /\ PoolTyped /\ WorkTyped
      /\ Pool \in Stream /\ \A u \in Stream : QueueOf[u] \in Queue
      /\ \A d \in Live : d \in Chunk /\ home[d] \in Stream \ {Pool}
      /\ \A d \in Chunk : writers[d] \subseteq Stream \ {Pool}
  BY OwnersStreams
<1>2. Order \in OrderOver(Pending) /\ home[c] \in Stream \ {Pool}
  BY <1>0, <1>1 DEF WorkTyped
<1>3. /\ w \in OrderOver(Pending) /\ Keeps(Order, w)
      /\ \A j : Covered(Order, home[c], j) => j \in w.after[QueueOf[s]]
  <2>1. CASE s = home[c]
    BY <1>2, <2>1 DEF Keeps, Covered
  <2>2. CASE s # home[c]
    <3>1. w = WaitStream(Order, s, home[c])
      BY <2>2
    <3> HIDE DEF w
    <3> QED BY <1>2, <3>1, WaitStreamKeeps
  <2> QED BY <2>1, <2>2
<1> HIDE DEF w
<1>4. /\ o \in OrderOver(Pending) /\ Keeps(Order, o) /\ ~ o.updated[s] /\ o.after = w.after
  <2>1. o \in OrderOver(Pending) /\ Keeps(w, o) /\ ~ o.updated[s] /\ o.after = w.after
    BY <1>3, PtrKeeps
  <2> QED BY <1>3, <2>1, KeepsTransitive
<1> HIDE DEF o
<1>5. Pending' = Pending \cup {k}
  <2>1. touches'[k] # {} /\ \A j \in Op \ {k} : touches'[j] = touches[j]
    BY <1>0, <1>1 DEF WorkTyped
  <2> QED BY <1>0, <2>1 DEF Pending
<1>6. /\ Order' \in OrderOver(Pending') /\ Keeps(Order, Order')
      /\ k \in after'[QueueOf[s]] /\ ~ updated'[s]
  <2>1. /\ Enqueue(o, s, k) \in OrderOver(Pending \cup {k}) /\ Keeps(o, Enqueue(o, s, k))
        /\ k \in Enqueue(o, s, k).after[QueueOf[s]]
        /\ Enqueue(o, s, k).updated = o.updated
    <3> DEFINE P == Pending
               r == Enqueue(o, s, k)
    <3>1. o \in OrderOver(P) /\ s \in Stream
      BY <1>4
    <3> HIDE DEF P
    <3>2. /\ r \in OrderOver(P \cup {k}) /\ Keeps(o, r)
          /\ k \in r.after[QueueOf[s]] /\ r.updated = o.updated
      BY <3>1 DEF PoolAssumption, OrderOver, Enqueue, Keeps, Covered
    <3> HIDE DEF r
    <3> QED BY <3>2 DEF P, r
  <2>2. Order' = Enqueue(o, s, k)
    BY <1>0, <2>1, OrderBecomes
  <2>3. Order'.after = after' /\ Order'.updated = updated'
    BY DEF Order
  <2> QED BY <1>4, <1>5, <2>1, <2>2, <2>3, KeepsTransitive
<1>7. WorkTyped'
  <2>1. o.after[QueueOf[s]] \subseteq Pending
    BY <1>1, <1>4 DEF OrderOver
  <2> QED BY <1>0, <1>1, <1>5, <1>6, <2>1 DEF WorkTyped
<1>8. PoolTyped' /\ Live' = Live /\ FreeChunks' = FreeChunks
  BY <1>0, <1>1 DEF PoolTyped, Live, FreeChunks
<1>9. ChunksAccounted'
  BY <1>0, <1>7, <1>8, Typed DEF IInv, ChunksAccounted
<1>10. /\ \A j \in Pending : j # k /\ touches'[j] = touches[j] /\ deps'[j] = deps[j]
       /\ touches'[k] = {c} /\ deps'[k] = o.after[QueueOf[s]] /\ former \subseteq Pending
  BY <1>0, <1>1 DEF WorkTyped, Pending
<1>11. \A d \in Chunk : /\ writers[d] \subseteq writers'[d]
                        /\ d # c => writers'[d] = writers[d]
                        /\ d = c => writers'[d] = writers[d] \cup ({s} \ {home[c]})
  BY <1>0, <1>1 DEF PoolTyped
<1>12. OwnersApart'
  <2>1. home[c] # NoOne
    BY <1>0 DEF Live
  <2> QED BY <1>0, <1>1, <1>11, <2>1 DEF IInv, OwnersApart
<1>13. NoDangling'
  <2>1. \A j \in Pending : touches'[j] \subseteq ChunksOf(slabs)
    BY <1>10 DEF IInv, NoDangling, ChunksOf
  <2>2. c \in ChunksOf(slabs)
    BY <1>0 DEF IInv, ChunksAccounted, ChunksOf
  <2> QED BY <1>0, <1>5, <1>10, <2>1, <2>2 DEF NoDangling, ChunksOf
<1>14. TenantsOrdered'
  <2> SUFFICES ASSUME NEW j \in former, NEW m \in Pending' \ former,
                      touches'[j] \cap touches'[m] # {}
               PROVE  j \in deps'[m]
    BY <1>0 DEF TenantsOrdered
  <2>1. touches'[j] = touches[j]
    BY <1>10
  <2>2. CASE m = k
    <3>1. c \in touches[j]
      BY <1>10, <2>1, <2>2
    <3>2. Covered(Order, home[c], j)
      BY <1>0, <3>1 DEF IInv, FormerSettled
    <3> QED BY <1>3, <1>4, <1>10, <2>2, <3>2
  <2>3. CASE m \in Pending
    BY <1>10, <2>1, <2>3 DEF IInv, TenantsOrdered
  <2> QED BY <1>5, <2>2, <2>3
<1>15. /\ \A q \in Queue : after[q] \subseteq after'[q]
       /\ \A u \in Stream \ {Pool} : \A j : Covered(Order, u, j) => Covered(Order', u, j)
  BY <1>1, <1>6, GrowingOrder
<1>16. FormerSettled'
  BY <1>0, <1>1, <1>8, <1>10, <1>15 DEF IInv, FormerSettled
<1>17. UsesTracked'
  <2> SUFFICES ASSUME NEW d \in Live, NEW j \in Pending', d \in touches'[j]
               PROVE  \/ j \in after'[QueueOf[home[d]]]
                      \/ \E v \in writers'[d] : Covered(Order', v, j)
    BY <1>0, <1>8 DEF UsesTracked
  <2>1. CASE j = k
    <3>1. d = c
      BY <1>10, <2>1
    <3>2. Covered(Order', s, k)
      BY <1>6 DEF Covered, Order
    <3>3. CASE s = home[c]
      BY <1>6, <2>1, <3>1, <3>3
    <3>4. CASE s # home[c]
      BY <1>11, <2>1, <3>1, <3>2, <3>4
    <3> QED BY <3>3, <3>4
  <2>2. CASE j \in Pending
    <3>1. \/ j \in after[QueueOf[home[d]]]
          \/ \E v \in writers[d] : Covered(Order, v, j)
      BY <1>10, <2>2 DEF IInv, UsesTracked
    <3> QED BY <1>1, <1>11, <1>15, <3>1
  <2> QED BY <1>5, <2>1, <2>2
<1>18. FreeSettled'
  <2> SUFFICES ASSUME NEW d \in FreeChunks, NEW j \in Pending', d \in touches'[j]
               PROVE  j \in after'[QueueOf[Pool]]
    BY <1>8 DEF FreeSettled
  <2>1. d # c
    BY <1>0 DEF IInv, ChunksAccounted
  <2>2. j \in Pending /\ d \in touches[j]
    BY <1>5, <1>10, <2>1
  <2> QED BY <1>1, <1>15, <2>2 DEF IInv, FreeSettled
<1>19. OwnWorkLocal'
  BY <1>0, <1>5, <1>8, <1>10 DEF IInv, OwnWorkLocal
<1>20. PresyncedQuiet'
  BY <1>0 DEF PresyncedQuiet
<1> QED BY <1>9, <1>12, <1>13, <1>14, <1>16, <1>17, <1>18, <1>19, <1>20 DEF IInv

LEMMA JoinKeeps ==
    ASSUME PoolAssumption, IInv, NEW s \in Stream \ {Pool}, NEW c \in Chunk, Join(c, s)
    PROVE  IInv'
<1>0. /\ ~presynced /\ s \in writers[c]
      /\ writers' = [writers EXCEPT ![c] = @ \ {s}]
      /\ BecomesOrder(WaitStream(Order, home[c], s))
      /\ UNCHANGED <<slabs, free_limb, home, presynced, touches, deps, former>>
  BY DEF Join, HomeJoined, opVars
<1>1. /\ TypeOK /\ PoolTyped /\ WorkTyped
      /\ Pool \in Stream /\ \A u \in Stream : QueueOf[u] \in Queue
      /\ \A d \in Live : d \in Chunk /\ home[d] \in Stream \ {Pool}
      /\ \A d \in Chunk : writers[d] \subseteq Stream \ {Pool}
  BY OwnersStreams
<1>2. c \in Live
  BY <1>0 DEF IInv, OwnersApart, Live
<1>3. /\ Order' \in OrderOver(Pending) /\ Keeps(Order, Order')
      /\ \A k : Covered(Order, s, k) => k \in after'[QueueOf[home[c]]]
  <2>1. Order \in OrderOver(Pending) /\ home[c] \in Stream
    BY <1>1, <1>2 DEF WorkTyped
  <2>2. Order' = WaitStream(Order, home[c], s)
    BY <1>0, <2>1, WaitStreamKeeps, OrderBecomes
  <2>3. Order'.after = after'
    BY DEF Order
  <2> QED BY <2>1, <2>2, <2>3, WaitStreamKeeps
<1>4. Pending' = Pending /\ Live' = Live /\ FreeChunks' = FreeChunks
  BY <1>0 DEF Pending, Live, FreeChunks
<1>5. PoolTyped' /\ WorkTyped'
  BY <1>0, <1>1, <1>3, <1>4 DEF PoolTyped, WorkTyped
<1>6. ChunksAccounted'
  BY <1>0, <1>4, <1>5, Typed DEF IInv, ChunksAccounted
<1>7. NoDangling' /\ TenantsOrdered' /\ PresyncedQuiet' /\ OwnWorkLocal'
  BY <1>0, <1>4 DEF IInv, NoDangling, TenantsOrdered, PresyncedQuiet, OwnWorkLocal
<1>8. \A d \in Chunk : writers'[d] = IF d = c THEN writers[c] \ {s} ELSE writers[d]
  BY <1>0, <1>1 DEF PoolTyped
<1>9. OwnersApart'
  BY <1>0, <1>8 DEF IInv, OwnersApart
<1>10. /\ \A q \in Queue : after[q] \subseteq after'[q]
       /\ \A u \in Stream \ {Pool} : \A k : Covered(Order, u, k) => Covered(Order', u, k)
  BY <1>1, <1>3, GrowingOrder
<1>11. FormerSettled'
  BY <1>0, <1>1, <1>4, <1>10 DEF IInv, FormerSettled
<1>12. UsesTracked'
  <2> SUFFICES ASSUME NEW d \in Live, NEW k \in Pending, d \in touches[k]
               PROVE  \/ k \in after'[QueueOf[home[d]]]
                      \/ \E v \in writers'[d] : Covered(Order', v, k)
    BY <1>0, <1>4 DEF UsesTracked
  <2>1. CASE k \in after[QueueOf[home[d]]]
    BY <1>1, <1>10, <2>1
  <2>2. ASSUME NEW v \in writers[d], Covered(Order, v, k)
        PROVE  \/ k \in after'[QueueOf[home[d]]]
               \/ \E x \in writers'[d] : Covered(Order', x, k)
    <3>1. CASE d = c /\ v = s
      BY <1>3, <2>2, <3>1
    <3>2. CASE ~ (d = c /\ v = s)
      <4>1. v \in writers'[d] /\ v \in Stream \ {Pool}
        BY <1>1, <1>8, <3>2
      <4> QED BY <1>10, <2>2, <4>1
    <3> QED BY <3>1, <3>2
  <2> QED BY <2>1, <2>2 DEF IInv, UsesTracked
<1>13. FreeSettled'
  BY <1>0, <1>1, <1>4, <1>10 DEF IInv, FreeSettled
<1> QED BY <1>6, <1>7, <1>9, <1>11, <1>12, <1>13 DEF IInv

LEMMA GPUfreeKeeps ==
    ASSUME PoolAssumption, IInv, NEW c \in Chunk, GPUfree(c)
    PROVE  IInv'
<1>0. /\ c \in Live /\ (presynced \/ writers[c] = {})
      /\ BecomesOrder(ReturnedToPool(Order, home[c]))
      /\ free_limb' = Append(free_limb, c)
      /\ home' = [home EXCEPT ![c] = NoOne]
      /\ writers' = [writers EXCEPT ![c] = {}]
      /\ former' = former \cup {k \in Pending : c \in touches[k]}
      /\ UNCHANGED <<slabs, presynced, touches, deps>>
  BY DEF GPUfree
<1>1. /\ TypeOK /\ PoolTyped /\ WorkTyped
      /\ Pool \in Stream /\ \A u \in Stream : QueueOf[u] \in Queue
      /\ \A d \in Live : d \in Chunk /\ home[d] \in Stream \ {Pool}
      /\ \A d \in Chunk : writers[d] \subseteq Stream \ {Pool}
  BY OwnersStreams
<1>2. /\ Order' \in OrderOver(Pending) /\ Keeps(Order, Order')
      /\ ~presynced => after[QueueOf[home[c]]] \subseteq after'[QueueOf[Pool]]
  <2>1. Order \in OrderOver(Pending) /\ home[c] \in Stream
    BY <1>0, <1>1 DEF WorkTyped
  <2>2. Order' = ReturnedToPool(Order, home[c])
    BY <1>0, <2>1, ReturnedKeeps, OrderBecomes
  <2>3. Order.after = after /\ Order'.after = after'
    BY DEF Order
  <2> QED BY <2>1, <2>2, <2>3, ReturnedKeeps
<1>3. Pending' = Pending
  BY <1>0 DEF Pending
<1>4. /\ c \in ChunksOf(slabs) /\ FreeChunks = Elems(free_limb)
      /\ c \notin Elems(free_limb) /\ Distinct(free_limb)
      /\ Live \cap FreeChunks = {} /\ Live \cup FreeChunks = ChunksOf(slabs)
  BY <1>0 DEF IInv, ChunksAccounted, ChunksOf, FreeChunks, Elems, Distinct
<1>5. /\ free_limb' \in Seq(ChunksOf(slabs)) /\ Distinct(free_limb')
      /\ FreeChunks' = FreeChunks \cup {c}
  <2>1. free_limb \in Seq(ChunksOf(slabs))
    BY <1>1 DEF PoolTyped
  <2>2. /\ free_limb' \in Seq(ChunksOf(slabs)) /\ Distinct(free_limb')
        /\ Elems(free_limb') = Elems(free_limb) \cup {c}
    BY <1>0, <1>4, <2>1, AppendElements
  <2>3. FreeChunks' = Elems(free_limb')
    BY DEF FreeChunks, Elems
  <2> QED BY <1>4, <2>2, <2>3
<1>6. \A d \in Chunk : /\ home'[d] = IF d = c THEN NoOne ELSE home[d]
                       /\ writers'[d] = IF d = c THEN {} ELSE writers[d]
  BY <1>0, <1>1 DEF PoolTyped
<1>7. Live' = Live \ {c}
  BY <1>6 DEF Live
<1>8. PoolTyped'
  BY <1>0, <1>1, <1>5 DEF PoolTyped
<1>9. WorkTyped'
  BY <1>0, <1>1, <1>2, <1>3 DEF WorkTyped
<1>10. ChunksAccounted'
  <2>1. Live' \cap FreeChunks' = {} /\ Live' \cup FreeChunks' = ChunksOf(slabs')
    BY <1>0, <1>4, <1>5, <1>7
  <2> QED BY <1>5, <1>8, <1>9, <2>1, Typed DEF ChunksAccounted, ChunksOf, Distinct
<1>11. NoDangling' /\ PresyncedQuiet'
  BY <1>0, <1>3 DEF IInv, NoDangling, PresyncedQuiet
<1>12. Pool # NoOne
  BY DEF PoolAssumption
<1>13. OwnersApart'
  BY <1>6, <1>12 DEF IInv, OwnersApart
\* What leaves with the owner is the work on this chunk alone.
<1>14. \A j \in former' \ former : j \in Pending /\ touches[j] = {c}
  BY <1>0 DEF IInv, OwnWorkLocal
<1>15. TenantsOrdered'
  <2> SUFFICES ASSUME NEW j \in former', NEW m \in Pending \ former',
                      touches[j] \cap touches[m] # {}
               PROVE  j \in deps[m]
    BY <1>0, <1>3 DEF TenantsOrdered
  <2>1. m \notin former /\ c \notin touches[m]
    BY <1>0
  <2>2. j \in former
    BY <1>14, <2>1
  <2> QED BY <2>1, <2>2 DEF IInv, TenantsOrdered
<1>16. OwnWorkLocal'
  <2> SUFFICES ASSUME NEW k \in Pending \ former'
               PROVE  \E d \in Live \ {c} : touches[k] = {d}
    BY <1>0, <1>3, <1>7 DEF OwnWorkLocal
  <2>1. k \notin former /\ c \notin touches[k]
    BY <1>0
  <2> QED BY <2>1 DEF IInv, OwnWorkLocal
<1>17. /\ \A q \in Queue : after[q] \subseteq after'[q]
       /\ \A u \in Stream \ {Pool} : \A k : Covered(Order, u, k) => Covered(Order', u, k)
  BY <1>1, <1>2, GrowingOrder
<1>18. FormerSettled'
  <2> SUFFICES ASSUME NEW d \in Live \ {c}, NEW j \in former', d \in touches[j]
               PROVE  Covered(Order', home'[d], j)
    BY <1>0, <1>7 DEF FormerSettled
  <2>1. j \in former
    BY <1>14
  <2> QED BY <1>1, <1>6, <1>17, <2>1 DEF IInv, FormerSettled
<1>19. UsesTracked'
  <2> SUFFICES ASSUME NEW d \in Live \ {c}, NEW k \in Pending, d \in touches[k]
               PROVE  \/ k \in after'[QueueOf[home'[d]]]
                      \/ \E v \in writers'[d] : Covered(Order', v, k)
    BY <1>0, <1>3, <1>7 DEF UsesTracked
  <2>1. \/ k \in after[QueueOf[home[d]]]
        \/ \E v \in writers[d] : Covered(Order, v, k)
    BY DEF IInv, UsesTracked
  <2>2. home'[d] = home[d] /\ writers'[d] = writers[d]
    BY <1>1, <1>6
  <2> QED BY <1>1, <1>17, <2>1, <2>2
<1>20. FreeSettled'
  <2> SUFFICES ASSUME NEW d \in FreeChunks \cup {c}, NEW k \in Pending, d \in touches[k]
               PROVE  k \in after'[QueueOf[Pool]]
    BY <1>0, <1>3, <1>5 DEF FreeSettled
  <2>1. CASE d = c
    <3>1. ~presynced /\ writers[c] = {}
      BY <1>0 DEF IInv, PresyncedQuiet
    <3>2. k \in after[QueueOf[home[c]]]
      BY <1>0, <2>1, <3>1 DEF IInv, UsesTracked
    <3> QED BY <1>2, <3>1, <3>2
  <2>2. CASE d \in FreeChunks
    BY <1>1, <1>17, <2>2 DEF IInv, FreeSettled
  <2> QED BY <2>1, <2>2
<1> QED BY <1>10, <1>11, <1>13, <1>15, <1>16, <1>18, <1>19, <1>20 DEF IInv
-----------------------------------------------------------------------------
(* The theorems                                                            *)

LEMMA NextIInv ==
    ASSUME PoolAssumption, IInv, [PoolNext]_chunkVars
    PROVE  IInv'
<1>1. ASSUME NEW k \in Op, OpCompletes(k)
      PROVE  IInv'
  BY <1>1, OpCompletesKeeps
<1>2. ASSUME NEW s \in Stream \ {Pool}, GPUmallocFromList(s)
      PROVE  IInv'
  BY <1>2, GPUmallocFromListKeeps
<1>3. ASSUME NEW s \in Stream \ {Pool}, NEW b \in Slab, NEW k \in Op, GPUmallocNewSlab(s, b, k)
      PROVE  IInv'
  BY <1>3, GPUmallocNewSlabKeeps
<1>4. ASSUME NEW s \in Stream \ {Pool}, NEW c \in Chunk, NEW k \in Op, Use(s, c, k)
      PROVE  IInv'
  BY <1>4, UseKeeps
<1>5. ASSUME NEW s \in Stream \ {Pool}, NEW c \in Chunk, Join(c, s)
      PROVE  IInv'
  BY <1>5, JoinKeeps
<1>6. ASSUME NEW c \in Chunk, GPUfree(c)
      PROVE  IInv'
  BY <1>6, GPUfreeKeeps
<1>7. CASE BeginPresynced
  BY <1>7, BeginPresyncedKeeps
<1>8. CASE EndPresynced
  BY <1>8, EndPresyncedKeeps
<1>9. CASE GPUtrim
  BY <1>9, GPUtrimKeeps
<1>10. CASE UNCHANGED chunkVars
  <2>1. UNCHANGED <<slabs, free_limb, home, writers, presynced, after, ev, updated, touches,
                    deps, former>>
    BY <1>10 DEF chunkVars, poolVars, orderVars, opVars
  <2>2. Pending' = Pending /\ Live' = Live /\ FreeChunks' = FreeChunks /\ Order' = Order
    BY <2>1 DEF Pending, Live, FreeChunks, Order
  <2>3. ChunksAccounted'
    <3>1. PoolTyped' /\ WorkTyped'
      BY <2>1, <2>2, Typed DEF IInv, ChunksAccounted, PoolTyped, WorkTyped
    <3> QED BY <2>1, <2>2, <3>1, Typed DEF IInv, ChunksAccounted
  <2>4. NoDangling' /\ TenantsOrdered' /\ OwnersApart'
    BY <2>1, <2>2 DEF IInv, NoDangling, TenantsOrdered, OwnersApart
  <2>5. FormerSettled' /\ UsesTracked' /\ FreeSettled'
    BY <2>1, <2>2 DEF IInv, FormerSettled, UsesTracked, FreeSettled
  <2>6. OwnWorkLocal' /\ PresyncedQuiet'
    BY <2>1, <2>2 DEF IInv, OwnWorkLocal, PresyncedQuiet
  <2> QED BY <2>3, <2>4, <2>5, <2>6 DEF IInv
<1> QED BY <1>1, <1>2, <1>3, <1>4, <1>5, <1>6, <1>7, <1>8, <1>9, <1>10 DEF PoolNext

\* The strengthened invariant holds in every state the pool reaches.
LEMMA IInvHolds == PoolSpec => []IInv
<1>1. PoolInit => IInv
  BY PoolAssumption, InitIInv
<1>2. IInv /\ [PoolNext]_chunkVars => IInv'
  BY PoolAssumption, NextIInv
<1> QED BY <1>1, <1>2, PTL DEF PoolSpec

\* GPUmalloc, GPUfree and GPUtrim keep every variable typed and account for every
\* chunk of the reserved slabs: live, or exactly once in the free list.
THEOREM ChunksAlwaysAccounted == PoolSpec => []ChunksAccounted
<1>1. IInv => ChunksAccounted
  BY DEF IInv
<1> QED BY <1>1, IInvHolds, PTL

\* GPUtrim gives back to the driver no slab that unfinished work still accesses.
THEOREM NothingDangles == PoolSpec => []NoDangling
<1>1. IInv => NoDangling
  BY DEF IInv
<1> QED BY <1>1, IInvHolds, PTL

\* However chunks are reused, the events of the Stream objects put the work of a
\* chunk's former tenants before that of the present one.
THEOREM TenantsAlwaysOrdered == PoolSpec => []TenantsOrdered
<1>1. IInv => TenantsOrdered
  BY DEF IInv
<1> QED BY <1>1, IInvHolds, PTL
=============================================================================
