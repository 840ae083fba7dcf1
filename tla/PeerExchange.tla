--------------------------- MODULE PeerExchange ---------------------------
(***************************************************************************)
(* The operations of CKKS::Ciphertext on several GPUs.                     *)
(*                                                                         *)
(* Each GPU holds a part of the limbs and of the special limbs of every    *)
(* polynomial, and a host thread of its own enqueues the kernels of its    *)
(* part (an OpenMP parallel region for each call of RNSPoly).  Base        *)
(* conversions need the limbs of all GPUs, so the threads exchange them    *)
(* (LimbPartitionMGPU.cu), over one of three transports:                   *)
(*    NCCL         a collective, each part of it on a stream of its GPU    *)
(*    MEMCPY_PEER  the sender copies into the buffer of the receiver, on a *)
(*                 stream of the pair (digitStreamForMemcpyPeer)           *)
(*    PEER_ACCESS  the receiver's kernel reads the buffer of the sender    *)
(*                                                                         *)
(* Between barriers (openmp_synchronize) the threads enqueue in any order. *)
(* A context of one GPU works as in CiphertextStreams.  CUDA graphs        *)
(* (GRAPH_CAPTURE, off unless asked for) are left out.                     *)
(***************************************************************************)
EXTENDS CiphertextStreams

CONSTANTS GPU,       \* the GPUs; 0 is one of them
          Transports \* the transports a context may be made for

ASSUME GPUAssumption == 0 \in GPU
ASSUME TransportAssumption == Transports \subseteq {"NCCL", "MEMCPY_PEER", "PEER_ACCESS"}

VARIABLES devices,    \* the GPUs of the context
          transport,  \* the one it uses
          todo        \* by GPU: what its thread has still to enqueue, as phases of
                      \* launches with a barrier between each and the next

peerVars == <<devices, transport, todo>>

\* The same partition, or stream, or part of a polynomial, on GPU g
On(s, g) == <<s[1], s[2], g>>
BufferOn(b, g) == [b EXCEPT ![1] = On(b[1], g)]

Others(s) == GPU \ {s[3]}
Everywhere(s) == {On(s, h) : h \in Others(s)}

\* digitStreamForMemcpyPeer: the stream of GPU i for copies to GPU j
peerStream(d, i, j) == <<"digitStreamForMemcpyPeer", <<d, j>>, i>>
PeerStreams == {peerStream(d, i, j) : d \in Digit, i \in GPU, j \in GPU}
Outgoing(d, s) == {peerStream(d, s[3], h) : h \in Others(s)}
Incoming(d, s) == {peerStream(d, h, s[3]) : h \in Others(s)}

StreamsOfGPUs == {On(s, g) : s \in Partitions, g \in GPU}
                    \cup UNION {SharedStreams(g) : g \in GPU} \cup PeerStreams

\* Where GPU g keeps what it receives of the buffer b of another
Received(b, g) == Append(BufferOn(b, g), b[1][3])
\* what the owner of b receives from the others
Receives(b) == {Received(BufferOn(b, h), b[1][3]) : h \in Others(b[1])}
\* what a kernel reads, of b and its counterparts, once they were exchanged
Gathered(tr, b) == {b} \cup (IF tr = "PEER_ACCESS" THEN {BufferOn(b, h) : h \in Others(b[1])}
                                                   ELSE Receives(b))
-----------------------------------------------------------------------------
(* The programs of the threads: phases of launches, with a barrier between  *)
(* one phase and the next                                                   *)

\* The program that enqueues the launches of prog on GPU g
OnGPU(prog, g) ==
    LET moved(S) == {On(s, g) : s \in S}
        parts(B) == {BufferOn(b, g) : b \in B}
        at(l) == [on |-> On(l.on, g), after |-> moved(l.after), before |-> moved(l.before),
                  reads |-> parts(l.reads), writes |-> parts(l.writes)]
    IN  <<[i \in DOMAIN prog |-> at(prog[i])]>>

\* One program after the other: P \o Q with a barrier in between, as each call of
\* RNSPoly is a parallel region of its own, P ++ Q with none.
P ++ Q == Front(P) \o <<Last(P) \o Head(Q)>> \o Tail(Q)

Barrier == <<<<>>, <<>>>>
Nothing == <<<<>>>>
\* The program F(1), ..., F(dnum)
ForDigits(F(_)) == FoldLeft(LAMBDA P, d : P ++ F(d), Nothing, [d \in Digit |-> d])

\* Before the copies of digit d into the buffers of q: their streams come after q.
Announced(tr, q, d) ==
    IF tr = "MEMCPY_PEER"
    THEN <<Awaited(q, {peerStream(d, h, q[3]) : h \in GPU})>> ++ Barrier
    ELSE Nothing

\* After them: q comes after those that read its buffers.
Collected(tr, q, D) ==
    IF tr = "MEMCPY_PEER" THEN <<Waits(q, UNION {Outgoing(d, q) : d \in D})>> ELSE Nothing

\* What every thread has enqueued for its buffer b on its stream s comes to the
\* others; d is the digit whose copy streams are used.
Exchange(tr, s, d, b) ==
    CASE tr = "NCCL" ->
           <<<<KernelAfter(s, {}, {b}, {})>>>> ++ Barrier
             ++ <<<<KernelAfter(s, Everywhere(s), {}, Receives(b))>>>>
      [] tr = "MEMCPY_PEER" ->
           <<SetToSeq({KernelAfter(peerStream(d, s[3], h), {s}, {b}, {Received(b, h)}) :
                         h \in Others(s)})>>
             ++ Barrier ++ <<Waits(s, Incoming(d, s))>>
      [] tr = "PEER_ACCESS" -> Barrier ++ <<Waits(s, Everywhere(s))>>

\* A barrier with some transports only
BarrierIf(c) == IF c THEN Barrier ELSE Nothing

\* q comes after the streams S, by which the other GPUs read its buffers.
Rejoined(tr, q, S) ==
    IF tr = "PEER_ACCESS" THEN Barrier ++ <<Waits(q, S)>> ELSE Nothing
-----------------------------------------------------------------------------
(* LimbPartition, on the GPU of q                                           *)

\* Faulty: the limbs of aux are free for the next user at once.
moddownUnreleased(q, aux, tr) ==
    LET s == digitStream2(q, 1)
        b == Special(aux)
    IN  <<<<KernelAfter(s, {q, aux}, {}, {Special(q), b})>>>>
          ++ Announced(tr, q, 1) ++ Exchange(tr, s, 1, b)
          ++ <<<<KernelAfter(s, {}, Gathered(tr, b), {Limb(aux)}),
                 KernelBefore(s, {q}, {Limb(aux)}, {Limb(q)} \cup Aux(q))>>>>
          ++ Collected(tr, q, {1}) ++ Rejoined(tr, q, Everywhere(s))

\* INTT of this GPU's special limbs, exchange, conversion into the limbs of aux,
\* NTT and subtraction
moddownMGPU(q, aux, tr) ==
    LET s == digitStream2(q, 1)
        b == Special(aux)
    IN  <<<<KernelAfter(s, {q, aux}, {}, {Special(q), b})>>>>
          ++ Announced(tr, q, 1) ++ Exchange(tr, s, 1, b)
          ++ <<<<KernelAfter(s, {}, Gathered(tr, b), {Limb(aux)}),
                 KernelBefore(s, {aux, q}, {Limb(aux)}, {Limb(q)} \cup Aux(q))>>>>
          ++ Collected(tr, q, {1}) ++ Rejoined(tr, q, Everywhere(s))

\* Digit d of q: INTT, exchange, conversion, NTT through the digit of aux
modupDigitMGPU(q, aux, tr, d) ==
    LET s == digitStream(q, d)
        b == Gather(q, d)
    IN  <<<<KernelAfter(s, {q}, {Limb(q)}, {AuxOf(q, d), b})>>>>
          ++ Announced(tr, q, d) ++ Exchange(tr, s, d, b) ++ BarrierIf(tr = "PEER_ACCESS")
          ++ <<<<KernelBefore(s, {digitStream2(q, d)}, Gathered(tr, b), Converted(q, d)),
                 KernelAfter(s, {}, {}, Converted(q, d) \cup Converted(aux, d))>>>>

modupMGPU(q, aux, tr) ==
    LET digit(d) == modupDigitMGPU(q, aux, tr, d)
    IN  <<Waits(q, {aux})>> ++ Barrier ++ ForDigits(digit)
          ++ <<Waits(q, digitStreams(q)) \o Awaited(q, {aux})>>
          ++ Collected(tr, q, Digit) ++ Barrier
          ++ Rejoined(tr, q, Everywhere(q)) ++ <<Awaited(q, {aux})>>

\* The same digit in a key switch, whose copies wait for the sender only
keySwitchDigitMGPU(q, p, tr, d) ==
    LET s == digitStream(q, d)
        b == Gather(q, d)
    IN  <<<<KernelAfter(s, {q}, {Limb(q)}, {AuxOf(q, d), b})>>>>
          ++ BarrierIf(tr = "MEMCPY_PEER")
          ++ Exchange(tr, s, d, b) ++ BarrierIf(tr = "PEER_ACCESS")
          ++ <<<<KernelBefore(s, {digitStream2(q, d)}, Gathered(tr, b), Converted(q, d)),
                 KernelAfter(s, {}, {}, {DigitSpecial(q, d), DigitSpecial(p, d)})>>>>

\* Mod-down of out, with the copy streams of digit d; over PEER_ACCESS after S
keySwitchModdownMGPU(out, aux, tr, d, S) ==
    LET b == Special(aux)
    IN  <<<<KernelAfter(out, {}, {}, {Special(out), b})>>>>
          ++ Exchange(tr, out, d, b) ++ BarrierIf(tr = "PEER_ACCESS")
          ++ <<<<KernelAfter(out, IF tr = "PEER_ACCESS" THEN S ELSE {}, Gathered(tr, b),
                             {Limb(aux)})>>>>

modup_ksk_moddown_mgpu(q, p, aux1, aux2, ka, kb, down, tr) ==
    LET digit(d) == keySwitchDigitMGPU(q, p, tr, d)
        limbs(d) == keySwitchDigitLimbs(q, p, d)
        second   == IF dnum > 1 THEN 2 ELSE 1
    IN  <<Waits(q, {aux1, aux2, p, ka, kb})>> ++ Barrier ++ ForDigits(digit)
          ++ <<keySwitchSpecial(q, p, ka, kb) \o Awaited(q, {p})>>
          ++ (IF down THEN keySwitchModdownMGPU(q, aux1, tr, 1, {})
                             ++ keySwitchModdownMGPU(p, aux2, tr, second, {q})
                      ELSE Nothing)
          ++ <<EachDigit(limbs) \o keySwitchLimbs(q, p, ka, kb)
                 \o keySwitchEnd(q, p, aux1, aux2, down)>>
          ++ Barrier ++ <<Awaited(q, {p, aux1, aux2, ka, kb})>>

\* What GPU `top' has in the buffers of the streams T comes to the others.
BroadcastTop(tr, T, g, top) ==
    LET source(t) == IF tr = "MEMCPY_PEER" THEN {top_limb(On(t, top))} ELSE {}
        sends     == {KernelAfter(t, {}, {top_limb(t)}, {}) : t \in T}
        receives  == {KernelAfter(t, {On(t, top)}, source(t), {top_limb(t)}) : t \in T}
    IN  CASE g # top -> Barrier ++ <<SetToSeq(receives)>>
          [] g = top /\ tr # "MEMCPY_PEER" -> <<SetToSeq(sends)>> ++ Barrier
          [] g = top /\ tr = "MEMCPY_PEER" -> Barrier

\* One polynomial, whose top limb is on GPU `top'; a compressed constant goes
\* through the limbs of aux.
rescaleMGPU(q, aux, top, compressed, tr) ==
    LET t       == top_limb_stream(q)
        scratch == IF compressed THEN {Limb(aux)} ELSE Aux(q)
    IN  (IF q[3] = top THEN <<<<dropTop(q, t)>>>> ELSE Nothing)
          ++ BroadcastTop(tr, {t}, q[3], top)
          ++ <<<<KernelAfter(t, {q, aux}, {top_limb(t)}, scratch),
                 KernelAfter(q, {t}, scratch, {Limb(q)})>>
               \o (IF compressed THEN Awaited(q, {aux}) ELSE <<>>)>>
          ++ Barrier
          ++ (IF tr = "MEMCPY_PEER" /\ q[3] = top THEN <<Waits(t, Everywhere(t))>> ELSE Nothing)

\* Both polynomials of a ciphertext
doubleRescaleMGPU(q, p, top, tr) ==
    LET t == top_limb_stream(q)
        u == top_limb_stream2(p)
        atTop == q[3] = top
        dropped(r, v)  == IF atTop THEN <<dropTop(r, v)>> \o Waits(r, {v}) ELSE Waits(v, {r})
        released(v)    == IF tr = "MEMCPY_PEER" /\ ~atTop THEN Awaited(v, {On(v, top)}) ELSE <<>>
        expanded(r, v) == IF atTop THEN <<expandTop(r, v), divide(r)>>
                          ELSE <<KernelBefore(v, {r}, {top_limb(v)}, Aux(r)), divide(r)>>
    IN  <<dropped(q, t) \o dropped(p, u)>>
          ++ BroadcastTop(tr, {t, u}, q[3], top)
          ++ <<released(t) \o released(u) \o expanded(q, t) \o expanded(p, u)>>

\* Limb 0, which GPU 0 has, to all limbs: over NCCL, whatever the transport
broadcastLimb0_mgpu(q) ==
    LET t == top_limb_stream(q)
    IN  <<Waits(t, {q})>>
          ++ (IF q[3] = 0 THEN <<<<KernelAfter(t, {}, {Limb(q)}, {top_limb(t)})>>>> ELSE Nothing)
          ++ BroadcastTop("NCCL", {t}, q[3], 0)
          ++ <<<<KernelBefore(t, {q}, {top_limb(t)}, {Limb(q)})>>>>
-----------------------------------------------------------------------------
(* Ciphertext, on GPU g                                                     *)

modupAll(g, tr) == modupMGPU(On(KeySwitchAux, g), On(KeySwitchAux2, g), tr)
moddownOn(q, i, g, tr) == moddownMGPU(On(q, g), On(ModdownAux(i), g), tr)
modDownOn(x, g, tr) == moddownOn(c0(x), 0, g, tr) \o moddownOn(c1(x), 1, g, tr)

keySwitchOn(k, down, g, tr) ==
    modup_ksk_moddown_mgpu(On(KeySwitchAux, g), On(KeySwitchAux2, g), On(ModdownAux(0), g),
                           On(ModdownAux(1), g), On(c0(k), g), On(c1(k), g), down, tr)

multOn(x, y, down, g, tr) ==
    (IF down THEN <<>>
             ELSE OnGPU(generateSpecialLimb(c0(x)), g) \o OnGPU(generateSpecialLimb(c1(x)), g))
        \o OnGPU(binomialMult(c0(x), c1(x), KeySwitchAux, {c0(y), c1(y)}), g)
        \o keySwitchOn(EvalKey, down, g, tr)
        \o OnGPU(add(c0(x), KeySwitchAux2, ~down), g) \o OnGPU(add(c1(x), KeySwitchAux, ~down), g)

\* into z, of the source c0, c1, by a hoisted rotation whose digits are KeySwitchAux's
hoistedOn(z, src_c0, src_c1, up0, g) ==
    OnGPU(hoistedRotationFused(KeySwitchAux, Polys({z}), {RotationKey}, src_c0, src_c1, up0), g)

rotateOn(x, down, g, tr) ==
    OnGPU(copyPoly(KeySwitchAux, c1(x), FALSE), g) \o modupAll(g, tr)
        \o OnGPU(copyPoly(KeySwitchAux2, c0(x), FALSE), g)
        \o hoistedOn(x, KeySwitchAux2, KeySwitchAux, FALSE, g)
        \o (IF down THEN modDownOn(x, g, tr) ELSE <<>>)

accumulateRoundOn(x, up0, g, tr) ==
    OnGPU(copyPoly(KeySwitchAux, c1(x), FALSE), g) \o modupAll(g, tr)
        \o hoistedOn("result1", c0(x), c1(x), up0, g)
        \o OnGPU(addCt(x, "result1", TRUE), g) \o moddownOn(c1(x), 0, g, tr)

AccumulateOn(x, g, tr) ==
    accumulateRoundOn(x, FALSE, g, tr) \o accumulateRoundOn(x, TRUE, g, tr)
        \o moddownOn(c0(x), 0, g, tr) \o OnGPU(destroyed("result1"), g)

raiseOn(q, g) ==
    OnGPU(INTT(q), g) \o broadcastLimb0_mgpu(On(q, g)) \o OnGPU(NTT(q), g)
-----------------------------------------------------------------------------
(* The host                                                                 *)

allVars == <<vars, peerVars>>

PeerInit ==
    /\ Init
    /\ devices \in {{0}, GPU}
    /\ transport \in Transports
    /\ todo = [g \in GPU |-> <<>>]

Idle == \A g \in GPU : todo[g] = <<>>

\* An operation on U, by the programs of the threads
Start(progs, U, R, up) ==
    /\ Idle
    /\ devices = GPU
    /\ U \subseteq resident
    /\ pending < MaxPending
    /\ todo' = progs
    /\ resident' = resident \cup R
    /\ raised' = up
    /\ pending' = pending + 1
    /\ UNCHANGED <<later, raced, devices, transport>>

\* One that no other GPU takes part in
StartLocal(prog, U, R, up) == Start([g \in GPU |-> OnGPU(prog, g)], U, R, up)

\* The objects of the user come to the GPUs.
PeerLoad ==
    LET prog == FlattenSeq(SetToSeq({loaded(x) : x \in Ciphertext}
                                      \cup {loadLimbs(c0(p), FALSE) : p \in Plaintext}))
    IN  Flat(Ciphertext) /\ StartLocal(prog, {}, Ciphertext \cup Plaintext, raised)

PeerAdd(x, y) ==
    StartLocal(addCt(x, y, IsUp(y)), {x, y}, {}, IF IsUp(y) THEN raised \cup {x} ELSE raised)

PeerMult(x, y, down) ==
    /\ Flat({x, y})
    /\ Start([g \in GPU |-> multOn(x, y, down, g, transport)], {x, y}, {},
             IF down THEN raised ELSE raised \cup {x})

PeerRotate(x, down) ==
    /\ Flat({x})
    /\ Start([g \in GPU |-> rotateOn(x, down, g, transport)], {x}, {},
             IF down THEN raised ELSE raised \cup {x})

PeerModDown(x) ==
    /\ IsUp(x)
    /\ Start([g \in GPU |-> modDownOn(x, g, transport)], {x}, {}, raised \ {x})

PeerAccumulate(x) ==
    Flat({x}) /\ Start([g \in GPU |-> AccumulateOn(x, g, transport)], {x}, {}, raised)

PeerRescale(x, top) ==
    /\ Flat({x})
    /\ Start([g \in GPU |-> doubleRescaleMGPU(On(c0(x), g), On(c1(x), g), top, transport)],
             {x}, {}, raised)

PeerRescalePt(p, top, compressed) ==
    Start([g \in GPU |-> rescaleMGPU(On(c0(p), g), On(ModdownAux(0), g), top, compressed,
                                     transport)],
          {p}, {}, raised)

PeerModRaise(x) ==
    /\ Flat({x})
    /\ Start([g \in GPU |-> raiseOn(c0(x), g) \o raiseOn(c1(x), g)], {x}, {}, raised)

PeerOperation ==
    \/ PeerLoad
    \/ \E x \in Ciphertext :
         \/ PeerModDown(x) \/ PeerAccumulate(x) \/ PeerModRaise(x)
         \/ \E b \in BOOLEAN : PeerRotate(x, b)
         \/ \E top \in GPU : PeerRescale(x, top)
         \/ \E y \in Ciphertext : PeerAdd(x, y) \/ \E b \in BOOLEAN : PeerMult(x, y, b)
    \/ \E p \in Plaintext, top \in GPU, b \in BOOLEAN : PeerRescalePt(p, top, b)

\* A wait that one GPU enqueues for another
Foreign(l) == \E t \in l.after \cup l.before : t[3] # l.on[3]

AboutToWait(g) == todo[g] # <<>> /\ Head(todo[g]) # <<>> /\ Foreign(Head(Head(todo[g])))

\* The thread of GPU g enqueues a launch that waits for another GPU, or those up
\* to the next such one.  It is the waits that tell the orders apart in which the
\* threads enqueue, and the earlier a wait is enqueued the less it covers.  So the
\* threads that are about to wait come first: whatever another order leaves
\* unordered on the device, this one does too.
Enqueue(g) ==
    /\ todo[g] # <<>> /\ Head(todo[g]) # <<>>
    /\ (\E h \in GPU : AboutToWait(h)) => AboutToWait(g)
    /\ LET phase   == Head(todo[g])
           foreign == {i \in DOMAIN phase : Foreign(phase[i])}
           n       == CASE AboutToWait(g) -> 1
                        [] foreign = {}   -> Len(phase)
                        [] OTHER          -> Min(foreign) - 1
       IN  /\ Issue(later, SubSeq(phase, 1, n))
           /\ todo' = [todo EXCEPT ![g] = <<SubSeq(phase, n + 1, Len(phase))>> \o Tail(@)]
    /\ UNCHANGED <<raised, resident, pending, devices, transport>>

\* All threads have come to the barrier, or to the end of the operation.
Meet ==
    /\ \A g \in GPU : todo[g] # <<>> /\ Head(todo[g]) = <<>>
    /\ todo' = [g \in GPU |-> Tail(todo[g])]
    /\ UNCHANGED <<vars, devices, transport>>

\* The device is drained between operations.
PeerDrain ==
    /\ Idle /\ devices = GPU
    /\ (\E x \in Ciphertext : Store(x)) /\ UNCHANGED peerVars

PeerNext ==
    \/ devices = {0} /\ Next /\ UNCHANGED peerVars
    \/ PeerOperation
    \/ \E g \in GPU : Enqueue(g)
    \/ Meet
    \/ PeerDrain

PeerSpec == PeerInit /\ [][PeerNext]_allVars
-----------------------------------------------------------------------------
\* Between operations, the stream of every polynomial comes after all that the
\* GPUs still do to its part, copies and reads by other GPUs included.  Keys and
\* the plaintexts of bootstrapping are exempt: their readers do not report to
\* them, and the drain in OffloadKey and FreeBootBlock stands in for it.
PartsCovered ==
    Idle => OwnersCover(later, {On(s, g) : s \in Partitions \ (KeyPolys \cup ToSet(bootPt)),
                                           g \in GPU})
=============================================================================
