---------------------- MODULE MCTransformsPlaintextsPool ----------------------
(* The rotations of MCLinearTransforms; the cache of plaintexts: three of       *)
(* these, one of them twice as large (a higher level), so that a budget of 2    *)
(* holds one, or two, and operations of up to three; and the memory pool, with  *)
(* three streams of users, one of them sharing the queue of the pool's (the     *)
(* library deals 37 queues out in turn), and a slab carved in two, so that it   *)
(* can be half free.                                                            *)
(*                                                                              *)
(* The three share no state: a call that rotates runs to its end, and after one *)
(* of these the plaintexts come and go, or the chunks.                          *)
EXTENDS MCLinearTransforms, PlaintextCache, GpuMemoryPool
CONSTANTS p1, p2, p3, pool, x, y, z, q0, q1, q2, b1, c1, c2, k1, k2

MCBytes == [p \in Pt |-> IF p = p3 THEN 2 ELSE 1]

MCQueueOf == [st \in Stream |-> CASE st = x -> q1 [] st = z -> q2 [] OTHER -> q0]
MCSlices  == [b \in Slab |-> <<c1, c2>>]

OneCall == CHOOSE c \in LinearTransformCalls : TRUE
AfterOneCall == call = OneCall /\ status # "running" /\ UNCHANGED allVars

TogetherInit == RotationsInit /\ Init /\ PoolInit

TogetherNext ==
    \/ RotationsNext /\ UNCHANGED <<vars, chunkVars>>
    \/ AfterOneCall /\ PoolInit /\ Next /\ UNCHANGED chunkVars
    \/ AfterOneCall /\ Init /\ budget = SizeMax /\ PoolNext /\ UNCHANGED vars

TogetherSpec ==
    /\ TogetherInit
    /\ [][TogetherNext]_<<allVars, vars, chunkVars>>
    /\ WF_<<allVars, vars, chunkVars>>(RotationsNext /\ UNCHANGED <<vars, chunkVars>>)
=============================================================================
