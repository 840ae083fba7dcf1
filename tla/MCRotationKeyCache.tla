------------------------- MODULE MCRotationKeyCache -------------------------
(* One key set with enough keys for a hoisted rotation to overshoot a budget *)
(* of two and for the next load to evict several; the other key set holds no *)
(* rotation key (one that only has an evaluation key).                       *)
EXTENDS RotationKeyCache
CONSTANTS a1, a2, a3, setA, setB

MCRotKey  == {a1, a2, a3}
MCKeyHash == {setA, setB}
MCKeyIdOf == [k \in MCRotKey |-> setA]
=============================================================================
