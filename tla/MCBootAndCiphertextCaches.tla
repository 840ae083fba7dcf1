---------------------- MODULE MCBootAndCiphertextCaches ----------------------
(* Bootstraps of two slot counts: one with a three-stage transform, whose    *)
(* groups differ in size, and one with a linear transform (LT.A, LT.invA).   *)
(*                                                                           *)
(* Two ciphertext handles: two operands, or an operand and a result.  A      *)
(* budget of 1 holds one ciphertext without special limbs.                   *)
(*                                                                           *)
(* The two caches share no state, and each moves while the other is as it    *)
(* started.                                                                  *)
EXTENDS BootstrapCache, CiphertextCache, TLC
CONSTANTS cts, mid, stc, ltA, ltInvA, full, sparse, a, b, v1, v2

MCSlots     == {full, sparse}
MCBootBlock == {cts, mid, stc, ltA, ltInvA}
MCStages    == [s \in MCSlots |-> IF s = full THEN <<cts, mid, stc>> ELSE <<ltA, ltInvA>>]
MCBytes     == [g \in MCBootBlock |-> IF g = mid THEN 1 ELSE 2]

MCSymmetry == Permutations(Handle) \cup Permutations(Val)

TogetherInit == BootInit /\ Init

TogetherNext ==
    \/ Init /\ budget = SizeMax /\ BootNext /\ UNCHANGED vars
    \/ BootInit /\ bootBudget = Unlimited /\ Next /\ UNCHANGED bootVars

TogetherSpec == TogetherInit /\ [][TogetherNext]_<<bootVars, vars>>
=============================================================================
