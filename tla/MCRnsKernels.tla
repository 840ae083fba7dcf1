----------------------------- MODULE MCRnsKernels -----------------------------
(* Two API contexts on the same or on different parameters, which may share an *)
(* auxiliary context: one comes, works and goes while the other is in use.      *)
(* Words have 13 bits and polynomials 32 coefficients, which are columns of 8   *)
(* and of 4; both sets of parameters have the same primes, in another order, so *)
(* that the constants of one fit where those of the other are needed.           *)
EXTENDS RnsKernels, TLC

Ascending == [q |-> <<193, 257, 449>>, p |-> <<577, 641>>, dnum |-> 2]
Rotated == [q |-> <<449, 193, 257>>, p |-> <<577, 641>>, dnum |-> 2]
ParameterSets == {Ascending, Rotated}

Auxil(s) == [s EXCEPT !.p = <<641, 577>>]
AuxiliarySets == {Auxil(s) : s \in ParameterSets}

Symmetry == Permutations(Api)
=============================================================================
