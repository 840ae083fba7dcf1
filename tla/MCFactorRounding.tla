-------------------------- MODULE MCFactorRounding --------------------------
(* Significands three bits longer than the primes, as those of doubles are   *)
(* than primes of 50 bits.  The primes are 1 modulo 16, and chosen as OpenFHE *)
(* does, alternately below and above the factor of their level.              *)
EXTENDS FactorRounding

MCL == 3
MCPrime == [l \in 0..MCL |-> CASE l = 0 -> 577 [] l = 1 -> 353 [] l = 2 -> 433 [] l = 3 -> 401]
=============================================================================
