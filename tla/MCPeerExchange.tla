-------------------------- MODULE MCPeerExchange --------------------------
(* One GPU, or two.  Two ciphertexts, so that every operation has its operand *)
(* and its result apart or in one; dnum = 2, so that a digit is not all of a  *)
(* polynomial.                                                                *)
EXTENDS PeerExchange, TLC

MCStream == StreamsOfGPUs
Symmetry == Permutations(Ciphertext)
=============================================================================
