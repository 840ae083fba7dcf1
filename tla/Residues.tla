------------------------------ MODULE Residues ------------------------------
(***************************************************************************)
(* Arithmetic modulo a prime in words of the GPU (ModMult.cuh, AddSub.cuh, *)
(* Rescale.cuh, mu_new and shoup_precomp of ConstantsGPU.cu).  Every       *)
(* operation keeps the low word of what it computes, as the hardware does, *)
(* and ends with one conditional subtraction.                              *)
(*                                                                         *)
(* A prime of `bits` bits is described by S = 2^(bits - 2), and a shift by *)
(* 62 - bits is a multiplication by T, where W = 16 * S * T.               *)
(***************************************************************************)
EXTENDS Integers

CONSTANT W  \* how many values a word has (2^64)

ASSUME WordAssumption == W \in Nat \ {0}

Word(x) == x % W

\* The high word of a product (__umul64hi)
umulhi(x, y) == (x * y) \div W

\* The subtraction that ends a reduction
Corrected(c, p) == IF c >= p THEN c - p ELSE c

modadd(a, b, p) == Corrected(Word(a + b), p)

\* A difference below zero wraps around to a large word.
modsub(a, b, p) == LET t == Word(a - b) IN IF t >= p THEN Word(t + p) ELSE t

mu_new(p, S) == (32 * S * S) \div p

\* Barrett reduction of a number of up to twice the bits of p
Neal_reduce(c, mu, p, S, T) ==
    LET rx == Word(c \div S)
        rb == umulhi(Word(rx * T), mu) \div 2
    IN  Corrected(Word(c - Word(rb * p)), p)

Neal_mult(a, b, mu, p, S, T) == Neal_reduce(a * b, mu, p, S, T)

shoup_precomp(b, p) == (b * W) \div p

\* Product with a b that psi was computed for
Shoup_mult(a, b, psi, p) == Corrected(Word(a * b - umulhi(a, psi) * p), p)

\* Faulty: the sum of both halves is left below 2p.
Shoup_reduceLazily(x, one_shoup, r64_shoup, p) ==
    Shoup_mult(x \div W, Word(0 - p * one_shoup), r64_shoup, p) + Shoup_mult(Word(x), 1, one_shoup, p)

\* Reduction of a number of two words, from the quotients for 1 and for W mod p
Shoup_reduce(x, one_shoup, r64_shoup, p) ==
    LET r64 == Word(0 - p * one_shoup)
        t == Shoup_mult(x \div W, r64, r64_shoup, p)
        u == Shoup_mult(Word(x), 1, one_shoup, p)
    IN  Corrected(t + u, p)

\* From modulus om to modulus nm, numbers above half of om standing for negative ones
SwitchModulus(a, om, nm, one_shoup) ==
    LET diff == IF nm > om THEN nm - om ELSE nm - Shoup_mult(om, 1, one_shoup, nm)
        v == IF a > om \div 2 THEN a + diff ELSE a
    IN  IF nm <= om /\ v >= nm THEN Shoup_mult(v, 1, one_shoup, nm) ELSE v
=============================================================================
