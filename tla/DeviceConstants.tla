-------------------------- MODULE DeviceConstants --------------------------
(***************************************************************************)
(* The tables that SetupConstants computes for a set of parameters         *)
(* (ConstantsGPU.cu, Math.cu): primes, roots of unity and their powers in  *)
(* normal and bit-reversed order, and the factors by which a polynomial is *)
(* taken from one basis of primes to another.                              *)
(*                                                                         *)
(* Prime numbers are numbered from 0: those of the ciphertexts, then the   *)
(* special ones.  The tables of Shoup quotients are left out: a constant   *)
(* has one wherever it is used.                                            *)
(***************************************************************************)
EXTENDS Residues, Powers, Sequences, FiniteSets, TLC

CONSTANTS logN,      \* polynomials have 2^logN coefficients
          WordBits   \* W = 2^WordBits

ASSUME WordBitsAssumption == logN \in Nat /\ WordBits \in Nat /\ W = TwoTo(WordBits)

N == TwoTo(logN)

\* f, and g where f has no value
Joined(f, g) == [x \in DOMAIN f \cup DOMAIN g |-> IF x \in DOMAIN f THEN f[x] ELSE g[x]]

\* w[0] + ... + w[n - 1]
SumTo(n, w) == LET s[k \in 0..n] == IF k = 0 THEN 0 ELSE s[k - 1] + w[k - 1] IN s[n]

modpow(a, e, p) ==
    LET r[k \in 0..e] == IF k = 0 THEN 1
                         ELSE LET h == r[k \div 2] IN (((h * h) % p) * (IF k % 2 = 1 THEN a ELSE 1)) % p
    IN  r[e]

modinv(a, p) == modpow(a % p, p - 2, p)

bit_reverse(a, w) == SumTo(w, [j \in 0..w - 1 |-> ((a \div TwoTo(j)) % 2) * TwoTo(w - 1 - j)])

bit_width(p) == CHOOSE b \in 1..WordBits : TwoTo(b - 1) <= p /\ p < TwoTo(b)

\* The least primitive root
generator(p) ==
    LET factors == {f \in 2..p - 1 : (p - 1) % f = 0 /\ \A g \in 2..f - 1 : f % g # 0}
        primitive == {r \in 2..p : \A f \in factors : modpow(r, (p - 1) \div f, p) # 1}
    IN  CHOOSE r \in primitive : \A o \in primitive : r <= o

unity_root(q, order) == modpow(generator(q), q \div order, q)
-----------------------------------------------------------------------------
(* The primes of a set of parameters s: L of the ciphertexts, in dnum       *)
(* contiguous digits, and K special ones.                                   *)

Basis(s) ==
    LET L == Len(s.q)
        digit == [i \in 0..L - 1 |-> (i * s.dnum) \div L]
        whole == [d \in 0..s.dnum - 1 |-> Cardinality({i \in 0..L - 1 : digit[i] = d})]
    IN  [L |-> L, K |-> Len(s.p), dnum |-> s.dnum, digit |-> digit, whole |-> whole,
         first |-> [d \in 0..s.dnum - 1 |-> SumTo(d, whole)],
         prime |-> [i \in 0..L + Len(s.p) - 1 |-> (s.q \o s.p)[i + 1]]]

Special(B) == B.L..B.L + B.K - 1

\* The primes that a digit is taken from and to at level l, the number of the last
\* prime in use (primeid_digit_from, primeid_digit_to)
DigitFrom(B, d, l) == {i \in 0..l : B.digit[i] = d}
DigitTo(B, d, l) == {i \in 0..l : B.digit[i] # d} \cup Special(B)

\* The product modulo prime m of the first n primes from number `first`, but for number i
HatModulo(B, first, n, i, m) ==
    LET r[k \in 0..n] == IF k = 0 THEN 1
                         ELSE (r[k - 1] * (IF first + k - 1 = i THEN 1 ELSE B.prime[first + k - 1])) % m
    IN  r[n]

(* Tables of OpenFHE, with its numbering                                    *)

\* 1 over the product of the first k + 1 primes of digit d but the j-th, modulo that one
PartQlHatInvModq(B, d, k, j) ==
    LET i == B.first[d] + j
    IN  modinv(HatModulo(B, B.first[d], k + 1, i, B.prime[i]), B.prime[i])

\* How many primes of digit d are in use at level l
InUse(B, d, l) == Cardinality(DigitFrom(B, d, l))

\* The other primes at level l, those of the ciphertext first
OthersAt(B, d, l) == l + 1 - InUse(B, d, l) + B.K
Other(B, d, l, pos) ==
    IF pos >= OthersAt(B, d, l) - B.K THEN B.L + B.K + pos - OthersAt(B, d, l)
    ELSE IF pos < B.first[d] THEN pos ELSE pos + InUse(B, d, l)

\* The product of the primes in use of digit d but the j-th, modulo the other prime at pos
PartQlHatModp(B, l, d, j, pos) ==
    HatModulo(B, B.first[d], InUse(B, d, l), B.first[d] + j, B.prime[Other(B, d, l, pos)])

\* The same for the special primes
PHatInvModp(B, k) ==
    modinv(HatModulo(B, B.L, B.K, B.L + k, B.prime[B.L + k]), B.prime[B.L + k])
PHatModq(B, k, i) == HatModulo(B, B.L, B.K, B.L + k, B.prime[i])
PInvModq(B, i) == modinv(HatModulo(B, B.L, B.K, B.L + B.K, B.prime[i]), B.prime[i])
-----------------------------------------------------------------------------
\* Faulty: the first prime of the digit counts as one before the digit.
predicted_primeid_late(B, d, size, pos) ==
    IF pos >= size - B.K THEN B.L + B.K + pos - size
    ELSE pos + IF B.first[d] < pos THEN B.whole[d] ELSE 0

\* The number of the prime that an entry of PartQlHatModp is for
predicted_primeid(B, d, size, pos) ==
    IF pos >= size - B.K THEN B.L + B.K + pos - size
    ELSE pos + IF B.first[d] <= pos THEN B.whole[d] ELSE 0

\* What the matrix has for a level: entries that are not written are zero.
DecompAndModUp_matrix(B, l) ==
    [i \in 0..l |->
        LET d == B.digit[i]
            size == OthersAt(B, d, l)
        IN  [m \in DOMAIN B.prime |->
                LET P == {pos \in 0..size - 1 : predicted_primeid(B, d, size, pos) = m}
                IN  IF P = {} THEN 0
                    ELSE PartQlHatModp(B, l, d, i - B.first[d], CHOOSE pos \in P : TRUE)]]

\* By digit, primes in use less one, and prime
DecompAndModUp_pre_scale(B, d) ==
    [k \in 0..B.whole[d] - 1 |->
        [i \in B.first[d]..B.first[d] + k |-> PartQlHatInvModq(B, d, k, i - B.first[d])]]

\* Powers of a 2N-th root of unity modulo p, in normal and in bit-reversed order; those
\* of its inverse in normal order are divided by N.
Roots(p) ==
    LET root == unity_root(p, 2 * N)
        Powers(r) == [j \in 0..2 * N - 1 |-> modpow(r, j, p)]
        up == Powers(root)
        down == Powers(modinv(root, p))
    IN  [psi_no |-> up,
         psi |-> [j \in 0..N - 1 |-> up[bit_reverse(j, logN)]],
         inv_psi |-> [j \in 0..N - 1 |-> down[bit_reverse(j, logN)]],
         inv_psi_no |-> [j \in 0..2 * N - 1 |-> (down[j] * modinv(N, p)) % p]]

SetupConstants(s) ==
    LET B == Basis(s)
        S == [i \in DOMAIN B.prime |-> TwoTo(bit_width(B.prime[i]) - 2)]
    IN  Joined(B, [S |-> S,
                   T |-> [i \in DOMAIN S |-> TwoTo(WordBits - 4) \div S[i]],
                   prime_better_barret_mu |-> [i \in DOMAIN S |-> mu_new(B.prime[i], S[i])],
                   roots |-> [i \in DOMAIN S |-> Roots(B.prime[i])],
                   q_inv |-> [i \in DOMAIN S |-> [j \in DOMAIN S |-> modinv(B.prime[i], B.prime[j])]],
                   P_inv |-> [i \in 0..B.L - 1 |-> PInvModq(B, i)],
                   ModDown_pre_scale |-> [k \in 0..B.K - 1 |-> PHatInvModp(B, k)],
                   ModDown_matrix |-> [k \in 0..B.K - 1 |-> [i \in 0..B.L - 1 |-> PHatModq(B, k, i)]],
                   pre_scale |-> [d \in 0..B.dnum - 1 |-> DecompAndModUp_pre_scale(B, d)],
                   matrix |-> [l \in 0..B.L - 1 |-> DecompAndModUp_matrix(B, l)]])
=============================================================================
