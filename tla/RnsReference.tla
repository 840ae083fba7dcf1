---------------------------- MODULE RnsReference ----------------------------
(***************************************************************************)
(* What the kernels compute, by definition: the values of a polynomial at  *)
(* the odd powers of a root of unity, numbers with given residues, and     *)
(* encryption under a secret, without randomness: operands and keys are    *)
(* made by formula.                                                        *)
(***************************************************************************)
EXTENDS DeviceConstants, FiniteSetsExt, Functions

\* The sum of w[i] for i in S
SumOver(w, S) == FoldSet(LAMBDA i, sum : w[i] + sum, 0, S)

\* Value k of a limb is the one at root ^ Exponent[k].
Exponent == [k \in 0..N - 1 |-> 2 * bit_reverse(k, logN) + 1]

\* Values modulo prime i of the polynomial with coefficients x, and back
Values(C, i, x) ==
    [k \in 0..N - 1 |->
        SumTo(N, [n \in 0..N - 1 |-> x[n] * C.roots[i].psi_no[(n * Exponent[k]) % (2 * N)]])
            % C.prime[i]]

Coefficients(C, i, y) ==
    LET At(n, k) == C.roots[i].psi_no[(2 * N * N - n * Exponent[k]) % (2 * N)]
        Times(n) == SumTo(N, [k \in 0..N - 1 |-> y[k] * At(n, k)])
    IN  [n \in 0..N - 1 |-> (modinv(N, C.prime[i]) * (Times(n) % C.prime[i])) % C.prime[i]]

\* The product of some primes, and the number below it with residues r modulo them
Modulus(C, primes) == FoldSet(LAMBDA i, q : C.prime[i] * q, 1, primes)

Combined(C, primes, r) ==
    LET Hat(i) == Modulus(C, primes \ {i})
        Part(i) == ((r[i] * modinv(Hat(i), C.prime[i])) % C.prime[i]) * Hat(i)
    IN  FoldSet(LAMBDA i, sum : sum + Part(i), 0, primes) % Modulus(C, primes)

\* The distance of v from the multiples of q
Distance(v, q) == IF v > q \div 2 THEN q - v ELSE v

Greater(x, y) == IF x >= y THEN x ELSE y

\* The largest coefficient, by absolute value, of the polynomial with limbs x
Largest(C, x) ==
    LET limb == [i \in DOMAIN x |-> Coefficients(C, i, x[i])]
        q == Modulus(C, DOMAIN x)
    IN  FoldFunction(Greater, 0,
            [n \in 0..N - 1 |-> Distance(Combined(C, DOMAIN x, [i \in DOMAIN x |-> limb[i][n]]), q)])
-----------------------------------------------------------------------------
\* A secret with two coefficients, and the error of the key of digit d with one
Secret == [n \in 0..N - 1 |-> CASE n = 1 -> 1 [] n = N \div 2 -> -1 [] OTHER -> 0]
SecretWeight == 2
KeyError(d) == [n \in 0..N - 1 |-> IF n = d + 2 THEN 1 ELSE 0]

\* A limb; the values of seed 0 are the largest there are.
Limb(C, i, seed) ==
    LET p == C.prime[i]
    IN  [k \in 0..N - 1 |-> IF seed = 0 THEN p - 1 ELSE (k * k * (seed + 6) + 31 * (i + seed) + 5 * k) % p]

\* Half of a ciphertext at level l
Limbs(C, l, seed) == [i \in 0..l |-> Limb(C, i, seed)]

\* The relinearisation key: for each digit, P times the square of the secret for the
\* primes of the digit, encrypted
Keys(C, secret) ==
    [d \in 0..C.dnum - 1 |-> [i \in DOMAIN C.prime |->
        LET s == secret[i]
            a == Limb(C, i, 7 * d + 3)
            e == Values(C, i, KeyError(d))
            P == IF i < C.L /\ C.digit[i] = d THEN Modulus(C, Special(C)) % C.prime[i] ELSE 0
        IN  [a |-> a,
             b |-> [k \in 0..N - 1 |->
                        (((P * s[k]) % C.prime[i]) * s[k] + e[k] - a[k] * s[k]) % C.prime[i]]]]]

\* The tables for parameters s, with the values of the secret and the key
WithKeys(s) ==
    LET C == SetupConstants(s)
        secret == [i \in DOMAIN C.prime |-> Values(C, i, Secret)]
    IN  Joined(C, [secret |-> secret, key |-> Keys(C, secret)])

\* What a ciphertext with limbs x0 and x1 decrypts to
Phase(C, x0, x1, i) == [k \in 0..N - 1 |-> (x0[k] + x1[k] * C.secret[i][k]) % C.prime[i]]
=============================================================================
