----------------------------- MODULE RnsKernels -----------------------------
(***************************************************************************)
(* A product of two ciphertexts, relinearised and rescaled, kernel by      *)
(* kernel on one device (Ciphertext::mult, modup_ksk_moddown_mgpu and      *)
(* rescale of LimbPartition), with the constants that the device holds.    *)
(*                                                                         *)
(* A kernel may run as soon as those have run that its stream waits for,   *)
(* so the special limbs and the others are processed in any order.  The    *)
(* two kernels of a transform follow each other on a stream, and so do the *)
(* batches and digits that a kernel is launched for: they are one step.    *)
(* The scratch between both kernels, devices with peer access and the      *)
(* exact variants of the conversions are left out.                         *)
(*                                                                         *)
(* A parameter set of a context is here a record of primes.  C stands for  *)
(* the tables of the device.                                               *)
(***************************************************************************)
EXTENDS ContextRegistry, NegacyclicTransform, RnsReference

CONSTANT Seeds  \* numbers that operands are made from

\* The primes of all parameters have two bits less than a word, and sums of products
\* modulo two of them, one for each prime, fit in two words.
ASSUME PrimesAssumption ==
    /\ Seeds \subseteq Nat
    /\ \A s \in Param :
        LET primes == s.q \o s.p
        IN  /\ s.q \in Seq(Nat) /\ s.p \in Seq(Nat) /\ s.dnum \in 1..Len(s.q)
            /\ \A i \in DOMAIN primes :
                /\ N < primes[i] /\ 4 * primes[i] < W /\ generator(primes[i]) \in Nat
                /\ \A j \in DOMAIN primes : Len(primes) * primes[i] * primes[j] <= W * W

VARIABLES job,   \* the product under way: its context, its level and its operands
          done,  \* the kernels that have run
          mem    \* limbs in device memory, by buffer and number of their prime

jobVars == <<job, done, mem>>

Tables == [p \in Param |-> WithKeys(p)]

Nothing == [b \in {} |-> {}]

KernelInit == RegistryInit /\ job = None /\ done = {} /\ mem = Nothing
-----------------------------------------------------------------------------
Level == job.level
Regular == 0..Level

\* Limbs of prime i, value by value
modmultLimb(C, i, x, y) == [k \in 0..N - 1 |-> modmult(C, i, x[k], y[k])]
modaddLimb(C, i, x, y) == [k \in 0..N - 1 |-> modadd(x[k], y[k], C.prime[i])]

Products(C, x, y) == [i \in Regular |-> modmultLimb(C, i, x[i], y[i])]
Sums(C, x, y) == [i \in Regular |-> modaddLimb(C, i, x[i], y[i])]

NTT(C, i, x) == NTTSecond(C, i, NTTFirst(C, i, x))
INTT(C, i, x) == INTTSecond(C, i, INTTFirst(C, i, x))

AllBack(C, x) == [i \in DOMAIN x |-> INTT(C, i, x[i])]
TopBack(C, x) == [x EXCEPT ![Level] = INTT(C, Level, @)]

\* The limbs of the digits with primes in a set
DigitsForward(C, digit, primes) ==
    [d \in DOMAIN digit |-> [i \in DOMAIN digit[d] |->
        IF i \in primes THEN NTT(C, i, digit[d][i]) ELSE digit[d][i]]]

DigitsInUse(C) == {d \in 0..C.dnum - 1 : DigitFrom(C, d, Level) # {}}

\* From the limbs of a digit, scaled first, to those it does not have
DecompAndModUpConv(C, d, x) ==
    LET from == DigitFrom(C, d, Level)
        scale == C.pre_scale[d][Cardinality(from) - 1]
        scaled == [i \in from |-> [k \in 0..N - 1 |-> Scaled(C, i, x[i][k], scale[i])]]
        Converted(k, j) == SumOver([i \in from |-> scaled[i][k] * C.matrix[Level][i][j]], from)
    IN  [j \in DigitTo(C, d, Level) |-> [k \in 0..N - 1 |-> modreduce(C, j, Converted(k, j))]]

\* From the special limbs to the others
ModDown2(C, x) ==
    LET scaled == [q \in 0..C.K - 1 |-> [k \in 0..N - 1 |->
                      Scaled(C, C.L + q, x[C.L + q][k], C.ModDown_pre_scale[q])]]
        Converted(k, i) == SumTo(C.K, [q \in 0..C.K - 1 |-> scaled[q][k] * C.ModDown_matrix[q][i]])
    IN  [i \in Regular |-> [k \in 0..N - 1 |-> modreduce(C, i, Converted(k, i))]]

\* Half h of the key switch: products with the limbs of the key, over all digits.  The
\* digit that has the prime has its limb in the polynomial x itself.
fusedDotKSK_2_(C, x, digit, key, h, primes) ==
    LET Limb_(d, i) == IF i < C.L /\ C.digit[i] = d THEN x[i] ELSE digit[d][i]
        Dot(k, i) == SumOver([d \in DigitsInUse(C) |-> Limb_(d, i)[k] * key[d][i][h][k]], DigitsInUse(C))
    IN  [i \in primes |-> [k \in 0..N - 1 |-> modreduce(C, i, Dot(k, i))]]

\* (x - y) times the inverse of the special primes
moddown_fusion(C, i, x, y) ==
    [k \in 0..N - 1 |-> Scaled(C, i, modsub(x[k], y[k], C.prime[i]), C.P_inv[i])]
ModDownLimbs(C, x, y) == [i \in Regular |-> moddown_fusion(C, i, x[i], NTT(C, i, y[i]))]

\* (x - y) times the inverse of the last prime, where y is the last limb
rescale_fusion(C, i, x, y) ==
    [k \in 0..N - 1 |-> modmult(C, i, C.q_inv[Level][i], modsub(x[k], y[k], C.prime[i]))]
Switched(C, i, x) ==
    [k \in 0..N - 1 |-> SwitchModulus(x[k], C.prime[Level], C.prime[i], shoup_precomp(1, C.prime[i]))]
RescaledLimbs(C, x) ==
    [i \in 0..Level - 1 |-> rescale_fusion(C, i, x[i], NTT(C, i, Switched(C, i, x[Level])))]
-----------------------------------------------------------------------------
\* Bound: products are started while every API context is loaded and registered, none
\* of them for bootstrapping.
Quiet ==
    /\ keys = {} /\ \A p \in Auxiliary : registered[p] = None
    /\ \A a \in Api : loaded[a] = "plain" /\ handle[a] = registered[param[a]]

\* The operands are of a's context; the job has the seed they are made from.
StartProduct(a) ==
    /\ job = None /\ Quiet
    /\ Operate(a)
    /\ \E l \in 0..Len(param[a].q) - 1, seed \in Seeds : \E C \in {Tables[param[a]]} :
          /\ job' = [owner |-> a, level |-> l, seed |-> seed]
          /\ mem' = [c0 |-> Limbs(C, l, seed), c1 |-> Limbs(C, l, seed + 1),
                     d0 |-> Limbs(C, l, seed), d1 |-> Limbs(C, l, seed + 2)]
    /\ UNCHANGED done

\* Kernel k runs once those in `after` have, and leaves memory m.
Launch(k, after, m) ==
    /\ k \notin done
    /\ after \subseteq done
    /\ done' = done \cup {k}
    /\ mem' = m
    /\ UNCHANGED <<contextVars, job>>

binomialMult(C) ==
    Launch("binomialMult", {},
           Joined([mem EXCEPT !.c0 = Products(C, @, mem.d0),
                              !.c1 = Sums(C, Products(C, mem.c0, mem.d1), Products(C, @, mem.d0))],
                  [in |-> Products(C, mem.c1, mem.d1)]))

inttDigits(C) ==
    Launch("inttDigits", {"binomialMult"}, Joined(mem, [gather |-> AllBack(C, mem.in)]))

modup(C) ==
    Launch("modup", {"inttDigits"},
           Joined(mem, [digit |-> [d \in DigitsInUse(C) |-> DecompAndModUpConv(C, d, mem.gather)]]))

nttSpecial(C) ==
    Launch("nttSpecial", {"modup"}, [mem EXCEPT !.digit = DigitsForward(C, @, Special(C))])

dotSpecial(C, key) ==
    Launch("dotSpecial", {"nttSpecial"},
           Joined(mem, [special1 |-> fusedDotKSK_2_(C, mem.in, mem.digit, key, "a", Special(C)),
                        special0 |-> fusedDotKSK_2_(C, mem.in, mem.digit, key, "b", Special(C))]))

inttSpecial(C) ==
    Launch("inttSpecial", {"dotSpecial"},
           [mem EXCEPT !.special1 = AllBack(C, @), !.special0 = AllBack(C, @)])

moddown(C) ==
    Launch("moddown", {"inttSpecial"},
           Joined(mem, [down1 |-> ModDown2(C, mem.special1), down0 |-> ModDown2(C, mem.special0)]))

nttRegular(C) ==
    Launch("nttRegular", {"modup"}, [mem EXCEPT !.digit = DigitsForward(C, @, Regular)])

\* The input is overwritten in place.
dotRegular(C, key) ==
    Launch("dotRegular", {"nttRegular"},
           Joined([mem EXCEPT !.in = fusedDotKSK_2_(C, @, mem.digit, key, "a", Regular)],
                  [aux |-> fusedDotKSK_2_(C, mem.in, mem.digit, key, "b", Regular)]))

nttModdown(C) ==
    Launch("nttModdown", {"moddown", "dotRegular"},
           [mem EXCEPT !.in = ModDownLimbs(C, @, mem.down1), !.aux = ModDownLimbs(C, @, mem.down0)])

add(C) ==
    Launch("add", {"nttModdown"},
           [mem EXCEPT !.c0 = Sums(C, @, mem.aux), !.c1 = Sums(C, @, mem.in)])

inttTop(C) ==
    /\ Level > 0
    /\ Launch("inttTop", {"add"}, [mem EXCEPT !.c0 = TopBack(C, @), !.c1 = TopBack(C, @)])

nttRescale(C) ==
    Launch("nttRescale", {"inttTop"},
           [mem EXCEPT !.c0 = RescaledLimbs(C, @), !.c1 = RescaledLimbs(C, @)])

EndProduct ==
    /\ "add" \in done
    /\ "inttTop" \in done => "nttRescale" \in done
    /\ job' = None /\ done' = {} /\ mem' = Nothing
    /\ UNCHANGED contextVars

\* The key is that of the context that the product is of.
ProductNext ==
    \E C \in {Tables[constants]}, own \in {Tables[param[job.owner]]} :
        \/ binomialMult(C) \/ inttDigits(C) \/ modup(C)
        \/ nttSpecial(C) \/ dotSpecial(C, own.key) \/ inttSpecial(C) \/ moddown(C)
        \/ nttRegular(C) \/ dotRegular(C, own.key)
        \/ nttModdown(C) \/ add(C) \/ inttTop(C) \/ nttRescale(C)

\* Contexts come, go and take turns between two products: the constants are uploaded to
\* the legacy stream, which waits for kernels launched before and holds up later ones.
KernelNext ==
    \/ job = None /\ ((RegistryNext /\ UNCHANGED jobVars) \/ \E a \in Api : StartProduct(a))
    \/ job # None /\ (ProductNext \/ EndProduct)

KernelSpec == KernelInit /\ [][KernelNext]_<<contextVars, jobVars>>
-----------------------------------------------------------------------------
\* The tables of the context that the product is of
Own == Tables[param[job.owner]]

\* Every limb is less than its prime, as each kernel relies on for what it reads
\* (ModMult.cuh).
Canonical ==
    job # None => \A C \in {Own} :
        LET Below(limbs) == \A i \in DOMAIN limbs, k \in 0..N - 1 : limbs[i][k] \in 0..C.prime[i] - 1
        IN  /\ \A b \in DOMAIN mem \ {"digit"} : Below(mem[b])
            /\ "digit" \in DOMAIN mem => \A d \in DOMAIN mem.digit : Below(mem.digit[d])

\* A digit is taken to the other primes up to a multiple of its product that is less
\* than the number of its primes, and the same for all of them (DecompAndModUpConv, on
\* the matrix of SetupConstants).
LiftsExact ==
    "modup" \in done /\ {"nttSpecial", "nttRegular"} \cap done = {} =>
        \A C \in {Own} : \A d \in DigitsInUse(C), k \in 0..N - 1 :
            LET from == DigitFrom(C, d, Level)
                v == Combined(C, from, [i \in from |-> mem.gather[i][k]])
            IN  \E alpha \in 0..Cardinality(from) - 1 : \A j \in DigitTo(C, d, Level) :
                    mem.digit[d][j][k] = (v + alpha * Modulus(C, from)) % C.prime[j]

\* What the result decrypts to, times a factor, less the product of what the operands
\* decrypt to, up to prime l
Difference(C, factor, l) ==
    LET A(i) == Phase(C, Limb(C, i, job.seed), Limb(C, i, job.seed + 1), i)
        B(i) == Phase(C, Limb(C, i, job.seed), Limb(C, i, job.seed + 2), i)
        R(i) == Phase(C, mem.c0[i], mem.c1[i], i)
    IN  [i \in 0..l |-> [k \in 0..N - 1 |-> (factor * R(i)[k] - A(i)[k] * B(i)[k]) % C.prime[i]]]

\* Rounding at the end of a key switch, and the errors of the key times the digits
KeySwitchNoise(C) ==
    LET Lift(d) == LET from == DigitFrom(C, d, Level) IN Cardinality(from) * Modulus(C, from)
    IN  C.K * (1 + SecretWeight) + 1
        + SumOver([d \in DigitsInUse(C) |-> Lift(d)], DigitsInUse(C)) \div Modulus(C, Special(C))

\* A product decrypts to the product of what its operands decrypt to, but for the noise
\* of the key switch and then for the rounding of a rescale: the kernels have the
\* constants of its context, whichever one was in use before (Ciphertext::mult, rescale,
\* SetCurrentContext).
ProductRight ==
    "add" \in done => \A C \in {Own} :
        LET top == C.prime[Level]
        IN  /\ "inttTop" \notin done => Largest(C, Difference(C, 1, Level)) <= KeySwitchNoise(C)
            /\ "nttRescale" \in done =>
                   Largest(C, Difference(C, top, Level - 1))
                       <= KeySwitchNoise(C) + (top * (1 + SecretWeight)) \div 2
=============================================================================
