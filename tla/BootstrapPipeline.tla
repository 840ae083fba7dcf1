------------------------- MODULE BootstrapPipeline -------------------------
(***************************************************************************)
(* A bootstrap (Bootstrap.cu): the raise of the modulus, the transform to  *)
(* coefficients, the approximate modular reduction of ApproxModEval.cu,    *)
(* the transform back; its decode-first flavour; both in one iteration or  *)
(* two; and the dispatch between them.                                     *)
(*                                                                         *)
(* The ring has degree 4 over the field of P: a message is its values at   *)
(* the four primitive 8th roots of unity, two slots and their conjugates.  *)
(* So a rotation and a conjugation are permutations, a monomial is a       *)
(* product, and the transforms are those of the real ring.  Levels,        *)
(* degrees and factors follow every step as in SeriesEvaluation.           *)
(*                                                                         *)
(* External: what OpenFHE precomputes (the plaintexts of the transforms,   *)
(* their levels and factors; the series of the sine).  Left out: key       *)
(* switches, which change no message; how many slots a ciphertext declares *)
(* between the steps; complex data in the decode-first flavour; prescaled  *)
(* input in two iterations.                                                *)
(***************************************************************************)
EXTENDS SeriesEvaluation

CONSTANTS Zeta,       \* a primitive 8th root of unity
          Plans,      \* set-ups: EvalBootstrapSetup and the context's parameters
          Messages,   \* coefficients of what is bootstrapped
          Overflow,   \* the multiples of q_0 that the raised message picks up
          LogCorFactor, \* correctionFactor - deg
          Post,       \* 2^deg
          Sigma,      \* the square of its last power is 1 / 2 pi
          BootK, ScaleEnc, ScaleDec, \* of the series and of both transforms
          Precision   \* of the first of two iterations

N == 4
NumSlots == N \div 2
Elements == [0..N - 1 -> 0..P - 1]

ASSUME PipelineAssumption ==
    /\ Zeta \in 1..P - 1
    /\ Plans \subseteq [slots : {1, NumSlots}, btsfirstboot : BOOLEAN,
                        sparse_encaps : BOOLEAN, lvlbEnc : Nat \ {0},
                        lvlbDec : Nat \ {0}, its : Nat \ {0},
                        f : Coefficients]
    /\ Messages \subseteq Elements /\ Overflow \in Elements
    /\ {LogCorFactor, Precision} \subseteq Nat
    /\ {Post, Sigma, BootK, ScaleEnc, ScaleDec} \subseteq 1..P - 1
    /\ Len(Points) = N

\* The value at slot r of X^k: the slots come first, then their conjugates.
ZetaPowers == PowersAt(Zeta, 7)
Root(r, k) == ZetaPowers[(<<1, 5, 7, 3>>[r] * k) % 8]

Evaluate(c) == [r \in 1..N |-> SumFunction([k \in 0..N - 1 |-> c[k] * Root(r, k)]) % P]
CorFactor == 2^LogCorFactor % P
-----------------------------------------------------------------------------
(* What the steps do to the value; but for Scaled none moves the level.    *)

Mapped(c, V(_, _)) == [c EXCEPT !.slots = [r \in DOMAIN @ |-> V(@, r) % P]]

Rotated(c)   == Mapped(c, LAMBDA v, r : v[<<2, 1, 4, 3>>[r]])
Conjugate(c) == Mapped(c, LAMBDA v, r : v[<<3, 4, 1, 2>>[r]])
MultMonomial(c, power) == Mapped(c, LAMBDA v, r : v[r] * Root(r, power))
MultIntScalar(c, n)    == Mapped(c, LAMBDA v, r : v[r] * n)

\* Accumulate, over the NumSlots / slots copies of a sparse message.
Accumulate(c, slots) ==
    IF slots = NumSlots THEN c ELSE Mapped(c, LAMBDA v, r : v[r] + Rotated(c).slots[r])

\* External.  Values to coefficients (c_0 + i c_2, c_1 + i c_3) and back, up to
\* their factors; a sparse message takes both slots for its one coefficient.
Half(r) == IF r <= 2 THEN 1 ELSE 3
Even(r) == r % 2 = 0
CoeffsToSlots(v, r, slots) ==
    IF slots = NumSlots
    THEN LET j == IF Even(r) THEN 1 ELSE 0
             h == Half(r)
         IN  Root(h, 8 - j) * v[h] + Root(h + 1, 8 - j) * v[h + 1]
    ELSE IF Even(r) THEN Root(r, 6) * v[r] ELSE v[r]
SlotsToCoeffs(v, r, slots) ==
    IF slots = NumSlots THEN v[Half(r)] + Root(r, 1) * v[Half(r) + 1]
    ELSE IF Even(r) THEN Root(r, 2) * v[r] ELSE v[r]
-----------------------------------------------------------------------------
(* EvalCoeffsToSlots, EvalLinearTransform: one product with plaintexts per *)
(* stage, at the levels the plaintexts were encoded for.                   *)

\* External: the first level of the plaintexts.
EncodeLevel(pl) == L - 1
DecodeLevel(pl) ==
    IF pl.btsfirstboot THEN pl.lvlbDec + 1
    ELSE L - (DepthOf(Degree(pl.f)) + 1 + pl.its) - pl.lvlbEnc

\* LinearTransform, but for what it computes.
Stage(c, level) ==
    LET a == ToDegreeOne(c)
    IN  Product(Require(a, a.level = level), Encoded(level, 1))

\* The value changes in the first stage; the others share the factor.
Stages(c, budget, first) ==
    FoldLeft(LAMBDA d, i : Stage(d, first - i), c, [i \in 1..budget |-> i - 1])

EvalCoeffsToSlots(c, pl) ==
    Mapped(Stages(c, pl.lvlbEnc, EncodeLevel(pl)),
           LAMBDA v, r : ScaleEnc * (CoeffsToSlots(v, r, pl.slots) % P))
EvalSlotsToCoeffs(c, pl) ==
    Mapped(Stages(c, pl.lvlbDec, DecodeLevel(pl)),
           LAMBDA v, r : ScaleDec * (SlotsToCoeffs(v, r, pl.slots) % P))

\* The two halves of a sparse message, put together again.
Folded(c, pl) == IF pl.slots = NumSlots THEN c ELSE Plus(c, Rotated(c))
-----------------------------------------------------------------------------
(* ModRaise.                                                               *)

\* multScalar(x 2^-correction): x takes degree 1 and factor SF(l) to SF(L).
AdjustmentFactor(c) ==
    IF Flexible THEN SF(L) + Q(c.level) - 2 * c.NoiseFactor ELSE 0
ScaledDown(c) ==
    [Scaled(c, Over(1, CorFactor)) EXCEPT !.scale = @ + AdjustmentFactor(c)]

\* sparse_encaps: into the auxiliary context and back, each with its own table.
Encapsulated(c, targetSF) == Stamp(Stamp(c, SF(0)), targetSF)

\* grow, broadcastLimb0: the one residue is read as an integer.
Grown(c) ==
    [c EXCEPT !.level = L,
              !.slots = [r \in DOMAIN @ |-> (@[r] + Evaluate(Overflow)[r]) % P]]

ModRaise(c, pl, prescaled) ==
    LET towers == c.level - c.NoiseLevel + 1
        a      == ToDegreeOne(Require(c, IF prescaled THEN towers = 0 ELSE towers >= 1))
        target == IF Flexible THEN SF(L) ELSE a.NoiseFactor
        low    == Drop(IF prescaled THEN a ELSE RescaleInternal(ScaledDown(a)), 0)
        exact  == IF Flexible THEN Stamp(low, target) ELSE low
    IN  Grown(IF pl.sparse_encaps THEN Encapsulated(exact, target) ELSE exact)
-----------------------------------------------------------------------------
(* The approximate modular reduction.                                      *)

\* Faulty: the shifts of the first iterations for those of the last.
ShiftBackwards(j, r) == PowersAt(Sigma, 2^(r - j + 1))[2^(r - j + 1)]

\* (1 / 2 pi)^(2^(j - r))
Shift(j, r) == PowersAt(Sigma, 2^j)[2^j]

\* applyDoubleAngleIterations.
DoubleAngle(c, r) ==
    FoldLeft(LAMBDA d, j : Rescale(Shifted(Doubled(Squared(d)), -Shift(j, r))),
             c, [j \in 1..r |-> j])

Sine(c, pl) == DoubleAngle(ChebyshevSeries(c, pl.f, <<-1, 1>>), pl.its)

ReadyForSeries(c) == IF Automatic THEN ToDegreeOne(c) ELSE RescaleInternal(c)

\* conjugate, sub, add, multMonomial: twice the real and the imaginary part.
RealPart(c) == ReadyForSeries(Plus(c, Conjugate(c)))
ImaginaryPart(c) ==
    ReadyForSeries(MultMonomial(Less(c, Conjugate(c)), (3 * 2 * N) \div 4))

\* Decode-first takes the data for real.
Parts(c, pl) ==
    IF pl.slots = NumSlots /\ ~pl.btsfirstboot THEN <<RealPart(c), ImaginaryPart(c)>>
    ELSE <<RealPart(c)>>

\* approxModReduction, approxModReductionSparse, after the sines.
Recombined(parts) ==
    MultIntScalar(IF Len(parts) = 1 THEN parts[1]
                  ELSE Plus(parts[1], MultMonomial(parts[2], N \div 2)), Post)
-----------------------------------------------------------------------------
(* The pipelines: the calls they make, in order.  `a' has the operand and  *)
(* its real and imaginary part, what the pipeline was given, the result of *)
(* the first of two iterations, and whether it has returned.               *)

\* DepleteForStCFirst, where it does not throw.
ExpectedLevel(pl) == pl.lvlbDec + 1

DepleteForStCFirst(c, pl) ==
    LET level == ExpectedLevel(pl)
        a == ToDegreeOne(c)
        f == Big(level + 1) - a.NoiseFactor - SF(a.level)
        up == [Scaled(a, 1) EXCEPT !.scale = @ + f]
    IN  IF a.level <= level THEN a
        ELSE IF Flexible
        THEN Stamp(RescaleInternal(Drop(up, level + 1)), SF(level))
        ELSE Drop(a, level)

\* BootstrapSingle, BootstrapStCSingle.
SingleSteps(pl) ==
    LET coefficients == <<"raise", "normalise", "accumulate", "encode",
                          "split", "reduce", "recombine">>
    IN  IF pl.btsfirstboot
        THEN <<"deplete", "decode", "fold">> \o coefficients \o <<"correct">>
        ELSE coefficients \o <<"decode", "fold", "correct">>

\* BootstrapIterativeImpl: bootstrap the error of the first bootstrap and take
\* it off.  One that ends no higher than it began is not worth it.
TwoPower == 2^Precision % P

ModReduceAfterBootstrap(c, pl) ==
    IF pl.btsfirstboot THEN ToDegreeOne(c) ELSE RescaleInternal(c)

Initial(a, pl) ==
    [a EXCEPT !.initial = MultIntScalar(ModReduceAfterBootstrap(a.ct, pl), TwoPower)]

Error(a) ==
    LET up   == MultIntScalar(IF Automatic THEN a.input ELSE ToDegreeOne(a.input), TwoPower)
        down == IF cc.technique = "FIXEDAUTO" THEN Drop(a.initial, a.input.level)
                                              ELSE a.initial
    IN  IF a.initial.level <= a.input.level
        THEN [a EXCEPT !.ct = a.input, !.returned = TRUE]
        ELSE [a EXCEPT !.ct = Less(down, up)]

Final(a, pl) ==
    LET c == Less(a.initial, ModReduceAfterBootstrap(a.ct, pl))
    IN  [MultScalarNoPrecheck(c, 0) EXCEPT
            !.slots = [r \in DOMAIN @ |-> Over(@[r], TwoPower)]]

Steps(pl, iterations) ==
    IF iterations = 1 THEN SingleSteps(pl)
    ELSE SingleSteps(pl) \o <<"initial", "error">> \o SingleSteps(pl) \o <<"final">>

Step(a, step, pl, prescaled) ==
    LET Becomes(c) == [a EXCEPT !.ct = c]
    IN  CASE step = "deplete"    -> Becomes(DepleteForStCFirst(a.ct, pl))
          [] step = "raise"      -> Becomes(ModRaise(a.ct, pl, prescaled))
          [] step = "normalise"  -> Becomes(Scaled(a.ct, Over(1, Post * ((BootK * N) % P))))
          [] step = "accumulate" -> Becomes(Accumulate(a.ct, pl.slots))
          [] step = "encode"     -> Becomes(EvalCoeffsToSlots(ToDegreeOne(a.ct), pl))
          [] step = "split"      -> [a EXCEPT !.parts = Parts(a.ct, pl)]
          [] step = "reduce"     -> [a EXCEPT !.parts = [k \in DOMAIN @ |-> Sine(@[k], pl)]]
          [] step = "recombine"  -> Becomes(Recombined(a.parts))
          [] step = "decode"     -> Becomes(EvalSlotsToCoeffs(ToDegreeOne(a.ct), pl))
          [] step = "fold"       -> Becomes(Folded(a.ct, pl))
          [] step = "correct"    -> Becomes(MultIntScalar(a.ct, CorFactor))
          [] step = "initial"    -> Initial(a, pl)
          [] step = "error"      -> Error(a)
          [] step = "final"      -> Becomes(Final(a, pl))

Bootstrap(c, pl, iterations, prescaled) ==
    FoldLeft(LAMBDA a, step : IF a.returned THEN a ELSE Step(a, step, pl, prescaled),
             [ct |-> c, parts |-> <<>>, input |-> c, initial |-> c, returned |-> FALSE],
             Steps(pl, iterations)).ct
-----------------------------------------------------------------------------
(* The calls.                                                              *)

\* What a caller may encrypt: a sparse message repeats itself; where decoding
\* comes first the data are real and in the slots.
Values(m, pl) ==
    IF pl.btsfirstboot
    THEN [r \in 1..N |-> m[IF Even(r) /\ pl.slots = NumSlots THEN 1 ELSE 0]]
    ELSE Evaluate(IF pl.slots = NumSlots THEN m
                  ELSE [k \in 0..N - 1 |-> IF k % NumSlots = 0 THEN m[k] ELSE 0])

\* A decode-first input that is too low is refused.
Depletable(c, pl) == pl.btsfirstboot => Depth(c) + 1 >= ExpectedLevel(pl)

\* The caller's part of a prescaled bootstrap: GetPreScaleFactor.
Prescaled(c) == ScaledDown(c)

Bootstrappable(c, pl, iterations, prescaled) ==
    IF prescaled
    THEN /\ iterations = 1 /\ ~pl.btsfirstboot
         /\ c.level = 1 /\ c.NoiseLevel = 1
    ELSE Depth(c) >= 0 /\ Depletable(c, pl)

\* EvalBootstrap, EvalBootstrapInPlace, EvalBootstrapStCFirst: which flavour
\* runs is up to the set-up.
EvalBootstrap(i, pl, iterations, prescaled, m) ==
    /\ Alone(i)
    /\ Bootstrappable(cts[i], pl, iterations, prescaled)
    /\ LET x == Holding(cts[i], Values(m, pl))
       IN  series' = [kind |-> "bootstrap", plan |-> pl, iterations |-> iterations, x |-> x,
                      y |-> Bootstrap(IF prescaled THEN Prescaled(x) ELSE x,
                                      pl, iterations, prescaled)]
    /\ cts' = [cts EXCEPT ![i] = Bare(series'.y)]
    /\ last' = [last EXCEPT !.op = "series"]
    /\ UNCHANGED <<cc, pts>>

PipelineNext ==
    \/ SeriesNext
    \/ \E i \in Ct, pl \in Plans, n \in 1..2, prescaled \in BOOLEAN, m \in Messages :
          EvalBootstrap(i, pl, n, prescaled, m)

PipelineSpec == SeriesInit /\ [][PipelineNext]_seriesVars
-----------------------------------------------------------------------------
\* The reference.  The approximate reduction of one coefficient.
Reduction(pl, v) ==
    LET n  == Degree(pl.f)
        T  == ChebyshevAt(v, n)
        y  == (Over(pl.f[0], 2) + SumFunction([i \in 1..n |-> pl.f[i] * T[i]])) % P
        by == 2^pl.its
    IN  (PowersAt(Sigma, by)[by] * ChebyshevAt(Over(y, Sigma), by)[by]) % P

CoefficientsOf(v) ==
    [k \in 0..N - 1 |->
        Over(SumFunction([r \in 1..N |-> v[r] * Root(r, 8 - k)]) % P, N)]

\* The coefficients that come out for c, raised.
ReducedCoefficients(pl, c) ==
    [k \in 0..N - 1 |->
        (CorFactor * ((Post * Reduction(pl,
            Over((ScaleEnc * (Over(c[k], CorFactor) + Overflow[k])) % P,
                 Post * BootK))) % P)) % P]

\* Decode-first reduces the slots: a sparse message has them for real and
\* imaginary part of its coefficients.
OneIteration(pl, v) ==
    LET step == NumSlots \div pl.slots
        Place(k) == k % step = 0 /\ k < step * NumSlots
        standard == ReducedCoefficients(pl, CoefficientsOf(v))
        first    == ReducedCoefficients(pl,
                        [k \in 0..N - 1 |->
                            IF Place(k) THEN (ScaleDec * v[k \div step + 1]) % P ELSE 0])
    IN  IF pl.btsfirstboot THEN [r \in 1..N |-> first[IF Even(r) THEN step ELSE 0]]
        ELSE Evaluate([k \in 0..N - 1 |->
                          IF k % step = 0 THEN (ScaleDec * standard[k]) % P ELSE 0])

TwoIterations(pl, v) ==
    LET up == [r \in 1..N |-> (TwoPower * OneIteration(pl, v)[r]) % P]
        e  == OneIteration(pl, [r \in 1..N |-> (up[r] - TwoPower * v[r]) % P])
    IN  [r \in 1..N |-> Over((up[r] - e[r]) % P, TwoPower)]

\* The multiplications left after one iteration: the raise starts over from L.
DepthAfter(pl) ==
    L - 2 - pl.lvlbEnc - DepthOf(Degree(pl.f)) - pl.its
      - (IF pl.btsfirstboot THEN 0 ELSE pl.lvlbDec)

\* A bootstrap applies its modular reduction to every coefficient of the raised
\* message alone, whatever the packing, the flavour, the way it is split into
\* stages, the level and degree of the input and the technique; all its factors
\* cancel; a second iteration takes the error of the first off, or the call
\* leaves its argument as it was; and the result has the levels that the set-up
\* planned, where the plaintexts of every stage were encoded to meet it.
BootstrapExact ==
    series.kind = "bootstrap" =>
        LET pl == series.plan
            v  == series.x.slots
            y  == series.y
        IN  IF series.iterations = 1
            THEN y.slots = OneIteration(pl, v) /\ Depth(y) = DepthAfter(pl)
            ELSE IF DepthAfter(pl) + 1 <= series.x.level
            THEN y = series.x
            ELSE y.slots = TwoIterations(pl, v) /\ Depth(y) = DepthAfter(pl) - 1
=============================================================================
