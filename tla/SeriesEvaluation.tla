------------------------- MODULE SeriesEvaluation -------------------------
(***************************************************************************)
(* Chebyshev series and polynomials of a ciphertext (ApproxModEval.cu):    *)
(* evalChebyshevSeries, as EvalChebyshevSeries and the bootstrap call it,  *)
(* and evalPowers with evalPolyWithPrecomp, plain and fused.               *)
(*                                                                         *)
(* An operand of CiphertextLevels gets a value, `slots': what it encrypts, *)
(* for a few arguments at once, in the field of a prime P in place of the  *)
(* doubles.  Levels, degrees and factors move as in CiphertextLevels; the  *)
(* value follows every operation, so that a coefficient, a target level or *)
(* an operand taken wrong shows in the result or its level.                *)
(*                                                                         *)
(* A polynomial is the function of its coefficients from 0.  A Chebyshev   *)
(* series stands, as in OpenFHE, for c[0]/2 + c[1] T_1 + c[2] T_2 + ...    *)
(***************************************************************************)
EXTENDS CiphertextLevels, SequencesExt

CONSTANTS P,            \* the prime
          Points,       \* the arguments in the slots of a ciphertext
          Coefficients, \* of the calls
          Intervals,    \* [a, b] of EvalChebyshevSeries
          OrdinaryLevel \* a bound: operands of these calls are no higher

ASSUME SeriesAssumption ==
    /\ P \in Nat /\ P > 2
    /\ Points \in Seq(0..P - 1)
    /\ \A f \in Coefficients :
          \E n \in 1..P : f \in [0..n -> 0..P - 1] /\ f[n] # 0
    /\ \A d \in Intervals : d[1] < d[2]
    /\ OrdinaryLevel \in 0..L

VARIABLE series \* history: the last evaluation

seriesVars == <<cc, cts, pts, last, series>>

Inverses == [v \in 1..P - 1 |-> CHOOSE w \in 1..P - 1 : (v * w) % P = 1]
Over(v, w) == (v * Inverses[w % P]) % P
-----------------------------------------------------------------------------
(* Operands that hold a value, and what the operations make of it.         *)

Holding(c, v) == [level |-> c.level, NoiseLevel |-> c.NoiseLevel,
                  NoiseFactor |-> c.NoiseFactor, scale |-> c.scale,
                  ok |-> c.ok, slots |-> v]
Bare(c) == [level |-> c.level, NoiseLevel |-> c.NoiseLevel,
            NoiseFactor |-> c.NoiseFactor, scale |-> c.scale, ok |-> c.ok]

\* Data at two scales do not add up: the value is lost for good.
Joined(m, v) == [m.res EXCEPT !.slots = IF m.x.scale = m.y.scale THEN v ELSE <<>>]

Both(a, b) == DOMAIN a.slots \cap DOMAIN b.slots

Plus(a, b) == Joined(Add(a, b), [i \in Both(a, b) |-> (a.slots[i] + b.slots[i]) % P])
Less(a, b) == Joined(Sub(a, b), [i \in Both(a, b) |-> (a.slots[i] - b.slots[i]) % P])
Times(a, b) == [Mult(a, b).res EXCEPT
                   !.slots = [i \in Both(a, b) |-> (a.slots[i] * b.slots[i]) % P]]
Squared(a) == [Square(a).res EXCEPT
                   !.slots = [i \in DOMAIN a.slots |-> (a.slots[i] * a.slots[i]) % P]]
Scaled(a, v) == [MultScalar(a) EXCEPT !.slots = [i \in DOMAIN @ |-> (@[i] * v) % P]]
Shifted(a, v) == [a EXCEPT !.slots = [i \in DOMAIN @ |-> (@[i] + v) % P]]

\* add(a, a): there is nothing to adjust.
Doubled(a) == Joined(Summed([x |-> OnTable(a, a), y |-> a]),
                     [i \in DOMAIN a.slots |-> (2 * a.slots[i]) % P])

\* The three-operand forms copy the lower operand and go on with the other.
Lower(a, b) == IF a.level <= b.level THEN a ELSE b
Other(a, b) == IF a.level <= b.level THEN b ELSE a
PlusOf(a, b)  == Plus(Lower(a, b), Other(a, b))
TimesOf(a, b) == Times(Lower(a, b), Other(a, b))
-----------------------------------------------------------------------------
(* Coefficients, and the division of OpenFHE that Paterson and Stockmeyer  *)
(* split them with.                                                        *)

Coef(f, i) == IF i \in DOMAIN f THEN f[i] ELSE 0
Degree(f) == Max({0} \cup {i \in DOMAIN f : f[i] # 0})
Resized(f, n) == [i \in 0..n |-> Coef(f, i)]

\* The product of g and x^a, or T_a.
Raised(basis, g, a) ==
    IF basis = "power"
    THEN [i \in 0..Degree(g) + a |-> Coef(g, i - a)]
    ELSE [i \in 0..Degree(g) + a |->
             Over(Coef(g, IF i < a THEN a - i ELSE i - a) + Coef(g, i + a), 2)]

\* LongDivisionPoly, LongDivisionChebyshev: f = g * q + r.
LongDivision(basis, f, g) ==
    LET n == Degree(f)
        k == Degree(g)
        Step(d, a) ==
            LET term == Raised(basis, g, a)
                w    == Over(Coef(d.r, k + a), term[k + a])
            IN  [q |-> [d.q EXCEPT ![a] = IF basis = "power" \/ a > 0 THEN w
                                          ELSE (2 * w) % P],
                 r |-> [i \in DOMAIN d.r |-> (d.r[i] - w * Coef(term, i)) % P]]
    IN  IF n < k THEN [q |-> Resized(<<>>, 0), r |-> f]
        ELSE FoldLeft(Step, [q |-> Resized(<<>>, n - k), r |-> f],
                      [j \in 1..n - k + 1 |-> n - k + 1 - j])

\* Number m of giant steps and k of baby steps for a polynomial of degree n.
ComputeDegreesPS(n) ==
    LET m == IF n \in 1..2 THEN 1
             ELSE IF n \in (3..11) \cup (14..17) THEN 2
             ELSE IF n \in (12..13) \cup (18..55) THEN 3 ELSE 4
    IN  [m |-> m, k |-> n \div (2^m - 1) + 1]

Halves(k, m) == k * 2^(m - 1) - k

\* f = (x^(k 2^(m-1)) + c) q + s, with s monic of degree k (2^(m-1) - 1).
Split(basis, f, k, m) ==
    LET low == Halves(k, m)
        top == [i \in 0..low + k |-> IF i = low + k THEN 1 ELSE 0]
        MinusLow(r) == [i \in 0..Max({low, Degree(r)}) |->
                           (Coef(r, i) - (IF i = low THEN 1 ELSE 0)) % P]
        Parts(q, e) == [q |-> q, c |-> e.q, s |-> [Resized(e.r, low) EXCEPT ![low] = 1]]
        By(d) == Parts(d.q, LongDivision(basis, MinusLow(d.r), d.q))
    IN  By(LongDivision(basis, f, top))

\* With x^(k (2^m - 1)) added, to be taken off the result again.
Padded(f, k, m) ==
    [Resized(f, 2 * Halves(k, m) + k) EXCEPT ![2 * Halves(k, m) + k] = 1]
-----------------------------------------------------------------------------
(* evalPartialLinearWSumWithBias and its batched form: one pass computes   *)
(* w[0] + w[1] T[1] + ... at a target level, at degree 2, with the drop of *)
(* towers and the change of factor folded into each constant.              *)

\* The factor ElemForEvalMult gives the constant of an operand of level `in'.
ConstantFactor(target, in) ==
    IF target = in THEN SF(target) ELSE SF(target - 1) + Q(target) - SF(in)

WSumWithBias(T, w, target) ==
    LET terms == {i \in DOMAIN T : Coef(w, i) # 0}
        value == [p \in DOMAIN Points |->
                     (Coef(w, 0)
                      + SumFunction([i \in terms |-> w[i] * T[i].slots[p]])) % P]
        even == \A i \in terms :
                   /\ Len(T[i].slots) = Len(Points)
                   /\ T[i].scale + ConstantFactor(target, T[i].level) = Big(target)
        good == /\ \A i \in DOMAIN T : T[i].NoiseLevel = 1 /\ T[i].ok
                /\ \A i \in DOMAIN T : target <= T[i].level
                /\ \A i \in terms : T[i].level # target => target > 0
    IN  Holding(Require(Encoded(target, 2), good), IF even THEN value ELSE <<>>)
-----------------------------------------------------------------------------
(* The set of powers, or Chebyshev polynomials, of the argument: `small'   *)
(* up to k; big[i] at k 2^i, raw[i] the same before its rescale; `ones',   *)
(* at k (2^m - 1).                                                         *)

\* What follows the square of a polynomial: T_2n = 2 T_n^2 - 1.
AfterSquare(basis, c) == IF basis = "power" THEN c ELSE Shifted(Doubled(c), -1)

NextBig(method, raw) ==
    IF method = "power" THEN Rescale(raw)
    ELSE IF method = "fused" THEN ToDegreeOne(raw)
    ELSE ToDegreeOne(Rescale(raw))

NextOnes(method, ones, big, top) ==
    IF method = "Chebyshev" THEN Less(Rescale(Doubled(Times(ones, big))), top)
                            ELSE Rescale(Times(ones, big))

BigPowers(method, small, m) ==
    LET basis == IF method = "Chebyshev" THEN method ELSE "power"
        top == Last(small)
        WithBoth(s, raw, big) ==
            [s EXCEPT !.raw = Append(@, raw), !.big = Append(@, big),
                      !.ones = NextOnes(method, @, big, top)]
        WithRaw(s, raw) == WithBoth(s, raw, NextBig(method, raw))
        Step(s, i) ==
            WithRaw(s, AfterSquare(basis, Squared(IF i = 1 THEN top ELSE s.big[i - 1])))
    IN  FoldLeft(Step, [small |-> small, raw |-> <<>>, big |-> <<>>, ones |-> top],
                 [i \in 1..m - 1 |-> i])

\* y = 2 (x - a) / (b - a) - 1: a factor and a shift.
Alpha(d) == Over(2, d[2] - d[1])
Centred(y, d) ==
    IF d[1] + d[2] = 0 THEN y ELSE Shifted(y, P - Over(d[1] + d[2], d[2] - d[1]))

\* T_1 .. T_k, each of degree 1.  An interval of width 2 needs no factor.  Under
\* FIXEDMANUAL T_1 is also kept at degree 2, that of the product it is taken from.
ChebyshevPolynomials(x, d, k) ==
    LET raw   == Centred(IF d[2] - d[1] = 2 THEN x
                         ELSE Scaled(ToDegreeOne(x), Alpha(d)), d)
        first == ToDegreeOne(raw)
        one   == IF Automatic THEN first
                 ELSE IF raw.NoiseLevel = 1 THEN Scaled(raw, 1) ELSE raw
        Step(T, i) ==
            Append(T, RescaleInternal(
                IF i % 2 = 1
                THEN Less(Doubled(TimesOf(T[i \div 2], T[i \div 2 + 1])), one)
                ELSE AfterSquare("Chebyshev", Squared(T[i \div 2]))))
    IN  FoldLeft(Step, <<first>>, [j \in 1..k - 1 |-> j + 1])

\* evalPowersPS, x .. x^k: by the highest power of two, or fused by halves.
\* Under FIXEDMANUAL the lower power is first dropped, for good, to the level
\* of the higher one; unless fused all of them end at the level of x^k.
TopBit(i) == CHOOSE p \in {2^b : b \in 0..i} : p <= i /\ i < 2 * p

Lowered(T, i, c) == IF Automatic THEN T ELSE [T EXCEPT ![i] = Drop(@, c.level)]
Reduced(fused, c) == IF fused THEN RescaleInternal(c) ELSE Rescale(c)
AdjustIfCan(c, o) == IF CanAdjust(c, o) THEN AdjustCiphertext(c, o) ELSE c

DroppedToLast(T) == [i \in DOMAIN T |-> Drop(T[i], Last(T).level)]
AdjustedToLast(T) ==
    [i \in DOMAIN T |-> IF i = Len(T) THEN T[i] ELSE AdjustIfCan(T[i], Last(T))]
AtLevelOfLast(T) == IF Automatic THEN AdjustedToLast(T) ELSE DroppedToLast(T)

PowersUpTo(x, k, fused) ==
    LET Step(T, i) ==
            LET p == TopBit(i)
                With(S) ==
                    Append(S, Reduced(fused,
                        IF i = p THEN Squared(S[p \div 2])
                        ELSE TimesOf(S[IF fused THEN i \div 2 ELSE p],
                                     S[IF fused THEN i \div 2 + (i % 2) ELSE i - p])))
            IN  With(IF i = p THEN T ELSE Lowered(T, i - p, T[p]))
        Converged(T) == IF fused THEN T ELSE AtLevelOfLast(T)
    IN  Converged(FoldLeft(Step, <<x>>, [j \in 1..k - 1 |-> j + 1]))
-----------------------------------------------------------------------------
(* Paterson and Stockmeyer, in the two passes of the batched evaluators    *)
(* (innerEvalChebyshevPS, innerEvalPolyPSFused): RECORD lists the weighted *)
(* sums at the leaves of the splitting, REMAINING walks it again and takes *)
(* their results from that list.                                           *)

\* The level of the product that gave x^(k 2^(m-1)).
Base(s, m) == s.big[m - 1].level + (IF s.big[m - 1].NoiseLevel = 1 THEN 1 ELSE 0)

\* Faulty: a series' free term as a polynomial's.
WeightsUnhalved(basis, g) == g

\* The weights of a leaf.
Weights(basis, g) ==
    IF basis = "power" THEN g ELSE [g EXCEPT ![0] = Over(@, 2)]

Leaf(basis, g, target) == <<[w |-> Weights(basis, g), target |-> target]>>

\* The split d of a polynomial, m giant steps deep.
RECURSIVE Record(_, _, _, _, _, _)
Record(basis, s, d, k, m, offset) ==
    LET base == Base(s, m) - offset
        Part(g, below) ==
            IF Degree(g) > k
            THEN Record(basis, s, Split(basis, g, k, m - 1), k, m - 1, offset + below)
            ELSE Leaf(basis, g, base - below)
    IN  Part(d.q, 0) \o Part(d.s, 1)
        \o (IF Degree(d.c) >= 1 THEN Leaf(basis, d.c, base) ELSE <<>>)

Popped(sums) == [out |-> Head(sums), sums |-> Tail(sums)]

\* c + x^(k 2^(m-1)): before the rescale of both where they are at one level.
WithBig(s, c, m) ==
    IF c.level = s.raw[m - 1].level
    THEN Rescale(PlusOf(c, s.raw[m - 1]))
    ELSE PlusOf(Rescale(c), s.big[m - 1])

\* (x^(k 2^(m-1)) + c) q + s.
Assembled(cu, q, su) == Plus(Times(cu, Rescale(q)), su)

RECURSIVE Remaining(_, _, _, _, _, _)
Remaining(basis, s, d, k, m, sums) ==
    LET Part(g, left) ==
            IF Degree(g) > k
            THEN Remaining(basis, s, Split(basis, g, k, m - 1), k, m - 1, left)
            ELSE Popped(left)
        Linear == Degree(d.c) >= 1
        WithC(q, r) ==
            [out |-> Assembled(IF Linear THEN WithBig(s, Head(r.sums), m)
                               ELSE Shifted(s.big[m - 1], Weights(basis, d.c)[0]),
                               q.out, r.out),
             sums |-> IF Linear THEN Tail(r.sums) ELSE r.sums]
        AfterQ(q) == WithC(q, Part(d.s, q.sums))
    IN  AfterQ(Part(d.q, sums))

\* evalMultiplePartialLinearWSumWithBias.
WSums(T, leaves) ==
    [i \in DOMAIN leaves |-> WSumWithBias(T, leaves[i].w, leaves[i].target)]

Batched(basis, s, f, k, m) ==
    LET d == Split(basis, Padded(f, k, m), k, m)
        sums == WSums(s.small, Record(basis, s, d, k, m, 0))
    IN  Less(Rescale(Remaining(basis, s, d, k, m, sums).out), s.ones)
-----------------------------------------------------------------------------
(* The unfused polynomial, as OpenFHE's InnerEvalPolyPS.                   *)

\* evalPartialLinearWSum: w[1] T[1] + ... + w[n] T[n], at the level of all.
PartialWSum(T, w, n) ==
    LET used == 1..n
        top  == Max({T[i].level : i \in used})
        deep == \E i \in used : T[i].level = top /\ T[i].NoiseLevel = 2
        Term(i) == IF Automatic
                   THEN LET t == Require(T[i], T[i].level = top)
                        IN  Scaled(IF deep THEN RescaleInternal(t) ELSE t, Coef(w, i))
                   ELSE Scaled(T[i], Coef(w, i))
    IN  Rescale(FoldLeft(LAMBDA acc, i : Plus(acc, Term(i)), Term(1),
                         [j \in 1..n - 1 |-> j + 1]))

\* A monic polynomial of degree k.
Monic(T, g, k) ==
    LET low == Resized(g, k - 1)
        top == Shifted(T[k], g[0])
    IN  IF Degree(low) = 0 THEN top ELSE Plus(top, PartialWSum(T, low, Degree(low)))

RECURSIVE InnerEvalPolyPS(_, _, _, _)
InnerEvalPolyPS(s, d, k, m) ==
    LET Part(g) == IF Degree(g) > k
                   THEN InnerEvalPolyPS(s, Split("power", g, k, m - 1), k, m - 1)
                   ELSE Monic(s.small, g, k)
        big == s.big[m - 1]
        n == Degree(d.c)
        cu == IF n = 0 THEN big
              ELSE IF n > 1 THEN Plus(big, PartialWSum(s.small, d.c, n))
              ELSE IF d.c[1] = 1 THEN Plus(big, s.small[1])
              ELSE Plus(Rescale(Scaled(s.small[1], d.c[1])), big)
    IN  Plus(Rescale(TimesOf(Shifted(cu, d.c[0]), Part(d.q))), Part(d.s))

PowerSeries(s, f, k, m) ==
    Less(InnerEvalPolyPS(s, Split("power", Padded(f, k, m), k, m), k, m), s.ones)
-----------------------------------------------------------------------------
(* Degree below 5: power by power.                                         *)

DroppedTogether(apart, T) == IF apart THEN T ELSE DroppedToLast(T)

\* evalChebyPolysLinear.  Any interval but [-1, 1] costs a multiplication.
LinearPolynomials(x, d, k) ==
    LET first == IF d = <<-1, 1>> THEN x ELSE Centred(Rescale(Scaled(x, Alpha(d))), d)
        Step(T, i) ==
            Append(T,
                IF i % 2 = 1
                THEN Less(Rescale(Doubled(TimesOf(T[i \div 2], T[i \div 2 + 1]))), T[1])
                ELSE Shifted(Rescale(Doubled(Squared(T[i \div 2]))), -1))
    IN  DroppedTogether(Automatic, FoldLeft(Step, <<first>>, [j \in 1..k - 1 |-> j + 1]))

\* The powers evalPowersLinear computes: the powers of two, and the tails of
\* the binary forms of the degrees that have a coefficient.
NeededPowers(f, k) ==
    {i \in 1..k : \/ TopBit(i) = i
                  \/ \E j \in 1..k, b \in 1..k + 1 : f[j] # 0 /\ i = j % 2^b}

\* evalPowersLinear.  A power that is not computed stays empty, at level 0.
LinearPowers(x, f, k, fused) ==
    LET needed == NeededPowers(f, k)
        Step(T, i) ==
            LET p == TopBit(i)
                S == Lowered(T, i - p, T[p])
            IN  IF i = p THEN Append(T, Reduced(fused, Squared(T[p \div 2])))
                ELSE IF i \in needed
                THEN Append(S, Reduced(fused, TimesOf(S[p], S[i - p])))
                ELSE Append(T, Nothing)
    IN  DroppedTogether(fused \/ Automatic,
                        FoldLeft(Step, <<x>>, [j \in 1..k - 1 |-> j + 1]))

\* evalChebyshevSeriesLinear, evalPolyLinearWithPrecomp: the terms, the highest
\* first, then the free one.
LinearSum(T, f, k, free) ==
    LET Add1(acc, i) == IF f[i] = 0 THEN acc ELSE Plus(acc, Scaled(T[i], f[i]))
    IN  Shifted(Rescale(FoldLeft(Add1, Scaled(T[k], f[k]), [i \in 1..k - 1 |-> i])), free)
-----------------------------------------------------------------------------
(* The entry points.                                                       *)

\* evalChebyshevSeries.
ChebyshevSeries(x, f, d) ==
    LET n == Degree(f)
        by == ComputeDegreesPS(n)
        s == BigPowers("Chebyshev", ChebyshevPolynomials(x, d, by.k), by.m)
    IN  IF n < 5 THEN LinearSum(LinearPolynomials(x, d, n), f, n, Over(f[0], 2))
        ELSE Batched("Chebyshev", s, f, by.k, by.m)

\* evalPowers, then evalPolyWithPrecomp.
Polynomial(x, f, fused) ==
    LET n == Degree(f)
        by == ComputeDegreesPS(n)
        Summing(s) == IF fused THEN Batched("power", s, f, by.k, by.m)
                      ELSE PowerSeries(s, f, by.k, by.m)
    IN  IF n < 5 THEN LinearSum(LinearPowers(x, f, n, fused), f, n, f[0])
        ELSE Summing(BigPowers(IF fused THEN "fused" ELSE "power",
                               PowersUpTo(x, by.k, fused), by.m))

\* Multiplications a series of degree n costs: below 5 the highest power and its
\* coefficient; else GetMultiplicativeDepthByCoeffVector, which EvalBootstrapSetup
\* plans the levels of a bootstrap with.
DepthOf(n) ==
    IF n < 5 THEN (IF n = 1 THEN 1 ELSE IF n = 2 THEN 2 ELSE 3)
    ELSE IF n = 5 THEN 3 ELSE IF n < 14 THEN 4 ELSE IF n < 28 THEN 5 ELSE 6

Cost(f, d) ==
    DepthOf(Degree(f))
    + (IF d = <<-1, 1>> \/ (Degree(f) >= 5 /\ d[2] - d[1] = 2) THEN 0 ELSE 1)

\* A bound.  Every operand is as a fresh one (TypeOK, ScaleHonest) and no other
\* handle plays a part: one state per operand has all the cases.
Alone(i) ==
    /\ last.op = "none"
    /\ \A j \in Ct : cts[j] = cts[i]
    /\ \A p \in Pt : pts[p] = cts[i]

\* The caller has the levels, and under FIXEDMANUAL reduces the argument of
\* what does not reduce it by itself.
Evaluable(i, cost, reduces) ==
    /\ Alone(i)
    /\ Depth(cts[i]) >= cost - 1
    /\ Automatic \/ reduces \/ cts[i].NoiseLevel = 1

Evaluated(kind, i, f, d, y) ==
    /\ cts' = [cts EXCEPT ![i] = Bare(y)]
    /\ series' = [kind |-> kind, f |-> f, d |-> d, x |-> cts[i], y |-> y]
    /\ last' = [last EXCEPT !.op = "series"]
    /\ UNCHANGED <<cc, pts>>

\* EvalChebyshevSeries, EvalChebyshevSeriesInPlace.
EvalChebyshevSeries(i, f, d) ==
    /\ Evaluable(i, Cost(f, d), Degree(f) >= 5)
    /\ Evaluated("Chebyshev", i, f, d,
                 ChebyshevSeries(Holding(cts[i], Points), f, d))

\* evalPowers and evalPolyWithPrecomp, with the fused powers or without
EvalPolynomial(i, f, fused) ==
    /\ cts[i].NoiseLevel = 1
    /\ Evaluable(i, DepthOf(Degree(f)), FALSE)
    /\ Evaluated("power", i, f, <<-1, 1>>,
                 Polynomial(Holding(cts[i], Points), f, fused))

Ordinary == \A c \in Current : c.level <= OrdinaryLevel

SeriesInit ==
    /\ Init /\ series = [kind |-> "none"]
    /\ Ordinary \/ \E i \in Ct : Alone(i)

SeriesNext ==
    /\ Ordinary
    /\ \/ Next /\ series' = [kind |-> "none"]
       \/ \E i \in Ct, f \in Coefficients, d \in Intervals : EvalChebyshevSeries(i, f, d)
       \/ \E i \in Ct, f \in Coefficients, fused \in BOOLEAN :
             EvalPolynomial(i, f, fused)

SeriesSpec == SeriesInit /\ [][SeriesNext]_seriesVars
-----------------------------------------------------------------------------
\* The reference: the value of the series or the polynomial at one argument.
ChebyshevAt(v, n) ==
    LET T[i \in 0..n] == IF i = 0 THEN 1 ELSE IF i = 1 THEN v
                         ELSE (2 * v * T[i - 1] - T[i - 2]) % P
    IN  T

PowersAt(v, n) ==
    LET X[i \in 0..n] == IF i = 0 THEN 1 ELSE (v * X[i - 1]) % P
    IN  X

Reference(e, v) ==
    LET n == Degree(e.f)
        width == e.d[2] - e.d[1]
        y == IF e.kind = "power" THEN v
             ELSE Over((2 * v - e.d[1] - e.d[2]) % P, width)
        T == IF e.kind = "power" THEN PowersAt(y, n) ELSE ChebyshevAt(y, n)
        free == IF e.kind = "power" THEN e.f[0] ELSE Over(e.f[0], 2)
    IN  (free + SumFunction([i \in 1..n |-> e.f[i] * T[i]])) % P

\* A series comes out as the series, at every argument, whatever its degree, its
\* zero coefficients, the level and degree of the argument and the technique:
\* the leaves are summed with the right weights at levels where they meet
\* again, and none of it costs a level more than was planned for.
SeriesExact ==
    series.kind \in {"Chebyshev", "power"} =>
        /\ series.y.slots = [p \in DOMAIN Points |-> Reference(series, Points[p])]
        /\ Depth(series.y) >= Depth(series.x)
             - (IF series.kind = "power" THEN DepthOf(Degree(series.f))
                                         ELSE Cost(series.f, series.d))
=============================================================================
