--------------------------- MODULE FactorRounding ---------------------------
(***************************************************************************)
(* NoiseFactor as the code computes it: in doubles, which round.  The      *)
(* moves of Ciphertext::adjustScaleAndLevel under FLEXIBLEAUTO, of which   *)
(* CiphertextLevels has the exact arithmetic and this module the rounding, *)
(* with the assertions on the factor, which compare with ==; and the two   *)
(* calls that leave a factor of another level, for a while or for good.    *)
(* (The FIXED techniques have one factor, a power of two, which never      *)
(* rounds.)                                                                *)
(*                                                                         *)
(* Left out: the assertion with a tolerance (1e-3, line 2405; 1e-11, line  *)
(* 2302), wider than any rounding of doubles; data; plaintext operands.    *)
(***************************************************************************)
EXTENDS Integers

CONSTANTS L,         \* the highest level
          Prime,     \* the prime of each level
          Precision  \* bits of a significand: 53 in a double

VARIABLES c,  \* the ciphertext: level, NoiseLevel, NoiseFactor, and ok: no
              \* assertion on it has failed
          o   \* the operand that it has to meet

roundingVars == <<c, o>>
-----------------------------------------------------------------------------
(* Binary floating point: <<m, e>> is m * 2^e, with m of Precision bits    *)

Bits(n) == CHOOSE k \in 1..(2 * Precision + 2) : 2 ^ (k - 1) <= n /\ n < 2 ^ k

Carried(m, e) == IF m = 2 ^ Precision THEN <<m \div 2, e + 1>> ELSE <<m, e>>

\* n * 2^e, rounded to the nearest significand, to the even one of two.
Rounded(n, e) ==
    LET k    == Bits(n) - Precision
        m    == n \div 2 ^ k
        rest == 2 * (n % 2 ^ k) - 2 ^ k
        up   == rest > 0 \/ (rest = 0 /\ m % 2 = 1)
    IN  IF k <= 0 THEN <<n * 2 ^ (-k), e + k>>
        ELSE Carried(IF up THEN m + 1 ELSE m, e + k)

Times(a, b) == Rounded(a[1] * b[1], a[2] + b[2])

\* One bit more than the quotient needs, and a last one for what remains.
Over(a, b) ==
    LET n == a[1] * 2 ^ (Precision + 1)
    IN  Rounded(2 * (n \div b[1]) + (IF n % b[1] = 0 THEN 0 ELSE 1),
                a[2] - b[2] - Precision - 2)
-----------------------------------------------------------------------------
(* The tables, as OpenFHE fills them *)

ModReduceFactor == [l \in 0..L |-> Rounded(Prime[l], 0)]

ScalingFactorReal[l \in 0..L] ==
    IF l = L THEN ModReduceFactor[L]
    ELSE Over(Times(ScalingFactorReal[l + 1], ScalingFactorReal[l + 1]), ModReduceFactor[l + 1])

ScalingFactorRealBig == [l \in 0..L |-> Times(ScalingFactorReal[l], ScalingFactorReal[l])]

TableOf(l, n) == IF n = 1 THEN ScalingFactorReal[l] ELSE ScalingFactorRealBig[l]

EncodedAt(l, n) == [level |-> l, NoiseLevel |-> n, NoiseFactor |-> TableOf(l, n), ok |-> TRUE]

Encodings == {EncodedAt(l, n) : l \in 1..L, n \in 1..2} \cup {EncodedAt(0, 1)}
-----------------------------------------------------------------------------
(* The steps of the moves *)

Stamped(d, nf) == [d EXCEPT !.NoiseFactor = nf]
DropTo(d, l) == [d EXCEPT !.level = IF l < @ THEN l ELSE @]

\* multScalarNoPrecheck
ByScalar(d) ==
    [d EXCEPT !.NoiseLevel = @ + 1, !.NoiseFactor = Times(@, ScalingFactorReal[d.level])]

\* An assertion: the factor is == the one of the table.
Asserted(d, l) == [d EXCEPT !.ok = @ /\ d.NoiseFactor = TableOf(l, d.NoiseLevel)]

\* rescaleInternal, with the assertion it ends with
RescaledByPrime(d) ==
    Asserted([d EXCEPT !.level = @ - 1, !.NoiseLevel = @ - 1,
                       !.NoiseFactor = Over(@, ModReduceFactor[d.level])], d.level - 1)

\* The factor before the rescale of a degree-2 operand that was multiplied
Raised(d) ==
    Stamped(ByScalar(d), Times(ScalingFactorRealBig[d.level - 1], ModReduceFactor[d.level]))

\* A move of c to o ends with an assertion.
Settle(d) == c' = Asserted(d, o.level) /\ UNCHANGED o

Moves(n, m) == c.level > o.level /\ c.NoiseLevel = n /\ o.NoiseLevel = m

DeepToDeep ==
    /\ Moves(2, 2)
    /\ Settle(Stamped(DropTo(RescaledByPrime(Raised(c)), o.level), o.NoiseFactor))

DeepToShallow ==
    /\ Moves(2, 1)
    /\ IF c.level - 1 = o.level THEN Settle(RescaledByPrime(c))
       ELSE LET d == DropTo(RescaledByPrime(Raised(c)), o.level + 1)
            IN  Settle(Stamped(RescaledByPrime(Stamped(d, ScalingFactorRealBig[d.level])),
                               o.NoiseFactor))

ShallowToDeep ==
    /\ Moves(1, 2)
    /\ Settle(Stamped(DropTo(ByScalar(c), o.level), o.NoiseFactor))

ShallowToShallow ==
    /\ Moves(1, 1)
    /\ LET d == DropTo(ByScalar(c), o.level + 1)
           f == Over(Over(ScalingFactorRealBig[o.level + 1], c.NoiseFactor),
                     ScalingFactorReal[c.level])
       IN  Settle(Stamped(RescaledByPrime(Stamped(d, Times(d.NoiseFactor, f))), o.NoiseFactor))

\* A product that is rescaled, and another operand
SquareAndRescale ==
    /\ c.NoiseLevel = 1 /\ c.level > 0
    /\ c' = RescaledByPrime([c EXCEPT !.NoiseLevel = 2, !.NoiseFactor = Times(@, @)])
    /\ UNCHANGED o

\* A drop of towers that keeps the factor, as the CPU library does.
SetLevel(l) ==
    /\ c.level > l /\ (c.NoiseLevel = 2 => l > 0)
    /\ c' = DropTo(c, l)
    /\ UNCHANGED o

\* A bootstrap that decodes first brings its input down to level l: it rescales
\* before it stamps the factor.
DepleteForStCFirst(l) ==
    /\ c.level >= l + c.NoiseLevel - 1
    /\ LET a == IF c.NoiseLevel = 2 THEN RescaledByPrime(c) ELSE c
       IN  c' = IF a.level <= l THEN a
                ELSE Stamped(RescaledByPrime(DropTo(ByScalar(a), l + 1)), ScalingFactorReal[l])
    /\ UNCHANGED o

\* One encoded, or a copy of the ciphertext as it is now
AnotherOperand == o' \in Encodings \cup {c} /\ UNCHANGED c

RoundingInit == c \in Encodings /\ o \in Encodings

RoundingNext ==
    \/ DeepToDeep \/ DeepToShallow \/ ShallowToDeep \/ ShallowToShallow
    \/ SquareAndRescale \/ AnotherOperand
    \/ \E l \in 0..L : SetLevel(l) \/ DepleteForStCFirst(l)

RoundingSpec == RoundingInit /\ [][RoundingNext]_roundingVars
-----------------------------------------------------------------------------
\* "assert(NoiseFactor == (NoiseLevel == 1 ? ScalingFactorReal .. :
\* ScalingFactorRealBig ..))" (Ciphertext.cpp, 762): after a rescale the factor is
\* the one of the table, bit for bit.  This fails: between two degree-1 operands the
\* move divides and multiplies by other factors than the table did, and rounds
\* otherwise.  It also fails after SetLevel and in DepleteForStCFirst, where the factor
\* is another one even before it is rounded.
AssertionsHold == c.ok
=============================================================================
