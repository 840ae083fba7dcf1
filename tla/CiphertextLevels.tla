-------------------------- MODULE CiphertextLevels --------------------------
(***************************************************************************)
(* Levels, noise degrees and scaling factors of ciphertexts under the      *)
(* homomorphic operations: Ciphertext::add .. multScalar and the           *)
(* adjustScaleAndLevel they align their operands with (Ciphertext.cpp),    *)
(* Plaintext::adjustScaleAndLevel (Plaintext.cu), as the GPU paths of the  *)
(* Eval* calls of api/CryptoContext.cpp drive them.                        *)
(*                                                                         *)
(* An operand is what the bookkeeping knows of it: its level (towers minus *)
(* one), NoiseLevel (the power of the scaling factor it carries) and       *)
(* NoiseFactor, and two histories: `scale', the factor its data really     *)
(* carries, which the code never stores, and `ok', which an assertion that *)
(* fails or a throwAdjustFailure turns off for good.  Factors are          *)
(* multiplied and divided only, so they are kept as logarithms: integers,  *)
(* added and subtracted, exactly.  Messages are left out.                  *)
(*                                                                         *)
(* The code has doubles, which round: that the factor after a rescale is   *)
(* == the one of the table (Ciphertext.cpp, 762) is asserted in            *)
(* FactorRounding, which has the rounding, and not here.                   *)
(*                                                                         *)
(* Left out: FLEXIBLEAUTOEXT with its level L + 1, and extended (modUp)    *)
(* operands, whose callers align by hand.                                  *)
(***************************************************************************)
EXTENDS Integers

CONSTANTS Ct,       \* the caller's ciphertext handles
          Pt,       \* the caller's plaintext handles
          L,        \* the highest level
          Contexts  \* scaling techniques with the factor tables of a context

Techniques == {"FIXEDMANUAL", "FIXEDAUTO", "FLEXIBLEAUTO"}

(* The tables come from OpenFHE.  What the code asserts of them: dividing  *)
(* a degree-2 factor by the prime of its level gives the degree-1 factor   *)
(* of the level below, but for rounding.  The FIXED techniques have one    *)
(* factor for all.                                                         *)
ASSUME ContextAssumption ==
    /\ L \in Nat
    /\ Contexts \subseteq [technique : Techniques,
                           ScalingFactorReal : [0..L -> Int],
                           ModReduceFactor : [0..L -> Int]]
    /\ \A x \in Contexts : \A l \in 1..L :
          x.ScalingFactorReal[l - 1] + x.ModReduceFactor[l]
              = 2 * x.ScalingFactorReal[l]
    /\ \A x \in Contexts : x.technique # "FLEXIBLEAUTO" =>
          \A l \in 0..L : x.ScalingFactorReal[l] = x.ScalingFactorReal[0]

VARIABLES cc,  \* the context
          cts, \* the ciphertext behind each handle
          pts, \* the plaintext behind each handle
          last \* history: the last operation, its operands before (a, b) and
               \* at the moment their data were combined (x, y), its result

vars == <<cc, cts, pts, last>>

Automatic     == cc.technique # "FIXEDMANUAL"
Flexible == cc.technique = "FLEXIBLEAUTO"

SF(l)  == cc.ScalingFactorReal[l]
Big(l) == 2 * SF(l)
Q(l)   == cc.ModReduceFactor[l]

\* The factor an operand of level l and degree n has to carry.
Table(l, n) == IF n = 1 THEN SF(l) ELSE Big(l)

Operand == [level : 0..L, NoiseLevel : 1..2, NoiseFactor : Int,
            scale : Int, ok : BOOLEAN]

\* An operand as encoding and encryption make it.
Encoded(l, n) == [level |-> l, NoiseLevel |-> n, NoiseFactor |-> Table(l, n),
                  scale |-> Table(l, n), ok |-> TRUE]

\* A degree-2 operand needs two primes: q_0 alone cannot hold it.
Fits(c) == c.NoiseLevel <= c.level + 1

Fresh == {Encoded(d[1], d[2]) : d \in {e \in (0..L) \X (1..2) : e[2] <= e[1] + 1}}

\* How many multiplications an operand has left, less one.
Depth(c) == c.level - c.NoiseLevel

MinOf(i, j) == IF i < j THEN i ELSE j

Nothing == [level |-> 0, NoiseLevel |-> 1, NoiseFactor |-> 0, scale |-> 0,
            ok |-> TRUE]

Init ==
    /\ cc \in Contexts
    /\ cts \in [Ct -> Fresh]
    /\ pts \in [Pt -> Fresh]
    /\ last = [op |-> "none", a |-> Nothing, b |-> Nothing,
               x |-> Nothing, y |-> Nothing, res |-> Nothing]
-----------------------------------------------------------------------------
(* The steps every operation is made of.  (An operator whose comment says  *)
(* "faulty" is not part of the model: it is what the definition after it   *)
(* could have been, and breaks a property.)                                *)

Require(c, p) == [c EXCEPT !.ok = @ /\ p]
Stamp(c, nf) == [c EXCEPT !.NoiseFactor = nf]

\* dropToLevel(l, skip_adjust = true): towers go, data and factor stay.
Drop(c, l) == [c EXCEPT !.level = MinOf(@, l)]

\* multScalarNoPrecheck and Plaintext::multScalar.  f is the part of the
\* scalar that corrects the scale (0: the caller's constant).
MultScalarNoPrecheck(c, f) ==
    [c EXCEPT !.NoiseLevel = @ + 1,
              !.NoiseFactor = @ + SF(c.level),
              !.scale = @ + f + SF(c.level)]

\* raiseDegreeToLevel: by the last prime of the target level, which under
\* FIXEDAUTO stands for the one factor of the context.
RaiseDegree(c) ==
    [c EXCEPT !.NoiseLevel = @ + 1,
              !.NoiseFactor = @ + SF(c.level),
              !.scale = @ + SF(c.level)]

\* The last prime goes, from the data and from the factor.
Rescaled(c) ==
    [c EXCEPT !.level = @ - 1,
              !.NoiseLevel = @ - 1,
              !.NoiseFactor = @ - Q(c.level),
              !.scale = @ - Q(c.level)]

\* Ciphertext::rescaleInternal: there has to be a prime to take.
RescaleInternal(c) == Rescaled(Require(c, c.level > 0))

\* Plaintext::rescale, with the assertion it begins with.
PtRescale(p) == Require(Rescaled(p), p.level > 0 /\ p.NoiseLevel >= 2)

\* Faulty: leave the rescale to the caller.
AtAnyDegree(c) == c

\* What the operations on degree-1 operands do to a degree-2 one first.
ToDegreeOne(c) == IF c.NoiseLevel = 2 THEN RescaleInternal(c) ELSE c
PtToDegreeOne(p) == IF p.NoiseLevel = 2 THEN PtRescale(p) ELSE p
-----------------------------------------------------------------------------
(* adjustScaleAndLevel: one operand is brought to the level, the degree    *)
(* and the factor of the other, by a scalar multiplication, a rescale and  *)
(* a drop of towers.  It answers false, and changes nothing, when it is    *)
(* the other operand that has to move.                                     *)

\* Faulty: equal levels are left to the other operand too.
CanAdjustHigherOnly(c, o) == c.level > o.level

\* Every `return false', of the three techniques, is the complement of this.
CanAdjust(c, o) ==
    \/ c.level > o.level
    \/ c.level = o.level /\ c.NoiseLevel <= o.NoiseLevel

\* The scalar that takes c to factor nf, and to nf before a rescale by q.
Correction(c, nf)   == nf - c.NoiseFactor - SF(c.level)
CorrectionQ(c, nf) == nf - c.NoiseFactor + Q(c.level) - SF(c.level)

\* FIXEDAUTO: equal degrees carry equal factors; a degree-2 operand is rescaled,
\* a degree-1 operand raised.  (No call below adjusts under FIXEDMANUAL.)
LowerFixed(c, o) ==
    IF c.NoiseLevel = o.NoiseLevel THEN Drop(c, o.level)
    ELSE IF c.NoiseLevel < o.NoiseLevel
    THEN Drop(RaiseDegree(c), o.level)
    ELSE Drop(RescaleInternal(c), o.level)

PtLowerFixed(p, o) ==
    IF p.NoiseLevel = o.NoiseLevel THEN Drop(p, o.level)
    ELSE IF p.NoiseLevel < o.NoiseLevel
    THEN Drop(RaiseDegree(p), o.level)
    ELSE Drop(PtRescale(p), o.level)

\* FLEXIBLEAUTO, the degrees of c and o: 2 and 2.
LowerDeepToDeep(c, o) ==
    LET up == Stamp(MultScalarNoPrecheck(c, CorrectionQ(c, o.NoiseFactor)),
                    Big(c.level - 1) + Q(c.level))
    IN  Stamp(Drop(RescaleInternal(up), o.level), o.NoiseFactor)

\* Faulty: two levels apart taken for one.
LowerDeepToShallowShort(c, o) == Drop(RescaleInternal(c), o.level)

\* 2 and 1: one rescale when the levels are neighbours, else the detour over
\* a degree-2 operand one level above o.
LowerDeepToShallow(c, o) ==
    IF c.level - 1 = o.level THEN RescaleInternal(c)
    ELSE LET up == Stamp(MultScalarNoPrecheck(
                              c, CorrectionQ(c, Big(o.level + 1))),
                         Big(c.level - 1) + Q(c.level))
             mid == Drop(RescaleInternal(up), o.level + 1)
         IN  Stamp(RescaleInternal(Stamp(mid, Big(mid.level))), o.NoiseFactor)

\* Faulty: multiply by one, as between equal levels.
LowerShallowByOne(c, o) ==
    Stamp(Drop(MultScalarNoPrecheck(c, 0), o.level), o.NoiseFactor)

\* 1 and 2.
LowerShallowToDeep(c, o) ==
    LET f == Correction(c, o.NoiseFactor)
        s == Drop(MultScalarNoPrecheck(c, f), o.level)
    IN  Stamp(Require(s, s.NoiseFactor + f = o.NoiseFactor), o.NoiseFactor)

\* Faulty: rescale below the level asked for.
LowerShallowTooLow(c, o) ==
    LET f == Correction(c, Big(o.level))
        s == Drop(MultScalarNoPrecheck(c, f), o.level)
    IN  Stamp(RescaleInternal(Stamp(s, s.NoiseFactor + f)), o.NoiseFactor)

\* 1 and 1.
LowerShallowToShallow(c, o) ==
    LET f == Correction(c, Big(o.level + 1))
        s == Drop(MultScalarNoPrecheck(c, f), o.level + 1)
    IN  Stamp(RescaleInternal(Stamp(s, s.NoiseFactor + f)), o.NoiseFactor)

\* The plaintext's moves stamp the factor last and assert it there.
PtSettled(s, f, o) ==
    Stamp(Require(s, s.NoiseFactor + f = o.NoiseFactor), o.NoiseFactor)

PtLowerDeepToDeep(p, o) ==
    LET f == CorrectionQ(p, o.NoiseFactor)
    IN  PtSettled(Drop(PtRescale(MultScalarNoPrecheck(p, f)), o.level), f, o)

PtLowerDeepToShallow(p, o) ==
    IF p.level - 1 = o.level THEN PtRescale(p)
    ELSE LET f == CorrectionQ(p, Big(o.level + 1))
             mid == Drop(PtRescale(MultScalarNoPrecheck(p, f)), o.level + 1)
         IN  PtSettled(PtRescale(mid), f, o)

PtLowerShallowToShallow(p, o) ==
    LET f == Correction(p, Big(o.level + 1))
    IN  PtSettled(PtRescale(Drop(MultScalarNoPrecheck(p, f), o.level + 1)), f, o)

\* multScalar of a constant: degree 1 first.
MultScalar(c) ==
    LET d == IF Automatic THEN ToDegreeOne(c) ELSE c
    IN  MultScalarNoPrecheck(Require(d, d.NoiseLevel = 1), 0)

\* The assertion on d that ends a move to o: the factor stamped is the one of o's table.
OnTable(d, o) == Require(d, d.NoiseFactor = Table(o.level, d.NoiseLevel))

LowerFlexible(c, o) ==
    IF c.level = o.level
    THEN IF c.NoiseLevel < o.NoiseLevel THEN MultScalar(c) ELSE c
    ELSE LET d == IF c.NoiseLevel = 2
                  THEN IF o.NoiseLevel = 2 THEN LowerDeepToDeep(c, o)
                                           ELSE LowerDeepToShallow(c, o)
                  ELSE IF o.NoiseLevel = 2 THEN LowerShallowToDeep(c, o)
                                           ELSE LowerShallowToShallow(c, o)
         IN  OnTable(d, o)

PtLowerFlexible(p, o) ==
    IF p.level = o.level
    THEN IF p.NoiseLevel < o.NoiseLevel THEN MultScalarNoPrecheck(p, 0) ELSE p
    ELSE IF p.NoiseLevel = 2
         THEN IF o.NoiseLevel = 2 THEN PtLowerDeepToDeep(p, o)
                                  ELSE PtLowerDeepToShallow(p, o)
         ELSE IF o.NoiseLevel = 2 THEN LowerShallowToDeep(p, o)
                                  ELSE PtLowerShallowToShallow(p, o)

\* Ciphertext::adjustScaleAndLevel, with the assertion on o it begins with.
AdjustCiphertext(c, o) ==
    LET d == Require(c, o.NoiseFactor = Table(o.level, o.NoiseLevel))
    IN  IF Flexible THEN LowerFlexible(d, o) ELSE LowerFixed(d, o)

\* Plaintext::adjustScaleAndLevel.
AdjustPlaintext(p, o) ==
    IF Flexible THEN PtLowerFlexible(p, o) ELSE PtLowerFixed(p, o)

\* throwAdjustFailure: neither operand could be adjusted.
Thrown(c) == Require(c, FALSE)
-----------------------------------------------------------------------------
(* The operations.  Each gives its result and the operands x and y whose   *)
(* data it combined; a mutable operation leaves y in its second operand.   *)
(* The code calls itself again on an adjusted copy: the second call finds  *)
(* nothing left to adjust.                                                 *)

\* The operands of add, sub and mult under the AUTO techniques.
Meet(a, b) ==
    IF CanAdjust(a, b) THEN [x |-> AdjustCiphertext(a, b), y |-> b]
    ELSE IF CanAdjust(b, a) THEN [x |-> a, y |-> AdjustCiphertext(b, a)]
    ELSE [x |-> Thrown(a), y |-> b]

\* addMetadata: x's, once it has compared the two.
SumOf(x, y) ==
    Require(x, /\ y.ok
              /\ x.NoiseLevel = y.NoiseLevel
              /\ x.level <= y.level
              /\ Flexible => x.level = y.level)

\* multMetadata.
Product(x, y) ==
    [Require(x, y.ok /\ x.level <= y.level)
       EXCEPT !.NoiseLevel = @ + y.NoiseLevel,
              !.NoiseFactor = @ + y.NoiseFactor,
              !.scale = @ + y.scale]

\* Operands m, aligned, with their sum or product.
Summed(m) == [x |-> m.x, y |-> m.y, res |-> SumOf(m.x, m.y)]
Multiplied(m) == [x |-> m.x, y |-> m.y, res |-> Product(m.x, m.y)]

\* Ciphertext::add, addMutable.  Under FIXEDMANUAL the higher operand loses towers;
\* the assertion before that denies that there are any (276, 316; README).
Add(a, b) ==
    Summed(IF Automatic THEN Meet(a, b) ELSE [x |-> Drop(a, b.level), y |-> b])

\* Ciphertext::sub, subMutable: without that assertion.
Sub(a, b) == Add(a, b)

\* The operands of addPt and subPt: a degree-2 ciphertext one level above a
\* degree-1 plaintext is rescaled onto it.
MeetPt(a, p) ==
    LET c == IF p.NoiseLevel = 1 /\ a.NoiseLevel = 2 /\ p.level = a.level - 1
             THEN RescaleInternal(a) ELSE a
    IN  IF CanAdjust(c, p) THEN [x |-> AdjustCiphertext(c, p), y |-> p]
        ELSE IF CanAdjust(p, c) THEN [x |-> c, y |-> AdjustPlaintext(p, c)]
        ELSE [x |-> Thrown(c), y |-> p]

\* Ciphertext::addPt, addPtMutable; subPt and subPtMutable align alike.
AddPt(a, p) ==
    Summed(IF Automatic THEN MeetPt(a, p) ELSE [x |-> a, y |-> p])

BothToDegreeOne(m) ==
    IF m.x.NoiseLevel = 2
    THEN [x |-> RescaleInternal(m.x), y |-> RescaleInternal(m.y)] ELSE m

RequireDegreeOne(m) ==
    [m EXCEPT !.x = Require(@, m.x.NoiseLevel = 1 /\ m.y.NoiseLevel = 1)]

\* Ciphertext::mult, multMutable: aligned, then both rescaled to degree 1.
Mult(a, b) ==
    Multiplied(RequireDegreeOne(
        IF Automatic THEN BothToDegreeOne(Meet(a, b))
        ELSE [x |-> Drop(a, b.level), y |-> b]))

\* The aligned operands of multPt: when the ciphertext moved onto a degree-1
\* plaintext that is all, else the plaintext moves and both go to degree 1.
MeetFactor(a, p) ==
    LET moved == CanAdjust(a, p)
        c == IF moved THEN AdjustCiphertext(a, p) ELSE a
    IN  IF moved /\ p.NoiseLevel = 1 THEN [x |-> ToDegreeOne(c), y |-> p]
        ELSE IF CanAdjust(p, c)
        THEN [x |-> ToDegreeOne(c), y |-> PtToDegreeOne(AdjustPlaintext(p, c))]
        ELSE [x |-> Thrown(c), y |-> p]

RequireShallow(m) ==
    [m EXCEPT !.x = Require(@, m.x.NoiseLevel < 2 /\ m.y.NoiseLevel < 2)]

\* Ciphertext::multPt; multPtMutable reduces the ciphertext first.
MultPt(a, p) ==
    Multiplied(RequireShallow(
        IF Automatic THEN MeetFactor(a, p) ELSE [x |-> a, y |-> p]))
MultPtMutable(a, p) == MultPt(IF Automatic THEN ToDegreeOne(a) ELSE a, p)

\* Ciphertext::square.
Square(a) ==
    LET c == IF Automatic THEN ToDegreeOne(a) ELSE a
        x == Require(c, c.NoiseLevel = 1)
    IN  [x |-> x, y |-> x, res |-> Product(x, x)]

\* Ciphertext::rescale: nothing to do unless the caller manages the levels.
Rescale(a) == IF Automatic THEN a ELSE RescaleInternal(a)
-----------------------------------------------------------------------------
(* The calls.  The caller multiplies only what has a level left and, under *)
(* FIXEDMANUAL, keeps the degrees equal and the plaintexts high enough.    *)

Did(op, a, b, m) ==
    last' = [op |-> op, a |-> a, b |-> b, x |-> m.x, y |-> m.y, res |-> m.res]

SameDegree(a, b) == Automatic \/ a.NoiseLevel = b.NoiseLevel
Spendable(a)     == Depth(a) >= 0 /\ (Automatic \/ a.NoiseLevel = 1)
HighEnough(p, a) == Automatic \/ a.level <= p.level

\* EvalAdd(ct1, ct2), EvalAddInPlace: r is the result's handle.
EvalAdd(r, i, j) ==
    LET m == Add(cts[i], cts[j])
    IN  /\ SameDegree(cts[i], cts[j])
        /\ cts' = [cts EXCEPT ![r] = m.res]
        /\ Did("sum", cts[i], cts[j], m)
        /\ UNCHANGED <<cc, pts>>

\* EvalAddMutable, EvalAddMutableInPlace: the second operand is adjusted in
\* place.
EvalAddMutable(r, i, j) ==
    LET m == Add(cts[i], cts[j])
    IN  /\ SameDegree(cts[i], cts[j])
        /\ cts' = [cts EXCEPT ![j] = m.y, ![r] = m.res]
        /\ Did("sum", cts[i], cts[j], m)
        /\ UNCHANGED <<cc, pts>>

\* EvalSub(ct1, ct2), EvalSubInPlace.
EvalSub(r, i, j) ==
    LET m == Sub(cts[i], cts[j])
    IN  /\ SameDegree(cts[i], cts[j])
        /\ cts' = [cts EXCEPT ![r] = m.res]
        /\ Did("sum", cts[i], cts[j], m)
        /\ UNCHANGED <<cc, pts>>

\* EvalSubMutable, EvalSubMutableInPlace.
EvalSubMutable(r, i, j) ==
    LET m == Sub(cts[i], cts[j])
    IN  /\ SameDegree(cts[i], cts[j])
        /\ cts' = [cts EXCEPT ![j] = m.y, ![r] = m.res]
        /\ Did("sum", cts[i], cts[j], m)
        /\ UNCHANGED <<cc, pts>>

\* EvalAdd(ct, pt), EvalSub(ct, pt), EvalSub(pt, ct) and their InPlace forms.
EvalAddPt(r, i, p) ==
    LET m == AddPt(cts[i], pts[p])
    IN  /\ SameDegree(cts[i], pts[p]) /\ HighEnough(pts[p], cts[i])
        /\ cts' = [cts EXCEPT ![r] = m.res]
        /\ Did("sum", cts[i], pts[p], m)
        /\ UNCHANGED <<cc, pts>>

\* EvalAddMutable(ct, pt), EvalSubMutable(ct, pt).
EvalAddPtMutable(r, i, p) ==
    LET m == AddPt(cts[i], pts[p])
    IN  /\ SameDegree(cts[i], pts[p]) /\ HighEnough(pts[p], cts[i])
        /\ cts' = [cts EXCEPT ![r] = m.res]
        /\ pts' = [pts EXCEPT ![p] = m.y]
        /\ Did("sum", cts[i], pts[p], m)
        /\ UNCHANGED cc

\* EvalMult(ct1, ct2), operator*.
EvalMult(r, i, j) ==
    LET m == Mult(cts[i], cts[j])
    IN  /\ Spendable(cts[i]) /\ Spendable(cts[j])
        /\ cts' = [cts EXCEPT ![r] = m.res]
        /\ Did("product", cts[i], cts[j], m)
        /\ UNCHANGED <<cc, pts>>

\* EvalMultMutable, EvalMultMutableInPlace.  In place and on twice the same
\* ciphertext the code rescales it twice: callers square instead.
EvalMultMutable(r, i, j) ==
    LET m == Mult(cts[i], cts[j])
    IN  /\ r = i => i # j
        /\ Spendable(cts[i]) /\ Spendable(cts[j])
        /\ cts' = [cts EXCEPT ![j] = m.y, ![r] = m.res]
        /\ Did("product", cts[i], cts[j], m)
        /\ UNCHANGED <<cc, pts>>

\* EvalMult(ct, pt), EvalMultInPlace.
EvalMultPt(r, i, p) ==
    LET m == MultPt(cts[i], pts[p])
    IN  /\ Spendable(cts[i]) /\ Spendable(pts[p]) /\ HighEnough(pts[p], cts[i])
        /\ cts' = [cts EXCEPT ![r] = m.res]
        /\ Did("product", cts[i], pts[p], m)
        /\ UNCHANGED <<cc, pts>>

\* EvalMultMutable(ct, pt).
EvalMultPtMutable(r, i, p) ==
    LET m == MultPtMutable(cts[i], pts[p])
    IN  /\ Spendable(cts[i]) /\ Spendable(pts[p]) /\ HighEnough(pts[p], cts[i])
        /\ cts' = [cts EXCEPT ![r] = m.res]
        /\ pts' = [pts EXCEPT ![p] = m.y]
        /\ Did("product", cts[i], pts[p], m)
        /\ UNCHANGED cc

\* EvalSquare, EvalSquareInPlace.
EvalSquare(r, i) ==
    LET m == Square(cts[i])
    IN  /\ Spendable(cts[i])
        /\ cts' = [cts EXCEPT ![r] = m.res]
        /\ Did("product", cts[i], cts[i], m)
        /\ UNCHANGED <<cc, pts>>

\* EvalMult(ct, scalar), EvalMultInPlace: the constant carries SF of its level.
EvalMultScalar(r, i) ==
    LET res == MultScalar(cts[i])
    IN  /\ Spendable(cts[i])
        /\ cts' = [cts EXCEPT ![r] = res]
        /\ Did("scalar", cts[i], cts[i], [x |-> res, y |-> res, res |-> res])
        /\ UNCHANGED <<cc, pts>>

\* Rescale.
EvalRescale(r, i) ==
    LET res == Rescale(cts[i])
    IN  /\ cts[i].NoiseLevel = 2
        /\ cts' = [cts EXCEPT ![r] = res]
        /\ Did("rescale", cts[i], cts[i], [x |-> res, y |-> res, res |-> res])
        /\ UNCHANGED <<cc, pts>>

\* RescaleInPlace: whatever the technique.
RescaleInPlace(i) ==
    LET res == RescaleInternal(cts[i])
    IN  /\ cts[i].NoiseLevel = 2
        /\ cts' = [cts EXCEPT ![i] = res]
        /\ Did("rescaleInPlace", cts[i], cts[i], [x |-> res, y |-> res, res |-> res])
        /\ UNCHANGED <<cc, pts>>

\* SetLevel: a drop of towers, data and factor kept.  Under FLEXIBLEAUTO the factor
\* is then not the one of the level, and the next addition trips an assertion
\* (OpenFheCompatTests.cu, 4097): left out, with what comes of it.
SetLevel(i, l) ==
    LET res == Drop(cts[i], l)
    IN  /\ ~Flexible
        /\ Fits(res)
        /\ cts' = [cts EXCEPT ![i] = res]
        /\ Did("setLevel", cts[i], cts[i], [x |-> res, y |-> res, res |-> res])
        /\ UNCHANGED <<cc, pts>>

Next ==
    \/ \E r, i, j \in Ct :
          \/ EvalAdd(r, i, j)  \/ EvalAddMutable(r, i, j)
          \/ EvalSub(r, i, j)  \/ EvalSubMutable(r, i, j)
          \/ EvalMult(r, i, j) \/ EvalMultMutable(r, i, j)
    \/ \E r, i \in Ct : \E p \in Pt :
          \/ EvalAddPt(r, i, p)  \/ EvalAddPtMutable(r, i, p)
          \/ EvalMultPt(r, i, p) \/ EvalMultPtMutable(r, i, p)
    \/ \E r, i \in Ct :
          EvalSquare(r, i) \/ EvalMultScalar(r, i) \/ EvalRescale(r, i)
    \/ \E i \in Ct : RescaleInPlace(i)
    \/ \E i \in Ct : \E l \in 0..L : SetLevel(i, l)

Spec == Init /\ [][Next]_vars
-----------------------------------------------------------------------------
Current == {cts[i] : i \in Ct} \cup {pts[p] : p \in Pt}

\* Every handle holds an operand of the context: a level of the chain, degree 1
\* or 2, and never degree 2 on the last prime alone.
TypeOK ==
    /\ cc \in Contexts
    /\ cts \in [Ct -> Operand] /\ pts \in [Pt -> Operand]
    /\ \A c \in Current : Fits(c)

\* No call ends in throwAdjustFailure, takes the last prime away, or combines
\* operands of degrees and levels that it asserts are others: between any two
\* operands the caller may combine, one of the two can always be brought to the
\* other.  The comment over throwAdjustFailure says that this "can legitimately
\* fail, e.g. a plaintext with fewer RNS limbs than the ciphertext or a
\* NoiseLevel-2 plaintext at the ciphertext's level" (Ciphertext.cpp, 28-30): the
\* operations move the plaintext, or reduce the ciphertext, in these cases.  Not
\* said here, since it is not so: that a factor is == the one of the table
\* (FactorRounding), and that a manual addition has no tower to drop (276, 316).
CallsComplete == (\A c \in Current : c.ok) /\ last.x.ok /\ last.y.ok

\* The NoiseFactor an operand records is the factor its data carry after all the
\* scalar multiplications, rescales and drops that brought it there, and it is
\* the one its level and degree call for, which decryption divides by.
ScaleHonest ==
    \A c \in Current : /\ c.NoiseFactor = c.scale
                       /\ c.scale = Table(c.level, c.NoiseLevel)

\* Data are added only at one degree and one scale, and multiplied only at
\* degree 1; under the AUTO techniques at one level, too.
OperandsMeet ==
    last.op \in {"sum", "product"} =>
        /\ last.x.NoiseLevel = last.y.NoiseLevel
        /\ last.x.scale = last.y.scale \/ last.op = "product"
        /\ last.op = "product" => last.x.NoiseLevel = 1
        /\ Automatic => last.x.level = last.y.level

\* Aligning operands costs nothing: a sum has as many multiplications left as
\* the poorer operand had, a product one less, and what a mutable call leaves
\* in its second operand no less than the poorer one had.
DepthExact ==
    LET least == MinOf(Depth(last.a), Depth(last.b))
    IN  /\ last.op = "sum" /\ Automatic =>
              Depth(last.res) = least /\ Depth(last.y) = least
        /\ last.op = "product" /\ Automatic =>
              Depth(last.res) = least - 1 /\ Depth(last.y) = least
        /\ last.op = "scalar" => Depth(last.res) = least - 1
=============================================================================
