--------------------------- MODULE OperationProofs ---------------------------
(***************************************************************************)
(* What any sequence of operations keeps, on ciphertexts and on the        *)
(* polynomials they are made of.                                           *)
(*                                                                         *)
(* Levels, degrees and factors are right for every chain of levels, every  *)
(* set of factor tables that fits it and every number of operands.         *)
(*                                                                         *)
(* Whatever the partitions, the streams, the digits and the number of      *)
(* calls, no sequence of the functions of LimbDiscipline lets two kernels  *)
(* race.  Three facts carry the proof: a launch that is Ready races with   *)
(* nothing and leaves what it Learned (LaunchLearns); a function that has  *)
(* a certificate can be called at any time (CallDisciplineInv); every      *)
(* function has one (FunctionsDisciplined).                                *)
(*                                                                         *)
(* Rotations ask only for listed keys, and sums of slots are right, for    *)
(* every number of slots, rows, steps, strides, taps and stages.  Each round *)
(* of a sum takes what the ciphertext has from one place and nothing wraps *)
(* around (RoundSource), so it leaves every multiple below the next factor *)
(* once (RoundAdds), or the copies (LastRoundCopies).                      *)
(***************************************************************************)
EXTENDS CiphertextLevels, LimbDiscipline, LinearTransforms, ListLemmas, TLAPS

-----------------------------------------------------------------------------
(* The elementary steps, on an operand given by its parts.                 *)

\* No assertion failed.  A name, so that the provers meet no truth value among
\* the fields of a record.
Yes == TRUE

\* An operand given by its parts, no assertion failed.
Rec(l, n, nf, sc) ==
    [level |-> l, NoiseLevel |-> n, NoiseFactor |-> nf, scale |-> sc,
     ok |-> Yes]

\* The parts of an operand.
LEMMA Parts ==
    ASSUME NEW l, NEW n, NEW nf, NEW sc
    PROVE  /\ Rec(l, n, nf, sc).level = l
           /\ Rec(l, n, nf, sc).NoiseLevel = n
           /\ Rec(l, n, nf, sc).NoiseFactor = nf
           /\ Rec(l, n, nf, sc).scale = sc
           /\ Rec(l, n, nf, sc).ok = Yes
BY DEF Rec

\* An assertion that holds changes nothing.
LEMMA RequireRec ==
    ASSUME NEW l, NEW n, NEW nf, NEW sc, NEW p, p
    PROVE  Require(Rec(l, n, nf, sc), p) = Rec(l, n, nf, sc)
<1> DEFINE c == Rec(l, n, nf, sc)
<1>1. c.ok = Yes
  BY Parts
<1>2. (c.ok /\ p) = Yes
  BY <1>1 DEF Yes
<1>3. Require(c, p) = [c EXCEPT !.ok = Yes]
  BY <1>2 DEF Require
<1> QED BY <1>3 DEF Rec

\* A stamp replaces the recorded factor and nothing else.
LEMMA StampRec ==
    ASSUME NEW l, NEW n, NEW nf, NEW sc, NEW v
    PROVE  Stamp(Rec(l, n, nf, sc), v) = Rec(l, n, v, sc)
BY DEF Stamp, Rec

\* A drop of towers replaces the level and nothing else.
LEMMA DropRec ==
    ASSUME NEW l \in Int, NEW n, NEW nf, NEW sc, NEW m \in Int
    PROVE  Drop(Rec(l, n, nf, sc), m) = Rec(MinOf(l, m), n, nf, sc)
BY DEF Drop, Rec

\* A multiplication by a constant, part by part.
LEMMA MultRec ==
    ASSUME NEW l, NEW n, NEW nf, NEW sc, NEW f, NEW n2, NEW nf2, NEW sc2,
           n2 = n + 1, nf2 = nf + SF(l), sc2 = sc + f + SF(l)
    PROVE  MultScalarNoPrecheck(Rec(l, n, nf, sc), f) = Rec(l, n2, nf2, sc2)
<1> DEFINE c == Rec(l, n, nf, sc)
<1>1. c.level = l /\ c.NoiseLevel = n /\ c.NoiseFactor = nf /\ c.scale = sc
  BY Parts
<1>2. MultScalarNoPrecheck(c, f) = [c EXCEPT !.NoiseLevel = n2,
                                             !.NoiseFactor = nf2,
                                             !.scale = sc2]
  BY <1>1 DEF MultScalarNoPrecheck
<1> QED BY <1>2 DEF Rec

\* The loss of the last prime, part by part.
LEMMA RescaledRec ==
    ASSUME NEW l, NEW n, NEW nf, NEW sc, NEW l2, NEW n2, NEW nf2, NEW sc2,
           l2 = l - 1, n2 = n - 1, nf2 = nf - Q(l), sc2 = sc - Q(l)
    PROVE  Rescaled(Rec(l, n, nf, sc)) = Rec(l2, n2, nf2, sc2)
<1> DEFINE c == Rec(l, n, nf, sc)
<1>1. c.level = l /\ c.NoiseLevel = n /\ c.NoiseFactor = nf /\ c.scale = sc
  BY Parts
<1>2. Rescaled(c) = [[[[c EXCEPT !.level = l2] EXCEPT !.NoiseLevel = n2]
                        EXCEPT !.NoiseFactor = nf2] EXCEPT !.scale = sc2]
  BY <1>1 DEF Rescaled
<1> DEFINE r1 == Rec(l2, n, nf, sc)
           r2 == Rec(l2, n2, nf, sc)
           r3 == Rec(l2, n2, nf2, sc)
           r4 == Rec(l2, n2, nf2, sc2)
<1>3. [c EXCEPT !.level = l2] = r1
  BY DEF Rec
<1>4. [r1 EXCEPT !.NoiseLevel = n2] = r2
  BY DEF Rec
<1>5. [r2 EXCEPT !.NoiseFactor = nf2] = r3
  BY DEF Rec
<1>6. [r3 EXCEPT !.scale = sc2] = r4
  BY DEF Rec
<1> HIDE DEF c, r1, r2, r3, r4
<1>7. Rescaled(c) = r4
  BY <1>2, <1>3, <1>4, <1>5, <1>6
<1> QED BY <1>7 DEF c, r4

\* Ciphertext::rescaleInternal, where there is a prime to take.
LEMMA RescaleRec ==
    ASSUME NEW l, NEW n, NEW nf, NEW sc, NEW l2, NEW n2, NEW nf2, NEW sc2,
           l2 = l - 1, n2 = n - 1, nf2 = nf - Q(l), sc2 = sc - Q(l),
           l > 0
    PROVE  RescaleInternal(Rec(l, n, nf, sc)) = Rec(l2, n2, nf2, sc2)
<1> DEFINE c == Rec(l, n, nf, sc)
           e == Rec(l2, n2, nf2, sc2)
<1>2. Rescaled(c) = e
  BY RescaledRec
<1>1. c.level > 0
  BY Parts
<1>3. Require(c, c.level > 0) = c
  BY <1>1, RequireRec
<1> QED BY <1>2, <1>3 DEF RescaleInternal

\* raiseDegreeToLevel, part by part.
LEMMA RaiseRec ==
    ASSUME NEW l, NEW n, NEW nf, NEW sc, NEW n2, NEW nf2, NEW sc2,
           n2 = n + 1, nf2 = nf + SF(l), sc2 = sc + SF(l)
    PROVE  RaiseDegree(Rec(l, n, nf, sc)) = Rec(l, n2, nf2, sc2)
<1> DEFINE c == Rec(l, n, nf, sc)
<1>1. c.level = l /\ c.NoiseLevel = n /\ c.NoiseFactor = nf /\ c.scale = sc
  BY Parts
<1>2. RaiseDegree(c) = [c EXCEPT !.NoiseLevel = n2,
                                 !.NoiseFactor = nf2,
                                 !.scale = sc2]
  BY <1>1 DEF RaiseDegree
<1> QED BY <1>2 DEF Rec

\* Plaintext::rescale, where the assertion it begins with holds.
LEMMA PtRescaleRec ==
    ASSUME NEW l, NEW n, NEW nf, NEW sc, NEW l2, NEW n2, NEW nf2, NEW sc2,
           l2 = l - 1, n2 = n - 1, nf2 = nf - Q(l), sc2 = sc - Q(l),
           l > 0, n >= 2
    PROVE  PtRescale(Rec(l, n, nf, sc)) = Rec(l2, n2, nf2, sc2)
<1> DEFINE c == Rec(l, n, nf, sc)
           e == Rec(l2, n2, nf2, sc2)
<1>1. Rescaled(c) = e
  BY RescaledRec
<1>2. PtRescale(c) = Require(e, l > 0 /\ n >= 2)
  BY Parts, <1>1 DEF PtRescale
<1>3. Require(e, l > 0 /\ n >= 2) = e
  BY RequireRec
<1> QED BY <1>2, <1>3

-----------------------------------------------------------------------------
(* Operands as encoding makes them: level l, degree n, the factor of the   *)
(* tables.                                                                 *)

\* The parts of an operand as encoding makes it.
LEMMA EncodedRec ==
    ASSUME NEW l, NEW n
    PROVE  Encoded(l, n) = Rec(l, n, Table(l, n), Table(l, n))
BY DEF Encoded, Rec, Yes

\* The same, field by field.
LEMMA EncodedParts ==
    ASSUME NEW l, NEW n
    PROVE  /\ Encoded(l, n).level = l
           /\ Encoded(l, n).NoiseLevel = n
           /\ Encoded(l, n).NoiseFactor = Table(l, n)
           /\ Encoded(l, n).scale = Table(l, n)
BY DEF Encoded

\* No assertion has failed of it.
LEMMA EncodedOk ==
    ASSUME NEW l, NEW n
    PROVE  Encoded(l, n).ok
BY DEF Encoded

\* The tables are integers, and a rescale leads from one to the next.
LEMMA Tables ==
    ASSUME cc \in Contexts
    PROVE  /\ \A l \in 0..L : SF(l) \in Int /\ Q(l) \in Int
           /\ \A l \in 1..L : SF(l - 1) + Q(l) = 2 * SF(l)
           /\ ~Flexible => \A l \in 0..L : SF(l) = SF(0)
BY ContextAssumption DEF SF, Q, Flexible

\* Rescaling a degree-2 operand gives the degree-1 operand one level below.
LEMMA RescaleEncoded ==
    ASSUME cc \in Contexts, NEW l \in 1..L
    PROVE  RescaleInternal(Encoded(l, 2)) = Encoded(l - 1, 1)
<1>1. /\ l \in 0..L /\ l - 1 \in 0..L /\ l > 0
      /\ SF(l) \in Int /\ SF(l - 1) \in Int /\ Q(l) \in Int
      /\ SF(l - 1) + Q(l) = 2 * SF(l)
  BY Tables, ContextAssumption
<1>2. Table(l, 2) = 2 * SF(l) /\ Table(l - 1, 1) = SF(l - 1)
  BY DEF Table, Big
<1>3. Table(l - 1, 1) = Table(l, 2) - Q(l)
  BY <1>1, <1>2
<1>4. RescaleInternal(Rec(l, 2, Table(l, 2), Table(l, 2)))
        = Rec(l - 1, 1, Table(l - 1, 1), Table(l - 1, 1))
  BY <1>1, <1>3, RescaleRec
<1> QED BY <1>4, EncodedRec

\* A degree-2 plaintext rescales to the degree-1 one a level below.
LEMMA PtRescaleEncoded ==
    ASSUME cc \in Contexts, NEW l \in 1..L
    PROVE  PtRescale(Encoded(l, 2)) = Encoded(l - 1, 1)
<1>1. /\ l \in 0..L /\ l - 1 \in 0..L /\ l > 0
      /\ SF(l) \in Int /\ SF(l - 1) \in Int /\ Q(l) \in Int
      /\ SF(l - 1) + Q(l) = 2 * SF(l)
  BY Tables, ContextAssumption
<1>2. Table(l, 2) = 2 * SF(l) /\ Table(l - 1, 1) = SF(l - 1)
  BY DEF Table, Big
<1>3. Table(l - 1, 1) = Table(l, 2) - Q(l)
  BY <1>1, <1>2
<1>4. PtRescale(Rec(l, 2, Table(l, 2), Table(l, 2)))
        = Rec(l - 1, 1, Table(l - 1, 1), Table(l - 1, 1))
  BY <1>1, <1>3, PtRescaleRec
<1> QED BY <1>4, EncodedRec

\* Dropping towers keeps the factor: where all levels have the same one, the
\* operand stays as encoding would have made it.
LEMMA DropEncoded ==
    ASSUME cc \in Contexts, ~Flexible,
           NEW l \in 0..L, NEW n \in 1..2, NEW m \in 0..L
    PROVE  Drop(Encoded(l, n), m) = Encoded(MinOf(l, m), n)
<1>1. MinOf(l, m) \in 0..L
  BY DEF MinOf
<1>2. SF(l) = SF(MinOf(l, m))
  BY <1>1, Tables
<1>3. Table(l, n) = Table(MinOf(l, m), n)
  BY <1>2 DEF Table, Big
<1>4. Drop(Rec(l, n, Table(l, n), Table(l, n)), m)
        = Rec(MinOf(l, m), n, Table(l, n), Table(l, n))
  BY ContextAssumption, DropRec
<1> QED BY <1>3, <1>4, EncodedRec

\* Multiplying a degree-1 operand by a constant at its own scale.
LEMMA MultEncoded ==
    ASSUME cc \in Contexts, NEW l \in 0..L
    PROVE  /\ MultScalarNoPrecheck(Encoded(l, 1), 0) = Encoded(l, 2)
           /\ RaiseDegree(Encoded(l, 1)) = Encoded(l, 2)
<1>1. SF(l) \in Int
  BY Tables
<1>2. /\ Table(l, 1) = SF(l) /\ Table(l, 2) = 2 * SF(l)
  BY DEF Table, Big
<1>3. /\ Table(l, 2) = Table(l, 1) + SF(l)
      /\ Table(l, 2) = Table(l, 1) + 0 + SF(l)
  BY <1>1, <1>2
<1>4. /\ MultScalarNoPrecheck(Rec(l, 1, Table(l, 1), Table(l, 1)), 0)
           = Rec(l, 2, Table(l, 2), Table(l, 2))
  BY <1>3, MultRec
<1>5. RaiseDegree(Rec(l, 1, Table(l, 1), Table(l, 1)))
        = Rec(l, 2, Table(l, 2), Table(l, 2))
  BY <1>3, RaiseRec
<1> QED BY <1>4, <1>5, EncodedRec

\* An assertion that holds of an operand changes nothing.
LEMMA OkStays ==
    ASSUME NEW l, NEW n
    PROVE  /\ Encoded(l, n).ok = Yes
           /\ [Encoded(l, n) EXCEPT !.ok = Yes] = Encoded(l, n)
<1>1. [Rec(l, n, Table(l, n), Table(l, n)) EXCEPT !.ok = Yes]
        = Rec(l, n, Table(l, n), Table(l, n))
  BY DEF Rec
<1> QED BY <1>1, EncodedRec, EncodedOk DEF Yes

-----------------------------------------------------------------------------
(* adjustScaleAndLevel, technique by technique: the higher operand becomes *)
(* what encoding at the lower one's level and degree would have made.      *)

\* adjustScaleAndLevel under FIXEDAUTO meets its target.
LEMMA LowerFixedSound ==
    ASSUME cc \in Contexts, ~Flexible,
           NEW l \in 0..L, NEW n \in 1..2, NEW m \in 0..L, NEW k \in 1..2,
           m < l \/ (m = l /\ n <= k)
    PROVE  /\ LowerFixed(Encoded(l, n), Encoded(m, k)) = Encoded(m, k)
           /\ PtLowerFixed(Encoded(l, n), Encoded(m, k)) = Encoded(m, k)
<1> DEFINE c == Encoded(l, n)
           o == Encoded(m, k)
<1>1. /\ c.level = l /\ c.NoiseLevel = n
      /\ o.level = m /\ o.NoiseLevel = k
  BY EncodedParts
<1>2. MinOf(l, m) = m
  BY ContextAssumption DEF MinOf
<1>3. CASE n = k
  <2>1. Drop(c, m) = o
    BY <1>2, <1>3, DropEncoded
  <2> QED BY <1>1, <1>3, <2>1 DEF LowerFixed, PtLowerFixed
<1>4. CASE n < k
  <2>1. n = 1 /\ k = 2
    BY <1>4
  <2>2. RaiseDegree(c) = Encoded(l, 2)
    BY <2>1, MultEncoded
  <2>3. Drop(Encoded(l, 2), m) = o
    BY <1>2, <2>1, DropEncoded
  <2>4. n # k
    BY <2>1
  <2> QED BY <1>1, <1>4, <2>2, <2>3, <2>4 DEF LowerFixed, PtLowerFixed
<1>5. CASE k < n
  <2>1. n = 2 /\ k = 1 /\ l \in 1..L /\ l - 1 \in 0..L
    BY <1>5, ContextAssumption
  <2>2. RescaleInternal(c) = Encoded(l - 1, 1) /\ PtRescale(c) = Encoded(l - 1, 1)
    BY <2>1, RescaleEncoded, PtRescaleEncoded
  <2>3. MinOf(l - 1, m) = m
    BY <2>1, <1>5, ContextAssumption DEF MinOf
  <2>4. Drop(Encoded(l - 1, 1), m) = o
    BY <2>1, <2>3, DropEncoded
  <2>5. n # k /\ ~(n < k)
    BY <2>1
  <2> QED BY <1>1, <2>2, <2>4, <2>5 DEF LowerFixed, PtLowerFixed
<1> QED BY <1>3, <1>4, <1>5

\* The assertion a moved plaintext ends in.
LEMMA SettledRec ==
    ASSUME NEW l, NEW n, NEW nf, NEW sc, NEW f, NEW o, nf + f = o.NoiseFactor
    PROVE  PtSettled(Rec(l, n, nf, sc), f, o) = Rec(l, n, o.NoiseFactor, sc)
<1> DEFINE y == Rec(l, n, nf, sc)
<1>1. y.NoiseFactor = nf
  BY Parts
<1>2. Require(y, nf + f = o.NoiseFactor) = y
  <2>1. (y.ok /\ nf + f = o.NoiseFactor) = Yes
    BY Parts DEF Yes
  <2>2. Require(y, nf + f = o.NoiseFactor) = [y EXCEPT !.ok = Yes]
    BY <2>1 DEF Require
  <2> QED BY <2>2 DEF Rec
<1>3. PtSettled(y, f, o) = Stamp(y, o.NoiseFactor)
  BY <1>1, <1>2 DEF PtSettled
<1> QED BY <1>3, StampRec

\* FLEXIBLEAUTO, from degree 2 to degree 2: the correction by o's factor and the
\* prime lost in the rescale cancel, whatever the levels.
LEMMA DeepToDeep ==
    ASSUME cc \in Contexts, NEW l \in 1..L, NEW m \in 0..L, m < l
    PROVE  /\ LowerDeepToDeep(Encoded(l, 2), Encoded(m, 2)) = Encoded(m, 2)
           /\ PtLowerDeepToDeep(Encoded(l, 2), Encoded(m, 2)) = Encoded(m, 2)
<1> DEFINE c == Encoded(l, 2)
           o == Encoded(m, 2)
           f == CorrectionQ(c, Big(m))
           B == Big(l)
           D == Big(m)
           nf3 == B + SF(l)
           sc3 == D + Q(l)
           pre == Big(l - 1) + Q(l)
           low == nf3 - Q(l)
<1>1. /\ l \in 0..L /\ l - 1 \in 0..L /\ l \in Int /\ m \in Int /\ l > 0
      /\ SF(l) \in Int /\ SF(l - 1) \in Int /\ Q(l) \in Int /\ SF(m) \in Int
  BY Tables, ContextAssumption
<1>2. B \in Int /\ D \in Int /\ Big(l - 1) \in Int
  BY <1>1 DEF Big
<1>3. /\ c.level = l /\ c.NoiseLevel = 2 /\ c.NoiseFactor = B
      /\ o.level = m /\ o.NoiseLevel = 2 /\ o.NoiseFactor = D
      /\ c = Rec(l, 2, B, B) /\ o = Rec(m, 2, D, D)
  BY EncodedParts, EncodedRec DEF Table
<1>4. f = D - B + Q(l) - SF(l)
  BY <1>3 DEF CorrectionQ
<1>5. MultScalarNoPrecheck(c, f) = Rec(l, 3, nf3, sc3)
  <2>1. 3 = 2 + 1 /\ sc3 = B + f + SF(l)
    BY <1>1, <1>2, <1>4
  <2> HIDE DEF f, sc3, nf3
  <2>2. nf3 = B + SF(l)
    BY DEF nf3
  <2>3. MultScalarNoPrecheck(Rec(l, 2, B, B), f) = Rec(l, 3, nf3, sc3)
    BY <2>1, <2>2, MultRec
  <2> QED BY <1>3, <2>3
<1>6. MinOf(l - 1, m) = m
  BY <1>1 DEF MinOf
<1>7. LowerDeepToDeep(c, o) = o
  <2>1. Stamp(Rec(l, 3, nf3, sc3), pre) = Rec(l, 3, pre, sc3)
    BY StampRec
  <2>2. RescaleInternal(Rec(l, 3, pre, sc3)) = Rec(l - 1, 2, Big(l - 1), D)
    <3>1. /\ Big(l - 1) = pre - Q(l) /\ D = sc3 - Q(l) /\ 2 = 3 - 1
          /\ Big(l - 1) = Table(l - 1, 2)
      BY <1>1, <1>2 DEF Table
    <3> HIDE DEF pre, sc3, D
    <3> QED BY <3>1, <1>1, RescaleRec
  <2>3. Drop(Rec(l - 1, 2, Big(l - 1), D), m) = Rec(m, 2, Big(l - 1), D)
    BY <1>1, <1>6, DropRec
  <2>4. Stamp(Rec(m, 2, Big(l - 1), D), D) = o
    BY <1>3, StampRec
  <2> QED BY <1>3, <1>5, <2>1, <2>2, <2>3, <2>4 DEF LowerDeepToDeep
<1>8. PtLowerDeepToDeep(c, o) = o
  <2>1. PtRescale(Rec(l, 3, nf3, sc3)) = Rec(l - 1, 2, low, D)
    <3>1. low = nf3 - Q(l) /\ D = sc3 - Q(l) /\ 2 = 3 - 1 /\ 3 >= 2
      BY <1>1, <1>2
    <3> HIDE DEF low, nf3, sc3, D
    <3> QED BY <3>1, <1>1, PtRescaleRec
  <2>2. Drop(Rec(l - 1, 2, low, D), m) = Rec(m, 2, low, D)
    BY <1>1, <1>6, DropRec
  <2>3. low + f = D
    BY <1>1, <1>2, <1>4
  <2>4. PtSettled(Rec(m, 2, low, D), f, o) = o
    <3> HIDE DEF low, f, D, o
    <3> QED BY <1>3, <2>3, SettledRec
  <2> QED BY <1>3, <1>5, <2>1, <2>2, <2>4 DEF PtLowerDeepToDeep
<1> QED BY <1>7, <1>8

\* FLEXIBLEAUTO, from degree 1 to degree 2, with the assertion on the factor.
LEMMA ShallowToDeep ==
    ASSUME cc \in Contexts, NEW l \in 1..L, NEW m \in 0..L, m < l
    PROVE  LowerShallowToDeep(Encoded(l, 1), Encoded(m, 2)) = Encoded(m, 2)
<1> DEFINE c == Encoded(l, 1)
           o == Encoded(m, 2)
           f == Correction(c, Big(m))
           S == SF(l)
           D == Big(m)
           nf2 == S + S
<1>1. /\ l \in 0..L /\ l \in Int /\ m \in Int /\ S \in Int /\ SF(m) \in Int
  BY Tables, ContextAssumption
<1>2. D \in Int
  BY <1>1 DEF Big
<1>3. /\ c.level = l /\ c.NoiseLevel = 1 /\ c.NoiseFactor = S
      /\ o.level = m /\ o.NoiseLevel = 2 /\ o.NoiseFactor = D
      /\ c = Rec(l, 1, S, S) /\ o = Rec(m, 2, D, D)
  BY EncodedParts, EncodedRec DEF Table
<1>4. f = D - S - S
  BY <1>3 DEF Correction
<1>5. MultScalarNoPrecheck(c, f) = Rec(l, 2, nf2, D)
  <2>1. 2 = 1 + 1 /\ D = S + f + SF(l)
    BY <1>1, <1>2, <1>4
  <2> HIDE DEF f, nf2, S, D
  <2>2. nf2 = S + SF(l)
    BY DEF nf2, S
  <2>3. MultScalarNoPrecheck(Rec(l, 1, S, S), f) = Rec(l, 2, nf2, D)
    BY <2>1, <2>2, MultRec
  <2> QED BY <1>3, <2>3
<1>6. MinOf(l, m) = m
  BY <1>1 DEF MinOf
<1>7. Drop(Rec(l, 2, nf2, D), m) = Rec(m, 2, nf2, D)
  BY <1>1, <1>6, DropRec
<1>8. nf2 + f = o.NoiseFactor
  BY <1>1, <1>2, <1>3, <1>4
<1>9. PtSettled(Rec(m, 2, nf2, D), f, o) = o
  <2> HIDE DEF nf2, f, D, o
  <2> QED BY <1>3, <1>8, SettledRec
<1> QED BY <1>3, <1>5, <1>7, <1>9 DEF LowerShallowToDeep, PtSettled

\* FLEXIBLEAUTO, from degree 1 to degree 1, over a degree-2 operand a level
\* above the target.
LEMMA ShallowToShallow ==
    ASSUME cc \in Contexts, NEW l \in 1..L, NEW m \in 0..L, m < l
    PROVE  /\ LowerShallowToShallow(Encoded(l, 1), Encoded(m, 1)) = Encoded(m, 1)
           /\ PtLowerShallowToShallow(Encoded(l, 1), Encoded(m, 1)) = Encoded(m, 1)
<1> DEFINE c == Encoded(l, 1)
           o == Encoded(m, 1)
           f == Correction(c, Big(m + 1))
           S == SF(l)
           T == SF(m)
           D == Big(m + 1)
           nf2 == S + S
           low == nf2 - Q(m + 1)
<1>1. /\ l \in 0..L /\ l \in Int /\ m \in Int /\ m + 1 \in 1..L /\ m + 1 \in 0..L
      /\ m + 1 \in Int
      /\ S \in Int /\ T \in Int /\ SF(m + 1) \in Int /\ Q(m + 1) \in Int
  BY Tables, ContextAssumption
<1>2. D \in Int /\ T + Q(m + 1) = D
  <2>1. SF((m + 1) - 1) + Q(m + 1) = 2 * SF(m + 1)
    BY <1>1, Tables
  <2>2. (m + 1) - 1 = m
    BY <1>1
  <2> QED BY <1>1, <2>1, <2>2 DEF Big
<1>3. /\ c.level = l /\ c.NoiseLevel = 1 /\ c.NoiseFactor = S
      /\ o.level = m /\ o.NoiseLevel = 1 /\ o.NoiseFactor = T
      /\ c = Rec(l, 1, S, S) /\ o = Rec(m, 1, T, T)
  BY EncodedParts, EncodedRec DEF Table
<1>4. f = D - S - S
  BY <1>3 DEF Correction
<1>5. MultScalarNoPrecheck(c, f) = Rec(l, 2, nf2, D)
  <2>1. 2 = 1 + 1 /\ D = S + f + SF(l)
    BY <1>1, <1>2, <1>4
  <2> HIDE DEF f, nf2, S, D
  <2>2. nf2 = S + SF(l)
    BY DEF nf2, S
  <2>3. MultScalarNoPrecheck(Rec(l, 1, S, S), f) = Rec(l, 2, nf2, D)
    BY <2>1, <2>2, MultRec
  <2> QED BY <1>3, <2>3
<1>6. MinOf(l, m + 1) = m + 1
  BY <1>1 DEF MinOf
<1>7. Drop(Rec(l, 2, nf2, D), m + 1) = Rec(m + 1, 2, nf2, D)
  BY <1>1, <1>6, DropRec
<1>8. LowerShallowToShallow(c, o) = o
  <2>1. Rec(m + 1, 2, nf2, D).NoiseFactor = nf2
    BY Parts
  <2>2. nf2 + f = D
    BY <1>1, <1>2, <1>4
  <2>3. Stamp(Rec(m + 1, 2, nf2, D), D) = Encoded(m + 1, 2)
    BY StampRec, EncodedRec DEF Table
  <2>4. RescaleInternal(Encoded(m + 1, 2)) = o
    <3>1. (m + 1) - 1 = m
      BY <1>1
    <3> QED BY <1>1, <3>1, RescaleEncoded
  <2>5. Stamp(o, o.NoiseFactor) = o
    BY <1>3, StampRec
  <2> HIDE DEF f, nf2, c, o
  <2> QED BY <1>3, <1>5, <1>7, <2>1, <2>2, <2>3, <2>4, <2>5
           DEF LowerShallowToShallow, f
<1>9. PtLowerShallowToShallow(c, o) = o
  <2>1. PtRescale(Rec(m + 1, 2, nf2, D)) = Rec(m, 1, low, T)
    <3>1. low = nf2 - Q(m + 1) /\ T = D - Q(m + 1) /\ 1 = 2 - 1 /\ 2 >= 2
          /\ m = (m + 1) - 1 /\ m + 1 > 0
      BY <1>1, <1>2
    <3> HIDE DEF low, nf2, D, T
    <3> QED BY <3>1, PtRescaleRec
  <2>2. low + f = o.NoiseFactor
    BY <1>1, <1>2, <1>3, <1>4
  <2>3. PtSettled(Rec(m, 1, low, T), f, o) = o
    <3> HIDE DEF low, f, T, o
    <3> QED BY <1>3, <2>2, SettledRec
  <2> QED BY <1>3, <1>5, <1>7, <2>1, <2>3 DEF PtLowerShallowToShallow
<1> QED BY <1>8, <1>9

\* FLEXIBLEAUTO, from degree 2 to degree 1: one rescale between neighbours, two
\* and a correction from further up.
LEMMA DeepToShallow ==
    ASSUME cc \in Contexts, NEW l \in 1..L, NEW m \in 0..L, m < l
    PROVE  /\ LowerDeepToShallow(Encoded(l, 2), Encoded(m, 1)) = Encoded(m, 1)
           /\ PtLowerDeepToShallow(Encoded(l, 2), Encoded(m, 1)) = Encoded(m, 1)
<1> DEFINE c == Encoded(l, 2)
           o == Encoded(m, 1)
           f == CorrectionQ(c, Big(m + 1))
           B == Big(l)
           T == SF(m)
           D == Big(m + 1)
           nf3 == B + SF(l)
           sc3 == D + Q(l)
           pre == Big(l - 1) + Q(l)
           low == nf3 - Q(l)
           low2 == low - Q(m + 1)
<1>1. /\ l \in 0..L /\ l - 1 \in 0..L /\ l \in Int /\ m \in Int /\ l > 0
      /\ m + 1 \in 1..L /\ m + 1 \in 0..L /\ m + 1 \in Int
      /\ SF(l) \in Int /\ SF(l - 1) \in Int /\ Q(l) \in Int /\ T \in Int
      /\ SF(m + 1) \in Int /\ Q(m + 1) \in Int
  BY Tables, ContextAssumption
<1>2. D \in Int /\ T + Q(m + 1) = D /\ B \in Int /\ Big(l - 1) \in Int
  <2>1. SF((m + 1) - 1) + Q(m + 1) = 2 * SF(m + 1)
    BY <1>1, Tables
  <2>2. (m + 1) - 1 = m
    BY <1>1
  <2> QED BY <1>1, <2>1, <2>2 DEF Big
<1>3. /\ c.level = l /\ c.NoiseLevel = 2 /\ c.NoiseFactor = B
      /\ o.level = m /\ o.NoiseLevel = 1 /\ o.NoiseFactor = T
      /\ c = Rec(l, 2, B, B) /\ o = Rec(m, 1, T, T)
  BY EncodedParts, EncodedRec DEF Table
<1>4. CASE l - 1 = m
  <2>1. RescaleInternal(c) = o /\ PtRescale(c) = o
    BY <1>4, RescaleEncoded, PtRescaleEncoded
  <2> QED BY <1>3, <1>4, <2>1 DEF LowerDeepToShallow, PtLowerDeepToShallow
<1>5. CASE l - 1 # m
  <2>1. f = D - B + Q(l) - SF(l)
    BY <1>3 DEF CorrectionQ
  <2>2. MultScalarNoPrecheck(c, f) = Rec(l, 3, nf3, sc3)
    <3>1. 3 = 2 + 1 /\ sc3 = B + f + SF(l)
      BY <1>1, <1>2, <2>1
    <3> HIDE DEF f, sc3, nf3
    <3>2. nf3 = B + SF(l)
      BY DEF nf3
    <3>3. MultScalarNoPrecheck(Rec(l, 2, B, B), f) = Rec(l, 3, nf3, sc3)
      BY <3>1, <3>2, MultRec
    <3> QED BY <1>3, <3>3
  <2>3. MinOf(l - 1, m + 1) = m + 1
    BY <1>1, <1>5 DEF MinOf
  <2>4. RescaleInternal(Encoded(m + 1, 2)) = o
    <3>1. (m + 1) - 1 = m
      BY <1>1
    <3> QED BY <1>1, <3>1, RescaleEncoded
  <2>5. LowerDeepToShallow(c, o) = o
    <3>1. Stamp(Rec(l, 3, nf3, sc3), pre) = Rec(l, 3, pre, sc3)
      BY StampRec
    <3>2. RescaleInternal(Rec(l, 3, pre, sc3)) = Rec(l - 1, 2, Big(l - 1), D)
      <4>1. /\ Big(l - 1) = pre - Q(l) /\ D = sc3 - Q(l) /\ 2 = 3 - 1
            /\ Big(l - 1) = Table(l - 1, 2)
        BY <1>1, <1>2 DEF Table
      <4> HIDE DEF pre, sc3, D
      <4> QED BY <4>1, <1>1, RescaleRec
    <3>3. Drop(Rec(l - 1, 2, Big(l - 1), D), m + 1) = Rec(m + 1, 2, Big(l - 1), D)
      BY <1>1, <2>3, DropRec
    <3>4. Rec(m + 1, 2, Big(l - 1), D).level = m + 1
      BY Parts
    <3>5. Stamp(Rec(m + 1, 2, Big(l - 1), D), D) = Encoded(m + 1, 2)
      BY StampRec, EncodedRec DEF Table
    <3>6. Stamp(o, o.NoiseFactor) = o
      BY <1>3, StampRec
    <3> HIDE DEF nf3, sc3, c, o
    <3> QED BY <1>3, <1>5, <2>2, <2>4, <3>1, <3>2, <3>3, <3>4, <3>5, <3>6
             DEF LowerDeepToShallow
  <2>6. PtLowerDeepToShallow(c, o) = o
    <3>1. PtRescale(Rec(l, 3, nf3, sc3)) = Rec(l - 1, 2, low, D)
      <4>1. low = nf3 - Q(l) /\ D = sc3 - Q(l) /\ 2 = 3 - 1 /\ 3 >= 2
        BY <1>1, <1>2
      <4> HIDE DEF low, nf3, sc3, D
      <4> QED BY <4>1, <1>1, PtRescaleRec
    <3>2. Drop(Rec(l - 1, 2, low, D), m + 1) = Rec(m + 1, 2, low, D)
      BY <1>1, <2>3, DropRec
    <3>3. PtRescale(Rec(m + 1, 2, low, D)) = Rec(m, 1, low2, T)
      <4>1. /\ low2 = low - Q(m + 1) /\ T = D - Q(m + 1) /\ 1 = 2 - 1 /\ 2 >= 2
            /\ m = (m + 1) - 1 /\ m + 1 > 0
        BY <1>1, <1>2
      <4> HIDE DEF low2, low, D, T
      <4> QED BY <4>1, PtRescaleRec
    <3>4. low2 + f = o.NoiseFactor
      BY <1>1, <1>2, <1>3, <2>1
    <3>5. PtSettled(Rec(m, 1, low2, T), f, o) = o
      <4> HIDE DEF low2, f, T, o
      <4> QED BY <1>3, <3>4, SettledRec
    <3> HIDE DEF nf3, sc3, low, low2, c, o
    <3> QED BY <1>3, <1>5, <2>2, <3>1, <3>2, <3>3, <3>5
             DEF PtLowerDeepToShallow
  <2> QED BY <2>5, <2>6
<1> QED BY <1>4, <1>5

\* Between equal levels only a degree is missing.
LEMMA LowerFlexibleSound ==
    ASSUME cc \in Contexts, Flexible,
           NEW l \in 0..L, NEW n \in 1..2, NEW m \in 0..L, NEW k \in 1..2,
           m < l \/ (m = l /\ n <= k)
    PROVE  /\ LowerFlexible(Encoded(l, n), Encoded(m, k)) = Encoded(m, k)
           /\ PtLowerFlexible(Encoded(l, n), Encoded(m, k)) = Encoded(m, k)
<1> DEFINE c == Encoded(l, n)
           o == Encoded(m, k)
<1>1. /\ c.level = l /\ c.NoiseLevel = n
      /\ o.level = m /\ o.NoiseLevel = k /\ o.NoiseFactor = Table(m, k)
  BY EncodedParts
<1> SUFFICES LowerFlexible(c, o) = o /\ PtLowerFlexible(c, o) = o
  OBVIOUS
<1> HIDE DEF c, o
<1>2. Automatic
  BY DEF Automatic, Flexible
<1>3. CASE m = l
  <2>1. CASE n = k
    <3>1. ~(n < k) /\ c = o
      BY <1>3, <2>1 DEF c, o
    <3> QED BY <1>1, <1>3, <3>1 DEF LowerFlexible, PtLowerFlexible
  <2>2. CASE n # k
    <3>1. n = 1 /\ k = 2 /\ n < k /\ n # 2
      BY <1>3, <2>2, ContextAssumption
    <3>2. MultScalarNoPrecheck(c, 0) = o
      BY <1>3, <3>1, MultEncoded DEF c, o
    <3>3. ToDegreeOne(c) = c
      BY <1>1, <3>1 DEF ToDegreeOne
    <3>4. Require(c, n = 1) = c
      <4>1. (c.ok /\ n = 1) = Yes
        BY <3>1, OkStays DEF c, Yes
      <4> QED BY <4>1, OkStays DEF Require, c
    <3>5. MultScalar(c) = o
      BY <1>1, <1>2, <3>2, <3>3, <3>4 DEF MultScalar
    <3> QED BY <1>1, <1>3, <3>1, <3>2, <3>5 DEF LowerFlexible, PtLowerFlexible
  <2> QED BY <2>1, <2>2
<1>4. CASE m # l
  <2>1. l \in 1..L /\ m < l
    BY <1>4, ContextAssumption
  <2>2. Require(o, o.NoiseFactor = Table(m, k)) = o
    <3>1. (o.ok /\ o.NoiseFactor = Table(m, k)) = Yes
      BY <1>1, OkStays DEF o, Yes
    <3> QED BY <3>1, OkStays DEF Require, o
  <2>3. CASE n = 2 /\ k = 2
    <3>1. LowerDeepToDeep(c, o) = o /\ PtLowerDeepToDeep(c, o) = o
      BY <2>1, <2>3, DeepToDeep DEF c, o
    <3> QED BY <1>1, <1>4, <2>2, <2>3, <3>1
        DEF LowerFlexible, PtLowerFlexible, OnTable
  <2>4. CASE n = 2 /\ k = 1
    <3>1. LowerDeepToShallow(c, o) = o /\ PtLowerDeepToShallow(c, o) = o
      BY <2>1, <2>4, DeepToShallow DEF c, o
    <3> QED BY <1>1, <1>4, <2>2, <2>4, <3>1
        DEF LowerFlexible, PtLowerFlexible, OnTable
  <2>5. CASE n = 1 /\ k = 2
    <3>1. LowerShallowToDeep(c, o) = o
      BY <2>1, <2>5, ShallowToDeep DEF c, o
    <3> QED BY <1>1, <1>4, <2>2, <2>5, <3>1
        DEF LowerFlexible, PtLowerFlexible, OnTable
  <2>6. CASE n = 1 /\ k = 1
    <3>1. LowerShallowToShallow(c, o) = o /\ PtLowerShallowToShallow(c, o) = o
      BY <2>1, <2>6, ShallowToShallow DEF c, o
    <3> QED BY <1>1, <1>4, <2>2, <2>6, <3>1
        DEF LowerFlexible, PtLowerFlexible, OnTable
  <2> QED BY <2>3, <2>4, <2>5, <2>6
<1> QED BY <1>3, <1>4

\* adjustScaleAndLevel does what its callers count on: the higher of two
\* operands, or of two at one level the one of no greater degree, becomes the
\* operand that encoding at the other's level and degree would have made.
THEOREM AdjustSound ==
    ASSUME cc \in Contexts,
           NEW l \in 0..L, NEW n \in 1..2, NEW m \in 0..L, NEW k \in 1..2,
           CanAdjust(Encoded(l, n), Encoded(m, k))
    PROVE  /\ AdjustCiphertext(Encoded(l, n), Encoded(m, k)) = Encoded(m, k)
           /\ AdjustPlaintext(Encoded(l, n), Encoded(m, k)) = Encoded(m, k)
<1> DEFINE c == Encoded(l, n)
           o == Encoded(m, k)
<1>1. m < l \/ (m = l /\ n <= k)
  BY EncodedParts, ContextAssumption DEF CanAdjust
<1>2. Require(c, o.NoiseFactor = Table(o.level, o.NoiseLevel)) = c
  <2>1. o.NoiseFactor = Table(o.level, o.NoiseLevel)
    BY EncodedParts
  <2>2. (c.ok /\ o.NoiseFactor = Table(o.level, o.NoiseLevel)) = Yes
    BY <2>1, OkStays DEF Yes
  <2> QED BY <2>2, OkStays DEF Require
<1> HIDE DEF c, o
<1>3. AdjustCiphertext(c, o) = IF Flexible THEN LowerFlexible(c, o)
                                           ELSE LowerFixed(c, o)
  BY <1>2 DEF AdjustCiphertext
<1>4. CASE Flexible
  BY <1>1, <1>3, <1>4, LowerFlexibleSound DEF AdjustPlaintext, c, o
<1>5. CASE ~Flexible
  BY <1>1, <1>3, <1>5, LowerFixedSound DEF AdjustPlaintext, c, o
<1> QED BY <1>4, <1>5

-----------------------------------------------------------------------------
(* Aligned operands.  Both are one operand z of the context that has as    *)
(* many multiplications left as the poorer of the two.                     *)

\* What the set of the context's operands holds.
LEMMA FreshForm ==
    ASSUME NEW c
    PROVE  c \in Fresh <=> \E l \in 0..L : \E n \in 1..2 :
                               n <= l + 1 /\ c = Encoded(l, n)
<1>1. ASSUME NEW l \in 0..L, NEW n \in 1..2, n <= l + 1
      PROVE  Encoded(l, n) \in Fresh
  <2>1. <<l, n>> \in {e \in (0..L) \X (1..2) : e[2] <= e[1] + 1}
    BY <1>1
  <2>2. <<l, n>>[1] = l /\ <<l, n>>[2] = n
    OBVIOUS
  <2> QED BY <2>1, <2>2 DEF Fresh
<1>2. ASSUME c \in Fresh
      PROVE  \E l \in 0..L : \E n \in 1..2 : n <= l + 1 /\ c = Encoded(l, n)
  BY <1>2 DEF Fresh
<1> QED BY <1>1, <1>2

\* The multiplications left to an operand of level l and degree n, less one.
LEMMA DepthEncoded ==
    ASSUME NEW l, NEW n
    PROVE  Depth(Encoded(l, n)) = l - n
BY EncodedParts DEF Depth

\* One of two operands can always be brought to the other.
LEMMA CanAdjustTotal ==
    ASSUME NEW l \in 0..L, NEW n \in 1..2, NEW m \in 0..L, NEW k \in 1..2
    PROVE  /\ CanAdjust(Encoded(l, n), Encoded(m, k)) =>
                  (m < l \/ (m = l /\ n <= k))
           /\ ~CanAdjust(Encoded(l, n), Encoded(m, k)) =>
                  /\ CanAdjust(Encoded(m, k), Encoded(l, n))
                  /\ l < m \/ (l = m /\ k < n)
BY EncodedParts, ContextAssumption DEF CanAdjust

\* What CanAdjust picks is the poorer operand.
LEMMA LowerIsPoorer ==
    ASSUME NEW l \in 0..L, NEW n \in 1..2, NEW m \in 0..L, NEW k \in 1..2,
           m < l \/ (m = l /\ n <= k)
    PROVE  MinOf(l - n, m - k) = m - k /\ MinOf(m - k, l - n) = m - k
BY ContextAssumption DEF MinOf

\* The operands of add, sub and mult meet in one of the two, the poorer.
LEMMA MeetSound ==
    ASSUME cc \in Contexts, NEW a \in Fresh, NEW b \in Fresh
    PROVE  \E z \in {a, b} : /\ Meet(a, b) = [x |-> z, y |-> z]
                             /\ Depth(z) = MinOf(Depth(a), Depth(b))
<1>1. PICK l \in 0..L, n \in 1..2 : n <= l + 1 /\ a = Encoded(l, n)
  BY FreshForm
<1>2. PICK m \in 0..L, k \in 1..2 : k <= m + 1 /\ b = Encoded(m, k)
  BY FreshForm
<1>3. Depth(a) = l - n /\ Depth(b) = m - k
  BY <1>1, <1>2, DepthEncoded
<1>4. CASE CanAdjust(a, b)
  <2>1. AdjustCiphertext(a, b) = b
    BY <1>1, <1>2, <1>4, AdjustSound
  <2>2. m < l \/ (m = l /\ n <= k)
    BY <1>1, <1>2, <1>4, CanAdjustTotal
  <2>3. MinOf(l - n, m - k) = m - k
    BY <2>2, LowerIsPoorer
  <2> QED BY <1>3, <1>4, <2>1, <2>3 DEF Meet
<1>5. CASE ~CanAdjust(a, b)
  <2>1. CanAdjust(b, a) /\ (l < m \/ (l = m /\ k < n))
    BY <1>1, <1>2, <1>5, CanAdjustTotal
  <2>2. AdjustCiphertext(b, a) = a
    BY <1>1, <1>2, <2>1, AdjustSound
  <2>3. l < m \/ (l = m /\ k <= n)
    BY <2>1
  <2>4. MinOf(l - n, m - k) = l - n
    BY <2>3, LowerIsPoorer
  <2> QED BY <1>3, <1>5, <2>1, <2>2, <2>4 DEF Meet
<1> QED BY <1>4, <1>5

\* A degree-2 operand has a prime to spend, and spends it at no cost.
LEMMA DegreeOne ==
    ASSUME cc \in Contexts, NEW l \in 0..L, NEW n \in 1..2, n <= l + 1
    PROVE  \E q \in 0..L : /\ ToDegreeOne(Encoded(l, n)) = Encoded(q, 1)
                           /\ PtToDegreeOne(Encoded(l, n)) = Encoded(q, 1)
                           /\ q - 1 = l - n
<1>1. CASE n = 1
  BY <1>1, EncodedParts DEF ToDegreeOne, PtToDegreeOne
<1>2. CASE n = 2
  <2>1. l \in 1..L /\ l - 1 \in 0..L /\ (l - 1) - 1 = l - 2
    BY <1>2, ContextAssumption
  <2>2. RescaleInternal(Encoded(l, 2)) = Encoded(l - 1, 1)
        /\ PtRescale(Encoded(l, 2)) = Encoded(l - 1, 1)
    BY <2>1, RescaleEncoded, PtRescaleEncoded
  <2> QED BY <1>2, <2>1, <2>2, EncodedParts DEF ToDegreeOne, PtToDegreeOne
<1> QED BY <1>1, <1>2

\* The operands of addPt meet, and at the poorer one's depth.
LEMMA MeetPtSound ==
    ASSUME cc \in Contexts, NEW a \in Fresh, NEW p \in Fresh
    PROVE  \E z \in Fresh : /\ MeetPt(a, p) = [x |-> z, y |-> z]
                            /\ Depth(z) = MinOf(Depth(a), Depth(p))
<1>1. PICK l \in 0..L, n \in 1..2 : n <= l + 1 /\ a = Encoded(l, n)
  BY FreshForm
<1>2. PICK m \in 0..L, k \in 1..2 : k <= m + 1 /\ p = Encoded(m, k)
  BY FreshForm
<1>3. /\ a.level = l /\ a.NoiseLevel = n /\ p.level = m /\ p.NoiseLevel = k
      /\ Depth(a) = l - n /\ Depth(p) = m - k
  BY <1>1, <1>2, DepthEncoded, EncodedParts
<1>4. CASE k = 1 /\ n = 2 /\ m = l - 1
  <2>1. l \in 1..L /\ MinOf(l - n, m - k) = m - k
    BY <1>4, ContextAssumption DEF MinOf
  <2>2. RescaleInternal(a) = p
    BY <1>1, <1>2, <1>4, <2>1, RescaleEncoded
  <2>3. CanAdjust(p, p)
    BY <1>3, <1>4, ContextAssumption DEF CanAdjust
  <2>4. AdjustCiphertext(p, p) = p
    BY <1>2, <2>3, AdjustSound
  <2> QED BY <1>3, <1>4, <2>1, <2>2, <2>3, <2>4 DEF MeetPt
<1>5. CASE ~(k = 1 /\ n = 2 /\ m = l - 1)
  <2>0. ~(p.NoiseLevel = 1 /\ a.NoiseLevel = 2 /\ p.level = a.level - 1)
    BY <1>3, <1>5
  <2>1. CASE CanAdjust(a, p)
    <3>1. AdjustCiphertext(a, p) = p
      BY <1>1, <1>2, <2>1, AdjustSound
    <3>2. m < l \/ (m = l /\ n <= k)
      BY <1>1, <1>2, <2>1, CanAdjustTotal
    <3>3. MinOf(l - n, m - k) = m - k
      BY <3>2, LowerIsPoorer
    <3> QED BY <1>3, <2>0, <2>1, <3>1, <3>3 DEF MeetPt
  <2>2. CASE ~CanAdjust(a, p)
    <3>1. CanAdjust(p, a) /\ (l < m \/ (l = m /\ k < n))
      BY <1>1, <1>2, <2>2, CanAdjustTotal
    <3>2. AdjustPlaintext(p, a) = a
      BY <1>1, <1>2, <3>1, AdjustSound
    <3>3. l < m \/ (l = m /\ k <= n)
      BY <3>1
    <3>4. MinOf(l - n, m - k) = l - n
      BY <3>3, LowerIsPoorer
    <3> QED BY <1>3, <2>0, <2>2, <3>1, <3>2, <3>4 DEF MeetPt
  <2> QED BY <2>1, <2>2
<1> QED BY <1>4, <1>5

\* The operands of multPt meet at degree 1, and at the poorer one's depth.
LEMMA MeetFactorSound ==
    ASSUME cc \in Contexts, NEW a \in Fresh, NEW p \in Fresh
    PROVE  \E q \in 0..L :
              /\ MeetFactor(a, p) = [x |-> Encoded(q, 1), y |-> Encoded(q, 1)]
              /\ q - 1 = MinOf(Depth(a), Depth(p))
<1>1. PICK l \in 0..L, n \in 1..2 : n <= l + 1 /\ a = Encoded(l, n)
  BY FreshForm
<1>2. PICK m \in 0..L, k \in 1..2 : k <= m + 1 /\ p = Encoded(m, k)
  BY FreshForm
<1>3. /\ a.NoiseLevel = n /\ p.NoiseLevel = k
      /\ Depth(a) = l - n /\ Depth(p) = m - k
  BY <1>1, <1>2, DepthEncoded, EncodedParts
<1>4. CASE CanAdjust(a, p)
  <2>1. AdjustCiphertext(a, p) = p
    BY <1>1, <1>2, <1>4, AdjustSound
  <2>2. m < l \/ (m = l /\ n <= k)
    BY <1>1, <1>2, <1>4, CanAdjustTotal
  <2>3. MinOf(l - n, m - k) = m - k
    BY <2>2, LowerIsPoorer
  <2>4. CanAdjust(p, p) /\ AdjustPlaintext(p, p) = p
    <3>1. CanAdjust(p, p)
      BY <1>2, EncodedParts, ContextAssumption DEF CanAdjust
    <3> QED BY <1>2, <3>1, AdjustSound
  <2>5. PICK q \in 0..L : /\ ToDegreeOne(p) = Encoded(q, 1)
                          /\ PtToDegreeOne(p) = Encoded(q, 1)
                          /\ q - 1 = m - k
    BY <1>2, DegreeOne
  <2>6. k = 1 => p = Encoded(q, 1)
    BY <1>3, <2>5 DEF ToDegreeOne
  <2>7. MeetFactor(a, p) = [x |-> Encoded(q, 1), y |-> Encoded(q, 1)]
    BY <1>3, <1>4, <2>1, <2>4, <2>5, <2>6 DEF MeetFactor
  <2> QED BY <1>3, <2>3, <2>5, <2>7
<1>5. CASE ~CanAdjust(a, p)
  <2>1. CanAdjust(p, a) /\ (l < m \/ (l = m /\ k < n))
    BY <1>1, <1>2, <1>5, CanAdjustTotal
  <2>2. AdjustPlaintext(p, a) = a
    BY <1>1, <1>2, <2>1, AdjustSound
  <2>3. l < m \/ (l = m /\ k <= n)
    BY <2>1
  <2>4. MinOf(l - n, m - k) = l - n
    BY <2>3, LowerIsPoorer
  <2>5. PICK q \in 0..L : /\ ToDegreeOne(a) = Encoded(q, 1)
                          /\ PtToDegreeOne(a) = Encoded(q, 1)
                          /\ q - 1 = l - n
    BY <1>1, DegreeOne
  <2>6. MeetFactor(a, p) = [x |-> Encoded(q, 1), y |-> Encoded(q, 1)]
    BY <1>5, <2>1, <2>2, <2>5 DEF MeetFactor
  <2> QED BY <1>3, <2>4, <2>5, <2>6
<1> QED BY <1>4, <1>5

-----------------------------------------------------------------------------
(* The operations on operands of the context.                              *)

\* addMetadata's comparisons hold and the sum keeps its first operand's parts.
LEMMA SumEncoded ==
    ASSUME cc \in Contexts, NEW l \in 0..L, NEW m \in 0..L, NEW n \in 1..2,
           l <= m, Flexible => l = m
    PROVE  SumOf(Encoded(l, n), Encoded(m, n)) = Encoded(l, n)
<1> DEFINE x == Encoded(l, n)
           y == Encoded(m, n)
<1>1. /\ y.ok /\ x.NoiseLevel = y.NoiseLevel /\ x.level <= y.level
      /\ Flexible => x.level = y.level
  BY EncodedParts, EncodedOk
<1>2. x.ok = Yes /\ [x EXCEPT !.ok = Yes] = x
  BY OkStays
<1> HIDE DEF x, y
<1>3. (x.ok /\ (/\ y.ok
                /\ x.NoiseLevel = y.NoiseLevel
                /\ x.level <= y.level
                /\ Flexible => x.level = y.level)) = Yes
  BY <1>1, <1>2 DEF Yes
<1>4. SumOf(x, y) = x
  BY <1>2, <1>3 DEF SumOf, Require
<1> QED BY <1>4 DEF x, y

\* multMetadata gives the factor of a degree-2 operand of the same level.
LEMMA ProductEncoded ==
    ASSUME cc \in Contexts, NEW l \in 0..L, NEW m \in 0..L,
           l <= m, Flexible => l = m
    PROVE  Product(Encoded(l, 1), Encoded(m, 1)) = Encoded(l, 2)
<1> DEFINE x == Encoded(l, 1)
           y == Encoded(m, 1)
           S == SF(l)
           T == SF(m)
           B == Big(l)
<1>1. /\ x.level = l /\ x.NoiseLevel = 1 /\ x.NoiseFactor = S /\ x.scale = S
      /\ y.level = m /\ y.NoiseLevel = 1 /\ y.NoiseFactor = T /\ y.scale = T
      /\ y.ok /\ x = Rec(l, 1, S, S) /\ Encoded(l, 2) = Rec(l, 2, B, B)
  BY EncodedParts, EncodedOk, EncodedRec DEF Table
<1>2. S + T = B
  BY Tables DEF Big
<1>3. x.ok = Yes /\ [x EXCEPT !.ok = Yes] = x
  BY OkStays
<1> HIDE DEF x, y
<1>4. (x.ok /\ (y.ok /\ x.level <= y.level)) = Yes
  BY <1>1, <1>3 DEF Yes
<1>5. Require(x, y.ok /\ x.level <= y.level) = x
  BY <1>3, <1>4 DEF Require
<1> DEFINE n2 == 1 + 1
           nf2 == S + T
<1>6. Product(x, y) = [x EXCEPT !.NoiseLevel = n2,
                                !.NoiseFactor = nf2,
                                !.scale = nf2]
  BY <1>1, <1>5 DEF Product
<1> HIDE DEF n2, nf2, S, T, B
<1>7. [x EXCEPT !.NoiseLevel = n2, !.NoiseFactor = nf2, !.scale = nf2]
        = Rec(l, n2, nf2, nf2)
  <2> DEFINE r1 == Rec(l, n2, S, S)
             r2 == Rec(l, n2, nf2, S)
             r3 == Rec(l, n2, nf2, nf2)
  <2>1. /\ [Rec(l, 1, S, S) EXCEPT !.NoiseLevel = n2] = r1
    BY DEF Rec
  <2>2. [r1 EXCEPT !.NoiseFactor = nf2] = r2
    BY DEF Rec
  <2>3. [r2 EXCEPT !.scale = nf2] = r3
    BY DEF Rec
  <2>4. [x EXCEPT !.NoiseLevel = n2, !.NoiseFactor = nf2, !.scale = nf2]
          = [[[x EXCEPT !.NoiseLevel = n2] EXCEPT !.NoiseFactor = nf2]
                EXCEPT !.scale = nf2]
    OBVIOUS
  <2>5. x = Rec(l, 1, S, S)
    BY <1>1
  <2> HIDE DEF r1, r2, r3
  <2>6. [x EXCEPT !.NoiseLevel = n2, !.NoiseFactor = nf2, !.scale = nf2] = r3
    BY <2>1, <2>2, <2>3, <2>4, <2>5
  <2> QED BY <2>6 DEF r3
<1>8. n2 = 2 /\ nf2 = B
  BY <1>2 DEF n2, nf2
<1>9. Product(x, y) = Encoded(l, 2)
  BY <1>1, <1>6, <1>7, <1>8
<1> QED BY <1>9 DEF x, y

\* What the action properties and the type invariant ask of a sum.
SumMade(a, b, m) ==
    /\ m.x \in Fresh /\ m.y \in Fresh /\ m.res \in Fresh
    /\ m.x.NoiseLevel = m.y.NoiseLevel
    /\ m.x.scale = m.y.scale
    /\ Automatic => /\ m.x.level = m.y.level
               /\ Depth(m.res) = MinOf(Depth(a), Depth(b))
               /\ Depth(m.y) = MinOf(Depth(a), Depth(b))

\* ... and of a product.
ProductMade(a, b, m) ==
    /\ m.x \in Fresh /\ m.y \in Fresh /\ m.res \in Fresh
    /\ m.x.NoiseLevel = 1 /\ m.y.NoiseLevel = 1
    /\ Automatic => /\ m.x.level = m.y.level
               /\ Depth(m.res) = MinOf(Depth(a), Depth(b)) - 1
               /\ Depth(m.y) = MinOf(Depth(a), Depth(b))

\* Ciphertext::add on operands that have met.
LEMMA SumOfMet ==
    ASSUME cc \in Contexts, NEW a, NEW b, NEW z \in Fresh,
           Depth(z) = MinOf(Depth(a), Depth(b))
    PROVE  SumMade(a, b, [x |-> z, y |-> z, res |-> SumOf(z, z)])
<1>1. PICK l \in 0..L, n \in 1..2 : n <= l + 1 /\ z = Encoded(l, n)
  BY FreshForm
<1>2. l <= l
  BY ContextAssumption
<1>3. SumOf(z, z) = z
  BY <1>1, <1>2, SumEncoded
<1> QED BY <1>3 DEF SumMade

\* Without alignment: one factor for all levels, and towers left over in the
\* second operand.
LEMMA SumByHand ==
    ASSUME cc \in Contexts, ~Automatic, NEW a, NEW b, NEW l \in 0..L, NEW m \in 0..L,
           NEW n \in 1..2, n <= l + 1, n <= m + 1, l <= m
    PROVE  SumMade(a, b, [x |-> Encoded(l, n), y |-> Encoded(m, n),
                          res |-> SumOf(Encoded(l, n), Encoded(m, n))])
<1>1. ~Flexible
  BY DEF Automatic, Flexible
<1>2. SumOf(Encoded(l, n), Encoded(m, n)) = Encoded(l, n)
  BY <1>1, SumEncoded
<1>3. Encoded(l, n) \in Fresh /\ Encoded(m, n) \in Fresh
  BY FreshForm
<1>4. SF(l) = SF(m)
  BY <1>1, Tables
<1>5. Table(l, n) = Table(m, n)
  BY <1>4 DEF Table, Big
<1>6. /\ Encoded(l, n).NoiseLevel = Encoded(m, n).NoiseLevel
      /\ Encoded(l, n).scale = Encoded(m, n).scale
  BY <1>5, EncodedParts
<1> QED BY <1>2, <1>3, <1>6 DEF SumMade

\* Ciphertext::add and addMutable, on any two operands of the context.
LEMMA AddSound ==
    ASSUME cc \in Contexts, NEW a \in Fresh, NEW b \in Fresh, SameDegree(a, b)
    PROVE  SumMade(a, b, Add(a, b))
<1>1. CASE Automatic
  <2>1. PICK z \in {a, b} : /\ Meet(a, b) = [x |-> z, y |-> z]
                            /\ Depth(z) = MinOf(Depth(a), Depth(b))
    BY MeetSound
  <2>2. Add(a, b) = [x |-> z, y |-> z, res |-> SumOf(z, z)]
    <3>1. Meet(a, b).x = z /\ Meet(a, b).y = z
      BY <2>1
    <3>2. Add(a, b) = [x |-> Meet(a, b).x, y |-> Meet(a, b).y,
                      res |-> SumOf(Meet(a, b).x, Meet(a, b).y)]
      <4>1. (IF Automatic THEN Meet(a, b)
             ELSE [x |-> Drop(a, b.level), y |-> b]) = Meet(a, b)
        BY <1>1
      <4> QED BY <4>1 DEF Add, Summed
    <3> QED BY <3>1, <3>2
  <2> QED BY <2>1, <2>2, SumOfMet
<1>2. CASE ~Automatic
  <2>1. PICK l \in 0..L, n \in 1..2 : n <= l + 1 /\ a = Encoded(l, n)
    BY FreshForm
  <2>2. PICK m \in 0..L, k \in 1..2 : k <= m + 1 /\ b = Encoded(m, k)
    BY FreshForm
  <2>3. n = k /\ b.level = m
    BY <1>2, <2>1, <2>2, EncodedParts DEF SameDegree
  <2> DEFINE q == MinOf(l, m)
  <2>4. q \in 0..L /\ q <= m /\ n <= q + 1
    BY <2>1, <2>2, <2>3, ContextAssumption DEF MinOf
  <2>5. Drop(a, m) = Encoded(q, n)
    BY <1>2, <2>1, DropEncoded DEF Automatic, Flexible
  <2>6. Add(a, b) = [x |-> Encoded(q, n), y |-> b, res |-> SumOf(Encoded(q, n), b)]
    BY <1>2, <2>3, <2>5 DEF Add, Summed
  <2> HIDE DEF q
  <2> QED BY <1>2, <2>2, <2>3, <2>4, <2>6, SumByHand
<1> QED BY <1>1, <1>2

\* Ciphertext::sub and subMutable, on any two operands of the context.
LEMMA SubSound ==
    ASSUME cc \in Contexts, NEW a \in Fresh, NEW b \in Fresh, SameDegree(a, b)
    PROVE  SumMade(a, b, Sub(a, b))
BY AddSound DEF Sub

\* Ciphertext::addPt and its kin, on any ciphertext and plaintext.
LEMMA AddPtSound ==
    ASSUME cc \in Contexts, NEW a \in Fresh, NEW p \in Fresh,
           SameDegree(a, p), HighEnough(p, a)
    PROVE  SumMade(a, p, AddPt(a, p))
<1>1. CASE Automatic
  <2>1. PICK z \in Fresh : /\ MeetPt(a, p) = [x |-> z, y |-> z]
                           /\ Depth(z) = MinOf(Depth(a), Depth(p))
    BY MeetPtSound
  <2>2. AddPt(a, p) = [x |-> z, y |-> z, res |-> SumOf(z, z)]
    <3>1. MeetPt(a, p).x = z /\ MeetPt(a, p).y = z
      BY <2>1
    <3>2. AddPt(a, p) = [x |-> MeetPt(a, p).x, y |-> MeetPt(a, p).y,
                      res |-> SumOf(MeetPt(a, p).x, MeetPt(a, p).y)]
      <4>1. (IF Automatic THEN MeetPt(a, p)
             ELSE [x |-> a, y |-> p]) = MeetPt(a, p)
        BY <1>1
      <4> QED BY <4>1 DEF AddPt, Summed
    <3> QED BY <3>1, <3>2
  <2> QED BY <2>1, <2>2, SumOfMet
<1>2. CASE ~Automatic
  <2>1. PICK l \in 0..L, n \in 1..2 : n <= l + 1 /\ a = Encoded(l, n)
    BY FreshForm
  <2>2. PICK m \in 0..L, k \in 1..2 : k <= m + 1 /\ p = Encoded(m, k)
    BY FreshForm
  <2>3. n = k /\ l <= m
    BY <1>2, <2>1, <2>2, EncodedParts DEF SameDegree, HighEnough
  <2>4. AddPt(a, p) = [x |-> a, y |-> p, res |-> SumOf(a, p)]
    BY <1>2 DEF AddPt, Summed
  <2> QED BY <1>2, <2>1, <2>2, <2>3, <2>4, SumByHand
<1> QED BY <1>1, <1>2

\* The product of two degree-1 operands with a prime left.
LEMMA ProductOfMet ==
    ASSUME cc \in Contexts, NEW a, NEW b, NEW q \in 0..L, NEW m \in 0..L,
           1 <= q, q <= m, Flexible => q = m,
           Automatic => q = m /\ q - 1 = MinOf(Depth(a), Depth(b))
    PROVE  LET x == Encoded(q, 1)
               y == Encoded(m, 1)
           IN  /\ Require(x, x.NoiseLevel = 1 /\ y.NoiseLevel = 1) = x
               /\ Require(x, x.NoiseLevel < 2 /\ y.NoiseLevel < 2) = x
               /\ ProductMade(a, b, [x |-> x, y |-> y, res |-> Product(x, y)])
<1> DEFINE x == Encoded(q, 1)
           y == Encoded(m, 1)
<1>1. x.NoiseLevel = 1 /\ y.NoiseLevel = 1 /\ x.level = q /\ y.level = m
  BY EncodedParts
<1>2. x.ok = Yes /\ [x EXCEPT !.ok = Yes] = x
  BY OkStays
<1>3. Product(x, y) = Encoded(q, 2)
  BY ProductEncoded
<1>4. x \in Fresh /\ y \in Fresh /\ Encoded(q, 2) \in Fresh
  <2>1. 1 <= q + 1 /\ 1 <= m + 1 /\ 2 <= q + 1
    BY ContextAssumption
  <2> QED BY <2>1, FreshForm
<1>5. Automatic => /\ Depth(Encoded(q, 2)) = MinOf(Depth(a), Depth(b)) - 1
                   /\ Depth(y) = MinOf(Depth(a), Depth(b))
  <2>1. Depth(Encoded(q, 2)) = q - 2 /\ Depth(y) = m - 1
    BY DepthEncoded
  <2>2. q - 2 = (q - 1) - 1
    BY ContextAssumption
  <2> QED BY <2>1, <2>2
<1> HIDE DEF x, y
<1>6. Require(x, x.NoiseLevel = 1 /\ y.NoiseLevel = 1) = x
  <2>1. (x.ok /\ (x.NoiseLevel = 1 /\ y.NoiseLevel = 1)) = Yes
    BY <1>1, <1>2 DEF Yes
  <2> QED BY <1>2, <2>1 DEF Require
<1>7. Require(x, x.NoiseLevel < 2 /\ y.NoiseLevel < 2) = x
  <2>1. 1 < 2
    OBVIOUS
  <2>2. (x.ok /\ (x.NoiseLevel < 2 /\ y.NoiseLevel < 2)) = Yes
    BY <1>1, <1>2, <2>1 DEF Yes
  <2> QED BY <1>2, <2>2 DEF Require
<1>8. ProductMade(a, b, [x |-> x, y |-> y, res |-> Product(x, y)])
  BY <1>1, <1>3, <1>4, <1>5 DEF ProductMade
<1> QED BY <1>6, <1>7, <1>8 DEF x, y

\* Ciphertext::mult and multMutable, on operands with a level left.
LEMMA MultSound ==
    ASSUME cc \in Contexts, NEW a \in Fresh, NEW b \in Fresh,
           Spendable(a), Spendable(b)
    PROVE  ProductMade(a, b, Mult(a, b))
<1> DEFINE n == IF Automatic THEN BothToDegreeOne(Meet(a, b))
                ELSE [x |-> Drop(a, b.level), y |-> b]
<1>1. ASSUME NEW x, NEW y, n = [x |-> x, y |-> y],
             Require(x, x.NoiseLevel = 1 /\ y.NoiseLevel = 1) = x
      PROVE  Mult(a, b) = [x |-> x, y |-> y, res |-> Product(x, y)]
  <2>1. n.x = x /\ n.y = y
    BY <1>1
  <2>2. Mult(a, b) = Multiplied(RequireDegreeOne(n))
    BY DEF Mult
  <2> HIDE DEF n
  <2>3. RequireDegreeOne(n) = [x |-> Require(n.x, n.x.NoiseLevel = 1 /\ n.y.NoiseLevel = 1), y |-> n.y]
    BY <1>1 DEF RequireDegreeOne
  <2>4. RequireDegreeOne(n) = [x |-> x, y |-> y]
    BY <1>1, <2>1, <2>3
  <2> QED BY <2>2, <2>4 DEF Multiplied
<1>2. CASE Automatic
  <2>1. PICK z \in {a, b} : /\ Meet(a, b) = [x |-> z, y |-> z]
                            /\ Depth(z) = MinOf(Depth(a), Depth(b))
    BY MeetSound
  <2>2. PICK l \in 0..L, k \in 1..2 : k <= l + 1 /\ z = Encoded(l, k)
    BY FreshForm
  <2>3. Meet(a, b).x = z /\ Meet(a, b).y = z
    BY <2>1
  <2>4. PICK q \in 0..L : ToDegreeOne(z) = Encoded(q, 1) /\ q - 1 = l - k
    BY <2>2, DegreeOne
  <2>5. n = [x |-> Encoded(q, 1), y |-> Encoded(q, 1)]
    BY <1>2, <2>1, <2>3, <2>4 DEF ToDegreeOne, BothToDegreeOne
  <2>6. q - 1 = MinOf(Depth(a), Depth(b)) /\ 1 <= q /\ q <= q
    <3>1. Depth(z) = l - k /\ Depth(z) >= 0
      BY <2>1, <2>2, DepthEncoded DEF Spendable
    <3> QED BY <2>1, <2>4, <3>1, ContextAssumption
  <2> DEFINE w == Encoded(q, 1)
  <2>7. /\ Require(w, w.NoiseLevel = 1 /\ w.NoiseLevel = 1) = w
        /\ ProductMade(a, b, [x |-> w, y |-> w, res |-> Product(w, w)])
    BY <2>6, ProductOfMet
  <2> HIDE DEF n, w
  <2> QED BY <1>1, <2>5, <2>7 DEF w
<1>3. CASE ~Automatic
  <2>1. PICK l \in 0..L, k \in 1..2 : k <= l + 1 /\ a = Encoded(l, k)
    BY FreshForm
  <2>2. PICK m \in 0..L, j \in 1..2 : j <= m + 1 /\ b = Encoded(m, j)
    BY FreshForm
  <2>3. /\ k = 1 /\ j = 1 /\ b.level = m /\ 1 <= l /\ 1 <= m
    <3>1. /\ a.NoiseLevel = 1 /\ b.NoiseLevel = 1
          /\ Depth(a) >= 0 /\ Depth(b) >= 0
      BY <1>3 DEF Spendable
    <3>2. /\ a.NoiseLevel = k /\ b.NoiseLevel = j /\ b.level = m
          /\ Depth(a) = l - k /\ Depth(b) = m - j
      BY <2>1, <2>2, EncodedParts, DepthEncoded
    <3>3. k = 1 /\ j = 1 /\ l - 1 >= 0 /\ m - 1 >= 0
      BY <3>1, <3>2
    <3> HIDE DEF n
    <3>4. 1 <= l /\ 1 <= m
      BY <3>3, ContextAssumption
    <3> QED BY <3>2, <3>3, <3>4
  <2> DEFINE q == MinOf(l, m)
  <2>4. q \in 0..L /\ 1 <= q /\ q <= m
    BY <2>3, ContextAssumption DEF MinOf
  <2>5. ~Flexible /\ Drop(a, m) = Encoded(q, 1)
    BY <1>3, <2>1, <2>3, DropEncoded DEF Automatic, Flexible
  <2>6. n = [x |-> Encoded(q, 1), y |-> Encoded(m, 1)]
    BY <1>3, <2>2, <2>3, <2>5
  <2> HIDE DEF q
  <2> DEFINE v == Encoded(q, 1)
             w == Encoded(m, 1)
  <2>7. /\ Require(v, v.NoiseLevel = 1 /\ w.NoiseLevel = 1) = v
        /\ ProductMade(a, b, [x |-> v, y |-> w, res |-> Product(v, w)])
    BY <1>3, <2>4, <2>5, ProductOfMet
  <2> HIDE DEF n, v, w
  <2> QED BY <1>1, <2>6, <2>7 DEF v, w
<1> QED BY <1>2, <1>3

\* Ciphertext::multPt, on operands with a level left.
LEMMA MultPtSound ==
    ASSUME cc \in Contexts, NEW a \in Fresh, NEW p \in Fresh,
           Spendable(a), Spendable(p), HighEnough(p, a)
    PROVE  ProductMade(a, p, MultPt(a, p))
<1> DEFINE n == IF Automatic THEN MeetFactor(a, p) ELSE [x |-> a, y |-> p]
<1>1. ASSUME NEW x, NEW y, n = [x |-> x, y |-> y],
             Require(x, x.NoiseLevel < 2 /\ y.NoiseLevel < 2) = x
      PROVE  MultPt(a, p) = [x |-> x, y |-> y, res |-> Product(x, y)]
  <2>1. n.x = x /\ n.y = y
    BY <1>1
  <2>2. MultPt(a, p) = Multiplied(RequireShallow(n))
    BY DEF MultPt
  <2> HIDE DEF n
  <2>3. RequireShallow(n) = [x |-> Require(n.x, n.x.NoiseLevel < 2 /\ n.y.NoiseLevel < 2), y |-> n.y]
    BY <1>1 DEF RequireShallow
  <2>4. RequireShallow(n) = [x |-> x, y |-> y]
    BY <1>1, <2>1, <2>3
  <2> QED BY <2>2, <2>4 DEF Multiplied
<1>2. PICK l \in 0..L, k \in 1..2 : k <= l + 1 /\ a = Encoded(l, k)
  BY FreshForm
<1>3. PICK m \in 0..L, j \in 1..2 : j <= m + 1 /\ p = Encoded(m, j)
  BY FreshForm
<1>4. /\ a.level = l /\ a.NoiseLevel = k /\ p.level = m /\ p.NoiseLevel = j
      /\ Depth(a) = l - k /\ Depth(p) = m - j
      /\ l - k >= 0 /\ m - j >= 0
  BY <1>2, <1>3, EncodedParts, DepthEncoded DEF Spendable
<1>5. CASE Automatic
  <2>1. PICK q \in 0..L :
           /\ MeetFactor(a, p) = [x |-> Encoded(q, 1), y |-> Encoded(q, 1)]
           /\ q - 1 = MinOf(Depth(a), Depth(p))
    BY MeetFactorSound
  <2>2. 1 <= q /\ q <= q
    BY <1>4, <2>1, ContextAssumption DEF MinOf
  <2>3. n = [x |-> Encoded(q, 1), y |-> Encoded(q, 1)]
    BY <1>5, <2>1
  <2> DEFINE w == Encoded(q, 1)
  <2>4. /\ Require(w, w.NoiseLevel < 2 /\ w.NoiseLevel < 2) = w
        /\ ProductMade(a, p, [x |-> w, y |-> w, res |-> Product(w, w)])
    BY <2>1, <2>2, ProductOfMet
  <2> HIDE DEF n, w
  <2> QED BY <1>1, <2>3, <2>4 DEF w
<1>6. CASE ~Automatic
  <2>1. ~Flexible /\ k = 1 /\ j = 1 /\ l <= m
    BY <1>4, <1>6 DEF Automatic, Flexible, Spendable, HighEnough
  <2>2. 1 <= l
    BY <1>4, <2>1, ContextAssumption
  <2>3. n = [x |-> Encoded(l, 1), y |-> Encoded(m, 1)]
    BY <1>2, <1>3, <1>6, <2>1
  <2> DEFINE v == Encoded(l, 1)
             w == Encoded(m, 1)
  <2>4. /\ Require(v, v.NoiseLevel < 2 /\ w.NoiseLevel < 2) = v
        /\ ProductMade(a, p, [x |-> v, y |-> w, res |-> Product(v, w)])
    BY <1>6, <2>1, <2>2, ProductOfMet
  <2> HIDE DEF n, v, w
  <2> QED BY <1>1, <2>3, <2>4 DEF v, w
<1> QED BY <1>5, <1>6

\* Ciphertext::multPtMutable: reducing the ciphertext first changes nothing.
LEMMA MultPtMutableSound ==
    ASSUME cc \in Contexts, NEW a \in Fresh, NEW p \in Fresh,
           Spendable(a), Spendable(p), HighEnough(p, a)
    PROVE  ProductMade(a, p, MultPtMutable(a, p))
<1>1. CASE Automatic
  <2>1. PICK l \in 0..L, k \in 1..2 : k <= l + 1 /\ a = Encoded(l, k)
    BY FreshForm
  <2>2. PICK q \in 0..L : ToDegreeOne(a) = Encoded(q, 1) /\ q - 1 = l - k
    BY <2>1, DegreeOne
  <2> DEFINE c == Encoded(q, 1)
  <2>3. c \in Fresh /\ Depth(c) = Depth(a)
    <3>1. 1 <= q + 1
      BY ContextAssumption
    <3> QED BY <2>1, <2>2, <3>1, FreshForm, DepthEncoded
  <2>4. MultPtMutable(a, p) = MultPt(c, p)
    BY <1>1, <2>2 DEF MultPtMutable
  <2> HIDE DEF c
  <2>5. Spendable(c) /\ HighEnough(p, c)
    BY <1>1, <2>3 DEF Spendable, HighEnough
  <2>6. ProductMade(c, p, MultPt(c, p))
    BY <2>3, <2>5, MultPtSound
  <2> QED BY <2>3, <2>4, <2>6 DEF ProductMade
<1>2. CASE ~Automatic
  BY <1>2, MultPtSound DEF MultPtMutable
<1> QED BY <1>1, <1>2

\* Ciphertext::square, on an operand with a level left.
LEMMA SquareSound ==
    ASSUME cc \in Contexts, NEW a \in Fresh, Spendable(a)
    PROVE  ProductMade(a, a, Square(a))
<1> DEFINE c == IF Automatic THEN ToDegreeOne(a) ELSE a
<1>1. PICK l \in 0..L, k \in 1..2 : k <= l + 1 /\ a = Encoded(l, k)
  BY FreshForm
<1>2. a.NoiseLevel = k /\ Depth(a) = l - k /\ l - k >= 0
  BY <1>1, EncodedParts, DepthEncoded DEF Spendable
<1>3. \E q \in 0..L : c = Encoded(q, 1) /\ q - 1 = l - k
  <2>1. CASE Automatic
    BY <1>1, <2>1, DegreeOne
  <2>2. CASE ~Automatic
    BY <1>1, <1>2, <2>2 DEF Spendable
  <2> QED BY <2>1, <2>2
<1>4. PICK q \in 0..L : c = Encoded(q, 1) /\ q - 1 = l - k
  BY <1>3
<1>5. 1 <= q /\ q <= q /\ MinOf(l - k, l - k) = l - k
  BY <1>2, <1>4, ContextAssumption DEF MinOf
<1> DEFINE w == Encoded(q, 1)
           x == Require(c, c.NoiseLevel = 1)
<1>6. ProductMade(a, a, [x |-> w, y |-> w, res |-> Product(w, w)])
  BY <1>2, <1>4, <1>5, ProductOfMet
<1>7. Require(w, w.NoiseLevel = 1) = w
  <2>1. w.NoiseLevel = 1 /\ w.ok = Yes /\ [w EXCEPT !.ok = Yes] = w
    BY EncodedParts, OkStays
  <2> HIDE DEF w
  <2>2. (w.ok /\ w.NoiseLevel = 1) = Yes
    BY <2>1 DEF Yes
  <2> QED BY <2>1, <2>2 DEF Require
<1>8. Square(a) = [x |-> x, y |-> x, res |-> Product(x, x)]
  BY DEF Square
<1>9. x = w
  BY <1>4, <1>7
<1> HIDE DEF x, w
<1> QED BY <1>6, <1>8, <1>9

\* Ciphertext::multScalar of a constant, on an operand with a level left.
LEMMA MultScalarSound ==
    ASSUME cc \in Contexts, NEW a \in Fresh, Spendable(a)
    PROVE  MultScalar(a) \in Fresh /\ Depth(MultScalar(a)) = Depth(a) - 1
<1> DEFINE c == IF Automatic THEN ToDegreeOne(a) ELSE a
<1>1. PICK l \in 0..L, k \in 1..2 : k <= l + 1 /\ a = Encoded(l, k)
  BY FreshForm
<1>2. a.NoiseLevel = k /\ Depth(a) = l - k /\ l - k >= 0
  BY <1>1, EncodedParts, DepthEncoded DEF Spendable
<1>3. \E q \in 0..L : c = Encoded(q, 1) /\ q - 1 = l - k
  <2>1. CASE Automatic
    BY <1>1, <2>1, DegreeOne
  <2>2. CASE ~Automatic
    BY <1>1, <1>2, <2>2 DEF Spendable
  <2> QED BY <2>1, <2>2
<1>4. PICK q \in 0..L : c = Encoded(q, 1) /\ q - 1 = l - k
  BY <1>3
<1>5. 2 <= q + 1 /\ q - 2 = (q - 1) - 1
  BY <1>2, <1>4, ContextAssumption
<1> DEFINE w == Encoded(q, 1)
<1>6. Require(w, w.NoiseLevel = 1) = w
  <2>1. w.NoiseLevel = 1 /\ w.ok = Yes /\ [w EXCEPT !.ok = Yes] = w
    BY EncodedParts, OkStays
  <2> HIDE DEF w
  <2>2. (w.ok /\ w.NoiseLevel = 1) = Yes
    BY <2>1 DEF Yes
  <2> QED BY <2>1, <2>2 DEF Require
<1>7. MultScalar(a) = MultScalarNoPrecheck(Require(c, c.NoiseLevel = 1), 0)
  BY DEF MultScalar
<1>8. MultScalar(a) = Encoded(q, 2)
  BY <1>4, <1>6, <1>7, MultEncoded
<1>9. Encoded(q, 2) \in Fresh /\ Depth(Encoded(q, 2)) = q - 2
  BY <1>5, FreshForm, DepthEncoded
<1> HIDE DEF c
<1> QED BY <1>2, <1>4, <1>5, <1>8, <1>9

\* Ciphertext::rescale and rescaleInternal, on a degree-2 operand.
LEMMA RescaleSound ==
    ASSUME cc \in Contexts, NEW a \in Fresh, a.NoiseLevel = 2
    PROVE  RescaleInternal(a) \in Fresh /\ Rescale(a) \in Fresh
<1>1. PICK l \in 0..L, k \in 1..2 : k <= l + 1 /\ a = Encoded(l, k)
  BY FreshForm
<1>2. k = 2 /\ l \in 1..L /\ l - 1 \in 0..L /\ 1 <= (l - 1) + 1
  <2>1. k = 2
    BY <1>1, EncodedParts
  <2> QED BY <1>1, <2>1, ContextAssumption
<1>3. RescaleInternal(a) = Encoded(l - 1, 1)
  BY <1>1, <1>2, RescaleEncoded
<1>4. Encoded(l - 1, 1) \in Fresh
  BY <1>2, FreshForm
<1> QED BY <1>3, <1>4 DEF Rescale

\* SetLevel, where all levels have one factor.
LEMMA DropSound ==
    ASSUME cc \in Contexts, ~Flexible, NEW a \in Fresh, NEW m \in 0..L,
           Fits(Drop(a, m))
    PROVE  Drop(a, m) \in Fresh
<1>1. PICK l \in 0..L, k \in 1..2 : k <= l + 1 /\ a = Encoded(l, k)
  BY FreshForm
<1>2. MinOf(l, m) \in 0..L
  BY DEF MinOf
<1>3. Drop(a, m) = Encoded(MinOf(l, m), k)
  BY <1>1, DropEncoded
<1>4. k <= MinOf(l, m) + 1
  BY <1>3, EncodedParts DEF Fits
<1> QED BY <1>2, <1>3, <1>4, FreshForm

-----------------------------------------------------------------------------
(* The inductive invariant: every handle holds an operand as encoding      *)
(* makes it, which says of the factor what TypeOK leaves open and without  *)
(* which no alignment could be shown to meet its target.                   *)

LastOK == last.x.ok /\ last.y.ok /\ OperandsMeet /\ DepthExact

IInv == /\ cc \in Contexts
        /\ cts \in [Ct -> Fresh]
        /\ pts \in [Pt -> Fresh]
        /\ LastOK

\* An operand of the context is what the invariants ask of one.
LEMMA FreshSound ==
    ASSUME cc \in Contexts, NEW c \in Fresh
    PROVE  /\ c \in Operand /\ Fits(c) /\ c.ok
           /\ c.NoiseFactor = c.scale /\ c.scale = Table(c.level, c.NoiseLevel)
<1>1. PICK l \in 0..L, n \in 1..2 : n <= l + 1 /\ c = Encoded(l, n)
  BY FreshForm
<1>2. Table(l, n) \in Int
  BY Tables DEF Table, Big
<1>3. c \in Operand
  BY <1>1, <1>2 DEF Operand, Encoded
<1> QED BY <1>1, <1>3, EncodedParts, EncodedOk DEF Fits

\* A sum leaves a last operation that the properties accept.
LEMMA SumKeeps ==
    ASSUME cc \in Contexts, cc' = cc, NEW a, NEW b, NEW m,
           SumMade(a, b, m), Did("sum", a, b, m)
    PROVE  LastOK'
<1>1. /\ last'.op = "sum" /\ last'.a = a /\ last'.b = b
      /\ last'.x = m.x /\ last'.y = m.y /\ last'.res = m.res
  BY DEF Did
<1>2. m.x.ok /\ m.y.ok
  BY FreshSound DEF SumMade
<1>3. Automatic' <=> Automatic
  BY DEF Automatic
<1>4. OperandsMeet'
  BY <1>1, <1>3 DEF OperandsMeet, SumMade
<1>5. DepthExact'
  BY <1>1, <1>3 DEF DepthExact, SumMade
<1> QED BY <1>1, <1>2, <1>4, <1>5 DEF LastOK

\* A product leaves a last operation that the properties accept.
LEMMA ProductKeeps ==
    ASSUME cc \in Contexts, cc' = cc, NEW a, NEW b, NEW m,
           ProductMade(a, b, m), Did("product", a, b, m)
    PROVE  LastOK'
<1>1. /\ last'.op = "product" /\ last'.a = a /\ last'.b = b
      /\ last'.x = m.x /\ last'.y = m.y /\ last'.res = m.res
  BY DEF Did
<1>2. m.x.ok /\ m.y.ok
  BY FreshSound DEF ProductMade
<1>3. Automatic' <=> Automatic
  BY DEF Automatic
<1>4. OperandsMeet'
  BY <1>1, <1>3 DEF OperandsMeet, ProductMade
<1>5. DepthExact'
  BY <1>1, <1>3 DEF DepthExact, ProductMade
<1> QED BY <1>1, <1>2, <1>4, <1>5 DEF LastOK

\* The calls on one ciphertext.
LEMMA OtherKeeps ==
    ASSUME cc \in Contexts, NEW a, NEW c \in Fresh,
           NEW op \in {"scalar", "rescale", "rescaleInPlace", "setLevel"},
           op = "scalar" => Depth(c) = MinOf(Depth(a), Depth(a)) - 1,
           Did(op, a, a, [x |-> c, y |-> c, res |-> c])
    PROVE  LastOK'
<1>1. /\ last'.op = op /\ last'.a = a /\ last'.b = a
      /\ last'.x = c /\ last'.y = c /\ last'.res = c
  BY DEF Did
<1>2. c.ok
  BY FreshSound
<1>3. OperandsMeet'
  BY <1>1 DEF OperandsMeet
<1>4. DepthExact'
  BY <1>1 DEF DepthExact
<1> QED BY <1>1, <1>2, <1>3, <1>4 DEF LastOK

\* The invariant holds of freshly encoded operands.
LEMMA IInvInit == Init => IInv
<1> SUFFICES ASSUME Init PROVE IInv
  OBVIOUS
<1>1. last.op = "none" /\ last.x.ok /\ last.y.ok
  BY DEF Init, Nothing
<1>2. OperandsMeet /\ DepthExact
  BY <1>1 DEF OperandsMeet, DepthExact
<1> QED BY <1>1, <1>2 DEF Init, IInv, LastOK

\* Every call keeps it, one step per call.
LEMMA IInvNext ==
    ASSUME IInv, [Next]_vars
    PROVE  IInv'
<1>1. /\ cc \in Contexts /\ LastOK
      /\ cts \in [Ct -> Fresh] /\ pts \in [Pt -> Fresh]
      /\ \A i \in Ct : cts[i] \in Fresh
      /\ \A p \in Pt : pts[p] \in Fresh
  BY DEF IInv
\* Fresh is an operator of the context, which no call changes.
<1>2. ASSUME cc' = cc
      PROVE  Fresh' = Fresh
  BY <1>2 DEF Fresh, Encoded, Table, SF, Big
<1>3. ASSUME cc' = cc, cts' \in [Ct -> Fresh], pts' \in [Pt -> Fresh], LastOK'
      PROVE  IInv'
  BY <1>1, <1>2, <1>3 DEF IInv
<1>4. ASSUME NEW r \in Ct, NEW i \in Ct, NEW j \in Ct, EvalAdd(r, i, j)
      PROVE  IInv'
  <2> DEFINE m == Add(cts[i], cts[j])
  <2>1. SameDegree(cts[i], cts[j])
    BY <1>4 DEF EvalAdd
  <2>2. SumMade(cts[i], cts[j], m)
    BY <1>1, <2>1, AddSound
  <2>3. /\ cc' = cc
        /\ cts' = [cts EXCEPT ![r] = m.res]
        /\ pts' = pts
        /\ Did("sum", cts[i], cts[j], m)
    BY <1>4 DEF EvalAdd
  <2> HIDE DEF m
  <2>4. cts' \in [Ct -> Fresh] /\ pts' \in [Pt -> Fresh]
    BY <1>1, <2>2, <2>3 DEF SumMade
  <2>5. LastOK'
    BY <1>1, <2>2, <2>3, SumKeeps
  <2> QED BY <1>3, <2>3, <2>4, <2>5
<1>5. ASSUME NEW r \in Ct, NEW i \in Ct, NEW j \in Ct, EvalAddMutable(r, i, j)
      PROVE  IInv'
  <2> DEFINE m == Add(cts[i], cts[j])
  <2>1. SameDegree(cts[i], cts[j])
    BY <1>5 DEF EvalAddMutable
  <2>2. SumMade(cts[i], cts[j], m)
    BY <1>1, <2>1, AddSound
  <2>3. /\ cc' = cc
        /\ cts' = [cts EXCEPT ![j] = m.y, ![r] = m.res]
        /\ pts' = pts
        /\ Did("sum", cts[i], cts[j], m)
    BY <1>5 DEF EvalAddMutable
  <2> HIDE DEF m
  <2>4. cts' \in [Ct -> Fresh] /\ pts' \in [Pt -> Fresh]
    BY <1>1, <2>2, <2>3 DEF SumMade
  <2>5. LastOK'
    BY <1>1, <2>2, <2>3, SumKeeps
  <2> QED BY <1>3, <2>3, <2>4, <2>5
<1>6. ASSUME NEW r \in Ct, NEW i \in Ct, NEW j \in Ct, EvalSub(r, i, j)
      PROVE  IInv'
  <2> DEFINE m == Sub(cts[i], cts[j])
  <2>1. SameDegree(cts[i], cts[j])
    BY <1>6 DEF EvalSub
  <2>2. SumMade(cts[i], cts[j], m)
    BY <1>1, <2>1, SubSound
  <2>3. /\ cc' = cc
        /\ cts' = [cts EXCEPT ![r] = m.res]
        /\ pts' = pts
        /\ Did("sum", cts[i], cts[j], m)
    BY <1>6 DEF EvalSub
  <2> HIDE DEF m
  <2>4. cts' \in [Ct -> Fresh] /\ pts' \in [Pt -> Fresh]
    BY <1>1, <2>2, <2>3 DEF SumMade
  <2>5. LastOK'
    BY <1>1, <2>2, <2>3, SumKeeps
  <2> QED BY <1>3, <2>3, <2>4, <2>5
<1>7. ASSUME NEW r \in Ct, NEW i \in Ct, NEW j \in Ct, EvalSubMutable(r, i, j)
      PROVE  IInv'
  <2> DEFINE m == Sub(cts[i], cts[j])
  <2>1. SameDegree(cts[i], cts[j])
    BY <1>7 DEF EvalSubMutable
  <2>2. SumMade(cts[i], cts[j], m)
    BY <1>1, <2>1, SubSound
  <2>3. /\ cc' = cc
        /\ cts' = [cts EXCEPT ![j] = m.y, ![r] = m.res]
        /\ pts' = pts
        /\ Did("sum", cts[i], cts[j], m)
    BY <1>7 DEF EvalSubMutable
  <2> HIDE DEF m
  <2>4. cts' \in [Ct -> Fresh] /\ pts' \in [Pt -> Fresh]
    BY <1>1, <2>2, <2>3 DEF SumMade
  <2>5. LastOK'
    BY <1>1, <2>2, <2>3, SumKeeps
  <2> QED BY <1>3, <2>3, <2>4, <2>5
<1>8. ASSUME NEW r \in Ct, NEW i \in Ct, NEW j \in Ct, EvalMult(r, i, j)
      PROVE  IInv'
  <2> DEFINE m == Mult(cts[i], cts[j])
  <2>1. Spendable(cts[i]) /\ Spendable(cts[j])
    BY <1>8 DEF EvalMult
  <2>2. ProductMade(cts[i], cts[j], m)
    BY <1>1, <2>1, MultSound
  <2>3. /\ cc' = cc
        /\ cts' = [cts EXCEPT ![r] = m.res]
        /\ pts' = pts
        /\ Did("product", cts[i], cts[j], m)
    BY <1>8 DEF EvalMult
  <2> HIDE DEF m
  <2>4. cts' \in [Ct -> Fresh] /\ pts' \in [Pt -> Fresh]
    BY <1>1, <2>2, <2>3 DEF ProductMade
  <2>5. LastOK'
    BY <1>1, <2>2, <2>3, ProductKeeps
  <2> QED BY <1>3, <2>3, <2>4, <2>5
<1>9. ASSUME NEW r \in Ct, NEW i \in Ct, NEW j \in Ct, EvalMultMutable(r, i, j)
      PROVE  IInv'
  <2> DEFINE m == Mult(cts[i], cts[j])
  <2>1. Spendable(cts[i]) /\ Spendable(cts[j])
    BY <1>9 DEF EvalMultMutable
  <2>2. ProductMade(cts[i], cts[j], m)
    BY <1>1, <2>1, MultSound
  <2>3. /\ cc' = cc
        /\ cts' = [cts EXCEPT ![j] = m.y, ![r] = m.res]
        /\ pts' = pts
        /\ Did("product", cts[i], cts[j], m)
    BY <1>9 DEF EvalMultMutable
  <2> HIDE DEF m
  <2>4. cts' \in [Ct -> Fresh] /\ pts' \in [Pt -> Fresh]
    BY <1>1, <2>2, <2>3 DEF ProductMade
  <2>5. LastOK'
    BY <1>1, <2>2, <2>3, ProductKeeps
  <2> QED BY <1>3, <2>3, <2>4, <2>5
<1>10. ASSUME NEW r \in Ct, NEW i \in Ct, NEW p \in Pt, EvalAddPt(r, i, p)
      PROVE  IInv'
  <2> DEFINE m == AddPt(cts[i], pts[p])
  <2>1. SameDegree(cts[i], pts[p]) /\ HighEnough(pts[p], cts[i])
    BY <1>10 DEF EvalAddPt
  <2>2. SumMade(cts[i], pts[p], m)
    BY <1>1, <2>1, AddPtSound
  <2>3. /\ cc' = cc
        /\ cts' = [cts EXCEPT ![r] = m.res]
        /\ pts' = pts
        /\ Did("sum", cts[i], pts[p], m)
    BY <1>10 DEF EvalAddPt
  <2> HIDE DEF m
  <2>4. cts' \in [Ct -> Fresh] /\ pts' \in [Pt -> Fresh]
    BY <1>1, <2>2, <2>3 DEF SumMade
  <2>5. LastOK'
    BY <1>1, <2>2, <2>3, SumKeeps
  <2> QED BY <1>3, <2>3, <2>4, <2>5
<1>11. ASSUME NEW r \in Ct, NEW i \in Ct, NEW p \in Pt, EvalAddPtMutable(r, i, p)
      PROVE  IInv'
  <2> DEFINE m == AddPt(cts[i], pts[p])
  <2>1. SameDegree(cts[i], pts[p]) /\ HighEnough(pts[p], cts[i])
    BY <1>11 DEF EvalAddPtMutable
  <2>2. SumMade(cts[i], pts[p], m)
    BY <1>1, <2>1, AddPtSound
  <2>3. /\ cc' = cc
        /\ cts' = [cts EXCEPT ![r] = m.res]
        /\ pts' = [pts EXCEPT ![p] = m.y]
        /\ Did("sum", cts[i], pts[p], m)
    BY <1>11 DEF EvalAddPtMutable
  <2> HIDE DEF m
  <2>4. cts' \in [Ct -> Fresh] /\ pts' \in [Pt -> Fresh]
    BY <1>1, <2>2, <2>3 DEF SumMade
  <2>5. LastOK'
    BY <1>1, <2>2, <2>3, SumKeeps
  <2> QED BY <1>3, <2>3, <2>4, <2>5
<1>12. ASSUME NEW r \in Ct, NEW i \in Ct, NEW p \in Pt, EvalMultPt(r, i, p)
      PROVE  IInv'
  <2> DEFINE m == MultPt(cts[i], pts[p])
  <2>1. Spendable(cts[i]) /\ Spendable(pts[p]) /\ HighEnough(pts[p], cts[i])
    BY <1>12 DEF EvalMultPt
  <2>2. ProductMade(cts[i], pts[p], m)
    BY <1>1, <2>1, MultPtSound
  <2>3. /\ cc' = cc
        /\ cts' = [cts EXCEPT ![r] = m.res]
        /\ pts' = pts
        /\ Did("product", cts[i], pts[p], m)
    BY <1>12 DEF EvalMultPt
  <2> HIDE DEF m
  <2>4. cts' \in [Ct -> Fresh] /\ pts' \in [Pt -> Fresh]
    BY <1>1, <2>2, <2>3 DEF ProductMade
  <2>5. LastOK'
    BY <1>1, <2>2, <2>3, ProductKeeps
  <2> QED BY <1>3, <2>3, <2>4, <2>5
<1>13. ASSUME NEW r \in Ct, NEW i \in Ct, NEW p \in Pt, EvalMultPtMutable(r, i, p)
      PROVE  IInv'
  <2> DEFINE m == MultPtMutable(cts[i], pts[p])
  <2>1. Spendable(cts[i]) /\ Spendable(pts[p]) /\ HighEnough(pts[p], cts[i])
    BY <1>13 DEF EvalMultPtMutable
  <2>2. ProductMade(cts[i], pts[p], m)
    BY <1>1, <2>1, MultPtMutableSound
  <2>3. /\ cc' = cc
        /\ cts' = [cts EXCEPT ![r] = m.res]
        /\ pts' = [pts EXCEPT ![p] = m.y]
        /\ Did("product", cts[i], pts[p], m)
    BY <1>13 DEF EvalMultPtMutable
  <2> HIDE DEF m
  <2>4. cts' \in [Ct -> Fresh] /\ pts' \in [Pt -> Fresh]
    BY <1>1, <2>2, <2>3 DEF ProductMade
  <2>5. LastOK'
    BY <1>1, <2>2, <2>3, ProductKeeps
  <2> QED BY <1>3, <2>3, <2>4, <2>5
<1>14. ASSUME NEW r \in Ct, NEW i \in Ct, EvalSquare(r, i)
      PROVE  IInv'
  <2> DEFINE m == Square(cts[i])
  <2>1. Spendable(cts[i])
    BY <1>14 DEF EvalSquare
  <2>2. ProductMade(cts[i], cts[i], m)
    BY <1>1, <2>1, SquareSound
  <2>3. /\ cc' = cc /\ cts' = [cts EXCEPT ![r] = m.res] /\ pts' = pts
        /\ Did("product", cts[i], cts[i], m)
    BY <1>14 DEF EvalSquare
  <2> HIDE DEF m
  <2>4. cts' \in [Ct -> Fresh] /\ pts' \in [Pt -> Fresh]
    BY <1>1, <2>2, <2>3 DEF ProductMade
  <2>5. LastOK'
    BY <1>1, <2>2, <2>3, ProductKeeps
  <2> QED BY <1>3, <2>3, <2>4, <2>5
<1>15. ASSUME NEW r \in Ct, NEW i \in Ct, EvalMultScalar(r, i)
      PROVE  IInv'
  <2> DEFINE c == MultScalar(cts[i])
  <2>1. Spendable(cts[i])
    BY <1>15 DEF EvalMultScalar
  <2>2. c \in Fresh /\ Depth(c) = Depth(cts[i]) - 1
    BY <1>1, <2>1, MultScalarSound
  <2>3. /\ cc' = cc /\ cts' = [cts EXCEPT ![r] = c] /\ pts' = pts
        /\ Did("scalar", cts[i], cts[i], [x |-> c, y |-> c, res |-> c])
    BY <1>15 DEF EvalMultScalar
  <2> HIDE DEF c
  <2>4. cts' \in [Ct -> Fresh] /\ pts' \in [Pt -> Fresh]
    BY <1>1, <2>2, <2>3
  <2>5. LastOK'
    BY <1>1, <2>2, <2>3, OtherKeeps DEF MinOf
  <2> QED BY <1>3, <2>3, <2>4, <2>5
<1>16. ASSUME NEW r \in Ct, NEW i \in Ct, EvalRescale(r, i)
      PROVE  IInv'
  <2> DEFINE c == Rescale(cts[i])
  <2>1. cts[i].NoiseLevel = 2
    BY <1>16 DEF EvalRescale
  <2>2. c \in Fresh
    BY <1>1, <2>1, RescaleSound
  <2>3. /\ cc' = cc /\ cts' = [cts EXCEPT ![r] = c] /\ pts' = pts
        /\ Did("rescale", cts[i], cts[i], [x |-> c, y |-> c, res |-> c])
    BY <1>16 DEF EvalRescale
  <2> HIDE DEF c
  <2>4. cts' \in [Ct -> Fresh] /\ pts' \in [Pt -> Fresh]
    BY <1>1, <2>2, <2>3
  <2>5. LastOK'
    BY <1>1, <2>2, <2>3, OtherKeeps
  <2> QED BY <1>3, <2>3, <2>4, <2>5
<1>17. ASSUME NEW i \in Ct, RescaleInPlace(i)
      PROVE  IInv'
  <2> DEFINE c == RescaleInternal(cts[i])
  <2>1. cts[i].NoiseLevel = 2
    BY <1>17 DEF RescaleInPlace
  <2>2. c \in Fresh
    BY <1>1, <2>1, RescaleSound
  <2>3. /\ cc' = cc /\ cts' = [cts EXCEPT ![i] = c] /\ pts' = pts
        /\ Did("rescaleInPlace", cts[i], cts[i], [x |-> c, y |-> c, res |-> c])
    BY <1>17 DEF RescaleInPlace
  <2> HIDE DEF c
  <2>4. cts' \in [Ct -> Fresh] /\ pts' \in [Pt -> Fresh]
    BY <1>1, <2>2, <2>3
  <2>5. LastOK'
    BY <1>1, <2>2, <2>3, OtherKeeps
  <2> QED BY <1>3, <2>3, <2>4, <2>5
<1>18. ASSUME NEW i \in Ct, NEW l \in 0..L, SetLevel(i, l)
      PROVE  IInv'
  <2> DEFINE c == Drop(cts[i], l)
  <2>1. ~Flexible /\ Fits(Drop(cts[i], l))
    BY <1>18 DEF SetLevel
  <2>2. c \in Fresh
    BY <1>1, <2>1, DropSound
  <2>3. /\ cc' = cc /\ cts' = [cts EXCEPT ![i] = c] /\ pts' = pts
        /\ Did("setLevel", cts[i], cts[i], [x |-> c, y |-> c, res |-> c])
    BY <1>18 DEF SetLevel
  <2> HIDE DEF c
  <2>4. cts' \in [Ct -> Fresh] /\ pts' \in [Pt -> Fresh]
    BY <1>1, <2>2, <2>3
  <2>5. LastOK'
    BY <1>1, <2>2, <2>3, OtherKeeps
  <2> QED BY <1>3, <2>3, <2>4, <2>5
<1>19. CASE UNCHANGED vars
  <2>1. cc' = cc /\ cts' = cts /\ pts' = pts /\ last' = last
    BY <1>19 DEF vars
  <2>2. LastOK'
    BY <1>1, <2>1 DEF LastOK, OperandsMeet, DepthExact, Automatic
  <2> QED BY <1>1, <1>3, <2>1, <2>2
<1> QED BY <1>4, <1>5, <1>6, <1>7, <1>8, <1>9, <1>10, <1>11, <1>12, <1>13, <1>14, <1>15, <1>16, <1>17, <1>18, <1>19 DEF Next

-----------------------------------------------------------------------------
(* The theorems, for every chain of levels, every set of factor tables and *)
(* every number of operands.                                               *)

\* The invariant
LEMMA IInvAlways == Spec => []IInv
<1>1. IInv /\ [Next]_vars => IInv'
  BY IInvNext
<1> QED BY <1>1, IInvInit, PTL DEF Spec

\* Every handle holds an operand of the context: a level of the chain, degree 1
\* or 2, and a prime for each degree (the calls of CryptoContext.cpp on what
\* Ciphertext.cpp and Plaintext.cu made of their operands).
THEOREM TypeCorrect == Spec => []TypeOK
<1>1. IInv => TypeOK
  <2> SUFFICES ASSUME IInv PROVE TypeOK
    OBVIOUS
  <2>1. \A c \in Fresh : c \in Operand /\ Fits(c)
    BY FreshSound DEF IInv
  <2>2. \A c \in Current : c \in Fresh
    BY DEF IInv, Current
  <2> QED BY <2>1, <2>2 DEF IInv, TypeOK
<1>2. Spec => []IInv
  BY IInvAlways
<1> QED BY <1>1, <1>2, PTL

\* Every call gives its result: throwAdjustFailure is never reached, since one of two
\* operands can always be brought to the other, no rescale takes the last prime, and
\* operands are combined at the levels and degrees that the operations assert.
THEOREM EveryCallCompletes == Spec => []CallsComplete
<1>1. IInv => CallsComplete
  <2> SUFFICES ASSUME IInv PROVE CallsComplete
    OBVIOUS
  <2>1. \A c \in Current : c \in Fresh
    BY DEF IInv, Current
  <2>2. \A c \in Current : c.ok
    BY <2>1, FreshSound DEF IInv
  <2> QED BY <2>2 DEF IInv, LastOK, CallsComplete
<1>2. Spec => []IInv
  BY IInvAlways
<1> QED BY <1>1, <1>2, PTL

\* The NoiseFactor an operand records is the factor its data carry, and the one
\* decryption divides by at its level and degree.
THEOREM FactorsHonest == Spec => []ScaleHonest
<1>1. IInv => ScaleHonest
  <2> SUFFICES ASSUME IInv PROVE ScaleHonest
    OBVIOUS
  <2>1. \A c \in Current : c \in Fresh
    BY DEF IInv, Current
  <2> QED BY <2>1, FreshSound DEF IInv, ScaleHonest
<1>2. Spec => []IInv
  BY IInvAlways
<1> QED BY <1>1, <1>2, PTL

\* Data are combined only where their degrees and scales agree, and under the
\* AUTO techniques their levels (Ciphertext::add .. square).
THEOREM OperandsAligned == Spec => []OperandsMeet
<1>1. IInv => OperandsMeet
  BY DEF IInv, LastOK
<1>2. Spec => []IInv
  BY IInvAlways
<1> QED BY <1>1, <1>2, PTL

\* Alignment costs no multiplication: the result has as many left as the poorer
\* operand had, less one for a product.
THEOREM NoDepthLost == Spec => []DepthExact
<1>1. IInv => DepthExact
  BY DEF IInv, LastOK
<1>2. Spec => []IInv
  BY IInvAlways
<1> QED BY <1>1, <1>2, PTL
-----------------------------------------------------------------------------
(* Launches that cannot race                                                *)

\* What Learned says is a Knowledge.
LEMMA LearnedType ==
    ASSUME NEW K \in Knowledge, NEW l, Heirs(l) \subseteq Stream
    PROVE  Learned(K, l) \in Knowledge
BY DEF Learned, Knowledge

\* A launch that is ready is ordered after all it conflicts with, and what is
\* known after it is true.
LEMMA LaunchLearns ==
    ASSUME NEW lt, NEW l, NEW K \in Knowledge, Covers(lt, K), Ready(K, l)
    PROVE  /\ Races(lt, l) = {}
           /\ Covers(Launched(lt, l), Learned(K, l))
<1>1. ASSUME NEW a \in DOMAIN lt, K[Owner(a[1])] \cap Past(l) # {}
      PROVE  ComesAfter(lt, l, a)
  BY <1>1 DEF Covers, Past, ComesAfter
<1>2. ASSUME NEW a \in DOMAIN lt, Conflict(l, a) PROVE ComesAfter(lt, l, a)
  BY <1>1, <1>2 DEF Conflict, Ready, OwnersOf
<1>3. Races(lt, l) = {}
  BY <1>2 DEF Races
<1>4. ASSUME NEW a \in Accesses(l) PROVE Owner(a[1]) \in OwnersOf(l)
  BY DEF Accesses, OwnersOf
<1>5. DOMAIN Launched(lt, l) = {a \in DOMAIN lt : ~Superseded(l, a)} \cup Accesses(l)
  BY DEF Launched
<1>6. ASSUME NEW a \in DOMAIN Launched(lt, l)
      PROVE  /\ Owner(a[1]) \in Stream
             /\ Learned(K, l)[Owner(a[1])] \subseteq Launched(lt, l)[a]
  <2>1. CASE a \in Accesses(l)
    <3>1. Launched(lt, l)[a] = Heirs(l)
      BY <2>1, <1>5 DEF Launched, Heirs
    <3> QED BY <3>1, <2>1, <1>4 DEF Ready, Learned
  <2>2. CASE a \notin Accesses(l)
    <3>1. a \in DOMAIN lt
      BY <2>2, <1>5
    <3>2. Launched(lt, l)[a] = IF ComesAfter(lt, l, a) THEN lt[a] \cup Heirs(l) ELSE lt[a]
      BY <2>2, <1>5 DEF Launched, Heirs
    <3>3. Owner(a[1]) \in Stream /\ K[Owner(a[1])] \subseteq lt[a]
      BY <3>1 DEF Covers
    <3>4. CASE K[Owner(a[1])] \cap Past(l) # {}
      <4>1. Launched(lt, l)[a] = lt[a] \cup Heirs(l)
        BY <3>1, <3>2, <3>4, <1>1
      <4> QED BY <4>1, <3>3 DEF Learned
    <3>5. CASE K[Owner(a[1])] \cap Past(l) = {}
      <4>1. Owner(a[1]) \notin OwnersOf(l)
        BY <3>5 DEF Ready
      <4> QED BY <4>1, <3>2, <3>3, <3>5 DEF Learned
    <3> QED BY <3>4, <3>5
  <2> QED BY <2>1, <2>2
<1> QED BY <1>3, <1>6 DEF Covers

-----------------------------------------------------------------------------
(* Functions have certificates                                              *)

LEMMA OwnType == Own \in Knowledge
BY DEF Own, Knowledge

\* A function of one kernel, which waits for the owners of what it accesses and
\* is waited for by them
LEMMA KernelDisciplined ==
    ASSUME NEW q \in Stream, NEW S, S \subseteq Stream, NEW reads, NEW writes,
           \A b \in reads \cup writes : Owner(b) \in S \cup {q}
    PROVE  Disciplined(<<Kernel(q, S, reads, writes)>>)
<1> DEFINE l == Kernel(q, S, reads, writes)
           P == [k \in 0..1 |-> IF k = 0 THEN Own ELSE Learned(Own, l)]
<1>1. Heirs(l) = S \cup {q} /\ Past(l) = S \cup {q}
  BY DEF Heirs, Past, Kernel
<1>2. OwnersOf(l) \subseteq S \cup {q}
  BY DEF OwnersOf, Kernel
<1>3. Learned(Own, l) \in Knowledge
  BY <1>1, OwnType, LearnedType
<1>4. P \in [0..1 -> Knowledge] /\ P[0] = Own /\ P[1] = Learned(Own, l)
  BY <1>3, OwnType
<1>5. Ready(Own, l)
  BY <1>1, <1>2 DEF Ready, Own
<1>6. \A o \in Stream : o \in Learned(Own, l)[o]
  BY <1>1, <1>2 DEF Learned, Own
<1> HIDE DEF l, P
<1>7. Len(<<l>>) = 1 /\ <<l>>[1] = l
  OBVIOUS
<1>8. Certifies(P, <<l>>)
  BY <1>4, <1>5, <1>6, <1>7 DEF Certifies
<1> QED BY <1>4, <1>7, <1>8 DEF Disciplined, l

LEMMA OwnerOf == \A q, p : Owner(<<q, p>>) = q
BY DEF Owner

LEMMA LimbsOwner ==
    ASSUME NEW U, NEW e, NEW b \in AllLimbs(U, e)
    PROVE  Owner(b) \in U
BY DEF AllLimbs, Limbs, Limb, Special, Owner

LEMMA LimbsOfOne ==
    ASSUME NEW q, NEW e, NEW b \in Limbs(q, e)
    PROVE  Owner(b) = q
BY DEF Limbs, Limb, Special, Owner

LEMMA AuxOwner ==
    ASSUME NEW q, NEW b \in Aux(q)
    PROVE  Owner(b) = q
BY DEF Aux, AuxOf, Owner

LEMMA OperandDisciplined ==
    ASSUME NEW q \in Stream, NEW p \in Stream, NEW r \in Stream,
           NEW f \in OperandFunctions(q, p, r)
    PROVE  Disciplined(f)
<1> USE DEF Limb, Special
<1>1. \A e : Disciplined(add(q, p, e))
  BY KernelDisciplined, LimbsOwner, LimbsOfOne DEF add
<1>2. \A e : Disciplined(automorphFrom(q, p, e))
  BY KernelDisciplined, LimbsOfOne DEF automorphFrom
<1>3. Disciplined(sub(q, p))
  BY KernelDisciplined, LimbsOwner, OwnerOf DEF sub
<1>4. Disciplined(multElement(q, p))
  BY KernelDisciplined, LimbsOwner, OwnerOf DEF multElement
<1>5. Disciplined(multElementSpecial(q, p))
  BY KernelDisciplined, OwnerOf DEF multElementSpecial
<1>6. Disciplined(addMult(q, p, r))
  BY KernelDisciplined, LimbsOwner, OwnerOf DEF addMult
<1>7. Disciplined(copyLimb(q, p)) /\ Disciplined(copySpecialLimb(q, p))
  BY KernelDisciplined, OwnerOf DEF copyLimb, copySpecialLimb
<1>8. Disciplined(multElementOf(q, p, r)) /\ Disciplined(mult1Add2(q, p, r))
  BY KernelDisciplined, LimbsOwner, OwnerOf DEF multElementOf, mult1Add2
<1>9. Disciplined(squareElement(q, p))
  BY KernelDisciplined, OwnerOf DEF squareElement
<1>10. \A e, g : Disciplined(addOf(q, p, r, e, g))
  BY KernelDisciplined, LimbsOfOne DEF addOf
<1> QED BY <1>1, <1>2, <1>3, <1>4, <1>5, <1>6, <1>7, <1>8, <1>9, <1>10 DEF OperandFunctions

LEMMA OwnDisciplined ==
    ASSUME NEW q \in Stream, NEW f \in OwnFunctions(q)
    PROVE  Disciplined(f)
<1> USE DEF Limb, Special
<1>1. \A e : Disciplined(multScalar(q, e))
  BY KernelDisciplined, LimbsOfOne DEF multScalar
<1>2. \A e : Disciplined(loadLimbs(q, e))
  BY KernelDisciplined, LimbsOfOne DEF loadLimbs
<1>3. Disciplined(scaleByP(q)) /\ Disciplined(addScalar(q))
  BY KernelDisciplined, OwnerOf DEF scaleByP, addScalar
<1>4. Disciplined(broadcastLimb0ToSpecial(q)) /\ Disciplined(broadcastLimb0(q))
        /\ Disciplined(subScalar(q))
  BY KernelDisciplined, OwnerOf DEF broadcastLimb0ToSpecial, broadcastLimb0, subScalar, addScalar
<1>5. Disciplined(NTT(q)) /\ Disciplined(INTT(q)) /\ Disciplined(freeLimbs(q))
        /\ Disciplined(rescaleOwn(q))
  BY KernelDisciplined, OwnerOf, AuxOwner DEF NTT, INTT, freeLimbs, rescaleOwn
<1>6. Disciplined(NTTspecial(q)) /\ Disciplined(generateSpecialLimb(q))
        /\ Disciplined(freeSpecialLimbs(q))
  BY KernelDisciplined, OwnerOf DEF NTTspecial, generateSpecialLimb, freeSpecialLimbs
<1> QED BY <1>1, <1>2, <1>3, <1>4, <1>5, <1>6 DEF OwnFunctions

LEMMA SumDisciplined ==
    ASSUME NEW q \in Stream, NEW p \in Stream, NEW r \in Stream,
           NEW U, U \subseteq Stream, NEW R, R \subseteq Stream,
           NEW f \in SumFunctions(q, p, r, U, R)
    PROVE  Disciplined(f)
<1>1. Disciplined(evalLinearWSum(q, U))
  BY KernelDisciplined, LimbsOwner, OwnerOf DEF evalLinearWSum, Limb
<1>2. Disciplined(binomialMult(q, p, r, U))
  BY KernelDisciplined, LimbsOwner DEF binomialMult
<1>3. \A e : Disciplined(binomialDotProduct(q, p, r, U, e))
  BY KernelDisciplined, LimbsOwner DEF binomialDotProduct
<1>4. \A e : Disciplined(dotProductPt(q, p, U, R, e))
  BY KernelDisciplined, LimbsOwner DEF dotProductPt
<1>5. Disciplined(evalLinearWSumComplex(q, U)) /\ Disciplined(mult1AddMult23Add4(q, U))
  BY <1>1, KernelDisciplined, LimbsOwner, OwnerOf
     DEF evalLinearWSumComplex, mult1AddMult23Add4, Limb
<1>6. \A o \in U : Disciplined(binomialSquareFold(q, p, r, o))
  BY KernelDisciplined, LimbsOwner DEF binomialSquareFold
<1> QED BY <1>1, <1>2, <1>3, <1>4, <1>5, <1>6 DEF SumFunctions

LEMMA ManySumsDisciplined ==
    ASSUME NEW out \in Seq(Stream) \ {<<>>}, NEW in \in Seq(Stream)
    PROVE  /\ Disciplined(evalLinearWSumMultiple(out, in))
           /\ Disciplined(evalLinearWSumComplexMultiple(out, in))
<1>1. ToSet(out) \subseteq Stream /\ ToSet(in) \subseteq Stream /\ out[1] \in Stream
  BY DEF ToSet
<1>2. \A b \in AllLimbs(ToSet(in), FALSE) \cup AllLimbs(ToSet(out), FALSE) :
         Owner(b) \in ToSet(out) \cup ToSet(in)
  BY LimbsOwner
<1>3. Disciplined(evalLinearWSumMultiple(out, in))
  BY <1>1, <1>2, KernelDisciplined DEF evalLinearWSumMultiple
<1> QED BY <1>3 DEF evalLinearWSumComplexMultiple

\* The mod-down goes through the limbs of aux, of which aux's stream knows again
\* only after the last kernel.
LEMMA ModdownDisciplined ==
    ASSUME NEW q \in Stream, NEW p \in Stream
    PROVE  Disciplined(moddown(q, p))
<1> DEFINE l1 == KernelAfter(q, {p}, {}, {Special(q)})
           l2 == KernelAfter(q, {p}, {Special(q)}, {Limb(p)})
           l3 == Kernel(q, {p}, {Limb(p)}, {Limb(q)} \cup Aux(q))
           K1 == [o \in Stream |-> IF o = q THEN {q} ELSE IF o = p THEN {p, q} ELSE {o}]
           K2 == [o \in Stream |-> IF o = q \/ o = p THEN {q} ELSE {o}]
           K3 == [o \in Stream |-> IF o = q \/ o = p THEN {q, p} ELSE {o}]
           P == [k \in 0..3 |-> CASE k = 0 -> Own [] k = 1 -> K1 [] k = 2 -> K2 [] k = 3 -> K3]
<1>1. /\ OwnersOf(l1) = {q} /\ Past(l1) = {p, q} /\ Heirs(l1) = {q}
      /\ OwnersOf(l2) = {p, q} /\ Past(l2) = {p, q} /\ Heirs(l2) = {q}
  BY OwnerOf DEF OwnersOf, Past, Heirs, KernelAfter, Special, Limb
<1>2. OwnersOf(l3) = {p, q} /\ Past(l3) = {p, q} /\ Heirs(l3) = {p, q}
  BY OwnerOf, AuxOwner DEF OwnersOf, Past, Heirs, Kernel, Special, Limb
<1> HIDE DEF l1, l2, l3
<1>3. Ready(Own, l1) /\ \A o \in Stream : K1[o] \subseteq Learned(Own, l1)[o]
  BY <1>1 DEF Ready, Learned, Own
<1>4. Ready(K1, l2) /\ \A o \in Stream : K2[o] \subseteq Learned(K1, l2)[o]
  BY <1>1 DEF Ready, Learned
<1>5. Ready(K2, l3) /\ \A o \in Stream : K3[o] \subseteq Learned(K2, l3)[o]
  BY <1>2 DEF Ready, Learned
<1>6. K1 \in Knowledge /\ K2 \in Knowledge /\ K3 \in Knowledge
  BY DEF Knowledge
<1>7. \A o \in Stream : o \in K3[o]
  OBVIOUS
<1> HIDE DEF K1, K2, K3
<1>8. P \in [0..3 -> Knowledge] /\ P[0] = Own /\ P[1] = K1 /\ P[2] = K2 /\ P[3] = K3
  BY <1>6, OwnType
<1> HIDE DEF P
<1> DEFINE prog == <<l1, l2, l3>>
<1>9. Len(prog) = 3 /\ prog[1] = l1 /\ prog[2] = l2 /\ prog[3] = l3
  OBVIOUS
<1>10. moddown(q, p) = prog
  BY DEF moddown, l1, l2, l3
<1> HIDE DEF prog
<1>11. ASSUME NEW k \in 1..3
       PROVE  /\ Ready(P[k - 1], prog[k])
              /\ \A o \in Stream : P[k][o] \subseteq Learned(P[k - 1], prog[k])[o]
  <2>1. CASE k = 1
    BY <2>1, <1>3, <1>8, <1>9
  <2>2. CASE k = 2
    BY <2>2, <1>4, <1>8, <1>9
  <2>3. CASE k = 3
    BY <2>3, <1>5, <1>8, <1>9
  <2> QED BY <2>1, <2>2, <2>3
<1>12. Certifies(P, prog)
  BY <1>7, <1>8, <1>9, <1>11 DEF Certifies
<1> QED BY <1>8, <1>9, <1>10, <1>12 DEF Disciplined

\* The rescaling of both polynomials at once: the top limb of each goes through
\* a buffer of the context, on a stream of the context.
LEMMA DoubleRescaleDisciplined ==
    ASSUME NEW q \in Partition, NEW p \in Partition, p # q, p[3] = q[3]
    PROVE  Disciplined(doubleRescale(q, p))
<1> DEFINE t == top_limb_stream(q)
           u == top_limb_stream2(p)
<1>1. /\ q \in Stream /\ p \in Stream /\ t \in Stream /\ u \in Stream
      /\ t # q /\ t # p /\ u # q /\ u # p /\ t # u
  <2>1. t \in SharedStreams(q[3]) /\ u \in SharedStreams(p[3]) /\ t # u
    BY DEF SharedStreams, top_limb_stream, top_limb_stream2
  <2> QED BY <2>1 DEF Partition
<1> DEFINE l1 == dropTop(q, t)
           l2 == KernelAfter(q, {t}, {}, {})
           l3 == dropTop(p, u)
           l4 == KernelAfter(p, {u}, {}, {})
           l5 == expandTop(q, t)
           l6 == divide(q)
           l7 == expandTop(p, u)
           l8 == divide(p)
           prog == <<l1, l2, l3, l4, l5, l6, l7, l8>>
<1>2. doubleRescale(q, p) = prog
  BY DEF doubleRescale
<1> USE DEF Limb, top_limb
<1>a. \A x, y : /\ OwnersOf(dropTop(x, y)) = {x, y}
                /\ Past(dropTop(x, y)) = {x, y} /\ Heirs(dropTop(x, y)) = {y}
  <2> TAKE x, y
  <2>1. OwnersOf(dropTop(x, y)) = {x, y}
    BY OwnerOf DEF OwnersOf, KernelAfter, dropTop
  <2>2. Past(dropTop(x, y)) = {x, y} /\ Heirs(dropTop(x, y)) = {y}
    BY DEF Past, Heirs, KernelAfter, dropTop
  <2> QED BY <2>1, <2>2
<1>b. \A x, y : LET l == KernelAfter(x, {y}, {}, {}) IN
                OwnersOf(l) = {} /\ Past(l) = {x, y} /\ Heirs(l) = {x}
  BY DEF OwnersOf, Past, Heirs, KernelAfter
<1>c. \A x, y : /\ OwnersOf(expandTop(x, y)) \subseteq {x, y} /\ y \in OwnersOf(expandTop(x, y))
                /\ Past(expandTop(x, y)) = {x} /\ Heirs(expandTop(x, y)) = {x, y}
  <2> TAKE x, y
  <2>1. OwnersOf(expandTop(x, y)) \subseteq {x, y} /\ y \in OwnersOf(expandTop(x, y))
    BY OwnerOf, AuxOwner DEF OwnersOf, KernelBefore, expandTop
  <2>2. Past(expandTop(x, y)) = {x} /\ Heirs(expandTop(x, y)) = {x, y}
    BY DEF Past, Heirs, KernelBefore, expandTop
  <2> QED BY <2>1, <2>2
<1>d. \A x : OwnersOf(divide(x)) = {x} /\ Past(divide(x)) = {x} /\ Heirs(divide(x)) = {x}
  BY OwnerOf, AuxOwner DEF OwnersOf, Past, Heirs, KernelAfter, divide
<1>3. /\ OwnersOf(l1) = {q, t} /\ Past(l1) = {q, t} /\ Heirs(l1) = {t}
      /\ OwnersOf(l2) = {} /\ Past(l2) = {q, t} /\ Heirs(l2) = {q}
      /\ OwnersOf(l3) = {p, u} /\ Past(l3) = {p, u} /\ Heirs(l3) = {u}
      /\ OwnersOf(l4) = {} /\ Past(l4) = {p, u} /\ Heirs(l4) = {p}
  BY <1>a, <1>b
<1>4. /\ OwnersOf(l5) \subseteq {q, t} /\ Past(l5) = {q} /\ Heirs(l5) = {q, t}
      /\ t \in OwnersOf(l5)
      /\ OwnersOf(l6) = {q} /\ Past(l6) = {q} /\ Heirs(l6) = {q}
      /\ OwnersOf(l7) \subseteq {p, u} /\ Past(l7) = {p} /\ Heirs(l7) = {p, u}
      /\ u \in OwnersOf(l7)
      /\ OwnersOf(l8) = {p} /\ Past(l8) = {p} /\ Heirs(l8) = {p}
  BY <1>c, <1>d
<1> HIDE DEF t, u, l1, l2, l3, l4, l5, l6, l7, l8
<1> DEFINE Set(K, a, b, T) == [o \in Stream |-> IF o = a \/ o = b THEN T ELSE K[o]]
           K1 == Set(Own, q, t, {t})
           K2 == Set(K1, q, t, {q, t})
           K3 == Set(K2, p, u, {u})
           K4 == Set(K3, p, u, {p, u})
           K6 == Set(K4, q, q, {q})
           K8 == Set(K6, p, p, {p})
           P == [k \in 0..8 |-> CASE k = 0 -> Own [] k = 1 -> K1 [] k = 2 -> K2
                                  [] k = 3 -> K3 [] k = 4 -> K4 [] k = 5 -> K4
                                  [] k = 6 -> K6 [] k = 7 -> K6 [] k = 8 -> K8]
           Goes(K, l, G) == Ready(K, l) /\ \A o \in Stream : G[o] \subseteq Learned(K, l)[o]
<1>5. Goes(Own, l1, K1) /\ Goes(K1, l2, K2)
  BY <1>1, <1>3 DEF Ready, Learned, Own
<1>6. Goes(K2, l3, K3) /\ Goes(K3, l4, K4)
  BY <1>1, <1>3 DEF Ready, Learned, Own
<1>7. Goes(K4, l5, K4) /\ Goes(K4, l6, K6)
  BY <1>1, <1>4 DEF Ready, Learned, Own
<1>8. Goes(K6, l7, K6) /\ Goes(K6, l8, K8)
  BY <1>1, <1>4 DEF Ready, Learned, Own
<1>9. /\ K1 \in Knowledge /\ K2 \in Knowledge /\ K3 \in Knowledge
      /\ K4 \in Knowledge /\ K6 \in Knowledge /\ K8 \in Knowledge
  BY <1>1 DEF Knowledge, Own
<1>10. \A o \in Stream : o \in K8[o]
  BY <1>1 DEF Own
<1> HIDE DEF K1, K2, K3, K4, K6, K8
<1>11. P \in [0..8 -> Knowledge]
  BY <1>9, OwnType
<1>12. /\ P[0] = Own /\ P[1] = K1 /\ P[2] = K2 /\ P[3] = K3 /\ P[4] = K4
       /\ P[5] = K4 /\ P[6] = K6 /\ P[7] = K6 /\ P[8] = K8
  OBVIOUS
<1> HIDE DEF P
<1>13. /\ Len(prog) = 8
       /\ prog[1] = l1 /\ prog[2] = l2 /\ prog[3] = l3 /\ prog[4] = l4
       /\ prog[5] = l5 /\ prog[6] = l6 /\ prog[7] = l7 /\ prog[8] = l8
  OBVIOUS
<1> HIDE DEF prog
<1>14. ASSUME NEW k \in 1..8 PROVE Goes(P[k - 1], prog[k], P[k])
  <2>1. CASE k = 1 BY <2>1, <1>5, <1>12, <1>13
  <2>2. CASE k = 2 BY <2>2, <1>5, <1>12, <1>13
  <2>3. CASE k = 3 BY <2>3, <1>6, <1>12, <1>13
  <2>4. CASE k = 4 BY <2>4, <1>6, <1>12, <1>13
  <2>5. CASE k = 5 BY <2>5, <1>7, <1>12, <1>13
  <2>6. CASE k = 6 BY <2>6, <1>7, <1>12, <1>13
  <2>7. CASE k = 7 BY <2>7, <1>8, <1>12, <1>13
  <2>8. CASE k = 8 BY <2>8, <1>8, <1>12, <1>13
  <2> QED BY <2>1, <2>2, <2>3, <2>4, <2>5, <2>6, <2>7, <2>8
<1>15. Certifies(P, prog)
  BY <1>10, <1>12, <1>13, <1>14 DEF Certifies
<1> QED BY <1>2, <1>11, <1>13, <1>15 DEF Disciplined

\* The rescaling of a compressed constant: the top limb in place on a stream of
\* the context, the others through the limbs of p.
LEMMA CompressedDisciplined ==
    ASSUME NEW q \in Partition, NEW p \in Partition
    PROVE  Disciplined(rescaleCompressed(q, p))
<1> DEFINE t == top_limb_stream(q)
           l1 == KernelAfter(t, {q}, {}, {Limb(q), top_limb(t)})
           l2 == KernelAfter(q, {t}, {}, {})
           l3 == Kernel(q, {p}, {}, {Limb(q), Limb(p)})
           prog == <<l1, l2, l3>>
<1>1. q \in Stream /\ p \in Stream /\ t \in Stream /\ t # q
  <2>1. t \in SharedStreams(q[3])
    BY DEF SharedStreams, top_limb_stream
  <2> QED BY <2>1 DEF Partition
<1>2. rescaleCompressed(q, p) = prog
  BY DEF rescaleCompressed
<1>3. /\ OwnersOf(l1) = {q, t} /\ Past(l1) = {q, t} /\ Heirs(l1) = {t}
      /\ OwnersOf(l2) = {} /\ Past(l2) = {q, t} /\ Heirs(l2) = {q}
  BY OwnerOf DEF OwnersOf, Past, Heirs, KernelAfter, Limb, top_limb
<1>4. OwnersOf(l3) = {q, p} /\ Past(l3) = {q, p} /\ Heirs(l3) = {q, p}
  BY OwnerOf DEF OwnersOf, Past, Heirs, Kernel, Limb
<1> HIDE DEF t, l1, l2, l3
<1> DEFINE K1 == [o \in Stream |-> IF o = q \/ o = t THEN {t} ELSE {o}]
           K2 == [o \in Stream |-> IF o = q \/ o = t THEN {q, t} ELSE {o}]
           K3 == [o \in Stream |-> IF o = q \/ o = p THEN {q, p} ELSE {o}]
           P == [k \in 0..3 |-> CASE k = 0 -> Own [] k = 1 -> K1 [] k = 2 -> K2 [] k = 3 -> K3]
           Goes(K, l, G) == Ready(K, l) /\ \A o \in Stream : G[o] \subseteq Learned(K, l)[o]
<1>5. Goes(Own, l1, K1) /\ Goes(K1, l2, K2)
  BY <1>1, <1>3 DEF Ready, Learned, Own
<1>6. Goes(K2, l3, K3)
  BY <1>1, <1>4 DEF Ready, Learned
<1>7. K1 \in Knowledge /\ K2 \in Knowledge /\ K3 \in Knowledge
  BY <1>1 DEF Knowledge
<1>8. \A o \in Stream : o \in K3[o]
  OBVIOUS
<1> HIDE DEF K1, K2, K3
<1>9. P \in [0..3 -> Knowledge] /\ P[0] = Own /\ P[1] = K1 /\ P[2] = K2 /\ P[3] = K3
  BY <1>7, OwnType
<1> HIDE DEF P
<1>10. Len(prog) = 3 /\ prog[1] = l1 /\ prog[2] = l2 /\ prog[3] = l3
  OBVIOUS
<1> HIDE DEF prog
<1>11. ASSUME NEW k \in 1..3 PROVE Goes(P[k - 1], prog[k], P[k])
  <2>1. CASE k = 1 BY <2>1, <1>5, <1>9, <1>10
  <2>2. CASE k = 2 BY <2>2, <1>5, <1>9, <1>10
  <2>3. CASE k = 3 BY <2>3, <1>6, <1>9, <1>10
  <2> QED BY <2>1, <2>2, <2>3
<1>12. Certifies(P, prog)
  BY <1>8, <1>9, <1>10, <1>11 DEF Certifies
<1> QED BY <1>2, <1>9, <1>10, <1>12 DEF Disciplined

LEMMA FunctionsDisciplined == \A f \in Functions : Disciplined(f)
<1> SUFFICES ASSUME NEW f \in Functions PROVE Disciplined(f)
  OBVIOUS
<1>1. Partition \subseteq Stream
  BY DEF Partition
<1>2. CASE f \in WithOperands
  BY <1>1, <1>2, OperandDisciplined DEF WithOperands
<1>3. CASE f \in Alone
  BY <1>1, <1>3, OwnDisciplined DEF Alone
<1>4. CASE f \in Sums
  <2>1. PICK q \in Partition, p \in Partition, r \in Partition :
           \E U, R \in SUBSET Partition : f \in SumFunctions(q, p, r, U, R)
    BY <1>4 DEF Sums
  <2>2. PICK U \in SUBSET Partition, R \in SUBSET Partition : f \in SumFunctions(q, p, r, U, R)
    BY <2>1
  <2> QED BY <1>1, <2>2, SumDisciplined
<1>5. CASE f \in ModDowns
  BY <1>1, <1>5, ModdownDisciplined DEF ModDowns
<1>6. CASE f \in Rescales
  <2>1. PICK c \in Pairs : f = doubleRescale(c[1], c[2])
    BY <1>6 DEF Rescales
  <2>2. c[1] \in Partition /\ c[2] \in Partition /\ c[2] # c[1] /\ c[2][3] = c[1][3]
    BY DEF Pairs
  <2> QED BY <2>1, <2>2, DoubleRescaleDisciplined
<1>7. CASE f \in ManySums(evalLinearWSumMultiple) \cup ManySums(evalLinearWSumComplexMultiple)
  <2>1. PICK out \in Seq(Partition) \ {<<>>}, in \in Seq(Partition) :
           f \in {evalLinearWSumMultiple(out, in), evalLinearWSumComplexMultiple(out, in)}
    BY <1>7 DEF ManySums
  <2>2. out \in Seq(Stream) \ {<<>>} /\ in \in Seq(Stream)
    BY <1>1
  <2> QED BY <2>1, <2>2, ManySumsDisciplined
<1>8. CASE f \in Compressed
  BY <1>8, CompressedDisciplined DEF Compressed
<1> QED BY <1>2, <1>3, <1>4, <1>5, <1>6, <1>7, <1>8 DEF Functions
-----------------------------------------------------------------------------
(* The machine                                                              *)

\* The certificate of the function that runs says what is known where it stands.
Certified ==
    \E P \in [0..Len(fn) -> Knowledge] : Certifies(P, fn) /\ Covers(later, P[at])

DisciplineInv ==
    /\ raced = {}
    /\ Len(fn) \in Nat
    /\ at \in 0..Len(fn)
    /\ Certified

LEMMA InitDisciplineInv == DisciplineInit => DisciplineInv
<1> SUFFICES ASSUME DisciplineInit PROVE DisciplineInv
  OBVIOUS
<1>1. Len(fn) = 0 /\ at = 0 /\ raced = {}
  BY DEF DisciplineInit
<1> DEFINE P == [k \in 0..0 |-> Own]
<1>2. P \in [0..Len(fn) -> Knowledge] /\ P[0] = Own
  BY <1>1, OwnType
<1>3. Certifies(P, fn)
  BY <1>1, <1>2 DEF Certifies, Own
<1>4. Covers(later, Own)
  BY DEF DisciplineInit, Quiet, Covers
<1> QED BY <1>1, <1>2, <1>3, <1>4 DEF DisciplineInv, Certified

\* Between two calls, every owner comes after all accesses of its buffers.
LEMMA ReturnedOwn ==
    ASSUME DisciplineInv, at = Len(fn)
    PROVE  Covers(later, Own)
<1>1. PICK P \in [0..Len(fn) -> Knowledge] : Certifies(P, fn) /\ Covers(later, P[Len(fn)])
  BY DEF DisciplineInv, Certified
<1> QED BY <1>1 DEF Certifies, Covers, Own

LEMMA CallDisciplineInv == ASSUME DisciplineInv, Call PROVE DisciplineInv'
<1>1. Covers(later, Own)' /\ raced' = {} /\ at' = 0
  BY ReturnedOwn DEF DisciplineInv, Call, orderVars, Covers, Own
<1>2. Disciplined(fn')
  BY FunctionsDisciplined DEF Call
<1>3. Len(fn') \in Nat
  BY DEF Call
<1>4. PICK P \in [0..Len(fn') -> Knowledge] : Certifies(P, fn')
  BY <1>2 DEF Disciplined
<1>5. P[at'] = Own
  BY <1>1, <1>4 DEF Certifies
<1>6. Covers(later', P[at'])
  BY <1>1, <1>5 DEF Covers, Own
<1>7. Certified'
  BY <1>4, <1>6 DEF Certified, Certifies
<1> QED BY <1>1, <1>3, <1>7 DEF DisciplineInv

\* One launch of a certified function
LEMMA LaunchDisciplineInv == ASSUME DisciplineInv, Launch PROVE DisciplineInv'
<1>1. PICK P \in [0..Len(fn) -> Knowledge] : Certifies(P, fn) /\ Covers(later, P[at])
  BY DEF DisciplineInv, Certified
<1>2. /\ at + 1 \in 1..Len(fn) /\ at + 1 - 1 = at
      /\ at \in 0..Len(fn) /\ at + 1 \in 0..Len(fn)
  BY DEF DisciplineInv, Launch
<1> DEFINE l == fn[at + 1]
<1>3. Ready(P[at], l) /\ \A o \in Stream : P[at + 1][o] \subseteq Learned(P[at], l)[o]
  BY <1>1, <1>2 DEF Certifies
<1>4. Races(later, l) = {} /\ Covers(Launched(later, l), Learned(P[at], l))
  BY <1>1, <1>2, <1>3, LaunchLearns
<1>5. Covers(Launched(later, l), P[at + 1])
  BY <1>3, <1>4 DEF Covers
<1> QED BY <1>1, <1>2, <1>4, <1>5 DEF DisciplineInv, Certified, Launch

\* No sequence of calls of the functions, on any partitions, lets two kernels
\* that access a buffer run in either order, one of them writing it.
THEOREM FunctionsNeverRace == DisciplineSpec => []NoRace
<1>1. DisciplineInv /\ [DisciplineNext]_disciplineVars => DisciplineInv'
  <2> SUFFICES ASSUME DisciplineInv, [DisciplineNext]_disciplineVars PROVE DisciplineInv'
    OBVIOUS
  <2>1. CASE Call BY <2>1, CallDisciplineInv
  <2>2. CASE Launch BY <2>2, LaunchDisciplineInv
  <2>3. CASE UNCHANGED disciplineVars
    BY <2>3 DEF disciplineVars, DisciplineInv, Certified
  <2> QED BY <2>1, <2>2, <2>3 DEF DisciplineNext
<1>2. DisciplineInv => NoRace
  BY DEF DisciplineInv, NoRace
<1> QED BY InitDisciplineInv, <1>1, <1>2, PTL DEF DisciplineSpec

\* When a function has returned, the stream of every partition comes after all
\* that is still running on its buffers.
THEOREM FunctionsReturnCovered == DisciplineSpec => []ReturnsCovered
<1>1. DisciplineInv /\ [DisciplineNext]_disciplineVars => DisciplineInv'
  <2> SUFFICES ASSUME DisciplineInv, [DisciplineNext]_disciplineVars PROVE DisciplineInv'
    OBVIOUS
  <2>1. CASE Call BY <2>1, CallDisciplineInv
  <2>2. CASE Launch BY <2>2, LaunchDisciplineInv
  <2>3. CASE UNCHANGED disciplineVars
    BY <2>3 DEF disciplineVars, DisciplineInv, Certified
  <2> QED BY <2>1, <2>2, <2>3 DEF DisciplineNext
<1>2. DisciplineInv => ReturnsCovered
  BY ReturnedOwn DEF ReturnsCovered, OwnersCover, Covers, Own
<1> QED BY InitDisciplineInv, <1>1, <1>2, PTL DEF DisciplineSpec
-----------------------------------------------------------------------------
(* Powers of two as sizes, strides and factors                              *)

TwoPower == {TwoTo(n) : n \in Nat}

\* The smaller of two powers of two divides the other.
LEMMA PowersDivide ==
    ASSUME NEW x \in TwoPower, NEW y \in TwoPower, x <= y
    PROVE  \E q \in Nat \ {0} : y = x * q
<1>1. PICK m \in Nat : x = TwoTo(m)
  BY DEF TwoPower
<1>2. PICK n \in Nat : y = TwoTo(n)
  BY DEF TwoPower
<1>3. CASE m <= n
  <2> DEFINE d == n - m
  <2>1. d \in Nat /\ n = m + d
    BY <1>3
  <2> HIDE DEF d
  <2>2. TwoTo(n) = TwoTo(m) * TwoTo(d) /\ TwoTo(d) \in Nat \ {0}
    BY <2>1, TwoToSum, TwoToValue
  <2> QED BY <1>1, <1>2, <2>2
<1>4. CASE n < m
  <2>1. x = y
    <3>1. ~(x < y)
      BY <1>1, <1>2, <1>4, TwoToOrder
    <3>2. x \in Nat /\ y \in Nat
      BY <1>1, <1>2, TwoToValue
    <3> QED BY <3>1, <3>2
  <2>2. y \in Nat
    BY <1>2, TwoToValue
  <2> QED BY <2>1, <2>2
<1> QED BY <1>3, <1>4

LEMMA PowerType ==
    /\ TwoPower \subseteq Nat \ {0} /\ Slots \in TwoPower /\ Power \subseteq TwoPower
    /\ Slots \in Nat \ {0} /\ \A p \in Power : p \in 1..Slots
    /\ 1 \in Power
<1>1. TwoPower \subseteq Nat \ {0}
  BY TwoToValue DEF TwoPower
<1>2. Slots \in TwoPower /\ Power \subseteq TwoPower
  BY SlotsAssumption DEF TwoPower, Slots, Power
<1>3. ASSUME NEW p \in Power PROVE p \in 1..Slots
  <2>1. PICK k \in 0..LogSlots : p = TwoTo(k)
    BY DEF Power
  <2> DEFINE d == LogSlots - k
  <2>2. d \in Nat /\ k \in Nat /\ LogSlots = k + d
    BY SlotsAssumption
  <2> HIDE DEF d
  <2>3. Slots = p * TwoTo(d) /\ TwoTo(d) \in Nat \ {0} /\ p \in Nat \ {0}
    <3>1. TwoTo(k + d) = TwoTo(k) * TwoTo(d)
      BY <2>2, TwoToSum
    <3>2. TwoTo(d) \in Nat \ {0} /\ TwoTo(k) \in Nat \ {0}
      BY <2>2, TwoToValue
    <3> QED BY <2>1, <2>2, <3>1, <3>2 DEF Slots
  <2> DEFINE q == TwoTo(d)
  <2> HIDE DEF q
  <2>4. q \in Nat \ {0} /\ p \in Nat \ {0} /\ Slots = p * q
    BY <2>3 DEF q
  <2>5. p * q >= p
    BY <2>4
  <2> QED BY <2>4, <2>5
<1>4. 1 \in Power
  <2>1. 0 \in 0..LogSlots
    BY SlotsAssumption
  <2> QED BY <2>1, TwoToValue DEF Power
<1> QED BY <1>1, <1>2, <1>3, <1>4

\* A power of two is larger than its exponent.
LEMMA TwoToLarge ==
    ASSUME NEW m \in Nat PROVE m < TwoTo(m)
<1> DEFINE S == {n \in Nat : n < TwoTo(n)}
<1>1. 0 \in S
  BY TwoToValue
<1>2. ASSUME NEW n \in Nat, n \in S PROVE n + 1 \in S
  <2>1. TwoTo(n + 1) = 2 * TwoTo(n) /\ TwoTo(n) \in Nat /\ n < TwoTo(n)
    BY <1>2, TwoToValue
  <2> QED BY <2>1
<1>3. Nat \subseteq S
  <2> HIDE DEF S
  <2> QED BY <1>1, <1>2, Induction
<1> QED BY <1>3

LEMMA ShiftType ==
    ASSUME NEW b \in Nat PROVE logbStep(b) \in Nat
<1> DEFINE S == {k \in 0..b : TwoTo(k) <= b}
<1>1. CASE b = 0
  BY <1>1 DEF logbStep
<1>2. CASE b # 0
  <2>1. logbStep(b) = Max(S)
    BY <1>2 DEF logbStep
  <2>2. S \in SUBSET (0..b) /\ S \subseteq Nat /\ 0 \in S
    BY <1>2, TwoToValue
  <2> HIDE DEF S
  <2>3. Max(S) \in S
    BY <2>2, LargestOf
  <2> QED BY <2>1, <2>2, <2>3
<1> QED BY <1>1, <1>2

\* The shift of a round multiplies by bStep, which checkBStep has found a power of two.
LEMMA ShiftExact ==
    ASSUME NEW b, checkBStep(b)
    PROVE  /\ b \in TwoPower /\ b \in Nat /\ b >= 2
           /\ logbStep(b) \in Nat \ {0} /\ TwoTo(logbStep(b)) = b
<1>1. PICK m \in Nat : b = TwoTo(m)
  BY SlotsAssumption DEF checkBStep
<1>2. b \in Nat /\ b >= 2 /\ m < b
  BY <1>1, TwoToValue, TwoToLarge DEF checkBStep
<1> DEFINE S == {k \in 0..b : TwoTo(k) <= b}
<1>3. m \in S
  BY <1>1, <1>2
<1>4. ASSUME NEW k \in S PROVE m >= k
  <2>1. k \in Nat /\ ~(TwoTo(m) < TwoTo(k))
    <3>1. k \in Nat /\ TwoTo(k) <= TwoTo(m)
      BY <1>1
    <3>2. TwoTo(k) \in Nat /\ TwoTo(m) \in Nat
      BY <3>1, TwoToValue
    <3> QED BY <3>1, <3>2
  <2>2. CASE m < k
    <3> DEFINE d == k - m - 1
    <3>1. d \in Nat /\ k = (m + d) + 1 /\ m + d \in Nat
      BY <2>1, <2>2
    <3> HIDE DEF d
    <3>2. TwoTo(k) = 2 * TwoTo(m + d) /\ TwoTo(m + d) = TwoTo(m) * TwoTo(d)
      BY <3>1, TwoToValue, TwoToSum
    <3>3. TwoTo(m) \in Nat \ {0} /\ TwoTo(d) \in Nat \ {0}
      BY <3>1, TwoToValue
    <3> DEFINE x == TwoTo(m)
               y == TwoTo(d)
    <3> HIDE DEF x, y
    <3>4. x * y >= x /\ x * y \in Nat
      BY <3>3 DEF x, y
    <3>5. x < 2 * (x * y)
      BY <3>3, <3>4 DEF x
    <3> QED BY <2>1, <3>2, <3>5 DEF x, y
  <2> QED BY <2>1, <2>2
<1>5. logbStep(b) = m
  <2>1. logbStep(b) = Max(S)
    BY <1>2 DEF logbStep
  <2>2. S \subseteq Nat
    OBVIOUS
  <2> HIDE DEF S
  <2>3. \A x \in S : (\A y \in S : x >= y) => x = m
    BY <1>3, <1>4, <2>2
  <2>4. \A y \in S : m >= y
    BY <1>4
  <2> QED BY <1>3, <2>1, <2>3, <2>4 DEF Max
<1>6. m # 0
  BY <1>1, <1>2, TwoToValue
<1> QED BY <1>1, <1>2, <1>5, <1>6 DEF TwoPower
-----------------------------------------------------------------------------
(* Which keys calls ask for: sums of slots                                  *)

\* The arguments of a sum
LEMMA SumArguments ==
    ASSUME NEW c \in Calls
    PROVE  /\ c.op \in {"Accumulate", "Broadcast"} /\ c.bStep \in Nat
           /\ c.stride \in Power /\ c.size \in Power /\ c.start \in Power \cup {0}
           /\ c.op = "Broadcast" => c.stride \in InitSizes /\ c.start = 1
           /\ c.stride * c.size <= Slots
<1>1. c \in Arguments /\ c.stride * c.size <= Slots
  BY DEF Calls
<1>2. InitSizes \subseteq Power
  BY SlotsAssumption DEF Power
<1>3. CASE c \in [op : {"Accumulate"}, bStep : 0..MaxBStep, stride : Power, size : Power,
                  start : Power \cup {0}]
  BY <1>1, <1>3, SlotsAssumption
<1>4. CASE c \in [op : {"Broadcast"}, bStep : 0..MaxBStep, stride : InitSizes, size : Power,
                  start : {1}]
  <2>1. /\ c.op = "Broadcast" /\ c.bStep \in 0..MaxBStep /\ c.stride \in InitSizes
        /\ c.size \in Power /\ c.start = 1
    BY <1>4
  <2>2. c.bStep \in Nat
    BY <2>1, SlotsAssumption
  <2>3. c.stride \in Power /\ c.start \in Power
    BY <1>2, <2>1, PowerType
  <2> QED BY <1>1, <2>1, <2>2, <2>3
<1> QED BY <1>1, <1>3, <1>4 DEF Arguments

\* The same, as numbers, of the call under way
LEMMA CallNumbers ==
    ASSUME call \in Calls
    PROVE  /\ call.bStep \in Nat /\ call.start \in Nat
           /\ call.stride \in Nat \ {0} /\ call.size \in Nat \ {0}
           /\ logbStep(call.bStep) \in Nat
<1>1. /\ call.bStep \in Nat
      /\ call.stride \in Power /\ call.size \in Power /\ call.start \in Power \cup {0}
  BY SumArguments
<1>2. \A p \in Power : p \in Nat \ {0}
  BY PowerType
<1>3. call.start \in Nat
  <2>1. CASE call.start = 0
    BY <2>1
  <2>2. CASE call.start \in Power
    BY <1>2, <2>2
  <2> QED BY <1>1, <2>1, <2>2
<1>4. logbStep(call.bStep) \in Nat
  BY <1>1, ShiftType
<1> QED BY <1>1, <1>2, <1>3, <1>4

\* The calls that a list of keys is right for
ListedCall == call.op = "Broadcast" => call.stride = 1

\* The rounds so far asked for listed keys, and the next factor is the start, shifted.
SumKeysInv ==
    /\ call \in Calls
    /\ ListedCall => used \subseteq SumKeys(call)
    /\ call.start > 0 => \E k \in Nat : s = call.start * TwoTo(k * logbStep(call.bStep))

LEMMA InitSumKeys == SumsInit => SumKeysInv
<1> SUFFICES ASSUME SumsInit PROVE SumKeysInv
  OBVIOUS
<1>1. call \in Calls /\ used = {} /\ s = call.start
  BY DEF SumsInit
<1>2. s = call.start * TwoTo(0 * logbStep(call.bStep))
  <2>1. call.start \in Nat /\ logbStep(call.bStep) \in Nat
    BY <1>1, CallNumbers
  <2>2. TwoTo(0 * logbStep(call.bStep)) = 1
    BY <2>1, TwoToValue
  <2> QED BY <1>1, <2>1, <2>2
<1> QED BY <1>1, <1>2 DEF SumKeysInv

\* A round that is so many shifts of b is a factor of the list from b.
LEMMA RoundListed ==
    ASSUME call \in Calls, checkBStep(call.bStep), s < call.size,
           NEW b \in Nat \ {0}, NEW k \in Nat, s = b * TwoTo(k * logbStep(call.bStep))
    PROVE  call.stride * s \in Factors(call, call.stride * b, call.stride * call.size)
<1> DEFINE g == logbStep(call.bStep)
           x == call.stride
           z == call.size
           t == TwoTo(k * g)
<1>1. g \in Nat \ {0}
  BY ShiftExact
<1>2. x \in Nat \ {0} /\ z \in Nat \ {0} /\ z <= Slots
  <2>1. x \in Power /\ z \in Power
    BY SumArguments
  <2>2. x \in 1..Slots /\ z \in 1..Slots /\ Slots \in Nat
    BY <2>1, PowerType
  <2> HIDE DEF x, z
  <2> QED BY <2>2
<1> HIDE DEF g, x, z
<1>3. k * g \in Nat /\ k * g >= k
  BY <1>1
<1>4. t \in Nat \ {0} /\ s = b * t
  BY <1>3, TwoToValue DEF g
<1>5. k \in 0..LogSlots
  <2>1. t < TwoTo(LogSlots)
    <3>1. t <= s
      BY <1>4
    <3>2. s < z /\ Slots = TwoTo(LogSlots) /\ Slots \in Nat /\ s \in Nat
      BY <1>4, PowerType DEF Slots, z
    <3> HIDE DEF t
    <3> QED BY <1>2, <1>4, <3>1, <3>2
  <2>2. k * g < LogSlots
    BY <1>3, <2>1, TwoToOrder, SlotsAssumption
  <2> QED BY <1>3, <2>2, SlotsAssumption
<1> HIDE DEF t
<1>6. x * s = (x * b) * t
  BY <1>2, <1>4
<1>7. x * s \in (x * b)..(x * z - 1)
  <2>1. s >= b /\ s \in Nat /\ s < z
    BY <1>4 DEF z
  <2>2. x * s >= x * b
    BY <1>2, <2>1
  <2>3. x * s < x * z
    BY <1>2, <2>1
  <2>4. x * s \in Int /\ x * z \in Int /\ x * b \in Int
    BY <1>2, <2>1
  <2> QED BY <2>2, <2>3, <2>4
<1>8. x * s \in Factors(call, x * b, x * z)
  BY <1>5, <1>6, <1>7 DEF Factors, g, t
<1> QED BY <1>8 DEF x, z

\* A shift more
LEMMA NextFactor ==
    ASSUME call \in Calls, checkBStep(call.bStep), call.start > 0,
           \E k \in Nat : s = call.start * TwoTo(k * logbStep(call.bStep))
    PROVE  /\ s \in Nat \ {0}
           /\ \E k \in Nat : Shifted(call, s) = call.start * TwoTo(k * logbStep(call.bStep))
<1> DEFINE g == logbStep(call.bStep)
<1>1. PICK k \in Nat : s = call.start * TwoTo(k * g)
  OBVIOUS
<1>2. g \in Nat \ {0} /\ TwoTo(g) \in Nat
  BY ShiftExact, TwoToValue
<1>3. call.start \in Nat \ {0}
  BY CallNumbers
<1> HIDE DEF g
<1>4. k * g \in Nat
  BY <1>2
<1>5. TwoTo(k * g) \in Nat \ {0}
  BY <1>4, TwoToValue
<1>6. TwoTo((k + 1) * g) = TwoTo(k * g) * TwoTo(g)
  <2>1. (k + 1) * g = k * g + g
    BY <1>2
  <2> QED BY <1>2, <1>4, <2>1, TwoToSum
<1>7. s * TwoTo(g) = call.start * TwoTo((k + 1) * g)
  <2>1. s * TwoTo(g) = call.start * (TwoTo(k * g) * TwoTo(g))
    BY <1>1, <1>2, <1>3, <1>5
  <2> QED BY <1>6, <2>1
<1>8. Shifted(call, s) = call.start * TwoTo((k + 1) * g)
  BY <1>7 DEF Shifted, g
<1>9. s \in Nat \ {0}
  BY <1>1, <1>3, <1>5
<1> QED BY <1>8, <1>9 DEF g

\* The keys of a list are those of its rounds.
LEMMA AccumulateListed ==
    ASSUME SumKeysInv, call.op = "Accumulate", call.start > 0, checkBStep(call.bStep), s < call.size
    PROVE  Multiples(call.stride * s, call.bStep, call.stride * call.size) \subseteq SumKeys(call)
<1> DEFINE g == logbStep(call.bStep)
           M(f) == Multiples(f, call.bStep, call.stride * call.size)
<1>1. call \in Calls
  BY DEF SumKeysInv
<1>2. PICK k \in Nat : s = call.start * TwoTo(k * g)
  BY DEF SumKeysInv
<1>3. g \in Nat \ {0} /\ call.start \in Nat \ {0} /\ call.stride \in Nat
  BY <1>1, ShiftExact, CallNumbers
<1> HIDE DEF g
<1>4. CASE call.start \in Factors(call, 1, Slots)
  <2>1. PICK k0 \in 0..LogSlots : call.start = 1 * TwoTo(k0 * g)
    BY <1>4 DEF Factors, g
  <2>2. k0 \in Nat
    BY SlotsAssumption
  <2>3. k0 * g \in Nat /\ k * g \in Nat /\ k0 * g + k * g = (k0 + k) * g /\ k0 + k \in Nat
    BY <1>3, <2>2
  <2>4. TwoTo(k0 * g) \in Nat /\ TwoTo(k * g) \in Nat
    BY <2>3, TwoToValue
  <2>5. TwoTo((k0 + k) * g) = TwoTo(k0 * g) * TwoTo(k * g) /\ TwoTo((k0 + k) * g) \in Nat
    BY <2>3, TwoToSum, TwoToValue
  <2>6. s = 1 * TwoTo((k0 + k) * g)
    BY <1>2, <2>1, <2>4, <2>5
  <2>7. call.stride * s \in Factors(call, call.stride * 1, call.stride * call.size)
    BY <1>1, <2>3, <2>6, RoundListed DEF g
  <2>8. call.stride * 1 = call.stride
    BY <1>3
  <2>9. call.stride * s \in Factors(call, call.stride, call.stride * call.size)
    BY <2>7, <2>8
  <2>10. SumKeys(call) = UNION {M(f) : f \in Factors(call, call.stride, call.stride * call.size)}
    BY <1>4 DEF SumKeys, GetAccumulateRotationIndices
  <2> HIDE DEF M
  <2>11. M(call.stride * s) \subseteq SumKeys(call)
    BY <2>9, <2>10
  <2> QED BY <2>11 DEF M
<1>5. CASE call.start \notin Factors(call, 1, Slots)
  <2>1. call.stride * s \in Factors(call, call.stride * call.start, call.stride * call.size)
    BY <1>1, <1>2, <1>3, RoundListed DEF g
  <2>2. SumKeys(call) = UNION {M(f) : f \in Factors(call, call.stride * call.start, call.stride * call.size)}
    BY <1>5 DEF SumKeys, StartIndices
  <2> HIDE DEF M
  <2>3. M(call.stride * s) \subseteq SumKeys(call)
    BY <2>1, <2>2
  <2> QED BY <2>3 DEF M
<1> QED BY <1>4, <1>5

\* Each round asks for keys that the list has for its factor.
LEMMA NextSumKeys ==
    ASSUME SumKeysInv, SumsNext
    PROVE  SumKeysInv'
<1>1. call' = call
  BY DEF SumsNext, Reject, AccumulateRound, BroadcastRound, BroadcastLastRound, Return, Rotate
<1>2. (ListedCall' <=> ListedCall) /\ SumKeys(call)' = SumKeys(call)
      /\ logbStep(call.bStep)' = logbStep(call.bStep)
  BY <1>1 DEF ListedCall, SumKeys, StartIndices, Factors, GetAccumulateRotationIndices,
              GetbroadcastRotationIndices, logbStep
<1>3. CASE UNCHANGED <<s, used>>
  BY <1>1, <1>2, <1>3 DEF SumKeysInv
<1>4. ASSUME NEW I, ListedCall => I \ {0} \subseteq SumKeys(call), used' = used \cup (I \ {0}),
             s' = Shifted(call, s), checkBStep(call.bStep)
      PROVE  SumKeysInv'
  <2>1. ASSUME call.start > 0
        PROVE  \E k \in Nat : s' = call.start * TwoTo(k * logbStep(call.bStep))
    BY <1>4, <2>1, NextFactor DEF SumKeysInv
  <2> QED BY <1>1, <1>2, <1>4, <2>1 DEF SumKeysInv
<1>5. CASE AccumulateRound
  <2> DEFINE I == Multiples(call.stride * s, call.bStep, call.stride * call.size)
  <2>1. used' = used \cup (I \ {0}) /\ s' = Shifted(call, s) /\ checkBStep(call.bStep)
    BY <1>5 DEF AccumulateRound, Running, Rotate
  <2>2. I \subseteq SumKeys(call)
    BY <1>5, AccumulateListed DEF AccumulateRound, Running
  <2> HIDE DEF I
  <2> QED BY <1>4, <2>1, <2>2
<1>6. CASE BroadcastRound \/ BroadcastLastRound
  <2> DEFINE F == Factors(call, call.stride, call.stride * call.size)
             K(f) == IF call.stride * f * call.bStep >= call.stride * call.size
                     THEN LastRound(call, f)
                     ELSE Multiples(f, call.bStep, call.stride * call.size)
             f == call.stride * s
  <2>1. call.op = "Broadcast" /\ s' = Shifted(call, s) /\ checkBStep(call.bStep) /\ s < call.size
    BY <1>6 DEF BroadcastRound, BroadcastLastRound, Running, Rotate
  <2>2. call.start = 1 /\ call.size \in Nat /\ call.bStep \in Nat /\ call \in Calls
    <3>1. call \in Calls
      BY DEF SumKeysInv
    <3>2. call.start = 1
      BY <2>1, <3>1, SumArguments
    <3> QED BY <3>1, <3>2, CallNumbers
  <2>3. SumKeys(call) = UNION {K(e) : e \in F}
    BY <2>1 DEF SumKeys, GetbroadcastRotationIndices
  <2>4. s \in Nat
    BY <2>1, <2>2, NextFactor DEF SumKeysInv
  <2>5. ASSUME ListedCall PROVE call.stride = 1 /\ K(f) \subseteq SumKeys(call)
    <3>1. call.stride = 1
      BY <2>1, <2>5 DEF ListedCall
    <3>2. PICK k \in Nat : s = 1 * TwoTo(k * logbStep(call.bStep))
      BY <2>2 DEF SumKeysInv
    <3>3. call.stride * s \in Factors(call, call.stride * 1, call.stride * call.size)
      BY <2>1, <2>2, <3>2, RoundListed
    <3>4. f \in F
      BY <3>1, <3>3
    <3> HIDE DEF f, F, K
    <3> QED BY <2>3, <3>1, <3>4
  <2>6. CASE BroadcastRound
    <3>1. used' = used \cup (Multiples(f, call.bStep, call.stride * call.size) \ {0})
      BY <2>6 DEF BroadcastRound, Rotate
    <3>2. ListedCall => K(f) = Multiples(f, call.bStep, call.stride * call.size)
      BY <2>2, <2>4, <2>5, <2>6 DEF BroadcastRound, IsLast
    <3> HIDE DEF K, f
    <3> QED BY <1>4, <2>1, <2>5, <3>1, <3>2
  <2>7. CASE BroadcastLastRound
    <3>1. used' = used \cup (LastRound(call, f) \ {0})
      BY <2>7 DEF BroadcastLastRound, Rotate
    <3>2. ListedCall => K(f) = LastRound(call, f)
      BY <2>2, <2>4, <2>5, <2>7 DEF BroadcastLastRound, IsLast
    <3> HIDE DEF K, f
    <3> QED BY <1>4, <2>1, <2>5, <3>1, <3>2
  <2> QED BY <1>6, <2>6, <2>7
<1>7. CASE Reject \/ Return
  BY <1>3, <1>7 DEF Reject, Return
<1> QED BY <1>5, <1>6, <1>7 DEF SumsNext
-----------------------------------------------------------------------------
(* Which keys calls ask for: transforms                                     *)

TransformCalls == LinearTransformCalls \cup ConvolutionCalls \cup BootstrapCalls

\* Indices that a key of the list serves
Served == {d \in Int : Mod(d) \in {Mod(e) : e \in TransformKeys}}

\* The numbers of a transform
Shape(lt) == /\ lt.rowSize \in Nat \ {0} /\ lt.bStep \in Nat \ {0}
             /\ lt.stride \in Int /\ lt.offset \in Int

\* The list has the rotations of a transform: the baby steps, the giant step if there
\* is one, the offset.
ServedTransform(lt) ==
    /\ Shape(lt)
    /\ \A i \in 1..lt.bStep - 1 : i * lt.stride \in Served
    /\ lt.bStep < lt.rowSize => lt.bStep * lt.stride \in Served
    /\ lt.offset # 0 => lt.offset \in Served

LEMMA ListServes ==
    ASSUME NEW d \in Int, d \in TransformKeys PROVE d \in Served
BY DEF Served

\* Which call it is decides what it applies, and its list.
LEMMA OfLinearTransform ==
    ASSUME NEW c \in LinearTransformCalls
    PROVE  /\ c.op = "LinearTransform" /\ TransformsOf(c) = <<c.lt>>
           /\ \E r \in RowSizes, b \in BSteps, st \in Strides, o \in Offsets :
                 c.lt = LinearTransform(r, b, st, o)
<1>1. c.op = "LinearTransform"
  BY DEF LinearTransformCalls
<1>2. TransformsOf(c) = <<c.lt>>
  BY <1>1 DEF TransformsOf
<1> QED BY <1>1, <1>2 DEF LinearTransformCalls

LEMMA OfBootstrap ==
    ASSUME NEW c \in BootstrapCalls
    PROVE  /\ c.op \in {"CoeffsToSlots", "SlotsToCoeffs"} /\ TransformsOf(c) = StageTransforms(c)
           /\ c.slots \in Power /\ c.bootSlots \in Power /\ c.bootSlots # 1
           /\ c.full \in 1..LogSlots /\ c.layers \in 1..LogSlots /\ c.rem \in 0..LogSlots - 1
           /\ c.g \in Power /\ c.gRem \in Power
<1>1. c.op \in {"CoeffsToSlots", "SlotsToCoeffs"}
  BY DEF BootstrapCalls
<1>2. TransformsOf(c) = StageTransforms(c)
  BY <1>1 DEF TransformsOf
<1> QED BY <1>1, <1>2 DEF BootstrapCalls

LEMMA OfConvolution ==
    ASSUME NEW c \in ConvolutionCalls
    PROVE  /\ c.op \in {"Convolution", "SpecialConvolution"} /\ TransformsOf(c) = <<>>
           /\ c.taps \in Seq(Int) /\ c.gStep \in Nat \ {0} /\ c.stride \in Int /\ c.maskStride = 1
<1>1. c.op \in {"Convolution", "SpecialConvolution"}
  BY DEF ConvolutionCalls
<1>2. TransformsOf(c) = <<>>
  BY <1>1 DEF TransformsOf
<1>3. c.taps \in TapLists /\ c.gStep \in GSteps /\ c.stride \in Strides /\ c.maskStride = 1
  BY DEF ConvolutionCalls
<1> QED BY <1>1, <1>2, <1>3, TransformAssumption

\* A transform that a user calls
LEMMA LinearTransformServed ==
    ASSUME call \in LinearTransformCalls
    PROVE  ServedTransform(call.lt)
<1>1. PICK r \in RowSizes, b \in BSteps, st \in Strides, o \in Offsets :
          call.lt = LinearTransform(r, b, st, o)
  BY OfLinearTransform
<1>2. r \in Nat \ {0} /\ b \in Nat \ {0} /\ st \in Int /\ o \in Int
  BY TransformAssumption
<1>3. /\ call.lt.rowSize = r /\ call.lt.bStep = b /\ call.lt.stride = st /\ call.lt.offset = o
  BY <1>1 DEF LinearTransform
<1>4. TransformKeys = {i * st : i \in 1..b} \cup {o}
  BY <1>3, OfLinearTransform DEF TransformKeys, GetLinearTransformRotationIndices
<1>5. \A i \in 1..b : i * st \in Served
  <2> TAKE i \in 1..b
  <2>1. i * st \in Int
    BY <1>2
  <2> QED BY <1>4, <2>1, ListServes
<1>6. o \in Served
  BY <1>2, <1>4, ListServes
<1>7. Shape(call.lt)
  BY <1>2, <1>3 DEF Shape
<1>8. \A i \in 1..b - 1 : i * st \in Served
  BY <1>2, <1>5
<1>9. b * st \in Served
  BY <1>2, <1>5
<1> QED BY <1>3, <1>6, <1>7, <1>8, <1>9 DEF ServedTransform

StageRec == [rowSize : Nat \ {0}, bStep : Nat \ {0}, stride : Nat \ {0}]

LEMMA StagesType ==
    ASSUME NEW c \in BootstrapCalls
    PROVE  Stages(c) \in Seq(StageRec) /\ Len(Stages(c)) \in Nat \ {0}
<1>1. \A n \in Nat, p \in Nat \ {0}, g \in Power : Stage(n, p, g) \in StageRec
  <2> TAKE n \in Nat, p \in Nat \ {0}, g \in Power
  <2>1. TwoTo(n + 1) = 2 * TwoTo(n) /\ TwoTo(n) \in Nat \ {0}
    BY TwoToValue
  <2>2. TwoTo(n + 1) - 1 \in Nat \ {0} /\ g \in Nat \ {0}
    BY <2>1, PowerType
  <2> QED BY <2>2 DEF Stage, StageRec
<1>2. /\ c.full \in Nat \ {0} /\ c.layers \in Nat \ {0} /\ c.rem \in Nat
      /\ c.g \in Power /\ c.gRem \in Power
  BY OfBootstrap, SlotsAssumption
<1> DEFINE Scale(i) == IF c.op = "CoeffsToSlots" THEN TwoTo((c.full - i) * c.layers + c.rem)
                                                 ELSE TwoTo((i - 1) * c.layers)
           lastOne == IF c.op = "CoeffsToSlots" THEN 1 ELSE TwoTo(c.full * c.layers)
           ss == [i \in 1..c.full |-> Stage(c.layers, Scale(i), c.g)]
           tt == IF c.rem > 0 THEN <<Stage(c.rem, lastOne, c.gRem)>> ELSE <<>>
<1>3. \A i \in 1..c.full : Scale(i) \in Nat \ {0}
  <2> TAKE i \in 1..c.full
  <2>1. c.full - i \in Nat /\ i - 1 \in Nat
    BY <1>2
  <2>2. (c.full - i) * c.layers + c.rem \in Nat /\ (i - 1) * c.layers \in Nat
    BY <1>2, <2>1
  <2> QED BY <2>2, TwoToValue
<1>4. lastOne \in Nat \ {0}
  <2>1. c.full * c.layers \in Nat
    BY <1>2
  <2> QED BY <2>1, TwoToValue
<1>5. Stages(c) = ss \o tt
  BY DEF Stages
<1>6. \A i \in 1..c.full : ss[i] \in StageRec
  BY <1>1, <1>2, <1>3
<1>7. Stage(c.rem, lastOne, c.gRem) \in StageRec
  BY <1>1, <1>2, <1>4
<1> HIDE DEF lastOne, Scale
<1>8. ss \in Seq(StageRec) /\ Len(ss) = c.full
  <2>1. ss \in [1..c.full -> StageRec]
    BY <1>6
  <2> HIDE DEF ss
  <2> QED BY <1>2, <2>1
<1>9. tt \in Seq(StageRec)
  BY <1>7
<1> HIDE DEF ss, tt
<1> QED BY <1>2, <1>5, <1>8, <1>9

\* What a chain of stages is off by is a number.
LEMMA OffsetType ==
    ASSUME NEW stages \in Seq(StageRec), NEW i \in 0..Len(stages)
    PROVE  AccOffset(stages, i) \in Nat
<1> DEFINE w == [j \in DOMAIN stages |-> (stages[j].rowSize \div 2) * stages[j].stride]
           U == DOMAIN stages
<1>1. IsFiniteSet(U) /\ 1..i \in SUBSET U
  BY FS_Interval
<1>2. w \in [U -> Nat]
  <2> SUFFICES ASSUME NEW j \in U
               PROVE  (stages[j].rowSize \div 2) * stages[j].stride \in Nat
    OBVIOUS
  <2>1. stages[j] \in StageRec
    OBVIOUS
  <2>2. stages[j].rowSize \in Nat /\ stages[j].stride \in Nat
    BY <2>1 DEF StageRec
  <2>3. stages[j].rowSize \div 2 \in Nat
    BY <2>2
  <2> QED BY <2>2, <2>3
<1>3. AccOffset(stages, i) = Total(w, 1..i)
  BY DEF AccOffset, Total, FoldFunctionOnSet, FoldSet, MapThenFoldSet
<1> HIDE DEF w, U
<1> QED BY <1>1, <1>2, <1>3, TotalWithout

\* The stages of bootstrapping
LEMMA StagesServed ==
    ASSUME call \in BootstrapCalls, NEW i \in DOMAIN StageTransforms(call)
    PROVE  ServedTransform(StageTransforms(call)[i])
<1> DEFINE stages == Stages(call)
           n == Len(stages)
           lt == StageTransforms(call)[i]
           RotIn(st) == {j * st.stride : j \in 0..(st.bStep - 1)}
           RotOut1(st) == IF st.bStep <= st.rowSize THEN {st.bStep * st.stride} ELSE {}
           List == GetBootstrapIndexes(call)
           a == AccOffset(stages, n)
<1>1. stages \in Seq(StageRec) /\ n \in Nat \ {0}
  BY StagesType
<1>2. i \in 1..n /\ lt.rowSize = stages[i].rowSize /\ lt.bStep = stages[i].bStep
      /\ lt.stride = stages[i].stride /\ lt.offset = IF i = n THEN (-a) % call.slots ELSE 0
  BY DEF StageTransforms
<1>3. call.slots \in Nat \ {0} /\ TransformKeys = List
  BY OfBootstrap, PowerType DEF TransformKeys
<1>4. /\ -a \in List /\ RotIn(stages[i]) \subseteq List /\ RotOut1(stages[i]) \subseteq List
  <2>1. i \in DOMAIN stages
    BY <1>1, <1>2
  <2> QED BY <2>1 DEF GetBootstrapIndexes
<1>5. a \in Nat
  BY <1>1, OffsetType
<1> HIDE DEF List, a
<1>6. stages[i] \in StageRec
  BY <1>1, <1>2
<1> DEFINE st == stages[i]
<1>7. st.rowSize \in Nat \ {0} /\ st.bStep \in Nat \ {0} /\ st.stride \in Nat \ {0}
  BY <1>6 DEF StageRec
<1> HIDE DEF stages, lt
<1>8. Shape(lt)
  <2>1. (-a) % call.slots \in Int
    BY <1>3, <1>5
  <2> QED BY <1>2, <1>7, <2>1 DEF Shape
<1>9. \A j \in 1..lt.bStep - 1 : j * lt.stride \in Served
  <2> TAKE j \in 1..lt.bStep - 1
  <2>1. j * st.stride \in Int /\ j \in 0..st.bStep - 1
    BY <1>2, <1>7
  <2>2. j * st.stride \in List
    BY <1>4, <2>1
  <2> QED BY <1>2, <1>3, <2>1, <2>2, ListServes
<1>10. lt.bStep < lt.rowSize => lt.bStep * lt.stride \in Served
  <2> SUFFICES ASSUME st.bStep < st.rowSize PROVE st.bStep * st.stride \in Served
    BY <1>2
  <2>1. st.bStep * st.stride \in List /\ st.bStep * st.stride \in Int
    BY <1>4, <1>7
  <2> QED BY <1>3, <2>1, ListServes
<1>11. lt.offset # 0 => lt.offset \in Served
  <2> SUFFICES ASSUME i = n PROVE (-a) % call.slots \in Served
    BY <1>2
  <2> DEFINE r == (-a) % call.slots
  <2>1. r \in 0..call.slots - 1
    BY <1>3, <1>5
  <2>2. r % call.slots = r
    <3> HIDE DEF r
    <3> QED BY <1>3, <2>1
  <2>3. Mod(r) = Mod(-a) /\ r \in Int
    BY <2>1, <2>2 DEF Mod
  <2> HIDE DEF r
  <2>4. r \in Served
    BY <1>3, <1>4, <2>3 DEF Served
  <2> QED BY <2>4 DEF r
<1> QED BY <1>8, <1>9, <1>10, <1>11 DEF ServedTransform, lt

LEMMA TransformsServed ==
    ASSUME call \in TransformCalls
    PROVE  /\ TransformsOf(call) \in Seq(Range(TransformsOf(call)))
           /\ \A lt \in Range(TransformsOf(call)) : ServedTransform(lt)
<1>1. CASE call \in LinearTransformCalls
  <2>1. TransformsOf(call) = <<call.lt>> /\ ServedTransform(call.lt)
    BY <1>1, OfLinearTransform, LinearTransformServed
  <2>2. Range(<<call.lt>>) = {call.lt} /\ <<call.lt>> \in Seq({call.lt})
    BY DEF Range
  <2> QED BY <2>1, <2>2
<1>2. CASE call \in ConvolutionCalls
  <2>1. TransformsOf(call) = <<>>
    BY <1>2, OfConvolution
  <2> QED BY <2>1 DEF Range
<1>3. CASE call \in BootstrapCalls
  <2>1. TransformsOf(call) = StageTransforms(call)
    BY <1>3, OfBootstrap
  <2>2. DOMAIN StageTransforms(call) = 1..Len(Stages(call)) /\ Len(Stages(call)) \in Nat
    BY <1>3, StagesType DEF StageTransforms
  <2>3. StageTransforms(call) = [i \in 1..Len(Stages(call)) |-> StageTransforms(call)[i]]
    BY DEF StageTransforms
  <2>4. StageTransforms(call) \in Seq(Range(StageTransforms(call)))
    BY <2>2, <2>3 DEF Range
  <2> QED BY <1>3, <2>1, <2>4, StagesServed DEF Range
<1> QED BY <1>1, <1>2, <1>3 DEF TransformCalls

\* The slots a ciphertext declares
LEMMA SlotsOfCall ==
    ASSUME call \in TransformCalls
    PROVE  call.slots \in Nat \ {0} /\ ~SumsSlots
<1>1. CASE call \in BootstrapCalls
  BY <1>1, OfBootstrap, PowerType DEF SumsSlots
<1>2. CASE call \in LinearTransformCalls
  <2>1. call.slots \in SlotCounts /\ call.op = "LinearTransform"
    BY <1>2 DEF LinearTransformCalls
  <2> QED BY <2>1, TransformAssumption, PowerType DEF SumsSlots
<1>3. CASE call \in ConvolutionCalls
  <2>1. call.slots \in SlotCounts /\ call.op \in {"Convolution", "SpecialConvolution"}
    BY <1>3 DEF ConvolutionCalls
  <2> QED BY <2>1, TransformAssumption, PowerType DEF SumsSlots
<1> QED BY <1>1, <1>2, <1>3 DEF TransformCalls

\* The rows of a transform, and what more than one of them tell
LEMMA GiantSteps ==
    ASSUME NEW lt, Shape(lt)
    PROVE  gStep(lt) \in Nat /\ (gStep(lt) > 1 => lt.bStep < lt.rowSize)
<1> DEFINE r == lt.rowSize
           b == lt.bStep
           y == r + b - 1
           q == y \div b
<1>1. r \in Nat \ {0} /\ b \in Nat \ {0} /\ y \in Nat /\ gStep(lt) = q
  BY DEF Shape, gStep
<1> HIDE DEF y, b, r
<1>2. q \in Int /\ y % b \in 0..b - 1 /\ y = b * q + (y % b)
  BY <1>1, Division
<1> HIDE DEF q
<1>3. q >= 0
  <2> SUFFICES ASSUME q <= -1 PROVE FALSE
    BY <1>2
  <2>1. b * q <= -b
    BY <1>1, <1>2
  <2> QED BY <1>1, <1>2, <2>1
<1>4. q > 1 => b < r
  <2> SUFFICES ASSUME q >= 2 PROVE b < r
    BY <1>2
  <2>1. b * q >= 2 * b
    BY <1>1, <1>2
  <2> QED BY <1>1, <1>2, <2>1 DEF y
<1> QED BY <1>1, <1>2, <1>3, <1>4 DEF r, b

\* The calls that a list of keys is right for
HasList == call \in ConvolutionCalls => blockCount(call) > 1

TransformInv ==
    /\ call \in TransformCalls
    /\ HasList => used \subseteq Served
    /\ todo \in Seq(Range(TransformsOf(call)))
    /\ \E T : rows \in Seq(T)
    /\ Len(rows) <= IF todo = <<>> THEN 0 ELSE gStep(Head(todo))
    /\ \E T : blocks \in Seq(T)
    /\ call \in ConvolutionCalls => Len(blocks) <= blockCount(call)

\* The transform under way
LEMMA HeadServed ==
    ASSUME TransformInv, todo # <<>>
    PROVE  /\ ServedTransform(Head(todo)) /\ Shape(Head(todo)) /\ gStep(Head(todo)) \in Nat
           /\ Tail(todo) \in Seq(Range(TransformsOf(call)))
<1>1. Head(todo) \in Range(TransformsOf(call)) /\ Tail(todo) \in Seq(Range(TransformsOf(call)))
  BY DEF TransformInv
<1>2. ServedTransform(Head(todo))
  BY <1>1, TransformsServed DEF TransformInv
<1> QED BY <1>1, <1>2, GiantSteps DEF ServedTransform

LEMMA BlockCount ==
    ASSUME NEW c \in ConvolutionCalls
    PROVE  /\ blockCount(c) \in Nat \ {0}
           /\ (blockCount(c) - 1) * INTERNAL_GSTEP < c.gStep
           /\ c.gStep <= blockCount(c) * INTERNAL_GSTEP
  BY OfConvolution DEF blockCount, INTERNAL_GSTEP

LEMMA InitTransformKeys == TransformInit => TransformInv
<1> SUFFICES ASSUME TransformInit PROVE TransformInv
  OBVIOUS
<1>1. call \in TransformCalls /\ todo = TransformsOf(call) /\ used = {} /\ rows = <<>> /\ blocks = <<>>
  BY DEF TransformInit, TransformCalls
<1>2. todo \in Seq(Range(TransformsOf(call))) /\ \A lt \in Range(TransformsOf(call)) : ServedTransform(lt)
  BY <1>1, TransformsServed
<1>3. todo # <<>> => gStep(Head(todo)) \in Nat
  BY <1>2, GiantSteps DEF ServedTransform
<1>4. <<>> \in Seq({}) /\ Len(<<>>) = 0
  OBVIOUS
<1>5. call \in ConvolutionCalls => blockCount(call) \in Nat
  BY BlockCount
<1> QED BY <1>1, <1>2, <1>3, <1>4, <1>5 DEF TransformInv

\* Steps of a transform
LEMMA NextTransformKeys ==
    ASSUME TransformInv, TransformNext
    PROVE  TransformInv'
<1>1. call' = call
  BY DEF TransformNext, BabySteps, GiantStep, EndTransform, Unfold, ReturnTransformed,
         ConvolutionBlock, JoinBlocks, Throw
<1>2. Served' = Served /\ (HasList' <=> HasList)
  BY <1>1 DEF Served, Mod, TransformKeys, HasList, blockCount
<1>3. call.slots \in Nat \ {0} /\ call \in TransformCalls
  BY SlotsOfCall DEF TransformInv
<1>4. CASE BabySteps
  <2> DEFINE lt == Head(todo)
             index == [i \in 1..lt.bStep |-> (i - 1) * lt.stride]
             made == [j \in 1..gStep(lt) |->
                         DotProduct(value, index, j - 1, lt.rowSize, PlaintextRotation(lt, j - 1))]
  <2>1. /\ todo # <<>> /\ rows' = made /\ used' = used \cup KeysFor(Range(index))
        /\ UNCHANGED <<todo, blocks>>
    BY <1>4 DEF BabySteps, InTransform, transformVars
  <2>2. ServedTransform(lt) /\ Shape(lt) /\ gStep(lt) \in Nat
    BY <2>1, HeadServed
  <2>3. KeysFor(Range(index)) \subseteq Served
    <3> SUFFICES ASSUME NEW i \in 1..lt.bStep, ~NoRotation((i - 1) * lt.stride)
                 PROVE  (i - 1) * lt.stride \in Served
      BY DEF KeysFor, Range
    <3>1. lt.stride \in Int /\ lt.bStep \in Nat
      BY <2>2 DEF Shape
    <3>2. i # 1
      <4> SUFFICES ASSUME i = 1 PROVE FALSE
        OBVIOUS
      <4>1. (i - 1) * lt.stride = 0
        BY <3>1
      <4>2. 0 % call.slots = 0
        BY <1>3
      <4> QED BY <4>1, <4>2 DEF NoRotation
    <3>3. i - 1 \in 1..lt.bStep - 1
      BY <3>1, <3>2
    <3> QED BY <2>2, <3>3 DEF ServedTransform
  <2>4. made \in Seq(Range(made)) /\ Len(made) = gStep(lt)
    <3> DEFINE m == gStep(lt)
    <3>1. m \in Nat
      BY <2>2
    <3> HIDE DEF m
    <3>2. DOMAIN made = 1..m /\ made = [j \in DOMAIN made |-> made[j]]
      BY DEF m
    <3> HIDE DEF made
    <3>3. made \in [1..m -> Range(made)]
      BY <3>2 DEF Range
    <3>4. made \in Seq(Range(made)) /\ Len(made) = m
      BY <3>1, <3>3
    <3> QED BY <3>4 DEF m
  <2> HIDE DEF made, index
  <2> QED BY <1>1, <1>2, <2>1, <2>3, <2>4 DEF TransformInv
<1>5. CASE GiantStep
  <2> DEFINE lt == Head(todo)
             d == lt.bStep * lt.stride
             n == Len(rows)
  <2>1. todo # <<>> /\ n > 1
    BY <1>5 DEF GiantStep, InTransform
  <2>2. ServedTransform(lt) /\ Shape(lt) /\ gStep(lt) \in Nat /\ n <= gStep(lt)
    BY <2>1, HeadServed DEF TransformInv
  <2>3. PICK T : rows \in Seq(T)
    BY DEF TransformInv
  <2>4. d \in Served
    BY <2>1, <2>2, <2>3, GiantSteps DEF ServedTransform
  <2>5. ASSUME NEW row, rows' = Append(SubSeq(rows, 1, n - 2), rows[n - 1] (+) row),
               UNCHANGED <<todo, blocks>>, used' \subseteq used \cup {d}
        PROVE  TransformInv'
    <3> DEFINE x == rows[n - 1] (+) row
               front == SubSeq(rows, 1, n - 2)
    <3>1. n \in Nat /\ front \in Seq(T) /\ Len(front) = n - 2
      <4>1. n \in Nat /\ n - 2 \in 0..n
        BY <2>1, <2>3
      <4>2. \A i \in 1..n - 2 : i \in 1..Len(rows) /\ rows[i] \in T
        BY <2>3, <4>1
      <4>3. n - 2 \in Int /\ 1 \in Int /\ \A i \in 1..n - 2 : rows[i] \in T
        BY <4>1, <4>2
      <4> HIDE DEF n
      <4> DEFINE m == n - 2
      <4> HIDE DEF m
      <4>4. /\ SubSeq(rows, 1, m) \in Seq(T)
            /\ Len(SubSeq(rows, 1, m)) = IF 1 <= m THEN m - 1 + 1 ELSE 0
        BY <4>3, SubSeqProperties DEF m
      <4> QED BY <4>1, <4>4 DEF m
    <3> HIDE DEF x, front
    <3>2. front \in Seq(T \cup {x})
      BY <3>1
    <3>3. Append(front, x) \in Seq(T \cup {x}) /\ Len(Append(front, x)) = n - 1
      BY <3>1, <3>2
    <3>4. rows' = Append(front, x)
      BY <2>5 DEF x, front
    <3>5. Len(rows') <= gStep(lt)
      BY <2>2, <3>1, <3>3, <3>4
    <3> QED BY <1>1, <1>2, <2>1, <2>4, <2>5, <3>3, <3>4, <3>5 DEF TransformInv
  <2>6. CASE d % Slots = 0 /\ ~(UNCHANGED transformVars)
    BY <1>5, <2>5, <2>6 DEF GiantStep, Throw
  <2>7. CASE d % Slots # 0 /\ ~(UNCHANGED transformVars)
    BY <1>5, <2>5, <2>7 DEF GiantStep, Throw
  <2>8. CASE UNCHANGED transformVars
    <3>1. used' \subseteq used \cup {d}
      BY <1>5 DEF GiantStep, Throw
    <3> QED BY <1>1, <1>2, <2>4, <2>8, <3>1 DEF TransformInv, transformVars
  <2> QED BY <2>6, <2>7, <2>8
<1>6. CASE EndTransform
  <2> DEFINE d == Head(todo).offset
  <2>1. todo # <<>>
    BY <1>6 DEF EndTransform, InTransform
  <2>2. ServedTransform(Head(todo)) /\ Tail(todo) \in Seq(Range(TransformsOf(call)))
    BY <2>1, HeadServed
  <2>3. {d} \ {0} \subseteq Served
    BY <2>2 DEF ServedTransform
  <2>4. CASE /\ used' = used \cup ({d} \ {0}) /\ rows' = <<>> /\ todo' = Tail(todo)
             /\ UNCHANGED blocks
    <3>1. Tail(todo) # <<>> => gStep(Head(Tail(todo))) \in Nat
      <4> SUFFICES ASSUME Tail(todo) # <<>> PROVE gStep(Head(Tail(todo))) \in Nat
        OBVIOUS
      <4>1. Head(Tail(todo)) \in Range(TransformsOf(call))
        BY <2>2
      <4> QED BY <1>3, <4>1, TransformsServed, GiantSteps DEF ServedTransform
    <3>2. <<>> \in Seq({}) /\ Len(<<>>) = 0
      OBVIOUS
    <3> QED BY <1>1, <1>2, <2>2, <2>3, <2>4, <3>1, <3>2 DEF TransformInv
  <2>5. CASE UNCHANGED <<used, transformVars>>
    BY <1>1, <1>2, <2>5 DEF TransformInv, transformVars
  <2> QED BY <1>6, <2>4, <2>5 DEF EndTransform, Throw
<1>7. CASE Unfold
  <2>1. /\ call.op = "SlotsToCoeffs" /\ Sparse(call) /\ used' = used \cup {call.bootSlots}
        /\ UNCHANGED <<todo, rows, blocks>>
    BY <1>7 DEF Unfold
  <2>2. call \in BootstrapCalls
    BY <1>3, <2>1, OfLinearTransform, OfConvolution DEF TransformCalls
  <2>3. call.bootSlots \in Served
    <3> DEFINE b == call.bootSlots
               z == Slots \div b
               c == [bStep |-> 4, stride |-> b, size |-> z]
    <3>1. b \in Power /\ b \in 1..Slots /\ b # Slots /\ Slots \in Nat \ {0}
      BY <2>1, <2>2, OfBootstrap, PowerType DEF Sparse
    <3>2. PICK q \in Nat \ {0} : Slots = b * q
      <4>1. b \in TwoPower /\ Slots \in TwoPower /\ b <= Slots
        BY <3>1, PowerType
      <4> HIDE DEF b
      <4> QED BY <4>1, PowersDivide
    <3>3. z = q
      <4>1. b \in Nat \ {0} /\ Slots = b * q + 0 /\ 0 \in 0..b - 1
        BY <3>1, <3>2
      <4> QED BY <3>1, <4>1, Remainder
    <3> HIDE DEF z
    <3>4. c.bStep = 4 /\ c.stride = b /\ c.size = z
      OBVIOUS
    <3> HIDE DEF c, b
    <3>5. b \in Factors(c, b, b * z)
      <4>1. b \in b..(b * z - 1)
        BY <3>1, <3>2, <3>3
      <4>2. 0 \in 0..LogSlots /\ b = b * TwoTo(0 * logbStep(4))
        <5>1. TwoTo(0) = 1
          BY TwoToValue
        <5>2. 0 * logbStep(4) = 0
          <6>1. logbStep(4) \in Int
            BY ShiftType
          <6> QED BY <6>1
        <5> QED BY <3>1, <5>1, <5>2, SlotsAssumption
      <4> QED BY <3>4, <4>1, <4>2 DEF Factors
    <3>6. b \in Multiples(b, 4, b * z)
      <4>1. 1 * b = b /\ 1 \in 1..3 /\ b < b * z
        BY <3>1, <3>2, <3>3
      <4> QED BY <4>1 DEF Multiples
    <3>7. b \in GetAccumulateRotationIndices(c)
      BY <3>4, <3>5, <3>6 DEF GetAccumulateRotationIndices
    <3>8. b \in GetBootstrapIndexes(call)
      BY <2>1, <3>7 DEF GetBootstrapIndexes, b, c, z
    <3> QED BY <2>1, <3>1, <3>8, ListServes DEF TransformKeys, b
  <2> QED BY <1>1, <1>2, <2>1, <2>3 DEF TransformInv
<1>8. CASE ReturnTransformed
  BY <1>1, <1>2, <1>8 DEF ReturnTransformed, TransformInv, transformVars
<1>9. CASE ConvolutionBlock \/ JoinBlocks
  <2> DEFINE G == INTERNAL_GSTEP
             n == blockCount(call)
             st == call.stride
             Listed == {st * k : k \in 1..((IF call.gStep < G THEN call.gStep ELSE G) - 1)}
                       \cup {G * st * k : k \in 1..(n - 1)}
                       \cup Range(call.taps) \cup {call.maskStride}
  <2>1. call \in ConvolutionCalls /\ call.op \in {"Convolution", "SpecialConvolution"}
    BY <1>3, <1>9, OfLinearTransform, OfBootstrap
       DEF TransformCalls, ConvolutionBlock, JoinBlocks, IsConvolution
  <2>2. TransformKeys = Listed
    BY <2>1 DEF TransformKeys, GetConvolutionTransformRotationIndices
  <2>3. /\ call.gStep \in Nat \ {0} /\ st \in Int /\ call.taps \in Seq(Int) /\ call.maskStride = 1
        /\ n \in Nat \ {0} /\ (n - 1) * G < call.gStep /\ call.gStep <= n * G /\ G = 8
    BY <2>1, OfConvolution, BlockCount DEF INTERNAL_GSTEP
  <2>4. Range(call.taps) \subseteq Served /\ call.maskStride \in Served
    <3>1. Range(call.taps) \subseteq Int
      BY <2>3 DEF Range
    <3>2. Range(call.taps) \subseteq TransformKeys /\ call.maskStride \in TransformKeys
      BY <2>2
    <3> QED BY <2>3, <3>1, <3>2, ListServes
  <2>5. ASSUME NEW k \in 1..n - 1 PROVE G * st * k \in Served
    <3>1. G * st * k \in TransformKeys
      BY <2>2
    <3>2. G * st * k \in Int
      BY <2>3
    <3> QED BY <3>1, <3>2, ListServes
  <2>6. ASSUME n # 1, NEW k \in Nat \ {0}, k <= G, k <= call.gStep PROVE st * k \in Served
    <3>1. st * k \in Int
      BY <2>3
    <3>2. CASE k < G /\ k < call.gStep
      <4> DEFINE u == (IF call.gStep < G THEN call.gStep ELSE G) - 1
      <4>0. k \in 1..u
        BY <2>3, <3>2
      <4> HIDE DEF u
      <4>1. st * k \in TransformKeys
        <5>1. st * k \in {st * i : i \in 1..u}
          BY <4>0
        <5> QED BY <2>2, <5>1 DEF u
      <4> QED BY <3>1, <4>1, ListServes
    <3>3. CASE k = G
      <4>1. 1 \in 1..n - 1 /\ st * k = G * st * 1
        BY <2>3, <2>6, <3>3
      <4> QED BY <2>5, <4>1
    <3>4. k = call.gStep => k = G
      <4> SUFFICES ASSUME k = call.gStep PROVE k = G
        OBVIOUS
      <4>1. (n - 1) * G >= G
        BY <2>3, <2>6
      <4> QED BY <2>3, <2>6, <4>1
    <3>5. (k < G /\ k < call.gStep) \/ k = G \/ k = call.gStep
      BY <2>3, <2>6
    <3> QED BY <3>2, <3>3, <3>4, <3>5
  <2> HIDE DEF G, n, st, Listed
  <2>7. CASE ConvolutionBlock
    <3> DEFINE b == Len(blocks)
               count == currentBlockGStep(call, b)
               D(j) == st * (count - j)
    <3>1. PICK T : blocks \in Seq(T)
      BY DEF TransformInv
    <3>2. b \in Nat /\ b < n
      BY <2>7, <3>1 DEF ConvolutionBlock, n
    <3>3. count \in Nat \ {0} /\ count <= G /\ count <= call.gStep
      <4>1. CASE b < n - 1
        <5>1. count = G
          BY <4>1 DEF currentBlockGStep, G, n
        <5>2. (n - 1) * G >= G
          BY <2>3, <3>2, <4>1
        <5> QED BY <2>3, <5>1, <5>2
      <4>2. CASE b = n - 1
        <5>1. count = call.gStep - b * G
          BY <4>2 DEF currentBlockGStep, G, n
        <5>2. n * G = (n - 1) * G + G /\ b * G >= 0
          BY <2>3, <3>2
        <5>3. b * G = (n - 1) * G /\ b * G \in Nat
          BY <2>3, <3>2, <4>2
        <5> QED BY <2>3, <5>1, <5>2, <5>3
      <4> QED BY <2>3, <3>2, <4>1, <4>2
    <3> HIDE DEF count
    <3>4. ASSUME HasList PROVE {D(j) : j \in 0..(count - 1)} \subseteq Served
      <4> SUFFICES ASSUME NEW j \in 0..count - 1 PROVE st * (count - j) \in Served
        OBVIOUS
      <4>0. n # 1
        BY <2>1, <3>4 DEF HasList, n
      <4> DEFINE k == count - j
      <4>1. k \in Nat \ {0} /\ k <= G /\ k <= call.gStep
        BY <2>3, <3>3
      <4> HIDE DEF k
      <4>2. st * k \in Served
        BY <2>6, <4>0, <4>1
      <4> QED BY <4>2 DEF k
    <3>5. used' \subseteq used \cup Range(call.taps) \cup {D(j) : j \in 0..(count - 1)}
                          \cup {call.maskStride}
      BY <2>7 DEF ConvolutionBlock, KeysFor, st, count
    <3>6. /\ \E x : blocks' = Append(blocks, x)
          /\ UNCHANGED <<todo, rows>>
      BY <2>7 DEF ConvolutionBlock
    <3>7. (\E U : blocks' \in Seq(U)) /\ Len(blocks') <= n
      <4>1. PICK x : blocks' = Append(blocks, x)
        BY <3>6
      <4>2. blocks \in Seq(T \cup {x})
        BY <3>1
      <4>3. Append(blocks, x) \in Seq(T \cup {x}) /\ Len(Append(blocks, x)) = Len(blocks) + 1
        BY <4>2
      <4> QED BY <2>3, <3>2, <4>1, <4>3
    <3>8. HasList => used' \subseteq Served
      BY <2>4, <3>4, <3>5 DEF TransformInv
    <3> QED BY <1>1, <1>2, <3>6, <3>7, <3>8 DEF TransformInv, n
  <2>8. CASE JoinBlocks
    <3> DEFINE D(b) == (n - 1 - b) * G * st
    <3>1. used' \subseteq used \cup {D(b) : b \in 0..(n - 2)} /\ UNCHANGED <<todo, rows, blocks>>
      BY <2>8 DEF JoinBlocks, KeysFor, G, n, st
    <3>2. {D(b) : b \in 0..(n - 2)} \subseteq Served
      <4> SUFFICES ASSUME NEW b \in 0..n - 2 PROVE D(b) \in Served
        OBVIOUS
      <4> DEFINE k == n - 1 - b
      <4>1. k \in 1..n - 1
        BY <2>3
      <4> HIDE DEF k
      <4>2. G * st * k \in Served
        BY <2>5, <4>1
      <4>3. k * G * st = G * st * k
        BY <2>3, <4>1
      <4> QED BY <4>2, <4>3 DEF k
    <3>3. HasList => used' \subseteq Served
      BY <3>1, <3>2 DEF TransformInv
    <3> QED BY <1>1, <1>2, <3>1, <3>3 DEF TransformInv
  <2> QED BY <1>9, <2>7, <2>8
<1> QED BY <1>4, <1>5, <1>6, <1>7, <1>8, <1>9 DEF TransformNext

\* Calls of either kind
RotationKeysInv == SumKeysInv \/ TransformInv

\* A call asks only for rotation keys that its user is told to generate: the lists
\* GetAccumulateRotationIndices, GetLinearTransformRotationIndices, GetBootstrapIndexes
\* and, for two blocks or more, GetConvolutionTransformRotationIndices; the documented
\* rounds for a start that has no list; GetbroadcastRotationIndices for an initsize of
\* 1.  With any number of slots, rows, steps, taps and stages.
THEOREM KeysAlwaysListed == RotationsSpec => []KeysListed
<1>1. RotationsInit => RotationKeysInv
  BY InitSumKeys, InitTransformKeys DEF RotationsInit, RotationKeysInv
<1>2. ASSUME RotationKeysInv, [RotationsNext]_allVars PROVE RotationKeysInv'
  <2>1. CASE UNCHANGED allVars
    <3>1. UNCHANGED <<call, used, s, todo, rows, blocks>>
      BY <2>1 DEF allVars, sumVars, transformVars
    <3>2. SumKeysInv => SumKeysInv'
      BY <3>1 DEF SumKeysInv, ListedCall
    <3>3. TransformInv => TransformInv'
      BY <3>1 DEF TransformInv, HasList, Served, Mod, TransformKeys
    <3> QED BY <1>2, <3>2, <3>3 DEF RotationKeysInv
  <2>2. CASE SumsSlots /\ SumsNext
    <3>1. SumKeysInv
      BY <1>2, <2>2, SlotsOfCall DEF RotationKeysInv, TransformInv
    <3> QED BY <2>2, <3>1, NextSumKeys DEF RotationKeysInv
  <2>3. CASE ~SumsSlots /\ TransformNext
    <3>1. TransformInv
      BY <1>2, <2>3, SumArguments DEF RotationKeysInv, SumKeysInv, SumsSlots
    <3> QED BY <2>3, <3>1, NextTransformKeys DEF RotationKeysInv
  <2> QED BY <1>2, <2>1, <2>2, <2>3 DEF RotationsNext
<1>3. ASSUME RotationKeysInv PROVE KeysListed
  <2>1. CASE SumKeysInv
    <3>1. SumsSlots
      BY <2>1, SumArguments DEF SumKeysInv, SumsSlots
    <3>2. KeysSuffice
      BY <2>1 DEF KeysSuffice, SumKeysInv, ListedCall
    <3> QED BY <3>1, <3>2 DEF KeysListed
  <2>2. CASE TransformInv
    <3>1. ~SumsSlots
      BY <2>2, SlotsOfCall DEF TransformInv
    <3>2. ASSUME IsConvolutionCall => blockCount(call) > 1 PROVE UsesListedKeys
      <4>1. HasList
        BY <3>2, OfConvolution DEF HasList, IsConvolutionCall
      <4> QED BY <2>2, <4>1 DEF TransformInv, Served, UsesListedKeys
    <3> QED BY <3>1, <3>2 DEF KeysListed, KeysSuffice
  <2> QED BY <1>3, <2>1, <2>2 DEF RotationKeysInv
<1> QED BY <1>1, <1>2, <1>3, PTL DEF RotationsSpec
-----------------------------------------------------------------------------
(* What sums of slots leave in the slots                                    *)

\* The input rotated by each number of a set, once
Once(W) == [r \in Slot |-> IF r \in W THEN 1 ELSE 0]

\* What a sum of rotations has of the input rotated by r, if no two of them lead to r.
LEMMA RotatedOnce ==
    ASSUME NEW W, weight = Once(W), NEW I \in SUBSET Int, IsFiniteSet(I), NEW r \in Slot, NEW z,
           \A j \in I : (r - j) % Slots \in W => j = z
    PROVE  Rotated(I)[r] = IF z \in I /\ (r - z) % Slots \in W THEN 1 ELSE 0
<1> DEFINE w == [j \in I |-> weight[(r - j) % Slots]]
<1>1. \A j \in I : (r - j) % Slots \in Slot
  BY PowerType DEF Slot
<1>2. \A j \in I : w[j] = IF (r - j) % Slots \in W THEN 1 ELSE 0
  BY <1>1 DEF Once
<1>3. w \in [I -> Nat]
  BY <1>2
<1>4. Rotated(I)[r] = SumFunction(w)
  BY DEF Rotated
<1>5. DOMAIN w = I
  OBVIOUS
<1> HIDE DEF w
<1>6. SumFunction(w) = Total(w, I)
  BY <1>5 DEF SumFunction, SumFunctionOnSet, Total, FoldFunctionOnSet, FoldSet, MapThenFoldSet
<1>7. \A j \in I : j # z => w[j] = 0
  BY <1>2
<1>8. Total(w, I) = IF z \in I THEN w[z] ELSE 0
  BY <1>3, <1>7, TotalOfOne
<1> QED BY <1>2, <1>4, <1>6, <1>8

\* The rotations by the multiples of u below t and below e
Below(u, t, e) == {r \in Nat : r < t /\ r < e /\ \E q \in Nat : r = u * q}

\* Numbers of a round: t is the least rotation, e the end, n the slots.
Round(n, u, t, e) ==
    /\ n \in Nat \ {0} /\ u \in Nat \ {0} /\ t \in Nat \ {0} /\ e \in Nat \ {0}
    /\ t < e /\ e <= n
    /\ \E q \in Nat \ {0} : t = u * q
    /\ \E q \in Nat \ {0} : e = t * q

\* Where the rotation by k * t of what is there comes from: nothing wraps around.
LEMMA RoundSource ==
    ASSUME NEW n, NEW u, NEW t, NEW e, Round(n, u, t, e), NEW r \in 0..n - 1,
           NEW k \in Nat, k * t < e
    PROVE  (r - k * t) % n \in Below(u, t, e) <=> k = r \div t /\ \E q \in Nat : r = u * q
<1> DEFINE i == r \div t
           y == r % t
<1>1. /\ n \in Nat \ {0} /\ u \in Nat \ {0} /\ t \in Nat \ {0} /\ e \in Nat \ {0}
      /\ t < e /\ e <= n /\ r \in Nat /\ r < n
  BY DEF Round
<1>2. PICK c \in Nat \ {0} : t = u * c
  BY DEF Round
<1>3. PICK d \in Nat \ {0} : e = t * d
  BY DEF Round
<1>4. i \in Int /\ y \in 0..t - 1 /\ r = t * i + y
  <2>1. r \in Int /\ t \in Nat \ {0}
    BY <1>1
  <2> QED BY <2>1, Division
<1> HIDE DEF i, y
<1> DEFINE m == k * t
<1>5. m \in Nat /\ m = t * k /\ m + t <= e
  <2>1. m \in Nat /\ m = t * k
    BY <1>1
  <2>2. k < d
    <3>1. ~(t * d <= t * k)
      BY <1>1, <1>3
    <3>2. ~(d < k) /\ d # k
      BY <1>1, <3>1, MultipleOrder
    <3> QED BY <3>2
  <2>3. t * k + t <= t * d
    BY <1>1, <2>2, MultipleOrder
  <2> QED BY <1>3, <2>1, <2>3
<1>6. CASE r < m
  <2>1. (r - m) % n = r - m + n
    <3> DEFINE x == r - m
               z == x + n
    <3>1. x \in Int /\ z \in 0..n - 1 /\ x = n * (-1) + z /\ -1 \in Int
      BY <1>1, <1>5, <1>6
    <3> HIDE DEF x, z
    <3>2. x % n = z
      BY <1>1, <3>1, Remainder
    <3> QED BY <3>2 DEF x, z
  <2>2. ~(r - m + n < t)
    BY <1>1, <1>5
  <2>3. k # i
    BY <1>1, <1>4, <1>5, <1>6
  <2> QED BY <2>1, <2>2, <2>3 DEF Below, i
<1>7. CASE m <= r
  <2>1. (r - m) % n = r - m
    <3>1. r - m \in Int /\ r - m \in 0..n - 1 /\ r - m = n * 0 + (r - m)
      BY <1>1, <1>5, <1>7
    <3> HIDE DEF m
    <3> QED BY <1>1, <3>1, Remainder
  <2>2. r - m < t <=> k = i
    <3>1. CASE k = i
      BY <1>1, <1>4, <1>5, <3>1
    <3>2. CASE k < i
      <4>1. t * k + t <= t * i
        BY <1>1, <1>4, <3>2, MultipleOrder
      <4>2. t * i \in Int /\ t * k \in Int
        BY <1>1, <1>4
      <4> QED BY <1>1, <1>4, <1>5, <3>2, <4>1, <4>2
    <3>3. CASE i < k
      <4>1. t * i + t <= t * k
        BY <1>1, <1>4, <3>3, MultipleOrder
      <4>2. t * i \in Int /\ t * k \in Int
        BY <1>1, <1>4
      <4> QED BY <1>1, <1>4, <1>5, <1>7, <4>1, <4>2
    <3> QED BY <1>4, <3>1, <3>2, <3>3
  <2>3. (\E q \in Nat : r - m = u * q) <=> \E q \in Nat : r = u * q
    <3>1. m = u * (c * k) /\ c * k \in Nat
      BY <1>1, <1>2, <1>5
    <3> DEFINE f == c * k
    <3> HIDE DEF f, m
    <3>2. ASSUME NEW q \in Nat, r - m = u * q PROVE r = u * (q + f) /\ q + f \in Nat
      BY <1>1, <1>5, <3>1, <3>2 DEF f
    <3>3. ASSUME NEW q \in Nat, r = u * q PROVE r - m = u * (q - f) /\ q - f \in Nat
      <4>1. r - m = u * (q - f) /\ q - f \in Int
        BY <1>1, <1>5, <3>1, <3>3 DEF f
      <4>2. ~(q < f)
        <5>1. u * f <= u * q
          BY <1>7, <3>1, <3>3 DEF f
        <5>2. q < f => u * q + u <= u * f
          BY <1>1, <3>1, MultipleOrder DEF f
        <5>3. u * f \in Int /\ u * q \in Int
          BY <1>1, <3>1 DEF f
        <5> QED BY <1>1, <5>1, <5>2, <5>3
      <4> QED BY <3>1, <4>1, <4>2 DEF f
    <3> QED BY <3>2, <3>3
  <2>4. r - m \in Nat /\ (r - m < t => r - m < e)
    BY <1>1, <1>5, <1>7
  <2> QED BY <2>1, <2>2, <2>3, <2>4 DEF Below, i
<1> QED BY <1>1, <1>5, <1>6, <1>7

\* A round leaves the rotations below b times t.
LEMMA RoundAdds ==
    ASSUME NEW u, NEW t, NEW e, NEW b \in Nat, b >= 2, Round(Slots, u, t, e),
           weight = Once(Below(u, t, e)), NEW I, I = {k * t : k \in {k \in 1..(b - 1) : k * t < e}}
    PROVE  Plus(weight, Rotated(I)) = Once(Below(u, t * b, e))
<1> DEFINE W == Below(u, t, e)
           V == Below(u, t * b, e)
           n == Slots
<1>1. /\ n \in Nat \ {0} /\ u \in Nat \ {0} /\ t \in Nat \ {0} /\ e \in Nat \ {0}
      /\ t < e /\ e <= n
  BY DEF Round
<1>2. PICK d \in Nat \ {0} : e = t * d
  BY DEF Round
<1>3. IsFiniteSet(I) /\ I \in SUBSET Int
  <2>1. \A k \in 1..(b - 1) : k * t \in Nat /\ (k * t < e => k * t \in 0..e)
    BY <1>1
  <2>2. I \in SUBSET (0..e)
    BY <2>1
  <2>3. IsFiniteSet(0..e) /\ 0..e \subseteq Int
    BY <1>1, FS_Interval
  <2> QED BY <2>2, <2>3, FS_Subset
<1>4. ASSUME NEW r \in Slot
      PROVE  weight[r] + Rotated(I)[r] = IF r \in V THEN 1 ELSE 0
  <2> DEFINE i == r \div t
             y == r % t
             D == \E q \in Nat : r = u * q
  <2>1. r \in 0..n - 1 /\ r \in Int /\ r \in Nat
    BY <1>1 DEF Slot
  <2>2. i \in Int /\ y \in 0..t - 1 /\ r = t * i + y
    BY <1>1, <2>1, Division
  <2>3. \A j \in I : (r - j) % n \in W <=> j = i * t /\ D
    <3> SUFFICES ASSUME NEW k \in 1..(b - 1), k * t < e
                 PROVE  (r - k * t) % n \in W <=> k * t = i * t /\ D
      OBVIOUS
    <3>1. (r - k * t) % n \in W <=> k = i /\ D
      BY <2>1, RoundSource
    <3>2. k * t = i * t <=> k = i
      <4>1. k \in Int /\ i \in Int
        BY <2>2
      <4> HIDE DEF i
      <4> QED BY <1>1, <4>1, CancelFactor
    <3> QED BY <3>1, <3>2
  <2>4. i * t \in I <=> 1 <= i /\ i < b /\ i * t < e
    <3>1. ASSUME NEW k \in 1..(b - 1), k * t = i * t PROVE k = i
      <4>1. k \in Int /\ i \in Int
        BY <2>2
      <4> HIDE DEF i
      <4> QED BY <1>1, <3>1, <4>1, CancelFactor
    <3>2. i \in 1..(b - 1) <=> 1 <= i /\ i < b
      <4> HIDE DEF i
      <4> QED BY <2>2
    <3> HIDE DEF i
    <3> QED BY <3>1, <3>2
  <2> HIDE DEF i, y, D, W
  <2>5. weight[r] = IF r \in W THEN 1 ELSE 0
    BY DEF Once, W
  <2>6. Rotated(I)[r] = IF i * t \in I /\ (r - i * t) % n \in W THEN 1 ELSE 0
    <3> DEFINE z == i * t
    <3>1. \A j \in I : (r - j) % Slots \in W => j = z
      BY <2>3 DEF n
    <3> HIDE DEF z
    <3>2. Rotated(I)[r] = IF z \in I /\ (r - z) % Slots \in Below(u, t, e) THEN 1 ELSE 0
      BY <1>3, <3>1, RotatedOnce DEF W
    <3> QED BY <3>2 DEF W, z, n
  <2>7. Rotated(I)[r] = IF 1 <= i /\ i < b /\ i * t < e /\ D THEN 1 ELSE 0
    BY <2>3, <2>4, <2>6
  <2>8. r < t <=> i < 1
    <3>1. t * 1 = t /\ t * 0 = 0 /\ t * i \in Int
      BY <1>1, <2>2
    <3>2. 1 <= i => t * 0 + t <= t * i
      BY <1>1, <2>2, MultipleOrder
    <3>3. i < 1 => t * i + t <= t * 1
      BY <1>1, <2>2, MultipleOrder
    <3> QED BY <1>1, <2>1, <2>2, <3>1, <3>2, <3>3
  <2>9. r < t * b <=> i < b
    <3>1. i < b => t * i + t <= t * b
      BY <1>1, <2>2, MultipleOrder
    <3>2. ~(i < b) => t * b <= t * i
      BY <1>1, <2>2, MultipleOrder
    <3>3. t * b \in Int /\ t * i \in Int
      BY <1>1, <2>2
    <3> QED BY <1>1, <2>1, <2>2, <3>1, <3>2, <3>3
  <2>10. r < e <=> i * t < e
    <3>1. i < d => t * i + t <= t * d
      BY <1>1, <2>2, MultipleOrder
    <3>2. ~(i < d) => t * d <= t * i
      BY <1>1, <2>2, MultipleOrder
    <3>3. t * d \in Int /\ t * i \in Int /\ i * t = t * i
      BY <1>1, <2>2
    <3> QED BY <1>1, <1>2, <2>1, <2>2, <3>1, <3>2, <3>3
  <2>11. r \in W <=> i < 1 /\ i * t < e /\ D
    BY <2>1, <2>8, <2>10 DEF W, Below, D
  <2>12. r \in V <=> i < b /\ i * t < e /\ D
    BY <2>1, <2>9, <2>10 DEF V, Below, D
  <2> QED BY <2>2, <2>5, <2>7, <2>11, <2>12
<1> HIDE DEF V
<1> QED BY <1>4 DEF Plus, Once, V

\* What an Accumulate holds after its rounds so far: the rotations by the multiples of
\* stride * start below the factor of the next round
Adding == call.op = "Accumulate" /\ call.start # 0

SumSlotsInv ==
    /\ call \in Calls
    /\ Adding =>
          /\ s \in TwoPower /\ call.start <= s
          /\ clean
          /\ weight = Once(Below(call.stride * call.start, call.stride * s, call.stride * call.size))
          /\ status = "returned" => s >= call.size

\* The numbers of the round under way
LEMMA RoundOf ==
    ASSUME SumSlotsInv, Adding, s < call.size
    PROVE  /\ Round(Slots, call.stride * call.start, call.stride * s, call.stride * call.size)
           /\ call.stride \in Nat \ {0} /\ call.start \in Nat \ {0} /\ call.size \in Nat \ {0}
           /\ s \in Nat \ {0}
<1> DEFINE x == call.stride
           a == call.start
           z == call.size
<1>1. x \in Power /\ a \in Power /\ z \in Power /\ x * z <= Slots
  BY SumArguments DEF SumSlotsInv, Adding
<1>2. s \in TwoPower /\ a <= s /\ s < z
  BY DEF SumSlotsInv
<1> HIDE DEF x, a, z
<1>3. x \in TwoPower /\ a \in TwoPower /\ z \in TwoPower
  BY <1>1, PowerType
<1>4. x \in Nat \ {0} /\ a \in Nat \ {0} /\ z \in Nat \ {0} /\ s \in Nat \ {0} /\ Slots \in Nat \ {0}
  BY <1>2, <1>3, PowerType
<1>5. PICK c \in Nat \ {0} : s = a * c
  BY <1>2, <1>3, PowersDivide
<1>6. PICK d \in Nat \ {0} : z = s * d
  BY <1>2, <1>3, <1>4, PowersDivide
<1>7. x * s = (x * a) * c /\ x * z = (x * s) * d
  BY <1>4, <1>5, <1>6
<1>8. x * a \in Nat \ {0} /\ x * s \in Nat \ {0} /\ x * z \in Nat \ {0}
  BY <1>4
<1>9. x * s < x * z
  <2>1. x * s + x <= x * z
    BY <1>2, <1>4, MultipleOrder
  <2> QED BY <1>4, <1>8, <2>1
<1>10. Round(Slots, x * a, x * s, x * z)
  BY <1>1, <1>4, <1>7, <1>8, <1>9 DEF Round
<1> QED BY <1>4, <1>10 DEF x, a, z

LEMMA StartType ==
    ASSUME NEW a \in Power \cup {0} PROVE a \in Nat /\ (a # 0 => a \in TwoPower)
<1>1. CASE a \in Power
  <2>1. a \in TwoPower
    BY <1>1, PowerType
  <2>2. a \in Nat
    BY <2>1, PowerType
  <2> QED BY <2>1, <2>2
<1> QED BY <1>1

LEMMA InitSumSlots == SumsInit => SumSlotsInv
<1> SUFFICES ASSUME SumsInit PROVE SumSlotsInv
  OBVIOUS
<1>1. call \in Calls /\ status = "running" /\ s = call.start /\ clean
      /\ weight = [r \in Slot |-> IF r = 0 THEN 1 ELSE 0]
  BY DEF SumsInit
<1> DEFINE u == call.stride * call.start
           e == call.stride * call.size
<1>2. /\ call.stride \in Nat \ {0} /\ call.size \in Nat \ {0} /\ call.start \in Nat
      /\ call.start # 0 => call.start \in TwoPower
  <2>1. call.stride \in Power /\ call.size \in Power /\ call.start \in Power \cup {0}
    BY <1>1, SumArguments
  <2>2. call.start \in Nat /\ (call.start # 0 => call.start \in TwoPower)
    BY <2>1, StartType
  <2>3. call.stride \in TwoPower /\ call.size \in TwoPower
    BY <2>1, PowerType
  <2>4. call.stride \in Nat \ {0} /\ call.size \in Nat \ {0}
    BY <2>3, PowerType
  <2> QED BY <2>1, <2>2, <2>4
<1>3. ASSUME call.start # 0 PROVE weight = Once(Below(u, u, e))
  <2>1. u \in Nat \ {0} /\ e \in Nat \ {0}
    BY <1>2, <1>3
  <2> HIDE DEF u, e
  <2>2. ASSUME NEW r \in Slot PROVE r \in Below(u, u, e) <=> r = 0
    <3>1. r \in Nat
      BY <2>2 DEF Slot
    <3>2. ASSUME NEW q \in Nat, r = u * q, r < u PROVE r = 0
      <4>1. q >= 1 => u * 0 + u <= u * q
        BY <2>1, MultipleOrder
      <4>2. q = 0
        BY <2>1, <3>1, <3>2, <4>1
      <4> QED BY <2>1, <3>2, <4>2
    <3>3. 0 = u * 0
      BY <2>1
    <3> QED BY <2>1, <3>1, <3>2, <3>3 DEF Below
  <2> QED BY <1>1, <2>2 DEF Once
<1> QED BY <1>1, <1>2, <1>3 DEF SumSlotsInv, Adding

\* A shift multiplies by bStep.
LEMMA ShiftedFactor ==
    ASSUME checkBStep(call.bStep), s \in TwoPower
    PROVE  /\ Shifted(call, s) = s * call.bStep /\ Shifted(call, s) \in TwoPower
           /\ s <= Shifted(call, s) /\ Shifted(call, s) # 1
<1> DEFINE b == call.bStep
<1>1. b \in Nat /\ b >= 2 /\ logbStep(b) \in Nat /\ TwoTo(logbStep(b)) = b
  BY ShiftExact
<1> HIDE DEF b
<1>2. PICK m \in Nat : s = TwoTo(m)
  BY DEF TwoPower
<1>3. Shifted(call, s) = s * b
  BY <1>1 DEF Shifted, b
<1>4. TwoTo(m + logbStep(b)) = s * b /\ m + logbStep(b) \in Nat
  <2> DEFINE g == logbStep(b)
  <2>1. g \in Nat /\ TwoTo(g) = b
    BY <1>1
  <2> HIDE DEF g
  <2>2. TwoTo(m + g) = TwoTo(m) * TwoTo(g)
    BY <2>1, TwoToSum
  <2>3. m + g \in Nat
    BY <2>1
  <2> QED BY <1>2, <2>1, <2>2, <2>3 DEF g
<1>5. s \in Nat \ {0}
  BY <1>2, TwoToValue
<1>6. s * b >= 2 * s
  BY <1>1, <1>5
<1>7. s * b \in TwoPower
  BY <1>4 DEF TwoPower
<1>8. s * b \in Int /\ s <= s * b /\ s * b # 1
  BY <1>1, <1>5, <1>6
<1> QED BY <1>3, <1>7, <1>8 DEF b

LEMMA NextSumSlots ==
    ASSUME SumSlotsInv, SumsNext
    PROVE  SumSlotsInv'
<1> DEFINE x == call.stride
           a == call.start
           z == call.size
           b == call.bStep
           u == x * a
           t == x * s
           e == x * z
<1>1. call' = call /\ call \in Calls
  BY DEF SumsNext, Reject, AccumulateRound, BroadcastRound, BroadcastLastRound, Return, Rotate,
         SumSlotsInv
<1>2. Slots' = Slots
  BY DEF Slots
<1>3. CASE ~Adding
  BY <1>1, <1>3 DEF SumSlotsInv, Adding
<1>4. CASE AccumulateRound
  <2> DEFINE I == Multiples(t, b, e)
  <2>1. /\ Adding /\ s < z /\ checkBStep(b) /\ status = "running" /\ UNCHANGED status
        /\ weight' = Plus(weight, Rotated(I)) /\ s' = Shifted(call, s) /\ clean' = (clean /\ TRUE)
    BY <1>4 DEF AccumulateRound, Running, Rotate, Adding
  <2>2. weight = Once(Below(u, t, e)) /\ clean /\ s \in TwoPower /\ a <= s
    BY <2>1 DEF SumSlotsInv
  <2>3. b \in Nat /\ b >= 2 /\ Round(Slots, u, t, e) /\ x \in Nat /\ s \in Nat /\ a \in Nat
    BY <2>1, RoundOf, ShiftExact
  <2>4. I = {k * t : k \in {k \in 1..(b - 1) : k * t < e}}
    BY DEF Multiples
  <2>5. s' = s * b /\ s' \in TwoPower /\ s <= s'
    BY <2>1, <2>2, ShiftedFactor
  <2>6. x * s' = t * b /\ a <= s'
    BY <2>2, <2>3, <2>5, PowerType
  <2>7. Plus(weight, Rotated(I)) = Once(Below(u, t * b, e))
    <3> HIDE DEF I, u, t, e, b
    <3> QED BY <2>2, <2>3, <2>4, RoundAdds
  <2>8. weight' = Once(Below(u, x * s', e)) /\ clean'
    BY <2>1, <2>2, <2>6, <2>7
  <2> QED BY <1>1, <1>2, <2>1, <2>5, <2>6, <2>8 DEF SumSlotsInv, Once, Slot
<1>5. CASE BroadcastRound \/ BroadcastLastRound
  BY <1>3, <1>5 DEF BroadcastRound, BroadcastLastRound, Adding
<1>6. CASE Reject
  BY <1>1, <1>2, <1>6 DEF Reject, SumSlotsInv, Adding, Once, Below, Slot
<1>7. CASE Return
  <2>1. status' = "returned" /\ UNCHANGED <<s, weight, clean>> /\ (s >= z \/ a <= 0)
    BY <1>7 DEF Return
  <2>2. a \in Nat
    <3>1. a \in Power \cup {0}
      BY <1>1, SumArguments
    <3> HIDE DEF a
    <3> QED BY <3>1, StartType
  <2> QED BY <1>1, <1>2, <2>1, <2>2 DEF SumSlotsInv, Adding, Once, Below, Slot
<1> QED BY <1>4, <1>5, <1>6, <1>7 DEF SumsNext

\* What Accumulate leaves
LEMMA AccumulateRight ==
    ASSUME SumSlotsInv, status = "returned", call.op = "Accumulate", call.start > 0
    PROVE  /\ clean
           /\ weight = [r \in Slot |-> Cardinality({j \in 0..(call.size - 1) :
                                           j % call.start = 0 /\ r = j * call.stride})]
<1> DEFINE x == call.stride
           a == call.start
           z == call.size
           u == x * a
           t == x * s
           e == x * z
           J(r) == {j \in 0..(z - 1) : j % a = 0 /\ r = j * x}
<1>1. x \in Nat \ {0} /\ a \in Nat \ {0} /\ z \in Nat \ {0}
  <2>1. x \in Power /\ z \in Power /\ a \in Power \cup {0} /\ a # 0
    BY SumArguments DEF SumSlotsInv
  <2>2. x \in TwoPower /\ z \in TwoPower /\ a \in TwoPower
    BY <2>1, PowerType
  <2> HIDE DEF x, a, z
  <2> QED BY <2>2, PowerType
<1>2. s \in Nat \ {0} /\ z <= s /\ weight = Once(Below(u, t, e)) /\ clean
  <2>1. s \in TwoPower /\ s >= z /\ weight = Once(Below(u, t, e)) /\ clean
    BY <1>1 DEF SumSlotsInv, Adding
  <2>2. s \in Nat \ {0}
    BY <2>1, PowerType
  <2> QED BY <1>1, <2>1, <2>2
<1> HIDE DEF x, a, z
<1>3. u \in Nat \ {0} /\ e \in Nat \ {0} /\ t \in Nat \ {0}
  BY <1>1, <1>2
<1>4. e <= t
  <2>1. s < z <=> x * s + x <= x * z
    BY <1>1, <1>2, MultipleOrder
  <2>2. s = z \/ z < s
    BY <1>1, <1>2
  <2>3. z < s => x * z + x <= x * s
    BY <1>1, <1>2, MultipleOrder
  <2> QED BY <1>1, <1>3, <2>2, <2>3
<1>5. ASSUME NEW r \in Slot PROVE Cardinality(J(r)) = IF r \in Below(u, t, e) THEN 1 ELSE 0
  <2>1. r \in Nat
    BY <1>5 DEF Slot
  <2>2. CASE r \in Below(u, t, e)
    <3>1. PICK q \in Nat : r = u * q /\ r < e
      BY <2>2 DEF Below
    <3> DEFINE j == a * q
    <3>2. j \in Nat /\ r = x * j /\ r = j * x
      BY <1>1, <3>1
    <3>3. j % a = 0
      <4>1. j \in Int /\ 0 \in 0..a - 1 /\ j = a * q + 0
        BY <1>1
      <4> HIDE DEF j
      <4> QED BY <1>1, <3>1, <4>1, Remainder
    <3> HIDE DEF j
    <3>4. j < z
      <4>1. ~(j < z) => x * z <= x * j
        <5>1. z < j => x * z + x <= x * j
          BY <1>1, <3>2, MultipleOrder
        <5>2. x * z \in Int /\ x * j \in Int
          BY <1>1, <3>2
        <5> QED BY <1>1, <3>2, <5>1, <5>2
      <4> QED BY <1>1, <1>3, <2>1, <3>1, <3>2, <4>1
    <3>5. \A k \in J(r) : k = j
      <4> SUFFICES ASSUME NEW k \in 0..(z - 1), r = k * x PROVE k = j
        OBVIOUS
      <4>1. k \in Int
        BY <1>1
      <4> QED BY <1>1, <3>2, <4>1, CancelFactor
    <3>6. J(r) = {j}
      <4>1. j \in 0..(z - 1)
        BY <1>1, <3>2, <3>4
      <4>2. j \in J(r)
        BY <3>2, <3>3, <4>1
      <4> HIDE DEF J
      <4> QED BY <3>5, <4>2
    <3> QED BY <2>2, <3>6, FS_Singleton
  <2>3. CASE r \notin Below(u, t, e)
    <3>1. ASSUME NEW j \in J(r) PROVE FALSE
      <4>1. j \in Nat /\ j < z /\ j % a = 0 /\ r = j * x
        BY <1>1
      <4> DEFINE q == j \div a
      <4>2. q \in Int /\ j = a * q + (j % a)
        BY <1>1, <4>1, Division
      <4> HIDE DEF q
      <4>3. j = a * q /\ r = x * j
        BY <1>1, <4>1, <4>2
      <4>4. q \in Nat
        <5>1. q < 0 => a * q + a <= a * 0
          BY <1>1, <4>2, MultipleOrder
        <5> QED BY <1>1, <4>1, <4>2, <4>3, <5>1
      <4>5. r = u * q
        BY <1>1, <4>3, <4>4
      <4>6. r < e
        <5>1. x * j + x <= x * z
          BY <1>1, <4>1, MultipleOrder
        <5>2. x * j \in Int /\ x * z \in Int
          BY <1>1, <4>1
        <5> QED BY <1>1, <4>3, <5>1, <5>2
      <4>7. r \in Below(u, t, e)
        BY <1>3, <1>4, <2>1, <4>4, <4>5, <4>6 DEF Below
      <4> QED BY <2>3, <4>7
    <3>2. J(r) = {}
      BY <3>1
    <3> QED BY <2>3, <3>2, FS_EmptySet
  <2> QED BY <2>2, <2>3
<1> HIDE DEF u, t, e, J
<1>6. weight = [r \in Slot |-> Cardinality(J(r))]
  BY <1>2, <1>5 DEF Once
<1> QED BY <1>2, <1>6 DEF J, x, a, z

\* An Accumulate that returns leaves in every slot i the inputs i + j * stride, for the
\* multiples j of startFactor below size, each once, and can be read: for every number
\* of slots, bStep, stride, size and start, its rounds neither miss a rotation nor add
\* one twice, none wraps around the slots, and each ends with both mod-downs.
THEOREM SlotsAlwaysRight == RotationsSpec => []SlotsRight
<1> DEFINE Inv == SumSlotsInv \/ call \in TransformCalls
<1>1. RotationsInit => Inv
  BY InitSumSlots DEF RotationsInit, TransformInit, TransformCalls
<1>2. ASSUME Inv, [RotationsNext]_allVars PROVE Inv'
  <2>1. CASE UNCHANGED allVars
    <3>1. UNCHANGED <<call, status, s, weight, clean>>
      BY <2>1 DEF allVars, sumVars
    <3>2. SumSlotsInv => SumSlotsInv'
      BY <3>1 DEF SumSlotsInv, Adding, Once, Below, Slot, Slots
    <3> QED BY <1>2, <3>1, <3>2
  <2>2. CASE SumsSlots /\ SumsNext
    <3>1. SumSlotsInv
      BY <1>2, <2>2, SlotsOfCall
    <3> QED BY <2>2, <3>1, NextSumSlots
  <2>3. CASE ~SumsSlots /\ TransformNext
    <3>1. call \in TransformCalls
      BY <1>2, <2>3, SumArguments DEF SumSlotsInv, SumsSlots
    <3>2. call' = call
      BY <2>3 DEF TransformNext, BabySteps, GiantStep, EndTransform, Unfold, ReturnTransformed,
                  ConvolutionBlock, JoinBlocks, Throw
    <3> QED BY <3>1, <3>2
  <2> QED BY <1>2, <2>1, <2>2, <2>3 DEF RotationsNext
<1>3. ASSUME Inv PROVE SlotsRight
  <2>1. CASE SumSlotsInv
    BY <2>1, AccumulateRight DEF SlotsRight, Returned
  <2>2. CASE call \in TransformCalls
    <3>1. ~SumsSlots
      BY <2>2, SlotsOfCall
    <3> QED BY <3>1 DEF SlotsRight, Returned, SumsSlots
  <2> QED BY <1>3, <2>1, <2>2
<1> HIDE DEF Inv
<1> QED BY <1>1, <1>2, <1>3, PTL DEF RotationsSpec
=============================================================================
