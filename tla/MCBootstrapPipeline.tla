------------------------ MODULE MCBootstrapPipeline ------------------------
EXTENDS BootstrapPipeline, TLC

\* Eleven levels: enough for a bootstrap and two iterations of it, from a level
\* and a degree of every kind.  The flexible factors differ from level to level,
\* so that a factor of the wrong level is seen.
MCL == 10
MCFixed(t) == [technique |-> t,
               ScalingFactorReal |-> [l \in 0..MCL |-> 20],
               ModReduceFactor |-> [l \in 0..MCL |-> 20]]
MCFlexibleFactor == [l \in 0..MCL |-> <<20, 23, 21, 26, 25, 22, 24, 19, 27, 18, 28>>[l + 1]]
MCFlexible == [technique |-> "FLEXIBLEAUTO",
               ScalingFactorReal |-> MCFlexibleFactor,
               ModReduceFactor |->
                   [l \in 0..MCL |-> IF l = 0 THEN 30
                                   ELSE 2 * MCFlexibleFactor[l]
                                        - MCFlexibleFactor[l - 1]]]
MCContexts == {MCFixed("FIXEDMANUAL"), MCFixed("FIXEDAUTO"), MCFlexible}

\* Every shape of the splitting: the linear degrees, two and three giant steps,
\* c of degree 0, 1 and more, coefficients missing.
MCPoints == <<3, 29, 70, 8>>
MCDense(n) == [i \in 0..n |-> (7 * i * i + 11 * i + 5) % 97]
MCSparse(n) == [i \in 0..n |-> IF i = n \/ i % 3 = 1 THEN i + 2 ELSE 0]
MCCoefficients == {MCDense(n) : n \in {1, 2, 3, 4, 5, 6, 9, 12, 13, 18, 27}}
                     \cup {MCSparse(n) : n \in {3, 4, 5, 7, 12, 20}}
MCIntervals == {<<-1, 1>>, <<0, 2>>, <<-2, 2>>, <<0, 4>>}

\* Both packings and flavours, one stage and two, one doubling and two; no plan
\* needs more than the levels there are.
MCPlan(s, b, e, enc, dec, its) ==
    [slots |-> s, btsfirstboot |-> b, sparse_encaps |-> e, lvlbEnc |-> enc,
     lvlbDec |-> dec, its |-> its, f |-> MCDense(5)]
MCPlans == {MCPlan(s, b, e, d[1], d[2], d[3]) :
               s \in {1, 2}, b \in BOOLEAN, e \in BOOLEAN,
               d \in {<<1, 1, 1>>, <<1, 1, 2>>, <<2, 1, 1>>, <<1, 2, 1>>}}
MCMessages == {[k \in 0..3 |-> <<5, 17, 40, 71>>[k + 1]]}
MCOverflow == [k \in 0..3 |-> <<13, 2, 60, 34>>[k + 1]]

\* The handles are interchangeable.
MCSymmetry == Permutations(Ct)
=============================================================================
