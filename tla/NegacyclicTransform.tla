------------------------ MODULE NegacyclicTransform ------------------------
(***************************************************************************)
(* The kernels that transform a polynomial to its values at the odd powers *)
(* of a root of unity, and back (NTT.cu, INTT.cu, NTThelper.cuh).  A       *)
(* transform is two kernels.  Each takes the columns of the limb, seen as  *)
(* a matrix, as its blocks do, transforms them and stores the matrix       *)
(* transposed; the factors between both are applied by the first one of    *)
(* NTT and by the second one of INTT.                                      *)
(*                                                                         *)
(* A column of a kernel is one of the M columns that a block works on, and *)
(* a constant has its Shoup quotient.  C stands for the tables of the      *)
(* device throughout, i for the number of a prime.                         *)
(***************************************************************************)
EXTENDS DeviceConstants

\* Product of two numbers, and of a number and a constant
modmult(C, i, a, b) ==
    Neal_mult(a, b, C.prime_better_barret_mu[i], C.prime[i], C.S[i], C.T[i])
Scaled(C, i, a, const) == Shoup_mult(a, const, shoup_precomp(const, C.prime[i]), C.prime[i])

\* A sum of products in two words
modreduce(C, i, x) ==
    LET p == C.prime[i] IN Shoup_reduce(x, shoup_precomp(1, p), shoup_precomp(W % p, p), p)

\* The layers of the first and the second kernel of NTT, which are those of the second
\* and the first one of INTT, and the lengths of their columns
LongLayers == (logN + 1) \div 2
ShortLayers == logN \div 2
Long == TwoTo(LongLayers)
Short == TwoTo(ShortLayers)

bit_reversed == [pos \in 0..Long - 1 |-> bit_reverse(pos, LongLayers)]

\* One layer of a column.  The factor of the first group is one, which is why the
\* kernels leave it out of the layer that has a single group.
CT_butterfly(C, i, x, m) ==
    [k \in DOMAIN x |->
        LET psi == C.roots[i].psi[k \div (2 * m)]
        IN  IF k % (2 * m) < m THEN modadd(x[k], Scaled(C, i, x[k + m], psi), C.prime[i])
            ELSE modsub(x[k - m], Scaled(C, i, x[k], psi), C.prime[i])]

GS_butterfly(C, i, x, m) ==
    [k \in DOMAIN x |->
        LET psi == C.roots[i].inv_psi[k \div (2 * m)]
        IN  IF k % (2 * m) < m THEN modadd(x[k], x[k + m], C.prime[i])
            ELSE Scaled(C, i, modsub(x[k - m], x[k], C.prime[i]), psi)]

\* All h layers of a column of length 2^h, at distances 2^(h - 1), ..., 2, 1 and back
ForwardLayers(C, i, x, h) ==
    LET after[j \in 0..h] == IF j = 0 THEN x ELSE CT_butterfly(C, i, after[j - 1], TwoTo(h - j))
    IN  after[h]
InverseLayers(C, i, x, h) ==
    LET after[j \in 0..h] == IF j = 0 THEN x ELSE GS_butterfly(C, i, after[j - 1], TwoTo(j - 1))
    IN  after[h]

\* Element pos of column c of a limb as a kernel with columns of length D reads it
ByColumn(x, D, c) == [pos \in 0..D - 1 |-> x[(N \div D) * pos + c]]
ByRow(x, D, c) == [pos \in 0..D - 1 |-> x[D * c + pos]]

\* The factor between both kernels: the root to twice the product of the numbers of the
\* column and of the row
Middle(table, c, pos) == table[2 * c * bit_reversed[pos]]

\* NTT_<second = false>: x is scaled by the powers of the root, which makes the
\* transform negacyclic.
NTTFirst(C, i, x) ==
    LET psi_no == C.roots[i].psi_no
        Start(c) == [pos \in 0..Long - 1 |-> modmult(C, i, x[Short * pos + c], psi_no[Short * pos + c])]
        column == [c \in 0..Short - 1 |-> ForwardLayers(C, i, Start(c), LongLayers)]
    IN  [n \in 0..N - 1 |-> LET c == n \div Long pos == n % Long
                            IN  modmult(C, i, column[c][pos], Middle(psi_no, c, pos))]

\* NTT_<second = true>
NTTSecond(C, i, x) ==
    LET column == [c \in 0..Long - 1 |-> ForwardLayers(C, i, ByColumn(x, Short, c), ShortLayers)]
    IN  [n \in 0..N - 1 |-> column[n \div Short][n % Short]]

\* INTT_<second = false>
INTTFirst(C, i, x) ==
    LET column == [c \in 0..Long - 1 |-> InverseLayers(C, i, ByRow(x, Short, c), ShortLayers)]
    IN  [n \in 0..N - 1 |-> column[n % Long][n \div Long]]

\* INTT_<second = true>: the table of the inverse powers has the factor 1 / N, which
\* applies once.
INTTSecond(C, i, x) ==
    LET inv == C.roots[i].inv_psi_no
        Start(c) == [pos \in 0..Long - 1 |-> modmult(C, i, x[Long * c + pos], Middle(inv, c, pos))]
        column == [c \in 0..Short - 1 |-> InverseLayers(C, i, Start(c), LongLayers)]
    IN  [n \in 0..N - 1 |-> modmult(C, i, column[n % Short][n \div Short], Scaled(C, i, inv[n], N))]
=============================================================================
