-------------------------- MODULE LinearTransforms --------------------------
(***************************************************************************)
(* Linear transforms by baby and giant steps, the convolution transforms   *)
(* (LinearTransform.cu), and the chains of transforms that bootstrapping   *)
(* makes of them (CoeffsToSlots.cu, GetBootstrapIndexes).                   *)
(*                                                                         *)
(* What a ciphertext holds is a bag of terms.  A term is a product of      *)
(* plaintexts and of the input, each of them rotated: `pts' lists the      *)
(* plaintexts, innermost transform first, as <<number, rotation>>, and     *)
(* `in' is the rotation of the input.  Rotating the ciphertext rotates     *)
(* every factor of every term.                                             *)
(*                                                                         *)
(* Rotations are modulo the slots that the ciphertext declares.  A key     *)
(* serves all indices that are the same modulo these (GetRotationKey).     *)
(* Levels are left out, and so is where the P-multiples are brought back.  *)
(***************************************************************************)
EXTENDS AccumulateBroadcast, Sequences, Bags

CONSTANTS RowSizes, BSteps, Strides, Offsets,  \* arguments tried
          GSteps, TapLists,                    \* for convolutions: rows, and rotations of the taps
          SlotCounts                           \* slots of the ciphertext

ASSUME TransformAssumption ==
    /\ RowSizes \subseteq Nat \ {0} /\ BSteps \subseteq Nat \ {0} /\ GSteps \subseteq Nat \ {0}
    /\ Strides \subseteq Int /\ Offsets \subseteq Int /\ TapLists \subseteq Seq(Int)
    /\ SlotCounts \subseteq Power \ {1}

VARIABLES value,   \* of the ciphertext
          todo,    \* the transforms still to be applied to it
          rows,    \* the inner products of the giant steps not yet folded
          blocks   \* the sums of the blocks of a convolution

sumVars == <<s, weight, c0up, clean>>
transformVars == <<value, todo, rows, blocks>>
allVars == <<call, status, used, sumVars, transformVars>>
-----------------------------------------------------------------------------
(* Terms and ciphertexts                                                    *)

Input == SetToBag({[pts |-> <<>>, in |-> 0]})

Turn(t, d) == [pts |-> [i \in DOMAIN t.pts |-> <<t.pts[i][1], (t.pts[i][2] + d) % call.slots>>],
               in  |-> (t.in + d) % call.slots]
Turned(v, d) == BagOfAll(LAMBDA t : Turn(t, d), v)

\* The product by plaintext k, which was rotated by r before it was encoded
Times(v, k, r) ==
    BagOfAll(LAMBDA t : [t EXCEPT !.pts = Append(@, <<k, r % call.slots>>)], v)

SumOver(f, indices) == FoldFunctionOnSet(LAMBDA v, w : v (+) w, EmptyBag, f, indices)

\* rotate() and rotate_hoisted() need no key for an index that is none.
NoRotation(d) == d % call.slots = 0
KeysFor(indices) == {d \in indices : ~NoRotation(d)}

\* The inner product of giant step j: the baby steps of v, rotated by index[i + 1],
\* times the plaintexts of the row, which were encoded rotated by twist.  A missing
\* plaintext is a null pointer.
DotProduct(v, index, j, rowSize, twist) ==
    LET bStep == Len(index)
        Has(i) == bStep * j + i - 1 < rowSize
    IN  SumOver([i \in DOMAIN index |->
                    Times(Turned(v, index[i]), bStep * j + i - 1, twist)],
                {i \in DOMAIN index : Has(i)})
-----------------------------------------------------------------------------
(* One linear transform                                                     *)

gStep(lt) == (lt.rowSize + lt.bStep - 1) \div lt.bStep

\* How far the plaintexts of row j of a transform are rotated before they are
\* encoded.  For a transform that a user calls, lift is -offset.
PlaintextRotation(lt, j) == lt.lift - lt.bStep * j * lt.stride

GetLinearTransformRotationIndices(bStep, stride, offset) ==
    {i * stride : i \in 1..bStep} \cup {offset}

LinearTransform(rowSize, bStep, stride, offset) ==
    [rowSize |-> rowSize, bStep |-> bStep, stride |-> stride, offset |-> offset,
     lift |-> -offset]

InTransform == status = "running" /\ todo # <<>>

\* The hoisted rotations and the products with all rows
BabySteps ==
    /\ InTransform /\ rows = <<>>
    /\ LET lt    == Head(todo)
           index == [i \in 1..lt.bStep |-> (i - 1) * lt.stride]
       IN  /\ rows' = [j \in 1..gStep(lt) |->
                          DotProduct(value, index, j - 1, lt.rowSize,
                                     PlaintextRotation(lt, j - 1))]
           /\ used' = used \cup KeysFor(Range(index))
    /\ UNCHANGED <<call, status, value, todo, blocks, sumVars>>

\* rotate() throws, or asserts, when there is nothing to rotate.
Throw(d) ==
    /\ NoRotation(d)
    /\ status' = "thrown"
    /\ UNCHANGED <<call, used, transformVars, sumVars>>

\* The last row is rotated by a giant step and joins the row before it.  The
\* rotation is left out when it is one of the whole ring.
GiantStep ==
    /\ InTransform /\ Len(rows) > 1
    /\ LET lt == Head(todo)
           d  == lt.bStep * lt.stride
           n  == Len(rows)
           Join(row) == /\ rows' = Append(SubSeq(rows, 1, n - 2), rows[n - 1] (+) row)
                        /\ UNCHANGED <<call, status, value, todo, blocks, sumVars>>
       IN  \/ d % Slots = 0 /\ Join(rows[n]) /\ UNCHANGED used
           \/ d % Slots # 0 /\ ~NoRotation(d) /\ Join(Turned(rows[n], d)) /\ used' = used \cup {d}
           \/ d % Slots # 0 /\ Throw(d)

\* The one row left is the result, after the rotation by the offset.
EndTransform ==
    /\ InTransform /\ Len(rows) = 1
    /\ LET d == Head(todo).offset
       IN  \/ /\ d = 0 \/ ~NoRotation(d)
              /\ value' = Turned(rows[1], d)
              /\ used' = used \cup ({d} \ {0})
              /\ rows' = <<>> /\ todo' = Tail(todo)
              /\ UNCHANGED <<call, status, blocks, sumVars>>
           \/ d # 0 /\ Throw(d)
-----------------------------------------------------------------------------
(* The transforms of bootstrapping                                          *)

\* A stage collapses some layers of the FFT.  It has a diagonal for every
\* rotation up to 2^layers - 1 steps to either side.
Stage(layers, scale, g) == [rowSize |-> TwoTo(layers + 1) - 1, bStep |-> g, stride |-> scale]

Sparse(c) == c.bootSlots # Slots

\* The stages in the order of evaluation: full ones, then one of the layers left over
Stages(c) ==
    LET Scale(i) == IF c.op = "CoeffsToSlots" THEN TwoTo((c.full - i) * c.layers + c.rem)
                                              ELSE TwoTo((i - 1) * c.layers)
        last == IF c.op = "CoeffsToSlots" THEN 1 ELSE TwoTo(c.full * c.layers)
    IN  [i \in 1..c.full |-> Stage(c.layers, Scale(i), c.g)]
        \o (IF c.rem > 0 THEN <<Stage(c.rem, last, c.gRem)>> ELSE <<>>)

\* The diagonals of a stage are counted from the leftmost: its result is off by
\* half of them.  acc_offset after i stages
AccOffset(stages, i) ==
    FoldFunctionOnSet(+, 0, [j \in DOMAIN stages |-> (stages[j].rowSize \div 2) * stages[j].stride], 1..i)

\* Faulty: a stage ignores what it is off by itself.
StagesBehind(c) ==
    LET stages == Stages(c)
        n      == Len(stages)
    IN  [i \in 1..n |->
            [rowSize |-> stages[i].rowSize, bStep |-> stages[i].bStep, stride |-> stages[i].stride,
             offset  |-> IF i = n THEN (-AccOffset(stages, n)) % c.slots ELSE 0,
             lift    |-> AccOffset(stages, i - 1)]]

\* No stage makes up for it but the last, by acc_offset.  Until then the
\* plaintexts are encoded rotated by what has accumulated (runningAcc).
StageTransforms(c) ==
    LET stages == Stages(c)
        n      == Len(stages)
    IN  [i \in 1..n |->
            [rowSize |-> stages[i].rowSize, bStep |-> stages[i].bStep, stride |-> stages[i].stride,
             offset  |-> IF i = n THEN (-AccOffset(stages, n)) % c.slots ELSE 0,
             lift    |-> AccOffset(stages, i)]]

\* The part of the list for the transform c, and that of the fold into sparse slots
GetBootstrapIndexes(c) ==
    LET stages == Stages(c)
        RotIn(st)  == {j * st.stride : j \in 0..(st.bStep - 1)}
        RotOut1(st) == IF st.bStep <= st.rowSize THEN {st.bStep * st.stride} ELSE {}
    IN  {-AccOffset(stages, Len(stages))}
        \cup (UNION {RotIn(stages[i]) \cup RotOut1(stages[i]) : i \in DOMAIN stages})
        \cup (IF Sparse(c)
              THEN GetAccumulateRotationIndices(
                       [bStep |-> 4, stride |-> c.bootSlots, size |-> Slots \div c.bootSlots])
              ELSE {})

\* After decoding sparse slots, their two halves are added.
Unfold ==
    /\ status = "running" /\ call.op = "SlotsToCoeffs" /\ Sparse(call) /\ todo = <<>>
    /\ value' = value (+) Turned(value, call.bootSlots)
    /\ used' = used \cup {call.bootSlots}
    /\ status' = "returned"
    /\ UNCHANGED <<call, todo, rows, blocks, sumVars>>

ReturnTransformed ==
    /\ status = "running" /\ todo = <<>>
    /\ \/ call.op \in {"LinearTransform", "CoeffsToSlots"}
       \/ call.op = "SlotsToCoeffs" /\ ~Sparse(call)
    /\ status' = "returned"
    /\ UNCHANGED <<call, used, transformVars, sumVars>>
-----------------------------------------------------------------------------
(* The convolution transforms                                               *)

INTERNAL_GSTEP == 8

IsConvolution == status = "running" /\ call.op \in {"Convolution", "SpecialConvolution"}

\* rowSize: the plaintexts there are
ConvolutionRowSize(c) == Len(c.taps) * c.gStep - c.missing

blockCount(c) == (c.gStep + INTERNAL_GSTEP - 1) \div INTERNAL_GSTEP

\* The rows of block b, counted from 0
currentBlockGStep(c, b) ==
    IF b < blockCount(c) - 1 THEN INTERNAL_GSTEP ELSE c.gStep - b * INTERNAL_GSTEP

\* Of n results, numbered from 0, the ones that reach the first when the upper
\* half is added to the lower one until one is left
Halving[n \in Nat \ {0}] ==
    IF n = 1 THEN {0} ELSE Halving[n \div 2] \cup {j + n \div 2 : j \in Halving[n \div 2]}

\* An odd number is added one after the other.
Reaching(n) == IF n % 2 = 0 THEN Halving[n] ELSE 0..(n - 1)

\* The mask of the special transform is one more plaintext.
Mask == -1

\* A row plus itself rotated once and twice, times the mask
Masked(row, d) == Times(row (+) Turned(row, d) (+) Turned(row, 2 * d), Mask, 0)

\* Row j of block b; the plaintexts are used as they are.
BlockRow(b, j) ==
    LET row == DotProduct(value, call.taps, b * INTERNAL_GSTEP + j,
                          ConvolutionRowSize(call), 0)
    IN  IF call.op = "SpecialConvolution" THEN Masked(row, call.maskStride) ELSE row

\* One block: its rows, rotated (rotate, then sum), and their sum
ConvolutionBlock ==
    /\ IsConvolution
    /\ Len(blocks) < blockCount(call)
    /\ LET b     == Len(blocks)
           count == currentBlockGStep(call, b)
           Distance(j) == call.stride * (count - j)
       IN  /\ blocks' = Append(blocks, SumOver([j \in 0..(count - 1) |->
                                                   Turned(BlockRow(b, j), Distance(j))], Reaching(count)))
           /\ used' = used \cup KeysFor(Range(call.taps) \cup {Distance(j) : j \in 0..(count - 1)})
                           \cup (IF call.op = "SpecialConvolution" THEN {call.maskStride} ELSE {})
    /\ UNCHANGED <<call, status, value, todo, rows, sumVars>>

\* The sums of the blocks are rotated by the blocks that follow, and added.
JoinBlocks ==
    /\ IsConvolution
    /\ Len(blocks) = blockCount(call)
    /\ LET n == blockCount(call)
           Distance(b) == (n - 1 - b) * INTERNAL_GSTEP * call.stride
       IN  /\ value' = SumOver([b \in 0..(n - 1) |-> Turned(blocks[b + 1], Distance(b))], Reaching(n))
           /\ used' = used \cup KeysFor({Distance(b) : b \in 0..(n - 2)})
    /\ status' = "returned"
    /\ UNCHANGED <<call, todo, rows, blocks, sumVars>>

\* Faulty: only the rows of the first block are thought of.
FirstBlockRotationIndices(c) ==
    {c.stride * k : k \in 1..(INTERNAL_GSTEP - 1)}

GetConvolutionTransformRotationIndices(c) ==
    LET maxIntra == IF c.gStep < INTERNAL_GSTEP THEN c.gStep ELSE INTERNAL_GSTEP
    IN  {c.stride * k : k \in 1..(maxIntra - 1)}
        \cup {INTERNAL_GSTEP * c.stride * k : k \in 1..(blockCount(c) - 1)}
-----------------------------------------------------------------------------
(* The calls                                                                *)

LinearTransformCalls ==
    [op : {"LinearTransform"}, slots : SlotCounts,
     lt : {LinearTransform(r, b, st, o) : r \in RowSizes, b \in BSteps, st \in Strides, o \in Offsets}]

\* Some plaintexts of the last row may be missing.
ConvolutionCalls ==
    {c \in [op : {"Convolution", "SpecialConvolution"}, slots : SlotCounts, taps : TapLists,
            gStep : GSteps, stride : Strides, maskStride : {1}, missing : {0, 1}] :
        c.missing < Len(c.taps)}

\* logSlots layers are full stages of `layers' and a remainder (OpenFHE chooses).  A
\* stage has baby steps of any power of two.  Sparse slots are seen twice.
BootstrapCalls ==
    {c \in [op : {"CoeffsToSlots", "SlotsToCoeffs"}, slots : Power, bootSlots : Power \ {1},
            full : 1..LogSlots, layers : 1..LogSlots, rem : 0..(LogSlots - 1), g : Power, gRem : Power] :
        /\ c.slots = IF Sparse(c) THEN 2 * c.bootSlots ELSE c.bootSlots
        /\ TwoTo(c.full * c.layers + c.rem) = c.bootSlots
        /\ c.g <= TwoTo(c.layers + 1)
        /\ IF c.rem = 0 THEN c.gRem = 1 ELSE c.gRem <= TwoTo(c.rem + 1)}

TransformsOf(c) ==
    CASE c.op = "LinearTransform" -> <<c.lt>>
      [] c.op \in {"CoeffsToSlots", "SlotsToCoeffs"} -> StageTransforms(c)
      [] OTHER -> <<>>

TransformInit ==
    /\ call \in LinearTransformCalls \cup ConvolutionCalls \cup BootstrapCalls
    /\ todo = TransformsOf(call)
    /\ status = "running" /\ used = {}
    /\ value = Input /\ rows = <<>> /\ blocks = <<>>
    /\ s = 0 /\ weight = <<>> /\ c0up = FALSE /\ clean = TRUE

TransformNext ==
    \/ BabySteps \/ GiantStep \/ EndTransform \/ Unfold \/ ReturnTransformed
    \/ ConvolutionBlock \/ JoinBlocks

\* A call of either kind
RotationsInit ==
    \/ SumsInit /\ value = EmptyBag /\ todo = <<>> /\ rows = <<>> /\ blocks = <<>>
    \/ TransformInit

RotationsNext ==
    \/ SumsSlots /\ SumsNext /\ UNCHANGED transformVars
    \/ ~SumsSlots /\ TransformNext

RotationsSpec == RotationsInit /\ [][RotationsNext]_allVars /\ WF_allVars(RotationsNext)
-----------------------------------------------------------------------------
\* A bag with every term of a set once
Each(terms) == SetToBag(terms)
Mod(d) == d % call.slots

\* A linear transform multiplies diagonal k by the input rotated by k strides and
\* the offset, if the diagonals were encoded rotated as PlaintextRotation tells.
LinearTransformRight ==
    Returned("LinearTransform") =>
        value = Each({[pts |-> <<<<k, 0>>>>, in |-> Mod(k * call.lt.stride + call.lt.offset)] :
                         k \in 0..(call.lt.rowSize - 1)})

IsBootstrap == call.op \in {"CoeffsToSlots", "SlotsToCoeffs"}

\* The transforms of bootstrapping multiply each diagonal of a stage by the result
\* of the stage before, rotated by the diagonal's distance from the middle one.
\* None of their rotations is by nothing, which would stop the call.
StagesRight ==
  /\ IsBootstrap => status # "thrown"
  /\ IsBootstrap /\ status = "running" /\ todo = <<>> =>
        LET stages == Stages(call)
            n      == Len(stages)
            most   == Max({stages[i].rowSize : i \in 1..n})
            Paths  == {p \in [1..n -> 0..most] : \A i \in 1..n : p[i] < stages[i].rowSize}
            From(p, i) == FoldFunctionOnSet(+, 0,
                [j \in 1..n |-> (p[j] - stages[j].rowSize \div 2) * stages[j].stride], i..n)
        IN  value = Each({[pts |-> [i \in 1..n |-> <<p[i], Mod(From(p, i + 1))>>],
                           in  |-> Mod(From(p, 1))] : p \in Paths})

\* A row count that halving or adding one by one folds completely, in blocks that
\* need no padding.  With others rows are lost, or rotated too far (README).
Folds(n)    == n % 2 = 1 \/ n \in {TwoTo(k) : k \in 0..n}
RowsFold(c) ==
    /\ c.gStep < INTERNAL_GSTEP \/ c.gStep % INTERNAL_GSTEP = 0
    /\ Folds(currentBlockGStep(c, 0)) /\ Folds(blockCount(c))

\* A convolution multiplies each tap of a row by its plaintext and rotates row j
\* by (gStep - j) strides; the special one first adds each row to itself rotated
\* once and twice by maskStride, and multiplies by the mask.
ConvolutionRight ==
    (Returned("Convolution") \/ Returned("SpecialConvolution")) /\ RowsFold(call) =>
        LET bStep == Len(call.taps)
            Far(k) == (call.gStep - k \div bStep) * call.stride
            Tap(k) == call.taps[(k % bStep) + 1]
            Term(k, e, more(_)) == [pts |-> <<<<k, Mod(e + Far(k))>>>> \o more(k), in |-> Mod(Tap(k) + e + Far(k))]
            Plain == 0..(ConvolutionRowSize(call) - 1)
        IN  value = IF call.op = "Convolution"
                    THEN Each({Term(k, 0, LAMBDA i : <<>>) : k \in Plain})
                    ELSE Each({Term(k, e * call.maskStride, LAMBDA i : <<<<Mask, Mod(Far(i))>>>>) :
                                  k \in Plain, e \in 0..2})

\* Every transform that returns holds what its definition says: each diagonal, or
\* filter tap, met the slots that it was meant for, exactly once.
TransformsRight == LinearTransformRight /\ StagesRight /\ ConvolutionRight

\* The keys that a user is told to generate: those of the list and, for a
\* convolution, those of the indices that he passes himself.
TransformKeys ==
    CASE call.op = "LinearTransform" ->
            GetLinearTransformRotationIndices(call.lt.bStep, call.lt.stride, call.lt.offset)
      [] call.op \in {"CoeffsToSlots", "SlotsToCoeffs"} -> GetBootstrapIndexes(call)
      [] OTHER -> GetConvolutionTransformRotationIndices(call)
                  \cup Range(call.taps) \cup {call.maskStride}

UsesListedKeys == {Mod(d) : d \in used} \subseteq {Mod(d) : d \in TransformKeys}

IsConvolutionCall == call.op \in {"Convolution", "SpecialConvolution"}

\* A sum of slots, a linear transform, a transform of bootstrapping and a
\* convolution of two blocks or more only ask for rotation keys that their user was
\* told to generate.  (One block: ConvolutionKeysListed.)
KeysListed ==
    /\ KeysSuffice
    /\ ~SumsSlots /\ (IsConvolutionCall => blockCount(call) > 1) => UsesListedKeys

\* So does every convolution: "intra-block rotations: stride * k for k in
\* [1, INTERNAL_GSTEP]" (LinearTransform.cu, 660).  This fails: with a single block
\* nobody lists the rotation of its first row, by stride * gStep.
ConvolutionKeysListed == IsConvolutionCall => UsesListedKeys
=============================================================================
