------------------------- MODULE CiphertextStreams -------------------------
(***************************************************************************)
(* The operations of CKKS::Ciphertext on one GPU, as the kernels that they *)
(* enqueue (RNSPoly.cpp, Ciphertext.cpp, LinearTransform.cu, ModRaise of   *)
(* Bootstrap.cu, AccumulateBroadcast.cu): does what one operation leaves   *)
(* running on the device stay ordered with what the next ones enqueue?     *)
(*                                                                         *)
(* The host enqueues a whole operation, and then the next, without waiting *)
(* for the device.  All operations share the scratch polynomials of the    *)
(* context (KeySwitchAux, KeySwitchAux2, ModdownAux), its streams and its  *)
(* keys.  An operation is the sequence of the launches of the LimbPartition*)
(* functions it calls (LimbStreams), enqueued in one step: the host thread *)
(* does nothing else in between.  In which orders the device may run the   *)
(* kernels is what `later' says.                                           *)
(*                                                                         *)
(* Levels, scales and slots are in CiphertextLevels, residency under a     *)
(* budget in CiphertextCache and PlaintextCache.                           *)
(***************************************************************************)
EXTENDS LimbStreams

CONSTANTS Ciphertext,  \* ciphertexts of the user
          Plaintext,   \* plaintexts of the user
          MaxPending   \* operations issued between two drains of the device

ASSUME PendingAssumption == MaxPending \in Nat \ {0}

VARIABLES raised,    \* the ciphertexts that carry special limbs (isModUp)
          resident,  \* the objects whose limbs are on the device
          pending    \* the operations issued since the device was drained

vars == <<later, raced, raised, resident, pending>>

c0(x) == <<x, 0, 0>>
c1(x) == <<x, 1, 0>>
Polys(X) == {c0(x) : x \in X} \cup {c1(x) : x \in X}

\* The polynomials of the context that all operations use for scratch
KeySwitchAux  == <<"KeySwitchAux", 0, 0>>
KeySwitchAux2 == <<"KeySwitchAux2", 0, 0>>
ModdownAux(i) == <<"ModdownAux", i, 0>>
Scratch == {KeySwitchAux, KeySwitchAux2, ModdownAux(0), ModdownAux(1)}

\* and of the context of a sparse secret, which lends its own to ModRaise
SparseAux == <<"SparseAux", 0, 0>>
SparseModdownAux == <<"SparseModdownAux", 0, 0>>
SparseScratch == {SparseAux, SparseModdownAux}

\* The keys: (a, b) are the two polynomials of a key.  SparseKey and DenseKey
\* switch to the sparse secret and back.
EvalKey     == "EvalKey"
RotationKey == "RotationKey"
SparseKey   == "SparseKey"
DenseKey    == "DenseKey"
AllKeys     == {EvalKey, RotationKey, SparseKey, DenseKey}
KeyPolys    == Polys(AllKeys)

\* What the context caches for multMonomial, and the plaintexts of a linear
\* transform of bootstrapping
monomial == <<"monomial", 0, 0>>
BootStage == "BootStage"
bootPt == <<c0(BootStage), c1(BootStage)>>

\* Ciphertexts that an operation creates, and destroys before it returns
Local == {"fastRotation1", "fastRotation2", "result1", "result2", "prod", "constant",
          "term", "sparse"}

Partitions == Polys(Ciphertext \cup Local) \cup {c0(p) : p \in Plaintext} \cup Scratch
                 \cup SparseScratch \cup KeyPolys \cup {monomial} \cup ToSet(bootPt)
StreamsOfContext == Partitions \cup SharedStreams(0)
-----------------------------------------------------------------------------
(* RNSPoly                                                                  *)

copyPoly(q, p, up) ==
    copyLimb(q, p) \o (IF up THEN copySpecialLimb(q, p) ELSE <<>>)

modupPoly(q) == modup(q, KeySwitchAux2)
modupInto(p, q) == copyPoly(q, p, FALSE) \o modupPoly(q)

moddownPoly(q, i) == moddown(q, ModdownAux(i))

\* MGPUkeySwitchCore: q and KeySwitchAux2 become the product with key k
keySwitchCore(q, k, down) ==
    modup_ksk_moddown(q, KeySwitchAux2, ModdownAux(0), ModdownAux(1), c0(k), c1(k), down)

hoistedRotationFused(q, O, K, src_c0, src_c1, ext) ==
    fusedHoistRotate(q, O, Polys(K), src_c0, src_c1, ext)

extendToSparseP(q) == INTT(q) \o broadcastLimb0ToSpecial(q) \o NTT(q) \o NTTspecial(q)

multElementAll(q, p) == multElement(q, p) \o multElementSpecial(q, p)

freeGPU(q) == freeLimbs(q) \o freeSpecialLimbs(q)
-----------------------------------------------------------------------------
(* Ciphertext.  `up', `upy': whether x or y carries special limbs.          *)

\* ~Ciphertext, and the next one of that name allocates anew
destroyed(x) == freeGPU(c0(x)) \o freeGPU(c1(x))

copy(x, y, upy) == copyPoly(c0(x), c0(y), upy) \o copyPoly(c1(x), c1(y), upy)

addCt(x, y, upy) == add(c0(x), c0(y), upy) \o add(c1(x), c1(y), upy)
subCt(x, y) == sub(c0(x), c0(y)) \o sub(c1(x), c1(y))

multPlain(x, p) == multElement(c0(x), c0(p)) \o multElement(c1(x), c0(p))
addMultPt(x, y, p) == addMult(c0(x), c0(y), c0(p)) \o addMult(c1(x), c1(y), c0(p))

multScalarCt(x, up) == multScalar(c0(x), up) \o multScalar(c1(x), up)

rescalePlaintext(p, compressed) ==
    IF compressed THEN rescaleCompressed(c0(p), ModdownAux(0)) ELSE rescaleOwn(c0(p))

rescaleInternal(x) == doubleRescale(c0(x), c1(x))

modDown(x) == moddownPoly(c0(x), 0) \o moddownPoly(c1(x), 1)

extend(x) == generateSpecialLimb(c0(x)) \o generateSpecialLimb(c1(x))
                \o scaleByP(c0(x)) \o scaleByP(c1(x))

mult(x, y, k, down) ==
    (IF down THEN <<>> ELSE generateSpecialLimb(c0(x)) \o generateSpecialLimb(c1(x)))
        \o binomialMult(c0(x), c1(x), KeySwitchAux, {c0(y), c1(y)})
        \o keySwitchCore(KeySwitchAux, k, down)
        \o add(c0(x), KeySwitchAux2, ~down) \o add(c1(x), KeySwitchAux, ~down)

rotate(x, k, up0, down) ==
    modupInto(c1(x), KeySwitchAux) \o copyPoly(KeySwitchAux2, c0(x), up0)
        \o hoistedRotationFused(KeySwitchAux, Polys({x}), {k}, KeySwitchAux2, KeySwitchAux, up0)
        \o (IF down THEN modDown(x) ELSE <<>>)

conjugate(x, y, k) ==
    modupInto(c1(y), KeySwitchAux)
        \o hoistedRotationFused(KeySwitchAux, Polys({x}), {k}, c0(y), KeySwitchAux, FALSE)
        \o modDown(x)

\* The results of index 0 are copies of x, extended if `ext'.
copied(y, x, ext) == copy(y, x, FALSE) \o (IF ext THEN extend(y) ELSE <<>>)

\* z is rotated from x, of which c0 is raised if up0; `copies' are the launches
\* for the results of index 0.
rotate_hoisted(x, up0, copies, z, k, ext) ==
    modupInto(c1(x), KeySwitchAux) \o copies
        \o hoistedRotationFused(KeySwitchAux, Polys({z}), {k}, c0(x), c1(x), up0)
        \o (IF ext THEN <<>> ELSE modDown(z))

automorphCt(x) ==
    copyPoly(ModdownAux(0), c0(x), FALSE) \o copyPoly(ModdownAux(1), c1(x), FALSE)
        \o automorphFrom(c0(x), ModdownAux(0), FALSE) \o automorphFrom(c1(x), ModdownAux(1), FALSE)

keySwitch(x, k) ==
    copyPoly(KeySwitchAux, c1(x), FALSE) \o keySwitchCore(KeySwitchAux, k, TRUE)
        \o copyPoly(c1(x), KeySwitchAux, FALSE) \o add(c0(x), KeySwitchAux2, FALSE)

\* one of the two products of keySwitchSparse, with polynomial p of the key
sparseProduct(p) ==
    copyPoly(c0("prod"), SparseAux, TRUE) \o multElementAll(c0("prod"), p)
        \o exactModdown(c0("prod"), SparseModdownAux)

\* of a ciphertext of the sparse context
keySwitchSparse(x, k) ==
    copyPoly(SparseAux, c1(x), FALSE) \o extendToSparseP(SparseAux)
        \o sparseProduct(c1(k)) \o add(c0(x), c0("prod"), FALSE)
        \o sparseProduct(c0(k)) \o copyPoly(c1(x), c0("prod"), FALSE)
        \o freeGPU(c0("prod"))

\* Sums of products of the ciphertexts in Y, all raised or none (up), into x
dotProduct(x, Y, k, up, ext) ==
    binomialDotProduct(c0(x), c1(x), KeySwitchAux, Polys(Y), up)
        \o (IF up THEN moddownPoly(KeySwitchAux, 0) ELSE <<>>)
        \o keySwitchCore(KeySwitchAux, k, ~(ext \/ up))
        \o add(c0(x), KeySwitchAux2, ext \/ up) \o add(c1(x), KeySwitchAux, ext \/ up)
        \o (IF up /\ ~ext THEN modDown(x) ELSE <<>>)

dotProductPtCt(x, Y, P, ext) ==
    dotProductPt(c0(x), c1(x), Polys(Y), {c0(p) : p \in P}, ext)

evalLinearWSumCt(x, Y) ==
    evalLinearWSum(c0(x), {c0(y) : y \in Y}) \o evalLinearWSum(c1(x), {c1(y) : y \in Y})

\* A sum of multiples of y added to several: to x, and to a ciphertext that the
\* caller drops
evalMultipleWSum(x, y) ==
    LET sum(c(_)) == evalLinearWSumMultiple(<<c(x), c("term")>>, <<c(y)>>)
    IN  sum(c0) \o sum(c1) \o destroyed("term")

\* A complex constant is a polynomial of its own.
constant == c0("constant")
withConstant(prog) == loadLimbs(constant, FALSE) \o NTT(constant) \o prog \o freeGPU(constant)
multConstant(x) ==
    withConstant(multElement(c0(x), constant) \o multElement(c1(x), constant))
addConstant(x) == withConstant(add(c0(x), constant, FALSE))

\* A multiple of y added to x
addMultiple(q, p, aux) ==
    copyPoly(aux, p, FALSE) \o multScalar(aux, FALSE) \o add(q, aux, FALSE)
addMultScalar(x, y) ==
    addMultiple(c0(x), c0(y), c0("term")) \o addMultiple(c1(x), c1(y), c1("term"))
        \o destroyed("term")

multMonomial(x, cached) ==
    (IF cached THEN <<>> ELSE loadLimbs(monomial, FALSE) \o NTT(monomial))
        \o multElement(c0(x), monomial) \o multElement(c1(x), monomial)

\* ModRaise, of a ciphertext with one limb left: back to all limbs.  With sparse
\* encapsulation the secret is switched to the sparse one before, in a
\* ciphertext of the sparse context, and back after.
raise(q) == INTT(q) \o broadcastLimb0(q) \o NTT(q)

encapsulated(x) ==
    copy("sparse", x, FALSE) \o keySwitchSparse("sparse", SparseKey)
        \o copy(x, "sparse", FALSE) \o destroyed("sparse")

modRaise(x, sparse_encaps) ==
    (IF sparse_encaps THEN encapsulated(x) ELSE <<>>)
        \o raise(c0(x)) \o raise(c1(x))
        \o (IF sparse_encaps THEN keySwitch(x, DenseKey) ELSE <<>>)
-----------------------------------------------------------------------------
(* Transforms of bStep = 2 and gStep = 2, from local ciphertexts            *)

fastRotations == Polys({"fastRotation1", "fastRotation2"})
results == Polys({"result1", "result2"})

\* The rotations of x times the plaintexts, on streams that the caller has
\* joined: into result1 and result2
DotProductPtInternal(pt) ==
    LTdotProductPtBatch(<<c0("result1"), c1("result1"), c0("result2"), c1("result2")>>,
                        <<c0("fastRotation1"), c1("fastRotation1"),
                          c0("fastRotation2"), c1("fastRotation2")>>, pt, TRUE)

hoistedProducts(x, pt, k) ==
    rotate_hoisted(x, FALSE, copied("fastRotation1", x, TRUE), "fastRotation2", k, TRUE)
        \o Waits(c0("result1"), results \cup fastRotations)
        \o DotProductPtInternal(pt)

LinearTransform(x, pt, k) ==
    hoistedProducts(x, pt, k)
        \o Awaited(c0("result1"), results \cup fastRotations)
        \o moddownPoly(c1("result2"), 0) \o rotate("result2", k, TRUE, FALSE)
        \o addCt("result1", "result2", TRUE) \o destroyed("result2")
        \o modDown("result1") \o copy(x, "result1", FALSE)
        \o destroyed("result1") \o destroyed("fastRotation1") \o destroyed("fastRotation2")

\* The streams of the results wait for the product, those of the rotations do not.
ConvolutionTransform(x, pt, k) ==
    hoistedProducts(x, pt, k)
        \o Awaited(c0("result1"), results)
        \o modDown("result1") \o rotate("result1", k, FALSE, TRUE)
        \o modDown("result2") \o rotate("result2", k, FALSE, TRUE)
        \o addCt("result1", "result2", FALSE) \o copy(x, "result1", FALSE)
        \o destroyed("result1") \o destroyed("result2")
        \o destroyed("fastRotation1") \o destroyed("fastRotation2")

\* The rounds of Accumulate and Broadcast are rotations into a local ciphertext,
\* added to x with their special limbs; c1 is lowered in each, c0 at the end.
accumulateRound(x, up0, k) ==
    rotate_hoisted(x, up0, <<>>, "result1", k, TRUE)
        \o addCt(x, "result1", TRUE) \o moddownPoly(c1(x), 0)

Accumulate(x, k) ==
    accumulateRound(x, FALSE, k) \o accumulateRound(x, TRUE, k)
        \o moddownPoly(c0(x), 0) \o destroyed("result1")
-----------------------------------------------------------------------------
(* The host                                                                 *)

Init ==
    /\ later = Quiet
    /\ raced = {}
    /\ raised = {}
    /\ resident = AllKeys \cup {BootStage}
    /\ pending = 0

\* The kernels of prog, one launch after the other, after what lt knows of
Enqueued(lt, prog) ==
    FoldLeft(LAMBDA st, l : [raced |-> st.raced \cup Races(st.later, l),
                             later |-> Launched(st.later, l)],
             [raced |-> raced, later |-> lt], prog)

Issue(lt, prog) ==
    LET end == Enqueued(lt, prog)
    IN  later' = end.later /\ raced' = end.raced

\* An operation on objects U, which leaves the ciphertexts `up' raised
Operation(prog, U, up) ==
    /\ U \subseteq resident
    /\ pending < MaxPending
    /\ Issue(later, prog)
    /\ raised' = up
    /\ pending' = pending + 1
    /\ UNCHANGED resident

IsUp(x) == x \in raised
Flat(X) == X \cap raised = {}

\* Operations without a key
Copy(x, y) ==
    /\ x # y
    /\ Operation(copy(x, y, IsUp(y)), {x, y},
                 IF IsUp(y) THEN raised \cup {x} ELSE raised \ {x})

Add(x, y) ==
    Operation(addCt(x, y, IsUp(y)), {x, y}, IF IsUp(y) THEN raised \cup {x} ELSE raised)

Sub(x, y) == Flat({x, y}) /\ Operation(subCt(x, y), {x, y}, raised)

AddPt(x, p) == Flat({x}) /\ Operation(add(c0(x), c0(p), FALSE), {x, p}, raised)
SubPt(x, p) == Flat({x}) /\ Operation(sub(c0(x), c0(p)), {x, p}, raised)
MultPt(x, p) == Flat({x}) /\ Operation(multPlain(x, p), {x, p}, raised)
RescalePt(p, compressed) == Operation(rescalePlaintext(p, compressed), {p}, raised)
AddMultPt(x, y, p) == Flat({x, y}) /\ Operation(addMultPt(x, y, p), {x, y, p}, raised)
DotProductPt(x, Y, P) ==
    Flat({x} \cup Y) /\ Operation(dotProductPtCt(x, Y, P, FALSE), {x} \cup Y \cup P, raised)

AddScalar(x) == Operation(addScalar(c0(x)), {x}, raised)
MultScalar(x) == Operation(multScalarCt(x, IsUp(x)), {x}, raised)
EvalLinearWSum(x, Y) == Flat({x} \cup Y) /\ Operation(evalLinearWSumCt(x, Y), {x} \cup Y, raised)
EvalMultipleWSum(x, y) ==
    x # y /\ Flat({x, y}) /\ Operation(evalMultipleWSum(x, y), {x, y}, raised)
AddConstant(x) == Flat({x}) /\ Operation(addConstant(x), {x}, raised)
MultConstant(x) == Flat({x}) /\ Operation(multConstant(x), {x}, raised)
AddMultScalar(x, y) ==
    x # y /\ Flat({x, y}) /\ Operation(addMultScalar(x, y), {x, y}, raised)
MultMonomial(x, cached) == Flat({x}) /\ Operation(multMonomial(x, cached), {x}, raised)
Rescale(x) == Flat({x}) /\ Operation(rescaleInternal(x), {x}, raised)
Automorph(x) == Flat({x}) /\ Operation(automorphCt(x), {x}, raised)

Extend(x) == Flat({x}) /\ Operation(extend(x), {x}, raised \cup {x})
ModDown(x, free) ==
    /\ IsUp(x)
    /\ Operation(modDown(x) \o (IF free THEN freeSpecialLimbs(c0(x)) \o freeSpecialLimbs(c1(x))
                                       ELSE <<>>),
                 {x}, raised \ {x})

\* Operations with a key
Mult(x, y, down) ==
    /\ Flat({x, y})
    /\ Operation(mult(x, y, EvalKey, down), {x, y, EvalKey},
                 IF down THEN raised ELSE raised \cup {x})

DotProduct(x, Y, ext) ==
    LET up == ~Flat(Y)
    IN  /\ Y \subseteq raised \/ Flat(Y)
        /\ x \notin raised
        /\ Operation(dotProduct(x, Y, EvalKey, up, ext), {x, EvalKey} \cup Y,
                     IF ext THEN raised \cup {x} ELSE raised)

Rotate(x, down) ==
    /\ Flat({x})
    /\ Operation(rotate(x, RotationKey, FALSE, down), {x, RotationKey},
                 IF down THEN raised ELSE raised \cup {x})

Conjugate(x, y) ==
    Flat({x, y}) /\ Operation(conjugate(x, y, RotationKey), {x, y, RotationKey}, raised)

RotateHoisted(x, z, ext) ==
    /\ Flat({x}) /\ z # x
    /\ Operation(rotate_hoisted(x, FALSE, <<>>, z, RotationKey, ext), {x, z, RotationKey},
                 IF ext THEN raised \cup {z} ELSE raised \ {z})

KeySwitch(x) == Flat({x}) /\ Operation(keySwitch(x, EvalKey), {x, EvalKey}, raised)
ModRaise(x, sparse_encaps) ==
    Flat({x}) /\ Operation(modRaise(x, sparse_encaps), {x, SparseKey, DenseKey}, raised)

Transform(x) ==
    /\ Flat({x})
    /\ Operation(LinearTransform(x, bootPt, RotationKey), {x, RotationKey, BootStage}, raised)

AccumulateSum(x) ==
    Flat({x}) /\ Operation(Accumulate(x, RotationKey), {x, RotationKey}, raised)
-----------------------------------------------------------------------------
(* What moves objects to and from the device                                *)

\* Enqueued on the objects' own streams, without a drain: prog makes the objects
\* in R resident, and no others of U.
Move(prog, U, R) ==
    /\ pending < MaxPending
    /\ Issue(later, prog)
    /\ resident' = (resident \ U) \cup R
    /\ raised' = raised \ U
    /\ pending' = pending + 1

loaded(x) == loadLimbs(c0(x), FALSE) \o loadLimbs(c1(x), FALSE)

Load(x) == Flat({x}) /\ Move(loaded(x), {x}, {x})
Destroy(x) == x \in resident /\ Move(destroyed(x), {x}, {})

LoadPlaintext(p) == p \notin resident /\ Move(loadLimbs(c0(p), FALSE), {p}, {p})
EvictPlaintext(p) == p \in resident /\ Move(freeGPU(c0(p)), {p}, {})

\* The device is drained, then prog is enqueued, and U is no longer resident.
DrainThen(prog, U) ==
    /\ U \subseteq resident
    /\ Issue(Quiet, prog)
    /\ resident' = resident \ U
    /\ pending' = 1
    /\ UNCHANGED raised

\* prog is enqueued, and makes U resident; the device is drained.
ThenDrain(prog, U) ==
    /\ later' = Quiet
    /\ raced' = Enqueued(later, prog).raced
    /\ resident' = resident \cup U
    /\ pending' = 0
    /\ UNCHANGED raised

\* Store drains the device before and after the copies to the host.
Store(x) == x \in resident /\ ThenDrain(<<>>, {})
Offload(x) == Flat({x}) /\ DrainThen(freeLimbs(c0(x)) \o freeLimbs(c1(x)), {x})

keyLimbs(k) == <<Kernel(c0(k), {}, {}, {Key(c0(k))}), Kernel(c1(k), {}, {}, {Key(c1(k))})>>

\* The only keys that are offloaded are those for rotations.
OffloadKey == DrainThen(keyLimbs(RotationKey), {RotationKey})
ReloadKey == RotationKey \notin resident /\ ThenDrain(keyLimbs(RotationKey), {RotationKey})

bootLimbs == freeGPU(bootPt[1]) \o freeGPU(bootPt[2])
FreeBootBlock == DrainThen(bootLimbs, {BootStage})
UploadBootBlock ==
    /\ BootStage \notin resident
    /\ ThenDrain(loadLimbs(bootPt[1], TRUE) \o loadLimbs(bootPt[2], TRUE), {BootStage})

Unary(x) ==
    \/ AddScalar(x) \/ MultScalar(x) \/ Rescale(x) \/ Automorph(x) \/ Extend(x)
    \/ \E b \in BOOLEAN : MultMonomial(x, b) \/ ModDown(x, b) \/ Rotate(x, b) \/ ModRaise(x, b)
    \/ AddConstant(x) \/ MultConstant(x) \/ KeySwitch(x) \/ Transform(x) \/ AccumulateSum(x)
    \/ Load(x) \/ Destroy(x) \/ Store(x) \/ Offload(x)

Binary(x, y) ==
    \/ Copy(x, y) \/ Add(x, y) \/ Sub(x, y) \/ Conjugate(x, y) \/ EvalLinearWSum(x, {y})
    \/ EvalMultipleWSum(x, y) \/ AddMultScalar(x, y)
    \/ \E b \in BOOLEAN : Mult(x, y, b) \/ RotateHoisted(x, y, b) \/ DotProduct(x, {y}, b)

WithPlaintext(x, p) ==
    \/ AddPt(x, p) \/ SubPt(x, p) \/ MultPt(x, p)
    \/ \E y \in Ciphertext : AddMultPt(x, y, p) \/ DotProductPt(x, {y}, {p})

Next ==
    \/ \E x \in Ciphertext : \/ Unary(x)
                             \/ \E y \in Ciphertext : Binary(x, y)
                             \/ \E p \in Plaintext : WithPlaintext(x, p)
    \/ \E p \in Plaintext : \/ LoadPlaintext(p) \/ EvictPlaintext(p)
                            \/ \E b \in BOOLEAN : RescalePt(p, b)
    \/ OffloadKey \/ ReloadKey \/ FreeBootBlock \/ UploadBootBlock

Spec == Init /\ [][Next]_vars

\* EvalConvolution, with plaintexts of the user
Convolution(x, p, q) ==
    /\ Flat({x})
    /\ Operation(ConvolutionTransform(x, <<c0(p), c0(q)>>, RotationKey), {x, RotationKey, p, q},
                 raised)

\* The operations, EvalConvolution among them
ConvolutionNext ==
    Next \/ \E x \in Ciphertext : \E p, q \in Plaintext : Convolution(x, p, q)
ConvolutionSpec == Init /\ [][ConvolutionNext]_vars
=============================================================================
