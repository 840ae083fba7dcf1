---------------------------- MODULE LimbStreams ----------------------------
(***************************************************************************)
(* The kernels that the functions of LimbPartition enqueue on one GPU, and *)
(* the waits between streams around them (LimbPartition.cu, and from       *)
(* LimbPartitionMGPU.cu and LimbPartitionBatch.cu what one GPU runs too).  *)
(*                                                                         *)
(* A partition is <<name, i, g>>: the part that GPU g holds of polynomial  *)
(* i of the object of that name.  All limbs of a partition use its stream  *)
(* (USE_PARTITION_STREAM), so STREAM(limb) is the partition's own.  Its    *)
(* buffers are the limbs, their auxiliary halves, the special limbs and,   *)
(* by digit, the limbs gathered for the base conversion and what the       *)
(* conversion yields (DIGITlimb), the special part apart.                  *)
(*                                                                         *)
(* A function is the sequence of its launches (StreamOrder).  Everything   *)
(* about values - which primes, which kernel, how many slots - is left     *)
(* out; batches of a kernel are one launch.                                *)
(***************************************************************************)
EXTENDS StreamOrder, SequencesExt, Naturals

CONSTANT dnum  \* the number of digits

ASSUME DigitsAssumption == dnum \in Nat \ {0}

Digit == 1..dnum

Limb(q)    == <<q, "limb">>
Special(q) == <<q, "special">>
\* The auxiliary halves of the limbs of a digit, and of all limbs.
AuxOf(q, d) == <<q, "aux", d>>
Aux(q)      == {AuxOf(q, d) : d \in Digit}
\* A digit, gathered (DECOMPlimb, bufferGATHER) and converted.
Gather(q, d)       == <<q, "gather", d>>
DigitSpecial(q, d) == <<q, "digit special", d>>
DigitLimb(q, d)    == <<q, "digit limb", d>>
Converted(q, d)    == {DigitSpecial(q, d), DigitLimb(q, d)}
AllConverted(q)    == UNION {Converted(q, d) : d \in Digit}

\* The limbs that a call works on: with the special ones when `ext'.
Limbs(q, ext) == {Limb(q)} \cup (IF ext THEN {Special(q)} ELSE {})
AllLimbs(Q, ext) == UNION {Limbs(q, ext) : q \in Q}

\* The streams shared by the polynomials on the GPU of q.
digitStream(q, d)  == <<"digitStream", d, q[3]>>
digitStream2(q, d) == <<"digitStream2", d, q[3]>>
top_limb_stream(q)  == <<"top_limb_stream", 0, q[3]>>
top_limb_stream2(q) == <<"top_limb_stream2", 0, q[3]>>
\* the limb that is dropped, in a buffer of the context
top_limb(t)         == <<t, "top limb">>

SharedStreams(g) ==
    {<<n, 0, g>> : n \in {"top_limb_stream", "top_limb_stream2"}}
        \cup {<<n, d, g>> : n \in {"digitStream", "digitStream2"}, d \in Digit}

\* A kernel on stream s, which first waits for the streams S.
KernelAfter(s, S, reads, writes) ==
    [on |-> s, after |-> S, reads |-> reads, writes |-> writes, before |-> {}]

\* A kernel on stream s that waits for the streams S, and they for it.
Kernel(s, S, reads, writes) ==
    [on |-> s, after |-> S, reads |-> reads, writes |-> writes, before |-> S]

\* A kernel on stream s, for which the streams S wait then.
KernelBefore(s, S, reads, writes) ==
    [on |-> s, after |-> {}, reads |-> reads, writes |-> writes, before |-> S]

\* s.wait(t) for every t in T.
Waits(s, T) == <<KernelAfter(s, T, {}, {})>>

\* t.wait(s) for every t in T.
Awaited(s, T) == <<KernelBefore(s, T, {}, {})>>

\* F(1), ..., F(dnum), one after the other.
EachDigit(F(_)) == FlattenSeq([d \in Digit |-> F(d)])
-----------------------------------------------------------------------------
(* Element-wise functions: the kernel runs on the partition's stream s,     *)
(* which waits for the operands' streams, and they for it.  `ext': with the *)
(* special limbs.                                                           *)

add(q, p, ext) == <<Kernel(q, {p}, AllLimbs({q, p}, ext), Limbs(q, ext))>>

sub(q, p) == <<Kernel(q, {p}, AllLimbs({q, p}, FALSE), {Limb(q)})>>

multElement(q, p) == <<Kernel(q, {p}, AllLimbs({q, p}, FALSE), {Limb(q)})>>

multElementSpecial(q, p) == <<Kernel(q, {p}, {Special(q), Special(p)}, {Special(q)})>>

addMult(q, a, b) == <<Kernel(q, {a, b}, AllLimbs({q, a, b}, FALSE), {Limb(q)})>>

\* Products and sums of two operands, or four, into q
multElementOf(q, a, b) == <<Kernel(q, {a, b}, AllLimbs({a, b}, FALSE), {Limb(q)})>>
addOf(q, a, b, ext_a, ext_b) ==
    <<Kernel(q, {a, b}, Limbs(a, ext_a) \cup Limbs(b, ext_b), Limbs(q, ext_a \/ ext_b))>>
squareElement(q, p) == <<Kernel(q, {p}, {Limb(p)}, {Limb(q)})>>
mult1Add2(q, a, b) == <<Kernel(q, {a, b}, AllLimbs({q, a, b}, FALSE), {Limb(q)})>>
mult1AddMult23Add4(q, P) == <<Kernel(q, P, AllLimbs({q} \cup P, FALSE), {Limb(q)})>>

\* q and c0 get the square that c0, q and the switched a and b make up.
binomialSquareFold(q, c0, a, b) ==
    <<Kernel(q, {c0, a, b}, AllLimbs({q, c0, a, b}, FALSE), AllLimbs({q, c0}, FALSE))>>

\* No operand. multScalar may include the special limbs; the special ones are
\* set from limb 0 when a polynomial is raised.
scaleByP(q) == <<Kernel(q, {}, {}, {Limb(q)})>>
multScalar(q, ext) == <<Kernel(q, {}, {}, Limbs(q, ext))>>
addScalar(q) == <<Kernel(q, {}, {}, {Limb(q)})>>
subScalar(q) == addScalar(q)
\* to the other limbs, when a polynomial is brought back to the highest level
broadcastLimb0(q) == <<Kernel(q, {}, {}, {Limb(q)})>>
broadcastLimb0ToSpecial(q) == <<Kernel(q, {}, {Limb(q)}, {Special(q)})>>

copyLimb(q, p) == <<Kernel(q, {p}, {Limb(p)}, {Limb(q)})>>
copySpecialLimb(q, p) == <<Kernel(q, {p}, {Special(p)}, {Special(q)})>>

automorphFrom(q, src, ext) == <<Kernel(q, {src}, Limbs(src, ext), Limbs(q, ext))>>

\* q, c1 and c2 get the three parts of the product of (q, c1) and (d0, d1),
\* which a square does not have.
binomialMult(q, c1, c2, D) ==
    <<Kernel(q, {c1, c2} \cup D, AllLimbs({q, c1} \cup D, FALSE),
             AllLimbs({q, c1, c2}, FALSE))>>

\* The sums over pairs of ciphertexts whose polynomials are in Q
binomialDotProduct(q, c1, c2, Q, ext) ==
    <<Kernel(q, {c1, c2} \cup Q, AllLimbs(Q, ext), AllLimbs({q, c1, c2}, ext))>>

\* The sums over ciphertexts, whose polynomials are in Q, times the plaintexts P
dotProductPt(q, c1, Q, P, ext) ==
    <<Kernel(q, {c1} \cup Q \cup P, AllLimbs(Q \cup P, ext), AllLimbs({q, c1}, ext))>>

\* A weighted sum of the polynomials P into q
evalLinearWSum(q, P) == <<Kernel(q, P, AllLimbs(P, FALSE), {Limb(q)})>>
evalLinearWSumComplex(q, P) == evalLinearWSum(q, P)

\* Several sums at once: of the polynomials `in', one into each of `out', on the
\* stream of the first
evalLinearWSumMultiple(out, in) ==
    <<Kernel(out[1], ToSet(out) \cup ToSet(in), AllLimbs(ToSet(in), FALSE),
             AllLimbs(ToSet(out), FALSE))>>
evalLinearWSumComplexMultiple(out, in) == evalLinearWSumMultiple(out, in)
-----------------------------------------------------------------------------
(* Transforms and base conversions                                          *)

\* NTT and INTT go through the auxiliary halves and back.
NTT(q)  == <<Kernel(q, {}, {}, {Limb(q)} \cup Aux(q))>>
INTT(q) == <<Kernel(q, {}, {}, {Limb(q)} \cup Aux(q))>>
NTTspecial(q) == <<Kernel(q, {}, {}, {Special(q)})>>

\* The special limbs set to zero
generateSpecialLimb(q) == <<Kernel(q, {}, {}, {Special(q)})>>

\* Limbs loaded from the host
loadLimbs(q, ext) == <<Kernel(q, {}, {}, Limbs(q, ext))>>

\* The limbs go back to the pool, through the stream of the partition.
freeLimbs(q) == <<Kernel(q, {}, {}, {Limb(q)} \cup Aux(q))>>
freeSpecialLimbs(q) == <<Kernel(q, {}, {}, {Special(q)})>>

\* INTT of the top limb of q into the buffer of t, on stream t
dropTop(q, t) == KernelAfter(t, {q}, {Limb(q)}, {top_limb(t)})

\* NTT of the top limb for each of the others
expandTop(q, t) == KernelBefore(q, {t}, {top_limb(t)}, Aux(q))

\* The second half of that NTT, fused with the division
divide(q) == KernelAfter(q, {}, {}, {Limb(q)} \cup Aux(q))

\* doubleRescaleMGPU with one GPU: both polynomials of a ciphertext
doubleRescale(q, p) ==
    LET t == top_limb_stream(q)
        u == top_limb_stream2(p)
    IN  <<dropTop(q, t), KernelAfter(q, {t}, {}, {}),
          dropTop(p, u), KernelAfter(p, {u}, {}, {}),
          expandTop(q, t), divide(q), expandTop(p, u), divide(p)>>

\* One polynomial alone: through its own auxiliary halves, or, when it is a
\* compressed constant and has none, through the limbs of aux
rescaleOwn(q) == <<Kernel(q, {}, {}, {Limb(q)} \cup Aux(q))>>
rescaleCompressed(q, aux) ==
    LET t == top_limb_stream(q)
    IN  <<KernelAfter(t, {q}, {}, {Limb(q), top_limb(t)}), KernelAfter(q, {t}, {}, {}),
          Kernel(q, {aux}, {}, {Limb(q), Limb(aux)})>>

\* INTT of the special limbs, conversion into the limbs of aux, NTT fused with
\* the subtraction (exactModdown differs in the conversion only)
moddown(q, aux) ==
    <<KernelAfter(q, {aux}, {}, {Special(q)}),
      KernelAfter(q, {aux}, {Special(q)}, {Limb(aux)}),
      Kernel(q, {aux}, {Limb(aux)}, {Limb(q)} \cup Aux(q))>>
exactModdown(q, aux) == moddown(q, aux)

\* The digit d of q, on a stream of its own: INTT into the gathered limbs, base
\* conversion, NTT through the digit of aux.
modupDigit(q, aux, d) ==
    LET s == digitStream(q, d)
    IN  <<KernelAfter(s, {q}, {Limb(q)}, {AuxOf(q, d), Gather(q, d)}),
          KernelBefore(s, {digitStream2(q, d)}, {Gather(q, d)}, Converted(q, d)),
          KernelAfter(s, {}, {}, Converted(q, d) \cup Converted(aux, d))>>

digitStreams(q) == {digitStream(q, d) : d \in Digit}

\* Faulty: s waits for the first digit only.
modupFirstJoined(q, aux) ==
    LET digit(d) == modupDigit(q, aux, d)
    IN  Waits(q, {aux}) \o EachDigit(digit) \o Waits(q, {digitStream(q, 1)})
            \o Awaited(q, {aux})

\* LimbPartition::modupMGPU with one GPU
modup(q, aux) ==
    LET digit(d) == modupDigit(q, aux, d)
    IN  Waits(q, {aux}) \o EachDigit(digit) \o Waits(q, digitStreams(q))
            \o Awaited(q, {aux})
-----------------------------------------------------------------------------
(* Products with key-switching keys.  A key is one buffer.                  *)

Key(k) == <<k, "key">>
Keys(K) == {Key(k) : k \in K}

\* Rotations of (src_c0, src_c1), whose digits are in q, each by its key: into
\* the polynomials O.  No stream of a key waits or is waited for.
fusedHoistRotate(q, O, K, src_c0, src_c1, ext) ==
    <<Kernel(q, {src_c0, src_c1} \cup O,
             AllConverted(q) \cup Limbs(src_c0, ext) \cup {Limb(src_c1)} \cup Keys(K),
             AllLimbs(O, TRUE))>>

\* modup_ksk_moddown_mgpu with one GPU: up to the conversion of digit d
keySwitchDigit(q, c0, d) ==
    LET s == digitStream(q, d)
    IN  <<KernelAfter(s, {q}, {Limb(q)}, {AuxOf(q, d), Gather(q, d)}),
          KernelBefore(s, {digitStream2(q, d)}, {Gather(q, d)}, Converted(q, d)),
          KernelAfter(s, {}, {}, {DigitSpecial(q, d), DigitSpecial(c0, d)})>>

\* the rest of digit d
keySwitchDigitLimbs(q, c0, d) ==
    <<KernelBefore(digitStream2(q, d), {digitStream2(q, 1)}, {},
                   {DigitLimb(q, d), DigitLimb(c0, d)})>>

\* mod-down of out on its stream, begun before the product of the other limbs
keySwitchModdown(out, aux) ==
    <<KernelAfter(out, {}, {}, {Special(out), Special(aux)}),
      KernelAfter(out, {}, {Special(aux)}, {Limb(aux)})>>

\* and its end, after them
keySwitchModdownEnd(q, out, aux) ==
    <<KernelAfter(out, {}, {Limb(aux)}, Aux(out)),
      KernelAfter(out, {digitStream2(q, 1)}, Aux(out), {Limb(out)})>>

\* The special limbs of the product, on s
keySwitchSpecial(q, c0, ka, kb) ==
    <<KernelAfter(q, digitStreams(q),
                  {DigitSpecial(q, d) : d \in Digit} \cup {Key(ka), Key(kb)},
                  {Special(q), Special(c0)})>>

\* The other limbs of the product, on the second stream of the first digit
keySwitchLimbs(q, c0, ka, kb) ==
    <<KernelAfter(digitStream2(q, 1), {},
                  {DigitLimb(q, d) : d \in Digit} \cup {Limb(q), Key(ka), Key(kb)},
                  {Limb(q), Limb(c0)})>>

\* The end: everything joins s.
keySwitchEnd(q, c0, aux1, aux2, down) ==
    (IF down THEN keySwitchModdownEnd(q, q, aux1) \o keySwitchModdownEnd(q, c0, aux2)
             ELSE Waits(q, {digitStream2(q, 1)}))
    \o Waits(q, {c0})

\* The whole: q times the key (ka, kb), into q and c0
modup_ksk_moddown(q, c0, aux1, aux2, ka, kb, down) ==
    LET digit(d) == keySwitchDigit(q, c0, d)
        limbs(d) == keySwitchDigitLimbs(q, c0, d)
    IN  Waits(q, {aux1, aux2, c0, ka, kb})
        \o EachDigit(digit)
        \o keySwitchSpecial(q, c0, ka, kb)
        \o Awaited(q, {c0})
        \o (IF down THEN keySwitchModdown(q, aux1) \o keySwitchModdown(c0, aux2) ELSE <<>>)
        \o EachDigit(limbs)
        \o keySwitchLimbs(q, c0, ka, kb)
        \o keySwitchEnd(q, c0, aux1, aux2, down)
        \o Awaited(q, {c0, aux1, aux2, ka, kb})
-----------------------------------------------------------------------------
(* The batched product of a linear transform (LTdotProductPtBatch): the     *)
(* polynomials `in' times the plaintexts pt into `out', on the stream of    *)
(* in[1], which waits only for those of out[1] and pt[1]; the caller joins  *)
(* the others.                                                              *)
LTdotProductPtBatch(out, in, pt, ext) ==
    <<Kernel(in[1], {out[1], pt[1]}, AllLimbs(ToSet(in) \cup ToSet(pt), ext),
             AllLimbs(ToSet(out), ext))>>
=============================================================================
