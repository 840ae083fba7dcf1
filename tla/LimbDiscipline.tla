--------------------------- MODULE LimbDiscipline ---------------------------
(***************************************************************************)
(* The convention that keeps the functions of LimbPartition free of races, *)
(* stated for one function at a time.                                      *)
(*                                                                         *)
(* A function may rely on one thing when it is called: the stream of every *)
(* partition comes after all accesses of its buffers.  It has to launch    *)
(* its kernels after the streams it knows to come after what they access,  *)
(* and to leave the same behind.  Then no sequence of such functions, on   *)
(* any partitions, lets two kernels race.                                  *)
(***************************************************************************)
EXTENDS LimbStreams

VARIABLES fn,  \* the launches of the function that was called last
          at   \* how many of them have been enqueued

disciplineVars == <<later, raced, fn, at>>

\* What is known of the order: for each owner, streams that come after all
\* accesses of its buffers.
Knowledge == [Stream -> SUBSET Stream]

Covers(lt, K) ==
    \A a \in DOMAIN lt : Owner(a[1]) \in Stream /\ K[Owner(a[1])] \subseteq lt[a]

\* What a function may rely on, and has to leave behind
Own == [o \in Stream |-> {o}]

OwnersOf(l) == {Owner(b) : b \in l.reads \cup l.writes}
Past(l)     == l.after \cup {l.on}
Heirs(l)    == l.before \cup {l.on}

\* The kernel is known to come after all it may conflict with.
Ready(K, l) ==
    /\ OwnersOf(l) \subseteq Stream
    /\ \A o \in OwnersOf(l) : K[o] \cap Past(l) # {}

\* What is known once l has been launched
Learned(K, l) ==
    [o \in Stream |-> IF o \in OwnersOf(l) THEN Heirs(l)
                      ELSE IF K[o] \cap Past(l) # {} THEN K[o] \cup Heirs(l)
                      ELSE K[o]]

\* P[k] is known after k launches of prog, from what the caller left.
Certifies(P, prog) ==
    /\ P[0] = Own
    /\ \A k \in 1..Len(prog) :
          /\ Ready(P[k - 1], prog[k])
          /\ \A o \in Stream : P[k][o] \subseteq Learned(P[k - 1], prog[k])[o]
    /\ \A o \in Stream : o \in P[Len(prog)][o]

Disciplined(prog) == \E P \in [0..Len(prog) -> Knowledge] : Certifies(P, prog)
-----------------------------------------------------------------------------
(* Functions of LimbPartition, on any partitions                            *)

\* Streams that belong to one partition, on a GPU with all shared streams
Partition == {q \in Stream : SharedStreams(q[3]) \subseteq Stream \ {q}}

\* One kernel, on operands
OperandFunctions(q, p, r) ==
    {add(q, p, e) : e \in BOOLEAN} \cup {automorphFrom(q, p, e) : e \in BOOLEAN}
    \cup {sub(q, p), multElement(q, p), multElementSpecial(q, p), addMult(q, p, r),
          copyLimb(q, p), copySpecialLimb(q, p), multElementOf(q, p, r), squareElement(q, p),
          mult1Add2(q, p, r)}
    \cup {addOf(q, p, r, e, f) : e, f \in BOOLEAN}

\* One kernel, on the partition alone
OwnFunctions(q) ==
    {multScalar(q, e) : e \in BOOLEAN} \cup {loadLimbs(q, e) : e \in BOOLEAN}
    \cup {scaleByP(q), addScalar(q), subScalar(q), broadcastLimb0(q),
          broadcastLimb0ToSpecial(q), NTT(q), INTT(q), rescaleOwn(q),
          NTTspecial(q), generateSpecialLimb(q), freeLimbs(q), freeSpecialLimbs(q)}

\* Sums over any number of operands
SumFunctions(q, p, r, Q, R) ==
    {evalLinearWSum(q, Q), evalLinearWSumComplex(q, Q), mult1AddMult23Add4(q, Q),
     binomialMult(q, p, r, Q)}
    \cup {binomialSquareFold(q, p, r, o) : o \in Q}
    \cup UNION {{binomialDotProduct(q, p, r, Q, e), dotProductPt(q, p, Q, R, e)} : e \in BOOLEAN}

WithOperands == UNION {OperandFunctions(q, p, r) : q, p, r \in Partition}
Alone        == UNION {OwnFunctions(q) : q \in Partition}
Sums         == UNION {SumFunctions(q, p, r, Q, R) : q, p, r \in Partition,
                                                     Q, R \in SUBSET Partition}
ModDowns     == {moddown(q, p) : q, p \in Partition}
\* Several sums at once
ManySums(F(_, _)) == {F(out, in) : out \in Seq(Partition) \ {<<>>}, in \in Seq(Partition)}
\* of the two polynomials of a ciphertext, on one GPU
Pairs        == {c \in Partition \X Partition : c[1] # c[2] /\ c[1][3] = c[2][3]}
Rescales     == {doubleRescale(c[1], c[2]) : c \in Pairs}

Compressed   == {rescaleCompressed(q, p) : q, p \in Partition}

Functions == WithOperands \cup Alone \cup Sums \cup ModDowns \cup Rescales \cup Compressed
                \cup ManySums(evalLinearWSumMultiple) \cup ManySums(evalLinearWSumComplexMultiple)
-----------------------------------------------------------------------------
DisciplineInit ==
    /\ later = Quiet
    /\ raced = {}
    /\ fn = <<>>
    /\ at = 0

Call ==
    /\ at = Len(fn)
    /\ fn' \in Functions
    /\ at' = 0
    /\ UNCHANGED orderVars

Launch ==
    /\ at < Len(fn)
    /\ later' = Launched(later, fn[at + 1])
    /\ raced' = raced \cup Races(later, fn[at + 1])
    /\ at' = at + 1
    /\ UNCHANGED fn

DisciplineNext == Call \/ Launch

DisciplineSpec == DisciplineInit /\ [][DisciplineNext]_disciplineVars

\* Whenever a function has returned, the stream of every partition comes after
\* all accesses of its buffers.
ReturnsCovered == at = Len(fn) => OwnersCover(later, Stream)
=============================================================================
