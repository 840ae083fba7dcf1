------------------------ MODULE AccumulateBroadcast ------------------------
(***************************************************************************)
(* Sums of the slots of a ciphertext, and copies of its first slots over   *)
(* the others, by rounds of hoisted rotations (AccumulateBroadcast.cu).    *)
(*                                                                         *)
(* Every step is a rotation or a sum, so what the ciphertext holds is a    *)
(* sum of rotations of what it held: `weight[r]' says how often the input  *)
(* rotated by r occurs in it.  Slot i of that rotation is input i + r.     *)
(*                                                                         *)
(* A round multiplies by rotation keys, which leaves the result scaled by  *)
(* P, with special limbs.  c1 is brought back (mod-down) in every round,   *)
(* c0 at the end.  The mod-down starts with an INTT of the special limbs,  *)
(* which are in evaluation form; without it what comes out is noise.       *)
(*                                                                         *)
(* The ciphertext has all slots of the ring; the number it declares        *)
(* (ctxt.slots), which Broadcast may lower, is left out.                   *)
(***************************************************************************)
EXTENDS Powers, FiniteSets, FiniteSetsExt, Functions

CONSTANTS LogSlots,   \* the ring has 2^LogSlots slots
          MaxBStep,   \* values of bStep tried, from 0
          InitSizes   \* values of initsize of Broadcast

ASSUME SlotsAssumption ==
    /\ LogSlots \in Nat \ {0} /\ MaxBStep \in Nat
    /\ InitSizes \subseteq {TwoTo(k) : k \in 0..LogSlots}

VARIABLES call,    \* the call and its arguments
          status,  \* of the call: running, returned or thrown
          s,       \* the factor of the round
          weight,  \* the rotations of the input that the ciphertext is the sum of
          used,    \* the indices whose rotation keys were asked for
          c0up,    \* c0 has special limbs
          clean    \* c1 has been brought back rightly so far

accumulateVars == <<call, status, s, weight, used, c0up, clean>>

Slots == TwoTo(LogSlots)
Slot  == 0..(Slots - 1)
Power == {TwoTo(k) : k \in 0..LogSlots}

\* `bStep, stride, size and startFactor - should be powers of two': bStep is
\* checked, the others are taken as documented.  For Broadcast, stride is
\* initsize and size is outsize / initsize.
Arguments ==
    [op : {"Accumulate"}, bStep : 0..MaxBStep, stride : Power, size : Power, start : Power \cup {0}]
    \cup [op : {"Broadcast"}, bStep : 0..MaxBStep, stride : InitSizes, size : Power, start : {1}]

Calls == {c \in Arguments : c.stride * c.size <= Slots}

SumsSlots == call.op \in {"Accumulate", "Broadcast"}

\* Faulty: nothing is rejected.
acceptsBStep(b) == TRUE

checkBStep(b) == b >= 2 /\ b \in {TwoTo(k) : k \in 0..MaxBStep}

\* bit_width(b) - 1: the shift of a round
logbStep(b) == IF b = 0 THEN 0 ELSE Max({k \in 0..b : TwoTo(k) <= b})
Shifted(c, factor) == factor * TwoTo(logbStep(c.bStep))

\* The factors of the rounds: from, from shifted, ... below `below'
Factors(c, from, below) ==
    {f \in from..(below - 1) : \E k \in 0..LogSlots : f = from * TwoTo(k * logbStep(c.bStep))}

\* for (idx = step; idx < step * bStep && idx < bound; idx += step)
Multiples(step, bStep, bound) ==
    {i * step : i \in {i \in 1..(bStep - 1) : i * step < bound}}
-----------------------------------------------------------------------------
(* The keys that a user is told to generate                                 *)

GetAccumulateRotationIndices(c) ==
    UNION {Multiples(f, c.bStep, c.stride * c.size) : f \in Factors(c, c.stride, c.stride * c.size)}

\* The last round goes back over the slots that are full already.
LastRound(c, step) ==
    {j \in {1 - i * step : i \in 1..c.bStep} : -j < c.stride * c.size}

GetbroadcastRotationIndices(c) ==
    UNION {IF c.stride * f * c.bStep >= c.stride * c.size
           THEN LastRound(c, f)
           ELSE Multiples(f, c.bStep, c.stride * c.size)
             : f \in Factors(c, c.stride, c.stride * c.size)}

\* There is a list for a start that is a round of the plain fold.  For another
\* one the caller has to go through the rounds himself, as documented for start
\* (and as the test AccumulateSumInPlaceStart does).
StartIndices(c) ==
    UNION {Multiples(f, c.bStep, c.stride * c.size) :
              f \in Factors(c, c.stride * c.start, c.stride * c.size)}

SumKeys(c) ==
    IF c.op = "Broadcast" THEN GetbroadcastRotationIndices(c)
    ELSE IF c.start \in Factors(c, 1, Slots) THEN GetAccumulateRotationIndices(c)
    ELSE IF c.start > 0 THEN StartIndices(c) ELSE {}
-----------------------------------------------------------------------------
(* The calls                                                                *)

SumsInit ==
    /\ call \in Calls
    /\ status = "running"
    /\ s = call.start
    /\ weight = [r \in Slot |-> IF r = 0 THEN 1 ELSE 0]
    /\ used = {}
    /\ c0up = FALSE
    /\ clean = TRUE

\* The sum of the rotations of the ciphertext by the indices
Rotated(indices) ==
    [r \in Slot |-> SumFunction([j \in indices |-> weight[(r - j) % Slots]])]

Plus(v, w) == [r \in Slot |-> v[r] + w[r]]

\* rotate_hoisted by the indices, keeping the special limbs; index 0 is a copy.
\* The ciphertext becomes w, and c1 is brought back.
Rotate(indices, w, ntt) ==
    /\ used' = used \cup (indices \ {0})
    /\ weight' = w
    /\ c0up' = TRUE
    /\ clean' = (clean /\ ntt)
    /\ s' = Shifted(call, s)
    /\ UNCHANGED <<call, status>>

Running == status = "running" /\ checkBStep(call.bStep)

Reject ==
    /\ status = "running"
    /\ ~checkBStep(call.bStep)
    /\ status' = "thrown"
    /\ UNCHANGED <<call, s, weight, used, c0up, clean>>

\* Faulty: the rotations go as far as the round before has come already.
OverlappingRound ==
    /\ Running /\ call.op = "Accumulate" /\ call.start > 0 /\ s < call.size
    /\ LET indices == Multiples(call.stride * s, call.bStep + 1, call.stride * call.size)
       IN  Rotate(indices, Plus(weight, Rotated(indices)), TRUE)

\* A round of Accumulate: the ciphertext plus its rotations.  It has at least one.
AccumulateRound ==
    /\ Running /\ call.op = "Accumulate" /\ call.start > 0 /\ s < call.size
    /\ LET indices == Multiples(call.stride * s, call.bStep, call.stride * call.size)
       IN  Rotate(indices, Plus(weight, Rotated(indices)), TRUE)

IsLast == s * call.bStep >= call.size

\* A round of Broadcast that is not the last; moddown(false) leaves out the INTT.
BroadcastRound ==
    /\ Running /\ call.op = "Broadcast" /\ s < call.size /\ ~IsLast
    /\ LET indices == Multiples(call.stride * s, call.bStep, call.stride * call.size)
       IN  Rotate(indices, Plus(weight, Rotated(indices)), FALSE)

\* The last round: the sum of the rotations alone
BroadcastLastRound ==
    /\ Running /\ call.op = "Broadcast" /\ s < call.size /\ IsLast
    /\ LET indices == LastRound(call, call.stride * s)
       IN  Rotate(indices, Rotated(indices), FALSE)

\* c0 is brought back, if it has special limbs.
Return ==
    /\ Running
    /\ s >= call.size \/ call.start <= 0
    /\ status' = "returned"
    /\ c0up' = FALSE
    /\ UNCHANGED <<call, s, weight, used, clean>>

SumsNext == Reject \/ AccumulateRound \/ BroadcastRound \/ BroadcastLastRound \/ Return

SumsSpec == SumsInit /\ [][SumsNext]_accumulateVars /\ WF_accumulateVars(SumsNext)
-----------------------------------------------------------------------------
Returned(op) == status = "returned" /\ call.op = op

\* Accumulate leaves in slot i the sum of the inputs i + j * stride, each once, for
\* j below size (the multiples of startFactor, if it is given), readable.  That is
\* what its callers count on (AccumulateSum, the fold of sparse slots); the comment
\* over it has in_{i % size + j * size}, which is this for stride = size only (README).
SlotsRight ==
    Returned("Accumulate") /\ call.start > 0 =>
        /\ clean
        /\ weight = [r \in Slot |-> Cardinality({j \in 0..(call.size - 1) :
                                         j % call.start = 0 /\ r = j * call.stride})]

\* How often input t occurs in slot i
Occurs(i, t) == weight[(t - i) % Slots]

\* Broadcast of inputs below initsize leaves input i % initsize in slot i below
\* outsize, once, and nothing in the other slots; and what it leaves can be read.
\* That is the comment over it (AccumulateBroadcast.cuh, 60-69), and it fails: no
\* Broadcast with a round leaves c1 readable, and for initsize above 1 the last
\* round, which has to stop a stride short of the full blocks, stops one slot short.
BroadcastRight ==
    Returned("Broadcast") =>
        /\ clean
        /\ \A i \in Slot : \A t \in 0..(call.stride - 1) :
              Occurs(i, t) = IF i < call.stride * call.size /\ t = i % call.stride THEN 1 ELSE 0

\* A call only asks for rotation keys that its user was told to generate: those of
\* the list of its arguments or, for a start without one, of the documented rounds.
\* Not so for a Broadcast whose initsize is above 1: the list counts its rounds in
\* slots, the call in strides, and rounds of the call are missing in the list.
KeysSuffice ==
    SumsSlots /\ (call.op = "Broadcast" => call.stride = 1) =>
        {j % Slots : j \in used} \subseteq {j % Slots : j \in SumKeys(call)}

\* Every call returns or throws: the rounds end, or checkBStep rejects the call.
Terminates == <>(status # "running")
=============================================================================
