# A verification development for FIDESlib

FIDESlib runs the CKKS homomorphic-encryption scheme on GPUs. It sits behind an
OpenFHE-like C++ API (`src/api`), keeps keys, ciphertexts, plaintexts and
bootstrapping tables in VRAM (`src/src/CKKS`), and gets its device memory from an
allocator of its own (`src/src/CudaUtils.cu`). What is hard to test in it is, first,
what is in VRAM when, and which kernels may still be reading it: four caches evict under
independent budgets while asynchronous kernels run, under an allocator that
recycles memory without waiting for the device. And it is the bookkeeping of
levels and scales, where every pair of operands takes a branch of its own, the
rotations that sums and transforms are made of, and the contexts that keys outlive
or do not. The arithmetic, which every test of the repository exercises, has corners
that random residues of 60 bits hardly reach. These modules are about all of these.

## Inventory

| component | source | state | operations | correct when |
|---|---|---|---|---|
| Rotation-key VRAM cache | `Context.cu` 690-860, 1040-1130, 1410-1440; `KeySwitchingKey.cu`; `Ciphertext.cpp` (hoisted rotation) | `rot_keys`, `lru_order`, `resident_bytes`, pins, budget, hold depth | add, get, hoisted rotation under a hold, pin, unpin, offload, new budget, clear | bookkeeping tells the truth about VRAM; no key leaves VRAM under an issued or about-to-be-issued kernel; calls return |
| Bootstrap-precomputation cache | `Context.cu` 862-1040; `CoeffsToSlots.cu`; `Bootstrap.cu`; `RawCiphertext.cu` | boot blocks (stage groups), snapshots, recency, budget | admit, acquire, evict (most recently used), new budget, clear | every group can come back; budget overshot by one group at most; a repeated bootstrap reuses what fits |
| GPU memory pool, streams, events | `CudaUtils.cu`; destructors in `LimbPartition.cu` | slabs, free list, `gpufree_presynced`; per stream an event and `updated` | malloc, free, trim, wait, record | the work of a chunk's next owner comes after that of its last |
| Ciphertext handles and ciphertext cache | `CryptoContext.cpp` 400-800, 2640-2746; `Ciphertext.cpp` of the API | handles, shared host payloads, lazy-copy marks, device ciphertexts, entries with sizes, recency, pins | load, copy, fetch, park, restore, destroy, set level, operate | a handle keeps its value; an operation's device pointers stay good; accounting exact |
| Plaintexts and plaintext cache | `CryptoContext.cpp` 300-400; `CryptoContext.hpp` (hold); `Plaintext.cpp` | plaintext marks, device copies, entries, recency, pins, hold | make, load, fetch, pin, drop, operate, decrypt into | as above |
| Context registry | `Context.cu` 1295-1322, 1448-1669; `LoadContext`, `~CryptoContextImpl`; `AddBootstrapKeys` | `map_param_switch`, `map_param_context`, current context, auxiliary contexts of sparse bootstrapping | generate, select, deregister, load, fail to load | no switching key outlives the context it was built on; auxiliary contexts live as long as they are used; equal parameters share one context |
| CKKS ciphertext operations | `CKKS/Ciphertext.cpp` | level, noise level, scale factor, slots, key tag | add, multiply, rescale, rotate, drop level... | operands are brought to one level and one scale before they are combined; levels do not run out |
| Limb partition metadata | `Context.cu` 198-470, `Parameters.cu` | digits, special limbs, gather order | generation at start-up | partitions of the limbs over digits and GPUs |
| RNS polynomials | `RNSPoly.cpp`, `LimbPartition.cu`, `LimbPartitionBatch.cu` | limbs, auxiliary, special and digit buffers; a stream per partition, shared streams and scratch polynomials of the context | element-wise functions, NTT, mod-up, mod-down, key switch, rescale, free | two kernels that access a limb are ordered by stream waits, whatever operations follow one another |
| Multi-GPU key switching | `LimbPartitionMGPU.cu`, `PeerUtils.cu`, `parallel_for.cpp` | a host thread per GPU, copy streams per pair of GPUs | exchange of digits and special limbs over NCCL, peer copies or peer access; broadcast of a limb | the same, across GPUs |
| Linear transforms, rotations, accumulation | `LinearTransform.cu`, `AccumulateBroadcast.cu`, `CoeffsToSlots.cu`, `RawCiphertext.cu` 644-875 | rotated copies, the rotation keys a step asks for | transform, convolution, accumulate, broadcast, the transforms of a bootstrap | every slot gets the terms it is documented to; rotation indexes asked for are those listed |
| Series and polynomials | `ApproxModEval.cu`, `Ciphertext.cpp` 1520-1830 | powers or Chebyshev polynomials of the argument, recorded sums | evaluate | the value is that of the series, within the levels planned |
| Bootstrap pipeline | `Bootstrap.cu`, `ApproxModEval.cu`, `CoeffsToSlots.cu`, `PolyApprox.cu` | level, degree, factor and value of what is bootstrapped | modulus raise, transforms, series, iterations | each step meets plaintexts of its level; the factors of the steps cancel, so that what comes out is the reduced message; depth as planned |
| Device constants | `ConstantsGPU.cu`, `Math.cu` | tables of primes, roots and factors between bases, one set on the devices at a time | computed for a context, uploaded when it becomes current | those of the context whose kernels run; entries belong to the primes they stand at |
| Kernels (NTT, modular arithmetic, element-wise) | `NTT*.cu`, `INTT*.cu`, `ModMult.cuh`, `AddSub.cuh`, `Conv.cu`, `ElemenwiseBatchKernels.cu` | limbs | multiply, lift to other primes, bring down, rescale | limbs stay below their primes; conversions are exact up to the multiple that is allowed; a product decrypts to the product |
| Facade, serialization, OpenFHE conversion, instrumentation | `src/api`, `openfhe-interface` | conversions | | |

**How they interact.** An operation of the API takes raw pointers to device
objects: it makes its operands resident (ciphertext and plaintext caches),
registers a result, then calls the CKKS layer. That layer asks the rotation-key
cache for keys and, in a bootstrap, the bootstrap cache for stage groups, and
enqueues kernels on the streams of the limbs, using scratch polynomials and streams
that all operations of the context share. On several GPUs a thread per GPU does
so, and they exchange limbs. Nothing waits for the kernels. An
eviction in any cache frees buffers through the pool, which hands a buffer to the
next owner at once; only CUDA events order the old owner's kernels before the new
owner's. Each cache protects what is in use in its own way: a drain of the device
before the free (rotation keys, bootstrap groups), a hold that defers eviction
(plaintexts, hoisted rotations), a set of protected handles (ciphertexts).

**What is hard.** (1) A pointer taken before a call that may evict, used after
it. (2) Kernels still running when memory is freed or recycled. (3) Bookkeeping
kept three times (map, recency list, byte count) along paths that throw.
(4) Eviction loops that must end although everything left is pinned, or cannot
be offloaded. (5) Objects shared behind a copy: host payloads, contexts with
equal parameters. (6) Some hundred functions, each of which must wait for the
streams of its operands and be waited for, and their scratch space. (7) Index
arithmetic of rotations, which has to agree with lists of keys made elsewhere and
with plaintexts encoded by another library. (8) Reductions that end with one
subtraction, and tables indexed by prime that one context computes and whichever is
current uploads. There are no crashes to recover from and no messages to lose:
one host process, one host thread per context (and one per GPU inside an
operation). `PROJECT.json` lists the hazards
line by line.

## The modules

| module | what it is |
|---|---|
| `VramCache` | abstract: a set of resident objects, the ones a call is about to use, the ones kernels read. Eviction takes only objects that can come back and that nobody uses. It promises `InUseResident`. |
| `RecencyList` | the `std::list` plus iterator map every cache keeps: move to front, unlink. |
| `RotationKeyCache` | the rotation keys; implements `VramCache`. |
| `BootstrapCache` | the stage groups of bootstraps; implements `VramCache`. |
| `GpuMemoryPool` | `GPUmalloc`, `GPUfree`, `GPUtrim`, `Stream::wait/record`, and the ordering of asynchronous work. |
| `CiphertextCache` | API ciphertext handles, their host payloads and device copies, and the calls operations make. |
| `PlaintextCache` | API plaintexts and their device copies. |
| `CiphertextLevels` | levels, noise degrees and scaling factors of ciphertexts and plaintexts under the operations of `CKKS/Ciphertext.cpp`. |
| `FactorRounding` | the factors of `CiphertextLevels` in floating point, which rounds, and the assertions that compare them with `==`. |
| `SeriesEvaluation` | Chebyshev series and polynomials of a ciphertext, with the values they encrypt; extends `CiphertextLevels`. |
| `BootstrapPipeline` | a bootstrap: modulus raise, transforms, modular reduction, in both flavours, one iteration or two, prescaled or not; extends `SeriesEvaluation`. |
| `StreamOrder` | launches of kernels, waits between streams, and which accesses of a buffer they leave unordered. |
| `LimbStreams` | what each function of `LimbPartition` enqueues, on one GPU. |
| `CiphertextStreams` | the operations of `Ciphertext`, transforms, modulus raise and moves between host and device, as sequences of these functions. |
| `PeerExchange` | the operations on several GPUs: a thread per GPU, barriers, three transports. On one GPU it is `CiphertextStreams`. |
| `LimbDiscipline` | the functions of `LimbStreams` called in any order on any partitions: the module of the theorem. |
| `AccumulateBroadcast` | what `Accumulate` and `Broadcast` put into the slots, with which keys. |
| `LinearTransforms` | the same of linear transforms, convolutions and the transforms of bootstrapping; extends it. |
| `ContextRegistry` | the registry of contexts, API handles, auxiliary contexts, the store of switching keys, and whose constants the devices hold. |
| `Powers` | powers of two, in the form the provers can use. |
| `Residues` | modular arithmetic in words of the GPU: Barrett, Shoup, sums, differences, change of modulus. |
| `DeviceConstants` | the tables of a set of parameters, computed as `SetupConstants` does. |
| `NegacyclicTransform` | the two kernels of the number-theoretic transform and of its inverse. |
| `RnsReference` | what these compute, by definition, and encryption under a secret. Nothing in it is code. |
| `RnsKernels` | a product of two ciphertexts, relinearised and rescaled, kernel by kernel, between the steps of `ContextRegistry`. |
| `*Proofs` | theorems about the module each is named after; `OperationProofs` about `CiphertextLevels`, `LimbDiscipline` and `LinearTransforms`; `KernelProofs` about `RnsKernels` and all that it extends. |
| `ListLemmas` | lemmas about lists, sums over sets, and induction, for these. |
| `MC*` | instances for TLC. Two of them put parts side by side that share no state. |

A name in a module is the code's name wherever it could be kept. Differences
worth knowing:

* **`RotationKeyCache`.** A host call whose eviction loop may not end is not one
  step: `LoopStep` is one iteration of the loop, with `pending` saying which
  call is waiting for it and what it does afterwards. Everything else a call
  does is in the action of the call. `fetched` are the keys a hoisted rotation
  has pointers to, `inFlight` those that enqueued kernels read. A drain
  (`cudaDeviceSynchronize` in `KeySwitchingKey::offload`) empties the latter.
  `readds` counts registrations of an index already registered, which
  account their bytes again.
* **`BootstrapCache`.** `Bootstrap` begins one; for each stage its group is acquired
  (`AcquireResident` or `AcquireOffloaded`, which are `AcquireBootBlock`) and the stage
  run (`RunStage`, or `StageThrows`); `KernelDone` is the device's. Eviction is a
  function of the recency list (`Victims`, `Evict`), because its loop always ends.
* **`GpuMemoryPool`.** One host call is one step, the device executes pending
  operations later in any order that the queues and events allow. An event is
  the set of pending operations it covers, so "A is ordered before B" is
  `A \in deps[B]`. `former` is history: operations issued for an owner whose
  chunk has been freed.
* **`CiphertextCache`.** An operation is a script of load, copy and fetch calls,
  executed one call at a time, as in `EvalAdd`, `EvalMult`, the in-place forms
  and the hoisted rotation. A value is what the ciphertext encrypts; the model
  tells host payload, device copy and intended value apart.
* **`CiphertextLevels`.** An operand is its level, `NoiseLevel` and
  `NoiseFactor`, with two histories: `scale`, the factor its data really carry,
  and `ok`, which a failing assertion turns off. Factors are only multiplied and
  divided, so they are logarithms here, added and subtracted, exactly. The code has
  doubles, which round, and asserts with `==` (`Ciphertext.cpp` 762, 2306, 2422;
  `Plaintext.cu` 151). That a factor is the one of the table but for rounding is
  `ScaleHonest`; that it is so to the last bit is not claimed here: `FactorRounding`
  has the rounding, and there it fails. Every branch of the two
  `adjustScaleAndLevel` is an operator (`LowerDeepToShallow`: the operand has
  degree 2, the target 1). A public call is one action: it aligns, combines and
  leaves, if mutable, its second operand adjusted. The copy-and-call-again of
  the code is the one alignment it amounts to. `last` records the call, for the
  properties that compare operands with results. An in-place call is the
  same action with the operand's handle `r` for the result.
* **`FactorRounding`.** A significand of `Precision` bits, rounded to nearest, ties to
  even; the tables are computed down the chain of primes, as OpenFHE does, and each
  branch of the alignment in the order of the code's expressions. It has the two calls
  that leave the factor of another level too, `SetLevel` and `DepleteForStCFirst`.
* **`SeriesEvaluation`.** An operand of `CiphertextLevels` gets `slots`, its values
  at a few arguments, in the field of a prime instead of the doubles: division by
  two and by `b - a` stay exact, and a wrong coefficient shows. `Record` and
  `Remaining` are the two modes in which the code runs the same recursion; the
  batched weighted sums (`WSumWithBias`) come in between. A weighted sum of
  constants that do not meet at one scale has no value any more. `BigPowers`,
  `Split` and `Batched` serve `innerEvalChebyshevPS` and `innerEvalPolyPSFused`
  alike; what differs is the basis. `LongDivision` and `ComputeDegreesPS` are OpenFHE's.
* **`BootstrapPipeline`.** One `EvalBootstrap` is one step, since nothing else on the
  host runs in between. It is a fold of `Step` over the calls that a pipeline makes
  (`SingleSteps`: one list per flavour; `Steps`: twice that list, with the two halves of
  `BootstrapIterativeImpl` after it, when there are two iterations). The ring has degree 4 over the same field, and a
  message is its values at the primitive 8th roots of unity: two slots and their
  conjugates. So rotation, conjugation, `MultMonomial` and both transforms are
  those of the ring and not symbols. `Grown` adds the multiple of q_0 that a raise picks
  up. `EncodeLevel`, `DecodeLevel`, `CoeffsToSlots`, `SlotsToCoeffs` stand for the
  plaintexts that OpenFHE encoded; only the first stage of a transform changes the
  value, each stage checks its level. `BootstrapExact` compares the result with a
  reference that knows coefficients only (`ReducedCoefficients`), and the level with the
  one planned. Whether the sine approximates the reduction, and the constants do the
  same, is OpenFHE's part: any series and any constants are reduced as the reference does.
* **`StreamOrder` and what is built on it.** A partition is `<<name, i, gpu>>`
  and names its stream as well: all limbs of a partition use it. A buffer is a
  part of a partition. A function is the sequence of its launches; a launch waits
  for streams, reads and writes buffers, and is waited for. For each access that
  may still matter, `later` has the streams whose next kernel comes after it.
  `raced` collects the buffers on which an access was not ordered after a
  conflicting one. Values, primes and limb counts are left out.
* **`CiphertextStreams`.** One operation is one step on one GPU: a single host
  thread enqueues it whole. What may interleave are its kernels, and that is
  what `later` is about.
* **`PeerExchange`.** A thread's program is a sequence of phases of launches.
  `P \o Q` has a barrier (the end of a parallel region) in between, `P ++ Q` has
  none. NCCL is a send before and a receive after a rendezvous. Between
  barriers threads enqueue in any order. `Enqueue` explores those that leave most
  unordered: a thread that is about to wait for another GPU goes before one that
  enqueues more, since the earlier a wait is enqueued the less it covers.
* **`AccumulateBroadcast`, `LinearTransforms`.** A ciphertext is, for each slot, a
  bag of terms (which plaintexts, which slot of the input); `weight` counts how
  often a sum takes an input, `used` are the indexes asked for, `clean` whether the limbs
  can be read. A plaintext that `PlaintextRotation` says is encoded rotated is so
  here (`lift`).
* **`ContextRegistry`.** `State` is a record so that constructors, destructors
  and moves compose; `Settled` runs the destructors of contexts nobody refers to
  any more. `constants` names the parameters whose tables the devices hold.
* **`RnsKernels`.** A kernel is an action, enabled once those its stream waits for
  have run; `mem` is device memory, one limb per prime and buffer. The tables a
  kernel reads are those of `constants`, the key is its own context's. The two
  kernels of a transform are one step. In `NegacyclicTransform` a kernel is what its
  blocks do to the columns of a limb; the factors by which columns are scaled, which the
  kernels put together from two table entries, are powers of the root read
  from the full table. Words are `W` wide, and every operation keeps its low word.
  `RnsReference` makes operands and keys by formula, with small errors in the
  keys and none elsewhere, so that what a product may be off by is known:
  `KeySwitchNoise`, then half a unit for the rescale.
* **`PlaintextCache`.** An operation loads and fetches plaintexts one by one
  under a hold.

An operator whose comment says *faulty* is not part of a specification. It is a
mistake somebody could make in the definition below it, and it is there to show
that the named property notices.

## Runs

| run | instance | what it shows |
|---|---|---|
| `rotkey` | 3 keys of one key set, a second key set without rotation keys, budgets of 1, 2 and all keys | the rotation-key cache keeps its books, never evicts a pinned key or one in use, gives back an overshoot, implements `VramCache`, and its calls return if every listed key can be offloaded |
| `rotkey_livelock` | same | **does not hold:** that calls return without that condition |
| `boot_and_ciphertext_caches` | two slot counts, a transform of three groups of unequal size and one of two, budgets none, two groups and all; two ciphertext handles, two values, budgets of one ciphertext and unlimited | groups are resident while used, the budget is overshot by one group at most, a bootstrap reuses what stayed, implements `VramCache`; of ciphertexts, device pointers stay good through an operation, every handle but a lazy copy keeps its value, sizes are given back exactly, evictions spare pinned ciphertexts and bring the total within the budget when they can |
| `levels` | two ciphertexts, one plaintext, six levels, a context of each technique (FIXEDMANUAL, FIXEDAUTO, FLEXIBLEAUTO with factors that differ from level to level); series and polynomials of 17 coefficient tables up to degree 27, four intervals, four arguments in a field of 97; bootstraps over eleven levels with 32 set-ups (full and sparse packing, both flavours, with and without sparse encapsulation, one stage or two, one double angle or two), one iteration and two, prescaled; the ciphertext handles are interchangeable (symmetry) | operands are aligned exactly and at no cost in depth, recorded factors are those of the data, no call finds operands that it cannot align; a series or polynomial has its value at each argument and costs no level more than was planned for it; a bootstrap, from every level and degree that it accepts, returns the reduced message at the level planned |
| `factor_rounding` | four levels, significands of 12 bits, primes of 9 and 10 bits | **does not hold:** that a factor is the one of the table to the last bit |
| `ciphertext_streams` | two ciphertexts, one plaintext, two digits, two operations between drains; one GPU, or two over NCCL | no two conflicting accesses of a limb are unordered, and between operations every polynomial's stream comes after all that is still done to it |
| `convolution_release` | one ciphertext, two plaintexts, one digit | **does not hold:** that a convolution frees its rotated copies after the product that reads them |
| `peer_copies` | one ciphertext, one plaintext, two GPUs, peer copies or peer access | **does not hold:** that accesses are ordered with these transports |
| `transforms_plaintexts_pool` | 16 slots; every `bStep` up to 9, stride, size and start of `Accumulate`, the same of `Broadcast` with every power of two for `initsize`; transforms of up to 7 diagonals in steps of 1 to 4; convolutions of up to 48 rows; all ways to collapse the FFT of 2 to 16 slots; three plaintexts of two sizes, budgets 0, 2 and unlimited, operations of up to three; a slab of two chunks, three streams of which one shares the pool's queue, two operations in flight | every slot gets its terms, only listed keys are asked for (but see the next two), calls end; of plaintexts, the registry, entries, list, bytes and marks agree, an operation's device pointers stay good, the budget is overshot by one plaintext at most, pins last; of the pool, owners of a chunk are ordered, no operation touches a slab given back, chunks are neither lost nor doubled |
| `broadcast` | the calls of `Accumulate` and `Broadcast` alone | **does not hold:** that `Broadcast` leaves the copies its documentation says |
| `convolution_keys` | convolutions of two rows | **does not hold:** that the list of a convolution's keys has those it asks for |
| `contexts` | two API contexts, two main and two auxiliary parameters, six contexts, two slot counts; between their steps a product of two ciphertexts, each of two seeds, at three levels, with 32 coefficients, three primes in two digits, two special primes, words of 13 bits | switching keys do not outlive their context, auxiliary contexts in the registry are those in use; every limb is below its prime, digits are lifted exactly, a product decrypts to the product, with the constants of its own context |

Two runs have parts which share no variable. One moves while the others are as they
started (the plaintexts and the pool, while the transforms are where one fixed call has
ended), so the states are those of each part, added up, and every behaviour of a part alone
is one of the run. They say nothing of the parts together: in the code a cache meets the others only in the
pool, whose calls it makes, and the model of the pool has any caller and any order
of calls already.

The runs of the streams allow two operations between drains (`MaxPending`). That is
enough because `PartsCovered` holds after every one of them: what an
operation finds is then what the first one finds, up to readers that do not
matter. For the functions the operations are made of, the theorem of
`OperationProofs` covers any number of calls. Two digits are the fewest with which
a digit is not all of a polynomial, and with which joining the first is not
joining all. Two GPUs are a sender and a receiver. By hand, with three operations and
one ciphertext, the result is the same; so is it with one launch at a time in every order
(one digit, one ciphertext, NCCL: 1.25 million states), which is what the
order reduction of `Enqueue` was compared with.

The contexts alone were checked by hand with three API contexts, two auxiliary
parameters, seven contexts and one slot count (468,978 states).

Products start while both API contexts are loaded and registered and none is for
bootstrapping (`Quiet`): what matters for them is which context was current last. Both
have the same primes in another order, so that a table of the other one
looks right. The digits have two primes and one, so levels 2, 1 and 0 have them whole, one
cut short, and one left out. The columns of a transform are 8 and 4 long, which
differ, as they do for odd `logN`. Primes of 8 to 10 bits in words of 13 leave
the margins of reductions as tight as those of 60 bits in 64 (`2p <= W`); the
seed 0 has every residue at its largest. What holds of a reduction for all sizes of
words is proved (below). `SlotsRight` is about `Accumulate`: `Broadcast` has a property of
its own, which does not hold. `KeysListed` leaves out the two calls whose lists are
known to be short, a `Broadcast` with `initsize` above 1 and a convolution of a single
block. The shapes of convolutions are those whose rows fold (`RowsFold`, below).
Significands three bits longer than the primes are to them what those of doubles
are to primes of 50 bits.

**Why these bounds are enough.** Three rotation keys are one to load, one to
evict and one in between that is pinned, fetched or cannot be offloaded; a
budget of two keys lets a hoisted rotation of three overshoot and the next
load give several back. Keys of different key sets meet only in the budget, so a
key set with no rotation key stands for the others; the theorems hold for any
number of both. Five groups of two sizes make the resident set of a bootstrap
drift, which equal sizes do not. In the pool, two chunks of a slab are what it
takes to be half free; three streams and the pool's own give every case of
sharing a queue or not. Two operations in flight are one of an old owner and one
of the new; the pool alone with three (4.17 million states) was checked by
hand with the same result. The ciphertext cache was checked by hand with three
handles and one value as well (9.0 million states).

For the levels, six have neighbours, pairs two apart, where the detour over a
third level begins, and pairs further apart. One call takes two operands, and
every pair of operands that can be encoded is an initial state, so depth is no
issue: each call leads back to operands of that kind (this is the inductive
invariant of the proof). A series is evaluated from each initial state in which
all handles are alike (`Alone`). The degrees cover the linear evaluation, splittings with two
and three giant steps, `c` of degree 0, 1 and more, and recursion into `q` and
`s`; with sparse tables, sums from which terms are missing. Degree 27 needs
five levels. Four arguments in a field of 97 tell two different polynomials of
the tables apart but for an accident of one in 88 million. By hand with seven
levels and two ciphertexts the result of these runs is the same (132,801 states).

A bootstrap of these set-ups spends about eight levels: a chain of eleven lets it
end above the lowest inputs and below the highest, so that both outcomes of an iterated
bootstrap (worth it or not) occur, and inputs come from all levels. Pairs of
operands stay within the first six levels (`OrdinaryLevel`): the properties about them do
not depend on more, and all pairs of eleven levels would be too many. A ring of degree 4
is the smallest in which a slot is neither its conjugate nor its rotation, and a
sparse message is neither the full one nor empty. One message and one multiple of
q_0, with no two coefficients alike, are enough where everything but the series is linear;
the constants of the steps are different residues, so that one for another is seen.
The run is without deadlock checking: where the bounded callers have no call left
(a bootstrapped operand above `OrdinaryLevel`), the instance stops.

Named bounds: `MaxPending` (operations between drains), `GPU`, `Transports`,
`OrdinaryLevel`, `LogSlots`, `MaxBStep`, `InitSizes`, `RowSizes`, `BSteps`, `Strides`, `Offsets`,
`GSteps`, `TapLists`, `SlotCounts` (shapes of sums and transforms), `Points`,
`Coefficients`, `Intervals`, `Alone`, `Quiet`, `Seeds`, `WordBits`, `logN`, `Data`, `RoomToLoad`
(contexts that can exist at a time), `MaxReAdds` (double registrations), `MaxArgs` (plaintexts of an
operation), `Op` (operations in flight), `Budgets`, `SizeMax` and
`Unlimited` (`SIZE_MAX`: no budget), `Precision` (of `FactorRounding`).

**Fairness.** Two specifications have any. `RotationKeyCache` has weak fairness of
`LoopStep`, the host thread running the loop it is in. `RotationsSpec` (and with it
`TogetherSpec` of `MCTransformsPlaintextsPool`) has it of
its next-state relation: a call of a sum or a transform, once begun, is run to its end by
the thread that made it. Nothing is assumed of callers or of the
device, so nothing else is claimed to happen eventually. Most
configurations say `CHECK_DEADLOCK FALSE`: a program that uses the library may stop calling it at
any moment.

## Disagreements the runs exhibit

* *Livelock* (`rotkey_livelock`). `LRUOffload` loops while the budget is
  exceeded and counts an iteration as progress whatever `offloadKey` did; a
  listed key without a host copy is chosen again and again.
* *Release in a convolution* (`convolution_release`). `ConvolutionTransform`
  makes the streams of its results wait for the product, not those of the rotated
  copies the product reads, and then frees these. `LinearTransform` waits for both.
* *Peer copies and peer access* (`peer_copies`). `moddownMGPU` copies or reads the
  special limbs of `auxLimbs` on other GPUs and at the end makes only `s` wait for
  that, not `auxLimbs.s`; before the copies the copy streams wait for `s`, not
  for `auxLimbs.s`. The next mod-down with the same scratch
  polynomial overwrites what is still copied or read. The run finds it in
  `AccumulateSum` alone, where the comment at `LimbPartitionMGPU.cu` 47-56
  measured a race and left its cause open; that NCCL is clean, as it also says, is what
  `ciphertext_streams` shows. By hand: if the copy streams wait for the stream
  of the mod-down instead of `s`, and `auxLimbs.s` waits for `s` at the end,
  `NoRace` holds with both transports. `PartsCovered` also needs a key
  switch whose `s` waits for its copy streams (`join_at_end` is
  filled for CUDA graphs only, 822 and 1740) or for the other GPUs.

* *Broadcast* (`broadcast`; `AccumulateBroadcast.cu` 113-152). No call with a round
  leaves what can be read: it brings `c1` back by `moddown(false)`, without an INTT of
  the special limbs (151), where `Accumulate` has `moddown()`. With `initsize` above 1 the
  slots are wrong as well: the last round goes back by `i * stride * s - 1` (127), one slot short of
  `i` full blocks, where it would have to stop `initsize` short; and
  `GetbroadcastRotationIndices` (48) counts its rounds in slots where the call counts in
  strides, so its keys are not those asked for. Nothing in the repository tests it; `PolyApprox.cu` 499, 596,
  609 (`examples/bert-tiny`) calls it, with `initsize` 1. By hand: without `clean`,
  `BroadcastRight` holds for `initsize` 1, fails for 2, 4 and 8, and holds for all 16 slots, where there is
  no round.
* *Keys of a convolution* (`convolution_keys`). `GetConvolutionTransformRotationIndices`
  says "k in [1, INTERNAL_GSTEP]" (`LinearTransform.cu` 660) and stops one short (664). With two
  blocks or more the missing one is the first rotation between blocks and is listed
  as such. A single block asks for `stride * gStep`, which nobody lists; the test asserts the short
  list and generates keys by a list of its own (`OpenFheCompatTests.cu` 3771-3775).
* *Factors to the last bit* (`factor_rounding`). `rescaleInternal` asserts
  `NoiseFactor == ` the table's (`Ciphertext.cpp` 762). Aligning a degree-1 operand divides and
  multiplies by other factors than those the table was made with, and rounds
  otherwise: in doubles, with the code's expressions, in 83 of 325 pairs of levels for
  N = 2^16, a scale of 2^50 and 26 levels, and in 16 of 78 for 2^36 and 12. The factor of
  a plaintext, asserted with `==` too (`Plaintext.cu` 151), differs in 2 of 12. Such a
  build with assertions stops; without, the factor is stamped right after. `SetLevel`
  and `DepleteForStCFirst` fail the assertion without any rounding (below).

The source lines are quoted in `PROJECT.json`.

Met without a run of their own. *Caches:*

* A pin stops automatic eviction only: `OffloadRotationKeys` takes pinned keys
  (`Context.cu` 838).
* Registering a rotation index again keeps the old key but accounts its bytes again
  (1080), so the cache evicts too early until it is cleared.
* With groups of unequal size the set of stage groups that stays resident drifts
  from one bootstrap to the next, where a comment (920) says a fixed subset stays.
* `Clone` (like the copy constructor, `Ciphertext.cpp` 29 of the API) shares the
  CPU payload and marks only the copy for a lazy copy; `SetLevel` of the
  original then changes the copy as well.
* `clearAutomorphismKeys` (1421), which nothing in the repository calls, frees keys
  without a drain; in the place of `OffloadKey` it races.
* `CopyDeviceCiphertext` drains the streams of its operand, since a copy "does not
  observe per-limb streams" (`CryptoContext.cpp` 2633-2637). All limbs of a
  partition use its stream now; the model finds no race without that drain.
* `Decrypt` into a plaintext that is loaded always throws, because the
  test of `devices` there is inverted (1117). The model has that guard.

*Streams:*

* `LTdotProductPtBatch` waits for the stream of the first plaintext only, and only
  that one waits for it (`LimbPartitionBatch.cu` 424). The plaintexts of
  bootstrapping are loaded and freed with the device drained; the other ones of a
  convolution are not.
* `multPt` with a fused rescale waits for no stream of the plaintext
  (`LimbPartition.cu` 798).
* The few-slot branch of `rescaleMGPU` (`LimbPartitionMGPU.cu` 184-188) reads the
  buffer of the top limb on `s`, and `top_limb_stream` never waits for that: two
  such rescales in a row on several GPUs race over NCCL too.
* `openmp_synchronize` inside an `omp for` (`RNSPoly::rescale` calls `rescaleMGPU`)
  is not conforming OpenMP. In `doubleRescaleMGPU` with peer copies the threads touch
  the `Stream` objects of other GPUs.
* `docs/multigpu-plan.md`, to which `Context.cu` refers, does not exist.

*Contexts:*

* `GenCryptoContextGPU` always constructs a `ContextData` and deletes it when one
  with these parameters is registered (1483-1486). Its destructor erases from
  `map_param_switch` every key whose pair has the same parameters (1295-1322),
  although they belong to the registered one: `ModRaise` of an API context that
  bootstraps no longer finds its keys once a second one with equal
  parameters has been loaded.
* Destroying one of two API contexts with equal parameters deregisters the
  `ContextData` they share.
* A `LoadContext` that throws leaves its `ContextData` registered (`CryptoContext.cpp`
  138), and a `KeySwitchingKey` built in it may refer to a context that a second
  load replaces (557-563).

*Rotations:*

* The documentation of `Accumulate` (`AccumulateBroadcast.cuh` 14, 40) says
  `in_{i%size + j*size}`; what slot `i` gets is the sum of `in_{i + j*stride}`. The callers
  (`AccumulateSum`, the fold of sparse slots in a bootstrap) count on the latter, so that is what
  `SlotsRight` says. The two agree for `stride = size` only.
* For a start that is not a round of the plain fold there is no list; the caller goes
  through the rounds himself, as documented (`StartIndices`), and
  `AccumulateSumInPlaceStart` does.
* A convolution of more than one row, with an even count that is no power of two,
  loses rows in the halving loop (`LinearTransform.cu` 382-392, 421-429). With more
  than eight rows and no multiple of eight, earlier blocks are rotated as if
  the last one were full (406). `RowsFold` excludes both from `TransformsRight`.
* `LinearTransform` compares `bStep * stride` with N/2, not with the slots of the
  ciphertext. `LinearTransformSpecial` uses entries of `auxVector` of an earlier
  round if the row size is no multiple of `bStep`. `ConvolutionTransform` rotates
  results that still carry special limbs if all plaintexts do, which asserts.

*Levels:* under FIXEDMANUAL `add` and `addMutable` assert that there is no tower to
drop right before they drop the towers (`CKKS/Ciphertext.cpp` 276); in a debug build,
adding a lower ciphertext onto a higher one aborts, as `addMutable` does (316). `sub` does
not assert. An assertion that the next statement contradicts is no statement about
the operands, so the model has the drop without it; `CallsComplete` is about all the
others, with no assumption on the caller. Also:

* `BITCOMPAT.md` (O3, lines 294-299) decides that the API's `Rescale` is an
  explicit rescale whatever the technique. `RescaleInPlace` is one, `Rescale`
  goes through `Ciphertext::rescale`, which returns at once unless the technique
  is FIXEDMANUAL. The model has both as they are.
* `EvalMultMutableInPlace` of a degree-2 ciphertext with itself rescales it
  twice (`Ciphertext.cpp` 887-889), down to degree 0. The model's action
  excludes that call.
* `multScalar(c, true)` never rescales: it asks only under FIXEDMANUAL (955),
  and `multScalarNoPrecheck` obeys only under FIXEDAUTO (936), where its comment
  (`Ciphertext.cuh` 354-355) says FIXEDMANUAL.
* `throwAdjustFailure` explains itself with plaintexts that are too low or of
  too high a degree. Under the AUTO techniques those are adjusted, and no call
  gets there (`CallsComplete`, proved as `EveryCallCompletes`).
* `SetLevel` keeps the factor. Under FLEXIBLEAUTO the ciphertext is then off the
  table its level calls for, and the next alignment asserts: the comment at
  `OpenFheCompatTests.cu` 4097-4098 says so and leaves these techniques out, while
  `examples/resnet` uses it (`controller.cpp` 36, 1189). `CiphertextLevels` has the call for the
  FIXED techniques only, `FactorRounding` under FLEXIBLEAUTO.

*Series* (`ApproxModEval.cu`):

* `innerEvalPolyPS` (837) adds sums that have been rescaled onto powers that sit
  higher. Under FIXEDMANUAL that is the addition which asserts (above). Its value is
  right.
* `evalPowers` asks for `NoiseLevel` 1 in its documentation (`ApproxModEval.cuh` 47-48)
  and, unlike `evalChebyshevSeries` (449), does not see to it: from
  degree 2 the fused sums assert. It is a guard of `EvalPolynomial`. Nothing in the
  repository calls `evalPowers` and `evalPolyWithPrecomp`.
* With a degree below 5 the interval [0, 2] costs a multiplication by 1 (313 asks
  for -1 and 1); from degree 5 it does not (430). `Cost` counts it.
* `i & 1 == 0` in `evalPowersPS` (690) is `i & (1 == 0)`: the square is never
  taken, the product in its place is the same.
* `evalChebyshevSeriesLinear` with a single coefficient takes `k = 0u - 1` (356). The
  coefficients of the model have a last one that is not zero, and a degree of
  at least 1.

*Bootstraps* (`Bootstrap.cu`):

* Where decoding comes first, `DepleteForStCFirst` rescales (508) under FLEXIBLEAUTO
  while `NoiseFactor` is that of the input's level times a correction; it is set to
  the right factor only afterwards (510). For an input one level above the target both
  agree; from two levels above, the assertion of `rescaleInternal` fails
  (`Ciphertext.cpp` 762) in a build that has assertions. The test of the
  depletion (`OpenFheCompatTests.cu` 469) goes one level above. The data are right
  either way. `BootstrapPipeline` has inputs of every level; the assertion is in
  `FactorRounding`.
* `prescaled` with two iterations: the flag is handed to the bootstrap of the error as
  well (446), which is not prescaled, and the error is a difference of a
  bootstrapped value and a prescaled one (443). Not modelled; nothing in the repository
  combines them.
* `prescaled` where decoding comes first: after the decoding the operand has a level
  too many for the assertion of `ModRaise` (756), whatever the caller passes. Not modelled.

## Proofs

What is proved with TLAPS holds for every number of keys, groups, plaintexts,
ciphertexts, slabs, streams and key sets, for every budget, and for rings, primes, digits and
words of any size. It rests on the named assumptions of the modules and nothing else:

* `CacheAssumption`, `BootstrapAssumption`, `PlaintextAssumption`,
  `CiphertextAssumption`: sizes are naturals, what is cached is finitely many
  objects, groups of different slot counts are different objects, no group is empty,
  and the bytes of all groups together fit a `size_t`.
* `PoolAssumption`: every stream has a queue, slabs share no chunk, and the chunks of
  a slab are distinct and at least one.
* `ParametersAssumption`: the parameters of API contexts and of auxiliary ones differ, and
  finitely many slot counts exist.
* `ContextAssumption`: below.
* `WordAssumption`, `WordBitsAssumption`: a word has `2^WordBits` values, a ring
  `2^logN` coefficients.
* `PrimesAssumption`, of the primes of every set of parameters: each is larger than the
  number of coefficients, as a prime that is 1 modulo twice that number is; the search of
  `generator` ends; there are at most as many digits as primes. A prime is less than a
  quarter of a word: `Neal_reduce_64` shifts by `62 - bits`. A sum of as many products of
  two primes as there are primes fits two words, which is where `DecompAndModUpConv`,
  `ModDown2` and `fusedDotKSK_2_` add them up (for primes of 60 bits, 256 of them).
* `SlotsAssumption`, `TransformAssumption`: slots, strides and sizes of sums are powers of two, as
  `AccumulateBroadcast.cuh` asks, and so is any `initsize`; rows, steps and counts of
  transforms are at least one.

| module | theorems |
|---|---|
| `RotationKeyCacheProofs` | `TypeOK` (so the unsigned `resident_bytes` never wraps), `AccountingExact`, `LRUExact`, `InUseResident`, `EvictionSparesPinned`, `ShrinksToBudget`, `ImplementsVramCache` |
| `BootstrapCacheProofs` | `TypeOK` (so the assertion in `AcquireBootBlock` holds; no run checks it), `InUseResident`, `BudgetSoftByOne`, `ReusesStages`, `ImplementsVramCache` |
| `GpuMemoryPoolProofs` | `ChunksAccounted`, `NoDangling`, `TenantsOrdered` |
| `PlaintextCacheProofs` | `RegistryExact`, `HeldAlive`, `EvictionExact` |
| `CiphertextCacheProofs` | `AccountingExact`, `HeldResident`, `OriginalsKept`, `EvictionExact` |
| `OperationProofs` | of levels: `AdjustSound` (whenever `CanAdjust`, both `adjustScaleAndLevel` give exactly what encoding at the target's level and degree would), and from it `TypeOK`, `CallsComplete`, `ScaleHonest`, `OperandsMeet`, `DepthExact`, for a chain of any length and any tables that satisfy `ContextAssumption`. Of streams: `FunctionsNeverRace` and `FunctionsReturnCovered`. Any sequence of calls of the functions in `Functions`, on any partitions, orders every two conflicting accesses, and leaves the stream of each partition after all accesses of its limbs. Of rotations: `SlotsAlwaysRight` (every `Accumulate`) and `KeysAlwaysListed` (every call but a `Broadcast` with `initsize` above 1 and a convolution of one block), for any number of slots, any shape of a sum, transform or convolution, and every way to collapse the FFT |
| `KernelProofs` | of words: sums, differences, products with a constant (`ShoupExact`), products (`BarrettExact`, `ProductExact`), reductions of two words (`ReductionExact`) and changes of modulus (`SwitchExact`) equal the residues they stand for, for any word size, any prime of which two fit in a word, and operands in the ranges the kernels have them in: for Barrett's method below `16 * S * S`, which is the cap that a comment names (`ModMult.cuh` 278), for Shoup's any word. Of contexts: `KeysAlwaysOutlived` and `AuxiliariesAlwaysExact`, for any number of API contexts, parameters and slot counts. Of kernels: `LimbsAlwaysCanonical`, every limb of a product is below its prime, from its operands to its result, in every order that the streams allow |
| `ListLemmas` | lemmas only: what unlinking, moving to the front, appending and popping do to the elements of a list, to its order and to its being free of duplicates; sums of bytes over sets; and induction |

**One shape.** `TypeOK` and the others are not inductive one by
one: that a byte count does not underflow needs the count to be exact, which
needs the list to hold only resident keys, which needs the list free of
duplicates. `IInv` is in each module the conjunction of these, with what a call under way has
already established (the key it is loading is not yet resident; a hold is active while
keys are fetched). One lemma per group of actions shows that `IInv` is kept. For
the rotation keys the lemmas work on one key set at a time (`PerKeySet`), and
counting is isolated in `CountAddKey` and `CountRemoveKey`.

**Induction.** The loops of the code (over a recency list, a free list, the operands of
a call) are folds in the models, so what they leave is proved by induction over how far
they got. `LeastElement` (a set of naturals that is not empty has a
least element) comes from the well-foundedness of `<`; `Induction` is its
contrapositive, stated about a set of naturals since a lemma cannot take a
predicate. `PrefixInduction` and `SetInduction` are the forms for lists and finite
sets, `SumExists` and `TotalIsSum` what they give for sums. An eviction loop then
has an invariant over the prefix it has visited: what is gone, what is still listed,
and that the count is still the sum.

**The memory pool.** What is to be shown, that no operation runs on a chunk while one
of a former owner may, is about operations; what carries it is about
owners. `UsesTracked`: pending work of the owner of a chunk is on the queue of the
stream that will free it, or covered by a stream which that one has still to wait for. `FreeSettled`: pending work
on a free chunk comes before whatever the allocator's queue runs next.
`FormerSettled`: pending work of former owners of a live chunk comes before whatever its present
owner enqueues. The wait of `GPUfree` leads from the first to the second, the one of
`GPUmalloc` from the second to the third. Where `GPUfree` does not wait, `PresyncedQuiet` says
that there is nothing to wait for. `ChunksAccounted` keeps the two kinds of chunks apart.

**The bootstrap cache.** `BudgetSoftByOne` rests on `VictimsSuffice`: an eviction ends with
room for what comes in, or with no candidate left. `ReusesStages` is about a whole walk
through the groups (`ReuseInv`): a bootstrap leaves one of its groups in VRAM; when it is repeated,
the groups visited are the most recently used, so that with room for two an
eviction takes one of those and leaves the resident one that is still to come.

**Plaintexts.** While the hold is up nothing is evicted, so `held` is within
`device_plaintexts`; when it is down nothing is held and the budget is met (`Met`), but for
what is pinned.

**Ciphertexts.** An operation is a script, and the proof is about what is left of it: no
load comes after a fetch (`Scripted`), so no eviction comes while a pointer is
held: only loads enforce the budget. An operand need not be resident when it is fetched:
fetching brings it back, and enforces nothing. `OriginalsKept` needs
`Payloads`: of two handles that share a host payload, one has
yet to detach, so no write goes to a payload that an original still needs. `Fits` says that
what the handles know of themselves and what the cache knows of them agree.

**Levels.** The strengthening is of another kind: a handle always holds an
operand *as encoding would have made it* (`Fresh`), so that the table of the
context decides every field. Each branch of an alignment is then a sum of
logarithms that cancels; the recurrence of `ContextAssumption` is what makes a
rescale land on the table of the level below. `ContextAssumption` states of the tables,
which come from OpenFHE, what the code
itself asserts (`Ciphertext.cpp` 2302): a degree-2 factor divided by the prime of
its level is the degree-1 factor of the level below; and that a FIXED technique
has one factor for all levels. Under FIXEDAUTO `raiseDegreeToLevel` multiplies
by a prime and records the factor of the context; the model takes the one for
the other, as the code does.

**Streams.** The invariant is that owners cover their limbs (`OwnersCover`).
A function that starts from it is certified by what it knows along the way: for each
owner, the streams that are known to come after all accesses of its limbs. Every
launch must wait for, or run on, one of these for each limb it accesses, and
at its end each owner must be back among its own. Nothing is assumed of the number of
digits, of partitions or of calls. `Functions` leaves out those whose launches
depend on the number of digits (mod-up, the key switch), which fold
over it, and `LTdotProductPtBatch` and `fusedHoistRotate`, which do not keep the
discipline by themselves; these are model-checked.

**Rotations.** `SlotsRight` says what a call has left when it returns; the invariant says it of
every round (`SumSlotsInv`): the ciphertext holds the input rotated by each multiple of
`stride * start` below the factor of the next round, once, and nothing else. That a round keeps it is a matter of where the rotation by `k` steps of what is there
comes from (`RoundSource`): since factors, sizes and slots are powers of two, each divides
the larger ones (`PowersDivide`), so the last multiple of a round ends where the size does, nothing
wraps around the slots, and exactly one `k` leads to each slot. A sum of weights of which one at
most is not zero is that one (`TotalOfOne`). `KeysListed` needs that the factor of every round
is one of the list's (`RoundListed`), and of transforms that every one still to
be applied is served (`ServedTransform`): its baby steps are in the list, its giant step if it has
more than one row, and its offset; the rotations within and between the blocks of a convolution if it
has more than one. For bootstrapping (`StagesServed`) the offset of the last stage is
the accumulated one modulo the slots, which the list has unreduced.

**Words.** The argument is an equation for what is left when the estimated quotient
has been taken away: times the word size (or `32 * S * T`) it is a sum of
terms each of which is a fraction of the prime, so it lies between 0 and twice the
prime. One subtraction is then enough, and cutting to a word loses nothing.
That limbs are below their primes (`Canonical`) is what these theorems ask of their
operands.

**Contexts.** Neither property of the registry is inductive. That no key outlives
its context needs each key to be on one with the parameters it leads to, and
every owner to refer to a context that exists and has its parameters (`Sound`): a
context that goes then takes exactly its keys along. That none of the auxiliary contexts is
left behind or taken away needs the registered ones to be those in use
(`Shared`), and each API context that bootstraps to find its own as long as its
context is the registered one (`Served`): after `DeregisterAllContexts`, or when another
API context with the same parameters deregistered them, it keeps one that is not registered.
`LoadingGood` is an induction over the slot counts, whose auxiliary contexts are
shared by all of them. A load is taken only when two `ContextData` are
free (`RoomToLoad`): the set is as large as one likes, so this bounds nothing, and in the run
it always holds. The theorems are about `RegistrySpec`; `LimbsAlwaysCanonical` takes the
invariant over to `KernelSpec`, which the run checks.

**Kernels.** `Canonical` is not inductive: that a kernel leaves limbs below their primes
needs its operands below them, and the constants it multiplies by below the primes they are
for, which are those of the context whose kernel it is only if the devices hold its
constants. `KernelInv` is `RegistryInv` and `ProductInv`. The first is the invariant of the
contexts, with one part more for this (`Uploaded`: the devices hold the constants of the
current context). The second says of a product under way that the context is its own, that
memory is what the kernels done so far have left (`Held`: each buffer
is there once its kernel has run, for the right primes and with residues of them), and
that these were done in an order that the waits allow (`Ordered`): so what the next one reads
is there (`Ready`). There is one lemma per kernel; under it, one for its arithmetic
(`NTTFirstBelow`, `ModUpBelow`, `DotBelow`, `SwitchedBelow`, ...), where the transforms are
inductions over their layers and the conversions bounds on a sum of products. All of these ask
of the tables only that they *fit* (`TablesFitPrime`, `TablesFitBasis`, `TablesFitFactors`,
`TablesFitMatrices`); `AllTablesFit` shows that those of `SetupConstants` do, for any primes,
with digits of equal size but the last. What a kernel computes *beyond* its range, that a
product decrypts to the product, is model-checked.

**Only model-checked**, and why:

* Liveness (`CallsReturnWhenOffloadable`, `Terminates`): TLAPS does not reach fairness.
* `SeriesExact`, `BootstrapExact`: the code recurs over polynomials that it divides, so what
  it computes is a statement by induction over data, about operators that recur.
* `LiftsExact`, `ProductRight`: what the limbs of a product mean needs that a transform and its
  inverse cancel for every ring (roots of unity that add up to zero), and the Chinese remainder
  theorem for any number of primes. The provers have neither.
* `TransformsRight`: the terms of a transform are bags, summed by folds over bags, and what the
  stages of a bootstrap leave is a sum over paths, an induction over data.
* `PartsCovered`, and `NoRace` of whole operations: mod-up and the key switch launch on
  as many streams as there are digits and GPUs, and their waits are folds over these.

## What is left out

* Several host threads on one context. The library documents none, the
  caches have no locks, and `GPUmalloc` looks at the free list outside its lock.
* Stage groups that are empty; `clearBootPrecomputation(-1)`, which clears slot
  counts one after the other; bucket sizes of the allocator (one size is
  modelled: buckets do not share chunks); kernels that use several chunks.
* FLEXIBLEAUTOEXT (its level L + 1 is on a special prime), extended operands,
  whose callers align by hand, degree-2 operands on the last prime alone, and
  callers who multiply without a level left (nothing in the code looks). Key tags and slots of ciphertexts. `ScalingFactorRealBig[0]`,
  which is 0 in the code and is never read by an operand that fits its level.
* CPU-only mode of the API. Explicit offload of an extended ciphertext (it
  asserts). Reloading an unloaded extended ciphertext is taken as reloading a
  plain one. A plaintext filled by `Decrypt` is not an operand again.
* Of the streams: functions of `LimbPartition` that nothing calls
  (`multModupDotKSK`, `rotateModupDotKSK`, `squareModupDotKSK`, `multNoModdownEnd`,
  `modup`, `*BatchManyToOne`, `fusedHoistedRotateBatch`, the non-fused hoisting).
  Functions without a live caller (`squareElement`, `binomialSquareFold`, `mult1Add2`,
  `mult1AddMult23Add4`, `subScalar`) are in the theorem only. FIXEDMANUAL's fused `multPt`;
  CUDA graphs; running out of device memory; the streams of
  `SpecialConvolutionTransform`.
* Levels so low that a GPU has no limb of the operand. The mod-downs then skip their last
  part with the waits in it (`limb_size > 0`: `LimbPartitionMGPU.cu` 1604, 1692, 2723), `auxLimbs.s`
  for `stream` among them, although the INTT of the special limbs ran. The model has a limb
  on every GPU, so these guards are true in it.
* Of several GPUs: `GRAPH_CAPTURE`; contexts where every GPU holds all special limbs
  (a mod-down then needs no exchange); rescaling with limbs left on one GPU only;
  few-slot rescale (above); `MODRAISE_WITH_P0`; FLEXIBLEAUTOEXT. That the digits
  of one operation share an event is ignored, which leaves more orders than there are. Of
  the operations, those whose functions exchange limbs between GPUs and the
  add are checked on two GPUs; the element-wise others touch one GPU each.
* Of the series: complex coefficients, and the modes in which sums are evaluated
  one by one (`SEQUENTIAL_PS`, `FUSED_FULL`), which nothing enables.
* Of bootstraps: complex data where decoding comes first, the slot count a ciphertext declares
  between the steps, `MODRAISE_WITH_P0`, calls refused because of the set-up's mode or a
  number of iterations other than 1 and 2, and `BootstrapCPUraise` (a test's own pipeline).
  Key switches change no message here: `RnsKernels` has them.
* Of the rotations: `LinearTransformSpecial`, the batched transform, bootstrapping
  with a level budget of 1.
* Of the kernels: limbs of 32 bits, rings below 2^10 (transformed in one kernel, which
  the 32 coefficients of the model are not), products fused into an inverse transform
  (`INTT_MULT_AND_SAVE`), squares, the extended result that a product without
  mod-down leaves, automorphisms, the exact conversions of sparse encapsulation (disabled,
  `ConstantsGPU.cu` 174-178), the scratch between the two kernels of a transform (its streams are
  in `LimbStreams`), several GPUs. The tables that come from OpenFHE are computed
  by their definitions there. In raw mode (every context of the API) the digits of the
  primes and the roots of unity are OpenFHE's, from `findDigitOnParam` (`Context.cu` 329, 363)
  and `root_of_unity` (`ConstantsGPU.cu` 227-233);
  the model computes the digits by the formula of the other mode, which gives the same for
  two and one of three primes, and takes the first root its search finds.
* The components marked `not_modelled` in `PROJECT.json`, with reasons.

## Plan

Done: `RotationKeyCache`, `BootstrapCache`, `GpuMemoryPool`, `CiphertextCache`,
`PlaintextCache`, `CiphertextLevels`, `StreamOrder`, `LimbStreams`,
`CiphertextStreams`, `PeerExchange`, `LimbDiscipline`, `AccumulateBroadcast`,
`LinearTransforms`, `FactorRounding`, `ContextRegistry`, `SeriesEvaluation`, `BootstrapPipeline`, `Residues`, `DeviceConstants`,
`NegacyclicTransform`, `RnsKernels`.

Next, in this order:

1. Dot products, key tags and slots of ciphertexts.
2. `LimbPartitionMeta`: digits, special limbs and gather order over the GPUs, as
   functions against a reference partition; theorem: they partition the limbs.
3. Automorphisms and hoisted rotations as kernels, beside the product of `RnsKernels`.

Proofs to come: the discipline of mod-up and of the key switch (an induction over digits,
as those of `ListLemmas`), so that `FunctionsNeverRace` has all of `LimbPartition`; and the
digits of `LimbPartitionMeta` once they are modelled.
