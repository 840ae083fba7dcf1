---------------------------- MODULE StreamOrder ----------------------------
(***************************************************************************)
(* The order in which asynchronous kernels may access a buffer.            *)
(*                                                                         *)
(* A kernel runs on a stream, after all that its stream has run or has     *)
(* waited for, and after nothing else.  A launch is a record               *)
(*    on      the stream                                                   *)
(*    after   the streams it waits for first: on.wait(t)                   *)
(*    reads, writes  the buffers the kernel accesses                       *)
(*    before  the streams that wait for it at once: t.wait(on)             *)
(* A wait for a Stream object covers all that was enqueued on it so far:   *)
(* this is EventsUpToDate of GpuMemoryPool.                                *)
(*                                                                         *)
(* A buffer is <<p, part>>, a part of the partition p of a polynomial, and *)
(* p also names the stream of that partition: its owner, on which the      *)
(* buffer is allocated and freed.  An access is <<buffer, reader>>, or     *)
(* <<buffer, Writer>> for a write.  Only the latest accesses of a buffer   *)
(* are kept: the last write and, for each stream, the last read since.     *)
(***************************************************************************)
EXTENDS FiniteSets, Sequences

CONSTANTS Stream,  \* the Stream objects
          Writer   \* marks the access that writes

ASSUME WriterAssumption == Writer \notin Stream

VARIABLES later,  \* for each access, the streams whose next kernel comes after it
          raced   \* the buffers on which two accesses were not ordered

orderVars == <<later, raced>>

Owner(b) == b[1]

\* No kernel has been launched since the device was last drained.
Quiet == [a \in {} |-> {}]

\* The accesses of a kernel.
Accesses(l) ==
    {<<b, Writer>> : b \in l.writes} \cup {<<b, l.on>> : b \in l.reads \ l.writes}

\* What no longer counts once l has been launched: all accesses of what it
\* writes, and the last read of its stream of what it reads.
Superseded(l, a) == \/ a[1] \in l.writes
                    \/ a[1] \in l.reads /\ a[2] = l.on

\* l comes after access a.
ComesAfter(lt, l, a) == lt[a] \cap (l.after \cup {l.on}) # {}

\* Two accesses of a buffer, one of them by a write, must be ordered.
Conflict(l, a) == \/ a[1] \in l.writes
                  \/ a[1] \in l.reads /\ a[2] = Writer

\* The buffers on which l races with a kernel it does not come after.
Races(lt, l) ==
    {a[1] : a \in {a \in DOMAIN lt : Conflict(l, a) /\ ~ComesAfter(lt, l, a)}}

\* The streams that come after each access, once l has been launched.
Launched(lt, l) ==
    LET heirs == l.before \cup {l.on}
        own   == Accesses(l)
        kept  == {a \in DOMAIN lt : ~Superseded(l, a)}
    IN  [a \in kept \cup own |-> IF a \in own THEN heirs
                                 ELSE IF ComesAfter(lt, l, a) THEN lt[a] \cup heirs
                                 ELSE lt[a]]
-----------------------------------------------------------------------------
(* Properties                                                              *)

\* Two kernels that access a buffer, one of them writing it, are ordered by
\* stream waits: whatever the device does first, no kernel reads a limb that is
\* being overwritten, or overwrites one that is being read.
NoRace == raced = {}

\* The owners in S come after every access of their buffers.  What an owner
\* enqueues next - the next operation of the polynomial, its release to the pool
\* (GPUfree on its stream) or its reuse as an auxiliary - is ordered after all
\* that was done to it.
OwnersCover(lt, S) ==
    \A a \in DOMAIN lt : Owner(a[1]) \in S => Owner(a[1]) \in lt[a]
=============================================================================
