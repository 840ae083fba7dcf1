------------------------------ MODULE VramCache ------------------------------
(***************************************************************************)
(* What every VRAM cache of the library promises, whatever its eviction    *)
(* order and its bookkeeping.  Items are registered either backed by a     *)
(* host copy or on the device for good.  An operation fetches items (which *)
(* puts them on the device), then enqueues the kernels that read them.     *)
(* The cache may take items off the device only when host copies can bring *)
(* them back, no operation has fetched them, and the device has been       *)
(* drained of the kernels reading them.                                    *)
(***************************************************************************)
CONSTANT Item

VARIABLES known,    \* the items registered
          backed,   \* those with a host copy
          onDevice, \* those whose limbs are in VRAM
          wanted,   \* those fetched by an operation that has enqueued nothing yet
          reading   \* those an enqueued kernel reads

vars == <<known, backed, onDevice, wanted, reading>>

Init ==
    /\ known = {} /\ backed = {} /\ onDevice = {}
    /\ wanted = {} /\ reading = {}

\* The items S leave the device in this step.
MayLose(S) ==
    /\ S \subseteq backed
    /\ S \cap wanted = {}
    /\ S # {} => reading' = {}

Register(S) ==
    /\ S \cap known = {}
    /\ known' = known \cup S
    /\ \/ backed' = backed \cup S /\ UNCHANGED onDevice
       \/ onDevice' = onDevice \cup S /\ UNCHANGED backed
    /\ reading' \subseteq reading
    /\ UNCHANGED wanted

\* Making room for x and bringing it in is one call.
Fetch(x) ==
    /\ x \in known
    /\ x \in onDevice \cup backed
    /\ x \in onDevice' /\ onDevice' \subseteq onDevice \cup {x}
    /\ MayLose(onDevice \ onDevice')
    /\ wanted' = wanted \cup {x}
    /\ reading' \subseteq reading
    /\ UNCHANGED <<known, backed>>

Enqueue ==
    /\ reading' = reading \cup wanted
    /\ wanted' = {}
    /\ UNCHANGED <<known, backed, onDevice>>

GiveUp ==
    /\ wanted' = {}
    /\ UNCHANGED <<known, backed, onDevice, reading>>

Complete ==
    /\ reading' \subseteq reading
    /\ UNCHANGED <<known, backed, onDevice, wanted>>

Evict ==
    /\ onDevice' \subseteq onDevice
    /\ MayLose(onDevice \ onDevice')
    /\ reading' \subseteq reading
    /\ UNCHANGED <<known, backed, wanted>>

Forget(S) ==
    /\ S \cap (wanted \cup reading) = {}
    /\ known' = known \ S
    /\ backed' = backed \ S
    /\ onDevice' = onDevice \ S
    /\ UNCHANGED <<wanted, reading>>

Next ==
    \/ \E S \in SUBSET Item : Register(S) \/ Forget(S)
    \/ \E x \in Item : Fetch(x)
    \/ Enqueue \/ GiveUp \/ Complete \/ Evict

Spec == Init /\ [][Next]_vars
=============================================================================
