-------------------------- MODULE ContextRegistry --------------------------
(***************************************************************************)
(* The GPU contexts of a process, and who keeps them alive (Context.cu,    *)
(* api/CryptoContext.cpp, AddBootstrapKeys).                               *)
(*                                                                         *)
(* A ContextData lives as long as somebody owns it: the registry, which    *)
(* has one for each set of parameters, the current context, or an API      *)
(* context that loaded it.  API contexts with equal parameters share one.  *)
(* Bootstrapping with a sparse secret needs an auxiliary context, which    *)
(* the main one refers to weakly, and keys to switch between both.  These  *)
(* are in a store of the process, by pair of parameters, and each refers   *)
(* to the ContextData it was built on without owning it.                   *)
(*                                                                         *)
(* One host thread makes the calls, so each is one step.  A load that      *)
(* fails misses a key that the user has not generated; devices out of      *)
(* memory are left out.                                                    *)
(***************************************************************************)
EXTENDS FiniteSets, Functions, FiniteSetsExt

CONSTANTS Api,        \* API contexts (CryptoContextImpl); each has a key of its own
          Main,       \* parameters of API contexts
          Auxiliary,  \* parameters of auxiliary contexts
          Data,       \* ContextData objects
          Slots,      \* slot counts that bootstrapping is set up for
          None

ASSUME ParametersAssumption ==
    /\ Main \cap Auxiliary = {} /\ None \notin Main \cup Auxiliary \cup Data
    /\ IsFiniteSet(Slots)

VARIABLES param,       \* the parameters of each API context
          auxiliary,   \* those of the auxiliary context that bootstrapping needs
          registered,  \* map_param_context
          current,     \* currentContext
          constants,   \* the parameters whose constants the devices hold
          handle,      \* the ContextData that an API context owns (gpu)
          loaded,      \* "no", or loaded without or with bootstrapping
          paramOf,     \* the parameters of each ContextData, None if there is none
          sparse,      \* the auxiliary contexts it refers to (sparse_context)
          keys         \* map_param_switch

contextVars == <<param, auxiliary, registered, current, constants, handle, loaded, paramOf,
          sparse, keys>>

Param == Main \cup Auxiliary

RegistryInit ==
    /\ param \in [Api -> Main]
    /\ auxiliary \in [Main -> Auxiliary]
    /\ registered = [p \in Param |-> None]
    /\ current = None
    /\ constants = None
    /\ handle = [a \in Api |-> None]
    /\ loaded = [a \in Api |-> "no"]
    /\ paramOf = [d \in Data |-> None]
    /\ sparse = [d \in Data |-> {}]
    /\ keys = {}
-----------------------------------------------------------------------------
(* The calls change a record of the state.                                  *)

State == [registered |-> registered, current |-> current, constants |-> constants,
          handle |-> handle, paramOf |-> paramOf, sparse |-> sparse, keys |-> keys]

\* Faulty: the devices keep the constants they have.
ContextSwitched(st, d) == [st EXCEPT !.current = d]

SetCurrentContext(st, d) ==
    IF st.current = d THEN st ELSE [st EXCEPT !.current = d, !.constants = st.paramOf[d]]

\* Faulty: only the first set of parameters of an entry is looked at.
WithoutFrom(K, P) == {k \in K : k.from \notin P}

\* The keys of pairs without parameters P
Without(K, P) == {k \in K : {k.from, k.to} \cap P = {}}

\* A ContextData that nobody owns is destroyed, takes the keys with its parameters
\* out of the store, and can no longer be locked.
Settled(st) ==
    LET owned == Range(st.registered) \cup Range(st.handle) \cup {st.current}
        dead  == {d \in Data : st.paramOf[d] # None /\ d \notin owned}
    IN  [st EXCEPT !.paramOf = [d \in Data |-> IF d \in dead THEN None ELSE @[d]],
                   !.sparse  = [d \in Data |-> IF d \in dead THEN {} ELSE @[d] \ dead],
                   !.keys    = Without(@, {st.paramOf[d] : d \in dead})]

\* ContextData for p: the registered one, or a new one.  A ContextData is built in
\* either case; the one that is not needed is destroyed like any other.
\* The devices get the constants of the one that is needed when it is built.
GenCryptoContextGPU(st, p) ==
    IF st.registered[p] # None
    THEN [SetCurrentContext(st, st.registered[p]) EXCEPT !.keys = Without(@, {p})]
    ELSE LET d == CHOOSE d \in Data : st.paramOf[d] = None
         IN  SetCurrentContext([st EXCEPT !.registered[p] = d, !.paramOf[d] = p,
                                        !.constants = p], d)

\* emplace: a key that is there is kept.
Emplaced(K, k) ==
    IF \E j \in K : j.from = k.from /\ j.to = k.to /\ j.id = k.id THEN K ELSE K \cup {k}

\* The auxiliary context of a, and the keys to it (on it) and back (on a's own)
AddBootstrapKeys(st, a) ==
    LET g == GenCryptoContextGPU(st, auxiliary[param[a]])
        d == g.handle[a]
        s == g.current
        atob == [from |-> param[a], to |-> auxiliary[param[a]], id |-> a, on |-> s]
        btoa == [from |-> auxiliary[param[a]], to |-> param[a], id |-> a, on |-> d]
    IN  SetCurrentContext([g EXCEPT !.keys = Emplaced(Emplaced(@, btoa), atob),
                                    !.sparse[d] = @ \cup {s}], d)

\* LoadContext, as far as the bootstrapping keys for the slot counts S
Loading(st, a, S) ==
    LET g == GenCryptoContextGPU(st, param[a])
    IN  FoldSet(LAMBDA s, t : AddBootstrapKeys(t, a), [g EXCEPT !.handle[a] = g.current], S)

Unregistered(st, P) ==
    [st EXCEPT !.registered = [p \in Param |-> IF p \in P THEN None ELSE @[p]],
               !.keys = Without(@, P),
               !.current = IF @ # None /\ st.paramOf[@] \in P THEN None ELSE @]

\* Faulty: the auxiliary contexts go, whoever else uses them.
DeregisterShared(st, p) ==
    LET retiring == st.registered[p]
        auxiliaries == IF retiring = None THEN {} ELSE st.sparse[retiring]
    IN  Unregistered(st, {p} \cup {st.paramOf[s] : s \in auxiliaries})

\* The auxiliary contexts go too, unless another registered context uses them.
DeregisterCryptoContextGPU(st, p) ==
    LET retiring == st.registered[p]
        auxiliaries == IF retiring = None THEN {} ELSE st.sparse[retiring]
        rest == Unregistered(st, {p})
        others == Range(rest.registered) \ {None}
        unshared == {s \in auxiliaries : \A d \in others : s \notin st.sparse[d]}
    IN  Unregistered(rest, {st.paramOf[s] : s \in unshared})
-----------------------------------------------------------------------------
Becomes(st) ==
    LET end == Settled(st)
    IN  /\ registered' = end.registered /\ current' = end.current /\ constants' = end.constants
        /\ handle' = end.handle /\ paramOf' = end.paramOf /\ sparse' = end.sparse /\ keys' = end.keys
        /\ UNCHANGED <<param, auxiliary>>

\* Bound: a load builds two ContextData at most, one of them auxiliary.
RoomToLoad ==
    LET free == {d \in Data : paramOf[d] = None}
    IN  free # {} /\ \A d \in free : free # {d}

LoadContext(a, S) ==
    /\ loaded[a] = "no" /\ RoomToLoad
    /\ Becomes(Loading(State, a, S))
    /\ loaded' = [loaded EXCEPT ![a] = IF S = {} THEN "plain" ELSE "bootstraps"]

\* A key is missing: the exception leaves what was done so far.
LoadContextThrows(a, S) ==
    /\ loaded[a] = "no" /\ RoomToLoad
    /\ Becomes(Loading(State, a, S))
    /\ UNCHANGED loaded

\* ~CryptoContextImpl, and the next one with these parameters
Destroy(a) ==
    LET st == IF loaded[a] = "no" THEN State ELSE DeregisterCryptoContextGPU(State, param[a])
    IN  /\ handle[a] # None
        /\ Becomes([st EXCEPT !.handle[a] = None])
        /\ loaded' = [loaded EXCEPT ![a] = "no"]

\* SetCurrentContext, in every operation.  Bootstrapping makes the auxiliary context
\* current, and then its own again.
Operate(a) ==
    /\ loaded[a] # "no"
    /\ Becomes(SetCurrentContext(State, handle[a]))
    /\ UNCHANGED loaded

DeregisterAllContexts ==
    /\ Becomes([State EXCEPT !.keys = {}, !.registered = [p \in Param |-> None], !.current = None])
    /\ UNCHANGED loaded

\* What users of the API do
ApiNext ==
    \E a \in Api : \/ \E S \in SUBSET Slots : LoadContext(a, S)
                   \/ Destroy(a) \/ Operate(a)

RegistryNext ==
    \/ ApiNext
    \/ \E a \in Api : \E S \in SUBSET Slots : LoadContextThrows(a, S)
    \/ DeregisterAllContexts

RegistrySpec == RegistryInit /\ [][RegistryNext]_contextVars
-----------------------------------------------------------------------------
Registered(P) == {registered[p] : p \in P} \ {None}

\* Every switching key of the store was built on a ContextData that still exists:
\* destroying the key, now or at the end of the process, touches no freed context
\* (DeregisterCryptoContextGPU, ~ContextData).
KeysOutlived == \A k \in keys : paramOf[k.on] \in {k.from, k.to}

\* The auxiliary contexts in the registry are those that registered contexts refer
\* to: none is left behind when the last of these is gone, and none is taken from a
\* registered context that bootstraps with it (DeregisterCryptoContextGPU).
AuxiliariesExact ==
    /\ Registered(Auxiliary) = UNION {sparse[d] : d \in Registered(Main)}
    /\ \A a \in Api : loaded[a] = "bootstraps" /\ handle[a] \in Registered(Main) =>
           registered[auxiliary[param[a]]] \in sparse[handle[a]]
=============================================================================
