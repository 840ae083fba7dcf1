---------------------------- MODULE RecencyList ----------------------------
(***************************************************************************)
(* The recency list of a cache: a std::list with a map of iterators beside *)
(* it, or timestamps whose order it stands for.  Its front is the most     *)
(* recently used item; an item is in it at most once.                      *)
(***************************************************************************)
EXTENDS SequencesExt

\* (An operator whose comment says "faulty" is not part of a model: it is what
\* the definition after it could have been, and breaks a property.)

\* Faulty: the list keeps k.
UnlinkNothing(order, k) == order

\* list.erase(pos[k]): the list without k.
Unlink(order, k) ==
    IF \E j \in DOMAIN order : order[j] = k
    THEN RemoveAt(order, CHOOSE j \in DOMAIN order : order[j] = k)
    ELSE order

\* k moves, or enters, at the front.
ToFront(order, k) == <<k>> \o Unlink(order, k)

\* The items of a list.
Elems(order) == {order[j] : j \in DOMAIN order}

\* No item is in the list twice.
Distinct(order) == \A i, j \in DOMAIN order : order[i] = order[j] => i = j
=============================================================================
