------------------------------- MODULE Powers -------------------------------
(* Powers of two, as a recursive function: what the provers can reason about. *)
EXTENDS Integers

\* 2 ^ n
TwoTo(n) == LET t[k \in 0..n] == IF k = 0 THEN 1 ELSE 2 * t[k - 1] IN t[n]
=============================================================================
