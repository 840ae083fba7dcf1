------------------------- MODULE MCLinearTransforms -------------------------
(* Sums on 16 slots as in AccumulateBroadcast; transforms of up to 7 diagonals; *)
(* convolutions of up to 9 rows, and of two, three, four and six blocks; all    *)
(* ways to split the layers of bootstrapping 2 to 16 slots.                     *)
EXTENDS LinearTransforms

MCTaps == {<<0>>, <<-1, 0>>, <<-3, -1, 3>>}
MCRows == 1..9 \cup {11, 16, 24, 32, 48}
MCStrides == {-3, 1, 4}
MCOffsets == {-5, 0, 8}
=============================================================================
