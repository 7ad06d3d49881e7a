-------------------------------- MODULE MCStock --------------------------------
(* StockAdjustment on a small instance for TLC. *)
EXTENDS StockAdjustment, TLC

CONSTANTS r1, r2, r3, s1, s2, k1, k2

MCQuantity == {-1, 0, 1}

RequestSymmetry == Permutations(Request) \cup Permutations(Key)
===============================================================================
