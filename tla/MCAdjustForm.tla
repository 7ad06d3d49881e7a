------------------------------ MODULE MCAdjustForm ------------------------------
(* AdjustForm on a small instance for TLC: one SKU, the seller takes one unit off. *)
EXTENDS AdjustForm, TLC

CONSTANTS r1, r2, s1, k1, k2

MCQuantity == {-1}
MCFormQuantity == -1
===============================================================================
