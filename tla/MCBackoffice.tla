----------------------------- MODULE MCBackoffice -----------------------------
(* Backoffice with model values for TLC. *)
EXTENDS Backoffice, TLC

CONSTANTS r1, r2, r3, k1, v1, f1, f2

RequestSymmetry == Permutations(Request)
===============================================================================
