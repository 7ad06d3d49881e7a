----------------------------- MODULE MCAccountAccess -----------------------------
(* AccountAccess with model values for TLC. *)
EXTENDS AccountAccess, TLC

CONSTANTS r1, r2, a1, a2, u1, u2, e1, e2

AccessSymmetry ==
  Permutations(Slot) \cup Permutations(Account) \cup Permutations(Subject) \cup Permutations(Email)
===============================================================================
