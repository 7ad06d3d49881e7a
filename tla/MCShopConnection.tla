---------------------------- MODULE MCShopConnection ----------------------------
(* ShopConnection with model values for TLC. *)
EXTENDS ShopConnection, TLC

CONSTANTS a1, a2, s1, s2, q1, q2, c1, c2, c3

ConnectionSymmetry ==
  Permutations(Account) \cup Permutations(Shop) \cup Permutations(State) \cup Permutations(Callback)
===============================================================================
