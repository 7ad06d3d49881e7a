------------------------------- MODULE MCSkuCosts -------------------------------
(* SkuCosts with model values for TLC. *)
EXTENDS SkuCosts, TLC

CONSTANTS w1, w2, w3, a, b

MCOrder == {<<a>>, <<b>>, <<a, b>>, <<b, a>>}
OneSku  == {<<a>>}

WriterSymmetry == Permutations(Writer)
===============================================================================
