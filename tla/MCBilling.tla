------------------------------- MODULE MCBilling -------------------------------
(* Billing with model values for TLC. *)
EXTENDS Billing

CONSTANTS r1, r2, starter, growth, k1, c1, c2, s1, s2
===============================================================================
