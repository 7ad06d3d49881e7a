------------------------------ MODULE MCMigrations ------------------------------
(* Three runners, three files of two contents each, one edit under the runners.  *)
EXTENDS Migrations, TLC

CONSTANTS r1, r2, r3, old, new

RunnerSymmetry == Permutations({r1, r2, r3})
===============================================================================
