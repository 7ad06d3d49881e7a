-------------------------------- MODULE Accounts --------------------------------
(* What the modules about accounts share: the account ids, and the absence of one. *)
CONSTANTS Account, NoAccount
================================================================================
