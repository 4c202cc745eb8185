----------------------------- MODULE MCLockstep -----------------------------
(***************************************************************************)
(* Lockstep for two clients; the configurations choose the constants.      *)
(***************************************************************************)
EXTENDS Lockstep
=============================================================================
