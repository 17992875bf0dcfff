--------------------------- MODULE MCEscrowLifecycle ---------------------------
(***************************************************************************)
(* Instances of EscrowLifecycle for TLC.                                   *)
(***************************************************************************)
EXTENDS EscrowLifecycle, TLC

Symmetric == Permutations(Clients)
===============================================================================
