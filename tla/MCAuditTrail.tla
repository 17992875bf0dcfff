----------------------------- MODULE MCAuditTrail ------------------------------
(***************************************************************************)
(* Instances of AuditTrail for TLC.                                        *)
(***************************************************************************)
EXTENDS AuditTrail, TLC

Symmetric == Permutations(Workers)
===============================================================================
