---------------------------- MODULE MCSessionOpening ---------------------------
(***************************************************************************)
(* An instance of SessionOpening for TLC: two enterprises, either of which *)
(* may be registered or made by the demo, two overlapping requests, and    *)
(* room for one session more than an hour's budget.                        *)
(***************************************************************************)
EXTENDS SessionOpening, TLC

MCSymmetry == Permutations(Requests) \cup Permutations(Sessions) \cup Permutations(Enterprises)
===============================================================================
