-------------------------- MODULE NegotiationOutcome --------------------------
(***************************************************************************)
(* What a negotiation promises to everything built on it (escrow, audit,   *)
(* multi-party selection): it is decided at most once, the decision never  *)
(* changes, and only an agreement carries a price, one that both the       *)
(* seller's floor and the buyer's ceiling allow.  TERMINAL_STATES of       *)
(* core/state_machine.py is the set of decisions.                          *)
(***************************************************************************)
EXTENDS Integers

CONSTANTS Prices, Floor, Ceiling, NoOffer

VARIABLES
    outcome,    \* "OPEN", or the terminal status
    price       \* final_agreed_value

vars == <<outcome, price>>

Decisions ==
    {"AGREED", "WALKAWAY", "TIMEOUT", "ROUND_LIMIT", "STALLED", "POLICY_BREACH"}

(* A blank counter can be accepted, which closes the deal without a price. *)
Fair(p) == p = NoOffer \/ (p \in Prices /\ Floor <= p /\ p <= Ceiling)

Init ==
    /\ outcome = "OPEN"
    /\ price = NoOffer

Decide(d) ==
    /\ outcome = "OPEN"
    /\ outcome' = d
    /\ IF d = "AGREED" THEN \E p \in Prices \cup {NoOffer} : Fair(p) /\ price' = p
                       ELSE price' = NoOffer

Next == \E d \in Decisions : Decide(d)

Spec == Init /\ [][Next]_vars
===============================================================================
