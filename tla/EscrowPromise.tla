----------------------------- MODULE EscrowPromise -----------------------------
(***************************************************************************)
(* What an escrow promises: its terms are fixed from the moment it holds   *)
(* the money, it holds exactly the agreed amount, and that amount leaves   *)
(* it once, when the escrow is paid out or returned.  A disputed escrow    *)
(* keeps the money.                                                        *)
(***************************************************************************)
EXTENDS Naturals

CONSTANT Terms      \* what can be agreed; every member has an amount

VARIABLES
    phase,      \* the status of the escrow
    terms,      \* who deals with whom about how much
    box         \* the money held

vars == <<phase, terms, box>>

Init ==
    /\ phase = "PENDING"
    /\ terms \in Terms
    /\ box = 0

Agree ==
    /\ phase = "PENDING"
    /\ terms' \in Terms
    /\ UNCHANGED <<phase, box>>

Hold ==
    /\ phase = "PENDING"
    /\ phase' = "FUNDED"
    /\ box' = terms.amount
    /\ UNCHANGED terms

Settle ==
    /\ phase = "FUNDED"
    /\ phase' \in {"RELEASED", "REFUNDED"}
    /\ box' = 0
    /\ UNCHANGED terms

Freeze ==
    /\ phase = "FUNDED"
    /\ phase' = "DISPUTED"
    /\ UNCHANGED <<terms, box>>

Next == Agree \/ Hold \/ Settle \/ Freeze

Spec == Init /\ [][Next]_vars
===============================================================================
