---------------------------- MODULE MCSharedSession ----------------------------
(***************************************************************************)
(* An instance of SharedSession for TLC: the engine and one client.  1000  *)
(* is fair and 900 below the seller's floor.                               *)
(***************************************************************************)
EXTENDS SharedSession

MCFloor == 1000
MCCeiling == 1050
MCExposure == [r \in Roles |-> 2000]
MCPrices == {900, 1000}

Sensible == {a \in Envelope : a.round \in {1, 2} /\ a.kind \in {"counter", "accept", "reject"}
                              /\ (a.kind = "counter" => a.price # NoOffer)}

NoKeys == {}
===============================================================================
