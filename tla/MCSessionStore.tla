---------------------------- MODULE MCSessionStore ----------------------------
(***************************************************************************)
(* Instances of SessionStore for TLC.  1000 and 1001 are fair and less     *)
(* than 0.2% apart, 900 is below the seller's floor, 1100 above the        *)
(* buyer's ceiling.  CurrentRound keeps to requests whose round number     *)
(* can be valid, since a wrong one only counts.                            *)
(***************************************************************************)
EXTENDS SessionStore, TLC

MCFloor == 1000
MCCeiling == 1050
MCExposure == [r \in Roles |-> 2000]

SeqPrices == {900, 1000, 1001}
FairPrices == {1000, 1001}
GuardPrices == {900, 1000}

AnyRequest == {a \in Envelope : a.round \in {2, 3}}
CurrentRound == {a \in Envelope : a.round = 2 /\ a.kind \in {"counter", "accept", "reject"}
                                  /\ (a.kind = "counter" => a.price # NoOffer)}

NoKeys == {}
SessionKey == {<<"session">>}

Symmetric == Permutations(Clients)
===============================================================================
