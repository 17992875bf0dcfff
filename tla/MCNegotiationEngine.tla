-------------------------- MODULE MCNegotiationEngine --------------------------
(***************************************************************************)
(* An instance of NegotiationEngine for TLC.  900 is below the seller's    *)
(* floor, 1000 and 1001 are fair and less than 0.2% apart.                 *)
(***************************************************************************)
EXTENDS NegotiationEngine

MCFloor == 1000
MCCeiling == 1050
MCExposure == [r \in Roles |-> 2000]
MCPrices == {900, 1000, 1001}
===============================================================================
