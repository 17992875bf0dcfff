------------------------------ MODULE MCDanpFsm -------------------------------
(***************************************************************************)
(* Instances of DanpFsm for TLC.  The prices are chosen around the limits: *)
(* 0 is no price at all, 900 is below the floor, 1000 and 1001 are fair    *)
(* and less than 0.2% apart, 1100 is above the buyer's ceiling.            *)
(***************************************************************************)
EXTENDS DanpFsm

MCPrices == {0, 900, 1000, 1001, 1100}
MCFloor == 1000
MCCeiling == 1050
MCExposure == [r \in Roles |-> 2000]

===============================================================================
