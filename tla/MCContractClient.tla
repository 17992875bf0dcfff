--------------------------- MODULE MCContractClient ----------------------------
(***************************************************************************)
(* An instance of ContractClient for TLC: three accounts, one of which     *)
(* holds no USDC, terms the creator may replace by others in which the     *)
(* roles, the amount or the payability change, and two calls of the client *)
(* beside anything the accounts do to the contract themselves.             *)
(***************************************************************************)
EXTENDS ContractClient

CONSTANTS buyer, seller, platform

MCAmounts == {0, 1}

MCAgreements ==
    {[buyer |-> buyer, seller |-> seller, platform |-> platform, amount |-> 1],
     [buyer |-> seller, seller |-> buyer, platform |-> buyer, amount |-> 1],
     [buyer |-> buyer, seller |-> platform, platform |-> platform, amount |-> 0]}
===============================================================================
