----------------------------- MODULE MCMultiParty ------------------------------
(***************************************************************************)
(* An instance of MultiParty for TLC: prices below ten dollars in tenths   *)
(* of a cent.  With the advice, the buyer's first bid is one the seller    *)
(* accepts; without it the seller asks again, and that is a price the      *)
(* buyer accepts, or with no advice again one that its reservation price   *)
(* admits and its ceiling does not.                                        *)
(***************************************************************************)
EXTENDS MultiParty

MCChildren == <<"c1", "c2">>

MCBuyerConfig == [value |-> 9500, risk |-> 2, margin |-> 8, first |-> 2, curve |-> 100, ceiling |-> 9600]

MCSellerConfigs ==
    {[value |-> 9600, risk |-> 5, margin |-> 2, first |-> 0, curve |-> 100, ceiling |-> None]}

MCOpenings == {8990}
MCModifiers == {50}
===============================================================================
