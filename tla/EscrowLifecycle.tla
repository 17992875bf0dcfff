---------------------------- MODULE EscrowLifecycle ----------------------------
(***************************************************************************)
(* An escrow after its deployment: the escrow_contracts row, the           *)
(* application the manager deploys (contracts/teal/escrow_approval.teal),  *)
(* and administrators' fund, release and refund requests                   *)
(* (blockchain/escrow_manager.py), handled by several worker processes.    *)
(*                                                                         *)
(* A request reads the row, without a lock, submits its transaction, waits *)
(* four rounds for the confirmation, and then writes the row and commits.  *)
(* A transaction whose request stopped waiting may still be confirmed.     *)
(*                                                                         *)
(* A definition introduced by "Mutation" is a plausible mistake in the     *)
(* definition that follows it; no specification uses it.                   *)
(*                                                                         *)
(* Nothing in the repository calls the application's init: Initialise is   *)
(* the step an operator has to take by hand.  The program has no transfer  *)
(* out, so paid never falls, and its fund method does not look for a       *)
(* payment: the manager sends one in the same group, a buyer who calls the *)
(* application itself need not.  The schema EscrowContract.deploy asks for *)
(* (3 integers, 3 byte slices) is too small for what the program's own     *)
(* creation writes (4 and 5), so the chain would refuse every deployment;  *)
(* the module is about the program once it is created with enough room.    *)
(* Deleting the application is left out, since nothing calls               *)
(* EscrowContract.delete.                                                  *)
(***************************************************************************)
EXTENDS Naturals

CONSTANTS
    Clients,    \* slots for concurrent requests
    Creator,    \* the account that deployed, and that signs release and refund
    Funder,     \* the account that signs fund: BUYER_WALLET_MNEMONIC or the creator
    Seller,
    NoAddress,  \* what the program's address fields start with
    MaxFaults   \* bound: lost answers, lost transactions and calls of the parties together

ASSUME LifecycleAssumption ==
    /\ NoAddress \notin {Creator, Funder, Seller}
    /\ MaxFaults \in Nat

VARIABLES
    app,        \* the application's status, buyer, seller and platform
    paid,       \* how many payments of the agreed amount came with a fund
    row,        \* escrow_contracts.status
    settlements,\* rows of settlements
    req,        \* what each client's request is doing
    floating,   \* submitted transactions nobody waits for any more
    faults      \* faults so far, counted for their bound

vars == <<app, paid, row, settlements, req, floating, faults>>

Operations == {"fund", "release", "refund"}

AppStatus == {"PENDING", "FUNDED", "RELEASED", "REFUNDED", "DISPUTED"}

Addresses == {Creator, Funder, Seller}

TypeOK ==
    /\ app \in [status : AppStatus, buyer : Addresses \cup {NoAddress},
                seller : Addresses \cup {NoAddress}, platform : Addresses \cup {NoAddress}]
    /\ paid \in Nat
    /\ row \in {"DEPLOYED", "FUNDED", "RELEASED", "REFUNDED"}
    /\ settlements \in Nat
    /\ req \in [Clients -> [at : {"idle", "call", "commit"}, op : Operations]]
    /\ floating \subseteq Operations
    /\ faults \in 0 .. MaxFaults

(* What trigger_escrow leaves behind.                                       *)
Init ==
    /\ app = [status |-> "PENDING", buyer |-> NoAddress, seller |-> NoAddress,
              platform |-> NoAddress]
    /\ paid = 0
    /\ row = "DEPLOYED"
    /\ settlements = 0
    /\ req = [c \in Clients |-> [at |-> "idle", op |-> "fund"]]
    /\ floating = {}
    /\ faults = 0

-------------------------------------------------------------------------------
(* The program (escrow_approval.teal).                                      *)

(* handle_init; the creator may repeat it while PENDING.                    *)
Initialise(buyer, platform) ==
    /\ app.status = "PENDING"
    /\ app' = [status |-> "PENDING", buyer |-> buyer, seller |-> Seller, platform |-> platform]
    /\ UNCHANGED <<paid, row, settlements, req, floating, faults>>

Callers(op) ==
    CASE op = "fund"    -> {app.buyer}
      [] op = "release" -> {app.platform, app.buyer}
      [] op = "refund"  -> {app.platform}
      [] op = "dispute" -> {app.buyer, app.seller}

(* Mutation: an escrow that holds money can be funded.                      *)
NeededTwice(op) == IF op = "fund" THEN {"PENDING", "FUNDED"} ELSE {"FUNDED"}

(* Mutation: a released escrow can be released.                             *)
NeededAgain(op) == IF op = "fund" THEN {"PENDING"} ELSE {"FUNDED", "RELEASED"}

Needed(op) == IF op = "fund" THEN {"PENDING"} ELSE {"FUNDED"}

Allowed(op, sender) == sender \in Callers(op) /\ app.status \in Needed(op)

(* The status a method sets, and the manager writes to the row.             *)
Result(op) ==
    CASE op = "fund"    -> "FUNDED"
      [] op = "release" -> "RELEASED"
      [] op = "refund"  -> "REFUNDED"
      [] op = "dispute" -> "DISPUTED"

(* A confirmed transaction, in a group with some payments, which fail with  *)
(* it.                                                                      *)
Execute(op, payments) ==
    /\ app' = [app EXCEPT !.status = Result(op)]
    /\ paid' = paid + payments

(* What the manager sends along.                                            *)
Payments(op) == IF op = "fund" THEN 1 ELSE 0

(* Who signs for the manager.                                               *)
Signer(op) == IF op = "fund" THEN Funder ELSE Creator

-------------------------------------------------------------------------------
(* The requests (escrow_manager.py).                                        *)
At(c, place) == req[c].at = place

Go(c, place) == req' = [req EXCEPT ![c].at = place]

(* Mutation: a release is tried whatever the row says.                      *)
AdmittedAlways(op) == TRUE

(* fund answers from a FUNDED row, release insists on one, refund does not  *)
(* ask.                                                                     *)
Admitted(op) ==
    /\ op = "fund" => row # "FUNDED"
    /\ op = "release" => row = "FUNDED"

Request(c, op) ==
    /\ At(c, "idle")
    /\ Admitted(op)
    /\ req' = [req EXCEPT ![c] = [at |-> "call", op |-> op]]
    /\ UNCHANGED <<app, paid, row, settlements, floating, faults>>

(* Mutation: the row is written although the transaction was refused.       *)
RefuseIgnored(c) ==
    /\ At(c, "call")
    /\ ~Allowed(req[c].op, Signer(req[c].op))
    /\ Go(c, "commit")
    /\ UNCHANGED <<app, paid, row, settlements, floating, faults>>

(* The transaction is refused: the request raises.                          *)
Refuse(c) ==
    /\ At(c, "call")
    /\ ~Allowed(req[c].op, Signer(req[c].op))
    /\ Go(c, "idle")
    /\ UNCHANGED <<app, paid, row, settlements, floating, faults>>

Confirm(c) ==
    /\ At(c, "call")
    /\ Allowed(req[c].op, Signer(req[c].op))
    /\ Execute(req[c].op, Payments(req[c].op))
    /\ Go(c, "commit")
    /\ UNCHANGED <<row, settlements, floating, faults>>

(* No confirmation within four rounds: the request raises, the transaction  *)
(* stays in the pool.                                                       *)
GiveUp(c) ==
    /\ faults < MaxFaults
    /\ At(c, "call")
    /\ floating' = floating \cup {req[c].op}
    /\ faults' = faults + 1
    /\ Go(c, "idle")
    /\ UNCHANGED <<app, paid, row, settlements>>

(* The row gets what was confirmed, whatever it says by now.                *)
Commit(c) ==
    /\ At(c, "commit")
    /\ row' = Result(req[c].op)
    /\ settlements' = IF req[c].op = "release" THEN settlements + 1 ELSE settlements
    /\ Go(c, "idle")
    /\ UNCHANGED <<app, paid, floating, faults>>

(* The worker or the connection is lost between confirmation and commit.    *)
Abort(c) ==
    /\ faults < MaxFaults
    /\ At(c, "commit")
    /\ faults' = faults + 1
    /\ Go(c, "idle")
    /\ UNCHANGED <<app, paid, row, settlements, floating>>

(* A transaction nobody waits for is confirmed, refused or expires.         *)
Land(op) ==
    /\ op \in floating
    /\ floating' = floating \ {op}
    /\ \/ Allowed(op, Signer(op)) /\ Execute(op, Payments(op))
       \/ UNCHANGED <<app, paid>>
    /\ UNCHANGED <<row, settlements, req, faults>>

(* The buyer funds, paying or not, or releases, or a party disputes, with a *)
(* wallet of its own.                                                       *)
CallItself(op, sender) ==
    /\ faults < MaxFaults
    /\ Allowed(op, sender)
    /\ \E payments \in 0 .. Payments(op) : Execute(op, payments)
    /\ faults' = faults + 1
    /\ UNCHANGED <<row, settlements, req, floating>>

Next ==
    \/ \E buyer \in {Creator, Funder}, platform \in {Creator, Funder} : Initialise(buyer, platform)
    \/ \E c \in Clients :
          \/ \E op \in Operations : Request(c, op)
          \/ Refuse(c) \/ Confirm(c) \/ GiveUp(c) \/ Commit(c) \/ Abort(c)
    \/ \E op \in Operations : Land(op)
    \/ \E op \in {"fund", "release", "dispute"}, sender \in Addresses : CallItself(op, sender)

Spec == Init /\ [][Next]_vars

-------------------------------------------------------------------------------
Quiet == \A c \in Clients : At(c, "idle")

(* The row never claims what the chain has not done: the application has    *)
(* left PENDING when the row says FUNDED, and RELEASED and REFUNDED are     *)
(* final on chain too, however requests overlap and answers get lost.       *)
RowNeverAhead ==
    /\ row = "FUNDED" => app.status # "PENDING"
    /\ row \in {"RELEASED", "REFUNDED"} => app.status = row

(* An escrow is settled once: a second release, overlapping or repeated     *)
(* after a lost answer, adds no settlement, and there is none unless the    *)
(* application is released.                                                 *)
SettledOnce == settlements <= 1 /\ (settlements = 1 => app.status = "RELEASED")

(* The agreed amount is paid once at most: a fund that is repeated after a  *)
(* lost answer, while the row still says DEPLOYED, or that meets one of the *)
(* buyer's own, pays nothing again, and a payment always moves the          *)
(* application on.  That FUNDED means paid does not hold.                   *)
PaidOnce == paid <= 1 /\ (app.status = "PENDING" => paid = 0)

(* While no answer is lost and the parties leave the application alone, the *)
(* row of a quiet escrow agrees with the chain, but for one case: a refund  *)
(* that overtakes the commit of its funding.                                *)
RowAgrees ==
    Quiet /\ faults = 0 =>
        \/ row = IF app.status = "PENDING" THEN "DEPLOYED" ELSE app.status
        \/ row = "FUNDED" /\ app.status = "REFUNDED"
===============================================================================
