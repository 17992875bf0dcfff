---------------------------- MODULE ContractClient -----------------------------
(***************************************************************************)
(* TreasuryEscrowClient (blockchain/contract_client.py) and the deployment *)
(* script (blockchain/contracts/deploy.py) on top of the escrow contract.  *)
(* A call is a sequence of transactions, each sent only after the one      *)
(* before it was confirmed.  Waiting is given up after ten rounds, and the *)
(* transaction may still be executed afterwards; the call has raised then. *)
(* Between what a call reads from the application and the execution of its *)
(* transaction anybody else may call the contract.                         *)
(*                                                                         *)
(* The node may refuse any transaction, the opt-in of a deployment among   *)
(* them: the client names no foreign asset with it (line 252), and the     *)
(* inner transfer of an asset the call does not name is impossible.        *)
(***************************************************************************)
EXTENDS TreasuryEscrow, Sequences

CONSTANTS
    Jobs,       \* calls of the client's methods
    None

ASSUME ClientAssumption == None \notin Nat \cup Addresses

VARIABLES
    created,    \* whether the application exists
    jobs        \* the calls, and where each is

clientVars == <<vars, created, jobs>>

Terminal == {"RELEASED", "REFUNDED", "DISPUTED"}

(* The transactions of each method.                                         *)
Transactions ==
    [deploy_new_escrow |-> <<"create", "balance", "opt_in_to_usdc", "init">>,
     deploy            |-> <<"create", "balance", "opt_in_to_usdc">>,
     fund_escrow       |-> <<"fund">>,
     release_escrow    |-> <<"release">>,
     refund_escrow     |-> <<"refund">>,
     dispute_escrow    |-> <<"dispute">>,
     get_escrow_status |-> <<"get_details">>]

Methods == DOMAIN Transactions

Deployments == {"deploy_new_escrow", "deploy"}

(* What the caller of a method passes.                                      *)
Arguments(method) ==
    CASE method = "deploy_new_escrow" -> Agreements
      [] method = "fund_escrow"       -> Amounts
      [] OTHER                        -> {None}

(* args holds what the caller passed, seen the address read before sending, *)
(* answer what get_escrow_status returns (None stands for its ERROR).       *)
Idle == [method |-> None, by |-> None, args |-> None, seen |-> None,
         txn |-> 0, pc |-> "idle", answer |-> None]

ClientInit == Init /\ created = FALSE /\ jobs = [j \in Jobs |-> Idle]

(* A deployment is signed with the platform's key, which creates the        *)
(* application; the other methods take an application that exists, and the  *)
(* status is asked for with the platform's key.                             *)
Call(j, method, by, args) ==
    /\ jobs[j].pc = "idle"
    /\ method \in Deployments \cup {"get_escrow_status"} => by = Creator
    /\ IF method \in Deployments
         THEN ~created /\ \A k \in Jobs : jobs[k].method \notin Deployments
         ELSE created
    /\ jobs' = [jobs EXCEPT ![j] = [Idle EXCEPT !.method = method, !.by = by, !.args = args,
                                                !.txn = 1, !.pc = "next"]]
    /\ UNCHANGED <<vars, created>>

(* release_escrow and refund_escrow name the account their inner transfer   *)
(* goes to, as the application's state has it now.                          *)
Reading(method) ==
    CASE method = "release_escrow" -> terms.seller
      [] method = "refund_escrow"  -> terms.buyer
      [] OTHER                     -> None

Send(j) ==
    /\ jobs[j].pc = "next"
    /\ jobs' = [jobs EXCEPT ![j].pc = "sent", ![j].seen = Reading(jobs[j].method)]
    /\ UNCHANGED <<vars, created>>

(* What a transaction does when it is executed.  An inner transfer reaches  *)
(* only the sender and the accounts that came with the call.                *)
Effect(job) ==
    LET name  == Transactions[job.method][job.txn]
        Named(to) == to \in {job.by, job.seen}
        Same  == UNCHANGED <<vars, created>>
    IN  \/ name = "create" /\ created' = TRUE /\ UNCHANGED vars
        \/ name \in {"balance", "get_details"} /\ Same
        \/ name = "opt_in_to_usdc" /\ OptInToUsdc(job.by) /\ UNCHANGED created
        \/ name = "init" /\ Initialise(job.by, job.args) /\ UNCHANGED created
        \/ /\ name = "fund" /\ job.by \in Holders
           /\ Fund(job.by, [from |-> job.by, to |-> App, isUsdc |-> TRUE, amount |-> job.args])
           /\ UNCHANGED created
        \/ name = "release" /\ Named(terms.seller) /\ Release(job.by) /\ UNCHANGED created
        \/ name = "refund" /\ Named(terms.buyer) /\ Refund(job.by) /\ UNCHANGED created
        \/ name = "dispute" /\ Dispute(job.by) /\ UNCHANGED created

(* Mutation: a call returns one transaction early.                          *)
OneShort(job) ==
    IF job.txn + 1 < Len(Transactions[job.method]) THEN "next" ELSE "returned"

(* What follows a confirmed transaction: the next one, or the return.       *)
AfterConfirming(job) ==
    IF job.txn < Len(Transactions[job.method]) THEN "next" ELSE "returned"

(* The transaction is executed, while the client waits or after it gave up. *)
Land(j) ==
    /\ jobs[j].pc \in {"sent", "left"}
    /\ Effect(jobs[j])
    /\ jobs' = [jobs EXCEPT
          ![j].pc = IF @ = "left" THEN "raised" ELSE AfterConfirming(jobs[j]),
          ![j].txn = IF jobs[j].pc = "sent" /\ @ < Len(Transactions[jobs[j].method]) THEN @ + 1 ELSE @,
          ![j].answer = IF jobs[j].method = "get_escrow_status" /\ jobs[j].pc = "sent" THEN status ELSE None]

(* The node refuses the transaction or it expires, and the method raises;   *)
(* get_escrow_status alone catches that and answers ERROR.                  *)
Refuse(j) ==
    /\ jobs[j].pc \in {"sent", "left"}
    /\ jobs' = [jobs EXCEPT ![j].pc =
                  IF jobs[j].method = "get_escrow_status" THEN "returned" ELSE "raised"]
    /\ UNCHANGED <<vars, created>>

(* wait_for_confirmation gives up after ten rounds.                         *)
GiveUp(j) ==
    /\ jobs[j].pc = "sent"
    /\ jobs' = [jobs EXCEPT ![j].pc = "left"]
    /\ UNCHANGED <<vars, created>>

(* The parties call the application without the client.                     *)
CallDirectly == created /\ Next /\ UNCHANGED <<created, jobs>>

ClientNext ==
    \/ \E j \in Jobs :
          \/ \E method \in Methods, by \in Accounts : \E args \in Arguments(method) : Call(j, method, by, args)
          \/ Send(j)
          \/ Land(j)
          \/ Refuse(j)
          \/ GiveUp(j)
    \/ CallDirectly

ClientSpec == ClientInit /\ [][ClientNext]_clientVars

-------------------------------------------------------------------------------
(* The statuses an escrow can be in some time after one.                    *)
Later(old) ==
    CASE old = "PENDING" -> {"PENDING", "FUNDED"} \cup Terminal
      [] old = "FUNDED"  -> {"FUNDED"} \cup Terminal
      [] OTHER           -> {old}

(* What a method has reported as done stays done, whatever other calls were *)
(* in flight, given up and executed late: a deployment left a contract that *)
(* can hold USDC, a funding one that is not waiting for money, a release,   *)
(* refund or dispute exactly that status, and a status told to the caller   *)
(* is never taken back (the transaction ids the methods return say so).     *)
ReturnedIsDone ==
    \A j \in Jobs : jobs[j].pc = "returned" =>
        CASE jobs[j].method \in Deployments -> created /\ optedIn
          [] jobs[j].method = "fund_escrow" -> status \in Later("FUNDED")
          [] jobs[j].method = "release_escrow" -> status = "RELEASED"
          [] jobs[j].method = "refund_escrow" -> status = "REFUNDED"
          [] jobs[j].method = "dispute_escrow" -> status = "DISPUTED"
          [] OTHER -> jobs[j].answer = None \/ status \in Later(jobs[j].answer)
===============================================================================
