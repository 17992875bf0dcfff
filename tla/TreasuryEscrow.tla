---------------------------- MODULE TreasuryEscrow -----------------------------
(***************************************************************************)
(* The escrow contract of blockchain/contracts/treasury_escrow.py and the  *)
(* USDC it moves.  Any account may call any method at any time, and may    *)
(* send USDC to the contract without calling it.  A method whose assertion *)
(* fails, or whose inner transfer is impossible, leaves everything as it   *)
(* was, the payment in its group included, and is no step here.            *)
(*                                                                         *)
(* A definition introduced by "Mutation" is a plausible mistake in the     *)
(* definition that follows it; no specification uses it.                   *)
(*                                                                         *)
(* What is not modelled: fees, minimum balances, the merkle_root, session  *)
(* and exchange rate the contract stores, which it never reads.            *)
(***************************************************************************)
EXTENDS Naturals

CONSTANTS
    Accounts,   \* who can sign a transaction
    Holders,    \* the accounts opted in to USDC
    Creator,    \* who created the application
    App,        \* the application's own account
    NoAccount,  \* the empty address the fields start with
    Amounts,    \* the amounts anybody may name
    Agreements, \* the terms the creator may set
    Supply      \* what every holder starts with

ASSUME EscrowAssumption ==
    /\ Holders \subseteq Accounts
    /\ Creator \in Accounts
    /\ App \notin Accounts /\ NoAccount \notin Accounts
    /\ Amounts \subseteq Nat
    /\ 0 \in Amounts
    /\ Supply \in Nat
    /\ Agreements \subseteq [buyer : Accounts, seller : Accounts, platform : Accounts, amount : Amounts]

VARIABLES
    status,
    terms,      \* buyer_address, seller_address, platform_address, agreed_amount_usdc
    optedIn,    \* whether the contract account is opted in to USDC
    usdc,       \* who holds how much
    box         \* history: what fund brought in and no payout has taken out

vars == <<status, terms, optedIn, usdc, box>>

Addresses == Accounts \cup {NoAccount}

Terms == [buyer : Addresses, seller : Addresses, platform : Addresses, amount : Amounts]

Payment == [from : Holders, to : Holders \cup {App}, isUsdc : BOOLEAN, amount : Amounts]

TypeOK ==
    /\ status \in {"PENDING", "FUNDED", "RELEASED", "REFUNDED", "DISPUTED"}
    /\ terms \in Terms
    /\ optedIn \in BOOLEAN
    /\ usdc \in [Holders \cup {App} -> Nat]
    /\ box \in Nat

Init ==
    /\ status = "PENDING"
    /\ terms = [buyer |-> NoAccount, seller |-> NoAccount, platform |-> NoAccount, amount |-> 0]
    /\ optedIn = FALSE
    /\ usdc = [h \in Holders \cup {App} |-> IF h = App THEN 0 ELSE Supply]
    /\ box = 0

(* A transfer of USDC, possible between accounts that are opted in.         *)
Transfer(from, to, amount) ==
    /\ {from, to} \subseteq IF optedIn THEN Holders \cup {App} ELSE Holders
    /\ amount <= usdc[from]
    /\ usdc' = [usdc EXCEPT ![from] = @ - amount, ![to] = @ + amount]

(* Mutation: the terms may be set at any time.                              *)
InitialiseAnytime(sender, t) ==
    /\ sender = Creator
    /\ terms' = t
    /\ UNCHANGED <<status, optedIn, usdc, box>>

(* init: only the creator, and as often as it likes before the funding.     *)
Initialise(sender, t) ==
    /\ sender = Creator
    /\ status = "PENDING"
    /\ terms' = t
    /\ UNCHANGED <<status, optedIn, usdc, box>>

OptInToUsdc(sender) ==
    /\ sender = Creator
    /\ optedIn' = TRUE
    /\ UNCHANGED <<status, terms, usdc, box>>

(* What fund asserts of the payment in its group; who sends it is open.     *)
PaymentChecked(p) == p.to = App /\ p.isUsdc /\ p.amount = terms.amount

Fund(sender, p) ==
    /\ sender = terms.buyer
    /\ status = "PENDING"
    /\ PaymentChecked(p)
    /\ IF p.isUsdc THEN Transfer(p.from, p.to, p.amount) ELSE UNCHANGED usdc
    /\ box' = box + (IF p.isUsdc /\ p.to = App THEN p.amount ELSE 0)
    /\ status' = "FUNDED"
    /\ UNCHANGED <<terms, optedIn>>

(* Mutation: a dispute does not stop a payout.                              *)
FundedOrDisputed == status \in {"FUNDED", "DISPUTED"}

(* _assert_is_funded.                                                       *)
Funded == status = "FUNDED"

PayOut(to) ==
    /\ Transfer(App, to, terms.amount)
    /\ box' = box - terms.amount
    /\ UNCHANGED <<terms, optedIn>>

Release(sender) ==
    /\ Funded
    /\ sender \in {terms.platform, terms.buyer}
    /\ PayOut(terms.seller)
    /\ status' = "RELEASED"

Refund(sender) ==
    /\ Funded
    /\ sender = terms.platform
    /\ PayOut(terms.buyer)
    /\ status' = "REFUNDED"

(* No method leads out of DISPUTED.                                         *)
Dispute(sender) ==
    /\ Funded
    /\ sender \in {terms.buyer, terms.seller}
    /\ status' = "DISPUTED"
    /\ UNCHANGED <<terms, optedIn, usdc, box>>

(* Somebody sends USDC without calling the contract.                        *)
Donate(from, amount) ==
    /\ Transfer(from, App, amount)
    /\ UNCHANGED <<status, terms, optedIn, box>>

Next ==
    \E sender \in Accounts :
        \/ \E t \in Agreements : Initialise(sender, t)
        \/ OptInToUsdc(sender)
        \/ \E p \in Payment : Fund(sender, p)
        \/ Release(sender)
        \/ Refund(sender)
        \/ Dispute(sender)
        \/ sender \in Holders /\ \E n \in Amounts : Donate(sender, n)

Spec == Init /\ [][Next]_vars

-------------------------------------------------------------------------------
(* While money is owed it is there: the contract account always covers what *)
(* fund brought in, and in FUNDED and DISPUTED that is the agreed amount,   *)
(* whoever re-initialises, donates or disputes in between.                  *)
Backed ==
    /\ box <= usdc[App]
    /\ box = IF status \in {"FUNDED", "DISPUTED"} THEN terms.amount ELSE 0

(* The contract keeps the promise of an escrow: "all USDC transfers are     *)
(* enforced via inner transactions" (its docstring).                        *)
Promise == INSTANCE EscrowPromise WITH phase <- status

PromiseSpec == Promise!Spec
===============================================================================
