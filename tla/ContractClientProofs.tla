-------------------------- MODULE ContractClientProofs -------------------------
(***************************************************************************)
(* The contract's promise for every set of accounts and amounts, and then  *)
(* its client: whatever the client does to the contract, the contract could*)
(* have been told by its parties.  So the client's specification implements*)
(* the contract's, which brings the contract's theorems with it.           *)
(***************************************************************************)
EXTENDS ContractClient, TLAPS

IInv == TypeOK /\ Backed

(* A transfer keeps the balances natural numbers; the contract's own falls  *)
(* only in a transfer from it, and then by the amount.                      *)
LEMMA TransferMoves ==
    ASSUME TypeOK, EscrowAssumption,
           NEW from \in Holders \cup {App}, NEW to, NEW amount \in Nat,
           Transfer(from, to, amount)
    PROVE  /\ usdc' \in [Holders \cup {App} -> Nat]
           /\ to \in Holders \cup {App}
           /\ from # App => usdc'[App] >= usdc[App]
           /\ from # App /\ to = App => usdc'[App] = usdc[App] + amount
           /\ from = App => usdc[App] >= amount /\ usdc'[App] >= usdc[App] - amount
<1>1. to \in Holders \cup {App}
  BY DEF Transfer
<1>2. App \in Holders \cup {App}
  OBVIOUS
<1>3. usdc \in [Holders \cup {App} -> Nat] /\ amount <= usdc[from]
  BY DEF Transfer, TypeOK
<1>4. usdc' = [usdc EXCEPT ![from] = @ - amount, ![to] = @ + amount]
  BY DEF Transfer
<1>5. usdc' \in [Holders \cup {App} -> Nat]
  BY <1>1, <1>3, <1>4
<1>6. usdc'[App] = IF to = App THEN (IF from = App THEN usdc[App] - amount ELSE usdc[App]) + amount
                   ELSE IF from = App THEN usdc[App] - amount ELSE usdc[App]
  BY <1>1, <1>2, <1>3, <1>4
<1>7. usdc[App] \in Nat /\ usdc[from] \in Nat
  BY <1>2, <1>3
<1>8. QED
  BY <1>1, <1>3, <1>5, <1>6, <1>7

(* The contract starts empty.                                               *)
LEMMA InitHolds == ASSUME EscrowAssumption, Init PROVE IInv
<1>1. TypeOK
  BY DEF Init, TypeOK, EscrowAssumption, Terms, Addresses
<1>2. Backed
  BY DEF Init, Backed
<1>3. QED
  BY <1>1, <1>2 DEF IInv

(* A payout is made from FUNDED, takes exactly the box, and leaves the rest *)
(* of the contract's balance alone.                                         *)
LEMMA PayOutEmpties ==
    ASSUME IInv, EscrowAssumption, Funded, NEW to, PayOut(to),
           status' \in {"RELEASED", "REFUNDED"}
    PROVE  IInv' /\ box' = 0 /\ terms' = terms
<1>1. terms.amount \in Nat
  BY DEF IInv, TypeOK, Terms, EscrowAssumption
<1>2. box = terms.amount
  BY DEF IInv, Backed, Funded
<1>3. Transfer(App, to, terms.amount) /\ box' = box - terms.amount /\ UNCHANGED <<terms, optedIn>>
  BY DEF PayOut
<1>4. usdc' \in [Holders \cup {App} -> Nat]
  BY <1>1, <1>3, TransferMoves DEF IInv
<1>5. box' = 0
  BY <1>1, <1>2, <1>3
<1>6. usdc'[App] \in Nat
  BY <1>4
<1>7. TypeOK'
  BY <1>3, <1>4, <1>5 DEF IInv, TypeOK
<1>8. Backed'
  BY <1>5, <1>6 DEF Backed
<1>9. QED
  BY <1>3, <1>5, <1>7, <1>8 DEF IInv

(* A funding puts exactly the agreed amount into the box.                   *)
LEMMA FundFills ==
    ASSUME IInv, EscrowAssumption, NEW sender, NEW p \in Payment, Fund(sender, p)
    PROVE  IInv' /\ box' = terms.amount /\ terms' = terms
<1>1. terms.amount \in Nat /\ p.from \in Holders /\ p.from # App
  BY DEF IInv, TypeOK, Terms, EscrowAssumption, Payment
<1>2. p.to = App /\ p.isUsdc /\ p.amount = terms.amount /\ status = "PENDING" /\ status' = "FUNDED"
  BY DEF Fund, PaymentChecked
<1>3. Transfer(p.from, App, terms.amount) /\ UNCHANGED <<terms, optedIn>>
  BY <1>2 DEF Fund
<1>4. box = 0 /\ usdc[App] \in Nat
  BY <1>2 DEF IInv, Backed, TypeOK
<1>5. box' = terms.amount
  BY <1>1, <1>2, <1>4 DEF Fund
<1>6. usdc' \in [Holders \cup {App} -> Nat] /\ usdc'[App] = usdc[App] + terms.amount
  BY <1>1, <1>3, TransferMoves DEF IInv
<1>7. TypeOK'
  BY <1>1, <1>2, <1>3, <1>5, <1>6 DEF IInv, TypeOK
<1>8. Backed'
  BY <1>1, <1>2, <1>3, <1>4, <1>5, <1>6 DEF Backed
<1>9. QED
  BY <1>3, <1>5, <1>7, <1>8 DEF IInv

(* A donation only adds to the contract's balance.                          *)
LEMMA DonateAdds ==
    ASSUME IInv, EscrowAssumption, NEW from \in Holders, NEW n \in Amounts, Donate(from, n)
    PROVE  IInv'
<1>1. n \in Nat /\ from # App /\ Transfer(from, App, n) /\ UNCHANGED <<status, terms, optedIn, box>>
  BY DEF Donate, EscrowAssumption
<1>2. usdc' \in [Holders \cup {App} -> Nat] /\ usdc'[App] >= usdc[App]
  BY <1>1, TransferMoves DEF IInv
<1>3. box \in Nat /\ usdc[App] \in Nat /\ usdc'[App] \in Nat /\ box <= usdc[App]
  BY <1>2 DEF IInv, TypeOK, Backed
<1>4. QED
  BY <1>1, <1>2, <1>3 DEF IInv, TypeOK, Backed

(* Every method keeps the invariant.                                        *)
LEMMA NextKeeps == ASSUME EscrowAssumption, IInv, [Next]_vars PROVE IInv'
<1>1. CASE UNCHANGED vars
  BY <1>1 DEF vars, IInv, TypeOK, Backed
<1>2. ASSUME NEW sender \in Accounts,
             NEW t \in Agreements,
             Initialise(sender, t)
      PROVE  IInv'
  <2>1. t \in Terms
    BY <1>2 DEF Terms, Addresses, EscrowAssumption
  <2>2. QED
    BY <1>2, <2>1 DEF Initialise, IInv, TypeOK, Backed
<1>3. ASSUME NEW sender \in Accounts, OptInToUsdc(sender) PROVE IInv'
  BY <1>3 DEF OptInToUsdc, IInv, TypeOK, Backed
<1>4. ASSUME NEW sender \in Accounts, NEW p \in Payment, Fund(sender, p) PROVE IInv'
  BY <1>4, FundFills
<1>5. ASSUME NEW sender \in Accounts, Release(sender) PROVE IInv'
  BY <1>5, PayOutEmpties DEF Release
<1>6. ASSUME NEW sender \in Accounts, Refund(sender) PROVE IInv'
  BY <1>6, PayOutEmpties DEF Refund
<1>7. ASSUME NEW sender \in Accounts, Dispute(sender) PROVE IInv'
  BY <1>7 DEF Dispute, Funded, IInv, TypeOK, Backed
<1>8. ASSUME NEW sender \in Holders, NEW n \in Amounts, Donate(sender, n) PROVE IInv'
  BY <1>8, DonateAdds
<1>9. QED
  BY <1>1, <1>2, <1>3, <1>4, <1>5, <1>6, <1>7, <1>8 DEF Next

(* The invariant holds of every behaviour.                                  *)
LEMMA Invariance == Spec => []IInv
<1>1. EscrowAssumption
  BY EscrowAssumption
<1>2. Init => IInv
  BY <1>1, InitHolds
<1>3. IInv /\ [Next]_vars => IInv'
  BY <1>1, NextKeeps
<1>4. QED
  BY <1>2, <1>3, PTL DEF Spec

(* Status, terms, balances and box keep their types: no payout ever takes   *)
(* more than fund brought in (treasury_escrow.py).                          *)
THEOREM ContractTypeCorrect == Spec => []TypeOK
<1>1. IInv => TypeOK
  BY DEF IInv
<1>2. QED
  BY <1>1, Invariance, PTL

(* The contract always owns the money it owes, whoever calls what.          *)
THEOREM AlwaysBacked == Spec => []Backed
<1>1. IInv => Backed
  BY DEF IInv
<1>2. QED
  BY <1>1, Invariance, PTL

(* Every step of the contract is a step of the promise, or none.            *)
LEMMA StepsKeepPromise ==
    ASSUME EscrowAssumption, IInv, [Next]_vars PROVE [Promise!Next]_(Promise!vars)
<1> USE DEF Promise!vars
<1>1. CASE UNCHANGED vars
  BY <1>1 DEF vars
<1>2. ASSUME NEW sender \in Accounts,
             NEW t \in Agreements,
             Initialise(sender, t)
      PROVE  Promise!Agree
  BY <1>2 DEF Initialise, Promise!Agree, Terms, Addresses
<1>3. ASSUME NEW sender \in Accounts, OptInToUsdc(sender) PROVE UNCHANGED Promise!vars
  BY <1>3 DEF OptInToUsdc
<1>4. ASSUME NEW sender \in Accounts, NEW p \in Payment, Fund(sender, p) PROVE Promise!Hold
  BY <1>4, FundFills DEF Fund, Promise!Hold
<1>5. ASSUME NEW sender \in Accounts, Release(sender) PROVE Promise!Settle
  BY <1>5, PayOutEmpties DEF Release, Funded, Promise!Settle
<1>6. ASSUME NEW sender \in Accounts, Refund(sender) PROVE Promise!Settle
  BY <1>6, PayOutEmpties DEF Refund, Funded, Promise!Settle
<1>7. ASSUME NEW sender \in Accounts, Dispute(sender) PROVE Promise!Freeze
  BY <1>7 DEF Dispute, Funded, Promise!Freeze
<1>8. ASSUME NEW sender \in Holders, NEW n \in Amounts, Donate(sender, n)
      PROVE  UNCHANGED Promise!vars
  BY <1>8 DEF Donate
<1>9. QED
  BY <1>1, <1>2, <1>3, <1>4, <1>5, <1>6, <1>7, <1>8 DEF Next, Promise!Next

(* The contract keeps the promise of an escrow: terms fixed once it holds   *)
(* the money, exactly the agreed amount held, one payout of it at most.     *)
THEOREM KeepsPromise == Spec => PromiseSpec
<1>1. EscrowAssumption
  BY EscrowAssumption
<1>2. Init => Promise!Init
  BY <1>1 DEF Init, Promise!Init, Terms, Addresses, EscrowAssumption
<1>3. IInv /\ [Next]_vars => [Promise!Next]_(Promise!vars)
  BY <1>1, StepsKeepPromise
<1>4. QED
  BY <1>2, <1>3, Invariance, PTL DEF Spec, PromiseSpec, Promise!Spec

-------------------------------------------------------------------------------
(* The client.                                                              *)

(* A call in progress has a caller and the arguments of its method, and is  *)
(* at one of its transactions.                                              *)
WellFormed(job) ==
    job.pc # "idle" =>
        /\ job.method \in Methods /\ job.by \in Accounts
        /\ job.args \in Arguments(job.method)
        /\ job.txn \in 1..Len(Transactions[job.method])

JobsInv ==
    /\ DOMAIN jobs = Jobs
    /\ \A j \in Jobs :
          /\ DOMAIN jobs[j] = {"method", "by", "args", "seen", "txn", "pc", "answer"}
          /\ WellFormed(jobs[j])

(* How many transactions each client operation sends.                       *)
LEMMA LengthsKnown ==
    ASSUME NEW method \in Methods
    PROVE  Len(Transactions[method]) \in Nat \ {0}
BY DEF Methods, Transactions

(* init is sent by deploy_new_escrow only, and fund by fund_escrow.         *)
LEMMA WhoSends ==
    ASSUME NEW method \in Methods, NEW n \in 1..Len(Transactions[method])
    PROVE  /\ Transactions[method][n] = "init" => method = "deploy_new_escrow"
           /\ Transactions[method][n] = "fund" => method = "fund_escrow"
<1>1. method \in {"deploy_new_escrow", "deploy", "fund_escrow", "release_escrow",
                  "refund_escrow", "dispute_escrow", "get_escrow_status"}
  BY DEF Methods, Transactions
<1>2. CASE method = "deploy_new_escrow"
  <2>1. Transactions[method] = <<"create", "balance", "opt_in_to_usdc", "init">>
    BY <1>2 DEF Transactions
  <2>2. n \in 1..4
    BY <2>1
  <2>3. <<"create", "balance", "opt_in_to_usdc", "init">>[n] # "fund"
    BY <2>2
  <2>4. QED
    BY <1>2, <2>1, <2>3
<1>3. CASE method = "deploy"
  <2>1. Transactions[method] = <<"create", "balance", "opt_in_to_usdc">>
    BY <1>3 DEF Transactions
  <2>2. n \in 1..3
    BY <2>1
  <2>3. <<"create", "balance", "opt_in_to_usdc">>[n] \notin {"init", "fund"}
    BY <2>2
  <2>4. QED
    BY <2>1, <2>3
<1>4. ASSUME NEW name, Transactions[method] = <<name>> PROVE Transactions[method][n] = name
  BY <1>4
<1>5. CASE method = "fund_escrow"
  BY <1>5, <1>4 DEF Transactions
<1>6. CASE method \in {"release_escrow", "refund_escrow", "dispute_escrow", "get_escrow_status"}
  BY <1>6, <1>4 DEF Transactions
<1>7. QED
  BY <1>1, <1>2, <1>3, <1>5, <1>6

(* What a transaction does to the contract is a step of the contract.       *)
LEMMA EffectIsStep ==
    ASSUME JobsInv, NEW j \in Jobs, jobs[j].pc # "idle", Effect(jobs[j]),
           EscrowAssumption
    PROVE  [Next]_vars
<1> DEFINE job == jobs[j]
<1>1. job.method \in Methods /\ job.by \in Accounts /\ job.args \in Arguments(job.method)
      /\ job.txn \in 1..Len(Transactions[job.method])
  BY DEF JobsInv, WellFormed
<1>2. CASE UNCHANGED vars
  BY <1>2
<1>3. CASE OptInToUsdc(job.by)
  BY <1>1, <1>3 DEF Next
<1>4. CASE Transactions[job.method][job.txn] = "init" /\ Initialise(job.by, job.args)
  <2>1. job.method = "deploy_new_escrow"
    BY <1>1, <1>4, WhoSends
  <2>2. job.args \in Agreements
    BY <1>1, <2>1 DEF Arguments
  <2>3. QED
    BY <1>1, <1>4, <2>2 DEF Next
<1>5. CASE /\ job.by \in Holders
           /\ Fund(job.by, [from |-> job.by, to |-> App, isUsdc |-> TRUE, amount |-> job.args])
           /\ Transactions[job.method][job.txn] = "fund"
  <2>1. job.method = "fund_escrow"
    BY <1>1, <1>5, WhoSends
  <2>2. job.args \in Amounts
    BY <1>1, <2>1 DEF Arguments
  <2>3. [from |-> job.by, to |-> App, isUsdc |-> TRUE, amount |-> job.args] \in Payment
    BY <1>5, <2>2 DEF Payment
  <2>4. QED
    BY <1>1, <1>5, <2>3 DEF Next
<1>6. CASE Release(job.by)
  BY <1>1, <1>6 DEF Next
<1>7. CASE Refund(job.by)
  BY <1>1, <1>7 DEF Next
<1>8. CASE Dispute(job.by)
  BY <1>1, <1>8 DEF Next
<1>9. QED
  BY <1>2, <1>3, <1>4, <1>5, <1>6, <1>7, <1>8 DEF Effect

(* No job runs at the start.                                                *)
LEMMA ClientInitWellFormed == ASSUME ClientInit PROVE JobsInv
BY DEF ClientInit, JobsInv, WellFormed, Idle

(* A job that is changed in one of its fields stays well formed.            *)
LEMMA ClientNextKeeps == ASSUME JobsInv, [ClientNext]_clientVars PROVE JobsInv'
<1>1. CASE UNCHANGED clientVars
  BY <1>1 DEF clientVars, JobsInv, WellFormed
<1>2. ASSUME NEW j \in Jobs, NEW method \in Methods, NEW by \in Accounts,
             NEW args \in Arguments(method), Call(j, method, by, args)
      PROVE  JobsInv'
  <2>1. Len(Transactions[method]) \in Nat \ {0}
    BY LengthsKnown
  <2>2. QED
    BY <1>2, <2>1 DEF Call, Idle, JobsInv, WellFormed
<1>3. ASSUME NEW j \in Jobs, Send(j) PROVE JobsInv'
  BY <1>3 DEF Send, JobsInv, WellFormed
<1>4. ASSUME NEW j \in Jobs, Land(j) PROVE JobsInv'
  <2>1. jobs[j].method \in Methods /\ jobs[j].txn \in 1..Len(Transactions[jobs[j].method])
    BY <1>4 DEF Land, JobsInv, WellFormed
  <2>2. Len(Transactions[jobs[j].method]) \in Nat \ {0}
    BY <2>1, LengthsKnown
  <2>3. /\ DOMAIN jobs' = Jobs
        /\ \A k \in Jobs \ {j} : jobs'[k] = jobs[k]
    BY <1>4 DEF Land, JobsInv
  <2>4. /\ DOMAIN jobs'[j] = DOMAIN jobs[j]
        /\ \A field \in {"method", "by", "args"} : jobs'[j][field] = jobs[j][field]
        /\ jobs'[j].txn \in {jobs[j].txn, jobs[j].txn + 1}
        /\ jobs'[j].txn # jobs[j].txn => jobs[j].txn < Len(Transactions[jobs[j].method])
    BY <1>4 DEF Land, JobsInv
  <2>5. jobs[j].pc # "idle"
    BY <1>4 DEF Land
  <2>6. WellFormed(jobs'[j])
    BY <2>1, <2>2, <2>4, <2>5 DEF JobsInv, WellFormed
  <2>7. QED
    BY <2>3, <2>4, <2>6 DEF JobsInv, WellFormed
<1>5. ASSUME NEW j \in Jobs, Refuse(j) PROVE JobsInv'
  BY <1>5 DEF Refuse, JobsInv, WellFormed
<1>6. ASSUME NEW j \in Jobs, GiveUp(j) PROVE JobsInv'
  BY <1>6 DEF GiveUp, JobsInv, WellFormed
<1>7. CASE CallDirectly
  BY <1>7 DEF CallDirectly, JobsInv, WellFormed
<1>8. QED
  BY <1>1, <1>2, <1>3, <1>4, <1>5, <1>6, <1>7 DEF ClientNext

(* Each step of the client keeps the jobs well formed.                      *)
LEMMA ClientStepIsStep ==
    ASSUME EscrowAssumption, JobsInv, [ClientNext]_clientVars
    PROVE  [Next]_vars
<1>1. CASE UNCHANGED vars
  BY <1>1
<1>2. ASSUME NEW j \in Jobs, Land(j) PROVE [Next]_vars
  <2>1. jobs[j].pc # "idle" /\ Effect(jobs[j])
    BY <1>2 DEF Land
  <2>2. QED
    BY <2>1, EffectIsStep
<1>3. CASE CallDirectly
  BY <1>3 DEF CallDirectly
<1>4. QED
  BY <1>1, <1>2, <1>3 DEF ClientNext, clientVars, Call, Send, Refuse, GiveUp

(* Every behaviour of the contract under the client, with transactions that *)
(* are executed after their call gave up, is a behaviour of the contract.   *)
THEOREM ClientImplementsContract == ClientSpec => Spec
<1>1. EscrowAssumption
  BY EscrowAssumption
<1>2. ClientInit => Init /\ JobsInv
  BY ClientInitWellFormed DEF ClientInit
<1>3. JobsInv /\ [ClientNext]_clientVars => JobsInv'
  BY ClientNextKeeps
<1>4. JobsInv /\ [ClientNext]_clientVars => [Next]_vars
  BY <1>1, ClientStepIsStep
<1>5. QED
  BY <1>2, <1>3, <1>4, PTL DEF ClientSpec, Spec

(* So the contract owns the money it owes under the client too.             *)
THEOREM ClientAlwaysBacked == ClientSpec => []Backed
<1>1. QED
  BY ClientImplementsContract, AlwaysBacked, PTL

(* And it keeps the promise of an escrow.                                   *)
THEOREM ClientKeepsPromise == ClientSpec => PromiseSpec
<1>1. QED
  BY ClientImplementsContract, KeepsPromise, PTL
-------------------------------------------------------------------------------
(* What a call has reported stays true.                                     *)

(* What ReturnedIsDone asks of a call that returned, where the application  *)
(* exists or not, has opted in or not, and has a status.                    *)
Kept(job, exists, ready, now) ==
    /\ job.method \in Deployments => exists /\ ready
    /\ job.method = "fund_escrow" => now \in Later("FUNDED")
    /\ job.method = "release_escrow" => now = "RELEASED"
    /\ job.method = "refund_escrow" => now = "REFUNDED"
    /\ job.method = "dispute_escrow" => now = "DISPUTED"
    /\ job.method = "get_escrow_status" => job.answer = None \/ now \in Later(job.answer)

(* A deployment past its first transaction has an application, past its     *)
(* third one that is opted in; a status is answered on return only.         *)
Progress(job, exists, ready, now) ==
    /\ job.pc \in {"next", "sent", "left"} => job.answer = None
    /\ job.pc # "idle" /\ job.method \in Deployments =>
          (job.txn > 1 => exists) /\ (job.txn > 3 => ready)
    /\ job.pc = "returned" => Kept(job, exists, ready, now)

ProgressInv == \A j \in Jobs : Progress(jobs[j], created, optedIn, status)

(* The transactions of a deployment, and the one of every other method.     *)
LEMMA TransactionNames ==
    /\ \A m \in Deployments :
          /\ Len(Transactions[m]) \in {3, 4}
          /\ Transactions[m][1] = "create" /\ Transactions[m][2] = "balance"
          /\ Transactions[m][3] = "opt_in_to_usdc"
          /\ Len(Transactions[m]) = 4 => Transactions[m][4] = "init"
    /\ \A m \in Methods \ Deployments : Len(Transactions[m]) = 1
    /\ Transactions["fund_escrow"][1] = "fund"
    /\ Transactions["release_escrow"][1] = "release"
    /\ Transactions["refund_escrow"][1] = "refund"
    /\ Transactions["dispute_escrow"][1] = "dispute"
    /\ Transactions["get_escrow_status"][1] = "get_details"
<1>1. /\ Transactions["deploy"] = <<"create", "balance", "opt_in_to_usdc">>
      /\ Transactions["deploy_new_escrow"] = <<"create", "balance", "opt_in_to_usdc", "init">>
  BY DEF Transactions
<1>2. /\ Len(Transactions["deploy"]) = 3 /\ Len(Transactions["deploy_new_escrow"]) = 4
      /\ \A m \in Deployments :
            /\ Transactions[m][1] = "create" /\ Transactions[m][2] = "balance"
            /\ Transactions[m][3] = "opt_in_to_usdc"
      /\ Transactions["deploy_new_escrow"][4] = "init"
  BY <1>1 DEF Deployments
<1>3. /\ Transactions["fund_escrow"] = <<"fund">>
      /\ Transactions["release_escrow"] = <<"release">>
      /\ Transactions["refund_escrow"] = <<"refund">>
      /\ Transactions["dispute_escrow"] = <<"dispute">>
      /\ Transactions["get_escrow_status"] = <<"get_details">>
  BY DEF Transactions
<1>4. Methods \ Deployments = {"fund_escrow", "release_escrow", "refund_escrow",
                               "dispute_escrow", "get_escrow_status"}
  BY DEF Methods, Transactions, Deployments
<1>5. \A m \in Methods \ Deployments : Len(Transactions[m]) = 1
  BY <1>3, <1>4
<1> QED  BY <1>2, <1>3, <1>5 DEF Deployments

(* A status only moves on, and so do two moves in a row.                    *)
LEMMA LaterTransitive ==
    ASSUME NEW a, NEW b \in Later(a), NEW c \in Later(b)
    PROVE  c \in Later(a)
BY DEF Later, Terminal

(* Every step of the contract moves its status on, and an opt-in stays.     *)
LEMMA StatusMovesOn ==
    ASSUME [Next]_vars
    PROVE  status' \in Later(status) /\ (optedIn => optedIn')
<1>1. \A s : s \in Later(s)
  BY DEF Later, Terminal
<1>2. CASE UNCHANGED <<status, optedIn>>
  BY <1>1, <1>2
<1>3. ASSUME NEW sender, NEW p, Fund(sender, p)
      PROVE  status' \in Later(status) /\ (optedIn => optedIn')
  BY <1>3 DEF Fund, Later
<1>4. ASSUME NEW sender, Release(sender) \/ Refund(sender) \/ Dispute(sender)
      PROVE  status' \in Later(status) /\ (optedIn => optedIn')
  BY <1>4 DEF Release, Refund, Dispute, Funded, PayOut, Later, Terminal
<1>5. ASSUME NEW sender, OptInToUsdc(sender)
      PROVE  status' \in Later(status) /\ (optedIn => optedIn')
  BY <1>1, <1>5 DEF OptInToUsdc
<1>6. ASSUME NEW sender, NEW t, Initialise(sender, t) PROVE UNCHANGED <<status, optedIn>>
  BY <1>6 DEF Initialise
<1>7. ASSUME NEW sender, NEW n, Donate(sender, n) PROVE UNCHANGED <<status, optedIn>>
  BY <1>7 DEF Donate
<1> QED
  BY <1>2, <1>3, <1>4, <1>5, <1>6, <1>7 DEF Next, vars

(* What was done stays done whatever anybody does next.                     *)
LEMMA ProgressKept ==
    ASSUME [Next]_vars, created => created', NEW job, Progress(job, created, optedIn, status)
    PROVE  Progress(job, created', optedIn', status')
<1>1. status' \in Later(status) /\ (optedIn => optedIn')
  BY StatusMovesOn
<1>2. \A x : status \in Later(x) => status' \in Later(x)
  BY <1>1, LaterTransitive
<1>3. status \in Terminal => status' = status
  BY <1>1 DEF Later, Terminal
<1>4. Kept(job, created, optedIn, status) => Kept(job, created', optedIn', status')
  BY <1>1, <1>2, <1>3 DEF Kept, Terminal
<1> QED  BY <1>1, <1>4 DEF Progress

(* A transaction that is executed while the client waits takes its call one *)
(* transaction further, or lets it return what is so.                       *)
LEMMA LandedProgress ==
    ASSUME JobsInv, ProgressInv, NEW j \in Jobs, Land(j)
    PROVE  Progress(jobs'[j], created', optedIn', status')
<1> DEFINE job == jobs[j]
           new == jobs'[j]
<1>1. /\ job.method \in Methods /\ job.txn \in 1..Len(Transactions[job.method])
      /\ job.pc \in {"sent", "left"} /\ Progress(job, created, optedIn, status) /\ Effect(job)
  BY DEF Land, JobsInv, WellFormed, ProgressInv
<1>2. /\ new.method = job.method
      /\ new.pc = IF job.pc = "left" THEN "raised" ELSE AfterConfirming(job)
      /\ new.txn = IF job.pc = "sent" /\ job.txn < Len(Transactions[job.method])
                   THEN job.txn + 1 ELSE job.txn
      /\ new.answer = IF job.method = "get_escrow_status" /\ job.pc = "sent" THEN status ELSE None
  BY DEF Land, JobsInv
<1>3. created => created'
  BY <1>1 DEF Effect
<1>4. [Next]_vars
  BY <1>1, EffectIsStep, EscrowAssumption
<1>5. status' \in Later(status) /\ (optedIn => optedIn')
  BY <1>4, StatusMovesOn
<1>6. CASE job.method \in Deployments
  <2>1. /\ Len(Transactions[job.method]) \in {3, 4} /\ job.txn \in {1, 2, 3, 4}
        /\ Transactions[job.method][1] = "create" /\ Transactions[job.method][3] = "opt_in_to_usdc"
    <3>1. /\ Len(Transactions[job.method]) \in {3, 4}
          /\ Transactions[job.method][1] = "create"
          /\ Transactions[job.method][3] = "opt_in_to_usdc"
      BY <1>6, TransactionNames
    <3>2. \A len \in {3, 4} : \A n \in 1..len : n \in {1, 2, 3, 4}
      OBVIOUS
    <3>3. job.txn \in {1, 2, 3, 4}
      BY <1>1, <3>1, <3>2
    <3> QED  BY <3>1, <3>3
  <2>2. (job.txn > 1 => created') /\ (job.txn > 3 => optedIn')
    BY <1>1, <1>3, <1>5, <1>6 DEF Progress
  <2>3. job.txn = 1 => created'
    BY <1>1, <2>1 DEF Effect
  <2>4. job.txn = 3 => optedIn'
    BY <1>1, <2>1 DEF Effect, OptInToUsdc
  <2>5. created' /\ (job.txn >= 3 => optedIn')
    BY <2>1, <2>2, <2>3, <2>4
  <2>6. new.pc = "returned" => job.txn >= 3
    BY <1>1, <1>2, <2>1 DEF AfterConfirming
  <2>7. new.txn > 3 => job.txn >= 3
    BY <1>2, <2>1
  <2>8. new.pc \notin {"returned"} => new.pc \in {"next", "raised"} /\ new.answer = None
    BY <1>1, <1>2, <1>6 DEF AfterConfirming, Deployments
  <2>9. ASSUME new.pc = "returned" PROVE Kept(new, created', optedIn', status')
    <3>1. created' /\ optedIn' /\ new.method \in Deployments
      BY <1>2, <1>6, <2>5, <2>6, <2>9
    <3> QED  BY <3>1 DEF Kept, Deployments
  <2> QED  BY <1>2, <2>5, <2>6, <2>7, <2>8, <2>9 DEF Progress
<1>7. CASE job.method \notin Deployments
  <2>1. Len(Transactions[job.method]) = 1 /\ job.txn = 1
    <3>1. Len(Transactions[job.method]) = 1
      BY <1>1, <1>7, TransactionNames
    <3> QED  BY <1>1, <3>1
  <2>2. new.pc \in {"returned", "raised"} /\ (new.pc = "returned" => job.pc = "sent")
    BY <1>1, <1>2, <2>1 DEF AfterConfirming
  <2>3. ASSUME job.pc = "sent" PROVE Kept(new, created', optedIn', status')
    <3>1. CASE job.method = "fund_escrow"
      <4>1. status' = "FUNDED"
        BY <1>1, <2>1, <3>1, TransactionNames DEF Effect, Fund
      <4> QED  BY <1>2, <3>1, <4>1 DEF Kept, Deployments, Later
    <3>2. CASE job.method = "release_escrow"
      <4>1. status' = "RELEASED"
        BY <1>1, <2>1, <3>2, TransactionNames DEF Effect, Release
      <4> QED  BY <1>2, <3>2, <4>1 DEF Kept, Deployments
    <3>3. CASE job.method = "refund_escrow"
      <4>1. status' = "REFUNDED"
        BY <1>1, <2>1, <3>3, TransactionNames DEF Effect, Refund
      <4> QED  BY <1>2, <3>3, <4>1 DEF Kept, Deployments
    <3>4. CASE job.method = "dispute_escrow"
      <4>1. status' = "DISPUTED"
        BY <1>1, <2>1, <3>4, TransactionNames DEF Effect, Dispute
      <4> QED  BY <1>2, <3>4, <4>1 DEF Kept, Deployments
    <3>5. CASE job.method = "get_escrow_status"
      <4>1. new.answer = status
        BY <1>2, <2>3, <3>5
      <4> QED  BY <1>2, <1>5, <3>5, <4>1 DEF Kept, Deployments
    <3> QED
      BY <1>1, <1>7, <3>1, <3>2, <3>3, <3>4, <3>5 DEF Methods, Transactions, Deployments
  <2> QED  BY <1>2, <1>7, <2>2, <2>3 DEF Progress
<1> QED  BY <1>6, <1>7

(* Every step of a call, of another call or of a party keeps ProgressInv.   *)
LEMMA ProgressStep ==
    ASSUME JobsInv, ProgressInv, [ClientNext]_clientVars
    PROVE  ProgressInv'
<1> DEFINE Good(job) == Progress(job, created', optedIn', status')
<1>1. [Next]_vars
  BY ClientStepIsStep, EscrowAssumption
<1>2. created => created'
  BY DEF ClientNext, clientVars, Call, Send, Land, Effect, Refuse, GiveUp, CallDirectly
<1>3. \A k \in Jobs : Good(jobs[k])
  BY <1>1, <1>2, ProgressKept DEF ProgressInv
<1>4. ASSUME NEW j \in Jobs, Good(jobs'[j]), \A k \in Jobs \ {j} : jobs'[k] = jobs[k]
      PROVE  ProgressInv'
  BY <1>3, <1>4 DEF ProgressInv
<1>5. ASSUME UNCHANGED jobs PROVE ProgressInv'
  BY <1>3, <1>5 DEF ProgressInv
<1>6. ASSUME NEW j \in Jobs, NEW method \in Methods, NEW by, NEW args, Call(j, method, by, args)
      PROVE  ProgressInv'
  <2>1. /\ \A k \in Jobs \ {j} : jobs'[k] = jobs[k]
        /\ jobs'[j].pc = "next" /\ jobs'[j].answer = None /\ jobs'[j].txn = 1
    BY <1>6 DEF Call, Idle, JobsInv
  <2> QED  BY <1>4, <2>1 DEF Progress
<1>7. ASSUME NEW j \in Jobs, Send(j) \/ GiveUp(j) PROVE ProgressInv'
  <2>1. /\ \A k \in Jobs \ {j} : jobs'[k] = jobs[k]
        /\ jobs[j].pc \in {"next", "sent"} /\ jobs'[j].pc \in {"sent", "left"}
        /\ jobs'[j].answer = jobs[j].answer /\ jobs'[j].txn = jobs[j].txn
        /\ jobs'[j].method = jobs[j].method
    BY <1>7 DEF Send, GiveUp, JobsInv
  <2> QED  BY <1>3, <1>4, <2>1 DEF Progress
<1>8. ASSUME NEW j \in Jobs, Refuse(j) PROVE ProgressInv'
  <2>1. /\ \A k \in Jobs \ {j} : jobs'[k] = jobs[k]
        /\ jobs[j].pc \in {"sent", "left"}
        /\ jobs'[j].pc = IF jobs[j].method = "get_escrow_status" THEN "returned" ELSE "raised"
        /\ jobs'[j].answer = jobs[j].answer /\ jobs'[j].txn = jobs[j].txn
        /\ jobs'[j].method = jobs[j].method
    BY <1>8 DEF Refuse, JobsInv
  <2>2. jobs[j].answer = None
    BY <1>3, <2>1 DEF Progress
  <2>3. jobs'[j].pc = "returned" => Kept(jobs'[j], created', optedIn', status')
    BY <2>1, <2>2 DEF Kept, Deployments
  <2> QED  BY <1>3, <1>4, <2>1, <2>3 DEF Progress
<1>9. ASSUME NEW j \in Jobs, Land(j) PROVE ProgressInv'
  <2>1. \A k \in Jobs \ {j} : jobs'[k] = jobs[k]
    BY <1>9 DEF Land, JobsInv
  <2> QED  BY <1>4, <1>9, <2>1, LandedProgress
<1> QED
  BY <1>5, <1>6, <1>7, <1>8, <1>9 DEF ClientNext, clientVars, CallDirectly

(* ReturnedIsDone, for every number of calls in flight: transactions that   *)
(* are executed after their call gave up can only move the status on, and   *)
(* what a method reported is closed under moving on.                        *)
THEOREM ReturnedStaysDone == ClientSpec => []ReturnedIsDone
<1>1. ClientInit => JobsInv /\ ProgressInv
  <2> SUFFICES ASSUME ClientInit PROVE JobsInv /\ ProgressInv
    OBVIOUS
  <2>1. \A j \in Jobs : jobs[j].pc = "idle"
    BY DEF ClientInit, Idle
  <2> QED  BY <2>1, ClientInitWellFormed DEF ProgressInv, Progress
<1>2. JobsInv /\ ProgressInv /\ [ClientNext]_clientVars => JobsInv' /\ ProgressInv'
  BY ClientNextKeeps, ProgressStep
<1>3. ASSUME JobsInv, ProgressInv PROVE ReturnedIsDone
  <2>1. ASSUME NEW j \in Jobs, jobs[j].pc = "returned"
        PROVE  /\ Kept(jobs[j], created, optedIn, status)
               /\ jobs[j].method \in Methods
    BY <1>3, <2>1 DEF ProgressInv, Progress, JobsInv, WellFormed
  <2>2. Methods = Deployments \cup {"fund_escrow", "release_escrow", "refund_escrow",
                                   "dispute_escrow", "get_escrow_status"}
    BY DEF Methods, Transactions, Deployments
  <2> QED  BY <2>1, <2>2 DEF Kept, Deployments, ReturnedIsDone
<1> QED  BY <1>1, <1>2, <1>3, PTL DEF ClientSpec
===============================================================================
