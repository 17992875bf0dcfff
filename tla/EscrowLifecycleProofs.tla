------------------------- MODULE EscrowLifecycleProofs -------------------------
(***************************************************************************)
(* The row, the application and the requests between them, for every       *)
(* number of clients and of faults.                                        *)
(***************************************************************************)
EXTENDS EscrowLifecycle, TLAPS

Committing(c, op) == At(c, "commit") /\ req[c].op = op

(* A request that waits to commit brings news that is still true: the       *)
(* application has left PENDING, or is settled the way it says, and its     *)
(* settlement is not recorded yet.                                          *)
NewsIsTrue ==
    \A c \in Clients :
        /\ Committing(c, "fund") => app.status # "PENDING"
        /\ Committing(c, "release") => app.status = "RELEASED" /\ settlements = 0
        /\ Committing(c, "refund") => app.status = "REFUNDED"

(* No two requests bring the same news.                                     *)
OneBearer ==
    \A c, d \in Clients, op \in Operations :
        Committing(c, op) /\ Committing(d, op) => c = d

(* What a row that lags behind waits for, while there are no faults.        *)
LagsForAReason ==
    faults = 0 =>
        /\ floating = {}
        /\ app.status # "DISPUTED"
        /\ \A c \in Clients : At(c, "call") /\ req[c].op = "release" => row # "DEPLOYED"
        /\ app.status = "PENDING" => row = "DEPLOYED"
        /\ app.status = "FUNDED" =>
              \/ row = "FUNDED" /\ \A c \in Clients : ~Committing(c, "fund")
              \/ row = "DEPLOYED" /\ \E c \in Clients : Committing(c, "fund")
        /\ app.status = "RELEASED" =>
              /\ \A c \in Clients : ~Committing(c, "fund")
              /\ \/ row = "RELEASED"
                 \/ row = "FUNDED" /\ \E c \in Clients : Committing(c, "release")
        /\ app.status = "REFUNDED" /\ row = "DEPLOYED" =>
              \E c \in Clients : Committing(c, "refund")

IInv ==
    /\ TypeOK
    /\ RowNeverAhead
    /\ SettledOnce
    /\ PaidOnce
    /\ NewsIsTrue
    /\ OneBearer
    /\ LagsForAReason

(* What the manager sends along is one of the payments a call may bring.    *)
LEMMA ManagerPays == \A op : Payments(op) \in 0 .. Payments(op)
BY DEF Payments

(* What a confirmed transaction does to the application.                    *)
LEMMA Executed ==
    ASSUME TypeOK, PaidOnce, NEW op \in Operations \cup {"dispute"}, NEW sender,
           Allowed(op, sender), NEW payments \in 0 .. Payments(op), Execute(op, payments)
    PROVE  /\ app.status = IF op = "fund" THEN "PENDING" ELSE "FUNDED"
           /\ app'.status = Result(op)
           /\ app' \in [status : AppStatus, buyer : Addresses \cup {NoAddress},
                        seller : Addresses \cup {NoAddress},
                        platform : Addresses \cup {NoAddress}]
           /\ paid' \in {0, 1}
<1>1. app.status = IF op = "fund" THEN "PENDING" ELSE "FUNDED"
  BY DEF Allowed, Needed
<1>2. app' = [app EXCEPT !.status = Result(op)] /\ Result(op) \in AppStatus
  BY DEF Execute, Result, Operations, AppStatus
<1>3. app'.status = Result(op)
  BY <1>2 DEF TypeOK
<1>4. app' \in [status : AppStatus, buyer : Addresses \cup {NoAddress},
                seller : Addresses \cup {NoAddress}, platform : Addresses \cup {NoAddress}]
  BY <1>2 DEF TypeOK
<1>5. paid' \in {0, 1}
  <2>1. paid \in Nat /\ paid <= 1 /\ paid' = paid + payments
    BY DEF TypeOK, PaidOnce, Execute
  <2>2. CASE op = "fund"
    <3>1. paid = 0 /\ payments \in 0 .. 1
      BY <1>1, <2>2 DEF PaidOnce, Payments
    <3> QED  BY <2>1, <3>1
  <2>3. CASE op # "fund"
    <3>1. payments = 0
      BY <2>3 DEF Payments
    <3> QED  BY <2>1, <3>1
  <2> QED  BY <2>2, <2>3
<1>6. QED
  BY <1>1, <1>3, <1>4, <1>5

(* What moving one request does to the others.                              *)
LEMMA Gone ==
    ASSUME TypeOK, NEW c \in Clients, NEW place \in {"idle", "call", "commit"}, Go(c, place)
    PROVE  /\ req' \in [Clients -> [at : {"idle", "call", "commit"}, op : Operations]]
           /\ \A d \in Clients : req'[d].op = req[d].op
           /\ \A d \in Clients : req'[d].at = IF d = c THEN place ELSE req[d].at
  BY DEF TypeOK, Go

(* The invariant holds of a session without an escrow.                      *)
LEMMA InitHolds == ASSUME LifecycleAssumption, Init PROVE IInv
<1>1. TypeOK
  BY DEF Init, TypeOK, LifecycleAssumption, Operations, AppStatus
<1>2. RowNeverAhead /\ SettledOnce /\ PaidOnce
  BY DEF Init, RowNeverAhead, SettledOnce, PaidOnce
<1>3. NewsIsTrue /\ OneBearer /\ LagsForAReason
  BY DEF Init, NewsIsTrue, OneBearer, LagsForAReason, Committing, At
<1>4. QED
  BY <1>1, <1>2, <1>3 DEF IInv

(* Steps that leave the application, the row and the waiting commits alone. *)
LEMMA InitialiseKeeps ==
    ASSUME IInv, NEW buyer \in {Creator, Funder}, NEW platform \in {Creator, Funder},
           Initialise(buyer, platform)
    PROVE  IInv'
<1>1. app'.status = app.status /\ UNCHANGED <<paid, row, settlements, req, floating, faults>>
  BY DEF Initialise
<1>2. TypeOK'
  BY <1>1 DEF Initialise, IInv, TypeOK, AppStatus, Addresses
<1>3. RowNeverAhead' /\ SettledOnce' /\ PaidOnce'
  BY <1>1 DEF IInv, RowNeverAhead, SettledOnce, PaidOnce
<1>4. NewsIsTrue' /\ OneBearer' /\ LagsForAReason'
  BY <1>1 DEF IInv, NewsIsTrue, OneBearer, LagsForAReason, Committing, At
<1>5. QED
  BY <1>2, <1>3, <1>4 DEF IInv

(* A step of a route or of the client keeps the invariant.                  *)
LEMMA RequestKeeps ==
    ASSUME IInv, NEW c \in Clients, NEW op \in Operations, Request(c, op)
    PROVE  IInv'
<1>1. UNCHANGED <<app, paid, row, settlements, floating, faults>>
  BY DEF Request
<1>2. /\ req' \in [Clients -> [at : {"idle", "call", "commit"}, op : Operations]]
      /\ req'[c] = [at |-> "call", op |-> op]
      /\ \A d \in Clients : d # c => req'[d] = req[d]
  BY DEF Request, IInv, TypeOK
<1>3. \A d \in Clients, o \in Operations : Committing(d, o)' <=> Committing(d, o)
  BY <1>2 DEF Request, Committing, At
<1>4. TypeOK'
  BY <1>1, <1>2 DEF IInv, TypeOK
<1>5. RowNeverAhead' /\ SettledOnce' /\ PaidOnce'
  BY <1>1 DEF IInv, RowNeverAhead, SettledOnce, PaidOnce
<1>6. NewsIsTrue' /\ OneBearer'
  BY <1>1, <1>3 DEF IInv, NewsIsTrue, OneBearer, Operations
<1>7. op = "release" => row # "DEPLOYED"
  BY DEF Request, Admitted
<1>8. LagsForAReason'
  BY <1>1, <1>2, <1>3, <1>7 DEF IInv, LagsForAReason, At, Operations
<1>9. QED
  BY <1>4, <1>5, <1>6, <1>8 DEF IInv

(* A request that fails leaves everything to the others; only a fault can   *)
(* drop a commit.                                                           *)
LEMMA DropKeeps ==
    ASSUME IInv, LifecycleAssumption, NEW c \in Clients, Go(c, "idle"),
           UNCHANGED <<app, paid, row, settlements>>,
           floating' \subseteq Operations,
           \/ At(c, "call") /\ UNCHANGED <<floating, faults>>
           \/ faults < MaxFaults /\ faults' = faults + 1
    PROVE  IInv'
<1>1. /\ req' \in [Clients -> [at : {"idle", "call", "commit"}, op : Operations]]
      /\ \A d \in Clients : req'[d].op = req[d].op
      /\ \A d \in Clients : req'[d].at = IF d = c THEN "idle" ELSE req[d].at
  BY Gone DEF IInv
<1>2. \A d \in Clients, o \in Operations : Committing(d, o)' => Committing(d, o)
  BY <1>1 DEF Committing, At
<1>3. faults' \in 0 .. MaxFaults /\ (faults' = 0 => At(c, "call") /\ UNCHANGED <<floating, faults>>)
  BY DEF IInv, TypeOK, LifecycleAssumption
<1>4. TypeOK'
  BY <1>1, <1>3 DEF IInv, TypeOK
<1>5. RowNeverAhead' /\ SettledOnce' /\ PaidOnce'
  BY DEF IInv, RowNeverAhead, SettledOnce, PaidOnce
<1>6. NewsIsTrue' /\ OneBearer'
  BY <1>2 DEF IInv, NewsIsTrue, OneBearer, Operations
<1>7. ASSUME faults' = 0 PROVE LagsForAReason'
  <2>1. \A d \in Clients, o \in Operations : Committing(d, o)' <=> Committing(d, o)
    BY <1>1, <1>3, <1>7 DEF Committing, At
  <2>2. QED
    BY <1>1, <1>3, <1>7, <2>1 DEF IInv, LagsForAReason, At, Operations
<1>8. LagsForAReason'
  BY <1>7 DEF LagsForAReason
<1>9. QED
  BY <1>4, <1>5, <1>6, <1>8 DEF IInv

(* A confirmation moves the application, and one request at most comes to   *)
(* know of it.                                                              *)
LEMMA ConfirmKeeps ==
    ASSUME IInv, NEW c \in Clients, Confirm(c)
    PROVE  IInv'
<1> DEFINE op == req[c].op
<1>1. op \in Operations /\ At(c, "call")
  BY DEF Confirm, IInv, TypeOK
<1>2. /\ app.status = IF op = "fund" THEN "PENDING" ELSE "FUNDED"
      /\ app'.status = Result(op)
      /\ app' \in [status : AppStatus, buyer : Addresses \cup {NoAddress},
                   seller : Addresses \cup {NoAddress}, platform : Addresses \cup {NoAddress}]
      /\ paid' \in {0, 1}
  BY <1>1, Executed, ManagerPays DEF Confirm, IInv
<1>3. UNCHANGED <<row, settlements, floating, faults>> /\ Go(c, "commit")
  BY DEF Confirm
<1>4. /\ req' \in [Clients -> [at : {"idle", "call", "commit"}, op : Operations]]
      /\ \A d \in Clients : req'[d].op = req[d].op
      /\ \A d \in Clients : req'[d].at = IF d = c THEN "commit" ELSE req[d].at
  BY <1>3, Gone DEF IInv
<1>5. \A d \in Clients, o \in Operations :
          Committing(d, o)' <=> (Committing(d, o) \/ (d = c /\ o = op))
  BY <1>1, <1>4 DEF Committing, At
<1>6. \/ op = "fund" /\ app'.status = "FUNDED"
      \/ op = "release" /\ app'.status = "RELEASED"
      \/ op = "refund" /\ app'.status = "REFUNDED"
  BY <1>1, <1>2 DEF Result, Operations
<1>7. TypeOK'
  BY <1>2, <1>3, <1>4 DEF IInv, TypeOK
<1>8. RowNeverAhead' /\ PaidOnce'
  BY <1>2, <1>3, <1>6 DEF IInv, RowNeverAhead, PaidOnce
<1>9. settlements = 0
  BY <1>2 DEF IInv, TypeOK, SettledOnce
<1>10. SettledOnce'
  BY <1>3, <1>9 DEF SettledOnce
<1>11. \A d \in Clients : ~Committing(d, op)
  BY <1>2, <1>6 DEF IInv, NewsIsTrue
<1>12. \A d \in Clients : ~Committing(d, "release") /\ ~Committing(d, "refund")
  BY <1>2 DEF IInv, NewsIsTrue
<1>13. NewsIsTrue'
  BY <1>1, <1>3, <1>5, <1>6, <1>9, <1>12 DEF NewsIsTrue, Operations
<1>14. OneBearer'
  BY <1>1, <1>5, <1>11 DEF IInv, OneBearer
<1>15. ASSUME faults = 0 PROVE LagsForAReason'
  <2>1. floating' = {} /\ \A d \in Clients : At(d, "call")' => At(d, "call")
    BY <1>3, <1>4, <1>15 DEF IInv, LagsForAReason, At
  <2>2. \A d \in Clients : At(d, "call")' /\ req'[d].op = "release" => row' # "DEPLOYED"
    BY <1>3, <1>4, <1>15, <2>1 DEF IInv, LagsForAReason
  <2>3. CASE op = "fund"
    BY <1>1, <1>2, <1>3, <1>5, <1>6, <1>15, <2>1, <2>2, <2>3 DEF IInv, LagsForAReason, Operations
  <2>4. CASE op = "release"
    <3>1. row # "DEPLOYED"
      BY <1>1, <1>15, <2>4 DEF IInv, LagsForAReason
    <3>2. row = "FUNDED" /\ \A d \in Clients : ~Committing(d, "fund")
      BY <1>2, <1>15, <2>4, <3>1 DEF IInv, LagsForAReason
    <3>3. row' = "FUNDED" /\ \A d \in Clients : ~Committing(d, "fund")'
      BY <1>3, <1>5, <2>4, <3>2 DEF Operations
    <3>4. Committing(c, "release")'
      BY <1>1, <1>5, <2>4
    <3>5. QED
      BY <1>6, <2>1, <2>2, <2>4, <3>3, <3>4 DEF LagsForAReason
  <2>5. CASE op = "refund"
    <3>1. Committing(c, "refund")'
      BY <1>1, <1>5, <2>5
    <3>2. QED
      BY <1>6, <2>1, <2>2, <2>5, <3>1 DEF LagsForAReason
  <2>6. QED
    BY <1>1, <2>3, <2>4, <2>5 DEF Operations
<1>16. LagsForAReason'
  BY <1>3, <1>15 DEF LagsForAReason
<1>17. QED
  BY <1>7, <1>8, <1>10, <1>13, <1>14, <1>16 DEF IInv

(* A transaction confirmed behind the requests' backs.                      *)
LEMMA UnseenKeeps ==
    ASSUME IInv, NEW op \in Operations \cup {"dispute"}, NEW sender,
           Allowed(op, sender), NEW payments \in 0 .. Payments(op), Execute(op, payments),
           UNCHANGED <<row, settlements, req>>,
           floating' \subseteq Operations, faults' \in 0 .. MaxFaults, faults' # 0
    PROVE  IInv'
<1>1. /\ app.status = IF op = "fund" THEN "PENDING" ELSE "FUNDED"
      /\ app'.status = Result(op)
      /\ app' \in [status : AppStatus, buyer : Addresses \cup {NoAddress},
                   seller : Addresses \cup {NoAddress}, platform : Addresses \cup {NoAddress}]
      /\ paid' \in {0, 1}
  BY Executed DEF IInv
<1>2. app'.status # "PENDING" /\ (op = "fund" => app'.status = "FUNDED")
  BY <1>1 DEF Result, Operations
<1>3. TypeOK'
  BY <1>1 DEF IInv, TypeOK
<1>4. RowNeverAhead' /\ PaidOnce'
  BY <1>1, <1>2 DEF IInv, RowNeverAhead, PaidOnce
<1>5. settlements = 0
  BY <1>1 DEF IInv, TypeOK, SettledOnce
<1>6. SettledOnce'
  BY <1>5 DEF SettledOnce
<1>7. NewsIsTrue' /\ OneBearer'
  BY <1>1, <1>2 DEF IInv, NewsIsTrue, OneBearer, Committing, At
<1>8. LagsForAReason'
  BY DEF LagsForAReason
<1>9. QED
  BY <1>3, <1>4, <1>6, <1>7, <1>8 DEF IInv

(* The commit writes its news to the row.                                   *)
LEMMA CommitKeeps ==
    ASSUME IInv, NEW c \in Clients, Commit(c)
    PROVE  IInv'
<1> DEFINE op == req[c].op
<1>1. op \in Operations /\ Committing(c, op)
  BY DEF Commit, IInv, TypeOK, Committing
<1>2. /\ row' = Result(op)
      /\ settlements' = IF op = "release" THEN settlements + 1 ELSE settlements
      /\ UNCHANGED <<app, paid, floating, faults>>
      /\ Go(c, "idle")
  BY DEF Commit
<1>3. /\ req' \in [Clients -> [at : {"idle", "call", "commit"}, op : Operations]]
      /\ \A d \in Clients : req'[d].op = req[d].op
      /\ \A d \in Clients : req'[d].at = IF d = c THEN "idle" ELSE req[d].at
  BY <1>2, Gone DEF IInv
<1>4. \A d \in Clients, o \in Operations : Committing(d, o)' <=> (Committing(d, o) /\ d # c)
  BY <1>3 DEF Committing, At
<1>5. \/ op = "fund" /\ row' = "FUNDED" /\ app.status # "PENDING" /\ settlements' = settlements
      \/ op = "release" /\ row' = "RELEASED" /\ app.status = "RELEASED"
            /\ settlements = 0 /\ settlements' = 1
      \/ op = "refund" /\ row' = "REFUNDED" /\ app.status = "REFUNDED" /\ settlements' = settlements
  BY <1>1, <1>2 DEF IInv, NewsIsTrue, Result, Operations
<1>6. TypeOK'
  BY <1>2, <1>3, <1>5 DEF IInv, TypeOK
<1>7. RowNeverAhead' /\ SettledOnce' /\ PaidOnce'
  BY <1>2, <1>5 DEF IInv, RowNeverAhead, SettledOnce, PaidOnce
<1>8. \A d \in Clients : Committing(d, "release")' => op # "release"
  BY <1>1, <1>4 DEF IInv, OneBearer, Operations
<1>9. NewsIsTrue'
  BY <1>2, <1>4, <1>5, <1>8 DEF IInv, NewsIsTrue, Operations
<1>10. OneBearer'
  BY <1>4 DEF IInv, OneBearer
<1>11. ASSUME faults = 0 PROVE LagsForAReason'
  <2>1. floating' = {} /\ app'.status # "DISPUTED" /\ app'.status = app.status
    BY <1>2, <1>11 DEF IInv, LagsForAReason
  <2>2. row' # "DEPLOYED" /\ app.status # "PENDING"
    BY <1>5
  <2>3. app.status = "FUNDED" => row' = "FUNDED" /\ \A d \in Clients : ~Committing(d, "fund")'
    BY <1>1, <1>4, <1>5 DEF IInv, OneBearer, Operations
  <2>4. app.status = "RELEASED" => row' = "RELEASED" /\ \A d \in Clients : ~Committing(d, "fund")'
    BY <1>1, <1>4, <1>5, <1>11 DEF IInv, LagsForAReason, Operations
  <2>5. QED
    BY <2>1, <2>2, <2>3, <2>4 DEF LagsForAReason
<1>12. LagsForAReason'
  BY <1>2, <1>11 DEF LagsForAReason
<1>13. QED
  BY <1>6, <1>7, <1>9, <1>10, <1>12 DEF IInv

(* A confirmed transaction keeps the invariant.                             *)
LEMMA LandKeeps ==
    ASSUME IInv, NEW op \in Operations, Land(op)
    PROVE  IInv'
<1>1. floating # {} /\ floating' \subseteq Operations /\ UNCHANGED <<row, settlements, req, faults>>
  BY DEF Land, IInv, TypeOK
<1>2. faults' \in 0 .. MaxFaults /\ faults' # 0
  BY <1>1 DEF IInv, TypeOK, LagsForAReason
<1>3. CASE Allowed(op, Signer(op)) /\ Execute(op, Payments(op))
  BY <1>1, <1>2, <1>3, UnseenKeeps, ManagerPays
<1>4. CASE UNCHANGED <<app, paid>>
  <2>1. TypeOK' /\ RowNeverAhead' /\ SettledOnce' /\ PaidOnce'
    BY <1>1, <1>2, <1>4 DEF IInv, TypeOK, RowNeverAhead, SettledOnce, PaidOnce
  <2>2. NewsIsTrue' /\ OneBearer' /\ LagsForAReason'
    BY <1>1, <1>2, <1>4 DEF IInv, NewsIsTrue, OneBearer, LagsForAReason, Committing, At
  <2>3. QED
    BY <2>1, <2>2 DEF IInv
<1>5. QED
  BY <1>3, <1>4 DEF Land

(* Every step keeps the invariant.                                          *)
LEMMA NextKeeps == ASSUME LifecycleAssumption, IInv, [Next]_vars PROVE IInv'
<1>1. CASE UNCHANGED vars
  BY <1>1 DEF vars, IInv, TypeOK, RowNeverAhead, SettledOnce, PaidOnce, NewsIsTrue, OneBearer,
              LagsForAReason, Committing, At
<1>2. ASSUME NEW buyer \in {Creator, Funder}, NEW platform \in {Creator, Funder},
             Initialise(buyer, platform)
      PROVE  IInv'
  BY <1>2, InitialiseKeeps
<1>3. ASSUME NEW c \in Clients, NEW op \in Operations, Request(c, op) PROVE IInv'
  BY <1>3, RequestKeeps
<1>4. ASSUME NEW c \in Clients, Refuse(c) PROVE IInv'
  <2>1. floating' \subseteq Operations
    BY <1>4 DEF Refuse, IInv, TypeOK
  <2>2. QED
    BY <1>4, <2>1, DropKeeps DEF Refuse
<1>5. ASSUME NEW c \in Clients, Confirm(c) PROVE IInv'
  BY <1>5, ConfirmKeeps
<1>6. ASSUME NEW c \in Clients, GiveUp(c) PROVE IInv'
  <2>1. floating' \subseteq Operations
    BY <1>6 DEF GiveUp, IInv, TypeOK
  <2>2. QED
    BY <1>6, <2>1, DropKeeps DEF GiveUp
<1>7. ASSUME NEW c \in Clients, Commit(c) PROVE IInv'
  BY <1>7, CommitKeeps
<1>8. ASSUME NEW c \in Clients, Abort(c) PROVE IInv'
  <2>1. floating' \subseteq Operations
    BY <1>8 DEF Abort, IInv, TypeOK
  <2>2. QED
    BY <1>8, <2>1, DropKeeps DEF Abort
<1>9. ASSUME NEW op \in Operations, Land(op) PROVE IInv'
  BY <1>9, LandKeeps
<1>10. ASSUME NEW op \in {"fund", "release", "dispute"}, NEW sender \in Addresses,
              CallItself(op, sender)
       PROVE  IInv'
  <2>1. op \in Operations \cup {"dispute"}
    BY DEF Operations
  <2>2. faults' \in 0 .. MaxFaults /\ faults' # 0
    BY <1>10 DEF CallItself, IInv, TypeOK, LifecycleAssumption
  <2>3. PICK payments \in 0 .. Payments(op) :
          /\ floating' \subseteq Operations /\ Allowed(op, sender) /\ Execute(op, payments)
          /\ UNCHANGED <<row, settlements, req>>
    BY <1>10 DEF CallItself, IInv, TypeOK
  <2>4. QED
    BY <2>1, <2>2, <2>3, UnseenKeeps
<1>11. QED
  BY <1>1, <1>2, <1>3, <1>4, <1>5, <1>6, <1>7, <1>8, <1>9, <1>10 DEF Next

(* The invariant holds throughout.                                          *)
LEMMA Invariance == Spec => []IInv
<1>1. LifecycleAssumption
  BY LifecycleAssumption
<1>2. Init => IInv
  BY <1>1, InitHolds
<1>3. IInv /\ [Next]_vars => IInv'
  BY <1>1, NextKeeps
<1>4. QED
  BY <1>2, <1>3, PTL DEF Spec

(* The row, the application and the requests keep their types.              *)
THEOREM LifecycleTypeCorrect == Spec => []TypeOK
<1>1. IInv => TypeOK
  BY DEF IInv
<1>2. QED
  BY <1>1, Invariance, PTL

(* The row never claims what the chain has not done, for any number of      *)
(* requests, lost answers and calls of the parties.                         *)
THEOREM NeverAhead == Spec => []RowNeverAhead
<1>1. IInv => RowNeverAhead
  BY DEF IInv
<1>2. QED
  BY <1>1, Invariance, PTL

(* An escrow has one settlement at most, and none unless it was released.   *)
THEOREM OneSettlement == Spec => []SettledOnce
<1>1. IInv => SettledOnce
  BY DEF IInv
<1>2. QED
  BY <1>1, Invariance, PTL

(* However often fund is repeated, by requests, late transactions or the    *)
(* buyer itself, paying or not, the agreed amount is paid once at most.     *)
THEOREM OnePayment == Spec => []PaidOnce
<1>1. IInv => PaidOnce
  BY DEF IInv
<1>2. QED
  BY <1>1, Invariance, PTL

(* Without faults the row of a quiet escrow agrees with the chain, unless a *)
(* refund overtook the commit of the funding.                               *)
THEOREM QuietRowAgrees == Spec => []RowAgrees
<1>1. IInv => RowAgrees
  <2>1. SUFFICES ASSUME IInv, Quiet, faults = 0
                 PROVE  \/ row = IF app.status = "PENDING" THEN "DEPLOYED" ELSE app.status
                        \/ row = "FUNDED" /\ app.status = "REFUNDED"
    BY DEF RowAgrees
  <2>2. \A c \in Clients, op \in Operations : ~Committing(c, op)
    BY <2>1 DEF Quiet, Committing, At
  <2>3. app.status \in AppStatus /\ row \in {"DEPLOYED", "FUNDED", "RELEASED", "REFUNDED"}
    BY <2>1 DEF IInv, TypeOK
  <2>4. QED
    BY <2>1, <2>2, <2>3 DEF IInv, LagsForAReason, RowNeverAhead, AppStatus, Operations
<1>2. QED
  BY <1>1, Invariance, PTL
===============================================================================
