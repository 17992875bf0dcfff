-------------------------- MODULE SessionStoreProofs --------------------------
(***************************************************************************)
(* Proofs about SessionStore, and about the engine beside it               *)
(* (SharedSession), for any number of concurrent requests, any prices,     *)
(* limits, round budget and bounds.                                        *)
(***************************************************************************)
EXTENDS SharedSession, TLAPS

-------------------------------------------------------------------------------
(* What DanpRules says of records, actions and limits.                      *)

(* Both names are roles, and Other is the opposite one.                     *)
LEMMA RoleFacts == /\ "buyer" \in Roles
                   /\ "seller" \in Roles
                   /\ \A r \in Roles : Other(r) \in Roles /\ Other(r) # r
BY DEF Roles, Other

(* The record a cleared action leaves is a session record again.            *)
LEMMA MovedTyped ==
    ASSUME NEW s \in SessionRecord, NEW a \in Envelope, NEW n \in Nat
    PROVE  Moved(s, a, n) \in SessionRecord
<1>1. s.round \in Nat /\ s.status \in ActiveStates \cup TerminalStates
      /\ s.lastOffer \in [Roles -> MaybePrice]
  BY DEF SessionRecord
<1>2. a.role \in Roles /\ a.price \in MaybePrice
      /\ a.kind \in {"counter", "accept", "reject", "timeout_yield"}
  BY DEF Envelope, MaybePrice
<1>3. CounterStatus(s, a, n) \in ActiveStates \cup TerminalStates
  BY DEF CounterStatus, ActiveStates, TerminalStates
<1>4. CounterRound(s, a, n) \in Nat
  BY <1>1 DEF CounterRound
<1>5. [s.lastOffer EXCEPT ![a.role] = a.price] \in [Roles -> MaybePrice]
  BY <1>1, <1>2
<1>6. Other(a.role) \in Roles
  BY <1>2, RoleFacts
<1>7. (CASE a.kind = "accept"        -> "AGREED"
         [] a.kind = "reject"        -> "WALKAWAY"
         [] a.kind = "counter"       -> CounterStatus(s, a, n)
         [] a.kind = "timeout_yield" -> s.status) \in ActiveStates \cup TerminalStates
  BY <1>1, <1>2, <1>3 DEF ActiveStates, TerminalStates
<1> QED
  BY <1>1, <1>2, <1>4, <1>5, <1>6, <1>7 DEF Moved, SessionRecord

(* Ending a session leaves a session record.                                *)
LEMMA EndedTyped ==
    ASSUME NEW s \in SessionRecord, NEW t \in TerminalStates
    PROVE  /\ Ended(s, t) \in SessionRecord
           /\ Ended(s, t).status = t
           /\ Ended(s, t).lastOffer = s.lastOffer
BY DEF Ended, SessionRecord

(* The stall counter stays a number.                                        *)
LEMMA StallTyped ==
    ASSUME NEW s, NEW a, NEW n \in Nat
    PROVE  StallCount(s, a, n) \in Nat
BY DEF StallCount

(* The fields of an envelope and of the offers row it becomes (STEP 9).     *)
LEMMA EnvelopeFacts ==
    ASSUME NEW a \in Envelope
    PROVE  /\ a.role \in Roles
           /\ a.price \in MaybePrice
           /\ a.kind \in {"counter", "accept", "reject", "timeout_yield"}
           /\ a.kind # "counter" => a.price = NoOffer
           /\ RowOf(a) \in OfferRow
           /\ RowOf(a).role = a.role /\ RowOf(a).kind = a.kind /\ RowOf(a).price = a.price
BY DEF Envelope, MaybePrice, RowOf, OfferRow

(* Only a priced row changes the last offers, and only its maker's.         *)
LEMMA MovedOffers ==
    ASSUME NEW s, NEW a, NEW n
    PROVE  Moved(s, a, n).lastOffer =
             IF a.price = NoOffer THEN s.lastOffer
             ELSE [s.lastOffer EXCEPT ![a.role] = a.price]
BY DEF Moved

(* A pair of last offers in which nobody broke their own limit.             *)
InLimits(lastOffer) ==
    /\ lastOffer["seller"] # NoOffer => Floor <= lastOffer["seller"]
    /\ lastOffer["buyer"] # NoOffer => lastOffer["buyer"] <= Ceiling

(* An action that passed the guardrails puts no illegal offer on the table. *)
LEMMA PassedOffer ==
    ASSUME NEW s \in SessionRecord, NEW a \in Envelope, ~Breaches(s, a),
           NEW lo \in [Roles -> MaybePrice], InLimits(lo)
    PROVE  InLimits(IF a.price = NoOffer THEN lo ELSE [lo EXCEPT ![a.role] = a.price])
<1>1. CASE a.price = NoOffer
  BY <1>1
<1>2. CASE a.price # NoOffer
  <2>1. a.kind = "counter" /\ a.role \in Roles
    BY <1>2, EnvelopeFacts
  <2>2. a.role = "seller" => ~(a.price < Floor)
    BY <1>2, <2>1 DEF Breaches, JudgedPrice
  <2>3. a.role = "buyer" => ~(a.price > Ceiling)
    BY <1>2, <2>1 DEF Breaches, JudgedPrice
  <2>4. a.price \in Int /\ Floor \in Int /\ Ceiling \in Int
    BY <1>2, EnvelopeFacts, RulesAssumption DEF MaybePrice
  <2>5. a.role = "seller" \/ a.role = "buyer"
    BY <2>1 DEF Roles
  <2> QED  BY <1>2, <2>1, <2>2, <2>3, <2>4, <2>5, RoleFacts DEF InLimits
<1> QED  BY <1>1, <1>2

(* An accept that passed the guardrails closes inside both limits.          *)
LEMMA PassedAccept ==
    ASSUME NEW s \in SessionRecord, NEW a \in Envelope, a.kind = "accept", ~Breaches(s, a),
           InLimits(s.lastOffer), ClosingPrice(s, a) # NoOffer
    PROVE  Floor <= ClosingPrice(s, a) /\ ClosingPrice(s, a) <= Ceiling
<1> DEFINE p == s.lastOffer[Other(a.role)]
<1>1. a.role \in Roles /\ a.price = NoOffer
  BY EnvelopeFacts
<1>2. ClosingPrice(s, a) = p /\ p # NoOffer
  BY <1>1 DEF ClosingPrice
<1>3. p \in Int /\ Floor \in Int /\ Ceiling \in Int
  BY <1>1, <1>2, RoleFacts, RulesAssumption DEF SessionRecord, MaybePrice
<1>4. CASE a.role = "buyer"
  <2>1. ~(p > Ceiling)
    BY <1>2, <1>4 DEF Breaches, JudgedPrice
  <2>2. Floor <= p
    BY <1>2, <1>4 DEF InLimits, Other
  <2> QED  BY <1>2, <1>3, <2>1, <2>2
<1>5. CASE a.role = "seller"
  <2>1. ~(p < Floor)
    BY <1>2, <1>5 DEF Breaches, JudgedPrice
  <2>2. p <= Ceiling
    BY <1>2, <1>5 DEF InLimits, Other
  <2> QED  BY <1>2, <1>3, <2>1, <2>2
<1> QED  BY <1>1, <1>4, <1>5 DEF Roles

-------------------------------------------------------------------------------
(* Types.                                                                   *)

(* What a request's state says of its envelope and its copy.                *)
LEMMA RequestFacts ==
    ASSUME TypeOK, NEW c \in Clients, req[c].at # "idle"
    PROVE  /\ req[c] \in RequestState
           /\ req[c].act \in Requests /\ req[c].act \in Envelope
           /\ req[c].act.role \in Roles
           /\ req[c].at \notin {"load", "miss"} => req[c].seen \in SessionRecord
           /\ req[c].stalls \in Nat
BY StoreAssumption, EnvelopeFacts DEF TypeOK, RequestState

(* A request that moves to another place with a typed copy stays typed.     *)
LEMMA MoveTyped ==
    ASSUME NEW r \in RequestState, NEW place \in Places,
           r.act \in Requests,
           r.seen \in SessionRecord \/ place \in {"idle", "load", "miss"},
           r.ending \in {"TIMEOUT", "POLICY_BREACH"} \/ place \notin {"end", "endread", "endset"}
    PROVE  [r EXCEPT !.at = place] \in RequestState
BY DEF RequestState

(* A free slot and the copy rebuilt from a typed row are typed.             *)
LEMMA IdleTyped == Idle \in RequestState
BY DEF RequestState, Idle, Places

(* The outcome of STEPS 3 to 6 is typed.                                    *)
LEMMA CheckedTyped ==
    ASSUME NEW r \in RequestState, r.act \in Requests, NEW s \in SessionRecord
    PROVE  Checked(r, s) \in RequestState
<1>1. Idle \in RequestState  BY IdleTyped
<1>2. [r EXCEPT !.at = "end", !.seen = s, !.ending = "TIMEOUT"] \in RequestState
  BY DEF RequestState, Places
<1>3. /\ [r EXCEPT !.at = "guard", !.seen = s] \in RequestState
      /\ [r EXCEPT !.at = "wrong", !.seen = s] \in RequestState
  BY DEF RequestState, Places
<1>4. \/ Checked(r, s) = Idle
      \/ Checked(r, s) = [r EXCEPT !.at = "end", !.seen = s, !.ending = "TIMEOUT"]
      \/ Checked(r, s) = [r EXCEPT !.at = "guard", !.seen = s]
      \/ Checked(r, s) = [r EXCEPT !.at = "wrong", !.seen = s]
  <2> DEFINE T == s.status \in TerminalStates
             E == s.status \in ActiveStates /\ expired
             O == s.status \in ActiveStates /\ ~expired /\ r.act.role # TurnOf(s)
  <2>1. CASE T \/ O  BY <2>1 DEF Checked, TerminalStates, ActiveStates
  <2>2. CASE E /\ ~T  BY <2>2 DEF Checked
  <2>3. CASE ~T /\ ~E /\ ~O  BY <2>3 DEF Checked
  <2> QED  BY <2>1, <2>2, <2>3
<1> QED  BY <1>1, <1>2, <1>3, <1>4

(* What Written(c) leaves is a session record.                              *)
LEMMA WrittenTyped ==
    ASSUME TypeOK, NEW c \in Clients, req[c].at \notin {"idle", "load", "miss"}
    PROVE  Written(c) \in SessionRecord
BY RequestFacts, MovedTyped DEF Written

(* The record rebuilt from a typed row is a session record.                 *)
LEMMA RebuiltTyped == TypeOK => Rebuilt \in SessionRecord
<1> SUFFICES ASSUME TypeOK PROVE Rebuilt \in SessionRecord  OBVIOUS
<1> DEFINE next == IF row.status = "BUYER_ANCHOR" THEN "seller" ELSE "buyer"
<1>1. next \in Roles /\ Other(next) \in Roles  BY DEF Roles, Other
<1>2. row.status \in ActiveStates \cup TerminalStates /\ row.round \in Nat
      /\ row.lastOffer \in [Roles -> MaybePrice]
  BY DEF TypeOK
<1> QED  BY <1>1, <1>2 DEF Rebuilt, SessionRecord

(* The stores start typed.                                                  *)
LEMMA InitTyped == Init => TypeOK
<1> SUFFICES ASSUME Init PROVE TypeOK
  OBVIOUS
<1> PICK opening \in Prices :
        /\ record = Opened(opening)
        /\ row = [status |-> "BUYER_ANCHOR", round |-> 1,
                  lastOffer |-> Opened(opening).lastOffer, agreed |-> NoOffer]
        /\ offers = <<[role |-> "buyer", kind |-> "counter", price |-> opening]>>
  BY DEF Init
<1>1. Opened(opening) \in SessionRecord /\ Opened(opening).lastOffer \in [Roles -> MaybePrice]
  BY DEF Opened, SessionRecord, MaybePrice, Roles, ActiveStates
<1>2. offers \in Seq(OfferRow)
  BY DEF OfferRow, Roles, MaybePrice
<1>3. row \in [status : ActiveStates \cup TerminalStates, round : Nat,
               lastOffer : [Roles -> MaybePrice], agreed : MaybePrice]
  BY <1>1 DEF ActiveStates, MaybePrice
<1>4. req \in [Clients -> RequestState]
  BY IdleTyped DEF Init
<1>5. faults \in 0 .. MaxFaults
  BY StoreAssumption DEF Init
<1>6. lock \in Clients \cup {Free} /\ valuation \subseteq Roles /\ escrow \in BOOLEAN
      /\ expired \in BOOLEAN /\ chain \in Nat /\ stall \in Nat
      /\ fails \in [Roles -> Nat] /\ blocks \in [Roles -> Nat]
  BY DEF Init
<1> QED
  BY <1>1, <1>2, <1>3, <1>4, <1>5, <1>6 DEF TypeOK

(* The steps that only move a request.                                      *)
LEMMA RequestTyped ==
    ASSUME TypeOK, NEW c \in Clients,
           Load(c) \/ ReadRow(c) \/ Guard(c) \/ EndRead(c)
    PROVE  TypeOK'
<1>1. UNCHANGED <<postgres, chain, redis, expired, blocks, faults>>
  BY DEF Load, ReadRow, Guard, EndRead
<1>2. req[c].at # "idle" /\ req[c] \in RequestState /\ req[c].act \in Requests
  BY RequestFacts DEF Load, ReadRow, Guard, EndRead, At
<1>3. SUFFICES ASSUME NEW v \in RequestState, req' = [req EXCEPT ![c] = v] PROVE TypeOK'
  <2>1. CASE Load(c)
    <3>1. CASE record = Missing
      <4>1. [req[c] EXCEPT !.at = "miss"] \in RequestState
        BY <1>2, MoveTyped DEF Places
      <4> QED  BY <1>3, <2>1, <3>1, <4>1 DEF Load
    <3>2. CASE record # Missing
      <4>1. Checked(req[c], record) \in RequestState
        BY <1>2, <3>2, CheckedTyped DEF TypeOK
      <4> QED  BY <1>3, <2>1, <3>2, <4>1 DEF Load
    <3> QED  BY <3>1, <3>2
  <2>2. CASE ReadRow(c)
    <3>1. [req[c] EXCEPT !.at = "refill", !.seen = Rebuilt] \in RequestState
      BY <1>2, RebuiltTyped DEF RequestState, Places
    <3>2. req' = [req EXCEPT ![c] = [req[c] EXCEPT !.at = "refill", !.seen = Rebuilt]]
      BY <2>2 DEF ReadRow, TypeOK
    <3> QED  BY <1>3, <3>1, <3>2
  <2>3. CASE Guard(c)
    <3>1. PICK place \in {"blocked", "stall", "write"} : Go(c, place)
      BY <2>3 DEF Guard
    <3>2. [req[c] EXCEPT !.at = place] \in RequestState
      BY <1>2, <2>3, MoveTyped, RequestFacts DEF Places, Guard, At
    <3> QED  BY <1>3, <3>1, <3>2 DEF Go
  <2>4. CASE EndRead(c)
    <3>1. req[c].seen \in SessionRecord
      BY <2>4, RequestFacts DEF EndRead, At
    <3>2. [req[c] EXCEPT !.at = "rollback"] \in RequestState
      BY <1>2, <3>1, MoveTyped DEF Places
    <3>3. record # Missing => [req[c] EXCEPT !.at = "endset", !.seen = record] \in RequestState
      <4>1. req[c].ending \in {"TIMEOUT", "POLICY_BREACH"}
        BY <1>2, <2>4 DEF EndRead, At, RequestState
      <4>2. record # Missing => record \in SessionRecord
        BY DEF TypeOK
      <4> QED  BY <1>2, <4>1, <4>2 DEF RequestState, Places
    <3> QED  BY <1>3, <2>4, <3>2, <3>3 DEF EndRead
  <2> QED  BY <2>1, <2>2, <2>3, <2>4
<1> QED  BY <1>1, <1>3 DEF TypeOK, postgres, redis

(* The steps that write Redis.                                              *)
LEMMA RedisTyped ==
    ASSUME TypeOK, NEW c \in Clients,
           \/ Refill(c) \/ WrongRound(c) \/ CountBlock(c) \/ CountStall(c)
           \/ Publish(c) \/ ResetFailures(c) \/ EndSet(c)
    PROVE  TypeOK'
<1>1. UNCHANGED <<postgres, chain, expired, faults, valuation>>
  BY DEF Refill, WrongRound, CountBlock, CountStall, Publish, ResetFailures, EndSet
<1>2. /\ req[c].at \notin {"idle", "load", "miss"}
      /\ req[c] \in RequestState /\ req[c].act \in Requests /\ req[c].act \in Envelope
      /\ req[c].act.role \in Roles /\ req[c].seen \in SessionRecord
  BY RequestFacts DEF Refill, WrongRound, CountBlock, CountStall, Publish, ResetFailures,
                      EndSet, At
<1>3. /\ fails' \in [Roles -> Nat] /\ blocks' \in [Roles -> Nat] /\ stall' \in Nat
      /\ record' \in SessionRecord \cup {Missing}
  <2>1. CASE Refill(c) \/ Publish(c)
    <3>1. record' \in SessionRecord
      BY <1>2, <2>1, WrittenTyped DEF Refill, Publish
    <3> QED  BY <2>1, <3>1 DEF Refill, Publish, TypeOK
  <2>2. CASE EndSet(c)
    <3>1. req[c].ending \in TerminalStates
      BY <1>2, <2>2 DEF EndSet, At, RequestState, TerminalStates
    <3>2. record' \in SessionRecord
      BY <1>2, <2>2, <3>1, EndedTyped DEF EndSet
    <3> QED  BY <2>2, <3>2 DEF EndSet, TypeOK
  <2>3. CASE WrongRound(c) \/ CountBlock(c) \/ ResetFailures(c)
    <3>1. fails \in [Roles -> Nat] /\ blocks \in [Roles -> Nat]
      BY DEF TypeOK
    <3>2. fails' \in [Roles -> Nat] /\ blocks' \in [Roles -> Nat]
      BY <1>2, <2>3, <3>1 DEF WrongRound, CountBlock, ResetFailures
    <3>3. UNCHANGED <<record, stall>>
      BY <2>3 DEF WrongRound, CountBlock, ResetFailures
    <3> QED  BY <3>2, <3>3 DEF TypeOK
  <2>4. CASE CountStall(c)
    BY <1>2, <2>4, StallTyped DEF CountStall, TypeOK
  <2> QED  BY <2>1, <2>2, <2>3, <2>4
<1>4. \E v \in RequestState : req' = [req EXCEPT ![c] = v]
  <2>1. CASE Refill(c)
    <3>1. Checked(req[c], req[c].seen) \in RequestState
      BY <1>2, CheckedTyped
    <3> QED  BY <2>1, <3>1 DEF Refill
  <2>2. CASE WrongRound(c) \/ Publish(c) \/ ResetFailures(c) \/ EndSet(c)
    <3>1. PICK place \in {"rollback", "reset", "commit"} : Go(c, place)
      BY <2>2 DEF WrongRound, Publish, ResetFailures, EndSet
    <3>2. [req[c] EXCEPT !.at = place] \in RequestState
      BY <1>2, MoveTyped DEF Places
    <3> QED  BY <3>1, <3>2 DEF Go
  <2>3. CASE CountBlock(c)
    <3>1. [req[c] EXCEPT !.at = "rollback"] \in RequestState
      BY <1>2, MoveTyped DEF Places
    <3>2. [req[c] EXCEPT !.at = "end", !.ending = "POLICY_BREACH"] \in RequestState
      BY <1>2 DEF RequestState, Places
    <3> QED  BY <2>3, <3>1, <3>2 DEF CountBlock
  <2>4. CASE CountStall(c)
    <3>1. [req[c] EXCEPT !.at = "write", !.stalls = stall', !.before = stall] \in RequestState
      BY <1>2, <1>3 DEF RequestState, Places, TypeOK
    <3>2. req' = [req EXCEPT ![c] = [req[c] EXCEPT !.at = "write", !.stalls = stall',
                                                   !.before = stall]]
      BY <2>4 DEF CountStall, TypeOK
    <3> QED  BY <3>1, <3>2
  <2> QED  BY <2>1, <2>2, <2>3, <2>4
<1>5. req' \in [Clients -> RequestState]
  BY <1>4 DEF TypeOK
<1> QED  BY <1>1, <1>3, <1>5 DEF TypeOK, postgres

(* The steps of the transaction and of the chain.                           *)
LEMMA TransactionTyped ==
    ASSUME TypeOK, NEW c \in Clients,
           \/ Write(c) \/ TriggerEscrow(c) \/ Commit(c) \/ EndWrite(c) \/ Rollback(c)
           \/ Abort(c)
    PROVE  TypeOK'
<1>1. UNCHANGED redis /\ UNCHANGED expired /\ UNCHANGED blocks
  BY DEF Write, TriggerEscrow, Commit, EndWrite, Rollback, Abort
<1>2. lock' \in Clients \cup {Free}
  BY DEF Write, TriggerEscrow, Commit, EndWrite, Rollback, Abort, Unlock, postgres, TypeOK
<1>3. faults' \in 0 .. MaxFaults
  <2>1. CASE Abort(c)
    BY <2>1, StoreAssumption DEF Abort, TypeOK
  <2>2. CASE ~Abort(c)
    BY <2>2 DEF Write, TriggerEscrow, Commit, EndWrite, Rollback, TypeOK
  <2> QED  BY <2>1, <2>2
<1>4. chain' \in Nat
  BY DEF Write, TriggerEscrow, Commit, EndWrite, Rollback, Abort, TypeOK
<1>5. req' \in [Clients -> RequestState]
  <2>1. CASE Commit(c) \/ Rollback(c) \/ Abort(c)
    BY <2>1, IdleTyped DEF Commit, Rollback, Abort, Leave, TypeOK
  <2>2. CASE Write(c) \/ EndWrite(c)
    <3>1. /\ req[c] \in RequestState /\ req[c].act \in Requests
          /\ req[c].seen \in SessionRecord
          /\ EndWrite(c) => req[c].ending \in {"TIMEOUT", "POLICY_BREACH"}
      BY <2>2, RequestFacts DEF Write, EndWrite, At, RequestState
    <3>2. PICK place \in {"escrow", "publish", "endread"} :
            Go(c, place) /\ (place = "endread" => EndWrite(c))
      BY <2>2 DEF Write, EndWrite
    <3>3. [req[c] EXCEPT !.at = place] \in RequestState
      BY <3>1, <3>2, MoveTyped DEF Places
    <3> QED  BY <3>2, <3>3 DEF Go, TypeOK
  <2>3. CASE TriggerEscrow(c)
    <3>1. req[c] \in RequestState /\ req[c].act \in Requests /\ req[c].seen \in SessionRecord
      BY <2>3, RequestFacts DEF TriggerEscrow, At
    <3>2. PICK deployed \in BOOLEAN :
            req' = [req EXCEPT ![c].at = "publish", ![c].deployed = deployed]
      BY <2>3 DEF TriggerEscrow
    <3>3. [req[c] EXCEPT !.at = "publish", !.deployed = deployed] \in RequestState
      BY <3>1 DEF RequestState, Places
    <3>4. req' = [req EXCEPT ![c] = [req[c] EXCEPT !.at = "publish", !.deployed = deployed]]
      BY <3>2 DEF TypeOK
    <3> QED  BY <3>3, <3>4 DEF TypeOK
  <2> QED  BY <2>1, <2>2, <2>3
<1>6. /\ row' \in [status : ActiveStates \cup TerminalStates, round : Nat,
                   lastOffer : [Roles -> MaybePrice], agreed : MaybePrice]
      /\ offers' \in Seq(OfferRow) /\ escrow' \in BOOLEAN
  <2>1. CASE Commit(c)
    <3> DEFINE a == req[c].act
    <3>1. /\ req[c].seen \in SessionRecord /\ a \in Envelope /\ a.role \in Roles
          /\ Written(c) \in SessionRecord
      BY <2>1, RequestFacts, WrittenTyped DEF Commit, At
    <3>2. a.price \in MaybePrice /\ RowOf(a) \in OfferRow
      BY <3>1, EnvelopeFacts
    <3>3. ClosingPrice(req[c].seen, a) \in MaybePrice
      BY <3>1, <3>2, RoleFacts DEF ClosingPrice, SessionRecord
    <3>4. row.lastOffer \in [Roles -> MaybePrice] /\ row.agreed \in MaybePrice
      BY DEF TypeOK
    <3>5. Written(c).status \in ActiveStates \cup TerminalStates /\ Written(c).round \in Nat
      BY <3>1 DEF SessionRecord
    <3>6. row' = [status |-> Written(c).status, round |-> Written(c).round,
                  lastOffer |-> IF a.price = NoOffer THEN row.lastOffer
                                ELSE [row.lastOffer EXCEPT ![a.role] = a.price],
                  agreed |-> IF a.kind = "accept" THEN ClosingPrice(req[c].seen, a)
                             ELSE row.agreed]
      BY <2>1 DEF Commit
    <3>7. row' \in [status : ActiveStates \cup TerminalStates, round : Nat,
                    lastOffer : [Roles -> MaybePrice], agreed : MaybePrice]
      BY <3>1, <3>2, <3>3, <3>4, <3>5, <3>6
    <3>8. offers' \in Seq(OfferRow)
      BY <2>1, <3>2 DEF Commit, TypeOK
    <3>9. escrow' \in BOOLEAN
      BY <2>1 DEF Commit, TypeOK
    <3> QED  BY <3>7, <3>8, <3>9
  <2>2. CASE ~Commit(c)
    <3>1. UNCHANGED <<row, offers, escrow>>
      BY <2>2 DEF Write, TriggerEscrow, EndWrite, Rollback, Abort, postgres
    <3> QED  BY <3>1 DEF TypeOK
  <2> QED  BY <2>1, <2>2
<1> QED  BY <1>1, <1>2, <1>3, <1>4, <1>5, <1>6 DEF TypeOK, redis

(* Requests arriving and the environment.                                   *)
LEMMA WorldTyped ==
    ASSUME TypeOK,
           \/ \E c \in Clients, a \in Requests : Arrive(c, a)
           \/ \E key \in Keys : Vanish(key)
           \/ PassDeadline
           \/ UNCHANGED vars
    PROVE  TypeOK'
<1>1. ASSUME NEW c \in Clients, NEW a \in Requests, Arrive(c, a) PROVE TypeOK'
  <2>1. [Idle EXCEPT !.at = "load", !.act = a] \in RequestState
    BY DEF Idle, RequestState, Places
  <2>2. req' \in [Clients -> RequestState]
    BY <1>1, <2>1 DEF Arrive, TypeOK
  <2> QED  BY <1>1, <2>2 DEF Arrive, TypeOK, postgres, redis
<1>2. ASSUME NEW key \in Keys, Vanish(key) PROVE TypeOK'
  <2>1. faults' \in 0 .. MaxFaults
    BY <1>2, StoreAssumption DEF Vanish, TypeOK
  <2>2. record' \in SessionRecord \cup {Missing} /\ stall' \in Nat
        /\ fails' \in [Roles -> Nat] /\ valuation' \subseteq Roles
    BY <1>2 DEF Vanish, TypeOK
  <2> QED  BY <1>2, <2>1, <2>2 DEF Vanish, TypeOK, postgres
<1>3. CASE PassDeadline  BY <1>3 DEF PassDeadline, TypeOK, postgres, redis
<1>4. CASE UNCHANGED vars  BY <1>4 DEF vars, TypeOK
<1> QED  BY <1>1, <1>2, <1>3, <1>4

(* Every variable of the two stores, the chain and the requests stays in    *)
(* its type, whatever is interleaved, lost or evicted.                      *)
THEOREM StoreTypeCorrect == Spec => []TypeOK
<1>1. TypeOK /\ [Next]_vars => TypeOK'
  <2> SUFFICES ASSUME TypeOK, [Next]_vars PROVE TypeOK'
    OBVIOUS
  <2>1. ASSUME NEW c \in Clients, Advance(c) \/ Abort(c) PROVE TypeOK'
    BY <2>1, RequestTyped, RedisTyped, TransactionTyped DEF Advance
  <2> QED  BY <2>1, WorldTyped DEF Next
<1> QED  BY <1>1, InitTyped, PTL DEF Spec

-------------------------------------------------------------------------------
(* The lock.                                                                *)

(* A request's step can disturb LockHeld only through its own place and     *)
(* through the lock.                                                        *)
LEMMA LockStep ==
    ASSUME TypeOK, LockHeld, NEW c \in Clients,
           \A d \in Clients \ {c} : req'[d] = req[d],
           \/ lock' = lock /\ (req'[c].at \in Holding => lock = c)
                           /\ (lock = c => req'[c].at \in Holding \cup {"rollback"})
           \/ lock = Free /\ lock' = c /\ req'[c].at \in Holding
           \/ lock' = (IF lock = c THEN Free ELSE lock) /\ req'[c].at = "idle"
    PROVE  LockHeld'
<1>1. \A d \in Clients : d # Free
  BY StoreAssumption
<1>2. "idle" \notin Holding
  BY DEF Holding
<1> QED  BY <1>1, <1>2 DEF LockHeld

(* Every step of a request keeps the lock discipline.                       *)
LEMMA AdvanceKeepsLock ==
    ASSUME TypeOK, LockHeld, NEW c \in Clients, Advance(c) \/ Abort(c)
    PROVE  LockHeld'
<1>1. \A d \in Clients \ {c} : req'[d] = req[d]
  BY DEF Advance, Abort, Load, ReadRow, Refill, WrongRound, Guard, CountBlock, CountStall,
         Write, TriggerEscrow, Publish, ResetFailures, Commit, EndWrite, EndRead, EndSet,
         Rollback, Go, Leave, TypeOK
<1>2. req \in [Clients -> RequestState] /\ req[c] \in RequestState
  BY DEF TypeOK
<1> DEFINE stay == /\ lock' = lock
                   /\ req'[c].at \in Holding => lock = c
                   /\ lock = c => req'[c].at \in Holding \cup {"rollback"}
<1>3. CASE Load(c) \/ Refill(c)
  <2>1. PICK s : req'[c] = Checked(req[c], s) \/ req'[c] = [req[c] EXCEPT !.at = "miss"]
    BY <1>2, <1>3 DEF Load, Refill
  <2>2. Checked(req[c], s).at \in {"idle", "end", "guard", "wrong"}
    <3> DEFINE T == s.status \in TerminalStates
               E == s.status \in ActiveStates /\ expired
               O == s.status \in ActiveStates /\ ~expired /\ req[c].act.role # TurnOf(s)
    <3>1. CASE T \/ O  BY <3>1 DEF Checked, TerminalStates, ActiveStates, Idle
    <3>2. CASE E /\ ~T  BY <1>2, <3>2 DEF Checked, RequestState
    <3>3. CASE ~T /\ ~E /\ ~O  BY <1>2, <3>3 DEF Checked, RequestState
    <3> QED  BY <3>1, <3>2, <3>3
  <2>3. req'[c].at \notin Holding
    BY <1>2, <2>1, <2>2 DEF Holding, RequestState
  <2>4. lock' = lock /\ lock # c
    BY <1>3 DEF Load, Refill, At, LockHeld, Holding, postgres
  <2> QED  BY <1>1, <2>3, <2>4, LockStep
<1>4. CASE ReadRow(c) \/ WrongRound(c) \/ Guard(c) \/ CountBlock(c) \/ CountStall(c)
  <2>1. req'[c].at \notin Holding
    <3>1. CASE ReadRow(c)     BY <1>2, <3>1 DEF ReadRow, Holding, RequestState, TypeOK
    <3>2. CASE WrongRound(c)  BY <1>2, <3>2 DEF WrongRound, Go, Holding, RequestState
    <3>3. CASE Guard(c)       BY <1>2, <3>3 DEF Guard, Go, Holding, RequestState
    <3>4. CASE CountBlock(c)  BY <1>2, <3>4 DEF CountBlock, Holding, RequestState
    <3>5. CASE CountStall(c)  BY <1>2, <3>5 DEF CountStall, Holding, RequestState, TypeOK
    <3> QED  BY <1>4, <3>1, <3>2, <3>3, <3>4, <3>5
  <2>2. lock' = lock /\ lock # c
    BY <1>4 DEF ReadRow, WrongRound, Guard, CountBlock, CountStall, At, LockHeld, Holding,
                postgres
  <2> QED  BY <1>1, <2>1, <2>2, LockStep
<1>5. CASE Write(c) \/ EndWrite(c)
  <2>1. lock = Free /\ lock' = c /\ req'[c].at \in Holding
    BY <1>2, <1>5 DEF Write, EndWrite, Go, Holding, RequestState
  <2> QED  BY <1>1, <2>1, LockStep
<1>6. CASE TriggerEscrow(c) \/ Publish(c) \/ ResetFailures(c) \/ EndRead(c) \/ EndSet(c)
  <2>1. lock' = lock /\ lock = c
    BY <1>6 DEF TriggerEscrow, Publish, ResetFailures, EndRead, EndSet, At, LockHeld, Holding,
                postgres
  <2>2. req'[c].at \in Holding \cup {"rollback"}
    <3>1. CASE TriggerEscrow(c)
      BY <1>2, <3>1 DEF TriggerEscrow, Holding, RequestState, TypeOK
    <3>2. CASE Publish(c) \/ ResetFailures(c) \/ EndSet(c)
      BY <1>2, <3>2 DEF Publish, ResetFailures, EndSet, Go, Holding, RequestState
    <3>3. CASE EndRead(c)  BY <1>2, <3>3 DEF EndRead, Holding, RequestState
    <3> QED  BY <1>6, <3>1, <3>2, <3>3
  <2> QED  BY <1>1, <2>1, <2>2, LockStep
<1>7. CASE Commit(c) \/ Rollback(c) \/ Abort(c)
  <2>1. lock' = (IF lock = c THEN Free ELSE lock) /\ req'[c].at = "idle"
    BY <1>2, <1>7 DEF Commit, Rollback, Abort, Unlock, Leave, Idle
  <2> QED  BY <1>1, <2>1, LockStep
<1> QED  BY <1>3, <1>4, <1>5, <1>6, <1>7 DEF Advance

(* However many requests overlap, and whatever is lost or evicted, only the *)
(* holder of the row's lock deploys, publishes or commits.                  *)
THEOREM LockDiscipline == Spec => []LockHeld
<1>1. Init => LockHeld
  BY StoreAssumption DEF Init, LockHeld, Holding, Idle
<1>2. TypeOK /\ LockHeld /\ [Next]_vars => LockHeld'
  <2> SUFFICES ASSUME TypeOK, LockHeld, [Next]_vars PROVE LockHeld'
    OBVIOUS
  <2>1. ASSUME NEW c \in Clients, NEW a \in Requests, Arrive(c, a) PROVE LockHeld'
    <3>1. lock' = lock /\ lock # c /\ req'[c].at = "load"
          /\ \A d \in Clients \ {c} : req'[d] = req[d]
      BY <2>1 DEF Arrive, At, LockHeld, Holding, postgres, TypeOK, Idle
    <3> QED  BY <3>1, LockStep DEF Holding
  <2>2. CASE (\E key \in Keys : Vanish(key)) \/ PassDeadline \/ UNCHANGED vars
    BY <2>2 DEF Vanish, PassDeadline, vars, postgres, LockHeld
  <2> QED  BY <2>1, <2>2, AdvanceKeepsLock DEF Next
<1> QED  BY <1>1, <1>2, StoreTypeCorrect, PTL DEF Spec

-------------------------------------------------------------------------------
(* The escrow.                                                              *)

(* A deployment is known to the request that made it, while that holds the  *)
(* lock, or to the committed escrow row: nothing else can have deployed.    *)
DeployedHeld ==
    \A c \in Clients : req[c].deployed => req[c].at \in {"publish", "reset", "commit"}

ChainCounted ==
    /\ chain \in {0, 1}
    /\ chain = 1 => escrow \/ \E c \in Clients : req[c].deployed

EscrowInv == DeployedHeld /\ ChainCounted

(* Steps that neither deploy nor end a transaction.                         *)
LEMMA EscrowQuiet ==
    ASSUME TypeOK, EscrowInv, NEW c \in Clients,
           \A d \in Clients \ {c} : req'[d] = req[d],
           chain' = chain, escrow' = escrow,
           req'[c].deployed = req[c].deployed,
           req[c].deployed => req'[c].at \in {"publish", "reset", "commit"}
    PROVE  EscrowInv'
BY DEF EscrowInv, DeployedHeld, ChainCounted

(* Every step of a request keeps the escrow invariant.                      *)
LEMMA AdvanceKeepsEscrow ==
    ASSUME TypeOK, LockHeld, EscrowInv, NEW c \in Clients, Advance(c)
    PROVE  EscrowInv'
<1>1. \A d \in Clients \ {c} : req'[d] = req[d]
  BY DEF Advance, Load, ReadRow, Refill, WrongRound, Guard, CountBlock, CountStall,
         Write, TriggerEscrow, Publish, ResetFailures, Commit, EndWrite, EndRead, EndSet,
         Rollback, Go, Leave, TypeOK
<1>2. req \in [Clients -> RequestState] /\ req[c] \in RequestState
  BY DEF TypeOK
<1>3. CASE Load(c) \/ Refill(c)
  <2>1. ~req[c].deployed
    BY <1>3 DEF Load, Refill, At, EscrowInv, DeployedHeld
  <2>2. PICK s : req'[c] = Checked(req[c], s) \/ req'[c] = [req[c] EXCEPT !.at = "miss"]
    BY <1>2, <1>3 DEF Load, Refill
  <2>3. ~Checked(req[c], s).deployed
    <3> DEFINE T == s.status \in TerminalStates
               E == s.status \in ActiveStates /\ expired
               O == s.status \in ActiveStates /\ ~expired /\ req[c].act.role # TurnOf(s)
    <3>1. CASE T \/ O  BY <3>1 DEF Checked, TerminalStates, ActiveStates, Idle
    <3>2. CASE E /\ ~T  BY <1>2, <2>1, <3>2 DEF Checked, RequestState
    <3>3. CASE ~T /\ ~E /\ ~O  BY <1>2, <2>1, <3>3 DEF Checked, RequestState
    <3> QED  BY <3>1, <3>2, <3>3
  <2>4. ~req'[c].deployed
    BY <1>2, <2>1, <2>2, <2>3 DEF RequestState
  <2>5. UNCHANGED <<chain, escrow>>
    BY <1>3 DEF Load, Refill, postgres
  <2> QED  BY <1>1, <2>1, <2>4, <2>5 DEF EscrowInv, DeployedHeld, ChainCounted
<1>4. CASE ReadRow(c) \/ WrongRound(c) \/ Guard(c) \/ CountBlock(c) \/ CountStall(c)
           \/ Write(c) \/ EndWrite(c) \/ EndRead(c) \/ EndSet(c)
  <2>1. ~req[c].deployed
    BY <1>4 DEF ReadRow, WrongRound, Guard, CountBlock, CountStall, Write, EndWrite, EndRead,
                EndSet, At, EscrowInv, DeployedHeld
  <2>2. req'[c].deployed = req[c].deployed
    <3>1. CASE ReadRow(c)     BY <1>2, <3>1 DEF ReadRow, RequestState, TypeOK
    <3>2. CASE WrongRound(c) \/ Write(c) \/ EndWrite(c) \/ EndSet(c)
      BY <1>2, <3>2 DEF WrongRound, Write, EndWrite, EndSet, Go, RequestState
    <3>3. CASE Guard(c)       BY <1>2, <3>3 DEF Guard, Go, RequestState
    <3>4. CASE CountBlock(c)  BY <1>2, <3>4 DEF CountBlock, RequestState
    <3>5. CASE CountStall(c)  BY <1>2, <3>5 DEF CountStall, RequestState, TypeOK
    <3>6. CASE EndRead(c)     BY <1>2, <3>6 DEF EndRead, RequestState
    <3> QED  BY <1>4, <3>1, <3>2, <3>3, <3>4, <3>5, <3>6
  <2>3. UNCHANGED <<chain, escrow>>
    BY <1>4 DEF ReadRow, WrongRound, Guard, CountBlock, CountStall, Write, EndWrite, EndRead,
                EndSet, postgres
  <2> QED  BY <1>1, <2>1, <2>2, <2>3, EscrowQuiet
<1>5. CASE Publish(c) \/ ResetFailures(c)
  <2>1. req'[c].deployed = req[c].deployed /\ req'[c].at \in {"reset", "commit"}
    BY <1>2, <1>5 DEF Publish, ResetFailures, Go, RequestState
  <2>2. UNCHANGED <<chain, escrow>>
    BY <1>5 DEF Publish, ResetFailures, postgres
  <2> QED  BY <1>1, <2>1, <2>2, EscrowQuiet
<1>6. CASE TriggerEscrow(c)
  <2>1. PICK deployed \in BOOLEAN :
          /\ deployed => ~escrow
          /\ chain' = IF deployed THEN chain + 1 ELSE chain
          /\ req' = [req EXCEPT ![c].at = "publish", ![c].deployed = deployed]
    BY <1>6 DEF TriggerEscrow, Deployable
  <2>2. escrow' = escrow
    BY <1>6 DEF TriggerEscrow, postgres
  <2>3. req'[c].at = "publish" /\ req'[c].deployed = deployed
    BY <1>2, <2>1 DEF RequestState, TypeOK
  <2>4. \A d \in Clients : ~req[d].deployed
    BY <1>6 DEF TriggerEscrow, At, LockHeld, Holding, EscrowInv, DeployedHeld
  <2>5. deployed => chain = 0
    BY <2>1, <2>4 DEF EscrowInv, ChainCounted
  <2>6. DeployedHeld'
    BY <1>1, <2>3, <2>4 DEF DeployedHeld
  <2>7. ChainCounted'
    <3>1. CASE deployed
      <4>1. chain' = 1
        BY <2>1, <2>5, <3>1
      <4>2. \E d \in Clients : req'[d].deployed
        BY <2>3, <3>1
      <4> QED  BY <4>1, <4>2 DEF ChainCounted
    <3>2. CASE ~deployed
      <4>1. chain' = chain /\ (chain = 1 => escrow')
        BY <2>1, <2>2, <2>4, <3>2 DEF EscrowInv, ChainCounted
      <4> QED  BY <4>1 DEF EscrowInv, ChainCounted
    <3> QED  BY <3>1, <3>2
  <2> QED  BY <2>6, <2>7 DEF EscrowInv
<1>7. CASE Commit(c) \/ Rollback(c)
  <2>1. ~req'[c].deployed
    BY <1>2, <1>7 DEF Commit, Rollback, Leave, Idle
  <2>2. chain' = chain /\ escrow' = (escrow \/ req[c].deployed)
    BY <1>7 DEF Commit, Rollback, At, EscrowInv, DeployedHeld, postgres, TypeOK
  <2> QED  BY <1>1, <2>1, <2>2 DEF EscrowInv, DeployedHeld, ChainCounted
<1> QED  BY <1>3, <1>4, <1>5, <1>6, <1>7 DEF Advance

(* As long as no transaction is lost, one session has one escrow            *)
(* application, however many accepts overlap and whatever Redis loses.      *)
THEOREM SingleEscrow ==
    ASSUME MayAbort = FALSE
    PROVE  Spec => []OneEscrow
<1>1. Init => EscrowInv
  BY DEF Init, EscrowInv, DeployedHeld, ChainCounted, Idle
<1>2. TypeOK /\ LockHeld /\ EscrowInv /\ [Next]_vars => EscrowInv'
  <2> SUFFICES ASSUME TypeOK, LockHeld, EscrowInv, [Next]_vars PROVE EscrowInv'
    OBVIOUS
  <2>1. ASSUME NEW c \in Clients, NEW a \in Requests, Arrive(c, a) PROVE EscrowInv'
    <3>1. /\ \A d \in Clients \ {c} : req'[d] = req[d]
          /\ ~req'[c].deployed /\ ~req[c].deployed
          /\ UNCHANGED <<chain, escrow>>
      BY <2>1 DEF Arrive, At, EscrowInv, DeployedHeld, postgres, TypeOK, Idle
    <3> QED  BY <3>1 DEF EscrowInv, DeployedHeld, ChainCounted
  <2>2. CASE (\E key \in Keys : Vanish(key)) \/ PassDeadline \/ UNCHANGED vars
    <3>1. UNCHANGED <<req, chain, escrow>>
      BY <2>2 DEF Vanish, PassDeadline, vars, postgres
    <3> QED  BY <3>1 DEF EscrowInv, DeployedHeld, ChainCounted
  <2>3. ASSUME NEW c \in Clients PROVE ~Abort(c)
    BY DEF Abort
  <2> QED  BY <2>1, <2>2, <2>3, AdvanceKeepsEscrow DEF Next
<1>3. EscrowInv => OneEscrow
  BY DEF EscrowInv, ChainCounted, OneEscrow
<1> QED  BY <1>1, <1>2, <1>3, StoreTypeCorrect, LockDiscipline, PTL DEF Spec

-------------------------------------------------------------------------------
(* Fair deals.                                                              *)

Passed == {"stall", "write", "escrow", "publish", "reset", "commit"}

(* The part of the invariant one request is responsible for.                *)
Lawful(r) ==
    /\ r.at \notin {"idle", "load", "miss"} => InLimits(r.seen.lastOffer)
    /\ r.at \in Passed => ~Breaches(r.seen, r.act)

(* Every copy of the session, wherever it is kept, holds only offers their  *)
(* makers were allowed to make, and whoever is past the guardrails did not  *)
(* breach them on the copy it will publish.                                 *)
FairInv ==
    /\ valuation = Roles
    /\ InLimits(row.lastOffer)
    /\ record # Missing => InLimits(record.lastOffer)
    /\ \A c \in Clients : Lawful(req[c])
    /\ DealIsFair

(* A step that leaves the stores alone only has to keep its request lawful. *)
LEMMA FairStep ==
    ASSUME TypeOK, FairInv, NEW c \in Clients, NEW v, req' = [req EXCEPT ![c] = v], Lawful(v),
           UNCHANGED <<row, valuation>>, record' # Missing => InLimits(record'.lastOffer)
    PROVE  FairInv'
<1>1. \A d \in Clients : req'[d] = IF d = c THEN v ELSE req[d]
  BY DEF TypeOK
<1>2. \A d \in Clients : Lawful(req'[d])
  BY <1>1 DEF FairInv
<1>3. DealIsFair'
  BY DEF FairInv, DealIsFair
<1> QED  BY <1>2, <1>3 DEF FairInv, Lawful

(* A copy of the session in limits stays so through STEPS 3 to 6.           *)
LEMMA CheckedLawful ==
    ASSUME NEW r \in RequestState, NEW s, InLimits(s.lastOffer)
    PROVE  Lawful(Checked(r, s))
<1> DEFINE T == s.status \in TerminalStates
           E == s.status \in ActiveStates /\ expired
           O == s.status \in ActiveStates /\ ~expired /\ r.act.role # TurnOf(s)
<1>1. CASE T \/ O  BY <1>1 DEF Checked, TerminalStates, ActiveStates, Idle, Lawful, Passed
<1>2. CASE E /\ ~T  BY <1>2 DEF Checked, RequestState, Lawful, Passed
<1>3. CASE ~T /\ ~E /\ ~O  BY <1>3 DEF Checked, RequestState, Lawful, Passed
<1> QED  BY <1>1, <1>2, <1>3

(* Every step of a request keeps offers, copies and prices inside the       *)
(* limits.                                                                  *)
LEMMA AdvanceIsFair ==
    ASSUME TypeOK, FairInv, NEW c \in Clients, Advance(c) \/ Abort(c)
    PROVE  FairInv'
<1>1. req \in [Clients -> RequestState] /\ req[c] \in RequestState /\ Lawful(req[c])
  BY DEF TypeOK, FairInv
<1>2. Lawful(Idle)
  BY DEF Lawful, Idle, Passed
<1>3. CASE Load(c)
  <2>1. UNCHANGED <<row, valuation, record>>
    BY <1>3 DEF Load, postgres, redis
  <2>2. CASE record = Missing
    <3>1. req' = [req EXCEPT ![c] = [req[c] EXCEPT !.at = "miss"]]
      BY <1>3, <2>2 DEF Load
    <3>2. Lawful([req[c] EXCEPT !.at = "miss"])
      BY <1>1 DEF Lawful, Passed, RequestState
    <3> QED  BY <2>1, <3>1, <3>2, FairStep DEF FairInv
  <2>3. CASE record # Missing
    <3>1. req' = [req EXCEPT ![c] = Checked(req[c], record)]
      BY <1>3, <2>3 DEF Load
    <3>2. Lawful(Checked(req[c], record))
      BY <1>1, <2>3, CheckedLawful DEF FairInv
    <3> QED  BY <2>1, <3>1, <3>2, FairStep DEF FairInv
  <2> QED  BY <2>2, <2>3
<1>4. CASE ReadRow(c)
  <2> DEFINE v == [req[c] EXCEPT !.at = "refill", !.seen = Rebuilt]
  <2>1. req' = [req EXCEPT ![c] = v]
    BY <1>4 DEF ReadRow, TypeOK
  <2>2. Rebuilt.lastOffer = row.lastOffer
    BY DEF Rebuilt
  <2>3. Lawful(v)
    BY <1>1, <2>2 DEF Lawful, Passed, RequestState, FairInv
  <2>4. UNCHANGED <<row, valuation, record>>
    BY <1>4 DEF ReadRow, postgres, redis
  <2> HIDE DEF v
  <2> QED  BY <2>1, <2>3, <2>4, FairStep DEF FairInv
<1>5. CASE Refill(c)
  <2>1. /\ req' = [req EXCEPT ![c] = Checked(req[c], req[c].seen)]
        /\ record' = req[c].seen /\ UNCHANGED <<row, valuation>>
        /\ InLimits(req[c].seen.lastOffer)
    BY <1>1, <1>5 DEF Refill, postgres, At, Lawful
  <2>2. Lawful(Checked(req[c], req[c].seen))
    BY <1>1, <2>1, CheckedLawful
  <2> QED  BY <2>1, <2>2, FairStep
<1>6. CASE Guard(c)
  <2>1. PICK place \in {"blocked", "stall", "write"} :
          Go(c, place) /\ (place # "blocked" => ~Guarded(c))
    BY <1>6 DEF Guard
  <2>2. req[c].act.role \in Roles /\ InLimits(req[c].seen.lastOffer)
    BY <1>1, <1>6, RequestFacts DEF Guard, At, Lawful
  <2>3. place # "blocked" => ~Breaches(req[c].seen, req[c].act)
    BY <2>1, <2>2 DEF Guarded, FairInv
  <2>4. Lawful([req[c] EXCEPT !.at = place])
    BY <1>1, <2>2, <2>3 DEF Lawful, Passed, RequestState
  <2>5. UNCHANGED <<row, valuation, record>>
    BY <1>6 DEF Guard, postgres, redis
  <2> QED  BY <2>1, <2>4, <2>5, FairStep DEF FairInv, Go
<1>7. CASE WrongRound(c) \/ Write(c) \/ EndWrite(c) \/ EndSet(c) \/ Publish(c)
           \/ ResetFailures(c)
  <2>1. PICK place \in {"rollback", "escrow", "publish", "endread", "reset", "commit"} :
          Go(c, place) /\ (place \in Passed => req[c].at \in Passed)
    BY <1>7 DEF WrongRound, Write, EndWrite, EndSet, Publish, ResetFailures, Passed, At
  <2>2. req[c].at \notin {"idle", "load", "miss"}
    BY <1>7 DEF WrongRound, Write, EndWrite, EndSet, Publish, ResetFailures, At
  <2>3. Lawful([req[c] EXCEPT !.at = place])
    BY <1>1, <2>1, <2>2 DEF Lawful, Passed, RequestState
  <2>4. UNCHANGED <<row, valuation>>
    BY <1>7 DEF WrongRound, Write, EndWrite, EndSet, Publish, ResetFailures, postgres, redis
  <2>5. record' # Missing => InLimits(record'.lastOffer)
    <3>1. CASE Publish(c)
      <4>1. /\ ~Breaches(req[c].seen, req[c].act) /\ InLimits(req[c].seen.lastOffer)
            /\ req[c].seen \in SessionRecord /\ req[c].act \in Envelope
        BY <1>1, <3>1, RequestFacts DEF Publish, At, Lawful, Passed
      <4>2. req[c].seen.lastOffer \in [Roles -> MaybePrice]
        BY <4>1 DEF SessionRecord
      <4>3. InLimits(Written(c).lastOffer)
        <5> DEFINE a == req[c].act
        <5>1. Written(c).lastOffer = IF a.price = NoOffer THEN req[c].seen.lastOffer
                                     ELSE [req[c].seen.lastOffer EXCEPT ![a.role] = a.price]
          BY MovedOffers DEF Written
        <5> QED  BY <4>1, <4>2, <5>1, PassedOffer
      <4> QED  BY <3>1, <4>3 DEF Publish
    <3>2. CASE EndSet(c)
      <4>1. record'.lastOffer = req[c].seen.lastOffer
        <5>1. req[c].ending \in TerminalStates /\ req[c].seen \in SessionRecord
          BY <1>1, <3>2 DEF EndSet, At, RequestState, TerminalStates
        <5> QED  BY <3>2, <5>1, EndedTyped DEF EndSet
      <4> QED  BY <1>1, <2>2, <4>1 DEF Lawful
    <3>3. CASE ~Publish(c) /\ ~EndSet(c)
      BY <1>7, <3>3 DEF WrongRound, Write, EndWrite, ResetFailures, redis, FairInv
    <3> QED  BY <3>1, <3>2, <3>3
  <2> QED  BY <2>1, <2>3, <2>4, <2>5, FairStep DEF Go
<1>8. CASE CountBlock(c)
  <2>1. PICK v \in {[req[c] EXCEPT !.at = "end", !.ending = "POLICY_BREACH"],
                    [req[c] EXCEPT !.at = "rollback"]} : req' = [req EXCEPT ![c] = v]
    BY <1>8 DEF CountBlock
  <2>2. Lawful(v)
    BY <1>1, <1>8, <2>1 DEF CountBlock, At, Lawful, Passed, RequestState
  <2>3. UNCHANGED <<row, valuation, record>>
    BY <1>8 DEF CountBlock, postgres
  <2> QED  BY <2>1, <2>2, <2>3, FairStep DEF FairInv
<1>9. CASE CountStall(c)
  <2> DEFINE v == [req[c] EXCEPT !.at = "write", !.stalls = stall', !.before = stall]
  <2>1. req' = [req EXCEPT ![c] = v]
    BY <1>9 DEF CountStall, TypeOK
  <2>2. Lawful(v)
    BY <1>1, <1>9 DEF CountStall, At, Lawful, Passed, RequestState
  <2>3. UNCHANGED <<row, valuation, record>>
    BY <1>9 DEF CountStall, postgres
  <2> HIDE DEF v
  <2> QED  BY <2>1, <2>2, <2>3, FairStep DEF FairInv
<1>10. CASE TriggerEscrow(c)
  <2>1. PICK deployed \in BOOLEAN :
          req' = [req EXCEPT ![c].at = "publish", ![c].deployed = deployed]
    BY <1>10 DEF TriggerEscrow
  <2> DEFINE v == [req[c] EXCEPT !.at = "publish", !.deployed = deployed]
  <2>2. req' = [req EXCEPT ![c] = v]
    BY <2>1 DEF TypeOK
  <2>3. Lawful(v)
    BY <1>1, <1>10 DEF TriggerEscrow, At, Lawful, Passed, RequestState
  <2>4. UNCHANGED <<row, valuation, record>>
    BY <1>10 DEF TriggerEscrow, postgres, redis
  <2> HIDE DEF v
  <2> QED  BY <2>2, <2>3, <2>4, FairStep DEF FairInv
<1>11. CASE EndRead(c)
  <2>1. PICK v \in {[req[c] EXCEPT !.at = "rollback"],
                    [req[c] EXCEPT !.at = "endset", !.seen = record]} :
          /\ req' = [req EXCEPT ![c] = v]
          /\ v = [req[c] EXCEPT !.at = "endset", !.seen = record] => record # Missing
    <3>1. CASE record = Missing
      <4>1. req' = [req EXCEPT ![c] = [req[c] EXCEPT !.at = "rollback"]]
        BY <1>11, <3>1 DEF EndRead
      <4>2. [req[c] EXCEPT !.at = "rollback"].at = "rollback"
            /\ [req[c] EXCEPT !.at = "endset", !.seen = record].at = "endset"
        BY <1>1 DEF RequestState
      <4> QED  BY <4>1, <4>2
    <3>2. CASE record # Missing
      BY <1>11, <3>2 DEF EndRead
    <3> QED  BY <3>1, <3>2
  <2>2. Lawful(v)
    BY <1>1, <1>11, <2>1 DEF EndRead, At, Lawful, Passed, RequestState, FairInv
  <2>3. UNCHANGED <<row, valuation, record>>
    BY <1>11 DEF EndRead, postgres, redis
  <2> QED  BY <2>1, <2>2, <2>3, FairStep DEF FairInv
<1>12. CASE Rollback(c) \/ Abort(c)
  <2>1. req' = [req EXCEPT ![c] = Idle] /\ UNCHANGED <<row, valuation, record>>
    BY <1>12 DEF Rollback, Abort, Leave, redis
  <2> QED  BY <1>2, <2>1, FairStep DEF FairInv
<1>13. CASE Commit(c)
  <2> DEFINE a == req[c].act
  <2>1. /\ ~Breaches(req[c].seen, a) /\ InLimits(req[c].seen.lastOffer)
        /\ req[c].seen \in SessionRecord /\ a \in Envelope
    BY <1>1, <1>13, RequestFacts DEF Commit, At, Lawful, Passed
  <2>2. row'.lastOffer = IF a.price = NoOffer THEN row.lastOffer
                         ELSE [row.lastOffer EXCEPT ![a.role] = a.price]
    BY <1>13 DEF Commit
  <2>3. InLimits(row'.lastOffer)
    <3> DEFINE lo == row.lastOffer
    <3>1. lo \in [Roles -> MaybePrice]
      BY DEF TypeOK
    <3>2. InLimits(lo)
      BY DEF FairInv
    <3> HIDE DEF a, lo
    <3>3. InLimits(IF a.price = NoOffer THEN lo ELSE [lo EXCEPT ![a.role] = a.price])
      BY ONLY <2>1, <3>1, <3>2, PassedOffer
    <3> QED  BY ONLY <2>2, <3>3 DEF lo
  <2>4. row'.agreed = IF a.kind = "accept" THEN ClosingPrice(req[c].seen, a) ELSE row.agreed
    BY <1>13 DEF Commit
  <2>5. DealIsFair'
    BY <2>1, <2>4, PassedAccept DEF DealIsFair, FairInv
  <2>6. \A d \in Clients : req'[d] = IF d = c THEN Idle ELSE req[d]
    BY <1>13 DEF Commit, Leave, TypeOK
  <2>7. \A d \in Clients : Lawful(req'[d])
    BY <1>2, <2>6 DEF FairInv
  <2>8. UNCHANGED <<valuation, record>>
    BY <1>13 DEF Commit, redis
  <2> QED  BY <2>3, <2>5, <2>7, <2>8 DEF FairInv, Lawful
<1> QED
  BY <1>3, <1>4, <1>5, <1>6, <1>7, <1>8, <1>9, <1>10, <1>11, <1>12, <1>13 DEF Advance

(* While the valuation snapshots stay in Redis, no number of overlapping    *)
(* requests, rebuilds, stale copies, evicted records or lost transactions   *)
(* closes a deal below the seller's floor or above the buyer's ceiling.     *)
THEOREM NoUnfairDeal ==
    ASSUME \A r \in Roles : <<"valuation", r>> \notin Keys
    PROVE  Spec => []DealIsFair
<1>1. Init => FairInv
  <2> SUFFICES ASSUME Init PROVE FairInv
    OBVIOUS
  <2>1. PICK opening \in Prices :
          ValidOpening(opening) /\ record = Opened(opening)
          /\ row.lastOffer = Opened(opening).lastOffer /\ row.agreed = NoOffer
    BY DEF Init
  <2>2. InLimits(Opened(opening).lastOffer)
    BY <2>1 DEF InLimits, Opened, ValidOpening, Roles
  <2>3. \A c \in Clients : Lawful(req[c])
    BY DEF Init, Lawful, Idle, Passed
  <2> QED  BY <2>1, <2>2, <2>3 DEF Init, FairInv, DealIsFair
<1>2. TypeOK /\ FairInv /\ [Next]_vars => FairInv'
  <2> SUFFICES ASSUME TypeOK, FairInv, [Next]_vars PROVE FairInv'
    OBVIOUS
  <2>1. ASSUME NEW c \in Clients, NEW a \in Requests, Arrive(c, a) PROVE FairInv'
    <3> DEFINE v == [Idle EXCEPT !.at = "load", !.act = a]
    <3>1. Lawful(v)
      BY DEF Lawful, Idle, Passed
    <3>2. req' = [req EXCEPT ![c] = v] /\ UNCHANGED <<row, valuation, record>>
      BY <2>1 DEF Arrive, postgres, redis
    <3> HIDE DEF v
    <3> QED  BY <3>1, <3>2, FairStep DEF FairInv
  <2>2. ASSUME NEW key \in Keys, Vanish(key) PROVE FairInv'
    <3>1. valuation' = Roles
      BY <2>2 DEF Vanish, FairInv
    <3>2. record' \in {record, Missing} /\ UNCHANGED <<row, req>>
      BY <2>2 DEF Vanish, postgres
    <3> QED  BY <3>1, <3>2 DEF FairInv, DealIsFair, Lawful
  <2>3. CASE PassDeadline \/ UNCHANGED vars
    <3>1. UNCHANGED <<row, valuation, record, req>>
      BY <2>3 DEF PassDeadline, vars, postgres, redis
    <3> QED  BY <3>1 DEF FairInv, DealIsFair, Lawful
  <2> QED  BY <2>1, <2>2, <2>3, AdvanceIsFair DEF Next
<1>3. FairInv => DealIsFair
  BY DEF FairInv
<1> QED  BY <1>1, <1>2, <1>3, StoreTypeCorrect, PTL DEF Spec

-------------------------------------------------------------------------------
(* The two stores.                                                          *)

(* The places at which a request has written Redis and not yet PostgreSQL.  *)
Ahead == {"reset", "commit"}

(* A step of one request leaves the others where they are.                  *)
LEMMA OthersStay ==
    ASSUME TypeOK, NEW c \in Clients, Advance(c)
    PROVE  \A d \in Clients \ {c} : req'[d] = req[d]
BY DEF Advance, Load, ReadRow, Refill, WrongRound, Guard, CountBlock, CountStall, Write,
       TriggerEscrow, Publish, ResetFailures, Commit, EndWrite, EndRead, EndSet, Rollback, Go,
       Leave, TypeOK

(* The row's lock keeps a second request from being ahead.                  *)
LEMMA AloneAhead ==
    ASSUME LockHeld, NEW c \in Clients, req[c].at \in Holding
    PROVE  \A d \in Clients \ {c} : req[d].at \notin Holding
BY DEF LockHeld

(* STEPS 3 to 6 send a request on to one of four places.                    *)
LEMMA CheckedPlaces ==
    ASSUME NEW r \in RequestState, NEW s
    PROVE  Checked(r, s).at \in {"idle", "end", "guard", "wrong"}
<1> DEFINE T == s.status \in TerminalStates
           E == s.status \in ActiveStates /\ expired
           O == s.status \in ActiveStates /\ ~expired /\ r.act.role # TurnOf(s)
<1>1. CASE T \/ O  BY <1>1 DEF Checked, TerminalStates, ActiveStates, Idle
<1>2. CASE E /\ ~T  BY <1>2 DEF Checked, RequestState
<1>3. CASE ~T /\ ~E /\ ~O  BY <1>3 DEF Checked, RequestState
<1> QED  BY <1>1, <1>2, <1>3

(* What the record and the row have in common while nobody is ahead.        *)
SameState ==
    \/ record.status \in {"TIMEOUT", "POLICY_BREACH"}
    \/ record.status = row.status /\ record.round = row.round

(* The record is there, so nobody rebuilds it; it is what the request that  *)
(* is ahead published, or else what the last transaction committed.         *)
AgreeInv ==
    /\ record # Missing
    /\ \A c \in Clients : req[c].at \notin {"miss", "refill"}
    /\ \A c \in Clients : req[c].at \in Ahead => record = Written(c)
    /\ (\A c \in Clients : req[c].at \notin Ahead) => SameState

(* Steps that write neither store.                                          *)
LEMMA AgreeQuiet ==
    ASSUME TypeOK, AgreeInv, NEW c \in Clients,
           \A d \in Clients \ {c} : req'[d] = req[d],
           UNCHANGED <<row, record>>,
           req[c].at \notin Ahead, req'[c].at \notin {"miss", "refill"} \cup Ahead
    PROVE  AgreeInv'
<1>1. \A d \in Clients : req'[d].at \in Ahead => d # c /\ req[d].at \in Ahead /\ req'[d] = req[d]
  OBVIOUS
<1>2. \A d \in Clients : req'[d].at \in Ahead => Written(d)' = Written(d)
  BY <1>1 DEF Written
<1>3. \A d \in Clients : req'[d].at \notin {"miss", "refill"}
  BY DEF AgreeInv
<1>4. (\A d \in Clients : req'[d].at \notin Ahead) => SameState'
  BY DEF AgreeInv, SameState
<1> QED  BY <1>1, <1>2, <1>3, <1>4 DEF AgreeInv

(* Every step of a request keeps the stores in agreement.                   *)
LEMMA AdvanceKeepsAgreement ==
    ASSUME TypeOK, LockHeld, AgreeInv, NEW c \in Clients, Advance(c)
    PROVE  AgreeInv'
<1>1. \A d \in Clients \ {c} : req'[d] = req[d]
  BY OthersStay
<1>2. req \in [Clients -> RequestState] /\ req[c] \in RequestState
  BY DEF TypeOK
<1>3. CASE Load(c)
  <2>1. req' = [req EXCEPT ![c] = Checked(req[c], record)]
    BY <1>3 DEF Load, AgreeInv
  <2>2. req'[c].at \in {"idle", "end", "guard", "wrong"}
    BY <1>2, <2>1, CheckedPlaces
  <2>3. UNCHANGED <<row, record>> /\ req[c].at = "load"
    BY <1>3 DEF Load, At, postgres, redis
  <2> QED  BY <1>1, <2>2, <2>3, AgreeQuiet DEF Ahead
<1>4. CASE ReadRow(c) \/ Refill(c)
  BY <1>4 DEF ReadRow, Refill, At, AgreeInv
<1>5. CASE WrongRound(c) \/ Guard(c) \/ CountBlock(c) \/ CountStall(c)
           \/ Write(c) \/ TriggerEscrow(c) \/ EndWrite(c) \/ EndRead(c) \/ Rollback(c)
  <2>1. UNCHANGED <<row, record>>
    BY <1>5 DEF WrongRound, Guard, CountBlock, CountStall, Write, TriggerEscrow, EndWrite, EndRead,
                Rollback, postgres, redis
  <2>2. req[c].at \notin Ahead
    BY <1>5 DEF WrongRound, Guard, CountBlock, CountStall, Write, TriggerEscrow, EndWrite, EndRead,
                Rollback, At, Ahead
  <2>3. req'[c].at \in Places \ ({"miss", "refill"} \cup Ahead)
    <3>1. CASE WrongRound(c) \/ Write(c) \/ EndWrite(c)
      BY <1>2, <3>1 DEF WrongRound, Write, EndWrite, Go, RequestState, Places, Ahead
    <3>2. CASE Guard(c)       BY <1>2, <3>2 DEF Guard, Go, RequestState, Places, Ahead
    <3>3. CASE CountBlock(c)  BY <1>2, <3>3 DEF CountBlock, RequestState, Places, Ahead
    <3>4. CASE CountStall(c)  BY <1>2, <3>4 DEF CountStall, RequestState, Places, Ahead
    <3>5. CASE TriggerEscrow(c)
      BY <1>2, <3>5 DEF TriggerEscrow, RequestState, Places, Ahead
    <3>6. CASE EndRead(c)     BY <1>2, <3>6 DEF EndRead, RequestState, Places, Ahead
    <3>7. CASE Rollback(c)    BY <1>2, <3>7 DEF Rollback, Leave, Idle, Places, Ahead
    <3> QED  BY <1>5, <3>1, <3>2, <3>3, <3>4, <3>5, <3>6, <3>7
  <2> QED  BY <1>1, <2>1, <2>2, <2>3, AgreeQuiet
<1>6. CASE Publish(c) \/ ResetFailures(c)
  <2>1. req'[c] = [req[c] EXCEPT !.at = req'[c].at] /\ req'[c].at \in Ahead
    BY <1>2, <1>6 DEF Publish, ResetFailures, Go, RequestState, Ahead
  <2>2. Written(c)' = Written(c)
    BY <1>2, <2>1 DEF Written, RequestState
  <2>3. record' = Written(c)'
    BY <1>6, <2>2 DEF Publish, ResetFailures, At, AgreeInv, Ahead
  <2>4. record' # Missing
    <3>1. Written(c) \in SessionRecord
      BY <1>6, WrittenTyped DEF Publish, ResetFailures, At
    <3> QED  BY <2>2, <2>3, <3>1, StoreAssumption
  <2>5. \A d \in Clients \ {c} : req'[d].at \notin Ahead
    BY <1>1, <1>6, AloneAhead DEF Publish, ResetFailures, At, Holding, Ahead
  <2> QED  BY <1>1, <2>1, <2>3, <2>4, <2>5 DEF AgreeInv, Ahead
<1>7. CASE Commit(c)
  <2>1. record' = record /\ record = Written(c)
    BY <1>7 DEF Commit, At, AgreeInv, Ahead, redis
  <2>2. row'.status = Written(c).status /\ row'.round = Written(c).round
    BY <1>7 DEF Commit
  <2>3. \A d \in Clients : req'[d].at \notin {"miss", "refill"} \cup Ahead
    <3>1. req'[c].at = "idle"
      BY <1>2, <1>7 DEF Commit, Leave, Idle
    <3>2. \A d \in Clients \ {c} : req[d].at \notin Ahead
      BY <1>7, AloneAhead DEF Commit, At, Holding, Ahead
    <3> QED  BY <1>1, <3>1, <3>2 DEF AgreeInv, Ahead
  <2> QED  BY <2>1, <2>2, <2>3 DEF AgreeInv, SameState
<1>8. CASE EndSet(c)
  <2>1. record' = Ended(req[c].seen, req[c].ending) /\ req[c].at = "endset"
    BY <1>8 DEF EndSet, At
  <2>2. req[c].ending \in {"TIMEOUT", "POLICY_BREACH"} /\ req[c].seen \in SessionRecord
    BY <1>2, <2>1 DEF RequestState
  <2>3. record' \in SessionRecord /\ record'.status \in {"TIMEOUT", "POLICY_BREACH"}
    BY <2>1, <2>2, EndedTyped DEF TerminalStates
  <2>4. \A d \in Clients : req'[d].at \notin {"miss", "refill"} \cup Ahead
    <3>1. req'[c].at = "rollback"
      BY <1>2, <1>8 DEF EndSet, Go, RequestState
    <3>2. \A d \in Clients \ {c} : req[d].at \notin Ahead
      BY <2>1, AloneAhead DEF Holding, Ahead
    <3> QED  BY <1>1, <3>1, <3>2 DEF AgreeInv, Ahead
  <2> QED  BY <2>3, <2>4, StoreAssumption DEF AgreeInv, SameState
<1> QED  BY <1>3, <1>4, <1>5, <1>6, <1>7, <1>8 DEF Advance

(* As long as Redis keeps the record and no transaction is lost, the two    *)
(* stores agree whenever no request is under way, for any number of         *)
(* overlapping requests.                                                    *)
THEOREM QuietStoresAgree ==
    ASSUME MayAbort = FALSE, <<"session">> \notin Keys
    PROVE  Spec => []StoresAgree
<1>1. Init => AgreeInv
  <2> SUFFICES ASSUME Init PROVE AgreeInv
    OBVIOUS
  <2>1. PICK opening \in Prices :
          /\ record = Opened(opening)
          /\ row = [status |-> "BUYER_ANCHOR", round |-> 1,
                    lastOffer |-> Opened(opening).lastOffer, agreed |-> NoOffer]
    BY DEF Init
  <2>2. record \in SessionRecord \cup {Missing} /\ Missing \notin SessionRecord
    BY StoreAssumption, InitTyped DEF TypeOK
  <2>3. Opened(opening) \in SessionRecord
    BY DEF Opened, SessionRecord, MaybePrice, Roles, ActiveStates
  <2>4. record.status = row.status /\ record.round = row.round
    BY <2>1 DEF Opened
  <2>5. \A c \in Clients : req[c].at = "idle"
    BY DEF Init, Idle
  <2> QED  BY <2>1, <2>2, <2>3, <2>4, <2>5 DEF AgreeInv, SameState, Ahead
<1>2. TypeOK /\ LockHeld /\ AgreeInv /\ [Next]_vars => AgreeInv'
  <2> SUFFICES ASSUME TypeOK, LockHeld, AgreeInv, [Next]_vars PROVE AgreeInv'
    OBVIOUS
  <2>1. ASSUME NEW c \in Clients, NEW a \in Requests, Arrive(c, a) PROVE AgreeInv'
    <3>1. /\ \A d \in Clients \ {c} : req'[d] = req[d]
          /\ req[c].at = "idle" /\ req'[c].at = "load"
          /\ UNCHANGED <<row, record>>
      BY <2>1 DEF Arrive, At, postgres, redis, TypeOK, Idle
    <3> QED  BY <3>1, AgreeQuiet DEF Ahead
  <2>2. CASE (\E key \in Keys : Vanish(key)) \/ PassDeadline \/ UNCHANGED vars
    <3>1. UNCHANGED <<req, row, record>>
      BY <2>2 DEF Vanish, PassDeadline, vars, postgres, redis
    <3> QED  BY <3>1 DEF AgreeInv, SameState, Written
  <2>3. ASSUME NEW c \in Clients PROVE ~Abort(c)
    BY DEF Abort
  <2> QED  BY <2>1, <2>2, <2>3, AdvanceKeepsAgreement DEF Next
<1>3. AgreeInv => StoresAgree
  BY DEF AgreeInv, SameState, StoresAgree, Quiet, At, Ahead
<1> QED  BY <1>1, <1>2, <1>3, StoreTypeCorrect, LockDiscipline, PTL DEF Spec

-------------------------------------------------------------------------------
(* Deals and offers.                                                        *)

(* An offer that PostgreSQL holds, or that the request which is ahead will  *)
(* commit.                                                                  *)
Tabled(r, p) ==
    \/ \E i \in DOMAIN offers : offers[i].role = r /\ offers[i].price = p
    \/ \E c \in Clients : req[c].at \in Ahead /\ req[c].act.role = r /\ req[c].act.price = p

OnTable(lastOffer) == \A r \in Roles : lastOffer[r] # NoOffer => Tabled(r, lastOffer[r])

(* Every copy of the last offers, wherever it is kept, is on the table.     *)
TableInv ==
    /\ OnTable(row.lastOffer)
    /\ record # Missing => OnTable(record.lastOffer)
    /\ \A c \in Clients : req[c].at \notin {"idle", "load", "miss"} => OnTable(req[c].seen.lastOffer)
    /\ DealOnTable

(* What a step leaves alone and what it keeps within reach.                 *)
LEMMA TableStays ==
    ASSUME NEW c \in Clients,
           \A d \in Clients \ {c} : req'[d] = req[d],
           offers' = offers,
           req[c].at \in Ahead => req'[c].at \in Ahead /\ req'[c].act = req[c].act
    PROVE  \A r, p : Tabled(r, p) => Tabled(r, p)'
<1> SUFFICES ASSUME NEW r, NEW p, Tabled(r, p) PROVE Tabled(r, p)'
  OBVIOUS
<1>1. CASE \E i \in DOMAIN offers : offers[i].role = r /\ offers[i].price = p
  BY <1>1 DEF Tabled
<1>2. CASE \E d \in Clients : req[d].at \in Ahead /\ req[d].act.role = r /\ req[d].act.price = p
  <2>1. PICK d \in Clients : req[d].at \in Ahead /\ req[d].act.role = r /\ req[d].act.price = p
    BY <1>2
  <2>2. req'[d].at \in Ahead /\ req'[d].act = req[d].act
    BY <2>1
  <2> QED  BY <2>1, <2>2 DEF Tabled
<1> QED  BY <1>1, <1>2 DEF Tabled

(* Steps after which every copy is one of the copies before.                *)
LEMMA TableStep ==
    ASSUME TypeOK, TableInv, NEW c \in Clients,
           \A d \in Clients \ {c} : req'[d] = req[d],
           UNCHANGED <<row, offers>>,
           req[c].at \in Ahead => req'[c].at \in Ahead /\ req'[c].act = req[c].act,
           record' # Missing => OnTable(record'.lastOffer),
           req'[c].at \notin {"idle", "load", "miss"} => OnTable(req'[c].seen.lastOffer)
    PROVE  TableInv'
<1>1. \A r, p : Tabled(r, p) => Tabled(r, p)'
  BY TableStays
<1>2. \A lo : OnTable(lo) => \A r \in Roles : lo[r] # NoOffer => Tabled(r, lo[r])'
  BY <1>1 DEF OnTable
<1>3. OnTable(row.lastOffer)'
  BY <1>2 DEF TableInv, OnTable
<1>4. (record # Missing => OnTable(record.lastOffer))'
  BY <1>2 DEF OnTable
<1>5. \A d \in Clients : req'[d].at \notin {"idle", "load", "miss"} => OnTable(req'[d].seen.lastOffer)
  BY DEF TableInv
<1>6. (\A d \in Clients : req[d].at \notin {"idle", "load", "miss"} => OnTable(req[d].seen.lastOffer))'
  BY <1>2, <1>5 DEF OnTable
<1>7. DealOnTable'
  BY DEF TableInv, DealOnTable
<1> QED  BY <1>3, <1>4, <1>6, <1>7 DEF TableInv

(* STEPS 3 to 6 keep the copy that was checked.                             *)
LEMMA CheckedCopy ==
    ASSUME NEW r \in RequestState, NEW s
    PROVE  Checked(r, s).at # "idle" => Checked(r, s).seen = s
<1> DEFINE T == s.status \in TerminalStates
           E == s.status \in ActiveStates /\ expired
           O == s.status \in ActiveStates /\ ~expired /\ r.act.role # TurnOf(s)
<1>1. CASE T \/ O  BY <1>1 DEF Checked, TerminalStates, ActiveStates, Idle
<1>2. CASE E /\ ~T  BY <1>2 DEF Checked, RequestState
<1>3. CASE ~T /\ ~E /\ ~O  BY <1>3 DEF Checked, RequestState
<1> QED  BY <1>1, <1>2, <1>3

(* Every step of a request keeps every copy on the table.                   *)
LEMMA AdvanceKeepsTable ==
    ASSUME TypeOK, LockHeld, TableInv, NEW c \in Clients, Advance(c)
    PROVE  TableInv'
<1>1. \A d \in Clients \ {c} : req'[d] = req[d]
  BY OthersStay
<1>2. req \in [Clients -> RequestState] /\ req[c] \in RequestState
  BY DEF TypeOK
<1>3. record # Missing => OnTable(record.lastOffer)
  BY DEF TableInv
<1>4. req[c].at \notin {"idle", "load", "miss"} => OnTable(req[c].seen.lastOffer)
  BY DEF TableInv
<1>5. CASE Load(c) \/ ReadRow(c)
  <2>1. UNCHANGED <<row, offers, record>> /\ req[c].at \notin Ahead
    BY <1>5 DEF Load, ReadRow, At, Ahead, postgres, redis
  <2>2. req'[c].at \notin {"idle", "load", "miss"} => OnTable(req'[c].seen.lastOffer)
    <3>1. CASE Load(c) /\ record = Missing
      BY <1>2, <3>1 DEF Load, RequestState
    <3>2. CASE Load(c) /\ record # Missing
      <4>1. req'[c] = Checked(req[c], record)
        BY <1>2, <3>2 DEF Load
      <4> QED  BY <1>2, <1>3, <3>2, <4>1, CheckedCopy
    <3>3. CASE ReadRow(c)
      <4>1. req'[c].seen = Rebuilt
        BY <1>2, <3>3 DEF ReadRow, RequestState
      <4>2. Rebuilt.lastOffer = row.lastOffer
        BY DEF Rebuilt
      <4> QED  BY <4>1, <4>2 DEF TableInv
    <3> QED  BY <1>5, <3>1, <3>2, <3>3
  <2> QED  BY <1>1, <1>3, <2>1, <2>2, TableStep
<1>6. CASE Refill(c)
  <2>1. UNCHANGED <<row, offers>> /\ req[c].at = "refill" /\ record' = req[c].seen
    BY <1>6 DEF Refill, At, postgres
  <2>2. req'[c] = Checked(req[c], req[c].seen)
    BY <1>2, <1>6 DEF Refill
  <2>3. OnTable(record'.lastOffer)
    BY <1>4, <2>1
  <2>4. req'[c].at \notin {"idle", "load", "miss"} => OnTable(req'[c].seen.lastOffer)
    BY <1>2, <1>4, <2>1, <2>2, CheckedCopy
  <2> QED  BY <1>1, <2>1, <2>3, <2>4, TableStep DEF Ahead
<1>7. CASE WrongRound(c) \/ Guard(c) \/ CountBlock(c) \/ CountStall(c)
           \/ Write(c) \/ TriggerEscrow(c) \/ EndWrite(c) \/ ResetFailures(c)
  <2>1. UNCHANGED <<row, offers, record>>
    BY <1>7 DEF WrongRound, Guard, CountBlock, CountStall, Write, TriggerEscrow, EndWrite,
                ResetFailures, postgres, redis
  <2>2. /\ req'[c].seen = req[c].seen /\ req'[c].act = req[c].act
        /\ req[c].at \in Ahead => req'[c].at \in Ahead
        /\ req[c].at \notin {"idle", "load", "miss"}
    <3>1. CASE WrongRound(c) \/ Write(c) \/ EndWrite(c) \/ ResetFailures(c)
      BY <1>2, <3>1 DEF WrongRound, Write, EndWrite, ResetFailures, Go, RequestState, At, Ahead
    <3>2. CASE Guard(c)       BY <1>2, <3>2 DEF Guard, Go, RequestState, At, Ahead
    <3>3. CASE CountBlock(c)  BY <1>2, <3>3 DEF CountBlock, RequestState, At, Ahead
    <3>4. CASE CountStall(c)  BY <1>2, <3>4 DEF CountStall, RequestState, At, Ahead
    <3>5. CASE TriggerEscrow(c)
      BY <1>2, <3>5 DEF TriggerEscrow, RequestState, At, Ahead
    <3> QED  BY <1>7, <3>1, <3>2, <3>3, <3>4, <3>5
  <2> QED  BY <1>1, <1>3, <1>4, <2>1, <2>2, TableStep
<1>8. CASE EndRead(c) \/ EndSet(c) \/ Rollback(c)
  <2>1. UNCHANGED <<row, offers>> /\ req[c].at \notin Ahead
    BY <1>8 DEF EndRead, EndSet, Rollback, At, Ahead, postgres
  <2>2. record' # Missing => OnTable(record'.lastOffer)
    <3>1. CASE EndSet(c)
      <4>1. req[c].ending \in TerminalStates /\ req[c].seen \in SessionRecord /\ req[c].at = "endset"
        BY <1>2, <3>1 DEF EndSet, At, RequestState, TerminalStates
      <4>2. record'.lastOffer = req[c].seen.lastOffer
        BY <3>1, <4>1, EndedTyped DEF EndSet
      <4> QED  BY <1>4, <4>1, <4>2
    <3>2. CASE EndRead(c) \/ Rollback(c)
      BY <1>3, <3>2 DEF EndRead, Rollback, redis
    <3> QED  BY <1>8, <3>1, <3>2
  <2>3. req'[c].at \notin {"idle", "load", "miss"} => OnTable(req'[c].seen.lastOffer)
    <3>1. CASE EndRead(c) /\ record # Missing
      BY <1>2, <1>3, <3>1 DEF EndRead, RequestState
    <3>2. CASE EndRead(c) /\ record = Missing
      BY <1>2, <1>4, <3>2 DEF EndRead, RequestState, At
    <3>3. CASE EndSet(c)
      BY <1>2, <1>4, <3>3 DEF EndSet, Go, RequestState, At
    <3>4. CASE Rollback(c)
      BY <1>2, <3>4 DEF Rollback, Leave, Idle
    <3> QED  BY <1>8, <3>1, <3>2, <3>3, <3>4
  <2> QED  BY <1>1, <2>1, <2>2, <2>3, TableStep
<1>9. CASE Publish(c)
  <2> DEFINE a == req[c].act
             lo == req[c].seen.lastOffer
             new == IF a.price = NoOffer THEN lo ELSE [lo EXCEPT ![a.role] = a.price]
  <2>1. /\ UNCHANGED <<row, offers>> /\ req[c].at = "publish" /\ record' = Written(c)
        /\ req'[c].at \in Ahead /\ req'[c].act = a /\ req'[c].seen = req[c].seen
    BY <1>2, <1>9 DEF Publish, Go, At, Ahead, RequestState, postgres
  <2>2. a \in Envelope /\ req[c].seen \in SessionRecord
    BY <2>1, RequestFacts
  <2>3. lo \in [Roles -> MaybePrice]
    BY <2>2 DEF SessionRecord
  <2>4. \A r, p : Tabled(r, p) => Tabled(r, p)'
    BY <1>1, <2>1, TableStays DEF Ahead
  <2>5. \A r \in Roles : \A p : p = lo[r] /\ p # NoOffer => Tabled(r, p)'
    BY <1>4, <2>1, <2>4 DEF OnTable
  <2>6. \A r, p : r = a.role /\ p = a.price => Tabled(r, p)'
    BY <2>1 DEF Tabled
  <2>7. record'.lastOffer = new
    BY <2>1, MovedOffers DEF Written
  <2>8. ASSUME NEW r \in Roles, NEW p, p = new[r], p # NoOffer PROVE Tabled(r, p)'
    <3>1. CASE a.price = NoOffer \/ r # a.role
      BY <2>3, <2>5, <2>8, <3>1
    <3>2. CASE a.price # NoOffer /\ r = a.role
      <4>1. p = a.price
        BY <2>3, <2>8, <3>2
      <4> QED  BY <2>6, <3>2, <4>1
    <3> QED  BY <3>1, <3>2
  <2>9. OnTable(record.lastOffer)'
    BY <2>7, <2>8 DEF OnTable
  <2>10. OnTable(row.lastOffer)' /\ DealOnTable'
    BY <2>1, <2>4 DEF TableInv, OnTable, DealOnTable
  <2>11. \A d \in Clients : req'[d].at \notin {"idle", "load", "miss"} => OnTable(req'[d].seen.lastOffer)
    BY <1>1, <2>1, <1>4 DEF TableInv
  <2>12. (\A d \in Clients : req[d].at \notin {"idle", "load", "miss"} => OnTable(req[d].seen.lastOffer))'
    BY <2>4, <2>11 DEF OnTable
  <2> QED  BY <2>9, <2>10, <2>12 DEF TableInv
<1>10. CASE Commit(c)
  <2> DEFINE a == req[c].act
             seen == req[c].seen
             n == Len(offers)
  <2>1. /\ req[c].at = "commit" /\ record' = record
        /\ offers' = Append(offers, RowOf(a))
        /\ row'.lastOffer = IF a.price = NoOffer THEN row.lastOffer
                            ELSE [row.lastOffer EXCEPT ![a.role] = a.price]
        /\ row'.agreed = IF a.kind = "accept" THEN ClosingPrice(seen, a) ELSE row.agreed
        /\ req'[c].at = "idle"
    BY <1>2, <1>10 DEF Commit, At, Leave, Idle, redis
  <2>2. a \in Envelope /\ seen \in SessionRecord /\ a.role \in Roles /\ a.price \in MaybePrice
    BY <2>1, RequestFacts, EnvelopeFacts
  <2>3. /\ n \in Nat /\ Len(offers') = n + 1 /\ DOMAIN offers = 1 .. n /\ DOMAIN offers' = 1 .. n + 1
        /\ \A i \in 1 .. n : offers'[i] = offers[i]
        /\ offers'[n + 1] = RowOf(a)
    BY <2>1, <2>2, EnvelopeFacts DEF TypeOK
  <2>4. \A r, p : Tabled(r, p) => Tabled(r, p)'
    <3> SUFFICES ASSUME NEW r, NEW p, Tabled(r, p) PROVE Tabled(r, p)'
      OBVIOUS
    <3>1. CASE \E i \in DOMAIN offers : offers[i].role = r /\ offers[i].price = p
      BY <2>3, <3>1 DEF Tabled
    <3>2. ASSUME NEW d \in Clients, req[d].at \in Ahead, req[d].act.role = r, req[d].act.price = p
          PROVE  Tabled(r, p)'
      <4>1. CASE d = c
        BY <2>2, <2>3, <3>2, <4>1, EnvelopeFacts DEF Tabled
      <4>2. CASE d # c
        BY <1>1, <3>2, <4>2 DEF Tabled
      <4> QED  BY <4>1, <4>2
    <3> QED  BY <3>1, <3>2 DEF Tabled
  <2>5. OnTable(row.lastOffer)'
    <3>1. \A r, p : r = a.role /\ p = a.price => Tabled(r, p)'
      BY <2>2, <2>3, EnvelopeFacts DEF Tabled
    <3>2. \A r \in Roles : \A p : p = row.lastOffer[r] /\ p # NoOffer => Tabled(r, p)'
      BY <2>4 DEF TableInv, OnTable
    <3>3. row.lastOffer \in [Roles -> MaybePrice]
      BY DEF TypeOK
    <3>4. ASSUME NEW r \in Roles, NEW p, p = row'.lastOffer[r], p # NoOffer PROVE Tabled(r, p)'
      <4>1. CASE a.price = NoOffer \/ r # a.role
        <5>1. p = row.lastOffer[r]
          BY <2>1, <3>3, <3>4, <4>1
        <5> QED  BY <3>2, <3>4, <5>1
      <4>2. CASE a.price # NoOffer /\ r = a.role
        <5>1. p = a.price
          BY <2>1, <3>3, <3>4, <4>2
        <5> QED  BY <3>1, <4>2, <5>1
      <4> QED  BY <4>1, <4>2
    <3> QED  BY <3>4 DEF OnTable
  <2>6. (record # Missing => OnTable(record.lastOffer))'
    BY <1>3, <2>1, <2>4 DEF OnTable
  <2>7. \A d \in Clients : req'[d].at \notin {"idle", "load", "miss"} => OnTable(req'[d].seen.lastOffer)
    BY <1>1, <2>1 DEF TableInv
  <2>8. (\A d \in Clients : req[d].at \notin {"idle", "load", "miss"} => OnTable(req[d].seen.lastOffer))'
    BY <2>4, <2>7 DEF OnTable
  <2>9. DealOnTable'
    <3>1. CASE a.kind = "accept"
      <4> DEFINE other == Other(a.role)
                 p == seen.lastOffer[other]
      <4>1. a.price = NoOffer /\ other \in Roles
        BY <2>2, <3>1, EnvelopeFacts, RoleFacts
      <4>2. SUFFICES ASSUME row'.agreed # NoOffer PROVE DealOnTable'
        BY DEF DealOnTable
      <4>3. p # NoOffer /\ row'.agreed = p
        BY <2>1, <3>1, <4>1, <4>2 DEF ClosingPrice
      <4>4. Tabled(other, p)
        BY <1>4, <2>1, <4>1, <4>3 DEF OnTable
      <4>5. PICK i \in DOMAIN offers : offers[i].role = other /\ offers[i].price = p
        <5>1. ASSUME NEW d \in Clients, req[d].at \in Ahead, req[d].act.role = other
              PROVE  FALSE
          <6>1. d = c
            BY <2>1, <5>1, AloneAhead DEF Holding, Ahead
          <6> QED  BY <2>2, <5>1, <6>1, RoleFacts
        <5> QED  BY <4>4, <5>1 DEF Tabled
      <4>6. /\ n + 1 \in DOMAIN offers' /\ i \in 1 .. (n + 1) - 1
            /\ offers'[n + 1].kind = "accept" /\ offers'[n + 1].role = a.role
            /\ offers'[i] = offers[i]
        BY <2>2, <2>3, <3>1, <4>5, EnvelopeFacts
      <4> QED  BY <4>3, <4>5, <4>6 DEF DealOnTable
    <3>2. CASE a.kind # "accept"
      <4>1. SUFFICES ASSUME row'.agreed # NoOffer PROVE DealOnTable'
        BY DEF DealOnTable
      <4>2. row'.agreed = row.agreed
        BY <2>1, <3>2
      <4>3. PICK j \in DOMAIN offers : \E i \in 1 .. j - 1 :
              /\ offers[j].kind = "accept" /\ offers[i].role = Other(offers[j].role)
              /\ offers[i].price = row.agreed
        BY <4>1, <4>2 DEF TableInv, DealOnTable
      <4>4. PICK i \in 1 .. j - 1 :
              /\ offers[j].kind = "accept" /\ offers[i].role = Other(offers[j].role)
              /\ offers[i].price = row.agreed
        BY <4>3
      <4>5. j \in DOMAIN offers' /\ offers'[j] = offers[j] /\ offers'[i] = offers[i]
        BY <2>3, <4>4
      <4> QED  BY <4>2, <4>4, <4>5 DEF DealOnTable
    <3> QED  BY <3>1, <3>2
  <2> QED  BY <2>5, <2>6, <2>8, <2>9 DEF TableInv
<1> QED  BY <1>5, <1>6, <1>7, <1>8, <1>9, <1>10 DEF Advance

(* As long as no transaction is lost, every deal was on the table: whatever *)
(* overlaps, is rebuilt or evicted, nobody accepts a price that PostgreSQL  *)
(* does not hold as an offer of the other party.                            *)
THEOREM DealsOnTable ==
    ASSUME MayAbort = FALSE
    PROVE  Spec => []DealOnTable
<1>1. Init => TableInv
  <2> SUFFICES ASSUME Init PROVE TableInv
    OBVIOUS
  <2>1. PICK opening \in Prices :
          /\ record = Opened(opening)
          /\ row = [status |-> "BUYER_ANCHOR", round |-> 1,
                    lastOffer |-> Opened(opening).lastOffer, agreed |-> NoOffer]
          /\ offers = <<[role |-> "buyer", kind |-> "counter", price |-> opening]>>
    BY DEF Init
  <2>2. 1 \in DOMAIN offers /\ offers[1].role = "buyer" /\ offers[1].price = opening
    BY <2>1
  <2>3. Opened(opening).lastOffer = [r \in Roles |-> IF r = "buyer" THEN opening ELSE NoOffer]
    BY DEF Opened
  <2>4. OnTable(Opened(opening).lastOffer)
    BY <2>2, <2>3 DEF OnTable, Tabled
  <2>5. \A c \in Clients : req[c].at = "idle"
    BY DEF Init, Idle
  <2> QED  BY <2>1, <2>4, <2>5 DEF TableInv, DealOnTable
<1>2. TypeOK /\ LockHeld /\ TableInv /\ [Next]_vars => TableInv'
  <2> SUFFICES ASSUME TypeOK, LockHeld, TableInv, [Next]_vars PROVE TableInv'
    OBVIOUS
  <2>1. ASSUME NEW c \in Clients, NEW a \in Requests, Arrive(c, a) PROVE TableInv'
    <3>1. /\ \A d \in Clients \ {c} : req'[d] = req[d]
          /\ req[c].at = "idle" /\ req'[c].at = "load"
          /\ UNCHANGED <<row, offers, record>>
      BY <2>1 DEF Arrive, At, postgres, redis, TypeOK, Idle
    <3>2. record # Missing => OnTable(record.lastOffer)
      BY DEF TableInv
    <3> QED  BY <3>1, <3>2, TableStep DEF Ahead
  <2>2. CASE (\E key \in Keys : Vanish(key)) \/ PassDeadline \/ UNCHANGED vars
    <3>1. UNCHANGED <<req, row, offers>> /\ record' \in {record, Missing}
      BY <2>2 DEF Vanish, PassDeadline, vars, postgres, redis
    <3>2. \A r, p : Tabled(r, p) <=> Tabled(r, p)'
      BY <3>1 DEF Tabled
    <3> QED  BY <3>1, <3>2 DEF TableInv, OnTable, DealOnTable
  <2>3. ASSUME NEW c \in Clients PROVE ~Abort(c)
    BY DEF Abort
  <2> QED  BY <2>1, <2>2, <2>3, AdvanceKeepsTable DEF Next
<1>3. TableInv => DealOnTable
  BY DEF TableInv
<1> QED  BY <1>1, <1>2, <1>3, StoreTypeCorrect, LockDiscipline, PTL DEF Spec

-------------------------------------------------------------------------------
(* One request at a time.                                                   *)

(* Where a request works on the copy it has read.                           *)
Working == {"guard", "wrong", "blocked", "stall", "write", "escrow", "publish",
            "end", "endread", "endset"}

Ending == {"end", "endread", "endset"}

(* The row holds what a session record says, the turn apart.                *)
RowHolds(s) == row.status = s.status /\ row.round = s.round /\ row.lastOffer = s.lastOffer

(* A request was admitted on its copy and judged as its place says.         *)
Judged(r) ==
    /\ r.at \in Working \cup Ahead => r.seen.status \in ActiveStates
    /\ (r.at \in (Working \ Ending) \cup Ahead \/ (r.at \in Ending /\ r.ending = "POLICY_BREACH")) =>
          r.act.role = TurnOf(r.seen)
    /\ r.at \in {"guard", "blocked"} \cup Passed => ValidRound(r.seen, r.act)
    /\ r.at = "wrong" => ~ValidRound(r.seen, r.act)
    /\ r.at = "blocked" => Breaches(r.seen, r.act)
    /\ r.at \in Passed => ~Breaches(r.seen, r.act)
    /\ r.at = "stall" => r.act.kind = "counter" /\ StallChecked(r.seen, r.act)
    /\ r.at = "escrow" => r.act.kind = "accept"
    /\ r.at \notin Ending \cup {"rollback"} => r.ending = Nobody

(* Nothing changes under the one request: its copy is the record until it   *)
(* publishes, and the row holds what it started from until it commits.      *)
SeqInv ==
    LET r == req[Only]
    IN  /\ record # Missing /\ valuation = Roles
        /\ r.at \notin {"miss", "refill"}
        /\ Judged(r)
        /\ r.at \in Working => r.seen = record
        /\ r.at # "idle" => Len(offers) < MaxOffers
        /\ r.at \in {"load", "wrong"} => fails[r.act.role] < MaxFails
        /\ r.at \in Ending /\ r.ending = "TIMEOUT" => expired
        /\ r.at \in Ending /\ r.ending = "POLICY_BREACH" =>
              /\ ValidRound(r.seen, r.act) /\ Breaches(r.seen, r.act)
              /\ StrikesOut(fails[r.act.role])
        /\ StallCounted => stall = StallCount(r.seen, r.act, r.before) /\ r.stalls = stall
        /\ r.at \in Ahead => record = Written(Only) /\ RowHolds(r.seen)
        /\ r.at \notin Ahead => record.status \in {"TIMEOUT", "POLICY_BREACH"} \/ RowHolds(record)

(* STEPS 3 to 6 by outcome.                                                 *)
LEMMA CheckedCases ==
    ASSUME NEW r \in RequestState, NEW s \in SessionRecord
    PROVE  \/ Checked(r, s) = Idle
           \/ /\ s.status \in ActiveStates /\ expired
              /\ Checked(r, s) = [r EXCEPT !.at = "end", !.seen = s, !.ending = "TIMEOUT"]
           \/ /\ s.status \in ActiveStates /\ ~expired /\ r.act.role = TurnOf(s)
              /\ ValidRound(s, r.act)
              /\ Checked(r, s) = [r EXCEPT !.at = "guard", !.seen = s]
           \/ /\ s.status \in ActiveStates /\ ~expired /\ r.act.role = TurnOf(s)
              /\ ~ValidRound(s, r.act)
              /\ Checked(r, s) = [r EXCEPT !.at = "wrong", !.seen = s]
<1> DEFINE T == s.status \in TerminalStates
           E == s.status \in ActiveStates /\ expired
           O == s.status \in ActiveStates /\ ~expired /\ r.act.role # TurnOf(s)
<1>1. T \/ s.status \in ActiveStates
  BY DEF SessionRecord
<1>2. CASE T \/ O  BY <1>2 DEF Checked, TerminalStates, ActiveStates
<1>3. CASE E /\ ~T  BY <1>3 DEF Checked
<1>4. CASE ~T /\ ~E /\ ~O
  <2>1. Checked(r, s) = [r EXCEPT !.at = IF ValidRound(s, r.act) THEN "guard" ELSE "wrong",
                                  !.seen = s]
    BY <1>4 DEF Checked
  <2> QED  BY <1>1, <1>4, <2>1
<1> QED  BY <1>2, <1>3, <1>4

(* The fields of a request that a step does not name stay what they are.    *)
SameBut(r, new, place) ==
    /\ new.at = place /\ new.act = r.act /\ new.seen = r.seen /\ new.stalls = r.stalls
    /\ new.before = r.before /\ new.ending = r.ending

(* Each step of the one request keeps what it relies on.                    *)
LEMMA AdvanceKeepsSeq ==
    ASSUME TypeOK, SeqInv, Only \in Clients, Advance(Only)
    PROVE  SeqInv'
<1> DEFINE r == req[Only]
<1>1. req \in [Clients -> RequestState] /\ r \in RequestState
  BY DEF TypeOK
<1>2. r.at \notin {"miss", "refill"} /\ record # Missing /\ valuation = Roles
  BY DEF SeqInv
<1>3. r.at # "idle" => r.act \in Envelope /\ r.act.role \in Roles
  BY RequestFacts
<1>4. CASE Load(Only)
  <2>1. /\ r.at = "load" /\ req'[Only] = Checked(r, record) /\ record \in SessionRecord
        /\ UNCHANGED <<row, record, offers, fails, stall, valuation, expired>>
    BY <1>1, <1>2, <1>4 DEF Load, At, postgres, redis, TypeOK
  <2>2. CASE Checked(r, record) = Idle
    BY <2>1, <2>2 DEF SeqInv, Judged, RowHolds, StallCounted, Working, Ending, Ahead, Passed, Idle
  <2>3. CASE /\ record.status \in ActiveStates /\ expired
             /\ Checked(r, record) = [r EXCEPT !.at = "end", !.seen = record, !.ending = "TIMEOUT"]
    BY <1>1, <2>1, <2>3 DEF SeqInv, Judged, RowHolds, StallCounted, Working, Ending, Ahead, Passed,
                            RequestState
  <2>4. CASE /\ record.status \in ActiveStates /\ ~expired /\ r.act.role = TurnOf(record)
             /\ ValidRound(record, r.act)
             /\ Checked(r, record) = [r EXCEPT !.at = "guard", !.seen = record]
    BY <1>1, <2>1, <2>4 DEF SeqInv, Judged, RowHolds, StallCounted, Working, Ending, Ahead, Passed,
                            RequestState
  <2>5. CASE /\ record.status \in ActiveStates /\ ~expired /\ r.act.role = TurnOf(record)
             /\ ~ValidRound(record, r.act)
             /\ Checked(r, record) = [r EXCEPT !.at = "wrong", !.seen = record]
    BY <1>1, <2>1, <2>5 DEF SeqInv, Judged, RowHolds, StallCounted, Working, Ending, Ahead, Passed,
                            RequestState
  <2> QED  BY <1>1, <2>1, <2>2, <2>3, <2>4, <2>5, CheckedCases
<1>5. CASE ReadRow(Only) \/ Refill(Only)
  BY <1>2, <1>5 DEF ReadRow, Refill, At
<1>6. CASE WrongRound(Only) \/ Write(Only) \/ EndWrite(Only)
  <2>1. PICK place \in {"rollback", "escrow", "publish", "endread"} :
          /\ SameBut(r, req'[Only], place)
          /\ \/ r.at = "wrong" /\ place = "rollback"
             \/ r.at = "write" /\ place = IF r.act.kind = "accept" THEN "escrow" ELSE "publish"
             \/ r.at = "end" /\ place = "endread" /\ fails' = fails
    BY <1>1, <1>6 DEF WrongRound, Write, EndWrite, Go, At, RequestState, SameBut, redis
  <2>2. UNCHANGED <<row, record, offers, stall, valuation, expired>>
    BY <1>6 DEF WrongRound, Write, EndWrite, postgres, redis
  <2> QED
    BY <2>1, <2>2 DEF SameBut, SeqInv, Judged, RowHolds, StallCounted, Working, Ending, Ahead,
                      Passed
<1>7. CASE Guard(Only)
  <2>1. PICK place : /\ Go(Only, place)
                     /\ place = CASE Guarded(Only) -> "blocked"
                                  [] ~Guarded(Only) /\ r.act.kind = "counter"
                                                    /\ StallChecked(r.seen, r.act) -> "stall"
                                  [] OTHER -> "write"
    BY <1>7 DEF Guard
  <2>2. r.at = "guard" /\ (Guarded(Only) <=> Breaches(r.seen, r.act))
    BY <1>2, <1>3, <1>7 DEF Guard, At, Guarded
  <2>3. \/ place = "blocked" /\ Breaches(r.seen, r.act)
        \/ /\ place = "stall" /\ ~Breaches(r.seen, r.act)
           /\ r.act.kind = "counter" /\ StallChecked(r.seen, r.act)
        \/ /\ place = "write" /\ ~Breaches(r.seen, r.act)
           /\ ~(r.act.kind = "counter" /\ StallChecked(r.seen, r.act))
    BY <2>1, <2>2
  <2>4. SameBut(r, req'[Only], place)
    BY <1>1, <2>1 DEF Go, RequestState, SameBut
  <2>5. UNCHANGED <<row, record, offers, fails, stall, valuation, expired>>
    BY <1>7 DEF Guard, postgres, redis
  <2> QED
    BY <2>2, <2>3, <2>4, <2>5 DEF SameBut, SeqInv, Judged, RowHolds, StallCounted, Working,
                                  Ending, Ahead, Passed
<1>8. CASE CountBlock(Only)
  <2>1. /\ r.at = "blocked"
        /\ req' = [req EXCEPT ![Only] = IF StrikesOut(fails'[r.act.role])
                                        THEN [r EXCEPT !.at = "end", !.ending = "POLICY_BREACH"]
                                        ELSE [r EXCEPT !.at = "rollback"]]
        /\ UNCHANGED <<row, record, offers, stall, valuation, expired>>
    BY <1>8 DEF CountBlock, At, postgres
  <2>2. \/ /\ StrikesOut(fails'[r.act.role])
           /\ req'[Only] = [r EXCEPT !.at = "end", !.ending = "POLICY_BREACH"]
        \/ req'[Only] = [r EXCEPT !.at = "rollback"]
    BY <1>1, <2>1
  <2>3. CASE /\ StrikesOut(fails'[r.act.role])
             /\ req'[Only] = [r EXCEPT !.at = "end", !.ending = "POLICY_BREACH"]
    <3>1. /\ req'[Only].at = "end" /\ req'[Only].ending = "POLICY_BREACH"
          /\ req'[Only].act = r.act /\ req'[Only].seen = r.seen
      BY <1>1, <2>3 DEF RequestState
    <3> QED
      BY <2>1, <2>3, <3>1 DEF SeqInv, Judged, RowHolds, StallCounted, Working, Ending, Ahead,
                              Passed
  <2>4. CASE req'[Only] = [r EXCEPT !.at = "rollback"]
    <3>1. SameBut(r, req'[Only], "rollback")
      BY <1>1, <2>4 DEF RequestState, SameBut
    <3> QED
      BY <2>1, <3>1 DEF SameBut, SeqInv, Judged, RowHolds, StallCounted, Working, Ending, Ahead,
                        Passed
  <2> QED  BY <2>2, <2>3, <2>4
<1>9. CASE CountStall(Only)
  <2>1. /\ r.at = "stall" /\ stall' = StallCount(r.seen, r.act, stall)
        /\ req' = [req EXCEPT ![Only].at = "write", ![Only].stalls = stall', ![Only].before = stall]
        /\ UNCHANGED <<row, record, offers, fails, valuation, expired>>
    BY <1>9 DEF CountStall, At, postgres
  <2>2. /\ req'[Only].at = "write" /\ req'[Only].act = r.act /\ req'[Only].seen = r.seen
        /\ req'[Only].stalls = stall' /\ req'[Only].before = stall /\ req'[Only].ending = r.ending
    BY <1>1, <2>1 DEF RequestState
  <2> QED
    BY <2>1, <2>2 DEF SeqInv, Judged, RowHolds, StallCounted, Working, Ending, Ahead, Passed
<1>10. CASE TriggerEscrow(Only) \/ ResetFailures(Only) \/ EndSet(Only)
  <2>1. PICK place \in {"publish", "commit", "rollback"} :
          /\ SameBut(r, req'[Only], place)
          /\ \/ r.at = "escrow" /\ place = "publish" /\ record' = record
             \/ r.at = "reset" /\ place = "commit" /\ record' = record
             \/ r.at = "endset" /\ place = "rollback" /\ record' = Ended(r.seen, r.ending)
    <3>1. CASE TriggerEscrow(Only)
      BY <1>1, <3>1 DEF TriggerEscrow, At, RequestState, SameBut, redis
    <3>2. CASE ResetFailures(Only) \/ EndSet(Only)
      BY <1>1, <3>2 DEF ResetFailures, EndSet, Go, At, RequestState, SameBut
    <3> QED  BY <1>10, <3>1, <3>2
  <2>2. UNCHANGED <<row, offers, stall, valuation, expired>>
    BY <1>10 DEF TriggerEscrow, ResetFailures, EndSet, postgres, redis
  <2>3. CASE r.at = "endset"
    <3>1. r.ending \in {"TIMEOUT", "POLICY_BREACH"} /\ r.seen \in SessionRecord
      BY <1>1, <2>3 DEF RequestState
    <3>2. record' \in SessionRecord /\ record'.status \in {"TIMEOUT", "POLICY_BREACH"}
      BY <2>1, <2>3, <3>1, EndedTyped DEF TerminalStates
    <3> QED
      BY <2>1, <2>2, <2>3, <3>2, StoreAssumption
         DEF SameBut, SeqInv, Judged, StallCounted, Working, Ending, Ahead, Passed
  <2>4. CASE r.at # "endset"
    <3>1. Written(Only)' = Written(Only)
      BY <2>1 DEF SameBut, Written
    <3> QED
      BY <2>1, <2>2, <2>4, <3>1 DEF SameBut, SeqInv, Judged, RowHolds, StallCounted, Working,
                                    Ending, Ahead, Passed
  <2> QED  BY <2>3, <2>4
<1>11. CASE Publish(Only)
  <2>1. /\ r.at = "publish" /\ SameBut(r, req'[Only], "reset") /\ record' = Written(Only)
        /\ UNCHANGED <<row, offers, fails, stall, valuation, expired>>
    BY <1>1, <1>11 DEF Publish, Go, At, RequestState, SameBut, postgres
  <2>2. Written(Only)' = Written(Only)
    BY <2>1 DEF SameBut, Written
  <2>3. record' # Missing
    BY <2>1, WrittenTyped, StoreAssumption
  <2>4. record.status \in ActiveStates /\ r.seen = record
    BY <2>1 DEF SeqInv, Judged, Working
  <2> QED
    BY <2>1, <2>2, <2>3, <2>4 DEF SameBut, SeqInv, Judged, RowHolds, StallCounted, Working, Ending,
                                  Ahead, Passed, ActiveStates
<1>12. CASE Commit(Only)
  <2> DEFINE a == r.act
  <2>1. /\ r.at = "commit" /\ req'[Only] = Idle /\ record' = record
        /\ row'.status = Written(Only).status /\ row'.round = Written(Only).round
        /\ row'.lastOffer = IF a.price = NoOffer THEN row.lastOffer
                            ELSE [row.lastOffer EXCEPT ![a.role] = a.price]
        /\ UNCHANGED <<valuation, expired>>
    BY <1>1, <1>12 DEF Commit, Leave, At, redis
  <2>2. record = Written(Only) /\ row.lastOffer = r.seen.lastOffer
    BY <2>1 DEF SeqInv, Ahead, RowHolds
  <2>3. Written(Only).lastOffer = IF a.price = NoOffer THEN r.seen.lastOffer
                                  ELSE [r.seen.lastOffer EXCEPT ![a.role] = a.price]
    BY MovedOffers DEF Written
  <2>4. RowHolds(record)'
    BY <2>1, <2>2, <2>3 DEF RowHolds
  <2> QED
    BY <1>2, <2>1, <2>4 DEF SeqInv, Judged, StallCounted, Working, Ending, Ahead, Passed, Idle
<1>13. CASE EndRead(Only)
  <2>1. /\ r.at = "endread" /\ req'[Only] = [r EXCEPT !.at = "endset", !.seen = record]
        /\ UNCHANGED <<row, record, offers, fails, stall, valuation, expired>>
    BY <1>1, <1>2, <1>13 DEF EndRead, At, postgres, redis
  <2>2. r.seen = record
    BY <2>1 DEF SeqInv, Working
  <2>3. SameBut(r, req'[Only], "endset")
    BY <1>1, <2>1, <2>2 DEF RequestState, SameBut
  <2> QED
    BY <2>1, <2>3 DEF SameBut, SeqInv, Judged, RowHolds, StallCounted, Working, Ending, Ahead,
                      Passed
<1>14. CASE Rollback(Only)
  <2>1. /\ r.at = "rollback" /\ req'[Only] = Idle
        /\ UNCHANGED <<row, record, offers, fails, stall, valuation, expired>>
    BY <1>1, <1>14 DEF Rollback, Leave, At, redis
  <2> QED
    BY <2>1 DEF SeqInv, Judged, RowHolds, StallCounted, Working, Ending, Ahead, Passed, Idle
<1> QED
  BY <1>4, <1>5, <1>6, <1>7, <1>8, <1>9, <1>10, <1>11, <1>12, <1>13, <1>14 DEF Advance

(* There is one client, so its requests follow each other, no Redis key     *)
(* vanishes and no transaction is lost.                                     *)
Sequential == Clients = {Only} /\ Keys = {} /\ MayAbort = FALSE

(* A new session starts with both stores equal.                             *)
LEMMA InitSeq ==
    ASSUME Only \in Clients, Init
    PROVE  SeqInv
<1>1. PICK opening \in Prices :
        /\ record = Opened(opening)
        /\ row = [status |-> "BUYER_ANCHOR", round |-> 1,
                  lastOffer |-> Opened(opening).lastOffer, agreed |-> NoOffer]
  BY DEF Init
<1>2. record # Missing
  BY StoreAssumption, InitTyped, <1>1
     DEF TypeOK, Opened, SessionRecord, MaybePrice, Roles, ActiveStates
<1>3. RowHolds(record)
  BY <1>1 DEF RowHolds, Opened
<1>4. req[Only] = Idle /\ valuation = Roles
  BY DEF Init
<1> QED
  BY <1>2, <1>3, <1>4 DEF SeqInv, Judged, StallCounted, Working, Ending, Ahead, Passed, Idle

(* An arriving request finds both stores equal.                             *)
LEMMA ArriveKeepsSeq ==
    ASSUME TypeOK, SeqInv, Only \in Clients, NEW a \in Requests, Arrive(Only, a)
    PROVE  SeqInv'
<1>1. /\ req[Only].at = "idle" /\ req'[Only] = [Idle EXCEPT !.at = "load", !.act = a]
      /\ fails[a.role] < MaxFails /\ Len(offers) < MaxOffers
      /\ UNCHANGED <<row, record, offers, fails, stall, valuation, expired>>
  BY DEF Arrive, At, postgres, redis, TypeOK
<1>2. req'[Only].at = "load" /\ req'[Only].act = a /\ req'[Only].ending = Nobody
  BY <1>1 DEF Idle
<1> QED
  BY <1>1, <1>2 DEF SeqInv, Judged, RowHolds, StallCounted, Working, Ending, Ahead, Passed

(* The clock changes nothing that a request relies on.                      *)
LEMMA DeadlineKeepsSeq ==
    ASSUME SeqInv, PassDeadline
    PROVE  SeqInv'
BY DEF PassDeadline, SeqInv, Judged, RowHolds, StallCounted, Written, postgres, redis

(* Nothing changes under a request that is alone.                           *)
THEOREM NothingChangesUnderIt ==
    ASSUME Sequential
    PROVE  Spec => []SeqInv
<1>0. Only \in Clients /\ (\A c \in Clients : c = Only) /\ Keys = {} /\ MayAbort = FALSE
  BY DEF Sequential
<1>1. Init => SeqInv
  BY <1>0, InitSeq
<1>2. TypeOK /\ SeqInv /\ [Next]_vars => SeqInv'
  <2> SUFFICES ASSUME TypeOK, SeqInv, [Next]_vars PROVE SeqInv'
    OBVIOUS
  <2>1. CASE \E c \in Clients, a \in Requests : Arrive(c, a)
    BY <1>0, <2>1, ArriveKeepsSeq
  <2>2. CASE \E c \in Clients : Advance(c)
    BY <1>0, <2>2, AdvanceKeepsSeq
  <2>3. CASE UNCHANGED vars
    BY <2>3 DEF vars, SeqInv, Judged, RowHolds, StallCounted, Written
  <2>4. ASSUME NEW c \in Clients PROVE ~Abort(c)
    BY <1>0 DEF Abort
  <2> QED  BY <1>0, <2>1, <2>2, <2>3, <2>4, DeadlineKeepsSeq DEF Next
<1> QED  BY <1>1, <1>2, StoreTypeCorrect, PTL DEF Spec

(* RebuildFaithful, for one request at a time: rebuild_from_postgres finds  *)
(* in the row what the lost record said, the turn in ROUND_LOOP apart.      *)
THEOREM RebuildIsFaithful ==
    ASSUME Sequential
    PROVE  Spec => []RebuildFaithful
<1>1. SeqInv => RebuildFaithful
  <2> SUFFICES ASSUME SeqInv, Quiet, record # Missing, record.status \in ActiveStates
               PROVE  /\ Rebuilt.status = record.status
                      /\ Rebuilt.round = record.round
                      /\ Rebuilt.lastOffer = record.lastOffer
                      /\ \/ TurnOf(Rebuilt) = TurnOf(record)
                         \/ record.status = "ROUND_LOOP" /\ record.lastActor = "buyer"
    BY DEF RebuildFaithful
  <2>1. req[Only].at = "idle"
    BY DEF Sequential, Quiet, At
  <2>2. RowHolds(record)
    BY <2>1 DEF SeqInv, Ahead, ActiveStates
  <2>3. /\ Rebuilt.status = record.status
        /\ Rebuilt.round = record.round
        /\ Rebuilt.lastOffer = record.lastOffer
        /\ record.status # "BUYER_ANCHOR" => Rebuilt.lastActor = "seller"
    BY <2>2 DEF RowHolds, Rebuilt, Other
  <2>4. CASE record.status = "BUYER_ANCHOR"
    BY <2>3, <2>4 DEF TurnOf
  <2>5. CASE record.status = "SELLER_RESPONSE"
    BY <2>3, <2>5 DEF TurnOf
  <2>6. CASE record.status = "ROUND_LOOP" /\ record.lastActor # "buyer"
    BY <2>3, <2>6 DEF TurnOf
  <2> QED  BY <2>3, <2>4, <2>5, <2>6 DEF ActiveStates
<1> QED  BY <1>1, NothingChangesUnderIt, PTL

-------------------------------------------------------------------------------
(* The refinement of DanpFsm.                                               *)

(* The rules that Fsm sees are the rules of this module.                    *)
LEMMA SameRules ==
    /\ Fsm!Envelope = Envelope
    /\ \A s : Fsm!TurnOf(s) = TurnOf(s)
    /\ \A s, a : Fsm!ValidRound(s, a) <=> ValidRound(s, a)
    /\ \A s, a : Fsm!Breaches(s, a) <=> Breaches(s, a)
    /\ \A s, a, n : Fsm!Moved(s, a, n) = Moved(s, a, n)
    /\ \A s, a, n : Fsm!StallCount(s, a, n) = StallCount(s, a, n)
    /\ \A s, a : Fsm!ClosingPrice(s, a) = ClosingPrice(s, a)
    /\ \A a : Fsm!RowOf(a) = RowOf(a)
    /\ \A s, e : Fsm!Ended(s, e) = Ended(s, e)
    /\ \A n : Fsm!StrikesOut(n) <=> StrikesOut(n)
    /\ Fsm!ActiveStates = ActiveStates
<1>0. /\ Fsm!Envelope = Envelope /\ Fsm!ActiveStates = ActiveStates
      /\ \A s : Fsm!TurnOf(s) = TurnOf(s)
  BY DEF Fsm!Envelope, Envelope, Fsm!Roles, Roles, Fsm!MaybePrice, MaybePrice, Fsm!ActiveStates,
         ActiveStates, Fsm!TurnOf, TurnOf
<1>1. \A q : Fsm!Other(q) = Other(q)
  BY DEF Fsm!Other, Other
<1>2. \A s, a : Fsm!ValidRound(s, a) <=> ValidRound(s, a)
  BY DEF Fsm!ValidRound, ValidRound
<1>3. \A s, a : Fsm!Breaches(s, a) <=> Breaches(s, a)
  BY <1>1 DEF Fsm!Breaches, Breaches, Fsm!JudgedPrice, JudgedPrice
<1>4. \A p, q : Fsm!SmallMove(p, q) <=> SmallMove(p, q)
  BY DEF Fsm!SmallMove, SmallMove, Fsm!Abs, Abs
<1>5. \A s, a : Fsm!StallChecked(s, a) <=> StallChecked(s, a)
  BY DEF Fsm!StallChecked, StallChecked, Fsm!OverLimit, OverLimit, Fsm!NextRound, NextRound
<1>6. \A s, a, n : Fsm!StallCount(s, a, n) = StallCount(s, a, n)
  BY <1>4, <1>5 DEF Fsm!StallCount, StallCount
<1>7. \A s, a, n : Fsm!CounterStatus(s, a, n) = CounterStatus(s, a, n)
  <2>1. \A s, a, n : Fsm!Stalls(s, a, n) <=> Stalls(s, a, n)
    BY <1>5 DEF Fsm!Stalls, Stalls, Fsm!StallLimit, StallLimit
  <2>2. \A s : Fsm!OverLimit(s) <=> OverLimit(s)
    BY DEF Fsm!OverLimit, OverLimit, Fsm!NextRound, NextRound
  <2> QED  BY <2>1, <2>2 DEF Fsm!CounterStatus, CounterStatus
<1>8. ASSUME NEW s, NEW a, NEW n PROVE Fsm!Moved(s, a, n) = Moved(s, a, n)
  <2>1. Fsm!CounterRound(s, a, n) = CounterRound(s, a, n)
    BY <1>7 DEF Fsm!CounterRound, CounterRound
  <2>2. Fsm!CounterStatus(s, a, n) = CounterStatus(s, a, n)
    BY <1>7
  <2>3. Fsm!Other(a.role) = Other(a.role)
    BY <1>1
  <2> QED  BY ONLY <2>1, <2>2, <2>3 DEF Fsm!Moved, Moved
<1>9. /\ \A s, a : Fsm!ClosingPrice(s, a) = ClosingPrice(s, a)
      /\ \A a : Fsm!RowOf(a) = RowOf(a)
      /\ \A s, e : Fsm!Ended(s, e) = Ended(s, e)
      /\ \A n : Fsm!StrikesOut(n) <=> StrikesOut(n)
  BY <1>1 DEF Fsm!ClosingPrice, ClosingPrice, Fsm!RowOf, RowOf, Fsm!Ended, Ended, Fsm!StrikesOut,
              StrikesOut, Fsm!StrikeLimit, StrikeLimit
<1> QED  BY <1>0, <1>2, <1>3, <1>6, <1>8, <1>9

(* The mapping, spelled out for a request r and the values it maps.         *)
FailsSeen(r, counts) ==
    IF r.at \in Ending /\ r.ending = "POLICY_BREACH"
    THEN [counts EXCEPT ![r.act.role] = @ - 1]
    ELSE IF r.at = "reset" THEN [counts EXCEPT ![r.act.role] = 0] ELSE counts

StallSeen(r, n) ==
    IF /\ r.at \in {"write", "publish"}
       /\ r.act.kind = "counter"
       /\ StallChecked(r.seen, r.act)
    THEN r.before ELSE n

OffersSeen(r, o) == IF r.at \in Ahead THEN Append(o, RowOf(r.act)) ELSE o

AgreedSeen(r, p) ==
    IF r.at \in Ahead /\ r.act.kind = "accept" THEN ClosingPrice(r.seen, r.act) ELSE p

ExpiredSeen(r, e) ==
    e /\ (r.at \in {"idle", "load", "miss", "refill"} \/ r.ending = "TIMEOUT")

MFails == FailsSeen(req[Only], fails)
MBlocks == FailsSeen(req[Only], blocks)
MStall == StallSeen(req[Only], stall)
MOffers == OffersSeen(req[Only], offers)
MAgreed == AgreedSeen(req[Only], row.agreed)
MExpired == ExpiredSeen(req[Only], expired)

(* Counted is FailsSeen of the one request's state.                         *)
LEMMA CountedSeen ==
    ASSUME NEW r \in RequestState, NEW counts \in [Roles -> Nat]
    PROVE  [q \in Roles |-> IF r.act = Nobody THEN counts[q]
                            ELSE IF q # r.act.role THEN counts[q]
                            ELSE IF r.ending = "POLICY_BREACH" /\ r.at \in {"end", "endread", "endset"}
                                 THEN counts[q] - 1
                            ELSE IF r.at = "reset" THEN 0 ELSE counts[q]]
           = FailsSeen(r, counts)
<1>1. /\ r.at \in Ending => r.act # Nobody
      /\ r.at = "reset" => r.act # Nobody
  BY StoreAssumption DEF RequestState, Ending
<1> QED  BY <1>1 DEF FailsSeen, Ending

(* The mapping of the INSTANCE is that one.                                 *)
Mapped ==
    /\ Counted(fails) = MFails /\ Counted(blocks) = MBlocks
    /\ (IF StallCounted THEN req[Only].before ELSE stall) = MStall
    /\ (IF Published THEN Append(offers, RowOf(req[Only].act)) ELSE offers) = MOffers
    /\ (IF Published /\ req[Only].act.kind = "accept"
        THEN ClosingPrice(req[Only].seen, req[Only].act) ELSE row.agreed) = MAgreed
    /\ (/\ expired
        /\ req[Only].at \in {"idle", "load", "miss", "refill"} \/ req[Only].ending = "TIMEOUT")
       <=> MExpired

(* It is before a step ...                                                  *)
LEMMA MappedNow == ASSUME TypeOK, Only \in Clients PROVE Mapped
<1>1. /\ fails \in [Roles -> Nat] /\ blocks \in [Roles -> Nat]
      /\ req[Only] \in RequestState
  BY DEF TypeOK
<1>2. Counted(fails) = MFails /\ Counted(blocks) = MBlocks
  BY <1>1, CountedSeen DEF Counted, Breaching, MFails, MBlocks
<1>3. (IF StallCounted THEN req[Only].before ELSE stall) = MStall
  BY DEF StallCounted, MStall, StallSeen
<1> QED
  BY <1>2, <1>3 DEF Mapped, Published, MOffers, OffersSeen, MAgreed, AgreedSeen, MExpired,
                    ExpiredSeen, Ahead

(* ... and after it.                                                        *)
LEMMA MappedThen == ASSUME TypeOK', Only \in Clients PROVE Mapped'
<1>1. /\ fails' \in [Roles -> Nat] /\ blocks' \in [Roles -> Nat]
      /\ req'[Only] \in RequestState
  BY DEF TypeOK
<1>2. Counted(fails)' = MFails' /\ Counted(blocks)' = MBlocks'
  BY <1>1, CountedSeen DEF Counted, Breaching, MFails, MBlocks
<1>3. (IF StallCounted THEN req[Only].before ELSE stall)' = MStall'
  BY DEF StallCounted, MStall, StallSeen
<1> QED
  BY <1>2, <1>3 DEF Mapped, Published, MOffers, OffersSeen, MAgreed, AgreedSeen, MExpired,
                    ExpiredSeen, Ahead

(* A new session is a new session of DanpFsm.                               *)
LEMMA FsmInit == ASSUME Only \in Clients, Init PROVE Fsm!Init
<1>1. TypeOK  BY InitTyped
<1>2. req[Only] = Idle  BY DEF Init
<1>3. MFails = fails /\ MBlocks = blocks /\ MStall = stall /\ MOffers = offers
      /\ MAgreed = row.agreed /\ ~MExpired
  BY <1>2 DEF Init, Idle, MFails, MBlocks, MStall, MOffers, MAgreed, MExpired, FailsSeen, StallSeen,
     OffersSeen, AgreedSeen, ExpiredSeen, Ending, Ahead
<1>4. \A o : (Fsm!ValidOpening(o) <=> ValidOpening(o)) /\ Fsm!Opened(o) = Opened(o)
  BY DEF Fsm!ValidOpening, ValidOpening, Fsm!Opened, Opened, Fsm!Roles, Roles
<1> QED
  BY <1>1, <1>3, <1>4, MappedNow DEF Mapped, Fsm!Init, Init, Fsm!Roles, Roles

(* The steps of DanpFsm in terms of the mapped values.                      *)
SameView ==
    UNCHANGED <<record, MFails, MBlocks, MStall, MOffers, MAgreed>> /\ (MExpired' <=> MExpired)

(* Nothing DanpFsm sees has changed.                                        *)
LEMMA FsmStutter ==
    ASSUME TypeOK, TypeOK', Only \in Clients, SameView
    PROVE  UNCHANGED Fsm!vars
BY MappedNow, MappedThen DEF Mapped, Fsm!vars, SameView

(* DanpFsm sees the deadline pass.                                          *)
LEMMA FsmDeadline ==
    ASSUME TypeOK, TypeOK', Only \in Clients,
           UNCHANGED <<record, MFails, MBlocks, MStall, MOffers, MAgreed>>,
           ~MExpired, MExpired'
    PROVE  Fsm!Next
BY MappedNow, MappedThen DEF Mapped, Fsm!Next, Fsm!PassDeadline

(* STEP 4 as DanpFsm takes it.                                              *)
LEMMA FsmTimeOut ==
    ASSUME TypeOK, TypeOK', Only \in Clients,
           record.status \in ActiveStates, MExpired, record' = Ended(record, "TIMEOUT"),
           UNCHANGED <<MFails, MBlocks, MStall, MOffers, MAgreed>>, MExpired' <=> MExpired
    PROVE  Fsm!Next
BY MappedNow, MappedThen, SameRules DEF Mapped, Fsm!Next, Fsm!TimeOut, Fsm!Active

MAdmitted(a) == record.status \in ActiveStates /\ ~MExpired /\ a.role = TurnOf(record)

(* STEP 6 with an invalid round number.                                     *)
LEMMA FsmWrongRound ==
    ASSUME TypeOK, TypeOK', Only \in Clients, NEW a \in Envelope,
           MAdmitted(a), ~ValidRound(record, a), MFails[a.role] < MaxFails,
           MFails' = [MFails EXCEPT ![a.role] = @ + 1],
           UNCHANGED <<record, MBlocks, MStall, MOffers, MAgreed>>, MExpired' <=> MExpired
    PROVE  Fsm!Next
<1>1. Fsm!WrongRound(a)
  BY MappedNow, MappedThen, SameRules
     DEF Mapped, Fsm!WrongRound, Fsm!Admitted, Fsm!Active, MAdmitted
<1> QED  BY <1>1, SameRules DEF Fsm!Next, Fsm!Submit

(* STEP 7 on a block, the third one included.                               *)
LEMMA FsmBlocked ==
    ASSUME TypeOK, TypeOK', Only \in Clients, NEW a \in Envelope,
           MAdmitted(a), ValidRound(record, a), Breaches(record, a),
           MFails' = [MFails EXCEPT ![a.role] = @ + 1],
           MBlocks' = [MBlocks EXCEPT ![a.role] = @ + 1],
           record' = IF StrikesOut(MFails'[a.role]) THEN Ended(record, "POLICY_BREACH") ELSE record,
           UNCHANGED <<MStall, MOffers, MAgreed>>, MExpired' <=> MExpired
    PROVE  Fsm!Next
<1>1. Fsm!Blocked(a)
  BY MappedNow, MappedThen, SameRules
     DEF Mapped, Fsm!Blocked, Fsm!Admitted, Fsm!Active, MAdmitted
<1> QED  BY <1>1, SameRules DEF Fsm!Next, Fsm!Submit

(* A cleared action, of whatever kind.                                      *)
LEMMA FsmRecord ==
    ASSUME TypeOK, TypeOK', Only \in Clients, NEW a \in Envelope,
           MAdmitted(a), ValidRound(record, a), ~Breaches(record, a), Len(MOffers) < MaxOffers,
           MOffers' = Append(MOffers, RowOf(a)),
           MFails' = [MFails EXCEPT ![a.role] = 0],
           MBlocks' = [MBlocks EXCEPT ![a.role] = 0],
           MStall' = IF a.kind = "counter" THEN StallCount(record, a, MStall) ELSE MStall,
           record' = Moved(record, a, MStall'),
           MAgreed' = IF a.kind = "accept" THEN ClosingPrice(record, a) ELSE MAgreed,
           MExpired' <=> MExpired
    PROVE  Fsm!Next
<1>1. Fsm!Cleared(a)
  BY MappedNow, MappedThen, SameRules
     DEF Mapped, Fsm!Cleared, Fsm!Admitted, Fsm!Active, MAdmitted
<1>2. CASE a.kind = "accept"
  <2>1. Fsm!Accept(a)
    BY <1>1, <1>2, MappedNow, MappedThen, SameRules DEF Mapped, Fsm!Accept, Fsm!Record
  <2> QED  BY <2>1, SameRules DEF Fsm!Next, Fsm!Submit
<1>3. CASE a.kind = "reject"
  <2>1. Fsm!Reject(a)
    BY <1>1, <1>3, MappedNow, MappedThen, SameRules DEF Mapped, Fsm!Reject, Fsm!Record
  <2> QED  BY <2>1, SameRules DEF Fsm!Next, Fsm!Submit
<1>4. CASE a.kind = "counter"
  <2>1. Fsm!Counter(a)
    BY <1>1, <1>4, MappedNow, MappedThen, SameRules DEF Mapped, Fsm!Counter, Fsm!Record
  <2> QED  BY <2>1, SameRules DEF Fsm!Next, Fsm!Submit
<1>5. CASE a.kind = "timeout_yield"
  <2>1. Fsm!Yield(a)
    BY <1>1, <1>5, MappedNow, MappedThen, SameRules DEF Mapped, Fsm!Yield, Fsm!Record
  <2> QED  BY <2>1, SameRules DEF Fsm!Next, Fsm!Submit
<1> QED  BY <1>2, <1>3, <1>4, <1>5, EnvelopeFacts

(* Away from the places where the mapping corrects a value it is as stored. *)
Plain(r) ==
    /\ r.at \notin {"reset", "commit", "write", "publish"}
    /\ r.at \notin Ending \/ r.ending # "POLICY_BREACH"

(* There every value is as stored, for any request ...                      *)
LEMMA PlainView ==
    ASSUME NEW r, Plain(r)
    PROVE  /\ \A counts : FailsSeen(r, counts) = counts
           /\ \A n : StallSeen(r, n) = n
           /\ \A o : OffersSeen(r, o) = o
           /\ \A p : AgreedSeen(r, p) = p
BY DEF Plain, FailsSeen, StallSeen, OffersSeen, AgreedSeen, Ahead

(* ... before a step ...                                                    *)
LEMMA PlainNow ==
    ASSUME Plain(req[Only])
    PROVE  MFails = fails /\ MBlocks = blocks /\ MStall = stall /\ MOffers = offers
           /\ MAgreed = row.agreed
BY PlainView DEF MFails, MBlocks, MStall, MOffers, MAgreed

(* ... and after it.                                                        *)
LEMMA PlainThen ==
    ASSUME Plain(req'[Only])
    PROVE  MFails' = fails' /\ MBlocks' = blocks' /\ MStall' = stall' /\ MOffers' = offers'
           /\ MAgreed' = row'.agreed
BY PlainView DEF MFails, MBlocks, MStall, MOffers, MAgreed

(* The stall count is read only where the rule looks at it.                 *)
LEMMA StallUnread ==
    ASSUME NEW s, NEW a \in Envelope, NEW m, NEW n, a.kind # "counter" \/ ~StallChecked(s, a)
    PROVE  Moved(s, a, m) = Moved(s, a, n)
<1>1. CASE ~StallChecked(s, a)
  <2>1. CounterStatus(s, a, m) = CounterStatus(s, a, n)
    BY <1>1 DEF CounterStatus, Stalls
  <2>2. CounterRound(s, a, m) = CounterRound(s, a, n)
    BY <2>1 DEF CounterRound
  <2> QED  BY <2>1, <2>2 DEF Moved
<1>2. CASE a.kind # "counter"
  <2>1. /\ Moved(s, a, m).status = Moved(s, a, n).status
        /\ Moved(s, a, m).round = Moved(s, a, n).round
    BY <1>2, EnvelopeFacts DEF Moved
  <2> QED  BY <1>2, <2>1 DEF Moved
<1> QED  BY <1>1, <1>2

(* A request that goes on to a place with the same corrections.             *)
LEMMA SameSeen ==
    ASSUME NEW place, SameBut(req[Only], req'[Only], place),
           UNCHANGED <<row, record, offers, fails, stall, blocks, expired>>,
           \/ req[Only].at = "write" /\ place = IF req[Only].act.kind = "accept" THEN "escrow" ELSE "publish"
           \/ req[Only].at = "escrow" /\ req[Only].act.kind = "accept" /\ place = "publish"
           \/ req[Only].at = "end" /\ place = "endread"
           \/ req[Only].at = "endread" /\ place = "endset"
    PROVE  SameView
<1>1. MExpired' <=> MExpired
  BY DEF SameBut, MExpired, ExpiredSeen
<1>2. UNCHANGED <<MFails, MBlocks>>
  BY DEF SameBut, MFails, MBlocks, FailsSeen, Ending
<1>3. UNCHANGED <<MStall, MOffers, MAgreed>>
  BY DEF SameBut, MStall, MOffers, MAgreed, StallSeen, OffersSeen, AgreedSeen, Ahead
<1> QED  BY <1>1, <1>2, <1>3 DEF SameView

(* Each step of the one request is a step of DanpFsm or a stutter.          *)
LEMMA AdvanceIsFsm ==
    ASSUME TypeOK, TypeOK', SeqInv, SeqInv', Only \in Clients, Advance(Only)
    PROVE  Fsm!Next \/ UNCHANGED Fsm!vars
<1> DEFINE r == req[Only]
           n == req'[Only]
           a == req[Only].act
<1>1. req \in [Clients -> RequestState] /\ r \in RequestState /\ n \in RequestState
      /\ fails \in [Roles -> Nat] /\ blocks \in [Roles -> Nat]
      /\ fails' \in [Roles -> Nat] /\ blocks' \in [Roles -> Nat]
  BY DEF TypeOK
<1>2. r.at \notin {"miss", "refill"} /\ record # Missing
  BY DEF SeqInv
<1>3. r.at # "idle" => a \in Envelope /\ a.role \in Roles
  BY RequestFacts
<1>4. CASE Load(Only)
  <2>1. /\ r.at = "load" /\ n = Checked(r, record) /\ record \in SessionRecord
        /\ UNCHANGED <<row, record, offers, fails, stall, blocks, expired>>
    BY <1>1, <1>2, <1>4 DEF Load, At, postgres, redis, TypeOK
  <2>2. r.ending = Nobody /\ Nobody # "TIMEOUT" /\ Nobody # "POLICY_BREACH"
    BY <2>1, StoreAssumption DEF SeqInv, Judged, Ending, TerminalStates
  <2>3. \/ n = Idle
        \/ expired /\ n.at = "end" /\ n.ending = "TIMEOUT"
        \/ ~expired /\ n.at \in {"guard", "wrong"} /\ n.ending = r.ending
    <3>1. CASE Checked(r, record) = Idle  BY <2>1, <3>1
    <3>2. CASE expired /\ Checked(r, record) = [r EXCEPT !.at = "end", !.seen = record,
                                                         !.ending = "TIMEOUT"]
      BY <1>1, <2>1, <3>2 DEF RequestState
    <3>3. CASE ~expired /\ Checked(r, record) = [r EXCEPT !.at = "guard", !.seen = record]
      BY <1>1, <2>1, <3>3 DEF RequestState
    <3>4. CASE ~expired /\ Checked(r, record) = [r EXCEPT !.at = "wrong", !.seen = record]
      BY <1>1, <2>1, <3>4 DEF RequestState
    <3>5. \/ Checked(r, record) = Idle
          \/ expired /\ Checked(r, record) = [r EXCEPT !.at = "end", !.seen = record,
                                                       !.ending = "TIMEOUT"]
          \/ ~expired /\ Checked(r, record) = [r EXCEPT !.at = "guard", !.seen = record]
          \/ ~expired /\ Checked(r, record) = [r EXCEPT !.at = "wrong", !.seen = record]
      BY ONLY <1>1, <2>1, CheckedCases
    <3> QED  BY ONLY <3>1, <3>2, <3>3, <3>4, <3>5
  <2>4. n.at \in {"idle", "end", "guard", "wrong"} /\ n.ending # "POLICY_BREACH"
    BY <2>2, <2>3 DEF Idle
  <2>5. MExpired' <=> MExpired
    BY <2>1, <2>3 DEF MExpired, ExpiredSeen, Idle
  <2>6. Plain(r) /\ Plain(n)
    BY <2>1, <2>2, <2>4 DEF Plain, Ending
  <2>7. SameView
    BY <2>1, <2>5, <2>6, PlainNow, PlainThen DEF SameView
  <2> QED  BY <2>7, FsmStutter
<1>5. CASE ReadRow(Only) \/ Refill(Only)
  BY <1>2, <1>5 DEF ReadRow, Refill, At
<1>6. CASE WrongRound(Only)
  <2>1. /\ r.at = "wrong" /\ SameBut(r, n, "rollback")
        /\ fails' = [fails EXCEPT ![a.role] = @ + 1]
        /\ UNCHANGED <<row, record, offers, stall, blocks, expired>>
    BY <1>1, <1>6 DEF WrongRound, Go, At, RequestState, SameBut, postgres
  <2>2. /\ r.ending = Nobody /\ Nobody # "TIMEOUT" /\ Nobody # "POLICY_BREACH"
        /\ r.seen = record /\ record.status \in ActiveStates /\ a.role = TurnOf(record)
        /\ ~ValidRound(record, a) /\ fails[a.role] < MaxFails
    BY <2>1, StoreAssumption DEF SeqInv, Judged, Working, Ending, TerminalStates
  <2>3. ~MExpired /\ ~MExpired'
    BY <2>1, <2>2 DEF MExpired, ExpiredSeen, SameBut
  <2>4. Plain(r) /\ Plain(n)
    BY <2>1 DEF Plain, Ending, SameBut
  <2>5. /\ MFails = fails /\ MFails' = fails' /\ MAdmitted(a)
        /\ UNCHANGED <<MBlocks, MStall, MOffers, MAgreed>> /\ (MExpired' <=> MExpired)
    BY <2>1, <2>2, <2>3, <2>4, PlainNow, PlainThen DEF MAdmitted
  <2> QED  BY <1>3, <2>1, <2>2, <2>5, FsmWrongRound
<1>7. CASE Guard(Only)
  <2>1. PICK place \in {"blocked", "stall", "write"} :
          SameBut(r, n, place) /\ (place = "write" => n.act.kind # "counter" \/ ~StallChecked(n.seen, n.act))
    <3>1. PICK place : /\ Go(Only, place)
                       /\ place = CASE Guarded(Only) -> "blocked"
                                    [] ~Guarded(Only) /\ a.kind = "counter"
                                                      /\ StallChecked(r.seen, a) -> "stall"
                                    [] OTHER -> "write"
      BY <1>7 DEF Guard
    <3>2. SameBut(r, n, place)
      BY <1>1, <3>1 DEF Go, RequestState, SameBut
    <3>3. \/ place \in {"blocked", "stall"}
          \/ place = "write" /\ (Guarded(Only) \/ a.kind # "counter" \/ ~StallChecked(r.seen, a))
      BY <3>1
    <3>4. place = "write" => ~Guarded(Only)
      BY <3>1
    <3> QED  BY <3>2, <3>3, <3>4 DEF SameBut
  <2>2. /\ r.at = "guard" /\ r.ending = Nobody /\ Nobody # "TIMEOUT" /\ Nobody # "POLICY_BREACH"
        /\ UNCHANGED <<row, record, offers, fails, stall, blocks, expired>>
    BY <1>7, StoreAssumption DEF Guard, At, SeqInv, Judged, Ending, TerminalStates, postgres, redis
  <2>3. ~MExpired /\ ~MExpired'
    BY <2>1, <2>2 DEF MExpired, ExpiredSeen, SameBut
  <2>4. Plain(r)
    BY <2>2 DEF Plain, Ending
  <2>5. /\ MFails' = fails' /\ MBlocks' = blocks' /\ MStall' = stall' /\ MOffers' = offers'
        /\ MAgreed' = row'.agreed
    BY <2>1 DEF SameBut, MFails, MBlocks, MStall, MOffers, MAgreed, FailsSeen, StallSeen, OffersSeen,
                AgreedSeen, Ending, Ahead
  <2>6. SameView
    BY <2>2, <2>3, <2>4, <2>5, PlainNow DEF SameView
  <2> QED  BY <2>6, FsmStutter
<1>8. CASE CountBlock(Only)
  <2>1. /\ r.at = "blocked"
        /\ fails' = [fails EXCEPT ![a.role] = @ + 1]
        /\ blocks' = [blocks EXCEPT ![a.role] = @ + 1]
        /\ n = IF StrikesOut(fails'[a.role])
               THEN [r EXCEPT !.at = "end", !.ending = "POLICY_BREACH"] ELSE [r EXCEPT !.at = "rollback"]
        /\ UNCHANGED <<row, record, offers, stall, expired>>
    BY <1>1, <1>8 DEF CountBlock, At, postgres
  <2>2. /\ r.ending = Nobody /\ Nobody # "TIMEOUT" /\ Nobody # "POLICY_BREACH"
        /\ r.seen = record /\ record.status \in ActiveStates /\ a.role = TurnOf(record)
        /\ ValidRound(record, a) /\ Breaches(record, a)
    BY <2>1, StoreAssumption DEF SeqInv, Judged, Working, Ending, TerminalStates
  <2>3. Plain(r) /\ ~MExpired
    BY <2>1, <2>2 DEF Plain, Ending, MExpired, ExpiredSeen
  <2>4. CASE ~StrikesOut(fails'[a.role])
    <3>1. SameBut(r, n, "rollback")
      BY <1>1, <2>1, <2>4 DEF RequestState, SameBut
    <3>2. Plain(n) /\ ~MExpired'
      BY <2>2, <3>1 DEF Plain, Ending, SameBut, MExpired, ExpiredSeen
    <3>3. /\ MFails = fails /\ MFails' = fails' /\ MBlocks = blocks /\ MBlocks' = blocks'
          /\ UNCHANGED <<MStall, MOffers, MAgreed>> /\ (MExpired' <=> MExpired) /\ MAdmitted(a)
      BY <2>1, <2>2, <2>3, <3>2, PlainNow, PlainThen DEF MAdmitted
    <3> QED  BY <1>3, <2>1, <2>2, <2>4, <3>3, FsmBlocked
  <2>5. CASE StrikesOut(fails'[a.role])
    <3>1. n.at = "end" /\ n.ending = "POLICY_BREACH" /\ n.act = a
      BY <1>1, <2>1, <2>5 DEF RequestState
    <3>2. /\ MFails' = [fails' EXCEPT ![a.role] = @ - 1]
          /\ MBlocks' = [blocks' EXCEPT ![a.role] = @ - 1]
          /\ MStall' = stall' /\ MOffers' = offers' /\ MAgreed' = row'.agreed
      BY <3>1 DEF MFails, MBlocks, MStall, MOffers, MAgreed, FailsSeen, StallSeen, OffersSeen,
                  AgreedSeen, Ending, Ahead
    <3>3. a.role \in Roles
      BY <1>3, <2>1
    <3>4. MFails' = fails /\ MBlocks' = blocks
      BY <1>1, <2>1, <3>2, <3>3
    <3>5. ~MExpired'
      BY <2>2, <3>1 DEF MExpired, ExpiredSeen
    <3>6. SameView
      BY <2>1, <2>3, <3>2, <3>4, <3>5, PlainNow DEF SameView
    <3> QED  BY <3>6, FsmStutter
  <2> QED  BY <2>4, <2>5
<1>9. CASE CountStall(Only)
  <2>1. /\ r.at = "stall" /\ stall' = StallCount(r.seen, a, stall)
        /\ req' = [req EXCEPT ![Only].at = "write", ![Only].stalls = stall', ![Only].before = stall]
        /\ UNCHANGED <<row, record, offers, fails, blocks, expired>>
    BY <1>9 DEF CountStall, At, postgres
  <2>2. /\ n.at = "write" /\ n.act = a /\ n.seen = r.seen
        /\ n.before = stall /\ n.ending = r.ending
    BY <1>1, <2>1 DEF RequestState
  <2>3. /\ r.ending = Nobody /\ Nobody # "TIMEOUT" /\ Nobody # "POLICY_BREACH"
        /\ a.kind = "counter" /\ StallChecked(r.seen, a)
    BY <2>1, StoreAssumption DEF SeqInv, Judged, Ending, TerminalStates
  <2>4. Plain(r) /\ ~MExpired /\ ~MExpired'
    BY <2>1, <2>2, <2>3 DEF Plain, Ending, MExpired, ExpiredSeen
  <2>5. MFails' = fails' /\ MBlocks' = blocks' /\ MStall' = stall /\ MOffers' = offers'
        /\ MAgreed' = row'.agreed
    BY <2>2, <2>3 DEF MFails, MBlocks, MStall, MOffers, MAgreed, FailsSeen, StallSeen, OffersSeen,
                AgreedSeen, Ending, Ahead
  <2>6. SameView
    BY <2>1, <2>4, <2>5, PlainNow DEF SameView
  <2> QED  BY <2>6, FsmStutter
<1>10. CASE Write(Only) \/ EndWrite(Only)
  <2>1. PICK place \in {"escrow", "publish", "endread"} :
          /\ SameBut(r, n, place)
          /\ \/ r.at = "write" /\ place = IF a.kind = "accept" THEN "escrow" ELSE "publish"
             \/ r.at = "end" /\ place = "endread"
    BY <1>1, <1>10 DEF Write, EndWrite, Go, At, RequestState, SameBut
  <2>2. UNCHANGED <<row, record, offers, fails, stall, blocks, expired>>
    BY <1>10 DEF Write, EndWrite, redis
  <2>3. SameView
    BY <2>1, <2>2, SameSeen
  <2> QED  BY <2>3, FsmStutter
<1>11. CASE TriggerEscrow(Only) \/ EndRead(Only)
  <2>1. PICK place \in {"publish", "endset"} :
          /\ SameBut(r, n, place)
          /\ \/ r.at = "escrow" /\ a.kind = "accept" /\ place = "publish"
             \/ r.at = "endread" /\ place = "endset"
    <3>1. CASE TriggerEscrow(Only)
      BY <1>1, <3>1 DEF TriggerEscrow, At, RequestState, SameBut, SeqInv, Judged
    <3>2. CASE EndRead(Only)
      <4>1. r.at = "endread" /\ r.seen = record /\ n = [r EXCEPT !.at = "endset", !.seen = record]
        BY <1>1, <1>2, <3>2 DEF EndRead, At, SeqInv, Working
      <4> QED  BY <1>1, <4>1 DEF RequestState, SameBut
    <3> QED  BY <1>11, <3>1, <3>2
  <2>2. UNCHANGED <<row, record, offers, fails, stall, blocks, expired>>
    BY <1>11 DEF TriggerEscrow, EndRead, postgres, redis
  <2>3. SameView
    BY <2>1, <2>2, SameSeen
  <2> QED  BY <2>3, FsmStutter
<1>12. CASE Publish(Only)
  <2>1. /\ r.at = "publish" /\ SameBut(r, n, "reset") /\ record' = Moved(r.seen, a, r.stalls)
        /\ UNCHANGED <<row, offers, fails, stall, blocks, expired>>
    BY <1>1, <1>12 DEF Publish, Written, Go, At, RequestState, SameBut, postgres
  <2>2. /\ r.ending = Nobody /\ Nobody # "TIMEOUT" /\ Nobody # "POLICY_BREACH"
        /\ r.seen = record /\ record.status \in ActiveStates /\ a.role = TurnOf(record)
        /\ ValidRound(record, a) /\ ~Breaches(record, a) /\ Len(offers) < MaxOffers
        /\ a.kind = "counter" /\ StallChecked(r.seen, a) =>
              stall = StallCount(r.seen, a, r.before) /\ r.stalls = stall
    BY <2>1, StoreAssumption DEF SeqInv, Judged, Working, Passed, Ending, TerminalStates, StallCounted
  <2>3. ~MExpired /\ ~MExpired'
    BY <2>1, <2>2 DEF SameBut, MExpired, ExpiredSeen
  <2>4. /\ MFails = fails /\ MFails' = [fails EXCEPT ![a.role] = 0]
        /\ MBlocks = blocks /\ MBlocks' = [blocks EXCEPT ![a.role] = 0]
    BY <2>1, <2>2 DEF SameBut, MFails, MBlocks, FailsSeen, Ending
  <2>5. /\ MOffers = offers /\ MOffers' = Append(offers, RowOf(a))
        /\ MAgreed = row.agreed
        /\ MAgreed' = IF a.kind = "accept" THEN ClosingPrice(record, a) ELSE MAgreed
    BY <2>1, <2>2 DEF SameBut, MOffers, MAgreed, OffersSeen, AgreedSeen, Ahead
  <2>6. MStall' = stall
    BY <2>1 DEF SameBut, MStall, StallSeen
  <2>7. /\ stall = IF a.kind = "counter" THEN StallCount(record, a, MStall) ELSE MStall
        /\ record' = Moved(record, a, stall)
    <3>1. CASE a.kind = "counter" /\ StallChecked(record, a)
      <4>1. MStall = r.before
        BY <2>1, <2>2, <3>1 DEF MStall, StallSeen
      <4> QED  BY <2>1, <2>2, <3>1, <4>1
    <3>2. CASE a.kind # "counter" \/ ~StallChecked(record, a)
      <4>1. MStall = stall
        BY <2>2, <3>2 DEF MStall, StallSeen
      <4>2. a \in Envelope
        BY <1>3, <2>1
      <4>3. Moved(record, a, r.stalls) = Moved(record, a, stall)
        BY <3>2, <4>2, StallUnread
      <4>4. ~StallChecked(record, a) => StallCount(record, a, stall) = stall
        BY DEF StallCount
      <4> QED  BY <2>1, <2>2, <3>2, <4>1, <4>3, <4>4
    <3> QED  BY <3>1, <3>2
  <2>8. MAdmitted(a) /\ a \in Envelope
    BY <1>3, <2>1, <2>2, <2>3 DEF MAdmitted
  <2>9. /\ MStall' = IF a.kind = "counter" THEN StallCount(record, a, MStall) ELSE MStall
        /\ record' = Moved(record, a, MStall')
    BY <2>6, <2>7
  <2>10. /\ MOffers' = Append(MOffers, RowOf(a)) /\ Len(MOffers) < MaxOffers
         /\ MFails' = [MFails EXCEPT ![a.role] = 0] /\ MBlocks' = [MBlocks EXCEPT ![a.role] = 0]
    BY <2>2, <2>4, <2>5
  <2> QED  BY <2>2, <2>3, <2>5, <2>8, <2>9, <2>10, FsmRecord
<1>13. CASE ResetFailures(Only)
  <2>1. /\ r.at = "reset" /\ SameBut(r, n, "commit")
        /\ fails' = [fails EXCEPT ![a.role] = 0] /\ blocks' = [blocks EXCEPT ![a.role] = 0]
        /\ UNCHANGED <<row, record, offers, stall, expired>>
    BY <1>1, <1>13 DEF ResetFailures, Go, At, RequestState, SameBut, postgres
  <2>2. MFails = fails' /\ MFails' = fails' /\ MBlocks = blocks' /\ MBlocks' = blocks'
    BY <2>1 DEF SameBut, MFails, MBlocks, FailsSeen, Ending
  <2>3. UNCHANGED <<MStall, MOffers, MAgreed>> /\ (MExpired' <=> MExpired)
    BY <2>1 DEF SameBut, MStall, MOffers, MAgreed, StallSeen, OffersSeen, AgreedSeen, Ahead,
                MExpired, ExpiredSeen
  <2>4. SameView
    BY <2>1, <2>2, <2>3 DEF SameView
  <2> QED  BY <2>4, FsmStutter
<1>14. CASE Commit(Only)
  <2>1. /\ r.at = "commit" /\ n = Idle
        /\ row'.agreed = IF a.kind = "accept" THEN ClosingPrice(r.seen, a) ELSE row.agreed
        /\ offers' = Append(offers, RowOf(a))
        /\ UNCHANGED <<record, fails, stall, expired, blocks>>
    BY <1>1, <1>14 DEF Commit, Leave, At, redis
  <2>2. r.ending = Nobody /\ Nobody # "TIMEOUT"
    BY <2>1, StoreAssumption DEF SeqInv, Judged, Ending, TerminalStates
  <2>3. ~MExpired
    BY <2>1, <2>2 DEF MExpired, ExpiredSeen
  <2>4. /\ MFails = fails /\ MBlocks = blocks /\ MStall = stall /\ MOffers = offers'
        /\ MAgreed = row'.agreed
    BY <2>1 DEF MFails, MBlocks, MStall, MOffers, MAgreed, FailsSeen, StallSeen, OffersSeen,
                AgreedSeen, Ending, Ahead
  <2>5. Plain(n)
    BY <2>1 DEF Plain, Ending, Idle
  <2>6. UNCHANGED <<record, MFails, MBlocks, MStall, MOffers, MAgreed>>
    BY <2>1, <2>4, <2>5, PlainThen
  <2>7. CASE MExpired'
    BY <2>3, <2>6, <2>7, FsmDeadline
  <2>8. CASE ~MExpired'
    BY <2>3, <2>6, <2>8, FsmStutter DEF SameView
  <2> QED  BY <2>7, <2>8
<1>15. CASE EndSet(Only)
  <2>1. /\ r.at = "endset" /\ SameBut(r, n, "rollback") /\ record' = Ended(r.seen, r.ending)
        /\ UNCHANGED <<row, offers, fails, stall, blocks, expired>>
    BY <1>1, <1>15 DEF EndSet, Go, At, RequestState, SameBut, postgres
  <2>2. /\ r.seen = record /\ record.status \in ActiveStates
        /\ r.ending \in {"TIMEOUT", "POLICY_BREACH"}
    BY <1>1, <2>1 DEF SeqInv, Judged, Working, Ending, RequestState
  <2>3. Plain(n) /\ (MExpired' <=> MExpired)
    BY <2>1 DEF Plain, Ending, SameBut, MExpired, ExpiredSeen
  <2>4. CASE r.ending = "TIMEOUT"
    <3>1. Plain(r) /\ MExpired
      BY <2>1, <2>4 DEF Plain, SeqInv, Ending, MExpired, ExpiredSeen
    <3> QED  BY <2>1, <2>2, <2>3, <2>4, <3>1, PlainNow, PlainThen, FsmTimeOut
  <2>5. CASE r.ending = "POLICY_BREACH"
    <3>1. /\ a.role = TurnOf(record) /\ ValidRound(record, a) /\ Breaches(record, a)
          /\ StrikesOut(fails[a.role]) /\ a \in Envelope /\ a.role \in Roles
      BY <1>3, <2>1, <2>2, <2>5 DEF SeqInv, Judged, Ending
    <3>2. /\ MFails = [fails EXCEPT ![a.role] = @ - 1]
          /\ MBlocks = [blocks EXCEPT ![a.role] = @ - 1]
          /\ MStall = stall /\ MOffers = offers /\ MAgreed = row.agreed
      BY <2>1, <2>5 DEF MFails, MBlocks, MStall, MOffers, MAgreed, FailsSeen, StallSeen, OffersSeen,
                        AgreedSeen, Ending, Ahead
    <3>3. MFails' = fails /\ MBlocks' = blocks
      BY <2>1, <2>3, PlainThen
    <3>4. /\ MFails' = [MFails EXCEPT ![a.role] = @ + 1]
          /\ MBlocks' = [MBlocks EXCEPT ![a.role] = @ + 1]
      <4>1. PICK q \in Roles : q = a.role
        BY <3>1
      <4>2. MFails = [fails EXCEPT ![q] = @ - 1] /\ MBlocks = [blocks EXCEPT ![q] = @ - 1]
        BY <3>2, <4>1
      <4>3. fails \in [Roles -> Nat] /\ blocks \in [Roles -> Nat]
        BY <1>1
      <4>4. /\ DOMAIN MFails = Roles /\ MFails[q] = fails[q] - 1
            /\ \A s \in Roles \ {q} : MFails[s] = fails[s]
            /\ DOMAIN MBlocks = Roles /\ MBlocks[q] = blocks[q] - 1
            /\ \A s \in Roles \ {q} : MBlocks[s] = blocks[s]
        BY ONLY <4>2, <4>3, q \in Roles
      <4>5. fails = [MFails EXCEPT ![q] = @ + 1]
        BY ONLY <4>3, <4>4, q \in Roles
      <4>6. blocks = [MBlocks EXCEPT ![q] = @ + 1]
        BY ONLY <4>3, <4>4, q \in Roles
      <4> QED  BY <3>3, <4>1, <4>5, <4>6
    <3>5. UNCHANGED <<MStall, MOffers, MAgreed>>
      BY <2>1, <2>3, <3>2, PlainThen
    <3>6. MAdmitted(a)
      BY <2>1, <2>2, <2>5, <3>1 DEF MAdmitted, MExpired, ExpiredSeen
    <3>7. record' = IF StrikesOut(MFails'[a.role]) THEN Ended(record, "POLICY_BREACH") ELSE record
      BY <2>1, <2>2, <2>5, <3>1, <3>3
    <3> QED  BY <2>3, <3>1, <3>4, <3>5, <3>6, <3>7, FsmBlocked
  <2> QED  BY <2>2, <2>4, <2>5
<1>16. CASE Rollback(Only)
  <2>1. /\ r.at = "rollback" /\ n = Idle
        /\ UNCHANGED <<row, record, offers, fails, stall, blocks, expired>>
    BY <1>1, <1>16 DEF Rollback, Leave, At, redis
  <2>2. Plain(r) /\ Plain(n)
    BY <2>1 DEF Plain, Ending, Idle
  <2>3. UNCHANGED <<record, MFails, MBlocks, MStall, MOffers, MAgreed>>
    BY <2>1, <2>2, PlainNow, PlainThen
  <2>4. MExpired => MExpired'
    BY <2>1 DEF MExpired, ExpiredSeen, Idle
  <2>5. CASE ~MExpired /\ MExpired'
    BY <2>3, <2>5, FsmDeadline
  <2>6. CASE MExpired' <=> MExpired
    BY <2>3, <2>6, FsmStutter DEF SameView
  <2> QED  BY <2>4, <2>5, <2>6
<1> QED
  BY <1>4, <1>5, <1>6, <1>7, <1>8, <1>9, <1>10, <1>11, <1>12, <1>13, <1>14, <1>15, <1>16 DEF Advance

(* FsmSpec: with one request at a time and nothing lost the store does what *)
(* the sequential machine does.  Each step of process_action is a step of   *)
(* DanpFsm or a stutter, so what is proved of DanpFsm holds of the record   *)
(* in Redis, the counters and the offers.                                   *)
THEOREM StoreRefinesFsm ==
    ASSUME Sequential
    PROVE  Spec => FsmSpec
<1>0. Only \in Clients /\ (\A c \in Clients : c = Only) /\ Keys = {} /\ MayAbort = FALSE
  BY DEF Sequential
<1>1. Init => Fsm!Init
  BY <1>0, FsmInit
<1>2. TypeOK /\ TypeOK' /\ SeqInv /\ SeqInv' /\ [Next]_vars => [Fsm!Next]_(Fsm!vars)
  <2> SUFFICES ASSUME TypeOK, TypeOK', SeqInv, SeqInv', [Next]_vars
               PROVE  Fsm!Next \/ UNCHANGED Fsm!vars
    OBVIOUS
  <2>1. CASE \E a \in Requests : Arrive(Only, a)
    <3>1. PICK a \in Requests : Arrive(Only, a)
      BY <2>1
    <3>2. /\ req[Only].at = "idle" /\ req'[Only] = [Idle EXCEPT !.at = "load", !.act = a]
          /\ UNCHANGED <<row, record, offers, fails, stall, blocks, expired>>
      BY <1>0, <3>1 DEF Arrive, At, postgres, redis, TypeOK
    <3>3. Plain(req[Only]) /\ Plain(req'[Only]) /\ (MExpired' <=> MExpired)
      BY <3>2 DEF Plain, Ending, Idle, MExpired, ExpiredSeen
    <3>4. SameView
      BY <3>2, <3>3, PlainNow, PlainThen DEF SameView
    <3> QED  BY <1>0, <3>4, FsmStutter
  <2>2. CASE Advance(Only)
    BY <1>0, <2>2, AdvanceIsFsm
  <2>3. CASE PassDeadline
    <3>1. /\ ~expired /\ expired'
          /\ UNCHANGED <<row, record, offers, fails, stall, blocks, req>>
      BY <2>3 DEF PassDeadline, postgres, redis
    <3>2. UNCHANGED <<record, MFails, MBlocks, MStall, MOffers, MAgreed>>
      BY <3>1 DEF MFails, MBlocks, MStall, MOffers, MAgreed
    <3>3. ~MExpired
      BY <3>1 DEF MExpired, ExpiredSeen
    <3>4. CASE MExpired'
      BY <1>0, <3>2, <3>3, <3>4, FsmDeadline
    <3>5. CASE ~MExpired'
      BY <1>0, <3>2, <3>3, <3>5, FsmStutter DEF SameView
    <3> QED  BY <3>4, <3>5
  <2>4. CASE UNCHANGED vars
    <3>1. SameView
      BY <2>4 DEF vars, SameView, MFails, MBlocks, MStall, MOffers, MAgreed, MExpired
    <3> QED  BY <1>0, <3>1, FsmStutter
  <2>5. ~Abort(Only)
    BY <1>0 DEF Abort
  <2> QED  BY <1>0, <2>1, <2>2, <2>3, <2>4, <2>5 DEF Next
<1> QED
  BY <1>1, <1>2, StoreTypeCorrect, NothingChangesUnderIt, PTL DEF Spec, FsmSpec, Fsm!Spec
-------------------------------------------------------------------------------
(* The engine beside clients (SharedSession).                               *)

(* A step of a request deploys, or ends its transaction, or does neither.   *)
LEMMA DeploymentStep ==
    ASSUME TypeOK, LockHeld, DeployedHeld, NEW c \in Clients, Advance(c)
    PROVE  /\ DeployedHeld'
           /\ \/ UNCHANGED <<chain, escrow>> /\ \A d \in Clients : (req'[d].deployed <=> req[d].deployed)
              \/ /\ At(c, "escrow") /\ \A d \in Clients : ~req[d].deployed
                 /\ escrow' = escrow
                 /\ \/ ~escrow /\ chain' = chain + 1 /\ req'[c].deployed
                    \/ chain' = chain /\ \A d \in Clients : ~req'[d].deployed
              \/ /\ chain' = chain /\ escrow' = (escrow \/ req[c].deployed)
                 /\ \A d \in Clients \ {c} : (req'[d].deployed <=> req[d].deployed)
<1>1. \A d \in Clients \ {c} : req'[d] = req[d]
  BY OthersStay
<1>2. req \in [Clients -> RequestState] /\ req[c] \in RequestState
  BY DEF TypeOK
<1>3. CASE Load(c) \/ Refill(c)
  <2>1. ~req[c].deployed
    BY <1>3 DEF Load, Refill, At, DeployedHeld
  <2>2. PICK s : req'[c] = Checked(req[c], s) \/ req'[c] = [req[c] EXCEPT !.at = "miss"]
    BY <1>2, <1>3 DEF Load, Refill
  <2>3. ~Checked(req[c], s).deployed
    <3> DEFINE T == s.status \in TerminalStates
               E == s.status \in ActiveStates /\ expired
               O == s.status \in ActiveStates /\ ~expired /\ req[c].act.role # TurnOf(s)
    <3>1. CASE T \/ O  BY <3>1 DEF Checked, TerminalStates, ActiveStates, Idle
    <3>2. CASE E /\ ~T  BY <1>2, <2>1, <3>2 DEF Checked, RequestState
    <3>3. CASE ~T /\ ~E /\ ~O  BY <1>2, <2>1, <3>3 DEF Checked, RequestState
    <3> QED  BY <3>1, <3>2, <3>3
  <2>4. ~req'[c].deployed
    BY <1>2, <2>1, <2>2, <2>3 DEF RequestState
  <2>5. UNCHANGED <<chain, escrow>>
    BY <1>3 DEF Load, Refill, postgres
  <2>6. \A d \in Clients : (req'[d].deployed <=> req[d].deployed)
    BY <1>1, <1>2, <2>1, <2>4 DEF RequestState, TypeOK
  <2> QED  BY <1>1, <2>4, <2>5, <2>6 DEF DeployedHeld
<1>4. CASE ReadRow(c) \/ WrongRound(c) \/ Guard(c) \/ CountBlock(c) \/ CountStall(c)
           \/ Write(c) \/ EndWrite(c) \/ EndRead(c) \/ EndSet(c)
  <2>1. ~req[c].deployed
    BY <1>4 DEF ReadRow, WrongRound, Guard, CountBlock, CountStall, Write, EndWrite, EndRead,
                EndSet, At, DeployedHeld
  <2>2. req'[c].deployed = req[c].deployed
    <3>1. CASE ReadRow(c)     BY <1>2, <3>1 DEF ReadRow, RequestState, TypeOK
    <3>2. CASE WrongRound(c) \/ Write(c) \/ EndWrite(c) \/ EndSet(c)
      BY <1>2, <3>2 DEF WrongRound, Write, EndWrite, EndSet, Go, RequestState
    <3>3. CASE Guard(c)       BY <1>2, <3>3 DEF Guard, Go, RequestState
    <3>4. CASE CountBlock(c)  BY <1>2, <3>4 DEF CountBlock, RequestState
    <3>5. CASE CountStall(c)  BY <1>2, <3>5 DEF CountStall, RequestState, TypeOK
    <3>6. CASE EndRead(c)     BY <1>2, <3>6 DEF EndRead, RequestState
    <3> QED  BY <1>4, <3>1, <3>2, <3>3, <3>4, <3>5, <3>6
  <2>3. UNCHANGED <<chain, escrow>>
    BY <1>4 DEF ReadRow, WrongRound, Guard, CountBlock, CountStall, Write, EndWrite, EndRead,
                EndSet, postgres
  <2> QED  BY <1>1, <2>1, <2>2, <2>3 DEF DeployedHeld
<1>5. CASE Publish(c) \/ ResetFailures(c)
  <2>1. req'[c].deployed = req[c].deployed /\ req'[c].at \in {"reset", "commit"}
    BY <1>2, <1>5 DEF Publish, ResetFailures, Go, RequestState
  <2>2. UNCHANGED <<chain, escrow>>
    BY <1>5 DEF Publish, ResetFailures, postgres
  <2> QED  BY <1>1, <2>1, <2>2 DEF DeployedHeld
<1>6. CASE TriggerEscrow(c)
  <2>1. PICK deployed \in BOOLEAN :
          /\ deployed => ~escrow
          /\ chain' = IF deployed THEN chain + 1 ELSE chain
          /\ req' = [req EXCEPT ![c].at = "publish", ![c].deployed = deployed]
    BY <1>6 DEF TriggerEscrow, Deployable
  <2>2. escrow' = escrow /\ At(c, "escrow")
    BY <1>6 DEF TriggerEscrow, postgres
  <2>3. req'[c].at = "publish" /\ req'[c].deployed = deployed
    BY <1>2, <2>1 DEF RequestState, TypeOK
  <2>4. \A d \in Clients : ~req[d].deployed
    BY <2>2 DEF At, LockHeld, Holding, DeployedHeld
  <2>5. DeployedHeld'
    BY <1>1, <2>3, <2>4 DEF DeployedHeld
  <2> QED  BY <1>1, <2>1, <2>2, <2>3, <2>4, <2>5
<1>7. CASE Commit(c) \/ Rollback(c)
  <2>1. ~req'[c].deployed
    BY <1>2, <1>7 DEF Commit, Rollback, Leave, Idle
  <2>2. chain' = chain /\ escrow' = (escrow \/ req[c].deployed)
    BY <1>7 DEF Commit, Rollback, At, DeployedHeld, postgres, TypeOK
  <2>3. DeployedHeld'
    BY <1>1, <2>1 DEF DeployedHeld
  <2> QED  BY <1>1, <2>2, <2>3
<1> QED  BY <1>3, <1>4, <1>5, <1>6, <1>7 DEF Advance

(* A record that is there stays there.                                      *)
LEMMA RecordStays ==
    ASSUME TypeOK, record # Missing, NEW c \in Clients, Advance(c)
    PROVE  record' # Missing
<1>1. \A s \in SessionRecord : s # Missing
  BY StoreAssumption
<1>2. CASE Refill(c) \/ Publish(c)
  <2>1. record' \in SessionRecord
    BY <1>2, RequestFacts, WrittenTyped DEF Refill, Publish, At
  <2> QED  BY <1>1, <2>1
<1>3. CASE EndSet(c)
  <2>1. req[c].ending \in TerminalStates /\ req[c].seen \in SessionRecord
    BY <1>3, RequestFacts DEF EndSet, At, RequestState, TerminalStates
  <2>2. record' \in SessionRecord
    BY <1>3, <2>1, EndedTyped DEF EndSet
  <2> QED  BY <1>1, <2>2
<1>4. CASE ~Refill(c) /\ ~Publish(c) /\ ~EndSet(c)
  BY <1>4 DEF Advance, Load, ReadRow, WrongRound, Guard, CountBlock, CountStall, Write,
              TriggerEscrow, ResetFailures, Commit, EndWrite, EndRead, Rollback, redis
<1> QED  BY <1>2, <1>3, <1>4

(* What the composition relies on of one request: it was admitted on an     *)
(* open session, only an accept deploys, and past its trigger an accept has *)
(* an escrow unless a deployment was missed.                                *)
Sound(c) ==
    /\ req[c].at \in {"guard"} \cup Passed => req[c].seen.status \in ActiveStates
    /\ req[c].at = "escrow" \/ req[c].deployed => req[c].act.kind = "accept"
    /\ req[c].at \in {"publish", "reset", "commit"} /\ req[c].act.kind = "accept" /\ ~missed =>
          escrow \/ req[c].deployed

(* STEPS 3 to 6 admit a request on an open session.                         *)
LEMMA CheckedSound ==
    ASSUME NEW r \in RequestState, ~r.deployed, NEW s \in SessionRecord
    PROVE  /\ ~Checked(r, s).deployed
           /\ Checked(r, s).at \in {"idle", "end", "guard", "wrong"}
           /\ Checked(r, s).at = "guard" => Checked(r, s).seen.status \in ActiveStates
<1>1. /\ ~[r EXCEPT !.at = "end", !.seen = s, !.ending = "TIMEOUT"].deployed
      /\ [r EXCEPT !.at = "end", !.seen = s, !.ending = "TIMEOUT"].at = "end"
  BY DEF RequestState
<1>2. /\ ~[r EXCEPT !.at = "guard", !.seen = s].deployed
      /\ [r EXCEPT !.at = "guard", !.seen = s].at = "guard"
      /\ [r EXCEPT !.at = "guard", !.seen = s].seen = s
  BY DEF RequestState
<1>3. /\ ~[r EXCEPT !.at = "wrong", !.seen = s].deployed
      /\ [r EXCEPT !.at = "wrong", !.seen = s].at = "wrong"
  BY DEF RequestState
<1>4. ~Idle.deployed /\ Idle.at = "idle"
  BY DEF Idle
<1> QED  BY <1>1, <1>2, <1>3, <1>4, CheckedCases

(* Every step of a request keeps it sound.                                  *)
LEMMA StepIsSound ==
    ASSUME TypeOK, LockHeld, DeployedHeld, record # Missing, missed \in BOOLEAN,
           NEW c \in Clients, Step(c), Sound(c)
    PROVE  Sound(c)'
<1>1. req \in [Clients -> RequestState] /\ req[c] \in RequestState /\ Advance(c)
  BY DEF TypeOK, Step
<1>2. At(c, "escrow") \/ missed' = missed
  BY <1>1 DEF Step, RequestState, At
<1>3. CASE Load(c) \/ Refill(c)
  <2>1. ~req[c].deployed
    BY <1>3 DEF Load, Refill, At, DeployedHeld
  <2>2. PICK s \in SessionRecord : req'[c] = Checked(req[c], s)
    <3>1. CASE Load(c)
      <4>1. record \in SessionRecord /\ record # Missing
        BY DEF TypeOK
      <4> QED  BY <1>1, <3>1, <4>1 DEF Load
    <3>2. CASE Refill(c)
      <4>1. req[c].seen \in SessionRecord
        BY <3>2, RequestFacts DEF Refill, At
      <4> QED  BY <1>1, <3>2, <4>1 DEF Refill
    <3> QED  BY <1>3, <3>1, <3>2
  <2> QED  BY <1>1, <2>1, <2>2, CheckedSound DEF Sound, Passed
<1>4. CASE ReadRow(c) \/ WrongRound(c) \/ CountBlock(c) \/ EndWrite(c) \/ EndRead(c) \/ EndSet(c)
  <2>1. ~req[c].deployed
    BY <1>4 DEF ReadRow, WrongRound, CountBlock, EndWrite, EndRead, EndSet, At, DeployedHeld
  <2>2. /\ req'[c].deployed = req[c].deployed
        /\ req'[c].at \in {"refill", "rollback", "end", "endread", "endset"}
    <3>1. CASE ReadRow(c)     BY <1>1, <3>1 DEF ReadRow, RequestState, TypeOK
    <3>2. CASE WrongRound(c) \/ EndWrite(c) \/ EndSet(c)
      BY <1>1, <3>2 DEF WrongRound, EndWrite, EndSet, Go, RequestState
    <3>3. CASE CountBlock(c)  BY <1>1, <3>3 DEF CountBlock, RequestState
    <3>4. CASE EndRead(c)     BY <1>1, <3>4 DEF EndRead, RequestState
    <3> QED  BY <1>4, <3>1, <3>2, <3>3, <3>4
  <2> QED  BY <2>1, <2>2 DEF Sound, Passed
<1>5. CASE Guard(c) \/ CountStall(c) \/ Write(c)
  <2>1. ~req[c].deployed /\ req[c].seen.status \in ActiveStates
    BY <1>5 DEF Guard, CountStall, Write, At, DeployedHeld, Sound, Passed
  <2>2. /\ req'[c].deployed = req[c].deployed /\ req'[c].seen = req[c].seen
        /\ req'[c].act = req[c].act
        /\ req'[c].at \in {"blocked", "stall", "write", "escrow", "publish"}
        /\ req'[c].at = "escrow" => req[c].act.kind = "accept"
        /\ req'[c].at = "publish" => req[c].act.kind # "accept"
    <3>1. CASE Guard(c)       BY <1>1, <3>1 DEF Guard, Go, RequestState
    <3>2. CASE CountStall(c)  BY <1>1, <3>2 DEF CountStall, RequestState, TypeOK
    <3>3. CASE Write(c)       BY <1>1, <3>3 DEF Write, Go, RequestState
    <3> QED  BY <1>5, <3>1, <3>2, <3>3
  <2> QED  BY <2>1, <2>2 DEF Sound, Passed
<1>6. CASE TriggerEscrow(c)
  <2>1. PICK deployed \in BOOLEAN :
          /\ deployed => ~escrow
          /\ chain' = IF deployed THEN chain + 1 ELSE chain
          /\ req' = [req EXCEPT ![c].at = "publish", ![c].deployed = deployed]
    BY <1>6 DEF TriggerEscrow, Deployable
  <2>2. /\ req'[c].at = "publish" /\ req'[c].deployed = deployed
        /\ req'[c].seen = req[c].seen /\ req'[c].act = req[c].act
    BY <1>1, <2>1 DEF RequestState, TypeOK
  <2>3. escrow' = escrow /\ At(c, "escrow")
    BY <1>6 DEF TriggerEscrow, postgres
  <2>4. req[c].seen.status \in ActiveStates /\ req[c].act.kind = "accept"
    BY <2>3 DEF Sound, Passed, At
  <2>5. ~deployed => (missed' <=> missed \/ ~escrow)
    BY <2>1, <2>3 DEF Step, Deployable
  <2> QED  BY <2>2, <2>3, <2>4, <2>5 DEF Sound
<1>7. CASE Publish(c) \/ ResetFailures(c)
  <2>1. /\ req'[c].deployed = req[c].deployed /\ req'[c].seen = req[c].seen
        /\ req'[c].act = req[c].act /\ req'[c].at \in {"reset", "commit"}
    BY <1>1, <1>7 DEF Publish, ResetFailures, Go, RequestState
  <2>2. req[c].at \in {"publish", "reset"} /\ escrow' = escrow
    BY <1>7 DEF Publish, ResetFailures, At, postgres
  <2>3. missed' = missed
    BY <1>2, <2>2 DEF At
  <2> QED  BY <2>1, <2>2, <2>3 DEF Sound, Passed
<1>8. CASE Commit(c) \/ Rollback(c)
  <2>1. req'[c] = Idle
    BY <1>1, <1>8 DEF Commit, Rollback, Leave
  <2> QED  BY <2>1 DEF Sound, Passed, Idle
<1> QED  BY <1>1, <1>3, <1>4, <1>5, <1>6, <1>7, <1>8 DEF Advance

(* What the engine and its clients keep of the store, ...                   *)
StoreInv ==
    /\ TypeOK /\ LockHeld /\ TableInv /\ DeployedHeld
    /\ record # Missing /\ missed \in BOOLEAN
    /\ \A c \in Clients : Sound(c)

(* ... of the engine, ...                                                   *)
EngineInv ==
    /\ engine \in [at : EnginePlaces, turns : 0 .. MaxTurns, known : Statuses \cup {Stale},
                   seen : SessionRecord]
    /\ EngineAt("turn") \/ EngineAt("route") => engine.turns < MaxTurns
    /\ ~EngineAt("route") => At(Runner, "idle")

Accepted == \E j \in DOMAIN offers : offers[j].kind = "accept"

(* ... of what claims that there is a deal: the escrow row, the row's       *)
(* status, the engine's copy of it and the engine's own trigger, ...        *)
Claims ==
    /\ escrow => Accepted
    /\ row.status = "AGREED" => Accepted
    /\ engine.known = "AGREED" => Accepted
    /\ engine.at \in {"check", "deploy", "keep"} => Accepted
    /\ Accepted /\ ~missed => escrow
    /\ engine.at \in {"deploy", "keep"} => missed

Backed == escrow \/ \E c \in Clients : req[c].deployed

(* ... and of the applications: one that is not the engine's, on its way to *)
(* its row, is known to the escrow row or to the request that deployed it.  *)
Counts ==
    /\ chain \in {0, 1, 2}
    /\ chain > 0 /\ engine.at # "keep" => Backed
    /\ chain = 2 => Backed /\ missed /\ engine.at \in {"keep", "done"}

SharedInv == StoreInv /\ EngineInv /\ Claims /\ Counts

(* A step of a request keeps what the composition relies on.                *)
LEMMA StepKeepsStore ==
    ASSUME StoreInv, NEW c \in Clients, Step(c)
    PROVE  StoreInv' /\ (missed => missed') /\ (escrow => escrow')
<1>1. Advance(c) /\ TypeOK /\ LockHeld /\ TableInv /\ DeployedHeld /\ record # Missing
      /\ Sound(c) /\ missed \in BOOLEAN
  BY DEF StoreInv, Step
<1>2. TypeOK'
  BY <1>1, RequestTyped, RedisTyped, TransactionTyped DEF Advance
<1>3. missed' \in BOOLEAN /\ (missed => missed')
  BY <1>1 DEF Step
<1>4. DeployedHeld' /\ (escrow => escrow')
  BY <1>1, DeploymentStep DEF TypeOK
<1>5. Sound(c)'
  BY <1>1, StepIsSound
<1>6. ASSUME NEW d \in Clients, d # c PROVE Sound(d)'
  <2>1. req'[d] = req[d]
    BY <1>1, <1>6, OthersStay
  <2>2. Sound(d)
    BY DEF StoreInv
  <2> QED  BY <1>3, <1>4, <2>1, <2>2 DEF Sound
<1>7. LockHeld' /\ TableInv' /\ record' # Missing
  BY <1>1, AdvanceKeepsLock, AdvanceKeepsTable, RecordStays
<1> QED  BY <1>2, <1>3, <1>4, <1>5, <1>6, <1>7 DEF StoreInv

(* Only the commit of an accept claims a deal, and then there is one.       *)
LEMMA StepKeepsDeal ==
    ASSUME StoreInv, NEW c \in Clients, Step(c)
    PROVE  /\ Accepted => Accepted'
           /\ row'.status = "AGREED" => row.status = "AGREED" \/ Accepted'
           /\ escrow' => escrow \/ Accepted'
           /\ (Accepted /\ ~missed => escrow) => (Accepted' /\ ~missed' => escrow')
<1>1. Advance(c) /\ TypeOK /\ DeployedHeld /\ LockHeld /\ Sound(c) /\ missed \in BOOLEAN
      /\ req[c] \in RequestState
  BY DEF StoreInv, Step, TypeOK
<1>2. (missed => missed') /\ (escrow => escrow')
  BY StepKeepsStore
<1>3. CASE Commit(c)
  <2> DEFINE a == req[c].act
  <2>1. /\ a \in Envelope /\ req[c].at = "commit"
        /\ offers' = Append(offers, RowOf(a)) /\ offers \in Seq(OfferRow)
        /\ RowOf(a).kind = a.kind /\ RowOf(a) \in OfferRow
    BY <1>1, <1>3, RequestFacts, EnvelopeFacts DEF Commit, At, TypeOK
  <2>2. /\ DOMAIN offers' = 1 .. Len(offers) + 1
        /\ DOMAIN offers = 1 .. Len(offers) /\ Len(offers) \in Nat
        /\ offers'[Len(offers) + 1] = RowOf(a)
        /\ \A j \in DOMAIN offers : offers'[j] = offers[j]
    BY <2>1
  <2>3. Accepted' <=> Accepted \/ a.kind = "accept"
    BY <2>1, <2>2 DEF Accepted
  <2>4. escrow' = (escrow \/ req[c].deployed) /\ row'.status = Moved(req[c].seen, a, req[c].stalls).status
    BY <1>3 DEF Commit, Written
  <2>5. req[c].seen.status \in ActiveStates /\ (req[c].deployed => a.kind = "accept")
    BY <1>1, <2>1 DEF Sound, Passed
  <2>6. row'.status = "AGREED" => a.kind = "accept"
    <3>1. a.kind \in {"counter", "accept", "reject", "timeout_yield"}
      BY <2>1, EnvelopeFacts
    <3>2. CounterStatus(req[c].seen, a, req[c].stalls) # "AGREED"
      BY DEF CounterStatus
    <3>3. req[c].seen.status # "AGREED"
      BY <2>5 DEF ActiveStates
    <3> QED  BY <2>4, <3>1, <3>2, <3>3 DEF Moved
  <2>7. a.kind = "accept" /\ ~missed => escrow \/ req[c].deployed
    BY <1>1, <2>1 DEF Sound
  <2> QED  BY <1>2, <2>3, <2>4, <2>5, <2>6, <2>7
<1>4. CASE ~Commit(c)
  <2>1. UNCHANGED <<row, offers, escrow>>
    BY <1>1, <1>4 DEF Advance, Load, ReadRow, Refill, WrongRound, Guard, CountBlock, CountStall,
                     Write, TriggerEscrow, Publish, ResetFailures, EndWrite, EndRead, EndSet,
                     Rollback, postgres
  <2> QED  BY <1>2, <2>1 DEF Accepted
<1> QED  BY <1>3, <1>4

(* A step of a request counts its application.                              *)
LEMMA StepKeepsCount ==
    ASSUME StoreInv, Claims, Counts, NEW c \in Clients, Step(c),
           engine'.at # "keep" => engine.at # "keep",
           engine.at \in {"keep", "done"} => engine'.at = engine.at
    PROVE  Counts'
<1>1. Advance(c) /\ TypeOK /\ DeployedHeld /\ LockHeld
  BY DEF StoreInv, Step
<1>2. (missed => missed') /\ (escrow => escrow') /\ escrow \in BOOLEAN
  BY <1>1, StepKeepsStore DEF TypeOK
<1>3. CASE chain' = chain /\ (Backed => Backed')
  BY <1>2, <1>3 DEF Counts
<1>4. CASE /\ chain' = chain + 1 /\ ~escrow /\ \A d \in Clients : ~req[d].deployed
           /\ req'[c].deployed
  <2>1. ~Backed /\ Backed'
    BY <1>4 DEF Backed
  <2>2. chain = 0 \/ (chain = 1 /\ engine.at = "keep" /\ missed)
    BY <2>1 DEF Counts, Claims
  <2> QED  BY <1>2, <1>4, <2>1, <2>2 DEF Counts
<1>5. (chain' = chain /\ (Backed => Backed'))
      \/ (/\ chain' = chain + 1 /\ ~escrow /\ \A d \in Clients : ~req[d].deployed
          /\ req'[c].deployed)
  <2>1. CASE UNCHANGED <<chain, escrow>> /\ \A d \in Clients : (req'[d].deployed <=> req[d].deployed)
    BY <2>1 DEF Backed
  <2>2. CASE /\ At(c, "escrow") /\ \A d \in Clients : ~req[d].deployed
             /\ escrow' = escrow
             /\ \/ ~escrow /\ chain' = chain + 1 /\ req'[c].deployed
                \/ chain' = chain /\ \A d \in Clients : ~req'[d].deployed
    BY <2>2 DEF Backed
  <2>3. CASE /\ chain' = chain /\ escrow' = (escrow \/ req[c].deployed)
             /\ \A d \in Clients \ {c} : (req'[d].deployed <=> req[d].deployed)
    BY <2>3 DEF Backed
  <2> QED  BY <1>1, <2>1, <2>2, <2>3, DeploymentStep
<1> QED  BY <1>3, <1>4, <1>5

(* The engine's own writes, and the deadline, touch little of the store.    *)
LEMMA StoreStays ==
    ASSUME StoreInv, UNCHANGED <<offers, lock, record, stall, valuation, req, faults, missed>>,
           row'.lastOffer = row.lastOffer, row'.agreed = row.agreed,
           row' \in [status : ActiveStates \cup TerminalStates, round : Nat,
                     lastOffer : [Roles -> MaybePrice], agreed : MaybePrice],
           fails' \in [Roles -> Nat], blocks' \in [Roles -> Nat],
           expired' \in BOOLEAN, escrow' \in BOOLEAN, chain' \in Nat,
           escrow => escrow'
    PROVE  StoreInv' /\ (Accepted' <=> Accepted)
<1>1. TypeOK /\ LockHeld /\ TableInv /\ DeployedHeld /\ record # Missing /\ missed \in BOOLEAN
  BY DEF StoreInv
<1>2. TypeOK'
  BY <1>1 DEF TypeOK
<1>3. LockHeld' /\ DeployedHeld' /\ record' # Missing /\ missed' \in BOOLEAN
  BY <1>1 DEF LockHeld, DeployedHeld
<1>4. \A r, p : Tabled(r, p) <=> Tabled(r, p)'
  BY DEF Tabled
<1>5. TableInv'
  BY <1>1, <1>4 DEF TableInv, OnTable, DealOnTable
<1>6. ASSUME NEW c \in Clients PROVE Sound(c)'
  <2>1. Sound(c)
    BY DEF StoreInv
  <2> QED  BY <2>1 DEF Sound
<1> QED  BY <1>2, <1>3, <1>5, <1>6 DEF StoreInv, Accepted

(* A request starts, a client's or the engine's.                            *)
LEMMA StartKeepsStore ==
    ASSUME StoreInv, NEW c \in Clients, NEW a \in Requests, At(c, "idle"),
           req' = [req EXCEPT ![c] = [Idle EXCEPT !.at = "load", !.act = a]],
           UNCHANGED <<postgres, chain, redis, expired, blocks, faults, missed>>
    PROVE  StoreInv' /\ (Accepted' <=> Accepted) /\ (Backed => Backed')
<1>1. TypeOK /\ LockHeld /\ TableInv /\ DeployedHeld /\ record # Missing /\ missed \in BOOLEAN
  BY DEF StoreInv
<1>2. /\ \A d \in Clients \ {c} : req'[d] = req[d]
      /\ req[c].at = "idle" /\ req'[c].at = "load" /\ ~req'[c].deployed /\ req'[c].act = a
      /\ UNCHANGED <<row, offers, escrow, lock, record>>
  BY <1>1 DEF At, postgres, redis, TypeOK, Idle
<1>3. TypeOK'
  <2>1. [Idle EXCEPT !.at = "load", !.act = a] \in RequestState
    BY DEF Idle, RequestState, Places
  <2>2. req' \in [Clients -> RequestState]
    BY <1>1, <2>1 DEF TypeOK
  <2> QED  BY <1>1, <2>2 DEF TypeOK, postgres, redis
<1>4. LockHeld'
  <2>1. lock' = lock /\ lock # c
    BY <1>1, <1>2 DEF LockHeld, Holding
  <2> QED  BY <1>1, <1>2, <2>1, LockStep DEF Holding
<1>5. TableInv'
  <2>1. record # Missing => OnTable(record.lastOffer)
    BY <1>1 DEF TableInv
  <2> QED  BY <1>1, <1>2, <2>1, TableStep DEF Ahead
<1>6. DeployedHeld' /\ (Backed => Backed')
  BY <1>1, <1>2 DEF DeployedHeld, Backed
<1>7. ASSUME NEW d \in Clients PROVE Sound(d)'
  <2>1. CASE d = c
    BY <1>2, <2>1 DEF Sound, Passed
  <2>2. CASE d # c
    <3>1. Sound(d) /\ req'[d] = req[d]
      BY <1>2, <2>2 DEF StoreInv
    <3> QED  BY <1>2, <3>1 DEF Sound
  <2> QED  BY <2>1, <2>2
<1> QED  BY <1>1, <1>2, <1>3, <1>4, <1>5, <1>6, <1>7 DEF StoreInv, Accepted

(* A step of the engine that only reads.                                    *)
LEMMA ReadKeepsShared ==
    ASSUME SharedInv, EngineInv', UNCHANGED store,
           ~EngineAt("deploy") /\ ~EngineAt("keep") /\ ~EngineAt("done"),
           engine'.known = "AGREED" => engine.known = "AGREED" \/ row.status = "AGREED",
           engine'.at \in {"check", "deploy", "keep"} => Accepted,
           engine'.at \in {"deploy", "keep"} => missed
    PROVE  SharedInv'
<1>1. StoreInv' /\ (Accepted' <=> Accepted) /\ (Backed' <=> Backed)
  <2>1. UNCHANGED <<row, offers, escrow, lock, chain, record, fails, stall, valuation, expired,
                    req, blocks, faults, missed>>
    BY DEF store, postgres, redis
  <2>2. TypeOK
    BY DEF SharedInv, StoreInv
  <2>3. /\ row \in [status : ActiveStates \cup TerminalStates, round : Nat,
                    lastOffer : [Roles -> MaybePrice], agreed : MaybePrice]
        /\ fails \in [Roles -> Nat] /\ blocks \in [Roles -> Nat]
        /\ expired \in BOOLEAN /\ escrow \in BOOLEAN /\ chain \in Nat
    BY <2>2 DEF TypeOK
  <2>4. StoreInv' /\ (Accepted' <=> Accepted)
    BY <2>1, <2>3, StoreStays DEF SharedInv
  <2> QED  BY <2>1, <2>4 DEF Backed
<1>2. UNCHANGED <<row, escrow, missed, chain>>
  BY DEF store, postgres
<1>3. Claims'
  BY <1>1, <1>2 DEF SharedInv, Claims
<1>4. Counts'
  BY <1>1, <1>2 DEF SharedInv, Counts, EngineAt
<1> QED  BY <1>1, <1>3, <1>4 DEF SharedInv

(* SharedInit.                                                              *)
LEMMA SharedStarts == SharedInit => SharedInv
<1> SUFFICES ASSUME SharedInit PROVE SharedInv
  OBVIOUS
<1>1. PICK opening \in Prices :
        /\ record = Opened(opening)
        /\ row = [status |-> "BUYER_ANCHOR", round |-> 1,
                  lastOffer |-> Opened(opening).lastOffer, agreed |-> NoOffer]
        /\ offers = <<[role |-> "buyer", kind |-> "counter", price |-> opening]>>
  BY DEF SharedInit, Init
<1>2. TypeOK
  BY InitTyped DEF SharedInit
<1>3. record \in SessionRecord /\ record # Missing
  <2>1. Opened(opening) \in SessionRecord
    BY DEF Opened, SessionRecord, MaybePrice, Roles, ActiveStates
  <2> QED  BY <1>1, <2>1, StoreAssumption
<1>4. \A c \in Clients : req[c].at = "idle" /\ ~req[c].deployed /\ c # Free
  BY StoreAssumption DEF SharedInit, Init, Idle
<1>5. LockHeld /\ DeployedHeld
  BY <1>4 DEF SharedInit, Init, LockHeld, Holding, DeployedHeld
<1>6. TableInv
  <2>1. 1 \in DOMAIN offers /\ offers[1].role = "buyer" /\ offers[1].price = opening
    BY <1>1
  <2>2. Opened(opening).lastOffer = [r \in Roles |-> IF r = "buyer" THEN opening ELSE NoOffer]
    BY DEF Opened
  <2>3. OnTable(Opened(opening).lastOffer)
    BY <2>1, <2>2 DEF OnTable, Tabled
  <2> QED  BY <1>1, <1>4, <2>3 DEF TableInv, DealOnTable
<1>7. \A c \in Clients : Sound(c)
  BY <1>4 DEF Sound, Passed
<1>8. EngineInv
  BY <1>3, <1>4, SharedAssumption
     DEF EngineInv, SharedInit, EngineAt, At, EnginePlaces, Statuses, ActiveStates
<1>9. ~escrow /\ ~Accepted /\ chain = 0
  BY <1>1 DEF Accepted, SharedInit, Init
<1>10. Claims /\ Counts
  BY <1>1, <1>9 DEF SharedInit, Claims, Counts
<1> QED  BY <1>2, <1>3, <1>5, <1>6, <1>7, <1>8, <1>10 DEF SharedInv, StoreInv, SharedInit

(* The iteration after one that is not the last.                            *)
LEMMA NextTurn ==
    ASSUME MaxTurns \in Nat, NEW n \in 0 .. MaxTurns, n < MaxTurns
    PROVE  n + 1 \in 0 .. MaxTurns
OBVIOUS

(* The engine's reads, and its turns that come to nothing.                  *)
LEMMA EngineReads ==
    ASSUME SharedInv,
           \/ Observe \/ LookupFails \/ TurnFails \/ RateLimited \/ BreachRead
           \/ Settle \/ Recall \/ Check
    PROVE  SharedInv'
<1>1. /\ UNCHANGED store
      /\ engine.at \in {"top", "turn", "breach", "settle", "recall", "check"}
  BY DEF Observe, LookupFails, TurnFails, RateLimited, BreachRead, Settle, Recall, Check, EngineAt
<1>2. /\ engine \in [at : EnginePlaces, turns : 0 .. MaxTurns, known : Statuses \cup {Stale},
                     seen : SessionRecord]
      /\ engine.at = "turn" => engine.turns < MaxTurns
      /\ At(Runner, "idle") /\ record \in SessionRecord
      /\ row.status \in Statuses /\ MaxTurns \in Nat
  BY <1>1, SharedAssumption DEF SharedInv, EngineInv, EngineAt, StoreInv, TypeOK, Statuses
<1>3. Recalled \in Statuses /\ (Recalled = "AGREED" => engine.known = "AGREED" \/ row.status = "AGREED")
  BY <1>2 DEF Recalled
<1>4. At(Runner, "idle")'
  BY <1>1, <1>2 DEF store, At
<1>5. (engine.known = "AGREED" \/ row.status = "AGREED" \/ engine.at = "check") => Accepted
  BY DEF SharedInv, Claims
<1>6. CASE Observe
  <2>1. CASE engine' = [engine EXCEPT !.at = "settle"]
    <3>1. EngineInv'
      BY <1>2, <1>4, <2>1 DEF EngineInv, EngineAt, EnginePlaces
    <3> QED  BY <1>1, <1>2, <2>1, <3>1, ReadKeepsShared DEF EngineAt
  <2>2. CASE engine' = [engine EXCEPT !.at = "turn", !.seen = record] /\ engine.turns # MaxTurns
    <3>1. engine.turns < MaxTurns
      <4>1. engine.turns \in 0 .. MaxTurns
        BY <1>2
      <4> QED  BY <1>2, <2>2, <4>1
    <3>2. EngineInv'
      BY <1>2, <1>4, <2>2, <3>1 DEF EngineInv, EngineAt, EnginePlaces
    <3> QED  BY <1>1, <1>2, <2>2, <3>2, ReadKeepsShared DEF EngineAt
  <2> QED  BY <1>6, <2>1, <2>2 DEF Observe
<1>7. CASE LookupFails
  <2>1. PICK p \in {"settle", "lookup"} : engine' = [engine EXCEPT !.at = p, !.known = Recalled]
    BY <1>7 DEF LookupFails
  <2>2. EngineInv'
    BY <1>2, <1>3, <1>4, <2>1 DEF EngineInv, EngineAt, EnginePlaces
  <2> QED  BY <1>1, <1>2, <1>3, <2>1, <2>2, ReadKeepsShared DEF EngineAt
<1>8. CASE TurnFails
  <2>1. engine.at = "turn" /\ engine' = [engine EXCEPT !.at = "top", !.known = Stale, !.turns = @ + 1]
    BY <1>8 DEF TurnFails, FailedTurn, EngineAt
  <2>2. EngineInv'
    <3>1. engine.turns + 1 \in 0 .. MaxTurns
      BY <1>2, <2>1, NextTurn
    <3> QED  BY <1>2, <1>4, <2>1, <3>1 DEF EngineInv, EngineAt, EnginePlaces
  <2>3. engine'.known # "AGREED" /\ engine'.at = "top"
    BY <1>2, <2>1, SharedAssumption DEF TerminalStates
  <2> QED  BY <1>1, <2>2, <2>3, ReadKeepsShared DEF EngineAt
<1>9. CASE RateLimited
  <2>1. engine.at = "turn" /\ engine' = [engine EXCEPT !.at = "top", !.turns = @ + 1]
    BY <1>9 DEF RateLimited, EngineAt
  <2>2. EngineInv'
    <3>1. engine.turns + 1 \in 0 .. MaxTurns
      BY <1>2, <2>1, NextTurn
    <3> QED  BY <1>2, <1>4, <2>1, <3>1 DEF EngineInv, EngineAt, EnginePlaces
  <2> QED  BY <1>1, <1>2, <2>1, <2>2, ReadKeepsShared DEF EngineAt
<1>10. CASE BreachRead
  <2>1. PICK p \in {"settle", "breachset"} : engine' = [engine EXCEPT !.at = p, !.known = row.status]
    BY <1>10 DEF BreachRead
  <2>2. EngineInv'
    BY <1>2, <1>4, <2>1 DEF EngineInv, EngineAt, EnginePlaces
  <2> QED  BY <1>1, <1>2, <2>1, <2>2, ReadKeepsShared DEF EngineAt
<1>11. CASE Settle
  <2>1. PICK p \in {"recall", "done"} : engine' = [engine EXCEPT !.at = p]
    BY <1>11 DEF Settle, EngineGo
  <2>2. EngineInv'
    BY <1>2, <1>4, <2>1 DEF EngineInv, EngineAt, EnginePlaces
  <2> QED  BY <1>1, <1>2, <2>1, <2>2, ReadKeepsShared DEF EngineAt
<1>12. CASE Recall
  <2>1. PICK p \in {"check", "done"} :
          /\ engine' = [engine EXCEPT !.at = p, !.known = Recalled]
          /\ p = "check" => Recalled = "AGREED"
    BY <1>12 DEF Recall
  <2>2. EngineInv'
    BY <1>2, <1>3, <1>4, <2>1 DEF EngineInv, EngineAt, EnginePlaces
  <2> QED  BY <1>1, <1>2, <1>3, <1>5, <2>1, <2>2, ReadKeepsShared DEF EngineAt
<1>13. CASE Check
  <2>1. PICK p \in {"deploy", "done"} :
          /\ engine.at = "check" /\ engine' = [engine EXCEPT !.at = p]
          /\ p = "deploy" => ~escrow
    BY <1>13 DEF Check, EngineGo, EngineAt, Deployable
  <2>2. EngineInv'
    BY <1>2, <1>4, <2>1 DEF EngineInv, EngineAt, EnginePlaces
  <2>3. p = "deploy" => missed
    BY <1>5, <2>1 DEF SharedInv, Claims, StoreInv
  <2> QED  BY <1>1, <1>2, <1>5, <2>1, <2>2, <2>3, ReadKeepsShared DEF EngineAt
<1> QED  BY <1>6, <1>7, <1>8, <1>9, <1>10, <1>11, <1>12, <1>13

(* The engine overwrites the row's status with an end that is no deal.      *)
LEMMA EngineSets ==
    ASSUME SharedInv, LookupSet \/ BreachSet
    PROVE  SharedInv'
<1>1. PICK status \in {"WALKAWAY", "POLICY_BREACH"}, p \in {"crashed", "settle"} :
        /\ SetStatus(status) /\ engine' = [engine EXCEPT !.at = p, !.known = status]
        /\ engine.at \in {"lookup", "breachset"}
  BY DEF LookupSet, BreachSet, EngineAt
<1>2. /\ row' = [row EXCEPT !.status = status]
      /\ UNCHANGED <<offers, escrow, lock, chain, record, fails, stall, valuation, expired, req,
                     blocks, faults, missed>>
  BY <1>1 DEF SetStatus, redis
<1>3. TypeOK /\ status \in TerminalStates /\ status # "AGREED"
  BY DEF SharedInv, StoreInv, TerminalStates
<1>4. /\ row \in [status : ActiveStates \cup TerminalStates, round : Nat,
                  lastOffer : [Roles -> MaybePrice], agreed : MaybePrice]
      /\ fails \in [Roles -> Nat] /\ blocks \in [Roles -> Nat]
      /\ expired \in BOOLEAN /\ escrow \in BOOLEAN /\ chain \in Nat
  BY <1>3 DEF TypeOK
<1>5. /\ row' \in [status : ActiveStates \cup TerminalStates, round : Nat,
                   lastOffer : [Roles -> MaybePrice], agreed : MaybePrice]
      /\ row'.lastOffer = row.lastOffer /\ row'.agreed = row.agreed /\ row'.status = status
  BY <1>2, <1>3, <1>4
<1>6. StoreInv' /\ (Accepted' <=> Accepted)
  BY <1>2, <1>4, <1>5, StoreStays DEF SharedInv
<1>7. EngineInv'
  BY <1>1, <1>2, <1>3 DEF SharedInv, EngineInv, EngineAt, EnginePlaces, At, Statuses
<1>8. engine'.known # "AGREED" /\ engine'.at \in {"crashed", "settle"}
  BY <1>1, <1>3 DEF SharedInv, EngineInv
<1>9. Claims'
  BY <1>2, <1>3, <1>5, <1>6, <1>8 DEF SharedInv, Claims
<1>10. Counts'
  BY <1>1, <1>2, <1>8 DEF SharedInv, Counts, Backed
<1> QED  BY <1>6, <1>7, <1>9, <1>10 DEF SharedInv

(* The engine starts a request, or its pipeline blocks the counter.         *)
LEMMA EngineChooses ==
    ASSUME SharedInv, NEW a \in Requests, Choose(a) \/ ChooseBlocked(a)
    PROVE  SharedInv'
<1>1. /\ engine.at = "turn" /\ engine.turns < MaxTurns /\ At(Runner, "idle") /\ TypeOK
      /\ engine \in [at : EnginePlaces, turns : 0 .. MaxTurns, known : Statuses \cup {Stale},
                     seen : SessionRecord]
      /\ Runner \in Clients /\ MaxTurns \in Nat
  BY SharedAssumption DEF Choose, ChooseBlocked, EngineAt, SharedInv, EngineInv, StoreInv
<1>2. CASE Choose(a)
  <2>1. /\ req' = [req EXCEPT ![Runner] = [Idle EXCEPT !.at = "load", !.act = a]]
        /\ UNCHANGED <<postgres, chain, redis, expired, blocks, faults, missed>>
        /\ engine' = [engine EXCEPT !.at = "route"]
    BY <1>2 DEF Choose, EngineGo
  <2>2. StoreInv' /\ (Accepted' <=> Accepted) /\ (Backed => Backed')
    BY <1>1, <2>1, StartKeepsStore DEF SharedInv
  <2>3. EngineInv' /\ engine'.at = "route" /\ engine'.known = engine.known
    BY <1>1, <2>1 DEF EngineInv, EngineAt, EnginePlaces
  <2>4. UNCHANGED <<row, escrow, chain, missed>>
    BY <2>1 DEF postgres
  <2>5. Claims'
    BY <2>2, <2>3, <2>4 DEF SharedInv, Claims
  <2>6. Counts'
    BY <1>1, <2>2, <2>3, <2>4 DEF SharedInv, Counts
  <2> QED  BY <2>2, <2>3, <2>5, <2>6 DEF SharedInv
<1>3. CASE ChooseBlocked(a)
  <2>1. /\ fails' = [fails EXCEPT ![a.role] = @ + 1] /\ blocks' = [blocks EXCEPT ![a.role] = @ + 1]
        /\ UNCHANGED <<row, offers, escrow, lock, chain, record, stall, valuation, expired, req,
                       faults, missed>>
    BY <1>3 DEF ChooseBlocked, postgres
  <2>2. a.role \in Roles
    BY StoreAssumption, EnvelopeFacts
  <2>3. fails' \in [Roles -> Nat] /\ blocks' \in [Roles -> Nat]
    <3>1. fails \in [Roles -> Nat] /\ blocks \in [Roles -> Nat]
      BY <1>1 DEF TypeOK
    <3>2. fails' = [fails EXCEPT ![a.role] = @ + 1] /\ blocks' = [blocks EXCEPT ![a.role] = @ + 1]
      BY <2>1
    <3> QED  BY <2>2, <3>1, <3>2
  <2>4. StoreInv' /\ (Accepted' <=> Accepted)
    <3>1. /\ row \in [status : ActiveStates \cup TerminalStates, round : Nat,
                      lastOffer : [Roles -> MaybePrice], agreed : MaybePrice]
          /\ expired \in BOOLEAN /\ escrow \in BOOLEAN /\ chain \in Nat
      BY <1>1 DEF TypeOK
    <3> QED  BY <2>1, <2>3, <3>1, StoreStays DEF SharedInv
  <2>5. \/ engine' = [engine EXCEPT !.at = "breach", !.known = Stale]
        \/ engine' = [engine EXCEPT !.at = "top", !.known = Stale, !.turns = @ + 1]
    BY <1>3 DEF ChooseBlocked, FailedTurn
  <2>6. At(Runner, "idle")'
    BY <1>1, <2>1 DEF At
  <2>7. EngineInv'
    <3>1. engine.turns + 1 \in 0 .. MaxTurns
      BY <1>1, NextTurn
    <3> QED  BY <1>1, <2>5, <2>6, <3>1 DEF EngineInv, EngineAt, EnginePlaces
  <2>8. engine'.known # "AGREED" /\ engine'.at \in {"top", "breach"}
    BY <1>1, <2>5, SharedAssumption DEF TerminalStates
  <2>9. Claims'
    BY <2>1, <2>4, <2>8 DEF SharedInv, Claims
  <2>10. Counts'
    BY <1>1, <2>1, <2>8 DEF SharedInv, Counts, Backed
  <2> QED  BY <2>4, <2>7, <2>9, <2>10 DEF SharedInv
<1> QED  BY <1>2, <1>3

(* The engine's own trigger deploys and keeps its row.                      *)
LEMMA EngineDeploys ==
    ASSUME SharedInv, Deploy \/ Keep
    PROVE  SharedInv'
<1>1. /\ engine.at \in {"deploy", "keep"} /\ TypeOK /\ At(Runner, "idle") /\ missed /\ Accepted
      /\ engine \in [at : EnginePlaces, turns : 0 .. MaxTurns, known : Statuses \cup {Stale},
                     seen : SessionRecord]
  BY DEF Deploy, Keep, EngineAt, SharedInv, EngineInv, StoreInv, Claims
<1>2. /\ row \in [status : ActiveStates \cup TerminalStates, round : Nat,
                  lastOffer : [Roles -> MaybePrice], agreed : MaybePrice]
      /\ fails \in [Roles -> Nat] /\ blocks \in [Roles -> Nat]
      /\ expired \in BOOLEAN /\ escrow \in BOOLEAN /\ chain \in Nat
  BY <1>1 DEF TypeOK
<1>3. UNCHANGED <<row, offers, lock, record, fails, stall, valuation, expired, req, blocks,
                  faults, missed>>
  BY DEF Deploy, Keep, postgres, redis
<1>4. PICK p \in {"keep", "done"} :
        /\ engine' = [engine EXCEPT !.at = p]
        /\ \/ /\ engine.at = "deploy" /\ escrow' = escrow
              /\ chain' = IF p = "keep" THEN chain + 1 ELSE chain
           \/ engine.at = "keep" /\ p = "done" /\ escrow' = TRUE /\ chain' = chain
  BY DEF Deploy, Keep, EngineGo, EngineAt, postgres
<1>5. StoreInv' /\ (Accepted' <=> Accepted)
  <2>1. chain' \in Nat /\ escrow' \in BOOLEAN /\ (escrow => escrow')
    <3>1. chain \in Nat /\ escrow \in BOOLEAN
      BY <1>2
    <3>2. (chain' = chain \/ chain' = chain + 1) /\ (escrow' = escrow \/ escrow' = TRUE)
      BY <1>4
    <3>3. chain' \in Nat
      BY <3>1, <3>2
    <3>4. escrow' \in BOOLEAN /\ (escrow => escrow')
      <4>1. CASE escrow' = escrow  BY <3>1, <4>1
      <4>2. CASE escrow' = TRUE    BY <4>2
      <4> QED  BY <3>2, <4>1, <4>2
    <3> QED  BY <3>3, <3>4
  <2>2. StoreInv
    BY DEF SharedInv
  <2> QED  BY <1>2, <1>3, <2>1, <2>2, StoreStays
<1>6. EngineInv' /\ engine'.at = p /\ engine'.known = engine.known
  BY <1>1, <1>3, <1>4 DEF SharedInv, EngineInv, EngineAt, EnginePlaces, At
<1>7. Claims'
  BY <1>1, <1>3, <1>4, <1>5, <1>6 DEF SharedInv, Claims
<1>8. Counts'
  BY <1>1, <1>3, <1>4, <1>6 DEF SharedInv, Counts, Backed
<1> QED  BY <1>5, <1>6, <1>7, <1>8 DEF SharedInv

(* A step of a request, a client's or the engine's.                         *)
LEMMA SharedStep ==
    ASSUME SharedInv, NEW c \in Clients, Step(c), EngineInv',
           engine.at \in {"keep", "done", "deploy", "check"} => engine'.at = engine.at,
           engine'.at \in {"keep", "deploy", "check"} => engine'.at = engine.at,
           engine'.known = "AGREED" => engine.known = "AGREED" \/ row'.status = "AGREED"
    PROVE  SharedInv'
<1>1. StoreInv' /\ (missed => missed')
  BY StepKeepsStore DEF SharedInv
<1>2. /\ Accepted => Accepted'
      /\ row'.status = "AGREED" => row.status = "AGREED" \/ Accepted'
      /\ escrow' => escrow \/ Accepted'
      /\ (Accepted /\ ~missed => escrow) => (Accepted' /\ ~missed' => escrow')
  BY StepKeepsDeal DEF SharedInv
<1>3. Claims'
  BY <1>1, <1>2 DEF SharedInv, Claims
<1>4. Counts'
  BY StepKeepsCount DEF SharedInv
<1> QED  BY <1>1, <1>3, <1>4 DEF SharedInv

(* The engine's own request takes a step.                                   *)
LEMMA EngineRoutes ==
    ASSUME SharedInv, Route
    PROVE  SharedInv'
<1>1. /\ engine.at = "route" /\ engine.turns < MaxTurns /\ Step(Runner) /\ engine' = Routed
      /\ engine \in [at : EnginePlaces, turns : 0 .. MaxTurns, known : Statuses \cup {Stale},
                     seen : SessionRecord]
      /\ Runner \in Clients /\ MaxTurns \in Nat
  BY SharedAssumption DEF Route, EngineAt, SharedInv, EngineInv
<1>2. StoreInv' /\ row'.status \in Statuses
  <2>1. StoreInv'
    BY <1>1, StepKeepsStore DEF SharedInv
  <2> QED  BY <2>1 DEF StoreInv, TypeOK, Statuses
<1>3. \/ ~At(Runner, "idle")' /\ engine' = engine
      \/ /\ At(Runner, "idle")'
         /\ \/ engine' = [engine EXCEPT !.at = "top", !.turns = @ + 1, !.known = row'.status]
            \/ engine' = [engine EXCEPT !.at = "breach", !.known = Stale]
            \/ engine' = [engine EXCEPT !.at = "top", !.known = Stale, !.turns = @ + 1]
  <2>1. CASE ~At(Runner, "idle")'
    BY <1>1, <2>1 DEF Routed
  <2>2. CASE At(Runner, "idle")' /\ At(Runner, "commit")
    BY <1>1, <2>2 DEF Routed
  <2>3. CASE At(Runner, "idle")' /\ ~At(Runner, "commit") /\ req[Runner].ending = "POLICY_BREACH"
    BY <1>1, <2>3 DEF Routed
  <2>4. CASE At(Runner, "idle")' /\ ~At(Runner, "commit") /\ req[Runner].ending # "POLICY_BREACH"
    BY <1>1, <2>4 DEF Routed, FailedTurn
  <2> QED  BY <2>1, <2>2, <2>3, <2>4
<1>4. EngineInv'
  <2>1. engine.turns + 1 \in 0 .. MaxTurns
    BY <1>1, NextTurn
  <2> QED  BY <1>1, <1>2, <1>3, <2>1 DEF EngineInv, EngineAt, EnginePlaces
<1>5. engine'.at \in {"route", "top", "breach"}
      /\ (engine'.known = "AGREED" => engine.known = "AGREED" \/ row'.status = "AGREED")
  BY <1>1, <1>3, SharedAssumption DEF TerminalStates
<1> QED  BY <1>1, <1>4, <1>5, SharedStep

(* A client's request arrives or takes a step, or the deadline passes.      *)
LEMMA OthersKeepShared ==
    ASSUME SharedInv,
           \/ \E c \in Clients \ {Runner} : Client(c) \/ \E a \in Requests : ClientArrives(c, a)
           \/ DeadlinePasses
    PROVE  SharedInv'
<1>1. ASSUME NEW c \in Clients \ {Runner}, Client(c) PROVE SharedInv'
  <2>1. Step(c) /\ engine' = engine
    BY <1>1 DEF Client
  <2>2. TypeOK /\ Advance(c)
    BY <2>1 DEF Step, SharedInv, StoreInv
  <2>3. req'[Runner] = req[Runner]
    BY <1>1, <2>2, OthersStay, SharedAssumption
  <2>4. EngineInv'
    BY <2>1, <2>3 DEF SharedInv, EngineInv, EngineAt, At
  <2> QED  BY <1>1, <2>1, <2>4, SharedStep
<1>2. ASSUME NEW c \in Clients \ {Runner}, NEW a \in Requests, ClientArrives(c, a)
      PROVE  SharedInv'
  <2>1. /\ At(c, "idle") /\ req' = [req EXCEPT ![c] = [Idle EXCEPT !.at = "load", !.act = a]]
        /\ UNCHANGED <<postgres, chain, redis, expired, blocks, faults, missed>>
        /\ engine' = engine /\ TypeOK
    BY <1>2 DEF ClientArrives, Arrive, SharedInv, StoreInv
  <2>2. StoreInv' /\ (Accepted' <=> Accepted) /\ (Backed => Backed')
    BY <2>1, StartKeepsStore DEF SharedInv
  <2>3. req'[Runner] = req[Runner]
    BY <2>1, SharedAssumption DEF TypeOK
  <2>4. EngineInv'
    BY <2>1, <2>3 DEF SharedInv, EngineInv, EngineAt, At
  <2>5. UNCHANGED <<row, escrow, chain, missed>>
    BY <2>1 DEF postgres
  <2>6. Claims' /\ Counts'
    BY <2>1, <2>2, <2>5 DEF SharedInv, Claims, Counts
  <2> QED  BY <2>2, <2>4, <2>6 DEF SharedInv
<1>3. CASE DeadlinePasses
  <2>1. /\ UNCHANGED <<row, offers, escrow, lock, chain, record, fails, stall, valuation, req,
                       blocks, faults, missed, engine>>
        /\ expired' = TRUE
    BY <1>3 DEF DeadlinePasses, PassDeadline, postgres, redis
  <2>2. TypeOK
    BY DEF SharedInv, StoreInv
  <2>3. /\ row \in [status : ActiveStates \cup TerminalStates, round : Nat,
                    lastOffer : [Roles -> MaybePrice], agreed : MaybePrice]
        /\ fails \in [Roles -> Nat] /\ blocks \in [Roles -> Nat]
        /\ escrow \in BOOLEAN /\ chain \in Nat
    BY <2>2 DEF TypeOK
  <2>4. StoreInv' /\ (Accepted' <=> Accepted)
    BY <2>1, <2>3, StoreStays DEF SharedInv
  <2>5. EngineInv' /\ Claims' /\ Counts'
    BY <2>1, <2>4 DEF SharedInv, EngineInv, EngineAt, At, Claims, Counts, Backed
  <2> QED  BY <2>4, <2>5 DEF SharedInv
<1> QED  BY <1>1, <1>2, <1>3

(* The invariant of the engine beside clients.                              *)
LEMMA SharedInvariant == SharedSpec => []SharedInv
<1>1. SharedInv /\ [SharedNext]_shared => SharedInv'
  <2> SUFFICES ASSUME SharedInv, [SharedNext]_shared PROVE SharedInv'
    OBVIOUS
  <2>1. CASE Engine
    BY <2>1, EngineReads, EngineSets, EngineChooses, EngineRoutes, EngineDeploys DEF Engine
  <2>2. CASE \/ \E c \in Clients \ {Runner} : Client(c) \/ \E a \in Requests : ClientArrives(c, a)
             \/ DeadlinePasses
    BY <2>2, OthersKeepShared
  <2>3. CASE UNCHANGED shared
    <3>1. UNCHANGED <<row, offers, escrow, lock, chain, record, fails, stall, valuation, expired,
                      req, blocks, faults, missed, engine>>
      BY <2>3 DEF shared, store, postgres, redis
    <3>2. TypeOK
      BY DEF SharedInv, StoreInv
    <3>3. /\ row \in [status : ActiveStates \cup TerminalStates, round : Nat,
                      lastOffer : [Roles -> MaybePrice], agreed : MaybePrice]
          /\ fails \in [Roles -> Nat] /\ blocks \in [Roles -> Nat]
          /\ expired \in BOOLEAN /\ escrow \in BOOLEAN /\ chain \in Nat
      BY <3>2 DEF TypeOK
    <3>4. StoreInv' /\ (Accepted' <=> Accepted)
      BY <3>1, <3>3, StoreStays DEF SharedInv
    <3>5. EngineInv' /\ Claims' /\ Counts'
      BY <3>1, <3>4 DEF SharedInv, EngineInv, EngineAt, At, Claims, Counts, Backed
    <3> QED  BY <3>4, <3>5 DEF SharedInv
  <2> QED  BY <2>1, <2>2, <2>3 DEF SharedNext
<1> QED  BY <1>1, SharedStarts, PTL DEF SharedSpec

(* SharedTypeOK: every variable of the composition keeps its type, and the  *)
(* engine never counts past its last iteration.                             *)
THEOREM SharedTypeCorrect == SharedSpec => []SharedTypeOK
<1>1. SharedInv => SharedTypeOK
  BY DEF SharedInv, StoreInv, EngineInv, SharedTypeOK
<1> QED  BY <1>1, SharedInvariant, PTL

(* EscrowMeansDeal: whatever clients submit and however their requests      *)
(* interleave with the engine's, an escrow row has a committed accept       *)
(* behind it, of a price the other party had offered.                       *)
THEOREM EscrowsMeanDeals == SharedSpec => []EscrowMeansDeal
<1>1. SharedInv => EscrowMeansDeal
  BY DEF SharedInv, StoreInv, TableInv, Claims, Accepted, EscrowMeansDeal
<1> QED  BY <1>1, SharedInvariant, PTL

(* OneEscrowEach: any number of accepts and the engine's second trigger     *)
(* deploy one application, and two only when a deployment was missed.       *)
THEOREM EscrowsAreSingle == SharedSpec => []OneEscrowEach
<1>1. SharedInv => OneEscrowEach
  BY DEF SharedInv, Counts, OneEscrowEach
<1> QED  BY <1>1, SharedInvariant, PTL
===============================================================================
