------------------------------- MODULE DanpFsm --------------------------------
(***************************************************************************)
(* DANPStateMachine (core/state_machine.py) over one session, one call of  *)
(* process_action at a time and nothing lost: the session record in Redis, *)
(* the Redis counters, the offers table and final_agreed_value.  The       *)
(* interleaving of concurrent calls, evictions, rollbacks and crashes are  *)
(* the subject of SessionStore.                                            *)
(*                                                                         *)
(* Calls refused without a state change (429, 404, 409 on a terminal       *)
(* session or out of turn) are stuttering steps.                           *)
(***************************************************************************)
EXTENDS DanpRules, Sequences, FiniteSets

CONSTANTS
    MaxFails,   \* bound: invalid round numbers stop once a role has this many failures
    MaxYields   \* bound: yields stop once the offers table has this many rows

ASSUME BoundsAssumption == MaxFails \in Nat /\ MaxYields \in Nat

VARIABLES
    session,    \* the session:{id} record
    fails,      \* the failures:{id}:{role} counters
    stall,      \* the stall:{id} counter
    offers,     \* the offers table, oldest row first
    agreed,     \* Negotiation.final_agreed_value
    expired,    \* whether timeout_at has passed
    blocks      \* history: guardrail blocks of each role since its last success

vars == <<session, fails, stall, offers, agreed, expired, blocks>>

TypeOK ==
    /\ session \in SessionRecord
    /\ fails \in [Roles -> Nat]
    /\ stall \in Nat
    /\ offers \in Seq(OfferRow)
    /\ agreed \in MaybePrice
    /\ expired \in BOOLEAN
    /\ blocks \in [Roles -> Nat]

(* create_session: validation, the negotiation row, the opening offer.      *)
Init ==
    /\ \E opening \in Prices :
          /\ ValidOpening(opening)
          /\ session = Opened(opening)
          /\ offers = <<[role |-> "buyer", kind |-> "counter", price |-> opening]>>
    /\ fails = [r \in Roles |-> 0]
    /\ stall = 0
    /\ agreed = NoOffer
    /\ expired = FALSE
    /\ blocks = [r \in Roles |-> 0]

Active == session.status \in ActiveStates

(* Mutation: STEP 3 is missing.                                             *)
AdmittedAnyState(a) == ~expired /\ a.role = TurnOf(session)

(* STEPS 3 to 5.                                                            *)
Admitted(a) ==
    /\ Active
    /\ ~expired
    /\ a.role = TurnOf(session)

Cleared(a) == Admitted(a) /\ ValidRound(session, a) /\ ~Breaches(session, a)

(* STEP 4: any action that arrives after the deadline ends the session.     *)
TimeOut ==
    /\ Active
    /\ expired
    /\ session' = Ended(session, "TIMEOUT")
    /\ UNCHANGED <<fails, stall, offers, agreed, expired, blocks>>

(* STEP 6: an invalid round number counts as a failure and ends nothing.    *)
WrongRound(a) ==
    /\ Admitted(a)
    /\ ~ValidRound(session, a)
    /\ fails[a.role] < MaxFails
    /\ fails' = [fails EXCEPT ![a.role] = @ + 1]
    /\ UNCHANGED <<session, stall, offers, agreed, expired, blocks>>

(* STEP 7: a blocked action counts as a failure, the third failure in a row *)
(* turns the block into POLICY_BREACH.                                      *)
Blocked(a) ==
    /\ Admitted(a)
    /\ ValidRound(session, a)
    /\ Breaches(session, a)
    /\ fails' = [fails EXCEPT ![a.role] = @ + 1]
    /\ blocks' = [blocks EXCEPT ![a.role] = @ + 1]
    /\ session' = IF StrikesOut(fails'[a.role]) THEN Ended(session, "POLICY_BREACH")
                                                   ELSE session
    /\ UNCHANGED <<stall, offers, agreed, expired>>

(* STEPS 9 and 12 of every cleared action: the offer row, the new record,   *)
(* the reset of the failure count.                                          *)
Record(a, stallCount) ==
    /\ offers' = Append(offers, RowOf(a))
    /\ session' = Moved(session, a, stallCount)
    /\ fails' = [fails EXCEPT ![a.role] = 0]
    /\ blocks' = [blocks EXCEPT ![a.role] = 0]
    /\ UNCHANGED expired

Accept(a) ==
    /\ a.kind = "accept"
    /\ Cleared(a)
    /\ agreed' = ClosingPrice(session, a)
    /\ Record(a, stall)
    /\ UNCHANGED stall

Reject(a) ==
    /\ a.kind = "reject"
    /\ Cleared(a)
    /\ Record(a, stall)
    /\ UNCHANGED <<stall, agreed>>

Counter(a) ==
    /\ a.kind = "counter"
    /\ Cleared(a)
    /\ stall' = StallCount(session, a, stall)
    /\ Record(a, stall')
    /\ UNCHANGED agreed

(* timeout_yield matches no branch of STEP 11: the turn passes, the status  *)
(* and the round stay.                                                      *)
Yield(a) ==
    /\ a.kind = "timeout_yield"
    /\ Cleared(a)
    /\ Len(offers) < MaxYields
    /\ Record(a, stall)
    /\ UNCHANGED <<stall, agreed>>

Submit(a) ==
    \/ WrongRound(a)
    \/ Blocked(a)
    \/ Accept(a)
    \/ Reject(a)
    \/ Counter(a)
    \/ Yield(a)

(* The clock passes timeout_at.                                             *)
PassDeadline ==
    /\ ~expired
    /\ expired' = TRUE
    /\ UNCHANGED <<session, fails, stall, offers, agreed, blocks>>

Next ==
    \/ \E a \in Envelope : Submit(a)
    \/ TimeOut
    \/ PassDeadline

Spec == Init /\ [][Next]_vars

(***************************************************************************)
(* The offers table read back, as GET /sessions/{id}/status and the        *)
(* auditors read it.                                                       *)
(***************************************************************************)
CounterRows == {i \in DOMAIN offers : offers[i].kind = "counter"}

PricedRows(r, n) ==
    {i \in 1 .. n : offers[i].role = r /\ offers[i].price # NoOffer}

IsLatest(i, r, n) == i \in PricedRows(r, n) /\ \A j \in PricedRows(r, n) : j <= i

LatestPrice(r, n) ==
    IF PricedRows(r, n) = {} THEN NoOffer ELSE offers[CHOOSE i \in 1 .. n : IsLatest(i, r, n)].price

StatusTurn == Other(offers[Len(offers)].role)

(* The rows the stall rule looks at, and those of them at the end of the    *)
(* table that all moved too little.                                         *)
JudgedRows ==
    {i \in CounterRows : /\ offers[i].price # NoOffer
                         /\ LatestPrice(offers[i].role, i - 1) # NoOffer}

StalledRow(i) == SmallMove(offers[i].price, LatestPrice(offers[i].role, i - 1))

StalledTail == {i \in JudgedRows : \A j \in JudgedRows : j >= i => StalledRow(j)}

-------------------------------------------------------------------------------
(* An agreement closes at the price the other party last put on the table,  *)
(* and that price is neither below the seller's floor nor above the buyer's *)
(* ceiling, whichever of the two accepted: the counter was checked against  *)
(* its maker's limit, the accept against the acceptor's (guardrail rules 1, *)
(* 2, 4 and 5).  Without a price on the table the deal has none.            *)
AgreedPriceIsFair ==
    session.status = "AGREED" =>
        LET acceptor == offers[Len(offers)].role
        IN  /\ agreed = LatestPrice(Other(acceptor), Len(offers))
            /\ agreed # NoOffer => Floor <= agreed /\ agreed <= Ceiling

(* The record in Redis says nothing the offers table does not: the status,  *)
(* the round and both last offers can be recomputed from the rows.          *)
RecordMatchesOffers ==
    /\ \A r \in Roles : session.lastOffer[r] = LatestPrice(r, Len(offers))
    /\ Active =>
         LET n == Cardinality(CounterRows)
         IN  /\ session.status = CASE n = 1 -> "BUYER_ANCHOR"
                                   [] n = 2 -> "SELLER_RESPONSE"
                                   [] OTHER -> "ROUND_LOOP"
             /\ session.round = IF n <= 2 THEN 1 ELSE n - 1

(* No session stays open past its round budget.  The first exchange counts  *)
(* two offers into round 1 and the limit is only tested in ROUND_LOOP, so   *)
(* the budget is never below two rounds.                                    *)
LastRound == IF MaxRounds < 2 THEN 2 ELSE MaxRounds

RoundBudget ==
    /\ Active => session.round <= LastRound
    /\ session.status = "ROUND_LIMIT" => Cardinality(CounterRows) = LastRound + 2

(* Nobody moves twice in a row, except that a yield before ROUND_LOOP keeps *)
(* the turn with the party that yielded (the turn follows the status there, *)
(* _get_expected_turn).                                                     *)
Alternation ==
    \A i \in 1 .. Len(offers) - 1 :
        offers[i].role = offers[i + 1].role => offers[i].kind = "timeout_yield"

(* STALLED means what it says: the last three counters that had a previous  *)
(* offer to be compared with all moved less than 0.2%, and a session whose  *)
(* last three did is no longer open.                                        *)
StalledIsThreeSmallMoves ==
    session.status \in ActiveStates \cup {"STALLED"} =>
        (session.status = "STALLED" <=> Cardinality(StalledTail) >= StallLimit)

(* Three guardrail blocks of one role without a success in between always   *)
(* end the session, however they mix with its wrong round numbers.          *)
ThreeBlocksEnd == Active => \A r \in Roles : blocks[r] < StrikeLimit

YieldedEarly ==
    session.status # "ROUND_LOOP" /\ \E i \in DOMAIN offers : offers[i].kind = "timeout_yield"

(* The turn that expected_turn and GET /sessions/{id}/status advertise is   *)
(* the one process_action will accept, except before ROUND_LOOP once        *)
(* somebody has yielded: three different computations of one turn.          *)
TurnsAgree ==
    Active /\ ~YieldedEarly => /\ session.expectedTurn = TurnOf(session)
                              /\ StatusTurn = TurnOf(session)

(* The session keeps the promise of NegotiationOutcome: decided once, for   *)
(* good, with a price only when agreed.                                     *)
Outcome == INSTANCE NegotiationOutcome WITH
    outcome <- IF Active THEN "OPEN" ELSE session.status,
    price   <- agreed

OutcomeSpec == Outcome!Spec
===============================================================================
