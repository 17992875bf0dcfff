------------------------ MODULE NegotiationEngineProofs ------------------------
(***************************************************************************)
(* Proofs about NegotiationEngine for every price set, limit, round budget *)
(* and iteration limit, and whatever the clients of the API submit.        *)
(***************************************************************************)
EXTENDS NegotiationEngine, TLAPS

-------------------------------------------------------------------------------
(* What DanpRules says of records, actions and limits.                      *)

(* Both names are roles, and Other is the opposite one.                     *)
LEMMA RoleFacts == /\ "buyer" \in Roles
                   /\ "seller" \in Roles
                   /\ \A r \in Roles : Other(r) \in Roles /\ Other(r) # r
BY DEF Roles, Other

(* The record a cleared action leaves is a session record again.            *)
LEMMA MovedTyped ==
    ASSUME NEW s \in SessionRecord, NEW a \in Envelope, NEW n \in Nat
    PROVE  Moved(s, a, n) \in SessionRecord
<1>1. s.round \in Nat /\ s.status \in ActiveStates \cup TerminalStates
      /\ s.lastOffer \in [Roles -> MaybePrice]
  BY DEF SessionRecord
<1>2. a.role \in Roles /\ a.price \in MaybePrice
      /\ a.kind \in {"counter", "accept", "reject", "timeout_yield"}
  BY DEF Envelope, MaybePrice
<1>3. CounterStatus(s, a, n) \in ActiveStates \cup TerminalStates
  BY DEF CounterStatus, ActiveStates, TerminalStates
<1>4. CounterRound(s, a, n) \in Nat
  BY <1>1 DEF CounterRound
<1>5. [s.lastOffer EXCEPT ![a.role] = a.price] \in [Roles -> MaybePrice]
  BY <1>1, <1>2
<1>6. Other(a.role) \in Roles
  BY <1>2, RoleFacts
<1>7. (CASE a.kind = "accept"        -> "AGREED"
         [] a.kind = "reject"        -> "WALKAWAY"
         [] a.kind = "counter"       -> CounterStatus(s, a, n)
         [] a.kind = "timeout_yield" -> s.status) \in ActiveStates \cup TerminalStates
  BY <1>1, <1>2, <1>3 DEF ActiveStates, TerminalStates
<1> QED
  BY <1>1, <1>2, <1>4, <1>5, <1>6, <1>7 DEF Moved, SessionRecord

(* Ending a session leaves a session record.                                *)
LEMMA EndedTyped ==
    ASSUME NEW s \in SessionRecord, NEW t \in TerminalStates
    PROVE  /\ Ended(s, t) \in SessionRecord
           /\ Ended(s, t).status = t
           /\ Ended(s, t).lastOffer = s.lastOffer
BY DEF Ended, SessionRecord

(* The stall counter stays a number.                                        *)
LEMMA StallTyped ==
    ASSUME NEW s, NEW a, NEW n \in Nat
    PROVE  StallCount(s, a, n) \in Nat
BY DEF StallCount

(* The fields of an envelope and of the offers row it becomes (STEP 9).     *)
LEMMA EnvelopeFacts ==
    ASSUME NEW a \in Envelope
    PROVE  /\ a.role \in Roles
           /\ a.price \in MaybePrice
           /\ a.kind \in {"counter", "accept", "reject", "timeout_yield"}
           /\ a.kind # "counter" => a.price = NoOffer
           /\ RowOf(a) \in OfferRow
           /\ RowOf(a).role = a.role /\ RowOf(a).kind = a.kind /\ RowOf(a).price = a.price
BY DEF Envelope, MaybePrice, RowOf, OfferRow

(* Status and round after a counter, one case per state it is made in (STEP *)
(* 11).                                                                     *)
LEMMA CounterCases ==
    ASSUME NEW s, NEW a, NEW n
    PROVE  /\ OverLimit(s) => CounterStatus(s, a, n) = "ROUND_LIMIT"
           /\ Stalls(s, a, n) => CounterStatus(s, a, n) \in {"STALLED", "ROUND_LIMIT"}
           /\ ~OverLimit(s) /\ Stalls(s, a, n) => CounterStatus(s, a, n) = "STALLED"
           /\ ~OverLimit(s) /\ ~Stalls(s, a, n) /\ s.status = "BUYER_ANCHOR"
                => CounterStatus(s, a, n) = "SELLER_RESPONSE"
           /\ ~OverLimit(s) /\ ~Stalls(s, a, n) /\ s.status # "BUYER_ANCHOR"
                => CounterStatus(s, a, n) = "ROUND_LOOP"
<1>1. OverLimit(s) => CounterStatus(s, a, n) = "ROUND_LIMIT"
  BY DEF CounterStatus, Stalls, StallChecked
<1>2. ~OverLimit(s) /\ Stalls(s, a, n) => CounterStatus(s, a, n) = "STALLED"
  BY DEF CounterStatus
<1>3. ~OverLimit(s) /\ ~Stalls(s, a, n) /\ s.status = "BUYER_ANCHOR"
        => CounterStatus(s, a, n) = "SELLER_RESPONSE"
  BY DEF CounterStatus
<1>4. ~OverLimit(s) /\ ~Stalls(s, a, n) /\ s.status # "BUYER_ANCHOR"
        => CounterStatus(s, a, n) = "ROUND_LOOP"
  BY DEF CounterStatus
<1> QED
  BY <1>1, <1>2, <1>3, <1>4

(* What the record says after each kind of action.                          *)
LEMMA MovedFields ==
    ASSUME NEW s, NEW a, NEW n
    PROVE  /\ a.kind = "accept" => Moved(s, a, n).status = "AGREED"
           /\ a.kind = "reject" => Moved(s, a, n).status = "WALKAWAY"
           /\ a.kind = "counter" => Moved(s, a, n).status = CounterStatus(s, a, n)
           /\ a.kind = "timeout_yield" => Moved(s, a, n).status = s.status
           /\ a.kind = "counter" => Moved(s, a, n).round = CounterRound(s, a, n)
           /\ a.kind # "counter" => Moved(s, a, n).round = s.round
           /\ Moved(s, a, n).lastActor = a.role
<1>1. a.kind = "accept" => Moved(s, a, n).status = "AGREED"
  BY DEF Moved
<1>2. a.kind = "reject" => Moved(s, a, n).status = "WALKAWAY"
  BY DEF Moved
<1>3. a.kind = "counter" => Moved(s, a, n).status = CounterStatus(s, a, n)
  BY DEF Moved
<1>4. a.kind = "timeout_yield" => Moved(s, a, n).status = s.status
  BY DEF Moved
<1>5. /\ a.kind = "counter" => Moved(s, a, n).round = CounterRound(s, a, n)
      /\ a.kind # "counter" => Moved(s, a, n).round = s.round
      /\ Moved(s, a, n).lastActor = a.role
  BY DEF Moved
<1> QED
  BY <1>1, <1>2, <1>3, <1>4, <1>5

(* Only a priced row changes the last offers, and only its maker's.         *)
LEMMA MovedOffers ==
    ASSUME NEW s, NEW a, NEW n
    PROVE  Moved(s, a, n).lastOffer =
             IF a.price = NoOffer THEN s.lastOffer
             ELSE [s.lastOffer EXCEPT ![a.role] = a.price]
BY DEF Moved

(* A pair of last offers in which nobody broke their own limit.             *)
InLimits(lastOffer) ==
    /\ lastOffer["seller"] # NoOffer => Floor <= lastOffer["seller"]
    /\ lastOffer["buyer"] # NoOffer => lastOffer["buyer"] <= Ceiling

(* An action that passed the guardrails puts no illegal offer on the table. *)
LEMMA PassedOffer ==
    ASSUME NEW s \in SessionRecord, NEW a \in Envelope, ~Breaches(s, a),
           NEW lo \in [Roles -> MaybePrice], InLimits(lo)
    PROVE  InLimits(IF a.price = NoOffer THEN lo ELSE [lo EXCEPT ![a.role] = a.price])
<1>1. CASE a.price = NoOffer
  BY <1>1
<1>2. CASE a.price # NoOffer
  <2>1. a.kind = "counter" /\ a.role \in Roles
    BY <1>2, EnvelopeFacts
  <2>2. a.role = "seller" => ~(a.price < Floor)
    BY <1>2, <2>1 DEF Breaches, JudgedPrice
  <2>3. a.role = "buyer" => ~(a.price > Ceiling)
    BY <1>2, <2>1 DEF Breaches, JudgedPrice
  <2>4. a.price \in Int /\ Floor \in Int /\ Ceiling \in Int
    BY <1>2, EnvelopeFacts, RulesAssumption DEF MaybePrice
  <2>5. a.role = "seller" \/ a.role = "buyer"
    BY <2>1 DEF Roles
  <2> QED  BY <1>2, <2>1, <2>2, <2>3, <2>4, <2>5, RoleFacts DEF InLimits
<1> QED  BY <1>1, <1>2

(* An accept that passed the guardrails closes inside both limits.          *)
LEMMA PassedAccept ==
    ASSUME NEW s \in SessionRecord, NEW a \in Envelope, a.kind = "accept", ~Breaches(s, a),
           InLimits(s.lastOffer), ClosingPrice(s, a) # NoOffer
    PROVE  Floor <= ClosingPrice(s, a) /\ ClosingPrice(s, a) <= Ceiling
<1> DEFINE p == s.lastOffer[Other(a.role)]
<1>1. a.role \in Roles /\ a.price = NoOffer
  BY EnvelopeFacts
<1>2. ClosingPrice(s, a) = p /\ p # NoOffer
  BY <1>1 DEF ClosingPrice
<1>3. p \in Int /\ Floor \in Int /\ Ceiling \in Int
  BY <1>1, <1>2, RoleFacts, RulesAssumption DEF SessionRecord, MaybePrice
<1>4. CASE a.role = "buyer"
  <2>1. ~(p > Ceiling)
    BY <1>2, <1>4 DEF Breaches, JudgedPrice
  <2>2. Floor <= p
    BY <1>2, <1>4 DEF InLimits, Other
  <2> QED  BY <1>2, <1>3, <2>1, <2>2
<1>5. CASE a.role = "seller"
  <2>1. ~(p < Floor)
    BY <1>2, <1>5 DEF Breaches, JudgedPrice
  <2>2. p <= Ceiling
    BY <1>2, <1>5 DEF InLimits, Other
  <2> QED  BY <1>2, <1>3, <2>1, <2>2
<1> QED  BY <1>1, <1>4, <1>5 DEF Roles

-------------------------------------------------------------------------------
(* Types.                                                                   *)

SessionTyped ==
    /\ record \in SessionRecord
    /\ fails \in [Roles -> Nat] /\ stall \in Nat
    /\ status \in Statuses /\ agreed \in MaybePrice /\ escrow \in BOOLEAN

(* A turn is only taken below the limit, and only a chosen action is routed.*)
EngineInv ==
    /\ TypeOK
    /\ At("turn") \/ At("route") => engine.turns < MaxTurns
    /\ At("route") => engine.act \in Choices(engine.seen)

(* A call of process_action, by outcome.                                    *)
Processed(a) == Refuse(a) \/ Overdue \/ Misnumbered(a) \/ Block(a) \/ Perform(a)

(* A choice is an envelope of the party whose turn the engine saw.          *)
LEMMA ChoiceFacts ==
    ASSUME NEW s, NEW a \in Choices(s)
    PROVE  a \in Envelope /\ a.role \in Roles /\ a.round = s.round /\ a.role = s.expectedTurn
BY EnvelopeFacts DEF Choices

(* A deal closes at a price or at none.                                     *)
LEMMA ClosingTyped ==
    ASSUME NEW s \in SessionRecord, NEW a \in Envelope
    PROVE  ClosingPrice(s, a) \in MaybePrice
<1>1. s.lastOffer \in [Roles -> MaybePrice] /\ a.role \in Roles /\ Other(a.role) \in Roles
  BY EnvelopeFacts, RoleFacts DEF SessionRecord
<1> QED  BY <1>1, EnvelopeFacts DEF ClosingPrice

(* process_action leaves a typed session.                                   *)
LEMMA ProcessTyped ==
    ASSUME SessionTyped, NEW a \in Envelope, Processed(a)
    PROVE  SessionTyped'
<1>1. a.role \in Roles /\ fails[a.role] + 1 \in Nat
  BY EnvelopeFacts DEF SessionTyped
<1>2. CASE Refuse(a)
  BY <1>2 DEF Refuse, session, SessionTyped
<1>3. CASE Overdue
  <2>1. record' \in SessionRecord
    BY <1>3, EndedTyped DEF Overdue, SessionTyped, TerminalStates
  <2> QED  BY <1>3, <2>1 DEF Overdue, SessionTyped
<1>4. CASE Misnumbered(a)
  BY <1>1, <1>4 DEF Misnumbered, SessionTyped
<1>5. CASE Block(a)
  <2>1. record' \in SessionRecord
    BY <1>5, EndedTyped DEF Block, SessionTyped, TerminalStates
  <2> QED  BY <1>1, <1>5, <2>1 DEF Block, SessionTyped
<1>6. CASE Perform(a)
  <2>1. stall' \in Nat
    BY <1>6, StallTyped DEF Perform, SessionTyped
  <2>2. record' = Moved(record, a, stall') /\ record' \in SessionRecord
    BY <1>6, <2>1, MovedTyped DEF Perform, SessionTyped
  <2>3. status' \in Statuses
    BY <1>6, <2>2 DEF Perform, SessionRecord, Statuses
  <2>4. agreed' \in MaybePrice
    BY <1>6, ClosingTyped DEF Perform, SessionTyped
  <2>5. escrow' \in BOOLEAN /\ fails' \in [Roles -> Nat]
    BY <1>6 DEF Perform, SessionTyped
  <2> QED  BY <2>1, <2>2, <2>3, <2>4, <2>5 DEF SessionTyped
<1> QED  BY <1>2, <1>3, <1>4, <1>5, <1>6 DEF Processed

EngineStates ==
    [at : {"top", "turn", "route", "settle", "done", "crashed"},
     turns : 0 .. MaxTurns, known : Statuses \cup {Stale},
     seen : SessionRecord, act : Envelope \cup {Nobody}]

(* A step of the engine away from a turn.                                   *)
LEMMA EngineMoves ==
    ASSUME EngineInv, SessionTyped', expired' \in BOOLEAN,
           NEW place \in {"top", "settle", "done", "crashed"},
           NEW k \in Statuses \cup {Stale}, NEW n \in {engine.turns, engine.turns + 1},
           n = engine.turns \/ At("turn") \/ At("route"),
           engine' = [engine EXCEPT !.at = place, !.known = k, !.turns = n]
    PROVE  EngineInv'
<1>1. engine \in EngineStates
  BY DEF EngineInv, TypeOK, EngineStates
<1>2. MaxTurns \in Nat /\ engine.turns \in 0 .. MaxTurns
      /\ (At("turn") \/ At("route") => engine.turns < MaxTurns)
  BY <1>1, EngineAssumption DEF EngineInv, EngineStates
<1>3. n \in 0 .. MaxTurns
  BY <1>2
<1>4. engine' \in EngineStates /\ engine'.at = place
  BY <1>1, <1>3 DEF EngineStates
<1> QED  BY <1>4 DEF EngineInv, TypeOK, SessionTyped, EngineStates, At

(* Every step of the engine or of the clock keeps EngineInv.                *)
LEMMA EngineStep == ASSUME EngineInv, [Next]_vars PROVE EngineInv'
<1>0. /\ SessionTyped /\ engine \in EngineStates /\ expired \in BOOLEAN
      /\ status \in Statuses /\ engine.known \in Statuses \cup {Stale}
      /\ At("route") => engine.act \in Envelope /\ engine.act.role \in Roles
  BY ChoiceFacts DEF EngineInv, TypeOK, SessionTyped, EngineStates
<1>1. ASSUME UNCHANGED engine, SessionTyped', expired' \in BOOLEAN PROVE EngineInv'
  BY <1>1 DEF EngineInv, TypeOK, SessionTyped, At
<1>2. ASSUME engine' = FailedTurn, At("turn") \/ At("route"), SessionTyped', UNCHANGED expired
      PROVE  EngineInv'
  BY <1>0, <1>2, EngineMoves DEF FailedTurn
<1>3. ASSUME BreachEnds(engine), At("turn") \/ At("route"), SessionTyped', UNCHANGED expired
      PROVE  EngineInv'
  <2>1. status' \in Statuses
    BY <1>3 DEF SessionTyped
  <2>2. engine' = [engine EXCEPT !.at = "settle", !.known = status', !.turns = engine.turns]
    BY <1>0, <1>3 DEF BreachEnds, EngineStates
  <2> QED  BY <1>0, <1>3, <2>1, <2>2, EngineMoves
<1>4. CASE Observe
  <2>1. SessionTyped' /\ expired' \in BOOLEAN
    BY <1>0, <1>4 DEF Observe, session, SessionTyped
  <2>2. CASE engine' = [engine EXCEPT !.at = "settle"]
    <3>1. engine' = [engine EXCEPT !.at = "settle", !.known = engine.known, !.turns = engine.turns]
      BY <1>0, <2>2 DEF EngineStates
    <3> QED  BY <1>0, <2>1, <3>1, EngineMoves
  <2>3. CASE engine.turns # MaxTurns /\ engine' = [engine EXCEPT !.at = "turn", !.seen = record]
    <3>1. engine' \in EngineStates /\ engine'.at = "turn" /\ engine'.turns = engine.turns
      BY <1>0, <2>3 DEF EngineStates, SessionTyped
    <3>2. engine.turns \in 0 .. MaxTurns /\ MaxTurns \in Nat
      BY <1>0, EngineAssumption DEF EngineStates
    <3>3. engine'.turns < MaxTurns
      BY <2>3, <3>1, <3>2
    <3> QED  BY <2>1, <3>1, <3>3 DEF EngineInv, TypeOK, SessionTyped, EngineStates, At
  <2> QED  BY <1>4, <2>2, <2>3 DEF Observe
<1>5. CASE TurnFails
  <2>1. SessionTyped'
    BY <1>0, <1>5 DEF TurnFails, session, SessionTyped
  <2> QED  BY <1>2, <1>5, <2>1 DEF TurnFails
<1>6. CASE LookupFails
  <2>1. status' \in Statuses
    BY <1>0, <1>6 DEF LookupFails, SessionTyped, Statuses, TerminalStates
  <2>2. SessionTyped' /\ UNCHANGED expired
    BY <1>0, <1>6, <2>1 DEF LookupFails, SessionTyped
  <2>3. Row \in Statuses
    BY <1>0 DEF Row
  <2>4. \/ engine' = [engine EXCEPT !.at = "settle", !.known = Row, !.turns = engine.turns]
        \/ engine' = [engine EXCEPT !.at = "crashed", !.known = "WALKAWAY", !.turns = engine.turns]
    BY <1>0, <1>6 DEF LookupFails, EngineStates
  <2>5. "WALKAWAY" \in Statuses
    BY DEF Statuses, TerminalStates
  <2> QED  BY <1>0, <2>2, <2>3, <2>4, <2>5, EngineMoves
<1>7. ASSUME NEW a \in Choices(engine.seen), Choose(a) PROVE EngineInv'
  <2>1. /\ SessionTyped' /\ expired' \in BOOLEAN
        /\ engine' \in EngineStates /\ engine'.at = "route"
        /\ engine'.act = a /\ engine'.seen = engine.seen /\ engine'.turns = engine.turns
    BY <1>0, <1>7, ChoiceFacts DEF Choose, session, SessionTyped, EngineStates
  <2>2. engine.turns < MaxTurns
    BY <1>7 DEF Choose, EngineInv
  <2> QED  BY <2>1, <2>2 DEF EngineInv, TypeOK, SessionTyped, EngineStates, At
<1>8. ASSUME NEW a \in Choices(engine.seen), ChooseBlocked(a) PROVE EngineInv'
  <2>1. a.role \in Roles
    BY ChoiceFacts
  <2>2. status' \in Statuses
    BY <1>0, <1>8 DEF ChooseBlocked, BreachEnds, SessionTyped, Statuses, TerminalStates
  <2>3. SessionTyped' /\ At("turn") /\ UNCHANGED expired
    BY <1>0, <1>8, <2>1, <2>2 DEF ChooseBlocked, SessionTyped
  <2> QED  BY <1>2, <1>3, <1>8, <2>3 DEF ChooseBlocked
<1>9. CASE RateLimited
  <2>1. SessionTyped' /\ UNCHANGED expired /\ At("route")
    BY <1>0, <1>9 DEF RateLimited, session, SessionTyped
  <2>2. engine' = [engine EXCEPT !.at = "top", !.known = engine.known, !.turns = engine.turns + 1]
    BY <1>0, <1>9 DEF RateLimited, EngineStates
  <2> QED  BY <1>0, <2>1, <2>2, EngineMoves
<1>10. CASE RouteRefused
  <2>1. Processed(engine.act) /\ engine.act \in Envelope
    BY <1>0, <1>10 DEF RouteRefused, Processed
  <2>2. SessionTyped'
    BY <1>0, <2>1, ProcessTyped
  <2> QED  BY <1>2, <1>10, <2>2 DEF RouteRefused
<1>11. CASE RouteBreached
  <2>1. record' \in SessionRecord
    BY <1>0, <1>11, EndedTyped DEF RouteBreached, SessionTyped, TerminalStates
  <2>2. status' \in Statuses
    BY <1>0, <1>11 DEF RouteBreached, BreachEnds, SessionTyped, Statuses, TerminalStates
  <2>3. SessionTyped' /\ At("route") /\ UNCHANGED expired
    BY <1>0, <1>11, <2>1, <2>2 DEF RouteBreached, SessionTyped
  <2> QED  BY <1>3, <1>11, <2>3 DEF RouteBreached
<1>12. CASE RoutePerformed
  <2>1. SessionTyped'
    BY <1>0, <1>12, ProcessTyped DEF RoutePerformed, Processed
  <2>2. engine' = [engine EXCEPT !.at = "top", !.known = status', !.turns = engine.turns + 1]
    BY <1>0, <1>12 DEF RoutePerformed, EngineStates
  <2>3. status' \in Statuses
    BY <2>1 DEF SessionTyped
  <2> QED  BY <1>0, <1>12, <2>1, <2>2, <2>3, EngineMoves DEF RoutePerformed
<1>13. CASE Settle
  <2>1. SessionTyped' /\ UNCHANGED expired
    BY <1>0, <1>13 DEF Settle, SessionTyped
  <2>2. engine' = [engine EXCEPT !.at = "done", !.known = engine.known, !.turns = engine.turns]
    BY <1>0, <1>13 DEF Settle, EngineStates
  <2> QED  BY <1>0, <2>1, <2>2, EngineMoves
<1>14. CASE PassDeadline \/ UNCHANGED vars
  BY <1>0, <1>1, <1>14 DEF PassDeadline, vars, session, SessionTyped
<1> QED
  BY <1>4, <1>5, <1>6, <1>7, <1>8, <1>9, <1>10, <1>11, <1>12, <1>13, <1>14
     DEF Next, Engine, Turn

(* A session as create_session leaves it, with the engine at its loop's top.*)
LEMMA InitEngine == ASSUME Init PROVE EngineInv
<1>1. PICK opening \in Prices : record = Opened(opening)
  BY DEF Init
<1>2. record \in SessionRecord
  BY <1>1 DEF Opened, SessionRecord, MaybePrice, Roles, ActiveStates
<1>3. engine \in EngineStates /\ engine.at = "top"
  BY <1>2, EngineAssumption DEF Init, EngineStates, Statuses, ActiveStates
<1> QED
  BY <1>2, <1>3 DEF Init, EngineInv, TypeOK, EngineStates, At, Statuses, ActiveStates, MaybePrice

(* Every reachable state of the engine and its session has the declared     *)
(* types: the iteration limit of run_negotiation is never exceeded.         *)
THEOREM EngineInvariance == Spec => []EngineInv
BY InitEngine, EngineStep, PTL DEF Spec

(* The declared types alone.                                                *)
THEOREM TypeCorrect == Spec => []TypeOK
<1>1. EngineInv => TypeOK
  BY DEF EngineInv
<1> QED  BY <1>1, EngineInvariance, PTL

-------------------------------------------------------------------------------
(* The engine keeps the promise of NegotiationOutcome.                      *)

(* A session is open in Redis only while it is open in PostgreSQL, or the   *)
(* loop is over; a price goes with an agreement, and the offers on the      *)
(* table are within their makers' limits.                                   *)
Decision == IF status \in TerminalStates THEN status
            ELSE IF record.status \in TerminalStates THEN record.status ELSE "OPEN"

OpenInBoth == record.status \in ActiveStates /\ status \in ActiveStates

OutcomeInv ==
    /\ At("turn") \/ At("route") => OpenInBoth
    /\ At("top") /\ record.status \in ActiveStates => status \in ActiveStates
    /\ agreed # NoOffer => status = "AGREED"
    /\ InLimits(record.lastOffer)

(* Only an accept agrees, and it closes at the offer of the other party.    *)
LEMMA OnlyAcceptAgrees ==
    ASSUME NEW s \in SessionRecord, s.status \in ActiveStates, NEW a \in Envelope, NEW n,
           Moved(s, a, n).status = "AGREED"
    PROVE  /\ a.kind = "accept" /\ Other(a.role) \in Roles
           /\ ClosingPrice(s, a) = Moved(s, a, n).lastOffer[Other(a.role)]
<1>1. a.kind = "accept"
  <2>1. CounterStatus(s, a, n) # "AGREED"
    BY DEF CounterStatus
  <2> QED  BY <2>1, MovedFields, EnvelopeFacts DEF ActiveStates
<1>2. a.price = NoOffer /\ a.role \in Roles
  BY <1>1, EnvelopeFacts
<1>3. Moved(s, a, n).lastOffer = s.lastOffer
  BY <1>2, MovedOffers
<1> QED  BY <1>1, <1>2, <1>3, RoleFacts DEF ClosingPrice

(* Decisions are not open sessions.                                         *)
LEMMA DecisionFacts ==
    /\ Outcome!Decisions = TerminalStates
    /\ \A x \in ActiveStates : x \notin TerminalStates
    /\ \A x \in TerminalStates : x \notin ActiveStates
    /\ "OPEN" \notin TerminalStates
BY DEF Outcome!Decisions, TerminalStates, ActiveStates

(* The promise, spelled in this module's terms.                             *)
LEMMA Promised ==
    ASSUME Decision = "OPEN", Decision' \in TerminalStates,
           Decision' # "AGREED" => agreed' = NoOffer,
           Decision' = "AGREED" => agreed' \in MaybePrice /\ Outcome!Fair(agreed')
    PROVE  Outcome!Next
<1>1. Outcome!Decide(Decision')
  BY DEF Outcome!Decide, Decision, MaybePrice
<1> QED  BY <1>1, DecisionFacts DEF Outcome!Next

(* A cleared action decides the session within both limits, or leaves it    *)
(* open in both stores.                                                     *)
LEMMA PerformedOutcome ==
    ASSUME EngineInv, EngineInv', OutcomeInv, OpenInBoth, NEW a \in Envelope, Perform(a)
    PROVE  /\ record'.status \in ActiveStates => status' \in ActiveStates
           /\ agreed' # NoOffer => status' = "AGREED"
           /\ InLimits(record'.lastOffer)
           /\ Outcome!Next \/ UNCHANGED Outcome!vars
<1>1. /\ record \in SessionRecord /\ record' \in SessionRecord /\ agreed' \in MaybePrice
      /\ agreed = NoOffer /\ record.status \in ActiveStates /\ Decision = "OPEN"
      /\ "AGREED" \notin ActiveStates /\ InLimits(record.lastOffer)
  BY DecisionFacts DEF EngineInv, TypeOK, OutcomeInv, OpenInBoth, Decision, ActiveStates
<1>2. record' = Moved(record, a, stall') /\ status' = record'.status /\ ~Breaches(record, a)
  BY DEF Perform
<1>3. InLimits(record'.lastOffer)
  <2>1. record.lastOffer \in [Roles -> MaybePrice]
    BY <1>1 DEF SessionRecord
  <2> DEFINE table == IF a.price = NoOffer THEN record.lastOffer
                      ELSE [record.lastOffer EXCEPT ![a.role] = a.price]
  <2>2. InLimits(table)
    BY <1>1, <1>2, <2>1, PassedOffer
  <2>3. record'.lastOffer = table
    BY <1>2, MovedOffers
  <2> QED  BY ONLY <2>2, <2>3
<1>4. CASE a.kind = "accept"
  <2>1. /\ record'.status = "AGREED" /\ agreed' = ClosingPrice(record, a)
        /\ Decision' = "AGREED"
    BY <1>2, <1>4, MovedFields DEF Perform, Decision, TerminalStates
  <2>2. Outcome!Fair(agreed')
    BY <1>1, <1>2, <1>4, <2>1, PassedAccept DEF Outcome!Fair, MaybePrice
  <2>3. Outcome!Next
    BY <1>1, <2>1, <2>2, Promised DEF TerminalStates
  <2> QED  BY <1>1, <1>2, <1>3, <2>1, <2>3
<1>5. CASE a.kind # "accept"
  <2>1. agreed' = NoOffer /\ record'.status # "AGREED"
    BY <1>1, <1>2, <1>5, OnlyAcceptAgrees DEF Perform
  <2>2. CASE record'.status \in TerminalStates
    <3>1. Decision' = record'.status
      BY <1>2, <2>2 DEF Decision
    <3>2. Outcome!Next
      BY <1>1, <2>1, <2>2, <3>1, Promised
    <3> QED  BY <1>2, <1>3, <2>1, <3>2
  <2>3. CASE record'.status \notin TerminalStates
    <3>1. Decision' = "OPEN"
      BY <1>2, <2>3 DEF Decision
    <3>2. UNCHANGED Outcome!vars
      BY <1>1, <2>1, <3>1 DEF Outcome!vars, Decision
    <3>3. record'.status \in ActiveStates
      BY <1>1, <2>3 DEF SessionRecord
    <3> QED  BY <1>2, <1>3, <2>1, <3>2, <3>3
  <2> QED  BY <2>2, <2>3
<1> QED  BY <1>4, <1>5

(* Every step keeps OutcomeInv and decides an open session or nothing.      *)
LEMMA OutcomeStep ==
    ASSUME EngineInv, EngineInv', OutcomeInv, [Next]_vars
    PROVE  OutcomeInv' /\ (Outcome!Next \/ UNCHANGED Outcome!vars)
<1>0. /\ record \in SessionRecord /\ engine \in EngineStates
      /\ status \in ActiveStates \cup TerminalStates
      /\ At("route") => engine.act \in Envelope
      /\ InLimits(record.lastOffer) /\ (agreed # NoOffer => status = "AGREED")
  BY ChoiceFacts DEF EngineInv, TypeOK, EngineStates, OutcomeInv, Statuses
<1>1. ASSUME UNCHANGED <<record, status, agreed>>,
             At("turn")' \/ At("route")' => OpenInBoth,
             At("top")' /\ record.status \in ActiveStates => status \in ActiveStates
      PROVE  OutcomeInv' /\ (Outcome!Next \/ UNCHANGED Outcome!vars)
  <2>1. UNCHANGED Outcome!vars
    BY <1>1 DEF Outcome!vars
  <2>2. OutcomeInv'
    BY <1>0, <1>1 DEF OutcomeInv, OpenInBoth
  <2> QED  BY <2>1, <2>2
<1>2. ASSUME OpenInBoth, NEW d \in TerminalStates \ {"AGREED"}, Decision' = d,
             agreed' = agreed, record'.lastOffer = record.lastOffer,
             \/ engine'.at \in {"settle", "crashed"}
             \/ engine'.at = "top" /\ record'.status = d
      PROVE  OutcomeInv' /\ (Outcome!Next \/ UNCHANGED Outcome!vars)
  <2>1. agreed' = NoOffer /\ Decision = "OPEN"
    BY <1>0, <1>2, DecisionFacts DEF OpenInBoth, Decision, TerminalStates
  <2>2. Outcome!Next
    BY <1>2, <2>1, Promised
  <2>3. OutcomeInv'
    BY <1>0, <1>2, <2>1, DecisionFacts DEF OutcomeInv, At
  <2> QED  BY <2>2, <2>3
<1>3. CASE Observe
  <2>1. UNCHANGED <<record, status, agreed>> /\ At("top")
    BY <1>3 DEF Observe, session
  <2>2. \/ engine'.at = "settle"
        \/ engine'.at = "turn" /\ record.status \notin TerminalStates
    BY <1>0, <1>3 DEF Observe, EngineStates
  <2>3. record.status \notin TerminalStates => OpenInBoth
    BY <1>0, <2>1 DEF OutcomeInv, OpenInBoth, SessionRecord
  <2> QED  BY <1>1, <2>1, <2>2, <2>3 DEF At
<1>4. ASSUME NEW a, Choose(a) PROVE OutcomeInv' /\ (Outcome!Next \/ UNCHANGED Outcome!vars)
  <2>1. UNCHANGED <<record, status, agreed>> /\ engine'.at = "route" /\ OpenInBoth
    BY <1>0, <1>4 DEF Choose, session, EngineStates, OutcomeInv
  <2> QED  BY <1>1, <2>1 DEF At
<1>5. CASE TurnFails \/ RateLimited
  <2>1. UNCHANGED <<record, status, agreed>> /\ engine'.at = "top" /\ OpenInBoth
    BY <1>0, <1>5 DEF TurnFails, RateLimited, FailedTurn, session, EngineStates, OutcomeInv
  <2> QED  BY <1>1, <2>1 DEF At, OpenInBoth
<1>6. CASE LookupFails
  <2>1. UNCHANGED <<record, agreed>> /\ OpenInBoth
    BY <1>6 DEF LookupFails, OutcomeInv
  <2>2. CASE status' = "WALKAWAY" /\ engine'.at = "crashed"
    BY <1>2, <2>1, <2>2 DEF Decision, TerminalStates
  <2>3. CASE status' = status /\ engine'.at = "settle"
    BY <1>1, <2>1, <2>3 DEF At
  <2> QED  BY <1>0, <1>6, <2>2, <2>3 DEF LookupFails, EngineStates
<1>7. ASSUME NEW a, ChooseBlocked(a) PROVE OutcomeInv' /\ (Outcome!Next \/ UNCHANGED Outcome!vars)
  <2>1. UNCHANGED <<record, agreed>> /\ OpenInBoth
    BY <1>7 DEF ChooseBlocked, OutcomeInv
  <2>2. CASE BreachEnds(engine)
    <3>1. status' = "POLICY_BREACH" /\ engine'.at = "settle"
      BY <1>0, <2>1, <2>2, DecisionFacts DEF BreachEnds, OpenInBoth, EngineStates
    <3> QED  BY <1>2, <2>1, <3>1 DEF Decision, TerminalStates
  <2>3. CASE status' = status /\ engine' = FailedTurn
    <3>1. engine'.at = "top"
      BY <1>0, <2>3 DEF FailedTurn, EngineStates
    <3> QED  BY <1>1, <2>1, <2>3, <3>1 DEF At, OpenInBoth
  <2> QED  BY <1>7, <2>2, <2>3 DEF ChooseBlocked
<1>8. CASE RouteRefused
  <2>1. engine'.at = "top" /\ OpenInBoth /\ engine.act \in Envelope
    BY <1>0, <1>8 DEF RouteRefused, FailedTurn, EngineStates, OutcomeInv
  <2>2. CASE UNCHANGED <<record, status, agreed>>
    BY <1>1, <2>1, <2>2 DEF At, OpenInBoth
  <2>3. CASE Overdue
    <3>1. /\ record'.status = "TIMEOUT" /\ record'.lastOffer = record.lastOffer
          /\ status' = status /\ agreed' = agreed
      BY <1>0, <2>3, EndedTyped DEF Overdue, TerminalStates
    <3>2. Decision' = "TIMEOUT"
      BY <2>1, <3>1, DecisionFacts DEF Decision, OpenInBoth, TerminalStates
    <3> QED  BY <1>2, <2>1, <3>1, <3>2 DEF TerminalStates
  <2>4. CASE Block(engine.act) /\ record'.status # "POLICY_BREACH"
    <3>1. record' = record
      BY <1>0, <2>4, EndedTyped DEF Block, TerminalStates
    <3> QED  BY <2>2, <2>4, <3>1 DEF Block
  <2>5. Refuse(engine.act) \/ Misnumbered(engine.act) => UNCHANGED <<record, status, agreed>>
    BY DEF Refuse, Misnumbered, session
  <2> QED  BY <1>8, <2>2, <2>3, <2>4, <2>5 DEF RouteRefused
<1>9. CASE RouteBreached
  <2>1. OpenInBoth /\ agreed' = agreed
    BY <1>9 DEF RouteBreached, OutcomeInv
  <2>2. record'.lastOffer = record.lastOffer
    BY <1>0, <1>9, EndedTyped DEF RouteBreached, TerminalStates
  <2>3. status' = "POLICY_BREACH" /\ engine'.at = "settle"
    BY <1>0, <1>9, <2>1, DecisionFacts DEF RouteBreached, BreachEnds, OpenInBoth, EngineStates
  <2>4. Decision' = "POLICY_BREACH"
    BY <2>3 DEF Decision, TerminalStates
  <2> QED  BY <1>2, <2>1, <2>2, <2>3, <2>4 DEF TerminalStates
<1>10. CASE RoutePerformed
  <2>1. OpenInBoth /\ Perform(engine.act) /\ engine.act \in Envelope /\ engine'.at = "top"
    BY <1>0, <1>10 DEF RoutePerformed, OutcomeInv, EngineStates
  <2>2. /\ record'.status \in ActiveStates => status' \in ActiveStates
        /\ agreed' # NoOffer => status' = "AGREED"
        /\ InLimits(record'.lastOffer)
        /\ Outcome!Next \/ UNCHANGED Outcome!vars
    BY <2>1, PerformedOutcome
  <2> QED  BY <2>1, <2>2 DEF OutcomeInv, At
<1>11. CASE Settle
  <2>1. UNCHANGED <<record, status, agreed>> /\ engine'.at = "done"
    BY <1>0, <1>11 DEF Settle, EngineStates
  <2> QED  BY <1>1, <2>1 DEF At
<1>12. CASE PassDeadline \/ UNCHANGED vars
  <2>1. UNCHANGED <<record, status, agreed, engine>>
    BY <1>12 DEF PassDeadline, vars, session
  <2> QED  BY <1>1, <2>1 DEF At, OutcomeInv
<1> QED
  BY <1>3, <1>4, <1>5, <1>6, <1>7, <1>8, <1>9, <1>10, <1>11, <1>12 DEF Next, Engine, Turn

(* The engine alone implements NegotiationOutcome, for every price set,     *)
(* limit and iteration limit and whatever fails on the way: the session is  *)
(* decided at most once, for good, and an agreement's price is within both  *)
(* parties' limits.                                                         *)
THEOREM EngineKeepsPromise == Spec => OutcomeSpec
<1>1. ASSUME Init PROVE OutcomeInv /\ Outcome!Init
  <2>1. PICK opening \in Prices : ValidOpening(opening) /\ record = Opened(opening)
    BY <1>1 DEF Init
  <2>2. record.status = "BUYER_ANCHOR" /\ status = "BUYER_ANCHOR" /\ agreed = NoOffer
    BY <1>1, <2>1 DEF Init, Opened
  <2>3. InLimits(record.lastOffer)
    BY <2>1 DEF Opened, ValidOpening, InLimits, Roles
  <2>4. Outcome!Init
    BY <2>2 DEF Outcome!Init, TerminalStates
  <2> QED  BY <2>2, <2>3, <2>4 DEF OutcomeInv, OpenInBoth, ActiveStates
<1>2. EngineInv /\ EngineInv' /\ OutcomeInv /\ [Next]_vars =>
        OutcomeInv' /\ [Outcome!Next]_(Outcome!vars)
  BY OutcomeStep
<1> QED  BY <1>1, <1>2, EngineInvariance, PTL DEF Spec, OutcomeSpec, Outcome!Spec
===============================================================================
