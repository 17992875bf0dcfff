------------------------------ MODULE DanpRules ------------------------------
(***************************************************************************)
(* The rules of one DANP negotiation that process_action (core/            *)
(* state_machine.py) and the guardrail engine (core/guardrails.py) apply   *)
(* to a session record and one action.  They are pure: every module that   *)
(* moves a session through the protocol EXTENDS this one, so that the      *)
(* sequential machine and the concurrent store share one transcription.    *)
(*                                                                         *)
(* Prices are integers in a small unit (the code's floats and              *)
(* Numeric(18,6) columns).  A missing optional value is NoOffer, a missing *)
(* last_actor is Nobody.                                                   *)
(*                                                                         *)
(* A definition introduced by "Mutation" is a plausible mistake in the     *)
(* definition that follows it; no specification uses it, it is there to    *)
(* show that the properties notice the mistake.                            *)
(***************************************************************************)
EXTENDS Integers

CONSTANTS
    Prices,     \* the values an offer can carry
    MaxRounds,  \* Negotiation.max_rounds
    Floor,      \* the seller snapshot's reservation_price
    Ceiling,    \* the buyer's budget_ceiling
    Exposure,   \* each role's max_exposure
    NoOffer,    \* an offer_value that is None
    Nobody      \* a last_actor that is None

Roles == {"buyer", "seller"}

ActiveStates == {"BUYER_ANCHOR", "SELLER_RESPONSE", "ROUND_LOOP"}

TerminalStates ==
    {"AGREED", "WALKAWAY", "TIMEOUT", "ROUND_LIMIT", "STALLED", "POLICY_BREACH"}

ASSUME RulesAssumption ==
    /\ Prices \subseteq Int
    /\ MaxRounds \in Nat \ {0}
    /\ Floor \in Int
    /\ Ceiling \in Int
    /\ Exposure \in [Roles -> Int]
    /\ NoOffer \notin Int
    /\ Nobody \notin Roles

MaybePrice == Prices \cup {NoOffer}

Other(role) == IF role = "buyer" THEN "seller" ELSE "buyer"

Abs(n) == IF n < 0 THEN -n ELSE n

(* The body of POST /sessions/{id}/action.  The validator of offer_value    *)
(* demands a value with a counter and None otherwise, but pydantic does not *)
(* run it on a field the client leaves out, so a counter may carry NoOffer. *)
Envelope ==
    [role : Roles, kind : {"counter"}, price : MaybePrice, round : 1 .. MaxRounds + 2]
    \cup
    [role : Roles, kind : {"accept", "reject", "timeout_yield"}, price : {NoOffer},
     round : 1 .. MaxRounds + 2]

(* The Redis session record, as far as the protocol reads it.               *)
SessionRecord ==
    [status       : ActiveStates \cup TerminalStates,
     round        : Nat,
     lastOffer    : [Roles -> MaybePrice],
     lastActor    : Roles \cup {Nobody},
     expectedTurn : Roles]

(* What create_session stores once the opening offer passed its checks.     *)
Opened(opening) ==
    [status       |-> "BUYER_ANCHOR",
     round        |-> 1,
     lastOffer    |-> [r \in Roles |-> IF r = "buyer" THEN opening ELSE NoOffer],
     lastActor    |-> Nobody,
     expectedTurn |-> "seller"]

ValidOpening(opening) ==
    /\ opening \in Prices
    /\ opening > 0
    /\ opening <= Ceiling
    /\ opening <= Exposure["buyer"]

(* Mutation: the turn follows the status alone, last_actor is not read.     *)
TurnOfByStatus(s) == IF s.status = "BUYER_ANCHOR" THEN "seller" ELSE "buyer"

(* STEP 5.  Outside ROUND_LOOP the turn depends on the status alone.        *)
TurnOf(s) ==
    CASE s.status = "BUYER_ANCHOR"                             -> "seller"
      [] s.status = "ROUND_LOOP" /\ s.lastActor = "buyer"      -> "seller"
      [] OTHER                                                 -> "buyer"

(* STEP 6.                                                                  *)
ValidRound(s, a) ==
    \/ a.round \in {s.round, s.round + 1}
    \/ a.kind = "counter" /\ s.status = "BUYER_ANCHOR" /\ a.round = 1

(* Mutation: an accept is judged by its own, empty, offer_value.            *)
JudgedPriceOwn(s, a) == a.price

(* STEP 7.  An accept is judged by the price it accepts.                    *)
JudgedPrice(s, a) ==
    IF a.kind = "accept" THEN s.lastOffer[Other(a.role)] ELSE a.price

(* GuardrailEngine.validate_action; a missing price breaks no rule, and a   *)
(* buyer without a ceiling is one whose Ceiling no price exceeds.           *)
Breaches(s, a) ==
    LET p == JudgedPrice(s, a)
    IN  /\ a.kind \in {"counter", "accept"}
        /\ p # NoOffer
        /\ \/ a.role = "seller" /\ p < Floor
           \/ a.role = "buyer" /\ p > Ceiling
           \/ a.kind = "counter" /\ p > Exposure[a.role]
           \/ a.kind = "counter" /\ p <= 0

StrikeLimit == 3

(* Mutation: the third failure is let through.                              *)
StrikesOutLate(count) == count > StrikeLimit

(* The test in GuardrailEngine.enforce that turns a block into a breach.    *)
StrikesOut(count) == count >= StrikeLimit

StallLimit == 3

(* update_stall_counter: a counter that moves less than 0.2% of its maker's *)
(* previous offer is a stalling one.                                        *)
SmallMove(price, prev) == prev > 0 /\ 1000 * Abs(price - prev) < 2 * prev

NextRound(s) == IF s.status = "ROUND_LOOP" THEN s.round + 1 ELSE s.round

(* Mutation: the limit is compared with the round being left.               *)
OverLimitLate(s) == s.round > MaxRounds

OverLimit(s) == NextRound(s) > MaxRounds

(* Whether STEP 11 reaches update_stall_counter.                            *)
StallChecked(s, a) ==
    /\ ~OverLimit(s)
    /\ a.price # NoOffer
    /\ s.lastOffer[a.role] # NoOffer

(* Mutation: a real move does not reset the counter.                        *)
StallCountSticky(s, a, stall) ==
    IF StallChecked(s, a) /\ SmallMove(a.price, s.lastOffer[a.role]) THEN stall + 1 ELSE stall

StallCount(s, a, stall) ==
    IF ~StallChecked(s, a) THEN stall
    ELSE IF SmallMove(a.price, s.lastOffer[a.role]) THEN stall + 1 ELSE 0

Stalls(s, a, stall) == StallChecked(s, a) /\ stall >= StallLimit

(* STEP 11 for a counter; stall is the count after the update.              *)
CounterStatus(s, a, stall) ==
    CASE OverLimit(s)        -> "ROUND_LIMIT"
      [] Stalls(s, a, stall) -> "STALLED"
      [] ~OverLimit(s) /\ ~Stalls(s, a, stall) /\ s.status = "BUYER_ANCHOR"
                             -> "SELLER_RESPONSE"
      [] OTHER               -> "ROUND_LOOP"

(* Mutation: every counter opens a new round.                               *)
CounterRoundEager(s, a, stall) == s.round + 1

CounterRound(s, a, stall) ==
    IF CounterStatus(s, a, stall) = "ROUND_LOOP" THEN s.round + 1 ELSE s.round

(* STEPS 11 and 12: the record a cleared action leaves behind.              *)
Moved(s, a, stall) ==
    [status       |-> CASE a.kind = "accept"        -> "AGREED"
                        [] a.kind = "reject"        -> "WALKAWAY"
                        [] a.kind = "counter"       -> CounterStatus(s, a, stall)
                        [] a.kind = "timeout_yield" -> s.status,
     round        |-> IF a.kind = "counter" THEN CounterRound(s, a, stall) ELSE s.round,
     lastOffer    |-> IF a.price = NoOffer THEN s.lastOffer
                      ELSE [s.lastOffer EXCEPT ![a.role] = a.price],
     lastActor    |-> a.role,
     expectedTurn |-> Other(a.role)]

(* The price a cleared accept closes at.                                    *)
ClosingPrice(s, a) ==
    IF s.lastOffer[Other(a.role)] # NoOffer THEN s.lastOffer[Other(a.role)] ELSE a.price

(* _transition_to_terminal as it changes the session record.                *)
Ended(s, terminal) == [s EXCEPT !.status = terminal]

(* What the pipeline may choose for the party whose turn the record says it *)
(* is: with nothing to answer, or nothing said in round 1, only a counter.  *)
Choices(s) ==
    LET r == s.expectedTurn
    IN  {a \in Envelope :
            /\ a.role = r /\ a.round = s.round
            /\ a.kind \in {"counter", "accept", "reject"}
            /\ a.kind = "counter" => a.price # NoOffer
            /\ \/ s.lastOffer[Other(r)] = NoOffer
               \/ s.round = 1 /\ s.lastOffer[r] = NoOffer
               => a.kind = "counter"}

(* The body rows of the offers table keep: who did what at which price.     *)
OfferRow == [role : Roles, kind : {"counter", "accept", "reject", "timeout_yield"},
             price : MaybePrice]

RowOf(a) == [role |-> a.role, kind |-> a.kind, price |-> a.price]
===============================================================================
