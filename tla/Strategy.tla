------------------------------- MODULE Strategy --------------------------------
(***************************************************************************)
(* How an agent chooses its offers: core/valuation.py, core/strategy.py,   *)
(* core/flexibility_tracker.py and the choice in agents/pipeline.py.       *)
(* Everything here is a function of its arguments.                         *)
(*                                                                         *)
(* Floats are integers: a price counts tenths of a cent, a fraction of a   *)
(* price hundredths of a percent, the other ratios whole percents.  A      *)
(* quotient is cut off where the code keeps its digits.                    *)
(*                                                                         *)
(* A definition introduced by "Mutation" is a plausible mistake in the     *)
(* definition that follows it; no specification uses it.                   *)
(***************************************************************************)
EXTENDS Integers

CONSTANT None    \* a value that is missing

Clamp(low, n, high) == IF n < low THEN low ELSE IF n > high THEN high ELSE n

Distance(a, b) == IF a < b THEN b - a ELSE a - b

(* round(price, 2).                                                         *)
ToCents(price) == ((price + 5) \div 10) * 10

Sign(role) == IF role = "buyer" THEN 1 ELSE -1

(* compute_reservation_price, compute_target_price and                      *)
(* compute_opening_anchor for an agent_configs row.                         *)
Reservation(role, config) == (config.value * (100 + Sign(role) * config.risk)) \div 100

Target(role, config) == (config.value * (100 - Sign(role) * config.margin)) \div 100

Anchor(role, config) ==
    IF role = "buyer" THEN (Target(role, config) * 100) \div (100 + config.first)
                      ELSE (Target(role, config) * (100 + config.first)) \div 100

(* build_valuation_snapshot.                                                *)
Snapshot(role, config) ==
    [role        |-> role,
     reservation |-> Reservation(role, config),
     target      |-> Target(role, config),
     anchor      |-> Anchor(role, config),
     ceiling     |-> config.ceiling]

(* compute_utility_score, clamped to [0, 1], is at least percent (> 0).     *)
UtilityAtLeast(percent, offer, s) ==
    LET width == Distance(s.reservation, s.target)
        gain == IF s.role = "buyer" THEN s.reservation - offer ELSE offer - s.reservation
    IN  width > 0 /\ 100 * gain >= percent * width

(* FlexibilityTracker.update, the score it stores.                          *)
Flexibility(old, offer, prev) ==
    LET new == IF prev > 0 THEN Clamp(0, (Distance(offer, prev) * 2000) \div prev, 100) ELSE 50
    IN  (7 * old + 3 * new) \div 10

(* The most a role may bid or the least it may ask, by its own strategy.    *)
Limit(s) == IF s.role = "buyer" /\ s.ceiling # None THEN s.ceiling ELSE s.reservation

Within(s, offer) ==
    IF s.role = "buyer" THEN Clamp(0, offer, Limit(s))
                        ELSE IF offer < Limit(s) THEN Limit(s) ELSE offer

(* compute_opening_offer; a buyer without a ceiling is not held to any.     *)
OpeningOffer(s) ==
    IF s.role = "buyer" /\ s.ceiling = None THEN ToCents(s.anchor)
                                            ELSE ToCents(Within(s, s.anchor))

(* compute_next_offer, STEP 2.                                              *)
TitForTat(opponent, prev) ==
    IF prev = None \/ prev <= 0 THEN 0
    ELSE IF 100 * Distance(opponent, prev) > 2 * opponent THEN 50
    ELSE IF 1000 * Distance(opponent, prev) < 5 * opponent THEN -20 ELSE 0

(* Mutation: the advice enters at its full weight.                          *)
AdviceUncapped(modifier) == modifier * 20

(* STEP 4: a modifier of -50 to 50 percent, capped at one percent.          *)
Advice(modifier) == Clamp(-100, modifier * 2, 100)

(* STEPS 1 to 6.                                                            *)
Concession(curve, opponent, prev, flexibility, modifier, roundsLeft) ==
    LET sum == curve + TitForTat(opponent, prev) + (flexibility - 50) + Advice(modifier)
    IN  Clamp(10, IF roundsLeft <= 2 THEN (sum * 13) \div 10 ELSE sum, 1500)

(* STEPS 7 and 10.                                                          *)
NextOffer(s, own, fraction) ==
    LET moved == IF s.role = "buyer" THEN (own * (10000 + fraction)) \div 10000
                                     ELSE (own * (10000 - fraction)) \div 10000
    IN  ToCents(Within(s, moved))

(* Mutation: with one round left any offer is accepted.                     *)
AcceptsAnything(s, offer, roundsLeft, flexibility) ==
    roundsLeft <= 1 \/ 1000 * Distance(offer, s.target) < 5 * s.target \/ UtilityAtLeast(85, offer, s)

ShouldAccept(s, offer, roundsLeft, flexibility) ==
    \/ 1000 * Distance(offer, s.target) < 5 * s.target
    \/ /\ roundsLeft <= 1
       /\ IF s.role = "buyer"
          THEN offer <= s.reservation \/ (s.ceiling # None /\ offer <= s.ceiling)
          ELSE offer >= s.reservation
    \/ UtilityAtLeast(85, offer, s)
    \/ (flexibility > 70 /\ UtilityAtLeast(70, offer, s))

ShouldReject(s, offer) ==
    \/ (s.role = "buyer" /\ s.ceiling # None /\ 100 * offer > 105 * s.ceiling)
    \/ (s.role = "seller" /\ 100 * offer < 95 * s.reservation)

(* STEP 4 of run_agent_turn: accept, else reject, else counter.             *)
Choice(s, see) ==
    IF see.opponent = None \/ (see.round = 1 /\ see.own = None)
    THEN [kind |-> "counter", price |-> OpeningOffer(s)]
    ELSE IF ShouldAccept(s, see.opponent, see.roundsLeft, see.flexibility)
    THEN [kind |-> "accept", price |-> None]
    ELSE IF ShouldReject(s, see.opponent)
    THEN [kind |-> "reject", price |-> None]
    ELSE [kind |-> "counter",
          price |-> NextOffer(s, IF see.own = None THEN s.anchor ELSE see.own,
                              Concession(see.curve, see.opponent, see.prev, see.flexibility,
                                         see.modifier, see.roundsLeft))]
===============================================================================
