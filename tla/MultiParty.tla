------------------------------ MODULE MultiParty -------------------------------
(***************************************************************************)
(* One buyer against several sellers (agents/multi_party_session.py): a    *)
(* child session per seller, an engine per child (agents/neutral_agent.py) *)
(* with the strategy of both parties, the advisor they share               *)
(* (core/llm_reasoning.py), and the choice of the winner.  All engines     *)
(* work in one database session, so that the commit or rollback of any of  *)
(* them is that of all.                                                    *)
(*                                                                         *)
(* A turn is taken in the steps another engine's commit or rollback may    *)
(* fall between: the offer's row, the escrow of a deal, the session's row, *)
(* the record in Redis, the commit.                                        *)
(*                                                                         *)
(* A definition introduced by "Mutation" is a plausible mistake in the     *)
(* definition that follows it; no specification uses it.                   *)
(***************************************************************************)
EXTENDS Strategy, FiniteSets, SequencesExt

CONSTANTS
    Children,       \* child_session_ids, a sequence
    BuyerConfig,    \* the buyer's agent_configs row
    SellerConfigs,  \* those the sellers may have
    Openings,       \* initial_offer_value
    MaxRounds,
    Exposure,       \* max_exposure of everybody
    Modifiers,      \* what the advisor may recommend, in percent
    MaxFaults       \* bound: failures of the database session and the chain

(* An agent_configs row as its schema admits it; a ceiling of zero is none. *)
Configs ==
    [value : Nat \ {0}, risk : 0 .. 100, margin : 0 .. 100, first : Nat, curve : Int,
     ceiling : (Nat \ {0}) \cup {None}]

ASSUME MultiAssumption ==
    /\ Len(Children) \in 2 .. 5
    /\ Children \in Seq(ToSet(Children)) /\ IsInjective(Children)
    /\ None \notin ToSet(Children) \cup Int \cup {"MULTI_PARTY_LOSER"}
    /\ BuyerConfig \in Configs /\ SellerConfigs \subseteq Configs
    /\ Openings \subseteq Nat
    /\ MaxRounds \in Nat \ {0}
    /\ Exposure \in Nat \ {0}
    /\ Modifiers \subseteq -50 .. 50
    /\ MaxFaults \in Nat

VARIABLES
    config,     \* each seller's
    rec,        \* the session records in Redis
    counters,   \* the stall, failure and flexibility keys
    row,        \* the children's rows: negotiation, offers, escrow_contracts
    work,       \* the rows as the shared database session sees them
    engine,     \* where each child's engine is
    act,        \* the action it is in the middle of
    advisor,    \* LLMAdvisor: failures in a row and open circuits
    deployed,   \* applications on the chain
    parent,     \* the multi_party_sessions row
    faults,
    lost,       \* history: children with a turn rolled back or broken off
    strays      \* history: applications whose row was rolled back

vars == <<config, rec, counters, row, work, engine, act, advisor, deployed, parent, faults,
          lost, strays>>

Kids == ToSet(Children)

Roles == {"buyer", "seller"}

Snap(c, role) == Snapshot(role, IF role = "buyer" THEN BuyerConfig ELSE config[c])

BuyerCeiling == IF BuyerConfig.ceiling = None THEN Exposure ELSE BuyerConfig.ceiling

(* The protocol, and the guardrails where the seller's floor is floor.      *)
Rules(floor) == INSTANCE DanpRules WITH
    Prices   <- 0 .. Exposure,
    Floor    <- floor,
    Ceiling  <- BuyerCeiling,
    Exposure <- [r \in Roles |-> Exposure],
    NoOffer  <- None,
    Nobody   <- "nobody"

(* The protocol alone.                                                      *)
Rule == INSTANCE DanpRules WITH
    Prices   <- 0 .. Exposure,
    Floor    <- 0,
    Ceiling  <- BuyerCeiling,
    Exposure <- [r \in Roles |-> Exposure],
    NoOffer  <- None,
    Nobody   <- "nobody"

Breaches(c, a) == Rules(Snap(c, "seller").reservation)!Breaches(rec[c], a)

(* create_multi_session: the children as create_session leaves them.        *)
Init ==
    /\ config \in [Kids -> SellerConfigs]
    /\ \E opening \in Openings :
          /\ Rule!ValidOpening(opening)
          /\ rec = [c \in Kids |-> Rule!Opened(opening)]
          /\ row = [c \in Kids |-> [status |-> "BUYER_ANCHOR", price |-> None, outcome |-> None,
                                    escrow |-> FALSE,
                                    offers |-> [r \in Roles |-> IF r = "buyer" THEN <<opening>> ELSE <<>>]]]
    /\ counters = [c \in Kids |-> [stall |-> 0, fails |-> [r \in Roles |-> 0],
                                   flexibility |-> [r \in Roles |-> 50]]]
    /\ work = row
    /\ engine = [c \in Kids |-> "turn"]
    /\ act = [c \in Kids |-> None]
    /\ advisor = [failures |-> [c \in Kids |-> 0], open |-> {}]
    /\ deployed = [c \in Kids |-> 0]
    /\ parent = [status |-> "ACTIVE", best |-> None, over |-> FALSE]
    /\ faults = 0
    /\ lost = {}
    /\ strays = [c \in Kids |-> 0]

-------------------------------------------------------------------------------
(* The advisor.                                                             *)

Threshold == 3

(* Mutation: the circuit is asked for nothing.                              *)
AskedAlways(c) == TRUE

Asked(c) == c \notin advisor.open

(* classify_opponent: the answer counts, and three failures in a row open   *)
(* the session's circuit.                                                   *)
Heard(c, answer) ==
    LET failures == IF answer = None THEN advisor.failures[c] + 1 ELSE 0
    IN  IF ~Asked(c) THEN advisor
        ELSE [failures |-> [advisor.failures EXCEPT ![c] = failures],
              open     |-> IF failures >= Threshold THEN advisor.open \cup {c} ELSE advisor.open]

ModifierOf(c, answer) == IF Asked(c) /\ answer # None THEN answer ELSE 0

-------------------------------------------------------------------------------
(* An engine's turn.                                                        *)

Turn(c) == rec[c].expectedTurn

PrevOpponent(c) ==
    LET values == work[c].offers[Rule!Other(Turn(c))]
    IN  IF Len(values) >= 2 THEN values[Len(values) - 1] ELSE None

(* The flexibility the mover sees, after its update.                        *)
Observed(c) ==
    LET opponent == rec[c].lastOffer[Rule!Other(Turn(c))]
        old == counters[c].flexibility[Turn(c)]
    IN  IF opponent = None \/ PrevOpponent(c) = None THEN old
        ELSE Flexibility(old, opponent, PrevOpponent(c))

(* run_agent_turn, up to the envelope.                                      *)
Envelope(c, answer) ==
    LET role == Turn(c)
        choice == Choice(Snap(c, role),
                         [own         |-> rec[c].lastOffer[role],
                          opponent    |-> rec[c].lastOffer[Rule!Other(role)],
                          prev        |-> PrevOpponent(c),
                          round       |-> rec[c].round,
                          roundsLeft  |-> IF rec[c].round < MaxRounds THEN MaxRounds - rec[c].round ELSE 0,
                          flexibility |-> Observed(c),
                          curve       |-> IF role = "buyer" THEN BuyerConfig.curve ELSE config[c].curve,
                          modifier    |-> ModifierOf(c, answer)])
    IN  [role |-> role, kind |-> choice.kind, price |-> choice.price, round |-> rec[c].round]

Listened(c, answer) == advisor' = Heard(c, answer)

Counted(c, fails, stall) ==
    counters' = [counters EXCEPT ![c] =
        [stall       |-> stall,
         fails       |-> [@.fails EXCEPT ![Turn(c)] = fails],
         flexibility |-> [@.flexibility EXCEPT ![Turn(c)] = Observed(c)]]]

(* The rollback of the database session takes every child's uncommitted     *)
(* rows with it, and breaks off the turns of stopped.                       *)
Rollback(stopped) ==
    /\ work' = row
    /\ lost' = lost \cup stopped \cup {c \in Kids : work[c] # row[c]}
    /\ strays' = [c \in Kids |-> IF work[c].escrow /\ ~row[c].escrow THEN strays[c] + 1 ELSE strays[c]]
    /\ UNCHANGED row

Failing == faults < MaxFaults /\ faults' = faults + 1

AtTurn(c) == engine[c] = "turn" /\ rec[c].status \in Rule!ActiveStates

(* The guardrails block the strategy's own choice, and the engine rolls     *)
(* back.  A counter is blocked before process_action, an accept inside it,  *)
(* where the third time ends the record too.                                *)
BlockedTurn(c, answer) ==
    LET a == Envelope(c, answer)
        fails == counters[c].fails[Turn(c)] + 1
        breach == Rule!StrikesOut(fails)
    IN  /\ AtTurn(c)
        /\ Breaches(c, a)
        /\ Listened(c, answer)
        /\ Counted(c, fails, counters[c].stall)
        /\ rec' = IF breach /\ a.kind = "accept"
                  THEN [rec EXCEPT ![c] = Rule!Ended(@, "POLICY_BREACH")] ELSE rec
        /\ Rollback({})
        /\ engine' = [engine EXCEPT ![c] = IF breach THEN "breach" ELSE "turn"]
        /\ UNCHANGED <<config, act, deployed, parent, faults>>

(* The third time the engine ends the row, unless that fails; its write to  *)
(* Redis always does.                                                       *)
Breach(c, ok) ==
    LET ends == ok /\ work[c].status \in Rule!ActiveStates
    IN  /\ engine[c] = "breach"
        /\ IF ok THEN UNCHANGED faults ELSE Failing
        /\ work' = IF ends THEN [work EXCEPT ![c].status = "POLICY_BREACH"] ELSE work
        /\ row' = IF ends THEN work' ELSE row
        /\ engine' = [engine EXCEPT ![c] = "settle"]
        /\ UNCHANGED <<config, rec, counters, act, advisor, deployed, parent, lost, strays>>

(* The configuration cannot be read three times: the engine ends the row,   *)
(* and is itself ended by its write to Redis.                               *)
NoConfig(c) ==
    LET ends == work[c].status \in Rule!ActiveStates
    IN  /\ AtTurn(c)
        /\ Failing
        /\ work' = IF ends THEN [work EXCEPT ![c].status = "WALKAWAY"] ELSE work
        /\ row' = IF ends THEN work' ELSE row
        /\ engine' = [engine EXCEPT ![c] = IF ends THEN "done" ELSE "settle"]
        /\ UNCHANGED <<config, rec, counters, act, advisor, deployed, parent, lost, strays>>

(* The offer's row and, of an accept, the deal in the session's row.        *)
Answered(c, a) ==
    [work[c] EXCEPT
        !.status = IF a.kind = "accept" THEN "AGREED" ELSE @,
        !.price  = IF a.kind = "accept" THEN Rule!ClosingPrice(rec[c], a) ELSE @,
        !.offers = IF a.price = None THEN @
                    ELSE [@ EXCEPT ![a.role] = Append(work[c].offers[a.role], a.price)]]

(* The pipeline, and process_action up to there.                            *)
TakeTurn(c, answer) ==
    LET a == Envelope(c, answer)
    IN  /\ AtTurn(c)
        /\ ~Breaches(c, a)
        /\ Listened(c, answer)
        /\ Counted(c, counters[c].fails[Turn(c)], counters[c].stall)
        /\ act' = [act EXCEPT ![c] = a]
        /\ work' = [work EXCEPT ![c] = Answered(c, a)]
        /\ engine' = [engine EXCEPT ![c] = IF a.kind = "accept" THEN "escrow" ELSE "write"]
        /\ UNCHANGED <<config, rec, row, deployed, parent, faults, lost, strays>>

(* Mutation: the row of the escrow is not looked for.                       *)
DeploysAgain(c) == work[c].status = "AGREED"

(* trigger_escrow for a child that the database session sees as agreed.     *)
Deploys(c) == work[c].status = "AGREED" /\ ~work[c].escrow

(* ok says whether the chain takes the application; a failure is swallowed. *)
Triggered(c, ok) ==
    LET deploys == Deploys(c) /\ ok
    IN  /\ IF ok THEN UNCHANGED faults ELSE Deploys(c) /\ Failing
        /\ work' = [work EXCEPT ![c].escrow = @ \/ deploys]
        /\ deployed' = IF deploys THEN [deployed EXCEPT ![c] = @ + 1] ELSE deployed

TriggerEscrow(c, ok) ==
    /\ engine[c] = "escrow"
    /\ Triggered(c, ok)
    /\ engine' = [engine EXCEPT ![c] = "write"]
    /\ UNCHANGED <<config, rec, counters, row, act, advisor, parent, lost, strays>>

(* The stall counter, and STEP 12's update of the session's row.            *)
WriteRow(c) ==
    LET a == act[c]
        stall == IF a.kind = "counter" THEN Rule!StallCount(rec[c], a, counters[c].stall)
                                       ELSE counters[c].stall
    IN  /\ engine[c] = "write"
        /\ counters' = [counters EXCEPT ![c].stall = stall]
        /\ work' = [work EXCEPT ![c].status = Rule!Moved(rec[c], a, stall).status]
        /\ engine' = [engine EXCEPT ![c] = "publish"]
        /\ UNCHANGED <<config, rec, row, act, advisor, deployed, parent, faults, lost, strays>>

(* STEP 12's record in Redis, and the end of process_action.                *)
Publish(c) ==
    /\ engine[c] = "publish"
    /\ rec' = [rec EXCEPT ![c] = Rule!Moved(@, act[c], counters[c].stall)]
    /\ counters' = [counters EXCEPT ![c].fails[Turn(c)] = 0]
    /\ act' = [act EXCEPT ![c] = None]
    /\ engine' = [engine EXCEPT ![c] = "commit"]
    /\ UNCHANGED <<config, row, work, advisor, deployed, parent, faults, lost, strays>>

(* A commit is that of every child's rows.                                  *)
Commit(c) ==
    /\ engine[c] \in {"commit", "close"}
    /\ row' = work
    /\ engine' = [engine EXCEPT ![c] = IF @ = "commit" THEN "turn" ELSE "done"]
    /\ UNCHANGED <<config, rec, counters, work, act, advisor, deployed, parent, faults, lost, strays>>

InTurn == {"escrow", "write", "publish"}

(* Another engine is using the database session: the turn raises wherever   *)
(* it is, or its commit does, and the engine rolls back and goes on.        *)
Clash(c) ==
    /\ engine[c] \in InTurn \cup {"turn", "commit"}
    /\ Failing
    /\ Rollback(IF engine[c] \in InTurn THEN {c} ELSE {})
    /\ act' = [act EXCEPT ![c] = None]
    /\ engine' = [engine EXCEPT ![c] = "turn"]
    /\ UNCHANGED <<config, rec, counters, advisor, deployed, parent>>

(* It is the rollback that raises, the engine's first SELECT, or its last   *)
(* commit: _run_child swallows it.                                          *)
Die(c) ==
    /\ engine[c] # "done"
    /\ Failing
    /\ act' = [act EXCEPT ![c] = None]
    /\ engine' = [engine EXCEPT ![c] = "done"]
    /\ UNCHANGED <<config, rec, counters, row, work, advisor, deployed, parent, lost, strays>>

(* After a terminal record, a breach, the deadline or the fiftieth          *)
(* iteration: the escrow of a record that says AGREED, before a commit.     *)
Settle(c, ok) ==
    /\ engine[c] \in {"turn", "settle"}
    /\ IF rec[c].status = "AGREED" THEN Triggered(c, ok)
                                   ELSE ok /\ UNCHANGED <<work, deployed, faults>>
    /\ engine' = [engine EXCEPT ![c] = "close"]
    /\ UNCHANGED <<config, rec, counters, row, act, advisor, parent, lost, strays>>

-------------------------------------------------------------------------------
(* The end of run_multi_session.                                            *)

Agreed(c) == work[c].status = "AGREED" /\ work[c].price # None /\ work[c].price # 0

Deals == {i \in DOMAIN Children : Agreed(Children[i])}

(* Mutation: the first deal wins, the prices are not compared.              *)
CheaperUncompared(i, j) == i <= j

(* The loop over child_ids keeps a child until a later one is cheaper.      *)
Cheaper(i, j) ==
    LET price(k) == work[Children[k]].price
    IN  price(i) < price(j) \/ (price(i) = price(j) /\ i <= j)

Best ==
    IF Deals = {} THEN None
    ELSE Children[CHOOSE i \in Deals : \A j \in Deals : Cheaper(i, j)]

(* The other deals become WALKAWAY, in the rows alone.                      *)
Losers(rows, best) ==
    [c \in Kids |-> IF c # best /\ rows[c].status = "AGREED"
                    THEN [rows[c] EXCEPT !.status = "WALKAWAY", !.outcome = "MULTI_PARTY_LOSER"]
                    ELSE rows[c]]

AllDone == \A c \in Kids : engine[c] = "done"

Conclude ==
    LET deploys == Best # None /\ Deploys(Best)
        rows == IF deploys THEN [work EXCEPT ![Best].escrow = TRUE] ELSE work
    IN  /\ AllDone /\ ~parent.over
        /\ IF Best = None
           THEN /\ parent' = [status |-> "EXPIRED", best |-> None, over |-> TRUE]
                /\ work' = work
           ELSE /\ parent' = [status |-> "CONCLUDED", best |-> Best, over |-> TRUE]
                /\ work' = Losers(rows, Best)
        /\ row' = work'
        /\ deployed' = IF deploys THEN [deployed EXCEPT ![Best] = @ + 1] ELSE deployed
        /\ UNCHANGED <<config, rec, counters, engine, act, advisor, faults, lost, strays>>

(* The task is lost before its commit, after the winner's escrow perhaps.   *)
ConcludeLost ==
    LET deploys == Best # None /\ Deploys(Best)
    IN  /\ AllDone /\ ~parent.over
        /\ Failing
        /\ work' = row
        /\ lost' = Kids
        /\ parent' = [parent EXCEPT !.over = TRUE]
        /\ deployed' = IF deploys THEN [deployed EXCEPT ![Best] = @ + 1] ELSE deployed
        /\ strays' = [c \in Kids |-> IF (work[c].escrow \/ (deploys /\ c = Best)) /\ ~row[c].escrow
                                     THEN strays[c] + 1 ELSE strays[c]]
        /\ UNCHANGED <<config, rec, counters, row, engine, act, advisor>>

Next ==
    \/ \E c \in Kids :
          \/ \E answer \in Modifiers \cup {None} : BlockedTurn(c, answer) \/ TakeTurn(c, answer)
          \/ \E ok \in BOOLEAN : Breach(c, ok) \/ TriggerEscrow(c, ok) \/ Settle(c, ok)
          \/ WriteRow(c) \/ Publish(c) \/ Commit(c) \/ NoConfig(c) \/ Clash(c) \/ Die(c)
    \/ Conclude \/ ConcludeLost

Spec == Init /\ [][Next]_vars

(* get_leaderboard: the deals by price, then the rest, in the order of the  *)
(* children; i is listed before j.                                          *)
Listed(i, j) ==
    LET entry(k) == row[Children[k]]
        deal(k) == entry(k).status = "AGREED" /\ entry(k).price \notin {None, 0}
    IN  IF deal(i) /\ deal(j)
        THEN entry(i).price < entry(j).price \/ (entry(i).price = entry(j).price /\ i < j)
        ELSE deal(i) \/ (~deal(j) /\ i < j)

-------------------------------------------------------------------------------
(* The winner is the only child whose row is agreed, leads the leaderboard, *)
(* and no seller who lost had agreed, for all its row tells, to a lower     *)
(* price, nor to the same one before the winner in the order of the         *)
(* invitations.  A rollback may have taken the price from a loser's row.    *)
WinnerIsBest ==
    parent.status = "CONCLUDED" =>
        \E i \in DOMAIN Children :
            /\ Children[i] = parent.best
            /\ {c \in Kids : row[c].status = "AGREED"} = {parent.best}
            /\ \A j \in DOMAIN Children \ {i} :
                  /\ Listed(i, j)
                  /\ row[Children[j]].outcome = "MULTI_PARTY_LOSER" =>
                        \/ row[Children[j]].price = None /\ Children[j] \in lost
                        \/ row[Children[j]].price > row[parent.best].price
                        \/ row[Children[j]].price = row[parent.best].price /\ i < j

(* trigger_escrow deploys a second time only where a rollback of the shared *)
(* session took the row of the first: of a child's applications, all but    *)
(* the one its row tells of were lost like that.  Where no turn was rolled  *)
(* back or broken off, only the winner and the losers that had agreed have  *)
(* one.                                                                     *)
EscrowsExplained ==
    \A c \in Kids :
        /\ deployed[c] = strays[c] + (IF work[c].escrow THEN 1 ELSE 0)
        /\ c \notin lost /\ parent.over /\ deployed[c] > 0 =>
              c = parent.best \/ row[c].outcome = "MULTI_PARTY_LOSER"

Cent == 10

WholeCents(price) == price % Cent = 0

(* Configurations that let a strategy run into its own guardrails: a limit  *)
(* with a fraction of a cent, which rounding passes; a ceiling below the    *)
(* reservation price, up to which the buyer accepts; a target so close to   *)
(* that price that an offer beyond it is close to the target; a price above *)
(* the exposure; or prices below a cent.                                    *)
Blockable(s) ==
    \/ ~WholeCents(Limit(s))
    \/ s.role = "buyer" /\ s.ceiling # None /\ s.ceiling < s.reservation
    \/ 1000 * Distance(s.reservation, s.target) < 5 * s.target
    \/ Limit(s) > Exposure
    \/ s.role = "seller" /\ ToCents(s.anchor) > Exposure
    \/ Limit(s) < Cent \/ (\E opening \in Openings : opening < Cent)

(* A strategy is blocked by its own guardrails for one of these reasons     *)
(* only: what it offers and accepts is otherwise within its limits.         *)
BlockedForAReason ==
    \A c \in Kids, r \in Roles : counters[c].fails[r] > 0 => Blockable(Snap(c, r))

(* The advice moves an offer by at most 1.3 percent and a cent, whatever is *)
(* recommended: "advisory cap" one percent, and the pressure of a deadline. *)
AdviceBounded ==
    \A c \in Kids, m \in Modifiers, left \in {1, 5}, flexibility \in {0, 50, 100} :
        AtTurn(c) /\ rec[c].lastOffer["buyer"] # None /\ rec[c].lastOffer["seller"] # None =>
            LET own == rec[c].lastOffer[Turn(c)]
                opponent == rec[c].lastOffer[Rule!Other(Turn(c))]
                Offer(modifier) == NextOffer(Snap(c, Turn(c)), own,
                    Concession(100, opponent, PrevOpponent(c), flexibility, modifier, left))
            IN  1000 * (Distance(Offer(m), Offer(0)) - 10) <= 13 * own

(* Once a session's circuit is open its advisor is never asked again, and   *)
(* it opens after three failures in a row, not before.                      *)
CircuitIsFinal == \A c \in Kids : c \in advisor.open <=> advisor.failures[c] = Threshold
===============================================================================
