--------------------------- MODULE NegotiationEngine ---------------------------
(***************************************************************************)
(* The autonomous run of one session: run_negotiation (agents/             *)
(* neutral_agent.py) looks whose turn it is, lets the pipeline             *)
(* (agents/pipeline.py) choose an action for that party, routes it to      *)
(* process_action, and stops on a terminal state, on the deadline or after *)
(* its iteration limit.  The engine is alone here: nobody else acts on the *)
(* session, as after POST /sessions/{id}/run when both parties leave it to *)
(* the engine.  SharedSession puts API clients beside it.                  *)
(*                                                                         *)
(* Alone, a call of process_action may count as one step: SessionStore     *)
(* takes it apart and shows (FsmSpec) that a single request at a time      *)
(* behaves as if it were one.  The valuation snapshots are there.  What    *)
(* the strategy chooses is left open: any counter, an accept or a reject.  *)
(***************************************************************************)
EXTENDS DanpRules

CONSTANTS
    MaxTurns,       \* max_iterations, 50 in the code
    Stale,          \* a row the engine's database session has to read again
    MayFailLookup,  \* whether the lookup of an agent configuration may fail three times
    MayExpire       \* whether timeout_at may pass

ASSUME EngineAssumption ==
    /\ MaxTurns \in Nat \ {0}
    /\ Stale \notin ActiveStates \cup TerminalStates
    /\ {MayFailLookup, MayExpire} \subseteq BOOLEAN

VARIABLES
    record,     \* session:{id} in Redis
    fails,      \* failures:{id}:{role}
    stall,      \* stall:{id}
    status,     \* negotiations.status, committed
    agreed,     \* negotiations.final_agreed_value, committed
    escrow,     \* whether an escrow was deployed for the session
    expired,    \* whether timeout_at has passed
    engine      \* where the engine is, what it saw and what it chose

session == <<record, fails, stall, status, agreed, escrow>>
vars == <<session, expired, engine>>

Statuses == ActiveStates \cup TerminalStates

(* known is the status of the row as the engine's database session caches   *)
(* it: expire_on_commit is off, so only a rollback makes it read again.     *)
TypeOK ==
    /\ record \in SessionRecord
    /\ fails \in [Roles -> Nat] /\ stall \in Nat
    /\ status \in Statuses /\ agreed \in MaybePrice /\ escrow \in BOOLEAN
    /\ expired \in BOOLEAN
    /\ engine \in [at : {"top", "turn", "route", "settle", "done", "crashed"},
                   turns : 0 .. MaxTurns, known : Statuses \cup {Stale},
                   seen : SessionRecord, act : Envelope \cup {Nobody}]

Init ==
    /\ \E opening \in Prices : ValidOpening(opening) /\ record = Opened(opening)
    /\ fails = [r \in Roles |-> 0] /\ stall = 0
    /\ status = "BUYER_ANCHOR" /\ agreed = NoOffer /\ escrow = FALSE
    /\ expired = FALSE
    /\ engine = [at |-> "top", turns |-> 0, known |-> "BUYER_ANCHOR", seen |-> record,
                 act |-> Nobody]

-------------------------------------------------------------------------------
(* process_action, by outcome.                                              *)
Admitted(a) ==
    record.status \in ActiveStates /\ ~expired /\ a.role = TurnOf(record)

(* STEPS 3 to 6.                                                            *)
Admits(a) == Admitted(a) /\ ValidRound(record, a)

(* Steps 2 to 5 refuse the action and nothing changes.                      *)
Refuse(a) ==
    /\ record.status \in TerminalStates \/ (~expired /\ a.role # TurnOf(record))
    /\ UNCHANGED session

(* The deadline is noticed: TIMEOUT stays in Redis only, since the 409      *)
(* rolls the row back.                                                      *)
Overdue ==
    /\ record.status \in ActiveStates /\ expired
    /\ record' = Ended(record, "TIMEOUT")
    /\ UNCHANGED <<fails, stall, status, agreed, escrow>>

(* An invalid round number is counted.                                      *)
Misnumbered(a) ==
    /\ Admitted(a) /\ ~Admits(a)
    /\ fails' = [fails EXCEPT ![a.role] = @ + 1]
    /\ UNCHANGED <<record, stall, status, agreed, escrow>>

(* The guardrails block; on a third failure POLICY_BREACH goes to Redis.    *)
Block(a) ==
    /\ Admits(a) /\ Breaches(record, a)
    /\ fails' = [fails EXCEPT ![a.role] = @ + 1]
    /\ record' = IF StrikesOut(fails'[a.role]) THEN Ended(record, "POLICY_BREACH") ELSE record
    /\ UNCHANGED <<stall, status, agreed, escrow>>

(* The action goes through; an accept may or may not deploy its escrow.     *)
Perform(a) ==
    /\ Admits(a) /\ ~Breaches(record, a)
    /\ stall' = IF a.kind = "counter" THEN StallCount(record, a, stall) ELSE stall
    /\ record' = Moved(record, a, stall')
    /\ status' = record'.status
    /\ fails' = [fails EXCEPT ![a.role] = 0]
    /\ agreed' = IF a.kind = "accept" THEN ClosingPrice(record, a) ELSE agreed
    /\ escrow' \in IF a.kind = "accept" THEN {escrow, TRUE} ELSE {escrow}

-------------------------------------------------------------------------------
(* The engine.                                                              *)
At(place) == engine.at = place

(* Mutation: a failed turn is tried again without being counted.            *)
FailedTurnUncounted == [engine EXCEPT !.at = "top", !.known = Stale]

(* A turn raised: rollback and on to the next iteration.                    *)
FailedTurn == [engine EXCEPT !.at = "top", !.known = Stale, !.turns = @ + 1]

(* The top of the loop.                                                     *)
Observe ==
    /\ At("top")
    /\ engine' = IF engine.turns = MaxTurns \/ expired \/ record.status \in TerminalStates
                 THEN [engine EXCEPT !.at = "settle"]
                 ELSE [engine EXCEPT !.at = "turn", !.seen = record]
    /\ UNCHANGED <<session, expired>>

(* What the select in the lookup's failure branch returns.                  *)
Row == IF engine.known = Stale THEN status ELSE engine.known

(* The agent configuration cannot be loaded three times: WALKAWAY is        *)
(* committed, then set_session_state is called without its TTL argument     *)
(* and the TypeError ends the task.  Redis is not told.                     *)
LookupFails ==
    /\ MayFailLookup
    /\ At("turn")
    /\ IF Row \in TerminalStates
       THEN /\ engine' = [engine EXCEPT !.at = "settle", !.known = Row]
            /\ UNCHANGED status
       ELSE /\ engine' = [engine EXCEPT !.at = "crashed", !.known = "WALKAWAY"]
            /\ status' = "WALKAWAY"
    /\ UNCHANGED <<record, fails, stall, agreed, escrow, expired>>

(* The breach branch of the loop: rollback, then POLICY_BREACH is committed *)
(* to a row that is not terminal.  Telling Redis fails as in LookupFails,   *)
(* but here the TypeError is swallowed.                                     *)
BreachEnds(turn) ==
    /\ status' = IF status \in TerminalStates THEN status ELSE "POLICY_BREACH"
    /\ engine' = [turn EXCEPT !.at = "settle", !.known = status']

(* The strategy chooses and the pipeline's own guardrail passes the choice. *)
Choose(a) ==
    /\ At("turn")
    /\ a \in Choices(engine.seen)
    /\ a.kind = "accept" \/ ~Breaches(engine.seen, a)
    /\ engine' = [engine EXCEPT !.at = "route", !.act = a]
    /\ UNCHANGED <<session, expired>>

(* The pipeline's guardrail, which sees an accept without a price, blocks a *)
(* counter.                                                                 *)
ChooseBlocked(a) ==
    /\ At("turn")
    /\ a \in Choices(engine.seen)
    /\ a.kind = "counter" /\ Breaches(engine.seen, a)
    /\ fails' = [fails EXCEPT ![a.role] = @ + 1]
    /\ IF StrikesOut(fails'[a.role]) THEN BreachEnds(engine)
       ELSE engine' = FailedTurn /\ UNCHANGED status
    /\ UNCHANGED <<record, stall, agreed, escrow, expired>>

(* The turn fails before it gets to process_action: the snapshot is gone,   *)
(* Redis or PostgreSQL do not answer.                                       *)
TurnFails ==
    /\ At("turn")
    /\ engine' = FailedTurn
    /\ UNCHANGED <<session, expired>>

(* The choice is routed.  A refusal of any kind is a failed turn.           *)
RouteRefused ==
    /\ At("route")
    /\ \/ Refuse(engine.act)
       \/ Overdue
       \/ Misnumbered(engine.act)
       \/ Block(engine.act) /\ record'.status # "POLICY_BREACH"
    /\ engine' = FailedTurn
    /\ UNCHANGED expired

(* STEP 1 refuses, or something else fails with a 429: the loop backs off   *)
(* without a rollback.                                                      *)
RateLimited ==
    /\ At("route")
    /\ engine' = [engine EXCEPT !.at = "top", !.turns = @ + 1]
    /\ UNCHANGED <<session, expired>>

(* The third failure in process_action: Redis knows, and the breach branch  *)
(* tells PostgreSQL.                                                        *)
RouteBreached ==
    LET a == engine.act
    IN  /\ At("route")
        /\ Admits(a) /\ Breaches(record, a)
        /\ fails' = [fails EXCEPT ![a.role] = @ + 1]
        /\ StrikesOut(fails'[a.role])
        /\ record' = Ended(record, "POLICY_BREACH")
        /\ BreachEnds(engine)
        /\ UNCHANGED <<stall, agreed, escrow, expired>>

RoutePerformed ==
    /\ At("route")
    /\ Perform(engine.act)
    /\ engine' = [engine EXCEPT !.at = "top", !.turns = @ + 1, !.known = status']
    /\ UNCHANGED expired

(* After the loop: trigger_escrow once more if the record says AGREED; it   *)
(* asks the (cached) row.  The audit entry, the Merkle root and the anchor  *)
(* follow.                                                                  *)
Settle ==
    /\ At("settle")
    /\ escrow' \in IF record.status = "AGREED" /\ Row = "AGREED" THEN {escrow, TRUE} ELSE {escrow}
    /\ engine' = [engine EXCEPT !.at = "done"]
    /\ UNCHANGED <<record, fails, stall, status, agreed, expired>>

PassDeadline ==
    /\ MayExpire /\ ~expired
    /\ expired' = TRUE
    /\ UNCHANGED <<session, engine>>

Turn ==
    \/ TurnFails
    \/ LookupFails
    \/ \E a \in Choices(engine.seen) : Choose(a) \/ ChooseBlocked(a)

Engine ==
    \/ Observe \/ Turn
    \/ RateLimited \/ RouteRefused \/ RouteBreached \/ RoutePerformed
    \/ Settle

Next ==
    \/ Engine
    \/ PassDeadline

Spec == Init /\ [][Next]_vars

(* The engine is a task of the event loop: each of its awaits returns.      *)
FairSpec == Spec /\ WF_vars(Engine)

-------------------------------------------------------------------------------
(* The engine always stops: every iteration is counted, the failed ones too *)
(* (max_iterations).                                                        *)
EngineStops == <>(At("done") \/ At("crashed"))

(* The outcome as PostgreSQL or else Redis has it.  Left alone, the engine  *)
(* keeps the promise of NegotiationOutcome, whatever fails on the way.      *)
Outcome == INSTANCE NegotiationOutcome WITH
    outcome <- IF status \in TerminalStates THEN status
               ELSE IF record.status \in TerminalStates THEN record.status ELSE "OPEN",
    price   <- agreed

OutcomeSpec == Outcome!Spec
===============================================================================
