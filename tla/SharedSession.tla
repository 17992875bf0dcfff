---------------------------- MODULE SharedSession ----------------------------
(***************************************************************************)
(* The autonomous engine (agents/neutral_agent.py) beside clients of the   *)
(* API on one session.  NegotiationEngine treats the engine alone, where a *)
(* call of process_action may count as one step; here the engine's call is *)
(* one more request of SessionStore, Runner's, and the requests of the     *)
(* clients interleave with it at every await.  The engine's own reads and  *)
(* writes, before, between and after its calls, are steps of this module.  *)
(*                                                                         *)
(* The engine has one database session for its whole run, with             *)
(* expire_on_commit off: a row it has read is not read again before a      *)
(* rollback, and engine.known is the status it has cached.                 *)
(*                                                                         *)
(* What is not modelled: a second engine on the session, evicted Redis     *)
(* keys and lost transactions (SessionStore has those).                    *)
(***************************************************************************)
EXTENDS SessionStore

CONSTANTS
    Runner,     \* the slot of the engine's own requests
    MaxTurns,   \* max_iterations, 50 in the code
    Stale       \* a row the engine's database session has to read again

ASSUME SharedAssumption ==
    /\ Runner \in Clients
    /\ MaxTurns \in Nat \ {0}
    /\ Stale \notin ActiveStates \cup TerminalStates

VARIABLES
    engine,     \* where the engine is, what it saw and what it has cached
    missed      \* history: an accept's own trigger deployed nothing although it should

store == <<postgres, chain, redis, expired, req, blocks, faults, missed>>
shared == <<store, engine>>

Statuses == ActiveStates \cup TerminalStates

EnginePlaces ==
    {"top", "turn", "route", "lookup", "breach", "breachset",
     "settle", "recall", "check", "deploy", "keep", "done", "crashed"}

SharedTypeOK ==
    /\ TypeOK
    /\ engine \in [at : EnginePlaces, turns : 0 .. MaxTurns, known : Statuses \cup {Stale},
                   seen : SessionRecord]
    /\ missed \in BOOLEAN

SharedInit ==
    /\ Init
    /\ engine = [at |-> "top", turns |-> 0, known |-> "BUYER_ANCHOR", seen |-> record]
    /\ missed = FALSE

EngineAt(place) == engine.at = place

EngineGo(place) == engine' = [engine EXCEPT !.at = place]

(* What a SELECT of the row gives the engine.                               *)
Recalled == IF engine.known = Stale THEN row.status ELSE engine.known

(* A turn raised: rollback and on to the next iteration.                    *)
FailedTurn == [engine EXCEPT !.at = "top", !.known = Stale, !.turns = @ + 1]

-------------------------------------------------------------------------------
(* The top of the loop.                                                     *)
Observe ==
    /\ EngineAt("top")
    /\ engine' = IF engine.turns = MaxTurns \/ expired \/ record.status \in TerminalStates
                 THEN [engine EXCEPT !.at = "settle"]
                 ELSE [engine EXCEPT !.at = "turn", !.seen = record]
    /\ UNCHANGED store

(* The agent configuration cannot be loaded three times: unless the cached  *)
(* row is terminal it is to become WALKAWAY.                                *)
LookupFails ==
    /\ EngineAt("turn")
    /\ engine' = [engine EXCEPT !.at = IF Recalled \in TerminalStates THEN "settle" ELSE "lookup",
                                !.known = Recalled]
    /\ UNCHANGED store

(* UPDATE and COMMIT follow one another, so the lock is only waited for.    *)
SetStatus(status) ==
    /\ lock = Free
    /\ row' = [row EXCEPT !.status = status]
    /\ UNCHANGED <<offers, escrow, lock, chain, redis, expired, req, blocks, faults, missed>>

(* Telling Redis fails, and the TypeError ends the task.                    *)
LookupSet ==
    /\ EngineAt("lookup")
    /\ SetStatus("WALKAWAY")
    /\ engine' = [engine EXCEPT !.at = "crashed", !.known = "WALKAWAY"]

(* The turn fails before it gets to process_action.                         *)
TurnFails ==
    /\ EngineAt("turn")
    /\ engine' = FailedTurn
    /\ UNCHANGED store

(* STEP 1 refuses: the loop backs off without a rollback.                   *)
RateLimited ==
    /\ EngineAt("turn")
    /\ engine' = [engine EXCEPT !.at = "top", !.turns = @ + 1]
    /\ UNCHANGED store

(* The strategy chooses on the record it saw, the pipeline's own guardrail  *)
(* passes the choice, and it is routed to process_action.                   *)
Choose(a) ==
    /\ EngineAt("turn")
    /\ a \in Choices(engine.seen)
    /\ a.kind = "accept" \/ ~Breaches(engine.seen, a)
    /\ req' = [req EXCEPT ![Runner] = [Idle EXCEPT !.at = "load", !.act = a]]
    /\ EngineGo("route")
    /\ UNCHANGED <<postgres, chain, redis, expired, blocks, faults, missed>>

(* The pipeline's guardrail blocks a counter; the third block is a breach.  *)
ChooseBlocked(a) ==
    /\ EngineAt("turn")
    /\ a \in Choices(engine.seen)
    /\ a.kind = "counter" /\ Breaches(engine.seen, a)
    /\ fails' = [fails EXCEPT ![a.role] = @ + 1]
    /\ blocks' = [blocks EXCEPT ![a.role] = @ + 1]
    /\ engine' = IF StrikesOut(fails'[a.role])
                 THEN [engine EXCEPT !.at = "breach", !.known = Stale]
                 ELSE FailedTurn
    /\ UNCHANGED <<postgres, chain, record, stall, valuation, expired, req, faults, missed>>

(* What the engine makes of a step of its request.  A refusal of any kind   *)
(* is a failed turn, but for the third failure.                             *)
Routed ==
    CASE ~At(Runner, "idle")' -> engine
      [] At(Runner, "idle")' /\ At(Runner, "commit") ->
            [engine EXCEPT !.at = "top", !.turns = @ + 1, !.known = row'.status]
      [] At(Runner, "idle")' /\ req[Runner].ending = "POLICY_BREACH" ->
            [engine EXCEPT !.at = "breach", !.known = Stale]
      [] OTHER -> FailedTurn

(* A request takes its next step.                                           *)
Step(c) ==
    /\ Advance(c)
    /\ missed' = (missed \/ (At(c, "escrow") /\ Deployable /\ chain' = chain))

Route ==
    /\ EngineAt("route")
    /\ Step(Runner)
    /\ engine' = Routed

(* The breach branch reads the row after its rollback, ...                  *)
BreachRead ==
    /\ EngineAt("breach")
    /\ engine' = [engine EXCEPT !.at = IF row.status \in TerminalStates THEN "settle"
                                       ELSE "breachset",
                                !.known = row.status]
    /\ UNCHANGED store

(* ... and overwrites what it holds by then.  Telling Redis fails.          *)
BreachSet ==
    /\ EngineAt("breachset")
    /\ SetStatus("POLICY_BREACH")
    /\ engine' = [engine EXCEPT !.at = "settle", !.known = "POLICY_BREACH"]

-------------------------------------------------------------------------------
(* After the loop: the final state, ...                                     *)
Settle ==
    /\ EngineAt("settle")
    /\ EngineGo(IF record.status = "AGREED" THEN "recall" ELSE "done")
    /\ UNCHANGED store

(* Mutation: the escrow is triggered whatever the row says.                 *)
RecallAny ==
    /\ EngineAt("recall")
    /\ engine' = [engine EXCEPT !.at = "check", !.known = Recalled]
    /\ UNCHANGED store

(* ... trigger_escrow, which asks the (cached) row, ...                     *)
Recall ==
    /\ EngineAt("recall")
    /\ engine' = [engine EXCEPT !.at = IF Recalled = "AGREED" THEN "check" ELSE "done",
                                !.known = Recalled]
    /\ UNCHANGED store

(* Mutation: the idempotency check is missing.                              *)
CheckNothing ==
    /\ EngineAt("check")
    /\ EngineGo("deploy")
    /\ UNCHANGED store

(* ... then whether an escrow row is committed, ...                         *)
Check ==
    /\ EngineAt("check")
    /\ EngineGo(IF Deployable THEN "deploy" ELSE "done")
    /\ UNCHANGED store

(* ... and deploys, unless no wallet is known or the deployment fails, ...  *)
Deploy ==
    /\ EngineAt("deploy")
    /\ \/ chain' = chain + 1 /\ EngineGo("keep")
       \/ chain' = chain /\ EngineGo("done")
    /\ UNCHANGED <<postgres, redis, expired, req, blocks, faults, missed>>

(* ... and its escrow row is committed.                                     *)
Keep ==
    /\ EngineAt("keep")
    /\ escrow' = TRUE
    /\ EngineGo("done")
    /\ UNCHANGED <<row, offers, lock, chain, redis, expired, req, blocks, faults, missed>>

-------------------------------------------------------------------------------
Engine ==
    \/ Observe \/ LookupFails \/ LookupSet \/ TurnFails \/ RateLimited
    \/ \E a \in Requests : Choose(a) \/ ChooseBlocked(a)
    \/ Route \/ BreachRead \/ BreachSet
    \/ Settle \/ Recall \/ Check \/ Deploy \/ Keep

Client(c) ==
    /\ Step(c)
    /\ UNCHANGED engine

ClientArrives(c, a) ==
    /\ Arrive(c, a)
    /\ UNCHANGED <<engine, missed>>

DeadlinePasses ==
    /\ PassDeadline
    /\ UNCHANGED <<engine, missed>>

SharedNext ==
    \/ Engine
    \/ \E c \in Clients \ {Runner} : Client(c) \/ \E a \in Requests : ClientArrives(c, a)
    \/ DeadlinePasses

SharedSpec == SharedInit /\ [][SharedNext]_shared

(* The awaits of the engine's task and of the requests return.              *)
FairSharedSpec ==
    /\ SharedSpec
    /\ WF_shared(Engine)
    /\ \A c \in Clients \ {Runner} : WF_shared(Client(c))

-------------------------------------------------------------------------------
(* An escrow row exists only for a deal: an accept is committed, and the    *)
(* price it closed at is an offer the other party had made before.  That    *)
(* holds of the accept's own trigger and of the engine's second one, which  *)
(* asks a cached row, and however clients and engine overlap.  It does not  *)
(* say that the row still says AGREED: an overlapping request, or the       *)
(* engine's breach branch, may have overwritten that.                       *)
EscrowMeansDeal ==
    /\ escrow => \E j \in DOMAIN offers : offers[j].kind = "accept"
    /\ DealOnTable

(* Accepts that overlap, and the engine's second trigger after them, deploy *)
(* one application between them, although the second trigger looks for the  *)
(* escrow row without holding any lock.  Only when a deployment that was    *)
(* due did not happen may the trigger that makes up for it meet another.    *)
OneEscrowEach == chain <= IF missed THEN 2 ELSE 1

(* The engine stops beside clients too: none of them can keep the row's     *)
(* lock from it, and every iteration counts.                                *)
EngineReturns == <>(EngineAt("done") \/ EngineAt("crashed"))
===============================================================================
