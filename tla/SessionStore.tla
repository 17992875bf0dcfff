----------------------------- MODULE SessionStore -----------------------------
(***************************************************************************)
(* One negotiation as process_action (core/state_machine.py) really keeps  *)
(* it: a negotiations row and its offers in PostgreSQL, a session record,  *)
(* counters and valuation snapshots in Redis, an escrow application on     *)
(* chain, and requests, handled by several workers, that interleave at     *)
(* every await.                                                            *)
(*                                                                         *)
(* A request reads Redis (or rebuilds the record from PostgreSQL), decides *)
(* on its private copy, and then writes, in this order: the row, which     *)
(* takes its lock until the transaction ends; the chain; Redis; and last   *)
(* the commit, which get_db (db/database.py) issues when the handler       *)
(* returns.  A handler that raises is rolled back instead, and so is one   *)
(* that loses its worker or its connection.  Redis is never rolled back.   *)
(*                                                                         *)
(* A definition introduced by "Mutation" is a plausible mistake in the     *)
(* definition that follows it; no specification uses it.                   *)
(*                                                                         *)
(* What is not modelled: the rate limit, which only spaces out one role's  *)
(* requests (two of them overlap when the first is slow, and deploying an  *)
(* escrow is), the audit log (AuditChain) and the clock but for timeout_at.*)
(***************************************************************************)
EXTENDS DanpRules, Sequences, FiniteSets

CONSTANTS
    Clients,    \* slots for concurrent requests
    Free,       \* an unlocked row
    Missing,    \* an absent session record
    Requests,   \* the envelopes clients submit
    Keys,       \* the Redis keys that may vanish: TTL, or eviction under allkeys-lru
    MaxOffers,  \* bound: no request starts once the offers table has this many rows
    MaxFails,   \* bound: a role stops once it has this many failures
    MaxFaults,  \* bound: vanished keys and aborted requests together
    MayAbort,   \* whether requests may be aborted
    MayExpire   \* whether timeout_at may pass

RedisKeys == {<<"session">>, <<"stall">>} \cup ({"valuation", "failures"} \X Roles)

ASSUME StoreAssumption ==
    /\ Free \notin Clients
    /\ Missing \notin SessionRecord
    /\ Requests \subseteq Envelope
    /\ Nobody \notin Requests /\ Nobody \notin TerminalStates
    /\ Keys \subseteq RedisKeys
    /\ {MaxOffers, MaxFails, MaxFaults} \subseteq Nat
    /\ {MayAbort, MayExpire} \subseteq BOOLEAN

VARIABLES
    row,        \* the committed negotiations row
    offers,     \* the committed offers, oldest first
    escrow,     \* whether an escrow_contracts row is committed
    lock,       \* who holds the lock of the negotiations row
    chain,      \* applications deployed on chain for this session
    record,     \* session:{id}
    fails,      \* failures:{id}:{role}
    stall,      \* stall:{id}
    valuation,  \* the roles whose valuation:{id}:{role} is present
    expired,    \* whether timeout_at has passed
    req,        \* what each client's request is doing
    blocks,     \* history: guardrail blocks of each role since its last success
    faults      \* faults so far, counted for their bound

redis == <<record, fails, stall, valuation>>
postgres == <<row, offers, escrow, lock>>
vars == <<row, offers, escrow, lock, chain, record, fails, stall, valuation, expired, req,
          blocks, faults>>

-------------------------------------------------------------------------------
(* Where a request can be waiting.                                          *)
Places ==
    {"idle", "load", "miss", "refill", "wrong", "guard", "blocked", "stall", "write",
     "escrow", "publish", "reset", "commit", "end", "endread", "endset", "rollback"}

(* ... and where it can do so with the lock of the row.                     *)
Holding == {"escrow", "publish", "reset", "commit", "endread", "endset"}

Idle == [at |-> "idle", act |-> Nobody, seen |-> Missing, stalls |-> 0, before |-> 0,
         deployed |-> FALSE, ending |-> Nobody]

RequestState ==
    {r \in [at : Places, act : Requests \cup {Nobody}, seen : SessionRecord \cup {Missing},
            stalls : Nat, before : Nat, deployed : BOOLEAN,
            ending : {Nobody, "TIMEOUT", "POLICY_BREACH"}] :
        /\ r.at # "idle" => r.act \in Requests
        /\ r.at \notin {"idle", "load", "miss"} => r.seen \in SessionRecord
        /\ r.at \in {"end", "endread", "endset"} => r.ending \in {"TIMEOUT", "POLICY_BREACH"}}

TypeOK ==
    /\ row \in [status : ActiveStates \cup TerminalStates, round : Nat,
                lastOffer : [Roles -> MaybePrice], agreed : MaybePrice]
    /\ offers \in Seq(OfferRow)
    /\ escrow \in BOOLEAN
    /\ lock \in Clients \cup {Free}
    /\ chain \in Nat
    /\ record \in SessionRecord \cup {Missing}
    /\ fails \in [Roles -> Nat] /\ stall \in Nat /\ blocks \in [Roles -> Nat]
    /\ valuation \subseteq Roles
    /\ expired \in BOOLEAN
    /\ faults \in 0 .. MaxFaults
    /\ req \in [Clients -> RequestState]

Init ==
    /\ \E opening \in Prices :
          /\ ValidOpening(opening)
          /\ record = Opened(opening)
          /\ row = [status |-> "BUYER_ANCHOR", round |-> 1,
                    lastOffer |-> Opened(opening).lastOffer, agreed |-> NoOffer]
          /\ offers = <<[role |-> "buyer", kind |-> "counter", price |-> opening]>>
    /\ escrow = FALSE /\ lock = Free /\ chain = 0
    /\ fails = [r \in Roles |-> 0] /\ stall = 0 /\ valuation = Roles
    /\ blocks = [r \in Roles |-> 0]
    /\ expired = FALSE
    /\ req = [c \in Clients |-> Idle]
    /\ faults = 0

(* Mutation: a rebuilt session always starts a new round.                   *)
RebuiltNextRound ==
    LET next == IF row.status = "BUYER_ANCHOR" THEN "seller" ELSE "buyer"
    IN  [status |-> row.status, round |-> row.round + 1, lastOffer |-> row.lastOffer,
         lastActor |-> Other(next), expectedTurn |-> next]

(* rebuild_from_postgres.  The row does not know who moved last.            *)
Rebuilt ==
    LET next == IF row.status = "BUYER_ANCHOR" THEN "seller" ELSE "buyer"
    IN  [status |-> row.status, round |-> row.round, lastOffer |-> row.lastOffer,
         lastActor |-> Other(next), expectedTurn |-> next]

(* STEPS 3 to 6 run without an await, on the record s just read.            *)
Checked(r, s) ==
    CASE s.status \in TerminalStates              -> Idle
      [] s.status \in ActiveStates /\ expired     -> [r EXCEPT !.at = "end", !.seen = s,
                                                               !.ending = "TIMEOUT"]
      [] s.status \in ActiveStates /\ ~expired /\ r.act.role # TurnOf(s) -> Idle
      [] OTHER -> [r EXCEPT !.at = IF ValidRound(s, r.act) THEN "guard" ELSE "wrong",
                            !.seen = s]

Go(c, place) == req' = [req EXCEPT ![c].at = place]

Leave(c) == req' = [req EXCEPT ![c] = Idle]

At(c, place) == req[c].at = place

(* Mutation: the lock outlives the transaction.                             *)
UnlockForgotten(c) == UNCHANGED lock

(* The end of a transaction, committed or rolled back.                      *)
Unlock(c) == lock' = IF lock = c THEN Free ELSE lock

-------------------------------------------------------------------------------
(* A request arrives.                                                       *)
Arrive(c, a) ==
    /\ At(c, "idle")
    /\ Len(offers) < MaxOffers
    /\ fails[a.role] < MaxFails
    /\ req' = [req EXCEPT ![c] = [Idle EXCEPT !.at = "load", !.act = a]]
    /\ UNCHANGED <<postgres, chain, redis, expired, blocks, faults>>

(* STEP 2: the record is in Redis.                                          *)
Load(c) ==
    /\ At(c, "load")
    /\ req' = [req EXCEPT ![c] = IF record = Missing THEN [@ EXCEPT !.at = "miss"]
                                 ELSE Checked(@, record)]
    /\ UNCHANGED <<postgres, chain, redis, expired, blocks, faults>>

(* STEP 2: it is not, so the row is read ...                                *)
ReadRow(c) ==
    /\ At(c, "miss")
    /\ req' = [req EXCEPT ![c].at = "refill", ![c].seen = Rebuilt]
    /\ UNCHANGED <<postgres, chain, redis, expired, blocks, faults>>

(* ... and written to Redis, without a look at what is there by now.        *)
Refill(c) ==
    /\ At(c, "refill")
    /\ record' = req[c].seen
    /\ req' = [req EXCEPT ![c] = Checked(@, @.seen)]
    /\ UNCHANGED <<postgres, chain, fails, stall, valuation, expired, blocks, faults>>

(* STEP 6 with an invalid round number.                                     *)
WrongRound(c) ==
    /\ At(c, "wrong")
    /\ fails' = [fails EXCEPT ![req[c].act.role] = @ + 1]
    /\ Go(c, "rollback")
    /\ UNCHANGED <<postgres, chain, record, stall, valuation, expired, blocks, faults>>

(* Mutation: an accept is judged by its own, empty, offer_value.            *)
GuardedOwn(c) ==
    req[c].act.role \in valuation /\ Breaches(req[c].seen, [req[c].act EXCEPT !.kind = "counter"])

(* The guardrails judge the copy, and only when the snapshot is present.    *)
Guarded(c) == req[c].act.role \in valuation /\ Breaches(req[c].seen, req[c].act)

(* STEPS 7 to 9: the offer row is added to the transaction.                 *)
Guard(c) ==
    /\ At(c, "guard")
    /\ Go(c, CASE Guarded(c) -> "blocked"
               [] ~Guarded(c) /\ req[c].act.kind = "counter"
                              /\ StallChecked(req[c].seen, req[c].act) -> "stall"
               [] OTHER -> "write")
    /\ UNCHANGED <<postgres, chain, redis, expired, blocks, faults>>

(* GuardrailEngine.enforce on a block; its log row is rolled back.          *)
CountBlock(c) ==
    LET role == req[c].act.role
    IN  /\ At(c, "blocked")
        /\ fails' = [fails EXCEPT ![role] = @ + 1]
        /\ blocks' = [blocks EXCEPT ![role] = @ + 1]
        /\ req' = [req EXCEPT ![c] = IF StrikesOut(fails'[role])
                                     THEN [@ EXCEPT !.at = "end", !.ending = "POLICY_BREACH"]
                                     ELSE [@ EXCEPT !.at = "rollback"]]
        /\ UNCHANGED <<postgres, chain, record, stall, valuation, expired, faults>>

(* STEP 11 of a counter: update_stall_counter.                              *)
CountStall(c) ==
    /\ At(c, "stall")
    /\ stall' = StallCount(req[c].seen, req[c].act, stall)
    /\ req' = [req EXCEPT ![c].at = "write", ![c].stalls = stall', ![c].before = stall]
    /\ UNCHANGED <<postgres, chain, record, fails, valuation, expired, blocks, faults>>

(* Mutation: the row is written without taking its lock.                    *)
WriteUnlocked(c) ==
    /\ At(c, "write")
    /\ Go(c, IF req[c].act.kind = "accept" THEN "escrow" ELSE "publish")
    /\ UNCHANGED <<postgres, chain, redis, expired, blocks, faults>>

(* The UPDATE of the row waits for its lock.  Nothing is compared with what *)
(* the row holds.                                                           *)
Write(c) ==
    /\ At(c, "write")
    /\ lock = Free
    /\ lock' = c
    /\ Go(c, IF req[c].act.kind = "accept" THEN "escrow" ELSE "publish")
    /\ UNCHANGED <<row, offers, escrow, chain, redis, expired, blocks, faults>>

(* Mutation: the idempotency check is missing.                              *)
DeployableAlways == TRUE

(* trigger_escrow's idempotency check.                                      *)
Deployable == ~escrow

(* trigger_escrow: deploys on chain and adds the escrow row, unless a       *)
(* committed row exists, no wallet is known or the deployment fails.        *)
TriggerEscrow(c) ==
    /\ At(c, "escrow")
    /\ \E deployed \in BOOLEAN :
          /\ deployed => Deployable
          /\ chain' = IF deployed THEN chain + 1 ELSE chain
          /\ req' = [req EXCEPT ![c].at = "publish", ![c].deployed = deployed]
    /\ UNCHANGED <<postgres, redis, expired, blocks, faults>>

Written(c) == Moved(req[c].seen, req[c].act, req[c].stalls)

(* STEP 12, Redis: the copy, moved on, replaces the record.                 *)
Publish(c) ==
    /\ At(c, "publish")
    /\ record' = Written(c)
    /\ Go(c, "reset")
    /\ UNCHANGED <<postgres, chain, fails, stall, valuation, expired, blocks, faults>>

(* Mutation: the failures of the other party are forgotten.                 *)
ResetOther(c) ==
    /\ At(c, "reset")
    /\ fails' = [fails EXCEPT ![Other(req[c].act.role)] = 0]
    /\ blocks' = [blocks EXCEPT ![req[c].act.role] = 0]
    /\ Go(c, "commit")
    /\ UNCHANGED <<postgres, chain, record, stall, valuation, expired, faults>>

(* reset_failure_count, the last thing a successful action does.            *)
ResetFailures(c) ==
    /\ At(c, "reset")
    /\ fails' = [fails EXCEPT ![req[c].act.role] = 0]
    /\ blocks' = [blocks EXCEPT ![req[c].act.role] = 0]
    /\ Go(c, "commit")
    /\ UNCHANGED <<postgres, chain, record, stall, valuation, expired, faults>>

(* get_db commits: the row's columns the action named, the offer, the       *)
(* escrow row.                                                              *)
Commit(c) ==
    LET a == req[c].act
    IN  /\ At(c, "commit")
        /\ row' = [status    |-> Written(c).status,
                   round     |-> Written(c).round,
                   lastOffer |-> IF a.price = NoOffer THEN row.lastOffer
                                 ELSE [row.lastOffer EXCEPT ![a.role] = a.price],
                   agreed    |-> IF a.kind = "accept" THEN ClosingPrice(req[c].seen, a)
                                 ELSE row.agreed]
        /\ offers' = Append(offers, RowOf(a))
        /\ escrow' = (escrow \/ req[c].deployed)
        /\ Unlock(c)
        /\ Leave(c)
        /\ UNCHANGED <<chain, redis, expired, blocks, faults>>

(* _transition_to_terminal: the UPDATE takes the lock, ...                  *)
EndWrite(c) ==
    /\ At(c, "end")
    /\ lock = Free
    /\ lock' = c
    /\ Go(c, "endread")
    /\ UNCHANGED <<row, offers, escrow, chain, redis, expired, blocks, faults>>

(* ... the record is read again, ...                                        *)
EndRead(c) ==
    /\ At(c, "endread")
    /\ req' = [req EXCEPT ![c] = IF record = Missing THEN [@ EXCEPT !.at = "rollback"]
                                 ELSE [@ EXCEPT !.at = "endset", !.seen = record]]
    /\ UNCHANGED <<postgres, chain, redis, expired, blocks, faults>>

(* ... and written back with the terminal status.                           *)
EndSet(c) ==
    /\ At(c, "endset")
    /\ record' = Ended(req[c].seen, req[c].ending)
    /\ Go(c, "rollback")
    /\ UNCHANGED <<postgres, chain, fails, stall, valuation, expired, blocks, faults>>

(* Every handler that raises its 409 or 422 is rolled back by get_db, the   *)
(* terminal status it wrote to the row included.                            *)
Rollback(c) ==
    /\ At(c, "rollback")
    /\ Leave(c)
    /\ Unlock(c)
    /\ UNCHANGED <<row, offers, escrow, chain, redis, expired, blocks, faults>>

(* The transaction is lost: the worker dies or the connection breaks.       *)
Abort(c) ==
    /\ MayAbort /\ faults < MaxFaults
    /\ ~At(c, "idle")
    /\ Leave(c)
    /\ Unlock(c)
    /\ faults' = faults + 1
    /\ UNCHANGED <<row, offers, escrow, chain, redis, expired, blocks>>

(* A Redis key expires or is evicted.                                       *)
Vanish(key) ==
    /\ faults < MaxFaults
    /\ faults' = faults + 1
    /\ record' = IF key = <<"session">> THEN Missing ELSE record
    /\ stall' = IF key = <<"stall">> THEN 0 ELSE stall
    /\ fails' = [r \in Roles |-> IF key = <<"failures", r>> THEN 0 ELSE fails[r]]
    /\ valuation' = {r \in valuation : key # <<"valuation", r>>}
    /\ redis' # redis
    /\ UNCHANGED <<postgres, chain, expired, req, blocks>>

PassDeadline ==
    /\ MayExpire /\ ~expired
    /\ expired' = TRUE
    /\ UNCHANGED <<postgres, chain, redis, req, blocks, faults>>

Advance(c) ==
    \/ Load(c) \/ ReadRow(c) \/ Refill(c) \/ WrongRound(c)
    \/ Guard(c) \/ CountBlock(c) \/ CountStall(c)
    \/ Write(c) \/ TriggerEscrow(c) \/ Publish(c) \/ ResetFailures(c) \/ Commit(c)
    \/ EndWrite(c) \/ EndRead(c) \/ EndSet(c) \/ Rollback(c)

Next ==
    \/ \E c \in Clients, a \in Requests : Arrive(c, a)
    \/ \E c \in Clients : Advance(c) \/ Abort(c)
    \/ \E key \in Keys : Vanish(key)
    \/ PassDeadline

Spec == Init /\ [][Next]_vars

(* Every await of a request returns: the event loop, Redis and PostgreSQL   *)
(* answer, and a released row lock goes to a waiter.                        *)
FairSpec == Spec /\ \A c \in Clients : WF_vars(Advance(c))

-------------------------------------------------------------------------------
Quiet == \A c \in Clients : At(c, "idle")

(* Whoever is between its UPDATE of the row and the end of its transaction  *)
(* holds the row's lock, and nobody holds it longer: deployment, Redis      *)
(* write and commit of two requests never overlap.                          *)
LockHeld ==
    \A c \in Clients :
        /\ req[c].at \in Holding => lock = c
        /\ lock = c => req[c].at \in Holding \cup {"rollback"}

(* When no request is under way Redis and PostgreSQL agree on the status    *)
(* and the round, however the requests interleaved: Redis is written under  *)
(* the row's lock, so both see the same last writer.  Only the ends that    *)
(* get_db rolls back are known to Redis alone.                              *)
StoresAgree ==
    Quiet /\ record # Missing =>
        \/ record.status \in {"TIMEOUT", "POLICY_BREACH"}
        \/ record.status = row.status /\ record.round = row.round

(* Of one session at most one escrow application is deployed, although the  *)
(* chain is written before the row that says so is committed: two accepts   *)
(* meet at the row's lock (trigger_escrow is called idempotent).            *)
OneEscrow == chain <= 1

(* A price somebody agreed to was on the table: an offer the other party    *)
(* had made and PostgreSQL holds, committed before the accept.              *)
DealOnTable ==
    row.agreed # NoOffer =>
        \E j \in DOMAIN offers : \E i \in 1 .. j - 1 :
            /\ offers[j].kind = "accept"
            /\ offers[i].role = Other(offers[j].role)
            /\ offers[i].price = row.agreed

(* No interleaving, rebuild or lost transaction lets a deal close outside   *)
(* the parties' limits (the guardrails cannot be bypassed).                 *)
DealIsFair == row.agreed # NoOffer => Floor <= row.agreed /\ row.agreed <= Ceiling

(* With one request at a time a record rebuilt from PostgreSQL is the one   *)
(* that was lost, but for the turn in ROUND_LOOP after the buyer moved.     *)
RebuildFaithful ==
    Quiet /\ record # Missing /\ record.status \in ActiveStates =>
        /\ Rebuilt.status = record.status
        /\ Rebuilt.round = record.round
        /\ Rebuilt.lastOffer = record.lastOffer
        /\ \/ TurnOf(Rebuilt) = TurnOf(record)
           \/ record.status = "ROUND_LOOP" /\ record.lastActor = "buyer"

(* Every request is answered: the one lock of the row cannot be left behind *)
(* nor waited for in a circle, whatever is aborted or evicted.              *)
EveryRequestReturns == \A c \in Clients : ~At(c, "idle") ~> At(c, "idle")

-------------------------------------------------------------------------------
(* One request at a time, nothing lost: the store does what DanpFsm does in *)
(* single steps.  An action happens when it publishes its record, a failure *)
(* when it is counted, except that a third block happens when POLICY_BREACH *)
(* is published; a deadline that passes meanwhile is seen afterwards.       *)
Only == CHOOSE c \in Clients : TRUE

Breaching == req[Only].ending = "POLICY_BREACH" /\ req[Only].at \in {"end", "endread", "endset"}

Published == req[Only].at \in {"reset", "commit"}

Counted(counts) ==
    [r \in Roles |-> IF req[Only].act = Nobody THEN counts[r]
                     ELSE IF r # req[Only].act.role THEN counts[r]
                     ELSE IF Breaching THEN counts[r] - 1
                     ELSE IF req[Only].at = "reset" THEN 0 ELSE counts[r]]

StallCounted ==
    /\ req[Only].at \in {"write", "publish"}
    /\ req[Only].act.kind = "counter"
    /\ StallChecked(req[Only].seen, req[Only].act)

Fsm == INSTANCE DanpFsm WITH
    MaxYields <- MaxOffers,
    session <- record,
    fails   <- Counted(fails),
    blocks  <- Counted(blocks),
    stall   <- IF StallCounted THEN req[Only].before ELSE stall,
    offers  <- IF Published THEN Append(offers, RowOf(req[Only].act)) ELSE offers,
    agreed  <- IF Published /\ req[Only].act.kind = "accept"
               THEN ClosingPrice(req[Only].seen, req[Only].act) ELSE row.agreed,
    expired <- /\ expired
               /\ req[Only].at \in {"idle", "load", "miss", "refill"} \/ req[Only].ending = "TIMEOUT"

FsmSpec == Fsm!Spec
===============================================================================
