# Cadencia in TLA+

Cadencia (`src/A-TOA/a2a-treasury`) lets a buyer's and a seller's agent negotiate a
price under the DANP protocol, checks every action against both parties' limits, and
when they agree deploys an escrow on Algorand.  This directory holds TLA+ models of the
parts that decide whether that works, TLC configurations that check them on small
instances, and TLAPS proofs for all instances.  Paths below are relative to
`src/A-TOA/a2a-treasury`.

## The system

| component | code | state it keeps | operations |
|---|---|---|---|
| DANP state machine | `core/state_machine.py` | the session record, the `negotiations` row, the `offers` rows | `create_session`, `process_action` (counter, accept, reject, timeout_yield), `_transition_to_terminal` |
| guardrails | `core/guardrails.py` | a failure counter per role | `validate_action`, `enforce` |
| session store | `db/redis_client.py`, `db/database.py` | Redis: record, counters, valuation snapshots, task records; PostgreSQL: everything else | get/set, `rebuild_from_postgres`, one transaction per request (`get_db`) |
| autonomous engine | `agents/neutral_agent.py`, `agents/pipeline.py` | its loop, a database session that caches the row | `run_negotiation`, `run_agent_turn` |
| task manager | `a2a_protocol/task_manager.py` | task records in Redis | submit, complete, fail, `route_offer` |
| escrow manager | `blockchain/escrow_manager.py`, `escrow_contract.py` | `escrow_contracts`, `settlements`; an application on chain | trigger, fund, release, refund |
| escrow contract | `blockchain/contracts/` | PENDING, FUNDED, RELEASED, REFUNDED, DISPUTED and the money | create, init, fund, release, refund, dispute, delete |
| audit log | `db/audit_logger.py` | a hash chain of rows | append, verify, export |
| Merkle root, anchor | `core/merkle.py`, `merkle_service.py`, `anchor_service.py` | `negotiations.merkle_root`, a transaction | root, proof, verify, anchor |
| multi-party | `agents/multi_party_session.py` | a parent row and 2 to 5 child sessions | create, run, leaderboard |
| strategy, valuation, flexibility | `core/strategy.py`, `valuation.py`, `flexibility_tracker.py` | a frozen snapshot per role | the next offer, accept or reject |
| contract client | `blockchain/contract_client.py`, `contracts/deploy.py` | none | deploy, fund, release, refund, dispute, status: sequences of transactions |
| LLM advisor | `core/llm_reasoning.py` | failures in a row and open circuits, per session and process | classify the opponent |
| accounts and enterprises | `api/routes/enterprises.py`, `auth.py`, `demo.py` | `enterprises`, `users`, `wallets`, `agent_configs`, `treasury_policies` | register, verify, activate, configure, provision a demo |
| opening | `api/routes/sessions.py`, `agents/multi_party_session.py` | `negotiations`, an hourly counter in Redis | open a session, or several at once |
| handshake | `api/routes/handshake.py`, `framework/interfaces` | `capability_handshakes` | compare cards |
| FX, compliance | `core/fx_engine.py`, `compliance/` | quotes, records | lock a rate, classify |
| x402, webhooks, registry, SaaS, UI | `core/x402_handler.py`, `webhook_notifier.py`, `api/`, `dashboard/`, `a2a-treasury-ui` | deliveries, cards, API keys | CRUD |

The routes call the state machine inside one PostgreSQL transaction per request.  The
state machine reads and writes Redis on the way and calls the escrow manager on an
accept.  The engine is one long background task per autonomous session; it calls the
pipeline, the pipeline calls the guardrails and then, through the task manager,
`process_action`.  All workers share the two stores and the chain, nothing else.

What is hard about it:

* the record lives twice, in Redis and PostgreSQL, only one of them is transactional,
  and the code decides on a copy read before it holds any lock;
* the chain is a third store, and a deployment cannot be rolled back;
* a handler that ends a session raises an HTTP error, and an error rolls back;
* turns, rounds, the round limit and the stall counter are tracked by hand in several
  fields that must agree, with a special case in each protocol state;
* Redis entries expire or are evicted, and are rebuilt from a row that knows less;
* the engine judges a state, waits for an LLM, and acts on a state that others moved,
  and its own UPDATEs trust a row it read before;
* the audit log is a chain that several transactions extend at once, and its root is
  stored and anchored while they do;
* the children of a multi-party session share one database session, so that one's
  rollback is everybody's;
* the client of the contract gives up transactions that may still be executed;
* the routes that prepare an enterprise read, decide and write without a lock;
* the production image runs four workers (`Dockerfile:20`), so two requests for one
  session or one escrow overlap for real.

What makes the core correct: a deal closes only inside both parties' limits and at the
offer that was on the table; a session is decided once; nobody moves twice running;
the round budget ends every session; three guardrail blocks end it; both stores tell
the same story; a deal has one escrow and an escrow has a deal; the escrow holds
exactly the agreed amount and pays it out once; the escrow's row never claims what the
chain has not done; every request returns and the engine stops.  Around the core: an
audit log that was written one at a time verifies, and one that verifies is complete;
an anchor that is named exists; the best seller wins and no escrow is left unexplained;
a strategy stays inside its own limits; a method of the client that returned has done
what it says; and a session has parties that can trade.

## The modules

| module | models | composed of |
|---|---|---|
| `DanpRules` | the pure part of `process_action`: envelope, record, whose turn, valid round, limits, stall, what each action does to the record | |
| `NegotiationOutcome` | the abstract promise: a session is open, then decided once, for good, at a fair price or none | |
| `DanpFsm` | one session, one call at a time, one action per outcome of `process_action` | `DanpRules`; implements `NegotiationOutcome` |
| `SessionStore` | the same calls taken apart at their awaits: PostgreSQL row, lock and transaction, Redis, chain, overlapping requests, lost transactions, vanished keys, `rebuild_from_postgres` | `DanpRules`; implements `DanpFsm` |
| `NegotiationEngine` | `run_negotiation` alone on its session, with the pipeline's open choice, its retries and exits | `DanpRules`; implements `NegotiationOutcome` |
| `SharedSession` | the engine beside API clients: its calls are requests of the store, its own reads and writes steps between them | `SessionStore` |
| `EscrowPromise` | the abstract promise of an escrow: terms, then the agreed amount held, then one payout or a freeze | |
| `TreasuryEscrow` | the contract `treasury_escrow.py` and the USDC it moves, called by anybody | implements `EscrowPromise` |
| `ContractClient` | the client's methods as sequences of transactions on the contract, refused, given up or executed late, beside anybody's direct calls | `TreasuryEscrow`, which it implements |
| `EscrowLifecycle` | the escrow row, the application that is deployed (`escrow_approval.teal`), and overlapping fund, release and refund requests | |
| `MerkleTree` | root, proof and verification of `core/merkle.py`, over symbolic hashes | |
| `AuditTrail` | appends in overlapping transactions, verification and transcript, the stored root and its anchor | `MerkleTree` |
| `Strategy` | valuation, flexibility, the next offer, accept and reject, over integers | |
| `MultiParty` | child sessions played out by strategies and a failing advisor in one database session, await by await, and the choice of the winner | `DanpRules`, `Strategy` |
| `Onboarding` | how an enterprise gets a status, card, wallet, configuration and policy, by overlapping requests | |
| `SessionOpening` | hourly budget, validation, rate lock and compliance check of an opening, of one session or of several at once | `Onboarding` |
| `DanpFsmProofs`, `SessionStoreProofs`, `NegotiationEngineProofs`, `ContractClientProofs`, `EscrowLifecycleProofs`, `SessionOpeningProofs`, `AuditTrailProofs`, `MultiPartyProofs` | the proofs | each extends the module it is named after, `SessionStoreProofs` also `SharedSession`, which extends `SessionStore` |
| `MCDanpFsm`, `MCSessionStore`, `MCNegotiationEngine`, `MCSharedSession`, `MCContractClient`, `MCEscrowLifecycle`, `MCAuditTrail`, `MCMultiParty`, `MCSessionOpening` | the instances TLC checks | |

### DanpRules and DanpFsm

A *session record* is the JSON object in `session:{id}`: `status`, `round`
(`current_round`), `lastOffer` (`last_buyer_offer`, `last_seller_offer`), `lastActor`,
`expectedTurn`.  An *envelope* is an `AgentActionEnvelope`: role, kind, round, price,
where a counter may lack its price because the schema's default is not validated.
Prices are integers; the floor and ceiling are the seller's `reservation_price` and the
buyer's `budget_ceiling`, the exposure the agent's `max_exposure`.  Two offers are less
than 0.2% apart if `1000 * |a - b| < 2 * a`.

`process_action` is the action `Submit(a)`: a wrong turn or a terminal session changes
nothing; otherwise it is one of `TimeOut`, `WrongRound`, `Blocked`, `Accept`, `Reject`,
`Counter`, `Yield`, in the order of the code's STEPS 3 to 12.  `offers` is the offers
table, `fails` and `stall` the Redis counters, `agreed` the final price, and `blocks`
a history variable that counts guardrail blocks only.

### SessionStore

A request of a client walks through the places `load`, `miss`, `refill` (rebuild),
`guard`, `blocked`, `wrong`, `stall`, `write`, `escrow`, `publish`, `reset`, `commit`,
and on its way to TIMEOUT or POLICY_BREACH `end`, `endread`, `endset`, `rollback`; each
step is the code between two awaits that another worker's step could separate.  `row`,
`offers` and `escrow` hold committed data; what a transaction has written and not
committed is in its request.  The first UPDATE takes `lock` and the end of the
transaction frees it.  `chain` counts deployed applications.  `Abort` loses a
transaction (worker or connection gone) at any place, `Vanish` removes a Redis key.

### NegotiationEngine and SharedSession

In `NegotiationEngine` the engine is at the top of its loop, about to choose for a party (`turn`), about to
route its choice (`route`), past the loop (`settle`), or gone.  `known` is the status
its database session has cached: the session factory sets `expire_on_commit=False`,
so only a rollback makes it read again.  The strategy and the LLM are any choice the
pipeline could make.  A `process_action` call is one step, which is sound because the
engine is alone there: one request at a time behaves as if it were one step (`FsmSpec`).

`SharedSession` puts clients beside it, and there nothing is one step that has an await
in it.  The engine's call of `process_action` is a request in the slot `Runner` of
`SessionStore` and walks through the same places as everybody's (`Route`).  The breach
branch reads the row (`BreachRead`) and writes it (`BreachSet`) in two steps, the lookup
branch tests its cached row (`LookupFails`) and writes (`LookupSet`), and the trigger after
the loop asks the cached row (`Recall`), looks for the escrow row (`Check`), deploys
(`Deploy`) and commits (`Keep`).  `missed` is a history variable: an accept's own trigger
deployed nothing although it should have.

### TreasuryEscrow

One action per method of the ARC-4 contract, with every assertion of the method as a
guard; a method that fails changes nothing and is no step.  `terms` are the contract's
address and amount fields, `usdc` is who holds how much, and `box` is a history
variable: what `fund` brought in and no payout has taken out.  `Payment` ranges over
what the transaction in the group may be, the wrong asset, receiver and amount
included.  `Donate` is USDC sent past the contract.  `EscrowPromise` sees only `phase`,
`terms` and `box`.  `Agreements` are the terms the creator may set.

### ContractClient

A call (`jobs`) is at one transaction of its method's list (`Transactions`): about to be
sent, with the account it names read from the application just before (`Send`);
sent; given up by a client that raised (`left`), from where it may still `Land`; or
returned or raised.  `Effect` is what the contract's own action does, under the AVM's
rule that an inner transfer reaches only the sender and the accounts named with the
call.  `CallDirectly` is any step of `TreasuryEscrow` beside the client.

### EscrowLifecycle

`app` is the deployed program's global state and `row` the `escrow_contracts` row.  The
program that is deployed is not `treasury_escrow.py` but the hand-kept
`escrow_approval.teal`, which checks callers and states, asks `fund` for no payment and
moves no money on release and refund; `paid` counts the agreed amounts that came in a
group with `fund`: one with the manager's (`Payments`), one or none with the buyer's own.  A request of a client
(`req`) reads the row (`Request`), has its transaction refused or confirmed (`Refuse`,
`Confirm`), and commits (`Commit`).  A request that stops waiting (`GiveUp`) leaves its
transaction in `floating`, where it may still land; a worker may be lost before the
commit (`Abort`); the parties may fund, release and dispute by calling the program themselves (`CallItself`).
The model begins with an application that was created with enough room for its state;
the schema of `EscrowContract.deploy` has too little (see "Known divergences").

### MerkleTree and AuditTrail

A hash is the tuple of what it was computed from, which is SHA-256 without collisions.
An audit entry is its timestamp, what it is about and the entry it chains to.  A worker
runs a program: `read` is the SELECT of the latest committed entry, the names of
entries are the INSERTs that follow it, and `commit` makes them visible.  A request's
program has one or two appends in one transaction; an engine's has the root and the
anchor in it, each in a transaction of its own, as `run_negotiation` commits them.
`Fail` rolls the open transaction back; the engine's program stops there.
`overlapped` is a history variable: two transactions had both read the end of the log.

### Strategy and MultiParty

Prices are tenths of a cent, so that rounding to cents can be seen to pass a limit; the
curve's and the advisor's ratios are whole percents.  `NextOffer` follows the six steps
of `compute_next_offer`.  In `MultiParty` each child has a record in Redis (`rec`), a
committed row (`row`) and the row as the shared database session sees it (`work`); an
engine's turn reads the record, asks the advisor, chooses by `Choice`, and is blocked
(`BlockedTurn`) or taken: the offer and a deal's row (`TakeTurn`), the deployment
(`TriggerEscrow`), STEP 12's row (`WriteRow`), Redis (`Publish`) and the commit (`Commit`)
are steps of their own, and between any two of them another child's engine may commit all
of `work`, or a clash of two users of the session (`Clash`) may end the turn where it is.
The rollback that follows loses all of `work`: `lost` remembers whose turn was lost or
broken off, `strays` counts the applications whose escrow row went with it.  `Conclude`
picks the winner from the rows and turns the others into losers, in PostgreSQL only.
`Answered` is what a turn leaves in its row, `Listed` the order of the leaderboard, and
`Blockable` the configurations that let a strategy run into its own guardrails.

### Onboarding and SessionOpening

An enterprise stands for its administrator's email, which is unique.  A request notes
what it read (`Begin`) and writes later; what PostgreSQL would refuse (a second wallet or
configuration) or loses is `Fail`.  `PolicyReplaced` is an UPDATE under READ COMMITTED:
it deactivates the policies it saw.  `Admit` counts and validates an opening, `Open`
commits it, possibly in the next hour.  `AdmitMulti`, `NextSeller` and `OpenMulti` are
`POST /sessions/multi`: each seller is validated in turn, no budget is asked, all children
are committed together; `multi` tells them from the others.  `Handed`, `Quotes` and
`Locked` follow the Redis object that `create_session` passes on to the FX engine.

## The runs

Every cfg says CHECK_DEADLOCK FALSE: a decided session and a settled escrow are meant to
rest, and the bounds stop new requests.  That a request itself never gets stuck is
`EveryRequestReturns`.

| run | what it checks | instance |
|---|---|---|
| `fsm` | `AgreedPriceIsFair`; `RecordMatchesOffers` (the record is a function of the offers table); `RoundBudget`; `Alternation`; `TurnsAgree` (advertised and enforced turn); `StalledIsThreeSmallMoves`; `ThreeBlocksEnd`; refinement of `NegotiationOutcome` | 5 prices (0, one below the floor, two 0.1% apart, one above the ceiling), 5 rounds, at most 2 failures per role before it stops and 3 yields |
| `store_seq` | refinement of `DanpFsm` (`FsmSpec`), and `RebuildFaithful`: what the row gives back after the loss of the record | one client, every envelope for rounds 2 and 3, 4 rounds, 5 offers |
| `store_conc` | `LockHeld`, `StoresAgree`, `OneEscrow`, `DealOnTable` | two clients, deadline may pass, no faults |
| `store_faults` | `DealIsFair` and `EveryRequestReturns` under lost transactions and an evicted record | two clients, one fault, 3 offers, fairness below |
| `engine` | refinement of `NegotiationOutcome`, `EngineStops` | engine alone, failing turns, failing configuration lookups, deadline, 7 iterations |
| `engine_clients` | `EscrowMeansDeal`, `OneEscrowEach`, `EngineReturns` | the engine beside one client that sends any priced counter, accept or reject for rounds 1 and 2, every await of both a step, 2 iterations, 3 offers, deadline, failing turns, lookups and deployments |
| `escrow_client` | `Backed`, `ReturnedIsDone`, refinement of `EscrowPromise` (`PromiseSpec`) | two calls of the client, three accounts, two with USDC, three sets of terms |
| `escrow_lifecycle` | `RowNeverAhead`, `SettledOnce`, `PaidOnce`, `RowAgrees` | three clients, two faults or calls of the parties' own, the buyer's fund with and without a payment among them |
| `audit` | `SequentialIsValid`, `ValidIsComplete`, `RootCoversPrefix`, `AnchorIsReal`, `LeavesProvable` | two workers, 4 entries, two engines, one failure, trees of up to 9 leaves |
| `multi` | `WinnerIsBest`, `EscrowsExplained`, `BlockedForAReason`, `AdviceBounded`, `CircuitIsFinal` | two children, each with one of two kinds of sellers, 3 rounds, an advisor that fails or recommends 50%, one fault, which may fall between any two steps of a turn |
| `opening` | `HourlyBudget`, `PartiesReady` | two enterprises, two overlapping requests, three sessions, a budget of one session in each of two hours, multi-party openings with two sellers |

Types are proved rather than checked where there are proofs (below).

The bounds are enough for what they are for.  Five rounds reach ROUND_LOOP with a full
cycle behind it, ROUND_LIMIT, and four small moves in a row, one more than STALLED
needs; an evaluation that stalls a move late or early differs within them.  Three
failures reach POLICY_BREACH.  Two clients give every pair of overlapping requests,
which is the pattern of the lock, of the stale copy and of double deployment; a third
request would wait for the same lock.  Seven iterations let the engine negotiate to each
ending with a failed turn in between.  Three escrow clients let a refund overtake a
funding while a third request repeats one of them; each operation can be confirmed
once, so more of them are only refused.  Two calls of the client let one be executed
late or settle the contract between another's reading and execution, and three sets of
terms let the receiver, the amount and the roles change under it.  Four entries hold a
fork of the chain with an entry on each side and one behind, and an engine's
MERKLE_ROOT_COMPUTED among them; nine leaves give trees with an odd level at every
height.  Two children are a winner and a loser, and a rollback that hits the other; one
seller's limit has a fraction of a cent, so that the strategy is blocked by its own
guardrails, and the other leaves room for a deal.  Two requests are enough for what one
reads and the other changes; a session more than the budget can be asked for.  The engine
and one client make every pair of overlapping calls, and with two iterations and three
offers the engine answers an offer that is replaced under it, and triggers an escrow
again after its own accept or the client's; the price 900 is below the seller's floor.

One run shows a property that the code's own documentation states and the code breaks:

| run | property TLC refutes | because |
|---|---|---|
| `opening_fx` | `RateLocked`, "FX rates are LOCKED at session creation" (`core/fx_engine.py:4`) | the object handed to the FX engine has no `get`; the error is caught, and every session opens without a rate and without the compliance check of `fema_engine.py:7` |

## Known divergences

Places where code and documentation differ, or the code differs with itself, met while
modelling.  The models contain each of them; the passing runs limit faults and phrase
properties so as to say exactly what still holds.

Negotiation and stores:

* STEP 12 overwrites the row's status without looking at it (`core/state_machine.py:502`):
  a request that loaded its record while an accept was deploying its escrow waits for
  the lock and then sets an agreed session back to an active state or to WALKAWAY, with
  the price and the escrow kept.  In SessionStore with two clients and no faults TLC
  refutes `[][row.status = "AGREED" => row'.status = "AGREED"]_row`.  The engine's breach
  branch (`agents/neutral_agent.py:169-179`) does the same: it tests the row, then updates
  it whatever was committed in between, and its lookup branch (`neutral_agent.py:129`)
  tests a row it read long before.  So an escrow may belong to a row that is no longer
  AGREED: `EscrowMeansDeal` is about the committed accept and its price, not the status;
* two overlapping counters of one party load the same record, and the second publishes
  another price in the same round and turn (`core/state_machine.py:526`).  The engine's
  accept of the first passes STEPS 5 and 6 and closes at the second: what it accepts is an
  offer the other party made (`DealOnTable`), not always the one it saw;
* TIMEOUT (line 250) and POLICY_BREACH (line 342) never reach PostgreSQL, because the
  error that reports them rolls the row back;
* a deployment outlives its lost transaction, so that the repeated accept deploys again
  (`blockchain/escrow_manager.py:77`): `OneEscrow` fails with `MayAbort = TRUE`.  Without
  lost transactions a second application needs a deployment that was due and failed or
  was skipped, after which the engine's own trigger, which holds no lock, and a late
  accept may both make up for it (`OneEscrowEach`);
* a refund that overtakes the commit of a funding is overwritten by it: the second
  disjunct of `RowAgrees`;
* after a `timeout_yield` before ROUND_LOOP the advertised `expected_turn` is not the
  turn `process_action` enforces (`YieldedEarly` in `TurnsAgree`);
* wrong round numbers count as guardrail failures, so POLICY_BREACH may come after a
  single guardrail block (`blocks` beside `fails` in DanpFsm);
* a session with `max_rounds = 1` is open in round 2, because SELLER_RESPONSE does not
  test the limit (`LastRound` in DanpFsm);
* a counter may lack its price, and a session whose last offer lacks one can be agreed
  without a final price;
* without a valuation snapshot the guardrails are skipped (the assumption of
  `NoUnfairDeal`), and a record rebuilt in ROUND_LOOP gives the turn to the buyer;
* Redis publishes a record before PostgreSQL commits it, so after a lost commit the
  other party may accept an offer the table lacks (`DealOnTable` has no faults);
* the engine's breach branch calls `set_session_state` without its TTL and swallows the
  TypeError, so a client reopens the session;
* `escrow_approval.teal` says it is compiled from `treasury_escrow.py` but checks no
  payment and pays nobody out: a buyer that calls `fund` itself without a payment gets an
  escrow that is FUNDED with nothing paid (`PaidOnce` says one payment at most, and none
  while PENDING).  Nothing calls its `init`, so that every `fund` is refused until an
  operator does;
* `EscrowContract.deploy` asks for a schema of 3 integers and 3 byte slices
  (`blockchain/escrow_contract.py:60`), and the program's create branch writes 4 and 5
  (`escrow_approval.teal:45-75`): the AVM would refuse every creation, so that as it stands
  no application is ever deployed and `trigger_escrow` answers `error`, which
  `_trigger_escrow` only logs.
  `EscrowLifecycle`, and `chain` in the other modules, are about what happens once a
  sufficient schema lets the creation through;
* a disputed escrow cannot be refunded, though the refund route calls itself the
  dispute path;
* the opt-in of `deploy_new_escrow` names no foreign asset, so the AVM refuses it and the
  method raises after it has created and funded an application; nothing imports the
  client or `deploy.py`.

Audit log:

* overlapping appends fork the chain, and `verify_chain` then calls the log invalid for
  good (`SequentialIsValid` is about logs without overlaps);
* `MERKLE_ROOT_COMPUTED` is itself an entry of the session, so once a root is stored the
  proof of `verify-leaf`, made from all entries of now, never leads to the stored root
  that it answers with it (the second half of `RootCoversPrefix`);
* verification of a session's transcript recomputes each entry's own hash only.

Strategy and multi-party:

* rounding after clamping takes a strategy past a limit with a fraction of a cent; its
  own guardrails block it three times and end the session; a limit or an anchor beyond
  the exposure does the same, and so does a target within half a percent of the limit,
  since an offer that near to the target is accepted even beyond the limit
  (`Blockable`, the reasons in `BlockedForAReason`);
* a buyer whose ceiling lies below its reservation price accepts what its guardrails
  block; the `utility < 0` test of `should_accept` can never be true; offers may cross;
* the background task of `POST /sessions/multi` imports a name that does not exist and
  dies at once; `MultiParty` is what a caller of the coordinator gets;
* the losers become WALKAWAY in PostgreSQL only: Redis keeps AGREED, and their escrows
  stay deployed, although RULE 19 (`multi_party_session.py:7-9`) and the comment "Trigger
  escrow only for winner" (line 185) say otherwise: `process_action` has deployed for every
  child that agreed before the winner is known.  `EscrowsExplained` says which children
  have an application, not that only the winner has;
* a child's failure on the shared session between the deployment of an accept
  (`escrow_manager.py:138`) and the write to Redis (`state_machine.py:521`) rolls the escrow
  row back and leaves the record open, so the next accept deploys a second application;
  `EscrowsExplained` says that each application beyond the one in the row was lost so;
* a commit of another child in the middle of a turn commits half of it, and a rollback may
  leave a row AGREED by STEP 12 alone, without its price or its offer; such a child is in
  no comparison of prices (`lost` in `WinnerIsBest`).

Opening:

* a late `verify_email` takes an ACTIVE enterprise back to EMAIL_VERIFIED
  (`enterprises.py:148`); two settings of the policy that overlap leave two active ones,
  on which `create_session` raises until the policy is set again;
* `POST /sessions/multi` opens two to five sessions without `check_session_rate_limit`
  (`sessions.py:512-548`), which only `POST /sessions` asks (line 157): "max 10 sessions per
  enterprise per hour" (`db/redis_client.py:124`) holds of the latter only, and
  `HourlyBudget` says no more;
* an enterprise activated by `AUTO_ACTIVATE_ENTERPRISES` has neither wallet nor card, and
  one made by the demo has no card;
* nothing uses the protocol of a handshake: `POST /run` looks it up, calls `evaluate` and
  drops the answer, and its engine negotiates by DANP in any case;
* without a locked rate the escrow is deployed for the agreed rupees taken as USDC;
* the webhook routes compare a string with a UUID and always answer 403; refresh always
  answers 501; `POST /deliver` reads an attribute its handler does not have and answers
  500 (`deliver.py:98`).

### Fairness

`SessionStore!FairSpec` has weak fairness of each request's own step: an await of the
event loop returns, and PostgreSQL grants a lock that is free.  Waiting for the row's
lock is safe under weak fairness only because a holder never comes back for it; two
requests compete, so the run also shows that the lock is always given up.
`NegotiationEngine!FairSpec` has weak fairness of the engine's steps alone; the deadline is
under no obligation.  `SharedSession!FairSharedSpec` has weak fairness of the engine's steps
and of each client's request once it is under way, since the engine may wait for the
row's lock; no client has to send anything.  Nothing is assumed fair in the other runs.

## The proofs

TLAPS checks these for every value of the constants: price sets, limits, exposures, round
budgets, numbers of clients, children, workers, enterprises, calls and faults.

| module | theorems | assumed besides the constants' types |
|---|---|---|
| `DanpFsmProofs` | `TypeCorrect`, `FairAgreement`, `RecordRecomputable`, `Budgeted`, `TurnsAlternate`, `BlocksEnd`, `TurnsDoAgree`, `StalledMeansStalled`, `ImplementsOutcome` | nothing |
| `SessionStoreProofs` | `StoreTypeCorrect`, `LockDiscipline` | nothing |
| | `SingleEscrow`, `DealsOnTable` | no transaction is lost |
| | `NoUnfairDeal` | the valuation snapshots stay in Redis |
| | `QuietStoresAgree` | no transaction is lost, the record stays in Redis |
| | `NothingChangesUnderIt`, `RebuildIsFaithful`, `StoreRefinesFsm` | `Sequential`: one client, no key vanishes, no transaction is lost |
| | `SharedTypeCorrect`, `EscrowsMeanDeals`, `EscrowsAreSingle` (the engine beside clients) | nothing; `SharedSession` has neither vanishing keys nor lost transactions |
| `NegotiationEngineProofs` | `EngineInvariance`, `TypeCorrect`, `EngineKeepsPromise` (the engine alone) | nothing |
| `ContractClientProofs` | `ContractTypeCorrect`, `AlwaysBacked`, `KeepsPromise`, `ClientImplementsContract`, `ClientAlwaysBacked`, `ClientKeepsPromise`, `ReturnedStaysDone` | nothing |
| `EscrowLifecycleProofs` | `LifecycleTypeCorrect`, `NeverAhead`, `OneSettlement`, `OnePayment`, `QuietRowAgrees` | nothing |
| `SessionOpeningProofs` | `BudgetIsKept`, `PartiesStayReady` | nothing |
| `AuditTrailProofs` | `LeafIsProved`, `RootTellsLeaves`, `LeavesAreProvable`, `AnchorsAreReal`, `SequentialDoesVerify`, `RootIsOfPrefix`, `ValidDoesMeanComplete` | nothing |
| `MultiPartyProofs` | `TypesKept`, `CircuitStaysOpen`, `AdviceStaysBounded`, `BlockedOnlyForAReason`, `EscrowsAreExplained`, `WinnerIsTheBest` | nothing |

The assumptions of the right column are not for the provers' sake.  Without each of them
the property is false, and "Known divergences" tells how: a transaction may be lost after
its deployment or after its Redis write; without a snapshot STEP 7 is skipped; a record
that is rebuilt while another request is under way is that of an older row; two requests
overwrite each other's rows, so the store is the sequential machine only for one request
at a time.

**The state machine.**  `IInv` of `DanpFsmProofs` carries most of it.  A fair price at the
accept needs that every offer on the table was legal when it was made (`OffersLegal`)
and that the record's last offers are rows of the table (`LastOffers`, stated row by row
so that one more row is a small step).  The round budget needs the number of counters
tied to status and round (`CountersCounted`), alternation needs the last row tied to
the record (`TurnHeld`), the block count needs `blocks <= fails` (`BlocksAreFailures`).
`TurnsAgree` rests on `TurnInv`: the record's turn follows the last row, and so does
`last_actor` in ROUND_LOOP, while before it the status names who moved.
`StalledIsThreeSmallMoves` rests on `StallInv`: the counter kept in Redis is the number of
small moves at the end of the table.

**The store.**  `LockHeld` says that whoever is past its first UPDATE holds the lock.
`EscrowInv` counts the applications on chain as the committed escrow plus the one
deployed by the lock's holder.  `FairInv` says that everything a request may carry, be it
the record, the row, a rebuilt copy or a stale one, has legal last offers.  `AgreeInv` says
what the record is at any time: what the request that is ahead has published, or else what
the last transaction committed.  `TableInv` says that every copy of a last offer, wherever
it is kept, is an offer PostgreSQL holds or the request that is ahead will commit.
`SeqInv` is for one request at a time: its copy is the record until it publishes, the row
holds what it started from until it commits, and it was judged as its place says
(`Judged`); from it follow what a rebuilt record is worth and, step by step, that the
store is `DanpFsm`, whose step is taken where Redis gets the new record or a failure is
counted; the rows and counters that follow or precede it are mapped accordingly.

**The engine.**  Alone, it refines `NegotiationOutcome` by the map that takes PostgreSQL's
decision if it has one and Redis's otherwise (`Decision`); this needs that the engine takes
turns only on a session that is open in both, and that an agreement Redis knows of is one
PostgreSQL knows of.  Beside clients, `SharedInv` is the store's invariants without the
parts that clients may break, and two more.  `Claims` says that whatever tells of a deal (the
escrow row, the row's status, the engine's copy of it, the engine's being on its way to an
escrow) has a committed accept behind it; a copy that is stale may claim less, never more,
because accepts are not taken back.  `Counts` says that every application but the one the
engine is about to record is known to the escrow row or to the request that holds the
row's lock, and that a second one comes only after a missed one, with the engine at the end
of its task, so that there is no third.

**The contract and its client.**  `TypeOK /\ Backed` is inductive: a payout is possible in
FUNDED only, where the box holds exactly the agreed amount, and the terms cannot change
there.  Every step of the client is a step of the contract or none, so that no order
of the client's transactions, early or late, gets around the contract's own tests.
`ReturnedIsDone` needs that a call's earlier transactions stay done (`ProgressInv`), which
holds because no status of the contract leads back to the one a method leaves.

**The escrow's row.**  What makes its properties inductive is what a request between
confirmation and commit knows: its news is still true and its settlement not recorded
(`NewsIsTrue`), no other request brings the same (`OneBearer`), and without faults a
row that lags behind lags for a request that is about to commit (`LagsForAReason`).

**The opening.**  `BudgetInv` counts an enterprise's sessions of an hour together with those
still being opened: they were counted in Redis in that hour, so in the present hour they
are no more than `hits`, and in any hour no more than the budget.  `ReadyInv` says that
whoever is active has a wallet where wallets come first, and that whoever was let
through to open a session is equipped; `NothingIsLost` shows that no route, however old what
it read, takes that away.  Sessions opened by `POST /sessions/multi` are in `ReadyInv` and
outside `BudgetInv`.

**The audit log.**  The tree lemmas hold for leaves of any number.  `LeafIsProved` goes up the
levels of the tree and `RootTellsLeaves` down again; hashes are tuples, so equal hashes have
equal parts, if the leaves are different and none looks like a pair (`Distinct`, `Plain`),
as those of an audit log are.  Both are inductions over the levels, stated for the least level at which they
would fail.  `EntryInv` gives every entry, committed or not, a stamp of its own and a
predecessor before it.  `ChainInv` says that while no two transactions have both read the
end of the log, one at most has, its entries are the newest, and everything a worker sees
is linked.  `CoverInv` says that an engine's leaves, its root and the stored one are those
of the log as it once was.  `SentInv` and `OneEngineInv` say how far the stores and the chain
are when a worker is at a place of the engine's program.  `ValidIsComplete` follows from
the stamps alone: a walk rises in time, so one as long as the log lists it in order.

**Multi-party sessions.**  `Base` has the types, the breaker, and `TalkInv`: every offer on the
table is above zero, within the exposure and whole cents, the opening apart, and whoever
is to answer has an offer before it.  `SellerPasses` and `BuyerPasses` show that the
guardrails pass every choice of a strategy for which none of the reasons in `Blockable`
holds; the reasons were found by the proof's failures, the one about near targets among
them.  `AdviceBounded` is interval arithmetic over the steps of `compute_next_offer`.
`ChildInv` relates the chain, the record and both views of the row while the parent is open,
step by step within a turn: `ChainInv` counts applications against rows and rollbacks for
every child, `DealInv` says what row, record and place tell of a child no turn of which was
lost; once the parent is over nothing moves.  That there is a best deal, and that it leads the
leaderboard, comes from the least price and then the least place among those at that price.

The lemmas about `DanpRules` (the type of what `Moved` and `Ended` return, the cases of
`TurnOf` and `CounterStatus`, which action changes which last offer) are stated in each of
the three modules that rest on them.

Only model-checked: the liveness properties `EngineStops`, `EngineReturns` and
`EveryRequestReturns`, which need
fairness and ENABLED, beyond this prover.  Every other property of the passing runs is
stated by a theorem.  What a theorem assumes a run has among its constants; the run
`opening_fx` shows a property that does not hold.

## What is not modelled

* The rate limit: it spaces out one role's requests by two seconds, and two requests
  still overlap when the first is slow.
* Compliance records an accept writes, webhooks and task records: no later step of the
  modelled parts reads them.
* The texts of errors.  The engine takes any error whose text contains `429` for a rate
  limit; the branch is modelled, the accident is not.
* Floating point: prices are integers, in DanpRules of any unit, in Strategy of a tenth
  of a cent.  The conversions of the FX engine are left out.
* What a remote model, a market, a market's server or a node answers: any answer the
  caller accepts, or a failure.
* The capability handshake: `POST /run` chooses a protocol from it, calls its `evaluate` and
  drops the answer; the engine negotiates by DANP in any case (`sessions.py:412-431`).
* A second engine on the same session, and engines beside lost transactions: `SharedSession`
  has one engine and no faults of the database; `SessionStore` has the faults.
* Delivery and x402 payments, which no request reaches (`deliver.py:98`).
* The components whose status in `PROJECT.json` is `not_modelled`, with the reason there.

## The plan

1. done: `DanpRules`, `NegotiationOutcome`, `DanpFsm`, `SessionStore`,
   `NegotiationEngine`, `SharedSession` and their proofs.
2. done: `EscrowPromise`, `TreasuryEscrow`, `ContractClient`, `EscrowLifecycle` and their
   proofs.
3. done: `MerkleTree`, `AuditTrail`; `Strategy`, `MultiParty`; `Onboarding`,
   `SessionOpening`.
4. done: proofs of every property of the passing runs but the three liveness ones.
5. left: invariants beyond those the runs name, such as what a session may still become
   after a lost transaction, stated with the faults that the theorems above exclude; and
   `Onboarding` by itself, of which so far only what an opening needs is proved.
