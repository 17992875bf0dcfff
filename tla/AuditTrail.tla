------------------------------- MODULE AuditTrail ------------------------------
(***************************************************************************)
(* The audit log (db/audit_logger.py), written by requests and engines in  *)
(* transactions of their own, and what is derived from it for one          *)
(* session: the Merkle root stored with the negotiation                    *)
(* (core/merkle_service.py) and the anchor of the root on the chain        *)
(* (core/anchor_service.py).                                               *)
(*                                                                         *)
(* An entry's hash covers its fields, its timestamp and the hash of the    *)
(* entry before it.  Timestamps strictly increase: the workers share one   *)
(* host.  So the timestamp at stands for the hash, and Genesis for none.   *)
(*                                                                         *)
(* A definition introduced by "Mutation" is a plausible mistake in the     *)
(* definition that follows it; no specification uses it.                   *)
(***************************************************************************)
EXTENDS MerkleTree, FiniteSets

CONSTANTS
    Workers,        \* requests and engines, one transaction at a time each
    MaxEntries,     \* bound: timestamps handed out
    MaxEngines,     \* bound: engines started on the session
    MaxFaults,      \* bound: transactions that fail
    MaxLeaves       \* bound: leaves of the trees that are checked

ASSUME TrailAssumption == MaxLeaves \in Nat /\ MaxEntries \in Nat /\ MaxEngines \in Nat /\ MaxFaults \in Nat

VARIABLES
    log,        \* committed entries
    clock,
    merkle,     \* Negotiation.merkle_root, as committed
    anchorTx,   \* Negotiation.anchor_tx_id: the root its transaction's note carries
    chain,      \* the roots anchored on the chain
    tx,         \* what each worker is doing
    engines,    \* engines started so far
    faults,     \* failed transactions so far
    overlapped  \* history: two transactions had both read the end of the log

vars == <<log, clock, merkle, anchorTx, chain, tx, engines, faults, overlapped>>

Genesis == 0
NoRead == -1
None == <<>>

(* What an entry has to do with the session: it is about it (entity_id), or *)
(* only names it in its payload, as those of tasks do, or neither.          *)
Abouts == {"session", "mention", "other"}

OfSession(e) == e.about \in {"session", "mention"}

(* A request's transaction appends one entry or two; the first SELECT is    *)
(* part of its start.                                                       *)
RequestPrograms ==
    {<<a, "commit">> : a \in Abouts} \cup {<<"session", "read", "mention", "commit">>}

(* Mutation: the anchor is sent once its row is committed.                  *)
EngineProgramLate ==
    <<"session", "commit", "leaves", "root", "read", "session", "commit",
      "store", "read", "session", "commit", "send">>

(* The engine, once its loop is over: A2A_NEGOTIATION_COMPLETE, the root    *)
(* and MERKLE_ROOT_COMPUTED, the anchor and AUDIT_ANCHORED_ON_CHAIN, each   *)
(* in a transaction of its own.                                             *)
EngineProgram ==
    <<"session", "commit", "leaves", "root", "read", "session", "commit",
      "send", "store", "read", "session", "commit">>

Idle == [todo |-> <<>>, prev |-> NoRead, rows |-> {}, leaves |-> <<>>,
         merkle |-> None, anchorTx |-> None]

Init ==
    /\ log = {}
    /\ clock = Genesis
    /\ merkle = None /\ anchorTx = None
    /\ chain = {}
    /\ tx = [w \in Workers |-> Idle]
    /\ engines = 0 /\ faults = 0
    /\ overlapped = FALSE

-------------------------------------------------------------------------------
(* Reading the log.                                                         *)

(* READ COMMITTED, and a transaction's own rows.                            *)
Visible(w) == log \cup tx[w].rows

(* Entries in the order of their timestamps.                                *)
ByTime(entries) ==
    [i \in 1 .. Cardinality(entries) |->
        CHOOSE e \in entries : Cardinality({d \in entries : d.at <= e.at}) = i]

Newest(entries) == CHOOSE e \in entries : \A d \in entries : d.at <= e.at

(* Mutation: the end of the log is looked for among the committed entries.  *)
EndCommitted(w) == IF log = {} THEN Genesis ELSE Newest(log).at

(* The newest entry's hash.                                                 *)
End(w) == IF Visible(w) = {} THEN Genesis ELSE Newest(Visible(w)).at

(* Mutation: the leaves come newest first.                                  *)
LeavesNewestFirst(entries) ==
    LET about == ByTime({e \in entries : e.about = "session"})
    IN  [i \in DOMAIN about |-> <<about[Len(about) + 1 - i].at>>]

(* The session's hashes in the order compute_and_store and verify_leaf read *)
(* them.                                                                    *)
Leaves(entries) ==
    LET about == ByTime({e \in entries : e.about = "session"})
    IN  [i \in DOMAIN about |-> <<about[i].at>>]

(* by_prev_hash: of entries with the same prev_hash the last one read stays *)
(* and the SELECT has no order.                                             *)
Successors ==
    {f \in [{e.prev : e \in log} -> log] : \A h \in DOMAIN f : f[h].prev = h}

(* The entries met by walking from genesis.                                 *)
Walk(next) ==
    LET walk[n \in 0 .. Cardinality(log)] ==
            IF n = 0 THEN <<>>
            ELSE LET met == walk[n - 1]
                     end == IF met = <<>> THEN Genesis ELSE met[Len(met)].at
                 IN  IF end \in DOMAIN next THEN Append(met, next[end]) ELSE met
    IN  walk[Cardinality(log)]

(* Mutation: the walk need not meet every entry.                            *)
ValidUncounted == \E next \in Successors : Walk(next) # <<>> \/ log = {}

(* verify_chain.                                                            *)
Valid == \A next \in Successors : Len(Walk(next)) = Cardinality(log)

(* export_session_transcript: the entries of the session among those met.   *)
Transcript(next) ==
    LET met == Walk(next)
        kept[n \in 0 .. Len(met)] ==
            IF n = 0 THEN <<>>
            ELSE IF OfSession(met[n]) THEN Append(kept[n - 1], met[n]) ELSE kept[n - 1]
    IN  kept[Len(met)]

(* The answer of POST /audit/{session_id}/verify-leaf for a leaf: its proof *)
(* in a tree of the session's entries as they are, and the stored root if   *)
(* there is one.                                                            *)
LeafAnswer(leaf) ==
    LET leaves == Leaves(log)
    IN  [proof |-> MerkleProof(leaves, CHOOSE i \in DOMAIN leaves : leaves[i] = leaf),
         root  |-> IF merkle = None THEN Root(leaves) ELSE merkle]

-------------------------------------------------------------------------------
Doing(w, step) == tx[w].todo # <<>> /\ Head(tx[w].todo) = step

Rest(w) == Tail(tx[w].todo)

(* append, up to the answer of its SELECT.                                  *)
ReadEnd(w, todo) ==
    /\ tx' = [tx EXCEPT ![w].prev = End(w), ![w].todo = todo]
    /\ overlapped' = (overlapped \/ \E v \in Workers \ {w} : tx[v].prev # NoRead)
    /\ UNCHANGED <<log, clock, merkle, anchorTx, chain, faults>>

StartRequest(w, program) ==
    /\ tx[w].todo = <<>>
    /\ ReadEnd(w, program)
    /\ UNCHANGED engines

(* POST /sessions/{id}/run does not ask whether an engine is at work on the *)
(* session: those started before its first move all get here.               *)
StartEngine(w) ==
    /\ engines < MaxEngines
    /\ tx[w].todo = <<>>
    /\ ReadEnd(w, EngineProgram)
    /\ engines' = engines + 1

Read(w) ==
    /\ Doing(w, "read")
    /\ ReadEnd(w, Rest(w))
    /\ UNCHANGED engines

(* append, from the timestamp on.                                           *)
Insert(w, about) ==
    /\ Doing(w, about)
    /\ clock < MaxEntries
    /\ clock' = clock + 1
    /\ tx' = [tx EXCEPT ![w].rows = @ \cup {[at |-> clock', prev |-> tx[w].prev, about |-> about]},
                        ![w].todo = Rest(w)]
    /\ UNCHANGED <<log, merkle, anchorTx, chain, engines, faults, overlapped>>

(* compute_and_store reads the session's hashes, ...                        *)
ReadLeaves(w) ==
    /\ Doing(w, "leaves")
    /\ tx' = [tx EXCEPT ![w].leaves = Leaves(Visible(w)), ![w].todo = Rest(w)]
    /\ UNCHANGED <<log, clock, merkle, anchorTx, chain, engines, faults, overlapped>>

(* The UPDATEs of the negotiation wait for each other.                      *)
HasRow(w) == tx[w].merkle # None \/ tx[w].anchorTx # None

RowFree(w) == \A v \in Workers \ {w} : ~HasRow(v)

(* ... and writes their root.                                               *)
StoreRoot(w) ==
    /\ Doing(w, "root")
    /\ RowFree(w)
    /\ tx' = [tx EXCEPT ![w].merkle = Root(tx[w].leaves), ![w].todo = Rest(w)]
    /\ UNCHANGED <<log, clock, merkle, anchorTx, chain, engines, faults, overlapped>>

(* anchor_session broadcasts; a missing confirmation is only logged.        *)
Send(w) ==
    /\ Doing(w, "send")
    /\ chain' = chain \cup {Root(tx[w].leaves)}
    /\ tx' = [tx EXCEPT ![w].todo = Rest(w)]
    /\ UNCHANGED <<log, clock, merkle, anchorTx, engines, faults, overlapped>>

StoreAnchor(w) ==
    /\ Doing(w, "store")
    /\ RowFree(w)
    /\ tx' = [tx EXCEPT ![w].anchorTx = Root(tx[w].leaves), ![w].todo = Rest(w)]
    /\ UNCHANGED <<log, clock, merkle, anchorTx, chain, engines, faults, overlapped>>

(* The transaction's end, and with it the engine's if nothing is left.      *)
Closed(w, todo) ==
    IF todo = <<>> THEN Idle
    ELSE [Idle EXCEPT !.todo = todo, !.leaves = tx[w].leaves]

Commit(w) ==
    /\ Doing(w, "commit")
    /\ log' = log \cup tx[w].rows
    /\ merkle' = IF tx[w].merkle = None THEN merkle ELSE tx[w].merkle
    /\ anchorTx' = IF tx[w].anchorTx = None THEN anchorTx ELSE tx[w].anchorTx
    /\ tx' = [tx EXCEPT ![w] = Closed(w, Rest(w))]
    /\ UNCHANGED <<clock, chain, engines, faults, overlapped>>

(* A request's error or an engine's: the transaction is rolled back and     *)
(* whatever was left is not done; an engine only logs that.                 *)
Fail(w) ==
    /\ faults < MaxFaults
    /\ tx[w].todo # <<>>
    /\ faults' = faults + 1
    /\ tx' = [tx EXCEPT ![w] = Idle]
    /\ UNCHANGED <<log, clock, merkle, anchorTx, chain, engines, overlapped>>

(* ANCHOR_ENABLED is off, or no wallet is configured.                       *)
SkipAnchor(w) ==
    /\ Doing(w, "send")
    /\ tx' = [tx EXCEPT ![w] = Idle]
    /\ UNCHANGED <<log, clock, merkle, anchorTx, chain, engines, faults, overlapped>>

Next ==
    \E w \in Workers :
        \/ \E program \in RequestPrograms : StartRequest(w, program)
        \/ StartEngine(w)
        \/ Read(w)
        \/ \E about \in Abouts : Insert(w, about)
        \/ ReadLeaves(w) \/ StoreRoot(w)
        \/ Send(w) \/ StoreAnchor(w) \/ SkipAnchor(w)
        \/ Commit(w) \/ Fail(w)

Spec == Init /\ [][Next]_vars

-------------------------------------------------------------------------------
(* While no two transactions append at the same time, whatever fails in     *)
(* between, verify_chain finds the log in order.                            *)
SequentialIsValid == ~overlapped => Valid

(* verify_chain says valid of a log only if the transcript of the session   *)
(* then holds every entry about it or naming it, in the order of time.      *)
ValidIsComplete ==
    Valid => \A next \in Successors : Transcript(next) = ByTime({e \in log : OfSession(e)})

(* The stored root is that of the first so many entries of the session: no  *)
(* entry turns up later among those it covers, as long as no two            *)
(* transactions append at the same time.  Until there is one, the proof     *)
(* that verify-leaf answers leads to the root in the same answer.           *)
RootCoversPrefix ==
    /\ ~overlapped /\ merkle # None =>
          \E n \in 1 .. Len(Leaves(log)) : merkle = Root(SubSeq(Leaves(log), 1, n))
    /\ merkle = None =>
          \A i \in DOMAIN Leaves(log) :
              LET leaf == Leaves(log)[i]
              IN  Verifies(leaf, LeafAnswer(leaf).proof, LeafAnswer(leaf).root)

(* The row names only anchors that are on the chain, and with one engine it *)
(* is the stored root that they carry.                                      *)
AnchorIsReal ==
    anchorTx # None => anchorTx \in chain /\ (engines = 1 => anchorTx = merkle)

(* Every leaf of a tree can be proved against its root, its proof proves no *)
(* other leaf, and the root tells how many leaves there were.  (Asked in    *)
(* the initial state alone: it does not depend on the state.)               *)
LeavesProvable ==
    clock = Genesis =>
    \A n \in 1 .. MaxLeaves :
        LET leaves == [i \in 1 .. n |-> <<i>>]
        IN  /\ \A i, j \in 1 .. n :
                  Verifies(leaves[j], MerkleProof(leaves, i), Root(leaves)) <=> i = j
            /\ \A m \in 1 .. n - 1 : Root(SubSeq(leaves, 1, m)) # Root(leaves)
===============================================================================
