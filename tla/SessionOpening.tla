----------------------------- MODULE SessionOpening ----------------------------
(***************************************************************************)
(* How provisioned enterprises come to negotiate: the opening of a session *)
(* by POST /sessions and of several at once by POST /sessions/multi        *)
(* (api/routes/sessions.py, agents/multi_party_session.py), with the       *)
(* hourly budget of db/redis_client.py, which only the first one asks, and *)
(* the exchange rate and the compliance check that belong to an opening    *)
(* (core/fx_engine.py, compliance/fema_engine.py).  What the parties then  *)
(* do is DanpFsm.                                                          *)
(*                                                                         *)
(* What is not modelled: the terms of a session, the quotes' own table and *)
(* cache, and the handshake of the agents, which no opening asks for.      *)
(***************************************************************************)
EXTENDS Onboarding, Sequences, Functions

CONSTANTS
    Sessions,           \* session ids
    MaxSessionsPerHour, \* MAX_SESSIONS_PER_ENTERPRISE_PER_HOUR
    MaxSellers,         \* how many sellers a multi-party session may have
    LastHour,           \* a bound on the clock
    LiveRates,          \* the rates the market may quote
    FallbackRate        \* FX_FALLBACK_RATE

ASSUME OpeningAssumption ==
    /\ MaxSessionsPerHour \in Nat \ {0}
    /\ MaxSellers \in Nat \ {0, 1}
    /\ LastHour \in Nat
    /\ None \notin LiveRates \cup {FallbackRate}

VARIABLES
    hour,       \* the clock hour the rate limit counts in
    hits,       \* rate:sessions:{enterprise}:{hour} in Redis
    sessions    \* the committed negotiations

openingVars == <<onboardingVars, hour, hits, sessions>>

OpeningInit ==
    /\ OnboardingInit
    /\ hour = 0
    /\ hits = [e \in Enterprises |-> 0]
    /\ sessions = [s \in Sessions |-> None]

(* Mutation: the budget is looked at and only the limit is enforced.        *)
Uncounted(n) == n

(* INCR; the refused attempts count too, but only up to the limit matters.  *)
Counted(n) == IF n <= MaxSessionsPerHour THEN n + 1 ELSE n

(* Two active policies make the query for one raise.                        *)
MayOpen(buyer, seller) ==
    /\ buyer # seller
    /\ kyc[buyer] = "ACTIVE" /\ kyc[seller] = "ACTIVE"
    /\ config[buyer] /\ config[seller]
    /\ Cardinality(policies[buyer]) = 1

(* check_session_rate_limit counts an attempt before anything is validated, *)
(* and a refusal for either reason leaves the count behind.                 *)
Admit(r, buyer, seller) ==
    /\ requests[r] = Idle
    /\ CanLogIn(buyer)
    /\ hits' = [hits EXCEPT ![buyer] = Counted(@)]
    /\ requests' = IF hits[buyer] < MaxSessionsPerHour /\ MayOpen(buyer, seller)
                    THEN [requests EXCEPT ![r] = [op |-> "open", on |-> buyer,
                                                  arg |-> <<seller, hour>>, seen |-> {}]]
                    ELSE requests
    /\ UNCHANGED <<rows, hour, sessions>>

(* fetch_live_rate falls back on any failure of the market's server.        *)
Fetched == LiveRates \cup {FallbackRate}

(* get_rate asks its first argument for a cached quote, which the Redis     *)
(* client can answer and RedisSessionManager, having no method get, cannot. *)
Quotes(redis) == IF redis = "client" THEN Fetched ELSE {}

(* What create_session hands to the FX engine.                              *)
Handed == "manager"

(* lock_rate_for_session; its failure is logged and the session opened      *)
(* without a rate.                                                          *)
Locked == IF Quotes(Handed) = {} THEN {None} ELSE Quotes(Handed)

(* check_session_compliance takes every party for domestic; it is asked     *)
(* only after a rate was locked.                                            *)
Compliance(rate) == IF rate = None THEN None ELSE "EXEMPT"

(* A row of negotiations; multi says whether it has a multi_session_id.     *)
Session(buyer, seller, at, rate, multi) ==
    [buyer |-> buyer, seller |-> seller, hour |-> at, rate |-> rate,
     compliance |-> Compliance(rate), multi |-> multi]

Open(r) ==
    /\ Doing(r, "open")
    /\ \E s \in Sessions, rate \in Locked :
          /\ sessions[s] = None
          /\ sessions' = [sessions EXCEPT ![s] =
                Session(requests[r].on, requests[r].arg[1], requests[r].arg[2], rate, FALSE)]
    /\ Done(r)
    /\ UNCHANGED <<rows, hour, hits>>

(* POST /sessions/multi asks no budget.  Each seller is validated when its  *)
(* turn comes, the same one as often as the request names it, and the first *)
(* that is refused ends the request (Fail).                                 *)
AdmitMulti(r, buyer, seller) ==
    /\ requests[r] = Idle
    /\ CanLogIn(buyer)
    /\ MayOpen(buyer, seller)
    /\ requests' = [requests EXCEPT ![r] = [op |-> "multi", on |-> buyer,
                                           arg |-> <<seller>>, seen |-> {}]]
    /\ UNCHANGED <<rows, hour, hits, sessions>>

NextSeller(r, seller) ==
    /\ Doing(r, "multi")
    /\ Len(requests[r].arg) < MaxSellers
    /\ MayOpen(requests[r].on, seller)
    /\ requests' = [requests EXCEPT ![r].arg = Append(@, seller)]
    /\ UNCHANGED <<rows, hour, hits, sessions>>

(* The sessions once the child of every seller is among them.               *)
WithChildren(r, child, rate) ==
    LET sellers == requests[r].arg
    IN  [s \in Sessions |->
            IF \E i \in DOMAIN sellers : child[i] = s
            THEN LET i == CHOOSE i \in DOMAIN sellers : child[i] = s
                 IN  Session(requests[r].on, sellers[i], hour, rate[i], TRUE)
            ELSE sessions[s]]

(* All the children are committed together.                                 *)
OpenMulti(r) ==
    /\ Doing(r, "multi")
    /\ Len(requests[r].arg) >= 2
    /\ \E child \in Injection(DOMAIN requests[r].arg, {s \in Sessions : sessions[s] = None}),
           rate \in [DOMAIN requests[r].arg -> Locked] :
          sessions' = WithChildren(r, child, rate)
    /\ Done(r)
    /\ UNCHANGED <<rows, hour, hits>>

(* The next hour counts under another key.                                  *)
NextHour ==
    /\ hour < LastHour
    /\ hour' = hour + 1
    /\ hits' = [e \in Enterprises |-> 0]
    /\ UNCHANGED <<rows, requests, sessions>>

OpeningNext ==
    \/ OnboardingNext /\ UNCHANGED <<hour, hits, sessions>>
    \/ \E r \in Requests :
          \/ \E buyer \in Enterprises, seller \in Enterprises :
                Admit(r, buyer, seller) \/ AdmitMulti(r, buyer, seller)
          \/ \E seller \in Enterprises : NextSeller(r, seller)
          \/ Open(r)
          \/ OpenMulti(r)
    \/ NextHour

OpeningSpec == OpeningInit /\ [][OpeningNext]_openingVars

-------------------------------------------------------------------------------
Opened == {s \in Sessions : sessions[s] # None}

(* No enterprise opens more sessions by POST /sessions than its hourly      *)
(* budget, however many of its requests are in flight, refused or lost      *)
(* (check_session_rate_limit counts before it decides), and whatever it     *)
(* opens by POST /sessions/multi beside them, which no budget is asked for. *)
HourlyBudget ==
    \A e \in Enterprises, h \in 0..LastHour :
        Cardinality({s \in Opened : /\ sessions[s].buyer = e /\ sessions[s].hour = h
                                    /\ ~sessions[s].multi})
            <= MaxSessionsPerHour

(* What the parties of a session needed when it was validated they never    *)
(* lose, the activation apart: wallets to trigger the escrow for,           *)
(* configurations for the engine, and the buyer a policy, whatever is       *)
(* verified, activated, configured or replaced before or after the session  *)
(* is committed.                                                            *)
PartiesReady ==
    \A s \in Opened :
        /\ \A e \in {sessions[s].buyer, sessions[s].seller} :
              kyc[e] # "PENDING" /\ config[e] /\ (WalletsComeFirst => wallet[e])
        /\ policies[sessions[s].buyer] # {}

(* "FX rates are LOCKED at session creation" (core/fx_engine.py, RULE 17).  *)
RateLocked == \A s \in Opened : sessions[s].rate # None
===============================================================================
