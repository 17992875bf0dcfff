------------------------------- MODULE Onboarding ------------------------------
(***************************************************************************)
(* How an enterprise gets what a negotiation asks of it: the routes of     *)
(* api/routes/enterprises.py and the demo's get_or_create_demo_enterprise. *)
(* Each route reads, decides, and writes and commits later; requests on    *)
(* the same enterprise overlap, and only some of what they read is read    *)
(* again, or locked, when they write.                                      *)
(*                                                                         *)
(* An enterprise stands for the email address of its administrator, which  *)
(* users.email makes unique, so that it exists when that user does.  A     *)
(* user that exists can log in at any time (POST /auth/login) and then     *)
(* carries a token nobody asks the database about, so a route that wants   *)
(* an administrator asks for one that exists.                              *)
(*                                                                         *)
(* A definition introduced by "Mutation" is a plausible mistake in the     *)
(* definition that follows it; no specification uses it.                   *)
(*                                                                         *)
(* What is not modelled: the refresh token, which POST /auth/refresh never *)
(* reads (it answers 501), the webhook routes, which compare a string with *)
(* a UUID and so always answer 403, and the values of a configuration.     *)
(***************************************************************************)
EXTENDS Naturals, FiniteSets

CONSTANTS
    Enterprises,
    Requests,
    AutoActivate,   \* AUTO_ACTIVATE_ENTERPRISES
    DemoWallets,    \* whether the demo is given wallet addresses
    None

ASSUME OnboardingAssumption ==
    /\ AutoActivate \in BOOLEAN /\ DemoWallets \in BOOLEAN
    /\ None \notin Enterprises \cup Requests
    /\ None \notin {"PENDING", "EMAIL_VERIFIED", "ACTIVE"}
    /\ None \notin {"verify_email", "activate", "treasury_policy", "demo", "open", "multi"}

VARIABLES
    kyc,        \* enterprises.kyc_status, None while there is no row
    card,       \* whether agent_card_data is filled in
    wallet,     \* whether there is a row in wallets
    config,     \* whether there is a row in agent_configs
    policies,   \* the active treasury policies, named by the request that set them
    requests    \* for each request its route, the enterprise, and what it read

rows == <<kyc, card, wallet, config, policies>>

onboardingVars == <<rows, requests>>

Idle == [op |-> None, on |-> None, arg |-> None, seen |-> {}]

OnboardingInit ==
    /\ kyc = [e \in Enterprises |-> None]
    /\ card = [e \in Enterprises |-> FALSE]
    /\ wallet = [e \in Enterprises |-> FALSE]
    /\ config = [e \in Enterprises |-> FALSE]
    /\ policies = [e \in Enterprises |-> {}]
    /\ requests = [r \in Requests |-> Idle]

Exists(e) == kyc[e] # None

(* POST /auth/login: the administrator is registered with the enterprise.   *)
CanLogIn(e) == Exists(e)

(* require_admin: somebody logged in as an administrator, of any            *)
(* enterprise; no route asks of which.                                      *)
SomeAdmin == \E e \in Enterprises : CanLogIn(e)

(* The unique email decides between two registrations: only the moment of   *)
(* the commit matters.                                                      *)
Register(e) ==
    /\ ~Exists(e)
    /\ kyc' = [kyc EXCEPT ![e] = IF AutoActivate THEN "ACTIVE" ELSE "PENDING"]
    /\ UNCHANGED <<card, wallet, config, policies, requests>>

(* The old configuration is deleted and the new one inserted in one         *)
(* transaction; of two such requests the unique enterprise_id refuses one,  *)
(* and either way there is a configuration when they are done.              *)
SetAgentConfig(e) ==
    /\ SomeAdmin /\ Exists(e)
    /\ config' = [config EXCEPT ![e] = TRUE]
    /\ UNCHANGED <<kyc, card, wallet, policies, requests>>

(* What a route asks before it writes.                                      *)
Accepted(op, e) ==
    CASE op = "verify_email"    -> kyc[e] = "PENDING"
      [] op = "activate"        -> SomeAdmin /\ kyc[e] = "EMAIL_VERIFIED"
      [] op = "treasury_policy" -> SomeAdmin /\ Exists(e)
      [] op = "demo"            -> Cardinality(policies[e]) <= 1

(* What a route has read when it comes to write: the active policies its    *)
(* UPDATE found (the demo only looks for one), and for the demo whether the *)
(* enterprise was there.                                                    *)
Begin(r, op, e) ==
    /\ requests[r] = Idle
    /\ Accepted(op, e)
    /\ requests' = [requests EXCEPT ![r] =
                      [op |-> op, on |-> e,
                       arg |-> IF op = "demo" /\ Exists(e) THEN "found" ELSE None,
                       seen |-> IF op \in {"treasury_policy", "demo"} THEN policies[e] ELSE {}]]
    /\ UNCHANGED rows

Done(r) == requests' = [requests EXCEPT ![r] = Idle]

Doing(r, op) == requests[r].op = op

(* The UPDATE does not ask again what the status is.                        *)
VerifyEmail(r) ==
    /\ Doing(r, "verify_email")
    /\ kyc' = [kyc EXCEPT ![requests[r].on] = "EMAIL_VERIFIED"]
    /\ Done(r)
    /\ UNCHANGED <<card, wallet, config, policies>>

(* The wallet is looked for, and made if there is none; of two that are     *)
(* made at once the unique enterprise_id refuses one.                       *)
Activate(r) ==
    LET e == requests[r].on IN
    /\ Doing(r, "activate")
    /\ kyc' = [kyc EXCEPT ![e] = "ACTIVE"]
    /\ card' = [card EXCEPT ![e] = TRUE]
    /\ wallet' = [wallet EXCEPT ![e] = TRUE]
    /\ Done(r)
    /\ UNCHANGED <<config, policies>>

(* Mutation: the active policies are looked for once more after the insert. *)
PolicyReplacedLate(active, seen, new) == active \ (seen \cup {new})

(* Policies that came to be active after the UPDATE stay active.            *)
PolicyReplaced(active, seen, new) == (active \ seen) \cup {new}

SetTreasuryPolicy(r) ==
    LET e == requests[r].on IN
    /\ Doing(r, "treasury_policy")
    /\ policies' = [policies EXCEPT ![e] = PolicyReplaced(@, requests[r].seen, r)]
    /\ Done(r)
    /\ UNCHANGED <<kyc, card, wallet, config>>

(* The demo makes what is missing; for a new enterprise the unique email    *)
(* decides, and it is active without a card.                                *)
EnsureDemo(r) ==
    LET e == requests[r].on IN
    /\ Doing(r, "demo")
    /\ requests[r].arg = None => ~Exists(e)
    /\ kyc' = [kyc EXCEPT ![e] = IF @ = None THEN "ACTIVE" ELSE @]
    /\ config' = [config EXCEPT ![e] = TRUE]
    /\ policies' = [policies EXCEPT ![e] = IF requests[r].seen = {} THEN @ \cup {r} ELSE @]
    /\ wallet' = IF DemoWallets THEN [wallet EXCEPT ![e] = TRUE] ELSE wallet
    /\ Done(r)
    /\ UNCHANGED card

(* A route raises, or its transaction is lost.                              *)
Fail(r) ==
    /\ requests[r] # Idle
    /\ Done(r)
    /\ UNCHANGED rows

Routes == {"verify_email", "activate", "treasury_policy", "demo"}

OnboardingNext ==
    \/ \E e \in Enterprises : Register(e) \/ SetAgentConfig(e)
    \/ \E r \in Requests :
          \/ \E op \in Routes, e \in Enterprises : Begin(r, op, e)
          \/ VerifyEmail(r)
          \/ Activate(r)
          \/ SetTreasuryPolicy(r)
          \/ EnsureDemo(r)
          \/ Fail(r)

(* Nothing in the environment makes an enterprise active without a wallet.  *)
WalletsComeFirst == ~AutoActivate /\ DemoWallets
===============================================================================
