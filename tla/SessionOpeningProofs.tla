-------------------------- MODULE SessionOpeningProofs -------------------------
(***************************************************************************)
(* Proofs about Onboarding and SessionOpening for any number of            *)
(* enterprises, requests and sessions and any hourly budget.               *)
(***************************************************************************)
EXTENDS SessionOpening, FiniteSetTheorems, TLAPS

-------------------------------------------------------------------------------
(* Types.                                                                   *)

Statuses == {None, "PENDING", "EMAIL_VERIFIED", "ACTIVE"}

RowsTyped ==
    /\ kyc \in [Enterprises -> Statuses]
    /\ wallet \in [Enterprises -> BOOLEAN] /\ config \in [Enterprises -> BOOLEAN]
    /\ policies \in [Enterprises -> SUBSET Requests]

(* A request that opens a session carries the seller and the hour it was    *)
(* counted in; one that opens several carries the sellers.                  *)
RequestTyped(q, now) ==
    /\ DOMAIN q = {"op", "on", "arg", "seen"}
    /\ q.op \in Routes \cup {"open", "multi", None}
    /\ q.op # None => q.on \in Enterprises
    /\ q.op = "open" => q.arg \in Enterprises \X (0 .. now) /\ q.on # q.arg[1]
    /\ q.op = "multi" => q.arg \in Seq(Enterprises) /\ \A i \in DOMAIN q.arg : q.arg[i] # q.on

(* The types.                                                               *)
TypesInv ==
    /\ RowsTyped
    /\ hour \in 0 .. LastHour
    /\ hits \in [Enterprises -> Nat]
    /\ DOMAIN requests = Requests
    /\ \A r \in Requests : RequestTyped(requests[r], hour)
    /\ DOMAIN sessions = Sessions
    /\ \A s \in Opened :
          /\ sessions[s].buyer \in Enterprises /\ sessions[s].seller \in Enterprises
          /\ sessions[s].buyer # sessions[s].seller
          /\ sessions[s].hour \in 0 .. hour

-------------------------------------------------------------------------------
(* How the requests and the sessions move, whatever the step.               *)

(* Requests go on or end, and none starts that opens a session.             *)
Settling ==
    \A r \in Requests : requests'[r].op \in {"open", "multi"} => requests'[r] = requests[r]

OthersStay(r) == \A q \in Requests \ {r} : requests'[q] = requests[q]

(* No request for a route is one that opens a session, and none is idle.    *)
LEMMA RouteNames ==
    /\ None \notin Routes \cup {"open", "multi"}
    /\ {"open", "multi"} \cap Routes = {}
    /\ Idle.op = None /\ Idle.on = None /\ DOMAIN Idle = {"op", "on", "arg", "seen"}
BY OnboardingAssumption DEF Routes, Idle

(* The onboarding steps leave sessions and budget alone and open nothing.   *)
LEMMA OnboardingSettles ==
    ASSUME TypesInv, OnboardingNext
    PROVE  /\ DOMAIN requests' = Requests
           /\ Settling
           /\ \A r \in Requests : RequestTyped(requests'[r], hour)
<1>0. /\ DOMAIN requests = Requests
      /\ \A r \in Requests : RequestTyped(requests[r], hour)
      /\ RequestTyped(Idle, hour)
  BY RouteNames DEF TypesInv, RequestTyped
<1>1. CASE UNCHANGED requests
  BY <1>0, <1>1 DEF Settling
<1>2. ASSUME NEW r \in Requests, Done(r)
      PROVE  /\ DOMAIN requests' = Requests
             /\ Settling
             /\ \A q \in Requests : RequestTyped(requests'[q], hour)
  <2>1. DOMAIN requests' = Requests /\ requests'[r] = Idle /\ OthersStay(r)
    BY <1>0, <1>2 DEF Done, OthersStay
  <2> QED  BY <1>0, <2>1, RouteNames DEF Settling, OthersStay
<1>3. ASSUME NEW r \in Requests, NEW op \in Routes, NEW e \in Enterprises, Begin(r, op, e)
      PROVE  /\ DOMAIN requests' = Requests
             /\ Settling
             /\ \A q \in Requests : RequestTyped(requests'[q], hour)
  <2>1. /\ DOMAIN requests' = Requests /\ OthersStay(r)
        /\ DOMAIN requests'[r] = {"op", "on", "arg", "seen"}
        /\ requests'[r].op = op /\ requests'[r].on = e
    BY <1>0, <1>3 DEF Begin, OthersStay
  <2>2. RequestTyped(requests'[r], hour)
    BY <2>1, RouteNames DEF RequestTyped
  <2> QED  BY <1>0, <2>1, <2>2, RouteNames DEF Settling, OthersStay
<1> QED
  BY <1>1, <1>2, <1>3 DEF OnboardingNext, Register, SetAgentConfig, VerifyEmail, Activate,
                          SetTreasuryPolicy, EnsureDemo, Fail

(* And they leave typed rows.                                               *)
LEMMA OnboardingRows ==
    ASSUME TypesInv, OnboardingNext
    PROVE  RowsTyped'
<1>0. /\ RowsTyped
      /\ \A r \in Requests : requests[r].op \in Routes => requests[r].on \in Enterprises
  BY RouteNames DEF TypesInv, RequestTyped
<1>1. ASSUME NEW e \in Enterprises, Register(e) \/ SetAgentConfig(e) PROVE RowsTyped'
  BY <1>0, <1>1 DEF Register, SetAgentConfig, RowsTyped, Statuses
<1>2. ASSUME NEW r \in Requests, (\E op \in Routes, e \in Enterprises : Begin(r, op, e)) \/ Fail(r)
      PROVE  RowsTyped'
  BY <1>0, <1>2 DEF Begin, Fail, rows, RowsTyped
<1>3. ASSUME NEW r \in Requests, VerifyEmail(r) \/ Activate(r) PROVE RowsTyped'
  <2>1. requests[r].on \in Enterprises
    BY <1>0, <1>3 DEF VerifyEmail, Activate, Doing, Routes
  <2> QED  BY <1>0, <1>3, <2>1 DEF VerifyEmail, Activate, RowsTyped, Statuses
<1>4. ASSUME NEW r \in Requests, SetTreasuryPolicy(r) PROVE RowsTyped'
  <2>1. requests[r].on \in Enterprises
    BY <1>0, <1>4 DEF SetTreasuryPolicy, Doing, Routes
  <2> QED  BY <1>0, <1>4, <2>1 DEF SetTreasuryPolicy, PolicyReplaced, RowsTyped
<1>5. ASSUME NEW r \in Requests, EnsureDemo(r) PROVE RowsTyped'
  <2>1. requests[r].on \in Enterprises
    BY <1>0, <1>5 DEF EnsureDemo, Doing, Routes
  <2> QED  BY <1>0, <1>5, <2>1 DEF EnsureDemo, RowsTyped, Statuses
<1> QED  BY <1>1, <1>2, <1>3, <1>4, <1>5 DEF OnboardingNext

(* Admit counts, and lets through at most the one request it is about.     *)
LEMMA AdmitFacts ==
    ASSUME TypesInv, NEW r \in Requests, NEW buyer \in Enterprises, NEW seller \in Enterprises,
           Admit(r, buyer, seller)
    PROVE  /\ UNCHANGED <<rows, hour, sessions>>
           /\ hits' \in [Enterprises -> Nat] /\ \A e \in Enterprises : hits'[e] >= hits[e]
           /\ DOMAIN requests' = Requests
           /\ \/ UNCHANGED requests
              \/ /\ OthersStay(r) /\ requests[r].op # "open"
                 /\ requests'[r] = [op |-> "open", on |-> buyer, arg |-> <<seller, hour>>, seen |-> {}]
                 /\ hits[buyer] < MaxSessionsPerHour /\ hits'[buyer] = hits[buyer] + 1
                 /\ MayOpen(buyer, seller)
<1>1. /\ UNCHANGED <<rows, hour, sessions>>
      /\ requests[r] = Idle
      /\ hits' = [hits EXCEPT ![buyer] = Counted(@)]
  BY DEF Admit
<1>2. MaxSessionsPerHour \in Nat /\ hits \in [Enterprises -> Nat] /\ hits[buyer] \in Nat
  BY OpeningAssumption DEF TypesInv
<1>3. /\ Counted(hits[buyer]) \in Nat /\ Counted(hits[buyer]) >= hits[buyer]
      /\ hits[buyer] < MaxSessionsPerHour => Counted(hits[buyer]) = hits[buyer] + 1
  BY <1>2 DEF Counted
<1>4. /\ hits' \in [Enterprises -> Nat] /\ hits'[buyer] = Counted(hits[buyer])
      /\ \A e \in Enterprises : hits'[e] >= hits[e]
  BY <1>1, <1>2, <1>3
<1>5. requests[r].op # "open"
  BY <1>1, RouteNames
<1>6. CASE hits[buyer] < MaxSessionsPerHour /\ MayOpen(buyer, seller)
  <2>1. /\ DOMAIN requests' = Requests /\ OthersStay(r)
        /\ requests'[r] = [op |-> "open", on |-> buyer, arg |-> <<seller, hour>>, seen |-> {}]
    BY <1>6 DEF Admit, OthersStay, TypesInv
  <2> QED  BY <1>1, <1>3, <1>4, <1>5, <1>6, <2>1
<1>7. CASE ~(hits[buyer] < MaxSessionsPerHour /\ MayOpen(buyer, seller))
  <2>1. requests' = requests
    BY <1>7 DEF Admit
  <2> QED  BY <1>1, <1>4, <2>1 DEF TypesInv
<1> QED  BY <1>6, <1>7

(* Open makes a session of what its request carries, and ends the request. *)
LEMMA OpenFacts ==
    ASSUME TypesInv, NEW r \in Requests, Open(r)
    PROVE  /\ UNCHANGED <<rows, hour, hits>>
           /\ requests[r].op = "open" /\ requests'[r] = Idle /\ OthersStay(r)
           /\ DOMAIN requests' = Requests /\ DOMAIN sessions' = Sessions
           /\ \E s \in Sessions :
                 /\ s \notin Opened
                 /\ \A t \in Sessions \ {s} : sessions'[t] = sessions[t]
                 /\ sessions'[s].buyer = requests[r].on
                 /\ sessions'[s].seller = requests[r].arg[1]
                 /\ sessions'[s].hour = requests[r].arg[2]
                 /\ ~sessions'[s].multi
<1>1. UNCHANGED <<rows, hour, hits>> /\ requests[r].op = "open"
  BY DEF Open, Doing
<1>2. requests'[r] = Idle /\ OthersStay(r) /\ DOMAIN requests' = Requests
  BY DEF Open, Done, OthersStay, TypesInv
<1>3. PICK s \in Sessions, rate \in Locked :
          /\ sessions[s] = None
          /\ sessions' = [sessions EXCEPT ![s] =
                Session(requests[r].on, requests[r].arg[1], requests[r].arg[2], rate, FALSE)]
  BY DEF Open
<1>4. /\ DOMAIN sessions' = Sessions
      /\ \A t \in Sessions \ {s} : sessions'[t] = sessions[t]
      /\ sessions'[s] = Session(requests[r].on, requests[r].arg[1], requests[r].arg[2], rate, FALSE)
      /\ s \notin Opened
  BY <1>3 DEF TypesInv, Opened
<1>5. /\ sessions'[s].buyer = requests[r].on
      /\ sessions'[s].seller = requests[r].arg[1]
      /\ sessions'[s].hour = requests[r].arg[2]
      /\ ~sessions'[s].multi
  BY <1>4 DEF Session
<1> QED  BY <1>1, <1>2, <1>4, <1>5

(* A multi-party request takes up one seller after the other.               *)
TakesSeller(r) ==
    /\ UNCHANGED <<rows, hour, hits, sessions>>
    /\ DOMAIN requests' = Requests /\ OthersStay(r)
    /\ requests[r].op # "open" /\ requests'[r].op = "multi"
    /\ requests'[r].on \in Enterprises /\ DOMAIN requests'[r] = {"op", "on", "arg", "seen"}
    /\ requests'[r].arg \in Seq(Enterprises)
    /\ \A i \in DOMAIN requests'[r].arg :
          \/ MayOpen(requests'[r].on, requests'[r].arg[i])
          \/ /\ requests[r].op = "multi" /\ requests'[r].on = requests[r].on
             /\ i \in DOMAIN requests[r].arg /\ requests'[r].arg[i] = requests[r].arg[i]

(* The first one.                                                           *)
LEMMA AdmitMultiFacts ==
    ASSUME TypesInv, NEW r \in Requests, NEW buyer \in Enterprises, NEW seller \in Enterprises,
           AdmitMulti(r, buyer, seller)
    PROVE  TakesSeller(r)
<1> DEFINE q == [op |-> "multi", on |-> buyer, arg |-> <<seller>>, seen |-> {}]
<1>1. /\ UNCHANGED <<rows, hour, hits, sessions>> /\ MayOpen(buyer, seller)
      /\ requests[r] = Idle /\ requests' = [requests EXCEPT ![r] = q]
  BY DEF AdmitMulti
<1>2. DOMAIN requests' = Requests /\ OthersStay(r) /\ requests'[r] = q
  BY <1>1 DEF TypesInv, OthersStay
<1>3. /\ <<seller>> \in Seq(Enterprises) /\ DOMAIN <<seller>> = {1} /\ <<seller>>[1] = seller
  OBVIOUS
<1>4. requests[r].op # "open"
  BY <1>1, RouteNames
<1> QED  BY <1>1, <1>2, <1>3, <1>4 DEF TakesSeller

(* One more.                                                                *)
LEMMA NextSellerFacts ==
    ASSUME TypesInv, NEW r \in Requests, NEW seller \in Enterprises, NextSeller(r, seller)
    PROVE  TakesSeller(r)
<1> DEFINE old == requests[r]
           q == [old EXCEPT !.arg = Append(old.arg, seller)]
<1>1. /\ UNCHANGED <<rows, hour, hits, sessions>> /\ MayOpen(old.on, seller)
      /\ old.op = "multi" /\ requests' = [requests EXCEPT ![r] = q]
  BY DEF NextSeller, Doing
<1>2. RequestTyped(old, hour) /\ DOMAIN requests = Requests
  BY DEF TypesInv
<1> HIDE DEF old
<1>3. old.on \in Enterprises /\ old.arg \in Seq(Enterprises)
  BY <1>1, <1>2, RouteNames DEF RequestTyped
<1>4. /\ DOMAIN q = {"op", "on", "arg", "seen"} /\ q.op = old.op /\ q.on = old.on
      /\ q.arg = Append(old.arg, seller)
  BY <1>2 DEF RequestTyped
<1> HIDE DEF q
<1>5. DOMAIN requests' = Requests /\ OthersStay(r) /\ requests'[r] = q
  BY <1>1, <1>2 DEF OthersStay
<1>6. /\ q.arg \in Seq(Enterprises)
      /\ \A i \in DOMAIN q.arg : q.arg[i] = seller \/ (i \in DOMAIN old.arg /\ q.arg[i] = old.arg[i])
  BY <1>3, <1>4
<1> QED  BY <1>1, <1>3, <1>4, <1>5, <1>6 DEF TakesSeller, old

(* Its sessions are made together.                                          *)
LEMMA OpenMultiFacts ==
    ASSUME TypesInv, NEW r \in Requests, OpenMulti(r)
    PROVE  /\ UNCHANGED <<rows, hour, hits>>
           /\ requests[r].op = "multi" /\ requests'[r] = Idle /\ OthersStay(r)
           /\ DOMAIN requests' = Requests /\ DOMAIN sessions' = Sessions
           /\ \A s \in Sessions :
                 \/ sessions'[s] = sessions[s]
                 \/ \E i \in DOMAIN requests[r].arg :
                       /\ sessions'[s].buyer = requests[r].on
                       /\ sessions'[s].seller = requests[r].arg[i]
                       /\ sessions'[s].hour = hour
                       /\ sessions'[s].multi
<1> DEFINE sellers == requests[r].arg
<1>1. UNCHANGED <<rows, hour, hits>> /\ requests[r].op = "multi"
  BY DEF OpenMulti, Doing
<1>2. requests'[r] = Idle /\ OthersStay(r) /\ DOMAIN requests' = Requests
  BY DEF OpenMulti, Done, OthersStay, TypesInv
<1>3. PICK child, rate : sessions' = WithChildren(r, child, rate)
  BY DEF OpenMulti
<1>4. ASSUME NEW s \in Sessions, \E i \in DOMAIN sellers : child[i] = s
      PROVE  \E i \in DOMAIN sellers :
                /\ sessions'[s].buyer = requests[r].on
                /\ sessions'[s].seller = sellers[i]
                /\ sessions'[s].hour = hour
                /\ sessions'[s].multi
  <2> DEFINE n == CHOOSE i \in DOMAIN sellers : child[i] = s
  <2>1. n \in DOMAIN sellers
    BY <1>4
  <2>2. sessions'[s] = Session(requests[r].on, sellers[n], hour, rate[n], TRUE)
    BY <1>3, <1>4 DEF WithChildren
  <2> HIDE DEF n
  <2>3. /\ sessions'[s].buyer = requests[r].on /\ sessions'[s].seller = sellers[n]
        /\ sessions'[s].hour = hour /\ sessions'[s].multi
    BY <2>2 DEF Session
  <2> QED  BY <2>1, <2>3
<1>5. ASSUME NEW s \in Sessions, ~\E i \in DOMAIN sellers : child[i] = s
      PROVE  sessions'[s] = sessions[s]
  BY <1>3, <1>5 DEF WithChildren
<1>6. DOMAIN sessions' = Sessions
  BY <1>3 DEF WithChildren
<1> QED  BY <1>1, <1>2, <1>4, <1>5, <1>6

(* Every step keeps the types.                                              *)
LEMMA TypesStep == ASSUME TypesInv, [OpeningNext]_openingVars PROVE TypesInv'
<1>0. /\ RequestTyped(Idle, hour) /\ hour \in Nat /\ LastHour \in Nat
      /\ \A r \in Requests : RequestTyped(requests[r], hour)
  BY RouteNames, OpeningAssumption DEF TypesInv, RequestTyped
<1>1. CASE OnboardingNext /\ UNCHANGED <<hour, hits, sessions>>
  BY <1>1, OnboardingSettles, OnboardingRows DEF TypesInv, Opened
<1>2. ASSUME NEW r \in Requests, NEW buyer \in Enterprises, NEW seller \in Enterprises,
             Admit(r, buyer, seller)
      PROVE  TypesInv'
  <2>1. /\ UNCHANGED <<kyc, wallet, config, policies, hour, sessions>>
        /\ hits' \in [Enterprises -> Nat] /\ DOMAIN requests' = Requests
    BY <1>2, AdmitFacts DEF rows
  <2>2. \A q \in Requests : RequestTyped(requests'[q], hour)
    <3>1. CASE UNCHANGED requests
      BY <1>0, <3>1
    <3>2. CASE /\ OthersStay(r) /\ MayOpen(buyer, seller)
               /\ requests'[r] = [op |-> "open", on |-> buyer, arg |-> <<seller, hour>>, seen |-> {}]
      <4>1. RequestTyped(requests'[r], hour)
        BY <1>0, <3>2 DEF RequestTyped, MayOpen
      <4> QED  BY <1>0, <3>2, <4>1 DEF OthersStay
    <3> QED  BY <1>2, <3>1, <3>2, AdmitFacts
  <2> QED  BY <2>1, <2>2 DEF TypesInv, RowsTyped, Opened
<1>3. ASSUME NEW r \in Requests, Open(r) PROVE TypesInv'
  <2>1. /\ UNCHANGED <<kyc, wallet, config, policies, hour, hits>>
        /\ requests[r].op = "open" /\ requests'[r] = Idle /\ OthersStay(r)
        /\ DOMAIN requests' = Requests /\ DOMAIN sessions' = Sessions
    BY <1>3, OpenFacts DEF rows
  <2>2. PICK s \in Sessions :
                 /\ \A t \in Sessions \ {s} : sessions'[t] = sessions[t]
                 /\ sessions'[s].buyer = requests[r].on
                 /\ sessions'[s].seller = requests[r].arg[1]
                 /\ sessions'[s].hour = requests[r].arg[2]
    BY <1>3, OpenFacts
  <2>3. \A q \in Requests : RequestTyped(requests'[q], hour)
    BY <1>0, <2>1 DEF OthersStay
  <2>4. /\ requests[r].on \in Enterprises /\ requests[r].arg \in Enterprises \X (0 .. hour)
        /\ requests[r].on # requests[r].arg[1]
    BY <1>0, <2>1, RouteNames DEF RequestTyped
  <2> QED  BY <2>1, <2>2, <2>3, <2>4 DEF TypesInv, RowsTyped, Opened
<1>4. CASE NextHour
  <2>1. hour' = hour + 1 /\ hour' \in 0 .. LastHour /\ hour \in 0 .. hour'
    BY <1>0, <1>4 DEF NextHour
  <2>2. \A n \in 0 .. hour : n \in 0 .. hour'
    BY <1>0, <2>1
  <2>3. UNCHANGED <<kyc, wallet, config, policies, requests, sessions>>
        /\ hits' \in [Enterprises -> Nat]
    BY <1>4 DEF NextHour, rows
  <2>4. \A r \in Requests : RequestTyped(requests[r], hour')
    BY <1>0, <2>2 DEF RequestTyped
  <2> QED  BY <2>1, <2>2, <2>3, <2>4 DEF TypesInv, RowsTyped, Opened
<1>5. ASSUME NEW r \in Requests, TakesSeller(r) PROVE TypesInv'
  <2>1. /\ UNCHANGED <<kyc, wallet, config, policies, hour, hits, sessions>>
        /\ DOMAIN requests' = Requests
    BY <1>5 DEF TakesSeller, rows
  <2>2. RequestTyped(requests'[r], hour)
    <3>1. /\ DOMAIN requests'[r] = {"op", "on", "arg", "seen"} /\ requests'[r].op = "multi"
          /\ requests'[r].on \in Enterprises /\ requests'[r].arg \in Seq(Enterprises)
      BY <1>5 DEF TakesSeller
    <3>2. ASSUME NEW i \in DOMAIN requests'[r].arg PROVE requests'[r].arg[i] # requests'[r].on
      BY <1>0, <1>5 DEF TakesSeller, MayOpen, RequestTyped
    <3> QED  BY <3>1, <3>2 DEF RequestTyped
  <2>3. \A q \in Requests : RequestTyped(requests'[q], hour)
    BY <1>0, <1>5, <2>2 DEF TakesSeller, OthersStay
  <2> QED  BY <2>1, <2>3 DEF TypesInv, RowsTyped, Opened
<1>6. ASSUME NEW r \in Requests, OpenMulti(r) PROVE TypesInv'
  <2>1. /\ UNCHANGED <<kyc, wallet, config, policies, hour, hits>>
        /\ requests[r].op = "multi" /\ requests'[r] = Idle /\ OthersStay(r)
        /\ DOMAIN requests' = Requests /\ DOMAIN sessions' = Sessions
    BY <1>6, OpenMultiFacts DEF rows
  <2>2. \A q \in Requests : RequestTyped(requests'[q], hour)
    BY <1>0, <2>1 DEF OthersStay
  <2>3. /\ requests[r].on \in Enterprises /\ requests[r].arg \in Seq(Enterprises)
        /\ \A i \in DOMAIN requests[r].arg : requests[r].arg[i] # requests[r].on
    BY <1>0, <2>1, RouteNames DEF RequestTyped
  <2>4. \A i \in DOMAIN requests[r].arg : requests[r].arg[i] \in Enterprises
    BY <2>3
  <2>5. ASSUME NEW s \in Opened'
        PROVE  /\ sessions'[s].buyer \in Enterprises /\ sessions'[s].seller \in Enterprises
               /\ sessions'[s].buyer # sessions'[s].seller
               /\ sessions'[s].hour \in 0 .. hour
    <3>1. CASE sessions'[s] = sessions[s]
      BY <2>5, <3>1 DEF TypesInv, Opened
    <3>2. CASE sessions'[s] # sessions[s]
      <4>1. PICK i \in DOMAIN requests[r].arg :
                       /\ sessions'[s].buyer = requests[r].on
                       /\ sessions'[s].seller = requests[r].arg[i]
                       /\ sessions'[s].hour = hour
        BY <1>6, <2>5, <3>2, OpenMultiFacts DEF Opened
      <4> QED  BY <1>0, <2>3, <2>4, <4>1
    <3> QED  BY <3>1, <3>2
  <2> QED  BY <2>1, <2>2, <2>5 DEF TypesInv, RowsTyped
<1>7. CASE UNCHANGED openingVars
  <2>1. UNCHANGED <<kyc, wallet, config, policies, requests, hour, hits, sessions>>
    BY <1>7 DEF openingVars, onboardingVars, rows
  <2> QED  BY <2>1 DEF TypesInv, RowsTyped, Opened
<1> QED
  BY <1>1, <1>2, <1>3, <1>4, <1>5, <1>6, <1>7, AdmitMultiFacts, NextSellerFacts DEF OpeningNext

(* Nothing exists at first.                                                 *)
LEMMA TypesInit == ASSUME OpeningInit PROVE TypesInv
<1>1. RowsTyped
  BY DEF OpeningInit, OnboardingInit, RowsTyped, Statuses
<1>2. \A r \in Requests : RequestTyped(requests[r], hour)
  BY RouteNames DEF OpeningInit, OnboardingInit, RequestTyped
<1>3. Opened = {}
  BY DEF OpeningInit, Opened
<1> QED  BY <1>1, <1>2, <1>3, OpeningAssumption DEF OpeningInit, OnboardingInit, TypesInv

(* The types hold of every behaviour.                                       *)
LEMMA TypesInvariance == OpeningSpec => []TypesInv
BY TypesInit, TypesStep, PTL DEF OpeningSpec
-------------------------------------------------------------------------------
(* The hourly budget.                                                       *)

OpenedIn(e, h) ==
    {s \in Opened : /\ sessions[s].buyer = e /\ sessions[s].hour = h
                    /\ ~sessions[s].multi}

InFlight(e, h) ==
    {r \in Requests : requests[r].op = "open" /\ requests[r].on = e /\ requests[r].arg[2] = h}

(* What an enterprise has opened in an hour, or may still open for it, was  *)
(* counted in that hour, and no more of it than the budget.                 *)
WithinBudget(opened, inFlight) ==
    /\ IsFiniteSet(opened) /\ IsFiniteSet(inFlight)
    /\ Cardinality(opened) + Cardinality(inFlight) <= MaxSessionsPerHour

BudgetInv ==
    \A e \in Enterprises, h \in 0 .. LastHour :
        /\ WithinBudget(OpenedIn(e, h), InFlight(e, h))
        /\ h = hour => Cardinality(OpenedIn(e, h)) + Cardinality(InFlight(e, h)) <= hits[e]

(* One element more makes a finite set larger by one at most.               *)
LEMMA OneMore ==
    ASSUME NEW S, IsFiniteSet(S), NEW x
    PROVE  /\ IsFiniteSet(S \cup {x})
           /\ Cardinality(S) \in Nat /\ Cardinality(S \cup {x}) \in Nat
           /\ Cardinality(S \cup {x}) <= Cardinality(S) + 1
<1>1. /\ IsFiniteSet(S \cup {x})
      /\ Cardinality(S \cup {x}) = IF x \in S THEN Cardinality(S) ELSE Cardinality(S) + 1
  BY FS_AddElement
<1>2. Cardinality(S) \in Nat /\ Cardinality(S \cup {x}) \in Nat
  BY <1>1, FS_CardinalityType
<1> QED  BY <1>1, <1>2

(* Two finite sets that lose elements: requests that end.                   *)
LEMMA Fewer ==
    ASSUME NEW A, NEW B, IsFiniteSet(A), IsFiniteSet(B), NEW C, NEW D, C \subseteq A, D \subseteq B
    PROVE  /\ Cardinality(A) \in Nat /\ Cardinality(B) \in Nat
           /\ IsFiniteSet(C) /\ IsFiniteSet(D)
           /\ Cardinality(C) + Cardinality(D) <= Cardinality(A) + Cardinality(B)
<1>1. /\ IsFiniteSet(C) /\ IsFiniteSet(D)
      /\ Cardinality(C) <= Cardinality(A) /\ Cardinality(D) <= Cardinality(B)
  BY FS_Subset
<1>2. /\ Cardinality(A) \in Nat /\ Cardinality(B) \in Nat
      /\ Cardinality(C) \in Nat /\ Cardinality(D) \in Nat
  BY <1>1, FS_CardinalityType
<1> QED  BY <1>1, <1>2

(* One that gains an element the other loses: a request opens a session.    *)
LEMMA OneMoves ==
    ASSUME NEW A, NEW B, IsFiniteSet(A), IsFiniteSet(B), NEW C, NEW D,
           NEW x, NEW y \in B, C \subseteq A \cup {x}, D \subseteq B \ {y}
    PROVE  /\ Cardinality(A) \in Nat /\ Cardinality(B) \in Nat
           /\ IsFiniteSet(C) /\ IsFiniteSet(D)
           /\ Cardinality(C) + Cardinality(D) <= Cardinality(A) + Cardinality(B)
<1>1. /\ IsFiniteSet(A \cup {x}) /\ Cardinality(A) \in Nat
      /\ Cardinality(A \cup {x}) <= Cardinality(A) + 1
  BY OneMore
<1>2. /\ IsFiniteSet(B \ {y}) /\ Cardinality(B) \in Nat
      /\ Cardinality(B \ {y}) = Cardinality(B) - 1
  BY FS_RemoveElement, FS_CardinalityType
<1>3. /\ IsFiniteSet(C) /\ IsFiniteSet(D)
      /\ Cardinality(A \cup {x}) \in Nat /\ Cardinality(B \ {y}) \in Nat
      /\ Cardinality(C) + Cardinality(D) <= Cardinality(A \cup {x}) + Cardinality(B \ {y})
  BY <1>1, <1>2, Fewer
<1>4. Cardinality(C) \in Nat /\ Cardinality(D) \in Nat
  BY <1>3, FS_CardinalityType
<1> QED  BY <1>1, <1>2, <1>3, <1>4

(* One that gains an element: a request begins.                             *)
LEMMA OneBegins ==
    ASSUME NEW A, NEW B, IsFiniteSet(A), IsFiniteSet(B), NEW C, NEW D,
           NEW y, C \subseteq A, D \subseteq B \cup {y}
    PROVE  /\ Cardinality(A) \in Nat /\ Cardinality(B) \in Nat
           /\ IsFiniteSet(C) /\ IsFiniteSet(D)
           /\ Cardinality(C) + Cardinality(D) <= Cardinality(A) + Cardinality(B) + 1
<1>1. /\ IsFiniteSet(B \cup {y}) /\ Cardinality(B) \in Nat
      /\ Cardinality(B \cup {y}) <= Cardinality(B) + 1
  BY OneMore
<1>2. /\ IsFiniteSet(C) /\ IsFiniteSet(D)
      /\ Cardinality(A) \in Nat /\ Cardinality(B \cup {y}) \in Nat
      /\ Cardinality(C) + Cardinality(D) <= Cardinality(A) + Cardinality(B \cup {y})
  BY <1>1, Fewer
<1>3. Cardinality(C) \in Nat /\ Cardinality(D) \in Nat
  BY <1>2, FS_CardinalityType
<1> QED  BY <1>1, <1>2, <1>3

(* Steps that start and open nothing the budget counts, and forget no       *)
(* attempt of the hour.                                                     *)
LEMMA BudgetShrinks ==
    ASSUME TypesInv, BudgetInv, UNCHANGED hour,
           \A r \in Requests : requests'[r].op = "open" => requests'[r] = requests[r],
           \A s \in Sessions : sessions'[s] = sessions[s] \/ sessions'[s].multi,
           hits' \in [Enterprises -> Nat], \A e \in Enterprises : hits'[e] >= hits[e]
    PROVE  BudgetInv'
<1> SUFFICES ASSUME NEW e \in Enterprises, NEW h \in 0 .. LastHour
             PROVE  /\ WithinBudget(OpenedIn(e, h)', InFlight(e, h)')
                    /\ h = hour => Cardinality(OpenedIn(e, h)') + Cardinality(InFlight(e, h)')
                                       <= hits'[e]
  BY DEF BudgetInv, WithinBudget
<1>1. OpenedIn(e, h)' \subseteq OpenedIn(e, h) /\ InFlight(e, h)' \subseteq InFlight(e, h)
  BY DEF OpenedIn, Opened, InFlight
<1>2. /\ WithinBudget(OpenedIn(e, h), InFlight(e, h))
      /\ h = hour => Cardinality(OpenedIn(e, h)) + Cardinality(InFlight(e, h)) <= hits[e]
  BY DEF BudgetInv
<1>3. /\ IsFiniteSet(OpenedIn(e, h)') /\ IsFiniteSet(InFlight(e, h)')
      /\ Cardinality(OpenedIn(e, h)') + Cardinality(InFlight(e, h)')
            <= Cardinality(OpenedIn(e, h)) + Cardinality(InFlight(e, h))
      /\ Cardinality(OpenedIn(e, h)) \in Nat /\ Cardinality(InFlight(e, h)) \in Nat
  BY <1>1, <1>2, Fewer DEF WithinBudget
<1>4. Cardinality(OpenedIn(e, h)') \in Nat /\ Cardinality(InFlight(e, h)') \in Nat
  BY <1>3, FS_CardinalityType
<1>5. hits[e] \in Nat /\ hits'[e] \in Nat /\ hits'[e] >= hits[e] /\ MaxSessionsPerHour \in Nat
  BY OpeningAssumption DEF TypesInv
<1> QED  BY <1>2, <1>3, <1>4, <1>5 DEF WithinBudget

(* Every step keeps the budget: an attempt is counted before it is let     *)
(* through, a session replaces the request that opens it, and a new hour    *)
(* has none of either.                                                      *)
LEMMA BudgetStep ==
    ASSUME TypesInv, TypesInv', BudgetInv, [OpeningNext]_openingVars
    PROVE  BudgetInv'
<1>0. /\ MaxSessionsPerHour \in Nat \ {0} /\ hour \in 0 .. LastHour /\ LastHour \in Nat
      /\ hits \in [Enterprises -> Nat]
  BY OpeningAssumption DEF TypesInv
<1>1. CASE OnboardingNext /\ UNCHANGED <<hour, hits, sessions>>
  <2>1. \A r \in Requests : requests'[r].op = "open" => requests'[r] = requests[r]
    BY <1>1, OnboardingSettles DEF Settling
  <2> QED  BY <1>0, <1>1, <2>1, BudgetShrinks
<1>2. CASE UNCHANGED openingVars
  <2>1. UNCHANGED <<requests, hour, hits, sessions>>
    BY <1>2 DEF openingVars, onboardingVars
  <2> QED  BY <1>0, <2>1, BudgetShrinks
<1>3. ASSUME NEW r \in Requests, NEW buyer \in Enterprises, NEW seller \in Enterprises,
             Admit(r, buyer, seller)
      PROVE  BudgetInv'
  <2>1. /\ UNCHANGED <<hour, sessions>> /\ hits' \in [Enterprises -> Nat]
        /\ \A e \in Enterprises : hits'[e] >= hits[e]
    BY <1>3, AdmitFacts
  <2>2. CASE UNCHANGED requests
    BY <2>1, <2>2, BudgetShrinks
  <2>3. CASE /\ OthersStay(r) /\ requests[r].op # "open"
             /\ requests'[r] = [op |-> "open", on |-> buyer, arg |-> <<seller, hour>>, seen |-> {}]
             /\ hits[buyer] < MaxSessionsPerHour /\ hits'[buyer] = hits[buyer] + 1
    <3> SUFFICES ASSUME NEW e \in Enterprises, NEW h \in 0 .. LastHour
                 PROVE  /\ WithinBudget(OpenedIn(e, h)', InFlight(e, h)')
                        /\ h = hour => Cardinality(OpenedIn(e, h)') + Cardinality(InFlight(e, h)')
                                           <= hits'[e]
      BY <2>1 DEF BudgetInv, WithinBudget
    <3>1. /\ OpenedIn(e, h)' \subseteq OpenedIn(e, h)
          /\ InFlight(e, h)' \subseteq InFlight(e, h) \cup {r}
          /\ e # buyer \/ h # hour => InFlight(e, h)' \subseteq InFlight(e, h)
      BY <2>1, <2>3 DEF OpenedIn, Opened, InFlight, OthersStay
    <3>2. /\ WithinBudget(OpenedIn(e, h), InFlight(e, h))
          /\ h = hour => Cardinality(OpenedIn(e, h)) + Cardinality(InFlight(e, h)) <= hits[e]
      BY DEF BudgetInv
    <3>3. /\ IsFiniteSet(OpenedIn(e, h)') /\ IsFiniteSet(InFlight(e, h)')
          /\ Cardinality(OpenedIn(e, h)') + Cardinality(InFlight(e, h)')
                <= Cardinality(OpenedIn(e, h)) + Cardinality(InFlight(e, h)) + 1
          /\ e # buyer \/ h # hour =>
                Cardinality(OpenedIn(e, h)') + Cardinality(InFlight(e, h)')
                   <= Cardinality(OpenedIn(e, h)) + Cardinality(InFlight(e, h))
          /\ Cardinality(OpenedIn(e, h)) \in Nat /\ Cardinality(InFlight(e, h)) \in Nat
      BY <3>1, <3>2, Fewer, OneBegins DEF WithinBudget
    <3>4. Cardinality(OpenedIn(e, h)') \in Nat /\ Cardinality(InFlight(e, h)') \in Nat
      BY <3>3, FS_CardinalityType
    <3>5. hits[e] \in Nat /\ hits'[e] \in Nat /\ hits'[e] >= hits[e] /\ hits[buyer] \in Nat
      BY <1>0, <2>1
    <3>6. CASE e = buyer /\ h = hour
      BY <1>0, <2>3, <3>2, <3>3, <3>4, <3>5, <3>6 DEF WithinBudget
    <3>7. CASE e # buyer \/ h # hour
      BY <1>0, <3>2, <3>3, <3>4, <3>5, <3>7 DEF WithinBudget
    <3> QED  BY <3>6, <3>7
  <2> QED  BY <1>3, <2>2, <2>3, AdmitFacts
<1>4. ASSUME NEW r \in Requests, Open(r) PROVE BudgetInv'
  <2>1. /\ UNCHANGED <<hour, hits>> /\ requests[r].op = "open"
        /\ requests'[r] = Idle /\ OthersStay(r)
    BY <1>4, OpenFacts
  <2>2. PICK s \in Sessions :
            /\ \A t \in Sessions \ {s} : sessions'[t] = sessions[t]
            /\ sessions'[s].buyer = requests[r].on
            /\ sessions'[s].hour = requests[r].arg[2]
    BY <1>4, OpenFacts
  <2> SUFFICES ASSUME NEW e \in Enterprises, NEW h \in 0 .. LastHour
               PROVE  /\ WithinBudget(OpenedIn(e, h)', InFlight(e, h)')
                      /\ h = hour => Cardinality(OpenedIn(e, h)') + Cardinality(InFlight(e, h)')
                                         <= hits[e]
    BY <2>1 DEF BudgetInv, WithinBudget
  <2> DEFINE its == requests[r].on = e /\ requests[r].arg[2] = h
  <2>3. /\ ~its => OpenedIn(e, h)' \subseteq OpenedIn(e, h)
        /\ OpenedIn(e, h)' \subseteq OpenedIn(e, h) \cup {s}
    BY <2>2 DEF OpenedIn, Opened
  <2>4. /\ InFlight(e, h)' \subseteq InFlight(e, h) \ {r}
        /\ its => r \in InFlight(e, h)
    BY <2>1, RouteNames DEF InFlight, OthersStay
  <2>5. /\ WithinBudget(OpenedIn(e, h), InFlight(e, h))
        /\ h = hour => Cardinality(OpenedIn(e, h)) + Cardinality(InFlight(e, h)) <= hits[e]
    BY DEF BudgetInv
  <2>6. /\ IsFiniteSet(OpenedIn(e, h)') /\ IsFiniteSet(InFlight(e, h)')
        /\ Cardinality(OpenedIn(e, h)') + Cardinality(InFlight(e, h)')
              <= Cardinality(OpenedIn(e, h)) + Cardinality(InFlight(e, h))
        /\ Cardinality(OpenedIn(e, h)) \in Nat /\ Cardinality(InFlight(e, h)) \in Nat
    <3>1. CASE its
      <4>1. /\ OpenedIn(e, h)' \subseteq OpenedIn(e, h) \cup {s}
            /\ InFlight(e, h)' \subseteq InFlight(e, h) \ {r} /\ r \in InFlight(e, h)
        BY <2>3, <2>4, <3>1
      <4>2. IsFiniteSet(OpenedIn(e, h)) /\ IsFiniteSet(InFlight(e, h))
        BY <2>5 DEF WithinBudget
      <4> DEFINE A == OpenedIn(e, h)
                 B == InFlight(e, h)
                 C == OpenedIn(e, h)'
                 D == InFlight(e, h)'
      <4>3. /\ IsFiniteSet(A) /\ IsFiniteSet(B) /\ C \subseteq A \cup {s}
            /\ r \in B /\ D \subseteq B \ {r}
        BY <4>1, <4>2
      <4> HIDE DEF A, B, C, D
      <4>4. /\ Cardinality(A) \in Nat /\ Cardinality(B) \in Nat
            /\ IsFiniteSet(C) /\ IsFiniteSet(D)
            /\ Cardinality(C) + Cardinality(D) <= Cardinality(A) + Cardinality(B)
        BY ONLY <4>3, OneMoves
      <4> QED  BY <4>4 DEF A, B, C, D
    <3>2. CASE ~its
      <4>1. OpenedIn(e, h)' \subseteq OpenedIn(e, h) /\ InFlight(e, h)' \subseteq InFlight(e, h)
        BY <2>3, <2>4, <3>2
      <4> QED  BY <2>5, <4>1, Fewer DEF WithinBudget
    <3> QED  BY <3>1, <3>2
  <2>7. /\ Cardinality(OpenedIn(e, h)') \in Nat /\ Cardinality(InFlight(e, h)') \in Nat
        /\ hits[e] \in Nat
    BY <1>0, <2>6, FS_CardinalityType
  <2> QED  BY <1>0, <2>5, <2>6, <2>7 DEF WithinBudget
<1>5. CASE NextHour
  <2>1. /\ UNCHANGED <<requests, sessions>> /\ hour' = hour + 1
        /\ hits' = [e \in Enterprises |-> 0]
    BY <1>5 DEF NextHour
  <2>0. ASSUME NEW e \in Enterprises, NEW h \in 0 .. LastHour
        PROVE  /\ OpenedIn(e, h)' = OpenedIn(e, h) /\ InFlight(e, h)' = InFlight(e, h)
               /\ hits'[e] = 0
    BY <2>1 DEF OpenedIn, Opened, InFlight
  <2> SUFFICES ASSUME NEW e \in Enterprises, NEW h \in 0 .. LastHour
               PROVE  /\ WithinBudget(OpenedIn(e, h), InFlight(e, h))
                      /\ h = hour' => Cardinality(OpenedIn(e, h)) + Cardinality(InFlight(e, h)) <= 0
    BY <2>0 DEF BudgetInv, WithinBudget
  <2>2. WithinBudget(OpenedIn(e, h), InFlight(e, h))
    BY DEF BudgetInv
  <2>3. ASSUME h = hour' PROVE OpenedIn(e, h) = {} /\ InFlight(e, h) = {}
    <3>1. h \notin 0 .. hour
      BY <1>0, <2>1, <2>3
    <3>2. OpenedIn(e, h) = {}
      BY <3>1 DEF OpenedIn, TypesInv
    <3>3. \A r \in Requests : requests[r].op = "open" => requests[r].arg[2] \in 0 .. hour
      BY DEF TypesInv, RequestTyped
    <3> QED  BY <3>1, <3>2, <3>3 DEF InFlight
  <2> QED  BY <2>2, <2>3, FS_EmptySet
<1>6. ASSUME NEW r \in Requests, TakesSeller(r) PROVE BudgetInv'
  <2>1. UNCHANGED <<hour, hits, sessions>> /\ OthersStay(r) /\ requests'[r].op # "open"
    BY <1>6 DEF TakesSeller
  <2>2. \A q \in Requests : requests'[q].op = "open" => requests'[q] = requests[q]
    BY <2>1 DEF OthersStay
  <2> QED  BY <1>0, <2>1, <2>2, BudgetShrinks
<1>7. ASSUME NEW r \in Requests, OpenMulti(r) PROVE BudgetInv'
  <2>1. UNCHANGED <<hour, hits>> /\ OthersStay(r) /\ requests'[r].op # "open"
    BY <1>7, OpenMultiFacts, RouteNames
  <2>2. \A q \in Requests : requests'[q].op = "open" => requests'[q] = requests[q]
    BY <2>1 DEF OthersStay
  <2>3. \A s \in Sessions : sessions'[s] = sessions[s] \/ sessions'[s].multi
    BY <1>7, OpenMultiFacts
  <2> QED  BY <1>0, <2>1, <2>2, <2>3, BudgetShrinks
<1> QED
  BY <1>1, <1>2, <1>3, <1>4, <1>5, <1>6, <1>7, AdmitMultiFacts, NextSellerFacts DEF OpeningNext

(* HourlyBudget, for every budget and any number of overlapping requests:   *)
(* the INCR comes before the decision, so what POST /sessions may still     *)
(* open is counted already; what POST /sessions/multi opens beside it is    *)
(* no part of the budget.                                                   *)
THEOREM BudgetIsKept == OpeningSpec => []HourlyBudget
<1>1. ASSUME OpeningInit PROVE BudgetInv
  <2>1. \A e, h : OpenedIn(e, h) = {} /\ InFlight(e, h) = {}
    BY <1>1, RouteNames DEF OpeningInit, OnboardingInit, OpenedIn, Opened, InFlight
  <2>2. WithinBudget({}, {}) /\ Cardinality({}) = 0
    BY FS_EmptySet, OpeningAssumption DEF WithinBudget
  <2>3. \A e \in Enterprises : hits[e] = 0
    BY <1>1 DEF OpeningInit
  <2> QED  BY <2>1, <2>2, <2>3 DEF BudgetInv
<1>2. TypesInv /\ TypesInv' /\ BudgetInv /\ [OpeningNext]_openingVars => BudgetInv'
  BY BudgetStep
<1>3. ASSUME BudgetInv PROVE HourlyBudget
  <2> SUFFICES ASSUME NEW e \in Enterprises, NEW h \in 0 .. LastHour
               PROVE  Cardinality(OpenedIn(e, h)) <= MaxSessionsPerHour
    BY DEF HourlyBudget, OpenedIn
  <2>1. WithinBudget(OpenedIn(e, h), InFlight(e, h))
    BY <1>3 DEF BudgetInv
  <2>2. Cardinality(OpenedIn(e, h)) \in Nat /\ Cardinality(InFlight(e, h)) \in Nat
    BY <2>1, FS_CardinalityType DEF WithinBudget
  <2> QED  BY <2>1, <2>2, OpeningAssumption DEF WithinBudget
<1> QED  BY <1>1, <1>2, <1>3, TypesInvariance, PTL DEF OpeningSpec
-------------------------------------------------------------------------------
(* What the parties need.                                                   *)

Party(e) == kyc[e] \notin {None, "PENDING"} /\ config[e] /\ (WalletsComeFirst => wallet[e])

Equipped(buyer, seller) == Party(buyer) /\ Party(seller) /\ policies[buyer] # {}

(* Whoever is active has a wallet; whoever is let through to open a session *)
(* is equipped, and so are the parties of the open ones.                    *)
ReadyInv ==
    /\ WalletsComeFirst => \A e \in Enterprises : kyc[e] = "ACTIVE" => wallet[e]
    /\ \A r \in Requests :
          /\ requests[r].op = "open" => Equipped(requests[r].on, requests[r].arg[1])
          /\ requests[r].op = "multi" =>
                \A i \in DOMAIN requests[r].arg : Equipped(requests[r].on, requests[r].arg[i])
    /\ \A s \in Opened : Equipped(sessions[s].buyer, sessions[s].seller)

(* What an enterprise has it never loses, whatever the routes had read.     *)
LEMMA NothingIsLost ==
    ASSUME TypesInv, OnboardingNext, NEW e \in Enterprises
    PROVE  /\ Party(e) => Party(e)'
           /\ policies[e] # {} => (policies[e])' # {}
           /\ WalletsComeFirst /\ (kyc[e] = "ACTIVE" => wallet[e]) =>
                 ((kyc[e])' = "ACTIVE" => (wallet[e])')
<1>0. /\ kyc \in [Enterprises -> Statuses]
      /\ wallet \in [Enterprises -> BOOLEAN] /\ config \in [Enterprises -> BOOLEAN]
      /\ policies \in [Enterprises -> SUBSET Requests]
      /\ \A r \in Requests : requests[r].op \in Routes => requests[r].on \in Enterprises
  BY RouteNames DEF TypesInv, RowsTyped, RequestTyped
<1>1. CASE UNCHANGED rows
  BY <1>1 DEF rows, Party
<1>2. ASSUME NEW d \in Enterprises, Register(d)
      PROVE  /\ Party(e) => Party(e)'
             /\ policies[e] # {} => (policies[e])' # {}
             /\ WalletsComeFirst /\ (kyc[e] = "ACTIVE" => wallet[e]) =>
                   ((kyc[e])' = "ACTIVE" => (wallet[e])')
  <2>1. /\ UNCHANGED <<wallet, config, policies>> /\ kyc[d] = None
        /\ kyc'[e] = IF e = d THEN (IF AutoActivate THEN "ACTIVE" ELSE "PENDING") ELSE kyc[e]
    BY <1>0, <1>2 DEF Register, Exists
  <2> QED  BY <2>1 DEF Party, WalletsComeFirst
<1>3. ASSUME NEW d \in Enterprises, SetAgentConfig(d)
      PROVE  UNCHANGED <<kyc, wallet, policies>> /\ (config[e] => config'[e])
  BY <1>0, <1>3 DEF SetAgentConfig
<1>4. ASSUME NEW r \in Requests, VerifyEmail(r)
      PROVE  /\ UNCHANGED <<wallet, config, policies>>
             /\ kyc'[e] \in {kyc[e], "EMAIL_VERIFIED"}
  BY <1>0, <1>4 DEF VerifyEmail
<1>5. ASSUME NEW r \in Requests, Activate(r)
      PROVE  /\ UNCHANGED <<config, policies>>
             /\ \/ kyc'[e] = kyc[e] /\ wallet'[e] = wallet[e]
                \/ kyc'[e] = "ACTIVE" /\ wallet'[e]
  BY <1>0, <1>5 DEF Activate
<1>6. ASSUME NEW r \in Requests, SetTreasuryPolicy(r)
      PROVE  /\ UNCHANGED <<kyc, wallet, config>>
             /\ policies[e] # {} => policies'[e] # {}
  BY <1>0, <1>6 DEF SetTreasuryPolicy, PolicyReplaced
<1>7. ASSUME NEW r \in Requests, EnsureDemo(r)
      PROVE  /\ config[e] => config'[e]
             /\ policies[e] # {} => policies'[e] # {}
             /\ kyc[e] # None => kyc'[e] = kyc[e]
             /\ wallet[e] => wallet'[e]
             /\ kyc'[e] # kyc[e] /\ DemoWallets => wallet'[e]
  BY <1>0, <1>7 DEF EnsureDemo
<1>8. "EMAIL_VERIFIED" \notin {None, "PENDING"} /\ "ACTIVE" \notin {None, "PENDING"}
  BY OnboardingAssumption
<1>9. ASSUME NEW r \in Requests, (\E op \in Routes, d \in Enterprises : Begin(r, op, d)) \/ Fail(r)
      PROVE  UNCHANGED rows
  BY <1>9 DEF Begin, Fail
<1>10. CASE \E d \in Enterprises : Register(d) \/ SetAgentConfig(d)
  BY <1>2, <1>3, <1>10 DEF Party
<1>11. CASE \E r \in Requests : VerifyEmail(r) \/ Activate(r)
  BY <1>4, <1>5, <1>8, <1>11 DEF Party
<1>12. CASE \E r \in Requests : SetTreasuryPolicy(r)
  BY <1>6, <1>12 DEF Party
<1>13. CASE \E r \in Requests : EnsureDemo(r)
  BY <1>0, <1>7, <1>8, <1>13 DEF Party, WalletsComeFirst
<1> QED  BY <1>1, <1>9, <1>10, <1>11, <1>12, <1>13 DEF OnboardingNext

(* So equipped parties stay equipped.                                       *)
LEMMA EquippedStays ==
    ASSUME TypesInv, OnboardingNext, NEW buyer \in Enterprises, NEW seller \in Enterprises,
           Equipped(buyer, seller)
    PROVE  Equipped(buyer, seller)'
<1>1. Party(buyer)' /\ Party(seller)' /\ (policies[buyer])' # {}
  BY NothingIsLost DEF Equipped
<1> QED  BY <1>1 DEF Equipped

(* Who may open a session is equipped for it.                               *)
LEMMA MayOpenEquipped ==
    ASSUME ReadyInv, NEW buyer \in Enterprises, NEW seller \in Enterprises, MayOpen(buyer, seller)
    PROVE  Equipped(buyer, seller)
<1>1. kyc[buyer] = "ACTIVE" /\ kyc[seller] = "ACTIVE" /\ config[buyer] /\ config[seller]
  BY DEF MayOpen
<1>2. policies[buyer] # {}
  BY FS_EmptySet DEF MayOpen
<1>3. "ACTIVE" \notin {None, "PENDING"}
  BY OnboardingAssumption
<1> QED  BY <1>1, <1>2, <1>3 DEF ReadyInv, Equipped, Party

(* The steps of an opening request, by what they do to requests and         *)
(* sessions.                                                                *)
LEMMA ReadyMoves ==
    ASSUME TypesInv, ReadyInv, UNCHANGED <<kyc, wallet, config, policies>>,
           \A r \in Requests :
              \/ requests'[r] = requests[r] \/ requests'[r].op \notin {"open", "multi"}
              \/ requests'[r].op = "open" /\ Equipped(requests'[r].on, requests'[r].arg[1])
              \/ /\ requests'[r].op = "multi"
                 /\ \A i \in DOMAIN requests'[r].arg : Equipped(requests'[r].on, requests'[r].arg[i]),
           \A s \in Sessions :
              sessions'[s] = sessions[s] \/ Equipped(sessions'[s].buyer, sessions'[s].seller)
    PROVE  ReadyInv'
<1>1. \A b, d : Equipped(b, d)' <=> Equipped(b, d)
  BY DEF Equipped, Party, WalletsComeFirst
<1>2. WalletsComeFirst => \A e \in Enterprises : kyc'[e] = "ACTIVE" => wallet'[e]
  BY DEF ReadyInv
<1>3. ASSUME NEW r \in Requests
      PROVE  /\ requests'[r].op = "open" => Equipped(requests'[r].on, requests'[r].arg[1])
             /\ requests'[r].op = "multi" =>
                   \A i \in DOMAIN requests'[r].arg : Equipped(requests'[r].on, requests'[r].arg[i])
  BY DEF ReadyInv
<1>4. ASSUME NEW s \in Sessions, sessions'[s] # None
      PROVE  Equipped(sessions'[s].buyer, sessions'[s].seller)
  BY <1>4 DEF ReadyInv, Opened
<1> QED
  BY <1>2, <1>3, <1>4 DEF ReadyInv, Equipped, Party, Opened, WalletsComeFirst

(* Every step keeps ReadyInv.                                               *)
LEMMA ReadyStep == ASSUME TypesInv, ReadyInv, [OpeningNext]_openingVars PROVE ReadyInv'
<1>0. /\ \A r \in Requests : requests[r].op = "open" =>
            requests[r].on \in Enterprises /\ requests[r].arg[1] \in Enterprises
      /\ \A r \in Requests : requests[r].op = "multi" =>
            /\ requests[r].on \in Enterprises
            /\ \A i \in DOMAIN requests[r].arg : requests[r].arg[i] \in Enterprises
      /\ \A s \in Opened : sessions[s].buyer \in Enterprises /\ sessions[s].seller \in Enterprises
  BY RouteNames DEF TypesInv, RequestTyped
<1>1. CASE OnboardingNext /\ UNCHANGED <<hour, hits, sessions>>
  <2>1. WalletsComeFirst => \A e \in Enterprises : kyc'[e] = "ACTIVE" => wallet'[e]
    BY <1>1, NothingIsLost DEF ReadyInv
  <2>2. \A buyer \in Enterprises, seller \in Enterprises :
            Equipped(buyer, seller) => Equipped(buyer, seller)'
    BY <1>1, EquippedStays
  <2>3. \A r \in Requests : requests'[r].op \in {"open", "multi"} => requests'[r] = requests[r]
    BY <1>1, OnboardingSettles DEF Settling
  <2>4. ASSUME NEW r \in Requests, requests'[r].op = "open"
        PROVE  (Equipped(requests[r].on, requests[r].arg[1]))'
    <3>1. /\ requests'[r] = requests[r] /\ Equipped(requests[r].on, requests[r].arg[1])
          /\ requests[r].on \in Enterprises /\ requests[r].arg[1] \in Enterprises
      BY <1>0, <2>3, <2>4 DEF ReadyInv
    <3> QED  BY <2>2, <3>1 DEF Equipped, Party
  <2>5. ASSUME NEW r \in Requests, requests'[r].op = "multi"
        PROVE  (\A i \in DOMAIN requests[r].arg : Equipped(requests[r].on, requests[r].arg[i]))'
    <3>1. requests'[r] = requests[r] /\ requests[r].on \in Enterprises
      BY <1>0, <2>3, <2>5
    <3>2. ASSUME NEW i \in DOMAIN requests[r].arg
          PROVE  /\ Equipped(requests[r].on, requests[r].arg[i])
                 /\ requests[r].arg[i] \in Enterprises
      BY <1>0, <2>5, <3>1 DEF ReadyInv
    <3> QED  BY <2>2, <3>1, <3>2 DEF Equipped, Party
  <2>6. ASSUME NEW s \in Opened
        PROVE  (Equipped(sessions[s].buyer, sessions[s].seller))'
    <3>1. /\ sessions' = sessions /\ Equipped(sessions[s].buyer, sessions[s].seller)
          /\ sessions[s].buyer \in Enterprises /\ sessions[s].seller \in Enterprises
      BY <1>0, <1>1, <2>6 DEF ReadyInv
    <3> QED  BY <2>2, <3>1 DEF Equipped, Party
  <2>7. Opened' = Opened
    BY <1>1 DEF Opened
  <2> QED  BY <2>1, <2>4, <2>5, <2>6, <2>7 DEF ReadyInv, WalletsComeFirst
<1>2. ASSUME NEW r \in Requests, NEW buyer \in Enterprises, NEW seller \in Enterprises,
             Admit(r, buyer, seller)
      PROVE  ReadyInv'
  <2>1. UNCHANGED <<kyc, wallet, config, policies, sessions>>
    BY <1>2, AdmitFacts DEF rows
  <2>2. CASE UNCHANGED requests
    BY <2>1, <2>2, ReadyMoves
  <2>3. CASE /\ OthersStay(r) /\ MayOpen(buyer, seller)
             /\ requests'[r] = [op |-> "open", on |-> buyer, arg |-> <<seller, hour>>, seen |-> {}]
    <3>1. /\ requests'[r].op = "open" /\ requests'[r].on = buyer /\ requests'[r].arg[1] = seller
          /\ \A q \in Requests \ {r} : requests'[q] = requests[q]
      BY <2>3 DEF OthersStay
    <3>2. Equipped(requests'[r].on, requests'[r].arg[1])
      BY <2>3, <3>1, MayOpenEquipped
    <3> QED  BY <2>1, <3>1, <3>2, ReadyMoves
  <2> QED  BY <1>2, <2>2, <2>3, AdmitFacts
<1>3. ASSUME NEW r \in Requests, Open(r) PROVE ReadyInv'
  <2>1. /\ UNCHANGED <<kyc, wallet, config, policies>>
        /\ requests[r].op = "open" /\ requests'[r] = Idle /\ OthersStay(r)
    BY <1>3, OpenFacts DEF rows
  <2>2. PICK s \in Sessions :
            /\ \A t \in Sessions \ {s} : sessions'[t] = sessions[t]
            /\ sessions'[s].buyer = requests[r].on
            /\ sessions'[s].seller = requests[r].arg[1]
    BY <1>3, OpenFacts
  <2>3. Equipped(sessions'[s].buyer, sessions'[s].seller)
    BY <2>1, <2>2 DEF ReadyInv
  <2>4. \A q \in Requests : requests'[q] = requests[q] \/ requests'[q].op \notin {"open", "multi"}
    BY <2>1, RouteNames DEF OthersStay
  <2> QED  BY <2>1, <2>2, <2>3, <2>4, ReadyMoves
<1>4. ASSUME NEW r \in Requests, TakesSeller(r) PROVE ReadyInv'
  <2>1. /\ UNCHANGED <<kyc, wallet, config, policies, sessions>> /\ OthersStay(r)
        /\ requests'[r].op = "multi" /\ requests'[r].on \in Enterprises
        /\ requests'[r].arg \in Seq(Enterprises)
    BY <1>4 DEF TakesSeller, rows
  <2>2. ASSUME NEW i \in DOMAIN requests'[r].arg
        PROVE  Equipped(requests'[r].on, requests'[r].arg[i])
    <3>1. requests'[r].arg[i] \in Enterprises
      BY <2>1
    <3>2. CASE MayOpen(requests'[r].on, requests'[r].arg[i])
      BY <2>1, <3>1, <3>2, MayOpenEquipped
    <3>3. CASE /\ requests[r].op = "multi" /\ requests'[r].on = requests[r].on
               /\ i \in DOMAIN requests[r].arg /\ requests'[r].arg[i] = requests[r].arg[i]
      <4>1. Equipped(requests[r].on, requests[r].arg[i])
        BY <3>3 DEF ReadyInv
      <4> QED  BY <3>3, <4>1
    <3> QED  BY <1>4, <3>2, <3>3 DEF TakesSeller
  <2> QED  BY <2>1, <2>2, ReadyMoves DEF OthersStay
<1>5. ASSUME NEW r \in Requests, OpenMulti(r) PROVE ReadyInv'
  <2>1. /\ UNCHANGED <<kyc, wallet, config, policies>>
        /\ requests[r].op = "multi" /\ requests'[r] = Idle /\ OthersStay(r)
    BY <1>5, OpenMultiFacts DEF rows
  <2>2. \A s \in Sessions :
            sessions'[s] = sessions[s] \/ Equipped(sessions'[s].buyer, sessions'[s].seller)
    BY <1>5, <2>1, OpenMultiFacts DEF ReadyInv
  <2>3. \A q \in Requests : requests'[q] = requests[q] \/ requests'[q].op \notin {"open", "multi"}
    BY <2>1, RouteNames DEF OthersStay
  <2> QED  BY <2>1, <2>2, <2>3, ReadyMoves
<1>6. CASE NextHour \/ UNCHANGED openingVars
  <2>1. UNCHANGED <<kyc, wallet, config, policies, requests, sessions>>
    BY <1>6 DEF NextHour, openingVars, onboardingVars, rows
  <2> QED  BY <2>1, ReadyMoves
<1> QED
  BY <1>1, <1>2, <1>3, <1>4, <1>5, <1>6, AdmitMultiFacts, NextSellerFacts DEF OpeningNext

(* PartiesReady, for any number of enterprises and requests: what a route   *)
(* read before another one wrote never takes anything away.                 *)
THEOREM PartiesStayReady == OpeningSpec => []PartiesReady
<1>1. ASSUME OpeningInit PROVE ReadyInv
  <2>1. \A r \in Requests : requests[r].op \notin {"open", "multi"}
    BY <1>1, RouteNames DEF OpeningInit, OnboardingInit
  <2>2. Opened = {} /\ \A e \in Enterprises : kyc[e] # "ACTIVE"
    BY <1>1, OnboardingAssumption DEF OpeningInit, OnboardingInit, Opened
  <2> QED  BY <2>1, <2>2 DEF ReadyInv
<1>2. TypesInv /\ ReadyInv /\ [OpeningNext]_openingVars => ReadyInv'
  BY ReadyStep
<1>3. ReadyInv => PartiesReady
  BY DEF ReadyInv, Equipped, Party, PartiesReady
<1> QED  BY <1>1, <1>2, <1>3, TypesInvariance, PTL DEF OpeningSpec
===============================================================================
