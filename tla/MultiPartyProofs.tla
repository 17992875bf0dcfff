---------------------------- MODULE MultiPartyProofs ---------------------------
(***************************************************************************)
(* Proofs about Strategy and MultiParty: how far an advice moves an offer, *)
(* which strategies their own guardrails block, which child wins, and      *)
(* where the escrows are, for any number of children, any configurations,  *)
(* openings and advice, and whatever fails.                                *)
(***************************************************************************)
EXTENDS MultiParty, NaturalsInduction, WellFoundedInduction, TLAPS

(* The roles, and the opposite ones.                                        *)
LEMMA RoleFacts ==
    /\ Roles = {"buyer", "seller"}
    /\ Rule!Other("buyer") = "seller" /\ Rule!Other("seller") = "buyer"
BY DEF Roles, Rule!Other

(* Rounding.                                                                *)
LEMMA RoundedToCents ==
    ASSUME NEW x \in Int
    PROVE  /\ ToCents(x) \in Int
           /\ x - 4 <= ToCents(x) /\ ToCents(x) <= x + 5
           /\ WholeCents(ToCents(x))
           /\ WholeCents(x) => ToCents(x) = x
BY DEF ToCents, WholeCents, Cent

(* Rounding to cents keeps the order, and distances up to a cent.           *)
LEMMA ToCentsKeepsOrder ==
    ASSUME NEW x \in Int, NEW y \in Int, x <= y
    PROVE  ToCents(x) <= ToCents(y) /\ ToCents(y) - ToCents(x) <= y - x + 9
BY DEF ToCents

(* Products and quotients keep the order.                                   *)
LEMMA ProductsOrdered ==
    ASSUME NEW a \in Nat, NEW x \in Int, NEW y \in Int, x <= y
    PROVE  a * x <= a * y /\ a * x \in Int /\ a * y \in Int /\ a * y - a * x = a * (y - x)
BY SMT

(* So do the quotients by the scales in use.                                *)
LEMMA QuotientsOrdered ==
    ASSUME NEW x \in Int, NEW y \in Int, x <= y
    PROVE  /\ x \div 100 <= y \div 100 /\ x \div 10000 <= y \div 10000
           /\ x \div 100 \in Int /\ x \div 10000 \in Int
BY SMT

-------------------------------------------------------------------------------
(* The strategy.                                                            *)

(* What the strategy has to know of a snapshot.                             *)
Typed(s) ==
    /\ s.role \in Roles
    /\ s.reservation \in Nat /\ s.target \in Nat
    /\ s.role = "seller" => s.anchor \in Nat
    /\ s.role = "buyer" => s.target <= s.reservation
    /\ s.role = "seller" => s.reservation <= s.target
    /\ s.ceiling \in Nat \cup {None}
    /\ Limit(s) \in Nat

(* The snapshots of a configuration are like that.                          *)
LEMMA SnapshotTyped ==
    ASSUME NEW role \in Roles, NEW c \in Configs
    PROVE  Typed(Snapshot(role, c)) /\ Snapshot(role, c).role = role
<1> DEFINE s == Snapshot(role, c)
<1>1. /\ s.role = role /\ s.reservation = Reservation(role, c) /\ s.target = Target(role, c)
      /\ s.anchor = Anchor(role, c) /\ s.ceiling = c.ceiling
  BY DEF Snapshot
<1>2. /\ c.value \in Nat /\ c.risk \in 0 .. 100 /\ c.margin \in 0 .. 100 /\ c.first \in Nat
      /\ c.ceiling \in Nat \cup {None}
  BY DEF Configs
<1>3. CASE role = "buyer"
  <2>1. /\ s.reservation = (c.value * (100 + c.risk)) \div 100
        /\ s.target = (c.value * (100 - c.margin)) \div 100
    BY <1>1, <1>2, <1>3 DEF Reservation, Target, Sign
  <2>2. /\ c.value * 0 <= c.value * (100 - c.margin)
        /\ c.value * (100 - c.margin) <= c.value * (100 + c.risk)
        /\ c.value * (100 - c.margin) \in Int /\ c.value * (100 + c.risk) \in Int
    <3>1. 0 <= 100 - c.margin /\ 100 - c.margin <= 100 + c.risk
      BY <1>2
    <3>2. 100 - c.margin \in Int /\ 100 + c.risk \in Int
      BY <1>2
    <3> QED
      BY <1>2, <3>1, <3>2, ProductsOrdered
  <2>3. s.target \in Nat /\ s.reservation \in Nat /\ s.target <= s.reservation
    BY <1>2, <2>1, <2>2, QuotientsOrdered
  <2> QED
    BY <1>1, <1>2, <1>3, <2>3 DEF Typed, Limit, Roles
<1>4. CASE role = "seller"
  <2>1. /\ s.reservation = (c.value * (100 - c.risk)) \div 100
        /\ s.target = (c.value * (100 + c.margin)) \div 100
        /\ s.anchor = (s.target * (100 + c.first)) \div 100
    BY <1>1, <1>2, <1>4 DEF Reservation, Target, Sign, Anchor
  <2>2. /\ c.value * 0 <= c.value * (100 - c.risk)
        /\ c.value * (100 - c.risk) <= c.value * (100 + c.margin)
        /\ c.value * (100 - c.risk) \in Int /\ c.value * (100 + c.margin) \in Int
    <3>1. 0 <= 100 - c.risk /\ 100 - c.risk <= 100 + c.margin
      BY <1>2
    <3>2. 100 - c.risk \in Int /\ 100 + c.margin \in Int
      BY <1>2
    <3> QED
      BY <1>2, <3>1, <3>2, ProductsOrdered
  <2>3. s.target \in Nat /\ s.reservation \in Nat /\ s.reservation <= s.target
    BY <1>2, <2>1, <2>2, QuotientsOrdered
  <2>4. s.target * 0 <= s.target * (100 + c.first) /\ s.target * (100 + c.first) \in Int
    BY <1>2, <2>3, ProductsOrdered
  <2>5. s.anchor \in Nat
    BY <2>1, <2>3, <2>4, QuotientsOrdered
  <2> QED
    BY <1>1, <1>2, <1>4, <2>3, <2>5 DEF Typed, Limit, Roles
<1> QED
  BY <1>3, <1>4 DEF Roles

(* Within is monotone and brings prices no further apart.                   *)
LEMMA WithinKeepsOrder ==
    ASSUME NEW s, Typed(s), NEW x \in Int, NEW y \in Int, x <= y
    PROVE  /\ Within(s, x) \in Int /\ Within(s, y) \in Int
           /\ Within(s, x) <= Within(s, y) /\ Within(s, y) - Within(s, x) <= y - x
<1>1. Limit(s) \in Int /\ 0 <= Limit(s)
  BY DEF Typed
<1>2. CASE s.role = "buyer"
  <2>1. Within(s, x) = Clamp(0, x, Limit(s)) /\ Within(s, y) = Clamp(0, y, Limit(s))
    BY <1>2 DEF Within
  <2> DEFINE high == Limit(s)
  <2>2. high \in Int /\ 0 <= high
    BY <1>1
  <2> HIDE DEF high
  <2>3. /\ Clamp(0, x, high) \in Int /\ Clamp(0, y, high) \in Int
        /\ Clamp(0, x, high) <= Clamp(0, y, high)
        /\ Clamp(0, y, high) - Clamp(0, x, high) <= y - x
    BY <2>2 DEF Clamp
  <2> QED
    BY <2>1, <2>3 DEF high
<1>3. CASE s.role # "buyer"
  <2>1. /\ Within(s, x) = IF x < Limit(s) THEN Limit(s) ELSE x
        /\ Within(s, y) = IF y < Limit(s) THEN Limit(s) ELSE y
    BY <1>3 DEF Within
  <2> QED
    BY <1>1, <2>1
<1> QED
  BY <1>2, <1>3

(* The opponent's last move changes the concession by one of three steps.   *)
LEMMA TitForTatValues ==
    ASSUME NEW opponent, NEW prev
    PROVE  TitForTat(opponent, prev) \in {0, 50, -20}
BY DEF TitForTat

(* An advice counts for one percent at most, and no advice for none.        *)
LEMMA AdviceCapped ==
    ASSUME NEW m \in Int
    PROVE  Advice(m) \in -100 .. 100 /\ Advice(0) = 0
BY DEF Advice, Clamp

(* A concession is between 0.1 and 15 percent; the advice adds 1.3 percent  *)
(* to it, or takes them away, at most.                                      *)
LEMMA ConcessionBounded ==
    ASSUME NEW curve \in Int, NEW opponent, NEW prev, NEW flexibility \in Int, NEW m \in Int,
           NEW left \in Int
    PROVE  LET n == Concession(curve, opponent, prev, flexibility, m, left)
           IN  n \in Int /\ 10 <= n /\ n <= 1500
<1>1. TitForTat(opponent, prev) \in Int /\ Advice(m) \in Int
  BY TitForTatValues, AdviceCapped
<1> DEFINE sum == curve + TitForTat(opponent, prev) + (flexibility - 50) + Advice(m)
<1>2. sum \in Int
  BY <1>1
<1>3. Concession(curve, opponent, prev, flexibility, m, left) =
        Clamp(10, IF left <= 2 THEN (sum * 13) \div 10 ELSE sum, 1500)
  BY DEF Concession
<1> HIDE DEF sum
<1> DEFINE n == IF left <= 2 THEN (sum * 13) \div 10 ELSE sum
<1>4. n \in Int
  BY <1>2
<1> HIDE DEF n
<1>5. /\ Clamp(10, n, 1500) \in Int
      /\ 10 <= Clamp(10, n, 1500) /\ Clamp(10, n, 1500) <= 1500
  BY <1>4 DEF Clamp
<1>6. Concession(curve, opponent, prev, flexibility, m, left) = Clamp(10, n, 1500)
  BY <1>3 DEF n
<1> QED
  BY <1>5, <1>6

(* How far an advice moves the concession.                                  *)
LEMMA AdviceOnConcession ==
    ASSUME NEW curve \in Int, NEW opponent, NEW prev, NEW flexibility \in Int, NEW m \in Int,
           NEW left \in Int
    PROVE  Distance(Concession(curve, opponent, prev, flexibility, m, left),
                    Concession(curve, opponent, prev, flexibility, 0, left)) <= 130
<1> DEFINE base == curve + TitForTat(opponent, prev) + (flexibility - 50)
           x == base + Advice(m)
<1>1. base \in Int
  BY TitForTatValues
<1>2. x \in Int /\ x - base <= 100 /\ base - x <= 100
  BY <1>1, AdviceCapped
<1>3. Concession(curve, opponent, prev, flexibility, m, left) =
        Clamp(10, IF left <= 2 THEN (x * 13) \div 10 ELSE x, 1500)
  BY DEF Concession
<1>4. Concession(curve, opponent, prev, flexibility, 0, left) =
        Clamp(10, IF left <= 2 THEN (base * 13) \div 10 ELSE base, 1500)
  <2>1. base + Advice(0) = base
    BY <1>1, AdviceCapped
  <2> QED
    BY <2>1 DEF Concession
<1> HIDE DEF base, x
<1>5. CASE left <= 2
  BY <1>1, <1>2, <1>3, <1>4, <1>5 DEF Clamp, Distance
<1>6. CASE ~(left <= 2)
  BY <1>1, <1>2, <1>3, <1>4, <1>6 DEF Clamp, Distance
<1> QED
  BY <1>5, <1>6

(* Offers for concessions 1.3 percent apart.                                *)
LEMMA OffersApart ==
    ASSUME NEW s, Typed(s), NEW own \in Nat, NEW x \in Int, NEW y \in Int, x <= y, y - x <= 130
    PROVE  1000 * (Distance(NextOffer(s, own, x), NextOffer(s, own, y)) - 10) <= 13 * own
<1>1. own * (y - x) <= own * 130 /\ own * (y - x) \in Int
  BY ProductsOrdered
<1>2. ASSUME NEW a \in Int, NEW b \in Int, a <= b, b - a = own * (y - x)
      PROVE  LET p == ToCents(Within(s, a \div 10000))
                 q == ToCents(Within(s, b \div 10000))
             IN  p \in Int /\ q \in Int /\ p <= q /\ 1000 * (q - p - 10) <= 13 * own
  <2> DEFINE u == a \div 10000
             v == b \div 10000
  <2>1. u \in Int /\ v \in Int /\ u <= v
    BY <1>2, QuotientsOrdered
  <2>2. 10000 * (v - u) <= own * 130 + 9999
    BY <1>1, <1>2
  <2> HIDE DEF u, v
  <2> DEFINE p == Within(s, u)
             q == Within(s, v)
  <2>3. p \in Int /\ q \in Int /\ p <= q /\ q - p <= v - u
    BY <2>1, WithinKeepsOrder
  <2> HIDE DEF p, q
  <2>4. ToCents(p) <= ToCents(q) /\ ToCents(q) - ToCents(p) <= q - p + 9
    BY <2>3, ToCentsKeepsOrder
  <2>5. ToCents(p) \in Int /\ ToCents(q) \in Int
    BY <2>3, RoundedToCents
  <2>6. 1000 * (ToCents(q) - ToCents(p) - 10) <= 13 * own
    BY <2>1, <2>2, <2>3, <2>4, <2>5
  <2> QED
    BY <2>4, <2>5, <2>6 DEF p, q, u, v
<1>3. CASE s.role = "buyer"
  <2> DEFINE a == own * (10000 + x)
             b == own * (10000 + y)
  <2>1. a \in Int /\ b \in Int /\ a <= b /\ b - a = own * (y - x)
    BY ProductsOrdered
  <2>2. /\ NextOffer(s, own, x) = ToCents(Within(s, a \div 10000))
        /\ NextOffer(s, own, y) = ToCents(Within(s, b \div 10000))
    BY <1>3 DEF NextOffer
  <2> HIDE DEF a, b
  <2> QED
    BY <1>2, <2>1, <2>2 DEF Distance
<1>4. CASE s.role # "buyer"
  <2> DEFINE a == own * (10000 - y)
             b == own * (10000 - x)
  <2>1. a \in Int /\ b \in Int /\ a <= b /\ b - a = own * (y - x)
    <3>1. b - a = own * ((10000 - x) - (10000 - y))
      BY ProductsOrdered
    <3> QED
      BY <3>1, ProductsOrdered
  <2>2. /\ NextOffer(s, own, x) = ToCents(Within(s, b \div 10000))
        /\ NextOffer(s, own, y) = ToCents(Within(s, a \div 10000))
    BY <1>4 DEF NextOffer
  <2> HIDE DEF a, b
  <2> DEFINE p == ToCents(Within(s, a \div 10000))
             q == ToCents(Within(s, b \div 10000))
  <2>3. p \in Int /\ q \in Int /\ p <= q /\ 1000 * (q - p - 10) <= 13 * own
    BY <1>2, <2>1
  <2>4. NextOffer(s, own, x) = q /\ NextOffer(s, own, y) = p
    BY <2>2
  <2> HIDE DEF p, q
  <2>5. Distance(q, p) = q - p
    BY <2>3 DEF Distance
  <2> QED
    BY <2>3, <2>4, <2>5
<1> QED
  BY <1>3, <1>4

(* The offer a strategy may choose.                                         *)
LEMMA OfferTyped ==
    ASSUME NEW s, Typed(s), NEW own \in Nat, NEW fraction \in Int
    PROVE  NextOffer(s, own, fraction) \in Int /\ WholeCents(NextOffer(s, own, fraction))
<1>1. \A x \in Int : ToCents(Within(s, x)) \in Int /\ WholeCents(ToCents(Within(s, x)))
  BY WithinKeepsOrder, RoundedToCents
<1>2. own * (10000 + fraction) \in Int /\ own * (10000 - fraction) \in Int
  OBVIOUS
<1>3. (own * (10000 + fraction)) \div 10000 \in Int /\ (own * (10000 - fraction)) \div 10000 \in Int
  BY <1>2, QuotientsOrdered
<1> QED
  BY <1>1, <1>3 DEF NextOffer

-------------------------------------------------------------------------------
(* Types.                                                                   *)

Status == Rule!ActiveStates \cup Rule!TerminalStates

Records ==
    [status : Status, round : Nat, lastOffer : [Roles -> Nat \cup {None}],
     lastActor : Roles \cup {"nobody"}, expectedTurn : Roles]

Rows ==
    [status : Status, price : (Nat \ {0}) \cup {None}, outcome : {None, "MULTI_PARTY_LOSER"},
     escrow : BOOLEAN, offers : [Roles -> Seq(Int)]]

Places == InTurn \cup {"turn", "commit", "breach", "settle", "close", "done"}

(* The types.                                                               *)
TypesInv ==
    /\ config \in [Kids -> SellerConfigs]
    /\ rec \in [Kids -> Records]
    /\ counters \in [Kids -> [stall : Nat, fails : [Roles -> Nat], flexibility : [Roles -> Int]]]
    /\ row \in [Kids -> Rows] /\ work \in [Kids -> Rows]
    /\ engine \in [Kids -> Places]
    /\ DOMAIN act = Kids
    /\ advisor \in [failures : [Kids -> 0 .. Threshold], open : SUBSET Kids]
    /\ deployed \in [Kids -> Nat] /\ strays \in [Kids -> Nat]
    /\ parent \in [status : {"ACTIVE", "CONCLUDED", "EXPIRED"}, best : Kids \cup {None},
                   over : BOOLEAN]

(* Every offer on the table was above zero and a whole number of cents, the *)
(* opening one apart, and whoever answers has an offer before it.           *)
TalkInv ==
    \A c \in Kids :
        /\ rec[c].lastOffer["buyer"] # None
        /\ rec[c].expectedTurn = "buyer" /\ rec[c].status \in Rule!ActiveStates =>
              rec[c].lastOffer["seller"] # None
        /\ \A r \in Roles : LET p == rec[c].lastOffer[r]
                            IN  p # None => p \in 1 .. Exposure /\ (WholeCents(p) \/ (r = "buyer" /\ p \in Openings))

(* The opening of a multi-party session.                                    *)
LEMMA Starts == Init => TypesInv /\ TalkInv
<1> SUFFICES ASSUME Init PROVE TypesInv /\ TalkInv
  OBVIOUS
<1>1. PICK opening \in Openings :
        /\ Rule!ValidOpening(opening)
        /\ rec = [c \in Kids |-> Rule!Opened(opening)]
        /\ row = [c \in Kids |-> [status |-> "BUYER_ANCHOR", price |-> None, outcome |-> None,
                                  escrow |-> FALSE,
                                  offers |-> [r \in Roles |-> IF r = "buyer" THEN <<opening>> ELSE <<>>]]]
  BY DEF Init
<1>2. opening \in Nat /\ opening > 0 /\ opening <= Exposure
  <2>1. opening > 0 /\ opening <= [r \in Roles |-> Exposure]["buyer"]
    BY <1>1 DEF Rule!ValidOpening
  <2> QED
    BY <2>1, MultiAssumption DEF Roles
<1>3. "BUYER_ANCHOR" \in Status
  BY DEF Status, Rule!ActiveStates
<1>4. rec \in [Kids -> Records] /\ TalkInv
  <2> DEFINE s == Rule!Opened(opening)
  <2>1. /\ s.status = "BUYER_ANCHOR" /\ s.round = 1 /\ s.lastActor = "nobody"
        /\ s.expectedTurn = "seller"
        /\ s.lastOffer = [r \in Roles |-> IF r = "buyer" THEN opening ELSE None]
    BY DEF Rule!Opened, Rule!Roles, Roles
  <2>2. s \in Records
    BY <1>2, <1>3 DEF Rule!Opened, Rule!Roles, Roles, Records
  <2>3. s.lastOffer["buyer"] = opening /\ s.lastOffer["seller"] = None
    BY <2>1 DEF Roles
  <2> HIDE DEF s
  <2>4. rec = [c \in Kids |-> s]
    BY <1>1 DEF s
  <2>5. opening # None
    BY <1>2, MultiAssumption
  <2> QED
    BY <1>2, <2>1, <2>2, <2>3, <2>4, <2>5 DEF TalkInv, Roles
<1>5. row \in [Kids -> Rows]
  <2>1. [r \in Roles |-> IF r = "buyer" THEN <<opening>> ELSE <<>>] \in [Roles -> Seq(Int)]
    <3>1. <<opening>> \in Seq(Int) /\ <<>> \in Seq(Int)
      BY <1>2
    <3> QED
      BY <3>1
  <2> QED
    BY <1>1, <1>3, <2>1 DEF Rows
<1>6. /\ config \in [Kids -> SellerConfigs] /\ work = row
      /\ counters \in [Kids -> [stall : Nat, fails : [Roles -> Nat], flexibility : [Roles -> Int]]]
      /\ engine \in [Kids -> Places] /\ DOMAIN act = Kids
      /\ advisor \in [failures : [Kids -> 0 .. Threshold], open : SUBSET Kids]
      /\ deployed \in [Kids -> Nat] /\ strays \in [Kids -> Nat]
      /\ parent \in [status : {"ACTIVE", "CONCLUDED", "EXPIRED"}, best : Kids \cup {None},
                     over : BOOLEAN]
  BY DEF Init, Threshold, Places
<1> QED
  BY <1>4, <1>5, <1>6 DEF TypesInv

-------------------------------------------------------------------------------
(* What an engine chooses.                                                  *)

(* An action of a strategy: a counter in whole cents, or no price.          *)
Chosen(a, r) ==
    /\ a.role = r /\ r \in Roles
    /\ \/ a.kind = "counter" /\ a.price \in Int /\ WholeCents(a.price)
       \/ a.kind \in {"accept", "reject"} /\ a.price = None

(* The action an engine is in the middle of is such a one for the party at  *)
(* the turn, and a price in it is within the exposure.                      *)
ActInv ==
    \A c \in Kids :
        /\ engine[c] \in InTurn =>
              /\ Chosen(act[c], Turn(c)) /\ rec[c].status \in Rule!ActiveStates
              /\ act[c].price # None => act[c].price \in 1 .. Exposure
        /\ engine[c] = "escrow" => act[c].kind = "accept"

(* A child's snapshots are what the strategy takes them for.                *)
LEMMA SnapTyped ==
    ASSUME TypesInv, NEW c \in Kids, NEW r \in Roles
    PROVE  Typed(Snap(c, r)) /\ Snap(c, r).role = r
<1>1. BuyerConfig \in Configs /\ config[c] \in Configs
  BY MultiAssumption DEF TypesInv
<1> QED
  BY <1>1, SnapshotTyped DEF Snap

(* So is what the party at the turn sees of the negotiation.                *)
LEMMA ObservedTyped ==
    ASSUME TypesInv, TalkInv, NEW c \in Kids
    PROVE  /\ Turn(c) \in Roles /\ Rule!Other(Turn(c)) \in Roles
           /\ PrevOpponent(c) \in Int \cup {None}
           /\ Observed(c) \in Int
<1> DEFINE role == Turn(c)
           other == Rule!Other(role)
           values == work[c].offers[other]
<1>1. role \in Roles /\ other \in Roles /\ Turn(c) = role
  BY RoleFacts DEF Turn, TypesInv, Records
<1>2. values \in Seq(Int)
  BY <1>1 DEF TypesInv, Rows
<1>3. PrevOpponent(c) = IF Len(values) >= 2 THEN values[Len(values) - 1] ELSE None
  BY DEF PrevOpponent
<1>4. rec[c].lastOffer[other] \in Nat \cup {None} /\ counters[c].flexibility[role] \in Int
  BY <1>1 DEF TypesInv, Records
<1> HIDE DEF role, other, values
<1>5. PrevOpponent(c) \in Int \cup {None}
  <2>1. CASE Len(values) >= 2
    <3>1. PICK len \in Nat : len = Len(values)
      BY <1>2
    <3>2. len - 1 \in 1 .. Len(values)
      BY <2>1, <3>1
    <3>3. values[len - 1] \in Int
      BY <1>2, <3>2
    <3> QED
      BY <1>3, <2>1, <3>1, <3>3
  <2>2. CASE ~(Len(values) >= 2)
    BY <1>3, <2>2
  <2> QED
    BY <2>1, <2>2
<1>6. ASSUME NEW old \in Int, NEW offer \in Int, NEW prev \in Int
      PROVE  Flexibility(old, offer, prev) \in Int
  <2> DEFINE new == IF prev > 0 THEN Clamp(0, (Distance(offer, prev) * 2000) \div prev, 100) ELSE 50
  <2>1. new \in Int
    <3>1. CASE prev > 0
      <4> DEFINE n == (Distance(offer, prev) * 2000) \div prev
      <4>1. Distance(offer, prev) \in Int
        BY DEF Distance
      <4>2. n \in Int
        BY <3>1, <4>1
      <4> HIDE DEF n
      <4>3. Clamp(0, n, 100) \in Int
        BY <4>2 DEF Clamp
      <4> QED
        BY <3>1, <4>3 DEF n
    <3>2. CASE ~(prev > 0)
      BY <3>2
    <3> QED
      BY <3>1, <3>2
  <2>2. Flexibility(old, offer, prev) = (7 * old + 3 * new) \div 10
    BY DEF Flexibility
  <2> HIDE DEF new
  <2> QED
    BY <2>1, <2>2
<1>7. Observed(c) = IF rec[c].lastOffer[other] = None \/ PrevOpponent(c) = None
                    THEN counters[c].flexibility[role]
                    ELSE Flexibility(counters[c].flexibility[role], rec[c].lastOffer[other],
                                     PrevOpponent(c))
  BY DEF Observed, role, other
<1>8. Observed(c) \in Int
  <2>1. CASE rec[c].lastOffer[other] = None \/ PrevOpponent(c) = None
    BY <1>4, <1>7, <2>1
  <2>2. CASE ~(rec[c].lastOffer[other] = None \/ PrevOpponent(c) = None)
    <3>1. rec[c].lastOffer[other] \in Int /\ PrevOpponent(c) \in Int
      BY <1>4, <1>5, <2>2
    <3> QED
      BY <1>4, <1>6, <1>7, <2>2, <3>1
  <2> QED
    BY <2>1, <2>2
<1> QED
  BY <1>1, <1>5, <1>8 DEF role, other

(* An offer conceded from own.                                              *)
Offered(s, own, price) == \E f \in Int : 10 <= f /\ f <= 1500 /\ price = NextOffer(s, own, f)

(* The choice of a mover that has an offer to answer; only a seller in      *)
(* round 1 has none of its own.                                             *)
ChoiceIs(s, see, choice) ==
    \/ /\ choice.kind = "counter" /\ s.role = "seller"
       /\ choice.price = ToCents(Within(s, s.anchor))
    \/ /\ choice.kind = "counter" /\ see.own # None
       /\ Offered(s, see.own, choice.price)
    \/ /\ choice.kind = "counter" /\ see.own = None /\ s.role = "seller"
       /\ Offered(s, s.anchor, choice.price)
    \/ /\ choice.kind = "accept" /\ choice.price = None
       /\ ShouldAccept(s, see.opponent, see.roundsLeft, see.flexibility)
    \/ choice.kind = "reject" /\ choice.price = None

(* The pipeline's choice is one of these.                                   *)
LEMMA ChoiceCases ==
    ASSUME NEW s, Typed(s), NEW see, see.opponent \in Nat, see.own \in Nat \cup {None},
           s.role = "buyer" => see.own # None,
           see.curve \in Int, see.flexibility \in Int, see.modifier \in Int, see.roundsLeft \in Int
    PROVE  ChoiceIs(s, see, Choice(s, see))
<1> DEFINE f == Concession(see.curve, see.opponent, see.prev, see.flexibility, see.modifier,
                           see.roundsLeft)
           own == IF see.own = None THEN s.anchor ELSE see.own
           first == see.round = 1 /\ see.own = None
           accept == ShouldAccept(s, see.opponent, see.roundsLeft, see.flexibility)
           reject == ShouldReject(s, see.opponent)
<1>1. f \in Int /\ 10 <= f /\ f <= 1500
  BY ConcessionBounded
<1>2. see.opponent # None
  BY MultiAssumption
<1>3. s.role \in {"buyer", "seller"}
  BY DEF Typed, Roles
<1>4. CASE first
  <2>1. s.role = "seller" /\ s.role # "buyer"
    BY <1>3, <1>4
  <2>2. Choice(s, see) = [kind |-> "counter", price |-> OpeningOffer(s)]
    BY <1>4 DEF Choice
  <2>3. OpeningOffer(s) = ToCents(Within(s, s.anchor))
    BY <2>1 DEF OpeningOffer
  <2> QED
    BY <2>1, <2>2, <2>3 DEF ChoiceIs
<1>5. CASE ~first /\ accept
  <2>1. Choice(s, see) = [kind |-> "accept", price |-> None]
    BY <1>2, <1>5 DEF Choice
  <2> QED
    BY <1>5, <2>1 DEF ChoiceIs
<1>6. CASE ~first /\ ~accept /\ reject
  <2>1. Choice(s, see) = [kind |-> "reject", price |-> None]
    BY <1>2, <1>6 DEF Choice
  <2> QED
    BY <2>1 DEF ChoiceIs
<1>7. CASE ~first /\ ~accept /\ ~reject
  <2>1. Choice(s, see) = [kind |-> "counter", price |-> NextOffer(s, own, f)]
    BY <1>2, <1>7 DEF Choice
  <2>2. CASE see.own # None
    <3>1. Choice(s, see).kind = "counter" /\ Choice(s, see).price = NextOffer(s, see.own, f)
      BY <2>1, <2>2
    <3> HIDE DEF f
    <3>2. Offered(s, see.own, Choice(s, see).price)
      BY <1>1, <3>1 DEF Offered
    <3> QED
      BY <2>2, <3>1, <3>2 DEF ChoiceIs
  <2>3. CASE see.own = None
    <3>1. Choice(s, see).kind = "counter" /\ Choice(s, see).price = NextOffer(s, s.anchor, f)
      BY <2>1, <2>3
    <3>2. s.role = "seller"
      BY <1>3, <2>3
    <3> HIDE DEF f
    <3>3. Offered(s, s.anchor, Choice(s, see).price)
      BY <1>1, <3>1 DEF Offered
    <3> QED
      BY <2>3, <3>1, <3>2, <3>3 DEF ChoiceIs
  <2> QED
    BY <2>2, <2>3
<1> HIDE DEF first, accept, reject
<1> QED
  BY <1>4, <1>5, <1>6, <1>7

(* What an engine sees, and what it makes of it.                            *)
LEMMA EnvelopeIs ==
    ASSUME TypesInv, TalkInv, NEW c \in Kids, AtTurn(c), NEW answer \in Modifiers \cup {None}
    PROVE  \E see :
              /\ see.opponent = rec[c].lastOffer[Rule!Other(Turn(c))] /\ see.opponent \in Nat
              /\ see.own = rec[c].lastOffer[Turn(c)]
              /\ ChoiceIs(Snap(c, Turn(c)), see, Choice(Snap(c, Turn(c)), see))
              /\ Envelope(c, answer) = [role |-> Turn(c), kind |-> Choice(Snap(c, Turn(c)), see).kind,
                                        price |-> Choice(Snap(c, Turn(c)), see).price,
                                        round |-> rec[c].round]
<1> DEFINE role == Turn(c)
           see == [own         |-> rec[c].lastOffer[role],
                   opponent    |-> rec[c].lastOffer[Rule!Other(role)],
                   prev        |-> PrevOpponent(c),
                   round       |-> rec[c].round,
                   roundsLeft  |-> IF rec[c].round < MaxRounds THEN MaxRounds - rec[c].round ELSE 0,
                   flexibility |-> Observed(c),
                   curve       |-> IF role = "buyer" THEN BuyerConfig.curve ELSE config[c].curve,
                   modifier    |-> ModifierOf(c, answer)]
           s == Snap(c, role)
<1>1. role \in Roles /\ Turn(c) = role
  BY ObservedTyped
<1>2. Typed(s) /\ s.role = role
  BY <1>1, SnapTyped
<1>3. /\ rec[c].lastOffer["buyer"] \in Nat \cup {None} /\ rec[c].lastOffer["seller"] \in Nat \cup {None}
      /\ rec[c].lastOffer["buyer"] # None
      /\ role = "buyer" => rec[c].lastOffer["seller"] # None
      /\ rec[c].round \in Nat
  BY DEF TypesInv, Records, Roles, TalkInv, AtTurn, Turn
<1>4. /\ see.opponent \in Nat /\ see.own \in Nat \cup {None}
      /\ s.role = "buyer" => see.own # None
  BY <1>1, <1>2, <1>3, RoleFacts
<1>5. see.curve \in Int
  <2>1. BuyerConfig.curve \in Int /\ config[c].curve \in Int
    BY MultiAssumption DEF TypesInv, Configs
  <2> QED
    BY <2>1
<1>6. see.flexibility \in Int
  BY ObservedTyped
<1>7. see.modifier \in Int
  BY MultiAssumption DEF ModifierOf
<1>8. see.roundsLeft \in Int
  BY <1>3, MultiAssumption
<1>9. Envelope(c, answer) = [role |-> role, kind |-> Choice(s, see).kind,
                             price |-> Choice(s, see).price, round |-> rec[c].round]
  BY DEF Envelope
<1>10. see.opponent = rec[c].lastOffer[Rule!Other(role)] /\ see.own = rec[c].lastOffer[role]
  OBVIOUS
<1> HIDE DEF see, role, s
<1>11. ChoiceIs(s, see, Choice(s, see))
  BY <1>2, <1>4, <1>5, <1>6, <1>7, <1>8, ChoiceCases
<1> QED
  BY <1>4, <1>9, <1>10, <1>11 DEF role, s

(* The envelope that reaches process_action is that choice.                 *)
LEMMA EnvelopeChosen ==
    ASSUME TypesInv, TalkInv, NEW c \in Kids, AtTurn(c), NEW answer \in Modifiers \cup {None}
    PROVE  /\ Chosen(Envelope(c, answer), Turn(c))
           /\ rec[c].lastOffer[Rule!Other(Turn(c))] \in Nat
<1> DEFINE s == Snap(c, Turn(c))
           a == Envelope(c, answer)
<1>1. PICK see :
        /\ see.opponent = rec[c].lastOffer[Rule!Other(Turn(c))] /\ see.opponent \in Nat
        /\ see.own = rec[c].lastOffer[Turn(c)]
        /\ ChoiceIs(s, see, Choice(s, see))
        /\ a = [role |-> Turn(c), kind |-> Choice(s, see).kind, price |-> Choice(s, see).price,
                round |-> rec[c].round]
  BY EnvelopeIs
<1>2. Turn(c) \in Roles
  BY ObservedTyped
<1>3. Typed(s)
  BY <1>2, SnapTyped
<1>4. see.own \in Nat \cup {None}
  BY <1>1, <1>2 DEF TypesInv, Records
<1>5. a.role = Turn(c) /\ a.kind = Choice(s, see).kind /\ a.price = Choice(s, see).price
  BY <1>1
<1> HIDE DEF s, a
<1>6. ASSUME a.kind = "counter", s.role = "seller", a.price = ToCents(Within(s, s.anchor))
      PROVE  a.price \in Int /\ WholeCents(a.price)
  <2>1. Within(s, s.anchor) \in Int
    BY <1>3, <1>6, WithinKeepsOrder DEF Typed
  <2> QED
    BY <1>6, <2>1, RoundedToCents
<1>7. ASSUME see.own # None, Offered(s, see.own, a.price)
      PROVE  a.price \in Int /\ WholeCents(a.price)
  <2>1. PICK f \in Int : a.price = NextOffer(s, see.own, f)
    BY <1>7 DEF Offered
  <2>2. see.own \in Nat
    BY <1>4, <1>7
  <2> QED
    BY <1>3, <2>1, <2>2, OfferTyped
<1>8. ASSUME s.role = "seller", Offered(s, s.anchor, a.price)
      PROVE  a.price \in Int /\ WholeCents(a.price)
  <2>1. PICK f \in Int : a.price = NextOffer(s, s.anchor, f)
    BY <1>8 DEF Offered
  <2>2. s.anchor \in Nat
    BY <1>3, <1>8 DEF Typed
  <2> QED
    BY <1>3, <2>1, <2>2, OfferTyped
<1>9. Chosen(a, Turn(c))
  <2> DEFINE choice == Choice(s, see)
  <2>0. /\ a.kind = choice.kind /\ a.price = choice.price /\ ChoiceIs(s, see, choice)
        /\ a.role = Turn(c) /\ Turn(c) \in Roles
    BY <1>1, <1>2, <1>5
  <2> HIDE DEF choice
  <2>1. CASE choice.kind = "counter" /\ s.role = "seller" /\ choice.price = ToCents(Within(s, s.anchor))
    BY <1>6, <2>0, <2>1 DEF Chosen
  <2>2. CASE /\ choice.kind = "counter" /\ see.own # None
             /\ Offered(s, see.own, choice.price)
    BY <1>7, <2>0, <2>2 DEF Chosen
  <2>3. CASE /\ choice.kind = "counter" /\ see.own = None /\ s.role = "seller"
             /\ Offered(s, s.anchor, choice.price)
    BY <1>8, <2>0, <2>3 DEF Chosen
  <2>4. CASE choice.kind = "accept" /\ choice.price = None
    BY <2>0, <2>4 DEF Chosen
  <2>5. CASE choice.kind = "reject" /\ choice.price = None
    BY <2>0, <2>5 DEF Chosen
  <2>6. ChoiceIs(s, see, choice)
    BY <2>0
  <2> QED
    BY ONLY <2>1, <2>2, <2>3, <2>4, <2>5, <2>6 DEF ChoiceIs
<1> QED
  BY <1>1, <1>9 DEF a

(* What the guardrails test, in this module's terms.                        *)
LEMMA BreachesIs ==
    ASSUME NEW c, NEW a
    PROVE  LET p == IF a.kind = "accept" THEN rec[c].lastOffer[Rule!Other(a.role)] ELSE a.price
           IN  Breaches(c, a) <=>
                 /\ a.kind \in {"counter", "accept"}
                 /\ p # None
                 /\ \/ a.role = "seller" /\ p < Snap(c, "seller").reservation
                    \/ a.role = "buyer" /\ p > BuyerCeiling
                    \/ a.kind = "counter" /\ p > [r \in Roles |-> Exposure][a.role]
                    \/ a.kind = "counter" /\ p <= 0
BY DEF Breaches, Rules!Breaches, Rules!JudgedPrice, Rules!Other, Rule!Other

-------------------------------------------------------------------------------
(* How the steps move the records, the rows and the engines.                *)

(* A cleared counter is within the exposure.                                *)
LEMMA ClearedCounter ==
    ASSUME NEW c, NEW a, NEW r \in Roles, Chosen(a, r), ~Breaches(c, a), a.price # None
    PROVE  a.price \in 1 .. Exposure
<1>1. a.kind = "counter" /\ a.price \in Int
  BY DEF Chosen
<1>2. ~(a.price > [x \in Roles |-> Exposure][a.role]) /\ ~(a.price <= 0)
  BY <1>1, BreachesIs
<1>3. [x \in Roles |-> Exposure][a.role] = Exposure /\ Exposure \in Nat
  BY MultiAssumption DEF Chosen
<1> QED
  BY <1>1, <1>2, <1>3

(* What a chosen action makes of a record.                                  *)
LEMMA MovedIs ==
    ASSUME NEW s \in Records, s.status \in Rule!ActiveStates, NEW r \in Roles, NEW a, Chosen(a, r),
           a.price # None => a.price \in Nat, NEW stall
    PROVE  LET m == Rule!Moved(s, a, stall)
           IN  /\ m \in Records
               /\ m.status = "AGREED" <=> a.kind = "accept"
               /\ m.lastOffer = IF a.price = None THEN s.lastOffer
                                ELSE [s.lastOffer EXCEPT ![r] = a.price]
               /\ a.price = None => m.status \notin Rule!ActiveStates
               /\ m.expectedTurn = Rule!Other(r)
<1> DEFINE status == Rule!CounterStatus(s, a, stall)
           round == Rule!CounterRound(s, a, stall)
           m == Rule!Moved(s, a, stall)
<1>1. status \in {"ROUND_LIMIT", "STALLED", "SELLER_RESPONSE", "ROUND_LOOP"}
  BY DEF Rule!CounterStatus
<1>2. s.round \in Nat /\ s.lastOffer \in [Roles -> Nat \cup {None}]
  BY DEF Records
<1>3. round \in Nat
  BY <1>2 DEF Rule!CounterRound
<1>4. a.role = r /\ Rule!Other(r) \in Roles
  BY RoleFacts DEF Chosen
<1> HIDE DEF status, round
<1>a. m = [status       |-> CASE a.kind = "accept"        -> "AGREED"
                              [] a.kind = "reject"        -> "WALKAWAY"
                              [] a.kind = "counter"       -> status
                              [] a.kind = "timeout_yield" -> s.status,
           round        |-> IF a.kind = "counter" THEN round ELSE s.round,
           lastOffer    |-> IF a.price = None THEN s.lastOffer
                            ELSE [s.lastOffer EXCEPT ![a.role] = a.price],
           lastActor    |-> a.role,
           expectedTurn |-> Rule!Other(a.role)]
  BY DEF Rule!Moved, status, round
<1> HIDE DEF m
<1>5. /\ m.status = CASE a.kind = "accept"        -> "AGREED"
                      [] a.kind = "reject"        -> "WALKAWAY"
                      [] a.kind = "counter"       -> status
                      [] a.kind = "timeout_yield" -> s.status
      /\ m.round = IF a.kind = "counter" THEN round ELSE s.round
      /\ m.lastOffer = IF a.price = None THEN s.lastOffer
                       ELSE [s.lastOffer EXCEPT ![r] = a.price]
      /\ m.lastActor = r /\ m.expectedTurn = Rule!Other(r)
      /\ m = [status |-> m.status, round |-> m.round, lastOffer |-> m.lastOffer,
              lastActor |-> m.lastActor, expectedTurn |-> m.expectedTurn]
  BY <1>4, <1>a
<1>6. m.lastOffer \in [Roles -> Nat \cup {None}]
  BY <1>2, <1>5
<1>7. /\ a.kind = "accept" => m.status = "AGREED"
      /\ a.kind = "reject" => m.status = "WALKAWAY"
      /\ a.kind = "counter" => m.status = status
      /\ a.kind \in {"accept", "reject", "counter"}
      /\ a.price = None => a.kind \in {"accept", "reject"}
  BY <1>5, MultiAssumption DEF Chosen
<1>8. m.status \in Status
  BY <1>1, <1>7 DEF Status, Rule!ActiveStates, Rule!TerminalStates
<1>9. m \in Records
  BY <1>2, <1>3, <1>4, <1>5, <1>6, <1>8 DEF Records
<1>10. m.status = "AGREED" <=> a.kind = "accept"
  BY <1>1, <1>7
<1>11. a.price = None => m.status \notin Rule!ActiveStates
  BY <1>7 DEF Rule!ActiveStates
<1> QED
  BY <1>5, <1>9, <1>10, <1>11 DEF m

(* A row whose status, price and offers are replaced.                       *)
RowWith(e, status, price, table) ==
    [e EXCEPT !.status = status, !.price = price, !.offers = table]

(* Such a row is a row still, field by field.                               *)
LEMMA RowAnswered ==
    ASSUME NEW e \in Rows, NEW status \in Status, NEW price \in (Nat \ {0}) \cup {None},
           NEW table \in [Roles -> Seq(Int)]
    PROVE  LET n == RowWith(e, status, price, table)
           IN  /\ n \in Rows /\ n.escrow = e.escrow /\ n.outcome = e.outcome
               /\ n.status = status /\ n.price = price
<1>1. ASSUME NEW S, NEW P, NEW O, NEW F, NEW s \in S, NEW p \in P, NEW f \in F,
             NEW x \in [status : S, price : P, outcome : O, escrow : BOOLEAN, offers : F]
      PROVE  LET n == [x EXCEPT !.status = s, !.price = p, !.offers = f]
             IN  /\ n \in [status : S, price : P, outcome : O, escrow : BOOLEAN, offers : F]
                 /\ n.escrow = x.escrow /\ n.outcome = x.outcome
                 /\ n.status = s /\ n.price = p
  OBVIOUS
<1> QED
  BY <1>1 DEF Rows, RowWith

(* The first step of a turn, field by field.                                *)
LEMMA TakenIs ==
    ASSUME TypesInv, TalkInv, NEW c \in Kids, NEW answer \in Modifiers \cup {None},
           TakeTurn(c, answer)
    PROVE  LET a == Envelope(c, answer)
               deal == a.kind = "accept"
               opponent == rec[c].lastOffer[Rule!Other(Turn(c))]
           IN  /\ Chosen(a, Turn(c)) /\ Turn(c) \in Roles
               /\ a.price # None => a.price \in 1 .. Exposure
               /\ opponent \in Nat \ {0}
               /\ work' \in [Kids -> Rows] /\ \A d \in Kids \ {c} : work'[d] = work[d]
               /\ work'[c].status = IF deal THEN "AGREED" ELSE work[c].status
               /\ work'[c].price = IF deal THEN opponent ELSE work[c].price
               /\ work'[c].escrow = work[c].escrow /\ work'[c].outcome = work[c].outcome
<1> DEFINE a == Envelope(c, answer)
           r == Turn(c)
           deal == a.kind = "accept"
           opponent == rec[c].lastOffer[Rule!Other(r)]
           offers == IF a.price = None THEN work[c].offers
                     ELSE [work[c].offers EXCEPT ![a.role] = Append(work[c].offers[a.role], a.price)]
           new == Answered(c, a)
<1>1. AtTurn(c) /\ ~Breaches(c, a) /\ work' = [work EXCEPT ![c] = new]
  BY DEF TakeTurn
<1>2. r \in Roles /\ Rule!Other(r) \in Roles /\ Chosen(a, r) /\ opponent \in Nat
  BY <1>1, EnvelopeChosen, ObservedTyped
<1>3. opponent # 0
  <2>1. opponent # None
    BY <1>2, MultiAssumption
  <2> QED
    BY <1>2, <2>1 DEF TalkInv
<1>4. a.price # None => a.price \in 1 .. Exposure
  BY <1>1, <1>2, ClearedCounter
<1> HIDE DEF a, r
<1>5. a.role = r
  BY <1>2 DEF Chosen
<1>6. Rule!ClosingPrice(rec[c], a) = opponent
  BY <1>2, <1>5, MultiAssumption DEF Rule!ClosingPrice
<1>7. work[c] \in Rows /\ work \in [Kids -> Rows]
  BY DEF TypesInv
<1>8. offers \in [Roles -> Seq(Int)]
  <2>1. work[c].offers \in [Roles -> Seq(Int)]
    BY <1>7 DEF Rows
  <2>2. a.price # None => Append(work[c].offers[r], a.price) \in Seq(Int)
    BY <1>2, <1>4, <2>1
  <2> QED
    BY <1>2, <1>5, <2>1, <2>2
<1>9. new = [work[c] EXCEPT !.status = IF deal THEN "AGREED" ELSE @,
                            !.price = IF deal THEN opponent ELSE @, !.offers = offers]
  BY <1>6, <1>7 DEF Answered, Rows
<1>10. deal \in BOOLEAN /\ opponent \in Nat \ {0}
  BY <1>2, <1>3
<1> HIDE DEF offers, opponent, deal, new
<1>11. /\ new \in Rows /\ new.escrow = work[c].escrow /\ new.outcome = work[c].outcome
       /\ new.status = IF deal THEN "AGREED" ELSE work[c].status
       /\ new.price = IF deal THEN opponent ELSE work[c].price
  <2>1. PICK st, q : st = (IF deal THEN "AGREED" ELSE work[c].status)
                     /\ q = (IF deal THEN opponent ELSE work[c].price)
    OBVIOUS
  <2>2. st \in Status /\ q \in (Nat \ {0}) \cup {None}
    BY <1>7, <1>10, <2>1 DEF Rows, Status, Rule!TerminalStates
  <2>3. PICK e, f : e = work[c] /\ f = offers
    OBVIOUS
  <2>4. e \in Rows /\ f \in [Roles -> Seq(Int)]
    BY <1>7, <1>8, <2>3
  <2>5. LET n == RowWith(e, st, q, f)
        IN  /\ n \in Rows /\ n.escrow = e.escrow /\ n.outcome = e.outcome
            /\ n.status = st /\ n.price = q
    BY <2>2, <2>4, RowAnswered
  <2>6. new = RowWith(e, st, q, f)
    BY <1>9, <2>1, <2>3 DEF RowWith
  <2> QED
    BY <2>1, <2>3, <2>5, <2>6
<1>12. work' \in [Kids -> Rows] /\ work'[c] = new /\ \A d \in Kids \ {c} : work'[d] = work[d]
  BY <1>1, <1>7, <1>11
<1> QED
  BY <1>2, <1>4, <1>10, <1>11, <1>12 DEF a, r, opponent, deal

(* The counters and the advice of a turn.                                   *)
LEMMA CountersTyped ==
    ASSUME TypesInv, TalkInv, NEW c \in Kids, NEW fails \in Nat, NEW stall \in Nat,
           Counted(c, fails, stall)
    PROVE  /\ counters' \in [Kids -> [stall : Nat, fails : [Roles -> Nat],
                                      flexibility : [Roles -> Int]]]
           /\ \A d \in Kids : \A r \in Roles :
                 counters'[d].fails[r] =
                    IF d = c /\ r = Turn(c) THEN fails ELSE counters[d].fails[r]
<1> DEFINE old == counters[c]
           new == [stall       |-> stall,
                   fails       |-> [old.fails EXCEPT ![Turn(c)] = fails],
                   flexibility |-> [old.flexibility EXCEPT ![Turn(c)] = Observed(c)]]
<1>1. /\ old.fails \in [Roles -> Nat] /\ old.flexibility \in [Roles -> Int]
      /\ DOMAIN counters = Kids
      /\ \A d \in Kids : counters[d] \in [stall : Nat, fails : [Roles -> Nat],
                                          flexibility : [Roles -> Int]]
  BY DEF TypesInv
<1>2. Observed(c) \in Int /\ Turn(c) \in Roles
  BY ObservedTyped
<1>3. counters' = [counters EXCEPT ![c] = new]
  BY DEF Counted
<1>4. new \in [stall : Nat, fails : [Roles -> Nat], flexibility : [Roles -> Int]]
  BY <1>1, <1>2
<1>5. \A r \in Roles : new.fails[r] = IF r = Turn(c) THEN fails ELSE old.fails[r]
  BY <1>1, <1>2
<1> HIDE DEF new
<1>6. \A d \in Kids : counters'[d] = IF d = c THEN new ELSE counters[d]
  BY <1>1, <1>3
<1>7. counters' \in [Kids -> [stall : Nat, fails : [Roles -> Nat], flexibility : [Roles -> Int]]]
  BY <1>1, <1>3, <1>4, <1>6
<1> QED
  BY <1>5, <1>6, <1>7

(* An answer of the advisor, or its failure, keeps the circuit breaker.     *)
LEMMA AdvisorTyped ==
    ASSUME TypesInv, CircuitIsFinal, NEW c \in Kids, NEW answer, Listened(c, answer)
    PROVE  advisor' \in [failures : [Kids -> 0 .. Threshold], open : SUBSET Kids] /\ CircuitIsFinal'
<1> DEFINE failures == IF answer = None THEN advisor.failures[c] + 1 ELSE 0
<1>1. advisor.failures \in [Kids -> 0 .. Threshold] /\ advisor.open \subseteq Kids
  BY DEF TypesInv
<1>2. CASE c \in advisor.open
  <2>1. advisor' = advisor
    BY <1>2 DEF Listened, Heard, Asked
  <2> QED
    BY <2>1 DEF CircuitIsFinal, TypesInv
<1>3. CASE c \notin advisor.open
  <2>1. advisor.failures[c] # 3
    BY <1>3 DEF CircuitIsFinal, Threshold
  <2>2. failures \in 0 .. 3
    BY <1>1, <2>1 DEF Threshold
  <2>3. advisor' = [failures |-> [advisor.failures EXCEPT ![c] = failures],
                    open     |-> IF failures >= Threshold THEN advisor.open \cup {c}
                                                          ELSE advisor.open]
    BY <1>3 DEF Listened, Heard, Asked
  <2> HIDE DEF failures
  <2>4. /\ advisor'.failures = [advisor.failures EXCEPT ![c] = failures]
        /\ advisor'.open = IF failures >= 3 THEN advisor.open \cup {c} ELSE advisor.open
        /\ advisor' = [failures |-> advisor'.failures, open |-> advisor'.open]
    BY <2>3 DEF Threshold
  <2>5. advisor'.failures \in [Kids -> 0 .. Threshold] /\ advisor'.open \subseteq Kids
    BY <1>1, <2>2, <2>4 DEF Threshold
  <2>6. advisor' \in [failures : [Kids -> 0 .. Threshold], open : SUBSET Kids]
    BY <2>4, <2>5
  <2>7. ASSUME NEW d \in Kids
        PROVE  d \in advisor'.open <=> advisor'.failures[d] = 3
    <3>1. CASE d = c
      BY <1>1, <1>3, <2>2, <2>4, <3>1
    <3>2. CASE d # c
      <4>1. advisor'.failures[d] = advisor.failures[d] /\ (d \in advisor'.open <=> d \in advisor.open)
        BY <1>1, <2>4, <3>2
      <4> QED
        BY <4>1 DEF CircuitIsFinal, Threshold
    <3> QED
      BY <3>1, <3>2
  <2>8. CircuitIsFinal'
    BY <2>7 DEF CircuitIsFinal, Threshold
  <2> QED
    BY <2>6, <2>8
<1> QED
  BY <1>2, <1>3

Base == TypesInv /\ TalkInv /\ ActInv /\ CircuitIsFinal

(* The conjuncts that a step which only moves rows and engines can disturb. *)
LEMMA BaseMoves ==
    ASSUME Base, UNCHANGED <<config, rec, counters, advisor>>,
           row' \in [Kids -> Rows], work' \in [Kids -> Rows],
           engine' \in [Kids -> Places], DOMAIN act' = Kids,
           \A c \in Kids : engine'[c] \in InTurn =>
              act'[c] = act[c] /\ engine[c] \in InTurn /\ engine'[c] \in {engine[c], "write", "publish"},
           deployed' \in [Kids -> Nat], strays' \in [Kids -> Nat],
           parent' \in [status : {"ACTIVE", "CONCLUDED", "EXPIRED"}, best : Kids \cup {None},
                        over : BOOLEAN]
    PROVE  Base'
<1>1. TypesInv' /\ TalkInv' /\ CircuitIsFinal'
  BY DEF Base, TypesInv, TalkInv, CircuitIsFinal
<1>2. ASSUME NEW c \in Kids
      PROVE  /\ engine'[c] \in InTurn =>
                   /\ Chosen(act'[c], Turn(c)') /\ rec'[c].status \in Rule!ActiveStates
                   /\ act'[c].price # None => act'[c].price \in 1 .. Exposure
             /\ engine'[c] = "escrow" => act'[c].kind = "accept"
  <2>1. Turn(c)' = Turn(c) /\ rec'[c] = rec[c]
    BY DEF Turn
  <2>2. CASE engine'[c] \in InTurn
    <3>1. act'[c] = act[c] /\ engine[c] \in InTurn
          /\ (engine'[c] = "escrow" => engine[c] = "escrow")
      BY <2>2
    <3> QED
      BY <2>1, <3>1 DEF Base, ActInv
  <2>3. CASE engine'[c] \notin InTurn
    BY <2>3 DEF InTurn
  <2> QED
    BY <2>2, <2>3
<1>3. ActInv'
  BY <1>2 DEF ActInv
<1> QED
  BY <1>1, <1>3 DEF Base

(* A rollback counts the applications whose rows it takes.                  *)
LEMMA StraysTyped ==
    ASSUME TypesInv, NEW stopped, Rollback(stopped)
    PROVE  row' = row /\ work' = row /\ strays' \in [Kids -> Nat]
BY DEF Rollback, TypesInv

(* A row with another status.                                               *)
LEMMA RowRestated ==
    ASSUME NEW e \in Rows, NEW st \in Status
    PROVE  LET n == [e EXCEPT !.status = st]
           IN  /\ n \in Rows /\ n.status = st /\ n.price = e.price
               /\ n.escrow = e.escrow /\ n.outcome = e.outcome
<1>1. ASSUME NEW S, NEW P, NEW O, NEW F, NEW s \in S,
             NEW x \in [status : S, price : P, outcome : O, escrow : BOOLEAN, offers : F]
      PROVE  LET n == [x EXCEPT !.status = s]
             IN  /\ n \in [status : S, price : P, outcome : O, escrow : BOOLEAN, offers : F]
                 /\ n.status = s /\ n.price = x.price /\ n.escrow = x.escrow
                 /\ n.outcome = x.outcome
  OBVIOUS
<1> QED
  BY <1>1 DEF Rows

(* A row with an escrow.                                                    *)
LEMMA RowEscrowed ==
    ASSUME NEW e \in Rows, NEW b \in BOOLEAN
    PROVE  LET n == [e EXCEPT !.escrow = b]
           IN  /\ n \in Rows /\ n.escrow = b /\ n.price = e.price
               /\ n.status = e.status /\ n.outcome = e.outcome
<1>1. ASSUME NEW S, NEW P, NEW O, NEW F,
             NEW x \in [status : S, price : P, outcome : O, escrow : BOOLEAN, offers : F]
      PROVE  LET n == [x EXCEPT !.escrow = b]
             IN  /\ n \in [status : S, price : P, outcome : O, escrow : BOOLEAN, offers : F]
                 /\ n.escrow = b /\ n.price = x.price /\ n.status = x.status
                 /\ n.outcome = x.outcome
  OBVIOUS
<1> QED
  BY <1>1 DEF Rows

(* A row of a child turned into a loser.                                    *)
LEMMA RowLost ==
    ASSUME NEW e \in Rows
    PROVE  LET n == [e EXCEPT !.status = "WALKAWAY", !.outcome = "MULTI_PARTY_LOSER"]
           IN  /\ n \in Rows /\ n.status = "WALKAWAY" /\ n.outcome = "MULTI_PARTY_LOSER"
               /\ n.price = e.price /\ n.escrow = e.escrow
<1>1. ASSUME NEW S, NEW P, NEW O, NEW F, NEW s \in S, NEW o \in O,
             NEW x \in [status : S, price : P, outcome : O, escrow : BOOLEAN, offers : F]
      PROVE  LET n == [x EXCEPT !.status = s, !.outcome = o]
             IN  /\ n \in [status : S, price : P, outcome : O, escrow : BOOLEAN, offers : F]
                 /\ n.status = s /\ n.outcome = o /\ n.price = x.price /\ n.escrow = x.escrow
  OBVIOUS
<1>2. "WALKAWAY" \in Status
  BY DEF Status, Rule!TerminalStates
<1> QED
  BY <1>1, <1>2 DEF Rows

(* One more application on the chain.                                       *)
LEMMA DeployedOnce ==
    ASSUME deployed \in [Kids -> Nat], NEW c \in Kids
    PROVE  [deployed EXCEPT ![c] = @ + 1] \in [Kids -> Nat]
BY SMT

(* A turn the guardrails block.                                             *)
LEMMA BaseBlocked ==
    ASSUME Base, NEW c \in Kids, NEW answer \in Modifiers \cup {None}, BlockedTurn(c, answer)
    PROVE  Base'
<1> DEFINE fails == counters[c].fails[Turn(c)] + 1
           ended == Rule!Ended(rec[c], "POLICY_BREACH")
<1>0. TypesInv /\ TalkInv /\ ActInv /\ CircuitIsFinal
  BY DEF Base
<1>1. fails \in Nat /\ counters[c].stall \in Nat
  BY <1>0, ObservedTyped DEF TypesInv
<1>2. /\ AtTurn(c) /\ Listened(c, answer) /\ Counted(c, fails, counters[c].stall) /\ Rollback({})
      /\ rec' \in {rec, [rec EXCEPT ![c] = ended]}
      /\ \E place \in {"breach", "turn"} : engine' = [engine EXCEPT ![c] = place]
      /\ UNCHANGED <<config, act, deployed, parent>>
  BY DEF BlockedTurn
<1> HIDE DEF fails
<1>3. counters' \in [Kids -> [stall : Nat, fails : [Roles -> Nat], flexibility : [Roles -> Int]]]
  BY <1>0, <1>1, <1>2, CountersTyped
<1>4. advisor' \in [failures : [Kids -> 0 .. Threshold], open : SUBSET Kids] /\ CircuitIsFinal'
  BY <1>0, <1>2, AdvisorTyped
<1>5. row' = row /\ work' = row /\ strays' \in [Kids -> Nat]
  BY <1>0, <1>2, StraysTyped
<1>6. /\ ended \in Records /\ ended.lastOffer = rec[c].lastOffer
      /\ ended.status \notin Rule!ActiveStates
  <2>1. rec[c] \in Records /\ "POLICY_BREACH" \in Status
    BY <1>0 DEF TypesInv, Status, Rule!TerminalStates
  <2>2. ended = [rec[c] EXCEPT !.status = "POLICY_BREACH"]
    BY DEF Rule!Ended
  <2>3. ended \in Records /\ ended.lastOffer = rec[c].lastOffer /\ ended.status = "POLICY_BREACH"
    BY <2>1, <2>2 DEF Records
  <2> QED
    BY <2>3 DEF Rule!ActiveStates
<1> HIDE DEF ended
<1>7. rec' \in [Kids -> Records] /\ \A d \in Kids : rec'[d] = rec[d] \/ (d = c /\ rec'[d] = ended)
  <2>1. rec \in [Kids -> Records]
    BY <1>0 DEF TypesInv
  <2>2. CASE rec' = rec
    BY <2>1, <2>2
  <2>3. CASE rec' = [rec EXCEPT ![c] = ended]
    BY <1>6, <2>1, <2>3
  <2> QED
    BY <1>2, <2>2, <2>3
<1>8. /\ engine' \in [Kids -> Places] /\ engine'[c] \notin InTurn
      /\ \A d \in Kids \ {c} : engine'[d] = engine[d]
  BY <1>0, <1>2 DEF TypesInv, Places, InTurn
<1>9. TypesInv'
  BY <1>0, <1>2, <1>3, <1>4, <1>5, <1>7, <1>8 DEF TypesInv
<1>10. TalkInv'
  BY <1>0, <1>6, <1>7 DEF TalkInv
<1>11. ASSUME NEW d \in Kids
       PROVE  /\ engine'[d] \in InTurn =>
                    /\ Chosen(act'[d], Turn(d)') /\ rec'[d].status \in Rule!ActiveStates
                    /\ act'[d].price # None => act'[d].price \in 1 .. Exposure
              /\ engine'[d] = "escrow" => act'[d].kind = "accept"
  <2>1. CASE d = c
    BY <1>8, <2>1 DEF InTurn
  <2>2. CASE d # c
    <3>1. engine'[d] = engine[d] /\ rec'[d] = rec[d] /\ act'[d] = act[d] /\ Turn(d)' = Turn(d)
      BY <1>2, <1>7, <1>8, <2>2 DEF Turn
    <3> QED
      BY <1>0, <3>1 DEF ActInv
  <2> QED
    BY <2>1, <2>2
<1>12. ActInv'
  BY <1>11 DEF ActInv
<1> QED
  BY <1>4, <1>9, <1>10, <1>12 DEF Base

(* The first step of a turn.                                                *)
LEMMA BaseTaken ==
    ASSUME Base, NEW c \in Kids, NEW answer \in Modifiers \cup {None}, TakeTurn(c, answer)
    PROVE  Base'
<1> DEFINE a == Envelope(c, answer)
           fails == counters[c].fails[Turn(c)]
<1>0. TypesInv /\ TalkInv /\ ActInv /\ CircuitIsFinal
  BY DEF Base
<1>1. fails \in Nat /\ counters[c].stall \in Nat
  BY <1>0, ObservedTyped DEF TypesInv
<1>2. /\ AtTurn(c) /\ Listened(c, answer) /\ Counted(c, fails, counters[c].stall)
      /\ act' = [act EXCEPT ![c] = a]
      /\ engine' = [engine EXCEPT ![c] = IF a.kind = "accept" THEN "escrow" ELSE "write"]
      /\ UNCHANGED <<config, rec, row, deployed, parent, strays>>
  BY DEF TakeTurn
<1> HIDE DEF fails
<1>3. counters' \in [Kids -> [stall : Nat, fails : [Roles -> Nat], flexibility : [Roles -> Int]]]
  BY <1>0, <1>1, <1>2, CountersTyped
<1>4. advisor' \in [failures : [Kids -> 0 .. Threshold], open : SUBSET Kids] /\ CircuitIsFinal'
  BY <1>0, <1>2, AdvisorTyped
<1>5. /\ Chosen(a, Turn(c)) /\ work' \in [Kids -> Rows]
      /\ a.price # None => a.price \in 1 .. Exposure
  BY <1>0, TakenIs
<1> HIDE DEF a
<1>6. /\ engine' \in [Kids -> Places] /\ DOMAIN act' = Kids
      /\ engine'[c] = (IF a.kind = "accept" THEN "escrow" ELSE "write") /\ act'[c] = a
      /\ \A d \in Kids \ {c} : engine'[d] = engine[d] /\ act'[d] = act[d]
  BY <1>0, <1>2 DEF TypesInv, Places, InTurn
<1>7. TypesInv'
  BY <1>0, <1>2, <1>3, <1>4, <1>5, <1>6 DEF TypesInv
<1>8. TalkInv'
  BY <1>0, <1>2 DEF TalkInv
<1>9. ASSUME NEW d \in Kids
      PROVE  /\ engine'[d] \in InTurn =>
                   /\ Chosen(act'[d], Turn(d)') /\ rec'[d].status \in Rule!ActiveStates
                   /\ act'[d].price # None => act'[d].price \in 1 .. Exposure
             /\ engine'[d] = "escrow" => act'[d].kind = "accept"
  <2>1. Turn(d)' = Turn(d) /\ rec'[d] = rec[d]
    BY <1>2 DEF Turn
  <2>2. CASE d = c
    BY <1>2, <1>5, <1>6, <2>1, <2>2 DEF AtTurn
  <2>3. CASE d # c
    BY <1>0, <1>6, <2>1, <2>3 DEF ActInv
  <2> QED
    BY <2>2, <2>3
<1>10. ActInv'
  BY <1>9 DEF ActInv
<1> QED
  BY <1>4, <1>7, <1>8, <1>10 DEF Base

(* The application of a child and its row.                                  *)
LEMMA TriggeredIs ==
    ASSUME TypesInv, NEW c \in Kids, NEW ok \in BOOLEAN, Triggered(c, ok)
    PROVE  /\ work' \in [Kids -> Rows] /\ \A d \in Kids \ {c} : work'[d] = work[d]
           /\ deployed' \in [Kids -> Nat] /\ \A d \in Kids \ {c} : deployed'[d] = deployed[d]
           /\ work'[c].status = work[c].status /\ work'[c].price = work[c].price
           /\ work'[c].outcome = work[c].outcome
           /\ \/ /\ Deploys(c)
                 /\ work'[c].escrow = TRUE /\ deployed'[c] = deployed[c] + 1
              \/ work'[c].escrow = work[c].escrow /\ deployed'[c] = deployed[c]
<1> DEFINE deploys == Deploys(c) /\ ok
           n == [work[c] EXCEPT !.escrow = @ \/ deploys]
<1>1. /\ work' = [work EXCEPT ![c] = n]
      /\ deployed' = IF deploys THEN [deployed EXCEPT ![c] = @ + 1] ELSE deployed
  BY DEF Triggered
<1>2. work[c] \in Rows /\ work[c].escrow \in BOOLEAN
  BY DEF TypesInv, Rows
<1>3. deploys => Deploys(c)
  OBVIOUS
<1>4. deploys \in BOOLEAN
  BY DEF Deploys
<1> HIDE DEF deploys
<1>5. /\ n \in Rows /\ n.status = work[c].status /\ n.price = work[c].price
      /\ n.outcome = work[c].outcome /\ n.escrow = (work[c].escrow \/ deploys)
  BY <1>2, <1>4, RowEscrowed
<1> HIDE DEF n
<1>6. /\ work' \in [Kids -> Rows] /\ work'[c] = n /\ \A d \in Kids \ {c} : work'[d] = work[d]
  BY <1>1, <1>5 DEF TypesInv
<1>7. CASE deploys
  <2>1. deployed' = [deployed EXCEPT ![c] = @ + 1]
    BY <1>1, <1>7
  <2>2. (work[c].escrow \/ deploys) = TRUE
    BY <1>2, <1>7, Zenon
  <2>3. work'[c].escrow = TRUE
    BY <1>5, <1>6, <2>2
  <2> QED
    BY <1>3, <1>5, <1>6, <1>7, <2>1, <2>3, DeployedOnce DEF TypesInv
<1>8. CASE ~deploys
  <2>1. deployed' = deployed
    BY <1>1, <1>8
  <2>2. (work[c].escrow \/ deploys) = work[c].escrow
    BY <1>2, <1>8, Zenon
  <2>3. work'[c].escrow = work[c].escrow
    BY <1>5, <1>6, <2>2
  <2> QED
    BY <1>5, <1>6, <2>1, <2>3 DEF TypesInv
<1> QED
  BY <1>7, <1>8

(* STEP 12's row.                                                           *)
LEMMA BaseWritten ==
    ASSUME Base, NEW c \in Kids, WriteRow(c)
    PROVE  /\ Base'
           /\ \A d \in Kids \ {c} : work'[d] = work[d]
           /\ work'[c].price = work[c].price /\ work'[c].escrow = work[c].escrow
           /\ work'[c].outcome = work[c].outcome
           /\ work'[c].status = "AGREED" <=> act[c].kind = "accept"
           /\ \A d \in Kids, r \in Roles : counters'[d].fails[r] = counters[d].fails[r]
<1> DEFINE a == act[c]
           stall == IF a.kind = "counter" THEN Rule!StallCount(rec[c], a, counters[c].stall)
                                          ELSE counters[c].stall
           status == Rule!Moved(rec[c], a, stall).status
           n == [work[c] EXCEPT !.status = status]
           count == [counters[c] EXCEPT !.stall = stall]
<1>0. TypesInv /\ TalkInv /\ ActInv /\ CircuitIsFinal
  BY DEF Base
<1>1. /\ engine[c] = "write"
      /\ counters' = [counters EXCEPT ![c] = count] /\ work' = [work EXCEPT ![c] = n]
      /\ engine' = [engine EXCEPT ![c] = "publish"]
      /\ UNCHANGED <<config, rec, row, act, advisor, deployed, parent, strays>>
  BY DEF WriteRow
<1>2. engine[c] \in InTurn
  BY <1>1 DEF InTurn
<1>3. /\ Chosen(a, Turn(c)) /\ Turn(c) \in Roles /\ rec[c].status \in Rule!ActiveStates
      /\ rec[c] \in Records /\ (a.price # None => a.price \in Nat)
  BY <1>0, <1>2, ObservedTyped DEF ActInv, TypesInv
<1>4. counters[c] \in [stall : Nat, fails : [Roles -> Nat], flexibility : [Roles -> Int]]
      /\ work[c] \in Rows
  BY <1>0 DEF TypesInv
<1>5. stall \in Nat
  <2>1. counters[c].stall \in Nat
    BY <1>4
  <2> QED
    BY <2>1 DEF Rule!StallCount
<1> HIDE DEF stall, a
<1>6. status \in Status /\ (status = "AGREED" <=> a.kind = "accept")
  <2>1. PICK s : s = rec[c]
    OBVIOUS
  <2>2. PICK r : r = Turn(c)
    OBVIOUS
  <2>3. PICK b, z : b = a /\ z = stall
    OBVIOUS
  <2>4. /\ s \in Records /\ s.status \in Rule!ActiveStates /\ r \in Roles /\ Chosen(b, r)
        /\ b.price # None => b.price \in Nat
    BY <1>3, <2>1, <2>2, <2>3
  <2> DEFINE m == Rule!Moved(s, b, z)
  <2>5. /\ m \in Records /\ (m.status = "AGREED" <=> b.kind = "accept")
        /\ m.lastOffer = IF b.price = None THEN s.lastOffer
                         ELSE [s.lastOffer EXCEPT ![r] = b.price]
        /\ b.price = None => m.status \notin Rule!ActiveStates
        /\ m.expectedTurn = Rule!Other(r)
    BY <2>4, MovedIs
  <2>6. m = Rule!Moved(rec[c], a, stall)
    BY <2>1, <2>3
  <2> HIDE DEF m
  <2> QED
    BY <2>3, <2>5, <2>6 DEF Records, status
<1> HIDE DEF status
<1>7. /\ count \in [stall : Nat, fails : [Roles -> Nat], flexibility : [Roles -> Int]]
      /\ count.fails = counters[c].fails
  BY <1>4, <1>5
<1>8. /\ n \in Rows /\ n.status = status /\ n.price = work[c].price
      /\ n.escrow = work[c].escrow /\ n.outcome = work[c].outcome
  BY <1>4, <1>6, RowRestated
<1> HIDE DEF n, count
<1>9. /\ work' \in [Kids -> Rows] /\ work'[c] = n /\ \A d \in Kids \ {c} : work'[d] = work[d]
      /\ counters' \in [Kids -> [stall : Nat, fails : [Roles -> Nat], flexibility : [Roles -> Int]]]
      /\ \A d \in Kids : counters'[d].fails = counters[d].fails
      /\ engine' \in [Kids -> Places]
      /\ \A d \in Kids : engine'[d] = IF d = c THEN "publish" ELSE engine[d]
  BY <1>0, <1>1, <1>7, <1>8 DEF TypesInv, Places, InTurn
<1>10. TypesInv'
  BY <1>0, <1>1, <1>9 DEF TypesInv
<1>11. TalkInv' /\ CircuitIsFinal'
  BY <1>0, <1>1 DEF TalkInv, CircuitIsFinal
<1>12. ASSUME NEW d \in Kids
       PROVE  /\ engine'[d] \in InTurn =>
                    /\ Chosen(act'[d], Turn(d)') /\ rec'[d].status \in Rule!ActiveStates
                    /\ act'[d].price # None => act'[d].price \in 1 .. Exposure
              /\ engine'[d] = "escrow" => act'[d].kind = "accept"
  <2>1. Turn(d)' = Turn(d) /\ rec'[d] = rec[d] /\ act'[d] = act[d]
    BY <1>1 DEF Turn
  <2>2. engine'[d] \in InTurn => engine[d] \in InTurn
    BY <1>2, <1>9
  <2>3. engine'[d] = "escrow" => engine[d] = "escrow"
    BY <1>9
  <2> QED
    BY <1>0, <2>1, <2>2, <2>3 DEF ActInv
<1>13. ActInv'
  BY <1>12 DEF ActInv
<1> QED
  BY <1>6, <1>8, <1>9, <1>10, <1>11, <1>13 DEF Base, a

(* The record, as process_action publishes it.                              *)
LEMMA BasePublished ==
    ASSUME Base, NEW c \in Kids, Publish(c)
    PROVE  /\ Base'
           /\ \A d \in Kids \ {c} : rec'[d] = rec[d]
           /\ act[c].kind = "accept" => rec'[c].status = "AGREED"
           /\ \A d \in Kids, r \in Roles : counters'[d].fails[r] \in {0, counters[d].fails[r]}
<1> DEFINE a == act[c]
           s == rec[c]
           m == Rule!Moved(s, a, counters[c].stall)
           count == [counters[c] EXCEPT !.fails[Turn(c)] = 0]
<1>0. TypesInv /\ TalkInv /\ ActInv /\ CircuitIsFinal
  BY DEF Base
<1>1. /\ engine[c] = "publish"
      /\ rec' = [rec EXCEPT ![c] = m] /\ counters' = [counters EXCEPT ![c] = count]
      /\ act' = [act EXCEPT ![c] = None] /\ engine' = [engine EXCEPT ![c] = "commit"]
      /\ UNCHANGED <<config, row, work, advisor, deployed, parent, strays>>
  BY DEF Publish
<1>2. engine[c] \in InTurn
  BY <1>1 DEF InTurn
<1>3. /\ Chosen(a, Turn(c)) /\ Turn(c) \in Roles /\ Rule!Other(Turn(c)) \in Roles
      /\ s.status \in Rule!ActiveStates /\ s \in Records
      /\ a.price # None => a.price \in 1 .. Exposure
  BY <1>0, <1>2, ObservedTyped DEF ActInv, TypesInv
<1>4. a.price # None => a.price \in Nat
  BY <1>3
<1> HIDE DEF a, s
<1>5. /\ m \in Records /\ (m.status = "AGREED" <=> a.kind = "accept")
      /\ m.lastOffer = IF a.price = None THEN s.lastOffer
                       ELSE [s.lastOffer EXCEPT ![Turn(c)] = a.price]
      /\ a.price = None => m.status \notin Rule!ActiveStates
      /\ m.expectedTurn = Rule!Other(Turn(c))
  BY <1>3, <1>4, MovedIs
<1> HIDE DEF m
<1>6. counters[c] \in [stall : Nat, fails : [Roles -> Nat], flexibility : [Roles -> Int]]
  BY <1>0 DEF TypesInv
<1>7. /\ count \in [stall : Nat, fails : [Roles -> Nat], flexibility : [Roles -> Int]]
      /\ \A r \in Roles : count.fails[r] \in {0, counters[c].fails[r]}
  BY <1>3, <1>6
<1> HIDE DEF count
<1>8. /\ rec' \in [Kids -> Records] /\ rec'[c] = m /\ \A d \in Kids \ {c} : rec'[d] = rec[d]
      /\ counters' \in [Kids -> [stall : Nat, fails : [Roles -> Nat], flexibility : [Roles -> Int]]]
      /\ engine' \in [Kids -> Places] /\ DOMAIN act' = Kids
      /\ \A d \in Kids \ {c} : engine'[d] = engine[d] /\ act'[d] = act[d]
      /\ engine'[c] = "commit"
  BY <1>0, <1>1, <1>5, <1>7 DEF TypesInv, Places, InTurn
<1>9. \A d \in Kids, r \in Roles : counters'[d].fails[r] \in {0, counters[d].fails[r]}
  <2>1. \A d \in Kids : counters'[d] = IF d = c THEN count ELSE counters[d]
    BY <1>0, <1>1 DEF TypesInv
  <2> QED
    BY <1>7, <2>1
<1>10. TypesInv' /\ CircuitIsFinal'
  <2>1. TypesInv'
    BY <1>0, <1>1, <1>8 DEF TypesInv
  <2> QED
    BY <1>0, <1>1, <2>1 DEF CircuitIsFinal
<1>11. ASSUME NEW d \in Kids
       PROVE  /\ engine'[d] \in InTurn =>
                    /\ Chosen(act'[d], Turn(d)') /\ rec'[d].status \in Rule!ActiveStates
                    /\ act'[d].price # None => act'[d].price \in 1 .. Exposure
              /\ engine'[d] = "escrow" => act'[d].kind = "accept"
  <2>1. CASE d = c
    BY <1>8, <2>1 DEF InTurn
  <2>2. CASE d # c
    <3>1. engine'[d] = engine[d] /\ rec'[d] = rec[d] /\ act'[d] = act[d] /\ Turn(d)' = Turn(d)
      BY <1>8, <2>2 DEF Turn
    <3> QED
      BY <1>0, <3>1 DEF ActInv
  <2> QED
    BY <2>1, <2>2
<1>a. ActInv'
  BY <1>11 DEF ActInv
<1>12. \A d \in Kids \ {c} : rec'[d] = rec[d]
  BY <1>8
<1>13. /\ rec'[c].lastOffer = IF a.price = None THEN s.lastOffer
                              ELSE [s.lastOffer EXCEPT ![Turn(c)] = a.price]
       /\ a.price = None => rec'[c].status \notin Rule!ActiveStates
       /\ a.price # None => a.price \in 1 .. Exposure /\ WholeCents(a.price)
       /\ rec'[c].expectedTurn = Rule!Other(Turn(c))
  BY <1>3, <1>5, <1>8, MultiAssumption DEF Chosen
<1>14. s.lastOffer \in [Roles -> Nat \cup {None}]
  BY <1>3 DEF Records
<1>15. /\ rec'[c].lastOffer["buyer"] # None
       /\ rec'[c].expectedTurn = "buyer" /\ rec'[c].status \in Rule!ActiveStates =>
             rec'[c].lastOffer["seller"] # None
  <2>1. a.price # None => a.price # None /\ rec'[c].lastOffer[Turn(c)] = a.price
    BY <1>3, <1>13, <1>14
  <2>2. s.lastOffer["buyer"] # None
    BY <1>0 DEF TalkInv, s
  <2>3. rec'[c].expectedTurn = "buyer" => Turn(c) = "seller"
    BY <1>3, <1>13, RoleFacts
  <2>4. \A r \in Roles : rec'[c].lastOffer[r] \in {a.price, s.lastOffer[r]}
                         /\ (a.price = None => rec'[c].lastOffer[r] = s.lastOffer[r])
    BY <1>3, <1>13, <1>14
  <2> QED
    BY <1>13, <2>1, <2>2, <2>3, <2>4 DEF Roles
<1>16. ASSUME NEW r \in Roles
       PROVE  LET p == rec'[c].lastOffer[r]
              IN  p # None => p \in 1 .. Exposure /\ (WholeCents(p) \/ (r = "buyer" /\ p \in Openings))
  <2>1. LET p == s.lastOffer[r]
        IN  p # None => p \in 1 .. Exposure /\ (WholeCents(p) \/ (r = "buyer" /\ p \in Openings))
    BY <1>0 DEF TalkInv, s
  <2>2. rec'[c].lastOffer[r] = IF a.price # None /\ r = Turn(c) THEN a.price ELSE s.lastOffer[r]
    BY <1>3, <1>13, <1>14
  <2> QED
    BY <1>13, <2>1, <2>2
<1>17. TalkInv'
  <2> SUFFICES ASSUME NEW d \in Kids
               PROVE  /\ rec'[d].lastOffer["buyer"] # None
                      /\ rec'[d].expectedTurn = "buyer" /\ rec'[d].status \in Rule!ActiveStates =>
                            rec'[d].lastOffer["seller"] # None
                      /\ \A r \in Roles :
                            LET p == rec'[d].lastOffer[r]
                            IN  p # None => p \in 1 .. Exposure /\ (WholeCents(p) \/ (r = "buyer" /\ p \in Openings))
    BY DEF TalkInv
  <2>1. CASE d = c
    BY <1>15, <1>16, <2>1
  <2>2. CASE d # c
    <3>1. rec'[d] = rec[d]
      BY <1>12, <2>2
    <3> QED
      BY <1>0, <3>1 DEF TalkInv
  <2> QED
    BY <2>1, <2>2
<1> QED
  BY <1>5, <1>8, <1>9, <1>10, <1>a, <1>17 DEF Base, a

-------------------------------------------------------------------------------
(* The winner.                                                              *)

Less == {p \in Nat \X Nat : p[1] < p[2]}

(* A set of naturals has a least element, by well-foundedness.              *)
LEMMA Least ==
    ASSUME NEW T \in SUBSET Nat, T # {}
    PROVE  \E n \in T : \A m \in T : n <= m
<1>1. IsWellFoundedOn(Less, Nat)
  BY NatLessThanWellFounded DEF Less, OpToRel
<1>2. PICK n \in T : \A m \in T : ~(<<m, n>> \in Less)
  BY <1>1, WFMin
<1>3. \A m \in T : ~(m < n)
  BY <1>2 DEF Less
<1> QED
  BY <1>3

(* The children, by their place among the invitations.                      *)
LEMMA ChildFacts ==
    /\ \A i \in DOMAIN Children : i \in Nat /\ Children[i] \in Kids
    /\ \A c \in Kids : \E i \in DOMAIN Children : Children[i] = c
    /\ \A i, j \in DOMAIN Children : Children[i] = Children[j] => i = j
    /\ Kids # {} /\ None \notin Kids
<1>1. Children \in Seq(Kids) /\ Len(Children) \in 2 .. 5
  BY MultiAssumption DEF Kids
<1>2. DOMAIN Children = 1 .. Len(Children)
  BY <1>1
<1>3. Kids = {Children[i] : i \in DOMAIN Children}
  BY DEF Kids, ToSet
<1>4. IsInjective(Children) /\ None \notin Kids
  BY MultiAssumption DEF Kids
<1>5. \A i \in DOMAIN Children : i \in Nat /\ Children[i] \in Kids
  BY <1>2, <1>3
<1>6. 1 \in DOMAIN Children
  BY <1>1, <1>2
<1>7. \A c \in Kids : \E i \in DOMAIN Children : Children[i] = c
  BY <1>3
<1>8. \A i, j \in DOMAIN Children : Children[i] = Children[j] => i = j
  BY <1>4 DEF IsInjective
<1> QED
  BY <1>4, <1>5, <1>6, <1>7, <1>8

(* Whom run_multi_session picks: the first of the cheapest.                 *)
LEMMA BestIs ==
    ASSUME TypesInv
    PROVE  \/ Deals = {} /\ Best = None
           \/ \E i \in Deals : /\ Best = Children[i] /\ Best \in Kids /\ Best # None /\ Agreed(Best)
                               /\ \A j \in Deals : Cheaper(i, j)
<1>1. SUFFICES ASSUME Deals # {}
               PROVE  \E i \in Deals : /\ Best = Children[i] /\ Best \in Kids /\ Best # None
                                       /\ Agreed(Best)
                                       /\ \A j \in Deals : Cheaper(i, j)
  BY DEF Best
<1> DEFINE price(i) == work[Children[i]].price
           Prices == {price(i) : i \in Deals}
<1>2. \A i \in Deals : i \in Nat /\ i \in DOMAIN Children /\ price(i) \in Nat
                       /\ Children[i] \in Kids /\ Agreed(Children[i])
  <2>1. \A i \in Deals : i \in DOMAIN Children /\ Agreed(Children[i])
    BY DEF Deals
  <2>2. \A i \in Deals : work[Children[i]].price \in Nat \cup {None}
    BY <2>1, ChildFacts DEF TypesInv, Rows
  <2> QED
    BY <2>1, <2>2, ChildFacts DEF Agreed
<1>3. PICK least \in Prices : \A p \in Prices : least <= p
  <2>1. Prices \in SUBSET Nat /\ Prices # {}
    BY <1>1, <1>2
  <2> HIDE DEF Prices
  <2> QED
    BY <2>1, Least
<1> DEFINE T == {i \in Deals : price(i) = least}
<1>4. PICK i \in T : \A j \in T : i <= j
  <2>1. T \in SUBSET Nat /\ T # {}
    BY <1>2, <1>3
  <2> HIDE DEF T
  <2> QED
    BY <2>1, Least
<1>5. \A j \in Deals : price(i) < price(j) \/ (price(i) = price(j) /\ i <= j)
  <2> TAKE j \in Deals
  <2>1. i \in Deals /\ price(i) = least /\ least <= price(j) /\ price(j) \in Nat /\ least \in Nat
    BY <1>2, <1>3, <1>4
  <2>2. CASE price(j) = least
    BY <1>4, <2>1, <2>2
  <2>3. CASE price(j) # least
    BY <2>1, <2>3
  <2> QED
    BY <2>2, <2>3
<1>6. \A j \in Deals : Cheaper(i, j)
  BY <1>5 DEF Cheaper
<1>7. i \in Deals
  BY <1>4
<1> DEFINE w == CHOOSE k \in Deals : \A j \in Deals : Cheaper(k, j)
<1>8. w \in Deals /\ \A j \in Deals : Cheaper(w, j)
  BY <1>6, <1>7
<1>9. Best = Children[w]
  BY <1>1 DEF Best
<1> HIDE DEF w
<1> QED
  BY <1>2, <1>8, <1>9, ChildFacts

(* What Conclude makes of the rows.                                         *)
LEMMA LosersTyped ==
    ASSUME NEW rows \in [Kids -> Rows], NEW best
    PROVE  /\ Losers(rows, best) \in [Kids -> Rows]
           /\ \A c \in Kids :
                 LET lost2 == c # best /\ rows[c].status = "AGREED"
                     n == Losers(rows, best)[c]
                 IN  /\ n.price = rows[c].price /\ n.escrow = rows[c].escrow
                     /\ n.status = IF lost2 THEN "WALKAWAY" ELSE rows[c].status
                     /\ n.outcome = IF lost2 THEN "MULTI_PARTY_LOSER" ELSE rows[c].outcome
<1>1. ASSUME NEW c \in Kids
      PROVE  LET lost2 == c # best /\ rows[c].status = "AGREED"
                 n == Losers(rows, best)[c]
             IN  /\ n \in Rows /\ n.price = rows[c].price /\ n.escrow = rows[c].escrow
                 /\ n.status = IF lost2 THEN "WALKAWAY" ELSE rows[c].status
                 /\ n.outcome = IF lost2 THEN "MULTI_PARTY_LOSER" ELSE rows[c].outcome
  <2> DEFINE n == Losers(rows, best)[c]
             m == [rows[c] EXCEPT !.status = "WALKAWAY", !.outcome = "MULTI_PARTY_LOSER"]
  <2>1. n = IF c # best /\ rows[c].status = "AGREED" THEN m ELSE rows[c]
    BY DEF Losers
  <2>2. /\ m \in Rows /\ m.status = "WALKAWAY" /\ m.outcome = "MULTI_PARTY_LOSER"
        /\ m.price = rows[c].price /\ m.escrow = rows[c].escrow
    BY RowLost
  <2> HIDE DEF n, m
  <2>3. CASE c # best /\ rows[c].status = "AGREED"
    BY <2>1, <2>2, <2>3 DEF n
  <2>4. CASE ~(c # best /\ rows[c].status = "AGREED")
    BY <2>1, <2>4 DEF n
  <2> QED
    BY <2>3, <2>4
<1>2. DOMAIN Losers(rows, best) = Kids /\ \E f : Losers(rows, best) = [c \in Kids |-> f[c]]
  BY DEF Losers
<1> QED
  BY <1>1, <1>2

(* The rows Conclude starts from, the winner's escrow added.                *)
Escrowed ==
    IF Best # None /\ Deploys(Best) THEN [work EXCEPT ![Best].escrow = TRUE] ELSE work

(* The escrow that follows the choice of the winner changes nothing else.   *)
LEMMA EscrowedTyped ==
    ASSUME TypesInv
    PROVE  /\ Escrowed \in [Kids -> Rows]
           /\ \A c \in Kids : /\ Escrowed[c].status = work[c].status
                              /\ Escrowed[c].price = work[c].price
                              /\ Escrowed[c].outcome = work[c].outcome
<1>1. CASE Best # None /\ Deploys(Best)
  <2> DEFINE n == [work[Best] EXCEPT !.escrow = TRUE]
  <2>1. Best \in Kids /\ work \in [Kids -> Rows]
    BY <1>1, BestIs DEF TypesInv
  <2>2. Escrowed = [work EXCEPT ![Best] = n]
    BY <1>1 DEF Escrowed
  <2>3. n \in Rows /\ n.status = work[Best].status /\ n.price = work[Best].price
        /\ n.outcome = work[Best].outcome
    BY <2>1, RowEscrowed
  <2> HIDE DEF n
  <2> QED
    BY <2>1, <2>2, <2>3
<1>2. CASE ~(Best # None /\ Deploys(Best))
  BY <1>2 DEF Escrowed, TypesInv
<1> QED
  BY <1>1, <1>2

(* The choice of the winner.                                                *)
LEMMA BaseConcluded ==
    ASSUME Base, Conclude \/ ConcludeLost
    PROVE  Base'
<1>1. TypesInv
  BY DEF Base
<1>2. Best \in Kids \cup {None}
  BY <1>1, BestIs
<1>3. UNCHANGED <<config, rec, counters, advisor, engine, act>> /\ strays' \in [Kids -> Nat]
  <2>1. UNCHANGED <<config, rec, counters, advisor, engine, act>>
    BY DEF Conclude, ConcludeLost
  <2>2. CASE Conclude
    BY <1>1, <2>2 DEF Conclude, TypesInv
  <2>3. CASE ConcludeLost
    BY <1>1, <2>3 DEF ConcludeLost, TypesInv
  <2> QED
    BY <2>1, <2>2, <2>3
<1>4. row' \in [Kids -> Rows] /\ work' \in [Kids -> Rows]
  <2>1. CASE Conclude
    <3>1. work' \in {work, Losers(Escrowed, Best)} /\ row' = work'
      BY <2>1 DEF Conclude, Escrowed
    <3>2. Losers(Escrowed, Best) \in [Kids -> Rows]
      BY <1>1, EscrowedTyped, LosersTyped
    <3>3. work \in [Kids -> Rows]
      BY <1>1 DEF TypesInv
    <3> QED
      BY <3>1, <3>2, <3>3
  <2>2. CASE ConcludeLost
    BY <1>1, <2>2 DEF ConcludeLost, TypesInv
  <2> QED
    BY <2>1, <2>2
<1>5. deployed' \in [Kids -> Nat]
  <2>1. deployed' \in {deployed, [deployed EXCEPT ![Best] = @ + 1]}
    BY DEF Conclude, ConcludeLost
  <2>2. deployed' # deployed => Best # None
    BY DEF Conclude, ConcludeLost
  <2> QED
    BY <1>1, <1>2, <2>1, <2>2, DeployedOnce DEF TypesInv
<1>6. parent' \in [status : {"ACTIVE", "CONCLUDED", "EXPIRED"}, best : Kids \cup {None},
                   over : BOOLEAN]
  <2>1. CASE Conclude
    <3>1. \/ parent' = [status |-> "EXPIRED", best |-> None, over |-> TRUE]
          \/ parent' = [status |-> "CONCLUDED", best |-> Best, over |-> TRUE]
      BY <2>1 DEF Conclude
    <3> DEFINE best == Best
    <3>2. best \in Kids \cup {None}
      BY <1>2
    <3>3. \/ parent' = [status |-> "EXPIRED", best |-> None, over |-> TRUE]
          \/ parent' = [status |-> "CONCLUDED", best |-> best, over |-> TRUE]
      BY <3>1
    <3> HIDE DEF best
    <3>4. /\ [status |-> "EXPIRED", best |-> None, over |-> TRUE]
               \in [status : {"ACTIVE", "CONCLUDED", "EXPIRED"}, best : Kids \cup {None},
                    over : BOOLEAN]
          /\ [status |-> "CONCLUDED", best |-> best, over |-> TRUE]
               \in [status : {"ACTIVE", "CONCLUDED", "EXPIRED"}, best : Kids \cup {None},
                    over : BOOLEAN]
      BY <3>2
    <3> QED
      BY <3>3, <3>4
  <2>2. CASE ConcludeLost
    <3>1. parent' = [parent EXCEPT !.over = TRUE]
      BY <2>2 DEF ConcludeLost
    <3>2. parent \in [status : {"ACTIVE", "CONCLUDED", "EXPIRED"}, best : Kids \cup {None},
                      over : BOOLEAN]
      BY <1>1 DEF TypesInv
    <3> QED
      BY <3>1, <3>2
  <2> QED
    BY <2>1, <2>2
<1> QED
  BY <1>1, <1>3, <1>4, <1>5, <1>6, BaseMoves DEF TypesInv

(* The end of an engine.                                                    *)
LEMMA BaseSettled ==
    ASSUME Base, NEW c \in Kids, NEW ok \in BOOLEAN, Settle(c, ok)
    PROVE  Base'
<1>1. TypesInv
  BY DEF Base
<1>2. /\ engine' = [engine EXCEPT ![c] = "close"]
      /\ UNCHANGED <<config, rec, counters, row, act, advisor, parent, strays>>
      /\ Triggered(c, ok) \/ UNCHANGED <<work, deployed>>
  BY DEF Settle
<1>3. work' \in [Kids -> Rows] /\ deployed' \in [Kids -> Nat]
  <2>1. work \in [Kids -> Rows] /\ deployed \in [Kids -> Nat]
    BY <1>1 DEF TypesInv
  <2>2. CASE Triggered(c, ok)
    BY <1>1, <2>2, TriggeredIs
  <2>3. CASE UNCHANGED <<work, deployed>>
    BY <2>1, <2>3
  <2> QED  BY <1>2, <2>2, <2>3
<1>4. /\ engine' \in [Kids -> Places]
      /\ \A d \in Kids : engine'[d] \in InTurn => engine[d] \in InTurn /\ engine'[d] = engine[d]
  BY <1>1, <1>2 DEF TypesInv, Places, InTurn
<1>5. DOMAIN act' = Kids /\ row' \in [Kids -> Rows] /\ strays' \in [Kids -> Nat]
  BY <1>1, <1>2 DEF TypesInv
<1>6. parent' \in [status : {"ACTIVE", "CONCLUDED", "EXPIRED"}, best : Kids \cup {None},
                   over : BOOLEAN]
  BY <1>1, <1>2 DEF TypesInv
<1> QED
  BY <1>2, <1>3, <1>4, <1>5, <1>6, BaseMoves

(* The trigger of process_action.                                           *)
LEMMA BaseTriggered ==
    ASSUME Base, NEW c \in Kids, NEW ok \in BOOLEAN, TriggerEscrow(c, ok)
    PROVE  Base'
<1>1. TypesInv
  BY DEF Base
<1>2. /\ engine[c] = "escrow" /\ engine' = [engine EXCEPT ![c] = "write"]
      /\ UNCHANGED <<config, rec, counters, row, act, advisor, parent, strays>>
      /\ Triggered(c, ok)
  BY DEF TriggerEscrow
<1>3. work' \in [Kids -> Rows] /\ deployed' \in [Kids -> Nat]
  BY <1>1, <1>2, TriggeredIs
<1>4. /\ engine' \in [Kids -> Places]
      /\ \A d \in Kids : engine'[d] \in InTurn =>
            engine[d] \in InTurn /\ engine'[d] \in {engine[d], "write"}
  BY <1>1, <1>2 DEF TypesInv, Places, InTurn
<1>5. DOMAIN act' = Kids /\ row' \in [Kids -> Rows] /\ strays' \in [Kids -> Nat]
  BY <1>1, <1>2 DEF TypesInv
<1>6. parent' \in [status : {"ACTIVE", "CONCLUDED", "EXPIRED"}, best : Kids \cup {None},
                   over : BOOLEAN]
  BY <1>1, <1>2 DEF TypesInv
<1> QED
  BY <1>2, <1>3, <1>4, <1>5, <1>6, BaseMoves

(* The row of a child the engine ends, or gives up before.                  *)
LEMMA EndedRows ==
    ASSUME TypesInv, NEW c \in Kids, Breach(c, TRUE) \/ Breach(c, FALSE) \/ NoConfig(c)
    PROVE  /\ row' \in [Kids -> Rows] /\ work' \in [Kids -> Rows]
           /\ \A d \in Kids \ {c} : work'[d] = work[d]
           /\ work'[c].escrow = work[c].escrow /\ work'[c].outcome = work[c].outcome
           /\ work'[c].price = work[c].price
           /\ \/ work'[c] = work[c]
              \/ work[c].status \in Rule!ActiveStates /\ work'[c].status \in {"POLICY_BREACH", "WALKAWAY"}
           /\ row' = row \/ row' = work'
<1>1. PICK st \in {"POLICY_BREACH", "WALKAWAY"} :
        \/ work' = work /\ row' = row
        \/ /\ work[c].status \in Rule!ActiveStates
           /\ work' = [work EXCEPT ![c].status = st] /\ row' = work'
  BY DEF Breach, NoConfig
<1>2. st \in Status /\ work[c] \in Rows
  BY DEF Status, Rule!TerminalStates, TypesInv
<1> DEFINE n == [work[c] EXCEPT !.status = st]
<1>3. /\ n \in Rows /\ n.status = st /\ n.price = work[c].price
      /\ n.escrow = work[c].escrow /\ n.outcome = work[c].outcome
  BY <1>2, RowRestated
<1>4. CASE work' = work /\ row' = row
  BY <1>4 DEF TypesInv
<1>5. CASE /\ work[c].status \in Rule!ActiveStates
           /\ work' = [work EXCEPT ![c] = n] /\ row' = work'
  <2> HIDE DEF n
  <2>1. work' \in [Kids -> Rows] /\ work'[c] = n /\ \A d \in Kids \ {c} : work'[d] = work[d]
    BY <1>3, <1>5 DEF TypesInv
  <2> QED
    BY <1>3, <1>5, <2>1
<1> QED
  BY <1>1, <1>4, <1>5

(* The steps that only rows and engines feel.                               *)
LEMMA BaseEnded ==
    ASSUME Base, NEW c \in Kids,
           \/ Breach(c, TRUE) \/ Breach(c, FALSE) \/ NoConfig(c) \/ Commit(c) \/ Clash(c) \/ Die(c)
    PROVE  Base'
<1>1. TypesInv
  BY DEF Base
<1>2. UNCHANGED <<config, rec, counters, advisor, deployed, parent>>
  BY DEF Breach, NoConfig, Commit, Clash, Die
<1>3. PICK place \in {"settle", "done", "turn"} : engine' = [engine EXCEPT ![c] = place]
  <2>1. CASE Commit(c)
    <3>1. engine' = [engine EXCEPT ![c] = IF @ = "commit" THEN "turn" ELSE "done"]
      BY <2>1 DEF Commit
    <3>2. CASE engine[c] = "commit"
      BY <3>1, <3>2
    <3>3. CASE engine[c] # "commit"
      BY <3>1, <3>3
    <3> QED
      BY <3>2, <3>3
  <2>2. CASE Breach(c, TRUE) \/ Breach(c, FALSE) \/ NoConfig(c) \/ Clash(c) \/ Die(c)
    BY <2>2 DEF Breach, NoConfig, Clash, Die
  <2> QED
    BY <2>1, <2>2
<1>4. act' = act \/ act' = [act EXCEPT ![c] = None]
  BY DEF Breach, NoConfig, Commit, Clash, Die
<1>5. row' \in [Kids -> Rows] /\ work' \in [Kids -> Rows] /\ strays' \in [Kids -> Nat]
  <2>1. CASE Breach(c, TRUE) \/ Breach(c, FALSE) \/ NoConfig(c)
    BY <1>1, <2>1, EndedRows DEF Breach, NoConfig, TypesInv
  <2>2. CASE Clash(c)
    <3>1. PICK stopped : Rollback(stopped)
      BY <2>2 DEF Clash
    <3> QED
      BY <1>1, <3>1, StraysTyped DEF TypesInv
  <2>3. CASE Commit(c) \/ Die(c)
    BY <1>1, <2>3 DEF Commit, Die, TypesInv
  <2> QED
    BY <2>1, <2>2, <2>3
<1>6. /\ engine' \in [Kids -> Places] /\ DOMAIN act' = Kids
      /\ \A d \in Kids : engine'[d] \in InTurn =>
            act'[d] = act[d] /\ engine[d] \in InTurn /\ engine'[d] = engine[d]
  BY <1>1, <1>3, <1>4 DEF TypesInv, Places, InTurn
<1>7. deployed' \in [Kids -> Nat]
      /\ parent' \in [status : {"ACTIVE", "CONCLUDED", "EXPIRED"}, best : Kids \cup {None},
                      over : BOOLEAN]
  BY <1>1, <1>2 DEF TypesInv
<1> QED
  BY <1>2, <1>5, <1>6, <1>7, BaseMoves

(* Every step keeps the base invariant.                                     *)
LEMMA BaseStep == Base /\ [Next]_vars => Base'
<1> SUFFICES ASSUME Base, [Next]_vars PROVE Base'
  OBVIOUS
<1>1. ASSUME NEW c \in Kids, NEW answer \in Modifiers \cup {None},
             BlockedTurn(c, answer) \/ TakeTurn(c, answer)
      PROVE  Base'
  BY <1>1, BaseBlocked, BaseTaken
<1>2. ASSUME NEW c \in Kids, NEW ok \in BOOLEAN, Breach(c, ok) \/ TriggerEscrow(c, ok) \/ Settle(c, ok)
      PROVE  Base'
  <2>1. Breach(c, ok) => Breach(c, TRUE) \/ Breach(c, FALSE)
    <3>1. CASE ok
      BY <3>1 DEF Breach
    <3>2. CASE ~ok
      BY <3>2 DEF Breach
    <3> QED
      BY <3>1, <3>2
  <2> QED
    BY <1>2, <2>1, BaseEnded, BaseTriggered, BaseSettled
<1>3. ASSUME NEW c \in Kids, WriteRow(c) \/ Publish(c) \/ Commit(c) \/ NoConfig(c) \/ Clash(c) \/ Die(c)
      PROVE  Base'
  BY <1>3, BaseWritten, BasePublished, BaseEnded
<1>4. CASE Conclude \/ ConcludeLost
  BY <1>4, BaseConcluded
<1>5. CASE UNCHANGED vars
  <2>1. UNCHANGED <<config, rec, counters, advisor, row, work, engine, act, deployed, strays, parent>>
    BY <1>5 DEF vars
  <2> QED
    BY <2>1, BaseMoves DEF Base, TypesInv
<1> QED
  BY <1>1, <1>2, <1>3, <1>4, <1>5 DEF Next

(* The rows, records and counters keep their types, and the offers on the   *)
(* table are as TalkInv says.                                               *)
THEOREM TypesKept == Spec => []Base
<1>1. Init => Base
  <2>1. Init => CircuitIsFinal /\ ActInv
    BY DEF Init, CircuitIsFinal, Threshold, ActInv, InTurn
  <2> QED
    BY <2>1, Starts DEF Base
<1> QED
  BY <1>1, BaseStep, PTL DEF Spec

(* An open circuit stays open, and it opens at the third failure in a row   *)
(* (LLMAdvisor), whatever the advisors answer.                              *)
THEOREM CircuitStaysOpen == Spec => []CircuitIsFinal
<1>1. Base => CircuitIsFinal
  BY DEF Base
<1> QED
  BY <1>1, TypesKept, PTL

-------------------------------------------------------------------------------
(* The advice.                                                              *)

(* One offer with an advice and one without, from the same state.           *)
LEMMA AdviceMoves ==
    ASSUME NEW s, Typed(s), NEW own \in Nat, NEW curve \in Int, NEW opponent, NEW prev,
           NEW flexibility \in Int, NEW m \in Int, NEW left \in Int
    PROVE  LET Offer(n) == NextOffer(s, own, Concession(curve, opponent, prev, flexibility, n, left))
           IN  1000 * (Distance(Offer(m), Offer(0)) - 10) <= 13 * own
<1> DEFINE x == Concession(curve, opponent, prev, flexibility, m, left)
           y == Concession(curve, opponent, prev, flexibility, 0, left)
<1>1. x \in Int /\ y \in Int
  BY ConcessionBounded
<1>2. Distance(x, y) <= 130
  BY AdviceOnConcession
<1> HIDE DEF x, y
<1>3. NextOffer(s, own, x) \in Int /\ NextOffer(s, own, y) \in Int
  BY <1>1, OfferTyped
<1>4. CASE x <= y
  <2>1. y - x <= 130
    BY <1>1, <1>2, <1>4 DEF Distance
  <2>2. 1000 * (Distance(NextOffer(s, own, x), NextOffer(s, own, y)) - 10) <= 13 * own
    BY <1>1, <1>4, <2>1, OffersApart
  <2> QED
    BY <2>2 DEF x, y
<1>5. CASE y <= x
  <2>1. x - y <= 130
    BY <1>1, <1>2, <1>5 DEF Distance
  <2>2. 1000 * (Distance(NextOffer(s, own, y), NextOffer(s, own, x)) - 10) <= 13 * own
    BY <1>1, <1>5, <2>1, OffersApart
  <2>3. Distance(NextOffer(s, own, y), NextOffer(s, own, x))
          = Distance(NextOffer(s, own, x), NextOffer(s, own, y))
    BY <1>3 DEF Distance
  <2>4. 1000 * (Distance(NextOffer(s, own, x), NextOffer(s, own, y)) - 10) <= 13 * own
    BY <2>2, <2>3
  <2> QED
    BY <2>4 DEF x, y
<1> QED
  BY <1>1, <1>4, <1>5

(* Whatever is recommended, the advice moves an offer of compute_next_offer *)
(* by 1.3 percent and a cent at most.                                       *)
THEOREM AdviceStaysBounded == Spec => []AdviceBounded
<1>1. Base => AdviceBounded
  <2> SUFFICES ASSUME Base, NEW c \in Kids, NEW m \in Modifiers, NEW left \in {1, 5},
                      NEW flexibility \in {0, 50, 100}, AtTurn(c),
                      rec[c].lastOffer["buyer"] # None, rec[c].lastOffer["seller"] # None
               PROVE  LET own == rec[c].lastOffer[Turn(c)]
                          opponent == rec[c].lastOffer[Rule!Other(Turn(c))]
                          Offer(modifier) == NextOffer(Snap(c, Turn(c)), own,
                              Concession(100, opponent, PrevOpponent(c), flexibility, modifier, left))
                      IN  1000 * (Distance(Offer(m), Offer(0)) - 10) <= 13 * own
    BY DEF AdviceBounded
  <2>1. Turn(c) \in Roles
    BY ObservedTyped DEF Base
  <2>2. rec[c].lastOffer[Turn(c)] \in Nat
    BY <2>1 DEF Base, TypesInv, Records, Roles
  <2>3. Typed(Snap(c, Turn(c)))
    BY <2>1, SnapTyped DEF Base
  <2>4. m \in Int /\ left \in Int /\ flexibility \in Int
    BY MultiAssumption
  <2>5. 100 \in Int
    OBVIOUS
  <2> DEFINE s == Snap(c, Turn(c))
             own == rec[c].lastOffer[Turn(c)]
             opponent == rec[c].lastOffer[Rule!Other(Turn(c))]
             prev == PrevOpponent(c)
  <2> HIDE DEF s, own, opponent, prev
  <2>6. LET Offer(n) == NextOffer(s, own, Concession(100, opponent, prev, flexibility, n, left))
        IN  1000 * (Distance(Offer(m), Offer(0)) - 10) <= 13 * own
    BY <2>2, <2>3, <2>4, <2>5, AdviceMoves DEF s, own
  <2> QED
    BY <2>6 DEF s, own, opponent, prev
<1> QED
  BY <1>1, TypesKept, PTL

-------------------------------------------------------------------------------
(* The guardrails against the strategies.                                   *)

(* A seller's offers lie between its limit and what it comes from.          *)
LEMMA AsksWithin ==
    ASSUME NEW s, Typed(s), s.role = "seller", WholeCents(Limit(s)), NEW x \in Int
    PROVE  LET p == ToCents(Within(s, x))
           IN  /\ p \in Int /\ Limit(s) <= p
               /\ p <= Limit(s) \/ p <= ToCents(x)
<1> DEFINE low == Limit(s)
<1>1. low \in Int /\ ToCents(low) = low
  BY RoundedToCents DEF Typed
<1>2. Within(s, x) = IF x < low THEN low ELSE x
  BY DEF Within
<1> HIDE DEF low
<1>3. CASE x < low
  BY <1>1, <1>2, <1>3 DEF low
<1>4. CASE ~(x < low)
  <2>0. low <= x
    BY <1>1, <1>4
  <2>1. ToCents(low) <= ToCents(x)
    BY <1>1, <2>0, ToCentsKeepsOrder
  <2>2. ToCents(x) \in Int
    BY RoundedToCents
  <2>3. ToCents(Within(s, x)) = ToCents(x)
    BY <1>2, <1>4
  <2> QED
    BY <1>1, <2>1, <2>2, <2>3 DEF low
<1> QED
  BY <1>3, <1>4

(* A buyer's lie between a cent and its limit.                              *)
LEMMA BidsWithin ==
    ASSUME NEW s, Typed(s), s.role = "buyer", WholeCents(Limit(s)), Limit(s) >= Cent,
           NEW x \in Int, x >= Cent
    PROVE  LET p == ToCents(Within(s, x)) IN p \in Int /\ 0 < p /\ p <= Limit(s)
<1> DEFINE high == Limit(s)
           b == Within(s, x)
<1>1. high \in Int /\ ToCents(high) = high /\ high >= 10
  BY RoundedToCents DEF Typed, Cent
<1>2. b = Clamp(0, x, high)
  BY DEF Within
<1> HIDE DEF high, b
<1>3. b \in Int /\ 10 <= b /\ b <= high
  BY <1>1, <1>2 DEF Clamp, Cent
<1>4. ToCents(b) <= ToCents(high) /\ ToCents(10) <= ToCents(b)
  BY <1>1, <1>3, ToCentsKeepsOrder
<1>5. ToCents(10) = 10
  BY DEF ToCents
<1>6. ToCents(b) \in Int
  BY <1>3, RoundedToCents
<1> QED
  BY <1>1, <1>4, <1>5, <1>6 DEF high, b

(* Where the strategy concedes to.                                          *)
Conceded(s, own, f) ==
    IF s.role = "buyer" THEN (own * (10000 + f)) \div 10000
                        ELSE (own * (10000 - f)) \div 10000

(* A seller's next offer concedes downward.                                 *)
LEMMA AskFrom ==
    ASSUME NEW s, s.role = "seller", NEW own \in Nat, NEW f \in Int, 10 <= f, f <= 1500
    PROVE  /\ Conceded(s, own, f) \in Int /\ Conceded(s, own, f) <= own
           /\ NextOffer(s, own, f) = ToCents(Within(s, Conceded(s, own, f)))
<1> DEFINE v == own * (10000 - f)
<1>1. v <= own * 10000 /\ v \in Int
  BY ProductsOrdered
<1>2. Conceded(s, own, f) = v \div 10000 /\ NextOffer(s, own, f) = ToCents(Within(s, v \div 10000))
  BY DEF NextOffer, Conceded
<1> HIDE DEF v
<1>3. v \div 10000 \in Int /\ v \div 10000 <= own
  BY <1>1
<1> QED
  BY <1>2, <1>3

(* A buyer's next offer concedes upward.                                    *)
LEMMA BidFrom ==
    ASSUME NEW s, s.role = "buyer", NEW own \in Nat, NEW f \in Int, 10 <= f, f <= 1500
    PROVE  /\ Conceded(s, own, f) \in Int /\ own <= Conceded(s, own, f)
           /\ NextOffer(s, own, f) = ToCents(Within(s, Conceded(s, own, f)))
<1> DEFINE v == own * (10000 + f)
<1>1. own * 10000 <= v /\ v \in Int
  BY ProductsOrdered
<1>2. Conceded(s, own, f) = v \div 10000 /\ NextOffer(s, own, f) = ToCents(Within(s, v \div 10000))
  BY DEF NextOffer, Conceded
<1> HIDE DEF v
<1>3. v \div 10000 \in Int /\ own <= v \div 10000
  BY <1>1
<1> QED
  BY <1>2, <1>3

(* What a strategy accepts is no further from its target than its           *)
(* reservation price, or so near to the target that no offer is.            *)
LEMMA SellerAccepts ==
    ASSUME NEW s, Typed(s), s.role = "seller", NEW p \in Nat, NEW left, NEW flexibility,
           ShouldAccept(s, p, left, flexibility),
           ~(1000 * Distance(s.reservation, s.target) < 5 * s.target)
    PROVE  p >= s.reservation
<1>1. s.reservation \in Nat /\ s.target \in Nat /\ s.reservation <= s.target
  BY DEF Typed
<1>2. CASE 1000 * Distance(p, s.target) < 5 * s.target
  BY <1>1, <1>2 DEF Distance
<1>3. CASE UtilityAtLeast(85, p, s) \/ UtilityAtLeast(70, p, s)
  <2>1. Distance(s.reservation, s.target) \in Nat
    BY <1>1 DEF Distance
  <2>2. /\ Distance(s.reservation, s.target) > 0
        /\ \/ 100 * (p - s.reservation) >= 85 * Distance(s.reservation, s.target)
           \/ 100 * (p - s.reservation) >= 70 * Distance(s.reservation, s.target)
    BY <1>3 DEF UtilityAtLeast
  <2> QED
    BY <1>1, <2>1, <2>2
<1> QED
  BY <1>2, <1>3 DEF ShouldAccept

(* A buyer accepts nothing above both its reservation price and its ceiling.*)
LEMMA BuyerAccepts ==
    ASSUME NEW s, Typed(s), s.role = "buyer", NEW p \in Nat, NEW left, NEW flexibility,
           ShouldAccept(s, p, left, flexibility),
           ~(1000 * Distance(s.reservation, s.target) < 5 * s.target)
    PROVE  p <= s.reservation \/ (s.ceiling # None /\ p <= s.ceiling)
<1>1. s.reservation \in Nat /\ s.target \in Nat /\ s.target <= s.reservation
  BY DEF Typed
<1>2. CASE 1000 * Distance(p, s.target) < 5 * s.target
  BY <1>1, <1>2 DEF Distance
<1>3. CASE UtilityAtLeast(85, p, s) \/ UtilityAtLeast(70, p, s)
  <2>1. Distance(s.reservation, s.target) \in Nat
    BY <1>1 DEF Distance
  <2>2. /\ Distance(s.reservation, s.target) > 0
        /\ \/ 100 * (s.reservation - p) >= 85 * Distance(s.reservation, s.target)
           \/ 100 * (s.reservation - p) >= 70 * Distance(s.reservation, s.target)
    BY <1>3 DEF UtilityAtLeast
  <2> QED
    BY <1>1, <2>1, <2>2
<1> QED
  BY <1>2, <1>3 DEF ShouldAccept

(* Where no reason is given, a seller offers and accepts within its limits. *)
LEMMA SellerPasses ==
    ASSUME NEW s, Typed(s), s.role = "seller", ~Blockable(s), NEW see, see.opponent \in Nat,
           see.own # None => see.own \in 1 .. Exposure /\ WholeCents(see.own),
           NEW choice, ChoiceIs(s, see, choice)
    PROVE  \/ /\ choice.kind = "counter" /\ choice.price \in Int
              /\ s.reservation <= choice.price /\ 0 < choice.price /\ choice.price <= Exposure
           \/ choice.kind = "accept" /\ s.reservation <= see.opponent
           \/ choice.kind = "reject"
<1> DEFINE Good == \/ /\ choice.kind = "counter" /\ choice.price \in Int
                      /\ s.reservation <= choice.price /\ 0 < choice.price
                      /\ choice.price <= Exposure
                   \/ choice.kind = "accept" /\ s.reservation <= see.opponent
                   \/ choice.kind = "reject"
<1>1. Limit(s) = s.reservation /\ s.reservation \in Nat /\ s.anchor \in Nat /\ Exposure \in Nat
  BY MultiAssumption DEF Typed, Limit
<1>2. ToCents(s.anchor) \in Int
  BY <1>1, RoundedToCents
<1>3. /\ WholeCents(Limit(s)) /\ ~(Limit(s) > Exposure) /\ ~(ToCents(s.anchor) > Exposure)
      /\ ~(Limit(s) < 10)
      /\ ~(1000 * Distance(s.reservation, s.target) < 5 * s.target)
  BY DEF Blockable, Cent
<1>4. Limit(s) <= Exposure /\ ToCents(s.anchor) <= Exposure /\ 10 <= Limit(s)
  BY <1>1, <1>2, <1>3
<1>5. ASSUME NEW x \in Int, ToCents(x) <= Exposure, choice.kind = "counter",
             choice.price = ToCents(Within(s, x))
      PROVE  Good
  <2>1. /\ choice.price \in Int /\ Limit(s) <= choice.price
        /\ choice.price <= Limit(s) \/ choice.price <= ToCents(x)
    BY <1>3, <1>5, AsksWithin
  <2>2. ToCents(x) \in Int
    BY RoundedToCents
  <2> QED
    BY <1>1, <1>4, <1>5, <2>1, <2>2
<1>6. ASSUME NEW own \in Nat, ToCents(own) <= Exposure, choice.kind = "counter",
             Offered(s, own, choice.price)
      PROVE  Good
  <2>0. PICK f \in Int : 10 <= f /\ f <= 1500 /\ choice.price = NextOffer(s, own, f)
    BY <1>6 DEF Offered
  <2> DEFINE x == Conceded(s, own, f)
  <2>1. x \in Int /\ NextOffer(s, own, f) = ToCents(Within(s, x)) /\ x <= own
    BY <2>0, AskFrom
  <2> HIDE DEF x
  <2>2. ToCents(x) <= ToCents(own)
    BY <2>1, ToCentsKeepsOrder
  <2>3. ToCents(x) \in Int /\ ToCents(own) \in Int
    BY <2>1, RoundedToCents
  <2>4. ToCents(x) <= Exposure
    BY <1>1, <1>6, <2>2, <2>3
  <2> QED
    BY <1>5, <1>6, <2>0, <2>1, <2>4
<1>7. see.own # None => see.own \in Nat /\ ToCents(see.own) <= Exposure
  BY <1>1, RoundedToCents
<1>8. ASSUME ShouldAccept(s, see.opponent, see.roundsLeft, see.flexibility)
      PROVE  s.reservation <= see.opponent
  BY <1>1, <1>3, <1>8, SellerAccepts
<1> SUFFICES Good
  OBVIOUS
<1> HIDE DEF Good
<1>9. CASE choice.kind = "counter" /\ s.role = "seller" /\ choice.price = ToCents(Within(s, s.anchor))
  BY <1>1, <1>4, <1>5, <1>9
<1>10. CASE /\ choice.kind = "counter" /\ see.own # None
            /\ Offered(s, see.own, choice.price)
  BY <1>6, <1>7, <1>10
<1>11. CASE /\ choice.kind = "counter" /\ see.own = None /\ s.role = "seller"
            /\ Offered(s, s.anchor, choice.price)
  BY <1>1, <1>4, <1>6, <1>11
<1>12. CASE /\ choice.kind = "accept" /\ choice.price = None
            /\ ShouldAccept(s, see.opponent, see.roundsLeft, see.flexibility)
  BY <1>8, <1>12 DEF Good
<1>13. CASE choice.kind = "reject" /\ choice.price = None
  BY <1>13 DEF Good
<1>14. ChoiceIs(s, see, choice)
  OBVIOUS
<1> QED
  BY ONLY <1>9, <1>10, <1>11, <1>12, <1>13, <1>14 DEF ChoiceIs

(* And so does a buyer.                                                     *)
LEMMA BuyerPasses ==
    ASSUME NEW s, Typed(s), s.role = "buyer", ~Blockable(s), NEW see, see.opponent \in 1 .. Exposure,
           see.own \in 1 .. Exposure /\ (WholeCents(see.own) \/ see.own \in Openings),
           NEW choice, ChoiceIs(s, see, choice),
           NEW ceiling, ceiling = IF s.ceiling = None THEN Exposure ELSE s.ceiling
    PROVE  \/ /\ choice.kind = "counter" /\ choice.price \in Int
              /\ choice.price <= ceiling /\ 0 < choice.price /\ choice.price <= Exposure
           \/ choice.kind = "accept" /\ see.opponent <= ceiling
           \/ choice.kind = "reject"
<1> DEFINE Good == \/ /\ choice.kind = "counter" /\ choice.price \in Int
                      /\ choice.price <= ceiling /\ 0 < choice.price /\ choice.price <= Exposure
                   \/ choice.kind = "accept" /\ see.opponent <= ceiling
                   \/ choice.kind = "reject"
<1>1. s.reservation \in Nat /\ Limit(s) \in Nat /\ s.ceiling \in Nat \cup {None} /\ Exposure \in Nat
  BY MultiAssumption DEF Typed
<1>2. Limit(s) = IF s.ceiling = None THEN s.reservation ELSE s.ceiling
  BY DEF Limit
<1>3. /\ WholeCents(Limit(s)) /\ ~(Limit(s) > Exposure) /\ ~(Limit(s) < Cent)
      /\ s.ceiling # None => ~(s.ceiling < s.reservation)
      /\ ~(1000 * Distance(s.reservation, s.target) < 5 * s.target)
      /\ \A opening \in Openings : ~(opening < Cent)
  BY DEF Blockable
<1>4. /\ Limit(s) <= Exposure /\ Limit(s) >= Cent /\ Limit(s) <= ceiling /\ ceiling \in Nat
      /\ s.ceiling # None => s.reservation <= s.ceiling
  BY <1>1, <1>2, <1>3 DEF Cent
<1>5. see.own \in Nat /\ see.own >= Cent
  <2>1. CASE WholeCents(see.own)
    BY <1>1, <2>1 DEF WholeCents, Cent
  <2>2. CASE see.own \in Openings
    BY <1>1, <1>3, <2>2 DEF Cent
  <2> QED
    BY <2>1, <2>2
<1>6. ASSUME NEW own \in Nat, own >= Cent, choice.kind = "counter",
             Offered(s, own, choice.price)
      PROVE  Good
  <2>0. PICK f \in Int : 10 <= f /\ f <= 1500 /\ choice.price = NextOffer(s, own, f)
    BY <1>6 DEF Offered
  <2> DEFINE x == Conceded(s, own, f)
  <2>1. x \in Int /\ NextOffer(s, own, f) = ToCents(Within(s, x)) /\ own <= x
    BY <2>0, BidFrom
  <2> HIDE DEF x
  <2>2. x >= Cent
    BY <1>6, <2>1 DEF Cent
  <2>3. choice.price \in Int /\ 0 < choice.price /\ choice.price <= Limit(s)
    BY <1>3, <1>4, <2>0, <2>1, <2>2, BidsWithin
  <2> QED
    BY <1>1, <1>4, <1>6, <2>3
<1>7. ASSUME ShouldAccept(s, see.opponent, see.roundsLeft, see.flexibility)
      PROVE  see.opponent <= ceiling
  <2>1. see.opponent <= s.reservation \/ (s.ceiling # None /\ see.opponent <= s.ceiling)
    BY <1>1, <1>3, <1>7, BuyerAccepts
  <2> QED
    BY <1>1, <1>4, <2>1
<1>8. see.own # None /\ s.role # "seller"
  BY <1>5, MultiAssumption
<1> SUFFICES Good
  OBVIOUS
<1> HIDE DEF Good
<1>9. CASE choice.kind = "counter" /\ s.role = "seller" /\ choice.price = ToCents(Within(s, s.anchor))
  BY <1>8, <1>9
<1>10. CASE /\ choice.kind = "counter" /\ see.own # None
            /\ Offered(s, see.own, choice.price)
  BY <1>5, <1>6, <1>10
<1>11. CASE /\ choice.kind = "counter" /\ see.own = None /\ s.role = "seller"
            /\ Offered(s, s.anchor, choice.price)
  BY <1>8, <1>11
<1>12. CASE /\ choice.kind = "accept" /\ choice.price = None
            /\ ShouldAccept(s, see.opponent, see.roundsLeft, see.flexibility)
  BY <1>7, <1>12 DEF Good
<1>13. CASE choice.kind = "reject" /\ choice.price = None
  BY <1>13 DEF Good
<1>14. ChoiceIs(s, see, choice)
  OBVIOUS
<1> QED
  BY ONLY <1>9, <1>10, <1>11, <1>12, <1>13, <1>14 DEF ChoiceIs

(* A turn is blocked for a reason.                                          *)
LEMMA BlockedHasReason ==
    ASSUME Base, NEW c \in Kids, AtTurn(c), NEW answer \in Modifiers \cup {None},
           Breaches(c, Envelope(c, answer))
    PROVE  Blockable(Snap(c, Turn(c)))
<1>1. TypesInv /\ TalkInv
  BY DEF Base
<1>2. PICK see :
        /\ see.opponent = rec[c].lastOffer[Rule!Other(Turn(c))] /\ see.opponent \in Nat
        /\ see.own = rec[c].lastOffer[Turn(c)]
        /\ ChoiceIs(Snap(c, Turn(c)), see, Choice(Snap(c, Turn(c)), see))
        /\ Envelope(c, answer) = [role |-> Turn(c), kind |-> Choice(Snap(c, Turn(c)), see).kind,
                                  price |-> Choice(Snap(c, Turn(c)), see).price,
                                  round |-> rec[c].round]
  BY <1>1, EnvelopeIs
<1>3. PICK r : r = Turn(c)
  OBVIOUS
<1>4. PICK s : s = Snap(c, r)
  OBVIOUS
<1>5. PICK choice : choice = Choice(s, see)
  OBVIOUS
<1>6. PICK a : a = Envelope(c, answer)
  OBVIOUS
<1>7. r \in Roles /\ Typed(s) /\ s.role = r
  BY <1>1, <1>3, <1>4, ObservedTyped, SnapTyped
<1>8. ChoiceIs(s, see, choice) /\ a.role = r /\ a.kind = choice.kind /\ a.price = choice.price
  BY <1>2, <1>3, <1>4, <1>5, <1>6
<1>9. LET p == IF a.kind = "accept" THEN see.opponent ELSE a.price
      IN  /\ a.kind \in {"counter", "accept"}
          /\ \/ r = "seller" /\ p < Snap(c, "seller").reservation
             \/ r = "buyer" /\ p > BuyerCeiling
             \/ a.kind = "counter" /\ p > Exposure
             \/ a.kind = "counter" /\ p <= 0
  <2>1. Breaches(c, a) /\ a.role = r
    BY <1>6, <1>8
  <2>2. [x \in Roles |-> Exposure][r] = Exposure
    BY <1>7
  <2>3. see.opponent = rec[c].lastOffer[Rule!Other(r)]
    BY <1>2, <1>3
  <2> QED
    BY <2>1, <2>2, <2>3, BreachesIs
<1>10. SUFFICES ASSUME ~Blockable(s) PROVE FALSE
  BY <1>3, <1>4
<1>11. see.own # None => see.own \in 1 .. Exposure
                         /\ (WholeCents(see.own) \/ (r = "buyer" /\ see.own \in Openings))
  BY <1>1, <1>2, <1>3, <1>7 DEF TalkInv
<1>12. Exposure \in Nat
  BY MultiAssumption
<1>13. CASE r = "seller"
  <2>1. see.own # None => see.own \in 1 .. Exposure /\ WholeCents(see.own)
    BY <1>11, <1>13
  <2>2. \/ /\ choice.kind = "counter" /\ choice.price \in Int
           /\ s.reservation <= choice.price /\ 0 < choice.price /\ choice.price <= Exposure
        \/ choice.kind = "accept" /\ s.reservation <= see.opponent
        \/ choice.kind = "reject"
    BY <1>2, <1>7, <1>8, <1>10, <1>13, <2>1, SellerPasses
  <2>3. Snap(c, "seller").reservation = s.reservation /\ s.reservation \in Nat
    BY <1>4, <1>7, <1>13 DEF Typed
  <2> QED
    BY <1>2, <1>8, <1>9, <1>12, <1>13, <2>2, <2>3
<1>14. CASE r = "buyer"
  <2>1. see.own # None
    BY <1>1, <1>2, <1>3, <1>14 DEF TalkInv
  <2>2. see.own \in 1 .. Exposure /\ (WholeCents(see.own) \/ see.own \in Openings)
    BY <1>11, <2>1
  <2>3. see.opponent \in 1 .. Exposure
    <3>1. see.opponent = rec[c].lastOffer["seller"]
      BY <1>2, <1>3, <1>14, RoleFacts
    <3>2. see.opponent # None
      BY <1>2, MultiAssumption
    <3> QED
      BY <1>1, <3>1, <3>2 DEF TalkInv, Roles
  <2>4. s.ceiling = BuyerConfig.ceiling
    BY <1>4, <1>14 DEF Snap, Snapshot
  <2>5. BuyerCeiling = IF s.ceiling = None THEN Exposure ELSE s.ceiling
    BY <2>4 DEF BuyerCeiling
  <2>6. PICK ceiling : ceiling = BuyerCeiling
    OBVIOUS
  <2>7. \/ /\ choice.kind = "counter" /\ choice.price \in Int
           /\ choice.price <= ceiling /\ 0 < choice.price /\ choice.price <= Exposure
        \/ choice.kind = "accept" /\ see.opponent <= ceiling
        \/ choice.kind = "reject"
    BY <1>7, <1>8, <1>10, <1>14, <2>2, <2>3, <2>5, <2>6, BuyerPasses
  <2>8. ceiling \in Nat
    <3>1. s.ceiling \in Nat \cup {None}
      BY <1>7 DEF Typed
    <3> QED
      BY <1>12, <2>5, <2>6, <3>1
  <2> QED
    BY <1>2, <1>8, <1>9, <1>12, <1>14, <2>6, <2>7, <2>8
<1> QED
  BY <1>7, <1>13, <1>14 DEF Roles

(* The configurations are never written.                                    *)
LEMMA ConfigStays == [Next]_vars => config' = config
<1> SUFFICES ASSUME [Next]_vars PROVE config' = config
  OBVIOUS
<1>1. ASSUME NEW c \in Kids, NEW answer, BlockedTurn(c, answer) \/ TakeTurn(c, answer)
      PROVE  config' = config
  BY <1>1 DEF BlockedTurn, TakeTurn
<1>2. ASSUME NEW c \in Kids, NEW ok, Breach(c, ok) \/ TriggerEscrow(c, ok) \/ Settle(c, ok)
      PROVE  config' = config
  BY <1>2 DEF Breach, TriggerEscrow, Settle
<1>3. ASSUME NEW c \in Kids, WriteRow(c) \/ Publish(c) \/ Commit(c) \/ NoConfig(c) \/ Clash(c) \/ Die(c)
      PROVE  config' = config
  BY <1>3 DEF WriteRow, Publish, Commit, NoConfig, Clash, Die
<1>4. CASE Conclude \/ ConcludeLost \/ UNCHANGED vars
  BY <1>4 DEF Conclude, ConcludeLost, vars
<1> QED
  BY <1>1, <1>2, <1>3, <1>4 DEF Next

(* The strategies run into their own guardrails for the reasons of          *)
(* Blockable only (compute_next_offer, should_accept, GuardrailEngine).     *)
THEOREM BlockedOnlyForAReason == Spec => []BlockedForAReason
<1>1. Init => BlockedForAReason
  <2> SUFFICES ASSUME Init, NEW c \in Kids, NEW r \in Roles
               PROVE  ~(counters[c].fails[r] > 0)
    BY DEF BlockedForAReason
  <2>1. counters[c].fails[r] = 0
    BY DEF Init
  <2> QED
    BY <2>1
<1>2. ASSUME Base, BlockedForAReason, [Next]_vars
      PROVE  BlockedForAReason'
  <2> SUFFICES ASSUME NEW c \in Kids, NEW r \in Roles, counters'[c].fails[r] > 0
               PROVE  Blockable(Snap(c, r))'
    BY DEF BlockedForAReason
  <2>1. config' = config
    BY <1>2, ConfigStays
  <2>2. Blockable(Snap(c, r))' <=> Blockable(Snap(c, r))
    BY <2>1 DEF Blockable, Snap, Limit
  <2>3. ASSUME NEW d \in Kids, NEW answer \in Modifiers \cup {None}, BlockedTurn(d, answer)
        PROVE  Blockable(Snap(c, r))
    <3> DEFINE fails == counters[d].fails[Turn(d)] + 1
    <3>1. TypesInv /\ TalkInv
      BY <1>2 DEF Base
    <3>2. fails \in Nat /\ counters[d].stall \in Nat
      BY <3>1, ObservedTyped DEF TypesInv
    <3>3. AtTurn(d) /\ Breaches(d, Envelope(d, answer)) /\ Counted(d, fails, counters[d].stall)
      BY <2>3 DEF BlockedTurn
    <3> HIDE DEF fails
    <3>4. counters'[c].fails[r] = IF c = d /\ r = Turn(d) THEN fails ELSE counters[c].fails[r]
      BY <3>1, <3>2, <3>3, CountersTyped
    <3>5. CASE c = d /\ r = Turn(d)
      BY <1>2, <3>3, <3>5, BlockedHasReason
    <3>6. CASE ~(c = d /\ r = Turn(d))
      BY <1>2, <3>4, <3>6 DEF BlockedForAReason
    <3> QED
      BY <3>5, <3>6
  <2>4. ASSUME NEW d \in Kids, NEW answer \in Modifiers \cup {None}, TakeTurn(d, answer)
        PROVE  Blockable(Snap(c, r))
    <3> DEFINE fails == counters[d].fails[Turn(d)]
    <3>1. TypesInv /\ TalkInv
      BY <1>2 DEF Base
    <3>2. fails \in Nat /\ counters[d].stall \in Nat
      BY <3>1, ObservedTyped DEF TypesInv
    <3>3. Counted(d, fails, counters[d].stall)
      BY <2>4 DEF TakeTurn
    <3>4. counters'[c].fails[r] = IF c = d /\ r = Turn(d) THEN fails ELSE counters[c].fails[r]
      BY <3>1, <3>2, <3>3, CountersTyped
    <3>5. counters'[c].fails[r] = counters[c].fails[r]
      BY <3>4
    <3> QED
      BY <1>2, <3>5 DEF BlockedForAReason
  <2>5. ASSUME NEW d \in Kids, WriteRow(d) \/ Publish(d)
        PROVE  Blockable(Snap(c, r))
    <3>1. counters'[c].fails[r] \in {0, counters[c].fails[r]}
      BY <1>2, <2>5, BaseWritten, BasePublished
    <3>2. counters'[c].fails[r] = counters[c].fails[r]
      BY <3>1
    <3> QED
      BY <1>2, <3>2 DEF BlockedForAReason
  <2>6. CASE UNCHANGED counters
    BY <1>2, <2>2, <2>6 DEF BlockedForAReason
  <2>7. \/ \E d \in Kids, answer \in Modifiers \cup {None} : BlockedTurn(d, answer) \/ TakeTurn(d, answer)
        \/ \E d \in Kids : WriteRow(d) \/ Publish(d)
        \/ UNCHANGED counters
    BY <1>2 DEF Next, Breach, TriggerEscrow, Settle, Commit, NoConfig, Clash, Die, Conclude,
                ConcludeLost, vars
  <2> QED
    BY <2>2, <2>3, <2>4, <2>5, <2>6, <2>7
<1> QED
  BY <1>1, <1>2, TypesKept, PTL DEF Spec

-------------------------------------------------------------------------------
(* The escrows.                                                             *)

Deal(e) == e.status = "AGREED"

(* The chain has the application a child's row tells of, and those whose    *)
(* rows were rolled back; only run_multi_session writes an outcome.         *)
ChainInv(c) ==
    /\ deployed[c] = strays[c] + (IF work[c].escrow THEN 1 ELSE 0)
    /\ row[c].escrow => work[c].escrow
    /\ row[c].outcome = None /\ work[c].outcome = None

(* A child none of whose turns was lost has an agreed row with its price,   *)
(* an application for a deal only, an ended record where the deal is        *)
(* published, and in the middle of a turn a deal exactly of an accept.      *)
DealInv(c) ==
    c \notin lost =>
        /\ Deal(work[c]) => work[c].price # None
        /\ deployed[c] > 0 => Deal(work[c])
        /\ engine[c] \in {"turn", "commit"} /\ Deal(work[c]) => rec[c].status \notin Rule!ActiveStates
        /\ engine[c] \in InTurn => (Deal(work[c]) <=> act[c].kind = "accept")

ChildInv(c) == ChainInv(c) /\ DealInv(c)

(* Once it is over nothing moves.                                           *)
EscrowInv ==
    /\ ~parent.over => parent.status = "ACTIVE" /\ \A c \in Kids : ChildInv(c)
    /\ parent.over => AllDone /\ EscrowsExplained /\ WinnerIsBest

(* Nothing is on the chain at the opening.                                  *)
LEMMA EscrowStarts == Init => EscrowInv
<1> SUFFICES ASSUME Init PROVE EscrowInv
  OBVIOUS
<1>1. parent = [status |-> "ACTIVE", best |-> None, over |-> FALSE]
  BY DEF Init
<1>2. ASSUME NEW c \in Kids
      PROVE  ChildInv(c)
  <2>1. deployed[c] = 0 /\ strays[c] = 0 /\ work = row /\ engine[c] = "turn"
    BY DEF Init
  <2>2. row[c].status = "BUYER_ANCHOR" /\ ~row[c].escrow /\ row[c].outcome = None
    BY DEF Init
  <2> QED
    BY <2>1, <2>2 DEF ChildInv, ChainInv, DealInv, Deal, InTurn
<1> QED
  BY <1>1, <1>2 DEF EscrowInv

(* A child that a step of another does not concern; a commit may still      *)
(* store its row.                                                           *)
LEMMA Untouched ==
    ASSUME NEW c, ChildInv(c), UNCHANGED lost,
           deployed'[c] = deployed[c], strays'[c] = strays[c], work'[c] = work[c],
           row'[c] = row[c] \/ row'[c] = work[c],
           engine'[c] = engine[c], act'[c] = act[c], rec'[c] = rec[c]
    PROVE  ChildInv(c)'
<1>1. ChainInv(c)'
  BY DEF ChildInv, ChainInv
<1>2. DealInv(c)'
  BY DEF ChildInv, DealInv
<1> QED
  BY <1>1, <1>2 DEF ChildInv

(* A rollback moves an application from its row to the strays.              *)
LEMMA RolledBack ==
    ASSUME TypesInv, NEW c \in Kids, ChildInv(c), NEW stopped, Rollback(stopped),
           deployed'[c] = deployed[c]
    PROVE  /\ ChainInv(c)'
           /\ c \notin lost' => c \notin lost /\ c \notin stopped /\ work'[c] = work[c]
<1>1. /\ work' = row /\ row' = row
      /\ lost' = lost \cup stopped \cup {d \in Kids : work[d] # row[d]}
      /\ strays'[c] = IF work[c].escrow /\ ~row[c].escrow THEN strays[c] + 1 ELSE strays[c]
  BY DEF Rollback
<1>2. /\ deployed[c] = strays[c] + (IF work[c].escrow THEN 1 ELSE 0)
      /\ row[c].escrow => work[c].escrow
      /\ row[c].outcome = None
  BY DEF ChildInv, ChainInv
<1>3. deployed[c] \in Nat /\ strays[c] \in Nat
  BY DEF TypesInv
<1>4. deployed'[c] = strays'[c] + (IF work'[c].escrow THEN 1 ELSE 0)
  <2>1. CASE work[c].escrow /\ ~row[c].escrow
    BY <1>1, <1>2, <1>3, <2>1
  <2>2. CASE work[c].escrow /\ row[c].escrow
    BY <1>1, <1>2, <1>3, <2>2
  <2>3. CASE ~work[c].escrow
    BY <1>1, <1>2, <1>3, <2>3
  <2> QED
    BY <2>1, <2>2, <2>3
<1>5. ChainInv(c)'
  BY <1>1, <1>2, <1>4 DEF ChainInv
<1>6. c \notin lost' => c \notin lost /\ c \notin stopped /\ work'[c] = work[c]
  BY <1>1
<1> QED
  BY <1>5, <1>6

(* A turn the guardrails block, and the rows it rolls back.                 *)
LEMMA EscrowBlocked ==
    ASSUME Base, NEW d \in Kids, NEW answer, BlockedTurn(d, answer),
           NEW c \in Kids, ChildInv(c)
    PROVE  ChildInv(c)'
<1>1. TypesInv
  BY DEF Base
<1>2. /\ engine[d] = "turn" /\ rec[d].status \in Rule!ActiveStates
      /\ Rollback({}) /\ UNCHANGED <<act, deployed>>
      /\ \E place \in {"breach", "turn"} : engine' = [engine EXCEPT ![d] = place]
      /\ rec' = rec \/ rec' = [rec EXCEPT ![d] = Rule!Ended(@, "POLICY_BREACH")]
  BY DEF BlockedTurn, AtTurn
<1>3. ChainInv(c)' /\ (c \notin lost' => c \notin lost /\ work'[c] = work[c])
  BY <1>1, <1>2, RolledBack
<1>4. ASSUME c \notin lost'
      PROVE  DealInv(c)'
  <2>1. /\ c \notin lost /\ work'[c] = work[c] /\ deployed'[c] = deployed[c] /\ act'[c] = act[c]
    BY <1>2, <1>3, <1>4
  <2>2. CASE c = d
    <3>1. ~Deal(work[c])
      BY <1>2, <2>1, <2>2 DEF ChildInv, DealInv
    <3>2. engine'[c] \notin InTurn
      BY <1>1, <1>2, <2>2 DEF TypesInv, InTurn
    <3> QED
      BY <2>1, <3>1, <3>2 DEF ChildInv, DealInv
  <2>3. CASE c # d
    <3>1. engine'[c] = engine[c] /\ rec'[c] = rec[c]
      BY <1>1, <1>2, <2>3 DEF TypesInv
    <3> QED
      BY <2>1, <3>1 DEF ChildInv, DealInv
  <2> QED
    BY <2>2, <2>3
<1>5. DealInv(c)'
  BY <1>4 DEF DealInv
<1> QED
  BY <1>3, <1>5 DEF ChildInv

(* A turn begins without an application of the child, unless one was lost.  *)
LEMMA EscrowTaken ==
    ASSUME Base, NEW d \in Kids, NEW answer \in Modifiers \cup {None}, TakeTurn(d, answer),
           NEW c \in Kids, ChildInv(c)
    PROVE  ChildInv(c)'
<1> DEFINE a == Envelope(d, answer)
           deal == a.kind = "accept"
<1>1. TypesInv /\ TalkInv
  BY DEF Base
<1>2. /\ engine[d] = "turn" /\ rec[d].status \in Rule!ActiveStates
      /\ act' = [act EXCEPT ![d] = a]
      /\ engine' = [engine EXCEPT ![d] = IF deal THEN "escrow" ELSE "write"]
      /\ UNCHANGED <<rec, row, deployed, lost, strays>>
  BY DEF TakeTurn, AtTurn
<1>3. /\ \A e \in Kids \ {d} : work'[e] = work[e]
      /\ work'[d].status = IF deal THEN "AGREED" ELSE work[d].status
      /\ deal => work'[d].price \in Nat
      /\ ~deal => work'[d].price = work[d].price
      /\ work'[d].escrow = work[d].escrow /\ work'[d].outcome = work[d].outcome
  BY <1>1, TakenIs
<1> HIDE DEF a
<1>4. CASE c # d
  <2>1. engine'[c] = engine[c] /\ act'[c] = act[c] /\ work'[c] = work[c]
    BY <1>1, <1>2, <1>3, <1>4 DEF TypesInv
  <2> QED
    BY <1>2, <2>1, Untouched
<1>5. CASE c = d
  <2>1. act'[c] = a /\ engine'[c] \in InTurn
    BY <1>1, <1>2, <1>5 DEF TypesInv, InTurn
  <2>2. ChainInv(c)'
    BY <1>2, <1>3, <1>5 DEF ChildInv, ChainInv
  <2>3. ASSUME c \notin lost
        PROVE  DealInv(c)'
    <3>1. ~Deal(work[c]) /\ deployed[c] <= 0
      <4>1. ~Deal(work[c]) /\ ~(deployed[c] > 0)
        BY <1>2, <1>5, <2>3 DEF ChildInv, DealInv
      <4> QED
        BY <1>1, <4>1 DEF TypesInv
    <3>2. Deal(work'[c]) <=> act'[c].kind = "accept"
      BY <1>3, <1>5, <2>1, <3>1 DEF Deal
    <3>3. Deal(work'[c]) => work'[c].price # None
      BY <1>3, <1>5, <3>1, MultiAssumption DEF Deal
    <3>4. ~(deployed'[c] > 0)
      BY <1>1, <1>2, <3>1 DEF TypesInv
    <3>5. engine'[c] \notin {"turn", "commit"}
      BY <2>1 DEF InTurn
    <3> QED
      BY <3>2, <3>3, <3>4, <3>5 DEF DealInv
  <2> QED
    BY <1>2, <2>2, <2>3 DEF ChildInv, DealInv
<1> QED
  BY <1>4, <1>5

(* The application of a deal that has none.                                 *)
LEMMA EscrowDeployed ==
    ASSUME TypesInv, NEW c \in Kids, ChildInv(c), NEW ok \in BOOLEAN, Triggered(c, ok),
           UNCHANGED <<row, lost, strays, rec, act>>,
           engine'[c] \notin {"turn", "commit"}, engine'[c] \in InTurn => engine[c] \in InTurn
    PROVE  ChildInv(c)'
<1>1. /\ work'[c].status = work[c].status /\ work'[c].price = work[c].price
      /\ work'[c].outcome = work[c].outcome
      /\ \/ /\ Deploys(c)
            /\ work'[c].escrow = TRUE /\ deployed'[c] = deployed[c] + 1
         \/ work'[c].escrow = work[c].escrow /\ deployed'[c] = deployed[c]
  BY TriggeredIs
<1>2. Deal(work'[c]) <=> Deal(work[c])
  BY <1>1 DEF Deal
<1>3. deployed[c] \in Nat /\ strays[c] \in Nat
  BY DEF TypesInv
<1>4. CASE Deploys(c) /\ work'[c].escrow = TRUE /\ deployed'[c] = deployed[c] + 1
  <2>1. Deal(work[c]) /\ ~work[c].escrow
    BY <1>4 DEF Deploys, Deal
  <2>2. ChainInv(c)'
    BY <1>1, <1>3, <1>4, <2>1 DEF ChildInv, ChainInv
  <2>3. DealInv(c)'
    BY <1>1, <1>2, <2>1 DEF ChildInv, DealInv
  <2> QED
    BY <2>2, <2>3 DEF ChildInv
<1>5. CASE work'[c].escrow = work[c].escrow /\ deployed'[c] = deployed[c]
  <2>1. ChainInv(c)'
    BY <1>1, <1>5 DEF ChildInv, ChainInv
  <2>2. DealInv(c)'
    BY <1>1, <1>2, <1>5 DEF ChildInv, DealInv
  <2> QED
    BY <2>1, <2>2 DEF ChildInv
<1> QED
  BY <1>1, <1>4, <1>5

(* The trigger of process_action.                                           *)
LEMMA EscrowTriggered ==
    ASSUME Base, NEW d \in Kids, NEW ok \in BOOLEAN, TriggerEscrow(d, ok),
           NEW c \in Kids, ChildInv(c)
    PROVE  ChildInv(c)'
<1>1. TypesInv
  BY DEF Base
<1>2. /\ engine[d] = "escrow" /\ engine' = [engine EXCEPT ![d] = "write"] /\ Triggered(d, ok)
      /\ UNCHANGED <<row, lost, strays, rec, act>>
  BY DEF TriggerEscrow
<1>3. CASE c # d
  <2>1. engine'[c] = engine[c]
    BY <1>1, <1>2, <1>3 DEF TypesInv
  <2>2. work'[c] = work[c] /\ deployed'[c] = deployed[c]
    BY <1>1, <1>2, <1>3, TriggeredIs
  <2> QED
    BY <1>2, <2>1, <2>2, Untouched
<1>4. CASE c = d
  <2>1. engine'[c] = "write" /\ engine[c] \in InTurn
    BY <1>1, <1>2, <1>4 DEF TypesInv, InTurn
  <2> QED
    BY <1>1, <1>2, <1>4, <2>1, EscrowDeployed
<1> QED
  BY <1>3, <1>4

(* An engine's end deploys for a deal without an escrow.                    *)
LEMMA EscrowSettled ==
    ASSUME Base, NEW d \in Kids, NEW ok \in BOOLEAN, Settle(d, ok),
           NEW c \in Kids, ChildInv(c)
    PROVE  ChildInv(c)'
<1>1. TypesInv
  BY DEF Base
<1>2. /\ engine' = [engine EXCEPT ![d] = "close"]
      /\ Triggered(d, ok) \/ UNCHANGED <<work, deployed>>
      /\ UNCHANGED <<row, lost, strays, rec, act>>
  BY DEF Settle
<1>3. CASE c # d
  <2>1. engine'[c] = engine[c]
    BY <1>1, <1>2, <1>3 DEF TypesInv
  <2>2. work'[c] = work[c] /\ deployed'[c] = deployed[c]
    BY <1>1, <1>2, <1>3, TriggeredIs
  <2> QED
    BY <1>2, <2>1, <2>2, Untouched
<1>4. CASE c = d
  <2>1. engine'[c] = "close"
    BY <1>1, <1>2, <1>4 DEF TypesInv
  <2>2. engine'[c] \notin InTurn
    BY <2>1 DEF InTurn
  <2>3. CASE Triggered(d, ok)
    BY <1>1, <1>2, <1>4, <2>1, <2>2, <2>3, EscrowDeployed
  <2>4. CASE UNCHANGED <<work, deployed>>
    <3>1. ChainInv(c)'
      BY <1>2, <2>4 DEF ChildInv, ChainInv
    <3>2. DealInv(c)'
      BY <1>2, <2>1, <2>2, <2>4 DEF ChildInv, DealInv
    <3> QED
      BY <3>1, <3>2 DEF ChildInv
  <2> QED
    BY <1>2, <2>3, <2>4
<1> QED
  BY <1>3, <1>4

(* STEP 12's row is agreed exactly for an accept.                           *)
LEMMA EscrowWritten ==
    ASSUME Base, NEW d \in Kids, WriteRow(d), NEW c \in Kids, ChildInv(c)
    PROVE  ChildInv(c)'
<1>1. TypesInv
  BY DEF Base
<1>2. /\ engine[d] = "write" /\ engine' = [engine EXCEPT ![d] = "publish"]
      /\ UNCHANGED <<rec, row, act, deployed, lost, strays>>
  BY DEF WriteRow
<1>3. /\ \A e \in Kids \ {d} : work'[e] = work[e]
      /\ work'[d].price = work[d].price /\ work'[d].escrow = work[d].escrow
      /\ work'[d].outcome = work[d].outcome
      /\ work'[d].status = "AGREED" <=> act[d].kind = "accept"
  BY BaseWritten
<1>4. CASE c # d
  <2>1. engine'[c] = engine[c] /\ work'[c] = work[c]
    BY <1>1, <1>2, <1>3, <1>4 DEF TypesInv
  <2> QED
    BY <1>2, <2>1, Untouched
<1>5. CASE c = d
  <2>1. engine'[c] = "publish" /\ engine[c] \in InTurn
    BY <1>1, <1>2, <1>5 DEF TypesInv, InTurn
  <2>2. ChainInv(c)'
    BY <1>2, <1>3, <1>5 DEF ChildInv, ChainInv
  <2>3. ASSUME c \notin lost
        PROVE  DealInv(c)'
    <3>1. Deal(work[c]) <=> act[c].kind = "accept"
      BY <2>1, <2>3 DEF ChildInv, DealInv
    <3>2. Deal(work'[c]) <=> act[c].kind = "accept"
      BY <1>3, <1>5 DEF Deal
    <3>3. (Deal(work[c]) => work[c].price # None) /\ (deployed[c] > 0 => Deal(work[c]))
      BY <2>3 DEF ChildInv, DealInv
    <3> QED
      BY <1>2, <1>3, <1>5, <2>1, <3>1, <3>2, <3>3 DEF DealInv
  <2> QED
    BY <1>2, <2>2, <2>3 DEF ChildInv, DealInv
<1> QED
  BY <1>4, <1>5

(* The record of a deal is ended where it is published.                     *)
LEMMA EscrowPublished ==
    ASSUME Base, NEW d \in Kids, Publish(d), NEW c \in Kids, ChildInv(c)
    PROVE  ChildInv(c)'
<1>1. TypesInv
  BY DEF Base
<1>2. /\ engine[d] = "publish" /\ engine' = [engine EXCEPT ![d] = "commit"]
      /\ act' = [act EXCEPT ![d] = None]
      /\ UNCHANGED <<row, work, deployed, lost, strays>>
  BY DEF Publish
<1>3. /\ \A e \in Kids \ {d} : rec'[e] = rec[e]
      /\ act[d].kind = "accept" => rec'[d].status = "AGREED"
  BY BasePublished
<1>4. CASE c # d
  <2>1. engine'[c] = engine[c] /\ act'[c] = act[c] /\ rec'[c] = rec[c]
    BY <1>1, <1>2, <1>3, <1>4 DEF TypesInv
  <2> QED
    BY <1>2, <2>1, Untouched
<1>5. CASE c = d
  <2>1. engine'[c] = "commit" /\ engine[c] \in InTurn /\ engine'[c] \notin InTurn
    BY <1>1, <1>2, <1>5 DEF TypesInv, InTurn
  <2>2. ChainInv(c)'
    BY <1>2 DEF ChildInv, ChainInv
  <2>3. ASSUME c \notin lost
        PROVE  DealInv(c)'
    <3>1. /\ Deal(work[c]) <=> act[c].kind = "accept"
          /\ Deal(work[c]) => work[c].price # None
          /\ deployed[c] > 0 => Deal(work[c])
      BY <2>1, <2>3 DEF ChildInv, DealInv
    <3>2. Deal(work[c]) => rec'[c].status \notin Rule!ActiveStates
      BY <1>3, <1>5, <3>1 DEF Rule!ActiveStates
    <3> QED
      BY <1>2, <2>1, <3>1, <3>2 DEF DealInv
  <2> QED
    BY <1>2, <2>2, <2>3 DEF ChildInv, DealInv
<1> QED
  BY <1>4, <1>5

(* An engine that ends a row does so while it is no deal.                   *)
LEMMA EscrowEnded ==
    ASSUME Base, NEW d \in Kids, Breach(d, TRUE) \/ Breach(d, FALSE) \/ NoConfig(d),
           NEW c \in Kids, ChildInv(c)
    PROVE  ChildInv(c)'
<1>1. TypesInv
  BY DEF Base
<1>2. /\ \E place \in {"settle", "done"} : engine' = [engine EXCEPT ![d] = place]
      /\ UNCHANGED <<rec, act, deployed, lost, strays>>
  BY DEF Breach, NoConfig
<1>3. /\ \A e \in Kids \ {d} : work'[e] = work[e]
      /\ work'[d].escrow = work[d].escrow /\ work'[d].outcome = work[d].outcome
      /\ work'[d].price = work[d].price
      /\ \/ work'[d] = work[d]
         \/ /\ work[d].status \in Rule!ActiveStates
            /\ work'[d].status \in {"POLICY_BREACH", "WALKAWAY"}
      /\ row' = row \/ row' = work'
  BY <1>1, EndedRows
<1>4. CASE c # d
  <2>1. engine'[c] = engine[c] /\ work'[c] = work[c]
    BY <1>1, <1>2, <1>3, <1>4 DEF TypesInv
  <2>2. row'[c] = row[c] \/ row'[c] = work[c]
    BY <1>3, <2>1
  <2> QED
    BY <1>2, <2>1, <2>2, Untouched
<1>5. CASE c = d
  <2>1. engine'[c] \notin InTurn /\ engine'[c] \notin {"turn", "commit"}
    BY <1>1, <1>2, <1>5 DEF TypesInv, InTurn
  <2>2. ChainInv(c)'
    BY <1>2, <1>3, <1>5 DEF ChildInv, ChainInv
  <2>3. Deal(work'[c]) <=> Deal(work[c])
    BY <1>3, <1>5 DEF Deal, Rule!ActiveStates
  <2>4. DealInv(c)'
    BY <1>2, <1>3, <1>5, <2>1, <2>3 DEF ChildInv, DealInv
  <2> QED
    BY <2>2, <2>4 DEF ChildInv
<1> QED
  BY <1>4, <1>5

(* A commit stores what the database session sees.                          *)
LEMMA EscrowCommitted ==
    ASSUME Base, NEW d \in Kids, Commit(d), NEW c \in Kids, ChildInv(c)
    PROVE  ChildInv(c)'
<1>1. TypesInv
  BY DEF Base
<1>2. /\ row' = work /\ UNCHANGED <<rec, work, act, deployed, lost, strays>>
      /\ engine' = [engine EXCEPT ![d] = IF @ = "commit" THEN "turn" ELSE "done"]
  BY DEF Commit
<1>3. CASE c # d
  <2>1. engine'[c] = engine[c]
    BY <1>1, <1>2, <1>3 DEF TypesInv
  <2> QED
    BY <1>2, <2>1, Untouched
<1>4. CASE c = d
  <2>1. /\ engine'[c] \notin InTurn
        /\ engine'[c] \in {"turn", "commit"} => engine[c] = "commit"
    BY <1>1, <1>2, <1>4 DEF TypesInv, InTurn
  <2>2. ChainInv(c)'
    BY <1>2 DEF ChildInv, ChainInv
  <2>3. DealInv(c)'
    BY <1>2, <2>1 DEF ChildInv, DealInv
  <2> QED
    BY <2>2, <2>3 DEF ChildInv
<1> QED
  BY <1>3, <1>4

(* A turn that raises, or the rollback after it.                            *)
LEMMA EscrowClashed ==
    ASSUME Base, NEW d \in Kids, Clash(d) \/ Die(d), NEW c \in Kids, ChildInv(c)
    PROVE  ChildInv(c)'
<1>1. TypesInv
  BY DEF Base
<1>2. UNCHANGED <<rec, deployed>> /\ act' = [act EXCEPT ![d] = None]
  BY DEF Clash, Die
<1>3. CASE Clash(d)
  <2> DEFINE stopped == IF engine[d] \in InTurn THEN {d} ELSE {}
  <2>1. /\ engine[d] \in InTurn \cup {"turn", "commit"} /\ Rollback(stopped)
        /\ engine' = [engine EXCEPT ![d] = "turn"]
    BY <1>3 DEF Clash
  <2> HIDE DEF stopped
  <2>2. /\ ChainInv(c)'
        /\ c \notin lost' => c \notin lost /\ c \notin stopped /\ work'[c] = work[c]
    BY <1>1, <1>2, <2>1, RolledBack
  <2>3. ASSUME c \notin lost'
        PROVE  DealInv(c)'
    <3>1. c \notin lost /\ c \notin stopped /\ work'[c] = work[c]
      BY <2>2, <2>3
    <3>2. CASE c = d
      <4>1. engine[c] \in {"turn", "commit"} /\ engine'[c] = "turn" /\ engine'[c] \notin InTurn
        BY <1>1, <2>1, <3>1, <3>2 DEF stopped, TypesInv, InTurn
      <4> QED
        BY <1>2, <3>1, <4>1 DEF ChildInv, DealInv
    <3>3. CASE c # d
      <4>1. engine'[c] = engine[c] /\ act'[c] = act[c]
        BY <1>1, <1>2, <2>1, <3>3 DEF TypesInv
      <4> QED
        BY <1>2, <3>1, <4>1 DEF ChildInv, DealInv
    <3> QED
      BY <3>2, <3>3
  <2>4. DealInv(c)'
    BY <2>3 DEF DealInv
  <2> QED
    BY <2>2, <2>4 DEF ChildInv
<1>4. CASE Die(d)
  <2>1. engine' = [engine EXCEPT ![d] = "done"] /\ UNCHANGED <<row, work, lost, strays>>
    BY <1>4 DEF Die
  <2>2. CASE c # d
    <3>1. engine'[c] = engine[c] /\ act'[c] = act[c]
      BY <1>1, <1>2, <2>1, <2>2 DEF TypesInv
    <3> QED
      BY <1>2, <2>1, <3>1, Untouched
  <2>3. CASE c = d
    <3>1. engine'[c] \notin InTurn /\ engine'[c] \notin {"turn", "commit"}
      BY <1>1, <2>1, <2>3 DEF TypesInv, InTurn
    <3>2. ChainInv(c)'
      BY <1>2, <2>1 DEF ChildInv, ChainInv
    <3>3. DealInv(c)'
      BY <1>2, <2>1, <3>1 DEF ChildInv, DealInv
    <3> QED
      BY <3>2, <3>3 DEF ChildInv
  <2> QED
    BY <2>2, <2>3
<1> QED
  BY <1>3, <1>4

(* The end of run_multi_session: a deal whose price no rollback took is one *)
(* that is compared.                                                        *)
LEMMA DealsAre ==
    ASSUME TypesInv, NEW j \in DOMAIN Children, Deal(work[Children[j]]),
           work[Children[j]].price # None
    PROVE  j \in Deals /\ work[Children[j]].price \in Nat
<1>1. Children[j] \in Kids
  BY ChildFacts
<1>2. work[Children[j]].price \in Nat \ {0}
  BY <1>1 DEF TypesInv, Rows
<1>3. Agreed(Children[j])
  BY <1>2 DEF Agreed, Deal
<1> QED
  BY <1>2, <1>3 DEF Deals

(* What Conclude makes of the chain and the rows.                           *)
LEMMA ConcludedIs ==
    ASSUME TypesInv, \A c \in Kids : ChildInv(c), Conclude
    PROVE  /\ AllDone' /\ parent'.over /\ UNCHANGED <<lost, strays>>
           /\ Best = None => parent'.status = "EXPIRED" /\ row' = work /\ work' = work
           /\ Best # None => /\ parent'.status = "CONCLUDED" /\ parent'.best = Best
                             /\ row' = Losers(Escrowed, Best) /\ work' = row'
           /\ deployed' = IF Best # None /\ Deploys(Best) THEN [deployed EXCEPT ![Best] = @ + 1]
                                                          ELSE deployed
<1>1. AllDone' /\ UNCHANGED <<lost, strays>>
  BY DEF Conclude, AllDone
<1>2. deployed' = IF Best # None /\ Deploys(Best) THEN [deployed EXCEPT ![Best] = @ + 1]
                                                  ELSE deployed
  BY DEF Conclude
<1>3. ASSUME Best = None
      PROVE  parent'.over /\ parent'.status = "EXPIRED" /\ row' = work /\ work' = work
  BY <1>3 DEF Conclude
<1>4. ASSUME Best # None
      PROVE  /\ parent'.over /\ parent'.status = "CONCLUDED" /\ parent'.best = Best
             /\ row' = Losers(Escrowed, Best) /\ work' = row'
  <2>1. parent' = [status |-> "CONCLUDED", best |-> Best, over |-> TRUE]
    BY <1>4 DEF Conclude
  <2>2. row' = Losers(Escrowed, Best) /\ work' = row'
    BY <1>4 DEF Conclude, Escrowed
  <2> QED
    BY <2>1, <2>2
<1> QED
  BY <1>1, <1>2, <1>3, <1>4

(* No deal, no application but the strays.                                  *)
LEMMA ConcludedWithout ==
    ASSUME TypesInv, \A c \in Kids : ChildInv(c), Conclude, Best = None
    PROVE  EscrowInv'
<1>1. /\ AllDone' /\ parent'.over /\ UNCHANGED <<lost, strays, work, deployed>> /\ row' = work
      /\ parent'.status = "EXPIRED"
  BY ConcludedIs
<1>2. ASSUME NEW c \in Kids, c \notin lost, deployed[c] > 0
      PROVE  FALSE
  <2>1. Deal(work[c]) /\ work[c].price # None
    BY <1>2 DEF ChildInv, DealInv
  <2>2. PICK j \in DOMAIN Children : Children[j] = c
    BY ChildFacts
  <2>3. j \in Deals
    BY <2>1, <2>2, DealsAre
  <2> QED
    BY <2>3, BestIs
<1>3. \A c \in Kids : deployed[c] = strays[c] + (IF work[c].escrow THEN 1 ELSE 0)
  BY DEF ChildInv, ChainInv
<1>4. EscrowsExplained'
  BY <1>1, <1>2, <1>3 DEF EscrowsExplained
<1>5. WinnerIsBest'
  BY <1>1 DEF WinnerIsBest
<1> QED
  BY <1>1, <1>4, <1>5 DEF EscrowInv

(* The choice of the winner among the rows as they are.                     *)
LEMMA ConcludedWith ==
    ASSUME TypesInv, \A c \in Kids : ChildInv(c), Conclude, Best # None
    PROVE  EscrowInv'
<1> DEFINE deploys == Deploys(Best)
<1>1. /\ AllDone' /\ parent'.over /\ UNCHANGED <<lost, strays>>
      /\ parent'.status = "CONCLUDED" /\ parent'.best = Best
      /\ row' = Losers(Escrowed, Best) /\ work' = row'
      /\ deployed' = IF deploys THEN [deployed EXCEPT ![Best] = @ + 1] ELSE deployed
  BY ConcludedIs
<1>2. PICK i \in Deals : /\ Best = Children[i] /\ Best \in Kids /\ Agreed(Best)
                         /\ \A j \in Deals : Cheaper(i, j)
  BY BestIs
<1>3. Deal(work[Best])
  BY <1>2 DEF Agreed, Deal
<1>4. deploys <=> ~work[Best].escrow
  BY <1>3 DEF Deploys, Deal
<1>5. PICK best : best = Best
  OBVIOUS
<1> HIDE DEF deploys
<1>6. ASSUME NEW c \in Kids
      PROVE  /\ row'[c].price = work[c].price
             /\ row'[c].status = IF c # best /\ Deal(work[c]) THEN "WALKAWAY" ELSE work[c].status
             /\ row'[c].outcome = IF c # best /\ Deal(work[c]) THEN "MULTI_PARTY_LOSER" ELSE None
             /\ c # best => row'[c].escrow = work[c].escrow
             /\ c = best => row'[c].escrow = TRUE
  <2>1. PICK rows : rows = Escrowed
    OBVIOUS
  <2>2. /\ rows \in [Kids -> Rows] /\ rows[c].status = work[c].status
        /\ rows[c].price = work[c].price /\ rows[c].outcome = None
    BY <2>1, EscrowedTyped DEF ChildInv, ChainInv
  <2>3. LET lost2 == c # best /\ rows[c].status = "AGREED"
            n == Losers(rows, best)[c]
        IN  /\ n.price = rows[c].price /\ n.escrow = rows[c].escrow
            /\ n.status = IF lost2 THEN "WALKAWAY" ELSE rows[c].status
            /\ n.outcome = IF lost2 THEN "MULTI_PARTY_LOSER" ELSE rows[c].outcome
    BY <2>2, LosersTyped
  <2>4. row'[c] = Losers(rows, best)[c]
    BY <1>1, <1>5, <2>1
  <2>5. /\ c # best => rows[c].escrow = work[c].escrow
        /\ c = best => rows[c].escrow = TRUE
    <3>1. PICK n : n = [work[Best] EXCEPT !.escrow = TRUE]
      OBVIOUS
    <3>2. rows = IF deploys THEN [work EXCEPT ![Best] = n] ELSE work
      BY <2>1, <3>1 DEF Escrowed, deploys
    <3>3. work[Best] \in Rows /\ work \in [Kids -> Rows]
      BY <1>2 DEF TypesInv
    <3>4. n.escrow = TRUE
      BY <3>1, <3>3, RowEscrowed
    <3>5. CASE deploys
      BY <1>2, <1>5, <3>2, <3>3, <3>4, <3>5
    <3>6. CASE ~deploys
      <4>1. work[Best].escrow \in BOOLEAN /\ work[Best].escrow
        BY <1>4, <3>3, <3>6 DEF Rows
      <4>2. work[Best].escrow = TRUE
        BY <4>1, Zenon
      <4> QED
        BY <1>5, <3>2, <3>6, <4>2
    <3> QED
      BY <3>5, <3>6
  <2> QED
    BY <2>2, <2>3, <2>4, <2>5 DEF Deal
<1>7. ASSUME NEW c \in Kids
      PROVE  /\ deployed'[c] = strays'[c] + (IF work'[c].escrow THEN 1 ELSE 0)
             /\ c \notin lost' /\ parent'.over /\ deployed'[c] > 0 =>
                   c = parent'.best \/ row'[c].outcome = "MULTI_PARTY_LOSER"
  <2>1. /\ deployed[c] = strays[c] + (IF work[c].escrow THEN 1 ELSE 0)
        /\ deployed[c] \in Nat /\ strays[c] \in Nat /\ deployed \in [Kids -> Nat]
    BY DEF ChildInv, ChainInv, TypesInv
  <2>2. CASE c = Best
    <3>1. deployed'[c] = IF deploys THEN deployed[c] + 1 ELSE deployed[c]
      BY <1>1, <1>2, <2>1, <2>2
    <3>2. work'[c].escrow = TRUE
      BY <1>1, <1>5, <1>6, <2>2
    <3>3. deployed'[c] = strays[c] + 1
      BY <1>4, <2>1, <2>2, <3>1
    <3> QED
      BY <1>1, <2>2, <3>2, <3>3
  <2>3. CASE c # Best
    <3>1. deployed'[c] = deployed[c] /\ work'[c].escrow = work[c].escrow
      BY <1>1, <1>5, <1>6, <2>1, <2>3
    <3>2. c \notin lost /\ deployed[c] > 0 => Deal(work[c])
      BY DEF ChildInv, DealInv
    <3>3. Deal(work[c]) => row'[c].outcome = "MULTI_PARTY_LOSER"
      BY <1>5, <1>6, <2>3
    <3> QED
      BY <1>1, <2>1, <3>1, <3>2, <3>3
  <2> QED
    BY <2>2, <2>3
<1>8. EscrowsExplained'
  BY <1>7 DEF EscrowsExplained
<1>9. i \in DOMAIN Children /\ i \in Nat
  BY <1>2, ChildFacts DEF Deals
<1>10. {c \in Kids : row'[c].status = "AGREED"} = {best}
  BY <1>2, <1>3, <1>5, <1>6 DEF Deal
<1>11. ASSUME NEW j \in DOMAIN Children \ {i}
       PROVE  /\ Listed(i, j)'
              /\ row'[Children[j]].outcome = "MULTI_PARTY_LOSER" =>
                    \/ row'[Children[j]].price = None /\ Children[j] \in lost'
                    \/ row'[Children[j]].price > row'[best].price
                    \/ row'[Children[j]].price = row'[best].price /\ i < j
  <2>1. Children[j] \in Kids /\ Children[j] # best /\ j \in Nat
    BY <1>2, <1>5, <1>9, ChildFacts
  <2>2. row'[Children[i]].status = "AGREED" /\ row'[Children[i]].price \notin {None, 0}
    BY <1>2, <1>3, <1>5, <1>6 DEF Agreed, Deal
  <2>3. row'[Children[j]].status # "AGREED"
    BY <1>10, <2>1
  <2>4. Listed(i, j)'
    BY <2>2, <2>3 DEF Listed
  <2>5. ASSUME row'[Children[j]].outcome = "MULTI_PARTY_LOSER"
        PROVE  \/ row'[Children[j]].price = None /\ Children[j] \in lost'
               \/ row'[Children[j]].price > row'[best].price
               \/ row'[Children[j]].price = row'[best].price /\ i < j
    <3>1. Deal(work[Children[j]])
      <4>1. None # "MULTI_PARTY_LOSER"
        BY MultiAssumption
      <4> QED
        BY <1>6, <2>1, <2>5, <4>1
    <3>2. row'[Children[j]].price = work[Children[j]].price /\ row'[best].price = work[best].price
      BY <1>2, <1>5, <1>6, <2>1
    <3>3. CASE work[Children[j]].price = None
      <4>1. Children[j] \in lost
        BY <2>1, <3>1, <3>3 DEF ChildInv, DealInv
      <4> QED
        BY <1>1, <3>2, <3>3, <4>1
    <3>4. CASE work[Children[j]].price # None
      <4>1. j \in Deals /\ work[Children[j]].price \in Nat
        BY <3>1, <3>4, DealsAre
      <4>2. work[best].price # None
        BY <1>2, <1>5 DEF Agreed
      <4>3. work[best].price \in Nat
        BY <1>2, <1>3, <1>5, <1>9, <4>2, DealsAre
      <4>4. LET price(k) == work[Children[k]].price
            IN  price(i) < price(j) \/ (price(i) = price(j) /\ i <= j)
        BY <1>2, <4>1 DEF Cheaper
      <4> QED
        BY <1>2, <1>5, <1>9, <2>1, <3>2, <4>1, <4>3, <4>4
    <3> QED
      BY <3>3, <3>4
  <2> QED
    BY <2>4, <2>5
<1>12. WinnerIsBest'
  BY <1>1, <1>2, <1>5, <1>9, <1>10, <1>11 DEF WinnerIsBest
<1> QED
  BY <1>1, <1>8, <1>12 DEF EscrowInv

(* A choice whose commit is lost: the winner's application is a stray too.  *)
LEMMA ConcludedLost ==
    ASSUME TypesInv, parent.status = "ACTIVE", \A c \in Kids : ChildInv(c), ConcludeLost
    PROVE  EscrowInv'
<1> DEFINE deploys == Best # None /\ Deploys(Best)
<1>1. /\ AllDone' /\ parent'.over /\ parent'.status = "ACTIVE" /\ lost' = Kids /\ work' = row
      /\ deployed' = IF deploys THEN [deployed EXCEPT ![Best] = @ + 1] ELSE deployed
      /\ \A c \in Kids : strays'[c] = IF (work[c].escrow \/ (deploys /\ c = Best)) /\ ~row[c].escrow
                                      THEN strays[c] + 1 ELSE strays[c]
  <2>1. AllDone' <=> AllDone
    BY DEF ConcludeLost, AllDone
  <2>2. parent' = [parent EXCEPT !.over = TRUE]
    BY DEF ConcludeLost
  <2>3. parent'.over = TRUE /\ parent'.status = parent.status
    BY <2>2 DEF TypesInv
  <2> QED
    BY <2>1, <2>3 DEF ConcludeLost
<1>2. deploys => Best \in Kids /\ ~work[Best].escrow
  BY BestIs DEF Deploys
<1> HIDE DEF deploys
<1>3. ASSUME NEW c \in Kids
      PROVE  deployed'[c] = strays'[c] + (IF work'[c].escrow THEN 1 ELSE 0)
  <2>1. /\ deployed[c] = strays[c] + (IF work[c].escrow THEN 1 ELSE 0)
        /\ row[c].escrow => work[c].escrow
        /\ deployed[c] \in Nat /\ strays[c] \in Nat /\ deployed \in [Kids -> Nat]
    BY DEF ChildInv, ChainInv, TypesInv
  <2>2. strays'[c] = IF (work[c].escrow \/ (deploys /\ c = Best)) /\ ~row[c].escrow
                     THEN strays[c] + 1 ELSE strays[c]
    BY <1>1
  <2>3. CASE deploys /\ c = Best
    <3>1. deployed'[c] = deployed[c] + 1 /\ ~work[c].escrow
      BY <1>1, <1>2, <2>1, <2>3
    <3> QED
      BY <1>1, <2>1, <2>2, <2>3, <3>1
  <2>4. CASE ~(deploys /\ c = Best)
    <3>1. deployed'[c] = deployed[c]
      BY <1>1, <1>2, <2>1, <2>4
    <3>2. CASE work[c].escrow /\ ~row[c].escrow
      BY <1>1, <2>1, <2>2, <3>1, <3>2
    <3>3. CASE ~(work[c].escrow /\ ~row[c].escrow)
      <4>1. strays'[c] = strays[c] /\ (work[c].escrow <=> row[c].escrow)
        BY <2>1, <2>2, <2>4, <3>3
      <4> QED
        BY <1>1, <2>1, <3>1, <4>1
    <3> QED
      BY <3>2, <3>3
  <2> QED
    BY <2>3, <2>4
<1>4. EscrowsExplained'
  BY <1>1, <1>3 DEF EscrowsExplained
<1>5. WinnerIsBest'
  BY <1>1 DEF WinnerIsBest
<1> QED
  BY <1>1, <1>4, <1>5 DEF EscrowInv

(* A child's step keeps the relation of chain, records and rows.            *)
LEMMA ChildStep ==
    ASSUME Base, NEW d \in Kids, NEW c \in Kids, ChildInv(c),
           \/ \E answer \in Modifiers \cup {None} : BlockedTurn(d, answer) \/ TakeTurn(d, answer)
           \/ \E ok \in BOOLEAN : Breach(d, ok) \/ TriggerEscrow(d, ok) \/ Settle(d, ok)
           \/ WriteRow(d) \/ Publish(d) \/ Commit(d) \/ NoConfig(d) \/ Clash(d) \/ Die(d)
    PROVE  ChildInv(c)' /\ parent' = parent
<1>1. ASSUME NEW answer \in Modifiers \cup {None}, BlockedTurn(d, answer) \/ TakeTurn(d, answer)
      PROVE  ChildInv(c)' /\ parent' = parent
  <2>1. parent' = parent
    BY <1>1 DEF BlockedTurn, TakeTurn
  <2> QED
    BY <1>1, <2>1, EscrowBlocked, EscrowTaken
<1>2. ASSUME NEW ok \in BOOLEAN, Breach(d, ok)
      PROVE  ChildInv(c)' /\ parent' = parent
  <2>1. Breach(d, TRUE) \/ Breach(d, FALSE)
    <3>1. CASE ok
      BY <1>2, <3>1 DEF Breach
    <3>2. CASE ~ok
      BY <1>2, <3>2 DEF Breach
    <3> QED
      BY <3>1, <3>2
  <2> QED
    BY <1>2, <2>1, EscrowEnded DEF Breach
<1>3. ASSUME NEW ok \in BOOLEAN, TriggerEscrow(d, ok) \/ Settle(d, ok)
      PROVE  ChildInv(c)' /\ parent' = parent
  <2>1. parent' = parent
    BY <1>3 DEF TriggerEscrow, Settle
  <2> QED
    BY <1>3, <2>1, EscrowTriggered, EscrowSettled
<1>4. ASSUME WriteRow(d) \/ Publish(d) \/ Commit(d) \/ NoConfig(d) \/ Clash(d) \/ Die(d)
      PROVE  ChildInv(c)' /\ parent' = parent
  <2>1. parent' = parent
    BY <1>4 DEF WriteRow, Publish, Commit, NoConfig, Clash, Die
  <2> QED
    BY <1>4, <2>1, EscrowWritten, EscrowPublished, EscrowCommitted, EscrowEnded, EscrowClashed
<1> QED
  BY <1>1, <1>2, <1>3, <1>4

(* Every step keeps it, and the end establishes what it promises.           *)
LEMMA EscrowStep == Base /\ EscrowInv /\ [Next]_vars => EscrowInv'
<1> SUFFICES ASSUME Base, EscrowInv, [Next]_vars PROVE EscrowInv'
  OBVIOUS
<1>1. TypesInv
  BY DEF Base
<1> DEFINE Moves(d) ==
      \/ \E answer \in Modifiers \cup {None} : BlockedTurn(d, answer) \/ TakeTurn(d, answer)
      \/ \E ok \in BOOLEAN : Breach(d, ok) \/ TriggerEscrow(d, ok) \/ Settle(d, ok)
      \/ WriteRow(d) \/ Publish(d) \/ Commit(d) \/ NoConfig(d) \/ Clash(d) \/ Die(d)
<1>2. (\E d \in Kids : Moves(d)) \/ Conclude \/ ConcludeLost \/ UNCHANGED vars
  BY DEF Next
<1>3. CASE parent.over
  <2>1. \A c \in Kids : engine[c] = "done"
    BY <1>3 DEF EscrowInv, AllDone
  <2>2. ASSUME NEW d \in Kids, Moves(d)
        PROVE  FALSE
    BY <2>1, <2>2 DEF BlockedTurn, TakeTurn, AtTurn, Breach, TriggerEscrow, Settle, WriteRow,
       Publish, Commit, NoConfig, Clash, Die, InTurn
  <2>3. ~Conclude /\ ~ConcludeLost
    BY <1>3 DEF Conclude, ConcludeLost
  <2> HIDE DEF Moves
  <2>4. UNCHANGED vars
    BY <1>2, <2>2, <2>3
  <2>5. EscrowsExplained' <=> EscrowsExplained
    BY <2>4 DEF EscrowsExplained, vars
  <2>6. WinnerIsBest' <=> WinnerIsBest
    BY <2>4 DEF WinnerIsBest, Listed, vars
  <2>7. AllDone' <=> AllDone
    BY <2>4 DEF AllDone, vars
  <2>8. parent' = parent
    BY <2>4 DEF vars
  <2> QED
    BY <1>3, <2>5, <2>6, <2>7, <2>8 DEF EscrowInv
<1>4. CASE ~parent.over
  <2>1. parent.status = "ACTIVE" /\ \A c \in Kids : ChildInv(c)
    BY <1>4 DEF EscrowInv
  <2>2. ASSUME parent' = parent, \A c \in Kids : ChildInv(c)'
        PROVE  EscrowInv'
    BY <1>4, <2>1, <2>2 DEF EscrowInv
  <2>3. ASSUME NEW d \in Kids, Moves(d)
        PROVE  EscrowInv'
    <3>1. \A c \in Kids : ChildInv(c)' /\ parent' = parent
      BY <2>1, <2>3, ChildStep
    <3> QED
      BY <2>2, <3>1, ChildFacts
  <2> HIDE DEF Moves
  <2>4. CASE Conclude
    BY <1>1, <2>1, <2>4, ConcludedWithout, ConcludedWith
  <2>5. CASE ConcludeLost
    BY <1>1, <2>1, <2>5, ConcludedLost
  <2>6. CASE UNCHANGED vars
    <3>1. \A c \in Kids : ChildInv(c)'
      BY <2>1, <2>6, Untouched DEF vars
    <3> QED
      BY <2>2, <2>6, <3>1 DEF vars
  <2> QED
    BY <1>2, <2>3, <2>4, <2>5, <2>6
<1> QED
  BY <1>3, <1>4

(* Of a child's applications all but the one of its row were lost by a      *)
(* rollback, and where no turn was rolled back every application is the     *)
(* winner's or a loser's.                                                   *)
THEOREM EscrowsAreExplained == Spec => []EscrowsExplained
<1>1. EscrowInv => EscrowsExplained
  <2> SUFFICES ASSUME EscrowInv, ~parent.over PROVE EscrowsExplained
    BY DEF EscrowInv
  <2>1. \A c \in Kids : ChainInv(c)
    BY DEF EscrowInv, ChildInv
  <2> QED
    BY <2>1 DEF EscrowsExplained, ChainInv
<1> QED
  BY <1>1, EscrowStarts, EscrowStep, TypesKept, PTL DEF Spec

(* run_multi_session concludes with the first of the cheapest deals, the    *)
(* only child that stays agreed, and the leaderboard begins with it.        *)
THEOREM WinnerIsTheBest == Spec => []WinnerIsBest
<1>1. EscrowInv => WinnerIsBest
  BY DEF EscrowInv, WinnerIsBest
<1> QED
  BY <1>1, EscrowStarts, EscrowStep, TypesKept, PTL DEF Spec
===============================================================================
