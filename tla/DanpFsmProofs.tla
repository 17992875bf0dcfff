---------------------------- MODULE DanpFsmProofs -----------------------------
(***************************************************************************)
(* Proofs about DanpFsm for every price set, limit, round budget and bound.*)
(*                                                                         *)
(* The properties are not inductive.  IInv adds what they rest on: how the *)
(* record's last offers relate to the rows of the offers table (LastOffers)*)
(* and to the limits of the party that made them (OffersLegal), how the    *)
(* status counts the counters (CountersCounted), who moved last (TurnHeld),*)
(* and that a price and a block count only exist where they should.        *)
(***************************************************************************)
EXTENDS DanpFsm, FiniteSetTheorems, TLAPS

-------------------------------------------------------------------------------
(* What DanpRules says of records, actions and limits.                      *)

(* Both names are roles, and Other is the opposite one.                     *)
LEMMA RoleFacts == /\ "buyer" \in Roles
                   /\ "seller" \in Roles
                   /\ \A r \in Roles : Other(r) \in Roles /\ Other(r) # r
BY DEF Roles, Other

(* The record a cleared action leaves is a session record again.            *)
LEMMA MovedTyped ==
    ASSUME NEW s \in SessionRecord, NEW a \in Envelope, NEW n \in Nat
    PROVE  Moved(s, a, n) \in SessionRecord
<1>1. s.round \in Nat /\ s.status \in ActiveStates \cup TerminalStates
      /\ s.lastOffer \in [Roles -> MaybePrice]
  BY DEF SessionRecord
<1>2. a.role \in Roles /\ a.price \in MaybePrice
      /\ a.kind \in {"counter", "accept", "reject", "timeout_yield"}
  BY DEF Envelope, MaybePrice
<1>3. CounterStatus(s, a, n) \in ActiveStates \cup TerminalStates
  BY DEF CounterStatus, ActiveStates, TerminalStates
<1>4. CounterRound(s, a, n) \in Nat
  BY <1>1 DEF CounterRound
<1>5. [s.lastOffer EXCEPT ![a.role] = a.price] \in [Roles -> MaybePrice]
  BY <1>1, <1>2
<1>6. Other(a.role) \in Roles
  BY <1>2, RoleFacts
<1>7. (CASE a.kind = "accept"        -> "AGREED"
         [] a.kind = "reject"        -> "WALKAWAY"
         [] a.kind = "counter"       -> CounterStatus(s, a, n)
         [] a.kind = "timeout_yield" -> s.status) \in ActiveStates \cup TerminalStates
  BY <1>1, <1>2, <1>3 DEF ActiveStates, TerminalStates
<1> QED
  BY <1>1, <1>2, <1>4, <1>5, <1>6, <1>7 DEF Moved, SessionRecord

(* Ending a session leaves a session record.                                *)
LEMMA EndedTyped ==
    ASSUME NEW s \in SessionRecord, NEW t \in TerminalStates
    PROVE  /\ Ended(s, t) \in SessionRecord
           /\ Ended(s, t).status = t
           /\ Ended(s, t).lastOffer = s.lastOffer
BY DEF Ended, SessionRecord

(* The stall counter stays a number.                                        *)
LEMMA StallTyped ==
    ASSUME NEW s, NEW a, NEW n \in Nat
    PROVE  StallCount(s, a, n) \in Nat
BY DEF StallCount

(* The fields of an envelope and of the offers row it becomes (STEP 9).     *)
LEMMA EnvelopeFacts ==
    ASSUME NEW a \in Envelope
    PROVE  /\ a.role \in Roles
           /\ a.price \in MaybePrice
           /\ a.kind \in {"counter", "accept", "reject", "timeout_yield"}
           /\ a.kind # "counter" => a.price = NoOffer
           /\ RowOf(a) \in OfferRow
           /\ RowOf(a).role = a.role /\ RowOf(a).kind = a.kind /\ RowOf(a).price = a.price
BY DEF Envelope, MaybePrice, RowOf, OfferRow

(* TurnOf, CounterStatus and Moved by cases.                                *)
LEMMA TurnCases ==
    ASSUME NEW s
    PROVE  /\ s.status = "BUYER_ANCHOR" => TurnOf(s) = "seller"
           /\ s.status = "SELLER_RESPONSE" => TurnOf(s) = "buyer"
           /\ s.status = "ROUND_LOOP" /\ s.lastActor = "buyer" => TurnOf(s) = "seller"
           /\ s.status = "ROUND_LOOP" /\ s.lastActor # "buyer" => TurnOf(s) = "buyer"
BY DEF TurnOf

(* Status and round after a counter, one case per state it is made in (STEP *)
(* 11).                                                                     *)
LEMMA CounterCases ==
    ASSUME NEW s, NEW a, NEW n
    PROVE  /\ OverLimit(s) => CounterStatus(s, a, n) = "ROUND_LIMIT"
           /\ Stalls(s, a, n) => CounterStatus(s, a, n) \in {"STALLED", "ROUND_LIMIT"}
           /\ ~OverLimit(s) /\ Stalls(s, a, n) => CounterStatus(s, a, n) = "STALLED"
           /\ ~OverLimit(s) /\ ~Stalls(s, a, n) /\ s.status = "BUYER_ANCHOR"
                => CounterStatus(s, a, n) = "SELLER_RESPONSE"
           /\ ~OverLimit(s) /\ ~Stalls(s, a, n) /\ s.status # "BUYER_ANCHOR"
                => CounterStatus(s, a, n) = "ROUND_LOOP"
<1>1. OverLimit(s) => CounterStatus(s, a, n) = "ROUND_LIMIT"
  BY DEF CounterStatus, Stalls, StallChecked
<1>2. ~OverLimit(s) /\ Stalls(s, a, n) => CounterStatus(s, a, n) = "STALLED"
  BY DEF CounterStatus
<1>3. ~OverLimit(s) /\ ~Stalls(s, a, n) /\ s.status = "BUYER_ANCHOR"
        => CounterStatus(s, a, n) = "SELLER_RESPONSE"
  BY DEF CounterStatus
<1>4. ~OverLimit(s) /\ ~Stalls(s, a, n) /\ s.status # "BUYER_ANCHOR"
        => CounterStatus(s, a, n) = "ROUND_LOOP"
  BY DEF CounterStatus
<1> QED
  BY <1>1, <1>2, <1>3, <1>4

(* What the record says after each kind of action.                          *)
LEMMA MovedFields ==
    ASSUME NEW s, NEW a, NEW n
    PROVE  /\ a.kind = "accept" => Moved(s, a, n).status = "AGREED"
           /\ a.kind = "reject" => Moved(s, a, n).status = "WALKAWAY"
           /\ a.kind = "counter" => Moved(s, a, n).status = CounterStatus(s, a, n)
           /\ a.kind = "timeout_yield" => Moved(s, a, n).status = s.status
           /\ a.kind = "counter" => Moved(s, a, n).round = CounterRound(s, a, n)
           /\ a.kind # "counter" => Moved(s, a, n).round = s.round
           /\ Moved(s, a, n).lastActor = a.role
<1>1. a.kind = "accept" => Moved(s, a, n).status = "AGREED"
  BY DEF Moved
<1>2. a.kind = "reject" => Moved(s, a, n).status = "WALKAWAY"
  BY DEF Moved
<1>3. a.kind = "counter" => Moved(s, a, n).status = CounterStatus(s, a, n)
  BY DEF Moved
<1>4. a.kind = "timeout_yield" => Moved(s, a, n).status = s.status
  BY DEF Moved
<1>5. /\ a.kind = "counter" => Moved(s, a, n).round = CounterRound(s, a, n)
      /\ a.kind # "counter" => Moved(s, a, n).round = s.round
      /\ Moved(s, a, n).lastActor = a.role
  BY DEF Moved
<1> QED
  BY <1>1, <1>2, <1>3, <1>4, <1>5

(* Only a priced row changes the last offers, and only its maker's.         *)
LEMMA MovedOffers ==
    ASSUME NEW s, NEW a, NEW n
    PROVE  Moved(s, a, n).lastOffer =
             IF a.price = NoOffer THEN s.lastOffer
             ELSE [s.lastOffer EXCEPT ![a.role] = a.price]
BY DEF Moved

-------------------------------------------------------------------------------
(* The record, the offers and the counts.                                  *)

(* Each last offer in the record is the price of its maker's latest priced  *)
(* row.                                                                     *)
LastOffers ==
    \A r \in Roles :
        \/ /\ session.lastOffer[r] = NoOffer
           /\ PricedRows(r, Len(offers)) = {}
        \/ \E i \in 1 .. Len(offers) :
              /\ IsLatest(i, r, Len(offers))
              /\ offers[i].price = session.lastOffer[r]

(* No offer on the table breaks its maker's own limit.                      *)
OffersLegal ==
    /\ session.lastOffer["seller"] # NoOffer => Floor <= session.lastOffer["seller"]
    /\ session.lastOffer["buyer"] # NoOffer => session.lastOffer["buyer"] <= Ceiling

CountersCounted ==
    Active =>
        LET n == Cardinality(CounterRows)
        IN  /\ session.status = "BUYER_ANCHOR" <=> n = 1
            /\ session.status = "SELLER_RESPONSE" <=> n = 2
            /\ session.status = "ROUND_LOOP" <=> n >= 3
            /\ n >= 1
            /\ session.round = IF n <= 2 THEN 1 ELSE n - 1

TurnHeld ==
    Active => \/ offers[Len(offers)].role # TurnOf(session)
              \/ offers[Len(offers)].kind = "timeout_yield"

PriceOnlyAgreed == session.status # "AGREED" => agreed = NoOffer

BlocksAreFailures == \A r \in Roles : blocks[r] <= fails[r]

IInv ==
    /\ TypeOK
    /\ Len(offers) >= 1
    /\ IsFiniteSet(CounterRows)
    /\ LastOffers
    /\ OffersLegal
    /\ CountersCounted
    /\ TurnHeld
    /\ PriceOnlyAgreed
    /\ BlocksAreFailures
    /\ ThreeBlocksEnd
    /\ Alternation
    /\ RoundBudget
    /\ AgreedPriceIsFair

-------------------------------------------------------------------------------
(* What one more row does to the readings of the offers table.              *)
LEMMA NewRow ==
    ASSUME offers \in Seq(OfferRow), NEW a \in Envelope, offers' = Append(offers, RowOf(a))
    PROVE  /\ offers' \in Seq(OfferRow)
           /\ Len(offers') = Len(offers) + 1
           /\ offers'[Len(offers')] = RowOf(a)
           /\ \A i \in 1 .. Len(offers) : offers'[i] = offers[i]
BY EnvelopeFacts

(* The number of counters in the table grows with a counter row only.       *)
LEMMA NewCounterRow ==
    ASSUME offers \in Seq(OfferRow), NEW a \in Envelope, offers' = Append(offers, RowOf(a)),
           IsFiniteSet(CounterRows)
    PROVE  /\ IsFiniteSet(CounterRows)'
           /\ Cardinality(CounterRows) \in Nat
           /\ Cardinality(CounterRows)' = IF a.kind = "counter" THEN Cardinality(CounterRows) + 1
                                          ELSE Cardinality(CounterRows)
<1> USE NewRow, EnvelopeFacts
<1>1. CASE a.kind = "counter"
  <2>1. CounterRows' = CounterRows \cup {Len(offers) + 1}
    BY <1>1 DEF CounterRows
  <2>2. Len(offers) + 1 \notin CounterRows
    BY DEF CounterRows
  <2> QED
    BY <1>1, <2>1, <2>2, FS_AddElement, FS_CardinalityType
<1>2. CASE a.kind # "counter"
  <2>1. CounterRows' = CounterRows
    BY <1>2 DEF CounterRows
  <2> QED
    BY <1>2, <2>1, FS_CardinalityType
<1> QED
  BY <1>1, <1>2

(* A priced row becomes its maker's latest, any other row leaves the latest *)
(* priced rows of both roles where they were.                               *)
LEMMA NewPricedRow ==
    ASSUME TypeOK, LastOffers, NEW a \in Envelope, NEW n \in Nat,
           offers' = Append(offers, RowOf(a)), session' = Moved(session, a, n)
    PROVE  LastOffers'
<1>0. PICK len \in Nat : len = Len(offers)
  BY DEF TypeOK
<1>1. session.lastOffer \in [Roles -> MaybePrice]
  BY DEF TypeOK, SessionRecord
<1>2. /\ Len(offers') = len + 1
      /\ offers'[len + 1] = RowOf(a)
      /\ \A i \in 1 .. len : offers'[i] = offers[i]
  BY <1>0, NewRow DEF TypeOK
<1>3. SUFFICES ASSUME NEW r \in Roles
               PROVE  \/ /\ session'.lastOffer[r] = NoOffer
                         /\ PricedRows(r, Len(offers))' = {}
                      \/ \E i \in 1 .. Len(offers') :
                            /\ IsLatest(i, r, Len(offers))'
                            /\ offers'[i].price = session'.lastOffer[r]
  BY DEF LastOffers
<1>4. CASE a.role = r /\ a.price # NoOffer
  <2>1. session'.lastOffer = [session.lastOffer EXCEPT ![a.role] = a.price]
    BY <1>4, MovedOffers
  <2>2. len + 1 \in PricedRows(r, Len(offers))'
    BY <1>1, <1>2, <1>4, EnvelopeFacts DEF PricedRows
  <2>3. PricedRows(r, Len(offers))' \subseteq 1 .. len + 1
    BY <1>1, <1>2 DEF PricedRows
  <2>4. IsLatest(len + 1, r, Len(offers))'
    BY <1>1, <2>2, <2>3 DEF IsLatest
  <2> QED
    BY <1>1, <1>2, <1>4, <2>1, <2>4, EnvelopeFacts
<1>5. CASE ~(a.role = r /\ a.price # NoOffer)
  <2>1. session'.lastOffer[r] = session.lastOffer[r]
    <3>1. CASE a.price = NoOffer
      <4>1. session'.lastOffer = session.lastOffer
        BY <3>1, MovedOffers
      <4> QED
        BY <4>1
    <3>2. CASE a.price # NoOffer
      <4>1. session'.lastOffer = [session.lastOffer EXCEPT ![a.role] = a.price]
        BY <3>2, MovedOffers
      <4> QED
        BY <1>1, <1>5, <3>2, <4>1
    <3> QED
      BY <3>1, <3>2
  <2>2. PricedRows(r, Len(offers))' = PricedRows(r, len)
    BY <1>1, <1>2, <1>5, EnvelopeFacts DEF PricedRows
  <2>3. ASSUME NEW i \in 1 .. len, IsLatest(i, r, len)
        PROVE  IsLatest(i, r, Len(offers))'
    BY <2>2, <2>3 DEF IsLatest
  <2> QED
    BY <1>0, <1>1, <1>2, <2>1, <2>2, <2>3 DEF LastOffers
<1> QED
  BY <1>4, <1>5

(* The record's last offer is the one the offers table yields when read.    *)
LastOffersRead == \A r \in Roles : session.lastOffer[r] = LatestPrice(r, Len(offers))

(* LastOffers, stated row by row, makes the record's last offers those that *)
(* a query of the table finds.                                              *)
LEMMA LatestPriceIs == LastOffers => LastOffersRead
<1> SUFFICES ASSUME LastOffers, NEW r \in Roles
             PROVE  session.lastOffer[r] = LatestPrice(r, Len(offers))
  BY DEF LastOffersRead
<1>1. CASE PricedRows(r, Len(offers)) = {}
  <2>1. session.lastOffer[r] = NoOffer
    BY <1>1 DEF LastOffers, IsLatest
  <2> QED
    BY <1>1, <2>1 DEF LatestPrice
<1>2. CASE PricedRows(r, Len(offers)) # {}
  <2>1. PICK i \in 1 .. Len(offers) : /\ IsLatest(i, r, Len(offers))
                                      /\ offers[i].price = session.lastOffer[r]
    BY <1>2 DEF LastOffers
  <2>2. ASSUME NEW j \in 1 .. Len(offers), IsLatest(j, r, Len(offers))
        PROVE  j = i
    <3>1. j <= i /\ i <= j
      BY <2>1, <2>2 DEF IsLatest
    <3> QED
      BY <3>1
  <2>3. (CHOOSE j \in 1 .. Len(offers) : IsLatest(j, r, Len(offers))) = i
    BY <2>1, <2>2
  <2> QED
    BY <1>2, <2>1, <2>3 DEF LatestPrice
<1> QED
  BY <1>1, <1>2

-------------------------------------------------------------------------------
(* The opening of create_session establishes the invariant.                 *)
LEMMA InitIInv == Init => IInv
<1> SUFFICES ASSUME Init PROVE IInv
  OBVIOUS
<1>1. PICK opening \in Prices :
        /\ ValidOpening(opening)
        /\ session = Opened(opening)
        /\ offers = <<[role |-> "buyer", kind |-> "counter", price |-> opening]>>
  BY DEF Init
<1>2. /\ opening \in MaybePrice /\ opening # NoOffer /\ opening \in Int
      /\ opening <= Ceiling
  BY RulesAssumption, <1>1 DEF MaybePrice, ValidOpening
<1>3. TypeOK
  <2>1. session \in SessionRecord
    BY <1>1, <1>2 DEF Opened, SessionRecord, ActiveStates, Roles, MaybePrice
  <2>2. offers \in Seq(OfferRow)
    BY <1>1, <1>2 DEF OfferRow, Roles
  <2> QED
    BY <2>1, <2>2 DEF TypeOK, Init, MaybePrice
<1>4. /\ Len(offers) = 1 /\ offers[1].role = "buyer" /\ offers[1].kind = "counter"
      /\ offers[1].price = opening
  BY <1>1
<1>5. /\ session.status = "BUYER_ANCHOR" /\ session.round = 1
      /\ session.lastOffer["buyer"] = opening /\ session.lastOffer["seller"] = NoOffer
  BY <1>1, RoleFacts DEF Opened
<1>6. CounterRows = {1}
  BY <1>1, <1>4 DEF CounterRows
<1>7. IsFiniteSet(CounterRows) /\ Cardinality(CounterRows) = 1
  BY <1>6, FS_Singleton
<1>8. LastOffers
  <2>1. PricedRows("buyer", Len(offers)) = {1}
    BY <1>2, <1>4 DEF PricedRows
  <2>2. IsLatest(1, "buyer", Len(offers))
    BY <2>1 DEF IsLatest
  <2>3. PricedRows("seller", Len(offers)) = {}
    BY <1>4 DEF PricedRows
  <2> QED
    BY <1>4, <1>5, <2>2, <2>3 DEF LastOffers, Roles
<1>9. OffersLegal
  BY <1>2, <1>5 DEF OffersLegal
<1>10. CountersCounted /\ RoundBudget
  BY <1>5, <1>7, RulesAssumption DEF CountersCounted, RoundBudget, LastRound
<1>11. TurnHeld
  BY <1>4, <1>5, TurnCases DEF TurnHeld
<1>12. PriceOnlyAgreed /\ BlocksAreFailures /\ ThreeBlocksEnd /\ AgreedPriceIsFair
  BY <1>5 DEF Init, PriceOnlyAgreed, BlocksAreFailures, ThreeBlocksEnd, AgreedPriceIsFair,
              StrikeLimit
<1>13. Alternation
  BY <1>4 DEF Alternation
<1> QED
  BY <1>3, <1>4, <1>7, <1>8, <1>9, <1>10, <1>11, <1>12, <1>13 DEF IInv

(* What every cleared action preserves, whatever its kind.                  *)
LEMMA RecordStep ==
    ASSUME IInv, NEW a \in Envelope, Cleared(a), NEW n \in Nat, Record(a, n),
           stall' \in Nat, agreed' \in MaybePrice
    PROVE  /\ TypeOK'
           /\ Len(offers') >= 1
           /\ IsFiniteSet(CounterRows)'
           /\ LastOffers'
           /\ OffersLegal'
           /\ BlocksAreFailures'
           /\ ThreeBlocksEnd'
           /\ Alternation'
<1> USE DEF Record
<1>1. TypeOK /\ a.role \in Roles
  BY EnvelopeFacts DEF IInv
<1>2. TypeOK'
  <2>1. session' \in SessionRecord
    BY <1>1, MovedTyped DEF TypeOK
  <2>2. offers' \in Seq(OfferRow)
    BY <1>1, NewRow DEF TypeOK
  <2>3. fails' \in [Roles -> Nat] /\ blocks' \in [Roles -> Nat] /\ expired' \in BOOLEAN
    BY <1>1 DEF TypeOK
  <2> QED
    BY <2>1, <2>2, <2>3 DEF TypeOK
<1>3. Len(offers') >= 1 /\ IsFiniteSet(CounterRows)'
  BY <1>1, NewRow, NewCounterRow DEF TypeOK, IInv
<1>4. LastOffers'
  BY <1>1, NewPricedRow DEF IInv
<1>5. OffersLegal'
  <2>1. CASE a.price = NoOffer
    <3>1. session'.lastOffer = session.lastOffer
      BY <2>1, MovedOffers
    <3> QED
      BY <3>1 DEF OffersLegal, IInv
  <2>2. CASE a.price # NoOffer
    <3>1. session'.lastOffer = [session.lastOffer EXCEPT ![a.role] = a.price]
      BY <2>2, MovedOffers
    <3>2. session.lastOffer \in [Roles -> MaybePrice]
      BY <1>1 DEF TypeOK, SessionRecord
    <3>3. a.kind = "counter" /\ a.price \in Int
      BY <2>2, EnvelopeFacts, RulesAssumption DEF MaybePrice
    <3>4. /\ a.role = "seller" => Floor <= a.price
          /\ a.role = "buyer" => a.price <= Ceiling
      BY <2>2, <3>3, RulesAssumption DEF Cleared, Breaches, JudgedPrice
    <3> QED
      BY <1>1, <3>1, <3>2, <3>4 DEF OffersLegal, IInv, Roles
  <2> QED
    BY <2>1, <2>2
<1>6. BlocksAreFailures'
  BY <1>1 DEF BlocksAreFailures, IInv, TypeOK
<1>7. ThreeBlocksEnd'
  <2>1. Active /\ ThreeBlocksEnd
    BY DEF IInv, Cleared, Admitted
  <2> QED
    BY <1>1, <2>1 DEF ThreeBlocksEnd, TypeOK, StrikeLimit
<1>8. Alternation'
  <2>1. /\ Len(offers) \in Nat /\ Len(offers) >= 1
        /\ Len(offers') = Len(offers) + 1
        /\ offers'[Len(offers) + 1] = RowOf(a)
        /\ \A i \in 1 .. Len(offers) : offers'[i] = offers[i]
    BY <1>1, NewRow DEF TypeOK, IInv
  <2>2. offers[Len(offers)].role = a.role => offers[Len(offers)].kind = "timeout_yield"
    BY DEF IInv, TurnHeld, Cleared, Admitted
  <2>3. RowOf(a).role = a.role
    BY EnvelopeFacts
  <2>4. SUFFICES ASSUME NEW i \in 1 .. Len(offers), offers'[i].role = offers'[i + 1].role
                 PROVE  offers'[i].kind = "timeout_yield"
    BY <2>1 DEF Alternation
  <2>5. CASE i = Len(offers)
    BY <2>1, <2>2, <2>3, <2>4, <2>5
  <2>6. CASE i # Len(offers)
    <3>1. i \in 1 .. Len(offers) - 1 /\ i + 1 \in 1 .. Len(offers)
      BY <2>1, <2>6
    <3> QED
      BY <2>1, <2>4, <3>1 DEF IInv, Alternation
  <2> QED
    BY <2>5, <2>6
<1> QED
  BY <1>2, <1>3, <1>4, <1>5, <1>6, <1>7, <1>8

-------------------------------------------------------------------------------
(* One step per action.                                                     *)
LEMMA CounterStep ==
    ASSUME IInv, NEW a \in Envelope, Counter(a)
    PROVE  IInv'
<1>1. /\ TypeOK /\ Active /\ a.kind = "counter" /\ a.role \in Roles
      /\ a.role = TurnOf(session)
  BY EnvelopeFacts DEF IInv, Counter, Cleared, Admitted
<1>2. PICK n \in Nat : n = stall'
  BY StallTyped DEF Counter, IInv, TypeOK
<1>3. /\ Cleared(a) /\ Record(a, n) /\ stall' \in Nat /\ agreed' = agreed
      /\ session' = Moved(session, a, n) /\ offers' = Append(offers, RowOf(a))
  BY <1>2 DEF Counter, Record
<1>4. agreed = NoOffer /\ agreed' \in MaybePrice
  BY <1>1, <1>3 DEF IInv, PriceOnlyAgreed, Active, ActiveStates, TypeOK
<1>5. /\ TypeOK' /\ Len(offers') >= 1 /\ IsFiniteSet(CounterRows)' /\ LastOffers'
      /\ OffersLegal' /\ BlocksAreFailures' /\ ThreeBlocksEnd' /\ Alternation'
  BY <1>3, <1>4, RecordStep
<1>6. PICK c \in Nat : c = Cardinality(CounterRows)
  BY <1>1, <1>3, NewCounterRow DEF IInv, TypeOK
<1>7. Cardinality(CounterRows)' = c + 1
  BY <1>1, <1>3, <1>6, NewCounterRow DEF IInv, TypeOK
<1>8. /\ c >= 1
      /\ session.status = "BUYER_ANCHOR" => c = 1 /\ session.round = 1
      /\ session.status = "SELLER_RESPONSE" => c = 2 /\ session.round = 1
      /\ session.status = "ROUND_LOOP" => c >= 3 /\ session.round = c - 1
      /\ session.round <= LastRound
      /\ session.status \in {"BUYER_ANCHOR", "SELLER_RESPONSE", "ROUND_LOOP"}
  BY <1>1, <1>6 DEF IInv, CountersCounted, RoundBudget, Active, ActiveStates
<1>9. /\ session'.status = CounterStatus(session, a, n)
      /\ session'.round = CounterRound(session, a, n)
      /\ session'.lastActor = a.role
  BY <1>1, <1>3, MovedFields
<1>10. offers'[Len(offers')].role = a.role
  BY <1>1, <1>3, NewRow, EnvelopeFacts DEF TypeOK
<1>11. /\ CountersCounted'
       /\ TurnHeld'
       /\ PriceOnlyAgreed'
       /\ RoundBudget'
       /\ AgreedPriceIsFair'
  <2>1. CASE OverLimit(session)
    <3>1. session'.status = "ROUND_LIMIT"
      BY <1>9, <2>1, CounterCases
    <3>2. c = LastRound + 1
      BY <1>8, <2>1, RulesAssumption DEF OverLimit, NextRound, LastRound
    <3>3. RoundBudget'
      BY <1>7, <3>1, <3>2, RulesAssumption DEF RoundBudget, Active, ActiveStates, LastRound
    <3> QED
      BY <1>3, <1>4, <3>1, <3>3
      DEF CountersCounted, TurnHeld, PriceOnlyAgreed, AgreedPriceIsFair, Active, ActiveStates
  <2>2. CASE ~OverLimit(session) /\ Stalls(session, a, n)
    <3>1. session'.status = "STALLED"
      BY <1>9, <2>2, CounterCases
    <3> QED
      BY <1>3, <1>4, <3>1
      DEF CountersCounted, TurnHeld, PriceOnlyAgreed, AgreedPriceIsFair, RoundBudget,
          Active, ActiveStates
  <2>3. CASE ~OverLimit(session) /\ ~Stalls(session, a, n) /\ session.status = "BUYER_ANCHOR"
    <3>1. session'.status = "SELLER_RESPONSE" /\ session'.round = 1
      BY <1>8, <1>9, <2>3, CounterCases DEF CounterRound
    <3>2. TurnOf(session') = "buyer" /\ a.role = "seller"
      BY <1>1, <2>3, <3>1, TurnCases
    <3>3. TurnHeld'
      BY <1>10, <3>2 DEF TurnHeld
    <3> QED
      BY <1>3, <1>4, <1>7, <1>8, <2>3, <3>1, <3>3, RulesAssumption
      DEF CountersCounted, PriceOnlyAgreed, AgreedPriceIsFair, RoundBudget, LastRound
  <2>4. CASE ~OverLimit(session) /\ ~Stalls(session, a, n) /\ session.status # "BUYER_ANCHOR"
    <3>1. session'.status = "ROUND_LOOP" /\ session'.round = session.round + 1
      BY <1>9, <2>4, CounterCases DEF CounterRound
    <3>2. TurnOf(session') # a.role
      BY <1>1, <1>9, <3>1, TurnCases DEF Roles
    <3>3. TurnHeld'
      BY <1>10, <3>2 DEF TurnHeld
    <3>4. session'.round <= LastRound
      BY <1>8, <2>4, <3>1, RulesAssumption DEF OverLimit, NextRound, LastRound
    <3>5. RoundBudget'
      BY <3>1, <3>4 DEF RoundBudget, LastRound
    <3>6. CountersCounted'
      BY <1>7, <1>8, <2>4, <3>1 DEF CountersCounted
    <3> QED
      BY <1>3, <1>4, <3>1, <3>3, <3>5, <3>6 DEF PriceOnlyAgreed, AgreedPriceIsFair
  <2> QED
    BY <2>1, <2>2, <2>3, <2>4
<1> QED
  BY <1>5, <1>11 DEF IInv

(* A yield preserves the invariant: it moves the turn, nothing else.        *)
LEMMA YieldStep ==
    ASSUME IInv, NEW a \in Envelope, Yield(a)
    PROVE  IInv'
<1>1. /\ TypeOK /\ Active /\ a.kind = "timeout_yield"
      /\ Cleared(a) /\ Record(a, stall) /\ stall' = stall /\ agreed' = agreed
      /\ session' = Moved(session, a, stall) /\ offers' = Append(offers, RowOf(a))
  BY DEF IInv, Yield, Cleared, Admitted, Record
<1>2. PICK n \in Nat : n = stall
  BY <1>1 DEF TypeOK
<1>3. /\ TypeOK' /\ Len(offers') >= 1 /\ IsFiniteSet(CounterRows)' /\ LastOffers'
      /\ OffersLegal' /\ BlocksAreFailures' /\ ThreeBlocksEnd' /\ Alternation'
  BY <1>1, <1>2, RecordStep DEF TypeOK
<1>4. Cardinality(CounterRows)' = Cardinality(CounterRows)
  BY <1>1, NewCounterRow DEF IInv, TypeOK
<1>5. session'.status = session.status /\ session'.round = session.round
  BY <1>1, MovedFields
<1>6. offers'[Len(offers')].kind = "timeout_yield"
  BY <1>1, NewRow, EnvelopeFacts DEF TypeOK
<1>7. CountersCounted'
  BY <1>1, <1>4, <1>5 DEF IInv, CountersCounted, Active
<1>8. TurnHeld' /\ PriceOnlyAgreed'
  BY <1>1, <1>5, <1>6 DEF IInv, TurnHeld, PriceOnlyAgreed
<1>9. RoundBudget' /\ AgreedPriceIsFair'
  BY <1>1, <1>4, <1>5 DEF IInv, RoundBudget, AgreedPriceIsFair, Active, ActiveStates, LastRound
<1> QED
  BY <1>3, <1>7, <1>8, <1>9 DEF IInv

(* A reject preserves the invariant: WALKAWAY, no price.                    *)
LEMMA RejectStep ==
    ASSUME IInv, NEW a \in Envelope, Reject(a)
    PROVE  IInv'
<1>1. /\ TypeOK /\ Active /\ a.kind = "reject"
      /\ Cleared(a) /\ Record(a, stall) /\ stall' = stall /\ agreed' = agreed
      /\ session' = Moved(session, a, stall) /\ offers' = Append(offers, RowOf(a))
  BY DEF IInv, Reject, Cleared, Admitted, Record
<1>2. PICK n \in Nat : n = stall
  BY <1>1 DEF TypeOK
<1>3. /\ TypeOK' /\ Len(offers') >= 1 /\ IsFiniteSet(CounterRows)' /\ LastOffers'
      /\ OffersLegal' /\ BlocksAreFailures' /\ ThreeBlocksEnd' /\ Alternation'
  BY <1>1, <1>2, RecordStep DEF TypeOK
<1>4. session'.status = "WALKAWAY"
  BY <1>1, MovedFields
<1>5. agreed' = NoOffer
  BY <1>1 DEF IInv, PriceOnlyAgreed, Active, ActiveStates
<1>6. CountersCounted' /\ TurnHeld' /\ PriceOnlyAgreed' /\ RoundBudget' /\ AgreedPriceIsFair'
  BY <1>4, <1>5 DEF CountersCounted, TurnHeld, PriceOnlyAgreed, RoundBudget, AgreedPriceIsFair,
                    Active, ActiveStates
<1> QED
  BY <1>3, <1>6 DEF IInv

(* The closing price is the other party's last offer, which its own limit   *)
(* allowed when it was made and the acceptor's limit allows now.            *)
LEMMA ClosingPriceFair ==
    ASSUME IInv, NEW a \in Envelope, Accept(a)
    PROVE  /\ agreed' = session.lastOffer[Other(a.role)]
           /\ agreed' \in MaybePrice
           /\ agreed' # NoOffer => Floor <= agreed' /\ agreed' <= Ceiling
<1>1. /\ a.role \in Roles /\ a.price = NoOffer /\ a.kind = "accept"
      /\ agreed' = ClosingPrice(session, a) /\ ~Breaches(session, a)
  BY EnvelopeFacts DEF Accept, Cleared
<1>2. session.lastOffer \in [Roles -> MaybePrice]
  BY DEF IInv, TypeOK, SessionRecord
<1>3. agreed' = session.lastOffer[Other(a.role)]
  BY <1>1 DEF ClosingPrice
<1>4. agreed' \in MaybePrice
  BY <1>1, <1>2, <1>3, RoleFacts
<1>5. ASSUME agreed' # NoOffer
      PROVE  Floor <= agreed' /\ agreed' <= Ceiling
  <2>1. agreed' \in Int /\ Floor \in Int /\ Ceiling \in Int
    BY <1>4, <1>5, RulesAssumption DEF MaybePrice
  <2>2. /\ a.role = "seller" => ~(agreed' < Floor)
        /\ a.role = "buyer" => ~(agreed' > Ceiling)
    BY <1>1, <1>3, <1>5 DEF Breaches, JudgedPrice
  <2>3. /\ Other(a.role) = "seller" => Floor <= agreed'
        /\ Other(a.role) = "buyer" => agreed' <= Ceiling
    BY <1>3, <1>5 DEF IInv, OffersLegal
  <2> QED
    BY <1>1, <2>1, <2>2, <2>3 DEF Other, Roles
<1> QED
  BY <1>3, <1>4, <1>5

(* An accept preserves the invariant: the closing price is fair.            *)
LEMMA AcceptStep ==
    ASSUME IInv, NEW a \in Envelope, Accept(a)
    PROVE  IInv'
<1>1. /\ TypeOK /\ Active /\ a.kind = "accept" /\ a.role \in Roles /\ a.price = NoOffer
      /\ Cleared(a) /\ Record(a, stall) /\ stall' = stall
      /\ session' = Moved(session, a, stall) /\ offers' = Append(offers, RowOf(a))
  BY EnvelopeFacts DEF IInv, Accept, Cleared, Admitted, Record
<1>2. PICK n \in Nat : n = stall
  BY <1>1 DEF TypeOK
<1>3. /\ TypeOK' /\ Len(offers') >= 1 /\ IsFiniteSet(CounterRows)' /\ LastOffers'
      /\ OffersLegal' /\ BlocksAreFailures' /\ ThreeBlocksEnd' /\ Alternation'
  BY <1>1, <1>2, ClosingPriceFair, RecordStep DEF TypeOK
<1>4. session'.status = "AGREED"
  BY <1>1, MovedFields
<1>5. AgreedPriceIsFair'
  <2>1. offers'[Len(offers')].role = a.role
    BY <1>1, NewRow, EnvelopeFacts DEF TypeOK
  <2>2. session'.lastOffer = session.lastOffer
    BY <1>1, MovedOffers
  <2>3. LastOffers' => LastOffersRead'
    BY LatestPriceIs, PTL
  <2>4. LatestPrice(Other(a.role), Len(offers))' = session'.lastOffer[Other(a.role)]
    BY <1>1, <1>3, <2>3, RoleFacts DEF LastOffersRead
  <2> QED
    BY <2>1, <2>2, <2>4, ClosingPriceFair DEF AgreedPriceIsFair
<1>6. CountersCounted' /\ TurnHeld' /\ PriceOnlyAgreed' /\ RoundBudget'
  BY <1>4 DEF CountersCounted, TurnHeld, PriceOnlyAgreed, RoundBudget, Active, ActiveStates
<1> QED
  BY <1>3, <1>5, <1>6 DEF IInv

(* The other actions leave the rows, the last offers and the price alone.   *)
LEMMA EndStep ==
    ASSUME IInv, Active, NEW t \in TerminalStates \ {"AGREED", "ROUND_LIMIT"},
           session' = Ended(session, t), UNCHANGED <<stall, offers, agreed, expired>>,
           fails' \in [Roles -> Nat], blocks' \in [Roles -> Nat],
           \A r \in Roles : blocks'[r] <= fails'[r]
    PROVE  IInv'
<1>1. TypeOK
  BY DEF IInv
<1>2. /\ session' \in SessionRecord /\ session'.status = t
      /\ session'.lastOffer = session.lastOffer
  BY <1>1, EndedTyped DEF TypeOK
<1>3. TypeOK'
  BY <1>1, <1>2 DEF TypeOK
<1>4. agreed = NoOffer
  BY DEF IInv, PriceOnlyAgreed, Active, ActiveStates
<1>5. Len(offers') >= 1 /\ IsFiniteSet(CounterRows)' /\ Alternation'
  BY DEF IInv, CounterRows, Alternation
<1>6. LastOffers' /\ OffersLegal'
  BY <1>2 DEF IInv, LastOffers, OffersLegal, IsLatest, PricedRows
<1>7. ~Active'
  BY <1>2 DEF Active, ActiveStates, TerminalStates
<1>8. CountersCounted' /\ TurnHeld' /\ ThreeBlocksEnd'
  BY <1>7 DEF CountersCounted, TurnHeld, ThreeBlocksEnd
<1>9. PriceOnlyAgreed' /\ BlocksAreFailures' /\ RoundBudget' /\ AgreedPriceIsFair'
  BY <1>2, <1>4, <1>7 DEF PriceOnlyAgreed, BlocksAreFailures, RoundBudget, AgreedPriceIsFair
<1> QED
  BY <1>3, <1>5, <1>6, <1>8, <1>9 DEF IInv

(* A failure counted, a block counted with it, or time passing: the record, *)
(* the rows and the price stay.                                             *)
LEMMA CountStep ==
    ASSUME IInv, UNCHANGED <<session, stall, offers, agreed>>,
           fails' \in [Roles -> Nat], blocks' \in [Roles -> Nat], expired' \in BOOLEAN,
           \A r \in Roles : blocks'[r] <= fails'[r],
           Active => \A r \in Roles : blocks'[r] < StrikeLimit
    PROVE  IInv'
<1>1. TypeOK'
  BY DEF IInv, TypeOK
<1>2. Len(offers') >= 1 /\ IsFiniteSet(CounterRows)' /\ Alternation'
  BY DEF IInv, CounterRows, Alternation
<1>3. LastOffers' /\ OffersLegal'
  BY DEF IInv, LastOffers, OffersLegal, IsLatest, PricedRows
<1>4. CountersCounted'
  BY DEF IInv, CountersCounted, CounterRows, Active
<1>5. TurnHeld' /\ ThreeBlocksEnd' /\ PriceOnlyAgreed' /\ BlocksAreFailures'
  BY DEF IInv, TurnHeld, ThreeBlocksEnd, PriceOnlyAgreed, BlocksAreFailures, Active
<1>6. RoundBudget' /\ AgreedPriceIsFair'
  BY DEF IInv, RoundBudget, AgreedPriceIsFair, CounterRows, LatestPrice, IsLatest, PricedRows,
         Active
<1> QED
  BY <1>1, <1>2, <1>3, <1>4, <1>5, <1>6 DEF IInv

(* A guardrail block preserves the invariant, the third one by ending the   *)
(* session.                                                                 *)
LEMMA BlockedStep ==
    ASSUME IInv, NEW a \in Envelope, Blocked(a)
    PROVE  IInv'
<1>1. /\ fails \in [Roles -> Nat] /\ blocks \in [Roles -> Nat] /\ expired \in BOOLEAN
      /\ Active /\ a.role \in Roles
      /\ \A r \in Roles : blocks[r] <= fails[r]
      /\ \A r \in Roles : blocks[r] < StrikeLimit
  BY EnvelopeFacts DEF IInv, TypeOK, Blocked, Admitted, BlocksAreFailures, ThreeBlocksEnd
<1>2. /\ fails' = [fails EXCEPT ![a.role] = @ + 1] /\ blocks' = [blocks EXCEPT ![a.role] = @ + 1]
      /\ UNCHANGED <<stall, offers, agreed, expired>>
  BY DEF Blocked
<1>3. /\ fails' \in [Roles -> Nat] /\ blocks' \in [Roles -> Nat]
      /\ \A r \in Roles : blocks'[r] <= fails'[r]
  BY <1>1, <1>2
<1>4. CASE StrikesOut(fails'[a.role])
  <2>1. session' = Ended(session, "POLICY_BREACH")
    BY <1>4 DEF Blocked
  <2>2. "POLICY_BREACH" \in TerminalStates \ {"AGREED", "ROUND_LIMIT"}
    BY DEF TerminalStates
  <2> QED
    BY <1>1, <1>2, <1>3, <2>1, <2>2, EndStep
<1>5. CASE ~StrikesOut(fails'[a.role])
  <2>1. session' = session
    BY <1>5 DEF Blocked
  <2>2. \A r \in Roles : blocks'[r] < StrikeLimit
    BY <1>1, <1>2, <1>3, <1>5 DEF StrikesOut, StrikeLimit
  <2> QED
    BY <1>1, <1>2, <1>3, <2>1, <2>2, CountStep
<1> QED
  BY <1>4, <1>5

(* A wrong round number preserves the invariant.                            *)
LEMMA WrongRoundStep ==
    ASSUME IInv, NEW a \in Envelope, WrongRound(a)
    PROVE  IInv'
<1>1. /\ fails' = [fails EXCEPT ![a.role] = @ + 1] /\ a.role \in Roles
      /\ UNCHANGED <<session, stall, offers, agreed, expired, blocks>>
  BY EnvelopeFacts DEF WrongRound
<1>2. /\ fails \in [Roles -> Nat] /\ blocks \in [Roles -> Nat] /\ expired \in BOOLEAN
      /\ \A r \in Roles : blocks[r] <= fails[r]
      /\ Active => \A r \in Roles : blocks[r] < StrikeLimit
  BY DEF IInv, TypeOK, BlocksAreFailures, ThreeBlocksEnd
<1> QED
  BY <1>1, <1>2, CountStep

(* A TIMEOUT preserves the invariant.                                       *)
LEMMA TimeOutStep ==
    ASSUME IInv, TimeOut
    PROVE  IInv'
<1>1. /\ fails \in [Roles -> Nat] /\ blocks \in [Roles -> Nat]
      /\ \A r \in Roles : blocks[r] <= fails[r]
  BY DEF IInv, TypeOK, BlocksAreFailures
<1>2. "TIMEOUT" \in TerminalStates \ {"AGREED", "ROUND_LIMIT"}
  BY DEF TerminalStates
<1> QED
  BY <1>1, <1>2, EndStep DEF TimeOut

(* The deadline passing, and a stuttering step, preserve the invariant.     *)
LEMMA QuietStep ==
    ASSUME IInv, PassDeadline \/ UNCHANGED vars
    PROVE  IInv'
<1>1. /\ fails \in [Roles -> Nat] /\ blocks \in [Roles -> Nat] /\ expired \in BOOLEAN
      /\ \A r \in Roles : blocks[r] <= fails[r]
      /\ Active => \A r \in Roles : blocks[r] < StrikeLimit
  BY DEF IInv, TypeOK, BlocksAreFailures, ThreeBlocksEnd
<1>2. /\ UNCHANGED <<session, stall, offers, agreed, fails, blocks>>
      /\ expired' \in BOOLEAN
  BY <1>1 DEF PassDeadline, vars
<1> QED
  BY <1>1, <1>2, CountStep

-------------------------------------------------------------------------------
(* IInv is inductive: every state the machine can reach satisfies it.       *)
THEOREM Invariance == Spec => []IInv
<1>1. IInv /\ [Next]_vars => IInv'
  <2> SUFFICES ASSUME IInv, [Next]_vars PROVE IInv'
    OBVIOUS
  <2>1. ASSUME NEW a \in Envelope, Submit(a) PROVE IInv'
    <3>1. CASE WrongRound(a)  BY <3>1, WrongRoundStep
    <3>2. CASE Blocked(a)     BY <3>2, BlockedStep
    <3>3. CASE Accept(a)      BY <3>3, AcceptStep
    <3>4. CASE Reject(a)      BY <3>4, RejectStep
    <3>5. CASE Counter(a)     BY <3>5, CounterStep
    <3>6. CASE Yield(a)       BY <3>6, YieldStep
    <3> QED
      BY <2>1, <3>1, <3>2, <3>3, <3>4, <3>5, <3>6 DEF Submit
  <2>2. CASE TimeOut
    BY <2>2, TimeOutStep
  <2>3. CASE PassDeadline \/ UNCHANGED vars
    BY <2>3, QuietStep
  <2> QED
    BY <2>1, <2>2, <2>3 DEF Next
<1> QED
  BY InitIInv, <1>1, PTL DEF Spec

(* Every reachable state of the machine has the declared types.             *)
THEOREM TypeCorrect == Spec => []TypeOK
<1>1. IInv => TypeOK
  BY DEF IInv
<1> QED
  BY <1>1, Invariance, PTL

(* Whatever the limits, the prices and the round budget: an agreement       *)
(* closes at the other party's last offer and inside both parties' limits.  *)
THEOREM FairAgreement == Spec => []AgreedPriceIsFair
<1>1. IInv => AgreedPriceIsFair
  BY DEF IInv
<1> QED
  BY <1>1, Invariance, PTL

(* No session outlives its round budget (process_action, STEP 11).          *)
THEOREM Budgeted == Spec => []RoundBudget
<1>1. IInv => RoundBudget
  BY DEF IInv
<1> QED
  BY <1>1, Invariance, PTL

(* The turn alternates, but for yields outside ROUND_LOOP (STEP 5).         *)
THEOREM TurnsAlternate == Spec => []Alternation
<1>1. IInv => Alternation
  BY DEF IInv
<1> QED
  BY <1>1, Invariance, PTL

(* A role whose actions are blocked three times running is out, whatever    *)
(* wrong round numbers it sends in between (GuardrailEngine.enforce).       *)
THEOREM BlocksEnd == Spec => []ThreeBlocksEnd
<1>1. IInv => ThreeBlocksEnd
  BY DEF IInv
<1> QED
  BY <1>1, Invariance, PTL

(* The Redis record can be recomputed from the offers table, whatever the   *)
(* round budget: nothing but the counters would be lost with Redis.         *)
THEOREM RecordRecomputable == Spec => []RecordMatchesOffers
<1>1. IInv => RecordMatchesOffers
  <2> SUFFICES ASSUME IInv PROVE RecordMatchesOffers
    OBVIOUS
  <2>1. \A r \in Roles : session.lastOffer[r] = LatestPrice(r, Len(offers))
    BY LatestPriceIs DEF IInv, LastOffersRead
  <2>2. ASSUME Active
        PROVE  LET n == Cardinality(CounterRows)
               IN  /\ session.status = CASE n = 1 -> "BUYER_ANCHOR"
                                         [] n = 2 -> "SELLER_RESPONSE"
                                         [] OTHER -> "ROUND_LOOP"
                   /\ session.round = IF n <= 2 THEN 1 ELSE n - 1
    <3>1. PICK n : n = Cardinality(CounterRows)
      OBVIOUS
    <3>2. /\ session.status = "BUYER_ANCHOR" <=> n = 1
          /\ session.status = "SELLER_RESPONSE" <=> n = 2
          /\ session.status \in {"BUYER_ANCHOR", "SELLER_RESPONSE", "ROUND_LOOP"}
          /\ session.round = IF n <= 2 THEN 1 ELSE n - 1
      BY <2>2, <3>1 DEF IInv, CountersCounted, Active, ActiveStates
    <3>3. n = 1 => n # 2
      OBVIOUS
    <3>4. session.status = CASE n = 1 -> "BUYER_ANCHOR"
                             [] n = 2 -> "SELLER_RESPONSE"
                             [] OTHER -> "ROUND_LOOP"
      BY <3>2, <3>3, Zenon
    <3> QED
      BY <3>1, <3>2, <3>4
  <2> QED
    BY <2>1, <2>2 DEF RecordMatchesOffers
<1> QED
  BY <1>1, Invariance, PTL

(* The machine implements NegotiationOutcome: the first step into a         *)
(* terminal status is the one decision, everything before and after it      *)
(* stutters.                                                                *)
THEOREM ImplementsOutcome == Spec => OutcomeSpec
<1> DEFINE Shown == IF Active THEN "OPEN" ELSE session.status
<1>1. Init => Outcome!Init
  BY DEF Init, Outcome!Init, Opened, Active, ActiveStates
<1>2. IInv /\ IInv' /\ [Next]_vars => [Outcome!Next]_(Outcome!vars)
  <2> SUFFICES ASSUME IInv, IInv', [Next]_vars
               PROVE  Outcome!Next \/ (Shown' = Shown /\ agreed' = agreed)
    BY DEF Outcome!vars
  <2>1. ASSUME Active, agreed = NoOffer, NEW d \in TerminalStates \ {"AGREED"},
               session'.status = d, agreed' = NoOffer
        PROVE  Outcome!Next
    <3>1. d \in Outcome!Decisions /\ d # "AGREED" /\ Shown = "OPEN" /\ Shown' = d
      BY <2>1 DEF Outcome!Decisions, TerminalStates, Active, ActiveStates
    <3> QED
      BY <2>1, <3>1 DEF Outcome!Next, Outcome!Decide
  <2>2. Active => agreed = NoOffer
    BY DEF IInv, PriceOnlyAgreed, Active, ActiveStates
  <2>3. session'.status # "AGREED" => agreed' = NoOffer
    BY DEF IInv, PriceOnlyAgreed
  <2>4. session'.status \in ActiveStates \cup TerminalStates
    BY DEF IInv, TypeOK, SessionRecord
  <2>5. ASSUME Active, session'.status # "AGREED"
        PROVE  Outcome!Next \/ (Shown' = Shown /\ agreed' = agreed)
    <3>1. CASE session'.status \in TerminalStates
      BY <2>1, <2>2, <2>3, <2>5, <3>1
    <3>2. CASE session'.status \in ActiveStates
      BY <2>2, <2>3, <2>5, <3>2 DEF Active, ActiveStates
    <3> QED
      BY <2>4, <3>1, <3>2
  <2>6. ASSUME NEW a \in Envelope, Submit(a)
        PROVE  Outcome!Next \/ (Shown' = Shown /\ agreed' = agreed)
    <3>1. Active
      BY <2>6 DEF Submit, WrongRound, Blocked, Accept, Reject, Counter, Yield, Cleared, Admitted
    <3>2. CASE Accept(a)
      <4>1. session'.status = "AGREED"
        BY <3>2, MovedFields DEF Accept, Record
      <4>2. Outcome!Fair(agreed') /\ agreed' \in Prices \cup {NoOffer}
        BY <3>2, ClosingPriceFair DEF Outcome!Fair, MaybePrice
      <4>3. Shown = "OPEN" /\ Shown' = "AGREED" /\ "AGREED" \in Outcome!Decisions
        BY <3>1, <4>1 DEF Active, ActiveStates, Outcome!Decisions
      <4> QED
        BY <4>2, <4>3 DEF Outcome!Next, Outcome!Decide
    <3>3. CASE ~Accept(a)
      <4>1. session'.status # "AGREED"
        <5>1. CASE WrongRound(a)
          BY <3>1, <5>1 DEF WrongRound, Active, ActiveStates
        <5>2. CASE Blocked(a)
          <6>1. Ended(session, "POLICY_BREACH").status = "POLICY_BREACH"
            BY EndedTyped DEF IInv, TypeOK, TerminalStates
          <6> QED
            BY <3>1, <5>2, <6>1 DEF Blocked, Active, ActiveStates
        <5>3. CASE Reject(a)
          BY <5>3, MovedFields DEF Reject, Record
        <5>4. CASE Yield(a)
          BY <3>1, <5>4, MovedFields DEF Yield, Record, Active, ActiveStates
        <5>5. CASE Counter(a)
          <6>1. PICK n : n = stall'
            OBVIOUS
          <6>2. session'.status = CounterStatus(session, a, n)
            BY <5>5, <6>1, MovedFields DEF Counter, Record
          <6> QED
            BY <6>2, CounterCases
        <5> QED
          BY <2>6, <3>3, <5>1, <5>2, <5>3, <5>4, <5>5 DEF Submit
      <4> QED
        BY <2>5, <3>1, <4>1
    <3> QED
      BY <3>2, <3>3
  <2>7. CASE TimeOut
    <3>1. session'.status = "TIMEOUT" /\ Active
      BY <2>7, EndedTyped DEF TimeOut, IInv, TypeOK, TerminalStates
    <3> QED
      BY <2>5, <3>1
  <2>8. CASE PassDeadline \/ UNCHANGED vars
    BY <2>8 DEF PassDeadline, vars, Active
  <2> QED
    BY <2>6, <2>7, <2>8 DEF Next
<1> QED
  BY <1>1, <1>2, Invariance, PTL DEF Spec, OutcomeSpec, Outcome!Spec

-------------------------------------------------------------------------------
(* Turns.                                                                   *)

NoYield == \A i \in DOMAIN offers : offers[i].kind # "timeout_yield"

(* The record's expected_turn follows the last row, and so does last_actor  *)
(* in ROUND_LOOP; before it the status names the author of the last row,    *)
(* unless somebody has yielded.                                             *)
TurnInv ==
    LET last == offers[Len(offers)].role
    IN  /\ session.expectedTurn = Other(last)
        /\ session.status = "ROUND_LOOP" => session.lastActor = last
        /\ session.status = "BUYER_ANCHOR" /\ NoYield => last = "buyer"
        /\ session.status = "SELLER_RESPONSE" /\ NoYield => last = "seller"

(* A cleared action moves all of them together.                             *)
LEMMA RecordKeepsTurn ==
    ASSUME IInv, TurnInv, NEW a \in Envelope, Cleared(a), NEW n, Record(a, n),
           session'.status = "BUYER_ANCHOR" => a.kind = "timeout_yield",
           session'.status = "SELLER_RESPONSE" => a.kind = "timeout_yield" \/ a.role = "seller"
    PROVE  TurnInv'
<1>1. offers \in Seq(OfferRow) /\ Len(offers) \in Nat /\ offers' = Append(offers, RowOf(a))
  BY DEF IInv, TypeOK, Record
<1>2. /\ offers'[Len(offers')].role = a.role /\ offers'[Len(offers')].kind = a.kind
      /\ Len(offers') \in DOMAIN offers'
  BY <1>1, NewRow, EnvelopeFacts
<1>3. session'.expectedTurn = Other(a.role) /\ session'.lastActor = a.role
  BY DEF Record, Moved
<1>4. a.kind = "timeout_yield" => ~NoYield'
  BY <1>2 DEF NoYield
<1> QED  BY <1>2, <1>3, <1>4 DEF TurnInv

(* TurnsAgree, for every price set, limit, round budget and bound: the turn *)
(* of STEP 5, expected_turn in the record and the one GET /status computes. *)
THEOREM TurnsDoAgree == Spec => []TurnsAgree
<1>1. Init => TurnInv
  BY RoleFacts DEF Init, TurnInv, Opened, Other
<1>2. IInv /\ TurnInv /\ [Next]_vars => TurnInv'
  <2> SUFFICES ASSUME IInv, TurnInv, [Next]_vars PROVE TurnInv'
    OBVIOUS
  <2>0. session \in SessionRecord
    BY DEF IInv, TypeOK
  <2>1. ASSUME NEW a \in Envelope, Accept(a) \/ Reject(a) PROVE TurnInv'
    <3>1. Cleared(a) /\ Record(a, stall) /\ session'.status \in {"AGREED", "WALKAWAY"}
      BY <2>1, MovedFields DEF Accept, Reject, Record
    <3> QED  BY <3>1, RecordKeepsTurn
  <2>2. ASSUME NEW a \in Envelope, Yield(a) PROVE TurnInv'
    BY <2>2, RecordKeepsTurn DEF Yield
  <2>3. ASSUME NEW a \in Envelope, Counter(a) PROVE TurnInv'
    <3>1. PICK n : n = stall'
      OBVIOUS
    <3>2. /\ Cleared(a) /\ Record(a, n) /\ session'.status = CounterStatus(session, a, n)
          /\ Active /\ a.role = TurnOf(session)
      BY <2>3, <3>1, MovedFields DEF Counter, Record, Cleared, Admitted
    <3>3. CounterStatus(session, a, n) # "BUYER_ANCHOR"
      BY CounterCases
    <3>4. CounterStatus(session, a, n) = "SELLER_RESPONSE" => session.status = "BUYER_ANCHOR"
      BY CounterCases
    <3> QED  BY <3>2, <3>3, <3>4, TurnCases, RecordKeepsTurn
  <2>4. ASSUME UNCHANGED offers,
               \/ session' = session
               \/ session' \in {Ended(session, "TIMEOUT"), Ended(session, "POLICY_BREACH")}
        PROVE  TurnInv'
    <3>1. /\ session'.expectedTurn = session.expectedTurn
          /\ session' = session \/ session'.status \in {"TIMEOUT", "POLICY_BREACH"}
      BY <2>0, <2>4 DEF Ended, SessionRecord
    <3> QED  BY <2>4, <3>1 DEF TurnInv, NoYield
  <2>5. ASSUME NEW a \in Envelope, WrongRound(a) \/ Blocked(a) PROVE TurnInv'
    BY <2>4, <2>5 DEF WrongRound, Blocked
  <2>6. CASE TimeOut \/ PassDeadline \/ UNCHANGED vars
    BY <2>4, <2>6 DEF TimeOut, PassDeadline, vars
  <2> QED  BY <2>1, <2>2, <2>3, <2>5, <2>6 DEF Next, Submit
<1>3. IInv /\ TurnInv => TurnsAgree
  <2> SUFFICES ASSUME IInv, TurnInv, Active, ~YieldedEarly
               PROVE  /\ session.expectedTurn = TurnOf(session)
                      /\ StatusTurn = TurnOf(session)
    BY DEF TurnsAgree
  <2>1. offers[Len(offers)].role \in Roles
    <3>1. offers \in Seq(OfferRow) /\ Len(offers) >= 1
      BY DEF IInv, TypeOK
    <3>2. offers[Len(offers)] \in OfferRow
      BY <3>1
    <3> QED  BY <3>2 DEF OfferRow
  <2>2. session.status = "ROUND_LOOP" \/ NoYield
    BY DEF YieldedEarly, NoYield
  <2> QED
    BY <2>1, <2>2, TurnCases DEF TurnInv, StatusTurn, Active, ActiveStates, Other, Roles
<1> QED  BY <1>1, <1>2, <1>3, Invariance, PTL DEF Spec

-------------------------------------------------------------------------------
(* Stalls.                                                                  *)

(* Wherever the table is cut off, a role with a priced row has a latest.    *)
Latests ==
    \A n \in 0 .. Len(offers), r \in Roles :
        PricedRows(r, n) = {} \/ \E i \in 1 .. n : IsLatest(i, r, n)

(* The counter that Redis keeps is the number of small moves at the end of  *)
(* the table.                                                               *)
StallInv ==
    /\ Latests
    /\ session.status \in ActiveStates \cup {"STALLED"} =>
          /\ IsFiniteSet(StalledTail)
          /\ stall = Cardinality(StalledTail)
          /\ session.status = "STALLED" <=> stall >= StallLimit

(* One more row changes nothing in the table before it.                     *)
LEMMA EarlierReadings ==
    ASSUME offers \in Seq(OfferRow), Latests, NEW a \in Envelope,
           offers' = Append(offers, RowOf(a))
    PROVE  /\ \A n \in 0 .. Len(offers), r \in Roles :
                 /\ PricedRows(r, n)' = PricedRows(r, n)
                 /\ LatestPrice(r, n)' = LatestPrice(r, n)
           /\ Latests'
<1>1. PICK len \in Nat : len = Len(offers)
  OBVIOUS
<1>2. /\ Len(offers') = len + 1 /\ offers'[len + 1] = RowOf(a)
      /\ \A i \in 1 .. len : offers'[i] = offers[i]
  BY <1>1, NewRow
<1>3. ASSUME NEW n \in 0 .. len, NEW r \in Roles
      PROVE  /\ PricedRows(r, n)' = PricedRows(r, n)
             /\ \A i : IsLatest(i, r, n)' <=> IsLatest(i, r, n)
             /\ LatestPrice(r, n)' = LatestPrice(r, n)
  <2>1. PricedRows(r, n)' = PricedRows(r, n)
    BY <1>2 DEF PricedRows
  <2>2. \A i : IsLatest(i, r, n)' <=> IsLatest(i, r, n)
    BY <2>1 DEF IsLatest
  <2>3. LatestPrice(r, n)' = LatestPrice(r, n)
    <3>1. CASE PricedRows(r, n) = {}
      BY <2>1, <3>1 DEF LatestPrice
    <3>2. CASE PricedRows(r, n) # {}
      <4>1. PICK i \in 1 .. n : IsLatest(i, r, n)
        BY <1>1, <3>2 DEF Latests
      <4> DEFINE c == CHOOSE j \in 1 .. n : IsLatest(j, r, n)
      <4>2. c \in 1 .. n
        BY <4>1
      <4>3. (CHOOSE j \in 1 .. n : IsLatest(j, r, n))' = c
        BY <2>2
      <4>4. offers'[c] = offers[c]
        BY <1>1, <1>2, <4>2
      <4>5. LatestPrice(r, n) = offers[c].price
        BY <3>2 DEF LatestPrice
      <4>6. LatestPrice(r, n)' = offers'[c].price
        BY <2>1, <3>2, <4>3 DEF LatestPrice
      <4> QED  BY <4>4, <4>5, <4>6
    <3> QED  BY <3>1, <3>2
  <2> QED  BY <2>1, <2>2, <2>3
<1>4. ASSUME NEW r \in Roles
      PROVE  PricedRows(r, len + 1)' = {} \/ \E i \in 1 .. len + 1 : IsLatest(i, r, len + 1)'
  <2>1. PricedRows(r, len + 1)' = IF a.role = r /\ a.price # NoOffer
                                  THEN PricedRows(r, len) \cup {len + 1} ELSE PricedRows(r, len)
    BY <1>2, EnvelopeFacts DEF PricedRows
  <2>2. CASE a.role = r /\ a.price # NoOffer
    <3>1. len + 1 \in 1 .. len + 1 /\ IsLatest(len + 1, r, len + 1)'
      BY <1>1, <2>1, <2>2 DEF IsLatest, PricedRows
    <3> QED  BY <3>1
  <2>3. CASE ~(a.role = r /\ a.price # NoOffer) /\ PricedRows(r, len) # {}
    <3>1. PICK i \in 1 .. len : IsLatest(i, r, len)
      BY <1>1, <2>3 DEF Latests
    <3>2. PricedRows(r, len + 1)' = PricedRows(r, len)
      BY <2>1, <2>3
    <3>3. IsLatest(i, r, len + 1)'
      BY <3>1, <3>2 DEF IsLatest
    <3>4. i \in 1 .. len + 1
      BY <1>1
    <3> QED  BY <3>3, <3>4
  <2> QED  BY <2>1, <2>2, <2>3
<1>5. Latests'
  <2> SUFFICES ASSUME NEW n \in 0 .. len + 1, NEW r \in Roles
               PROVE  PricedRows(r, n)' = {} \/ \E i \in 1 .. n : IsLatest(i, r, n)'
    BY <1>2 DEF Latests
  <2>1. CASE n = len + 1
    BY <1>4, <2>1
  <2>2. CASE n \in 0 .. len
    BY <1>1, <1>3, <2>2 DEF Latests
  <2> QED  BY <2>1, <2>2
<1> QED  BY <1>1, <1>3, <1>5

(* Whether a new counter row is one the stall rule compares.                *)
NewJudged(a) ==
    a.kind = "counter" /\ a.price # NoOffer /\ session.lastOffer[a.role] # NoOffer

(* A compared counter that moves too little lengthens the tail, one that    *)
(* really moves cuts it off, every other row leaves it.                     *)
LEMMA TailStep ==
    ASSUME IInv, Latests, NEW a \in Envelope, offers' = Append(offers, RowOf(a))
    PROVE  /\ Len(offers) + 1 \notin StalledTail
           /\ ~NewJudged(a) => StalledTail' = StalledTail
           /\ NewJudged(a) /\ SmallMove(a.price, session.lastOffer[a.role]) =>
                 StalledTail' = StalledTail \cup {Len(offers) + 1}
           /\ NewJudged(a) /\ ~SmallMove(a.price, session.lastOffer[a.role]) => StalledTail' = {}
<1>1. PICK len \in Nat : len = Len(offers)
  BY DEF IInv, TypeOK
<1>2. offers \in Seq(OfferRow) /\ DOMAIN offers = 1 .. len
  BY <1>1 DEF IInv, TypeOK
<1>3. /\ DOMAIN offers' = 1 .. len + 1 /\ offers'[len + 1] = RowOf(a)
      /\ \A i \in 1 .. len : offers'[i] = offers[i]
  BY <1>1, <1>2, NewRow
<1>4. /\ a.role \in Roles
      /\ RowOf(a).role = a.role /\ RowOf(a).kind = a.kind /\ RowOf(a).price = a.price
  BY EnvelopeFacts
<1>5. \A n \in 0 .. len, r \in Roles : LatestPrice(r, n)' = LatestPrice(r, n)
  BY <1>1, <1>2, EarlierReadings
<1>6. LatestPrice(a.role, len)' = session.lastOffer[a.role]
  BY <1>1, <1>4, <1>5, LatestPriceIs DEF IInv, LastOffersRead
<1>7. \A i \in 1 .. len : offers[i].role \in Roles /\ i - 1 \in 0 .. len
  <2>1. \A i \in 1 .. len : offers[i] \in OfferRow
    BY <1>1, <1>2
  <2> QED  BY <1>1, <2>1 DEF OfferRow
<1>8. \A i \in 1 .. len : LatestPrice(offers[i].role, i - 1)' = LatestPrice(offers[i].role, i - 1)
  BY <1>3, <1>5, <1>7
<1>9. JudgedRows \subseteq 1 .. len
  BY <1>2 DEF JudgedRows, CounterRows
<1>10. \A i \in 1 .. len : i \in JudgedRows' <=> i \in JudgedRows
  BY <1>2, <1>3, <1>8 DEF JudgedRows, CounterRows
<1>11. len + 1 \in JudgedRows' <=> NewJudged(a)
  BY <1>3, <1>4, <1>6 DEF JudgedRows, CounterRows, NewJudged
<1>12. JudgedRows' = IF NewJudged(a) THEN JudgedRows \cup {len + 1} ELSE JudgedRows
  <2>1. JudgedRows' \subseteq 1 .. len + 1
    BY <1>3 DEF JudgedRows, CounterRows
  <2>2. \A i \in 1 .. len + 1 : i \in 1 .. len \/ i = len + 1
    BY <1>1
  <2>3. len + 1 \notin 1 .. len
    BY <1>1
  <2>4. CASE NewJudged(a)
    <3>1. \A i : i \in JudgedRows' <=> i \in JudgedRows \cup {len + 1}
      BY ONLY <1>9, <1>10, <1>11, <2>1, <2>2, <2>3, <2>4
    <3> QED  BY <2>4, <3>1
  <2>5. CASE ~NewJudged(a)
    <3>1. \A i : i \in JudgedRows' <=> i \in JudgedRows
      BY ONLY <1>9, <1>10, <1>11, <2>1, <2>2, <2>3, <2>5
    <3> QED  BY <2>5, <3>1
  <2> QED  BY <2>4, <2>5
<1>13. \A i \in 1 .. len : StalledRow(i)' <=> StalledRow(i)
  BY <1>3, <1>8 DEF StalledRow
<1>14. StalledRow(len + 1)' <=> SmallMove(a.price, session.lastOffer[a.role])
  BY <1>3, <1>4, <1>6 DEF StalledRow
<1>15. len + 1 \notin StalledTail
  BY <1>9 DEF StalledTail
<1>16. CASE ~NewJudged(a)
  <2>1. JudgedRows' = JudgedRows
    BY <1>12, <1>16
  <2>2. StalledTail' = StalledTail
    BY <1>9, <1>13, <2>1 DEF StalledTail
  <2> QED  BY <1>1, <1>15, <1>16, <2>2
<1>17. CASE NewJudged(a)
  <2>1. JudgedRows' = JudgedRows \cup {len + 1}
    BY <1>12, <1>17
  <2>2. CASE SmallMove(a.price, session.lastOffer[a.role])
    <3>1. StalledTail' = StalledTail \cup {len + 1}
      BY <1>9, <1>13, <1>14, <2>1, <2>2 DEF StalledTail
    <3> QED  BY <1>1, <1>15, <1>17, <2>2, <3>1
  <2>3. CASE ~SmallMove(a.price, session.lastOffer[a.role])
    <3>1. \A i \in JudgedRows' : len + 1 >= i
      BY <1>1, <1>9, <2>1
    <3>2. len + 1 \in JudgedRows' /\ ~StalledRow(len + 1)'
      BY <1>14, <2>1, <2>3
    <3>3. StalledTail' = {}
      BY <3>1, <3>2 DEF StalledTail
    <3> QED  BY <1>1, <1>15, <1>17, <2>3, <3>3
  <2> QED  BY <2>2, <2>3
<1> QED  BY <1>16, <1>17

(* A counter keeps the Redis counter and the tail in step.                  *)
LEMMA CounterKeepsStall ==
    ASSUME IInv, StallInv, NEW a \in Envelope, Counter(a)
    PROVE  StallInv'
<1>1. PICK n : n = stall'
  OBVIOUS
<1>2. /\ Active /\ a.kind = "counter" /\ offers' = Append(offers, RowOf(a))
      /\ n = StallCount(session, a, stall) /\ session'.status = CounterStatus(session, a, n)
  BY <1>1, MovedFields DEF Counter, Record, Cleared, Admitted
<1>3. offers \in Seq(OfferRow) /\ Latests
  BY DEF IInv, TypeOK, StallInv
<1>4. Latests'
  BY <1>2, <1>3, EarlierReadings
<1>5. /\ IsFiniteSet(StalledTail) /\ stall = Cardinality(StalledTail)
      /\ Cardinality(StalledTail) \in Nat /\ stall < StallLimit /\ stall \in Nat
  BY <1>2, FS_CardinalityType DEF StallInv, Active, ActiveStates, StallLimit
<1>6. CASE OverLimit(session)
  BY <1>2, <1>4, <1>6, CounterCases DEF StallInv, ActiveStates
<1>7. CASE ~OverLimit(session)
  <2>1. StallChecked(session, a) <=> NewJudged(a)
    BY <1>2, <1>7 DEF StallChecked, NewJudged
  <2>2. IsFiniteSet(StalledTail)' /\ n = Cardinality(StalledTail')
    <3>1. CASE ~NewJudged(a)
      BY <1>2, <1>3, <1>5, <2>1, <3>1, TailStep DEF StallCount
    <3>2. CASE NewJudged(a) /\ ~SmallMove(a.price, session.lastOffer[a.role])
      <4>1. StalledTail' = {} /\ n = 0
        BY <1>2, <1>3, <2>1, <3>2, TailStep DEF StallCount
      <4> QED  BY <4>1, FS_EmptySet
    <3>3. CASE NewJudged(a) /\ SmallMove(a.price, session.lastOffer[a.role])
      <4>1. /\ StalledTail' = StalledTail \cup {Len(offers) + 1}
            /\ Len(offers) + 1 \notin StalledTail
            /\ n = stall + 1
        BY <1>2, <1>3, <2>1, <3>3, TailStep DEF StallCount
      <4> QED  BY <1>5, <4>1, FS_AddElement
    <3> QED  BY <3>1, <3>2, <3>3
  <2>3. session'.status = "STALLED" <=> n >= StallLimit
    <3>1. Stalls(session, a, n) => n >= StallLimit
      BY DEF Stalls
    <3>2. n >= StallLimit => StallChecked(session, a)
      BY <1>2, <1>5 DEF StallCount, StallLimit
    <3>3. Stalls(session, a, n) <=> n >= StallLimit
      BY <3>1, <3>2 DEF Stalls
    <3> QED  BY <1>2, <1>7, <3>3, CounterCases
  <2> QED  BY <1>1, <1>4, <2>2, <2>3 DEF StallInv
<1> QED  BY <1>6, <1>7

(* StalledIsThreeSmallMoves, for every price set, limit, round budget and   *)
(* bound: what update_stall_counter counts in Redis is what the offers show.*)
THEOREM StalledMeansStalled == Spec => []StalledIsThreeSmallMoves
<1>1. Init => StallInv
  <2> SUFFICES ASSUME Init PROVE StallInv
    OBVIOUS
  <2>1. /\ Len(offers) = 1 /\ offers[1].role = "buyer" /\ DOMAIN offers = {1}
        /\ session.status = "BUYER_ANCHOR" /\ stall = 0
    BY DEF Init, Opened
  <2>2. \A r \in Roles : PricedRows(r, 0) = {}
    BY DEF PricedRows
  <2>3. LatestPrice("buyer", 0) = NoOffer
    BY <2>2, RoleFacts DEF LatestPrice
  <2>4. StalledTail = {}
    BY <2>1, <2>3 DEF StalledTail, JudgedRows, CounterRows
  <2>5. Latests
    <3> SUFFICES ASSUME NEW n \in 0 .. 1, NEW r \in Roles
                 PROVE  PricedRows(r, n) = {} \/ \E i \in 1 .. n : IsLatest(i, r, n)
      BY <2>1 DEF Latests
    <3>1. CASE n = 0
      BY <2>2, <3>1
    <3>2. CASE n = 1
      <4>1. PricedRows(r, 1) \subseteq {1}
        BY DEF PricedRows
      <4> QED  BY <3>2, <4>1 DEF IsLatest
    <3> QED  BY <3>1, <3>2
  <2> QED
    BY <2>1, <2>4, <2>5, FS_EmptySet DEF StallInv, StallLimit
<1>2. IInv /\ StallInv /\ [Next]_vars => StallInv'
  <2> SUFFICES ASSUME IInv, StallInv, [Next]_vars PROVE StallInv'
    OBVIOUS
  <2>0. session \in SessionRecord /\ offers \in Seq(OfferRow) /\ Latests
    BY DEF IInv, TypeOK, StallInv
  <2>1. ASSUME NEW a \in Envelope, Accept(a) \/ Reject(a) PROVE StallInv'
    <3>1. /\ offers' = Append(offers, RowOf(a)) /\ session'.status \in {"AGREED", "WALKAWAY"}
      BY <2>1, MovedFields DEF Accept, Reject, Record
    <3>2. Latests'
      BY <2>0, <3>1, EarlierReadings
    <3> QED  BY <3>1, <3>2 DEF StallInv, ActiveStates
  <2>2. ASSUME NEW a \in Envelope, Yield(a) PROVE StallInv'
    <3>1. /\ offers' = Append(offers, RowOf(a)) /\ session'.status = session.status
          /\ stall' = stall /\ ~NewJudged(a)
      BY <2>2, MovedFields DEF Yield, Record, NewJudged
    <3>2. Latests'
      BY <2>0, <3>1, EarlierReadings
    <3>3. StalledTail' = StalledTail
      BY <2>0, <3>1, TailStep
    <3> QED  BY <3>1, <3>2, <3>3 DEF StallInv
  <2>3. ASSUME UNCHANGED <<offers, stall>>,
               \/ session' = session
               \/ session' \in {Ended(session, "TIMEOUT"), Ended(session, "POLICY_BREACH")}
        PROVE  StallInv'
    <3>1. session' = session \/ session'.status \in {"TIMEOUT", "POLICY_BREACH"}
      BY <2>0, <2>3 DEF Ended, SessionRecord
    <3>2. Latests' /\ StalledTail' = StalledTail
      BY <2>0, <2>3 DEF Latests, PricedRows, IsLatest, StalledTail, JudgedRows, CounterRows,
                        StalledRow, LatestPrice
    <3> QED  BY <2>3, <3>1, <3>2 DEF StallInv, ActiveStates
  <2>4. ASSUME NEW a \in Envelope, WrongRound(a) \/ Blocked(a) PROVE StallInv'
    BY <2>3, <2>4 DEF WrongRound, Blocked
  <2>5. CASE TimeOut \/ PassDeadline \/ UNCHANGED vars
    BY <2>3, <2>5 DEF TimeOut, PassDeadline, vars
  <2> QED  BY <2>1, <2>2, <2>4, <2>5, CounterKeepsStall DEF Next, Submit
<1>3. StallInv => StalledIsThreeSmallMoves
  BY DEF StallInv, StalledIsThreeSmallMoves
<1> QED  BY <1>1, <1>2, <1>3, Invariance, PTL DEF Spec
===============================================================================
