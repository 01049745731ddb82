--------------------------- MODULE VerticalProofs ---------------------------
(***************************************************************************)
(* The verticals proved for any tasks, engines, panels and artifacts: a    *)
(* panel cannot accept two numbers that all its referees tell apart, the   *)
(* off-chain market sells what was certified, the private oracle answers   *)
(* within the budgets and is certified to the point, and winners hold up.  *)
(***************************************************************************)
EXTENDS ResearchSearch, RescorePanel, ArtifactSales, TallyProofs

(* The larger of two numbers, and the smaller. *)
LEMMA MaxOfTwo ==
  ASSUME NEW a \in Int, NEW b \in Int
  PROVE  /\ Max({a, b}) \in {a, b}
         /\ Max({a, b}) >= a /\ Max({a, b}) >= b
<1>1. \E x \in {a, b} : \A y \in {a, b} : x >= y
  <2>1. CASE a >= b
    BY <2>1
  <2>2. CASE b >= a
    BY <2>2
  <2>3. QED
    BY <2>1, <2>2
<1>2. QED
  BY <1>1 DEF Max

LEMMA MinOfTwo ==
  ASSUME NEW a \in Int, NEW b \in Int
  PROVE  /\ Min({a, b}) \in {a, b}
         /\ Min({a, b}) <= a /\ Min({a, b}) <= b
<1>1. \E x \in {a, b} : \A y \in {a, b} : x <= y
  <2>1. CASE a <= b
    BY <2>1
  <2>2. CASE b <= a
    BY <2>2
  <2>3. QED
    BY <2>1, <2>2
<1>2. QED
  BY <1>1 DEF Min

-----------------------------------------------------------------------------
(* 1. The panel. A claim that has been accepted had a quorum for it. *)
PanelInv ==
  /\ panel \in [Referees -> Intervals]
  /\ quorum \in 1..PanelSize
  /\ \A c \in accepted : Cardinality(Accepting(c)) >= quorum

(* Two sets of referees of at least the majority quorum have one in common. *)
LEMMA MajoritiesMeet ==
  ASSUME NEW S \in SUBSET Referees, NEW T \in SUBSET Referees,
         quorum \in 1..PanelSize, quorum >= MajorityQuorum,
         Cardinality(S) >= quorum, Cardinality(T) >= quorum
  PROVE  S \cap T # {}
<1>1. IsFiniteSet(S) /\ IsFiniteSet(T) /\ IsFiniteSet(Referees)
  BY PanelAssumption, FS_Subset
<1>2. Cardinality(S) \in Nat /\ Cardinality(T) \in Nat /\ Cardinality(Referees) \in Nat
  BY <1>1, FS_CardinalityType
<1>3. Cardinality(S) + Cardinality(T) > Cardinality(Referees)
  BY <1>2 DEF MajorityQuorum, PanelSize
<1>4. QED
  BY <1>1, <1>3, FS_MajoritiesIntersect

(* RescorePanel: two claims that a panel with a majority quorum has accepted
   are in the interval of one referee, and so are such a claim and a consensus
   its referees agree on. *)
THEOREM PanelCorroborates == PanelSpec => []PanelsCorroborate
<1>1. PanelInit => PanelInv
  BY DEF PanelInit, PanelInv
<1>2. PanelInv /\ [PanelNext]_panelVars => PanelInv'
  <2>. SUFFICES ASSUME PanelInv, [PanelNext]_panelVars
                PROVE  PanelInv'
    OBVIOUS
  <2>1. panel' = panel /\ quorum' = quorum
    BY DEF PanelNext, JudgeClaim, panelVars
  <2>2. \A c \in accepted' : c \in accepted \/ Cardinality(Accepting(c)) >= quorum
    BY DEF PanelNext, JudgeClaim, panelVars
  <2>3. \A c : Accepting(c)' = Accepting(c)
    BY <2>1 DEF Accepting, Accepts
  <2>4. QED
    BY <2>1, <2>2, <2>3 DEF PanelInv, PanelSize
<1>3. PanelInv => PanelsCorroborate
  <2>. SUFFICES ASSUME PanelInv, quorum >= MajorityQuorum
                PROVE  /\ \A c, d \in accepted : \E r \in Referees : Accepts(r, c) /\ Accepts(r, d)
                       /\ Cardinality(Agreeing) >= quorum =>
                            \A c \in accepted : \E r \in Agreeing : Accepts(r, c)
    BY DEF PanelsCorroborate
  <2>1. \A c : Accepting(c) \in SUBSET Referees
    BY DEF Accepting
  <2>2. Agreeing \in SUBSET Referees
    BY DEF Agreeing
  <2>3. ASSUME NEW c \in accepted, NEW d \in accepted
        PROVE  \E r \in Referees : Accepts(r, c) /\ Accepts(r, d)
    <3>1. Accepting(c) \cap Accepting(d) # {}
      BY <2>1, MajoritiesMeet DEF PanelInv
    <3>2. QED
      BY <3>1 DEF Accepting
  <2>4. ASSUME NEW c \in accepted, Cardinality(Agreeing) >= quorum
        PROVE  \E r \in Agreeing : Accepts(r, c)
    <3>1. Agreeing \cap Accepting(c) # {}
      BY <2>1, <2>2, <2>4, MajoritiesMeet DEF PanelInv
    <3>2. QED
      BY <3>1 DEF Accepting
  <2>5. QED
    BY <2>3, <2>4
<1>4. QED
  BY <1>1, <1>2, <1>3, PTL DEF PanelSpec

-----------------------------------------------------------------------------
(* 2. The off-chain market. *)

(* What a listing on the market is: certified, priced, and honest about the
   gate. *)
Vouched(listing) ==
  /\ ~IsNaN(listing.lift)
  /\ listing.price > 0
  /\ [artifact |-> listing.artifact, provenance |-> listing.provenance,
      lift |-> listing.lift] \in Attestations
  /\ Clears(SaleGate, listing.lift) \/ listing.subGate

Sale ==
  [listing : Nat, buyer : Buyers, artifact : STRING, provenance : STRING,
   lift : Lift, price : Nat]

(* A sale is of a listing, marked as sold, and on the listing's terms. *)
Honoured(sale, offers, marks) ==
  /\ sale.listing \in DOMAIN offers
  /\ marks[sale.listing]
  /\ sale.artifact = offers[sale.listing].artifact
  /\ sale.provenance = offers[sale.listing].provenance
  /\ sale.lift = offers[sale.listing].lift
  /\ sale.price = offers[sale.listing].price

SalesInv ==
  /\ listings \in Seq(ArtifactListing)
  /\ sold \in Seq(BOOLEAN) /\ Len(sold) = Len(listings)
  /\ sales \in Seq(Sale)
  /\ \A k \in DOMAIN listings : Vouched(listings[k])
  /\ \A i \in DOMAIN sales : Honoured(sales[i], listings, sold)
  /\ \A i, j \in DOMAIN sales :
       sales[i].listing = sales[j].listing /\ listings[sales[i].listing].exclusive => i = j

(* "Monotone non-decreasing in the certified lift": what price_by_lift suggests
   for a stronger artifact is never less. What a seller asks is his own. *)
THEOREM PriceGrows ==
  ASSUME NEW l \in Lift, NEW m \in Lift, l.finite, m.finite, l.delta <= m.delta
  PROVE  PriceByLift(l) <= PriceByLift(m)
<1>. DEFINE a == IF l.delta > 0 THEN l.delta \div 2 ELSE 0
            b == IF m.delta > 0 THEN m.delta \div 2 ELSE 0
<1>1. BaseFee \in Nat /\ LiftRate \in Nat /\ MaxWei \in Nat
  BY SalesAssumption, MaxWeiAssumption
<1>2. l.delta \in Int /\ m.delta \in Int
  BY DEF Lift
<1>3. a \in Nat /\ b \in Nat /\ a <= b
  BY <1>2
<1>4. /\ PriceByLift(l) = SaturatingAdd(BaseFee, SaturatingMul(a, LiftRate))
      /\ PriceByLift(m) = SaturatingAdd(BaseFee, SaturatingMul(b, LiftRate))
  BY DEF PriceByLift
<1>. HIDE DEF a, b
<1>5. PICK d \in Nat : b = a + d
  <2>1. b - a \in Nat /\ b = a + (b - a)
    BY <1>3
  <2>2. QED
    BY <2>1
<1>6. a * LiftRate \in Nat /\ d * LiftRate \in Nat
  BY <1>1, <1>3
<1>7. b * LiftRate = a * LiftRate + d * LiftRate
  BY <1>1, <1>3, <1>5
<1>8. SaturatingMul(a, LiftRate) \in Nat /\ SaturatingMul(b, LiftRate) \in Nat
  BY <1>1, <1>6, <1>7 DEF SaturatingMul
<1>9. SaturatingMul(a, LiftRate) <= SaturatingMul(b, LiftRate)
  BY <1>1, <1>6, <1>7 DEF SaturatingMul
<1>10. QED
  BY <1>1, <1>4, <1>8, <1>9 DEF SaturatingAdd

(* A price is a number of wei. *)
LEMMA PriceType ==
  ASSUME NEW l \in Lift
  PROVE  PriceByLift(l) \in Nat
<1>. DEFINE a == IF l.finite /\ l.delta > 0 THEN l.delta \div 2 ELSE 0
<1>1. BaseFee \in Nat /\ LiftRate \in Nat /\ MaxWei \in Nat
  BY SalesAssumption, MaxWeiAssumption
<1>2. a \in Nat
  BY DEF Lift
<1>3. PriceByLift(l) = SaturatingAdd(BaseFee, SaturatingMul(a, LiftRate))
  BY DEF PriceByLift
<1>. HIDE DEF a
<1>4. a * LiftRate \in Nat
  BY <1>1, <1>2
<1>5. SaturatingMul(a, LiftRate) \in Nat
  BY <1>1, <1>4 DEF SaturatingMul
<1>6. QED
  BY <1>1, <1>3, <1>5 DEF SaturatingAdd

(* Marketplace::list: what a seller offers at any price, and is let in, is
   vouched for. *)
LEMMA ListingVouched ==
  ASSUME NEW claim \in Claims, NEW attestation \in Attestations,
         NEW exclusive \in BOOLEAN, NEW consented \in BOOLEAN, NEW subGate \in BOOLEAN,
         NEW price \in AskedPrices \cup {PriceByLift(claim.lift)},
         Listable(Offered(claim, price, exclusive, consented, subGate), attestation)
  PROVE  /\ Offered(claim, price, exclusive, consented, subGate) \in ArtifactListing
         /\ Vouched(Offered(claim, price, exclusive, consented, subGate))
<1>1. /\ claim \in [artifact : STRING, provenance : STRING, lift : Lift]
      /\ claim.lift \in Lift
  BY SalesAssumption
<1>2. /\ claim.artifact = attestation.artifact
      /\ claim.provenance = attestation.provenance
      /\ claim.lift = attestation.lift /\ ~IsNaN(claim.lift)
      /\ price > 0
      /\ Clears(SaleGate, claim.lift) \/ subGate
  BY DEF Listable, Matches, Offered
<1>3. attestation \in [artifact : STRING, provenance : STRING, lift : Lift]
  BY SalesAssumption DEF CertifiedAttestation
<1>4. attestation = [artifact |-> claim.artifact, provenance |-> claim.provenance,
                     lift |-> claim.lift]
  BY <1>2, <1>3
<1>5. price \in Nat
  BY <1>1, PriceType, SalesAssumption, MaxWeiAssumption
<1>6. QED
  BY <1>1, <1>2, <1>4, <1>5 DEF Vouched, Offered, ArtifactListing

LEMMA ListStep ==
  ASSUME SalesInv, NEW listing \in ArtifactListing, NEW attestation,
         List(listing, attestation), Vouched(listing)
  PROVE  SalesInv'
<1>. USE DEF SalesInv
<1>1. /\ listings' = Append(listings, listing)
      /\ sold' = Append(sold, FALSE)
      /\ sales' = sales
  BY DEF List
<1>2. /\ listings' \in Seq(ArtifactListing) /\ Len(listings') = Len(listings) + 1
      /\ sold' \in Seq(BOOLEAN) /\ Len(sold') = Len(sold) + 1
  BY <1>1
<1>3. /\ listings'[Len(listings) + 1] = listing
      /\ \A k \in DOMAIN listings : k \in DOMAIN listings' /\ listings'[k] = listings[k]
      /\ \A k \in DOMAIN listings : sold'[k] = sold[k]
      /\ DOMAIN listings' = DOMAIN listings \cup {Len(listings) + 1}
  BY <1>1
<1>4. \A k \in DOMAIN listings' : Vouched(listings'[k])
  BY <1>3
<1>5. ASSUME NEW sale, Honoured(sale, listings, sold)
      PROVE  Honoured(sale, listings', sold')
  BY <1>3, <1>5 DEF Honoured
<1>6. \A i \in DOMAIN sales : Honoured(sales[i], listings', sold')
  BY <1>5
<1>7. \A i \in DOMAIN sales : listings'[sales[i].listing] = listings[sales[i].listing]
  BY <1>3 DEF Honoured
<1>8. QED
  BY <1>1, <1>2, <1>4, <1>6, <1>7

LEMMA BuyStep ==
  ASSUME SalesInv, NEW id \in DOMAIN listings, NEW buyer \in Buyers, Buy(id, buyer)
  PROVE  SalesInv'
<1>. USE DEF SalesInv
<1>. DEFINE sale == [listing |-> id, buyer |-> buyer,
                     artifact |-> listings[id].artifact,
                     provenance |-> listings[id].provenance,
                     lift |-> listings[id].lift, price |-> listings[id].price]
            n == Len(sales) + 1
<1>1. /\ ~(listings[id].exclusive /\ sold[id])
      /\ sold' = [sold EXCEPT ![id] = TRUE]
      /\ sales' = Append(sales, sale)
      /\ listings' = listings
  BY DEF Buy
<1>2. listings[id] \in ArtifactListing /\ id \in Nat
  OBVIOUS
<1>3. sale \in Sale
  BY <1>2 DEF Sale, ArtifactListing
<1>4. /\ sale.listing = id
      /\ sale.artifact = listings[id].artifact
      /\ sale.provenance = listings[id].provenance
      /\ sale.lift = listings[id].lift /\ sale.price = listings[id].price
  OBVIOUS
<1>. HIDE DEF sale
<1>5. /\ sales' \in Seq(Sale)
      /\ DOMAIN sales' = DOMAIN sales \cup {n}
      /\ n \notin DOMAIN sales
      /\ sales'[n] = sale
      /\ \A i \in DOMAIN sales : sales'[i] = sales[i]
  BY <1>1, <1>3
<1>6. /\ sold' \in Seq(BOOLEAN) /\ Len(sold') = Len(sold)
      /\ sold'[id]
      /\ \A k \in DOMAIN listings : sold[k] => sold'[k]
  BY <1>1
<1>7. \A i \in DOMAIN sales : Honoured(sales[i], listings', sold')
  BY <1>1, <1>6 DEF Honoured
<1>8. Honoured(sale, listings', sold')
  BY <1>1, <1>4, <1>6 DEF Honoured
<1>9. \A i \in DOMAIN sales' : Honoured(sales'[i], listings', sold')
  BY <1>5, <1>7, <1>8
<1>10. \A i \in DOMAIN sales : sales[i].listing = id => ~listings[id].exclusive
  BY <1>1 DEF Honoured
<1>11. \A i, j \in DOMAIN sales' :
         sales'[i].listing = sales'[j].listing /\ listings'[sales'[i].listing].exclusive => i = j
  BY <1>1, <1>4, <1>5, <1>10
<1>12. QED
  BY <1>1, <1>5, <1>6, <1>9, <1>11

(* Marketplace: whoever buys, at whatever price, gets what a referee certified,
   knows if it is below the gate, and is the only buyer of a listing that is
   exclusive. *)
THEOREM SellsAsCertified == SalesSpec => []SoldAsCertified
<1>1. SalesInit => SalesInv
  BY DEF SalesInit, SalesInv
<1>2. SalesInv /\ [SalesNext]_salesVars => SalesInv'
  <2>. SUFFICES ASSUME SalesInv, [SalesNext]_salesVars
                PROVE  SalesInv'
    OBVIOUS
  <2>1. ASSUME NEW claim \in Claims, NEW attestation \in Attestations,
               NEW exclusive \in BOOLEAN, NEW consented \in BOOLEAN, NEW subGate \in BOOLEAN,
               NEW price \in AskedPrices \cup {PriceByLift(claim.lift)},
               List(Offered(claim, price, exclusive, consented, subGate), attestation)
        PROVE  SalesInv'
    <3>. DEFINE listing == Offered(claim, price, exclusive, consented, subGate)
    <3>1. listing \in ArtifactListing /\ Vouched(listing)
      BY <2>1, ListingVouched DEF List
    <3>. HIDE DEF listing
    <3>2. List(listing, attestation)
      BY <2>1 DEF listing
    <3>3. QED
      BY <3>1, <3>2, ListStep
  <2>2. CASE UNCHANGED salesVars
    BY <2>2 DEF SalesInv, salesVars, Honoured
  <2>3. QED
    BY <2>1, <2>2, BuyStep DEF SalesNext
<1>3. SalesInv => SoldAsCertified
  <2>. SUFFICES ASSUME SalesInv PROVE SoldAsCertified
    OBVIOUS
  <2>. USE DEF SalesInv
  <2>1. ASSUME NEW i \in DOMAIN sales
        PROVE  Honoured(sales[i], listings, sold) /\ Vouched(listings[sales[i].listing])
    <3>1. Honoured(sales[i], listings, sold)
      OBVIOUS
    <3>2. Vouched(listings[sales[i].listing])
      BY <3>1 DEF Honoured
    <3>3. QED
      BY <3>1, <3>2
  <2>2. ASSUME NEW i \in DOMAIN sales
        PROVE  LET s == sales[i]
                   listing == listings[s.listing]
               IN  /\ ~IsNaN(s.lift) /\ s.price > 0
                   /\ [artifact |-> s.artifact, provenance |-> s.provenance, lift |-> s.lift]
                        \in Attestations
                   /\ Clears(SaleGate, s.lift) \/ listing.subGate
                   /\ listing.exclusive =>
                        \A j \in DOMAIN sales : sales[j].listing = s.listing => j = i
    <3>1. \A j \in DOMAIN sales :
            sales[i].listing = sales[j].listing /\ listings[sales[i].listing].exclusive => i = j
      OBVIOUS
    <3>2. QED
      BY <2>1, <3>1 DEF Honoured, Vouched
  <2>3. QED
    BY <2>2 DEF SoldAsCertified
<1>4. QED
  BY <1>1, <1>2, <1>3, PTL DEF SalesSpec

-----------------------------------------------------------------------------
(* 3. The search. Where it stands, and what its queries have been counted to. *)
SearchTypes ==
  /\ task \in Tasks
  /\ squad \in Squads
  /\ \A i \in DOMAIN squad : Fits(task, squad[i])
  /\ turn \in 1..(Len(squad) + 1)
  /\ step \in {"start", "search", "produced"}
  /\ best \in task.reach
  /\ spent \in Nat
  /\ used \in Nat
  /\ answered \in [1..Len(squad) -> Nat]

(* The queries an engine may put: its budget, and the one it starts with. *)
Allowance(engine) == Max({engine.budget, 1})

(* The engines to come have asked nothing, and the one at work what it says it
   has spent. *)
BudgetInv ==
  /\ task.limit # Unlimited => used = Tally(answered) /\ used <= task.limit
  /\ \A i \in 1..Len(squad) :
       /\ answered[i] <= Allowance(squad[i])
       /\ i > turn => answered[i] = 0
       /\ i = turn => answered[i] = IF squad[i].kind = "BlackBox" THEN spent ELSE 0
  /\ turn <= Len(squad) /\ step = "start" => spent = 0

LEMMA SquadShape ==
  ASSUME SearchTypes
  PROVE  /\ Len(squad) \in Nat
         /\ DOMAIN squad = 1..Len(squad)
         /\ \A i \in 1..Len(squad) :
              /\ squad[i].kind \in EngineKinds
              /\ squad[i].budget \in Nat
              /\ Allowance(squad[i]) \in Nat
              /\ Allowance(squad[i]) >= squad[i].budget
              /\ Allowance(squad[i]) >= 1
         /\ task.limit \in Nat \cup {Unlimited}
<1>. DEFINE Engines == [kind : EngineKinds, budget : Nat]
<1>1. squad \in Seq(Engines)
  BY TaskAssumption DEF SearchTypes
<1>2. \A i \in 1..Len(squad) : squad[i] \in Engines
  BY ONLY <1>1, ElementOfSeq
<1>3. ASSUME NEW i \in 1..Len(squad)
      PROVE  /\ Allowance(squad[i]) \in Nat
             /\ Allowance(squad[i]) >= squad[i].budget
             /\ Allowance(squad[i]) >= 1
  <2>1. squad[i].budget \in Nat
    BY <1>2
  <2>. DEFINE b == squad[i].budget
              m == Max({b, 1})
  <2>2. b \in Int /\ 1 \in Int
    BY <2>1
  <2>. HIDE DEF b
  <2>3. m \in {b, 1} /\ m >= b /\ m >= 1
    BY ONLY <2>2, MaxOfTwo
  <2>. HIDE DEF m
  <2>4. m \in Nat /\ m >= squad[i].budget /\ m >= 1
    BY <2>1, <2>3 DEF b
  <2>5. QED
    BY <2>4 DEF Allowance, m, b
<1>4. task.limit \in Nat \cup {Unlimited}
  BY TaskAssumption DEF SearchTypes
<1>5. QED
  BY <1>1, <1>2, <1>3, <1>4

(* A search stays among the artifacts it can get to. *)
LEMMA TypesStep ==
  ASSUME SearchTypes, [SearchNext]_searchVars
  PROVE  SearchTypes'
<1>. USE DEF SearchTypes
<1>1. /\ Len(squad) \in Nat
      /\ task.start \in task.reach
  BY SquadShape, TaskAssumption
<1>2. ASSUME Query, turn <= Len(squad)
      PROVE  used' \in Nat /\ answered' \in [1..Len(squad) -> Nat]
  BY <1>1, <1>2 DEF Query
<1>3. CASE StartOracleSearch
  BY <1>1, <1>2, <1>3 DEF StartOracleSearch, AtWork, Produce
<1>4. CASE StartLocalSearch
  BY <1>4 DEF StartLocalSearch, AtWork
<1>5. ASSUME NEW candidate \in task.reach, Propose(candidate)
      PROVE  SearchTypes'
  <2>1. best' \in task.reach
    BY <1>5 DEF Propose, Keep
  <2>2. used' \in Nat /\ answered' \in [1..Len(squad) -> Nat]
    BY <1>2, <1>5 DEF Propose, AtWork
  <2>3. QED
    BY <1>1, <1>5, <2>1, <2>2 DEF Propose, AtWork
<1>6. CASE EndSearch
  BY <1>6 DEF EndSearch, Produce, AtWork
<1>7. ASSUME NEW candidate \in task.reach, Submit(candidate)
      PROVE  SearchTypes'
  BY <1>7 DEF Submit, Produce, AtWork
<1>8. CASE FailRun
  BY <1>1, <1>8 DEF FailRun, AtWork
<1>9. ASSUME NEW error, NEW other, Certify(error, other)
      PROVE  SearchTypes'
  <2>1. /\ turn' = turn + 1 /\ step' = "start" /\ best' = task.start /\ spent' = 0
        /\ UNCHANGED <<task, squad, answered, used>>
        /\ turn <= Len(squad)
    BY <1>9 DEF Certify, AtWork
  <2>2. QED
    BY <1>1, <2>1
<1>10. CASE UNCHANGED searchVars
  BY <1>10 DEF searchVars
<1>11. QED
  BY <1>3, <1>4, <1>5, <1>6, <1>7, <1>8, <1>9, <1>10 DEF SearchNext

(* A query is counted once by the oracle and once for its engine. *)
LEMMA QueryCounts ==
  ASSUME SearchTypes, BudgetInv, Query, turn <= Len(squad), UNCHANGED <<task, squad>>
  PROVE  /\ answered' = [answered EXCEPT ![turn] = answered[turn] + 1]
         /\ task.limit # Unlimited => used' = Tally(answered') /\ used' <= task.limit
<1>1. answered' = [answered EXCEPT ![turn] = answered[turn] + 1]
  BY DEF Query
<1>2. /\ turn \in 1..Len(squad) /\ Len(squad) \in Nat
      /\ answered \in [1..Len(squad) -> Nat]
  BY SquadShape DEF SearchTypes
<1>3. /\ answered' \in [1..Len(squad) -> Nat]
      /\ answered'[turn] = answered[turn] + 1
      /\ \A i \in 1..Len(squad) \ {turn} : answered'[i] = answered[i]
  BY <1>1, <1>2
<1>4. IsFiniteSet(1..Len(squad))
  BY <1>2, FS_Interval
<1>5. Tally(answered') = Tally(answered) + answered'[turn] - answered[turn]
  <2>. DEFINE engines == 1..Len(squad)
              after == answered'
  <2>1. /\ IsFiniteSet(engines) /\ turn \in engines
        /\ answered \in [engines -> Nat] /\ after \in [engines -> Nat]
        /\ \A i \in engines \ {turn} : after[i] = answered[i]
    BY <1>2, <1>3, <1>4
  <2>. HIDE DEF engines, after
  <2>2. Tally(after) = Tally(answered) + after[turn] - answered[turn]
    BY ONLY <2>1, TallyChange
  <2>3. QED
    BY <2>2 DEF after
<1>6. Tally(answered) \in Nat
  <2>. DEFINE engines == 1..Len(squad)
  <2>1. IsFiniteSet(engines) /\ answered \in [engines -> Nat]
    BY <1>2, <1>4
  <2>. HIDE DEF engines
  <2>2. QED
    BY ONLY <2>1, TallyType
<1>7. answered[turn] \in Nat
  BY <1>2
<1>8. Tally(answered') = Tally(answered) + 1
  BY <1>3, <1>5, <1>6, <1>7
<1>9. task.limit # Unlimited => used' = used + 1 /\ used < task.limit
  BY DEF Query, MayQuery
<1>10. task.limit \in Nat \cup {Unlimited} /\ used \in Nat
  BY SquadShape DEF SearchTypes
<1>11. QED
  BY <1>1, <1>6, <1>8, <1>9, <1>10 DEF BudgetInv

LEMMA BudgetStep ==
  ASSUME SearchTypes, BudgetInv, [SearchNext]_searchVars
  PROVE  BudgetInv'
<1>1. /\ Len(squad) \in Nat /\ turn \in 1..(Len(squad) + 1)
      /\ DOMAIN squad = 1..Len(squad)
      /\ answered \in [1..Len(squad) -> Nat] /\ spent \in Nat
      /\ \A i \in 1..Len(squad) :
           /\ squad[i].budget \in Nat
           /\ Allowance(squad[i]) \in Nat
           /\ Allowance(squad[i]) >= squad[i].budget
           /\ Allowance(squad[i]) >= 1
  BY SquadShape DEF SearchTypes
<1>2. ASSUME UNCHANGED <<task, squad, turn, answered, used>>,
             squad[turn].kind = "BlackBox" => UNCHANGED spent,
             turn <= Len(squad) /\ step' = "start" => spent' = 0
      PROVE  BudgetInv'
  BY <1>1, <1>2 DEF BudgetInv, Allowance
<1>3. ASSUME Query, turn <= Len(squad), UNCHANGED <<task, squad, turn>>,
             squad[turn].kind = "BlackBox", spent' = spent + 1, step' # "start",
             spent' <= Allowance(squad[turn])
      PROVE  BudgetInv'
  <2>1. /\ answered' = [answered EXCEPT ![turn] = answered[turn] + 1]
        /\ task.limit # Unlimited => used' = Tally(answered') /\ used' <= task.limit
    BY <1>3, QueryCounts
  <2>2. answered[turn] = spent
    BY <1>1, <1>3 DEF BudgetInv
  <2>3. \A i \in 1..Len(squad) :
          answered'[i] = IF i = turn THEN spent + 1 ELSE answered[i]
    BY <1>1, <2>1, <2>2
  <2>4. ASSUME NEW i \in 1..Len(squad)
        PROVE  /\ answered'[i] <= Allowance(squad[i])
               /\ i > turn => answered'[i] = 0
               /\ i = turn => answered'[i] = IF squad[i].kind = "BlackBox" THEN spent' ELSE 0
    BY <1>1, <1>3, <2>3 DEF BudgetInv
  <2>5. QED
    BY <1>3, <2>1, <2>4 DEF BudgetInv, Allowance
<1>4. CASE StartOracleSearch
  <2>1. turn <= Len(squad) /\ squad[turn].kind = "BlackBox" /\ spent = 0
    BY <1>4 DEF StartOracleSearch, AtWork, Engine, BudgetInv
  <2>2. CASE ~MayQuery /\ Produce(task.start, Unseen) /\ UNCHANGED <<spent, answered, used>>
    BY <1>2, <1>4, <2>2 DEF StartOracleSearch, Produce
  <2>3. CASE Query /\ step' = "search" /\ spent' = 1
    BY <1>1, <1>3, <1>4, <2>1, <2>3 DEF StartOracleSearch
  <2>4. QED
    BY <1>4, <2>2, <2>3 DEF StartOracleSearch
<1>5. CASE StartLocalSearch
  BY <1>2, <1>5 DEF StartLocalSearch
<1>6. ASSUME NEW candidate \in task.reach, Propose(candidate)
      PROVE  BudgetInv'
  <2>1. /\ turn <= Len(squad) /\ step = "search" /\ step' = "search"
        /\ spent < squad[turn].budget /\ spent' = spent + 1
        /\ UNCHANGED <<task, squad, turn>>
    BY <1>6 DEF Propose, AtWork, Engine
  <2>2. CASE squad[turn].kind = "BlackBox"
    <3>1. Query
      BY <1>6, <2>2 DEF Propose, Engine
    <3>2. spent' <= Allowance(squad[turn])
      BY <1>1, <2>1
    <3>3. QED
      BY <1>3, <2>1, <2>2, <3>1, <3>2
  <2>3. CASE squad[turn].kind # "BlackBox"
    <3>1. UNCHANGED <<answered, used>>
      BY <1>6, <2>3 DEF Propose, Engine
    <3>2. QED
      BY <1>2, <2>1, <2>3, <3>1
  <2>4. QED
    BY <2>2, <2>3
<1>7. CASE EndSearch
  BY <1>2, <1>7 DEF EndSearch, Produce
<1>8. ASSUME NEW candidate \in task.reach, Submit(candidate)
      PROVE  BudgetInv'
  BY <1>2, <1>8 DEF Submit, Produce
<1>9. CASE FailRun
  <2>1. turn' = Len(squad) + 1 /\ UNCHANGED <<task, squad, answered, used>>
    BY <1>9 DEF FailRun
  <2>2. QED
    BY <1>1, <2>1 DEF BudgetInv, Allowance
<1>10. ASSUME NEW error, NEW other, Certify(error, other)
       PROVE  BudgetInv'
  <2>1. /\ turn' = turn + 1 /\ spent' = 0
        /\ UNCHANGED <<task, squad, answered, used>>
        /\ turn <= Len(squad)
    BY <1>10 DEF Certify, AtWork
  <2>2. QED
    BY <1>1, <2>1 DEF BudgetInv, Allowance
<1>11. CASE UNCHANGED searchVars
  BY <1>11 DEF searchVars, BudgetInv, Allowance
<1>12. QED
  BY <1>4, <1>5, <1>6, <1>7, <1>8, <1>9, <1>10, <1>11 DEF SearchNext

LEMMA SearchStarts == SearchInit => SearchTypes /\ BudgetInv
<1>. SUFFICES ASSUME SearchInit PROVE SearchTypes /\ BudgetInv
  OBVIOUS
<1>1. squad \in Squads /\ squad \in Seq([kind : EngineKinds, budget : Nat])
  BY TaskAssumption DEF SearchInit
<1>2. Len(squad) \in Nat /\ DOMAIN squad = 1..Len(squad)
  BY <1>1
<1>3. answered \in [1..Len(squad) -> Nat] /\ \A i \in 1..Len(squad) : answered[i] = 0
  BY <1>2 DEF SearchInit
<1>4. SearchTypes
  BY <1>1, <1>2, <1>3, TaskAssumption DEF SearchInit, SearchTypes
<1>5. Tally(answered) = 0
  <2>. DEFINE engines == 1..Len(squad)
  <2>1. answered \in [engines -> Nat] /\ \A i \in engines : answered[i] = 0
    BY <1>3
  <2>. HIDE DEF engines
  <2>2. QED
    BY ONLY <2>1, TallyZero
<1>6. QED
  BY <1>3, <1>4, <1>5, SquadShape DEF SearchInit, BudgetInv

(* PrivateOracleScorer: what the oracle has answered, to whomever, is what it
   has counted and within its limit, and no engine is answered more than its
   budget, but for the query it starts with. *)
THEOREM OracleCountsQueries == SearchSpec => []QueriesWithinBudgets
<1>1. SearchTypes /\ BudgetInv /\ [SearchNext]_searchVars => SearchTypes' /\ BudgetInv'
  BY TypesStep, BudgetStep
<1>2. SearchTypes /\ BudgetInv => QueriesWithinBudgets
  BY SquadShape, SMTT(30) DEF BudgetInv, QueriesWithinBudgets, Allowance
<1>3. QED
  BY <1>1, <1>2, SearchStarts, PTL DEF SearchSpec

-----------------------------------------------------------------------------
(* The curve of the oracle and of the hardware stays on the scale. *)
LEMMA CurveOnScale ==
  ASSUME NEW exponent \in Nat
  PROVE  Exponential(exponent) \in 0..Scale
<1>. DEFINE most == Scale * 100
            divisor == 100 + exponent + (exponent * exponent) \div 200
<1>1. exponent * exponent \in Nat
  OBVIOUS
<1>2. (exponent * exponent) \div 200 \in Nat
  BY <1>1
<1>3. divisor \in Nat /\ divisor >= 100
  BY <1>2
<1>4. Exponential(exponent) = most \div divisor
  BY DEF Exponential, Square
<1>. HIDE DEF divisor
<1>5. most = 1000000
  BY DEF Scale
<1>6. 1000000 \div divisor \in 0..10000
  BY <1>3
<1>7. QED
  BY <1>4, <1>5, <1>6 DEF Scale

(* What a competition under the private oracle sees is a value of the curve,
   on either split. *)
LEMMA OracleScale ==
  ASSUME NEW point \in OraclePoint
  PROVE  PerturbedCloseness(point) \in 0..Scale
<1>. DEFINE exponent == (point.distance * point.factor) \div 100
<1>1. point.distance * point.factor \in Nat
  BY DEF OraclePoint
<1>2. exponent \in Nat
  BY <1>1
<1>3. PerturbedCloseness(point) = Exponential(exponent)
  BY DEF PerturbedCloseness
<1>. HIDE DEF exponent
<1>4. QED
  BY <1>2, <1>3, CurveOnScale

(* Within the scale nothing is clipped. *)
LEMMA UnitOfScale ==
  ASSUME NEW v \in 0..Scale
  PROVE  Unit(v) = v
<1>. DEFINE low == Min({Scale, v})
<1>1. Scale \in Int /\ v \in Int /\ 0 <= v /\ v <= Scale
  BY DEF Scale
<1>2. low \in {Scale, v} /\ low <= Scale /\ low <= v
  BY ONLY <1>1, MinOfTwo
<1>3. low = v
  BY <1>1, <1>2
<1>. HIDE DEF low
<1>4. Max({0, v}) \in {0, v} /\ Max({0, v}) >= 0 /\ Max({0, v}) >= v
  BY <1>1, MaxOfTwo
<1>5. Max({0, v}) = v
  BY <1>1, <1>4
<1>6. QED
  BY <1>3, <1>5 DEF Unit, Within, low

Worth(artifact) == Value(task, artifact, Dev)

(* What it has seen of its best artifact is what that is worth, and no less than
   what it started from. *)
Seen(score, artifact) ==
  /\ score = Worth(artifact)
  /\ score >= Worth(task.start)

SeenInv ==
  /\ \E Rows : results \in Seq(Rows)
  /\ turn <= Len(squad) /\ step = "start" => best = task.start
  /\ task.scorer = "PrivateOracle" =>
       /\ turn <= Len(squad) /\ step = "search" => Seen(seen, best)
       /\ turn <= Len(squad) /\ step = "produced" => seen = Unseen \/ Seen(seen, best)
       /\ \A i \in DOMAIN results : results[i].seen # Unseen =>
            /\ results[i].lift.delta = results[i].seen - Worth(task.start)
            /\ results[i].lift.delta >= 0

(* What is kept within two bounds is between them. *)
LEMMA WithinType ==
  ASSUME NEW low \in Int, NEW high \in Int, low <= high, NEW v \in Int
  PROVE  Within(low, high, v) \in low..high
<1>. DEFINE least == Min({high, v})
<1>1. least \in {high, v} /\ least <= high
  BY MinOfTwo
<1>. HIDE DEF least
<1>2. least \in Int
  BY <1>1
<1>3. Max({low, least}) \in {low, least} /\ Max({low, least}) >= low
  BY ONLY low \in Int, <1>2, MaxOfTwo
<1>4. Within(low, high, v) = Max({low, least})
  BY DEF Within, least
<1>. DEFINE most == Max({low, least})
<1>. HIDE DEF most
<1>5. most \in {low, least} /\ most >= low
  BY <1>3 DEF most
<1>6. most \in low..high
  BY <1>1, <1>2, <1>5
<1>7. QED
  BY <1>4, <1>6 DEF most

LEMMA NoiseType ==
  ASSUME NEW t
  PROVE  Noise(t) \in Nat
BY DEF Noise, Scale

(* A disturbance is no larger than the noise. *)
LEMMA DisturbanceType ==
  ASSUME NEW t, NEW error \in Disturbances(t)
  PROVE  error \in Int /\ -Noise(t) <= error /\ error <= Noise(t)
<1>. DEFINE noise == Noise(t)
<1>1. noise \in Nat
  BY NoiseType
<1>2. PICK e \in Errors : error = Within(-noise, noise, e)
  BY DEF Disturbances
<1>3. e \in Int
  BY <1>2, TaskAssumption
<1>. HIDE DEF noise
<1>4. -noise \in Int /\ noise \in Int /\ -noise <= noise
  BY <1>1
<1>5. Within(-noise, noise, e) \in (-noise)..noise
  BY ONLY <1>3, <1>4, WithinType
<1>6. error \in Int /\ -noise <= error /\ error <= noise
  BY <1>1, <1>2, <1>5
<1>7. QED
  BY <1>6 DEF noise

(* The oracle's values are numbers on the scale, the same for both splits. *)
LEMMA OracleValue ==
  ASSUME SearchTypes, task.scorer = "PrivateOracle", NEW artifact \in task.reach
  PROVE  /\ Worth(artifact) \in 0..Scale
         /\ Worth(artifact) \in Int
         /\ Value(task, artifact, HeldOut) = Worth(artifact)
<1>1. artifact \in OraclePoint
  BY TaskAssumption DEF SearchTypes, ArtifactOf
<1>2. \A split : Value(task, artifact, split) = PerturbedCloseness(artifact)
  BY DEF Value
<1>3. PerturbedCloseness(artifact) \in 0..Scale
  BY <1>1, OracleScale
<1>4. 0..Scale \subseteq Int
  BY DEF Scale
<1>5. QED
  BY <1>2, <1>3, <1>4 DEF Worth

(* The referee measures an artifact without noise under the oracle. *)
LEMMA OracleMeasures ==
  ASSUME SearchTypes, task.scorer = "PrivateOracle", NEW artifact \in task.reach
  PROVE  Measurement(task, artifact, HeldOut, 0).value = Worth(artifact)
<1>1. Worth(artifact) \in 0..Scale /\ Value(task, artifact, HeldOut) = Worth(artifact)
  BY OracleValue
<1>2. Worth(artifact) + (IF Refused(task, artifact) THEN 0 ELSE 0) = Worth(artifact)
  <2>1. (IF Refused(task, artifact) THEN 0 ELSE 0) = 0
    OBVIOUS
  <2>2. Worth(artifact) \in Int
    BY OracleValue
  <2>3. QED
    BY <2>1, <2>2
<1>3. Unit(Worth(artifact)) = Worth(artifact)
  BY <1>1, UnitOfScale
<1>4. task.scorer \notin {"Proof", "Forecast"}
  OBVIOUS
<1>5. QED
  BY <1>1, <1>2, <1>3, <1>4 DEF Measurement

(* What a step of the search, and a certification, make of it. *)
LEMMA KeepSeen ==
  ASSUME SearchTypes, task.scorer = "PrivateOracle", Seen(seen, best),
         NEW candidate \in task.reach, Keep(candidate, Worth(candidate)), UNCHANGED task
  PROVE  Seen(seen, best)'
<1>1. Worth(candidate) \in Int /\ seen \in Int /\ Worth(task.start) \in Int
  <2>1. task.start \in task.reach /\ best \in task.reach
    BY TaskAssumption DEF SearchTypes
  <2>2. QED
    BY <2>1, OracleValue DEF Seen
<1>2. CASE Worth(candidate) > seen
  BY <1>1, <1>2 DEF Keep, Seen, Worth
<1>3. CASE ~(Worth(candidate) > seen)
  BY <1>3 DEF Keep, Seen, Worth
<1>4. QED
  BY <1>2, <1>3

LEMMA CertifySeen ==
  ASSUME SearchTypes, SeenInv, task.scorer = "PrivateOracle",
         NEW error \in Disturbances(task), NEW other \in Disturbances(task),
         Certify(error, other)
  PROVE  \E row : /\ results' = Append(results, row)
                  /\ row.seen # Unseen =>
                       /\ row.lift.delta = row.seen - Worth(task.start)
                       /\ row.lift.delta >= 0
<1>1. error = 0 /\ other = 0
  <2>1. Noise(task) = 0
    BY DEF Noise
  <2>2. QED
    BY <2>1, DisturbanceType
<1>. DEFINE mine == Measurement(task, best, HeldOut, 0)
            base == Measurement(task, task.start, HeldOut, 0)
            lift == EstimateLift(mine, base)
            row == [artifact |-> best, seen |-> seen, lift |-> lift,
                    cleared |-> Clears(TheGate, lift)]
<1>2. results' = Append(results, row)
  BY <1>1 DEF Certify, RefereeSplit
<1>3. lift.delta = mine.value - base.value
  BY DEF EstimateLift
<1>4. /\ mine.value = Worth(best) /\ base.value = Worth(task.start)
      /\ Worth(best) \in Int /\ Worth(task.start) \in Int
  <2>1. task.start \in task.reach /\ best \in task.reach
    BY TaskAssumption DEF SearchTypes
  <2>2. QED
    BY <2>1, OracleMeasures, OracleValue
<1>5. seen = Unseen \/ Seen(seen, best)
  BY DEF SeenInv, Certify, AtWork
<1>6. row.seen = seen /\ row.lift = lift
  OBVIOUS
<1>. HIDE DEF mine, base, lift, row
<1>7. row.seen # Unseen => /\ row.lift.delta = row.seen - Worth(task.start)
                           /\ row.lift.delta >= 0
  BY <1>3, <1>4, <1>5, <1>6 DEF Seen
<1>8. QED
  BY <1>2, <1>7

(* The rows after one more: those there were, and that one. *)
RowsAndOne(before, after, row) ==
  /\ \E Rows : after \in Seq(Rows)
  /\ \A i \in DOMAIN after : (i \in DOMAIN before /\ after[i] = before[i]) \/ after[i] = row

LEMMA RowsGrow ==
  ASSUME NEW before, \E Rows : before \in Seq(Rows), NEW row, NEW after,
         after = Append(before, row)
  PROVE  RowsAndOne(before, after, row)
<1>1. PICK Rows : before \in Seq(Rows)
  OBVIOUS
<1>. DEFINE All == Rows \cup {row}
            n == Len(before)
<1>2. Rows \subseteq All /\ row \in All
  OBVIOUS
<1>. HIDE DEF All
<1>3. before \in Seq(All)
  BY ONLY <1>1, <1>2, SeqMonotonic
<1>4. /\ after \in Seq(All) /\ Len(after) = n + 1
      /\ \A i \in 1..n : after[i] = before[i]
      /\ after[n + 1] = row
  BY <1>2, <1>3, AppendProperties
<1>. HIDE DEF n
<1>5. n \in Nat /\ DOMAIN before = 1..n /\ DOMAIN after = 1..(n + 1)
  BY <1>3, <1>4, LenProperties DEF n
<1>6. \A i \in DOMAIN after : (i \in DOMAIN before /\ after[i] = before[i]) \/ after[i] = row
  BY <1>4, <1>5
<1>7. QED
  BY <1>4, <1>6 DEF RowsAndOne

LEMMA SeenStep ==
  ASSUME SearchTypes, SeenInv, [SearchNext]_searchVars
  PROVE  SeenInv'
<1>. DEFINE Oracle == task.scorer = "PrivateOracle"
<1>0. task.start \in task.reach
  BY TaskAssumption DEF SearchTypes
<1>1. ASSUME UNCHANGED <<task, squad, results>>,
             turn' <= Len(squad) /\ step' = "start" => best' = task.start,
             Oracle /\ turn' <= Len(squad) /\ step' = "search" => Seen(seen, best)',
             Oracle /\ turn' <= Len(squad) /\ step' = "produced" =>
               seen' = Unseen \/ Seen(seen, best)'
      PROVE  SeenInv'
  BY <1>1 DEF SeenInv, Worth
<1>2. ASSUME Oracle, AtWork("start"), seen' = Value(task, best, Dev), best' = best, task' = task
      PROVE  Seen(seen, best)'
  <2>1. best = task.start
    BY <1>2 DEF SeenInv, AtWork
  <2>2. Worth(task.start) \in Int
    BY <1>0, <1>2, OracleValue
  <2>3. QED
    BY <1>2, <2>1, <2>2 DEF Seen, Worth
<1>3. CASE StartOracleSearch
  <2>1. CASE step' = "search" /\ seen' = Value(task, best, Dev) /\ best' = best
    BY <1>1, <1>2, <1>3, <2>1 DEF StartOracleSearch
  <2>2. CASE Produce(task.start, Unseen)
    BY <1>1, <1>3, <2>2 DEF StartOracleSearch, Produce
  <2>3. QED
    BY <1>3, <2>1, <2>2 DEF StartOracleSearch
<1>4. CASE StartLocalSearch
  <2>1. ~Oracle
    <3>1. turn \in 1..Len(squad) /\ turn \in DOMAIN squad /\ squad[turn].kind = "Local"
      BY <1>4, SquadShape DEF StartLocalSearch, AtWork, Engine, SearchTypes
    <3>2. task.scorer \in SearchScorers
      BY <3>1 DEF SearchTypes, Fits
    <3>3. QED
      BY <3>2 DEF SearchScorers
  <2>2. QED
    BY <1>1, <1>4, <2>1 DEF StartLocalSearch
<1>5. ASSUME NEW candidate \in task.reach, Propose(candidate)
      PROVE  SeenInv'
  <2>1. /\ AtWork("search") /\ UNCHANGED <<task, squad, turn, step, results>>
        /\ Keep(candidate, Worth(candidate))
    BY <1>5 DEF Propose, Worth
  <2>2. Oracle => Seen(seen, best)'
    BY <2>1, KeepSeen DEF SeenInv, AtWork
  <2>3. QED
    BY <1>1, <2>1, <2>2 DEF AtWork
<1>6. CASE EndSearch
  <2>1. /\ AtWork("search") /\ step' = "produced" /\ best' = best /\ seen' = seen
        /\ UNCHANGED <<task, squad, turn, results>>
    BY <1>6 DEF EndSearch, Produce
  <2>2. Oracle => Seen(seen, best)'
    BY <2>1 DEF SeenInv, AtWork, Seen, Worth
  <2>3. QED
    BY <1>1, <2>1, <2>2
<1>7. ASSUME NEW candidate \in task.reach, Submit(candidate)
      PROVE  SeenInv'
  BY <1>1, <1>7 DEF Submit, Produce
<1>8. CASE FailRun
  <2>1. /\ turn' = Len(squad) + 1 /\ results' = <<>> /\ task' = task /\ squad' = squad
    BY <1>8 DEF FailRun
  <2>2. /\ ~(turn' <= Len(squad')) /\ DOMAIN results' = {}
        /\ results' \in Seq({})
    BY <2>1, SquadShape
  <2>3. QED
    BY <2>2 DEF SeenInv
<1>9. ASSUME NEW error \in Disturbances(task), NEW other \in Disturbances(task),
             Certify(error, other)
      PROVE  SeenInv'
  <2>1. /\ step' = "start" /\ best' = task.start /\ UNCHANGED <<task, squad>>
    BY <1>9 DEF Certify
  <2>2. \E row : results' = Append(results, row)
    BY <1>9 DEF Certify
  <2>3. PICK row : /\ results' = Append(results, row)
                   /\ Oracle /\ row.seen # Unseen =>
                        /\ row.lift.delta = row.seen - Worth(task.start)
                        /\ row.lift.delta >= 0
    BY <1>9, <2>2, CertifySeen
  <2>4. RowsAndOne(results, results', row)
    BY <2>3, RowsGrow DEF SeenInv
  <2>5. ASSUME Oracle, NEW i \in DOMAIN results', results'[i].seen # Unseen
         PROVE  /\ results'[i].lift.delta = results'[i].seen - Worth(task.start)
                /\ results'[i].lift.delta >= 0
    <3>1. CASE results'[i] = row
      BY <2>3, <2>5, <3>1
    <3>2. CASE i \in DOMAIN results /\ results'[i] = results[i]
      BY <2>5, <3>2 DEF SeenInv
    <3>3. QED
      BY <2>4, <3>1, <3>2 DEF RowsAndOne
  <2>6. Worth(task.start)' = Worth(task.start)
    BY <2>1 DEF Worth
  <2>7. QED
    BY <2>1, <2>4, <2>5, <2>6 DEF SeenInv, RowsAndOne
<1>10. CASE UNCHANGED searchVars
  BY <1>10 DEF searchVars, SeenInv, Seen, Worth
<1>11. QED
  BY <1>3, <1>4, <1>5, <1>6, <1>7, <1>8, <1>9, <1>10 DEF SearchNext

(* BlackBoxOptimizerEngine::search: under a private oracle the referee certifies
   to the point what the researcher has seen, however its search was cut off,
   and nobody who has seen anything ends below where it started. *)
THEOREM CertifiedAsSeen == SearchSpec => []SeenIsCertified
<1>1. SearchInit => SeenInv
  <2>. SUFFICES ASSUME SearchInit PROVE SeenInv
    OBVIOUS
  <2>1. results \in Seq({}) /\ DOMAIN results = {} /\ step = "start" /\ best = task.start
    BY DEF SearchInit
  <2>2. QED
    BY <2>1 DEF SeenInv
<1>2. SearchTypes /\ [SearchNext]_searchVars => SearchTypes'
  BY TypesStep
<1>3. SearchTypes /\ SeenInv /\ [SearchNext]_searchVars => SeenInv'
  BY SeenStep
<1>4. SeenInv => SeenIsCertified
  BY DEF SeenInv, SeenIsCertified, Worth
<1>5. QED
  BY <1>1, <1>2, <1>3, <1>4, SearchStarts, PTL DEF SearchSpec

-----------------------------------------------------------------------------
(* 4. Winners. A sum of amounts up to `top` is at most that many times it. *)
LEMMA SumBetween ==
  ASSUME NEW s, Len(s) \in Nat, NEW top \in Nat, \A i \in 1..Len(s) : s[i] \in 0..top
  PROVE  SumOf(s) \in 0..(Len(s) * top)
<1>1. PICK sum : /\ SumOf(s) = sum[Len(s)] /\ sum[0] = 0
                 /\ \A i \in 1..Len(s) : sum[i] = sum[i - 1] + s[i]
  BY SumSteps
<1>. DEFINE n == Len(s)
            good == {i \in Nat : i <= n => sum[i] \in Nat /\ sum[i] <= i * top}
<1>2. 0 \in good
  BY <1>1
<1>3. ASSUME NEW i \in Nat, i \in good PROVE i + 1 \in good
  <2>1. SUFFICES ASSUME i + 1 <= n PROVE sum[i + 1] \in Nat /\ sum[i + 1] <= (i + 1) * top
    OBVIOUS
  <2>2. i + 1 \in 1..n /\ i <= n /\ i + 1 - 1 = i
    BY <2>1
  <2>3. sum[i + 1] = sum[i] + s[i + 1] /\ s[i + 1] \in 0..top
    BY <1>1, <2>2
  <2>4. sum[i] \in Nat /\ sum[i] <= i * top
    BY <1>3, <2>2
  <2>5. i * top \in Nat /\ (i + 1) * top = i * top + top
    OBVIOUS
  <2>6. QED
    BY <2>3, <2>4, <2>5
<1>. HIDE DEF good
<1>4. n \in good
  BY <1>2, <1>3, Induction
<1>5. sum[n] \in Nat /\ sum[n] <= n * top
  BY <1>4 DEF good
<1>. HIDE DEF n
<1>6. n * top \in Nat
  BY DEF n
<1>7. QED
  BY <1>1, <1>5, <1>6 DEF n

(* A sum of numbers is a number. *)
LEMMA SumType ==
  ASSUME NEW s, Len(s) \in Nat, \A i \in 1..Len(s) : s[i] \in Int
  PROVE  SumOf(s) \in Int
<1>1. PICK sum : /\ SumOf(s) = sum[Len(s)] /\ sum[0] = 0
                 /\ \A i \in 1..Len(s) : sum[i] = sum[i - 1] + s[i]
  BY SumSteps
<1>. DEFINE n == Len(s)
            good == {i \in Nat : i <= n => sum[i] \in Int}
<1>2. 0 \in good
  BY <1>1
<1>3. ASSUME NEW i \in Nat, i \in good PROVE i + 1 \in good
  <2>1. SUFFICES ASSUME i + 1 <= n PROVE sum[i + 1] \in Int
    OBVIOUS
  <2>2. i + 1 \in 1..n /\ i <= n /\ i + 1 - 1 = i
    BY <2>1
  <2>3. QED
    BY <1>1, <1>3, <2>2
<1>. HIDE DEF good
<1>4. n \in good
  BY <1>2, <1>3, Induction
<1>5. QED
  BY <1>1, <1>4 DEF good

(* The root of a square rounded up, up to twice the scale. *)
IsRoot(x, r) == Square(r) >= x /\ (r > 0 => Square(r - 1) < x)

LEMMA RootExists ==
  ASSUME NEW x \in Nat, x <= Square(2 * Scale)
  PROVE  Root(x) \in 0..(2 * Scale) /\ IsRoot(x, Root(x))
<1>. DEFINE top == 2 * Scale
            short == {r \in Nat : r <= top => Square(r) < x}
<1>1. top \in Nat
  BY DEF Scale
<1>2. \E r \in 0..top : IsRoot(x, r)
  <2>1. SUFFICES ASSUME \A r \in 0..top : ~IsRoot(x, r) PROVE FALSE
    OBVIOUS
  <2>2. \A r \in Nat : Square(r) \in Nat
    BY DEF Square
  <2>. HIDE DEF top
  <2>3. 0 \in short
    <3>1. 0 \in 0..top /\ ~(0 > 0)
      BY <1>1
    <3>2. ~(Square(0) >= x)
      BY <2>1, <3>1 DEF IsRoot
    <3>3. QED
      BY <2>2, <3>2
  <2>4. ASSUME NEW r \in Nat, r \in short PROVE r + 1 \in short
    <3>1. SUFFICES ASSUME r + 1 <= top PROVE Square(r + 1) < x
      OBVIOUS
    <3>2. r <= top /\ r + 1 \in 0..top /\ r + 1 > 0 /\ r + 1 - 1 = r
      BY <1>1, <3>1
    <3>3. Square(r) < x
      BY <2>4, <3>2
    <3>4. ~(Square(r + 1) >= x)
      BY <2>1, <3>2, <3>3 DEF IsRoot
    <3>5. QED
      BY <2>2, <3>4
  <2>. HIDE DEF short
  <2>5. top \in short
    BY <1>1, <2>3, <2>4, Induction
  <2>6. Square(top) < x /\ Square(top) \in Nat
    BY <1>1, <2>2, <2>5 DEF short
  <2>7. QED
    BY <2>6 DEF top
<1>. HIDE DEF top
<1>3. Root(x) = CHOOSE r \in 0..top : IsRoot(x, r)
  BY DEF Root, top, IsRoot
<1>4. Root(x) \in 0..top /\ IsRoot(x, Root(x))
  BY <1>2, <1>3
<1>5. QED
  BY <1>4 DEF top

(* The variance of a proportion is a quarter of the squared scale at most. *)
IsVariance(x) == x \in Nat /\ x <= 5000 * 5000

LEMMA SmallRoot ==
  ASSUME NEW x, IsVariance(x)
  PROVE  Root(x) \in 0..5000
<1>0. x \in Nat /\ x <= 5000 * 5000
  BY DEF IsVariance
<1>1. 2 * Scale = 20000
  BY SMT DEF Scale
<1>2. x <= Square(2 * Scale)
  BY <1>0, <1>1, SMT DEF Square
<1>. DEFINE root == Root(x)
            r == root - 1
<1>3. root \in 0..(2 * Scale) /\ IsRoot(x, root)
  BY <1>0, <1>2, RootExists
<1>. HIDE DEF root
<1>4. root \in Nat /\ (root > 0 => Square(root - 1) < x)
  BY <1>1, <1>3 DEF IsRoot
<1>5. ASSUME root > 5000 PROVE FALSE
  <2>1. r \in Nat /\ r >= 5000 /\ Square(r) < x
    BY <1>4, <1>5
  <2>. HIDE DEF r
  <2>2. r * r >= 5000 * 5000
    BY <2>1
  <2>3. QED
    BY <1>0, <2>1, <2>2 DEF Square
<1>6. root \in 0..5000
  BY <1>4, <1>5
<1>7. QED
  BY <1>6 DEF root

(* A figure is clipped to the scale, and a figure near one on it stays near. *)
LEMMA UnitType ==
  ASSUME NEW v \in Int
  PROVE  /\ Unit(v) \in 0..Scale
         /\ v >= 0 => Unit(v) <= v
         /\ v <= Scale => Unit(v) >= v
<1>. DEFINE low == Min({Scale, v})
<1>1. Scale \in Int /\ Scale > 0
  BY DEF Scale
<1>2. low \in {Scale, v} /\ low <= Scale /\ low <= v
  BY ONLY <1>1, v \in Int, MinOfTwo
<1>. HIDE DEF low
<1>3. low \in Int
  BY <1>1, <1>2
<1>4. Max({0, low}) \in {0, low} /\ Max({0, low}) >= 0 /\ Max({0, low}) >= low
  BY <1>3, MaxOfTwo
<1>5. Unit(v) = Max({0, low})
  BY DEF Unit, Within, low
<1>6. QED
  BY <1>1, <1>2, <1>3, <1>4, <1>5

LEMMA UnitNear ==
  ASSUME NEW v \in 0..Scale, NEW noise \in Nat, NEW e \in Int, -noise <= e, e <= noise
  PROVE  Unit(v + e) <= v + noise /\ Unit(v + e) >= v - noise
<1>. DEFINE w == v + e
<1>1. w \in Int /\ Scale \in Int /\ v \in Int /\ v >= 0 /\ v <= Scale /\ Scale > 0
  BY DEF Scale
<1>2. v - noise <= w /\ w <= v + noise
  BY <1>1
<1>. HIDE DEF w
<1>3. /\ Unit(w) \in 0..Scale
      /\ w >= 0 => Unit(w) <= w
      /\ w <= Scale => Unit(w) >= w
  BY <1>1, UnitType
<1>4. w < 0 => Unit(w) = 0
  <2>. SUFFICES ASSUME w < 0 PROVE Unit(w) = 0
    OBVIOUS
  <2>. DEFINE low == Min({Scale, w})
  <2>1. low \in {Scale, w} /\ low <= Scale /\ low <= w
    BY ONLY <1>1, MinOfTwo
  <2>. HIDE DEF low
  <2>2. low \in Int /\ low < 0
    BY <1>1, <2>1
  <2>3. Max({0, low}) \in {0, low} /\ Max({0, low}) >= 0
    BY <2>2, MaxOfTwo
  <2>4. Unit(w) = Max({0, low})
    BY DEF Unit, Within, low
  <2>5. QED
    BY <2>2, <2>3, <2>4
<1>5. w > Scale => Unit(w) = Scale
  <2>. SUFFICES ASSUME w > Scale PROVE Unit(w) = Scale
    OBVIOUS
  <2>. DEFINE low == Min({Scale, w})
  <2>1. low \in {Scale, w} /\ low <= Scale /\ low <= w
    BY ONLY <1>1, MinOfTwo
  <2>. HIDE DEF low
  <2>2. low = Scale
    BY <1>1, <2>1
  <2>3. Max({0, Scale}) \in {0, Scale} /\ Max({0, Scale}) >= Scale
    BY <1>1, MaxOfTwo
  <2>4. Unit(w) = Max({0, low})
    BY DEF Unit, Within, low
  <2>5. QED
    BY <1>1, <2>2, <2>3, <2>4
<1>6. QED
  <2>1. CASE w < 0
    BY <1>1, <1>2, <1>4, <2>1 DEF w
  <2>2. CASE w > Scale
    BY <1>1, <1>2, <1>5, <2>2 DEF w
  <2>3. CASE w >= 0 /\ w <= Scale
    BY <1>1, <1>2, <1>3, <2>3 DEF w
  <2>4. QED
    BY <1>1, <2>1, <2>2, <2>3

-----------------------------------------------------------------------------
(* What each scorer makes of an artifact, but for a proof and a forecast, stays
   on the scale. *)
LEMMA SpeedupOnScale ==
  ASSUME NEW recipe \in [1..3 -> Int]
  PROVE  MeanSpeedup(recipe, HeldOut) \in 0..Scale
<1>. DEFINE penalty(knob) == Curvature[knob] * Square(10 * recipe[knob] - Optimum[HeldOut][knob])
            penalties == [k \in 1..3 |-> penalty(k)]
            speedup == 7000 - SumOf(penalties) \div 10
<1>1. \A k \in 1..3 : Curvature[k] \in Int /\ Optimum[HeldOut][k] \in Int
  BY DEF Curvature, Optimum, HeldOut
<1>2. ASSUME NEW k \in 1..3 PROVE penalty(k) \in Int
  <2>1. 10 * recipe[k] - Optimum[HeldOut][k] \in Int
    BY <1>1
  <2>2. Square(10 * recipe[k] - Optimum[HeldOut][k]) \in Int
    BY <2>1 DEF Square
  <2>3. QED
    BY <1>1, <2>2
<1>3. SumOf(penalties) \in Int
  <2>. HIDE DEF penalty
  <2>1. penalties \in Seq(Int) /\ Len(penalties) = 3
    BY <1>2
  <2>2. \A k \in 1..3 : penalties[k] \in Int
    BY <1>2
  <2>. HIDE DEF penalties
  <2>3. QED
    BY <2>1, <2>2, SumType
<1>. HIDE DEF penalties
<1>4. speedup \in Int
  BY <1>3
<1>. HIDE DEF speedup
<1>5. Unit(speedup) \in 0..Scale
  BY <1>4, UnitType
<1>6. MeanSpeedup(recipe, HeldOut) = IF Correct(recipe) THEN Unit(speedup) ELSE 0
  BY DEF MeanSpeedup, speedup, penalties
<1>7. 0 \in 0..Scale
  BY DEF Scale
<1>8. QED
  BY <1>5, <1>6, <1>7

LEMMA ObjectiveOnScale ==
  ASSUME NEW heuristic \in Int
  PROVE  Objective(heuristic, HeldOut) \in 0..Scale
<1>. DEFINE off == IF HeldOut = Dev THEN heuristic ELSE heuristic - 1
            steps == IF off >= 0 THEN off ELSE -off
            place == Min({steps, 6})
            near == Closeness[1 + place]
<1>1. steps \in Nat
  OBVIOUS
<1>2. Objective(heuristic, HeldOut) = 5500 + (4200 * near) \div Scale
  BY Zenon DEF Objective
<1>. HIDE DEF steps
<1>3. place \in {steps, 6} /\ place <= 6
  BY ONLY <1>1, 6 \in Int, Nat \subseteq Int, MinOfTwo
<1>. HIDE DEF place
<1>4. place \in {0, 1, 2, 3, 4, 5, 6}
  BY <1>1, <1>3
<1>5. near \in 0..Scale
  <2>1. \A k \in {1, 2, 3, 4, 5, 6, 7} : Closeness[k] \in 0..Scale
    BY SMTT(30) DEF Closeness, Scale
  <2>2. 1 + place \in {1, 2, 3, 4, 5, 6, 7}
    BY <1>4
  <2>3. QED
    BY <2>1, <2>2, Zenon
<1>. HIDE DEF near
<1>6. ASSUME NEW c \in 0..Scale
      PROVE  5500 + (4200 * c) \div Scale \in 0..Scale
  BY SMT DEF Scale
<1>7. 5500 + (4200 * near) \div Scale \in 0..Scale
  BY <1>5, <1>6
<1>8. QED
  BY <1>2, <1>7

LEMMA PassRateOnScale ==
  ASSUME NEW profile \in ArtifactOf("Agent")
  PROVE  ExpectedPassRate(profile, HeldOut) \in 0..Scale
<1>. DEFINE capability == (40 * profile.skill + 25 * profile.prompt
                           + 20 * profile.tool + 15 * profile.memory) \div 100
            base == 2000 + 80 * capability
            rate == IF HeldOut = Dev THEN base + 18 * profile.overfit
                    ELSE base - 200 - 30 * profile.overfit
<1>1. profile \in [skill : Int, prompt : Int, tool : Int, memory : Int, overfit : Int]
  BY DEF ArtifactOf
<1>2. /\ profile.skill \in Int /\ profile.prompt \in Int /\ profile.tool \in Int
      /\ profile.memory \in Int /\ profile.overfit \in Int
  BY <1>1
<1>3. ExpectedPassRate(profile, HeldOut) = Unit(rate)
  BY Zenon DEF ExpectedPassRate
<1>4. capability \in Int
  BY <1>2
<1>. HIDE DEF capability
<1>5. rate \in Int
  BY <1>2, <1>4
<1>. HIDE DEF rate
<1>6. QED
  BY <1>3, <1>5, UnitType

LEMMA AccuracyOnScale ==
  ASSUME NEW classifier \in ArtifactOf("Linear")
  PROVE  Accuracy(classifier, HeldOut) \in 0..Scale
<1>. DEFINE right == classifier.HeldOut
<1>1. Points.HeldOut = 80
  BY DEF Points
<1>2. classifier \in [Dev : 0..Points.Dev, HeldOut : 0..Points.HeldOut]
  BY DEF ArtifactOf
<1>3. right \in 0..80
  BY <1>1, <1>2
<1>4. Accuracy(classifier, HeldOut) = (right * Scale) \div 80
  BY <1>1 DEF Accuracy, HeldOut
<1>. HIDE DEF right
<1>5. (right * Scale) \div 80 \in 0..Scale
  BY <1>3, SMT DEF Scale
<1>6. QED
  BY ONLY <1>4, <1>5

(* What is at most c times n is divided by n into at most c. *)
LEMMA Quotient ==
  ASSUME NEW n \in Nat, n > 0, NEW c \in Nat, NEW x \in Nat, x <= n * c
  PROVE  x \div n \in 0..c
<1>. DEFINE q == x \div n
<1>1. q \in Nat /\ n * q <= x
  OBVIOUS
<1>. HIDE DEF q
<1>2. ASSUME q > c PROVE FALSE
  <2>1. q >= c + 1
    BY <1>1, <1>2
  <2>2. n * q >= n * (c + 1)
    BY <1>1, <2>1
  <2>3. n * (c + 1) = n * c + n /\ n * c \in Int /\ n * q \in Int
    BY <1>1
  <2>4. QED
    BY <1>1, <2>2, <2>3
<1>3. q \in 0..c
  BY <1>1, <1>2
<1>4. QED
  BY <1>3 DEF q

(* What is left of a panel's verdicts are numbers. *)
LEMMA FiniteType ==
  ASSUME NEW verdicts \in Seq(Int \cup {NotANumber})
  PROVE  Finite(verdicts) \in Seq(Int)
<1>. DEFINE n == Len(verdicts)
            next(so, i) == IF verdicts[i] = NotANumber THEN so ELSE Append(so, verdicts[i])
            kept == CHOOSE g : g = [i \in 0..n |->
                      IF i = 0 THEN <<>>
                      ELSE IF verdicts[i] = NotANumber THEN g[i - 1]
                      ELSE Append(g[i - 1], verdicts[i])]
            good == {i \in Nat : i <= n => kept[i] \in Seq(Int)}
<1>1. n \in Nat /\ \A i \in 1..n : verdicts[i] \in Int \cup {NotANumber}
  OBVIOUS
<1>2. FiniteNatInductiveDefHypothesis(kept, <<>>,
        LAMBDA so, i : IF verdicts[i] = NotANumber THEN so ELSE Append(so, verdicts[i]), 0, n)
  BY DEF FiniteNatInductiveDefHypothesis
<1>3. FiniteNatInductiveDefConclusion(kept, <<>>,
        LAMBDA so, i : IF verdicts[i] = NotANumber THEN so ELSE Append(so, verdicts[i]), 0, n)
  BY <1>1, <1>2, FiniteNatInductiveDef
<1>4. kept = [i \in 0..n |-> IF i = 0 THEN <<>>
                             ELSE IF verdicts[i] = NotANumber THEN kept[i - 1]
                             ELSE Append(kept[i - 1], verdicts[i])]
  BY <1>3, Zenon DEF FiniteNatInductiveDefConclusion
<1>5. Finite(verdicts) = kept[n]
  BY DEF Finite
<1>. HIDE DEF kept, n
<1>6. 0 \in good
  BY <1>1, <1>4
<1>7. ASSUME NEW i \in Nat, i \in good PROVE i + 1 \in good
  <2>1. SUFFICES ASSUME i + 1 <= n PROVE kept[i + 1] \in Seq(Int)
    OBVIOUS
  <2>2. i + 1 \in 1..n /\ i + 1 \in 0..n /\ i + 1 # 0 /\ i <= n /\ i + 1 - 1 = i
    BY <1>1, <2>1
  <2>3. kept[i] \in Seq(Int)
    BY <1>7, <2>2
  <2>4. kept[i + 1] = IF verdicts[i + 1] = NotANumber THEN kept[i]
                      ELSE Append(kept[i], verdicts[i + 1])
    <3>. DEFINE j == i + 1
    <3>1. j \in 0..n /\ j # 0 /\ j - 1 = i
      BY <2>2
    <3>. HIDE DEF j
    <3>2. kept[j] = IF verdicts[j] = NotANumber THEN kept[j - 1]
                    ELSE Append(kept[j - 1], verdicts[j])
      BY <1>4, <3>1
    <3>3. QED
      BY <3>1, <3>2 DEF j
  <2>5. CASE verdicts[i + 1] = NotANumber
    BY <2>3, <2>4, <2>5
  <2>6. CASE verdicts[i + 1] \in Int /\ verdicts[i + 1] # NotANumber
    BY <2>3, <2>4, <2>6
  <2>7. QED
    BY <1>1, <2>2, <2>5, <2>6
<1>. HIDE DEF good
<1>8. n \in good
  BY <1>1, <1>6, <1>7, Induction
<1>9. QED
  BY <1>1, <1>5, <1>8 DEF good

LEMMA LengthOf ==
  ASSUME NEW n \in Nat, NEW S, NEW s \in [1..n -> S]
  PROVE  Len(s) = n
OBVIOUS

(* The judges a panel is left with, whose verdicts are on their scale. *)
IsPanel(judges) == Len(judges) \in Nat \ {0} /\ \A i \in 1..Len(judges) : judges[i] \in 0..100

LEMMA SanitizedPanel ==
  ASSUME NEW verdicts \in Seq(Int \cup {NotANumber})
  PROVE  IsPanel(Sanitize(verdicts))
<1>. DEFINE cleaned == Finite(verdicts)
<1>1. cleaned \in Seq(Int)
  BY FiniteType
<1>2. Sanitize(verdicts) = IF cleaned = <<>> THEN <<50>>
                           ELSE [i \in DOMAIN cleaned |-> Within(0, 100, cleaned[i])]
  BY DEF Sanitize, NeutralVerdict
<1>. HIDE DEF cleaned
<1>3. CASE cleaned = <<>>
  <2>1. Sanitize(verdicts) = <<50>>
    BY <1>2, <1>3
  <2>2. QED
    BY <2>1 DEF IsPanel
<1>4. CASE cleaned # <<>>
  <2>. DEFINE n == Len(cleaned)
              judges == [i \in 1..n |-> Within(0, 100, cleaned[i])]
  <2>1. DOMAIN cleaned = 1..n /\ n \in Nat \ {0} /\ \A i \in 1..n : cleaned[i] \in Int
    BY <1>1, <1>4
  <2>2. Sanitize(verdicts) = judges
    BY <1>2, <1>4, <2>1
  <2>3. ASSUME NEW v \in Int PROVE Within(0, 100, v) \in 0..100
    <3>. DEFINE low == Min({100, v})
    <3>1. low \in {100, v} /\ low <= 100
      <4>1. 100 \in Int
        OBVIOUS
      <4>2. QED
        BY ONLY <4>1, v \in Int, MinOfTwo
    <3>. HIDE DEF low
    <3>2. low \in Int
      BY <3>1
    <3>3. Max({0, low}) \in {0, low} /\ Max({0, low}) >= 0
      <4>1. 0 \in Int
        OBVIOUS
      <4>2. QED
        BY ONLY <3>2, <4>1, MaxOfTwo
    <3>4. Within(0, 100, v) = Max({0, low})
      BY DEF Within, low
    <3>. DEFINE high == Max({0, low})
    <3>. HIDE DEF high
    <3>5. high \in {0, low} /\ high >= 0
      BY <3>3 DEF high
    <3>6. high \in 0..100
      BY <3>1, <3>2, <3>5
    <3>7. QED
      BY <3>4, <3>6 DEF high
  <2>. HIDE DEF n
  <2>4. Len(judges) = n
    <3>1. judges \in [1..n -> 0..100]
      BY <2>1, <2>3
    <3>2. QED
      BY ONLY <2>1, <3>1, LengthOf
  <2>5. \A i \in 1..n : judges[i] \in 0..100
    BY <2>1, <2>3
  <2>6. QED
    BY <2>1, <2>2, <2>4, <2>5 DEF IsPanel
<1>5. QED
  BY <1>3, <1>4

LEMMA MeanOnScale ==
  ASSUME NEW judges, IsPanel(judges)
  PROVE  PanelMean(judges) \in 0..Scale
<1>. DEFINE n == Len(judges)
            sum == SumOf(judges)
<1>1. n \in Nat /\ n > 0
  BY DEF IsPanel
<1>2. sum \in 0..(n * 100)
  BY <1>1, SumBetween DEF IsPanel
<1>3. PanelMean(judges) = (sum * 100) \div n
  BY DEF PanelMean
<1>. HIDE DEF n, sum
<1>4. n * 100 \in Nat /\ (n * 100) * 100 = n * 10000
  BY <1>1
<1>5. sum * 100 \in Nat /\ sum * 100 <= n * 10000
  BY <1>1, <1>2, <1>4
<1>. DEFINE points == sum * 100
<1>. HIDE DEF points
<1>6. points \div n \in 0..10000
  <2>1. points \in Nat /\ points <= n * 10000 /\ 10000 \in Nat
    BY <1>5 DEF points
  <2>2. QED
    BY ONLY <1>1, <2>1, Quotient
<1>7. PanelMean(judges) = points \div n /\ Scale = 10000
  BY <1>3 DEF points, Scale
<1>8. QED
  BY ONLY <1>6, <1>7

LEMMA HalfOfPanel ==
  ASSUME NEW judges, IsPanel(judges)
  PROVE  PanelHalf(judges) \in Nat
<1>. DEFINE n == Len(judges)
            mean == PanelMean(judges)
            deviation(i) == Square(judges[i] * 100 - mean) \div 100
            deviations == [i \in 1..n |-> deviation(i)]
            most == 100 * Scale
            crowd == (n - 1) * n
<1>1. n \in Nat /\ n > 0 /\ \A i \in 1..n : judges[i] \in 0..100
  BY DEF IsPanel
<1>2. mean \in 0..Scale /\ Scale = 10000 /\ most \in Nat
  BY MeanOnScale, SMTT(30) DEF Scale
<1>3. PanelHalf(judges) = IF n = 1 THEN 9800 ELSE (196 * Root(SumOf(deviations) \div crowd)) \div 10
  BY Zenon DEF PanelHalf
<1>. HIDE DEF mean, n
<1>4. ASSUME NEW i \in 1..n PROVE deviation(i) \in 0..most
  <2>. DEFINE off == judges[i] * 100 - mean
  <2>1. off \in Int /\ off <= Scale /\ -Scale <= off
    <3>. DEFINE p == judges[i]
    <3>1. p \in 0..100
      BY <1>1
    <3>. HIDE DEF p
    <3>2. mean \in Int /\ 0 <= mean /\ mean <= 10000 /\ Scale = 10000
      BY <1>2
    <3>3. p * 100 - mean \in Int /\ p * 100 - mean <= Scale /\ -Scale <= p * 100 - mean
      BY ONLY <3>1, <3>2, SMT
    <3>4. QED
      BY <3>3 DEF p
  <2>. HIDE DEF off
  <2>2. Square(off) <= 100 * most /\ Square(off) \in Nat
    <3>1. Square(off) \in Nat
      BY <2>1 DEF Square
    <3>2. (Scale - off) * (Scale + off) >= 0
      BY <1>2, <2>1
    <3>3. (Scale - off) * (Scale + off) = Scale * Scale - Square(off)
      BY <1>2, <2>1 DEF Square
    <3>4. Scale * Scale = 100 * most
      BY <1>2
    <3>5. QED
      BY <1>2, <3>1, <3>2, <3>3, <3>4
  <2>. HIDE DEF most
  <2>3. Square(off) \div 100 \in 0..most
    BY <1>2, <2>2, Quotient
  <2>4. QED
    BY <2>3 DEF off
<1>. HIDE DEF deviation
<1>5. Len(deviations) = n /\ \A i \in 1..n : deviations[i] \in 0..most
  <2>1. deviations \in [1..n -> 0..most]
    BY <1>1, <1>4
  <2>2. Len(deviations) = n
    BY ONLY <1>1, <2>1, LengthOf
  <2>3. QED
    BY <2>1, <2>2
<1>. HIDE DEF deviations, most
<1>6. SumOf(deviations) \in 0..(n * most)
  <2>1. Len(deviations) \in Nat /\ most \in Nat
        /\ \A i \in 1..Len(deviations) : deviations[i] \in 0..most
    BY <1>1, <1>2, <1>5
  <2>2. SumOf(deviations) \in 0..(Len(deviations) * most)
    BY ONLY <2>1, SumBetween
  <2>3. QED
    BY <1>5, <2>2
<1>. DEFINE sum == SumOf(deviations)
<1>. HIDE DEF sum
<1>7. CASE n # 1
  <2>1. crowd \in Nat /\ crowd >= n
    BY <1>1, <1>7
  <2>. HIDE DEF crowd
  <2>2. crowd * most >= n * most /\ crowd * most \in Nat /\ n * most \in Nat
    BY <1>1, <1>2, <2>1
  <2>3. sum \in Nat /\ sum <= crowd * most
    BY <1>6, <2>2 DEF sum
  <2>4. sum \div crowd \in 0..most
    BY <1>1, <1>2, <2>1, <2>3, Quotient
  <2>5. sum \div crowd \in Nat /\ sum \div crowd <= Square(2 * Scale)
    <3>1. most <= Square(2 * Scale) /\ Square(2 * Scale) \in Int
      BY <1>2 DEF most, Square
    <3>2. QED
      BY <1>2, <2>4, <3>1
  <2>6. Root(sum \div crowd) \in 0..(2 * Scale)
    BY <2>5, RootExists
  <2>. DEFINE root == Root(sum \div crowd)
  <2>7. (196 * root) \div 10 \in Nat
    <3>1. root \in Nat
      <4>1. root \in 0..(2 * Scale)
        BY ONLY <2>6
      <4>2. 2 * Scale \in Nat
        BY SMT DEF Scale
      <4>. HIDE DEF root
      <4>3. QED
        BY ONLY <4>1, <4>2
    <3>. HIDE DEF root
    <3>2. QED
      BY <3>1
  <2>8. QED
    BY <1>3, <1>7, <2>7 DEF sum, crowd
<1>8. CASE n = 1
  BY <1>2, <1>3, <1>8
<1>9. QED
  BY <1>7, <1>8

(* A proof is worth next to nothing, and a forecast is an error. *)
LEMMA ValueType ==
  ASSUME NEW t \in Tasks, NEW artifact \in t.reach
  PROVE  /\ Value(t, artifact, HeldOut) \in Int
         /\ t.scorer \notin {"Proof", "Forecast"} => Value(t, artifact, HeldOut) \in 0..Scale
<1>. DEFINE v == Value(t, artifact, HeldOut)
<1>1. artifact \in ArtifactOf(t.scorer) /\ t.scorer \in SearchScorers \cup RefereeScorers
  BY TaskAssumption
<1>2. Scale \in Nat
  BY DEF Scale
<1>3. CASE t.scorer = "Proof"
  <2>1. v = ProofValue(artifact, HeldOut)
    BY <1>3 DEF Value
  <2>2. artifact \in [finite : BOOLEAN, distance : Nat]
    BY <1>1, <1>3 DEF ArtifactOf
  <2>3. artifact.distance \in Nat
    BY <2>2
  <2>4. InvalidValue \in Int /\ (98 * Scale) - artifact.distance * 8000 \in Int
    BY <1>2, <2>3 DEF InvalidValue
  <2>5. v \in Int
    BY <2>1, <2>4 DEF ProofValue
  <2>6. QED
    BY <1>3, <2>5
<1>4. CASE t.scorer = "Forecast"
  <2>1. v = ForecastValue(artifact, HeldOut)
    BY <1>4 DEF Value
  <2>2. artifact \in [rmse : [{Dev, HeldOut} -> Nat], complexity : Nat]
    BY <1>1, <1>4 DEF ArtifactOf
  <2>3. artifact.rmse[HeldOut] \in Nat /\ artifact.complexity \in Nat
    BY <2>2
  <2>4. v = -(artifact.rmse[HeldOut] + 150 * artifact.complexity)
    BY <2>1 DEF ForecastValue
  <2>5. v \in Int
    BY <2>3, <2>4
  <2>6. QED
    BY <1>4, <2>5
<1>5. CASE t.scorer = "Program"
  <2>1. v = MeanSpeedup(artifact, HeldOut) /\ artifact \in [1..3 -> Int]
    BY <1>1, <1>5 DEF Value, ArtifactOf
  <2>2. QED
    BY <1>2, <2>1, SpeedupOnScale
<1>6. CASE t.scorer = "Solver"
  <2>1. v = Objective(artifact, HeldOut) /\ artifact \in Int
    BY <1>1, <1>6 DEF Value, ArtifactOf
  <2>2. QED
    BY <1>2, <2>1, ObjectiveOnScale
<1>7. CASE t.scorer = "Agent"
  <2>1. v = ExpectedPassRate(artifact, HeldOut) /\ artifact \in ArtifactOf("Agent")
    BY <1>1, <1>7 DEF Value
  <2>2. QED
    BY <1>2, <2>1, PassRateOnScale
<1>8. CASE t.scorer = "Linear"
  <2>1. v = Accuracy(artifact, HeldOut) /\ artifact \in ArtifactOf("Linear")
    BY <1>1, <1>8 DEF Value
  <2>2. QED
    BY <1>2, <2>1, AccuracyOnScale
<1>9. CASE t.scorer = "PrivateOracle"
  <2>1. v = PerturbedCloseness(artifact) /\ artifact \in OraclePoint
    BY <1>1, <1>9 DEF Value, ArtifactOf
  <2>. DEFINE exponent == (artifact.distance * artifact.factor) \div 100
  <2>2. artifact.distance \in Nat /\ artifact.factor \in Nat
    BY <2>1 DEF OraclePoint
  <2>3. artifact.distance * artifact.factor \in Nat
    BY <2>2
  <2>4. exponent \in Nat
    BY <2>3
  <2>5. v = Exponential(exponent)
    BY <2>1 DEF PerturbedCloseness
  <2>. HIDE DEF exponent
  <2>6. QED
    BY <1>2, <2>4, <2>5, CurveOnScale
<1>10. CASE t.scorer = "Hardware"
  <2>1. v = Exponential(artifact.distance) /\ artifact \in OraclePoint
    BY <1>1, <1>10 DEF Value, ArtifactOf, HardwareValue
  <2>2. artifact.distance \in Nat
    BY <2>1 DEF OraclePoint
  <2>3. QED
    BY <1>2, <2>1, <2>2, CurveOnScale
<1>11. CASE t.scorer = "HumanPanel"
  <2>. DEFINE judges == Sanitize(artifact.verdicts)
  <2>1. v = PanelMean(judges) /\ artifact \in [verdicts : Seq(Int \cup {NotANumber})]
    BY <1>1, <1>11 DEF Value, ArtifactOf
  <2>2. IsPanel(judges)
    BY <2>1, SanitizedPanel
  <2>. HIDE DEF judges
  <2>3. QED
    BY <1>2, <2>1, <2>2, MeanOnScale
<1>12. QED
  BY <1>1, <1>3, <1>4, <1>5, <1>6, <1>7, <1>8, <1>9, <1>10, <1>11 DEF SearchScorers, RefereeScorers

(* The interval of a proportion is on the scale. *)
LEMMA WilsonType ==
  ASSUME NEW p \in 0..Scale, NEW n \in Nat, n > 0
  PROVE  Wilson(p, n).low \in 0..Scale /\ Wilson(p, n).high \in 0..Scale
<1>. DEFINE weight == 100 * n + 384
            centre == (100 * (p * n + 19208)) \div weight
            part == (p * (Scale - p)) \div n
            rest == Square(9800) \div (n * n)
            root == Root(part + rest)
            margin == (196 * n * root) \div weight
<1>9. Wilson(p, n) = [low |-> Unit(centre - margin), high |-> Unit(centre + margin)]
  BY SMT DEF Wilson
<1>1. Scale = 10000 /\ p \in Nat /\ p <= 10000
  BY DEF Scale
<1>2. weight \in Nat /\ weight > 0
  OBVIOUS
<1>3. p * (Scale - p) \in Nat /\ p * (Scale - p) <= Scale * Scale /\ Scale * Scale \in Nat
  <2>. DEFINE q == Scale - p
  <2>1. q \in Nat /\ q <= Scale /\ p <= Scale
    BY <1>1
  <2>. HIDE DEF q
  <2>2. /\ p * q \in Nat /\ p * Scale \in Nat /\ Scale * Scale \in Nat
        /\ p * q <= p * Scale /\ p * Scale <= Scale * Scale
    BY <1>1, <2>1
  <2>3. p * q <= Scale * Scale
    BY <2>2
  <2>4. QED
    BY <2>2, <2>3 DEF q
<1>4. part \in Nat /\ part <= Scale * Scale
  <2>. DEFINE product == p * (Scale - p)
              most == Scale * Scale
  <2>1. product \in Nat /\ most \in Nat /\ product <= most
    BY <1>3
  <2>. HIDE DEF product, most
  <2>2. product <= n * most
    BY <2>1
  <2>3. product \div n \in 0..most
    BY ONLY <2>1, <2>2, n \in Nat, n > 0, Quotient
  <2>4. product \div n \in Nat /\ product \div n <= most
    BY <2>1, <2>3
  <2>5. QED
    BY <2>4 DEF product, most
<1>5. rest \in Nat /\ rest <= Scale * Scale
  <2>. DEFINE top == Square(9800)
              nn == n * n
  <2>1. top \in Nat /\ top <= Scale * Scale
    BY <1>1, SMT DEF Square
  <2>2. nn \in Nat /\ nn > 0
    OBVIOUS
  <2>. HIDE DEF top, nn
  <2>3. top <= nn * top
    BY <2>1, <2>2
  <2>4. top \div nn \in 0..top
    BY ONLY <2>1, <2>2, <2>3, Quotient
  <2>5. top \div nn \in Nat /\ top \div nn <= Scale * Scale
    BY <1>3, <2>1, <2>4
  <2>6. QED
    BY <2>5 DEF top, nn
<1>. HIDE DEF part, rest
<1>6. root \in Nat
  <2>. DEFINE both == part + rest
  <2>1. both \in Nat /\ both <= Square(2 * Scale)
    <3>1. Square(2 * Scale) = 4 * (Scale * Scale)
      BY <1>1 DEF Square
    <3>2. QED
      BY <1>3, <1>4, <1>5, <3>1
  <2>. HIDE DEF both
  <2>2. Root(both) \in 0..(2 * Scale)
    BY ONLY <2>1, RootExists
  <2>. DEFINE it == Root(both)
  <2>. HIDE DEF it
  <2>3. 2 * Scale \in Nat
    BY SMT DEF Scale
  <2>4. it \in Nat
    BY <2>2, <2>3 DEF it
  <2>5. QED
    BY <2>4 DEF it, both
<1>. HIDE DEF root
<1>7. centre \in Int
  <2>. DEFINE above == 100 * (p * n + 19208)
  <2>1. p * n \in Nat
    BY <1>1
  <2>2. above \in Nat
    BY <2>1
  <2>. HIDE DEF above, weight
  <2>3. above \div weight \in Int
    BY <1>2, <2>2
  <2>4. QED
    BY <2>3 DEF above
<1>8. margin \in Int
  <2>. DEFINE above == 196 * n * root
  <2>1. above \in Nat
    BY <1>6
  <2>. HIDE DEF above, weight
  <2>2. above \div weight \in Int
    BY <1>2, <2>1
  <2>3. QED
    BY <2>2 DEF above
<1>. HIDE DEF centre, margin
<1>10. centre - margin \in Int /\ centre + margin \in Int
  BY <1>7, <1>8
<1>11. Unit(centre - margin) \in 0..Scale /\ Unit(centre + margin) \in 0..Scale
  BY <1>10, UnitType, SMTT(30)
<1>12. QED
  BY <1>9, <1>11

IsAmplitude(a) == a \in Nat /\ a <= 200
IsSmall(half) == half \in 0..5000

(* The spread of a few samples is a small part of the scale. *)
LEMMA SampleHalfType ==
  ASSUME NEW amplitude, IsAmplitude(amplitude), NEW n \in Nat, n > 0
  PROVE  IsSmall(SampleHalf(amplitude, n))
<1>. DEFINE above == 128 * Square(amplitude)
            below == 100 * n
            most == 5000 * 5000
<1>1. above \in Nat /\ above <= most /\ most \in Nat
  <2>1. amplitude * amplitude \in Nat /\ amplitude * amplitude <= 200 * 200
    BY DEF IsAmplitude
  <2>2. QED
    BY <2>1, SMT DEF Square
<1>2. below \in Nat /\ below > 0
  OBVIOUS
<1>3. SampleHalf(amplitude, n) = Root(above \div below)
  BY DEF SampleHalf
<1>. HIDE DEF above, below, most
<1>4. above <= below * most
  BY <1>1, <1>2
<1>5. above \div below \in 0..most
  BY ONLY <1>1, <1>2, <1>4, Quotient
<1>. DEFINE quotient == above \div below
<1>. HIDE DEF quotient
<1>6. quotient \in Nat /\ quotient <= most
  BY <1>1, <1>5 DEF quotient
<1>7. IsVariance(quotient)
  BY <1>6 DEF IsVariance, most
<1>8. IsSmall(Root(quotient))
  BY ONLY <1>7, SmallRoot DEF IsSmall
<1>9. SampleHalf(amplitude, n) = Root(quotient)
  BY <1>3 DEF quotient
<1>10. QED
  BY ONLY <1>8, <1>9

LEMMA OracleHalfType ==
  ASSUME NEW n \in Nat, n > 0
  PROVE  OracleHalf(n) \in Nat
<1>. DEFINE top == Square(9800)
            quotient == top \div n
<1>1. top \in Nat /\ top <= Square(2 * Scale) /\ Square(2 * Scale) \in Nat
  BY SMT DEF Square, Scale
<1>2. OracleHalf(n) = Root(quotient)
  BY DEF OracleHalf
<1>. HIDE DEF top
<1>3. top <= n * top
  BY <1>1
<1>4. quotient \in 0..top
  BY ONLY <1>1, <1>3, n \in Nat, n > 0, Quotient
<1>. HIDE DEF quotient
<1>5. quotient \in Nat /\ quotient <= Square(2 * Scale)
  BY <1>1, <1>4
<1>6. Root(quotient) \in 0..(2 * Scale)
  BY ONLY <1>5, RootExists
<1>. DEFINE root == Root(quotient)
<1>. HIDE DEF root
<1>7. 2 * Scale \in Nat
  BY SMT DEF Scale
<1>8. root \in Nat
  BY <1>6, <1>7 DEF root
<1>9. QED
  BY <1>2, <1>8 DEF root

IsNarrow(i) == i.low \in Int /\ i.high \in Int /\ i.high - i.low <= Scale

LEMMA NarrowOnScale ==
  ASSUME NEW i, i.low \in 0..Scale, i.high \in 0..Scale
  PROVE  IsNarrow(i)
<1>. DEFINE low == i.low
            high == i.high
<1>1. low \in 0..Scale /\ high \in 0..Scale
  BY SMTT(30)
<1>. HIDE DEF low, high
<1>2. Scale = 10000
  BY DEF Scale
<1>3. low \in Int /\ high \in Int /\ high - low <= Scale
  BY ONLY <1>1, <1>2, SMTT(30)
<1>4. QED
  BY <1>3 DEF IsNarrow, low, high

(* But for an agent's, an interval is no wider than the scale. *)
LEMMA IntervalType ==
  ASSUME NEW t \in Tasks, NEW artifact \in t.reach, t.scorer # "Agent",
         NEW n \in Nat, n > 0, NEW v \in Int,
         t.scorer \notin {"Proof", "Forecast"} => v \in 0..Scale
  PROVE  LET interval == Interval(t, artifact, n, v)
         IN  /\ interval.low \in Int /\ interval.high \in Int
             /\ interval.high - interval.low <= Scale
<1>. DEFINE interval == Interval(t, artifact, n, v)
            sampled == IF Refused(t, artifact) \/ n = 1 THEN 0 ELSE SampleHalf(Noise(t), n)
<1>1. artifact \in ArtifactOf(t.scorer) /\ t.scorer \in SearchScorers \cup RefereeScorers
  BY TaskAssumption
<1>2. Scale = 10000 /\ 0..Scale \subseteq Int
  BY DEF Scale
<1>4. ASSUME NEW half \in Nat
      PROVE  Unit(v - half) \in 0..Scale /\ Unit(v + half) \in 0..Scale
  <2>1. v - half \in Int /\ v + half \in Int
    OBVIOUS
  <2>2. QED
    BY <2>1, UnitType
<1>5. CASE t.scorer \in Sampled
  <2>1. interval = [low |-> v - sampled, high |-> v + sampled]
    BY <1>5 DEF Interval, Sampled
  <2>2. sampled \in 0..5000
    <3>. DEFINE half == SampleHalf(Noise(t), n)
    <3>1. IsAmplitude(Noise(t))
      BY <1>5 DEF Noise, Sampled, IsAmplitude
    <3>2. IsSmall(half)
      BY <3>1, SampleHalfType
    <3>. HIDE DEF half
    <3>3. sampled \in {0, half}
      BY DEF half
    <3>. HIDE DEF sampled
    <3>4. QED
      BY <3>2, <3>3 DEF IsSmall
  <2>. HIDE DEF sampled
  <2>3. v - sampled \in Int /\ v + sampled \in Int /\ (v + sampled) - (v - sampled) <= Scale
    BY <1>2, <2>2
  <2>4. QED
    BY <2>1, <2>3
<1>6. CASE t.scorer = "Linear"
  <2>1. interval = Wilson(v, n)
    BY <1>6 DEF Interval, Sampled
  <2>2. v \in 0..Scale
    BY <1>6
  <2>3. interval.low \in 0..Scale /\ interval.high \in 0..Scale
    BY <2>1, <2>2, WilsonType
  <2>. HIDE DEF interval
  <2>4. IsNarrow(interval)
    BY <2>3, NarrowOnScale
  <2>5. QED
    BY <2>4 DEF IsNarrow, interval
<1>7. CASE t.scorer \in {"PrivateOracle", "Hardware"}
  <2>. DEFINE half == OracleHalf(n)
  <2>1. half \in Nat
    BY OracleHalfType
  <2>2. interval = [low |-> Unit(v - half), high |-> Unit(v + half)]
    BY <1>7 DEF Interval, Sampled
  <2>. HIDE DEF half
  <2>3. interval.low \in 0..Scale /\ interval.high \in 0..Scale
    BY <1>4, <2>1, <2>2
  <2>. HIDE DEF interval
  <2>4. IsNarrow(interval)
    BY <2>3, NarrowOnScale
  <2>5. QED
    BY <2>4 DEF IsNarrow, interval
<1>8. CASE t.scorer = "HumanPanel"
  <2>. DEFINE half == PanelHalf(Sanitize(artifact.verdicts))
  <2>1. half \in Nat
    <3>1. artifact \in [verdicts : Seq(Int \cup {NotANumber})]
      BY <1>1, <1>8 DEF ArtifactOf
    <3>2. artifact.verdicts \in Seq(Int \cup {NotANumber})
      BY <3>1
    <3>3. QED
      BY <3>2, SanitizedPanel, HalfOfPanel
  <2>2. interval = [low |-> Unit(v - half), high |-> Unit(v + half)]
    BY <1>8 DEF Interval, Sampled
  <2>. HIDE DEF half
  <2>3. interval.low \in 0..Scale /\ interval.high \in 0..Scale
    BY <1>4, <2>1, <2>2
  <2>. HIDE DEF interval
  <2>4. IsNarrow(interval)
    BY <2>3, NarrowOnScale
  <2>5. QED
    BY <2>4 DEF IsNarrow, interval
<1>9. QED
  BY <1>1, <1>5, <1>6, <1>7, <1>8 DEF SearchScorers, RefereeScorers, Sampled

LEMMA SamplesType ==
  ASSUME NEW t \in Tasks, NEW artifact \in t.reach
  PROVE  Samples(t, artifact, HeldOut) \in Nat \ {0}
<1>1. artifact \in ArtifactOf(t.scorer) /\ t.n \in Nat
  BY TaskAssumption
<1>2. CASE t.scorer = "HumanPanel"
  <2>1. artifact \in [verdicts : Seq(Int \cup {NotANumber})]
    BY <1>1, <1>2 DEF ArtifactOf
  <2>2. IsPanel(Sanitize(artifact.verdicts))
    BY <2>1, SanitizedPanel
  <2>3. QED
    BY <1>2, <2>2 DEF Samples, IsPanel
<1>3. CASE t.scorer \in {"PrivateOracle", "Hardware", "Linear"}
  BY <1>3 DEF Samples, Points, HeldOut
<1>4. CASE t.scorer \notin {"HumanPanel", "PrivateOracle", "Hardware", "Linear"}
  <2>. DEFINE n == t.n
              most == Max({n, 1})
  <2>1. Samples(t, artifact, HeldOut) = most
    BY <1>4 DEF Samples
  <2>2. n \in Int /\ 1 \in Int
    BY <1>1
  <2>3. most \in {n, 1} /\ most >= 1
    BY ONLY <2>2, MaxOfTwo
  <2>. HIDE DEF most
  <2>4. QED
    BY <1>1, <2>1, <2>3
<1>5. QED
  BY <1>2, <1>3, <1>4

(* A measurement is of at least one sample, and no wider than the scale. *)
IsMeasured(m) ==
  /\ m.value \in Int /\ m.low \in Int /\ m.high \in Int
  /\ m.high - m.low <= Scale
  /\ m.n \in Nat \ {0}

(* What the referee measures of an artifact that is no agent, within the noise of
   its value. *)
LEMMA MeasuredNear ==
  ASSUME NEW t \in Tasks, NEW artifact \in t.reach, t.scorer # "Agent",
         NEW error \in Int, -Noise(t) <= error, error <= Noise(t)
  PROVE  /\ IsMeasured(Measurement(t, artifact, HeldOut, error))
         /\ Measurement(t, artifact, HeldOut, error).value
              <= Value(t, artifact, HeldOut) + Noise(t)
         /\ Measurement(t, artifact, HeldOut, error).value
              >= Value(t, artifact, HeldOut) - Noise(t)
<1>. DEFINE v == Value(t, artifact, HeldOut)
            noise == Noise(t)
            off == IF Refused(t, artifact) THEN 0 ELSE error
            mean == v + off
            value == IF t.scorer \in {"Proof", "Forecast"} THEN mean ELSE Unit(mean)
            n == Samples(t, artifact, HeldOut)
            interval == Interval(t, artifact, n, value)
            m == Measurement(t, artifact, HeldOut, error)
<1>1. m = [value |-> value, low |-> interval.low, high |-> interval.high, n |-> n]
  BY Zenon DEF Measurement
<1>2. /\ v \in Int /\ noise \in Nat /\ off \in Int /\ -noise <= off /\ off <= noise
      /\ t.scorer \notin {"Proof", "Forecast"} => v \in 0..Scale
  BY ValueType, NoiseType
<1>3. n \in Nat /\ n > 0
  BY SamplesType
<1>. HIDE DEF v, noise, off, n
<1>4. /\ value \in Int /\ value <= v + noise /\ value >= v - noise
      /\ t.scorer \notin {"Proof", "Forecast"} => value \in 0..Scale
  <2>1. mean \in Int /\ mean <= v + noise /\ mean >= v - noise
    BY <1>2
  <2>2. CASE t.scorer \in {"Proof", "Forecast"}
    BY <2>1, <2>2
  <2>3. CASE t.scorer \notin {"Proof", "Forecast"}
    <3>1. v \in 0..Scale
      BY <1>2, <2>3
    <3>2. Unit(v + off) <= v + noise /\ Unit(v + off) >= v - noise
      BY ONLY <1>2, <3>1, UnitNear
    <3>3. Unit(v + off) \in 0..Scale /\ Scale \in Nat
      <4>1. v + off \in Int
        BY <2>1
      <4>2. Unit(v + off) \in 0..Scale
        BY ONLY <4>1, UnitType
      <4>3. QED
        BY <4>2 DEF Scale
    <3>4. value = Unit(v + off)
      BY <2>3
    <3>5. QED
      BY <3>2, <3>3, <3>4
  <2>4. QED
    BY <2>2, <2>3
<1>. HIDE DEF value
<1>5. /\ interval.low \in Int /\ interval.high \in Int
      /\ interval.high - interval.low <= Scale
  BY <1>3, <1>4, IntervalType
<1>. HIDE DEF interval, m
<1>6. m.value = value /\ m.low = interval.low /\ m.high = interval.high /\ m.n = n
  BY <1>1
<1>7. IsMeasured(m)
  BY <1>3, <1>4, <1>5, <1>6 DEF IsMeasured
<1>8. m.value <= v + noise /\ m.value >= v - noise
  BY <1>4, <1>6
<1>9. QED
  BY <1>7, <1>8 DEF m, v, noise

LEMMA HalfWidthType ==
  ASSUME NEW m, IsMeasured(m)
  PROVE  HalfWidth(m) \in 0..Scale
<1>. DEFINE u == Unit(m.value)
            spread == (u * (Scale - u)) \div m.n
            width == m.high - m.low
<1>1. /\ m.value \in Int /\ width \in Int /\ width <= Scale /\ m.n \in Nat /\ m.n > 0
      /\ width > 0 <=> m.high > m.low
  BY DEF IsMeasured
<1>2. HalfWidth(m) = IF m.high > m.low THEN (width + 1) \div 2 ELSE (196 * Root(spread)) \div 100
  BY Zenon DEF HalfWidth
<1>3. u \in 0..Scale
  BY <1>1, UnitType
<1>. HIDE DEF u
<1>4. spread \in Nat /\ spread <= 5000 * 5000
  <2>. DEFINE product == u * (Scale - u)
  <2>1. product \in Nat /\ product <= 5000 * 5000
    <3>. DEFINE k == 5000 - u
    <3>1. u \in Int /\ k \in Int
      BY <1>3 DEF Scale
    <3>. HIDE DEF k
    <3>2. k * k >= 0
      BY <3>1
    <3>3. (5000 - u) * (5000 - u) >= 0
      BY <3>2 DEF k
    <3>4. (5000 - u) * (5000 - u) = 5000 * 5000 - u * (10000 - u) /\ u * (10000 - u) \in Int
      BY <3>1
    <3>5. u * (10000 - u) >= 0
      BY <1>3 DEF Scale
    <3>6. QED
      BY <3>3, <3>4, <3>5 DEF Scale
  <2>. HIDE DEF product
  <2>. DEFINE n == m.n
  <2>2. n \in Nat /\ n > 0
    BY <1>1
  <2>. HIDE DEF n
  <2>3. product <= n * product
    BY <2>1, <2>2
  <2>4. product \div n \in 0..product
    BY ONLY <2>1, <2>2, <2>3, Quotient
  <2>5. product \div n \in Nat /\ product \div n <= 5000 * 5000
    BY <2>1, <2>4
  <2>6. QED
    BY <2>5 DEF product, n
<1>. HIDE DEF spread, width
<1>5. Root(spread) \in 0..5000
  <2>1. IsVariance(spread)
    BY <1>4 DEF IsVariance
  <2>2. QED
    BY ONLY <2>1, SmallRoot
<1>. DEFINE root == Root(spread)
            full == (width + 1) \div 2
<1>6. root \in 0..5000
  BY <1>5
<1>. HIDE DEF root
<1>. DEFINE rooted == (196 * root) \div 100
<1>7. rooted \in 0..10000
  BY <1>6
<1>8. width > 0 => full \in 0..10000
  BY <1>1 DEF Scale
<1>9. Scale = 10000
  BY DEF Scale
<1>10. HalfWidth(m) = IF m.high > m.low THEN full ELSE rooted
  BY <1>2 DEF root
<1>. HIDE DEF full, rooted
<1>11. QED
  BY <1>1, <1>7, <1>8, <1>9, <1>10

(* The lower bound of a lift is none above it. *)
LEMMA LiftBelow ==
  ASSUME NEW candidate, IsMeasured(candidate), NEW baseline, IsMeasured(baseline)
  PROVE  LET lift == EstimateLift(candidate, baseline)
         IN  lift.lower \in Int /\ lift.lower <= candidate.value - baseline.value
<1>. DEFINE h1 == HalfWidth(candidate)
            h2 == HalfWidth(baseline)
            both == Square(h1) + Square(h2)
            root == Root(both)
            delta == candidate.value - baseline.value
            lift == EstimateLift(candidate, baseline)
<1>1. h1 \in 0..Scale /\ h2 \in 0..Scale
  BY HalfWidthType
<1>2. lift.lower = delta - root
  BY DEF EstimateLift
<1>. HIDE DEF h1, h2
<1>3. both \in Nat /\ both <= Square(2 * Scale)
  <2>1. Scale \in Nat /\ h1 \in Nat /\ h2 \in Nat /\ h1 <= Scale /\ h2 <= Scale
    BY <1>1 DEF Scale
  <2>2. h1 * h1 <= Scale * Scale /\ h2 * h2 <= Scale * Scale
    BY <2>1
  <2>3. h1 * h1 \in Nat /\ h2 * h2 \in Nat /\ Scale * Scale \in Nat
    BY <2>1
  <2>4. (2 * Scale) * (2 * Scale) = 4 * (Scale * Scale)
    BY <2>1
  <2>5. QED
    BY <2>2, <2>3, <2>4 DEF Square
<1>. HIDE DEF both
<1>4. root \in Nat
  <2>1. root \in 0..(2 * Scale)
    BY <1>3, RootExists
  <2>2. 2 * Scale \in Nat
    BY SMT DEF Scale
  <2>. HIDE DEF root
  <2>3. QED
    BY ONLY <2>1, <2>2
<1>5. delta \in Int
  BY DEF IsMeasured
<1>. HIDE DEF root, delta
<1>6. delta - root \in Int /\ delta - root <= delta
  BY <1>4, <1>5
<1>7. QED
  BY <1>2, <1>6 DEF delta

(* What the referee refuses measures no more than anything else. *)
LEMMA RefusedLoses ==
  ASSUME NEW t \in Tasks, NEW artifact \in t.reach, NEW other \in t.reach,
         NEW e1 \in Int, NEW e2 \in Int, -Noise(t) <= e2, e2 <= Noise(t),
         Refused(t, artifact)
  PROVE  Measurement(t, artifact, HeldOut, e1).value
           <= Measurement(t, other, HeldOut, e2).value
<1>. DEFINE m1 == Measurement(t, artifact, HeldOut, e1).value
            m2 == Measurement(t, other, HeldOut, e2).value
            v == Value(t, artifact, HeldOut)
            w == Value(t, other, HeldOut)
            off == IF Refused(t, other) THEN 0 ELSE e2
<1>1. v \in Int /\ w \in Int /\ off \in Int
  BY ValueType
<1>2. CASE t.scorer = "Proof"
  <2>1. m1 = v + 0 /\ m2 = w + off
    BY <1>2 DEF Measurement
  <2>2. v = InvalidValue
    BY <1>2 DEF Refused, Value, ProofValue
  <2>3. InvalidValue \in Int /\ InvalidValue <= 0
    BY DEF InvalidValue, Scale
  <2>4. CASE Refused(t, other)
    <3>1. w = InvalidValue /\ off = 0
      BY <1>2, <2>4 DEF Refused, Value, ProofValue
    <3>2. QED
      BY <1>1, <2>1, <2>2, <2>3, <3>1
  <2>5. CASE ~Refused(t, other)
    <3>. DEFINE d == other.distance
    <3>1. other \in [finite : BOOLEAN, distance : Nat]
      BY <1>2, TaskAssumption DEF ArtifactOf
    <3>2. d \in Nat /\ d <= 10
      BY <1>2, <2>5, <3>1 DEF Refused, Accepted, Radius, HeldOut
    <3>3. w = 98 * Scale - d * 8000
      BY <1>2, <2>5 DEF Refused, Value, ProofValue
    <3>4. off >= -200
      BY <1>2, <2>5 DEF Noise
    <3>. HIDE DEF d, off, w
    <3>5. 98 * Scale >= 980 * 1000 /\ 98 * Scale \in Int
      BY DEF Scale
    <3>6. w >= 900 * 1000
      BY <3>2, <3>3, <3>5
    <3>7. w + off >= 0
      BY <1>1, <3>4, <3>6
    <3>8. QED
      BY <1>1, <2>1, <2>2, <2>3, <3>7
  <2>6. QED
    BY <2>4, <2>5
<1>3. CASE t.scorer = "Program"
  <2>1. m1 = Unit(v + 0) /\ m2 = Unit(w + off)
    BY <1>3 DEF Measurement
  <2>2. v = 0
    BY <1>3 DEF Refused, Value, MeanSpeedup
  <2>3. Unit(v + 0) <= 0
    BY <2>2, UnitType
  <2>4. w + off \in Int /\ Scale \in Nat
    BY <1>1 DEF Scale
  <2>5. Unit(w + off) \in 0..Scale /\ Unit(v + 0) \in 0..Scale
    BY <1>1, <2>4, UnitType
  <2>6. QED
    BY <2>1, <2>3, <2>4, <2>5
<1>4. QED
  BY <1>2, <1>3 DEF Refused

(* What the gate clears holds up on the held-out split. *)
HoldsUp(t, artifact) ==
  /\ ~Refused(t, artifact)
  /\ t.scorer # "Agent" =>
       Value(t, artifact, HeldOut) - Value(t, t.start, HeldOut)
         >= TheGate.minLower - 2 * Noise(t)

LEMMA ClearedHoldsUp ==
  ASSUME NEW t \in Tasks, NEW artifact \in t.reach, t.scorer # "Agent",
         NEW e1 \in Int, -Noise(t) <= e1, e1 <= Noise(t),
         NEW e2 \in Int, -Noise(t) <= e2, e2 <= Noise(t),
         TheGate.minLower > 0,
         Clears(TheGate, EstimateLift(Measurement(t, artifact, HeldOut, e1),
                                      Measurement(t, t.start, HeldOut, e2)))
  PROVE  HoldsUp(t, artifact)
<1>. DEFINE m1 == Measurement(t, artifact, HeldOut, e1)
            m2 == Measurement(t, t.start, HeldOut, e2)
            lift == EstimateLift(m1, m2)
            v == Value(t, artifact, HeldOut)
            w == Value(t, t.start, HeldOut)
            noise == Noise(t)
            bar == TheGate.minLower
<1>1. t.start \in t.reach /\ TheGate \in Gate
  BY TaskAssumption
<1>2. v \in Int /\ w \in Int /\ noise \in Nat /\ bar \in Int /\ bar > 0
  BY <1>1, ValueType, NoiseType DEF Gate
<1>3. IsMeasured(m1) /\ m1.value <= v + noise
  BY MeasuredNear
<1>4. IsMeasured(m2) /\ m2.value >= w - noise
  BY <1>1, MeasuredNear
<1>5. lift.lower \in Int /\ lift.lower <= m1.value - m2.value
  BY <1>3, <1>4, LiftBelow
<1>6. lift.lower >= bar
  BY DEF Clears
<1>7. Refused(t, artifact) => m1.value <= m2.value
  BY <1>1, RefusedLoses
<1>8. m1.value \in Int /\ m2.value \in Int
  BY <1>3, <1>4 DEF IsMeasured
<1>. HIDE DEF m1, m2, lift, v, w, noise, bar
<1>9. ~Refused(t, artifact)
  BY <1>2, <1>5, <1>6, <1>7, <1>8
<1>10. v - w >= bar - 2 * noise
  BY <1>2, <1>3, <1>4, <1>5, <1>6, <1>8
<1>11. QED
  BY <1>9, <1>10 DEF HoldsUp, v, w, noise, bar

WinInv ==
  /\ \E Rows : results \in Seq(Rows)
  /\ \A i \in DOMAIN results : results[i].cleared => HoldsUp(task, results[i].artifact)

LEMMA WinStep ==
  ASSUME TheGate.minLower > 0, SearchTypes, WinInv, [SearchNext]_searchVars
  PROVE  WinInv'
<1>1. ASSUME UNCHANGED <<task, results>> PROVE WinInv'
  BY <1>1 DEF WinInv, HoldsUp
<1>2. CASE StartOracleSearch
  BY <1>1, <1>2 DEF StartOracleSearch
<1>3. CASE StartLocalSearch
  BY <1>1, <1>3 DEF StartLocalSearch
<1>4. ASSUME NEW candidate \in task.reach, Propose(candidate) PROVE WinInv'
  BY <1>1, <1>4 DEF Propose
<1>5. CASE EndSearch
  BY <1>1, <1>5 DEF EndSearch
<1>6. ASSUME NEW candidate \in task.reach, Submit(candidate) PROVE WinInv'
  BY <1>1, <1>6 DEF Submit
<1>7. CASE FailRun
  <2>1. results' = <<>> /\ DOMAIN <<>> = {} /\ <<>> \in Seq({})
    BY <1>7 DEF FailRun
  <2>2. QED
    BY <2>1 DEF WinInv
<1>8. ASSUME NEW error \in Disturbances(task), NEW other \in Disturbances(task),
             Certify(error, other)
      PROVE  WinInv'
  <2>. DEFINE lift == EstimateLift(Measurement(task, best, HeldOut, error),
                                   Measurement(task, task.start, HeldOut, other))
              row == [artifact |-> best, seen |-> seen, lift |-> lift,
                      cleared |-> Clears(TheGate, lift)]
  <2>1. results' = Append(results, row) /\ task' = task
    BY <1>8 DEF Certify, RefereeSplit
  <2>2. task \in Tasks /\ best \in task.reach
    BY DEF SearchTypes
  <2>3. /\ error \in Int /\ -Noise(task) <= error /\ error <= Noise(task)
        /\ other \in Int /\ -Noise(task) <= other /\ other <= Noise(task)
    BY <1>8, DisturbanceType
  <2>4. row.cleared => HoldsUp(task, row.artifact)
    <3>1. row.artifact = best /\ row.cleared = Clears(TheGate, lift)
      OBVIOUS
    <3>2. CASE task.scorer = "Agent"
      BY <3>1, <3>2 DEF HoldsUp, Refused
    <3>3. CASE task.scorer # "Agent"
      <4>1. Clears(TheGate, lift) => HoldsUp(task, best)
        BY <2>2, <2>3, <3>3, ClearedHoldsUp
      <4>2. QED
        BY <3>1, <4>1
    <3>4. QED
      BY <3>2, <3>3
  <2>. HIDE DEF row
  <2>5. RowsAndOne(results, results', row)
    BY <2>1, RowsGrow DEF WinInv
  <2>6. ASSUME NEW i \in DOMAIN results', results'[i].cleared
        PROVE  HoldsUp(task, results'[i].artifact)
    <3>1. CASE results'[i] = row
      BY <2>4, <2>6, <3>1
    <3>2. CASE i \in DOMAIN results /\ results'[i] = results[i]
      BY <2>6, <3>2 DEF WinInv
    <3>3. QED
      BY <2>5, <3>1, <3>2 DEF RowsAndOne
  <2>7. QED
    BY <2>1, <2>5, <2>6 DEF WinInv, RowsAndOne, HoldsUp
<1>9. CASE UNCHANGED searchVars
  BY <1>1, <1>9 DEF searchVars
<1>10. QED
  BY <1>2, <1>3, <1>4, <1>5, <1>6, <1>7, <1>8, <1>9 DEF SearchNext

(* "A researcher who over-searches the dev signal": under a gate that asks for
   some lift, whatever was made of the development split, nobody clears it with
   a proof that the stricter checker rejects or a program that is wrong, and,
   agents apart, the lift on the held-out split falls short of the gate by no
   more than the noise of two scores. *)
THEOREM WinnersHold ==
  ASSUME TheGate.minLower > 0
  PROVE  SearchSpec => []WinnersHoldUp
<1>1. SearchInit => SearchTypes /\ WinInv
  <2>1. SUFFICES ASSUME SearchInit PROVE WinInv
    BY SearchStarts
  <2>2. results = <<>> /\ DOMAIN <<>> = {} /\ <<>> \in Seq({})
    BY <2>1 DEF SearchInit
  <2>3. QED
    BY <2>2 DEF WinInv
<1>2. SearchTypes /\ WinInv /\ [SearchNext]_searchVars => (SearchTypes /\ WinInv)'
  BY TypesStep, WinStep
<1>3. WinInv => WinnersHoldUp
  BY DEF WinInv, WinnersHoldUp, HoldsUp
<1>4. QED
  BY <1>1, <1>2, <1>3, PTL DEF SearchSpec

=============================================================================
