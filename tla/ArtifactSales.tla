---------------------------- MODULE ArtifactSales ----------------------------
(***************************************************************************)
(* The off-chain marketplace of autoresearch-runtime: sellers list what a  *)
(* referee has certified, and buyers buy it. What a seller claims of its   *)
(* artifact is any combination of what was certified and what was not; a   *)
(* certified lift may be no number at all.                                 *)
(***************************************************************************)
EXTENDS Gates, WeiArithmetic, Sequences, FiniteSets

CONSTANTS
  Attestations,  \* bound: what referees have certified
  Claims,        \* bound: what sellers say they sell
  SaleGate,      \* the gate of the producing competitions
  BaseFee,       \* PricingPolicy.base_wei
  LiftRate,      \* wei_per_micro_lift
  AskedPrices,   \* bound: what sellers ask, whatever the policy says
  Buyers,
  MaxListings, MaxSales  \* bounds

CertifiedAttestation == [artifact : STRING, provenance : STRING, lift : Lift]

ArtifactListing ==
  [artifact : STRING, provenance : STRING, lift : Lift, price : Nat,
   exclusive : BOOLEAN, consented : BOOLEAN, subGate : BOOLEAN]

ASSUME SalesAssumption ==
  /\ Attestations \subseteq CertifiedAttestation
  /\ Claims \subseteq [artifact : STRING, provenance : STRING, lift : Lift]
  /\ SaleGate \in Gate
  /\ {BaseFee, LiftRate} \subseteq 0..MaxWei
  /\ AskedPrices \subseteq 0..MaxWei

VARIABLES
  listings,  \* in the order of their ids
  sold,      \* the flags beside them
  sales      \* the ledger

salesVars == <<listings, sold, sales>>

SalesInit == listings = <<>> /\ sold = <<>> /\ sales = <<>>

-----------------------------------------------------------------------------
(* price_by_lift; a delta counts half micro-units. *)
PriceByLift(lift) ==
  LET micros == IF lift.finite /\ lift.delta > 0 THEN lift.delta \div 2 ELSE 0
  IN  SaturatingAdd(BaseFee, SaturatingMul(micros, LiftRate))

(* Mutant of Matches: the lift is not compared. *)
MatchesArtifact(attestation, listing) ==
  /\ listing.artifact = attestation.artifact
  /\ listing.provenance = attestation.provenance

(* Of the lifts that are not finite, an infinity has a sign and NaN has none. *)
IsNaN(lift) == ~lift.finite /\ lift.delta = 0

(* NaN equals no lift, itself included. *)
Matches(attestation, listing) ==
  /\ listing.artifact = attestation.artifact
  /\ listing.provenance = attestation.provenance
  /\ ~IsNaN(listing.lift) /\ listing.lift = attestation.lift

Listable(listing, attestation) ==
  /\ Matches(attestation, listing)
  /\ listing.consented
  /\ listing.price > 0
  /\ Clears(SaleGate, listing.lift) \/ listing.subGate

List(listing, attestation) ==
  /\ Len(listings) < MaxListings
  /\ Listable(listing, attestation)
  /\ listings' = Append(listings, listing)
  /\ sold' = Append(sold, FALSE)
  /\ UNCHANGED sales

Buy(id, buyer) ==
  /\ Len(sales) < MaxSales
  /\ id \in DOMAIN listings
  /\ ~(listings[id].exclusive /\ sold[id])
  /\ sold' = [sold EXCEPT ![id] = TRUE]
  /\ sales' = Append(sales, [listing |-> id, buyer |-> buyer,
                             artifact |-> listings[id].artifact,
                             provenance |-> listings[id].provenance,
                             lift |-> listings[id].lift, price |-> listings[id].price])
  /\ UNCHANGED listings

Offered(claim, price, exclusive, consented, subGate) ==
  [artifact |-> claim.artifact, provenance |-> claim.provenance, lift |-> claim.lift,
   price |-> price, exclusive |-> exclusive,
   consented |-> consented, subGate |-> subGate]

(* A seller may ask what the policy makes of the lift, and anything else. *)
SalesNext ==
  \/ \E claim \in Claims, attestation \in Attestations,
       exclusive, consented, subGate \in BOOLEAN :
       \E price \in AskedPrices \cup {PriceByLift(claim.lift)} :
         List(Offered(claim, price, exclusive, consented, subGate), attestation)
  \/ \E id \in DOMAIN listings, buyer \in Buyers : Buy(id, buyer)

SalesSpec == SalesInit /\ [][SalesNext]_salesVars

-----------------------------------------------------------------------------
(* Marketplace::list and buy: whoever buys, at whatever positive price, gets an
   artifact with the lift that some referee certified of it in the competition
   it is said to come from, knows if that lift is below the gate, and, when the
   listing is exclusive, is the only buyer of that listing: another listing of
   the same artifact is another license. *)
SoldAsCertified ==
  \A i \in DOMAIN sales :
    LET s == sales[i]
        listing == listings[s.listing]
    IN  /\ ~IsNaN(s.lift) /\ s.price > 0
        /\ [artifact |-> s.artifact, provenance |-> s.provenance, lift |-> s.lift]
             \in Attestations
        /\ Clears(SaleGate, s.lift) \/ listing.subGate
        /\ listing.exclusive =>
             \A j \in DOMAIN sales : sales[j].listing = s.listing => j = i

=============================================================================
