-------------------------- MODULE ArtifactListings --------------------------
(***************************************************************************)
(* The certified-artifact marketplace of CompetitionManager.sol, together  *)
(* with the settlement spine it shares a balance and a call stack with:    *)
(* ContractSpec is the contract with both halves.                          *)
(***************************************************************************)
EXTENDS CompetitionManager

CONSTANTS
  Prices,      \* bound: the asking prices
  MaxListings  \* bound: how many listings are ever made

ASSUME ListingsAssumption ==
  /\ Prices \subseteq Nat
  /\ MaxListings \in Nat

VARIABLES
  listings,  \* listing ids are positions: nextListingId is Len(listings)
  sales      \* ghost: listing -> its ArtifactSold events, counted if exclusive

listingVars == <<listings, sales>>
contractVars == <<vars, listingVars>>

Listing ==
  [seller : Addresses, price : Nat \ {0}, provenance : CompetitionIds,
   exclusive : BOOLEAN, sold : BOOLEAN]

ListingsTypeOK ==
  /\ listings \in Seq(Listing)
  /\ sales \in Seq(Nat)
  /\ Len(sales) = Len(listings)

ContractInit == Init /\ listings = <<>> /\ sales = <<>>

CanList(c, price) == price # 0 /\ Exists(c)

ListArtifact(c, seller, price, exclusive) ==
  /\ CanList(c, price)
  /\ Len(listings) < MaxListings
  /\ listings' = Append(listings,
       [seller |-> seller, price |-> price, provenance |-> c,
        exclusive |-> exclusive, sold |-> FALSE])
  /\ sales' = Append(sales, 0)
  /\ UNCHANGED vars

(* Mutant of CanBuy: the value sent is not compared with the price. *)
CanBuyForLess(listing, buyer, value) ==
  ~(listing.exclusive /\ listing.sold) /\ buyer # listing.seller

CanBuy(listing, buyer, value) ==
  /\ ~(listing.exclusive /\ listing.sold)
  /\ value = listing.price
  /\ buyer # listing.seller

(* Mutant of MarkSold: an exclusive listing is not marked. *)
LeaveUnmarked(listing) == listing

MarkSold(listing) == [listing EXCEPT !.sold = @ \/ listing.exclusive]

BuyArtifact(id, buyer, value) ==
  LET listing == listings[id]
  IN  /\ CanBuy(listing, buyer, value)
      /\ listings' = [listings EXCEPT ![id] = MarkSold(@)]
      /\ sales' = [sales EXCEPT ![id] = IF listing.exclusive THEN @ + 1 ELSE @]
      /\ PassOn(buyer, value, listing.seller, listing.price)
      /\ UNCHANGED managerVars

Trade(caller) ==
  \/ \E c \in CompetitionIds, price \in Prices, exclusive \in BOOLEAN :
       ListArtifact(c, caller, price, exclusive)
  \/ \E id \in DOMAIN listings, value \in MsgValues : BuyArtifact(id, caller, value)

ContractNext ==
  \/ Next /\ UNCHANGED listingVars
  \/ \E caller \in Callers : Trade(caller)

ContractSpec == ContractInit /\ [][ContractNext]_contractVars

-----------------------------------------------------------------------------
(* An exclusive licence is sold at most once, even when the seller re-enters
   from the transfer of its price, and is marked sold exactly when it was. *)
ExclusiveSoldOnce ==
  \A id \in DOMAIN listings :
    listings[id].exclusive => sales[id] = IF listings[id].sold THEN 1 ELSE 0

=============================================================================
