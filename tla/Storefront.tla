----------------------------- MODULE Storefront -----------------------------
(***************************************************************************)
(* What the pages of the shop promise about one offer to one customer, and *)
(* what checkout then does.  Six services decide it, each by rules of its  *)
(* own, from the same rows: the store and its hours, the category, the     *)
(* product, the offer.  A page and a checkout that read the same rows are  *)
(* compared here; what changes in between is Checkout's and CheckoutPage's *)
(* matter.  A fee is known by where its two parts come from.               *)
(***************************************************************************)
EXTENDS Naturals

CONSTANTS
  Distances,      \* from the customer to the store
  Radii,          \* service radii a store or category may set
  DefaultRadius,  \* DEFAULT_FOOD_RADIUS_KM
  MaxRadius,      \* MAX_FOOD_RADIUS_KM
  Null

\* The DTOs of stores and categories cap the radius.
ASSUME RadiusAssumption == /\ Distances \subseteq Nat /\ Null \notin Distances \cup Radii
                           /\ DefaultRadius \in 0..MaxRadius /\ MaxRadius \in Nat
                           /\ Radii \subseteq 0..MaxRadius

VARIABLES
  shop,     \* the store, as the customer stands to it
  section,  \* the category of the product
  offer     \* the store's offer and its product

shopVars == <<shop, section, offer>>

-----------------------------------------------------------------------------
FeeParts == {"base", "perKm"}
Shops == [isOpen  : BOOLEAN,
          inHours : BOOLEAN,
          at      : Distances \cup {Null},
          radius  : Radii \cup {Null},
          fees    : SUBSET FeeParts]
Sections == [type : {"FOOD", "MARKETPLACE"}, radius : Radii \cup {Null},
             fees : SUBSET FeeParts]
Offers == [isActive : BOOLEAN, stocked : BOOLEAN, published : BOOLEAN]

ShopTypeOK == shop \in Shops /\ section \in Sections /\ offer \in Offers

\* The store is an active one: only such a store gets offers, and it stays so
\* (ApprovedStays).
StorefrontInit ==
  /\ shop = [isOpen |-> TRUE, inHours |-> TRUE, at |-> Null, radius |-> Null, fees |-> {}]
  /\ section \in [type : {"FOOD", "MARKETPLACE"}, radius : {Null}, fees : {{}}]
  /\ offer = [isActive |-> TRUE, stocked |-> TRUE, published |-> TRUE]

-----------------------------------------------------------------------------
(* Who changes the rows.                                                   *)

\* toggleOpen and updateMine, whose location the customer is at a distance of.
SellerEditsStore ==
  /\ \/ shop' = [shop EXCEPT !.isOpen = ~@]
     \/ \E d \in Distances : shop' = [shop EXCEPT !.at = d]
     \/ \E r \in Radii : shop' = [shop EXCEPT !.radius = r]
     \/ \E f \in FeeParts : shop' = [shop EXCEPT !.fees = @ \cup {f}]
  /\ UNCHANGED <<section, offer>>

HoursPass ==
  /\ shop' = [shop EXCEPT !.inHours = ~@]
  /\ UNCHANGED <<section, offer>>

AdminEditsCategory ==
  /\ \/ \E r \in Radii : section' = [section EXCEPT !.radius = r]
     \/ \E f \in FeeParts : section' = [section EXCEPT !.fees = @ \cup {f}]
  /\ UNCHANGED <<shop, offer>>

\* Sales, restocking, the switch of the offer, archiving of the product, which
\* leaves the offer as it is.
OfferMoves ==
  /\ \/ offer' = [offer EXCEPT !.isActive = ~@ /\ offer.stocked]
     \/ offer' = [offer EXCEPT !.stocked = ~@]
     \/ offer' = [offer EXCEPT !.published = FALSE]
  /\ UNCHANGED <<shop, section>>

StorefrontNext == SellerEditsStore \/ HoursPass \/ AdminEditsCategory \/ OfferMoves

StorefrontSpec == StorefrontInit /\ [][StorefrontNext]_shopVars

-----------------------------------------------------------------------------
(* The shared rules.                                                       *)

\* isStoreOpenNow and the switch of the store.
OpenNow == shop.isOpen /\ shop.inHours
Located == shop.at # Null
IsFood == section.type = "FOOD"

\* effectiveFoodRadiusKm: store, category, default.
EffectiveFoodRadius(r) ==
  IF shop.radius # Null THEN shop.radius ELSE IF r # Null THEN r ELSE DefaultRadius

NoFee == [f \in {} |-> Null]

\* computeDeliveryFee: each part from the store or else the category; a part
\* nobody sets means that delivery is not configured.
DeliveryFee(categoryFees) ==
  IF FeeParts \subseteq shop.fees \cup categoryFees
  THEN [f \in FeeParts |-> IF f \in shop.fees THEN "store" ELSE "category"]
  ELSE NoFee

-----------------------------------------------------------------------------
(* Checkout and the quote that "mirrors" it.                               *)

CheckoutAccepts ==
  /\ OpenNow
  /\ offer.isActive /\ offer.stocked
  /\ Located /\ IsFood => shop.at <= EffectiveFoodRadius(section.radius)

\* What is not configured, or has no distance, costs nothing.
CheckoutFee == IF Located THEN DeliveryFee(section.fees) ELSE NoFee

QuoteDelivers ==
  /\ OpenNow
  /\ Located
  /\ IsFood => shop.at <= EffectiveFoodRadius(section.radius)

QuoteFee == IF OpenNow /\ Located THEN DeliveryFee(section.fees) ELSE NoFee

-----------------------------------------------------------------------------
(* The pages.                                                              *)

\* A list of products, of a category that is named or of all of them, for a
\* customer who told where he is.  Only a named category gates food and lends
\* its fees.
ListShows(named) ==
  /\ offer.published /\ offer.isActive /\ offer.stocked
  /\ named /\ IsFood => /\ Located /\ shop.at <= MaxRadius
                        /\ OpenNow
                        /\ shop.at <= EffectiveFoodRadius(section.radius)

CardFee(named) ==
  IF Located /\ shop.at <= (IF named /\ IsFood THEN MaxRadius ELSE DefaultRadius)
  THEN DeliveryFee(IF named THEN section.fees ELSE {}) ELSE NoFee

\* Slip: a store that is closed is not told apart.
DetailSellsClosed ==
  /\ offer.published /\ offer.isActive /\ offer.stocked
  /\ Located /\ IsFood => shop.at <= EffectiveFoodRadius(section.radius)

\* The product page: the buy button of this offer.
DetailSells ==
  /\ offer.published /\ offer.isActive /\ offer.stocked
  /\ IsFood => /\ OpenNow
               /\ Located => shop.at <= EffectiveFoodRadius(section.radius)

DetailFee == IF Located /\ DetailSells THEN DeliveryFee(section.fees) ELSE NoFee

\* Stores nearby, within the radius the customer asked for.
NearbyShows(asked) ==
  /\ OpenNow /\ Located
  /\ shop.at <= asked /\ shop.at <= EffectiveFoodRadius(Null)

\* The store's own page; it knows no category.
MenuDelivers == OpenNow /\ (Located => shop.at <= EffectiveFoodRadius(Null))
MenuFee == IF Located THEN DeliveryFee({}) ELSE NoFee

\* Its products, each by an offer that goes straight to the cart.
MenuShows == offer.published /\ offer.isActive /\ offer.stocked

\* The list of stores, of a category that is named or of all of them; no radius
\* gates it.
StoresListed(named) ==
  /\ OpenNow
  /\ named => offer.published /\ offer.isActive /\ offer.stocked

\* openNow on the card of a featured store, which is shown closed or not.
FeaturedOpen == OpenNow

\* hasActiveOffers, whatever became of the products.
HasActiveOffers == offer.isActive /\ offer.stocked

-----------------------------------------------------------------------------
\* The list of a food category shows exactly what checkout would deliver, at the
\* fee it charges.  The list of all products leaves nothing of that out, and a
\* fee on any card is the one that is charged.
ListsAgree ==
  /\ IsFood => /\ ListShows(TRUE) <=> offer.published /\ Located /\ CheckoutAccepts
               /\ ListShows(TRUE) => CardFee(TRUE) = CheckoutFee
  /\ offer.published /\ CheckoutAccepts => ListShows(FALSE)
  /\ \A named \in BOOLEAN : CardFee(named) # NoFee => CardFee(named) = CheckoutFee

\* The product page sells what checkout takes, at the fee it charges.  The one
\* difference is the marketplace offer of a store that is closed: the page sells
\* it, as it "ships regardless", and checkout refuses it.
PageSellsWhatIsTaken ==
  /\ DetailSells /\ OpenNow <=> offer.published /\ CheckoutAccepts
  /\ DetailSells /\ ~CheckoutAccepts => ~IsFood /\ ~OpenNow
  /\ DetailSells => DetailFee = CheckoutFee

\* The quote says that the cart can be delivered exactly when checkout takes
\* it, and names the fee that is charged; but for stores without a location,
\* which checkout serves and the quote refuses, and offers, which only checkout
\* looks at.
QuoteMirrorsCheckout ==
  /\ QuoteDelivers /\ offer.isActive /\ offer.stocked <=> Located /\ CheckoutAccepts
  /\ QuoteDelivers => QuoteFee = CheckoutFee

\* The store's page and the stores nearby know no category.  For food they differ
\* from the quote only at distances between the default radius and the one the
\* category sets for stores that set none; of other goods they promise no
\* delivery that the quote refuses.  A fee that the page shows is charged.
BetweenRadii ==
  /\ shop.radius = Null /\ section.radius # Null
  /\ (shop.at <= DefaultRadius) # (shop.at <= section.radius)

MenuAgrees ==
  /\ Located => /\ MenuDelivers # QuoteDelivers => ~IsFood \/ BetweenRadii
                /\ MenuDelivers /\ ~IsFood => QuoteDelivers
                /\ \A asked \in Distances : NearbyShows(asked) => MenuDelivers
  /\ MenuFee # NoFee => MenuFee = CheckoutFee

\* No store that checkout serves is missing from a list of stores or called
\* closed, and its menu has the offer; a store found under a category has
\* something on its page.  What its menu offers for delivery checkout takes, but
\* between the two radii.
StoresAgree ==
  /\ CheckoutAccepts => StoresListed(FALSE) /\ FeaturedOpen /\ HasActiveOffers
  /\ CheckoutAccepts /\ offer.published => StoresListed(TRUE) /\ MenuShows
  /\ StoresListed(TRUE) => MenuShows /\ HasActiveOffers
  /\ MenuShows /\ MenuDelivers => CheckoutAccepts \/ (IsFood /\ Located /\ BetweenRadii)

\* What lists, product page, quote and store's page promise of one offer is what
\* checkout does, but for the differences each part names: a store without a
\* location, a marketplace offer of a closed store, a category's radius.
PagesAgree ==
  ListsAgree /\ PageSellsWhatIsTaken /\ QuoteMirrorsCheckout /\ MenuAgrees /\ StoresAgree

=============================================================================
