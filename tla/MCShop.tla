------------------------------- MODULE MCShop -------------------------------
(***************************************************************************)
(* What sellers, customers and admins keep around an order shares no       *)
(* variable: part picks the one that a behaviour is about, so that one run *)
(* checks each of them by itself.                                          *)
(***************************************************************************)
EXTENDS Listings, Addresses, Uploads, CategoryTree, Attributes, Storefront, Feedback,
        CheckoutPage, CartRows, Browse, Opening, Payouts, TLC

CONSTANTS i1, i2, i3, h1, h2, k1, k2, w1, w2, e1, e2, a1, a2, v1, c1, c2, g1, g2, m1

MCOwnerOf == e1 :> w1 @@ e2 :> w2
MCValueOf == v1 :> a1
MCInRange == {<<m1, g1>>}

\* Each category links one attribute, and a save brings the one value under its
\* own attribute, under the other one, or no entry.
MCLinks == {<<c1, a1>>, <<c2, a2>>}
MCPayloads == {a1 :> v1 @@ a2 :> "none", a1 :> "none" @@ a2 :> v1,
               a1 :> "none" @@ a2 :> "none"}

\* Rows are drawn from one set, handlers from another, calls from a third.  A
\* swap of two rows swaps the others with it: few permutations serve all parts.
Odd(p) == Cardinality({i \in DOMAIN p : p[i] = i}) = 1
Pair(x, y, swapped) == IF swapped THEN x :> y @@ y :> x ELSE x :> x @@ y :> y
Symmetry ==
  {p @@ Pair(h1, h2, Odd(p)) @@ Pair(k1, k2, Odd(p)) : p \in Permutations({i1, i2, i3})}

VARIABLE part

shopRunVars == <<part, listingVars, addressVars, uploadVars, treeVars, attributeVars,
                 shopVars, feedbackVars, pageVars, cartRowVars, browseVars,
                 openingVars, payoutVars>>

\* In the runs of the others, listings, uploads and storefront have one initial
\* state, and the other parts no state at all.
ShopInit ==
  /\ part \in {"listings", "addresses", "uploads", "tree", "attributes", "storefront",
               "feedback", "page", "rows", "browse", "opening", "payouts"}
  /\ ListingsInit /\ (part # "listings" => \A p \in Products : product[p] = NoProduct)
  /\ UploadInit
  /\ StorefrontInit /\ (part # "storefront" => section.type = "FOOD")
  /\ IF part = "addresses" THEN AddressInit
     ELSE /\ address = {} /\ draft = {} /\ unset = {} /\ raced = {}
  /\ IF part = "tree" THEN TreeInit
     ELSE /\ parent = {} /\ stocked = {} /\ clerk = {} /\ cut = {}
          /\ jumbled = {}
  /\ IF part = "attributes" THEN AttributeInit
     ELSE /\ attr = {} /\ listed = {} /\ attached = {} /\ categoryId = {}
          /\ entry = {} /\ editor = {} /\ tangled = {} /\ astray = {}
          /\ moved = {}
  /\ IF part = "feedback" THEN FeedbackInit
     ELSE /\ reviews = {} /\ rating = {} /\ wish = {} /\ form = {} /\ begun = {}
          /\ latest = {} /\ crowded = {}
  /\ IF part = "page" THEN PageInit
     ELSE /\ cart = {} /\ added = {} /\ ordered = {} /\ shown = {}
          /\ answer = {} /\ selected = {} /\ quote = {} /\ loading = {}
          /\ asks = {} /\ submit = {}
  /\ IF part = "rows" THEN CartRowsInit
     ELSE /\ spot = {} /\ kept = {} /\ basket = {} /\ sent = {} /\ rowBusy = {}
          /\ waits = {} /\ want = {} /\ strayed = {}
  /\ IF part = "browse" THEN BrowseInit
     ELSE /\ saved = {} /\ usual = {} /\ location = {} /\ due = {}
          /\ lookup = {} /\ behind = {} /\ page = {} /\ read = {} /\ look = {}
          /\ seen = {} /\ reading = {} /\ failed = {} /\ picked = {}
          /\ chosen = {} /\ crossing = {}
  /\ IF part = "opening" THEN OpeningInit
     ELSE /\ openingHours = {} /\ today = {} /\ minute = {}
  /\ IF part = "payouts" THEN PayoutsInit
     ELSE /\ terms = {} /\ job = {} /\ claim = {} /\ stats = {} /\ owed = {}

ShopNext ==
  /\ UNCHANGED part
  /\ \/ /\ part = "listings" /\ ListingsNext
        /\ UNCHANGED <<addressVars, uploadVars, treeVars, attributeVars, shopVars,
                       feedbackVars, pageVars, cartRowVars, browseVars, openingVars,
                       payoutVars>>
     \/ /\ part = "addresses" /\ AddressNext
        /\ UNCHANGED <<listingVars, uploadVars, treeVars, attributeVars, shopVars,
                       feedbackVars, pageVars, cartRowVars, browseVars, openingVars,
                       payoutVars>>
     \/ /\ part = "uploads" /\ UploadNext
        /\ UNCHANGED <<listingVars, addressVars, treeVars, attributeVars, shopVars,
                       feedbackVars, pageVars, cartRowVars, browseVars, openingVars,
                       payoutVars>>
     \/ /\ part = "tree" /\ TreeNext
        /\ UNCHANGED <<listingVars, addressVars, uploadVars, attributeVars, shopVars,
                       feedbackVars, pageVars, cartRowVars, browseVars, openingVars,
                       payoutVars>>
     \/ /\ part = "attributes" /\ AttributeNext
        /\ UNCHANGED <<listingVars, addressVars, uploadVars, treeVars, shopVars,
                       feedbackVars, pageVars, cartRowVars, browseVars, openingVars,
                       payoutVars>>
     \/ /\ part = "storefront" /\ StorefrontNext
        /\ UNCHANGED <<listingVars, addressVars, uploadVars, treeVars, attributeVars,
                       feedbackVars, pageVars, cartRowVars, browseVars, openingVars,
                       payoutVars>>
     \/ /\ part = "feedback" /\ FeedbackNext
        /\ UNCHANGED <<listingVars, addressVars, uploadVars, treeVars, attributeVars,
                       shopVars, pageVars, cartRowVars, browseVars, openingVars,
                       payoutVars>>
     \/ /\ part = "page" /\ PageNext
        /\ UNCHANGED <<listingVars, addressVars, uploadVars, treeVars, attributeVars,
                       shopVars, feedbackVars, cartRowVars, browseVars, openingVars,
                       payoutVars>>
     \/ /\ part = "rows" /\ CartRowsNext
        /\ UNCHANGED <<listingVars, addressVars, uploadVars, treeVars, attributeVars,
                       shopVars, feedbackVars, pageVars, browseVars, openingVars,
                       payoutVars>>
     \/ /\ part = "browse" /\ BrowseNext
        /\ UNCHANGED <<listingVars, addressVars, uploadVars, treeVars, attributeVars,
                       shopVars, feedbackVars, pageVars, cartRowVars, openingVars,
                       payoutVars>>
     \/ /\ part = "opening" /\ OpeningNext
        /\ UNCHANGED <<listingVars, addressVars, uploadVars, treeVars, attributeVars,
                       shopVars, feedbackVars, pageVars, cartRowVars, browseVars,
                       payoutVars>>
     \/ /\ part = "payouts" /\ PayoutsNext
        /\ UNCHANGED <<listingVars, addressVars, uploadVars, treeVars, attributeVars,
                       shopVars, feedbackVars, pageVars, cartRowVars, browseVars,
                       openingVars>>

ShopSpec == ShopInit /\ [][ShopNext]_shopRunVars

-----------------------------------------------------------------------------
\* Rows, handlers and pages of all parts have their types.
ShopsTypeOK ==
  /\ part = "listings"   => ListingsTypeOK
  /\ part = "addresses"  => AddressTypeOK
  /\ part = "uploads"    => UploadTypeOK
  /\ part = "tree"       => TreeTypeOK
  /\ part = "attributes" => AttributeTypeOK
  /\ part = "storefront" => ShopTypeOK
  /\ part = "feedback"   => FeedbackTypeOK
  /\ part = "page"       => PageTypeOK
  /\ part = "rows"       => CartRowsTypeOK
  /\ part = "browse"     => BrowseTypeOK
  /\ part = "opening"    => OpeningTypeOK
  /\ part = "payouts"    => PayoutsTypeOK

\* Beside orders, however handlers and calls overlap and die: defaults and open
\* requests of a customer are no more than handlers that may overlap, a rating is
\* the one of its reviews, the checkout page confirms the quote of its address
\* and orders no piece twice, a row waits for a call that is out, the location
\* is a saved address, hours are those a seller means but for the one case
\* HoursAreKept names, and couriers are paid what they were promised.
RecordsStand ==
  /\ part = "addresses"  => DefaultsBounded
  /\ part = "feedback"   => RatingIsExact /\ RequestsBounded
  /\ part = "page"       => PageIsTrue
  /\ part = "rows"       => RowsSettle
  /\ part = "browse"     => LocationIsSaved
  /\ part = "opening"    => HoursAreKept
  /\ part = "payouts"    => PayoutsStand

\* What the code keeps only as long as two handlers, calls or reads of a part do
\* not overlap (each part says what it calls that): one default address, one
\* request of a kind, a cart that counts every press, a page for the place the
\* customer is at, a catalog without a cycle, and products with attributes of
\* their category.  Where they do overlap, the code gives each of them up.
RecordsStandAlone ==
  /\ part = "addresses"  => OneDefault
  /\ part = "feedback"   => RequestsStand
  /\ part = "rows"       => PressesCount
  /\ part = "browse"     => PageIsForHere /\ NothingForElsewhere
  /\ part = "tree"       => TreeHasNoCycle
  /\ part = "attributes" => AttributesStand

=============================================================================
