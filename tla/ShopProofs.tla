----------------------------- MODULE ShopProofs -----------------------------
(***************************************************************************)
(* Theorems about Storefront, Uploads, Listings, CartRows and Payouts, for *)
(* any rows, owners, claims, dishes and handlers in flight, which may die  *)
(* between any two calls; and about all parts of MCShop together, those of *)
(* RecordsProofs among them.                                               *)
(***************************************************************************)
EXTENDS MCShop, RecordsProofs, FiniteSetTheorems, TLAPS

-----------------------------------------------------------------------------
(* Storefront: the pages and checkout decide by the same rows.             *)

LEMMA StorefrontType == ASSUME ShopTypeOK, [StorefrontNext]_shopVars PROVE ShopTypeOK'
  <1> USE DEF ShopTypeOK, Shops, Sections, Offers, FeeParts
  <1>1. CASE SellerEditsStore
    <2>1. ASSUME NEW f \in FeeParts, shop' = [shop EXCEPT !.fees = @ \cup {f}]
          PROVE  shop' \in Shops
      <3>1. shop.fees \cup {f} \in SUBSET FeeParts
        BY <2>1
      <3> HIDE DEF FeeParts
      <3> QED
        BY <2>1, <3>1
    <2>2. shop' \in Shops
      BY <1>1, <2>1 DEF SellerEditsStore
    <2> QED
      BY <1>1, <2>2 DEF SellerEditsStore
  <1>2. CASE HoursPass
    BY <1>2 DEF HoursPass
  <1>3. CASE AdminEditsCategory
    BY <1>3 DEF AdminEditsCategory
  <1>4. CASE OfferMoves
    BY <1>4 DEF OfferMoves
  <1>5. CASE UNCHANGED shopVars
    BY <1>5 DEF shopVars
  <1> QED
    BY <1>1, <1>2, <1>3, <1>4, <1>5 DEF StorefrontNext

LEMMA StorefrontInitType == StorefrontInit => ShopTypeOK
  BY DEF StorefrontInit, ShopTypeOK, Shops, Sections, Offers

\* Every radius that can take effect is within the cap the lists search in.
LEMMA RadiusIsCapped ==
  ASSUME ShopTypeOK, NEW r \in Radii \cup {Null}
  PROVE  EffectiveFoodRadius(r) \in 0..MaxRadius
  BY RadiusAssumption DEF ShopTypeOK, Shops, EffectiveFoodRadius

LEMMA DistanceIsNat == ASSUME ShopTypeOK, Located PROVE shop.at \in Nat
  BY RadiusAssumption DEF ShopTypeOK, Shops, Located

\* A fee that needs nothing of the category is the same with it.
LEMMA StoreFeeIsFinal ==
  ASSUME DeliveryFee({}) # NoFee
  PROVE  DeliveryFee({}) = DeliveryFee(section.fees)
  <1>1. FeeParts \subseteq shop.fees
    BY DEF DeliveryFee
  <1>2. \A c : FeeParts \subseteq shop.fees \cup c
    BY <1>1
  <1>3. \A c : DeliveryFee(c) = [f \in FeeParts |-> IF f \in shop.fees THEN "store" ELSE "category"]
    BY <1>2 DEF DeliveryFee
  <1> QED
    BY <1>3

\* What lists show checkout delivers, at the fee on the card.
LEMMA ListsPromiseTruly == ASSUME ShopTypeOK PROVE ListsAgree
  <1> DEFINE R == EffectiveFoodRadius(section.radius)
  <1>1. R \in 0..MaxRadius
    BY RadiusIsCapped DEF ShopTypeOK, Sections
  <1>2. Located /\ shop.at <= R => shop.at <= MaxRadius
    BY <1>1, DistanceIsNat, RadiusAssumption
  <1> HIDE DEF R
  <1>3. CheckoutAccepts <=> /\ OpenNow /\ offer.isActive /\ offer.stocked
                            /\ Located /\ IsFood => shop.at <= R
    BY DEF CheckoutAccepts, R
  <1>4. ASSUME IsFood
        PROVE  ListShows(TRUE) <=> /\ offer.published /\ offer.isActive /\ offer.stocked
                                   /\ Located /\ shop.at <= MaxRadius /\ OpenNow /\ shop.at <= R
    BY <1>4 DEF ListShows, R
  <1>5. ASSUME IsFood
        PROVE  /\ ListShows(TRUE) <=> offer.published /\ Located /\ CheckoutAccepts
               /\ ListShows(TRUE) => CardFee(TRUE) = CheckoutFee
    <2>1. ListShows(TRUE) <=> offer.published /\ Located /\ CheckoutAccepts
      BY <1>2, <1>3, <1>4, <1>5
    <2>2. ListShows(TRUE) => CardFee(TRUE) = CheckoutFee
      BY <1>4, <1>5 DEF CardFee, CheckoutFee
    <2> QED
      BY <2>1, <2>2
  <1>6. offer.published /\ CheckoutAccepts => ListShows(FALSE)
    BY <1>3 DEF ListShows
  <1>7. ASSUME NEW named \in BOOLEAN, CardFee(named) # NoFee
        PROVE  CardFee(named) = CheckoutFee
    <2>1. CASE named
      BY <1>7, <2>1 DEF CardFee, CheckoutFee
    <2>2. CASE ~named
      BY <1>7, <2>2, StoreFeeIsFinal DEF CardFee, CheckoutFee
    <2> QED
      BY <2>1, <2>2
  <1> QED
    BY <1>5, <1>6, <1>7 DEF ListsAgree

\* The product page differs from checkout in closed marketplace stores alone.
LEMMA PagePromisesTruly == PageSellsWhatIsTaken
  <1> DEFINE R == EffectiveFoodRadius(section.radius)
  <1> HIDE DEF R
  <1>1. CheckoutAccepts <=> /\ OpenNow /\ offer.isActive /\ offer.stocked
                            /\ Located /\ IsFood => shop.at <= R
    BY DEF CheckoutAccepts, R
  <1>2. DetailSells <=> /\ offer.published /\ offer.isActive /\ offer.stocked
                        /\ IsFood => OpenNow /\ (Located => shop.at <= R)
    BY DEF DetailSells, R
  <1>3. DetailSells => DetailFee = CheckoutFee
    BY DEF DetailFee, CheckoutFee
  <1> QED
    BY <1>1, <1>2, <1>3 DEF PageSellsWhatIsTaken

LEMMA QuoteAgrees == QuoteMirrorsCheckout
  BY DEF QuoteMirrorsCheckout, QuoteDelivers, CheckoutAccepts, QuoteFee, CheckoutFee

\* Outside the two radii the store's page says of food what the quote says.
LEMMA MenuIsTheQuote ==
  ASSUME Located, IsFood, ~BetweenRadii
  PROVE  MenuDelivers <=> QuoteDelivers
  <1>1. CASE shop.radius # Null \/ section.radius = Null
    <2>1. EffectiveFoodRadius(Null) = EffectiveFoodRadius(section.radius)
      BY <1>1 DEF EffectiveFoodRadius
    <2> QED
      BY <2>1 DEF MenuDelivers, QuoteDelivers
  <1>2. CASE shop.radius = Null /\ section.radius # Null
    <2>1. /\ EffectiveFoodRadius(Null) = DefaultRadius
          /\ EffectiveFoodRadius(section.radius) = section.radius
      BY <1>2 DEF EffectiveFoodRadius
    <2>2. (shop.at <= DefaultRadius) = (shop.at <= section.radius)
      BY <1>2 DEF BetweenRadii
    <2> QED
      BY <2>1, <2>2 DEF MenuDelivers, QuoteDelivers
  <1> QED
    BY <1>1, <1>2

LEMMA StorePageAgrees == ASSUME ShopTypeOK PROVE MenuAgrees
  <1>1. ASSUME Located, IsFood, ~BetweenRadii
        PROVE  MenuDelivers <=> QuoteDelivers
    BY <1>1, MenuIsTheQuote
  <1>2. MenuDelivers \in BOOLEAN /\ QuoteDelivers \in BOOLEAN
    BY DEF MenuDelivers, QuoteDelivers
  <1>3. Located /\ MenuDelivers /\ ~IsFood => QuoteDelivers
    BY DEF MenuDelivers, QuoteDelivers
  <1>4. ASSUME NEW asked \in Distances, NearbyShows(asked)
        PROVE  MenuDelivers
    BY <1>4 DEF NearbyShows, MenuDelivers
  <1>5. MenuFee # NoFee => MenuFee = CheckoutFee
    BY StoreFeeIsFinal DEF MenuFee, CheckoutFee
  <1> QED
    BY <1>1, <1>2, <1>3, <1>4, <1>5 DEF MenuAgrees

\* Lists of stores and the menu hide nothing that checkout takes.
LEMMA StoreListsAgree == StoresAgree
  <1> DEFINE R == EffectiveFoodRadius(section.radius)
  <1> HIDE DEF R
  <1>1. CheckoutAccepts <=> /\ OpenNow /\ offer.isActive /\ offer.stocked
                            /\ Located /\ IsFood => shop.at <= R
    BY DEF CheckoutAccepts, R
  <1>2. MenuDelivers => OpenNow
    BY DEF MenuDelivers
  <1>3. Located /\ IsFood /\ ~BetweenRadii /\ MenuDelivers => shop.at <= R
    BY MenuIsTheQuote DEF QuoteDelivers, R
  <1>4. MenuShows /\ MenuDelivers => CheckoutAccepts \/ (IsFood /\ Located /\ BetweenRadii)
    BY <1>1, <1>2, <1>3 DEF MenuShows
  <1> QED
    BY <1>1, <1>4 DEF StoresAgree, StoresListed, FeaturedOpen, HasActiveOffers, MenuShows

\* Whatever edits came before, lists, product page, quote and store's page promise
\* of an offer what checkout does with it, but for the marketplace offers of closed
\* stores, stores without a location and distances between two radii, which the
\* parts of the property single out (Storefront.PagesAgree).
THEOREM PagesPromiseTruly == StorefrontSpec => []PagesAgree
  <1>1. ShopTypeOK => PagesAgree
    BY ListsPromiseTruly, PagePromisesTruly, QuoteAgrees, StorePageAgrees, StoreListsAgree
       DEF PagesAgree
  <1> QED
    BY <1>1, StorefrontInitType, StorefrontType, PTL DEF StorefrontSpec

-----------------------------------------------------------------------------
(* Uploads.                                                                *)

\* What a handler knows of the file and the entity it works on.
TransferOK(q) ==
  /\ q.pc # "idle" => q.file \in Files
  /\ q.pc \in {"head", "ready"} => file[q.file].state # "none"
  /\ q.pc = "ready" => q.file \in object
  /\ q.pc = "row" => q.who \in Owners /\ file[q.file].state = "none" /\ q.file \in object
  /\ q.pc \in {"show", "attach"} => q.entity \in Entities /\ file[q.file].state = "READY"
  /\ q.pc = "show" => file[q.file].uploader = OwnerOf[q.entity]
  /\ q.pc = "attach" => q.entity \in hung[q.file]

\* One direct upload per key, and a READY row has its object.
UploadInv ==
  /\ UploadTypeOK
  /\ \A x \in Transfers : TransferOK(transfer[x])
  /\ \A x, y \in Transfers :
       transfer[x].pc = "row" /\ transfer[y].pc = "row" /\ transfer[x].file = transfer[y].file
         => x = y
  /\ \A f \in Files : file[f].state = "READY" => f \in object
  /\ UploadsStand

LEMMA UploadInitInv == UploadInit => UploadInv
  BY UploadAssumption
  DEF UploadInit, UploadInv, UploadTypeOK, TransferOK, UploadsStand, ImagesAreReady,
      MarksAreTrue, NoTransfer, FileRows, TransferRows

\* The slots a step leaves alone, and the one it ends.
LEMMA EndKeeps ==
  ASSUME UploadInv, NEW x \in Transfers, EndTransfer(x)
  PROVE  /\ transfer' \in [Transfers -> TransferRows]
         /\ \A y \in Transfers : transfer'[y] = IF y = x THEN NoTransfer ELSE transfer[y]
  BY DEF EndTransfer, NoTransfer, TransferRows, UploadInv, UploadTypeOK

LEMMA UploadStep ==
  ASSUME UploadInv, [UploadNext]_uploadVars
  PROVE  UploadInv'
  <1> USE DEF UploadInv
  <1> USE UploadAssumption
  <1>1. ASSUME NEW x \in Transfers, NEW f \in Files, NEW w \in Owners, Presign(x, f, w)
        PROVE  UploadInv'
    <2>1. /\ file[f].state = "none" /\ f \notin object
          /\ file' = [file EXCEPT ![f] = [state |-> "PENDING", uploader |-> w, entity |-> Nobody]]
          /\ UNCHANGED <<object, image, hung, transfer>>
      BY <1>1 DEF Presign
    <2>2. UploadTypeOK'
      BY <2>1 DEF UploadTypeOK, FileRows
    <2>3. \A y \in Transfers : TransferOK(transfer[y])'
      BY <2>1 DEF TransferOK, UploadTypeOK
    <2>4. UploadsStand'
      BY <2>1 DEF UploadsStand, ImagesAreReady, MarksAreTrue, UploadTypeOK
    <2> QED
      BY <2>1, <2>2, <2>3, <2>4 DEF UploadTypeOK
  <1>2. ASSUME NEW f \in Files, PutObject(f)
        PROVE  UploadInv'
    BY <1>2 DEF PutObject, UploadTypeOK, TransferOK, UploadsStand, ImagesAreReady, MarksAreTrue
  <1>3. ASSUME NEW x \in Transfers, NEW f \in Files, Complete(x, f)
        PROVE  UploadInv'
    <2>1. /\ file[f].state = "PENDING"
          /\ transfer' = [transfer EXCEPT ![x] = [pc |-> "head", file |-> f,
                            who |-> file[f].uploader, entity |-> Nobody]]
          /\ UNCHANGED <<file, object, image, hung>>
      BY <1>3 DEF Complete, StartTransfer
    <2>2. UploadTypeOK'
      BY <2>1 DEF UploadTypeOK, FileRows, TransferRows
    <2>3. \A y \in Transfers : TransferOK(transfer[y])'
      BY <2>1 DEF TransferOK, UploadTypeOK
    <2> QED
      BY <2>1, <2>2, <2>3 DEF UploadTypeOK, UploadsStand, ImagesAreReady, MarksAreTrue
  <1>4. ASSUME NEW x \in Transfers, HeadObject(x)
        PROVE  UploadInv'
    <2>1. CASE transfer[x].file \in object
      <3>1. /\ transfer[x].pc = "head"
            /\ transfer' = [transfer EXCEPT ![x].pc = "ready"]
            /\ UNCHANGED <<file, object, image, hung>>
        BY <1>4, <2>1 DEF HeadObject, ToCall
      <3>2. UploadTypeOK'
        BY <3>1 DEF UploadTypeOK, TransferRows
      <3>3. \A y \in Transfers : TransferOK(transfer[y])'
        BY <2>1, <3>1 DEF TransferOK, UploadTypeOK, TransferRows
      <3> QED
        BY <3>1, <3>2, <3>3 DEF UploadTypeOK, UploadsStand, ImagesAreReady, MarksAreTrue, TransferRows
    <2>2. CASE transfer[x].file \notin object
      <3>1. EndTransfer(x) /\ UNCHANGED <<file, object, image, hung>>
        BY <1>4, <2>2 DEF HeadObject
      <3> QED
        BY <3>1, EndKeeps
        DEF UploadTypeOK, TransferOK, NoTransfer, UploadsStand, ImagesAreReady, MarksAreTrue
    <2> QED
      BY <2>1, <2>2
  <1>5. ASSUME NEW x \in Transfers, MarkReady(x)
        PROVE  UploadInv'
    <2>1. /\ transfer[x].pc = "ready" /\ EndTransfer(x)
          /\ file' = [file EXCEPT ![transfer[x].file].state = "READY"]
          /\ UNCHANGED <<object, image, hung>>
      BY <1>5 DEF MarkReady
    <2>2. transfer[x].file \in object /\ transfer[x].file \in Files
          /\ file[transfer[x].file].state # "none"
      BY <2>1 DEF TransferOK
    <2>3. UploadTypeOK'
      BY <2>1, <2>2, EndKeeps DEF UploadTypeOK, FileRows
    <2>4. \A y \in Transfers : TransferOK(transfer[y])'
      BY <2>1, <2>2, EndKeeps DEF TransferOK, UploadTypeOK, FileRows, NoTransfer
    <2>5. UploadsStand'
      BY <2>1, <2>2 DEF UploadsStand, ImagesAreReady, MarksAreTrue, UploadTypeOK, FileRows
    <2> QED
      BY <2>1, <2>2, <2>3, <2>4, <2>5, EndKeeps DEF UploadTypeOK, FileRows, NoTransfer
  <1>6. ASSUME NEW x \in Transfers, NEW f \in Files, NEW w \in Owners, DirectUpload(x, f, w)
        PROVE  UploadInv'
    <2>1. /\ file[f].state = "none" /\ f \notin object
          /\ object' = object \cup {f}
          /\ transfer' = [transfer EXCEPT ![x] = [pc |-> "row", file |-> f, who |-> w,
                                                  entity |-> Nobody]]
          /\ UNCHANGED <<file, image, hung>>
      BY <1>6 DEF DirectUpload, StartTransfer
    <2>2. UploadTypeOK'
      BY <2>1 DEF UploadTypeOK, TransferRows
    <2>3. \A y \in Transfers : TransferOK(transfer[y])'
      BY <2>1 DEF TransferOK, UploadTypeOK
    <2>4. \A y \in Transfers : transfer[y].pc = "row" => transfer[y].file # f
      BY <2>1 DEF TransferOK
    <2> QED
      BY <2>1, <2>2, <2>3, <2>4 DEF UploadTypeOK, UploadsStand, ImagesAreReady, MarksAreTrue
  <1>7. ASSUME NEW x \in Transfers, CreateReadyRow(x)
        PROVE  UploadInv'
    <2> DEFINE f == transfer[x].file
    <2>1. /\ transfer[x].pc = "row" /\ EndTransfer(x)
          /\ file' = [file EXCEPT ![f] = [state |-> "READY", uploader |-> transfer[x].who,
                                          entity |-> Nobody]]
          /\ UNCHANGED <<object, image, hung>>
      BY <1>7 DEF CreateReadyRow
    <2>2. f \in object /\ f \in Files /\ file[f].state = "none" /\ transfer[x].who \in Owners
      BY <2>1 DEF TransferOK
    <2>3. \A y \in Transfers : y # x /\ transfer[y].pc # "idle" => transfer[y].file # f
      BY <2>1, <2>2 DEF TransferOK, UploadTypeOK, TransferRows
    <2>4. UploadTypeOK'
      BY <2>1, <2>2, EndKeeps DEF UploadTypeOK, FileRows
    <2>5. \A y \in Transfers : TransferOK(transfer[y])'
      BY <2>1, <2>2, <2>3, EndKeeps DEF TransferOK, UploadTypeOK, NoTransfer
    <2>6. UploadsStand'
      BY <2>1, <2>2 DEF UploadsStand, ImagesAreReady, MarksAreTrue, UploadTypeOK
    <2> QED
      BY <2>1, <2>2, <2>4, <2>5, <2>6, EndKeeps DEF UploadTypeOK, NoTransfer
  <1>8. ASSUME NEW x \in Transfers, NEW f \in Files, NEW e \in Entities, GetReady(x, f, e)
        PROVE  UploadInv'
    <2>1. /\ file[f].state = "READY" /\ file[f].uploader = OwnerOf[e]
          /\ transfer' = [transfer EXCEPT ![x] = [pc |-> "show", file |-> f,
                            who |-> OwnerOf[e], entity |-> e]]
          /\ UNCHANGED <<file, object, image, hung>>
      BY <1>8 DEF GetReady, StartTransfer
    <2>2. UploadTypeOK'
      BY <2>1 DEF UploadTypeOK, TransferRows
    <2>3. \A y \in Transfers : TransferOK(transfer[y])'
      BY <2>1 DEF TransferOK, UploadTypeOK
    <2> QED
      BY <2>1, <2>2, <2>3 DEF UploadTypeOK, UploadsStand, ImagesAreReady, MarksAreTrue
  <1>9. ASSUME NEW x \in Transfers, ShowImage(x)
        PROVE  UploadInv'
    <2> DEFINE q == transfer[x]
    <2>1. /\ q.pc = "show"
          /\ image' = [image EXCEPT ![q.entity] = q.file]
          /\ hung' = [hung EXCEPT ![q.file] = @ \cup {q.entity}]
          /\ transfer' = [transfer EXCEPT ![x].pc = "attach"]
          /\ UNCHANGED <<file, object>>
      BY <1>9 DEF ShowImage, ToCall
    <2>2. /\ q.file \in Files /\ q.entity \in Entities /\ q.file \in object
          /\ file[q.file].state = "READY" /\ file[q.file].uploader = OwnerOf[q.entity]
      BY <2>1 DEF TransferOK
    <2>3. UploadTypeOK'
      BY <2>1, <2>2 DEF UploadTypeOK, TransferRows
    <2>4. \A y \in Transfers : TransferOK(transfer[y])'
      BY <2>1, <2>2 DEF TransferOK, UploadTypeOK, TransferRows
    <2>5. ImagesAreReady'
      BY <2>1, <2>2 DEF UploadsStand, ImagesAreReady, UploadTypeOK
    <2>6. MarksAreTrue'
      BY <2>1, <2>2 DEF UploadsStand, MarksAreTrue, UploadTypeOK
    <2> QED
      BY <2>1, <2>3, <2>4, <2>5, <2>6 DEF UploadTypeOK, UploadsStand, TransferRows
  <1>10. ASSUME NEW x \in Transfers, Attach(x)
         PROVE  UploadInv'
    <2> DEFINE q == transfer[x]
    <2>1. /\ q.pc = "attach" /\ EndTransfer(x)
          /\ file' = [file EXCEPT ![q.file].entity = q.entity]
          /\ UNCHANGED <<object, image, hung>>
      BY <1>10 DEF Attach
    <2>2. q.file \in Files /\ q.entity \in Entities /\ q.entity \in hung[q.file]
      BY <2>1 DEF TransferOK
    <2>3. UploadTypeOK'
      BY <2>1, <2>2, EndKeeps DEF UploadTypeOK, FileRows
    <2>4. \A y \in Transfers : TransferOK(transfer[y])'
      BY <2>1, <2>2, EndKeeps DEF TransferOK, UploadTypeOK, FileRows, NoTransfer
    <2>5. UploadsStand'
      BY <2>1, <2>2 DEF UploadsStand, ImagesAreReady, MarksAreTrue, UploadTypeOK, FileRows
    <2> QED
      BY <2>1, <2>2, <2>3, <2>4, <2>5, EndKeeps DEF UploadTypeOK, FileRows, NoTransfer
  <1>11. ASSUME NEW x \in Transfers, TransferDies(x)
         PROVE  UploadInv'
    <2>1. EndTransfer(x) /\ UNCHANGED <<file, object, image, hung>>
      BY <1>11 DEF TransferDies
    <2> QED
      BY <2>1, EndKeeps
      DEF UploadTypeOK, TransferOK, NoTransfer, UploadsStand, ImagesAreReady, MarksAreTrue
  <1>12. CASE UNCHANGED uploadVars
    BY <1>12 DEF uploadVars, UploadTypeOK, TransferOK, UploadsStand, ImagesAreReady, MarksAreTrue
  <1> QED
    BY <1>1, <1>2, <1>3, <1>4, <1>5, <1>6, <1>7, <1>8, <1>9, <1>10, <1>11, <1>12 DEF UploadNext

\* Whatever overlaps and fails, what a page shows was uploaded by its owner
\* and is in the object store, and files are marked truly (Uploads.UploadsStand).
THEOREM UploadsAreShownTruly == UploadSpec => []UploadsStand
  BY UploadInitInv, UploadStep, PTL DEF UploadSpec, UploadInv

-----------------------------------------------------------------------------
(* Listings.                                                               *)

\* What each handler's check establishes of the row it will write.
ReviewBegins(pc, row) ==
  \/ pc = "createStore" /\ row = NoRow /\ newest = NoRow
  \/ pc = "createProduct" /\ row = NoRow
  \/ /\ pc \in StoreCalls \ {"createStore"} /\ row \in Stores /\ store[row].status # "none"
     /\ pc \in {"feature", "rank"} => store[row].status = "ACTIVE"
     /\ pc \in {"approveStore", "rejectStore"} => store[row].status = "PENDING"
  \/ /\ pc \in ProductCalls \ {"createProduct"} /\ row \in Products
     /\ product[row].status # "none"
     /\ pc = "editProduct" => product[row].status # "ARCHIVED"
     /\ pc \in {"approveProduct", "rejectProduct"} => product[row].status = "PENDING"

\* What each handler makes of a store and of a product.
StoreMove(pc, s, new) ==
  \/ pc \in {"editStore", "toggle"} /\ new = s
  \/ pc = "feature" /\ new = [s EXCEPT !.featured = TRUE, !.ranked = FALSE]
  \/ pc = "rank" /\ new = [s EXCEPT !.featured = TRUE, !.ranked = TRUE]
  \/ pc = "demote" /\ new = Undecorated(s)
  \/ pc = "approveStore" /\ new = ApprovedStore(s)
  \/ pc = "rejectStore" /\ new = [s EXCEPT !.status = "REJECTED", !.reason = TRUE]

ProductMove(pc, p, new) ==
  \/ pc = "editProduct" /\ new = Published(p)
  \/ pc = "approveProduct" /\ new = [Published(p) EXCEPT !.reason = FALSE]
  \/ pc = "rejectProduct" /\ new = [p EXCEPT !.status = "REJECTED", !.reason = TRUE]

\* The kinds of steps.
ListingsStepOf(r) ==
  \/ \E pc \in StoreCalls \cup ProductCalls, row \in Stores \cup Products \cup {NoRow} :
       StartReview(r, pc, row) /\ ReviewBegins(pc, row)
  \/ CreateStoreWrite(r) \/ CreateProductWrite(r) \/ Archive(r) \/ ReviewDies(r)
  \/ \E pc \in StoreCalls \ {"createStore"} : \E new :
       WriteStore(r, pc, new) /\ StoreMove(pc, store[review[r].row], new)
  \/ \E pc \in ProductCalls \ {"createProduct"} : \E new :
       WriteProduct(r, pc, new) /\ ProductMove(pc, product[review[r].row], new)

LEMMA ListingsSteps ==
  ASSUME ListingsNext
  PROVE  \E r \in Reviews : ListingsStepOf(r)
  <1>1. PICK r \in Reviews :
          \/ CreateStore(r) \/ CreateProduct(r)
          \/ \E s \in Stores : \/ UpdateStore(r, s) \/ ToggleOpen(r, s)
                               \/ \E pc \in {"feature", "rank", "demote"} : SetFeatured(r, s, pc)
                               \/ \E pc \in {"approveStore", "rejectStore"} : ReviewStore(r, s, pc)
          \/ \E p \in Products : \/ UpdateProduct(r, p) \/ RemoveProduct(r, p)
                                 \/ \E pc \in {"approveProduct", "rejectProduct"} :
                                      ReviewProduct(r, p, pc)
          \/ CreateStoreWrite(r) \/ StoreWrite(r) \/ FeatureWrite(r) \/ ReviewStoreWrite(r)
          \/ CreateProductWrite(r) \/ ProductWrite(r) \/ Archive(r)
          \/ ReviewDies(r)
    BY Zenon DEF ListingsNext
  <1> USE DEF StoreCalls, ProductCalls
  <1>2. CASE CreateStore(r) \/ CreateProduct(r)
    BY <1>2 DEF CreateStore, CreateProduct, ListingsStepOf, ReviewBegins
  <1>3. ASSUME NEW s \in Stores,
               \/ UpdateStore(r, s) \/ ToggleOpen(r, s)
               \/ \E pc \in {"feature", "rank", "demote"} : SetFeatured(r, s, pc)
               \/ \E pc \in {"approveStore", "rejectStore"} : ReviewStore(r, s, pc)
        PROVE  ListingsStepOf(r)
    <2>1. \E pc \in StoreCalls \ {"createStore"} : StartReview(r, pc, s) /\ ReviewBegins(pc, s)
      BY <1>3 DEF UpdateStore, ToggleOpen, SetFeatured, ReviewStore, ReviewBegins
    <2> QED
      BY <2>1 DEF ListingsStepOf
  <1>4. ASSUME NEW p \in Products,
               \/ UpdateProduct(r, p) \/ RemoveProduct(r, p)
               \/ \E pc \in {"approveProduct", "rejectProduct"} : ReviewProduct(r, p, pc)
        PROVE  ListingsStepOf(r)
    <2>1. \E pc \in ProductCalls \ {"createProduct"} : StartReview(r, pc, p) /\ ReviewBegins(pc, p)
      BY <1>4 DEF UpdateProduct, RemoveProduct, ReviewProduct, ReviewBegins
    <2> QED
      BY <2>1 DEF ListingsStepOf
  <1>5. CASE StoreWrite(r) \/ FeatureWrite(r) \/ ReviewStoreWrite(r)
    BY <1>5 DEF StoreWrite, FeatureWrite, ReviewStoreWrite, ListingsStepOf, StoreMove
  <1>6. CASE ProductWrite(r)
    BY <1>6 DEF ProductWrite, ListingsStepOf, ProductMove
  <1>7. CASE CreateStoreWrite(r) \/ CreateProductWrite(r) \/ Archive(r) \/ ReviewDies(r)
    BY <1>7 DEF ListingsStepOf
  <1> QED
    BY <1>1, <1>2, <1>3, <1>4, <1>5, <1>6, <1>7

\* A decision keeps a store in order, if what it puts on the slider was approved.
LEMMA StoreMoveKeeps ==
  ASSUME NEW pc, NEW s \in StoreRows, NEW new, StoreMove(pc, s, new), s.status # "none",
         pc \in {"feature", "rank"} => s.approvedAt,
         s.status = "ACTIVE" => s.approvedAt,
         s.reason <=> s.status = "REJECTED",
         s.featured => s.approvedAt,
         s.ranked => s.featured
  PROVE  /\ new \in StoreRows /\ new.status # "none"
         /\ s.approvedAt => new.approvedAt
         /\ new.status = "ACTIVE" => new.approvedAt
         /\ new.reason <=> new.status = "REJECTED"
         /\ new.featured => new.approvedAt
         /\ new.ranked => new.featured
  <1> USE DEF StoreRows
  <1>1. CASE pc \in {"editStore", "toggle"} /\ new = s
    BY <1>1
  <1>2. CASE pc = "feature" /\ new = [s EXCEPT !.featured = TRUE, !.ranked = FALSE]
    BY <1>2
  <1>3. CASE pc = "rank" /\ new = [s EXCEPT !.featured = TRUE, !.ranked = TRUE]
    BY <1>3
  <1>4. CASE new = [s EXCEPT !.featured = FALSE, !.ranked = FALSE]
    BY <1>4
  <1>5. CASE new = [s EXCEPT !.status = "ACTIVE", !.approvedAt = TRUE, !.reason = FALSE]
    BY <1>5
  <1>6. CASE new = [s EXCEPT !.status = "REJECTED", !.reason = TRUE]
    BY <1>6
  <1> QED
    BY <1>1, <1>2, <1>3, <1>4, <1>5, <1>6 DEF StoreMove, Undecorated, ApprovedStore

\* Who puts a store on the slider found it approved.
ListingsInv ==
  /\ ListingsTypeOK
  /\ \A r \in Reviews : review[r].pc \in {"feature", "rank"} => store[review[r].row].approvedAt
  /\ ListingsFit

LEMMA ListingsInitInv == ListingsInit => ListingsInv
  <1> SUFFICES ASSUME ListingsInit PROVE ListingsInv
    OBVIOUS
  <1>1. \A p \in Products : product[p] \in ProductRows /\ product[p].status \in {"none", "PENDING"}
    <2> DEFINE Waiting == [NoProduct EXCEPT !.status = "PENDING"]
    <2>1. NoProduct \in ProductRows /\ NoProduct.status = "none"
      BY DEF NoProduct, ProductRows
    <2>2. Waiting \in ProductRows /\ Waiting.status = "PENDING"
      BY DEF NoProduct, ProductRows
    <2>3. \A p \in Products : product[p] = NoProduct \/ product[p] = Waiting
      BY DEF ListingsInit
    <2> HIDE DEF Waiting
    <2> QED
      BY <2>1, <2>2, <2>3
  <1>2. product \in [Products -> ProductRows]
    BY <1>1 DEF ListingsInit
  <1>3. \A r \in Reviews : review[r] \in ReviewRows /\ review[r].pc = "idle"
    BY DEF ListingsInit, NoReview, ReviewRows
  <1>4. \A s \in Stores : store[s] \in StoreRows /\ store[s] = NoStore
    BY DEF ListingsInit, NoStore, StoreRows
  <1>5. ListingsTypeOK
    BY <1>2, <1>3, <1>4 DEF ListingsInit, ListingsTypeOK, StoreCalls, ProductCalls
  <1>6. StoreFits /\ SliderFits
    BY <1>4 DEF StoreFits, SliderFits, NoStore
  <1>7. ProductFits
    BY <1>1 DEF ProductFits
  <1> QED
    BY <1>3, <1>5, <1>6, <1>7 DEF ListingsInv, ListingsFit

LEMMA NoReviewKeeps ==
  ASSUME ListingsTypeOK, NEW r \in Reviews, review' = [review EXCEPT ![r] = NoReview]
  PROVE  /\ review' \in [Reviews -> ReviewRows]
         /\ \A q \in Reviews : review'[q] = IF q = r THEN NoReview ELSE review[q]
  BY DEF ListingsTypeOK, NoReview, ReviewRows

LEMMA ListingsStepInv ==
  ASSUME ListingsInv, [ListingsNext]_listingVars
  PROVE  ListingsInv'
  <1> USE DEF ListingsInv
  <1>1. CASE UNCHANGED listingVars
    BY <1>1 DEF listingVars, ListingsTypeOK, ListingsFit, StoreFits, SliderFits, ProductFits
  <1>2. ASSUME NEW r \in Reviews, NEW pc \in StoreCalls \cup ProductCalls,
               NEW row \in Stores \cup Products \cup {NoRow},
               StartReview(r, pc, row), ReviewBegins(pc, row)
        PROVE  ListingsInv'
    <2>1. /\ review' = [review EXCEPT ![r] = [pc |-> pc, row |-> row]]
          /\ mixed' \in BOOLEAN
          /\ UNCHANGED <<store, newest, product, archived>>
      BY <1>2 DEF StartReview
    <2>2. ListingsTypeOK'
      BY <1>2, <2>1 DEF ListingsTypeOK, ReviewRows, ReviewBegins, StoreCalls, ProductCalls
    <2> QED
      BY <1>2, <2>1, <2>2
      DEF ListingsTypeOK, ReviewBegins, ListingsFit, StoreFits, SliderFits, ProductFits, StoreCalls,
          ProductCalls
  <1>3. ASSUME NEW r \in Reviews, CreateStoreWrite(r)
        PROVE  ListingsInv'
    <2>1. PICK s \in Stores :
            /\ store[s].status = "none"
            /\ store' = [store EXCEPT ![s] = [NoStore EXCEPT !.status = "PENDING"]]
            /\ newest' = s
      BY <1>3 DEF CreateStoreWrite
    <2>2. review' = [review EXCEPT ![r] = NoReview] /\ UNCHANGED <<product, archived, mixed>>
      BY <1>3 DEF CreateStoreWrite
    <2>3. ListingsTypeOK'
      BY <2>1, <2>2, NoReviewKeeps DEF ListingsTypeOK, StoreRows, NoStore, NoReview,
         StoreCalls, ProductCalls
    <2>4. \A q \in Reviews : review'[q].pc \in {"feature", "rank"} => store'[review'[q].row].approvedAt
      BY <2>1, <2>2, NoReviewKeeps DEF ListingsTypeOK, NoReview, StoreCalls
    <2> QED
      BY <2>1, <2>2, <2>3, <2>4 DEF ListingsTypeOK, ListingsFit, StoreFits, SliderFits, ProductFits, NoStore
  <1>4. ASSUME NEW r \in Reviews, CreateProductWrite(r)
        PROVE  ListingsInv'
    <2>1. PICK p \in Products :
            /\ product[p].status = "none"
            /\ product' = [product EXCEPT ![p] = [status |-> "ACTIVE", publishedAt |-> TRUE,
                                                  reason |-> FALSE]]
      BY <1>4 DEF CreateProductWrite
    <2>2. review' = [review EXCEPT ![r] = NoReview] /\ UNCHANGED <<store, newest, archived, mixed>>
      BY <1>4 DEF CreateProductWrite
    <2>3. ListingsTypeOK'
      BY <2>1, <2>2, NoReviewKeeps DEF ListingsTypeOK, ProductRows, NoReview,
         StoreCalls, ProductCalls
    <2> QED
      BY <2>1, <2>2, <2>3, NoReviewKeeps
      DEF ListingsTypeOK, ListingsFit, StoreFits, SliderFits, ProductFits, NoReview
  <1>5. ASSUME NEW r \in Reviews, Archive(r)
        PROVE  ListingsInv'
    <2> DEFINE p == review[r].row
    <2>1. /\ review[r].pc = "archive"
          /\ product' = [product EXCEPT ![p].status = "ARCHIVED"]
          /\ archived' = archived \cup {p}
          /\ review' = [review EXCEPT ![r] = NoReview] /\ UNCHANGED <<store, newest, mixed>>
      BY <1>5 DEF Archive
    <2>2. p \in Products
      BY <2>1 DEF ListingsTypeOK, ProductCalls
    <2>3. [product[p] EXCEPT !.status = "ARCHIVED"] \in ProductRows
      BY <2>2 DEF ListingsTypeOK, ProductRows
    <2>4. \A q \in Products : /\ product'[q].status = IF q = p THEN "ARCHIVED" ELSE product[q].status
                             /\ product'[q].publishedAt = product[q].publishedAt
                             /\ product'[q].reason = product[q].reason
      BY <2>1, <2>2 DEF ListingsTypeOK, ProductRows
    <2>5. ListingsTypeOK'
      <3>1. product' \in [Products -> ProductRows]
        BY <2>1, <2>3 DEF ListingsTypeOK
      <3>2. review' \in [Reviews -> ReviewRows]
        BY <2>1, NoReviewKeeps
      <3>3. \A q \in Reviews : review'[q] = NoReview \/ review'[q] = review[q]
        BY <2>1, NoReviewKeeps
      <3> HIDE DEF p
      <3> QED
        BY <2>1, <2>2, <2>4, <3>1, <3>2, <3>3 DEF ListingsTypeOK, NoReview, StoreCalls, ProductCalls
    <2> HIDE DEF p
    <2> QED
      BY <2>1, <2>4, <2>5, NoReviewKeeps
      DEF ListingsTypeOK, ListingsFit, StoreFits, SliderFits, ProductFits, NoReview
  <1>6. ASSUME NEW r \in Reviews, ReviewDies(r)
        PROVE  ListingsInv'
    BY <1>6, NoReviewKeeps
    DEF ReviewDies, ListingsTypeOK, NoReview, StoreCalls, ProductCalls, ListingsFit, StoreFits,
        SliderFits, ProductFits
  <1>7. ASSUME NEW r \in Reviews, NEW pc \in StoreCalls \ {"createStore"}, NEW new,
               WriteStore(r, pc, new), StoreMove(pc, store[review[r].row], new)
        PROVE  ListingsInv'
    <2> DEFINE s == review[r].row
    <2>1. /\ review[r].pc = pc /\ store' = [store EXCEPT ![s] = new]
          /\ review' = [review EXCEPT ![r] = NoReview]
          /\ UNCHANGED <<newest, product, archived, mixed>>
      BY <1>7 DEF WriteStore
    <2>2. s \in Stores /\ store[s] \in StoreRows /\ store[s].status # "none"
          /\ (pc \in {"feature", "rank"} => store[s].approvedAt)
      BY <2>1 DEF ListingsTypeOK
    <2>3. /\ store[s].status = "ACTIVE" => store[s].approvedAt
          /\ store[s].reason <=> store[s].status = "REJECTED"
          /\ store[s].featured => store[s].approvedAt
          /\ store[s].ranked => store[s].featured
      BY <2>2 DEF ListingsFit, StoreFits, SliderFits
    <2>4. /\ new \in StoreRows /\ new.status # "none"
          /\ store[s].approvedAt => new.approvedAt
          /\ new.status = "ACTIVE" => new.approvedAt
          /\ new.reason <=> new.status = "REJECTED"
          /\ new.featured => new.approvedAt
          /\ new.ranked => new.featured
      BY <1>7, <2>2, <2>3, StoreMoveKeeps
    <2>5. ListingsTypeOK'
      BY <2>1, <2>2, <2>4, NoReviewKeeps DEF ListingsTypeOK, NoReview, StoreCalls, ProductCalls
    <2>6. \A q \in Reviews : review'[q].pc \in {"feature", "rank"} => store'[review'[q].row].approvedAt
      BY <2>1, <2>2, <2>4, NoReviewKeeps DEF ListingsTypeOK, NoReview, StoreCalls
    <2> HIDE DEF s
    <2> QED
      BY <2>1, <2>2, <2>4, <2>5, <2>6 DEF ListingsTypeOK, ListingsFit, StoreFits, SliderFits, ProductFits
  <1>8. ASSUME NEW r \in Reviews, NEW pc \in ProductCalls \ {"createProduct"}, NEW new,
               WriteProduct(r, pc, new), ProductMove(pc, product[review[r].row], new)
        PROVE  ListingsInv'
    <2> DEFINE p == review[r].row
    <2>1. /\ review[r].pc = pc /\ product' = [product EXCEPT ![p] = new]
          /\ review' = [review EXCEPT ![r] = NoReview]
          /\ UNCHANGED <<store, newest, archived, mixed>>
      BY <1>8 DEF WriteProduct
    <2>2. p \in Products /\ product[p] \in ProductRows /\ product[p].status # "none"
      BY <2>1 DEF ListingsTypeOK
    <2>3. /\ product[p].status = "ACTIVE" => product[p].publishedAt
          /\ product[p].status = "REJECTED" => product[p].reason
      BY <2>2 DEF ListingsFit, ProductFits
    <2>4. /\ new \in ProductRows /\ new.status # "none"
          /\ new.status = "ACTIVE" => new.publishedAt
          /\ new.status = "REJECTED" => new.reason
      BY <1>8, <2>2, <2>3 DEF ProductMove, ProductRows, Published
    <2>5. ListingsTypeOK'
      BY <2>1, <2>2, <2>4, NoReviewKeeps DEF ListingsTypeOK, NoReview, StoreCalls, ProductCalls
    <2>6. \A q \in Reviews : review'[q].pc \in {"feature", "rank"} => store'[review'[q].row].approvedAt
      BY <2>1, NoReviewKeeps DEF ListingsTypeOK, NoReview
    <2> HIDE DEF p
    <2> QED
      BY <2>1, <2>2, <2>4, <2>5, <2>6 DEF ListingsTypeOK, ListingsFit, StoreFits, SliderFits, ProductFits
  <1>9. ASSUME ListingsNext
        PROVE  ListingsInv'
    <2>1. PICK r \in Reviews : ListingsStepOf(r)
      BY <1>9, ListingsSteps
    <2> QED
      BY <2>1, <1>2, <1>3, <1>4, <1>5, <1>6, <1>7, <1>8 DEF ListingsStepOf
  <1> QED
    BY <1>1, <1>9

\* However the seller's edits and the moderators' decisions cross, each row of
\* the shop is in order by itself (Listings.ListingsFit).
THEOREM ListingsAreInOrder == ListingsSpec => []ListingsFit
  BY ListingsInitInv, ListingsStepInv, PTL DEF ListingsSpec, ListingsInv

\* As long as handlers do not overlap, what the one in flight checked still
\* holds when it writes.
OneReview == \A r, q \in Reviews : review[r].pc # "idle" /\ review[q].pc # "idle" => r = q

CheckHolds == \A r \in Reviews : review[r].pc # "idle" => ReviewBegins(review[r].pc, review[r].row)

Stands ==
  /\ \A p \in archived : product[p].status = "ARCHIVED"
  /\ \A s \in Stores : store[s].status # "none" => s = newest
  /\ \A s \in Stores : store[s].approvedAt => store[s].status = "ACTIVE"

StandInv == ListingsTypeOK /\ (~mixed => OneReview /\ CheckHolds /\ Stands)

LEMMA StandInitInv == ListingsInit => StandInv
  <1> SUFFICES ASSUME ListingsInit PROVE OneReview /\ CheckHolds /\ Stands
    BY ListingsInitInv DEF StandInv, ListingsInv
  <1>1. \A r \in Reviews : review[r].pc = "idle"
    BY DEF ListingsInit, NoReview
  <1>2. \A s \in Stores : store[s].status = "none" /\ ~store[s].approvedAt
    BY DEF ListingsInit, NoStore
  <1> QED
    BY <1>1, <1>2 DEF OneReview, CheckHolds, Stands, ListingsInit

\* The handler's write leaves no other in flight.
LEMMA LastReviewEnds ==
  ASSUME ListingsTypeOK, OneReview, NEW r \in Reviews, review[r].pc # "idle",
         review' = [review EXCEPT ![r] = NoReview]
  PROVE  OneReview' /\ CheckHolds'
  <1>1. \A q \in Reviews : review'[q].pc = "idle"
    BY NoReviewKeeps DEF OneReview, NoReview
  <1> QED
    BY <1>1 DEF OneReview, CheckHolds

LEMMA StandStep ==
  ASSUME ListingsInv, StandInv, [ListingsNext]_listingVars
  PROVE  StandInv'
  <1>1. ListingsTypeOK'
    BY ListingsStepInv DEF ListingsInv
  <1> SUFFICES ASSUME ~mixed' PROVE OneReview' /\ CheckHolds' /\ Stands'
    BY <1>1 DEF StandInv
  <1>2. CASE UNCHANGED listingVars
    BY <1>2 DEF listingVars, StandInv, OneReview, CheckHolds, ReviewBegins, Stands
  <1>3. ASSUME ListingsNext
        PROVE  OneReview' /\ CheckHolds' /\ Stands'
    <2>1. PICK r \in Reviews : ListingsStepOf(r)
      BY <1>3, ListingsSteps
    <2>2. ~mixed
      BY <2>1 DEF ListingsStepOf, StartReview, CreateStoreWrite, CreateProductWrite, Archive,
         ReviewDies, WriteStore, WriteProduct
    <2>3. OneReview /\ CheckHolds /\ Stands /\ ListingsTypeOK
      BY <2>2 DEF StandInv
    <2>4. ASSUME NEW pc \in StoreCalls \cup ProductCalls,
                 NEW row \in Stores \cup Products \cup {NoRow},
                 StartReview(r, pc, row), ReviewBegins(pc, row)
          PROVE  OneReview' /\ CheckHolds' /\ Stands'
      <3>1. /\ review' = [review EXCEPT ![r] = [pc |-> pc, row |-> row]]
            /\ \A q \in Reviews \ {r} : review[q].pc = "idle"
            /\ UNCHANGED <<store, newest, product, archived>>
        BY <2>4 DEF StartReview
      <3>2. \A q \in Reviews : review'[q] = IF q = r THEN [pc |-> pc, row |-> row] ELSE review[q]
        BY <3>1, <2>3 DEF ListingsTypeOK
      <3>3. OneReview'
        BY <3>1, <3>2 DEF OneReview
      <3>4. ReviewBegins(pc, row)'
        BY <2>4, <3>1 DEF ReviewBegins
      <3>5. CheckHolds'
        BY <3>1, <3>2, <3>4 DEF CheckHolds
      <3> QED
        BY <2>3, <3>1, <3>3, <3>5 DEF Stands
    <2>5. CASE CreateStoreWrite(r)
      <3>1. PICK s \in Stores :
              /\ store' = [store EXCEPT ![s] = [NoStore EXCEPT !.status = "PENDING"]]
              /\ newest' = s
        BY <2>5 DEF CreateStoreWrite
      <3>2. /\ review[r].pc = "createStore" /\ review' = [review EXCEPT ![r] = NoReview]
            /\ UNCHANGED <<product, archived>>
        BY <2>5 DEF CreateStoreWrite
      <3>3. newest = NoRow
        BY <2>3, <3>2 DEF CheckHolds, ReviewBegins, StoreCalls, ProductCalls
      <3>4. \A t \in Stores : store[t].status = "none"
        BY <2>3, <3>3, ListingsAssumption DEF Stands
      <3>5. \A t \in Stores : t # s => store'[t] = store[t]
        BY <3>1, <2>3 DEF ListingsTypeOK
      <3>6. store'[s] = [NoStore EXCEPT !.status = "PENDING"]
        BY <3>1, <2>3 DEF ListingsTypeOK
      <3>7. ~store'[s].approvedAt
        BY <3>6 DEF NoStore
      <3>8. Stands'
        BY <2>3, <3>1, <3>2, <3>4, <3>5, <3>7 DEF Stands
      <3> QED
        BY <2>3, <3>2, <3>8, LastReviewEnds
    <2>6. CASE CreateProductWrite(r)
      <3>1. PICK p \in Products :
              /\ product[p].status = "none"
              /\ product' = [product EXCEPT ![p] = [status |-> "ACTIVE", publishedAt |-> TRUE,
                                                    reason |-> FALSE]]
        BY <2>6 DEF CreateProductWrite
      <3>2. /\ review[r].pc = "createProduct" /\ review' = [review EXCEPT ![r] = NoReview]
            /\ UNCHANGED <<store, newest, archived>>
        BY <2>6 DEF CreateProductWrite
      <3>3. Stands'
        BY <2>3, <3>1, <3>2 DEF Stands, ListingsTypeOK
      <3> QED
        BY <2>3, <3>2, <3>3, LastReviewEnds
    <2>7. CASE Archive(r)
      <3> DEFINE p == review[r].row
      <3>1. /\ review[r].pc = "archive" /\ review' = [review EXCEPT ![r] = NoReview]
            /\ product' = [product EXCEPT ![p].status = "ARCHIVED"]
            /\ archived' = archived \cup {p}
            /\ UNCHANGED <<store, newest>>
        BY <2>7 DEF Archive
      <3>2. p \in Products
        BY <2>3, <3>1 DEF ListingsTypeOK, ProductCalls
      <3>3. \A q \in Products : product'[q].status = IF q = p THEN "ARCHIVED" ELSE product[q].status
        BY <2>3, <3>1, <3>2 DEF ListingsTypeOK, ProductRows
      <3> HIDE DEF p
      <3>4. Stands'
        BY <2>3, <3>1, <3>2, <3>3 DEF Stands, ListingsTypeOK
      <3> QED
        BY <2>3, <3>1, <3>4, LastReviewEnds
    <2>8. CASE ReviewDies(r)
      BY <2>3, <2>8, LastReviewEnds DEF ReviewDies, Stands
    <2>9. ASSUME NEW pc \in StoreCalls \ {"createStore"}, NEW new,
                 WriteStore(r, pc, new), StoreMove(pc, store[review[r].row], new)
          PROVE  OneReview' /\ CheckHolds' /\ Stands'
      <3> DEFINE s == review[r].row
      <3>1. /\ review[r].pc = pc /\ store' = [store EXCEPT ![s] = new]
            /\ review' = [review EXCEPT ![r] = NoReview]
            /\ UNCHANGED <<newest, product, archived>>
        BY <2>9 DEF WriteStore
      <3>2. s \in Stores /\ store[s] \in StoreRows /\ store[s].status # "none"
        BY <2>3, <3>1 DEF ListingsTypeOK
      <3>3. pc \in {"approveStore", "rejectStore"} => store[s].status = "PENDING"
        BY <2>3, <3>1 DEF CheckHolds, ReviewBegins, StoreCalls, ProductCalls
      <3>4. store[s].approvedAt => store[s].status = "ACTIVE"
        BY <2>3, <3>2 DEF Stands
      <3>5. new.approvedAt => new.status = "ACTIVE"
        BY <2>9, <3>2, <3>3, <3>4 DEF StoreMove, StoreRows, Undecorated, ApprovedStore
      <3>6. s = newest
        BY <2>3, <3>2 DEF Stands
      <3>7. \A t \in Stores : store'[t] = IF t = s THEN new ELSE store[t]
        BY <2>3, <3>1, <3>2 DEF ListingsTypeOK
      <3> HIDE DEF s
      <3>8. Stands'
        BY <2>3, <3>1, <3>5, <3>6, <3>7 DEF Stands
      <3>9. pc # "idle"
        BY DEF StoreCalls
      <3> QED
        BY <2>3, <3>1, <3>8, <3>9, LastReviewEnds
    <2>10. ASSUME NEW pc \in ProductCalls \ {"createProduct"}, NEW new,
                  WriteProduct(r, pc, new), ProductMove(pc, product[review[r].row], new)
           PROVE  OneReview' /\ CheckHolds' /\ Stands'
      <3> DEFINE p == review[r].row
      <3>1. /\ review[r].pc = pc /\ product' = [product EXCEPT ![p] = new]
            /\ review' = [review EXCEPT ![r] = NoReview]
            /\ UNCHANGED <<store, newest, archived>>
        BY <2>10 DEF WriteProduct
      <3>2. p \in Products
        BY <2>3, <3>1 DEF ListingsTypeOK
      <3>3. product[p].status # "ARCHIVED"
        BY <2>3, <2>10, <3>1 DEF CheckHolds, ReviewBegins, StoreCalls, ProductCalls, ProductMove
      <3>4. p \notin archived
        BY <2>3, <3>3 DEF Stands
      <3> HIDE DEF p
      <3>5. Stands'
        BY <2>3, <3>1, <3>2, <3>4 DEF Stands, ListingsTypeOK
      <3>6. pc # "idle"
        BY DEF ProductCalls
      <3> QED
        BY <2>3, <3>1, <3>5, <3>6, LastReviewEnds
    <2> QED
      BY <2>1, <2>4, <2>5, <2>6, <2>7, <2>8, <2>9, <2>10 DEF ListingsStepOf
  <1> QED
    BY <1>2, <1>3

\* As long as no two handlers overlap, a seller has one store, an approved store
\* stays on sale and an archived product stays away (Listings.ListingsStand).  A
\* product's refusal does not stand: the seller's next edit publishes it.
THEOREM DecisionsHold == ListingsSpec => []ListingsStand
  <1>1. StandInv => ListingsStand
    BY DEF StandInv, Stands, ListingsStand, ArchivedStays, OneStorePerSeller, ApprovedStays
  <1> QED
    BY <1>1, ListingsInitInv, ListingsStepInv, StandInitInv, StandStep, PTL DEF ListingsSpec

-----------------------------------------------------------------------------
(* CartRows: as long as calls do not meet, the one in flight brings what   *)
(* was wanted.                                                             *)

Pages == {"menu", "cart", "product"}
Ops == {"fetch", "add", "set", "remove", "clear"}
Cart == [Dishes -> Int]

\* What the one call in flight will make of the cart, and what holds it apart
\* from the next.
InStep(a) ==
  /\ sent[a].pc = "sent" => basket = kept /\ want = RowsAfter(sent[a])
  /\ sent[a].pc = "done" => sent[a].rows = want /\ kept = want
  /\ \/ sent[a].dish = NoDish
     \/ spot = "product" /\ waits
     \/ spot # "product" /\ rowBusy = sent[a].dish

RowTypes ==
  /\ spot \in Pages /\ waits \in BOOLEAN /\ strayed \in BOOLEAN
  /\ rowBusy \in Dishes \cup {NoDish}
  /\ kept \in Cart /\ basket \in Cart /\ want \in Cart
  /\ sent \in [Sends -> [pc : {"free", "sent", "done"}, op : Ops,
                         dish : Dishes \cup {NoDish}, qty : Int, rows : Cart]]

Waiting ==
  /\ waits => Flying # {}
  /\ rowBusy # NoDish => \E a \in Flying : sent[a].dish # NoDish

Alone ==
  ~strayed => /\ \A a, b \in Flying : a = b
              /\ Flying = {} => kept = want /\ basket = want
              /\ \A a \in Flying : InStep(a)

RowInv == RowTypes /\ Waiting /\ Alone

LEMMA RowInit == CartRowsInit => RowInv
  <1> SUFFICES ASSUME CartRowsInit PROVE RowInv
    OBVIOUS
  <1>1. Rows0 \in Cart
    BY DEF Rows0, Cart
  <1>2. NoSend \in [pc : {"free", "sent", "done"}, op : Ops,
                   dish : Dishes \cup {NoDish}, qty : Int, rows : Cart]
    BY <1>1 DEF NoSend, Ops
  <1>3. RowTypes
    BY <1>1, <1>2 DEF CartRowsInit, RowTypes, Pages
  <1>4. Flying = {}
    BY DEF CartRowsInit, Flying, NoSend
  <1> QED
    BY <1>3, <1>4 DEF CartRowsInit, RowInv, Waiting, Alone

LEMMA AfterType ==
  ASSUME RowTypes, NEW c \in [pc : {"free", "sent", "done"}, op : Ops,
                              dish : Dishes \cup {NoDish}, qty : Int, rows : Cart]
  PROVE  RowsAfter(c) \in Cart
  <1> USE DEF RowTypes, Cart
  <1>1. CASE c.op = "add"
    <2>1. RowsAfter(c) = [kept EXCEPT ![c.dish] = kept[c.dish] + c.qty]
      BY <1>1 DEF RowsAfter
    <2>2. RowsAfter(c) = [o \in Dishes |-> IF o = c.dish THEN kept[o] + c.qty ELSE kept[o]]
      BY <2>1
    <2>3. \A o \in Dishes : kept[o] \in Int /\ c.qty \in Int
      OBVIOUS
    <2> QED
      BY <2>2, <2>3
  <1>2. CASE c.op \in {"set", "remove"}
    <2>1. RowsAfter(c) = [kept EXCEPT ![c.dish] = c.qty]
      BY <1>2 DEF RowsAfter
    <2> QED
      BY <2>1
  <1>3. CASE c.op = "clear"
    <2>1. RowsAfter(c) = Rows0
      BY <1>3 DEF RowsAfter
    <2> QED
      BY <2>1 DEF Rows0
  <1>4. CASE c.op = "fetch"
    <2>1. RowsAfter(c) = kept
      BY <1>4 DEF RowsAfter
    <2> QED
      BY <2>1
  <1> QED
    BY <1>1, <1>2, <1>3, <1>4 DEF Ops

\* A press sends its call; unless it met another one, the cart will be what
\* was wanted.
LEMMA Pressing ==
  ASSUME RowInv, NEW a \in Sends, NEW op \in Ops, NEW o \in Dishes \cup {NoDish}, NEW n \in Int,
         Send(a, op, o, n), rowBusy' \in Dishes \cup {NoDish}, spot' \in Pages, want' \in Cart,
         rowBusy' \in {rowBusy, NoDish} \/ o # NoDish,
         UNCHANGED <<kept, basket>>,
         ~strayed' => Flying = {},
         ~strayed' => want' = RowsAfter(sent'[a]),
         o = NoDish \/ spot' = "product" \/ rowBusy' = o
  PROVE  RowInv'
  <1> USE DEF RowInv
  <1>1. /\ sent[a].pc = "free" /\ waits'
        /\ sent' = [sent EXCEPT ![a] = [pc |-> "sent", op |-> op, dish |-> o, qty |-> n,
                                        rows |-> Rows0]]
    BY DEF Send
  <1>2. RowTypes'
    BY <1>1 DEF RowTypes, Send, Cart, Rows0
  <1>3. sent'[a] = [pc |-> "sent", op |-> op, dish |-> o, qty |-> n, rows |-> Rows0]
    BY <1>1 DEF RowTypes
  <1>4. \A b \in Sends \ {a} : sent'[b] = sent[b]
    BY <1>1 DEF RowTypes
  <1>5. Flying' = Flying \cup {a}
    BY <1>3, <1>4 DEF Flying
  <1>6. Waiting'
    <2>1. waits' => Flying' # {}
      BY <1>5
    <2>2. ASSUME rowBusy' # NoDish
          PROVE  \E b \in Flying' : sent'[b].dish # NoDish
      <3>1. CASE o # NoDish
        BY <3>1, <1>3, <1>5
      <3>2. CASE rowBusy' = rowBusy
        <4>1. PICK b \in Flying : sent[b].dish # NoDish
          BY <2>2, <3>2 DEF Waiting
        <4>2. b # a
          BY <1>1 DEF Flying
        <4> QED
          BY <4>1, <4>2, <1>4, <1>5 DEF Flying
      <3> QED
        BY <2>2, <3>1, <3>2
    <2> QED
      BY <2>1, <2>2 DEF Waiting
  <1>7. Alone'
    <2> SUFFICES ASSUME ~strayed'
                 PROVE  InStep(a)' /\ Flying' = {a}
      BY DEF Alone
    <2>1. ~strayed /\ Flying = {}
      BY DEF Send
    <2>2. basket = kept /\ want' = RowsAfter(sent'[a])
      BY <2>1 DEF Alone
    <2>3. RowsAfter(sent'[a]) = RowsAfter(sent[a])'
      BY DEF RowsAfter
    <2> QED
      BY <1>1, <1>3, <1>5, <2>1, <2>2, <2>3 DEF InStep
  <1> QED
    BY <1>2, <1>6, <1>7

\* A row that is free, and has its call alone in flight, has none in flight.
LEMMA FreeRow ==
  ASSUME RowInv, NEW o \in Dishes, ~strayed,
         \A b \in Flying : sent[b].dish = o /\ o # NoDish,
         IF spot = "product" THEN ~waits ELSE RowFree(o)
  PROVE  Flying = {} /\ kept = want /\ basket = want
  BY DEF RowInv, Alone, InStep, RowFree

\* The call of a row, and what it will make of the cart.
LEMMA PressOfRow ==
  ASSUME RowInv, NEW a \in Sends, NEW op \in {"add", "set", "remove"}, NEW o \in Dishes, NEW n \in Int,
         NEW m \in Int,
         Send(a, op, o, n), Wants(o, m), UNCHANGED <<spot, kept, basket>>,
         IF spot = "product" THEN ~waits /\ UNCHANGED rowBusy ELSE RowFree(o) /\ rowBusy' = o,
         kept = want /\ basket = want => m = IF op = "add" THEN kept[o] + n ELSE n
  PROVE  RowInv'
  <1> USE DEF RowInv
  <1>1. rowBusy' \in Dishes \cup {NoDish} /\ spot' \in Pages
    BY DEF RowTypes
  <1>2. want' \in Cart
    BY DEF Wants, Rows0, RowTypes, Cart
  <1>3. ~strayed' => Flying = {} /\ kept = want /\ basket = want
    BY FreeRow DEF Send
  <1>4. sent'[a] = [pc |-> "sent", op |-> op, dish |-> o, qty |-> n, rows |-> Rows0]
    BY DEF Send, RowTypes
  <1>5. ASSUME ~strayed' PROVE want' = RowsAfter(sent'[a])
    <2>1. want' = [kept EXCEPT ![o] = m]
      BY <1>3, <1>5 DEF Wants
    <2> DEFINE c == sent'[a]
    <2>0. c.op = op /\ c.dish = o /\ c.qty = n
      BY <1>4
    <2> HIDE DEF c
    <2>2. CASE op = "add"
      <3>1. m = kept[o] + n
        BY <1>3, <1>5, <2>2
      <3>2. RowsAfter(c) = [kept EXCEPT ![o] = kept[o] + n]
        BY <2>0, <2>2 DEF RowsAfter
      <3> QED
        BY <2>1, <3>1, <3>2 DEF c
    <2>3. CASE op \in {"set", "remove"}
      <3>1. m = n
        BY <1>3, <1>5, <2>3
      <3>2. RowsAfter(c) = [kept EXCEPT ![o] = n]
        BY <2>0, <2>3 DEF RowsAfter
      <3> QED
        BY <2>1, <3>1, <3>2 DEF c
    <2> QED
      BY <2>2, <2>3
  <1>6. rowBusy' \in {rowBusy, NoDish} \/ o # NoDish
    BY CartRowsAssumption
  <1>7. o = NoDish \/ spot' = "product" \/ rowBusy' = o
    OBVIOUS
  <1> QED
    BY <1>1, <1>2, <1>3, <1>5, <1>6, <1>7, Pressing DEF Ops

\* An answer, or its loss, ends a call.
LEMMA Ending ==
  ASSUME RowInv, NEW a \in Sends, Done(a), a \in Flying,
         basket' \in Cart, want' \in Cart, strayed' \in BOOLEAN,
         ~strayed' => ~strayed /\ kept = want' /\ basket' = want'
  PROVE  RowInv'
  <1> USE DEF RowInv
  <1>1. NoSend \in [pc : {"free", "sent", "done"}, op : Ops,
                   dish : Dishes \cup {NoDish}, qty : Int, rows : Cart]
    BY DEF NoSend, Ops, Rows0, Cart
  <1>2. RowTypes'
    BY <1>1 DEF RowTypes, Done
  <1>3. sent'[a].pc = "free" /\ \A b \in Sends \ {a} : sent'[b] = sent[b]
    BY DEF RowTypes, Done, NoSend
  <1>4. Flying' = Flying \ {a}
    BY <1>3 DEF Flying
  <1>5. Waiting'
    <2> SUFFICES ASSUME rowBusy' # NoDish
                 PROVE  \E b \in Flying' : sent'[b].dish # NoDish
      BY DEF Waiting, Done
    <2>1. sent[a].dish = NoDish /\ rowBusy' = rowBusy
      BY DEF Done
    <2>2. PICK b \in Flying : sent[b].dish # NoDish
      BY <2>1 DEF Waiting
    <2>3. b \in Sends \ {a}
      BY <2>1, <2>2 DEF Flying
    <2> QED
      BY <2>2, <2>3, <1>3, <1>4
  <1>6. Alone'
    BY <1>4 DEF Alone, Done
  <1> QED
    BY <1>2, <1>5, <1>6

LEMMA RowStep ==
  ASSUME RowInv, [CartRowsNext]_cartRowVars
  PROVE  RowInv'
  <1> USE CartRowsAssumption DEF RowInv
  <1>0. \A o \in Dishes : want[o] \in Int /\ basket[o] \in Int /\ kept[o] \in Int
    BY DEF RowTypes, Cart
  <1>1. ASSUME NEW a \in Sends, ClearCart(a) PROVE RowInv'
    <2>1. ~strayed' => Flying = {}
      BY <1>1 DEF ClearCart, Send
    <2>2. sent'[a] = [pc |-> "sent", op |-> "clear", dish |-> NoDish, qty |-> 0, rows |-> Rows0]
      BY <1>1 DEF ClearCart, Send, RowTypes
    <2>3. want' = RowsAfter(sent'[a])
      BY <1>1, <2>2 DEF ClearCart, RowsAfter
    <2>4. rowBusy' = rowBusy /\ rowBusy' \in Dishes \cup {NoDish} /\ spot' \in Pages /\ want' \in Cart
      BY <1>1 DEF ClearCart, RowTypes, Rows0, Cart
    <2> QED
      BY <1>1, <2>1, <2>3, <2>4, Pressing DEF ClearCart, Ops
  <1>2. ASSUME NEW a \in Sends, Serve(a) PROVE RowInv'
    <2>1. sent[a] \in [pc : {"free", "sent", "done"}, op : Ops,
                       dish : Dishes \cup {NoDish}, qty : Int, rows : Cart]
      BY DEF RowTypes
    <2>2. RowsAfter(sent[a]) \in Cart
      BY <2>1, AfterType
    <2>3. RowTypes'
      <3>1. [NoSend EXCEPT !.pc = "done", !.dish = sent[a].dish, !.rows = RowsAfter(sent[a])]
              \in [pc : {"free", "sent", "done"}, op : Ops,
                   dish : Dishes \cup {NoDish}, qty : Int, rows : Cart]
        <4>1. NoSend \in [pc : {"free", "sent", "done"}, op : Ops,
                          dish : Dishes \cup {NoDish}, qty : Int, rows : Cart]
          BY DEF NoSend, Ops, Rows0, Cart
        <4>2. sent[a].dish \in Dishes \cup {NoDish}
          BY <2>1
        <4> QED
          BY <4>1, <4>2, <2>2
      <3> QED
        BY <1>2, <2>2, <3>1 DEF Serve, RowTypes
    <2>4. /\ sent'[a].pc = "done" /\ sent'[a].rows = RowsAfter(sent[a])
          /\ sent'[a].dish = sent[a].dish
          /\ \A b \in Sends \ {a} : sent'[b] = sent[b]
      BY <1>2 DEF Serve, RowTypes, NoSend
    <2>5. Flying' = Flying /\ a \in Flying
      BY <1>2, <2>4 DEF Flying, Serve
    <2>6. Waiting'
      BY <1>2, <2>4, <2>5 DEF Waiting, Serve, Flying
    <2>7. Alone'
      <3> SUFFICES ASSUME ~strayed
                   PROVE  (\A b, c \in Flying : b = c) /\ InStep(a)'
        BY <1>2, <2>5 DEF Alone, Serve
      <3>1. (\A b, c \in Flying : b = c) /\ InStep(a)
        BY <2>5 DEF Alone
      <3> QED
        BY <3>1, <1>2, <2>4 DEF InStep, Serve
    <2> QED
      BY <2>3, <2>6, <2>7
  <1>3. ASSUME NEW a \in Sends, CartShown(a) \/ CartRefused(a) \/ AnswerLost(a) PROVE RowInv'
    <2>1. a \in Flying
      BY <1>3 DEF CartShown, CartRefused, AnswerLost, Flying
    <2>2. ~strayed => InStep(a)
      BY <2>1 DEF Alone
    <2>3. Rows0 \in Cart /\ sent[a].rows \in Cart
      BY DEF Rows0, Cart, RowTypes
    <2>4. CASE CartShown(a)
      BY <2>1, <2>2, <2>3, <2>4, Ending DEF CartShown, InStep, RowTypes, Done
    <2>5. CASE CartRefused(a)
      BY <2>1, <2>2, <2>3, <2>5, Ending DEF CartRefused, InStep, RowTypes, Done
    <2>6. CASE AnswerLost(a)
      BY <2>1, <2>2, <2>3, <2>6, Ending DEF AnswerLost, RowTypes
    <2> QED
      BY <1>3, <2>4, <2>5, <2>6
  <1>4. ASSUME NEW a \in Sends, NEW p \in Pages, Visit(a, p) PROVE RowInv'
    <2>1. want' \in Cart /\ spot' \in Pages /\ rowBusy' = NoDish /\ kept' = kept /\ basket' = basket
      BY <1>4 DEF Visit, RowTypes, Rows0, Cart
    <2>2. CASE p = "cart"
      <3>1. Send(a, "fetch", NoDish, 0)
        BY <1>4, <2>2 DEF Visit
      <3>2. ~strayed' => Flying = {} /\ ~strayed
        BY <3>1 DEF Send
      <3>3. sent'[a] = [pc |-> "sent", op |-> "fetch", dish |-> NoDish, qty |-> 0, rows |-> Rows0]
        BY <3>1 DEF Send, RowTypes
      <3>4. RowsAfter(sent'[a]) = kept
        BY <3>3 DEF RowsAfter
      <3>5. ~strayed' => want' = RowsAfter(sent'[a])
        BY <3>2, <3>4, <1>4 DEF Visit, Alone
      <3> QED
        BY <2>1, <3>1, <3>2, <3>5, Pressing DEF Ops
    <2>3. CASE p # "cart"
      <3>1. sent' = sent /\ waits' = waits /\ strayed' = (strayed \/ Flying # {})
        BY <1>4, <2>3 DEF Visit
      <3>2. Flying' = Flying
        BY <3>1 DEF Flying
      <3>3. RowTypes' /\ Waiting'
        BY <2>1, <3>1, <3>2 DEF RowTypes, Waiting
      <3>4. Alone'
        BY <1>4, <2>1, <3>1, <3>2 DEF Alone, Visit
      <3> QED
        BY <3>3, <3>4
    <2> QED
      BY <2>2, <2>3
  <1>5. ASSUME NEW a \in Sends, NEW o \in Dishes, OnAdd(a, o) PROVE RowInv'
    BY <1>5, <1>0, PressOfRow DEF OnAdd
  <1>6. ASSUME NEW a \in Sends, NEW o \in Dishes, OnRemove(a, o) PROVE RowInv'
    BY <1>6, <1>0, PressOfRow DEF OnRemove
  <1>7. ASSUME NEW a \in Sends, NEW o \in Dishes, NEW n \in 0..Pieces, OnStep(a, o, n) PROVE RowInv'
    <2>1. want[o] + n - basket[o] \in Int /\ n \in Int
      BY <1>0
    <2>2. kept = want /\ basket = want => want[o] + n - basket[o] = n
      BY <1>0
    <2>3. (IF n < 1 THEN "remove" ELSE "set") \in {"set", "remove"}
      OBVIOUS
    <2> QED
      BY <1>7, <2>1, <2>2, <2>3, PressOfRow DEF OnStep
  <1>8. ASSUME NEW a \in Sends, NEW o \in Dishes, NEW n \in 0..Pieces, OnQtyChange(a, o, n) PROVE RowInv'
    <2>1. want[o] + n - basket[o] \in Int /\ n \in Int
      BY <1>0
    <2>2. kept = want /\ basket = want => want[o] + n - basket[o] = n
      BY <1>0
    <2> QED
      BY <1>8, <2>1, <2>2, PressOfRow DEF OnQtyChange
  <1>9. ASSUME NEW a \in Sends, NEW o \in Dishes, NEW n \in 0..Pieces, OnAddToCart(a, o, n) PROVE RowInv'
    BY <1>9, <1>0, PressOfRow DEF OnAddToCart
  <1>10. CASE UNCHANGED cartRowVars
    BY <1>10 DEF cartRowVars, RowTypes, Waiting, Alone, Flying, InStep, RowsAfter
  <1> QED
    BY <1>1, <1>2, <1>3, <1>4, <1>5, <1>6, <1>7, <1>8, <1>9, <1>10 DEF CartRowsNext, Pages

LEMMA RowsFollow == RowInv => RowsSettle /\ PressesCount
  BY DEF RowInv, Waiting, Alone, RowsSettle, PressesCount

\* For any number of dishes, pieces and calls: a row never waits for nothing; and
\* however fast the buttons of one row are pressed, the cart holds what the
\* presses add up to, until a call meets one that is not of its row (another
\* row's, a clear, the cart page's own fetch), a page is left during a call, or
\* an answer is lost (CartRows.RowsSettle, CartRows.PressesCount).
THEOREM EveryPressCounts == CartRowsSpec => [](RowsSettle /\ PressesCount)
  BY RowInit, RowStep, RowsFollow, PTL DEF CartRowsSpec

\* Bounded rows: what a press adds stays within a row, since the pages count
\* from the cart they were answered.
Rows == [Dishes -> 0..MaxRow]
SendSet == [pc : {"free", "sent", "done"}, op : Ops, dish : Dishes \cup {NoDish},
            qty : 0..MaxRow, rows : Rows]

LEMMA RowsTyped ==
  CartRowsTypeOK <=>
    /\ spot \in Pages /\ kept \in Rows /\ basket \in Rows /\ want \in Rows
    /\ sent \in [Sends -> SendSet]
    /\ rowBusy \in Dishes \cup {NoDish} /\ waits \in BOOLEAN /\ strayed \in BOOLEAN
  BY DEF CartRowsTypeOK, Pages, Rows, SendSet, Ops

LEMMA EmptyRows == Rows0 \in Rows /\ NoSend \in SendSet
  BY CartRowsAssumption DEF Rows0, NoSend, Rows, SendSet, Ops

LEMMA SendTyped ==
  ASSUME CartRowsTypeOK, NEW a \in Sends, NEW op \in Ops, NEW o \in Dishes \cup {NoDish},
         NEW n \in 0..MaxRow, Send(a, op, o, n)
  PROVE  sent' \in [Sends -> SendSet] /\ waits' \in BOOLEAN /\ strayed' \in BOOLEAN
  <1>1. [pc |-> "sent", op |-> op, dish |-> o, qty |-> n, rows |-> Rows0] \in SendSet
    BY EmptyRows DEF SendSet
  <1> QED
    BY <1>1, RowsTyped DEF Send

LEMMA PressTyped ==
  ASSUME RowInv, CartRowsTypeOK, NEW a \in Sends, NEW op \in {"add", "set", "remove"},
         NEW o \in Dishes, NEW n \in 0..MaxRow, NEW m \in Int,
         Send(a, op, o, n), Wants(o, m), UNCHANGED <<spot, kept, basket>>,
         IF spot = "product" THEN ~waits /\ UNCHANGED rowBusy ELSE RowFree(o) /\ rowBusy' = o,
         kept = want /\ basket = want => m \in 0..MaxRow
  PROVE  CartRowsTypeOK'
  <1>1. op \in Ops /\ o \in Dishes \cup {NoDish}
    BY DEF Ops
  <1>2. sent' \in [Sends -> SendSet] /\ waits' \in BOOLEAN /\ strayed' \in BOOLEAN
    BY <1>1, SendTyped
  <1>3. ~strayed' => kept = want /\ basket = want
    BY FreeRow DEF Send
  <1>4. want' \in Rows
    BY <1>3, EmptyRows, RowsTyped DEF Wants, Rows
  <1>5. rowBusy' \in Dishes \cup {NoDish}
    BY DEF CartRowsTypeOK
  <1>6. spot' \in Pages /\ kept' \in Rows /\ basket' \in Rows
    BY RowsTyped
  <1> QED
    BY <1>2, <1>4, <1>5, <1>6 DEF CartRowsTypeOK, Pages, Rows, SendSet, Ops

LEMMA ServedTyped ==
  ASSUME CartRowsTypeOK, NEW c \in SendSet, Takes(c)
  PROVE  RowsAfter(c) \in Rows
  <1> USE CartRowsAssumption
  <1>0. kept \in Rows /\ c.qty \in 0..MaxRow
    BY RowsTyped DEF SendSet
  <1>1. CASE c.op = "add"
    <2>1. RowsAfter(c) = [kept EXCEPT ![c.dish] = kept[c.dish] + c.qty]
      BY <1>1 DEF RowsAfter
    <2>2. kept[c.dish] + c.qty <= MaxRow
      BY <1>1 DEF Takes, RowsTaken
    <2>3. RowsAfter(c) = [o \in Dishes |-> IF o = c.dish THEN kept[c.dish] + c.qty ELSE kept[o]]
      BY <2>1, <1>0 DEF Rows
    <2>4. \A o \in Dishes : (IF o = c.dish THEN kept[c.dish] + c.qty ELSE kept[o]) \in 0..MaxRow
      BY <1>0, <2>2 DEF Rows
    <2> QED
      BY <2>3, <2>4 DEF Rows
  <1>2. CASE c.op \in {"set", "remove"}
    <2>1. RowsAfter(c) = [kept EXCEPT ![c.dish] = c.qty]
      BY <1>2 DEF RowsAfter
    <2> QED
      BY <2>1, <1>0 DEF Rows
  <1>3. CASE c.op = "clear"
    <2>1. RowsAfter(c) = Rows0
      BY <1>3 DEF RowsAfter
    <2> QED
      BY <2>1, EmptyRows
  <1>4. CASE c.op = "fetch"
    <2>1. RowsAfter(c) = kept
      BY <1>4 DEF RowsAfter
    <2> QED
      BY <2>1, <1>0
  <1> QED
    BY <1>1, <1>2, <1>3, <1>4 DEF SendSet, Ops

LEMMA RowTypeInit == CartRowsInit => CartRowsTypeOK
  BY EmptyRows, RowsTyped DEF CartRowsInit, Pages

LEMMA RowTypeStep ==
  ASSUME RowInv, CartRowsTypeOK, [CartRowsNext]_cartRowVars
  PROVE  CartRowsTypeOK'
  <1> USE CartRowsAssumption
  <1>0. \A o \in Dishes : want[o] \in 0..MaxRow /\ basket[o] \in 0..MaxRow /\ kept[o] \in 0..MaxRow
    BY RowsTyped DEF Rows
  <1>1. ASSUME NEW a \in Sends, ClearCart(a) PROVE CartRowsTypeOK'
    <2>1. sent' \in [Sends -> SendSet] /\ waits' \in BOOLEAN /\ strayed' \in BOOLEAN
      BY <1>1, SendTyped DEF ClearCart, Ops
    <2> QED
      BY <1>1, <2>1, EmptyRows
         DEF ClearCart, CartRowsTypeOK, Pages, Rows, SendSet, Ops
  <1>2. ASSUME NEW a \in Sends, Serve(a) PROVE CartRowsTypeOK'
    <2>1. sent[a] \in SendSet /\ Takes(sent[a])
      BY <1>2, RowsTyped DEF Serve
    <2>2. RowsAfter(sent[a]) \in Rows
      BY <2>1, ServedTyped
    <2>3. [NoSend EXCEPT !.pc = "done", !.dish = sent[a].dish, !.rows = RowsAfter(sent[a])]
            \in SendSet
      BY <2>1, <2>2, EmptyRows DEF SendSet
    <2>4. sent' \in [Sends -> SendSet]
      BY <1>2, <2>3, RowsTyped DEF Serve
    <2> QED
      BY <1>2, <2>2, <2>4 DEF Serve, CartRowsTypeOK, Rows, SendSet, Ops
  <1>3. ASSUME NEW a \in Sends, CartShown(a) \/ CartRefused(a) \/ AnswerLost(a)
        PROVE  CartRowsTypeOK'
    <2>1. Done(a) /\ strayed' \in BOOLEAN
      BY <1>3 DEF CartShown, CartRefused, AnswerLost, CartRowsTypeOK
    <2>2. sent' \in [Sends -> SendSet] /\ waits' \in BOOLEAN /\ rowBusy' \in Dishes \cup {NoDish}
      BY <2>1, EmptyRows, RowsTyped DEF Done
    <2>3. basket' \in Rows /\ want' \in Rows
      BY <1>3, EmptyRows, RowsTyped DEF CartShown, CartRefused, AnswerLost, SendSet
    <2>4. spot' = spot /\ kept' = kept
      BY <2>1 DEF Done
    <2> QED
      BY <2>1, <2>2, <2>3, <2>4 DEF CartRowsTypeOK, Rows, SendSet, Ops
  <1>4. ASSUME NEW a \in Sends, NEW p \in Pages, Visit(a, p) PROVE CartRowsTypeOK'
    <2>1. sent' \in [Sends -> SendSet] /\ waits' \in BOOLEAN /\ strayed' \in BOOLEAN
      <3>1. CASE p = "cart"
        BY <1>4, <3>1, SendTyped DEF Visit, Ops
      <3>2. CASE p # "cart"
        BY <1>4, <3>2, RowsTyped DEF Visit
      <3> QED
        BY <3>1, <3>2
    <2>2. want' \in Rows /\ spot' \in Pages /\ rowBusy' = NoDish /\ UNCHANGED <<kept, basket>>
      BY <1>4, EmptyRows, RowsTyped DEF Visit
    <2> QED
      BY <2>1, <2>2 DEF CartRowsTypeOK, Pages, Rows, SendSet, Ops
  <1>5. ASSUME NEW a \in Sends, NEW o \in Dishes, OnAdd(a, o) PROVE CartRowsTypeOK'
    <2>1. basket = want => want[o] + 1 \in 0..MaxRow
      BY <1>0, <1>5 DEF OnAdd
    <2>2. want[o] + 1 \in Int /\ 1 \in 0..MaxRow
      BY <1>0
    <2> QED
      BY <1>5, <2>1, <2>2, PressTyped DEF OnAdd
  <1>6. ASSUME NEW a \in Sends, NEW o \in Dishes, OnRemove(a, o) PROVE CartRowsTypeOK'
    BY <1>6, PressTyped DEF OnRemove
  <1>7. ASSUME NEW a \in Sends, NEW o \in Dishes, NEW n \in 0..Pieces,
               OnStep(a, o, n) \/ OnQtyChange(a, o, n)
        PROVE  CartRowsTypeOK'
    <2>1. want[o] + n - basket[o] \in Int /\ n \in 0..MaxRow
      BY <1>0
    <2>2. basket = want => want[o] + n - basket[o] \in 0..MaxRow
      BY <1>0
    <2>3. (IF n < 1 THEN "remove" ELSE "set") \in {"set", "remove"}
      OBVIOUS
    <2>4. CASE OnStep(a, o, n)
      BY <2>1, <2>2, <2>3, <2>4, PressTyped DEF OnStep
    <2>5. CASE OnQtyChange(a, o, n)
      BY <2>1, <2>2, <2>5, PressTyped DEF OnQtyChange
    <2> QED
      BY <1>7, <2>4, <2>5
  <1>8. ASSUME NEW a \in Sends, NEW o \in Dishes, NEW n \in 0..Pieces, OnAddToCart(a, o, n)
        PROVE  CartRowsTypeOK'
    <2>1. want[o] + n \in Int /\ n \in 0..MaxRow
      BY <1>0
    <2>2. basket = want => want[o] + n \in 0..MaxRow
      BY <1>0, <1>8 DEF OnAddToCart
    <2> QED
      BY <1>8, <2>1, <2>2, PressTyped DEF OnAddToCart
  <1>9. CASE UNCHANGED cartRowVars
    BY <1>9 DEF cartRowVars, CartRowsTypeOK
  <1> QED
    BY <1>1, <1>2, <1>3, <1>4, <1>5, <1>6, <1>7, <1>8, <1>9 DEF CartRowsNext, Pages

-----------------------------------------------------------------------------
(* Sums over finite sets: an amount n is a pile of n pairs.                *)

\* A set of subsets that holds {} and every set whose smaller sets it holds
\* has them all: a smallest set that it lacks would be neither.
LEMMA SetInduction ==
  ASSUME NEW S, IsFiniteSet(S), NEW G \in SUBSET SUBSET S, {} \in G,
         \A s \in SUBSET S : s # {} /\ (\A x \in s : s \ {x} \in G) => s \in G
  PROVE  G = SUBSET S
  <1> SUFFICES ASSUME (SUBSET S) \ G # {} PROVE FALSE
    OBVIOUS
  <1> DEFINE T == (SUBSET S) \ G
  <1>1. IsWellFoundedOn(StrictSubsetOrdering(S), SUBSET S)
    <2>1. FiniteSubsetsOf(S) = SUBSET S
      BY FS_FiniteSubsetsOfFinite
    <2>2. IsWellFoundedOn(StrictSubsetOrdering(S), FiniteSubsetsOf(S))
      BY FS_StrictSubsetOrderingWellFounded
    <2> QED
      BY <2>1, <2>2
  <1>2. T \subseteq SUBSET S /\ T # {}
    OBVIOUS
  <1> HIDE DEF T
  <1>3. PICK s \in T : \A y \in T : ~ (<<y, s>> \in StrictSubsetOrdering(S))
    BY <1>1, <1>2, WFMin
  <1>4. \A x \in s : s \ {x} \in G
    <2> SUFFICES ASSUME NEW x \in s PROVE s \ {x} \in G
      OBVIOUS
    <2>1. <<s \ {x}, s>> \in StrictSubsetOrdering(S)
      <3>1. s \ {x} \in SUBSET S /\ s \in SUBSET S /\ s \ {x} # s
        BY <1>2
      <3> QED
        BY <3>1 DEF StrictSubsetOrdering
    <2> QED
      BY <1>2, <1>3, <2>1 DEF T
  <1>5. s \in SUBSET S /\ s \notin G
    <2>1. s \in T
      BY <1>3
    <2> QED
      BY <2>1 DEF T
  <1>6. s # {}
    BY <1>5
  <1> QED
    BY <1>4, <1>5, <1>6

Pile(A, s) == {p \in s \X Nat : p[2] \in 1..A[p[1]]}
Total(A, s) == Cardinality(Pile(A, s))

LEMMA OnePile ==
  ASSUME NEW x, NEW n \in Nat
  PROVE  IsFiniteSet({x} \X (1..n)) /\ Cardinality({x} \X (1..n)) = n
  <1>1. IsFiniteSet({x}) /\ Cardinality({x}) = 1
    BY FS_Singleton
  <1>2. IsFiniteSet(1..n) /\ Cardinality(1..n) = n
    BY FS_Interval
  <1> DEFINE X == {x}
  <1> DEFINE Y == 1..n
  <1>3. IsFiniteSet(X) /\ IsFiniteSet(Y) /\ Cardinality(X) = 1 /\ Cardinality(Y) = n
    BY <1>1, <1>2
  <1> HIDE DEF X, Y
  <1>4. IsFiniteSet(X \X Y) /\ Cardinality(X \X Y) = Cardinality(X) * Cardinality(Y)
    BY <1>3, FS_Product
  <1>5. Cardinality(X \X Y) = n
    BY <1>3, <1>4
  <1> QED
    BY <1>4, <1>5 DEF X, Y

LEMMA PilesSplit ==
  ASSUME NEW S, NEW A \in [S -> Nat], NEW s \in SUBSET S, NEW x \in s
  PROVE  /\ Pile(A, s) = Pile(A, s \ {x}) \cup ({x} \X (1..A[x]))
         /\ Pile(A, s \ {x}) \cap ({x} \X (1..A[x])) = {}
  BY DEF Pile

LEMMA PilesAreFinite ==
  ASSUME NEW S, IsFiniteSet(S), NEW A \in [S -> Nat], NEW s \in SUBSET S
  PROVE  IsFiniteSet(Pile(A, s))
  <1> DEFINE G == {t \in SUBSET S : IsFiniteSet(Pile(A, t))}
  <1>1. {} \in G
    <2>1. Pile(A, {}) = {}
      BY DEF Pile
    <2> QED
      BY <2>1, FS_EmptySet
  <1>2. ASSUME NEW t \in SUBSET S, t # {}, \A x \in t : t \ {x} \in G PROVE t \in G
    <2>1. PICK x \in t : TRUE
      BY <1>2
    <2>2. IsFiniteSet(Pile(A, t \ {x}))
      BY <1>2, <2>1
    <2>3. IsFiniteSet({x} \X (1..A[x]))
      BY <2>1, OnePile
    <2>4. IsFiniteSet(Pile(A, t \ {x}) \cup ({x} \X (1..A[x])))
      BY <2>2, <2>3, FS_Union
    <2> QED
      BY <2>1, <2>4, PilesSplit
  <1>3. G \in SUBSET SUBSET S
    OBVIOUS
  <1> HIDE DEF G
  <1>4. G = SUBSET S
    BY <1>1, <1>2, <1>3, SetInduction
  <1> QED
    BY <1>4 DEF G

LEMMA TotalAdds ==
  ASSUME NEW S, IsFiniteSet(S), NEW A \in [S -> Nat], NEW s \in SUBSET S
  PROVE  /\ Total(A, s) \in Nat /\ Total(A, {}) = 0
         /\ \A x \in s : Total(A, s) = A[x] + Total(A, s \ {x})
  <1>1. Total(A, s) \in Nat
    BY PilesAreFinite, FS_CardinalityType DEF Total
  <1>2. Total(A, {}) = 0
    <2>1. Pile(A, {}) = {}
      BY DEF Pile
    <2> QED
      BY <2>1, FS_EmptySet DEF Total
  <1>3. ASSUME NEW x \in s PROVE Total(A, s) = A[x] + Total(A, s \ {x})
    <2> DEFINE P == Pile(A, s \ {x})
    <2> DEFINE Q == {x} \X (1..A[x])
    <2>1. Pile(A, s) = P \cup Q /\ P \cap Q = {}
      BY PilesSplit
    <2>2. IsFiniteSet(P)
      BY PilesAreFinite
    <2>3. IsFiniteSet(Q) /\ Cardinality(Q) = A[x] /\ A[x] \in Nat
      BY OnePile
    <2> HIDE DEF P, Q
    <2>4. Cardinality(P \cup Q) = Cardinality(P) + Cardinality(Q) - Cardinality(P \cap Q)
      BY <2>2, <2>3, FS_Union
    <2>5. Cardinality(P \cap Q) = 0
      BY <2>1, FS_EmptySet
    <2>6. Cardinality(P) \in Nat
      BY <2>2, FS_CardinalityType
    <2>7. Total(A, s) = Cardinality(P) + A[x]
      BY <2>1, <2>3, <2>4, <2>5, <2>6 DEF Total
    <2> QED
      BY <2>6, <2>7 DEF Total, P
  <1> QED
    BY <1>1, <1>2, <1>3

\* What the library's recursion adds up, and what a sum is.
AddsUp(S, A, f) ==
  f = [s \in SUBSET S |->
         IF s = {} THEN 0
         ELSE A[CHOOSE x \in s : TRUE] + f[s \ {CHOOSE x \in s : TRUE}]]
Splits(S, A, g) ==
  /\ g \in [SUBSET S -> Nat] /\ g[{}] = 0
  /\ \A s \in SUBSET S : \A x \in s : g[s] = A[x] + g[s \ {x}]

LEMMA SumIsUnique ==
  ASSUME NEW S, IsFiniteSet(S), NEW A, NEW f, AddsUp(S, A, f), NEW g, Splits(S, A, g)
  PROVE  f = g
  <1> USE DEF AddsUp, Splits
  <1> DEFINE G == {s \in SUBSET S : f[s] = g[s]}
  <1>1. {} \in G
    OBVIOUS
  <1>2. ASSUME NEW s \in SUBSET S, s # {}, \A x \in s : s \ {x} \in G PROVE s \in G
    <2> DEFINE x == CHOOSE x \in s : TRUE
    <2>1. x \in s
      BY <1>2
    <2>2. f[s] = A[x] + f[s \ {x}]
      BY <1>2
    <2>3. f[s \ {x}] = g[s \ {x}]
      BY <1>2, <2>1
    <2> QED
      BY <2>1, <2>2, <2>3
  <1>3. G \in SUBSET SUBSET S
    OBVIOUS
  <1> HIDE DEF G
  <1>4. G = SUBSET S
    BY <1>1, <1>2, <1>3, SetInduction
  <1>5. \A s \in SUBSET S : f[s] = g[s]
    BY <1>4 DEF G
  <1> QED
    BY <1>5

LEMMA TheSum ==
  ASSUME NEW S, IsFiniteSet(S), NEW A, NEW g, Splits(S, A, g)
  PROVE  (CHOOSE f : AddsUp(S, A, f)) = g
  <1>1. AddsUp(S, A, g)
    <2>1. \A s \in SUBSET S : s # {} => (CHOOSE x \in s : TRUE) \in s
      OBVIOUS
    <2>2. \A s \in SUBSET S : g[s] = IF s = {} THEN 0
                                     ELSE A[CHOOSE x \in s : TRUE] + g[s \ {CHOOSE x \in s : TRUE}]
      BY <2>1 DEF Splits
    <2>3. g = [s \in SUBSET S |-> g[s]]
      BY DEF Splits
    <2> QED
      BY <2>2, <2>3 DEF AddsUp
  <1> QED
    BY <1>1, SumIsUnique

LEMMA TotalSplits ==
  ASSUME NEW S, IsFiniteSet(S), NEW A \in [S -> Nat]
  PROVE  Splits(S, A, [s \in SUBSET S |-> Total(A, s)])
  <1>1. \A s \in SUBSET S : Total(A, s) \in Nat
    BY TotalAdds
  <1>2. Total(A, {}) = 0
    BY TotalAdds
  <1>3. ASSUME NEW s \in SUBSET S, NEW x \in s PROVE Total(A, s) = A[x] + Total(A, s \ {x})
    BY <1>3, TotalAdds
  <1> QED
    BY <1>1, <1>2, <1>3 DEF Splits

LEMMA TotalGrows ==
  ASSUME NEW S, IsFiniteSet(S), NEW A \in [S -> Nat], NEW B \in [S -> Nat],
         NEW t \in SUBSET S, NEW s \in SUBSET t, \A x \in s : A[x] = B[x]
  PROVE  Total(A, s) <= Total(B, t)
  <1>1. Pile(A, s) \subseteq Pile(B, t)
    BY DEF Pile
  <1>2. IsFiniteSet(Pile(B, t))
    BY PilesAreFinite
  <1> QED
    BY <1>1, <1>2, FS_Subset DEF Total

LEMMA TotalJoins ==
  ASSUME NEW S, IsFiniteSet(S), NEW A \in [S -> Nat],
         NEW s \in SUBSET S, NEW t \in SUBSET S, s \cap t = {}
  PROVE  Total(A, s \cup t) = Total(A, t) + Total(A, s)
  <1>1. Pile(A, s \cup t) = Pile(A, s) \cup Pile(A, t) /\ Pile(A, s) \cap Pile(A, t) = {}
    BY DEF Pile
  <1>2. IsFiniteSet(Pile(A, s)) /\ IsFiniteSet(Pile(A, t))
    BY PilesAreFinite
  <1>3. /\ Cardinality(Pile(A, s) \cup Pile(A, t))
             = Cardinality(Pile(A, s)) + Cardinality(Pile(A, t))
                 - Cardinality(Pile(A, s) \cap Pile(A, t))
        /\ Cardinality(Pile(A, s)) \in Nat /\ Cardinality(Pile(A, t)) \in Nat
    BY <1>2, FS_Union, FS_CardinalityType
  <1>4. Cardinality(Pile(A, s) \cap Pile(A, t)) = 0
    BY <1>1, FS_EmptySet
  <1>5. /\ Total(A, s \cup t) = Cardinality(Pile(A, s) \cup Pile(A, t))
        /\ Total(A, s) = Cardinality(Pile(A, s)) /\ Total(A, t) = Cardinality(Pile(A, t))
    BY <1>1 DEF Total
  <1> QED
    BY <1>3, <1>4, <1>5

LEMMA TotalOfNone ==
  ASSUME NEW S, IsFiniteSet(S), NEW A \in [S -> Nat], NEW t \in SUBSET S, NEW s \in SUBSET t,
         \A x \in t \ s : A[x] = 0
  PROVE  Total(A, s) = Total(A, t)
  <1>1. Pile(A, s) = Pile(A, t)
    BY DEF Pile
  <1> QED
    BY <1>1 DEF Total

-----------------------------------------------------------------------------
(* Payouts: what is kept of orders, claims and statistics.                 *)

JobSet == [status : {"READY", "COURIER_ASSIGNED", "ON_WAY", "DELIVERED"},
           rider : Riders \cup {NoRider}, fee : Fees, cut : Nat \cup {NoCut}]
ClaimSet == [pc : {"idle", "read"}, job : Jobs \cup {NoJob}, rider : Riders \cup {NoRider},
             cut : Nat \cup {NoCut}, since : SUBSET Nat]
StatsSet == [pc : {"idle", "month", "count", "shown"}, rider : Riders \cup {NoRider},
             month : Nat, monthPay : Nat, count : Nat, total : Nat]

ClaimHolds(q) ==
  /\ q.rider # NoRider => q.pc = "read"
  /\ q.pc = "read" => q.job \in Jobs /\ q.rider \in Riders /\ q.cut \in Nat

PayTypes ==
  /\ terms \in [Riders -> PayTerms \cup {NoPayTerms}]
  /\ job \in [Jobs -> JobSet] /\ owed \in [Jobs -> SUBSET Nat]
  /\ claim \in [Claims -> ClaimSet] /\ stats \in StatsSet
  /\ \A o \in Jobs : job[o].rider = NoRider => job[o].cut = NoCut
  /\ \A h \in Claims : ClaimHolds(claim[h])
  /\ stats.pc # "idle" => stats.rider \in Riders

LEMMA PayTypesOK == PayTypes => PayoutsTypeOK
  BY DEF PayTypes, PayoutsTypeOK, JobSet, ClaimSet, StatsSet

LEMMA EarningIsNat ==
  ASSUME NEW t \in PayTerms \cup {NoPayTerms}, NEW fee \in Fees
  PROVE  Earning(t, fee) \in Nat
  <1> USE PayoutsAssumption
  <1>1. ASSUME NEW n \in Nat PROVE Hundreds(fee, n) \in Nat
    <2>1. fee \in Nat
      OBVIOUS
    <2>2. fee * n \in Nat
      BY <2>1
    <2> DEFINE m == fee * n
    <2> HIDE DEF m
    <2>3. (m + 50) \div 100 \in Nat
      BY <2>2 DEF m
    <2> QED
      BY <2>3 DEF Hundreds, m
  <1>2. COURIER_DELIVERY_SHARE \in Nat
    BY DEF COURIER_DELIVERY_SHARE
  <1>3. CASE t = NoPayTerms
    BY <1>1, <1>2, <1>3 DEF Earning, EstimateCourierEarning
  <1>4. CASE t # NoPayTerms
    <2>1. Earning(t, fee) = ComputeContractEarning(t, fee)
      BY <1>4 DEF Earning
    <2>2. t.value \in Nat
      <3>1. t \in PayTerms
        BY <1>4
      <3>2. t.value \in Percents \cup {COURIER_DELIVERY_SHARE} \cup Flats \cup {0}
        BY <3>1 DEF PayTerms
      <3>3. CASE t.value \in Percents \cup Flats
        BY <3>3
      <3> QED
        BY <1>2, <3>2, <3>3
    <2>3. Hundreds(fee, t.value) \in Nat
      BY <1>1, <2>2
    <2> QED
      BY <2>1, <2>2, <2>3 DEF ComputeContractEarning
  <1> QED
    BY <1>3, <1>4

Cuts == [o \in Jobs |-> CutOf(o)]

LEMMA CutsTyped ==
  ASSUME PayTypes
  PROVE  /\ Cuts \in [Jobs -> Nat] /\ IsFiniteSet(Jobs)
         /\ DeliveredJobs \in SUBSET Jobs
         /\ \A c \in Riders : BroughtBy(c) \in SUBSET Jobs
  BY PayoutsAssumption DEF PayTypes, JobSet, Cuts, CutOf, DeliveredJobs, BroughtBy

LEMMA CutsAddUp ==
  ASSUME PayTypes, NEW s \in SUBSET Jobs
  PROVE  SumOf(s, CutOf) = Total(Cuts, s)
  <1> DEFINE A == [o \in s |-> CutOf(o)]
  <1>1. IsFiniteSet(s) /\ A \in [s -> Nat] /\ \A o \in s : A[o] = CutOf(o) /\ Cuts[o] = CutOf(o)
    <2>1. IsFiniteSet(s)
      BY CutsTyped, FS_Subset
    <2>2. \A o \in s : CutOf(o) \in Nat
      BY DEF PayTypes, JobSet, CutOf
    <2> QED
      BY <2>1, <2>2 DEF Cuts
  <1> DEFINE F(f) == f = [u \in SUBSET s |->
                        IF u = {} THEN 0
                        ELSE CutOf(CHOOSE x \in u : TRUE) + f[u \ {CHOOSE x \in u : TRUE}]]
  <1>2. SumOf(s, CutOf) = (CHOOSE f : F(f))[s]
    BY DEF SumOf, Sums!MapThenSumSet, Sums!MapThenFoldSet
  <1>3. \A f : F(f) <=> AddsUp(s, A, f)
    <2>1. \A u \in SUBSET s : u # {} => (CHOOSE x \in u : TRUE) \in s
      OBVIOUS
    <2>2. \A u \in SUBSET s : u # {} => CutOf(CHOOSE x \in u : TRUE) = A[CHOOSE x \in u : TRUE]
      BY <2>1
    <2> SUFFICES ASSUME NEW f PROVE F(f) <=> AddsUp(s, A, f)
      OBVIOUS
    <2> HIDE DEF A
    <2> QED
      BY <2>2 DEF AddsUp
  <1> HIDE DEF A
  <1>4. (CHOOSE f : AddsUp(s, A, f)) = [u \in SUBSET s |-> Total(A, u)]
    BY <1>1, TotalSplits, TheSum
  <1>5. (CHOOSE f : F(f)) = (CHOOSE f : AddsUp(s, A, f))
    <2> HIDE DEF F
    <2> QED
      BY <1>3
  <1>6. SumOf(s, CutOf) = Total(A, s)
    BY <1>2, <1>4, <1>5
  <1>7. Total(A, s) = Total(Cuts, s)
    <2>1. Pile(A, s) = Pile(Cuts, s)
      BY <1>1 DEF Pile
    <2> QED
      BY <2>1 DEF Total
  <1> QED
    BY <1>6, <1>7

\* What all couriers of a set brought is what each of them brought.
LEMMA CouriersAddUp ==
  ASSUME PayTypes
  PROVE  SumOf(Riders, EarnedBy) = Total(Cuts, {o \in DeliveredJobs : job[o].rider \in Riders})
  <1> DEFINE A == [c \in Riders |-> EarnedBy(c)]
  <1> DEFINE B(u) == {o \in DeliveredJobs : job[o].rider \in u}
  <1>1. IsFiniteSet(Riders) /\ IsFiniteSet(Jobs) /\ Cuts \in [Jobs -> Nat]
    BY PayoutsAssumption, CutsTyped
  <1>2. \A c \in Riders : EarnedBy(c) = Total(Cuts, BroughtBy(c)) /\ BroughtBy(c) = B({c})
                          /\ BroughtBy(c) \in SUBSET Jobs
    BY CutsTyped, CutsAddUp DEF EarnedBy, BroughtBy
  <1>3. A \in [Riders -> Nat]
    BY <1>1, <1>2, TotalAdds
  <1> DEFINE F(f) == f = [u \in SUBSET Riders |->
                        IF u = {} THEN 0
                        ELSE EarnedBy(CHOOSE x \in u : TRUE) + f[u \ {CHOOSE x \in u : TRUE}]]
  <1>4. SumOf(Riders, EarnedBy) = (CHOOSE f : F(f))[Riders]
    BY DEF SumOf, Sums!MapThenSumSet, Sums!MapThenFoldSet
  <1>5. \A f : F(f) <=> AddsUp(Riders, A, f)
    <2>1. \A u \in SUBSET Riders : u # {} => (CHOOSE x \in u : TRUE) \in Riders
      OBVIOUS
    <2>2. \A u \in SUBSET Riders : u # {} =>
            EarnedBy(CHOOSE x \in u : TRUE) = A[CHOOSE x \in u : TRUE]
      BY <2>1
    <2> SUFFICES ASSUME NEW f PROVE F(f) <=> AddsUp(Riders, A, f)
      OBVIOUS
    <2> HIDE DEF A
    <2> QED
      BY <2>2 DEF AddsUp
  <1> DEFINE g == [u \in SUBSET Riders |-> Total(Cuts, B(u))]
  <1>6. Splits(Riders, A, g)
    <2>1. \A u \in SUBSET Riders : B(u) \in SUBSET Jobs /\ Total(Cuts, B(u)) \in Nat
      BY <1>1, CutsTyped, TotalAdds
    <2>2. Total(Cuts, B({})) = 0
      <3>1. B({}) = {}
        OBVIOUS
      <3> QED
        BY <3>1, <1>1, TotalAdds
    <2>3. ASSUME NEW u \in SUBSET Riders, NEW c \in u
          PROVE  Total(Cuts, B(u)) = A[c] + Total(Cuts, B(u \ {c}))
      <3> DEFINE P == B(u \ {c})
      <3> DEFINE Q == B({c})
      <3>1. B(u) = P \cup Q /\ P \cap Q = {}
        OBVIOUS
      <3>2. P \in SUBSET Jobs /\ Q \in SUBSET Jobs
        BY <2>1
      <3>3. A[c] = Total(Cuts, Q)
        BY <1>2
      <3> HIDE DEF A, B, P, Q
      <3>4. Total(Cuts, P \cup Q) = Total(Cuts, Q) + Total(Cuts, P)
        BY <1>1, <3>1, <3>2, TotalJoins
      <3> QED
        BY <3>1, <3>3, <3>4 DEF P
    <2> QED
      BY <2>1, <2>2, <2>3 DEF Splits
  <1> HIDE DEF A, g
  <1>7. (CHOOSE f : AddsUp(Riders, A, f)) = g
    BY <1>1, <1>6, TheSum
  <1>8. (CHOOSE f : F(f)) = (CHOOSE f : AddsUp(Riders, A, f))
    <2> HIDE DEF F
    <2> QED
      BY <1>5
  <1>9. g[Riders] = Total(Cuts, B(Riders))
    BY DEF g
  <1> QED
    BY <1>4, <1>7, <1>8, <1>9

LEMMA EarnedIsPaid == ASSUME PayTypes PROVE PayoutsAreEarned
  <1> DEFINE P == {o \in DeliveredJobs : job[o].cut # NoCut}
  <1> DEFINE R == {o \in DeliveredJobs : job[o].rider \in Riders}
  <1>1. P \in SUBSET Jobs /\ R \in SUBSET Jobs /\ Cuts \in [Jobs -> Nat] /\ IsFiniteSet(Jobs)
    BY CutsTyped
  <1>2. P \subseteq R
    BY DEF PayTypes, JobSet, DeliveredJobs
  <1>3. \A o \in R \ P : Cuts[o] = 0
    BY <1>1 DEF Cuts, CutOf
  <1>4. CourierPayouts = Total(Cuts, P)
    BY <1>1, CutsAddUp DEF CourierPayouts
  <1>5. SumOf(Riders, EarnedBy) = Total(Cuts, R)
    BY CouriersAddUp
  <1> HIDE DEF P, R
  <1>6. Total(Cuts, P) = Total(Cuts, R)
    BY <1>1, <1>2, <1>3, TotalOfNone
  <1> QED
    BY <1>4, <1>5, <1>6 DEF PayoutsAreEarned

LEMMA PayTypesInit == PayoutsInit => PayTypes
  <1> SUFFICES ASSUME PayoutsInit PROVE PayTypes
    OBVIOUS
  <1>1. NoClaim \in ClaimSet /\ NoStats \in StatsSet
    BY DEF NoClaim, NoStats, ClaimSet, StatsSet
  <1>2. terms \in [Riders -> PayTerms \cup {NoPayTerms}]
    BY DEF PayoutsInit, PayTerms, DefaultTerms
  <1>3. job \in [Jobs -> JobSet] /\ \A o \in Jobs : job[o].cut = NoCut
    BY DEF PayoutsInit, JobSet
  <1>4. \A h \in Claims : ClaimHolds(claim[h])
    BY DEF PayoutsInit, NoClaim, ClaimHolds
  <1> QED
    BY <1>1, <1>2, <1>3, <1>4 DEF PayoutsInit, PayTypes, NoStats

LEMMA PayTypesStep ==
  ASSUME PayTypes, [PayoutsNext]_payoutVars
  PROVE  PayTypes'
  <1> USE PayoutsAssumption
  <1>0. /\ NoClaim \in ClaimSet /\ ClaimHolds(NoClaim)
        /\ DefaultTerms \in PayTerms /\ NoStats \in StatsSet /\ NoCut \notin Nat
    BY DEF NoClaim, ClaimSet, ClaimHolds, DefaultTerms, PayTerms, NoStats, StatsSet, NoCut
  <1>1. ASSUME NEW c \in Riders, NEW t \in PayTerms, SetPayment(c, t) PROVE PayTypes'
    <2>1. ASSUME NEW h \in Claims PROVE claim'[h] \in ClaimSet /\ ClaimHolds(claim'[h])
      <3>1. claim[h] \in ClaimSet /\ ClaimHolds(claim[h])
        BY DEF PayTypes
      <3>2. CASE claim[h].rider # c
        BY <1>1, <3>1, <3>2 DEF SetPayment
      <3>3. CASE claim[h].rider = c
        <4> DEFINE fee == job[claim[h].job].fee
        <4>1. claim[h].job \in Jobs
          BY <3>1, <3>3 DEF ClaimHolds
        <4>2. fee \in Fees
          BY <4>1 DEF PayTypes, JobSet
        <4> DEFINE e == Earning(t, fee)
        <4>3. e \in Nat
          BY <4>2, EarningIsNat
        <4>4. claim'[h] = [claim[h] EXCEPT !.since = @ \cup {e}]
          BY <1>1, <3>3 DEF SetPayment
        <4> HIDE DEF e, fee
        <4>5. claim'[h] \in ClaimSet
          BY <3>1, <4>3, <4>4 DEF ClaimSet
        <4>6. /\ claim'[h].rider = claim[h].rider /\ claim'[h].pc = claim[h].pc
              /\ claim'[h].job = claim[h].job /\ claim'[h].cut = claim[h].cut
          BY <3>1, <4>4 DEF ClaimSet
        <4> QED
          BY <3>1, <4>5, <4>6 DEF ClaimHolds
      <3> QED
        BY <3>2, <3>3
    <2>2. claim' \in [Claims -> ClaimSet]
      BY <1>1, <2>1 DEF SetPayment
    <2>3. terms' \in [Riders -> PayTerms \cup {NoPayTerms}]
      BY <1>1 DEF SetPayment, PayTypes
    <2> QED
      BY <1>1, <2>1, <2>2, <2>3 DEF SetPayment, PayTypes
  <1>2. ASSUME NEW h \in Claims, NEW o \in Jobs, NEW c \in Riders, ClaimReads(h, o, c)
        PROVE  PayTypes'
    <2> DEFINE e == Earning(terms[c], job[o].fee)
    <2>1. e \in Nat
      BY EarningIsNat DEF PayTypes, JobSet
    <2> DEFINE q == [pc |-> "read", job |-> o, rider |-> c, cut |-> e, since |-> {e}]
    <2>2. claim' = [claim EXCEPT ![h] = q]
      BY <1>2 DEF ClaimReads
    <2> HIDE DEF e
    <2>3. q \in ClaimSet /\ ClaimHolds(q)
      BY <2>1 DEF ClaimSet, ClaimHolds
    <2> HIDE DEF q
    <2> QED
      BY <1>2, <2>2, <2>3 DEF ClaimReads, PayTypes
  <1>3. ASSUME NEW h \in Claims, ClaimWins(h) PROVE PayTypes'
    <2> DEFINE q == claim[h]
    <2>1. q \in ClaimSet /\ q.job \in Jobs /\ q.rider \in Riders /\ q.cut \in Nat
      BY <1>3 DEF ClaimWins, PayTypes, ClaimHolds
    <2>2. job' = [job EXCEPT ![q.job] = [job[q.job] EXCEPT !.status = "COURIER_ASSIGNED",
                                             !.rider = q.rider, !.cut = q.cut]]
      BY <1>3 DEF ClaimWins, PayTypes
    <2>3. owed' = [owed EXCEPT ![q.job] = q.since] /\ claim' = [claim EXCEPT ![h] = NoClaim]
          /\ stats' = stats
      BY <1>3 DEF ClaimWins
    <2>4. terms' \in [Riders -> PayTerms \cup {NoPayTerms}]
      BY <1>0, <1>3 DEF ClaimWins, PayTypes
    <2> HIDE DEF q
    <2> DEFINE r == [job[q.job] EXCEPT !.status = "COURIER_ASSIGNED", !.rider = q.rider,
                                       !.cut = q.cut]
    <2>5. r \in JobSet /\ r.rider = q.rider
      <3> DEFINE k == job[q.job]
      <3> DEFINE c == q.rider
      <3> DEFINE n == q.cut
      <3>1. k \in JobSet /\ c \in Riders /\ n \in Nat
        BY <2>1 DEF PayTypes
      <3> HIDE DEF k, c, n
      <3>2. [k EXCEPT !.status = "COURIER_ASSIGNED", !.rider = c, !.cut = n] \in JobSet
        BY <3>1 DEF JobSet
      <3>3. [k EXCEPT !.status = "COURIER_ASSIGNED", !.rider = c, !.cut = n].rider = c
        BY <3>1 DEF JobSet
      <3> QED
        BY <3>2, <3>3 DEF k, c, n
    <2>6. job' = [job EXCEPT ![q.job] = r]
      BY <2>2
    <2> HIDE DEF r
    <2>7. job' \in [Jobs -> JobSet] /\ \A o \in Jobs : job'[o].rider = NoRider => job'[o].cut = NoCut
      BY <2>1, <2>5, <2>6 DEF PayTypes
    <2>8. owed' \in [Jobs -> SUBSET Nat]
      BY <2>1, <2>3 DEF PayTypes, ClaimSet
    <2>9. claim' \in [Claims -> ClaimSet] /\ \A k \in Claims : ClaimHolds(claim'[k])
      BY <1>0, <2>3 DEF PayTypes
    <2> QED
      BY <2>3, <2>4, <2>7, <2>8, <2>9 DEF PayTypes
  <1>4. ASSUME NEW h \in Claims, ClaimLoses(h) PROVE PayTypes'
    BY <1>0, <1>4 DEF ClaimLoses, PayTypes
  <1>5. ASSUME NEW o \in Jobs, Release(o) PROVE PayTypes'
    <2> DEFINE r == [job[o] EXCEPT !.status = "READY", !.rider = NoRider, !.cut = NoCut]
    <2>1. r \in JobSet /\ r.cut = NoCut
      BY DEF PayTypes, JobSet
    <2>2. job' = [job EXCEPT ![o] = r]
      BY <1>5 DEF Release, PayTypes
    <2> HIDE DEF r
    <2> QED
      BY <1>5, <2>1, <2>2 DEF Release, PayTypes
  <1>6. ASSUME NEW o \in Jobs, NEW s \in {"ON_WAY", "DELIVERED"}, JobBecomes(o, s)
        PROVE  PayTypes'
    <2> DEFINE r == [job[o] EXCEPT !.status = s]
    <2>1. r \in JobSet /\ r.rider = job[o].rider /\ r.cut = job[o].cut
      BY DEF PayTypes, JobSet
    <2>2. job' = [job EXCEPT ![o] = r]
      BY <1>6 DEF JobBecomes, PayTypes
    <2> HIDE DEF r
    <2> QED
      BY <1>6, <2>1, <2>2 DEF JobBecomes, PayTypes
  <1>7. ASSUME NEW c \in Riders, ReadMonth(c) PROVE PayTypes'
    <2>1. Cardinality(BroughtBy(c)) \in Nat
      BY CutsTyped, FS_Subset, FS_CardinalityType
    <2>2. EarnedBy(c) \in Nat
      BY CutsTyped, CutsAddUp, TotalAdds DEF EarnedBy
    <2> DEFINE n == Cardinality(BroughtBy(c))
    <2> DEFINE m == EarnedBy(c)
    <2>3. stats' = [NoStats EXCEPT !.pc = "month", !.rider = c, !.month = n, !.monthPay = m]
      BY <1>7 DEF ReadMonth
    <2> HIDE DEF n, m
    <2>4. n \in Nat /\ m \in Nat
      BY <2>1, <2>2 DEF n, m
    <2>5. stats' \in StatsSet /\ stats'.rider \in Riders
      BY <1>0, <2>3, <2>4 DEF StatsSet
    <2> QED
      BY <1>7, <2>5 DEF ReadMonth, PayTypes
  <1>8. CASE ReadCount
    <2>1. stats \in StatsSet /\ stats.rider \in Riders
      BY <1>8 DEF ReadCount, PayTypes
    <2> DEFINE n == Cardinality(BroughtBy(stats.rider))
    <2>2. n \in Nat
      BY <2>1, CutsTyped, FS_Subset, FS_CardinalityType
    <2>3. stats' = [stats EXCEPT !.pc = "count", !.count = n]
      BY <1>8 DEF ReadCount
    <2> HIDE DEF n
    <2>4. stats' \in StatsSet /\ stats'.rider \in Riders
      BY <2>1, <2>2, <2>3 DEF StatsSet
    <2> QED
      BY <1>8, <2>4 DEF ReadCount, PayTypes
  <1>9. CASE ReadSums
    <2>1. stats \in StatsSet /\ stats.rider \in Riders
      BY <1>9 DEF ReadSums, PayTypes
    <2> DEFINE n == EarnedBy(stats.rider)
    <2>2. n \in Nat
      BY <2>1, CutsTyped, CutsAddUp, TotalAdds DEF EarnedBy
    <2>3. stats' = [stats EXCEPT !.pc = "shown", !.total = n]
      BY <1>9 DEF ReadSums
    <2> HIDE DEF n
    <2>4. stats' \in StatsSet /\ stats'.rider \in Riders
      BY <2>1, <2>2, <2>3 DEF StatsSet
    <2> QED
      BY <1>9, <2>4 DEF ReadSums, PayTypes
  <1>10. CASE LeaveEarnings
    BY <1>0, <1>10 DEF LeaveEarnings, PayTypes, NoStats
  <1>11. CASE UNCHANGED payoutVars
    BY <1>11 DEF payoutVars, PayTypes
  <1> QED
    BY <1>1, <1>2, <1>3, <1>4, <1>5, <1>6, <1>7, <1>8, <1>9, <1>10, <1>11
       DEF PayoutsNext, SetsOff, Delivers

\* What is brought stays brought, with its cut: the sums only grow.
LEMMA SumsGrow ==
  ASSUME PayTypes, [PayoutsNext]_payoutVars, NEW c \in Riders
  PROVE  /\ Cardinality(BroughtBy(c)) <= Cardinality(BroughtBy(c)')
         /\ Total(Cuts, BroughtBy(c)) <= Total(Cuts', BroughtBy(c)')
  <1>1. PayTypes'
    BY PayTypesStep
  <1>2. \A o \in Jobs : job[o].status = "DELIVERED" => job'[o] = job[o]
    BY DEF PayTypes, JobSet, PayoutsNext, payoutVars, SetPayment, ClaimReads, ClaimWins,
           ClaimLoses, Release, SetsOff, Delivers, JobBecomes, ReadMonth, ReadCount, ReadSums,
           LeaveEarnings
  <1>3. BroughtBy(c) \in SUBSET Jobs /\ Cuts \in [Jobs -> Nat] /\ IsFiniteSet(Jobs)
    BY CutsTyped
  <1>4. BroughtBy(c)' \in SUBSET Jobs /\ Cuts' \in [Jobs -> Nat]
    BY <1>1 DEF PayTypes, JobSet, Cuts, CutOf, BroughtBy, DeliveredJobs
  <1>5. BroughtBy(c) \subseteq BroughtBy(c)'
    BY <1>2 DEF BroughtBy, DeliveredJobs
  <1>6. \A o \in BroughtBy(c) : Cuts[o] = Cuts'[o]
    BY <1>2 DEF BroughtBy, DeliveredJobs, Cuts, CutOf
  <1> DEFINE s == BroughtBy(c)
  <1> DEFINE t == BroughtBy(c)'
  <1> DEFINE A == Cuts
  <1> DEFINE B == Cuts'
  <1>7. /\ s \in SUBSET t /\ t \in SUBSET Jobs /\ A \in [Jobs -> Nat] /\ B \in [Jobs -> Nat]
        /\ \A o \in s : A[o] = B[o]
    BY <1>3, <1>4, <1>5, <1>6
  <1> HIDE DEF s, t, A, B
  <1>8. Cardinality(s) <= Cardinality(t)
    BY <1>3, <1>7, FS_Subset
  <1>9. Total(A, s) <= Total(B, t)
    BY <1>3, <1>7, TotalGrows
  <1> QED
    BY <1>8, <1>9 DEF s, t, A, B

\* A claim keeps a cut that the terms gave since it began.
PaidInv ==
  /\ DOMAIN job = Jobs /\ DOMAIN owed = Jobs /\ DOMAIN claim = Claims
  /\ \A o \in Jobs : /\ DOMAIN job[o] = {"status", "rider", "fee", "cut"}
                     /\ job[o].rider # NoRider => job[o].cut \in owed[o]
  /\ \A h \in Claims : /\ DOMAIN claim[h] = {"pc", "job", "rider", "cut", "since"}
                       /\ claim[h].pc = "read" => /\ claim[h].job \in Jobs
                                                  /\ claim[h].cut \in claim[h].since

LEMMA PaidInit == PayoutsInit => PaidInv
  BY DEF PayoutsInit, PaidInv, NoClaim

LEMMA PaidStep == ASSUME PaidInv, [PayoutsNext]_payoutVars PROVE PaidInv'
  <1> USE PayoutsAssumption DEF PaidInv, NoClaim
  <1>1. ASSUME NEW c \in Riders, NEW t \in PayTerms, SetPayment(c, t) PROVE PaidInv'
    BY <1>1 DEF SetPayment
  <1>2. ASSUME NEW h \in Claims, NEW o \in Jobs, NEW c \in Riders, ClaimReads(h, o, c)
        PROVE  PaidInv'
    BY <1>2 DEF ClaimReads
  <1>3. ASSUME NEW h \in Claims, ClaimWins(h) PROVE PaidInv'
    BY <1>3 DEF ClaimWins
  <1>4. ASSUME NEW h \in Claims, ClaimLoses(h) PROVE PaidInv'
    BY <1>4 DEF ClaimLoses
  <1>5. ASSUME NEW o \in Jobs, Release(o) PROVE PaidInv'
    BY <1>5 DEF Release
  <1>6. ASSUME NEW o \in Jobs, SetsOff(o) \/ Delivers(o) PROVE PaidInv'
    BY <1>6 DEF SetsOff, Delivers, JobBecomes
  <1>7. CASE ReadCount \/ ReadSums \/ LeaveEarnings \/ \E c \in Riders : ReadMonth(c)
    BY <1>7 DEF ReadCount, ReadSums, LeaveEarnings, ReadMonth
  <1>8. CASE UNCHANGED payoutVars
    BY <1>8 DEF payoutVars
  <1> QED
    BY <1>1, <1>2, <1>3, <1>4, <1>5, <1>6, <1>7, <1>8 DEF PayoutsNext

\* However payments are set, claims cross and orders go back to the pool, a
\* courier's cut is one that his terms gave while he took the order
\* (Payouts.PaidAsTaken).
THEOREM CutsAreAsTaken == PayoutsSpec => []PaidAsTaken
  <1>1. PaidInv => PaidAsTaken
    BY DEF PaidInv, PaidAsTaken
  <1> QED
    BY <1>1, PaidInit, PaidStep, PTL DEF PayoutsSpec

\* What a statistic in progress has read is no more than what is there to read.
ReadSoFar ==
  /\ stats.pc \in {"month", "count"} =>
       /\ stats.month <= Cardinality(BroughtBy(stats.rider))
       /\ stats.monthPay <= Total(Cuts, BroughtBy(stats.rider))
  /\ stats.pc \in {"count", "shown"} => stats.month <= stats.count
  /\ stats.pc = "shown" => stats.monthPay <= stats.total

PayInv == PayTypes /\ ReadSoFar /\ PaidInv

LEMMA ReadStep ==
  ASSUME PayTypes, ReadSoFar, [PayoutsNext]_payoutVars
  PROVE  ReadSoFar'
  <1>0. stats \in StatsSet /\ (stats.pc # "idle" => stats.rider \in Riders)
    BY DEF PayTypes
  <1>1. ASSUME NEW c \in Riders, stats'.rider = c,
               NEW n \in Int, NEW m \in Int, stats'.month = n, stats'.monthPay = m,
               n <= Cardinality(BroughtBy(c)), m <= Total(Cuts, BroughtBy(c))
        PROVE  /\ stats'.month <= Cardinality(BroughtBy(stats.rider))'
               /\ stats'.monthPay <= Total(Cuts, BroughtBy(stats.rider))'
    <2>1. PayTypes'
      BY PayTypesStep
    <2>2. /\ Cardinality(BroughtBy(c)) <= Cardinality(BroughtBy(c)')
          /\ Total(Cuts, BroughtBy(c)) <= Total(Cuts', BroughtBy(c)')
      BY SumsGrow
    <2>3. /\ Cardinality(BroughtBy(c)) \in Nat /\ Total(Cuts, BroughtBy(c)) \in Nat
      BY CutsTyped, FS_Subset, FS_CardinalityType, TotalAdds
    <2>4. /\ Cardinality(BroughtBy(c)') \in Nat /\ Total(Cuts', BroughtBy(c)') \in Nat
      <3>1. BroughtBy(c)' \in SUBSET Jobs /\ Cuts' \in [Jobs -> Nat] /\ IsFiniteSet(Jobs)
        BY <2>1, CutsTyped DEF PayTypes, JobSet, Cuts, CutOf, BroughtBy, DeliveredJobs
      <3> QED
        BY <3>1, FS_Subset, FS_CardinalityType, TotalAdds
    <2>5. BroughtBy(stats.rider)' = BroughtBy(c)'
      BY <1>1 DEF BroughtBy, DeliveredJobs
    <2> QED
      BY <1>1, <2>2, <2>3, <2>4, <2>5
  <1>2. CASE UNCHANGED stats
    <2>1. CASE stats.pc \in {"month", "count"}
      <3>1. stats.rider \in Riders /\ stats.month \in Int /\ stats.monthPay \in Int
        BY <1>0, <2>1 DEF StatsSet
      <3>2. /\ stats'.month <= Cardinality(BroughtBy(stats.rider))'
            /\ stats'.monthPay <= Total(Cuts, BroughtBy(stats.rider))'
        BY <1>1, <1>2, <2>1, <3>1 DEF ReadSoFar
      <3> QED
        BY <1>2, <2>1, <3>2 DEF ReadSoFar
    <2>2. CASE stats.pc \notin {"month", "count"}
      BY <1>2, <2>2 DEF ReadSoFar
    <2> QED
      BY <2>1, <2>2
  <1>3. ASSUME NEW c \in Riders, ReadMonth(c) PROVE ReadSoFar'
    <2>1. /\ stats'.pc = "month" /\ stats'.rider = c
          /\ stats'.month = Cardinality(BroughtBy(c)) /\ stats'.monthPay = EarnedBy(c)
      BY <1>3 DEF ReadMonth, NoStats
    <2>2. EarnedBy(c) = Total(Cuts, BroughtBy(c))
      BY CutsTyped, CutsAddUp DEF EarnedBy
    <2>3. Cardinality(BroughtBy(c)) \in Int /\ Total(Cuts, BroughtBy(c)) \in Int
      BY CutsTyped, FS_Subset, FS_CardinalityType, TotalAdds
    <2>4. /\ stats'.month <= Cardinality(BroughtBy(stats.rider))'
          /\ stats'.monthPay <= Total(Cuts, BroughtBy(stats.rider))'
      BY <1>1, <2>1, <2>2, <2>3
    <2> QED
      BY <2>1, <2>4 DEF ReadSoFar
  <1>4. CASE ReadCount
    <2>1. /\ stats.pc = "month" /\ stats'.pc = "count" /\ stats'.rider = stats.rider
          /\ stats'.month = stats.month /\ stats'.monthPay = stats.monthPay
          /\ stats'.count = Cardinality(BroughtBy(stats.rider))
      BY <1>0, <1>4 DEF ReadCount, StatsSet
    <2>2. stats.rider \in Riders /\ stats.month \in Int /\ stats.monthPay \in Int
      BY <1>0, <2>1 DEF StatsSet
    <2>3. /\ stats'.month <= Cardinality(BroughtBy(stats.rider))'
          /\ stats'.monthPay <= Total(Cuts, BroughtBy(stats.rider))'
      BY <1>1, <2>1, <2>2 DEF ReadSoFar
    <2> QED
      BY <2>1, <2>3 DEF ReadSoFar
  <1>5. CASE ReadSums
    <2>1. /\ stats.pc = "count" /\ stats'.pc = "shown" /\ stats.rider \in Riders
          /\ stats'.month = stats.month /\ stats'.monthPay = stats.monthPay
          /\ stats'.count = stats.count
          /\ stats'.total = EarnedBy(stats.rider)
      BY <1>0, <1>5 DEF ReadSums, StatsSet
    <2>2. EarnedBy(stats.rider) = Total(Cuts, BroughtBy(stats.rider))
      BY <2>1, CutsTyped, CutsAddUp DEF EarnedBy
    <2> QED
      BY <2>1, <2>2 DEF ReadSoFar
  <1>6. CASE LeaveEarnings
    BY <1>6 DEF LeaveEarnings, NoStats, ReadSoFar
  <1>7. CASE UNCHANGED payoutVars
    BY <1>2, <1>7 DEF payoutVars
  <1> QED
    BY <1>2, <1>3, <1>4, <1>5, <1>6, <1>7
       DEF PayoutsNext, SetPayment, ClaimReads, ClaimWins, ClaimLoses, Release, SetsOff,
           Delivers, JobBecomes

LEMMA PayInitInv == PayoutsInit => PayInv
  BY PayTypesInit, PaidInit DEF PayInv, ReadSoFar, PayoutsInit, NoStats

LEMMA PayStep == ASSUME PayInv, [PayoutsNext]_payoutVars PROVE PayInv'
  BY PayTypesStep, ReadStep, PaidStep DEF PayInv

LEMMA PayInvShows == PayInv => PayoutsTypeOK /\ PayoutsStand
  <1>1. PayInv => PaidAsTaken
    BY DEF PayInv, PaidInv, PaidAsTaken
  <1>2. PayInv => MonthWithinTotal
    BY DEF PayInv, PayTypes, StatsSet, ReadSoFar, MonthWithinTotal
  <1>3. PayInv => PayoutsTypeOK /\ PayoutsAreEarned
    BY PayTypesOK, EarnedIsPaid DEF PayInv
  <1> QED
    BY <1>1, <1>2, <1>3 DEF PayoutsStand

\* For any orders, couriers, fees and terms: a courier is paid by terms that
\* held while he took the order, the admin's payouts are the sum of what the
\* couriers earned, and a statistic read in pieces shows a month that is no
\* more than the whole (Payouts.PayoutsStand).
THEOREM PayoutsAddUp == PayoutsSpec => [](PayoutsTypeOK /\ PayoutsStand)
  BY PayInitInv, PayStep, PayInvShows, PTL DEF PayoutsSpec

-----------------------------------------------------------------------------
(* All parts.                                                              *)

ShopInv ==
  /\ part = "listings"   => ListingsInv /\ StandInv
  /\ part = "addresses"  => AddressInv
  /\ part = "uploads"    => UploadInv
  /\ part = "tree"       => TreeInv
  /\ part = "attributes" => AttributeInv
  /\ part = "storefront" => ShopTypeOK
  /\ part = "feedback"   => FeedbackInv /\ WishesBounded
  /\ part = "page"       => PageInv
  /\ part = "rows"       => RowInv /\ CartRowsTypeOK
  /\ part = "browse"     => BrowseInv
  /\ part = "opening"    => OpeningTypeOK
  /\ part = "payouts"    => PayInv

Parts == {"listings", "addresses", "uploads", "tree", "attributes", "storefront", "feedback",
          "page", "rows", "browse", "opening", "payouts"}

LEMMA ShopStarts ==
  ASSUME ShopInit
  PROVE  /\ part \in Parts /\ ListingsInit /\ UploadInit /\ StorefrontInit
         /\ part = "addresses" => AddressInit
         /\ part = "tree" => TreeInit
         /\ part = "attributes" => AttributeInit
         /\ part = "feedback" => FeedbackInit
         /\ part = "page" => PageInit
         /\ part = "rows" => CartRowsInit
         /\ part = "browse" => BrowseInit
         /\ part = "opening" => OpeningInit
         /\ part = "payouts" => PayoutsInit
  BY DEF ShopInit, Parts

LEMMA ShopInitInv == ShopInit => part \in Parts /\ ShopInv
  <1> SUFFICES ASSUME ShopInit PROVE part \in Parts /\ ShopInv
    OBVIOUS
  <1>1. ListingsInv /\ StandInv /\ UploadInv /\ ShopTypeOK /\ part \in Parts
    BY ShopStarts, ListingsInitInv, StandInitInv, UploadInitInv, StorefrontInitType
  <1>2. part = "addresses" => AddressInv
    BY ShopStarts, AddressInitInv
  <1>3. part = "tree" => TreeInv
    BY ShopStarts, TreeInitInv
  <1>4. part = "attributes" => AttributeInv
    BY ShopStarts, AttributeInitInv
  <1>5. part = "feedback" => FeedbackInv /\ WishesBounded
    BY ShopStarts, FeedbackInitInv, WishesInit
  <1>6. part = "page" => PageInv
    BY ShopStarts, PageInitInv
  <1>7. part = "rows" => RowInv /\ CartRowsTypeOK
    BY ShopStarts, RowInit, RowTypeInit
  <1>8. part = "browse" => BrowseInv
    BY ShopStarts, BrowseInitInv
  <1>9. part = "opening" => OpeningTypeOK
    BY ShopStarts, OpeningInitTypes
  <1>10. part = "payouts" => PayInv
    BY ShopStarts, PayInitInv
  <1> QED
    BY <1>1, <1>2, <1>3, <1>4, <1>5, <1>6, <1>7, <1>8, <1>9, <1>10 DEF ShopInv

\* Every step is one of the part the behaviour is about, or changes nothing.
LEMMA PartSteps ==
  ASSUME [ShopNext]_shopRunVars
  PROVE  /\ part' = part
         /\ part = "listings" => [ListingsNext]_listingVars
         /\ part = "addresses" => [AddressNext]_addressVars
         /\ part = "uploads" => [UploadNext]_uploadVars
         /\ part = "tree" => [TreeNext]_treeVars
         /\ part = "attributes" => [AttributeNext]_attributeVars
         /\ part = "storefront" => [StorefrontNext]_shopVars
         /\ part = "feedback" => [FeedbackNext]_feedbackVars
         /\ part = "page" => [PageNext]_pageVars
         /\ part = "rows" => [CartRowsNext]_cartRowVars
         /\ part = "browse" => [BrowseNext]_browseVars
         /\ part = "opening" => [OpeningNext]_openingVars
         /\ part = "payouts" => [PayoutsNext]_payoutVars
  <1>1. CASE ShopNext
    <2>1. part' = part
      BY <1>1 DEF ShopNext
    <2>2. /\ part = "listings" => ListingsNext
          /\ part = "addresses" => AddressNext
          /\ part = "uploads" => UploadNext
          /\ part = "tree" => TreeNext
          /\ part = "attributes" => AttributeNext
          /\ part = "storefront" => StorefrontNext
          /\ part = "feedback" => FeedbackNext
          /\ part = "page" => PageNext
          /\ part = "rows" => CartRowsNext
          /\ part = "browse" => BrowseNext
          /\ part = "opening" => OpeningNext
          /\ part = "payouts" => PayoutsNext
      BY <1>1 DEF ShopNext
    <2> QED
      BY <2>1, <2>2
  <1>2. CASE UNCHANGED shopRunVars
    BY <1>2 DEF shopRunVars
  <1> QED
    BY <1>1, <1>2

LEMMA ShopStep ==
  ASSUME part \in Parts, ShopInv, [ShopNext]_shopRunVars
  PROVE  (part \in Parts /\ ShopInv)'
  <1>0. part' = part
    BY PartSteps
  <1>1. CASE part = "listings"
    BY <1>0, <1>1, PartSteps, ListingsStepInv, StandStep DEF ShopInv, Parts
  <1>2. CASE part = "addresses"
    BY <1>0, <1>2, PartSteps, AddressStep DEF ShopInv, Parts
  <1>3. CASE part = "uploads"
    BY <1>0, <1>3, PartSteps, UploadStep DEF ShopInv, Parts
  <1>4. CASE part = "tree"
    BY <1>0, <1>4, PartSteps, TreeStep DEF ShopInv, Parts
  <1>5. CASE part = "attributes"
    BY <1>0, <1>5, PartSteps, AttributeStep DEF ShopInv, Parts
  <1>6. CASE part = "storefront"
    BY <1>0, <1>6, PartSteps, StorefrontType DEF ShopInv, Parts
  <1>7. CASE part = "feedback"
    BY <1>0, <1>7, PartSteps, FeedbackStep, WishesStep DEF ShopInv, Parts
  <1>8. CASE part = "page"
    BY <1>0, <1>8, PartSteps, PageStep DEF ShopInv, Parts
  <1>9. CASE part = "rows"
    BY <1>0, <1>9, PartSteps, RowStep, RowTypeStep DEF ShopInv, Parts
  <1>10. CASE part = "browse"
    BY <1>0, <1>10, PartSteps, BrowseStep DEF ShopInv, Parts
  <1>11. CASE part = "opening"
    BY <1>0, <1>11, PartSteps, OpeningStep DEF ShopInv, Parts
  <1>12. CASE part = "payouts"
    BY <1>0, <1>12, PartSteps, PayStep DEF ShopInv, Parts
  <1> QED
    BY <1>1, <1>2, <1>3, <1>4, <1>5, <1>6, <1>7, <1>8, <1>9, <1>10, <1>11, <1>12 DEF Parts

\* Rows, handlers and pages of all twelve parts have their types, for any
\* number of them (MCShop.ShopsTypeOK).
THEOREM ShopsAreTyped == ShopSpec => []ShopsTypeOK
  <1>1. ShopInv => ShopsTypeOK
    <2> SUFFICES ASSUME ShopInv PROVE ShopsTypeOK
      OBVIOUS
    <2>1. /\ StandInv => ListingsTypeOK
          /\ AddressInv => AddressTypeOK
          /\ UploadInv => UploadTypeOK
          /\ TreeInv => TreeTypeOK
          /\ AttributeInv => AttributeTypeOK
          /\ PageInv => PageTypeOK
          /\ BrowseInv => BrowseTypeOK
      BY DEF StandInv, AddressInv, UploadInv, TreeInv, AttributeInv, PageInv, BrowseInv
    <2>2. FeedbackInv => FeedbackTypeOK
      BY FeedbackFollows
    <2>3. PayInv => PayoutsTypeOK
      BY PayInvShows
    <2> QED
      BY <2>1, <2>2, <2>3 DEF ShopInv, ShopsTypeOK
  <1> QED
    BY <1>1, ShopInitInv, ShopStep, PTL DEF ShopSpec

\* However any number of handlers, calls and answers overlap, are lost and die:
\* defaults and requests are no more than handlers that may overlap, a rating is
\* that of its reviews, the checkout page tells the truth and orders once, no row
\* waits for nothing, the location is a saved address, hours are as meant but
\* for the one case HoursAreKept names, and couriers are paid what they were
\* promised (MCShop.RecordsStand).
THEOREM RecordsAreInOrder == ShopSpec => []RecordsStand
  <1>1. ShopInv => RecordsStand
    <2> SUFFICES ASSUME ShopInv PROVE RecordsStand
      OBVIOUS
    <2>1. AddressInv => DefaultsBounded
      BY DefaultsFollow
    <2>2. FeedbackInv /\ WishesBounded => RatingIsExact /\ RequestsBounded
      BY FeedbackFollows, WishesFollow
    <2>3. PageInv => PageIsTrue
      BY PageFollows
    <2>4. RowInv => RowsSettle
      BY RowsFollow
    <2>5. BrowseInv => LocationIsSaved
      BY BrowsingFollows
    <2>6. OpeningTypeOK => HoursAreKept
      BY HoursFollow
    <2>7. PayInv => PayoutsStand
      BY PayInvShows
    <2> QED
      BY <2>1, <2>2, <2>3, <2>4, <2>5, <2>6, <2>7 DEF ShopInv, RecordsStand
  <1> QED
    BY <1>1, ShopInitInv, ShopStep, PTL DEF ShopSpec

\* Until two handlers, calls or reads of a part overlap, and for any number of
\* rows: one default, one request of a kind, a cart that counts every press, a
\* page for where the customer is, a tree without a cycle, and attributes of a
\* product's category (MCShop.RecordsStandAlone).
THEOREM AloneRecordsAreInOrder == ShopSpec => []RecordsStandAlone
  <1>1. ShopInv => RecordsStandAlone
    <2> SUFFICES ASSUME ShopInv PROVE RecordsStandAlone
      OBVIOUS
    <2>1. AddressInv => OneDefault
      BY DefaultsFollow
    <2>2. FeedbackInv => RequestsStand
      BY FeedbackFollows
    <2>3. RowInv => PressesCount
      BY RowsFollow
    <2>4. BrowseInv => PageIsForHere /\ NothingForElsewhere
      BY BrowsingFollows
    <2>5. TreeInv => TreeHasNoCycle
      BY DEF TreeInv
    <2>6. AttributeInv => AttributesStand
      BY DEF AttributeInv
    <2> QED
      BY <2>1, <2>2, <2>3, <2>4, <2>5, <2>6 DEF ShopInv, RecordsStandAlone
  <1> QED
    BY <1>1, ShopInitInv, ShopStep, PTL DEF ShopSpec

=============================================================================
