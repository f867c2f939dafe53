------------------------------ MODULE Listings ------------------------------
(***************************************************************************)
(* A seller's store and products and the moderators who let them in.  The  *)
(* handlers read a row, check its status and write it by id in a later     *)
(* call.  A review holds one handler in flight.                            *)
(***************************************************************************)
EXTENDS FiniteSets

CONSTANTS
  Stores,     \* ids of the seller's store rows: a bound
  Products,   \* ids of products: a bound
  Reviews,    \* handlers that may be in flight at the same time
  NoRow

ASSUME ListingsAssumption == NoRow \notin Stores \cup Products

VARIABLES
  store,     \* Store rows
  newest,    \* the seller's newest store row
  product,   \* Product rows
  archived,  \* products the seller took away (history)
  review,    \* handlers in flight
  mixed      \* two handlers were in flight at the same time (history)

listingVars == <<store, newest, product, archived, review, mixed>>

-----------------------------------------------------------------------------
\* ranked: a featuredRank above 0.  isOpen and the profile are Storefront's.
StoreRows == [status : {"none", "PENDING", "ACTIVE", "REJECTED"}, approvedAt : BOOLEAN,
              reason : BOOLEAN, featured : BOOLEAN, ranked : BOOLEAN]
ProductRows == [status : {"none", "PENDING", "ACTIVE", "REJECTED", "ARCHIVED"},
                publishedAt : BOOLEAN, reason : BOOLEAN]

StoreCalls == {"createStore", "editStore", "toggle", "feature", "rank", "demote",
               "approveStore", "rejectStore"}
ProductCalls == {"createProduct", "editProduct", "approveProduct", "rejectProduct",
                 "archive"}
ReviewRows == [pc : {"idle"} \cup StoreCalls \cup ProductCalls,
               row : Stores \cup Products \cup {NoRow}]

NoStore == [status |-> "none", approvedAt |-> FALSE, reason |-> FALSE,
            featured |-> FALSE, ranked |-> FALSE]
NoProduct == [status |-> "none", publishedAt |-> FALSE, reason |-> FALSE]
NoReview == [pc |-> "idle", row |-> NoRow]

ListingsTypeOK ==
  /\ store \in [Stores -> StoreRows]
  /\ newest \in Stores \cup {NoRow}
  /\ product \in [Products -> ProductRows]
  /\ archived \subseteq Products
  /\ review \in [Reviews -> ReviewRows]
  /\ \A r \in Reviews :
       /\ review[r].pc \in StoreCalls \ {"createStore"} =>
            review[r].row \in Stores /\ store[review[r].row].status # "none"
       /\ review[r].pc \in ProductCalls \ {"createProduct"} =>
            review[r].row \in Products /\ product[review[r].row].status # "none"
  /\ mixed \in BOOLEAN

\* Rows of a former release may still wait for moderation.
ListingsInit ==
  /\ store = [s \in Stores |-> NoStore]
  /\ newest = NoRow
  /\ product \in [Products -> {NoProduct, [NoProduct EXCEPT !.status = "PENDING"]}]
  /\ archived = {}
  /\ review = [r \in Reviews |-> NoReview]
  /\ mixed = FALSE

-----------------------------------------------------------------------------
StartReview(r, pc, row) ==
  /\ review[r].pc = "idle"
  /\ review' = [review EXCEPT ![r] = [pc |-> pc, row |-> row]]
  /\ mixed' = (mixed \/ \E q \in Reviews \ {r} : review[q].pc # "idle")
  /\ UNCHANGED <<store, newest, product, archived>>

\* The handler's write, its last call but for the uploads it attaches.
WriteStore(r, pc, row) ==
  /\ review[r].pc = pc
  /\ store' = [store EXCEPT ![review[r].row] = row]
  /\ review' = [review EXCEPT ![r] = NoReview]
  /\ UNCHANGED <<newest, product, archived, mixed>>

WriteProduct(r, pc, row) ==
  /\ review[r].pc = pc
  /\ product' = [product EXCEPT ![review[r].row] = row]
  /\ review' = [review EXCEPT ![r] = NoReview]
  /\ UNCHANGED <<store, newest, archived, mixed>>

-----------------------------------------------------------------------------
(* The seller's store.                                                     *)

CreateStore(r) == newest = NoRow /\ StartReview(r, "createStore", NoRow)

\* No key of the table says that a seller has one store.
CreateStoreWrite(r) ==
  /\ review[r].pc = "createStore"
  /\ \E s \in Stores :
       /\ store[s].status = "none"
       /\ store' = [store EXCEPT ![s] = [NoStore EXCEPT !.status = "PENDING"]]
       /\ newest' = s
  /\ review' = [review EXCEPT ![r] = NoReview]
  /\ UNCHANGED <<product, archived, mixed>>

\* updateMine never touches the status; toggleOpen wants an active store.  Of
\* several stores they take any, while requireOwnStore takes the newest.
UpdateStore(r, s) == store[s].status # "none" /\ StartReview(r, "editStore", s)

ToggleOpen(r, s) == store[s].status = "ACTIVE" /\ StartReview(r, "toggle", s)

\* They write other columns of the row.
StoreWrite(r) ==
  \E pc \in {"editStore", "toggle"} : WriteStore(r, pc, store[review[r].row])

-----------------------------------------------------------------------------
(* Its moderation.                                                         *)

SetFeatured(r, s, pc) ==
  /\ store[s].status = "ACTIVE"
  /\ StartReview(r, pc, s)

\* Slip: the rank stays when a store is taken off the slider.
Demoted(s) == [s EXCEPT !.featured = FALSE]

Undecorated(s) == [s EXCEPT !.featured = FALSE, !.ranked = FALSE]

\* "rank" has a rank, from the request or from the row it read; "feature" none.
FeatureWrite(r) ==
  LET s == store[review[r].row]
  IN \/ WriteStore(r, "feature", [s EXCEPT !.featured = TRUE, !.ranked = FALSE])
     \/ WriteStore(r, "rank", [s EXCEPT !.featured = TRUE, !.ranked = TRUE])
     \/ WriteStore(r, "demote", Undecorated(s))

\* Slip: an active store may be refused afterwards.
ReviewAnyStore(r, s, pc) ==
  /\ store[s].status \in {"PENDING", "ACTIVE"}
  /\ StartReview(r, pc, s)

ReviewStore(r, s, pc) ==
  /\ store[s].status = "PENDING"
  /\ StartReview(r, pc, s)

ApprovedStore(s) == [s EXCEPT !.status = "ACTIVE", !.approvedAt = TRUE, !.reason = FALSE]

ReviewStoreWrite(r) ==
  LET s == store[review[r].row]
  IN \/ WriteStore(r, "approveStore", ApprovedStore(s))
     \/ WriteStore(r, "rejectStore", [s EXCEPT !.status = "REJECTED", !.reason = TRUE])

-----------------------------------------------------------------------------
(* Products: published as they are made; only old rows are moderated.      *)

\* requireOwnStore, then category, brand, attributes and images.
CreateProduct(r) ==
  /\ newest # NoRow
  /\ store[newest].status = "ACTIVE"
  /\ StartReview(r, "createProduct", NoRow)

CreateProductWrite(r) ==
  /\ review[r].pc = "createProduct"
  /\ \E p \in Products :
       /\ product[p].status = "none"
       /\ product' = [product EXCEPT ![p] = [status |-> "ACTIVE", publishedAt |-> TRUE,
                                             reason |-> FALSE]]
  /\ review' = [review EXCEPT ![r] = NoReview]
  /\ UNCHANGED <<store, newest, archived, mixed>>

UpdateProduct(r, p) ==
  /\ product[p].status \notin {"none", "ARCHIVED"}
  /\ StartReview(r, "editProduct", p)

\* The reason of a former refusal stays.
Published(p) == [p EXCEPT !.status = "ACTIVE", !.publishedAt = TRUE]

ReviewProduct(r, p, pc) ==
  /\ product[p].status = "PENDING"
  /\ StartReview(r, pc, p)

ProductWrite(r) ==
  LET p == product[review[r].row]
  IN \/ WriteProduct(r, "editProduct", Published(p))
     \/ WriteProduct(r, "approveProduct", [Published(p) EXCEPT !.reason = FALSE])
     \/ WriteProduct(r, "rejectProduct", [p EXCEPT !.status = "REJECTED", !.reason = TRUE])

RemoveProduct(r, p) ==
  /\ product[p].status # "none"
  /\ StartReview(r, "archive", p)

\* A soft delete: orders refer to the row.
Archive(r) ==
  LET p == review[r].row
  IN /\ review[r].pc = "archive"
     /\ product' = [product EXCEPT ![p].status = "ARCHIVED"]
     /\ archived' = archived \cup {p}
     /\ review' = [review EXCEPT ![r] = NoReview]
     /\ UNCHANGED <<store, newest, mixed>>

\* A failed call ends the handler before its write.
ReviewDies(r) ==
  /\ review[r].pc # "idle"
  /\ review' = [review EXCEPT ![r] = NoReview]
  /\ UNCHANGED <<store, newest, product, archived, mixed>>

ListingsNext ==
  \E r \in Reviews :
    \/ CreateStore(r) \/ CreateProduct(r)
    \/ \E s \in Stores : \/ UpdateStore(r, s) \/ ToggleOpen(r, s)
                         \/ \E pc \in {"feature", "rank", "demote"} : SetFeatured(r, s, pc)
                         \/ \E pc \in {"approveStore", "rejectStore"} : ReviewStore(r, s, pc)
    \/ \E p \in Products : \/ UpdateProduct(r, p) \/ RemoveProduct(r, p)
                           \/ \E pc \in {"approveProduct", "rejectProduct"} :
                                ReviewProduct(r, p, pc)
    \/ CreateStoreWrite(r) \/ StoreWrite(r) \/ FeatureWrite(r) \/ ReviewStoreWrite(r)
    \/ CreateProductWrite(r) \/ ProductWrite(r) \/ Archive(r)
    \/ ReviewDies(r)

ListingsSpec == ListingsInit /\ [][ListingsNext]_listingVars

-----------------------------------------------------------------------------
\* However decisions cross, a store on sale was approved and shows no reason,
\* a refused one shows why, and one that waits shows neither.
StoreFits ==
  \A s \in Stores :
    /\ store[s].status = "ACTIVE" => store[s].approvedAt
    /\ store[s].reason <=> store[s].status = "REJECTED"

\* However decisions cross, what is on the home slider was approved once, and
\* only what is on the slider keeps a rank.
SliderFits ==
  \A s \in Stores :
    /\ store[s].featured => store[s].approvedAt
    /\ store[s].ranked => store[s].featured

\* However edits and decisions cross, a product on sale has the date that
\* lists are sorted by, and a refused one shows why.
ProductFits ==
  \A p \in Products :
    /\ product[p].status = "ACTIVE" => product[p].publishedAt
    /\ product[p].status = "REJECTED" => product[p].reason

\* However handlers cross, each row of the shop is in order by itself.
ListingsFit == StoreFits /\ SliderFits /\ ProductFits

\* As long as handlers do not overlap, a product that was taken away stays away.
ArchivedStays ==
  ~mixed => \A p \in archived : product[p].status = "ARCHIVED"

\* As long as handlers do not overlap, a seller has one store.
OneStorePerSeller ==
  ~mixed => \A s \in Stores : store[s].status # "none" => s = newest

\* As long as handlers do not overlap, an approved store is never refused: what
\* the slider shows, and what a seller may add products to, stays on sale.
ApprovedStays ==
  ~mixed => \A s \in Stores : store[s].approvedAt => store[s].status = "ACTIVE"

\* As long as no two handlers overlap, a seller has one store, an approved store
\* stays on sale and what the seller took away stays away.  A moderator's refusal
\* of a product is not among them: the seller's next edit puts it on sale again.
ListingsStand == ArchivedStays /\ OneStorePerSeller /\ ApprovedStays

=============================================================================
