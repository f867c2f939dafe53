--------------------------- MODULE CheckoutProofs ---------------------------
(***************************************************************************)
(* Theorems about Checkout, for any customers, stores and offers: types,   *)
(* the account of the stock and whole orders however handlers overlap, and *)
(* what holds while none do.                                               *)
(***************************************************************************)
EXTENDS Checkout, FiniteSetTheorems, TLAPS

-----------------------------------------------------------------------------
(* Type correctness.                                                       *)

\* What a handler in flight carries, by its pc.
LEMMA RequestType ==
  ASSUME NEW q \in Requests
  PROVE  /\ q.pc \in {"idle", "upsert", "setqty", "checkout", "cancel", "edit"}
         /\ q.pc \in {"upsert", "setqty"} =>
              q.customer \in Customers /\ q.offer \in Offers /\ q.qty \in Nat
         /\ q.pc = "checkout" =>
              q.customer \in Customers /\ q.qty \in [Offers -> Nat]
         /\ q.pc = "cancel" => q.order \in OrderIds
         /\ q.pc = "edit" =>
              q.offer \in Offers /\ q.stock \in Nat \cup {NULL}
              /\ q.seen \in Int \cup {NULL} /\ q.active \in BOOLEAN
  BY DEF Requests, Idle

\* A handler that begins fills its slot and changes nothing else.
LEMMA BeginInv ==
  ASSUME TypeOK, NEW r \in Slots, NEW q \in Requests, Begin(r, q)
  PROVE  TypeOK'
  BY DEF Begin, TypeOK

\* So does one that ends, as far as the handlers go.
LEMMA FinishInv ==
  ASSUME TypeOK, NEW r \in Slots, Finish(r)
  PROVE  req' \in [Slots -> Requests]
  BY DEF Finish, TypeOK, Requests, Idle

\* Deleting cart rows empties lines and slots.
LEMMA DeleteLinesInv ==
  ASSUME TypeOK, NEW r \in Slots, NEW gone \in SUBSET (Customers \X Offers),
         DeleteLines(r, gone)
  PROVE  /\ cart' \in [Customers -> [Offers -> Nat]]
         /\ req' \in [Slots -> Requests]
  <1>1. Idle \in Requests
    BY DEF Requests, Idle
  <1>2. cart' \in [Customers -> [Offers -> Nat]]
    BY DEF DeleteLines, TypeOK
  <1>3. \A s \in Slots : req'[s] \in {Idle, req[s]}
    BY DEF DeleteLines
  <1>4. req' \in [Slots -> Requests]
    BY <1>1, <1>3 DEF DeleteLines, TypeOK
  <1> QED
    BY <1>2, <1>4

-----------------------------------------------------------------------------
(* One lemma per group of actions.                                         *)

LEMMA CustomerInv ==
  ASSUME TypeOK, NEW r \in Slots, NEW u \in Customers, CustomerStep(r, u)
  PROVE  TypeOK'
  <1>1. ASSUME NEW f \in Offers, NEW n \in 1 .. MaxQty, AddItem(r, u, f, n) \/ UpdateItem(r, u, f, n)
        PROVE  TypeOK'
    <2>1. PICK pc \in {"upsert", "setqty"} :
            Begin(r, [pc |-> pc, customer |-> u, offer |-> f, qty |-> n])
      BY <1>1 DEF AddItem, UpdateItem
    <2>2. [pc |-> pc, customer |-> u, offer |-> f, qty |-> n] \in Requests
      BY BoundAssumption DEF Requests
    <2> QED
      BY <2>1, <2>2, BeginInv
  <1>2. ASSUME NEW gone \in SUBSET (Customers \X Offers),
               DeleteLines(r, gone),
               UNCHANGED <<offer, order, placed, supply>>
        PROVE  TypeOK'
    BY <1>2, DeleteLinesInv DEF TypeOK
  <1>3. ASSUME NEW f \in Offers, RemoveItem(r, u, f)
        PROVE  TypeOK'
    <2>1. {<<u, f>>} \in SUBSET (Customers \X Offers)
      OBVIOUS
    <2> QED
      BY <1>2, <1>3, <2>1 DEF RemoveItem
  <1>4. CASE Clear(r, u)
    <2>1. {u} \X Offers \in SUBSET (Customers \X Offers)
      OBVIOUS
    <2> QED
      BY <1>2, <1>4, <2>1 DEF Clear
  <1>5. CASE CheckoutRead(r, u)
    <2>1. [pc |-> "checkout", customer |-> u, qty |-> cart[u]] \in Requests
      BY DEF Requests, TypeOK
    <2> QED
      BY <1>5, <2>1, BeginInv DEF CheckoutRead
  <1> QED
    BY <1>1, <1>3, <1>4, <1>5 DEF CustomerStep

LEMMA CartWriteInv ==
  ASSUME TypeOK, NEW r \in Slots, UpsertItem(r) \/ SetQty(r)
  PROVE  TypeOK'
  <1> DEFINE u == req[r].customer
             f == req[r].offer
  <1>1. u \in Customers /\ f \in Offers /\ req[r].qty \in Nat
    BY RequestType DEF UpsertItem, SetQty, TypeOK
  <1>2. cart[u][f] + req[r].qty \in Nat
    BY <1>1 DEF TypeOK
  <1>3. PICK n \in Nat : cart' = [cart EXCEPT ![u][f] = n]
    BY <1>1, <1>2 DEF UpsertItem, SetQty
  <1>4. cart' \in [Customers -> [Offers -> Nat]]
    BY <1>1, <1>3 DEF TypeOK
  <1>5. Finish(r) /\ UNCHANGED <<offer, order, placed, supply>>
    BY DEF UpsertItem, SetQty
  <1> QED
    BY <1>4, <1>5, FinishInv DEF TypeOK

LEMMA CheckoutCommitInv ==
  ASSUME TypeOK, NEW r \in Slots, CheckoutCommit(r)
  PROVE  TypeOK'
  <1> DEFINE q == req[r]
             Gone == {q.customer} \X Offers
  <1>1. /\ q.pc = "checkout"
        /\ q.customer \in Customers
        /\ q.qty \in [Offers -> Nat]
    BY RequestType DEF CheckoutCommit, TypeOK
  <1>2. ASSUME NEW s \in Stores
        PROVE  /\ OrderOf(q, s) \in OrderRows
               /\ \A f \in Offers : OrderOf(q, s).qty[f] > 0 => StoreOf[f] = s
    <2> HIDE DEF q
    <2> QED
      BY <1>1 DEF OrderOf, OrderRows
  <1>3. \A id \in OrderIds : id[2] \in Stores
    BY DEF OrderIds
  <1>4. /\ order' = [id \in OrderIds |-> order'[id]]
        /\ \A id \in OrderIds : order'[id] \in {order[id], OrderOf(q, id[2])}
    BY DEF CheckoutCommit, MakeOrders
  <1>5. /\ order' \in [OrderIds -> OrderRows]
        /\ \A id \in OrderIds, f \in Offers : order'[id].qty[f] > 0 => StoreOf[f] = id[2]
    <2> HIDE DEF q
    <2>1. ASSUME NEW id \in OrderIds
          PROVE  /\ order'[id] \in OrderRows
                 /\ \A f \in Offers : order'[id].qty[f] > 0 => StoreOf[f] = id[2]
      <3>1. CASE order'[id] = order[id]
        BY <3>1 DEF TypeOK
      <3>2. CASE order'[id] = OrderOf(q, id[2])
        BY <1>2, <1>3, <3>2
      <3> QED
        BY <1>4, <3>1, <3>2
    <2> QED
      BY <1>4, <2>1
  <1>6. placed' \in 0 .. MaxCheckouts
    <2>1. placed' = placed + 1 /\ placed < MaxCheckouts
      BY DEF CheckoutCommit
    <2>2. placed \in 0 .. MaxCheckouts
      BY DEF TypeOK
    <2> QED
      BY <2>1, <2>2, BoundAssumption
  <1>7. offer' \in [Offers -> OfferRows]
    <2>1. offer' = [f \in Offers |->
                      IF q.qty[f] = 0
                      THEN offer[f]
                      ELSE [offer[f] EXCEPT !.stock = @ - q.qty[f],
                                            !.active = @ /\ offer[f].stock > q.qty[f]]]
      BY DEF CheckoutCommit, TakeStock
    <2> HIDE DEF q
    <2>2. ASSUME NEW f \in Offers
          PROVE  offer'[f] \in OfferRows
      <3>1. offer[f] \in OfferRows /\ q.qty[f] \in Int
        BY <1>1 DEF TypeOK
      <3>2. \A n \in Int, b \in BOOLEAN :
              [offer[f] EXCEPT !.stock = n, !.active = b] \in OfferRows
        BY <3>1 DEF OfferRows
      <3>3. offer[f].stock - q.qty[f] \in Int
        BY <3>1 DEF OfferRows
      <3>4. (offer[f].active /\ offer[f].stock > q.qty[f]) \in BOOLEAN
        OBVIOUS
      <3> QED
        BY <2>1, <3>1, <3>2, <3>3, <3>4
    <2> QED
      BY <2>1, <2>2
  <1>8. DeleteLines(r, Gone) /\ supply' = supply
    BY DEF CheckoutCommit
  <1>9. Gone \in SUBSET (Customers \X Offers)
    BY <1>1
  <1> HIDE DEF q, Gone
  <1>10. /\ cart' \in [Customers -> [Offers -> Nat]]
         /\ req' \in [Slots -> Requests]
    BY <1>8, <1>9, DeleteLinesInv
  <1> QED
    BY <1>5, <1>6, <1>7, <1>8, <1>10 DEF TypeOK

LEMMA CancelInv ==
  ASSUME TypeOK, NEW r \in Slots,
         (\E id \in OrderIds : Cancel(r, id)) \/ CancelCommit(r)
  PROVE  TypeOK'
  <1>1. ASSUME NEW id \in OrderIds, Cancel(r, id)
        PROVE  TypeOK'
    <2>1. [pc |-> "cancel", order |-> id] \in Requests
      BY DEF Requests
    <2> QED
      BY <1>1, <2>1, BeginInv DEF Cancel
  <1>2. CASE CancelCommit(r)
    <2> DEFINE id == req[r].order
    <2>1. id \in OrderIds
      BY <1>2, RequestType DEF CancelCommit, TypeOK
    <2>2. /\ order' = [order EXCEPT ![id].status = "cancelled", ![id].returned = @ + 1]
          /\ offer' = [f \in Offers |->
                         IF order[id].qty[f] > 0 /\ offer[f].row = "row"
                         THEN [offer[f] EXCEPT !.stock = @ + order[id].qty[f],
                                               !.active = TRUE]
                         ELSE offer[f]]
          /\ Finish(r)
          /\ UNCHANGED <<cart, placed, supply>>
      BY <1>2 DEF CancelCommit
    <2> HIDE DEF id
    <2>3. order[id] \in OrderRows
      BY <2>1 DEF TypeOK
    <2>4. /\ order' \in [OrderIds -> OrderRows]
          /\ \A i \in OrderIds : order'[i].qty = order[i].qty
      <3> DEFINE new == [order[id] EXCEPT !.status = "cancelled", !.returned = @ + 1]
      <3>1. new \in OrderRows /\ new.qty = order[id].qty
        <4>1. order[id].returned + 1 \in Nat
          BY <2>3 DEF OrderRows
        <4>2. \A row \in OrderRows, n \in Nat :
                /\ [row EXCEPT !.status = "cancelled", !.returned = n] \in OrderRows
                /\ [row EXCEPT !.status = "cancelled", !.returned = n].qty = row.qty
          BY DEF OrderRows
        <4> QED
          BY <2>3, <4>1, <4>2
      <3>2. order' = [order EXCEPT ![id] = new]
        BY <2>1, <2>2, <2>3 DEF TypeOK, OrderRows
      <3> HIDE DEF new
      <3> QED
        BY <2>1, <3>1, <3>2 DEF TypeOK
    <2>5. ASSUME NEW f \in Offers
          PROVE  offer'[f] \in OfferRows
      <3>1. offer[f] \in OfferRows /\ order[id].qty[f] \in Nat
        BY <2>3 DEF TypeOK, OrderRows
      <3> DEFINE n == offer[f].stock + order[id].qty[f]
                 new == [offer[f] EXCEPT !.stock = n, !.active = TRUE]
      <3>2. offer'[f] \in {offer[f], new}
        BY <2>2
      <3>3. n \in Int
        BY <3>1 DEF OfferRows
      <3> HIDE DEF n
      <3>4. new \in OfferRows
        BY <3>1, <3>3 DEF OfferRows
      <3> HIDE DEF new
      <3> QED
        BY <3>1, <3>2, <3>4
    <2>6. offer' \in [Offers -> OfferRows]
      BY <2>2, <2>5
    <2>7. req' \in [Slots -> Requests]
      BY <2>2, FinishInv
    <2>8. \A i \in OrderIds, f \in Offers : order'[i].qty[f] > 0 => StoreOf[f] = i[2]
      BY <2>4 DEF TypeOK
    <2> QED
      BY <2>2, <2>4, <2>6, <2>7, <2>8 DEF TypeOK
  <1> QED
    BY <1>1, <1>2

LEMMA OfferInv ==
  ASSUME TypeOK, NEW r \in Slots,
         (\E f \in Offers : SellerStep(r, f)) \/ WriteOffer(r)
  PROVE  TypeOK'
  <1>1. ASSUME NEW f \in Offers, NEW n \in 0 .. MaxStock, NEW on \in BOOLEAN,
               CreateOffer(r, f, n, on)
        PROVE  TypeOK'
    <2> DEFINE new == [row |-> "row", stock |-> n, active |-> on /\ n > 0]
    <2>1. n \in Int
      BY BoundAssumption
    <2>2. new \in OfferRows
      BY <2>1 DEF OfferRows
    <2>3. offer' = [offer EXCEPT ![f] = new] /\ supply' = [supply EXCEPT ![f] = n]
          /\ UNCHANGED <<cart, order, placed, req>>
      BY <1>1 DEF CreateOffer
    <2> HIDE DEF new
    <2> QED
      BY <2>1, <2>2, <2>3 DEF TypeOK
  <1>2. ASSUME NEW f \in Offers, NEW n \in (0 .. MaxStock) \cup {NULL},
               NEW on \in BOOLEAN \cup {NULL}, UpdateOffer(r, f, n, on)
        PROVE  TypeOK'
    <2> DEFINE stock == IF n = NULL THEN offer[f].stock ELSE n
               seen == IF n = NULL THEN NULL ELSE offer[f].stock
               active == IF on # NULL THEN on /\ stock > 0
                         ELSE stock # 0 /\ offer[f].active
    <2>1. active \in BOOLEAN /\ seen \in Int \cup {NULL}
      BY DEF TypeOK, OfferRows
    <2>2. n \in Nat \cup {NULL}
      BY BoundAssumption
    <2>3. Begin(r, [pc |-> "edit", offer |-> f, stock |-> n, seen |-> seen,
                    active |-> active])
      BY <1>2 DEF UpdateOffer
    <2> HIDE DEF active, seen
    <2>4. [pc |-> "edit", offer |-> f, stock |-> n, seen |-> seen,
           active |-> active] \in Requests
      BY <2>1, <2>2 DEF Requests
    <2> QED
      BY <2>3, <2>4, BeginInv
  <1>3. ASSUME NEW f \in Offers, RemoveOffer(r, f)
        PROVE  TypeOK'
    <2>1. Customers \X {f} \in SUBSET (Customers \X Offers)
      OBVIOUS
    <2>2. /\ cart' \in [Customers -> [Offers -> Nat]]
          /\ req' \in [Slots -> Requests]
      BY <1>3, <2>1, DeleteLinesInv DEF RemoveOffer
    <2>3. [NoOffer EXCEPT !.row = "deleted"] \in OfferRows
      <3>1. NoOffer \in OfferRows
        BY DEF NoOffer, OfferRows
      <3>2. \A o \in OfferRows : [o EXCEPT !.row = "deleted"] \in OfferRows
        BY DEF OfferRows
      <3> QED
        BY <3>1, <3>2
    <2>4. offer' = [offer EXCEPT ![f] = [NoOffer EXCEPT !.row = "deleted"]]
          /\ UNCHANGED <<order, placed, supply>>
      BY <1>3 DEF RemoveOffer
    <2> QED
      BY <2>2, <2>3, <2>4 DEF TypeOK
  <1>4. CASE WriteOffer(r)
    <2> DEFINE q == req[r]
               f == q.offer
               stock == IF q.stock = NULL THEN offer[f].stock ELSE q.stock
               new == [row |-> "row", stock |-> stock, active |-> q.active]
               put == IF q.stock = NULL THEN supply[f]
                      ELSE IF supply[f] = NULL \/ offer[f].stock # q.seen THEN NULL
                      ELSE supply[f] + q.stock - q.seen
    <2>1. /\ f \in Offers
          /\ q.stock \in Nat \cup {NULL}
          /\ q.active \in BOOLEAN
      BY <1>4, RequestType DEF WriteOffer, TypeOK
    <2>2. offer[f].stock \in Int /\ supply[f] \in Int \cup {NULL}
      BY <2>1 DEF TypeOK, OfferRows
    <2>3. stock \in Int /\ put \in Int \cup {NULL}
      BY <2>1, <2>2
    <2>4. /\ offer' = [offer EXCEPT ![f] = new]
          /\ supply' = [supply EXCEPT ![f] = put]
          /\ Finish(r)
          /\ UNCHANGED <<cart, order, placed>>
      BY <1>4 DEF WriteOffer
    <2> HIDE DEF stock, put, f
    <2>5. new \in OfferRows
      BY <2>1, <2>3 DEF OfferRows
    <2> HIDE DEF new, q
    <2> QED
      BY <2>1, <2>3, <2>4, <2>5, FinishInv DEF TypeOK
  <1> QED
    BY <1>1, <1>2, <1>3, <1>4 DEF SellerStep

LEMMA StepInv ==
  ASSUME TypeOK, [Next]_vars
  PROVE  TypeOK'
  <1>1. ASSUME NEW r \in Slots, Die(r)
        PROVE  TypeOK'
    BY <1>1, FinishInv DEF Die, TypeOK
  <1>2. CASE UNCHANGED vars
    BY <1>2 DEF vars, TypeOK
  <1>3. ASSUME NEW r \in Slots, Write(r)
        PROVE  TypeOK'
    BY <1>3, CartWriteInv, CheckoutCommitInv, CancelInv, OfferInv DEF Write
  <1>4. ASSUME NEW r \in Slots, NEW u \in Customers, CustomerStep(r, u)
        PROVE  TypeOK'
    BY <1>4, CustomerInv
  <1>5. ASSUME NEW r \in Slots, NEW f \in Offers, SellerStep(r, f)
        PROVE  TypeOK'
    BY <1>5, OfferInv
  <1>6. ASSUME NEW r \in Slots, NEW id \in OrderIds, Cancel(r, id)
        PROVE  TypeOK'
    BY <1>6, CancelInv
  <1> QED
    BY <1>1, <1>2, <1>3, <1>4, <1>5, <1>6 DEF Next

LEMMA InitInv ==
  ASSUME Init
  PROVE  TypeOK
  <1>1. NoOffer \in OfferRows
    BY DEF NoOffer, OfferRows
  <1>2. NoOrder \in OrderRows /\ \A f \in Offers : NoOrder.qty[f] = 0
    BY DEF NoOrder, OrderRows
  <1>3. Idle \in Requests
    BY DEF Idle, Requests
  <1>4. placed \in 0 .. MaxCheckouts
    BY BoundAssumption DEF Init
  <1>5. \A id \in OrderIds, f \in Offers : order[id].qty[f] = 0
    BY <1>2 DEF Init
  <1> QED
    BY <1>1, <1>2, <1>3, <1>4, <1>5 DEF Init, TypeOK

\* Rows and handlers keep their types, and an order only has rows of its store
\* (OrdersService.checkout), for any overlap of handlers.
THEOREM TypeCorrect == Spec => []TypeOK
  BY InitInv, StepInv, PTL DEF Spec

-----------------------------------------------------------------------------
(* The stock.  What orders took and brought back is a set of pieces, so    *)
(* that a step's effect on it is a union with the pieces of one order.     *)
(* The ledger counts every return, of one order too; the stock and what    *)
(* open orders hold follow from it.                                        *)

Taken(f) == UNION {{id} \X (1 .. order[id].qty[f]) : id \in OrderIds}

Returned(f) ==
  UNION {({id} \X (1 .. order[id].returned)) \X (1 .. order[id].qty[f]) : id \in OrderIds}

Outstanding(f) == Cardinality(Taken(f)) - Cardinality(Returned(f))

Ledger ==
  \A f \in Offers :
    offer[f].row = "row" /\ supply[f] # NULL =>
      offer[f].stock = supply[f] - Outstanding(f)

(* The books: nothing is ordered under a number not placed yet, a          *)
(* cancellation is of a placed order, an order holds pieces, has brought   *)
(* them back or has none, and an offer that does not exist yet is in none. *)

OrdersPlaced ==
  /\ \A id \in OrderIds : id[1] > placed => order[id] = NoOrder
  /\ \A r \in Slots : req[r].pc = "cancel" => req[r].order[1] <= placed

NewInNoOrder ==
  \A f \in Offers, id \in OrderIds : offer[f].row = "none" => order[id].qty[f] = 0

OrdersSettled ==
  \A id \in OrderIds :
    /\ order[id].status = "none" => \A f \in Offers : order[id].qty[f] = 0
    /\ order[id].status = "cancelled" <=> order[id].returned > 0

PiecesCounted ==
  \A f \in Offers : IsFiniteSet(Taken(f)) /\ IsFiniteSet(Returned(f))

Books == OrdersPlaced /\ NewInNoOrder /\ OrdersSettled /\ PiecesCounted /\ Ledger

\* The pieces of one row.
LEMMA PiecesOf ==
  ASSUME NEW x, NEW n \in Nat
  PROVE  IsFiniteSet({x} \X (1 .. n)) /\ Cardinality({x} \X (1 .. n)) = n
  <1> DEFINE X == {x}
             N == 1 .. n
  <1>1. IsFiniteSet(X) /\ Cardinality(X) = 1
    BY FS_Singleton
  <1>2. IsFiniteSet(N) /\ Cardinality(N) = n
    BY FS_Interval
  <1> HIDE DEF X, N
  <1>3. IsFiniteSet(X \X N) /\ Cardinality(X \X N) = Cardinality(X) * Cardinality(N)
    BY <1>1, <1>2, FS_Product
  <1>4. Cardinality(X \X N) = n
    BY <1>1, <1>2, <1>3
  <1> QED
    BY <1>3, <1>4 DEF X, N

\* Pieces that were not there before add up.
LEMMA Added ==
  ASSUME NEW S, IsFiniteSet(S), NEW x, NEW n \in Nat,
         S \cap ({x} \X (1 .. n)) = {}
  PROVE  /\ IsFiniteSet(S \cup ({x} \X (1 .. n)))
         /\ Cardinality(S \cup ({x} \X (1 .. n))) = Cardinality(S) + n
  <1> DEFINE T == {x} \X (1 .. n)
  <1>1. IsFiniteSet(T) /\ Cardinality(T) = n
    BY PiecesOf
  <1>2. S \cap T = {}
    OBVIOUS
  <1> HIDE DEF T
  <1>3. IsFiniteSet(S \cup T)
        /\ Cardinality(S \cup T) = Cardinality(S) + Cardinality(T) - Cardinality(S \cap T)
    BY <1>1, FS_Union
  <1>4. Cardinality(S) \in Nat
    BY FS_CardinalityType
  <1>5. Cardinality(S \cap T) = 0
    BY <1>2, FS_EmptySet
  <1>6. Cardinality(S \cup T) = Cardinality(S) + n
    BY <1>1, <1>3, <1>4, <1>5
  <1> QED
    BY <1>3, <1>6 DEF T

\* A step that leaves an order's rows of an offer alone leaves its pieces alone.
LEMMA PiecesKept ==
  ASSUME NEW f \in Offers,
         \A id \in OrderIds :
           order'[id].qty[f] = order[id].qty[f] /\ order'[id].returned = order[id].returned
  PROVE  Taken(f)' = Taken(f) /\ Returned(f)' = Returned(f)
  BY DEF Taken, Returned

\* A step that writes no order, puts up as many pieces as it adds to a stock
\* and only begins cancellations of open orders.
LEMMA BooksKept ==
  ASSUME TypeOK, TypeOK', Books, UNCHANGED <<order, placed>>,
         \A f \in Offers :
           /\ offer'[f].row = "none" => offer[f].row = "none"
           /\ offer[f].row = "row" /\ offer'[f].row = "row" /\ supply'[f] # NULL =>
                /\ supply[f] # NULL
                /\ offer'[f].stock - supply'[f] = offer[f].stock - supply[f]
           /\ offer[f].row = "none" /\ offer'[f].row = "row" =>
                offer'[f].stock = supply'[f]
           /\ offer[f].row = "deleted" => offer'[f].row = "deleted",
         \A r \in Slots :
           req'[r].pc = "cancel" =>
             \/ req'[r] = req[r]
             \/ order[req'[r].order].status = "open"
  PROVE  Books'
  <1>1. \A f \in Offers : Taken(f)' = Taken(f) /\ Returned(f)' = Returned(f)
    BY DEF Taken, Returned
  <1>2. OrdersPlaced'
    <2>1. ASSUME NEW r \in Slots, req'[r].pc = "cancel",
                 order[req'[r].order].status = "open"
          PROVE  req'[r].order[1] <= placed
      <3>1. req'[r] \in Requests
        BY DEF TypeOK
      <3>2. req'[r].order \in OrderIds
        BY <2>1, <3>1, RequestType
      <3>3. req'[r].order[1] \in 1 .. MaxCheckouts
        BY <3>2 DEF OrderIds
      <3>4. ~ (req'[r].order[1] > placed)
        BY <2>1, <3>2 DEF Books, OrdersPlaced, NoOrder
      <3> QED
        BY <3>3, <3>4, BoundAssumption DEF TypeOK
    <2> QED
      BY <2>1 DEF Books, OrdersPlaced
  <1>3. NewInNoOrder'
    BY DEF Books, NewInNoOrder
  <1>4. PiecesCounted'
    BY <1>1 DEF Books, PiecesCounted
  <1>5. Ledger'
    <2> SUFFICES ASSUME NEW f \in Offers, offer'[f].row = "row", supply'[f] # NULL
                 PROVE  offer'[f].stock = supply'[f] - Outstanding(f)'
      BY DEF Ledger
    <2>1. Outstanding(f)' = Outstanding(f)
      BY <1>1 DEF Outstanding
    <2>2. /\ offer[f] \in OfferRows /\ offer'[f] \in OfferRows
          /\ supply[f] \in Int \cup {NULL} /\ supply'[f] \in Int
      BY DEF TypeOK
    <2>3. offer[f].stock \in Int /\ offer'[f].stock \in Int
      BY <2>2 DEF OfferRows
    <2>4. Outstanding(f) \in Int
      BY FS_CardinalityType DEF Outstanding, Books, PiecesCounted
    <2>5. CASE offer[f].row = "row"
      <3>1. /\ supply[f] \in Int
            /\ offer'[f].stock - supply'[f] = offer[f].stock - supply[f]
        BY <2>2, <2>5
      <3>2. offer[f].stock = supply[f] - Outstanding(f)
        BY <2>5, <3>1, NullAssumption DEF Books, Ledger
      <3> QED
        BY <2>1, <2>2, <2>3, <2>4, <3>1, <3>2
    <2>6. CASE offer[f].row = "none"
      <3>1. \A id \in OrderIds : 1 .. order[id].qty[f] = {}
        BY <2>6 DEF Books, NewInNoOrder
      <3>2. Taken(f) = {} /\ Returned(f) = {}
        BY <3>1 DEF Taken, Returned
      <3>3. Outstanding(f) = 0
        BY <3>2, FS_EmptySet DEF Outstanding
      <3> QED
        BY <2>1, <2>2, <2>3, <2>6, <3>3
    <2>7. offer[f].row \in {"none", "row", "deleted"}
      BY <2>2 DEF OfferRows
    <2> QED
      BY <2>5, <2>6, <2>7
  <1>6. OrdersSettled'
    BY DEF Books, OrdersSettled
  <1> QED
    BY <1>2, <1>3, <1>4, <1>5, <1>6 DEF Books

\* A checkout writes each offer's quantity into one new order, at its store.
LEMMA CheckoutWrites ==
  ASSUME TypeOK, OrdersPlaced, NEW r \in Slots, CheckoutCommit(r),
         NEW f \in Offers, NEW id \in OrderIds
  PROVE  /\ order'[id].qty[f] = IF id = <<placed + 1, StoreOf[f]>>
                                THEN req[r].qty[f] ELSE order[id].qty[f]
         /\ order'[id].returned = order[id].returned
         /\ id = <<placed + 1, StoreOf[f]>> => order[id].qty[f] = 0
  <1> DEFINE q == req[r]
  <1>1. q.qty \in [Offers -> Nat]
    BY RequestType DEF CheckoutCommit, TypeOK
  <1>2. id \in (1 .. MaxCheckouts) \X Stores /\ placed \in Nat
    BY DEF OrderIds, TypeOK
  <1>3. id[1] = placed + 1 => order[id] = NoOrder
    BY <1>2 DEF OrdersPlaced
  <1>4. order'[id] = IF /\ id[1] = placed + 1
                        /\ \E g \in Offers : StoreOf[g] = id[2] /\ q.qty[g] > 0
                     THEN OrderOf(q, id[2])
                     ELSE order[id]
    BY DEF CheckoutCommit, MakeOrders
  <1>5. id = <<placed + 1, StoreOf[f]>> <=> id[1] = placed + 1 /\ id[2] = StoreOf[f]
    BY <1>2
  <1>6. NoOrder.qty[f] = 0 /\ NoOrder.returned = 0
    BY DEF NoOrder
  <1>7. /\ OrderOf(q, id[2]).qty[f] = IF StoreOf[f] = id[2] THEN q.qty[f] ELSE 0
        /\ OrderOf(q, id[2]).returned = 0
    BY DEF OrderOf
  <1>8. q.qty[f] \in Nat
    BY <1>1
  <1> HIDE DEF q
  <1>9. CASE id[1] = placed + 1
    <2>1. CASE \E g \in Offers : StoreOf[g] = id[2] /\ q.qty[g] > 0
      BY <1>3, <1>4, <1>5, <1>6, <1>7, <1>9, <2>1 DEF q
    <2>2. CASE ~ \E g \in Offers : StoreOf[g] = id[2] /\ q.qty[g] > 0
      BY <1>3, <1>4, <1>5, <1>6, <1>8, <1>9, <2>2 DEF q
    <2> QED
      BY <2>1, <2>2
  <1>10. CASE id[1] # placed + 1
    BY <1>4, <1>5, <1>10
  <1> QED
    BY <1>9, <1>10

\* So a checkout takes its quantity of each offer in new pieces.
LEMMA CheckoutTakes ==
  ASSUME TypeOK, OrdersPlaced, PiecesCounted, NEW r \in Slots, CheckoutCommit(r),
         NEW f \in Offers
  PROVE  /\ IsFiniteSet(Taken(f)') /\ IsFiniteSet(Returned(f)')
         /\ Outstanding(f)' = Outstanding(f) + req[r].qty[f]
  <1> DEFINE n == req[r].qty[f]
             new == <<placed + 1, StoreOf[f]>>
             Q(id) == order[id].qty[f]
             Q1(id) == order'[id].qty[f]
  <1>1. n \in Nat
    BY RequestType DEF CheckoutCommit, TypeOK
  <1>2. new \in OrderIds
    BY StoreAssumption, BoundAssumption DEF CheckoutCommit, OrderIds, TypeOK
  <1>3. \A id \in OrderIds :
          /\ Q1(id) = IF id = new THEN n ELSE Q(id)
          /\ order'[id].returned = order[id].returned
          /\ Q(new) = 0
    BY <1>2, CheckoutWrites
  <1>4. /\ Taken(f) = UNION {{id} \X (1 .. Q(id)) : id \in OrderIds}
        /\ Taken(f)' = UNION {{id} \X (1 .. Q1(id)) : id \in OrderIds}
    BY DEF Taken
  <1>5. /\ Returned(f) = UNION {({id} \X (1 .. order[id].returned)) \X (1 .. Q(id)) : id \in OrderIds}
        /\ Returned(f)' = UNION {({id} \X (1 .. order'[id].returned)) \X (1 .. Q1(id)) : id \in OrderIds}
    BY DEF Returned
  <1>6. order[new].returned = 0
    BY <1>2 DEF OrdersPlaced, NoOrder, TypeOK
  <1> HIDE DEF n, new, Q, Q1
  <1>7. Taken(f)' = Taken(f) \cup ({new} \X (1 .. n))
    BY <1>2, <1>3, <1>4
  <1>8. Taken(f) \cap ({new} \X (1 .. n)) = {}
    BY <1>2, <1>3, <1>4
  <1>9. Returned(f)' = Returned(f)
    BY <1>2, <1>3, <1>5, <1>6
  <1>10. IsFiniteSet(Taken(f)) /\ IsFiniteSet(Returned(f))
    BY DEF PiecesCounted
  <1>11. IsFiniteSet(Taken(f)') /\ Cardinality(Taken(f)') = Cardinality(Taken(f)) + n
    <2> DEFINE X == {new} \X (1 .. n)
               T == Taken(f)
    <2>1. IsFiniteSet(T \cup X) /\ Cardinality(T \cup X) = Cardinality(T) + n
      <3> HIDE DEF T
      <3> QED
        BY <1>1, <1>8, <1>10, Added DEF T
    <2> HIDE DEF X
    <2> QED
      BY <1>7, <2>1 DEF X
  <1>12. Cardinality(Taken(f)) \in Nat /\ Cardinality(Returned(f)) \in Nat
    BY <1>10, FS_CardinalityType
  <1>13. Outstanding(f)' = Outstanding(f) + n
    BY <1>1, <1>9, <1>11, <1>12 DEF Outstanding
  <1> QED
    BY <1>9, <1>10, <1>11, <1>13 DEF n

\* A return brings every piece of its order back once more.
LEMMA CancelReturns ==
  ASSUME TypeOK, PiecesCounted, NEW r \in Slots, CancelCommit(r), NEW f \in Offers
  PROVE  /\ IsFiniteSet(Taken(f)') /\ IsFiniteSet(Returned(f)')
         /\ Outstanding(f)' = Outstanding(f) - order[req[r].order].qty[f]
  <1> DEFINE it == req[r].order
             n == order[it].qty[f]
             k == order[it].returned
             Q(id) == order[id].qty[f]
             Q1(id) == order'[id].qty[f]
             R(id) == order[id].returned
             R1(id) == order'[id].returned
  <1>1. it \in OrderIds
    BY RequestType DEF CancelCommit, TypeOK
  <1>2. n \in Nat /\ k \in Nat
    BY <1>1 DEF TypeOK, OrderRows
  <1>3. \A id \in OrderIds :
          /\ Q1(id) = Q(id)
          /\ R1(id) = IF id = it THEN k + 1 ELSE R(id)
    <2> DEFINE new == [order[it] EXCEPT !.status = "cancelled", !.returned = k + 1]
    <2>1. new.qty = order[it].qty /\ new.returned = k + 1
      BY <1>1 DEF TypeOK, OrderRows
    <2>2. order' = [order EXCEPT ![it] = new]
      BY <1>1 DEF CancelCommit, TypeOK, OrderRows
    <2> HIDE DEF new
    <2>3. \A id \in OrderIds : order'[id] = IF id = it THEN new ELSE order[id]
      BY <1>1, <2>2 DEF TypeOK
    <2> QED
      BY <2>1, <2>3
  <1>4. Q(it) = n /\ R(it) = k
    OBVIOUS
  <1>5. Taken(f) = UNION {{id} \X (1 .. Q(id)) : id \in OrderIds}
        /\ Taken(f)' = UNION {{id} \X (1 .. Q1(id)) : id \in OrderIds}
    BY DEF Taken
  <1>6. Returned(f) = UNION {({id} \X (1 .. R(id))) \X (1 .. Q(id)) : id \in OrderIds}
        /\ Returned(f)' = UNION {({id} \X (1 .. R1(id))) \X (1 .. Q1(id)) : id \in OrderIds}
    BY DEF Returned
  <1> HIDE DEF it, n, k, Q, Q1, R, R1
  <1>7. Taken(f)' = Taken(f)
    BY <1>3, <1>5
  <1>8. Returned(f)' = Returned(f) \cup ({<<it, k + 1>>} \X (1 .. n))
    <2>1. 1 .. (k + 1) = (1 .. k) \cup {k + 1}
      BY <1>2
    <2>2. ASSUME NEW x \in Returned(f)'
          PROVE  x \in Returned(f) \cup ({<<it, k + 1>>} \X (1 .. n))
      BY <1>1, <1>3, <1>4, <1>6, <2>1
    <2>3. ASSUME NEW x \in Returned(f)
          PROVE  x \in Returned(f)'
      BY <1>1, <1>3, <1>4, <1>6, <2>1
    <2>4. ASSUME NEW x \in {<<it, k + 1>>} \X (1 .. n)
          PROVE  x \in Returned(f)'
      BY <1>1, <1>3, <1>4, <1>6, <2>1
    <2> QED
      BY <2>2, <2>3, <2>4
  <1>9. Returned(f) \cap ({<<it, k + 1>>} \X (1 .. n)) = {}
    BY <1>1, <1>2, <1>4, <1>6
  <1>10. IsFiniteSet(Taken(f)) /\ IsFiniteSet(Returned(f))
    BY DEF PiecesCounted
  <1>11. IsFiniteSet(Returned(f)') /\ Cardinality(Returned(f)') = Cardinality(Returned(f)) + n
    <2> DEFINE X == {<<it, k + 1>>} \X (1 .. n)
               T == Returned(f)
    <2>1. IsFiniteSet(T \cup X) /\ Cardinality(T \cup X) = Cardinality(T) + n
      <3> HIDE DEF T
      <3> QED
        BY <1>2, <1>9, <1>10, Added DEF T
    <2> HIDE DEF X
    <2> QED
      BY <1>8, <2>1 DEF X
  <1>12. Cardinality(Taken(f)) \in Nat /\ Cardinality(Returned(f)) \in Nat
    BY <1>10, FS_CardinalityType
  <1>13. Outstanding(f)' = Outstanding(f) - n
    BY <1>2, <1>7, <1>11, <1>12 DEF Outstanding
  <1> QED
    BY <1>7, <1>10, <1>11, <1>13 DEF n, it

\* A write of stock and visibility writes nothing else of an offer.
LEMMA WrittenOffer ==
  ASSUME NEW o \in OfferRows, NEW n, NEW on
  PROVE  /\ [o EXCEPT !.stock = n, !.active = on].row = o.row
         /\ [o EXCEPT !.stock = n, !.active = on].stock = n
  BY DEF OfferRows

LEMMA CheckoutBooks ==
  ASSUME TypeOK, TypeOK', Books, NEW r \in Slots, CheckoutCommit(r)
  PROVE  Books'
  <1> DEFINE q == req[r]
  <1>1. q.qty \in [Offers -> Nat]
    BY RequestType DEF CheckoutCommit, TypeOK
  <1>2. \A f \in Offers :
          /\ offer'[f].row = offer[f].row
          /\ offer'[f].stock = offer[f].stock - q.qty[f]
          /\ q.qty[f] > 0 => offer[f].row = "row"
    <2>1. ASSUME NEW f \in Offers
          PROVE  offer'[f] = IF q.qty[f] = 0
                             THEN offer[f]
                             ELSE [offer[f] EXCEPT !.stock = @ - q.qty[f],
                                                   !.active = @ /\ offer[f].stock > q.qty[f]]
      BY DEF CheckoutCommit, TakeStock
    <2>2. \A f \in Offers : offer[f] \in OfferRows /\ q.qty[f] \in Nat
      BY <1>1 DEF TypeOK
    <2>3. \A f \in Offers : q.qty[f] > 0 => offer[f].row = "row"
      BY DEF CheckoutCommit
    <2> HIDE DEF q
    <2>4. ASSUME NEW f \in Offers
          PROVE  /\ offer'[f].row = offer[f].row
                 /\ offer'[f].stock = offer[f].stock - q.qty[f]
      <3> DEFINE n == offer[f].stock - q.qty[f]
                 on == offer[f].active /\ offer[f].stock > q.qty[f]
      <3>1. CASE q.qty[f] = 0
        <4>1. offer'[f] = offer[f]
          BY <2>1, <3>1
        <4>2. offer[f].stock \in Int
          BY <2>2 DEF OfferRows
        <4> QED
          BY <3>1, <4>1, <4>2
      <3>2. CASE q.qty[f] # 0
        <4>1. offer'[f] = [offer[f] EXCEPT !.stock = n, !.active = on]
          BY <2>1, <3>2
        <4> HIDE DEF n, on
        <4>2. offer'[f].row = offer[f].row /\ offer'[f].stock = n
          BY <2>2, <4>1, WrittenOffer
        <4> QED
          BY <4>2 DEF n
      <3> QED
        BY <3>1, <3>2
    <2> QED
      BY <2>3, <2>4
  <1>3. placed' = placed + 1 /\ supply' = supply
    BY DEF CheckoutCommit
  <1>4. \A f \in Offers :
          /\ IsFiniteSet(Taken(f)') /\ IsFiniteSet(Returned(f)')
          /\ Outstanding(f)' = Outstanding(f) + q.qty[f]
    BY CheckoutTakes DEF Books
  <1>5. OrdersPlaced'
    <2>1. ASSUME NEW id \in OrderIds, id[1] > placed + 1
          PROVE  order'[id] = NoOrder
      <3>1. id[1] \in Nat /\ placed \in Nat
        BY DEF OrderIds, TypeOK
      <3> QED
        BY <2>1, <3>1 DEF CheckoutCommit, MakeOrders, Books, OrdersPlaced
    <2>2. ASSUME NEW s \in Slots, req'[s].pc = "cancel"
          PROVE  req'[s].order[1] <= placed + 1
      <3>1. req'[s] = req[s]
        BY <2>2 DEF CheckoutCommit, DeleteLines, Idle
      <3>2. req[s].order \in OrderIds
        BY <2>2, <3>1, RequestType DEF TypeOK
      <3>3. req[s].order[1] \in Nat /\ placed \in Nat
        BY <3>2 DEF OrderIds, TypeOK
      <3> QED
        BY <2>2, <3>1, <3>3 DEF Books, OrdersPlaced
    <2> QED
      BY <1>3, <2>1, <2>2 DEF OrdersPlaced
  <1>6. NewInNoOrder'
    <2> SUFFICES ASSUME NEW f \in Offers, NEW id \in OrderIds, offer'[f].row = "none"
                 PROVE  order'[id].qty[f] = 0
      BY DEF NewInNoOrder
    <2>1. order[id].qty[f] = 0 /\ ~ (q.qty[f] > 0)
      BY <1>2 DEF Books, NewInNoOrder
    <2>2. q.qty[f] = 0
      BY <1>1, <2>1
    <2> QED
      BY <2>1, <2>2, CheckoutWrites DEF Books
  <1>7. Ledger'
    <2> SUFFICES ASSUME NEW f \in Offers, offer'[f].row = "row", supply'[f] # NULL
                 PROVE  offer'[f].stock = supply'[f] - Outstanding(f)'
      BY DEF Ledger
    <2>1. offer[f].stock = supply[f] - Outstanding(f)
      BY <1>2, <1>3 DEF Books, Ledger
    <2>2. supply[f] \in Int /\ q.qty[f] \in Int
      BY <1>1, <1>3 DEF TypeOK
    <2>3. Outstanding(f) \in Int
      BY FS_CardinalityType DEF Outstanding, Books, PiecesCounted
    <2> QED
      BY <1>2, <1>3, <1>4, <2>1, <2>2, <2>3
  <1>8. OrdersSettled'
    <2> SUFFICES ASSUME NEW id \in OrderIds
                 PROVE  /\ order'[id].status = "none" => \A f \in Offers : order'[id].qty[f] = 0
                        /\ order'[id].status = "cancelled" <=> order'[id].returned > 0
      BY DEF OrdersSettled
    <2>1. order'[id] \in {order[id], OrderOf(q, id[2])}
      BY DEF CheckoutCommit, MakeOrders
    <2>2. OrderOf(q, id[2]).status = "open" /\ OrderOf(q, id[2]).returned = 0
      BY DEF OrderOf
    <2> HIDE DEF q
    <2>3. CASE order'[id] = order[id]
      BY <2>3 DEF Books, OrdersSettled
    <2>4. CASE order'[id] = OrderOf(q, id[2])
      BY <2>2, <2>4
    <2> QED
      BY <2>1, <2>3, <2>4
  <1> QED
    BY <1>4, <1>5, <1>6, <1>7, <1>8 DEF Books, PiecesCounted

LEMMA CancelBooks ==
  ASSUME TypeOK, TypeOK', Books, NEW r \in Slots, CancelCommit(r)
  PROVE  Books'
  <1> DEFINE it == req[r].order
  <1>1. it \in OrderIds /\ it[1] <= placed
    BY RequestType DEF CancelCommit, TypeOK, Books, OrdersPlaced
  <1>2. \A f \in Offers :
          /\ offer'[f].row = offer[f].row
          /\ offer[f].row = "row" => offer'[f].stock = offer[f].stock + order[it].qty[f]
    <2>1. \A f \in Offers :
            offer'[f] = IF order[it].qty[f] > 0 /\ offer[f].row = "row"
                        THEN [offer[f] EXCEPT !.stock = @ + order[it].qty[f],
                                              !.active = TRUE]
                        ELSE offer[f]
      BY DEF CancelCommit
    <2>2. \A f \in Offers : offer[f] \in OfferRows /\ order[it].qty[f] \in Nat
      BY <1>1 DEF TypeOK, OrderRows
    <2> HIDE DEF it
    <2>3. ASSUME NEW f \in Offers
          PROVE  /\ offer'[f].row = offer[f].row
                 /\ offer[f].row = "row" => offer'[f].stock = offer[f].stock + order[it].qty[f]
      <3>1. CASE order[it].qty[f] > 0 /\ offer[f].row = "row"
        <4> DEFINE n == offer[f].stock + order[it].qty[f]
        <4>1. offer'[f] = [offer[f] EXCEPT !.stock = n, !.active = TRUE]
          BY <2>1, <3>1
        <4> HIDE DEF n
        <4>2. offer'[f].row = offer[f].row /\ offer'[f].stock = n
          BY <2>2, <4>1, WrittenOffer
        <4> QED
          BY <4>2 DEF n
      <3>2. CASE ~ (order[it].qty[f] > 0) \/ offer[f].row # "row"
        <4>1. offer'[f] = offer[f]
          BY <2>1, <3>2
        <4>2. offer[f].stock \in Int
          BY <2>2 DEF OfferRows
        <4> QED
          BY <2>2, <3>2, <4>1, <4>2
      <3> QED
        BY <3>1, <3>2
    <2> QED
      BY <2>3
  <1>3. \A id \in OrderIds :
          /\ order'[id].qty = order[id].qty
          /\ id # it => order'[id] = order[id]
          /\ id = it => order'[id].status = "cancelled" /\ order'[id].returned > 0
    <2> DEFINE new == [order[it] EXCEPT !.status = "cancelled",
                                        !.returned = order[it].returned + 1]
    <2>1. new.qty = order[it].qty /\ new.status = "cancelled" /\ new.returned > 0
      BY <1>1 DEF TypeOK, OrderRows
    <2>2. order' = [order EXCEPT ![it] = new]
      BY <1>1 DEF CancelCommit, TypeOK, OrderRows
    <2> HIDE DEF new
    <2> QED
      BY <1>1, <2>1, <2>2 DEF TypeOK
  <1>4. placed' = placed /\ supply' = supply /\ Finish(r)
    BY DEF CancelCommit
  <1>5. \A f \in Offers :
          /\ IsFiniteSet(Taken(f)') /\ IsFiniteSet(Returned(f)')
          /\ Outstanding(f)' = Outstanding(f) - order[it].qty[f]
    BY CancelReturns DEF Books
  <1> HIDE DEF it
  <1>6. OrdersPlaced'
    <2>1. \A s \in Slots : req'[s] = Idle \/ req'[s] = req[s]
      BY <1>4 DEF Finish, TypeOK
    <2>2. it[1] \in Nat /\ placed \in Nat
      BY <1>1 DEF OrderIds, TypeOK
    <2> QED
      BY <1>1, <1>3, <1>4, <2>1, <2>2 DEF Books, OrdersPlaced, Idle
  <1>7. NewInNoOrder'
    BY <1>2, <1>3 DEF Books, NewInNoOrder
  <1>8. Ledger'
    <2> SUFFICES ASSUME NEW f \in Offers, offer'[f].row = "row", supply'[f] # NULL
                 PROVE  offer'[f].stock = supply'[f] - Outstanding(f)'
      BY DEF Ledger
    <2>1. offer[f].stock = supply[f] - Outstanding(f)
      BY <1>2, <1>4 DEF Books, Ledger
    <2>2. supply[f] \in Int /\ order[it].qty[f] \in Int
      BY <1>1, <1>4 DEF TypeOK, OrderRows
    <2>3. Outstanding(f) \in Int
      BY FS_CardinalityType DEF Outstanding, Books, PiecesCounted
    <2> QED
      BY <1>2, <1>4, <1>5, <2>1, <2>2, <2>3
  <1>9. OrdersSettled'
    BY <1>3 DEF Books, OrdersSettled
  <1> QED
    BY <1>5, <1>6, <1>7, <1>8, <1>9 DEF Books, PiecesCounted

\* A seller's edit changes stock and supply alike; a new offer starts even.
LEMMA OfferBooks ==
  ASSUME TypeOK, TypeOK', Books, NEW r \in Slots,
         (\E f \in Offers : SellerStep(r, f)) \/ WriteOffer(r)
  PROVE  Books'
  <1>1. ASSUME NEW f \in Offers, NEW n \in 0 .. MaxStock, NEW on \in BOOLEAN,
               CreateOffer(r, f, n, on)
        PROVE  Books'
    <2>1. \A g \in Offers :
            IF g = f
            THEN offer[g].row = "none" /\ offer'[g].row = "row"
                 /\ offer'[g].stock = n /\ supply'[g] = n
            ELSE offer'[g] = offer[g] /\ supply'[g] = supply[g]
      BY <1>1 DEF CreateOffer, TypeOK
    <2> QED
      BY <1>1, <2>1, BooksKept DEF CreateOffer
  <1>2. ASSUME NEW f \in Offers, NEW n \in (0 .. MaxStock) \cup {NULL},
               NEW on \in BOOLEAN \cup {NULL}, UpdateOffer(r, f, n, on)
        PROVE  Books'
    <2>1. PICK q : Begin(r, q) /\ q.pc = "edit"
      BY <1>2 DEF UpdateOffer
    <2>2. \A s \in Slots : req'[s].pc = "cancel" => req'[s] = req[s]
      BY <2>1 DEF Begin, TypeOK
    <2> QED
      BY <2>1, <2>2, BooksKept DEF Begin
  <1>3. ASSUME NEW f \in Offers, RemoveOffer(r, f)
        PROVE  Books'
    <2>1. \A s \in Slots : req'[s].pc = "cancel" => req'[s] = req[s]
      BY <1>3 DEF RemoveOffer, DeleteLines, Idle
    <2>2. \A g \in Offers : IF g = f THEN offer[g].row = "row" /\ offer'[g].row = "deleted"
                             ELSE offer'[g] = offer[g]
      BY <1>3 DEF RemoveOffer, NoOffer, TypeOK
    <2> QED
      BY <1>3, <2>1, <2>2, BooksKept DEF RemoveOffer
  <1>4. CASE WriteOffer(r)
    <2> DEFINE q == req[r]
               f == q.offer
               stock == IF q.stock = NULL THEN offer[f].stock ELSE q.stock
               put == IF q.stock = NULL THEN supply[f]
                      ELSE IF supply[f] = NULL \/ offer[f].stock # q.seen THEN NULL
                      ELSE supply[f] + q.stock - q.seen
    <2>1. f \in Offers /\ q.stock \in Nat \cup {NULL}
      BY <1>4, RequestType DEF WriteOffer, TypeOK
    <2>2. offer[f].stock \in Int /\ supply[f] \in Int \cup {NULL}
      BY <2>1 DEF TypeOK, OfferRows
    <2>3. /\ offer[f].row = "row" /\ offer'[f].row = "row"
          /\ offer'[f].stock = stock /\ supply'[f] = put
          /\ \A g \in Offers \ {f} : offer'[g] = offer[g] /\ supply'[g] = supply[g]
      BY <1>4, <2>1 DEF WriteOffer, TypeOK
    <2>4. put # NULL => supply[f] # NULL /\ stock - put = offer[f].stock - supply[f]
      BY <2>1, <2>2
    <2>5. \A s \in Slots : req'[s].pc = "cancel" => req'[s] = req[s]
      BY <1>4 DEF WriteOffer, Finish, Idle, TypeOK
    <2>6. UNCHANGED <<order, placed>>
      BY <1>4 DEF WriteOffer
    <2> HIDE DEF f, stock, put, q
    <2>7. \A g \in Offers :
            /\ offer'[g].row = offer[g].row
            /\ supply'[g] # NULL =>
                 /\ supply[g] # NULL
                 /\ offer'[g].stock - supply'[g] = offer[g].stock - supply[g]
      BY <2>3, <2>4
    <2> QED
      BY <2>5, <2>6, <2>7, BooksKept
  <1> QED
    BY <1>1, <1>2, <1>3, <1>4 DEF SellerStep

LEMMA StepBooks ==
  ASSUME TypeOK, Books, [Next]_vars
  PROVE  Books'
  <1>1. TypeOK'
    BY StepInv
  <1>2. ASSUME NEW r \in Slots, NEW u \in Customers, CustomerStep(r, u)
        PROVE  Books'
    <2>1. UNCHANGED <<offer, order, placed, supply>>
      BY <1>2 DEF CustomerStep, AddItem, UpdateItem, RemoveItem, Clear, CheckoutRead, Begin
    <2>2. \A s \in Slots : req'[s].pc = "cancel" => req'[s] = req[s]
      <3>1. ASSUME NEW q, Begin(r, q), q.pc # "cancel"
            PROVE  \A s \in Slots : req'[s].pc = "cancel" => req'[s] = req[s]
        BY <3>1 DEF Begin, TypeOK
      <3>2. ASSUME NEW gone, DeleteLines(r, gone)
            PROVE  \A s \in Slots : req'[s].pc = "cancel" => req'[s] = req[s]
        BY <3>2 DEF DeleteLines, Idle
      <3>3. CASE \E f \in Offers, n \in 1 .. MaxQty : AddItem(r, u, f, n) \/ UpdateItem(r, u, f, n)
        BY <3>1, <3>3 DEF AddItem, UpdateItem
      <3>4. CASE Clear(r, u) \/ \E f \in Offers : RemoveItem(r, u, f)
        BY <3>2, <3>4 DEF Clear, RemoveItem
      <3>5. CASE CheckoutRead(r, u)
        BY <3>1, <3>5 DEF CheckoutRead
      <3> QED
        BY <1>2, <3>3, <3>4, <3>5 DEF CustomerStep
    <2> QED
      BY <1>1, <2>1, <2>2, BooksKept
  <1>3. ASSUME NEW r \in Slots, NEW f \in Offers, SellerStep(r, f)
        PROVE  Books'
    BY <1>1, <1>3, OfferBooks
  <1>4. ASSUME NEW r \in Slots, NEW id \in OrderIds, Cancel(r, id)
        PROVE  Books'
    <2>1. UNCHANGED <<offer, order, placed, supply>>
      BY <1>4 DEF Cancel, Begin
    <2>2. \A s \in Slots :
            req'[s].pc = "cancel" =>
              req'[s] = req[s] \/ order[req'[s].order].status = "open"
      BY <1>4 DEF Cancel, Begin, TypeOK
    <2> QED
      BY <1>1, <2>1, <2>2, BooksKept
  <1>5. ASSUME NEW r \in Slots, UpsertItem(r) \/ SetQty(r) \/ Die(r)
        PROVE  Books'
    <2>1. UNCHANGED <<offer, order, placed, supply>> /\ Finish(r)
      BY <1>5 DEF UpsertItem, SetQty, Die
    <2>2. \A s \in Slots : req'[s].pc = "cancel" => req'[s] = req[s]
      BY <2>1 DEF Finish, Idle, TypeOK
    <2> QED
      BY <1>1, <2>1, <2>2, BooksKept
  <1>6. ASSUME NEW r \in Slots, Write(r)
        PROVE  Books'
    BY <1>1, <1>5, <1>6, CheckoutBooks, CancelBooks, OfferBooks DEF Write
  <1>7. CASE UNCHANGED vars
    BY <1>1, <1>7, BooksKept DEF vars
  <1> QED
    BY <1>2, <1>3, <1>4, <1>5, <1>6, <1>7 DEF Next

LEMMA InitBooks ==
  ASSUME Init
  PROVE  Books
  <1>1. OrdersPlaced /\ NewInNoOrder /\ OrdersSettled /\ Ledger
    BY DEF Init, OrdersPlaced, NewInNoOrder, OrdersSettled, Ledger, NoOrder, NoOffer, Idle
  <1>2. ASSUME NEW f \in Offers
        PROVE  IsFiniteSet(Taken(f)) /\ IsFiniteSet(Returned(f))
    <2>1. \A id \in OrderIds : 1 .. order[id].qty[f] = {}
      BY DEF Init, NoOrder
    <2>2. Taken(f) = {} /\ Returned(f) = {}
      BY <2>1 DEF Taken, Returned
    <2> QED
      BY <2>2, FS_EmptySet
  <1> QED
    BY <1>1, <1>2 DEF Books, PiecesCounted

\* What open orders hold is what was taken less one return of every order
\* cancelled: no less than the ledger counts, and no more unless an order
\* brought its pieces back twice.
LEMMA HeldPieces ==
  ASSUME TypeOK, Books, NEW f \in Offers
  PROVE  /\ Held(f) \in Nat /\ Outstanding(f) \in Int
         /\ Outstanding(f) <= Held(f)
         /\ (\A id \in OrderIds : order[id].returned > 1 => order[id].qty[f] = 0) =>
              Outstanding(f) = Held(f)
  <1> DEFINE Q(id) == order[id].qty[f]
             R(id) == order[id].returned
             Open == {o \in OrderIds : order[o].status = "open"}
             Over == {o \in OrderIds : order[o].status = "cancelled"}
             H == UNION {{id} \X (1 .. Q(id)) : id \in Open}
             B == UNION {{id} \X (1 .. Q(id)) : id \in Over}
             Once == UNION {{<<id, 1>>} \X (1 .. Q(id)) : id \in Over}
  <1>1. /\ \A id \in OrderIds : Q(id) \in Nat /\ R(id) \in Nat
        /\ \A id \in OrderIds : order[id].status \in {"none", "open", "cancelled"}
    BY DEF TypeOK, OrderRows
  <1>2. \A id \in OrderIds : /\ order[id].status = "none" => Q(id) = 0
                             /\ order[id].status = "cancelled" <=> R(id) > 0
    BY DEF Books, OrdersSettled
  <1>3. /\ IsFiniteSet(Taken(f)) /\ IsFiniteSet(Returned(f))
        /\ Cardinality(Taken(f)) \in Nat /\ Cardinality(Returned(f)) \in Nat
    BY FS_CardinalityType DEF Books, PiecesCounted
  <1>4. Taken(f) = H \cup B /\ H \cap B = {}
    <2>1. Taken(f) = UNION {{id} \X (1 .. Q(id)) : id \in OrderIds}
      BY DEF Taken
    <2> HIDE DEF Q
    <2>2. \A id \in OrderIds : id \in Open \/ id \in Over \/ 1 .. Q(id) = {}
      BY <1>1, <1>2
    <2>3. ASSUME NEW x \in Taken(f)
          PROVE  x \in H \cup B
      BY <2>1, <2>2
    <2>4. ASSUME NEW x \in H \cup B
          PROVE  x \in Taken(f)
      BY <2>1
    <2>5. H \cap B = {}
      OBVIOUS
    <2> QED
      BY <2>3, <2>4, <2>5
  <1>5. Once \subseteq Returned(f)
    <2>1. Returned(f) = UNION {({id} \X (1 .. R(id))) \X (1 .. Q(id)) : id \in OrderIds}
      BY DEF Returned
    <2> HIDE DEF Q, R
    <2>2. \A id \in Over : <<id, 1>> \in {id} \X (1 .. R(id))
      BY <1>1, <1>2
    <2> QED
      BY <2>1, <2>2
  <1>6. (\A id \in OrderIds : R(id) > 1 => Q(id) = 0) => Once = Returned(f)
    <2>1. Returned(f) = UNION {({id} \X (1 .. R(id))) \X (1 .. Q(id)) : id \in OrderIds}
      BY DEF Returned
    <2> HIDE DEF Q, R
    <2>2. SUFFICES ASSUME \A id \in OrderIds : R(id) > 1 => Q(id) = 0, NEW x \in Returned(f)
                   PROVE  x \in Once
      BY <1>5
    <2>3. PICK id \in OrderIds : x \in ({id} \X (1 .. R(id))) \X (1 .. Q(id))
      BY <2>1
    <2>4. PICK k \in 1 .. R(id), i \in 1 .. Q(id) : x = <<<<id, k>>, i>>
      BY <2>3
    <2>5. Q(id) # 0 /\ R(id) > 0
      BY <1>1, <2>4
    <2>6. k = 1 /\ id \in Over
      BY <1>1, <1>2, <2>2, <2>4, <2>5
    <2> QED
      BY <2>4, <2>6
  <1> DEFINE g == [x \in B |-> <<<<x[1], 1>>, x[2]>>]
  <1>7. g \in Bijection(B, Once)
    <2> HIDE DEF Q, Over
    <2>1. \A x \in B : x = <<x[1], x[2]>> /\ x[1] \in Over /\ x[2] \in 1 .. Q(x[1])
      OBVIOUS
    <2>2. \A x \in B : g[x] \in Once
      BY <2>1
    <2>3. \A x, y \in B : g[x] = g[y] => x = y
      BY <2>1
    <2>4. ASSUME NEW t \in Once
          PROVE  \E x \in B : g[x] = t
      <3>1. PICK id \in Over : t \in {<<id, 1>>} \X (1 .. Q(id))
        OBVIOUS
      <3>2. PICK i \in 1 .. Q(id) : t = <<<<id, 1>>, i>>
        BY <3>1
      <3>3. <<id, i>> \in B
        OBVIOUS
      <3> QED
        BY <3>2, <3>3
    <2>5. g \in [B -> Once] /\ DOMAIN g = B
      BY <2>2
    <2> HIDE DEF g, B, Once
    <2> QED
      BY <2>3, <2>4, <2>5 DEF Bijection, Injection, Surjection, IsInjective
  <1>8. IsFiniteSet(H) /\ IsFiniteSet(B)
    <2> HIDE DEF H, B
    <2>1. H \in SUBSET Taken(f) /\ B \in SUBSET Taken(f)
      BY <1>4
    <2> QED
      BY <1>3, <2>1, FS_Subset
  <1>9. Held(f) = Cardinality(H)
    BY DEF Held
  <1> HIDE DEF H, B, Once, g
  <1>10. Cardinality(B) = Cardinality(Once)
    BY <1>7, <1>8, FS_Bijection DEF ExistsBijection
  <1>11. /\ Cardinality(H) \in Nat /\ Cardinality(B) \in Nat /\ Cardinality({}) = 0
    BY <1>8, FS_CardinalityType, FS_EmptySet
  <1>12. Cardinality(Taken(f)) = Cardinality(H) + Cardinality(B) - Cardinality({})
    BY <1>4, <1>8, FS_Union
  <1>13. Cardinality(Once) <= Cardinality(Returned(f))
    BY <1>3, <1>5, FS_Subset
  <1>14. Outstanding(f) = Cardinality(H) + Cardinality(B) - Cardinality(Returned(f))
    BY <1>3, <1>11, <1>12 DEF Outstanding
  <1>15. CASE \A id \in OrderIds : R(id) > 1 => Q(id) = 0
    BY <1>3, <1>6, <1>9, <1>10, <1>11, <1>14, <1>15
  <1>16. CASE ~ \A id \in OrderIds : R(id) > 1 => Q(id) = 0
    BY <1>3, <1>9, <1>10, <1>11, <1>13, <1>14, <1>16
  <1> QED
    BY <1>15, <1>16

\* However checkouts, cancellations and edits overlap or fail, an offer's stock
\* and what its open orders hold are together no less than its seller put up,
\* until one of his edits writes over a stock it did not read.  They are no
\* more either, unless an order was cancelled and its stock put back twice
\* (OrdersService.checkout, the stock side of transitionStatus, OffersService).
THEOREM StockKept == Spec => []StockBalanced
  <1>1. TypeOK /\ Books /\ [Next]_vars => (TypeOK /\ Books)'
    BY StepInv, StepBooks
  <1>2. Init => TypeOK /\ Books
    BY InitInv, InitBooks
  <1>3. TypeOK /\ Books => StockBalanced
    <2> SUFFICES ASSUME TypeOK, Books, NEW f \in Offers,
                        offer[f].row = "row", supply[f] # NULL
                 PROVE  /\ offer[f].stock >= supply[f] - Held(f)
                        /\ (\A id \in OrderIds : order[id].returned > 1 => order[id].qty[f] = 0) =>
                             offer[f].stock = supply[f] - Held(f)
      BY DEF StockBalanced
    <2>1. offer[f].stock = supply[f] - Outstanding(f)
      BY DEF Books, Ledger
    <2>2. supply[f] \in Int /\ offer[f].stock \in Int
      BY DEF TypeOK, OfferRows
    <2> QED
      BY <2>1, <2>2, HeldPieces
  <1> QED
    BY <1>1, <1>2, <1>3, PTL DEF Spec

\* A checkout orders the whole of the cart it read, each line once, at the
\* store of its offer (OrdersService.checkout, steps 2 to 4).
THEOREM CartWhole == Spec => CartOrderedWhole
  <1> DEFINE Whole ==
        \A r \in Slots :
          CheckoutCommit(r) =>
            \A f \in Offers :
              Cardinality(UNION {{s} \X (1 .. order'[<<placed', s>>].qty[f]) : s \in Stores}) =
                req[r].qty[f]
  <1>1. TypeOK /\ Books /\ [Next]_vars => (TypeOK /\ Books)'
    BY StepInv, StepBooks
  <1>2. Init => TypeOK /\ Books
    BY InitInv, InitBooks
  <1>3. TypeOK /\ Books => [Whole]_vars
    <2> SUFFICES ASSUME TypeOK, Books, NEW r \in Slots, CheckoutCommit(r), NEW f \in Offers
                 PROVE  Cardinality(UNION {{s} \X (1 .. order'[<<placed', s>>].qty[f]) : s \in Stores})
                          = req[r].qty[f]
      OBVIOUS
    <2> DEFINE n == req[r].qty[f]
               Q(s) == order'[<<placed', s>>].qty[f]
    <2>1. n \in Nat
      BY RequestType DEF CheckoutCommit, TypeOK
    <2>2. placed' = placed + 1 /\ placed + 1 \in 1 .. MaxCheckouts
      BY BoundAssumption DEF CheckoutCommit, TypeOK
    <2>3. ASSUME NEW s \in Stores
          PROVE  Q(s) = IF s = StoreOf[f] THEN n ELSE 0
      <3>1. <<placed + 1, s>> \in OrderIds /\ <<placed + 1, s>>[1] = placed + 1
        BY <2>2 DEF OrderIds
      <3>2. Q(s) = IF s = StoreOf[f] THEN n ELSE order[<<placed + 1, s>>].qty[f]
        BY <2>2, <3>1, CheckoutWrites DEF Books
      <3>3. order[<<placed + 1, s>>].qty[f] = 0
        BY <2>2, <3>1 DEF Books, OrdersPlaced, NoOrder, TypeOK
      <3> QED
        BY <3>2, <3>3
    <2>4. StoreOf[f] \in Stores
      BY StoreAssumption
    <2> HIDE DEF n, Q
    <2>5. UNION {{s} \X (1 .. Q(s)) : s \in Stores} = {StoreOf[f]} \X (1 .. n)
      BY <2>3, <2>4
    <2>6. Cardinality(UNION {{s} \X (1 .. Q(s)) : s \in Stores}) = n
      BY <2>1, <2>5, PiecesOf
    <2> QED
      BY <2>6 DEF n, Q
  <1>4. CartOrderedWhole <=> [][Whole]_vars
    BY DEF CartOrderedWhole
  <1> QED
    BY <1>1, <1>2, <1>3, <1>4, PTL DEF Spec

-----------------------------------------------------------------------------
(* One handler at a time: what a handler read is what its write finds.     *)

OneSlot == \A r, s \in Slots : r = s

\* The stock a seller's edit will leave.
StockAfter(q) == IF q.stock = NULL THEN offer[q.offer].stock ELSE q.stock

NothingStale ==
  \A r \in Slots :
    /\ req[r].pc = "checkout" =>
         \A f \in Offers : req[r].qty[f] > 0 => req[r].qty[f] <= offer[f].stock
    /\ req[r].pc = "edit" /\ req[r].active => StockAfter(req[r]) > 0

OffersSound == NeverOversold /\ SoldOutIsOffSale

\* A handler that begins knows what it read.
LEMMA BeginSerial ==
  ASSUME OneSlot, TypeOK, OffersSound, NEW r \in Slots, NEW q \in Requests, Begin(r, q),
         q.pc = "checkout" =>
           \A f \in Offers : q.qty[f] > 0 => q.qty[f] <= offer[f].stock,
         q.pc = "edit" /\ q.active => StockAfter(q) > 0
  PROVE  OffersSound' /\ NothingStale'
  <1>1. /\ \A s \in Slots : req'[s] = q
        /\ UNCHANGED offer
    BY DEF Begin, OneSlot, TypeOK
  <1>2. OffersSound'
    BY <1>1 DEF OffersSound, NeverOversold, SoldOutIsOffSale
  <1>3. NothingStale'
    BY <1>1 DEF NothingStale, StockAfter
  <1> QED
    BY <1>2, <1>3

LEMMA CustomerSerial ==
  ASSUME OneSlot, TypeOK, OffersSound, NEW r \in Slots, NEW u \in Customers, CustomerStep(r, u)
  PROVE  OffersSound' /\ NothingStale'
  <1>1. ASSUME NEW f \in Offers, NEW n \in 1 .. MaxQty, AddItem(r, u, f, n) \/ UpdateItem(r, u, f, n)
        PROVE  OffersSound' /\ NothingStale'
    <2>1. PICK pc \in {"upsert", "setqty"} :
            Begin(r, [pc |-> pc, customer |-> u, offer |-> f, qty |-> n])
      BY <1>1 DEF AddItem, UpdateItem
    <2>2. [pc |-> pc, customer |-> u, offer |-> f, qty |-> n] \in Requests
      BY BoundAssumption DEF Requests
    <2> QED
      BY <2>1, <2>2, BeginSerial
  <1>2. CASE Clear(r, u) \/ \E f \in Offers : RemoveItem(r, u, f)
    <2>1. \A s \in Slots : req'[s] = Idle
      BY <1>2 DEF Clear, RemoveItem, DeleteLines, OneSlot
    <2>2. offer' = offer
      BY <1>2 DEF Clear, RemoveItem
    <2> QED
      BY <2>1, <2>2 DEF Idle, NothingStale, OffersSound, NeverOversold, SoldOutIsOffSale
  <1>3. CASE CheckoutRead(r, u)
    <2> DEFINE q == [pc |-> "checkout", customer |-> u, qty |-> cart[u]]
    <2>1. \A f \in Offers : cart[u][f] \in Nat /\ offer[f].stock \in Int
      BY DEF TypeOK, OfferRows
    <2>2. q \in Requests
      BY DEF Requests, TypeOK
    <2>3. Begin(r, q) /\ q.pc = "checkout"
      BY <1>3 DEF CheckoutRead
    <2>4. \A f \in Offers : q.qty[f] > 0 => q.qty[f] <= offer[f].stock
      BY <1>3, <2>1 DEF CheckoutRead, OnSale
    <2> HIDE DEF q
    <2> QED
      BY <2>2, <2>3, <2>4, BeginSerial
  <1> QED
    BY <1>1, <1>2, <1>3 DEF CustomerStep

\* Every write ends its handler.
LEMMA WriteEnds ==
  ASSUME OneSlot, TypeOK, NEW r \in Slots, Write(r)
  PROVE  NothingStale'
  <1>1. req'[r] = Idle
    <2>1. Finish(r) => req'[r] = Idle
      BY DEF Finish, TypeOK
    <2>2. CASE CheckoutCommit(r)
      BY <2>2 DEF CheckoutCommit, DeleteLines
    <2> QED
      BY <2>1, <2>2 DEF Write, UpsertItem, SetQty, CancelCommit, WriteOffer
  <1> QED
    BY <1>1 DEF OneSlot, NothingStale, Idle

LEMMA WriteSerial ==
  ASSUME TypeOK, OffersSound, NothingStale, NEW r \in Slots, Write(r)
  PROVE  OffersSound'
  <1> USE DEF OffersSound, NeverOversold, SoldOutIsOffSale
  <1>1. CASE UpsertItem(r) \/ SetQty(r)
    BY <1>1 DEF UpsertItem, SetQty
  <1>2. CASE CheckoutCommit(r)
    <2>1. req[r].pc = "checkout" /\ req[r].qty \in [Offers -> Nat]
      BY <1>2, RequestType DEF CheckoutCommit, TypeOK
    <2>2. ASSUME NEW f \in Offers
          PROVE  offer'[f].stock >= 0 /\ (offer'[f].active => offer'[f].stock > 0)
      <3> DEFINE n == req[r].qty[f]
      <3>1. n \in Nat /\ offer[f] \in OfferRows /\ offer[f].stock \in Int
        BY <2>1 DEF TypeOK, OfferRows
      <3>2. n > 0 => n <= offer[f].stock
        BY <2>1 DEF NothingStale
      <3>3. offer'[f] = IF n = 0 THEN offer[f]
                        ELSE [offer[f] EXCEPT !.stock = offer[f].stock - n,
                                              !.active = offer[f].active /\ offer[f].stock > n]
        BY <1>2 DEF CheckoutCommit, TakeStock
      <3> HIDE DEF n
      <3>4. CASE n = 0
        BY <3>3, <3>4
      <3>5. CASE n # 0
        <4>1. /\ offer'[f].stock = offer[f].stock - n
              /\ offer'[f].active = (offer[f].active /\ offer[f].stock > n)
          BY <3>1, <3>3, <3>5 DEF OfferRows
        <4>2. offer'[f].active => offer[f].stock > n
          BY <4>1, Zenon
        <4>3. n > 0 /\ offer[f].stock - n >= 0
          BY <3>1, <3>2, <3>5
        <4>4. offer[f].stock > n => offer[f].stock - n > 0
          BY <3>1
        <4> QED
          BY <4>1, <4>2, <4>3, <4>4
      <3> QED
        BY <3>4, <3>5
    <2> QED
      BY <2>2
  <1>3. CASE CancelCommit(r)
    <2> DEFINE id == req[r].order
    <2>1. id \in OrderIds
      BY <1>3, RequestType DEF CancelCommit, TypeOK
    <2>2. ASSUME NEW f \in Offers
          PROVE  offer'[f].stock >= 0 /\ (offer'[f].active => offer'[f].stock > 0)
      <3> DEFINE n == order[id].qty[f]
      <3>1. n \in Nat /\ offer[f] \in OfferRows /\ offer[f].stock \in Int
        BY <2>1 DEF TypeOK, OfferRows, OrderRows
      <3>2. offer'[f] = IF n > 0 /\ offer[f].row = "row"
                        THEN [offer[f] EXCEPT !.stock = offer[f].stock + n, !.active = TRUE]
                        ELSE offer[f]
        BY <1>3 DEF CancelCommit
      <3> HIDE DEF n
      <3>3. CASE n > 0 /\ offer[f].row = "row"
        <4>1. offer'[f].stock = offer[f].stock + n
          BY <3>1, <3>2, <3>3 DEF OfferRows
        <4> QED
          BY <3>1, <3>3, <4>1
      <3>4. CASE ~(n > 0 /\ offer[f].row = "row")
        BY <3>2, <3>4
      <3> QED
        BY <3>3, <3>4
    <2> QED
      BY <2>2
  <1>4. CASE WriteOffer(r)
    <2> DEFINE q == req[r]
    <2>1. q.pc = "edit" /\ q.offer \in Offers /\ q.stock \in Nat \cup {NULL}
      BY <1>4, RequestType DEF WriteOffer, TypeOK
    <2>2. q.active => StockAfter(q) > 0
      BY <2>1 DEF NothingStale
    <2>3. StockAfter(q) \in Nat
      BY <2>1 DEF StockAfter, TypeOK, OfferRows
    <2>4. /\ offer'[q.offer].stock = StockAfter(q)
          /\ offer'[q.offer].active = q.active
          /\ \A f \in Offers \ {q.offer} : offer'[f] = offer[f]
      BY <1>4, <2>1 DEF WriteOffer, StockAfter, TypeOK
    <2> QED
      BY <2>1, <2>2, <2>3, <2>4
  <1> QED
    BY <1>1, <1>2, <1>3, <1>4 DEF Write

LEMMA SellerSerial ==
  ASSUME OneSlot, TypeOK, OffersSound, NEW r \in Slots, NEW f \in Offers, SellerStep(r, f)
  PROVE  OffersSound' /\ NothingStale'
  <1>1. ASSUME NEW n \in 0 .. MaxStock, NEW on \in BOOLEAN,
               CreateOffer(r, f, n, on)
        PROVE  OffersSound' /\ NothingStale'
    <2>1. /\ offer'[f].stock = n
          /\ offer'[f].active = (on /\ n > 0)
          /\ \A g \in Offers \ {f} : offer'[g] = offer[g]
      BY <1>1 DEF CreateOffer, TypeOK
    <2>2. offer'[f].active => n > 0
      BY <2>1, Zenon
    <2>3. OffersSound'
      BY <2>1, <2>2, BoundAssumption DEF OffersSound, NeverOversold, SoldOutIsOffSale
    <2>4. \A s \in Slots : req'[s].pc = "idle"
      BY <1>1 DEF CreateOffer, OneSlot
    <2> QED
      BY <2>3, <2>4 DEF NothingStale
  <1>2. ASSUME NEW n \in (0 .. MaxStock) \cup {NULL},
               NEW on \in BOOLEAN \cup {NULL}, UpdateOffer(r, f, n, on)
        PROVE  OffersSound' /\ NothingStale'
    <2> DEFINE stock == IF n = NULL THEN offer[f].stock ELSE n
               active == IF on # NULL THEN on /\ stock > 0
                         ELSE stock # 0 /\ offer[f].active
               seen == IF n = NULL THEN NULL ELSE offer[f].stock
               q == [pc |-> "edit", offer |-> f, stock |-> n, seen |-> seen,
                     active |-> active]
    <2>1. active \in BOOLEAN /\ seen \in Int \cup {NULL}
      BY DEF TypeOK, OfferRows
    <2>2. n \in Nat \cup {NULL} /\ offer[f].stock \in Nat
      BY BoundAssumption DEF TypeOK, OfferRows, OffersSound, NeverOversold
    <2>3. Begin(r, q)
      BY <1>2 DEF UpdateOffer
    <2>4. stock \in Nat
      BY <2>2
    <2>5. StockAfter(q) = stock
      BY DEF StockAfter
    <2> HIDE DEF stock
    <2>6. active => stock > 0
      <3>1. active => stock > 0 \/ stock # 0
        BY Zenon
      <3> QED
        BY <2>4, <3>1
    <2> HIDE DEF active, seen
    <2>7. q \in Requests
      BY <2>1, <2>2 DEF Requests
    <2>8. q.pc = "edit" /\ (q.active => StockAfter(q) > 0)
      BY <2>5, <2>6
    <2> HIDE DEF q
    <2> QED
      BY <2>3, <2>7, <2>8, BeginSerial
  <1>3. CASE RemoveOffer(r, f)
    <2>1. \A s \in Slots : req'[s] = Idle
      BY <1>3 DEF RemoveOffer, DeleteLines, OneSlot
    <2>2. \A g \in Offers : offer'[g] = offer[g] \/ (offer'[g].stock = 0 /\ ~offer'[g].active)
      BY <1>3 DEF RemoveOffer, NoOffer, TypeOK
    <2> QED
      BY <2>1, <2>2 DEF Idle, NothingStale, OffersSound, NeverOversold, SoldOutIsOffSale
  <1> QED
    BY <1>1, <1>2, <1>3 DEF SellerStep

LEMMA StepSerial ==
  ASSUME OneSlot, TypeOK, OffersSound /\ NothingStale, [Next]_vars
  PROVE  (OffersSound /\ NothingStale)'
  <1>1. ASSUME NEW r \in Slots, Write(r)
        PROVE  OffersSound' /\ NothingStale'
    BY <1>1, WriteEnds, WriteSerial
  <1>2. ASSUME NEW r \in Slots, NEW u \in Customers, CustomerStep(r, u)
        PROVE  OffersSound' /\ NothingStale'
    BY <1>2, CustomerSerial
  <1>3. ASSUME NEW r \in Slots, NEW f \in Offers, SellerStep(r, f)
        PROVE  OffersSound' /\ NothingStale'
    BY <1>3, SellerSerial
  <1>4. ASSUME NEW r \in Slots, NEW id \in OrderIds, Cancel(r, id)
        PROVE  OffersSound' /\ NothingStale'
    <2>1. [pc |-> "cancel", order |-> id] \in Requests
      BY DEF Requests
    <2> QED
      BY <1>4, <2>1, BeginSerial DEF Cancel
  <1>5. ASSUME NEW r \in Slots, Die(r)
        PROVE  OffersSound' /\ NothingStale'
    <2>1. \A s \in Slots : req'[s] = Idle
      BY <1>5 DEF Die, Finish, OneSlot, TypeOK
    <2> QED
      BY <1>5, <2>1 DEF Die, Idle, NothingStale, OffersSound, NeverOversold, SoldOutIsOffSale
  <1>6. CASE UNCHANGED vars
    BY <1>6 DEF vars, NothingStale, StockAfter, OffersSound, NeverOversold, SoldOutIsOffSale
  <1> QED
    BY <1>1, <1>2, <1>3, <1>4, <1>5, <1>6 DEF Next

LEMMA InitSerial ==
  ASSUME Init
  PROVE  OffersSound /\ NothingStale
  BY DEF Init, NoOffer, Idle, OffersSound, NeverOversold, SoldOutIsOffSale, NothingStale

\* One handler at a time, no offer is sold beyond its stock, though checkout
\* decrements without looking (OrdersService.checkout).
THEOREM SerialStock ==
  ASSUME OneSlot
  PROVE  Spec => []NeverOversold
  <1>1. TypeOK /\ OffersSound /\ NothingStale /\ [Next]_vars => (TypeOK /\ OffersSound /\ NothingStale)'
    BY OneSlot, StepInv, StepSerial
  <1>2. Init => TypeOK /\ OffersSound /\ NothingStale
    BY InitInv, InitSerial
  <1>3. OffersSound => NeverOversold
    BY DEF OffersSound
  <1> QED
    BY <1>1, <1>2, <1>3, PTL DEF Spec

\* One handler at a time, an offer that ran out is off sale, whichever of
\* checkout, cancellation and OffersService.update wrote it last.
THEOREM SerialOffSale ==
  ASSUME OneSlot
  PROVE  Spec => []SoldOutIsOffSale
  <1>1. TypeOK /\ OffersSound /\ NothingStale /\ [Next]_vars => (TypeOK /\ OffersSound /\ NothingStale)'
    BY OneSlot, StepInv, StepSerial
  <1>2. Init => TypeOK /\ OffersSound /\ NothingStale
    BY InitInv, InitSerial
  <1>3. OffersSound => SoldOutIsOffSale
    BY DEF OffersSound
  <1> QED
    BY <1>1, <1>2, <1>3, PTL DEF Spec

=============================================================================
