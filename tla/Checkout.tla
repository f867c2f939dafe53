------------------------------ MODULE Checkout ------------------------------
(***************************************************************************)
(* Carts, seller offers and the orders made from them: CartService,        *)
(* OrdersService.checkout, the stock part of OrdersService.transitionStatus *)
(* and OffersService.                                                      *)
(*                                                                         *)
(* As in OrderLifecycle a slot holds one handler in flight between what it *)
(* read and what it writes.  A handler that is refused never begins: a     *)
(* store that is not active or not open, a required field, a foreign row.  *)
(* Prices are left out: no rule but the sum of an order reads them.        *)
(***************************************************************************)
EXTENDS Integers, FiniteSets

CONSTANTS
  Customers,
  Offers,
  Stores,
  StoreOf,      \* the store each offer belongs to
  Slots,        \* handlers that may be in flight at the same time
  NULL,
  MaxStock,     \* bound: stock a seller enters
  MaxQty,       \* bound: pieces of one offer in a cart
  MaxCheckouts  \* bound: checkouts that succeed

ASSUME StoreAssumption == StoreOf \in [Offers -> Stores]
ASSUME NullAssumption  == NULL \notin Int \cup BOOLEAN
ASSUME BoundAssumption == MaxStock \in Nat /\ MaxQty \in Nat /\ MaxCheckouts \in Nat

VARIABLES
  offer,  \* SellerOffer rows
  cart,   \* quantities of the CartItem rows, 0 where there is none
  order,  \* orders by checkout and store
  placed, \* checkouts committed so far
  supply, \* pieces the seller of each offer put up for sale, as his edits read
          \* and wrote the stock; NULL once one wrote over what it had not read
  req     \* the handler in each slot

vars == <<offer, cart, order, placed, supply, req>>

-----------------------------------------------------------------------------
OfferRows == [row : {"none", "row", "deleted"}, stock : Int, active : BOOLEAN]

NoOffer == [row |-> "none", stock |-> 0, active |-> FALSE]

OrderIds == (1 .. MaxCheckouts) \X Stores

OrderRows == [status : {"none", "open", "cancelled"}, qty : [Offers -> Nat],
              returned : Nat] \* times its stock was put back

NoOrder == [status |-> "none", qty |-> [f \in Offers |-> 0], returned |-> 0]

Idle == [pc |-> "idle"]

Requests ==
  {Idle}
  \cup [pc : {"upsert", "setqty"}, customer : Customers, offer : Offers, qty : Nat]
  \cup [pc : {"checkout"}, customer : Customers, qty : [Offers -> Nat]]
  \cup [pc : {"cancel"}, order : OrderIds]
  \cup [pc : {"edit"}, offer : Offers, seen : Int \cup {NULL}, stock : Nat \cup {NULL},
        active : BOOLEAN]

\* Rows and handlers have their types, and every row of an order belongs to
\* the store the order went to.
TypeOK ==
  /\ offer \in [Offers -> OfferRows]
  /\ cart \in [Customers -> [Offers -> Nat]]
  /\ order \in [OrderIds -> OrderRows]
  /\ placed \in 0 .. MaxCheckouts
  /\ supply \in [Offers -> Int \cup {NULL}]
  /\ req \in [Slots -> Requests]
  /\ \A id \in OrderIds, f \in Offers :
       order[id].qty[f] > 0 => StoreOf[f] = id[2]

Init ==
  /\ offer = [f \in Offers |-> NoOffer]
  /\ cart = [u \in Customers |-> [f \in Offers |-> 0]]
  /\ order = [id \in OrderIds |-> NoOrder]
  /\ placed = 0
  /\ supply = [f \in Offers |-> 0]
  /\ req = [r \in Slots |-> Idle]

-----------------------------------------------------------------------------
Begin(r, q) ==
  /\ req[r].pc = "idle"
  /\ req' = [req EXCEPT ![r] = q]
  /\ UNCHANGED <<offer, cart, order, placed, supply>>

Finish(r) == req' = [req EXCEPT ![r] = Idle]

OnSale(f, n) == offer[f].row = "row" /\ offer[f].active /\ offer[f].stock >= n

\* Cart rows are deleted by handler r.  One that was about to update such a
\* row can only fail now, even if the same offer is put in the cart again.
DeleteLines(r, gone) ==
  /\ cart' = [u \in Customers |-> [f \in Offers |->
                IF <<u, f>> \in gone THEN 0 ELSE cart[u][f]]]
  /\ req' = [s \in Slots |->
               IF \/ s = r
                  \/ req[s].pc = "setqty" /\ <<req[s].customer, req[s].offer>> \in gone
               THEN Idle
               ELSE req[s]]

-----------------------------------------------------------------------------
(* The cart.                                                               *)

\* The stock is compared with the quantity added, not with the sum.
AddItem(r, u, f, n) ==
  /\ OnSale(f, n)
  /\ cart[u][f] + n <= MaxQty
  /\ Begin(r, [pc |-> "upsert", customer |-> u, offer |-> f, qty |-> n])

UpsertItem(r) ==
  LET q == req[r]
  IN /\ q.pc = "upsert"
     /\ offer[q.offer].row = "row"
     /\ cart' = [cart EXCEPT ![q.customer][q.offer] = @ + q.qty]
     /\ Finish(r)
     /\ UNCHANGED <<offer, order, placed, supply>>

UpdateItem(r, u, f, n) ==
  /\ cart[u][f] > 0
  /\ OnSale(f, n)
  /\ Begin(r, [pc |-> "setqty", customer |-> u, offer |-> f, qty |-> n])

SetQty(r) ==
  LET q == req[r]
  IN /\ q.pc = "setqty"
     /\ cart' = [cart EXCEPT ![q.customer][q.offer] = q.qty]
     /\ Finish(r)
     /\ UNCHANGED <<offer, order, placed, supply>>

RemoveItem(r, u, f) ==
  /\ req[r].pc = "idle"
  /\ cart[u][f] > 0
  /\ DeleteLines(r, {<<u, f>>})
  /\ UNCHANGED <<offer, order, placed, supply>>

Clear(r, u) ==
  /\ req[r].pc = "idle"
  /\ DeleteLines(r, {u} \X Offers)
  /\ UNCHANGED <<offer, order, placed, supply>>

-----------------------------------------------------------------------------
(* Checkout: cart and offers are read and validated before the transaction *)
(* that makes the orders, takes the stock and empties the cart.            *)

\* Slip: the stock was checked when the item was added, so not again.
CheckoutUnvalidated(r, u) ==
  /\ \E f \in Offers : cart[u][f] > 0
  /\ \A f \in Offers : cart[u][f] > 0 => OnSale(f, 1)
  /\ Begin(r, [pc |-> "checkout", customer |-> u, qty |-> cart[u]])

CheckoutRead(r, u) ==
  /\ \E f \in Offers : cart[u][f] > 0
  /\ \A f \in Offers : cart[u][f] > 0 => OnSale(f, cart[u][f])
  /\ Begin(r, [pc |-> "checkout", customer |-> u, qty |-> cart[u]])

\* Slip: every store's order gets the whole cart.
OrderOfWholeCart(q, s) ==
  [status |-> "open", qty |-> q.qty, returned |-> 0]

\* The part of a cart that goes to one store.
OrderOf(q, s) ==
  [status   |-> "open",
   qty      |-> [f \in Offers |-> IF StoreOf[f] = s THEN q.qty[f] ELSE 0],
   returned |-> 0]

\* Slip: one order per checkout, at the store of some line.
MakeOneOrder(q) ==
  LET f == CHOOSE g \in Offers : q.qty[g] > 0
  IN order' = [order EXCEPT ![<<placed + 1, StoreOf[f]>>] = OrderOf(q, StoreOf[f])]

\* One order per store with lines in the cart.
MakeOrders(q) ==
  order' = [id \in OrderIds |->
              IF /\ id[1] = placed + 1
                 /\ \E f \in Offers : StoreOf[f] = id[2] /\ q.qty[f] > 0
              THEN OrderOf(q, id[2])
              ELSE order[id]]

\* Slip: one piece per order.
TakeOnePiece(q) ==
  offer' = [f \in Offers |->
              IF q.qty[f] = 0
              THEN offer[f]
              ELSE [offer[f] EXCEPT !.stock = @ - 1,
                                    !.active = @ /\ offer[f].stock > 1]]

\* Slip: an offer that hits zero stays on sale.
TakeStockOnly(q) ==
  offer' = [f \in Offers |-> [offer[f] EXCEPT !.stock = @ - q.qty[f]]]

\* Decrement, whatever the stock is by now; an offer that hits zero is taken
\* off sale.
TakeStock(q) ==
  offer' = [f \in Offers |->
              IF q.qty[f] = 0
              THEN offer[f]
              ELSE [offer[f] EXCEPT !.stock = @ - q.qty[f],
                                    !.active = @ /\ offer[f].stock > q.qty[f]]]

CheckoutCommit(r) ==
  LET q == req[r]
  IN /\ q.pc = "checkout"
     /\ placed < MaxCheckouts
     /\ \A f \in Offers : q.qty[f] > 0 => offer[f].row = "row"
     /\ MakeOrders(q)
     /\ placed' = placed + 1
     /\ TakeStock(q)
     /\ DeleteLines(r, {q.customer} \X Offers)
     /\ UNCHANGED supply

-----------------------------------------------------------------------------
(* Cancellation, by the customer or the store: read, check, then one       *)
(* transaction that puts the stock back and puts the offer on sale again.  *)

Cancel(r, id) ==
  /\ order[id].status = "open"
  /\ Begin(r, [pc |-> "cancel", order |-> id])

CancelCommit(r) ==
  LET id == req[r].order
  IN /\ req[r].pc = "cancel"
     /\ order' = [order EXCEPT ![id].status = "cancelled", ![id].returned = @ + 1]
     /\ offer' = [f \in Offers |->
                    IF order[id].qty[f] > 0 /\ offer[f].row = "row"
                    THEN [offer[f] EXCEPT !.stock = @ + order[id].qty[f],
                                          !.active = TRUE]
                    ELSE offer[f]]
     /\ Finish(r)
     /\ UNCHANGED <<cart, placed, supply>>

-----------------------------------------------------------------------------
(* The seller's offers.                                                    *)

CreateOffer(r, f, n, on) ==
  /\ req[r].pc = "idle"
  /\ offer[f].row = "none"
  /\ offer' = [offer EXCEPT ![f] = [row |-> "row", stock |-> n, active |-> on /\ n > 0]]
  /\ supply' = [supply EXCEPT ![f] = n]
  /\ UNCHANGED <<cart, order, placed, req>>

\* n and on are NULL where the request leaves a field out.
UpdateOffer(r, f, n, on) ==
  LET stock == IF n = NULL THEN offer[f].stock ELSE n
  IN /\ offer[f].row = "row"
     /\ Begin(r, [pc |-> "edit", offer |-> f, stock |-> n,
                  seen |-> IF n = NULL THEN NULL ELSE offer[f].stock,
                  active |-> IF on # NULL THEN on /\ stock > 0
                             ELSE stock # 0 /\ offer[f].active])

\* isActive is always written, as computed from the row read before.
WriteOffer(r) ==
  LET q == req[r]
      f == q.offer
      o == offer[f]
      stock == IF q.stock = NULL THEN o.stock ELSE q.stock
  IN /\ q.pc = "edit"
     /\ o.row = "row"
     /\ offer' = [offer EXCEPT ![f] =
                    [row |-> "row", stock |-> stock, active |-> q.active]]
     /\ supply' = [supply EXCEPT ![f] =
                      IF q.stock = NULL THEN @
                      ELSE IF @ = NULL \/ o.stock # q.seen THEN NULL
                      ELSE @ + q.stock - q.seen]
     /\ Finish(r)
     /\ UNCHANGED <<cart, order, placed>>

\* Cart rows go with the offer; order rows stay, without it.
RemoveOffer(r, f) ==
  /\ req[r].pc = "idle"
  /\ offer[f].row = "row"
  /\ offer' = [offer EXCEPT ![f] = [NoOffer EXCEPT !.row = "deleted"]]
  /\ DeleteLines(r, Customers \X {f})
  /\ UNCHANGED <<order, placed, supply>>

-----------------------------------------------------------------------------
\* A call fails, the transaction is aborted (a missing row, a deadlock, a FOOD
\* store out of reach) or the process restarts: nothing of it is written.
Die(r) ==
  /\ req[r].pc # "idle"
  /\ Finish(r)
  /\ UNCHANGED <<offer, cart, order, placed, supply>>

CustomerStep(r, u) ==
  \/ \E f \in Offers, n \in 1 .. MaxQty : AddItem(r, u, f, n) \/ UpdateItem(r, u, f, n)
  \/ \E f \in Offers : RemoveItem(r, u, f)
  \/ Clear(r, u)
  \/ CheckoutRead(r, u)

SellerStep(r, f) ==
  \/ \E n \in 0 .. MaxStock, on \in BOOLEAN : CreateOffer(r, f, n, on)
  \/ \E n \in (0 .. MaxStock) \cup {NULL}, on \in BOOLEAN \cup {NULL} : UpdateOffer(r, f, n, on)
  \/ RemoveOffer(r, f)

Write(r) ==
  UpsertItem(r) \/ SetQty(r) \/ CheckoutCommit(r) \/ CancelCommit(r) \/ WriteOffer(r)

Next ==
  \E r \in Slots :
    \/ \E u \in Customers : CustomerStep(r, u)
    \/ \E f \in Offers : SellerStep(r, f)
    \/ \E id \in OrderIds : Cancel(r, id)
    \/ Write(r)
    \/ Die(r)

Spec == Init /\ [][Next]_vars

-----------------------------------------------------------------------------
(* Properties.                                                             *)

\* The pieces of an offer that orders not yet cancelled hold.
Held(f) ==
  Cardinality(UNION {{id} \X (1 .. order[id].qty[f]) :
                       id \in {o \in OrderIds : order[o].status = "open"}})

\* However checkouts, cancellations and edits overlap or fail, no piece of an
\* offer is lost: its stock and what open orders hold are together no less than
\* its seller put up.  They are no more either, unless two cancellations of one
\* of its orders both put the pieces back.  An offer whose stock a seller's edit
\* wrote over unread has no such account.
StockBalanced ==
  \A f \in Offers :
    offer[f].row = "row" /\ supply[f] # NULL =>
      /\ offer[f].stock >= supply[f] - Held(f)
      /\ (\A id \in OrderIds : order[id].returned > 1 => order[id].qty[f] = 0) =>
           offer[f].stock = supply[f] - Held(f)

\* A checkout orders its cart whole, each line at one store: "partial checkouts
\* are not allowed".
CartOrderedWhole ==
  [][\A r \in Slots :
       CheckoutCommit(r) =>
         \A f \in Offers :
           Cardinality(UNION {{s} \X (1 .. order'[<<placed', s>>].qty[f]) : s \in Stores}) =
             req[r].qty[f]]_vars

\* No offer is sold beyond its stock (checkout validates the stock "inside a
\* single transaction").
NeverOversold == \A f \in Offers : offer[f].stock >= 0

\* An offer that ran out of stock is off sale.
SoldOutIsOffSale == \A f \in Offers : offer[f].active => offer[f].stock > 0

=============================================================================
