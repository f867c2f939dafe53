------------------------------ MODULE CartRows ------------------------------
(***************************************************************************)
(* The buttons a customer fills the cart with: rows of a store's menu,     *)
(* rows of the cart page, and a product's page.  They send what they have  *)
(* counted from the last cart they were answered, and every answer         *)
(* replaces that cart whole.  One row waits for its call, the others can   *)
(* be pressed; a page that is left forgets which row waits.  Checkout has  *)
(* the server's side, which is one step here.                              *)
(***************************************************************************)
EXTENDS Integers, FiniteSets

CONSTANTS
  Dishes, NoDish,
  Pieces,   \* of each dish in stock
  MaxRow,   \* bound on a row: addItem may add up to more than the stock
  MaxCart,  \* bound on the pieces of all rows
  Sends     \* calls that may be in flight

ASSUME CartRowsAssumption ==
  /\ NoDish \notin Dishes
  /\ Pieces \in Nat \ {0} /\ MaxRow \in Nat /\ Pieces <= MaxRow

VARIABLES
  spot,      \* the page: "menu", "cart" or "product"
  kept,      \* the cart's rows at the server
  basket,    \* the cart the pages show
  sent,      \* calls in flight
  rowBusy,   \* the row whose buttons wait
  waits,     \* loading: the product's button waits
  want,      \* what the presses add up to (history)
  strayed    \* calls that are not of one row met, a page was left during one,
             \* or an answer was lost (history)

cartRowVars == <<spot, kept, basket, sent, rowBusy, waits, want, strayed>>

Rows0 == [o \in Dishes |-> 0]
NoSend == [pc |-> "free", op |-> "fetch", dish |-> NoDish, qty |-> 0, rows |-> Rows0]

CartRowsTypeOK ==
  /\ spot \in {"menu", "cart", "product"}
  /\ kept \in [Dishes -> 0..MaxRow] /\ basket \in [Dishes -> 0..MaxRow]
  /\ want \in [Dishes -> 0..MaxRow]
  /\ sent \in [Sends -> [pc : {"free", "sent", "done"},
                         op : {"fetch", "add", "set", "remove", "clear"},
                         dish : Dishes \cup {NoDish}, qty : 0..MaxRow,
                         rows : [Dishes -> 0..MaxRow]]]
  /\ rowBusy \in Dishes \cup {NoDish}
  /\ waits \in BOOLEAN /\ strayed \in BOOLEAN

CartRowsInit ==
  /\ spot = "menu" /\ kept = Rows0 /\ basket = Rows0 /\ want = Rows0
  /\ sent = [a \in Sends |-> NoSend]
  /\ rowBusy = NoDish /\ waits = FALSE /\ strayed = FALSE

-----------------------------------------------------------------------------
Flying == {a \in Sends : sent[a].pc # "free"}

\* A call of the store: a row waits with its own call, others may fly.
Send(a, op, o, n) ==
  /\ sent[a].pc = "free"
  /\ sent' = [sent EXCEPT ![a] = [pc |-> "sent", op |-> op, dish |-> o, qty |-> n,
                                  rows |-> Rows0]]
  /\ waits' = TRUE
  /\ strayed' = (strayed \/ \E b \in Flying : sent[b].dish # o \/ o = NoDish)

\* What strayed is counted no more.
Wants(o, n) == want' = IF strayed' THEN Rows0 ELSE [want EXCEPT ![o] = n]

RowFree(o) == rowBusy # o

\* onAdd of a menu's row; a product with variants is opened instead.
OnAdd(a, o) ==
  /\ spot = "menu" /\ basket[o] = 0 /\ RowFree(o)
  /\ rowBusy' = o
  /\ Send(a, "add", o, 1) /\ Wants(o, want[o] + 1)
  /\ UNCHANGED <<spot, kept, basket>>

\* onStep: a row of the menu counts from what it shows.
OnStep(a, o, n) ==
  /\ spot = "menu" /\ basket[o] > 0 /\ RowFree(o)
  /\ n \in {basket[o] - 1, basket[o] + 1} /\ n <= Pieces
  /\ rowBusy' = o
  /\ Send(a, IF n < 1 THEN "remove" ELSE "set", o, n) /\ Wants(o, want[o] + n - basket[o])
  /\ UNCHANGED <<spot, kept, basket>>

\* The cart page steps down to one, and has a button to remove.
OnQtyChange(a, o, n) ==
  /\ spot = "cart" /\ basket[o] > 0 /\ RowFree(o)
  /\ \/ n = basket[o] - 1 /\ basket[o] > 1
     \/ n = basket[o] + 1 /\ basket[o] < Pieces
  /\ rowBusy' = o
  /\ Send(a, "set", o, n) /\ Wants(o, want[o] + n - basket[o])
  /\ UNCHANGED <<spot, kept, basket>>

OnRemove(a, o) ==
  /\ spot = "cart" /\ basket[o] > 0 /\ RowFree(o)
  /\ rowBusy' = o
  /\ Send(a, "remove", o, 0) /\ Wants(o, 0)
  /\ UNCHANGED <<spot, kept, basket>>

\* Behind a confirm, and behind no lock.
ClearCart(a) ==
  /\ spot = "cart" /\ \E o \in Dishes : basket[o] > 0
  /\ Send(a, "clear", NoDish, 0) /\ want' = Rows0
  /\ UNCHANGED <<spot, kept, basket, rowBusy>>

\* The product's page adds to what is there, as many as are in stock.
OnAddToCart(a, o, n) ==
  /\ spot = "product" /\ ~waits /\ n \in 1..Pieces
  /\ basket[o] + n <= MaxRow
  /\ Send(a, "add", o, n) /\ Wants(o, want[o] + n)
  /\ UNCHANGED <<spot, kept, basket, rowBusy>>

\* The cart page fetches as it opens.
Visit(a, p) ==
  /\ p # spot
  /\ spot' = p /\ rowBusy' = NoDish
  /\ IF p = "cart" THEN Send(a, "fetch", NoDish, 0)
                   ELSE strayed' = (strayed \/ Flying # {}) /\ UNCHANGED <<sent, waits>>
  /\ want' = IF strayed' THEN Rows0 ELSE want
  /\ UNCHANGED <<kept, basket>>

-----------------------------------------------------------------------------
(* The server.                                                             *)

PiecesOf(rows) == Cardinality({x \in Dishes \X (1..MaxRow) : x[2] <= rows[x[1]]})

RowsTaken(c) ==
  CASE c.op = "add"    -> c.qty <= Pieces /\ kept[c.dish] + c.qty <= MaxRow
    [] c.op = "set"    -> c.qty <= Pieces /\ kept[c.dish] > 0
    [] c.op = "remove" -> kept[c.dish] > 0
    [] OTHER           -> TRUE

RowsAfter(c) ==
  CASE c.op = "add"    -> [kept EXCEPT ![c.dish] = @ + c.qty]
    [] c.op \in {"set", "remove"} -> [kept EXCEPT ![c.dish] = c.qty]
    [] c.op = "clear"  -> Rows0
    [] OTHER           -> kept

\* The bound on the cart: beyond it a call is refused.
Takes(c) == RowsTaken(c) /\ PiecesOf(RowsAfter(c)) <= MaxCart

\* What is left of the call is its answer, and the row that waits for it.
Serve(a) ==
  /\ sent[a].pc = "sent" /\ Takes(sent[a])
  /\ kept' = RowsAfter(sent[a])
  /\ sent' = [sent EXCEPT ![a] = [NoSend EXCEPT !.pc = "done", !.dish = sent[a].dish,
                                               !.rows = RowsAfter(sent[a])]]
  /\ UNCHANGED <<spot, basket, rowBusy, waits, want, strayed>>

\* set({cart}), and finally the row is free, whichever it was; a fetch and a
\* clear are of no row.
Done(a) ==
  /\ sent' = [sent EXCEPT ![a] = NoSend]
  /\ waits' = FALSE
  /\ rowBusy' = IF sent[a].dish = NoDish THEN rowBusy ELSE NoDish
  /\ UNCHANGED <<spot, kept>>

CartShown(a) ==
  /\ sent[a].pc = "done"
  /\ basket' = sent[a].rows
  /\ Done(a)
  /\ UNCHANGED <<want, strayed>>

\* Refused: nothing changed, and the presses count no more.
CartRefused(a) ==
  /\ sent[a].pc = "sent"
  /\ Done(a)
  /\ want' = IF strayed THEN Rows0 ELSE kept
  /\ UNCHANGED <<basket, strayed>>

AnswerLost(a) ==
  /\ sent[a].pc = "done"
  /\ Done(a)
  /\ strayed' = TRUE /\ want' = Rows0
  /\ UNCHANGED basket

CartRowsNext ==
  \E a \in Sends :
    \/ ClearCart(a) \/ Serve(a) \/ CartShown(a) \/ CartRefused(a) \/ AnswerLost(a)
    \/ \E p \in {"menu", "cart", "product"} : Visit(a, p)
    \/ \E o \in Dishes :
         \/ OnAdd(a, o) \/ OnRemove(a, o)
         \/ \E n \in 0..Pieces : OnStep(a, o, n) \/ OnQtyChange(a, o, n) \/ OnAddToCart(a, o, n)

CartRowsSpec == CartRowsInit /\ [][CartRowsNext]_cartRowVars

-----------------------------------------------------------------------------
\* A page waits only for a call that is on its way.
RowsSettle == waits \/ rowBusy # NoDish => Flying # {}

\* However fast one row is pressed, the cart holds what the presses add up
\* to, and the pages show it: no press is counted twice or lost.  That ends
\* where calls of two rows meet, where a press or a clear meets the cart page's
\* own fetch, where a page is left while a call is out, and where an answer is
\* lost: there the code itself shows and sends an old cart.
PressesCount ==
  ~strayed => /\ \A a, b \in Flying : a = b
              /\ Flying = {} => kept = want /\ basket = want

=============================================================================
