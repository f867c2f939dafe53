---------------------------- MODULE CheckoutPage ----------------------------
(***************************************************************************)
(* A customer's pages against the server's cart: the cart store, which     *)
(* shows whatever answer came last, the address and its quote, and the     *)
(* submit whose answer may be lost.  The cart is a number of pieces.       *)
(***************************************************************************)
EXTENDS Integers

CONSTANTS
  Addresses, NoAddress,
  CartCalls,   \* calls of the cart store that may be in flight
  MaxPieces    \* bound: pieces the customer adds

ASSUME PageAssumption == NoAddress \notin Addresses /\ MaxPieces \in Nat

VARIABLES
  cart,      \* pieces in the server's cart
  added,     \* pieces the customer ever added (history)
  ordered,   \* pieces ordered (history)
  shown,     \* the store's cart, -1 before the first answer
  answer,    \* answers of cart calls on their way
  selected,  \* the chosen address
  quote,     \* the address of the quote on display
  loading,   \* quoteLoading
  asks,      \* quote requests in flight and whether their effect still lives
  submit     \* the checkout call: where it is and the pieces it read

quoteVars == <<selected, quote, loading, asks>>
pageVars == <<cart, added, ordered, shown, answer, quoteVars, submit>>

-----------------------------------------------------------------------------
Requests == [address : Addresses, live : BOOLEAN]
NoAnswer == -1
Lost == -2

\* Types; at most one quote request has not been cancelled.
PageTypeOK ==
  /\ cart \in 0..MaxPieces /\ added \in 0..MaxPieces /\ ordered \in Nat
  /\ shown \in -1..MaxPieces
  /\ answer \in [CartCalls -> -2..MaxPieces]
  /\ selected \in Addresses \cup {NoAddress}
  /\ quote \in Addresses \cup {NoAddress}
  /\ loading \in BOOLEAN
  /\ asks \subseteq Requests
  /\ \A q, r \in asks : q.live /\ r.live => q = r
  /\ submit \in [pc : {"idle", "asked", "read", "done"}, pieces : 0..MaxPieces]

PageInit ==
  /\ cart = 0 /\ added = 0 /\ ordered = 0
  /\ shown = -1
  /\ answer = [k \in CartCalls |-> NoAnswer]
  /\ selected = NoAddress /\ quote = NoAddress
  /\ loading = FALSE
  /\ asks = {}
  /\ submit = [pc |-> "idle", pieces |-> 0]

-----------------------------------------------------------------------------
(* The cart store.                                                         *)

Free(k) == answer[k] = NoAnswer

\* The server did it; its answer, or the news of its loss, is on the way.
Replied(k, pieces) == answer' \in {[answer EXCEPT ![k] = a] : a \in {pieces, Lost}}

FetchCart(k) ==
  /\ Free(k)
  /\ Replied(k, cart)
  /\ UNCHANGED <<cart, added, ordered, shown, quoteVars, submit>>

AddPiece(k) ==
  /\ Free(k) /\ added < MaxPieces
  /\ cart' = cart + 1 /\ added' = added + 1
  /\ Replied(k, cart + 1)
  /\ UNCHANGED <<ordered, shown, quoteVars, submit>>

RemovePiece(k) ==
  /\ Free(k) /\ cart > 0
  /\ cart' = cart - 1
  /\ Replied(k, cart - 1)
  /\ UNCHANGED <<added, ordered, shown, quoteVars, submit>>

\* The quote's effect: its cleanup cancels the request in flight.
Requote(address, pieces) ==
  LET cancelled == {[q EXCEPT !.live = FALSE] : q \in asks}
  IN IF address = NoAddress \/ pieces <= 0
     THEN /\ asks' = cancelled /\ quote' = NoAddress /\ UNCHANGED loading
     ELSE /\ asks' = cancelled \cup {[address |-> address, live |-> TRUE]}
          /\ loading' = TRUE /\ UNCHANGED quote

CartAnswered(k) ==
  /\ ~Free(k)
  /\ answer' = [answer EXCEPT ![k] = NoAnswer]
  /\ shown' = IF answer[k] = Lost THEN shown ELSE answer[k]
  /\ IF shown' = shown \/ (shown' <= 0 /\ shown <= 0)
     THEN UNCHANGED <<quote, loading, asks>>
     ELSE Requote(selected, shown')
  /\ UNCHANGED <<cart, added, ordered, selected, submit>>

-----------------------------------------------------------------------------
(* The address and its quote.                                              *)

SelectAddress(a) ==
  /\ selected # a
  /\ selected' = a
  /\ Requote(a, shown)
  /\ UNCHANGED <<cart, added, ordered, shown, answer, submit>>

\* An error clears the quote.
QuoteAnswered(q) ==
  /\ q \in asks
  /\ asks' = asks \ {q}
  /\ IF q.live THEN quote' \in {q.address, NoAddress} /\ loading' = FALSE
     ELSE UNCHANGED <<quote, loading>>
  /\ UNCHANGED <<cart, added, ordered, shown, answer, selected, submit>>

-----------------------------------------------------------------------------
(* Submit.                                                                 *)

OnSubmit ==
  /\ submit.pc = "idle"
  /\ selected # NoAddress /\ shown > 0 /\ ~loading
  /\ submit' = [submit EXCEPT !.pc = "asked"]
  /\ UNCHANGED <<cart, added, ordered, shown, answer, quoteVars>>

CheckoutReads ==
  /\ submit.pc = "asked"
  /\ submit' = IF cart = 0 THEN [submit EXCEPT !.pc = "done"]
               ELSE [pc |-> "read", pieces |-> cart]
  /\ UNCHANGED <<cart, added, ordered, shown, answer, quoteVars>>

\* The transaction makes the orders and empties the cart, or nothing.
CheckoutCommits ==
  /\ submit.pc = "read"
  /\ \/ ordered' = ordered + submit.pieces /\ cart' = 0
     \/ UNCHANGED <<ordered, cart>>
  /\ submit' = [pc |-> "done", pieces |-> 0]
  /\ UNCHANGED <<added, shown, answer, quoteVars>>

\* On success the cart is fetched again; a lost answer leaves the page as it
\* was and the customer may press the button once more.
Submitted ==
  /\ submit.pc = "done"
  /\ submit' = [submit EXCEPT !.pc = "idle"]
  /\ UNCHANGED <<cart, added, ordered, shown, answer, quoteVars>>

PageNext ==
  \/ \E k \in CartCalls : FetchCart(k) \/ AddPiece(k) \/ RemovePiece(k) \/ CartAnswered(k)
  \/ \E a \in Addresses : SelectAddress(a)
  \/ \E q \in asks : QuoteAnswered(q)
  \/ OnSubmit \/ CheckoutReads \/ CheckoutCommits \/ Submitted

PageSpec == PageInit /\ [][PageNext]_pageVars

-----------------------------------------------------------------------------
\* The fee the customer confirms belongs to the address he chose: however the
\* answers of quotes arrive, a finished quote is one for that address.
QuoteIsForSelected == quote # NoAddress /\ ~loading => quote = selected

\* No piece is ordered twice: a customer who submits again because the answer
\* to his first checkout was lost finds the cart empty.  (A retry that
\* overlaps the first checkout on the server is Checkout's matter.)
OrderedOnce == ordered + cart <= added

\* The page sells what it shows, once.
PageIsTrue == QuoteIsForSelected /\ OrderedOnce

=============================================================================
