------------------------------ MODULE Feedback ------------------------------
(***************************************************************************)
(* What customers leave at one product: reviews, whose count and average   *)
(* are stored with the product, and requests for it.  A form holds one     *)
(* handler in flight; pc names the call it awaits.                         *)
(***************************************************************************)
EXTENDS Naturals, FiniteSets

CONSTANTS
  Forms,        \* handlers that may be in flight at the same time
  MaxReviews,   \* bound: reviews ever begun
  MaxPresses    \* bound: presses of "I need this" ever begun

ASSUME FeedbackAssumption == MaxReviews \in Nat /\ MaxPresses \in Nat /\ IsFiniteSet(Forms)

VARIABLES
  reviews,   \* committed reviews of the product
  rating,    \* ratingCount of the product, and with it the average
  wish,      \* one customer's ProductRequest rows for it, by number
  form,      \* handlers in flight
  begun,     \* reviews and presses begun (the bound)
  latest,    \* what was done last to each kind of request (history)
  crowded    \* two handlers were in flight at the same time (history)

feedbackVars == <<reviews, rating, wish, form, begun, latest, crowded>>

-----------------------------------------------------------------------------
Wishes == 1..MaxPresses

\* A request names a store, or any; row 0 is no row.
Kinds == {"store", "any"}
WishRows == [kind : Kinds \cup {"none"}, status : {"NEW", "FULFILLED"}]
FormRows == [pc : {"idle", "review", "aggregate", "update", "bump", "press", "fulfil"},
             count : 0..MaxReviews, kind : Kinds, row : {0} \cup Wishes]
NoForm == [pc |-> "idle", count |-> 0, kind |-> "any", row |-> 0]
NoWish == [kind |-> "none", status |-> "NEW"]

RowsOf(k) == {n \in Wishes : wish[n].kind = k}

\* Types, and the unique key: one row for each store that is named.
FeedbackTypeOK ==
  /\ reviews \in 0..MaxReviews /\ rating \in 0..MaxReviews
  /\ wish \in [Wishes -> WishRows]
  /\ form \in [Forms -> FormRows]
  /\ Cardinality(RowsOf("store")) <= 1
  /\ begun \in [review : 0..MaxReviews, press : 0..MaxPresses]
  /\ latest \in [Kinds -> {"none", "press", "fulfil"}]
  /\ crowded \in BOOLEAN

FeedbackInit ==
  /\ reviews = 0 /\ rating = 0
  /\ wish = [n \in Wishes |-> NoWish]
  /\ form = [x \in Forms |-> NoForm]
  /\ begun = [review |-> 0, press |-> 0]
  /\ latest = [k \in Kinds |-> "none"]
  /\ crowded = FALSE

-----------------------------------------------------------------------------
StartForm(x, q) ==
  /\ form[x].pc = "idle"
  /\ form' = [form EXCEPT ![x] = q]
  /\ crowded' = (crowded \/ \E y \in Forms \ {x} : form[y].pc # "idle")
  /\ UNCHANGED <<reviews, rating, wish, latest>>

EndForm(x) == form' = [form EXCEPT ![x] = NoForm]

-----------------------------------------------------------------------------
(* Reviews: one transaction.  The insert keeps a shared lock on the row of *)
(* the product, which its foreign key refers to, until the end.            *)

\* The store carries the product; its images are Uploads.
WriteReview(x) ==
  /\ begun.review < MaxReviews
  /\ begun' = [begun EXCEPT !.review = @ + 1]
  /\ StartForm(x, [NoForm EXCEPT !.pc = "review"])

InsertReview(x) ==
  /\ form[x].pc = "review"
  /\ form' = [form EXCEPT ![x].pc = "aggregate"]
  /\ UNCHANGED <<reviews, rating, wish, begun, latest, crowded>>

\* Slip: the aggregate is read beside the transaction, without its own review.
AggregateBeside(x) ==
  /\ form[x].pc = "aggregate"
  /\ form' = [form EXCEPT ![x].pc = "update", ![x].count = reviews]
  /\ UNCHANGED <<reviews, rating, wish, begun, latest, crowded>>

\* The committed reviews and its own.
Aggregate(x) ==
  /\ form[x].pc = "aggregate"
  /\ form' = [form EXCEPT ![x].pc = "update", ![x].count = reviews + 1]
  /\ UNCHANGED <<reviews, rating, wish, begun, latest, crowded>>

\* The update waits for every other shared lock; two that wait for each other
\* are a deadlock, and one of them dies.
UpdateRating(x) ==
  /\ form[x].pc = "update"
  /\ \A y \in Forms \ {x} : form[y].pc \notin {"aggregate", "update"}
  /\ reviews' = reviews + 1
  /\ rating' = form[x].count
  /\ EndForm(x)
  /\ UNCHANGED <<wish, begun, latest, crowded>>

-----------------------------------------------------------------------------
(* Requests: a look for the row, then an update or a create.               *)

\* Slip: a press that names no store looks for a row under its unique key, which
\* null does not have.
RequestByKey(x, k) ==
  /\ begun.press < MaxPresses
  /\ begun' = [begun EXCEPT !.press = @ + 1]
  /\ IF k = "any" \/ RowsOf(k) = {}
     THEN StartForm(x, [NoForm EXCEPT !.pc = "press", !.kind = k])
     ELSE \E n \in RowsOf(k) :
            StartForm(x, [NoForm EXCEPT !.pc = "bump", !.kind = k, !.row = n])

RequestProduct(x, k) ==
  /\ begun.press < MaxPresses
  /\ begun' = [begun EXCEPT !.press = @ + 1]
  /\ IF RowsOf(k) = {}
     THEN StartForm(x, [NoForm EXCEPT !.pc = "press", !.kind = k])
     ELSE \E n \in RowsOf(k) :
            StartForm(x, [NoForm EXCEPT !.pc = "bump", !.kind = k, !.row = n])

Fulfilled(n) == wish[n].status = "FULFILLED"

\* The status it read decides, and either way it becomes NEW: nothing sets
\* another one.
Bump(x) ==
  LET q == form[x]
  IN /\ q.pc = "bump"
     /\ wish' = [wish EXCEPT ![q.row].status = "NEW"]
     /\ latest' = [latest EXCEPT ![q.kind] = "press"]
     /\ EndForm(x)
     /\ UNCHANGED <<reviews, rating, begun, crowded>>

\* A second row for a store fails its key; null, any store, is never a double.
CreateWish(x) ==
  LET q == form[x]
  IN /\ q.pc = "press"
     /\ IF q.kind = "store" /\ RowsOf("store") # {}
        THEN UNCHANGED <<wish, latest>>
        ELSE /\ \E n \in Wishes :
                  /\ wish[n] = NoWish /\ \A m \in Wishes : m < n => wish[m] # NoWish
                  /\ wish' = [wish EXCEPT ![n].kind = q.kind]
             /\ latest' = [latest EXCEPT ![q.kind] = "press"]
     /\ EndForm(x)
     /\ UNCHANGED <<reviews, rating, begun, crowded>>

\* The store's owner, or any seller when no store is named; whatever its status.
MarkFulfilled(x, n) ==
  /\ wish[n] # NoWish
  /\ StartForm(x, [NoForm EXCEPT !.pc = "fulfil", !.kind = wish[n].kind, !.row = n])
  /\ UNCHANGED begun

Fulfil(x) ==
  LET q == form[x]
  IN /\ q.pc = "fulfil"
     /\ wish' = [wish EXCEPT ![q.row].status = "FULFILLED"]
     /\ latest' = [latest EXCEPT ![q.kind] = "fulfil"]
     /\ EndForm(x)
     /\ UNCHANGED <<reviews, rating, begun, crowded>>

FormDies(x) ==
  /\ form[x].pc # "idle"
  /\ EndForm(x)
  /\ UNCHANGED <<reviews, rating, wish, begun, latest, crowded>>

FeedbackNext ==
  \E x \in Forms :
    \/ WriteReview(x) \/ InsertReview(x) \/ Aggregate(x) \/ UpdateRating(x)
    \/ \E k \in Kinds : RequestProduct(x, k)
    \/ \E n \in Wishes : MarkFulfilled(x, n)
    \/ Bump(x) \/ CreateWish(x) \/ Fulfil(x) \/ FormDies(x)

FeedbackSpec == FeedbackInit /\ [][FeedbackNext]_feedbackVars

-----------------------------------------------------------------------------
\* The stored rating is the one of all reviews there are, however the
\* transactions of several reviews overlap.
RatingIsExact == rating = reviews

\* However presses of one button overlap, they leave no more rows than handlers
\* may be in flight: who finds a row never makes another, so what an overlap
\* doubled does not grow with the presses that follow.
RequestsBounded == \A k \in Kinds : Cardinality(RowsOf(k)) <= Cardinality(Forms)

\* As long as handlers do not overlap, a customer has one request of a kind,
\* and it is fulfilled exactly when the seller was the last to touch it: a
\* customer who asks again opens it again.
RequestsStand ==
  ~crowded => \A k \in Kinds :
    /\ Cardinality(RowsOf(k)) <= 1
    /\ \A n \in RowsOf(k) : Fulfilled(n) <=> latest[k] = "fulfil"

=============================================================================
