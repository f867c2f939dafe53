----------------------------- MODULE MCCheckout -----------------------------
(***************************************************************************)
(* Stores for the runs of Checkout: all offers in one store, or each offer *)
(* in a store of its own, so that a cart with two offers makes two orders. *)
(* Customers are alike, and so are slots.                                  *)
(***************************************************************************)
EXTENDS Checkout, TLC

CONSTANTS f1, f2, s1, s2

OneStore == [f \in Offers |-> s1]

OwnStores == f1 :> s1 @@ f2 :> s2

Alike == Permutations(Customers) \cup Permutations(Slots)

=============================================================================
