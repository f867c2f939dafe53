-------------------------- MODULE MCOrderLifecycle --------------------------
(***************************************************************************)
(* Model values for the runs of OrderLifecycle.  Couriers are alike, and   *)
(* so are slots and orders: the safety runs use that.                      *)
(***************************************************************************)
EXTENDS OrderLifecycle, TLC

Alike == Permutations(Couriers) \cup Permutations(Slots) \cup Permutations(Orders)

=============================================================================
