----------------------------- MODULE MCContracts -----------------------------
(***************************************************************************)
(* Model values for the runs of Contracts; couriers are alike, and so are  *)
(* slots.                                                                  *)
(***************************************************************************)
EXTENDS Contracts, TLC

Alike == Permutations(Couriers) \cup Permutations(Slots)

=============================================================================
