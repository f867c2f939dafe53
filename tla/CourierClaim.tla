---------------------------- MODULE CourierClaim ----------------------------
(***************************************************************************)
(* What the claim on an order promises, whatever handlers overlap: the     *)
(* claim is a lock.  A courier takes an order nobody holds, his cut of the *)
(* fee is fixed at that moment, and the order passes to somebody else only *)
(* after the claim and the cut were dropped together.                      *)
(***************************************************************************)

CONSTANTS Orders, Couriers, Earnings, NULL

VARIABLES holder, pay

vars == <<holder, pay>>

Init ==
  /\ holder = [o \in Orders |-> NULL]
  /\ pay    = [o \in Orders |-> NULL]

Take(o, c, e) ==
  /\ holder[o] = NULL
  /\ holder' = [holder EXCEPT ![o] = c]
  /\ pay'    = [pay EXCEPT ![o] = e]

Drop(o) ==
  /\ holder[o] # NULL
  /\ holder' = [holder EXCEPT ![o] = NULL]
  /\ pay'    = [pay EXCEPT ![o] = NULL]

Next ==
  \E o \in Orders :
    \/ \E c \in Couriers, e \in Earnings : Take(o, c, e)
    \/ Drop(o)

Spec == Init /\ [][Next]_vars

=============================================================================
