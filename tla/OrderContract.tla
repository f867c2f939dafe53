---------------------------- MODULE OrderContract ----------------------------
(***************************************************************************)
(* The order life cycle that the transition tables of the two services     *)
(* draw, with every call one indivisible step.                             *)
(*   - a customer cancels a PENDING order;                                 *)
(*   - the store follows its table with an order that nobody holds;        *)
(*   - a courier, or the dispatcher for him, takes a READY order nobody    *)
(*     holds, picks it up and delivers it, or gives it back before pickup; *)
(*   - the store may say that an order is delivered while a courier        *)
(*     carries it.  Its table has the move, the comment above the table    *)
(*     has it end with the courier's claim;                                *)
(*   - the stock of an order comes back once, when it is cancelled or      *)
(*     rejected.                                                           *)
(***************************************************************************)
EXTENDS Naturals, OrderStatus

CONSTANTS Orders, Couriers, NULL

VARIABLES status, holder, returns

vars == <<status, holder, returns>>

Init ==
  /\ status  = [o \in Orders |-> "PENDING"]
  /\ holder  = [o \in Orders |-> NULL]
  /\ returns = [o \in Orders |-> 0]

\* The status moves to s; a cancellation returns the stock in the same step.
Move(o, s) ==
  /\ status'  = [status EXCEPT ![o] = s]
  /\ returns' = [returns EXCEPT ![o] = IF s \in Cancelled THEN @ + 1 ELSE @]

CustomerCancel(o) ==
  /\ status[o] = "PENDING"
  /\ Move(o, "CANCELLED")
  /\ UNCHANGED holder

StoreMove(o, s) ==
  /\ holder[o] = NULL
  /\ <<status[o], s>> \in SellerTransitions
  /\ Move(o, s)
  /\ UNCHANGED holder

StoreEndsDelivery(o) ==
  /\ holder[o] # NULL
  /\ status[o] = "ON_WAY"
  /\ Move(o, "DELIVERED")
  /\ UNCHANGED holder

Take(o, c) ==
  /\ status[o] = "READY"
  /\ holder[o] = NULL
  /\ Move(o, "COURIER_ASSIGNED")
  /\ holder' = [holder EXCEPT ![o] = c]

CourierMove(o, s) ==
  /\ holder[o] # NULL
  /\ <<status[o], s>> \in CourierTransitions
  /\ Move(o, s)
  /\ UNCHANGED holder

GiveBack(o) ==
  /\ status[o] = "COURIER_ASSIGNED"
  /\ Move(o, "READY")
  /\ holder' = [holder EXCEPT ![o] = NULL]

Next ==
  \E o \in Orders :
    \/ CustomerCancel(o)
    \/ \E s \in Status : StoreMove(o, s) \/ CourierMove(o, s)
    \/ \E c \in Couriers : Take(o, c)
    \/ GiveBack(o) \/ StoreEndsDelivery(o)

Spec == Init /\ [][Next]_vars

=============================================================================
