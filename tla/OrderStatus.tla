----------------------------- MODULE OrderStatus -----------------------------
(***************************************************************************)
(* The OrderStatus enum, the two transition tables that guard it (the      *)
(* seller's and the courier's) and the timestamp each write sets.          *)
(***************************************************************************)

Status == {"PENDING", "ACCEPTED", "PREPARING", "READY", "COURIER_ASSIGNED",
           "ON_WAY", "DELIVERED", "CANCELLED", "REJECTED"}

\* Statuses in which an order counts as the courier's active order.
ActiveStatuses == {"COURIER_ASSIGNED", "ON_WAY"}

\* Writes of these two statuses put the ordered quantities back in stock.
Cancelled == {"CANCELLED", "REJECTED"}

Terminal == {"DELIVERED"} \cup Cancelled

\* Slip: the seller may put a READY order in a courier's hands by status alone.
SellerMayAssign ==
  {<<"PENDING", "ACCEPTED">>, <<"PENDING", "REJECTED">>,
   <<"ACCEPTED", "PREPARING">>, <<"PREPARING", "READY">>,
   <<"READY", "COURIER_ASSIGNED">>, <<"ON_WAY", "DELIVERED">>}

\* SELLER_TRANSITIONS: the moves updateStatusForStore accepts.
SellerTransitions ==
  {<<"PENDING", "ACCEPTED">>, <<"PENDING", "REJECTED">>,
   <<"ACCEPTED", "PREPARING">>, <<"ACCEPTED", "CANCELLED">>,
   <<"PREPARING", "READY">>, <<"PREPARING", "CANCELLED">>,
   <<"READY", "ON_WAY">>, <<"READY", "CANCELLED">>,
   <<"ON_WAY", "DELIVERED">>}

\* COURIER_TRANSITIONS: the moves the courier's updateStatus accepts.
CourierTransitions ==
  {<<"COURIER_ASSIGNED", "ON_WAY">>, <<"ON_WAY", "DELIVERED">>}

Stamps == {"acceptedAt", "pickedUpAt", "deliveredAt", "cancelledAt"}

\* Slip: REJECTED sets no timestamp.
StoreStampsOfCancel(s) ==
  {t \in Stamps :
     \/ s = "ACCEPTED" /\ t = "acceptedAt"
     \/ s = "DELIVERED" /\ t = "deliveredAt"
     \/ s = "CANCELLED" /\ t = "cancelledAt"}

\* The timestamp columns transitionStatus sets with a status.
StoreStamps(s) ==
  {t \in Stamps :
     \/ s = "ACCEPTED" /\ t = "acceptedAt"
     \/ s = "DELIVERED" /\ t = "deliveredAt"
     \/ s \in Cancelled /\ t = "cancelledAt"}

\* The timestamp columns the courier's updateStatus sets with a status.
CourierStamps(s) ==
  {t \in Stamps :
     \/ s = "ON_WAY" /\ t = "pickedUpAt"
     \/ s = "DELIVERED" /\ t = "deliveredAt"}

=============================================================================
