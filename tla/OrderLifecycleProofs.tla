------------------------ MODULE OrderLifecycleProofs ------------------------
(***************************************************************************)
(* Theorems about OrderLifecycle, for any sets of orders, couriers and     *)
(* overlapping handlers, with or without failures.                         *)
(***************************************************************************)
EXTENDS OrderLifecycle, TLAPS

-----------------------------------------------------------------------------
(* The transition tables and the timestamps they go with.                  *)

\* The seller's table never leads to PENDING or COURIER_ASSIGNED and the
\* courier's only to ON_WAY and DELIVERED.
LEMMA TableRange ==
  ASSUME NEW s, NEW t
  PROVE  /\ <<s, t>> \in SellerTransitions =>
              t \in Status \ {"PENDING", "COURIER_ASSIGNED"}
         /\ <<s, t>> \in CourierTransitions => t \in {"ON_WAY", "DELIVERED"}
  BY DEF SellerTransitions, CourierTransitions, Status

\* Every status sets known timestamps; a cancellation sets cancelledAt.
LEMMA StampRange ==
  ASSUME NEW s \in Status
  PROVE  /\ StoreStamps(s) \subseteq Stamps
         /\ CourierStamps(s) \subseteq Stamps
         /\ s \in Cancelled => "cancelledAt" \in StoreStamps(s)
  BY DEF StoreStamps, CourierStamps, Stamps, Cancelled, Status

-----------------------------------------------------------------------------
(* Type correctness.                                                       *)

\* The initial rows and idle slots have their types.
LEMMA InitType == Init => TypeOK
  BY DEF Init, TypeOK, HandlerOK, OrderRows, ContractRows, Requests, NoRequest,
         PCs, Status

\* An arriving request puts a well-formed handler in its slot.
LEMMA ArriveType ==
  ASSUME TypeOK, NEW r \in Slots, Arrive(r)
  PROVE  TypeOK'
  <1> USE DEF TypeOK, HandlerOK, Begin, Requests, PCs, Earnings
  <1>1. PICK o \in Orders :
          \/ CancelMine(r, o)
          \/ \E s \in Status : UpdateStatusForStore(r, o, s)
          \/ \E c \in Couriers :
               \/ AssignCourierForStore(r, o, c)
               \/ Accept(r, o, c)
               \/ \E s \in Status : UpdateStatus(r, o, c, s)
               \/ Release(r, o, c)
    BY DEF Arrive
  <1>2. order[o].status \in Status
    BY DEF OrderRows
  <1>3. CASE CancelMine(r, o)
    BY <1>3 DEF CancelMine, Status
  <1>4. CASE \E s \in Status : UpdateStatusForStore(r, o, s)
    <2>1. PICK s \in Status : UpdateStatusForStore(r, o, s)
      BY <1>4
    <2>2. s \notin {"PENDING", "COURIER_ASSIGNED"}
      BY <1>2, <2>1, TableRange DEF UpdateStatusForStore
    <2> QED
      BY <2>1, <2>2 DEF UpdateStatusForStore
  <1>5. ASSUME NEW c \in Couriers, AssignCourierForStore(r, o, c)
        PROVE  TypeOK'
    BY <1>5 DEF AssignCourierForStore, Status
  <1>6. ASSUME NEW c \in Couriers, Accept(r, o, c)
        PROVE  TypeOK'
    BY <1>6 DEF Accept, Earning, Status
  <1>7. ASSUME NEW c \in Couriers, NEW s \in Status, UpdateStatus(r, o, c, s)
        PROVE  TypeOK'
    <2>1. s \in {"ON_WAY", "DELIVERED"}
      BY <1>2, <1>7, TableRange DEF UpdateStatus
    <2> QED
      BY <1>7, <2>1 DEF UpdateStatus
  <1>8. ASSUME NEW c \in Couriers, Release(r, o, c)
        PROVE  TypeOK'
    BY <1>8 DEF Release, Status
  <1> QED
    BY <1>1, <1>3, <1>4, <1>5, <1>6, <1>7, <1>8

\* Moving on to another call that needs no more values keeps a handler typed.
LEMMA GotoType ==
  ASSUME TypeOK, NEW r \in Slots, req[r].pc # "idle",
         NEW pc \in PCs \ {"transition", "deliver", "claim", "accept"},
         pc \in {"dispatch", "pick"} => req[r].next = "READY",
         Goto(r, pc)
  PROVE  /\ req' \in [Slots -> Requests]
         /\ \A t \in Slots : HandlerOK(req[t])'
  BY DEF TypeOK, HandlerOK, Goto, Requests, PCs

\* So does leaving the slot.
LEMMA FinishType ==
  ASSUME TypeOK, NEW r \in Slots, Finish(r)
  PROVE  /\ req' \in [Slots -> Requests]
         /\ \A t \in Slots : HandlerOK(req[t])'
  BY DEF TypeOK, HandlerOK, Finish, Requests, NoRequest, PCs

\* A chosen courier and his cut of the fee make a well-formed claim.
LEMMA ClaimType ==
  ASSUME TypeOK, NEW r \in Slots, req[r].pc = "pick", NEW c \in Couriers,
         req' = [req EXCEPT ![r].pc = "claim", ![r].courier = c,
                            ![r].earning = Earning(c)]
  PROVE  /\ req' \in [Slots -> Requests]
         /\ \A t \in Slots : HandlerOK(req[t])'
  <1> DEFINE q == [req[r] EXCEPT !.pc = "claim", !.courier = c, !.earning = Earning(c)]
  <1>1. Earning(c) \in Earnings
    BY DEF Earning, Earnings
  <1>2. q \in Requests /\ HandlerOK(q)
    BY <1>1 DEF TypeOK, HandlerOK, Requests, PCs
  <1>3. req' = [req EXCEPT ![r] = q]
    BY DEF TypeOK, Requests
  <1> HIDE DEF q
  <1> QED
    BY <1>2, <1>3 DEF TypeOK

\* A row stays a row when it is claimed, released or moved to a status.
LEMMA RowType ==
  ASSUME NEW row \in OrderRows
  PROVE  /\ \A c \in Couriers, e \in Earnings :
              [row EXCEPT !.status = "COURIER_ASSIGNED", !.courierId = c,
                          !.earning = e] \in OrderRows
         /\ [row EXCEPT !.status = "READY", !.courierId = NULL,
                        !.earning = NULL] \in OrderRows
         /\ \A s \in Status, t \in SUBSET Stamps :
              [row EXCEPT !.status = s, !.stamps = t] \in OrderRows
  <1>1. {"COURIER_ASSIGNED", "READY"} \subseteq Status
    BY DEF Status
  <1> QED
    BY <1>1 DEF OrderRows

\* A handler that may claim writes a row.
LEMMA ClaimOrderType ==
  ASSUME TypeOK, NEW r \in Slots, req[r].pc \in {"claim", "accept"}, ClaimOrder(r)
  PROVE  order' \in [Orders -> OrderRows]
  <1> DEFINE o == req[r].order
             new == [order[o] EXCEPT !.status = "COURIER_ASSIGNED",
                                     !.courierId = req[r].courier,
                                     !.earning = req[r].earning]
  <1>1. o \in Orders /\ req[r].courier \in Couriers /\ req[r].earning \in Earnings
    BY DEF TypeOK, HandlerOK
  <1>2. order[o] \in OrderRows
    BY <1>1 DEF TypeOK
  <1>3. new \in OrderRows
    BY <1>1, <1>2, RowType
  <1>4. order' = [order EXCEPT ![o] = new]
    BY DEF ClaimOrder
  <1> HIDE DEF new, o
  <1> QED
    BY <1>3, <1>4 DEF TypeOK

\* So does one that moves an order to a status.
LEMMA WriteOrderType ==
  ASSUME TypeOK, NEW o \in Orders, NEW s \in Status, NEW t \in SUBSET Stamps,
         WriteOrder(o, s, t)
  PROVE  order' \in [Orders -> OrderRows]
  <1> DEFINE new == [order[o] EXCEPT !.status = s, !.stamps = @ \cup t]
  <1>1. order[o].stamps \cup t \in SUBSET Stamps /\ order[o] \in OrderRows
    BY DEF TypeOK, OrderRows
  <1>2. new \in OrderRows
    BY <1>1, RowType
  <1>3. order' = [order EXCEPT ![o] = new]
    BY DEF WriteOrder, TypeOK, OrderRows
  <1> HIDE DEF new
  <1> QED
    BY <1>2, <1>3 DEF TypeOK

\* The calls of the seller's and the dispatcher's handlers keep the types.
LEMMA StoreStepType ==
  ASSUME TypeOK, NEW r \in Slots, StoreStep(r)
  PROVE  TypeOK'
  <1>1. CASE TransitionStatus(r)
    <2> DEFINE o == req[r].order
               s == req[r].next
    <2>1. o \in Orders /\ s \in Status /\ req[r].pc # "idle"
      BY <1>1 DEF TransitionStatus, TypeOK, HandlerOK
    <2>2. order' \in [Orders -> OrderRows]
      BY <1>1, <2>1, WriteOrderType, StampRange DEF TransitionStatus
    <2>3. returns' \in [Orders -> Nat] /\ lastRow' \in [Orders -> Status]
      BY <1>1, <2>1 DEF TransitionStatus, TypeOK
    <2>4. /\ req' \in [Slots -> Requests]
          /\ \A t \in Slots : HandlerOK(req[t])'
      BY <1>1, <2>1, GotoType DEF TransitionStatus, PCs
    <2> QED
      BY <1>1, <2>2, <2>3, <2>4 DEF TransitionStatus, TypeOK
  <1>2. CASE DispatchRead(r)
    <2>1. CASE InPool(req[r].order)
      BY <1>2, <2>1, GotoType DEF DispatchRead, TypeOK, HandlerOK, PCs
    <2>2. CASE ~InPool(req[r].order)
      BY <1>2, <2>2, GotoType DEF DispatchRead, TypeOK, PCs
    <2> QED
      BY <2>1, <2>2
  <1>3. CASE PickAvailableCourier(r)
    <2>1. CASE Goto(r, "notify")
      BY <1>3, <2>1, GotoType DEF PickAvailableCourier, TypeOK, PCs
    <2>2. ASSUME NEW c \in Couriers,
                 req' = [req EXCEPT ![r].pc = "claim", ![r].courier = c,
                                    ![r].earning = Earning(c)]
          PROVE  TypeOK'
      BY <1>3, <2>2, ClaimType DEF PickAvailableCourier, TypeOK
    <2> QED
      BY <1>3, <2>1, <2>2 DEF PickAvailableCourier, FreeCouriers
  <1>4. CASE CheckAssignee(r)
    BY <1>4, FinishType
    DEF CheckAssignee, TypeOK, HandlerOK, Requests, PCs, Earning, Earnings
  <1>5. CASE ClaimWins(r)
    <2>1. order' \in [Orders -> OrderRows]
      BY <1>5, ClaimOrderType DEF ClaimWins
    <2> QED
      BY <1>5, <2>1, GotoType DEF ClaimWins, TypeOK, PCs
  <1>6. CASE ClaimLoses(r)
    BY <1>6, GotoType, FinishType DEF ClaimLoses, TypeOK, PCs
  <1>7. CASE ClaimRow(r)
    BY <1>7, GotoType DEF ClaimRow, TypeOK, PCs, Status
  <1> QED
    BY <1>1, <1>2, <1>3, <1>4, <1>5, <1>6, <1>7 DEF StoreStep

\* The calls of the courier's handlers keep the types.
LEMMA CourierStepType ==
  ASSUME TypeOK, NEW r \in Slots, CourierStep(r)
  PROVE  TypeOK'
  <1>1. CASE AcceptWins(r)
    <2>1. order' \in [Orders -> OrderRows]
      BY <1>1, ClaimOrderType DEF AcceptWins
    <2>2. lastRow' \in [Orders -> Status]
      BY <1>1 DEF AcceptWins, TypeOK, Status
    <2> QED
      BY <1>1, <2>1, <2>2, GotoType DEF AcceptWins, TypeOK, PCs
  <1>2. CASE AcceptLoses(r)
    BY <1>2, FinishType DEF AcceptLoses, TypeOK
  <1>3. CASE EnsureTemporaryContract(r)
    BY <1>3, GotoType DEF EnsureTemporaryContract, TypeOK, PCs, ContractRows
  <1>4. CASE DeliveryWrite(r)
    <2>1. req[r].order \in Orders /\ req[r].next \in Status
      BY <1>4 DEF DeliveryWrite, TypeOK, HandlerOK
    <2>2. order' \in [Orders -> OrderRows]
      BY <1>4, <2>1, WriteOrderType, StampRange DEF DeliveryWrite
    <2> QED
      BY <1>4, <2>1, <2>2, GotoType DEF DeliveryWrite, TypeOK, PCs
  <1>5. CASE ReleaseWrite(r)
    <2> DEFINE new == [order[req[r].order] EXCEPT !.status = "READY", !.courierId = NULL,
                                                  !.earning = NULL]
    <2>1. req[r].order \in Orders
      BY <1>5 DEF ReleaseWrite, TypeOK, HandlerOK
    <2>2. new \in OrderRows
      BY <2>1, RowType DEF TypeOK
    <2>3. order' = [order EXCEPT ![req[r].order] = new]
      BY <1>5 DEF ReleaseWrite
    <2> HIDE DEF new
    <2>4. order' \in [Orders -> OrderRows]
      BY <2>2, <2>3 DEF TypeOK
    <2>5. lastRow' \in [Orders -> Status]
      BY <1>5 DEF ReleaseWrite, TypeOK, Status
    <2> QED
      BY <1>5, <2>4, <2>5, FinishType DEF ReleaseWrite, TypeOK
  <1> QED
    BY <1>1, <1>2, <1>3, <1>4, <1>5 DEF CourierStep

\* Every step keeps the types.
LEMMA NextType ==
  ASSUME TypeOK, [Next]_vars
  PROVE  TypeOK'
  <1>1. ASSUME NEW r \in Slots, StatusChanged(r)
        PROVE  TypeOK'
    BY <1>1, FinishType DEF StatusChanged, TypeOK, HandlerOK
  <1>2. ASSUME NEW r \in Slots, CallFails(r)
        PROVE  TypeOK'
    BY <1>2, GotoType DEF CallFails, TypeOK, PCs
  <1>3. ASSUME NEW r \in Slots, Die(r)
        PROVE  TypeOK'
    BY <1>3, FinishType DEF Die, TypeOK
  <1>4. ASSUME NEW c \in Couriers, ContractChange(c)
        PROVE  TypeOK'
    BY <1>4 DEF ContractChange, TypeOK, ContractRows
  <1>5. CASE UNCHANGED vars
    BY <1>5 DEF vars, TypeOK
  <1> QED
    BY <1>1, <1>2, <1>3, <1>4, <1>5, ArriveType, StoreStepType, CourierStepType
    DEF Next, Step

\* Rows and handlers keep their types, and a handler past its reads carries
\* what it will write, however many handlers overlap and wherever they fail.
THEOREM TypeCorrect == Spec => []TypeOK
  BY InitType, NextType, PTL DEF Spec

-----------------------------------------------------------------------------
(* The invariants of the order row.                                        *)

\* Only these calls write the rows the invariants are about.
RowStep(r) ==
  \/ TransitionStatus(r) \/ ClaimWins(r) \/ ClaimRow(r)
  \/ AcceptWins(r) \/ DeliveryWrite(r) \/ ReleaseWrite(r)

\* Every other step leaves the order rows, the stock and the history alone.
LEMMA OtherStepsKeepRows ==
  ASSUME [Next]_vars
  PROVE  \/ \E r \in Slots : RowStep(r)
         \/ UNCHANGED <<order, returns, lastRow>>
  <1>1. CASE UNCHANGED vars
    BY <1>1 DEF vars
  <1>2. ASSUME NEW c \in Couriers, ContractChange(c)
        PROVE  UNCHANGED <<order, returns, lastRow>>
    BY <1>2 DEF ContractChange
  <1>3. ASSUME NEW r \in Slots, Arrive(r)
        PROVE  UNCHANGED <<order, returns, lastRow>>
    BY <1>3 DEF Arrive, CancelMine, UpdateStatusForStore, AssignCourierForStore,
                Accept, UpdateStatus, Release, Begin
  <1>4. ASSUME NEW r \in Slots, StoreStep(r)
        PROVE  RowStep(r) \/ UNCHANGED <<order, returns, lastRow>>
    BY <1>4 DEF StoreStep, RowStep, DispatchRead, PickAvailableCourier,
                CheckAssignee, ClaimLoses
  <1>5. ASSUME NEW r \in Slots, CourierStep(r)
        PROVE  RowStep(r) \/ UNCHANGED <<order, returns, lastRow>>
    BY <1>5 DEF CourierStep, RowStep, AcceptLoses, EnsureTemporaryContract
  <1>6. ASSUME NEW r \in Slots, StatusChanged(r) \/ CallFails(r) \/ Die(r)
        PROVE  UNCHANGED <<order, returns, lastRow>>
    BY <1>6 DEF StatusChanged, CallFails, Die
  <1> QED
    BY <1>1, <1>2, <1>3, <1>4, <1>5, <1>6 DEF Next, Step

\* A claim, dispatched or accepted, finds the order in the pool, gives it a
\* courier and a cut of the fee, and touches no other order.
LEMMA ClaimEffect ==
  ASSUME TypeOK, NEW r \in Slots, ClaimWins(r) \/ AcceptWins(r)
  PROVE  /\ req[r].order \in Orders
         /\ req[r].courier \in Couriers
         /\ req[r].earning \in Earnings
         /\ InPool(req[r].order)
         /\ order'[req[r].order].status = "COURIER_ASSIGNED"
         /\ order'[req[r].order].courierId = req[r].courier
         /\ order'[req[r].order].earning = req[r].earning
         /\ \A p \in Orders : p # req[r].order => order'[p] = order[p]
         /\ returns' = returns
         /\ \A p \in Orders : p # req[r].order => lastRow'[p] = lastRow[p]
         /\ lastRow'[req[r].order] \in {lastRow[req[r].order], "COURIER_ASSIGNED"}
  <1>1. /\ req[r].order \in Orders
        /\ InPool(req[r].order)
        /\ req[r].courier \in Couriers
        /\ req[r].earning \in Earnings
        /\ ClaimOrder(r)
    BY DEF ClaimWins, AcceptWins, TypeOK, HandlerOK
  <1>2. /\ order'[req[r].order].status = "COURIER_ASSIGNED"
        /\ order'[req[r].order].courierId = req[r].courier
        /\ order'[req[r].order].earning = req[r].earning
        /\ \A p \in Orders : p # req[r].order => order'[p] = order[p]
    BY <1>1 DEF ClaimOrder, TypeOK, OrderRows
  <1>3. returns' = returns
    BY DEF ClaimWins, AcceptWins
  <1>4. /\ \A p \in Orders : p # req[r].order => lastRow'[p] = lastRow[p]
        /\ lastRow'[req[r].order] \in {lastRow[req[r].order], "COURIER_ASSIGNED"}
    BY <1>1 DEF ClaimWins, AcceptWins, TypeOK
  <1> QED
    BY <1>1, <1>2, <1>3, <1>4

\* The columns of a claim change together in every write.
LEMMA ClaimColumnsStep ==
  ASSUME TypeOK, ClaimColumnsAgree, [Next]_vars
  PROVE  ClaimColumnsAgree'
  <1> USE DEF ClaimColumnsAgree
  <1>1. ASSUME NEW r \in Slots, TransitionStatus(r)
        PROVE  ClaimColumnsAgree'
    BY <1>1 DEF TransitionStatus, WriteOrder, TypeOK, HandlerOK, OrderRows
  <1>2. ASSUME NEW r \in Slots, ClaimWins(r) \/ AcceptWins(r)
        PROVE  ClaimColumnsAgree'
    <2>1. /\ order'[req[r].order].courierId # NULL
          /\ order'[req[r].order].earning # NULL
      BY <1>2, ClaimEffect, NullAssumption DEF Earnings
    <2>2. \A p \in Orders : p # req[r].order =>
            /\ order'[p] = order[p]
            /\ returns'[p] = returns[p]
            /\ lastRow'[p] = lastRow[p]
      BY <1>2, ClaimEffect
    <2> QED
      BY <2>1, <2>2
  <1>3. ASSUME NEW r \in Slots, DeliveryWrite(r)
        PROVE  ClaimColumnsAgree'
    BY <1>3 DEF DeliveryWrite, WriteOrder, TypeOK, HandlerOK, OrderRows
  <1>4. ASSUME NEW r \in Slots, ReleaseWrite(r)
        PROVE  ClaimColumnsAgree'
    BY <1>4 DEF ReleaseWrite, TypeOK, OrderRows
  <1>5. ASSUME NEW r \in Slots, ClaimRow(r)
        PROVE  ClaimColumnsAgree'
    BY <1>5 DEF ClaimRow
  <1>6. CASE UNCHANGED <<order, returns, lastRow>>
    BY <1>6
  <1> QED
    BY <1>1, <1>2, <1>3, <1>4, <1>5, <1>6, OtherStepsKeepRows DEF RowStep

\* A cancelled row was written by transitionStatus, with stock and timestamp.
LEMMA CancelledStep ==
  ASSUME TypeOK, CancelledIsSettled, [Next]_vars
  PROVE  CancelledIsSettled'
  <1> USE DEF CancelledIsSettled
  <1>1. ASSUME NEW r \in Slots, TransitionStatus(r)
        PROVE  CancelledIsSettled'
    <2> DEFINE o == req[r].order
               s == req[r].next
    <2>1. o \in Orders /\ s \in Status
      BY <1>1 DEF TransitionStatus, TypeOK, HandlerOK
    <2>2. s \in Cancelled =>
            returns'[o] > 0 /\ "cancelledAt" \in order'[o].stamps
      BY <1>1, <2>1, StampRange DEF TransitionStatus, WriteOrder, TypeOK, OrderRows
    <2>3. order'[o].status = s
      BY <1>1, <2>1 DEF TransitionStatus, WriteOrder, TypeOK, OrderRows
    <2>4. \A p \in Orders \ {o} : order'[p] = order[p] /\ returns'[p] = returns[p]
      BY <1>1, <2>1 DEF TransitionStatus, WriteOrder, TypeOK
    <2> QED
      BY <2>2, <2>3, <2>4
  <1>2. ASSUME NEW r \in Slots, ClaimWins(r) \/ AcceptWins(r)
        PROVE  CancelledIsSettled'
    <2>1. order'[req[r].order].status \notin Cancelled
      BY <1>2, ClaimEffect DEF Cancelled
    <2>2. \A p \in Orders : p # req[r].order =>
            /\ order'[p] = order[p]
            /\ returns'[p] = returns[p]
            /\ lastRow'[p] = lastRow[p]
      BY <1>2, ClaimEffect
    <2> QED
      BY <2>1, <2>2
  <1>3. ASSUME NEW r \in Slots, DeliveryWrite(r)
        PROVE  CancelledIsSettled'
    BY <1>3 DEF DeliveryWrite, WriteOrder, TypeOK, HandlerOK, OrderRows, Cancelled
  <1>4. ASSUME NEW r \in Slots, ReleaseWrite(r)
        PROVE  CancelledIsSettled'
    BY <1>4 DEF ReleaseWrite, TypeOK, OrderRows, Cancelled
  <1>5. ASSUME NEW r \in Slots, ClaimRow(r)
        PROVE  CancelledIsSettled'
    BY <1>5 DEF ClaimRow
  <1>6. CASE UNCHANGED <<order, returns, lastRow>>
    BY <1>6
  <1> QED
    BY <1>1, <1>2, <1>3, <1>4, <1>5, <1>6, OtherStepsKeepRows DEF RowStep

\* Each write of a status brings its history row, a dispatched claim excepted.
LEMMA HistoryStep ==
  ASSUME TypeOK, HistoryLagsOnlyClaims, [Next]_vars
  PROVE  HistoryLagsOnlyClaims'
  <1> USE DEF HistoryLagsOnlyClaims
  <1>1. ASSUME NEW r \in Slots, TransitionStatus(r) \/ DeliveryWrite(r)
        PROVE  HistoryLagsOnlyClaims'
    BY <1>1 DEF TransitionStatus, DeliveryWrite, WriteOrder, TypeOK, HandlerOK, OrderRows
  <1>2. ASSUME NEW r \in Slots, ClaimWins(r) \/ AcceptWins(r)
        PROVE  HistoryLagsOnlyClaims'
    <2>1. order'[req[r].order].status = "COURIER_ASSIGNED"
      BY <1>2, ClaimEffect
    <2>2. \A p \in Orders : p # req[r].order =>
            /\ order'[p] = order[p]
            /\ returns'[p] = returns[p]
            /\ lastRow'[p] = lastRow[p]
      BY <1>2, ClaimEffect
    <2> QED
      BY <2>1, <2>2
  <1>3. ASSUME NEW r \in Slots, ReleaseWrite(r)
        PROVE  HistoryLagsOnlyClaims'
    BY <1>3 DEF ReleaseWrite, TypeOK, OrderRows
  <1>4. ASSUME NEW r \in Slots, ClaimRow(r)
        PROVE  HistoryLagsOnlyClaims'
    BY <1>4 DEF ClaimRow, TypeOK
  <1>5. CASE UNCHANGED <<order, returns, lastRow>>
    BY <1>5
  <1> QED
    BY <1>1, <1>2, <1>3, <1>4, <1>5, OtherStepsKeepRows DEF RowStep

\* The writes that never look at the row keep the claim's columns together:
\* nobody is paid for an order he does not hold, and an assigned order has a
\* courier.
THEOREM ClaimColumns == Spec => []ClaimColumnsAgree
  <1>1. Init => ClaimColumnsAgree
    BY DEF Init, ClaimColumnsAgree
  <1> QED
    BY <1>1, ClaimColumnsStep, TypeCorrect, PTL DEF Spec

\* No order is left cancelled without its stock and its cancellation time,
\* even when handlers overlap or die.
THEOREM CancelledSettled == Spec => []CancelledIsSettled
  <1>1. Init => CancelledIsSettled
    BY DEF Init, CancelledIsSettled, Cancelled
  <1> QED
    BY <1>1, CancelledStep, TypeCorrect, PTL DEF Spec

\* The history disagrees with the order only around dispatched claims.
THEOREM HistoryLag == Spec => []HistoryLagsOnlyClaims
  <1>1. Init => HistoryLagsOnlyClaims
    BY DEF Init, HistoryLagsOnlyClaims
  <1> QED
    BY <1>1, HistoryStep, TypeCorrect, PTL DEF Spec

-----------------------------------------------------------------------------
(* The claim on an order implements the lock CourierClaim describes.       *)

\* A claim takes the lock.
LEMMA ClaimTakes ==
  ASSUME TypeOK, NEW r \in Slots, ClaimWins(r) \/ AcceptWins(r)
  PROVE  Claim!Next
  <1>1. order[req[r].order].courierId = NULL
    BY ClaimEffect DEF InPool
  <1>2. /\ [o \in Orders |-> order'[o].courierId] =
             [[o \in Orders |-> order[o].courierId]
                EXCEPT ![req[r].order] = req[r].courier]
        /\ [o \in Orders |-> order'[o].earning] =
             [[o \in Orders |-> order[o].earning]
                EXCEPT ![req[r].order] = req[r].earning]
    BY ClaimEffect
  <1> QED
    <2>1. PICK o \in Orders, c \in Couriers, e \in Earnings :
            o = req[r].order /\ c = req[r].courier /\ e = req[r].earning
      BY ClaimEffect
    <2>2. Claim!Take(o, c, e)
      BY <1>1, <1>2, <2>1 DEF Claim!Take
    <2> QED
      BY <2>2 DEF Claim!Next

\* A release drops it, or the order was not held any more.
LEMMA ReleaseDrops ==
  ASSUME TypeOK, ClaimColumnsAgree, NEW r \in Slots, ReleaseWrite(r)
  PROVE  Claim!Next \/ UNCHANGED Claim!vars
  <1>1. req[r].order \in Orders
    BY DEF ReleaseWrite, TypeOK, HandlerOK
  <1>2. /\ order'[req[r].order].courierId = NULL
        /\ order'[req[r].order].earning = NULL
        /\ \A p \in Orders : p # req[r].order => order'[p] = order[p]
    BY <1>1 DEF ReleaseWrite, TypeOK, OrderRows
  <1>3. CASE order[req[r].order].courierId = NULL
    <2>1. order[req[r].order].earning = NULL
      BY <1>1, <1>3 DEF ClaimColumnsAgree
    <2>2. \A p \in Orders : /\ order'[p].courierId = order[p].courierId
                            /\ order'[p].earning = order[p].earning
      BY <1>2, <1>3, <2>1
    <2> QED
      BY <2>2 DEF Claim!vars
  <1>4. CASE order[req[r].order].courierId # NULL
    <2>1. /\ [o \in Orders |-> order'[o].courierId] =
               [[o \in Orders |-> order[o].courierId] EXCEPT ![req[r].order] = NULL]
          /\ [o \in Orders |-> order'[o].earning] =
               [[o \in Orders |-> order[o].earning] EXCEPT ![req[r].order] = NULL]
      BY <1>1, <1>2
    <2> QED
      BY <1>1, <1>4, <2>1 DEF Claim!Next, Claim!Drop
  <1> QED
    BY <1>3, <1>4

\* A status write keeps holder and cut.
LEMMA WriteKeepsClaim ==
  ASSUME TypeOK, NEW r \in Slots, TransitionStatus(r) \/ DeliveryWrite(r)
  PROVE  UNCHANGED Claim!vars
  <1>1. req[r].order \in Orders
    BY DEF TransitionStatus, DeliveryWrite, TypeOK, HandlerOK
  <1>2. \A p \in Orders : /\ order'[p].courierId = order[p].courierId
                          /\ order'[p].earning = order[p].earning
    <2>1. ASSUME NEW s, NEW t, WriteOrder(req[r].order, s, t)
          PROVE  \A p \in Orders : /\ order'[p].courierId = order[p].courierId
                                  /\ order'[p].earning = order[p].earning
      BY <1>1, <2>1 DEF WriteOrder, TypeOK, OrderRows
    <2> QED
      BY <2>1 DEF TransitionStatus, DeliveryWrite
  <1>3. /\ [o \in Orders |-> order'[o].courierId] = [o \in Orders |-> order[o].courierId]
        /\ [o \in Orders |-> order'[o].earning] = [o \in Orders |-> order[o].earning]
    BY <1>2
  <1> QED
    BY <1>3 DEF Claim!vars

\* Two couriers never hold one order and a cut is fixed while the claim lasts,
\* whatever the number of overlapping handlers and wherever they fail.
THEOREM ClaimLock == Spec => ClaimIsALock
  <1>1. Init => Claim!Init
    BY DEF Init, Claim!Init
  <1>2. ASSUME TypeOK, ClaimColumnsAgree, [Next]_vars
        PROVE  [Claim!Next]_(Claim!vars)
    <2>1. ASSUME NEW r \in Slots, ClaimWins(r) \/ AcceptWins(r)
          PROVE  Claim!Next
      BY <1>2, <2>1, ClaimTakes
    <2>2. ASSUME NEW r \in Slots, ReleaseWrite(r)
          PROVE  Claim!Next \/ UNCHANGED Claim!vars
      BY <1>2, <2>2, ReleaseDrops
    <2>3. ASSUME NEW r \in Slots, TransitionStatus(r) \/ DeliveryWrite(r)
          PROVE  UNCHANGED Claim!vars
      BY <1>2, <2>3, WriteKeepsClaim
    <2>4. ASSUME NEW r \in Slots, ClaimRow(r)
          PROVE  UNCHANGED Claim!vars
      BY <2>4 DEF ClaimRow, Claim!vars
    <2>5. CASE UNCHANGED <<order, returns, lastRow>>
      BY <2>5 DEF Claim!vars
    <2> QED
      BY <1>2, <2>1, <2>2, <2>3, <2>4, <2>5, OtherStepsKeepRows DEF RowStep
  <1> QED
    BY <1>1, <1>2, TypeCorrect, ClaimColumns, PTL DEF Spec, ClaimIsALock, Claim!Spec

-----------------------------------------------------------------------------
(* With one handler at a time the code implements OrderContract.  What     *)
(* makes the argument inductive is NothingIsStale: between its check and   *)
(* its write a lone handler finds the order as it left it.                 *)

OneSlot == \A r, t \in Slots : r = t

NothingIsStale ==
  \A r \in Slots :
    LET q == req[r]
        s == order[q.order].status
    IN /\ q.pc = "transition" =>
            <<s, q.next>> \in SellerTransitions \cup {<<"PENDING", "CANCELLED">>}
       /\ q.pc = "deliver" =>
            <<s, q.next>> \in CourierTransitions /\ order[q.order].courierId # NULL
       /\ q.pc = "release" => s = "COURIER_ASSIGNED"

\* A courier holds an order from its claim to its end.
HeldIsUnderway ==
  \A o \in Orders :
    order[o].courierId # NULL => order[o].status \in ActiveStatuses \cup {"DELIVERED"}

\* A request that arrives has just checked what it is about to write.
LEMMA ArriveStale ==
  ASSUME OneSlot, TypeOK, NEW r \in Slots, Arrive(r)
  PROVE  NothingIsStale'
  <1> USE DEF OneSlot, TypeOK, NothingIsStale, Begin
  <1>1. PICK o \in Orders :
          \/ CancelMine(r, o)
          \/ \E s \in Status : UpdateStatusForStore(r, o, s)
          \/ \E c \in Couriers :
               \/ AssignCourierForStore(r, o, c)
               \/ Accept(r, o, c)
               \/ \E s \in Status : UpdateStatus(r, o, c, s)
               \/ Release(r, o, c)
    BY DEF Arrive
  <1>2. CASE CancelMine(r, o)
    BY <1>2 DEF CancelMine
  <1>3. ASSUME NEW s \in Status, UpdateStatusForStore(r, o, s)
        PROVE  NothingIsStale'
    BY <1>3 DEF UpdateStatusForStore
  <1>4. ASSUME NEW c \in Couriers, AssignCourierForStore(r, o, c) \/ Accept(r, o, c)
        PROVE  NothingIsStale'
    BY <1>4 DEF AssignCourierForStore, Accept
  <1>5. ASSUME NEW c \in Couriers, NEW s \in Status, UpdateStatus(r, o, c, s)
        PROVE  NothingIsStale'
    BY <1>5, NullAssumption DEF UpdateStatus
  <1>6. ASSUME NEW c \in Couriers, Release(r, o, c)
        PROVE  NothingIsStale'
    BY <1>6 DEF Release
  <1> QED
    BY <1>1, <1>2, <1>3, <1>4, <1>5, <1>6

\* A handler that made a call is not about to accept or to make an unchecked
\* write: those are the first calls of their handlers.
LEMMA AfterCall ==
  ASSUME TypeOK, NEW r \in Slots, Step(r) \/ CallFails(r) \/ Die(r)
  PROVE  req'[r].pc \notin {"transition", "deliver", "release", "accept"}
  <1> USE DEF TypeOK
  <1>1. CASE StoreStep(r)
    <2>1. ASSUME NEW pc \in {"pick", "notify", "row", "dispatch"}, Goto(r, pc)
          PROVE  req'[r].pc \notin {"transition", "deliver", "release", "accept"}
      BY <2>1 DEF Goto, Requests
    <2>2. ASSUME Finish(r)
          PROVE  req'[r].pc \notin {"transition", "deliver", "release", "accept"}
      BY <2>2 DEF Finish, NoRequest
    <2>3. ASSUME NEW c \in Couriers,
                 req' = [req EXCEPT ![r].pc = "claim", ![r].courier = c,
                                    ![r].earning = Earning(c)]
          PROVE  req'[r].pc \notin {"transition", "deliver", "release", "accept"}
      BY <2>3 DEF Requests
    <2>4. CASE PickAvailableCourier(r)
      BY <2>1, <2>3, <2>4 DEF PickAvailableCourier, FreeCouriers
    <2>5. CASE CheckAssignee(r)
      BY <2>2, <2>5 DEF CheckAssignee, Requests
    <2> QED
      BY <1>1, <2>1, <2>2, <2>4, <2>5
      DEF StoreStep, TransitionStatus, DispatchRead, ClaimWins, ClaimLoses, ClaimRow
  <1>2. CASE CourierStep(r)
    BY <1>2 DEF CourierStep, AcceptWins, AcceptLoses, EnsureTemporaryContract,
                DeliveryWrite, ReleaseWrite, Goto, Finish, NoRequest, Requests
  <1>3. CASE StatusChanged(r) \/ CallFails(r) \/ Die(r)
    BY <1>3 DEF StatusChanged, CallFails, Die, Goto, Finish, NoRequest, Requests
  <1> QED
    BY <1>1, <1>2, <1>3 DEF Step

\* After any call of a handler none of the unchecked writes is left to make.
LEMMA StaleStep ==
  ASSUME OneSlot, TypeOK, NothingIsStale, [Next]_vars
  PROVE  NothingIsStale'
  <1> USE DEF OneSlot, TypeOK, NothingIsStale
  <1>1. ASSUME NEW r \in Slots, Step(r) \/ CallFails(r) \/ Die(r)
        PROVE  NothingIsStale'
    BY <1>1, AfterCall
  <1>2. ASSUME NEW c \in Couriers, ContractChange(c)
        PROVE  NothingIsStale'
    BY <1>2 DEF ContractChange
  <1>3. CASE UNCHANGED vars
    BY <1>3 DEF vars
  <1> QED
    BY <1>1, <1>2, <1>3, ArriveStale DEF Next

\* What a lone handler read still allows what it is about to write.
LEMMA Fresh ==
  ASSUME OneSlot
  PROVE  Spec => []NothingIsStale
  <1>1. Init => NothingIsStale
    BY DEF Init, NothingIsStale, NoRequest
  <1>2. TypeOK /\ NothingIsStale /\ [Next]_vars => NothingIsStale'
    BY StaleStep
  <1> QED
    BY <1>1, <1>2, TypeCorrect, PTL DEF Spec

\* The store's fresh moves leave a courier's order in his hands or end it.
LEMMA HeldStep ==
  ASSUME TypeOK, NothingIsStale, HeldIsUnderway, [Next]_vars
  PROVE  HeldIsUnderway'
  <1> USE DEF TypeOK, HeldIsUnderway, ActiveStatuses
  <1>1. ASSUME NEW r \in Slots, TransitionStatus(r)
        PROVE  HeldIsUnderway'
    <2>1. PICK o \in Orders, s \in Status : o = req[r].order /\ s = req[r].next
      BY <1>1 DEF TransitionStatus, HandlerOK
    <2>2. <<order[o].status, s>> \in SellerTransitions \cup {<<"PENDING", "CANCELLED">>}
      BY <1>1, <2>1 DEF NothingIsStale, TransitionStatus
    <2>3. order[o].status \in ActiveStatuses \cup {"DELIVERED"} => s = "DELIVERED"
      BY <2>2 DEF SellerTransitions
    <2>4. /\ order'[o].status = s /\ order'[o].courierId = order[o].courierId
          /\ \A p \in Orders \ {o} : order'[p] = order[p]
      BY <1>1, <2>1 DEF TransitionStatus, WriteOrder, OrderRows
    <2> QED
      BY <2>3, <2>4
  <1>2. ASSUME NEW r \in Slots, ClaimWins(r) \/ AcceptWins(r)
        PROVE  HeldIsUnderway'
    <2>1. \A p \in Orders : order'[p] = order[p] \/ order'[p].status = "COURIER_ASSIGNED"
      BY <1>2, ClaimEffect
    <2> QED
      BY <2>1
  <1>3. ASSUME NEW r \in Slots, DeliveryWrite(r)
        PROVE  HeldIsUnderway'
    <2>1. PICK o \in Orders, s \in {"ON_WAY", "DELIVERED"} : o = req[r].order /\ s = req[r].next
      BY <1>3 DEF DeliveryWrite, HandlerOK
    <2> QED
      BY <1>3, <2>1 DEF DeliveryWrite, WriteOrder, OrderRows
  <1>4. ASSUME NEW r \in Slots, ReleaseWrite(r)
        PROVE  HeldIsUnderway'
    <2>1. PICK o \in Orders : o = req[r].order
      BY <1>4 DEF ReleaseWrite, HandlerOK
    <2> QED
      BY <1>4, <2>1 DEF ReleaseWrite, OrderRows
  <1>5. ASSUME NEW r \in Slots, ClaimRow(r)
        PROVE  HeldIsUnderway'
    BY <1>5 DEF ClaimRow
  <1>6. CASE UNCHANGED <<order, returns, lastRow>>
    BY <1>6
  <1> QED
    BY <1>1, <1>2, <1>3, <1>4, <1>5, <1>6, OtherStepsKeepRows DEF RowStep

LEMMA Held ==
  ASSUME OneSlot
  PROVE  Spec => []HeldIsUnderway
  <1>1. Init => HeldIsUnderway
    BY DEF Init, HeldIsUnderway
  <1>2. TypeOK /\ NothingIsStale /\ HeldIsUnderway /\ [Next]_vars => HeldIsUnderway'
    BY HeldStep
  <1> QED
    BY <1>1, <1>2, TypeCorrect, Fresh, PTL DEF Spec

\* A fresh status write is a move of the contract: of the store's table where
\* nobody holds the order, and otherwise the end of a delivery.
LEMMA TransitionMoves ==
  ASSUME TypeOK, NothingIsStale, HeldIsUnderway, NEW r \in Slots, TransitionStatus(r)
  PROVE  Contract!Next
  <1>1. PICK o \in Orders, s \in Status : o = req[r].order /\ s = req[r].next
    BY DEF TransitionStatus, TypeOK, HandlerOK
  <1>2. /\ [p \in Orders |-> order'[p].status] =
             [[p \in Orders |-> order[p].status] EXCEPT ![o] = s]
        /\ [p \in Orders |-> order'[p].courierId] = [p \in Orders |-> order[p].courierId]
    BY <1>1 DEF TransitionStatus, WriteOrder, TypeOK, OrderRows
  <1>3. Contract!Move(o, s)
    BY <1>1, <1>2 DEF TransitionStatus, Contract!Move, Cancelled, Contract!Cancelled
  <1>4. \/ <<order[o].status, s>> \in SellerTransitions
        \/ order[o].status = "PENDING" /\ s = "CANCELLED"
    BY <1>1 DEF NothingIsStale, TransitionStatus
  <1>5. CASE order[o].courierId = NULL
    <2>1. Contract!StoreMove(o, s) \/ Contract!CustomerCancel(o)
      BY <1>2, <1>3, <1>4, <1>5
      DEF Contract!StoreMove, Contract!CustomerCancel, SellerTransitions,
          Contract!SellerTransitions
    <2> QED
      BY <2>1 DEF Contract!Next, Status, Contract!Status
  <1>6. CASE order[o].courierId # NULL
    <2>1. order[o].status = "ON_WAY" /\ s = "DELIVERED"
      BY <1>4, <1>6 DEF HeldIsUnderway, ActiveStatuses, SellerTransitions
    <2>2. Contract!StoreEndsDelivery(o)
      BY <1>2, <1>3, <1>6, <2>1 DEF Contract!StoreEndsDelivery
    <2> QED
      BY <2>2 DEF Contract!Next
  <1> QED
    BY <1>5, <1>6

\* A claim is the contract's Take.
LEMMA ClaimMoves ==
  ASSUME TypeOK, NEW r \in Slots, ClaimWins(r) \/ AcceptWins(r)
  PROVE  Contract!Next
  <1>1. PICK o \in Orders, c \in Couriers : o = req[r].order /\ c = req[r].courier
    BY ClaimEffect
  <1>2. order[o].status = "READY" /\ order[o].courierId = NULL
    BY <1>1, ClaimEffect DEF InPool
  <1>3. /\ [p \in Orders |-> order'[p].status] =
             [[p \in Orders |-> order[p].status] EXCEPT ![o] = "COURIER_ASSIGNED"]
        /\ [p \in Orders |-> order'[p].courierId] =
             [[p \in Orders |-> order[p].courierId] EXCEPT ![o] = c]
    BY <1>1, ClaimEffect
  <1>4. returns' = [returns EXCEPT ![o] = returns[o]]
    BY ClaimEffect DEF TypeOK
  <1>5. Contract!Take(o, c)
    BY <1>1, <1>2, <1>3, <1>4 DEF Contract!Take, Contract!Move, Contract!Cancelled
  <1> QED
    BY <1>5 DEF Contract!Next

\* A fresh delivery write is the courier's move.
LEMMA DeliveryMoves ==
  ASSUME TypeOK, NothingIsStale, NEW r \in Slots, DeliveryWrite(r)
  PROVE  Contract!Next
  <1>1. PICK o \in Orders, s \in Status : o = req[r].order /\ s = req[r].next
    BY DEF DeliveryWrite, TypeOK, HandlerOK
  <1>2. s \in {"ON_WAY", "DELIVERED"}
    BY <1>1 DEF DeliveryWrite, TypeOK, HandlerOK
  <1>3. /\ [p \in Orders |-> order'[p].status] =
             [[p \in Orders |-> order[p].status] EXCEPT ![o] = s]
        /\ [p \in Orders |-> order'[p].courierId] = [p \in Orders |-> order[p].courierId]
    BY <1>1 DEF DeliveryWrite, WriteOrder, TypeOK, OrderRows
  <1>4. returns' = [returns EXCEPT ![o] = returns[o]]
    BY DEF DeliveryWrite, TypeOK
  <1>5. order[o].courierId # NULL /\ <<order[o].status, s>> \in CourierTransitions
    BY <1>1 DEF DeliveryWrite, NothingIsStale
  <1>6. Contract!CourierMove(o, s)
    BY <1>2, <1>3, <1>4, <1>5
    DEF Contract!CourierMove, Contract!Move, Contract!Cancelled,
        CourierTransitions, Contract!CourierTransitions
  <1> QED
    BY <1>6 DEF Contract!Next, Status, Contract!Status

\* A fresh release gives the order back before pickup.
LEMMA ReleaseMoves ==
  ASSUME TypeOK, NothingIsStale, NEW r \in Slots, ReleaseWrite(r)
  PROVE  Contract!Next
  <1>1. PICK o \in Orders : o = req[r].order
    BY DEF ReleaseWrite, TypeOK, HandlerOK
  <1>2. order[o].status = "COURIER_ASSIGNED"
    BY <1>1 DEF ReleaseWrite, NothingIsStale
  <1>3. /\ [p \in Orders |-> order'[p].status] =
             [[p \in Orders |-> order[p].status] EXCEPT ![o] = "READY"]
        /\ [p \in Orders |-> order'[p].courierId] =
             [[p \in Orders |-> order[p].courierId] EXCEPT ![o] = NULL]
    BY <1>1 DEF ReleaseWrite, TypeOK, OrderRows
  <1>4. returns' = [returns EXCEPT ![o] = returns[o]]
    BY DEF ReleaseWrite, TypeOK
  <1>5. Contract!GiveBack(o)
    BY <1>2, <1>3, <1>4 DEF Contract!GiveBack, Contract!Move, Contract!Cancelled
  <1> QED
    BY <1>5 DEF Contract!Next

\* As long as handlers do not overlap, the code keeps the life cycle of the two
\* transition tables, for any number of orders and couriers and in spite of
\* failures between its calls: the store moves only what no courier holds, but
\* for a delivery it may end.
THEOREM SerialContract ==
  ASSUME OneSlot
  PROVE  Spec => FollowsContract
  <1>1. Init => Contract!Init
    BY DEF Init, Contract!Init
  <1>2. TypeOK /\ NothingIsStale /\ HeldIsUnderway /\ [Next]_vars => [Contract!Next]_(Contract!vars)
    <2> SUFFICES ASSUME TypeOK, NothingIsStale, HeldIsUnderway, [Next]_vars
                 PROVE  Contract!Next \/ UNCHANGED Contract!vars
      OBVIOUS
    <2>1. ASSUME NEW r \in Slots, ClaimRow(r)
          PROVE  UNCHANGED Contract!vars
      BY <2>1 DEF ClaimRow, Contract!vars
    <2>2. CASE UNCHANGED <<order, returns, lastRow>>
      BY <2>2 DEF Contract!vars
    <2> QED
      BY <2>1, <2>2, TransitionMoves, ClaimMoves, DeliveryMoves, ReleaseMoves,
         OtherStepsKeepRows DEF RowStep
  <1> QED
    BY <1>1, <1>2, TypeCorrect, Fresh, Held, PTL DEF Spec, FollowsContract, Contract!Spec

-----------------------------------------------------------------------------
(* With one handler at a time, accept's count still holds when it claims.  *)

\* The courier of an accept in flight holds no active order.
AcceptCounted ==
  \A r \in Slots : req[r].pc = "accept" => ActiveOrders(req[r].courier) = {}

\* An accept is only begun for a courier without active orders, and a lone
\* handler that makes a call is not about to accept afterwards.
LEMMA StepCounted ==
  ASSUME OneSlot, TypeOK, AcceptCounted, [Next]_vars
  PROVE  AcceptCounted'
  <1> USE DEF OneSlot, TypeOK, AcceptCounted
  <1>1. ASSUME NEW r \in Slots, Arrive(r)
        PROVE  AcceptCounted'
    <2>1. order' = order
      BY <1>1 DEF Arrive, CancelMine, UpdateStatusForStore, AssignCourierForStore,
                  Accept, UpdateStatus, Release, Begin
    <2>2. ASSUME NEW pc, NEW c, NEW o, NEW next, NEW e, Begin(r, pc, o, next, c, e),
                 pc = "accept" => ActiveOrders(c) = {}
          PROVE  AcceptCounted'
      BY <2>1, <2>2 DEF Begin, ActiveOrders
    <2>3. ASSUME NEW o \in Orders, CancelMine(r, o)
          PROVE  AcceptCounted'
      BY <2>2, <2>3 DEF CancelMine
    <2>4. ASSUME NEW o \in Orders, NEW s \in Status, UpdateStatusForStore(r, o, s)
          PROVE  AcceptCounted'
      BY <2>2, <2>4 DEF UpdateStatusForStore
    <2>5. ASSUME NEW o \in Orders, NEW c \in Couriers,
                 AssignCourierForStore(r, o, c) \/ Release(r, o, c)
          PROVE  AcceptCounted'
      BY <2>2, <2>5 DEF AssignCourierForStore, Release
    <2>6. ASSUME NEW o \in Orders, NEW c \in Couriers, Accept(r, o, c)
          PROVE  AcceptCounted'
      BY <2>2, <2>6 DEF Accept
    <2>7. ASSUME NEW o \in Orders, NEW c \in Couriers, NEW s \in Status,
                 UpdateStatus(r, o, c, s)
          PROVE  AcceptCounted'
      BY <2>2, <2>7 DEF UpdateStatus
    <2> QED
      BY <1>1, <2>3, <2>4, <2>5, <2>6, <2>7 DEF Arrive
  <1>2. ASSUME NEW r \in Slots, Step(r) \/ CallFails(r) \/ Die(r)
        PROVE  AcceptCounted'
    BY <1>2, AfterCall
  <1>3. CASE UNCHANGED <<order, req>>
    BY <1>3 DEF ActiveOrders
  <1> QED
    BY <1>1, <1>2, <1>3 DEF Next, ContractChange, vars

\* One handler at a time, nobody who accepts an order ends up with two
\* (OrderLifecycle.AcceptKeepsOneOrder).
THEOREM SerialAccept ==
  ASSUME OneSlot
  PROVE  Spec => AcceptKeepsOneOrder
  <1>1. Init => AcceptCounted
    BY DEF Init, AcceptCounted, NoRequest
  <1>2. TypeOK /\ AcceptCounted /\ [Next]_vars => AcceptCounted'
    BY StepCounted
  <1>3. TypeOK /\ AcceptCounted => [\A r \in Slots :
          AcceptWins(r) => ActiveOrders(req[r].courier)' = {req[r].order}]_vars
    <2> SUFFICES ASSUME TypeOK, AcceptCounted, NEW r \in Slots, AcceptWins(r)
                 PROVE  ActiveOrders(req[r].courier)' = {req[r].order}
      OBVIOUS
    <2> DEFINE c == req[r].courier
               o == req[r].order
    <2>1. ActiveOrders(c) = {}
      BY DEF AcceptCounted, AcceptWins
    <2>2. req'[r].courier = c
      BY DEF AcceptWins, Goto, TypeOK, Requests
    <2>3. /\ o \in Orders /\ order'[o].courierId = c
          /\ order'[o].status = "COURIER_ASSIGNED"
          /\ \A p \in Orders : p # o => order'[p] = order[p]
      BY ClaimEffect
    <2> HIDE DEF c, o
    <2>4. {p \in Orders : order'[p].courierId = c /\ order'[p].status \in ActiveStatuses} = {o}
      BY <2>1, <2>3 DEF ActiveOrders, ActiveStatuses
    <2> QED
      BY <2>2, <2>4 DEF ActiveOrders, c, o
  <1> QED
    BY <1>1, <1>2, <1>3, TypeCorrect, PTL DEF Spec, AcceptKeepsOneOrder

-----------------------------------------------------------------------------
(* With one handler at a time, and none dying half-way, the history is     *)
(* complete: only a claim waits for its row.                               *)

\* Only a dispatched claim is without its row, and somebody is about to write it.
RowFollows ==
  /\ \A r \in Slots :
       req[r].pc = "row" => order[req[r].order].status = "COURIER_ASSIGNED"
  /\ \A o \in Orders :
       lastRow[o] # order[o].status =>
         \E r \in Slots : req[r].pc = "row" /\ req[r].order = o

\* Nothing but the row's own write happens while it is due.
LEMMA OnlyTheRow ==
  ASSUME OneSlot, ~CanFail, NEW r \in Slots, req[r].pc = "row", [Next]_vars
  PROVE  ClaimRow(r) \/ UNCHANGED <<order, lastRow, req>>
  <1>1. ~Arrive(r)
    BY DEF Arrive, CancelMine, UpdateStatusForStore, AssignCourierForStore,
           Accept, UpdateStatus, Release, Begin
  <1>2. Step(r) => ClaimRow(r)
    BY DEF Step, StoreStep, CourierStep, TransitionStatus, DispatchRead,
           PickAvailableCourier, CheckAssignee, ClaimWins, ClaimLoses, AcceptWins,
           AcceptLoses, EnsureTemporaryContract, DeliveryWrite, ReleaseWrite,
           StatusChanged
  <1>3. ~CallFails(r) /\ ~Die(r)
    BY DEF CallFails, Die
  <1> QED
    BY <1>1, <1>2, <1>3 DEF OneSlot, Next, ContractChange, vars

\* A row is due only after a dispatched claim.
LEMMA OnlyClaimsOwe ==
  ASSUME OneSlot, TypeOK, NEW r \in Slots, req[r].pc # "row", [Next]_vars
  PROVE  ClaimWins(r) \/ req'[r].pc # "row"
  <1> USE DEF TypeOK
  <1>1. CASE Arrive(r)
    <2>1. ASSUME NEW pc, NEW o, NEW next, NEW c, NEW e, Begin(r, pc, o, next, c, e),
                 pc # "row"
          PROVE  req'[r].pc # "row"
      BY <2>1 DEF Begin
    <2> QED
      BY <1>1, <2>1 DEF Arrive, CancelMine, UpdateStatusForStore,
         AssignCourierForStore, Accept, UpdateStatus, Release
  <1>2. ASSUME NEW pc \in PCs \ {"row"}, Goto(r, pc)
        PROVE  req'[r].pc # "row"
    BY <1>2 DEF Goto, Requests
  <1>3. ASSUME Finish(r)
        PROVE  req'[r].pc # "row"
    BY <1>3 DEF Finish, NoRequest
  <1>4. ASSUME NEW c \in Couriers,
               req' = [req EXCEPT ![r].pc = "claim", ![r].courier = c,
                                  ![r].earning = Earning(c)]
        PROVE  req'[r].pc # "row"
    BY <1>4 DEF Requests
  <1>5. CASE StoreStep(r)
    <2>1. CASE TransitionStatus(r)
      BY <1>2, <2>1 DEF TransitionStatus, PCs
    <2>2. CASE DispatchRead(r)
      BY <1>2, <2>2 DEF DispatchRead, PCs
    <2>3. CASE PickAvailableCourier(r)
      BY <1>2, <1>4, <2>3 DEF PickAvailableCourier, FreeCouriers, PCs
    <2>4. CASE CheckAssignee(r)
      BY <1>3, <2>4 DEF CheckAssignee, Requests
    <2>5. CASE ClaimLoses(r)
      BY <1>2, <1>3, <2>5 DEF ClaimLoses, PCs
    <2>6. CASE ClaimRow(r)
      BY <1>2, <2>6 DEF ClaimRow, PCs
    <2> QED
      BY <1>5, <2>1, <2>2, <2>3, <2>4, <2>5, <2>6 DEF StoreStep
  <1>6. CASE CourierStep(r)
    BY <1>2, <1>3, <1>6 DEF CourierStep, AcceptWins, AcceptLoses,
       EnsureTemporaryContract, DeliveryWrite, ReleaseWrite, PCs
  <1>7. CASE StatusChanged(r) \/ CallFails(r) \/ Die(r)
    BY <1>2, <1>3, <1>7 DEF StatusChanged, CallFails, Die, PCs
  <1>8. CASE UNCHANGED req
    BY <1>8
  <1> QED
    BY <1>1, <1>5, <1>6, <1>7, <1>8 DEF OneSlot, Next, Step, ContractChange, vars

\* Every write of a status writes its row too, or is a claim whose row is due.
LEMMA StepFollows ==
  ASSUME OneSlot, ~CanFail, TypeOK, RowFollows, [Next]_vars
  PROVE  RowFollows'
  <1> USE DEF RowFollows, TypeOK
  <1>1. CASE \E r \in Slots : req[r].pc = "row"
    <2>1. PICK r \in Slots : req[r].pc = "row"
      BY <1>1
    <2>2. CASE ClaimRow(r)
      <3> DEFINE o == req[r].order
      <3>1. /\ o \in Orders
            /\ \A p \in Orders : p # o => lastRow[p] = order[p].status
        BY <2>1 DEF HandlerOK, OneSlot
      <3>2. /\ order' = order
            /\ lastRow' = [lastRow EXCEPT ![o] = "COURIER_ASSIGNED"]
            /\ req'[r].pc = "notify"
        BY <2>2 DEF ClaimRow, Goto, Requests
      <3> QED
        BY <2>1, <3>1, <3>2 DEF OneSlot
    <2> QED
      BY <2>1, <2>2, OnlyTheRow
  <1>2. CASE \A r \in Slots : req[r].pc # "row"
    <2>1. \A o \in Orders : lastRow[o] = order[o].status
      BY <1>2
    <2>2. ASSUME NEW r \in Slots, ClaimWins(r)
          PROVE  RowFollows'
      <3>1. order'[req[r].order].status = "COURIER_ASSIGNED"
        BY <2>2, ClaimEffect
      <3>2. \A p \in Orders : p # req[r].order =>
              order'[p] = order[p] /\ lastRow'[p] = lastRow[p]
        BY <2>2, ClaimEffect
      <3>3. req'[r].pc = "row" /\ req'[r].order = req[r].order
        BY <2>2 DEF ClaimWins, Goto, Requests
      <3> QED
        BY <2>1, <3>1, <3>2, <3>3 DEF OneSlot
    <2>3. CASE \A r \in Slots : ~ClaimWins(r)
      <3>1. \A r \in Slots : req'[r].pc # "row"
        BY <1>2, <2>3, OnlyClaimsOwe
      <3>2. ASSUME NEW o \in Orders, NEW s \in Status, NEW stamps,
                   WriteOrder(o, s, stamps), lastRow' = [lastRow EXCEPT ![o] = s]
            PROVE  \A p \in Orders : lastRow'[p] = order'[p].status
        BY <2>1, <3>2 DEF WriteOrder, OrderRows
      <3>3. ASSUME NEW r \in Slots, TransitionStatus(r) \/ DeliveryWrite(r)
            PROVE  \A p \in Orders : lastRow'[p] = order'[p].status
        BY <3>2, <3>3 DEF TransitionStatus, DeliveryWrite, HandlerOK
      <3>4. ASSUME NEW r \in Slots, ReleaseWrite(r)
            PROVE  \A p \in Orders : lastRow'[p] = order'[p].status
        BY <2>1, <3>4 DEF ReleaseWrite, OrderRows
      <3>5. ASSUME NEW r \in Slots, AcceptWins(r)
            PROVE  \A p \in Orders : lastRow'[p] = order'[p].status
        <4>1. /\ order'[req[r].order].status = "COURIER_ASSIGNED"
              /\ lastRow'[req[r].order] = "COURIER_ASSIGNED"
          BY <3>5, ClaimEffect DEF AcceptWins
        <4>2. \A p \in Orders : p # req[r].order =>
                order'[p] = order[p] /\ lastRow'[p] = lastRow[p]
          BY <3>5, ClaimEffect
        <4> QED
          BY <2>1, <4>1, <4>2
      <3>6. ASSUME UNCHANGED <<order, returns, lastRow>>
            PROVE  \A p \in Orders : lastRow'[p] = order'[p].status
        BY <2>1, <3>6
      <3>7. \A p \in Orders : lastRow'[p] = order'[p].status
        BY <1>2, <2>3, <3>3, <3>4, <3>5, <3>6, OtherStepsKeepRows DEF RowStep, ClaimRow
      <3> QED
        BY <3>1, <3>7
    <2> QED
      BY <2>2, <2>3
  <1> QED
    BY <1>1, <1>2

\* One handler at a time, and none dying half-way, every status an order has
\* while nobody works on it has its row (OrderLifecycle.HistoryComplete).
THEOREM SerialHistory ==
  ASSUME OneSlot, ~CanFail
  PROVE  Spec => []HistoryComplete
  <1>1. Init => RowFollows
    BY DEF Init, RowFollows, NoRequest
  <1>2. RowFollows => HistoryComplete
    BY DEF RowFollows, HistoryComplete
  <1>3. TypeOK /\ RowFollows /\ [Next]_vars => RowFollows'
    BY StepFollows
  <1> QED
    BY <1>1, <1>2, <1>3, TypeCorrect, PTL DEF Spec

=============================================================================
