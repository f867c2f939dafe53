--------------------------- MODULE OrderLifecycle ---------------------------
(***************************************************************************)
(* The handlers that move one store's orders after checkout: the           *)
(* customer's cancel and the seller's status change (OrdersService), the   *)
(* courier's accept, status change and release (CourierService), automatic *)
(* dispatch and manual assignment (DispatchService).                       *)
(*                                                                         *)
(* A handler is a chain of awaited database calls.  It reads the order,    *)
(* checks what it read, and writes in a later call; other handlers run in  *)
(* between.  A slot holds one handler in flight: pc names the call it      *)
(* awaits, the other fields are the values it carries from its reads.      *)
(* Only the claims repeat the check inside the write.                      *)
(***************************************************************************)
EXTENDS Integers, FiniteSets, OrderStatus

CONSTANTS
  Orders,     \* the orders of one store
  Couriers,
  Slots,      \* handlers that may be in flight at the same time
  NULL,
  MaxReturns, \* bound: cancellations that may be started per order
  CanFail     \* TRUE: a handler may die between two calls

ASSUME NullAssumption  ==
  NULL \notin Orders \cup Couriers \cup Status \cup {"contract", "share"}
ASSUME BoundAssumption == MaxReturns \in Nat
ASSUME FailAssumption  == CanFail \in BOOLEAN

VARIABLES
  order,    \* order rows: status, courierId, courierEarning, set timestamps
  returns,  \* times the stock of each order was put back
  lastRow,  \* status in the newest OrderStatusHistory row of each order
  contract, \* each courier's contract row with the store
  told,     \* status in the last message the customer got about each order
  req       \* the handler in each slot

vars == <<order, returns, lastRow, contract, told, req>>

-----------------------------------------------------------------------------
(* Earnings: computed from the contract's payment terms, or the default    *)
(* share of the fee when the courier has no contract row.                  *)
Earnings == {"contract", "share"}

\* "active" is ACTIVE and not expired; "inactive" is any other row.
ContractRows == {"none", "active", "inactive"}

OrderRows == [status    : Status,
              courierId : Couriers \cup {NULL},
              earning   : Earnings \cup {NULL},
              stamps    : SUBSET Stamps]

PCs == {"idle", "transition", "dispatch", "pick", "claim", "row",
        "accept", "tempcontract", "deliver", "release", "notify"}

Requests == [pc      : PCs,
             order   : Orders \cup {NULL},
             next    : Status \cup {NULL},
             courier : Couriers \cup {NULL},
             earning : Earnings \cup {NULL}]

NoRequest == [pc |-> "idle", order |-> NULL, next |-> NULL,
              courier |-> NULL, earning |-> NULL]

\* What a handler carries, by the call it awaits.
HandlerOK(q) ==
  q.pc # "idle" =>
    /\ q.order \in Orders
    /\ q.next \in Status
    /\ q.pc = "transition" => q.next \notin {"PENDING", "COURIER_ASSIGNED"}
    /\ q.pc = "deliver" => q.next \in {"ON_WAY", "DELIVERED"}
    /\ q.pc = "dispatch" => q.next = "READY"
    /\ q.pc = "pick" /\ q.next # "READY" => q.courier \in Couriers
    /\ q.pc \in {"claim", "accept"} =>
         q.courier \in Couriers /\ q.earning \in Earnings

\* Rows and handlers have their types; a handler past its reads carries the
\* order, the status and the courier it is about to write.
TypeOK ==
  /\ order \in [Orders -> OrderRows]
  /\ returns \in [Orders -> Nat]
  /\ lastRow \in [Orders -> Status]
  /\ contract \in [Couriers -> ContractRows]
  /\ told \in [Orders -> Status]
  /\ req \in [Slots -> Requests]
  /\ \A r \in Slots : HandlerOK(req[r])

Init ==
  /\ order = [o \in Orders |-> [status |-> "PENDING", courierId |-> NULL,
                                earning |-> NULL, stamps |-> {}]]
  /\ returns = [o \in Orders |-> 0]
  /\ lastRow = [o \in Orders |-> "PENDING"]
  /\ contract \in [Couriers -> {"none", "active"}]
  /\ told = [o \in Orders |-> "PENDING"]
  /\ req = [r \in Slots |-> NoRequest]

-----------------------------------------------------------------------------
Begin(r, pc, o, next, c, e) ==
  /\ req[r].pc = "idle"
  /\ req' = [req EXCEPT ![r] = [pc |-> pc, order |-> o, next |-> next,
                                courier |-> c, earning |-> e]]
  /\ UNCHANGED <<order, returns, lastRow, contract, told>>

Goto(r, pc) == req' = [req EXCEPT ![r].pc = pc]

Finish(r) == req' = [req EXCEPT ![r] = NoRequest]

ActiveOrders(c) ==
  {o \in Orders : order[o].courierId = c /\ order[o].status \in ActiveStatuses}

\* READY and held by nobody: the condition every claim repeats in its write.
InPool(o) == order[o].status = "READY" /\ order[o].courierId = NULL

Earning(c) == IF contract[c] = "none" THEN "share" ELSE "contract"

-----------------------------------------------------------------------------
(* Requests arrive: the handler reads the order and checks what it read.   *)

\* The bound: no handler starts a cancellation of an order beyond it.
MayReturn(o, s) == s \in Cancelled => returns[o] < MaxReturns

CancelMine(r, o) ==
  /\ order[o].status = "PENDING"
  /\ MayReturn(o, "CANCELLED")
  /\ Begin(r, "transition", o, "CANCELLED", NULL, NULL)

UpdateStatusForStore(r, o, s) ==
  /\ <<order[o].status, s>> \in SellerTransitions
  /\ MayReturn(o, s)
  /\ Begin(r, "transition", o, s, NULL, NULL)

AssignCourierForStore(r, o, c) ==
  /\ InPool(o)
  /\ Begin(r, "pick", o, "COURIER_ASSIGNED", c, NULL)

\* Slip: nobody counts the courier's active orders.
AcceptUncounted(r, o, c) ==
  /\ InPool(o)
  /\ Begin(r, "accept", o, "COURIER_ASSIGNED", c, Earning(c))

\* The transaction's reads share one snapshot: order, active orders, contract.
Accept(r, o, c) ==
  /\ InPool(o)
  /\ ActiveOrders(c) = {}
  /\ Begin(r, "accept", o, "COURIER_ASSIGNED", c, Earning(c))

UpdateStatus(r, o, c, s) ==
  /\ order[o].courierId = c
  /\ <<order[o].status, s>> \in CourierTransitions
  /\ Begin(r, "deliver", o, s, c, NULL)

\* Slip: an order on its way can be released.
ReleaseAnyTime(r, o, c) ==
  /\ order[o].courierId = c
  /\ order[o].status \in ActiveStatuses
  /\ Begin(r, "release", o, "READY", c, NULL)

Release(r, o, c) ==
  /\ order[o].courierId = c
  /\ order[o].status = "COURIER_ASSIGNED"
  /\ Begin(r, "release", o, "READY", c, NULL)

Arrive(r) ==
  \E o \in Orders :
    \/ CancelMine(r, o)
    \/ \E s \in Status : UpdateStatusForStore(r, o, s)
    \/ \E c \in Couriers :
         \/ AssignCourierForStore(r, o, c)
         \/ Accept(r, o, c)
         \/ \E s \in Status : UpdateStatus(r, o, c, s)
         \/ Release(r, o, c)

-----------------------------------------------------------------------------
(* transitionStatus: one transaction that does not look at the status the  *)
(* order has by now, then dispatch on READY, then the customer's message.  *)

WriteOrder(o, s, stamps) ==
  order' = [order EXCEPT ![o].status = s, ![o].stamps = @ \cup stamps]

TransitionStatus(r) ==
  LET o == req[r].order
      s == req[r].next
  IN /\ req[r].pc = "transition"
     /\ WriteOrder(o, s, StoreStamps(s))
     /\ returns' = [returns EXCEPT ![o] = IF s \in Cancelled THEN @ + 1 ELSE @]
     /\ lastRow' = [lastRow EXCEPT ![o] = s]
     /\ Goto(r, IF s = "READY" THEN "dispatch" ELSE "notify")
     /\ UNCHANGED <<contract, told>>

\* onOrderReady gives up unless the order is still in the pool.
DispatchRead(r) ==
  /\ req[r].pc = "dispatch"
  /\ Goto(r, IF InPool(req[r].order) THEN "pick" ELSE "notify")
  /\ UNCHANGED <<order, returns, lastRow, contract, told>>

FreeCouriers == {c \in Couriers : contract[c] = "active" /\ ActiveOrders(c) = {}}

\* One free courier who is online and not blocked is chosen.  Other handlers
\* flip both flags at any time, so it may be any of them or none; with none
\* the order stays in the pool.
PickAvailableCourier(r) ==
  /\ req[r].pc = "pick"
  /\ req[r].next = "READY"
  /\ \/ \E c \in FreeCouriers :
          req' = [req EXCEPT ![r].pc = "claim", ![r].courier = c,
                             ![r].earning = Earning(c)]
     \/ Goto(r, "notify")
  /\ UNCHANGED <<order, returns, lastRow, contract, told>>

\* assignToCourier asks for an active contract and for nothing else.
CheckAssignee(r) ==
  LET c == req[r].courier
  IN /\ req[r].pc = "pick"
     /\ req[r].next = "COURIER_ASSIGNED"
     /\ IF contract[c] = "active"
        THEN req' = [req EXCEPT ![r].pc = "claim", ![r].earning = Earning(c)]
        ELSE Finish(r)
     /\ UNCHANGED <<order, returns, lastRow, contract, told>>

\* updateMany where status = READY and courierId = null.
ClaimOrder(r) ==
  LET q == req[r]
  IN order' = [order EXCEPT ![q.order] =
                 [@ EXCEPT !.status = "COURIER_ASSIGNED",
                           !.courierId = q.courier,
                           !.earning = q.earning]]

\* Slip: the claim is an update by id, like every other write.
ClaimById(r) ==
  /\ req[r].pc = "claim"
  /\ ClaimOrder(r)
  /\ Goto(r, "row")
  /\ UNCHANGED <<returns, lastRow, contract, told>>

ClaimWins(r) ==
  /\ req[r].pc = "claim"
  /\ InPool(req[r].order)
  /\ ClaimOrder(r)
  /\ Goto(r, "row")
  /\ UNCHANGED <<returns, lastRow, contract, told>>

\* A lost claim ends a manual assignment with 409 and dispatch silently.
ClaimLoses(r) ==
  /\ req[r].pc = "claim"
  /\ ~InPool(req[r].order)
  /\ IF req[r].next = "READY" THEN Goto(r, "notify") ELSE Finish(r)
  /\ UNCHANGED <<order, returns, lastRow, contract, told>>

\* The history row of a dispatched claim is a call of its own.
ClaimRow(r) ==
  /\ req[r].pc = "row"
  /\ lastRow' = [lastRow EXCEPT ![req[r].order] = "COURIER_ASSIGNED"]
  /\ Goto(r, "notify")
  /\ UNCHANGED <<order, returns, contract, told>>

-----------------------------------------------------------------------------
(* The courier's handlers.                                                 *)

\* Slip: accept leaves its history row out.
AcceptWithoutRow(r) ==
  /\ req[r].pc = "accept"
  /\ InPool(req[r].order)
  /\ ClaimOrder(r)
  /\ Goto(r, "tempcontract")
  /\ UNCHANGED <<returns, lastRow, contract, told>>

\* accept writes claim and history row in its transaction.
AcceptWins(r) ==
  /\ req[r].pc = "accept"
  /\ InPool(req[r].order)
  /\ ClaimOrder(r)
  /\ lastRow' = [lastRow EXCEPT ![req[r].order] = "COURIER_ASSIGNED"]
  /\ Goto(r, "tempcontract")
  /\ UNCHANGED <<returns, contract, told>>

AcceptLoses(r) ==
  /\ req[r].pc = "accept"
  /\ ~InPool(req[r].order)
  /\ Finish(r)
  /\ UNCHANGED <<order, returns, lastRow, contract, told>>

EnsureTemporaryContract(r) ==
  /\ req[r].pc = "tempcontract"
  /\ contract' = [contract EXCEPT ![req[r].courier] =
                    IF @ = "none" THEN "active" ELSE @]
  /\ Goto(r, "notify")
  /\ UNCHANGED <<order, returns, lastRow, told>>

\* Slip: the courier's status change leaves its history row out.
DeliverWithoutRow(r) ==
  /\ req[r].pc = "deliver"
  /\ WriteOrder(req[r].order, req[r].next, CourierStamps(req[r].next))
  /\ Goto(r, "notify")
  /\ UNCHANGED <<returns, lastRow, contract, told>>

\* The status write does not look at the order again.
DeliveryWrite(r) ==
  LET o == req[r].order
      s == req[r].next
  IN /\ req[r].pc = "deliver"
     /\ WriteOrder(o, s, CourierStamps(s))
     /\ lastRow' = [lastRow EXCEPT ![o] = s]
     /\ Goto(r, "notify")
     /\ UNCHANGED <<returns, contract, told>>

\* Slip: the release keeps the courier's cut.
ReleaseKeepsEarning(r) ==
  /\ req[r].pc = "release"
  /\ order' = [order EXCEPT ![req[r].order] = [@ EXCEPT !.status = "READY",
                                                      !.courierId = NULL]]
  /\ lastRow' = [lastRow EXCEPT ![req[r].order] = "READY"]
  /\ Finish(r)
  /\ UNCHANGED <<returns, contract, told>>

\* Nor does the release; it sends no message and starts no new dispatch.
ReleaseWrite(r) ==
  LET o == req[r].order
  IN /\ req[r].pc = "release"
     /\ order' = [order EXCEPT ![o] = [@ EXCEPT !.status = "READY",
                                                !.courierId = NULL,
                                                !.earning = NULL]]
     /\ lastRow' = [lastRow EXCEPT ![o] = "READY"]
     /\ Finish(r)
     /\ UNCHANGED <<returns, contract, told>>

-----------------------------------------------------------------------------
\* Slip: REJECTED has no customer message.
StatusChangedQuietly(r) ==
  /\ req[r].pc = "notify"
  /\ told' = [told EXCEPT ![req[r].order] =
                IF req[r].next = "REJECTED" THEN @ ELSE req[r].next]
  /\ Finish(r)
  /\ UNCHANGED <<order, returns, lastRow, contract>>

\* statusChanged tells the customer the status this handler wrote.
StatusChanged(r) ==
  /\ req[r].pc = "notify"
  /\ told' = [told EXCEPT ![req[r].order] = req[r].next]
  /\ Finish(r)
  /\ UNCHANGED <<order, returns, lastRow, contract>>

\* transitionStatus swallows an error of dispatch, accept one of the
\* temporary contract: the handler goes on to its message.
CallFails(r) ==
  /\ CanFail
  /\ \/ req[r].pc \in {"dispatch", "pick", "claim", "row"} /\ req[r].next = "READY"
     \/ req[r].pc = "tempcontract"
  /\ Goto(r, "notify")
  /\ UNCHANGED <<order, returns, lastRow, contract, told>>

\* Any other call fails, or the process restarts: what was committed stays.
Die(r) ==
  /\ CanFail
  /\ req[r].pc # "idle"
  /\ Finish(r)
  /\ UNCHANGED <<order, returns, lastRow, contract, told>>

\* The contract is requested, decided, ended or expires; the row stays.
ContractChange(c) ==
  /\ contract' = [contract EXCEPT ![c] =
                    IF @ = "inactive" THEN "active" ELSE "inactive"]
  /\ UNCHANGED <<order, returns, lastRow, told, req>>

-----------------------------------------------------------------------------
StoreStep(r) ==
  \/ TransitionStatus(r)
  \/ DispatchRead(r) \/ PickAvailableCourier(r) \/ CheckAssignee(r)
  \/ ClaimWins(r) \/ ClaimLoses(r) \/ ClaimRow(r)

CourierStep(r) ==
  \/ AcceptWins(r) \/ AcceptLoses(r) \/ EnsureTemporaryContract(r)
  \/ DeliveryWrite(r) \/ ReleaseWrite(r)

\* The next call of a handler in flight.
Step(r) == StoreStep(r) \/ CourierStep(r) \/ StatusChanged(r)

Next ==
  \/ \E r \in Slots : Arrive(r) \/ Step(r) \/ CallFails(r) \/ Die(r)
  \/ \E c \in Couriers : ContractChange(c)

Spec == Init /\ [][Next]_vars

\* The server always makes the next call of a handler; nobody has to ask.
FairSpec == Spec /\ \A r \in Slots : WF_vars(Step(r))

-----------------------------------------------------------------------------
(* Properties that hold however the handlers overlap.                      *)

\* The three columns of a claim are written and cleared together: a courier
\* has a cut of the fee exactly while he holds the order, and an order is
\* COURIER_ASSIGNED only while somebody holds it, in spite of the writes that
\* do not look at the row (transitionStatus, updateStatus, release).
ClaimColumnsAgree ==
  \A o \in Orders :
    /\ (order[o].courierId = NULL) <=> (order[o].earning = NULL)
    /\ order[o].status = "COURIER_ASSIGNED" => order[o].courierId # NULL

\* The stock of a cancelled or rejected order is back, and the row says when
\* it was cancelled: transitionStatus does all three in one transaction.
CancelledIsSettled ==
  \A o \in Orders :
    order[o].status \in Cancelled =>
      returns[o] > 0 /\ "cancelledAt" \in order[o].stamps

\* The newest history row names the order's status, except around a claim of
\* the dispatcher, whose row is written by a later call: then one of the two
\* is COURIER_ASSIGNED.
HistoryLagsOnlyClaims ==
  \A o \in Orders :
    lastRow[o] # order[o].status =>
      "COURIER_ASSIGNED" \in {lastRow[o], order[o].status}

\* Claims behave as a lock: whatever handlers overlap, no courier takes an
\* order another one holds and a cut of the fee fixed at the claim is not
\* rewritten while the claim lasts.
Claim == INSTANCE CourierClaim WITH
           holder <- [o \in Orders |-> order[o].courierId],
           pay    <- [o \in Orders |-> order[o].earning]

ClaimIsALock == Claim!Spec

-----------------------------------------------------------------------------
(* Properties that hold as long as no two handlers overlap.                *)

\* With one handler at a time every status change is a step of the life cycle
\* the two transition tables draw: the store moves nobody's order but its own,
\* save that it may end a delivery a courier has begun, couriers move what they
\* hold, and stock comes back once.
Contract == INSTANCE OrderContract WITH
              status <- [o \in Orders |-> order[o].status],
              holder <- [o \in Orders |-> order[o].courierId]

FollowsContract == Contract!Spec

\* "One order at a time": an accept never leaves its courier with two active
\* orders (CourierService.accept counts them before it claims).
AcceptKeepsOneOrder ==
  [][\A r \in Slots :
       AcceptWins(r) => ActiveOrders(req[r].courier)' = {req[r].order}]_vars

\* Every status an order has while nobody works on it has its history row.
HistoryComplete ==
  (\A r \in Slots : req[r].pc = "idle") =>
    \A o \in Orders : lastRow[o] = order[o].status

\* The customer hears how the order ended.
EndIsTold ==
  \A o \in Orders : \A s \in Terminal :
    order[o].status = s ~> told[o] = s

-----------------------------------------------------------------------------
(* Claims of the comments and docs that the code does not keep.            *)

\* "(terminal)": a delivered, cancelled or rejected order stays that way.
TerminalIsFinal ==
  [][\A o \in Orders :
       order[o].status \in Terminal => order'[o].status = order[o].status]_vars

=============================================================================
