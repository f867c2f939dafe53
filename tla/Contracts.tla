----------------------------- MODULE Contracts -----------------------------
(***************************************************************************)
(* ContractsService: the contracts between one store and its couriers.     *)
(*                                                                         *)
(* Every handler reads the row, checks its status and updates it by id in  *)
(* a later call, as in OrderLifecycle: a slot holds one handler in flight. *)
(* A row is never deleted.                                                 *)
(***************************************************************************)

CONSTANTS
  Couriers,
  Slots,   \* handlers that may be in flight at the same time
  NULL,
  CanFail  \* TRUE: a handler may die between two calls

ASSUME NullAssumption == NULL \notin Couriers
ASSUME FailAssumption == CanFail \in BOOLEAN

VARIABLES
  row,   \* each courier's contract row with the store
  told,  \* status a courier last heard of: in a message, or in answer to his call
  req    \* the handler in each slot

vars == <<row, told, req>>

-----------------------------------------------------------------------------
Status == {"PENDING", "ACTIVE", "REJECTED", "REVOKED"}

\* expiry: expiresAt is null, lies ahead or is past; approved: approvedAt is set.
Rows == [status : Status \cup {"none"}, temporary : BOOLEAN,
         expiry : {"never", "ahead", "past"}, approved : BOOLEAN]

NoRow == [status |-> "none", temporary |-> FALSE, expiry |-> "never",
          approved |-> FALSE]

\* A row as requestContract creates it, or reopens it.
Requested == [NoRow EXCEPT !.status = "PENDING"]

Requests == [pc : {"idle", "create", "reopen", "cancel", "approve", "reject",
                   "revoke", "mint", "notify", "answer"},
             courier : Couriers \cup {NULL},
             news : Status \cup {NULL}] \* what a notify will say

NoRequest == [pc |-> "idle", courier |-> NULL, news |-> NULL]

\* Rows and handlers have their types; a handler in flight works for a
\* courier, and one about to send a message knows what to say.
TypeOK ==
  /\ row \in [Couriers -> Rows]
  /\ told \in [Couriers -> Status \cup {"none"}]
  /\ req \in [Slots -> Requests]
  /\ \A r \in Slots :
       /\ req[r].pc # "idle" => req[r].courier \in Couriers
       /\ req[r].pc = "notify" => req[r].news \in Status

Init ==
  /\ row  = [c \in Couriers |-> NoRow]
  /\ told = [c \in Couriers |-> "none"]
  /\ req  = [r \in Slots |-> NoRequest]

-----------------------------------------------------------------------------
Begin(r, pc, c) ==
  /\ req[r].pc = "idle"
  /\ req' = [req EXCEPT ![r] = [pc |-> pc, courier |-> c, news |-> NULL]]
  /\ UNCHANGED <<row, told>>

Finish(r) == req' = [req EXCEPT ![r] = NoRequest]

\* Slip: the message is left blank.
AnnounceNothing(r, s) == req' = [req EXCEPT ![r].pc = "notify"]

\* The update that handler r made ends with a message to its courier.
Announce(r, s) == req' = [req EXCEPT ![r].pc = "notify", ![r].news = s]

\* The courier's own call ends with an answer: his row, read again.
Reply(r) == req' = [req EXCEPT ![r].pc = "answer"]

-----------------------------------------------------------------------------
(* Requests arrive: the row is read and its status checked.                *)

RequestContract(r, c) ==
  \/ row[c].status = "none" /\ Begin(r, "create", c)
  \/ row[c].status \in {"REJECTED", "REVOKED"} /\ Begin(r, "reopen", c)

CancelByCourier(r, c) ==
  row[c].status \in {"PENDING", "ACTIVE"} /\ Begin(r, "cancel", c)

\* Slip: the seller may approve whatever is not active.
ApproveAny(r, c) ==
  row[c].status \in {"PENDING", "REJECTED", "REVOKED"} /\ Begin(r, "approve", c)

Approve(r, c) == row[c].status = "PENDING" /\ Begin(r, "approve", c)

Reject(r, c) == row[c].status = "PENDING" /\ Begin(r, "reject", c)

RevokeBySeller(r, c) ==
  row[c].status \in {"PENDING", "ACTIVE"} /\ Begin(r, "revoke", c)

\* Called after a courier accepted one of the store's orders from the pool.
EnsureTemporaryContract(r, c) ==
  row[c].status = "none" /\ Begin(r, "mint", c)

Arrive(r) ==
  \E c \in Couriers :
    \/ RequestContract(r, c) \/ CancelByCourier(r, c)
    \/ Approve(r, c) \/ Reject(r, c) \/ RevokeBySeller(r, c)
    \/ EnsureTemporaryContract(r, c)

-----------------------------------------------------------------------------
(* The writes.  Only create is guarded, by @@unique([courierId, storeId]). *)

\* Slip: both creates are upserts.
CreateOrReplace(r, pc, new) ==
  /\ req[r].pc = pc
  /\ row' = [row EXCEPT ![req[r].courier] = new]
  /\ UNCHANGED told

\* A create that finds a row fails, and its handler with it.
Create(r, pc, new) ==
  LET c == req[r].courier
  IN /\ req[r].pc = pc
     /\ row' = [row EXCEPT ![c] = IF @.status = "none" THEN new ELSE @]
     /\ UNCHANGED told

CreateRequested(r) ==
  /\ Create(r, "create", Requested)
  /\ IF row[req[r].courier].status = "none" THEN Reply(r) ELSE Finish(r)

\* Active for TEMPORARY_CONTRACT_DAYS; the courier is not told.
CreateTemporary(r) ==
  /\ Create(r, "mint", [status |-> "ACTIVE", temporary |-> TRUE,
                        expiry |-> "ahead", approved |-> TRUE])
  /\ Finish(r)

\* Slip: a reopened contract keeps its temporary term.
ReopenStatusOnly(r) ==
  /\ req[r].pc = "reopen"
  /\ row' = [row EXCEPT ![req[r].courier].status = "PENDING",
                        ![req[r].courier].approved = FALSE]
  /\ Reply(r)
  /\ UNCHANGED told

Reopen(r) ==
  /\ req[r].pc = "reopen"
  /\ row' = [row EXCEPT ![req[r].courier] = Requested]
  /\ Reply(r)
  /\ UNCHANGED told

\* The message goes to the seller.
CancelWrite(r) ==
  /\ req[r].pc = "cancel"
  /\ row' = [row EXCEPT ![req[r].courier].status = "REVOKED"]
  /\ Reply(r)
  /\ UNCHANGED told

ApproveWrite(r) ==
  LET c == req[r].courier
  IN /\ req[r].pc = "approve"
     /\ row' = [row EXCEPT ![c].status = "ACTIVE", ![c].approved = TRUE]
     /\ Announce(r, "ACTIVE")
     /\ UNCHANGED told

\* Slip: a rejected courier is not told.
RejectQuietly(r) ==
  /\ req[r].pc = "reject"
  /\ row' = [row EXCEPT ![req[r].courier].status = "REJECTED"]
  /\ Finish(r)
  /\ UNCHANGED told

RejectWrite(r) ==
  /\ req[r].pc = "reject"
  /\ row' = [row EXCEPT ![req[r].courier].status = "REJECTED"]
  /\ Announce(r, "REJECTED")
  /\ UNCHANGED told

RevokeWrite(r) ==
  /\ req[r].pc = "revoke"
  /\ row' = [row EXCEPT ![req[r].courier].status = "REVOKED"]
  /\ Announce(r, "REVOKED")
  /\ UNCHANGED told

Notify(r) ==
  /\ req[r].pc = "notify"
  /\ told' = [told EXCEPT ![req[r].courier] = req[r].news]
  /\ Finish(r)
  /\ UNCHANGED row

Answer(r) ==
  LET c == req[r].courier
  IN /\ req[r].pc = "answer"
     /\ told' = [told EXCEPT ![c] = row[c].status]
     /\ Finish(r)
     /\ UNCHANGED row

-----------------------------------------------------------------------------
\* A call fails or the process restarts; what was written stays.
Die(r) ==
  /\ CanFail
  /\ req[r].pc # "idle"
  /\ Finish(r)
  /\ UNCHANGED <<row, told>>

\* Time passes.
Expire(c) ==
  /\ row[c].expiry = "ahead"
  /\ row' = [row EXCEPT ![c].expiry = "past"]
  /\ UNCHANGED <<told, req>>

Write(r) ==
  \/ CreateRequested(r) \/ CreateTemporary(r) \/ Reopen(r)
  \/ CancelWrite(r) \/ ApproveWrite(r) \/ RejectWrite(r) \/ RevokeWrite(r)
  \/ Notify(r) \/ Answer(r)

Next ==
  \/ \E r \in Slots : Arrive(r) \/ Write(r) \/ Die(r)
  \/ \E c \in Couriers : Expire(c)

Spec == Init /\ [][Next]_vars

-----------------------------------------------------------------------------
(* Properties that hold however the handlers overlap.                      *)

\* A contract the seller approved has no end date, a temporary one has one:
\* status, term and approval of a row are written by different handlers and
\* fit together all the same.
TermsFit ==
  \A c \in Couriers :
    /\ row[c].temporary <=> row[c].expiry # "never"
    /\ row[c].status = "ACTIVE" => row[c].approved
    /\ row[c].status = "PENDING" => ~row[c].approved
    /\ row[c].status \in {"PENDING", "REJECTED"} => ~row[c].temporary

\* A temporary contract never overrides an existing row
\* (ensureTemporaryContract), though the row may appear after it was looked for.
MintOverridesNothing ==
  [][\A c \in Couriers :
       row[c].status # "none" /\ row'[c].temporary => row[c].temporary]_vars

-----------------------------------------------------------------------------
(* Properties that hold as long as no two handlers overlap.                *)

Cycle == INSTANCE ContractCycle WITH
           state <- [c \in Couriers |-> row[c].status]

\* With one handler at a time every status change is one the docs draw.
FollowsCycle == Cycle!Spec

\* With one handler at a time and no failing call, a courier last heard of his
\* contract how it stands, whoever of him and the seller decided last: from a
\* message or the answer to his own call.  Only a temporary contract that the
\* pool gave him runs without a word.
CourierKnows ==
  (\A r \in Slots : req[r].pc = "idle") =>
    \A c \in Couriers :
      \/ told[c] = row[c].status
      \/ row[c].status = "ACTIVE" /\ row[c].temporary

-----------------------------------------------------------------------------
(* A claim of the comments and docs that the code does not keep.           *)

\* A contract that was refused or ended becomes active only by a new request.
ReopenedOnlyByRequest ==
  [][\A c \in Couriers :
       row[c].status \in {"REJECTED", "REVOKED"} => row'[c].status # "ACTIVE"]_vars

=============================================================================
