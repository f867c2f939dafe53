--------------------------- MODULE ContractsProofs ---------------------------
(***************************************************************************)
(* Theorems about Contracts, for any sets of couriers and overlapping      *)
(* handlers, with or without failures.                                     *)
(***************************************************************************)
EXTENDS Contracts, TLAPS

-----------------------------------------------------------------------------
(* Type correctness.                                                       *)

\* An arriving request only fills its slot.
LEMMA ArriveBegins ==
  ASSUME NEW r \in Slots, Arrive(r)
  PROVE  \E c \in Couriers :
           \E pc \in {"create", "reopen", "cancel", "approve", "reject", "revoke", "mint"} :
             /\ Begin(r, pc, c)
             /\ pc \in {"cancel", "revoke"} => row[c].status \in {"PENDING", "ACTIVE"}
             /\ pc \in {"approve", "reject"} => row[c].status = "PENDING"
             /\ pc = "reopen" => row[c].status \in {"REJECTED", "REVOKED"}
  BY DEF Arrive, RequestContract, CancelByCourier, Approve, Reject,
         RevokeBySeller, EnsureTemporaryContract

\* A handler that has its message keeps its courier.
LEMMA AnnounceType ==
  ASSUME TypeOK, NEW r \in Slots, NEW s \in Status, req[r].pc # "idle", Announce(r, s)
  PROVE  /\ req' \in [Slots -> Requests]
         /\ \A t \in Slots :
              /\ req'[t].pc # "idle" => req'[t].courier \in Couriers
              /\ req'[t].pc = "notify" => req'[t].news \in Status
  <1> DEFINE q == [req[r] EXCEPT !.pc = "notify", !.news = s]
  <1>1. q \in Requests /\ q.courier \in Couriers /\ q.news \in Status
    BY DEF TypeOK, Requests
  <1>2. req' = [req EXCEPT ![r] = q]
    BY DEF Announce, TypeOK, Requests
  <1> HIDE DEF q
  <1> QED
    BY <1>1, <1>2 DEF TypeOK

\* So does one whose courier awaits his answer.
LEMMA ReplyType ==
  ASSUME TypeOK, NEW r \in Slots, req[r].pc # "idle", Reply(r)
  PROVE  /\ req' \in [Slots -> Requests]
         /\ \A t \in Slots :
              /\ req'[t].pc # "idle" => req'[t].courier \in Couriers
              /\ req'[t].pc = "notify" => req'[t].news \in Status
  <1> DEFINE q == [req[r] EXCEPT !.pc = "answer"]
  <1>1. q \in Requests /\ q.courier \in Couriers /\ q.pc = "answer"
    BY DEF TypeOK, Requests
  <1>2. req' = [req EXCEPT ![r] = q]
    BY DEF Reply, TypeOK, Requests
  <1> HIDE DEF q
  <1> QED
    BY <1>1, <1>2 DEF TypeOK

\* Every step keeps the types.
LEMMA StepType ==
  ASSUME TypeOK, [Next]_vars
  PROVE  TypeOK'
  <1> USE DEF TypeOK, Requests, NoRequest, Rows, Status
  <1>1. ASSUME NEW r \in Slots, Arrive(r)
        PROVE  TypeOK'
    <2>1. PICK c \in Couriers,
               pc \in {"create", "reopen", "cancel", "approve", "reject", "revoke", "mint"} :
            Begin(r, pc, c)
      BY <1>1, ArriveBegins
    <2>2. [pc |-> pc, courier |-> c, news |-> NULL] \in Requests
      OBVIOUS
    <2> QED
      BY <2>1, <2>2 DEF Begin
  <1>2. ASSUME NEW r \in Slots, Write(r)
        PROVE  TypeOK'
    <2>1. ASSUME NEW pc, NEW new \in Rows, Create(r, pc, new), pc # "idle",
                 Finish(r) \/ Reply(r)
          PROVE  TypeOK'
      <3>1. CASE Finish(r)
        BY <2>1, <3>1 DEF Create, Finish
      <3>2. CASE Reply(r)
        <4>1. row' \in [Couriers -> Rows] /\ told' = told
          BY <2>1 DEF Create
        <4> QED
          BY <2>1, <3>2, <4>1, ReplyType DEF Create
      <3> QED
        BY <2>1, <3>1, <3>2
    <2>2. Requested \in Rows
      BY DEF Requested, NoRow
    <2>3. CASE CreateRequested(r)
      BY <2>1, <2>2, <2>3 DEF CreateRequested
    <2>4. CASE CreateTemporary(r)
      <3>1. [status |-> "ACTIVE", temporary |-> TRUE,
             expiry |-> "ahead", approved |-> TRUE] \in Rows
        OBVIOUS
      <3> QED
        BY <2>1, <2>4, <3>1 DEF CreateTemporary
    <2>5. CASE Reopen(r)
      <3>1. row' \in [Couriers -> Rows]
        BY <2>2, <2>5 DEF Reopen
      <3> QED
        BY <2>5, <3>1, ReplyType DEF Reopen
    <2>6. CASE CancelWrite(r)
      <3>1. row' \in [Couriers -> Rows]
        BY <2>6 DEF CancelWrite
      <3> QED
        BY <2>6, <3>1, ReplyType DEF CancelWrite
    <2>7. CASE ApproveWrite(r)
      <3>1. row' \in [Couriers -> Rows]
        BY <2>7 DEF ApproveWrite
      <3> QED
        BY <2>7, <3>1, AnnounceType DEF ApproveWrite
    <2>8. CASE RejectWrite(r)
      <3>1. row' \in [Couriers -> Rows]
        BY <2>8 DEF RejectWrite
      <3> QED
        BY <2>8, <3>1, AnnounceType DEF RejectWrite
    <2>9. CASE RevokeWrite(r)
      <3>1. row' \in [Couriers -> Rows]
        BY <2>9 DEF RevokeWrite
      <3> QED
        BY <2>9, <3>1, AnnounceType DEF RevokeWrite
    <2>10. CASE Notify(r)
      BY <2>10 DEF Notify, Finish
    <2>11. CASE Answer(r)
      BY <2>11 DEF Answer, Finish
    <2> QED
      BY <1>2, <2>3, <2>4, <2>5, <2>6, <2>7, <2>8, <2>9, <2>10, <2>11 DEF Write
  <1>3. ASSUME NEW r \in Slots, Die(r)
        PROVE  TypeOK'
    BY <1>3 DEF Die, Finish
  <1>4. ASSUME NEW c \in Couriers, Expire(c)
        PROVE  TypeOK'
    BY <1>4 DEF Expire
  <1>5. CASE UNCHANGED vars
    BY <1>5 DEF vars
  <1> QED
    BY <1>1, <1>2, <1>3, <1>4, <1>5 DEF Next

LEMMA InitType == Init => TypeOK
  BY DEF Init, TypeOK, NoRow, Rows, NoRequest, Requests, Status

\* Rows, messages and handlers always have their types (Contracts.TypeOK).
THEOREM TypeCorrect == Spec => []TypeOK
  BY InitType, StepType, PTL DEF Spec

-----------------------------------------------------------------------------
(* Temporary contracts.                                                    *)

Minted == [status |-> "ACTIVE", temporary |-> TRUE, expiry |-> "ahead",
           approved |-> TRUE]

\* What handler r's write makes of the row of courier c.
HandlerWrites(r, c) ==
  /\ req[r].courier = c
  /\ \/ req[r].pc = "reopen" /\ row'[c] = Requested
     \/ /\ req[r].pc \in {"cancel", "revoke"}
        /\ row'[c] = [row[c] EXCEPT !.status = "REVOKED"]
     \/ /\ req[r].pc = "approve"
        /\ row'[c] = [row[c] EXCEPT !.status = "ACTIVE", !.approved = TRUE]
     \/ /\ req[r].pc = "reject"
        /\ row'[c] = [row[c] EXCEPT !.status = "REJECTED"]

RowMove(c) ==
  \/ row[c].status = "none" /\ row'[c] \in {Requested, Minted}
  \/ \E r \in Slots : HandlerWrites(r, c)
  \/ row[c].expiry = "ahead" /\ row'[c] = [row[c] EXCEPT !.expiry = "past"]

\* A step changes a row by creating it, by a handler's write or with time.
LEMMA RowStep ==
  ASSUME TypeOK, [Next]_vars, NEW c \in Couriers, row'[c] # row[c]
  PROVE  RowMove(c)
  <1> USE DEF TypeOK
  <1>1. ASSUME NEW r \in Slots, Arrive(r)
        PROVE  FALSE
    BY <1>1, ArriveBegins DEF Begin
  <1>2. ASSUME NEW r \in Slots, Write(r)
        PROVE  RowMove(c)
    <2>1. CASE CreateRequested(r)
      BY <2>1 DEF CreateRequested, Create, RowMove
    <2>2. CASE CreateTemporary(r)
      BY <2>2 DEF CreateTemporary, Create, RowMove, Minted
    <2> SUFFICES ASSUME ~CreateRequested(r), ~CreateTemporary(r)
                 PROVE  HandlerWrites(r, c)
      BY <2>1, <2>2 DEF RowMove
    <2>3. CASE Reopen(r)
      BY <2>3 DEF Reopen, HandlerWrites
    <2>4. CASE CancelWrite(r)
      BY <2>4 DEF CancelWrite, HandlerWrites
    <2>5. CASE ApproveWrite(r)
      BY <2>5 DEF ApproveWrite, HandlerWrites, Rows
    <2>6. CASE RejectWrite(r)
      BY <2>6 DEF RejectWrite, HandlerWrites
    <2>7. CASE RevokeWrite(r)
      BY <2>7 DEF RevokeWrite, HandlerWrites
    <2>8. CASE Notify(r) \/ Answer(r)
      BY <2>8 DEF Notify, Answer
    <2> QED
      BY <1>2, <2>3, <2>4, <2>5, <2>6, <2>7, <2>8 DEF Write
  <1>3. ASSUME NEW r \in Slots, Die(r)
        PROVE  FALSE
    BY <1>3 DEF Die
  <1>4. ASSUME NEW d \in Couriers, Expire(d)
        PROVE  RowMove(c)
    BY <1>4 DEF Expire, RowMove
  <1>5. CASE UNCHANGED vars
    BY <1>5 DEF vars
  <1> QED
    BY <1>1, <1>2, <1>3, <1>4, <1>5 DEF Next

\* Whatever overlaps, a row that exists never turns temporary
\* (ensureTemporaryContract against requestContract and itself).
THEOREM MintSafe == Spec => MintOverridesNothing
  <1>1. TypeOK /\ [Next]_vars =>
          [\A c \in Couriers :
             row[c].status # "none" /\ row'[c].temporary => row[c].temporary]_vars
    <2> SUFFICES ASSUME TypeOK, [Next]_vars, NEW c \in Couriers,
                        row[c].status # "none", row'[c].temporary,
                        row'[c] # row[c]
                 PROVE  row[c].temporary
      OBVIOUS
    <2>1. row[c] \in Rows
      BY DEF TypeOK
    <2> QED
      BY <2>1, RowStep DEF RowMove, HandlerWrites, Rows, Requested, NoRow
  <1> QED
    BY <1>1, TypeCorrect, PTL DEF Spec, MintOverridesNothing

-----------------------------------------------------------------------------
(* The columns of a row fit together.                                      *)

\* A handler that found a request still finds a row that is not temporary,
\* whatever became of the request: only a row that does not exist can become
\* temporary.  TermsFit is not inductive without it, for reject would make a
\* temporary row REJECTED.
DecidersSeeNoTemporary ==
  \A r \in Slots :
    req[r].pc \in {"approve", "reject"} =>
      row[req[r].courier].status # "none" /\ ~row[req[r].courier].temporary

\* TermsFit, of one row.
RowFits(w) ==
  /\ w.temporary <=> w.expiry # "never"
  /\ w.status = "ACTIVE" => w.approved
  /\ w.status = "PENDING" => ~w.approved
  /\ w.status \in {"PENDING", "REJECTED"} => ~w.temporary

IInv == TypeOK /\ TermsFit /\ DecidersSeeNoTemporary

\* A handler that decides after a step decided before it, or has just read a
\* PENDING row.
LEMMA DeciderStep ==
  ASSUME TypeOK, [Next]_vars, NEW r \in Slots, req'[r].pc \in {"approve", "reject"}
  PROVE  \/ req'[r] = req[r]
         \/ row' = row /\ req'[r].courier \in Couriers
              /\ row[req'[r].courier].status = "PENDING"
  <1> USE DEF TypeOK
  <1>1. ASSUME NEW s \in Slots, Arrive(s)
        PROVE  \/ req'[r] = req[r]
               \/ row' = row /\ req'[r].courier \in Couriers
                    /\ row[req'[r].courier].status = "PENDING"
    BY <1>1, ArriveBegins DEF Begin
  <1>2. ASSUME NEW s \in Slots, Write(s)
        PROVE  req'[r] = req[r]
    BY <1>2 DEF Write, CreateRequested, CreateTemporary, Create, Reopen, CancelWrite,
                ApproveWrite, RejectWrite, RevokeWrite, Notify, Answer, Finish, Announce,
                Reply, NoRequest, Requests
  <1>3. ASSUME NEW s \in Slots, Die(s)
        PROVE  req'[r] = req[r]
    BY <1>3 DEF Die, Finish, NoRequest
  <1>4. ASSUME NEW c \in Couriers, Expire(c)
        PROVE  req'[r] = req[r]
    BY <1>4 DEF Expire
  <1>5. CASE UNCHANGED vars
    BY <1>5 DEF vars
  <1> QED
    BY <1>1, <1>2, <1>3, <1>4, <1>5 DEF Next

LEMMA InitIInv == Init => IInv
  BY InitType DEF Init, IInv, TermsFit, DecidersSeeNoTemporary, NoRow, NoRequest

LEMMA StepIInv ==
  ASSUME IInv, [Next]_vars
  PROVE  IInv'
  <1> USE DEF IInv
  <1>1. TypeOK'
    BY StepType
  <1>2. TermsFit'
    <2> SUFFICES ASSUME NEW c \in Couriers
                 PROVE  /\ row'[c].temporary <=> row'[c].expiry # "never"
                        /\ row'[c].status = "ACTIVE" => row'[c].approved
                        /\ row'[c].status = "PENDING" => ~row'[c].approved
                        /\ row'[c].status \in {"PENDING", "REJECTED"} => ~row'[c].temporary
      BY DEF TermsFit
    <2>1. row[c] \in Rows
      BY DEF TypeOK
    <2>2. CASE row'[c] = row[c]
      BY <2>2 DEF TermsFit
    <2>3. CASE row'[c] # row[c]
      <3>1. RowMove(c)
        BY <2>3, RowStep
      <3>2. CASE row'[c] \in {Requested, Minted}
        BY <3>2 DEF Requested, NoRow, Minted
      <3>3. ASSUME NEW r \in Slots, HandlerWrites(r, c)
            PROVE  row'[c] # Requested => RowFits(row'[c])
        BY <2>1, <3>3 DEF TermsFit, DecidersSeeNoTemporary, HandlerWrites, RowFits, Rows
      <3>4. CASE row[c].expiry = "ahead" /\ row'[c] = [row[c] EXCEPT !.expiry = "past"]
        BY <2>1, <3>4 DEF TermsFit, Rows
      <3> QED
        BY <3>1, <3>2, <3>3, <3>4 DEF RowMove, RowFits
    <2> QED
      BY <2>2, <2>3
  <1>3. DecidersSeeNoTemporary'
    <2> SUFFICES ASSUME NEW r \in Slots, req'[r].pc \in {"approve", "reject"}
                 PROVE  row'[req'[r].courier].status # "none"
                        /\ ~row'[req'[r].courier].temporary
      BY DEF DecidersSeeNoTemporary
    <2>1. CASE req'[r] = req[r]
      <3> DEFINE c == req[r].courier
      <3>1. c \in Couriers /\ row[c] \in Rows
        BY <2>1 DEF TypeOK
      <3>2. row[c].status # "none" /\ ~row[c].temporary
        BY <2>1 DEF DecidersSeeNoTemporary
      <3>3. CASE row'[c] = row[c]
        BY <2>1, <3>2, <3>3
      <3>4. CASE row'[c] # row[c]
        <4>1. RowMove(c)
          BY <3>1, <3>4, RowStep
        <4>2. row'[c].status # "none" /\ ~row'[c].temporary
          BY <3>1, <3>2, <4>1 DEF RowMove, HandlerWrites, Rows, Requested, NoRow
        <4> QED
          BY <2>1, <4>2
      <3> QED
        BY <3>3, <3>4
    <2>2. CASE row' = row /\ req'[r].courier \in Couriers
                 /\ row[req'[r].courier].status = "PENDING"
      BY <2>2 DEF TermsFit
    <2> QED
      BY <2>1, <2>2, DeciderStep
  <1> QED
    BY <1>1, <1>2, <1>3

\* Approval, term and status of a contract fit together, whatever handlers
\* overlap or die (Contracts.TermsFit).
THEOREM Terms == Spec => []TermsFit
  BY InitIInv, StepIInv, PTL DEF Spec, IInv

-----------------------------------------------------------------------------
(* One handler at a time.                                                  *)

OneSlot == \A r, t \in Slots : r = t

\* The status a handler checked is the one its write finds.
NothingStale ==
  \A r \in Slots :
    LET s == row[req[r].courier].status
    IN /\ req[r].pc \in {"cancel", "revoke"} => s \in {"PENDING", "ACTIVE"}
       /\ req[r].pc \in {"approve", "reject"} => s = "PENDING"
       /\ req[r].pc = "reopen" => s \in {"REJECTED", "REVOKED"}

\* Every write is its handler's last but for the message.
LEMMA StepStale ==
  ASSUME OneSlot, TypeOK, NothingStale, [Next]_vars
  PROVE  NothingStale'
  <1> USE DEF NothingStale, TypeOK
  <1>1. ASSUME NEW r \in Slots, Arrive(r)
        PROVE  NothingStale'
    <2>1. PICK c \in Couriers,
               pc \in {"create", "reopen", "cancel", "approve", "reject", "revoke", "mint"} :
            /\ Begin(r, pc, c)
            /\ pc \in {"cancel", "revoke"} => row[c].status \in {"PENDING", "ACTIVE"}
            /\ pc \in {"approve", "reject"} => row[c].status = "PENDING"
            /\ pc = "reopen" => row[c].status \in {"REJECTED", "REVOKED"}
      BY <1>1, ArriveBegins
    <2>2. req'[r] = [pc |-> pc, courier |-> c, news |-> NULL] /\ row' = row
      BY <2>1 DEF Begin
    <2> QED
      BY <2>1, <2>2 DEF OneSlot
  <1>2. ASSUME NEW r \in Slots, Write(r)
        PROVE  NothingStale'
    <2>1. req'[r].pc \in {"idle", "notify", "answer"}
      BY <1>2 DEF Write, CreateRequested, CreateTemporary, Create, Reopen, CancelWrite,
                  ApproveWrite, RejectWrite, RevokeWrite, Notify, Answer, Finish, Announce,
                  Reply, NoRequest, Requests
    <2> QED
      BY <2>1 DEF OneSlot
  <1>3. ASSUME NEW r \in Slots, Die(r)
        PROVE  NothingStale'
    BY <1>3 DEF Die, Finish, NoRequest, OneSlot
  <1>4. ASSUME NEW c \in Couriers, Expire(c)
        PROVE  NothingStale'
    <2>1. \A d \in Couriers : row'[d].status = row[d].status
      BY <1>4 DEF Expire, Rows
    <2> QED
      BY <1>4, <2>1 DEF Expire
  <1>5. CASE UNCHANGED vars
    BY <1>5 DEF vars
  <1> QED
    BY <1>1, <1>2, <1>3, <1>4, <1>5 DEF Next

\* A step changes at most one row.
LEMMA OneRow ==
  ASSUME TypeOK, [Next]_vars
  PROVE  \A c, d \in Couriers : row'[c] # row[c] /\ row'[d] # row[d] => c = d
  <1> USE DEF TypeOK
  <1>1. ASSUME NEW r \in Slots, Arrive(r)
        PROVE  row' = row
    BY <1>1, ArriveBegins DEF Begin
  <1>2. ASSUME NEW r \in Slots, Write(r), NEW c \in Couriers, row'[c] # row[c]
        PROVE  c = req[r].courier
    BY <1>2 DEF Write, CreateRequested, CreateTemporary, Create, Reopen, CancelWrite,
                ApproveWrite, RejectWrite, RevokeWrite, Notify, Answer
  <1>3. ASSUME NEW r \in Slots, Die(r)
        PROVE  row' = row
    BY <1>3 DEF Die
  <1>4. ASSUME NEW c \in Couriers, Expire(c), NEW d \in Couriers, row'[d] # row[d]
        PROVE  d = c
    BY <1>4 DEF Expire
  <1>5. CASE UNCHANGED vars
    BY <1>5 DEF vars
  <1> QED
    BY <1>1, <1>2, <1>3, <1>4, <1>5 DEF Next

\* One handler at a time, contracts live the life the docs draw
\* (Contracts.FollowsCycle).
THEOREM SerialCycle ==
  ASSUME OneSlot
  PROVE  Spec => FollowsCycle
  <1> DEFINE state == [c \in Couriers |-> row[c].status]
  <1>1. Init => Cycle!Init
    BY DEF Init, Cycle!Init, NoRow
  <1>2. TypeOK /\ NothingStale /\ [Next]_vars => [Cycle!Next]_state
    <2> SUFFICES ASSUME TypeOK, NothingStale, [Next]_vars, state' # state
                 PROVE  Cycle!Next
      OBVIOUS
    <2>1. PICK c \in Couriers : row'[c].status # row[c].status
      OBVIOUS
    <2>2. row[c] \in Rows
      BY DEF TypeOK
    <2>3. RowMove(c)
      BY <2>1, RowStep
    <2>4. <<row[c].status, row'[c].status>> \in Cycle!Moves
      <3>1. CASE row[c].status = "none" /\ row'[c] \in {Requested, Minted}
        BY <3>1 DEF Cycle!Moves, Requested, NoRow, Minted
      <3>2. ASSUME NEW r \in Slots, HandlerWrites(r, c)
            PROVE  <<row[c].status, row'[c].status>> \in Cycle!Moves
        <4>1. CASE req[r].pc = "reopen" /\ row'[c] = Requested
          BY <3>2, <4>1 DEF HandlerWrites, NothingStale, Cycle!Moves, Requested, NoRow
        <4>2. CASE /\ req[r].pc \in {"cancel", "revoke"}
                   /\ row'[c] = [row[c] EXCEPT !.status = "REVOKED"]
          BY <2>2, <3>2, <4>2 DEF HandlerWrites, NothingStale, Cycle!Moves, Rows
        <4>3. CASE /\ req[r].pc = "approve"
                   /\ row'[c] = [row[c] EXCEPT !.status = "ACTIVE", !.approved = TRUE]
          <5>1. row'[c].status = "ACTIVE"
            BY <2>2, <4>3 DEF Rows
          <5> QED
            BY <3>2, <4>3, <5>1 DEF HandlerWrites, NothingStale, Cycle!Moves
        <4>4. CASE /\ req[r].pc = "reject"
                   /\ row'[c] = [row[c] EXCEPT !.status = "REJECTED"]
          BY <2>2, <3>2, <4>4 DEF HandlerWrites, NothingStale, Cycle!Moves, Rows
        <4> QED
          BY <3>2, <4>1, <4>2, <4>3, <4>4 DEF HandlerWrites
      <3>3. CASE row[c].expiry = "ahead" /\ row'[c] = [row[c] EXCEPT !.expiry = "past"]
        BY <2>1, <2>2, <3>3 DEF Rows
      <3> QED
        BY <2>3, <3>1, <3>2, <3>3 DEF RowMove
    <2>5. \A d \in Couriers \ {c} : row'[d] = row[d]
      BY <2>1, OneRow
    <2>6. state' = [state EXCEPT ![c] = row'[c].status]
      BY <2>5
    <2> QED
      BY <2>4, <2>6 DEF Cycle!Next
  <1>3. Init => NothingStale
    BY DEF Init, NothingStale, NoRequest
  <1>4. Spec => [](TypeOK /\ NothingStale)
    BY <1>3, InitType, StepType, StepStale, PTL DEF Spec
  <1> QED
    BY <1>1, <1>2, <1>4, PTL DEF Spec, FollowsCycle, Cycle!Spec

\* A courier heard how his contract stands, or is about to.
Heard ==
  /\ \A r \in Slots : req[r].pc = "notify" => req[r].news = row[req[r].courier].status
  /\ \A c \in Couriers :
       \/ told[c] = row[c].status
       \/ row[c].status = "ACTIVE" /\ row[c].temporary
       \/ \E r \in Slots : req[r].pc \in {"notify", "answer"} /\ req[r].courier = c

\* A handler decides on one row, and whatever it decides the courier will hear.
LEMMA StepHeard ==
  ASSUME OneSlot, ~CanFail, TypeOK, Heard, [Next]_vars
  PROVE  Heard'
  <1> USE DEF TypeOK, Heard, OneSlot
  <1>1. ASSUME NEW r \in Slots, Arrive(r)
        PROVE  Heard'
    <2>1. PICK c \in Couriers,
               pc \in {"create", "reopen", "cancel", "approve", "reject", "revoke", "mint"} :
            Begin(r, pc, c)
      BY <1>1, ArriveBegins
    <2>2. req'[r].pc = pc /\ req[r].pc = "idle" /\ row' = row /\ told' = told
      BY <2>1 DEF Begin
    <2> QED
      BY <2>2
  <1>2. ASSUME NEW r \in Slots, req[r].pc \notin {"notify", "answer"}, Finish(r),
               told' = told,
               \A d \in Couriers \ {req[r].courier} : row'[d] = row[d],
               \/ row' = row
               \/ row'[req[r].courier].status = "ACTIVE" /\ row'[req[r].courier].temporary
        PROVE  Heard'
    <2>1. req'[r].pc = "idle"
      BY <1>2 DEF Finish, NoRequest
    <2>2. \A d \in Couriers :
            \/ told[d] = row[d].status
            \/ row[d].status = "ACTIVE" /\ row[d].temporary
      BY <1>2
    <2> QED
      BY <1>2, <2>1, <2>2
  <1>3. ASSUME NEW r \in Slots, NEW s \in Status, req[r].pc \notin {"idle", "notify", "answer"},
               \/ Announce(r, s) /\ row'[req[r].courier].status = s
               \/ Reply(r),
               told' = told,
               \A d \in Couriers \ {req[r].courier} : row'[d] = row[d]
        PROVE  Heard'
    <2>1. /\ req'[r].pc \in {"notify", "answer"}
          /\ req'[r].courier = req[r].courier
          /\ req'[r].pc = "notify" => req'[r].news = row'[req[r].courier].status
      BY <1>3 DEF Announce, Reply, Requests
    <2> QED
      BY <1>3, <2>1
  <1>4. ASSUME NEW r \in Slots, Notify(r) \/ Answer(r)
        PROVE  Heard'
    <2>1. req'[r].pc = "idle" /\ row' = row
      BY <1>4 DEF Notify, Answer, Finish, NoRequest
    <2>2. \A d \in Couriers : told'[d] = IF d = req[r].courier THEN row[d].status ELSE told[d]
      BY <1>4 DEF Notify, Answer
    <2> QED
      BY <1>4, <2>1, <2>2
  <1>5. ASSUME NEW r \in Slots, Write(r)
        PROVE  Heard'
    <2> DEFINE c == req[r].courier
    <2>0. row \in [Couriers -> Rows] /\ (req[r].pc # "idle" => c \in Couriers)
      OBVIOUS
    <2>1. CASE CreateRequested(r)
      <3>1. CASE row[c].status = "none"
        BY <2>0, <2>1, <3>1, <1>3 DEF CreateRequested, Create, Status
      <3>2. CASE row[c].status # "none"
        <4>1. row' = row
          BY <2>0, <2>1, <3>2 DEF CreateRequested, Create
        <4> QED
          BY <2>0, <2>1, <3>2, <4>1, <1>2 DEF CreateRequested, Create
      <3> QED
        BY <3>1, <3>2
    <2>2. CASE CreateTemporary(r)
      <3>1. row' = row \/ row'[c] = Minted
        BY <2>0, <2>2 DEF CreateTemporary, Create, Minted
      <3> QED
        BY <2>0, <2>2, <3>1, <1>2 DEF CreateTemporary, Create, Minted
    <2>3. CASE Reopen(r)
      BY <2>0, <2>3, <1>3 DEF Reopen, Status
    <2>4. CASE CancelWrite(r)
      BY <2>0, <2>4, <1>3 DEF CancelWrite, Status
    <2>5. CASE ApproveWrite(r)
      <3>1. row'[c].status = "ACTIVE"
        BY <2>0, <2>5 DEF ApproveWrite, Rows
      <3> QED
        BY <2>0, <2>5, <3>1, <1>3 DEF ApproveWrite, Status
    <2>6. CASE RejectWrite(r)
      <3>1. row'[c].status = "REJECTED"
        BY <2>0, <2>6 DEF RejectWrite, Rows
      <3> QED
        BY <2>0, <2>6, <3>1, <1>3 DEF RejectWrite, Status
    <2>7. CASE RevokeWrite(r)
      <3>1. row'[c].status = "REVOKED"
        BY <2>0, <2>7 DEF RevokeWrite, Rows
      <3> QED
        BY <2>0, <2>7, <3>1, <1>3 DEF RevokeWrite, Status
    <2> QED
      BY <1>4, <1>5, <2>1, <2>2, <2>3, <2>4, <2>5, <2>6, <2>7 DEF Write
  <1>6. ASSUME NEW r \in Slots, Die(r)
        PROVE  Heard'
    BY <1>6 DEF Die
  <1>7. ASSUME NEW c \in Couriers, Expire(c)
        PROVE  Heard'
    <2>1. \A d \in Couriers : /\ row'[d].status = row[d].status
                              /\ row'[d].temporary = row[d].temporary
      BY <1>7 DEF Expire, Rows
    <2> QED
      BY <1>7, <2>1 DEF Expire
  <1>8. CASE UNCHANGED vars
    BY <1>8 DEF vars
  <1> QED
    BY <1>1, <1>5, <1>6, <1>7, <1>8 DEF Next

\* One handler at a time, and no handler dying half-way, a courier heard how
\* his contract stands, the seller's revoke and his own calls included
\* (Contracts.CourierKnows); temporary contracts are made in silence.
THEOREM SerialNews ==
  ASSUME OneSlot, ~CanFail
  PROVE  Spec => []CourierKnows
  <1>1. Init => Heard
    BY DEF Init, Heard, NoRow, NoRequest
  <1>2. Heard => CourierKnows
    BY DEF Heard, CourierKnows
  <1> QED
    BY <1>1, <1>2, InitType, StepType, StepHeard, PTL DEF Spec

=============================================================================
