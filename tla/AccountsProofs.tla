--------------------------- MODULE AccountsProofs ---------------------------
(***************************************************************************)
(* Theorems about sessions and codes, staff, linking, the moderation of    *)
(* shops, the inbox, and the panels that show them, for any number of      *)
(* codes, tokens, tries, users, shops, contacts, deliveries, notifications *)
(* and handlers that may die between any two calls; and of all of them     *)
(* together.                                                               *)
(***************************************************************************)
EXTENDS MCAccounts, PanelsProofs, SequenceTheorems, FiniteSetTheorems, TLAPS

-----------------------------------------------------------------------------
(* Counting handlers.                                                      *)

LEMMA WidthIsNat == Width \in Nat \ {0}
  BY SlotsAssumption, FS_CardinalityType, FS_EmptySet DEF Width

\* Any set of slots is at most as large as Slots, smaller if it misses one.
LEMMA SlotsBound ==
  ASSUME NEW A, A \subseteq Slots
  PROVE  /\ IsFiniteSet(A) /\ Cardinality(A) \in Nat /\ Cardinality(A) <= Width
         /\ \A r \in Slots \ A : Cardinality(A) < Width
  <1>1. IsFiniteSet(A) /\ Cardinality(A) \in Nat /\ Cardinality(A) <= Width
    BY SlotsAssumption, FS_Subset, FS_CardinalityType DEF Width
  <1>2. ASSUME NEW r \in Slots \ A PROVE Cardinality(A) < Width
    <2>1. A # Slots
      OBVIOUS
    <2>2. Cardinality(A) # Cardinality(Slots)
      BY <2>1, SlotsAssumption, FS_Subset
    <2> QED
      BY <1>1, <2>2, WidthIsNat DEF Width
  <1> QED
    BY <1>1, <1>2

LEMMA Fewer ==
  ASSUME NEW A, NEW B, IsFiniteSet(A), B \subseteq A
  PROVE  /\ IsFiniteSet(B)
         /\ Cardinality(A) \in Nat /\ Cardinality(B) \in Nat
         /\ Cardinality(B) <= Cardinality(A)
         /\ \A x \in A \ B : Cardinality(B) + 1 <= Cardinality(A)
  <1>1. /\ IsFiniteSet(B) /\ Cardinality(B) <= Cardinality(A)
        /\ Cardinality(A) \in Nat /\ Cardinality(B) \in Nat
    BY FS_Subset, FS_CardinalityType
  <1>2. ASSUME NEW x \in A \ B PROVE Cardinality(B) + 1 <= Cardinality(A)
    <2>1. B # A
      OBVIOUS
    <2>2. Cardinality(B) # Cardinality(A)
      BY <2>1, FS_Subset
    <2> QED
      BY <1>1, <2>2
  <1> QED
    BY <1>1, <1>2

-----------------------------------------------------------------------------
(* Types.                                                                  *)

LEMMA SessionsInitType == SessionsInit => SessionsTypeOK
  BY DEF SessionsInit, SessionsTypeOK, OtpRows, SessionRows, Handlers, HandlerPCs, Idle,
     CarriesItsReads

\* A slot gets a new handler, or its handler moves to its next call.
LEMMA SlotType ==
  ASSUME SessionsTypeOK, NEW r \in Slots, NEW q \in Handlers, CarriesItsReads(q),
         handler' = [handler EXCEPT ![r] = q]
  PROVE  /\ handler' \in [Slots -> Handlers]
         /\ \A s \in Slots : CarriesItsReads(handler'[s])
         /\ \A s \in Slots : handler'[s] = IF s = r THEN q ELSE handler[s]
  BY DEF SessionsTypeOK

\* The handler of a slot, what it carries and where its next call may be.
LEMMA SlotNow ==
  ASSUME SessionsTypeOK, NEW r \in Slots
  PROVE  /\ handler[r] \in Handlers /\ CarriesItsReads(handler[r])
         /\ handler[r].pc \in HandlerPCs
         /\ handler[r].account \in Accounts \cup {NoOne}
         /\ handler[r].code \in Nat
         /\ handler[r].token \in Tokens \cup {NoOne}
  BY DEF SessionsTypeOK, Handlers

LEMMA IdleType == Idle \in Handlers /\ CarriesItsReads(Idle) /\ Idle.pc = "idle"
  BY DEF Idle, Handlers, HandlerPCs, CarriesItsReads

LEMMA AnswerSlot ==
  ASSUME SessionsTypeOK, NEW r \in Slots, Answer(r)
  PROVE  /\ handler' \in [Slots -> Handlers]
         /\ \A s \in Slots : CarriesItsReads(handler'[s])
         /\ \A s \in Slots : handler'[s] = IF s = r THEN Idle ELSE handler[s]
  BY IdleType, SlotType DEF Answer

\* From one call to the next a handler keeps what it read.
LEMMA NextSlot ==
  ASSUME SessionsTypeOK, NEW r \in Slots, NEW pc \in HandlerPCs, NextCall(r, pc),
         CarriesItsReads([handler[r] EXCEPT !.pc = pc])
  PROVE  /\ handler' \in [Slots -> Handlers]
         /\ \A s \in Slots : CarriesItsReads(handler'[s])
         /\ \A s \in Slots : handler'[s] = IF s = r THEN [handler[r] EXCEPT !.pc = pc] ELSE handler[s]
  <1> DEFINE q == [handler[r] EXCEPT !.pc = pc]
  <1>1. q \in Handlers
    BY SlotNow DEF Handlers
  <1>2. handler' = [handler EXCEPT ![r] = q]
    BY DEF NextCall, SessionsTypeOK
  <1> QED
    BY <1>1, <1>2, SlotType

LEMMA StartSlot ==
  ASSUME SessionsTypeOK, NEW r \in Slots, NEW pc \in HandlerPCs, NEW a \in Accounts,
         NEW k \in Nat, NEW t \in Tokens \cup {NoOne}, StartHandler(r, pc, a, k, t),
         CarriesItsReads([pc |-> pc, account |-> a, code |-> k, token |-> t])
  PROVE  /\ handler' \in [Slots -> Handlers]
         /\ \A s \in Slots : CarriesItsReads(handler'[s])
         /\ \A s \in Slots : handler'[s] = IF s = r THEN [pc |-> pc, account |-> a, code |-> k, token |-> t]
                                           ELSE handler[s]
         /\ handler[r].pc = "idle" /\ UNCHANGED <<otp, session, blocked, halfway>>
  <1> DEFINE q == [pc |-> pc, account |-> a, code |-> k, token |-> t]
  <1>1. q \in Handlers
    BY DEF Handlers
  <1>2. handler' = [handler EXCEPT ![r] = q]
    BY DEF StartHandler
  <1> QED
    BY <1>1, <1>2, SlotType DEF StartHandler


\* A row somebody logged in with has an owner, and a refresh holds such a row.
Rooted ==
  /\ SessionsTypeOK
  /\ \A t \in Tokens : session[t].state # "unused" => session[t].owner \in Accounts
  /\ \A r \in Slots : handler[r].pc = "revoke" => session[handler[r].token].state # "unused"

\* What a handler knows when it arrives.
KnowsItsRows(q) ==
  /\ q.pc \in {"code", "wrong", "user", "issue", "revoke", "block", "unblock"}
  /\ q.pc \in {"wrong", "user"} =>
       /\ otp[q.account][q.code].state = "open"
       /\ otp[q.account][q.code].attempts < MaxAttempts
  /\ q.pc = "issue" => q.account \notin blocked
  /\ q.pc = "revoke" => session[q.token].state = "live"

LEMMA Arrival ==
  ASSUME Rooted, NEW r \in Slots, HandlerArrives(r)
  PROVE  \E q \in Handlers :
           /\ CarriesItsReads(q) /\ KnowsItsRows(q) /\ handler[r].pc = "idle"
           /\ handler' = [handler EXCEPT ![r] = q]
           /\ UNCHANGED <<otp, session, blocked, halfway>>
  <1> USE AccountAssumption, LimitAssumption
  <1>0. blocked \subseteq Users /\ Users \subseteq Accounts /\ Admins \subseteq Accounts
    BY DEF Rooted, SessionsTypeOK, Accounts
  <1> DEFINE Q(pc, a, k, t) == [pc |-> pc, account |-> a, code |-> k, token |-> t]
  <1>1. ASSUME NEW pc \in HandlerPCs, NEW a \in Accounts, NEW k \in Nat, NEW t \in Tokens \cup {NoOne},
               StartHandler(r, pc, a, k, t), CarriesItsReads(Q(pc, a, k, t)),
               KnowsItsRows(Q(pc, a, k, t))
        PROVE  \E q \in Handlers :
                 /\ CarriesItsReads(q) /\ KnowsItsRows(q) /\ handler[r].pc = "idle"
                 /\ handler' = [handler EXCEPT ![r] = q]
                 /\ UNCHANGED <<otp, session, blocked, halfway>>
    <2>1. Q(pc, a, k, t) \in Handlers
      BY DEF Handlers
    <2> QED
      BY <1>1, <2>1 DEF StartHandler
  <1>2. ASSUME NEW u \in Users, NEW pc \in {"code", "issue", "block", "unblock"},
               StartHandler(r, pc, u, 0, NoOne), pc = "issue" => u \notin blocked
        PROVE  \E q \in Handlers :
                 /\ CarriesItsReads(q) /\ KnowsItsRows(q) /\ handler[r].pc = "idle"
                 /\ handler' = [handler EXCEPT ![r] = q]
                 /\ UNCHANGED <<otp, session, blocked, halfway>>
    <2>1. CarriesItsReads(Q(pc, u, 0, NoOne)) /\ KnowsItsRows(Q(pc, u, 0, NoOne))
      BY <1>0, <1>2 DEF CarriesItsReads, KnowsItsRows
    <2>2. pc \in HandlerPCs /\ u \in Accounts /\ 0 \in Nat /\ NoOne \in Tokens \cup {NoOne}
      BY <1>0 DEF HandlerPCs
    <2> QED
      BY <1>1, <1>2, <2>1, <2>2
  <1>3. ASSUME NEW u \in Users, RequestPhoneOtp(r, u) \/ LoginViaMiniApp(r, u)
                                \/ Block(r, u) \/ Unblock(r, u)
        PROVE  \E pc \in {"code", "issue", "block", "unblock"} :
                 StartHandler(r, pc, u, 0, NoOne) /\ (pc = "issue" => u \notin blocked)
    BY <1>3 DEF RequestPhoneOtp, LoginViaMiniApp, Block, Unblock
  <1>4. ASSUME NEW u \in Users, NEW right \in BOOLEAN, VerifyPhoneOtp(r, u, right)
        PROVE  \E q \in Handlers :
                 /\ CarriesItsReads(q) /\ KnowsItsRows(q) /\ handler[r].pc = "idle"
                 /\ handler' = [handler EXCEPT ![r] = q]
                 /\ UNCHANGED <<otp, session, blocked, halfway>>
    <2> DEFINE pc == IF right THEN "user" ELSE "wrong"
    <2>1. PICK k \in Codes : /\ otp[u][k].state = "open" /\ otp[u][k].attempts < MaxAttempts
                             /\ StartHandler(r, pc, u, k, NoOne)
      BY <1>4 DEF VerifyPhoneOtp, IsNewestOpen
    <2>2. pc \in {"user", "wrong"} /\ k \in Nat
      BY DEF Codes
    <2> HIDE DEF pc
    <2>3. CarriesItsReads(Q(pc, u, k, NoOne)) /\ KnowsItsRows(Q(pc, u, k, NoOne))
      BY <1>0, <2>1, <2>2 DEF CarriesItsReads, KnowsItsRows
    <2>4. pc \in HandlerPCs /\ u \in Accounts /\ NoOne \in Tokens \cup {NoOne}
      BY <1>0, <2>2 DEF HandlerPCs
    <2> QED
      BY <1>1, <2>1, <2>2, <2>3, <2>4
  <1>5. ASSUME NEW a \in Admins, SuperAdminLogin(r, a)
        PROVE  \E q \in Handlers :
                 /\ CarriesItsReads(q) /\ KnowsItsRows(q) /\ handler[r].pc = "idle"
                 /\ handler' = [handler EXCEPT ![r] = q]
                 /\ UNCHANGED <<otp, session, blocked, halfway>>
    <2>1. CarriesItsReads(Q("issue", a, 0, NoOne)) /\ KnowsItsRows(Q("issue", a, 0, NoOne))
      BY <1>0 DEF CarriesItsReads, KnowsItsRows
    <2>2. "issue" \in HandlerPCs /\ a \in Accounts /\ 0 \in Nat /\ NoOne \in Tokens \cup {NoOne}
      BY <1>0 DEF HandlerPCs
    <2>3. StartHandler(r, "issue", a, 0, NoOne)
      BY <1>5 DEF SuperAdminLogin
    <2> QED
      BY <1>1, <2>1, <2>2, <2>3
  <1>6. ASSUME NEW t \in Tokens, Refresh(r, t)
        PROVE  \E q \in Handlers :
                 /\ CarriesItsReads(q) /\ KnowsItsRows(q) /\ handler[r].pc = "idle"
                 /\ handler' = [handler EXCEPT ![r] = q]
                 /\ UNCHANGED <<otp, session, blocked, halfway>>
    <2> DEFINE a == session[t].owner
    <2>1. session[t].state = "live" /\ a \in Accounts /\ StartHandler(r, "revoke", a, 0, t)
      BY <1>6 DEF Refresh, Rooted
    <2> HIDE DEF a
    <2>2. CarriesItsReads(Q("revoke", a, 0, t)) /\ KnowsItsRows(Q("revoke", a, 0, t))
      BY <1>0, <2>1 DEF CarriesItsReads, KnowsItsRows
    <2>3. "revoke" \in HandlerPCs /\ 0 \in Nat /\ t \in Tokens \cup {NoOne}
      BY DEF HandlerPCs
    <2> QED
      BY <1>1, <2>1, <2>2, <2>3
  <1> QED
    BY <1>2, <1>3, <1>4, <1>5, <1>6 DEF HandlerArrives

LEMMA RootedInit == SessionsInit => Rooted
  BY SessionsInitType DEF SessionsInit, Rooted, Idle

\* A step that rewrites one code, or one session.
OneCode(u, k, wrote) ==
  /\ otp' \in [Users -> [Codes -> OtpRows]]
  /\ \A v \in Users, j \in Codes : otp'[v][j] = IF v = u /\ j = k THEN wrote ELSE otp[v][j]

OneSession(t, wrote) ==
  /\ session' \in [Tokens -> SessionRows]
  /\ \A x \in Tokens : session'[x] = IF x = t THEN wrote ELSE session[x]

LEMMA OtpStep ==
  ASSUME SessionsTypeOK, NEW u \in Users, NEW k \in Codes, NEW wrote \in OtpRows,
         otp' = [otp EXCEPT ![u][k] = wrote]
  PROVE  OneCode(u, k, wrote)
  BY DEF SessionsTypeOK, OneCode

LEMMA SessionStep ==
  ASSUME SessionsTypeOK, NEW t \in Tokens, NEW wrote \in SessionRows,
         session' = [session EXCEPT ![t] = wrote]
  PROVE  OneSession(t, wrote)
  BY DEF SessionsTypeOK, OneSession

LEMMA OtpCounts ==
  ASSUME SessionsTypeOK, NEW u \in Users, NEW k \in Codes
  PROVE  otp[u][k].attempts \in Nat /\ otp[u][k].used \in Nat
  BY DEF SessionsTypeOK, OtpRows

LEMMA OtpRow ==
  ASSUME SessionsTypeOK, NEW u \in Users, NEW k \in Codes
  PROVE  /\ otp[u][k] \in OtpRows
         /\ \A v \in {"none", "open", "over"} : [otp[u][k] EXCEPT !.state = v] \in OtpRows
         /\ \A n \in Nat : [otp[u][k] EXCEPT !.attempts = n] \in OtpRows
         /\ \A n \in Nat : [otp[u][k] EXCEPT !.state = "over", !.used = n] \in OtpRows
  <1>1. otp[u][k] \in OtpRows
    BY DEF SessionsTypeOK
  <1> QED
    BY <1>1 DEF OtpRows

\* The four steps that rewrite a code.
LEMMA CreateForm ==
  ASSUME SessionsTypeOK, NEW r \in Slots, CreateOtp(r)
  PROVE  \E u \in Users, k \in Codes :
           /\ otp[u][k].state = "none" /\ OneCode(u, k, [otp[u][k] EXCEPT !.state = "open"])
           /\ Answer(r) /\ UNCHANGED <<session, blocked, halfway>>
  <1> DEFINE u == handler[r].account
  <1>1. u \in Users /\ Answer(r) /\ UNCHANGED <<session, blocked, halfway>>
    BY SlotNow DEF CreateOtp, CarriesItsReads
  <1>2. PICK k \in Codes : otp[u][k].state = "none" /\ otp' = [otp EXCEPT ![u][k].state = "open"]
    BY DEF CreateOtp
  <1> DEFINE wrote == [otp[u][k] EXCEPT !.state = "open"]
  <1>3. wrote \in OtpRows /\ otp' = [otp EXCEPT ![u][k] = wrote]
    BY <1>1, <1>2, OtpRow
  <1>4. OneCode(u, k, wrote)
    BY <1>1, <1>3, OtpStep
  <1> QED
    BY <1>1, <1>2, <1>4

LEMMA WrongForm ==
  ASSUME SessionsTypeOK, NEW r \in Slots, WrongCode(r)
  PROVE  /\ handler[r].pc = "wrong" /\ handler[r].account \in Users /\ handler[r].code \in Codes
         /\ OneCode(handler[r].account, handler[r].code,
                    [otp[handler[r].account][handler[r].code] EXCEPT !.attempts = @ + 1])
         /\ Answer(r) /\ UNCHANGED <<session, blocked, halfway>>
  <1> DEFINE u == handler[r].account
             k == handler[r].code
             wrote == [otp[u][k] EXCEPT !.attempts = @ + 1]
  <1>1. handler[r].pc = "wrong" /\ u \in Users /\ k \in Codes
    BY SlotNow DEF WrongCode, CarriesItsReads
  <1>2. Answer(r) /\ UNCHANGED <<session, blocked, halfway>>
    BY DEF WrongCode
  <1>3. otp' = [otp EXCEPT ![u][k].attempts = @ + 1]
    BY DEF WrongCode
  <1> HIDE DEF u, k
  <1>4. wrote \in OtpRows
    <2>1. otp[u][k].attempts + 1 \in Nat
      BY <1>1, OtpCounts
    <2> QED
      BY <1>1, <2>1, OtpRow
  <1>5. otp' = [otp EXCEPT ![u][k] = wrote]
    BY <1>3
  <1>6. OneCode(u, k, wrote)
    BY <1>1, <1>4, <1>5, OtpStep
  <1> QED
    BY <1>1, <1>2, <1>6 DEF u, k

LEMMA ConsumeForm ==
  ASSUME SessionsTypeOK, NEW r \in Slots, ConsumeOtp(r)
  PROVE  /\ handler[r].pc = "consume" /\ handler[r].account \in Users /\ handler[r].code \in Codes
         /\ OneCode(handler[r].account, handler[r].code,
                    [otp[handler[r].account][handler[r].code] EXCEPT !.state = "over", !.used = @ + 1])
         /\ NextCall(r, "issue") /\ UNCHANGED <<session, blocked, halfway>>
  <1> DEFINE u == handler[r].account
             k == handler[r].code
             wrote == [otp[u][k] EXCEPT !.state = "over", !.used = @ + 1]
  <1>1. handler[r].pc = "consume" /\ u \in Users /\ k \in Codes
    BY SlotNow DEF ConsumeOtp, CarriesItsReads
  <1>2. NextCall(r, "issue") /\ UNCHANGED <<session, blocked, halfway>>
    BY DEF ConsumeOtp
  <1>3. otp' = [otp EXCEPT ![u][k].state = "over", ![u][k].used = @ + 1]
    BY DEF ConsumeOtp
  <1> HIDE DEF u, k
  <1>4. wrote \in OtpRows
    <2>1. otp[u][k].used + 1 \in Nat
      BY <1>1, OtpCounts
    <2> QED
      BY <1>1, <2>1, OtpRow
  <1>5. otp' = [otp EXCEPT ![u][k] = wrote]
    <2>1. [otp[u][k] EXCEPT !.state = "over"].used = otp[u][k].used
      BY <1>1, OtpRow DEF OtpRows
    <2> QED
      BY <1>1, <1>3, <2>1 DEF SessionsTypeOK
  <1>6. OneCode(u, k, wrote)
    BY <1>1, <1>4, <1>5, OtpStep
  <1> QED
    BY <1>1, <1>2, <1>6 DEF u, k

LEMMA ExpireForm ==
  ASSUME SessionsTypeOK, NEW u \in Users, NEW k \in Codes, ExpireOtp(u, k)
  PROVE  /\ otp[u][k].state = "open" /\ OneCode(u, k, [otp[u][k] EXCEPT !.state = "over"])
         /\ UNCHANGED <<session, blocked, halfway, handler>>
  <1> DEFINE wrote == [otp[u][k] EXCEPT !.state = "over"]
  <1>1. /\ otp[u][k].state = "open" /\ otp' = [otp EXCEPT ![u][k] = wrote]
        /\ UNCHANGED <<session, blocked, halfway, handler>>
    BY DEF ExpireOtp
  <1>2. wrote \in OtpRows
    BY OtpRow
  <1> QED
    BY <1>1, <1>2, OtpStep

\* The two steps of handlers that rewrite a session.
LEMMA RevokeForm ==
  ASSUME SessionsTypeOK, NEW r \in Slots, RevokeOld(r)
  PROVE  /\ handler[r].pc = "revoke" /\ handler[r].token \in Tokens
         /\ OneSession(handler[r].token,
                       [session[handler[r].token] EXCEPT !.state = "over", !.spent = @ + 1])
         /\ \E pc \in {"reload", "issue"} :
              /\ NextCall(r, pc)
              /\ handler[r].account \in blocked => pc = "reload"
              /\ pc = "reload" => handler[r].account \in Users
         /\ UNCHANGED <<otp, blocked, halfway>>
  <1> DEFINE t == handler[r].token
             wrote == [session[t] EXCEPT !.state = "over", !.spent = @ + 1]
             pc == IF handler[r].account \in Users THEN "reload" ELSE "issue"
  <1>1. handler[r].pc = "revoke" /\ t \in Tokens
    BY SlotNow DEF RevokeOld, CarriesItsReads
  <1>2. NextCall(r, pc) /\ UNCHANGED <<otp, blocked, halfway>>
    BY DEF RevokeOld
  <1>3. /\ pc \in {"reload", "issue"}
        /\ handler[r].account \in blocked => pc = "reload"
        /\ pc = "reload" => handler[r].account \in Users
    BY DEF SessionsTypeOK
  <1> HIDE DEF pc
  <1>4. session' = [session EXCEPT ![t].state = "over", ![t].spent = @ + 1]
    BY DEF RevokeOld
  <1> HIDE DEF t
  <1>5. session[t] \in SessionRows
    BY <1>1 DEF SessionsTypeOK
  <1>6. wrote \in SessionRows
    <2>1. session[t].spent + 1 \in Nat
      BY <1>5 DEF SessionRows
    <2> QED
      BY <1>5, <2>1 DEF SessionRows
  <1>7. session' = [session EXCEPT ![t] = wrote]
    <2>1. [session[t] EXCEPT !.state = "over"].spent = session[t].spent
      BY <1>5 DEF SessionRows
    <2> QED
      BY <1>1, <1>4, <2>1 DEF SessionsTypeOK
  <1>8. OneSession(t, wrote)
    BY <1>1, <1>6, <1>7, SessionStep
  <1> QED
    BY <1>1, <1>2, <1>3, <1>8 DEF t

LEMMA IssueForm ==
  ASSUME SessionsTypeOK, NEW r \in Slots, IssueTokens(r)
  PROVE  /\ handler[r].pc = "issue" /\ handler[r].account \in Accounts
         /\ \E t \in Tokens :
              /\ session[t].state = "unused"
              /\ OneSession(t, [state |-> "live", owner |-> handler[r].account, spent |-> 0])
         /\ Answer(r) /\ UNCHANGED <<otp, blocked, halfway>>
  <1> DEFINE wrote == [state |-> "live", owner |-> handler[r].account, spent |-> 0]
  <1>1. handler[r].pc = "issue" /\ handler[r].account \in Accounts
    BY SlotNow DEF IssueTokens, CarriesItsReads
  <1>2. Answer(r) /\ UNCHANGED <<otp, blocked, halfway>>
    BY DEF IssueTokens
  <1>3. PICK t \in Tokens : session[t].state = "unused" /\ session' = [session EXCEPT ![t] = wrote]
    BY DEF IssueTokens
  <1>4. wrote \in SessionRows
    BY <1>1 DEF SessionRows
  <1>5. OneSession(t, wrote)
    BY <1>3, <1>4, SessionStep
  <1> QED
    BY <1>1, <1>2, <1>3, <1>5

\* The steps that end sessions.
EndsSessions(X) ==
  /\ session' \in [Tokens -> SessionRows]
  /\ \A t \in Tokens : /\ session'[t].owner = session[t].owner
                       /\ session'[t].spent = session[t].spent
                       /\ session'[t].state = IF t \in X THEN "over" ELSE session[t].state

LEMMA EndForm ==
  ASSUME SessionsTypeOK, NEW X \in SUBSET Tokens,
         session' = [t \in Tokens |-> IF t \in X THEN [session[t] EXCEPT !.state = "over"]
                                      ELSE session[t]]
  PROVE  EndsSessions(X)
  BY DEF SessionsTypeOK, SessionRows, EndsSessions

LEMMA CutOffForm ==
  ASSUME SessionsTypeOK, NEW r \in Slots, CutOff(r)
  PROVE  /\ handler[r].pc = "cutoff" /\ Answer(r) /\ UNCHANGED <<otp, blocked>>
         /\ halfway' = halfway \ {handler[r].account}
         /\ EndsSessions({t \in Tokens : session[t].owner = handler[r].account
                                         /\ session[t].state # "unused"})
  <1> DEFINE X == {t \in Tokens : session[t].owner = handler[r].account
                                  /\ session[t].state # "unused"}
  <1>1. session' = [t \in Tokens |-> IF t \in X THEN [session[t] EXCEPT !.state = "over"]
                                     ELSE session[t]]
    BY DEF CutOff
  <1>2. X \in SUBSET Tokens
    OBVIOUS
  <1> HIDE DEF X
  <1>3. EndsSessions(X)
    BY <1>1, <1>2, EndForm
  <1> QED
    BY <1>3 DEF X, CutOff

LEMMA LogoutForm ==
  ASSUME SessionsTypeOK, NEW t \in Tokens, Logout(t) \/ ExpireSession(t)
  PROVE  /\ session[t].state # "unused" /\ UNCHANGED <<otp, blocked, halfway, handler>>
         /\ EndsSessions({t})
  <1>1. /\ session[t].state # "unused" /\ UNCHANGED <<otp, blocked, halfway, handler>>
        /\ session' = [session EXCEPT ![t].state = "over"]
    BY DEF Logout, ExpireSession
  <1>2. session' = [x \in Tokens |-> IF x \in {t} THEN [session[x] EXCEPT !.state = "over"]
                                     ELSE session[x]]
    BY <1>1 DEF SessionsTypeOK
  <1> QED
    BY <1>1, <1>2, EndForm

LEMMA RootedStep == ASSUME Rooted, [SessionsNext]_sessionVars PROVE Rooted'
  <1> USE DEF Rooted
  <1>1. ASSUME NEW r \in Slots, HandlerArrives(r)
        PROVE  Rooted'
    <2>1. PICK q \in Handlers :
            /\ CarriesItsReads(q) /\ KnowsItsRows(q) /\ handler[r].pc = "idle"
            /\ handler' = [handler EXCEPT ![r] = q]
            /\ UNCHANGED <<otp, session, blocked, halfway>>
      BY <1>1, Arrival
    <2>2. /\ handler' \in [Slots -> Handlers]
          /\ \A s \in Slots : CarriesItsReads(handler'[s])
          /\ \A s \in Slots : handler'[s] = IF s = r THEN q ELSE handler[s]
      BY <2>1, SlotType
    <2>3. SessionsTypeOK'
      BY <2>1, <2>2 DEF SessionsTypeOK
    <2> QED
      BY <2>1, <2>2, <2>3 DEF KnowsItsRows
  <1>2. ASSUME NEW r \in Slots, Answer(r), UNCHANGED <<otp, session>>,
               blocked' \subseteq Users, halfway' \subseteq Users
        PROVE  Rooted'
    <2>1. SessionsTypeOK'
      BY <1>2, AnswerSlot DEF SessionsTypeOK
    <2> QED
      BY <1>2, <2>1, AnswerSlot, IdleType
  <1>3. ASSUME NEW r \in Slots, NEW pc \in HandlerPCs \ {"revoke"}, NextCall(r, pc),
               CarriesItsReads([handler[r] EXCEPT !.pc = pc]), UNCHANGED session,
               otp' \in [Users -> [Codes -> OtpRows]], blocked' \subseteq Users, UNCHANGED halfway
        PROVE  Rooted'
    <2>1. SessionsTypeOK'
      BY <1>3, NextSlot DEF SessionsTypeOK
    <2>2. [handler[r] EXCEPT !.pc = pc].pc = pc
      BY SlotNow DEF Handlers
    <2> QED
      BY <1>3, <2>1, <2>2, NextSlot
  <1>4. ASSUME NEW r \in Slots, CreateOtp(r) \/ WrongCode(r)
        PROVE  Rooted'
    <2>1. /\ Answer(r) /\ UNCHANGED <<session, blocked, halfway>>
          /\ otp' \in [Users -> [Codes -> OtpRows]]
      BY <1>4, CreateForm, WrongForm DEF OneCode
    <2>2. SessionsTypeOK'
      BY <2>1, AnswerSlot DEF SessionsTypeOK
    <2> QED
      BY <2>1, <2>2, AnswerSlot, IdleType
  <1>5. ASSUME NEW r \in Slots, LoadUser(r) \/ ReloadUser(r)
        PROVE  Rooted'
    <2>1. CASE handler[r].account \in blocked
      BY <1>2, <1>5, <2>1 DEF LoadUser, ReloadUser, SessionsTypeOK
    <2>2. CASE handler[r].account \notin blocked
      <3>1. PICK pc \in {"consume", "issue"} :
              /\ NextCall(r, pc) /\ UNCHANGED <<otp, session, blocked, halfway>>
              /\ pc = "consume" => handler[r].pc = "user"
              /\ handler[r].pc # "idle"
        BY <1>5, <2>2 DEF LoadUser, ReloadUser
      <3>2. CarriesItsReads([handler[r] EXCEPT !.pc = pc])
        BY <3>1, SlotNow DEF CarriesItsReads, Handlers
      <3>3. pc \in HandlerPCs \ {"revoke"}
        BY DEF HandlerPCs
      <3> QED
        BY <1>3, <3>1, <3>2, <3>3 DEF SessionsTypeOK
    <2> QED
      BY <2>1, <2>2
  <1>6. ASSUME NEW r \in Slots, ConsumeOtp(r)
        PROVE  Rooted'
    <2>1. /\ handler[r].pc = "consume" /\ NextCall(r, "issue")
          /\ UNCHANGED <<session, blocked, halfway>>
          /\ otp' \in [Users -> [Codes -> OtpRows]]
      BY <1>6, ConsumeForm DEF OneCode
    <2>2. CarriesItsReads([handler[r] EXCEPT !.pc = "issue"])
      BY <2>1, SlotNow DEF CarriesItsReads, Handlers
    <2> QED
      BY <1>3, <2>1, <2>2 DEF HandlerPCs, SessionsTypeOK
  <1>7. ASSUME NEW r \in Slots, RevokeOld(r)
        PROVE  Rooted'
    <2> DEFINE t == handler[r].token
               wrote == [session[t] EXCEPT !.state = "over", !.spent = @ + 1]
    <2>1. /\ handler[r].pc = "revoke" /\ t \in Tokens /\ OneSession(t, wrote)
          /\ UNCHANGED <<otp, blocked, halfway>>
      BY <1>7, RevokeForm
    <2>2. PICK pc \in {"reload", "issue"} :
            NextCall(r, pc) /\ (pc = "reload" => handler[r].account \in Users)
      BY <1>7, RevokeForm
    <2>3. session[t].state # "unused" /\ session[t] \in SessionRows
      BY <2>1 DEF SessionsTypeOK
    <2>4. wrote.state = "over" /\ wrote.owner = session[t].owner
      BY <2>3 DEF SessionRows
    <2>5. /\ pc \in HandlerPCs /\ pc # "revoke"
          /\ CarriesItsReads([handler[r] EXCEPT !.pc = pc])
          /\ [handler[r] EXCEPT !.pc = pc].pc = pc
      BY <2>1, <2>2, SlotNow DEF CarriesItsReads, Handlers, HandlerPCs
    <2> HIDE DEF t, wrote
    <2>6. /\ handler' \in [Slots -> Handlers]
          /\ \A x \in Slots : CarriesItsReads(handler'[x])
          /\ \A x \in Slots : handler'[x] = IF x = r THEN [handler[r] EXCEPT !.pc = pc] ELSE handler[x]
      BY <2>2, <2>5, NextSlot
    <2>7. SessionsTypeOK'
      BY <2>1, <2>6 DEF SessionsTypeOK, OneSession
    <2>8. \A x \in Slots : handler'[x].pc = "revoke" => handler'[x] = handler[x]
      BY <2>5, <2>6
    <2>9. \A x \in Slots : handler[x].pc = "revoke" => handler[x].token \in Tokens
      BY SlotNow DEF CarriesItsReads
    <2> QED
      BY <2>1, <2>3, <2>4, <2>7, <2>8, <2>9 DEF OneSession
  <1>8. ASSUME NEW r \in Slots, IssueTokens(r)
        PROVE  Rooted'
    <2> DEFINE wrote == [state |-> "live", owner |-> handler[r].account, spent |-> 0]
    <2>1. /\ handler[r].pc = "issue" /\ Answer(r) /\ UNCHANGED <<otp, blocked, halfway>>
          /\ handler[r].account \in Accounts
      BY <1>8, IssueForm
    <2>2. PICK t \in Tokens : OneSession(t, wrote)
      BY <1>8, IssueForm
    <2>3. wrote.owner \in Accounts /\ wrote.state = "live"
      BY <2>1
    <2> HIDE DEF wrote
    <2>6. SessionsTypeOK'
      BY <2>1, <2>2, AnswerSlot DEF SessionsTypeOK, OneSession
    <2>7. \A x \in Slots : handler'[x].pc = "revoke" => handler'[x] = handler[x]
      BY <2>1, AnswerSlot, IdleType
    <2>8. \A x \in Slots : handler[x].pc = "revoke" => handler[x].token \in Tokens
      BY SlotNow DEF CarriesItsReads
    <2> QED
      BY <2>2, <2>3, <2>6, <2>7, <2>8 DEF OneSession
  <1>9. ASSUME NEW r \in Slots, BlockWrite(r)
        PROVE  Rooted'
    <2>1. /\ handler[r].pc = "block" /\ NextCall(r, "cutoff")
          /\ blocked' = blocked \cup {handler[r].account}
          /\ UNCHANGED <<otp, session, halfway>>
      BY <1>9 DEF BlockWrite
    <2>2. CarriesItsReads([handler[r] EXCEPT !.pc = "cutoff"])
      BY <2>1, SlotNow DEF CarriesItsReads, Handlers
    <2>3. blocked' \subseteq Users
      BY <2>1, SlotNow DEF CarriesItsReads, SessionsTypeOK
    <2> QED
      BY <1>3, <2>1, <2>2, <2>3 DEF HandlerPCs, SessionsTypeOK
  <1>10. ASSUME NEW r \in Slots, UnblockWrite(r) \/ HandlerDies(r)
         PROVE  Rooted'
    <2>1. blocked' \subseteq Users /\ halfway' \subseteq Users
      BY <1>10, SlotNow DEF UnblockWrite, HandlerDies, SessionsTypeOK, CarriesItsReads
    <2> QED
      BY <1>2, <1>10, <2>1 DEF UnblockWrite, HandlerDies
  <1>12. ASSUME NEW r \in Slots, CutOff(r)
         PROVE  Rooted'
    <2> DEFINE X == {t \in Tokens : session[t].owner = handler[r].account
                                    /\ session[t].state # "unused"}
    <2>1. /\ Answer(r) /\ halfway' \subseteq Users /\ UNCHANGED <<otp, blocked>>
          /\ EndsSessions(X)
      BY <1>12, CutOffForm DEF SessionsTypeOK
    <2>2. \A t \in Tokens : session[t].state = "unused" => t \notin X
      OBVIOUS
    <2> HIDE DEF X
    <2>3. SessionsTypeOK'
      BY <2>1, AnswerSlot DEF SessionsTypeOK, EndsSessions
    <2>4. \A t \in Tokens : /\ session'[t].owner = session[t].owner
                            /\ session'[t].state = "unused" <=> session[t].state = "unused"
      BY <2>1, <2>2 DEF EndsSessions
    <2>6. \A x \in Slots : handler'[x].pc = "revoke" => handler'[x] = handler[x]
      BY <2>1, AnswerSlot, IdleType
    <2>7. \A x \in Slots : handler[x].pc = "revoke" => handler[x].token \in Tokens
      BY SlotNow DEF CarriesItsReads
    <2> QED
      BY <2>3, <2>4, <2>6, <2>7
  <1>13. ASSUME NEW t \in Tokens, Logout(t) \/ ExpireSession(t)
         PROVE  Rooted'
    <2>1. /\ session[t].state # "unused" /\ UNCHANGED <<otp, blocked, halfway, handler>>
          /\ EndsSessions({t})
      BY <1>13, LogoutForm
    <2>3. SessionsTypeOK'
      BY <2>1 DEF SessionsTypeOK, EndsSessions
    <2>4. \A x \in Tokens : /\ session'[x].owner = session[x].owner
                            /\ session'[x].state = "unused" <=> session[x].state = "unused"
      BY <2>1 DEF EndsSessions
    <2>5. \A x \in Slots : handler[x].pc = "revoke" => handler[x].token \in Tokens
      BY SlotNow DEF CarriesItsReads
    <2> QED
      BY <2>1, <2>3, <2>4, <2>5
  <1>14. ASSUME NEW u \in Users, NEW k \in Codes, ExpireOtp(u, k)
         PROVE  Rooted'
    BY <1>14, ExpireForm DEF OneCode, SessionsTypeOK
  <1>15. CASE UNCHANGED sessionVars
    BY <1>15 DEF sessionVars, SessionsTypeOK
  <1> QED
    BY <1>1, <1>4, <1>5, <1>6, <1>7, <1>8, <1>9, <1>10, <1>12, <1>13, <1>14, <1>15
    DEF SessionsNext, HandlerCall

-----------------------------------------------------------------------------
(* Codes: what was spent and what may still spend fit in the slots.        *)

\* Handlers that hold a right code, or a wrong one.
Holders(u, k) == InFlight({"user", "consume"}, u, k)
Mistaken(u, k) == InFlight({"wrong"}, u, k)

\* A code nobody consumed was not used; each login took a slot that had read
\* the code while it was open, and so did each attempt above the limit.
Fits(u, k) ==
  /\ otp[u][k].state # "over" => otp[u][k].used = 0
  /\ otp[u][k].used + Cardinality(Holders(u, k)) <= Width
  /\ otp[u][k].attempts + Cardinality(Mistaken(u, k)) < MaxAttempts + Width

LEMMA SubsetsOfSlots ==
  \A pcs, u, k : InFlight(pcs, u, k) \subseteq Slots /\ InFlight(pcs, u, k)' \subseteq Slots
  BY DEF InFlight

\* A slot that ends up elsewhere is not counted, the others stay.
LEMMA SlotLeaves ==
  ASSUME NEW r \in Slots, NEW pcs, NEW u, NEW k,
         \A s \in Slots \ {r} : handler'[s] = handler[s],
         handler'[r].pc \notin pcs
  PROVE  InFlight(pcs, u, k)' \subseteq InFlight(pcs, u, k) \ {r}
  BY DEF InFlight

LEMMA FitsLess ==
  ASSUME Rooted, NEW u \in Users, NEW k \in Codes, Fits(u, k),
         otp'[u][k].used = otp[u][k].used, otp'[u][k].attempts = otp[u][k].attempts,
         otp'[u][k].state # "over" => otp[u][k].state # "over",
         Holders(u, k)' \subseteq Holders(u, k), Mistaken(u, k)' \subseteq Mistaken(u, k)
  PROVE  Fits(u, k)'
  <1>1. IsFiniteSet(Holders(u, k)) /\ IsFiniteSet(Mistaken(u, k))
    BY SlotsBound, SubsetsOfSlots DEF Holders, Mistaken
  <1>2. /\ Cardinality(Holders(u, k)') <= Cardinality(Holders(u, k))
        /\ Cardinality(Holders(u, k)') \in Nat /\ Cardinality(Holders(u, k)) \in Nat
    BY <1>1, Fewer
  <1>3. /\ Cardinality(Mistaken(u, k)') <= Cardinality(Mistaken(u, k))
        /\ Cardinality(Mistaken(u, k)') \in Nat /\ Cardinality(Mistaken(u, k)) \in Nat
    BY <1>1, Fewer
  <1>4. otp[u][k].used \in Nat /\ otp[u][k].attempts \in Nat /\ Width \in Nat /\ MaxAttempts \in Nat
    BY OtpCounts, WidthIsNat, LimitAssumption DEF Rooted
  <1> QED
    BY <1>2, <1>3, <1>4 DEF Fits

LEMMA FitsStep ==
  ASSUME Rooted, NEW u \in Users, NEW k \in Codes, Fits(u, k), [SessionsNext]_sessionVars
  PROVE  Fits(u, k)'
  <1>0. /\ SessionsTypeOK
        /\ otp[u][k].used \in Nat /\ otp[u][k].attempts \in Nat
        /\ Width \in Nat /\ MaxAttempts \in Nat
    BY OtpCounts, WidthIsNat, LimitAssumption DEF Rooted
  <1>c. /\ Cardinality(Holders(u, k)) \in Nat /\ IsFiniteSet(Holders(u, k))
        /\ Cardinality(Mistaken(u, k)) \in Nat /\ IsFiniteSet(Mistaken(u, k))
        /\ Cardinality(Holders(u, k)') \in Nat /\ Cardinality(Holders(u, k)') <= Width
        /\ Cardinality(Mistaken(u, k)') \in Nat /\ Cardinality(Mistaken(u, k)') <= Width
    BY SlotsBound, SubsetsOfSlots DEF Holders, Mistaken
  <1>1. ASSUME NEW r \in Slots, HandlerArrives(r)
        PROVE  Fits(u, k)'
    <2>1. PICK q \in Handlers :
            /\ CarriesItsReads(q) /\ KnowsItsRows(q) /\ handler[r].pc = "idle"
            /\ handler' = [handler EXCEPT ![r] = q]
            /\ UNCHANGED <<otp, session, blocked, halfway>>
      BY <1>1, Arrival
    <2>2. \A s \in Slots : handler'[s] = IF s = r THEN q ELSE handler[s]
      BY <1>0, <2>1, SlotType
    <2>3. otp[u][k].used + Cardinality(Holders(u, k)') <= Width
      <3>1. CASE q.pc = "user" /\ q.account = u /\ q.code = k
        <4>1. otp[u][k].used = 0
          BY <2>1, <3>1 DEF KnowsItsRows, Fits
        <4> QED
          BY <1>c, <4>1
      <3>2. CASE ~(q.pc = "user" /\ q.account = u /\ q.code = k)
        <4>1. Holders(u, k)' \subseteq Holders(u, k)
          BY <2>1, <2>2, <3>2 DEF Holders, InFlight, KnowsItsRows
        <4>2. Cardinality(Holders(u, k)') <= Cardinality(Holders(u, k))
          BY <1>c, <4>1, Fewer
        <4> QED
          BY <1>0, <1>c, <4>2 DEF Fits
      <3> QED
        BY <3>1, <3>2
    <2>4. otp[u][k].attempts + Cardinality(Mistaken(u, k)') < MaxAttempts + Width
      <3>1. CASE q.pc = "wrong" /\ q.account = u /\ q.code = k
        <4>1. otp[u][k].attempts < MaxAttempts
          BY <2>1, <3>1 DEF KnowsItsRows
        <4> QED
          BY <1>0, <1>c, <4>1
      <3>2. CASE ~(q.pc = "wrong" /\ q.account = u /\ q.code = k)
        <4>1. Mistaken(u, k)' \subseteq Mistaken(u, k)
          BY <2>1, <2>2, <3>2 DEF Mistaken, InFlight
        <4>2. Cardinality(Mistaken(u, k)') <= Cardinality(Mistaken(u, k))
          BY <1>c, <4>1, Fewer
        <4> QED
          BY <1>0, <1>c, <4>2 DEF Fits
      <3> QED
        BY <3>1, <3>2
    <2>5. otp' = otp
      BY <2>1
    <2> QED
      BY <2>3, <2>4, <2>5 DEF Fits
  <1>2. ASSUME NEW r \in Slots, Answer(r), UNCHANGED otp
        PROVE  Fits(u, k)'
    <2>1. /\ \A s \in Slots \ {r} : handler'[s] = handler[s]
          /\ handler'[r].pc = "idle"
      BY <1>0, <1>2, AnswerSlot, IdleType
    <2>2. Holders(u, k)' \subseteq Holders(u, k) /\ Mistaken(u, k)' \subseteq Mistaken(u, k)
      BY <2>1, SlotLeaves DEF Holders, Mistaken
    <2> QED
      BY <1>2, <2>2, FitsLess
  <1>3. ASSUME NEW r \in Slots, NEW pc \in {"issue", "reload", "cutoff", "consume"},
               NextCall(r, pc), UNCHANGED otp, pc = "consume" => handler[r].pc = "user"
        PROVE  Fits(u, k)'
    <2>1. /\ \A s \in Slots \ {r} : handler'[s] = handler[s]
          /\ handler'[r] = [handler[r] EXCEPT !.pc = pc]
      BY <1>0, <1>3 DEF NextCall, SessionsTypeOK
    <2>2. /\ handler'[r].pc = pc /\ handler'[r].account = handler[r].account
          /\ handler'[r].code = handler[r].code
      BY <1>0, <2>1, SlotNow DEF Handlers
    <2>3. Holders(u, k)' \subseteq Holders(u, k) /\ Mistaken(u, k)' \subseteq Mistaken(u, k)
      BY <1>3, <2>1, <2>2 DEF Holders, Mistaken, InFlight
    <2> QED
      BY <1>3, <2>3, FitsLess
  <1>4. ASSUME NEW r \in Slots, CreateOtp(r)
        PROVE  Fits(u, k)'
    <2>1. PICK v \in Users, j \in Codes :
            /\ otp[v][j].state = "none" /\ OneCode(v, j, [otp[v][j] EXCEPT !.state = "open"])
            /\ Answer(r)
      BY <1>0, <1>4, CreateForm
    <2>2. /\ [otp[v][j] EXCEPT !.state = "open"].used = otp[v][j].used
          /\ [otp[v][j] EXCEPT !.state = "open"].attempts = otp[v][j].attempts
      BY <1>0 DEF SessionsTypeOK, OtpRows
    <2>3. /\ otp'[u][k].used = otp[u][k].used /\ otp'[u][k].attempts = otp[u][k].attempts
          /\ otp'[u][k].state # "over" => otp[u][k].state # "over"
      BY <2>1, <2>2 DEF OneCode
    <2>4. /\ \A s \in Slots \ {r} : handler'[s] = handler[s]
          /\ handler'[r].pc = "idle"
      BY <1>0, <2>1, AnswerSlot, IdleType
    <2>5. Holders(u, k)' \subseteq Holders(u, k) /\ Mistaken(u, k)' \subseteq Mistaken(u, k)
      BY <2>4, SlotLeaves DEF Holders, Mistaken
    <2> QED
      BY <2>3, <2>5, FitsLess
  <1>5. ASSUME NEW r \in Slots, WrongCode(r)
        PROVE  Fits(u, k)'
    <2> DEFINE v == handler[r].account
               j == handler[r].code
               wrote == [otp[v][j] EXCEPT !.attempts = @ + 1]
    <2>1. /\ handler[r].pc = "wrong" /\ v \in Users /\ j \in Codes
          /\ OneCode(v, j, wrote) /\ Answer(r)
      BY <1>0, <1>5, WrongForm
    <2>2. /\ wrote.used = otp[v][j].used /\ wrote.state = otp[v][j].state
          /\ wrote.attempts = otp[v][j].attempts + 1
      BY <1>0, <2>1 DEF SessionsTypeOK, OtpRows
    <2>4. /\ \A s \in Slots \ {r} : handler'[s] = handler[s]
          /\ handler'[r].pc = "idle"
      BY <1>0, <2>1, AnswerSlot, IdleType
    <2>5. /\ Holders(u, k)' \subseteq Holders(u, k)
          /\ Mistaken(u, k)' \subseteq Mistaken(u, k) \ {r}
      BY <2>4, SlotLeaves DEF Holders, Mistaken
    <2> HIDE DEF wrote
    <2>6. CASE v = u /\ j = k
      <3>1. r \in Mistaken(u, k)
        BY <2>1, <2>6 DEF Mistaken, InFlight
      <3>2. Cardinality(Mistaken(u, k)') + 1 <= Cardinality(Mistaken(u, k))
        BY <1>c, <2>5, <3>1, Fewer
      <3>3. Cardinality(Holders(u, k)') <= Cardinality(Holders(u, k))
        BY <1>c, <2>5, Fewer
      <3>4. otp'[u][k] = wrote
        BY <2>1, <2>6 DEF OneCode
      <3> QED
        BY <1>0, <1>c, <2>2, <2>6, <3>2, <3>3, <3>4 DEF Fits
    <2>7. CASE ~(v = u /\ j = k)
      <3>1. otp'[u][k] = otp[u][k]
        BY <2>1, <2>7 DEF OneCode
      <3> QED
        BY <2>5, <3>1, FitsLess
    <2> QED
      BY <2>6, <2>7
  <1>6. ASSUME NEW r \in Slots, ConsumeOtp(r)
        PROVE  Fits(u, k)'
    <2> DEFINE v == handler[r].account
               j == handler[r].code
               wrote == [otp[v][j] EXCEPT !.state = "over", !.used = @ + 1]
    <2>1. /\ handler[r].pc = "consume" /\ v \in Users /\ j \in Codes
          /\ OneCode(v, j, wrote) /\ NextCall(r, "issue")
      BY <1>0, <1>6, ConsumeForm
    <2>2. /\ wrote.used = otp[v][j].used + 1 /\ wrote.state = "over"
          /\ wrote.attempts = otp[v][j].attempts
      BY <1>0, <2>1 DEF SessionsTypeOK, OtpRows
    <2>4. /\ \A s \in Slots \ {r} : handler'[s] = handler[s]
          /\ handler'[r].pc = "issue"
      BY <1>0, <2>1, SlotNow DEF NextCall, SessionsTypeOK, Handlers
    <2>5. /\ Holders(u, k)' \subseteq Holders(u, k) \ {r}
          /\ Mistaken(u, k)' \subseteq Mistaken(u, k)
      BY <2>4, SlotLeaves DEF Holders, Mistaken
    <2> HIDE DEF wrote
    <2>6. CASE v = u /\ j = k
      <3>1. r \in Holders(u, k)
        BY <2>1, <2>6 DEF Holders, InFlight
      <3>2. Cardinality(Holders(u, k)') + 1 <= Cardinality(Holders(u, k))
        BY <1>c, <2>5, <3>1, Fewer
      <3>3. Cardinality(Mistaken(u, k)') <= Cardinality(Mistaken(u, k))
        BY <1>c, <2>5, Fewer
      <3>4. otp'[u][k] = wrote
        BY <2>1, <2>6 DEF OneCode
      <3> QED
        BY <1>0, <1>c, <2>2, <2>6, <3>2, <3>3, <3>4 DEF Fits
    <2>7. CASE ~(v = u /\ j = k)
      <3>1. otp'[u][k] = otp[u][k]
        BY <2>1, <2>7 DEF OneCode
      <3> QED
        BY <2>5, <3>1, FitsLess
    <2> QED
      BY <2>6, <2>7
  <1>7. ASSUME NEW r \in Slots, LoadUser(r) \/ ReloadUser(r) \/ BlockWrite(r) \/ RevokeOld(r)
        PROVE  Fits(u, k)'
    <2>1. /\ UNCHANGED otp
          /\ \/ Answer(r)
             \/ \E pc \in {"issue", "reload", "cutoff", "consume"} :
                  NextCall(r, pc) /\ (pc = "consume" => handler[r].pc = "user")
      BY <1>7 DEF LoadUser, ReloadUser, BlockWrite, RevokeOld
    <2> QED
      BY <1>2, <1>3, <2>1
  <1>8. ASSUME NEW r \in Slots, IssueTokens(r) \/ CutOff(r) \/ UnblockWrite(r) \/ HandlerDies(r)
        PROVE  Fits(u, k)'
    BY <1>2, <1>8 DEF IssueTokens, CutOff, UnblockWrite, HandlerDies
  <1>9. ASSUME NEW v \in Users, NEW j \in Codes, ExpireOtp(v, j)
        PROVE  Fits(u, k)'
    <2>1. OneCode(v, j, [otp[v][j] EXCEPT !.state = "over"]) /\ UNCHANGED handler
      BY <1>0, <1>9, ExpireForm
    <2>2. /\ [otp[v][j] EXCEPT !.state = "over"].used = otp[v][j].used
          /\ [otp[v][j] EXCEPT !.state = "over"].attempts = otp[v][j].attempts
          /\ [otp[v][j] EXCEPT !.state = "over"].state = "over"
      BY <1>0 DEF SessionsTypeOK, OtpRows
    <2>3. /\ otp'[u][k].used = otp[u][k].used /\ otp'[u][k].attempts = otp[u][k].attempts
          /\ otp'[u][k].state # "over" => otp[u][k].state # "over"
      BY <2>1, <2>2 DEF OneCode
    <2>5. Holders(u, k)' = Holders(u, k) /\ Mistaken(u, k)' = Mistaken(u, k)
      BY <2>1 DEF Holders, Mistaken, InFlight
    <2> QED
      BY <2>3, <2>5, FitsLess
  <1>10. CASE UNCHANGED <<otp, handler>>
    BY <1>10 DEF Fits, Holders, Mistaken, InFlight
  <1>11. ASSUME NEW t \in Tokens, Logout(t) \/ ExpireSession(t)
         PROVE  UNCHANGED <<otp, handler>>
    BY <1>11 DEF Logout, ExpireSession
  <1>12. CASE UNCHANGED sessionVars
    BY <1>10, <1>12 DEF sessionVars
  <1> QED
    BY <1>1, <1>4, <1>5, <1>6, <1>7, <1>8, <1>9, <1>10, <1>11, <1>12
    DEF SessionsNext, HandlerCall

-----------------------------------------------------------------------------
(* Sessions: likewise for the refreshes of a token.                        *)

Revokers(t) == {r \in Slots : handler[r].pc = "revoke" /\ handler[r].token = t}

\* A token still good was not exchanged; each exchange took a slot that had
\* read it while it was good.
Spends(t) ==
  /\ session[t].state # "over" => session[t].spent = 0
  /\ session[t].spent + Cardinality(Revokers(t)) <= Width

LEMMA SpendsLess ==
  ASSUME Rooted, NEW t \in Tokens, Spends(t),
         session'[t].spent = session[t].spent,
         session'[t].state # "over" => session[t].state # "over",
         Revokers(t)' \subseteq Revokers(t)
  PROVE  Spends(t)'
  <1>1. IsFiniteSet(Revokers(t))
    BY SlotsBound DEF Revokers
  <1>2. /\ Cardinality(Revokers(t)') <= Cardinality(Revokers(t))
        /\ Cardinality(Revokers(t)') \in Nat /\ Cardinality(Revokers(t)) \in Nat
    BY <1>1, Fewer
  <1>3. session[t].spent \in Nat /\ Width \in Nat
    BY WidthIsNat DEF Rooted, SessionsTypeOK, SessionRows
  <1> QED
    BY <1>2, <1>3 DEF Spends

LEMMA SpendsStep ==
  ASSUME Rooted, NEW t \in Tokens, Spends(t), [SessionsNext]_sessionVars
  PROVE  Spends(t)'
  <1>0. SessionsTypeOK /\ session[t].spent \in Nat /\ Width \in Nat
    BY WidthIsNat DEF Rooted, SessionsTypeOK, SessionRows
  <1>c. /\ Cardinality(Revokers(t)) \in Nat /\ IsFiniteSet(Revokers(t))
        /\ Cardinality(Revokers(t)') \in Nat /\ Cardinality(Revokers(t)') <= Width
    BY SlotsBound DEF Revokers
  <1>1. ASSUME NEW r \in Slots, HandlerArrives(r)
        PROVE  Spends(t)'
    <2>1. PICK q \in Handlers :
            /\ CarriesItsReads(q) /\ KnowsItsRows(q) /\ handler[r].pc = "idle"
            /\ handler' = [handler EXCEPT ![r] = q]
            /\ UNCHANGED <<otp, session, blocked, halfway>>
      BY <1>1, Arrival
    <2>2. \A s \in Slots : handler'[s] = IF s = r THEN q ELSE handler[s]
      BY <1>0, <2>1, SlotType
    <2>3. CASE q.pc = "revoke" /\ q.token = t
      <3>1. session[t].spent = 0
        BY <2>1, <2>3 DEF KnowsItsRows, Spends
      <3> QED
        BY <1>c, <2>1, <3>1 DEF Spends
    <2>4. CASE ~(q.pc = "revoke" /\ q.token = t)
      <3>1. Revokers(t)' \subseteq Revokers(t)
        BY <2>2, <2>4 DEF Revokers
      <3> QED
        BY <2>1, <3>1, SpendsLess
    <2> QED
      BY <2>3, <2>4
  <1>2. ASSUME NEW r \in Slots, Answer(r) \/ \E pc \in HandlerPCs \ {"revoke"} : NextCall(r, pc)
        PROVE  Revokers(t)' \subseteq Revokers(t) \ {r}
    <2>1. /\ \A s \in Slots \ {r} : handler'[s] = handler[s]
          /\ handler'[r].pc # "revoke"
      <3>1. CASE Answer(r)
        BY <1>0, <3>1, AnswerSlot, IdleType
      <3>2. ASSUME NEW pc \in HandlerPCs \ {"revoke"}, NextCall(r, pc)
            PROVE  /\ \A s \in Slots \ {r} : handler'[s] = handler[s]
                   /\ handler'[r].pc # "revoke"
        BY <1>0, <3>2, SlotNow DEF NextCall, SessionsTypeOK, Handlers
      <3> QED
        BY <1>2, <3>1, <3>2
    <2> QED
      BY <2>1 DEF Revokers
  <1>3. ASSUME NEW r \in Slots, CreateOtp(r) \/ WrongCode(r) \/ LoadUser(r) \/ ConsumeOtp(r)
                                \/ ReloadUser(r) \/ BlockWrite(r) \/ UnblockWrite(r) \/ HandlerDies(r)
        PROVE  Spends(t)'
    <2>1. /\ UNCHANGED session
          /\ Answer(r) \/ \E pc \in HandlerPCs \ {"revoke"} : NextCall(r, pc)
      BY <1>3 DEF CreateOtp, WrongCode, LoadUser, ConsumeOtp, ReloadUser, BlockWrite, UnblockWrite,
         HandlerDies, HandlerPCs
    <2> QED
      BY <1>2, <2>1, SpendsLess
  <1>4. ASSUME NEW r \in Slots, RevokeOld(r)
        PROVE  Spends(t)'
    <2> DEFINE x == handler[r].token
               wrote == [session[x] EXCEPT !.state = "over", !.spent = @ + 1]
    <2>1. handler[r].pc = "revoke" /\ x \in Tokens /\ OneSession(x, wrote)
      BY <1>0, <1>4, RevokeForm
    <2>2. wrote.state = "over" /\ wrote.spent = session[x].spent + 1
      BY <1>0, <2>1 DEF SessionsTypeOK, SessionRows
    <2>3. Revokers(t)' \subseteq Revokers(t) \ {r}
      <3>1. \E pc \in HandlerPCs \ {"revoke"} : NextCall(r, pc)
        BY <1>0, <1>4, RevokeForm DEF HandlerPCs
      <3> QED
        BY <1>2, <3>1
    <2> HIDE DEF wrote
    <2>4. CASE x = t
      <3>1. r \in Revokers(t)
        BY <2>1, <2>4 DEF Revokers
      <3>2. Cardinality(Revokers(t)') + 1 <= Cardinality(Revokers(t))
        BY <1>c, <2>3, <3>1, Fewer
      <3>3. session'[t] = wrote
        BY <2>1, <2>4 DEF OneSession
      <3> QED
        BY <1>0, <1>c, <2>2, <2>4, <3>2, <3>3 DEF Spends
    <2>5. CASE x # t
      <3>1. session'[t] = session[t]
        BY <2>1, <2>5 DEF OneSession
      <3> QED
        BY <2>3, <3>1, SpendsLess
    <2> QED
      BY <2>4, <2>5
  <1>5. ASSUME NEW r \in Slots, IssueTokens(r)
        PROVE  Spends(t)'
    <2> DEFINE wrote == [state |-> "live", owner |-> handler[r].account, spent |-> 0]
    <2>1. PICK x \in Tokens : session[x].state = "unused" /\ OneSession(x, wrote)
      BY <1>0, <1>5, IssueForm
    <2>2. Revokers(t)' \subseteq Revokers(t)
      BY <1>0, <1>2, <1>5, IssueForm
    <2>3. wrote.spent = 0
      OBVIOUS
    <2> HIDE DEF wrote
    <2>4. CASE x = t
      <3>1. session[t].spent = 0 /\ session'[t].spent = 0
        BY <2>1, <2>3, <2>4 DEF Spends, OneSession
      <3>2. session[t].state # "over"
        BY <2>1, <2>4
      <3> QED
        BY <2>2, <3>1, <3>2, SpendsLess
    <2>5. CASE x # t
      <3>1. session'[t] = session[t]
        BY <2>1, <2>5 DEF OneSession
      <3> QED
        BY <2>2, <3>1, SpendsLess
    <2> QED
      BY <2>4, <2>5
  <1>6. ASSUME NEW X, EndsSessions(X), Revokers(t)' \subseteq Revokers(t)
        PROVE  Spends(t)'
    BY <1>6, SpendsLess DEF EndsSessions
  <1>7. ASSUME NEW r \in Slots, CutOff(r)
        PROVE  Spends(t)'
    <2>1. Answer(r) /\ \E X : EndsSessions(X)
      BY <1>0, <1>7, CutOffForm
    <2> QED
      BY <1>2, <1>6, <2>1
  <1>8. ASSUME NEW x \in Tokens, Logout(x) \/ ExpireSession(x)
        PROVE  Spends(t)'
    <2>1. UNCHANGED handler /\ EndsSessions({x})
      BY <1>0, <1>8, LogoutForm
    <2>2. Revokers(t)' \subseteq Revokers(t)
      BY <2>1 DEF Revokers
    <2> QED
      BY <1>6, <2>1, <2>2
  <1>9. CASE UNCHANGED <<session, handler>>
    BY <1>9 DEF Spends, Revokers
  <1>10. ASSUME NEW v \in Users, NEW j \in Codes, ExpireOtp(v, j)
         PROVE  Spends(t)'
    BY <1>9, <1>10 DEF ExpireOtp
  <1>11. CASE UNCHANGED sessionVars
    BY <1>9, <1>11 DEF sessionVars
  <1> QED
    BY <1>1, <1>3, <1>4, <1>5, <1>7, <1>8, <1>10, <1>11 DEF SessionsNext, HandlerCall

-----------------------------------------------------------------------------
\* However requests overlap and die, a code is used, an attempt is made and a
\* token exchanged past its limit at most once per handler that may be in
\* flight (Sessions.OverlapBounded).
THEOREM LimitsBendOncePerHandler == SessionsSpec => []OverlapBounded
  <1> DEFINE Inv == /\ Rooted
                    /\ \A u \in Users, k \in Codes : Fits(u, k)
                    /\ \A t \in Tokens : Spends(t)
  <1>1. SessionsInit => Inv
    <2> SUFFICES ASSUME SessionsInit PROVE Inv
      OBVIOUS
    <2>1. \A s \in Slots : handler[s].pc = "idle"
      BY DEF SessionsInit, Idle
    <2>2. /\ \A u \in Users, k \in Codes : Holders(u, k) = {} /\ Mistaken(u, k) = {}
          /\ \A t \in Tokens : Revokers(t) = {}
      BY <2>1 DEF Holders, Mistaken, InFlight, Revokers
    <2>3. Cardinality({}) = 0 /\ Width \in Nat \ {0} /\ MaxAttempts \in Nat \ {0}
      BY FS_EmptySet, WidthIsNat, LimitAssumption
    <2>4. /\ \A u \in Users, k \in Codes : otp[u][k].used = 0 /\ otp[u][k].attempts = 0
          /\ \A t \in Tokens : session[t].spent = 0
      BY DEF SessionsInit
    <2>5. ASSUME NEW u \in Users, NEW k \in Codes PROVE Fits(u, k)
      <3>1. Cardinality(Holders(u, k)) = 0 /\ Cardinality(Mistaken(u, k)) = 0
        BY <2>2, <2>3
      <3>2. otp[u][k].used = 0 /\ otp[u][k].attempts = 0
        BY <2>4
      <3> QED
        BY <2>3, <3>1, <3>2 DEF Fits
    <2>6. ASSUME NEW t \in Tokens PROVE Spends(t)
      <3>1. Cardinality(Revokers(t)) = 0 /\ session[t].spent = 0
        BY <2>2, <2>3, <2>4
      <3> QED
        BY <2>3, <3>1 DEF Spends
    <2> QED
      BY <2>5, <2>6, RootedInit
  <1>2. Inv /\ [SessionsNext]_sessionVars => Inv'
    BY RootedStep, FitsStep, SpendsStep DEF Codes
  <1>3. Inv => OverlapBounded
    <2> SUFFICES ASSUME Inv PROVE OverlapBounded
      OBVIOUS
    <2>1. /\ \A u \in Users, k \in Codes : /\ Cardinality(Holders(u, k)) \in Nat
                                           /\ Cardinality(Mistaken(u, k)) \in Nat
          /\ \A t \in Tokens : Cardinality(Revokers(t)) \in Nat
      BY SlotsBound, SubsetsOfSlots DEF Holders, Mistaken, Revokers
    <2>2. /\ \A u \in Users, k \in Codes : otp[u][k].used \in Nat /\ otp[u][k].attempts \in Nat
          /\ \A t \in Tokens : session[t].spent \in Nat
          /\ Width \in Nat /\ MaxAttempts \in Nat
      BY OtpCounts, WidthIsNat, LimitAssumption DEF Rooted, SessionsTypeOK, SessionRows
    <2> QED
      BY <2>1, <2>2 DEF OverlapBounded, CodeSpent, AttemptsLimited, RotationBounded, Fits, Spends
  <1> QED
    BY <1>1, <1>2, <1>3, PTL DEF SessionsSpec

-----------------------------------------------------------------------------
(* Blocked users.                                                          *)

\* The block of u went through and none of its handlers is at work on it.
ShutOut(u) ==
  /\ u \in blocked \ halfway
  /\ \A r \in Slots : ~(handler[r].pc = "cutoff" /\ handler[r].account = u)

\* Handlers that will still open a session, or will ask for one.
Entering(u) == {r \in Slots : handler[r].pc \in {"consume", "issue"} /\ handler[r].account = u}

\* Sessions opened since, and those about to be, fit beside the slot that cut.
StaysOut(u) ==
  ShutOut(u) => /\ IsFiniteSet(LiveSessions(u))
                /\ Cardinality(LiveSessions(u)) + Cardinality(Entering(u)) < Width

LEMMA StaysLess ==
  ASSUME Rooted, NEW u \in Users, StaysOut(u), ShutOut(u)' => ShutOut(u),
         LiveSessions(u)' \subseteq LiveSessions(u), Entering(u)' \subseteq Entering(u)
  PROVE  StaysOut(u)'
  <1> SUFFICES ASSUME ShutOut(u)
               PROVE  /\ IsFiniteSet(LiveSessions(u)')
                      /\ Cardinality(LiveSessions(u)') + Cardinality(Entering(u)') < Width
    BY DEF StaysOut
  <1>1. /\ IsFiniteSet(LiveSessions(u)) /\ Width \in Nat
        /\ Cardinality(LiveSessions(u)) + Cardinality(Entering(u)) < Width
    BY WidthIsNat DEF StaysOut
  <1>2. IsFiniteSet(Entering(u))
    BY SlotsBound DEF Entering
  <1>3. /\ IsFiniteSet(LiveSessions(u)')
        /\ Cardinality(LiveSessions(u)') <= Cardinality(LiveSessions(u))
        /\ Cardinality(LiveSessions(u)') \in Nat /\ Cardinality(LiveSessions(u)) \in Nat
    BY <1>1, Fewer
  <1>4. /\ Cardinality(Entering(u)') <= Cardinality(Entering(u))
        /\ Cardinality(Entering(u)') \in Nat /\ Cardinality(Entering(u)) \in Nat
    BY <1>2, Fewer
  <1> QED
    BY <1>1, <1>3, <1>4

LEMMA StaysStep ==
  ASSUME Rooted, NEW u \in Users, StaysOut(u), [SessionsNext]_sessionVars
  PROVE  StaysOut(u)'
  <1>0. SessionsTypeOK
    BY DEF Rooted
  <1>1. ASSUME NEW r \in Slots, HandlerArrives(r)
        PROVE  StaysOut(u)'
    <2>1. PICK q \in Handlers :
            /\ CarriesItsReads(q) /\ KnowsItsRows(q) /\ handler[r].pc = "idle"
            /\ handler' = [handler EXCEPT ![r] = q]
            /\ UNCHANGED <<otp, session, blocked, halfway>>
      BY <1>1, Arrival
    <2>2. \A s \in Slots : handler'[s] = IF s = r THEN q ELSE handler[s]
      BY <1>0, <2>1, SlotType
    <2>3. ShutOut(u)' => ShutOut(u)
      BY <2>1, <2>2 DEF ShutOut
    <2>4. LiveSessions(u)' \subseteq LiveSessions(u)
      BY <2>1 DEF LiveSessions
    <2>5. CASE u \in blocked
      <3>1. Entering(u)' \subseteq Entering(u)
        BY <2>1, <2>2, <2>5 DEF Entering, KnowsItsRows
      <3> QED
        BY <2>3, <2>4, <3>1, StaysLess
    <2>6. CASE u \notin blocked
      BY <2>1, <2>6 DEF StaysOut, ShutOut
    <2> QED
      BY <2>5, <2>6
  <1>2. ASSUME NEW r \in Slots, Answer(r), halfway' \subseteq halfway \cup {handler[r].account},
               halfway \subseteq halfway', blocked' \subseteq blocked,
               handler[r].pc = "cutoff" => handler[r].account \in halfway'
        PROVE  (ShutOut(u)' => ShutOut(u)) /\ Entering(u)' \subseteq Entering(u) \ {r}
    <2>1. \A s \in Slots : handler'[s] = IF s = r THEN Idle ELSE handler[s]
      BY <1>0, <1>2, AnswerSlot
    <2> QED
      BY <1>2, <2>1, IdleType DEF ShutOut, Entering
  <1>3. ASSUME NEW r \in Slots, CreateOtp(r) \/ WrongCode(r) \/ UnblockWrite(r) \/ HandlerDies(r)
        PROVE  StaysOut(u)'
    <2>1. /\ Answer(r) /\ UNCHANGED session
          /\ halfway \subseteq halfway' /\ blocked' \subseteq blocked
          /\ halfway' \subseteq halfway \cup {handler[r].account}
          /\ handler[r].pc = "cutoff" => handler[r].account \in halfway'
      BY <1>3 DEF CreateOtp, WrongCode, UnblockWrite, HandlerDies
    <2>2. LiveSessions(u)' \subseteq LiveSessions(u)
      BY <2>1 DEF LiveSessions
    <2> QED
      BY <1>2, <2>1, <2>2, StaysLess
  <1>4. ASSUME NEW r \in Slots, NEW pc \in HandlerPCs, NextCall(r, pc),
               UNCHANGED halfway, handler[r].pc # "cutoff"
        PROVE  /\ handler'[r].pc = pc /\ handler'[r].account = handler[r].account
               /\ \A s \in Slots \ {r} : handler'[s] = handler[s]
    BY <1>0, <1>4, SlotNow DEF NextCall, SessionsTypeOK, Handlers
  <1>5. ASSUME NEW r \in Slots, LoadUser(r) \/ ReloadUser(r)
        PROVE  StaysOut(u)'
    <2>1. LiveSessions(u)' \subseteq LiveSessions(u)
      BY <1>5 DEF LoadUser, ReloadUser, LiveSessions
    <2>2. CASE handler[r].account \in blocked
      <3>1. /\ Answer(r) /\ UNCHANGED <<halfway, blocked>> /\ handler[r].pc # "cutoff"
        BY <1>5, <2>2 DEF LoadUser, ReloadUser
      <3> QED
        BY <1>2, <2>1, <3>1, StaysLess
    <2>3. CASE handler[r].account \notin blocked
      <3>1. PICK pc \in {"consume", "issue"} :
              NextCall(r, pc) /\ UNCHANGED <<halfway, blocked>> /\ handler[r].pc # "cutoff"
        BY <1>5, <2>3 DEF LoadUser, ReloadUser
      <3>2. /\ handler'[r].pc = pc /\ handler'[r].account = handler[r].account
            /\ \A s \in Slots \ {r} : handler'[s] = handler[s]
        BY <1>4, <3>1 DEF HandlerPCs
      <3>3. CASE handler[r].account = u
        BY <2>3, <3>1, <3>3 DEF StaysOut, ShutOut
      <3>4. CASE handler[r].account # u
        <4>1. Entering(u)' \subseteq Entering(u)
          BY <3>2, <3>4 DEF Entering
        <4>2. ShutOut(u)' => ShutOut(u)
          BY <3>1, <3>2, <3>4 DEF ShutOut
        <4> QED
          BY <2>1, <4>1, <4>2, StaysLess
      <3> QED
        BY <3>3, <3>4
    <2> QED
      BY <2>2, <2>3
  <1>6. ASSUME NEW r \in Slots, ConsumeOtp(r)
        PROVE  StaysOut(u)'
    <2>1. /\ handler[r].pc = "consume" /\ NextCall(r, "issue")
          /\ UNCHANGED <<session, blocked, halfway>>
      BY <1>6 DEF ConsumeOtp
    <2>2. /\ handler'[r].pc = "issue" /\ handler'[r].account = handler[r].account
          /\ \A s \in Slots \ {r} : handler'[s] = handler[s]
      BY <1>4, <2>1 DEF HandlerPCs
    <2>3. Entering(u)' \subseteq Entering(u) /\ (ShutOut(u)' => ShutOut(u))
      BY <2>1, <2>2 DEF Entering, ShutOut
    <2>4. LiveSessions(u)' \subseteq LiveSessions(u)
      BY <2>1 DEF LiveSessions
    <2> QED
      BY <2>3, <2>4, StaysLess
  <1>7. ASSUME NEW r \in Slots, RevokeOld(r)
        PROVE  StaysOut(u)'
    <2> DEFINE t == handler[r].token
               wrote == [session[t] EXCEPT !.state = "over", !.spent = @ + 1]
    <2>1. /\ handler[r].pc = "revoke" /\ t \in Tokens /\ OneSession(t, wrote)
          /\ UNCHANGED <<blocked, halfway>>
      BY <1>0, <1>7, RevokeForm
    <2>2. wrote.state = "over"
      BY <1>0, <2>1 DEF SessionsTypeOK, SessionRows
    <2>3. PICK pc \in {"reload", "issue"} :
            NextCall(r, pc) /\ (handler[r].account \in blocked => pc = "reload")
      BY <1>0, <1>7, RevokeForm
    <2> HIDE DEF wrote
    <2>4. LiveSessions(u)' \subseteq LiveSessions(u)
      BY <2>1, <2>2 DEF LiveSessions, OneSession
    <2>5. /\ handler'[r].pc = pc /\ handler'[r].account = handler[r].account
          /\ \A s \in Slots \ {r} : handler'[s] = handler[s]
      BY <1>4, <2>1, <2>3 DEF HandlerPCs
    <2>6. CASE u \in blocked
      <3>1. Entering(u)' \subseteq Entering(u)
        BY <2>3, <2>5, <2>6 DEF Entering
      <3>2. ShutOut(u)' => ShutOut(u)
        BY <2>1, <2>5 DEF ShutOut
      <3> QED
        BY <2>4, <3>1, <3>2, StaysLess
    <2>7. CASE u \notin blocked
      BY <2>1, <2>7 DEF StaysOut, ShutOut
    <2> QED
      BY <2>6, <2>7
  <1>8. ASSUME NEW r \in Slots, IssueTokens(r)
        PROVE  StaysOut(u)'
    <2> DEFINE a == handler[r].account
               wrote == [state |-> "live", owner |-> a, spent |-> 0]
    <2>1. /\ handler[r].pc = "issue" /\ Answer(r) /\ UNCHANGED <<otp, blocked, halfway>>
      BY <1>0, <1>8, IssueForm
    <2>2. PICK t \in Tokens : session[t].state = "unused" /\ OneSession(t, wrote)
      BY <1>0, <1>8, IssueForm
    <2>3. (ShutOut(u)' => ShutOut(u)) /\ Entering(u)' \subseteq Entering(u) \ {r}
      BY <1>2, <2>1
    <2>4. wrote.owner = a /\ wrote.state = "live"
      OBVIOUS
    <2> HIDE DEF wrote
    <2>5. CASE a # u
      <3>1. LiveSessions(u)' \subseteq LiveSessions(u)
        BY <2>2, <2>4, <2>5 DEF LiveSessions, OneSession
      <3> QED
        BY <2>3, <3>1, StaysLess
    <2>6. CASE a = u
      <3> SUFFICES ASSUME ShutOut(u)
                   PROVE  /\ IsFiniteSet(LiveSessions(u)')
                          /\ Cardinality(LiveSessions(u)') + Cardinality(Entering(u)') < Width
        BY <2>3 DEF StaysOut
      <3>1. /\ IsFiniteSet(LiveSessions(u)) /\ Width \in Nat
            /\ Cardinality(LiveSessions(u)) + Cardinality(Entering(u)) < Width
        BY WidthIsNat DEF StaysOut
      <3>2. LiveSessions(u)' = LiveSessions(u) \cup {t} /\ t \notin LiveSessions(u)
        BY <2>2, <2>4, <2>6 DEF LiveSessions, OneSession
      <3>3. /\ IsFiniteSet(LiveSessions(u)')
            /\ Cardinality(LiveSessions(u)') = Cardinality(LiveSessions(u)) + 1
            /\ Cardinality(LiveSessions(u)) \in Nat
        BY <3>1, <3>2, FS_AddElement, FS_CardinalityType
      <3>4. r \in Entering(u) /\ IsFiniteSet(Entering(u))
        BY <2>1, <2>6, SlotsBound DEF Entering
      <3>5. /\ Cardinality(Entering(u)') + 1 <= Cardinality(Entering(u))
            /\ Cardinality(Entering(u)') \in Nat /\ Cardinality(Entering(u)) \in Nat
        BY <2>3, <3>4, Fewer
      <3> QED
        BY <3>1, <3>3, <3>5
    <2> QED
      BY <2>5, <2>6
  <1>9. ASSUME NEW r \in Slots, BlockWrite(r)
        PROVE  StaysOut(u)'
    <2>1. /\ handler[r].pc = "block" /\ NextCall(r, "cutoff") /\ UNCHANGED <<session, halfway>>
          /\ blocked' = blocked \cup {handler[r].account}
      BY <1>9 DEF BlockWrite
    <2>2. /\ handler'[r].pc = "cutoff" /\ handler'[r].account = handler[r].account
          /\ \A s \in Slots \ {r} : handler'[s] = handler[s]
      BY <1>4, <2>1 DEF HandlerPCs
    <2>3. CASE handler[r].account = u
      BY <2>2, <2>3 DEF StaysOut, ShutOut
    <2>4. CASE handler[r].account # u
      <3>1. (ShutOut(u)' => ShutOut(u)) /\ Entering(u)' \subseteq Entering(u)
        BY <2>1, <2>2, <2>4 DEF ShutOut, Entering
      <3>2. LiveSessions(u)' \subseteq LiveSessions(u)
        BY <2>1 DEF LiveSessions
      <3> QED
        BY <3>1, <3>2, StaysLess
    <2> QED
      BY <2>3, <2>4
  <1>10. ASSUME NEW r \in Slots, CutOff(r)
         PROVE  StaysOut(u)'
    <2> DEFINE a == handler[r].account
               X == {t \in Tokens : session[t].owner = a /\ session[t].state # "unused"}
    <2>1. /\ handler[r].pc = "cutoff" /\ Answer(r) /\ UNCHANGED <<otp, blocked>>
          /\ halfway' = halfway \ {a}
          /\ EndsSessions(X)
      BY <1>0, <1>10, CutOffForm
    <2>2. \A s \in Slots : handler'[s] = IF s = r THEN Idle ELSE handler[s]
      BY <1>0, <2>1, AnswerSlot
    <2>3. CASE a = u
      <3>1. LiveSessions(u)' = {}
        BY <2>1, <2>3 DEF LiveSessions, EndsSessions
      <3>2. r \notin Entering(u)' /\ Entering(u)' \subseteq Slots
        BY <2>2, IdleType DEF Entering
      <3>3. Cardinality(Entering(u)') < Width /\ Cardinality(Entering(u)') \in Nat
        BY <3>2, SlotsBound
      <3>4. IsFiniteSet(LiveSessions(u)') /\ Cardinality(LiveSessions(u)') = 0
        BY <3>1, FS_EmptySet
      <3> QED
        BY <3>3, <3>4 DEF StaysOut
    <2>4. CASE a # u
      <3>1. (ShutOut(u)' => ShutOut(u)) /\ Entering(u)' \subseteq Entering(u)
        BY <2>1, <2>2, <2>4, IdleType DEF ShutOut, Entering
      <3>2. LiveSessions(u)' \subseteq LiveSessions(u)
        BY <2>1, <2>4 DEF LiveSessions, EndsSessions
      <3> QED
        BY <3>1, <3>2, StaysLess
    <2> QED
      BY <2>3, <2>4
  <1>11. ASSUME NEW t \in Tokens, Logout(t) \/ ExpireSession(t)
         PROVE  StaysOut(u)'
    <2>1. EndsSessions({t}) /\ UNCHANGED <<blocked, halfway, handler>>
      BY <1>0, <1>11, LogoutForm
    <2>2. LiveSessions(u)' \subseteq LiveSessions(u)
      BY <2>1 DEF LiveSessions, EndsSessions
    <2>3. (ShutOut(u)' => ShutOut(u)) /\ Entering(u)' \subseteq Entering(u)
      BY <2>1 DEF ShutOut, Entering
    <2> QED
      BY <2>2, <2>3, StaysLess
  <1>12. CASE UNCHANGED <<session, blocked, halfway, handler>>
    BY <1>12 DEF StaysOut, ShutOut, LiveSessions, Entering
  <1>13. ASSUME NEW v \in Users, NEW j \in Codes, ExpireOtp(v, j)
         PROVE  StaysOut(u)'
    BY <1>12, <1>13 DEF ExpireOtp
  <1>14. CASE UNCHANGED sessionVars
    BY <1>12, <1>14 DEF sessionVars
  <1> QED
    BY <1>1, <1>3, <1>5, <1>6, <1>7, <1>8, <1>9, <1>10, <1>11, <1>13, <1>14
    DEF SessionsNext, HandlerCall

\* Once a block is through, a blocked user has fewer sessions than handlers may
\* be in flight: none where they do not overlap (Sessions.BlockedStayOut).
THEOREM BlockedGetNoFurther == SessionsSpec => []BlockedStayOut
  <1> DEFINE Inv == Rooted /\ \A u \in Users : StaysOut(u)
  <1>1. SessionsInit => Inv
    BY RootedInit DEF SessionsInit, StaysOut, ShutOut
  <1>2. Inv /\ [SessionsNext]_sessionVars => Inv'
    BY RootedStep, StaysStep
  <1>3. Inv => BlockedStayOut
    <2> SUFFICES ASSUME Inv, NEW u \in blocked \ halfway,
                        \A r \in Slots : ~(handler[r].pc = "cutoff" /\ handler[r].account = u)
                 PROVE  Cardinality(LiveSessions(u)) < Width
      BY DEF BlockedStayOut
    <2>1. u \in Users /\ ShutOut(u)
      BY DEF Rooted, SessionsTypeOK, ShutOut
    <2>2. /\ IsFiniteSet(LiveSessions(u))
          /\ Cardinality(LiveSessions(u)) + Cardinality(Entering(u)) < Width
      BY <2>1 DEF StaysOut
    <2>3. Cardinality(LiveSessions(u)) \in Nat /\ Cardinality(Entering(u)) \in Nat /\ Width \in Nat
      BY <2>2, SlotsBound, FS_CardinalityType, WidthIsNat DEF Entering
    <2> QED
      BY <2>2, <2>3
  <1> QED
    BY <1>1, <1>2, <1>3, PTL DEF SessionsSpec

-----------------------------------------------------------------------------
(* Linking.                                                                *)

LEMMA FirstOfPicks == \A s : IF s = {} THEN FirstOf(s) = Nothing ELSE FirstOf(s) \in s
  BY DEF FirstOf

\* What the bot works on was shared, and the rows it found are still as found.
BotOK ==
  /\ bot.pc # "idle" => <<bot.tg, bot.phone>> \in shared
  /\ bot.pc \in {"byTg", "write"} /\ bot.byPhone # Nothing =>
       bot.byPhone \in Ids /\ user[bot.byPhone].phone = bot.phone
  /\ bot.pc = "write" /\ bot.byTg # Nothing =>
       bot.byTg \in Ids /\ user[bot.byTg].tg = bot.tg

LinkInv == LinkTypeOK /\ BotOK /\ LinkedWereShared

LEMMA LinkInitInv == LinkInit => LinkInv
  <1> SUFFICES ASSUME LinkInit PROVE LinkInv
    OBVIOUS
  <1>1. bot \in BotStates /\ bot.pc = "idle"
    BY DEF LinkInit, BotIdle, BotStates
  <1>2. /\ user \in [Ids -> UserRows]
        /\ \A i \in Ids : user[i].tg = Nothing
    BY DEF LinkInit, UserRows
  <1>3. \A i, j \in Ids : i # j =>
          /\ user[i].phone \in Numbers => user[i].phone # user[j].phone
          /\ user[i].tg \in Telegrams => user[i].tg # user[j].tg
    BY <1>2, LinkAssumption DEF LinkInit
  <1>4. LinkedWereShared
    BY <1>2, LinkAssumption DEF LinkedWereShared
  <1> QED
    BY <1>1, <1>2, <1>3, <1>4 DEF LinkInit, LinkInv, LinkTypeOK, BotOK

LEMMA IdleBot == BotIdle \in BotStates /\ BotIdle.pc = "idle"
  BY DEF BotIdle, BotStates

\* A write of a pair that was shared, of an account alone, or none.
LEMMA LinkWrite ==
  ASSUME LinkInv, NEW i \in Ids, NEW new \in UserRows,
         user' = [user EXCEPT ![i] = new], shared' = shared, visit' \subseteq Telegrams,
         new.phone \in Numbers /\ new.tg \in Telegrams => <<new.tg, new.phone>> \in shared,
         new.phone \in Numbers => \A j \in Ids \ {i} : user[j].phone # new.phone,
         new.tg \in Telegrams => \A j \in Ids \ {i} : user[j].tg # new.tg,
         bot' = BotIdle \/ (bot' = bot /\ user[i] = NoUser)
  PROVE  LinkInv'
  <1> USE DEF LinkInv
  <1>1. \A j \in Ids : user'[j] = IF j = i THEN new ELSE user[j]
    BY DEF LinkTypeOK
  <1>2. bot' \in BotStates /\ (bot'.pc # "idle" => bot'.tg \in Telegrams /\ bot'.phone \in Numbers)
    BY IdleBot DEF LinkTypeOK
  <1>3. user' \in [Ids -> UserRows]
    BY DEF LinkTypeOK
  <1>4. \A j, k \in Ids : j # k =>
          /\ user'[j].phone \in Numbers => user'[j].phone # user'[k].phone
          /\ user'[j].tg \in Telegrams => user'[j].tg # user'[k].tg
    BY <1>1 DEF LinkTypeOK
  <1>5. LinkTypeOK'
    BY <1>2, <1>3, <1>4 DEF LinkTypeOK
  <1>6. BotOK'
    <2>1. CASE bot' = BotIdle
      BY <2>1, IdleBot DEF BotOK
    <2>2. CASE bot' = bot /\ user[i] = NoUser
      <3>1. bot.pc \in {"byTg", "write"} /\ bot.byPhone # Nothing => bot.byPhone # i
        BY <2>2, LinkAssumption DEF BotOK, LinkTypeOK, NoUser
      <3>2. bot.pc = "write" /\ bot.byTg # Nothing => bot.byTg # i
        BY <2>2, LinkAssumption DEF BotOK, LinkTypeOK, NoUser
      <3> QED
        BY <1>1, <2>2, <3>1, <3>2 DEF BotOK
    <2> QED
      BY <2>1, <2>2
  <1>7. LinkedWereShared'
    BY <1>1 DEF LinkedWereShared
  <1> QED
    BY <1>5, <1>6, <1>7

LEMMA LinkStep == ASSUME LinkInv, [LinkNext]_linkVars PROVE LinkInv'
  <1> USE DEF LinkInv
  <1> USE LinkAssumption
  <1>0. ASSUME bot' = BotIdle, UNCHANGED <<user, visit, shared>>
        PROVE  LinkInv'
    BY <1>0, IdleBot DEF LinkTypeOK, BotOK, LinkedWereShared
  <1>1. ASSUME NEW g \in Telegrams, NEW p \in Numbers, ShareContact(g, p)
        PROVE  LinkInv'
    <2>1. /\ bot' = [bot EXCEPT !.pc = "byPhone", !.tg = g, !.phone = p]
          /\ shared' = shared \cup {<<g, p>>} /\ UNCHANGED <<user, visit>>
      BY <1>1 DEF ShareContact
    <2>2. bot' \in BotStates /\ bot'.pc = "byPhone" /\ bot'.tg = g /\ bot'.phone = p
      BY <2>1 DEF LinkTypeOK, BotStates
    <2> QED
      BY <2>1, <2>2 DEF LinkTypeOK, BotOK, LinkedWereShared
  <1>2. CASE FindByPhone
    <2> DEFINE found == FirstOf(ByPhone(bot.phone))
    <2>1. /\ bot.pc = "byPhone" /\ bot' = [bot EXCEPT !.pc = "byTg", !.byPhone = found]
          /\ UNCHANGED <<user, visit, shared>>
      BY <1>2 DEF FindByPhone
    <2>2. found = Nothing \/ (found \in Ids /\ user[found].phone = bot.phone)
      BY FirstOfPicks DEF ByPhone
    <2> HIDE DEF found
    <2>3. /\ bot' \in BotStates /\ bot'.pc = "byTg" /\ bot'.tg = bot.tg /\ bot'.phone = bot.phone
          /\ bot'.byPhone = found
      BY <2>1, <2>2 DEF LinkTypeOK, BotStates
    <2> QED
      BY <2>1, <2>2, <2>3 DEF LinkTypeOK, BotOK, LinkedWereShared
  <1>3. CASE FindByTelegram
    <2> DEFINE own == FirstOf(ByTelegram(bot.tg))
    <2>1. /\ bot.pc = "byTg" /\ UNCHANGED <<user, visit, shared>>
          /\ bot' = BotIdle \/ bot' = [bot EXCEPT !.pc = "write", !.byTg = own]
      BY <1>3 DEF FindByTelegram
    <2>2. own = Nothing \/ (own \in Ids /\ user[own].tg = bot.tg)
      BY FirstOfPicks DEF ByTelegram
    <2> HIDE DEF own
    <2>3. CASE bot' = [bot EXCEPT !.pc = "write", !.byTg = own]
      <3>1. /\ bot' \in BotStates /\ bot'.pc = "write" /\ bot'.tg = bot.tg /\ bot'.phone = bot.phone
            /\ bot'.byPhone = bot.byPhone /\ bot'.byTg = own
        BY <2>2, <2>3 DEF LinkTypeOK, BotStates
      <3> QED
        BY <2>1, <2>2, <3>1 DEF LinkTypeOK, BotOK, LinkedWereShared
    <2> QED
      BY <1>0, <2>1, <2>3
  <1>4. CASE LinkAccount
    <2> DEFINE i == bot.byPhone
               new == [user[i] EXCEPT !.tg = bot.tg]
    <2>1. /\ bot.pc = "write" /\ i # Nothing /\ bot' = BotIdle /\ UNCHANGED <<visit, shared>>
          /\ user' = IF ByTelegram(bot.tg) \subseteq {i} THEN [user EXCEPT ![i] = new] ELSE user
      BY <1>4 DEF LinkAccount
    <2>2. /\ i \in Ids /\ user[i].phone = bot.phone /\ user[i] \in UserRows
          /\ bot.tg \in Telegrams /\ <<bot.tg, bot.phone>> \in shared
      BY <2>1 DEF BotOK, LinkTypeOK
    <2>3. new \in UserRows /\ new.phone = bot.phone /\ new.tg = bot.tg
      BY <2>2 DEF UserRows
    <2> HIDE DEF new, i
    <2>4. CASE ByTelegram(bot.tg) \subseteq {i}
      <3>1. \A j \in Ids \ {i} : user[j].tg # bot.tg
        BY <2>4 DEF ByTelegram
      <3>2. bot.phone \in Numbers => \A j \in Ids \ {i} : user[j].phone # bot.phone
        BY <2>2 DEF LinkTypeOK
      <3> QED
        BY <2>1, <2>2, <2>3, <2>4, <3>1, <3>2, LinkWrite DEF LinkTypeOK
    <2>5. CASE ~(ByTelegram(bot.tg) \subseteq {i})
      BY <1>0, <2>1, <2>5
    <2> QED
      BY <2>4, <2>5
  <1>5. CASE FillInPhone
    <2> DEFINE i == bot.byTg
               new == [user[i] EXCEPT !.phone = bot.phone]
    <2>1. /\ bot.pc = "write" /\ i # Nothing /\ bot' = BotIdle /\ UNCHANGED <<visit, shared>>
          /\ user' = IF ByPhone(bot.phone) = {} THEN [user EXCEPT ![i] = new] ELSE user
      BY <1>5 DEF FillInPhone
    <2>2. /\ i \in Ids /\ user[i].tg = bot.tg /\ user[i] \in UserRows
          /\ bot.phone \in Numbers /\ <<bot.tg, bot.phone>> \in shared
      BY <2>1 DEF BotOK, LinkTypeOK
    <2>3. new \in UserRows /\ new.phone = bot.phone /\ new.tg = bot.tg
      BY <2>2 DEF UserRows
    <2> HIDE DEF new, i
    <2>4. CASE ByPhone(bot.phone) = {}
      <3>1. \A j \in Ids \ {i} : user[j].phone # bot.phone
        BY <2>4 DEF ByPhone
      <3>2. bot.tg \in Telegrams => \A j \in Ids \ {i} : user[j].tg # bot.tg
        BY <2>2 DEF LinkTypeOK
      <3> QED
        BY <2>1, <2>2, <2>3, <2>4, <3>1, <3>2, LinkWrite DEF LinkTypeOK
    <2>5. CASE ByPhone(bot.phone) # {}
      BY <1>0, <2>1, <2>5
    <2> QED
      BY <2>4, <2>5
  <1>6. CASE CreateLinked
    <2> DEFINE new == [phone |-> bot.phone, tg |-> bot.tg]
    <2>1. /\ bot.pc = "write" /\ bot' = BotIdle /\ UNCHANGED <<visit, shared>>
      BY <1>6 DEF CreateLinked
    <2>2. CASE ByPhone(bot.phone) = {} /\ ByTelegram(bot.tg) = {}
      <3>1. PICK i \in Ids : user' = [user EXCEPT ![i] = new]
        BY <1>6, <2>2 DEF CreateLinked
      <3>2. /\ new \in UserRows /\ new.phone = bot.phone /\ new.tg = bot.tg
            /\ <<bot.tg, bot.phone>> \in shared
        BY <2>1 DEF LinkTypeOK, UserRows, BotOK
      <3> HIDE DEF new
      <3>3. \A j \in Ids : user[j].phone # bot.phone /\ user[j].tg # bot.tg
        BY <2>2 DEF ByPhone, ByTelegram
      <3> QED
        BY <2>1, <3>1, <3>2, <3>3, LinkWrite DEF LinkTypeOK
    <2>3. CASE ~(ByPhone(bot.phone) = {} /\ ByTelegram(bot.tg) = {})
      BY <1>0, <1>6, <2>1, <2>3 DEF CreateLinked
    <2> QED
      BY <2>2, <2>3
  <1>7. CASE BotGivesUp
    BY <1>0, <1>7 DEF BotGivesUp
  <1>8. ASSUME NEW g \in Telegrams, MiniAppRead(g)
        PROVE  LinkInv'
    BY <1>8 DEF MiniAppRead, LinkTypeOK, BotOK, LinkedWereShared
  <1>9. ASSUME NEW g \in Telegrams, MiniAppCreate(g)
        PROVE  LinkInv'
    <2> DEFINE new == [phone |-> Placeholder, tg |-> g]
    <2>1. visit' \subseteq Telegrams /\ UNCHANGED <<bot, shared>>
      BY <1>9 DEF MiniAppCreate, LinkTypeOK
    <2>2. CASE ByTelegram(g) = {}
      <3>1. PICK i \in Ids : user[i] = NoUser /\ user' = [user EXCEPT ![i] = new]
        BY <1>9, <2>2 DEF MiniAppCreate
      <3>2. new \in UserRows /\ new.phone \notin Numbers /\ new.tg = g
        BY DEF UserRows
      <3> HIDE DEF new
      <3>3. \A j \in Ids : user[j].tg # g
        BY <2>2 DEF ByTelegram
      <3> QED
        BY <2>1, <3>1, <3>2, <3>3, LinkWrite
    <2>3. CASE ByTelegram(g) # {}
      <3>1. UNCHANGED user
        BY <1>9, <2>3 DEF MiniAppCreate
      <3> QED
        BY <2>1, <3>1 DEF LinkTypeOK, BotOK, LinkedWereShared
    <2> QED
      BY <2>2, <2>3
  <1>10. CASE UNCHANGED linkVars
    BY <1>10 DEF linkVars, LinkTypeOK, BotOK, LinkedWereShared
  <1> QED
    BY <1>1, <1>2, <1>3, <1>4, <1>5, <1>6, <1>7, <1>8, <1>9, <1>10 DEF LinkNext

\* A row is never linked to an account that did not share its number, and no
\* number or account has two rows, however bot and Mini App cross
\* (Linking.LinkedWereShared).
THEOREM NumbersStayTheirs == LinkSpec => [](LinkTypeOK /\ LinkedWereShared)
  BY LinkInitInv, LinkStep, PTL DEF LinkSpec, LinkInv

-----------------------------------------------------------------------------
(* Staff.                                                                  *)

Fields == {"vehicle", "online"}

\* What the check of a handler established of the rows it will write.
StillTrue(q) ==
  /\ q.pc = "apply" => role[q.who] # "courier"
  /\ q.pc \in {"profile", "approve", "reject"} => app[q.who].status = "PENDING"
  /\ q.pc \in {"profile", "approve"} => q.field = "vehicle"
  /\ q.pc \in {"approve", "edit"} =>
       /\ q.field = "vehicle" => q.json.online = profile[q.who].online
       /\ q.field = "online" => q.json.vehicle = profile[q.who].vehicle
  /\ q.pc = "delete" => \A u \in People : role[u] # "custom"

\* The types of what is in flight.
WorkOK(q) == q \in Work /\ (q.pc \notin {"idle", "count", "delete"} => q.who \in People)

LEMMA NoWorkOK == WorkOK(NoWork) /\ NoWork.pc = "idle"
  BY DEF WorkOK, NoWork, Work, DeskPCs, Profiles, RoleSlugs, Blank

LEMMA NoWorkNow == NoWork \in Work /\ NoWork.field = "vehicle" /\ NoWork.json \in Profiles
  BY NoWorkOK DEF NoWork, WorkOK, Work

LEMMA StartForm ==
  ASSUME StaffTypeOK, NEW d \in Desks, WorkArrives(d)
  PROVE  \E q : WorkOK(q) /\ StillTrue(q) /\ q.pc # "idle" /\ StartWork(d, q)
  <1>1. ASSUME NEW u \in People, NEW v \in Vehicles \cup {Unset}, NEW pc \in {"apply", "profile"},
               StartWork(d, [NoWork EXCEPT !.pc = pc, !.who = u, !.json.vehicle = v]),
               pc = "apply" => role[u] # "courier", pc = "profile" => app[u].status = "PENDING"
        PROVE  \E q : WorkOK(q) /\ StillTrue(q) /\ q.pc # "idle" /\ StartWork(d, q)
    <2> DEFINE q == [NoWork EXCEPT !.pc = pc, !.who = u, !.json.vehicle = v]
    <2>1. q \in Work /\ q.pc = pc /\ q.who = u /\ q.field = "vehicle"
      <3>1. pc \in DeskPCs
        BY DEF DeskPCs
      <3> QED
        BY <3>1, NoWorkNow DEF Work, Profiles
    <2> HIDE DEF q
    <2>2. WorkOK(q) /\ StillTrue(q) /\ q.pc # "idle"
      BY <1>1, <2>1 DEF WorkOK, StillTrue
    <2> QED
      BY <1>1, <2>2 DEF q
  <1>2. ASSUME NEW u \in People, Reject(d, u)
        PROVE  \E q : WorkOK(q) /\ StillTrue(q) /\ q.pc # "idle" /\ StartWork(d, q)
    <2> DEFINE q == [NoWork EXCEPT !.pc = "reject", !.who = u]
    <2>1. q \in Work /\ q.pc = "reject" /\ q.who = u
      BY NoWorkNow DEF Work, DeskPCs, Fields
    <2>2. StartWork(d, q) /\ app[u].status = "PENDING"
      BY <1>2 DEF Reject
    <2> HIDE DEF q
    <2>3. WorkOK(q) /\ StillTrue(q) /\ q.pc # "idle"
      BY <2>1, <2>2 DEF WorkOK, StillTrue
    <2> QED
      BY <2>2, <2>3
  <1>3. ASSUME NEW u \in People, NEW x \in RoleSlugs, AssignRole(d, u, x)
        PROVE  \E q : WorkOK(q) /\ StillTrue(q) /\ q.pc # "idle" /\ StartWork(d, q)
    <2> DEFINE q == [NoWork EXCEPT !.pc = "assign", !.who = u, !.role = x]
    <2>1. q \in Work /\ q.pc = "assign" /\ q.who = u
      BY NoWorkNow DEF Work, DeskPCs, Fields
    <2>2. StartWork(d, q)
      BY <1>3 DEF AssignRole
    <2> HIDE DEF q
    <2>3. WorkOK(q) /\ StillTrue(q) /\ q.pc # "idle"
      BY <2>1 DEF WorkOK, StillTrue
    <2> QED
      BY <2>2, <2>3
  <1>4. CASE RemoveRole(d)
    <2> DEFINE q == [NoWork EXCEPT !.pc = "count"]
    <2>1. q \in Work /\ q.pc = "count"
      BY NoWorkOK DEF WorkOK, Work, DeskPCs
    <2>2. StartWork(d, q)
      BY <1>4 DEF RemoveRole
    <2> HIDE DEF q
    <2>3. WorkOK(q) /\ StillTrue(q) /\ q.pc # "idle"
      BY <2>1 DEF WorkOK, StillTrue
    <2> QED
      BY <2>2, <2>3
  <1>5. ASSUME NEW u \in People, NEW f \in Fields, NEW json \in Profiles,
               StartWork(d, [NoWork EXCEPT !.pc = "edit", !.who = u, !.field = f, !.json = json]),
               f = "vehicle" => json.online = profile[u].online,
               f = "online" => json.vehicle = profile[u].vehicle
        PROVE  \E q : WorkOK(q) /\ StillTrue(q) /\ q.pc # "idle" /\ StartWork(d, q)
    <2> DEFINE q == [NoWork EXCEPT !.pc = "edit", !.who = u, !.field = f, !.json = json]
    <2>1. q \in Work /\ q.pc = "edit" /\ q.who = u /\ q.field = f /\ q.json = json
      BY NoWorkNow DEF Work, DeskPCs, Fields
    <2> HIDE DEF q
    <2>2. WorkOK(q) /\ StillTrue(q) /\ q.pc # "idle"
      BY <1>5, <2>1 DEF WorkOK, StillTrue
    <2> QED
      BY <1>5, <2>2 DEF q
  <1>6. ASSUME NEW u \in People, NEW v \in Vehicles, UpdateProfile(d, u, "vehicle", v)
        PROVE  \E q : WorkOK(q) /\ StillTrue(q) /\ q.pc # "idle" /\ StartWork(d, q)
    <2> DEFINE json == [profile[u] EXCEPT !["vehicle"] = v]
    <2>1. json \in Profiles /\ json.online = profile[u].online
      BY DEF StaffTypeOK, Profiles
    <2>2. StartWork(d, [NoWork EXCEPT !.pc = "edit", !.who = u, !.field = "vehicle", !.json = json])
      BY <1>6 DEF UpdateProfile
    <2> HIDE DEF json
    <2> QED
      BY <1>5, <2>1, <2>2 DEF Fields
  <1>7. ASSUME NEW u \in People, NEW b \in BOOLEAN, UpdateProfile(d, u, "online", b)
        PROVE  \E q : WorkOK(q) /\ StillTrue(q) /\ q.pc # "idle" /\ StartWork(d, q)
    <2> DEFINE json == [profile[u] EXCEPT !["online"] = b]
    <2>1. json \in Profiles /\ json.vehicle = profile[u].vehicle
      BY DEF StaffTypeOK, Profiles
    <2>2. StartWork(d, [NoWork EXCEPT !.pc = "edit", !.who = u, !.field = "online", !.json = json])
      BY <1>7 DEF UpdateProfile
    <2> HIDE DEF json
    <2> QED
      BY <1>5, <2>1, <2>2 DEF Fields
  <1>8. ASSUME NEW u \in People, Approve(d, u)
        PROVE  \E q : WorkOK(q) /\ StillTrue(q) /\ q.pc # "idle" /\ StartWork(d, q)
    <2>1. app[u].vehicle \in Vehicles \cup {Unset}
      BY DEF StaffTypeOK, Applications
    <2>2. /\ StartWork(d, [NoWork EXCEPT !.pc = "profile", !.who = u, !.json.vehicle = app[u].vehicle])
          /\ app[u].status = "PENDING"
      BY <1>8 DEF Approve
    <2> QED
      BY <1>1, <2>1, <2>2
  <1>9. ASSUME NEW u \in People, NEW v \in Vehicles, Apply(d, u, v)
        PROVE  \E q : WorkOK(q) /\ StillTrue(q) /\ q.pc # "idle" /\ StartWork(d, q)
    <2>1. /\ StartWork(d, [NoWork EXCEPT !.pc = "apply", !.who = u, !.json.vehicle = v])
          /\ role[u] # "courier"
      BY <1>9 DEF Apply
    <2> QED
      BY <1>1, <2>1
  <1> QED
    BY <1>2, <1>3, <1>4, <1>6, <1>7, <1>8, <1>9 DEF WorkArrives

\* Rows have their types, and each application is in order by itself.
StaffInv == StaffTypeOK /\ ReviewFits

\* A desk whose work changes.
LEMMA DeskType ==
  ASSUME StaffTypeOK, NEW d \in Desks, NEW q, WorkOK(q), desk' = [desk EXCEPT ![d] = q]
  PROVE  /\ desk' \in [Desks -> Work]
         /\ \A e \in Desks : desk'[e].pc \notin {"idle", "count", "delete"} => desk'[e].who \in People
         /\ \A e \in Desks : desk'[e] = IF e = d THEN q ELSE desk[e]
  BY DEF StaffTypeOK, WorkOK

LEMMA DeskNow ==
  ASSUME StaffTypeOK, NEW d \in Desks
  PROVE  /\ WorkOK(desk[d]) /\ desk[d].pc \in DeskPCs /\ desk[d].role \in RoleSlugs
         /\ desk[d].json \in Profiles /\ desk[d].field \in Fields
         /\ desk[d].json.vehicle \in Vehicles \cup {Unset} /\ desk[d].json.online \in BOOLEAN
  BY DEF StaffTypeOK, WorkOK, Work, Profiles, Fields

LEMMA StaffInitInv == StaffInit => StaffInv
  <1> SUFFICES ASSUME StaffInit PROVE StaffInv
    OBVIOUS
  <1>1. \A u \in People : app[u] \in Applications /\ app[u].status = "none"
                          /\ ~app[u].reason /\ ~app[u].reviewed
    BY DEF StaffInit, Applications
  <1>2. Blank \in Profiles
    BY DEF Blank, Profiles
  <1>3. \A d \in Desks : desk[d] = NoWork
    BY DEF StaffInit
  <1>4. app \in [People -> Applications] /\ desk \in [Desks -> Work]
    BY <1>1, NoWorkOK DEF StaffInit, WorkOK
  <1>5. StaffTypeOK
    BY <1>2, <1>3, <1>4, NoWorkOK DEF StaffInit, StaffTypeOK, RoleSlugs
  <1> QED
    BY <1>1, <1>5 DEF StaffInv, ReviewFits

\* What a handler may make of the profile and of what was entered.
LEMMA WriteProfileType ==
  ASSUME StaffTypeOK, NEW q, WorkOK(q), q.who \in People, WriteProfile(q)
  PROVE  /\ profile' \in [People -> Profiles] /\ entered' \in [People -> Profiles]
         /\ \A u \in People \ {q.who} : profile'[u] = profile[u] /\ entered'[u] = entered[u]
         /\ profile'[q.who] = q.json
         /\ q.field = "vehicle" => entered'[q.who] = [entered[q.who] EXCEPT !.vehicle = q.json.vehicle]
         /\ q.field = "online" => entered'[q.who] = [entered[q.who] EXCEPT !.online = q.json.online]
  <1>1. /\ q.json \in Profiles /\ q.field \in Fields
        /\ q.json.vehicle \in Vehicles \cup {Unset} /\ q.json.online \in BOOLEAN
    BY DEF WorkOK, Work, Profiles, Fields
  <1>2. /\ profile' = [profile EXCEPT ![q.who] = q.json]
        /\ entered' = [entered EXCEPT ![q.who][q.field] = q.json[q.field]]
    BY DEF WriteProfile
  <1>3. CASE q.field = "vehicle"
    <2>1. entered' = [entered EXCEPT ![q.who] = [entered[q.who] EXCEPT !.vehicle = q.json.vehicle]]
      BY <1>2, <1>3 DEF StaffTypeOK, Profiles
    <2>2. [entered[q.who] EXCEPT !.vehicle = q.json.vehicle] \in Profiles
      BY <1>1 DEF StaffTypeOK, Profiles
    <2> QED
      BY <1>1, <1>2, <1>3, <2>1, <2>2 DEF StaffTypeOK
  <1>4. CASE q.field = "online"
    <2>1. entered' = [entered EXCEPT ![q.who] = [entered[q.who] EXCEPT !.online = q.json.online]]
      BY <1>2, <1>4 DEF StaffTypeOK, Profiles
    <2>2. [entered[q.who] EXCEPT !.online = q.json.online] \in Profiles
      BY <1>1 DEF StaffTypeOK, Profiles
    <2> QED
      BY <1>1, <1>2, <1>4, <2>1, <2>2 DEF StaffTypeOK
  <1> QED
    BY <1>1, <1>3, <1>4 DEF Fields

LEMMA EndDesk ==
  ASSUME StaffTypeOK, NEW d \in Desks, EndWork(d)
  PROVE  /\ desk' \in [Desks -> Work]
         /\ \A e \in Desks : desk'[e].pc \notin {"idle", "count", "delete"} => desk'[e].who \in People
         /\ \A e \in Desks : desk'[e] = IF e = d THEN NoWork ELSE desk[e]
  BY NoWorkOK, DeskType DEF EndWork

\* Between the two calls of an approval and of a removal.
LEMMA ReadProfileForm ==
  ASSUME StaffTypeOK, NEW d \in Desks, ReadProfile(d)
  PROVE  \E q : /\ WorkOK(q) /\ q.pc = "approve" /\ q.who = desk[d].who /\ q.field = desk[d].field
                /\ q.json.online = profile[q.who].online
                /\ desk[d].pc = "profile" /\ desk' = [desk EXCEPT ![d] = q]
                /\ UNCHANGED <<app, role, custom, profile, entered, moved, lost, crossed>>
  <1> DEFINE json == Seed(profile[desk[d].who], desk[d].json.vehicle)
             q == [desk[d] EXCEPT !.pc = "approve", !.json = json]
  <1>1. /\ desk[d].pc = "profile" /\ desk' = [desk EXCEPT ![d] = q]
        /\ UNCHANGED <<app, role, custom, profile, entered, moved, lost, crossed>>
    BY DEF ReadProfile, StaffTypeOK
  <1>2. desk[d].who \in People /\ desk[d] \in Work
    BY <1>1, DeskNow DEF WorkOK
  <1>3. json \in Profiles /\ json.online = profile[desk[d].who].online
    BY <1>2, DeskNow DEF StaffTypeOK, Seed, Profiles
  <1> HIDE DEF json
  <1>4. q \in Work /\ q.pc = "approve" /\ q.who = desk[d].who /\ q.field = desk[d].field /\ q.json = json
    BY <1>2, <1>3 DEF Work, DeskPCs
  <1> HIDE DEF q
  <1>5. WorkOK(q)
    BY <1>2, <1>4 DEF WorkOK
  <1> QED
    BY <1>1, <1>3, <1>4, <1>5

LEMMA CountForm ==
  ASSUME StaffTypeOK, NEW d \in Desks, CountUsers(d)
  PROVE  /\ UNCHANGED <<app, role, custom, profile, entered, moved, lost, crossed>>
         /\ desk[d].pc = "count"
         /\ \/ EndWork(d)
            \/ \E q : /\ WorkOK(q) /\ q.pc = "delete" /\ desk' = [desk EXCEPT ![d] = q]
                      /\ \A u \in People : role[u] # "custom"
  <1> DEFINE q == [desk[d] EXCEPT !.pc = "delete"]
  <1>1. CASE \E u \in People : role[u] = "custom"
    BY <1>1 DEF CountUsers
  <1>2. CASE ~ \E u \in People : role[u] = "custom"
    <2>1. desk' = [desk EXCEPT ![d] = q]
      BY <1>2 DEF CountUsers, StaffTypeOK
    <2>2. q \in Work /\ q.pc = "delete"
      BY DeskNow DEF WorkOK, Work, DeskPCs
    <2> HIDE DEF q
    <2>3. WorkOK(q)
      BY <2>2 DEF WorkOK
    <2> QED
      BY <1>2, <2>1, <2>2, <2>3 DEF CountUsers
  <1> QED
    BY <1>1, <1>2

\* What the writes make of an application.
LEMMA AppMoves ==
  ASSUME StaffInv, NEW u \in People, NEW new, app' = [app EXCEPT ![u] = new],
         \/ \E v \in Vehicles \cup {Unset} :
              new = [status |-> "PENDING", vehicle |-> v, reason |-> FALSE, reviewed |-> FALSE]
         \/ new = Approved(app[u])
         \/ new = [app[u] EXCEPT !.status = "REJECTED", !.reviewed = TRUE, !.reason = TRUE]
  PROVE  /\ app' \in [People -> Applications] /\ ReviewFits'
         /\ \A w \in People : app'[w] = IF w = u THEN new ELSE app[w]
         /\ new.status \in {"PENDING", "APPROVED", "REJECTED"}
  <1>1. app[u] \in Applications
    BY DEF StaffInv, StaffTypeOK
  <1>2. /\ new \in Applications
        /\ new.reason <=> new.status = "REJECTED"
        /\ new.reviewed <=> new.status \in {"APPROVED", "REJECTED"}
        /\ new.status \in {"PENDING", "APPROVED", "REJECTED"}
    <2>1. ASSUME NEW v \in Vehicles \cup {Unset},
                 new = [status |-> "PENDING", vehicle |-> v, reason |-> FALSE, reviewed |-> FALSE]
          PROVE  /\ new \in Applications /\ new.status = "PENDING"
                 /\ ~new.reason /\ ~new.reviewed
      BY <2>1 DEF Applications
    <2>2. ASSUME new = Approved(app[u])
          PROVE  /\ new \in Applications /\ new.status = "APPROVED"
                 /\ ~new.reason /\ new.reviewed
      BY <1>1, <2>2 DEF Approved, Applications
    <2>3. ASSUME new = [app[u] EXCEPT !.status = "REJECTED", !.reviewed = TRUE, !.reason = TRUE]
          PROVE  /\ new \in Applications /\ new.status = "REJECTED"
                 /\ new.reason /\ new.reviewed
      BY <1>1, <2>3 DEF Applications
    <2> QED
      BY <2>1, <2>2, <2>3
  <1>3. \A w \in People : app'[w] = IF w = u THEN new ELSE app[w]
    BY DEF StaffInv, StaffTypeOK
  <1>4. app' \in [People -> Applications]
    BY <1>2 DEF StaffInv, StaffTypeOK
  <1>5. ReviewFits'
    BY <1>2, <1>3 DEF StaffInv, ReviewFits
  <1> QED
    BY <1>2, <1>3, <1>4, <1>5

LEMMA StaffStepInv ==
  ASSUME StaffInv, [StaffNext]_staffVars
  PROVE  StaffInv'
  <1> USE DEF StaffInv
  <1>1. CASE UNCHANGED staffVars
    BY <1>1 DEF staffVars, StaffTypeOK, ReviewFits
  <1>2. CASE CreateRole
    BY <1>2 DEF CreateRole, StaffTypeOK, ReviewFits
  <1>3. ASSUME NEW d \in Desks, WorkArrives(d)
        PROVE  StaffInv'
    <2>1. PICK q : WorkOK(q) /\ StartWork(d, q)
      BY <1>3, StartForm
    <2>2. desk' = [desk EXCEPT ![d] = q] /\ crossed' \in BOOLEAN
          /\ UNCHANGED <<app, role, custom, profile, entered, moved, lost>>
      BY <2>1 DEF StartWork
    <2> QED
      BY <2>1, <2>2, DeskType DEF StaffTypeOK, ReviewFits
  <1>4. ASSUME NEW d \in Desks, ApplyWrite(d)
        PROVE  StaffInv'
    <2> DEFINE u == desk[d].who
               new == [status |-> "PENDING", vehicle |-> desk[d].json.vehicle,
                       reason |-> FALSE, reviewed |-> FALSE]
    <2>1. /\ desk[d].pc = "apply" /\ EndWork(d) /\ app' = [app EXCEPT ![u] = new]
          /\ moved' = moved \ {u} /\ UNCHANGED <<role, custom, profile, entered, lost, crossed>>
      BY <1>4 DEF ApplyWrite
    <2>2. u \in People /\ desk[d].json.vehicle \in Vehicles \cup {Unset}
      BY <2>1, DeskNow DEF WorkOK
    <2>3. app' \in [People -> Applications] /\ ReviewFits'
      BY <2>1, <2>2, AppMoves
    <2> QED
      BY <2>1, <2>3, EndDesk DEF StaffTypeOK
  <1>5. ASSUME NEW d \in Desks, ReadProfile(d)
        PROVE  StaffInv'
    BY <1>5, ReadProfileForm, DeskType DEF StaffTypeOK, ReviewFits
  <1>6. ASSUME NEW d \in Desks, ApproveCommit(d)
        PROVE  StaffInv'
    <2> DEFINE u == desk[d].who
    <2>1. /\ desk[d].pc = "approve" /\ EndWork(d) /\ app' = [app EXCEPT ![u] = Approved(app[u])]
          /\ role' = [role EXCEPT ![u] = "courier"] /\ WriteProfile(desk[d])
          /\ moved' = moved \ {u} /\ UNCHANGED <<custom, lost, crossed>>
      BY <1>6 DEF ApproveCommit
    <2>2. u \in People /\ WorkOK(desk[d])
      BY <2>1, DeskNow DEF WorkOK
    <2>3. app' \in [People -> Applications] /\ ReviewFits'
      BY <2>1, <2>2, AppMoves
    <2>4. profile' \in [People -> Profiles] /\ entered' \in [People -> Profiles]
      BY <2>1, <2>2, WriteProfileType
    <2>5. role' \in [People -> RoleSlugs] /\ (~custom => \A w \in People : role'[w] # "custom")
      BY <2>1, <2>2 DEF StaffTypeOK, RoleSlugs
    <2> QED
      BY <2>1, <2>3, <2>4, <2>5, EndDesk DEF StaffTypeOK
  <1>7. ASSUME NEW d \in Desks, RejectCommit(d)
        PROVE  StaffInv'
    <2> DEFINE u == desk[d].who
               new == [app[u] EXCEPT !.status = "REJECTED", !.reviewed = TRUE, !.reason = TRUE]
    <2>1. /\ desk[d].pc = "reject" /\ EndWork(d)
          /\ UNCHANGED <<role, custom, profile, entered, moved, lost, crossed>>
      BY <1>7 DEF RejectCommit
    <2>2. u \in People
      BY <2>1, DeskNow DEF WorkOK
    <2>3. app' = [app EXCEPT ![u] = new]
      BY <1>7 DEF RejectCommit, StaffTypeOK
    <2>4. app' \in [People -> Applications] /\ ReviewFits'
      BY <2>2, <2>3, AppMoves
    <2> QED
      BY <2>1, <2>4, EndDesk DEF StaffTypeOK
  <1>8. ASSUME NEW d \in Desks, AssignWrite(d)
        PROVE  StaffInv'
    <2>1. /\ desk[d].pc = "assign" /\ EndWork(d)
          /\ UNCHANGED <<app, custom, profile, entered, lost, crossed>>
          /\ \/ UNCHANGED <<role, moved>>
             \/ /\ desk[d].role = "custom" => custom
                /\ role' = [role EXCEPT ![desk[d].who] = desk[d].role]
                /\ moved' = moved \cup {desk[d].who}
      BY <1>8 DEF AssignWrite
    <2>2. desk[d].who \in People /\ desk[d].role \in RoleSlugs
      BY <2>1, DeskNow DEF WorkOK
    <2>3. /\ role' \in [People -> RoleSlugs] /\ moved' \subseteq People
          /\ ~custom => \A w \in People : role'[w] # "custom"
      BY <2>1, <2>2 DEF StaffTypeOK
    <2> QED
      BY <2>1, <2>3, EndDesk DEF StaffTypeOK, ReviewFits
  <1>9. ASSUME NEW d \in Desks, CountUsers(d)
        PROVE  StaffInv'
    BY <1>9, CountForm, EndDesk, DeskType DEF StaffTypeOK, ReviewFits
  <1>10. ASSUME NEW d \in Desks, DeleteRole(d)
         PROVE  StaffInv'
    <2>1. /\ EndWork(d) /\ custom' = FALSE /\ lost' \subseteq People
          /\ role' = [u \in People |-> IF role[u] = "custom" THEN "none" ELSE role[u]]
          /\ UNCHANGED <<app, profile, entered, moved, crossed>>
      BY <1>10 DEF DeleteRole, ForgetRole, StaffTypeOK
    <2>2. role' \in [People -> RoleSlugs] /\ \A w \in People : role'[w] # "custom"
      BY <2>1 DEF StaffTypeOK, RoleSlugs
    <2> QED
      BY <2>1, <2>2, EndDesk DEF StaffTypeOK, ReviewFits
  <1>11. ASSUME NEW d \in Desks, ProfileWrite(d)
         PROVE  StaffInv'
    <2>1. /\ desk[d].pc = "edit" /\ EndWork(d) /\ WriteProfile(desk[d])
          /\ UNCHANGED <<app, role, custom, moved, lost, crossed>>
      BY <1>11 DEF ProfileWrite
    <2>2. desk[d].who \in People /\ WorkOK(desk[d])
      BY <2>1, DeskNow DEF WorkOK
    <2>3. profile' \in [People -> Profiles] /\ entered' \in [People -> Profiles]
      BY <2>1, <2>2, WriteProfileType
    <2> QED
      BY <2>1, <2>3, EndDesk DEF StaffTypeOK, ReviewFits
  <1>12. ASSUME NEW d \in Desks, WorkDies(d)
         PROVE  StaffInv'
    BY <1>12, EndDesk DEF WorkDies, StaffTypeOK, ReviewFits
  <1> QED
    BY <1>1, <1>2, <1>3, <1>4, <1>5, <1>6, <1>7, <1>8, <1>9, <1>10, <1>11, <1>12
    DEF StaffNext, WorkCall

\* As long as handlers do not overlap, one at most is in flight, what it checked
\* still holds, and so do the promises.
Alone == \A d, e \in Desks : desk[d].pc # "idle" /\ desk[e].pc # "idle" => d = e

ChecksHold == \A d \in Desks : StillTrue(desk[d])

Promises ==
  /\ \A u \in People \ moved : role[u] = "courier" <=> app[u].status = "APPROVED"
  /\ profile = entered
  /\ lost = {}

SoloInv == ~crossed => Alone /\ ChecksHold /\ Promises

LEMMA SoloInitInv == StaffInit => SoloInv
  <1> SUFFICES ASSUME StaffInit PROVE Alone /\ ChecksHold /\ Promises
    BY DEF SoloInv
  <1>1. \A d \in Desks : desk[d].pc = "idle"
    BY NoWorkOK DEF StaffInit
  <1>2. \A u \in People : role[u] = "none" /\ app[u].status = "none"
    BY DEF StaffInit
  <1>3. profile = entered /\ lost = {}
    BY DEF StaffInit
  <1> QED
    BY <1>1, <1>2, <1>3 DEF Alone, ChecksHold, StillTrue, Promises

\* The write of a handler that is alone leaves none in flight.
LEMMA LastEnds ==
  ASSUME StaffTypeOK, Alone, NEW d \in Desks, desk[d].pc # "idle", EndWork(d)
  PROVE  Alone' /\ ChecksHold'
  <1>1. \A e \in Desks : desk'[e].pc = "idle"
    BY EndDesk, NoWorkOK DEF Alone
  <1> QED
    BY <1>1 DEF Alone, ChecksHold, StillTrue

\* The next call of a handler that is alone.
LEMMA OnlyMoves ==
  ASSUME StaffTypeOK, Alone, NEW d \in Desks, NEW q, WorkOK(q), StillTrue(q)',
         \A e \in Desks \ {d} : desk[e].pc = "idle",
         desk' = [desk EXCEPT ![d] = q]
  PROVE  Alone' /\ ChecksHold'
  <1>1. \A e \in Desks : desk'[e] = IF e = d THEN q ELSE desk[e]
    BY DeskType
  <1>2. Alone'
    BY <1>1 DEF Alone
  <1>3. ChecksHold'
    BY <1>1 DEF ChecksHold, StillTrue
  <1> QED
    BY <1>2, <1>3

LEMMA SoloStep ==
  ASSUME StaffInv, SoloInv, [StaffNext]_staffVars
  PROVE  SoloInv'
  <1> SUFFICES ASSUME ~crossed' PROVE Alone' /\ ChecksHold' /\ Promises'
    BY DEF SoloInv
  <1>0. StaffTypeOK
    BY DEF StaffInv
  <1>1. CASE UNCHANGED staffVars
    BY <1>1 DEF staffVars, SoloInv, Alone, ChecksHold, StillTrue, Promises
  <1>2. CASE StaffNext
    <2>1. ~crossed
      <3>1. CASE CreateRole
        BY <3>1 DEF CreateRole
      <3>2. ASSUME NEW d \in Desks, WorkArrives(d) PROVE ~crossed
        <4>1. PICK q : StartWork(d, q)
          BY <1>0, <3>2, StartForm
        <4> QED
          BY <4>1 DEF StartWork
      <3>3. ASSUME NEW d \in Desks, WorkCall(d) PROVE ~crossed
        BY <3>3 DEF WorkCall, ApplyWrite, ReadProfile, ApproveCommit, RejectCommit,
           AssignWrite, CountUsers, DeleteRole, ProfileWrite
      <3>4. ASSUME NEW d \in Desks, WorkDies(d) PROVE ~crossed
        BY <3>4 DEF WorkDies
      <3> QED
        BY <1>2, <3>1, <3>2, <3>3, <3>4 DEF StaffNext
    <2>2. Alone /\ ChecksHold /\ Promises
      BY <2>1 DEF SoloInv
    <2>3. CASE CreateRole
      <3>1. ~custom /\ UNCHANGED <<app, role, profile, desk, entered, moved, lost>>
        BY <2>3 DEF CreateRole
      <3> QED
        BY <2>2, <3>1 DEF Alone, ChecksHold, StillTrue, Promises
    <2>4. ASSUME NEW d \in Desks, WorkArrives(d)
          PROVE  Alone' /\ ChecksHold' /\ Promises'
      <3>1. PICK q : WorkOK(q) /\ StillTrue(q) /\ StartWork(d, q)
        BY <1>0, <2>4, StartForm
      <3>2. /\ desk' = [desk EXCEPT ![d] = q] /\ \A e \in Desks \ {d} : desk[e].pc = "idle"
            /\ UNCHANGED <<app, role, custom, profile, entered, moved, lost>>
        BY <3>1 DEF StartWork
      <3>3. StillTrue(q)'
        BY <3>1, <3>2 DEF StillTrue
      <3>4. Alone' /\ ChecksHold'
        BY <1>0, <2>2, <3>1, <3>2, <3>3, OnlyMoves
      <3>5. Promises'
        BY <2>2, <3>2 DEF Promises
      <3> QED
        BY <3>4, <3>5
    <2>5. ASSUME NEW d \in Desks, WorkCall(d)
          PROVE  Alone' /\ ChecksHold' /\ Promises'
      <3>1. desk[d].pc # "idle" /\ StillTrue(desk[d])
        BY <2>2, <2>5 DEF ChecksHold, WorkCall, ApplyWrite, ReadProfile, ApproveCommit, RejectCommit,
           AssignWrite, CountUsers, DeleteRole, ProfileWrite
      <3>2. \A e \in Desks \ {d} : desk[e].pc = "idle"
        BY <2>2, <3>1 DEF Alone
      <3> DEFINE u == desk[d].who
      <3>3. CASE ApplyWrite(d)
        <4> DEFINE new == [status |-> "PENDING", vehicle |-> desk[d].json.vehicle,
                           reason |-> FALSE, reviewed |-> FALSE]
        <4>1. /\ desk[d].pc = "apply" /\ EndWork(d) /\ app' = [app EXCEPT ![u] = new]
              /\ moved' = moved \ {u} /\ UNCHANGED <<role, profile, entered, lost>>
          BY <3>3 DEF ApplyWrite
        <4>2. u \in People /\ desk[d].json.vehicle \in Vehicles \cup {Unset}
          BY <1>0, <4>1, DeskNow DEF WorkOK
        <4>3. \A w \in People : app'[w] = IF w = u THEN new ELSE app[w]
          BY <4>1, <4>2, AppMoves
        <4>4. role[u] # "courier"
          BY <3>1, <4>1 DEF StillTrue
        <4>5. Promises'
          BY <2>2, <4>1, <4>3, <4>4 DEF Promises
        <4> QED
          BY <1>0, <2>2, <3>1, <4>1, <4>5, LastEnds
      <3>4. CASE ReadProfile(d)
        <4>1. PICK q : /\ WorkOK(q) /\ q.pc = "approve" /\ q.who = u /\ q.field = desk[d].field
                       /\ q.json.online = profile[q.who].online
                       /\ desk[d].pc = "profile" /\ desk' = [desk EXCEPT ![d] = q]
                       /\ UNCHANGED <<app, role, custom, profile, entered, moved, lost, crossed>>
          BY <1>0, <3>4, ReadProfileForm
        <4>2. q.field = "vehicle" /\ app[q.who].status = "PENDING"
          BY <3>1, <4>1 DEF StillTrue
        <4>3. StillTrue(q)'
          BY <4>1, <4>2 DEF StillTrue
        <4> QED
          BY <1>0, <2>2, <3>2, <4>1, <4>3, OnlyMoves DEF Promises
      <3>5. CASE ApproveCommit(d)
        <4>1. /\ desk[d].pc = "approve" /\ EndWork(d) /\ app' = [app EXCEPT ![u] = Approved(app[u])]
              /\ role' = [role EXCEPT ![u] = "courier"] /\ WriteProfile(desk[d])
              /\ moved' = moved \ {u} /\ UNCHANGED lost
          BY <3>5 DEF ApproveCommit
        <4>2. u \in People /\ WorkOK(desk[d]) /\ desk[d].json \in Profiles
          BY <1>0, <4>1, DeskNow DEF WorkOK
        <4>3. \A w \in People : app'[w] = IF w = u THEN Approved(app[u]) ELSE app[w]
          BY <4>1, <4>2, AppMoves
        <4>4. Approved(app[u]).status = "APPROVED"
          BY <1>0, <4>2 DEF Approved, StaffTypeOK, Applications
        <4>5. \A w \in People : role'[w] = IF w = u THEN "courier" ELSE role[w]
          BY <1>0, <4>1, <4>2 DEF StaffTypeOK
        <4>6. desk[d].field = "vehicle" /\ desk[d].json.online = profile[u].online
          BY <3>1, <4>1 DEF StillTrue
        <4>7. profile' = entered'
          <5>1. /\ profile' \in [People -> Profiles] /\ entered' \in [People -> Profiles]
                /\ \A w \in People \ {u} : profile'[w] = profile[w] /\ entered'[w] = entered[w]
                /\ profile'[u] = desk[d].json
                /\ entered'[u] = [entered[u] EXCEPT !.vehicle = desk[d].json.vehicle]
            BY <1>0, <4>1, <4>2, <4>6, WriteProfileType
          <5>2. entered[u] = profile[u] /\ profile[u] \in Profiles
            BY <1>0, <2>2, <4>2 DEF Promises, StaffTypeOK
          <5>3. desk[d].json = [profile[u] EXCEPT !.vehicle = desk[d].json.vehicle]
            BY <4>2, <4>6, <5>2 DEF Profiles
          <5>4. \A w \in People : profile'[w] = entered'[w]
            BY <2>2, <5>1, <5>2, <5>3 DEF Promises
          <5> QED
            BY <5>1, <5>4
        <4>8. Promises'
          BY <2>2, <4>1, <4>3, <4>4, <4>5, <4>7 DEF Promises
        <4> QED
          BY <1>0, <2>2, <3>1, <4>1, <4>8, LastEnds
      <3>6. CASE RejectCommit(d)
        <4> DEFINE new == [app[u] EXCEPT !.status = "REJECTED", !.reviewed = TRUE, !.reason = TRUE]
        <4>1. /\ desk[d].pc = "reject" /\ EndWork(d)
              /\ UNCHANGED <<role, profile, entered, moved, lost>>
          BY <3>6 DEF RejectCommit
        <4>2. u \in People
          BY <1>0, <4>1, DeskNow DEF WorkOK
        <4>3. app' = [app EXCEPT ![u] = new]
          BY <1>0, <3>6 DEF RejectCommit, StaffTypeOK
        <4>4. \A w \in People : app'[w] = IF w = u THEN new ELSE app[w]
          BY <4>2, <4>3, AppMoves
        <4>5. new.status = "REJECTED"
          BY <1>0, <4>2 DEF StaffTypeOK, Applications
        <4>6. app[u].status = "PENDING"
          BY <3>1, <4>1 DEF StillTrue
        <4> HIDE DEF new
        <4>7. Promises'
          BY <2>2, <4>1, <4>2, <4>4, <4>5, <4>6 DEF Promises
        <4> QED
          BY <1>0, <2>2, <3>1, <4>1, <4>7, LastEnds
      <3>7. CASE AssignWrite(d)
        <4>1. /\ desk[d].pc = "assign" /\ EndWork(d)
              /\ UNCHANGED <<app, profile, entered, lost>>
              /\ \/ UNCHANGED <<role, moved>>
                 \/ /\ role' = [role EXCEPT ![u] = desk[d].role]
                    /\ moved' = moved \cup {u}
          BY <3>7 DEF AssignWrite
        <4>2. \A w \in People \ {u} : role'[w] = role[w]
          BY <1>0, <4>1 DEF StaffTypeOK
        <4>3. \A w \in People \ moved' : role'[w] = role[w] /\ w \notin moved
          BY <4>1, <4>2
        <4>4. Promises'
          BY <2>2, <4>1, <4>3 DEF Promises
        <4> QED
          BY <1>0, <2>2, <3>1, <4>1, <4>4, LastEnds
      <3>8. CASE CountUsers(d)
        <4>1. /\ UNCHANGED <<app, role, custom, profile, entered, moved, lost, crossed>>
              /\ \/ EndWork(d)
                 \/ \E q : /\ WorkOK(q) /\ q.pc = "delete" /\ desk' = [desk EXCEPT ![d] = q]
                           /\ \A w \in People : role[w] # "custom"
          BY <1>0, <3>8, CountForm
        <4>2. CASE EndWork(d)
          BY <1>0, <2>2, <3>1, <4>1, <4>2, LastEnds DEF Promises
        <4>3. ASSUME NEW q, WorkOK(q), q.pc = "delete", desk' = [desk EXCEPT ![d] = q],
                     \A w \in People : role[w] # "custom"
              PROVE  Alone' /\ ChecksHold' /\ Promises'
          <5>1. StillTrue(q)'
            BY <4>1, <4>3 DEF StillTrue
          <5> QED
            BY <1>0, <2>2, <3>2, <4>1, <4>3, <5>1, OnlyMoves DEF Promises
        <4> QED
          BY <4>1, <4>2, <4>3
      <3>9. CASE DeleteRole(d)
        <4>1. /\ desk[d].pc = "delete" /\ EndWork(d) /\ UNCHANGED <<app, profile, entered, moved>>
              /\ role' = [w \in People |-> IF role[w] = "custom" THEN "none" ELSE role[w]]
              /\ lost' = lost \cup {w \in People : role[w] = "custom"}
          BY <3>9 DEF DeleteRole, ForgetRole
        <4>2. \A w \in People : role[w] # "custom"
          BY <3>1, <4>1 DEF StillTrue
        <4>3. lost' = lost /\ \A w \in People : role'[w] = role[w]
          BY <4>1, <4>2
        <4>4. Promises'
          BY <2>2, <4>1, <4>3 DEF Promises
        <4> QED
          BY <1>0, <2>2, <3>1, <4>1, <4>4, LastEnds
      <3>10. CASE ProfileWrite(d)
        <4>1. /\ desk[d].pc = "edit" /\ EndWork(d) /\ WriteProfile(desk[d])
              /\ UNCHANGED <<app, role, moved, lost>>
          BY <3>10 DEF ProfileWrite
        <4>2. u \in People /\ WorkOK(desk[d]) /\ desk[d].json \in Profiles /\ desk[d].field \in Fields
          BY <1>0, <4>1, DeskNow DEF WorkOK
        <4>3. /\ desk[d].field = "vehicle" => desk[d].json.online = profile[u].online
              /\ desk[d].field = "online" => desk[d].json.vehicle = profile[u].vehicle
          BY <3>1, <4>1 DEF StillTrue
        <4>4. profile' = entered'
          <5>1. /\ profile' \in [People -> Profiles] /\ entered' \in [People -> Profiles]
                /\ \A w \in People \ {u} : profile'[w] = profile[w] /\ entered'[w] = entered[w]
                /\ profile'[u] = desk[d].json
                /\ desk[d].field = "vehicle" =>
                     entered'[u] = [entered[u] EXCEPT !.vehicle = desk[d].json.vehicle]
                /\ desk[d].field = "online" =>
                     entered'[u] = [entered[u] EXCEPT !.online = desk[d].json.online]
            BY <1>0, <4>1, <4>2, WriteProfileType
          <5>2. entered[u] = profile[u] /\ profile[u] \in Profiles
            BY <1>0, <2>2, <4>2 DEF Promises, StaffTypeOK
          <5>3. /\ desk[d].field = "vehicle" =>
                     desk[d].json = [profile[u] EXCEPT !.vehicle = desk[d].json.vehicle]
                /\ desk[d].field = "online" =>
                     desk[d].json = [profile[u] EXCEPT !.online = desk[d].json.online]
            BY <4>2, <4>3, <5>2 DEF Profiles
          <5>4. \A w \in People : profile'[w] = entered'[w]
            BY <2>2, <4>2, <5>1, <5>2, <5>3 DEF Promises, Fields
          <5> QED
            BY <5>1, <5>4
        <4>5. Promises'
          BY <2>2, <4>1, <4>4 DEF Promises
        <4> QED
          BY <1>0, <2>2, <3>1, <4>1, <4>5, LastEnds
      <3> QED
        BY <2>5, <3>3, <3>4, <3>5, <3>6, <3>7, <3>8, <3>9, <3>10 DEF WorkCall
    <2>6. ASSUME NEW d \in Desks, WorkDies(d)
          PROVE  Alone' /\ ChecksHold' /\ Promises'
      BY <1>0, <2>2, <2>6, LastEnds DEF WorkDies, Promises
    <2> QED
      BY <1>2, <2>3, <2>4, <2>5, <2>6 DEF StaffNext
  <1> QED
    BY <1>1, <1>2

\* Applications show what was decided; as long as handlers do not overlap, roles
\* follow the reviews, profiles keep every edit and a removal takes no role
\* (Staff.StaffStands).
THEOREM StaffIsInOrder == StaffSpec => []StaffStands
  <1>1. StaffInv /\ SoloInv => StaffStands
    BY DEF StaffInv, SoloInv, Promises, StaffStands, RoleFollowsReview, ProfileKeepsEdits,
       RemovalTakesNobody
  <1> QED
    BY <1>1, StaffInitInv, StaffStepInv, SoloInitInv, SoloStep, PTL DEF StaffSpec

-----------------------------------------------------------------------------
(* The lists of the bot.  A list is a line: what was sent of it, what its  *)
(* worker holds, what is queued.  Nothing in it reaches the last number    *)
(* published, so what is published next comes last.                        *)

Rising(s) == \A i, j \in 1 .. Len(s) : i < j => s[i] < s[j]

Line(l, last) ==
  /\ Rising(sent[l]) /\ Rising(queue[l])
  /\ \A i \in 1 .. Len(sent[l]), j \in 1 .. Len(queue[l]) : sent[l][i] < queue[l][j]
  /\ held[l] # 0 => /\ \A i \in 1 .. Len(sent[l]) : sent[l][i] < held[l]
                    /\ \A j \in 1 .. Len(queue[l]) : held[l] < queue[l][j]
  /\ \A i \in 1 .. Len(sent[l]) : sent[l][i] <= last
  /\ held[l] <= last
  /\ \A j \in 1 .. Len(queue[l]) : queue[l][j] <= last

\* The last number published of a list: a row that is about to be mirrored is
\* stored already, its copy is not.
Last(l) ==
  IF l # "telegram" THEN codes
  ELSE IF sender.pc = "mirror" THEN Cardinality(stored) - 1 ELSE Cardinality(stored)

InboxInv ==
  /\ InboxTypeOK
  /\ stored = 1 .. Cardinality(stored)
  /\ sender.pc = "create" => sender.row = Cardinality(stored) + 1
  /\ sender.pc = "mirror" => sender.row = Cardinality(stored) /\ sender.row # 0
  /\ \A l \in Lists : Line(l, Last(l))

\* What a list of jobs, Append, Head and Tail are to the provers.
LEMMA JobsOf ==
  ASSUME NEW s \in Seq(Jobs)
  PROVE  /\ Len(s) \in Nat
         /\ \A i \in 1 .. Len(s) : s[i] \in Nat
         /\ s # <<>> => Len(s) # 0
  <1>1. Len(s) \in Nat
    BY LenProperties
  <1>2. ASSUME NEW i \in 1 .. Len(s)
        PROVE  s[i] \in Jobs
    BY ElementOfSeq
  <1>3. s # <<>> => Len(s) # 0
    BY EmptySeq
  <1> QED
    BY <1>1, <1>2, <1>3 DEF Jobs

LEMMA AppendJob ==
  ASSUME NEW s \in Seq(Jobs), NEW j \in Jobs
  PROVE  /\ Append(s, j) \in Seq(Jobs)
         /\ Len(s) \in Nat /\ Len(Append(s, j)) = Len(s) + 1
         /\ \A i \in 1 .. Len(s) : Append(s, j)[i] = s[i] /\ s[i] \in Nat
         /\ Append(s, j)[Len(s) + 1] = j
  <1>1. Len(s) \in Nat /\ \A i \in 1 .. Len(s) : s[i] \in Nat
    BY JobsOf
  <1> QED
    BY <1>1

LEMMA TailJob ==
  ASSUME NEW s \in Seq(Jobs), s # <<>>
  PROVE  /\ Tail(s) \in Seq(Jobs) /\ Head(s) \in Jobs
         /\ Len(s) \in Nat \ {0} /\ Len(Tail(s)) = Len(s) - 1
         /\ Head(s) = s[1]
         /\ \A i \in 1 .. Len(s) - 1 : Tail(s)[i] = s[i + 1]
         /\ \A i \in 1 .. Len(s) : s[i] \in Nat
  <1>1. Len(s) \in Nat \ {0} /\ \A i \in 1 .. Len(s) : s[i] \in Nat
    BY JobsOf
  <1> QED
    BY <1>1, HeadTailProperties

LEMMA RisingAppend ==
  ASSUME NEW s \in Seq(Jobs), NEW j \in Jobs, Rising(s),
         \A i \in 1 .. Len(s) : s[i] < j
  PROVE  Rising(Append(s, j))
  <1>1. \A i \in 1 .. Len(s) + 1 : i \in 1 .. Len(s) \/ i = Len(s) + 1
    BY AppendJob
  <1>2. SUFFICES ASSUME NEW i \in 1 .. Len(s) + 1, NEW k \in 1 .. Len(s) + 1, i < k
                 PROVE  Append(s, j)[i] < Append(s, j)[k]
    BY AppendJob DEF Rising
  <1>3. i \in 1 .. Len(s)
    BY <1>2, AppendJob
  <1> QED
    BY <1>1, <1>2, <1>3, AppendJob DEF Rising

-----------------------------------------------------------------------------
LEMMA PublishLine ==
  ASSUME DeliveryTypeOK, NEW k \in Lists, NEW j \in Jobs, Publish(k, j),
         NEW l \in Lists, NEW b \in Nat, NEW c \in Nat, Line(l, b), b <= c,
         l = k => b < j /\ j <= c
  PROVE  Line(l, c)' 
  <1>1. /\ sent[l] \in Seq(Jobs) /\ queue[l] \in Seq(Jobs)
        /\ held[l] \in Nat
        /\ sent'[l] = sent[l] /\ held'[l] = held[l]
    BY DEF DeliveryTypeOK, Publish, Jobs
  <1>2. /\ Len(sent[l]) \in Nat /\ Len(queue[l]) \in Nat
        /\ \A i \in 1 .. Len(sent[l]) : sent[l][i] \in Nat
        /\ \A i \in 1 .. Len(queue[l]) : queue[l][i] \in Nat
    BY <1>1, JobsOf
  <1>3. CASE l # k
    <2>1. queue'[l] = queue[l]
      BY <1>3 DEF Publish, DeliveryTypeOK
    <2> QED
      BY <1>1, <1>2, <2>1 DEF Line, Rising
  <1>4. CASE l = k
    <2> DEFINE s == queue[l]
               t == Append(s, j)
    <2>1. queue'[l] = t
      BY <1>4 DEF Publish, DeliveryTypeOK
    <2>2. /\ s \in Seq(Jobs) /\ j \in Nat /\ Len(t) = Len(s) + 1
          /\ \A i \in 1 .. Len(s) : t[i] = s[i]
          /\ t[Len(s) + 1] = j
      BY <1>1, AppendJob DEF Jobs
    <2>3. Rising(t)
      BY <1>1, <1>2, <1>4, RisingAppend DEF Line, Jobs
    <2> HIDE DEF t
    <2>4. ASSUME NEW i \in 1 .. Len(t)
          PROVE  (i \in 1 .. Len(s) /\ t[i] = s[i]) \/ t[i] = j
      <3>1. Len(s) \in Nat
        BY <1>2
      <3>2. i \in 1 .. Len(s) \/ i = Len(s) + 1
        BY <2>2, <3>1
      <3> QED
        BY <2>2, <3>2
    <2>5. \A i \in 1 .. Len(sent[l]), m \in 1 .. Len(t) : sent[l][i] < t[m]
      BY <1>2, <1>4, <2>2, <2>4 DEF Line
    <2>6. ASSUME held[l] # 0, NEW m \in 1 .. Len(t)
          PROVE  held[l] < t[m]
      <3>1. held[l] < j
        BY <1>1, <1>4, <2>2 DEF Line
      <3>2. \A i \in 1 .. Len(s) : held[l] < s[i]
        BY <2>6 DEF Line
      <3> QED
        BY <2>4, <3>1, <3>2
    <2>7. \A m \in 1 .. Len(t) : t[m] <= c
      BY <1>2, <1>4, <2>2, <2>4 DEF Line
    <2> QED
      BY <1>1, <1>2, <2>1, <2>3, <2>5, <2>6, <2>7 DEF Line
  <1> QED
    BY <1>3, <1>4

\* The workers only move a job on, or lose it.
LEMMA WorkerLine ==
  ASSUME DeliveryTypeOK, NEW l \in Lists, NEW b \in Nat, Line(l, b),
         (\E k \in Lists : Worker(k)) \/ BotRestart
  PROVE  Line(l, b)'
  <1>1. /\ sent[l] \in Seq(Jobs) /\ queue[l] \in Seq(Jobs)
        /\ held[l] \in {0} \cup Jobs
    BY DEF DeliveryTypeOK
  <1>2. /\ Len(sent[l]) \in Nat /\ Len(queue[l]) \in Nat
        /\ \A i \in 1 .. Len(sent[l]) : sent[l][i] \in Nat
        /\ \A i \in 1 .. Len(queue[l]) : queue[l][i] \in Nat
    BY <1>1, JobsOf
  <1>3. CASE PopJob(l)
    <2> DEFINE s == queue[l]
    <2>1. /\ s # <<>> /\ held[l] = 0
          /\ queue'[l] = Tail(s) /\ held'[l] = Head(s) /\ sent'[l] = sent[l]
      BY <1>3 DEF PopJob, DeliveryTypeOK
    <2>2. /\ Len(s) \in Nat \ {0} /\ Len(Tail(s)) = Len(s) - 1
          /\ Head(s) = s[1]
          /\ \A i \in 1 .. Len(s) - 1 : Tail(s)[i] = s[i + 1]
      BY <1>1, <2>1, TailJob
    <2>3. Rising(Tail(s)) /\ \A i \in 1 .. Len(Tail(s)) : Head(s) < Tail(s)[i] /\ Tail(s)[i] <= b
      BY <1>2, <2>2 DEF Line, Rising
    <2>4. \A i \in 1 .. Len(sent[l]) :
            sent[l][i] < Head(s) /\ \A j \in 1 .. Len(Tail(s)) : sent[l][i] < Tail(s)[j]
      BY <1>2, <2>2 DEF Line
    <2>5. Head(s) <= b
      BY <1>2, <2>2 DEF Line
    <2> QED
      BY <2>1, <2>3, <2>4, <2>5 DEF Line
  <1>4. CASE Deliver(l)
    <2> DEFINE j == held[l]
               s == sent[l]
               t == Append(s, j)
    <2>1. j \in Jobs /\ sent'[l] = t /\ held'[l] = 0 /\ queue'[l] = queue[l]
      BY <1>1, <1>4 DEF Deliver, DeliveryTypeOK
    <2>2. /\ Len(t) = Len(s) + 1 /\ j \in Nat
          /\ \A i \in 1 .. Len(s) : t[i] = s[i]
          /\ t[Len(s) + 1] = j
      BY <1>1, <2>1, AppendJob DEF Jobs
    <2>3. j # 0
      BY <1>4 DEF Deliver
    <2>4. Rising(t)
      BY <1>1, <2>1, <2>3, RisingAppend DEF Line
    <2> HIDE DEF t
    <2>5. \A i \in 1 .. Len(t) : (i \in 1 .. Len(s) /\ t[i] = s[i]) \/ t[i] = j
      BY <1>2, <2>2
    <2>6. \A i \in 1 .. Len(t) : t[i] <= b /\ \A m \in 1 .. Len(queue[l]) : t[i] < queue[l][m]
      BY <2>3, <2>5 DEF Line
    <2> QED
      BY <2>1, <2>4, <2>6 DEF Line
  <1>5. CASE /\ sent'[l] = sent[l] /\ queue'[l] = queue[l]
             /\ held'[l] \in {0, held[l]}
    BY <1>5 DEF Line
  <1>6. CASE (\E k \in Lists \ {l} : Worker(k)) \/ DropJob(l) \/ BotRestart
    <2>1. /\ sent'[l] = sent[l] /\ queue'[l] = queue[l]
          /\ held'[l] \in {0, held[l]}
      BY <1>6 DEF Worker, PopJob, Deliver, DropJob, BotRestart, DeliveryTypeOK
    <2> QED
      BY <1>5, <2>1
  <1> QED
    BY <1>3, <1>4, <1>6 DEF Worker

LEMMA WorkerType ==
  ASSUME DeliveryTypeOK, (\E k \in Lists : Worker(k)) \/ BotRestart
  PROVE  DeliveryTypeOK'
  <1>1. ASSUME NEW k \in Lists, PopJob(k)
        PROVE  DeliveryTypeOK'
    <2>1. Head(queue[k]) \in Jobs /\ Tail(queue[k]) \in Seq(Jobs)
      BY <1>1, TailJob DEF PopJob, DeliveryTypeOK
    <2> QED
      BY <1>1, <2>1 DEF PopJob, DeliveryTypeOK
  <1>2. ASSUME NEW k \in Lists, Deliver(k)
        PROVE  DeliveryTypeOK'
    <2>1. held[k] \in Jobs /\ sent[k] \in Seq(Jobs)
      BY <1>2 DEF Deliver, DeliveryTypeOK
    <2>2. Append(sent[k], held[k]) \in Seq(Jobs)
      BY <2>1, AppendJob
    <2> QED
      BY <1>2, <2>2 DEF Deliver, DeliveryTypeOK
  <1>3. CASE (\E k \in Lists : DropJob(k)) \/ BotRestart
    BY <1>3 DEF DropJob, BotRestart, DeliveryTypeOK
  <1> QED
    BY <1>1, <1>2, <1>3 DEF Worker

LEMMA PublishType ==
  ASSUME DeliveryTypeOK, NEW k \in Lists, NEW j \in Jobs, Publish(k, j)
  PROVE  DeliveryTypeOK'
  <1>1. Append(queue[k], j) \in Seq(Jobs)
    BY AppendJob DEF DeliveryTypeOK
  <1> QED
    BY <1>1 DEF Publish, DeliveryTypeOK

\* The rows in order of creation: how many they are is the last one's number.
LEMMA RowCount ==
  ASSUME NEW n \in Nat
  PROVE  Cardinality(1 .. n) = n
  BY FS_Interval

LEMMA RowsFinite ==
  ASSUME InboxTypeOK
  PROVE  IsFiniteSet(stored)
  <1>1. IsFiniteSet(Jobs)
    BY FS_Interval, DeliveryAssumption DEF Jobs
  <1>2. stored \in SUBSET Jobs
    BY DEF InboxTypeOK
  <1> QED
    BY <1>1, <1>2, FS_Subset

LEMMA InboxStart == InboxInit => InboxInv
  <1> SUFFICES ASSUME InboxInit
               PROVE  InboxInv
    OBVIOUS
  <1>1. stored = 1 .. 0 /\ Cardinality(stored) = 0
    BY RowCount DEF InboxInit
  <1>2. InboxTypeOK
    BY DeliveryAssumption DEF InboxInit, DeliveryInit, InboxTypeOK, DeliveryTypeOK, Jobs
  <1>3. \A l \in Lists : Line(l, 0)
    <2>1. Len(<<>>) = 0 /\ 1 .. 0 = {}
      OBVIOUS
    <2>2. \A l \in Lists : sent[l] = <<>> /\ queue[l] = <<>> /\ held[l] = 0
      BY DEF InboxInit, DeliveryInit
    <2>3. \A l \in Lists : 1 .. Len(sent[l]) = {} /\ 1 .. Len(queue[l]) = {}
      BY <2>1, <2>2
    <2>4. ASSUME NEW l \in Lists
          PROVE  Line(l, 0)
      <3> DEFINE S == 1 .. Len(sent[l])
                 Q == 1 .. Len(queue[l])
      <3>1. S = {} /\ Q = {} /\ held[l] = 0
        BY <2>2, <2>3
      <3> HIDE DEF S, Q
      <3>2. /\ \A i, j \in S : i < j => sent[l][i] < sent[l][j]
            /\ \A i, j \in Q : i < j => queue[l][i] < queue[l][j]
            /\ \A i \in S, j \in Q : sent[l][i] < queue[l][j]
            /\ \A i \in S : sent[l][i] <= 0
            /\ \A j \in Q : queue[l][j] <= 0
        BY <3>1
      <3> QED
        BY <3>1, <3>2 DEF Line, Rising, S, Q
    <2> QED
      BY <2>4
  <1>4. \A l \in Lists : Last(l) = 0
    BY <1>1 DEF InboxInit, Last
  <1> QED
    BY <1>1, <1>2, <1>3, <1>4 DEF InboxInv, InboxInit

LEMMA InboxStep == ASSUME InboxInv, [InboxNext]_inboxVars PROVE InboxInv'
  <1> DEFINE n == Cardinality(stored)
  <1>1. /\ n \in Nat /\ stored = 1 .. n /\ n <= MaxJobs
        /\ sender.pc \in {"idle", "create", "mirror"}
        /\ sender.row \in Nat
        /\ sender.pc # "idle" => sender.row = IF sender.pc = "create" THEN n + 1 ELSE n
        /\ codes \in Nat
    <2>1. IsFiniteSet(stored)
      BY RowsFinite DEF InboxInv
    <2>2. n \in Nat /\ stored = 1 .. n /\ stored \subseteq 1 .. MaxJobs
      BY <2>1, FS_CardinalityType DEF InboxInv, InboxTypeOK, Jobs
    <2>3. n <= MaxJobs
      BY <2>2, DeliveryAssumption
    <2> QED
      BY <2>2, <2>3, DeliveryAssumption DEF InboxInv, InboxTypeOK, Jobs
  <1>2. \A l \in Lists :
          Last(l) = IF l # "telegram" THEN codes ELSE IF sender.pc = "mirror" THEN n - 1 ELSE n
    BY DEF Last
  <1>3. sender.pc = "mirror" => n # 0
    BY DEF InboxInv
  <1>4. \A l \in Lists : Last(l) \in Nat
    BY <1>1, <1>2, <1>3
  <1>5. DeliveryTypeOK /\ \A l \in Lists : Line(l, Last(l))
    BY DEF InboxInv, InboxTypeOK
  <1>6. ASSUME UNCHANGED <<stored, codes, deliveryVars>>,
               \/ sender' = [pc |-> "idle", row |-> 0]
               \/ sender.pc # "mirror" /\ sender' = [pc |-> "create", row |-> n + 1] /\ n + 1 <= MaxJobs
        PROVE  InboxInv'
    <2>1. InboxTypeOK'
      BY <1>1, <1>6, DeliveryAssumption
         DEF InboxInv, InboxTypeOK, DeliveryTypeOK, deliveryVars, Jobs
    <2>2. \A l \in Lists : Last(l)' \in Nat /\ Last(l) <= Last(l)'
      BY <1>1, <1>2, <1>3, <1>6 DEF Last
    <2>3. ASSUME NEW l \in Lists
          PROVE  Line(l, Last(l))'
      <3>1. PICK c \in Nat : c = Last(l)'
        BY <2>2
      <3>2. Line(l, c)'
        <4>1. PICK b \in Nat : b = Last(l) /\ b <= c
          BY <1>4, <2>2, <3>1
        <4>2. Line(l, b)
          BY <1>5, <4>1
        <4>3. /\ \A i \in 1 .. Len(sent[l]) : sent[l][i] \in Nat
              /\ \A i \in 1 .. Len(queue[l]) : queue[l][i] \in Nat
              /\ held[l] \in Nat
          BY <1>5, JobsOf DEF DeliveryTypeOK, Jobs
        <4> QED
          BY <1>6, <4>1, <4>2, <4>3 DEF Line, deliveryVars
      <3> QED
        BY <3>1, <3>2 DEF Line
    <2> QED
      BY <1>1, <1>6, <2>1, <2>3 DEF InboxInv
  <1>7. CASE Send
    <2>1. stored # 1 .. MaxJobs
      BY <1>7 DEF Send, Jobs
    <2>2. n + 1 <= MaxJobs
      BY <1>1, <2>1, DeliveryAssumption
    <2> QED
      BY <1>6, <1>7, <2>2 DEF Send
  <1>8. CASE CreateRows
    <2>1. /\ sender.pc = "create" /\ sender.row = n + 1
          /\ sender' = [sender EXCEPT !.pc = "mirror"]
          /\ stored' = stored \cup {n + 1}
          /\ UNCHANGED <<codes, queue, held, sent>>
      BY <1>1, <1>8 DEF CreateRows, deliveryVars
    <2>2. n + 1 <= MaxJobs /\ sender'.pc = "mirror" /\ sender'.row = n + 1
      BY <2>1, DeliveryAssumption DEF InboxInv, InboxTypeOK, Jobs
    <2>3. stored' = 1 .. (n + 1)
      BY <1>1, <2>1
    <2>4. Cardinality(stored') = n + 1
      BY <1>1, <2>3, RowCount
    <2>5. InboxTypeOK'
      <3>1. sender' \in [pc : {"idle", "create", "mirror"}, row : {0} \cup Jobs]
        BY <2>1 DEF InboxInv, InboxTypeOK
      <3> QED
        BY <1>1, <2>1, <2>2, <2>3, <3>1, DeliveryAssumption
           DEF InboxInv, InboxTypeOK, DeliveryTypeOK, Jobs
    <2>6. \A l \in Lists : Last(l)' = Last(l)
      BY <1>1, <1>2, <2>1, <2>2, <2>4 DEF Last
    <2>7. \A l \in Lists : Line(l, Last(l))'
      BY <1>5, <2>1, <2>6 DEF Line
    <2> QED
      BY <1>1, <2>2, <2>3, <2>4, <2>5, <2>7 DEF InboxInv
  <1>9. ASSUME PushTelegram, Publish("telegram", sender.row)
        PROVE  InboxInv'
    <2>1. /\ sender.pc = "mirror" /\ sender.row = n /\ n # 0
          /\ sender' = [pc |-> "idle", row |-> 0]
          /\ UNCHANGED <<stored, codes>>
      BY <1>1, <1>3, <1>9 DEF PushTelegram
    <2>2. n \in Jobs /\ Publish("telegram", n)
      BY <1>1, <1>9, <2>1, DeliveryAssumption DEF Jobs
    <2>3. DeliveryTypeOK'
      BY <1>5, <2>2, InboxAssumption, PublishType
    <2>4. InboxTypeOK'
      BY <2>1, <2>3 DEF InboxInv, InboxTypeOK
    <2>5. ASSUME NEW l \in Lists
          PROVE  Line(l, Last(l))'
      <3>1. PICK b \in Nat : b = Last(l)
        BY <1>4
      <3>2. PICK c \in Nat : c = IF l = "telegram" THEN n ELSE codes
        BY <1>1
      <3>3. c = Last(l)'
        BY <2>1, <3>2 DEF Last
      <3>4. b <= c /\ (l = "telegram" => b < n /\ n <= c)
        BY <1>1, <1>2, <2>1, <3>1, <3>2
      <3>5. Line(l, b)
        BY <1>5, <3>1
      <3>6. Line(l, c)'
        BY <1>5, <2>2, <3>4, <3>5, InboxAssumption, PublishLine
      <3> QED
        BY <3>3, <3>6 DEF Line
    <2> QED
      BY <1>1, <2>1, <2>4, <2>5 DEF InboxInv
  <1>10. CASE PublishCode
    <2>1. PICK k \in Lists \ {"telegram"} : Publish(k, codes + 1)
      BY <1>10 DEF PublishCode
    <2>2. codes' = codes + 1 /\ codes < MaxJobs /\ UNCHANGED <<stored, sender>>
      BY <1>10 DEF PublishCode
    <2>3. codes + 1 \in Jobs
      BY <1>1, <2>2, DeliveryAssumption DEF Jobs
    <2>4. DeliveryTypeOK'
      BY <1>5, <2>1, <2>3, PublishType
    <2>5. InboxTypeOK'
      BY <1>1, <2>2, <2>4, DeliveryAssumption DEF InboxInv, InboxTypeOK
    <2>6. ASSUME NEW l \in Lists
          PROVE  Line(l, Last(l))'
      <3>1. PICK b \in Nat : b = Last(l)
        BY <1>4
      <3>2. PICK c \in Nat : c = IF l = "telegram" THEN b ELSE codes + 1
        BY <1>1
      <3>3. c = Last(l)'
        BY <1>2, <2>2, <3>1, <3>2 DEF Last
      <3>4. b <= c /\ (l = k => b < codes + 1 /\ codes + 1 <= c)
        BY <1>1, <1>2, <3>1, <3>2
      <3>5. Line(l, b)
        BY <1>5, <3>1
      <3>6. Line(l, c)'
        BY <1>5, <2>1, <2>3, <3>4, <3>5, PublishLine
      <3> QED
        BY <3>3, <3>6 DEF Line
    <2> QED
      BY <1>1, <2>2, <2>5, <2>6 DEF InboxInv
  <1>11. ASSUME (\E l \in Lists : Worker(l)) \/ BotRestart,
                UNCHANGED <<stored, sender, codes>>
         PROVE  InboxInv'
    <2>1. InboxTypeOK'
      BY <1>5, <1>11, WorkerType DEF InboxInv, InboxTypeOK
    <2>2. ASSUME NEW l \in Lists
          PROVE  Line(l, Last(l))'
      <3>1. PICK b \in Nat : b = Last(l)
        BY <1>4
      <3>2. b = Last(l)'
        BY <1>11, <3>1 DEF Last
      <3>3. Line(l, b)
        BY <1>5, <3>1
      <3>4. Line(l, b)'
        BY <1>5, <1>11, <3>3, WorkerLine
      <3> QED
        BY <3>2, <3>4 DEF Line
    <2> QED
      BY <1>1, <1>11, <2>1, <2>2 DEF InboxInv
  <1>12. CASE PushTelegram /\ UNCHANGED deliveryVars
    BY <1>6, <1>12 DEF PushTelegram
  <1>13. CASE SendFails
    BY <1>6, <1>13 DEF SendFails
  <1>14. CASE UNCHANGED inboxVars
    BY <1>14 DEF inboxVars, deliveryVars, InboxInv, InboxTypeOK, DeliveryTypeOK, Line, Last
  <1>15. PushTelegram => Publish("telegram", sender.row) \/ UNCHANGED deliveryVars
    BY DEF PushTelegram
  <1> HIDE DEF n
  <1> QED
    BY <1>7, <1>8, <1>9, <1>10, <1>11, <1>12, <1>13, <1>14, <1>15 DEF InboxNext

\* A line whose parts stand in order is in order as a whole.
LEMMA LineInOrder ==
  ASSUME NEW a \in Seq(Jobs), NEW c \in Seq(Jobs), NEW j \in {0} \cup Jobs,
         Rising(a), Rising(c),
         \A i \in 1 .. Len(a), k \in 1 .. Len(c) : a[i] < c[k],
         j # 0 => /\ \A i \in 1 .. Len(a) : a[i] < j
                  /\ \A k \in 1 .. Len(c) : j < c[k]
  PROVE  Rising(a \o (IF j = 0 THEN <<>> ELSE <<j>>) \o c)
  <1> DEFINE mid == IF j = 0 THEN <<>> ELSE <<j>>
             b == a \o mid
             line == b \o c
             m == IF j = 0 THEN 0 ELSE 1
  <1>1. mid \in Seq(Jobs) /\ Len(mid) = m /\ (m = 1 => mid[1] = j)
    OBVIOUS
  <1>2. m \in {0, 1} /\ (m = 1 <=> j # 0)
    OBVIOUS
  <1> HIDE DEF mid, m
  <1>3. /\ b \in Seq(Jobs)
        /\ Len(b) = Len(a) + m
        /\ \A i \in 1 .. Len(a) + m : b[i] = IF i <= Len(a) THEN a[i] ELSE mid[i - Len(a)]
    BY <1>1, ConcatProperties
  <1>4. Len(a) \in Nat /\ Len(c) \in Nat
    BY JobsOf
  <1>5. \A i \in 1 .. Len(b) : \/ i \in 1 .. Len(a) /\ b[i] = a[i]
                               \/ j # 0 /\ i = Len(a) + 1 /\ b[i] = j
    BY <1>1, <1>2, <1>3, <1>4
  <1> HIDE DEF b
  <1>6. /\ Len(line) = Len(b) + Len(c)
        /\ \A i \in 1 .. Len(b) + Len(c) : line[i] = IF i <= Len(b) THEN b[i] ELSE c[i - Len(b)]
    BY <1>3, ConcatProperties
  <1>7. Len(b) \in Nat
    BY <1>3, JobsOf
  <1>8. \A i \in 1 .. Len(line) : \/ i \in 1 .. Len(b) /\ line[i] = b[i]
                                  \/ i - Len(b) \in 1 .. Len(c) /\ line[i] = c[i - Len(b)]
    BY <1>4, <1>6, <1>7
  <1>9. Rising(b) /\ \A i \in 1 .. Len(b), k \in 1 .. Len(c) : b[i] < c[k]
    <2>1. \A i, k \in 1 .. Len(b) : i < k => b[i] < b[k]
      BY <1>4, <1>5 DEF Rising
    <2> QED
      BY <1>5, <2>1 DEF Rising
  <1> HIDE DEF line
  <1>10. ASSUME NEW i \in 1 .. Len(line), NEW k \in 1 .. Len(line), i < k
         PROVE  line[i] < line[k]
    <2>1. CASE i \in 1 .. Len(b) /\ k \in 1 .. Len(b)
      BY <1>6, <1>7, <1>8, <1>9, <1>10, <2>1 DEF Rising
    <2>2. CASE i \in 1 .. Len(b) /\ k \notin 1 .. Len(b)
      BY <1>6, <1>7, <1>8, <1>9, <1>10, <2>2
    <2>3. CASE i \notin 1 .. Len(b)
      <3>1. /\ i - Len(b) \in 1 .. Len(c) /\ line[i] = c[i - Len(b)]
            /\ k - Len(b) \in 1 .. Len(c) /\ line[k] = c[k - Len(b)]
            /\ i - Len(b) < k - Len(b)
        BY <1>4, <1>6, <1>7, <1>8, <1>10, <2>3
      <3> QED
        BY <3>1 DEF Rising
    <2> QED
      BY <2>1, <2>2, <2>3
  <1> QED
    BY <1>10 DEF Rising, line, b, mid

LEMMA InboxTrue == InboxInv => ListsAreTrue
  <1> SUFFICES ASSUME InboxInv
               PROVE  ListsAreTrue
    OBVIOUS
  <1>1. SentInOrder
    BY LineInOrder DEF SentInOrder, InboxInv, InboxTypeOK, DeliveryTypeOK, Line, Rising
  <1>2. CopyHasRow
    <2>1. stored = 1 .. Cardinality(stored) /\ IsFiniteSet(stored)
      BY RowsFinite DEF InboxInv
    <2>2. Cardinality(stored) \in Nat
      BY <2>1, FS_CardinalityType
    <2>3. Last("telegram") <= Cardinality(stored)
      BY <2>2 DEF Last
    <2>4. Line("telegram", Last("telegram"))
      BY InboxAssumption DEF InboxInv
    <2>5. Last("telegram") \in Int
      BY <2>2 DEF Last
    <2> QED
      BY <2>1, <2>2, <2>3, <2>4, <2>5 DEF CopyHasRow, InList, Line, Jobs
  <1> QED
    BY <1>1, <1>2 DEF ListsAreTrue

\* However workers fail and the bot restarts, the lists of codes and of order
\* messages keep the order of publication and repeat nothing, and a message
\* copies a row that is stored: Inbox.ListsAreTrue (NotificationsService.send, OtpQueueService and
\* TelegramQueueService with the bot's workers).
THEOREM ListsStayTrue == InboxSpec => []ListsAreTrue
  BY InboxStart, InboxStep, InboxTrue, PTL DEF InboxSpec

-----------------------------------------------------------------------------
(* All parts of the accounts' runs: each keeps its invariant, and what the *)
(* others do does not touch it.                                            *)


AccountsInv ==
  /\ part \in {"sessions", "linking", "staff", "inbox", "lists", "entry",
               "forms", "sockets"}
  /\ part = "sessions" => Rooted
  /\ part = "linking" => LinkInv
  /\ part = "staff" => StaffInv
  /\ part = "inbox" => InboxInv
  /\ part = "lists" => ListInv
  /\ part = "entry" => EntryInv
  /\ part = "forms" => FormInv
  /\ part = "sockets" => SocketInv

LEMMA AccountsStart == AccountsInit => AccountsInv
  BY RootedInit, LinkInitInv, StaffInitInv, InboxStart, ListStart, EntryStart, FormStart,
     SocketInit, Zenon DEF AccountsInit, AccountsInv

LEMMA PartStep ==
  ASSUME [AccountsNext]_accountsVars
  PROVE  /\ part' = part
         /\ part = "sessions" => [SessionsNext]_sessionVars
         /\ part = "linking" => [LinkNext]_linkVars
         /\ part = "staff" => [StaffNext]_staffVars
         /\ part = "inbox" => [InboxNext]_inboxVars
         /\ part = "lists" => [ListNext]_listVars
         /\ part = "entry" => [EntryNext]_entryVars
         /\ part = "forms" => [FormNext]_formVars
         /\ part = "sockets" => [SocketsNext]_socketVars
  BY Zenon DEF AccountsNext, accountsVars

LEMMA AccountsStep == AccountsInv /\ [AccountsNext]_accountsVars => AccountsInv'
  <1> SUFFICES ASSUME AccountsInv, [AccountsNext]_accountsVars PROVE AccountsInv'
    OBVIOUS
  <1>1. part' = part
    BY PartStep
  <1>2. part = "sessions" => Rooted'
    BY PartStep, RootedStep, Zenon DEF AccountsInv
  <1>3. part = "linking" => LinkInv'
    BY PartStep, LinkStep, Zenon DEF AccountsInv
  <1>4. part = "staff" => StaffInv'
    BY PartStep, StaffStepInv, Zenon DEF AccountsInv
  <1>5. part = "inbox" => InboxInv'
    BY PartStep, InboxStep, Zenon DEF AccountsInv
  <1>6. part = "lists" => ListInv'
    BY PartStep, ListStep, Zenon DEF AccountsInv
  <1>7. part = "entry" => EntryInv'
    BY PartStep, EntryStep, Zenon DEF AccountsInv
  <1>8. part = "forms" => FormInv'
    BY PartStep, FormStep, Zenon DEF AccountsInv
  <1>9. part = "sockets" => SocketInv'
    BY PartStep, SocketStep, Zenon DEF AccountsInv
  <1> QED
    BY <1>1, <1>2, <1>3, <1>4, <1>5, <1>6, <1>7, <1>8, <1>9, Zenon DEF AccountsInv

\* Whatever part a behaviour is about, its rows, handlers and pages have their
\* types (MCAccounts.AccountsTypeOK).
THEOREM AccountsAreTyped == AccountsSpec => []AccountsTypeOK
  <1>1. AccountsInv => AccountsTypeOK
    BY ListTrue, EntryTrue, FormTrue, SocketTrue
       DEF AccountsInv, AccountsTypeOK, Rooted, LinkInv, StaffInv, InboxInv
  <1> QED
    BY <1>1, AccountsStart, AccountsStep, PTL DEF AccountsSpec

\* For any number of people, rows and calls, and however those of a page cross:
\* no spinner or button waits for a call that is over, redirects end, buttons
\* have one call but for the exceptions of Forms, and one connection serves a
\* page (MCAccounts.PanelsStand).
THEOREM PanelsCanBeUsed == AccountsSpec => []PanelsStand
  <1>1. AccountsInv => PanelsStand
    BY ListTrue, EntryTrue, FormTrue, SocketTrue, Zenon DEF AccountsInv, PanelsStand
  <1> QED
    BY <1>1, AccountsStart, AccountsStep, PTL DEF AccountsSpec

\* For any number of people, rows and calls, as long as those of a page did not
\* cross: lists show what was done with them, panels work for the person whose
\* tokens they hold, and forms keep what is typed and show what was saved, with
\* the exceptions Forms.TextIsKept names (MCAccounts.PanelsShowAlone).
THEOREM PanelsShowAloneHolds == AccountsSpec => []PanelsShowAlone
  <1>1. AccountsInv => PanelsShowAlone
    BY ListTrue, EntryTrue, FormTrue, Zenon DEF AccountsInv, PanelsShowAlone
  <1> QED
    BY <1>1, AccountsStart, AccountsStep, PTL DEF AccountsSpec

=============================================================================
