------------------------------ MODULE Sessions ------------------------------
(***************************************************************************)
(* AuthService and the part of the admin's UsersService that cuts accounts *)
(* off: one-time codes, login, rotation of refresh tokens, logout, block   *)
(* and unblock.  Every handler is a chain of awaited calls; a slot holds   *)
(* one handler in flight, pc names the call it awaits.  No write repeats   *)
(* the check its handler made, so each property is a bound in the number   *)
(* of handlers that may overlap: with one slot it is the rule itself.      *)
(***************************************************************************)
EXTENDS Integers, FiniteSets

CONSTANTS
  Users, Admins,
  Tokens,      \* refresh tokens the server may sign: a bound
  Slots,       \* handlers that may be in flight at the same time
  NoOne,
  MaxCodes,    \* bound: codes a user asks for
  MaxAttempts  \* OTP_MAX_ATTEMPTS

Accounts == Users \cup Admins

ASSUME SlotsAssumption   == IsFiniteSet(Slots) /\ Slots # {}
ASSUME AccountAssumption == Users \cap Admins = {} /\ NoOne \notin Accounts \cup Tokens
ASSUME LimitAssumption   == MaxCodes \in Nat /\ MaxAttempts \in Nat \ {0}

VARIABLES
  otp,      \* each user's codes, numbered in order of creation
  session,  \* Session and SuperAdminSession rows, by refresh token
  blocked,  \* users with isBlocked set
  halfway,  \* users whose block died after it was written (history)
  handler   \* the handler in each slot

sessionVars == <<otp, session, blocked, halfway, handler>>

-----------------------------------------------------------------------------
Codes == 1..MaxCodes

\* A code or session is "over" once consumed, revoked or expired; used counts
\* the logins of a code.
OtpRows == [state    : {"none", "open", "over"},
            attempts : Nat,
            used     : Nat]

\* spent counts the refreshes that revoked it.
SessionRows == [state : {"unused", "live", "over"},
                owner : Accounts \cup {NoOne},
                spent : Nat]

HandlerPCs == {"idle", "code", "wrong", "user", "consume", "revoke", "reload",
               "issue", "block", "cutoff", "unblock"}

Handlers == [pc      : HandlerPCs,
             account : Accounts \cup {NoOne},
             code    : Nat,
             token   : Tokens \cup {NoOne}]

Idle == [pc |-> "idle", account |-> NoOne, code |-> 0, token |-> NoOne]

\* What a handler past its first read carries.
CarriesItsReads(q) ==
  /\ q.pc # "idle" => q.account \in Accounts
  /\ q.pc \in {"code", "wrong", "user", "consume", "block", "cutoff",
               "unblock", "reload"} => q.account \in Users
  /\ q.pc \in {"wrong", "user", "consume"} => q.code \in Codes
  /\ q.pc \in {"revoke", "reload"} => q.token \in Tokens

\* Rows and handlers have their types.
SessionsTypeOK ==
  /\ otp \in [Users -> [Codes -> OtpRows]]
  /\ session \in [Tokens -> SessionRows]
  /\ blocked \subseteq Users
  /\ halfway \subseteq Users
  /\ handler \in [Slots -> Handlers]
  /\ \A r \in Slots : CarriesItsReads(handler[r])

SessionsInit ==
  /\ otp = [u \in Users |-> [k \in Codes |->
              [state |-> "none", attempts |-> 0, used |-> 0]]]
  /\ session = [t \in Tokens |->
                  [state |-> "unused", owner |-> NoOne, spent |-> 0]]
  /\ blocked = {}
  /\ halfway = {}
  /\ handler = [r \in Slots |-> Idle]

-----------------------------------------------------------------------------
StartHandler(r, pc, a, k, t) ==
  /\ handler[r].pc = "idle"
  /\ handler' = [handler EXCEPT ![r] =
                   [pc |-> pc, account |-> a, code |-> k, token |-> t]]
  /\ UNCHANGED <<otp, session, blocked, halfway>>

NextCall(r, pc) == handler' = [handler EXCEPT ![r].pc = pc]

Answer(r) == handler' = [handler EXCEPT ![r] = Idle]

-----------------------------------------------------------------------------
(* One-time codes.                                                         *)

RequestPhoneOtp(r, u) ==
  /\ u \notin blocked
  /\ StartHandler(r, "code", u, 0, NoOne)

\* The row stays when the job cannot be queued afterwards.
CreateOtp(r) ==
  LET u == handler[r].account
  IN /\ handler[r].pc = "code"
     /\ \E k \in Codes :
          /\ otp[u][k].state = "none"
          /\ \A j \in Codes : j < k => otp[u][j].state # "none"
          /\ otp' = [otp EXCEPT ![u][k].state = "open"]
     /\ Answer(r)
     /\ UNCHANGED <<session, blocked, halfway>>

\* findFirst by createdAt desc among the open codes.
IsNewestOpen(u, k) ==
  /\ otp[u][k].state = "open"
  /\ \A j \in Codes : j > k => otp[u][j].state # "open"

\* The caller typed the newest code right or wrong.
VerifyPhoneOtp(r, u, right) ==
  \E k \in Codes :
    /\ IsNewestOpen(u, k)
    /\ otp[u][k].attempts < MaxAttempts
    /\ StartHandler(r, IF right THEN "user" ELSE "wrong", u, k, NoOne)

WrongCode(r) ==
  LET q == handler[r]
  IN /\ q.pc = "wrong"
     /\ otp' = [otp EXCEPT ![q.account][q.code].attempts = @ + 1]
     /\ Answer(r)
     /\ UNCHANGED <<session, blocked, halfway>>

\* The user is read after the code was compared.
LoadUser(r) ==
  /\ handler[r].pc = "user"
  /\ IF handler[r].account \in blocked THEN Answer(r) ELSE NextCall(r, "consume")
  /\ UNCHANGED <<otp, session, blocked, halfway>>

\* An update by id: it does not ask whether the code still was open.
ConsumeOtp(r) ==
  LET q == handler[r]
  IN /\ q.pc = "consume"
     /\ otp' = [otp EXCEPT ![q.account][q.code].state = "over",
                           ![q.account][q.code].used = @ + 1]
     /\ NextCall(r, "issue")
     /\ UNCHANGED <<session, blocked, halfway>>

-----------------------------------------------------------------------------
(* Logins without a code.                                                  *)

\* Slip: the Mini App lets a blocked user in.
LoginWhoever(r, u) == StartHandler(r, "issue", u, 0, NoOne)

\* A user the bot or an earlier visit created; the update in between sets names.
LoginViaMiniApp(r, u) ==
  /\ u \notin blocked
  /\ StartHandler(r, "issue", u, 0, NoOne)

SuperAdminLogin(r, a) == StartHandler(r, "issue", a, 0, NoOne)

-----------------------------------------------------------------------------
(* Refresh, logout.                                                        *)

\* Slip: a token that was exchanged may be exchanged again.
RefreshAnyToken(r, t) ==
  /\ session[t].state \in {"live", "over"}
  /\ StartHandler(r, "revoke", session[t].owner, 0, t)

Refresh(r, t) ==
  /\ session[t].state = "live"
  /\ StartHandler(r, "revoke", session[t].owner, 0, t)

\* An admin's row is not read again, a user's is.
RevokeOld(r) ==
  LET q == handler[r]
  IN /\ q.pc = "revoke"
     /\ session' = [session EXCEPT ![q.token].state = "over", ![q.token].spent = @ + 1]
     /\ NextCall(r, IF q.account \in Users THEN "reload" ELSE "issue")
     /\ UNCHANGED <<otp, blocked, halfway>>

ReloadUser(r) ==
  /\ handler[r].pc = "reload"
  /\ IF handler[r].account \in blocked THEN Answer(r) ELSE NextCall(r, "issue")
  /\ UNCHANGED <<otp, session, blocked, halfway>>

\* issueUserTokens and issueSuperAdminTokens: the new row, then the answer.
IssueTokens(r) ==
  LET q == handler[r]
  IN /\ q.pc = "issue"
     /\ \E t \in Tokens :
          /\ session[t].state = "unused"
          /\ session' = [session EXCEPT ![t] =
                           [state |-> "live", owner |-> q.account, spent |-> 0]]
     /\ Answer(r)
     /\ UNCHANGED <<otp, blocked, halfway>>

Logout(t) ==
  /\ session[t].state # "unused"
  /\ session' = [session EXCEPT ![t].state = "over"]
  /\ UNCHANGED <<otp, blocked, halfway, handler>>

-----------------------------------------------------------------------------
(* The admin's block and unblock.                                          *)

Block(r, u) ==
  /\ u \notin blocked
  /\ StartHandler(r, "block", u, 0, NoOne)

BlockWrite(r) ==
  /\ handler[r].pc = "block"
  /\ blocked' = blocked \cup {handler[r].account}
  /\ NextCall(r, "cutoff")
  /\ UNCHANGED <<otp, session, halfway>>

\* updateMany over the rows there are, a call after the flag.
CutOff(r) ==
  LET u == handler[r].account
  IN /\ handler[r].pc = "cutoff"
     /\ session' = [t \in Tokens |->
                      IF session[t].owner = u /\ session[t].state # "unused"
                      THEN [session[t] EXCEPT !.state = "over"]
                      ELSE session[t]]
     /\ halfway' = halfway \ {u}
     /\ Answer(r)
     /\ UNCHANGED <<otp, blocked>>

Unblock(r, u) ==
  /\ u \in blocked
  /\ StartHandler(r, "unblock", u, 0, NoOne)

UnblockWrite(r) ==
  /\ handler[r].pc = "unblock"
  /\ blocked' = blocked \ {handler[r].account}
  /\ Answer(r)
  /\ UNCHANGED <<otp, session, halfway>>

-----------------------------------------------------------------------------
(* Time, and calls that fail: the handler ends where it is.                *)

ExpireOtp(u, k) ==
  /\ otp[u][k].state = "open"
  /\ otp' = [otp EXCEPT ![u][k].state = "over"]
  /\ UNCHANGED <<session, blocked, halfway, handler>>

ExpireSession(t) ==
  /\ session[t].state = "live"
  /\ session' = [session EXCEPT ![t].state = "over"]
  /\ UNCHANGED <<otp, blocked, halfway, handler>>

\* A block that dies after its first write cannot be repeated: it is "already
\* blocked".
HandlerDies(r) ==
  LET q == handler[r]
  IN /\ q.pc # "idle"
     /\ halfway' = IF q.pc = "cutoff" THEN halfway \cup {q.account} ELSE halfway
     /\ Answer(r)
     /\ UNCHANGED <<otp, session, blocked>>

HandlerArrives(r) ==
  \/ \E u \in Users :
       \/ RequestPhoneOtp(r, u)
       \/ \E right \in BOOLEAN : VerifyPhoneOtp(r, u, right)
       \/ LoginViaMiniApp(r, u)
       \/ Block(r, u)
       \/ Unblock(r, u)
  \/ \E a \in Admins : SuperAdminLogin(r, a)
  \/ \E t \in Tokens : Refresh(r, t)

HandlerCall(r) ==
  \/ CreateOtp(r) \/ WrongCode(r) \/ LoadUser(r) \/ ConsumeOtp(r)
  \/ RevokeOld(r) \/ ReloadUser(r) \/ IssueTokens(r)
  \/ BlockWrite(r) \/ CutOff(r) \/ UnblockWrite(r)

SessionsNext ==
  \/ \E r \in Slots : HandlerArrives(r) \/ HandlerCall(r) \/ HandlerDies(r)
  \/ \E u \in Users, k \in Codes : ExpireOtp(u, k)
  \/ \E t \in Tokens : Logout(t) \/ ExpireSession(t)

SessionsSpec == SessionsInit /\ [][SessionsNext]_sessionVars

-----------------------------------------------------------------------------
Width == Cardinality(Slots)

InFlight(pcs, u, k) ==
  {r \in Slots : handler[r].pc \in pcs /\ handler[r].account = u
                                       /\ handler[r].code = k}

\* A code logs in at most once per handler that may overlap: consumption is
\* an update by id, so only the handlers that read the code before it is
\* written can spend it again.
CodeSpent ==
  \A u \in Users, k \in Codes : otp[u][k].used <= Width

\* The attempts limit is exceeded by at most the handlers that overlap: the
\* counter is checked and incremented in different calls.
AttemptsLimited ==
  \A u \in Users, k \in Codes : otp[u][k].attempts < MaxAttempts + Width

\* A refresh token is exchanged at most once per handler that may overlap.
RotationBounded == \A t \in Tokens : session[t].spent <= Width

LiveSessions(u) == {t \in Tokens : session[t].owner = u /\ session[t].state = "live"}

\* Handlers that overlap bend each limit at most once apiece.
OverlapBounded == CodeSpent /\ AttemptsLimited /\ RotationBounded

\* Once a block is through, a blocked user keeps only sessions that handlers
\* in flight during the block create after it: none when handlers do not
\* overlap, and none more later.
BlockedStayOut ==
  \A u \in blocked \ halfway :
    \/ \E r \in Slots : handler[r].pc = "cutoff" /\ handler[r].account = u
    \/ Cardinality(LiveSessions(u)) < Width

=============================================================================
