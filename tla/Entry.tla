------------------------------- MODULE Entry -------------------------------
(***************************************************************************)
(* How a person gets into a panel and out of it: the login page, the       *)
(* boundary that asks who the token belongs to, the guard that looks at    *)
(* the role, and logout.  What the browser stores survives a reload, an    *)
(* answer may come when its session is over.  The panels differ in         *)
(*   peeks  the role is looked at before the token is stored               *)
(*   guard  what happens to a person without the role: nothing, off to the *)
(*          courier's application, off to the login page and forgotten, or *)
(*          off to the login page with the token kept                      *)
(*   form   the login asks for a phone and a code, or only for a password  *)
(* Sessions has the server's side, TabTokens the refresh.                  *)
(***************************************************************************)
EXTENDS Integers

CONSTANTS
  Visitors, NoVisitor,
  Asks,     \* calls of the page that may be in flight
  MaxHops   \* redirects in a row that are counted

\* More than the two redirects that may follow each other.
ASSUME EntryAssumption == NoVisitor \notin Visitors /\ MaxHops \in Nat /\ MaxHops > 2

ClientPanel  == [peeks |-> FALSE, guard |-> "none", form |-> "phone"]
CourierPanel == [peeks |-> FALSE, guard |-> "apply", form |-> "phone"]
SellerPanel  == [peeks |-> TRUE, guard |-> "forget", form |-> "phone"]
AdminPanel   == [peeks |-> FALSE, guard |-> "login", form |-> "code"]
Panels == {ClientPanel, CourierPanel, SellerPanel, AdminPanel}

VARIABLES
  panel,
  member,   \* who has the panel's role
  been,     \* who ever had it (history)
  route,    \* "login", "inside", or the courier's "apply"
  token,    \* whose tokens are stored
  me,       \* who the page thinks it is, and whether with the role; stored
  asked,    \* the effect of the route has run for these tokens
  login,    \* the form's step, and the call its button waits for
  ask,      \* calls in flight: what for, whose, and the role they will answer
  leaving,  \* logout is posted
  hops,     \* redirects since the last call or press (history)
  mingled   \* a session began or ended with a call of another in flight (history)

entryVars ==
  <<panel, member, been, route, token, me, asked, login, ask, leaving, hops, mingled>>

NoMe == [who |-> NoVisitor, holder |-> FALSE]
NoAsk == [for |-> "free", who |-> NoVisitor, holder |-> FALSE]
FreshForm == [step |-> panel.form, call |-> "none"]

EntryTypeOK ==
  /\ panel \in Panels
  /\ member \in SUBSET Visitors /\ been \in SUBSET Visitors
  /\ route \in {"login", "inside", "apply"}
  /\ token \in Visitors \cup {NoVisitor}
  /\ me \in [who : Visitors \cup {NoVisitor}, holder : BOOLEAN]
  /\ login \in [step : {"phone", "code"}, call : Asks \cup {"none"}]
  /\ ask \in [Asks -> [for : {"free", "code", "verify", "telegram", "read", "peek",
                              "boundary", "onboarding", "apply"},
                       who : Visitors \cup {NoVisitor}, holder : BOOLEAN]]
  /\ asked \in BOOLEAN /\ leaving \in BOOLEAN /\ mingled \in BOOLEAN
  /\ hops \in 0..MaxHops

EntryInit ==
  /\ panel \in Panels
  /\ member \in SUBSET Visitors /\ been = member
  /\ route = "inside" /\ token = NoVisitor /\ me = NoMe
  /\ asked = FALSE /\ login = FreshForm
  /\ ask = [k \in Asks |-> NoAsk]
  /\ leaving = FALSE /\ hops = 0 /\ mingled = FALSE

-----------------------------------------------------------------------------
Holds(u) == u \in member
Busy(k) == ask[k].for # "free"
Call(k, what, u) == ask' = [ask EXCEPT ![k] = [for |-> what, who |-> u, holder |-> Holds(u)]]
Over(k) == ask' = [ask EXCEPT ![k] = NoAsk]

\* A page unmounts with its form; its effects run anew.
Go(r) ==
  /\ route' = r
  /\ login' = IF r = route THEN login ELSE FreshForm
  /\ asked' = (asked /\ r = route)

Stay == UNCHANGED <<route, login, asked>>
Hangs(k) == login' = IF login.call = k THEN [login EXCEPT !.call = "none"] ELSE login

\* Slip: me stays in the store.
ClearTokens == token' = NoVisitor /\ UNCHANGED me

\* clear: tokens and me go at once.
Clear ==
  /\ token' = NoVisitor /\ me' = NoMe

Crosses(k) == mingled' = (mingled \/ \E j \in Asks \ {k} : Busy(j))
Redirected == hops < MaxHops /\ hops' = hops + 1
Acted == hops' = 0

\* assignRole, or an approved application; super admins have no role.
GivePanelRole(u) ==
  /\ panel.guard \in {"apply", "forget"}
  /\ member' = IF u \in member THEN member \ {u} ELSE member \cup {u}
  /\ been' = been \cup member'
  /\ Acted
  /\ UNCHANGED <<panel, route, token, me, asked, login, ask, leaving, mingled>>

-----------------------------------------------------------------------------
(* The login page.                                                         *)

EnterLogged ==
  /\ route = "login" /\ token # NoVisitor
  /\ Go("inside") /\ Redirected
  /\ UNCHANGED <<panel, member, been, token, me, ask, leaving, mingled>>

\* Pressed on a page that has no reason to leave: its effect runs first.
OnForm == route = "login" /\ token = NoVisitor /\ login.call = "none"

RequestOtp(k) ==
  /\ OnForm /\ login.step = "phone" /\ ~Busy(k)
  /\ login' = [login EXCEPT !.call = k]
  /\ Call(k, "code", NoVisitor)
  /\ Acted
  /\ UNCHANGED <<panel, member, been, route, token, me, asked, leaving, mingled>>

CodeSent(k) ==
  /\ ask[k].for = "code"
  /\ login' = IF login.call = k THEN [step |-> "code", call |-> "none"] ELSE login
  /\ Over(k) /\ Acted
  /\ UNCHANGED <<panel, member, been, route, token, me, asked, leaving, mingled>>

\* Not disabled while the code is verified.
BackToPhone ==
  /\ route = "login" /\ login.step = "code" /\ panel.form = "phone"
  /\ login' = [login EXCEPT !.step = "phone"]
  /\ Acted
  /\ UNCHANGED <<panel, member, been, route, token, me, asked, ask, leaving, mingled>>

VerifyOtp(k) ==
  /\ OnForm /\ login.step = "code" /\ ~Busy(k)
  /\ login' = [login EXCEPT !.call = k]
  /\ Call(k, "verify", NoVisitor)
  /\ Acted
  /\ UNCHANGED <<panel, member, been, route, token, me, asked, leaving, mingled>>

\* The effect of a page opened by Telegram, once.
MiniApp(k) ==
  /\ panel = ClientPanel /\ OnForm /\ ~asked /\ ~Busy(k)
  /\ asked' = TRUE
  /\ login' = [login EXCEPT !.call = k]
  /\ Call(k, "telegram", NoVisitor)
  /\ Acted
  /\ UNCHANGED <<panel, member, been, route, token, me, leaving, mingled>>

SetTokens(u) == token' = u /\ asked' = FALSE

\* Tokens first, then who they belong to.
StoreThenRead(k, u) ==
  /\ ~panel.peeks /\ ask[k].for \in {"verify", "telegram"}
  /\ panel = AdminPanel => Holds(u)
  /\ SetTokens(u)
  /\ Call(k, "read", u)
  /\ Crosses(k) /\ Acted
  /\ UNCHANGED <<panel, member, been, route, me, login, leaving>>

\* The seller's tokens wait in the form.
ReadThenStore(k, u) ==
  /\ panel.peeks /\ ask[k].for = "verify"
  /\ Call(k, "peek", u)
  /\ Acted
  /\ UNCHANGED <<panel, member, been, route, token, me, asked, login, leaving, mingled>>

PeekAnswered(k) ==
  /\ ask[k].for = "peek"
  /\ IF ask[k].holder
     THEN /\ token' = ask[k].who
          /\ me' = [who |-> ask[k].who, holder |-> TRUE]
          /\ route' = "inside" /\ asked' = FALSE /\ login' = FreshForm
          /\ Crosses(k)
     ELSE Hangs(k) /\ UNCHANGED <<token, me, route, asked, mingled>>
  /\ Over(k) /\ Acted
  /\ UNCHANGED <<panel, member, been, leaving>>

\* It may come after the person has left again.
LoginAnswered(k) ==
  /\ ask[k].for = "read"
  /\ me' = [who |-> ask[k].who, holder |-> ask[k].holder]
  /\ Go(IF panel = CourierPanel /\ ~ask[k].holder THEN "apply" ELSE "inside")
  /\ Over(k) /\ Acted
  /\ UNCHANGED <<panel, member, been, token, leaving, mingled>>

\* Refused or lost: the form shows it and is free again.
LoginFails(k) ==
  /\ ask[k].for \in {"code", "verify", "telegram", "read", "peek"}
  /\ Hangs(k) /\ Over(k) /\ Acted
  /\ UNCHANGED <<panel, member, been, route, token, me, asked, leaving, mingled>>

-----------------------------------------------------------------------------
(* The boundary and the guard.                                             *)

TurnAway ==
  /\ route # "login" /\ token = NoVisitor
  /\ Go("login") /\ Redirected
  /\ UNCHANGED <<panel, member, been, token, me, ask, leaving, mingled>>

AskMe(k) ==
  /\ route = "inside" /\ token # NoVisitor /\ me = NoMe /\ ~asked /\ ~Busy(k)
  /\ asked' = TRUE
  /\ Call(k, "boundary", token)
  /\ UNCHANGED <<panel, member, been, route, token, me, login, leaving, hops, mingled>>

MeAnswered(k) ==
  /\ ask[k].for = "boundary"
  /\ me' = [who |-> ask[k].who, holder |-> ask[k].holder]
  /\ IF panel = CourierPanel /\ ~ask[k].holder THEN Go("apply") ELSE Stay
  /\ Over(k) /\ Acted
  /\ UNCHANGED <<panel, member, been, token, leaving, mingled>>

MeFails(k) ==
  /\ ask[k].for = "boundary"
  /\ Clear /\ Go("login")
  /\ Over(k) /\ Crosses(k) /\ Acted
  /\ UNCHANGED <<panel, member, been, leaving>>

Refuses == token # NoVisitor /\ me # NoMe /\ ~me.holder

GuardApplies ==
  /\ route = "inside" /\ panel.guard = "apply" /\ Refuses
  /\ Go("apply") /\ Redirected
  /\ UNCHANGED <<panel, member, been, token, me, ask, leaving, mingled>>

GuardForgets ==
  /\ route = "inside" /\ panel.guard = "forget" /\ Refuses
  /\ Clear /\ Go("login") /\ Redirected
  /\ mingled' = (mingled \/ \E k \in Asks : Busy(k))
  /\ UNCHANGED <<panel, member, been, ask, leaving>>

GuardReturns ==
  /\ route = "inside" /\ panel.guard = "login" /\ Refuses
  /\ Go("login") /\ Redirected
  /\ UNCHANGED <<panel, member, been, token, me, ask, leaving, mingled>>

-----------------------------------------------------------------------------
(* The courier's application: its state is read when the page opens and    *)
(* after it was sent; one that was approved leads inside.                  *)

AskOnboarding(k) ==
  /\ route = "apply" /\ token # NoVisitor /\ ~Busy(k)
  /\ asked' = TRUE
  /\ Call(k, "onboarding", token)
  /\ hops' = IF asked THEN 0 ELSE hops
  /\ UNCHANGED <<panel, member, been, route, token, me, login, leaving, mingled>>

OnboardingAnswered(k) ==
  /\ ask[k].for = "onboarding"
  /\ IF ask[k].holder /\ route = "apply" THEN Call(k, "apply", token) ELSE Over(k)
  /\ Acted
  /\ UNCHANGED <<panel, member, been, route, token, me, asked, login, leaving, mingled>>

\* finally: inside, whatever was answered.
ApprovedEnters(k) ==
  /\ ask[k].for = "apply"
  /\ me' \in {me, [who |-> ask[k].who, holder |-> ask[k].holder]}
  /\ Go("inside")
  /\ Over(k) /\ Acted
  /\ UNCHANGED <<panel, member, been, token, leaving, mingled>>

OnboardingFails(k) ==
  /\ ask[k].for = "onboarding"
  /\ Over(k) /\ Acted
  /\ UNCHANGED <<panel, member, been, route, token, me, asked, login, leaving, mingled>>

-----------------------------------------------------------------------------
(* Leaving.                                                                *)

Shows ==
  /\ token # NoVisitor
  /\ \/ route = "apply"
     \/ route = "inside" /\ me # NoMe /\ (panel.guard = "none" \/ me.holder)

OnLogout ==
  /\ Shows /\ ~leaving
  /\ leaving' = TRUE
  /\ Acted
  /\ UNCHANGED <<panel, member, been, route, token, me, asked, login, ask, mingled>>

\* finally: answered or not.
LoggedOut ==
  /\ leaving
  /\ leaving' = FALSE
  /\ Clear /\ Go("login")
  /\ mingled' = (mingled \/ \E k \in Asks : Busy(k))
  /\ Acted
  /\ UNCHANGED <<panel, member, been, ask>>

\* Memory goes with what was in flight, the store stays.
ReloadTab ==
  /\ ask' = [k \in Asks |-> NoAsk]
  /\ login' = FreshForm /\ asked' = FALSE /\ leaving' = FALSE
  /\ Acted
  /\ UNCHANGED <<panel, member, been, route, token, me, mingled>>

EntryNext ==
  \/ EnterLogged \/ BackToPhone \/ TurnAway \/ GuardApplies \/ GuardForgets \/ GuardReturns
  \/ OnLogout \/ LoggedOut \/ ReloadTab
  \/ \E k \in Asks :
       \/ RequestOtp(k) \/ CodeSent(k) \/ VerifyOtp(k) \/ MiniApp(k)
       \/ PeekAnswered(k) \/ LoginAnswered(k) \/ LoginFails(k)
       \/ AskMe(k) \/ MeAnswered(k) \/ MeFails(k)
       \/ AskOnboarding(k) \/ OnboardingAnswered(k) \/ ApprovedEnters(k) \/ OnboardingFails(k)
  \/ \E u \in Visitors : GivePanelRole(u)
  \/ \E k \in Asks, u \in Visitors : StoreThenRead(k, u) \/ ReadThenStore(k, u)

EntrySpec == EntryInit /\ [][EntryNext]_entryVars

-----------------------------------------------------------------------------
\* A panel works for the person whose tokens it holds, as long as no session
\* began or ended with a call of another in flight: /auth/me answered late
\* shows the person who left.
ShowsTheirOwn == Shows /\ me # NoMe /\ ~mingled => me.who = token

\* The tokens of a person who never sold are not kept in the seller's panel.
KeepsSellersOnly == panel = SellerPanel /\ token # NoVisitor => token \in been

\* The effects of boundary, guard and login page do not send a person in
\* circles: a few redirects, then a call or a press is needed.
NoCircles == hops < MaxHops

\* A form whose button waits has its call in flight.
FormsSettle == login.call # "none" => Busy(login.call)

=============================================================================
