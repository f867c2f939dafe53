----------------------------- MODULE TabTokens -----------------------------
(***************************************************************************)
(* The tokens of one browser: every tab keeps a pair in memory, all tabs   *)
(* persist theirs under one storage key and read it when they load.  A     *)
(* call answered 401 waits for the tab's one refresh and is sent again.    *)
(* The server exchanges a refresh token in two calls, as in Sessions.      *)
(***************************************************************************)
EXTENDS Naturals

CONSTANTS
  Tabs, Calls,
  TabOf,       \* the tab a call belongs to
  MeCalls,     \* the calls that are AuthBoundary's /auth/me
  NoToken,
  MaxPairs,    \* bound: token pairs the server issues
  MaxReloads   \* bound: reloads of the tabs

ASSUME TabAssumption == /\ MaxPairs \in Nat /\ MaxReloads \in Nat
                        /\ NoToken \notin Tabs \cup (1..MaxPairs)
                        /\ TabOf \in [Calls -> Tabs]

VARIABLES
  tab,      \* the store of each tab: token, me, and how often it was loaded
  disk,     \* localStorage: token and me
  refresh,  \* the tab's refreshing promise
  call,     \* how far each call is
  leaving,  \* tabs whose logout was posted
  good,     \* refresh tokens the server would exchange
  issued,   \* pairs issued so far
  spentBy   \* page that had a token exchanged (history)

tabVars == <<tab, disk, refresh, call, leaving, good, issued, spentBy>>

-----------------------------------------------------------------------------
Pairs == 1..MaxPairs
Pages == Tabs \X (0..MaxReloads)
NoPage == <<NoToken, NoToken>>

\* "wants" awaits the refresh, "resent" has the _retry flag and is not retried.
CallStates == {"none", "sent", "wants", "resent", "settled"}

TabsTypeOK ==
  /\ tab \in [Tabs -> [token : Pairs \cup {NoToken}, me : BOOLEAN, loads : 0..MaxReloads]]
  /\ disk \in [token : Pairs \cup {NoToken}, me : BOOLEAN]
  /\ refresh \in [Tabs -> [pc   : {"none", "asked", "checked", "granted", "refused"},
                           old  : Pairs \cup {NoToken},
                           next : Pairs \cup {NoToken}]]
  /\ \A w \in Tabs : refresh[w].pc = "granted" => refresh[w].next \in Pairs
  /\ call \in [Calls -> CallStates]
  /\ leaving \subseteq Tabs
  /\ issued \in 0..MaxPairs
  /\ good \subseteq 1..issued
  /\ spentBy \in [Pairs -> Pages \cup {NoPage}]

NoRefresh == [pc |-> "none", old |-> NoToken, next |-> NoToken]
Empty == [token |-> NoToken, me |-> FALSE]

TabsInit ==
  /\ tab = [w \in Tabs |-> [token |-> NoToken, me |-> FALSE, loads |-> 0]]
  /\ disk = Empty
  /\ refresh = [w \in Tabs |-> NoRefresh]
  /\ call = [c \in Calls |-> "none"]
  /\ leaving = {}
  /\ good = {}
  /\ issued = 0
  /\ spentBy = [t \in Pairs |-> NoPage]

-----------------------------------------------------------------------------
(* zustand's persist: every set writes the whole state of this tab.        *)

Store(w, token, me) ==
  /\ tab' = [tab EXCEPT ![w].token = token, ![w].me = me]
  /\ disk' = [token |-> token, me |-> me]

SetTokens(w, t) == Store(w, t, tab[w].me)
SetMe(w) == Store(w, tab[w].token, TRUE)
ClearStore(w) == Store(w, NoToken, FALSE)

Issue == issued < MaxPairs /\ issued' = issued + 1

\* Any login form; /auth/me follows as a call of its own.
LogIn(w) ==
  /\ tab[w].token = NoToken
  /\ w \notin leaving
  /\ Issue
  /\ good' = good \cup {issued'}
  /\ SetTokens(w, issued')
  /\ UNCHANGED <<refresh, call, leaving, spentBy>>

\* What the page had in flight is gone with it.
Reload(w) ==
  /\ \A v \in Tabs : tab[v].loads < MaxReloads
  /\ tab' = [tab EXCEPT ![w] = [token |-> disk.token, me |-> disk.me, loads |-> @.loads + 1]]
  /\ refresh' = [refresh EXCEPT ![w] = NoRefresh]
  /\ call' = [c \in Calls |-> IF TabOf[c] = w THEN "none" ELSE call[c]]
  /\ leaving' = leaving \ {w}
  /\ UNCHANGED <<disk, good, issued, spentBy>>

-----------------------------------------------------------------------------
\* AuthBoundary asks for /auth/me while it has a token and no me.
SendCall(c) ==
  /\ call[c] = "none"
  /\ tab[TabOf[c]].token # NoToken
  /\ c \in MeCalls => ~tab[TabOf[c]].me
  /\ call' = [call EXCEPT ![c] = "sent"]
  /\ UNCHANGED <<tab, disk, refresh, leaving, good, issued, spentBy>>

Settle(c) == call' = [call EXCEPT ![c] = "settled"]

Answered(c) ==
  /\ call[c] \in {"sent", "resent"}
  /\ Settle(c)
  /\ IF c \in MeCalls THEN SetMe(TabOf[c]) ELSE UNCHANGED <<tab, disk>>
  /\ UNCHANGED <<refresh, leaving, good, issued, spentBy>>

\* Whatever rejects /auth/me, a lost connection too, empties the store.
Reject(c) ==
  /\ Settle(c)
  /\ IF c \in MeCalls THEN ClearStore(TabOf[c]) ELSE UNCHANGED <<tab, disk>>

\* A second 401, or an error of another kind.
Rejected(c) ==
  /\ call[c] \in {"sent", "resent"}
  /\ Reject(c)
  /\ UNCHANGED <<refresh, leaving, good, issued, spentBy>>

\* Slip: every call that was refused starts a refresh of its own.
RefreshEach(w) ==
  IF tab[w].token = NoToken
  THEN UNCHANGED refresh
  ELSE refresh' = [refresh EXCEPT ![w] =
                     [pc |-> "asked", old |-> tab[w].token, next |-> NoToken]]

\* refreshing ??= tryRefresh()
JoinRefresh(w) ==
  IF refresh[w].pc # "none"
  THEN UNCHANGED refresh
  ELSE refresh' = [refresh EXCEPT ![w] =
                     [pc |-> "asked", old |-> tab[w].token, next |-> NoToken]]

\* The first 401 of a call; without a token to present, tryRefresh clears.
Unauthorized(c) ==
  /\ call[c] = "sent"
  /\ IF tab[TabOf[c]].token = NoToken /\ refresh[TabOf[c]].pc = "none"
     THEN /\ Settle(c)
          /\ ClearStore(TabOf[c])
          /\ UNCHANGED refresh
     ELSE /\ call' = [call EXCEPT ![c] = "wants"]
          /\ JoinRefresh(TabOf[c])
          /\ UNCHANGED <<tab, disk>>
  /\ UNCHANGED <<leaving, good, issued, spentBy>>

-----------------------------------------------------------------------------
(* The exchange at the server: the check, then the revocation and the new  *)
(* pair.                                                                   *)

CheckToken(w) ==
  LET q == refresh[w]
  IN /\ q.pc = "asked"
     /\ refresh' = [refresh EXCEPT ![w].pc = IF q.old \in good THEN "checked" ELSE "refused"]
     /\ UNCHANGED <<tab, disk, call, leaving, good, issued, spentBy>>

\* Slip: the answer lacks the new pair.
ExchangeForgets(w) ==
  /\ refresh[w].pc = "checked"
  /\ Issue
  /\ good' = (good \ {refresh[w].old}) \cup {issued'}
  /\ spentBy' = [spentBy EXCEPT ![refresh[w].old] = <<w, tab[w].loads>>]
  /\ refresh' = [refresh EXCEPT ![w].pc = "granted"]
  /\ UNCHANGED <<tab, disk, call, leaving>>

Exchange(w) ==
  LET q == refresh[w]
  IN /\ q.pc = "checked"
     /\ Issue
     /\ good' = (good \ {q.old}) \cup {issued'}
     /\ spentBy' = [spentBy EXCEPT ![q.old] = <<w, tab[w].loads>>]
     /\ refresh' = [refresh EXCEPT ![w].pc = "granted", ![w].next = issued']
     /\ UNCHANGED <<tab, disk, call, leaving>>

\* Slip: calls that wait are forgotten when the refresh fails.
ResumeGranted(w, state) ==
  call' = [c \in Calls |->
             IF TabOf[c] # w \/ call[c] # "wants" \/ state # "resent" THEN call[c]
             ELSE state]

\* The calls that wait are sent once more, with the new token.
Resume(w, state) ==
  call' = [c \in Calls |->
             IF TabOf[c] # w \/ call[c] # "wants" THEN call[c]
             ELSE state]

RefreshDone(w) ==
  /\ refresh[w].pc = "granted"
  /\ SetTokens(w, refresh[w].next)
  /\ Resume(w, "resent")
  /\ refresh' = [refresh EXCEPT ![w] = NoRefresh]
  /\ UNCHANGED <<leaving, good, issued, spentBy>>

\* Refused, or the answer never came: both empty the store.
RefreshFails(w) ==
  /\ refresh[w].pc # "none"
  /\ ClearStore(w)
  /\ Resume(w, "settled")
  /\ refresh' = [refresh EXCEPT ![w] = NoRefresh]
  /\ UNCHANGED <<leaving, good, issued, spentBy>>

-----------------------------------------------------------------------------
\* A failed call is ignored.
LogoutPost(w) ==
  /\ tab[w].token # NoToken
  /\ leaving' = leaving \cup {w}
  /\ good' \in {good, good \ {tab[w].token}}
  /\ UNCHANGED <<tab, disk, refresh, call, issued, spentBy>>

LogoutDone(w) ==
  /\ w \in leaving
  /\ leaving' = leaving \ {w}
  /\ ClearStore(w)
  /\ UNCHANGED <<refresh, call, good, issued, spentBy>>

RefreshStep(w) ==
  CheckToken(w) \/ Exchange(w) \/ RefreshDone(w) \/ RefreshFails(w)

CallStep(c) == Answered(c) \/ Rejected(c) \/ Unauthorized(c)

TabsNext ==
  \/ \E w \in Tabs :
       \/ LogIn(w) \/ Reload(w) \/ LogoutPost(w) \/ LogoutDone(w)
       \/ RefreshStep(w)
  \/ \E c \in Calls : SendCall(c) \/ CallStep(c)

\* The network answers or gives up, the event loop runs what waits for it.
TabsFairness ==
  /\ \A w \in Tabs : WF_tabVars(RefreshStep(w))
  /\ \A c \in Calls : WF_tabVars(CallStep(c))

TabsSpec == TabsInit /\ [][TabsNext]_tabVars /\ TabsFairness

-----------------------------------------------------------------------------
\* A page whose refresh is refused was never the one that spent its token:
\* one refresh serves all calls of a page, so only another tab or an earlier
\* load of this one can have been there first.
RefusedByAnother ==
  \A w \in Tabs :
    refresh[w].pc = "refused" => spentBy[refresh[w].old] # <<w, tab[w].loads>>

\* Calls do not wait for ever on a refresh that is over: again and again
\* every call that was sent is answered or rejected.
CallsSettle ==
  []<>(\A c \in Calls : call[c] \notin {"sent", "wants", "resent"})

=============================================================================
