---------------------------- MODULE ClientsProofs ----------------------------
(***************************************************************************)
(* Theorems about Poller, Screens and TabTokens, for any number of polls,  *)
(* reads, tabs and calls in flight, whichever of them are lost, and the    *)
(* types of the three together.                                            *)
(***************************************************************************)
EXTENDS MCClients, FiniteSetTheorems, TLAPS

-----------------------------------------------------------------------------
(* Poller: what was toasted counts as seen.                                *)

ToastInv ==
  /\ toasts \in [Notes -> Nat]
  /\ \A n \in Notes : toasts[n] <= 1
  /\ \A n \in Notes \ seen : toasts[n] = 0

LEMMA ToastInit == PollerInit => ToastInv
  BY DEF PollerInit, ToastInv

LEMMA ToastStep == ASSUME ToastInv, [PollerNext]_pollerVars PROVE ToastInv'
  <1> USE DEF ToastInv
  <1>1. ASSUME NEW k \in Polls, Listed(k)
        PROVE  ToastInv'
    <2> DEFINE fresh == Unread \ seen
    <2>1. /\ seen' = seen \cup fresh
          /\ toasts' = [n \in Notes |-> IF n \in Newest(fresh) THEN toasts[n] + 1 ELSE toasts[n]]
      BY <1>1 DEF Listed, Toast
    <2>2. Newest(fresh) \subseteq fresh
      BY DEF Newest
    <2>3. \A n \in fresh : n \in Notes /\ toasts[n] = 0
      BY DEF Unread
    <2> HIDE DEF fresh
    <2>4. \A n \in Notes : toasts'[n] = IF n \in Newest(fresh) THEN 1 ELSE toasts[n]
      BY <2>1, <2>2, <2>3
    <2> QED
      BY <2>1, <2>2, <2>4
  <1>2. ASSUME NEW k \in Polls, Tick(k) \/ Counted(k) \/ Seeded(k) \/ PollFails(k)
        PROVE  ToastInv'
    BY <1>2 DEF Tick, Counted, Seeded, PollFails
  <1>3. CASE Arrive \/ VisibilityChange \/ OpenBell \/ ShowBell \/ MarkAllRead
    BY <1>3 DEF Arrive, VisibilityChange, OpenBell, ShowBell, MarkAllRead
  <1>4. ASSUME NEW n \in {0} \cup Notes, Marked(n) \/ (n \in Notes /\ MarkRead(n))
        PROVE  ToastInv'
    BY <1>4 DEF MarkRead, Marked
  <1>5. CASE UNCHANGED pollerVars
    BY <1>5 DEF pollerVars
  <1> QED
    BY <1>1, <1>2, <1>3, <1>4, <1>5 DEF PollerNext, PollStep

\* However ticks overlap and answers are lost, no notification is toasted twice
\* (Poller.NoToastTwice).
THEOREM ToastedOnce == PollerSpec => []NoToastTwice
  <1>1. ToastInv => NoToastTwice
    BY DEF ToastInv, NoToastTwice
  <1> QED
    BY <1>1, ToastInit, ToastStep, PTL DEF PollerSpec

-----------------------------------------------------------------------------
(* Screens: the panels' tables and the server's.                           *)

LEMMA ScreensInitType == ScreensInit => ScreensTypeOK
  BY DEF ScreensInit, ScreensTypeOK, Status

LEMMA ButtonsAreStatuses ==
  ASSUME NEW r \in {"customer", "seller", "courier"}, NEW s \in Status
  PROVE  Buttons(r, s) \subseteq Status
  BY DEF Buttons, CustomerButtons, SellerButtons, CourierButtons, Status

LEMMA ScreensStepType == ASSUME ScreensTypeOK, [ScreensNext]_screenVars PROVE ScreensTypeOK'
  <1> USE DEF ScreensTypeOK
  <1>1. CASE OthersMove
    <2>1. PICK m \in Moves : m[1] = status /\ status' = m[2]
      BY <1>1 DEF OthersMove
    <2>2. m[2] \in Status
      BY DEF Moves, ServerAccepts, CustomerCancels, Assigns, Releases, SellerTransitions,
         CourierTransitions, Status
    <2> QED
      BY <1>1, <2>1, <2>2 DEF OthersMove
  <1>2. ASSUME NEW k \in Reads, Ask(k)
        PROVE  read' \in [Reads -> Status \cup {"free"}]
    BY <1>2 DEF Ask
  <1>3. ASSUME NEW k \in Reads, OpenPage(k) \/ PollOrder(k) \/ ReloadOrder(k)
        PROVE  ScreensTypeOK'
    BY <1>2, <1>3 DEF OpenPage, PollOrder, ReloadOrder
  <1>4. ASSUME NEW k \in Reads, ShowOrder(k) \/ ReadLost(k)
        PROVE  ScreensTypeOK'
    BY <1>4 DEF ShowOrder, ReadLost
  <1>5. ASSUME NEW t \in Status, PressButton(t)
        PROVE  ScreensTypeOK'
    BY <1>5 DEF PressButton
  <1>6. CASE PressTaken \/ PressRefused \/ HideTab
    BY <1>6 DEF PressTaken, PressRefused, HideTab
  <1>7. CASE UNCHANGED screenVars
    BY <1>7 DEF screenVars
  <1> QED
    BY <1>1, <1>3, <1>4, <1>5, <1>6, <1>7 DEF ScreensNext

\* No button of an up-to-date page is refused, and no order is stuck for want
\* of a button.
LEMMA TablesAgree ==
  ASSUME NEW s \in Status
  PROVE  /\ \A r \in {"customer", "seller", "courier"} : \A t \in Buttons(r, s) :
              <<s, t>> \in ServerAccepts(r)
         /\ s \notin Terminal => \E r \in {"seller", "courier"} : Buttons(r, s) # {}
  <1> USE DEF Buttons, ServerAccepts
  <1>1. \A t \in Buttons("customer", s) : <<s, t>> \in ServerAccepts("customer")
    BY DEF CustomerButtons, CustomerCancels
  <1>2. \A t \in Buttons("seller", s) : <<s, t>> \in ServerAccepts("seller")
    BY DEF SellerButtons, SellerTransitions, Assigns
  <1>3. \A t \in Buttons("courier", s) : <<s, t>> \in ServerAccepts("courier")
    BY DEF CourierButtons, CourierTransitions, Releases
  <1>4. ASSUME s \notin Terminal
        PROVE  \E r \in {"seller", "courier"} : Buttons(r, s) # {}
    <2>1. CASE s = "COURIER_ASSIGNED"
      BY <2>1 DEF CourierButtons
    <2>2. CASE s # "COURIER_ASSIGNED"
      <3>1. \E t \in Status : t \in SellerButtons(s)
        BY <1>4, <2>2 DEF SellerButtons, Status, Terminal, Cancelled
      <3> QED
        BY <3>1
    <2> QED
      BY <2>1, <2>2
  <1> QED
    BY <1>1, <1>2, <1>3, <1>4

\* On every panel, in every reachable state (Screens.ButtonsMatch).
THEOREM NoButtonRefused == ScreensSpec => []ButtonsMatch
  <1>1. ScreensTypeOK => ButtonsMatch
    BY TablesAgree DEF ScreensTypeOK, ButtonsMatch
  <1> QED
    BY <1>1, ScreensInitType, ScreensStepType, PTL DEF ScreensSpec

-----------------------------------------------------------------------------
(* TabTokens.                                                              *)

Page(w) == <<w, tab[w].loads>>

\* A page never presents a token it had exchanged: what it keeps, what it asks
\* with and what it was granted are unspent by it.
RefreshOK(w) ==
  LET q == refresh[w]
  IN /\ q.pc \in {"asked", "checked", "refused"} => q.old \in Pairs /\ spentBy[q.old] # Page(w)
     /\ q.pc = "checked" => q.old \in 1..issued
     /\ q.pc = "granted" => q.next \in 1..issued /\ spentBy[q.next] # Page(w)
     /\ q.pc = "none" /\ tab[w].token \in Pairs => spentBy[tab[w].token] # Page(w)

TabInv ==
  /\ TabsTypeOK
  /\ \A w \in Tabs : RefreshOK(w)
  /\ \A t \in Pairs : t > issued => spentBy[t] = NoPage
  /\ \A t \in Pairs, w \in Tabs, n \in 0..MaxReloads :
       n > tab[w].loads => spentBy[t] # <<w, n>>

LEMMA NoPageIsNone == \A w \in Tabs : \A n : NoPage # <<w, n>>
  BY TabAssumption DEF NoPage

LEMMA TabInitInv == TabsInit => TabInv
  <1> SUFFICES ASSUME TabsInit PROVE TabInv
    OBVIOUS
  <1> USE TabAssumption
  <1>1. TabsTypeOK
    <2>1. tab \in [Tabs -> [token : Pairs \cup {NoToken}, me : BOOLEAN, loads : 0..MaxReloads]]
      BY DEF TabsInit
    <2>2. /\ \A w \in Tabs : refresh[w].pc = "none"
          /\ refresh \in [Tabs -> [pc   : {"none", "asked", "checked", "granted", "refused"},
                                   old  : Pairs \cup {NoToken},
                                   next : Pairs \cup {NoToken}]]
      BY DEF TabsInit, NoRefresh
    <2>3. disk \in [token : Pairs \cup {NoToken}, me : BOOLEAN]
      BY DEF TabsInit, Empty
    <2>4. call \in [Calls -> CallStates] /\ leaving \subseteq Tabs
      BY DEF TabsInit, CallStates
    <2>5. issued \in 0..MaxPairs /\ good \subseteq 1..issued /\ spentBy \in [Pairs -> Pages \cup {NoPage}]
      BY DEF TabsInit
    <2> QED
      BY <2>1, <2>2, <2>3, <2>4, <2>5 DEF TabsTypeOK
  <1>2. \A w \in Tabs : RefreshOK(w)
    BY DEF TabsInit, RefreshOK, NoRefresh, Pairs
  <1>3. \A t \in Pairs : spentBy[t] = NoPage
    BY DEF TabsInit
  <1> QED
    BY <1>1, <1>2, <1>3, NoPageIsNone DEF TabInv

\* A step that changes only a tab's flag me, the disk or its calls.
LEMMA KeepsTokens ==
  ASSUME TabInv, TabsTypeOK', UNCHANGED <<refresh, issued, spentBy>>,
         \A w \in Tabs : tab'[w].loads = tab[w].loads,
         \A w \in Tabs : tab'[w].token \in {tab[w].token, NoToken}
  PROVE  TabInv'
  <1>1. \A w \in Tabs : RefreshOK(w)'
    BY TabAssumption DEF TabInv, RefreshOK, Page, Pairs
  <1> QED
    BY <1>1 DEF TabInv, Page

\* What a write to the store leaves behind.
Stored(w, t) ==
  /\ tab' \in [Tabs -> [token : Pairs \cup {NoToken}, me : BOOLEAN, loads : 0..MaxReloads]]
  /\ disk' \in [token : Pairs \cup {NoToken}, me : BOOLEAN]
  /\ \A v \in Tabs : tab'[v].loads = tab[v].loads
  /\ \A v \in Tabs : tab'[v].token = IF v = w THEN t ELSE tab[v].token

LEMMA StoreType ==
  ASSUME TabsTypeOK, NEW w \in Tabs, NEW t \in Pairs \cup {NoToken}, NEW me \in BOOLEAN,
         Store(w, t, me)
  PROVE  Stored(w, t)
  <1> DEFINE T == Pairs \cup {NoToken}
             L == 0..MaxReloads
             row == [tab[w] EXCEPT !.token = t, !.me = me]
  <1>1. tab \in [Tabs -> [token : T, me : BOOLEAN, loads : L]]
    BY DEF TabsTypeOK
  <1>2. tab' = [tab EXCEPT ![w] = row] /\ disk' = [token |-> t, me |-> me]
    BY <1>1 DEF Store
  <1>3. t \in T
    OBVIOUS
  <1> HIDE DEF T, L
  <1>4. /\ row \in [token : T, me : BOOLEAN, loads : L]
        /\ row.token = t /\ row.loads = tab[w].loads
    BY <1>1, <1>3
  <1> HIDE DEF row
  <1>5. tab' \in [Tabs -> [token : T, me : BOOLEAN, loads : L]]
    BY <1>1, <1>2, <1>4
  <1>6. disk' \in [token : T, me : BOOLEAN]
    BY <1>2, <1>3
  <1>7. \A v \in Tabs : tab'[v] = IF v = w THEN row ELSE tab[v]
    BY <1>1, <1>2
  <1>8. /\ \A v \in Tabs : tab'[v].loads = tab[v].loads
        /\ \A v \in Tabs : tab'[v].token = IF v = w THEN t ELSE tab[v].token
    BY <1>4, <1>7
  <1> QED
    BY <1>5, <1>6, <1>8 DEF T, L, Stored

\* The two writes that need no token of their own.
LEMMA StoreKeeps ==
  ASSUME TabsTypeOK, NEW w \in Tabs,
         SetMe(w) \/ ClearStore(w)
  PROVE  \E t \in {tab[w].token, NoToken} : Stored(w, t)
  <1>1. tab[w].token \in Pairs \cup {NoToken}
    BY DEF TabsTypeOK
  <1>2. CASE SetMe(w)
    <2>1. Store(w, tab[w].token, TRUE)
      BY <1>2 DEF SetMe
    <2>2. Stored(w, tab[w].token)
      BY <1>1, <2>1, StoreType
    <2> QED
      BY <2>2
  <1>3. CASE ClearStore(w)
    <2>1. Store(w, NoToken, FALSE)
      BY <1>3 DEF ClearStore
    <2>2. Stored(w, NoToken)
      BY <2>1, StoreType
    <2> QED
      BY <2>2
  <1> QED
    BY <1>2, <1>3

LEMMA TabStep == ASSUME TabInv, [TabsNext]_tabVars PROVE TabInv'
  <1> USE DEF TabInv
  <1> USE TabAssumption
  <1> DEFINE Waits == [pc : {"none", "asked", "checked", "granted", "refused"},
                       old : Pairs \cup {NoToken}, next : Pairs \cup {NoToken}]
  <1>0. NoRefresh \in Waits /\ NoRefresh.pc = "none"
    BY DEF NoRefresh
  <1>1. ASSUME NEW w \in Tabs, LogIn(w)
        PROVE  TabInv'
    <2>1. /\ issued < MaxPairs /\ issued' = issued + 1
          /\ good' = good \cup {issued'}
          /\ Store(w, issued', tab[w].me)
          /\ UNCHANGED <<refresh, call, leaving, spentBy>>
      BY <1>1 DEF LogIn, Issue, SetTokens
    <2>2. issued' \in Pairs /\ issued \in 0..MaxPairs /\ tab[w].me \in BOOLEAN
      BY <2>1 DEF TabsTypeOK, Pairs
    <2>0. Stored(w, issued')
      BY <2>1, <2>2, StoreType
    <2>3. TabsTypeOK'
      <3>1. issued' \in 0..MaxPairs /\ good' \subseteq 1..issued'
        BY <2>1, <2>2 DEF TabsTypeOK, Pairs
      <3> QED
        BY <2>0, <2>1, <3>1 DEF TabsTypeOK, Stored
    <2>4. spentBy[issued'] = NoPage
      BY <2>1, <2>2
    <2>5. \A v \in Tabs : RefreshOK(v)'
      <3> SUFFICES ASSUME NEW v \in Tabs PROVE RefreshOK(v)'
        OBVIOUS
      <3>1. tab'[v].loads = tab[v].loads /\ tab'[v].token \in {tab[v].token, issued'}
        BY <2>0 DEF Stored
      <3>2. spentBy[issued'] # Page(v)
        BY <2>4, NoPageIsNone DEF Page
      <3>3. 1..issued \subseteq 1..issued'
        BY <2>1, <2>2
      <3>4. refresh' = refresh /\ spentBy' = spentBy /\ Page(v)' = Page(v)
        BY <2>1, <3>1 DEF Page
      <3>5. RefreshOK(v)
        OBVIOUS
      <3> QED
        BY <3>1, <3>2, <3>3, <3>4, <3>5 DEF RefreshOK
    <2>6. \A v \in Tabs : tab'[v].loads = tab[v].loads
      BY <2>0 DEF Stored
    <2>7. \A t \in Pairs : t > issued' => t > issued
      BY <2>1, <2>2 DEF Pairs
    <2> QED
      BY <2>1, <2>3, <2>5, <2>6, <2>7
  <1>2. ASSUME NEW w \in Tabs, Reload(w)
        PROVE  TabInv'
    <2>1. /\ tab[w].loads < MaxReloads
          /\ tab' = [tab EXCEPT ![w] = [token |-> disk.token, me |-> disk.me,
                                        loads |-> tab[w].loads + 1]]
          /\ refresh' = [refresh EXCEPT ![w] = NoRefresh]
          /\ UNCHANGED <<disk, good, issued, spentBy>>
      BY <1>2 DEF Reload
    <2>2. /\ tab[w].loads + 1 \in 0..MaxReloads
          /\ tab[w].loads \in 0..MaxReloads
      BY <2>1 DEF TabsTypeOK
    <2>3. call' \in [Calls -> CallStates] /\ leaving' \subseteq Tabs
      BY <1>2 DEF Reload, TabsTypeOK, CallStates
    <2>4. TabsTypeOK'
      <3>1. tab' \in [Tabs -> [token : Pairs \cup {NoToken}, me : BOOLEAN, loads : 0..MaxReloads]]
        BY <2>1, <2>2 DEF TabsTypeOK
      <3>2. refresh' \in [Tabs -> Waits]
        BY <2>1, <1>0 DEF TabsTypeOK
      <3>3. \A v \in Tabs : refresh'[v].pc = "granted" => refresh'[v].next \in Pairs
        BY <2>1, <1>0 DEF TabsTypeOK
      <3> QED
        BY <2>1, <2>3, <3>1, <3>2, <3>3 DEF TabsTypeOK
    <2>5. /\ \A v \in Tabs \ {w} : tab'[v] = tab[v] /\ refresh'[v] = refresh[v]
          /\ refresh'[w] = NoRefresh /\ tab'[w].loads = tab[w].loads + 1
      BY <2>1 DEF TabsTypeOK
    <2>6. \A t \in Pairs : spentBy[t] # Page(w)'
      BY <2>2, <2>5 DEF Page
    <2>7. \A v \in Tabs : RefreshOK(v)'
      BY <2>1, <2>5, <2>6, <1>0 DEF RefreshOK, Page
    <2>8. \A v \in Tabs, n \in 0..MaxReloads : n > tab'[v].loads => n > tab[v].loads
      BY <2>2, <2>5
    <2> QED
      BY <2>1, <2>4, <2>7, <2>8
  <1>3. ASSUME NEW c \in Calls, SendCall(c)
        PROVE  TabInv'
    <2>1. TabsTypeOK'
      BY <1>3 DEF SendCall, TabsTypeOK, CallStates
    <2> QED
      BY <1>3, <2>1, KeepsTokens DEF SendCall
  <1>4. ASSUME NEW c \in Calls, Answered(c) \/ Rejected(c)
        PROVE  TabInv'
    <2>1. /\ call' = [call EXCEPT ![c] = "settled"]
          /\ UNCHANGED <<refresh, leaving, good, issued, spentBy>>
      BY <1>4 DEF Answered, Rejected, Reject, Settle
    <2>2. TabOf[c] \in Tabs
      OBVIOUS
    <2>3. \/ UNCHANGED <<tab, disk>>
          \/ SetMe(TabOf[c]) \/ ClearStore(TabOf[c])
      BY <1>4 DEF Answered, Rejected, Reject
    <2>5. /\ tab' \in [Tabs -> [token : Pairs \cup {NoToken}, me : BOOLEAN, loads : 0..MaxReloads]]
          /\ disk' \in [token : Pairs \cup {NoToken}, me : BOOLEAN]
          /\ \A v \in Tabs : tab'[v].loads = tab[v].loads
          /\ \A v \in Tabs : tab'[v].token \in {tab[v].token, NoToken}
      <3>1. CASE UNCHANGED <<tab, disk>>
        BY <3>1 DEF TabsTypeOK
      <3>2. CASE SetMe(TabOf[c]) \/ ClearStore(TabOf[c])
        <4>1. PICK t \in {tab[TabOf[c]].token, NoToken} : Stored(TabOf[c], t)
          BY <2>2, <3>2, StoreKeeps
        <4> QED
          BY <4>1 DEF Stored
      <3> QED
        BY <2>3, <3>1, <3>2
    <2>6. TabsTypeOK'
      BY <2>1, <2>5 DEF TabsTypeOK, CallStates
    <2> QED
      BY <2>1, <2>5, <2>6, KeepsTokens
  <1>5. ASSUME NEW c \in Calls, Unauthorized(c)
        PROVE  TabInv'
    <2> DEFINE w == TabOf[c]
    <2>1. w \in Tabs /\ tab[w].token \in Pairs \cup {NoToken}
      BY DEF TabsTypeOK
    <2>2. UNCHANGED <<leaving, good, issued, spentBy>>
      BY <1>5 DEF Unauthorized
    <2>3. CASE tab[w].token = NoToken /\ refresh[w].pc = "none"
      <3>1. call' = [call EXCEPT ![c] = "settled"] /\ ClearStore(w) /\ UNCHANGED refresh
        BY <1>5, <2>3 DEF Unauthorized, Settle
      <3> HIDE DEF w
      <3>2. PICK t \in {tab[w].token, NoToken} : Stored(w, t)
        BY <2>1, <3>1, StoreKeeps
      <3>3. TabsTypeOK'
        BY <2>1, <2>2, <3>1, <3>2 DEF TabsTypeOK, CallStates, Stored
      <3>4. /\ \A v \in Tabs : tab'[v].loads = tab[v].loads
            /\ \A v \in Tabs : tab'[v].token \in {tab[v].token, NoToken}
        BY <3>2 DEF Stored
      <3> QED
        BY <2>2, <3>1, <3>3, <3>4, KeepsTokens
    <2>4. CASE ~(tab[w].token = NoToken /\ refresh[w].pc = "none")
      <3>1. /\ call' = [call EXCEPT ![c] = "wants"]
            /\ JoinRefresh(w) /\ UNCHANGED <<tab, disk>>
        BY <1>5, <2>4 DEF Unauthorized
      <3>2. CASE refresh[w].pc # "none"
        <4>1. UNCHANGED refresh
          BY <3>1, <3>2 DEF JoinRefresh
        <4>2. TabsTypeOK'
          BY <2>2, <3>1, <4>1 DEF TabsTypeOK, CallStates
        <4> QED
          BY <2>2, <3>1, <4>1, <4>2, KeepsTokens
      <3>3. CASE refresh[w].pc = "none"
        <4> DEFINE q == [pc |-> "asked", old |-> tab[w].token, next |-> NoToken]
        <4>1. refresh' = [refresh EXCEPT ![w] = q]
          BY <3>1, <3>3 DEF JoinRefresh
        <4>2. tab[w].token \in Pairs /\ spentBy[tab[w].token] # Page(w)
          BY <2>1, <2>4, <3>3 DEF RefreshOK
        <4>3. q \in Waits
          BY <2>1
        <4>4. TabsTypeOK'
          BY <2>1, <2>2, <3>1, <4>1, <4>3 DEF TabsTypeOK, CallStates
        <4>5. \A v \in Tabs : RefreshOK(v)'
          <5>1. \A v \in Tabs \ {w} : refresh'[v] = refresh[v]
            BY <2>1, <4>1 DEF TabsTypeOK
          <5>2. refresh'[w] = q
            BY <2>1, <4>1 DEF TabsTypeOK
          <5>3. RefreshOK(w)'
            BY <2>2, <3>1, <4>2, <5>2 DEF RefreshOK, Page
          <5>4. \A v \in Tabs \ {w} : RefreshOK(v)'
            BY <2>2, <3>1, <5>1 DEF RefreshOK, Page
          <5> QED
            BY <5>3, <5>4
        <4> QED
          BY <2>2, <3>1, <4>4, <4>5
      <3> QED
        BY <3>2, <3>3
    <2> QED
      BY <2>3, <2>4
  <1>6. ASSUME NEW w \in Tabs, CheckToken(w)
        PROVE  TabInv'
    <2>1. /\ refresh[w].pc = "asked" /\ UNCHANGED <<tab, disk, call, leaving, good, issued, spentBy>>
          /\ refresh' = [refresh EXCEPT ![w].pc = IF refresh[w].old \in good THEN "checked"
                                                  ELSE "refused"]
      BY <1>6 DEF CheckToken
    <2>2. TabsTypeOK'
      BY <2>1 DEF TabsTypeOK
    <2>3. \A v \in Tabs \ {w} : refresh'[v] = refresh[v]
      BY <2>1 DEF TabsTypeOK
    <2>4. /\ refresh'[w].pc \in {"checked", "refused"} /\ refresh'[w].old = refresh[w].old
          /\ refresh'[w].pc = "checked" => refresh[w].old \in 1..issued
      BY <2>1 DEF TabsTypeOK
    <2>5. \A v \in Tabs : RefreshOK(v)'
      BY <2>1, <2>3, <2>4 DEF RefreshOK, Page
    <2> QED
      BY <2>1, <2>2, <2>5
  <1>7. ASSUME NEW w \in Tabs, Exchange(w)
        PROVE  TabInv'
    <2> DEFINE old == refresh[w].old
    <2>1. /\ refresh[w].pc = "checked" /\ issued < MaxPairs /\ issued' = issued + 1
          /\ good' = (good \ {old}) \cup {issued'}
          /\ spentBy' = [spentBy EXCEPT ![old] = Page(w)]
          /\ refresh' = [refresh EXCEPT ![w].pc = "granted", ![w].next = issued']
          /\ UNCHANGED <<tab, disk, call, leaving>>
      BY <1>7 DEF Exchange, Issue, Page
    <2>2. issued' \in Pairs /\ issued \in 0..MaxPairs /\ old \in Pairs /\ old \in 1..issued
      BY <2>1 DEF TabsTypeOK, Pairs, RefreshOK
    <2>3. Page(w) \in Pages
      BY DEF Page, Pages, TabsTypeOK
    <2>4. TabsTypeOK'
      <3> DEFINE q == [refresh[w] EXCEPT !.pc = "granted", !.next = issued']
      <3>0. refresh[w] \in [pc : {"none", "asked", "checked", "granted", "refused"},
                            old : Pairs \cup {NoToken}, next : Pairs \cup {NoToken}]
        BY DEF TabsTypeOK
      <3>1. q \in Waits /\ q.next \in Pairs
        <4> DEFINE T == Pairs \cup {NoToken}
        <4>1. refresh[w] \in [pc : {"none", "asked", "checked", "granted", "refused"},
                              old : T, next : T] /\ issued' \in T
          BY <2>2, <3>0
        <4> HIDE DEF T
        <4>2. /\ q \in [pc : {"none", "asked", "checked", "granted", "refused"}, old : T, next : T]
              /\ q.next = issued'
          BY <4>1
        <4> QED
          BY <2>2, <4>2 DEF T
      <3>2. refresh' = [refresh EXCEPT ![w] = q]
        BY <2>1 DEF TabsTypeOK
      <3> HIDE DEF q
      <3>3. /\ refresh' \in [Tabs -> Waits]
            /\ \A v \in Tabs : refresh'[v].pc = "granted" => refresh'[v].next \in Pairs
        BY <3>1, <3>2 DEF TabsTypeOK
      <3>4. issued' \in 0..MaxPairs /\ good' \subseteq 1..issued'
        BY <2>1, <2>2 DEF TabsTypeOK, Pairs
      <3>5. spentBy' \in [Pairs -> Pages \cup {NoPage}]
        BY <2>1, <2>3 DEF TabsTypeOK
      <3> QED
        BY <2>1, <3>3, <3>4, <3>5 DEF TabsTypeOK
    <2>5. \A v \in Tabs \ {w} : refresh'[v] = refresh[v]
      BY <2>1 DEF TabsTypeOK
    <2>6. refresh'[w].pc = "granted" /\ refresh'[w].next = issued'
      BY <2>1 DEF TabsTypeOK
    <2>7. \A t \in Pairs : spentBy'[t] = IF t = old THEN Page(w) ELSE spentBy[t]
      BY <2>1, <2>2 DEF TabsTypeOK
    <2>8. spentBy'[issued'] = NoPage
      BY <2>1, <2>2, <2>7
    <2>9. \A v \in Tabs \ {w} : Page(v) # Page(w)
      BY DEF Page
    <2> HIDE DEF old
    <2>10. \A v \in Tabs \ {w} : RefreshOK(v)'
      <3> SUFFICES ASSUME NEW v \in Tabs \ {w} PROVE RefreshOK(v)'
        OBVIOUS
      <3>1. refresh'[v] = refresh[v] /\ tab' = tab /\ Page(v)' = Page(v)
        BY <2>1, <2>5 DEF Page
      <3>2. \A t \in Pairs : spentBy[t] # Page(v) => spentBy'[t] # Page(v)
        BY <2>7, <2>9
      <3>3. 1..issued \subseteq 1..issued' /\ 1..issued \subseteq Pairs
        BY <2>1, <2>2 DEF Pairs
      <3>4. RefreshOK(v)
        OBVIOUS
      <3> QED
        BY <3>1, <3>2, <3>3, <3>4 DEF RefreshOK
    <2>11. RefreshOK(w)'
      <3>1. issued' \in 1..issued'
        BY <2>1, <2>2
      <3> QED
        BY <2>1, <2>6, <2>8, <3>1, NoPageIsNone DEF RefreshOK, Page
    <2>12. \A t \in Pairs : t > issued' => spentBy'[t] = NoPage
      BY <2>1, <2>2, <2>7 DEF Pairs
    <2>13. \A t \in Pairs, v \in Tabs, n \in 0..MaxReloads :
             n > tab'[v].loads => spentBy'[t] # <<v, n>>
      BY <2>1, <2>7 DEF Page, TabsTypeOK
    <2> QED
      BY <2>4, <2>10, <2>11, <2>12, <2>13
  <1>8. ASSUME NEW w \in Tabs, NEW t \in Pairs \cup {NoToken}, NEW me \in BOOLEAN,
               NEW state \in {"resent", "settled"},
               Store(w, t, me), Resume(w, state), refresh' = [refresh EXCEPT ![w] = NoRefresh],
               UNCHANGED <<leaving, good, issued, spentBy>>,
               t \in Pairs => spentBy[t] # Page(w)
        PROVE  TabInv'
    <2>0. Stored(w, t)
      BY <1>8, StoreType
    <2>1. call' \in [Calls -> CallStates]
      BY <1>8 DEF Resume, TabsTypeOK, CallStates
    <2>2. TabsTypeOK'
      <3>1. refresh' \in [Tabs -> Waits]
        BY <1>0, <1>8 DEF TabsTypeOK
      <3>2. \A v \in Tabs : refresh'[v].pc = "granted" => refresh'[v].next \in Pairs
        BY <1>0, <1>8 DEF TabsTypeOK
      <3> QED
        BY <1>8, <2>0, <2>1, <3>1, <3>2 DEF TabsTypeOK, Stored
    <2>3. /\ \A v \in Tabs : tab'[v].loads = tab[v].loads
          /\ \A v \in Tabs : tab'[v].token = IF v = w THEN t ELSE tab[v].token
      BY <2>0 DEF Stored
    <2>4. \A v \in Tabs : refresh'[v] = IF v = w THEN NoRefresh ELSE refresh[v]
      BY <1>8 DEF TabsTypeOK
    <2>5. \A v \in Tabs : RefreshOK(v)'
      BY <1>0, <1>8, <2>3, <2>4 DEF RefreshOK, Page
    <2> QED
      BY <1>8, <2>2, <2>3, <2>5
  <1>9. ASSUME NEW w \in Tabs, RefreshDone(w)
        PROVE  TabInv'
    <2>1. refresh[w].next \in Pairs /\ spentBy[refresh[w].next] # Page(w) /\ tab[w].me \in BOOLEAN
      BY <1>9 DEF RefreshDone, RefreshOK, TabsTypeOK
    <2> QED
      BY <1>8, <1>9, <2>1 DEF RefreshDone, SetTokens
  <1>10. ASSUME NEW w \in Tabs, RefreshFails(w)
         PROVE  TabInv'
    <2>1. NoToken \notin Pairs
      BY DEF Pairs
    <2> QED
      BY <1>8, <1>10, <2>1 DEF RefreshFails, ClearStore
  <1>11. ASSUME NEW w \in Tabs, LogoutPost(w)
         PROVE  TabInv'
    <2>1. TabsTypeOK'
      BY <1>11 DEF LogoutPost, TabsTypeOK
    <2> QED
      BY <1>11, <2>1, KeepsTokens DEF LogoutPost
  <1>12. ASSUME NEW w \in Tabs, LogoutDone(w)
         PROVE  TabInv'
    <2>1. ClearStore(w) /\ leaving' = leaving \ {w}
          /\ UNCHANGED <<refresh, call, good, issued, spentBy>>
      BY <1>12 DEF LogoutDone
    <2>2. PICK t \in {tab[w].token, NoToken} : Stored(w, t)
      BY <2>1, StoreKeeps
    <2>3. TabsTypeOK'
      BY <2>1, <2>2 DEF TabsTypeOK, Stored
    <2>4. /\ \A v \in Tabs : tab'[v].loads = tab[v].loads
          /\ \A v \in Tabs : tab'[v].token \in {tab[v].token, NoToken}
      BY <2>2 DEF Stored
    <2> QED
      BY <2>1, <2>3, <2>4, KeepsTokens
  <1>13. CASE UNCHANGED tabVars
    <2>1. TabsTypeOK'
      BY <1>13 DEF tabVars, TabsTypeOK
    <2> QED
      BY <1>13, <2>1, KeepsTokens DEF tabVars
  <1> QED
    BY <1>1, <1>2, <1>3, <1>4, <1>5, <1>6, <1>7, <1>9, <1>10, <1>11, <1>12, <1>13
    DEF TabsNext, RefreshStep, CallStep

\* A page whose refresh is refused never spent its token itself, however the
\* tabs of a browser overlap (TabTokens.RefusedByAnother).
THEOREM NeverOwnRefusal == TabsSpec => []RefusedByAnother
  <1>1. TabInv => RefusedByAnother
    BY DEF TabInv, RefreshOK, RefusedByAnother, Page
  <1> QED
    BY <1>1, TabInitInv, TabStep, PTL DEF TabsSpec

-----------------------------------------------------------------------------
(* The types of all three.                                                 *)

LEMMA NotesCounted ==
  ASSUME NEW s \in SUBSET Notes
  PROVE  Cardinality(s) \in 0..MaxNotes
  <1>1. IsFiniteSet(Notes) /\ Cardinality(Notes) = MaxNotes
    BY PollerAssumption, FS_Interval DEF Notes
  <1>2. IsFiniteSet(s) /\ Cardinality(s) <= MaxNotes
    BY <1>1, FS_Subset
  <1> QED
    BY <1>2, FS_CardinalityType, PollerAssumption

PollRows == [pc : {"idle", "count", "list", "seed"}, count : 0..MaxNotes]

LEMMA PollFields ==
  /\ NoPoll \in PollRows
  /\ \A n \in 0..MaxNotes : [pc |-> "count", count |-> n] \in PollRows
  /\ \A q \in PollRows : /\ [q EXCEPT !.pc = "seed"] \in PollRows
                         /\ [q EXCEPT !.pc = "list"] \in PollRows
                         /\ q.count \in 0..MaxNotes
  BY PollerAssumption DEF NoPoll, PollRows

LEMMA PollerInitType == PollerInit => PollerTypeOK
  <1> SUFFICES ASSUME PollerInit PROVE PollerTypeOK
    OBVIOUS
  <1>1. poll \in [Polls -> PollRows]
    BY PollFields DEF PollerInit
  <1> QED
    BY <1>1, PollerAssumption DEF PollerInit, PollerTypeOK, PollRows

LEMMA PollerStepType ==
  ASSUME PollerTypeOK, [PollerNext]_pollerVars
  PROVE  PollerTypeOK'
  <1> USE PollerAssumption
  <1>1. /\ Unread \in SUBSET Notes /\ Rows \in SUBSET Notes
        /\ UnreadCount \in 0..MaxNotes /\ Cardinality(Rows) \in 0..MaxNotes
    BY NotesCounted DEF Unread, Rows, UnreadCount
  <1>2. poll \in [Polls -> PollRows]
    BY DEF PollerTypeOK, PollRows
  <1>3. ASSUME poll' \in [Polls -> PollRows], badge' \in 0..MaxNotes, prev' \in -1..MaxNotes,
               seen' \subseteq Notes, toasts' \in [Notes -> Nat],
               UNCHANGED <<note, visible, bell, marks>>
        PROVE  PollerTypeOK'
    BY <1>3 DEF PollerTypeOK, PollRows
  <1>4. ASSUME NEW k \in Polls, Tick(k)
        PROVE  PollerTypeOK'
    <2>1. poll' \in [Polls -> PollRows]
      BY <1>1, <1>2, <1>4, PollFields DEF Tick
    <2> QED
      BY <1>3, <1>4, <2>1 DEF Tick, PollerTypeOK
  <1>5. ASSUME NEW k \in Polls, Counted(k)
        PROVE  PollerTypeOK'
    <2> DEFINE q == IF prev < 0 THEN [poll[k] EXCEPT !.pc = "seed"]
                    ELSE IF poll[k].count > prev THEN [poll[k] EXCEPT !.pc = "list"]
                    ELSE NoPoll
    <2>1. q \in PollRows /\ poll[k].count \in 0..MaxNotes
      BY <1>2, PollFields
    <2>2. poll' = [poll EXCEPT ![k] = q]
      BY <1>2, <1>5 DEF Counted
    <2> HIDE DEF q
    <2>3. poll' \in [Polls -> PollRows]
      BY <1>2, <2>1, <2>2
    <2>4. badge' \in 0..MaxNotes /\ prev' \in -1..MaxNotes
      BY <1>5, <2>1 DEF Counted, PollerTypeOK
    <2> QED
      BY <1>3, <1>5, <2>3, <2>4 DEF Counted, PollerTypeOK
  <1>6. ASSUME NEW k \in Polls, Seeded(k) \/ PollFails(k)
        PROVE  PollerTypeOK'
    <2>1. poll' \in [Polls -> PollRows]
      BY <1>2, <1>6, PollFields DEF Seeded, PollFails
    <2> QED
      BY <1>1, <1>3, <1>6, <2>1 DEF Seeded, PollFails, PollerTypeOK
  <1>7. ASSUME NEW k \in Polls, Listed(k)
        PROVE  PollerTypeOK'
    <2>1. poll' \in [Polls -> PollRows] /\ poll[k].count \in 0..MaxNotes
      BY <1>2, <1>7, PollFields DEF Listed
    <2>2. toasts' \in [Notes -> Nat]
      BY <1>7 DEF Listed, Toast, PollerTypeOK
    <2>3. prev' \in -1..MaxNotes /\ seen' \subseteq Notes
      BY <1>1, <1>7, <2>1 DEF Listed, PollerTypeOK
    <2> QED
      BY <1>3, <1>7, <2>1, <2>2, <2>3 DEF Listed, PollerTypeOK
  <1>8. CASE Arrive \/ MarkAllRead \/ VisibilityChange
    BY <1>8 DEF Arrive, MarkAllRead, VisibilityChange, PollerTypeOK
  <1>9. CASE OpenBell
    <2>1. bell' \in [rows : 0..MaxNotes, unread : 0..MaxNotes]
      BY <1>1, <1>9 DEF OpenBell
    <2> QED
      BY <1>9, <2>1 DEF OpenBell, PollerTypeOK
  <1>10. CASE ShowBell
    <2>1. bell.rows \in 0..MaxNotes /\ bell.unread \in 0..MaxNotes
      BY DEF PollerTypeOK, NoBell
    <2>2. (1..bell.rows) \subseteq Notes
      BY <2>1 DEF Notes
    <2>3. badge' \in {bell.unread, badge} /\ seen' \in {seen \cup (1..bell.rows), seen}
      BY <1>10 DEF ShowBell
    <2>4. badge \in 0..MaxNotes /\ seen \subseteq Notes
      BY DEF PollerTypeOK
    <2>5. badge' \in 0..MaxNotes
      BY <2>1, <2>3, <2>4
    <2>6. seen' \subseteq Notes
      BY <2>2, <2>3, <2>4
    <2> QED
      BY <1>10, <2>5, <2>6 DEF ShowBell, PollerTypeOK
  <1>11. ASSUME NEW n \in Notes, MarkRead(n)
         PROVE  PollerTypeOK'
    BY <1>11 DEF MarkRead, PollerTypeOK
  <1>12. ASSUME NEW n \in {0} \cup Notes, Marked(n)
         PROVE  PollerTypeOK'
    BY <1>12 DEF Marked, PollerTypeOK
  <1>13. CASE UNCHANGED pollerVars
    BY <1>13 DEF pollerVars, PollerTypeOK
  <1> QED
    BY <1>4, <1>5, <1>6, <1>7, <1>8, <1>9, <1>10, <1>11, <1>12, <1>13 DEF PollerNext, PollStep

ClientsInv == TabInv /\ PollerTypeOK /\ ScreensTypeOK

LEMMA ClientsStep ==
  ASSUME ClientsInv, [ClientsNext]_clientVars
  PROVE  ClientsInv'
  <1>1. [TabsNext]_tabVars /\ [PollerNext]_pollerVars /\ [ScreensNext]_screenVars
    BY Zenon DEF ClientsNext, clientVars, Tabbed, Polling, Watching
  <1> QED
    BY <1>1, TabStep, PollerStepType, ScreensStepType DEF ClientsInv

\* What tabs and pages keep has its types, however calls, ticks and reads
\* overlap (MCClients.ClientsTypeOK).
THEOREM ClientsAreTyped == ClientsSpec => []ClientsTypeOK
  <1>1. ClientsInit => ClientsInv
    BY TabInitInv, PollerInitType, ScreensInitType DEF ClientsInit, ClientsInv
  <1>2. ClientsInv => ClientsTypeOK
    BY DEF ClientsInv, ClientsTypeOK, TabInv
  <1> QED
    BY <1>1, <1>2, ClientsStep, PTL DEF ClientsSpec

=============================================================================
