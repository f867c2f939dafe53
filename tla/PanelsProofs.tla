---------------------------- MODULE PanelsProofs ----------------------------
(***************************************************************************)
(* Theorems about Sockets, Lists, Entry and Forms: for any number of       *)
(* tokens, rows, reads, people and calls, in whatever order answers come.  *)
(***************************************************************************)
EXTENDS Sockets, Lists, Entry, Forms, TLAPS

-----------------------------------------------------------------------------
(* Sockets: the provider hears the cached socket, and no other is alive.   *)

Alive == {"dialing", "up", "refused"}

SocketInv ==
  /\ badge \in Badges \cup {NoBadge} /\ cached \in Badges \cup {NoBadge}
  /\ wire \in [Badges -> Alive \cup {"none", "closed"}]
  /\ connected \in BOOLEAN /\ effectDue \in BOOLEAN
  /\ worn \subseteq Badges /\ outworn \subseteq worn
  /\ heeding = cached
  /\ ~effectDue => cached = badge
  /\ \A b \in Badges : wire[b] \in Alive => b = cached
  /\ cached # NoBadge => wire[cached] \in Alive /\ (wire[cached] = "up" => connected)
  /\ connected => cached # NoBadge /\ wire[cached] \in {"up", "dialing"}
  /\ rooms \subseteq Badges
  /\ \A b \in rooms : wire[b] = "up"

LEMMA SocketInit == SocketsInit => SocketInv
  BY DEF SocketsInit, SocketInv, Alive

LEMMA SocketStep == ASSUME SocketInv, [SocketsNext]_socketVars PROVE SocketInv'
  <1> USE SocketsAssumption DEF SocketInv, Alive
  <1>1. CASE DropBadge
    BY <1>1 DEF DropBadge
  <1>2. CASE DisconnectSocket
    <2>1. cached # NoBadge => cached \in Badges
      OBVIOUS
    <2>2. \A b \in Badges : wire'[b] = IF b = cached THEN "closed" ELSE wire[b]
      BY <1>2, <2>1 DEF DisconnectSocket, Hung
    <2>3. wire' \in [Badges -> Alive \cup {"none", "closed"}]
      BY <1>2, <2>1 DEF DisconnectSocket, Hung
    <2> QED
      BY <1>2, <2>2, <2>3 DEF DisconnectSocket
  <1>3. CASE GetSocket
    <2>1. badge \in Badges /\ cached' = badge /\ heeding' = badge /\ badge' = badge
      BY <1>3 DEF GetSocket
    <2>2. CASE cached = badge
      <3>1. /\ UNCHANGED <<wire, rooms, worn, outworn>>
            /\ ~effectDue' /\ effectDue' \in BOOLEAN
            /\ connected' = (connected \/ wire'[badge] = "up")
        BY <1>3, <2>2 DEF GetSocket
      <3>2. connected' = connected
        BY <2>1, <2>2, <3>1
      <3> QED
        BY <2>1, <2>2, <3>1, <3>2
    <2>3. CASE cached # badge
      <3>1. wire' \in [Badges -> Alive \cup {"none", "closed"}]
        BY <1>3, <2>1, <2>3 DEF GetSocket, Hung
      <3>2. \A b \in Badges : wire'[b] = IF b = badge THEN "dialing"
                                         ELSE IF b = cached THEN "closed" ELSE wire[b]
        BY <1>3, <2>1, <2>3 DEF GetSocket, Hung
      <3>3. rooms' = rooms \ {cached} /\ connected' = connected
        BY <1>3, <2>1, <2>3, <3>2 DEF GetSocket
      <3>4. rooms' = {}
        BY <3>3
      <3>5. ~effectDue' /\ effectDue' \in BOOLEAN /\ worn' = worn /\ outworn' = outworn
        BY <1>3 DEF GetSocket
      <3> QED
        BY <2>1, <2>3, <3>1, <3>2, <3>3, <3>4, <3>5
    <2> QED
      BY <2>2, <2>3
  <1>4. ASSUME NEW b \in Badges, TakeBadge(b) \/ BadgeRunsOut(b) PROVE SocketInv'
    <2>1. CASE TakeBadge(b)
      BY <2>1 DEF TakeBadge
    <2>2. CASE BadgeRunsOut(b)
      BY <2>2 DEF BadgeRunsOut
    <2> QED
      BY <1>4, <2>1, <2>2
  <1>5. ASSUME NEW b \in Badges, Connects(b) \/ TurnsAway(b) \/ ConnectionLost(b)
        PROVE  SocketInv'
    <2>1. b = cached
      BY <1>5 DEF Connects, TurnsAway, ConnectionLost
    <2> QED
      BY <1>5, <2>1 DEF Connects, TurnsAway, ConnectionLost, Hears
  <1>6. ASSUME NEW b \in Badges, LetsIn(b) PROVE SocketInv'
    BY <1>6 DEF LetsIn
  <1>7. CASE UNCHANGED socketVars
    BY <1>7 DEF socketVars
  <1> QED
    BY <1>1, <1>2, <1>3, <1>4, <1>5, <1>6, <1>7 DEF SocketsNext

LEMMA SocketTrue == SocketInv => SocketsTypeOK /\ SocketsStand
  BY SocketsAssumption
  DEF SocketInv, SocketsTypeOK, SocketsStand, OneSocket, RoomsAreLive, SaysTruly, Alive

\* However tokens change and connections break, one socket lives, of the token
\* there is, and the provider says truly how it stands (Sockets.SocketsStand).
THEOREM OneLiveConnection == SocketsSpec => []SocketsStand
  <1>1. SocketInv => SocketsStand
    BY SocketTrue
  <1> QED
    BY <1>1, SocketInit, SocketStep, PTL DEF SocketsSpec

-----------------------------------------------------------------------------
(* Lists: the lock of a page is held from the press to the answer.         *)

Pressed(a) == deed[a].pc # "idle"

LockInv ==
  /\ DOMAIN deed = Deeds
  /\ \A a \in Deeds : DOMAIN deed[a] = {"pc", "row", "query"}
  /\ busy \in ListRows \cup {NoListRow}
  /\ kind.lock = "page" =>
       /\ \A a, b \in Deeds : Pressed(a) /\ Pressed(b) => a = b
       /\ \A a \in Deeds : Pressed(a) => busy # NoListRow

LEMMA LockInit == ListInit => LockInv
  BY DEF ListInit, LockInv, Pressed, NoDeed

LEMMA LockStep == ASSUME LockInv, [ListNext]_listVars PROVE LockInv'
  <1> USE ListAssumption DEF LockInv, Pressed, NoDeed
  <1>1. ASSUME NEW k \in Fetches, Settle(k) PROVE LockInv'
    BY <1>1 DEF Settle
  <1>2. ASSUME NEW a \in Deeds, NEW r \in ListRows, Press(a, r) PROVE LockInv'
    <2>1. kind.lock = "page" => \A b \in Deeds : ~Pressed(b)
      BY <1>2 DEF Press, Unlocked, PageLock
    <2> QED
      BY <1>2, <2>1 DEF Press
  <1>3. ASSUME NEW a \in Deeds, Applied(a) PROVE LockInv'
    BY <1>3 DEF Applied
  <1>4. ASSUME NEW a \in Deeds, Refused(a) PROVE LockInv'
    BY <1>4 DEF Refused
  <1>5. ASSUME NEW a \in Deeds, AnsweredRow(a) PROVE LockInv'
    BY <1>5 DEF AnsweredRow
  <1>6. ASSUME NEW a \in Deeds, NEW k \in Fetches, AnsweredThenReload(a, k) PROVE LockInv'
    BY <1>6 DEF AnsweredThenReload
  <1>7. ASSUME NEW a \in Deeds, NEW k \in Fetches, RefusedThenReload(a, k) PROVE LockInv'
    BY <1>7 DEF RefusedThenReload
  <1>8. ASSUME NEW a \in Deeds, NEW k \in Fetches, LeavesFor(a, k) PROVE LockInv'
    BY <1>8 DEF LeavesFor
  <1>9. ASSUME NEW k \in Fetches, PollRows(k) PROVE LockInv'
    BY <1>9 DEF PollRows
  <1>10. ASSUME NEW k \in Fetches, NEW q \in Queries, Choose(k, q) PROVE LockInv'
    BY <1>10 DEF Choose
  <1>11. ASSUME NEW j \in Fetches, NEW k \in Fetches, NEW q \in Queries,
                ChooseThenReset(j, k, q)
         PROVE  LockInv'
    BY <1>11 DEF ChooseThenReset
  <1>12. CASE UNCHANGED listVars
    BY <1>12 DEF listVars
  <1> QED
    <2>1. ASSUME NEW k \in Fetches, ShowRows(k) \/ ReadFails(k) PROVE LockInv'
      BY <1>1, <2>1 DEF ShowRows, ReadFails
    <2> QED
      BY <2>1, <1>2, <1>3, <1>4, <1>5, <1>6, <1>7, <1>8, <1>9, <1>10, <1>11, <1>12
      DEF ListNext

\* Where a page locks its buttons, two decisions made on it never cross,
\* however its reads and answers interleave (Lists.OneDecisionAtATime).
THEOREM DecisionsDoNotCross == ListSpec => []OneDecisionAtATime
  <1>1. LockInv => OneDecisionAtATime
    BY DEF LockInv, Pressed, OneDecisionAtATime
  <1> QED
    BY <1>1, LockInit, LockStep, PTL DEF ListSpec

-----------------------------------------------------------------------------
(* Lists: what a page at rest shows.  As long as calls do not meet, either *)
(* nothing is in flight and the page shows what there is, or one read is,  *)
(* of what there is, or one call.                                          *)

Reads == [query : Queries \cup {Between, NoQuery}, rows : SUBSET ListRows, quiet : BOOLEAN]
Calls == [pc : {"idle", "sent", "done"} \cup Fetches, row : ListRows \cup {NoListRow},
          query : Queries \cup {NoQuery}]

Acting(a) == deed[a].pc \in {"sent", "done"}
Shown == failure \/ (view.query = query /\ view.rows = changed)

Settled ==
  /\ \A k \in Fetches :
       Out(k) => /\ fetch[k].query = query /\ fetch[k].rows = changed
                 /\ \A j \in Fetches : Out(j) => j = k
                 /\ \A a \in Deeds : ~Acting(a)
  /\ \A a \in Deeds :
       Acting(a) => /\ \A b \in Deeds : Pressed(b) => b = a
                    /\ kind.after = "pressed" => deed[a].query = query
                    /\ deed[a].pc = "done" =>
                         failure \/ (view.query = query /\ view.rows \cup {deed[a].row} = changed)
  /\ (\A k \in Fetches : ~Out(k)) /\ (\A a \in Deeds : deed[a].pc # "done") => Shown

Waits ==
  /\ spinner => \E k \in Fetches : Out(k) /\ ~fetch[k].quiet
  /\ busy # NoListRow => kind.lock # "none" /\ \E a \in Deeds : Pressed(a)
  /\ \A a \in Deeds : Acting(a) => deed[a].row \in ListRows
                                   /\ (kind.after = "pressed" => deed[a].query \in Queries)

\* Where the answer replaces its row, nothing is locked.
LEMMA RowPages == \A p \in ListPages : p.after = "row" => p.lock = "none"
  <1>1. /\ Fixed.after # "row" /\ UsersTable.lock = "none"
        /\ OrdersList.after # "row" /\ AuditList.after # "row"
        /\ SellerProductsPage.after # "row" /\ SellerOrdersPage.after # "row"
        /\ ClientOrdersPage.after # "row" /\ CourierHistoryPage.after # "row"
    BY DEF Fixed, UsersTable, OrdersList, AuditList, SellerProductsPage, SellerOrdersPage,
           ClientOrdersPage, CourierHistoryPage
  <1>2. /\ RolesList.after # "row" /\ HistoryList.after # "row"
        /\ AttributesPage.after # "row" /\ AddressesPage.after # "row"
        /\ CourierDashboard.after # "row" /\ FeaturedPage.after # "row"
        /\ ModerationPage.after # "row" /\ DeliveriesPage.after # "row"
    BY DEF Fixed, RolesList, HistoryList, AttributesPage, AddressesPage, CourierDashboard,
           FeaturedPage, ModerationPage, DeliveriesPage
  <1> QED
    BY <1>1, <1>2, Zenon
       DEF ListPages, AdminDashboard, AdminFinance, SellerDashboard, SellerFinance,
           EarningsPage, CatalogPage, AdminOrderPage, AttributeDetailPage, BrandsPage,
           CategoriesPage, CategoryDetailPage, CourierStoresPage, SellerContractsPage

ListTypes ==
  /\ kind \in ListPages /\ changed \in SUBSET ListRows /\ query \in Queries
  /\ fetch \in [Fetches -> Reads] /\ deed \in [Deeds -> Calls]
  /\ view \in [query : Queries \cup {Between, NoQuery}, rows : SUBSET ListRows]
  /\ spinner \in BOOLEAN /\ failure \in BOOLEAN /\ met \in BOOLEAN
  /\ busy \in ListRows \cup {NoListRow}

ListInv == ListTypes /\ LockInv /\ Waits /\ (~met => Settled)

\* Three kinds of rows in flight.
LEMMA NoReadType ==
  /\ NoFetch \in Reads /\ NoFetch.query = NoQuery
  /\ NoDeed \in Calls /\ NoDeed.pc = "idle"
  BY DEF NoFetch, NoDeed, Reads, Calls

LEMMA ReadType ==
  ASSUME changed \in SUBSET ListRows, NEW q \in Queries \cup {Between}, NEW quiet \in BOOLEAN
  PROVE  /\ ReadOf(q, quiet) \in Reads /\ ReadOf(q, quiet).query = q
         /\ ReadOf(q, quiet).rows = changed /\ ReadOf(q, quiet).quiet = quiet
         /\ ReadOf(q, quiet).query # NoQuery
  BY ListAssumption DEF ReadOf, Reads

\* A read that starts is the only change of the reads.
LEMMA Asking ==
  ASSUME ListTypes, Waits, NEW k \in Fetches, NEW q \in Queries, NEW quiet \in BOOLEAN,
         AskRows(k, q, quiet)
  PROVE  /\ fetch' \in [Fetches -> Reads]
         /\ \A j \in Fetches : fetch'[j] = IF j = k THEN ReadOf(q, quiet) ELSE fetch[j]
         /\ spinner' \in BOOLEAN /\ failure' \in BOOLEAN
         /\ spinner' => \E j \in Fetches : Out(j)' /\ ~fetch'[j].quiet
  <1>1. ReadOf(q, quiet) \in Reads /\ ReadOf(q, quiet).query # NoQuery
        /\ ReadOf(q, quiet).quiet = quiet
    BY ReadType DEF ListTypes
  <1>2. /\ fetch' \in [Fetches -> Reads]
        /\ \A j \in Fetches : fetch'[j] = IF j = k THEN ReadOf(q, quiet) ELSE fetch[j]
    BY <1>1 DEF AskRows, ListTypes
  <1>3. spinner' \in BOOLEAN /\ failure' \in BOOLEAN
    BY DEF AskRows
  <1>4. spinner' => spinner \/ ~quiet
    BY Zenon DEF AskRows
  <1>5. ~Out(k)
    BY DEF AskRows
  <1> QED
    BY <1>1, <1>2, <1>3, <1>4, <1>5 DEF Waits, Out

\* One read out, nothing else: the page will show what there is.
LEMMA OneRead ==
  ASSUME NEW k \in Fetches,
         \A j \in Fetches : Out(j)' => j = k,
         Out(k)', fetch'[k].query = query', fetch'[k].rows = changed',
         \A a \in Deeds : ~Acting(a)'
  PROVE  Settled'
  BY DEF Settled

LEMMA ListStart == ListInit => ListInv
  <1> SUFFICES ASSUME ListInit PROVE ListInv
    OBVIOUS
  <1>1. PICK k \in Fetches :
          fetch = [j \in Fetches |-> IF j = k THEN ReadOf(FirstQuery, FALSE) ELSE NoFetch]
    BY DEF ListInit
  <1>2. FirstQuery \in Queries /\ query = FirstQuery /\ changed = {}
    BY ListAssumption DEF ListInit, FirstQuery
  <1>3. /\ ReadOf(FirstQuery, FALSE) \in Reads /\ ReadOf(FirstQuery, FALSE).query = query
        /\ ReadOf(FirstQuery, FALSE).rows = changed /\ ~ReadOf(FirstQuery, FALSE).quiet
        /\ ReadOf(FirstQuery, FALSE).query # NoQuery
    BY <1>2, ReadType
  <1>4. ListTypes
    BY <1>1, <1>2, <1>3, NoReadType DEF ListInit, ListTypes
  <1>5. \A j \in Fetches : Out(j) <=> j = k
    BY <1>1, <1>3, NoReadType DEF Out
  <1>6. \A a \in Deeds : ~Pressed(a) /\ ~Acting(a)
    BY NoReadType DEF ListInit, Pressed, Acting
  <1>7. Waits
    BY <1>1, <1>3, <1>5, <1>6 DEF Waits, ListInit
  <1>8. Settled
    BY <1>1, <1>3, <1>5, <1>6 DEF Settled
  <1> QED
    BY <1>4, <1>7, <1>8, LockInit DEF ListInv

\* A filter, a page number or the timer: one read more, and where that was
\* the first, it is of what there is.
LEMMA ReadingStep ==
  ASSUME ListInv, NEW k \in Fetches,
         PollRows(k) \/ \E q \in Queries : Choose(k, q)
  PROVE  ListTypes' /\ Waits' /\ (~met' => Settled')
  <1>1. PICK q \in Queries, quiet \in BOOLEAN :
          /\ AskRows(k, q, quiet) /\ query' = q /\ Meets
          /\ UNCHANGED <<kind, changed, view, busy, deed>>
    BY DEF PollRows, Choose, ListInv, ListTypes
  <1>2. /\ fetch' \in [Fetches -> Reads]
        /\ \A j \in Fetches : fetch'[j] = IF j = k THEN ReadOf(q, quiet) ELSE fetch[j]
        /\ spinner' \in BOOLEAN /\ failure' \in BOOLEAN
        /\ spinner' => \E j \in Fetches : Out(j)' /\ ~fetch'[j].quiet
    BY <1>1, Asking DEF ListInv
  <1>3. ListTypes'
    BY <1>1, <1>2 DEF ListInv, ListTypes, Meets
  <1>4. Waits'
    BY <1>1, <1>2 DEF ListInv, Waits, Acting, Pressed
  <1>5. ASSUME ~met' PROVE Settled'
    <2>1. Resting
      BY <1>1, <1>5 DEF Meets
    <2>2. ReadOf(q, quiet).query = q /\ ReadOf(q, quiet).rows = changed
          /\ ReadOf(q, quiet).query # NoQuery
      BY ReadType DEF ListInv, ListTypes
    <2> QED
      BY <1>1, <1>2, <2>1, <2>2, OneRead DEF Resting, Out, Acting
  <1> QED
    BY <1>3, <1>4, <1>5

LEMMA ResetStep ==
  ASSUME ListInv, NEW j \in Fetches, NEW k \in Fetches, NEW q \in Queries,
         ChooseThenReset(j, k, q)
  PROVE  ListTypes' /\ Waits' /\ met'
  <1>1. /\ ReadOf(q, FALSE) \in Reads /\ ReadOf(Between, FALSE) \in Reads
        /\ ReadOf(q, FALSE).query # NoQuery /\ ~ReadOf(q, FALSE).quiet
    BY ReadType DEF ListInv, ListTypes
  <1>2. fetch' \in [Fetches -> Reads] /\ fetch'[k] = ReadOf(q, FALSE)
    BY <1>1 DEF ChooseThenReset, ListInv, ListTypes
  <1>3. ListTypes'
    BY <1>2 DEF ChooseThenReset, ListInv, ListTypes
  <1>4. Waits'
    BY <1>1, <1>2 DEF ChooseThenReset, ListInv, Waits, Acting, Pressed, Out
  <1> QED
    BY <1>3, <1>4 DEF ChooseThenReset

\* An answer, or the loss of one.
LEMMA AnswerStep ==
  ASSUME ListInv, NEW k \in Fetches, ShowRows(k) \/ ReadFails(k)
  PROVE  ListTypes' /\ Waits' /\ (~met' => Settled')
  <1>1. /\ Out(k) /\ UNCHANGED <<kind, changed, query, met>>
        /\ fetch' = [fetch EXCEPT ![k] = NoFetch]
        /\ spinner' = (spinner /\ fetch[k].quiet)
        /\ deed' = [a \in Deeds |-> IF deed[a].pc = k THEN NoDeed ELSE deed[a]]
        /\ busy' = IF \E a \in Deeds : deed[a].pc = k THEN NoListRow ELSE busy
    BY DEF ShowRows, ReadFails, Settle
  <1>2. /\ fetch' \in [Fetches -> Reads]
        /\ \A j \in Fetches : fetch'[j] = IF j = k THEN NoFetch ELSE fetch[j]
    BY <1>1, NoReadType DEF ListInv, ListTypes
  <1>3. deed' \in [Deeds -> Calls]
    BY <1>1, NoReadType DEF ListInv, ListTypes
  <1>4. failure' \in BOOLEAN /\ view' \in [query : Queries \cup {Between, NoQuery}, rows : SUBSET ListRows]
    <2>1. fetch[k].query \in Queries \cup {Between, NoQuery} /\ fetch[k].rows \in SUBSET ListRows
      BY DEF ListInv, ListTypes, Reads
    <2>2. failure' \in BOOLEAN
      BY DEF ShowRows, ReadFails
    <2>3. view' = view \/ view' = [query |-> fetch[k].query, rows |-> fetch[k].rows]
      BY DEF ShowRows, ReadFails
    <2> QED
      BY <2>1, <2>2, <2>3 DEF ListInv, ListTypes
  <1>5. ListTypes'
    BY <1>1, <1>2, <1>3, <1>4 DEF ListInv, ListTypes
  <1>6. spinner' => spinner /\ fetch[k].quiet
    BY <1>1, Zenon
  <1>7. k \notin {"idle", "sent", "done"}
    BY ListAssumption
  <1>8. Waits'
    <2>1. spinner' => \E j \in Fetches : Out(j)' /\ ~fetch'[j].quiet
      BY <1>2, <1>6 DEF ListInv, Waits, Out
    <2>2. busy' # NoListRow => kind.lock # "none" /\ \E a \in Deeds : Pressed(a)'
      BY <1>1 DEF ListInv, Waits, Pressed
    <2>3. \A a \in Deeds : Acting(a)' => Acting(a) /\ deed'[a] = deed[a]
      BY <1>1, NoReadType DEF Acting
    <2> QED
      BY <1>1, <2>1, <2>2, <2>3 DEF ListInv, Waits
  <1>9. ASSUME ~met' PROVE Settled'
    <2>1. /\ fetch[k].query = query /\ fetch[k].rows = changed
          /\ \A j \in Fetches : Out(j) => j = k
          /\ \A a \in Deeds : ~Acting(a)
      BY <1>1, <1>9 DEF ListInv, Settled
    <2>2. \A j \in Fetches : ~Out(j)'
      BY <1>2, <2>1, NoReadType DEF Out
    <2>3. \A a \in Deeds : ~Acting(a)'
      BY <1>1, <2>1, NoReadType DEF Acting
    <2>4. Shown'
      BY <1>1, <2>1 DEF ShowRows, ReadFails, Shown
    <2> QED
      BY <2>2, <2>3, <2>4 DEF Settled
  <1> QED
    BY <1>5, <1>8, <1>9

\* A press meets nothing, or is counted as meeting.
LEMMA PressStep ==
  ASSUME ListInv, NEW a \in Deeds, NEW r \in ListRows, Press(a, r)
  PROVE  ListTypes' /\ Waits' /\ (~met' => Settled')
  <1> DEFINE new == [pc |-> "sent", row |-> r,
                     query |-> IF kind.after = "pressed" THEN query ELSE NoQuery]
  <1>1. new \in Calls /\ new.pc = "sent" /\ new.row = r
        /\ (kind.after = "pressed" => new.query = query)
    BY DEF Calls, ListInv, ListTypes
  <1>2. /\ deed' = [deed EXCEPT ![a] = new]
        /\ busy' = IF kind.lock = "none" THEN busy ELSE r
        /\ Meets
        /\ UNCHANGED <<kind, changed, query, fetch, view, spinner, failure>>
    BY DEF Press
  <1> HIDE DEF new
  <1>3. deed' \in [Deeds -> Calls] /\ \A b \in Deeds : deed'[b] = IF b = a THEN new ELSE deed[b]
    BY <1>1, <1>2 DEF ListInv, ListTypes
  <1>4. ListTypes'
    BY <1>2, <1>3 DEF ListInv, ListTypes, Meets
  <1>5. Waits'
    BY <1>1, <1>2, <1>3 DEF ListInv, ListTypes, Waits, Acting, Pressed, Out
  <1>6. ASSUME ~met' PROVE Settled'
    <2>1. Resting /\ ~met
      BY <1>2, <1>6 DEF Meets
    <2>2. Shown
      BY <2>1 DEF ListInv, Settled, Resting
    <2> QED
      BY <1>1, <1>2, <1>3, <2>1, <2>2 DEF Settled, Shown, Resting, Acting, Pressed, Out
  <1> QED
    BY <1>4, <1>5, <1>6

LEMMA AppliedStep ==
  ASSUME ListInv, NEW a \in Deeds, Applied(a)
  PROVE  ListTypes' /\ Waits' /\ (~met' => Settled')
  <1> DEFINE new == [deed[a] EXCEPT !.pc = "done"]
  <1>1. /\ deed[a] \in Calls /\ deed[a].pc = "sent" /\ Acting(a)
        /\ deed[a].row \in ListRows
    BY DEF Applied, ListInv, ListTypes, Acting, Waits
  <1>2. new \in Calls /\ new.pc = "done" /\ new.row = deed[a].row /\ new.query = deed[a].query
    BY <1>1 DEF Calls
  <1>3. deed' = [deed EXCEPT ![a] = new] /\ changed' = changed \cup {deed[a].row}
        /\ UNCHANGED <<kind, query, fetch, view, spinner, failure, busy, met>>
    BY DEF Applied, ListInv, ListTypes
  <1> HIDE DEF new
  <1>4. deed' \in [Deeds -> Calls] /\ \A b \in Deeds : deed'[b] = IF b = a THEN new ELSE deed[b]
    BY <1>2, <1>3 DEF ListInv, ListTypes
  <1>5. ListTypes'
    BY <1>1, <1>3, <1>4 DEF ListInv, ListTypes
  <1>6. Waits'
    BY <1>1, <1>2, <1>3, <1>4 DEF ListInv, Waits, Acting, Pressed, Out
  <1>7. ASSUME ~met' PROVE Settled'
    <2>1. (\A k \in Fetches : ~Out(k)) /\ \A b \in Deeds : Pressed(b) => b = a
      BY <1>1, <1>3, <1>7 DEF ListInv, Settled
    <2>2. Shown
      BY <1>1, <1>3, <1>7, <2>1 DEF ListInv, Settled, Pressed
    <2>3. kind.after = "pressed" => deed[a].query = query
      BY <1>1, <1>3, <1>7 DEF ListInv, Settled
    <2> QED
      BY <1>1, <1>2, <1>3, <1>4, <2>1, <2>2, <2>3 DEF Settled, Shown, Acting, Pressed, Out
  <1> QED
    BY <1>5, <1>6, <1>7

\* A call that ends without a read: refused, or its answer is the row.
LEMMA EndedStep ==
  ASSUME ListInv, NEW a \in Deeds, Refused(a) \/ AnsweredRow(a)
  PROVE  ListTypes' /\ Waits' /\ (~met' => Settled')
  <1>1. /\ Acting(a) /\ deed[a].row \in ListRows
        /\ deed' = [deed EXCEPT ![a] = NoDeed]
        /\ UNCHANGED <<kind, changed, query, fetch, spinner, failure, met>>
    BY DEF Refused, AnsweredRow, Acting, ListInv, Waits
  <1>2. deed' \in [Deeds -> Calls] /\ \A b \in Deeds : deed'[b] = IF b = a THEN NoDeed ELSE deed[b]
    BY <1>1, NoReadType DEF ListInv, ListTypes
  <1>3. busy' = NoListRow \/ (busy' = busy /\ kind.lock = "none")
    BY RowPages DEF Refused, AnsweredRow, ListInv, ListTypes
  <1>4. /\ view' \in [query : Queries \cup {Between, NoQuery}, rows : SUBSET ListRows]
        /\ view'.query = view.query
        /\ view'.rows = IF deed[a].pc = "done" THEN view.rows \cup {deed[a].row} ELSE view.rows
    <2>1. CASE Refused(a)
      BY <2>1 DEF Refused, ListInv, ListTypes
    <2>2. CASE AnsweredRow(a)
      BY <1>1, <2>2 DEF AnsweredRow, ListInv, ListTypes
    <2> QED
      BY <2>1, <2>2
  <1>5. ListTypes'
    BY <1>1, <1>2, <1>3, <1>4 DEF ListInv, ListTypes
  <1>6. Waits'
    <2>1. busy' = NoListRow
      BY <1>3 DEF ListInv, Waits
    <2> QED
      BY <1>1, <1>2, <2>1, NoReadType DEF ListInv, Waits, Acting, Pressed, Out
  <1>7. ASSUME ~met' PROVE Settled'
    <2>1. (\A k \in Fetches : ~Out(k)) /\ \A b \in Deeds : Pressed(b) => b = a
      BY <1>1, <1>7 DEF ListInv, Settled
    <2>2. \A k \in Fetches : ~Out(k)'
      BY <1>1, <2>1 DEF Out
    <2>3. \A b \in Deeds : ~Acting(b)'
      BY <1>2, <2>1, NoReadType DEF Acting, Pressed
    <2>4. Shown'
      <3>1. CASE deed[a].pc = "done"
        BY <1>1, <1>4, <1>7, <3>1 DEF ListInv, Settled, Shown
      <3>2. CASE deed[a].pc # "done"
        <4>1. \A b \in Deeds : deed[b].pc # "done"
          BY <2>1, <3>2 DEF Pressed
        <4>2. Shown
          BY <1>1, <1>7, <2>1, <4>1 DEF ListInv, Settled
        <4> QED
          BY <1>1, <1>4, <3>2, <4>2 DEF Shown
      <3> QED
        BY <3>1, <3>2
    <2> QED
      BY <2>2, <2>3, <2>4 DEF Settled
  <1> QED
    BY <1>5, <1>6, <1>7

\* A call that ends in a read, which its buttons may wait for.
LEMMA ReloadStep ==
  ASSUME ListInv, NEW a \in Deeds, NEW k \in Fetches,
         AnsweredThenReload(a, k) \/ RefusedThenReload(a, k)
  PROVE  ListTypes' /\ Waits' /\ (~met' => Settled')
  <1>1. Acting(a) /\ UNCHANGED <<kind, changed, query, view>>
    BY DEF AnsweredThenReload, RefusedThenReload, Acting
  <1>2. PICK q \in Queries : AskRows(k, q, FALSE) /\ (~met => q = query)
    <2>1. CASE AnsweredThenReload(a, k) /\ kind.after = "pressed"
      BY <1>1, <2>1 DEF AnsweredThenReload, ListInv, Waits, Settled
    <2>2. CASE ~(AnsweredThenReload(a, k) /\ kind.after = "pressed")
      BY <2>2 DEF AnsweredThenReload, RefusedThenReload, ListInv, ListTypes
    <2> QED
      BY <2>1, <2>2
  <1>3. /\ fetch' \in [Fetches -> Reads]
        /\ \A j \in Fetches : fetch'[j] = IF j = k THEN ReadOf(q, FALSE) ELSE fetch[j]
        /\ spinner' \in BOOLEAN /\ failure' \in BOOLEAN
        /\ spinner' => \E j \in Fetches : Out(j)' /\ ~fetch'[j].quiet
    BY <1>2, Asking DEF ListInv
  <1>4. k \notin {"idle", "sent", "done"}
    BY ListAssumption
  <1>5. PICK new \in Calls :
          /\ deed' = [deed EXCEPT ![a] = new]
          /\ new.pc \in {"idle", k}
          /\ \/ busy' = NoListRow
             \/ busy' = busy /\ (kind.lock # "none" => new.pc = k)
    <2>1. [NoDeed EXCEPT !.pc = k] \in Calls /\ [NoDeed EXCEPT !.pc = k].pc = k
      BY DEF NoDeed, Calls
    <2> QED
      BY <2>1, NoReadType DEF AnsweredThenReload, RefusedThenReload
  <1>6. deed' \in [Deeds -> Calls] /\ \A b \in Deeds : deed'[b] = IF b = a THEN new ELSE deed[b]
    BY <1>5 DEF ListInv, ListTypes
  <1>7. ListTypes'
    BY <1>1, <1>3, <1>5, <1>6
       DEF ListInv, ListTypes, AnsweredThenReload, RefusedThenReload
  <1>8. Waits'
    <2>1. busy' # NoListRow => kind.lock # "none" /\ \E b \in Deeds : Pressed(b)'
      BY <1>4, <1>5, <1>6 DEF ListInv, Waits, Pressed
    <2>2. \A b \in Deeds : Acting(b)' => Acting(b) /\ deed'[b] = deed[b]
      BY <1>4, <1>5, <1>6 DEF Acting
    <2> QED
      BY <1>1, <1>3, <2>1, <2>2 DEF ListInv, Waits
  <1>9. ASSUME ~met' PROVE Settled'
    <2>1. ~met
      BY <1>9 DEF AnsweredThenReload, RefusedThenReload
    <2>2. (\A j \in Fetches : ~Out(j)) /\ \A b \in Deeds : Pressed(b) => b = a
      BY <1>1, <2>1 DEF ListInv, Settled
    <2>3. ReadOf(q, FALSE).query = q /\ ReadOf(q, FALSE).rows = changed
          /\ ReadOf(q, FALSE).query # NoQuery
      BY ReadType DEF ListInv, ListTypes
    <2>4. \A b \in Deeds : ~Acting(b)'
      BY <1>4, <1>5, <1>6, <2>2 DEF Acting, Pressed
    <2> QED
      BY <1>1, <1>2, <1>3, <2>1, <2>2, <2>3, <2>4, OneRead DEF Out
  <1> QED
    BY <1>7, <1>8, <1>9

\* Off to the order and back: the page as it opens.
LEMMA LeaveStep ==
  ASSUME ListInv, NEW a \in Deeds, NEW k \in Fetches, LeavesFor(a, k)
  PROVE  ListTypes' /\ Waits' /\ Settled'
  <1>1. FirstQuery \in Queries
    BY ListAssumption DEF FirstQuery
  <1>2. /\ ReadOf(FirstQuery, FALSE) \in Reads /\ ReadOf(FirstQuery, FALSE).query = FirstQuery
        /\ ReadOf(FirstQuery, FALSE).rows = changed /\ ~ReadOf(FirstQuery, FALSE).quiet
        /\ ReadOf(FirstQuery, FALSE).query # NoQuery
    BY <1>1, ReadType DEF ListInv, ListTypes
  <1>3. ListTypes'
    BY <1>1, <1>2, NoReadType DEF LeavesFor, ListInv, ListTypes
  <1>4. \A j \in Fetches : Out(j)' <=> j = k
    BY <1>2, NoReadType DEF LeavesFor, Out
  <1>5. \A b \in Deeds : ~Pressed(b)' /\ ~Acting(b)'
    BY NoReadType DEF LeavesFor, Pressed, Acting
  <1>6. fetch'[k] = ReadOf(FirstQuery, FALSE)
        /\ busy' = NoListRow /\ query' = FirstQuery /\ changed' = changed
    BY DEF LeavesFor
  <1>7. Waits'
    BY <1>2, <1>4, <1>5, <1>6 DEF Waits
  <1>8. Settled'
    BY <1>2, <1>4, <1>5, <1>6, OneRead
  <1> QED
    BY <1>3, <1>7, <1>8

LEMMA ListStep == ASSUME ListInv, [ListNext]_listVars PROVE ListInv'
  <1>1. LockInv'
    BY LockStep DEF ListInv
  <1>2. ASSUME NEW k \in Fetches,
               \/ PollRows(k) \/ ShowRows(k) \/ ReadFails(k)
               \/ \E q \in Queries : Choose(k, q)
               \/ \E j \in Fetches, q \in Queries : ChooseThenReset(j, k, q)
               \/ \E a \in Deeds : AnsweredThenReload(a, k) \/ RefusedThenReload(a, k) \/ LeavesFor(a, k)
        PROVE  ListTypes' /\ Waits' /\ (~met' => Settled')
    BY <1>2, ReadingStep, ResetStep, AnswerStep, ReloadStep, LeaveStep
  <1>3. ASSUME NEW a \in Deeds,
               \/ Applied(a) \/ Refused(a) \/ AnsweredRow(a)
               \/ \E r \in ListRows : Press(a, r)
        PROVE  ListTypes' /\ Waits' /\ (~met' => Settled')
    BY <1>3, AppliedStep, EndedStep, PressStep
  <1>4. CASE UNCHANGED listVars
    <2>1. ListTypes'
      BY <1>4 DEF listVars, ListInv, ListTypes
    <2>2. Waits'
      BY <1>4 DEF listVars, ListInv, Waits, Acting, Pressed, Out
    <2>3. Settled => Settled'
      BY <1>4 DEF listVars, Settled, Shown, Acting, Pressed, Out
    <2> QED
      BY <1>1, <1>4, <2>1, <2>2, <2>3 DEF listVars, ListInv
  <1> QED
    BY <1>1, <1>2, <1>3, <1>4 DEF ListNext, ListInv

LEMMA ListTrue == ListInv => ListTypeOK /\ NothingHangs /\ OneDecisionAtATime /\ ShowsWhatWasDone
  <1> SUFFICES ASSUME ListInv
               PROVE  ListTypeOK /\ NothingHangs /\ OneDecisionAtATime /\ ShowsWhatWasDone
    OBVIOUS
  <1>1. ListTypeOK
    BY DEF ListInv, ListTypes, ListTypeOK, Reads, Calls
  <1>2. NothingHangs /\ OneDecisionAtATime
    BY DEF ListInv, Waits, LockInv, Pressed, NothingHangs, OneDecisionAtATime
  <1>3. ShowsWhatWasDone
    BY DEF ListInv, ListTypes, Settled, Shown, Acting, Resting, ShowsWhatWasDone
  <1> QED
    BY <1>1, <1>2, <1>3

\* In all the lists of the panels, however their reads and calls overlap, a
\* turning spinner and a waiting button have a call in flight, and two decisions
\* do not cross where the page locks its buttons (Lists.NothingHangs,
\* OneDecisionAtATime).  A list at rest shows the rows there are if its calls
\* never overlapped (Lists.ShowsWhatWasDone).
THEOREM ListsShowTheRows ==
  ListSpec => [](NothingHangs /\ OneDecisionAtATime /\ ShowsWhatWasDone)
  BY ListStart, ListStep, ListTrue, PTL DEF ListSpec

-----------------------------------------------------------------------------
(* Entry: whose tokens are stored, whom the page takes a person for, and   *)
(* where the effects send him.                                             *)

AskKinds == {"free", "code", "verify", "telegram", "read", "peek", "boundary", "onboarding",
             "apply"}
PageCalls == [for : AskKinds, who : Visitors \cup {NoVisitor}, holder : BOOLEAN]

LEMMA PanelKinds ==
  ASSUME NEW p \in Panels
  PROVE  /\ p.form \in {"phone", "code"}
         /\ p.guard = "login" <=> p = AdminPanel
         /\ p.guard = "apply" <=> p = CourierPanel
         /\ p.guard = "forget" <=> p = SellerPanel
         /\ p.peeks <=> p = SellerPanel
         /\ AdminPanel # CourierPanel /\ AdminPanel # SellerPanel /\ CourierPanel # SellerPanel
  BY DEF Panels, ClientPanel, CourierPanel, SellerPanel, AdminPanel

\* Who may be where: the courier's application, the seller's tokens, the admins.
EntryKnown ==
  /\ route = "apply" => panel = CourierPanel
  /\ \A k \in Asks : ask[k].for \in {"onboarding", "apply"} => panel = CourierPanel
  /\ member \subseteq been
  /\ \A k \in Asks : ask[k].for = "peek" =>
       /\ panel = SellerPanel /\ ask[k].who \in Visitors
       /\ ask[k].holder => ask[k].who \in been
  /\ KeepsSellersOnly
  /\ panel = AdminPanel =>
       /\ token = NoVisitor \/ token \in member
       /\ me = NoMe \/ me.holder
       /\ \A k \in Asks : ask[k].for \in {"read", "boundary"} => ask[k].holder

\* Calls and page are about the person whose tokens are stored.
EntryOwn ==
  ~mingled =>
    /\ \A k \in Asks :
         /\ ask[k].for \in {"code", "verify", "telegram", "peek"} => token = NoVisitor
         /\ ask[k].for \in {"read", "boundary", "onboarding", "apply"} =>
              ask[k].who = token /\ token # NoVisitor
    /\ me = NoMe \/ (me.who = token /\ token # NoVisitor)

\* How many redirects there may have been before a page, and after it.
EntryHops ==
  /\ hops <= 2
  /\ token # NoVisitor /\ route = "inside" => hops <= 1
  /\ token # NoVisitor /\ route = "login" => hops = 0
  /\ token = NoVisitor /\ route # "login" => hops <= 1

EntryForm ==
  login.call # "none" =>
    /\ route = "login"
    /\ ask[login.call].for \in {"code", "verify", "telegram", "read", "peek"}

EntryInv == EntryTypeOK /\ EntryKnown /\ EntryOwn /\ EntryHops /\ EntryForm

-----------------------------------------------------------------------------
LEMMA NoAskRow ==
  /\ NoAsk \in PageCalls /\ NoAsk.for = "free"
  /\ NoMe \in [who : Visitors \cup {NoVisitor}, holder : BOOLEAN]
  BY DEF NoAsk, PageCalls, AskKinds, NoMe

LEMMA AskTypes == ASSUME EntryTypeOK PROVE ask \in [Asks -> PageCalls]
  BY DEF EntryTypeOK, PageCalls, AskKinds

LEMMA CallMade ==
  ASSUME EntryTypeOK, NEW k \in Asks, NEW what \in AskKinds,
         NEW u \in Visitors \cup {NoVisitor}, Call(k, what, u)
  PROVE  /\ ask' \in [Asks -> PageCalls]
         /\ ask'[k].for = what /\ ask'[k].who = u /\ ask'[k].holder = Holds(u)
         /\ \A j \in Asks : j # k => ask'[j] = ask[j]
  <1> DEFINE r == [for |-> what, who |-> u, holder |-> Holds(u)]
  <1>1. r \in PageCalls /\ r.for = what /\ r.who = u /\ r.holder = Holds(u)
    BY DEF PageCalls, Holds
  <1>2. ask' = [ask EXCEPT ![k] = r]
    BY DEF Call
  <1> HIDE DEF r
  <1> QED
    BY <1>1, <1>2, AskTypes

LEMMA CallOver ==
  ASSUME EntryTypeOK, NEW k \in Asks, Over(k)
  PROVE  /\ ask' \in [Asks -> PageCalls]
         /\ ask'[k].for = "free"
         /\ \A j \in Asks : j # k => ask'[j] = ask[j]
  BY NoAskRow, AskTypes DEF Over

\* A form is fresh, or as it was, or its button is free.
FormRow == [step : {"phone", "code"}, call : Asks \cup {"none"}]

LEMMA FormMoves ==
  ASSUME EntryTypeOK
  PROVE  /\ FreshForm \in FormRow /\ FreshForm.call = "none"
         /\ login \in FormRow
         /\ \A k \in Asks : /\ [login EXCEPT !.call = k] \in FormRow
                            /\ [login EXCEPT !.call = k].call = k
         /\ [login EXCEPT !.call = "none"] \in FormRow
         /\ [login EXCEPT !.call = "none"].call = "none"
         /\ [login EXCEPT !.step = "phone"] \in FormRow
         /\ [login EXCEPT !.step = "phone"].call = login.call
         /\ [step |-> "code", call |-> "none"] \in FormRow
  <1>1. FreshForm \in FormRow /\ FreshForm.call = "none"
    BY PanelKinds DEF FreshForm, FormRow, EntryTypeOK
  <1>2. login \in FormRow
    BY DEF EntryTypeOK, FormRow
  <1> QED
    BY <1>1, <1>2 DEF FormRow

LEMMA TypesTogether ==
  ASSUME panel' \in Panels, member' \in SUBSET Visitors, been' \in SUBSET Visitors,
         route' \in {"login", "inside", "apply"}, token' \in Visitors \cup {NoVisitor},
         me' \in [who : Visitors \cup {NoVisitor}, holder : BOOLEAN],
         login' \in FormRow, ask' \in [Asks -> PageCalls],
         asked' \in BOOLEAN, leaving' \in BOOLEAN, mingled' \in BOOLEAN, hops' \in 0..MaxHops
  PROVE  EntryTypeOK'
  BY DEF EntryTypeOK, FormRow, PageCalls, AskKinds

LEMMA TypeParts ==
  ASSUME EntryTypeOK
  PROVE  /\ panel \in Panels /\ member \in SUBSET Visitors /\ been \in SUBSET Visitors
         /\ route \in {"login", "inside", "apply"} /\ token \in Visitors \cup {NoVisitor}
         /\ me \in [who : Visitors \cup {NoVisitor}, holder : BOOLEAN]
         /\ login \in FormRow /\ ask \in [Asks -> PageCalls]
         /\ asked \in BOOLEAN /\ leaving \in BOOLEAN /\ mingled \in BOOLEAN
         /\ 0 \in 0..MaxHops
  BY EntryAssumption DEF EntryTypeOK, FormRow, PageCalls, AskKinds

LEMMA EntryNextStep ==
  ASSUME EntryTypeOK, EntryKnown, EntryOwn, EntryHops, EntryForm, EntryNext
  PROVE  EntryTypeOK' /\ EntryKnown' /\ EntryOwn' /\ EntryHops' /\ EntryForm'
  <1> DEFINE EntryKeeps == EntryTypeOK' /\ EntryKnown' /\ EntryOwn' /\ EntryHops' /\ EntryForm'
  <1>1. /\ panel.guard = "login" <=> panel = AdminPanel
        /\ panel.guard = "apply" <=> panel = CourierPanel
        /\ panel.guard = "forget" <=> panel = SellerPanel
        /\ panel.peeks <=> panel = SellerPanel
        /\ AdminPanel # CourierPanel /\ AdminPanel # SellerPanel /\ CourierPanel # SellerPanel
    BY PanelKinds DEF EntryTypeOK
  <1>2. CASE EnterLogged
    <2>2. EntryTypeOK'
      BY <1>2, FormMoves, NoAskRow, EntryAssumption
         DEF EntryTypeOK, FormRow, PageCalls, AskKinds, EnterLogged, Go, Redirected
    <2>3. EntryKnown'
      BY <1>2, <1>1, NoAskRow, EntryAssumption
         DEF EntryTypeOK, EntryKnown, KeepsSellersOnly, EnterLogged, Go, Redirected
    <2>4. EntryOwn'
      BY <1>2, NoAskRow, EntryAssumption
         DEF EntryTypeOK, EntryOwn, EnterLogged, Go, Redirected
    <2>5. EntryHops'
      BY <1>2, <1>1, EntryAssumption
         DEF EntryTypeOK, EntryKnown, EntryHops, EnterLogged, Go, Redirected
    <2>6. EntryForm'
      BY <1>2, FormMoves
         DEF EntryTypeOK, EntryForm, EnterLogged, Go, Redirected
    <2> QED
      BY <2>2, <2>3, <2>4, <2>5, <2>6
  <1>3. CASE BackToPhone
    <2>2. EntryTypeOK'
      BY <1>3, FormMoves, NoAskRow, EntryAssumption
         DEF EntryTypeOK, FormRow, PageCalls, AskKinds, BackToPhone, Acted
    <2>3. EntryKnown'
      BY <1>3, <1>1, NoAskRow, EntryAssumption
         DEF EntryTypeOK, EntryKnown, KeepsSellersOnly, BackToPhone, Acted
    <2>4. EntryOwn'
      BY <1>3, NoAskRow, EntryAssumption
         DEF EntryTypeOK, EntryOwn, BackToPhone, Acted
    <2>5. EntryHops'
      BY <1>3, <1>1, EntryAssumption
         DEF EntryTypeOK, EntryKnown, EntryHops, BackToPhone, Acted
    <2>6. EntryForm'
      BY <1>3, FormMoves
         DEF EntryTypeOK, EntryForm, BackToPhone, Acted
    <2> QED
      BY <2>2, <2>3, <2>4, <2>5, <2>6
  <1>4. CASE TurnAway
    <2>2. EntryTypeOK'
      BY <1>4, FormMoves, NoAskRow, EntryAssumption
         DEF EntryTypeOK, FormRow, PageCalls, AskKinds, TurnAway, Go, Redirected
    <2>3. EntryKnown'
      BY <1>4, <1>1, NoAskRow, EntryAssumption
         DEF EntryTypeOK, EntryKnown, KeepsSellersOnly, TurnAway, Go, Redirected
    <2>4. EntryOwn'
      BY <1>4, NoAskRow, EntryAssumption
         DEF EntryTypeOK, EntryOwn, TurnAway, Go, Redirected
    <2>5. EntryHops'
      BY <1>4, <1>1, EntryAssumption
         DEF EntryTypeOK, EntryKnown, EntryHops, TurnAway, Go, Redirected
    <2>6. EntryForm'
      BY <1>4, FormMoves
         DEF EntryTypeOK, EntryForm, TurnAway, Go, Redirected
    <2> QED
      BY <2>2, <2>3, <2>4, <2>5, <2>6
  <1>5. CASE GuardApplies
    <2>2. EntryTypeOK'
      BY <1>5, FormMoves, NoAskRow, EntryAssumption
         DEF EntryTypeOK, FormRow, PageCalls, AskKinds, GuardApplies, Go, Redirected, Refuses
    <2>3. EntryKnown'
      BY <1>5, <1>1, NoAskRow, EntryAssumption
         DEF EntryTypeOK, EntryKnown, KeepsSellersOnly, GuardApplies, Go, Redirected, Refuses
    <2>4. EntryOwn'
      BY <1>5, NoAskRow, EntryAssumption
         DEF EntryTypeOK, EntryOwn, GuardApplies, Go, Redirected, Refuses
    <2>5. EntryHops'
      BY <1>5, <1>1, EntryAssumption
         DEF EntryTypeOK, EntryKnown, EntryHops, GuardApplies, Go, Redirected, Refuses
    <2>6. EntryForm'
      BY <1>5, FormMoves
         DEF EntryTypeOK, EntryForm, GuardApplies, Go, Redirected, Refuses
    <2> QED
      BY <2>2, <2>3, <2>4, <2>5, <2>6
  <1>6. CASE GuardForgets
    <2>2. EntryTypeOK'
      BY <1>6, FormMoves, NoAskRow, EntryAssumption
         DEF EntryTypeOK, FormRow, PageCalls, AskKinds, GuardForgets, Go, Clear, Redirected, Refuses, Busy
    <2>3. EntryKnown'
      BY <1>6, <1>1, NoAskRow, EntryAssumption
         DEF EntryTypeOK, EntryKnown, KeepsSellersOnly, GuardForgets, Go, Clear, Redirected, Refuses, Busy
    <2>4. EntryOwn'
      BY <1>6, NoAskRow, EntryAssumption
         DEF EntryTypeOK, EntryOwn, GuardForgets, Go, Clear, Redirected, Refuses, Busy
    <2>5. EntryHops'
      BY <1>6, <1>1, EntryAssumption
         DEF EntryTypeOK, EntryKnown, EntryHops, GuardForgets, Go, Clear, Redirected, Refuses, Busy
    <2>6. EntryForm'
      BY <1>6, FormMoves
         DEF EntryTypeOK, EntryForm, GuardForgets, Go, Clear, Redirected, Refuses, Busy
    <2> QED
      BY <2>2, <2>3, <2>4, <2>5, <2>6
  <1>7. CASE GuardReturns
    <2>2. EntryTypeOK'
      BY <1>7, FormMoves, NoAskRow, EntryAssumption
         DEF EntryTypeOK, FormRow, PageCalls, AskKinds, GuardReturns, Go, Redirected, Refuses
    <2>3. EntryKnown'
      BY <1>7, <1>1, NoAskRow, EntryAssumption
         DEF EntryTypeOK, EntryKnown, KeepsSellersOnly, GuardReturns, Go, Redirected, Refuses
    <2>4. EntryOwn'
      BY <1>7, NoAskRow, EntryAssumption
         DEF EntryTypeOK, EntryOwn, GuardReturns, Go, Redirected, Refuses
    <2>5. EntryHops'
      BY <1>7, <1>1, EntryAssumption
         DEF EntryTypeOK, EntryKnown, EntryHops, GuardReturns, Go, Redirected, Refuses
    <2>6. EntryForm'
      BY <1>7, FormMoves
         DEF EntryTypeOK, EntryForm, GuardReturns, Go, Redirected, Refuses
    <2> QED
      BY <2>2, <2>3, <2>4, <2>5, <2>6
  <1>8. CASE OnLogout
    <2>2. EntryTypeOK'
      BY <1>8, FormMoves, NoAskRow, EntryAssumption
         DEF EntryTypeOK, FormRow, PageCalls, AskKinds, OnLogout, Acted, Shows
    <2>3. EntryKnown'
      BY <1>8, <1>1, NoAskRow, EntryAssumption
         DEF EntryTypeOK, EntryKnown, KeepsSellersOnly, OnLogout, Acted, Shows
    <2>4. EntryOwn'
      BY <1>8, NoAskRow, EntryAssumption
         DEF EntryTypeOK, EntryOwn, OnLogout, Acted, Shows
    <2>5. EntryHops'
      BY <1>8, <1>1, EntryAssumption
         DEF EntryTypeOK, EntryKnown, EntryHops, OnLogout, Acted, Shows
    <2>6. EntryForm'
      BY <1>8, FormMoves
         DEF EntryTypeOK, EntryForm, OnLogout, Acted, Shows
    <2> QED
      BY <2>2, <2>3, <2>4, <2>5, <2>6
  <1>9. CASE LoggedOut
    <2>2. EntryTypeOK'
      <3>1. mingled' \in BOOLEAN /\ asked' \in BOOLEAN
        BY <1>9 DEF LoggedOut, Go, EntryTypeOK
      <3>2. login' \in FormRow /\ ask' \in [Asks -> PageCalls]
        BY <1>9, FormMoves, AskTypes DEF LoggedOut, Go
      <3> QED
        BY <1>9, <3>1, <3>2, NoAskRow, TypesTogether, TypeParts
           DEF LoggedOut, Go, Clear, Acted
    <2>3. EntryKnown'
      BY <1>9, <1>1, NoAskRow, EntryAssumption
         DEF EntryTypeOK, EntryKnown, KeepsSellersOnly, LoggedOut, Go, Clear, Acted, Busy
    <2>4. EntryOwn'
      BY <1>9, NoAskRow, EntryAssumption
         DEF EntryTypeOK, EntryOwn, LoggedOut, Go, Clear, Acted, Busy
    <2>5. EntryHops'
      BY <1>9, <1>1, EntryAssumption
         DEF EntryTypeOK, EntryKnown, EntryHops, LoggedOut, Go, Clear, Acted, Busy
    <2>6. EntryForm'
      BY <1>9, FormMoves
         DEF EntryTypeOK, EntryForm, LoggedOut, Go, Clear, Acted, Busy
    <2> QED
      BY <2>2, <2>3, <2>4, <2>5, <2>6
  <1>10. CASE ReloadTab
    <2>2. EntryTypeOK'
      <3>1. ask' \in [Asks -> PageCalls]
        BY <1>10, NoAskRow DEF ReloadTab
      <3>2. login' \in FormRow
        BY <1>10, FormMoves DEF ReloadTab
      <3> QED
        BY <1>10, <3>1, <3>2, TypesTogether, TypeParts DEF ReloadTab, Acted
    <2>3. EntryKnown'
      BY <1>10, <1>1, NoAskRow, EntryAssumption
         DEF EntryTypeOK, EntryKnown, KeepsSellersOnly, ReloadTab, Acted
    <2>4. EntryOwn'
      BY <1>10, NoAskRow, EntryAssumption
         DEF EntryTypeOK, EntryOwn, ReloadTab, Acted
    <2>5. EntryHops'
      BY <1>10, <1>1, EntryAssumption
         DEF EntryTypeOK, EntryKnown, EntryHops, ReloadTab, Acted
    <2>6. EntryForm'
      BY <1>10, FormMoves
         DEF EntryTypeOK, EntryForm, ReloadTab, Acted
    <2> QED
      BY <2>2, <2>3, <2>4, <2>5, <2>6
  <1>11. ASSUME NEW k \in Asks, RequestOtp(k)
        PROVE  EntryKeeps
    <2>1. /\ ask' \in [Asks -> PageCalls]
          /\ ask'[k].for = "code" /\ ask'[k].who = NoVisitor /\ ask'[k].holder = Holds(NoVisitor)
          /\ \A j \in Asks : j # k => ask'[j] = ask[j]
      <3>1. NoVisitor \in Visitors \cup {NoVisitor} /\ "code" \in AskKinds
        BY DEF EntryTypeOK, AskKinds
      <3> QED
        BY <1>11, <3>1, CallMade DEF RequestOtp
    <2>2. EntryTypeOK'
      BY <1>11, <2>1, FormMoves, NoAskRow, EntryAssumption
         DEF EntryTypeOK, FormRow, PageCalls, AskKinds, RequestOtp, Acted, OnForm, Busy
    <2>3. EntryKnown'
      BY <1>11, <2>1, <1>1, NoAskRow, EntryAssumption
         DEF EntryTypeOK, EntryKnown, KeepsSellersOnly, RequestOtp, Acted, OnForm, Busy
    <2>4. EntryOwn'
      BY <1>11, <2>1, NoAskRow, EntryAssumption
         DEF EntryTypeOK, EntryOwn, RequestOtp, Acted, OnForm, Busy
    <2>5. EntryHops'
      BY <1>11, <1>1, EntryAssumption
         DEF EntryTypeOK, EntryKnown, EntryHops, RequestOtp, Acted, OnForm, Busy
    <2>6. EntryForm'
      BY <1>11, <2>1, FormMoves
         DEF EntryTypeOK, EntryForm, RequestOtp, Acted, OnForm, Busy
    <2> QED
      BY <2>2, <2>3, <2>4, <2>5, <2>6
  <1>12. ASSUME NEW k \in Asks, CodeSent(k)
        PROVE  EntryKeeps
    <2>1. /\ ask' \in [Asks -> PageCalls] /\ ask'[k].for = "free"
          /\ \A j \in Asks : j # k => ask'[j] = ask[j]
      BY <1>12, CallOver DEF CodeSent
    <2>2. EntryTypeOK'
      BY <1>12, <2>1, FormMoves, NoAskRow, EntryAssumption
         DEF EntryTypeOK, FormRow, PageCalls, AskKinds, CodeSent, Acted
    <2>3. EntryKnown'
      BY <1>12, <2>1, <1>1, NoAskRow, EntryAssumption
         DEF EntryTypeOK, EntryKnown, KeepsSellersOnly, CodeSent, Acted
    <2>4. EntryOwn'
      BY <1>12, <2>1, NoAskRow, EntryAssumption
         DEF EntryTypeOK, EntryOwn, CodeSent, Acted
    <2>5. EntryHops'
      BY <1>12, <1>1, EntryAssumption
         DEF EntryTypeOK, EntryKnown, EntryHops, CodeSent, Acted
    <2>6. EntryForm'
      BY <1>12, <2>1, FormMoves
         DEF EntryTypeOK, EntryForm, CodeSent, Acted
    <2> QED
      BY <2>2, <2>3, <2>4, <2>5, <2>6
  <1>13. ASSUME NEW k \in Asks, VerifyOtp(k)
        PROVE  EntryKeeps
    <2>1. /\ ask' \in [Asks -> PageCalls]
          /\ ask'[k].for = "verify" /\ ask'[k].who = NoVisitor /\ ask'[k].holder = Holds(NoVisitor)
          /\ \A j \in Asks : j # k => ask'[j] = ask[j]
      <3>1. NoVisitor \in Visitors \cup {NoVisitor} /\ "verify" \in AskKinds
        BY DEF EntryTypeOK, AskKinds
      <3> QED
        BY <1>13, <3>1, CallMade DEF VerifyOtp
    <2>2. EntryTypeOK'
      BY <1>13, <2>1, FormMoves, NoAskRow, EntryAssumption
         DEF EntryTypeOK, FormRow, PageCalls, AskKinds, VerifyOtp, Acted, OnForm, Busy
    <2>3. EntryKnown'
      BY <1>13, <2>1, <1>1, NoAskRow, EntryAssumption
         DEF EntryTypeOK, EntryKnown, KeepsSellersOnly, VerifyOtp, Acted, OnForm, Busy
    <2>4. EntryOwn'
      BY <1>13, <2>1, NoAskRow, EntryAssumption
         DEF EntryTypeOK, EntryOwn, VerifyOtp, Acted, OnForm, Busy
    <2>5. EntryHops'
      BY <1>13, <1>1, EntryAssumption
         DEF EntryTypeOK, EntryKnown, EntryHops, VerifyOtp, Acted, OnForm, Busy
    <2>6. EntryForm'
      BY <1>13, <2>1, FormMoves
         DEF EntryTypeOK, EntryForm, VerifyOtp, Acted, OnForm, Busy
    <2> QED
      BY <2>2, <2>3, <2>4, <2>5, <2>6
  <1>14. ASSUME NEW k \in Asks, MiniApp(k)
        PROVE  EntryKeeps
    <2>1. /\ ask' \in [Asks -> PageCalls]
          /\ ask'[k].for = "telegram" /\ ask'[k].who = NoVisitor /\ ask'[k].holder = Holds(NoVisitor)
          /\ \A j \in Asks : j # k => ask'[j] = ask[j]
      <3>1. NoVisitor \in Visitors \cup {NoVisitor} /\ "telegram" \in AskKinds
        BY DEF EntryTypeOK, AskKinds
      <3> QED
        BY <1>14, <3>1, CallMade DEF MiniApp
    <2>2. EntryTypeOK'
      BY <1>14, <2>1, FormMoves, NoAskRow, EntryAssumption
         DEF EntryTypeOK, FormRow, PageCalls, AskKinds, MiniApp, Acted, OnForm, Busy
    <2>3. EntryKnown'
      BY <1>14, <2>1, <1>1, NoAskRow, EntryAssumption
         DEF EntryTypeOK, EntryKnown, KeepsSellersOnly, MiniApp, Acted, OnForm, Busy
    <2>4. EntryOwn'
      BY <1>14, <2>1, NoAskRow, EntryAssumption
         DEF EntryTypeOK, EntryOwn, MiniApp, Acted, OnForm, Busy
    <2>5. EntryHops'
      BY <1>14, <1>1, EntryAssumption
         DEF EntryTypeOK, EntryKnown, EntryHops, MiniApp, Acted, OnForm, Busy
    <2>6. EntryForm'
      BY <1>14, <2>1, FormMoves
         DEF EntryTypeOK, EntryForm, MiniApp, Acted, OnForm, Busy
    <2> QED
      BY <2>2, <2>3, <2>4, <2>5, <2>6
  <1>15. ASSUME NEW k \in Asks, PeekAnswered(k)
        PROVE  EntryKeeps
    <2>1. /\ ask' \in [Asks -> PageCalls] /\ ask'[k].for = "free"
          /\ \A j \in Asks : j # k => ask'[j] = ask[j]
      BY <1>15, CallOver DEF PeekAnswered
    <2>7. /\ ask[k].for = "peek" /\ ask[k].who \in Visitors \cup {NoVisitor}
          /\ ask[k].holder \in BOOLEAN
      BY <1>15, AskTypes DEF PeekAnswered, PageCalls
    <2> DEFINE m == [who |-> ask[k].who, holder |-> TRUE]
    <2>8. /\ m \in [who : Visitors \cup {NoVisitor}, holder : BOOLEAN]
          /\ m.who = ask[k].who /\ m.holder
      BY <2>7
    <2>9. /\ UNCHANGED <<panel, member, been, leaving>> /\ hops' = 0
          /\ \/ /\ ask[k].holder /\ token' = ask[k].who /\ me' = m
                /\ route' = "inside" /\ asked' = FALSE /\ login' = FreshForm
                /\ mingled' = (mingled \/ \E j \in Asks \ {k} : Busy(j))
             \/ Hangs(k) /\ UNCHANGED <<token, me, route, asked, mingled>>
      BY <1>15, <2>7 DEF PeekAnswered, Crosses, Acted
    <2> HIDE DEF m
    <2>2. EntryTypeOK'
      <3>1. mingled' \in BOOLEAN
        BY <2>9 DEF EntryTypeOK
      <3>2. login' \in FormRow
        BY <2>9, FormMoves DEF Hangs
      <3> QED
        BY <2>1, <2>7, <2>8, <2>9, <3>1, <3>2, TypesTogether, TypeParts
    <2>3. EntryKnown'
      <3>1. /\ UNCHANGED <<panel, member, been>> /\ (route' = route \/ route' = "inside")
            /\ panel = SellerPanel => token' \in {token, ask[k].who}
            /\ token' = token \/ token' = ask[k].who
            /\ me' = me \/ me' = m
            /\ token' # token => ask[k].holder
        BY <2>9
      <3>2. panel = SellerPanel
        BY <2>7 DEF EntryKnown
      <3> QED
        BY <2>1, <2>7, <2>8, <2>9, <1>1, <3>1, <3>2 DEF EntryKnown, KeepsSellersOnly
    <2>4. EntryOwn'
      BY <2>1, <2>7, <2>8, <2>9, EntryAssumption DEF EntryTypeOK, EntryKnown, EntryOwn, Busy
    <2>5. EntryHops'
      BY <1>15, <1>1, EntryAssumption
         DEF EntryTypeOK, EntryKnown, EntryHops, PeekAnswered, Hangs, Crosses, Acted, Busy
    <2>6. EntryForm'
      BY <1>15, <2>1, FormMoves
         DEF EntryTypeOK, EntryForm, PeekAnswered, Hangs, Crosses, Acted, Busy
    <2> QED
      BY <2>2, <2>3, <2>4, <2>5, <2>6
  <1>16. ASSUME NEW k \in Asks, LoginAnswered(k)
        PROVE  EntryKeeps
    <2>1. /\ ask' \in [Asks -> PageCalls] /\ ask'[k].for = "free"
          /\ \A j \in Asks : j # k => ask'[j] = ask[j]
      BY <1>16, CallOver DEF LoginAnswered
    <2>2. EntryTypeOK'
      BY <1>16, <2>1, FormMoves, NoAskRow, EntryAssumption
         DEF EntryTypeOK, FormRow, PageCalls, AskKinds, LoginAnswered, Go, Acted
    <2>3. EntryKnown'
      BY <1>16, <2>1, <1>1, NoAskRow, EntryAssumption
         DEF EntryTypeOK, EntryKnown, KeepsSellersOnly, LoginAnswered, Go, Acted
    <2>4. EntryOwn'
      BY <1>16, <2>1, NoAskRow, EntryAssumption
         DEF EntryTypeOK, EntryOwn, LoginAnswered, Go, Acted
    <2>5. EntryHops'
      BY <1>16, <1>1, EntryAssumption
         DEF EntryTypeOK, EntryKnown, EntryHops, LoginAnswered, Go, Acted
    <2>6. EntryForm'
      BY <1>16, <2>1, FormMoves
         DEF EntryTypeOK, EntryForm, LoginAnswered, Go, Acted
    <2> QED
      BY <2>2, <2>3, <2>4, <2>5, <2>6
  <1>17. ASSUME NEW k \in Asks, LoginFails(k)
        PROVE  EntryKeeps
    <2>1. /\ ask' \in [Asks -> PageCalls] /\ ask'[k].for = "free"
          /\ \A j \in Asks : j # k => ask'[j] = ask[j]
      BY <1>17, CallOver DEF LoginFails
    <2>2. EntryTypeOK'
      BY <1>17, <2>1, FormMoves, NoAskRow, EntryAssumption
         DEF EntryTypeOK, FormRow, PageCalls, AskKinds, LoginFails, Hangs, Acted
    <2>3. EntryKnown'
      BY <1>17, <2>1, <1>1, NoAskRow, EntryAssumption
         DEF EntryTypeOK, EntryKnown, KeepsSellersOnly, LoginFails, Hangs, Acted
    <2>4. EntryOwn'
      BY <1>17, <2>1, NoAskRow, EntryAssumption
         DEF EntryTypeOK, EntryOwn, LoginFails, Hangs, Acted
    <2>5. EntryHops'
      BY <1>17, <1>1, EntryAssumption
         DEF EntryTypeOK, EntryKnown, EntryHops, LoginFails, Hangs, Acted
    <2>6. EntryForm'
      BY <1>17, <2>1, FormMoves
         DEF EntryTypeOK, EntryForm, LoginFails, Hangs, Acted
    <2> QED
      BY <2>2, <2>3, <2>4, <2>5, <2>6
  <1>18. ASSUME NEW k \in Asks, AskMe(k)
        PROVE  EntryKeeps
    <2>1. /\ ask' \in [Asks -> PageCalls]
          /\ ask'[k].for = "boundary" /\ ask'[k].who = token /\ ask'[k].holder = Holds(token)
          /\ \A j \in Asks : j # k => ask'[j] = ask[j]
      <3>1. token \in Visitors \cup {NoVisitor} /\ "boundary" \in AskKinds
        BY DEF EntryTypeOK, AskKinds
      <3> QED
        BY <1>18, <3>1, CallMade DEF AskMe
    <2>2. EntryTypeOK'
      BY <1>18, <2>1, FormMoves, NoAskRow, EntryAssumption
         DEF EntryTypeOK, FormRow, PageCalls, AskKinds, AskMe, Busy
    <2>3. EntryKnown'
      BY <1>18, <2>1, <1>1, NoAskRow, EntryAssumption
         DEF EntryTypeOK, EntryKnown, KeepsSellersOnly, AskMe, Busy, Holds
    <2>4. EntryOwn'
      BY <1>18, <2>1, NoAskRow, EntryAssumption
         DEF EntryTypeOK, EntryOwn, AskMe, Busy
    <2>5. EntryHops'
      BY <1>18, <1>1, EntryAssumption
         DEF EntryTypeOK, EntryKnown, EntryHops, AskMe, Busy
    <2>6. EntryForm'
      BY <1>18, <2>1, FormMoves
         DEF EntryTypeOK, EntryForm, AskMe, Busy
    <2> QED
      BY <2>2, <2>3, <2>4, <2>5, <2>6
  <1>19. ASSUME NEW k \in Asks, MeAnswered(k)
        PROVE  EntryKeeps
    <2>1. /\ ask' \in [Asks -> PageCalls] /\ ask'[k].for = "free"
          /\ \A j \in Asks : j # k => ask'[j] = ask[j]
      BY <1>19, CallOver DEF MeAnswered
    <2>2. EntryTypeOK'
      BY <1>19, <2>1, FormMoves, NoAskRow, EntryAssumption
         DEF EntryTypeOK, FormRow, PageCalls, AskKinds, MeAnswered, Go, Stay, Acted
    <2>3. EntryKnown'
      BY <1>19, <2>1, <1>1, NoAskRow, EntryAssumption
         DEF EntryTypeOK, EntryKnown, KeepsSellersOnly, MeAnswered, Go, Stay, Acted
    <2>4. EntryOwn'
      BY <1>19, <2>1, NoAskRow, EntryAssumption
         DEF EntryTypeOK, EntryOwn, MeAnswered, Go, Stay, Acted
    <2>5. EntryHops'
      BY <1>19, <1>1, EntryAssumption
         DEF EntryTypeOK, EntryKnown, EntryHops, MeAnswered, Go, Stay, Acted
    <2>6. EntryForm'
      BY <1>19, <2>1, FormMoves
         DEF EntryTypeOK, EntryForm, MeAnswered, Go, Stay, Acted
    <2> QED
      BY <2>2, <2>3, <2>4, <2>5, <2>6
  <1>20. ASSUME NEW k \in Asks, MeFails(k)
        PROVE  EntryKeeps
    <2>1. /\ ask' \in [Asks -> PageCalls] /\ ask'[k].for = "free"
          /\ \A j \in Asks : j # k => ask'[j] = ask[j]
      BY <1>20, CallOver DEF MeFails
    <2>2. EntryTypeOK'
      BY <1>20, <2>1, FormMoves, NoAskRow, EntryAssumption
         DEF EntryTypeOK, FormRow, PageCalls, AskKinds, MeFails, Go, Clear, Crosses, Acted, Busy
    <2>3. EntryKnown'
      BY <1>20, <2>1, <1>1, NoAskRow, EntryAssumption
         DEF EntryTypeOK, EntryKnown, KeepsSellersOnly, MeFails, Go, Clear, Crosses, Acted, Busy
    <2>4. EntryOwn'
      BY <1>20, <2>1, NoAskRow, EntryAssumption
         DEF EntryTypeOK, EntryOwn, MeFails, Go, Clear, Crosses, Acted, Busy
    <2>5. EntryHops'
      BY <1>20, <1>1, EntryAssumption
         DEF EntryTypeOK, EntryKnown, EntryHops, MeFails, Go, Clear, Crosses, Acted, Busy
    <2>6. EntryForm'
      BY <1>20, <2>1, FormMoves
         DEF EntryTypeOK, EntryForm, MeFails, Go, Clear, Crosses, Acted, Busy
    <2> QED
      BY <2>2, <2>3, <2>4, <2>5, <2>6
  <1>21. ASSUME NEW k \in Asks, AskOnboarding(k)
        PROVE  EntryKeeps
    <2>1. /\ ask' \in [Asks -> PageCalls]
          /\ ask'[k].for = "onboarding" /\ ask'[k].who = token /\ ask'[k].holder = Holds(token)
          /\ \A j \in Asks : j # k => ask'[j] = ask[j]
      <3>1. token \in Visitors \cup {NoVisitor} /\ "onboarding" \in AskKinds
        BY DEF EntryTypeOK, AskKinds
      <3> QED
        BY <1>21, <3>1, CallMade DEF AskOnboarding
    <2>2. EntryTypeOK'
      BY <1>21, <2>1, FormMoves, NoAskRow, EntryAssumption
         DEF EntryTypeOK, FormRow, PageCalls, AskKinds, AskOnboarding, Busy
    <2>3. EntryKnown'
      BY <1>21, <2>1, <1>1, NoAskRow, EntryAssumption
         DEF EntryTypeOK, EntryKnown, KeepsSellersOnly, AskOnboarding, Busy
    <2>4. EntryOwn'
      BY <1>21, <2>1, NoAskRow, EntryAssumption
         DEF EntryTypeOK, EntryOwn, AskOnboarding, Busy
    <2>5. EntryHops'
      BY <1>21, <1>1, EntryAssumption
         DEF EntryTypeOK, EntryKnown, EntryHops, AskOnboarding, Busy
    <2>6. EntryForm'
      BY <1>21, <2>1, FormMoves
         DEF EntryTypeOK, EntryForm, AskOnboarding, Busy
    <2> QED
      BY <2>2, <2>3, <2>4, <2>5, <2>6
  <1>22. ASSUME NEW k \in Asks, OnboardingAnswered(k)
        PROVE  EntryKeeps
    <2>1. /\ ask' \in [Asks -> PageCalls]
          /\ \/ ask'[k].for = "free"
             \/ ask'[k].for = "apply" /\ ask'[k].who = token
          /\ \A j \in Asks : j # k => ask'[j] = ask[j]
      <3>1. token \in Visitors \cup {NoVisitor} /\ "apply" \in AskKinds
        BY DEF EntryTypeOK, AskKinds
      <3> QED
        BY <1>22, <3>1, CallOver, CallMade DEF OnboardingAnswered
    <2>2. EntryTypeOK'
      BY <1>22, <2>1, FormMoves, NoAskRow, EntryAssumption
         DEF EntryTypeOK, FormRow, PageCalls, AskKinds, OnboardingAnswered, Acted
    <2>3. EntryKnown'
      BY <1>22, <2>1, <1>1, NoAskRow, EntryAssumption
         DEF EntryTypeOK, EntryKnown, KeepsSellersOnly, OnboardingAnswered, Acted
    <2>4. EntryOwn'
      BY <1>22, <2>1, NoAskRow, EntryAssumption
         DEF EntryTypeOK, EntryOwn, OnboardingAnswered, Acted
    <2>5. EntryHops'
      BY <1>22, <1>1, EntryAssumption
         DEF EntryTypeOK, EntryKnown, EntryHops, OnboardingAnswered, Acted
    <2>6. EntryForm'
      BY <1>22, <2>1, FormMoves
         DEF EntryTypeOK, EntryForm, OnboardingAnswered, Acted
    <2> QED
      BY <2>2, <2>3, <2>4, <2>5, <2>6
  <1>23. ASSUME NEW k \in Asks, ApprovedEnters(k)
        PROVE  EntryKeeps
    <2>1. /\ ask' \in [Asks -> PageCalls] /\ ask'[k].for = "free"
          /\ \A j \in Asks : j # k => ask'[j] = ask[j]
      BY <1>23, CallOver DEF ApprovedEnters
    <2>2. EntryTypeOK'
      BY <1>23, <2>1, FormMoves, NoAskRow, EntryAssumption
         DEF EntryTypeOK, FormRow, PageCalls, AskKinds, ApprovedEnters, Go, Acted
    <2>3. EntryKnown'
      BY <1>23, <2>1, <1>1, NoAskRow, EntryAssumption
         DEF EntryTypeOK, EntryKnown, KeepsSellersOnly, ApprovedEnters, Go, Acted
    <2>4. EntryOwn'
      BY <1>23, <2>1, NoAskRow, EntryAssumption
         DEF EntryTypeOK, EntryOwn, ApprovedEnters, Go, Acted
    <2>5. EntryHops'
      BY <1>23, <1>1, EntryAssumption
         DEF EntryTypeOK, EntryKnown, EntryHops, ApprovedEnters, Go, Acted
    <2>6. EntryForm'
      BY <1>23, <2>1, FormMoves
         DEF EntryTypeOK, EntryForm, ApprovedEnters, Go, Acted
    <2> QED
      BY <2>2, <2>3, <2>4, <2>5, <2>6
  <1>24. ASSUME NEW k \in Asks, OnboardingFails(k)
        PROVE  EntryKeeps
    <2>1. /\ ask' \in [Asks -> PageCalls] /\ ask'[k].for = "free"
          /\ \A j \in Asks : j # k => ask'[j] = ask[j]
      BY <1>24, CallOver DEF OnboardingFails
    <2>2. EntryTypeOK'
      BY <1>24, <2>1, FormMoves, NoAskRow, EntryAssumption
         DEF EntryTypeOK, FormRow, PageCalls, AskKinds, OnboardingFails, Acted
    <2>3. EntryKnown'
      BY <1>24, <2>1, <1>1, NoAskRow, EntryAssumption
         DEF EntryTypeOK, EntryKnown, KeepsSellersOnly, OnboardingFails, Acted
    <2>4. EntryOwn'
      BY <1>24, <2>1, NoAskRow, EntryAssumption
         DEF EntryTypeOK, EntryOwn, OnboardingFails, Acted
    <2>5. EntryHops'
      BY <1>24, <1>1, EntryAssumption
         DEF EntryTypeOK, EntryKnown, EntryHops, OnboardingFails, Acted
    <2>6. EntryForm'
      BY <1>24, <2>1, FormMoves
         DEF EntryTypeOK, EntryForm, OnboardingFails, Acted
    <2> QED
      BY <2>2, <2>3, <2>4, <2>5, <2>6
  <1>25. ASSUME NEW k \in Asks, NEW u \in Visitors, StoreThenRead(k, u)
        PROVE  EntryKeeps
    <2>1. /\ ask' \in [Asks -> PageCalls]
          /\ ask'[k].for = "read" /\ ask'[k].who = u /\ ask'[k].holder = Holds(u)
          /\ \A j \in Asks : j # k => ask'[j] = ask[j]
      <3>1. u \in Visitors \cup {NoVisitor} /\ "read" \in AskKinds
        BY DEF EntryTypeOK, AskKinds
      <3> QED
        BY <1>25, <3>1, CallMade DEF StoreThenRead
    <2>2. EntryTypeOK'
      <3>1. mingled' \in BOOLEAN /\ token' \in Visitors /\ asked' \in BOOLEAN
        BY <1>25 DEF StoreThenRead, Crosses, SetTokens, EntryTypeOK
      <3> QED
        BY <1>25, <2>1, <3>1, EntryAssumption DEF EntryTypeOK, FormRow, PageCalls, AskKinds, StoreThenRead, Acted
    <2>3. EntryKnown'
      BY <1>25, <2>1, <1>1, NoAskRow, EntryAssumption
         DEF EntryTypeOK, EntryKnown, KeepsSellersOnly, StoreThenRead, Crosses, Acted, SetTokens, Holds, Busy
    <2>4. EntryOwn'
      BY <1>25, <2>1, NoAskRow, EntryAssumption
         DEF EntryTypeOK, EntryOwn, StoreThenRead, Crosses, Acted, SetTokens, Holds, Busy
    <2>5. EntryHops'
      BY <1>25, <1>1, EntryAssumption
         DEF EntryTypeOK, EntryKnown, EntryHops, StoreThenRead, Crosses, Acted, SetTokens, Holds, Busy
    <2>6. EntryForm'
      BY <1>25, <2>1, FormMoves
         DEF EntryTypeOK, EntryForm, StoreThenRead, Crosses, Acted, SetTokens, Holds, Busy
    <2> QED
      BY <2>2, <2>3, <2>4, <2>5, <2>6
  <1>26. ASSUME NEW k \in Asks, NEW u \in Visitors, ReadThenStore(k, u)
        PROVE  EntryKeeps
    <2>1. /\ ask' \in [Asks -> PageCalls]
          /\ ask'[k].for = "peek" /\ ask'[k].who = u /\ ask'[k].holder = Holds(u)
          /\ \A j \in Asks : j # k => ask'[j] = ask[j]
      <3>1. u \in Visitors \cup {NoVisitor} /\ "peek" \in AskKinds
        BY DEF EntryTypeOK, AskKinds
      <3> QED
        BY <1>26, <3>1, CallMade DEF ReadThenStore
    <2>2. EntryTypeOK'
      BY <1>26, <2>1, FormMoves, NoAskRow, EntryAssumption
         DEF EntryTypeOK, FormRow, PageCalls, AskKinds, ReadThenStore, Acted
    <2>3. EntryKnown'
      BY <1>26, <2>1, <1>1, NoAskRow, EntryAssumption
         DEF EntryTypeOK, EntryKnown, KeepsSellersOnly, ReadThenStore, Acted, Holds
    <2>4. EntryOwn'
      BY <1>26, <2>1, NoAskRow, EntryAssumption
         DEF EntryTypeOK, EntryOwn, ReadThenStore, Acted
    <2>5. EntryHops'
      BY <1>26, <1>1, EntryAssumption
         DEF EntryTypeOK, EntryKnown, EntryHops, ReadThenStore, Acted
    <2>6. EntryForm'
      BY <1>26, <2>1, FormMoves
         DEF EntryTypeOK, EntryForm, ReadThenStore, Acted
    <2> QED
      BY <2>2, <2>3, <2>4, <2>5, <2>6
  <1>27. ASSUME NEW u \in Visitors, GivePanelRole(u)
        PROVE  EntryKeeps
    <2>2. EntryTypeOK'
      BY <1>27, FormMoves, NoAskRow, EntryAssumption
         DEF EntryTypeOK, FormRow, PageCalls, AskKinds, GivePanelRole, Acted
    <2>3. EntryKnown'
      BY <1>27, <1>1, NoAskRow, EntryAssumption
         DEF EntryTypeOK, EntryKnown, KeepsSellersOnly, GivePanelRole, Acted
    <2>4. EntryOwn'
      BY <1>27, NoAskRow, EntryAssumption
         DEF EntryTypeOK, EntryOwn, GivePanelRole, Acted
    <2>5. EntryHops'
      BY <1>27, <1>1, EntryAssumption
         DEF EntryTypeOK, EntryKnown, EntryHops, GivePanelRole, Acted
    <2>6. EntryForm'
      BY <1>27, FormMoves
         DEF EntryTypeOK, EntryForm, GivePanelRole, Acted
    <2> QED
      BY <2>2, <2>3, <2>4, <2>5, <2>6
  <1> QED
    BY <1>2, <1>3, <1>4, <1>5, <1>6, <1>7, <1>8, <1>9, <1>10, <1>11, <1>12, <1>13, <1>14, <1>15, <1>16, <1>17, <1>18, <1>19, <1>20, <1>21, <1>22, <1>23, <1>24, <1>25, <1>26, <1>27
       DEF EntryNext

LEMMA EntryStart == EntryInit => EntryInv
  <1> SUFFICES ASSUME EntryInit PROVE EntryInv
    OBVIOUS
  <1>1. \A k \in Asks : ask[k] = NoAsk /\ ask[k].for = "free"
    BY NoAskRow DEF EntryInit
  <1>2. ask \in [Asks -> PageCalls]
    BY NoAskRow DEF EntryInit
  <1>3. login \in FormRow /\ login.call = "none"
    <2>1. panel.form \in {"phone", "code"}
      BY PanelKinds DEF EntryInit
    <2> QED
      BY <2>1 DEF EntryInit, FreshForm, FormRow
  <1>4. EntryTypeOK
    <2>1. me \in [who : Visitors \cup {NoVisitor}, holder : BOOLEAN]
      BY NoAskRow, Zenon DEF EntryInit
    <2>2. hops \in 0..MaxHops
      BY EntryAssumption DEF EntryInit
    <2>3. /\ panel \in Panels /\ member \in SUBSET Visitors /\ been \in SUBSET Visitors
          /\ route \in {"login", "inside", "apply"} /\ token \in Visitors \cup {NoVisitor}
          /\ asked \in BOOLEAN /\ leaving \in BOOLEAN /\ mingled \in BOOLEAN
      BY DEF EntryInit
    <2> QED
      BY <1>2, <1>3, <2>1, <2>2, <2>3 DEF EntryTypeOK, FormRow, PageCalls, AskKinds
  <1>5. EntryKnown /\ EntryOwn
    BY <1>1 DEF EntryKnown, EntryOwn, KeepsSellersOnly, EntryInit
  <1>6. EntryHops /\ EntryForm
    BY <1>3 DEF EntryHops, EntryForm, EntryInit
  <1> QED
    BY <1>4, <1>5, <1>6 DEF EntryInv

LEMMA EntryStep == EntryInv /\ [EntryNext]_entryVars => EntryInv'
  <1> SUFFICES ASSUME EntryInv, [EntryNext]_entryVars PROVE EntryInv'
    OBVIOUS
  <1>1. CASE EntryNext
    BY <1>1, EntryNextStep DEF EntryInv
  <1>2. CASE UNCHANGED entryVars
    BY <1>2 DEF entryVars, EntryInv, EntryTypeOK, EntryKnown, KeepsSellersOnly, EntryOwn,
                EntryHops, EntryForm
  <1> QED
    BY <1>1, <1>2

LEMMA EntryTrue ==
  EntryInv => EntryTypeOK /\ KeepsSellersOnly /\ NoCircles /\ FormsSettle /\ ShowsTheirOwn
  <1> SUFFICES ASSUME EntryInv
               PROVE  /\ EntryTypeOK /\ KeepsSellersOnly /\ NoCircles /\ FormsSettle
                      /\ ShowsTheirOwn
    OBVIOUS
  <1>1. ShowsTheirOwn
    BY DEF EntryInv, EntryOwn, ShowsTheirOwn
  <1>2. NoCircles
    BY EntryAssumption DEF EntryInv, EntryTypeOK, EntryHops, NoCircles
  <1>3. FormsSettle
    BY DEF EntryInv, EntryForm, FormsSettle, Busy
  <1> QED
    BY <1>1, <1>2, <1>3 DEF EntryInv, EntryKnown

\* In whatever order logins, answers and logouts come, the seller's panel keeps
\* the tokens of people who sold at some time only, redirects come to an end and
\* no button waits for nothing (Entry.KeepsSellersOnly, NoCircles, FormsSettle).
\* A panel works for the person whose tokens it holds if no session began or
\* ended with a call of another in flight (Entry.ShowsTheirOwn).
THEOREM PeopleGetInAndOut ==
  EntrySpec => [](KeepsSellersOnly /\ NoCircles /\ FormsSettle /\ ShowsTheirOwn)
  BY EntryStart, EntryStep, EntryTrue, PTL DEF EntrySpec

-----------------------------------------------------------------------------
(* Forms: locks, typed text and the rows a form shows.                     *)

Both == {Groups, {"more"}}

\* What sets the forms apart, as far as the proofs go.
Shape(s) ==
  /\ {s.blank, s.enter, s.modal, s.flips} \subseteq BOOLEAN
  /\ s.buttons \in {Whole, InParts, Both}
  /\ s.modal => s.then = "closes"
  /\ s.fills = "loaded" => ~s.blank /\ s.then \in {"answer", "rereads"}
  /\ s.then = "rereads" => s.fills = "loaded"
  /\ s.then = "answer" => (s.flips <=> s.fills = "loaded")
  /\ s.flips => s.then = "answer" /\ s.buttons = Both
  /\ s.buttons = Both => s.flips

LEMMA ButtonSets == Whole # InParts /\ Whole # Both /\ InParts # Both
  <1>1. Groups \in Whole /\ Groups \in Both /\ {"more"} \in Both
    BY DEF Whole, Both
  <1>2. Groups # {"more"} /\ Groups # {"words"}
    BY DEF Groups
  <1>3. Groups \notin InParts
    BY <1>2 DEF InParts
  <1>4. {"more"} \notin Whole
    BY <1>2 DEF Whole
  <1> QED
    BY <1>1, <1>3, <1>4

LEMMA FormShapes == \A s \in FormKinds : Shape(s)
  <1>1. Shape(Modal) /\ Shape(Blanks) /\ Shape(BlockUserModal)
    BY ButtonSets DEF Shape, Modal, Blanks, BlockUserModal
  <1>2. Shape(EditCategoryModal) /\ Shape(AttachAttributeModal)
    BY ButtonSets DEF Shape, Modal, Blanks, EditCategoryModal, AttachAttributeModal
  <1>3. Shape(OnPage) /\ Shape(ContractPaymentEditor) /\ Shape(StoreForm)
    BY ButtonSets DEF Shape, Modal, OnPage, ContractPaymentEditor, StoreForm
  <1>4. Shape(NewProductPage) /\ Shape(SendNotificationForm)
    BY ButtonSets DEF Shape, Modal, OnPage, NewProductPage, SendNotificationForm
  <1>5. Shape(ApplyForm)
    BY ButtonSets DEF Shape, Modal, OnPage, ApplyForm
  <1>6. Shape(CourierProfileForm)
    <2> DEFINE s == CourierProfileForm
    <2>1. /\ s.blank = FALSE /\ s.enter = FALSE /\ s.modal = FALSE /\ s.flips = TRUE
          /\ s.fills = "loaded" /\ s.then = "answer"
      BY ButtonSets DEF Modal, OnPage, CourierProfileForm
    <2>2. s.buttons = Both
      BY Zenon DEF Both, Modal, OnPage, CourierProfileForm
    <2> HIDE DEF s
    <2>3. Shape(s)
      BY <2>1, <2>2, ButtonSets DEF Shape
    <2> QED
      BY <2>3 DEF s
  <1>7. Shape(SellerProductForms)
    BY ButtonSets DEF Shape, Modal, OnPage, SellerProductForms
  <1> QED
    BY <1>1, <1>2, <1>3, <1>4, <1>5, <1>6, <1>7, Zenon
       DEF FormKinds, BrandEditModal, ValueModal, RoleFormModal, AssignRoleModal,
           CreateAttributeModal, CreateCategoryModal, AddressForm

LEMMA StoreFormShape == StoreForm.then = "answer" /\ ~StoreForm.flips
  BY DEF StoreForm, OnPage, Modal

LEMMA Parts ==
  ASSUME NEW s, Shape(s), NEW b \in s.buttons
  PROVE  /\ b \in SUBSET Groups
         /\ s.buttons # InParts => b = Groups \/ (s.flips /\ b = {"more"})
         /\ s.flips => "more" \in b
  <1> USE ButtonSets
  <1>1. CASE s.buttons = Whole
    <2>1. b = Groups
      BY <1>1 DEF Whole
    <2> QED
      BY <1>1, <2>1 DEF Shape
  <1>2. CASE s.buttons = InParts
    <2>1. b \in SUBSET Groups
      BY <1>2 DEF InParts, Groups
    <2> QED
      BY <1>2, <2>1 DEF Shape
  <1>3. CASE s.buttons = Both
    <2>1. b = Groups \/ b = {"more"}
      BY <1>3 DEF Both
    <2>2. "more" \in Groups /\ {"more"} \in SUBSET Groups
      BY DEF Groups
    <2> QED
      BY <1>3, <2>1, <2>2 DEF Shape
  <1> QED
    BY <1>1, <1>2, <1>3 DEF Shape

LEMMA ButtonSome ==
  ASSUME NEW s, Shape(s), NEW b \in s.buttons
  PROVE  b # {}
  <1>1. Groups # {}
    BY DEF Groups
  <1> QED
    BY <1>1 DEF Shape, Whole, InParts, Both

\* A button that is locked from its press to the end of its call.
Single(b) == ~sheet.enter /\ ~(sheet.buttons = InParts /\ b = {"more"})

FormTypes ==
  /\ FormTypeOK
  /\ \A c \in Saves : IF Open(c) THEN save[c].sends \in sheet.buttons ELSE save[c].sends = {}

FormLocks ==
  /\ ButtonsSettle
  /\ \A c \in Saves : Open(c) /\ Single(save[c].sends) => save[c].sends \in lock
  /\ \A c, d \in Saves :
       c # d /\ Open(c) /\ Open(d) /\ save[c].sends = save[d].sends =>
         ~Single(save[c].sends)

\* Who reads the page again, and what nobody typed over.
FormTexts ==
  /\ TextIsKept
  /\ ~hasty => \A c \in Saves : Open(c) /\ save[c].sends = Groups => typed = {}
  /\ reread => sheet.then \in {"closes", "rereads"}
  /\ reread /\ sheet.then = "rereads" => \E c \in Saves : save[c].pc = "reading"
  /\ sheet.flips => opened

\* Undisturbed, one call is in flight, and its answer is what the server holds.
FormRows ==
  ~rivals =>
    /\ \A c, d \in Saves : Open(c) /\ Open(d) => c = d
    /\ \A c \in Saves : save[c].pc = "done" => save[c].text = row
    /\ sheet.then \in {"closes", "rereads"} =>
         copied = row \/ reread \/ \E c \in Saves : save[c].pc = "done"
    /\ sheet = StoreForm => copied = row \/ \E c \in Saves : save[c].pc = "done"
    /\ sheet.flips =>
         /\ \A c \in Saves : save[c].pc = "sent" => save[c].text["more"] = inputs["more"]
         /\ (\A c \in Saves : save[c].pc # "sent") => inputs["more"] = row["more"]

FormInv == FormTypes /\ FormLocks /\ FormTexts /\ FormRows

-----------------------------------------------------------------------------
LEMMA EmptyIsText == Empty \in Text /\ Empty["more"] \in Texts /\ "more" \in Groups
  BY DEF Empty, Text, Texts, Groups

LEMMA FormStart == FormInit => FormInv
  <1> SUFFICES ASSUME FormInit PROVE FormInv
    OBVIOUS
  <1>1. Shape(sheet)
    BY FormShapes DEF FormInit
  <1>2. Quiet /\ \A c \in Saves : save[c] = NoSave /\ save[c].pc = "idle" /\ save[c].sends = {}
    BY DEF FormInit, NoSave, Quiet, Open
  <1>3. NoSave \in [pc : {"idle", "sent", "done", "reading"}, sends : SUBSET Groups, text : Text]
    BY EmptyIsText DEF NoSave
  <1>4. FormTypes
    BY <1>1, <1>2, <1>3, EmptyIsText DEF FormTypes, FormTypeOK, FormInit, Open, Shape
  <1>5. FormLocks
    BY <1>2 DEF FormLocks, FormInit, ButtonsSettle, Open
  <1>6. FormTexts
    BY <1>1, <1>2 DEF FormTexts, FormInit, TextIsKept, Open, Shape
  <1>7. FormRows
    BY <1>2 DEF FormRows, FormInit, Open
  <1> QED
    BY <1>4, <1>5, <1>6, <1>7 DEF FormInv

\* The record of a call, whatever becomes of it.
CallRows == [pc : {"idle", "sent", "done", "reading"}, sends : SUBSET Groups, text : Text]

LEMMA CallFields ==
  /\ NoSave \in CallRows /\ NoSave.pc = "idle" /\ NoSave.sends = {}
  /\ \A b \in SUBSET Groups, t \in Text :
       LET r == [pc |-> "sent", sends |-> b, text |-> t]
       IN  r \in CallRows /\ r.pc = "sent" /\ r.sends = b /\ r.text = t
  /\ \A r \in CallRows : /\ r.pc \in {"idle", "sent", "done", "reading"}
                         /\ r.sends \in SUBSET Groups /\ r.text \in Text
  BY EmptyIsText DEF CallRows, NoSave

\* A call ends, or moves on; the others stay what they are.
LEMMA OneMoves ==
  ASSUME FormTypes, NEW c \in Saves, NEW r \in CallRows,
         save' = [save EXCEPT ![c] = r]
  PROVE  /\ save' \in [Saves -> CallRows]
         /\ save'[c] = r
         /\ \A d \in Saves : d # c => save'[d] = save[d]
  BY DEF FormTypes, FormTypeOK, CallRows

LEMMA NewWords ==
  ASSUME NEW x \in Text, NEW g \in Groups, NEW t \in Texts
  PROVE  /\ [x EXCEPT ![g] = t] \in Text
         /\ [x EXCEPT ![g] = t][g] = t
         /\ \A h \in Groups : h # g => [x EXCEPT ![g] = t][h] = x[h]
  BY DEF Text

LEMMA SavesTyped ==
  ASSUME FormTypes
  PROVE  /\ save \in [Saves -> CallRows]
         /\ \A c \in Saves : save[c] \in CallRows
         /\ row \in Text /\ copied \in Text /\ inputs \in Text
         /\ typed \in SUBSET Groups /\ lock \in SUBSET sheet.buttons
  BY DEF FormTypes, FormTypeOK, CallRows

LEMMA PersonTyped ==
  ASSUME FormTypes, Shape(sheet),
         \/ OpenForm \/ CloseForm \/ PageRereads
         \/ \E g \in Groups, t \in Texts : TypeText(g, t) \/ OthersChange(g, t)
  PROVE  FormTypes' /\ sheet' = sheet
  <1> USE SavesTyped, EmptyIsText
  <1>1. CASE OpenForm
    BY <1>1 DEF OpenForm, FormTypes, FormTypeOK, Open, Hurries, Types
  <1>2. CASE CloseForm
    BY <1>2 DEF CloseForm, FormTypes, FormTypeOK, Open
  <1>3. CASE PageRereads
    BY <1>3 DEF PageRereads, FormTypes, FormTypeOK, Open
  <1>4. ASSUME NEW g \in Groups, NEW t \in Texts, TypeText(g, t)
        PROVE  FormTypes' /\ sheet' = sheet
    <2>1. [inputs EXCEPT ![g] = t] \in Text
      BY NewWords
    <2> QED
      BY <1>4, <2>1 DEF TypeText, FormTypes, FormTypeOK, Open, Hurries, Types
  <1>5. ASSUME NEW g \in Groups, NEW t \in Texts, OthersChange(g, t)
        PROVE  FormTypes' /\ sheet' = sheet
    <2>1. [row EXCEPT ![g] = t] \in Text
      BY NewWords
    <2> QED
      BY <1>5, <2>1 DEF OthersChange, FormTypes, FormTypeOK, Open
  <1> QED
    BY <1>1, <1>2, <1>3, <1>4, <1>5

LEMMA PostTyped ==
  ASSUME FormTypes, Shape(sheet), NEW c \in Saves,
         Toggle(c) \/ \E b \in sheet.buttons : Submit(c, b)
  PROVE  FormTypes' /\ sheet' = sheet
  <1> USE SavesTyped, EmptyIsText
  <1>1. ASSUME NEW b \in sheet.buttons, NEW t \in Text, Posts(c, b, t), sheet' = sheet,
               inputs' \in Text, UNCHANGED <<opened, row, copied, reread, dropped, hasty>>
        PROVE  FormTypes'
    <2>1. b \in SUBSET Groups
      BY Parts
    <2> DEFINE r == [pc |-> "sent", sends |-> b, text |-> t]
    <2>2. r \in CallRows /\ r.sends = b /\ r.pc = "sent"
      BY <2>1, CallFields
    <2>3. save' = [save EXCEPT ![c] = r]
      BY <1>1 DEF Posts
    <2> HIDE DEF r
    <2>4. /\ save' \in [Saves -> CallRows] /\ save'[c] = r
          /\ \A d \in Saves : d # c => save'[d] = save[d]
      BY <2>2, <2>3, OneMoves
    <2>5. \A d \in Saves : IF save'[d].pc # "idle" THEN save'[d].sends \in sheet.buttons
                                               ELSE save'[d].sends = {}
      BY <2>2, <2>4 DEF FormTypes, Open
    <2> QED
      BY <1>1, <2>4, <2>5 DEF Posts, FormTypes, FormTypeOK, Open, CallRows
  <1>2. ASSUME NEW b \in sheet.buttons, Submit(c, b)
        PROVE  FormTypes' /\ sheet' = sheet
    BY <1>1, <1>2 DEF Submit
  <1>3. CASE Toggle(c)
    <2>1. PICK t \in Texts : /\ inputs' = [inputs EXCEPT !["more"] = t]
                             /\ Posts(c, {"more"}, [inputs EXCEPT !["more"] = t])
      BY <1>3 DEF Toggle
    <2>2. [inputs EXCEPT !["more"] = t] \in Text
      BY NewWords
    <2>3. {"more"} \in sheet.buttons
      BY <1>3 DEF Toggle, Shape, Both
    <2> HIDE DEF Groups
    <2> QED
      BY <1>1, <1>3, <2>1, <2>2, <2>3 DEF Toggle
  <1> QED
    BY <1>2, <1>3

LEMMA FillTyped ==
  ASSUME NEW text \in Text, FormTypes, Fill(text)
  PROVE  inputs' \in Text /\ dropped' \in BOOLEAN /\ typed' = {}
  BY EmptyIsText DEF Fill, FormTypes, FormTypeOK

LEMMA EndTyped ==
  ASSUME FormTypes, NEW c \in Saves, Ends(c)
  PROVE  /\ save' \in [Saves -> CallRows] /\ save'[c] = NoSave /\ save'[c].pc = "idle"
         /\ \A d \in Saves : d # c => save'[d] = save[d]
         /\ lock' = lock \ {save[c].sends}
  BY CallFields, OneMoves DEF Ends

LEMMA AnswerTyped ==
  ASSUME FormTypes, Shape(sheet), NEW c \in Saves,
         \/ SaveFails(c) \/ SavedCloses(c) \/ SavedShows(c) \/ SavedClears(c)
         \/ SavedLeaves(c)
  PROVE  FormTypes' /\ sheet' = sheet /\ Ends(c)
  <1> USE SavesTyped, EmptyIsText
  <1>1. Ends(c) /\ sheet' = sheet /\ row' = row
    BY DEF SaveFails, SavedCloses, SavedShows, SavedClears, SavedLeaves
  <1>2. ASSUME inputs' \in Text, copied' \in Text, typed' \in SUBSET Groups,
               {opened', reread', dropped', hasty', rivals'} \subseteq BOOLEAN
        PROVE  FormTypes'
    BY <1>1, <1>2, EndTyped, CallFields DEF FormTypes, FormTypeOK, CallRows, Open
  <1>3. save[c].text \in Text
    BY CallFields
  <1>4. CASE SaveFails(c)
    <2> DEFINE t == CHOOSE t \in Texts : t # save[c].text["more"]
    <2>1. t \in Texts
      <3>1. \E u \in Texts : u # save[c].text["more"]
        BY DEF Texts
      <3> QED
        BY <3>1
    <2>2. [inputs EXCEPT !["more"] = t] \in Text
      BY <2>1, NewWords
    <2>3. inputs' \in Text
      BY <1>4, <2>2 DEF SaveFails
    <2> QED
      BY <1>1, <1>2, <1>4, <2>3 DEF SaveFails, FormTypes, FormTypeOK
  <1>5. CASE SavedCloses(c)
    BY <1>1, <1>2, <1>5 DEF SavedCloses, FormTypes, FormTypeOK
  <1>6. CASE SavedShows(c)
    BY <1>1, <1>2, <1>3, <1>6, FillTyped DEF SavedShows, FormTypes, FormTypeOK, Kept
  <1>7. CASE SavedClears(c)
    BY <1>1, <1>2, <1>7, FillTyped DEF SavedClears, FormTypes, FormTypeOK
  <1>8. CASE SavedLeaves(c)
    BY <1>1, <1>2, <1>8 DEF SavedLeaves, FormTypes, FormTypeOK
  <1> QED
    BY <1>1, <1>4, <1>5, <1>6, <1>7, <1>8

LEMMA MovedTyped ==
  ASSUME FormTypes, NEW c \in Saves, SaveApplied(c) \/ SavedRereads(c)
  PROVE  /\ FormTypes' /\ sheet' = sheet
         /\ save'[c].sends = save[c].sends /\ Open(c)
         /\ SaveApplied(c) => save'[c].pc = "done" /\ save'[c].text = row'
         /\ SavedRereads(c) => save'[c].pc = "reading"
         /\ \A d \in Saves : d # c => save'[d] = save[d]
  <1> USE SavesTyped
  <1>1. CASE SaveApplied(c)
    <2>1. row' \in Text
      BY <1>1, CallFields DEF SaveApplied, Text
    <2> DEFINE r == [save[c] EXCEPT !.pc = "done", !.text = row']
    <2>2. /\ r \in CallRows /\ r.pc = "done" /\ r.text = row' /\ r.sends = save[c].sends
      BY <2>1 DEF CallRows
    <2>3. save' = [save EXCEPT ![c] = r]
      BY <1>1 DEF SaveApplied
    <2> HIDE DEF r
    <2>4. /\ save' \in [Saves -> CallRows] /\ save'[c] = r
          /\ \A d \in Saves : d # c => save'[d] = save[d]
      BY <2>2, <2>3, OneMoves
    <2>5. \A d \in Saves : IF save'[d].pc # "idle" THEN save'[d].sends \in sheet.buttons
                                               ELSE save'[d].sends = {}
      BY <1>1, <2>2, <2>4 DEF FormTypes, Open, SaveApplied
    <2>6. FormTypes' /\ sheet' = sheet
      BY <1>1, <2>1, <2>4, <2>5 DEF SaveApplied, FormTypes, FormTypeOK, Open, CallRows
    <2>7. ~SavedRereads(c)
      BY <1>1 DEF SaveApplied, SavedRereads
    <2> QED
      BY <1>1, <2>2, <2>4, <2>6, <2>7 DEF SaveApplied, Open
  <1>2. CASE SavedRereads(c)
    <2> DEFINE r == [save[c] EXCEPT !.pc = "reading"]
    <2>2. r \in CallRows /\ r.pc = "reading" /\ r.sends = save[c].sends
      BY DEF CallRows
    <2>3. save' = [save EXCEPT ![c] = r]
      BY <1>2 DEF SavedRereads
    <2> HIDE DEF r
    <2>4. /\ save' \in [Saves -> CallRows] /\ save'[c] = r
          /\ \A d \in Saves : d # c => save'[d] = save[d]
      BY <2>2, <2>3, OneMoves
    <2>5. \A d \in Saves : IF save'[d].pc # "idle" THEN save'[d].sends \in sheet.buttons
                                               ELSE save'[d].sends = {}
      BY <1>2, <2>2, <2>4 DEF FormTypes, Open, SavedRereads
    <2>6. FormTypes' /\ sheet' = sheet
      BY <1>2, <2>4, <2>5 DEF SavedRereads, FormTypes, FormTypeOK, Open, CallRows
    <2>7. ~SaveApplied(c)
      BY <1>2 DEF SaveApplied, SavedRereads
    <2> QED
      BY <1>2, <2>2, <2>4, <2>6, <2>7 DEF SavedRereads, Open
  <1> QED
    BY <1>1, <1>2

LEMMA PageTyped ==
  ASSUME FormTypes, RowShown \/ RereadLost
  PROVE  /\ FormTypes' /\ sheet' = sheet
         /\ \A c \in Saves : IF save[c].pc = "reading" THEN save'[c].pc = "idle"
                             ELSE save'[c] = save[c]
  <1> USE SavesTyped
  <1>1. RereadEnds
    BY DEF RowShown, RereadLost
  <1>2. \A c \in Saves : /\ save[c].pc = "reading" => save'[c] = NoSave
                         /\ save[c].pc # "reading" => save'[c] = save[c]
    BY <1>1 DEF RereadEnds
  <1>3. save' \in [Saves -> CallRows]
    BY <1>1, CallFields DEF RereadEnds
  <1>4. \A d \in Saves : IF save'[d].pc # "idle" THEN save'[d].sends \in sheet.buttons
                                               ELSE save'[d].sends = {}
    BY <1>2, CallFields DEF FormTypes, Open
  <1>5. ASSUME inputs' \in Text, copied' \in Text, typed' \in SUBSET Groups,
               lock' \subseteq lock, {dropped', rivals'} \subseteq BOOLEAN
        PROVE  FormTypes' /\ sheet' = sheet
    BY <1>1, <1>3, <1>4, <1>5 DEF RereadEnds, FormTypes, FormTypeOK, CallRows, Open
  <1>6. ASSUME RowShown PROVE FormTypes' /\ sheet' = sheet
    BY <1>5, <1>6, FillTyped DEF RowShown, Kept, FormTypes, FormTypeOK
  <1>7. ASSUME RereadLost PROVE FormTypes' /\ sheet' = sheet
    BY <1>5, <1>7 DEF RereadLost, Kept, FormTypes, FormTypeOK
  <1> QED
    BY <1>2, <1>6, <1>7, CallFields

-----------------------------------------------------------------------------
(* One lock, one call.                                                     *)

LEMMA PostFields ==
  ASSUME FormTypes, NEW c \in Saves, NEW b \in SUBSET Groups, NEW t \in Text, Posts(c, b, t)
  PROVE  /\ save'[c].pc = "sent" /\ save'[c].sends = b /\ save'[c].text = t
         /\ \A d \in Saves : d # c => save'[d] = save[d]
         /\ ~Open(c)
  <1> DEFINE r == [pc |-> "sent", sends |-> b, text |-> t]
  <1>1. r \in CallRows /\ r.pc = "sent" /\ r.sends = b /\ r.text = t
    BY CallFields
  <1>2. save' = [save EXCEPT ![c] = r] /\ ~Open(c)
    BY DEF Posts, Open
  <1> HIDE DEF r
  <1> QED
    BY <1>1, <1>2, OneMoves

\* What a press sends, and that its button was free.
LEMMA PressFields ==
  ASSUME FormTypes, Shape(sheet), NEW c \in Saves,
         Toggle(c) \/ \E b \in sheet.buttons : Submit(c, b)
  PROVE  \E b \in sheet.buttons, t \in Text :
           /\ b \in SUBSET Groups /\ Unlocks(b) /\ Posts(c, b, t)
           /\ sheet.flips => t["more"] = inputs'["more"]
  <1>1. ASSUME NEW b \in sheet.buttons, Submit(c, b)
        PROVE  b \in SUBSET Groups /\ Unlocks(b) /\ Posts(c, b, inputs) /\ inputs' = inputs
    BY <1>1, Parts DEF Submit
  <1>2. CASE Toggle(c)
    <2>1. PICK t \in Texts : /\ inputs' = [inputs EXCEPT !["more"] = t]
                             /\ Posts(c, {"more"}, [inputs EXCEPT !["more"] = t])
      BY <1>2 DEF Toggle
    <2>2. inputs' \in Text
      BY <2>1, NewWords, SavesTyped, EmptyIsText
    <2>3. {"more"} \in sheet.buttons /\ {"more"} \in SUBSET Groups /\ Unlocks({"more"})
      BY <1>2, EmptyIsText DEF Toggle, Shape, Both
    <2>4. Posts(c, {"more"}, inputs')
      BY <2>1
    <2> HIDE DEF Posts, Unlocks
    <2> QED
      BY <2>2, <2>3, <2>4
  <1> QED
    BY <1>1, <1>2, SavesTyped

LEMMA FormLocked ==
  ASSUME FormTypes, FormLocks, Shape(sheet), FormNext
  PROVE  FormLocks'
  <1>1. ASSUME lock' = lock, sheet' = sheet,
               \A c \in Saves : Open(c)' = Open(c) /\ save'[c].sends = save[c].sends
        PROVE  FormLocks'
    BY <1>1 DEF FormLocks, ButtonsSettle, Single, Open
  <1>2. CASE \/ OpenForm \/ CloseForm \/ PageRereads
             \/ \E g \in Groups, t \in Texts : TypeText(g, t) \/ OthersChange(g, t)
    <2>1. lock' = lock /\ sheet' = sheet /\ save' = save
      BY <1>2 DEF OpenForm, CloseForm, PageRereads, TypeText, OthersChange
    <2> QED
      BY <1>1, <2>1 DEF Open
  <1>3. ASSUME NEW c \in Saves, SaveApplied(c) \/ SavedRereads(c)
        PROVE  FormLocks'
    <2>1. lock' = lock
      BY <1>3 DEF SaveApplied, SavedRereads
    <2> QED
      BY <1>1, <1>3, <2>1, MovedTyped DEF Open
  <1>4. ASSUME NEW c \in Saves, Toggle(c) \/ \E b \in sheet.buttons : Submit(c, b)
        PROVE  FormLocks'
    <2>1. PICK b \in sheet.buttons, t \in Text :
            b \in SUBSET Groups /\ Unlocks(b) /\ Posts(c, b, t)
      BY <1>4, PressFields
    <2>2. sheet' = sheet
      BY <1>4, PostTyped
    <2>3. /\ save'[c].pc = "sent" /\ save'[c].sends = b
          /\ \A d \in Saves : d # c => save'[d] = save[d]
          /\ ~Open(c)
      BY <2>1, PostFields
    <2>4. lock' = lock \cup {b}
      BY <2>1 DEF Posts
    <2>5. ASSUME NEW d \in Saves, Open(d), save[d].sends = b
          PROVE  ~Single(b)
      BY <2>1, <2>5 DEF FormLocks, Unlocks, Single
    <2>6. ButtonsSettle'
      BY <2>3, <2>4 DEF FormLocks, ButtonsSettle, Open
    <2>7. \A d \in Saves : Open(d)' /\ Single(save'[d].sends) => save'[d].sends \in lock'
      BY <2>3, <2>4 DEF FormLocks, Open
    <2>8. \A x, y \in Saves :
            x # y /\ Open(x)' /\ Open(y)' /\ save'[x].sends = save'[y].sends =>
              ~Single(save'[x].sends)
      BY <2>2, <2>3, <2>5 DEF FormLocks, Open, Single
    <2> QED
      BY <2>2, <2>6, <2>7, <2>8 DEF FormLocks, Single
  <1>5. ASSUME NEW c \in Saves,
               \/ SaveFails(c) \/ SavedCloses(c) \/ SavedShows(c) \/ SavedClears(c)
               \/ SavedLeaves(c)
        PROVE  FormLocks'
    <2>1. /\ save'[c].pc = "idle" /\ lock' = lock \ {save[c].sends}
          /\ \A d \in Saves : d # c => save'[d] = save[d]
          /\ sheet' = sheet
      BY <1>5, AnswerTyped, EndTyped
    <2>2. Open(c)
      BY <1>5 DEF SaveFails, SavedCloses, SavedShows, SavedClears, SavedLeaves, Open
    <2>3. ButtonsSettle'
      BY <2>1 DEF FormLocks, ButtonsSettle, Open
    <2>4. \A d \in Saves : Open(d)' /\ Single(save'[d].sends) => save'[d].sends \in lock'
      BY <2>1, <2>2 DEF FormLocks, Open, Single
    <2>5. \A x, y \in Saves :
            x # y /\ Open(x)' /\ Open(y)' /\ save'[x].sends = save'[y].sends =>
              ~Single(save'[x].sends)
      BY <2>1 DEF FormLocks, Open
    <2> QED
      BY <2>1, <2>3, <2>4, <2>5 DEF FormLocks, Single
  <1>6. ASSUME RowShown \/ RereadLost PROVE FormLocks'
    <2>1. /\ sheet' = sheet
          /\ \A c \in Saves : IF save[c].pc = "reading" THEN save'[c].pc = "idle"
                              ELSE save'[c] = save[c]
      BY <1>6, PageTyped
    <2>2. lock' = lock \ Awaited \/ lock' = lock \ (Awaited \cup Freed)
      BY <1>6 DEF RowShown, RereadLost
    <2>3. ButtonsSettle'
      BY <2>1, <2>2 DEF FormLocks, ButtonsSettle, Open, Awaited
    <2>4. ASSUME NEW d \in Saves, Open(d)', Single(save'[d].sends)
          PROVE  save'[d].sends \in lock'
      <3>1. save'[d] = save[d] /\ Open(d) /\ save[d].pc # "reading"
        BY <2>1, <2>4 DEF Open
      <3>2. save[d].sends \in lock /\ save[d].sends \notin Freed
        BY <2>4, <3>1 DEF FormLocks, Freed, Single
      <3>3. save[d].sends \notin Awaited
        <4>1. SUFFICES ASSUME NEW c \in Saves, save[c].pc = "reading",
                              save[c].sends = save[d].sends
                       PROVE  FALSE
          BY DEF Awaited
        <4>2. c # d /\ Open(c)
          BY <3>1, <4>1 DEF Open
        <4> QED
          BY <2>4, <3>1, <4>1, <4>2 DEF FormLocks, Single
      <3> QED
        BY <2>2, <3>1, <3>2, <3>3
    <2>5. \A x, y \in Saves :
            x # y /\ Open(x)' /\ Open(y)' /\ save'[x].sends = save'[y].sends =>
              ~Single(save'[x].sends)
      BY <2>1 DEF FormLocks, Open
    <2> QED
      BY <2>1, <2>3, <2>4, <2>5 DEF FormLocks, Single
  <1> QED
    BY <1>2, <1>3, <1>4, <1>5, <1>6 DEF FormNext

-----------------------------------------------------------------------------
(* What was typed.                                                         *)

LEMMA FormTyping ==
  ASSUME FormTypes, FormTexts, Shape(sheet), FormNext
  PROVE  FormTexts'
  <1> USE SavesTyped
  <1>1. CASE OpenForm
    BY <1>1 DEF OpenForm, FormTexts, TextIsKept, Hurries, Types, Quiet, Open
  <1>2. CASE CloseForm
    BY <1>2 DEF CloseForm, FormTexts, TextIsKept, Open, Shape
  <1>3. CASE PageRereads
    BY <1>3 DEF PageRereads, FormTexts, TextIsKept, Open, Shape
  <1>4. ASSUME NEW g \in Groups, NEW t \in Texts, TypeText(g, t)
        PROVE  FormTexts'
    BY <1>4 DEF TypeText, FormTexts, TextIsKept, Hurries, Types, Quiet, Open
  <1>5. ASSUME NEW g \in Groups, NEW t \in Texts, OthersChange(g, t)
        PROVE  FormTexts'
    BY <1>5 DEF OthersChange, FormTexts, TextIsKept, Open
  <1>6. ASSUME NEW c \in Saves, Toggle(c) \/ \E b \in sheet.buttons : Submit(c, b)
        PROVE  FormTexts'
    <2>1. PICK b \in sheet.buttons, t \in Text :
            b \in SUBSET Groups /\ Unlocks(b) /\ Posts(c, b, t)
      BY <1>6, PressFields
    <2>2. UNCHANGED <<sheet, opened, reread, dropped, hasty>>
      BY <1>6 DEF Toggle, Submit
    <2>3. /\ save'[c].sends = b
          /\ \A d \in Saves : d # c => save'[d] = save[d]
          /\ ~Open(c)
      BY <2>1, PostFields
    <2>4. typed' = typed \ b
      BY <2>1 DEF Posts
    <2>5. ASSUME ~hasty', NEW d \in Saves, Open(d)', save'[d].sends = Groups
          PROVE  typed' = {}
      BY <2>2, <2>3, <2>4, <2>5 DEF FormTexts, Open
    <2>6. reread' => sheet.then # "rereads"
      BY <1>6, <2>2 DEF Toggle, Submit, Before
    <2> QED
      BY <2>2, <2>5, <2>6 DEF FormTexts, TextIsKept
  <1>7. ASSUME NEW c \in Saves, SaveApplied(c) \/ SavedRereads(c)
        PROVE  FormTexts'
    <2>1. UNCHANGED <<sheet, opened, typed, dropped, hasty>>
      BY <1>7 DEF SaveApplied, SavedRereads
    <2>2. /\ save'[c].sends = save[c].sends /\ Open(c)
          /\ \A d \in Saves : d # c => save'[d] = save[d]
      BY <1>7, MovedTyped
    <2>3. ~hasty' => \A d \in Saves : Open(d)' /\ save'[d].sends = Groups => typed' = {}
      BY <2>1, <2>2 DEF FormTexts, Open
    <2>4. /\ reread' => sheet.then \in {"closes", "rereads"}
          /\ reread' /\ sheet.then = "rereads" => \E d \in Saves : save'[d].pc = "reading"
      <3>1. CASE SaveApplied(c)
        <4>1. reread' = reread /\ save[c].pc = "sent"
          BY <3>1 DEF SaveApplied
        <4> QED
          BY <2>2, <4>1 DEF FormTexts
      <3>2. CASE SavedRereads(c)
        BY <3>2, MovedTyped DEF SavedRereads
      <3> QED
        BY <1>7, <3>1, <3>2
    <2> QED
      BY <2>1, <2>3, <2>4 DEF FormTexts, TextIsKept
  <1>8. ASSUME NEW c \in Saves,
               \/ SaveFails(c) \/ SavedCloses(c) \/ SavedShows(c) \/ SavedClears(c)
               \/ SavedLeaves(c)
        PROVE  FormTexts'
    <2>1. /\ save'[c].pc = "idle" /\ sheet' = sheet
          /\ \A d \in Saves : d # c => save'[d] = save[d]
      BY <1>8, AnswerTyped, EndTyped
    <2>2. /\ hasty' = hasty /\ save[c].pc \in {"sent", "done"}
          /\ save[c].sends \in sheet.buttons
      BY <1>8 DEF SaveFails, SavedCloses, SavedShows, SavedClears, SavedLeaves, FormTypes,
                  Open
    <2>3. /\ sheet.buttons # InParts =>
               save[c].sends = Groups \/ (sheet.flips /\ save[c].sends = {"more"})
      BY <2>2, Parts
    <2>4. ~hasty /\ save[c].sends = Groups => typed = {}
      BY <2>2 DEF FormTexts, Open
    <2>5. typed' \in {typed, {}}
      BY <1>8 DEF SaveFails, SavedCloses, SavedShows, SavedClears, SavedLeaves, Fill, Kept
    <2>6. ~hasty' => \A d \in Saves : Open(d)' /\ save'[d].sends = Groups => typed' = {}
      BY <2>1, <2>2, <2>5 DEF FormTexts, Open
    <2>7. TextIsKept'
      <3>1. SUFFICES ASSUME ~hasty, sheet.buttons # InParts, dropped'
                     PROVE  dropped
        BY <2>1, <2>2 DEF FormTexts, TextIsKept
      <3>2. ASSUME typed = {}, SavedCloses(c) \/ SavedShows(c) \/ SavedClears(c)
            PROVE  dropped
        BY <3>1, <3>2 DEF SavedCloses, SavedShows, SavedClears, Fill, Kept
      <3>3. ASSUME sheet.flips PROVE sheet.then = "answer"
        BY <3>3 DEF Shape
      <3>4. CASE SavedCloses(c)
        BY <2>3, <2>4, <3>1, <3>2, <3>3, <3>4 DEF SavedCloses
      <3>5. CASE SavedShows(c)
        BY <2>3, <2>4, <3>1, <3>2, <3>5 DEF SavedShows, Kept
      <3>6. CASE SavedClears(c)
        BY <2>3, <2>4, <3>1, <3>2, <3>3, <3>6 DEF SavedClears
      <3>7. CASE SaveFails(c) \/ SavedLeaves(c)
        BY <3>1, <3>7 DEF SaveFails, SavedLeaves
      <3> QED
        BY <1>8, <3>4, <3>5, <3>6, <3>7
    <2>8. /\ reread' => sheet.then \in {"closes", "rereads"}
          /\ reread' /\ sheet.then = "rereads" => \E d \in Saves : save'[d].pc = "reading"
      <3>1. reread' = reread \/ sheet.then = "closes"
        BY <1>8 DEF SaveFails, SavedCloses, SavedShows, SavedClears, SavedLeaves
      <3>2. \A d \in Saves : save[d].pc = "reading" => save'[d] = save[d]
        BY <2>1, <2>2
      <3> QED
        BY <3>1, <3>2 DEF FormTexts
    <2>9. sheet.flips => opened'
      BY <1>8 DEF SaveFails, SavedCloses, SavedShows, SavedClears, SavedLeaves, FormTexts,
                  Shape
    <2> QED
      BY <2>1, <2>6, <2>7, <2>8, <2>9 DEF FormTexts
  <1>9. ASSUME RowShown \/ RereadLost PROVE FormTexts'
    <2>1. /\ sheet' = sheet /\ reread /\ ~reread' /\ opened' = opened /\ hasty' = hasty
          /\ \A c \in Saves : IF save[c].pc = "reading" THEN save'[c].pc = "idle"
                              ELSE save'[c] = save[c]
      BY <1>9, PageTyped DEF RowShown, RereadLost, RereadEnds, FormTypes, FormTypeOK
    <2>2. typed' \in {typed, {}}
      BY <1>9 DEF RowShown, RereadLost, Fill, Kept
    <2>3. ~hasty' => \A d \in Saves : Open(d)' /\ save'[d].sends = Groups => typed' = {}
      BY <2>1, <2>2 DEF FormTexts, Open
    <2>4. TextIsKept'
      <3>1. SUFFICES ASSUME ~hasty, sheet.buttons # InParts, sheet.fills # "both", dropped'
                     PROVE  dropped
        BY <2>1 DEF FormTexts, TextIsKept
      <3>2. CASE RowShown /\ sheet.fills = "loaded"
        <4>1. sheet.then = "rereads"
          BY <2>1, <3>2 DEF FormTexts, Shape
        <4>2. PICK c \in Saves : save[c].pc = "reading"
          BY <2>1, <4>1 DEF FormTexts
        <4>3. save[c].sends \in sheet.buttons /\ Open(c)
          BY <4>2 DEF FormTypes, Open
        <4>4. save[c].sends = Groups
          BY <3>1, <4>1, <4>3, Parts DEF Shape
        <4>5. typed = {}
          BY <3>1, <4>3, <4>4 DEF FormTexts
        <4> QED
          BY <3>1, <3>2, <4>5 DEF RowShown, Fill
      <3>3. CASE ~(RowShown /\ sheet.fills = "loaded")
        BY <1>9, <3>1, <3>3 DEF RowShown, RereadLost, Kept
      <3> QED
        BY <3>2, <3>3
    <2> QED
      BY <2>1, <2>3, <2>4 DEF FormTexts
  <1> QED
    BY <1>1, <1>2, <1>3, <1>4, <1>5, <1>6, <1>7, <1>8, <1>9 DEF FormNext

-----------------------------------------------------------------------------
(* What the page shows of the row.                                         *)

LEMMA FormShown ==
  ASSUME FormTypes, FormTexts, FormRows, Shape(sheet), FormNext
  PROVE  FormRows'
  <1> SUFFICES ASSUME ~rivals' PROVE FormRows'
    BY DEF FormRows
  <1> USE SavesTyped
  <1>1. CASE OpenForm \/ CloseForm \/ PageRereads
    BY <1>1 DEF OpenForm, CloseForm, PageRereads, FormRows, FormTexts, Open
  <1>2. ASSUME NEW g \in Groups, NEW t \in Texts, TypeText(g, t)
        PROVE  FormRows'
    <2>1. inputs' = [inputs EXCEPT ![g] = t]
      BY <1>2 DEF TypeText
    <2>2. sheet.flips => inputs'["more"] = inputs["more"]
      BY <1>2, <2>1, NewWords, EmptyIsText DEF TypeText
    <2> QED
      BY <1>2, <2>2 DEF TypeText, FormRows, Open
  <1>3. ASSUME NEW c \in Saves, Toggle(c) \/ \E b \in sheet.buttons : Submit(c, b)
        PROVE  FormRows'
    <2>1. PICK b \in sheet.buttons, t \in Text :
            /\ b \in SUBSET Groups /\ Unlocks(b) /\ Posts(c, b, t)
            /\ sheet.flips => t["more"] = inputs'["more"]
      BY <1>3, PressFields
    <2>2. UNCHANGED <<sheet, row, copied, reread>>
      BY <1>3 DEF Toggle, Submit
    <2>3. /\ save'[c].pc = "sent" /\ save'[c].text = t
          /\ \A d \in Saves : d # c => save'[d] = save[d]
      BY <2>1, PostFields
    <2>4. ~rivals /\ Quiet /\ ~reread
      BY <2>1 DEF Posts, FormTypes, FormTypeOK
    <2>5. \A d \in Saves : d # c => save'[d].pc = "idle"
      BY <2>3, <2>4 DEF Quiet, Open
    <2>6. copied = row \/ ~(sheet.then \in {"closes", "rereads"} \/ sheet = StoreForm)
      BY <2>4 DEF FormRows, Quiet, Open
    <2> HIDE DEF StoreForm
    <2> QED
      BY <2>1, <2>2, <2>3, <2>5, <2>6 DEF FormRows, Open
  <1>4. ASSUME NEW c \in Saves, SaveApplied(c)
        PROVE  FormRows'
    <2>1. /\ UNCHANGED <<sheet, copied, inputs, reread>> /\ ~rivals
          /\ save[c].pc = "sent"
          /\ row' = [g \in Groups |-> IF g \in save[c].sends THEN save[c].text[g] ELSE row[g]]
      BY <1>4 DEF SaveApplied
    <2>2. /\ save'[c].pc = "done" /\ save'[c].text = row' /\ Open(c)
          /\ \A d \in Saves : d # c => save'[d] = save[d]
      BY <1>4, MovedTyped
    <2>3. \A d \in Saves : d # c => save'[d].pc = "idle"
      BY <2>1, <2>2 DEF FormRows, Open
    <2>4. sheet.flips => row'["more"] = inputs["more"]
      <3>1. SUFFICES ASSUME sheet.flips PROVE row'["more"] = inputs["more"]
        OBVIOUS
      <3>2. save[c].sends \in sheet.buttons
        BY <2>2 DEF FormTypes
      <3>3. "more" \in save[c].sends
        BY <3>1, <3>2, Parts
      <3>4. row'["more"] = save[c].text["more"]
        BY <2>1, <3>3, EmptyIsText
      <3>5. save[c].text["more"] = inputs["more"]
        BY <2>1, <3>1 DEF FormRows
      <3> QED
        BY <3>4, <3>5
    <2> QED
      BY <2>1, <2>2, <2>3, <2>4 DEF FormRows, Open
  <1>5. ASSUME NEW c \in Saves, SavedRereads(c)
        PROVE  FormRows'
    <2>1. /\ UNCHANGED <<sheet, copied, row>> /\ ~rivals /\ reread'
          /\ sheet.then = "rereads"
      BY <1>5 DEF SavedRereads
    <2>2. /\ save'[c].pc = "reading" /\ Open(c)
          /\ \A d \in Saves : d # c => save'[d] = save[d]
      BY <1>5, MovedTyped
    <2>3. ~sheet.flips /\ sheet # StoreForm
      BY <2>1, StoreFormShape DEF Shape
    <2> QED
      BY <2>1, <2>2, <2>3 DEF FormRows, Open
  <1>6. ASSUME NEW c \in Saves,
               SavedCloses(c) \/ SavedShows(c) \/ SavedClears(c) \/ SavedLeaves(c)
        PROVE  FormRows'
    <2>1. /\ save'[c].pc = "idle" /\ sheet' = sheet
          /\ \A d \in Saves : d # c => save'[d] = save[d]
      BY <1>6, AnswerTyped, EndTyped
    <2>2. save[c].pc = "done" /\ row' = row /\ ~rivals
      BY <1>6 DEF SavedCloses, SavedShows, SavedClears, SavedLeaves
    <2>3. \A d \in Saves : save'[d].pc = "idle"
      BY <2>1, <2>2 DEF FormRows, Open
    <2>4. save[c].text = row
      BY <2>2 DEF FormRows
    <2>5. sheet.then \in {"closes", "rereads"} => reread'
      BY <1>6 DEF SavedCloses, SavedShows, SavedClears, SavedLeaves
    <2>6. sheet = StoreForm => copied' = row'
      BY <1>6, <2>2, <2>4, StoreFormShape
         DEF SavedCloses, SavedShows, SavedClears, SavedLeaves
    <2>7. ASSUME sheet.flips PROVE inputs'["more"] = row'["more"]
      <3>1. sheet.then = "answer" /\ sheet.fills = "loaded" /\ ~sheet.blank
        BY <2>7 DEF Shape
      <3>2. inputs["more"] = row["more"]
        <4>1. \A d \in Saves : save[d].pc # "sent"
          BY <2>1, <2>2, <2>3
        <4> QED
          BY <2>2, <2>7, <4>1 DEF FormRows
      <3>3. SavedShows(c)
        BY <1>6, <3>1 DEF SavedCloses, SavedShows, SavedClears, SavedLeaves
      <3> QED
        BY <2>2, <2>4, <3>1, <3>2, <3>3 DEF SavedShows, Fill, Kept
    <2> QED
      BY <2>1, <2>3, <2>5, <2>6, <2>7 DEF FormRows, Open
  <1>7. CASE RowShown
    <2>1. /\ sheet' = sheet /\ copied' = row /\ row' = row /\ reread
          /\ \A c \in Saves : IF save[c].pc = "reading" THEN save'[c].pc = "idle"
                              ELSE save'[c] = save[c]
      BY <1>7, PageTyped DEF RowShown, RereadEnds
    <2>2. ~rivals
      BY <1>7 DEF RowShown
    <2>3. ~sheet.flips
      BY <2>1 DEF FormTexts, Shape
    <2> QED
      BY <2>1, <2>2, <2>3 DEF FormRows, Open
  <1> QED
    BY <1>1, <1>2, <1>3, <1>4, <1>5, <1>6, <1>7
       DEF FormNext, RereadLost, OthersChange, SaveFails

LEMMA FormStep == FormInv /\ [FormNext]_formVars => FormInv'
  <1> SUFFICES ASSUME FormInv, [FormNext]_formVars PROVE FormInv'
    OBVIOUS
  <1>1. Shape(sheet)
    BY FormShapes DEF FormInv, FormTypes, FormTypeOK
  <1>2. CASE FormNext
    <2>1. FormTypes'
      BY <1>1, <1>2, PersonTyped, PostTyped, AnswerTyped, MovedTyped, PageTyped
         DEF FormInv, FormNext
    <2> QED
      BY <1>1, <1>2, <2>1, FormLocked, FormTyping, FormShown DEF FormInv
  <1>3. CASE UNCHANGED formVars
    BY <1>3 DEF formVars, FormInv, FormTypes, FormTypeOK, Open, FormLocks, ButtonsSettle,
                Single, FormTexts, TextIsKept, FormRows
  <1> QED
    BY <1>2, <1>3

LEMMA FormTrue ==
  FormInv => FormTypeOK /\ OneCallPerButton /\ ButtonsSettle /\ TextIsKept /\ ShowsTheRow
  <1> SUFFICES ASSUME FormInv
               PROVE  /\ FormTypeOK /\ OneCallPerButton /\ ButtonsSettle
                      /\ TextIsKept /\ ShowsTheRow
    OBVIOUS
  <1>1. Shape(sheet)
    BY FormShapes DEF FormInv, FormTypes, FormTypeOK
  <1>2. OneCallPerButton
    <2>1. SUFFICES ASSUME NEW c \in Saves, NEW d \in Saves, c # d, Open(c),
                          save[c].sends = save[d].sends
                   PROVE  ~Single(save[c].sends)
      BY DEF OneCallPerButton, Single
    <2>2. save[c].sends # {}
      BY <1>1, <2>1, ButtonSome DEF FormInv, FormTypes
    <2>3. Open(d)
      BY <2>1, <2>2 DEF FormInv, FormTypes
    <2> QED
      BY <2>1, <2>3 DEF FormInv, FormLocks
  <1>3. ShowsTheRow
    <2>1. SUFFICES ASSUME ~rivals, Quiet, ~reread
                   PROVE  /\ sheet.then \in {"closes", "rereads"} \/ sheet = StoreForm =>
                               copied = row
                          /\ sheet.flips => inputs["more"] = row["more"]
      BY DEF ShowsTheRow
    <2>2. \A c \in Saves : save[c].pc = "idle"
      BY <2>1 DEF Quiet, Open
    <2> QED
      BY <2>1, <2>2 DEF FormInv, FormRows
  <1> QED
    BY <1>2, <1>3 DEF FormInv, FormTypes, FormLocks, FormTexts

\* However the calls of a form overlap, its buttons wait for calls in flight
\* only, and a button has one call, but for the two forms that Enter sends and an
\* offer's button on the product's page (Forms.ButtonsSettle, OneCallPerButton).
\* Text typed with no call under way stays, but for the forms of the product's
\* page and the two that follow the page's data; and a page whose calls neither
\* met nor failed, nor ran while a person typed, shows the row unless another
\* changed it (Forms.TextIsKept, ShowsTheRow).
THEOREM FormsKeepAndShow ==
  FormSpec => [](OneCallPerButton /\ ButtonsSettle /\ TextIsKept /\ ShowsTheRow)
  BY FormStart, FormStep, FormTrue, PTL DEF FormSpec

=============================================================================
