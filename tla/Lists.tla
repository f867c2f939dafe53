-------------------------------- MODULE Lists --------------------------------
(***************************************************************************)
(* A list on a page of the front ends: what the person chose to see, the   *)
(* reads in flight, the rows on display, and the calls that change a row.  *)
(* The pages differ in few things, which a record names for each of them:  *)
(*   resets  what a new filter does to the page number: nothing to choose, *)
(*           set with the filter, or by an effect that runs one read late  *)
(*   after   what follows a call that succeeded: nothing to press, the     *)
(*           rows are read again with the query of the press or of now,    *)
(*           the answer replaces its row, or the page is left              *)
(*   lock    which buttons wait while a call is in flight                  *)
(*   polls   rows are read again on a timer                                *)
(*   clears  when an error goes: as a read starts, or as one succeeds      *)
(***************************************************************************)
EXTENDS Integers

CONSTANTS
  ListRows, NoListRow,
  Queries,   \* what a list can be asked for: a filter and a page number
  Between,   \* a new filter under the old page number
  NoQuery,
  Fetches,   \* reads that may be in flight
  Deeds      \* calls that may be in flight

ASSUME ListAssumption ==
  /\ Queries # {}
  /\ NoListRow \notin ListRows /\ Between \notin Queries /\ NoQuery \notin Queries \cup {Between}
  /\ {"idle", "sent", "done"} \cap Fetches = {}

-----------------------------------------------------------------------------
(* The pages.                                                              *)

Fixed == [resets |-> "fixed", after |-> "nothing", lock |-> "none",
          polls |-> FALSE, clears |-> "start"]

\* Lists to look at: one read when the page opens.
AdminDashboard == Fixed
AdminFinance == Fixed
SellerDashboard == Fixed
SellerFinance == Fixed
EarningsPage == Fixed
CatalogPage == Fixed
AdminOrderPage == Fixed

\* Lists with filters or page numbers.
OrdersList == [Fixed EXCEPT !.resets = "later"]
AuditList == [Fixed EXCEPT !.resets = "later"]
SellerProductsPage == [Fixed EXCEPT !.resets = "with"]
SellerOrdersPage == [Fixed EXCEPT !.resets = "with", !.polls = TRUE]
ClientOrdersPage == [Fixed EXCEPT !.resets = "with", !.polls = TRUE]
CourierHistoryPage == [Fixed EXCEPT !.resets = "with", !.polls = TRUE]

\* Lists whose rows have buttons.
RolesList == [Fixed EXCEPT !.after = "now"]
HistoryList == [Fixed EXCEPT !.resets = "with", !.after = "now"]
AttributesPage == [Fixed EXCEPT !.after = "now", !.clears = "success"]
AttributeDetailPage == AttributesPage
BrandsPage == AttributesPage
CategoriesPage == AttributesPage
CategoryDetailPage == AttributesPage
UsersTable == [Fixed EXCEPT !.resets = "later", !.after = "row"]
AddressesPage == [Fixed EXCEPT !.after = "now", !.lock = "row"]
CourierDashboard == [Fixed EXCEPT !.after = "now", !.lock = "page"]
FeaturedPage == [Fixed EXCEPT !.resets = "with", !.after = "pressed", !.lock = "row"]
CourierStoresPage == FeaturedPage
ModerationPage == [Fixed EXCEPT !.resets = "with", !.after = "pressed", !.lock = "page"]
SellerContractsPage == ModerationPage
DeliveriesPage == [Fixed EXCEPT !.resets = "with", !.after = "leave", !.lock = "page",
                               !.polls = TRUE]

ListPages ==
  {AdminDashboard, AdminFinance, SellerDashboard, SellerFinance, EarningsPage, CatalogPage,
   AdminOrderPage, DeliveriesPage,
   OrdersList, AuditList, SellerProductsPage, SellerOrdersPage, ClientOrdersPage,
   CourierHistoryPage, RolesList, HistoryList, AttributesPage, AttributeDetailPage,
   BrandsPage, CategoriesPage, CategoryDetailPage, UsersTable, AddressesPage,
   CourierDashboard, FeaturedPage, CourierStoresPage, ModerationPage, SellerContractsPage}

-----------------------------------------------------------------------------
VARIABLES
  kind,      \* the page
  changed,   \* rows the page's calls have changed
  query,     \* the filter and page number chosen
  fetch,     \* reads in flight: their query and answer
  view,      \* query and rows on display
  spinner,   \* loading
  failure,   \* error
  busy,      \* the row whose buttons wait
  deed,      \* calls in flight
  met        \* two calls of the page were in flight at once (history)

listVars == <<kind, changed, query, fetch, view, spinner, failure, busy, deed, met>>

FirstQuery == CHOOSE q \in Queries : TRUE

ReadOf(q, quiet) == [query |-> q, rows |-> changed, quiet |-> quiet]
NoFetch == [query |-> NoQuery, rows |-> {}, quiet |-> TRUE]
NoDeed == [pc |-> "idle", row |-> NoListRow, query |-> NoQuery]

Out(k) == fetch[k].query # NoQuery
Resting == (\A k \in Fetches : ~Out(k)) /\ \A a \in Deeds : deed[a].pc = "idle"

ListTypeOK ==
  /\ kind \in ListPages
  /\ changed \in SUBSET ListRows
  /\ query \in Queries
  /\ \A k \in Fetches : fetch[k] \in [query : Queries \cup {Between, NoQuery},
                             rows : SUBSET ListRows,
                             quiet : BOOLEAN]
  /\ view \in [query : Queries \cup {Between, NoQuery}, rows : SUBSET ListRows]
  /\ spinner \in BOOLEAN /\ failure \in BOOLEAN /\ met \in BOOLEAN
  /\ busy \in ListRows \cup {NoListRow}
  /\ \A a \in Deeds : deed[a] \in [pc : {"idle", "sent", "done"} \cup Fetches,
                                   row : ListRows \cup {NoListRow},
                                   query : Queries \cup {NoQuery}]

\* Mounted: the effect has asked for the first rows.
ListInit ==
  /\ kind \in ListPages
  /\ changed = {}
  /\ query = FirstQuery
  /\ \E k \in Fetches :
       fetch = [j \in Fetches |-> IF j = k THEN ReadOf(FirstQuery, FALSE) ELSE NoFetch]
  /\ view = [query |-> NoQuery, rows |-> {}]
  /\ spinner = TRUE /\ failure = FALSE /\ met = FALSE
  /\ busy = NoListRow
  /\ deed = [a \in Deeds |-> NoDeed]

-----------------------------------------------------------------------------
(* Reading.                                                                *)

AskRows(k, q, quiet) ==
  /\ ~Out(k)
  /\ fetch' = [fetch EXCEPT ![k] = ReadOf(q, quiet)]
  /\ spinner' = (spinner \/ ~quiet)
  /\ failure' = (failure /\ kind.clears # "start")

Meets == met' = (met \/ ~Resting)

\* A filter or a page of the list; the effect asks for it.
Choose(k, q) ==
  /\ kind.resets # "fixed" /\ q # query
  /\ query' = q
  /\ AskRows(k, q, FALSE)
  /\ Meets
  /\ UNCHANGED <<kind, changed, view, busy, deed>>

\* Where an effect resets the number, the new filter is first asked for
\* under the old one.
ChooseThenReset(j, k, q) ==
  /\ kind.resets = "later" /\ q # query
  /\ j # k /\ ~Out(j) /\ ~Out(k)
  /\ query' = q
  /\ fetch' = [fetch EXCEPT ![j] = ReadOf(Between, FALSE), ![k] = ReadOf(q, FALSE)]
  /\ spinner' = TRUE
  /\ failure' = (failure /\ kind.clears # "start")
  /\ met' = TRUE
  /\ UNCHANGED <<kind, changed, view, busy, deed>>

PollRows(k) ==
  /\ kind.polls
  /\ AskRows(k, query, TRUE)
  /\ Meets
  /\ UNCHANGED <<kind, changed, query, view, busy, deed>>

\* A call that awaited this read is over; its buttons are free.
Settle(k) ==
  /\ fetch' = [fetch EXCEPT ![k] = NoFetch]
  /\ spinner' = (spinner /\ fetch[k].quiet)
  /\ deed' = [a \in Deeds |-> IF deed[a].pc = k THEN NoDeed ELSE deed[a]]
  /\ busy' = IF \E a \in Deeds : deed[a].pc = k THEN NoListRow ELSE busy
  /\ UNCHANGED <<kind, changed, query, met>>

\* Whatever comes is shown.
ShowRows(k) ==
  /\ Out(k)
  /\ view' = [query |-> fetch[k].query, rows |-> fetch[k].rows]
  /\ failure' = (failure /\ kind.clears # "success")
  /\ Settle(k)

ReadFails(k) ==
  /\ Out(k)
  /\ failure' = TRUE
  /\ Settle(k)
  /\ UNCHANGED view

-----------------------------------------------------------------------------
(* Acting on a row.                                                        *)

PageLock == busy # NoListRow
RowLock(r) == busy = r
Unlocked(r) ==
  /\ kind.lock = "page" => ~PageLock
  /\ kind.lock = "row" => ~RowLock(r)

Press(a, r) ==
  /\ kind.after # "nothing" /\ deed[a].pc = "idle"
  /\ view.query # NoQuery /\ r \notin view.rows /\ Unlocked(r)
  /\ deed' = [deed EXCEPT ![a] = [pc |-> "sent", row |-> r,
                              query |-> IF kind.after = "pressed" THEN query ELSE NoQuery]]
  /\ busy' = IF kind.lock = "none" THEN busy ELSE r
  /\ Meets
  /\ UNCHANGED <<kind, changed, query, fetch, view, spinner, failure>>

Applied(a) ==
  /\ deed[a].pc = "sent"
  /\ changed' = changed \cup {deed[a].row}
  /\ deed' = [deed EXCEPT ![a].pc = "done"]
  /\ UNCHANGED <<kind, query, fetch, view, spinner, failure, busy, met>>

\* Refused by the server, or lost on the way there.
Refused(a) ==
  /\ deed[a].pc = "sent" /\ kind.after # "leave"
  /\ deed' = [deed EXCEPT ![a] = NoDeed]
  /\ busy' = NoListRow
  /\ UNCHANGED <<kind, changed, query, fetch, view, spinner, failure, met>>

\* reload is the one of the render in which the button was pressed.
AnsweredThenReload(a, k) ==
  /\ deed[a].pc = "done" /\ kind.after \in {"pressed", "now"}
  /\ AskRows(k, IF kind.after = "pressed" THEN deed[a].query ELSE query, FALSE)
  /\ deed' = [deed EXCEPT ![a] = IF kind.lock = "none" THEN NoDeed ELSE [NoDeed EXCEPT !.pc = k]]
  /\ met' = (met \/ \E j \in Fetches : Out(j))
  /\ UNCHANGED <<kind, changed, query, view, busy>>

\* onUserChanged
AnsweredRow(a) ==
  /\ deed[a].pc = "done" /\ kind.after = "row"
  /\ view' = [view EXCEPT !.rows = @ \cup {deed[a].row}]
  /\ deed' = [deed EXCEPT ![a] = NoDeed]
  /\ UNCHANGED <<kind, changed, query, fetch, spinner, failure, busy, met>>

\* A courier who was too late sees what is left; one who was not goes to his
\* order, and finds the page as it opens when he comes back.
RefusedThenReload(a, k) ==
  /\ deed[a].pc = "sent" /\ kind.after = "leave"
  /\ AskRows(k, query, FALSE)
  /\ deed' = [deed EXCEPT ![a] = NoDeed]
  /\ busy' = NoListRow
  /\ met' = (met \/ \E j \in Fetches : Out(j))
  /\ UNCHANGED <<kind, changed, query, view>>

LeavesFor(a, k) ==
  /\ deed[a].pc = "done" /\ kind.after = "leave"
  /\ query' = FirstQuery
  /\ fetch' = [j \in Fetches |-> IF j = k THEN ReadOf(FirstQuery, FALSE) ELSE NoFetch]
  /\ view' = [query |-> NoQuery, rows |-> {}]
  /\ spinner' = TRUE /\ failure' = FALSE /\ met' = FALSE
  /\ busy' = NoListRow
  /\ deed' = [b \in Deeds |-> NoDeed]
  /\ UNCHANGED <<kind, changed>>

ListNext ==
  \/ \E k \in Fetches :
       \/ PollRows(k) \/ ShowRows(k) \/ ReadFails(k)
       \/ \E q \in Queries : Choose(k, q)
       \/ \E j \in Fetches, q \in Queries : ChooseThenReset(j, k, q)
       \/ \E a \in Deeds : AnsweredThenReload(a, k) \/ RefusedThenReload(a, k) \/ LeavesFor(a, k)
  \/ \E a \in Deeds :
       \/ Applied(a) \/ Refused(a) \/ AnsweredRow(a)
       \/ \E r \in ListRows : Press(a, r)

ListSpec == ListInit /\ [][ListNext]_listVars

-----------------------------------------------------------------------------
\* A spinner turns, and a button waits, only while the call it waits for is
\* in flight, in whatever order answers come.
NothingHangs ==
  /\ spinner => \E k \in Fetches : Out(k) /\ ~fetch[k].quiet
  /\ busy # NoListRow => \E a \in Deeds : deed[a].pc # "idle"

\* A page that locks its buttons never has two of its calls in flight: two
\* decisions of one moderator cannot cross.
OneDecisionAtATime ==
  kind.lock = "page" =>
    \A a, b \in Deeds : deed[a].pc # "idle" /\ deed[b].pc # "idle" => a = b

\* As long as no two calls of a page overlapped, a page at rest shows what was
\* chosen, with the effect of everything that was done on it, or an error.  Once
\* two reads overlapped, the last answer is shown, whichever was asked last.
ShowsWhatWasDone ==
  ~met /\ Resting => failure \/ view = [query |-> query, rows |-> changed]

=============================================================================
