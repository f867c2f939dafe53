------------------------------ MODULE Screens ------------------------------
(***************************************************************************)
(* An order's page in the three panels that work on it.  A page shows the  *)
(* last answer it got, offers the moves its own copy of the transition     *)
(* table has for that status, posts one and reads again; the customer's    *)
(* and the seller's poll besides.  Reads overlap and answer in any order.  *)
(* The server's side is one step here: OrderLifecycle takes it apart.      *)
(***************************************************************************)
EXTENDS OrderStatus

CONSTANT Reads   \* reads of the page that may be in flight at the same time

VARIABLES
  status,    \* of the order, at the server
  role,      \* whose page it is
  onPage,     \* the status on the page
  onScreen,  \* the tab is not hidden
  read,      \* what each read in flight will answer
  press      \* the button's call: "idle", "reload", or the status it asks for

screenVars == <<status, role, onPage, onScreen, read, press>>

-----------------------------------------------------------------------------
ScreensTypeOK ==
  /\ status \in Status
  /\ role \in {"customer", "seller", "courier"}
  /\ onPage \in Status \cup {"nothing"}
  /\ onScreen \in BOOLEAN
  /\ read \in [Reads -> Status \cup {"free"}]
  /\ press \in Status \cup {"idle", "reload"}

ScreensInit ==
  /\ status = "PENDING"
  /\ role \in {"customer", "seller", "courier"}
  /\ onPage = "nothing"
  /\ onScreen = TRUE
  /\ read = [k \in Reads |-> "free"]
  /\ press = "idle"

-----------------------------------------------------------------------------
(* What the server accepts of each role.                                   *)

CustomerCancels == {<<"PENDING", "CANCELLED">>}
Assigns == {<<"READY", "COURIER_ASSIGNED">>}
Releases == {<<"COURIER_ASSIGNED", "READY">>}

ServerAccepts(r) ==
  CASE r = "customer" -> CustomerCancels
    [] r = "seller"   -> SellerTransitions \cup Assigns
    [] r = "courier"  -> CourierTransitions \cup Releases

Moves == UNION {ServerAccepts(r) : r \in {"customer", "seller", "courier"}}

\* Somebody else, or the same person elsewhere.
OthersMove ==
  /\ \E m \in Moves : m[1] = status /\ status' = m[2]
  /\ UNCHANGED <<role, onPage, onScreen, read, press>>

-----------------------------------------------------------------------------
(* The buttons of the three pages, by tables of their own.                 *)

CustomerButtons(s) == IF s = "PENDING" THEN {"CANCELLED"} ELSE {}

\* Slip: the seller's panel still sends orders of a courier on their way.
SellerButtonsOfOld(s) ==
  {t \in Status :
     <<s, t>> \in {<<"PENDING", "ACCEPTED">>, <<"PENDING", "REJECTED">>,
                   <<"ACCEPTED", "PREPARING">>, <<"ACCEPTED", "CANCELLED">>,
                   <<"PREPARING", "READY">>, <<"PREPARING", "CANCELLED">>,
                   <<"READY", "ON_WAY">>, <<"READY", "CANCELLED">>,
                   <<"READY", "COURIER_ASSIGNED">>,
                   <<"COURIER_ASSIGNED", "ON_WAY">>, <<"ON_WAY", "DELIVERED">>}}

SellerButtons(s) ==
  {t \in Status :
     <<s, t>> \in {<<"PENDING", "ACCEPTED">>, <<"PENDING", "REJECTED">>,
                   <<"ACCEPTED", "PREPARING">>, <<"ACCEPTED", "CANCELLED">>,
                   <<"PREPARING", "READY">>, <<"PREPARING", "CANCELLED">>,
                   <<"READY", "ON_WAY">>, <<"READY", "CANCELLED">>,
                   <<"READY", "COURIER_ASSIGNED">>, <<"ON_WAY", "DELIVERED">>}}

\* COURIER_ACTION and canRelease.
CourierButtons(s) ==
  CASE s = "COURIER_ASSIGNED" -> {"ON_WAY", "READY"}
    [] s = "ON_WAY" -> {"DELIVERED"}
    [] OTHER -> {}

Buttons(r, s) ==
  CASE r = "customer" -> CustomerButtons(s)
    [] r = "seller"   -> SellerButtons(s)
    [] r = "courier"  -> CourierButtons(s)

-----------------------------------------------------------------------------
(* Reading.                                                                *)

Ask(k) == read[k] = "free" /\ read' = [read EXCEPT ![k] = status]

\* The effect of the page, once; again when the person loads it again.
OpenPage(k) ==
  /\ onPage = "nothing" /\ \A j \in Reads : read[j] = "free"
  /\ Ask(k)
  /\ UNCHANGED <<status, role, onPage, onScreen, press>>

Polled(r) == r \in {"customer", "seller"}

\* Slip: the detail page polls no more.
PollNever(k) ==
  /\ Polled(role) /\ onScreen /\ onPage = "nothing"
  /\ Ask(k)
  /\ UNCHANGED <<status, role, onPage, onScreen, press>>

\* The interval; it waits for no answer.
PollOrder(k) ==
  /\ Polled(role) /\ onScreen
  /\ Ask(k)
  /\ UNCHANGED <<status, role, onPage, onScreen, press>>

\* Whatever comes is shown, the newer or the older.
ShowOrder(k) ==
  /\ read[k] # "free"
  /\ onPage' = read[k]
  /\ read' = [read EXCEPT ![k] = "free"]
  /\ UNCHANGED <<status, role, onScreen, press>>

\* An error leaves what was shown before.
ReadLost(k) ==
  /\ read[k] # "free"
  /\ read' = [read EXCEPT ![k] = "free"]
  /\ UNCHANGED <<status, role, onPage, onScreen, press>>

HideTab ==
  /\ onScreen' = ~onScreen
  /\ UNCHANGED <<status, role, onPage, read, press>>

-----------------------------------------------------------------------------
(* Acting: the call, and on success the read that follows it.  A courier   *)
(* who releases leaves the page instead.                                   *)

PressButton(t) ==
  /\ press = "idle" /\ onPage # "nothing"
  /\ t \in Buttons(role, onPage)
  /\ press' = t
  /\ UNCHANGED <<status, role, onPage, onScreen, read>>

PressTaken ==
  /\ press \in Status
  /\ <<status, press>> \in ServerAccepts(role)
  /\ status' = press
  /\ press' \in {"reload", "idle"}
  /\ UNCHANGED <<role, onPage, onScreen, read>>

PressRefused ==
  /\ press \in Status
  /\ press' = "idle"
  /\ UNCHANGED <<status, role, onPage, onScreen, read>>

ReloadOrder(k) ==
  /\ press = "reload"
  /\ Ask(k)
  /\ press' = "idle"
  /\ UNCHANGED <<status, role, onPage, onScreen>>

ScreensNext ==
  \/ OthersMove \/ HideTab \/ PressTaken \/ PressRefused
  \/ \E t \in Status : PressButton(t)
  \/ \E k \in Reads : OpenPage(k) \/ PollOrder(k) \/ ShowOrder(k) \/ ReadLost(k) \/ ReloadOrder(k)

\* The interval runs, every read comes back or fails, and not all of them fail.
ScreensFairness ==
  /\ \A k \in Reads : /\ WF_screenVars(PollOrder(k))
                      /\ WF_screenVars(ShowOrder(k) \/ ReadLost(k))
  /\ SF_screenVars(\E k \in Reads : ShowOrder(k))

ScreensSpec == ScreensInit /\ [][ScreensNext]_screenVars /\ ScreensFairness

-----------------------------------------------------------------------------
\* The four copies of the transition tables agree: a page that shows the truth
\* offers nothing the server would refuse, and no order that still has a way
\* to go is without a button for somebody.
ButtonsMatch ==
  /\ onPage = status => \A t \in Buttons(role, onPage) : <<status, t>> \in ServerAccepts(role)
  /\ status \notin Terminal => \E r \in {"seller", "courier"} : Buttons(r, status) # {}

\* A page that polls and stays visible comes to show the status an order rests
\* in, although older answers may arrive after newer ones.
ScreenConverges ==
  Polled(role) =>
    \A s \in Status : <>[](status = s /\ onScreen) => <>[](onPage = s)

=============================================================================
