----------------------------- MODULE MCAccounts -----------------------------
(***************************************************************************)
(* Accounts, the messages queued for them, and the pages of the panels on  *)
(* which people get in, decide lists and fill forms share no variable:     *)
(* part picks the one a behaviour is about, so that one run checks each of *)
(* them by itself.                                                         *)
(***************************************************************************)
EXTENDS Sessions, Linking, Staff, Inbox, Lists, Entry, Forms, Sockets, TLC

CONSTANTS u1, a1, i1, i2, i3, h1, h2, k1, k2

\* Rows are drawn from one set, handlers and calls from another: few permutations
\* serve all parts.
Symmetry == Permutations({i1, i2, i3}) \cup Permutations({h1, h2})

VARIABLE part

accountsVars ==
  <<part, sessionVars, linkVars, staffVars, inboxVars, listVars, entryVars, formVars,
    socketVars>>

\* In the runs of the others a part has one initial state, or, if it belongs to
\* the panels, no state at all.
AccountsInit ==
  /\ part \in {"sessions", "linking", "staff", "inbox", "lists", "entry", "forms",
              "sockets"}
  /\ SessionsInit /\ StaffInit /\ InboxInit
  /\ IF part = "linking" THEN LinkInit
     ELSE /\ user = [i \in Ids |-> NoUser] /\ bot = BotIdle /\ visit = {} /\ shared = {}
  /\ IF part = "lists" THEN ListInit
     ELSE /\ kind = {} /\ changed = {} /\ query = {} /\ fetch = {} /\ view = {}
          /\ spinner = {} /\ failure = {} /\ busy = {} /\ deed = {} /\ met = {}
  /\ IF part = "entry" THEN EntryInit
     ELSE /\ panel = {} /\ member = {} /\ been = {} /\ route = {} /\ token = {}
          /\ me = {} /\ asked = {} /\ login = {} /\ ask = {} /\ leaving = {}
          /\ hops = {} /\ mingled = {}
  /\ IF part = "forms" THEN FormInit
     ELSE /\ sheet = {} /\ opened = {} /\ row = {} /\ copied = {} /\ inputs = {}
          /\ typed = {} /\ lock = {} /\ save = {} /\ reread = {} /\ dropped = {}
          /\ hasty = {} /\ rivals = {}
  /\ IF part = "sockets" THEN SocketsInit
     ELSE /\ badge = {} /\ worn = {} /\ outworn = {} /\ effectDue = {}
          /\ heeding = {} /\ cached = {} /\ wire = {} /\ rooms = {}
          /\ connected = {}

AccountsNext ==
  /\ UNCHANGED part
  /\ \/ /\ part = "sessions" /\ SessionsNext
        /\ UNCHANGED <<linkVars, staffVars, inboxVars, listVars, entryVars, formVars,
                       socketVars>>
     \/ /\ part = "linking" /\ LinkNext
        /\ UNCHANGED <<sessionVars, staffVars, inboxVars, listVars, entryVars, formVars,
                       socketVars>>
     \/ /\ part = "staff" /\ StaffNext
        /\ UNCHANGED <<sessionVars, linkVars, inboxVars, listVars, entryVars, formVars,
                       socketVars>>
     \/ /\ part = "inbox" /\ InboxNext
        /\ UNCHANGED <<sessionVars, linkVars, staffVars, listVars, entryVars, formVars,
                       socketVars>>
     \/ /\ part = "lists" /\ ListNext
        /\ UNCHANGED <<sessionVars, linkVars, staffVars, inboxVars, entryVars, formVars,
                       socketVars>>
     \/ /\ part = "entry" /\ EntryNext
        /\ UNCHANGED <<sessionVars, linkVars, staffVars, inboxVars, listVars, formVars,
                       socketVars>>
     \/ /\ part = "forms" /\ FormNext
        /\ UNCHANGED <<sessionVars, linkVars, staffVars, inboxVars, listVars, entryVars,
                       socketVars>>
     \/ /\ part = "sockets" /\ SocketsNext
        /\ UNCHANGED <<sessionVars, linkVars, staffVars, inboxVars, listVars, entryVars,
                       formVars>>

AccountsSpec == AccountsInit /\ [][AccountsNext]_accountsVars

-----------------------------------------------------------------------------
\* Rows, handlers, lists and pages of all parts have their types.
AccountsTypeOK ==
  CASE part = "sessions" -> SessionsTypeOK
    [] part = "linking"  -> LinkTypeOK
    [] part = "staff"    -> StaffTypeOK
    [] part = "inbox"    -> InboxTypeOK
    [] part = "lists"    -> ListTypeOK
    [] part = "entry"    -> EntryTypeOK
    [] part = "forms"    -> FormTypeOK
    [] part = "sockets"  -> SocketsTypeOK

\* Whatever calls of a page cross, and in whatever order they are answered: no
\* spinner or button waits for a call that is over, the seller's panel keeps
\* sellers' tokens only, redirects end, a button has one call (but for those of
\* forms that Enter sends and of an offer), and one connection serves a page.
PanelsStand ==
  /\ part = "lists"   => NothingHangs /\ OneDecisionAtATime
  /\ part = "entry"   => KeepsSellersOnly /\ NoCircles /\ FormsSettle
  /\ part = "forms"   => OneCallPerButton /\ ButtonsSettle
  /\ part = "sockets" => SocketsStand

\* As long as no calls of a page crossed: a list at rest shows what was done with
\* it, a panel works for the person whose tokens it holds, and a form keeps what
\* is typed and shows the row it saved.
PanelsShowAlone ==
  /\ part = "lists" => ShowsWhatWasDone
  /\ part = "entry" => ShowsTheirOwn
  /\ part = "forms" => TextIsKept /\ ShowsTheRow

=============================================================================
