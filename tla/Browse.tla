------------------------------- MODULE Browse -------------------------------
(***************************************************************************)
(* What a customer sees depends on where he is: the location the browser   *)
(* remembers, which an effect keeps to one of his saved addresses, and the *)
(* pages that are read for that location.  Pages differ in                 *)
(*   hides   while it is read again, nothing of the old page is shown      *)
(*   says    a read that failed is shown instead of the old page           *)
(*   offers  a product's page: it chooses an offer when it first comes,    *)
(*           and is read again under it when the location arrives          *)
(* Of the reads of the address list only the last counts, of the reads of  *)
(* a page whichever is answered last.                                      *)
(***************************************************************************)
EXTENDS Integers, FiniteSets

CONSTANTS
  Places, Nowhere,   \* saved addresses
  Meals, NoMeal,     \* offers of the product that are in stock
  InRange,           \* offers and the places they are delivered to
  Looks              \* reads of the page that may be in flight

\* No location, not even Nowhere: what a page has that nothing was read for.
Unread == "unread"

ASSUME BrowseAssumption ==
  /\ Nowhere \notin Places /\ NoMeal \notin Meals /\ Unread \notin Places \cup {Nowhere}
  /\ InRange \subseteq Meals \X Places

HomePage     == [hides |-> FALSE, says |-> FALSE, offers |-> FALSE]
CategoryPage == [hides |-> FALSE, says |-> TRUE, offers |-> FALSE]
StorePage    == [hides |-> FALSE, says |-> TRUE, offers |-> FALSE]
ProductPage  == [hides |-> TRUE, says |-> TRUE, offers |-> TRUE]
BrowsePages == {HomePage, CategoryPage, StorePage, ProductPage}

VARIABLES
  saved,     \* addresses at the server
  usual,     \* the default one
  location,  \* remembered by the browser
  due,       \* the effect that ensures the location has to run
  lookup,    \* its read of the list, as long as it is not cancelled
  behind,    \* the list changed or could not be read since (history)
  page,      \* the page that is open
  read,      \* the location the page was last read for
  look,      \* reads of the page in flight, by location
  seen,      \* the location the data of the page is for
  reading,   \* loading
  failed,    \* error
  picked,    \* a variant was chosen, and the offer that came with it
  chosen,
  crossing   \* two reads of the page met (history)

browseVars ==
  <<saved, usual, location, due, lookup, behind, page, read, look, seen, reading, failed,
    picked, chosen, crossing>>

NoLookup == [out |-> FALSE, list |-> {}, usual |-> Nowhere]

BrowseTypeOK ==
  /\ saved \in SUBSET Places /\ usual \in saved \cup {Nowhere}
  /\ location \in Places \cup {Nowhere}
  /\ lookup \in [out : BOOLEAN, list : SUBSET Places, usual : Places \cup {Nowhere}]
  /\ page \in BrowsePages
  /\ reading \in BOOLEAN /\ failed \in BOOLEAN
  /\ read \in Places \cup {Nowhere, Unread}
  /\ look \in [Looks -> Places \cup {Nowhere, Unread}]
  /\ seen \in Places \cup {Nowhere, Unread}
  /\ chosen \in Meals \cup {NoMeal}
  /\ due \in BOOLEAN /\ behind \in BOOLEAN /\ picked \in BOOLEAN /\ crossing \in BOOLEAN

\* Whatever an earlier visit, or an earlier customer, left in the browser.
BrowseInit ==
  /\ saved \in SUBSET Places
  /\ usual \in IF saved = {} THEN {Nowhere} ELSE saved
  /\ location \in Places \cup {Nowhere}
  /\ due = TRUE /\ lookup = NoLookup /\ behind = FALSE
  /\ page = HomePage
  /\ read = Unread /\ look = [k \in Looks |-> Unread] /\ seen = Unread
  /\ reading = TRUE /\ failed = FALSE /\ picked = FALSE /\ chosen = NoMeal /\ crossing = FALSE

pageKept ==
  <<page, read, look, seen, reading, failed, picked, chosen, crossing>>
placeKept == <<saved, usual, location, due, lookup, behind>>

-----------------------------------------------------------------------------
(* The location.                                                           *)

\* The effect, on every new path and location; what it asked before is void.
EnsureLocation ==
  /\ due
  /\ due' = FALSE
  /\ lookup' = [out |-> TRUE, list |-> saved, usual |-> usual]
  /\ behind' = FALSE
  /\ UNCHANGED <<saved, usual, location, pageKept>>

\* The list has the newest first, and it is not known which that is.
Targets(list, def) ==
  IF location \in list THEN {location} ELSE IF def \in list THEN {def} ELSE list

ListAnswered ==
  /\ lookup.out
  /\ lookup' = NoLookup
  /\ location' \in IF lookup.list = {} THEN {location} ELSE Targets(lookup.list, lookup.usual)
  /\ due' = (due \/ location' # location)
  /\ UNCHANGED <<saved, usual, behind, pageKept>>

ListLost ==
  /\ lookup.out
  /\ lookup' = NoLookup
  /\ behind' = TRUE
  /\ UNCHANGED <<saved, usual, location, due, pageKept>>

\* The address form makes what it saved the place to be.
SaveAddress(p, def) ==
  /\ saved' = saved \cup {p}
  /\ usual' = IF def \/ usual = Nowhere THEN p ELSE usual
  /\ location' = p
  /\ due' = TRUE /\ lookup' = NoLookup
  /\ UNCHANGED <<behind, pageKept>>

\* Nothing asks for the list anew until the next path.
DeleteAddress(p) ==
  /\ p \in saved
  /\ saved' = saved \ {p}
  /\ usual' \in IF usual # p THEN {usual} ELSE IF saved' = {} THEN {Nowhere} ELSE saved'
  /\ behind' = TRUE
  /\ UNCHANGED <<location, due, lookup, pageKept>>

-----------------------------------------------------------------------------
(* The page.                                                               *)

\* Another path, and its page's first read when its effect runs.
OpenPage(p) ==
  /\ page' = p
  /\ due' = TRUE /\ lookup' = NoLookup
  /\ read' = Unread /\ look' = [k \in Looks |-> Unread] /\ seen' = Unread
  /\ reading' = TRUE /\ failed' = FALSE
  /\ picked' = FALSE /\ chosen' = NoMeal /\ crossing' = FALSE
  /\ UNCHANGED <<saved, usual, location, behind>>

ReadPage(k) ==
  /\ read # location /\ look[k] = Unread
  /\ read' = location
  /\ look' = [look EXCEPT ![k] = location]
  /\ reading' = TRUE /\ failed' = FALSE
  /\ crossing' = (crossing \/ \E j \in Looks : look[j] # Unread)
  /\ UNCHANGED <<placeKept, page, seen, picked, chosen>>

\* Of the offers in stock, those that are delivered there; without a location
\* nothing is out of range.
Buyable(at) == {m \in Meals : at \in Places => <<m, at>> \in InRange}

\* The first variant, with an offer of it, when the product first comes.
PageAnswered(k) ==
  /\ look[k] # Unread
  /\ seen' = look[k]
  /\ look' = [look EXCEPT ![k] = Unread]
  /\ reading' = FALSE
  /\ picked' = page.offers
  /\ chosen' \in IF picked \/ ~page.offers THEN {chosen}
                 ELSE IF Buyable(look[k]) = {} THEN {NoMeal} ELSE Buyable(look[k])
  /\ UNCHANGED <<placeKept, page, read, failed, crossing>>

\* The data stays where it was.
PageLost(k) ==
  /\ look[k] # Unread
  /\ look' = [look EXCEPT ![k] = Unread]
  /\ reading' = FALSE /\ failed' = TRUE
  /\ UNCHANGED <<placeKept, page, read, seen, picked, chosen, crossing>>

Displayed ==
  /\ seen # Unread
  /\ page.hides => ~reading
  /\ page.says => ~failed

ChooseMeal(m) ==
  /\ page.offers /\ Displayed /\ m \in Buyable(seen)
  /\ chosen' = m
  /\ UNCHANGED <<placeKept, page, read, look, seen, reading, failed, picked,
                 crossing>>

BrowseNext ==
  \/ EnsureLocation \/ ListAnswered \/ ListLost
  \/ \E p \in BrowsePages : OpenPage(p)
  \/ \E p \in Places : DeleteAddress(p) \/ \E def \in BOOLEAN : SaveAddress(p, def)
  \/ \E k \in Looks : ReadPage(k) \/ PageAnswered(k) \/ PageLost(k)
  \/ \E m \in Meals : ChooseMeal(m)

BrowseSpec == BrowseInit /\ [][BrowseNext]_browseVars

-----------------------------------------------------------------------------
\* Once the list was read, the location is one of the customer's addresses,
\* whatever the browser remembered and in whatever order he saves, deletes
\* and moves on.
LocationIsSaved ==
  ~due /\ ~lookup.out /\ ~behind /\ saved # {} => location \in saved

\* As long as its reads do not cross and none fails, a page that waits for
\* nothing shows what is delivered to where the customer is; one that says
\* when a read failed does so in any case.
PageIsForHere ==
  /\ ~crossing /\ read = location /\ (\A k \in Looks : look[k] = Unread)
  /\ Displayed /\ (page.says \/ ~failed)
  => seen = location

\* A product chosen where it could be delivered is never on offer in a page
\* that was read for another place: the page hides while it is read again.
NothingForElsewhere ==
  ~crossing /\ page.hides /\ Displayed /\ read = location => seen = location

=============================================================================
