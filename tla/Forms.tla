-------------------------------- MODULE Forms --------------------------------
(***************************************************************************)
(* A form of the front ends: what it shows of a row, what a person changes *)
(* in it, and the calls its buttons send.  A form has two groups of        *)
(* inputs, for buttons that send only one of them.  Forms differ in        *)
(*   fills    when the inputs are set: as it opens, from the row or blank; *)
(*            whenever the page's copy of the row changes; or on both      *)
(*   buttons  the groups that each of its buttons sends                    *)
(*   then     what follows success: the form closes and the page reads the *)
(*            row again, stays until it has, takes the answer for the row, *)
(*            is blank again, or is left                                   *)
(*   enter    one line and a button outside of it: Enter sends it, even    *)
(*            while the button waits                                       *)
(*   modal    it closes on Escape while it saves, and can be opened anew   *)
(*   flips    the second group is a switch that is sent as it is touched   *)
(***************************************************************************)
EXTENDS Integers, FiniteSets

CONSTANTS
  Saves   \* calls that may be in flight

Groups == {"words", "more"}
Texts == {"old", "new"}
Text == [Groups -> Texts]
Empty == [g \in Groups |-> "old"]
Whole == {Groups}
InParts == {{"words"}, {"more"}}

-----------------------------------------------------------------------------
(* The forms.                                                              *)

Modal == [fills |-> "opened", blank |-> FALSE, buttons |-> Whole, then |-> "closes",
          enter |-> FALSE, modal |-> TRUE, flips |-> FALSE]
Blanks == [Modal EXCEPT !.blank = TRUE]
OnPage == [Modal EXCEPT !.modal = FALSE]

BrandEditModal == Modal
ValueModal == Modal
RoleFormModal == Modal
AssignRoleModal == Modal
CreateAttributeModal == Blanks
CreateCategoryModal == Blanks
BlockUserModal == [Blanks EXCEPT !.enter = TRUE]
EditCategoryModal == [Modal EXCEPT !.fills = "both"]
AttachAttributeModal == [Blanks EXCEPT !.fills = "both", !.enter = TRUE]

AddressForm == OnPage
ContractPaymentEditor == [OnPage EXCEPT !.fills = "once"]
StoreForm == [OnPage EXCEPT !.fills = "once", !.then = "answer"]
NewProductPage == [OnPage EXCEPT !.blank = TRUE, !.then = "leaves"]
SendNotificationForm == [OnPage EXCEPT !.fills = "once", !.blank = TRUE, !.then = "clears"]
ApplyForm == [OnPage EXCEPT !.fills = "loaded", !.then = "rereads"]
CourierProfileForm ==
  [OnPage EXCEPT !.fills = "loaded", !.then = "answer", !.flips = TRUE,
                 !.buttons = {Groups, {"more"}}]
SellerProductForms ==
  [OnPage EXCEPT !.fills = "loaded", !.then = "rereads", !.buttons = InParts]

FormKinds ==
  {BrandEditModal, ValueModal, RoleFormModal, AssignRoleModal, CreateAttributeModal,
   CreateCategoryModal, BlockUserModal, EditCategoryModal, AttachAttributeModal, AddressForm,
   ContractPaymentEditor, StoreForm, NewProductPage, SendNotificationForm, ApplyForm,
   CourierProfileForm, SellerProductForms}

-----------------------------------------------------------------------------
VARIABLES
  sheet,     \* the form
  opened,    \* it is on display
  row,       \* what the server holds
  copied,    \* the page's copy of it
  inputs,    \* the inputs
  typed,     \* groups changed since they were filled or sent (history)
  lock,      \* buttons that wait
  save,      \* calls in flight: the groups they send and their text
  reread,    \* the page's read of the row is in flight
  dropped,   \* text was replaced or put away that nobody sent (history)
  hasty,     \* a call was in flight as a person typed or opened the form (history)
  rivals     \* two calls met, another changed the row, or one got lost (history)

formVars ==
  <<sheet, opened, row, copied, inputs, typed, lock, save, reread, dropped, hasty, rivals>>

NoSave == [pc |-> "idle", sends |-> {}, text |-> Empty]
Open(c) == save[c].pc # "idle"
Quiet == \A c \in Saves : ~Open(c)

FormTypeOK ==
  /\ sheet \in FormKinds
  /\ row \in Text /\ copied \in Text /\ inputs \in Text
  /\ typed \in SUBSET Groups
  /\ lock \in SUBSET sheet.buttons
  /\ save \in [Saves -> [pc : {"idle", "sent", "done", "reading"},
                         sends : SUBSET Groups, text : Text]]
  /\ {opened, reread, dropped, hasty, rivals} \subseteq BOOLEAN

FormInit ==
  /\ sheet \in FormKinds
  /\ row = Empty /\ copied = Empty /\ inputs = Empty /\ typed = {}
  /\ opened = ~sheet.modal
  /\ lock = {} /\ save = [c \in Saves |-> NoSave] /\ reread = FALSE
  /\ dropped = FALSE /\ hasty = FALSE /\ rivals = FALSE

-----------------------------------------------------------------------------
(* The person.                                                             *)

\* A page that waits for its row shows nothing else.
Before == opened /\ ~(sheet.then = "rereads" /\ reread)

\* Text typed after that is counted no more.
Hurries == hasty' = (hasty \/ ~Quiet)
Types(gs) == typed' = IF hasty' \/ dropped THEN {} ELSE gs

OpenForm ==
  /\ ~opened
  /\ opened' = TRUE
  /\ inputs' = IF sheet.fills = "once" THEN inputs ELSE IF sheet.blank THEN Empty ELSE copied
  /\ Hurries /\ Types(IF sheet.fills = "once" THEN typed ELSE {})
  /\ UNCHANGED <<sheet, row, copied, lock, save, reread, dropped, rivals>>

\* Cancel waits for the call; Escape, the cross and the backdrop do not.
CloseForm ==
  /\ opened /\ sheet.then = "closes" /\ (sheet.modal \/ lock = {})
  /\ opened' = FALSE
  /\ UNCHANGED <<sheet, row, copied, inputs, typed, lock, save, reread, dropped, hasty, rivals>>

TypeText(g, t) ==
  /\ Before /\ inputs[g] # t /\ ~(sheet.flips /\ g = "more")
  /\ inputs' = [inputs EXCEPT ![g] = t]
  /\ Hurries /\ Types(typed \cup {g})
  /\ UNCHANGED <<sheet, opened, row, copied, lock, save, reread, dropped, rivals>>

\* Slip: the button can be pressed while it waits.
UnlocksAlways(b) == b \in sheet.buttons

Unlocks(b) == b \notin lock \/ sheet.enter

Posts(c, b, text) ==
  /\ save[c].pc = "idle"
  /\ save' = [save EXCEPT ![c] = [pc |-> "sent", sends |-> b, text |-> text]]
  /\ lock' = lock \cup {b}
  /\ rivals' = (rivals \/ ~Quiet \/ reread)
  /\ typed' = typed \ b

Submit(c, b) ==
  /\ Before /\ Unlocks(b) /\ ~(sheet.flips /\ b = {"more"})
  /\ Posts(c, b, inputs)
  /\ UNCHANGED <<sheet, opened, row, copied, inputs, reread, dropped, hasty>>

\* toggleOnline: the switch moves at once, and back if the call fails.
Toggle(c) ==
  /\ sheet.flips /\ Before /\ Unlocks({"more"})
  /\ \E t \in Texts \ {inputs["more"]} :
       /\ inputs' = [inputs EXCEPT !["more"] = t]
       /\ Posts(c, {"more"}, [inputs EXCEPT !["more"] = t])
  /\ UNCHANGED <<sheet, opened, row, copied, reread, dropped, hasty>>

-----------------------------------------------------------------------------
(* The calls.                                                              *)

SaveApplied(c) ==
  /\ save[c].pc = "sent"
  /\ row' = [g \in Groups |-> IF g \in save[c].sends THEN save[c].text[g] ELSE row[g]]
  /\ save' = [save EXCEPT ![c].pc = "done", ![c].text = row']
  /\ UNCHANGED <<sheet, opened, copied, inputs, typed, lock, reread, dropped, hasty, rivals>>

\* The inputs follow the page's copy; what was typed there is gone.
Fill(text) ==
  /\ inputs' = IF sheet.blank THEN Empty ELSE text
  /\ dropped' = (dropped \/ typed # {})
  /\ typed' = {}

Kept == UNCHANGED <<inputs, dropped, typed>>
Ends(c) == save' = [save EXCEPT ![c] = NoSave] /\ lock' = lock \ {save[c].sends}

\* Refused, or lost before or after the server had it.
SaveFails(c) ==
  /\ save[c].pc \in {"sent", "done"}
  /\ Ends(c)
  /\ rivals' = TRUE
  /\ inputs' = IF sheet.flips /\ save[c].sends = {"more"}
              THEN [inputs EXCEPT !["more"] = CHOOSE t \in Texts : t # save[c].text["more"]]
              ELSE inputs
  /\ UNCHANGED <<sheet, opened, row, copied, typed, reread, dropped, hasty>>

\* onSaved puts away what is on display, whichever opening it belongs to.
SavedCloses(c) ==
  /\ save[c].pc = "done" /\ sheet.then = "closes"
  /\ Ends(c)
  /\ opened' = FALSE
  /\ reread' = TRUE
  /\ dropped' = (dropped \/ (opened /\ typed # {}))
  /\ typed' = {}
  /\ UNCHANGED <<sheet, row, copied, inputs, hasty, rivals>>

SavedRereads(c) ==
  /\ save[c].pc = "done" /\ sheet.then = "rereads"
  /\ save' = [save EXCEPT ![c].pc = "reading"]
  /\ reread' = TRUE
  /\ UNCHANGED <<sheet, opened, row, copied, inputs, typed, lock, dropped, hasty, rivals>>

\* The switch takes no answer, and leaves the inputs beside it alone.
SavedShows(c) ==
  /\ save[c].pc = "done" /\ sheet.then = "answer"
  /\ Ends(c)
  /\ IF sheet.flips /\ save[c].sends = {"more"}
     THEN Kept /\ copied' = copied
     ELSE /\ copied' = save[c].text
          /\ IF sheet.fills = "loaded" THEN Fill(save[c].text) ELSE Kept
  /\ UNCHANGED <<sheet, opened, row, reread, hasty, rivals>>

SavedClears(c) ==
  /\ save[c].pc = "done" /\ sheet.then = "clears"
  /\ Ends(c)
  /\ Fill(Empty)
  /\ UNCHANGED <<sheet, opened, row, copied, reread, hasty, rivals>>

\* The button waits until the page is gone.
SavedLeaves(c) ==
  /\ save[c].pc = "done" /\ sheet.then = "leaves"
  /\ Ends(c)
  /\ opened' = FALSE
  /\ UNCHANGED <<sheet, row, copied, inputs, typed, reread, dropped, hasty, rivals>>

-----------------------------------------------------------------------------
(* The page around the sheet.                                               *)

\* Another of its buttons, a row detached, reads the page again.
PageRereads ==
  /\ sheet.modal /\ ~reread
  /\ reread' = TRUE
  /\ UNCHANGED <<sheet, opened, row, copied, inputs, typed, lock, save, dropped, hasty, rivals>>

\* The effect that fills a product's inputs frees its offers' buttons too.
Freed == IF sheet.buttons = InParts THEN {{"more"}} ELSE {}

RereadEnds ==
  /\ reread
  /\ reread' = FALSE
  /\ save' = [c \in Saves |-> IF save[c].pc = "reading" THEN NoSave ELSE save[c]]
  /\ UNCHANGED <<sheet, opened, row, hasty>>

Awaited == {save[c].sends : c \in {d \in Saves : save[d].pc = "reading"}}

RowShown ==
  /\ RereadEnds
  /\ copied' = row
  /\ IF sheet.fills = "loaded" \/ (sheet.fills = "both" /\ opened) THEN Fill(row) ELSE Kept
  /\ lock' = lock \ (Awaited \cup Freed)
  /\ UNCHANGED rivals

RereadLost ==
  /\ RereadEnds
  /\ lock' = lock \ Awaited
  /\ rivals' = TRUE
  /\ Kept /\ UNCHANGED copied

\* Another admin, or a customer who buys of the stock.
OthersChange(g, t) ==
  /\ row[g] # t /\ ~rivals
  /\ row' = [row EXCEPT ![g] = t]
  /\ rivals' = TRUE
  /\ UNCHANGED <<sheet, opened, copied, inputs, typed, lock, save, reread, dropped, hasty>>

FormNext ==
  \/ OpenForm \/ CloseForm \/ PageRereads \/ RowShown \/ RereadLost
  \/ \E g \in Groups, t \in Texts : TypeText(g, t) \/ OthersChange(g, t)
  \/ \E c \in Saves :
       \/ Toggle(c) \/ SaveApplied(c) \/ SaveFails(c) \/ SavedCloses(c) \/ SavedRereads(c)
       \/ SavedShows(c) \/ SavedClears(c) \/ SavedLeaves(c)
       \/ \E b \in sheet.buttons : Submit(c, b)

FormSpec == FormInit /\ [][FormNext]_formVars

-----------------------------------------------------------------------------
\* However often a button is pressed, one call of it is in flight: what it
\* adds is added once.  A form that Enter sends has no such lock, and an
\* offer of the product's page loses its lock when the page is filled anew.
OneCallPerButton ==
  \A c, d \in Saves :
    c # d /\ Open(c) /\ save[c].sends = save[d].sends =>
      sheet.enter \/ (sheet.buttons = InParts /\ save[c].sends = {"more"})

\* A button waits only for its call.
ButtonsSettle == \A b \in lock : \E c \in Saves : Open(c) /\ save[c].sends = b

\* What a person types, with no call of the form under way, is in front of
\* him until he sends it or puts it away: touching the courier's switch does
\* not undo it.  Where each part has its button, and where an effect follows
\* the page's data, other parts of the page do.
TextIsKept ==
  dropped => hasty \/ sheet.buttons = InParts \/ sheet.fills = "both"

\* As long as no call of the form met another, failed, or was under way as a
\* person typed, and nobody else changed the row, a page at rest shows what the
\* server holds, the courier's switch with it.
ShowsTheRow ==
  ~rivals /\ ~hasty /\ Quiet /\ ~reread =>
    /\ sheet.then \in {"closes", "rereads"} \/ sheet = StoreForm => copied = row
    /\ sheet.flips => inputs["more"] = row["more"]

=============================================================================
