------------------------------- MODULE Inbox -------------------------------
(***************************************************************************)
(* NotificationsService.send for one user: the row first, then a copy in   *)
(* the list the Telegram worker pops.  Beside it AuthService queues codes. *)
(***************************************************************************)
EXTENDS Delivery, FiniteSets

ASSUME InboxAssumption == "telegram" \in Lists

VARIABLES
  stored,     \* rows, numbered in order of creation: read or unread is Poller's
  sender,   \* the send in flight: its row and what it does next
  codes     \* login codes published

inboxVars == <<stored, sender, codes, deliveryVars>>

InboxTypeOK ==
  /\ DeliveryTypeOK
  /\ stored \subseteq Jobs
  /\ sender \in [pc : {"idle", "create", "mirror"}, row : {0} \cup Jobs]
  /\ codes \in 0..MaxJobs

InboxInit ==
  /\ DeliveryInit
  /\ stored = {}
  /\ sender = [pc |-> "idle", row |-> 0]
  /\ codes = 0

-----------------------------------------------------------------------------
\* resolveRecipients found the user.
Send ==
  /\ sender.pc = "idle"
  /\ stored # Jobs
  /\ sender' = [pc |-> "create", row |-> Cardinality(stored) + 1]
  /\ UNCHANGED <<stored, codes, deliveryVars>>

\* Slip: Telegram first.
MirrorFirst ==
  /\ sender.pc = "create"
  /\ Publish("telegram", sender.row)
  /\ sender' = [sender EXCEPT !.pc = "mirror"]
  /\ UNCHANGED <<stored, codes>>

CreateRows ==
  /\ sender.pc = "create"
  /\ stored' = stored \cup {sender.row}
  /\ sender' = [sender EXCEPT !.pc = "mirror"]
  /\ UNCHANGED <<codes, deliveryVars>>

\* Order events of a linked account are mirrored, others are not.
PushTelegram ==
  /\ sender.pc = "mirror"
  /\ sender' = [pc |-> "idle", row |-> 0]
  /\ Publish("telegram", sender.row) \/ UNCHANGED deliveryVars
  /\ UNCHANGED <<stored, codes>>

\* A failed call; rows that were created stay.
SendFails ==
  /\ sender.pc # "idle"
  /\ sender' = [pc |-> "idle", row |-> 0]
  /\ UNCHANGED <<stored, codes, deliveryVars>>

PublishCode ==
  /\ codes < MaxJobs
  /\ codes' = codes + 1
  /\ \E l \in Lists \ {"telegram"} : Publish(l, codes + 1)
  /\ UNCHANGED <<stored, sender>>

InboxNext ==
  \/ Send \/ CreateRows \/ PushTelegram \/ SendFails \/ PublishCode
  \/ (\/ \E l \in Lists : Worker(l)
      \/ BotRestart) /\ UNCHANGED <<stored, sender, codes>>

InboxSpec == InboxInit /\ [][InboxNext]_inboxVars

-----------------------------------------------------------------------------
InList(s, j) == \E i \in 1..Len(s) : s[i] = j

\* A Telegram copy never exists without its row: the row is the source of
\* truth, the copy may be lost.
CopyHasRow ==
  \A n \in Jobs :
    held["telegram"] = n \/ InList(sent["telegram"], n) \/ InList(queue["telegram"], n)
      => n \in stored

\* The lists keep their order and copy only what is stored.
ListsAreTrue == SentInOrder /\ CopyHasRow

=============================================================================
