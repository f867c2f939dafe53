------------------------------- MODULE Poller -------------------------------
(***************************************************************************)
(* NotificationsProvider, the same in three front ends: a page polls the   *)
(* unread count every five seconds, fetches the list when it grew and      *)
(* toasts what is new.  Answers of polls, of the bell and of read marks    *)
(* arrive in any order.  The server's rows are those of one user.          *)
(***************************************************************************)
EXTENDS Integers, FiniteSets

CONSTANTS
  MaxNotes,    \* bound: notifications sent to the user
  Polls,       \* ticks that may be in flight at the same time
  ToastLimit,  \* toasts of one tick
  MaxTouches   \* bound: the bell and read marks in flight besides the ticks

ASSUME PollerAssumption == MaxNotes \in Nat /\ ToastLimit \in Nat /\ MaxTouches \in Nat

VARIABLES
  note,     \* the user's rows, numbered in order of creation
  badge,    \* unread, as the page shows it
  prev,     \* prevUnread, -1 before the first poll
  seen,     \* seenIds
  toasts,   \* how often each row was toasted (history)
  visible,  \* the tab is not hidden
  poll,     \* ticks in flight
  bell,     \* the bell's list in flight: how many rows, how many unread
  marks     \* read marks whose answer is on its way; 0 marks all

pollerVars == <<note, badge, prev, seen, toasts, visible, poll, bell, marks>>

-----------------------------------------------------------------------------
Notes == 1..MaxNotes
NoPoll == [pc |-> "idle", count |-> 0]
NoBell == [rows |-> 0, unread |-> MaxNotes]

Rows == {n \in Notes : note[n] # "none"}
Unread == {n \in Notes : note[n] = "unread"}
UnreadCount == Cardinality(Unread)

PollerTypeOK ==
  /\ note \in [Notes -> {"none", "unread", "read"}]
  /\ badge \in 0..MaxNotes
  /\ prev \in -1..MaxNotes
  /\ seen \subseteq Notes
  /\ toasts \in [Notes -> Nat]
  /\ visible \in BOOLEAN
  /\ poll \in [Polls -> [pc : {"idle", "count", "list", "seed"}, count : 0..MaxNotes]]
  /\ bell \in {NoBell} \cup [rows : 0..MaxNotes, unread : 0..MaxNotes]
  /\ marks \subseteq {0} \cup Notes

PollerInit ==
  /\ note = [n \in Notes |-> "none"]
  /\ badge = 0
  /\ prev = -1
  /\ seen = {}
  /\ toasts = [n \in Notes |-> 0]
  /\ visible = TRUE
  /\ poll = [k \in Polls |-> NoPoll]
  /\ bell = NoBell
  /\ marks = {}

-----------------------------------------------------------------------------
\* createMany: the next row of the user.
Arrive ==
  /\ \E n \in Notes : /\ note[n] = "none"
                      /\ \A m \in Notes : m < n => note[m] # "none"
                      /\ note' = [note EXCEPT ![n] = "unread"]
  /\ UNCHANGED <<badge, prev, seen, toasts, visible, poll, bell, marks>>

VisibilityChange ==
  /\ visible' = ~visible
  /\ UNCHANGED <<note, badge, prev, seen, toasts, poll, bell, marks>>

\* The server counts; the answer is on its way.
Tick(k) ==
  /\ visible
  /\ poll[k].pc = "idle"
  /\ poll' = [poll EXCEPT ![k] = [pc |-> "count", count |-> UnreadCount]]
  /\ UNCHANGED <<note, badge, prev, seen, toasts, visible, bell, marks>>

\* The first answer seeds, a grown count asks for the list; else it is kept.
Counted(k) ==
  LET count == poll[k].count
  IN /\ poll[k].pc = "count"
     /\ badge' = count
     /\ prev' = IF prev >= 0 /\ count > prev THEN prev ELSE count
     /\ poll' = [poll EXCEPT ![k] = IF prev < 0 THEN [@ EXCEPT !.pc = "seed"]
                                    ELSE IF count > prev THEN [@ EXCEPT !.pc = "list"]
                                    ELSE NoPoll]
     /\ UNCHANGED <<note, seen, toasts, visible, bell, marks>>

Seeded(k) ==
  /\ poll[k].pc = "seed"
  /\ seen' = seen \cup Rows
  /\ poll' = [poll EXCEPT ![k] = NoPoll]
  /\ UNCHANGED <<note, badge, prev, toasts, visible, bell, marks>>

\* The newest come first.
Newest(s) == {n \in s : Cardinality({m \in s : m > n}) < ToastLimit}

Toast(s) == toasts' = [n \in Notes |-> IF n \in s THEN toasts[n] + 1 ELSE toasts[n]]

\* Slip: everything unread is fresh.
ListedUnread(k) ==
  LET fresh == Unread
  IN /\ poll[k].pc = "list"
     /\ seen' = seen \cup fresh
     /\ Toast(Newest(fresh))
     /\ prev' = poll[k].count
     /\ poll' = [poll EXCEPT ![k] = NoPoll]
     /\ UNCHANGED <<note, badge, visible, bell, marks>>

\* What exceeds the limit counts as seen and is never toasted.
Listed(k) ==
  LET fresh == Unread \ seen
  IN /\ poll[k].pc = "list"
     /\ seen' = seen \cup fresh
     /\ Toast(Newest(fresh))
     /\ prev' = poll[k].count
     /\ poll' = [poll EXCEPT ![k] = NoPoll]
     /\ UNCHANGED <<note, badge, visible, bell, marks>>

PollFails(k) ==
  /\ poll[k].pc # "idle"
  /\ poll' = [poll EXCEPT ![k] = NoPoll]
  /\ UNCHANGED <<note, badge, prev, seen, toasts, visible, bell, marks>>

-----------------------------------------------------------------------------
(* The bell and the read marks.                                            *)

MayTouch == Cardinality(marks) + (IF bell = NoBell THEN 0 ELSE 1) < MaxTouches

OpenBell ==
  /\ MayTouch /\ bell = NoBell
  /\ bell' = [rows |-> Cardinality(Rows), unread |-> UnreadCount]
  /\ UNCHANGED <<note, badge, prev, seen, toasts, visible, poll, marks>>

ShowBell ==
  /\ bell # NoBell
  /\ \/ badge' = bell.unread /\ seen' = seen \cup (1..bell.rows)
     \/ UNCHANGED <<badge, seen>>
  /\ bell' = NoBell
  /\ UNCHANGED <<note, prev, toasts, visible, poll, marks>>

MarkRead(n) ==
  /\ MayTouch /\ note[n] = "unread" /\ n \in seen
  /\ note' = [note EXCEPT ![n] = "read"]
  /\ marks' = marks \cup {n}
  /\ UNCHANGED <<badge, prev, seen, toasts, visible, poll, bell>>

MarkAllRead ==
  /\ MayTouch /\ 0 \notin marks /\ badge > 0
  /\ note' = [n \in Notes |-> IF note[n] = "unread" THEN "read" ELSE note[n]]
  /\ marks' = marks \cup {0}
  /\ UNCHANGED <<badge, prev, seen, toasts, visible, poll, bell>>

\* The answer, or its loss.
Marked(n) ==
  /\ n \in marks
  /\ \/ badge' = IF n = 0 \/ badge = 0 THEN 0 ELSE badge - 1
     \/ UNCHANGED badge
  /\ marks' = marks \ {n}
  /\ UNCHANGED <<note, prev, seen, toasts, visible, poll, bell>>

PollStep(k) == Counted(k) \/ Seeded(k) \/ Listed(k) \/ PollFails(k)

PollerNext ==
  \/ Arrive \/ VisibilityChange \/ OpenBell \/ ShowBell \/ MarkAllRead
  \/ \E k \in Polls : Tick(k) \/ PollStep(k)
  \/ \E n \in Notes : MarkRead(n)
  \/ \E n \in {0} \cup Notes : Marked(n)

\* The event loop and the interval run; the network does not lose every
\* answer to a poll.
PollerFairness ==
  /\ \A k \in Polls : WF_pollerVars(Tick(k)) /\ WF_pollerVars(PollStep(k))
  /\ SF_pollerVars(\E k \in Polls : Counted(k))

PollerSpec == PollerInit /\ [][PollerNext]_pollerVars /\ PollerFairness

-----------------------------------------------------------------------------
\* No row is toasted twice, although ticks overlap (an interval that ends
\* while a slow one still waits, a tab that becomes visible) and each of
\* them finds the count grown.
NoToastTwice == \A n \in Notes : toasts[n] <= 1

\* On a page that stays visible the badge comes to show what is unread, in
\* whatever order the answers of polls, bell and marks arrive.
BadgeConverges == <>[]visible => <>[](badge = UnreadCount)

=============================================================================
