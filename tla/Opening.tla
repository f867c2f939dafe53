------------------------------- MODULE Opening -------------------------------
(***************************************************************************)
(* The weekly hours of a store: what the seller's editor writes into them, *)
(* and what isStoreOpenNow makes of them as time goes by.  A day has few   *)
(* ticks and a week few days: minutes and names of days are not told       *)
(* apart.                                                                  *)
(***************************************************************************)
EXTENDS Integers

CONSTANTS
  WeekLength, DayLength,   \* 7 days of 24 * 60 minutes
  DefaultOpen, DefaultClose

ASSUME OpeningAssumption ==
  /\ WeekLength \in Nat \ {0, 1} /\ DayLength \in Nat \ {0}
  /\ DefaultOpen \in 0..DayLength - 1 /\ DefaultClose \in 0..DayLength - 1

Days == 0..WeekLength - 1
Minutes == 0..DayLength - 1
DayHours == [open : Minutes, close : Minutes]
ClosedDay == [open |-> -1, close |-> -1]
DEFAULT_DAY == [open |-> DefaultOpen, close |-> DefaultClose]

VARIABLES
  openingHours,   \* of the store
  today,          \* the server's clock
  minute

openingVars == <<openingHours, today, minute>>

OpeningTypeOK ==
  /\ openingHours \in [Days -> DayHours \cup {ClosedDay}]
  /\ today \in Days /\ minute \in Minutes

OpeningInit ==
  /\ openingHours = [d \in Days |-> ClosedDay]
  /\ today = 0 /\ minute = 0

-----------------------------------------------------------------------------
\* A day that is switched on again has the default hours.
ToggleDay(d) ==
  /\ openingHours' =
       [openingHours EXCEPT ![d] = IF @ = ClosedDay THEN DEFAULT_DAY ELSE ClosedDay]
  /\ UNCHANGED <<today, minute>>

SetTime(d, field, t) ==
  /\ openingHours[d] # ClosedDay
  /\ openingHours' = [openingHours EXCEPT ![d][field] = t]
  /\ UNCHANGED <<today, minute>>

MinutePasses ==
  /\ minute' = (minute + 1) % DayLength
  /\ today' = IF minute' = 0 THEN (today + 1) % WeekLength ELSE today
  /\ UNCHANGED openingHours

OpeningNext ==
  \/ MinutePasses
  \/ \E d \in Days :
       \/ ToggleDay(d)
       \/ \E field \in {"open", "close"}, t \in Minutes : SetTime(d, field, t)

OpeningSpec == OpeningInit /\ [][OpeningNext]_openingVars

-----------------------------------------------------------------------------
NoHours == \A d \in Days : openingHours[d] = ClosedDay
Overnight(h) == h.close <= h.open

\* Only today's entry is looked up, also for the hours after midnight.
IsStoreOpenNow ==
  \/ NoHours
  \/ LET h == openingHours[today] IN
       /\ h # ClosedDay
       /\ IF Overnight(h) THEN minute >= h.open \/ minute < h.close
                          ELSE minute >= h.open /\ minute < h.close

-----------------------------------------------------------------------------
\* What a seller means: a window begins on its day and lasts until the clock
\* shows its end again, a whole day where it ends when it begins.
Lasts(h) == IF h.open = h.close THEN DayLength ELSE (h.close - h.open) % DayLength
SinceOpening(d) ==
  ((today - d) % WeekLength) * DayLength + minute - openingHours[d].open
WindowRuns(d) ==
  openingHours[d] # ClosedDay /\ SinceOpening(d) \in 0..Lasts(openingHours[d]) - 1
MeantOpen == NoHours \/ \E d \in Days : WindowRuns(d)

\* A store is open when its seller means it to be, except before the end of an
\* overnight window where the day it began on has other hours than today:
\* there today's entry decides, though the window is yesterday's.
HoursAreKept ==
  IsStoreOpenNow # MeantOpen =>
    \E d \in Days :
      /\ (d + 1) % WeekLength = today /\ openingHours[d] # openingHours[today]
      /\ \E h \in {openingHours[d], openingHours[today]} : Overnight(h) /\ minute < h.close

=============================================================================
