------------------------------- MODULE Payouts -------------------------------
(***************************************************************************)
(* What a courier gets for an order: the payment a seller sets on the      *)
(* contract, the cut that a claim computes from it and keeps on the order, *)
(* and what the pages of courier and admin add up.  Money is counted in    *)
(* hundreds: fees and cuts are rounded to them.  OrderLifecycle has all    *)
(* interleavings of an order's handlers; here two claims and one statistic *)
(* are cut into their calls, and the other changes of an order are a step. *)
(***************************************************************************)
EXTENDS Integers, FiniteSets
Sums == INSTANCE FiniteSetsExt

CONSTANTS
  Jobs,       \* orders
  Riders,     \* couriers
  NoRider, NoJob,
  Fees,       \* delivery fees
  Percents, Flats,   \* values that sellers set
  Claims      \* claims in flight

ASSUME PayoutsAssumption ==
  /\ NoRider \notin Riders /\ NoJob \notin Jobs
  /\ Fees \subseteq Nat /\ Percents \subseteq Nat /\ Flats \subseteq Nat
  /\ IsFiniteSet(Jobs) /\ IsFiniteSet(Riders)

COURIER_DELIVERY_SHARE == 80

\* Half up, as Math.round.
Hundreds(amount, percent) == (amount * percent + 50) \div 100

PayTerms ==
  [type : {"PERCENT"}, value : Percents \cup {COURIER_DELIVERY_SHARE}]
    \cup [type : {"PER_ORDER"}, value : Flats]
    \cup [type : {"SALARY"}, value : {0}]
NoPayTerms == [type |-> "none", value |-> 0]
DefaultTerms == [type |-> "PERCENT", value |-> COURIER_DELIVERY_SHARE]

ComputeContractEarning(t, fee) ==
  CASE t.type = "SALARY"    -> 0
    [] t.type = "PER_ORDER" -> t.value
    [] OTHER                -> Hundreds(fee, t.value)
EstimateCourierEarning(fee) == Hundreds(fee, COURIER_DELIVERY_SHARE)

\* Without a contract, a claim pays the default share.
Earning(t, fee) ==
  IF t = NoPayTerms THEN EstimateCourierEarning(fee) ELSE ComputeContractEarning(t, fee)

VARIABLES
  terms,     \* the contract's payment, by courier
  job,       \* orders
  claim,     \* claims: the cut they computed, and those since (history)
  stats,     \* the courier's statistics, as far as they are read
  owed       \* orders: the cuts that the terms gave while they were claimed (history)

payoutVars == <<terms, job, claim, stats, owed>>

NoCut == -1
NoClaim == [pc |-> "idle", job |-> NoJob, rider |-> NoRider, cut |-> NoCut, since |-> {}]
NoStats == [pc |-> "idle", rider |-> NoRider, month |-> 0, monthPay |-> 0, count |-> 0,
            total |-> 0]

PayoutsTypeOK ==
  /\ terms \in [Riders -> PayTerms \cup {NoPayTerms}]
  /\ \A o \in Jobs :
       /\ job[o].status \in {"READY", "COURIER_ASSIGNED", "ON_WAY", "DELIVERED"}
       /\ job[o].rider \in Riders \cup {NoRider}
       /\ job[o].fee \in Fees /\ job[o].cut \in Nat \cup {NoCut}
       /\ owed[o] \subseteq Nat
  /\ \A h \in Claims :
       /\ claim[h].pc \in {"idle", "read"} /\ claim[h].job \in Jobs \cup {NoJob}
       /\ claim[h].rider \in Riders \cup {NoRider}
  /\ stats.pc \in {"idle", "month", "count", "shown"} /\ stats.rider \in Riders \cup {NoRider}

PayoutsInit ==
  /\ terms \in [Riders -> {NoPayTerms, DefaultTerms}]
  /\ job \in [Jobs -> [status : {"READY"}, rider : {NoRider}, fee : Fees, cut : {NoCut}]]
  /\ claim = [h \in Claims |-> NoClaim]
  /\ stats = NoStats /\ owed = [o \in Jobs |-> {}]

-----------------------------------------------------------------------------
(* Payment and claims.                                                     *)

\* Any contract of the store, whatever its status; a percentage may be any
\* number.  Claims in flight note the cuts it gives (history).
SetPayment(c, t) ==
  /\ terms[c] # NoPayTerms /\ t \in PayTerms
  /\ terms' = [terms EXCEPT ![c] = t]
  /\ claim' = [h \in Claims |->
                 IF claim[h].rider # c THEN claim[h]
                 ELSE [claim[h] EXCEPT !.since = @ \cup {Earning(t, job[claim[h].job].fee)}]]
  /\ UNCHANGED <<job, stats, owed>>

\* accept, or a dispatch: the order is free, and the contract is read.
ClaimReads(h, o, c) ==
  /\ claim[h].pc = "idle"
  /\ job[o].status = "READY" /\ job[o].rider = NoRider
  /\ LET cut == Earning(terms[c], job[o].fee) IN
       claim' = [claim EXCEPT ![h] =
                   [pc |-> "read", job |-> o, rider |-> c, cut |-> cut, since |-> {cut}]]
  /\ UNCHANGED <<terms, job, stats, owed>>

\* The guarded write.  A courier without a contract gets a temporary one.
ClaimWins(h) ==
  LET q == claim[h] IN
  /\ q.pc = "read"
  /\ job[q.job].status = "READY" /\ job[q.job].rider = NoRider
  /\ job' = [job EXCEPT ![q.job].status = "COURIER_ASSIGNED", ![q.job].rider = q.rider,
                        ![q.job].cut = q.cut]
  /\ owed' = [owed EXCEPT ![q.job] = q.since]
  /\ terms' = IF terms[q.rider] = NoPayTerms THEN [terms EXCEPT ![q.rider] = DefaultTerms]
                                          ELSE terms
  /\ claim' = [claim EXCEPT ![h] = NoClaim]
  /\ UNCHANGED stats

ClaimLoses(h) ==
  /\ claim[h].pc = "read"
  /\ job[claim[h].job].status # "READY" \/ job[claim[h].job].rider # NoRider
  /\ claim' = [claim EXCEPT ![h] = NoClaim]
  /\ UNCHANGED <<terms, job, stats, owed>>

-----------------------------------------------------------------------------
(* The order goes on.                                                      *)

Release(o) ==
  /\ job[o].status = "COURIER_ASSIGNED"
  /\ job' = [job EXCEPT ![o].status = "READY", ![o].rider = NoRider, ![o].cut = NoCut]
  /\ owed' = [owed EXCEPT ![o] = {}]
  /\ UNCHANGED <<terms, claim, stats>>

JobBecomes(o, s) ==
  /\ job' = [job EXCEPT ![o].status = s]
  /\ UNCHANGED <<terms, claim, stats, owed>>

\* The courier picks it up; without one, the seller brings it himself.
SetsOff(o) == job[o].status \in {"READY", "COURIER_ASSIGNED"} /\ JobBecomes(o, "ON_WAY")
Delivers(o) == job[o].status = "ON_WAY" /\ JobBecomes(o, "DELIVERED")

-----------------------------------------------------------------------------
(* What was paid.                                                          *)

DeliveredJobs == {o \in Jobs : job[o].status = "DELIVERED"}
BroughtBy(c) == {o \in DeliveredJobs : job[o].rider = c}
SumOf(S, Amount(_)) == Sums!MapThenSumSet(Amount, S)

\* An aggregate skips the rows that have no cut.
CutOf(o) == IF job[o].cut = NoCut THEN 0 ELSE job[o].cut

EarnedBy(c) == SumOf(BroughtBy(c), CutOf)

\* finance adds up all orders, whoever brought them.
CourierPayouts == SumOf({o \in DeliveredJobs : job[o].cut # NoCut}, CutOf)

\* stats reads this month's orders, their count, and their sums, one by one.
ReadMonth(c) ==
  /\ stats.pc = "idle"
  /\ stats' = [NoStats EXCEPT !.pc = "month", !.rider = c, !.month = Cardinality(BroughtBy(c)),
                              !.monthPay = EarnedBy(c)]
  /\ UNCHANGED <<terms, job, claim, owed>>

ReadCount ==
  /\ stats.pc = "month"
  /\ stats' = [stats EXCEPT !.pc = "count", !.count = Cardinality(BroughtBy(stats.rider))]
  /\ UNCHANGED <<terms, job, claim, owed>>

ReadSums ==
  /\ stats.pc = "count"
  /\ stats' = [stats EXCEPT !.pc = "shown", !.total = EarnedBy(stats.rider)]
  /\ UNCHANGED <<terms, job, claim, owed>>

LeaveEarnings ==
  /\ stats.pc = "shown"
  /\ stats' = NoStats
  /\ UNCHANGED <<terms, job, claim, owed>>

PayoutsNext ==
  \/ ReadCount \/ ReadSums \/ LeaveEarnings
  \/ \E c \in Riders : ReadMonth(c) \/ \E t \in PayTerms : SetPayment(c, t)
  \/ \E o \in Jobs : Release(o) \/ SetsOff(o) \/ Delivers(o)
  \/ \E h \in Claims : \/ ClaimWins(h) \/ ClaimLoses(h)
                       \/ \E o \in Jobs, c \in Riders : ClaimReads(h, o, c)

PayoutsSpec == PayoutsInit /\ [][PayoutsNext]_payoutVars

-----------------------------------------------------------------------------
\* A courier is paid by terms that were in force while he took the order,
\* whatever the seller sets before he delivers it.
PaidAsTaken == \A o \in Jobs : job[o].rider # NoRider => job[o].cut \in owed[o]

\* What the admin's finance page pays out is what the couriers' pages earn:
\* no cut is paid to nobody, however orders are released and brought.
PayoutsAreEarned == CourierPayouts = SumOf(Riders, EarnedBy)

\* The earnings page adds up although it is read in pieces while orders are
\* delivered: a month is no more than the whole.
MonthWithinTotal ==
  stats.pc = "shown" => stats.month <= stats.count /\ stats.monthPay <= stats.total

\* What a courier was promised is what he is paid.
PayoutsStand == PaidAsTaken /\ PayoutsAreEarned /\ MonthWithinTotal

=============================================================================
