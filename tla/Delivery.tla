------------------------------ MODULE Delivery ------------------------------
(***************************************************************************)
(* The two Redis lists between server and bot, and the bot's two workers:  *)
(* one codes list, one list of order messages.  A worker pops a job, then  *)
(* delivers it; both workers live in one process.                          *)
(***************************************************************************)
EXTENDS Naturals, Sequences

CONSTANTS Lists, MaxJobs  \* bound: jobs of a list

ASSUME DeliveryAssumption == MaxJobs \in Nat

VARIABLES
  queue,  \* each list
  held,   \* the job each worker popped, 0 if none
  sent    \* jobs of each list that Telegram accepted, in order (history)

deliveryVars == <<queue, held, sent>>

Jobs == 1..MaxJobs

DeliveryTypeOK ==
  /\ queue \in [Lists -> Seq(Jobs)]
  /\ held \in [Lists -> {0} \cup Jobs]
  /\ sent \in [Lists -> Seq(Jobs)]

DeliveryInit ==
  /\ queue = [l \in Lists |-> <<>>]
  /\ held = [l \in Lists |-> 0]
  /\ sent = [l \in Lists |-> <<>>]

-----------------------------------------------------------------------------
\* RPUSH by OtpQueueService or TelegramQueueService.
Publish(l, j) ==
  /\ queue' = [queue EXCEPT ![l] = Append(@, j)]
  /\ UNCHANGED <<held, sent>>

\* BLPOP
PopJob(l) ==
  /\ held[l] = 0 /\ queue[l] # <<>>
  /\ held' = [held EXCEPT ![l] = Head(queue[l])]
  /\ queue' = [queue EXCEPT ![l] = Tail(@)]
  /\ UNCHANGED sent

Deliver(l) ==
  /\ held[l] # 0
  /\ sent' = [sent EXCEPT ![l] = Append(@, held[l])]
  /\ held' = [held EXCEPT ![l] = 0]
  /\ UNCHANGED queue

\* sendMessage fails, or the payload does not parse: no requeue.
DropJob(l) ==
  /\ held[l] # 0
  /\ held' = [held EXCEPT ![l] = 0]
  /\ UNCHANGED <<queue, sent>>

\* The bot restarts: what its workers hold is gone, the lists stay.
BotRestart ==
  /\ \E l \in Lists : held[l] # 0
  /\ held' = [l \in Lists |-> 0]
  /\ UNCHANGED <<queue, sent>>

Worker(l) == PopJob(l) \/ Deliver(l) \/ DropJob(l)

-----------------------------------------------------------------------------
\* Nothing is delivered twice and nothing overtakes: what was sent of a list,
\* what its worker holds and what is queued stand in the order of publication.
SentInOrder ==
  \A l \in Lists :
    LET line == sent[l] \o (IF held[l] = 0 THEN <<>> ELSE <<held[l]>>) \o queue[l]
    IN \A i, j \in 1..Len(line) : i < j => line[i] < line[j]

=============================================================================
