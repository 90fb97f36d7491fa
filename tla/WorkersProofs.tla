---------------------------- MODULE WorkersProofs ----------------------------
(***************************************************************************)
(* Proofs about the background workers (the scheduler of subscriptions,    *)
(* the recovery of carts, the billing queue), for any number of replicas,  *)
(* requests, subscriptions, carts, days, faults and crashes.               *)
(***************************************************************************)
EXTENDS MCWorkers, FiniteSetTheorems, TLAPS

\* A step of the workers is one of a part, which leaves the others alone, or of none.
LEMMA WorkersFrame ==
  ASSUME [Next]_vars
  PROVE  /\ part' = part
         /\ \/ part = "scheduler" /\ S!Next /\ UNCHANGED <<ronly, bonly>>
            \/ part = "recovery" /\ R!Next /\ UNCHANGED <<sonly, bonly>>
            \/ part = "billing" /\ B!Next /\ UNCHANGED <<sonly, ronly, lease, crashes>>
            \/ UNCHANGED vars
BY Zenon DEF Next, vars, Scheduler, Recovery, Billing

-----------------------------------------------------------------------------
(* Subscriptions.                                                          *)

SubRow == [status : {"none", "active", "trialing", "past_due", "paused", "cancelled"},
           due : BOOLEAN, falls : Nat]
BillRow == [scheduled : Nat, byHand : Nat]
JobRow == [at : {"down", "skipped", "idle", "commit", "log", "fail", "failLog", "answered"},
           queue : SUBSET Subs, sub : Subs \cup {None}]
LeaseRow == [token : Replicas \cup {None}, live : BOOLEAN]

SubscriptionTypes ==
    /\ sub \in [Subs -> SubRow] /\ bills \in [Subs -> BillRow]
    /\ job \in [S!Actors -> JobRow] /\ lease \in [Locks -> LeaseRow]
    /\ \A a \in S!Actors : job[a].at \in {"commit", "log", "fail", "failLog"} => job[a].sub \in Subs

\* A scheduler that runs has the lock, and one that does not has nothing to do.
Runs(r) == job[r].at \in S!Running
SchedulerHasLock ==
    \A r \in Replicas : IF Runs(r) THEN lease[S!Scheduler].token = r /\ lease[S!Scheduler].live
                        ELSE job[r].queue = {}

\* A subscription that is due, or about to be billed because it was: it is not listed again
\* while it is being billed.
Awaits(r, s) == s \in job[r].queue \/ (job[r].at = "commit" /\ job[r].sub = s)
Pending(s) == sub[s].due \/ \E r \in Replicas : Awaits(r, s)
ListedOnce == \A r \in Replicas : job[r].at = "commit" => job[r].sub \notin job[r].queue

\* One bill for each time it fell due, and the next one is still to come.
BillsFollowDue == \A s \in Subs : bills[s].scheduled + (IF Pending(s) THEN 1 ELSE 0) <= sub[s].falls

SubscriptionInv == SubscriptionTypes /\ SchedulerHasLock /\ ListedOnce /\ BillsFollowDue

LEMMA SubscriptionInit == Init => SubscriptionInv
<1> SUFFICES ASSUME S!Init PROVE SubscriptionInv
  BY Zenon DEF Init
<1>1. \A a \in S!Actors : job[a] \in JobRow /\ job[a].at \in {"down", "idle"} /\ job[a].queue = {}
                          /\ (a \in Replicas => job[a].at = "down")
  BY DEF S!Init, S!NoJob, JobRow
<1>2. S!NoLease \in LeaseRow
  BY DEF S!NoLease, LeaseRow
<1>3. job \in [S!Actors -> JobRow] /\ lease \in [Locks -> LeaseRow]
  BY <1>1, <1>2 DEF S!Init
<1>4. sub \in [Subs -> SubRow] /\ bills \in [Subs -> BillRow]
  BY DEF S!Init, SubRow, BillRow
<1>5. SubscriptionTypes
  BY <1>1, <1>3, <1>4 DEF SubscriptionTypes
<1>6. \A r \in Replicas : job[r].at = "down" /\ job[r].queue = {}
  BY <1>1 DEF S!Actors
<1>7. SchedulerHasLock /\ ListedOnce
  BY <1>6 DEF SchedulerHasLock, ListedOnce, Runs, S!Running
<1>8. \A s \in Subs : bills[s].scheduled = 0 /\ sub[s].falls = 0 /\ ~sub[s].due
  BY DEF S!Init
<1>9. BillsFollowDue
  BY <1>6, <1>8 DEF BillsFollowDue, Pending, Awaits
<1>10. QED BY <1>5, <1>7, <1>9 DEF SubscriptionInv

\* The subscriptions change beside the schedulers: a bill is still to come when one falls due.
LEMMA SubMoves ==
  ASSUME SubscriptionInv, NEW s \in Subs, NEW n \in SubRow, sub' = [sub EXCEPT ![s] = n],
         UNCHANGED <<bills, job, lease>>,
         n.due => (sub[s].due /\ n.falls = sub[s].falls) \/ n.falls = sub[s].falls + 1,
         n.falls \in {sub[s].falls, sub[s].falls + 1}
  PROVE  SubscriptionInv'
<1>1. \A t \in Subs : sub'[t] = IF t = s THEN n ELSE sub[t]
  BY DEF SubscriptionInv, SubscriptionTypes
<1>2. SubscriptionTypes'
  BY DEF SubscriptionInv, SubscriptionTypes, S!Actors
<1>3. SchedulerHasLock' /\ ListedOnce'
  BY DEF SubscriptionInv, SchedulerHasLock, ListedOnce, Runs, S!Running, S!Scheduler
<1>4. \A r \in Replicas, t \in Subs : Awaits(r, t)' <=> Awaits(r, t)
  BY DEF Awaits
<1>5. \A t \in Subs : /\ bills[t].scheduled \in Nat /\ sub[t].falls \in Nat
                      /\ bills'[t].scheduled = bills[t].scheduled
  BY DEF SubscriptionInv, SubscriptionTypes, SubRow, BillRow
<1>6. BillsFollowDue'
  <2> SUFFICES ASSUME NEW t \in Subs
               PROVE  bills[t].scheduled + (IF Pending(t)' THEN 1 ELSE 0) <= sub'[t].falls
    BY <1>5 DEF BillsFollowDue
  <2>1. bills[t].scheduled + (IF Pending(t) THEN 1 ELSE 0) <= sub[t].falls
    BY DEF SubscriptionInv, BillsFollowDue
  <2>2. CASE t # s
    <3>1. sub'[t] = sub[t] /\ (Pending(t)' <=> Pending(t))
      BY <2>2, <1>1, <1>4 DEF Pending
    <3>2. QED BY <3>1, <2>1
  <2>3. CASE t = s /\ n.falls = sub[s].falls
    <3>1. sub'[t].falls = sub[t].falls /\ (Pending(t)' => Pending(t))
      <4>1. sub'[s].due => sub[s].due
        BY <2>3, <1>1, <1>5
      <4>2. QED BY <4>1, <2>3, <1>1, <1>4 DEF Pending
    <3>2. QED BY <3>1, <2>1, <1>5
  <2>4. CASE t = s /\ n.falls = sub[s].falls + 1
    <3>1. sub'[t].falls = sub[t].falls + 1
      BY <2>4, <1>1
    <3>2. QED BY <3>1, <2>1, <1>5
  <2>5. QED BY <2>2, <2>3, <2>4
<1>7. QED BY <1>2, <1>3, <1>6 DEF SubscriptionInv

\* The records a subscription becomes.
LEMMA SubRecords ==
  ASSUME NEW z \in SubRow
  PROVE  /\ \A status \in {"none", "active", "trialing", "past_due", "paused", "cancelled"} :
               LET w == [z EXCEPT !.status = status]
               IN w \in SubRow /\ (w.due <=> z.due) /\ w.falls = z.falls /\ w.status = status
         /\ LET w == [z EXCEPT !.status = "active", !.due = FALSE]
            IN w \in SubRow /\ ~w.due /\ w.falls = z.falls
         /\ LET w == [z EXCEPT !.due = TRUE, !.falls = @ + 1]
            IN w \in SubRow /\ w.falls = z.falls + 1
<1>1. ASSUME NEW status \in {"none", "active", "trialing", "past_due", "paused", "cancelled"}
      PROVE  LET w == [z EXCEPT !.status = status]
             IN w \in SubRow /\ (w.due <=> z.due) /\ w.falls = z.falls /\ w.status = status
  BY DEF SubRow
<1>2. LET w == [z EXCEPT !.status = "active", !.due = FALSE]
      IN w \in SubRow /\ ~w.due /\ w.falls = z.falls
  BY DEF SubRow
<1>3. LET w == [z EXCEPT !.due = TRUE, !.falls = @ + 1]
      IN w \in SubRow /\ w.falls = z.falls + 1
  <2>1. \A m \in Nat : LET w == [z EXCEPT !.due = TRUE, !.falls = m] IN w \in SubRow /\ w.falls = m
    BY DEF SubRow
  <2>2. z.falls + 1 \in Nat
    BY DEF SubRow
  <2>3. QED BY <2>1, <2>2
<1>4. QED BY <1>1, <1>2, <1>3

LEMMA RoutesKeepBills ==
  ASSUME SubscriptionInv, NEW s \in Subs,
         \/ S!CreateSubscription(s) \/ S!PauseSubscription(s) \/ S!CancelSubscription(s)
         \/ S!ResumeWrite(s) \/ S!FallDue(s)
  PROVE  SubscriptionInv'
<1>1. sub[s] \in SubRow /\ DOMAIN sub = Subs
  BY DEF SubscriptionInv, SubscriptionTypes
<1>2. ASSUME NEW status \in {"active", "trialing", "paused", "cancelled"},
             sub' = [sub EXCEPT ![s].status = status], UNCHANGED <<bills, job, lease>>
      PROVE  SubscriptionInv'
  <2> DEFINE n == [sub[s] EXCEPT !.status = status]
  <2>1. sub' = [sub EXCEPT ![s] = n]
    BY <1>1, <1>2
  <2>2. n \in SubRow /\ (n.due <=> sub[s].due) /\ n.falls = sub[s].falls
    <3>1. status \in {"none", "active", "trialing", "past_due", "paused", "cancelled"}
      OBVIOUS
    <3>2. QED BY <3>1, <1>1 DEF SubRow
  <2> HIDE DEF n
  <2>3. QED BY <2>1, <2>2, <1>2, SubMoves
<1>3. CASE S!CreateSubscription(s)
  <2>1. PICK status \in {"active", "trialing"} : sub' = [sub EXCEPT ![s].status = status]
    BY <1>3 DEF S!CreateSubscription
  <2>2. UNCHANGED <<bills, job, lease>>
    BY <1>3 DEF S!CreateSubscription
  <2>3. QED BY <2>1, <2>2, <1>2
<1>4. CASE S!PauseSubscription(s) \/ S!CancelSubscription(s)
  BY <1>4, <1>2 DEF S!PauseSubscription, S!CancelSubscription
<1>5. CASE S!ResumeWrite(s)
  <2> DEFINE n == [sub[s] EXCEPT !.status = "active", !.due = FALSE]
  <2>1. n \in SubRow /\ ~n.due /\ n.falls = sub[s].falls
    BY <1>1, SubRecords
  <2>2. sub' = [sub EXCEPT ![s] = n] /\ UNCHANGED <<bills, job, lease>>
    BY <1>5, <1>1 DEF S!ResumeWrite
  <2> HIDE DEF n
  <2>3. QED BY <2>1, <2>2, SubMoves
<1>6. CASE S!FallDue(s)
  <2> DEFINE n == [sub[s] EXCEPT !.due = TRUE, !.falls = @ + 1]
  <2>1. n \in SubRow /\ n.falls = sub[s].falls + 1
    BY <1>1, SubRecords
  <2>2. sub' = [sub EXCEPT ![s] = n] /\ UNCHANGED <<bills, job, lease>>
    BY <1>6, <1>1 DEF S!FallDue
  <2> HIDE DEF n
  <2>3. QED BY <2>1, <2>2, SubMoves
<1>7. QED BY <1>3, <1>4, <1>5, <1>6

\* An actor goes on, and is not about to bill what was not due.
LEMMA ActorGoes ==
  ASSUME SubscriptionInv, NEW a \in S!Actors, NEW n \in JobRow, job' = [job EXCEPT ![a] = n],
         UNCHANGED <<sub, bills>>, lease' \in [Locks -> LeaseRow], SchedulerHasLock',
         n.at \in {"commit", "log", "fail", "failLog"} => n.sub \in Subs,
         a \in Replicas =>
            /\ n.at = "commit" => n.sub \notin n.queue
            /\ \A s \in Subs : s \in n.queue \/ (n.at = "commit" /\ n.sub = s) => Pending(s)
  PROVE  SubscriptionInv'
<1>1. \A b \in S!Actors : job'[b] = IF b = a THEN n ELSE job[b]
  BY DEF SubscriptionInv, SubscriptionTypes
<1>2. job' \in [S!Actors -> JobRow]
  BY DEF SubscriptionInv, SubscriptionTypes
<1>3. SubscriptionTypes'
  BY <1>1, <1>2 DEF SubscriptionInv, SubscriptionTypes, S!Actors
<1>4. \A r \in Replicas : r \in S!Actors
  BY DEF S!Actors
<1>5. ListedOnce'
  BY <1>1, <1>4 DEF SubscriptionInv, ListedOnce
<1>6. \A s \in Subs : Pending(s)' => Pending(s)
  BY <1>1, <1>4 DEF Pending, Awaits
<1>7. \A s \in Subs : bills[s].scheduled \in Nat /\ sub[s].falls \in Nat
  BY DEF SubscriptionInv, SubscriptionTypes, SubRow, BillRow
<1>8. BillsFollowDue'
  BY <1>6, <1>7 DEF SubscriptionInv, BillsFollowDue
<1>9. QED BY <1>3, <1>5, <1>8 DEF SubscriptionInv

\* The lock stays where it is when nobody starts to run.
LEMMA LockStays ==
  ASSUME SubscriptionInv, NEW a \in S!Actors, NEW n \in JobRow, job' = [job EXCEPT ![a] = n],
         UNCHANGED lease,
         a \in Replicas => IF n.at \in S!Running THEN Runs(a) ELSE n.queue = {}
  PROVE  SchedulerHasLock' /\ lease' \in [Locks -> LeaseRow]
<1>1. \A b \in S!Actors : job'[b] = IF b = a THEN n ELSE job[b]
  BY DEF SubscriptionInv, SubscriptionTypes
<1>2. \A r \in Replicas : r \in S!Actors
  BY DEF S!Actors
<1>3. SchedulerHasLock'
  BY <1>1, <1>2 DEF SubscriptionInv, SchedulerHasLock, Runs
<1>4. QED BY <1>3 DEF SubscriptionInv, SubscriptionTypes

\* The records an actor becomes.
LEMMA ActorRecords ==
  ASSUME NEW z \in JobRow
  PROVE  /\ \A at \in {"skipped", "idle", "commit", "log", "fail", "failLog"} :
               LET w == [z EXCEPT !.at = at]
               IN w \in JobRow /\ w.at = at /\ w.queue = z.queue /\ w.sub = z.sub
         /\ \A q \in SUBSET Subs : LET w == [z EXCEPT !.queue = q]
                                   IN w \in JobRow /\ w.at = z.at /\ w.queue = q /\ w.sub = z.sub
         /\ S!NoJob \in JobRow /\ S!NoJob.at = "down" /\ S!NoJob.queue = {}
<1>1. \A at \in {"skipped", "idle", "commit", "log", "fail", "failLog"} :
         LET w == [z EXCEPT !.at = at]
         IN w \in JobRow /\ w.at = at /\ w.queue = z.queue /\ w.sub = z.sub
  BY DEF JobRow
<1>2. \A q \in SUBSET Subs : LET w == [z EXCEPT !.queue = q]
                             IN w \in JobRow /\ w.at = z.at /\ w.queue = q /\ w.sub = z.sub
  BY DEF JobRow
<1>3. S!NoJob \in JobRow /\ S!NoJob.at = "down" /\ S!NoJob.queue = {}
  BY DEF S!NoJob, JobRow
<1>4. QED BY <1>1, <1>2, <1>3

LEMMA DoneRecords ==
  ASSUME SubscriptionInv, NEW a \in S!Actors
  PROVE  /\ S!Done(a) \in JobRow
         /\ a \in Replicas => S!Done(a).at = "idle" /\ S!Done(a).queue = job[a].queue
         /\ a \notin Replicas => S!Done(a).at = "answered"
<1>1. job[a].queue \in SUBSET Subs
  BY DEF SubscriptionInv, SubscriptionTypes, JobRow
<1>2. CASE a \in Replicas
  <2>1. S!Done(a) = [at |-> "idle", queue |-> job[a].queue, sub |-> None]
    BY <1>2 DEF S!Done, S!NoJob
  <2>2. QED BY <2>1, <1>1, <1>2 DEF JobRow
<1>3. CASE a \notin Replicas
  <2>1. S!Done(a) = [at |-> "answered", queue |-> {}, sub |-> None]
    BY <1>3 DEF S!Done, S!NoJob
  <2>2. QED BY <2>1, <1>3 DEF JobRow
<1>4. QED BY <1>2, <1>3

LEMMA BootTakesLock ==
  ASSUME ~Unguarded, SubscriptionInv, NEW r \in Replicas, S!Boot(r)
  PROVE  SubscriptionInv'
<1>1. job[r] \in JobRow /\ r \in S!Actors /\ DOMAIN job = S!Actors
  BY DEF SubscriptionInv, SubscriptionTypes, S!Actors
<1>2. job[r].at = "down" /\ UNCHANGED <<sub, bills>> /\ job[r].queue = {}
  BY DEF S!Boot, SubscriptionInv, SchedulerHasLock, Runs, S!Running
<1>3. CASE S!Acquire(S!Scheduler, r) /\ job' = [job EXCEPT ![r].at = "idle"]
  <2> DEFINE n == [job[r] EXCEPT !.at = "idle"]
  <2>1. n \in JobRow /\ n.at = "idle" /\ n.queue = {}
    BY <1>1, <1>2, ActorRecords
  <2>2. job' = [job EXCEPT ![r] = n]
    BY <1>1, <1>3
  <2> HIDE DEF n
  <2>3. lease' = [lease EXCEPT ![S!Scheduler] = [token |-> r, live |-> TRUE]] /\ ~lease[S!Scheduler].live
    BY <1>3 DEF S!Acquire
  <2>4. [token |-> r, live |-> TRUE] \in LeaseRow
    BY DEF LeaseRow
  <2>5. lease' \in [Locks -> LeaseRow] /\ lease'[S!Scheduler].token = r /\ lease'[S!Scheduler].live
    BY <2>3, <2>4 DEF SubscriptionInv, SubscriptionTypes, Locks, S!Scheduler
  <2>6. \A q \in Replicas : ~Runs(q)
    BY <2>3 DEF SubscriptionInv, SchedulerHasLock
  <2>7. SchedulerHasLock'
    BY <2>1, <2>2, <2>5, <2>6, <1>1 DEF SubscriptionInv, SchedulerHasLock, Runs, S!Scheduler
  <2>8. QED BY <1>1, <1>2, <2>1, <2>2, <2>5, <2>7, ActorGoes
<1>4. CASE job' = [job EXCEPT ![r].at = "skipped"] /\ UNCHANGED lease
  <2> DEFINE n == [job[r] EXCEPT !.at = "skipped"]
  <2>1. n \in JobRow /\ n.at = "skipped" /\ n.queue = {}
    BY <1>1, <1>2, ActorRecords
  <2>2. job' = [job EXCEPT ![r] = n]
    BY <1>1, <1>4
  <2> HIDE DEF n
  <2>3. SchedulerHasLock' /\ lease' \in [Locks -> LeaseRow]
    BY <1>1, <1>4, <2>1, <2>2, LockStays DEF S!Running
  <2>4. QED BY <1>1, <1>2, <2>1, <2>2, <2>3, ActorGoes
<1>5. QED BY <1>3, <1>4 DEF S!Boot

LEMMA StopFreesLock ==
  ASSUME SubscriptionInv, NEW r \in Replicas, S!Shutdown(r) \/ S!Crash(r)
  PROVE  SubscriptionInv'
<1>1. /\ r \in S!Actors /\ DOMAIN job = S!Actors /\ UNCHANGED <<sub, bills>>
      /\ job' = [job EXCEPT ![r] = S!NoJob]
      /\ lease' = lease \/ S!Release(S!Scheduler, r)
  BY DEF SubscriptionInv, SubscriptionTypes, S!Actors, S!Shutdown, S!Crash
<1>2. S!NoJob \in JobRow /\ S!NoJob.at = "down" /\ S!NoJob.queue = {}
  BY DEF S!NoJob, JobRow
<1>3. \A q \in Replicas : q \in S!Actors /\ job'[q] = IF q = r THEN S!NoJob ELSE job[q]
  BY <1>1 DEF S!Actors
<1>4. lease' = lease \/ (lease[S!Scheduler].token = r /\ lease' = [lease EXCEPT ![S!Scheduler] = S!NoLease])
  BY <1>1 DEF S!Release
<1>5. lease' \in [Locks -> LeaseRow]
  <2>1. S!NoLease \in LeaseRow
    BY DEF S!NoLease, LeaseRow
  <2>2. QED BY <2>1, <1>4 DEF SubscriptionInv, SubscriptionTypes
<1>6. SchedulerHasLock'
  <2> SUFFICES ASSUME NEW q \in Replicas
               PROVE  IF Runs(q)' THEN lease'[S!Scheduler].token = q /\ lease'[S!Scheduler].live ELSE job'[q].queue = {}
    BY DEF SchedulerHasLock, S!Scheduler
  <2>1. CASE q = r
    BY <2>1, <1>2, <1>3 DEF Runs, S!Running
  <2>2. CASE q # r
    <3>1. job'[q] = job[q] /\ (Runs(q)' <=> Runs(q))
      BY <2>2, <1>3 DEF Runs, S!Running
    <3>2. CASE Runs(q)
      <4>1. lease[S!Scheduler].token = q
        BY <3>2 DEF SubscriptionInv, SchedulerHasLock
      <4>2. lease' = lease
        BY <4>1, <2>2, <1>4
      <4>3. QED BY <4>2, <3>1, <3>2 DEF SubscriptionInv, SchedulerHasLock
    <3>3. CASE ~Runs(q)
      BY <3>1, <3>3 DEF SubscriptionInv, SchedulerHasLock
    <3>4. QED BY <3>2, <3>3
  <2>3. QED BY <2>1, <2>2
<1>7. QED BY <1>1, <1>2, <1>5, <1>6, ActorGoes

LEMMA LeaseEnds ==
  ASSUME ~Unguarded, SubscriptionInv, S!LeaseRunsOut
  PROVE  SubscriptionInv'
<1>1. /\ \A r \in Replicas : ~Runs(r)
      /\ UNCHANGED <<sub, bills, job>> /\ lease' = [lease EXCEPT ![S!Scheduler].live = FALSE]
  BY DEF S!LeaseRunsOut, S!RunOut, Runs
<1>2. lease' \in [Locks -> LeaseRow]
  BY <1>1 DEF SubscriptionInv, SubscriptionTypes, LeaseRow
<1>3. SubscriptionTypes'
  BY <1>1, <1>2 DEF SubscriptionInv, SubscriptionTypes, S!Actors
<1>4. SchedulerHasLock' /\ ListedOnce' /\ BillsFollowDue'
  BY <1>1 DEF SubscriptionInv, SchedulerHasLock, ListedOnce, BillsFollowDue, Pending, Awaits, Runs, S!Running
<1>5. QED BY <1>3, <1>4 DEF SubscriptionInv

LEMMA TickLists ==
  ASSUME SubscriptionInv, NEW r \in Replicas, S!Tick(r)
  PROVE  SubscriptionInv'
<1> DEFINE n == [job[r] EXCEPT !.queue = S!Due]
<1>1. /\ job[r] \in JobRow /\ r \in S!Actors /\ DOMAIN job = S!Actors /\ job[r].at = "idle"
      /\ UNCHANGED <<sub, bills, lease>> /\ job' = [job EXCEPT ![r].queue = S!Due]
  BY DEF SubscriptionInv, SubscriptionTypes, S!Actors, S!Tick
<1>2. S!Due \in SUBSET Subs
  BY DEF S!Due
<1>3. n \in JobRow /\ n.at = "idle" /\ n.queue = S!Due
  BY <1>1, <1>2 DEF JobRow
<1>4. job' = [job EXCEPT ![r] = n]
  BY <1>1
<1> HIDE DEF n
<1>5. \A s \in Subs : s \in n.queue => Pending(s)
  BY <1>3 DEF S!Due, Pending
<1>6. SchedulerHasLock' /\ lease' \in [Locks -> LeaseRow]
  BY <1>1, <1>3, <1>4, LockStays DEF S!Running, Runs
<1>7. QED BY <1>1, <1>3, <1>4, <1>5, <1>6, ActorGoes

LEMMA StartTakes ==
  ASSUME SubscriptionInv, NEW a \in S!Actors, NEW s \in Subs, S!StartBill(a, s)
  PROVE  SubscriptionInv'
<1> DEFINE next == IF S!Billable(s) THEN "commit" ELSE IF a \in Replicas THEN "fail" ELSE "answered"
           n == [at |-> next, sub |-> s, queue |-> job[a].queue \ {s}]
<1>1. /\ job[a] \in JobRow /\ DOMAIN job = S!Actors /\ job[a].at = "idle"
      /\ UNCHANGED <<sub, bills, lease>> /\ job' = [job EXCEPT ![a] = n]
      /\ a \in Replicas => s \in job[a].queue
  BY DEF SubscriptionInv, SubscriptionTypes, S!StartBill
<1>2. next \in {"commit", "fail", "answered"} /\ (a \in Replicas => next \in {"commit", "fail"})
  OBVIOUS
<1> HIDE DEF next
<1>3. n \in JobRow
  <2>1. job[a].queue \ {s} \in SUBSET Subs
    BY <1>1 DEF JobRow
  <2>2. QED BY <2>1, <1>2 DEF JobRow
<1>4. n.at = next /\ n.sub = s /\ n.queue = job[a].queue \ {s}
  OBVIOUS
<1> HIDE DEF n
<1>5. a \in Replicas => \A t \in Subs : t \in n.queue \/ (n.at = "commit" /\ n.sub = t) => Pending(t)
  BY <1>1, <1>4 DEF Pending, Awaits
<1>6. SchedulerHasLock' /\ lease' \in [Locks -> LeaseRow]
  <2>1. a \in Replicas => n.at \in S!Running /\ Runs(a)
    BY <1>1, <1>2, <1>4 DEF S!Running, Runs
  <2>2. QED BY <2>1, <1>1, <1>3, LockStays
<1>7. QED BY <1>1, <1>3, <1>4, <1>5, <1>6, ActorGoes

LEMMA ActorsAnswer ==
  ASSUME SubscriptionInv, NEW a \in S!Actors, S!LogSuccess(a) \/ S!BillFails(a) \/ S!LogFailed(a)
  PROVE  SubscriptionInv'
<1>1. /\ job[a] \in JobRow /\ DOMAIN job = S!Actors /\ UNCHANGED <<sub, bills, lease>>
      /\ job[a].at \in {"commit", "log", "failLog"}
  BY DEF SubscriptionInv, SubscriptionTypes, S!LogSuccess, S!BillFails, S!LogFailed
<1>2. \A s \in Subs : a \in Replicas /\ s \in job[a].queue => Pending(s)
  BY DEF Pending, Awaits
<1>3. a \in Replicas => Runs(a)
  BY <1>1 DEF Runs, S!Running
<1>4. CASE job' = [job EXCEPT ![a] = S!Done(a)]
  <2>1. /\ S!Done(a) \in JobRow
        /\ a \in Replicas => S!Done(a).at = "idle" /\ S!Done(a).queue = job[a].queue
        /\ a \notin Replicas => S!Done(a).at = "answered"
    BY DoneRecords
  <2>2. SchedulerHasLock' /\ lease' \in [Locks -> LeaseRow]
    BY <1>1, <1>3, <1>4, <2>1, LockStays DEF S!Running
  <2>3. QED BY <1>1, <1>2, <1>4, <2>1, <2>2, ActorGoes
<1>5. CASE a \in Replicas /\ job[a].at \in {"commit", "log"} /\ job' = [job EXCEPT ![a] = [job[a] EXCEPT !.at = "fail"]]
  <2> DEFINE n == [job[a] EXCEPT !.at = "fail"]
  <2>1. n \in JobRow /\ n.at = "fail" /\ n.queue = job[a].queue /\ n.sub = job[a].sub
    BY <1>1, ActorRecords
  <2>2. job' = [job EXCEPT ![a] = n]
    BY <1>5
  <2> HIDE DEF n
  <2>3. SchedulerHasLock' /\ lease' \in [Locks -> LeaseRow]
    BY <1>1, <1>3, <1>5, <2>1, <2>2, LockStays DEF S!Running
  <2>4. n.sub \in Subs
    BY <1>5, <2>1 DEF SubscriptionInv, SubscriptionTypes
  <2>5. QED BY <1>1, <1>2, <1>5, <2>1, <2>2, <2>3, <2>4, ActorGoes
<1>6. QED BY <1>4, <1>5, <1>1 DEF S!LogSuccess, S!BillFails, S!LogFailed

\* The scheduler marks what it could not bill, which changes neither dates nor bills.
LEMMA PastDueKeeps ==
  ASSUME SubscriptionInv, NEW r \in Replicas, S!SetPastDue(r)
  PROVE  SubscriptionInv'
<1> DEFINE s == job[r].sub
           status == IF S!Billable(s) THEN "past_due" ELSE sub[s].status
           m == [sub[s] EXCEPT !.status = status]
           n == [job[r] EXCEPT !.at = "failLog"]
<1>1. /\ job[r] \in JobRow /\ r \in S!Actors /\ DOMAIN job = S!Actors /\ job[r].at = "fail"
      /\ s \in Subs /\ sub[s] \in SubRow /\ DOMAIN sub = Subs
      /\ UNCHANGED <<bills, lease>>
  BY DEF SubscriptionInv, SubscriptionTypes, S!Actors, S!SetPastDue
<1>2. job' = [job EXCEPT ![r] = n]
  BY <1>1 DEF S!SetPastDue
<1>3. sub' = [sub EXCEPT ![s] = m]
  BY <1>1 DEF S!SetPastDue
<1>4. m \in SubRow /\ (m.due <=> sub[s].due) /\ m.falls = sub[s].falls
  <2>1. status \in {"none", "active", "trialing", "past_due", "paused", "cancelled"}
    BY <1>1 DEF SubRow
  <2> HIDE DEF status, s
  <2>2. QED BY <2>1, <1>1 DEF SubRow
<1>5. n \in JobRow /\ n.at = "failLog" /\ n.queue = job[r].queue /\ n.sub = s
  BY <1>1, ActorRecords
<1> HIDE DEF m, n
<1>6. \A b \in S!Actors : job'[b] = IF b = r THEN n ELSE job[b]
  BY <1>1, <1>2
<1>7. \A t \in Subs : sub'[t] = IF t = s THEN m ELSE sub[t]
  BY <1>1, <1>3
<1>8. SubscriptionTypes'
  BY <1>1, <1>2, <1>3, <1>4, <1>5, <1>6 DEF SubscriptionInv, SubscriptionTypes, S!Actors
<1>9. \A q \in Replicas : q \in S!Actors
  BY DEF S!Actors
<1>10. SchedulerHasLock'
  BY <1>1, <1>5, <1>6, <1>9 DEF SubscriptionInv, SchedulerHasLock, Runs, S!Running, S!Scheduler
<1>11. ListedOnce'
  BY <1>5, <1>6, <1>9 DEF SubscriptionInv, ListedOnce
<1>12. \A t \in Subs : (Pending(t)' => Pending(t)) /\ sub'[t].falls = sub[t].falls
  BY <1>4, <1>5, <1>6, <1>7, <1>9 DEF Pending, Awaits
<1>13. \A t \in Subs : bills[t].scheduled \in Nat /\ sub[t].falls \in Nat
  BY DEF SubscriptionInv, SubscriptionTypes, SubRow, BillRow
<1>14. BillsFollowDue'
  BY <1>1, <1>12, <1>13 DEF SubscriptionInv, BillsFollowDue
<1>15. QED BY <1>8, <1>10, <1>11, <1>14 DEF SubscriptionInv

\* The transaction of a bill: what it was listed for is settled.
LEMMA BillSettles ==
  ASSUME SubscriptionInv, NEW a \in S!Actors, S!BillSubscription(a)
  PROVE  SubscriptionInv'
<1>0. PICK s \in Subs : s = job[a].sub
  BY DEF SubscriptionInv, SubscriptionTypes, S!BillSubscription
<1> DEFINE m == [sub[s] EXCEPT !.due = FALSE, !.status = S!Paid(@)]
           n == [job[a] EXCEPT !.at = "log"]
<1>1. /\ job[a] \in JobRow /\ DOMAIN job = S!Actors /\ job[a].at = "commit"
      /\ s \in Subs /\ sub[s] \in SubRow /\ DOMAIN sub = Subs /\ bills[s] \in BillRow /\ DOMAIN bills = Subs
      /\ UNCHANGED lease
  BY DEF SubscriptionInv, SubscriptionTypes, S!BillSubscription
<1>2. job' = [job EXCEPT ![a] = n]
  BY <1>1 DEF S!BillSubscription
<1>3. sub' = [sub EXCEPT ![s] = m]
  BY <1>0, <1>1 DEF S!BillSubscription
<1>4. bills' = IF a \in Replicas THEN [bills EXCEPT ![s].scheduled = @ + 1] ELSE [bills EXCEPT ![s].byHand = @ + 1]
  BY <1>0 DEF S!BillSubscription
<1>5. m \in SubRow /\ ~m.due /\ m.falls = sub[s].falls
  <2> DEFINE status == S!Paid(sub[s].status)
  <2>1. status \in {"none", "active", "trialing", "past_due", "paused", "cancelled"}
    BY <1>1 DEF SubRow, S!Paid
  <2>2. m = [sub[s] EXCEPT !.due = FALSE, !.status = status]
    OBVIOUS
  <2> HIDE DEF status, m
  <2>3. QED BY <2>1, <2>2, <1>1 DEF SubRow
<1>6. n \in JobRow /\ n.at = "log" /\ n.queue = job[a].queue /\ n.sub = s
  BY ZenonT(60), <1>0, <1>1, ActorRecords
<1> HIDE DEF m, n
<1>7. \A b \in S!Actors : job'[b] = IF b = a THEN n ELSE job[b]
  BY <1>1, <1>2
<1>8. \A t \in Subs : sub'[t] = IF t = s THEN m ELSE sub[t]
  BY <1>1, <1>3
<1>9. /\ bills' \in [Subs -> BillRow]
      /\ \A t \in Subs : bills'[t].scheduled = IF t = s /\ a \in Replicas THEN bills[t].scheduled + 1
                                               ELSE bills[t].scheduled
  <2>1. CASE a \in Replicas
    <3>1. bills' = [bills EXCEPT ![s].scheduled = @ + 1]
      BY <2>1, <1>4
    <3>2. QED BY <3>1, <2>1, <1>1 DEF SubscriptionInv, SubscriptionTypes, BillRow
  <2>2. CASE a \notin Replicas
    <3>1. bills' = [bills EXCEPT ![s].byHand = @ + 1]
      BY <2>2, <1>4
    <3>2. QED BY <3>1, <2>2, <1>1 DEF SubscriptionInv, SubscriptionTypes, BillRow
  <2>3. QED BY <2>1, <2>2
<1>10. SubscriptionTypes'
  BY <1>1, <1>2, <1>3, <1>5, <1>6, <1>7, <1>9 DEF SubscriptionInv, SubscriptionTypes, S!Actors
<1>11. \A q \in Replicas : q \in S!Actors
  BY DEF S!Actors
<1>12. SchedulerHasLock'
  BY <1>1, <1>6, <1>7, <1>11 DEF SubscriptionInv, SchedulerHasLock, Runs, S!Running, S!Scheduler
<1>13. ListedOnce'
  BY <1>6, <1>7, <1>11 DEF SubscriptionInv, ListedOnce
<1>14. \A t \in Subs : /\ bills[t].scheduled \in Nat /\ sub[t].falls \in Nat /\ sub'[t].falls = sub[t].falls
                       /\ Pending(t)' => Pending(t)
  BY <1>5, <1>6, <1>7, <1>8, <1>11 DEF SubscriptionInv, SubscriptionTypes, SubRow, BillRow, Pending, Awaits
<1>15. a \in Replicas => Pending(s) /\ ~Pending(s)'
  <2>1. ASSUME a \in Replicas PROVE Pending(s)
    BY <2>1, <1>0, <1>1 DEF Pending, Awaits
  <2>2. ASSUME a \in Replicas, NEW r \in Replicas PROVE ~Awaits(r, s)'
    <3>1. CASE r = a
      BY <3>1, <2>2, <1>0, <1>1, <1>6, <1>7, <1>11 DEF SubscriptionInv, ListedOnce, Awaits
    <3>2. CASE r # a
      <4>1. Runs(a)
        BY <1>1 DEF Runs, S!Running
      <4>2. ~Runs(r)
        BY <4>1, <3>2, <2>2 DEF SubscriptionInv, SchedulerHasLock
      <4>3. job'[r] = job[r] /\ job[r].queue = {} /\ job[r].at # "commit"
        BY <4>2, <3>2, <1>7, <1>11 DEF SubscriptionInv, SchedulerHasLock, Runs, S!Running
      <4>4. QED BY <4>3 DEF Awaits
    <3>3. QED BY <3>1, <3>2
  <2>3. ~sub'[s].due
    BY <1>1, <1>5, <1>8
  <2>4. ASSUME a \in Replicas PROVE ~Pending(s)'
    BY <2>2, <2>3, <2>4 DEF Pending
  <2>5. QED BY <2>1, <2>4
<1>16. BillsFollowDue'
  <2> SUFFICES ASSUME NEW t \in Subs
               PROVE  bills'[t].scheduled + (IF Pending(t)' THEN 1 ELSE 0) <= sub'[t].falls
    BY DEF BillsFollowDue
  <2>1. bills[t].scheduled + (IF Pending(t) THEN 1 ELSE 0) <= sub[t].falls
    BY DEF SubscriptionInv, BillsFollowDue
  <2>2. CASE t = s /\ a \in Replicas
    BY <2>1, <2>2, <1>9, <1>14, <1>15
  <2>3. CASE ~(t = s /\ a \in Replicas)
    BY <2>1, <2>3, <1>9, <1>14
  <2>4. QED BY <2>2, <2>3
<1>17. QED BY <1>10, <1>12, <1>13, <1>16 DEF SubscriptionInv

LEMMA SchedulerNext ==
  ASSUME ~Unguarded, SubscriptionInv, S!Next
  PROVE  SubscriptionInv'
<1>1. ASSUME NEW s \in Subs,
             \/ S!CreateSubscription(s) \/ S!PauseSubscription(s) \/ S!CancelSubscription(s)
             \/ S!ResumeWrite(s) \/ S!FallDue(s)
      PROVE  SubscriptionInv'
  BY <1>1, RoutesKeepBills
<1>2. ASSUME NEW s \in Subs, S!ResumeRead(s) PROVE SubscriptionInv'
  BY <1>2 DEF S!ResumeRead, SubscriptionInv, SubscriptionTypes, S!Actors, SchedulerHasLock, ListedOnce,
     BillsFollowDue, Pending, Awaits, Runs, S!Running
<1>3. \A a : a \in Replicas \/ a \in Requests <=> a \in S!Actors
  BY DEF S!Actors
<1>4. ASSUME NEW a \in S!Actors, S!ActorStep(a) \/ S!BillFails(a) PROVE SubscriptionInv'
  BY Zenon, <1>4, StartTakes, BillSettles, ActorsAnswer DEF S!ActorStep
<1>5. ASSUME NEW r \in Replicas, S!SchedulerStep(r) PROVE SubscriptionInv'
  BY Zenon, <1>5, <1>3, <1>4, TickLists, PastDueKeeps, ActorsAnswer DEF S!SchedulerStep
<1>6. QED BY Zenon, <1>1, <1>2, <1>3, <1>4, <1>5, BootTakesLock, StopFreesLock, LeaseEnds DEF S!Next

\* The other worker has a lock of its own.
LEMMA RecoveryKeepsLock ==
  ASSUME lease \in [Locks -> LeaseRow], R!Next
  PROVE  lease' \in [Locks -> LeaseRow] /\ lease'[S!Scheduler] = lease[S!Scheduler]
<1>1. CASE UNCHANGED lease
  BY <1>1
<1>2. CASE \E r \in Replicas : R!Acquire(R!Lock, r) \/ R!Release(R!Lock, r)
  <2>1. PICK r \in Replicas : R!Acquire(R!Lock, r) \/ R!Release(R!Lock, r)
    BY <1>2
  <2>2. [token |-> r, live |-> TRUE] \in LeaseRow /\ R!NoLease \in LeaseRow
    BY DEF LeaseRow, R!NoLease
  <2>3. PICK row \in LeaseRow : lease' = lease \/ lease' = [lease EXCEPT ![R!Lock] = row]
    BY <2>1, <2>2 DEF R!Acquire, R!Release
  <2>4. QED BY <2>3 DEF R!Lock, S!Scheduler, Locks
<1>3. CASE R!RunOut(R!Lock)
  <2>1. lease' = [lease EXCEPT ![R!Lock].live = FALSE]
    BY <1>3 DEF R!RunOut
  <2>2. lease' \in [Locks -> LeaseRow]
    BY <2>1 DEF LeaseRow
  <2>3. QED BY <2>1, <2>2 DEF R!Lock, S!Scheduler, Locks
<1>4. QED BY Zenon, <1>1, <1>2, <1>3 DEF R!Next, R!WorkerStep, R!CartMoves, R!Resend, R!StartTick,
             R!UpsertAbandonedCart, R!SendRecoveryEmail, R!MarkNotified, R!EndTick, R!CartFails, R!Crash,
             R!LeaseRunsOut

LEMMA SubscriptionStutter ==
  ASSUME SubscriptionInv, UNCHANGED sonly, lease' \in [Locks -> LeaseRow],
         lease'[S!Scheduler] = lease[S!Scheduler]
  PROVE  SubscriptionInv'
<1>1. UNCHANGED <<sub, bills, job>>
  BY DEF sonly
<1>2. SubscriptionTypes'
  BY <1>1 DEF SubscriptionInv, SubscriptionTypes, S!Actors
<1>3. SchedulerHasLock' /\ ListedOnce' /\ BillsFollowDue'
  BY <1>1 DEF SubscriptionInv, SchedulerHasLock, ListedOnce, BillsFollowDue, Pending, Awaits, Runs, S!Running,
     S!Scheduler
<1>4. QED BY <1>2, <1>3 DEF SubscriptionInv

LEMMA SubscriptionStep ==
  ASSUME ~Unguarded, SubscriptionInv, [Next]_vars
  PROVE  SubscriptionInv'
<1>1. lease \in [Locks -> LeaseRow]
  BY DEF SubscriptionInv, SubscriptionTypes
<1>2. CASE S!Next
  BY <1>2, SchedulerNext
<1>3. CASE R!Next /\ UNCHANGED sonly
  BY <1>1, <1>3, RecoveryKeepsLock, SubscriptionStutter
<1>4. CASE UNCHANGED <<sonly, lease>>
  BY <1>1, <1>4, SubscriptionStutter
<1>5. QED BY <1>2, <1>3, <1>4, WorkersFrame DEF vars

\* However many replicas boot, stop, die and come back, and whatever is paused, resumed or billed
\* by hand beside them, the schedulers bill a subscription at most once for each time it fell due
\* (one lock, the list of a tick, and the transaction that moves the date), as long as no replica
\* boots beside a scheduler whose lock has run out.
THEOREM BilledOnceEachTime == ~Unguarded => (Spec => []BilledOncePerDue)
<1> SUFFICES ASSUME ~Unguarded PROVE Spec => []BilledOncePerDue
  OBVIOUS
<1>1. SubscriptionInv => BilledOncePerDue
  <2> SUFFICES ASSUME SubscriptionInv, NEW s \in Subs PROVE bills[s].scheduled <= sub[s].falls
    BY DEF BilledOncePerDue, S!BilledOncePerDue
  <2>1. bills[s].scheduled \in Nat /\ sub[s].falls \in Nat
    BY DEF SubscriptionInv, SubscriptionTypes, SubRow, BillRow
  <2>2. bills[s].scheduled + (IF Pending(s) THEN 1 ELSE 0) <= sub[s].falls
    BY DEF SubscriptionInv, BillsFollowDue
  <2>3. QED BY <2>1, <2>2
<1>2. SubscriptionInv /\ [Next]_vars => SubscriptionInv'
  BY SubscriptionStep
<1>3. QED BY <1>1, <1>2, SubscriptionInit, PTL DEF Spec

\* A row of a subscription changes, and a stopped one only when a resume had found it paused.
SubRows == sub \in [Subs -> SubRow]

LEMMA StatusMoves ==
  ASSUME SubRows, NEW s \in Subs, NEW n \in SubRow, sub' = [sub EXCEPT ![s] = n],
         sub[s].status \in S!Stopped => n.status \in S!Stopped \/ s \in resuming
  PROVE  SubRows' /\ S!RevivedByResume
BY DEF SubRows, S!RevivedByResume, S!Stopped

LEMMA StatusStays ==
  ASSUME SubRows, sub' = sub
  PROVE  SubRows' /\ S!RevivedByResume
BY DEF SubRows, S!RevivedByResume

\* The records a billed subscription, or one that could not be billed, becomes.
LEMMA StoppedStays ==
  ASSUME NEW z \in SubRow
  PROVE  /\ LET w == [z EXCEPT !.due = FALSE, !.status = S!Paid(@)]
            IN w \in SubRow /\ (z.status \in S!Stopped => w.status \in S!Stopped)
         /\ \A status \in {"active", "trialing", "paused", "cancelled", "past_due"} :
               LET w == [z EXCEPT !.status = status]
               IN w \in SubRow /\ w.status = status
<1> DEFINE paid == S!Paid(z.status)
<1>1. /\ paid \in {"none", "active", "trialing", "past_due", "paused", "cancelled"}
      /\ z.status \in S!Stopped => paid \in S!Stopped
  BY DEF SubRow, S!Paid, S!Stopped
<1> HIDE DEF paid
<1>2. LET w == [z EXCEPT !.due = FALSE, !.status = paid]
      IN w \in SubRow /\ w.status = paid
  BY <1>1 DEF SubRow
<1>3. ASSUME NEW status \in {"active", "trialing", "paused", "cancelled", "past_due"}
      PROVE  LET w == [z EXCEPT !.status = status] IN w \in SubRow /\ w.status = status
  BY DEF SubRow
<1>4. [z EXCEPT !.due = FALSE, !.status = paid] = [z EXCEPT !.due = FALSE, !.status = S!Paid(@)]
  BY DEF paid
<1>5. QED BY <1>1, <1>2, <1>3, <1>4

LEMMA RevivedStep ==
  ASSUME SubRows, [Next]_vars
  PROVE  SubRows' /\ S!RevivedByResume
<1> DEFINE Kept == SubRows' /\ S!RevivedByResume
<1>1. ASSUME NEW s \in Subs, NEW status \in {"active", "trialing", "paused", "cancelled", "past_due"},
             sub' = [sub EXCEPT ![s].status = status],
             sub[s].status \notin S!Stopped \/ status \in S!Stopped
      PROVE  Kept
  <2> DEFINE n == [sub[s] EXCEPT !.status = status]
  <2>1. sub[s] \in SubRow /\ DOMAIN sub = Subs
    BY DEF SubRows
  <2>2. n \in SubRow /\ n.status = status
    BY <2>1 DEF SubRow
  <2>3. sub' = [sub EXCEPT ![s] = n]
    BY <1>1, <2>1
  <2> HIDE DEF n
  <2>4. QED BY <1>1, <2>2, <2>3, StatusMoves
<1>2. ASSUME NEW s \in Subs, S!CreateSubscription(s) PROVE Kept
  <2>1. PICK status \in {"active", "trialing"} : sub' = [sub EXCEPT ![s].status = status]
    BY <1>2 DEF S!CreateSubscription
  <2>2. QED BY <2>1, <1>1, <1>2 DEF S!CreateSubscription, S!Stopped
<1>3. ASSUME NEW s \in Subs, S!PauseSubscription(s) \/ S!CancelSubscription(s) PROVE Kept
  BY <1>3, <1>1 DEF S!PauseSubscription, S!CancelSubscription, S!Stopped
<1>4. ASSUME NEW s \in Subs, S!ResumeWrite(s) \/ S!FallDue(s) PROVE Kept
  <2>1. sub[s] \in SubRow /\ DOMAIN sub = Subs
    BY DEF SubRows
  <2>2. CASE S!ResumeWrite(s)
    <3> DEFINE n == [sub[s] EXCEPT !.status = "active", !.due = FALSE]
    <3>1. n \in SubRow
      BY <2>1 DEF SubRow
    <3>2. sub' = [sub EXCEPT ![s] = n] /\ s \in resuming
      BY <2>1, <2>2 DEF S!ResumeWrite
    <3> HIDE DEF n
    <3>3. QED BY <3>1, <3>2, StatusMoves
  <2>3. CASE S!FallDue(s)
    <3> DEFINE falls == sub[s].falls + 1
               n == [sub[s] EXCEPT !.due = TRUE, !.falls = falls]
    <3>1. falls \in Nat
      BY <2>1 DEF SubRow
    <3>2. sub' = [sub EXCEPT ![s] = n]
      BY <2>1, <2>3 DEF S!FallDue
    <3> HIDE DEF falls
    <3>3. n \in SubRow /\ n.status = sub[s].status
      BY <2>1, <3>1 DEF SubRow
    <3> HIDE DEF n
    <3>4. QED BY <3>2, <3>3, StatusMoves
  <2>4. QED BY <1>4, <2>2, <2>3
<1>5. ASSUME NEW a, S!BillSubscription(a) PROVE Kept
  <2> DEFINE s == job[a].sub
             n == [sub[s] EXCEPT !.due = FALSE, !.status = S!Paid(@)]
  <2>1. sub' = [sub EXCEPT ![s] = n]
    BY <1>5 DEF S!BillSubscription
  <2>2. CASE s \in Subs
    <3>1. sub[s] \in SubRow
      BY <2>2 DEF SubRows
    <3>2. n \in SubRow /\ (sub[s].status \in S!Stopped => n.status \in S!Stopped)
      BY <3>1, StoppedStays
    <3> HIDE DEF n, s
    <3>3. QED BY <2>1, <2>2, <3>2, StatusMoves
  <2>3. CASE s \notin Subs
    <3> HIDE DEF s, n
    <3>1. sub' = sub
      BY <2>1, <2>3 DEF SubRows
    <3>2. QED BY <3>1, StatusStays
  <2>4. QED BY <2>2, <2>3
<1>6. ASSUME NEW r, S!SetPastDue(r) PROVE Kept
  <2> DEFINE s == job[r].sub
             status == IF S!Billable(s) THEN "past_due" ELSE sub[s].status
  <2>1. sub' = [sub EXCEPT ![s].status = status]
    BY <1>6 DEF S!SetPastDue
  <2>2. CASE s \in Subs /\ S!Billable(s)
    <3>1. status = "past_due" /\ sub[s].status \notin S!Stopped
      BY <2>2 DEF S!Billable, S!Stopped
    <3> HIDE DEF status, s
    <3>2. QED BY <2>1, <2>2, <3>1, <1>1
  <2>3. CASE s \in Subs /\ ~S!Billable(s)
    <3>1. status = sub[s].status /\ sub[s] \in SubRow
      BY <2>3 DEF SubRows
    <3> HIDE DEF status, s
    <3>2. sub' = sub
      BY <2>1, <2>3, <3>1 DEF SubRows, SubRow
    <3>3. QED BY <3>2, StatusStays
  <2>4. CASE s \notin Subs
    <3> HIDE DEF status, s
    <3>1. sub' = sub
      BY <2>1, <2>4 DEF SubRows
    <3>2. QED BY <3>1, StatusStays
  <2>5. QED BY <2>2, <2>3, <2>4
<1>7. CASE sub' = sub
  BY <1>7, StatusStays
<1>8. CASE S!Next
  BY Zenon, <1>2, <1>3, <1>4, <1>5, <1>6, <1>7, <1>8 DEF S!Next, S!ResumeRead, S!Boot, S!Shutdown, S!Crash,
     S!SchedulerStep, S!ActorStep, S!StartBill, S!LogSuccess, S!BillFails, S!LeaseRunsOut, S!Tick, S!LogFailed
<1>9. QED BY Zenon, <1>7, <1>8, WorkersFrame DEF sonly, vars

\* A subscription that was paused or cancelled, in the middle of a bill too, is revived by a
\* resume that had found it paused, and by nothing else: a bill that commits and one that fails
\* leave it stopped (resumeSubscription, billSubscription, the scheduler's past_due).
THEOREM OnlyAResumeRevives == Spec => OnlyResumeRevives
<1>1. Init => SubRows
  <2> SUFFICES ASSUME S!Init PROVE SubRows
    BY Zenon DEF Init
  <2>1. QED BY DEF S!Init, SubRows, SubRow
<1>2. SubRows /\ [Next]_vars => SubRows' /\ [S!RevivedByResume]_vars
  BY RevivedStep
<1>3. QED BY <1>1, <1>2, PTL DEF Spec, OnlyResumeRevives

-----------------------------------------------------------------------------
(* The recovery of carts.                                                  *)

TickRow == [at : {"idle", "next", "send", "mark"}, todo : SUBSET Carts, cart : Carts \cup {None}]

RecoveryTypes ==
    /\ worker \in [Replicas -> TickRow] /\ lease \in [Locks -> LeaseRow]
    /\ mails \in [Carts -> Nat] /\ lost \in [Carts -> Nat]
    /\ notified \in [Carts -> BOOLEAN] /\ resends \in [Carts -> {"no", "asked", "sent", "done"}]
    /\ \A r \in Replicas : worker[r].at \in {"send", "mark"} => worker[r].cart \in Carts

TickHasLock == \A r \in Replicas : worker[r].at # "idle" => lease[R!Lock].token = r /\ lease[R!Lock].live

\* The mails that nobody asked for and that somebody can answer for.
Excused(c) == lost[c] + R!Resent(c)
Writes(r, at, c) == worker[r].at = at /\ worker[r].cart = c

\* Before its row says so, a cart has had no such mail, unless a worker is about to say so; a
\* worker that is about to write has read a row that did not.
MailFollowsRow ==
    \A c \in Carts :
        /\ mails[c] <= 1 + Excused(c)
        /\ ~notified[c] /\ (\A r \in Replicas : ~Writes(r, "mark", c)) => mails[c] <= Excused(c)
        /\ \A r \in Replicas : Writes(r, "send", c) => mails[c] <= Excused(c)

RecoveryInv == RecoveryTypes /\ TickHasLock /\ MailFollowsRow

LEMMA RecoveryInit == Init => RecoveryInv
<1> SUFFICES ASSUME R!Init PROVE RecoveryInv
  BY Zenon DEF Init
<1>1. R!NoTick \in TickRow /\ R!NoTick.at = "idle" /\ R!NoLease \in LeaseRow
  BY DEF R!NoTick, TickRow, R!NoLease, LeaseRow
<1>2. worker = [r \in Replicas |-> R!NoTick] /\ lease = [n \in Locks |-> R!NoLease]
  BY DEF R!Init
<1>3. RecoveryTypes
  BY <1>1, <1>2 DEF RecoveryTypes, R!Init
<1>4. \A r \in Replicas : worker[r].at = "idle"
  BY <1>1, <1>2
<1>5. \A c \in Carts : mails[c] = 0 /\ lost[c] = 0 /\ R!Resent(c) = 0
  BY DEF R!Init, R!Resent
<1>6. QED BY <1>3, <1>4, <1>5 DEF RecoveryInv, TickHasLock, MailFollowsRow, Writes, Excused

\* One worker at a time is at work.
LEMMA OneTick ==
  ASSUME RecoveryInv, NEW q \in Replicas, NEW r \in Replicas, worker[q].at # "idle", worker[r].at # "idle"
  PROVE  q = r
BY DEF RecoveryInv, TickHasLock

LEMMA MailNumbers ==
  ASSUME RecoveryInv, NEW c \in Carts
  PROVE  mails[c] \in Nat /\ lost[c] \in Nat /\ R!Resent(c) \in Nat /\ Excused(c) \in Nat
BY DEF RecoveryInv, RecoveryTypes, R!Resent, Excused

\* A worker goes on; n is what it is about to do.
LEMMA WorkerGoes ==
  ASSUME RecoveryInv, NEW r \in Replicas, NEW n \in TickRow, worker' = [worker EXCEPT ![r] = n],
         UNCHANGED <<notified, mails, resends>>, lease' \in [Locks -> LeaseRow], TickHasLock',
         n.at = "send" => n.cart \in Carts,
         n.at # "mark", n.at = "send" => mails[n.cart] <= Excused(n.cart),
         lost' = IF worker[r].at = "mark" THEN [lost EXCEPT ![worker[r].cart] = @ + 1] ELSE lost
  PROVE  RecoveryInv'
<1>1. \A q \in Replicas : worker'[q] = IF q = r THEN n ELSE worker[q]
  BY DEF RecoveryInv, RecoveryTypes
<1>2. lost' \in [Carts -> Nat] /\ \A c \in Carts : lost'[c] \in Nat /\ lost'[c] >= lost[c]
  BY DEF RecoveryInv, RecoveryTypes
<1>3. RecoveryTypes'
  BY <1>1, <1>2 DEF RecoveryInv, RecoveryTypes
<1>4. \A c \in Carts : /\ R!Resent(c)' = R!Resent(c) /\ mails'[c] = mails[c]
                       /\ Excused(c) \in Nat /\ Excused(c)' \in Nat /\ Excused(c) <= Excused(c)'
  BY <1>2, MailNumbers DEF R!Resent, Excused
<1>5. MailFollowsRow'
  <2> SUFFICES ASSUME NEW c \in Carts
               PROVE  /\ mails[c] <= 1 + Excused(c)'
                      /\ ~notified[c] /\ (\A q \in Replicas : ~Writes(q, "mark", c)') => mails[c] <= Excused(c)'
                      /\ \A q \in Replicas : Writes(q, "send", c)' => mails[c] <= Excused(c)'
    BY DEF MailFollowsRow
  <2>1. mails[c] \in Nat /\ mails[c] <= 1 + Excused(c)
    BY MailNumbers DEF RecoveryInv, MailFollowsRow
  <2>2. mails[c] <= 1 + Excused(c)'
    BY <1>4, <2>1
  <2>3. ASSUME NEW q \in Replicas, Writes(q, "send", c)' PROVE mails[c] <= Excused(c)'
    <3>1. CASE q = r
      BY <3>1, <2>3, <1>1, <1>4, <2>1 DEF Writes
    <3>2. CASE q # r
      <4>1. Writes(q, "send", c)
        BY <3>2, <2>3, <1>1 DEF Writes
      <4>2. QED BY <4>1, <1>4, <2>1 DEF RecoveryInv, MailFollowsRow
    <3>3. QED BY <3>1, <3>2
  <2>4. ASSUME ~notified[c], \A q \in Replicas : ~Writes(q, "mark", c)' PROVE mails[c] <= Excused(c)'
    <3>1. CASE \A q \in Replicas : ~Writes(q, "mark", c)
      BY <3>1, <2>4, <1>4, <2>1 DEF RecoveryInv, MailFollowsRow
    <3>2. CASE \E q \in Replicas : Writes(q, "mark", c)
      <4>1. PICK q \in Replicas : Writes(q, "mark", c)
        BY <3>2
      <4>2. q = r
        BY <4>1, <2>4, <1>1 DEF Writes
      <4>3. worker[r].at = "mark" /\ worker[r].cart = c
        BY <4>1, <4>2 DEF Writes
      <4>4. lost' = [lost EXCEPT ![c] = @ + 1]
        BY <4>3
      <4>5. Excused(c)' = Excused(c) + 1
        BY <4>4, <1>4, MailNumbers DEF Excused, RecoveryInv, RecoveryTypes
      <4>6. QED BY <4>5, <2>1, <1>4
    <3>3. QED BY <3>1, <3>2
  <2>5. QED BY <2>2, <2>3, <2>4
<1>6. QED BY <1>3, <1>5 DEF RecoveryInv

\* The lock stays where it is when nobody starts to work.
LEMMA TickKeepsLock ==
  ASSUME RecoveryInv, NEW r \in Replicas, NEW n \in TickRow, worker' = [worker EXCEPT ![r] = n], UNCHANGED lease,
         worker[r].at # "idle" \/ n.at = "idle"
  PROVE  TickHasLock' /\ lease' \in [Locks -> LeaseRow]
<1>1. \A q \in Replicas : worker'[q] = IF q = r THEN n ELSE worker[q]
  BY DEF RecoveryInv, RecoveryTypes
<1>2. QED BY <1>1 DEF RecoveryInv, RecoveryTypes, TickHasLock, R!Lock

\* The records a worker becomes.
LEMMA TickRecords ==
  ASSUME NEW z \in TickRow
  PROVE  /\ \A at \in {"next", "mark"} :
               LET w == [z EXCEPT !.at = at] IN w \in TickRow /\ w.at = at /\ w.cart = z.cart
         /\ R!NoTick \in TickRow /\ R!NoTick.at = "idle"
         /\ \A T \in SUBSET Carts :
               LET w == [R!NoTick EXCEPT !.at = "next", !.todo = T] IN w \in TickRow /\ w.at = "next"
<1>1. \A at \in {"next", "mark"} :
         LET w == [z EXCEPT !.at = at] IN w \in TickRow /\ w.at = at /\ w.cart = z.cart
  BY DEF TickRow
<1>2. R!NoTick \in TickRow /\ R!NoTick.at = "idle"
  BY DEF TickRow, R!NoTick
<1>3. \A y \in TickRow, T \in SUBSET Carts :
         LET w == [y EXCEPT !.at = "next", !.todo = T] IN w \in TickRow /\ w.at = "next"
  BY DEF TickRow
<1> HIDE DEF R!NoTick
<1>4. QED BY <1>1, <1>2, <1>3

LEMMA TickStarts ==
  ASSUME RecoveryInv, NEW r \in Replicas, R!StartTick(r)
  PROVE  RecoveryInv'
<1> DEFINE T == {c \in Carts : cart[c] = "old"}
           n == [R!NoTick EXCEPT !.at = "next", !.todo = T]
<1>1. /\ worker[r] \in TickRow /\ worker[r].at = "idle" /\ worker' = [worker EXCEPT ![r] = n]
      /\ lease' = [lease EXCEPT ![R!Lock] = [token |-> r, live |-> TRUE]] /\ ~lease[R!Lock].live
      /\ UNCHANGED <<notified, mails, resends, lost>>
  BY DEF RecoveryInv, RecoveryTypes, R!StartTick, R!Acquire
<1>2. n \in TickRow /\ n.at = "next"
  BY <1>1, TickRecords
<1> HIDE DEF n
<1>3. [token |-> r, live |-> TRUE] \in LeaseRow
  BY DEF LeaseRow
<1>4. lease' \in [Locks -> LeaseRow] /\ lease'[R!Lock].token = r /\ lease'[R!Lock].live
  BY <1>1, <1>3 DEF RecoveryInv, RecoveryTypes, Locks, R!Lock
<1>5. \A q \in Replicas : worker[q].at = "idle" /\ worker'[q] = IF q = r THEN n ELSE worker[q]
  BY <1>1 DEF RecoveryInv, RecoveryTypes, TickHasLock
<1>6. TickHasLock'
  BY <1>4, <1>5 DEF TickHasLock, R!Lock
<1>7. QED BY <1>1, <1>2, <1>4, <1>6, WorkerGoes

LEMMA UpsertAsks ==
  ASSUME RecoveryInv, NEW r \in Replicas, R!UpsertAbandonedCart(r)
  PROVE  RecoveryInv'
<1>1. PICK c \in worker[r].todo :
        worker' = [worker EXCEPT ![r] =
            [at |-> IF R!GetsToken(c) THEN "send" ELSE "next", todo |-> @.todo \ {c}, cart |-> c]]
  BY DEF R!UpsertAbandonedCart
<1>2. /\ worker[r] \in TickRow /\ worker[r].at = "next"
      /\ UNCHANGED <<notified, mails, resends, lost, lease>>
  BY DEF RecoveryInv, RecoveryTypes, R!UpsertAbandonedCart
<1> DEFINE at == IF R!GetsToken(c) THEN "send" ELSE "next"
           todo == worker[r].todo \ {c}
           n == [at |-> at, todo |-> todo, cart |-> c]
<1>3. todo \in SUBSET Carts /\ c \in Carts
  BY <1>2 DEF TickRow
<1>4. at \in {"send", "next"} /\ (at = "send" => ~notified[c])
  BY DEF R!GetsToken
<1>5. worker' = [worker EXCEPT ![r] = n]
  BY <1>1, <1>2 DEF RecoveryInv, RecoveryTypes
<1> HIDE DEF at, todo
<1>6. n \in TickRow /\ n.at = at /\ n.cart = c
  BY <1>3, <1>4 DEF TickRow
<1> HIDE DEF n
<1>7. \A q \in Replicas : ~Writes(q, "mark", c)
  BY <1>2, OneTick DEF Writes
<1>8. n.at = "send" => mails[n.cart] <= Excused(n.cart)
  BY <1>3, <1>4, <1>6, <1>7 DEF RecoveryInv, MailFollowsRow
<1>9. TickHasLock' /\ lease' \in [Locks -> LeaseRow]
  BY <1>2, <1>5, <1>6, TickKeepsLock
<1>10. QED BY <1>2, <1>3, <1>4, <1>5, <1>6, <1>8, <1>9, WorkerGoes

LEMMA TickEnds ==
  ASSUME RecoveryInv, NEW r \in Replicas, R!CartFails(r) \/ R!EndTick(r) \/ R!Crash(r)
  PROVE  RecoveryInv'
<1>1. /\ worker[r] \in TickRow /\ worker[r].at # "idle" /\ UNCHANGED <<notified, mails, resends>>
      /\ lost' = IF worker[r].at = "mark" THEN [lost EXCEPT ![worker[r].cart] = @ + 1] ELSE lost
  BY DEF RecoveryInv, RecoveryTypes, R!CartFails, R!EndTick, R!Crash, R!Lose
<1>2. CASE R!CartFails(r)
  <2> DEFINE n == [worker[r] EXCEPT !.at = "next"]
  <2>1. n \in TickRow /\ n.at = "next"
    BY <1>1, TickRecords
  <2>2. worker' = [worker EXCEPT ![r] = n] /\ UNCHANGED lease
    BY <1>2 DEF R!CartFails, RecoveryInv, RecoveryTypes
  <2> HIDE DEF n
  <2>3. TickHasLock' /\ lease' \in [Locks -> LeaseRow]
    BY <1>1, <2>1, <2>2, TickKeepsLock
  <2>4. QED BY <1>1, <2>1, <2>2, <2>3, WorkerGoes
<1>3. CASE R!EndTick(r) \/ R!Crash(r)
  <2>1. /\ R!NoTick \in TickRow /\ R!NoTick.at = "idle" /\ worker' = [worker EXCEPT ![r] = R!NoTick]
        /\ lease' = lease \/ R!Release(R!Lock, r)
    BY <1>1, <1>3, TickRecords DEF R!EndTick, R!Crash
  <2>2. lease' = lease \/ lease' = [lease EXCEPT ![R!Lock] = R!NoLease]
    BY <2>1 DEF R!Release
  <2>3. lease' \in [Locks -> LeaseRow]
    <3>1. R!NoLease \in LeaseRow
      BY DEF R!NoLease, LeaseRow
    <3>2. QED BY <3>1, <2>2 DEF RecoveryInv, RecoveryTypes
  <2>4. \A q \in Replicas : worker'[q].at = "idle"
    <3> TAKE q \in Replicas
    <3>1. worker'[q] = IF q = r THEN R!NoTick ELSE worker[q]
      BY <2>1 DEF RecoveryInv, RecoveryTypes
    <3>2. q # r => worker[q].at = "idle"
      BY <1>1, OneTick
    <3>3. QED BY <3>1, <3>2, <2>1
  <2>5. TickHasLock'
    BY <2>4 DEF TickHasLock
  <2>6. QED BY <1>1, <2>1, <2>3, <2>5, WorkerGoes
<1>4. QED BY <1>2, <1>3

LEMMA MailLeaves ==
  ASSUME RecoveryInv, NEW r \in Replicas, R!SendRecoveryEmail(r)
  PROVE  RecoveryInv'
<1>0. PICK c \in Carts : c = worker[r].cart
  BY DEF RecoveryInv, RecoveryTypes, R!SendRecoveryEmail
<1> DEFINE n == [worker[r] EXCEPT !.at = "mark"]
<1>1. /\ worker[r] \in TickRow /\ worker[r].at = "send" /\ mails' = [mails EXCEPT ![c] = @ + 1]
      /\ UNCHANGED <<notified, resends, lost, lease>>
  BY <1>0 DEF RecoveryInv, RecoveryTypes, R!SendRecoveryEmail, R!Send
<1>2. n \in TickRow /\ n.at = "mark" /\ n.cart = c
  BY <1>0, <1>1, TickRecords
<1>3. worker' = [worker EXCEPT ![r] = n]
  BY DEF RecoveryInv, RecoveryTypes, R!SendRecoveryEmail
<1> HIDE DEF n
<1>4. \A q \in Replicas : worker'[q] = IF q = r THEN n ELSE worker[q]
  BY <1>3 DEF RecoveryInv, RecoveryTypes
<1>5. TickHasLock' /\ lease' \in [Locks -> LeaseRow]
  BY <1>1, <1>2, <1>3, TickKeepsLock
<1>6. mails' \in [Carts -> Nat] /\ \A d \in Carts : mails'[d] = IF d = c THEN mails[d] + 1 ELSE mails[d]
  BY <1>1 DEF RecoveryInv, RecoveryTypes
<1>7. RecoveryTypes'
  BY <1>1, <1>2, <1>3, <1>4, <1>5, <1>6 DEF RecoveryInv, RecoveryTypes
<1>8. \A d : Excused(d)' = Excused(d)
  BY <1>1 DEF Excused, R!Resent
<1>9. Writes(r, "send", c) /\ Writes(r, "mark", c)'
  BY <1>0, <1>1, <1>2, <1>4 DEF Writes
<1>10. mails[c] <= Excused(c) /\ mails[c] \in Nat /\ Excused(c) \in Nat
  BY <1>9, MailNumbers DEF RecoveryInv, MailFollowsRow
<1>11. \A q \in Replicas : worker'[q].at # "send"
  BY <1>1, <1>2, <1>4, OneTick
<1>12. MailFollowsRow'
  <2> SUFFICES ASSUME NEW d \in Carts
               PROVE  /\ mails'[d] <= 1 + Excused(d)
                      /\ ~notified[d] /\ (\A q \in Replicas : ~Writes(q, "mark", d)') => mails'[d] <= Excused(d)
                      /\ \A q \in Replicas : ~Writes(q, "send", d)'
    BY <1>1, <1>8 DEF MailFollowsRow
  <2>1. \A q \in Replicas : ~Writes(q, "send", d)'
    BY <1>11 DEF Writes
  <2>2. CASE d = c
    BY <2>1, <2>2, <1>6, <1>9, <1>10
  <2>3. CASE d # c
    <3>1. \A q \in Replicas : Writes(q, "mark", d) => Writes(q, "mark", d)'
      BY <1>1, <1>4 DEF Writes
    <3>2. QED BY <3>1, <2>1, <2>3, <1>6 DEF RecoveryInv, MailFollowsRow
  <2>4. QED BY <2>2, <2>3
<1>13. QED BY <1>5, <1>7, <1>12 DEF RecoveryInv

LEMMA RowIsMarked ==
  ASSUME RecoveryInv, NEW r \in Replicas, R!MarkNotified(r)
  PROVE  RecoveryInv'
<1>0. PICK c \in Carts : c = worker[r].cart
  BY DEF RecoveryInv, RecoveryTypes, R!MarkNotified
<1> DEFINE n == [worker[r] EXCEPT !.at = "next"]
<1>1. /\ worker[r] \in TickRow /\ worker[r].at = "mark" /\ notified' = [notified EXCEPT ![c] = TRUE]
      /\ UNCHANGED <<mails, resends, lost, lease>>
  BY <1>0 DEF RecoveryInv, RecoveryTypes, R!MarkNotified, R!Mark
<1>2. n \in TickRow /\ n.at = "next"
  BY <1>1, TickRecords
<1>3. worker' = [worker EXCEPT ![r] = n]
  BY DEF RecoveryInv, RecoveryTypes, R!MarkNotified
<1> HIDE DEF n
<1>4. \A q \in Replicas : worker'[q] = IF q = r THEN n ELSE worker[q]
  BY <1>3 DEF RecoveryInv, RecoveryTypes
<1>5. TickHasLock' /\ lease' \in [Locks -> LeaseRow]
  BY <1>1, <1>2, <1>3, TickKeepsLock
<1>6. notified' \in [Carts -> BOOLEAN] /\ notified'[c] /\ \A d \in Carts : d # c => (notified'[d] <=> notified[d])
  BY <1>1 DEF RecoveryInv, RecoveryTypes
<1>7. RecoveryTypes'
  BY <1>1, <1>2, <1>3, <1>4, <1>5, <1>6 DEF RecoveryInv, RecoveryTypes
<1>8. \A d : Excused(d)' = Excused(d)
  BY <1>1 DEF Excused, R!Resent
<1>9. \A q \in Replicas, d \in Carts : /\ d # c /\ Writes(q, "mark", d) => Writes(q, "mark", d)'
                                       /\ Writes(q, "send", d)' => Writes(q, "send", d)
  BY <1>0, <1>1, <1>2, <1>4 DEF Writes
<1>10. MailFollowsRow'
  <2> SUFFICES ASSUME NEW d \in Carts
               PROVE  /\ mails[d] <= 1 + Excused(d)
                      /\ ~notified'[d] /\ (\A q \in Replicas : ~Writes(q, "mark", d)') => mails[d] <= Excused(d)
                      /\ \A q \in Replicas : Writes(q, "send", d)' => mails[d] <= Excused(d)
    BY <1>1, <1>8 DEF MailFollowsRow
  <2>1. QED BY <1>6, <1>9 DEF RecoveryInv, MailFollowsRow
<1>11. QED BY <1>5, <1>7, <1>10 DEF RecoveryInv

LEMMA ResendAsks ==
  ASSUME RecoveryInv, NEW c \in Carts, R!Resend(c)
  PROVE  RecoveryInv'
<1>1. UNCHANGED <<lost, worker, lease>>
  BY DEF R!Resend
<1>2. TickHasLock'
  BY <1>1 DEF RecoveryInv, TickHasLock, R!Lock
<1>3. \A q \in Replicas : \A at, d : Writes(q, at, d)' <=> Writes(q, at, d)
  BY <1>1 DEF Writes
<1>4. CASE resends[c] = "no" /\ resends' = [resends EXCEPT ![c] = "sent"] /\ R!Send(c) /\ UNCHANGED notified
  <2>1. mails' = [mails EXCEPT ![c] = @ + 1]
    BY <1>4 DEF R!Send
  <2>2. RecoveryTypes'
    BY <1>1, <1>4, <2>1 DEF RecoveryInv, RecoveryTypes
  <2>3. \A d \in Carts : /\ d # c => mails'[d] = mails[d] /\ Excused(d)' = Excused(d)
                         /\ d = c => mails'[d] = mails[d] + 1 /\ Excused(d)' = Excused(d) + 1
    BY <1>1, <1>4, <2>1 DEF RecoveryInv, RecoveryTypes, Excused, R!Resent
  <2>4. \A d \in Carts : mails[d] \in Nat /\ Excused(d) \in Nat
    BY MailNumbers
  <2>5. \A d \in Carts, m \in {0, 1} : mails[d] <= m + Excused(d) => mails'[d] <= m + Excused(d)'
    BY <2>3, <2>4
  <2>6. \A d \in Carts : /\ mails[d] <= 1 + Excused(d) => mails'[d] <= 1 + Excused(d)'
                         /\ mails[d] <= Excused(d) => mails'[d] <= Excused(d)'
    BY <2>3, <2>4
  <2>7. MailFollowsRow'
    BY <1>3, <1>4, <2>6 DEF RecoveryInv, MailFollowsRow
  <2>8. QED BY <1>2, <2>2, <2>7 DEF RecoveryInv
<1>5. CASE resends[c] = "sent" /\ resends' = [resends EXCEPT ![c] = "done"] /\ R!Mark(c) /\ UNCHANGED mails
  <2>1. notified' = [notified EXCEPT ![c] = TRUE]
    BY <1>5 DEF R!Mark
  <2>2. RecoveryTypes'
    BY <1>1, <1>5, <2>1 DEF RecoveryInv, RecoveryTypes
  <2>3. \A d \in Carts : Excused(d)' = Excused(d) /\ (notified[d] => notified'[d])
    BY <1>1, <1>5, <2>1 DEF RecoveryInv, RecoveryTypes, Excused, R!Resent
  <2>4. MailFollowsRow'
    BY <1>3, <1>5, <2>3 DEF RecoveryInv, MailFollowsRow
  <2>5. QED BY <1>2, <2>2, <2>4 DEF RecoveryInv
<1>6. QED BY <1>4, <1>5 DEF R!Resend

LEMMA RecoveryStutter ==
  ASSUME RecoveryInv, UNCHANGED <<notified, mails, lost, resends, worker>>, lease' \in [Locks -> LeaseRow],
         lease'[R!Lock] = lease[R!Lock] \/ \A r \in Replicas : worker[r].at = "idle"
  PROVE  RecoveryInv'
<1>1. RecoveryTypes' /\ TickHasLock'
  BY DEF RecoveryInv, RecoveryTypes, TickHasLock, R!Lock
<1>2. MailFollowsRow'
  BY DEF RecoveryInv, MailFollowsRow, Writes, Excused, R!Resent
<1>3. QED BY <1>1, <1>2 DEF RecoveryInv

LEMMA RecoveryNext ==
  ASSUME ~Overrun, RecoveryInv, R!Next
  PROVE  RecoveryInv'
<1>1. ASSUME NEW c \in Carts, R!CartMoves(c) PROVE RecoveryInv'
  BY <1>1, RecoveryStutter DEF R!CartMoves, RecoveryInv, RecoveryTypes
<1>2. CASE R!LeaseRunsOut
  <2>1. /\ \A r \in Replicas : worker[r].at = "idle"
        /\ UNCHANGED <<notified, mails, lost, resends, worker>> /\ lease' = [lease EXCEPT ![R!Lock].live = FALSE]
    BY <1>2 DEF R!LeaseRunsOut, R!RunOut, RecoveryInv, TickHasLock
  <2>2. lease' \in [Locks -> LeaseRow]
    BY <2>1 DEF RecoveryInv, RecoveryTypes, LeaseRow
  <2>3. QED BY <2>1, <2>2, RecoveryStutter
<1>3. QED BY Zenon, <1>1, <1>2, TickStarts, UpsertAsks, TickEnds, MailLeaves, RowIsMarked, ResendAsks
          DEF R!Next, R!WorkerStep

\* The scheduler has a lock of its own.
LEMMA SchedulerKeepsLock ==
  ASSUME lease \in [Locks -> LeaseRow], S!Next
  PROVE  lease' \in [Locks -> LeaseRow] /\ lease'[R!Lock] = lease[R!Lock]
<1>1. CASE UNCHANGED lease
  BY <1>1
<1>2. CASE \E r \in Replicas : S!Acquire(S!Scheduler, r) \/ S!Release(S!Scheduler, r)
  <2>1. PICK r \in Replicas : S!Acquire(S!Scheduler, r) \/ S!Release(S!Scheduler, r)
    BY <1>2
  <2>2. [token |-> r, live |-> TRUE] \in LeaseRow /\ S!NoLease \in LeaseRow
    BY DEF LeaseRow, S!NoLease
  <2>3. PICK row \in LeaseRow : lease' = lease \/ lease' = [lease EXCEPT ![S!Scheduler] = row]
    BY <2>1, <2>2 DEF S!Acquire, S!Release
  <2>4. QED BY <2>3 DEF R!Lock, S!Scheduler, Locks
<1>3. CASE S!RunOut(S!Scheduler)
  <2>1. lease' = [lease EXCEPT ![S!Scheduler].live = FALSE]
    BY <1>3 DEF S!RunOut
  <2>2. lease' \in [Locks -> LeaseRow]
    BY <2>1 DEF LeaseRow
  <2>3. QED BY <2>1, <2>2 DEF R!Lock, S!Scheduler, Locks
<1>4. QED BY Zenon, <1>1, <1>2, <1>3 DEF S!Next, S!CreateSubscription, S!PauseSubscription, S!CancelSubscription,
             S!ResumeRead, S!ResumeWrite, S!FallDue, S!Boot, S!Shutdown, S!Crash, S!SchedulerStep, S!ActorStep,
             S!Tick, S!StartBill, S!BillSubscription, S!LogSuccess, S!BillFails, S!SetPastDue, S!LogFailed,
             S!LeaseRunsOut

LEMMA RecoveryStep ==
  ASSUME ~Overrun, RecoveryInv, [Next]_vars
  PROVE  RecoveryInv'
<1>1. lease \in [Locks -> LeaseRow]
  BY DEF RecoveryInv, RecoveryTypes
<1>2. CASE R!Next
  BY <1>2, RecoveryNext
<1>3. CASE S!Next /\ UNCHANGED ronly
  BY <1>1, <1>3, SchedulerKeepsLock, RecoveryStutter DEF ronly
<1>4. CASE UNCHANGED <<ronly, lease>>
  BY <1>1, <1>4, RecoveryStutter DEF ronly
<1>5. QED BY <1>2, <1>3, <1>4, WorkersFrame DEF vars

\* The owner of a cart is written to once by itself: however many replicas tick, fail, die and
\* leave their lock behind, and whoever sends the mail again, another mail was asked for or could
\* not be recorded (the lock, the row that is read before the mail and marked after it), as long as
\* no tick outlasts its lock.
THEOREM OwnersGetOneMail == ~Overrun => (Spec => []OneMailPerCart)
<1> SUFFICES ASSUME ~Overrun PROVE Spec => []OneMailPerCart
  OBVIOUS
<1>1. RecoveryInv => OneMailPerCart
  <2> SUFFICES ASSUME RecoveryInv, NEW c \in Carts PROVE mails[c] <= 1 + R!Resent(c) + lost[c]
    BY DEF OneMailPerCart, R!OneMailPerCart
  <2>1. mails[c] <= 1 + Excused(c)
    BY DEF RecoveryInv, MailFollowsRow
  <2>2. QED BY <2>1, MailNumbers DEF Excused
<1>2. RecoveryInv /\ [Next]_vars => RecoveryInv'
  BY RecoveryStep
<1>3. QED BY <1>1, <1>2, RecoveryInit, PTL DEF Spec

-----------------------------------------------------------------------------
(* The billing queue of the cloud.                                         *)

PlanRow == [status : {"active", "past_due"}, paid : BOOLEAN, end : Nat, ending : BOOLEAN, failing : BOOLEAN]
TaskRow == [st : {"none", "pending", "failed", "processing", "completed", "dead"}, run : Nat, tries : Nat]
Untried == {"charge", "past_due", "retire", "downgrade", "bury"}
Settled == {"record", "advance", "invoice", "complete"}
DrainRow == [at : {"idle", "next"} \cup Untried \cup Settled, todo : SUBSET B!Ends,
             key : B!Ends \cup {None}, failing : BOOLEAN]

\* The tasks in a worker's hands are those of its batch it has not served yet and the one it
\* serves; those it may still charge include the latter up to its charge.
InHands(row, k) == k \in row.todo \/ (row.at \notin {"idle", "next"} /\ row.key = k)
ToCharge(row, k) == k \in row.todo \/ (row.at \in Untried /\ row.key = k)
ServesOne(row) == row.at \notin {"idle", "next"} => row.key \in B!Ends /\ row.key \notin row.todo

BillingTypes ==
    /\ day \in 0..MaxDay /\ plan \in PlanRow /\ tasks \in [B!Ends -> TaskRow]
    /\ drain \in [Replicas -> DrainRow]
    /\ charged \in [B!Ends -> Nat] /\ unseen \in [B!Ends -> Nat]

\* A task in hands is under way, and in the hands of one worker.
TasksAreHeld ==
    /\ \A w \in Replicas : ServesOne(drain[w])
    /\ \A k \in B!Ends : \A w \in Replicas : InHands(drain[w], k) => tasks[k].st = "processing"
    /\ \A k \in B!Ends : \A v, w \in Replicas : InHands(drain[v], k) /\ InHands(drain[w], k) => v = w

\* A task that may still be charged has not been, but for charges whose answer was lost.
MayCharge(k) ==
    \/ tasks[k].st \in {"none", "pending", "failed"}
    \/ \E w \in Replicas : ToCharge(drain[w], k)
ChargesAreKnown ==
    \A k \in B!Ends : charged[k] <= 1 + unseen[k] /\ (MayCharge(k) => charged[k] <= unseen[k])

BillingInv == BillingTypes /\ TasksAreHeld /\ ChargesAreKnown

\* Transactions and invoices are numbers that differ by the workers in between.
InvoicesFollow ==
    /\ txns \in Nat /\ invoices \in Nat /\ faults \in Nat
    /\ B!RenewalsAreInvoiced

LEMMA EndsAreNumbers == B!Ends \subseteq Nat
BY BillingAssumption DEF B!Ends

LEMMA BillingInit == Init => BillingInv
<1> SUFFICES ASSUME B!Init PROVE BillingInv
  BY Zenon DEF Init
<1>1. \A w \in Replicas : drain[w] = B!Idle
  BY DEF B!Init
<1>2. B!Idle \in DrainRow /\ B!Idle.at = "idle" /\ B!Idle.todo = {}
  BY DEF B!Idle, DrainRow
<1>3. B!NoTask \in TaskRow
  BY DEF B!NoTask, TaskRow
<1>4. plan \in PlanRow
  BY DEF B!Init, PlanRow
<1>5. BillingTypes
  BY <1>1, <1>2, <1>3, <1>4, BillingAssumption DEF B!Init, BillingTypes
<1>6. TasksAreHeld
  BY <1>1, <1>2 DEF TasksAreHeld, InHands, ServesOne
<1>7. ChargesAreKnown
  BY DEF B!Init, ChargesAreKnown
<1>8. QED BY <1>5, <1>6, <1>7 DEF BillingInv

\* What a step of a worker must respect for its tasks to stay in the hands of one worker.
LEMMA HandsMove ==
  ASSUME BillingInv, NEW w \in Replicas, NEW n \in DrainRow, ServesOne(n),
         drain' = [drain EXCEPT ![w] = n],
         \A k \in B!Ends : InHands(n, k) => /\ tasks'[k].st = "processing"
                                            /\ InHands(drain[w], k) \/ tasks[k].st # "processing",
         \A k \in B!Ends : \/ InHands(drain[w], k) \/ tasks[k].st # "processing"
                           \/ tasks'[k].st = tasks[k].st
  PROVE  TasksAreHeld' /\ drain' \in [Replicas -> DrainRow]
<1>1. drain \in [Replicas -> DrainRow]
  BY DEF BillingInv, BillingTypes
<1>2. drain'[w] = n /\ \A v \in Replicas : v # w => drain'[v] = drain[v]
  BY <1>1
<1>3. drain' \in [Replicas -> DrainRow]
  BY <1>1
<1>4. \A k \in B!Ends : \A v \in Replicas : v # w /\ InHands(drain[v], k) =>
          /\ tasks[k].st = "processing" /\ ~InHands(drain[w], k)
  BY DEF BillingInv, TasksAreHeld
<1>5. \A v \in Replicas : ServesOne(drain'[v])
  BY <1>2 DEF BillingInv, TasksAreHeld
<1>6. \A k \in B!Ends : \A v \in Replicas : InHands(drain'[v], k) => tasks'[k].st = "processing"
  BY <1>2, <1>4
<1>7. \A k \in B!Ends : \A u, v \in Replicas : InHands(drain'[u], k) /\ InHands(drain'[v], k) => u = v
  <2> SUFFICES ASSUME NEW k \in B!Ends, NEW u \in Replicas, NEW v \in Replicas,
                      InHands(drain'[u], k), InHands(drain'[v], k)
               PROVE  u = v
    OBVIOUS
  <2>1. CASE u # w /\ v # w
    BY <2>1, <1>2 DEF BillingInv, TasksAreHeld
  <2>2. CASE u = w \/ v = w
    BY <2>2, <1>2, <1>4
  <2>3. QED BY <2>1, <2>2
<1>8. QED BY <1>3, <1>5, <1>6, <1>7 DEF TasksAreHeld

\* A step after which no more may be charged than before leaves the charges known.
LEMMA ChargesStay ==
  ASSUME BillingInv, UNCHANGED <<charged, unseen>>, \A k \in B!Ends : MayCharge(k)' => MayCharge(k)
  PROVE  ChargesAreKnown'
BY DEF BillingInv, ChargesAreKnown

\* The same for the steps that charge nothing, from what the worker has in hands.
LEMMA WorkerGoesOn ==
  ASSUME BillingInv, NEW w \in Replicas, NEW n \in DrainRow, ServesOne(n),
         drain' = [drain EXCEPT ![w] = n], UNCHANGED <<charged, unseen>>,
         day' \in 0..MaxDay, plan' \in PlanRow, tasks' \in [B!Ends -> TaskRow],
         \A k \in B!Ends : InHands(n, k) => InHands(drain[w], k) /\ tasks'[k].st = "processing",
         \A k \in B!Ends : ToCharge(n, k) => ToCharge(drain[w], k),
         \A k \in B!Ends : \/ tasks'[k].st = tasks[k].st
                           \/ tasks[k].st = "none" /\ tasks'[k].st = "pending"
                           \/ ToCharge(drain[w], k)
                           \/ InHands(drain[w], k) /\ tasks'[k].st = "completed"
  PROVE  BillingInv'
<1>1. drain \in [Replicas -> DrainRow]
  BY DEF BillingInv, BillingTypes
<1>2. drain'[w] = n /\ \A v \in Replicas : v # w => drain'[v] = drain[v]
  BY <1>1
<1>3. \A k \in B!Ends : ToCharge(drain[w], k) => InHands(drain[w], k)
  BY DEF ToCharge, InHands, Untried
<1>4. TasksAreHeld' /\ drain' \in [Replicas -> DrainRow]
  BY <1>3, HandsMove
<1>5. BillingTypes'
  BY <1>4 DEF BillingInv, BillingTypes
<1>6. \A k \in B!Ends : \A v \in Replicas : ToCharge(drain'[v], k) => ToCharge(drain[v], k)
  BY <1>2
<1>7. \A k \in B!Ends : MayCharge(k)' => MayCharge(k)
  <2> SUFFICES ASSUME NEW k \in B!Ends, MayCharge(k)' PROVE MayCharge(k)
    OBVIOUS
  <2>1. CASE \E v \in Replicas : ToCharge(drain'[v], k)
    BY <2>1, <1>6 DEF MayCharge
  <2>2. CASE tasks'[k].st \in {"none", "pending", "failed"}
    BY <2>2 DEF MayCharge
  <2>3. QED BY <2>1, <2>2 DEF MayCharge
<1>8. ChargesAreKnown'
  BY <1>7, ChargesStay
<1>9. QED BY <1>4, <1>5, <1>8 DEF BillingInv

\* The row of a worker that goes to another step.
LEMMA RowGoes ==
  ASSUME BillingInv, NEW w \in Replicas, NEW step \in {"next"} \cup Untried \cup Settled, B!Go(w, step)
  PROVE  \E n \in DrainRow : /\ drain' = [drain EXCEPT ![w] = n]
                             /\ n.at = step /\ n.todo = drain[w].todo /\ n.key = drain[w].key
<1> DEFINE n == [drain[w] EXCEPT !.at = step]
<1>1. drain[w] \in DrainRow
  BY DEF BillingInv, BillingTypes
<1>2. n \in DrainRow /\ n.at = step /\ n.todo = drain[w].todo /\ n.key = drain[w].key
  BY <1>1 DEF DrainRow
<1>3. drain' = [drain EXCEPT ![w] = n]
  BY DEF B!Go
<1> HIDE DEF n
<1>4. QED BY <1>2, <1>3

\* A task that is given a status.
LEMMA TaskMoves ==
  ASSUME BillingInv, NEW k \in B!Ends, NEW st \in {"none", "pending", "failed", "processing", "completed", "dead"},
         tasks' = [tasks EXCEPT ![k].st = st]
  PROVE  /\ tasks' \in [B!Ends -> TaskRow] /\ tasks'[k].st = st
         /\ \A j \in B!Ends : j # k => tasks'[j] = tasks[j]
<1> DEFINE t == [tasks[k] EXCEPT !.st = st]
<1>1. tasks[k] \in TaskRow /\ tasks \in [B!Ends -> TaskRow]
  BY DEF BillingInv, BillingTypes
<1>2. t \in TaskRow /\ t.st = st
  BY <1>1 DEF TaskRow
<1>3. tasks' = [tasks EXCEPT ![k] = t]
  OBVIOUS
<1> HIDE DEF t
<1>4. QED BY <1>1, <1>2, <1>3

\* A task that is queued: one that is known stays as it is.
LEMMA QueueAdds ==
  ASSUME BillingInv, NEW k, NEW run \in Nat, B!Queue(k, run)
  PROVE  /\ tasks' \in [B!Ends -> TaskRow]
         /\ \A j \in B!Ends : \/ tasks'[j].st = tasks[j].st
                              \/ tasks[j].st = "none" /\ tasks'[j].st = "pending"
<1> DEFINE t == [st |-> "pending", run |-> run, tries |-> 0]
<1>1. tasks \in [B!Ends -> TaskRow]
  BY DEF BillingInv, BillingTypes
<1>2. t \in TaskRow /\ t.st = "pending"
  BY DEF TaskRow
<1>3. tasks' = [tasks EXCEPT ![k] = IF @.st = "none" THEN t ELSE @]
  BY DEF B!Queue
<1> HIDE DEF t
<1>4. QED BY <1>1, <1>2, <1>3

\* What happens around the workers leaves what they have in hands.
LEMMA OutsideStep ==
  ASSUME BillingInv, UNCHANGED <<drain, charged, unseen>>,
         day' \in 0..MaxDay, plan' \in PlanRow, tasks' \in [B!Ends -> TaskRow],
         \A j \in B!Ends : \/ tasks'[j].st = tasks[j].st
                           \/ tasks[j].st = "none" /\ tasks'[j].st = "pending"
  PROVE  BillingInv'
<1>1. BillingTypes'
  BY DEF BillingInv, BillingTypes
<1>2. \A j \in B!Ends : \A w \in Replicas : InHands(drain[w], j) => tasks'[j].st = "processing"
  BY DEF BillingInv, TasksAreHeld
<1>3. TasksAreHeld'
  BY <1>2 DEF BillingInv, TasksAreHeld
<1>4. \A j \in B!Ends : MayCharge(j)' => MayCharge(j)
  BY DEF MayCharge
<1>5. ChargesAreKnown'
  BY <1>4, ChargesStay
<1>6. QED BY <1>1, <1>3, <1>5 DEF BillingInv

LEMMA BillingStutter ==
  ASSUME BillingInv, UNCHANGED bonly
  PROVE  BillingInv'
<1>1. day' \in 0..MaxDay /\ plan' \in PlanRow /\ tasks' \in [B!Ends -> TaskRow]
  BY DEF bonly, BillingInv, BillingTypes
<1>2. QED BY <1>1, OutsideStep DEF bonly

LEMMA PlanMoves ==
  ASSUME BillingInv
  PROVE  B!Tomorrow \/ B!RemoveCard \/ B!CancelAtPeriodEnd \/ B!Upgrade \/ B!EnqueueUpcomingRenewals
            => BillingInv'
<1>1. day \in 0..MaxDay /\ plan \in PlanRow /\ tasks \in [B!Ends -> TaskRow]
  BY DEF BillingInv, BillingTypes
<1>2. ASSUME B!Tomorrow PROVE BillingInv'
  <2>1. day' \in 0..MaxDay /\ UNCHANGED <<plan, tasks, drain, charged, unseen>>
    BY <1>1, <1>2, BillingAssumption DEF B!Tomorrow
  <2>2. QED BY <1>1, <2>1, OutsideStep
<1>3. ASSUME B!RemoveCard PROVE BillingInv'
  BY <1>1, <1>3, OutsideStep DEF B!RemoveCard
<1>4. ASSUME B!CancelAtPeriodEnd PROVE BillingInv'
  <2>1. plan' \in PlanRow
    BY <1>1, <1>4 DEF B!CancelAtPeriodEnd, PlanRow
  <2>2. QED BY <1>1, <1>4, <2>1, OutsideStep DEF B!CancelAtPeriodEnd
<1>5. ASSUME B!Upgrade PROVE BillingInv'
  <2>1. day + Cycle \in Nat
    BY <1>1, BillingAssumption
  <2>2. plan' \in PlanRow
    BY <1>1, <1>5, <2>1 DEF B!Upgrade, PlanRow, B!NextPeriodEnd
  <2>3. QED BY <1>1, <1>5, <2>2, OutsideStep DEF B!Upgrade
<1>6. ASSUME B!EnqueueUpcomingRenewals PROVE BillingInv'
  <2>1. plan.end \in Nat /\ day \in Nat
    BY <1>1 DEF PlanRow
  <2>2. PICK run \in Nat : B!Queue(plan.end, run)
    BY <1>6, <2>1 DEF B!EnqueueUpcomingRenewals
  <2>3. /\ tasks' \in [B!Ends -> TaskRow]
        /\ \A j \in B!Ends : \/ tasks'[j].st = tasks[j].st
                             \/ tasks[j].st = "none" /\ tasks'[j].st = "pending"
    BY <2>2, QueueAdds
  <2>4. UNCHANGED <<day, plan, drain, charged, unseen>>
    BY <1>6 DEF B!EnqueueUpcomingRenewals
  <2>5. QED BY <1>1, <2>3, <2>4, OutsideStep
<1>7. QED BY <1>2, <1>3, <1>4, <1>5, <1>6

\* The claim takes tasks nobody has in hands, and starts them.
LEMMA ClaimTakes ==
  ASSUME BillingInv, NEW w \in Replicas, B!Claim(w)
  PROVE  BillingInv'
<1> DEFINE n == [B!Idle EXCEPT !.at = "next", !.todo = B!Ready]
<1>1. /\ tasks' = [k \in B!Ends |-> IF k \in B!Ready THEN [tasks[k] EXCEPT !.st = "processing", !.tries = @ + 1]
                                    ELSE tasks[k]]
      /\ drain' = [drain EXCEPT ![w] = n] /\ UNCHANGED <<day, plan, charged, unseen>>
  BY DEF B!Claim
<1>2. n \in DrainRow /\ n.at = "next" /\ n.todo = B!Ready
  BY DEF B!Idle, B!Ready, DrainRow
<1> HIDE DEF n
<1>3. tasks \in [B!Ends -> TaskRow]
  BY DEF BillingInv, BillingTypes
<1>4. \A k \in B!Ends : LET t == [tasks[k] EXCEPT !.st = "processing", !.tries = @ + 1]
                        IN t \in TaskRow /\ t.st = "processing"
  <2> SUFFICES ASSUME NEW k \in B!Ends
               PROVE  LET t == [tasks[k] EXCEPT !.st = "processing", !.tries = @ + 1]
                      IN t \in TaskRow /\ t.st = "processing"
    OBVIOUS
  <2>1. tasks[k] \in TaskRow
    BY <1>3
  <2>2. tasks[k].tries + 1 \in Nat
    BY <2>1 DEF TaskRow
  <2> DEFINE m == tasks[k].tries + 1
  <2> HIDE DEF m
  <2>3. LET t == [tasks[k] EXCEPT !.st = "processing", !.tries = m]
        IN t \in TaskRow /\ t.st = "processing"
    BY <2>1, <2>2 DEF TaskRow, m
  <2>4. QED BY <2>3 DEF m
<1>5. \A k \in B!Ends : /\ tasks'[k] \in TaskRow
                        /\ k \in B!Ready => tasks'[k].st = "processing"
                        /\ k \notin B!Ready => tasks'[k] = tasks[k]
  BY <1>1, <1>3, <1>4, Zenon
<1>6. tasks' \in [B!Ends -> TaskRow]
  BY <1>1, <1>5
<1>7. \A k \in B!Ready : k \in B!Ends /\ tasks[k].st \in {"pending", "failed"}
  BY DEF B!Ready, B!Claimable
<1>8. \A k \in B!Ends : (InHands(n, k) \/ ToCharge(n, k)) => k \in B!Ready
  BY <1>2 DEF InHands, ToCharge, Untried
<1>9. ServesOne(n)
  BY <1>2 DEF ServesOne
<1>10. TasksAreHeld' /\ drain' \in [Replicas -> DrainRow]
  <2>1. \A k \in B!Ends : InHands(n, k) => tasks'[k].st = "processing" /\ tasks[k].st # "processing"
    BY <1>5, <1>7, <1>8
  <2>2. \A k \in B!Ends : tasks[k].st # "processing" \/ tasks'[k].st = tasks[k].st
    BY <1>5, <1>7
  <2>3. QED BY <1>1, <1>2, <1>9, <2>1, <2>2, HandsMove
<1>11. BillingTypes'
  BY <1>1, <1>6, <1>10 DEF BillingInv, BillingTypes
<1>12. \A k \in B!Ends : MayCharge(k)' => MayCharge(k)
  <2> SUFFICES ASSUME NEW k \in B!Ends, MayCharge(k)' PROVE MayCharge(k)
    OBVIOUS
  <2>1. CASE k \in B!Ready
    BY <2>1, <1>7 DEF MayCharge
  <2>2. CASE k \notin B!Ready
    <3>1. tasks'[k] = tasks[k]
      BY <2>2, <1>5
    <3>2. \A v \in Replicas : ToCharge(drain'[v], k) => ToCharge(drain[v], k)
      <4>1. drain \in [Replicas -> DrainRow]
        BY DEF BillingInv, BillingTypes
      <4>2. drain'[w] = n /\ \A v \in Replicas : v # w => drain'[v] = drain[v]
        BY <1>1, <4>1
      <4>3. QED BY <2>2, <4>2, <1>8
    <3>3. QED BY <3>1, <3>2 DEF MayCharge
  <2>3. QED BY <2>1, <2>2
<1>13. ChargesAreKnown'
  BY <1>1, <1>12, ChargesStay
<1>14. QED BY <1>10, <1>11, <1>13 DEF BillingInv

\* Whoever lets go of its batch, at its end or because it stops, holds nothing.
LEMMA BatchEnds ==
  ASSUME BillingInv, NEW w \in Replicas, B!Rest(w) \/ B!Abort(w)
  PROVE  BillingInv'
<1>1. drain' = [drain EXCEPT ![w] = B!Idle] /\ UNCHANGED <<day, plan, tasks, charged, unseen>>
  BY DEF B!Rest, B!Abort
<1>2. B!Idle \in DrainRow /\ B!Idle.at = "idle" /\ B!Idle.todo = {}
  BY DEF B!Idle, DrainRow
<1>3. ServesOne(B!Idle) /\ \A k : ~InHands(B!Idle, k) /\ ~ToCharge(B!Idle, k)
  BY <1>2 DEF ServesOne, InHands, ToCharge, Untried
<1>4. day' \in 0..MaxDay /\ plan' \in PlanRow /\ tasks' \in [B!Ends -> TaskRow]
  BY <1>1 DEF BillingInv, BillingTypes
<1>5. QED BY <1>1, <1>2, <1>3, <1>4, WorkerGoesOn

LEMMA RenewTakesUp ==
  ASSUME BillingInv, NEW w \in Replicas, B!Renew(w)
  PROVE  BillingInv'
<1>1. PICK k \in drain[w].todo : \E step \in Untried :
         drain' = [drain EXCEPT ![w] = [at |-> step, todo |-> drain[w].todo \ {k}, key |-> k,
                                        failing |-> plan.failing]]
  BY DEF B!Renew, Untried
<1>2. PICK step \in Untried :
         drain' = [drain EXCEPT ![w] = [at |-> step, todo |-> drain[w].todo \ {k}, key |-> k,
                                        failing |-> plan.failing]]
  BY <1>1
<1> DEFINE n == [at |-> step, todo |-> drain[w].todo \ {k}, key |-> k, failing |-> plan.failing]
<1>3. drain[w] \in DrainRow /\ plan \in PlanRow
  BY DEF BillingInv, BillingTypes
<1>4. k \in B!Ends /\ drain[w].todo \subseteq B!Ends /\ plan.failing \in BOOLEAN
  BY <1>3 DEF DrainRow, PlanRow
<1>5. n \in DrainRow /\ n.at \in Untried /\ n.todo = drain[w].todo \ {k} /\ n.key = k
  BY <1>4 DEF DrainRow
<1>6. drain' = [drain EXCEPT ![w] = n]
  BY <1>2
<1> HIDE DEF n
<1>7. ServesOne(n)
  BY <1>4, <1>5 DEF ServesOne
<1>8. \A j : InHands(n, j) \/ ToCharge(n, j) => j \in drain[w].todo
  BY <1>5 DEF InHands, ToCharge
<1>9. UNCHANGED <<day, plan, tasks, charged, unseen>>
  BY DEF B!Renew
<1>10. day' \in 0..MaxDay /\ plan' \in PlanRow /\ tasks' \in [B!Ends -> TaskRow]
  BY <1>9 DEF BillingInv, BillingTypes
<1>11. \A j \in B!Ends : /\ InHands(n, j) => InHands(drain[w], j) /\ tasks'[j].st = "processing"
                         /\ ToCharge(n, j) => ToCharge(drain[w], j)
  BY <1>8, <1>9 DEF InHands, ToCharge, BillingInv, TasksAreHeld
<1>12. QED BY <1>5, <1>6, <1>7, <1>9, <1>10, <1>11, WorkerGoesOn

\* The steps between the charge and the end of a task that leave the tasks as they are, or
\* queue the next one.
LEMMA WorkerMovesOn ==
  ASSUME BillingInv, NEW w \in Replicas, NEW step \in Untried \cup Settled, B!Go(w, step),
         drain[w].at \in Untried \cup Settled, step \in Untried => drain[w].at \in Untried,
         UNCHANGED <<day, charged, unseen>>, plan' \in PlanRow, tasks' \in [B!Ends -> TaskRow],
         \A j \in B!Ends : \/ tasks'[j].st = tasks[j].st
                           \/ tasks[j].st = "none" /\ tasks'[j].st = "pending"
  PROVE  BillingInv'
<1>1. PICK n \in DrainRow : /\ drain' = [drain EXCEPT ![w] = n]
                            /\ n.at = step /\ n.todo = drain[w].todo /\ n.key = drain[w].key
  <2>1. step \in {"next"} \cup Untried \cup Settled
    OBVIOUS
  <2>2. QED BY <2>1, RowGoes, Zenon
<1>2. drain[w].at \notin {"idle", "next"} /\ n.at \notin {"idle", "next"}
  BY <1>1 DEF Untried, Settled
<1>3. ServesOne(drain[w])
  BY DEF BillingInv, TasksAreHeld
<1>4. ServesOne(n)
  BY <1>1, <1>2, <1>3 DEF ServesOne
<1>5. \A j \in B!Ends : /\ InHands(n, j) <=> InHands(drain[w], j)
                        /\ ToCharge(n, j) => ToCharge(drain[w], j)
  BY <1>1, <1>2 DEF InHands, ToCharge
<1>6. \A j \in B!Ends : InHands(drain[w], j) => tasks'[j].st = "processing"
  BY DEF BillingInv, TasksAreHeld
<1>7. day' \in 0..MaxDay
  BY DEF BillingInv, BillingTypes
<1>8. QED BY <1>1, <1>4, <1>5, <1>6, <1>7, WorkerGoesOn

\* The end of a task: it is completed, or was to be charged and is tried again or buried.
LEMMA TaskEnds ==
  ASSUME BillingInv, NEW w \in Replicas, B!Go(w, "next"), drain[w].at \in Untried \cup Settled,
         NEW st \in {"failed", "completed", "dead"}, st = "completed" \/ drain[w].at \in Untried,
         UNCHANGED <<day, plan, charged, unseen>>, tasks' \in [B!Ends -> TaskRow],
         tasks'[drain[w].key].st = st,
         \A j \in B!Ends : j # drain[w].key => tasks'[j] = tasks[j]
  PROVE  BillingInv'
<1>1. PICK n \in DrainRow : /\ drain' = [drain EXCEPT ![w] = n]
                            /\ n.at = "next" /\ n.todo = drain[w].todo /\ n.key = drain[w].key
  BY RowGoes
<1>2. drain[w].at \notin {"idle", "next"}
  BY DEF Untried, Settled
<1>3. drain[w].key \in B!Ends /\ drain[w].key \notin drain[w].todo
  BY <1>2 DEF BillingInv, TasksAreHeld, ServesOne
<1>4. ServesOne(n)
  BY <1>1 DEF ServesOne
<1>5. \A j \in B!Ends : /\ InHands(n, j) => j # drain[w].key /\ j \in drain[w].todo
                        /\ ToCharge(n, j) => j \in drain[w].todo
  BY <1>1, <1>3 DEF InHands, ToCharge, Untried
<1>6. \A j \in B!Ends : j \in drain[w].todo => InHands(drain[w], j) /\ ToCharge(drain[w], j) /\ tasks[j].st = "processing"
  BY DEF InHands, ToCharge, BillingInv, TasksAreHeld
<1>7. \A j \in B!Ends : /\ InHands(n, j) => InHands(drain[w], j) /\ tasks'[j].st = "processing"
                        /\ ToCharge(n, j) => ToCharge(drain[w], j)
  BY <1>5, <1>6
<1>8. \A j \in B!Ends : \/ tasks'[j].st = tasks[j].st
                        \/ ToCharge(drain[w], j)
                        \/ InHands(drain[w], j) /\ tasks'[j].st = "completed"
  BY <1>2 DEF InHands, ToCharge
<1>9. day' \in 0..MaxDay /\ plan' \in PlanRow
  BY DEF BillingInv, BillingTypes
<1>10. QED BY <1>1, <1>4, <1>7, <1>8, <1>9, WorkerGoesOn

\* The charge itself: the one that is seen is the last, the one whose answer is lost counts
\* for both.
LEMMA ChargeCounts ==
  ASSUME BillingInv, NEW w \in Replicas, B!Charge(w)
  PROVE  BillingInv'
<1>0. PICK k : k = drain[w].key
  OBVIOUS
<1>1. drain[w].at = "charge" /\ UNCHANGED <<day, plan, tasks>>
  BY DEF B!Charge
<1>2. drain[w].at \in Untried /\ drain[w].at \notin {"idle", "next"}
  BY <1>1 DEF Untried
<1>3. ServesOne(drain[w]) /\ k \in B!Ends /\ k \notin drain[w].todo
  BY <1>0, <1>2 DEF BillingInv, TasksAreHeld, ServesOne
<1>4. MayCharge(k) /\ InHands(drain[w], k) /\ tasks[k].st = "processing"
  BY <1>0, <1>2, <1>3 DEF MayCharge, ToCharge, InHands, BillingInv, TasksAreHeld
<1>5. charged[k] \in Nat /\ unseen[k] \in Nat /\ charged[k] <= unseen[k]
  BY <1>3, <1>4 DEF BillingInv, BillingTypes, ChargesAreKnown
<1>6. day' \in 0..MaxDay /\ plan' \in PlanRow /\ tasks' \in [B!Ends -> TaskRow]
  BY <1>1 DEF BillingInv, BillingTypes
<1>7. charged \in [B!Ends -> Nat] /\ unseen \in [B!Ends -> Nat] /\ drain \in [Replicas -> DrainRow]
  BY DEF BillingInv, BillingTypes
<1>8. CASE B!Go(w, "past_due") /\ UNCHANGED <<charged, unseen>>
  <2>1. "past_due" \in Untried \cup Settled
    BY DEF Untried
  <2>2. QED BY <1>1, <1>2, <1>6, <1>8, <2>1, WorkerMovesOn
<1>9. CASE charged' = [charged EXCEPT ![k] = @ + 1] /\ B!Go(w, "record") /\ unseen' = unseen
  <2>1. "record" \in {"next"} \cup Untried \cup Settled
    BY DEF Settled
  <2>2. PICK n \in DrainRow : /\ drain' = [drain EXCEPT ![w] = n]
                              /\ n.at = "record" /\ n.todo = drain[w].todo /\ n.key = drain[w].key
    BY <1>9, <2>1, RowGoes, Zenon
  <2>3. ServesOne(n)
    BY <1>0, <1>3, <2>2 DEF ServesOne
  <2>4. \A j \in B!Ends : /\ InHands(n, j) <=> InHands(drain[w], j)
                          /\ ToCharge(n, j) => ToCharge(drain[w], j) /\ j # k
    BY <1>0, <1>2, <1>3, <2>2 DEF InHands, ToCharge, Untried
  <2>5. TasksAreHeld' /\ drain' \in [Replicas -> DrainRow]
    <3>1. \A j \in B!Ends : InHands(drain[w], j) => tasks[j].st = "processing"
      BY DEF BillingInv, TasksAreHeld
    <3>2. QED BY <1>1, <2>2, <2>3, <2>4, <3>1, HandsMove
  <2>6. drain'[w] = n /\ \A v \in Replicas : v # w => drain'[v] = drain[v]
    BY <1>7, <2>2
  <2>7. ~MayCharge(k)'
    <3>1. \A v \in Replicas : v # w => ~InHands(drain[v], k)
      BY <1>3, <1>4 DEF BillingInv, TasksAreHeld
    <3>2. \A v \in Replicas : ~ToCharge(drain'[v], k)
      BY <1>3, <2>4, <2>6, <3>1 DEF ToCharge, InHands, Untried
    <3>3. QED BY <1>1, <1>4, <3>2 DEF MayCharge
  <2>8. \A j \in B!Ends : MayCharge(j)' => MayCharge(j)
    BY <1>1, <2>4, <2>6 DEF MayCharge
  <2>9. /\ charged'[k] = charged[k] + 1 /\ charged' \in [B!Ends -> Nat]
        /\ \A j \in B!Ends : j # k => charged'[j] = charged[j]
    BY <1>3, <1>7, <1>9
  <2>10. BillingTypes'
    BY <1>6, <1>7, <1>9, <2>5, <2>9 DEF BillingTypes
  <2>11. ChargesAreKnown'
    <3> SUFFICES ASSUME NEW j \in B!Ends
                 PROVE  charged'[j] <= 1 + unseen[j] /\ (MayCharge(j)' => charged'[j] <= unseen[j])
      BY <1>9 DEF ChargesAreKnown
    <3>1. CASE j = k
      BY <3>1, <1>5, <2>7, <2>9
    <3>2. CASE j # k
      BY <3>2, <2>8, <2>9 DEF BillingInv, ChargesAreKnown
    <3>3. QED BY <3>1, <3>2
  <2>12. QED BY <2>5, <2>10, <2>11 DEF BillingInv
<1>10. CASE /\ charged' = [charged EXCEPT ![k] = @ + 1] /\ unseen' = [unseen EXCEPT ![k] = @ + 1]
            /\ B!Go(w, "past_due")
  <2>1. "past_due" \in {"next"} \cup Untried \cup Settled
    BY DEF Untried
  <2>2. PICK n \in DrainRow : /\ drain' = [drain EXCEPT ![w] = n]
                              /\ n.at = "past_due" /\ n.todo = drain[w].todo /\ n.key = drain[w].key
    BY <1>10, <2>1, RowGoes, Zenon
  <2>3. ServesOne(n)
    BY <1>0, <1>3, <2>2 DEF ServesOne
  <2>4. \A j \in B!Ends : /\ InHands(n, j) <=> InHands(drain[w], j)
                          /\ ToCharge(n, j) => ToCharge(drain[w], j)
    BY <1>0, <1>2, <1>3, <2>2 DEF InHands, ToCharge, Untried
  <2>5. TasksAreHeld' /\ drain' \in [Replicas -> DrainRow]
    <3>1. \A j \in B!Ends : InHands(drain[w], j) => tasks[j].st = "processing"
      BY DEF BillingInv, TasksAreHeld
    <3>2. QED BY <1>1, <2>2, <2>3, <2>4, <3>1, HandsMove
  <2>6. drain'[w] = n /\ \A v \in Replicas : v # w => drain'[v] = drain[v]
    BY <1>7, <2>2
  <2>7. \A j \in B!Ends : MayCharge(j)' => MayCharge(j)
    BY <1>1, <2>4, <2>6 DEF MayCharge
  <2>8. /\ charged'[k] = charged[k] + 1 /\ charged' \in [B!Ends -> Nat]
        /\ unseen'[k] = unseen[k] + 1 /\ unseen' \in [B!Ends -> Nat]
        /\ \A j \in B!Ends : j # k => charged'[j] = charged[j] /\ unseen'[j] = unseen[j]
    BY <1>3, <1>7, <1>10
  <2>9. BillingTypes'
    BY <1>6, <2>5, <2>8 DEF BillingTypes
  <2>10. ChargesAreKnown'
    <3> SUFFICES ASSUME NEW j \in B!Ends
                 PROVE  charged'[j] <= 1 + unseen'[j] /\ (MayCharge(j)' => charged'[j] <= unseen'[j])
      BY DEF ChargesAreKnown
    <3>1. CASE j = k
      BY <3>1, <1>5, <2>8
    <3>2. CASE j # k
      BY <3>2, <2>7, <2>8 DEF BillingInv, ChargesAreKnown
    <3>3. QED BY <3>1, <3>2
  <2>11. QED BY <2>5, <2>9, <2>10 DEF BillingInv
<1>11. QED BY <1>0, <1>8, <1>9, <1>10 DEF B!Charge

LEMMA StepsMoveOn ==
  ASSUME BillingInv, NEW w \in Replicas
  PROVE  B!RecordTransaction(w) \/ B!AdvancePeriod(w) \/ B!InvoiceAndEnqueue(w) \/ B!MarkPastDue(w) \/ B!AutoDowngrade(w)
            => BillingInv'
<1>1. day \in 0..MaxDay /\ plan \in PlanRow /\ tasks \in [B!Ends -> TaskRow]
  BY DEF BillingInv, BillingTypes
<1>2. day + Cycle \in Nat
  BY <1>1, BillingAssumption
<1>3. ASSUME B!RecordTransaction(w) PROVE BillingInv'
  <2>1. B!Go(w, "advance") /\ UNCHANGED <<day, plan, tasks, charged, unseen>> /\ drain[w].at = "record"
    BY <1>3 DEF B!RecordTransaction
  <2>2. "advance" \in Settled /\ "advance" \notin Untried /\ drain[w].at \in Settled
    BY <2>1 DEF Untried, Settled
  <2>3. QED BY <1>1, <2>1, <2>2, WorkerMovesOn
<1>4. ASSUME B!AdvancePeriod(w) PROVE BillingInv'
  <2>1. B!Go(w, "invoice") /\ UNCHANGED <<day, tasks, charged, unseen>> /\ drain[w].at = "advance"
    BY <1>4 DEF B!AdvancePeriod
  <2>2. "invoice" \in Settled /\ "invoice" \notin Untried /\ drain[w].at \in Settled
    BY <2>1 DEF Untried, Settled
  <2>3. plan' \in PlanRow
    BY <1>1, <1>2, <1>4 DEF B!AdvancePeriod, PlanRow, B!NextPeriodEnd
  <2>4. QED BY <1>1, <2>1, <2>2, <2>3, WorkerMovesOn
<1>5. ASSUME B!InvoiceAndEnqueue(w) PROVE BillingInv'
  <2>1. B!Go(w, "complete") /\ UNCHANGED <<day, plan, charged, unseen>> /\ drain[w].at = "invoice"
    BY <1>5 DEF B!InvoiceAndEnqueue
  <2>2. "complete" \in Settled /\ "complete" \notin Untried /\ drain[w].at \in Settled
    BY <2>1 DEF Untried, Settled
  <2>3. B!Queue(day + Cycle, day + Cycle)
    BY <1>5 DEF B!InvoiceAndEnqueue, B!NextPeriodEnd
  <2>4. /\ tasks' \in [B!Ends -> TaskRow]
        /\ \A j \in B!Ends : \/ tasks'[j].st = tasks[j].st
                             \/ tasks[j].st = "none" /\ tasks'[j].st = "pending"
    BY <1>2, <2>3, QueueAdds
  <2>5. QED BY <1>1, <2>1, <2>2, <2>4, WorkerMovesOn
<1>6. ASSUME B!MarkPastDue(w) PROVE BillingInv'
  <2>1. PICK step \in {"retire", "downgrade"} : B!Go(w, step)
    BY <1>6 DEF B!MarkPastDue
  <2>2. UNCHANGED <<day, tasks, charged, unseen>> /\ drain[w].at = "past_due"
    BY <1>6 DEF B!MarkPastDue
  <2>3. step \in Untried /\ drain[w].at \in Untried
    BY <2>2 DEF Untried
  <2>4. plan' \in PlanRow
    BY <1>1, <1>6 DEF B!MarkPastDue, PlanRow
  <2>5. QED BY <1>1, <2>1, <2>2, <2>3, <2>4, WorkerMovesOn
<1>7. ASSUME B!AutoDowngrade(w) PROVE BillingInv'
  <2>1. B!Go(w, "retire") /\ UNCHANGED <<day, tasks, charged, unseen>> /\ drain[w].at = "downgrade"
    BY <1>7 DEF B!AutoDowngrade
  <2>2. "retire" \in Untried /\ drain[w].at \in Untried
    BY <2>1 DEF Untried
  <2>3. plan' \in PlanRow
    BY <1>1, <1>7 DEF B!AutoDowngrade, PlanRow
  <2>4. QED BY <1>1, <2>1, <2>2, <2>3, WorkerMovesOn
<1>8. QED BY <1>3, <1>4, <1>5, <1>6, <1>7

LEMMA TasksLeave ==
  ASSUME BillingInv, NEW w \in Replicas
  PROVE  B!Complete(w) \/ B!Retire(w) \/ B!Bury(w) => BillingInv'
<1> DEFINE k == drain[w].key
<1>1. drain[w].at \in Untried \cup Settled => k \in B!Ends
  BY DEF BillingInv, TasksAreHeld, ServesOne, Untried, Settled
<1>2. ASSUME B!Complete(w) PROVE BillingInv'
  <2>1. /\ drain[w].at = "complete" /\ B!Go(w, "next") /\ tasks' = [tasks EXCEPT ![k].st = "completed"]
        /\ UNCHANGED <<day, plan, charged, unseen>>
    BY <1>2 DEF B!Complete
  <2>2. drain[w].at \in Settled
    BY <2>1 DEF Settled
  <2>3. /\ tasks' \in [B!Ends -> TaskRow] /\ tasks'[k].st = "completed"
        /\ \A j \in B!Ends : j # k => tasks'[j] = tasks[j]
    BY <1>1, <2>1, <2>2, TaskMoves
  <2>4. QED BY <2>1, <2>2, <2>3, TaskEnds
<1>3. ASSUME B!Bury(w) PROVE BillingInv'
  <2>1. /\ drain[w].at = "bury" /\ B!Go(w, "next") /\ tasks' = [tasks EXCEPT ![k].st = "dead"]
        /\ UNCHANGED <<day, plan, charged, unseen>>
    BY <1>3 DEF B!Bury
  <2>2. drain[w].at \in Untried
    BY <2>1 DEF Untried
  <2>3. /\ tasks' \in [B!Ends -> TaskRow] /\ tasks'[k].st = "dead"
        /\ \A j \in B!Ends : j # k => tasks'[j] = tasks[j]
    BY <1>1, <2>1, <2>2, TaskMoves
  <2>4. QED BY <2>1, <2>2, <2>3, TaskEnds
<1>4. ASSUME B!Retire(w) PROVE BillingInv'
  <2>1. drain[w].at = "retire" /\ UNCHANGED <<day, plan, charged, unseen>>
    BY <1>4 DEF B!Retire
  <2>2. drain[w].at \in Untried
    BY <2>1 DEF Untried
  <2>3. CASE B!Go(w, "bury") /\ UNCHANGED tasks
    <3>1. "bury" \in Untried /\ plan' \in PlanRow /\ tasks' \in [B!Ends -> TaskRow]
      BY <2>1, <2>3 DEF Untried, BillingInv, BillingTypes
    <3>2. QED BY <2>1, <2>2, <2>3, <3>1, WorkerMovesOn
  <2>4. CASE tasks' = [tasks EXCEPT ![k].st = "failed", ![k].run = day + 1] /\ B!Go(w, "next")
    <3> DEFINE m == day + 1
    <3>1. m \in Nat
      BY BillingAssumption DEF BillingInv, BillingTypes
    <3>2. tasks[k] \in TaskRow /\ tasks \in [B!Ends -> TaskRow] /\ k \in B!Ends
      BY <1>1, <2>2 DEF BillingInv, BillingTypes
    <3> HIDE DEF m
    <3> DEFINE t == [tasks[k] EXCEPT !.st = "failed", !.run = m]
    <3>3. t \in TaskRow /\ t.st = "failed"
      BY <3>1, <3>2 DEF TaskRow
    <3>4. tasks' = [tasks EXCEPT ![k] = t]
      BY <2>4, <3>2 DEF m
    <3> HIDE DEF t
    <3>5. /\ tasks' \in [B!Ends -> TaskRow] /\ tasks'[k].st = "failed"
          /\ \A j \in B!Ends : j # k => tasks'[j] = tasks[j]
      BY <3>2, <3>3, <3>4
    <3>6. QED BY <2>1, <2>2, <2>4, <3>5, TaskEnds
  <2>5. QED BY <1>4, <2>3, <2>4 DEF B!Retire
<1>5. QED BY <1>2, <1>3, <1>4

LEMMA BillingNext == BillingInv /\ B!Next => BillingInv'
<1> SUFFICES ASSUME BillingInv, B!Next PROVE BillingInv'
  OBVIOUS
<1>1. CASE B!Tomorrow \/ B!RemoveCard \/ B!CancelAtPeriodEnd \/ B!Upgrade \/ B!EnqueueUpcomingRenewals
  BY <1>1, PlanMoves
<1>2. ASSUME NEW w \in Replicas, B!WorkerStep(w) \/ B!Abort(w) PROVE BillingInv'
  BY <1>2, ClaimTakes, BatchEnds, RenewTakesUp, ChargeCounts, StepsMoveOn, TasksLeave DEF B!WorkerStep
<1>3. QED BY <1>1, <1>2 DEF B!Next

LEMMA BillingStep == BillingInv /\ [Next]_vars => BillingInv'
<1> SUFFICES ASSUME BillingInv, [Next]_vars PROVE BillingInv'
  OBVIOUS
<1>1. B!Next \/ UNCHANGED bonly
  BY WorkersFrame DEF vars
<1>2. QED BY <1>1, BillingNext, BillingStutter

(***************************************************************************)
(* A task of the billing queue charges the card once, and once more for    *)
(* each charge whose answer was lost, however many workers drain the queue *)
(* and wherever they stop: a claim takes only tasks nobody has in hands,   *)
(* and a task whose charge was seen is never claimed again.                *)
(***************************************************************************)
THEOREM TasksChargeOnce == Spec => []ChargedOncePerTask
<1>1. BillingInv => ChargedOncePerTask
  BY DEF BillingInv, ChargesAreKnown, ChargedOncePerTask, B!ChargedOncePerTask
<1>2. QED BY <1>1, BillingInit, BillingStep, PTL DEF Spec

-----------------------------------------------------------------------------
(* Renewals and their invoices.                                            *)

LEMMA SameCount == \A s : B!Cardinality(s) = Cardinality(s)
BY DEF B!Cardinality, Cardinality

Between == {"advance", "invoice"}

LEMMA InvoicingCounts == IsFiniteSet(B!Invoicing) /\ Cardinality(B!Invoicing) \in Nat
<1>1. B!Invoicing \in SUBSET Replicas
  BY DEF B!Invoicing
<1>2. IsFiniteSet(B!Invoicing)
  BY <1>1, BillingAssumption, FS_Subset
<1>3. QED BY <1>2, FS_CardinalityType

LEMMA InvoicesAre ==
  InvoicesFollow <=> /\ txns \in Nat /\ invoices \in Nat /\ faults \in Nat
                     /\ txns <= invoices + Cardinality(B!Invoicing) + faults
                     /\ invoices + Cardinality(B!Invoicing) <= txns
BY SameCount DEF InvoicesFollow, B!RenewalsAreInvoiced

LEMMA InvoicesWillBe ==
  InvoicesFollow' <=> /\ txns' \in Nat /\ invoices' \in Nat /\ faults' \in Nat
                      /\ txns' <= invoices' + Cardinality(B!Invoicing)' + faults'
                      /\ invoices' + Cardinality(B!Invoicing)' <= txns'
BY SameCount DEF InvoicesFollow, B!RenewalsAreInvoiced

\* Those between transaction and invoice, when a worker goes to another step.
LEMMA InvoicingMoves ==
  ASSUME BillingInv, NEW w \in Replicas, NEW n, drain' = [drain EXCEPT ![w] = n]
  PROVE  /\ n.at \in Between /\ drain[w].at \notin Between
               => Cardinality(B!Invoicing)' = Cardinality(B!Invoicing) + 1
         /\ n.at \in Between /\ drain[w].at \in Between => Cardinality(B!Invoicing)' = Cardinality(B!Invoicing)
         /\ n.at \notin Between /\ drain[w].at \in Between
               => Cardinality(B!Invoicing)' = Cardinality(B!Invoicing) - 1
         /\ n.at \notin Between /\ drain[w].at \notin Between
               => Cardinality(B!Invoicing)' = Cardinality(B!Invoicing)
<1>1. drain \in [Replicas -> DrainRow]
  BY DEF BillingInv, BillingTypes
<1>2. drain'[w] = n /\ \A v \in Replicas : v # w => drain'[v] = drain[v]
  BY <1>1
<1>3. PICK I : I = B!Invoicing
  OBVIOUS
<1>4. IsFiniteSet(I) /\ (w \in I <=> drain[w].at \in Between)
  BY <1>3, InvoicingCounts DEF B!Invoicing, Between
<1>5. n.at \in Between => B!Invoicing' = I \cup {w}
  BY <1>2, <1>3 DEF B!Invoicing, Between
<1>6. n.at \notin Between => B!Invoicing' = I \ {w}
  BY <1>2, <1>3 DEF B!Invoicing, Between
<1>7. /\ Cardinality(I \cup {w}) = IF w \in I THEN Cardinality(I) ELSE Cardinality(I) + 1
      /\ Cardinality(I \ {w}) = IF w \in I THEN Cardinality(I) - 1 ELSE Cardinality(I)
  BY <1>4, FS_AddElement, FS_RemoveElement
<1>8. QED BY <1>3, <1>4, <1>5, <1>6, <1>7

\* A step that leaves the transactions and the workers in between.
LEMMA InvoicesStay ==
  ASSUME InvoicesFollow, UNCHANGED <<txns, invoices>>,
         Cardinality(B!Invoicing)' = Cardinality(B!Invoicing), faults' \in Nat, faults <= faults'
  PROVE  InvoicesFollow'
<1>1. Cardinality(B!Invoicing) \in Nat
  BY InvoicingCounts
<1>2. InvoicesFollow'  <=> /\ txns' \in Nat /\ invoices' \in Nat /\ faults' \in Nat
                           /\ txns' <= invoices' + Cardinality(B!Invoicing)' + faults'
                           /\ invoices' + Cardinality(B!Invoicing)' <= txns'
  BY InvoicesWillBe
<1>3. QED BY <1>1, <1>2, InvoicesAre

LEMMA InvoicesInit == Init => InvoicesFollow
<1> SUFFICES ASSUME B!Init PROVE InvoicesFollow
  BY Zenon DEF Init
<1>1. B!Invoicing = {}
  BY DEF B!Init, B!Invoicing, B!Idle
<1>2. Cardinality(B!Invoicing) = 0
  BY <1>1, FS_EmptySet
<1>3. QED BY <1>2, InvoicesAre DEF B!Init

\* The parts that do not bill count faults and leave the rest.
LEMMA OthersLeaveInvoices ==
  ASSUME InvoicesFollow, UNCHANGED bonly, S!Next \/ R!Next \/ faults' = faults
  PROVE  InvoicesFollow'
<1>1. faults \in Nat
  BY DEF InvoicesFollow
<1>2. faults' = faults \/ faults' = faults + 1
  <2>1. ASSUME S!Next PROVE faults' = faults \/ faults' = faults + 1
    <3>1. CASE \E s \in Subs : \/ S!CreateSubscription(s) \/ S!PauseSubscription(s) \/ S!CancelSubscription(s)
                              \/ S!ResumeRead(s) \/ S!ResumeWrite(s) \/ S!FallDue(s)
      BY <3>1 DEF S!CreateSubscription, S!PauseSubscription, S!CancelSubscription, S!ResumeRead,
         S!ResumeWrite, S!FallDue
    <3>2. ASSUME NEW a, S!ActorStep(a) PROVE faults' = faults
      BY <3>2 DEF S!ActorStep, S!StartBill, S!BillSubscription, S!LogSuccess
    <3>3. CASE \E r \in Replicas : S!Boot(r) \/ S!Shutdown(r) \/ S!Crash(r) \/ S!SchedulerStep(r)
      BY <3>2, <3>3 DEF S!Boot, S!Shutdown, S!Crash, S!SchedulerStep, S!Tick, S!SetPastDue, S!LogFailed
    <3>4. CASE (\E a \in S!Actors : S!BillFails(a)) \/ S!LeaseRunsOut
      BY <3>4 DEF S!BillFails, S!LeaseRunsOut
    <3>5. QED BY <2>1, <3>1, <3>2, <3>3, <3>4 DEF S!Next
  <2>2. ASSUME R!Next PROVE faults' = faults \/ faults' = faults + 1
    BY <2>2 DEF R!Next, R!CartMoves, R!Resend, R!WorkerStep, R!StartTick, R!UpsertAbandonedCart,
       R!SendRecoveryEmail, R!MarkNotified, R!EndTick, R!CartFails, R!Crash, R!LeaseRunsOut
  <2>3. QED BY <2>1, <2>2
<1>3. B!Invoicing' = B!Invoicing
  BY DEF bonly, B!Invoicing
<1>4. QED BY <1>1, <1>2, <1>3, InvoicesStay DEF bonly

\* A step of a worker that is not one between transaction and invoice.
LEMMA InvoicesOtherStep ==
  ASSUME BillingInv, InvoicesFollow, NEW w \in Replicas, NEW n, drain' = [drain EXCEPT ![w] = n],
         drain[w].at \in Between <=> n.at \in Between,
         UNCHANGED <<txns, invoices>>, faults' \in Nat, faults <= faults'
  PROVE  InvoicesFollow'
<1>1. Cardinality(B!Invoicing)' = Cardinality(B!Invoicing)
  BY InvoicingMoves
<1>2. QED BY <1>1, InvoicesStay

LEMMA InvoicesWorker ==
  ASSUME BillingInv, InvoicesFollow, NEW w \in Replicas, B!WorkerStep(w) \/ B!Abort(w)
  PROVE  InvoicesFollow'
<1>0. /\ txns \in Nat /\ invoices \in Nat /\ faults \in Nat /\ Cardinality(B!Invoicing) \in Nat
      /\ txns <= invoices + Cardinality(B!Invoicing) + faults
      /\ invoices + Cardinality(B!Invoicing) <= txns
  BY InvoicesAre, InvoicingCounts
<1>1. InvoicesFollow' <=> /\ txns' \in Nat /\ invoices' \in Nat /\ faults' \in Nat
                          /\ txns' <= invoices' + Cardinality(B!Invoicing)' + faults'
                          /\ invoices' + Cardinality(B!Invoicing)' <= txns'
  BY InvoicesWillBe
<1>same. faults' = faults => faults' \in Nat /\ faults <= faults'
  BY <1>0
<1>2. \A step \in {"next"} \cup Untried \cup Settled : B!Go(w, step) =>
         \E n \in DrainRow : drain' = [drain EXCEPT ![w] = n] /\ n.at = step
  BY RowGoes
<1>3. CASE B!Claim(w)
  <2> DEFINE n == [B!Idle EXCEPT !.at = "next", !.todo = B!Ready]
  <2>1. n.at \notin Between /\ drain[w].at \notin Between
    BY <1>3 DEF B!Claim, B!Idle, Between
  <2>2. drain' = [drain EXCEPT ![w] = n] /\ UNCHANGED <<txns, invoices>> /\ faults' = faults
    BY <1>3 DEF B!Claim
  <2> HIDE DEF n
  <2>3. QED BY <1>same, <2>1, <2>2, InvoicesOtherStep
<1>4. CASE B!Rest(w)
  <2>1. drain[w].at \notin Between /\ B!Idle.at \notin Between
    BY <1>4 DEF B!Rest, B!Idle, Between
  <2>2. drain' = [drain EXCEPT ![w] = B!Idle] /\ UNCHANGED <<txns, invoices>> /\ faults' = faults
    BY <1>4 DEF B!Rest
  <2>3. QED BY <1>same, <2>1, <2>2, InvoicesOtherStep
<1>5. CASE B!Renew(w)
  <2>1. PICK n : drain' = [drain EXCEPT ![w] = n] /\ n.at \in Untried
    <3>1. PICK k \in drain[w].todo : \E step \in Untried :
             drain' = [drain EXCEPT ![w] = [at |-> step, todo |-> drain[w].todo \ {k}, key |-> k,
                                            failing |-> plan.failing]]
      BY <1>5 DEF B!Renew, Untried
    <3>2. PICK step \in Untried :
             drain' = [drain EXCEPT ![w] = [at |-> step, todo |-> drain[w].todo \ {k}, key |-> k,
                                            failing |-> plan.failing]]
      BY <3>1
    <3>3. [at |-> step, todo |-> drain[w].todo \ {k}, key |-> k, failing |-> plan.failing].at \in Untried
      OBVIOUS
    <3>4. QED BY <3>2, <3>3, Zenon
  <2>2. drain[w].at \notin Between /\ n.at \notin Between
    BY <1>5, <2>1 DEF B!Renew, Between, Untried
  <2>3. UNCHANGED <<txns, invoices>> /\ faults' = faults
    BY <1>5 DEF B!Renew
  <2>4. QED BY <1>same, <2>1, <2>2, <2>3, InvoicesOtherStep
<1>6. CASE B!Charge(w) \/ B!MarkPastDue(w) \/ B!AutoDowngrade(w) \/ B!Retire(w)
  <2>1. PICK step \in {"next", "record", "past_due", "retire", "downgrade", "bury"} : B!Go(w, step)
    BY <1>6 DEF B!Charge, B!MarkPastDue, B!AutoDowngrade, B!Retire
  <2>2. step \in {"next"} \cup Untried \cup Settled /\ step \notin Between /\ drain[w].at \notin Between
    BY <1>6, <2>1 DEF Between, Untried, Settled, B!Charge, B!MarkPastDue, B!AutoDowngrade, B!Retire
  <2>3. UNCHANGED <<txns, invoices>> /\ (faults' = faults \/ faults' = faults + 1)
    BY <1>6 DEF B!Charge, B!MarkPastDue, B!AutoDowngrade, B!Retire
  <2>4. faults' \in Nat /\ faults <= faults'
    BY <1>0, <2>3
  <2>5. PICK n \in DrainRow : drain' = [drain EXCEPT ![w] = n] /\ n.at = step
    BY <1>2, <2>1, <2>2
  <2>6. QED BY <2>2, <2>3, <2>4, <2>5, InvoicesOtherStep
<1>7. CASE B!Complete(w) \/ B!Bury(w)
  <2>1. B!Go(w, "next") /\ UNCHANGED <<txns, invoices>> /\ faults' = faults /\ drain[w].at \notin Between
    BY <1>7 DEF B!Complete, B!Bury, Between
  <2>2. PICK n \in DrainRow : drain' = [drain EXCEPT ![w] = n] /\ n.at = "next"
    BY <1>2, <2>1
  <2>3. n.at \notin Between
    BY <2>2 DEF Between
  <2>4. QED BY <1>same, <2>1, <2>2, <2>3, InvoicesOtherStep
<1>8. CASE B!AdvancePeriod(w)
  <2>1. B!Go(w, "invoice") /\ UNCHANGED <<txns, invoices>> /\ faults' = faults /\ drain[w].at \in Between
    BY <1>8 DEF B!AdvancePeriod, Between
  <2>2. PICK n \in DrainRow : drain' = [drain EXCEPT ![w] = n] /\ n.at = "invoice"
    BY <1>2, <2>1 DEF Settled
  <2>3. n.at \in Between
    BY <2>2 DEF Between
  <2>4. QED BY <1>same, <2>1, <2>2, <2>3, InvoicesOtherStep
<1>9. CASE B!RecordTransaction(w)
  <2>1. B!Go(w, "advance") /\ UNCHANGED <<invoices, faults>> /\ txns' = txns + 1 /\ drain[w].at \notin Between
    BY <1>9 DEF B!RecordTransaction, Between
  <2>2. PICK n \in DrainRow : drain' = [drain EXCEPT ![w] = n] /\ n.at = "advance"
    BY <1>2, <2>1 DEF Settled
  <2>3. n.at \in Between
    BY <2>2 DEF Between
  <2>4. Cardinality(B!Invoicing)' = Cardinality(B!Invoicing) + 1
    BY <2>1, <2>2, <2>3, InvoicingMoves
  <2>5. QED BY <1>0, <1>1, <2>1, <2>4
<1>10. CASE B!InvoiceAndEnqueue(w)
  <2>1. B!Go(w, "complete") /\ UNCHANGED <<txns, faults>> /\ invoices' = invoices + 1 /\ drain[w].at \in Between
    BY <1>10 DEF B!InvoiceAndEnqueue, Between
  <2>2. PICK n \in DrainRow : drain' = [drain EXCEPT ![w] = n] /\ n.at = "complete"
    BY <1>2, <2>1 DEF Settled
  <2>3. n.at \notin Between
    BY <2>2 DEF Between
  <2>4. Cardinality(B!Invoicing)' = Cardinality(B!Invoicing) - 1
    BY <2>1, <2>2, <2>3, InvoicingMoves
  <2>5. QED BY <1>0, <1>1, <2>1, <2>4
<1>11. CASE B!Abort(w)
  <2>1. /\ drain' = [drain EXCEPT ![w] = B!Idle] /\ UNCHANGED <<txns, invoices>> /\ faults' = faults + 1
        /\ B!Idle.at \notin Between
    BY <1>11 DEF B!Abort, B!Idle, Between
  <2>2. \/ Cardinality(B!Invoicing)' = Cardinality(B!Invoicing)
        \/ Cardinality(B!Invoicing)' = Cardinality(B!Invoicing) - 1
    BY <2>1, InvoicingMoves
  <2>3. QED BY <1>0, <1>1, <2>1, <2>2
<1>12. QED BY <1>3, <1>4, <1>5, <1>6, <1>7, <1>8, <1>9, <1>10, <1>11 DEF B!WorkerStep

LEMMA InvoicesStep == BillingInv /\ InvoicesFollow /\ [Next]_vars => InvoicesFollow'
<1> SUFFICES ASSUME BillingInv, InvoicesFollow, [Next]_vars PROVE InvoicesFollow'
  OBVIOUS
<1>1. CASE UNCHANGED bonly /\ (S!Next \/ R!Next \/ faults' = faults)
  BY <1>1, OthersLeaveInvoices
<1>2. CASE B!Next
  <2>1. CASE B!Tomorrow \/ B!RemoveCard \/ B!CancelAtPeriodEnd \/ B!Upgrade \/ B!EnqueueUpcomingRenewals
    <3>1. UNCHANGED <<drain, txns, invoices, faults>>
      BY <2>1 DEF B!Tomorrow, B!RemoveCard, B!CancelAtPeriodEnd, B!Upgrade, B!EnqueueUpcomingRenewals
    <3>2. B!Invoicing' = B!Invoicing /\ faults \in Nat
      BY <3>1 DEF B!Invoicing, InvoicesFollow
    <3>3. QED BY <3>1, <3>2, InvoicesStay
  <2>2. QED BY <1>2, <2>1, InvoicesWorker DEF B!Next
<1>3. QED BY <1>1, <1>2, WorkersFrame DEF vars

(***************************************************************************)
(* Every renewal that was paid has its invoice, or a worker is between the *)
(* two, or as many have failed there; and no invoice is written that was   *)
(* not paid: transactions and invoices differ by the workers in between,   *)
(* whose number is finite.                                                 *)
(***************************************************************************)
THEOREM PaidRenewalsAreInvoiced == Spec => []RenewalsAreInvoiced
<1>1. InvoicesFollow => RenewalsAreInvoiced
  BY DEF InvoicesFollow, RenewalsAreInvoiced
<1>2. (BillingInv /\ InvoicesFollow) /\ [Next]_vars => (BillingInv /\ InvoicesFollow)'
  BY BillingStep, InvoicesStep
<1>3. Init => BillingInv /\ InvoicesFollow
  BY BillingInit, InvoicesInit
<1>4. QED BY <1>1, <1>2, <1>3, PTL DEF Spec

=============================================================================
