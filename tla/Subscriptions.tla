---------------------------- MODULE Subscriptions ----------------------------
(***************************************************************************)
(* Subscriptions and the scheduler that bills them.  Every replica tries   *)
(* the lock once, when it boots; the one that gets it runs the scheduler   *)
(* until it stops.  A bill reads the subscription, commits one transaction *)
(* and records the attempt, each by itself; so does the failure that       *)
(* follows an error.  The number of the billing period is left out: it is  *)
(* counted before the transaction, and no constraint makes it unique.      *)
(***************************************************************************)
EXTENDS WorkerLock, Naturals

CONSTANTS Subs,        \* subscriptions
          Replicas,    \* worker processes
          Requests,    \* administrators' requests that bill by hand
          MaxDue,      \* how often a subscription falls due
          MaxFaults,   \* statements that fail
          MaxCrashes,  \* replicas that die
          Unguarded    \* TRUE: a replica may boot after the lease of a running
                       \* scheduler has run out, or when the lock cannot be asked

VARIABLES sub,      \* [status, due, falls]: the row, and how often it fell due
          bills,    \* subscription_orders: how many the scheduler and the route made
          tried,    \* subscription_billing_attempts: how many of each outcome
          job,      \* what a replica or a request is doing
          resuming, \* resumeSubscription between its SELECT and its UPDATE
          faults, crashes

svars == <<sub, bills, tried, job, resuming, faults, crashes, lease>>

Scheduler == "subscription-scheduler"
Actors == Replicas \cup Requests
NoJob == [at |-> "down", queue |-> {}, sub |-> None]
Running == {"idle", "commit", "log", "fail", "failLog"}
Stopped == {"paused", "cancelled"}

Init ==
    /\ sub = [s \in Subs |-> [status |-> "none", due |-> FALSE, falls |-> 0]]
    /\ bills = [s \in Subs |-> [scheduled |-> 0, byHand |-> 0]]
    /\ tried = [s \in Subs |-> [success |-> 0, failed |-> 0]]
    /\ job = [a \in Actors |-> IF a \in Replicas THEN NoJob ELSE [NoJob EXCEPT !.at = "idle"]]
    /\ resuming = {}
    /\ faults = 0 /\ crashes = 0
    /\ lease = [n \in Locks |-> NoLease]

CreateSubscription(s) ==
    /\ sub[s].status = "none"
    /\ \E st \in {"active", "trialing"} : sub' = [sub EXCEPT ![s].status = st]
    /\ UNCHANGED <<bills, tried, job, resuming, faults, crashes, lease>>

PauseSubscription(s) ==
    /\ sub[s].status \in {"active", "trialing"}
    /\ sub' = [sub EXCEPT ![s].status = "paused"]
    /\ UNCHANGED <<bills, tried, job, resuming, faults, crashes, lease>>

CancelSubscription(s) ==
    /\ sub[s].status \notin {"none", "cancelled"}
    /\ sub' = [sub EXCEPT ![s].status = "cancelled"]
    /\ UNCHANGED <<bills, tried, job, resuming, faults, crashes, lease>>

\* The plan is read on condition that the subscription is paused; the UPDATE
\* that follows has no condition on the status.
ResumeRead(s) ==
    /\ sub[s].status = "paused" /\ s \notin resuming
    /\ resuming' = resuming \cup {s}
    /\ UNCHANGED <<sub, bills, tried, job, faults, crashes, lease>>

ResumeWrite(s) ==
    /\ s \in resuming
    /\ resuming' = resuming \ {s}
    /\ sub' = [sub EXCEPT ![s].status = "active", ![s].due = FALSE]
    /\ UNCHANGED <<bills, tried, job, faults, crashes, lease>>

\* next_billing_at passes
FallDue(s) ==
    /\ sub[s].status # "none" /\ ~sub[s].due /\ sub[s].falls < MaxDue
    /\ sub' = [sub EXCEPT ![s].due = TRUE, ![s].falls = @ + 1]
    /\ UNCHANGED <<bills, tried, job, resuming, faults, crashes, lease>>

-----------------------------------------------------------------------------
\* A replica boots and tries the lock once.  Without the lock it runs no
\* scheduler, and does not ask again; when the lock cannot be asked it runs one
\* all the same.
Boot(r) ==
    /\ job[r].at = "down"
    /\ \/ Acquire(Scheduler, r) /\ job' = [job EXCEPT ![r].at = "idle"]
       \/ /\ lease[Scheduler].live
          /\ job' = [job EXCEPT ![r].at = "skipped"]
          /\ UNCHANGED lease
       \/ /\ Unguarded
          /\ job' = [job EXCEPT ![r].at = "idle"]
          /\ UNCHANGED lease
    /\ UNCHANGED <<sub, bills, tried, resuming, faults, crashes>>

\* SIGTERM between two ticks; the lock is given back
Shutdown(r) ==
    /\ job[r].at \in {"idle", "skipped"} /\ job[r].queue = {}
    /\ crashes < MaxCrashes
    /\ crashes' = crashes + 1
    /\ job' = [job EXCEPT ![r] = NoJob]
    /\ Release(Scheduler, r)
    /\ UNCHANGED <<sub, bills, tried, resuming, faults>>

Crash(r) ==
    /\ job[r].at # "down"
    /\ crashes < MaxCrashes
    /\ crashes' = crashes + 1
    /\ job' = [job EXCEPT ![r] = NoJob]
    /\ UNCHANGED <<sub, bills, tried, resuming, faults, lease>>

\* 70 seconds after the boot.  Unless Unguarded the others have booted by then.
LeaseRunsOut ==
    /\ Unguarded \/ \A r \in Replicas : job[r].at \notin Running
    /\ RunOut(Scheduler)
    /\ UNCHANGED <<sub, bills, tried, job, resuming, faults, crashes>>

Due == {s \in Subs : sub[s].status = "active" /\ sub[s].due}

\* selectDueSubscriptions: the statement commits by itself, and with it go the
\* locks of its FOR UPDATE SKIP LOCKED
Tick(r) ==
    /\ job[r].at = "idle" /\ job[r].queue = {}
    /\ Due # {}
    /\ job' = [job EXCEPT ![r].queue = Due]
    /\ UNCHANGED <<sub, bills, tried, resuming, faults, crashes, lease>>

\* The scheduler goes on with its list; a request has been answered
Done(a) == IF a \in Replicas THEN [NoJob EXCEPT !.at = "idle", !.queue = job[a].queue]
           ELSE [NoJob EXCEPT !.at = "answered"]

Billable(s) == sub[s].status \in {"active", "past_due"}

RecordAttempt(s, outcome) == tried' = [tried EXCEPT ![s][outcome] = @ + 1]

\* The next subscription of the tick, or the one an administrator bills, is read
StartBill(a, s) ==
    /\ job[a].at = "idle"
    /\ a \in Replicas => s \in job[a].queue
    /\ LET next == IF Billable(s) THEN "commit" ELSE IF a \in Replicas THEN "fail" ELSE "answered"
       IN job' = [job EXCEPT ![a] = [at |-> next, sub |-> s, queue |-> @.queue \ {s}]]
    /\ UNCHANGED <<sub, bills, tried, resuming, faults, crashes, lease>>

\* Mutant of Paid: a bill makes any subscription active.
PaidIsActive(status) == "active"
\* The status once the period is paid: nothing but past_due changes
Paid(status) == IF status = "past_due" THEN "active" ELSE status

\* The transaction: the order, its lines, the period, the next date
BillSubscription(a) ==
    /\ job[a].at = "commit"
    /\ LET s == job[a].sub
       IN /\ bills' = IF a \in Replicas THEN [bills EXCEPT ![s].scheduled = @ + 1]
                       ELSE [bills EXCEPT ![s].byHand = @ + 1]
          /\ sub' = [sub EXCEPT ![s].due = FALSE, ![s].status = Paid(@)]
    /\ job' = [job EXCEPT ![a].at = "log"]
    /\ UNCHANGED <<tried, resuming, faults, crashes, lease>>

LogSuccess(a) ==
    /\ job[a].at = "log"
    /\ RecordAttempt(job[a].sub, "success")
    /\ job' = [job EXCEPT ![a] = Done(a)]
    /\ UNCHANGED <<sub, bills, resuming, faults, crashes, lease>>

\* A statement of a bill, or the record after it, fails: the scheduler marks the
\* subscription, the route answers with the error
BillFails(a) ==
    /\ job[a].at \in {"commit", "log"}
    /\ faults < MaxFaults
    /\ faults' = faults + 1
    /\ job' = [job EXCEPT ![a] = IF a \in Replicas THEN [@ EXCEPT !.at = "fail"] ELSE Done(a)]
    /\ UNCHANGED <<sub, bills, tried, resuming, crashes, lease>>

SetPastDue(r) ==
    /\ job[r].at = "fail"
    /\ sub' = [sub EXCEPT ![job[r].sub].status = IF Billable(job[r].sub) THEN "past_due" ELSE @]
    /\ job' = [job EXCEPT ![r].at = "failLog"]
    /\ UNCHANGED <<bills, tried, resuming, faults, crashes, lease>>

LogFailed(r) ==
    /\ job[r].at = "failLog"
    /\ RecordAttempt(job[r].sub, "failed")
    /\ job' = [job EXCEPT ![r] = Done(r)]
    /\ UNCHANGED <<sub, bills, resuming, faults, crashes, lease>>

ActorStep(a) ==
    \/ \E s \in Subs : StartBill(a, s)
    \/ BillSubscription(a) \/ LogSuccess(a)

SchedulerStep(r) == ActorStep(r) \/ Tick(r) \/ SetPastDue(r) \/ LogFailed(r)

Next ==
    \/ \E s \in Subs : \/ CreateSubscription(s) \/ PauseSubscription(s) \/ CancelSubscription(s)
                       \/ ResumeRead(s) \/ ResumeWrite(s) \/ FallDue(s)
    \/ \E r \in Replicas : Boot(r) \/ Shutdown(r) \/ Crash(r) \/ SchedulerStep(r)
    \/ \E q \in Requests : ActorStep(q)
    \/ \E a \in Actors : BillFails(a)
    \/ LeaseRunsOut

-----------------------------------------------------------------------------
\* However many replicas boot, stop and die, the schedulers bill a subscription
\* at most once for each time it falls due.
BilledOncePerDue == \A s \in Subs : bills[s].scheduled <= sub[s].falls

\* A subscription that was paused or cancelled while it was being billed stays
\* so: it is only a resume that had found it paused that revives it.
RevivedByResume ==
    \A s \in Subs : sub[s].status \in Stopped /\ sub'[s].status \notin Stopped
                        => s \in resuming
OnlyResumeRevives == [][RevivedByResume]_svars

DueNow(s) == sub[s].status = "active" /\ sub[s].due
SomeScheduler == \E r \in Replicas : job[r].at \in Running

\* While the scheduler runs somewhere, a subscription that is due is billed,
\* marked past due, or stopped.
DueIsHandled == <>[]SomeScheduler => \A s \in Subs : DueNow(s) ~> ~DueNow(s)

\* What the head of scheduler.ts promises without that condition.
DueIsAlwaysHandled == \A s \in Subs : DueNow(s) ~> ~DueNow(s)
=============================================================================
