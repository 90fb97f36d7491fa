---------------------------- MODULE BillingQueue ----------------------------
(***************************************************************************)
(* The renewals of Cartcrft Cloud: one organisation, its subscription, the *)
(* queue of renewal tasks and the workers that drain it.  A task is known  *)
(* by the end of the period it renews.  A worker claims all ready tasks in *)
(* one UPDATE and then serves them statement by statement, each statement  *)
(* a transaction of its own; nothing takes a task back from a worker that  *)
(* has stopped.  Time passes in days, a period is Cycle days, and tasks    *)
(* are enqueued a day ahead.                                               *)
(***************************************************************************)
EXTENDS Naturals, FiniteSets

CONSTANTS Workers,     \* replicas that drain the queue
          Cycle,       \* days in a period
          MaxDay,      \* days of a behaviour
          MaxTries,    \* billing_queue.max_attempts
          MaxUpgrades, \* webhooks of a paid checkout
          MaxFaults,   \* statements that fail, processes that die
          None

VARIABLES day,
          plan,    \* the subscription: [status, paid, end, ending, failing]
          card,    \* a default card is on file
          tasks,   \* billing_queue by period end: [st, run, tries]
          letters, \* billing_dead_letter, by period end
          drain,   \* a worker: [at, todo, key, seen]
          charged, \* successful charges at the provider, by task
          unseen,  \* of these, the ones whose answer was lost
          txns, invoices, \* successful transactions and invoices of renewals
          upgrades, faults

bvars == <<day, plan, card, tasks, letters, drain, charged, unseen, txns, invoices, upgrades, faults>>

Ends == 0..(MaxDay + Cycle)
NoTask == [st |-> "none", run |-> 0, tries |-> 0]
Idle == [at |-> "idle", todo |-> {}, key |-> None, failing |-> FALSE]

Init ==
    /\ day = 0
    /\ plan = [status |-> "active", paid |-> TRUE, end |-> 1, ending |-> FALSE, failing |-> FALSE]
    /\ card = TRUE
    /\ tasks = [k \in Ends |-> NoTask]
    /\ letters = {}
    /\ drain = [w \in Workers |-> Idle]
    /\ charged = [k \in Ends |-> 0] /\ unseen = [k \in Ends |-> 0]
    /\ txns = 0 /\ invoices = 0
    /\ upgrades = 0 /\ faults = 0

NextPeriodEnd == day + Cycle

Tomorrow ==
    /\ day < MaxDay
    /\ day' = day + 1
    /\ UNCHANGED <<plan, card, tasks, letters, drain, charged, unseen, txns, invoices, upgrades, faults>>

RemoveCard ==
    /\ card' = FALSE /\ card
    /\ UNCHANGED <<day, plan, tasks, letters, drain, charged, unseen, txns, invoices, upgrades, faults>>

\* cancel_at_period_end is set, by an operator
CancelAtPeriodEnd ==
    /\ plan.status = "active" /\ ~plan.ending
    /\ plan' = [plan EXCEPT !.ending = TRUE]
    /\ UNCHANGED <<day, card, tasks, letters, drain, charged, unseen, txns, invoices, upgrades, faults>>

\* handleChargeSuccess, intent upgrade: each delivery starts a period, a second
\* one of the same payment too
Upgrade ==
    /\ upgrades < MaxUpgrades
    /\ upgrades' = upgrades + 1
    /\ plan' = [plan EXCEPT !.status = "active", !.paid = TRUE, !.end = NextPeriodEnd, !.failing = FALSE]
    /\ card' = TRUE
    /\ UNCHANGED <<day, tasks, letters, drain, charged, unseen, txns, invoices, faults>>

Billable == plan.paid /\ plan.status \in {"active", "past_due"}

\* INSERT ... ON CONFLICT (idempotency_key) DO NOTHING
Queue(k, run) == tasks' = [tasks EXCEPT ![k] = IF @.st = "none" THEN [st |-> "pending", run |-> run, tries |-> 0] ELSE @]

EnqueueUpcomingRenewals ==
    /\ Billable /\ plan.end <= day + 1 /\ tasks[plan.end].st = "none"
    /\ Queue(plan.end, IF plan.end < day THEN day ELSE plan.end)
    /\ UNCHANGED <<day, plan, card, letters, drain, charged, unseen, txns, invoices, upgrades, faults>>

-----------------------------------------------------------------------------
\* Mutant of Claimable: a task a worker has under way is claimed again.
ClaimableAgain == {"pending", "failed", "processing"}
Claimable == {"pending", "failed"}

Ready == {k \in Ends : tasks[k].st \in Claimable /\ tasks[k].run <= day /\ tasks[k].tries < MaxTries}

\* The claim of a batch: one UPDATE over FOR UPDATE SKIP LOCKED
Claim(w) ==
    /\ drain[w].at = "idle" /\ Ready # {}
    /\ tasks' = [k \in Ends |-> IF k \in Ready THEN [tasks[k] EXCEPT !.st = "processing", !.tries = @ + 1]
                                ELSE tasks[k]]
    /\ drain' = [drain EXCEPT ![w] = [Idle EXCEPT !.at = "next", !.todo = Ready]]
    /\ UNCHANGED <<day, plan, card, letters, charged, unseen, txns, invoices, upgrades, faults>>

Go(w, step) == drain' = [drain EXCEPT ![w].at = step]

\* The batch is done
Rest(w) ==
    /\ drain[w].at = "next" /\ drain[w].todo = {}
    /\ drain' = [drain EXCEPT ![w] = Idle]
    /\ UNCHANGED <<day, plan, card, tasks, letters, charged, unseen, txns, invoices, upgrades, faults>>

\* renew() reads the subscription and the card; without a rate of exchange
\* nothing is tried
Renew(w) ==
    /\ drain[w].at = "next"
    /\ \E k \in drain[w].todo, rate \in BOOLEAN :
          LET step == IF ~Billable THEN "retire"
                      ELSE IF plan.ending THEN "downgrade"
                      ELSE IF ~card THEN "past_due"
                      ELSE IF rate THEN "charge" ELSE "retire"
          IN drain' = [drain EXCEPT ![w] =
                 [at |-> step, todo |-> @.todo \ {k}, key |-> k, failing |-> plan.failing]]
    /\ UNCHANGED <<day, plan, card, tasks, letters, charged, unseen, txns, invoices, upgrades, faults>>

\* chargeAuthorization: paid, declined, or paid with the answer lost, which is
\* taken for a failure
Charge(w) ==
    /\ drain[w].at = "charge"
    /\ LET k == drain[w].key
       IN \/ charged' = [charged EXCEPT ![k] = @ + 1] /\ Go(w, "record") /\ UNCHANGED <<unseen, faults>>
          \/ Go(w, "past_due") /\ UNCHANGED <<charged, unseen, faults>>
          \/ /\ faults < MaxFaults /\ faults' = faults + 1
             /\ charged' = [charged EXCEPT ![k] = @ + 1]
             /\ unseen' = [unseen EXCEPT ![k] = @ + 1]
             /\ Go(w, "past_due")
    /\ UNCHANGED <<day, plan, card, tasks, letters, txns, invoices, upgrades>>

RecordTransaction(w) ==
    /\ drain[w].at = "record"
    /\ txns' = txns + 1
    /\ Go(w, "advance")
    /\ UNCHANGED <<day, plan, card, tasks, letters, charged, unseen, invoices, upgrades, faults>>

\* Mutant of AdvancePeriod: the period is written and the invoice forgotten.
AdvanceAndComplete(w) ==
    /\ drain[w].at = "advance"
    /\ plan' = [plan EXCEPT !.status = "active", !.end = NextPeriodEnd, !.failing = FALSE]
    /\ Go(w, "complete")
    /\ UNCHANGED <<day, card, tasks, letters, charged, unseen, txns, invoices, upgrades, faults>>

AdvancePeriod(w) ==
    /\ drain[w].at = "advance"
    /\ plan' = [plan EXCEPT !.status = "active", !.end = NextPeriodEnd, !.failing = FALSE]
    /\ Go(w, "invoice")
    /\ UNCHANGED <<day, card, tasks, letters, charged, unseen, txns, invoices, upgrades, faults>>

\* The invoice, and the task of the period that has begun
InvoiceAndEnqueue(w) ==
    /\ drain[w].at = "invoice"
    /\ invoices' = invoices + 1
    /\ Queue(NextPeriodEnd, NextPeriodEnd)
    /\ Go(w, "complete")
    /\ UNCHANGED <<day, plan, card, letters, charged, unseen, txns, upgrades, faults>>

Complete(w) ==
    /\ drain[w].at = "complete"
    /\ tasks' = [tasks EXCEPT ![drain[w].key].st = "completed"]
    /\ Go(w, "next")
    /\ UNCHANGED <<day, plan, card, letters, charged, unseen, txns, invoices, upgrades, faults>>

\* The failure is counted; a subscription that had been failing before it, for
\* longer than the days of grace, is downgraded
MarkPastDue(w) ==
    /\ drain[w].at = "past_due"
    /\ plan' = [plan EXCEPT !.status = "past_due", !.failing = TRUE]
    /\ \/ Go(w, "retire")
       \/ drain[w].failing /\ Go(w, "downgrade")
    /\ UNCHANGED <<day, card, tasks, letters, charged, unseen, txns, invoices, upgrades, faults>>

AutoDowngrade(w) ==
    /\ drain[w].at = "downgrade"
    /\ plan' = [plan EXCEPT !.status = "active", !.paid = FALSE, !.end = 0, !.failing = FALSE]
    /\ Go(w, "retire")
    /\ UNCHANGED <<day, card, tasks, letters, charged, unseen, txns, invoices, upgrades, faults>>

\* A failed task is tried again a day later, or copied to the dead letters
Retire(w) ==
    LET k == drain[w].key
    IN /\ drain[w].at = "retire"
       /\ IF tasks[k].tries >= MaxTries
          THEN letters' = letters \cup {k} /\ Go(w, "bury") /\ UNCHANGED tasks
          ELSE /\ tasks' = [tasks EXCEPT ![k].st = "failed", ![k].run = day + 1]
               /\ Go(w, "next") /\ UNCHANGED letters
       /\ UNCHANGED <<day, plan, card, charged, unseen, txns, invoices, upgrades, faults>>

Bury(w) ==
    /\ drain[w].at = "bury"
    /\ tasks' = [tasks EXCEPT ![drain[w].key].st = "dead"]
    /\ Go(w, "next")
    /\ UNCHANGED <<day, plan, card, letters, charged, unseen, txns, invoices, upgrades, faults>>

\* A statement throws, or the process dies: the rest of the batch is dropped
Abort(w) ==
    /\ drain[w].at # "idle"
    /\ faults < MaxFaults /\ faults' = faults + 1
    /\ drain' = [drain EXCEPT ![w] = Idle]
    /\ UNCHANGED <<day, plan, card, tasks, letters, charged, unseen, txns, invoices, upgrades>>

WorkerStep(w) ==
    \/ Claim(w) \/ Rest(w) \/ Renew(w) \/ Charge(w) \/ RecordTransaction(w) \/ AdvancePeriod(w)
    \/ InvoiceAndEnqueue(w) \/ Complete(w) \/ MarkPastDue(w) \/ AutoDowngrade(w) \/ Retire(w) \/ Bury(w)

Next ==
    \/ Tomorrow \/ RemoveCard \/ CancelAtPeriodEnd \/ Upgrade \/ EnqueueUpcomingRenewals
    \/ \E w \in Workers : WorkerStep(w) \/ Abort(w)

-----------------------------------------------------------------------------
\* A task charges the card once, however many workers drain the queue, retry and
\* die; more often only when the answer to a charge was lost.
ChargedOncePerTask == \A k \in Ends : charged[k] <= 1 + unseen[k]

\* Every renewal that was paid has its invoice, or a worker is about to write it,
\* or a process failed on the way.
Invoicing == {w \in Workers : drain[w].at \in {"advance", "invoice"}}
RenewalsAreInvoiced ==
    /\ txns <= invoices + Cardinality(Invoicing) + faults
    /\ invoices + Cardinality(Invoicing) <= txns

UnderWay == \E k \in Ends : tasks[k].st = "processing"

\* The tasks under way end, unless something fails.
TasksEnd == UnderWay ~> (~UnderWay \/ faults > 0)

\* What the head of worker.ts promises: tasks that fail are retried, and those
\* that are exhausted become dead letters.
TasksAlwaysEnd == UnderWay ~> ~UnderWay
=============================================================================
