------------------------------ MODULE MCWorkers ------------------------------
(***************************************************************************)
(* The background workers on small instances.  The scheduler and the       *)
(* recovery job share the lock table, and the billing queue of the cloud   *)
(* nothing: a behaviour runs one of them ("part"), and the state spaces    *)
(* add up.                                                                 *)
(***************************************************************************)
EXTENDS Naturals, FiniteSets, TLC

CONSTANTS None, Replicas, Subs, Requests, Carts, MaxDue, MaxFaults, MaxCrashes,
          MaxResends, Unguarded, Overrun,
          Cycle, MaxDay, MaxTries, MaxUpgrades

\* Days and periods are counted, and a deployment has so many replicas.
ASSUME BillingAssumption == Cycle \in Nat /\ MaxDay \in Nat /\ IsFiniteSet(Replicas)

VARIABLES part, lease,
          sub, bills, tried, job, resuming,
          cart, notified, counted, mails, lost, resends, worker,
          day, plan, card, tasks, letters, drain, charged, unseen, txns, invoices, upgrades,
          faults, crashes

Locks == {"subscription-scheduler", "recovery"}

S == INSTANCE Subscriptions
R == INSTANCE Recovery
B == INSTANCE BillingQueue WITH Workers <- Replicas

sonly == <<sub, bills, tried, job, resuming>>
ronly == <<cart, notified, counted, mails, lost, resends, worker>>
bonly == <<day, plan, card, tasks, letters, drain, charged, unseen, txns, invoices, upgrades>>
vars == <<part, lease, faults, crashes, sonly, ronly, bonly>>

Init == part \in {"scheduler", "recovery", "billing"} /\ S!Init /\ R!Init /\ B!Init

\* The part p takes a step, and the others none
Scheduler(A) == part = "scheduler" /\ A /\ UNCHANGED <<part, ronly, bonly>>
Recovery(A) == part = "recovery" /\ A /\ UNCHANGED <<part, sonly, bonly>>
Billing(A) == part = "billing" /\ A /\ UNCHANGED <<part, sonly, ronly, lease, crashes>>

Next == Scheduler(S!Next) \/ Recovery(R!Next) \/ Billing(B!Next)

Fairness ==
    /\ \A r \in Replicas :
          /\ WF_vars(Scheduler(S!Boot(r)))
          /\ WF_vars(Scheduler(S!SchedulerStep(r)))
          /\ WF_vars(Recovery(R!WorkerStep(r)))
          /\ WF_vars(Billing(B!WorkerStep(r)))
    /\ WF_vars(Recovery(R!LeaseRunsOut))

Spec == Init /\ [][Next]_vars /\ Fairness

BilledOncePerDue == S!BilledOncePerDue
OnlyResumeRevives == [][S!RevivedByResume]_vars
DueIsAlwaysHandled == S!DueIsAlwaysHandled
OneMailPerCart == R!OneMailPerCart
ChargedOncePerTask == B!ChargedOncePerTask
RenewalsAreInvoiced == B!RenewalsAreInvoiced
\* What is due is billed or held, an abandoned cart is notified, and a billing task ends.
WorkIsDone == S!DueIsHandled /\ R!AbandonedIsNotified /\ B!TasksEnd
TasksAlwaysEnd == B!TasksAlwaysEnd
=============================================================================
