------------------------------ MODULE Recovery ------------------------------
(***************************************************************************)
(* The job that writes to the owners of abandoned carts.  Every replica    *)
(* ticks; a tick that gets the lock lists the old active carts and, cart   *)
(* by cart, upserts the row of abandoned_carts, sends the mail and marks   *)
(* the row.  An administrator can send the mail again.                     *)
(***************************************************************************)
EXTENDS WorkerLock, Naturals

CONSTANTS Carts, Replicas,
          MaxResends,  \* mails an administrator sends again
          MaxFaults,   \* statements or mails that fail
          MaxCrashes,  \* replicas that die in a tick
          Overrun      \* TRUE: a tick may last longer than the lock, six minutes

VARIABLES cart,     \* "fresh", "old" (an hour without an edit), "bought"
          notified, \* abandoned_carts.last_notified_at is set
          counted,  \* abandoned_carts.notification_count
          mails,    \* mails that left for the cart
          lost,     \* of these, the ones that could not be marked
          resends,  \* requests to send again: [Carts -> "no", "asked", "sent", "done"]
          worker, faults, crashes

rvars == <<cart, notified, counted, mails, lost, resends, worker, faults, crashes, lease>>

Lock == "recovery"
NoTick == [at |-> "idle", todo |-> {}, cart |-> None]

Init ==
    /\ cart = [c \in Carts |-> "fresh"]
    /\ notified = [c \in Carts |-> FALSE]
    /\ counted = [c \in Carts |-> 0]
    /\ mails = [c \in Carts |-> 0]
    /\ lost = [c \in Carts |-> 0]
    /\ resends = [c \in Carts |-> "no"]
    /\ worker = [r \in Replicas |-> NoTick]
    /\ faults = 0 /\ crashes = 0
    /\ lease = [n \in Locks |-> NoLease]

\* Time passes over a cart, it is edited again, or it is bought
CartMoves(c) ==
    /\ \E move \in {<<"fresh", "old">>, <<"old", "fresh">>, <<"fresh", "bought">>, <<"old", "bought">>} :
           cart[c] = move[1] /\ cart' = [cart EXCEPT ![c] = move[2]]
    /\ UNCHANGED <<notified, counted, mails, lost, resends, worker, faults, crashes, lease>>

\* The lock is asked for at every tick; the list is read once it is held
StartTick(r) ==
    /\ worker[r].at = "idle"
    /\ Acquire(Lock, r)
    /\ worker' = [worker EXCEPT ![r] = [NoTick EXCEPT !.at = "next",
                                          !.todo = {c \in Carts : cart[c] = "old"}]]
    /\ UNCHANGED <<cart, notified, counted, mails, lost, resends, faults, crashes>>

\* Mutant of GetsToken: the row is not asked whether a mail has been sent.
GetsTokenAlways(c) == TRUE
GetsToken(c) == ~notified[c]

\* upsertAbandonedCart: no token when the row says that a mail has been sent
UpsertAbandonedCart(r) ==
    /\ worker[r].at = "next"
    /\ \E c \in worker[r].todo :
          worker' = [worker EXCEPT ![r] =
              [at |-> IF GetsToken(c) THEN "send" ELSE "next", todo |-> @.todo \ {c}, cart |-> c]]
    /\ UNCHANGED <<cart, notified, counted, mails, lost, resends, faults, crashes, lease>>

Send(c) == mails' = [mails EXCEPT ![c] = @ + 1]

Mark(c) ==
    /\ notified' = [notified EXCEPT ![c] = TRUE]
    /\ counted' = [counted EXCEPT ![c] = @ + 1]

SendRecoveryEmail(r) ==
    /\ worker[r].at = "send"
    /\ Send(worker[r].cart)
    /\ worker' = [worker EXCEPT ![r].at = "mark"]
    /\ UNCHANGED <<cart, notified, counted, lost, resends, faults, crashes, lease>>

MarkNotified(r) ==
    /\ worker[r].at = "mark"
    /\ Mark(worker[r].cart)
    /\ worker' = [worker EXCEPT ![r].at = "next"]
    /\ UNCHANGED <<cart, mails, lost, resends, faults, crashes, lease>>

\* What a worker that fails at this point leaves unmarked
Lose(r) == lost' = IF worker[r].at = "mark" THEN [lost EXCEPT ![worker[r].cart] = @ + 1] ELSE lost

\* An error is logged, and the tick goes on with the next cart
CartFails(r) ==
    /\ worker[r].at \in {"send", "mark"}
    /\ faults < MaxFaults
    /\ faults' = faults + 1
    /\ Lose(r)
    /\ worker' = [worker EXCEPT ![r].at = "next"]
    /\ UNCHANGED <<cart, notified, counted, mails, resends, crashes, lease>>

EndTick(r) ==
    /\ worker[r].at = "next" /\ worker[r].todo = {}
    /\ worker' = [worker EXCEPT ![r] = NoTick]
    /\ Release(Lock, r)
    /\ UNCHANGED <<cart, notified, counted, mails, lost, resends, faults, crashes>>

\* The replica dies and comes back; its row of the lock stays
Crash(r) ==
    /\ worker[r].at # "idle"
    /\ crashes < MaxCrashes
    /\ crashes' = crashes + 1
    /\ Lose(r)
    /\ worker' = [worker EXCEPT ![r] = NoTick]
    /\ UNCHANGED <<cart, notified, counted, mails, resends, faults, lease>>

LeaseRunsOut ==
    /\ Overrun \/ \A r \in Replicas : lease[Lock].token = r => worker[r].at = "idle"
    /\ RunOut(Lock)
    /\ UNCHANGED <<cart, notified, counted, mails, lost, resends, worker, faults, crashes>>

\* resendRecoveryEmail: sent and then marked, whatever the row says
Resend(c) ==
    /\ \/ /\ resends[c] = "no" /\ MaxResends > 0
          /\ resends' = [resends EXCEPT ![c] = "sent"]
          /\ Send(c)
          /\ UNCHANGED <<notified, counted>>
       \/ /\ resends[c] = "sent"
          /\ resends' = [resends EXCEPT ![c] = "done"]
          /\ Mark(c)
          /\ UNCHANGED mails
    /\ UNCHANGED <<cart, lost, worker, faults, crashes, lease>>

WorkerStep(r) ==
    StartTick(r) \/ UpsertAbandonedCart(r) \/ SendRecoveryEmail(r) \/ MarkNotified(r) \/ EndTick(r)

Next ==
    \/ \E c \in Carts : CartMoves(c) \/ Resend(c)
    \/ \E r \in Replicas : WorkerStep(r) \/ CartFails(r) \/ Crash(r)
    \/ LeaseRunsOut

-----------------------------------------------------------------------------
Resent(c) == IF resends[c] \in {"sent", "done"} THEN 1 ELSE 0

\* The owner of a cart gets one mail by itself: another one only if it was asked
\* for, or if the first left and the process failed before it could say so.
OneMailPerCart == \A c \in Carts : mails[c] <= 1 + Resent(c) + lost[c]

\* A cart that stays abandoned is written to in the end, over failures, crashes
\* and locks that were left behind.
AbandonedIsNotified ==
    \A c \in Carts : cart[c] = "old" ~> (notified[c] \/ cart[c] # "old")
=============================================================================
