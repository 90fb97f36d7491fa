---------------------------- MODULE AgentCheckout ----------------------------
(***************************************************************************)
(* Completion of a checkout session by an agent (ACP and UCP).  With a     *)
(* payment token the provider is charged first, then the checkout becomes  *)
(* an order, then the payment is recorded and captured: four steps that a  *)
(* refusal, a lost answer or the death of the process can cut short.  The  *)
(* answers already given are remembered in the memory of the process, and  *)
(* the provider keeps one charge per checkout by its idempotency key.      *)
(***************************************************************************)
EXTENDS Naturals, FiniteSets

CONSTANTS Checkouts, Agents, Keys, Totals, MaxCrashes, None

VARIABLES co,      \* [status, total]: a checkout
          charge,  \* [Checkouts -> charges made at the provider for it]
          keyed,   \* [Checkouts -> the charge under its idempotency key, or None]
          order,   \* [total, paid]: the order of a checkout
          payment, \* [amount, status]: the payment recorded for that order
          agent,   \* [at, co, key, amount]: a request
          cache,   \* the keys whose answers are remembered, whatever the session
          moved,   \* checkouts totalled again after a charge was asked
          crashes

avars == <<co, charge, keyed, order, payment, agent, cache, moved, crashes>>

Idle == [at |-> "ready", co |-> None, key |-> None, amount |-> 0]

Init ==
    /\ co = [k \in Checkouts |-> [status |-> "none", total |-> 0]]
    /\ charge = [k \in Checkouts |-> {}]
    /\ keyed = [k \in Checkouts |-> None]
    /\ order = [k \in Checkouts |-> [total |-> 0, paid |-> FALSE]]
    /\ payment = [k \in Checkouts |-> [amount |-> 0, status |-> "none"]]
    /\ agent = [a \in Agents |-> Idle]
    /\ cache = {}
    /\ moved = {}
    /\ crashes = 0

\* A cart, its lines and a checkout; a key that is remembered opens none
CreateSession(k, t) ==
    /\ co[k].status = "none"
    /\ co' = [co EXCEPT ![k] = [status |-> "pending", total |-> t]]
    /\ UNCHANGED <<charge, keyed, order, payment, agent, cache, moved, crashes>>

\* Address and shipping of a session, which is read pending and totalled again; a
\* completion that finds a price changed does the same before it completes
UpdateSession(k, t) ==
    /\ co[k].status = "pending" /\ co[k].total # t
    /\ co' = [co EXCEPT ![k].total = t]
    /\ moved' = IF keyed[k] # None \/ \E a \in Agents : agent[a].co = k THEN moved \cup {k} ELSE moved
    /\ UNCHANGED <<charge, keyed, order, payment, agent, cache, crashes>>

\* The answer is remembered, or the total to charge is read; without a token the
\* checkout is completed as it is
StartCompletion(a, k, key, live) ==
    /\ agent[a].at = "ready" /\ co[k].status # "none" /\ key \notin cache
    /\ agent' = [agent EXCEPT ![a] =
           [at |-> IF live THEN "charge" ELSE "complete", co |-> k, key |-> key,
            amount |-> IF live THEN co[k].total ELSE 0]]
    /\ UNCHANGED <<co, charge, keyed, order, payment, cache, moved, crashes>>

Goes(a, where) == agent' = [agent EXCEPT ![a] = IF where = "ready" THEN Idle ELSE [@ EXCEPT !.at = where]]

\* Mutant of Answers: every request has a key of its own.
AnswersAnew(k, amount) ==
    /\ keyed' = [keyed EXCEPT ![k] = amount]
    /\ charge' = [charge EXCEPT ![k] = @ \cup {Cardinality(@) + 1}]

\* The provider charges a key once, and answers it again for the same amount
Answers(k, amount) ==
    \/ /\ keyed[k] = None
       /\ keyed' = [keyed EXCEPT ![k] = amount]
       /\ charge' = [charge EXCEPT ![k] = @ \cup {Cardinality(@) + 1}]
    \/ keyed[k] = amount /\ UNCHANGED <<keyed, charge>>

\* Mutant of ChargeStripeDelegated: a status that secures nothing counts as a charge.
ChargeOrNot(a) ==
    /\ agent[a].at = "charge"
    /\ Goes(a, "complete")
    /\ UNCHANGED <<co, charge, keyed, order, payment, cache, moved, crashes>>

ChargeStripeDelegated(a) ==
    /\ agent[a].at = "charge"
    /\ Answers(agent[a].co, agent[a].amount)
    /\ Goes(a, "complete")
    /\ UNCHANGED <<co, order, payment, cache, moved, crashes>>

\* The token is declined, or the key was used with another token or amount
ChargeRefused(a) ==
    /\ agent[a].at = "charge"
    /\ Goes(a, "ready")
    /\ UNCHANGED <<co, charge, keyed, order, payment, cache, moved, crashes>>

\* The token is charged and the answer is lost: PROVIDER_UNAVAILABLE
ChargeAnswerLost(a) ==
    /\ agent[a].at = "charge"
    /\ Answers(agent[a].co, agent[a].amount)
    /\ Goes(a, "ready")
    /\ UNCHANGED <<co, order, payment, cache, moved, crashes>>

\* completeCheckout as one transaction; the total is that of the checkout as it is now
CompleteCheckout(a) ==
    LET k == agent[a].co
    IN /\ agent[a].at = "complete" /\ co[k].status = "pending"
       /\ co' = [co EXCEPT ![k].status = "completed"]
       /\ order' = [order EXCEPT ![k].total = co[k].total]
       /\ Goes(a, IF agent[a].amount = 0 THEN "remember" ELSE "record")
       /\ UNCHANGED <<charge, keyed, payment, cache, moved, crashes>>

\* Stock, discount or mandate refuse it, or another request has completed it
CompletionRefused(a) ==
    /\ agent[a].at = "complete"
    /\ Goes(a, "ready")
    /\ UNCHANGED <<co, charge, keyed, order, payment, cache, moved, crashes>>

\* createPayment with the total of the order, then capturePayment
CreatePayment(a) ==
    LET k == agent[a].co
    IN /\ agent[a].at = "record"
       /\ payment' = [payment EXCEPT ![k] = [amount |-> order[k].total, status |-> "pending"]]
       /\ Goes(a, "capture")
       /\ UNCHANGED <<co, charge, keyed, order, cache, moved, crashes>>

CapturePayment(a) ==
    LET k == agent[a].co
    IN /\ agent[a].at = "capture"
       /\ payment' = [payment EXCEPT ![k].status = "captured"]
       /\ order' = [order EXCEPT ![k].paid = TRUE]
       /\ Goes(a, "remember")
       /\ UNCHANGED <<co, charge, keyed, cache, moved, crashes>>

\* Either transaction fails: the order stays, unpaid
RecordFails(a) ==
    /\ agent[a].at \in {"record", "capture"}
    /\ Goes(a, "ready")
    /\ UNCHANGED <<co, charge, keyed, order, payment, cache, moved, crashes>>

RememberAnswer(a) ==
    /\ agent[a].at = "remember"
    /\ cache' = cache \cup {agent[a].key}
    /\ Goes(a, "ready")
    /\ UNCHANGED <<co, charge, keyed, order, payment, moved, crashes>>

\* An answer is forgotten after a day
ForgetAnswer(key) ==
    /\ key \in cache
    /\ cache' = cache \ {key}
    /\ UNCHANGED <<co, charge, keyed, order, payment, agent, moved, crashes>>

\* The process dies with its requests and its memory
Crash ==
    /\ crashes < MaxCrashes
    /\ crashes' = crashes + 1
    /\ agent' = [a \in Agents |-> Idle]
    /\ cache' = {}
    /\ UNCHANGED <<co, charge, keyed, order, payment, moved>>

Next ==
    \/ Crash
    \/ \E key \in Keys : ForgetAnswer(key)
    \/ \E k \in Checkouts, t \in Totals : CreateSession(k, t) \/ UpdateSession(k, t)
    \/ \E a \in Agents :
        \/ ChargeStripeDelegated(a) \/ ChargeRefused(a) \/ ChargeAnswerLost(a)
        \/ CompleteCheckout(a) \/ CompletionRefused(a)
        \/ CreatePayment(a) \/ CapturePayment(a) \/ RecordFails(a) \/ RememberAnswer(a)
        \/ \E k \in Checkouts, key \in Keys, live \in BOOLEAN : StartCompletion(a, k, key, live)

-----------------------------------------------------------------------------
\* However often a session is completed, over lost answers and restarts, its token is
\* charged once.
ChargedOnce == \A k \in Checkouts : Cardinality(charge[k]) <= 1

\* An order an agent has paid was charged, and for its own total unless the session
\* was totalled again after the charge was asked.
PaidIsCharged ==
    \A k \in Checkouts : order[k].paid =>
        charge[k] # {} /\ (keyed[k] = payment[k].amount \/ k \in moved)

\* What the comment of step 2 supposes, and what does not hold: a refusal or a crash
\* after the charge keeps the money without an order.
ChargedHasOrder ==
    \A k \in Checkouts : charge[k] # {} =>
        co[k].status = "completed" \/ \E a \in Agents : agent[a].co = k
=============================================================================
