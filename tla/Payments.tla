------------------------------ MODULE Payments ------------------------------
(***************************************************************************)
(* The money of an order: payments, captures and refunds made through the  *)
(* API (payments/service.ts), delegated charges (payments/delegated.ts)    *)
(* and what the provider's webhooks record (webhooks/router.ts).           *)
(*                                                                         *)
(* placed .. guard are the COMMITTED rows.  A handler is one request in    *)
(* progress: pc names the statement it runs next and tx keeps what it has  *)
(* read.  Rows it has inserted but not committed are in tx only, where the *)
(* other handlers do not see them.  A checkout and the order it becomes    *)
(* have one name here.  Amounts are cents.                                 *)
(***************************************************************************)
EXTENDS Sums, Sequences

CONSTANTS
  Handlers,     \* requests served concurrently
  Ops,          \* which of them are made: see Operations
  Orders,
  Total,        \* orders.total
  Amounts,      \* amounts a caller or a customer may name
  Keys,         \* values of the Idempotency-Key header
  Tolerance,    \* the 0.01 and AMOUNT_TOLERANCE of the comparisons
  Provider,     \* the type of the store's payment provider
  Faults,       \* what may go wrong: see PossibleFaults
  MaxCharges, MaxPayments, MaxRefunds, MaxReturned,   \* bounds
  None

Operations == {"create", "capture", "refund", "delegated", "webhook", "dashboard"}
PossibleFaults == {"crash", "statement", "guard", "provider", "checkout"}
Providers == {"stripe", "paystack", "xendit", "razorpay"}

ASSUME PaymentSets ==
  /\ IsFiniteSet(Handlers)
  /\ None \notin Handlers \cup Orders \cup Keys
  /\ Ops \subseteq Operations /\ Faults \subseteq PossibleFaults
  /\ Provider \in Providers

ASSUME PaymentNumbers ==
  /\ Total \in [Orders -> Nat] /\ Amounts \subseteq Nat \ {0} /\ Tolerance \in Nat
  /\ MaxCharges \in Nat /\ MaxPayments \in Nat /\ MaxRefunds \in Nat
  /\ MaxReturned \in Nat

VARIABLES
  placed,        \* checkouts that have become orders
  financial,     \* orders.financial_status
  refundedTotal, \* orders.total_refunded
  payments,      \* payments, in the order of created_at
  refunds,       \* refunds
  guard,         \* webhook_replay_guard
  charges,       \* what customers have paid at the provider
  returned,      \* what the provider has paid back
  settled,       \* events answered with 200: the provider need not send them again
  pc, tx,
  lock,          \* the handler that holds the order row FOR UPDATE
  share          \* the handlers that hold it FOR KEY SHARE (a foreign key)

rows == <<placed, financial, refundedTotal, payments, refunds, guard>>
provider == <<charges, returned, settled>>
local == <<pc, tx, lock, share>>
vars == <<rows, provider, local>>

-----------------------------------------------------------------------------
(* What the providers call things.                                         *)

References ==
  {"event", "checkout", "invoice", "payment", "intent", "charge"} \X (Orders \cup Nat)
RefundReferences == {"refund"} \X Nat

ASSUME PaymentNames == None \notin References \cup RefundReferences

\* The reference recorded with a payment that the webhook of charge c reports.
PaidRef(c) ==
  CASE Provider = "stripe"   -> <<"event", c>>
    [] Provider = "paystack" -> <<"checkout", charges[c].order>>
    [] Provider = "xendit"   -> <<"invoice", c>>
    [] Provider = "razorpay" -> <<"payment", c>>

\* The charge that a refund event names.
ChargeRef(c) ==
  CASE Provider = "stripe"   -> <<"charge", c>>
    [] Provider = "paystack" -> <<"checkout", charges[c].order>>
    [] Provider = "xendit"   -> <<"payment", c>>
    [] Provider = "razorpay" -> <<"payment", c>>

\* The references under which the provider's refund API finds charge c.
RefundableRefs(c) ==
  CASE Provider = "stripe"   -> {<<"intent", c>>, <<"charge", c>>}
    [] Provider = "paystack" -> {<<"checkout", charges[c].order>>}
    [] Provider = "xendit"   -> {<<"invoice", c>>}
    [] Provider = "razorpay" -> {<<"payment", c>>}

PaidEvent(c) == [kind |-> "paid", n |-> c]
RefundEvent(r) == [kind |-> "refunded", n |-> r]
Events == {PaidEvent(c) : c \in 1 .. Len(charges)} \cup {RefundEvent(r) : r \in 1 .. Len(returned)}

\* The key of the replay guard.  A Razorpay refund event that carries no payment entity
\* has none, and is not deduplicated.
GuardKey(e) ==
  IF Provider = "razorpay" /\ e.kind = "refunded" THEN None ELSE e

-----------------------------------------------------------------------------
(* Rows and what is computed from them.                                    *)

PaymentStatus == {"pending", "captured", "partially_refunded", "refunded"}
RefundStatus == {"pending", "processing", "succeeded", "failed"}
FinancialStatus == {"pending", "partially_paid", "paid", "partially_refunded", "refunded"}

PaymentAmounts == [p \in 1 .. Len(payments) |-> payments[p].amount]
RefundAmounts == [r \in 1 .. Len(refunds) |-> refunds[r].amount]

PaymentsOf(o) == {p \in 1 .. Len(payments) : payments[p].order = o}
CapturedOf(o) == {p \in PaymentsOf(o) : payments[p].status = "captured"}
RefundsOf(o) == {r \in 1 .. Len(refunds) : payments[refunds[r].payment].order = o}
LiveRefundsOf(o) == {r \in RefundsOf(o) : refunds[r].status # "failed"}

SumCaptured(o) == SumOver(PaymentAmounts, CapturedOf(o))
SumRefunded(o) == SumOver(RefundAmounts, LiveRefundsOf(o))

WithRef(o, ref) == {p \in PaymentsOf(o) : ref # None /\ payments[p].ref = ref}
WithKey(p, k) ==
  {r \in 1 .. Len(refunds) : refunds[r].payment = p /\ k # None /\ refunds[r].key = k}
WithRefundRef(p, ref) == {r \in 1 .. Len(refunds) : refunds[r].payment = p /\ refunds[r].ref = ref}

NoTx ==
  [op |-> None, order |-> None, payment |-> 0, amount |-> 0, key |-> None, ref |-> None,
   event |-> None, seen |-> 0, status |-> None]

Stages == {"idle", "charged", "lockCreate", "create", "lockCapture", "capture",
           "lockRefund", "check", "call", "commit",
           "lookup", "complete", "sum", "insert", "paid",
           "find", "lockReceived", "received"}

Init ==
  /\ placed \in SUBSET Orders
  /\ financial = [o \in Orders |-> "pending"]
  /\ refundedTotal = [o \in Orders |-> 0]
  /\ payments = <<>>
  /\ refunds = <<>>
  /\ guard = {}
  /\ charges = <<>>
  /\ returned = <<>>
  /\ settled = {}
  /\ pc = [w \in Handlers |-> "idle"]
  /\ tx = [w \in Handlers |-> NoTx]
  /\ lock = [o \in Orders |-> None]
  /\ share = [o \in Orders |-> {}]

-----------------------------------------------------------------------------
(* Transactions.                                                           *)

GoTo(w, s) == pc' = [pc EXCEPT ![w] = s]

Start(w, s, t) ==
  /\ pc[w] = "idle"
  /\ GoTo(w, s)
  /\ tx' = [tx EXCEPT ![w] = t]
  /\ UNCHANGED <<lock, share>>

\* Mutant of Release: the foreign key's lock stays.
ReleaseForUpdate(w) ==
  /\ lock' = [o \in Orders |-> IF lock[o] = w THEN None ELSE lock[o]]
  /\ UNCHANGED share

\* COMMIT or ROLLBACK: the locks go.
Release(w) ==
  /\ lock' = [o \in Orders |-> IF lock[o] = w THEN None ELSE lock[o]]
  /\ share' = [o \in Orders |-> share[o] \ {w}]

\* The request is over.
Finish(w) ==
  /\ GoTo(w, "idle")
  /\ tx' = [tx EXCEPT ![w] = NoTx]
  /\ Release(w)

\* Mutant of LockOrder: a plain SELECT, which neither waits nor locks.
ReadOrder(w, from, to) ==
  /\ pc[w] = from
  /\ GoTo(w, to)
  /\ tx' = [tx EXCEPT ![w].seen = refundedTotal[tx[w].order]]
  /\ UNCHANGED <<rows, provider, lock, share>>

\* SELECT ... FROM orders ... FOR UPDATE: it waits for every other lock on the row, and
\* reads the row as it is then.
LockOrder(w, from, to) ==
  LET o == tx[w].order IN
  /\ pc[w] = from
  /\ lock[o] = None /\ share[o] \subseteq {w}
  /\ lock' = [lock EXCEPT ![o] = w]
  /\ GoTo(w, to)
  /\ tx' = [tx EXCEPT ![w].seen = refundedTotal[o]]
  /\ UNCHANGED <<rows, provider, share>>

-----------------------------------------------------------------------------
(* Payments made through the API.                                          *)

\* createPayment and capturePayment, up to the lock.
RequestCreate(w, o, a, ref) ==
  /\ "create" \in Ops /\ o \in placed
  /\ Len(payments) + Cardinality({h \in Handlers : tx[h].op = "create"}) < MaxPayments   \* bound
  /\ Start(w, "lockCreate", [NoTx EXCEPT !.op = "create", !.order = o, !.amount = a, !.ref = ref])
  /\ UNCHANGED <<rows, provider>>

RequestCapture(w, p) ==
  /\ "capture" \in Ops
  /\ Start(w, "lockCapture", [NoTx EXCEPT !.op = "capture", !.order = payments[p].order, !.payment = p])
  /\ UNCHANGED <<rows, provider>>

LockForCreate(w) == LockOrder(w, "lockCreate", "create")
LockForCapture(w) == LockOrder(w, "lockCapture", "capture")

\* What is left to pay, as both of them compute it.
Remaining(w) == Total[tx[w].order] - SumCaptured(tx[w].order) - tx[w].seen

\* A delegated charge goes on to capture the payment it has created; the API call ends.
AfterCreate(w, p) ==
  IF tx[w].op = "delegated"
  THEN /\ GoTo(w, "lockCapture")
       /\ tx' = [tx EXCEPT ![w].payment = p]
       /\ Release(w)
  ELSE Finish(w)

CreatePayment(w) ==
  LET o == tx[w].order
      twins == WithRef(o, tx[w].ref) IN
  /\ pc[w] = "create"
  /\ \/ /\ tx[w].amount > Remaining(w) + Tolerance
        /\ Finish(w)
        /\ UNCHANGED payments
     \/ /\ tx[w].amount <= Remaining(w) + Tolerance
        /\ twins # {}
        /\ \E p \in twins : AfterCreate(w, p)
        /\ UNCHANGED payments
     \/ /\ tx[w].amount <= Remaining(w) + Tolerance
        /\ twins = {}
        /\ payments' = Append(payments, [order |-> o, amount |-> tx[w].amount,
                                         status |-> "pending", ref |-> tx[w].ref])
        /\ AfterCreate(w, Len(payments) + 1)
  /\ UNCHANGED <<placed, financial, refundedTotal, refunds, guard, provider>>

\* Mutant of CapturePayment: the payment takes the order's status.
CaptureAsPaid(w) ==
  LET o == tx[w].order
      p == tx[w].payment IN
  /\ pc[w] = "capture"
  /\ Finish(w)
  /\ payments' = [payments EXCEPT ![p].status = "paid"]
  /\ financial' = [financial EXCEPT ![o] = "paid"]
  /\ UNCHANGED <<placed, refundedTotal, refunds, guard, provider>>

\* capturePayment books the capture; it does not call the provider.
CapturePayment(w) ==
  LET o == tx[w].order
      p == tx[w].payment
      captured == SumCaptured(o) + payments[p].amount IN
  /\ pc[w] = "capture"
  /\ Finish(w)
  /\ IF payments[p].status = "pending" /\ payments[p].amount <= Remaining(w) + Tolerance
     THEN /\ payments' = [payments EXCEPT ![p].status = "captured"]
          /\ financial' = [financial EXCEPT ![o] =
               IF captured + Tolerance >= Total[o] THEN "paid"
               ELSE IF @ = "pending" THEN "partially_paid" ELSE @]
     ELSE UNCHANGED <<payments, financial>>
  /\ UNCHANGED <<placed, refundedTotal, refunds, guard, provider>>

-----------------------------------------------------------------------------
(* createRefund.                                                           *)

\* Requests under way; they bound what is still to be asked for.
Refunding == {h \in Handlers : tx[h].op = "refund"}

\* Up to the lock: a refund with the same key is returned as it is, and nothing changes.
RequestRefund(w, p, a, k) ==
  /\ "refund" \in Ops /\ pc[w] = "idle"
  /\ Len(refunds) + Cardinality(Refunding) < MaxRefunds
  /\ Len(returned) + Cardinality(Refunding) < MaxReturned
  /\ WithKey(p, k) = {}
  /\ Start(w, "lockRefund", [NoTx EXCEPT !.op = "refund", !.payment = p, !.amount = a,
                                         !.key = k, !.order = payments[p].order])
  /\ UNCHANGED <<rows, provider>>

LockForRefund(w) == LockOrder(w, "lockRefund", "check")

\* The balance of the whole order, then INSERT ... ON CONFLICT DO NOTHING.  Only a
\* payment with a reference has a provider to call.
CheckRefund(w) ==
  LET refundable == SumCaptured(tx[w].order) - SumRefunded(tx[w].order) IN
  /\ pc[w] = "check"
  /\ \/ /\ \/ tx[w].amount > refundable + Tolerance
           \/ WithKey(tx[w].payment, tx[w].key) # {}
        /\ Finish(w)
     \/ /\ tx[w].amount <= refundable + Tolerance
        /\ WithKey(tx[w].payment, tx[w].key) = {}
        /\ GoTo(w, IF payments[tx[w].payment].ref = None THEN "commit" ELSE "call")
        /\ tx' = [tx EXCEPT ![w].status = "pending"]
        /\ UNCHANGED <<lock, share>>
  /\ UNCHANGED <<rows, provider>>

PaidBack(c) == SumOver([r \in 1 .. Len(returned) |-> returned[r].amount],
                       {r \in 1 .. Len(returned) : returned[r].charge = c})

\* The charges that the provider can still refund amount a of, under a reference.
Refundable(ref, a) ==
  {c \in 1 .. Len(charges) : ref \in RefundableRefs(c) /\ PaidBack(c) + a <= charges[c].amount}

\* mapRefundStatus, for the statuses that are not failures.
AcceptedStatus ==
  {"succeeded", "processing"} \cup (IF Provider = "paystack" THEN {"pending"} ELSE {})

\* executeProviderRefund: the provider pays back and says so, or its answer is lost, or
\* it refuses or cannot be reached.  Every error is a failed refund.
CallProvider(w) ==
  LET found == Refundable(payments[tx[w].payment].ref, tx[w].amount)
      fails == GoTo(w, "commit") /\ tx' = [tx EXCEPT ![w].status = "failed"] IN
  /\ pc[w] = "call"
  /\ \/ \E c \in found :
          /\ returned' = Append(returned, [charge |-> c, amount |-> tx[w].amount,
                                           payment |-> tx[w].payment, key |-> tx[w].key])
          /\ \/ /\ GoTo(w, "commit")
                /\ \E s \in AcceptedStatus :
                     tx' = [tx EXCEPT ![w].status = s,
                                      ![w].ref = <<"refund", Len(returned) + 1>>]
             \/ "provider" \in Faults /\ fails
     \/ /\ found = {} \/ "provider" \in Faults
        /\ fails
        /\ UNCHANGED returned
  /\ UNCHANGED <<rows, charges, settled, lock, share>>

\* The refund and total_refunded; neither the payment's status nor the order's
\* financial_status is touched.
CommitRefund(w) ==
  /\ pc[w] = "commit"
  /\ Finish(w)
  /\ refunds' = Append(refunds, [payment |-> tx[w].payment, amount |-> tx[w].amount,
                                 status |-> tx[w].status, ref |-> tx[w].ref, key |-> tx[w].key])
  /\ IF tx[w].status = "failed"
     THEN UNCHANGED refundedTotal
     ELSE refundedTotal' = [refundedTotal EXCEPT ![tx[w].order] = @ + tx[w].amount]
  /\ UNCHANGED <<placed, financial, payments, guard, provider>>

-----------------------------------------------------------------------------
(* chargeDelegatedToken.                                                   *)

TokenCharges(o) == {c \in 1 .. Len(charges) : charges[c].order = o /\ charges[c].token}

\* The provider charges the token once per checkout (its own idempotency key).
ChargeToken(w, o) ==
  /\ "delegated" \in Ops /\ Provider = "stripe"
  /\ \/ /\ TokenCharges(o) = {} /\ Len(charges) < MaxCharges
        /\ charges' = Append(charges, [order |-> o, amount |-> Total[o], token |-> TRUE])
     \/ /\ TokenCharges(o) # {}
        /\ UNCHANGED charges
  /\ \E c \in {k \in 1 .. Len(charges') : charges'[k].order = o /\ charges'[k].token} :
       Start(w, "charged", [NoTx EXCEPT !.op = "delegated", !.order = o, !.amount = Total[o],
                                        !.ref = <<"intent", c>>])
  /\ UNCHANGED <<rows, returned, settled>>

\* completeCheckout comes second: when it refuses, the charge stays.
PlaceCharged(w) ==
  LET o == tx[w].order IN
  /\ pc[w] = "charged"
  /\ \/ /\ o \notin placed
        /\ placed' = placed \cup {o}
        /\ GoTo(w, "lockCreate")
        /\ UNCHANGED <<tx, lock, share>>
     \/ /\ o \in placed \/ "checkout" \in Faults
        /\ Finish(w)
        /\ UNCHANGED placed
  /\ UNCHANGED <<financial, refundedTotal, payments, refunds, guard, provider>>

-----------------------------------------------------------------------------
(* Webhooks.                                                               *)

Settle(w) == settled' = settled \cup {tx[w].event}

\* Answer 200 and record nothing.
Drop(w) == Settle(w) /\ Finish(w) /\ UNCHANGED <<rows, charges, returned>>

\* recordAndCheckReplayEvent, in a transaction of its own, before anything is recorded.
\* A replay is answered with 200; when the guard cannot be written the event goes on.
ReceiveEvent(w, e) ==
  LET begin == Start(w, IF e.kind = "paid" THEN "lookup" ELSE "find",
                     [NoTx EXCEPT !.op = "webhook", !.event = e]) IN
  /\ "webhook" \in Ops /\ pc[w] = "idle"
  /\ \/ /\ GuardKey(e) \notin guard
        /\ guard' = guard \cup ({GuardKey(e)} \ {None})
        /\ begin /\ UNCHANGED settled
     \/ /\ GuardKey(e) \in guard
        /\ settled' = settled \cup {e}
        /\ UNCHANGED <<guard, local>>
     \/ /\ "guard" \in Faults
        /\ begin /\ UNCHANGED <<guard, settled>>
  /\ UNCHANGED <<placed, financial, refundedTotal, payments, refunds, charges, returned>>

\* recordPaymentSuccess, phase 1: is there an order?
LookUpOrder(w) ==
  LET c == charges[tx[w].event.n] IN
  /\ pc[w] = "lookup"
  /\ GoTo(w, IF c.order \in placed THEN "sum" ELSE "complete")
  /\ tx' = [tx EXCEPT ![w].order = c.order, ![w].amount = c.amount]
  /\ UNCHANGED <<rows, provider, lock, share>>

\* completeCheckout refuses when the order has been placed in the meantime, or for a
\* reason of its own.
AutoComplete(w) ==
  LET o == tx[w].order IN
  /\ pc[w] = "complete"
  /\ \/ /\ o \notin placed
        /\ placed' = placed \cup {o}
        /\ GoTo(w, "sum")
        /\ UNCHANGED <<financial, refundedTotal, payments, refunds, guard, provider,
                       tx, lock, share>>
     \/ /\ o \in placed \/ "checkout" \in Faults
        /\ Drop(w)

\* Phase 2: the captures are added up without a lock on the order.
SumCaptures(w) ==
  LET o == tx[w].order IN
  /\ pc[w] = "sum"
  /\ \/ /\ tx[w].amount + SumCaptured(o) <= Total[o] + Tolerance
        /\ GoTo(w, "insert")
        /\ UNCHANGED <<rows, provider, tx, lock, share>>
     \/ /\ tx[w].amount + SumCaptured(o) > Total[o] + Tolerance
        /\ Drop(w)

\* Mutant of InsertPayment: a plain INSERT, without the unique index.
InsertDuplicate(w) ==
  LET o == tx[w].order IN
  /\ pc[w] = "insert"
  /\ lock[o] = None
  /\ share' = [share EXCEPT ![o] = @ \cup {w}]
  /\ GoTo(w, "paid")
  /\ tx' = [tx EXCEPT ![w].ref = PaidRef(tx[w].event.n)]
  /\ UNCHANGED <<rows, provider, lock>>

\* INSERT ... ON CONFLICT (order, reference) DO NOTHING.  Its foreign key takes the order
\* row FOR KEY SHARE; a conflicting row that is not committed yet is waited for.
InsertPayment(w) ==
  LET o == tx[w].order
      ref == PaidRef(tx[w].event.n) IN
  /\ pc[w] = "insert"
  /\ lock[o] = None
  /\ ~\E h \in share[o] : tx[h].ref = ref
  /\ \/ /\ WithRef(o, ref) = {}
        /\ share' = [share EXCEPT ![o] = @ \cup {w}]
        /\ GoTo(w, "paid")
        /\ tx' = [tx EXCEPT ![w].ref = ref]
        /\ UNCHANGED <<rows, provider, lock>>
     \/ /\ WithRef(o, ref) # {}
        /\ Drop(w)

\* The order is paid, whatever the amount; COMMIT.
CommitPayment(w) ==
  LET o == tx[w].order IN
  /\ pc[w] = "paid"
  /\ payments' = Append(payments, [order |-> o, amount |-> tx[w].amount,
                                   status |-> "captured", ref |-> tx[w].ref])
  /\ financial' = [financial EXCEPT ![o] = "paid"]
  /\ Settle(w) /\ Finish(w)
  /\ UNCHANGED <<placed, refundedTotal, refunds, guard, charges, returned>>

\* recordPaymentRefund: the latest payment with the charge's reference that is captured
\* or partly refunded.
FindPayment(w) ==
  LET r == returned[tx[w].event.n]
      matches == {p \in 1 .. Len(payments) :
                    /\ payments[p].ref = ChargeRef(r.charge)
                    /\ payments[p].status \in {"captured", "partially_refunded"}} IN
  /\ pc[w] = "find"
  /\ \/ /\ matches = {}
        /\ Drop(w)
     \/ \E p \in matches :
          /\ \A q \in matches : q <= p
          /\ GoTo(w, "lockReceived")
          /\ tx' = [tx EXCEPT ![w].payment = p, ![w].order = payments[p].order,
                              ![w].amount = r.amount, ![w].ref = <<"refund", tx[w].event.n>>]
          /\ UNCHANGED <<rows, provider, lock, share>>

LockForReceived(w) == LockOrder(w, "lockReceived", "received")

\* The refunds that the cap of the webhook counts: not those in processing.
Counted(p) ==
  {r \in 1 .. Len(refunds) : refunds[r].payment = p /\ refunds[r].status \in {"succeeded", "pending"}}

\* Mutant of RecordRefund: without the unique index.
RecordRefundAgain(w) ==
  LET o == tx[w].order
      p == tx[w].payment
      a == tx[w].amount IN
  /\ pc[w] = "received"
  /\ IF SumOver(RefundAmounts, Counted(p)) + a > payments[p].amount + Tolerance
     THEN Drop(w)
     ELSE /\ refunds' = Append(refunds, [payment |-> p, amount |-> a, status |-> "succeeded",
                                         ref |-> tx[w].ref, key |-> None])
          /\ refundedTotal' = [refundedTotal EXCEPT ![o] = tx[w].seen + a]
          /\ Settle(w) /\ Finish(w)
          /\ UNCHANGED <<placed, financial, payments, guard, charges, returned>>

\* The cap, the INSERT and the new totals and statuses; the payment's status looks at
\* this refund alone.
RecordRefund(w) ==
  LET o == tx[w].order
      p == tx[w].payment
      a == tx[w].amount
      fits == SumOver(RefundAmounts, Counted(p)) + a <= payments[p].amount + Tolerance IN
  /\ pc[w] = "received"
  /\ \/ /\ ~fits \/ WithRefundRef(p, tx[w].ref) # {}
        /\ Drop(w)
     \/ /\ fits /\ WithRefundRef(p, tx[w].ref) = {}
        /\ refunds' = Append(refunds, [payment |-> p, amount |-> a, status |-> "succeeded",
                                       ref |-> tx[w].ref, key |-> None])
        /\ refundedTotal' = [refundedTotal EXCEPT ![o] = tx[w].seen + a]
        /\ financial' = [financial EXCEPT ![o] =
             IF tx[w].seen + a + Tolerance >= Total[o] THEN "refunded" ELSE "partially_refunded"]
        /\ payments' = [payments EXCEPT ![p].status =
             IF a + Tolerance >= payments[p].amount THEN "refunded" ELSE "partially_refunded"]
        /\ Settle(w) /\ Finish(w)
        /\ UNCHANGED <<placed, guard, charges, returned>>

\* A statement of the recording transaction fails: the error is logged, the answer is 200.
StatementFails(w) ==
  /\ "statement" \in Faults
  /\ pc[w] \in {"sum", "insert", "paid", "find", "lockReceived", "received"}
  /\ Drop(w)

-----------------------------------------------------------------------------
(* What happens beside the handlers.                                       *)

\* The process dies, or a request fails with 500: its transaction is rolled back, its
\* caller gets no answer, and the provider will send its event again.
Crash(w) ==
  /\ "crash" \in Faults /\ pc[w] # "idle"
  /\ Finish(w)
  /\ UNCHANGED <<rows, provider>>

\* The storefront completes the checkout.
PlaceOrder(o) ==
  /\ o \notin placed
  /\ placed' = placed \cup {o}
  /\ UNCHANGED <<financial, refundedTotal, payments, refunds, guard, provider, local>>

\* A customer pays on the provider's page.  A Paystack reference is used once.
PayAtProvider(o, a) ==
  /\ "webhook" \in Ops /\ Len(charges) < MaxCharges
  /\ Provider = "paystack" => \A c \in 1 .. Len(charges) : charges[c].order # o
  /\ charges' = Append(charges, [order |-> o, amount |-> a, token |-> FALSE])
  /\ UNCHANGED <<rows, returned, settled, local>>

\* The merchant refunds on the provider's dashboard.
RefundAtProvider(c, a) ==
  /\ "dashboard" \in Ops
  /\ Len(returned) + Cardinality(Refunding) < MaxReturned
  /\ PaidBack(c) + a <= charges[c].amount
  /\ returned' = Append(returned, [charge |-> c, amount |-> a, payment |-> 0, key |-> None])
  /\ UNCHANGED <<rows, charges, settled, local>>

Environment ==
  \/ \E o \in Orders : PlaceOrder(o)
  \/ \E o \in Orders, a \in Amounts : PayAtProvider(o, a)
  \/ \E c \in 1 .. Len(charges), a \in Amounts : RefundAtProvider(c, a)

\* A new request reaches an idle handler.
Request(w) ==
  \/ \E o \in Orders, a \in Amounts : RequestCreate(w, o, a, None)
  \/ \E c \in 1 .. Len(charges), a \in Amounts, ref \in {"intent", "charge"} :
       Provider = "stripe" /\ RequestCreate(w, charges[c].order, a, <<ref, c>>)
  \/ \E p \in 1 .. Len(payments) : RequestCapture(w, p)
  \/ \E p \in 1 .. Len(payments), a \in Amounts, k \in Keys \cup {None} : RequestRefund(w, p, a, k)
  \/ \E o \in Orders : ChargeToken(w, o)
  \/ \E e \in Events : ReceiveEvent(w, e)

\* The next statement of a request under way.
Step(w) ==
  \/ LockForCreate(w) \/ CreatePayment(w)
  \/ LockForCapture(w) \/ CapturePayment(w)
  \/ LockForRefund(w) \/ CheckRefund(w) \/ CallProvider(w) \/ CommitRefund(w)
  \/ PlaceCharged(w)
  \/ LookUpOrder(w) \/ AutoComplete(w) \/ SumCaptures(w) \/ InsertPayment(w) \/ CommitPayment(w)
  \/ FindPayment(w) \/ LockForReceived(w) \/ RecordRefund(w) \/ StatementFails(w)

Next ==
  \/ Environment
  \/ \E w \in Handlers : Request(w) \/ Step(w) \/ Crash(w)

Spec == Init /\ [][Next]_vars

\* A handler goes on with its request, and PostgreSQL serves the waiters of a row lock
\* in turn: a lock that comes free again and again is granted.
Fairness == \A w \in Handlers : SF_vars(Step(w))
FairSpec == Spec /\ Fairness

-----------------------------------------------------------------------------
(* Properties.                                                             *)

AllEvents == [kind : {"paid", "refunded"}, n : Nat]
PaymentRows == [order : Orders, amount : Nat, status : PaymentStatus, ref : References \cup {None}]
RefundRows ==
  [payment : Nat, amount : Nat, status : RefundStatus, ref : RefundReferences \cup {None},
   key : Keys \cup {None}]
TxRows ==
  [op : Operations \cup {None}, order : Orders \cup {None}, payment : Nat, amount : Nat,
   key : Keys \cup {None}, ref : References \cup RefundReferences \cup {None},
   event : AllEvents \cup {None}, seen : Nat, status : RefundStatus \cup {None}]

\* The rows, the provider's books and the requests under way keep their types.
TypeOK ==
  /\ placed \subseteq Orders
  /\ financial \in [Orders -> FinancialStatus]
  /\ refundedTotal \in [Orders -> Nat]
  /\ payments \in Seq(PaymentRows)
  /\ refunds \in Seq(RefundRows)
  /\ guard \subseteq AllEvents
  /\ charges \in Seq([order : Orders, amount : Nat, token : BOOLEAN])
  /\ returned \in Seq([charge : Nat, amount : Nat, payment : Nat, key : Keys \cup {None}])
  /\ settled \subseteq AllEvents
  /\ pc \in [Handlers -> Stages]
  /\ tx \in [Handlers -> TxRows]
  /\ lock \in [Orders -> Handlers \cup {None}]
  /\ share \in [Orders -> SUBSET Handlers]

\* orders.total_refunded is the sum of the order's refunds that have not failed, whichever
\* of createRefund (which adds to it) and the webhook (which writes what it has read plus
\* the refund) recorded them, and however they interleave.
RefundLedgerAgrees == \A o \in Orders : refundedTotal[o] = SumRefunded(o)

\* Seen from outside, API captures and refunds are the atomic steps of OrderLedger.
Ledger == INSTANCE OrderLedger WITH
  captured <- [o \in Orders |-> SumCaptured(o)],
  refunded <- refundedTotal
LedgerSpec == Ledger!Spec

\* A refund row with a provider's reference is a payment back that the provider made, of
\* the same amount, and no two rows are the same one.  A crash between the provider's
\* answer and the COMMIT leaves it to the webhook to record.
RefundsMatchProvider ==
  \A r \in {i \in 1 .. Len(refunds) : refunds[i].ref # None} :
    /\ refunds[r].ref[2] \in 1 .. Len(returned)
    /\ refunds[r].amount = returned[refunds[r].ref[2]].amount
    /\ refunds[r].status # "failed"
    /\ \A s \in 1 .. Len(refunds) : refunds[s].ref = refunds[r].ref => s = r

Charged(o) == SumOver([c \in 1 .. Len(charges) |-> charges[c].amount],
                      {c \in 1 .. Len(charges) : charges[c].order = o})
Received(o) == SumOver(PaymentAmounts, {p \in PaymentsOf(o) : payments[p].status # "pending"})

\* An order is never credited with more than its customer paid at the provider: events
\* that are sent again, or twice at once, or pass a guard that failed open, are recorded
\* once.
RecordedIsCharged == \A o \in Orders : Received(o) <= Charged(o)

\* An Idempotency-Key pays back once.
OneReturnPerKey ==
  \A r, s \in 1 .. Len(returned) :
    /\ returned[r].key # None
    /\ returned[r].key = returned[s].key /\ returned[r].payment = returned[s].payment
    => r = s

Quiet == \A w \in Handlers : pc[w] = "idle"

\* Once its event has been answered with 200, a charge that the order still has room for
\* is recorded.
AcknowledgedIsRecorded ==
  Quiet =>
    \A c \in 1 .. Len(charges) :
      PaidEvent(c) \in settled
        => \/ WithRef(charges[c].order, PaidRef(c)) # {}
           \/ SumCaptured(charges[c].order) + charges[c].amount > Total[charges[c].order] + Tolerance

\* Every request comes to an end: no two of them wait for each other's locks.
RequestsEnd == \A w \in Handlers : pc[w] # "idle" ~> pc[w] = "idle"
=============================================================================
