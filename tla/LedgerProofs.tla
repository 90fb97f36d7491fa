---------------------------- MODULE LedgerProofs ----------------------------
(***************************************************************************)
(* As long as no webhook is served, Payments implements OrderLedger: money *)
(* comes in up to an order's total and goes out up to what came in, for    *)
(* any number of concurrent requests, crashes included.                    *)
(***************************************************************************)
EXTENDS PaymentsProofs

-----------------------------------------------------------------------------
(* Sums of captured payments.                                              *)

\* The captures of an order are finitely many, of integer amounts.
LEMMA CapturesFinite ==
  ASSUME TypeOK, NEW o \in Orders
  PROVE  /\ IsFiniteSet(CapturedOf(o)) /\ CapturedOf(o) \subseteq 1 .. Len(payments)
         /\ \A p \in 1 .. Len(payments) : PaymentAmounts[p] \in Int
<1>1. \A p \in 1 .. Len(payments) : PaymentAmounts[p] \in Int
  BY RowShapes DEF PaymentAmounts, PaymentRows
<1>2. CapturedOf(o) \subseteq 1 .. Len(payments)
  BY DEF CapturedOf, PaymentsOf
<1>3. IsFiniteSet(1 .. Len(payments))
  BY RowShapes, FS_Interval
<1>4. QED BY <1>1, <1>2, <1>3, FS_Subset

\* A pending payment is no money yet.
LEMMA PendingIsNoMoney ==
  ASSUME TypeOK, NEW row, row.status = "pending", payments' = Append(payments, row)
  PROVE  \A o \in Orders : SumCaptured(o)' = SumCaptured(o)
<1> DEFINE n == Len(payments) + 1
<1>1. /\ Len(payments') = n /\ payments'[n] = row /\ Len(payments) \in Nat
      /\ \A p \in 1 .. Len(payments) : payments'[p] = payments[p]
  BY DEF TypeOK
<1>2. ASSUME NEW o \in Orders PROVE SumCaptured(o)' = SumCaptured(o)
  <2> DEFINE S == CapturedOf(o)
  <2>1. S \subseteq 1 .. Len(payments)
    BY CapturesFinite
  <2>2. CapturedOf(o)' = S
    <3>1. \A p \in 1 .. Len(payments) : p \in CapturedOf(o)' <=> p \in S
      BY <1>1 DEF CapturedOf, PaymentsOf
    <3>2. n \notin CapturedOf(o)'
      BY <1>1 DEF CapturedOf, PaymentsOf
    <3>3. \A p \in 1 .. n : p = n \/ p \in 1 .. Len(payments)
      BY <1>1
    <3>4. CapturedOf(o)' \subseteq 1 .. n
      BY <1>1 DEF CapturedOf, PaymentsOf
    <3>5. QED BY <2>1, <3>1, <3>2, <3>3, <3>4
  <2>3. \A p \in S : PaymentAmounts'[p] = PaymentAmounts[p]
    BY <1>1, <2>1 DEF PaymentAmounts
  <2> HIDE DEF S
  <2>4. SumOver(PaymentAmounts', S) = SumOver(PaymentAmounts, S)
    BY <2>3, SumSame
  <2>5. QED BY <2>2, <2>4 DEF SumCaptured, S
<1>3. QED BY <1>2

\* Capturing a pending payment adds its amount to its order, and to no other.
LEMMA CaptureAdds ==
  ASSUME TypeOK, NEW p \in 1 .. Len(payments), payments[p].status = "pending",
         payments' = [payments EXCEPT ![p].status = "captured"]
  PROVE  \A o \in Orders : SumCaptured(o)' =
           IF o = payments[p].order THEN SumCaptured(o) + payments[p].amount ELSE SumCaptured(o)
<1>1. payments \in Seq(PaymentRows) /\ payments[p] \in PaymentRows /\ Len(payments) \in Nat
  BY RowShapes DEF TypeOK
<1> DEFINE row == [payments[p] EXCEPT !.status = "captured"]
<1>2. /\ row \in PaymentRows /\ row.order = payments[p].order
      /\ row.amount = payments[p].amount /\ row.status = "captured"
  BY <1>1 DEF PaymentRows, PaymentStatus
<1>3. payments' = [payments EXCEPT ![p] = row]
  BY <1>1
<1> HIDE DEF row
<1>4. /\ Len(payments') = Len(payments) /\ payments'[p] = row
      /\ \A q \in 1 .. Len(payments) : q # p => payments'[q] = payments[q]
  BY <1>1, <1>3
<1>5. \A q \in 1 .. Len(payments) : PaymentAmounts'[q] = PaymentAmounts[q]
  BY <1>2, <1>4 DEF PaymentAmounts
<1>6. ASSUME NEW o \in Orders
      PROVE  SumCaptured(o)' = IF o = payments[p].order
                               THEN SumCaptured(o) + payments[p].amount ELSE SumCaptured(o)
  <2> DEFINE S == CapturedOf(o)
             f == PaymentAmounts
             g == PaymentAmounts'
  <2>1. /\ IsFiniteSet(S) /\ S \subseteq 1 .. Len(payments)
        /\ \A q \in 1 .. Len(payments) : f[q] \in Int
    BY CapturesFinite
  <2>2. p \notin S
    BY DEF CapturedOf
  <2>3. CapturedOf(o)' = IF o = payments[p].order THEN S \cup {p} ELSE S
    <3>1. \A q \in 1 .. Len(payments) : q # p => (q \in CapturedOf(o)' <=> q \in S)
      BY <1>4 DEF CapturedOf, PaymentsOf
    <3>2. p \in CapturedOf(o)' <=> o = payments[p].order
      BY <1>2, <1>4 DEF CapturedOf, PaymentsOf
    <3>3. CapturedOf(o)' \subseteq 1 .. Len(payments)
      BY <1>4 DEF CapturedOf, PaymentsOf
    <3>4. \A q \in 1 .. Len(payments) :
            q \in CapturedOf(o)' <=> q \in S \/ (q = p /\ o = payments[p].order)
      BY <2>2, <3>1, <3>2
    <3>5. S \subseteq 1 .. Len(payments)
      BY <2>1
    <3> HIDE DEF S
    <3>6. QED BY <3>3, <3>4, <3>5
  <2>4. g[p] = payments[p].amount /\ \A q \in S \cup {p} : g[q] \in Int /\ g[q] = f[q]
    <3>1. f[p] = payments[p].amount
      BY DEF PaymentAmounts
    <3> HIDE DEF f, g
    <3>2. \A q \in 1 .. Len(payments) : g[q] = f[q]
      BY <1>5 DEF f, g
    <3>3. QED BY <2>1, <3>1, <3>2
  <2>5. SumCaptured(o) = SumOver(f, S) /\ SumCaptured(o)' = SumOver(g, CapturedOf(o)')
    BY DEF SumCaptured
  <2> HIDE DEF S, f, g
  <2>6. SumOver(g, S) = SumOver(f, S)
    BY <2>4, SumSame
  <2>7. SumOver(g, S \cup {p}) = SumOver(g, S) + g[p]
    <3>1. IsFiniteSet(S) /\ p \notin S
      BY <2>1, <2>2 DEF S
    <3>2. \A q \in S \cup {p} : g[q] \in Int
      BY <2>4
    <3>3. QED BY <3>1, <3>2, SumStep
  <2>8. QED BY <2>3, <2>4, <2>5, <2>6, <2>7
<1>7. QED BY <1>6

-----------------------------------------------------------------------------
(* What an API request may do.                                             *)

WebhookStages == PaidStages \cup RefundedStages
RefundStages == {"lockRefund", "check", "call", "commit"}

\* A refund that has passed the check still fits, until it is committed.
Fits(w) ==
  /\ pc[w] \notin WebhookStages
  /\ pc[w] \in RefundStages => tx[w].amount > 0
  /\ pc[w] \in {"call", "commit"} =>
       tx[w].amount + refundedTotal[tx[w].order] <= SumCaptured(tx[w].order) + Tolerance

ApiInv == LedgerInv /\ \A w \in Handlers : Fits(w)

\* The three things a statement can do to the money of the orders.
MoneyStands ==
  /\ \A o \in Orders : SumCaptured(o)' = SumCaptured(o)
  /\ refundedTotal' = refundedTotal

MoneyIn(o) ==
  /\ SumCaptured(o)' > SumCaptured(o)
  /\ SumCaptured(o)' + refundedTotal[o] <= Total[o] + Tolerance
  /\ \A q \in Orders \ {o} : SumCaptured(q)' = SumCaptured(q)
  /\ refundedTotal' = refundedTotal

MoneyOut(o) ==
  /\ refundedTotal'[o] > refundedTotal[o]
  /\ refundedTotal'[o] <= SumCaptured(o) + Tolerance
  /\ refundedTotal' = [refundedTotal EXCEPT ![o] = refundedTotal'[o]]
  /\ \A q \in Orders : SumCaptured(q)' = SumCaptured(q)

\* Only the holder of its lock moves the money of an order.
Effect(w) == MoneyStands \/ \E o \in Orders : lock[o] = w /\ (MoneyIn(o) \/ MoneyOut(o))

LEMMA SamePayments ==
  ASSUME payments' = payments
  PROVE  \A o \in Orders : SumCaptured(o)' = SumCaptured(o)
BY DEF SumCaptured, CapturedOf, PaymentsOf, PaymentAmounts

LEMMA NoMoney ==
  ASSUME UNCHANGED <<payments, refundedTotal>>
  PROVE  MoneyStands
BY SamePayments DEF MoneyStands

\* What fits goes on fitting while others act.
LEMMA FitsStays ==
  ASSUME LedgerInv, NEW w, NEW x \in Handlers, x # w, Fits(x),
         pc'[x] = pc[x], tx'[x] = tx[x], Effect(w)
  PROVE  Fits(x)'
<1>0. PICK o : o = tx[x].order
  OBVIOUS
<1>1. Knows(x) /\ TypeOK
  BY DEF LedgerInv
<1>2. pc[x] \in {"call", "commit"} => o \in Orders /\ lock[o] = x
  BY <1>0, <1>1 DEF Knows, OrderStages, LockedStages, Stages
<1>3. pc[x] \in {"call", "commit"} =>
        SumCaptured(o)' = SumCaptured(o) /\ refundedTotal'[o] = refundedTotal[o]
  <2> SUFFICES ASSUME pc[x] \in {"call", "commit"}
               PROVE  SumCaptured(o)' = SumCaptured(o) /\ refundedTotal'[o] = refundedTotal[o]
    OBVIOUS
  <2>1. CASE MoneyStands
    BY <1>2, <2>1 DEF MoneyStands
  <2>2. ASSUME NEW q \in Orders, lock[q] = w, MoneyIn(q) \/ MoneyOut(q)
        PROVE  SumCaptured(o)' = SumCaptured(o) /\ refundedTotal'[o] = refundedTotal[o]
    <3>1. q # o /\ o \in Orders /\ refundedTotal \in [Orders -> Nat]
      BY <1>1, <1>2, <2>2 DEF TypeOK
    <3>2. QED BY <2>2, <3>1 DEF MoneyIn, MoneyOut
  <2>3. QED BY <2>1, <2>2 DEF Effect
<1>4. pc'[x] \in {"call", "commit"} =>
        tx'[x].amount + refundedTotal'[o] <= SumCaptured(o)' + Tolerance
  BY <1>0, <1>3 DEF Fits
<1>5. tx'[x].order = o
  BY <1>0
<1>6. QED BY <1>4, <1>5 DEF Fits

\* The same for what happens beside the requests.
LEMMA FitsBeside ==
  ASSUME LedgerInv, NEW x \in Handlers, Fits(x), UNCHANGED local, MoneyStands
  PROVE  Fits(x)'
<1>1. Knows(x)
  BY DEF LedgerInv
<1>2. pc[x] \in {"call", "commit"} => tx[x].order \in Orders
  BY <1>1 DEF Knows, OrderStages, Stages
<1>3. pc' = pc /\ tx' = tx
  BY DEF local
<1>4. QED BY <1>2, <1>3 DEF Fits, MoneyStands

\* A request that is at a stage without conditions fits.
LEMMA FitsFree ==
  ASSUME NEW w \in Handlers, pc'[w] \notin WebhookStages \cup RefundStages
  PROVE  Fits(w)'
BY DEF Fits, RefundStages

\* A statement of w moves only w.
Alone(w) == \A x \in Handlers \ {w} : pc'[x] = pc[x] /\ tx'[x] = tx[x]

LEMMA FinishFree ==
  ASSUME TypeOK, NEW w \in Handlers, Finish(w)
  PROVE  Alone(w) /\ Fits(w)'
<1>1. OnlyMine(w) /\ pc'[w] = "idle"
  BY FinishLocal DEF Finish, GoTo, TypeOK
<1>2. QED BY <1>1, FitsFree DEF Alone, OnlyMine, WebhookStages, PaidStages, RefundedStages, RefundStages

-----------------------------------------------------------------------------
(* The statements.                                                         *)

LEMMA BeginEffect ==
  ASSUME ApiInv, "webhook" \notin Ops, NEW w \in Handlers, Request(w)
  PROVE  Alone(w) /\ Fits(w)' /\ Effect(w)
<1>1. TypeOK
  BY DEF ApiInv, LedgerInv
<1>2. ASSUME NEW o, NEW a, NEW ref, RequestCreate(w, o, a, ref)
      PROVE  Alone(w) /\ Fits(w)' /\ UNCHANGED <<payments, refundedTotal>>
  <2>1. Alone(w) /\ pc'[w] = "lockCreate" /\ UNCHANGED <<payments, refundedTotal>>
    BY <1>1, <1>2 DEF RequestCreate, Start, GoTo, Alone, TypeOK, rows
  <2>2. QED BY <2>1, FitsFree DEF WebhookStages, PaidStages, RefundedStages, RefundStages
<1>3. ASSUME NEW p, RequestCapture(w, p)
      PROVE  Alone(w) /\ Fits(w)' /\ UNCHANGED <<payments, refundedTotal>>
  <2>1. Alone(w) /\ pc'[w] = "lockCapture" /\ UNCHANGED <<payments, refundedTotal>>
    BY <1>1, <1>3 DEF RequestCapture, Start, GoTo, Alone, TypeOK, rows
  <2>2. QED BY <2>1, FitsFree DEF WebhookStages, PaidStages, RefundedStages, RefundStages
<1>4. ASSUME NEW p, NEW a \in Amounts, NEW k, RequestRefund(w, p, a, k)
      PROVE  Alone(w) /\ Fits(w)' /\ UNCHANGED <<payments, refundedTotal>>
  <2>1. Alone(w) /\ pc'[w] = "lockRefund" /\ UNCHANGED <<payments, refundedTotal>>
    BY <1>1, <1>4 DEF RequestRefund, Start, GoTo, Alone, TypeOK, rows
  <2>2. tx'[w].amount = a /\ a > 0
    BY <1>1, <1>4, PaymentNumbers DEF RequestRefund, Start, TypeOK, NoTx
  <2>3. QED BY <2>1, <2>2 DEF Fits, WebhookStages, PaidStages, RefundedStages, RefundStages
<1>5. ASSUME NEW o, ChargeToken(w, o)
      PROVE  Alone(w) /\ Fits(w)' /\ UNCHANGED <<payments, refundedTotal>>
  <2>1. Alone(w) /\ pc'[w] = "charged" /\ UNCHANGED <<payments, refundedTotal>>
    BY <1>1, <1>5 DEF ChargeToken, Start, GoTo, Alone, TypeOK, rows
  <2>2. QED BY <2>1, FitsFree DEF WebhookStages, PaidStages, RefundedStages, RefundStages
<1>6. ASSUME NEW e, ReceiveEvent(w, e)
      PROVE  FALSE
  BY <1>6 DEF ReceiveEvent
<1>7. Alone(w) /\ Fits(w)' /\ UNCHANGED <<payments, refundedTotal>>
  BY <1>2, <1>3, <1>4, <1>5, <1>6 DEF Request
<1>8. QED BY <1>7, NoMoney DEF Effect

LEMMA LockEffect ==
  ASSUME ApiInv, NEW w \in Handlers,
         LockForCreate(w) \/ LockForCapture(w) \/ LockForRefund(w)
  PROVE  Alone(w) /\ Fits(w)' /\ Effect(w)
<1>1. TypeOK /\ Fits(w) /\ tx[w] \in TxRows
  BY DEF ApiInv, LedgerInv, TypeOK
<1>2. UNCHANGED <<payments, refundedTotal>>
  BY DEF LockForCreate, LockForCapture, LockForRefund, LockOrder, rows
<1>3. CASE LockForCreate(w) \/ LockForCapture(w)
  <2>1. Alone(w) /\ pc'[w] \in {"create", "capture"}
    BY <1>1, <1>3 DEF LockForCreate, LockForCapture, LockOrder, GoTo, Alone, TypeOK
  <2>2. QED
    BY <1>2, <2>1, FitsFree, NoMoney
    DEF Effect, WebhookStages, PaidStages, RefundedStages, RefundStages
<1>4. CASE LockForRefund(w)
  <2>1. Alone(w) /\ pc'[w] = "check"
    BY <1>1, <1>4 DEF LockForRefund, LockOrder, GoTo, Alone, TypeOK
  <2>2. tx'[w].amount = tx[w].amount /\ pc[w] = "lockRefund"
    BY <1>1, <1>4 DEF LockForRefund, LockOrder, TypeOK, TxRows
  <2>3. Fits(w)'
    BY <1>1, <2>1, <2>2 DEF Fits, WebhookStages, PaidStages, RefundedStages, RefundStages
  <2>4. QED BY <1>2, <2>1, <2>3, NoMoney DEF Effect
<1>5. QED BY <1>3, <1>4

LEMMA CreateEffect ==
  ASSUME ApiInv, NEW w \in Handlers, CreatePayment(w)
  PROVE  Alone(w) /\ Fits(w)' /\ Effect(w)
<1>1. TypeOK
  BY DEF ApiInv, LedgerInv
<1>2. ASSUME NEW p, AfterCreate(w, p) PROVE Alone(w) /\ Fits(w)'
  <2>1. CASE Finish(w)
    BY <1>1, <2>1, FinishFree
  <2>2. CASE GoTo(w, "lockCapture") /\ tx' = [tx EXCEPT ![w].payment = p]
    <3>1. Alone(w) /\ pc'[w] = "lockCapture"
      BY <1>1, <2>2 DEF GoTo, Alone, TypeOK
    <3>2. QED BY <3>1, FitsFree DEF WebhookStages, PaidStages, RefundedStages, RefundStages
  <2>3. QED BY <1>2, <2>1, <2>2 DEF AfterCreate
<1>3. Alone(w) /\ Fits(w)'
  BY <1>1, <1>2, FinishFree DEF CreatePayment
<1>4. MoneyStands
  <2>1. refundedTotal' = refundedTotal
    BY DEF CreatePayment
  <2>2. CASE payments' = payments
    BY <2>1, <2>2, NoMoney
  <2>3. CASE payments' = Append(payments, [order |-> tx[w].order, amount |-> tx[w].amount,
                                           status |-> "pending", ref |-> tx[w].ref])
    <3> DEFINE row == [order |-> tx[w].order, amount |-> tx[w].amount,
                       status |-> "pending", ref |-> tx[w].ref]
    <3>1. row.status = "pending" /\ payments' = Append(payments, row)
      BY <2>3
    <3> HIDE DEF row
    <3>2. QED BY <1>1, <2>1, <3>1, PendingIsNoMoney DEF MoneyStands
  <2>4. QED BY <2>2, <2>3 DEF CreatePayment
<1>5. QED BY <1>3, <1>4 DEF Effect

\* The capture fits what is left of the order, which its lock keeps as it was read.
LEMMA CaptureEffect ==
  ASSUME ApiInv, NEW w \in Handlers, CapturePayment(w)
  PROVE  Alone(w) /\ Fits(w)' /\ Effect(w)
<1>1. TypeOK /\ Knows(w) /\ pc[w] = "capture" /\ Finish(w)
  BY DEF ApiInv, LedgerInv, CapturePayment
<1>2. Alone(w) /\ Fits(w)'
  BY <1>1, FinishFree
<1>3. PICK o, p : o = tx[w].order /\ p = tx[w].payment
  OBVIOUS
<1>4. /\ o \in Orders /\ p \in 1 .. Len(payments) /\ payments[p].order = o
      /\ lock[o] = w /\ tx[w].seen = refundedTotal[o]
  BY <1>1, <1>3 DEF Knows, OrderStages, PaymentStages, LockedStages, Stages
<1>5. /\ payments[p].amount \in Nat /\ refundedTotal[o] \in Nat /\ Total[o] \in Nat
      /\ Tolerance \in Nat /\ SumCaptured(o) \in Int
  BY <1>1, <1>4, RowShapes, RemainingType, PaymentNumbers DEF TypeOK, PaymentRows
<1>6. refundedTotal' = refundedTotal
  BY DEF CapturePayment
<1>7. CASE payments' = payments
  BY <1>2, <1>6, <1>7, NoMoney DEF Effect
<1>8. CASE /\ payments[p].status = "pending" /\ payments[p].amount <= Remaining(w) + Tolerance
           /\ payments' = [payments EXCEPT ![p].status = "captured"]
  <2>1. \A q \in Orders : SumCaptured(q)' =
          IF q = o THEN SumCaptured(q) + payments[p].amount ELSE SumCaptured(q)
    BY <1>1, <1>4, <1>8, CaptureAdds
  <2>2. Remaining(w) = Total[o] - SumCaptured(o) - refundedTotal[o]
    BY <1>3, <1>4 DEF Remaining
  <2>3. SumCaptured(o)' + refundedTotal[o] <= Total[o] + Tolerance
    BY SMTT(30), <1>4, <1>5, <1>8, <2>1, <2>2
  <2>4. CASE payments[p].amount = 0
    <3>1. \A q \in Orders : SumCaptured(q) \in Int
      BY <1>1, RemainingType
    <3>2. MoneyStands
      BY <1>6, <2>1, <2>4, <3>1 DEF MoneyStands
    <3>3. QED BY <1>2, <3>2 DEF Effect
  <2>5. CASE payments[p].amount > 0
    <3>1. SumCaptured(o)' > SumCaptured(o)
      BY <1>4, <1>5, <2>1, <2>5
    <3>2. MoneyIn(o)
      BY <1>6, <2>1, <2>3, <3>1 DEF MoneyIn
    <3>3. QED BY <1>2, <1>4, <3>2 DEF Effect
  <2>6. QED BY <1>5, <2>4, <2>5
<1>9. QED BY <1>3, <1>7, <1>8 DEF CapturePayment

\* The check admits what the order can pay back.
LEMMA CheckEffect ==
  ASSUME ApiInv, NEW w \in Handlers, CheckRefund(w)
  PROVE  Alone(w) /\ Fits(w)' /\ Effect(w)
<1>1. TypeOK /\ Knows(w) /\ Fits(w) /\ RefundLedgerAgrees /\ pc[w] = "check" /\ tx[w] \in TxRows
  BY DEF ApiInv, LedgerInv, CheckRefund, TypeOK
<1>2. PICK o : o = tx[w].order
  OBVIOUS
<1>3. o \in Orders
  BY <1>1, <1>2 DEF Knows, OrderStages, Stages
<1>4. MoneyStands
  BY NoMoney DEF CheckRefund, rows
<1>5. CASE Finish(w)
  BY <1>1, <1>4, <1>5, FinishFree DEF Effect
<1>6. CASE /\ tx[w].amount <= SumCaptured(o) - SumRefunded(o) + Tolerance
           /\ pc' = [pc EXCEPT ![w] = IF payments[tx[w].payment].ref = None THEN "commit" ELSE "call"]
           /\ tx' = [tx EXCEPT ![w].status = "pending"]
  <2>1. Alone(w) /\ pc'[w] \in {"commit", "call"}
    BY <1>1, <1>6 DEF Alone, TypeOK
  <2>2. tx'[w].amount = tx[w].amount /\ tx'[w].order = o
    BY <1>1, <1>2, <1>6 DEF TypeOK, TxRows
  <2>3. tx[w].amount > 0 /\ tx[w].amount \in Nat
    BY <1>1 DEF Fits, RefundStages, TxRows
  <2>4. SumCaptured(o) \in Int /\ SumRefunded(o) = refundedTotal[o] /\ refundedTotal[o] \in Nat
          /\ Tolerance \in Nat
    BY <1>1, <1>3, RemainingType, PaymentNumbers DEF RefundLedgerAgrees, TypeOK
  <2>5. tx[w].amount + refundedTotal[o] <= SumCaptured(o) + Tolerance
    BY <1>6, <2>3, <2>4
  <2>6. tx'[w].amount + refundedTotal'[o] <= SumCaptured(o)' + Tolerance
    BY <1>3, <1>4, <2>2, <2>5 DEF MoneyStands
  <2>7. Fits(w)'
    BY <2>1, <2>2, <2>3, <2>6
    DEF Fits, WebhookStages, PaidStages, RefundedStages, RefundStages
  <2>8. QED BY <1>4, <2>1, <2>7 DEF Effect
<1>7. QED BY <1>2, <1>5, <1>6 DEF CheckRefund, GoTo

\* The provider is asked, whatever it answers.
LEMMA CallEffect ==
  ASSUME ApiInv, NEW w \in Handlers, CallProvider(w)
  PROVE  Alone(w) /\ Fits(w)' /\ Effect(w)
<1>1. TypeOK /\ Fits(w) /\ tx[w] \in TxRows /\ pc[w] = "call"
  BY DEF ApiInv, LedgerInv, CallProvider, TypeOK
<1>2. UNCHANGED <<payments, refundedTotal>>
  BY DEF CallProvider, rows
<1>3. /\ pc' = [pc EXCEPT ![w] = "commit"]
      /\ \/ tx' = [tx EXCEPT ![w].status = "failed"]
         \/ \E s \in AcceptedStatus :
              tx' = [tx EXCEPT ![w].status = s, ![w].ref = <<"refund", Len(returned) + 1>>]
  BY DEF CallProvider, GoTo
<1>4. Alone(w) /\ pc'[w] = "commit"
  BY <1>1, <1>3 DEF Alone, TypeOK
<1>5. tx'[w].amount = tx[w].amount /\ tx'[w].order = tx[w].order
  BY ZenonT(60), <1>1, <1>3 DEF TypeOK, TxRows
<1>6. PICK o : o = tx[w].order
  OBVIOUS
<1>7. o \in Orders
  BY <1>1, <1>6 DEF ApiInv, LedgerInv, Knows, OrderStages, Stages
<1>8. MoneyStands
  BY <1>2, NoMoney
<1>9. tx[w].amount > 0 /\ tx[w].amount + refundedTotal[o] <= SumCaptured(o) + Tolerance
  BY <1>1, <1>6 DEF Fits, RefundStages
<1>10. tx'[w].amount + refundedTotal'[o] <= SumCaptured(o)' + Tolerance
  BY <1>5, <1>7, <1>8, <1>9 DEF MoneyStands
<1>11. Fits(w)'
  BY <1>4, <1>5, <1>6, <1>9, <1>10 DEF Fits, WebhookStages, PaidStages, RefundedStages
<1>12. QED BY <1>4, <1>8, <1>11 DEF Effect

\* The refund that fitted is booked.
LEMMA CommitEffect ==
  ASSUME ApiInv, NEW w \in Handlers, CommitRefund(w)
  PROVE  Alone(w) /\ Fits(w)' /\ Effect(w)
<1>1. TypeOK /\ Knows(w) /\ Fits(w) /\ tx[w] \in TxRows /\ pc[w] = "commit" /\ Finish(w)
  BY DEF ApiInv, LedgerInv, CommitRefund, TypeOK
<1>2. Alone(w) /\ Fits(w)'
  BY <1>1, FinishFree
<1>3. PICK o : o = tx[w].order
  OBVIOUS
<1>4. o \in Orders /\ lock[o] = w
  BY <1>1, <1>3 DEF Knows, OrderStages, LockedStages, Stages
<1>5. \A q \in Orders : SumCaptured(q)' = SumCaptured(q)
  BY SamePayments DEF CommitRefund
<1>6. CASE refundedTotal' = refundedTotal
  BY <1>2, <1>5, <1>6 DEF MoneyStands, Effect
<1>7. CASE refundedTotal' = [refundedTotal EXCEPT ![o] = @ + tx[w].amount]
  <2>1. /\ tx[w].amount > 0 /\ tx[w].amount \in Nat /\ refundedTotal \in [Orders -> Nat]
        /\ tx[w].amount + refundedTotal[o] <= SumCaptured(o) + Tolerance
    BY <1>1, <1>3 DEF Fits, RefundStages, TypeOK, TxRows
  <2>2. refundedTotal'[o] = refundedTotal[o] + tx[w].amount
    BY <1>4, <1>7, <2>1
  <2>3. refundedTotal' = [refundedTotal EXCEPT ![o] = refundedTotal'[o]]
    BY <1>4, <1>7, <2>1
  <2>4. refundedTotal[o] \in Nat /\ SumCaptured(o) \in Int /\ Tolerance \in Nat
    BY <1>1, <1>4, <2>1, RemainingType, PaymentNumbers
  <2>5. refundedTotal'[o] > refundedTotal[o] /\ refundedTotal'[o] <= SumCaptured(o) + Tolerance
    BY <2>1, <2>2, <2>4
  <2>6. MoneyOut(o)
    BY <1>5, <2>3, <2>5 DEF MoneyOut
  <2>7. QED BY <1>2, <1>4, <2>6 DEF Effect
<1>8. QED BY <1>3, <1>6, <1>7 DEF CommitRefund

\* A delegated charge places the order.
LEMMA PlaceEffect ==
  ASSUME ApiInv, NEW w \in Handlers, PlaceCharged(w)
  PROVE  Alone(w) /\ Fits(w)' /\ Effect(w)
<1>1. TypeOK
  BY DEF ApiInv, LedgerInv
<1>2. MoneyStands
  BY NoMoney DEF PlaceCharged
<1>3. CASE Finish(w)
  BY <1>1, <1>2, <1>3, FinishFree DEF Effect
<1>4. CASE GoTo(w, "lockCreate") /\ UNCHANGED tx
  <2>1. Alone(w) /\ pc'[w] = "lockCreate"
    BY <1>1, <1>4 DEF GoTo, Alone, TypeOK
  <2>2. QED
    BY <1>2, <2>1, FitsFree
    DEF Effect, WebhookStages, PaidStages, RefundedStages, RefundStages
<1>5. QED BY <1>3, <1>4 DEF PlaceCharged

LEMMA CrashEffect ==
  ASSUME ApiInv, NEW w \in Handlers, Crash(w)
  PROVE  Alone(w) /\ Fits(w)' /\ Effect(w)
<1>1. TypeOK /\ Finish(w) /\ MoneyStands
  BY NoMoney DEF ApiInv, LedgerInv, Crash, rows
<1>2. QED BY <1>1, FinishFree DEF Effect

LEMMA StepEffect ==
  ASSUME ApiInv, NEW w \in Handlers, Step(w)
  PROVE  Alone(w) /\ Fits(w)' /\ Effect(w)
<1>1. pc[w] \notin WebhookStages
  BY DEF ApiInv, Fits
<1>2. ~(LookUpOrder(w) \/ AutoComplete(w) \/ SumCaptures(w) \/ InsertPayment(w) \/ CommitPayment(w))
  BY <1>1
  DEF WebhookStages, PaidStages, LookUpOrder, AutoComplete, SumCaptures, InsertPayment, CommitPayment
<1>3. ~(FindPayment(w) \/ LockForReceived(w) \/ RecordRefund(w) \/ StatementFails(w))
  BY <1>1
  DEF WebhookStages, PaidStages, RefundedStages, FindPayment, LockForReceived, LockOrder,
      RecordRefund, StatementFails
<1>4. QED
  BY <1>2, <1>3, LockEffect, CreateEffect, CaptureEffect, CheckEffect, CallEffect, CommitEffect,
     PlaceEffect
  DEF Step

-----------------------------------------------------------------------------
(* The invariant and the refinement.                                       *)

LEMMA InitFits == Init => ApiInv
<1> SUFFICES ASSUME Init PROVE ApiInv
  OBVIOUS
<1>1. \A w \in Handlers : pc[w] = "idle"
  BY DEF Init
<1>2. \A w \in Handlers : Fits(w)
  BY <1>1 DEF Fits, WebhookStages, PaidStages, RefundedStages, RefundStages
<1>3. QED BY <1>2, InitHolds DEF ApiInv

\* A statement of a request keeps the invariant and moves money in one of the three ways.
LEMMA RequestFits ==
  ASSUME ApiInv, "webhook" \notin Ops, NEW w \in Handlers, Request(w) \/ Step(w) \/ Crash(w)
  PROVE  ApiInv' /\ Effect(w)
<1>1. LedgerInv
  BY DEF ApiInv
<1>2. Alone(w) /\ Fits(w)' /\ Effect(w)
  BY BeginEffect, StepEffect, CrashEffect
<1>3. LedgerInv'
  BY <1>1, RequestKeeps, HandlerKeeps, CrashKeeps
<1>4. ASSUME NEW x \in Handlers PROVE Fits(x)'
  <2>1. CASE x = w
    BY <1>2, <2>1
  <2>2. CASE x # w
    BY <1>1, <1>2, <2>2, FitsStays DEF ApiInv, Alone
  <2>3. QED BY <2>1, <2>2
<1>5. QED BY <1>2, <1>3, <1>4 DEF ApiInv

LEMMA OutsideFits ==
  ASSUME ApiInv, Environment \/ UNCHANGED vars
  PROVE  ApiInv' /\ MoneyStands
<1>1. LedgerInv
  BY DEF ApiInv
<1>2. LedgerInv'
  BY <1>1, EnvironmentKeeps, IdleKeeps
<1>3. UNCHANGED local /\ UNCHANGED <<payments, refundedTotal>>
  BY DEF Environment, PlaceOrder, PayAtProvider, RefundAtProvider, vars, rows
<1>4. MoneyStands
  BY <1>3, NoMoney
<1>5. \A x \in Handlers : Fits(x)'
  BY <1>1, <1>3, <1>4, FitsBeside DEF ApiInv
<1>6. QED BY <1>2, <1>4, <1>5 DEF ApiInv

\* The three ways are the steps of OrderLedger, and its stutters.
LEMMA StandsMaps ==
  ASSUME MoneyStands
  PROVE  UNCHANGED <<[o \in Orders |-> SumCaptured(o)], refundedTotal>>
BY DEF MoneyStands

LEMMA InMaps ==
  ASSUME NEW o \in Orders, MoneyIn(o)
  PROVE  Ledger!Capture(o)
<1> DEFINE c == [q \in Orders |-> SumCaptured(q)]
<1>1. c'[o] = SumCaptured(o)' /\ c[o] = SumCaptured(o)
  OBVIOUS
<1>2. c' = [c EXCEPT ![o] = c'[o]]
  BY DEF MoneyIn
<1>3. c'[o] > c[o] /\ c'[o] + refundedTotal[o] <= Total[o] + Tolerance
  BY <1>1 DEF MoneyIn
<1>4. refundedTotal' = refundedTotal
  BY DEF MoneyIn
<1>5. QED BY <1>2, <1>3, <1>4 DEF Ledger!Capture

LEMMA OutMaps ==
  ASSUME NEW o \in Orders, MoneyOut(o)
  PROVE  Ledger!Refund(o)
<1> DEFINE c == [q \in Orders |-> SumCaptured(q)]
<1>1. c[o] = SumCaptured(o) /\ c' = c
  BY DEF MoneyOut
<1>2. QED BY <1>1 DEF MoneyOut, Ledger!Refund

LEMMA InitMaps == Init => Ledger!Init
<1> SUFFICES ASSUME Init PROVE Ledger!Init
  OBVIOUS
<1>1. \A o \in Orders : SumCaptured(o) = 0
  <2>1. \A o \in Orders : CapturedOf(o) = {}
    BY DEF Init, CapturedOf, PaymentsOf
  <2>2. \A f : SumOver(f, {}) = 0
    BY FS_EmptySet DEF SumOver, Units
  <2>3. QED BY <2>1, <2>2 DEF SumCaptured
<1>2. QED BY <1>1 DEF Ledger!Init, Init

\* Without webhooks, and whatever is requested at once, fails or crashes, captures and
\* refunds are the atomic steps of OrderLedger: an order takes in at most its total and
\* gives back at most what it took in (createPayment, capturePayment, createRefund,
\* chargeDelegatedToken).
THEOREM LedgerRefined == "webhook" \notin Ops => (Spec => LedgerSpec)
<1> SUFFICES ASSUME "webhook" \notin Ops PROVE Spec => LedgerSpec
  OBVIOUS
<1>1. ApiInv /\ [Next]_vars
        => ApiInv' /\ [Ledger!Next]_<<[o \in Orders |-> SumCaptured(o)], refundedTotal>>
  <2> SUFFICES ASSUME ApiInv, [Next]_vars
               PROVE  /\ ApiInv'
                      /\ [Ledger!Next]_<<[o \in Orders |-> SumCaptured(o)], refundedTotal>>
    OBVIOUS
  <2>1. CASE Environment \/ UNCHANGED vars
    BY <2>1, OutsideFits, StandsMaps
  <2>2. ASSUME NEW w \in Handlers, Request(w) \/ Step(w) \/ Crash(w)
        PROVE  /\ ApiInv'
               /\ [Ledger!Next]_<<[o \in Orders |-> SumCaptured(o)], refundedTotal>>
    <3>1. ApiInv' /\ Effect(w)
      BY <2>2, RequestFits
    <3>2. CASE MoneyStands
      BY <3>1, <3>2, StandsMaps
    <3>3. ASSUME NEW o \in Orders, MoneyIn(o) \/ MoneyOut(o) PROVE Ledger!Next
      BY <3>3, InMaps, OutMaps DEF Ledger!Next
    <3>4. QED BY <3>1, <3>2, <3>3 DEF Effect
  <2>3. QED BY <2>1, <2>2 DEF Next
<1>2. QED BY InitFits, InitMaps, <1>1, PTL DEF Spec, LedgerSpec, Ledger!Spec
=============================================================================
