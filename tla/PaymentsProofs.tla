--------------------------- MODULE PaymentsProofs ---------------------------
(***************************************************************************)
(* Proofs about Payments, for any number of handlers, orders, keys and     *)
(* amounts, any tolerance, every provider and every choice of faults.      *)
(***************************************************************************)
EXTENDS Payments, SumTheorems

-----------------------------------------------------------------------------
(* The inductive invariant: what a request knows at each statement.        *)

OrderStages == Stages \ {"idle", "lookup", "find"}
PaymentStages == {"lockCapture", "capture", "lockRefund", "check", "call", "commit",
                  "lockReceived", "received"}
LockedStages == {"create", "capture", "check", "call", "commit", "received"}
PaidStages == {"lookup", "complete", "sum", "insert", "paid"}
RefundedStages == {"find", "lockReceived", "received"}

\* A request holds the lock of its order in the stages that follow it, and what it has
\* read of the order there is still so; its payment and its event exist.
Knows(w) ==
  LET t == tx[w] IN
  /\ pc[w] \in OrderStages => t.order \in Orders
  /\ pc[w] \in PaymentStages =>
       t.payment \in 1 .. Len(payments) /\ payments[t.payment].order = t.order
  /\ pc[w] \in LockedStages => lock[t.order] = w /\ t.seen = refundedTotal[t.order]
  /\ pc[w] \in PaidStages => \E c \in 1 .. Len(charges) : t.event = PaidEvent(c)
  /\ pc[w] \in RefundedStages => \E r \in 1 .. Len(returned) : t.event = RefundEvent(r)
  /\ pc[w] \in {"charged", "lockCreate", "create", "paid"} => t.ref \in References \cup {None}
  /\ pc[w] \in {"lockRefund", "check", "call", "commit", "lockReceived", "received"} =>
       t.ref \in RefundReferences \cup {None}
  /\ pc[w] \in {"call", "commit"} => t.status \in RefundStatus

\* A refund is of a payment.
RefundsHavePayments == \A r \in 1 .. Len(refunds) : refunds[r].payment \in 1 .. Len(payments)

LedgerInv ==
  TypeOK /\ RefundsHavePayments /\ (\A w \in Handlers : Knows(w)) /\ RefundLedgerAgrees

-----------------------------------------------------------------------------
(* Requests and their locks.                                               *)

LocalTypes ==
  /\ pc \in [Handlers -> Stages] /\ tx \in [Handlers -> TxRows]
  /\ lock \in [Orders -> Handlers \cup {None}] /\ share \in [Orders -> SUBSET Handlers]

RowTypes ==
  /\ placed \subseteq Orders
  /\ financial \in [Orders -> FinancialStatus]
  /\ refundedTotal \in [Orders -> Nat]
  /\ payments \in Seq(PaymentRows)
  /\ refunds \in Seq(RefundRows)
  /\ guard \subseteq AllEvents

ProviderTypes ==
  /\ charges \in Seq([order : Orders, amount : Nat, token : BOOLEAN])
  /\ returned \in Seq([charge : Nat, amount : Nat, payment : Nat, key : Keys \cup {None}])
  /\ settled \subseteq AllEvents

LEMMA TypeParts == TypeOK <=> LocalTypes /\ RowTypes /\ ProviderTypes
BY DEF TypeOK, LocalTypes, RowTypes, ProviderTypes

\* A step of w leaves the other requests, and the locks they hold, alone.
OnlyMine(w) ==
  /\ \A x \in Handlers \ {w} : pc'[x] = pc[x] /\ tx'[x] = tx[x]
  /\ \A o \in Orders : lock[o] \notin {w, None} => lock'[o] = lock[o]

\* Payments, charges and payments back are never removed, and a payment keeps its order.
Grows ==
  /\ Len(payments') \in Nat /\ Len(payments') >= Len(payments)
  /\ \A p \in 1 .. Len(payments) : payments'[p].order = payments[p].order
  /\ Len(charges') \in Nat /\ Len(charges') >= Len(charges)
  /\ Len(returned') \in Nat /\ Len(returned') >= Len(returned)

LEMMA NothingGrows ==
  ASSUME TypeOK, UNCHANGED <<payments, charges, returned>>
  PROVE  Grows
<1>1. Len(payments) \in Nat /\ Len(charges) \in Nat /\ Len(returned) \in Nat
  BY DEF TypeOK
<1>2. QED BY <1>1 DEF Grows

\* What a request knows survives the steps of the others, unless they write the total of
\* an order that it has locked.
LEMMA OthersKnow ==
  ASSUME TypeOK, NEW x \in Handlers, Knows(x), pc'[x] = pc[x], tx'[x] = tx[x], Grows,
         \A o \in Orders : lock[o] = x => lock'[o] = x /\ refundedTotal'[o] = refundedTotal[o]
  PROVE  Knows(x)'
<1> DEFINE t == tx[x]
<1>1. LockedStages \subseteq OrderStages
  BY DEF LockedStages, OrderStages, Stages
<1>2. pc[x] \in LockedStages => t.order \in Orders /\ lock[t.order] = x
  BY <1>1 DEF Knows
<1>3. pc[x] \in LockedStages => lock'[t.order] = x /\ t.seen = refundedTotal'[t.order]
  BY <1>2 DEF Knows
<1>4. Len(payments) \in Nat /\ Len(charges) \in Nat /\ Len(returned) \in Nat
  BY DEF TypeOK
<1>5. pc[x] \in PaymentStages =>
        t.payment \in 1 .. Len(payments') /\ payments'[t.payment].order = t.order
  BY <1>4 DEF Knows, Grows
<1>6. pc[x] \in PaidStages => \E c \in 1 .. Len(charges') : t.event = PaidEvent(c)
  BY <1>4 DEF Knows, Grows
<1>7. pc[x] \in RefundedStages => \E r \in 1 .. Len(returned') : t.event = RefundEvent(r)
  BY <1>4 DEF Knows, Grows
<1>8. QED BY <1>3, <1>5, <1>6, <1>7 DEF Knows, PaidEvent, RefundEvent

LEMMA NoTxType == NoTx \in TxRows
BY DEF NoTx, TxRows

\* COMMIT or ROLLBACK: the request knows nothing any more.
LEMMA FinishLocal ==
  ASSUME TypeOK, NEW w \in Handlers, Finish(w)
  PROVE  LocalTypes' /\ OnlyMine(w) /\ Knows(w)'
<1>1. /\ pc \in [Handlers -> Stages] /\ tx \in [Handlers -> TxRows]
      /\ lock \in [Orders -> Handlers \cup {None}] /\ share \in [Orders -> SUBSET Handlers]
  BY DEF TypeOK
<1>2. pc' = [pc EXCEPT ![w] = "idle"] /\ tx' = [tx EXCEPT ![w] = NoTx]
  BY DEF Finish, GoTo
<1>3. /\ lock' = [o \in Orders |-> IF lock[o] = w THEN None ELSE lock[o]]
      /\ share' = [o \in Orders |-> share[o] \ {w}]
  BY DEF Finish, Release
<1>4. LocalTypes'
  <2>1. pc' \in [Handlers -> Stages] /\ tx' \in [Handlers -> TxRows]
    BY <1>1, <1>2, NoTxType DEF Stages
  <2>2. lock' \in [Orders -> Handlers \cup {None}] /\ share' \in [Orders -> SUBSET Handlers]
    BY <1>1, <1>3
  <2>3. QED BY <2>1, <2>2 DEF LocalTypes
<1>5. OnlyMine(w)
  BY <1>1, <1>2, <1>3 DEF OnlyMine
<1>6. pc'[w] = "idle"
  BY <1>1, <1>2
<1>7. QED
  BY <1>4, <1>5, <1>6
  DEF Knows, OrderStages, PaymentStages, LockedStages, PaidStages, RefundedStages

\* The next statement of w: types follow from those of its new transaction t.
LEMMA MoveLocal ==
  ASSUME TypeOK, NEW w \in Handlers, NEW s \in Stages, NEW t \in TxRows,
         pc' = [pc EXCEPT ![w] = s], tx' = [tx EXCEPT ![w] = t]
  PROVE  /\ pc' \in [Handlers -> Stages] /\ tx' \in [Handlers -> TxRows]
         /\ pc'[w] = s /\ tx'[w] = t
         /\ \A x \in Handlers \ {w} : pc'[x] = pc[x] /\ tx'[x] = tx[x]
BY DEF TypeOK

-----------------------------------------------------------------------------
(* Rows, and the sum of the refunds.                                       *)

\* The refunds of an order are finitely many, of integer amounts.
LEMMA RefundsFinite ==
  ASSUME TypeOK, NEW o \in Orders
  PROVE  /\ IsFiniteSet(LiveRefundsOf(o)) /\ LiveRefundsOf(o) \subseteq 1 .. Len(refunds)
         /\ \A r \in 1 .. Len(refunds) : RefundAmounts[r] \in Int
<1>1. Len(refunds) \in Nat /\ \A r \in 1 .. Len(refunds) : refunds[r] \in RefundRows
  BY DEF TypeOK
<1>2. IsFiniteSet(1 .. Len(refunds))
  BY <1>1, FS_Interval
<1>3. LiveRefundsOf(o) \subseteq 1 .. Len(refunds)
  BY DEF LiveRefundsOf, RefundsOf
<1>4. IsFiniteSet(LiveRefundsOf(o))
  BY <1>2, <1>3, FS_Subset
<1>5. \A r \in 1 .. Len(refunds) : RefundAmounts[r] \in Int
  BY <1>1 DEF RefundAmounts, RefundRows
<1>6. QED BY <1>3, <1>4, <1>5

\* Steps that neither record a refund nor write total_refunded keep the ledger.
LEMMA LedgerSame ==
  ASSUME TypeOK, RefundsHavePayments, RefundLedgerAgrees, Grows,
         UNCHANGED <<refunds, refundedTotal>>
  PROVE  RefundsHavePayments' /\ RefundLedgerAgrees'
<1>1. Len(payments) \in Nat
  BY DEF TypeOK
<1>2. RefundsHavePayments'
  BY <1>1 DEF RefundsHavePayments, Grows
<1>3. ASSUME NEW o \in Orders PROVE refundedTotal'[o] = SumRefunded(o)'
  <2>1. LiveRefundsOf(o)' = LiveRefundsOf(o)
    BY DEF LiveRefundsOf, RefundsOf, RefundsHavePayments, Grows
  <2>2. RefundAmounts' = RefundAmounts
    BY DEF RefundAmounts
  <2>3. QED BY <2>1, <2>2 DEF SumRefunded, RefundLedgerAgrees
<1>4. QED BY <1>2, <1>3 DEF RefundLedgerAgrees

\* A refund of order o is appended, and counted unless it has failed.
Recorded(o, row) ==
  /\ row \in RefundRows
  /\ row.payment \in 1 .. Len(payments) /\ payments[row.payment].order = o
  /\ refunds' = Append(refunds, row)
  /\ refundedTotal' = [refundedTotal EXCEPT ![o] =
                         @ + (IF row.status = "failed" THEN 0 ELSE row.amount)]

LEMMA LedgerAppend ==
  ASSUME TypeOK, RefundsHavePayments, RefundLedgerAgrees, Grows,
         NEW o \in Orders, NEW row, Recorded(o, row)
  PROVE  RefundsHavePayments' /\ RefundLedgerAgrees'
<1> DEFINE n == Len(refunds) + 1
<1>1. Len(payments) \in Nat /\ Len(refunds) \in Nat /\ refundedTotal \in [Orders -> Nat]
  BY DEF TypeOK
<1>2. /\ Len(refunds') = n /\ refunds'[n] = row
      /\ \A r \in 1 .. Len(refunds) : refunds'[r] = refunds[r]
  BY DEF Recorded, TypeOK
<1>3. row.payment \in 1 .. Len(payments) /\ payments[row.payment].order = o
        /\ row.amount \in Nat
  BY DEF Recorded, RefundRows
<1>4. \A r \in 1 .. n : r = n \/ r \in 1 .. Len(refunds)
  BY <1>1
<1>5. RefundsHavePayments'
  BY SMTT(30), <1>1, <1>2, <1>3, <1>4 DEF RefundsHavePayments, Grows
<1>6. \A r \in 1 .. Len(refunds) :
        payments'[refunds'[r].payment].order = payments[refunds[r].payment].order
  BY <1>2 DEF RefundsHavePayments, Grows
<1>7. payments'[row.payment].order = o
  BY <1>3 DEF Grows
<1>8. \A r \in 1 .. Len(refunds) : RefundAmounts'[r] = RefundAmounts[r]
  BY <1>1, <1>2 DEF RefundAmounts
<1>9. RefundAmounts'[n] = row.amount
  BY <1>1, <1>2 DEF RefundAmounts
<1>10. ASSUME NEW q \in Orders PROVE refundedTotal'[q] = SumRefunded(q)'
  <2> DEFINE S == LiveRefundsOf(q)
  <2>1. /\ IsFiniteSet(S) /\ S \subseteq 1 .. Len(refunds)
        /\ \A r \in 1 .. Len(refunds) : RefundAmounts[r] \in Int
    BY RefundsFinite
  <2>2. n \notin S
    BY <1>1, <2>1
  <2>3. LiveRefundsOf(q)' = IF q = o /\ row.status # "failed" THEN S \cup {n} ELSE S
    <3>1. \A r \in 1 .. Len(refunds) : r \in LiveRefundsOf(q)' <=> r \in S
      BY <1>1, <1>2, <1>6 DEF LiveRefundsOf, RefundsOf
    <3>2. n \in LiveRefundsOf(q)' <=> q = o /\ row.status # "failed"
      BY <1>1, <1>2, <1>7 DEF LiveRefundsOf, RefundsOf
    <3>3. LiveRefundsOf(q)' \subseteq 1 .. n
      BY <1>2 DEF LiveRefundsOf, RefundsOf
    <3>4. S \subseteq 1 .. n /\ n \in 1 .. n
      BY <1>1, <2>1
    <3>5. \A r \in 1 .. n :
            r \in LiveRefundsOf(q)' <=> r \in S \/ (r = n /\ q = o /\ row.status # "failed")
      BY <3>1, <3>2, <1>4, <2>2
    <3> HIDE DEF S, n
    <3>6. QED BY <3>3, <3>4, <3>5
  <2>4. SumOver(RefundAmounts', S) = SumOver(RefundAmounts, S)
    <3>1. \A r \in S : RefundAmounts'[r] = RefundAmounts[r]
      BY <2>1, <1>8
    <3> HIDE DEF S
    <3>2. QED BY <3>1, SumSame
  <2>5. SumOver(RefundAmounts', S \cup {n}) = SumOver(RefundAmounts', S) + row.amount
    <3>1. \A r \in S \cup {n} : RefundAmounts'[r] \in Int
      BY <2>1, <1>3, <1>8, <1>9
    <3>2. IsFiniteSet(S) /\ n \notin S
      BY <2>1, <2>2
    <3> DEFINE g == RefundAmounts'
    <3>3. \A r \in S \cup {n} : g[r] \in Int
      BY <3>1
    <3> HIDE DEF S, n, g
    <3>4. SumOver(g, S \cup {n}) = SumOver(g, S) + g[n]
      BY <3>2, <3>3, SumStep
    <3>5. QED BY <3>4, <1>9 DEF g
  <2>6. refundedTotal[q] = SumOver(RefundAmounts, S)
    BY DEF RefundLedgerAgrees, SumRefunded
  <2>7. refundedTotal'[q] = IF q = o /\ row.status # "failed"
                            THEN refundedTotal[q] + row.amount ELSE refundedTotal[q]
    BY <1>1, <1>3 DEF Recorded
  <2>8. SumRefunded(q)' = SumOver(RefundAmounts', LiveRefundsOf(q)')
    BY DEF SumRefunded
  <2> HIDE DEF S, n
  <2>9. QED BY <2>3, <2>4, <2>5, <2>6, <2>7, <2>8
<1>11. QED BY <1>5, <1>10 DEF RefundLedgerAgrees

-----------------------------------------------------------------------------
(* How the invariant is shown for a statement of request w.                *)

LEMMA StepKeeps ==
  ASSUME LedgerInv, NEW w \in Handlers, LocalTypes', RowTypes', ProviderTypes',
         OnlyMine(w), Grows, Knows(w)',
         \A o \in Orders : lock[o] \notin {w, None} => refundedTotal'[o] = refundedTotal[o],
         RefundsHavePayments', RefundLedgerAgrees'
  PROVE  LedgerInv'
<1>1. TypeOK'
  BY TypeParts DEF LocalTypes, RowTypes, ProviderTypes, TypeOK
<1>2. ASSUME NEW x \in Handlers \ {w} PROVE Knows(x)'
  <2>1. pc'[x] = pc[x] /\ tx'[x] = tx[x]
    BY DEF OnlyMine
  <2>2. \A o \in Orders : lock[o] = x => lock[o] \notin {w, None}
    BY PaymentSets
  <2>3. \A o \in Orders : lock[o] = x => lock'[o] = x /\ refundedTotal'[o] = refundedTotal[o]
    BY <2>2 DEF OnlyMine
  <2>4. TypeOK /\ Knows(x)
    BY DEF LedgerInv
  <2>5. QED BY <2>1, <2>3, <2>4, OthersKnow
<1>3. QED BY <1>1, <1>2 DEF LedgerInv

\* Request w goes on to stage s with transaction t.
Moves(w, s, t) ==
  /\ s \in Stages /\ t \in TxRows
  /\ pc' = [pc EXCEPT ![w] = s] /\ tx' = [tx EXCEPT ![w] = t]

\* The rows that only refunds write.
Untouched == UNCHANGED <<refunds, refundedTotal>>

LEMMA MoveKeeps ==
  ASSUME LedgerInv, NEW w \in Handlers, NEW s, NEW t, Moves(w, s, t),
         lock' \in [Orders -> Handlers \cup {None}], share' \in [Orders -> SUBSET Handlers],
         \A o \in Orders : lock[o] \notin {w, None} => lock'[o] = lock[o],
         RowTypes', ProviderTypes', Grows, Untouched, Knows(w)'
  PROVE  LedgerInv'
<1>1. TypeOK /\ RefundsHavePayments /\ RefundLedgerAgrees
  BY DEF LedgerInv
<1>2. /\ pc' \in [Handlers -> Stages] /\ tx' \in [Handlers -> TxRows]
      /\ \A x \in Handlers \ {w} : pc'[x] = pc[x] /\ tx'[x] = tx[x]
  BY <1>1, MoveLocal DEF Moves
<1>3. LocalTypes' /\ OnlyMine(w)
  BY <1>2 DEF LocalTypes, OnlyMine
<1>4. RefundsHavePayments' /\ RefundLedgerAgrees'
  BY <1>1, LedgerSame DEF Untouched
<1>5. \A o \in Orders : lock[o] \notin {w, None} => refundedTotal'[o] = refundedTotal[o]
  BY DEF Untouched
<1>6. QED BY <1>3, <1>4, <1>5, StepKeeps

\* The same when the statement changes no row and takes no lock.
LEMMA ReadKeeps ==
  ASSUME LedgerInv, NEW w \in Handlers, NEW s, NEW t, Moves(w, s, t),
         UNCHANGED <<rows, provider, lock, share>>, Knows(w)'
  PROVE  LedgerInv'
<1>1. LocalTypes /\ RowTypes /\ ProviderTypes /\ TypeOK
  BY TypeParts DEF LedgerInv
<1>2. RowTypes' /\ ProviderTypes' /\ Untouched
  BY <1>1 DEF RowTypes, ProviderTypes, rows, provider, Untouched
<1>3. Grows
  BY <1>1, NothingGrows DEF rows, provider
<1>4. /\ lock' \in [Orders -> Handlers \cup {None}] /\ share' \in [Orders -> SUBSET Handlers]
      /\ \A o \in Orders : lock[o] \notin {w, None} => lock'[o] = lock[o]
  BY <1>1 DEF LocalTypes
<1>5. QED BY <1>2, <1>3, <1>4, MoveKeeps

\* The request ends without a refund.
LEMMA EndKeeps ==
  ASSUME LedgerInv, NEW w \in Handlers, Finish(w), RowTypes', ProviderTypes', Grows, Untouched
  PROVE  LedgerInv'
<1>1. TypeOK /\ RefundsHavePayments /\ RefundLedgerAgrees
  BY DEF LedgerInv
<1>2. LocalTypes' /\ OnlyMine(w) /\ Knows(w)'
  BY <1>1, FinishLocal
<1>3. RefundsHavePayments' /\ RefundLedgerAgrees'
  BY <1>1, LedgerSame DEF Untouched
<1>4. \A o \in Orders : lock[o] \notin {w, None} => refundedTotal'[o] = refundedTotal[o]
  BY DEF Untouched
<1>5. QED BY <1>2, <1>3, <1>4, StepKeeps

\* The request ends and the rows stay as they are: a refusal, a replay, a crash.
LEMMA RefusalKeeps ==
  ASSUME LedgerInv, NEW w \in Handlers, Finish(w), UNCHANGED <<rows, charges, returned>>,
         settled' \subseteq AllEvents
  PROVE  LedgerInv'
<1>1. RowTypes /\ ProviderTypes /\ TypeOK
  BY TypeParts DEF LedgerInv
<1>2. RowTypes' /\ ProviderTypes' /\ Untouched
  BY <1>1 DEF RowTypes, ProviderTypes, rows, Untouched
<1>3. Grows
  BY <1>1, NothingGrows DEF rows
<1>4. QED BY <1>2, <1>3, EndKeeps

\* The rows, one by one.
LEMMA RowShapes ==
  ASSUME TypeOK
  PROVE  /\ Len(payments) \in Nat /\ Len(refunds) \in Nat
         /\ Len(charges) \in Nat /\ Len(returned) \in Nat
         /\ \A p \in 1 .. Len(payments) : payments[p] \in PaymentRows
         /\ \A r \in 1 .. Len(refunds) : refunds[r] \in RefundRows
         /\ \A c \in 1 .. Len(charges) : charges[c].order \in Orders /\ charges[c].amount \in Nat
         /\ \A r \in 1 .. Len(returned) : returned[r].amount \in Nat
<1>1. /\ payments \in Seq(PaymentRows) /\ refunds \in Seq(RefundRows)
      /\ charges \in Seq([order : Orders, amount : Nat, token : BOOLEAN])
      /\ returned \in Seq([charge : Nat, amount : Nat, payment : Nat, key : Keys \cup {None}])
  BY DEF TypeOK
<1>2. \A p \in 1 .. Len(payments) : payments[p] \in PaymentRows
  BY <1>1
<1>3. \A r \in 1 .. Len(refunds) : refunds[r] \in RefundRows
  BY <1>1
<1> DEFINE C == [order : Orders, amount : Nat, token : BOOLEAN]
           R == [charge : Nat, amount : Nat, payment : Nat, key : Keys \cup {None}]
<1>4. charges \in Seq(C) /\ returned \in Seq(R)
  BY <1>1
<1>5. /\ \A c \in 1 .. Len(charges) : charges[c] \in C
      /\ \A r \in 1 .. Len(returned) : returned[r] \in R
  <2> HIDE DEF C, R
  <2>1. QED BY <1>4
<1>6. QED BY <1>1, <1>2, <1>3, <1>4, <1>5

\* What pc and tx are after a move.
LEMMA After ==
  ASSUME TypeOK, NEW w \in Handlers, NEW s, NEW t, Moves(w, s, t)
  PROVE  pc'[w] = s /\ tx'[w] = t
BY MoveLocal DEF Moves

-----------------------------------------------------------------------------
(* Requests that begin.                                                    *)

LEMMA RequestCreateKeeps ==
  ASSUME LedgerInv, NEW w \in Handlers, NEW o \in Orders, NEW a \in Amounts,
         NEW ref \in References \cup {None}, RequestCreate(w, o, a, ref)
  PROVE  LedgerInv'
<1> DEFINE t == [NoTx EXCEPT !.op = "create", !.order = o, !.amount = a, !.ref = ref]
<1>1. t \in TxRows /\ t.order = o /\ t.ref = ref
  BY PaymentNumbers DEF NoTx, TxRows, Operations
<1>2. Moves(w, "lockCreate", t)
  BY <1>1 DEF RequestCreate, Start, GoTo, Moves, Stages
<1>3. UNCHANGED <<rows, provider, lock, share>>
  BY DEF RequestCreate, Start
<1> HIDE DEF t
<1>4. pc'[w] = "lockCreate" /\ tx'[w] = t
  BY <1>2, After DEF LedgerInv
<1>5. Knows(w)'
  BY <1>1, <1>4 DEF Knows, OrderStages, PaymentStages, LockedStages, PaidStages, RefundedStages
<1>6. QED BY <1>2, <1>3, <1>5, ReadKeeps

LEMMA RequestCaptureKeeps ==
  ASSUME LedgerInv, NEW w \in Handlers, NEW p \in 1 .. Len(payments), RequestCapture(w, p)
  PROVE  LedgerInv'
<1> DEFINE t == [NoTx EXCEPT !.op = "capture", !.order = payments[p].order, !.payment = p]
<1>1. payments[p].order \in Orders /\ Len(payments) \in Nat /\ p \in Nat
  BY RowShapes DEF LedgerInv, PaymentRows
<1>2. t \in TxRows /\ t.order = payments[p].order /\ t.payment = p
  BY <1>1 DEF NoTx, TxRows, Operations
<1>3. Moves(w, "lockCapture", t)
  BY <1>2 DEF RequestCapture, Start, GoTo, Moves, Stages
<1>4. UNCHANGED <<rows, provider, lock, share>>
  BY DEF RequestCapture, Start
<1> HIDE DEF t
<1>5. pc'[w] = "lockCapture" /\ tx'[w] = t /\ payments' = payments
  BY <1>3, <1>4, After DEF LedgerInv, rows
<1>6. Knows(w)'
  BY <1>1, <1>2, <1>5
  DEF Knows, OrderStages, PaymentStages, LockedStages, PaidStages, RefundedStages
<1>7. QED BY <1>3, <1>4, <1>6, ReadKeeps

LEMMA RequestRefundKeeps ==
  ASSUME LedgerInv, NEW w \in Handlers, NEW p \in 1 .. Len(payments), NEW a \in Amounts,
         NEW k \in Keys \cup {None}, RequestRefund(w, p, a, k)
  PROVE  LedgerInv'
<1> DEFINE t == [NoTx EXCEPT !.op = "refund", !.payment = p, !.amount = a, !.key = k,
                             !.order = payments[p].order]
<1>1. payments[p].order \in Orders /\ Len(payments) \in Nat /\ p \in Nat
  BY RowShapes DEF LedgerInv, PaymentRows
<1>2. t \in TxRows /\ t.order = payments[p].order /\ t.payment = p /\ t.ref = None
  BY <1>1, PaymentNumbers DEF NoTx, TxRows, Operations
<1>3. Moves(w, "lockRefund", t)
  BY <1>2 DEF RequestRefund, Start, GoTo, Moves, Stages
<1>4. UNCHANGED <<rows, provider, lock, share>>
  BY DEF RequestRefund, Start
<1> HIDE DEF t
<1>5. pc'[w] = "lockRefund" /\ tx'[w] = t /\ payments' = payments
  BY <1>3, <1>4, After DEF LedgerInv, rows
<1>6. Knows(w)'
  BY <1>1, <1>2, <1>5
  DEF Knows, OrderStages, PaymentStages, LockedStages, PaidStages, RefundedStages
<1>7. QED BY <1>3, <1>4, <1>6, ReadKeeps

LEMMA ChargeTokenKeeps ==
  ASSUME LedgerInv, NEW w \in Handlers, NEW o \in Orders, ChargeToken(w, o)
  PROVE  LedgerInv'
<1>1. TypeOK /\ RowTypes /\ LocalTypes /\ ProviderTypes /\ Total[o] \in Nat
  BY TypeParts, PaymentNumbers DEF LedgerInv
<1>2. /\ charges' \in Seq([order : Orders, amount : Nat, token : BOOLEAN])
      /\ Len(charges') >= Len(charges) /\ Len(charges') \in Nat
  <2>1. CASE charges' = charges
    BY <1>1, <2>1 DEF ProviderTypes
  <2>2. CASE charges' = Append(charges, [order |-> o, amount |-> Total[o], token |-> TRUE])
    BY <1>1, <2>2 DEF ProviderTypes
  <2>3. QED BY <2>1, <2>2 DEF ChargeToken
<1>3. PICK c \in 1 .. Len(charges') :
        Start(w, "charged", [NoTx EXCEPT !.op = "delegated", !.order = o,
                                         !.amount = Total[o], !.ref = <<"intent", c>>])
  BY DEF ChargeToken
<1> DEFINE t == [NoTx EXCEPT !.op = "delegated", !.order = o,
                             !.amount = Total[o], !.ref = <<"intent", c>>]
<1>4. t \in TxRows /\ t.order = o /\ t.ref \in References
  <2>1. c \in Nat /\ <<"intent", c>> \in References
    BY <1>2 DEF References
  <2>2. QED BY <1>1, <2>1 DEF NoTx, TxRows, Operations
<1>5. Moves(w, "charged", t) /\ UNCHANGED <<lock, share>>
  BY <1>3, <1>4 DEF Start, GoTo, Moves, Stages
<1>6. UNCHANGED <<rows, returned, settled>>
  BY DEF ChargeToken
<1> HIDE DEF t
<1>7. pc'[w] = "charged" /\ tx'[w] = t
  BY <1>1, <1>5, After
<1>8. Knows(w)'
  BY <1>4, <1>7 DEF Knows, OrderStages, PaymentStages, LockedStages, PaidStages, RefundedStages
<1>9. RowTypes' /\ ProviderTypes' /\ Untouched
  BY <1>1, <1>2, <1>6 DEF RowTypes, ProviderTypes, rows, Untouched
<1>10. Grows
  BY <1>1, <1>2, <1>6 DEF Grows, rows, TypeOK
<1>11. lock' \in [Orders -> Handlers \cup {None}] /\ share' \in [Orders -> SUBSET Handlers]
  BY <1>1, <1>5 DEF LocalTypes
<1>12. QED BY <1>5, <1>8, <1>9, <1>10, <1>11, MoveKeeps

\* Whatever the replay guard says.
LEMMA ReceiveEventKeeps ==
  ASSUME LedgerInv, NEW w \in Handlers, NEW e \in Events, ReceiveEvent(w, e)
  PROVE  LedgerInv'
<1>1. TypeOK /\ RowTypes /\ LocalTypes /\ ProviderTypes
  BY TypeParts DEF LedgerInv
<1>2. e \in AllEvents
  <2>1. Len(charges) \in Nat /\ Len(returned) \in Nat
    BY <1>1 DEF TypeOK
  <2>2. QED BY <2>1 DEF Events, PaidEvent, RefundEvent, AllEvents
<1>3. guard' \subseteq AllEvents /\ settled' \subseteq AllEvents
  BY <1>1, <1>2 DEF ReceiveEvent, TypeOK, GuardKey
<1>4. UNCHANGED <<placed, financial, refundedTotal, payments, refunds, charges, returned>>
  BY DEF ReceiveEvent
<1>5. RowTypes' /\ ProviderTypes' /\ Untouched /\ Grows
  BY <1>1, <1>3, <1>4, NothingGrows DEF RowTypes, ProviderTypes, Untouched
<1> DEFINE s == IF e.kind = "paid" THEN "lookup" ELSE "find"
           t == [NoTx EXCEPT !.op = "webhook", !.event = e]
<1>6. CASE Start(w, s, t)
  <2>1. t \in TxRows /\ t.event = e
    BY <1>2 DEF NoTx, TxRows, Operations
  <2>2. Moves(w, s, t) /\ UNCHANGED <<lock, share>>
    BY <1>6, <2>1 DEF Start, GoTo, Moves, Stages
  <2>3. /\ s = "lookup" => \E c \in 1 .. Len(charges) : e = PaidEvent(c)
        /\ s = "find" => \E r \in 1 .. Len(returned) : e = RefundEvent(r)
        /\ s \in {"lookup", "find"}
    BY DEF Events, PaidEvent, RefundEvent
  <2> HIDE DEF s, t
  <2>4. pc'[w] = s /\ tx'[w] = t
    BY <1>1, <2>2, After
  <2>5. Knows(w)'
    BY <1>4, <2>1, <2>3, <2>4
    DEF Knows, OrderStages, PaymentStages, LockedStages, PaidStages, RefundedStages,
        PaidEvent, RefundEvent
  <2>6. lock' \in [Orders -> Handlers \cup {None}] /\ share' \in [Orders -> SUBSET Handlers]
    BY <1>1, <2>2 DEF LocalTypes
  <2>7. QED BY <1>5, <2>2, <2>5, <2>6, MoveKeeps
<1>7. CASE UNCHANGED local
  <2>1. LocalTypes' /\ OnlyMine(w)
    BY <1>1, <1>7 DEF local, LocalTypes, OnlyMine
  <2>2. Knows(w)
    BY DEF LedgerInv
  <2>3. Knows(w)'
    BY <1>1, <1>4, <1>5, <1>7, <2>2, OthersKnow DEF local
  <2>4. RefundsHavePayments' /\ RefundLedgerAgrees'
    BY <1>1, <1>5, LedgerSame DEF LedgerInv, Untouched
  <2>5. QED BY <1>4, <1>5, <2>1, <2>3, <2>4, StepKeeps
<1>8. QED BY <1>6, <1>7 DEF ReceiveEvent

-----------------------------------------------------------------------------
(* The lock of the order.                                                  *)

LEMMA LockKeeps ==
  ASSUME LedgerInv, NEW w \in Handlers, NEW from, NEW to, LockOrder(w, from, to),
         \/ from = "lockCreate" /\ to = "create"
         \/ from = "lockCapture" /\ to = "capture"
         \/ from = "lockRefund" /\ to = "check"
         \/ from = "lockReceived" /\ to = "received"
  PROVE  LedgerInv'
<1> DEFINE o == tx[w].order
           t == [tx[w] EXCEPT !.seen = refundedTotal[o]]
<1>1. TypeOK /\ RowTypes /\ LocalTypes /\ ProviderTypes /\ Knows(w)
  BY TypeParts DEF LedgerInv
<1>2. /\ pc[w] = from /\ lock[o] = None /\ lock' = [lock EXCEPT ![o] = w]
      /\ pc' = [pc EXCEPT ![w] = to] /\ tx' = [tx EXCEPT ![w].seen = refundedTotal[o]]
      /\ UNCHANGED <<rows, provider, share>>
  BY DEF LockOrder, GoTo
<1>3. o \in Orders
  BY <1>1, <1>2 DEF Knows, OrderStages, Stages
<1>4. tx[w] \in TxRows /\ refundedTotal[o] \in Nat
  BY <1>1, <1>3 DEF LocalTypes, RowTypes
<1>5. /\ t \in TxRows /\ t.order = o /\ t.payment = tx[w].payment /\ t.event = tx[w].event
      /\ t.ref = tx[w].ref /\ t.seen = refundedTotal[o]
  <2> DEFINE n == refundedTotal[o]
  <2>1. n \in Nat
    BY <1>4
  <2> HIDE DEF n
  <2>2. [tx[w] EXCEPT !.seen = n] \in TxRows /\ tx[w].order = o
    BY <1>4, <2>1 DEF TxRows
  <2>3. QED BY <1>4, <2>2 DEF TxRows, n
<1>6. tx' = [tx EXCEPT ![w] = t]
  BY <1>2
<1>7. Moves(w, to, t)
  BY <1>2, <1>5, <1>6 DEF Moves, Stages
<1>8. /\ lock' \in [Orders -> Handlers \cup {None}] /\ share' \in [Orders -> SUBSET Handlers]
      /\ lock'[o] = w /\ \A q \in Orders : lock[q] \notin {w, None} => lock'[q] = lock[q]
  BY <1>1, <1>2, <1>3 DEF LocalTypes
<1>9. RowTypes' /\ ProviderTypes' /\ Untouched /\ refundedTotal' = refundedTotal
        /\ payments' = payments /\ charges' = charges /\ returned' = returned
  BY <1>1, <1>2 DEF RowTypes, ProviderTypes, rows, provider, Untouched
<1>10. Grows
  BY <1>1, <1>9, NothingGrows
<1> HIDE DEF t
<1>11. pc'[w] = to /\ tx'[w] = t
  BY <1>1, <1>7, After
<1>12. Knows(w)'
  BY <1>1, <1>2, <1>3, <1>5, <1>8, <1>9, <1>11
  DEF Knows, OrderStages, PaymentStages, LockedStages, PaidStages, RefundedStages, Stages,
      PaidEvent, RefundEvent
<1>13. QED BY <1>7, <1>8, <1>9, <1>10, <1>12, MoveKeeps

-----------------------------------------------------------------------------
(* createPayment, capturePayment and chargeDelegatedToken.                 *)

LEMMA RemainingType ==
  ASSUME TypeOK, NEW o \in Orders
  PROVE  SumCaptured(o) \in Int /\ SumRefunded(o) \in Int
<1>1. /\ \A p \in 1 .. Len(payments) : PaymentAmounts[p] \in Int
      /\ Len(payments) \in Nat
  BY RowShapes DEF PaymentAmounts, PaymentRows
<1>2. CapturedOf(o) \subseteq 1 .. Len(payments)
  BY DEF CapturedOf, PaymentsOf
<1>3. IsFiniteSet(CapturedOf(o))
  <2>1. IsFiniteSet(1 .. Len(payments))
    BY <1>1, FS_Interval
  <2>2. QED BY <2>1, <1>2, FS_Subset
<1>4. SumCaptured(o) \in Int
  BY <1>1, <1>2, <1>3, SumType DEF SumCaptured
<1>5. SumRefunded(o) \in Int
  BY RefundsFinite, SumType DEF SumRefunded
<1>6. QED BY <1>4, <1>5

\* A payment of an existing order is appended.
LEMMA PaymentAppended ==
  ASSUME LedgerInv, NEW row \in PaymentRows, payments' = Append(payments, row),
         UNCHANGED <<placed, refundedTotal, refunds, guard, charges, returned>>,
         financial' \in [Orders -> FinancialStatus]
  PROVE  /\ RowTypes' /\ Grows /\ Untouched
         /\ Len(payments') = Len(payments) + 1 /\ payments'[Len(payments) + 1] = row
<1>1. TypeOK /\ RowTypes
  BY TypeParts DEF LedgerInv
<1>2. /\ payments' \in Seq(PaymentRows) /\ Len(payments') = Len(payments) + 1
      /\ payments'[Len(payments) + 1] = row
      /\ \A p \in 1 .. Len(payments) : payments'[p] = payments[p]
  BY <1>1 DEF RowTypes
<1>3. RowTypes' /\ Untouched
  BY <1>1, <1>2 DEF RowTypes, Untouched
<1>4. Grows
  BY <1>1, <1>2, RowShapes DEF Grows
<1>5. QED BY <1>2, <1>3, <1>4

\* After createPayment: the API call ends, a delegated charge captures payment p.
LEMMA AfterCreateKeeps ==
  ASSUME LedgerInv, NEW w \in Handlers, NEW p, AfterCreate(w, p), pc[w] = "create",
         RowTypes', ProviderTypes', Grows, Untouched,
         p \in 1 .. Len(payments'), payments'[p].order = tx[w].order
  PROVE  LedgerInv'
<1>1. TypeOK /\ LocalTypes /\ Knows(w)
  BY TypeParts DEF LedgerInv
<1>2. CASE Finish(w)
  BY <1>2, EndKeeps
<1>3. CASE /\ GoTo(w, "lockCapture") /\ tx' = [tx EXCEPT ![w].payment = p]
           /\ Release(w)
  <2> DEFINE t == [tx[w] EXCEPT !.payment = p]
  <2>1. tx[w] \in TxRows /\ p \in Nat
    BY <1>1 DEF LocalTypes, Grows
  <2>2. t \in TxRows /\ t.order = tx[w].order /\ t.payment = p
    BY <2>1 DEF TxRows
  <2>3. Moves(w, "lockCapture", t)
    BY <1>3, <2>2 DEF GoTo, Moves, Stages
  <2>4. /\ lock' \in [Orders -> Handlers \cup {None}] /\ share' \in [Orders -> SUBSET Handlers]
        /\ \A q \in Orders : lock[q] \notin {w, None} => lock'[q] = lock[q]
    BY <1>1, <1>3 DEF LocalTypes, Release
  <2> HIDE DEF t
  <2>5. pc'[w] = "lockCapture" /\ tx'[w] = t
    BY <1>1, <2>3, After
  <2>6. tx[w].order \in Orders
    BY <1>1 DEF Knows, OrderStages, Stages
  <2>7. Knows(w)'
    BY <2>2, <2>5, <2>6
    DEF Knows, OrderStages, PaymentStages, LockedStages, PaidStages, RefundedStages
  <2>8. QED BY <2>3, <2>4, <2>7, MoveKeeps
<1>4. QED BY <1>2, <1>3 DEF AfterCreate

LEMMA CreatePaymentKeeps ==
  ASSUME LedgerInv, NEW w \in Handlers, CreatePayment(w)
  PROVE  LedgerInv'
<1> DEFINE o == tx[w].order
<1>1. TypeOK /\ RowTypes /\ ProviderTypes /\ LocalTypes /\ Knows(w) /\ pc[w] = "create"
  BY TypeParts DEF LedgerInv, CreatePayment
<1>2. /\ o \in Orders /\ tx[w].ref \in References \cup {None} /\ tx[w].amount \in Nat
      /\ tx[w] \in TxRows
  BY <1>1 DEF Knows, OrderStages, Stages, LocalTypes, TxRows
<1>3. UNCHANGED <<placed, financial, refundedTotal, refunds, guard, provider>>
  BY DEF CreatePayment
<1>4. ProviderTypes' /\ financial' \in [Orders -> FinancialStatus]
  BY <1>1, <1>3 DEF ProviderTypes, provider, RowTypes
<1>5. CASE payments' = payments
  <2>1. UNCHANGED <<rows, provider>> /\ settled' \subseteq AllEvents
    BY <1>1, <1>3, <1>5 DEF rows, provider, ProviderTypes
  <2>2. CASE Finish(w)
    BY <2>1, <2>2, RefusalKeeps DEF provider
  <2>3. CASE \E p \in WithRef(o, tx[w].ref) : AfterCreate(w, p)
    <3>1. PICK p \in WithRef(o, tx[w].ref) : AfterCreate(w, p)
      BY <2>3
    <3>2. p \in 1 .. Len(payments') /\ payments'[p].order = tx[w].order
      BY <1>5 DEF WithRef, PaymentsOf
    <3>3. RowTypes' /\ Untouched /\ Grows
      BY <1>1, <2>1, NothingGrows DEF RowTypes, rows, provider, Untouched
    <3>4. QED BY <1>1, <1>4, <3>1, <3>2, <3>3, AfterCreateKeeps
  <2>4. QED
    <3>1. CASE payments' = Append(payments, [order |-> o, amount |-> tx[w].amount,
                                             status |-> "pending", ref |-> tx[w].ref])
      <4>1. Len(payments') = Len(payments) + 1 /\ Len(payments) \in Nat
        BY <1>1, <3>1, RowShapes
      <4>2. QED BY <4>1, <1>5
    <3>2. QED BY <2>2, <2>3, <3>1 DEF CreatePayment
<1>6. CASE /\ payments' = Append(payments, [order |-> o, amount |-> tx[w].amount,
                                            status |-> "pending", ref |-> tx[w].ref])
           /\ AfterCreate(w, Len(payments) + 1)
  <2> DEFINE row == [order |-> o, amount |-> tx[w].amount,
                     status |-> "pending", ref |-> tx[w].ref]
  <2>1. row \in PaymentRows
    BY <1>2 DEF PaymentRows, PaymentStatus
  <2>2. UNCHANGED <<placed, refundedTotal, refunds, guard, charges, returned>>
    BY <1>3 DEF provider
  <2>3. /\ RowTypes' /\ Grows /\ Untouched
        /\ Len(payments') = Len(payments) + 1 /\ payments'[Len(payments) + 1] = row
    BY <1>4, <1>6, <2>1, <2>2, PaymentAppended
  <2>4. Len(payments) + 1 \in 1 .. Len(payments') /\ payments'[Len(payments) + 1].order = tx[w].order
    BY <1>1, <2>3, RowShapes
  <2>5. QED BY <1>1, <1>4, <1>6, <2>3, <2>4, AfterCreateKeeps
<1>7. QED BY <1>5, <1>6 DEF CreatePayment

\* Statuses change, and nothing that the ledger of refunds looks at.
LEMMA StatusesChange ==
  ASSUME LedgerInv, NEW p \in 1 .. Len(payments), NEW s \in PaymentStatus,
         payments' = [payments EXCEPT ![p].status = s]
  PROVE  /\ payments' \in Seq(PaymentRows) /\ Len(payments') = Len(payments)
         /\ \A q \in 1 .. Len(payments) : payments'[q].order = payments[q].order
<1>1. payments \in Seq(PaymentRows) /\ payments[p] \in PaymentRows /\ Len(payments) \in Nat
  BY RowShapes DEF LedgerInv, TypeOK
<1> DEFINE row == [payments[p] EXCEPT !.status = s]
<1>2. row \in PaymentRows /\ row.order = payments[p].order
  BY <1>1 DEF PaymentRows
<1>3. payments' = [payments EXCEPT ![p] = row]
  BY <1>1
<1> HIDE DEF row
<1>4. payments' \in Seq(PaymentRows) /\ Len(payments') = Len(payments)
  BY <1>1, <1>2, <1>3
<1>5. ASSUME NEW q \in 1 .. Len(payments) PROVE payments'[q].order = payments[q].order
  BY <1>1, <1>2, <1>3
<1>6. QED BY <1>4, <1>5

LEMMA CapturePaymentKeeps ==
  ASSUME LedgerInv, NEW w \in Handlers, CapturePayment(w)
  PROVE  LedgerInv'
<1> DEFINE o == tx[w].order
           p == tx[w].payment
<1>1. TypeOK /\ RowTypes /\ ProviderTypes /\ Knows(w) /\ pc[w] = "capture" /\ Finish(w)
  BY TypeParts DEF LedgerInv, CapturePayment
<1>2. o \in Orders /\ p \in 1 .. Len(payments)
  BY <1>1 DEF Knows, OrderStages, PaymentStages, Stages
<1>3. UNCHANGED <<placed, refundedTotal, refunds, guard, provider>>
  BY DEF CapturePayment
<1>4. CASE UNCHANGED <<payments, financial>>
  <2>1. UNCHANGED <<rows, charges, returned>> /\ settled' \subseteq AllEvents
    BY <1>1, <1>3, <1>4 DEF rows, provider, ProviderTypes
  <2>2. QED BY <1>1, <2>1, RefusalKeeps
<1>5. CASE /\ payments' = [payments EXCEPT ![p].status = "captured"]
           /\ financial' \in [Orders -> FinancialStatus]
  <2>1. /\ payments' \in Seq(PaymentRows) /\ Len(payments') = Len(payments)
        /\ \A q \in 1 .. Len(payments) : payments'[q].order = payments[q].order
    BY <1>2, <1>5, StatusesChange DEF PaymentStatus
  <2>2. RowTypes' /\ ProviderTypes' /\ Untouched
    BY <1>1, <1>3, <1>5, <2>1 DEF RowTypes, ProviderTypes, provider, Untouched
  <2>3. Grows
    BY <1>1, <1>3, <2>1, RowShapes DEF Grows, provider
  <2>4. QED BY <1>1, <2>2, <2>3, EndKeeps
<1>6. QED
  <2>1. financial \in [Orders -> FinancialStatus]
    BY <1>1 DEF RowTypes
  <2>2. CASE payments[p].status = "pending" /\ payments[p].amount <= Remaining(w) + Tolerance
    <3>1. payments' = [payments EXCEPT ![p].status = "captured"]
      BY <2>2 DEF CapturePayment
    <3>2. financial' \in [Orders -> FinancialStatus]
      BY <2>1, <2>2, <1>2 DEF CapturePayment, FinancialStatus
    <3>3. QED BY <3>1, <3>2, <1>5
  <2>3. QED BY <2>2, <1>4 DEF CapturePayment

LEMMA PlaceChargedKeeps ==
  ASSUME LedgerInv, NEW w \in Handlers, PlaceCharged(w)
  PROVE  LedgerInv'
<1>1. TypeOK /\ RowTypes /\ ProviderTypes /\ LocalTypes /\ Knows(w) /\ pc[w] = "charged"
  BY TypeParts DEF LedgerInv, PlaceCharged
<1>2. tx[w] \in TxRows /\ tx[w].order \in Orders
  BY <1>1 DEF LocalTypes, Knows, OrderStages, Stages
<1>3. UNCHANGED <<financial, refundedTotal, payments, refunds, guard, provider>>
        /\ placed' \subseteq Orders
  BY <1>1, <1>2 DEF PlaceCharged, RowTypes
<1>4. RowTypes' /\ ProviderTypes' /\ Untouched /\ Grows
  BY <1>1, <1>3, NothingGrows DEF RowTypes, ProviderTypes, provider, Untouched
<1>5. CASE Finish(w)
  BY <1>4, <1>5, EndKeeps
<1>6. CASE GoTo(w, "lockCreate") /\ UNCHANGED <<tx, lock, share>>
  <2>1. Moves(w, "lockCreate", tx[w])
    BY <1>1, <1>2, <1>6 DEF GoTo, Moves, Stages, LocalTypes
  <2>2. pc'[w] = "lockCreate" /\ tx'[w] = tx[w]
    BY <1>1, <2>1, After
  <2>3. Knows(w)'
    BY <1>1, <1>2, <2>2
    DEF Knows, OrderStages, PaymentStages, LockedStages, PaidStages, RefundedStages
  <2>4. /\ lock' \in [Orders -> Handlers \cup {None}] /\ share' \in [Orders -> SUBSET Handlers]
        /\ \A o \in Orders : lock[o] \notin {w, None} => lock'[o] = lock[o]
    BY <1>1, <1>6 DEF LocalTypes
  <2>5. QED BY <1>4, <2>1, <2>3, <2>4, MoveKeeps
<1>7. QED BY <1>5, <1>6 DEF PlaceCharged

-----------------------------------------------------------------------------
(* createRefund.                                                           *)

LEMMA CheckRefundKeeps ==
  ASSUME LedgerInv, NEW w \in Handlers, CheckRefund(w)
  PROVE  LedgerInv'
<1> DEFINE t == [tx[w] EXCEPT !.status = "pending"]
           s == IF payments[tx[w].payment].ref = None THEN "commit" ELSE "call"
<1>1. TypeOK /\ ProviderTypes /\ LocalTypes /\ Knows(w) /\ pc[w] = "check"
  BY TypeParts DEF LedgerInv, CheckRefund
<1>2. UNCHANGED <<rows, provider>>
  BY DEF CheckRefund
<1>3. CASE Finish(w)
  <2>1. UNCHANGED <<rows, charges, returned>> /\ settled' \subseteq AllEvents
    BY <1>1, <1>2 DEF rows, provider, ProviderTypes
  <2>2. QED BY <1>3, <2>1, RefusalKeeps
<1>4. CASE /\ GoTo(w, s) /\ tx' = [tx EXCEPT ![w].status = "pending"]
           /\ UNCHANGED <<lock, share>>
  <2>1. tx[w] \in TxRows
    BY <1>1 DEF LocalTypes
  <2>2. /\ t \in TxRows /\ t.order = tx[w].order /\ t.payment = tx[w].payment
        /\ t.seen = tx[w].seen /\ t.ref = tx[w].ref /\ t.event = tx[w].event
        /\ t.status \in RefundStatus
    BY <2>1 DEF TxRows, RefundStatus
  <2>3. s \in {"call", "commit"}
    OBVIOUS
  <2>4. tx' = [tx EXCEPT ![w] = t]
    BY <1>4
  <2> HIDE DEF s, t
  <2>5. Moves(w, s, t)
    BY <1>4, <2>2, <2>3, <2>4 DEF GoTo, Moves, Stages
  <2>6. pc'[w] = s /\ tx'[w] = t
    BY <1>1, <2>5, After
  <2>7. payments' = payments /\ refundedTotal' = refundedTotal
    BY <1>2 DEF rows
  <2>8. Knows(w)'
    BY <1>1, <1>4, <2>2, <2>3, <2>6, <2>7
    DEF Knows, OrderStages, PaymentStages, LockedStages, PaidStages, RefundedStages, Stages
  <2>9. QED BY <1>2, <1>4, <2>5, <2>8, ReadKeeps
<1>5. QED BY <1>3, <1>4 DEF CheckRefund

LEMMA CallProviderKeeps ==
  ASSUME LedgerInv, NEW w \in Handlers, CallProvider(w)
  PROVE  LedgerInv'
<1>1. TypeOK /\ RowTypes /\ ProviderTypes /\ LocalTypes /\ Knows(w) /\ pc[w] = "call"
  BY TypeParts DEF LedgerInv, CallProvider
<1>2. tx[w] \in TxRows /\ tx[w].ref \in RefundReferences \cup {None}
  BY <1>1 DEF LocalTypes, Knows
<1>3. UNCHANGED <<rows, charges, settled, lock, share>>
  BY DEF CallProvider
<1> DEFINE R == [charge : Nat, amount : Nat, payment : Nat, key : Keys \cup {None}]
<1>4. returned' \in Seq(R) /\ Len(returned') >= Len(returned) /\ Len(returned') \in Nat
  <2>1. returned \in Seq(R)
    BY <1>1 DEF ProviderTypes
  <2>2. CASE returned' = returned
    <3> HIDE DEF R
    <3>1. QED BY <2>1, <2>2
  <2>3. CASE \E c \in 1 .. Len(charges) :
               returned' = Append(returned, [charge |-> c, amount |-> tx[w].amount,
                                             payment |-> tx[w].payment, key |-> tx[w].key])
    <3>1. PICK c \in 1 .. Len(charges) :
             returned' = Append(returned, [charge |-> c, amount |-> tx[w].amount,
                                           payment |-> tx[w].payment, key |-> tx[w].key])
      BY <2>3
    <3> DEFINE row == [charge |-> c, amount |-> tx[w].amount,
                       payment |-> tx[w].payment, key |-> tx[w].key]
    <3>2. c \in Nat
      BY <1>1, RowShapes
    <3>3. row \in R
      BY <1>2, <3>2 DEF TxRows
    <3> HIDE DEF R, row
    <3>4. returned' = Append(returned, row)
      BY <3>1 DEF row
    <3>5. QED BY <2>1, <3>3, <3>4
  <2>4. QED BY <2>2, <2>3 DEF CallProvider, Refundable
<1>5. RowTypes' /\ ProviderTypes' /\ Untouched
  BY <1>1, <1>3, <1>4 DEF RowTypes, ProviderTypes, rows, Untouched
<1>6. Grows
  BY <1>1, <1>3, <1>4, RowShapes DEF Grows, rows
<1>7. PICK st \in RefundStatus, ref \in RefundReferences \cup {None} :
        /\ pc' = [pc EXCEPT ![w] = "commit"]
        /\ tx' = [tx EXCEPT ![w].status = st, ![w].ref = ref]
  <2>1. CASE GoTo(w, "commit") /\ tx' = [tx EXCEPT ![w].status = "failed"]
    <3>1. tx' = [tx EXCEPT ![w].status = "failed", ![w].ref = tx[w].ref]
      BY <1>1, <1>2, <2>1 DEF LocalTypes, TxRows
    <3>2. "failed" \in RefundStatus
      BY DEF RefundStatus
    <3>3. QED BY <1>2, <2>1, <3>1, <3>2 DEF GoTo
  <2>2. CASE \E s \in AcceptedStatus :
               /\ GoTo(w, "commit")
               /\ tx' = [tx EXCEPT ![w].status = s, ![w].ref = <<"refund", Len(returned) + 1>>]
    <3>1. AcceptedStatus \subseteq RefundStatus
      BY DEF AcceptedStatus, RefundStatus
    <3>2. <<"refund", Len(returned) + 1>> \in RefundReferences
      BY <1>1, RowShapes DEF RefundReferences
    <3>3. QED BY <2>2, <3>1, <3>2 DEF GoTo
  <2>3. QED BY <2>1, <2>2 DEF CallProvider
<1> DEFINE t == [tx[w] EXCEPT !.status = st, !.ref = ref]
<1>8. /\ t \in TxRows /\ t.order = tx[w].order /\ t.payment = tx[w].payment
      /\ t.seen = tx[w].seen /\ t.ref = ref /\ t.status = st
  BY <1>2 DEF TxRows
<1>9. tx' = [tx EXCEPT ![w] = t]
  BY <1>7
<1> HIDE DEF t
<1>10. Moves(w, "commit", t)
  BY <1>7, <1>8, <1>9 DEF Moves, Stages
<1>11. pc'[w] = "commit" /\ tx'[w] = t
  BY <1>1, <1>10, After
<1>12. Knows(w)'
  BY <1>1, <1>3, <1>8, <1>11
  DEF Knows, OrderStages, PaymentStages, LockedStages, PaidStages, RefundedStages, Stages, rows
<1>13. /\ lock' \in [Orders -> Handlers \cup {None}] /\ share' \in [Orders -> SUBSET Handlers]
       /\ \A o \in Orders : lock[o] \notin {w, None} => lock'[o] = lock[o]
  BY <1>1, <1>3 DEF LocalTypes
<1>14. QED BY <1>5, <1>6, <1>10, <1>12, <1>13, MoveKeeps

\* The refund is recorded under the lock of its order, whose total is still the one read.
LEMMA RecordedKeeps ==
  ASSUME LedgerInv, NEW w \in Handlers, Finish(w), RowTypes', ProviderTypes', Grows,
         lock[tx[w].order] = w, tx[w].order \in Orders,
         NEW row, Recorded(tx[w].order, row)
  PROVE  LedgerInv'
<1>1. TypeOK /\ RefundsHavePayments /\ RefundLedgerAgrees
  BY DEF LedgerInv
<1>2. LocalTypes' /\ OnlyMine(w) /\ Knows(w)'
  BY <1>1, FinishLocal
<1>3. RefundsHavePayments' /\ RefundLedgerAgrees'
  BY <1>1, LedgerAppend
<1>4. \A o \in Orders : lock[o] \notin {w, None} => refundedTotal'[o] = refundedTotal[o]
  BY <1>1 DEF Recorded, TypeOK
<1>5. QED BY <1>2, <1>3, <1>4, StepKeeps

LEMMA CommitRefundKeeps ==
  ASSUME LedgerInv, NEW w \in Handlers, CommitRefund(w)
  PROVE  LedgerInv'
<1> DEFINE o == tx[w].order
           row == [payment |-> tx[w].payment, amount |-> tx[w].amount,
                   status |-> tx[w].status, ref |-> tx[w].ref, key |-> tx[w].key]
<1>1. TypeOK /\ RowTypes /\ ProviderTypes /\ LocalTypes /\ Knows(w) /\ pc[w] = "commit"
        /\ Finish(w)
  BY TypeParts DEF LedgerInv, CommitRefund
<1>2. /\ o \in Orders /\ lock[o] = w
      /\ tx[w].payment \in 1 .. Len(payments) /\ payments[tx[w].payment].order = o
      /\ tx[w].ref \in RefundReferences \cup {None} /\ tx[w].status \in RefundStatus
  BY <1>1 DEF Knows, OrderStages, PaymentStages, LockedStages, Stages
<1>3. tx[w] \in TxRows
  BY <1>1 DEF LocalTypes
<1>4. row \in RefundRows
  BY <1>2, <1>3 DEF RefundRows, TxRows
<1>5. UNCHANGED <<placed, financial, payments, guard, provider>>
        /\ refunds' = Append(refunds, row)
  BY DEF CommitRefund
<1>6. refundedTotal' = [refundedTotal EXCEPT ![o] =
                          @ + (IF row.status = "failed" THEN 0 ELSE row.amount)]
  <2>1. refundedTotal \in [Orders -> Nat]
    BY <1>1 DEF RowTypes
  <2>2. QED BY <1>2, <2>1 DEF CommitRefund
<1> HIDE DEF row
<1>7. refunds' \in Seq(RefundRows) /\ refundedTotal' \in [Orders -> Nat]
  BY <1>1, <1>2, <1>4, <1>5, <1>6 DEF RowTypes, RefundRows
<1>8. RowTypes' /\ ProviderTypes'
  BY <1>1, <1>5, <1>7 DEF RowTypes, ProviderTypes, provider
<1>9. Grows
  BY <1>1, <1>5, NothingGrows DEF provider
<1>10. Recorded(o, row)
  BY <1>2, <1>4, <1>5, <1>6 DEF Recorded, row
<1>11. QED BY <1>1, <1>2, <1>8, <1>9, <1>10, RecordedKeeps

-----------------------------------------------------------------------------
(* Webhooks.                                                               *)

\* Answer 200 and record nothing.
LEMMA DropKeeps ==
  ASSUME LedgerInv, NEW w \in Handlers, Drop(w), tx[w].event \in AllEvents
  PROVE  LedgerInv'
<1>1. UNCHANGED <<rows, charges, returned>> /\ settled' \subseteq AllEvents /\ Finish(w)
  BY DEF Drop, Settle, LedgerInv, TypeOK
<1>2. QED BY <1>1, RefusalKeeps

\* In its stages a webhook has an event.
LEMMA HasEvent ==
  ASSUME LedgerInv, NEW w \in Handlers, pc[w] \in PaidStages \cup RefundedStages
  PROVE  tx[w].event \in AllEvents
<1>1. Len(charges) \in Nat /\ Len(returned) \in Nat /\ Knows(w)
  BY RowShapes DEF LedgerInv
<1>2. CASE pc[w] \in PaidStages
  <2>1. PICK c \in 1 .. Len(charges) : tx[w].event = PaidEvent(c)
    BY <1>1, <1>2 DEF Knows
  <2>2. QED BY <1>1, <2>1 DEF PaidEvent, AllEvents
<1>3. CASE pc[w] \in RefundedStages
  <2>1. PICK r \in 1 .. Len(returned) : tx[w].event = RefundEvent(r)
    BY <1>1, <1>3 DEF Knows
  <2>2. QED BY <1>1, <2>1 DEF RefundEvent, AllEvents
<1>4. QED BY <1>2, <1>3

LEMMA LookUpOrderKeeps ==
  ASSUME LedgerInv, NEW w \in Handlers, LookUpOrder(w)
  PROVE  LedgerInv'
<1>1. TypeOK /\ LocalTypes /\ Knows(w) /\ pc[w] = "lookup"
  BY TypeParts DEF LedgerInv, LookUpOrder
<1>2. PICK c \in 1 .. Len(charges) : tx[w].event = PaidEvent(c)
  BY <1>1 DEF Knows, PaidStages
<1> DEFINE o == charges[c].order
           a == charges[c].amount
           t == [tx[w] EXCEPT !.order = o, !.amount = a]
           s == IF o \in placed THEN "sum" ELSE "complete"
<1>3. o \in Orders /\ a \in Nat /\ tx[w] \in TxRows
  BY <1>1, RowShapes DEF LocalTypes
<1>4. tx' = [tx EXCEPT ![w] = t] /\ pc' = [pc EXCEPT ![w] = s]
        /\ UNCHANGED <<rows, provider, lock, share>>
  <2>1. charges[tx[w].event.n] = charges[c]
    BY <1>2 DEF PaidEvent
  <2>2. tx' = [tx EXCEPT ![w].order = o, ![w].amount = a] /\ pc' = [pc EXCEPT ![w] = s]
          /\ UNCHANGED <<rows, provider, lock, share>>
    BY <2>1 DEF LookUpOrder, GoTo
  <2>3. tx' = [tx EXCEPT ![w] = t]
    BY <1>1, <2>2 DEF LocalTypes
  <2>4. QED BY <2>2, <2>3
<1>5. t \in TxRows /\ t.order = o /\ t.event = tx[w].event
  <2> HIDE DEF o, a
  <2>1. QED BY <1>3 DEF TxRows
<1>6. s \in {"sum", "complete"}
  OBVIOUS
<1> HIDE DEF s, t
<1>7. Moves(w, s, t)
  BY <1>4, <1>5, <1>6 DEF Moves, Stages
<1>8. pc'[w] = s /\ tx'[w] = t /\ charges' = charges
  BY <1>1, <1>4, <1>7, After DEF provider
<1>9. Knows(w)'
  BY <1>2, <1>3, <1>5, <1>6, <1>8
  DEF Knows, OrderStages, PaymentStages, LockedStages, PaidStages, RefundedStages, PaidEvent
<1>10. QED BY <1>4, <1>7, <1>9, ReadKeeps

LEMMA AutoCompleteKeeps ==
  ASSUME LedgerInv, NEW w \in Handlers, AutoComplete(w)
  PROVE  LedgerInv'
<1> DEFINE o == tx[w].order
<1>1. TypeOK /\ RowTypes /\ ProviderTypes /\ LocalTypes /\ Knows(w) /\ pc[w] = "complete"
  BY TypeParts DEF LedgerInv, AutoComplete
<1>2. tx[w] \in TxRows /\ o \in Orders /\ tx[w].event \in AllEvents
  BY <1>1, HasEvent DEF LocalTypes, Knows, OrderStages, Stages, PaidStages
<1>3. CASE Drop(w)
  BY <1>2, <1>3, DropKeeps
<1>4. CASE /\ placed' = placed \cup {o} /\ GoTo(w, "sum")
           /\ UNCHANGED <<financial, refundedTotal, payments, refunds, guard, provider,
                          tx, lock, share>>
  <2>1. RowTypes' /\ ProviderTypes' /\ Untouched
    BY <1>1, <1>2, <1>4 DEF RowTypes, ProviderTypes, provider, Untouched
  <2>2. Grows
    BY <1>1, <1>4, NothingGrows DEF provider
  <2>3. Moves(w, "sum", tx[w])
    BY <1>1, <1>2, <1>4 DEF GoTo, Moves, Stages, LocalTypes
  <2>4. pc'[w] = "sum" /\ tx'[w] = tx[w] /\ charges' = charges
    BY <1>1, <1>4, <2>3, After DEF provider
  <2>5. Knows(w)'
    BY <1>1, <1>2, <2>4
    DEF Knows, OrderStages, PaymentStages, LockedStages, PaidStages, RefundedStages, PaidEvent
  <2>6. /\ lock' \in [Orders -> Handlers \cup {None}] /\ share' \in [Orders -> SUBSET Handlers]
        /\ \A q \in Orders : lock[q] \notin {w, None} => lock'[q] = lock[q]
    BY <1>1, <1>4 DEF LocalTypes
  <2>7. QED BY <2>1, <2>2, <2>3, <2>5, <2>6, MoveKeeps
<1>5. QED BY <1>3, <1>4 DEF AutoComplete

LEMMA SumCapturesKeeps ==
  ASSUME LedgerInv, NEW w \in Handlers, SumCaptures(w)
  PROVE  LedgerInv'
<1>1. TypeOK /\ LocalTypes /\ Knows(w) /\ pc[w] = "sum"
  BY TypeParts DEF LedgerInv, SumCaptures
<1>2. tx[w] \in TxRows /\ tx[w].event \in AllEvents
  BY <1>1, HasEvent DEF LocalTypes, PaidStages
<1>3. CASE Drop(w)
  BY <1>2, <1>3, DropKeeps
<1>4. CASE GoTo(w, "insert") /\ UNCHANGED <<rows, provider, tx, lock, share>>
  <2>1. Moves(w, "insert", tx[w])
    BY <1>1, <1>2, <1>4 DEF GoTo, Moves, Stages, LocalTypes
  <2>2. pc'[w] = "insert" /\ tx'[w] = tx[w] /\ charges' = charges
    BY <1>1, <1>4, <2>1, After DEF provider
  <2>3. Knows(w)'
    BY <1>1, <2>2
    DEF Knows, OrderStages, PaymentStages, LockedStages, PaidStages, RefundedStages, Stages,
        PaidEvent
  <2>4. QED BY <1>4, <2>1, <2>3, ReadKeeps
<1>5. QED BY <1>3, <1>4 DEF SumCaptures

\* The references of a recorded charge are references.
LEMMA PaidRefType ==
  ASSUME TypeOK, NEW c \in 1 .. Len(charges)
  PROVE  PaidRef(c) \in References
<1>1. c \in Nat /\ charges[c].order \in Orders
  BY RowShapes
<1>2. QED
  BY <1>1, PaymentSets DEF PaidRef, References, Providers

LEMMA InsertPaymentKeeps ==
  ASSUME LedgerInv, NEW w \in Handlers, InsertPayment(w)
  PROVE  LedgerInv'
<1> DEFINE o == tx[w].order
           ref == PaidRef(tx[w].event.n)
           t == [tx[w] EXCEPT !.ref = ref]
<1>1. TypeOK /\ RowTypes /\ ProviderTypes /\ LocalTypes /\ Knows(w) /\ pc[w] = "insert"
  BY TypeParts DEF LedgerInv, InsertPayment
<1>2. tx[w] \in TxRows /\ o \in Orders /\ tx[w].event \in AllEvents
  BY <1>1, HasEvent DEF LocalTypes, Knows, OrderStages, Stages, PaidStages
<1>3. CASE Drop(w)
  BY <1>2, <1>3, DropKeeps
<1>4. CASE /\ share' = [share EXCEPT ![o] = @ \cup {w}] /\ GoTo(w, "paid")
           /\ tx' = [tx EXCEPT ![w].ref = ref] /\ UNCHANGED <<rows, provider, lock>>
  <2>1. PICK c \in 1 .. Len(charges) : tx[w].event = PaidEvent(c)
    BY <1>1 DEF Knows, PaidStages
  <2>2. ref \in References
    BY <1>1, <2>1, PaidRefType DEF PaidEvent
  <2> HIDE DEF ref
  <2>3. t \in TxRows /\ t.order = o /\ t.ref = ref /\ t.event = tx[w].event
    BY <1>2, <2>2 DEF TxRows
  <2>4. tx' = [tx EXCEPT ![w] = t]
    BY <1>4
  <2> HIDE DEF t
  <2>5. Moves(w, "paid", t)
    BY <1>4, <2>3, <2>4 DEF GoTo, Moves, Stages
  <2>6. pc'[w] = "paid" /\ tx'[w] = t
    BY <1>1, <2>5, After
  <2>7. RowTypes' /\ ProviderTypes' /\ Untouched /\ charges' = charges
    BY <1>1, <1>4 DEF RowTypes, ProviderTypes, rows, provider, Untouched
  <2>8. Grows
    BY <1>1, <1>4, NothingGrows DEF rows, provider
  <2>9. Knows(w)'
    BY <1>2, <2>1, <2>2, <2>3, <2>6, <2>7
    DEF Knows, OrderStages, PaymentStages, LockedStages, PaidStages, RefundedStages, PaidEvent
  <2>10. /\ lock' \in [Orders -> Handlers \cup {None}] /\ share' \in [Orders -> SUBSET Handlers]
         /\ \A q \in Orders : lock[q] \notin {w, None} => lock'[q] = lock[q]
    BY <1>1, <1>2, <1>4 DEF LocalTypes
  <2>11. QED BY <2>5, <2>7, <2>8, <2>9, <2>10, MoveKeeps
<1>5. QED BY <1>3, <1>4 DEF InsertPayment

LEMMA CommitPaymentKeeps ==
  ASSUME LedgerInv, NEW w \in Handlers, CommitPayment(w)
  PROVE  LedgerInv'
<1> DEFINE o == tx[w].order
           row == [order |-> o, amount |-> tx[w].amount,
                   status |-> "captured", ref |-> tx[w].ref]
<1>1. TypeOK /\ RowTypes /\ ProviderTypes /\ LocalTypes /\ Knows(w) /\ pc[w] = "paid"
        /\ Finish(w)
  BY TypeParts DEF LedgerInv, CommitPayment
<1>2. /\ tx[w] \in TxRows /\ o \in Orders /\ tx[w].event \in AllEvents
      /\ tx[w].ref \in References \cup {None}
  BY <1>1, HasEvent DEF LocalTypes, Knows, OrderStages, Stages, PaidStages
<1>3. row \in PaymentRows
  BY <1>2 DEF PaymentRows, PaymentStatus, TxRows
<1>4. payments' = Append(payments, row)
        /\ UNCHANGED <<placed, refundedTotal, refunds, guard, charges, returned>>
  BY DEF CommitPayment
<1>5. financial' \in [Orders -> FinancialStatus]
  BY <1>1, <1>2 DEF CommitPayment, RowTypes, FinancialStatus
<1>6. ProviderTypes'
  BY <1>1, <1>2, <1>4 DEF ProviderTypes, CommitPayment, Settle
<1> HIDE DEF row
<1>7. RowTypes' /\ Grows /\ Untouched
  BY <1>3, <1>4, <1>5, PaymentAppended
<1>8. QED BY <1>1, <1>6, <1>7, EndKeeps

LEMMA FindPaymentKeeps ==
  ASSUME LedgerInv, NEW w \in Handlers, FindPayment(w)
  PROVE  LedgerInv'
<1> DEFINE a == returned[tx[w].event.n].amount
           ref == <<"refund", tx[w].event.n>>
<1>1. TypeOK /\ LocalTypes /\ Knows(w) /\ pc[w] = "find"
  BY TypeParts DEF LedgerInv, FindPayment
<1>2. tx[w] \in TxRows /\ tx[w].event \in AllEvents
  BY <1>1, HasEvent DEF LocalTypes, RefundedStages
<1>3. PICK r \in 1 .. Len(returned) : tx[w].event = RefundEvent(r)
  BY <1>1 DEF Knows, RefundedStages
<1>4. a \in Nat /\ ref \in RefundReferences
  BY <1>1, <1>3, RowShapes DEF RefundEvent, RefundReferences
<1>5. CASE Drop(w)
  BY <1>2, <1>5, DropKeeps
<1>6. CASE \E p \in 1 .. Len(payments) :
             /\ GoTo(w, "lockReceived")
             /\ tx' = [tx EXCEPT ![w].payment = p, ![w].order = payments[p].order,
                                 ![w].amount = a, ![w].ref = ref]
             /\ UNCHANGED <<rows, provider, lock, share>>
  <2>1. PICK p \in 1 .. Len(payments) :
             /\ GoTo(w, "lockReceived")
             /\ tx' = [tx EXCEPT ![w].payment = p, ![w].order = payments[p].order,
                                 ![w].amount = a, ![w].ref = ref]
             /\ UNCHANGED <<rows, provider, lock, share>>
    BY <1>6
  <2> DEFINE o == payments[p].order
             t == [tx[w] EXCEPT !.payment = p, !.order = o, !.amount = a, !.ref = ref]
  <2>2. o \in Orders /\ p \in Nat
    BY <1>1, RowShapes DEF PaymentRows
  <2>3. tx' = [tx EXCEPT ![w] = t]
    BY <1>1, <2>1 DEF LocalTypes
  <2> HIDE DEF a, ref
  <2>4. /\ t \in TxRows /\ t.order = o /\ t.payment = p /\ t.ref = ref
        /\ t.event = tx[w].event
    <3> HIDE DEF o
    <3>1. QED BY <1>2, <1>4, <2>2 DEF TxRows
  <2> HIDE DEF t
  <2>5. Moves(w, "lockReceived", t)
    BY <2>1, <2>3, <2>4 DEF GoTo, Moves, Stages
  <2>6. pc'[w] = "lockReceived" /\ tx'[w] = t /\ payments' = payments /\ returned' = returned
    BY <1>1, <2>1, <2>5, After DEF rows, provider
  <2>7. Knows(w)'
    BY <1>3, <1>4, <2>2, <2>4, <2>6
    DEF Knows, OrderStages, PaymentStages, LockedStages, PaidStages, RefundedStages, RefundEvent
  <2>8. QED BY <2>1, <2>5, <2>7, ReadKeeps
<1>7. QED BY <1>5, <1>6 DEF FindPayment

LEMMA RecordRefundKeeps ==
  ASSUME LedgerInv, NEW w \in Handlers, RecordRefund(w)
  PROVE  LedgerInv'
<1> DEFINE o == tx[w].order
           p == tx[w].payment
           a == tx[w].amount
           row == [payment |-> p, amount |-> a, status |-> "succeeded",
                   ref |-> tx[w].ref, key |-> None]
           s == IF a + Tolerance >= payments[p].amount THEN "refunded" ELSE "partially_refunded"
<1>1. TypeOK /\ RowTypes /\ ProviderTypes /\ LocalTypes /\ Knows(w) /\ pc[w] = "received"
  BY TypeParts DEF LedgerInv, RecordRefund
<1>2. tx[w] \in TxRows /\ tx[w].event \in AllEvents
  BY <1>1, HasEvent DEF LocalTypes, RefundedStages
<1>3. /\ o \in Orders /\ lock[o] = w /\ tx[w].seen = refundedTotal[o]
      /\ p \in 1 .. Len(payments) /\ payments[p].order = o
      /\ tx[w].ref \in RefundReferences \cup {None}
  BY <1>1 DEF Knows, OrderStages, PaymentStages, LockedStages, Stages
<1>4. CASE Drop(w)
  BY <1>2, <1>4, DropKeeps
<1>5. CASE /\ refunds' = Append(refunds, row)
           /\ refundedTotal' = [refundedTotal EXCEPT ![o] = tx[w].seen + a]
           /\ financial' = [financial EXCEPT ![o] =
                IF tx[w].seen + a + Tolerance >= Total[o] THEN "refunded" ELSE "partially_refunded"]
           /\ payments' = [payments EXCEPT ![p].status = s]
           /\ Settle(w) /\ Finish(w)
           /\ UNCHANGED <<placed, guard, charges, returned>>
  <2>1. row \in RefundRows /\ row.payment = p /\ row.status # "failed" /\ row.amount = a
    BY <1>1, <1>2, <1>3, RowShapes DEF RefundRows, RefundStatus, TxRows
  <2>2. s \in PaymentStatus
    BY DEF PaymentStatus
  <2> HIDE DEF row, s
  <2>3. /\ payments' \in Seq(PaymentRows) /\ Len(payments') = Len(payments)
        /\ \A q \in 1 .. Len(payments) : payments'[q].order = payments[q].order
    BY <1>3, <1>5, <2>2, StatusesChange
  <2>4. Grows
    BY <1>1, <1>5, <2>3, RowShapes DEF Grows
  <2>5. refundedTotal' = [refundedTotal EXCEPT ![o] =
                            @ + (IF row.status = "failed" THEN 0 ELSE row.amount)]
    BY <1>1, <1>3, <1>5, <2>1 DEF RowTypes
  <2>6. Recorded(o, row)
    BY <1>3, <1>5, <2>1, <2>5 DEF Recorded
  <2>7. refunds' \in Seq(RefundRows) /\ refundedTotal' \in [Orders -> Nat]
          /\ financial' \in [Orders -> FinancialStatus]
    <3>1. refunds' \in Seq(RefundRows)
      BY <1>1, <1>5, <2>1 DEF RowTypes
    <3>2. a \in Nat
      BY <1>2 DEF TxRows
    <3>3. refundedTotal' \in [Orders -> Nat]
      BY <1>1, <1>3, <2>1, <2>5, <3>2 DEF RowTypes
    <3>4. financial' \in [Orders -> FinancialStatus]
      BY <1>1, <1>5 DEF RowTypes, FinancialStatus
    <3>5. QED BY <3>1, <3>3, <3>4
  <2>8. RowTypes' /\ ProviderTypes'
    BY <1>1, <1>2, <1>5, <2>3, <2>7 DEF RowTypes, ProviderTypes, Settle
  <2>9. QED BY <1>3, <1>5, <2>4, <2>6, <2>8, RecordedKeeps
<1>6. QED BY <1>4, <1>5 DEF RecordRefund

LEMMA StatementFailsKeeps ==
  ASSUME LedgerInv, NEW w \in Handlers, StatementFails(w)
  PROVE  LedgerInv'
<1>1. tx[w].event \in AllEvents /\ Drop(w)
  BY HasEvent DEF StatementFails, PaidStages, RefundedStages
<1>2. QED BY <1>1, DropKeeps

-----------------------------------------------------------------------------
(* What happens beside the requests.                                       *)

LEMMA BesideKeeps ==
  ASSUME LedgerInv, UNCHANGED local, Untouched, RowTypes', ProviderTypes', Grows
  PROVE  LedgerInv'
<1>1. TypeOK /\ LocalTypes /\ RefundsHavePayments /\ RefundLedgerAgrees
  BY TypeParts DEF LedgerInv
<1>2. LocalTypes'
  BY <1>1 DEF LocalTypes, local
<1>3. TypeOK'
  BY <1>2 DEF LocalTypes, RowTypes, ProviderTypes, TypeOK
<1>4. RefundsHavePayments' /\ RefundLedgerAgrees'
  BY <1>1, LedgerSame DEF Untouched
<1>5. ASSUME NEW x \in Handlers PROVE Knows(x)'
  <2>1. Knows(x)
    BY DEF LedgerInv
  <2>2. QED BY <1>1, <2>1, OthersKnow DEF local, Untouched
<1>6. QED BY <1>3, <1>4, <1>5 DEF LedgerInv

LEMMA EnvironmentKeeps ==
  ASSUME LedgerInv, Environment
  PROVE  LedgerInv'
<1>1. TypeOK /\ RowTypes /\ ProviderTypes
  BY TypeParts DEF LedgerInv
<1>2. ASSUME NEW o \in Orders, PlaceOrder(o) PROVE LedgerInv'
  <2>1. RowTypes' /\ ProviderTypes' /\ Untouched
    BY <1>1, <1>2 DEF PlaceOrder, RowTypes, ProviderTypes, provider, Untouched
  <2>2. Grows
    BY <1>1, <1>2, NothingGrows DEF PlaceOrder, provider
  <2>3. QED BY <1>2, <2>1, <2>2, BesideKeeps DEF PlaceOrder
<1>3. ASSUME NEW o \in Orders, NEW a \in Amounts, PayAtProvider(o, a) PROVE LedgerInv'
  <2> DEFINE C == [order : Orders, amount : Nat, token : BOOLEAN]
             row == [order |-> o, amount |-> a, token |-> FALSE]
  <2>1. row \in C /\ charges \in Seq(C) /\ charges' = Append(charges, row)
    BY <1>1, <1>3, PaymentNumbers DEF PayAtProvider, ProviderTypes
  <2>2. charges' \in Seq(C) /\ Len(charges') = Len(charges) + 1 /\ Len(charges) \in Nat
    <3> HIDE DEF C, row
    <3>1. QED BY <2>1
  <2>3. RowTypes' /\ ProviderTypes' /\ Untouched
    BY <1>1, <1>3, <2>2 DEF PayAtProvider, RowTypes, ProviderTypes, rows, Untouched
  <2>4. Grows
    BY <1>1, <1>3, <2>2, RowShapes DEF Grows, PayAtProvider, rows
  <2>5. QED BY <1>3, <2>3, <2>4, BesideKeeps DEF PayAtProvider
<1>4. ASSUME NEW c \in 1 .. Len(charges), NEW a \in Amounts, RefundAtProvider(c, a)
      PROVE  LedgerInv'
  <2> DEFINE R == [charge : Nat, amount : Nat, payment : Nat, key : Keys \cup {None}]
             row == [charge |-> c, amount |-> a, payment |-> 0, key |-> None]
  <2>1. row \in R /\ returned \in Seq(R) /\ returned' = Append(returned, row)
    BY <1>1, <1>4, PaymentNumbers, RowShapes DEF RefundAtProvider, ProviderTypes
  <2>2. returned' \in Seq(R) /\ Len(returned') = Len(returned) + 1 /\ Len(returned) \in Nat
    <3> HIDE DEF R, row
    <3>1. QED BY <2>1
  <2>3. RowTypes' /\ ProviderTypes' /\ Untouched
    BY <1>1, <1>4, <2>2 DEF RefundAtProvider, RowTypes, ProviderTypes, rows, Untouched
  <2>4. Grows
    BY <1>1, <1>4, <2>2, RowShapes DEF Grows, RefundAtProvider, rows
  <2>5. QED BY <1>4, <2>3, <2>4, BesideKeeps DEF RefundAtProvider
<1>5. QED BY <1>2, <1>3, <1>4 DEF Environment

LEMMA CrashKeeps ==
  ASSUME LedgerInv, NEW w \in Handlers, Crash(w)
  PROVE  LedgerInv'
<1>1. Finish(w) /\ UNCHANGED <<rows, charges, returned>> /\ settled' \subseteq AllEvents
  BY DEF Crash, provider, LedgerInv, TypeOK
<1>2. QED BY <1>1, RefusalKeeps

-----------------------------------------------------------------------------
(* The invariant, and what follows from it.                                *)

LEMMA InitHolds == Init => LedgerInv
<1> SUFFICES ASSUME Init PROVE LedgerInv
  OBVIOUS
<1>1. Len(refunds) = 0 /\ Len(payments) = 0 /\ 1 .. 0 = {}
  BY DEF Init
<1>2. TypeOK
  BY <1>1, NoTxType DEF Init, TypeOK, Stages, FinancialStatus
<1>3. RefundsHavePayments
  BY <1>1 DEF RefundsHavePayments
<1>4. \A w \in Handlers : pc[w] = "idle"
  BY DEF Init
<1>5. \A w \in Handlers : Knows(w)
  BY <1>4 DEF Knows, OrderStages, PaymentStages, LockedStages, PaidStages, RefundedStages
<1>6. RefundLedgerAgrees
  <2> SUFFICES ASSUME NEW o \in Orders PROVE refundedTotal[o] = SumRefunded(o)
    BY DEF RefundLedgerAgrees
  <2>1. LiveRefundsOf(o) = {}
    BY <1>1 DEF LiveRefundsOf, RefundsOf
  <2>2. \A f : SumOver(f, {}) = 0
    BY FS_EmptySet DEF SumOver, Units
  <2>3. refundedTotal[o] = 0
    BY DEF Init
  <2>4. QED BY <2>1, <2>2, <2>3 DEF SumRefunded
<1>7. QED BY <1>2, <1>3, <1>5, <1>6 DEF LedgerInv

LEMMA RequestKeeps ==
  ASSUME LedgerInv, NEW w \in Handlers, Request(w)
  PROVE  LedgerInv'
<1>1. ASSUME NEW o \in Orders, NEW a \in Amounts, RequestCreate(w, o, a, None) PROVE LedgerInv'
  BY <1>1, RequestCreateKeeps
<1>2. ASSUME NEW c \in 1 .. Len(charges), NEW a \in Amounts, NEW ref \in {"intent", "charge"},
             RequestCreate(w, charges[c].order, a, <<ref, c>>)
      PROVE  LedgerInv'
  <2>1. charges[c].order \in Orders /\ c \in Nat
    BY RowShapes DEF LedgerInv
  <2>2. <<ref, c>> \in References
    BY <2>1 DEF References
  <2>3. QED BY <1>2, <2>1, <2>2, RequestCreateKeeps
<1>3. ASSUME NEW p \in 1 .. Len(payments), RequestCapture(w, p) PROVE LedgerInv'
  BY <1>3, RequestCaptureKeeps
<1>4. ASSUME NEW p \in 1 .. Len(payments), NEW a \in Amounts, NEW k \in Keys \cup {None},
             RequestRefund(w, p, a, k)
      PROVE  LedgerInv'
  BY <1>4, RequestRefundKeeps
<1>5. ASSUME NEW o \in Orders, ChargeToken(w, o) PROVE LedgerInv'
  BY <1>5, ChargeTokenKeeps
<1>6. ASSUME NEW e \in Events, ReceiveEvent(w, e) PROVE LedgerInv'
  BY <1>6, ReceiveEventKeeps
<1>7. QED BY <1>1, <1>2, <1>3, <1>4, <1>5, <1>6 DEF Request

LEMMA LockStepKeeps ==
  ASSUME LedgerInv, NEW w \in Handlers,
         LockForCreate(w) \/ LockForCapture(w) \/ LockForRefund(w) \/ LockForReceived(w)
  PROVE  LedgerInv'
<1>1. CASE LockForCreate(w)
  BY <1>1, LockKeeps DEF LockForCreate
<1>2. CASE LockForCapture(w)
  BY <1>2, LockKeeps DEF LockForCapture
<1>3. CASE LockForRefund(w)
  BY <1>3, LockKeeps DEF LockForRefund
<1>4. CASE LockForReceived(w)
  BY <1>4, LockKeeps DEF LockForReceived
<1>5. QED BY <1>1, <1>2, <1>3, <1>4

LEMMA HandlerKeeps ==
  ASSUME LedgerInv, NEW w \in Handlers, Step(w)
  PROVE  LedgerInv'
BY LockStepKeeps, CreatePaymentKeeps, CapturePaymentKeeps, CheckRefundKeeps, CallProviderKeeps,
   CommitRefundKeeps, PlaceChargedKeeps, LookUpOrderKeeps, AutoCompleteKeeps, SumCapturesKeeps,
   InsertPaymentKeeps, CommitPaymentKeeps, FindPaymentKeeps, RecordRefundKeeps,
   StatementFailsKeeps
DEF Step

LEMMA IdleKeeps ==
  ASSUME LedgerInv, UNCHANGED vars
  PROVE  LedgerInv'
<1>1. TypeOK /\ RowTypes /\ ProviderTypes
  BY TypeParts DEF LedgerInv
<1>2. RowTypes' /\ ProviderTypes' /\ Untouched
  BY <1>1 DEF vars, RowTypes, ProviderTypes, rows, provider, Untouched
<1>3. Grows
  BY <1>1, NothingGrows DEF vars, rows, provider
<1>4. QED BY <1>2, <1>3, BesideKeeps DEF vars

\* The invariant holds at every moment of every run: each statement of a request, each
\* event of its environment and each crash keeps it.
THEOREM LedgerHolds == Spec => []LedgerInv
<1>1. LedgerInv /\ [Next]_vars => LedgerInv'
  <2> SUFFICES ASSUME LedgerInv, [Next]_vars PROVE LedgerInv'
    OBVIOUS
  <2>1. CASE Environment
    BY <2>1, EnvironmentKeeps
  <2>2. ASSUME NEW w \in Handlers, Request(w) PROVE LedgerInv'
    BY <2>2, RequestKeeps
  <2>3. ASSUME NEW w \in Handlers, Step(w) PROVE LedgerInv'
    BY <2>3, HandlerKeeps
  <2>4. ASSUME NEW w \in Handlers, Crash(w) PROVE LedgerInv'
    BY <2>4, CrashKeeps
  <2>5. CASE UNCHANGED vars
    BY <2>5, IdleKeeps
  <2>6. QED BY <2>1, <2>2, <2>3, <2>4, <2>5 DEF Next
<1>2. QED BY InitHolds, <1>1, PTL DEF Spec

\* Rows, books and requests keep their types, whatever the requests, the provider, its
\* faults and the crashes are (payments, refunds, orders and the replay guard).
THEOREM TypesCorrect == Spec => []TypeOK
<1>1. LedgerInv => TypeOK
  BY DEF LedgerInv
<1>2. QED BY LedgerHolds, <1>1, PTL

\* orders.total_refunded is the sum of the refunds that have not failed: createRefund adds
\* to it, recordPaymentRefund overwrites it, and the lock on the order row makes both the
\* same.
THEOREM RefundTotalsCorrect == Spec => []RefundLedgerAgrees
<1>1. LedgerInv => RefundLedgerAgrees
  BY DEF LedgerInv
<1>2. QED BY LedgerHolds, <1>1, PTL

-----------------------------------------------------------------------------
(* What is recorded of a charge: the names of payments.                      *)

\* The names under which the API may record charge c; the webhook uses PaidRef(c).
ApiNames(c) ==
  {x \in {<<"intent", c>>, <<"charge", c>>} :
     Provider = "stripe" /\ ("create" \in Ops \/ ("delegated" \in Ops /\ x = <<"intent", c>>))}

\* A payment without a name is the merchant's own; every other one names a charge of its
\* order, and has its amount if the webhook recorded it.
Accounted(o, a, ref) ==
  \/ ref = None /\ "create" \in Ops
  \/ \E c \in 1 .. Len(charges) :
       /\ charges[c].order = o /\ ref \in {PaidRef(c)} \cup ApiNames(c)
       /\ ref = PaidRef(c) => a = charges[c].amount

PaymentsAccounted ==
  \A p \in 1 .. Len(payments) : Accounted(payments[p].order, payments[p].amount, payments[p].ref)

NamesApart ==
  \A p, q \in 1 .. Len(payments) :
    payments[p].ref # None /\ payments[p].ref = payments[q].ref => p = q

\* A Paystack reference is used once.
OneChargeEach ==
  Provider = "paystack" =>
    \A c, d \in 1 .. Len(charges) : charges[c].order = charges[d].order => c = d

\* A request that records a payment knows the charge; once its row is inserted, it shares the
\* order row, and no committed row has its name.
Records(w) ==
  LET t == tx[w] IN
  /\ pc[w] \in {"charged", "lockCreate", "create"} =>
       \/ t.ref = None /\ "create" \in Ops
       \/ \E c \in 1 .. Len(charges) : charges[c].order = t.order /\ t.ref \in ApiNames(c)
  /\ pc[w] \in {"complete", "sum", "insert", "paid"} =>
       \E c \in 1 .. Len(charges) :
         /\ t.event = PaidEvent(c) /\ t.order = charges[c].order /\ t.amount = charges[c].amount
         /\ pc[w] = "paid" => t.ref = PaidRef(c) /\ w \in share[t.order]
  /\ pc[w] = "paid" => \A p \in 1 .. Len(payments) : payments[p].ref # t.ref

InsertsApart ==
  \A w, x \in Handlers : pc[w] = "paid" /\ pc[x] = "paid" /\ tx[w].ref = tx[x].ref => w = x

PaidInv ==
  LedgerInv /\ PaymentsAccounted /\ NamesApart /\ OneChargeEach /\ InsertsApart
  /\ \A w \in Handlers : Records(w)

\* The payments of an order that the webhook recorded, added up.
Reported(o) ==
  SumOver(PaymentAmounts,
          {p \in PaymentsOf(o) : \E c \in 1 .. Len(charges) : payments[p].ref = PaidRef(c)})

ReportedIsCharged == \A o \in Orders : Reported(o) <= Charged(o)

-----------------------------------------------------------------------------
(* What is paid back: the names of refunds.                                  *)

\* No charge is recorded under two names that its refund could be found by.
SoleNames == Provider # "stripe" \/ "create" \notin Ops

\* Payment back n is of amount a, and of the charge that payment p names.
Backs(n, p, a) ==
  LET c == returned[n].charge IN
  n \in 1 .. Len(returned) /\ returned[n].amount = a
  /\ payments[p].ref \in RefundableRefs(c) \cup {ChargeRef(c)}

ReturnsHaveCharges == \A n \in 1 .. Len(returned) : returned[n].charge \in 1 .. Len(charges)

RefundsAreReturns ==
  \A r \in 1 .. Len(refunds) : refunds[r].ref # None =>
    /\ refunds[r].status # "failed"
    /\ \E n \in 1 .. Len(returned) :
         refunds[r].ref = <<"refund", n>> /\ Backs(n, refunds[r].payment, refunds[r].amount)

RefundsApart ==
  \A r, s \in 1 .. Len(refunds) :
    refunds[r].ref # None /\ refunds[r].ref = refunds[s].ref => r = s

\* A refund through the API has a name once the provider has paid it back; a refund that the
\* webhook reports is of the payment that has the name of its charge.
PaysBack(w) ==
  LET t == tx[w] IN
  /\ pc[w] \in {"lockRefund", "check", "call"} => t.ref = None
  /\ pc[w] = "commit" /\ t.ref # None =>
       /\ t.status # "failed"
       /\ \E n \in 1 .. Len(returned) : t.ref = <<"refund", n>> /\ Backs(n, t.payment, t.amount)
       /\ \A r \in 1 .. Len(refunds) : refunds[r].ref # t.ref
  /\ pc[w] \in {"lockReceived", "received"} =>
       \E n \in 1 .. Len(returned) :
         /\ t.ref = <<"refund", n>> /\ t.amount = returned[n].amount
         /\ payments[t.payment].ref = ChargeRef(returned[n].charge)

CommitsApart ==
  \A w, x \in Handlers :
    /\ pc[w] = "commit" /\ pc[x] = "commit"
    /\ tx[w].ref # None /\ tx[w].ref = tx[x].ref
    => w = x

ReturnsInv ==
  PaidInv /\ ReturnsHaveCharges /\ RefundsAreReturns /\ RefundsApart /\ CommitsApart
  /\ \A w \in Handlers : PaysBack(w)

-----------------------------------------------------------------------------
(* Names of charges, and what steps leave of them.                           *)

\* Two charges have no name in common, and no name is missing.
LEMMA NamesOfCharges ==
  ASSUME TypeOK, OneChargeEach, NEW c \in 1 .. Len(charges), NEW d \in 1 .. Len(charges)
  PROVE  /\ PaidRef(c) = PaidRef(d) => c = d
         /\ PaidRef(c) \notin ApiNames(d)
         /\ \A x : x \in ApiNames(c) /\ x \in ApiNames(d) => c = d
         /\ PaidRef(c) # None /\ None \notin ApiNames(c)
<1>1. c \in Nat /\ charges[c].order \in Orders /\ charges[d].order \in Orders
  BY RowShapes
<1>2. {PaidRef(c)} \cup ApiNames(c) \subseteq References
  BY <1>1, PaymentSets DEF PaidRef, ApiNames, References, Providers
<1>3. PaidRef(c) # None /\ None \notin ApiNames(c)
  BY <1>2, PaymentNames
<1>4. PaidRef(c) = PaidRef(d) => c = d
  BY PaymentSets DEF PaidRef, Providers, OneChargeEach
<1>5. PaidRef(c) \notin ApiNames(d)
  BY PaymentSets DEF PaidRef, ApiNames, Providers
<1>6. \A x : x \in ApiNames(c) /\ x \in ApiNames(d) => c = d
  BY DEF ApiNames
<1>7. QED BY <1>3, <1>4, <1>5, <1>6

MoreCharges ==
  /\ Len(charges) \in Nat /\ Len(charges') \in Nat /\ Len(charges) <= Len(charges')
  /\ \A c \in 1 .. Len(charges) : charges'[c] = charges[c]

SameNames ==
  /\ Len(payments) \in Nat /\ Len(payments') = Len(payments)
  /\ \A p \in 1 .. Len(payments) :
       /\ payments'[p].order = payments[p].order /\ payments'[p].ref = payments[p].ref
       /\ payments'[p].amount = payments[p].amount

OthersGo(w) ==
  \A x \in Handlers \ {w} :
    /\ pc'[x] = pc[x] /\ tx'[x] = tx[x]
    /\ \A o \in Orders : x \in share[o] => x \in share'[o]

\* Charges that are added change no name.
LEMMA NamesStay ==
  ASSUME MoreCharges, NEW c \in 1 .. Len(charges)
  PROVE  /\ c \in 1 .. Len(charges') /\ PaidRef(c)' = PaidRef(c) /\ ChargeRef(c)' = ChargeRef(c)
         /\ RefundableRefs(c)' = RefundableRefs(c)
<1>1. c \in 1 .. Len(charges') /\ charges'[c] = charges[c]
  BY DEF MoreCharges
<1>2. QED BY <1>1 DEF PaidRef, ChargeRef, RefundableRefs

LEMMA AccountedStays ==
  ASSUME MoreCharges, NEW CONSTANT o, NEW CONSTANT a, NEW CONSTANT ref, Accounted(o, a, ref)
  PROVE  Accounted(o, a, ref)'
<1>1. CASE ref = None /\ "create" \in Ops
  BY <1>1 DEF Accounted
<1>2. CASE ~(ref = None /\ "create" \in Ops)
  <2>1. PICK c \in 1 .. Len(charges) :
          /\ charges[c].order = o /\ ref \in {PaidRef(c)} \cup ApiNames(c)
          /\ ref = PaidRef(c) => a = charges[c].amount
    BY <1>2 DEF Accounted
  <2>2. /\ c \in 1 .. Len(charges') /\ charges'[c] = charges[c] /\ PaidRef(c)' = PaidRef(c)
    BY NamesStay DEF MoreCharges
  <2>3. QED BY <2>1, <2>2 DEF Accounted
<1>3. QED BY <1>1, <1>2

LEMMA RowsAccounted ==
  ASSUME PaymentsAccounted, NamesApart, SameNames, MoreCharges
  PROVE  PaymentsAccounted' /\ NamesApart'
<1>1. ASSUME NEW p \in 1 .. Len(payments')
      PROVE  Accounted(payments[p].order, payments[p].amount, payments[p].ref)'
  <2>1. PICK o : o = payments[p].order
    OBVIOUS
  <2>2. PICK a : a = payments[p].amount
    OBVIOUS
  <2>3. PICK ref : ref = payments[p].ref
    OBVIOUS
  <2>4. Accounted(o, a, ref)
    BY <2>1, <2>2, <2>3 DEF PaymentsAccounted, SameNames
  <2>5. Accounted(o, a, ref)'
    BY <2>4, AccountedStays
  <2>6. o = payments'[p].order /\ a = payments'[p].amount /\ ref = payments'[p].ref
    BY <2>1, <2>2, <2>3 DEF SameNames
  <2>7. QED BY <2>5, <2>6 DEF Accounted
<1>2. PaymentsAccounted'
  BY <1>1 DEF PaymentsAccounted
<1>3. NamesApart'
  BY DEF NamesApart, SameNames
<1>4. QED BY <1>2, <1>3

\* What a request records survives the steps of the others, unless they take its name.
LEMMA OthersRecord ==
  ASSUME TypeOK, NEW x \in Handlers, Records(x), pc'[x] = pc[x], tx'[x] = tx[x], MoreCharges,
         \A o \in Orders : x \in share[o] => x \in share'[o],
         pc[x] = "paid" => \A p \in 1 .. Len(payments') : payments'[p].ref # tx[x].ref
  PROVE  Records(x)'
<1>1. PICK t : t = tx[x]
  OBVIOUS
<1>2. ASSUME pc'[x] \in {"charged", "lockCreate", "create"}
      PROVE  \/ t.ref = None /\ "create" \in Ops
             \/ \E c \in 1 .. Len(charges') : charges'[c].order = t.order /\ t.ref \in ApiNames(c)
  BY <1>1, <1>2 DEF Records, MoreCharges
<1>3. ASSUME pc'[x] \in {"complete", "sum", "insert", "paid"}
      PROVE  \E c \in 1 .. Len(charges') :
               /\ t.event = PaidEvent(c) /\ t.order = charges'[c].order /\ t.amount = charges'[c].amount
               /\ pc'[x] = "paid" => t.ref = PaidRef(c)' /\ x \in share'[t.order]
  <2>1. PICK c \in 1 .. Len(charges) :
          /\ t.event = PaidEvent(c) /\ t.order = charges[c].order /\ t.amount = charges[c].amount
          /\ pc[x] = "paid" => t.ref = PaidRef(c) /\ x \in share[t.order]
    BY <1>1, <1>3 DEF Records
  <2>2. c \in 1 .. Len(charges') /\ charges'[c] = charges[c] /\ PaidRef(c)' = PaidRef(c)
    BY NamesStay DEF MoreCharges
  <2>3. t.order \in Orders
    BY <2>1, RowShapes
  <2>4. QED BY <2>1, <2>2, <2>3
<1>4. QED BY <1>1, <1>2, <1>3 DEF Records, PaidEvent

\* A step of w that adds no payment.
LEMMA PaidFrame ==
  ASSUME PaidInv, LedgerInv', NEW w \in Handlers, OthersGo(w), SameNames, MoreCharges,
         OneChargeEach', Records(w)',
         pc'[w] = "paid" => \A x \in Handlers \ {w} : pc[x] = "paid" => tx[x].ref # tx'[w].ref
  PROVE  PaidInv'
<1>1. PaymentsAccounted' /\ NamesApart'
  BY RowsAccounted DEF PaidInv
<1>2. ASSUME NEW x \in Handlers \ {w} PROVE Records(x)'
  <2>1. Records(x) /\ TypeOK
    BY DEF PaidInv, LedgerInv
  <2>2. pc[x] = "paid" => \A p \in 1 .. Len(payments') : payments'[p].ref # tx[x].ref
    BY <2>1 DEF Records, SameNames
  <2>3. QED BY <2>1, <2>2, OthersRecord DEF OthersGo
<1>3. InsertsApart'
  BY DEF PaidInv, InsertsApart, OthersGo
<1>4. QED BY <1>1, <1>2, <1>3 DEF PaidInv

\* Nothing of a request changes.
LEMMA PaidBeside ==
  ASSUME PaidInv, LedgerInv', UNCHANGED local, SameNames, MoreCharges, OneChargeEach'
  PROVE  PaidInv'
<1>1. PaymentsAccounted' /\ NamesApart'
  BY RowsAccounted DEF PaidInv
<1>2. ASSUME NEW x \in Handlers PROVE Records(x)'
  <2>1. Records(x) /\ TypeOK
    BY DEF PaidInv, LedgerInv
  <2>2. pc[x] = "paid" => \A p \in 1 .. Len(payments') : payments'[p].ref # tx[x].ref
    BY <2>1 DEF Records, SameNames
  <2>3. QED BY <2>1, <2>2, OthersRecord DEF local
<1>3. InsertsApart'
  BY DEF PaidInv, InsertsApart, local
<1>4. QED BY <1>1, <1>2, <1>3 DEF PaidInv

-----------------------------------------------------------------------------
(* Statements that record no payment.                                        *)

Tracked == {"charged", "lockCreate", "create", "complete", "sum", "insert", "paid"}

\* Step of w that leaves the names alone, and after which w is not recording a payment.
Aside(w) == OthersGo(w) /\ pc'[w] \notin Tracked /\ SameNames /\ charges' = charges

LEMMA ChargesKept == ASSUME TypeOK, charges' = charges PROVE MoreCharges
BY RowShapes DEF MoreCharges

LEMMA NamesKept == ASSUME TypeOK, payments' = payments PROVE SameNames
BY RowShapes DEF SameNames

LEMMA AsideKeeps ==
  ASSUME PaidInv, LedgerInv', NEW w \in Handlers, Aside(w)
  PROVE  PaidInv'
<1>1. MoreCharges
  BY ChargesKept DEF PaidInv, LedgerInv, Aside
<1>2. OneChargeEach'
  BY DEF PaidInv, OneChargeEach, Aside
<1>3. Records(w)' /\ pc'[w] # "paid"
  BY DEF Records, Aside, Tracked
<1>4. QED BY <1>1, <1>2, <1>3, PaidFrame DEF Aside

LEMMA EndOthers ==
  ASSUME TypeOK, NEW w \in Handlers, Finish(w)
  PROVE  OthersGo(w) /\ pc'[w] = "idle"
<1>1. /\ pc \in [Handlers -> Stages] /\ tx \in [Handlers -> TxRows]
      /\ share \in [Orders -> SUBSET Handlers]
  BY DEF TypeOK
<1>2. pc' = [pc EXCEPT ![w] = "idle"] /\ tx' = [tx EXCEPT ![w] = NoTx]
  BY DEF Finish, GoTo
<1>3. share' = [o \in Orders |-> share[o] \ {w}]
  BY DEF Finish, Release
<1>4. QED BY <1>1, <1>2, <1>3 DEF OthersGo

\* The request goes on to stage s, and what it has read changes.
LEMMA GoesOn ==
  ASSUME TypeOK, NEW w \in Handlers, NEW s, GoTo(w, s), share' = share,
         \A x \in Handlers \ {w} : tx'[x] = tx[x]
  PROVE  OthersGo(w) /\ pc'[w] = s
<1>1. pc \in [Handlers -> Stages] /\ pc' = [pc EXCEPT ![w] = s]
  BY DEF TypeOK, GoTo
<1>2. QED BY <1>1 DEF OthersGo

LEMMA EndAside ==
  ASSUME TypeOK, NEW w \in Handlers, Finish(w), SameNames, charges' = charges
  PROVE  Aside(w)
BY EndOthers DEF Aside, Tracked

LEMMA DropAside ==
  ASSUME TypeOK, NEW w \in Handlers, Drop(w)
  PROVE  Aside(w)
BY EndAside, NamesKept DEF Drop, rows

LEMMA LockOthers ==
  ASSUME TypeOK, NEW w \in Handlers, NEW from, NEW to, LockOrder(w, from, to)
  PROVE  /\ OthersGo(w) /\ pc'[w] = to /\ SameNames /\ charges' = charges
         /\ UNCHANGED <<refunds, payments, returned>>
         /\ tx'[w] = [tx[w] EXCEPT !.seen = refundedTotal[tx[w].order]]
<1>1. /\ GoTo(w, to) /\ tx' = [tx EXCEPT ![w].seen = refundedTotal[tx[w].order]]
      /\ UNCHANGED <<rows, provider, share>>
  BY DEF LockOrder
<1>2. \A x \in Handlers \ {w} : tx'[x] = tx[x]
  BY <1>1 DEF TypeOK
<1>3. tx'[w] = [tx[w] EXCEPT !.seen = refundedTotal[tx[w].order]]
  BY <1>1 DEF TypeOK
<1>4. QED BY <1>1, <1>2, <1>3, GoesOn, NamesKept DEF rows, provider

\* Requests for captures and refunds, and the statements that serve them.
LEMMA CaptureAside ==
  ASSUME LedgerInv, NEW w \in Handlers, CapturePayment(w)
  PROVE  Aside(w)
<1> DEFINE p == tx[w].payment
           row == [payments[p] EXCEPT !.status = "captured"]
<1>1. TypeOK /\ Knows(w) /\ pc[w] = "capture" /\ Finish(w) /\ charges' = charges
  BY DEF LedgerInv, CapturePayment, provider
<1>2. p \in 1 .. Len(payments)
  BY <1>1 DEF Knows, PaymentStages
<1>3. CASE payments' = payments
  BY <1>1, <1>3, NamesKept, EndAside
<1>4. CASE payments' = [payments EXCEPT ![p].status = "captured"]
  <2>1. payments \in Seq(PaymentRows) /\ payments[p] \in PaymentRows /\ Len(payments) \in Nat
    BY <1>1, <1>2, RowShapes DEF TypeOK
  <2>2. row.order = payments[p].order /\ row.ref = payments[p].ref /\ row.amount = payments[p].amount
    BY <2>1 DEF PaymentRows
  <2>3. payments' = [payments EXCEPT ![p] = row]
    BY <1>2, <1>4, <2>1
  <2> HIDE DEF row
  <2>4. SameNames
    BY <1>2, <2>1, <2>2, <2>3 DEF SameNames
  <2>5. QED BY <1>1, <2>4, EndAside
<1>5. QED BY <1>3, <1>4 DEF CapturePayment

LEMMA RecordAside ==
  ASSUME LedgerInv, NEW w \in Handlers, RecordRefund(w)
  PROVE  Aside(w)
<1> DEFINE p == tx[w].payment
           s == IF tx[w].amount + Tolerance >= payments[p].amount THEN "refunded" ELSE "partially_refunded"
           row == [payments[p] EXCEPT !.status = s]
<1>1. TypeOK /\ Knows(w) /\ pc[w] = "received"
  BY DEF LedgerInv, RecordRefund
<1>2. p \in 1 .. Len(payments)
  BY <1>1 DEF Knows, PaymentStages
<1>3. CASE Drop(w)
  BY <1>1, <1>3, DropAside
<1>4. CASE payments' = [payments EXCEPT ![p].status = s] /\ Finish(w) /\ charges' = charges
  <2>1. payments \in Seq(PaymentRows) /\ payments[p] \in PaymentRows /\ Len(payments) \in Nat
    BY <1>1, <1>2, RowShapes DEF TypeOK
  <2> HIDE DEF s
  <2>2. row.order = payments[p].order /\ row.ref = payments[p].ref /\ row.amount = payments[p].amount
    BY <2>1 DEF PaymentRows
  <2>3. payments' = [payments EXCEPT ![p] = row]
    BY <1>2, <1>4, <2>1
  <2> HIDE DEF row
  <2>4. SameNames
    BY <1>2, <2>1, <2>2, <2>3 DEF SameNames
  <2>5. QED BY <1>1, <1>4, <2>4, EndAside
<1>5. QED BY <1>3, <1>4 DEF RecordRefund

LEMMA StatementsAside ==
  ASSUME LedgerInv, NEW w \in Handlers,
         \/ LockForCapture(w) \/ CapturePayment(w)
         \/ LockForRefund(w) \/ CheckRefund(w) \/ CallProvider(w) \/ CommitRefund(w)
         \/ FindPayment(w) \/ LockForReceived(w) \/ RecordRefund(w) \/ StatementFails(w)
  PROVE  Aside(w)
<1>1. TypeOK
  BY DEF LedgerInv
<1>2. CASE LockForCapture(w) \/ LockForRefund(w) \/ LockForReceived(w)
  <2>1. LockOrder(w, "lockCapture", "capture") \/ LockOrder(w, "lockRefund", "check")
          \/ LockOrder(w, "lockReceived", "received")
    BY <1>2 DEF LockForCapture, LockForRefund, LockForReceived
  <2>2. OthersGo(w) /\ SameNames /\ charges' = charges
    BY <1>1, <2>1, LockOthers
  <2>3. pc'[w] \in {"capture", "check", "received"}
    BY <1>1, <2>1, LockOthers
  <2>4. QED BY <2>2, <2>3 DEF Aside, Tracked
<1>3. CASE CheckRefund(w)
  <2>1. payments' = payments /\ charges' = charges
    BY <1>3 DEF CheckRefund, rows, provider
  <2>2. CASE Finish(w)
    BY <1>1, <2>1, <2>2, NamesKept, EndAside
  <2>3. CASE /\ GoTo(w, IF payments[tx[w].payment].ref = None THEN "commit" ELSE "call")
             /\ tx' = [tx EXCEPT ![w].status = "pending"]
             /\ UNCHANGED <<lock, share>>
    <3>1. \A x \in Handlers \ {w} : tx'[x] = tx[x]
      BY <1>1, <2>3 DEF TypeOK
    <3>2. OthersGo(w) /\ pc'[w] \in {"commit", "call"}
      BY <1>1, <2>3, <3>1, GoesOn
    <3>3. QED BY <1>1, <2>1, <3>2, NamesKept DEF Aside, Tracked
  <2>4. QED BY <1>3, <2>2, <2>3 DEF CheckRefund
<1>4. CASE CallProvider(w)
  <2>1. payments' = payments /\ charges' = charges /\ share' = share /\ GoTo(w, "commit")
    BY <1>4 DEF CallProvider, rows
  <2>2. \A x \in Handlers \ {w} : tx'[x] = tx[x]
    BY <1>1, <1>4 DEF TypeOK, CallProvider
  <2>3. QED BY <1>1, <2>1, <2>2, GoesOn, NamesKept DEF Aside, Tracked
<1>5. CASE CommitRefund(w)
  BY <1>1, <1>5, NamesKept, EndAside DEF CommitRefund, provider
<1>6. CASE FindPayment(w)
  <2>1. CASE Drop(w)
    BY <1>1, <2>1, DropAside
  <2>2. CASE ~Drop(w)
    <3>1. GoTo(w, "lockReceived") /\ UNCHANGED <<rows, provider, share>>
      BY <1>6, <2>2 DEF FindPayment
    <3>2. \A x \in Handlers \ {w} : tx'[x] = tx[x]
      BY <1>1, <1>6, <2>2 DEF TypeOK, FindPayment
    <3>3. QED BY <1>1, <3>1, <3>2, GoesOn, NamesKept DEF Aside, Tracked, rows, provider
  <2>3. QED BY <2>1, <2>2
<1>7. CASE StatementFails(w)
  BY <1>1, <1>7, DropAside DEF StatementFails
<1>8. QED BY <1>2, <1>3, <1>4, <1>5, <1>6, <1>7, CaptureAside, RecordAside

LEMMA RequestsAside ==
  ASSUME LedgerInv, NEW w \in Handlers, NEW p, NEW a, NEW k,
         RequestCapture(w, p) \/ RequestRefund(w, p, a, k) \/ Crash(w)
  PROVE  Aside(w)
<1>1. TypeOK
  BY DEF LedgerInv
<1>2. CASE Crash(w)
  BY <1>1, <1>2, NamesKept, EndAside DEF Crash, rows, provider
<1>3. CASE ~Crash(w)
  <2>1. PICK s, t : s \in {"lockCapture", "lockRefund"} /\ Start(w, s, t) /\ UNCHANGED <<rows, provider>>
    BY <1>3 DEF RequestCapture, RequestRefund
  <2>2. \A x \in Handlers \ {w} : tx'[x] = tx[x]
    BY <1>1, <2>1 DEF TypeOK, Start
  <2>3. QED BY <1>1, <2>1, <2>2, GoesOn, NamesKept DEF Aside, Tracked, Start, rows, provider
<1>4. QED BY <1>2, <1>3

-----------------------------------------------------------------------------
(* Statements that go on to record a payment.                                *)

\* A request for a payment names nothing, or a charge of its order.
LEMMA CreateRequested ==
  ASSUME PaidInv, LedgerInv', NEW w \in Handlers, NEW o \in Orders, NEW a, NEW ref,
         RequestCreate(w, o, a, ref),
         ref = None \/ \E c \in 1 .. Len(charges) : charges[c].order = o /\ ref \in ApiNames(c)
  PROVE  PaidInv'
<1> DEFINE t == [NoTx EXCEPT !.op = "create", !.order = o, !.amount = a, !.ref = ref]
<1>1. TypeOK /\ t.order = o /\ t.ref = ref
  BY DEF PaidInv, LedgerInv, NoTx
<1>2. /\ GoTo(w, "lockCreate") /\ tx' = [tx EXCEPT ![w] = t] /\ "create" \in Ops
      /\ share' = share /\ payments' = payments /\ charges' = charges
  BY DEF RequestCreate, Start, rows, provider
<1> HIDE DEF t
<1>3. tx'[w] = t /\ \A x \in Handlers \ {w} : tx'[x] = tx[x]
  BY <1>1, <1>2 DEF TypeOK
<1>4. OthersGo(w) /\ pc'[w] = "lockCreate"
  BY <1>1, <1>2, <1>3, GoesOn
<1>5. Records(w)'
  BY <1>1, <1>2, <1>3, <1>4 DEF Records
<1>6. OneChargeEach'
  BY <1>2 DEF PaidInv, OneChargeEach
<1>7. QED BY <1>1, <1>2, <1>4, <1>5, <1>6, NamesKept, ChargesKept, PaidFrame

LEMMA TokenCharged ==
  ASSUME PaidInv, LedgerInv', NEW w \in Handlers, NEW o \in Orders, ChargeToken(w, o)
  PROVE  PaidInv'
<1>1. TypeOK /\ Provider = "stripe" /\ "delegated" \in Ops /\ payments' = payments
  BY DEF PaidInv, LedgerInv, ChargeToken, rows
<1>2. MoreCharges
  <2>1. CASE charges' = charges
    BY <1>1, <2>1, ChargesKept
  <2>2. CASE charges' = Append(charges, [order |-> o, amount |-> Total[o], token |-> TRUE])
    <3> DEFINE C == [order : Orders, amount : Nat, token : BOOLEAN]
               row == [order |-> o, amount |-> Total[o], token |-> TRUE]
    <3>1. row \in C /\ charges \in Seq(C) /\ charges' = Append(charges, row)
      BY <1>1, <2>2, PaymentNumbers DEF TypeOK
    <3> HIDE DEF C, row
    <3>2. QED BY <3>1 DEF MoreCharges
  <2>3. QED BY <2>1, <2>2 DEF ChargeToken
<1>3. PICK c \in {k \in 1 .. Len(charges') : charges'[k].order = o /\ charges'[k].token} :
        Start(w, "charged", [NoTx EXCEPT !.op = "delegated", !.order = o,
                                         !.amount = Total[o], !.ref = <<"intent", c>>])
  BY DEF ChargeToken
<1> DEFINE t == [NoTx EXCEPT !.op = "delegated", !.order = o,
                             !.amount = Total[o], !.ref = <<"intent", c>>]
<1>4. t.order = o /\ t.ref = <<"intent", c>>
  BY DEF NoTx
<1>5. GoTo(w, "charged") /\ tx' = [tx EXCEPT ![w] = t] /\ share' = share
  BY <1>3 DEF Start
<1> HIDE DEF t
<1>6. tx'[w] = t /\ \A x \in Handlers \ {w} : tx'[x] = tx[x]
  BY <1>1, <1>5 DEF TypeOK
<1>7. OthersGo(w) /\ pc'[w] = "charged"
  BY <1>1, <1>5, <1>6, GoesOn
<1>8. t.ref \in ApiNames(c)
  BY <1>1, <1>4 DEF ApiNames
<1>9. Records(w)'
  BY <1>3, <1>4, <1>6, <1>7, <1>8 DEF Records
<1>10. OneChargeEach'
  BY <1>1 DEF OneChargeEach
<1>11. QED BY <1>1, <1>2, <1>7, <1>9, <1>10, NamesKept, PaidFrame

LEMMA ChargedPlaced ==
  ASSUME PaidInv, LedgerInv', NEW w \in Handlers, PlaceCharged(w) \/ LockForCreate(w)
  PROVE  PaidInv'
<1>1. TypeOK /\ Records(w)
  BY DEF PaidInv, LedgerInv
<1>2. CASE Finish(w) /\ payments' = payments /\ charges' = charges
  BY <1>1, <1>2, NamesKept, EndAside, AsideKeeps
<1>3. CASE /\ OthersGo(w) /\ pc[w] \in {"charged", "lockCreate"}
           /\ pc'[w] \in {"lockCreate", "create"}
           /\ tx'[w].order = tx[w].order /\ tx'[w].ref = tx[w].ref
           /\ payments' = payments /\ charges' = charges
  <2>1. Records(w)'
    BY <1>1, <1>3 DEF Records
  <2>2. OneChargeEach'
    BY <1>3 DEF PaidInv, OneChargeEach
  <2>3. QED BY <1>1, <1>3, <2>1, <2>2, NamesKept, ChargesKept, PaidFrame
<1>4. CASE PlaceCharged(w)
  <2>1. payments' = payments /\ charges' = charges /\ pc[w] = "charged"
    BY <1>4 DEF PlaceCharged, provider
  <2>2. CASE GoTo(w, "lockCreate") /\ UNCHANGED <<tx, lock, share>>
    BY <1>1, <1>3, <2>1, <2>2, GoesOn
  <2>3. QED BY <1>2, <1>4, <2>1, <2>2 DEF PlaceCharged
<1>5. CASE LockForCreate(w)
  <2>1. pc[w] = "lockCreate" /\ LockOrder(w, "lockCreate", "create")
    BY <1>5 DEF LockForCreate, LockOrder
  <2>2. tx'[w].order = tx[w].order /\ tx'[w].ref = tx[w].ref
    <3>1. tx[w] \in TxRows /\ tx'[w] = [tx[w] EXCEPT !.seen = refundedTotal[tx[w].order]]
      BY <1>1, <2>1, LockOthers DEF TypeOK
    <3>2. QED BY <3>1 DEF TxRows
  <2>3. OthersGo(w) /\ pc'[w] = "create" /\ payments' = payments /\ charges' = charges
    BY <1>1, <2>1, LockOthers
  <2>4. QED BY <1>3, <2>1, <2>2, <2>3
<1>6. QED BY <1>4, <1>5

LEMMA EventReceived ==
  ASSUME PaidInv, LedgerInv', NEW w \in Handlers, NEW e \in Events, ReceiveEvent(w, e)
  PROVE  PaidInv'
<1>1. TypeOK /\ payments' = payments /\ charges' = charges
  BY DEF PaidInv, LedgerInv, ReceiveEvent
<1>2. CASE UNCHANGED local
  <2>1. OneChargeEach'
    BY <1>1 DEF PaidInv, OneChargeEach
  <2>2. QED BY <1>1, <1>2, <2>1, NamesKept, ChargesKept, PaidBeside
<1>3. CASE Start(w, IF e.kind = "paid" THEN "lookup" ELSE "find",
                 [NoTx EXCEPT !.op = "webhook", !.event = e])
  <2>1. \A x \in Handlers \ {w} : tx'[x] = tx[x]
    BY <1>1, <1>3 DEF TypeOK, Start
  <2>2. OthersGo(w) /\ pc'[w] \in {"lookup", "find"}
    BY <1>1, <1>3, <2>1, GoesOn DEF Start
  <2>3. Aside(w)
    BY <1>1, <2>2, NamesKept DEF Aside, Tracked
  <2>4. QED BY <2>3, AsideKeeps
<1>4. QED BY <1>2, <1>3 DEF ReceiveEvent

\* What the request knows of charge c when it goes on to stage s.
LEMMA ChargeKnown ==
  ASSUME PaidInv, LedgerInv', NEW w \in Handlers, NEW c \in 1 .. Len(charges), OthersGo(w),
         pc'[w] \in {"complete", "sum", "insert"}, tx'[w].event = PaidEvent(c),
         tx'[w].order = charges[c].order, tx'[w].amount = charges[c].amount,
         payments' = payments, charges' = charges
  PROVE  PaidInv'
<1>1. TypeOK
  BY DEF PaidInv, LedgerInv
<1>2. Records(w)' /\ pc'[w] # "paid"
  BY DEF Records, PaidEvent
<1>3. OneChargeEach'
  BY DEF PaidInv, OneChargeEach
<1>4. QED BY <1>1, <1>2, <1>3, NamesKept, ChargesKept, PaidFrame

LEMMA EventLookedUp ==
  ASSUME PaidInv, LedgerInv', NEW w \in Handlers, LookUpOrder(w)
  PROVE  PaidInv'
<1>1. TypeOK /\ Knows(w) /\ pc[w] = "lookup" /\ payments' = payments /\ charges' = charges
  BY DEF PaidInv, LedgerInv, LookUpOrder, rows, provider
<1>2. PICK c \in 1 .. Len(charges) : tx[w].event = PaidEvent(c)
  BY <1>1 DEF Knows, PaidStages
<1>3. tx[w].event.n = c
  BY <1>2 DEF PaidEvent
<1>4. PICK o : o = charges[c].order
  OBVIOUS
<1>5. PICK a : a = charges[c].amount
  OBVIOUS
<1>6. tx' = [tx EXCEPT ![w].order = o, ![w].amount = a]
  BY <1>3, <1>4, <1>5 DEF LookUpOrder
<1>7. \A x \in Handlers \ {w} : tx'[x] = tx[x]
  BY <1>1, <1>6 DEF TypeOK
<1>8. tx'[w].event = PaidEvent(c) /\ tx'[w].order = o /\ tx'[w].amount = a
  <2>1. tx[w] \in TxRows /\ tx'[w] = [tx[w] EXCEPT !.order = o, !.amount = a]
    BY <1>1, <1>6 DEF TypeOK
  <2>2. QED BY <1>2, <2>1 DEF TxRows
<1>9. OthersGo(w) /\ pc'[w] \in {"sum", "complete"}
  BY <1>1, <1>7, GoesOn DEF LookUpOrder
<1>10. QED BY <1>1, <1>4, <1>5, <1>8, <1>9, ChargeKnown

LEMMA EventGoesOn ==
  ASSUME PaidInv, LedgerInv', NEW w \in Handlers, AutoComplete(w) \/ SumCaptures(w)
  PROVE  PaidInv'
<1>1. TypeOK /\ Records(w) /\ pc[w] \in {"complete", "sum"}
  BY DEF PaidInv, LedgerInv, AutoComplete, SumCaptures
<1>2. CASE Drop(w)
  BY <1>1, <1>2, DropAside, AsideKeeps
<1>3. CASE ~Drop(w)
  <2>1. PICK s : s \in {"sum", "insert"} /\ GoTo(w, s) /\ UNCHANGED <<payments, charges, tx, share>>
    BY <1>3 DEF AutoComplete, SumCaptures, rows, provider
  <2>2. OthersGo(w) /\ pc'[w] \in {"sum", "insert"}
    BY <1>1, <2>1, GoesOn
  <2>3. PICK c \in 1 .. Len(charges) : /\ tx[w].event = PaidEvent(c) /\ tx[w].order = charges[c].order
                                       /\ tx[w].amount = charges[c].amount
    BY <1>1 DEF Records
  <2>4. QED BY <2>1, <2>2, <2>3, ChargeKnown
<1>4. QED BY <1>2, <1>3

\* ON CONFLICT waits for a row of the same name that is not committed yet.
LEMMA PaymentInserted ==
  ASSUME PaidInv, LedgerInv', NEW w \in Handlers, InsertPayment(w)
  PROVE  PaidInv'
<1>1. TypeOK /\ Records(w) /\ pc[w] = "insert" /\ OneChargeEach
  BY DEF PaidInv, LedgerInv, InsertPayment
<1>2. CASE Drop(w)
  BY <1>1, <1>2, DropAside, AsideKeeps
<1>3. CASE ~Drop(w)
  <2>1. PICK c \in 1 .. Len(charges) : /\ tx[w].event = PaidEvent(c) /\ tx[w].order = charges[c].order
                                       /\ tx[w].amount = charges[c].amount
    BY <1>1 DEF Records
  <2>2. PICK o : o = tx[w].order
    OBVIOUS
  <2>3. PICK ref : ref = PaidRef(c)
    OBVIOUS
  <2>4. tx[w].event.n = c /\ o \in Orders /\ ref # None
    BY <1>1, <2>1, <2>2, <2>3, RowShapes, NamesOfCharges DEF PaidEvent
  <2>5. /\ WithRef(o, ref) = {} /\ \A h \in share[o] : tx[h].ref # ref
        /\ share' = [share EXCEPT ![o] = @ \cup {w}] /\ GoTo(w, "paid")
        /\ tx' = [tx EXCEPT ![w].ref = ref] /\ UNCHANGED <<rows, provider, lock>>
    BY <1>3, <2>2, <2>3, <2>4 DEF InsertPayment
  <2>6. \A x \in Handlers \ {w} : tx'[x] = tx[x] /\ pc'[x] = pc[x]
    BY <1>1, <2>5 DEF TypeOK, GoTo
  <2>7. /\ tx'[w].event = PaidEvent(c) /\ tx'[w].order = charges[c].order
        /\ tx'[w].amount = charges[c].amount /\ tx'[w].ref = ref
    <3>1. tx[w] \in TxRows /\ tx'[w] = [tx[w] EXCEPT !.ref = ref]
      BY <1>1, <2>5 DEF TypeOK
    <3>2. QED BY <2>1, <3>1 DEF TxRows
  <2>8. pc'[w] = "paid" /\ w \in share'[o] /\ \A q \in Orders : share[q] \subseteq share'[q]
    BY <1>1, <2>4, <2>5 DEF TypeOK, GoTo
  <2>9. OthersGo(w)
    BY <2>6, <2>8 DEF OthersGo
  <2>10. payments' = payments /\ charges' = charges
    BY <2>5 DEF rows, provider
  <2>11. \A p \in 1 .. Len(payments) : payments[p].ref # ref
    <3> SUFFICES ASSUME NEW p \in 1 .. Len(payments), payments[p].ref = ref PROVE FALSE
      OBVIOUS
    <3>1. payments[p].order # o
      BY <2>4, <2>5 DEF WithRef, PaymentsOf
    <3>2. Accounted(payments[p].order, payments[p].amount, payments[p].ref)
      BY DEF PaidInv, PaymentsAccounted
    <3>3. PICK d \in 1 .. Len(charges) : charges[d].order = payments[p].order
                                         /\ ref \in {PaidRef(d)} \cup ApiNames(d)
      BY <2>4, <3>2 DEF Accounted
    <3>4. d = c
      BY <1>1, <2>3, <3>3, NamesOfCharges
    <3>5. QED BY <2>1, <2>2, <3>1, <3>3, <3>4
  <2>12. \A x \in Handlers \ {w} : pc[x] = "paid" => tx[x].ref # ref
    <3> SUFFICES ASSUME NEW x \in Handlers \ {w}, pc[x] = "paid", tx[x].ref = ref PROVE FALSE
      OBVIOUS
    <3>1. Records(x)
      BY DEF PaidInv
    <3>2. PICK d \in 1 .. Len(charges) : tx[x].order = charges[d].order /\ tx[x].ref = PaidRef(d)
                                         /\ x \in share[tx[x].order]
      BY <3>1 DEF Records
    <3>3. d = c
      BY <1>1, <2>3, <3>2, NamesOfCharges
    <3>4. QED BY <2>1, <2>2, <2>5, <3>2, <3>3
  <2>13. Records(w)'
    <3>1. PaidRef(c)' = ref /\ c \in 1 .. Len(charges')
      BY <1>1, <2>3, <2>10, NamesStay, ChargesKept
    <3>2. QED BY <2>1, <2>2, <2>7, <2>8, <2>10, <2>11, <3>1 DEF Records, PaidEvent
  <2>14. OneChargeEach'
    BY <1>1, <2>10 DEF OneChargeEach
  <2>15. QED BY <1>1, <2>7, <2>9, <2>10, <2>12, <2>13, <2>14, NamesKept, ChargesKept, PaidFrame
<1>4. QED BY <1>2, <1>3

\* A payment is added: it is accounted for, and its name is new.
LEMMA PaymentRecorded ==
  ASSUME PaidInv, LedgerInv', NEW w \in Handlers, OthersGo(w), pc'[w] \notin Tracked,
         NEW row \in PaymentRows, payments' = Append(payments, row), charges' = charges,
         Accounted(row.order, row.amount, row.ref),
         row.ref # None => \A p \in 1 .. Len(payments) : payments[p].ref # row.ref,
         row.ref # None => \A x \in Handlers \ {w} : pc[x] = "paid" => tx[x].ref # row.ref
  PROVE  PaidInv'
<1>0. PICK n : n = Len(payments) + 1
  OBVIOUS
<1>1. TypeOK /\ MoreCharges /\ payments \in Seq(PaymentRows)
  BY ChargesKept DEF PaidInv, LedgerInv, TypeOK
<1>2. /\ Len(payments) \in Nat /\ 1 .. Len(payments') = (1 .. Len(payments)) \cup {n}
      /\ n \notin 1 .. Len(payments) /\ payments'[n] = row
      /\ \A p \in 1 .. Len(payments) : payments'[p] = payments[p]
  BY <1>0, <1>1
<1>3. ASSUME NEW p \in 1 .. Len(payments')
      PROVE  Accounted(payments[p].order, payments[p].amount, payments[p].ref)'
  <2>1. PICK r : r = payments'[p]
    OBVIOUS
  <2>2. Accounted(r.order, r.amount, r.ref)
    BY <1>2, <2>1 DEF PaidInv, PaymentsAccounted
  <2>3. Accounted(r.order, r.amount, r.ref)'
    BY <1>1, <2>2, AccountedStays
  <2>4. QED BY <2>1, <2>3 DEF Accounted
<1>4. PaymentsAccounted'
  BY <1>3 DEF PaymentsAccounted
<1>5. NamesApart'
  BY <1>2 DEF PaidInv, NamesApart
<1>6. Records(w)' /\ pc'[w] # "paid"
  BY DEF Records, Tracked
<1>7. ASSUME NEW x \in Handlers \ {w} PROVE Records(x)'
  <2>1. Records(x)
    BY DEF PaidInv
  <2>2. pc[x] = "paid" => tx[x].ref # None
    BY <1>1, <2>1, NamesOfCharges DEF Records, PaidInv
  <2>3. pc[x] = "paid" => \A p \in 1 .. Len(payments') : payments'[p].ref # tx[x].ref
    BY <1>2, <2>1, <2>2 DEF Records
  <2>4. QED BY <1>1, <2>1, <2>3, OthersRecord DEF OthersGo
<1>8. InsertsApart'
  BY <1>6 DEF PaidInv, InsertsApart, OthersGo
<1>9. OneChargeEach'
  BY DEF PaidInv, OneChargeEach
<1>10. QED BY <1>4, <1>5, <1>6, <1>7, <1>8, <1>9 DEF PaidInv

LEMMA PaymentCommitted ==
  ASSUME PaidInv, LedgerInv', NEW w \in Handlers, CommitPayment(w)
  PROVE  PaidInv'
<1>1. TypeOK /\ Knows(w) /\ Records(w) /\ pc[w] = "paid" /\ Finish(w) /\ charges' = charges
  BY DEF PaidInv, LedgerInv, CommitPayment
<1> DEFINE row == [order |-> tx[w].order, amount |-> tx[w].amount,
                   status |-> "captured", ref |-> tx[w].ref]
<1>2. PICK c \in 1 .. Len(charges) :
        tx[w].order = charges[c].order /\ tx[w].amount = charges[c].amount /\ tx[w].ref = PaidRef(c)
  BY <1>1 DEF Records
<1>3. row \in PaymentRows
  <2>1. tx[w].order \in Orders /\ tx[w].amount \in Nat /\ tx[w].ref \in References \cup {None}
    BY <1>1, <1>2, RowShapes DEF Knows, PaidStages, TypeOK
  <2>2. QED BY <2>1 DEF PaymentRows, PaymentStatus
<1>4. /\ row.order = tx[w].order /\ row.amount = tx[w].amount /\ row.ref = tx[w].ref
      /\ payments' = Append(payments, row)
  BY DEF CommitPayment
<1> HIDE DEF row
<1>5. Accounted(row.order, row.amount, row.ref)
  BY <1>2, <1>4 DEF Accounted
<1>6. \A p \in 1 .. Len(payments) : payments[p].ref # row.ref
  BY <1>1, <1>4 DEF Records
<1>7. \A x \in Handlers \ {w} : pc[x] = "paid" => tx[x].ref # row.ref
  BY <1>1, <1>4 DEF PaidInv, InsertsApart
<1>8. OthersGo(w) /\ pc'[w] \notin Tracked
  BY <1>1, EndOthers DEF Tracked
<1>9. QED BY <1>1, <1>3, <1>4, <1>5, <1>6, <1>7, <1>8, PaymentRecorded

LEMMA PaymentCreated ==
  ASSUME PaidInv, LedgerInv', NEW w \in Handlers, CreatePayment(w)
  PROVE  PaidInv'
<1>1. TypeOK /\ Knows(w) /\ Records(w) /\ pc[w] = "create" /\ charges' = charges /\ OneChargeEach
  BY DEF PaidInv, LedgerInv, CreatePayment, provider
<1>2. ASSUME NEW p, AfterCreate(w, p)
      PROVE  OthersGo(w) /\ pc'[w] \notin Tracked
  <2>1. CASE Finish(w)
    BY <1>1, <2>1, EndOthers DEF Tracked
  <2>2. CASE GoTo(w, "lockCapture") /\ tx' = [tx EXCEPT ![w].payment = p] /\ Release(w)
    <3>1. pc'[w] = "lockCapture"
            /\ \A x \in Handlers \ {w} : pc'[x] = pc[x] /\ tx'[x] = tx[x]
      BY <1>1, <2>2 DEF TypeOK, GoTo
    <3>2. QED BY <1>1, <2>2, <3>1 DEF OthersGo, Release, TypeOK, Tracked
  <2>3. QED BY <1>2, <2>1, <2>2 DEF AfterCreate
<1>3. CASE payments' = payments
  <2>1. OthersGo(w) /\ pc'[w] \notin Tracked
    <3>1. CASE Finish(w)
      BY <1>1, <3>1, EndOthers DEF Tracked
    <3>2. CASE \E p : AfterCreate(w, p)
      BY <1>2, <3>2
    <3>3. QED BY <3>1, <3>2 DEF CreatePayment
  <2>2. QED BY <1>1, <1>3, <2>1, NamesKept, AsideKeeps DEF Aside
<1> DEFINE row == [order |-> tx[w].order, amount |-> tx[w].amount,
                   status |-> "pending", ref |-> tx[w].ref]
<1>4. CASE /\ WithRef(tx[w].order, tx[w].ref) = {}
           /\ payments' = Append(payments, row) /\ AfterCreate(w, Len(payments) + 1)
  <2>1. row \in PaymentRows
    <3>1. tx[w].order \in Orders /\ tx[w].amount \in Nat /\ tx[w].ref \in References \cup {None}
      BY <1>1 DEF Knows, OrderStages, Stages, TypeOK, TxRows
    <3>2. QED BY <3>1 DEF PaymentRows, PaymentStatus
  <2>2. row.order = tx[w].order /\ row.amount = tx[w].amount /\ row.ref = tx[w].ref
    OBVIOUS
  <2>3. payments' = Append(payments, row)
    BY <1>4
  <2> HIDE DEF row
  <2>4. \/ row.ref = None /\ "create" \in Ops
        \/ \E c \in 1 .. Len(charges) : charges[c].order = row.order /\ row.ref \in ApiNames(c)
    BY <1>1, <2>2 DEF Records
  <2>5. Accounted(row.order, row.amount, row.ref)
    BY <1>1, <2>4, NamesOfCharges DEF Accounted
  <2>6. ASSUME row.ref # None, NEW p \in 1 .. Len(payments), payments[p].ref = row.ref PROVE FALSE
    <3>1. PICK c \in 1 .. Len(charges) : charges[c].order = row.order /\ row.ref \in ApiNames(c)
      BY <2>4, <2>6
    <3>2. Accounted(payments[p].order, payments[p].amount, payments[p].ref)
      BY DEF PaidInv, PaymentsAccounted
    <3>3. PICK d \in 1 .. Len(charges) : charges[d].order = payments[p].order
                                         /\ row.ref \in {PaidRef(d)} \cup ApiNames(d)
      BY <2>6, <3>2 DEF Accounted
    <3>4. d = c
      BY <1>1, <3>1, <3>3, NamesOfCharges
    <3>5. p \in WithRef(tx[w].order, tx[w].ref)
      BY <2>2, <2>6, <3>1, <3>3, <3>4 DEF WithRef, PaymentsOf
    <3>6. QED BY <1>4, <3>5
  <2>7. ASSUME row.ref # None, NEW x \in Handlers \ {w}, pc[x] = "paid", tx[x].ref = row.ref PROVE FALSE
    <3>1. PICK c \in 1 .. Len(charges) : row.ref \in ApiNames(c)
      BY <2>4, <2>7
    <3>2. PICK d \in 1 .. Len(charges) : tx[x].ref = PaidRef(d)
      BY <2>7 DEF PaidInv, Records
    <3>3. QED BY <1>1, <2>7, <3>1, <3>2, NamesOfCharges
  <2>8. OthersGo(w) /\ pc'[w] \notin Tracked
    BY <1>2, <1>4
  <2>9. QED BY <1>1, <2>1, <2>3, <2>5, <2>6, <2>7, <2>8, PaymentRecorded
<1>5. QED BY <1>3, <1>4 DEF CreatePayment

-----------------------------------------------------------------------------
(* What is recorded of a charge, in every state.                             *)

LEMMA PaidEnvironment ==
  ASSUME PaidInv, LedgerInv', Environment
  PROVE  PaidInv'
<1>1. TypeOK /\ OneChargeEach
  BY DEF PaidInv, LedgerInv
<1>2. CASE charges' = charges
  <2>1. payments' = payments /\ UNCHANGED local
    BY DEF Environment, PlaceOrder, PayAtProvider, RefundAtProvider, rows
  <2>2. OneChargeEach'
    BY <1>1, <1>2 DEF OneChargeEach
  <2>3. QED BY <1>1, <1>2, <2>1, <2>2, NamesKept, ChargesKept, PaidBeside
<1>3. ASSUME NEW o \in Orders, NEW a \in Amounts, PayAtProvider(o, a)
      PROVE  PaidInv'
  <2> DEFINE C == [order : Orders, amount : Nat, token : BOOLEAN]
             row == [order |-> o, amount |-> a, token |-> FALSE]
  <2>1. row \in C /\ row.order = o /\ charges \in Seq(C) /\ charges' = Append(charges, row)
    BY <1>1, <1>3, PaymentNumbers DEF PayAtProvider, TypeOK
  <2>2. /\ MoreCharges /\ charges'[Len(charges) + 1] = row
        /\ \A c \in 1 .. Len(charges') : c \in 1 .. Len(charges) \/ c = Len(charges) + 1
    <3> HIDE DEF C, row
    <3>1. QED BY <2>1 DEF MoreCharges
  <2>3. Provider = "paystack" => \A c \in 1 .. Len(charges) : charges[c].order # o
    BY <1>3 DEF PayAtProvider
  <2>4. OneChargeEach'
    <3> HIDE DEF C, row
    <3>1. QED BY <1>1, <2>1, <2>2, <2>3 DEF OneChargeEach, MoreCharges
  <2>5. payments' = payments /\ UNCHANGED local
    BY <1>3 DEF PayAtProvider, rows
  <2>6. QED BY <1>1, <2>2, <2>4, <2>5, NamesKept, PaidBeside
<1>4. QED BY <1>2, <1>3 DEF Environment, PlaceOrder, RefundAtProvider, provider

LEMMA PaidRequest ==
  ASSUME PaidInv, LedgerInv', NEW w \in Handlers, Request(w)
  PROVE  PaidInv'
<1>1. LedgerInv /\ TypeOK
  BY DEF PaidInv, LedgerInv
<1>2. ASSUME NEW o \in Orders, NEW a \in Amounts, RequestCreate(w, o, a, None) PROVE PaidInv'
  BY <1>2, CreateRequested
<1>3. ASSUME NEW c \in 1 .. Len(charges), NEW a \in Amounts, NEW ref \in {"intent", "charge"},
             Provider = "stripe", RequestCreate(w, charges[c].order, a, <<ref, c>>)
      PROVE  PaidInv'
  <2>1. charges[c].order \in Orders /\ "create" \in Ops
    BY <1>1, <1>3, RowShapes DEF RequestCreate
  <2>2. <<ref, c>> \in ApiNames(c)
    BY <1>3, <2>1 DEF ApiNames
  <2>3. QED BY <1>3, <2>1, <2>2, CreateRequested
<1>4. ASSUME NEW p, NEW a, NEW k, RequestCapture(w, p) \/ RequestRefund(w, p, a, k) PROVE PaidInv'
  BY <1>1, <1>4, RequestsAside, AsideKeeps
<1>5. ASSUME NEW o \in Orders, ChargeToken(w, o) PROVE PaidInv'
  BY <1>5, TokenCharged
<1>6. ASSUME NEW e \in Events, ReceiveEvent(w, e) PROVE PaidInv'
  BY <1>6, EventReceived
<1>7. QED BY <1>2, <1>3, <1>4, <1>5, <1>6 DEF Request

LEMMA PaidStatement ==
  ASSUME PaidInv, LedgerInv', NEW w \in Handlers, Step(w)
  PROVE  PaidInv'
<1>1. LedgerInv
  BY DEF PaidInv
<1>2. CASE \/ LockForCapture(w) \/ CapturePayment(w)
           \/ LockForRefund(w) \/ CheckRefund(w) \/ CallProvider(w) \/ CommitRefund(w)
           \/ FindPayment(w) \/ LockForReceived(w) \/ RecordRefund(w) \/ StatementFails(w)
  BY <1>1, <1>2, StatementsAside, AsideKeeps
<1>3. CASE PlaceCharged(w) \/ LockForCreate(w)
  BY <1>3, ChargedPlaced
<1>4. CASE LookUpOrder(w) \/ AutoComplete(w) \/ SumCaptures(w)
  BY <1>4, EventLookedUp, EventGoesOn
<1>5. CASE CreatePayment(w) \/ InsertPayment(w) \/ CommitPayment(w)
  BY <1>5, PaymentCreated, PaymentInserted, PaymentCommitted
<1>6. QED BY <1>2, <1>3, <1>4, <1>5 DEF Step

LEMMA PaidInit == Init => PaidInv
<1> SUFFICES ASSUME Init PROVE PaidInv
  OBVIOUS
<1>1. Len(payments) = 0 /\ Len(charges) = 0 /\ 1 .. 0 = {}
  BY DEF Init
<1>2. \A w \in Handlers : pc[w] = "idle"
  BY DEF Init
<1>3. PaymentsAccounted /\ NamesApart /\ OneChargeEach
  BY <1>1 DEF PaymentsAccounted, NamesApart, OneChargeEach
<1>4. InsertsApart /\ \A w \in Handlers : Records(w)
  BY <1>2 DEF InsertsApart, Records
<1>5. QED BY <1>3, <1>4, InitHolds DEF PaidInv

\* Each payment is accounted for in every state.
LEMMA PaidStep == PaidInv /\ LedgerInv' /\ [Next]_vars => PaidInv'
<1> SUFFICES ASSUME PaidInv, LedgerInv', [Next]_vars PROVE PaidInv'
  OBVIOUS
<1>1. LedgerInv /\ TypeOK
  BY DEF PaidInv, LedgerInv
<1>2. CASE Environment
  BY <1>2, PaidEnvironment
<1>3. ASSUME NEW w \in Handlers, Request(w) PROVE PaidInv'
  BY <1>3, PaidRequest
<1>4. ASSUME NEW w \in Handlers, Step(w) PROVE PaidInv'
  BY <1>4, PaidStatement
<1>5. ASSUME NEW w \in Handlers, Crash(w) PROVE PaidInv'
  BY <1>1, <1>5, RequestsAside, AsideKeeps
<1>6. CASE UNCHANGED vars
  <2>1. payments' = payments /\ charges' = charges /\ UNCHANGED local
    BY <1>6 DEF vars, rows, provider
  <2>2. OneChargeEach'
    BY <2>1 DEF PaidInv, OneChargeEach
  <2>3. QED BY <1>1, <2>1, <2>2, NamesKept, ChargesKept, PaidBeside
<1>7. QED BY <1>2, <1>3, <1>4, <1>5, <1>6 DEF Next

LEMMA TablesFinite ==
  ASSUME TypeOK
  PROVE  IsFiniteSet(1 .. Len(payments)) /\ IsFiniteSet(1 .. Len(charges))
<1>1. 1 \in Int /\ Len(payments) \in Int /\ Len(charges) \in Int
  BY RowShapes
<1>2. QED BY ONLY <1>1, FS_Interval

\* The payments that the webhook recorded are some of the charges, each of them once.
LEMMA ReportedOnce ==
  ASSUME PaidInv
  PROVE  ReportedIsCharged
<1> SUFFICES ASSUME NEW o \in Orders PROVE Reported(o) <= Charged(o)
  BY DEF ReportedIsCharged
<1>1. TypeOK /\ OneChargeEach
  BY DEF PaidInv, LedgerInv
<1>2. PICK P : P = {p \in PaymentsOf(o) : \E c \in 1 .. Len(charges) : payments[p].ref = PaidRef(c)}
  OBVIOUS
<1>3. PICK S : S = {c \in 1 .. Len(charges) : charges[c].order = o}
  OBVIOUS
<1>4. PICK f : f = PaymentAmounts
  OBVIOUS
<1>5. PICK g : g = [c \in 1 .. Len(charges) |-> charges[c].amount]
  OBVIOUS
<1>6. PICK h : h = [p \in P |-> CHOOSE c \in 1 .. Len(charges) : payments[p].ref = PaidRef(c)]
  OBVIOUS
<1>7. \A p \in P : h[p] \in 1 .. Len(charges) /\ payments[p].ref = PaidRef(h[p])
  BY <1>2, <1>6
<1>8. P \in SUBSET (1 .. Len(payments)) /\ S \in SUBSET (1 .. Len(charges))
  BY <1>2, <1>3 DEF PaymentsOf
<1>9. IsFiniteSet(P) /\ IsFiniteSet(S)
  BY <1>1, <1>8, TablesFinite, FS_Subset
<1>10. ASSUME NEW p \in P
       PROVE  h[p] \in S /\ g[h[p]] = f[p] /\ f[p] \in Int
  <2>1. p \in 1 .. Len(payments) /\ payments[p].order = o
    BY <1>2 DEF PaymentsOf
  <2>2. Accounted(o, payments[p].amount, payments[p].ref)
    BY <2>1 DEF PaidInv, PaymentsAccounted
  <2>3. payments[p].ref # None
    BY <1>1, <1>7, NamesOfCharges
  <2>4. PICK d \in 1 .. Len(charges) :
          /\ charges[d].order = o /\ payments[p].ref \in {PaidRef(d)} \cup ApiNames(d)
          /\ payments[p].ref = PaidRef(d) => payments[p].amount = charges[d].amount
    BY <2>2, <2>3 DEF Accounted
  <2>5. payments[p].ref = PaidRef(d) /\ d = h[p]
    BY <1>1, <1>7, <2>4, NamesOfCharges
  <2>6. f[p] = payments[p].amount /\ f[p] \in Int
    BY <1>1, <1>4, <2>1, RowShapes DEF PaymentAmounts, PaymentRows
  <2>7. QED BY <1>3, <1>5, <2>4, <2>5, <2>6
<1>11. \A p, q \in P : h[p] = h[q] => p = q
  <2> SUFFICES ASSUME NEW p \in P, NEW q \in P, h[p] = h[q] PROVE p = q
    OBVIOUS
  <2>1. payments[p].ref = payments[q].ref /\ payments[p].ref # None
    BY <1>1, <1>7, NamesOfCharges
  <2>2. QED BY <1>8, <2>1 DEF PaidInv, NamesApart
<1>12. PICK T : T = {h[p] : p \in P}
  OBVIOUS
<1>13. \A p \in P : f[p] \in Int /\ g[h[p]] = f[p]
  BY <1>10
<1>14. SumOver(g, T) = SumOver(f, P)
  BY <1>9, <1>11, <1>12, <1>13, SumRenamed
<1>15. T \subseteq S /\ \A c \in S : g[c] \in Nat
  BY <1>1, <1>5, <1>8, <1>10, <1>12, RowShapes
<1>16. SumOver(g, T) <= SumOver(g, S)
  BY <1>9, <1>15, SumWithin
<1>17. Reported(o) = SumOver(f, P) /\ Charged(o) = SumOver(g, S)
  BY <1>2, <1>3, <1>4, <1>5 DEF Reported, Charged
<1>18. QED BY <1>14, <1>16, <1>17

\* What the webhook records of an order is never more than its customer paid at the provider,
\* for every provider and whatever else is recorded through the API: events that are sent
\* again, or twice at once, or pass a guard that failed open, are recorded once.
THEOREM EventsAreRecordedOnce == Spec => []ReportedIsCharged
<1>1. PaidInv => ReportedIsCharged
  BY ReportedOnce
<1>2. Spec => []PaidInv
  BY LedgerHolds, PaidInit, PaidStep, PTL DEF Spec
<1>3. QED BY <1>1, <1>2, PTL

\* When no payment is made through the API, an order is never credited with more than its
\* customer paid at the provider.
THEOREM OrdersAreCreditedOnce ==
  Ops \cap {"create", "delegated"} = {} => (Spec => []RecordedIsCharged)
<1> SUFFICES ASSUME Ops \cap {"create", "delegated"} = {} PROVE Spec => []RecordedIsCharged
  OBVIOUS
<1>1. PaidInv => RecordedIsCharged
  <2> SUFFICES ASSUME PaidInv PROVE RecordedIsCharged
    OBVIOUS
  <2> SUFFICES ASSUME NEW o \in Orders PROVE Received(o) <= Charged(o)
    BY DEF RecordedIsCharged
  <2>1. \A p \in PaymentsOf(o) : \E c \in 1 .. Len(charges) : payments[p].ref = PaidRef(c)
    BY DEF PaidInv, PaymentsAccounted, PaymentsOf, Accounted, ApiNames
  <2>2. PICK P : P = {p \in PaymentsOf(o) : \E c \in 1 .. Len(charges) : payments[p].ref = PaidRef(c)}
    OBVIOUS
  <2>3. PICK Q : Q = {p \in PaymentsOf(o) : payments[p].status # "pending"}
    OBVIOUS
  <2>4. Q \subseteq P /\ P \in SUBSET (1 .. Len(payments))
    BY <2>1, <2>2, <2>3 DEF PaymentsOf
  <2>5. TypeOK
    BY DEF PaidInv, LedgerInv
  <2>6. IsFiniteSet(P) /\ \A p \in P : PaymentAmounts[p] \in Nat
    <3>1. IsFiniteSet(P)
      BY <2>4, <2>5, TablesFinite, FS_Subset
    <3>2. \A p \in P : PaymentAmounts[p] \in Nat
      BY <2>4, <2>5, RowShapes DEF PaymentAmounts, PaymentRows
    <3>3. QED BY <3>1, <3>2
  <2>7. SumOver(PaymentAmounts, Q) <= SumOver(PaymentAmounts, P)
    BY <2>4, <2>6, SumWithin
  <2>8. Received(o) <= Reported(o)
    BY <2>2, <2>3, <2>7 DEF Received, Reported
  <2>9. Reported(o) <= Charged(o) /\ Received(o) \in Int /\ Reported(o) \in Int /\ Charged(o) \in Int
    <3>1. Reported(o) <= Charged(o)
      BY ReportedOnce DEF ReportedIsCharged
    <3>2. Reported(o) \in Int /\ Received(o) \in Int
      <4>1. IsFiniteSet(Q)
        BY <2>4, <2>6, FS_Subset
      <4>2. QED BY <2>2, <2>3, <2>4, <2>6, <4>1, SumType DEF Reported, Received
    <3>3. Charged(o) \in Int
      <4>1. PICK S : S = {c \in 1 .. Len(charges) : charges[c].order = o}
        OBVIOUS
      <4>2. PICK g : g = [c \in 1 .. Len(charges) |-> charges[c].amount]
        OBVIOUS
      <4>3. S \in SUBSET (1 .. Len(charges))
        BY <4>1
      <4>4. IsFiniteSet(S) /\ \A c \in S : g[c] \in Int
        <5>1. IsFiniteSet(S)
          BY <2>5, <4>3, TablesFinite, FS_Subset
        <5>2. \A c \in S : g[c] \in Int
          BY <2>5, <4>2, <4>3, RowShapes
        <5>3. QED BY <5>1, <5>2
      <4>5. QED BY <4>1, <4>2, <4>4, SumType DEF Charged
    <3>4. QED BY <3>1, <3>2, <3>3
  <2>10. QED BY <2>8, <2>9
<1>2. Spec => []PaidInv
  BY LedgerHolds, PaidInit, PaidStep, PTL DEF Spec
<1>3. QED BY <1>1, <1>2, PTL

-----------------------------------------------------------------------------
(* What is paid back, and what steps leave of it.                            *)

ReturnStages == {"lockRefund", "check", "call", "commit", "lockReceived", "received"}

NamesGrow ==
  /\ Len(payments) \in Nat /\ Len(payments') \in Nat /\ Len(payments) <= Len(payments')
  /\ \A p \in 1 .. Len(payments) : payments'[p].ref = payments[p].ref

ReturnsGrow ==
  /\ Len(returned) \in Nat /\ Len(returned') \in Nat /\ Len(returned) <= Len(returned')
  /\ \A n \in 1 .. Len(returned) : returned'[n] = returned[n]

OthersRest(w) == \A x \in Handlers \ {w} : pc'[x] = pc[x] /\ tx'[x] = tx[x]

\* At most one payment has a name by which a refund event, or the refund API, finds a charge.
LEMMA SoleName ==
  ASSUME SoleNames, PaidInv, NEW c \in 1 .. Len(charges),
         NEW p \in 1 .. Len(payments), NEW q \in 1 .. Len(payments),
         payments[p].ref = ChargeRef(c), payments[q].ref \in RefundableRefs(c) \cup {ChargeRef(c)}
  PROVE  p = q
<1>1. TypeOK /\ OneChargeEach /\ NamesApart
  BY DEF PaidInv, LedgerInv
<1>2. c \in Nat /\ charges[c].order \in Orders
  BY <1>1, RowShapes
<1>3. ChargeRef(c) \in References /\ payments[p].ref # None
  <2>1. ChargeRef(c) \in References
    BY <1>2, PaymentSets DEF ChargeRef, References, Providers
  <2>2. QED BY <2>1, PaymentNames
<1>4. PICK d \in 1 .. Len(charges) : payments[p].ref \in {PaidRef(d)} \cup ApiNames(d)
  BY <1>3 DEF PaidInv, PaymentsAccounted, Accounted
<1>5. CASE Provider \in {"stripe", "xendit"}
  BY <1>4, <1>5 DEF SoleNames, ApiNames, PaidRef, ChargeRef
<1>6. CASE Provider \in {"paystack", "razorpay"}
  <2>1. payments[q].ref = payments[p].ref
    BY <1>6 DEF RefundableRefs, ChargeRef
  <2>2. QED BY <1>1, <1>3, <2>1 DEF NamesApart
<1>7. QED BY <1>5, <1>6, PaymentSets DEF Providers

LEMMA BacksStays ==
  ASSUME ReturnsHaveCharges, MoreCharges, NamesGrow, ReturnsGrow,
         NEW CONSTANT n, NEW CONSTANT p, NEW CONSTANT a, p \in 1 .. Len(payments), Backs(n, p, a)
  PROVE  Backs(n, p, a)'
<1>1. PICK c : c = returned[n].charge
  OBVIOUS
<1>2. n \in 1 .. Len(returned) /\ returned[n].amount = a
        /\ payments[p].ref \in RefundableRefs(c) \cup {ChargeRef(c)}
  BY <1>1 DEF Backs
<1>3. c \in 1 .. Len(charges)
  BY <1>1, <1>2 DEF ReturnsHaveCharges
<1>4. ChargeRef(c)' = ChargeRef(c) /\ RefundableRefs(c)' = RefundableRefs(c)
  BY <1>3, NamesStay
<1>5. n \in 1 .. Len(returned') /\ returned'[n] = returned[n] /\ payments'[p].ref = payments[p].ref
  BY <1>2 DEF ReturnsGrow, NamesGrow
<1>6. QED BY <1>1, <1>2, <1>4, <1>5 DEF Backs

\* What a request pays back survives the steps of the others, unless they take its name.
LEMMA OthersPayBack ==
  ASSUME LedgerInv, ReturnsHaveCharges, NEW x \in Handlers, PaysBack(x), pc'[x] = pc[x], tx'[x] = tx[x],
         MoreCharges, NamesGrow, ReturnsGrow,
         pc[x] = "commit" /\ tx[x].ref # None =>
           \A r \in 1 .. Len(refunds') : refunds'[r].ref # tx[x].ref
  PROVE  PaysBack(x)'
<1>1. PICK t : t = tx[x]
  OBVIOUS
<1>2. pc[x] \in ReturnStages => t.payment \in 1 .. Len(payments)
  BY <1>1 DEF LedgerInv, Knows, PaymentStages, ReturnStages
<1>3. ASSUME pc[x] = "commit", t.ref # None
      PROVE  \E n \in 1 .. Len(returned') : t.ref = <<"refund", n>> /\ Backs(n, t.payment, t.amount)'
  <2>1. PICK n \in 1 .. Len(returned) : t.ref = <<"refund", n>> /\ Backs(n, t.payment, t.amount)
    BY <1>1, <1>3 DEF PaysBack
  <2>2. Backs(n, t.payment, t.amount)'
    BY <1>2, <1>3, <2>1, BacksStays DEF ReturnStages
  <2>3. n \in 1 .. Len(returned')
    BY <2>1 DEF ReturnsGrow
  <2>4. QED BY <2>1, <2>2, <2>3
<1>4. ASSUME pc[x] \in {"lockReceived", "received"}
      PROVE  \E n \in 1 .. Len(returned') :
               /\ t.ref = <<"refund", n>> /\ t.amount = returned'[n].amount
               /\ payments'[t.payment].ref = ChargeRef(returned[n].charge)'
  <2>1. PICK n \in 1 .. Len(returned) :
          /\ t.ref = <<"refund", n>> /\ t.amount = returned[n].amount
          /\ payments[t.payment].ref = ChargeRef(returned[n].charge)
    BY <1>1, <1>4 DEF PaysBack
  <2>2. PICK c : c = returned[n].charge
    OBVIOUS
  <2>3. c \in 1 .. Len(charges) /\ n \in 1 .. Len(returned') /\ returned'[n] = returned[n]
    BY <2>2 DEF ReturnsHaveCharges, ReturnsGrow
  <2>4. ChargeRef(c)' = ChargeRef(c)
    BY <2>3, NamesStay
  <2>5. payments'[t.payment].ref = payments[t.payment].ref
    BY <1>2, <1>4 DEF NamesGrow, ReturnStages
  <2>6. QED BY <2>1, <2>2, <2>3, <2>4, <2>5
<1>5. pc[x] \in {"lockRefund", "check", "call"} => t.ref = None
  BY <1>1 DEF PaysBack
<1>6. pc[x] = "commit" /\ t.ref # None => t.status # "failed"
  BY <1>1 DEF PaysBack
<1>7. QED BY <1>1, <1>3, <1>4, <1>5, <1>6 DEF PaysBack

LEMMA RefundsStay ==
  ASSUME LedgerInv, ReturnsHaveCharges, RefundsAreReturns, MoreCharges, NamesGrow, ReturnsGrow,
         NEW r \in 1 .. Len(refunds), NEW CONSTANT row, row = refunds[r], row.ref # None
  PROVE  /\ row.status # "failed"
         /\ \E n \in 1 .. Len(returned') :
              row.ref = <<"refund", n>> /\ Backs(n, row.payment, row.amount)'
<1>1. PICK n \in 1 .. Len(returned) : row.ref = <<"refund", n>> /\ Backs(n, row.payment, row.amount)
  BY DEF RefundsAreReturns
<1>2. row.payment \in 1 .. Len(payments)
  BY DEF LedgerInv, RefundsHavePayments
<1>3. Backs(n, row.payment, row.amount)'
  BY <1>1, <1>2, BacksStays
<1>4. n \in 1 .. Len(returned')
  BY <1>1 DEF ReturnsGrow
<1>5. row.status # "failed"
  BY DEF RefundsAreReturns
<1>6. QED BY <1>1, <1>3, <1>4, <1>5

-----------------------------------------------------------------------------
(* Steps that record no refund, and the recording of one.                    *)

LEMMA RefundsKept ==
  ASSUME ReturnsInv, refunds' = refunds, MoreCharges, NamesGrow, ReturnsGrow
  PROVE  RefundsAreReturns' /\ RefundsApart'
<1>1. LedgerInv /\ ReturnsHaveCharges /\ RefundsAreReturns /\ RefundsApart
  BY DEF ReturnsInv, PaidInv
<1>2. RefundsAreReturns'
  <2>1. ASSUME NEW r \in 1 .. Len(refunds), refunds[r].ref # None
        PROVE  /\ refunds'[r].status # "failed"
               /\ \E n \in 1 .. Len(returned') :
                    refunds'[r].ref = <<"refund", n>>
                      /\ Backs(n, refunds[r].payment, refunds[r].amount)'
    <3>1. PICK row : row = refunds[r]
      OBVIOUS
    <3>2. /\ row.status # "failed"
          /\ \E n \in 1 .. Len(returned') :
               row.ref = <<"refund", n>> /\ Backs(n, row.payment, row.amount)'
      BY <1>1, <2>1, <3>1, RefundsStay
    <3>3. row = refunds'[r]
      BY <3>1
    <3>4. QED BY <3>2, <3>3 DEF Backs
  <2>2. QED BY <2>1 DEF RefundsAreReturns
<1>3. RefundsApart'
  BY <1>1 DEF RefundsApart
<1>4. QED BY <1>2, <1>3

\* A step of w after which its request may pay back under a name of its own.
LEMMA ReturnsFrame ==
  ASSUME ReturnsInv, PaidInv', NEW w \in Handlers, OthersRest(w), refunds' = refunds,
         MoreCharges, NamesGrow, ReturnsGrow, ReturnsHaveCharges', PaysBack(w)',
         pc'[w] = "commit" /\ tx'[w].ref # None =>
           \A x \in Handlers \ {w} : pc[x] = "commit" => tx[x].ref # tx'[w].ref
  PROVE  ReturnsInv'
<1>1. LedgerInv /\ ReturnsHaveCharges /\ CommitsApart
  BY DEF ReturnsInv, PaidInv
<1>2. RefundsAreReturns' /\ RefundsApart'
  BY RefundsKept
<1>3. ASSUME NEW x \in Handlers \ {w} PROVE PaysBack(x)'
  <2>1. PaysBack(x) /\ pc'[x] = pc[x] /\ tx'[x] = tx[x]
    BY DEF ReturnsInv, OthersRest
  <2>2. pc[x] = "commit" /\ tx[x].ref # None =>
           \A r \in 1 .. Len(refunds') : refunds'[r].ref # tx[x].ref
    BY <2>1 DEF PaysBack
  <2>3. QED BY <1>1, <2>1, <2>2, OthersPayBack
<1>4. CommitsApart'
  BY <1>1 DEF CommitsApart, OthersRest
<1>5. QED BY <1>2, <1>3, <1>4 DEF ReturnsInv

\* A step beside the requests.
LEMMA ReturnsBeside ==
  ASSUME ReturnsInv, PaidInv', pc' = pc, tx' = tx, refunds' = refunds,
         MoreCharges, NamesGrow, ReturnsGrow, ReturnsHaveCharges'
  PROVE  ReturnsInv'
<1>1. LedgerInv /\ ReturnsHaveCharges
  BY DEF ReturnsInv, PaidInv
<1>2. ASSUME NEW x \in Handlers PROVE PaysBack(x)'
  <2>1. PaysBack(x)
    BY DEF ReturnsInv
  <2>2. pc[x] = "commit" /\ tx[x].ref # None =>
           \A r \in 1 .. Len(refunds') : refunds'[r].ref # tx[x].ref
    BY <2>1 DEF PaysBack
  <2>3. QED BY <1>1, <2>1, <2>2, OthersPayBack
<1>3. CommitsApart'
  BY DEF ReturnsInv, CommitsApart
<1>4. QED BY <1>2, <1>3, RefundsKept DEF ReturnsInv

\* A step of w after which its request pays nothing back.
Elsewhere(w) ==
  /\ OthersRest(w) /\ pc'[w] \notin ReturnStages /\ refunds' = refunds /\ returned' = returned
  /\ NamesGrow /\ MoreCharges

LEMMA ReturnsKept == ASSUME TypeOK, returned' = returned PROVE ReturnsGrow
BY RowShapes DEF ReturnsGrow

LEMMA ElsewhereKeeps ==
  ASSUME ReturnsInv, PaidInv', NEW w \in Handlers, Elsewhere(w)
  PROVE  ReturnsInv'
<1>1. ReturnsGrow /\ MoreCharges
  BY ReturnsKept DEF ReturnsInv, PaidInv, LedgerInv, Elsewhere
<1>2. ReturnsHaveCharges'
  BY <1>1 DEF ReturnsInv, ReturnsHaveCharges, MoreCharges, Elsewhere
<1>3. PaysBack(w)' /\ pc'[w] # "commit"
  BY DEF PaysBack, Elsewhere, ReturnStages
<1>4. QED BY <1>1, <1>2, <1>3, ReturnsFrame DEF Elsewhere

\* A refund is recorded: the provider paid it back, and its name is new.
LEMMA RefundRecorded ==
  ASSUME ReturnsInv, PaidInv', NEW w \in Handlers, OthersRest(w), pc'[w] \notin ReturnStages,
         NamesGrow, charges' = charges, returned' = returned,
         NEW row \in RefundRows, refunds' = Append(refunds, row),
         row.payment \in 1 .. Len(payments),
         row.ref # None =>
           /\ row.status # "failed"
           /\ \E n \in 1 .. Len(returned) : row.ref = <<"refund", n>> /\ Backs(n, row.payment, row.amount)
           /\ \A r \in 1 .. Len(refunds) : refunds[r].ref # row.ref
           /\ \A x \in Handlers \ {w} : pc[x] = "commit" => tx[x].ref # row.ref
  PROVE  ReturnsInv'
<1>0. PICK m : m = Len(refunds) + 1
  OBVIOUS
<1>1. LedgerInv /\ TypeOK /\ ReturnsHaveCharges /\ RefundsAreReturns /\ RefundsApart /\ CommitsApart
  BY DEF ReturnsInv, PaidInv, LedgerInv
<1>2. refunds \in Seq(RefundRows) /\ ReturnsGrow /\ MoreCharges
  BY <1>1, ReturnsKept, ChargesKept DEF TypeOK
<1>3. /\ Len(refunds) \in Nat /\ 1 .. Len(refunds') = (1 .. Len(refunds)) \cup {m}
      /\ m \notin 1 .. Len(refunds) /\ refunds'[m] = row
      /\ \A r \in 1 .. Len(refunds) : refunds'[r] = refunds[r]
  BY <1>0, <1>2
<1>4. ReturnsHaveCharges'
  BY <1>1 DEF ReturnsHaveCharges
<1>5. RefundsAreReturns'
  <2>1. ASSUME NEW r \in 1 .. Len(refunds'), refunds'[r].ref # None
        PROVE  /\ refunds'[r].status # "failed"
               /\ \E n \in 1 .. Len(returned') :
                    refunds'[r].ref = <<"refund", n>>
                      /\ Backs(n, refunds[r].payment, refunds[r].amount)'
    <3>1. PICK k : k = refunds'[r]
      OBVIOUS
    <3>2. /\ k.status # "failed"
          /\ \E n \in 1 .. Len(returned') : k.ref = <<"refund", n>> /\ Backs(n, k.payment, k.amount)'
      <4>1. CASE r \in 1 .. Len(refunds)
        <5>1. k = refunds[r] /\ k.ref # None
          BY <1>3, <2>1, <3>1, <4>1
        <5>2. QED BY <1>1, <1>2, <4>1, <5>1, RefundsStay
      <4>2. CASE r = m
        <5>1. k = row /\ k.ref # None
          BY <1>3, <2>1, <3>1, <4>2
        <5>2. PICK n \in 1 .. Len(returned) : k.ref = <<"refund", n>> /\ Backs(n, k.payment, k.amount)
          BY <5>1
        <5>3. Backs(n, k.payment, k.amount)'
          BY <1>1, <1>2, <5>1, <5>2, BacksStays
        <5>4. QED BY <5>1, <5>2, <5>3
      <4>3. QED BY <1>3, <4>1, <4>2
    <3>3. QED BY <3>1, <3>2 DEF Backs
  <2>2. QED BY <2>1 DEF RefundsAreReturns
<1>6. RefundsApart'
  BY <1>1, <1>3 DEF RefundsApart
<1>7. PaysBack(w)' /\ pc'[w] # "commit"
  BY DEF PaysBack, ReturnStages
<1>8. ASSUME NEW x \in Handlers \ {w} PROVE PaysBack(x)'
  <2>1. PaysBack(x) /\ pc'[x] = pc[x] /\ tx'[x] = tx[x]
    BY DEF ReturnsInv, OthersRest
  <2>2. pc[x] = "commit" /\ tx[x].ref # None =>
           \A r \in 1 .. Len(refunds') : refunds'[r].ref # tx[x].ref
    BY <1>3, <2>1 DEF PaysBack
  <2>3. QED BY <1>1, <1>2, <2>1, <2>2, OthersPayBack
<1>9. CommitsApart'
  BY <1>1, <1>7 DEF CommitsApart, OthersRest
<1>10. QED BY <1>4, <1>5, <1>6, <1>7, <1>8, <1>9 DEF ReturnsInv

-----------------------------------------------------------------------------
(* Requests that pay nothing back.                                           *)

LEMMA EndRest ==
  ASSUME TypeOK, NEW w \in Handlers, Finish(w)
  PROVE  OthersRest(w) /\ pc'[w] \notin ReturnStages
BY EndOthers DEF OthersGo, OthersRest, ReturnStages

LEMMA GoRest ==
  ASSUME TypeOK, NEW w \in Handlers, NEW s, GoTo(w, s), \A x \in Handlers \ {w} : tx'[x] = tx[x]
  PROVE  OthersRest(w) /\ pc'[w] = s
BY DEF TypeOK, GoTo, OthersRest

LEMMA PaymentsKept == ASSUME TypeOK, payments' = payments PROVE NamesGrow
BY RowShapes DEF NamesGrow

LEMMA DropElsewhere ==
  ASSUME TypeOK, NEW w \in Handlers, Drop(w)
  PROVE  Elsewhere(w)
BY EndRest, PaymentsKept, ChargesKept DEF Drop, Elsewhere, rows

LEMMA CreateElsewhere ==
  ASSUME LedgerInv, NEW w \in Handlers, CreatePayment(w)
  PROVE  Elsewhere(w)
<1>1. TypeOK /\ refunds' = refunds /\ returned' = returned /\ MoreCharges
  BY ChargesKept DEF LedgerInv, CreatePayment, provider
<1>2. ASSUME NEW p, AfterCreate(w, p)
      PROVE  OthersRest(w) /\ pc'[w] \notin ReturnStages
  <2>1. CASE Finish(w)
    BY <1>1, <2>1, EndRest
  <2>2. CASE GoTo(w, "lockCapture") /\ tx' = [tx EXCEPT ![w].payment = p]
    <3>1. \A x \in Handlers \ {w} : tx'[x] = tx[x]
      BY <1>1, <2>2 DEF TypeOK
    <3>2. QED BY <1>1, <2>2, <3>1, GoRest DEF ReturnStages
  <2>3. QED BY <1>2, <2>1, <2>2 DEF AfterCreate
<1>3. OthersRest(w) /\ pc'[w] \notin ReturnStages
  BY <1>1, <1>2, EndRest DEF CreatePayment
<1>4. NamesGrow
  <2>1. CASE payments' = payments
    BY <1>1, <2>1, PaymentsKept
  <2>2. CASE payments' = Append(payments, [order |-> tx[w].order, amount |-> tx[w].amount,
                                           status |-> "pending", ref |-> tx[w].ref])
    <3>1. payments \in Seq(PaymentRows) /\ Len(payments) \in Nat
      BY <1>1 DEF TypeOK
    <3>2. Len(payments') = Len(payments) + 1 /\ \A p \in 1 .. Len(payments) : payments'[p] = payments[p]
      BY <2>2, <3>1
    <3>3. QED BY <3>1, <3>2 DEF NamesGrow
  <2>3. QED BY <2>1, <2>2 DEF CreatePayment
<1>5. QED BY <1>1, <1>3, <1>4 DEF Elsewhere

LEMMA CommitElsewhere ==
  ASSUME LedgerInv, NEW w \in Handlers, CommitPayment(w)
  PROVE  Elsewhere(w)
<1>1. TypeOK /\ refunds' = refunds /\ returned' = returned /\ MoreCharges
  BY ChargesKept DEF LedgerInv, CommitPayment
<1>2. OthersRest(w) /\ pc'[w] \notin ReturnStages
  BY <1>1, EndRest DEF CommitPayment
<1>3. NamesGrow
  <2> DEFINE row == [order |-> tx[w].order, amount |-> tx[w].amount,
                     status |-> "captured", ref |-> tx[w].ref]
  <2>1. payments \in Seq(PaymentRows) /\ Len(payments) \in Nat
    BY <1>1 DEF TypeOK
  <2>2. payments' = Append(payments, row)
    BY DEF CommitPayment
  <2> HIDE DEF row
  <2>3. Len(payments') = Len(payments) + 1 /\ \A p \in 1 .. Len(payments) : payments'[p] = payments[p]
    BY <2>1, <2>2
  <2>4. QED BY <2>1, <2>3 DEF NamesGrow
<1>4. QED BY <1>1, <1>2, <1>3 DEF Elsewhere

LEMMA StatementsElsewhere ==
  ASSUME LedgerInv, NEW w \in Handlers,
         \/ LockForCreate(w) \/ CreatePayment(w) \/ LockForCapture(w) \/ CapturePayment(w)
         \/ PlaceCharged(w) \/ LookUpOrder(w) \/ AutoComplete(w) \/ SumCaptures(w)
         \/ InsertPayment(w) \/ CommitPayment(w) \/ StatementFails(w) \/ Crash(w)
  PROVE  Elsewhere(w)
<1>1. TypeOK
  BY DEF LedgerInv
<1>2. CASE LockForCreate(w) \/ LockForCapture(w)
  <2>1. LockOrder(w, "lockCreate", "create") \/ LockOrder(w, "lockCapture", "capture")
    BY <1>2 DEF LockForCreate, LockForCapture
  <2>2. OthersGo(w) /\ charges' = charges /\ UNCHANGED <<refunds, payments, returned>>
    BY <1>1, <2>1, LockOthers
  <2>3. pc'[w] \in {"create", "capture"}
    BY <1>1, <2>1, LockOthers
  <2>4. QED BY <1>1, <2>2, <2>3, PaymentsKept, ChargesKept DEF Elsewhere, OthersGo, OthersRest, ReturnStages
<1>3. CASE CapturePayment(w)
  <2>1. SameNames /\ charges' = charges
    BY <1>3, CaptureAside DEF Aside
  <2>2. Finish(w) /\ refunds' = refunds /\ returned' = returned
    BY <1>3 DEF CapturePayment, provider
  <2>3. NamesGrow
    BY <2>1 DEF SameNames, NamesGrow
  <2>4. QED BY <1>1, <2>1, <2>2, <2>3, EndRest, ChargesKept DEF Elsewhere
<1>4. CASE PlaceCharged(w)
  <2>1. UNCHANGED <<payments, charges, refunds, returned>>
    BY <1>4 DEF PlaceCharged, provider
  <2>2. OthersRest(w) /\ pc'[w] \notin ReturnStages
    <3>1. CASE Finish(w)
      BY <1>1, <3>1, EndRest
    <3>2. CASE GoTo(w, "lockCreate") /\ tx' = tx
      BY <1>1, <3>2, GoRest DEF ReturnStages
    <3>3. QED BY <1>4, <3>1, <3>2 DEF PlaceCharged
  <2>3. QED BY <1>1, <2>1, <2>2, PaymentsKept, ChargesKept DEF Elsewhere
<1>5. CASE LookUpOrder(w)
  <2>1. /\ UNCHANGED <<payments, charges, refunds, returned>>
        /\ GoTo(w, IF charges[tx[w].event.n].order \in placed THEN "sum" ELSE "complete")
    BY <1>5 DEF LookUpOrder, rows, provider
  <2>2. \A x \in Handlers \ {w} : tx'[x] = tx[x]
    BY <1>1, <1>5 DEF TypeOK, LookUpOrder
  <2>3. OthersRest(w) /\ pc'[w] \in {"sum", "complete"}
    BY <1>1, <2>1, <2>2, GoRest
  <2>4. QED BY <1>1, <2>1, <2>3, PaymentsKept, ChargesKept DEF Elsewhere, ReturnStages
<1>6. CASE AutoComplete(w) \/ SumCaptures(w)
  <2>1. CASE Drop(w)
    BY <1>1, <2>1, DropElsewhere
  <2>2. CASE ~Drop(w)
    <3>1. /\ UNCHANGED <<payments, charges, refunds, returned, tx>>
          /\ \E s \in {"sum", "insert"} : GoTo(w, s)
      BY <1>6, <2>2 DEF AutoComplete, SumCaptures, rows, provider
    <3>2. QED BY <1>1, <3>1, GoRest, PaymentsKept, ChargesKept DEF Elsewhere, ReturnStages
  <2>3. QED BY <2>1, <2>2
<1>7. CASE InsertPayment(w)
  <2>1. CASE Drop(w)
    BY <1>1, <2>1, DropElsewhere
  <2>2. CASE ~Drop(w)
    <3>1. GoTo(w, "paid") /\ UNCHANGED <<rows, provider>>
      BY <1>7, <2>2 DEF InsertPayment
    <3>2. \A x \in Handlers \ {w} : tx'[x] = tx[x]
      BY <1>1, <1>7, <2>2 DEF TypeOK, InsertPayment
    <3>3. OthersRest(w) /\ pc'[w] = "paid"
      BY <1>1, <3>1, <3>2, GoRest
    <3>4. QED BY <1>1, <3>1, <3>3, PaymentsKept, ChargesKept DEF Elsewhere, ReturnStages, rows, provider
  <2>3. QED BY <2>1, <2>2
<1>8. CASE StatementFails(w)
  BY <1>1, <1>8, DropElsewhere DEF StatementFails
<1>9. CASE Crash(w)
  BY <1>1, <1>9, EndRest, PaymentsKept, ChargesKept DEF Crash, Elsewhere, rows, provider
<1>10. QED
  BY <1>2, <1>3, <1>4, <1>5, <1>6, <1>7, <1>8, <1>9, CreateElsewhere, CommitElsewhere

LEMMA RequestsElsewhere ==
  ASSUME LedgerInv, NEW w \in Handlers,
         \/ \E o, a, ref : RequestCreate(w, o, a, ref)
         \/ \E p : RequestCapture(w, p)
         \/ \E o \in Orders : ChargeToken(w, o)
         \/ \E e \in Events : ReceiveEvent(w, e)
  PROVE  Elsewhere(w)
<1>1. TypeOK
  BY DEF LedgerInv
<1>2. ASSUME NEW s, NEW t, Start(w, s, t)
      PROVE  OthersRest(w) /\ pc'[w] = s
  <2>1. \A x \in Handlers \ {w} : tx'[x] = tx[x]
    BY <1>1, <1>2 DEF TypeOK, Start
  <2>2. QED BY <1>1, <1>2, <2>1, GoRest DEF Start
<1>3. CASE (\E o, a, ref : RequestCreate(w, o, a, ref)) \/ (\E p : RequestCapture(w, p))
  <2>1. PICK s, t : s \in {"lockCreate", "lockCapture"} /\ Start(w, s, t) /\ UNCHANGED <<rows, provider>>
    BY <1>3 DEF RequestCreate, RequestCapture
  <2>2. QED BY <1>1, <1>2, <2>1, PaymentsKept, ChargesKept DEF Elsewhere, ReturnStages, rows, provider
<1>4. ASSUME NEW o \in Orders, ChargeToken(w, o) PROVE Elsewhere(w)
  <2>1. PICK t : Start(w, "charged", t)
    BY <1>4 DEF ChargeToken
  <2>2. UNCHANGED <<payments, refunds, returned>>
    BY <1>4 DEF ChargeToken, rows
  <2>3. MoreCharges
    <3>1. CASE charges' = charges
      BY <1>1, <3>1, ChargesKept
    <3>2. CASE charges' # charges
      <4> DEFINE C == [order : Orders, amount : Nat, token : BOOLEAN]
                 row == [order |-> o, amount |-> Total[o], token |-> TRUE]
      <4>1. charges \in Seq(C) /\ charges' = Append(charges, row)
        BY <1>1, <1>4, <3>2 DEF ChargeToken, TypeOK
      <4> HIDE DEF C, row
      <4>2. QED BY <4>1 DEF MoreCharges
    <3>3. QED BY <3>1, <3>2
  <2>4. QED BY <1>1, <1>2, <2>1, <2>2, <2>3, PaymentsKept DEF Elsewhere, ReturnStages
<1>5. ASSUME NEW e \in Events, ReceiveEvent(w, e) PROVE Elsewhere(w)
  <2>1. UNCHANGED <<payments, refunds, charges, returned>>
    BY <1>5 DEF ReceiveEvent
  <2>2. CASE \E s \in {"lookup", "find"} : \E t : Start(w, s, t)
    BY <1>1, <1>2, <2>1, <2>2, PaymentsKept, ChargesKept DEF Elsewhere, ReturnStages
  <2>3. CASE UNCHANGED local
    <3>1. pc[w] = "idle"
      BY <1>5 DEF ReceiveEvent
    <3>2. QED BY <1>1, <2>1, <2>3, <3>1, PaymentsKept, ChargesKept
           DEF Elsewhere, OthersRest, ReturnStages, local
  <2>4. QED BY <1>5, <2>2, <2>3 DEF ReceiveEvent
<1>6. QED BY <1>3, <1>4, <1>5

-----------------------------------------------------------------------------
(* Statements of a refund.                                                   *)

\* A statement that changes no row and no name of a payment back.
LEMMA RefundGoesOn ==
  ASSUME ReturnsInv, PaidInv', NEW w \in Handlers, OthersRest(w),
         UNCHANGED <<payments, refunds, charges, returned>>, PaysBack(w)',
         pc'[w] = "commit" => tx'[w].ref = None
  PROVE  ReturnsInv'
<1>1. TypeOK /\ ReturnsHaveCharges
  BY DEF ReturnsInv, PaidInv, LedgerInv
<1>2. MoreCharges /\ NamesGrow /\ ReturnsGrow
  BY <1>1, ChargesKept, PaymentsKept, ReturnsKept
<1>3. ReturnsHaveCharges'
  BY <1>1 DEF ReturnsHaveCharges
<1>4. QED BY <1>2, <1>3, ReturnsFrame

LEMMA RefundRequested ==
  ASSUME ReturnsInv, PaidInv', NEW w \in Handlers,
         NEW p \in 1 .. Len(payments), NEW a, NEW k, RequestRefund(w, p, a, k)
  PROVE  ReturnsInv'
<1>1. TypeOK
  BY DEF ReturnsInv, PaidInv, LedgerInv
<1>2. PICK t : t = [NoTx EXCEPT !.op = "refund", !.payment = p, !.amount = a,
                                !.key = k, !.order = payments[p].order]
  OBVIOUS
<1>3. t.ref = None
  BY <1>2 DEF NoTx
<1>4. GoTo(w, "lockRefund") /\ tx' = [tx EXCEPT ![w] = t] /\ UNCHANGED <<rows, provider>>
  BY <1>2 DEF RequestRefund, Start
<1>5. tx'[w] = t /\ \A x \in Handlers \ {w} : tx'[x] = tx[x]
  BY <1>1, <1>4 DEF TypeOK
<1>6. OthersRest(w) /\ pc'[w] = "lockRefund"
  BY <1>1, <1>4, <1>5, GoRest
<1>7. PaysBack(w)'
  BY <1>3, <1>5, <1>6 DEF PaysBack
<1>8. QED BY <1>4, <1>6, <1>7, RefundGoesOn DEF rows, provider

LEMMA RefundLocked ==
  ASSUME ReturnsInv, PaidInv', NEW w \in Handlers, LockForRefund(w) \/ LockForReceived(w)
  PROVE  ReturnsInv'
<1>1. TypeOK /\ PaysBack(w)
  BY DEF ReturnsInv, PaidInv, LedgerInv
<1>2. ASSUME NEW from, NEW to, LockOrder(w, from, to)
      PROVE  /\ OthersRest(w) /\ pc[w] = from /\ pc'[w] = to
             /\ UNCHANGED <<payments, refunds, charges, returned>>
             /\ tx'[w].ref = tx[w].ref /\ tx'[w].amount = tx[w].amount /\ tx'[w].payment = tx[w].payment
  <2>1. /\ OthersGo(w) /\ pc'[w] = to /\ UNCHANGED <<payments, refunds, charges, returned>>
        /\ tx'[w] = [tx[w] EXCEPT !.seen = refundedTotal[tx[w].order]]
    BY <1>1, <1>2, LockOthers
  <2>2. tx[w] \in TxRows
    BY <1>1 DEF TypeOK
  <2>3. /\ tx'[w].ref = tx[w].ref /\ tx'[w].amount = tx[w].amount
        /\ tx'[w].payment = tx[w].payment
    BY <2>1, <2>2 DEF TxRows
  <2>4. QED BY <1>2, <2>1, <2>3 DEF LockOrder, OthersGo, OthersRest
<1>3. CASE LockForRefund(w)
  <2>1. LockOrder(w, "lockRefund", "check")
    BY <1>3 DEF LockForRefund
  <2>2. pc[w] = "lockRefund" /\ pc'[w] = "check" /\ tx'[w].ref = tx[w].ref
    BY <1>2, <2>1
  <2>3. PaysBack(w)'
    BY <1>1, <2>2 DEF PaysBack
  <2>4. QED BY <1>2, <2>1, <2>2, <2>3, RefundGoesOn
<1>4. CASE LockForReceived(w)
  <2>1. LockOrder(w, "lockReceived", "received")
    BY <1>4 DEF LockForReceived
  <2>2. /\ pc[w] = "lockReceived" /\ pc'[w] = "received" /\ UNCHANGED <<payments, charges, returned>>
        /\ tx'[w].ref = tx[w].ref /\ tx'[w].amount = tx[w].amount /\ tx'[w].payment = tx[w].payment
    BY <1>2, <2>1
  <2>3. \A c : ChargeRef(c)' = ChargeRef(c)
    BY <2>2 DEF ChargeRef
  <2>4. PaysBack(w)'
    BY <1>1, <2>2, <2>3 DEF PaysBack
  <2>5. QED BY <1>2, <2>1, <2>2, <2>4, RefundGoesOn
<1>5. QED BY <1>3, <1>4

LEMMA RefundChecked ==
  ASSUME ReturnsInv, PaidInv', NEW w \in Handlers, CheckRefund(w)
  PROVE  ReturnsInv'
<1>1. TypeOK /\ PaysBack(w) /\ pc[w] = "check" /\ UNCHANGED <<payments, refunds, charges, returned>>
  BY DEF ReturnsInv, PaidInv, LedgerInv, CheckRefund, rows, provider
<1>2. CASE Finish(w)
  BY <1>1, <1>2, EndRest, PaymentsKept, ChargesKept, ElsewhereKeeps DEF Elsewhere
<1>3. CASE /\ GoTo(w, IF payments[tx[w].payment].ref = None THEN "commit" ELSE "call")
           /\ tx' = [tx EXCEPT ![w].status = "pending"]
  <2>1. tx'[w] = [tx[w] EXCEPT !.status = "pending"] /\ \A x \in Handlers \ {w} : tx'[x] = tx[x]
    BY <1>1, <1>3 DEF TypeOK
  <2>2. OthersRest(w) /\ pc'[w] \in {"commit", "call"}
    BY <1>1, <1>3, <2>1, GoRest
  <2>3. tx[w] \in TxRows /\ tx[w].ref = None
    BY <1>1 DEF TypeOK, PaysBack
  <2>4. tx'[w].ref = None
    BY <2>1, <2>3 DEF TxRows
  <2>5. PaysBack(w)'
    BY <2>2, <2>4 DEF PaysBack
  <2>6. QED BY <1>1, <2>2, <2>4, <2>5, RefundGoesOn
<1>4. QED BY <1>2, <1>3 DEF CheckRefund

\* The provider pays back: the payment back is a new one.
LEMMA ProviderCalled ==
  ASSUME ReturnsInv, PaidInv', NEW w \in Handlers, CallProvider(w)
  PROVE  ReturnsInv'
<1>1. /\ TypeOK /\ ReturnsHaveCharges /\ RefundsAreReturns /\ PaysBack(w) /\ Knows(w)
      /\ pc[w] = "call" /\ UNCHANGED <<payments, refunds, charges>> /\ GoTo(w, "commit")
  BY DEF ReturnsInv, PaidInv, LedgerInv, CallProvider, rows
<1>2. tx[w] \in TxRows /\ tx[w].ref = None /\ tx[w].payment \in 1 .. Len(payments)
  BY <1>1 DEF TypeOK, PaysBack, Knows, PaymentStages
<1>3. \A x \in Handlers \ {w} : tx'[x] = tx[x]
  BY <1>1 DEF TypeOK, CallProvider
<1>4. OthersRest(w) /\ pc'[w] = "commit"
  BY <1>1, <1>3, GoRest
<1>5. ASSUME tx' = [tx EXCEPT ![w].status = "failed"]
      PROVE  tx'[w].ref = None /\ PaysBack(w)'
  <2>1. tx'[w] = [tx[w] EXCEPT !.status = "failed"]
    BY <1>1, <1>5 DEF TypeOK
  <2>2. tx'[w].ref = None
    BY <1>2, <2>1 DEF TxRows
  <2>3. QED BY <1>4, <2>2 DEF PaysBack
<1>6. CASE returned' = returned
  <2>1. tx' = [tx EXCEPT ![w].status = "failed"]
    <3>1. ASSUME NEW c, returned' = Append(returned, [charge |-> c, amount |-> tx[w].amount,
                                        payment |-> tx[w].payment, key |-> tx[w].key])
          PROVE  FALSE
      <4> DEFINE R == [charge : Nat, amount : Nat, payment : Nat, key : Keys \cup {None}]
                 row == [charge |-> c, amount |-> tx[w].amount, payment |-> tx[w].payment, key |-> tx[w].key]
      <4>1. returned \in Seq(R) /\ returned' = Append(returned, row)
        BY <1>1, <3>1 DEF TypeOK
      <4> HIDE DEF R, row
      <4>2. Len(returned') = Len(returned) + 1 /\ Len(returned) \in Nat
        BY <4>1
      <4>3. QED BY <1>6, <4>2
    <3>2. QED BY <3>1 DEF CallProvider
  <2>2. QED BY <1>1, <1>4, <1>5, <1>6, <2>1, RefundGoesOn
<1>7. ASSUME NEW c \in Refundable(payments[tx[w].payment].ref, tx[w].amount),
             returned' = Append(returned, [charge |-> c, amount |-> tx[w].amount,
                                           payment |-> tx[w].payment, key |-> tx[w].key]),
             \/ \E s \in AcceptedStatus :
                  tx' = [tx EXCEPT ![w].status = s, ![w].ref = <<"refund", Len(returned) + 1>>]
             \/ tx' = [tx EXCEPT ![w].status = "failed"]
      PROVE  ReturnsInv'
  <2>0. PICK n : n = Len(returned) + 1
    OBVIOUS
  <2> DEFINE row == [charge |-> c, amount |-> tx[w].amount, payment |-> tx[w].payment, key |-> tx[w].key]
             R == [charge : Nat, amount : Nat, payment : Nat, key : Keys \cup {None}]
  <2>1. c \in 1 .. Len(charges) /\ payments[tx[w].payment].ref \in RefundableRefs(c)
    BY <1>7 DEF Refundable
  <2>2. returned \in Seq(R) /\ returned' = Append(returned, row) /\ row.charge = c /\ row.amount = tx[w].amount
    BY <1>1, <1>7 DEF TypeOK
  <2> HIDE DEF row, R
  <2>3. /\ Len(returned) \in Nat /\ Len(returned') = n /\ returned'[n] = row /\ n \in Nat
        /\ n \notin 1 .. Len(returned) /\ 1 .. n = (1 .. Len(returned)) \cup {n}
        /\ \A r \in 1 .. Len(returned) : returned'[r] = returned[r]
    BY <2>0, <2>2
  <2>4. MoreCharges /\ NamesGrow /\ ReturnsGrow
    <3>1. ReturnsGrow
      BY <2>0, <2>3 DEF ReturnsGrow
    <3>2. QED BY <1>1, <3>1, ChargesKept, PaymentsKept
  <2>5. ReturnsHaveCharges'
    BY <1>1, <2>1, <2>2, <2>3 DEF ReturnsHaveCharges
  <2>6. CASE tx' = [tx EXCEPT ![w].status = "failed"]
    <3>1. tx'[w].ref = None /\ PaysBack(w)'
      BY <1>5, <2>6
    <3>2. QED BY <1>1, <1>4, <2>4, <2>5, <3>1, ReturnsFrame
  <2>7. ASSUME NEW s \in AcceptedStatus,
               tx' = [tx EXCEPT ![w].status = s, ![w].ref = <<"refund", Len(returned) + 1>>]
        PROVE  ReturnsInv'
    <3>1. PICK v : v = <<"refund", n>>
      OBVIOUS
    <3>2. tx'[w] = [tx[w] EXCEPT !.status = s, !.ref = v]
      BY <1>1, <2>0, <2>7, <3>1 DEF TypeOK
    <3>3. /\ tx'[w].ref = v /\ tx'[w].status = s
          /\ tx'[w].payment = tx[w].payment /\ tx'[w].amount = tx[w].amount
      BY <1>2, <3>2 DEF TxRows
    <3>4. \A r \in 1 .. Len(refunds) : refunds[r].ref # v
      <4> SUFFICES ASSUME NEW r \in 1 .. Len(refunds), refunds[r].ref = v PROVE FALSE
        OBVIOUS
      <4>1. v # None
        BY <2>3, <3>1, PaymentNames DEF RefundReferences
      <4>2. PICK k \in 1 .. Len(returned) : v = <<"refund", k>>
        BY <1>1, <4>1 DEF RefundsAreReturns
      <4>3. QED BY <2>3, <3>1, <4>2
    <3>5. \A x \in Handlers \ {w} : pc[x] = "commit" => tx[x].ref # v
      <4> SUFFICES ASSUME NEW x \in Handlers \ {w}, pc[x] = "commit", tx[x].ref = v PROVE FALSE
        OBVIOUS
      <4>1. v # None
        BY <2>3, <3>1, PaymentNames DEF RefundReferences
      <4>2. PICK k \in 1 .. Len(returned) : v = <<"refund", k>>
        BY <4>1 DEF ReturnsInv, PaysBack
      <4>3. QED BY <2>3, <3>1, <4>2
    <3>6. PICK p : p = tx[w].payment
      OBVIOUS
    <3>7. PICK a : a = tx[w].amount
      OBVIOUS
    <3>8. Backs(n, p, a)'
      <4>1. RefundableRefs(c)' = RefundableRefs(c)
        BY <1>1, <2>1, <2>4, NamesStay
      <4>2. payments'[p].ref \in RefundableRefs(c)' /\ returned'[n].charge = c /\ returned'[n].amount = a
        BY <1>1, <2>1, <2>2, <2>3, <3>6, <3>7, <4>1
      <4>3. QED BY <2>3, <4>2 DEF Backs
    <3>9. s # "failed" /\ n \in 1 .. Len(returned')
      BY <2>3 DEF AcceptedStatus
    <3>10. PaysBack(w)'
      <4>1. \E m \in 1 .. Len(returned') : v = <<"refund", m>> /\ Backs(m, p, a)'
        BY <3>1, <3>8, <3>9
      <4>2. QED BY <1>1, <1>4, <3>3, <3>4, <3>6, <3>7, <3>9, <4>1 DEF PaysBack
    <3>11. QED BY <1>1, <1>4, <2>4, <2>5, <3>3, <3>5, <3>10, ReturnsFrame
  <2>8. QED BY <1>7, <2>6, <2>7
<1>8. QED BY <1>6, <1>7 DEF CallProvider

LEMMA RefundCommitted ==
  ASSUME ReturnsInv, PaidInv', NEW w \in Handlers, CommitRefund(w)
  PROVE  ReturnsInv'
<1> DEFINE t == tx[w]
           row == [payment |-> t.payment, amount |-> t.amount, status |-> t.status,
                   ref |-> t.ref, key |-> t.key]
<1>1. /\ TypeOK /\ PaysBack(w) /\ Knows(w) /\ CommitsApart /\ pc[w] = "commit" /\ Finish(w)
      /\ payments' = payments /\ charges' = charges /\ returned' = returned
      /\ refunds' = Append(refunds, row)
  BY DEF ReturnsInv, PaidInv, LedgerInv, CommitRefund, provider
<1>2. t \in TxRows /\ t.payment \in 1 .. Len(payments)
        /\ t.ref \in RefundReferences \cup {None} /\ t.status \in RefundStatus
  BY <1>1 DEF TypeOK, Knows, PaymentStages
<1>3. row \in RefundRows
  <2>1. t.payment \in Nat /\ t.amount \in Nat /\ t.key \in Keys \cup {None}
    BY <1>2 DEF TxRows
  <2>2. QED BY <1>2, <2>1 DEF RefundRows
<1>4. /\ row.payment = tx[w].payment /\ row.amount = tx[w].amount /\ row.status = tx[w].status
      /\ row.ref = tx[w].ref
  OBVIOUS
<1> HIDE DEF t, row
<1>5. OthersRest(w) /\ pc'[w] \notin ReturnStages /\ NamesGrow
  BY <1>1, EndRest, PaymentsKept
<1>6. row.payment \in 1 .. Len(payments)
  BY <1>2, <1>4 DEF t
<1>7. row.ref # None =>
        /\ row.status # "failed"
        /\ \E n \in 1 .. Len(returned) : row.ref = <<"refund", n>> /\ Backs(n, row.payment, row.amount)
        /\ \A r \in 1 .. Len(refunds) : refunds[r].ref # row.ref
        /\ \A x \in Handlers \ {w} : pc[x] = "commit" => tx[x].ref # row.ref
  BY <1>1, <1>4 DEF PaysBack, CommitsApart
<1>8. QED BY <1>1, <1>3, <1>5, <1>6, <1>7, RefundRecorded

\* A refund event is for the payment that has the name of its charge.
LEMMA PaymentFound ==
  ASSUME ReturnsInv, PaidInv', NEW w \in Handlers, FindPayment(w)
  PROVE  ReturnsInv'
<1>1. TypeOK /\ Knows(w) /\ pc[w] = "find"
  BY DEF ReturnsInv, PaidInv, LedgerInv, FindPayment
<1>2. CASE Drop(w)
  BY <1>1, <1>2, DropElsewhere, ElsewhereKeeps
<1>3. CASE ~Drop(w)
  <2>1. PICK n \in 1 .. Len(returned) : tx[w].event = RefundEvent(n)
    BY <1>1 DEF Knows, RefundedStages
  <2>2. tx[w].event.n = n
    BY <2>1 DEF RefundEvent
  <2>3. PICK p \in 1 .. Len(payments) :
          /\ payments[p].ref = ChargeRef(returned[n].charge) /\ GoTo(w, "lockReceived")
          /\ tx' = [tx EXCEPT ![w].payment = p, ![w].order = payments[p].order,
                              ![w].amount = returned[n].amount, ![w].ref = <<"refund", n>>]
          /\ UNCHANGED <<rows, provider>>
    BY <1>3, <2>2 DEF FindPayment
  <2>4. PICK v : v = <<"refund", n>>
    OBVIOUS
  <2>5. PICK a : a = returned[n].amount
    OBVIOUS
  <2>6. PICK o : o = payments[p].order
    OBVIOUS
  <2>7. /\ tx'[w] = [tx[w] EXCEPT !.payment = p, !.order = o, !.amount = a, !.ref = v]
        /\ \A x \in Handlers \ {w} : tx'[x] = tx[x]
    BY <1>1, <2>3, <2>4, <2>5, <2>6 DEF TypeOK
  <2>8. tx'[w].payment = p /\ tx'[w].amount = a /\ tx'[w].ref = v
    <3>1. tx[w] \in TxRows
      BY <1>1 DEF TypeOK
    <3>2. QED BY <2>7, <3>1 DEF TxRows
  <2>9. OthersRest(w) /\ pc'[w] = "lockReceived"
    BY <1>1, <2>3, <2>7, GoRest
  <2>10. UNCHANGED <<payments, refunds, charges, returned>>
    BY <2>3 DEF rows, provider
  <2>11. PaysBack(w)'
    <3>1. \A c : ChargeRef(c)' = ChargeRef(c)
      BY <2>10 DEF ChargeRef
    <3>2. QED BY <2>3, <2>4, <2>5, <2>8, <2>9, <2>10, <3>1 DEF PaysBack
  <2>12. QED BY <2>9, <2>10, <2>11, RefundGoesOn
<1>4. QED BY <1>2, <1>3

\* The webhook records a payment back that no request has recorded, or is about to record.
LEMMA ReceivedRecorded ==
  ASSUME SoleNames, ReturnsInv, PaidInv', NEW w \in Handlers, RecordRefund(w)
  PROVE  ReturnsInv'
<1> DEFINE t == tx[w]
           row == [payment |-> t.payment, amount |-> t.amount, status |-> "succeeded",
                   ref |-> t.ref, key |-> None]
<1>1. TypeOK /\ Knows(w) /\ PaysBack(w) /\ pc[w] = "received" /\ LedgerInv /\ PaidInv
        /\ ReturnsHaveCharges /\ RefundsAreReturns
  BY DEF ReturnsInv, PaidInv, LedgerInv, RecordRefund
<1>2. CASE Drop(w)
  BY <1>1, <1>2, DropElsewhere, ElsewhereKeeps
<1>3. CASE ~Drop(w)
  <2>1. /\ WithRefundRef(t.payment, t.ref) = {} /\ refunds' = Append(refunds, row) /\ Finish(w)
        /\ charges' = charges /\ returned' = returned
    BY <1>3 DEF RecordRefund
  <2>2. t.payment \in 1 .. Len(payments) /\ payments[t.payment].order = t.order
          /\ lock[t.order] = w /\ t.ref \in RefundReferences \cup {None}
    BY <1>1 DEF Knows, PaymentStages, LockedStages
  <2>3. row \in RefundRows
    <3>1. t.payment \in Nat /\ t.amount \in Nat
      BY <1>1 DEF TypeOK, TxRows
    <3>2. QED BY <2>2, <3>1 DEF RefundRows, RefundStatus
  <2>4. /\ row.payment = tx[w].payment /\ row.amount = tx[w].amount /\ row.status = "succeeded"
        /\ row.ref = tx[w].ref
    OBVIOUS
  <2>5. PICK n \in 1 .. Len(returned) :
          /\ t.ref = <<"refund", n>> /\ t.amount = returned[n].amount
          /\ payments[t.payment].ref = ChargeRef(returned[n].charge)
    BY <1>1 DEF PaysBack
  <2>6. Backs(n, t.payment, t.amount)
    BY <2>5 DEF Backs
  <2>7. ASSUME NEW q \in 1 .. Len(payments), NEW m, NEW a, t.ref = <<"refund", m>>, Backs(m, q, a)
        PROVE  q = t.payment
    <3>1. m = n
      BY <2>5, <2>7
    <3>2. returned[n].charge \in 1 .. Len(charges)
      BY <1>1 DEF ReturnsHaveCharges
    <3>3. payments[q].ref \in RefundableRefs(returned[n].charge) \cup {ChargeRef(returned[n].charge)}
      BY <2>7, <3>1 DEF Backs
    <3>4. QED BY <1>1, <2>2, <2>5, <3>2, <3>3, SoleName
  <2>8. t.ref # None
    BY <2>5, PaymentNames, RowShapes, <1>1 DEF RefundReferences
  <2>9. ASSUME NEW r \in 1 .. Len(refunds), refunds[r].ref = t.ref PROVE FALSE
    <3>1. PICK m \in 1 .. Len(returned) :
            t.ref = <<"refund", m>> /\ Backs(m, refunds[r].payment, refunds[r].amount)
      BY <1>1, <2>8, <2>9 DEF RefundsAreReturns
    <3>2. refunds[r].payment \in 1 .. Len(payments)
      BY <1>1 DEF LedgerInv, RefundsHavePayments
    <3>3. refunds[r].payment = t.payment
      BY <2>7, <3>1, <3>2
    <3>4. QED BY <2>1, <2>9, <3>3 DEF WithRefundRef
  <2>10. ASSUME NEW x \in Handlers \ {w}, pc[x] = "commit", tx[x].ref = t.ref PROVE FALSE
    <3>1. PICK m \in 1 .. Len(returned) : t.ref = <<"refund", m>> /\ Backs(m, tx[x].payment, tx[x].amount)
      BY <2>8, <2>10 DEF ReturnsInv, PaysBack
    <3>2. tx[x].payment \in 1 .. Len(payments) /\ payments[tx[x].payment].order = tx[x].order
            /\ lock[tx[x].order] = x
      BY <1>1, <2>10 DEF LedgerInv, Knows, PaymentStages, LockedStages
    <3>3. tx[x].payment = t.payment
      BY <2>7, <3>1, <3>2
    <3>4. QED BY <2>2, <3>2, <3>3
  <2>11. NamesGrow
    BY <1>1, RecordAside DEF Aside, SameNames, NamesGrow
  <2>12. OthersRest(w) /\ pc'[w] \notin ReturnStages
    BY <1>1, <2>1, EndRest
  <2>13. row.ref # None =>
        /\ row.status # "failed"
        /\ \E k \in 1 .. Len(returned) : row.ref = <<"refund", k>> /\ Backs(k, row.payment, row.amount)
        /\ \A r \in 1 .. Len(refunds) : refunds[r].ref # row.ref
        /\ \A x \in Handlers \ {w} : pc[x] = "commit" => tx[x].ref # row.ref
    BY <2>4, <2>5, <2>6, <2>9, <2>10
  <2>14. row.payment \in 1 .. Len(payments)
    BY <2>2, <2>4
  <2> HIDE DEF t, row
  <2>15. QED BY <2>1, <2>3, <2>11, <2>12, <2>13, <2>14, RefundRecorded
<1>4. QED BY <1>2, <1>3

-----------------------------------------------------------------------------
(* What is paid back, in every state.                                        *)

LEMMA ReturnsEnvironment ==
  ASSUME ReturnsInv, PaidInv', Environment
  PROVE  ReturnsInv'
<1>1. TypeOK /\ ReturnsHaveCharges
  BY DEF ReturnsInv, PaidInv, LedgerInv
<1>2. pc' = pc /\ tx' = tx /\ refunds' = refunds /\ payments' = payments
  BY DEF Environment, PlaceOrder, PayAtProvider, RefundAtProvider, rows, local
<1>3. ASSUME NEW o \in Orders, PlaceOrder(o) PROVE ReturnsInv'
  <2>1. charges' = charges /\ returned' = returned
    BY <1>3 DEF PlaceOrder, provider
  <2>2. ReturnsHaveCharges'
    BY <1>1, <2>1 DEF ReturnsHaveCharges
  <2>3. QED BY <1>1, <1>2, <2>1, <2>2, ChargesKept, PaymentsKept, ReturnsKept, ReturnsBeside
<1>4. ASSUME NEW o \in Orders, NEW a \in Amounts, PayAtProvider(o, a) PROVE ReturnsInv'
  <2> DEFINE C == [order : Orders, amount : Nat, token : BOOLEAN]
             row == [order |-> o, amount |-> a, token |-> FALSE]
  <2>1. charges \in Seq(C) /\ charges' = Append(charges, row) /\ returned' = returned
    BY <1>1, <1>4 DEF PayAtProvider, TypeOK
  <2> HIDE DEF C, row
  <2>2. MoreCharges
    BY <2>1 DEF MoreCharges
  <2>3. ReturnsHaveCharges'
    BY <1>1, <2>1, <2>2 DEF ReturnsHaveCharges, MoreCharges
  <2>4. QED BY <1>1, <1>2, <2>1, <2>2, <2>3, PaymentsKept, ReturnsKept, ReturnsBeside
<1>5. ASSUME NEW c \in 1 .. Len(charges), NEW a \in Amounts, RefundAtProvider(c, a) PROVE ReturnsInv'
  <2> DEFINE R == [charge : Nat, amount : Nat, payment : Nat, key : Keys \cup {None}]
             row == [charge |-> c, amount |-> a, payment |-> 0, key |-> None]
  <2>1. returned \in Seq(R) /\ returned' = Append(returned, row) /\ row.charge = c /\ charges' = charges
    BY <1>1, <1>5 DEF RefundAtProvider, TypeOK
  <2> HIDE DEF R, row
  <2>2. /\ Len(returned) \in Nat /\ Len(returned') = Len(returned) + 1
        /\ returned'[Len(returned) + 1] = row
        /\ \A n \in 1 .. Len(returned) : returned'[n] = returned[n]
    BY <2>1
  <2>3. ReturnsGrow
    BY <2>2 DEF ReturnsGrow
  <2>4. ReturnsHaveCharges'
    BY <1>1, <2>1, <2>2 DEF ReturnsHaveCharges
  <2>5. QED BY <1>1, <1>2, <2>1, <2>3, <2>4, PaymentsKept, ChargesKept, ReturnsBeside
<1>6. QED BY <1>3, <1>4, <1>5 DEF Environment

LEMMA ReturnsRequest ==
  ASSUME ReturnsInv, PaidInv', NEW w \in Handlers, Request(w)
  PROVE  ReturnsInv'
<1>1. LedgerInv
  BY DEF ReturnsInv, PaidInv
<1>2. CASE \E p \in 1 .. Len(payments), a \in Amounts, k \in Keys \cup {None} : RequestRefund(w, p, a, k)
  BY <1>2, RefundRequested
<1>3. CASE ~ \E p \in 1 .. Len(payments), a \in Amounts, k \in Keys \cup {None} : RequestRefund(w, p, a, k)
  <2>1. \/ \E o, a, ref : RequestCreate(w, o, a, ref)
        \/ \E p : RequestCapture(w, p)
        \/ \E o \in Orders : ChargeToken(w, o)
        \/ \E e \in Events : ReceiveEvent(w, e)
    BY <1>3, Zenon DEF Request
  <2>2. QED BY <1>1, <2>1, RequestsElsewhere, ElsewhereKeeps
<1>4. QED BY <1>2, <1>3

LEMMA ReturnsStatement ==
  ASSUME SoleNames, ReturnsInv, PaidInv', NEW w \in Handlers, Step(w) \/ Crash(w)
  PROVE  ReturnsInv'
<1>1. LedgerInv
  BY DEF ReturnsInv, PaidInv
<1>2. CASE \/ LockForCreate(w) \/ CreatePayment(w) \/ LockForCapture(w) \/ CapturePayment(w)
           \/ PlaceCharged(w) \/ LookUpOrder(w) \/ AutoComplete(w) \/ SumCaptures(w)
           \/ InsertPayment(w) \/ CommitPayment(w) \/ StatementFails(w) \/ Crash(w)
  BY <1>1, <1>2, StatementsElsewhere, ElsewhereKeeps
<1>3. CASE LockForRefund(w) \/ LockForReceived(w)
  BY <1>3, RefundLocked
<1>4. CASE CheckRefund(w) \/ CallProvider(w) \/ CommitRefund(w)
  BY <1>4, RefundChecked, ProviderCalled, RefundCommitted
<1>5. CASE FindPayment(w) \/ RecordRefund(w)
  BY <1>5, PaymentFound, ReceivedRecorded
<1>6. QED BY <1>2, <1>3, <1>4, <1>5 DEF Step

LEMMA ReturnsInit == Init => ReturnsInv
<1> SUFFICES ASSUME Init PROVE ReturnsInv
  OBVIOUS
<1>1. Len(refunds) = 0 /\ Len(returned) = 0 /\ 1 .. 0 = {}
  BY DEF Init
<1>2. \A w \in Handlers : pc[w] = "idle"
  BY DEF Init
<1>3. ReturnsHaveCharges /\ RefundsAreReturns /\ RefundsApart
  BY <1>1 DEF ReturnsHaveCharges, RefundsAreReturns, RefundsApart
<1>4. CommitsApart /\ \A w \in Handlers : PaysBack(w)
  BY <1>2 DEF CommitsApart, PaysBack
<1>5. QED BY <1>3, <1>4, PaidInit DEF ReturnsInv

LEMMA ReturnsStep == SoleNames /\ ReturnsInv /\ PaidInv' /\ [Next]_vars => ReturnsInv'
<1> SUFFICES ASSUME SoleNames, ReturnsInv, PaidInv', [Next]_vars PROVE ReturnsInv'
  OBVIOUS
<1>1. TypeOK
  BY DEF ReturnsInv, PaidInv, LedgerInv
<1>2. CASE Environment
  BY <1>2, ReturnsEnvironment
<1>3. ASSUME NEW w \in Handlers, Request(w) PROVE ReturnsInv'
  BY <1>3, ReturnsRequest
<1>4. ASSUME NEW w \in Handlers, Step(w) \/ Crash(w) PROVE ReturnsInv'
  BY <1>4, ReturnsStatement
<1>5. CASE UNCHANGED vars
  <2>1. pc' = pc /\ tx' = tx /\ UNCHANGED <<payments, refunds, charges, returned>>
    BY <1>5 DEF vars, rows, provider, local
  <2>2. ReturnsHaveCharges'
    BY <2>1 DEF ReturnsInv, ReturnsHaveCharges
  <2>3. QED BY <1>1, <2>1, <2>2, ChargesKept, PaymentsKept, ReturnsKept, ReturnsBeside
<1>6. QED BY <1>2, <1>3, <1>4, <1>5 DEF Next

\* A refund row with a provider's reference is a payment back that the provider made, of the
\* same amount, and no two rows are the same one, whether a request or the webhook recorded
\* it and however they interleave: when no charge is recorded under two names.
THEOREM RefundsAreTheProviders == SoleNames => (Spec => []RefundsMatchProvider)
<1> SUFFICES ASSUME SoleNames PROVE Spec => []RefundsMatchProvider
  OBVIOUS
<1>1. ReturnsInv => RefundsMatchProvider
  <2> SUFFICES ASSUME ReturnsInv, NEW r \in 1 .. Len(refunds), refunds[r].ref # None
               PROVE  /\ refunds[r].ref[2] \in 1 .. Len(returned)
                      /\ refunds[r].amount = returned[refunds[r].ref[2]].amount
                      /\ refunds[r].status # "failed"
                      /\ \A s \in 1 .. Len(refunds) : refunds[s].ref = refunds[r].ref => s = r
    BY DEF RefundsMatchProvider
  <2>1. /\ refunds[r].status # "failed"
        /\ \A s \in 1 .. Len(refunds) : refunds[s].ref = refunds[r].ref => s = r
    BY DEF ReturnsInv, RefundsAreReturns, RefundsApart
  <2>2. PICK n \in 1 .. Len(returned) : refunds[r].ref = <<"refund", n>>
                                        /\ returned[n].amount = refunds[r].amount
    BY DEF ReturnsInv, RefundsAreReturns, Backs
  <2>3. refunds[r].ref[2] = n
    BY <2>2
  <2>4. QED BY <2>1, <2>2, <2>3
<1>2. Spec => []PaidInv
  BY LedgerHolds, PaidInit, PaidStep, PTL DEF Spec
<1>3. SoleNames /\ ReturnsInv /\ PaidInv' /\ [Next]_vars => ReturnsInv'
  BY ReturnsStep
<1>4. QED BY <1>1, <1>2, <1>3, ReturnsInit, PTL DEF Spec

=============================================================================
