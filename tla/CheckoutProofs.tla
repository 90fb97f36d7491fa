--------------------------- MODULE CheckoutProofs ---------------------------
(***************************************************************************)
(* Proofs about Checkout, for any number of handlers, carts, checkouts,    *)
(* codes, companies, variants and rows of stock.                           *)
(***************************************************************************)
EXTENDS Checkout, SumTheorems

-----------------------------------------------------------------------------
(* Types.                                                                  *)

\* What a cart costs is an integer, at its own prices and at those of the catalogue.
LEMMA CartAmounts ==
  ASSUME TypeOK, NEW c \in Carts
  PROVE  /\ CartSubtotal(c) \in Int
         /\ Amount(cart[c].qty, price) \in Int
<1>1. cart[c].qty \in [Variants -> Int] /\ cart[c].price \in [Variants -> Int]
        /\ price \in [Variants -> Int]
  <2>1. cart[c] \in CartRecord /\ price \in [Variants -> Prices]
    BY DEF TypeOK
  <2>2. Quantity \subseteq Int /\ Price \subseteq Int /\ Prices \subseteq Int
    BY NumbersAssumption DEF Quantity, Price
  <2>3. QED BY <2>1, <2>2 DEF CartRecord
<1>2. IsFiniteSet(Variants)
  BY SetsAssumption
<1>3. QED BY <1>1, <1>2, AmountType DEF CartSubtotal

\* The idle transaction, the missing checkout and the missing edit are of their types.
LEMMA NullRecords ==
  /\ NoLines \in [Variants -> Quantity] /\ NoLines \in [Variants -> Price]
  /\ NoLines \in [Variants -> Nat] /\ NoTakes \in [Levels -> Nat]
  /\ NoTx \in TxRecord /\ NoCheckout \in CheckoutRecord /\ NoEdit \in EditRecord
<1>1. /\ NoLines \in [Variants -> Quantity] /\ NoLines \in [Variants -> Price]
      /\ NoLines \in [Variants -> Nat] /\ NoTakes \in [Levels -> Nat]
  BY NumbersAssumption DEF NoLines, NoTakes, Quantity, Price
<1>2. QED
  BY <1>1 DEF NoTx, NoCheckout, NoEdit, TxRecord, CheckoutRecord, EditRecord

LEMMA InitType == Init => TypeOK
<1> SUFFICES ASSUME Init PROVE TypeOK
  OBVIOUS
<1>1. cart \in [Carts -> CartRecord]
  BY NullRecords DEF Init, CartRecord
<1>2. checkout \in [Checkouts -> CheckoutRecord] /\ tx \in [Workers -> TxRecord]
        /\ edit \in [Editors -> EditRecord]
  BY NullRecords DEF Init
<1>3. stock \in [Levels -> Nat]
  BY NumbersAssumption DEF Init
<1>4. orders \in Seq(OrderRecord) /\ held \in [Workers -> SUBSET Rows]
  BY DEF Init
<1>5. \A ch \in Checkouts : checkout[ch].status = "none"
  BY DEF Init, NoCheckout
<1>6. \A e \in Editors : edit[e] = NoEdit
  BY DEF Init
<1>7. QED
  BY <1>1, <1>2, <1>3, <1>4, <1>5, <1>6 DEF Init, TypeOK, Stages

\* The committed rows and the edits keep their types when they are not written.
RowsTyped ==
  /\ cart \in [Carts -> CartRecord]
  /\ price \in [Variants -> Prices]
  /\ checkout \in [Checkouts -> CheckoutRecord]
  /\ uses \in [Codes -> Nat]
  /\ used \subseteq Codes \X Customers
  /\ stock \in [Levels -> Nat]
  /\ creditUsed \in [Companies -> Int]
  /\ orderSequence \in Nat
  /\ orders \in Seq(OrderRecord)
  /\ edit \in [Editors -> EditRecord]
  /\ \A ch \in Checkouts : checkout[ch].status # "none" => checkout[ch].cart \in Carts
  /\ \A e \in Editors : edit[e] # NoEdit =>
       edit[e].ch \in Checkouts /\ checkout[edit[e].ch].status # "none"

\* A step that writes no committed row keeps types if it keeps those of the transactions.
LEMMA TxType ==
  ASSUME TypeOK, UNCHANGED <<db, edit>>, pc' \in [Workers -> Stages],
         held' \in [Workers -> SUBSET Rows], tx' \in [Workers -> TxRecord]
  PROVE  TypeOK'
<1>1. RowsTyped
  BY DEF TypeOK, RowsTyped
<1>2. RowsTyped'
  BY <1>1 DEF db, RowsTyped
<1>3. QED BY <1>2 DEF TypeOK, RowsTyped

\* What a transaction knows does not depend on the steps of others that write no row.
LEMMA OthersKeep ==
  ASSUME LocksProtectReads, UNCHANGED <<db, edit>>, NEW x \in Workers,
         pc'[x] = pc[x], held'[x] = held[x], tx'[x] = tx[x]
  PROVE  Protected(x)'
<1>1. Protected(x)
  BY DEF LocksProtectReads
<1>2. QED BY <1>1 DEF Protected, db

\* Rows that nobody else holds can be locked.
LEMMA AdvanceLocks ==
  ASSUME TypeOK, LocksProtectReads, NEW w \in Workers, NEW s \in Stages,
         NEW R \in SUBSET Rows, Advance(w, s, R), \A r \in R : Free(w, r)
  PROVE  /\ LockExclusion'
         /\ pc' \in [Workers -> Stages] /\ held' \in [Workers -> SUBSET Rows]
         /\ pc'[w] = s /\ held'[w] = held[w] \cup R
         /\ \A x \in Workers \ {w} : pc'[x] = pc[x] /\ held'[x] = held[x]
<1>1. /\ pc' \in [Workers -> Stages] /\ held' \in [Workers -> SUBSET Rows]
      /\ pc'[w] = s /\ held'[w] = held[w] \cup R
      /\ \A x \in Workers \ {w} : pc'[x] = pc[x] /\ held'[x] = held[x]
  BY DEF Advance, TypeOK
<1>2. \A x \in Workers \ {w} : R \cap held[x] = {}
  BY DEF Free
<1>3. \A x \in Workers \ {w} : held[w] \cap held[x] = {} /\ held[x] \cap held[w] = {}
  BY DEF LocksProtectReads, LockExclusion
<1>4. \A x, y \in Workers \ {w} : x # y => held'[x] \cap held'[y] = {}
  BY <1>1 DEF LocksProtectReads, LockExclusion
<1>5. LockExclusion'
  BY <1>1, <1>2, <1>3, <1>4 DEF LockExclusion
<1>6. QED BY <1>1, <1>5

\* The two facts that every statement of a transaction must re-establish.
CoreInv == TypeOK /\ LocksProtectReads

\* A statement that succeeds: it is enough to look at the transaction that ran it.
LEMMA AdvanceCore ==
  ASSUME CoreInv, NEW w \in Workers, NEW s \in Stages, NEW R \in SUBSET Rows,
         Advance(w, s, R), \A r \in R : Free(w, r),
         NEW t \in TxRecord, tx' = [tx EXCEPT ![w] = t], Protected(w)'
  PROVE  CoreInv'
<1>1. tx' \in [Workers -> TxRecord] /\ \A x \in Workers \ {w} : tx'[x] = tx[x]
  BY DEF CoreInv, TypeOK
<1>2. UNCHANGED <<db, edit>>
  BY DEF Advance
<1>3. TypeOK'
  BY <1>1, <1>2, AdvanceLocks, TxType DEF CoreInv
<1>4. ASSUME NEW x \in Workers \ {w}
      PROVE  Protected(x)'
  BY <1>1, <1>2, AdvanceLocks, OthersKeep DEF CoreInv
<1>5. QED
  BY <1>3, <1>4, AdvanceLocks DEF CoreInv, LocksProtectReads

LEMMA RollbackCore ==
  ASSUME CoreInv, NEW w \in Workers, Rollback(w)
  PROVE  CoreInv'
<1>1. /\ pc' \in [Workers -> Stages] /\ held' \in [Workers -> SUBSET Rows]
      /\ tx' \in [Workers -> TxRecord] /\ UNCHANGED <<db, edit>>
  BY NullRecords DEF Rollback, CoreInv, TypeOK, Stages
<1>2. \A x \in Workers \ {w} : pc'[x] = pc[x] /\ held'[x] = held[x] /\ tx'[x] = tx[x]
  BY DEF Rollback, CoreInv, TypeOK
<1>3. pc'[w] = "idle" /\ held'[w] = {} /\ tx'[w] = NoTx
  BY DEF Rollback, CoreInv, TypeOK
<1>4. TypeOK'
  BY <1>1, TxType DEF CoreInv
<1>5. LockExclusion'
  BY <1>2, <1>3 DEF CoreInv, LocksProtectReads, LockExclusion
<1>6. Protected(w)'
  BY <1>3 DEF Protected, NoTx, NoTakes, Claimed, Numbered
<1>7. ASSUME NEW x \in Workers \ {w}
      PROVE  Protected(x)'
  BY <1>1, <1>2, OthersKeep DEF CoreInv
<1>8. QED BY <1>4, <1>5, <1>6, <1>7 DEF CoreInv, LocksProtectReads

\* The handlers that run beside the completions.
LEMMA EnvironmentType ==
  ASSUME TypeOK, Environment
  PROVE  TypeOK'
<1>1. ASSUME NEW c \in Carts, NEW v \in Variants, NEW q \in Quantity, EditCartLine(c, v, q)
      PROVE  TypeOK'
  <2>1. cart[c] \in CartRecord /\ price[v] \in Price
    BY DEF TypeOK, Price
  <2>2. cart' \in [Carts -> CartRecord]
    BY <1>1, <2>1 DEF EditCartLine, TypeOK, CartRecord, Price
  <2>3. QED BY <1>1, <2>2 DEF EditCartLine, TypeOK
<1>2. ASSUME NEW c \in Carts, MarkCartAbandoned(c)
      PROVE  TypeOK'
  <2>1. cart' \in [Carts -> CartRecord]
    BY <1>2 DEF MarkCartAbandoned, TypeOK, CartRecord
  <2>2. QED BY <1>2, <2>1 DEF MarkCartAbandoned, TypeOK
<1>3. ASSUME NEW v \in Variants, NEW p \in Prices, SetPrice(v, p)
      PROVE  TypeOK'
  BY <1>3 DEF SetPrice, TypeOK
<1>4. ASSUME NEW l \in Levels, NEW delta \in Deltas, AdjustInventory(l, delta)
      PROVE  TypeOK'
  <2>1. stock' \in [Levels -> Nat]
    BY <1>4, NumbersAssumption DEF AdjustInventory, TypeOK, Greater
  <2>2. QED BY <1>4, <2>1 DEF AdjustInventory, TypeOK
<1>5. ASSUME NEW d \in Codes \cup {None}, NEW s \in Int
      PROVE  DiscountOf(d, s) \in Int
  <2>1. CASE d = None
    BY <2>1 DEF DiscountOf
  <2>2. CASE d # None
    BY <2>2, LimitsAssumption DEF DiscountOf, Lesser
  <2>3. QED BY <2>1, <2>2
<1>6. ASSUME NEW ch \in Checkouts, NEW c \in Carts, NEW customer \in Customers \cup {None},
             NEW company \in Companies \cup {None}, NEW d \in Codes \cup {None},
             CreateCheckout(ch, c, customer, company, d)
      PROVE  TypeOK'
  <2>1. CartSubtotal(c) \in Int /\ DiscountOf(d, CartSubtotal(c)) \in Int /\ Extra \in Int
    BY <1>5, CartAmounts, NumbersAssumption
  <2>2. checkout' \in [Checkouts -> CheckoutRecord]
    BY <1>6, <2>1 DEF CreateCheckout, TypeOK, CheckoutRecord
  <2>3. /\ checkout[ch].status = "none" /\ checkout'[ch].cart = c
        /\ checkout'[ch].status = "pending"
        /\ \A y \in Checkouts \ {ch} : checkout'[y] = checkout[y]
    BY <1>6 DEF CreateCheckout, TypeOK
  <2>4. QED BY <1>6, <2>2, <2>3 DEF CreateCheckout, TypeOK
<1>7. ASSUME NEW e \in Editors, NEW ch \in Checkouts, NEW d \in Codes \cup {None},
             ReadForUpdate(e, ch, d)
      PROVE  TypeOK'
  <2>1. CartSubtotal(checkout[ch].cart) \in Int
    <3>1. checkout[ch].cart \in Carts
      BY <1>7 DEF ReadForUpdate, TypeOK
    <3>2. QED BY <3>1, CartAmounts
  <2>2. DiscountOf(d, CartSubtotal(checkout[ch].cart)) \in Int
    BY <1>5, <2>1
  <2>3. edit' \in [Editors -> EditRecord]
    BY <1>7, <2>1, <2>2 DEF ReadForUpdate, TypeOK, EditRecord
  <2>4. \A f \in Editors : edit'[f] # NoEdit =>
          edit'[f].ch \in Checkouts /\ checkout[edit'[f].ch].status # "none"
    BY <1>7 DEF ReadForUpdate, TypeOK
  <2>5. QED BY <1>7, <2>3, <2>4 DEF ReadForUpdate, TypeOK, db
<1>8. ASSUME NEW e \in Editors, WriteUpdate(e)
      PROVE  TypeOK'
  <2>1. edit[e] \in EditRecord
    BY DEF TypeOK
  <2>2. edit' \in [Editors -> EditRecord]
    BY <1>8, NullRecords DEF WriteUpdate, TypeOK
  <2>3. edit[e].ch \in Checkouts /\ checkout[edit[e].ch].status # "none"
    BY <1>8 DEF WriteUpdate, TypeOK
  <2> DEFINE ch == edit[e].ch
               r == [checkout[ch] EXCEPT !.code = edit[e].code,
                       !.subtotal = edit[e].subtotal, !.discount = edit[e].discount,
                       !.total = edit[e].subtotal + Extra - edit[e].discount]
  <2>5. checkout' = [checkout EXCEPT ![ch] = r]
    BY <1>8, <2>3 DEF WriteUpdate, TypeOK
  <2>6. r \in CheckoutRecord /\ r.status = checkout[ch].status /\ r.cart = checkout[ch].cart
    <3>1. checkout[ch] \in CheckoutRecord
      BY <2>3 DEF TypeOK
    <3>2. edit[e].subtotal + Extra - edit[e].discount \in Int
      BY <2>1, NumbersAssumption DEF EditRecord
    <3>3. edit[e].code \in Codes \cup {None} /\ edit[e].subtotal \in Int
            /\ edit[e].discount \in Int
      BY <2>1 DEF EditRecord
    <3>4. QED BY <3>1, <3>2, <3>3 DEF CheckoutRecord
  <2>7. \A y \in Checkouts : checkout'[y].status = checkout[y].status
                                /\ checkout'[y].cart = checkout[y].cart
    <3> HIDE DEF r
    <3> QED BY <2>3, <2>5, <2>6 DEF TypeOK
  <2>8. checkout' \in [Checkouts -> CheckoutRecord]
    <3> HIDE DEF r
    <3> QED BY <2>3, <2>5, <2>6 DEF TypeOK
  <2>9. \A f \in Editors : edit'[f] # NoEdit => edit'[f] = edit[f]
    BY <1>8 DEF WriteUpdate, TypeOK
  <2>10. UNCHANGED <<cart, price, uses, used, stock, creditUsed, orderSequence, orders, pc, held, tx>>
    BY <1>8 DEF WriteUpdate
  <2>11. \A y \in Checkouts : checkout'[y].status # "none" => checkout'[y].cart \in Carts
    BY <2>7 DEF TypeOK
  <2>12. \A f \in Editors : edit'[f] # NoEdit =>
           edit'[f].ch \in Checkouts /\ checkout'[edit'[f].ch].status # "none"
    BY <2>7, <2>9 DEF TypeOK
  <2> HIDE DEF ch, r
  <2>13. QED BY <2>2, <2>8, <2>10, <2>11, <2>12 DEF TypeOK
<1>9. QED
  BY <1>1, <1>2, <1>3, <1>4, <1>6, <1>7, <1>8 DEF Environment

\* What these handlers leave alone of the rows a transaction has locked or read.
LEMMA EnvironmentKeeps ==
  ASSUME TypeOK, Environment
  PROVE  /\ UNCHANGED <<pc, held, tx, uses, used, orderSequence, orders, creditUsed>>
         /\ \A ch \in Checkouts : checkout[ch].status # "none" =>
              /\ checkout'[ch].status = checkout[ch].status
              /\ checkout'[ch].customer = checkout[ch].customer
              /\ checkout'[ch].company = checkout[ch].company
         /\ \A ch \in Checkouts :
              checkout'[ch].status = "completed" <=> checkout[ch].status = "completed"
         /\ \A l \in Levels : stock'[l] = stock[l] \/ Unlocked(LevelRow(l))
<1> DEFINE Kept ==
       /\ UNCHANGED <<pc, held, tx, uses, used, orderSequence, orders, creditUsed>>
       /\ \A ch \in Checkouts : checkout[ch].status # "none" =>
            /\ checkout'[ch].status = checkout[ch].status
            /\ checkout'[ch].customer = checkout[ch].customer
            /\ checkout'[ch].company = checkout[ch].company
       /\ \A ch \in Checkouts :
            checkout'[ch].status = "completed" <=> checkout[ch].status = "completed"
       /\ \A l \in Levels : stock'[l] = stock[l] \/ Unlocked(LevelRow(l))
<1>1. ASSUME NEW c \in Carts, NEW v \in Variants, NEW q \in Quantity, EditCartLine(c, v, q)
      PROVE  Kept
  BY <1>1 DEF EditCartLine
<1>2. ASSUME NEW c \in Carts, MarkCartAbandoned(c)
      PROVE  Kept
  BY <1>2 DEF MarkCartAbandoned
<1>3. ASSUME NEW v \in Variants, NEW p \in Prices, SetPrice(v, p)
      PROVE  Kept
  BY <1>3 DEF SetPrice
<1>4. ASSUME NEW l \in Levels, NEW delta \in Deltas, AdjustInventory(l, delta)
      PROVE  Kept
  BY <1>4 DEF AdjustInventory, TypeOK
<1>5. ASSUME NEW ch \in Checkouts, NEW c \in Carts, NEW customer \in Customers \cup {None},
             NEW company \in Companies \cup {None}, NEW d \in Codes \cup {None},
             CreateCheckout(ch, c, customer, company, d)
      PROVE  Kept
  BY <1>5 DEF CreateCheckout, TypeOK
<1>6. ASSUME NEW e \in Editors, NEW ch \in Checkouts, NEW d \in Codes \cup {None},
             ReadForUpdate(e, ch, d)
      PROVE  Kept
  BY <1>6 DEF ReadForUpdate, db
<1>7. ASSUME NEW e \in Editors, WriteUpdate(e)
      PROVE  Kept
  <2>1. edit[e].ch \in Checkouts
    BY <1>7 DEF WriteUpdate, TypeOK
  <2>2. \A ch \in Checkouts : /\ checkout'[ch].status = checkout[ch].status
                              /\ checkout'[ch].customer = checkout[ch].customer
              /\ checkout'[ch].company = checkout[ch].company
    BY <1>7, <2>1 DEF WriteUpdate, TypeOK, CheckoutRecord
  <2>3. QED BY <1>7, <2>2 DEF WriteUpdate
<1>8. QED
  BY <1>1, <1>2, <1>3, <1>4, <1>5, <1>6, <1>7 DEF Environment

LEMMA EnvironmentCore ==
  ASSUME CoreInv, Environment
  PROVE  CoreInv'
<1>1. TypeOK'
  BY EnvironmentType DEF CoreInv
<1>2. LockExclusion'
  BY EnvironmentKeeps DEF CoreInv, LocksProtectReads, LockExclusion
<1>3. ASSUME NEW w \in Workers
      PROVE  Protected(w)'
  <2>1. Protected(w) /\ TypeOK
    BY DEF CoreInv, LocksProtectReads
  <2>2. \A l \in Levels : tx[w].take[l] > 0 => stock'[l] = stock[l]
    BY <2>1, EnvironmentKeeps DEF Protected, Unlocked
  <2>3. QED
    BY <2>1, <2>2, EnvironmentKeeps DEF Protected, Claimed, Numbered
<1>4. QED BY <1>1, <1>2, <1>3 DEF CoreInv, LocksProtectReads

-----------------------------------------------------------------------------
(* The statements of completeCheckout().                                   *)

LEMMA BeginCore ==
  ASSUME CoreInv, NEW w \in Workers, NEW ch \in Checkouts, NEW a \in Agents \cup {None},
         Begin(w, ch, a)
  PROVE  CoreInv'
<1> DEFINE s == IF checkout[ch].code = None THEN "claim" ELSE "burn"
           t == [NoTx EXCEPT !.ch = ch, !.agent = a, !.burned = checkout[ch].code]
<1>1. checkout[ch].code \in Codes \cup {None}
  BY DEF CoreInv, TypeOK, CheckoutRecord
<1>2. t \in TxRecord
  BY <1>1, NullRecords DEF TxRecord
<1>3. t.ch = ch /\ t.burned = checkout[ch].code /\ t.take = NoTakes
  BY DEF NoTx
<1>4. s \in Stages /\ Advance(w, s, {}) /\ tx' = [tx EXCEPT ![w] = t]
  BY DEF Begin, Stages
<1>5. tx'[w] = t /\ pc'[w] = s /\ UNCHANGED db
  BY <1>4 DEF CoreInv, TypeOK, Advance
<1>6. Protected(w)'
  <2>1. ch \in Checkouts /\ checkout'[ch].status # "none" /\ s \in {"claim", "burn"}
    BY <1>5 DEF Begin, db
  <2>2. \A l \in Levels : ~(NoTakes[l] > 0)
    BY DEF NoTakes
  <2>3. s = "claim" => t.burned = None
    BY <1>3
  <2>4. s = "burn" => t.burned \in Codes
    BY <1>1, <1>3
  <2> HIDE DEF t, s
  <2> QED BY <1>3, <1>5, <2>1, <2>2, <2>3, <2>4 DEF Protected, Claimed, Numbered
<1>7. QED
  <2>1. {} \in SUBSET Rows /\ \A r \in {} : Free(w, r)
    OBVIOUS
  <2> HIDE DEF s, t
  <2> QED BY <1>2, <1>4, <1>6, <2>1, AdvanceCore

LEMMA BurnCore ==
  ASSUME CoreInv, NEW w \in Workers, BurnCheckoutDiscount(w)
  PROVE  CoreInv'
<1>1. CASE Rollback(w)
  BY <1>1, RollbackCore
<1>2. CASE ~Rollback(w)
  <2> DEFINE d == tx[w].burned
             customer == checkout[tx[w].ch].customer
  <2>1. /\ pc[w] = "burn" /\ Free(w, CodeRow(d)) /\ uses[d] < Rule[d].max
        /\ Rule[d].once /\ customer # None => <<d, customer>> \notin used
        /\ Advance(w, "claim", {CodeRow(d)}) /\ tx' = tx
    BY <1>2 DEF BurnCheckoutDiscount
  <2>2. Protected(w)
    BY DEF CoreInv, LocksProtectReads
  <2>3. d \in Codes /\ {CodeRow(d)} \in SUBSET Rows
    BY <2>1, <2>2 DEF Protected, Rows
  <2>4. tx[w] \in TxRecord /\ tx' = [tx EXCEPT ![w] = tx[w]] /\ "claim" \in Stages
    BY <2>1 DEF CoreInv, TypeOK, Stages
  <2>5. pc'[w] = "claim" /\ held'[w] = held[w] \cup {CodeRow(d)} /\ UNCHANGED db
    BY <2>1 DEF CoreInv, TypeOK, Advance
  <2>6. Protected(w)'
    BY <2>1, <2>2, <2>5 DEF Protected, Claimed, Numbered, db
  <2>7. QED
    BY <2>1, <2>3, <2>4, <2>6, AdvanceCore
<1>3. QED BY <1>1, <1>2

LEMMA ClaimCore ==
  ASSUME CoreInv, NEW w \in Workers, ClaimCheckout(w)
  PROVE  CoreInv'
<1>1. CASE Rollback(w)
  BY <1>1, RollbackCore
<1>2. CASE ~Rollback(w)
  <2> DEFINE ch == tx[w].ch
             s == IF tx[w].agent = None THEN "number" ELSE "agent"
             t == [tx[w] EXCEPT !.subtotal = checkout[ch].subtotal, !.total = checkout[ch].total]
  <2>1. /\ pc[w] = "claim" /\ Free(w, CheckoutRow(ch)) /\ checkout[ch].status = "pending"
        /\ Advance(w, s, {CheckoutRow(ch)})
        /\ tx' = [tx EXCEPT ![w].subtotal = checkout[ch].subtotal,
                            ![w].total = checkout[ch].total]
    BY <1>2 DEF ClaimCheckout
  <2>2. Protected(w) /\ tx[w] \in TxRecord
    BY DEF CoreInv, LocksProtectReads, TypeOK
  <2>3. ch \in Checkouts /\ {CheckoutRow(ch)} \in SUBSET Rows /\ checkout[ch] \in CheckoutRecord
    BY <2>1, <2>2 DEF Protected, Rows, CoreInv, TypeOK
  <2>4. t \in TxRecord /\ t.ch = ch /\ t.burned = tx[w].burned /\ t.take = tx[w].take
    BY <2>2, <2>3 DEF TxRecord, CheckoutRecord
  <2>5. tx' = [tx EXCEPT ![w] = t] /\ s \in Stages
    BY <2>1 DEF CoreInv, TypeOK, Stages
  <2>6. /\ tx'[w] = t /\ pc'[w] = s /\ held'[w] = held[w] \cup {CheckoutRow(ch)}
        /\ UNCHANGED db
    BY <2>1, <2>5 DEF CoreInv, TypeOK, Advance
  <2>7. Protected(w)'
    <3>1. s \in {"number", "agent"}
      OBVIOUS
    <3>2. checkout' = checkout /\ uses' = uses /\ used' = used /\ stock' = stock
            /\ orderSequence' = orderSequence
      BY <2>6 DEF db
    <3> HIDE DEF t, s, ch
    <3>3. tx'[w].ch = tx[w].ch /\ tx'[w].burned = tx[w].burned /\ tx'[w].take = tx[w].take
            /\ tx[w].ch = ch
      BY <2>4, <2>6 DEF ch
    <3>4. checkout'[tx'[w].ch] = checkout[ch] /\ ch \in Checkouts
      BY <2>3, <3>2, <3>3
    <3>5. tx'[w].burned # None =>
            /\ CodeRow(tx'[w].burned) \in held'[w]
            /\ uses'[tx'[w].burned] < Rule[tx'[w].burned].max
            /\ Rule[tx'[w].burned].once /\ checkout'[tx'[w].ch].customer # None =>
                 <<tx'[w].burned, checkout'[tx'[w].ch].customer>> \notin used'
      <4>1. tx[w].burned # None
            => /\ CodeRow(tx[w].burned) \in held[w]
               /\ uses[tx[w].burned] < Rule[tx[w].burned].max
               /\ Rule[tx[w].burned].once /\ checkout[tx[w].ch].customer # None =>
                    <<tx[w].burned, checkout[tx[w].ch].customer>> \notin used
        BY <2>1, <2>2 DEF Protected
      <4>2. QED BY <2>6, <3>2, <3>3, <3>4, <4>1
    <3>6. \A l \in Levels : tx'[w].take[l] > 0 =>
            LevelRow(l) \in held'[w] /\ tx'[w].take[l] <= stock'[l]
      BY <2>2, <2>6, <3>2, <3>3 DEF Protected
    <3>7. CheckoutRow(tx'[w].ch) \in held'[w] /\ checkout'[tx'[w].ch].status = "pending"
      BY <2>1, <2>6, <3>3, <3>4
    <3>8. /\ pc'[w] \notin Numbered /\ pc'[w] # "credit" /\ pc'[w] \notin {"idle", "burn"}
          /\ tx'[w].ch \in Checkouts
      BY <2>6, <3>1, <3>3, <3>4 DEF Numbered
    <3>9. QED
      BY ONLY <3>5, <3>6, <3>7, <3>8 DEF Protected
  <2>8. QED
    <3> HIDE DEF s, t, ch
    <3> QED BY ZenonT(60), <2>1, <2>3, <2>4, <2>5, <2>7, AdvanceCore
<1>3. QED BY <1>1, <1>2

LEMMA VerifyAgentCore ==
  ASSUME CoreInv, NEW w \in Workers, VerifyAgentCheckout(w)
  PROVE  CoreInv'
<1>1. CASE Rollback(w)
  BY <1>1, RollbackCore
<1>2. CASE ~Rollback(w)
  <2>1. pc[w] = "agent" /\ Advance(w, "number", {}) /\ tx' = tx
    BY <1>2 DEF VerifyAgentCheckout
  <2>2. Protected(w)
    BY DEF CoreInv, LocksProtectReads
  <2>3. tx[w] \in TxRecord /\ tx' = [tx EXCEPT ![w] = tx[w]] /\ "number" \in Stages
    BY <2>1 DEF CoreInv, TypeOK, Stages
  <2>4. pc'[w] = "number" /\ held'[w] = held[w] /\ UNCHANGED db
    BY <2>1 DEF CoreInv, TypeOK, Advance
  <2>5. Protected(w)'
    BY <2>1, <2>2, <2>4 DEF Protected, Claimed, Numbered, db
  <2>6. {} \in SUBSET Rows /\ \A r \in {} : Free(w, r)
    OBVIOUS
  <2>7. QED
    BY <2>1, <2>3, <2>5, <2>6, AdvanceCore
<1>3. QED BY <1>1, <1>2

LEMMA NextOrderNumberCore ==
  ASSUME CoreInv, NEW w \in Workers, NextOrderNumber(w)
  PROVE  CoreInv'
<1> DEFINE t == [tx[w] EXCEPT !.number = orderSequence + 1]
<1>1. /\ pc[w] = "number" /\ Free(w, StoreRow) /\ Advance(w, "prices", {StoreRow})
      /\ tx' = [tx EXCEPT ![w].number = orderSequence + 1]
  BY DEF NextOrderNumber
<1>2. Protected(w) /\ tx[w] \in TxRecord /\ orderSequence \in Nat
  BY DEF CoreInv, LocksProtectReads, TypeOK
<1>3. /\ t \in TxRecord /\ t.ch = tx[w].ch /\ t.burned = tx[w].burned /\ t.take = tx[w].take
      /\ t.number = orderSequence + 1
  BY <1>2 DEF TxRecord
<1>4. tx' = [tx EXCEPT ![w] = t] /\ "prices" \in Stages /\ {StoreRow} \in SUBSET Rows
  BY <1>1 DEF CoreInv, TypeOK, Stages, Rows
<1>5. tx'[w] = t /\ pc'[w] = "prices" /\ held'[w] = held[w] \cup {StoreRow} /\ UNCHANGED db
  BY <1>1, <1>4 DEF CoreInv, TypeOK, Advance
<1>6. Protected(w)'
  <2> HIDE DEF t
  <2> QED BY <1>1, <1>2, <1>3, <1>5 DEF Protected, Claimed, Numbered, db
<1>7. QED
  <2> HIDE DEF t
  <2> QED BY <1>1, <1>3, <1>4, <1>6, AdvanceCore

\* A statement after the order number has been drawn: it keeps what the transaction
\* has claimed, and takes from rows of stock that it holds.
Keeps(w, s, R, t) ==
  /\ pc[w] \in Numbered /\ s \in Numbered /\ t \in TxRecord
  /\ R \in SUBSET Rows /\ \A r \in R : Free(w, r)
  /\ t.ch = tx[w].ch /\ t.burned = tx[w].burned /\ t.number = tx[w].number
  /\ s = "credit" => checkout[t.ch].company \in Companies
  /\ \A l \in Levels : t.take[l] > 0 => LevelRow(l) \in held[w] \cup R /\ t.take[l] <= stock[l]

LEMMA LateStatementCore ==
  ASSUME CoreInv, NEW w \in Workers, NEW s, NEW R, NEW t,
         Advance(w, s, R), Keeps(w, s, R, t), tx' = [tx EXCEPT ![w] = t]
  PROVE  CoreInv'
<1> USE DEF Keeps
<1>1. Protected(w)
  BY DEF CoreInv, LocksProtectReads
<1>2. /\ tx'[w] = t /\ pc'[w] = s /\ held'[w] = held[w] \cup R /\ s \in Stages
      /\ checkout' = checkout /\ uses' = uses /\ used' = used /\ stock' = stock
      /\ orderSequence' = orderSequence
  BY DEF CoreInv, TypeOK, Advance, db, Numbered, Stages
<1>3. pc[w] \in Claimed /\ pc[w] \notin {"idle", "burn"} /\ s \notin {"idle", "burn"}
  BY DEF Claimed, Numbered
<1>4. Protected(w)'
  <2>1. t.ch \in Checkouts /\ checkout'[t.ch].status = "pending" /\ CheckoutRow(t.ch) \in held'[w]
    BY <1>1, <1>2, <1>3 DEF Protected
  <2>2. StoreRow \in held'[w] /\ t.number = orderSequence' + 1
    BY <1>1, <1>2 DEF Protected
  <2>3. t.burned # None =>
          /\ CodeRow(t.burned) \in held'[w]
          /\ uses'[t.burned] < Rule[t.burned].max
          /\ Rule[t.burned].once /\ checkout'[t.ch].customer # None =>
               <<t.burned, checkout'[t.ch].customer>> \notin used'
    BY <1>1, <1>2, <1>3 DEF Protected
  <2>4. \A l \in Levels : t.take[l] > 0 => LevelRow(l) \in held'[w] /\ t.take[l] <= stock'[l]
    BY <1>2
  <2>5. QED
    BY <1>2, <1>3, <2>1, <2>2, <2>3, <2>4 DEF Protected
<1>5. QED BY <1>2, <1>4, AdvanceCore

\* What the statements compute from a cart is of its type.
LEMMA CartOfCheckout ==
  ASSUME CoreInv, NEW w \in Workers, pc[w] \in Numbered
  PROVE  /\ tx[w].ch \in Checkouts /\ tx[w] \in TxRecord
         /\ checkout[tx[w].ch] \in CheckoutRecord
         /\ checkout[tx[w].ch].cart \in Carts
         /\ cart[checkout[tx[w].ch].cart] \in CartRecord
         /\ LinePrice(w) \in [Variants -> Price]
         /\ \A l \in Levels : tx[w].take[l] > 0 =>
              LevelRow(l) \in held[w] /\ tx[w].take[l] <= stock[l]
<1>1. Protected(w) /\ TypeOK /\ pc[w] # "idle"
  BY DEF CoreInv, LocksProtectReads, Numbered
<1>2. tx[w].ch \in Checkouts /\ checkout[tx[w].ch].status # "none" /\ tx[w] \in TxRecord
  BY <1>1 DEF Protected, TypeOK
<1>3. checkout[tx[w].ch] \in CheckoutRecord /\ checkout[tx[w].ch].cart \in Carts
  BY <1>1, <1>2 DEF TypeOK
<1>4. cart[checkout[tx[w].ch].cart] \in CartRecord
  BY <1>1, <1>3 DEF TypeOK
<1>5. LinePrice(w) \in [Variants -> Price]
  BY <1>2, <1>4 DEF LinePrice, CartRecord, TxRecord
<1>6. QED BY <1>1, <1>2, <1>3, <1>4, <1>5 DEF Protected

LEMMA RefetchPricesCore ==
  ASSUME CoreInv, NEW w \in Workers, RefetchPrices(w)
  PROVE  CoreInv'
<1> DEFINE ch == tx[w].ch
           c == checkout[ch].cart
           k == checkout[ch].company
           Changed == {v \in Variants : cart[c].qty[v] > 0 /\ cart[c].price[v] # price[v]}
           R == {LineRow(c, v) : v \in Changed}
           s == IF k # None /\ k \in NetTerms THEN "credit" ELSE "order"
           fresh == [v \in Variants |-> IF v \in Changed THEN price[v] ELSE 0]
           subtotal == Amount(cart[c].qty, price)
           total == subtotal + Extra - checkout[ch].discount
           t == IF Changed = {} THEN tx[w]
                ELSE [tx[w] EXCEPT !.fresh = fresh, !.subtotal = subtotal, !.total = total]
<1>1. pc[w] = "prices" /\ (\A r \in R : Free(w, r)) /\ Advance(w, s, R)
  BY DEF RefetchPrices
<1>2. pc[w] \in Numbered /\ s \in Numbered
  BY <1>1 DEF Numbered
<1>3. c \in Carts /\ tx[w] \in TxRecord /\ checkout[ch] \in CheckoutRecord
  BY <1>2, CartOfCheckout
<1>4. R \in SUBSET Rows
  BY <1>3 DEF Rows
<1>5. fresh \in [Variants -> Price]
  BY DEF CoreInv, TypeOK, Price
<1>6. subtotal \in Int
  BY <1>3, CartAmounts DEF CoreInv
<1>7. total \in Int
  <2>1. checkout[ch].discount \in Int /\ Extra \in Int
    BY <1>3, NumbersAssumption DEF CheckoutRecord
  <2> HIDE DEF subtotal
  <2>2. QED BY <1>6, <2>1
<1>8. /\ t \in TxRecord /\ t.ch = tx[w].ch /\ t.burned = tx[w].burned
      /\ t.number = tx[w].number /\ t.take = tx[w].take
  <2> HIDE DEF fresh, subtotal, total, Changed
  <2> QED BY <1>3, <1>5, <1>6, <1>7 DEF TxRecord
<1>9. tx' = [tx EXCEPT ![w] = t]
  <2>1. CASE Changed = {}
    BY <2>1 DEF RefetchPrices, CoreInv, TypeOK
  <2>2. CASE Changed # {}
    <3>1. tx' = [tx EXCEPT ![w].fresh = fresh, ![w].subtotal = subtotal, ![w].total = total]
      BY <2>2 DEF RefetchPrices
    <3> HIDE DEF fresh, subtotal, total, Changed
    <3>2. QED BY <2>2, <3>1 DEF CoreInv, TypeOK
  <2>3. QED BY <2>1, <2>2
<1>10. \A l \in Levels : tx[w].take[l] > 0 =>
         LevelRow(l) \in held[w] \cup R /\ tx[w].take[l] <= stock[l]
  <2> HIDE DEF R
  <2> QED BY <1>2, CartOfCheckout
<1>11. s = "credit" => k \in Companies
  BY SetsAssumption
<1>12. QED
  <2> HIDE DEF t, s, R
  <2>1. Keeps(w, s, R, t)
    BY <1>1, <1>2, <1>4, <1>8, <1>10, <1>11 DEF Keeps
  <2> QED BY <1>1, <1>9, <2>1, LateStatementCore

LEMMA CreditCore ==
  ASSUME CoreInv, NEW w \in Workers, CheckCreditAndConsume(w)
  PROVE  CoreInv'
<1>1. CASE Rollback(w)
  BY <1>1, RollbackCore
<1>2. CASE ~Rollback(w)
  <2> DEFINE k == checkout[tx[w].ch].company
             R == {CompanyRow(k)}
             t == IF CreditLimit[k] = None THEN tx[w]
                  ELSE [tx[w] EXCEPT !.credit = tx[w].total]
  <2>1. pc[w] = "credit" /\ pc[w] \in Numbered /\ "order" \in Numbered
    BY DEF CheckCreditAndConsume, Numbered
  <2>2. Advance(w, "order", R) /\ Free(w, CompanyRow(k))
    BY <1>2 DEF CheckCreditAndConsume
  <2>3. tx[w] \in TxRecord /\ checkout[tx[w].ch] \in CheckoutRecord
    BY <2>1, CartOfCheckout
  <2>4. /\ t \in TxRecord /\ t.ch = tx[w].ch /\ t.burned = tx[w].burned
        /\ t.number = tx[w].number /\ t.take = tx[w].take
    BY <2>3 DEF TxRecord
  <2>5. tx' = [tx EXCEPT ![w] = t]
    BY <1>2 DEF CheckCreditAndConsume, CoreInv, TypeOK
  <2>6. k \in Companies
    BY DEF CheckCreditAndConsume, CoreInv, LocksProtectReads, Protected
  <2>7. R \in SUBSET Rows
    BY <2>6 DEF Rows
  <2>8. \A l \in Levels : tx[w].take[l] > 0 =>
          LevelRow(l) \in held[w] \cup R /\ tx[w].take[l] <= stock[l]
    BY <2>1, CartOfCheckout
  <2>9. QED
    <3>1. \A r \in R : Free(w, r)
      BY <2>2
    <3> HIDE DEF t, R
    <3>2. Keeps(w, "order", R, t)
      BY <2>1, <2>4, <2>7, <2>8, <3>1 DEF Keeps
    <3>3. QED BY <2>2, <2>5, <3>2, LateStatementCore
<1>3. QED BY <1>1, <1>2

LEMMA InsertOrderCore ==
  ASSUME CoreInv, NEW w \in Workers, InsertOrder(w)
  PROVE  CoreInv'
<1> DEFINE qty == cart[checkout[tx[w].ch].cart].qty
           amount == Amount(qty, LinePrice(w))
           t == [tx[w] EXCEPT !.lines = qty, !.amount = amount]
<1>1. pc[w] = "order" /\ Advance(w, "demand", {}) /\ pc[w] \in Numbered /\ "demand" \in Numbered
  BY DEF InsertOrder, Numbered
<1>2. tx[w] \in TxRecord /\ qty \in [Variants -> Quantity]
  BY <1>1, CartOfCheckout DEF CartRecord
<1>3. amount \in Int
  <2>1. qty \in [Variants -> Int] /\ LinePrice(w) \in [Variants -> Int]
    <3>1. Quantity \subseteq Int /\ Price \subseteq Int
      BY NumbersAssumption DEF Quantity, Price
    <3>2. LinePrice(w) \in [Variants -> Price]
      BY <1>1, CartOfCheckout
    <3> HIDE DEF qty
    <3>3. QED BY <1>2, <3>1, <3>2
  <2>2. IsFiniteSet(Variants)
    BY SetsAssumption
  <2> HIDE DEF qty
  <2>3. QED BY <2>1, <2>2, AmountType
<1>4. /\ t \in TxRecord /\ t.ch = tx[w].ch /\ t.burned = tx[w].burned
      /\ t.number = tx[w].number /\ t.take = tx[w].take
  <2> HIDE DEF qty, amount
  <2> QED BY <1>2, <1>3 DEF TxRecord
<1>5. tx' = [tx EXCEPT ![w] = t]
  <2>1. tx' = [tx EXCEPT ![w].lines = qty, ![w].amount = amount]
    BY DEF InsertOrder
  <2> HIDE DEF qty, amount
  <2>2. QED BY <2>1 DEF CoreInv, TypeOK
<1>6. \A l \in Levels : tx[w].take[l] > 0 =>
        LevelRow(l) \in held[w] \cup {} /\ tx[w].take[l] <= stock[l]
  BY <1>1, CartOfCheckout
<1>7. {} \in SUBSET Rows /\ \A r \in {} : Free(w, r)
  OBVIOUS
<1>8. QED
  <2> HIDE DEF t
  <2>1. Keeps(w, "demand", {}, t)
    BY <1>1, <1>4, <1>6, <1>7 DEF Keeps
  <2> QED BY <1>1, <1>5, <2>1, LateStatementCore

LEMMA LoadDemandCore ==
  ASSUME CoreInv, NEW w \in Workers, LoadDemand(w)
  PROVE  CoreInv'
<1> DEFINE qty == cart[checkout[tx[w].ch].cart].qty
           demand == [v \in Variants |-> IF v \in Tracked THEN qty[v] ELSE 0]
           t == [tx[w] EXCEPT !.demand = demand, !.need = demand]
<1>1. pc[w] = "demand" /\ Advance(w, "stock", {}) /\ pc[w] \in Numbered /\ "stock" \in Numbered
  BY DEF LoadDemand, Numbered
<1>2. tx[w] \in TxRecord /\ qty \in [Variants -> Quantity]
  BY <1>1, CartOfCheckout DEF CartRecord
<1>3. demand \in [Variants -> Quantity] /\ demand \in [Variants -> Nat]
  <2> HIDE DEF qty
  <2> QED BY <1>2, NumbersAssumption DEF Quantity
<1>4. /\ t \in TxRecord /\ t.ch = tx[w].ch /\ t.burned = tx[w].burned
      /\ t.number = tx[w].number /\ t.take = tx[w].take
  <2> HIDE DEF demand
  <2> QED BY <1>2, <1>3 DEF TxRecord
<1>5. tx' = [tx EXCEPT ![w] = t]
  <2>1. tx' = [tx EXCEPT ![w].demand = demand, ![w].need = demand]
    BY DEF LoadDemand
  <2> HIDE DEF demand
  <2>2. QED BY <2>1 DEF CoreInv, TypeOK
<1>6. \A l \in Levels : tx[w].take[l] > 0 =>
        LevelRow(l) \in held[w] \cup {} /\ tx[w].take[l] <= stock[l]
  BY <1>1, CartOfCheckout
<1>7. {} \in SUBSET Rows /\ \A r \in {} : Free(w, r)
  OBVIOUS
<1>8. QED
  <2> HIDE DEF t
  <2>1. Keeps(w, "stock", {}, t)
    BY <1>1, <1>4, <1>6, <1>7 DEF Keeps
  <2> QED BY <1>1, <1>5, <2>1, LateStatementCore

LEMMA DecrementInventoryCore ==
  ASSUME CoreInv, NEW w \in Workers, DecrementInventory(w)
  PROVE  CoreInv'
<1>1. pc[w] = "stock" /\ pc[w] \in Numbered /\ "stock" \in Numbered
  BY DEF DecrementInventory, Numbered
<1>2. PICK l \in RowsLeft(w) :
        LET v == LevelVariant[l]
            take == Lesser(tx[w].need[v], stock[l]) IN
        /\ Free(w, LevelRow(l)) /\ Advance(w, "stock", {LevelRow(l)})
        /\ tx' = [tx EXCEPT ![w].row = l, ![w].take[l] = take, ![w].need[v] = @ - take]
  BY DEF DecrementInventory
<1> DEFINE v == LevelVariant[l]
           take == Lesser(tx[w].need[v], stock[l])
           takes == [tx[w].take EXCEPT ![l] = take]
           need == [tx[w].need EXCEPT ![v] = @ - take]
           t == [tx[w] EXCEPT !.row = l, !.take = takes, !.need = need]
<1>3. l \in Levels /\ l \in Nat /\ v \in Variants
  BY NumbersAssumption DEF RowsLeft, Levels
<1>4. tx[w] \in TxRecord /\ stock[l] \in Nat
  BY <1>1, <1>3, CartOfCheckout DEF CoreInv, TypeOK
<1>5. tx[w].need[v] \in Nat /\ tx[w].need \in [Variants -> Nat] /\ tx[w].take \in [Levels -> Nat]
  BY <1>3, <1>4 DEF TxRecord
<1>6. take \in Nat /\ take <= stock[l] /\ take <= tx[w].need[v]
  BY <1>4, <1>5 DEF Lesser
<1>7. takes \in [Levels -> Nat] /\ need \in [Variants -> Nat]
  <2> HIDE DEF take, v
  <2> QED BY <1>3, <1>5, <1>6
<1>8. /\ t \in TxRecord /\ t.ch = tx[w].ch /\ t.burned = tx[w].burned
      /\ t.number = tx[w].number /\ t.take = takes
  <2> HIDE DEF takes, need
  <2> QED BY <1>3, <1>4, <1>7 DEF TxRecord
<1>9. tx' = [tx EXCEPT ![w] = t]
  <2>1. tx' = [tx EXCEPT ![w].row = l, ![w].take[l] = take, ![w].need[v] = @ - take]
    BY <1>2
  <2> HIDE DEF take, v
  <2>2. QED BY <1>4, <2>1 DEF CoreInv, TypeOK, TxRecord
<1>10. \A m \in Levels : takes[m] > 0 =>
         LevelRow(m) \in held[w] \cup {LevelRow(l)} /\ takes[m] <= stock[m]
  <2>1. \A m \in Levels : tx[w].take[m] > 0 => LevelRow(m) \in held[w] /\ tx[w].take[m] <= stock[m]
    BY <1>1, CartOfCheckout
  <2>2. \A m \in Levels : m # l => takes[m] = tx[w].take[m]
    BY <1>5
  <2>3. takes[l] = take
    BY <1>3, <1>5
  <2> HIDE DEF take, takes
  <2>4. QED BY <1>6, <2>1, <2>2, <2>3
<1>11. {LevelRow(l)} \in SUBSET Rows /\ Free(w, LevelRow(l)) /\ Advance(w, "stock", {LevelRow(l)})
  BY <1>2, <1>3 DEF Rows
<1>12. QED
  <2> HIDE DEF t, takes
  <2>1. Keeps(w, "stock", {LevelRow(l)}, t)
    BY <1>1, <1>8, <1>10, <1>11 DEF Keeps
  <2> QED BY <1>9, <1>11, <2>1, LateStatementCore

LEMMA VerifyInventoryCore ==
  ASSUME CoreInv, NEW w \in Workers, VerifyInventory(w)
  PROVE  CoreInv'
<1>1. CASE Rollback(w)
  BY <1>1, RollbackCore
<1>2. CASE ~Rollback(w)
  <2>1. /\ pc[w] = "stock" /\ pc[w] \in Numbered /\ "commit" \in Numbered
        /\ Advance(w, "commit", {}) /\ tx' = tx
    BY <1>2 DEF VerifyInventory, Numbered
  <2>2. tx[w] \in TxRecord /\ tx' = [tx EXCEPT ![w] = tx[w]]
    BY <2>1, CartOfCheckout DEF CoreInv, TypeOK
  <2>3. \A l \in Levels : tx[w].take[l] > 0 =>
          LevelRow(l) \in held[w] \cup {} /\ tx[w].take[l] <= stock[l]
    BY <2>1, CartOfCheckout
  <2>4. {} \in SUBSET Rows /\ \A r \in {} : Free(w, r)
    OBVIOUS
  <2>5. Keeps(w, "commit", {}, tx[w])
    BY <2>1, <2>2, <2>3, <2>4 DEF Keeps
  <2>6. QED
    BY <2>1, <2>2, <2>5, LateStatementCore
<1>3. QED BY <1>1, <1>2

\* What a transaction has in hand when it commits.
LEMMA AtCommit ==
  ASSUME CoreInv, NEW w \in Workers, Commit(w)
  PROVE  LET t == tx[w]
             k == checkout[t.ch] IN
         /\ t \in TxRecord /\ t.ch \in Checkouts /\ t.number = orderSequence + 1
         /\ k \in CheckoutRecord /\ k.cart \in Carts /\ k.status = "pending"
         /\ CheckoutRow(t.ch) \in held[w] /\ StoreRow \in held[w]
         /\ OrderOf(w) \in OrderRecord
         /\ t.burned # None =>
              /\ CodeRow(t.burned) \in held[w]
              /\ uses[t.burned] < Rule[t.burned].max
              /\ Rule[t.burned].once /\ k.customer # None => <<t.burned, k.customer>> \notin used
         /\ \A l \in Levels : t.take[l] > 0 => LevelRow(l) \in held[w] /\ t.take[l] <= stock[l]
<1>1. pc[w] = "commit" /\ pc[w] \in Numbered /\ pc[w] \in Claimed /\ pc[w] \notin {"idle", "burn"}
  BY DEF Commit, Numbered, Claimed
<1>2. Protected(w) /\ tx[w] \in TxRecord
  BY DEF CoreInv, LocksProtectReads, TypeOK
<1>3. /\ tx[w].ch \in Checkouts /\ checkout[tx[w].ch] \in CheckoutRecord
      /\ checkout[tx[w].ch].cart \in Carts
  BY <1>1, CartOfCheckout
<1>4. OrderOf(w) \in OrderRecord
  BY <1>2, <1>3 DEF OrderOf, OrderRecord, TxRecord, CheckoutRecord
<1>5. /\ checkout[tx[w].ch].status = "pending" /\ CheckoutRow(tx[w].ch) \in held[w]
      /\ StoreRow \in held[w] /\ tx[w].number = orderSequence + 1
  BY <1>1, <1>2 DEF Protected
<1>6. tx[w].burned # None =>
        /\ CodeRow(tx[w].burned) \in held[w]
        /\ uses[tx[w].burned] < Rule[tx[w].burned].max
        /\ Rule[tx[w].burned].once /\ checkout[tx[w].ch].customer # None =>
             <<tx[w].burned, checkout[tx[w].ch].customer>> \notin used
  BY <1>1, <1>2 DEF Protected
<1>7. \A l \in Levels : tx[w].take[l] > 0 =>
        LevelRow(l) \in held[w] /\ tx[w].take[l] <= stock[l]
  BY <1>2 DEF Protected
<1>8. QED BY <1>2, <1>3, <1>4, <1>5, <1>6, <1>7

\* A commit writes the row of one checkout, its status and its totals.
LEMMA CommitCheckout ==
  ASSUME CoreInv, NEW w \in Workers, Commit(w)
  PROVE  /\ checkout' \in [Checkouts -> CheckoutRecord]
         /\ checkout'[tx[w].ch].status = "completed"
         /\ \A ch \in Checkouts :
              /\ ch # tx[w].ch => checkout'[ch] = checkout[ch]
              /\ checkout'[ch].cart = checkout[ch].cart
              /\ checkout'[ch].customer = checkout[ch].customer
              /\ checkout'[ch].company = checkout[ch].company
<1> DEFINE t == tx[w]
           r == [checkout[t.ch] EXCEPT !.status = "completed", !.subtotal = t.subtotal,
                                       !.total = t.total]
<1>1. /\ t.ch \in Checkouts /\ checkout[t.ch] \in CheckoutRecord /\ t \in TxRecord
      /\ checkout \in [Checkouts -> CheckoutRecord]
  BY AtCommit DEF CoreInv, TypeOK
<1>2. checkout' = [checkout EXCEPT ![t.ch] = r]
  BY <1>1 DEF Commit
<1>3. /\ r \in CheckoutRecord /\ r.status = "completed" /\ r.cart = checkout[t.ch].cart
      /\ r.customer = checkout[t.ch].customer /\ r.company = checkout[t.ch].company
  BY <1>1 DEF CheckoutRecord, TxRecord
<1>4. QED
  <2> HIDE DEF r
  <2> QED BY <1>1, <1>2, <1>3

LEMMA CommitType ==
  ASSUME CoreInv, NEW w \in Workers, Commit(w)
  PROVE  TypeOK'
<1> DEFINE t == tx[w]
           k == checkout[t.ch]
<1>1. /\ t \in TxRecord /\ t.ch \in Checkouts /\ k \in CheckoutRecord /\ k.cart \in Carts
      /\ OrderOf(w) \in OrderRecord /\ pc[w] \in Numbered
      /\ \A l \in Levels : t.take[l] > 0 => t.take[l] <= stock[l]
  BY AtCommit DEF Commit, Numbered
<1>2. orders' \in Seq(OrderRecord) /\ orderSequence' \in Nat
  BY <1>1 DEF Commit, CoreInv, TypeOK, TxRecord
<1>3. cart' \in [Carts -> CartRecord]
  <2> DEFINE r == [cart[k.cart] EXCEPT !.status = "converted", !.price = LinePrice(w)]
  <2>1. cart \in [Carts -> CartRecord] /\ cart[k.cart] \in CartRecord
    BY <1>1 DEF CoreInv, TypeOK
  <2>2. r \in CartRecord
    <3>1. LinePrice(w) \in [Variants -> Price]
      BY <1>1, CartOfCheckout
    <3>2. QED BY <2>1, <3>1 DEF CartRecord
  <2>3. cart' = [cart EXCEPT ![k.cart] = r]
    BY <1>1, <2>1 DEF Commit
  <2>4. QED
    <3> HIDE DEF r
    <3> QED BY <1>1, <2>1, <2>2, <2>3
<1>4. uses' \in [Codes -> Nat]
  BY SMTT(30) DEF Commit, CoreInv, TypeOK
<1>5. used' \subseteq Codes \X Customers
  <2>1. t.burned \in Codes \cup {None} /\ k.customer \in Customers \cup {None}
    BY <1>1 DEF TxRecord, CheckoutRecord
  <2>2. used' = used \cup {p \in {<<t.burned, k.customer>>} :
                            t.burned # None /\ k.customer # None /\ Rule[t.burned].once}
    BY DEF Commit, OrderOf
  <2>3. used \subseteq Codes \X Customers
    BY DEF CoreInv, TypeOK
  <2>4. QED BY <2>1, <2>2, <2>3
<1>6. creditUsed' \in [Companies -> Int]
  BY <1>1 DEF Commit, CoreInv, TypeOK, TxRecord
<1>7. stock' \in [Levels -> Nat]
  <2>1. stock' = [l \in Levels |-> stock[l] - t.take[l]]
    BY DEF Commit
  <2>2. ASSUME NEW l \in Levels
        PROVE  stock[l] - t.take[l] \in Nat
    <3>1. stock[l] \in Nat /\ t.take[l] \in Nat
      BY <1>1 DEF CoreInv, TypeOK, TxRecord
    <3>2. t.take[l] <= stock[l]
      BY <1>1, <3>1
    <3>3. QED BY <3>1, <3>2
  <2>3. QED BY <2>1, <2>2
<1>8. /\ pc' \in [Workers -> Stages] /\ held' \in [Workers -> SUBSET Rows]
      /\ tx' \in [Workers -> TxRecord] /\ price' \in [Variants -> Prices]
      /\ edit' = edit /\ edit \in [Editors -> EditRecord]
  BY NullRecords DEF Commit, CoreInv, TypeOK, Stages
<1>9. /\ checkout' \in [Checkouts -> CheckoutRecord]
      /\ \A ch \in Checkouts : checkout'[ch].status # "none" => checkout'[ch].cart \in Carts
  BY <1>1, CommitCheckout DEF CoreInv, TypeOK
<1>10. \A e \in Editors : edit'[e] # NoEdit =>
         edit'[e].ch \in Checkouts /\ checkout'[edit'[e].ch].status # "none"
  BY <1>8, CommitCheckout DEF CoreInv, TypeOK
<1>11. QED
  BY <1>2, <1>3, <1>4, <1>5, <1>6, <1>7, <1>8, <1>9, <1>10 DEF TypeOK

LEMMA CommitCore ==
  ASSUME CoreInv, NEW w \in Workers, Commit(w)
  PROVE  CoreInv'
<1> DEFINE t == tx[w]
<1>1. TypeOK'
  BY CommitType
<1>2. /\ pc'[w] = "idle" /\ held'[w] = {} /\ tx'[w] = NoTx
      /\ \A x \in Workers \ {w} : pc'[x] = pc[x] /\ held'[x] = held[x] /\ tx'[x] = tx[x]
  BY DEF Commit, CoreInv, TypeOK
<1>3. LockExclusion'
  BY <1>2 DEF CoreInv, LocksProtectReads, LockExclusion
<1>4. Protected(w)'
  BY <1>2 DEF Protected, NoTx, NoTakes, Claimed, Numbered
<1>5. ASSUME NEW x \in Workers \ {w}
      PROVE  Protected(x)'
  <2>1. Protected(x) /\ held[w] \cap held[x] = {} /\ tx[x] \in TxRecord
    BY DEF CoreInv, LocksProtectReads, LockExclusion, TypeOK
  <2>2. pc[x] # "idle" => tx[x].ch \in Checkouts /\ checkout[tx[x].ch].status # "none"
    BY <2>1 DEF Protected
  <2>3. pc[x] \notin Numbered
    <3>1. StoreRow \in held[w]
      BY AtCommit
    <3>2. QED BY <2>1, <3>1 DEF Protected
  <2>4. pc[x] \in Claimed =>
          CheckoutRow(tx[x].ch) \in held[x] /\ checkout'[tx[x].ch].status = "pending"
    <3>1. SUFFICES ASSUME pc[x] \in Claimed
                   PROVE  CheckoutRow(tx[x].ch) \in held[x] /\ checkout'[tx[x].ch].status = "pending"
      OBVIOUS
    <3>2. CheckoutRow(tx[x].ch) \in held[x] /\ checkout[tx[x].ch].status = "pending"
      BY <2>1, <3>1 DEF Protected
    <3>3. tx[x].ch \in Checkouts /\ tx[x].ch # tx[w].ch
      BY <2>1, <2>2, <3>1, <3>2, AtCommit DEF Claimed, Numbered
    <3>4. QED BY <3>2, <3>3, CommitCheckout
  <2>5. pc[x] \notin {"idle", "burn"} /\ tx[x].burned # None =>
          /\ CodeRow(tx[x].burned) \in held[x]
          /\ uses'[tx[x].burned] < Rule[tx[x].burned].max
          /\ Rule[tx[x].burned].once /\ checkout'[tx[x].ch].customer # None =>
               <<tx[x].burned, checkout'[tx[x].ch].customer>> \notin used'
    <3>1. SUFFICES ASSUME pc[x] \notin {"idle", "burn"}, tx[x].burned # None
                   PROVE  /\ CodeRow(tx[x].burned) \in held[x]
                          /\ uses'[tx[x].burned] < Rule[tx[x].burned].max
                          /\ Rule[tx[x].burned].once /\ checkout'[tx[x].ch].customer # None =>
                               <<tx[x].burned, checkout'[tx[x].ch].customer>> \notin used'
      OBVIOUS
    <3>2. /\ CodeRow(tx[x].burned) \in held[x]
          /\ uses[tx[x].burned] < Rule[tx[x].burned].max
          /\ Rule[tx[x].burned].once /\ checkout[tx[x].ch].customer # None =>
               <<tx[x].burned, checkout[tx[x].ch].customer>> \notin used
      BY <2>1, <3>1 DEF Protected
    <3>3. tx[x].burned \in Codes /\ tx[x].burned # tx[w].burned
      BY <2>1, <3>1, <3>2, AtCommit DEF TxRecord
    <3>4. uses'[tx[x].burned] = uses[tx[x].burned]
      BY <3>3 DEF Commit
    <3>5. checkout'[tx[x].ch].customer = checkout[tx[x].ch].customer
      BY <2>2, <3>1, CommitCheckout
    <3>6. \A y : <<tx[x].burned, y>> \in used' => <<tx[x].burned, y>> \in used
      BY <3>3 DEF Commit
    <3>7. QED BY <3>2, <3>4, <3>5, <3>6
  <2>6. \A l \in Levels : tx[x].take[l] > 0 =>
          LevelRow(l) \in held[x] /\ tx[x].take[l] <= stock'[l]
    <3>1. SUFFICES ASSUME NEW l \in Levels, tx[x].take[l] > 0
                   PROVE  LevelRow(l) \in held[x] /\ tx[x].take[l] <= stock'[l]
      OBVIOUS
    <3>2. LevelRow(l) \in held[x] /\ tx[x].take[l] <= stock[l]
      BY <2>1, <3>1 DEF Protected
    <3>3. ~(tx[w].take[l] > 0) /\ tx[w].take[l] \in Nat
      BY <2>1, <3>2, AtCommit DEF TxRecord
    <3>4. stock'[l] = stock[l] - tx[w].take[l] /\ stock[l] \in Nat
      BY DEF Commit, CoreInv, TypeOK
    <3>5. QED BY <3>2, <3>3, <3>4
  <2>7. pc[x] = "burn" => tx[x].burned \in Codes
    BY <2>1 DEF Protected
  <2>8. pc[x] # "idle" => checkout'[tx[x].ch].status # "none"
    <3>1. CASE tx[x].ch = tx[w].ch
      BY <3>1, CommitCheckout
    <3>2. CASE tx[x].ch # tx[w].ch
      BY <2>2, <3>2, CommitCheckout
    <3>3. QED BY <3>1, <3>2
  <2>9. pc[x] # "credit"
    BY <2>3 DEF Numbered
  <2>10. QED
    BY <1>2, <2>2, <2>3, <2>4, <2>5, <2>6, <2>7, <2>8, <2>9 DEF Protected
<1>6. QED BY <1>1, <1>3, <1>4, <1>5 DEF CoreInv, LocksProtectReads

-----------------------------------------------------------------------------
(* The invariants.                                                         *)

LEMMA CoreInit == Init => CoreInv
<1> SUFFICES ASSUME Init PROVE CoreInv
  OBVIOUS
<1>1. \A w \in Workers : pc[w] = "idle" /\ held[w] = {} /\ tx[w] = NoTx
  BY DEF Init
<1>2. \A w \in Workers : Protected(w)
  BY <1>1 DEF Protected, NoTx, NoTakes, Claimed, Numbered
<1>3. LockExclusion
  BY <1>1 DEF LockExclusion
<1>4. QED BY <1>2, <1>3, InitType DEF CoreInv, LocksProtectReads

LEMMA CoreStep == CoreInv /\ [Next]_vars => CoreInv'
<1> SUFFICES ASSUME CoreInv, [Next]_vars
             PROVE  CoreInv'
  OBVIOUS
<1>1. CASE Environment
  BY <1>1, EnvironmentCore
<1>2. ASSUME NEW w \in Workers, NEW ch \in Checkouts, NEW a \in Agents \cup {None}, Begin(w, ch, a)
      PROVE  CoreInv'
  BY <1>2, BeginCore
<1>3. ASSUME NEW w \in Workers, Step(w)
      PROVE  CoreInv'
  <2>1. CASE PoolTimeout(w)
    BY <2>1, RollbackCore DEF PoolTimeout
  <2>2. CASE ~PoolTimeout(w)
    BY <1>3, <2>2, BurnCore, ClaimCore, VerifyAgentCore, NextOrderNumberCore, RefetchPricesCore,
       CreditCore, InsertOrderCore, LoadDemandCore, DecrementInventoryCore,
       VerifyInventoryCore, CommitCore DEF Step
  <2>3. QED BY <2>1, <2>2
<1>4. ASSUME NEW w \in Workers, Crash(w)
      PROVE  CoreInv'
  BY <1>4, RollbackCore DEF Crash
<1>5. CASE UNCHANGED vars
  <2>1. /\ UNCHANGED <<db, edit>> /\ pc' = pc /\ held' = held /\ tx' = tx
    BY <1>5 DEF vars
  <2>2. TypeOK'
    BY <2>1, TxType DEF CoreInv, TypeOK
  <2>3. \A w \in Workers : Protected(w)'
    BY <2>1, OthersKeep DEF CoreInv
  <2>4. LockExclusion'
    BY <2>1 DEF CoreInv, LocksProtectReads, LockExclusion
  <2>5. QED BY <2>2, <2>3, <2>4 DEF CoreInv, LocksProtectReads
<1>6. QED
  BY <1>1, <1>2, <1>3, <1>4, <1>5 DEF Next

THEOREM CoreHolds == Spec => []CoreInv
<1>1. QED BY CoreInit, CoreStep, PTL DEF Spec

\* The rows of the shop and what its handlers hold keep their types; a level of stock is
\* never negative (completeCheckout, adjustInventory, updateCheckout).
THEOREM TypeCorrect == Spec => []TypeOK
<1>1. CoreInv => TypeOK
  BY DEF CoreInv
<1>2. QED BY <1>1, CoreHolds, PTL

\* What a completion has found out under a row lock is still true when it commits.
THEOREM LocksProtect == Spec => []LocksProtectReads
<1>1. CoreInv => LocksProtectReads
  BY DEF CoreInv
<1>2. QED BY <1>1, CoreHolds, PTL

\* Only a commit writes an order, a counter of a code, credit or the order sequence.
LEMMA OnlyCommitPlaces ==
  ASSUME CoreInv, [Next]_vars, \A w \in Workers : ~Commit(w)
  PROVE  /\ UNCHANGED <<orders, orderSequence, uses, used, creditUsed>>
         /\ \A ch \in Checkouts :
              checkout'[ch].status = "completed" <=> checkout[ch].status = "completed"
<1> DEFINE Kept == UNCHANGED <<orders, orderSequence, uses, used, creditUsed>>
                   /\ \A ch \in Checkouts : checkout'[ch].status = "completed"
                                            <=> checkout[ch].status = "completed"
<1>1. CASE Environment
  BY <1>1, EnvironmentKeeps DEF CoreInv
<1>2. ASSUME UNCHANGED db
      PROVE  Kept
  BY <1>2 DEF db
<1>3. \A w \in Workers : \A s, R : Advance(w, s, R) => UNCHANGED db
  BY DEF Advance
<1>4. \A w \in Workers : Rollback(w) => UNCHANGED db
  BY DEF Rollback
<1>5. ASSUME NEW w \in Workers, NEW ch \in Checkouts, NEW a \in Agents \cup {None}, Begin(w, ch, a)
      PROVE  UNCHANGED db
  BY <1>3, <1>5 DEF Begin
<1>6. ASSUME NEW w \in Workers, Step(w)
      PROVE  UNCHANGED db
  BY <1>3, <1>4, <1>6 DEF Step, BurnCheckoutDiscount, ClaimCheckout, VerifyAgentCheckout,
     PoolTimeout, NextOrderNumber, RefetchPrices, CheckCreditAndConsume, InsertOrder,
     LoadDemand, DecrementInventory, VerifyInventory
<1>7. ASSUME NEW w \in Workers, Crash(w)
      PROVE  UNCHANGED db
  BY <1>4, <1>7 DEF Crash
<1>8. CASE UNCHANGED vars
  BY <1>2, <1>8 DEF vars
<1>9. QED
  BY <1>1, <1>2, <1>5, <1>6, <1>7, <1>8 DEF Next

\* A commit appends the order of its transaction.
LEMMA CommitAppends ==
  ASSUME CoreInv, NEW w \in Workers, Commit(w)
  PROVE  /\ Len(orders) \in Nat /\ Len(orders') = Len(orders) + 1
         /\ Placed' = Placed \cup {Len(orders) + 1} /\ Len(orders) + 1 \notin Placed
         /\ \A i \in Placed : orders'[i] = orders[i]
         /\ orders'[Len(orders) + 1] = OrderOf(w)
<1>1. orders \in Seq(OrderRecord) /\ OrderOf(w) \in OrderRecord
  BY AtCommit DEF CoreInv, TypeOK
<1>2. orders' = Append(orders, OrderOf(w))
  BY DEF Commit
<1>3. /\ Len(orders) \in Nat /\ Len(orders') = Len(orders) + 1
      /\ \A i \in 1 .. Len(orders) : orders'[i] = orders[i]
      /\ orders'[Len(orders) + 1] = OrderOf(w)
  BY <1>1, <1>2
<1>4. QED BY <1>3 DEF Placed

OrdersInv == CoreInv /\ OneOrderPerCheckout /\ OrderNumbersHaveNoGap

LEMMA OrdersInit == Init => OrdersInv
<1> SUFFICES ASSUME Init PROVE OrdersInv
  OBVIOUS
<1>1. Placed = {} /\ orderSequence = Len(orders)
  BY DEF Init, Placed
<1>2. \A ch \in Checkouts : checkout[ch].status = "none"
  BY DEF Init, NoCheckout
<1>3. QED
  BY <1>1, <1>2, CoreInit DEF OrdersInv, OneOrderPerCheckout, OrderNumbersHaveNoGap

LEMMA OrdersStep == OrdersInv /\ [Next]_vars => OrdersInv'
<1> SUFFICES ASSUME OrdersInv, [Next]_vars
             PROVE  OrdersInv'
  OBVIOUS
<1>1. CoreInv /\ CoreInv'
  BY CoreStep DEF OrdersInv
<1>2. CASE \A w \in Workers : ~Commit(w)
  <2>1. /\ orders' = orders /\ orderSequence' = orderSequence /\ Placed' = Placed
        /\ \A ch \in Checkouts :
             checkout'[ch].status = "completed" <=> checkout[ch].status = "completed"
    BY <1>1, <1>2, OnlyCommitPlaces DEF Placed
  <2>2. QED
    BY <1>1, <2>1 DEF OrdersInv, OneOrderPerCheckout, OrderNumbersHaveNoGap
<1>3. ASSUME NEW w \in Workers, Commit(w)
      PROVE  OrdersInv'
  <2> DEFINE n == Len(orders) + 1
  <2>1. /\ Placed' = Placed \cup {n} /\ n \notin Placed /\ Len(orders') = n
        /\ \A i \in Placed : orders'[i] = orders[i]
        /\ orders'[n].checkout = tx[w].ch /\ orders'[n].number = tx[w].number
    <3>1. OrderOf(w).checkout = tx[w].ch /\ OrderOf(w).number = tx[w].number
      BY DEF OrderOf
    <3>2. QED BY <1>1, <1>3, <3>1, CommitAppends
  <2>2. tx[w].ch \in Checkouts /\ checkout[tx[w].ch].status = "pending"
          /\ tx[w].number = orderSequence + 1 /\ orderSequence' = tx[w].number
    BY <1>1, <1>3, AtCommit DEF Commit
  <2>3. \A i \in Placed : orders[i].checkout # tx[w].ch
    BY <2>2 DEF OrdersInv, OneOrderPerCheckout
  <2>4. OrderNumbersHaveNoGap'
    <3>1. orderSequence' = n
      BY <2>2 DEF OrdersInv, OrderNumbersHaveNoGap
    <3>2. \A i \in Placed' : orders'[i].number = i
      <4> HIDE DEF n
      <4> QED BY <2>1, <2>2, <3>1 DEF OrdersInv, OrderNumbersHaveNoGap
    <3>3. QED BY <2>1, <3>1, <3>2 DEF OrderNumbersHaveNoGap
  <2>5. \A i, j \in Placed' : orders'[i].checkout = orders'[j].checkout => i = j
    <3> HIDE DEF n
    <3> QED BY <2>1, <2>3 DEF OrdersInv, OneOrderPerCheckout
  <2>6. \A ch \in Checkouts :
          checkout'[ch].status = "completed" <=> \E i \in Placed' : orders'[i].checkout = ch
    <3>1. ASSUME NEW ch \in Checkouts, ch = tx[w].ch
          PROVE  checkout'[ch].status = "completed" <=> \E i \in Placed' : orders'[i].checkout = ch
      BY <1>1, <1>3, <2>1, <3>1, CommitCheckout
    <3>2. ASSUME NEW ch \in Checkouts, ch # tx[w].ch
          PROVE  checkout'[ch].status = "completed" <=> \E i \in Placed' : orders'[i].checkout = ch
      <4>1. checkout'[ch] = checkout[ch]
        BY <1>1, <1>3, <3>2, CommitCheckout
      <4>2. (\E i \in Placed' : orders'[i].checkout = ch)
              <=> (\E i \in Placed : orders[i].checkout = ch)
        <5> HIDE DEF n
        <5> QED BY <2>1, <3>2
      <4>3. QED BY <4>1, <4>2 DEF OrdersInv, OneOrderPerCheckout
    <3>3. QED BY <3>1, <3>2
  <2>7. QED BY <1>1, <2>4, <2>5, <2>6 DEF OrdersInv, OneOrderPerCheckout
<1>4. QED BY <1>2, <1>3

\* However many completions race for a checkout, it becomes at most one order, and is
\* completed exactly when that order exists.
THEOREM OneOrder == Spec => []OneOrderPerCheckout
<1>1. OrdersInv => OneOrderPerCheckout
  BY DEF OrdersInv
<1>2. QED BY <1>1, OrdersInit, OrdersStep, PTL DEF Spec

\* The orders of the store are numbered without a gap, in the order of their commits.
THEOREM NoGap == Spec => []OrderNumbersHaveNoGap
<1>1. OrdersInv => OrderNumbersHaveNoGap
  BY DEF OrdersInv
<1>2. QED BY <1>1, OrdersInit, OrdersStep, PTL DEF Spec

-----------------------------------------------------------------------------
(* What a transaction prepares before it commits.                          *)

\* The stages after the credit of the company has been consumed.
Drawn == {"order", "demand", "stock", "commit"}
LevelsOf(v) == {l \in Levels : LevelVariant[l] = v}

\* The credit an order is going to draw is within the limit, and the company's row is locked.
DrawsWithinLimit(w) ==
  LET t == tx[w]
      k == checkout[t.ch].company IN
  t.credit # 0 => /\ pc[w] \in Drawn /\ k \in Companies /\ CreditLimit[k] # None
                  /\ CompanyRow(k) \in held[w] /\ creditUsed[k] + t.credit <= CreditLimit[k]

\* What has been taken and what is still needed is the demand; rows ahead have given nothing.
TakesDemand(w) ==
  LET t == tx[w] IN
  /\ pc[w] \notin {"stock", "commit"} => t.take = NoTakes /\ t.row = 0
  /\ pc[w] \in {"stock", "commit"} =>
       /\ \A v \in Variants : SumOver(t.take, LevelsOf(v)) + t.need[v] = t.demand[v]
       /\ \A l \in Levels : l > t.row => t.take[l] = 0
  /\ pc[w] = "commit" => t.need = NoLines

Prepared(w) == DrawsWithinLimit(w) /\ TakesDemand(w)

PreparedInv == CoreInv /\ \A w \in Workers : Prepared(w)

\* A customer who has burned a once_per_customer code is on record.
BurnsAreOnRecord ==
  \A i \in Placed : LET o == orders[i] IN
    o.burned # None /\ o.customer # None /\ Rule[o.burned].once => <<o.burned, o.customer>> \in used

DealsInv == PreparedInv /\ BurnsAreOnRecord /\ DiscountsWithinCaps /\ CreditWithinLimit /\ NoOversell

LEMMA PreparedInit == Init => PreparedInv
<1> SUFFICES ASSUME Init PROVE PreparedInv
  OBVIOUS
<1>1. \A w \in Workers : pc[w] = "idle" /\ tx[w] = NoTx
  BY DEF Init
<1>2. \A w \in Workers : Prepared(w)
  BY <1>1 DEF Prepared, DrawsWithinLimit, TakesDemand, NoTx
<1>3. QED BY <1>2, CoreInit DEF PreparedInv

\* A transaction that has not begun, or has just ended, has prepared nothing.
LEMMA NothingPrepared ==
  ASSUME NEW w \in Workers, tx'[w].credit = 0, tx'[w].take = NoTakes, tx'[w].row = 0,
         pc'[w] \notin {"stock", "commit"}
  PROVE  Prepared(w)'
BY DEF Prepared, DrawsWithinLimit, TakesDemand

\* What a transaction has prepared stands while it waits and nobody changes its company.
LEMMA OthersPrepared ==
  ASSUME PreparedInv, NEW x \in Workers, pc'[x] = pc[x], held'[x] = held[x], tx'[x] = tx[x],
         creditUsed' = creditUsed, pc[x] \in Claimed => checkout'[tx[x].ch].company = checkout[tx[x].ch].company
  PROVE  Prepared(x)'
<1>1. Prepared(x)
  BY DEF PreparedInv
<1>2. pc[x] \in Drawn => pc[x] \in Claimed
  BY DEF Drawn, Claimed, Numbered
<1>3. DrawsWithinLimit(x)'
  BY <1>1, <1>2 DEF Prepared, DrawsWithinLimit
<1>4. TakesDemand(x)'
  BY <1>1 DEF Prepared, TakesDemand
<1>5. QED BY <1>3, <1>4 DEF Prepared

LEMMA PreparedEnvironment ==
  ASSUME PreparedInv, Environment
  PROVE  \A x \in Workers : Prepared(x)'
<1> SUFFICES ASSUME NEW x \in Workers PROVE Prepared(x)'
  OBVIOUS
<1>1. /\ UNCHANGED <<pc, held, tx, creditUsed>>
      /\ \A ch \in Checkouts : checkout[ch].status # "none" => checkout'[ch].company = checkout[ch].company
  BY EnvironmentKeeps DEF PreparedInv, CoreInv
<1>2. Protected(x)
  BY DEF PreparedInv, CoreInv, LocksProtectReads
<1>3. pc[x] \in Claimed => tx[x].ch \in Checkouts /\ checkout[tx[x].ch].status # "none"
  BY <1>2 DEF Protected, Claimed, Numbered
<1>4. QED BY <1>1, <1>3, OthersPrepared

\* A statement that succeeds touches one transaction.
LEMMA PreparedAdvance ==
  ASSUME PreparedInv, NEW w \in Workers, NEW s, NEW R, Advance(w, s, R), NEW t, tx' = [tx EXCEPT ![w] = t]
  PROVE  /\ pc'[w] = s /\ held'[w] = held[w] \cup R /\ tx'[w] = t
         /\ checkout' = checkout /\ creditUsed' = creditUsed /\ cart' = cart
         /\ \A x \in Workers \ {w} : Prepared(x)'
<1>1. /\ pc'[w] = s /\ held'[w] = held[w] \cup R /\ tx'[w] = t
      /\ checkout' = checkout /\ creditUsed' = creditUsed /\ cart' = cart
      /\ \A x \in Workers \ {w} : pc'[x] = pc[x] /\ held'[x] = held[x] /\ tx'[x] = tx[x]
  BY DEF Advance, PreparedInv, CoreInv, TypeOK, db
<1>2. QED BY <1>1, OthersPrepared

LEMMA PreparedRollback ==
  ASSUME PreparedInv, NEW w \in Workers, Rollback(w)
  PROVE  \A x \in Workers : Prepared(x)'
<1>1. /\ pc'[w] = "idle" /\ tx'[w] = NoTx /\ checkout' = checkout /\ creditUsed' = creditUsed
      /\ \A x \in Workers \ {w} : pc'[x] = pc[x] /\ held'[x] = held[x] /\ tx'[x] = tx[x]
  BY DEF Rollback, PreparedInv, CoreInv, TypeOK, db
<1>2. Prepared(w)'
  BY <1>1, NothingPrepared DEF NoTx
<1>3. QED BY <1>1, <1>2, OthersPrepared

\* The statements before the credit leave a transaction that has prepared nothing.
LEMMA PreparedEarly ==
  ASSUME PreparedInv, NEW w \in Workers, NEW s \in Stages \ {"stock", "commit"}, NEW R, Advance(w, s, R),
         pc[w] \notin Drawn, NEW t \in TxRecord, tx' = [tx EXCEPT ![w] = t],
         t.credit = tx[w].credit, t.take = tx[w].take, t.row = tx[w].row
  PROVE  \A x \in Workers : Prepared(x)'
<1>1. tx[w].credit = 0 /\ tx[w].take = NoTakes /\ tx[w].row = 0
  <2>1. pc[w] \notin {"stock", "commit"} /\ Prepared(w)
    BY DEF Drawn, PreparedInv
  <2>2. QED BY <2>1 DEF Prepared, DrawsWithinLimit, TakesDemand
<1>2. tx'[w] = t /\ pc'[w] = s /\ \A x \in Workers \ {w} : Prepared(x)'
  BY PreparedAdvance
<1>3. Prepared(w)'
  BY <1>1, <1>2, NothingPrepared
<1>4. QED BY <1>2, <1>3

LEMMA PreparedBegins ==
  ASSUME PreparedInv, NEW w \in Workers
  PROVE  /\ BurnCheckoutDiscount(w) \/ ClaimCheckout(w) \/ VerifyAgentCheckout(w) \/ NextOrderNumber(w)
              => \A x \in Workers : Prepared(x)'
         /\ \A ch \in Checkouts, a \in Agents \cup {None} : Begin(w, ch, a) => \A x \in Workers : Prepared(x)'
<1>1. tx[w] \in TxRecord /\ tx \in [Workers -> TxRecord]
  BY DEF PreparedInv, CoreInv, TypeOK
<1>2. tx' = tx => tx' = [tx EXCEPT ![w] = tx[w]]
  BY <1>1
<1>3. ASSUME BurnCheckoutDiscount(w) \/ VerifyAgentCheckout(w), ~Rollback(w) PROVE \A x \in Workers : Prepared(x)'
  <2>1. PICK s \in {"claim", "number"} : (\E R : Advance(w, s, R)) /\ tx' = tx
    BY <1>3 DEF BurnCheckoutDiscount, VerifyAgentCheckout
  <2>2. pc[w] \notin Drawn /\ s \in Stages \ {"stock", "commit"}
    BY <1>3, <2>1 DEF BurnCheckoutDiscount, VerifyAgentCheckout, Drawn, Stages
  <2>3. QED BY <1>1, <1>2, <2>1, <2>2, PreparedEarly
<1>4. ASSUME ClaimCheckout(w), ~Rollback(w) PROVE \A x \in Workers : Prepared(x)'
  <2> DEFINE ch == tx[w].ch
             s == IF tx[w].agent = None THEN "number" ELSE "agent"
             t == [tx[w] EXCEPT !.subtotal = checkout[ch].subtotal, !.total = checkout[ch].total]
  <2>1. pc[w] = "claim" /\ Advance(w, s, {CheckoutRow(ch)})
        /\ tx' = [tx EXCEPT ![w].subtotal = checkout[ch].subtotal, ![w].total = checkout[ch].total]
    BY <1>4 DEF ClaimCheckout
  <2>2. checkout[ch] \in CheckoutRecord
    BY <2>1 DEF PreparedInv, CoreInv, LocksProtectReads, Protected, TypeOK
  <2>3. t \in TxRecord /\ t.credit = tx[w].credit /\ t.take = tx[w].take /\ t.row = tx[w].row
    BY <1>1, <2>2 DEF TxRecord, CheckoutRecord
  <2>4. tx' = [tx EXCEPT ![w] = t] /\ s \in Stages \ {"stock", "commit"} /\ pc[w] \notin Drawn
    BY <1>1, <2>1 DEF Stages, Drawn
  <2> HIDE DEF t, s
  <2>5. QED BY <2>1, <2>3, <2>4, PreparedEarly
<1>5. ASSUME NextOrderNumber(w) PROVE \A x \in Workers : Prepared(x)'
  <2> DEFINE t == [tx[w] EXCEPT !.number = orderSequence + 1]
  <2>1. orderSequence + 1 \in Nat
    BY DEF PreparedInv, CoreInv, TypeOK
  <2>2. t \in TxRecord /\ t.credit = tx[w].credit /\ t.take = tx[w].take /\ t.row = tx[w].row
    BY <1>1, <2>1 DEF TxRecord
  <2>3. tx' = [tx EXCEPT ![w] = t] /\ "prices" \in Stages \ {"stock", "commit"} /\ pc[w] \notin Drawn
          /\ Advance(w, "prices", {StoreRow})
    BY <1>1, <1>5 DEF Stages, Drawn, NextOrderNumber
  <2> HIDE DEF t
  <2>4. QED BY <2>2, <2>3, PreparedEarly
<1>6. ASSUME NEW ch \in Checkouts, NEW a \in Agents \cup {None}, Begin(w, ch, a)
      PROVE  \A x \in Workers : Prepared(x)'
  <2> DEFINE t == [NoTx EXCEPT !.ch = ch, !.agent = a, !.burned = checkout[ch].code]
  <2>1. PICK s \in {"claim", "burn"} : Advance(w, s, {})
    BY <1>6 DEF Begin
  <2>2. tx' = [tx EXCEPT ![w] = t] /\ t.credit = 0 /\ t.take = NoTakes /\ t.row = 0
    BY <1>6 DEF Begin, NoTx
  <2> HIDE DEF t
  <2>3. tx'[w] = t /\ pc'[w] = s /\ \A x \in Workers \ {w} : Prepared(x)'
    BY <2>1, <2>2, PreparedAdvance
  <2>4. QED BY <2>2, <2>3, NothingPrepared
<1>7. QED BY <1>3, <1>4, <1>5, <1>6, PreparedRollback DEF BurnCheckoutDiscount, VerifyAgentCheckout, ClaimCheckout

LEMMA PreparedPrices ==
  ASSUME PreparedInv, NEW w \in Workers, RefetchPrices(w)
  PROVE  \A x \in Workers : Prepared(x)'
<1>1. tx \in [Workers -> TxRecord] /\ pc[w] = "prices"
  BY DEF PreparedInv, CoreInv, TypeOK, RefetchPrices
<1>2. PICK s \in {"credit", "order"} : \E R : Advance(w, s, R)
  BY DEF RefetchPrices
<1>3. \/ tx' = tx
      \/ \E fresh, subtotal, total : tx' = [tx EXCEPT ![w].fresh = fresh, ![w].subtotal = subtotal, ![w].total = total]
  BY DEF RefetchPrices
<1>4. tx'[w].credit = tx[w].credit /\ tx'[w].take = tx[w].take /\ tx'[w].row = tx[w].row
  BY ZenonT(60), <1>1, <1>3 DEF TxRecord
<1>5. tx' = [tx EXCEPT ![w] = tx'[w]]
  BY <1>1, <1>3
<1>6. tx' \in [Workers -> TxRecord]
  <2>1. CoreInv'
    BY RefetchPricesCore DEF PreparedInv
  <2>2. QED BY <2>1 DEF CoreInv, TypeOK
<1>7. pc[w] \notin Drawn /\ s \in Stages \ {"stock", "commit"}
  BY <1>1 DEF Drawn, Stages
<1>8. QED
  <2>1. PICK R : Advance(w, s, R)
    BY <1>2
  <2>2. PICK t \in TxRecord : t = tx'[w]
    BY <1>6
  <2>3. t.credit = tx[w].credit /\ t.take = tx[w].take /\ t.row = tx[w].row /\ tx' = [tx EXCEPT ![w] = t]
    BY <1>4, <1>5, <2>2
  <2>4. QED BY <1>7, <2>1, <2>3, PreparedEarly

\* The credit is drawn within the limit, under the lock of the company.
LEMMA PreparedCredit ==
  ASSUME PreparedInv, NEW w \in Workers, CheckCreditAndConsume(w)
  PROVE  \A x \in Workers : Prepared(x)'
<1>1. CASE Rollback(w)
  BY <1>1, PreparedRollback
<1>2. CASE ~Rollback(w)
  <2> DEFINE k == checkout[tx[w].ch].company
             t == IF CreditLimit[k] = None THEN tx[w] ELSE [tx[w] EXCEPT !.credit = tx[w].total]
  <2>1. tx[w] \in TxRecord /\ tx \in [Workers -> TxRecord] /\ pc[w] = "credit"
    BY DEF PreparedInv, CoreInv, TypeOK, CheckCreditAndConsume
  <2>2. k \in Companies /\ creditUsed[k] \in Int
    BY <2>1 DEF PreparedInv, CoreInv, LocksProtectReads, Protected, TypeOK
  <2>3. Advance(w, "order", {CompanyRow(k)}) /\ tx' = [tx EXCEPT ![w] = t]
    BY <1>2, <2>1 DEF CheckCreditAndConsume
  <2>4. t.take = tx[w].take /\ t.row = tx[w].row /\ t.ch = tx[w].ch
    BY <2>1 DEF TxRecord
  <2>5. tx[w].credit = 0 /\ tx[w].take = NoTakes /\ tx[w].row = 0
    BY <2>1 DEF PreparedInv, Prepared, DrawsWithinLimit, TakesDemand, Drawn
  <2>6. t.credit # 0 => CreditLimit[k] # None /\ creditUsed[k] + t.credit <= CreditLimit[k]
    <3>1. SUFFICES ASSUME t.credit # 0 PROVE CreditLimit[k] # None /\ creditUsed[k] + t.credit <= CreditLimit[k]
      OBVIOUS
    <3>2. CreditLimit[k] # None
      BY <2>5, <3>1
    <3>3. CreditLimit[k] - creditUsed[k] >= tx[w].total /\ CreditLimit[k] \in Nat
      BY <1>2, <2>2, <3>2, LimitsAssumption DEF CheckCreditAndConsume
    <3>4. t.credit = tx[w].total /\ tx[w].total \in Int
      BY <2>1, <3>2 DEF TxRecord
    <3>5. QED BY <2>2, <3>2, <3>3, <3>4
  <2> HIDE DEF t
  <2>7. /\ pc'[w] = "order" /\ held'[w] = held[w] \cup {CompanyRow(k)} /\ tx'[w] = t
        /\ checkout' = checkout /\ creditUsed' = creditUsed /\ \A x \in Workers \ {w} : Prepared(x)'
    BY ZenonT(60), <2>3, PreparedAdvance
  <2>8. checkout'[tx'[w].ch].company = k
    BY <2>4, <2>7
  <2>9. DrawsWithinLimit(w)'
    <3> HIDE DEF k
    <3> QED BY <2>2, <2>6, <2>7, <2>8 DEF DrawsWithinLimit, Drawn
  <2>10. TakesDemand(w)'
    BY <2>4, <2>5, <2>7 DEF TakesDemand
  <2>11. QED BY <2>7, <2>9, <2>10 DEF Prepared
<1>3. QED BY <1>1, <1>2

\* The statements after it keep the credit.
LEMMA DrawStays ==
  ASSUME PreparedInv, NEW w \in Workers, pc[w] \in Drawn, pc'[w] \in Drawn, held[w] \subseteq held'[w],
         tx'[w].ch = tx[w].ch, tx'[w].credit = tx[w].credit, checkout' = checkout, creditUsed' = creditUsed
  PROVE  DrawsWithinLimit(w)'
BY DEF PreparedInv, Prepared, DrawsWithinLimit

LEMMA PreparedOrder ==
  ASSUME PreparedInv, NEW w \in Workers, InsertOrder(w)
  PROVE  \A x \in Workers : Prepared(x)'
<1>1. tx \in [Workers -> TxRecord] /\ pc[w] = "order" /\ Advance(w, "demand", {})
  BY DEF PreparedInv, CoreInv, TypeOK, InsertOrder
<1>2. PICK lines, amount : tx' = [tx EXCEPT ![w].lines = lines, ![w].amount = amount]
  BY DEF InsertOrder
<1>3. /\ tx'[w].credit = tx[w].credit /\ tx'[w].take = tx[w].take /\ tx'[w].row = tx[w].row
      /\ tx'[w].ch = tx[w].ch /\ tx' = [tx EXCEPT ![w] = tx'[w]]
  BY ZenonT(60), <1>1, <1>2 DEF TxRecord
<1>4. /\ pc'[w] = "demand" /\ held[w] \subseteq held'[w] /\ checkout' = checkout /\ creditUsed' = creditUsed
      /\ \A x \in Workers \ {w} : Prepared(x)'
  <2>1. PICK t : t = tx'[w]
    OBVIOUS
  <2>2. tx' = [tx EXCEPT ![w] = t]
    BY <1>3, <2>1
  <2>3. QED BY ZenonT(60), <1>1, <2>2, PreparedAdvance
<1>5. DrawsWithinLimit(w)'
  BY <1>1, <1>3, <1>4, DrawStays DEF Drawn
<1>6. TakesDemand(w)'
  BY <1>1, <1>3, <1>4 DEF PreparedInv, Prepared, TakesDemand
<1>7. QED BY <1>4, <1>5, <1>6 DEF Prepared

LEMMA LevelsFinite == \A v \in Variants : IsFiniteSet(LevelsOf(v)) /\ LevelsOf(v) \subseteq Levels
<1>1. IsFiniteSet(Levels)
  BY NumbersAssumption, FS_Interval DEF Levels
<1>2. \A v \in Variants : LevelsOf(v) \in SUBSET Levels
  BY DEF LevelsOf
<1>3. QED BY <1>1, <1>2, FS_Subset

LEMMA PreparedDemand ==
  ASSUME PreparedInv, NEW w \in Workers, LoadDemand(w)
  PROVE  \A x \in Workers : Prepared(x)'
<1>1. tx \in [Workers -> TxRecord] /\ pc[w] = "demand" /\ Advance(w, "stock", {})
  BY DEF PreparedInv, CoreInv, TypeOK, LoadDemand
<1>2. PICK demand : /\ tx' = [tx EXCEPT ![w].demand = demand, ![w].need = demand]
  BY DEF LoadDemand
<1>3. /\ tx'[w].credit = tx[w].credit /\ tx'[w].take = tx[w].take /\ tx'[w].row = tx[w].row
      /\ tx'[w].ch = tx[w].ch /\ tx'[w].demand = demand /\ tx'[w].need = demand
      /\ tx' = [tx EXCEPT ![w] = tx'[w]]
  BY <1>1, <1>2 DEF TxRecord
<1>4. /\ pc'[w] = "stock" /\ held[w] \subseteq held'[w] /\ checkout' = checkout /\ creditUsed' = creditUsed
      /\ \A x \in Workers \ {w} : Prepared(x)'
  <2>1. PICK t : t = tx'[w]
    OBVIOUS
  <2>2. tx' = [tx EXCEPT ![w] = t]
    BY <1>3, <2>1
  <2>3. QED BY ZenonT(60), <1>1, <2>2, PreparedAdvance
<1>5. DrawsWithinLimit(w)'
  BY <1>1, <1>3, <1>4, DrawStays DEF Drawn
<1>6. tx'[w].take = NoTakes
  BY <1>1, <1>3 DEF PreparedInv, Prepared, TakesDemand
<1>7. \A v \in Variants : demand[v] \in Nat
  <2>1. CoreInv'
    BY LoadDemandCore DEF PreparedInv
  <2>2. tx'[w].need \in [Variants -> Nat]
    BY <2>1 DEF CoreInv, TypeOK, TxRecord
  <2>3. QED BY <1>3, <2>2
<1>8. \A v \in Variants : SumOver(NoTakes, LevelsOf(v)) = 0
  <2> SUFFICES ASSUME NEW v \in Variants PROVE SumOver(NoTakes, LevelsOf(v)) = 0
    OBVIOUS
  <2>1. \A l \in LevelsOf(v) : NoTakes[l] = 0
    BY LevelsFinite DEF NoTakes
  <2>2. QED BY <2>1, SumNothing
<1>9. TakesDemand(w)'
  <2>1. \A l \in Levels : NoTakes[l] = 0
    BY DEF NoTakes
  <2>2. \A v \in Variants : SumOver(tx'[w].take, LevelsOf(v)) + tx'[w].need[v] = tx'[w].demand[v]
    BY <1>3, <1>6, <1>7, <1>8
  <2>3. QED BY <1>4, <1>6, <2>1, <2>2 DEF TakesDemand
<1>10. QED BY <1>4, <1>5, <1>9 DEF Prepared

LEMMA PreparedVerified ==
  ASSUME PreparedInv, NEW w \in Workers, VerifyInventory(w)
  PROVE  \A x \in Workers : Prepared(x)'
<1>1. CASE Rollback(w)
  BY <1>1, PreparedRollback
<1>2. CASE ~Rollback(w)
  <2>1. pc[w] = "stock" /\ Advance(w, "commit", {}) /\ tx' = tx /\ tx[w].need = NoLines
    BY <1>2 DEF VerifyInventory
  <2>2. tx' = [tx EXCEPT ![w] = tx[w]]
    BY <2>1 DEF PreparedInv, CoreInv, TypeOK
  <2>3. /\ pc'[w] = "commit" /\ held[w] \subseteq held'[w] /\ checkout' = checkout /\ creditUsed' = creditUsed
        /\ \A x \in Workers \ {w} : Prepared(x)'
    BY <2>1, <2>2, PreparedAdvance
  <2>4. DrawsWithinLimit(w)'
    BY <2>1, <2>3, DrawStays DEF Drawn
  <2>5. TakesDemand(w)'
    BY <2>1, <2>3 DEF PreparedInv, Prepared, TakesDemand
  <2>6. QED BY <2>3, <2>4, <2>5 DEF Prepared
<1>3. QED BY <1>1, <1>2

\* What a row gives is what is needed less.
LEMMA PreparedDecrement ==
  ASSUME PreparedInv, NEW w \in Workers, DecrementInventory(w)
  PROVE  \A x \in Workers : Prepared(x)'
<1>1. tx[w] \in TxRecord /\ tx \in [Workers -> TxRecord] /\ pc[w] = "stock"
  BY DEF PreparedInv, CoreInv, TypeOK, DecrementInventory
<1>2. PICK l \in RowsLeft(w) :
        LET v == LevelVariant[l]
            take == Lesser(tx[w].need[v], stock[l]) IN
        /\ Advance(w, "stock", {LevelRow(l)})
        /\ tx' = [tx EXCEPT ![w].row = l, ![w].take[l] = take, ![w].need[v] = @ - take]
  BY DEF DecrementInventory
<1>3. l \in Levels /\ l > tx[w].row /\ LevelVariant[l] \in Variants /\ l \in Nat /\ tx[w].row \in Nat
  BY <1>1, NumbersAssumption DEF RowsLeft, Levels, TxRecord
<1>4. PICK v \in Variants : v = LevelVariant[l]
  BY <1>3
<1>5. PICK give : give = Lesser(tx[w].need[v], stock[l])
  OBVIOUS
<1>6. tx[w].need \in [Variants -> Nat] /\ tx[w].take \in [Levels -> Nat] /\ stock[l] \in Nat
  BY <1>1, <1>3 DEF TxRecord, PreparedInv, CoreInv, TypeOK
<1>7. give \in Nat
  BY <1>5, <1>6 DEF Lesser
<1>8. PICK takes : takes = [tx[w].take EXCEPT ![l] = give]
  OBVIOUS
<1>9. PICK need : need = [tx[w].need EXCEPT ![v] = @ - give]
  OBVIOUS
<1>10. tx' = [tx EXCEPT ![w].row = l, ![w].take[l] = give, ![w].need[v] = @ - give]
  BY <1>2, <1>4, <1>5
<1> DEFINE t == [tx[w] EXCEPT !.row = l, !.take = takes, !.need = need]
<1>11. tx' = [tx EXCEPT ![w] = t]
  BY <1>1, <1>8, <1>9, <1>10 DEF TxRecord
<1>12. /\ t.credit = tx[w].credit /\ t.take = takes /\ t.row = l /\ t.ch = tx[w].ch
       /\ t.demand = tx[w].demand /\ t.need = need
  BY <1>1 DEF TxRecord
<1> HIDE DEF t
<1>13. /\ pc'[w] = "stock" /\ held'[w] = held[w] \cup {LevelRow(l)} /\ tx'[w] = t
       /\ checkout' = checkout /\ creditUsed' = creditUsed /\ \A x \in Workers \ {w} : Prepared(x)'
  BY <1>2, <1>11, PreparedAdvance
<1>14. DrawsWithinLimit(w)'
  BY <1>1, <1>12, <1>13, DrawStays DEF Drawn
<1>15. /\ \A u \in Variants : SumOver(tx[w].take, LevelsOf(u)) + tx[w].need[u] = tx[w].demand[u]
       /\ \A m \in Levels : m > tx[w].row => tx[w].take[m] = 0
  BY <1>1 DEF PreparedInv, Prepared, TakesDemand
<1>16. /\ takes[l] = give /\ tx[w].take[l] = 0 /\ need[v] = tx[w].need[v] - give
       /\ \A m \in Levels : m # l => takes[m] = tx[w].take[m]
       /\ \A u \in Variants : u # v => need[u] = tx[w].need[u]
  BY <1>3, <1>6, <1>8, <1>9, <1>15
<1>17. SumOver(takes, LevelsOf(v)) + need[v] = tx[w].demand[v]
  <2>1. l \in LevelsOf(v) /\ IsFiniteSet(LevelsOf(v)) /\ LevelsOf(v) \subseteq Levels
    BY <1>3, <1>4, LevelsFinite DEF LevelsOf
  <2>2. \A m \in LevelsOf(v) : tx[w].take[m] \in Int /\ takes[m] \in Int
    BY <1>6, <1>7, <1>16, <2>1
  <2>3. /\ SumOver(tx[w].take, LevelsOf(v)) \in Int
        /\ SumOver(takes, LevelsOf(v)) = SumOver(tx[w].take, LevelsOf(v)) - tx[w].take[l] + takes[l]
    <3>1. \A m \in LevelsOf(v) : m # l => takes[m] = tx[w].take[m]
      BY <1>16, <2>1
    <3>2. PICK f : f = tx[w].take
      OBVIOUS
    <3>3. PICK S : S = LevelsOf(v)
      OBVIOUS
    <3>4. IsFiniteSet(S) /\ l \in S /\ f[l] \in Int /\ takes[l] \in Int
      BY <2>1, <2>2, <3>2, <3>3
    <3>5. \A m \in S : f[m] \in Int /\ takes[m] \in Int
      BY <2>2, <3>2, <3>3
    <3>6. \A m \in S : m # l => takes[m] = f[m]
      BY <3>1, <3>2, <3>3
    <3>7. SumOver(f, S) \in Int /\ SumOver(takes, S) = SumOver(f, S) - f[l] + takes[l]
      BY <3>4, <3>5, <3>6, SumReplaces
    <3>8. QED BY <3>2, <3>3, <3>7
  <2>4. tx[w].need[v] \in Nat
    BY <1>6
  <2>5. SumOver(tx[w].take, LevelsOf(v)) + tx[w].need[v] = tx[w].demand[v]
    BY <1>15
  <2>6. QED BY <1>7, <1>16, <2>3, <2>4, <2>5
<1>18. ASSUME NEW u \in Variants, u # v PROVE SumOver(takes, LevelsOf(u)) + need[u] = tx[w].demand[u]
  <2>1. l \notin LevelsOf(u) /\ LevelsOf(u) \subseteq Levels
    BY <1>4, <1>18 DEF LevelsOf
  <2>2. \A m \in LevelsOf(u) : takes[m] = tx[w].take[m]
    BY <1>16, <2>1
  <2>3. SumOver(takes, LevelsOf(u)) = SumOver(tx[w].take, LevelsOf(u))
    BY <2>2, SumSame
  <2>4. QED BY <1>15, <1>16, <1>18, <2>3
<1>19. \A m \in Levels : m > l => takes[m] = 0
  <2> SUFFICES ASSUME NEW m \in Levels, m > l PROVE takes[m] = 0
    OBVIOUS
  <2>1. m > tx[w].row /\ m # l
    BY <1>3, NumbersAssumption DEF Levels
  <2>2. QED BY <1>15, <1>16, <2>1
<1>20. TakesDemand(w)'
  <2>1. \A u \in Variants : SumOver(takes, LevelsOf(u)) + need[u] = tx[w].demand[u]
    BY <1>17, <1>18
  <2>2. QED BY <1>12, <1>13, <1>19, <2>1 DEF TakesDemand
<1>21. QED BY <1>13, <1>14, <1>20 DEF Prepared

\* No other transaction is past its order number when one commits.
LEMMA PreparedCommit ==
  ASSUME PreparedInv, NEW w \in Workers, Commit(w)
  PROVE  \A x \in Workers : Prepared(x)'
<1>1. /\ pc'[w] = "idle" /\ tx'[w] = NoTx
      /\ \A x \in Workers \ {w} : pc'[x] = pc[x] /\ held'[x] = held[x] /\ tx'[x] = tx[x]
  BY DEF Commit, PreparedInv, CoreInv, TypeOK
<1>2. Prepared(w)'
  BY <1>1, NothingPrepared DEF NoTx
<1>3. ASSUME NEW x \in Workers \ {w} PROVE Prepared(x)'
  <2>1. pc[x] \notin Numbered
    <3>1. StoreRow \in held[w]
      BY AtCommit DEF PreparedInv
    <3>2. Protected(x) /\ held[w] \cap held[x] = {}
      BY DEF PreparedInv, CoreInv, LocksProtectReads, LockExclusion
    <3>3. QED BY <3>1, <3>2 DEF Protected
  <2>2. pc[x] \notin Drawn /\ pc[x] \notin {"stock", "commit"}
    BY <2>1 DEF Numbered, Drawn
  <2>3. tx[x].credit = 0 /\ tx[x].take = NoTakes /\ tx[x].row = 0
    BY <2>2 DEF PreparedInv, Prepared, DrawsWithinLimit, TakesDemand
  <2>4. QED BY <1>1, <2>2, <2>3, NothingPrepared
<1>4. QED BY <1>2, <1>3

LEMMA PreparedStep == PreparedInv /\ [Next]_vars => PreparedInv'
<1> SUFFICES ASSUME PreparedInv, [Next]_vars PROVE PreparedInv'
  OBVIOUS
<1>1. CoreInv'
  BY CoreStep DEF PreparedInv
<1>2. CASE Environment
  BY <1>1, <1>2, PreparedEnvironment DEF PreparedInv
<1>3. ASSUME NEW w \in Workers, \/ \E ch \in Checkouts, a \in Agents \cup {None} : Begin(w, ch, a)
                                \/ Step(w) \/ Crash(w)
      PROVE  PreparedInv'
  <2>1. CASE PoolTimeout(w) \/ Crash(w)
    BY <1>1, <2>1, PreparedRollback DEF PoolTimeout, Crash, PreparedInv
  <2>2. CASE ~(PoolTimeout(w) \/ Crash(w))
    BY <1>1, <1>3, <2>2, PreparedBegins, PreparedPrices, PreparedCredit, PreparedOrder, PreparedDemand,
       PreparedDecrement, PreparedVerified, PreparedCommit DEF Step, PreparedInv
  <2>3. QED BY <2>1, <2>2
<1>4. CASE UNCHANGED vars
  <2>1. UNCHANGED <<pc, held, tx, creditUsed, checkout>>
    BY <1>4 DEF vars, db
  <2>2. \A x \in Workers : Prepared(x)'
    BY <2>1, OthersPrepared
  <2>3. QED BY <1>1, <2>2 DEF PreparedInv
<1>5. QED BY <1>2, <1>3, <1>4 DEF Next

-----------------------------------------------------------------------------
(* Codes, credit and stock.                                                *)

LEMMA DealsInit == Init => DealsInv
<1> SUFFICES ASSUME Init PROVE DealsInv
  OBVIOUS
<1>1. Placed = {} /\ PreparedInv
  BY PreparedInit DEF Init, Placed
<1>2. \A d \in Codes : Cardinality({i \in Placed : orders[i].burned = d}) = 0
  <2> SUFFICES ASSUME NEW d \in Codes PROVE Cardinality({i \in Placed : orders[i].burned = d}) = 0
    OBVIOUS
  <2>1. {i \in Placed : orders[i].burned = d} = {}
    BY <1>1
  <2>2. QED BY <2>1, FS_EmptySet
<1>3. \A d \in Codes : Rule[d].max \in Nat
  BY LimitsAssumption
<1>4. DiscountsWithinCaps
  BY <1>1, <1>2, <1>3 DEF Init, DiscountsWithinCaps
<1>5. CreditWithinLimit
  <2> SUFFICES ASSUME NEW k \in Companies
               PROVE  /\ creditUsed[k] = SumOver([i \in Placed |-> orders[i].credit],
                                                 {i \in Placed : orders[i].company = k})
                      /\ CreditLimit[k] # None => creditUsed[k] <= CreditLimit[k]
    BY DEF CreditWithinLimit
  <2>1. creditUsed[k] = 0
    BY DEF Init
  <2>2. SumOver([i \in Placed |-> orders[i].credit], {i \in Placed : orders[i].company = k}) = 0
    BY <1>1, SumNothing
  <2>3. QED BY <2>1, <2>2, LimitsAssumption
<1>6. NoOversell
  <2>1. TypeOK
    BY <1>1 DEF PreparedInv, CoreInv
  <2>2. QED BY <1>1, <2>1 DEF NoOversell, TypeOK
<1>7. QED BY <1>1, <1>4, <1>5, <1>6 DEF DealsInv, BurnsAreOnRecord

\* The rows of stock a committing transaction takes from give its demand.
LEMMA CommitNoOversell ==
  ASSUME PreparedInv, NoOversell, NEW w \in Workers, Commit(w), TypeOK'
  PROVE  NoOversell'
<1> DEFINE n == Len(orders) + 1
<1>1. /\ Placed' = Placed \cup {n} /\ \A i \in Placed : orders'[i] = orders[i]
      /\ orders'[n] = OrderOf(w)
  BY CommitAppends DEF PreparedInv
<1>2. OrderOf(w).take = tx[w].take /\ OrderOf(w).demand = tx[w].demand
  BY DEF OrderOf
<1>3. \A v \in Variants : SumOver(tx[w].take, LevelsOf(v)) = tx[w].demand[v]
  <2> SUFFICES ASSUME NEW v \in Variants PROVE SumOver(tx[w].take, LevelsOf(v)) = tx[w].demand[v]
    OBVIOUS
  <2>1. tx[w].need = NoLines /\ SumOver(tx[w].take, LevelsOf(v)) + tx[w].need[v] = tx[w].demand[v]
    BY DEF Commit, PreparedInv, Prepared, TakesDemand
  <2>2. tx[w].need[v] = 0
    BY <2>1 DEF NoLines
  <2>3. SumOver(tx[w].take, LevelsOf(v)) \in Int
    <3>1. tx[w].take \in [Levels -> Nat]
      BY DEF PreparedInv, CoreInv, TypeOK, TxRecord
    <3>2. \A l \in LevelsOf(v) : tx[w].take[l] \in Int
      BY <3>1, LevelsFinite
    <3>3. QED BY <3>2, LevelsFinite, SumType
  <2>4. QED BY <2>1, <2>2, <2>3
<1> HIDE DEF n
<1>4. \A i \in Placed' : \A v \in Variants :
         SumOver(orders'[i].take, {l \in Levels : LevelVariant[l] = v}) = orders'[i].demand[v]
  BY SMTT(30), <1>1, <1>2, <1>3 DEF NoOversell, LevelsOf
<1>5. \A l \in Levels : stock'[l] >= 0
  BY DEF TypeOK
<1>6. QED BY <1>4, <1>5 DEF NoOversell

LEMMA CommitDiscounts ==
  ASSUME PreparedInv, DiscountsWithinCaps, BurnsAreOnRecord, NEW w \in Workers, Commit(w)
  PROVE  DiscountsWithinCaps' /\ BurnsAreOnRecord'
<1> DEFINE o == OrderOf(w)
<1>0. PICK n : n = Len(orders) + 1
  OBVIOUS
<1>1. /\ Placed' = Placed \cup {n} /\ n \notin Placed /\ IsFiniteSet(Placed)
      /\ \A i \in Placed : orders'[i] = orders[i]
      /\ orders'[n] = OrderOf(w)
  <2>1. Len(orders) \in Nat
    BY CommitAppends DEF PreparedInv
  <2>2. IsFiniteSet(Placed)
    BY <2>1, FS_Interval DEF Placed
  <2>3. QED BY <1>0, <2>2, CommitAppends DEF PreparedInv
<1>2. /\ o.burned = tx[w].burned /\ o.customer = checkout[tx[w].ch].customer
      /\ o.burned \in Codes \cup {None}
      /\ o.burned # None => /\ uses[o.burned] < Rule[o.burned].max
                            /\ Rule[o.burned].once /\ o.customer # None => <<o.burned, o.customer>> \notin used
  BY AtCommit DEF PreparedInv, OrderOf, OrderRecord, TxRecord
<1>3. /\ uses' = [d \in Codes |-> IF d = o.burned THEN uses[d] + 1 ELSE uses[d]]
      /\ used' = used \cup {p \in {<<o.burned, o.customer>>} :
                              o.burned # None /\ o.customer # None /\ Rule[o.burned].once}
  BY <1>2 DEF Commit
<1>4. PICK b, c : b = o.burned /\ c = o.customer
  OBVIOUS
<1> HIDE DEF o
<1>5. orders'[n].burned = b /\ orders'[n].customer = c
  BY <1>1, <1>4 DEF o
<1>6. \A d \in Codes : uses'[d] = Cardinality({i \in Placed' : orders'[i].burned = d}) /\ uses'[d] <= Rule[d].max
  <2> SUFFICES ASSUME NEW d \in Codes
               PROVE  uses'[d] = Cardinality({i \in Placed' : orders'[i].burned = d}) /\ uses'[d] <= Rule[d].max
    OBVIOUS
  <2>1. PICK I : I = {i \in Placed : orders[i].burned = d}
    OBVIOUS
  <2>2. I \in SUBSET Placed
    BY <2>1
  <2>3. IsFiniteSet(I) /\ n \notin I /\ uses[d] = Cardinality(I) /\ uses[d] <= Rule[d].max
    BY <1>1, <2>1, <2>2, FS_Subset DEF DiscountsWithinCaps
  <2>4. uses[d] \in Nat /\ Rule[d].max \in Nat
    BY LimitsAssumption DEF PreparedInv, CoreInv, TypeOK
  <2>5. CASE d = b
    <3>1. {i \in Placed' : orders'[i].burned = d} = I \cup {n}
      BY <1>1, <1>5, <2>1, <2>5
    <3>2. Cardinality(I \cup {n}) = Cardinality(I) + 1
      BY <2>3, FS_AddElement
    <3>3. uses'[d] = uses[d] + 1 /\ uses[d] < Rule[d].max
      BY <1>2, <1>3, <1>4, <2>5, SetsAssumption
    <3>4. uses'[d] = Cardinality({i \in Placed' : orders'[i].burned = d})
      <4>1. uses'[d] = Cardinality(I) + 1
        BY <2>3, <3>3
      <4>2. uses'[d] = Cardinality(I \cup {n})
        BY <3>2, <4>1
      <4>3. QED BY <3>1, <4>2, Zenon
    <3>5. uses'[d] <= Rule[d].max
      BY <2>4, <3>3
    <3>6. QED BY <3>4, <3>5
  <2>6. CASE d # b
    <3>1. {i \in Placed' : orders'[i].burned = d} = I
      BY <1>1, <1>5, <2>1, <2>6
    <3>2. uses'[d] = uses[d]
      BY <1>3, <1>4, <2>6
    <3>3. QED BY <2>3, <3>1, <3>2
  <2>7. QED BY <2>5, <2>6
<1>7. \A i \in Placed : orders[i].burned = b /\ b # None /\ orders[i].customer = c /\ c # None
                           => ~Rule[b].once
  BY <1>2, <1>4 DEF BurnsAreOnRecord
<1>8. \A i, j \in Placed' :
         /\ orders'[i].burned = orders'[j].burned /\ orders'[i].burned # None
         /\ orders'[i].customer = orders'[j].customer /\ orders'[i].customer # None
         /\ Rule[orders'[i].burned].once
         => i = j
  BY <1>1, <1>5, <1>7 DEF DiscountsWithinCaps
<1>9. BurnsAreOnRecord'
  <2> SUFFICES ASSUME NEW i \in Placed', orders'[i].burned # None, orders'[i].customer # None,
                      Rule[orders'[i].burned].once
               PROVE  <<orders'[i].burned, orders'[i].customer>> \in used'
    BY DEF BurnsAreOnRecord
  <2>1. CASE i = n
    BY <1>3, <1>4, <1>5, <2>1
  <2>2. CASE i \in Placed
    BY <1>1, <1>3, <2>2 DEF BurnsAreOnRecord
  <2>3. QED BY <1>1, <2>1, <2>2
<1>10. QED BY <1>6, <1>8, <1>9 DEF DiscountsWithinCaps

LEMMA CommitCredit ==
  ASSUME PreparedInv, CreditWithinLimit, NEW w \in Workers, Commit(w)
  PROVE  CreditWithinLimit'
<1>0. PICK n : n = Len(orders) + 1
  OBVIOUS
<1>1. /\ Placed' = Placed \cup {n} /\ n \notin Placed /\ IsFiniteSet(Placed)
      /\ \A i \in Placed : orders'[i] = orders[i] /\ orders[i].credit \in Int
      /\ orders'[n] = OrderOf(w)
  <2>1. Len(orders) \in Nat
    BY CommitAppends DEF PreparedInv
  <2>2. IsFiniteSet(Placed)
    BY <2>1, FS_Interval DEF Placed
  <2>3. \A i \in Placed : orders[i] \in OrderRecord
    BY DEF PreparedInv, CoreInv, TypeOK, Placed
  <2>4. QED BY <1>0, <2>2, <2>3, CommitAppends DEF PreparedInv, OrderRecord
<1>2. PICK b, m : b = OrderOf(w).company /\ m = OrderOf(w).credit
  OBVIOUS
<1>3. b = checkout[tx[w].ch].company /\ m = tx[w].credit /\ m \in Int
  BY <1>2, AtCommit DEF PreparedInv, OrderOf, OrderRecord
<1>4. /\ creditUsed' = [k \in Companies |-> IF k = b THEN creditUsed[k] + m ELSE creditUsed[k]]
      /\ orders'[n].company = b /\ orders'[n].credit = m
  BY <1>1, <1>2, <1>3 DEF Commit
<1>5. m # 0 => CreditLimit[b] # None /\ creditUsed[b] + m <= CreditLimit[b]
  BY <1>3 DEF PreparedInv, Prepared, DrawsWithinLimit
<1> SUFFICES ASSUME NEW k \in Companies
             PROVE  /\ creditUsed'[k] = SumOver([i \in Placed' |-> orders'[i].credit],
                                                {i \in Placed' : orders'[i].company = k})
                    /\ CreditLimit[k] # None => creditUsed'[k] <= CreditLimit[k]
  BY DEF CreditWithinLimit
<1>6. PICK f : f = [i \in Placed |-> orders[i].credit]
  OBVIOUS
<1>7. PICK g : g = [i \in Placed' |-> orders'[i].credit]
  OBVIOUS
<1>8. PICK I : I = {i \in Placed : orders[i].company = k}
  OBVIOUS
<1>9. IsFiniteSet(I) /\ n \notin I /\ I \subseteq Placed
  <2>1. I \in SUBSET Placed
    BY <1>8
  <2>2. QED BY <1>1, <2>1, FS_Subset
<1>10. g[n] = m /\ \A i \in I : f[i] = g[i] /\ f[i] \in Int /\ g[i] \in Int
  BY <1>1, <1>4, <1>6, <1>7, <1>9
<1>11. SumOver(g, I) = SumOver(f, I) /\ SumOver(f, I) \in Int
  BY <1>9, <1>10, SumSame, SumType
<1>12. creditUsed[k] = SumOver(f, I) /\ (CreditLimit[k] # None => creditUsed[k] <= CreditLimit[k])
  BY <1>6, <1>8 DEF CreditWithinLimit
<1>13. CASE k = b
  <2>1. {i \in Placed' : orders'[i].company = k} = I \cup {n}
    BY <1>1, <1>4, <1>8, <1>13
  <2>2. \A i \in I \cup {n} : g[i] \in Int
    BY <1>3, <1>10
  <2>3. SumOver(g, I \cup {n}) = SumOver(g, I) + g[n]
    BY <1>9, <2>2, SumStep
  <2>4. creditUsed'[k] = creditUsed[k] + m
    BY <1>4, <1>13
  <2>5. creditUsed'[k] = SumOver(g, I \cup {n})
    BY <1>3, <1>10, <1>11, <1>12, <2>3, <2>4
  <2>6. CreditLimit[k] # None => creditUsed'[k] <= CreditLimit[k]
    <3>1. CASE m = 0
      BY <1>11, <1>12, <2>4, <3>1, LimitsAssumption
    <3>2. CASE m # 0
      BY <1>5, <1>13, <2>4, <3>2
    <3>3. QED BY <3>1, <3>2
  <2>7. QED BY <1>7, <2>1, <2>5, <2>6
<1>14. CASE k # b
  <2>1. {i \in Placed' : orders'[i].company = k} = I
    BY <1>1, <1>4, <1>8, <1>14
  <2>2. creditUsed'[k] = creditUsed[k]
    BY <1>4, <1>14
  <2>3. QED BY <1>7, <1>11, <1>12, <2>1, <2>2
<1>15. QED BY <1>13, <1>14

LEMMA DealsStep == DealsInv /\ [Next]_vars => DealsInv'
<1> SUFFICES ASSUME DealsInv, [Next]_vars PROVE DealsInv'
  OBVIOUS
<1>1. PreparedInv /\ PreparedInv' /\ CoreInv /\ TypeOK'
  BY PreparedStep DEF DealsInv, PreparedInv, CoreInv
<1>2. ASSUME NEW w \in Workers, Commit(w) PROVE DealsInv'
  BY <1>1, <1>2, CommitNoOversell, CommitDiscounts, CommitCredit DEF DealsInv
<1>3. CASE \A w \in Workers : ~Commit(w)
  <2>1. UNCHANGED <<orders, uses, used, creditUsed>> /\ Placed' = Placed
    BY <1>1, <1>3, OnlyCommitPlaces DEF Placed
  <2>2. DiscountsWithinCaps' /\ BurnsAreOnRecord' /\ CreditWithinLimit'
    BY <2>1 DEF DealsInv, DiscountsWithinCaps, BurnsAreOnRecord, CreditWithinLimit
  <2>3. \A l \in Levels : stock'[l] >= 0
    BY <1>1 DEF TypeOK
  <2>4. \A i \in Placed' : \A v \in Variants :
           SumOver(orders'[i].take, {l \in Levels : LevelVariant[l] = v}) = orders'[i].demand[v]
    BY <2>1 DEF DealsInv, NoOversell
  <2>5. NoOversell'
    BY <2>3, <2>4 DEF NoOversell
  <2>6. QED BY <1>1, <2>2, <2>5 DEF DealsInv
<1>4. QED BY <1>2, <1>3

\* The counter of a code is the number of orders that burned it and never passes its cap, and a
\* customer burns a once_per_customer code once, however many completions race for it: the code's
\* row is locked from the test to the COMMIT (burnCheckoutDiscount).
THEOREM CodesStayWithinCaps == Spec => []DiscountsWithinCaps
<1>1. DealsInv => DiscountsWithinCaps
  BY DEF DealsInv
<1>2. QED BY <1>1, DealsInit, DealsStep, PTL DEF Spec

\* A company owes what its net-terms orders drew, and never more than its limit: what a
\* transaction has tested under the lock of the company still holds when it commits
\* (checkCreditAndConsume).
THEOREM CompaniesStayWithinLimit == Spec => []CreditWithinLimit
<1>1. DealsInv => CreditWithinLimit
  BY DEF DealsInv
<1>2. QED BY <1>1, DealsInit, DealsStep, PTL DEF Spec

\* The rows of stock gave each order exactly its demand, over any number of warehouses, and none
\* is ever negative: what has been taken and what is still needed add up to the demand at every
\* row (step 7 of completeCheckout).
THEOREM StockIsNotOversold == Spec => []NoOversell
<1>1. DealsInv => NoOversell
  BY DEF DealsInv
<1>2. QED BY <1>1, DealsInit, DealsStep, PTL DEF Spec

-----------------------------------------------------------------------------
(* Completing a checkout implements OrderPlacement: only the COMMIT is a     *)
(* step of it, and every other statement of a completion is a stutter.       *)

LEMMA PlacementInit == Init => Placement!Init
<1> SUFFICES ASSUME Init PROVE Placement!Init
  OBVIOUS
<1>1. [ch \in Checkouts |-> checkout[ch].status] = [ch \in Checkouts |-> "none"]
  BY DEF Init, NoCheckout
<1>2. stock \in [1 .. NLevels -> Nat]
  BY NumbersAssumption DEF Init, Levels
<1>3. QED BY <1>1, <1>2 DEF Init, Placement!Init

\* The rows the abstract specification speaks of, when none of them is written.
LEMMA PlacementStutters ==
  ASSUME UNCHANGED <<checkout, uses, used, stock, creditUsed, orders>>
  PROVE  UNCHANGED Placement!vars
BY DEF Placement!vars

\* A checkout that is opened and a level that is counted anew are steps of the abstract
\* specification; no other handler beside the completions writes what it speaks of.
LEMMA PlacementEnvironment ==
  ASSUME TypeOK, Environment
  PROVE  Placement!Next \/ UNCHANGED Placement!vars
<1>1. ASSUME NEW c \in Carts, NEW v \in Variants, NEW q \in Quantity, EditCartLine(c, v, q)
      PROVE  UNCHANGED Placement!vars
  BY <1>1, PlacementStutters DEF EditCartLine
<1>2. ASSUME NEW c \in Carts, MarkCartAbandoned(c)
      PROVE  UNCHANGED Placement!vars
  BY <1>2, PlacementStutters DEF MarkCartAbandoned
<1>3. ASSUME NEW v \in Variants, NEW p \in Prices, SetPrice(v, p)
      PROVE  UNCHANGED Placement!vars
  BY <1>3, PlacementStutters DEF SetPrice
<1>4. ASSUME NEW l \in Levels, NEW delta \in Deltas, AdjustInventory(l, delta)
      PROVE  Placement!Adjust(l)
  <2>1. PICK n : n = Greater(0, stock[l] + delta)
    OBVIOUS
  <2>2. stock[l] + delta \in Int
    BY NumbersAssumption DEF TypeOK
  <2>3. n >= 0
    BY <2>1, <2>2 DEF Greater
  <2>4. stock' = [stock EXCEPT ![l] = n] /\ stock'[l] = n
    BY <1>4, <2>1 DEF AdjustInventory, TypeOK
  <2>5. UNCHANGED <<[ch \in Checkouts |-> checkout[ch].status], uses, used, creditUsed, orders>>
    BY <1>4 DEF AdjustInventory
  <2>6. QED BY <2>3, <2>4, <2>5 DEF Placement!Adjust
<1>5. ASSUME NEW ch \in Checkouts, NEW c \in Carts, NEW customer \in Customers \cup {None},
             NEW company \in Companies \cup {None}, NEW d \in Codes \cup {None},
             CreateCheckout(ch, c, customer, company, d)
      PROVE  Placement!Open(ch)
  <2>1. checkout[ch].status = "none" /\ checkout'[ch].status = "pending"
          /\ \A x \in Checkouts \ {ch} : checkout'[x] = checkout[x]
    BY <1>5 DEF CreateCheckout, TypeOK
  <2>2. [x \in Checkouts |-> checkout'[x].status]
          = [[x \in Checkouts |-> checkout[x].status] EXCEPT ![ch] = "pending"]
    BY <2>1
  <2>3. QED BY <1>5, <2>1, <2>2 DEF CreateCheckout, Placement!Open
<1>6. ASSUME NEW e \in Editors, NEW ch \in Checkouts, NEW d \in Codes \cup {None},
             ReadForUpdate(e, ch, d)
      PROVE  UNCHANGED Placement!vars
  BY <1>6, PlacementStutters DEF ReadForUpdate, db
<1>7. ASSUME NEW e \in Editors, WriteUpdate(e)
      PROVE  UNCHANGED Placement!vars
  <2>1. edit[e].ch \in Checkouts
    BY <1>7 DEF WriteUpdate, TypeOK
  <2>2. \A ch \in Checkouts : checkout'[ch].status = checkout[ch].status
    BY <1>7, <2>1 DEF WriteUpdate, TypeOK, CheckoutRecord
  <2>3. UNCHANGED [ch \in Checkouts |-> checkout[ch].status]
    BY <2>2
  <2>4. QED BY <1>7, <2>3 DEF WriteUpdate, Placement!vars
<1>8. QED
  BY <1>1, <1>2, <1>3, <1>4, <1>5, <1>6, <1>7, Zenon DEF Environment, Levels, Placement!Next

\* A COMMIT places its order: what it writes is what the abstract step writes, and what the
\* transaction knows under its locks are that step's conditions.
LEMMA PlacementCommit ==
  ASSUME DealsInv, OrderNumbersHaveNoGap, NEW w \in Workers, Commit(w)
  PROVE  Placement!Next
<1>1. CoreInv /\ TypeOK
  BY DEF DealsInv, PreparedInv, CoreInv
<1> DEFINE o == orders'[Len(orders')]
<1>2. o = OrderOf(w)
  BY <1>1, CommitAppends
<1> HIDE DEF o
<1>3. /\ o.checkout = tx[w].ch /\ o.number = tx[w].number /\ o.burned = tx[w].burned
      /\ o.customer = checkout[tx[w].ch].customer /\ o.company = checkout[tx[w].ch].company
      /\ o.credit = tx[w].credit /\ o.take = tx[w].take /\ o \in OrderRecord
  BY <1>1, <1>2, AtCommit DEF OrderOf
<1>4. /\ Len(orders') > Len(orders) /\ orders' = Append(orders, o)
      /\ o.number = Len(orders) + 1
  <2>1. orders' = Append(orders, o) /\ Len(orders) \in Nat
    BY <1>1, <1>2, CommitAppends DEF Commit
  <2>2. o.number = Len(orders) + 1
    BY <1>1, <1>3, AtCommit DEF OrderNumbersHaveNoGap
  <2>3. Len(orders') = Len(orders) + 1
    BY <1>1, CommitAppends
  <2>4. QED BY <2>1, <2>2, <2>3
<1>5. /\ o.checkout \in Checkouts /\ checkout[o.checkout].status = "pending"
      /\ [ch \in Checkouts |-> checkout'[ch].status]
           = [[ch \in Checkouts |-> checkout[ch].status] EXCEPT ![o.checkout] = "completed"]
  <2>1. o.checkout \in Checkouts /\ checkout[o.checkout].status = "pending"
    BY <1>1, <1>3, AtCommit
  <2>2. checkout'[o.checkout].status = "completed"
          /\ \A ch \in Checkouts : ch # o.checkout => checkout'[ch] = checkout[ch]
    BY <1>1, <1>3, CommitCheckout
  <2>3. QED BY <2>1, <2>2
<1>6. Placement!BurnsWithinCap(o)
  <2>1. /\ uses' = [d \in Codes |-> IF d = o.burned THEN uses[d] + 1 ELSE uses[d]]
        /\ used' = used \cup {p \in {<<o.burned, o.customer>>} :
                                o.burned # None /\ o.customer # None /\ Rule[o.burned].once}
    BY <1>2, <1>3 DEF Commit
  <2>2. o.burned \in Codes \cup {None} /\ uses \in [Codes -> Nat]
    BY <1>1, <1>3 DEF OrderRecord, TypeOK
  <2>3. o.burned # None =>
          /\ uses[o.burned] < Rule[o.burned].max
          /\ Rule[o.burned].once /\ o.customer # None => <<o.burned, o.customer>> \notin used
    BY <1>1, <1>3, AtCommit
  <2>4. CASE o.burned = None
    <3>1. uses' = uses
      BY <2>1, <2>2, <2>4, SetsAssumption
    <3>2. used' = used
      BY <2>1, <2>4
    <3>3. QED BY <2>4, <3>1, <3>2 DEF Placement!BurnsWithinCap
  <2>5. CASE o.burned # None
    <3>1. uses' = [uses EXCEPT ![o.burned] = @ + 1]
      BY <2>1, <2>2, <2>5
    <3>2. Rule[o.burned].once /\ o.customer # None
            => used' = used \cup {<<o.burned, o.customer>>}
      BY <2>1, <2>5
    <3>3. ~(Rule[o.burned].once /\ o.customer # None) => used' = used
      BY <2>1
    <3>4. QED BY <2>3, <2>5, <3>1, <3>2, <3>3 DEF Placement!BurnsWithinCap
  <2>6. QED BY <2>4, <2>5
<1>7. Placement!DrawsCreditWithinLimit(o)
  <2>1. creditUsed' = [k \in Companies |->
                         IF k = o.company THEN creditUsed[k] + o.credit ELSE creditUsed[k]]
    BY <1>2, <1>3 DEF Commit
  <2>2. o.company \in Companies \cup {None} /\ creditUsed \in [Companies -> Int]
    BY <1>1, <1>3 DEF OrderRecord, TypeOK
  <2>3. o.credit # 0 => creditUsed[o.company] + o.credit <= CreditLimit[o.company]
    BY <1>3 DEF DealsInv, PreparedInv, Prepared, DrawsWithinLimit
  <2>4. CASE o.company = None
    <3>1. creditUsed' = creditUsed
      BY <2>1, <2>2, <2>4, SetsAssumption
    <3>2. QED BY <2>4, <3>1 DEF Placement!DrawsCreditWithinLimit
  <2>5. CASE o.company # None
    <3>1. creditUsed' = [creditUsed EXCEPT ![o.company] = @ + o.credit]
      BY <2>1, <2>2, <2>5
    <3>2. QED BY <2>3, <2>5, <3>1 DEF Placement!DrawsCreditWithinLimit
  <2>6. QED BY <2>4, <2>5
<1>8. /\ \A l \in 1 .. NLevels : o.take[l] \in 0 .. stock[l]
      /\ stock' = [l \in 1 .. NLevels |-> stock[l] - o.take[l]]
  <2>1. stock' = [l \in 1 .. NLevels |-> stock[l] - o.take[l]]
    BY <1>3 DEF Commit, Levels
  <2>2. ASSUME NEW l \in 1 .. NLevels
        PROVE  o.take[l] \in 0 .. stock[l]
    <3>1. stock[l] \in Nat /\ o.take[l] \in Nat
      BY <1>1, <1>3 DEF TypeOK, OrderRecord, Levels
    <3>2. o.take[l] > 0 => o.take[l] <= stock[l]
      BY <1>1, <1>3, AtCommit DEF Levels
    <3>3. QED BY <3>1, <3>2
  <2>3. QED BY <2>1, <2>2
<1>9. Placement!Place(o)
  BY <1>4, <1>5, <1>6, <1>7, <1>8, Zenon DEF Placement!Place
<1>10. QED BY <1>4, <1>9 DEF o, Placement!Next

LEMMA PlacementStep ==
  DealsInv /\ OrderNumbersHaveNoGap /\ [Next]_vars => [Placement!Next]_(Placement!vars)
<1> SUFFICES ASSUME DealsInv, OrderNumbersHaveNoGap, [Next]_vars
             PROVE  Placement!Next \/ UNCHANGED Placement!vars
  OBVIOUS
<1>1. TypeOK
  BY DEF DealsInv, PreparedInv, CoreInv
<1>2. CASE Environment
  BY <1>1, <1>2, PlacementEnvironment
<1>3. ASSUME UNCHANGED db
      PROVE  UNCHANGED Placement!vars
  BY <1>3, PlacementStutters DEF db
<1>4. \A w \in Workers : \A s, R : Advance(w, s, R) => UNCHANGED db
  BY DEF Advance
<1>5. \A w \in Workers : Rollback(w) => UNCHANGED db
  BY DEF Rollback
<1>6. ASSUME NEW w \in Workers, NEW ch \in Checkouts, NEW a \in Agents \cup {None}, Begin(w, ch, a)
      PROVE  UNCHANGED db
  BY <1>4, <1>6 DEF Begin
<1>7. ASSUME NEW w \in Workers, Step(w), ~Commit(w)
      PROVE  UNCHANGED db
  BY <1>4, <1>5, <1>7 DEF Step, BurnCheckoutDiscount, ClaimCheckout, VerifyAgentCheckout,
     PoolTimeout, NextOrderNumber, RefetchPrices, CheckCreditAndConsume, InsertOrder,
     LoadDemand, DecrementInventory, VerifyInventory
<1>8. ASSUME NEW w \in Workers, Crash(w)
      PROVE  UNCHANGED db
  BY <1>5, <1>8 DEF Crash
<1>9. CASE UNCHANGED vars
  BY <1>3, <1>9 DEF vars
<1>10. ASSUME NEW w \in Workers, Commit(w)
       PROVE  Placement!Next
  BY <1>10, PlacementCommit
<1>11. QED
  BY <1>2, <1>3, <1>6, <1>7, <1>8, <1>9, <1>10 DEF Next

\* completeCheckout() takes effect at one instant or not at all: its dozen statements, with the
\* locks between them, the pool and the crashes, are one step that turns a pending checkout into
\* the next order and takes its code, its credit and its stock within their limits.
THEOREM CompletionIsAtomic == Spec => PlacementSpec
<1>1. DealsInv /\ OrdersInv /\ [Next]_vars => [Placement!Next]_(Placement!vars)
  BY PlacementStep DEF OrdersInv
<1>2. QED
  BY <1>1, PlacementInit, DealsInit, DealsStep, OrdersInit, OrdersStep, PTL
     DEF Spec, PlacementSpec, Placement!Spec

=============================================================================
