------------------------------ MODULE Checkout ------------------------------
(***************************************************************************)
(* Carts, checkouts and completeCheckout(), the transaction that turns a   *)
(* pending checkout into an order.                                         *)
(*                                                                         *)
(* The variables cart .. orders are the COMMITTED rows of one store.  A    *)
(* worker is a request handler inside completeCheckout(): pc says which    *)
(* statement it runs next, held the rows its transaction has locked, and   *)
(* tx what it has read and what it will write when it commits.  A          *)
(* statement of the transaction is one action: it reads the committed rows *)
(* of that moment (READ COMMITTED) and waits for the locks it needs.  An   *)
(* autocommit statement of another handler is one action as well, and      *)
(* waits for the rows it writes.                                           *)
(***************************************************************************)
EXTENDS Sums, Sequences

CONSTANTS
  Workers,       \* handlers that run completeCheckout() concurrently
  Editors,       \* handlers that run updateCheckout() concurrently
  PoolSize,      \* connections in the pool of db/pool.ts
  Carts, Checkouts, Customers, Companies, Codes, Agents, Variants,
  Tracked,       \* variants with track_inventory
  NLevels,       \* rows of inventory_levels, numbered in the order of their ids
  LevelVariant,  \* the variant of each of these rows
  MaxStock,      \* bound on quantity_on_hand
  Deltas,        \* what adjustInventory() may be asked to add
  MaxQty,        \* MAX_CART_LINE_QUANTITY
  Prices,        \* prices a variant may have, in cents
  Extra,         \* shipping and tax of every checkout
  Rule,          \* the rows of discount_codes
  NetTerms,      \* companies with payment_terms_days > 0
  CreditLimit,   \* companies.credit_limit, None when there is no cap
  SpendLimit,    \* agents.spend_limit
  None

Levels == 1 .. NLevels
Quantity == 0 .. MaxQty
Price == Prices \cup {0}            \* 0 is the price of a line that is not there

ASSUME SetsAssumption ==
  /\ None \notin Carts \cup Checkouts \cup Customers \cup Companies \cup Codes \cup Agents
  /\ IsFiniteSet(Workers) /\ IsFiniteSet(Variants)
  /\ Tracked \subseteq Variants /\ NetTerms \subseteq Companies

ASSUME NumbersAssumption ==
  /\ NLevels \in Nat /\ MaxStock \in Nat /\ MaxQty \in Nat /\ PoolSize \in Nat
  /\ Extra \in Int
  /\ Prices \subseteq Nat \ {0} /\ Deltas \subseteq Int
  /\ LevelVariant \in [1 .. NLevels -> Variants]

ASSUME LimitsAssumption ==
  /\ Rule \in [Codes -> [once : BOOLEAN, max : Nat, min : Nat, value : Nat]]
  /\ \A k \in Companies : CreditLimit[k] # None => CreditLimit[k] \in Nat
  /\ SpendLimit \in [Agents -> Nat]

VARIABLES
  cart,          \* carts and their cart_lines, one line per variant
  price,         \* product_variants.price
  checkout,      \* checkouts
  uses,          \* discount_codes.uses_count
  used,          \* discount_usages, as pairs of a code and a customer
  stock,         \* inventory_levels.quantity_on_hand
  creditUsed,    \* companies.credit_used
  orderSequence, \* stores.order_sequence
  orders,        \* orders with their order_lines, in commit order
  pc, held, tx,  \* the completions in progress
  edit           \* the updateCheckout() calls between their read and their write

db == <<cart, price, checkout, uses, used, stock, creditUsed, orderSequence, orders>>
vars == <<db, pc, held, tx, edit>>

-----------------------------------------------------------------------------
(* Rows and their types.                                                   *)

NoLines == [v \in Variants |-> 0]
NoTakes == [l \in Levels |-> 0]

NoCheckout ==
  [status |-> "none", cart |-> None, customer |-> None, company |-> None,
   code |-> None, subtotal |-> 0, discount |-> 0, total |-> 0]

NoEdit == [ch |-> None, code |-> None, subtotal |-> 0, discount |-> 0]

NoTx ==
  [ch |-> None, agent |-> None, burned |-> None, number |-> 0, subtotal |-> 0,
   total |-> 0, credit |-> 0, fresh |-> NoLines, lines |-> NoLines, amount |-> 0,
   demand |-> NoLines, need |-> NoLines, take |-> NoTakes, row |-> 0]

Stages == {"idle", "burn", "claim", "agent", "number", "prices", "credit",
           "order", "demand", "stock", "commit"}

\* The rows a transaction locks.
CodeRow(d) == <<"code", d>>
CheckoutRow(ch) == <<"checkout", ch>>
StoreRow == <<"store", "store">>
LineRow(c, v) == <<"line", <<c, v>>>>
CompanyRow(k) == <<"company", k>>
LevelRow(l) == <<"level", l>>

Rows ==
  {CodeRow(d) : d \in Codes} \cup {CheckoutRow(ch) : ch \in Checkouts} \cup {StoreRow}
  \cup {LineRow(c, v) : c \in Carts, v \in Variants}
  \cup {CompanyRow(k) : k \in Companies} \cup {LevelRow(l) : l \in Levels}

Unlocked(r) == \A x \in Workers : r \notin held[x]
Free(w, r) == \A x \in Workers \ {w} : r \notin held[x]

\* Connections of the pool that a transaction keeps checked out.
InUse == {w \in Workers : pc[w] # "idle"}
ConnectionFree == Cardinality(InUse) < PoolSize

Init ==
  /\ cart = [c \in Carts |-> [status |-> "active", qty |-> NoLines, price |-> NoLines]]
  /\ price \in [Variants -> Prices]
  /\ checkout = [ch \in Checkouts |-> NoCheckout]
  /\ uses = [d \in Codes |-> 0]
  /\ used = {}
  /\ stock \in [Levels -> 0 .. MaxStock]
  /\ creditUsed = [k \in Companies |-> 0]
  /\ orderSequence = 0
  /\ orders = <<>>
  /\ pc = [w \in Workers |-> "idle"]
  /\ held = [w \in Workers |-> {}]
  /\ tx = [w \in Workers |-> NoTx]
  /\ edit = [e \in Editors |-> NoEdit]

-----------------------------------------------------------------------------
(* Handlers that run beside the completions.                               *)

\* addCartLine, updateCartLine and removeCartLine: the line of variant v now has
\* quantity q.  A new line takes the price of the moment; an old one keeps its own.
\* None of them looks at the status of the cart.
EditCartLine(c, v, q) ==
  /\ q # cart[c].qty[v]
  /\ Unlocked(LineRow(c, v))
  /\ cart' = [cart EXCEPT
       ![c].qty[v] = q,
       ![c].price[v] = IF q = 0 THEN 0 ELSE IF @ = 0 THEN price[v] ELSE @]
  /\ UNCHANGED <<price, checkout, uses, used, stock, creditUsed, orderSequence, orders,
                 pc, held, tx, edit>>

MarkCartAbandoned(c) ==
  /\ cart[c].status = "active"
  /\ cart' = [cart EXCEPT ![c].status = "abandoned"]
  /\ UNCHANGED <<price, checkout, uses, used, stock, creditUsed, orderSequence, orders,
                 pc, held, tx, edit>>

\* The merchant changes a price in the catalogue.
SetPrice(v, p) ==
  /\ p # price[v]
  /\ price' = [price EXCEPT ![v] = p]
  /\ UNCHANGED <<cart, checkout, uses, used, stock, creditUsed, orderSequence, orders,
                 pc, held, tx, edit>>

\* Mutant of AdjustInventory: without GREATEST(0, ...).
AdjustWithoutFloor(l, delta) ==
  /\ Unlocked(LevelRow(l))
  /\ stock[l] + delta <= MaxStock
  /\ stock' = [stock EXCEPT ![l] = @ + delta]
  /\ UNCHANGED <<cart, price, checkout, uses, used, creditUsed, orderSequence, orders,
                 pc, held, tx, edit>>

\* adjustInventory: the level never goes below zero.
AdjustInventory(l, delta) ==
  /\ Unlocked(LevelRow(l))
  /\ stock[l] + delta <= MaxStock
  /\ stock' = [stock EXCEPT ![l] = Greater(0, @ + delta)]
  /\ UNCHANGED <<cart, price, checkout, uses, used, creditUsed, orderSequence, orders,
                 pc, held, tx, edit>>

\* The price snapshots of the cart, added up (cartSubtotal).
CartSubtotal(c) == Amount(cart[c].qty, cart[c].price)

\* applyDiscount: the checks made before a code is accepted, and what it takes off.
Applicable(d, subtotal, customer) ==
  d # None =>
    /\ subtotal >= Rule[d].min
    /\ uses[d] < Rule[d].max
    /\ Rule[d].once => customer # None /\ <<d, customer>> \notin used

DiscountOf(d, subtotal) == IF d = None THEN 0 ELSE Lesser(Rule[d].value, subtotal)

CreateCheckout(ch, c, customer, company, d) ==
  /\ checkout[ch].status = "none"
  /\ cart[c].status = "active"
  /\ cart[c].qty # NoLines
  /\ Applicable(d, CartSubtotal(c), customer)
  /\ checkout' = [checkout EXCEPT ![ch] =
       [status |-> "pending", cart |-> c, customer |-> customer, company |-> company,
        code |-> d, subtotal |-> CartSubtotal(c),
        discount |-> DiscountOf(d, CartSubtotal(c)),
        total |-> CartSubtotal(c) + Extra - DiscountOf(d, CartSubtotal(c))]]
  /\ UNCHANGED <<cart, price, uses, used, stock, creditUsed, orderSequence, orders,
                 pc, held, tx, edit>>

\* updateCheckout, up to its last read: the checkout must be pending.
ReadForUpdate(e, ch, d) ==
  /\ edit[e] = NoEdit
  /\ checkout[ch].status = "pending"
  /\ LET subtotal == CartSubtotal(checkout[ch].cart) IN
     /\ Applicable(d, subtotal, checkout[ch].customer)
     /\ edit' = [edit EXCEPT ![e] = [ch |-> ch, code |-> d, subtotal |-> subtotal,
                                     discount |-> DiscountOf(d, subtotal)]]
  /\ UNCHANGED <<db, pc, held, tx>>

\* Mutant of WriteUpdate: the UPDATE sets the status it read as well.
WriteUpdateWithStatus(e) ==
  LET u == edit[e] IN
  /\ u # NoEdit
  /\ Unlocked(CheckoutRow(u.ch))
  /\ checkout' = [checkout EXCEPT
       ![u.ch].status = "pending",
       ![u.ch].code = u.code,
       ![u.ch].subtotal = u.subtotal,
       ![u.ch].discount = u.discount,
       ![u.ch].total = u.subtotal + Extra - u.discount]
  /\ edit' = [edit EXCEPT ![e] = NoEdit]
  /\ UNCHANGED <<cart, price, uses, used, stock, creditUsed, orderSequence, orders,
                 pc, held, tx>>

\* updateCheckout, its UPDATE: it waits for the row, and does not ask for its status.
WriteUpdate(e) ==
  LET u == edit[e] IN
  /\ u # NoEdit
  /\ Unlocked(CheckoutRow(u.ch))
  /\ checkout' = [checkout EXCEPT
       ![u.ch].code = u.code,
       ![u.ch].subtotal = u.subtotal,
       ![u.ch].discount = u.discount,
       ![u.ch].total = u.subtotal + Extra - u.discount]
  /\ edit' = [edit EXCEPT ![e] = NoEdit]
  /\ UNCHANGED <<cart, price, uses, used, stock, creditUsed, orderSequence, orders,
                 pc, held, tx>>

-----------------------------------------------------------------------------
(* completeCheckout(), statement by statement.                             *)

\* ROLLBACK: the transaction leaves nothing behind.
Rollback(w) ==
  /\ pc' = [pc EXCEPT ![w] = "idle"]
  /\ held' = [held EXCEPT ![w] = {}]
  /\ tx' = [tx EXCEPT ![w] = NoTx]
  /\ UNCHANGED <<db, edit>>

\* The statement succeeds: go on to stage s, holding the rows R as well.
Advance(w, s, R) ==
  /\ pc' = [pc EXCEPT ![w] = s]
  /\ held' = [held EXCEPT ![w] = @ \cup R]
  /\ UNCHANGED <<db, edit>>

\* BEGIN, and the first read of burnCheckoutDiscount: no lock is taken.
Begin(w, ch, a) ==
  /\ pc[w] = "idle"
  /\ ConnectionFree
  /\ checkout[ch].status # "none"
  /\ tx' = [tx EXCEPT ![w] = [NoTx EXCEPT !.ch = ch, !.agent = a,
                                          !.burned = checkout[ch].code]]
  /\ Advance(w, IF checkout[ch].code = None THEN "claim" ELSE "burn", {})

\* Mutant of BurnCheckoutDiscount: the counter is read, and written at the end, without
\* its row being locked in between.
BurnWithoutLock(w) ==
  LET d == tx[w].burned
      customer == checkout[tx[w].ch].customer IN
  /\ pc[w] = "burn"
  /\ IF uses[d] < Rule[d].max /\ (Rule[d].once /\ customer # None => <<d, customer>> \notin used)
     THEN Advance(w, "claim", {}) /\ UNCHANGED tx
     ELSE Rollback(w)

\* The counter goes up under its row lock, unless the code is exhausted or the
\* customer has used it.
BurnCheckoutDiscount(w) ==
  LET d == tx[w].burned
      customer == checkout[tx[w].ch].customer IN
  /\ pc[w] = "burn"
  /\ Free(w, CodeRow(d))
  /\ IF uses[d] < Rule[d].max /\ (Rule[d].once /\ customer # None => <<d, customer>> \notin used)
     THEN Advance(w, "claim", {CodeRow(d)}) /\ UNCHANGED tx
     ELSE Rollback(w)

\* Mutant of ClaimCheckout: without FOR UPDATE.
ClaimWithoutLock(w) ==
  LET ch == tx[w].ch IN
  /\ pc[w] = "claim"
  /\ IF checkout[ch].status = "pending"
     THEN /\ Advance(w, IF tx[w].agent = None THEN "number" ELSE "agent", {})
          /\ tx' = [tx EXCEPT ![w].subtotal = checkout[ch].subtotal,
                              ![w].total = checkout[ch].total]
     ELSE Rollback(w)

\* SELECT ... WHERE status = 'pending' FOR UPDATE.
ClaimCheckout(w) ==
  LET ch == tx[w].ch IN
  /\ pc[w] = "claim"
  /\ Free(w, CheckoutRow(ch))
  /\ IF checkout[ch].status = "pending"
     THEN /\ Advance(w, IF tx[w].agent = None THEN "number" ELSE "agent", {CheckoutRow(ch)})
          /\ tx' = [tx EXCEPT ![w].subtotal = checkout[ch].subtotal,
                              ![w].total = checkout[ch].total]
     ELSE Rollback(w)

\* What the agent has spent, from the committed orders.
Spent(a) == SumOver([i \in 1 .. Len(orders) |-> orders[i].total],
                    {i \in 1 .. Len(orders) : orders[i].agent = a})

\* verifyAgentCheckout reads through another connection of the pool.  Its other
\* refusals (an inactive agent, a mandate that is missing or invalid) are one choice.
VerifyAgentCheckout(w) ==
  /\ pc[w] = "agent"
  /\ ConnectionFree
  /\ \/ /\ Spent(tx[w].agent) + tx[w].total <= SpendLimit[tx[w].agent]
        /\ Advance(w, "number", {}) /\ UNCHANGED tx
     \/ Rollback(w)

\* Mutant of PoolTimeout: a handler waits for a connection without a limit.
WaitForConnection(w) == pc[w] = "agent" /\ ~ConnectionFree /\ UNCHANGED vars

\* connectionTimeoutMillis: no connection came free.
PoolTimeout(w) == pc[w] = "agent" /\ ~ConnectionFree /\ Rollback(w)

\* Mutant of NextOrderNumber: the next number is read without the row being locked.
ReadOrderNumber(w) ==
  /\ pc[w] = "number"
  /\ Advance(w, "prices", {})
  /\ tx' = [tx EXCEPT ![w].number = orderSequence + 1]

\* next_order_number() updates the row of the store.
NextOrderNumber(w) ==
  /\ pc[w] = "number"
  /\ Free(w, StoreRow)
  /\ Advance(w, "prices", {StoreRow})
  /\ tx' = [tx EXCEPT ![w].number = orderSequence + 1]

\* The lines whose snapshot differs from the catalogue get the price of the moment;
\* the totals are computed again only if there is such a line.
RefetchPrices(w) ==
  LET ch == tx[w].ch
      c == checkout[ch].cart
      k == checkout[ch].company
      Changed == {v \in Variants : cart[c].qty[v] > 0 /\ cart[c].price[v] # price[v]}
      subtotal == Amount(cart[c].qty, price) IN
  /\ pc[w] = "prices"
  /\ \A v \in Changed : Free(w, LineRow(c, v))
  /\ Advance(w, IF k # None /\ k \in NetTerms THEN "credit" ELSE "order",
             {LineRow(c, v) : v \in Changed})
  /\ tx' = IF Changed = {} THEN tx ELSE
       [tx EXCEPT ![w].fresh = [v \in Variants |-> IF v \in Changed THEN price[v] ELSE 0],
                  ![w].subtotal = subtotal,
                  ![w].total = subtotal + Extra - checkout[ch].discount]

\* Mutant of CheckCreditAndConsume: what a net-terms order draws is not tested.
ConsumeCredit(w) ==
  LET k == checkout[tx[w].ch].company IN
  /\ pc[w] = "credit"
  /\ Free(w, CompanyRow(k))
  /\ Advance(w, "order", {CompanyRow(k)})
  /\ tx' = [tx EXCEPT ![w].credit = tx[w].total]

\* checkCreditAndConsume, under the row lock of the company.
CheckCreditAndConsume(w) ==
  LET k == checkout[tx[w].ch].company IN
  /\ pc[w] = "credit"
  /\ Free(w, CompanyRow(k))
  /\ IF CreditLimit[k] = None
     THEN Advance(w, "order", {CompanyRow(k)}) /\ UNCHANGED tx
     ELSE IF CreditLimit[k] - creditUsed[k] >= tx[w].total
     THEN /\ Advance(w, "order", {CompanyRow(k)})
          /\ tx' = [tx EXCEPT ![w].credit = tx[w].total]
     ELSE Rollback(w)

\* The lines of the cart as the transaction sees them: its own price updates included.
LinePrice(w) ==
  LET c == checkout[tx[w].ch].cart IN
  [v \in Variants |-> IF tx[w].fresh[v] = 0 THEN cart[c].price[v] ELSE tx[w].fresh[v]]

\* INSERT INTO orders, and the copy of the cart lines.
InsertOrder(w) ==
  LET qty == cart[checkout[tx[w].ch].cart].qty IN
  /\ pc[w] = "order"
  /\ Advance(w, "demand", {})
  /\ tx' = [tx EXCEPT ![w].lines = qty, ![w].amount = Amount(qty, LinePrice(w))]

\* The cart lines are read once more: the demand for the tracked variants.
LoadDemand(w) ==
  LET qty == cart[checkout[tx[w].ch].cart].qty
      demand == [v \in Variants |-> IF v \in Tracked THEN qty[v] ELSE 0] IN
  /\ pc[w] = "demand"
  /\ Advance(w, "stock", {})
  /\ tx' = [tx EXCEPT ![w].demand = demand, ![w].need = demand]

\* Rows of inventory_levels that are still to be locked.
RowsLeft(w) == {l \in Levels : l > tx[w].row /\ tx[w].demand[LevelVariant[l]] > 0}

\* Mutant of DecrementInventory: every row gives what is asked for in full.
DecrementEveryRow(w) ==
  /\ pc[w] = "stock"
  /\ \E l \in RowsLeft(w) :
       LET v == LevelVariant[l]
           take == Lesser(tx[w].need[v], stock[l]) IN
       /\ \A m \in RowsLeft(w) : l <= m
       /\ Free(w, LevelRow(l))
       /\ Advance(w, "stock", {LevelRow(l)})
       /\ tx' = [tx EXCEPT ![w].row = l,
                           ![w].take[l] = Lesser(tx[w].demand[v], stock[l]),
                           ![w].need[v] = @ - take]

\* FOR UPDATE in the order of the ids, and what the row gives.  The code sums the rows
\* up before it takes from them; a demand that is left over at the end is the same test.
DecrementInventory(w) ==
  /\ pc[w] = "stock"
  /\ \E l \in RowsLeft(w) :
       LET v == LevelVariant[l]
           take == Lesser(tx[w].need[v], stock[l]) IN
       /\ \A m \in RowsLeft(w) : l <= m
       /\ Free(w, LevelRow(l))
       /\ Advance(w, "stock", {LevelRow(l)})
       /\ tx' = [tx EXCEPT ![w].row = l, ![w].take[l] = take, ![w].need[v] = @ - take]

\* INSUFFICIENT_INVENTORY, or on to the last statements.
VerifyInventory(w) ==
  /\ pc[w] = "stock"
  /\ RowsLeft(w) = {}
  /\ IF tx[w].need = NoLines
     THEN Advance(w, "commit", {}) /\ UNCHANGED tx
     ELSE Rollback(w)

OrderOf(w) ==
  [checkout |-> tx[w].ch, number |-> tx[w].number, agent |-> tx[w].agent,
   burned |-> tx[w].burned, code |-> checkout[tx[w].ch].code,
   customer |-> checkout[tx[w].ch].customer, company |-> checkout[tx[w].ch].company,
   subtotal |-> tx[w].subtotal, total |-> tx[w].total, credit |-> tx[w].credit,
   amount |-> tx[w].amount, lines |-> tx[w].lines, demand |-> tx[w].demand,
   take |-> tx[w].take]

\* The last updates (checkout completed, cart converted) and COMMIT: everything the
\* transaction wrote becomes visible, and its locks are released.
Commit(w) ==
  LET t == tx[w]
      o == OrderOf(w)
      c == checkout[t.ch].cart IN
  /\ pc[w] = "commit"
  /\ orders' = Append(orders, o)
  /\ orderSequence' = t.number
  /\ checkout' = [checkout EXCEPT ![t.ch].status = "completed",
                                  ![t.ch].subtotal = t.subtotal, ![t.ch].total = t.total]
  /\ cart' = [cart EXCEPT ![c].status = "converted", ![c].price = LinePrice(w)]
  /\ uses' = [d \in Codes |-> IF d = t.burned THEN uses[d] + 1 ELSE uses[d]]
  /\ used' = used \cup {p \in {<<t.burned, o.customer>>} :
                          t.burned # None /\ o.customer # None /\ Rule[t.burned].once}
  /\ creditUsed' = [k \in Companies |->
                      IF k = o.company THEN creditUsed[k] + t.credit ELSE creditUsed[k]]
  /\ stock' = [l \in Levels |-> stock[l] - t.take[l]]
  /\ pc' = [pc EXCEPT ![w] = "idle"]
  /\ held' = [held EXCEPT ![w] = {}]
  /\ tx' = [tx EXCEPT ![w] = NoTx]
  /\ UNCHANGED <<price, edit>>

\* The connection is lost or the process dies before the COMMIT.
Crash(w) == pc[w] # "idle" /\ Rollback(w)

-----------------------------------------------------------------------------

Step(w) ==
  \/ BurnCheckoutDiscount(w) \/ ClaimCheckout(w)
  \/ VerifyAgentCheckout(w) \/ PoolTimeout(w)
  \/ NextOrderNumber(w) \/ RefetchPrices(w) \/ CheckCreditAndConsume(w)
  \/ InsertOrder(w) \/ LoadDemand(w)
  \/ DecrementInventory(w) \/ VerifyInventory(w) \/ Commit(w)

Environment ==
  \/ \E c \in Carts, v \in Variants, q \in Quantity : EditCartLine(c, v, q)
  \/ \E c \in Carts : MarkCartAbandoned(c)
  \/ \E v \in Variants, p \in Prices : SetPrice(v, p)
  \/ \E l \in Levels, delta \in Deltas : AdjustInventory(l, delta)
  \/ \E ch \in Checkouts, c \in Carts, customer \in Customers \cup {None},
        company \in Companies \cup {None}, d \in Codes \cup {None} :
        CreateCheckout(ch, c, customer, company, d)
  \/ \E e \in Editors, ch \in Checkouts, d \in Codes \cup {None} : ReadForUpdate(e, ch, d)
  \/ \E e \in Editors : WriteUpdate(e)

Next ==
  \/ Environment
  \/ \E w \in Workers :
       \/ \E ch \in Checkouts, a \in Agents \cup {None} : Begin(w, ch, a)
       \/ Step(w)
       \/ Crash(w)

Spec == Init /\ [][Next]_vars

\* A handler that has begun goes on.  The waiters of a row lock are served in turn,
\* so that a lock that is released again and again is obtained in the end.
Fairness == \A w \in Workers : SF_vars(Step(w))
FairSpec == Spec /\ Fairness
-----------------------------------------------------------------------------
(* Properties.                                                             *)

CheckoutRecord ==
  [status : {"none", "pending", "completed"}, cart : Carts \cup {None},
   customer : Customers \cup {None}, company : Companies \cup {None},
   code : Codes \cup {None}, subtotal : Int, discount : Int, total : Int]

OrderRecord ==
  [checkout : Checkouts, number : Nat, agent : Agents \cup {None},
   burned : Codes \cup {None}, code : Codes \cup {None}, customer : Customers \cup {None},
   company : Companies \cup {None}, subtotal : Int, total : Int, credit : Int,
   amount : Int, lines : [Variants -> Quantity], demand : [Variants -> Quantity],
   take : [Levels -> Nat]]

TxRecord ==
  [ch : Checkouts \cup {None}, agent : Agents \cup {None}, burned : Codes \cup {None},
   number : Nat, subtotal : Int, total : Int, credit : Int,
   fresh : [Variants -> Price], lines : [Variants -> Quantity], amount : Int,
   demand : [Variants -> Quantity], need : [Variants -> Nat], take : [Levels -> Nat],
   row : Nat]

EditRecord ==
  [ch : Checkouts \cup {None}, code : Codes \cup {None}, subtotal : Int, discount : Int]

CartRecord ==
  [status : {"active", "abandoned", "converted"},
   qty : [Variants -> Quantity], price : [Variants -> Price]]

\* The types of the rows and of what the handlers hold: a level is never negative, a
\* checkout has a cart from the moment it exists, and an edit is of such a checkout.
TypeOK ==
  /\ cart \in [Carts -> CartRecord]
  /\ price \in [Variants -> Prices]
  /\ checkout \in [Checkouts -> CheckoutRecord]
  /\ uses \in [Codes -> Nat]
  /\ used \subseteq Codes \X Customers
  /\ stock \in [Levels -> Nat]
  /\ creditUsed \in [Companies -> Int]
  /\ orderSequence \in Nat
  /\ orders \in Seq(OrderRecord)
  /\ pc \in [Workers -> Stages]
  /\ held \in [Workers -> SUBSET Rows]
  /\ tx \in [Workers -> TxRecord]
  /\ edit \in [Editors -> EditRecord]
  /\ \A ch \in Checkouts : checkout[ch].status # "none" => checkout[ch].cart \in Carts
  /\ \A e \in Editors : edit[e] # NoEdit =>
       edit[e].ch \in Checkouts /\ checkout[edit[e].ch].status # "none"

Placed == 1 .. Len(orders)

\* Stages in which the transaction has claimed its checkout, and has its order number.
Numbered == {"prices", "credit", "order", "demand", "stock", "commit"}
Claimed == Numbered \cup {"agent", "number"}

\* What handler w knows about the rows it has locked.
Protected(w) ==
  LET t == tx[w] IN
  /\ pc[w] # "idle" => t.ch \in Checkouts /\ checkout[t.ch].status # "none"
  /\ pc[w] = "burn" => t.burned \in Codes
  /\ pc[w] = "credit" => checkout[t.ch].company \in Companies
  /\ pc[w] \in Claimed =>
       CheckoutRow(t.ch) \in held[w] /\ checkout[t.ch].status = "pending"
  /\ pc[w] \in Numbered => StoreRow \in held[w] /\ t.number = orderSequence + 1
  /\ pc[w] \notin {"idle", "burn"} /\ t.burned # None =>
       /\ CodeRow(t.burned) \in held[w]
       /\ uses[t.burned] < Rule[t.burned].max
       /\ Rule[t.burned].once /\ checkout[t.ch].customer # None =>
            <<t.burned, checkout[t.ch].customer>> \notin used
  /\ \A l \in Levels : t.take[l] > 0 =>
       LevelRow(l) \in held[w] /\ t.take[l] <= stock[l]

LockExclusion == \A w, x \in Workers : w # x => held[w] \cap held[x] = {}

\* A row is locked by one transaction at a time, and what a transaction has found out
\* under a lock is still so when it commits, whatever the other handlers do meanwhile:
\* the checkout is pending, its number is the next one, its code can still be burned,
\* and the rows of stock still hold what it is going to take (completeCheckout).
LocksProtectReads == LockExclusion /\ \A w \in Workers : Protected(w)

\* A checkout becomes at most one order however many completions race for it, and it
\* is completed exactly when that order exists (complete.ts: the FOR UPDATE on the
\* pending checkout, the order and the status change in one transaction).
OneOrderPerCheckout ==
  /\ \A i, j \in Placed : orders[i].checkout = orders[j].checkout => i = j
  /\ \A ch \in Checkouts :
       checkout[ch].status = "completed" <=> \E i \in Placed : orders[i].checkout = ch

\* The orders of a store are numbered 1, 2, 3, ... in the order in which they commit:
\* a completion that rolls back burns no number (next_order_number, a row update).
OrderNumbersHaveNoGap ==
  /\ orderSequence = Len(orders)
  /\ \A i \in Placed : orders[i].number = i

\* The counter of a code is the number of orders that burned it and never passes
\* max_uses; a once_per_customer code has been burned at most once by a customer
\* (burnCheckoutDiscount).
DiscountsWithinCaps ==
  /\ \A d \in Codes :
       /\ uses[d] = Cardinality({i \in Placed : orders[i].burned = d})
       /\ uses[d] <= Rule[d].max
  /\ \A i, j \in Placed :
       /\ orders[i].burned = orders[j].burned /\ orders[i].burned # None
       /\ orders[i].customer = orders[j].customer /\ orders[i].customer # None
       /\ Rule[orders[i].burned].once
       => i = j

\* What a company owes is what its net-terms orders drew, and stays within its limit
\* (checkCreditAndConsume in the transaction of the order).
CreditWithinLimit ==
  \A k \in Companies :
    /\ creditUsed[k] = SumOver([i \in Placed |-> orders[i].credit],
                               {i \in Placed : orders[i].company = k})
    /\ CreditLimit[k] # None => creditUsed[k] <= CreditLimit[k]

\* The rows of inventory_levels gave an order exactly its demand, however it was
\* spread over the warehouses, and nobody drove one of them below zero (step 7 of
\* completeCheckout against adjustInventory and other completions).
NoOversell ==
  /\ \A l \in Levels : stock[l] >= 0
  /\ \A i \in Placed : \A v \in Variants :
       SumOver(orders[i].take, {l \in Levels : LevelVariant[l] = v}) = orders[i].demand[v]

\* completeCheckout() takes effect at one instant or not at all: see OrderPlacement.
Placement == INSTANCE OrderPlacement
               WITH status <- [ch \in Checkouts |-> checkout[ch].status]
PlacementSpec == Placement!Spec

\* Every completion that begins ends, committed or rolled back: no set of completions
\* waits for each other's rows or connections for ever (lock order of complete.ts,
\* connectionTimeoutMillis of pool.ts).
CompletionEnds == \A w \in Workers : pc[w] # "idle" ~> pc[w] = "idle"

\* complete.ts:237-239 says no concurrent agent checkout can slip through between the
\* sum of what the agent has spent and the insertion of the order.
AgentWithinSpendLimit == \A a \in Agents : Spent(a) <= SpendLimit[a]

\* service.ts:174 and 182 call the burn at completion the authoritative check of a
\* code: the orders that carry a code are then at most max_uses.
DiscountedOrdersWithinCap ==
  \A d \in Codes : Cardinality({i \in Placed : orders[i].code = d}) <= Rule[d].max
=============================================================================
