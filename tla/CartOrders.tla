------------------------------ MODULE CartOrders ------------------------------
(***************************************************************************)
(* One cart on its way to orders.  Lines are added, changed and removed by *)
(* statements of their own; a checkout keeps the subtotal it was opened    *)
(* with; a completion reads the lines three times (prices, order lines,    *)
(* stock) and no lock keeps the cart as it was.  Completions of one store  *)
(* run one after the other, behind the counter of the order numbers, and   *)
(* what a completion writes is seen when it commits.  All lines are of one *)
(* variant; shipping and tax are left out.                                 *)
(***************************************************************************)
EXTENDS Sums

CONSTANTS Lines, Checkouts, Shoppers, Prices, Discount, MaxEdits, None

VARIABLES line,     \* [qty, price]: a row of cart_lines, qty 0 for none
          price,    \* the price of the variant
          shopper,  \* [at, line, price]: an addCartLine
          checkout, \* [status, subtotal, discount]: its total is the difference
          fresh,    \* [at, subtotal, clean]: an updateCheckout of a checkout
          doing,    \* [at, checkout, subtotal, now, repriced, copied]: the completion
          order,    \* [subtotal, total, lines, taken]: the order of a checkout
          touched,  \* pending checkouts whose cart has changed since they were totalled
          edits

ovars == <<line, price, shopper, checkout, fresh, doing, order, touched, edits>>

NoShopper == [at |-> "ready", line |-> None, price |-> 0]
NotTotalling == [at |-> "ready", subtotal |-> 0, clean |-> TRUE]
NotDoing == [at |-> "none", checkout |-> None, subtotal |-> 0, now |-> 0, repriced |-> {}, copied |-> {}]

Init ==
    /\ line = [l \in Lines |-> [qty |-> 0, price |-> 0]]
    /\ price = CHOOSE p \in Prices : \A q \in Prices : q <= p
    /\ shopper = [s \in Shoppers |-> NoShopper]
    /\ checkout = [k \in Checkouts |-> [status |-> "none", subtotal |-> 0, discount |-> 0]]
    /\ fresh = [k \in Checkouts |-> NotTotalling]
    /\ doing = NotDoing
    /\ order = [k \in Checkouts |-> [subtotal |-> 0, total |-> 0, lines |-> {}, taken |-> 0]]
    /\ touched = {}
    /\ edits = 0

Rows == {l \in Lines : line[l].qty > 0}
\* Ids no row has and no addCartLine remembers
Unused == Lines \ (Rows \cup {shopper[s].line : s \in Shoppers})
Pending == {k \in Checkouts : checkout[k].status = "pending"}
CartSubtotal == SumOver([l \in Rows |-> line[l].qty * line[l].price], Rows)

\* An edit of the rows ls: it waits for the completion that has repriced one of them,
\* and spoils every total read before it
Edits(ls) ==
    /\ edits < MaxEdits /\ ls \cap doing.repriced = {}
    /\ edits' = edits + 1
    /\ touched' = touched \cup Pending
    /\ fresh' = [k \in Checkouts |-> [fresh[k] EXCEPT !.clean = FALSE]]

ChangePrice(p) ==
    /\ p # price
    /\ price' = p
    /\ UNCHANGED <<line, shopper, checkout, fresh, doing, order, touched, edits>>

\* addCartLine reads the price and looks for a line of the variant
FindLine(s) ==
    /\ shopper[s].at = "ready" /\ edits < MaxEdits
    /\ \/ Rows = {} /\ shopper' = [shopper EXCEPT ![s] = [at |-> "insert", line |-> None, price |-> price]]
       \/ \E l \in Rows : shopper' = [shopper EXCEPT ![s] = [at |-> "add", line |-> l, price |-> price]]
    /\ UNCHANGED <<line, price, checkout, fresh, doing, order, touched, edits>>

InsertLine(s) ==
    /\ shopper[s].at = "insert" /\ Unused # {}
    /\ Edits({})
    /\ line' = [line EXCEPT ![CHOOSE l \in Unused : TRUE] = [qty |-> 1, price |-> shopper[s].price]]
    /\ shopper' = [shopper EXCEPT ![s] = NoShopper]
    /\ UNCHANGED <<price, checkout, doing, order>>

\* quantity + 1 on the line that was found; on none, when it has been removed meanwhile
AddToLine(s) ==
    LET l == shopper[s].line
    IN /\ shopper[s].at = "add"
       /\ Edits({l})
       /\ line' = [line EXCEPT ![l].qty = IF l \in Rows THEN @ + 1 ELSE 0]
       /\ shopper' = [shopper EXCEPT ![s] = NoShopper]
       /\ UNCHANGED <<price, checkout, doing, order>>

\* Another quantity, or 0 that deletes the line
UpdateCartLine(l, q) ==
    /\ l \in Rows /\ q # line[l].qty
    /\ Edits({l})
    /\ line' = [line EXCEPT ![l].qty = q]
    /\ UNCHANGED <<price, shopper, checkout, doing, order>>

Totalled(k, subtotal) ==
    checkout' = [checkout EXCEPT ![k] =
        [status |-> "pending", subtotal |-> subtotal,
         discount |-> IF Discount < subtotal THEN Discount ELSE subtotal]]

\* The cart is asked to be active, which the order of another checkout ends
CreateCheckout(k) ==
    /\ checkout[k].status = "none" /\ Rows # {}
    /\ k = CHOOSE j \in Checkouts : checkout[j].status = "none"
    /\ \A j \in Checkouts : checkout[j].status # "completed"
    /\ Totalled(k, CartSubtotal)
    /\ UNCHANGED <<line, price, shopper, fresh, doing, order, touched, edits>>

ReadForTotals(k) ==
    /\ checkout[k].status = "pending" /\ fresh[k].at = "ready"
    /\ fresh' = [fresh EXCEPT ![k] = [at |-> "write", subtotal |-> CartSubtotal, clean |-> TRUE]]
    /\ UNCHANGED <<line, price, shopper, checkout, doing, order, touched, edits>>

\* The row is written whatever its status; it waits for a completion that has locked it
UpdateCheckout(k) ==
    /\ fresh[k].at = "write" /\ doing.checkout # k
    /\ fresh' = [fresh EXCEPT ![k] = NotTotalling]
    /\ IF checkout[k].status = "pending"
       THEN Totalled(k, fresh[k].subtotal)
            /\ touched' = IF fresh[k].clean THEN touched \ {k} ELSE touched \cup {k}
       ELSE UNCHANGED <<checkout, touched>>
    /\ UNCHANGED <<line, price, shopper, doing, order, edits>>

-----------------------------------------------------------------------------
\* The row of the checkout, then the counter of the store
LockCheckout(k) ==
    /\ doing.at = "none" /\ checkout[k].status = "pending"
    /\ doing' = [NotDoing EXCEPT !.at = "prices", !.checkout = k, !.subtotal = checkout[k].subtotal]
    /\ UNCHANGED <<line, price, shopper, checkout, fresh, order, touched, edits>>

\* Mutant of RefetchPrices: the lines are repriced and the subtotal stays.
RepriceOnly ==
    /\ doing.at = "prices"
    /\ doing' = [doing EXCEPT !.at = IF \E l \in Rows : line[l].price # price THEN "reprice" ELSE "copy",
                              !.now = price]
    /\ UNCHANGED <<line, price, shopper, checkout, fresh, order, touched, edits>>

\* Step 4: the lines with the prices of now, and the subtotal they add up to when one differs
RefetchPrices ==
    /\ doing.at = "prices"
    /\ doing' = IF \E l \in Rows : line[l].price # price
                THEN [doing EXCEPT !.at = "reprice", !.now = price,
                                   !.subtotal = SumOver([l \in Rows |-> line[l].qty * price], Rows)]
                ELSE [doing EXCEPT !.at = "copy"]
    /\ UNCHANGED <<line, price, shopper, checkout, fresh, order, touched, edits>>

Reprice ==
    /\ doing.at = "reprice"
    /\ doing' = [doing EXCEPT !.at = "copy", !.repriced = Rows]
    /\ UNCHANGED <<line, price, shopper, checkout, fresh, order, touched, edits>>

\* Step 6, the second reading of the cart
CopyLines ==
    /\ doing.at = "copy"
    /\ doing' = [doing EXCEPT !.at = "stock", !.copied =
           {[line |-> l, qty |-> line[l].qty,
             price |-> IF l \in doing.repriced THEN doing.now ELSE line[l].price] : l \in Rows}]
    /\ UNCHANGED <<line, price, shopper, checkout, fresh, order, touched, edits>>

\* Step 7, the third one, and the commit.  The rows it has repriced change under the
\* other checkouts of the cart
TakeStock ==
    LET k == doing.checkout
    IN /\ doing.at = "stock"
       /\ order' = [order EXCEPT ![k] =
              [subtotal |-> doing.subtotal, total |-> doing.subtotal - checkout[k].discount,
               lines |-> doing.copied, taken |-> SumOver([l \in Rows |-> line[l].qty], Rows)]]
       /\ checkout' = [checkout EXCEPT ![k].status = "completed", ![k].subtotal = doing.subtotal]
       /\ line' = [l \in Lines |-> IF l \in doing.repriced THEN [line[l] EXCEPT !.price = doing.now] ELSE line[l]]
       /\ IF doing.repriced = {} THEN UNCHANGED <<touched, fresh>>
          ELSE /\ touched' = touched \cup (Pending \ {k})
               /\ fresh' = [j \in Checkouts |-> [fresh[j] EXCEPT !.clean = FALSE]]
       /\ doing' = NotDoing
       /\ UNCHANGED <<price, shopper, edits>>

\* Stock, credit or a discount refuse it: the transaction leaves nothing
CompletionRefused ==
    /\ doing.at # "none"
    /\ doing' = NotDoing
    /\ UNCHANGED <<line, price, shopper, checkout, fresh, order, touched, edits>>

Next ==
    \/ \E p \in Prices : ChangePrice(p)
    \/ \E s \in Shoppers : FindLine(s) \/ InsertLine(s) \/ AddToLine(s)
    \/ \E l \in Lines, q \in 0..2 : UpdateCartLine(l, q)
    \/ \E k \in Checkouts : CreateCheckout(k) \/ ReadForTotals(k) \/ UpdateCheckout(k) \/ LockCheckout(k)
    \/ RefetchPrices \/ Reprice \/ CopyLines \/ TakeStock \/ CompletionRefused

-----------------------------------------------------------------------------
Completed == {k \in Checkouts : checkout[k].status = "completed"}

\* An order whose cart was left alone since its checkout was totalled is worth its lines
\* and has taken their quantity from stock: over price changes, two lines of one variant,
\* and the other checkouts of the cart.
OrderIsItsLines ==
    \A k \in Completed \ touched :
        /\ order[k].subtotal = SumOver([x \in order[k].lines |-> x.qty * x.price], order[k].lines)
        /\ order[k].taken = SumOver([x \in order[k].lines |-> x.qty], order[k].lines)

\* What does not hold of every order: after a price has fallen the discount of the
\* checkout, computed before, can exceed what the lines cost.
TotalIsNotNegative == \A k \in Completed : order[k].total >= 0

\* Nor is a cart ordered once: a second checkout opened before is completed like the first.
CartOrderedOnce == \A j, k \in Completed : j = k
=============================================================================
