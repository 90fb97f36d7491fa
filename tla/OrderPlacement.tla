--------------------------- MODULE OrderPlacement ---------------------------
(***************************************************************************)
(* What completing a checkout promises to the rest of the shop: one atomic *)
(* step that turns a pending checkout into the next order of the store,    *)
(* uses up its discount code, its stock and its company's credit within    *)
(* their limits, and touches nothing else.  There are no transactions,     *)
(* locks or connections here.                                              *)
(***************************************************************************)
EXTENDS Integers, Sequences

CONSTANTS Checkouts, Companies, Codes, NLevels, Rule, CreditLimit, None

VARIABLES status, uses, used, stock, creditUsed, orders

vars == <<status, uses, used, stock, creditUsed, orders>>

Init ==
  /\ status = [ch \in Checkouts |-> "none"]
  /\ uses = [d \in Codes |-> 0]
  /\ used = {}
  /\ stock \in [1 .. NLevels -> Nat]
  /\ creditUsed = [k \in Companies |-> 0]
  /\ orders = <<>>

Open(ch) ==
  /\ status[ch] = "none"
  /\ status' = [status EXCEPT ![ch] = "pending"]
  /\ UNCHANGED <<uses, used, stock, creditUsed, orders>>

\* The warehouse counts one level anew.
Adjust(l) ==
  /\ \E n \in {stock'[l]} : n >= 0 /\ stock' = [stock EXCEPT ![l] = n]
  /\ UNCHANGED <<status, uses, used, creditUsed, orders>>

BurnsWithinCap(o) ==
  IF o.burned = None THEN UNCHANGED <<uses, used>>
  ELSE /\ uses[o.burned] < Rule[o.burned].max
       /\ uses' = [uses EXCEPT ![o.burned] = @ + 1]
       /\ IF Rule[o.burned].once /\ o.customer # None
          THEN /\ <<o.burned, o.customer>> \notin used
               /\ used' = used \cup {<<o.burned, o.customer>>}
          ELSE UNCHANGED used

DrawsCreditWithinLimit(o) ==
  IF o.company = None THEN UNCHANGED creditUsed
  ELSE /\ creditUsed' = [creditUsed EXCEPT ![o.company] = @ + o.credit]
       /\ o.credit # 0 => creditUsed[o.company] + o.credit <= CreditLimit[o.company]

Place(o) ==
  /\ orders' = Append(orders, o)
  /\ o.number = Len(orders) + 1
  /\ status[o.checkout] = "pending"
  /\ status' = [status EXCEPT ![o.checkout] = "completed"]
  /\ BurnsWithinCap(o)
  /\ DrawsCreditWithinLimit(o)
  /\ \A l \in 1 .. NLevels : o.take[l] \in 0 .. stock[l]
  /\ stock' = [l \in 1 .. NLevels |-> stock[l] - o.take[l]]

Next ==
  \/ \E ch \in Checkouts : Open(ch)
  \/ \E l \in 1 .. NLevels : Adjust(l)
  \/ /\ Len(orders') > Len(orders)
     /\ Place(orders'[Len(orders')])

Spec == Init /\ [][Next]_vars
=============================================================================
