------------------------------- MODULE Credit -------------------------------
(***************************************************************************)
(* The credit of one company, the orders that draw it and the quotes that  *)
(* become orders.  Only the completion of a checkout draws credit; every   *)
(* cancellation and every refund of an order of the company gives some     *)
(* back, by a statement of its own on another connection.                  *)
(***************************************************************************)
EXTENDS Sums

CONSTANTS Orders, Quotes, Clerks, Total, Limit, MaxReopens, MaxReturned, None

VARIABLES used,   \* companies.credit_used
          order,  \* an order: its status, what it drew, what was released and refunded
          quote,  \* [st, orders, reopened, holder]: a quote
          clerk   \* acceptQuote between its SELECT FOR UPDATE and its COMMIT

cvars == <<used, order, quote, clerk>>

NoOrder == [st |-> "none", drawn |-> 0, returned |-> 0, refunded |-> 0, refunding |-> FALSE,
            owing |-> FALSE, lost |-> 0]

Init ==
    /\ used = 0
    /\ order = [o \in Orders |-> NoOrder]
    /\ quote = [q \in Quotes |-> [st |-> "draft", orders |-> 0, reopened |-> 0, holder |-> None]]
    /\ clerk = [c \in Clerks |-> None]

\* completeCheckout of a net-terms company, in one transaction
CheckCreditAndConsume(o) ==
    /\ order[o].st = "none" /\ used + Total <= Limit
    /\ used' = used + Total
    /\ order' = [order EXCEPT ![o].st = "open", ![o].drawn = Total]
    /\ UNCHANGED <<quote, clerk>>

-----------------------------------------------------------------------------
Final == {"expired", "converted", "rejected"}

SendQuote(q) ==
    /\ quote[q].holder = None /\ quote[q].st = "draft"
    /\ quote' = [quote EXCEPT ![q].st = "sent"]
    /\ UNCHANGED <<used, order, clerk>>

\* updateQuote writes any status, whatever the quote has become
UpdateQuote(q) ==
    /\ quote[q].holder = None
    /\ \E st \in {"draft", "expired"} \ {quote[q].st} :
          /\ st = "draft" => quote[q].reopened < MaxReopens
          /\ quote' = [quote EXCEPT ![q].st = st, ![q].reopened = IF st = "draft" THEN @ + 1 ELSE @]
    /\ UNCHANGED <<used, order, clerk>>

RejectQuote(q) ==
    /\ quote[q].holder = None /\ quote[q].st \notin {"converted", "rejected"}
    /\ quote' = [quote EXCEPT ![q].st = "rejected"]
    /\ UNCHANGED <<used, order, clerk>>

\* Mutant of ReadQuote: the quote is read without FOR UPDATE.
ReadQuoteUnlocked(c, q) ==
    /\ clerk[c] = None /\ quote[q].st \notin Final
    /\ clerk' = [clerk EXCEPT ![c] = q]
    /\ UNCHANGED <<used, order, quote>>

\* acceptQuote locks the quote and reads its status
ReadQuote(c, q) ==
    /\ clerk[c] = None /\ quote[q].holder = None /\ quote[q].st \notin Final
    /\ clerk' = [clerk EXCEPT ![c] = q]
    /\ quote' = [quote EXCEPT ![q].holder = c]
    /\ UNCHANGED <<used, order>>

\* ... makes the order of its lines, marks it converted and commits
ConvertQuote(c) ==
    LET q == clerk[c]
    IN /\ q # None
       /\ \E o \in {p \in Orders : order[p].st = "none"} : order' = [order EXCEPT ![o].st = "open"]
       /\ quote' = [quote EXCEPT ![q].st = "converted", ![q].orders = @ + 1, ![q].holder = None]
       /\ clerk' = [clerk EXCEPT ![c] = None]
       /\ UNCHANGED used

AcceptFails(c) ==
    /\ clerk[c] # None
    /\ quote' = [quote EXCEPT ![clerk[c]].holder = None]
    /\ clerk' = [clerk EXCEPT ![c] = None]
    /\ UNCHANGED <<used, order>>

-----------------------------------------------------------------------------
\* GREATEST(0, credit_used - amount)
ReleaseCredit(amount) == used' = IF used > amount THEN used - amount ELSE 0

CancelOrder(o) ==
    /\ order[o].st = "open"
    /\ order' = [order EXCEPT ![o].st = "cancelled", ![o].owing = TRUE]
    /\ UNCHANGED <<used, quote, clerk>>

\* cancelOrder, after the UPDATE: the total of an order of a net-terms company
ReleaseOnCancel(o) ==
    /\ order[o].owing
    /\ ReleaseCredit(Total)
    /\ order' = [order EXCEPT ![o].owing = FALSE, ![o].returned = @ + Total]
    /\ UNCHANGED <<quote, clerk>>

\* The release fails, which is logged, or the process dies before it
ReleaseIsLost(o) ==
    /\ order[o].owing
    /\ order' = [order EXCEPT ![o].owing = FALSE, ![o].lost = Total]
    /\ UNCHANGED <<used, quote, clerk>>

\* createRefund of a part: the release commits by itself, before the refund does
RefundReleases(o) ==
    /\ order[o].st # "none" /\ ~order[o].refunding /\ order[o].refunded < Total
    /\ order[o].returned < MaxReturned \* bounds the refunds that fail
    /\ ReleaseCredit(1)
    /\ order' = [order EXCEPT ![o].refunding = TRUE, ![o].returned = @ + 1]
    /\ UNCHANGED <<quote, clerk>>

RefundEnds(o) ==
    /\ order[o].refunding
    /\ \E done \in {0, 1} :
          order' = [order EXCEPT ![o].refunding = FALSE, ![o].refunded = @ + done]
    /\ UNCHANGED <<used, quote, clerk>>

Next ==
    \/ \E o \in Orders : \/ CheckCreditAndConsume(o) \/ CancelOrder(o) \/ ReleaseOnCancel(o)
                         \/ ReleaseIsLost(o) \/ RefundReleases(o) \/ RefundEnds(o)
    \/ \E q \in Quotes : SendQuote(q) \/ UpdateQuote(q) \/ RejectQuote(q)
    \/ \E c \in Clerks : ConvertQuote(c) \/ AcceptFails(c) \/ \E q \in Quotes : ReadQuote(c, q)

-----------------------------------------------------------------------------
\* A quote becomes one order, whoever accepts, rejects or edits it meanwhile; a
\* second one only if an edit has set it back to draft.
QuoteOrderedOnce == \A q \in Quotes : quote[q].orders <= 1 + quote[q].reopened

\* What an order still holds of the credit: all it drew and has not refunded,
\* until it is cancelled and its credit released
Held(o) == IF order[o].st = "open" \/ order[o].owing \/ order[o].lost > 0
           THEN order[o].drawn - (IF order[o].drawn > 0 THEN order[o].refunded ELSE 0) ELSE 0

\* The credit a company has used is never more than its open orders hold, with
\* those whose release is still to come or was lost.
CreditIsReturned == used <= SumOver([o \in Orders |-> Held(o)], Orders)

\* What the head of releaseCredit promises: it reverses what was consumed, once.
ReleasedIsConsumed == \A o \in Orders : order[o].returned <= order[o].drawn
=============================================================================
