---------------------------- MODULE CheckoutLinks ----------------------------
(***************************************************************************)
(* Shareable checkout links.  A start builds a cart and a checkout and     *)
(* stamps the checkout on the link, over the stamp of an earlier start;    *)
(* the webhook of a paid checkout completes the link that carries its id.  *)
(***************************************************************************)
EXTENDS FiniteSets

CONSTANTS Links, Checkouts, Starts, None

VARIABLES link,     \* [status, due, stamp]: a row of checkout_links
          checkout, \* [link, status]: a checkout a start has built
          start,    \* [at, link, checkout]: a call of startCheckoutFromLink
          marks     \* checkouts whose markLinkCompletedByCheckout is under way

lvars == <<link, checkout, start, marks>>

Init ==
    /\ link = [l \in Links |-> [status |-> "none", due |-> FALSE, stamp |-> None]]
    /\ checkout = [k \in Checkouts |-> [link |-> None, status |-> "none"]]
    /\ start = [s \in Starts |-> [at |-> "ready", link |-> None, checkout |-> None]]
    /\ marks = {}

Open(l) == link[l].status = "open"

CreateCheckoutLink(l) ==
    /\ link[l].status = "none"
    /\ link' = [link EXCEPT ![l].status = "open"]
    /\ UNCHANGED <<checkout, start, marks>>

VoidCheckoutLink(l) ==
    /\ Open(l)
    /\ link' = [link EXCEPT ![l].status = "void"]
    /\ UNCHANGED <<checkout, start, marks>>

PassesItsDate(l) ==
    /\ link[l].status # "none" /\ ~link[l].due
    /\ link' = [link EXCEPT ![l].due = TRUE]
    /\ UNCHANGED <<checkout, start, marks>>

\* loadByToken on the hosted page, which turns an open link past its date expired
ResolveCheckoutLink(l) ==
    /\ Open(l) /\ link[l].due
    /\ link' = [link EXCEPT ![l].status = "expired"]
    /\ UNCHANGED <<checkout, start, marks>>

LoadByToken(s, l) ==
    /\ start[s].at = "ready" /\ Open(l)
    /\ IF link[l].due
       THEN link' = [link EXCEPT ![l].status = "expired"] /\ UNCHANGED start
       ELSE start' = [start EXCEPT ![s] = [at |-> "build", link |-> l, checkout |-> None]] /\ UNCHANGED link
    /\ UNCHANGED <<checkout, marks>>

BuildCheckout(s, k) ==
    /\ start[s].at = "build" /\ checkout[k].status = "none"
    /\ checkout' = [checkout EXCEPT ![k] = [link |-> start[s].link, status |-> "pending"]]
    /\ start' = [start EXCEPT ![s].at = "stamp", ![s].checkout = k]
    /\ UNCHANGED <<link, marks>>

\* A line of the snapshot is no longer sold, or a statement fails
StartFails(s) ==
    /\ start[s].at \in {"build", "stamp"}
    /\ start' = [start EXCEPT ![s] = [at |-> "ready", link |-> None, checkout |-> None]]
    /\ UNCHANGED <<link, checkout, marks>>

StampLink(s) ==
    LET l == start[s].link
    IN /\ start[s].at = "stamp"
       /\ link' = [link EXCEPT ![l].stamp = IF Open(l) THEN start[s].checkout ELSE @]
       /\ start' = [start EXCEPT ![s] = [at |-> "ready", link |-> None, checkout |-> None]]
       /\ UNCHANGED <<checkout, marks>>

\* recordPaymentSuccess commits the paid order and goes on without waiting
PaidByWebhook(k) ==
    /\ checkout[k].status \in {"pending", "ordered"}
    /\ checkout' = [checkout EXCEPT ![k].status = "paid"]
    /\ marks' = marks \cup {k}
    /\ UNCHANGED <<link, start>>

\* The storefront completes the checkout itself, and marks nothing
StorefrontComplete(k) ==
    /\ checkout[k].status = "pending"
    /\ checkout' = [checkout EXCEPT ![k].status = "ordered"]
    /\ UNCHANGED <<link, start, marks>>

MarkLinkCompletedByCheckout(k) ==
    /\ k \in marks
    /\ link' = [l \in Links |-> IF Open(l) /\ link[l].stamp = k
                                THEN [link[l] EXCEPT !.status = "completed"] ELSE link[l]]
    /\ marks' = marks \ {k}
    /\ UNCHANGED <<checkout, start>>

\* Its error is swallowed
MarkIsLost(k) == k \in marks /\ marks' = marks \ {k} /\ UNCHANGED <<link, checkout, start>>

Next ==
    \/ \E l \in Links : CreateCheckoutLink(l) \/ VoidCheckoutLink(l) \/ PassesItsDate(l) \/ ResolveCheckoutLink(l)
    \/ \E s \in Starts :
           \/ StartFails(s) \/ StampLink(s)
           \/ \E l \in Links : LoadByToken(s, l)
           \/ \E k \in Checkouts : BuildCheckout(s, k)
    \/ \E k \in Checkouts :
           PaidByWebhook(k) \/ StorefrontComplete(k) \/ MarkLinkCompletedByCheckout(k) \/ MarkIsLost(k)

-----------------------------------------------------------------------------
\* A link is completed by the payment of its own checkout: the one it carries is a
\* paid checkout built from it, however starts, voids and expiries interleave with it.
CompletedIsPaid ==
    \A l \in Links : link[l].status = "completed" =>
        link[l].stamp # None /\ checkout[link[l].stamp] = [link |-> l, status |-> "paid"]

\* What the comment of startCheckoutFromLink promises, and what does not hold: a
\* second start takes the stamp, and the storefront never marks the link.
PaidIsCompleted ==
    \A k \in Checkouts : checkout[k].status = "paid" /\ k \notin marks
        => link[checkout[k].link].status # "open"
=============================================================================
