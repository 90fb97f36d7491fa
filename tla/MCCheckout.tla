----------------------------- MODULE MCCheckout -----------------------------
(***************************************************************************)
(* Small shops for Checkout.                                               *)
(***************************************************************************)
EXTENDS Checkout, TLC

CONSTANTS v1, v2, d1, d2, k1, a1, w1, w2

\* Two warehouses stock v1 and one stocks v2.
OneVariantTwoRows == [l \in {1, 2} |-> v1]
OneRow == [l \in {1} |-> v1]
NoRows == [l \in {} |-> v1]

\* d1 may be used once by a customer, d2 once by anybody; both take a cent off.
Coupons == [d \in {d1, d2} |-> [once |-> d = d1, max |-> IF d = d1 THEN 2 ELSE 1,
                               min |-> 0, value |-> 1]]
OneCoupon == [d \in {d2} |-> Coupons[d2]]
NoRules == [d \in {} |-> 0]

CreditOfOne == [k \in {k1} |-> 1]
CreditOfTwo == [k \in {k1} |-> 2]
NoCredit == [k \in {} |-> 0]

SpendOfOne == [a \in {a1} |-> 1]
NoSpend == [a \in {} |-> 0]

\* Handlers are alike, and so are checkouts that do not exist yet.
Alike == Permutations(Workers) \cup Permutations(Checkouts)

NoDeltas == {}
UpAndDown == {-1, 1}
=============================================================================
