---------------------------- MODULE OrderLedger ----------------------------
(***************************************************************************)
(* What capturing and refunding promise about an order: money comes in up  *)
(* to its total and goes out up to what came in, one step at a time, with  *)
(* the tolerance of one cent that the comparisons allow.                   *)
(***************************************************************************)
EXTENDS Integers

CONSTANTS Orders, Total, Tolerance

VARIABLES captured, refunded

Init ==
  /\ captured = [o \in Orders |-> 0]
  /\ refunded = [o \in Orders |-> 0]

Capture(o) ==
  /\ captured'[o] > captured[o]
  /\ captured'[o] + refunded[o] <= Total[o] + Tolerance
  /\ captured' = [captured EXCEPT ![o] = captured'[o]]
  /\ UNCHANGED refunded

Refund(o) ==
  /\ refunded'[o] > refunded[o]
  /\ refunded'[o] <= captured[o] + Tolerance
  /\ refunded' = [refunded EXCEPT ![o] = refunded'[o]]
  /\ UNCHANGED captured

Next == \E o \in Orders : Capture(o) \/ Refund(o)

Spec == Init /\ [][Next]_<<captured, refunded>>
=============================================================================
