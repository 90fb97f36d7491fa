----------------------------- MODULE MCPayments -----------------------------
(***************************************************************************)
(* Small shops for Payments.                                               *)
(***************************************************************************)
EXTENDS Payments, TLC

TotalOfTwo == [o \in Orders |-> 2]
TotalOfThree == [o \in Orders |-> 3]

Alike == Permutations(Handlers)
=============================================================================
