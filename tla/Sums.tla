-------------------------------- MODULE Sums --------------------------------
(***************************************************************************)
(* Sums of integers over a finite set of keys.                             *)
(*                                                                         *)
(* The code adds amounts up in SQL aggregates (SUM) and in loops over the  *)
(* rows of a query.  A sum is written here as the size of a set with one   *)
(* element per unit, and not as a fold: the facts about finite sets and    *)
(* their cardinalities then apply to it, and a module that adds amounts    *)
(* up stays within reach of the provers.                                   *)
(***************************************************************************)
EXTENDS Integers, FiniteSets

\* One element for every unit of every key of S with a positive value.
Units(f, S) == UNION {{x} \X (1 .. f[x]) : x \in S}

\* The sum of f[x] over the keys x of S.
SumOver(f, S) ==
  Cardinality(Units(f, S)) - Cardinality(Units([x \in S |-> -f[x]], S))

\* What the cart or order lines with quantities q cost at prices p.
Amount(q, p) == SumOver([v \in DOMAIN q |-> q[v] * p[v]], DOMAIN q)

Lesser(a, b) == IF a <= b THEN a ELSE b
Greater(a, b) == IF a <= b THEN b ELSE a
=============================================================================
