-------------------------------- MODULE Order -------------------------------
(***************************************************************************)
(* The members of a finite set of numbers in ascending order: what a loop  *)
(* over the numbers that keeps some of them collects.                      *)
(***************************************************************************)
EXTENDS Integers, FiniteSets

InOrder(S) ==
    [n \in 1 .. Cardinality(S) |-> CHOOSE k \in S : Cardinality({j \in S : j <= k}) = n]
=============================================================================
