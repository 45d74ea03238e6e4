------------------------------- MODULE Lists -------------------------------
(***************************************************************************)
(* What a list has at some of its places, in its order.  The loops of the  *)
(* code that copy the entries to keep, and LREM, which removes a value.    *)
(***************************************************************************)
EXTENDS Integers, Sequences, FiniteSets

\* The kth of these places.
Nth(places, k) == CHOOSE i \in places : Cardinality({j \in places : j < i}) = k - 1

At(list, places) == [k \in 1..Cardinality(places) |-> list[Nth(places, k)]]
=============================================================================
