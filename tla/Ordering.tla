------------------------------ MODULE Ordering ------------------------------
(***************************************************************************)
(* The sorted sequence of a finite set, by the number of members before    *)
(* each: what Array.prototype.sort leaves of an array.                     *)
(***************************************************************************)
EXTENDS Integers, FiniteSets

\* `before` is a set of pairs, a strict total order on S.
Rank(x, S, before) == Cardinality({y \in S : <<y, x>> \in before})

InOrder(S, before) == [k \in 1 .. Cardinality(S) |-> CHOOSE x \in S : Rank(x, S, before) = k - 1]

IsTotalOrder(S, before) ==
    /\ \A x \in S : <<x, x>> \notin before
    /\ \A x, y \in S : x = y \/ <<x, y>> \in before \/ <<y, x>> \in before
    /\ \A x, y, z \in S : <<x, y>> \in before /\ <<y, z>> \in before => <<x, z>> \in before
=============================================================================
