-------------------------------- MODULE Sums --------------------------------
(***************************************************************************)
(* The sum of a natural-valued function over a finite set, as the number   *)
(* of its units.  Counted this way it needs no recursion, so that facts    *)
(* about it follow from facts about cardinality.                           *)
(***************************************************************************)
EXTENDS Integers, FiniteSets

\* f[x] units for each x in S.
Units(S, f) == UNION {{x} \X (1..f[x]) : x \in S}

SumOver(S, f) == Cardinality(Units(S, f))

=============================================================================
