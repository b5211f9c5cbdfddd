-------------------------- MODULE MCJobRepository ---------------------------
(* Small instances of JobRepository for TLC.                               *)
EXTENDS JobRepository, TLC

CONSTANTS d1, d2, ra, rb, rp

\* Two completers that bring one result, or two; the prepared one is another.
SameOrDifferent == {d1 :> ra @@ d2 :> r : r \in {ra, rb}}

=============================================================================
