--------------------------- MODULE MCRangeDeleter ---------------------------
(* An instance of RangeDeleter for TLC: one range and two queries. *)
EXTENDS RangeDeleter, TLC

CONSTANTS r1, q1, q2

\* Queries are interchangeable.
MCSymmetry == Permutations(Queries)
=============================================================================
