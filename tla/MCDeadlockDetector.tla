------------------------ MODULE MCDeadlockDetector ------------------------
(* An instance of DeadlockDetector for TLC: five lockers and two resources.  *)
(* Two lockers ask for both resources, one of them in a mode that they       *)
(* upgrade; the others ask for the flush lock only, each in another mode, so *)
(* that one of them can let a request overtake another.                      *)
EXTENDS DeadlockDetector, TLC

CONSTANTS l1, l2, l3, l4, l5, flush, other

MCLockers == {l1, l2, l3, l4, l5}
MCResources == {flush, other}

Upgraders == {l1, l2}
FlushModes(l) == CASE l = l3 -> {"X"} [] l = l4 -> {"S"} [] l = l5 -> {"IX"}
                   [] OTHER -> {"IS"}
MCRequestModes ==
    [l \in MCLockers |-> [r \in MCResources |->
        IF r = flush THEN FlushModes(l)
        ELSE IF l \in Upgraders THEN {"S", "X"} ELSE {}]]

\* The two lockers that ask for the same are interchangeable.
Symmetry == Permutations(Upgraders)
=============================================================================
