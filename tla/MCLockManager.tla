--------------------------- MODULE MCLockManager ---------------------------
(* Instances of LockManager for TLC: three lockers in two partitions.       *)
EXTENDS LockManager

CONSTANTS l1, l2, l3, p1, p2

MCLockers == {l1, l2, l3}
MCPartitions == {p1, p2}

\* Two lockers share a partition.
MCPartitionOf == [l \in MCLockers |-> IF l = l3 THEN p2 ELSE p1]

\* l1 and l2 are interchangeable.
Symmetry == Permutations({l1, l2})
=============================================================================
