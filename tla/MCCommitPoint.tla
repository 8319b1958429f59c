--------------------------- MODULE MCCommitPoint ---------------------------
(* Instances of CommitPoint for TLC: the members are model values. *)
EXTENDS CommitPoint, TLC

Symmetry == Permutations(Nodes)

\* What is explored: entries that are not durable, and crashes, up to the second
\* term and without clients; clients and the third term without those, clients
\* only on members that have reached the third term once there is one.
Explored ==
    \/ /\ crashes = 0
       /\ \A n \in Nodes : durable[n] = Len(log[n])
       /\ \A n, k \in Nodes : waiting[n] # {} /\ term[k] = 3 => term[n] = 3
    \/ \A n \in Nodes : term[n] <= 2 /\ waiting[n] = {}
=============================================================================
