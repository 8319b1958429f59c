---------------------------- MODULE CommittedLog ----------------------------
(***************************************************************************)
(* What replication promises about the entries that are committed: they are *)
(* one oplog, which only grows at its end.  Members, elections, rollbacks   *)
(* and crashes do not appear here.                                          *)
(***************************************************************************)
EXTENDS Naturals

CONSTANT OpTimes      \* the optimes, as pairs of a term and a place in the oplog

VARIABLE entries      \* the optimes of the committed entries

\* The entries are those of one oplog, from its first place on: one at each place,
\* and with terms that do not decrease.
IsLog(S) ==
    /\ \A o \in S : 0 < o[2] /\ \A i \in 1 .. o[2] : \E p \in S : p[2] = i
    /\ \A o, p \in S : o[2] <= p[2] => o[1] <= p[1] /\ (o[2] = p[2] => o = p)

Init == entries = {}

\* More entries are committed, all of them behind those that were.
Commit(S) ==
    /\ \A o \in entries, p \in S : o[2] < p[2]
    /\ IsLog(entries \cup S)
    /\ entries' = entries \cup S

Next == \E S \in SUBSET OpTimes : Commit(S)

Spec == Init /\ [][Next]_entries
=============================================================================
