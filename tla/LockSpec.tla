------------------------------ MODULE LockSpec ------------------------------
(***************************************************************************)
(* What the lock manager promises about one resource: each locker holds it  *)
(* in at most one mode, and a mode is taken, or changed into another one,   *)
(* only while it conflicts with no mode that another locker holds.  Queues, *)
(* partitions, mutexes and the order of grants do not appear here.          *)
(***************************************************************************)
EXTENDS LockModes

CONSTANT Lockers

VARIABLE held

CompatibleWithOthers(l, m) ==
    \A k \in Lockers \ {l} : ~conflicts(m, {held[k]})

Init == held = [l \in Lockers |-> NoMode]

Acquire(l, m) ==
    /\ held[l] = NoMode
    /\ CompatibleWithOthers(l, m)
    /\ held' = [held EXCEPT ![l] = m]

\* A granted conversion, and a downgrade.
ChangeMode(l, m) ==
    /\ held[l] # NoMode
    /\ CompatibleWithOthers(l, m)
    /\ held' = [held EXCEPT ![l] = m]

Release(l) ==
    /\ held[l] # NoMode
    /\ held' = [held EXCEPT ![l] = NoMode]

Next ==
    \E l \in Lockers :
        \/ \E m \in Modes : Acquire(l, m) \/ ChangeMode(l, m)
        \/ Release(l)

Spec == Init /\ [][Next]_held
=============================================================================
