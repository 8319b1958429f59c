----------------------------- MODULE LockModes -----------------------------
(***************************************************************************)
(* The lock modes of the lock manager and the helpers on them               *)
(* (db/concurrency/lock_manager.cpp, lock_manager_defs.h).  A bit mask of   *)
(* modes is the set of the modes whose bit is set.                          *)
(***************************************************************************)

Modes == {"IS", "IX", "S", "X"}

\* MODE_NONE: a request that does not hold the resource, or does not convert.
NoMode == "NONE"

AnyMode == Modes \cup {NoMode}

intentModes == {"IS", "IX"}

LockConflictsTable ==
    [m \in AnyMode |-> CASE m = "IS" -> {"X"}
                         [] m = "IX" -> {"S", "X"}
                         [] m = "S"  -> {"IX", "X"}
                         [] m = "X"  -> {"S", "X", "IS", "IX"}
                         [] m = NoMode -> {}]

conflicts(newMode, existingModes) ==
    LockConflictsTable[newMode] \cap existingModes # {}

\* Everything that conflicts with mode conflicts with coveringMode too.
isModeCovered(mode, coveringMode) ==
    LockConflictsTable[mode] \subseteq LockConflictsTable[coveringMode]
=============================================================================
