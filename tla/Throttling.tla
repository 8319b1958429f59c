----------------------------- MODULE Throttling -----------------------------
(***************************************************************************)
(* The way of an operation to the global lock and back (Lock::GlobalLock in *)
(* d_concurrency.cpp, LockerImpl in lock_state.cpp): parallel batch writer  *)
(* mode (PBWM), a ticket, the global lock; yields, which give all of them   *)
(* up and take them again; the applier of a secondary, whose batch keeps    *)
(* everyone but its own writers out; and TicketHolder::resize.              *)
(*                                                                         *)
(* One TicketHolder is modelled, the one of the writers (MODE_IX): the      *)
(* readers have one of their own, and MODE_X has none.  A step is a call of *)
(* the semaphore, of the lock manager, or an access to _outof.  The lock    *)
(* manager grants as in the module LockManager; PBWM and the global lock    *)
(* are of type RESOURCE_GLOBAL, where a request in MODE_X is first in the   *)
(* queue and everyone who comes later waits behind it.                      *)
(***************************************************************************)
EXTENDS Integers, FiniteSets

CONSTANTS
    Ops,          \* the client operations
    Exclusive,    \* those of them that may ask for the global lock in MODE_X
    Writers,      \* the writer threads of the applier
    MinSize,      \* 5: the smallest number of tickets
    MaxSize,      \* bound on the number of tickets (SEM_VALUE_MAX)
    Timeouts      \* can waits for a ticket and for the global lock time out?

ASSUME ThrottlingAssumption ==
    /\ IsFiniteSet(Ops) /\ Exclusive \subseteq Ops
    /\ IsFiniteSet(Writers) /\ Ops \cap Writers = {}
    /\ MinSize \in Nat \ {0} /\ MaxSize \in Nat /\ MinSize <= MaxSize
    /\ Timeouts \in BOOLEAN

VARIABLES
    pc,           \* where each thread is
    mode,         \* the mode in which it asks for the global lock, or holds it
    pbwm,         \* who holds PBWM in MODE_IS
    yielding,     \* has it yielded, and not got everything back yet?
    applier,      \* the applier: "idle", or it waits for PBWM in MODE_X or has it
    sem, outof,   \* the semaphore of the TicketHolder, and _outof
    resize,       \* where resize is
    newSize       \* its argument

vars == <<pc, mode, pbwm, yielding, applier, sem, outof, resize, newSize>>

Threads == Ops \cup Writers

\* Where a thread is.  It waits for PBWM, for a ticket or for the global lock, it
\* has them all, or it has released the first, the first two of them again.
Places == {"idle", "pbwm", "ticket", "global", "active", "unlocked", "ticketless"}
Sizes == MinSize .. MaxSize

\* Every variable has the type of what it stands for.
TypeOK ==
    /\ pc \in [Threads -> Places] /\ mode \in [Threads -> {"IX", "X"}]
    /\ pbwm \in SUBSET Threads /\ yielding \in [Threads -> BOOLEAN]
    /\ applier \in {"idle", "wait", "batch"}
    /\ sem \in Nat /\ outof \in Sizes
    /\ resize \in {"idle", "run", "grown", "taken"} /\ newSize \in Sizes

Init ==
    /\ pc = [t \in Threads |-> "idle"] /\ mode = [t \in Threads |-> "IX"]
    /\ pbwm = {} /\ yielding = [t \in Threads |-> FALSE]
    /\ applier = "idle" /\ resize = "idle"
    /\ outof \in Sizes /\ sem = outof /\ newSize = outof

-----------------------------------------------------------------------------
(* What the threads hold *)

HasTicket(t) == mode[t] = "IX" /\ pc[t] \in {"global", "active", "unlocked"}
HasGlobal(t) == pc[t] = "active"

Goto(t, place) == pc' = [pc EXCEPT ![t] = place]

\* A mutant: MODE_X waits its turn among those who come later.
CanLockGlobal_NotFirst(t) ==
    \A u \in Threads \ {t} : HasGlobal(u) => mode[t] = "IX" /\ mode[u] = "IX"
\* Does the lock manager grant the global lock to t?
CanLockGlobal(t) ==
    \A u \in Threads \ {t} :
        /\ HasGlobal(u) => mode[t] = "IX" /\ mode[u] = "IX"
        /\ pc[u] = "global" /\ mode[u] = "X" => mode[t] = "X"

-----------------------------------------------------------------------------
(* GlobalLock *)

\* An operation begins: GlobalLock::_enqueue.
Enqueue(t, m) ==
    /\ t \in Ops /\ pc[t] = "idle" /\ (m = "X" => t \in Exclusive)
    /\ Goto(t, "pbwm")
    /\ mode' = [mode EXCEPT ![t] = m]
    /\ UNCHANGED <<pbwm, yielding, applier, sem, outof, resize, newSize>>

\* PBWM is granted in MODE_IS.
LockPbwm(t) ==
    /\ pc[t] = "pbwm" /\ applier = "idle"
    /\ pbwm' = pbwm \cup {t}
    /\ Goto(t, "ticket")
    /\ UNCHANGED <<mode, yielding, applier, sem, outof, resize, newSize>>

\* A mutant: an interrupted wait counts as a ticket.
TakeTicket_Interrupted(t) ==
    /\ pc[t] = "ticket"
    /\ sem' = IF mode[t] = "IX" THEN sem - 1 ELSE sem
    /\ Goto(t, "global")
    /\ UNCHANGED <<mode, pbwm, yielding, applier, outof, resize, newSize>>
\* _lockGlobalBegin: a ticket, unless there is no TicketHolder for the mode.
TakeTicket(t) ==
    /\ pc[t] = "ticket"
    /\ mode[t] = "IX" => sem > 0
    /\ sem' = IF mode[t] = "IX" THEN sem - 1 ELSE sem
    /\ Goto(t, "global")
    /\ UNCHANGED <<mode, pbwm, yielding, applier, outof, resize, newSize>>

\* The global lock is granted, at once or after a wait.
LockGlobal(t) ==
    /\ pc[t] = "global" /\ CanLockGlobal(t)
    /\ Goto(t, "active")
    /\ yielding' = [yielding EXCEPT ![t] = FALSE]
    /\ UNCHANGED <<mode, pbwm, applier, sem, outof, resize, newSize>>

\* waitForTicketUntil returns false.  An operation that yielded waits without a
\* limit (restoreLockState).
TicketTimeout(t) ==
    /\ Timeouts /\ t \in Ops /\ pc[t] = "ticket" /\ mode[t] = "IX" /\ ~yielding[t]
    /\ Goto(t, "ticketless")
    /\ UNCHANGED <<mode, pbwm, yielding, applier, sem, outof, resize, newSize>>

\* A mutant: the ticket is not given back.
AfterLockTimeout_KeepsTicket(t) == "ticketless"
\* lockComplete calls _unlockImpl, which gives the ticket back.
AfterLockTimeout(t) == "unlocked"

\* lockGlobalComplete times out.
LockTimeout(t) ==
    /\ Timeouts /\ t \in Ops /\ pc[t] = "global" /\ ~yielding[t]
    /\ Goto(t, AfterLockTimeout(t))
    /\ UNCHANGED <<mode, pbwm, yielding, applier, sem, outof, resize, newSize>>

\* The global lock is released: by unlockGlobal, when the operation is over, or by
\* saveLockStateAndUnlock, when it yields (which the writers do not).
UnlockGlobal(t, y) ==
    /\ pc[t] = "active" /\ (y => t \in Ops)
    /\ Goto(t, "unlocked")
    /\ yielding' = [yielding EXCEPT ![t] = y]
    /\ UNCHANGED <<mode, pbwm, applier, sem, outof, resize, newSize>>

\* _unlockImpl: the ticket goes back to the TicketHolder it is from.
ReleaseTicket(t) ==
    /\ pc[t] = "unlocked"
    /\ sem' = IF mode[t] = "IX" THEN sem + 1 ELSE sem
    /\ Goto(t, "ticketless")
    /\ UNCHANGED <<mode, pbwm, yielding, applier, outof, resize, newSize>>

\* A mutant: a yield does not take PBWM again.
Restart_WithoutPbwm(t) == "ticket"
\* restoreLockState: PBWM first.
Restart(t) == "pbwm"

\* PBWM is released last.
UnlockPbwm(t) ==
    /\ pc[t] = "ticketless"
    /\ Goto(t, IF yielding[t] THEN Restart(t) ELSE "idle")
    /\ pbwm' = pbwm \ {t}
    /\ UNCHANGED <<mode, yielding, applier, sem, outof, resize, newSize>>

-----------------------------------------------------------------------------
(* SyncTail::multiApply *)

\* The applier has a batch and asks for PBWM in MODE_X.
BatchBegin ==
    /\ applier = "idle"
    /\ applier' = "wait"
    /\ UNCHANGED <<pc, mode, pbwm, yielding, sem, outof, resize, newSize>>

\* A mutant: the writers of the applier take PBWM too.
WriterStart_Pbwm == "pbwm"
\* The writers do not conflict with the batch.
WriterStart == "ticket"

\* PBWM is granted and the writers start.
BatchStart ==
    /\ applier = "wait" /\ pbwm = {}
    /\ applier' = "batch"
    /\ pc' = [t \in Threads |-> IF t \in Writers THEN WriterStart ELSE pc[t]]
    /\ mode' = [t \in Threads |-> IF t \in Writers THEN "IX" ELSE mode[t]]
    /\ UNCHANGED <<pbwm, yielding, sem, outof, resize, newSize>>

\* All writers are done: PBWM is released.
BatchEnd ==
    /\ applier = "batch" /\ \A t \in Writers : pc[t] = "idle"
    /\ applier' = "idle"
    /\ UNCHANGED <<pc, mode, pbwm, yielding, sem, outof, resize, newSize>>

-----------------------------------------------------------------------------
(* TicketHolder::resize, with _resizeMutex held *)

ResizeBegin(n) ==
    /\ resize = "idle" /\ n # outof
    /\ resize' = "run" /\ newSize' = n
    /\ UNCHANGED <<pc, mode, pbwm, yielding, applier, sem, outof>>

GrowRelease ==
    /\ resize = "run" /\ outof < newSize
    /\ sem' = sem + 1 /\ resize' = "grown"
    /\ UNCHANGED <<pc, mode, pbwm, yielding, applier, outof, newSize>>

GrowCount ==
    /\ resize = "grown"
    /\ outof' = outof + 1 /\ resize' = "run"
    /\ UNCHANGED <<pc, mode, pbwm, yielding, applier, sem, newSize>>

ShrinkWait ==
    /\ resize = "run" /\ outof > newSize /\ sem > 0
    /\ sem' = sem - 1 /\ resize' = "taken"
    /\ UNCHANGED <<pc, mode, pbwm, yielding, applier, outof, newSize>>

ShrinkCount ==
    /\ resize = "taken"
    /\ outof' = outof - 1 /\ resize' = "run"
    /\ UNCHANGED <<pc, mode, pbwm, yielding, applier, sem, newSize>>

ResizeEnd ==
    /\ resize = "run" /\ outof = newSize
    /\ resize' = "idle"
    /\ UNCHANGED <<pc, mode, pbwm, yielding, applier, sem, outof, newSize>>

-----------------------------------------------------------------------------

Next ==
    \/ \E t \in Threads :
           \/ \E m \in {"IX", "X"} : Enqueue(t, m)
           \/ \E y \in BOOLEAN : UnlockGlobal(t, y)
           \/ LockPbwm(t) \/ TakeTicket(t) \/ LockGlobal(t) \/ TicketTimeout(t)
           \/ LockTimeout(t) \/ ReleaseTicket(t) \/ UnlockPbwm(t)
    \/ BatchBegin \/ BatchStart \/ BatchEnd
    \/ \E n \in Sizes : ResizeBegin(n)
    \/ GrowRelease \/ GrowCount \/ ShrinkWait \/ ShrinkCount \/ ResizeEnd

Spec == Init /\ [][Next]_vars

\* The next step of a thread, of the applier and of resize.
Proceed(t) ==
    \/ LockPbwm(t) \/ TakeTicket(t) \/ LockGlobal(t)
    \/ UnlockGlobal(t, FALSE) \/ ReleaseTicket(t) \/ UnlockPbwm(t)
Apply == BatchStart \/ BatchEnd
Resize == GrowRelease \/ GrowCount \/ ShrinkWait \/ ShrinkCount \/ ResizeEnd

\* Threads run, and operations end.  Who waits for a lock or for the semaphore
\* gets it if it is there for him again and again.
Fairness ==
    /\ \A t \in Threads : SF_vars(Proceed(t))
    /\ WF_vars(Apply) /\ SF_vars(Resize)

FairSpec == Spec /\ Fairness

-----------------------------------------------------------------------------
(* Properties *)

\* No ticket is lost or made up, however waits end and whatever resize does:
\* those in the semaphore and those that threads have make up _outof.
TicketsConserved ==
    sem + Cardinality({t \in Threads : HasTicket(t)})
        = outof + (IF resize = "grown" THEN 1 ELSE 0)
                - (IF resize = "taken" THEN 1 ELSE 0)

\* Nobody but the writers of the applier has the global lock while a batch is
\* applied: no reader sees a part of it.
BatchIsolated == applier = "batch" => \A t \in Ops : ~HasGlobal(t)

\* Every operation that asks for the global lock gets it, or gives up.  This
\* needs that at most one of the others asks in MODE_X: such requests go to the
\* front of the queue, and two of them that take turns starve everyone else.
OpsServed ==
    \A t \in Ops : Cardinality(Exclusive \ {t}) <= 1
        => (pc[t] = "pbwm" ~> pc[t] \in {"active", "idle"})

\* Every batch is applied, although operations hold PBWM while they wait for
\* tickets and the writers of the batch need tickets too; and resize returns,
\* although it takes the tickets away from under the operations.
WaitsEnd ==
    /\ applier = "wait" ~> applier = "idle"
    /\ resize = "run" ~> resize = "idle"
=============================================================================
