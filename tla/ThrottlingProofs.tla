-------------------------- MODULE ThrottlingProofs --------------------------
(***************************************************************************)
(* Proofs about the module Throttling, for every set of operations and     *)
(* writers and every size of the TicketHolder: no ticket is lost or made   *)
(* up, and nobody but its own writers has the global lock while a batch is *)
(* applied.                                                                *)
(***************************************************************************)
EXTENDS Throttling, FiniteSetTheorems, TLAPS

USE ThrottlingAssumption DEF vars

Holders == {t \in Threads : HasTicket(t)}

\* An operation that got past PBWM has it, and a batch has it alone.
PbwmInv ==
    /\ \A t \in Ops : pc[t] \notin {"idle", "pbwm"} => t \in pbwm
    /\ applier = "batch" => pbwm = {}

\* The writers rest between batches.
WriterInv == applier # "batch" => \A t \in Writers : pc[t] = "idle"

\* resize has a ticket to count.
ResizeInv ==
    /\ resize = "grown" => outof < newSize
    /\ resize = "taken" => outof > newSize

IInv == TypeOK /\ PbwmInv /\ WriterInv /\ ResizeInv /\ TicketsConserved

USE DEF Sizes, Places, Threads

-----------------------------------------------------------------------------
(* Counting those who have tickets *)

LEMMA HoldersFinite == IsFiniteSet(Holders) /\ IsFiniteSet(Holders)'
<1>1. IsFiniteSet(Ops \cup Writers)
  BY FS_Union
<1>2. Holders \in SUBSET (Ops \cup Writers) /\ Holders' \in SUBSET (Ops \cup Writers)
  BY DEF Holders
<1> QED BY <1>1, <1>2, FS_Subset

LEMMA HoldersSame ==
    ASSUME Holders' = Holders, TicketsConserved,
           sem' = sem, outof' = outof, resize' = resize
    PROVE  TicketsConserved'
BY DEF TicketsConserved, Holders

-----------------------------------------------------------------------------
(* Each action preserves the invariant. *)

LEMMA EnqueueInv ==
    ASSUME NEW t \in Threads, NEW m \in {"IX", "X"}, IInv, Enqueue(t, m)
    PROVE  IInv'
<1>1. TypeOK'
  BY DEF IInv, TypeOK, Enqueue, Goto
<1>2. Holders' = Holders
  BY DEF IInv, TypeOK, Enqueue, Goto, Holders, HasTicket
<1>3. PbwmInv' /\ WriterInv' /\ ResizeInv'
  BY DEF IInv, TypeOK, Enqueue, Goto, PbwmInv, WriterInv, ResizeInv
<1> QED BY <1>1, <1>2, <1>3, HoldersSame DEF IInv, Enqueue

LEMMA LockPbwmInv ==
    ASSUME NEW t \in Threads, IInv, LockPbwm(t)
    PROVE  IInv'
<1>1. TypeOK'
  BY DEF IInv, TypeOK, LockPbwm, Goto
<1>2. Holders' = Holders
  BY DEF IInv, TypeOK, LockPbwm, Goto, Holders, HasTicket
<1>3. PbwmInv' /\ WriterInv' /\ ResizeInv'
  BY DEF IInv, TypeOK, LockPbwm, Goto, PbwmInv, WriterInv, ResizeInv
<1> QED BY <1>1, <1>2, <1>3, HoldersSame DEF IInv, LockPbwm

LEMMA TakeTicketInv ==
    ASSUME NEW t \in Threads, IInv, TakeTicket(t)
    PROVE  IInv'
<1>1. TypeOK'
  BY DEF IInv, TypeOK, TakeTicket, Goto
<1>2. PbwmInv' /\ WriterInv' /\ ResizeInv'
  BY DEF IInv, TypeOK, TakeTicket, Goto, PbwmInv, WriterInv, ResizeInv
<1>3. CASE mode[t] = "IX"
  <2>1. t \notin Holders /\ Holders' = Holders \cup {t}
    BY <1>3 DEF IInv, TypeOK, TakeTicket, Goto, Holders, HasTicket
  <2>2. Cardinality(Holders)' = Cardinality(Holders) + 1
    BY <2>1, HoldersFinite, FS_AddElement
  <2>3. Cardinality(Holders) \in Nat
    BY HoldersFinite, FS_CardinalityType
  <2>4. TicketsConserved'
    BY <1>3, <2>2, <2>3 DEF IInv, TypeOK, TakeTicket, TicketsConserved, Holders
  <2> QED BY <1>1, <1>2, <2>4 DEF IInv
<1>4. CASE mode[t] # "IX"
  <2>1. Holders' = Holders
    BY <1>4 DEF IInv, TypeOK, TakeTicket, Goto, Holders, HasTicket
  <2> QED BY <1>1, <1>2, <1>4, <2>1, HoldersSame DEF IInv, TakeTicket
<1> QED BY <1>3, <1>4

LEMMA LockGlobalInv ==
    ASSUME NEW t \in Threads, IInv, LockGlobal(t)
    PROVE  IInv'
<1>1. TypeOK'
  BY DEF IInv, TypeOK, LockGlobal, Goto
<1>2. Holders' = Holders
  BY DEF IInv, TypeOK, LockGlobal, Goto, Holders, HasTicket
<1>3. PbwmInv' /\ WriterInv' /\ ResizeInv'
  BY DEF IInv, TypeOK, LockGlobal, Goto, PbwmInv, WriterInv, ResizeInv
<1> QED BY <1>1, <1>2, <1>3, HoldersSame DEF IInv, LockGlobal

LEMMA TicketTimeoutInv ==
    ASSUME NEW t \in Threads, IInv, TicketTimeout(t)
    PROVE  IInv'
<1>1. TypeOK'
  BY DEF IInv, TypeOK, TicketTimeout, Goto
<1>2. Holders' = Holders
  BY DEF IInv, TypeOK, TicketTimeout, Goto, Holders, HasTicket
<1>3. PbwmInv' /\ WriterInv' /\ ResizeInv'
  BY DEF IInv, TypeOK, TicketTimeout, Goto, PbwmInv, WriterInv, ResizeInv
<1> QED BY <1>1, <1>2, <1>3, HoldersSame DEF IInv, TicketTimeout

LEMMA LockTimeoutInv ==
    ASSUME NEW t \in Threads, IInv, LockTimeout(t)
    PROVE  IInv'
<1>1. TypeOK'
  BY DEF IInv, TypeOK, LockTimeout, Goto, AfterLockTimeout
<1>2. Holders' = Holders
  BY DEF IInv, TypeOK, LockTimeout, Goto, AfterLockTimeout, Holders, HasTicket
<1>3. PbwmInv' /\ WriterInv' /\ ResizeInv'
  BY DEF IInv, TypeOK, LockTimeout, Goto, AfterLockTimeout, PbwmInv, WriterInv,
         ResizeInv
<1> QED BY <1>1, <1>2, <1>3, HoldersSame DEF IInv, LockTimeout

LEMMA UnlockGlobalInv ==
    ASSUME NEW t \in Threads, NEW y \in BOOLEAN, IInv, UnlockGlobal(t, y)
    PROVE  IInv'
<1>1. TypeOK'
  BY DEF IInv, TypeOK, UnlockGlobal, Goto
<1>2. Holders' = Holders
  BY DEF IInv, TypeOK, UnlockGlobal, Goto, Holders, HasTicket
<1>3. PbwmInv' /\ WriterInv' /\ ResizeInv'
  BY DEF IInv, TypeOK, UnlockGlobal, Goto, PbwmInv, WriterInv, ResizeInv
<1> QED BY <1>1, <1>2, <1>3, HoldersSame DEF IInv, UnlockGlobal

LEMMA ReleaseTicketInv ==
    ASSUME NEW t \in Threads, IInv, ReleaseTicket(t)
    PROVE  IInv'
<1>1. TypeOK'
  BY DEF IInv, TypeOK, ReleaseTicket, Goto
<1>2. PbwmInv' /\ WriterInv' /\ ResizeInv'
  BY DEF IInv, TypeOK, ReleaseTicket, Goto, PbwmInv, WriterInv, ResizeInv
<1>3. CASE mode[t] = "IX"
  <2>1. t \in Holders /\ Holders' = Holders \ {t}
    BY <1>3 DEF IInv, TypeOK, ReleaseTicket, Goto, Holders, HasTicket
  <2>2. Cardinality(Holders)' = Cardinality(Holders) - 1
    BY <2>1, HoldersFinite, FS_RemoveElement
  <2>3. Cardinality(Holders) \in Nat
    BY HoldersFinite, FS_CardinalityType
  <2>4. TicketsConserved'
    BY <1>3, <2>2, <2>3 DEF IInv, TypeOK, ReleaseTicket, TicketsConserved, Holders
  <2> QED BY <1>1, <1>2, <2>4 DEF IInv
<1>4. CASE mode[t] # "IX"
  <2>1. Holders' = Holders
    BY <1>4 DEF IInv, TypeOK, ReleaseTicket, Goto, Holders, HasTicket
  <2> QED BY <1>1, <1>2, <1>4, <2>1, HoldersSame DEF IInv, ReleaseTicket
<1> QED BY <1>3, <1>4

LEMMA UnlockPbwmInv ==
    ASSUME NEW t \in Threads, IInv, UnlockPbwm(t)
    PROVE  IInv'
<1>1. TypeOK'
  BY DEF IInv, TypeOK, UnlockPbwm, Goto, Restart
<1>2. Holders' = Holders
  BY DEF IInv, TypeOK, UnlockPbwm, Goto, Restart, Holders, HasTicket
<1>3. PbwmInv' /\ WriterInv' /\ ResizeInv'
  BY DEF IInv, TypeOK, UnlockPbwm, Goto, Restart, PbwmInv, WriterInv, ResizeInv
<1> QED BY <1>1, <1>2, <1>3, HoldersSame DEF IInv, UnlockPbwm

LEMMA BatchInv ==
    ASSUME IInv, BatchBegin \/ BatchStart \/ BatchEnd
    PROVE  IInv'
<1>1. CASE BatchStart
  <2>1. TypeOK'
    BY <1>1 DEF IInv, TypeOK, BatchStart, WriterStart
  <2>2. Holders' = Holders
    BY <1>1 DEF IInv, TypeOK, WriterInv, BatchStart, WriterStart, Holders, HasTicket
  <2>3. PbwmInv' /\ WriterInv' /\ ResizeInv'
    BY <1>1 DEF IInv, TypeOK, BatchStart, WriterStart, PbwmInv, WriterInv, ResizeInv
  <2> QED BY <1>1, <2>1, <2>2, <2>3, HoldersSame DEF IInv, BatchStart
<1>2. CASE BatchBegin \/ BatchEnd
  <2>1. TypeOK' /\ PbwmInv' /\ WriterInv' /\ ResizeInv'
    BY <1>2 DEF IInv, TypeOK, BatchBegin, BatchEnd, PbwmInv, WriterInv, ResizeInv
  <2>2. Holders' = Holders
    BY <1>2 DEF BatchBegin, BatchEnd, Holders, HasTicket
  <2> QED BY <1>2, <2>1, <2>2, HoldersSame DEF IInv, BatchBegin, BatchEnd
<1> QED BY <1>1, <1>2

LEMMA ResizeStepInv ==
    ASSUME IInv, (\E n \in Sizes : ResizeBegin(n)) \/ Resize
    PROVE  IInv'
<1>1. PICK n \in Sizes : ResizeBegin(n) \/ Resize
  BY DEF IInv, TypeOK
<1> USE <1>1 DEF Resize, ResizeBegin, GrowRelease, GrowCount, ShrinkWait, ShrinkCount,
        ResizeEnd
<1>2. TypeOK' /\ ResizeInv'
  BY DEF IInv, TypeOK, ResizeInv
<1>3. PbwmInv' /\ WriterInv'
  BY DEF IInv, PbwmInv, WriterInv
<1>4. Holders' = Holders
  BY DEF Holders, HasTicket
<1>5. Cardinality(Holders) \in Nat
  BY HoldersFinite, FS_CardinalityType
<1>6. TicketsConserved'
  <2> DEFINE diff == (IF resize = "grown" THEN 1 ELSE 0) - (IF resize = "taken" THEN 1 ELSE 0)
             count == Cardinality(Holders)
  <2>1. sem \in Nat /\ outof \in Nat /\ sem + count = outof + diff
    BY <1>5 DEF IInv, TypeOK, TicketsConserved, Holders
  <2>2. count' = count
    BY <1>4
  <2>3. sem' - outof' - diff' = sem - outof - diff
    BY <2>1 DEF IInv, TypeOK
  <2>4. sem' \in Nat /\ outof' \in Nat
    BY <1>2 DEF TypeOK
  <2>5. sem' + count' = outof' + diff'
    BY <1>5, <2>1, <2>2, <2>3, <2>4
  <2> QED BY <2>4, <2>5, <1>5, <2>2 DEF TicketsConserved, Holders
<1> QED BY <1>2, <1>3, <1>6 DEF IInv

LEMMA InitInv == Init => IInv
<1> SUFFICES ASSUME Init PROVE IInv
  OBVIOUS
<1>1. TypeOK /\ PbwmInv /\ WriterInv /\ ResizeInv
  BY DEF Init, TypeOK, PbwmInv, WriterInv, ResizeInv
<1>2. Holders = {}
  BY DEF Init, Holders, HasTicket
<1>3. TicketsConserved
  BY <1>1, <1>2, FS_EmptySet DEF Init, TypeOK, TicketsConserved, Holders
<1> QED BY <1>1, <1>3 DEF IInv

LEMMA StepInv == IInv /\ [Next]_vars => IInv'
<1> SUFFICES ASSUME IInv, [Next]_vars PROVE IInv'
  OBVIOUS
<1>1. ASSUME NEW t \in Threads,
             \/ \E m \in {"IX", "X"} : Enqueue(t, m)
             \/ \E y \in BOOLEAN : UnlockGlobal(t, y)
             \/ LockPbwm(t) \/ TakeTicket(t) \/ LockGlobal(t) \/ TicketTimeout(t)
             \/ LockTimeout(t) \/ ReleaseTicket(t) \/ UnlockPbwm(t)
      PROVE  IInv'
  BY <1>1, EnqueueInv, UnlockGlobalInv, LockPbwmInv, TakeTicketInv, LockGlobalInv,
     TicketTimeoutInv, LockTimeoutInv, ReleaseTicketInv, UnlockPbwmInv
<1>2. CASE BatchBegin \/ BatchStart \/ BatchEnd
  BY <1>2, BatchInv
<1>3. CASE (\E n \in Sizes : ResizeBegin(n)) \/ Resize
  BY <1>3, ResizeStepInv
<1>4. CASE UNCHANGED vars
  <2>1. Holders' = Holders
    BY <1>4 DEF Holders, HasTicket
  <2>2. TypeOK' /\ PbwmInv' /\ WriterInv' /\ ResizeInv'
    BY <1>4 DEF IInv, TypeOK, PbwmInv, WriterInv, ResizeInv
  <2> QED BY <1>4, <2>1, <2>2, HoldersSame DEF IInv
<1> QED BY <1>1, <1>2, <1>3, <1>4 DEF Next, Resize

\* The inductive invariant holds: PBWM, the tickets and resize agree with where the
\* threads are.
THEOREM Invariance == Spec => []IInv
<1> QED BY InitInv, StepInv, PTL DEF Spec

\* The places of the threads, the semaphore and _outof keep their types: the
\* semaphore never goes below zero and _outof stays between its bounds.
THEOREM TypeCorrect == Spec => []TypeOK
<1>1. IInv => TypeOK
  BY DEF IInv
<1> QED BY <1>1, Invariance, PTL

\* Tickets are neither lost nor made up by timeouts, yields, batches and resizes.
THEOREM NoTicketLost == Spec => []TicketsConserved
<1>1. IInv => TicketsConserved
  BY DEF IInv
<1> QED BY <1>1, Invariance, PTL

\* While a batch is applied no operation has the global lock, whatever it yields
\* or waits for.
THEOREM BatchAlone == Spec => []BatchIsolated
<1>1. IInv => BatchIsolated
  BY DEF IInv, PbwmInv, BatchIsolated, HasGlobal
<1> QED BY <1>1, Invariance, PTL
=============================================================================
