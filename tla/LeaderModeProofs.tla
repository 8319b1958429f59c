-------------------------- MODULE LeaderModeProofs --------------------------
(***************************************************************************)
(* Proofs about LeaderMode, for any number of commands, any term and any    *)
(* number of fetched entries: the modes of a leader change along their       *)
(* diagram, writes are accepted only after the drain but for the three ways  *)
(* that DrainSafe names, and an attempt to step down belongs to one command  *)
(* unless one left over from an earlier term ends it.                        *)
(***************************************************************************)
EXTENDS LeaderMode, TLAPS

\* A command holds the global lock during its attempts, and the applier while
\* it completes the transition to primary, which is after the drain.
LockInv ==
    /\ \A c \in Commands : cmd[c] = "attempting" <=> globalLock = c
    /\ applier = "transition" <=> globalLock = Applier
    /\ applier = "transition" =>
          \/ applierState = "Stopped"
          \/ applierState = "Draining" /\ "late" \in slips

\* As long as the thread that has won has not started catch-up, nobody has but
\* a thread of an earlier election.
StartInv ==
    term \in starting /\ memberState = "PRIMARY" /\ "late" \notin slips =>
        applierState = "Running" /\ ~catchup

\* What was remembered is not from the future.
TermInv ==
    /\ electionTerm <= term
    /\ termWhenBufferIsEmpty <= term
    /\ \A c \in Commands : termAtStart[c] <= term

\* What the applier concludes from getting no batch.  If the member steps down
\* before it gets the global lock, the term it has read is over by the time the
\* member is elected again.
BufferInv ==
    /\ applier = "signal" /\ applierState = "Draining" =>
          unapplied = 0 \/ "missed" \in slips
    /\ applier = "lock" => applierState # "Stopped"
    /\ applier = "lock" /\ termWhenBufferIsEmpty = term =>
          /\ applierState = "Draining" => unapplied = 0 \/ "missed" \in slips
          /\ applierState = "Running" => role = "follower"

\* Once drain mode is left, the first entry of the term gets logged, unless the
\* member must step down; and nothing is fetched any more.
MasterInv ==
    memberState = "PRIMARY" =>
        /\ applierState = "Stopped" =>
              \/ firstOpTimeOfMyTerm = term
              \/ applier = "transition"
              \/ leaderMode = "kSteppingDown"
        /\ applierState = "Stopped" \/ firstOpTimeOfMyTerm = term =>
              /\ unapplied = 0 \/ "missed" \in slips
              /\ \/ applierState = "Stopped"
                 \/ applierState = "Draining" /\ "late" \in slips

\* A command finds out that the member was elected again.
ReelectedInv ==
    \A c \in Commands :
        cmd[c] \in {"attempting", "waiting"} /\ role = "candidate" =>
            termAtStart[c] < term

\* Only a command that has begun an attempt can be robbed of it.
RobbedInv == \A c \in robbed : cmd[c] \in {"attempting", "waiting"}

IInv ==
    /\ TypeOK
    /\ ModesAgree /\ OneAttempt /\ ProducerApplierStates /\ DrainSafe
    /\ FailuresExplained /\ LockInv /\ StartInv /\ TermInv /\ BufferInv
    /\ MasterInv /\ ReelectedInv /\ RobbedInv

-----------------------------------------------------------------------------
(* Every action preserves the invariant *)

\* A new term makes what was read in an older one stale.
LEMMA RunForElectionInv ==
    ASSUME IInv, Running, RunForElection
    PROVE  IInv'
<1> USE ThreadsAssumption, BoundsAssumption
<1> USE DEF MutexFree, Terms, MaxOpTime, topoVars, coordVars, syncVars,
            pendingVars, cmdVars, applierVars, auxVars
<1>1. TypeOK'
  BY DEF IInv, TypeOK, RunForElection, LeaderModes
<1>2. ModesAgree'
  BY DEF IInv, ModesAgree, RunForElection
<1>3. OneAttempt'
  BY DEF IInv, OneAttempt, RunForElection, Owns, StillPrimary
<1>4. DrainSafe'
  BY DEF IInv, DrainSafe, RunForElection, ModesAgree
<1>5. FailuresExplained'
  BY DEF Running, FailuresExplained, RunForElection
<1>6. StartInv'
  BY DEF IInv, StartInv, RunForElection, ModesAgree
<1>7. TermInv'
  BY DEF IInv, TermInv, RunForElection, TypeOK
<1>8. BufferInv'
  BY DEF IInv, BufferInv, RunForElection, TypeOK, TermInv
<1>9. MasterInv'
  BY DEF IInv, MasterInv, RunForElection, ModesAgree
<1>10. ReelectedInv'
  BY DEF IInv, ReelectedInv, RunForElection, TypeOK, TermInv
<1>11. ProducerApplierStates' /\ LockInv' /\ RobbedInv'
  BY DEF IInv, RunForElection, ProducerApplierStates, LockInv, RobbedInv
<1> QED BY <1>1, <1>2, <1>3, <1>4, <1>5, <1>6, <1>7, <1>8, <1>9, <1>10, <1>11
       DEF IInv

\* A candidate that loses is a secondary as before.
LEMMA LoseElectionInv ==
    ASSUME IInv, Running, LoseElection
    PROVE  IInv'
<1> USE ThreadsAssumption, BoundsAssumption
<1> USE DEF MutexFree, Terms, MaxOpTime, topoVars, coordVars, syncVars,
            pendingVars, cmdVars, applierVars, auxVars
<1>1. TypeOK'
  BY DEF IInv, TypeOK, LoseElection, LeaderModes
<1>2. ModesAgree'
  BY DEF IInv, ModesAgree, LoseElection
<1>3. OneAttempt'
  BY DEF IInv, OneAttempt, LoseElection, Owns, StillPrimary
<1>4. FailuresExplained'
  BY DEF Running, FailuresExplained, LoseElection
<1>5. TermInv'
  BY DEF IInv, TermInv, LoseElection, TypeOK
<1>6. BufferInv'
  BY DEF IInv, BufferInv, LoseElection
<1>7. ReelectedInv'
  BY DEF IInv, ReelectedInv, LoseElection
<1>8. ProducerApplierStates' /\ DrainSafe' /\ LockInv' /\ StartInv' /\
      MasterInv' /\ RobbedInv'
  BY DEF IInv, LoseElection, ProducerApplierStates, DrainSafe, LockInv,
         StartInv, MasterInv, RobbedInv
<1> QED BY <1>1, <1>2, <1>3, <1>4, <1>5, <1>6, <1>7, <1>8 DEF IInv

\* The votes are counted, the member is a candidate until the next step.
LEMMA CountVotesInv ==
    ASSUME IInv, Running, CountVotes
    PROVE  IInv'
<1> USE ThreadsAssumption, BoundsAssumption
<1> USE DEF MutexFree, Terms, MaxOpTime, topoVars, coordVars, syncVars,
            pendingVars, cmdVars, applierVars, auxVars
<1>1. TypeOK'
  BY DEF IInv, TypeOK, CountVotes, LeaderModes
<1>2. ModesAgree'
  BY DEF IInv, ModesAgree, CountVotes
<1>3. FailuresExplained'
  BY DEF Running, FailuresExplained, CountVotes
<1>4. TermInv'
  BY DEF IInv, TermInv, CountVotes, TypeOK
<1>5. OneAttempt' /\ ProducerApplierStates' /\ DrainSafe' /\ LockInv' /\
      StartInv' /\ BufferInv' /\ MasterInv' /\ ReelectedInv' /\ RobbedInv'
  BY DEF IInv, CountVotes, OneAttempt, ProducerApplierStates, DrainSafe,
         LockInv, StartInv, BufferInv, MasterInv, ReelectedInv, RobbedInv,
         Owns, StillPrimary
<1> QED BY <1>1, <1>2, <1>3, <1>4, <1>5 DEF IInv

\* A winner is in a newer term than every signal and every command.
LEMMA WinElectionInv ==
    ASSUME IInv, Running, WinElection
    PROVE  IInv'
<1> USE ThreadsAssumption, BoundsAssumption
<1> USE DEF MutexFree, Terms, MaxOpTime, topoVars, coordVars, syncVars,
            pendingVars, cmdVars, applierVars, auxVars
<1>1. TypeOK'
  BY DEF IInv, TypeOK, WinElection, UpdateMemberState, FollowAgain,
         LeaderModes
<1>2. ModesAgree'
  BY DEF IInv, ModesAgree, WinElection, UpdateMemberState, FollowAgain
<1>3. OneAttempt'
  BY DEF IInv, OneAttempt, WinElection, UpdateMemberState, FollowAgain, Owns,
         StillPrimary, ReelectedInv, TypeOK, ModesAgree
<1>4. ProducerApplierStates'
  BY DEF IInv, ProducerApplierStates, WinElection, UpdateMemberState,
         FollowAgain
<1>5. DrainSafe'
  BY DEF IInv, DrainSafe, WinElection, UpdateMemberState, FollowAgain
<1>6. FailuresExplained'
  BY DEF Running, FailuresExplained, WinElection, UpdateMemberState,
         FollowAgain
<1>7. LockInv'
  BY DEF IInv, LockInv, WinElection, UpdateMemberState, FollowAgain
<1>8. StartInv'
  BY DEF IInv, StartInv, WinElection, UpdateMemberState, FollowAgain, TypeOK,
         ModesAgree, ProducerApplierStates
<1>9. BufferInv'
  BY DEF IInv, BufferInv, WinElection, UpdateMemberState, FollowAgain,
         ModesAgree
<1>10. MasterInv'
  BY DEF IInv, MasterInv, WinElection, UpdateMemberState, FollowAgain, TypeOK,
         ModesAgree, ProducerApplierStates
<1>11. ReelectedInv'
  BY DEF IInv, ReelectedInv, WinElection, UpdateMemberState, FollowAgain
<1>12. TermInv' /\ RobbedInv'
  BY DEF IInv, WinElection, UpdateMemberState, FollowAgain, TermInv, RobbedInv
<1> QED BY <1>1, <1>2, <1>3, <1>4, <1>5, <1>6, <1>7, <1>8, <1>9, <1>10, <1>11,
       <1>12 DEF IInv

\* Catch-up or drain mode starts, or a late thread starts it once more.
LEMMA StartCatchupInv ==
    ASSUME IInv, Running, NEW t \in Terms, StartCatchup(t)
    PROVE  IInv'
<1> USE ThreadsAssumption, BoundsAssumption
<1> USE DEF MutexFree, Terms, MaxOpTime, topoVars, coordVars, syncVars,
            pendingVars, cmdVars, applierVars, auxVars
<1>1. TypeOK'
  BY DEF IInv, TypeOK, StartCatchup, EnterDrainMode, MissedBefore,
         LeaderModes, ModesAgree, ProducerApplierStates
<1>2. ProducerApplierStates'
  BY DEF IInv, ProducerApplierStates, StartCatchup, EnterDrainMode,
         MissedBefore, ModesAgree, StartInv
<1>3. DrainSafe'
  BY DEF IInv, DrainSafe, StartCatchup, EnterDrainMode, MissedBefore,
         ModesAgree, ProducerApplierStates, StartInv
<1>4. FailuresExplained'
  BY DEF Running, FailuresExplained, StartCatchup, EnterDrainMode,
         MissedBefore
<1>5. LockInv'
  BY DEF IInv, LockInv, StartCatchup, EnterDrainMode, MissedBefore,
         ModesAgree, ProducerApplierStates, StartInv
<1>6. StartInv'
  BY DEF IInv, StartInv, StartCatchup, EnterDrainMode, MissedBefore
<1>7. BufferInv'
  BY DEF IInv, BufferInv, StartCatchup, EnterDrainMode, MissedBefore, TypeOK,
         ModesAgree
<1>8. MasterInv'
  BY DEF IInv, MasterInv, StartCatchup, EnterDrainMode, MissedBefore,
         ModesAgree, ProducerApplierStates, StartInv
<1>9. ModesAgree' /\ OneAttempt' /\ TermInv' /\ ReelectedInv' /\ RobbedInv'
  BY DEF IInv, StartCatchup, EnterDrainMode, MissedBefore, ModesAgree,
         OneAttempt, TermInv, ReelectedInv, RobbedInv, Owns, StillPrimary
<1> QED BY <1>1, <1>2, <1>3, <1>4, <1>5, <1>6, <1>7, <1>8, <1>9 DEF IInv

\* Drain mode starts: the applier has missed what is in the buffer or will see
\* it.
LEMMA AbortCatchupInv ==
    ASSUME IInv, Running, AbortCatchup
    PROVE  IInv'
<1> USE ThreadsAssumption, BoundsAssumption
<1> USE DEF MutexFree, Terms, MaxOpTime, topoVars, coordVars, syncVars,
            pendingVars, cmdVars, applierVars, auxVars
<1>1. TypeOK'
  BY DEF IInv, TypeOK, AbortCatchup, EnterDrainMode, MissedBefore,
         LeaderModes, ModesAgree
<1>2. ProducerApplierStates'
  BY DEF IInv, ProducerApplierStates, AbortCatchup, EnterDrainMode,
         MissedBefore
<1>3. DrainSafe'
  BY DEF IInv, DrainSafe, AbortCatchup, EnterDrainMode, MissedBefore,
         ModesAgree, ProducerApplierStates
<1>4. FailuresExplained'
  BY DEF Running, FailuresExplained, AbortCatchup, EnterDrainMode,
         MissedBefore
<1>5. LockInv'
  BY DEF IInv, LockInv, AbortCatchup, EnterDrainMode, MissedBefore,
         ModesAgree, ProducerApplierStates
<1>6. StartInv'
  BY DEF IInv, StartInv, AbortCatchup, EnterDrainMode, MissedBefore
<1>7. BufferInv'
  BY DEF IInv, BufferInv, AbortCatchup, EnterDrainMode, MissedBefore, TypeOK,
         ModesAgree, ProducerApplierStates
<1>8. MasterInv'
  BY DEF IInv, MasterInv, AbortCatchup, EnterDrainMode, MissedBefore,
         ModesAgree, ProducerApplierStates
<1>9. ModesAgree' /\ OneAttempt' /\ TermInv' /\ ReelectedInv' /\ RobbedInv'
  BY DEF IInv, AbortCatchup, EnterDrainMode, MissedBefore, ModesAgree,
         OneAttempt, TermInv, ReelectedInv, RobbedInv, Owns, StillPrimary
<1> QED BY <1>1, <1>2, <1>3, <1>4, <1>5, <1>6, <1>7, <1>8, <1>9 DEF IInv

\* Only a stopped producer matters to the invariant.
LEMMA StartProducerInv ==
    ASSUME IInv, Running, StartProducer
    PROVE  IInv'
<1> USE ThreadsAssumption, BoundsAssumption
<1> USE DEF MutexFree, Terms, MaxOpTime, topoVars, coordVars, syncVars,
            pendingVars, cmdVars, applierVars, auxVars
<1>1. TypeOK'
  BY DEF IInv, TypeOK, StartProducer, LeaderModes
<1>2. ProducerApplierStates'
  BY DEF IInv, ProducerApplierStates, StartProducer
<1>3. FailuresExplained'
  BY DEF Running, FailuresExplained, StartProducer
<1>4. ModesAgree' /\ OneAttempt' /\ DrainSafe' /\ LockInv' /\ StartInv' /\
      TermInv' /\ BufferInv' /\ MasterInv' /\ ReelectedInv' /\ RobbedInv'
  BY DEF IInv, StartProducer, ModesAgree, OneAttempt, DrainSafe, LockInv,
         StartInv, TermInv, BufferInv, MasterInv, ReelectedInv, RobbedInv,
         Owns, StillPrimary
<1> QED BY <1>1, <1>2, <1>3, <1>4 DEF IInv

\* Entries arrive only while the applier runs as on a secondary.
LEMMA EnqueueDocumentsInv ==
    ASSUME IInv, Running, EnqueueDocuments
    PROVE  IInv'
<1> USE ThreadsAssumption, BoundsAssumption
<1> USE DEF MutexFree, Terms, MaxOpTime, topoVars, coordVars, syncVars,
            pendingVars, cmdVars, applierVars, auxVars
<1>1. TypeOK'
  BY DEF IInv, TypeOK, EnqueueDocuments, LeaderModes
<1>2. DrainSafe'
  BY DEF IInv, DrainSafe, EnqueueDocuments, MasterInv, ProducerApplierStates,
         LockInv
<1>3. FailuresExplained'
  BY DEF Running, FailuresExplained, EnqueueDocuments
<1>4. BufferInv'
  BY DEF IInv, BufferInv, EnqueueDocuments, ModesAgree, ProducerApplierStates
<1>5. MasterInv'
  BY DEF IInv, MasterInv, EnqueueDocuments, ModesAgree, ProducerApplierStates
<1>6. ModesAgree' /\ OneAttempt' /\ ProducerApplierStates' /\ LockInv' /\
      StartInv' /\ TermInv' /\ ReelectedInv' /\ RobbedInv'
  BY DEF IInv, EnqueueDocuments, ModesAgree, OneAttempt,
         ProducerApplierStates, LockInv, StartInv, TermInv, ReelectedInv,
         RobbedInv, Owns, StillPrimary
<1> QED BY <1>1, <1>2, <1>3, <1>4, <1>5, <1>6 DEF IInv

\* The term that is read is the current one.
LEMMA ApplierReadsTermInv ==
    ASSUME IInv, Running, ApplierReadsTerm
    PROVE  IInv'
<1> USE ThreadsAssumption, BoundsAssumption
<1> USE DEF MutexFree, Terms, MaxOpTime, topoVars, coordVars, syncVars,
            pendingVars, cmdVars, applierVars, auxVars
<1>1. TypeOK'
  BY DEF IInv, TypeOK, ApplierReadsTerm, LeaderModes
<1>2. DrainSafe'
  BY DEF IInv, DrainSafe, ApplierReadsTerm
<1>3. FailuresExplained'
  BY DEF Running, FailuresExplained, ApplierReadsTerm
<1>4. LockInv'
  BY DEF IInv, LockInv, ApplierReadsTerm
<1>5. TermInv'
  BY DEF IInv, TermInv, ApplierReadsTerm, TypeOK
<1>6. BufferInv'
  BY DEF IInv, BufferInv, ApplierReadsTerm
<1>7. MasterInv'
  BY DEF IInv, MasterInv, ApplierReadsTerm
<1>8. ModesAgree' /\ OneAttempt' /\ ProducerApplierStates' /\ StartInv' /\
      ReelectedInv' /\ RobbedInv'
  BY DEF IInv, ApplierReadsTerm, ModesAgree, OneAttempt,
         ProducerApplierStates, StartInv, ReelectedInv, RobbedInv, Owns,
         StillPrimary
<1> QED BY <1>1, <1>2, <1>3, <1>4, <1>5, <1>6, <1>7, <1>8 DEF IInv

\* A batch makes the buffer smaller, or empty.
LEMMA MultiApplyInv ==
    ASSUME IInv, Running, MultiApply
    PROVE  IInv'
<1> USE ThreadsAssumption, BoundsAssumption
<1> USE DEF MutexFree, Terms, MaxOpTime, topoVars, coordVars, syncVars,
            pendingVars, cmdVars, applierVars, auxVars
<1>1. TypeOK'
  BY DEF IInv, TypeOK, MultiApply, BatchSizes, NextRound, LeaderModes
<1>2. ProducerApplierStates'
  BY DEF IInv, ProducerApplierStates, MultiApply, BatchSizes, NextRound
<1>3. DrainSafe'
  BY DEF IInv, DrainSafe, MultiApply, BatchSizes, NextRound
<1>4. FailuresExplained'
  BY DEF Running, FailuresExplained, MultiApply, BatchSizes, NextRound
<1>5. LockInv'
  BY DEF IInv, LockInv, MultiApply, BatchSizes, NextRound
<1>6. StartInv'
  BY DEF IInv, StartInv, MultiApply, BatchSizes, NextRound
<1>7. TermInv'
  BY DEF IInv, TermInv, MultiApply, BatchSizes, NextRound, TypeOK
<1>8. BufferInv'
  BY DEF IInv, BufferInv, MultiApply, BatchSizes, NextRound
<1>9. MasterInv'
  BY DEF IInv, MasterInv, MultiApply, BatchSizes, NextRound
<1>10. ModesAgree' /\ OneAttempt' /\ ReelectedInv' /\ RobbedInv'
  BY DEF IInv, MultiApply, BatchSizes, NextRound, ModesAgree, OneAttempt,
         ReelectedInv, RobbedInv, Owns, StillPrimary
<1> QED BY <1>1, <1>2, <1>3, <1>4, <1>5, <1>6, <1>7, <1>8, <1>9, <1>10 DEF
       IInv

\* No batch: the buffer is empty, or it is missed.
LEMMA NoBatchInv ==
    ASSUME IInv, Running, NoBatch
    PROVE  IInv'
<1> USE ThreadsAssumption, BoundsAssumption
<1> USE DEF MutexFree, Terms, MaxOpTime, topoVars, coordVars, syncVars,
            pendingVars, cmdVars, applierVars, auxVars
<1>1. TypeOK'
  BY DEF IInv, TypeOK, NoBatch, LeaderModes
<1>2. ProducerApplierStates'
  BY DEF IInv, ProducerApplierStates, NoBatch
<1>3. DrainSafe'
  BY DEF IInv, DrainSafe, NoBatch, TypeOK
<1>4. FailuresExplained'
  BY DEF Running, FailuresExplained, NoBatch
<1>5. LockInv'
  BY DEF IInv, LockInv, NoBatch
<1>6. StartInv'
  BY DEF IInv, StartInv, NoBatch
<1>7. BufferInv'
  BY DEF IInv, BufferInv, NoBatch, TypeOK
<1>8. MasterInv'
  BY DEF IInv, MasterInv, NoBatch, TypeOK
<1>9. ModesAgree' /\ OneAttempt' /\ TermInv' /\ ReelectedInv' /\ RobbedInv'
  BY DEF IInv, NoBatch, ModesAgree, OneAttempt, TermInv, ReelectedInv,
         RobbedInv, Owns, StillPrimary
<1> QED BY <1>1, <1>2, <1>3, <1>4, <1>5, <1>6, <1>7, <1>8, <1>9 DEF IInv

\* The signal goes on only in drain mode.
LEMMA SignalDrainInv ==
    ASSUME IInv, Running, SignalDrain
    PROVE  IInv'
<1> USE ThreadsAssumption, BoundsAssumption
<1> USE DEF MutexFree, Terms, MaxOpTime, topoVars, coordVars, syncVars,
            pendingVars, cmdVars, applierVars, auxVars
<1>1. TypeOK'
  BY DEF IInv, TypeOK, SignalDrain, NextRound, LeaderModes
<1>2. DrainSafe'
  BY DEF IInv, DrainSafe, SignalDrain, NextRound
<1>3. FailuresExplained'
  BY DEF Running, FailuresExplained, SignalDrain, NextRound
<1>4. LockInv'
  BY DEF IInv, LockInv, SignalDrain, NextRound
<1>5. TermInv'
  BY DEF IInv, TermInv, SignalDrain, NextRound, TypeOK
<1>6. BufferInv'
  BY DEF IInv, BufferInv, SignalDrain, NextRound
<1>7. MasterInv'
  BY DEF IInv, MasterInv, SignalDrain, NextRound
<1>8. ModesAgree' /\ OneAttempt' /\ ProducerApplierStates' /\ StartInv' /\
      ReelectedInv' /\ RobbedInv'
  BY DEF IInv, SignalDrain, NextRound, ModesAgree, OneAttempt,
         ProducerApplierStates, StartInv, ReelectedInv, RobbedInv, Owns,
         StillPrimary
<1> QED BY <1>1, <1>2, <1>3, <1>4, <1>5, <1>6, <1>7, <1>8 DEF IInv

\* Drain mode is left in the term that was read, with nothing to apply but
\* what was missed.
LEMMA LeaveDrainModeInv ==
    ASSUME IInv, Running, LeaveDrainMode
    PROVE  IInv'
<1> USE ThreadsAssumption, BoundsAssumption
<1> USE DEF MutexFree, Terms, MaxOpTime, topoVars, coordVars, syncVars,
            pendingVars, cmdVars, applierVars, auxVars
<1>1. TypeOK'
  BY DEF IInv, TypeOK, LeaveDrainMode, CanCompleteTransitionToPrimary,
         LeaderModes
<1>2. ProducerApplierStates'
  BY DEF IInv, ProducerApplierStates, LeaveDrainMode,
         CanCompleteTransitionToPrimary
<1>3. DrainSafe'
  BY DEF IInv, DrainSafe, LeaveDrainMode, CanCompleteTransitionToPrimary,
         BufferInv, ModesAgree, TypeOK
<1>4. FailuresExplained'
  BY DEF Running, FailuresExplained, LeaveDrainMode,
         CanCompleteTransitionToPrimary
<1>5. LockInv'
  BY DEF IInv, LockInv, LeaveDrainMode, CanCompleteTransitionToPrimary
<1>6. StartInv'
  BY DEF IInv, StartInv, LeaveDrainMode, CanCompleteTransitionToPrimary
<1>7. TermInv'
  BY DEF IInv, TermInv, LeaveDrainMode, CanCompleteTransitionToPrimary, TypeOK
<1>8. BufferInv'
  BY DEF IInv, BufferInv, LeaveDrainMode, CanCompleteTransitionToPrimary
<1>9. MasterInv'
  BY DEF IInv, MasterInv, LeaveDrainMode, CanCompleteTransitionToPrimary,
         BufferInv, ModesAgree, TypeOK, DrainSafe
<1>10. ModesAgree' /\ OneAttempt' /\ ReelectedInv' /\ RobbedInv'
  BY DEF IInv, LeaveDrainMode, CanCompleteTransitionToPrimary, ModesAgree,
         OneAttempt, ReelectedInv, RobbedInv, Owns, StillPrimary
<1> QED BY <1>1, <1>2, <1>3, <1>4, <1>5, <1>6, <1>7, <1>8, <1>9, <1>10 DEF
       IInv

\* The first entry of the term is logged before writes are accepted.
LEMMA CompleteTransitionToPrimaryInv ==
    ASSUME IInv, Running, CompleteTransitionToPrimary
    PROVE  IInv'
<1> USE ThreadsAssumption, BoundsAssumption
<1> USE DEF MutexFree, Terms, MaxOpTime, topoVars, coordVars, syncVars,
            pendingVars, cmdVars, applierVars, auxVars
<1>1. TypeOK'
  BY DEF IInv, TypeOK, CompleteTransitionToPrimary,
         CanCompleteTransitionToPrimary, UpdateMemberState, FollowAgain,
         LeaderModes, ModesAgree
<1>2. ModesAgree'
  BY DEF IInv, ModesAgree, CompleteTransitionToPrimary,
         CanCompleteTransitionToPrimary, UpdateMemberState, FollowAgain
<1>3. OneAttempt'
  BY DEF IInv, OneAttempt, CompleteTransitionToPrimary,
         CanCompleteTransitionToPrimary, UpdateMemberState, FollowAgain, Owns,
         StillPrimary
<1>4. ProducerApplierStates'
  BY DEF IInv, ProducerApplierStates, CompleteTransitionToPrimary,
         CanCompleteTransitionToPrimary, UpdateMemberState, FollowAgain,
         TypeOK
<1>5. DrainSafe'
  BY DEF IInv, DrainSafe, CompleteTransitionToPrimary,
         CanCompleteTransitionToPrimary, UpdateMemberState, FollowAgain,
         ModesAgree, ProducerApplierStates, LockInv
<1>6. FailuresExplained'
  BY DEF Running, FailuresExplained, CompleteTransitionToPrimary,
         CanCompleteTransitionToPrimary, UpdateMemberState, FollowAgain
<1>7. LockInv'
  BY DEF IInv, LockInv, CompleteTransitionToPrimary,
         CanCompleteTransitionToPrimary, UpdateMemberState, FollowAgain
<1>8. StartInv'
  BY DEF IInv, StartInv, CompleteTransitionToPrimary,
         CanCompleteTransitionToPrimary, UpdateMemberState, FollowAgain,
         ModesAgree
<1>9. BufferInv'
  BY DEF IInv, BufferInv, CompleteTransitionToPrimary,
         CanCompleteTransitionToPrimary, UpdateMemberState, FollowAgain
<1>10. MasterInv'
  <2>1. CASE CanCompleteTransitionToPrimary(term)
    <3>1. memberState = "PRIMARY"
      BY <2>1 DEF CanCompleteTransitionToPrimary, IInv, ModesAgree
    <3>2. memberState' = "PRIMARY" /\ applierState' = applierState
      BY <2>1, <3>1 DEF CompleteTransitionToPrimary, UpdateMemberState, IInv,
                        ModesAgree
    <3>3. /\ firstOpTimeOfMyTerm' = term' /\ unapplied' = unapplied
          /\ "missed" \in slips => "missed" \in slips'
          /\ "late" \in slips => "late" \in slips'
      BY <2>1 DEF CompleteTransitionToPrimary
    <3>4. /\ applierState = "Stopped" \/ "late" \in slips
          /\ applierState \in {"Stopped", "Draining"}
          /\ unapplied = 0 \/ "missed" \in slips
      BY DEF CompleteTransitionToPrimary, IInv, LockInv, DrainSafe
    <3> QED BY <3>2, <3>3, <3>4 DEF MasterInv
  <2>2. CASE ~CanCompleteTransitionToPrimary(term)
    <3>1. memberState = "PRIMARY"
      BY DEF CompleteTransitionToPrimary, IInv, DrainSafe
    <3>2. leaderMode = "kSteppingDown" \/ leaderMode = "kMaster"
      BY <2>2, <3>1 DEF CanCompleteTransitionToPrimary, IInv, ModesAgree,
                        TypeOK, LeaderModes
    <3>3. leaderMode # "kMaster"
      BY DEF CompleteTransitionToPrimary, IInv, DrainSafe, ModesAgree
    <3> QED BY <2>2, <3>2, <3>3 DEF CompleteTransitionToPrimary, IInv, MasterInv
  <2> QED BY <2>1, <2>2
<1>11. TermInv' /\ ReelectedInv' /\ RobbedInv'
  BY DEF IInv, CompleteTransitionToPrimary, CanCompleteTransitionToPrimary,
         UpdateMemberState, FollowAgain, TermInv, ReelectedInv, RobbedInv
<1> QED BY <1>1, <1>2, <1>3, <1>4, <1>5, <1>6, <1>7, <1>8, <1>9, <1>10, <1>11
       DEF IInv

\* The term of a leader does not change; a leader starts to step down.
LEMMA UpdateTermInv ==
    ASSUME IInv, Running, NEW t \in Terms, UpdateTerm(t)
    PROVE  IInv'
<1> USE ThreadsAssumption, BoundsAssumption
<1> USE DEF MutexFree, Terms, MaxOpTime, topoVars, coordVars, syncVars,
            pendingVars, cmdVars, applierVars, auxVars
<1>1. TypeOK'
  BY DEF IInv, TypeOK, UpdateTerm, PrepareForUnconditionalStepDown,
         LeaderModes, ModesAgree, ProducerApplierStates
<1>2. ModesAgree'
  BY DEF IInv, ModesAgree, UpdateTerm, PrepareForUnconditionalStepDown
<1>3. OneAttempt'
  BY DEF IInv, OneAttempt, UpdateTerm, PrepareForUnconditionalStepDown, Owns,
         StillPrimary
<1>4. DrainSafe'
  BY DEF IInv, DrainSafe, UpdateTerm, PrepareForUnconditionalStepDown,
         ModesAgree
<1>5. FailuresExplained'
  BY DEF Running, FailuresExplained, UpdateTerm,
         PrepareForUnconditionalStepDown
<1>6. StartInv'
  BY DEF IInv, StartInv, UpdateTerm, PrepareForUnconditionalStepDown,
         ModesAgree
<1>7. TermInv'
  BY DEF IInv, TermInv, UpdateTerm, PrepareForUnconditionalStepDown, TypeOK
<1>8. BufferInv'
  BY DEF IInv, BufferInv, UpdateTerm, PrepareForUnconditionalStepDown, TypeOK,
         TermInv
<1>9. MasterInv'
  BY DEF IInv, MasterInv, UpdateTerm, PrepareForUnconditionalStepDown,
         ModesAgree
<1>10. ReelectedInv'
  BY DEF IInv, ReelectedInv, UpdateTerm, PrepareForUnconditionalStepDown,
         TypeOK
<1>11. ProducerApplierStates' /\ LockInv' /\ RobbedInv'
  BY DEF IInv, UpdateTerm, PrepareForUnconditionalStepDown,
         ProducerApplierStates, LockInv, RobbedInv
<1> QED BY <1>1, <1>2, <1>3, <1>4, <1>5, <1>6, <1>7, <1>8, <1>9, <1>10, <1>11
       DEF IInv

\* A leader starts to step down; it can no longer complete its transition.
LEMMA StepDownSelfInv ==
    ASSUME IInv, Running, StepDownSelf
    PROVE  IInv'
<1> USE ThreadsAssumption, BoundsAssumption
<1> USE DEF MutexFree, Terms, MaxOpTime, topoVars, coordVars, syncVars,
            pendingVars, cmdVars, applierVars, auxVars
<1>1. TypeOK'
  BY DEF IInv, TypeOK, StepDownSelf, PrepareForUnconditionalStepDown,
         LeaderModes
<1>2. ModesAgree'
  BY DEF IInv, ModesAgree, StepDownSelf, PrepareForUnconditionalStepDown
<1>3. OneAttempt'
  BY DEF IInv, OneAttempt, StepDownSelf, PrepareForUnconditionalStepDown,
         Owns, StillPrimary
<1>4. DrainSafe'
  BY DEF IInv, DrainSafe, StepDownSelf, PrepareForUnconditionalStepDown
<1>5. FailuresExplained'
  BY DEF Running, FailuresExplained, StepDownSelf,
         PrepareForUnconditionalStepDown
<1>6. MasterInv'
  BY DEF IInv, MasterInv, StepDownSelf, PrepareForUnconditionalStepDown
<1>7. ProducerApplierStates' /\ LockInv' /\ StartInv' /\ TermInv' /\
      BufferInv' /\ ReelectedInv' /\ RobbedInv'
  BY DEF IInv, StepDownSelf, PrepareForUnconditionalStepDown,
         ProducerApplierStates, LockInv, StartInv, TermInv, BufferInv,
         ReelectedInv, RobbedInv
<1> QED BY <1>1, <1>2, <1>3, <1>4, <1>5, <1>6, <1>7 DEF IInv

\* A step down that must complete finds its mode, and nobody with the lock.
LEMMA StepDownFinishInv ==
    ASSUME IInv, Running, StepDownFinish
    PROVE  IInv'
<1> USE ThreadsAssumption, BoundsAssumption
<1> USE DEF MutexFree, Terms, MaxOpTime, topoVars, coordVars, syncVars,
            pendingVars, cmdVars, applierVars, auxVars
<1>1. TypeOK'
  BY DEF IInv, TypeOK, StepDownFinish, StepDownSelfAndReplace,
         UpdateMemberState, FollowAgain, LeaderModes
<1>2. ModesAgree'
  BY DEF IInv, ModesAgree, StepDownFinish, StepDownSelfAndReplace,
         UpdateMemberState, FollowAgain
<1>3. OneAttempt'
  BY DEF IInv, OneAttempt, StepDownFinish, StepDownSelfAndReplace,
         UpdateMemberState, FollowAgain, Owns, StillPrimary
<1>4. ProducerApplierStates'
  BY DEF IInv, ProducerApplierStates, StepDownFinish, StepDownSelfAndReplace,
         UpdateMemberState, FollowAgain, TypeOK
<1>5. DrainSafe'
  BY DEF IInv, DrainSafe, StepDownFinish, StepDownSelfAndReplace,
         UpdateMemberState, FollowAgain, LockInv
<1>6. FailuresExplained'
  BY DEF Running, FailuresExplained, StepDownFinish, StepDownSelfAndReplace,
         UpdateMemberState, FollowAgain
<1>7. LockInv'
  BY DEF IInv, LockInv, StepDownFinish, StepDownSelfAndReplace,
         UpdateMemberState, FollowAgain
<1>8. StartInv'
  BY DEF IInv, StartInv, StepDownFinish, StepDownSelfAndReplace,
         UpdateMemberState, FollowAgain
<1>9. BufferInv'
  BY DEF IInv, BufferInv, StepDownFinish, StepDownSelfAndReplace,
         UpdateMemberState, FollowAgain
<1>10. MasterInv'
  BY DEF IInv, MasterInv, StepDownFinish, StepDownSelfAndReplace,
         UpdateMemberState, FollowAgain
<1>11. ReelectedInv'
  BY DEF IInv, ReelectedInv, StepDownFinish, StepDownSelfAndReplace,
         UpdateMemberState, FollowAgain
<1>12. TermInv' /\ RobbedInv'
  BY DEF IInv, StepDownFinish, StepDownSelfAndReplace, UpdateMemberState,
         FollowAgain, TermInv, RobbedInv
<1> QED BY <1>1, <1>2, <1>3, <1>4, <1>5, <1>6, <1>7, <1>8, <1>9, <1>10, <1>11,
       <1>12 DEF IInv

\* A command that waits for the lock has no attempt.
LEMMA StepDownInv ==
    ASSUME IInv, Running, NEW c \in Commands, StepDown(c)
    PROVE  IInv'
<1> USE ThreadsAssumption, BoundsAssumption
<1> USE DEF MutexFree, Terms, MaxOpTime, topoVars, coordVars, syncVars,
            pendingVars, cmdVars, applierVars, auxVars
<1>1. TypeOK'
  BY DEF IInv, TypeOK, StepDown, LeaderModes
<1>2. OneAttempt'
  BY DEF IInv, OneAttempt, StepDown, Owns, StillPrimary
<1>3. FailuresExplained'
  BY DEF Running, FailuresExplained, StepDown
<1>4. LockInv'
  BY DEF IInv, LockInv, StepDown
<1>5. ReelectedInv'
  BY DEF IInv, ReelectedInv, StepDown
<1>6. RobbedInv'
  BY DEF IInv, RobbedInv, StepDown
<1>7. ModesAgree' /\ ProducerApplierStates' /\ DrainSafe' /\ StartInv' /\
      TermInv' /\ BufferInv' /\ MasterInv'
  BY DEF IInv, StepDown, ModesAgree, ProducerApplierStates, DrainSafe,
         StartInv, TermInv, BufferInv, MasterInv
<1> QED BY <1>1, <1>2, <1>3, <1>4, <1>5, <1>6, <1>7 DEF IInv

\* A command that gives up waiting had no attempt.
LEMMA LockTimeoutInv ==
    ASSUME IInv, Running, NEW c \in Commands, LockTimeout(c)
    PROVE  IInv'
<1> USE ThreadsAssumption, BoundsAssumption
<1> USE DEF MutexFree, Terms, MaxOpTime, topoVars, coordVars, syncVars,
            pendingVars, cmdVars, applierVars, auxVars
<1>1. TypeOK'
  BY DEF IInv, TypeOK, LockTimeout, LeaderModes
<1>2. OneAttempt'
  BY DEF IInv, OneAttempt, LockTimeout, Owns, StillPrimary
<1>3. FailuresExplained'
  BY DEF Running, FailuresExplained, LockTimeout
<1>4. LockInv'
  BY DEF IInv, LockInv, LockTimeout
<1>5. ReelectedInv'
  BY DEF IInv, ReelectedInv, LockTimeout
<1>6. RobbedInv'
  BY DEF IInv, RobbedInv, LockTimeout
<1>7. ModesAgree' /\ ProducerApplierStates' /\ DrainSafe' /\ StartInv' /\
      TermInv' /\ BufferInv' /\ MasterInv'
  BY DEF IInv, LockTimeout, ModesAgree, ProducerApplierStates, DrainSafe,
         StartInv, TermInv, BufferInv, MasterInv
<1> QED BY <1>1, <1>2, <1>3, <1>4, <1>5, <1>6, <1>7 DEF IInv

\* An attempt begins when there is none.
LEMMA PrepareForStepDownAttemptInv ==
    ASSUME IInv, Running, NEW c \in Commands, PrepareForStepDownAttempt(c)
    PROVE  IInv'
<1> USE ThreadsAssumption, BoundsAssumption
<1> USE DEF MutexFree, Terms, MaxOpTime, topoVars, coordVars, syncVars,
            pendingVars, cmdVars, applierVars, auxVars
<1>1. TypeOK'
  BY DEF IInv, TypeOK, PrepareForStepDownAttempt, AlreadySteppingDown,
         MayAttempt, UpdateMemberState, FollowAgain, LeaderModes, ModesAgree
<1>2. ModesAgree'
  BY DEF IInv, ModesAgree, PrepareForStepDownAttempt, AlreadySteppingDown,
         MayAttempt, UpdateMemberState, FollowAgain
<1>3. OneAttempt'
  BY DEF IInv, OneAttempt, PrepareForStepDownAttempt, AlreadySteppingDown,
         MayAttempt, UpdateMemberState, FollowAgain, Owns, StillPrimary,
         RobbedInv, TypeOK, ModesAgree
<1>4. ProducerApplierStates'
  BY DEF IInv, ProducerApplierStates, PrepareForStepDownAttempt,
         AlreadySteppingDown, MayAttempt, UpdateMemberState, FollowAgain,
         TypeOK
<1>5. DrainSafe'
  BY DEF IInv, DrainSafe, PrepareForStepDownAttempt, AlreadySteppingDown,
         MayAttempt, UpdateMemberState, FollowAgain, TypeOK, ModesAgree
<1>6. FailuresExplained'
  BY DEF Running, FailuresExplained, PrepareForStepDownAttempt,
         AlreadySteppingDown, MayAttempt, UpdateMemberState, FollowAgain
<1>7. LockInv'
  BY DEF IInv, LockInv, PrepareForStepDownAttempt, AlreadySteppingDown,
         MayAttempt, UpdateMemberState, FollowAgain, TypeOK
<1>8. StartInv'
  BY DEF IInv, StartInv, PrepareForStepDownAttempt, AlreadySteppingDown,
         MayAttempt, UpdateMemberState, FollowAgain, ModesAgree
<1>9. TermInv'
  BY DEF IInv, TermInv, PrepareForStepDownAttempt, AlreadySteppingDown,
         MayAttempt, UpdateMemberState, FollowAgain, TypeOK
<1>10. BufferInv'
  BY DEF IInv, BufferInv, PrepareForStepDownAttempt, AlreadySteppingDown,
         MayAttempt, UpdateMemberState, FollowAgain, ModesAgree
<1>11. MasterInv'
  BY DEF IInv, MasterInv, PrepareForStepDownAttempt, AlreadySteppingDown,
         MayAttempt, UpdateMemberState, FollowAgain, ModesAgree
<1>12. ReelectedInv'
  BY DEF IInv, ReelectedInv, PrepareForStepDownAttempt, AlreadySteppingDown,
         MayAttempt, UpdateMemberState, FollowAgain, ModesAgree
<1>13. RobbedInv'
  BY DEF IInv, RobbedInv, PrepareForStepDownAttempt, AlreadySteppingDown,
         MayAttempt, UpdateMemberState, FollowAgain, TypeOK
<1> QED BY <1>1, <1>2, <1>3, <1>4, <1>5, <1>6, <1>7, <1>8, <1>9, <1>10, <1>11,
       <1>12, <1>13 DEF IInv

\* A command that waits for the secondaries keeps its attempt.
LEMMA AttemptFailsInv ==
    ASSUME IInv, Running, NEW c \in Commands, AttemptFails(c)
    PROVE  IInv'
<1> USE ThreadsAssumption, BoundsAssumption
<1> USE DEF MutexFree, Terms, MaxOpTime, topoVars, coordVars, syncVars,
            pendingVars, cmdVars, applierVars, auxVars
<1>1. TypeOK'
  BY DEF IInv, TypeOK, AttemptFails, LeaderModes
<1>2. OneAttempt'
  BY DEF IInv, OneAttempt, AttemptFails, Owns, StillPrimary
<1>3. FailuresExplained'
  BY DEF Running, FailuresExplained, AttemptFails
<1>4. LockInv'
  BY DEF IInv, LockInv, AttemptFails, TypeOK
<1>5. ReelectedInv'
  BY DEF IInv, ReelectedInv, AttemptFails
<1>6. RobbedInv'
  BY DEF IInv, RobbedInv, AttemptFails
<1>7. ModesAgree' /\ ProducerApplierStates' /\ DrainSafe' /\ StartInv' /\
      TermInv' /\ BufferInv' /\ MasterInv'
  BY DEF IInv, AttemptFails, ModesAgree, ProducerApplierStates, DrainSafe,
         StartInv, TermInv, BufferInv, MasterInv
<1> QED BY <1>1, <1>2, <1>3, <1>4, <1>5, <1>6, <1>7 DEF IInv

\* A command that goes on finds its attempt, or not, as it was.
LEMMA RetryAttemptInv ==
    ASSUME IInv, Running, NEW c \in Commands, RetryAttempt(c)
    PROVE  IInv'
<1> USE ThreadsAssumption, BoundsAssumption
<1> USE DEF MutexFree, Terms, MaxOpTime, topoVars, coordVars, syncVars,
            pendingVars, cmdVars, applierVars, auxVars
<1>1. TypeOK'
  BY DEF IInv, TypeOK, RetryAttempt, LeaderModes
<1>2. OneAttempt'
  BY DEF IInv, OneAttempt, RetryAttempt, Owns, StillPrimary
<1>3. FailuresExplained'
  BY DEF Running, FailuresExplained, RetryAttempt
<1>4. LockInv'
  BY DEF IInv, LockInv, RetryAttempt, TypeOK
<1>5. ReelectedInv'
  BY DEF IInv, ReelectedInv, RetryAttempt
<1>6. RobbedInv'
  BY DEF IInv, RobbedInv, RetryAttempt
<1>7. ModesAgree' /\ ProducerApplierStates' /\ DrainSafe' /\ StartInv' /\
      TermInv' /\ BufferInv' /\ MasterInv'
  BY DEF IInv, RetryAttempt, ModesAgree, ProducerApplierStates, DrainSafe,
         StartInv, TermInv, BufferInv, MasterInv
<1> QED BY <1>1, <1>2, <1>3, <1>4, <1>5, <1>6, <1>7 DEF IInv

\* A command that succeeds takes the whole attempt with it.
LEMMA AttemptSucceedsInv ==
    ASSUME IInv, Running, NEW c \in Commands, AttemptSucceeds(c)
    PROVE  IInv'
<1> USE ThreadsAssumption, BoundsAssumption
<1> USE DEF MutexFree, Terms, MaxOpTime, topoVars, coordVars, syncVars,
            pendingVars, cmdVars, applierVars, auxVars
<1>1. TypeOK'
  <2>1. /\ cmd' \in [Commands -> {"idle", "locking", "attempting", "waiting"}]
        /\ termAtStart' \in [Commands -> Terms]
    BY DEF IInv, TypeOK, AttemptSucceeds, CommandReturns
  <2>2. /\ role' = "follower" /\ leaderMode' = "kNotLeader"
        /\ globalLock' = NoOwner /\ failed' = failed
        /\ slips' = slips \cap {"missed"} /\ robbed' = robbed \ {c}
        /\ UNCHANGED <<term, firstOpTimeOfMyTerm, electionTerm, unapplied,
                       pendingVars, applierVars>>
    BY DEF AttemptSucceeds, CommandReturns, StepDownSelfAndReplace
  <2>3. /\ memberState' \in {"PRIMARY", "SECONDARY"}
        /\ canAcceptNonLocalWrites' \in BOOLEAN
        /\ applierState' \in {"Running", "Draining", "Stopped"}
        /\ catchup' \in BOOLEAN
        /\ producerState' \in {"Starting", "Running", "Stopped"}
    BY DEF IInv, TypeOK, AttemptSucceeds, UpdateMemberState, FollowAgain
  <2> QED BY <2>1, <2>2, <2>3 DEF IInv, TypeOK, LeaderModes
<1>2. ModesAgree'
  BY DEF IInv, ModesAgree, AttemptSucceeds, StepDownSelfAndReplace,
         CommandReturns, UpdateMemberState, FollowAgain
<1>3. OneAttempt'
  BY DEF IInv, OneAttempt, AttemptSucceeds, StepDownSelfAndReplace,
         CommandReturns, UpdateMemberState, FollowAgain, Owns, StillPrimary
<1>4. ProducerApplierStates'
  BY DEF IInv, ProducerApplierStates, AttemptSucceeds, StepDownSelfAndReplace,
         CommandReturns, UpdateMemberState, FollowAgain, TypeOK
<1>5. DrainSafe'
  BY DEF IInv, DrainSafe, AttemptSucceeds, StepDownSelfAndReplace,
         CommandReturns, UpdateMemberState, FollowAgain, LockInv
<1>6. FailuresExplained'
  BY DEF Running, FailuresExplained, AttemptSucceeds, StepDownSelfAndReplace,
         CommandReturns, UpdateMemberState, FollowAgain
<1>7. LockInv'
  BY DEF IInv, LockInv, AttemptSucceeds, StepDownSelfAndReplace,
         CommandReturns, UpdateMemberState, FollowAgain, TypeOK
<1>8. StartInv'
  BY DEF IInv, StartInv, AttemptSucceeds, StepDownSelfAndReplace,
         CommandReturns, UpdateMemberState, FollowAgain
<1>9. TermInv'
  BY DEF IInv, TermInv, AttemptSucceeds, StepDownSelfAndReplace,
         CommandReturns, UpdateMemberState, FollowAgain, TypeOK
<1>10. BufferInv'
  BY DEF IInv, BufferInv, AttemptSucceeds, StepDownSelfAndReplace,
         CommandReturns, UpdateMemberState, FollowAgain
<1>11. MasterInv'
  BY DEF IInv, MasterInv, AttemptSucceeds, StepDownSelfAndReplace,
         CommandReturns, UpdateMemberState, FollowAgain
<1>12. ReelectedInv'
  BY DEF IInv, ReelectedInv, AttemptSucceeds, StepDownSelfAndReplace,
         CommandReturns, UpdateMemberState, FollowAgain
<1>13. RobbedInv'
  BY DEF IInv, RobbedInv, AttemptSucceeds, StepDownSelfAndReplace,
         CommandReturns, UpdateMemberState, FollowAgain
<1> QED BY <1>1, <1>2, <1>3, <1>4, <1>5, <1>6, <1>7, <1>8, <1>9, <1>10, <1>11,
       <1>12, <1>13 DEF IInv

\* A command that gives up takes its attempt with it, or robs the one that has
\* it.
LEMMA AbortAttemptInv ==
    ASSUME IInv, Running, NEW c \in Commands, AbortAttempt(c)
    PROVE  IInv'
<1> USE ThreadsAssumption, BoundsAssumption
<1> USE DEF MutexFree, Terms, MaxOpTime, topoVars, coordVars, syncVars,
            pendingVars, cmdVars, applierVars, auxVars
<1>1. TypeOK'
  <2>1. /\ cmd' \in [Commands -> {"idle", "locking", "attempting", "waiting"}]
        /\ termAtStart' \in [Commands -> Terms]
    BY DEF IInv, TypeOK, AbortAttempt, CommandReturns
  <2>2. /\ role' = role /\ leaderMode' \in {leaderMode, "kMaster"}
        /\ globalLock' = NoOwner /\ failed' = failed
        /\ UNCHANGED <<term, firstOpTimeOfMyTerm, electionTerm, unapplied,
                       pendingVars, applierVars>>
    BY DEF AbortAttempt, AbortedMode, CommandReturns
  <2>3. /\ memberState' \in {"PRIMARY", "SECONDARY"}
        /\ canAcceptNonLocalWrites' \in BOOLEAN
        /\ applierState' \in {"Running", "Draining", "Stopped"}
        /\ catchup' \in BOOLEAN
        /\ producerState' \in {"Starting", "Running", "Stopped"}
    BY DEF IInv, TypeOK, AbortAttempt, UpdateMemberState, FollowAgain
  <2>4. slips' \subseteq {"missed", "givenUp", "late"} /\ robbed' \subseteq Commands
    BY DEF IInv, TypeOK, AbortAttempt, Victims
  <2> QED BY <2>1, <2>2, <2>3, <2>4 DEF IInv, TypeOK, LeaderModes
<1>2. ModesAgree'
  BY DEF IInv, ModesAgree, AbortAttempt, AbortedMode, CommandReturns,
         UpdateMemberState, FollowAgain
<1>3. OneAttempt'
  <2>1. \A d \in Commands \ {c} :
           cmd'[d] = cmd[d] /\ termAtStart'[d] = termAtStart[d]
    BY DEF IInv, TypeOK, AbortAttempt, CommandReturns
  <2>2. cmd'[c] = "idle" /\ term' = term /\ role' = role
    BY DEF IInv, TypeOK, AbortAttempt, CommandReturns
  <2>3. CASE leaderMode = "kAttemptingStepDown"
    <3>1. leaderMode' = "kMaster" /\ robbed' = (robbed \cup Victims(c)) \ {c}
      BY <2>3 DEF AbortAttempt, AbortedMode
    <3>2. ASSUME NEW d \in Commands, Owns(d)' PROVE FALSE
      <4>1. d # c /\ d \notin robbed /\ d \notin Victims(c)
        BY <2>2, <3>1, <3>2 DEF Owns
      <4>2. Owns(d)
        BY <2>1, <2>2, <2>3, <3>2, <4>1 DEF Owns, StillPrimary
      <4>3. cmd[d] = "waiting"
        BY <4>1, <4>2 DEF AbortAttempt, Owns, IInv, LockInv
      <4> QED BY <4>1, <4>2, <4>3 DEF Owns, Victims
    <3> QED BY <3>1, <3>2 DEF OneAttempt
  <2>4. CASE leaderMode # "kAttemptingStepDown"
    <3>1. leaderMode' = leaderMode /\ robbed' = robbed \ {c}
      BY <2>4 DEF AbortAttempt, AbortedMode
    <3>2. ASSUME NEW d \in Commands, Owns(d)' PROVE FALSE
      <4>1. d # c /\ d \notin robbed
        BY <2>2, <3>1, <3>2 DEF Owns
      <4>2. Owns(d)
        BY <2>1, <2>2, <3>1, <3>2, <4>1 DEF Owns, StillPrimary
      <4> QED BY <2>4, <4>2 DEF IInv, OneAttempt
    <3> QED BY <2>4, <3>1, <3>2 DEF OneAttempt
  <2> QED BY <2>3, <2>4
<1>4. ProducerApplierStates'
  BY DEF IInv, ProducerApplierStates, AbortAttempt, AbortedMode,
         CommandReturns, UpdateMemberState, FollowAgain, TypeOK
<1>5. DrainSafe'
  BY DEF IInv, DrainSafe, AbortAttempt, AbortedMode, CommandReturns,
         UpdateMemberState, FollowAgain, MasterInv, ModesAgree, LockInv
<1>6. FailuresExplained'
  BY DEF Running, FailuresExplained, AbortAttempt, AbortedMode,
         CommandReturns, UpdateMemberState, FollowAgain
<1>7. LockInv'
  BY DEF IInv, LockInv, AbortAttempt, AbortedMode, CommandReturns,
         UpdateMemberState, FollowAgain, TypeOK
<1>8. StartInv'
  BY DEF IInv, StartInv, AbortAttempt, AbortedMode, CommandReturns,
         UpdateMemberState, FollowAgain, ModesAgree
<1>9. TermInv'
  BY DEF IInv, TermInv, AbortAttempt, AbortedMode, CommandReturns,
         UpdateMemberState, FollowAgain, TypeOK
<1>10. BufferInv'
  BY DEF IInv, BufferInv, AbortAttempt, AbortedMode, CommandReturns,
         UpdateMemberState, FollowAgain, TypeOK
<1>11. MasterInv'
  BY DEF IInv, MasterInv, AbortAttempt, AbortedMode, CommandReturns,
         UpdateMemberState, FollowAgain, ModesAgree
<1>12. ReelectedInv'
  BY DEF IInv, ReelectedInv, AbortAttempt, AbortedMode, CommandReturns,
         UpdateMemberState, FollowAgain
<1>13. RobbedInv'
  <2>1. \A d \in Commands \ {c} : cmd'[d] = cmd[d]
    BY DEF IInv, TypeOK, AbortAttempt, CommandReturns
  <2>2. \A d \in robbed' : d # c /\ (d \in robbed \/ d \in Victims(c))
    BY DEF AbortAttempt
  <2>3. robbed' \subseteq Commands
    BY <1>1 DEF TypeOK
  <2> QED BY <2>1, <2>2, <2>3 DEF IInv, RobbedInv, Victims
<1> QED BY <1>1, <1>2, <1>3, <1>4, <1>5, <1>6, <1>7, <1>8, <1>9, <1>10, <1>11,
       <1>12, <1>13 DEF IInv

\* A server that ends changes nothing else; an attempt that is gone was robbed
\* from its command, and catch-up that is there before its thread starts it was
\* started by a late thread.
LEMMA FailsInv ==
    ASSUME IInv, Running, NEW assertion \in Assertions, Fails(assertion),
           assertion = "attemptStepDown" =>
              \E c \in robbed : cmd[c] = "attempting",
           assertion = "winElection" =>
              \E t \in starting : t # term \/ "late" \in slips
    PROVE  IInv'
<1> USE DEF Fails, topoVars, coordVars, syncVars, pendingVars, cmdVars,
            applierVars
<1>1. TypeOK'
  BY DEF IInv, TypeOK
<1>2. FailuresExplained'
  BY DEF FailuresExplained
<1>3. ModesAgree' /\ OneAttempt' /\ ProducerApplierStates' /\ DrainSafe'
  BY DEF IInv, ModesAgree, OneAttempt, Owns, StillPrimary,
         ProducerApplierStates, DrainSafe
<1>4. /\ LockInv' /\ StartInv' /\ TermInv' /\ BufferInv' /\ MasterInv'
      /\ ReelectedInv' /\ RobbedInv'
  BY DEF IInv, LockInv, StartInv, TermInv, BufferInv, MasterInv, ReelectedInv,
         RobbedInv
<1> QED BY <1>1, <1>2, <1>3, <1>4 DEF IInv

\* The assertions of kActionWinElection and of the commands.
LEMMA FailingStepInv ==
    ASSUME IInv, Running,
           \/ \E t \in Terms : StartCatchupFails(t)
           \/ \E c \in Commands :
                 PrepareFails(c) \/ AttemptGone(c) \/ AbortFails(c)
    PROVE  IInv'
<1>1. ASSUME NEW t \in Terms, StartCatchupFails(t) PROVE IInv'
  <2>1. t # term \/ "late" \in slips
    BY <1>1 DEF StartCatchupFails, IInv, StartInv
  <2> QED BY <1>1, <2>1, FailsInv DEF StartCatchupFails, Assertions
<1>2. ASSUME NEW c \in Commands, PrepareFails(c) PROVE IInv'
  BY <1>2, FailsInv DEF PrepareFails, Assertions
<1>3. ASSUME NEW c \in Commands, AttemptGone(c) PROVE IInv'
  <2>1. c \in robbed
    BY <1>3 DEF AttemptGone, IInv, OneAttempt, Owns
  <2> QED BY <1>3, <2>1, FailsInv DEF AttemptGone, Assertions
<1>4. ASSUME NEW c \in Commands, AbortFails(c) PROVE IInv'
  BY <1>4, FailsInv DEF AbortFails, Assertions
<1> QED BY <1>1, <1>2, <1>3, <1>4

\* No step of the server, or of none, breaks the invariant.
LEMMA NextInv == ASSUME IInv, [Next]_vars PROVE IInv'
<1>1. CASE UNCHANGED vars
  BY <1>1 DEF vars, topoVars, coordVars, syncVars, pendingVars, cmdVars,
              applierVars, auxVars, IInv, TypeOK, ModesAgree, OneAttempt, Owns,
              StillPrimary, ProducerApplierStates, DrainSafe,
              FailuresExplained, LockInv, StartInv, TermInv, BufferInv,
              MasterInv, ReelectedInv, RobbedInv
<1>2. CASE Running /\ ElectionStep
  BY <1>2, RunForElectionInv, LoseElectionInv, CountVotesInv, WinElectionInv,
     StartCatchupInv, FailingStepInv, AbortCatchupInv, UpdateTermInv,
     StepDownSelfInv, StepDownFinishInv DEF ElectionStep
<1>3. CASE Running /\ (ProducerStep \/ ApplierStep)
  BY <1>3, StartProducerInv, EnqueueDocumentsInv, ApplierReadsTermInv,
     MultiApplyInv, NoBatchInv, SignalDrainInv, LeaveDrainModeInv,
     CompleteTransitionToPrimaryInv DEF ProducerStep, ApplierStep
<1>4. ASSUME Running, NEW c \in Commands, CommandStep(c) PROVE IInv'
  BY <1>4, StepDownInv, LockTimeoutInv, PrepareForStepDownAttemptInv,
     FailingStepInv, AttemptFailsInv, RetryAttemptInv, AttemptSucceedsInv,
     AbortAttemptInv DEF CommandStep
<1> QED BY <1>1, <1>2, <1>3, <1>4 DEF Next, Step

\* The invariant holds of a secondary that has just started.
LEMMA InitInv == Init => IInv
<1> USE ThreadsAssumption, BoundsAssumption
<1> SUFFICES ASSUME Init PROVE IInv
  OBVIOUS
<1>1. TypeOK
  <2>1. /\ canAcceptNonLocalWrites \in BOOLEAN /\ catchup \in BOOLEAN
        /\ winning \in BOOLEAN /\ stepDownPending \in BOOLEAN
    BY Zenon DEF Init
  <2>2. 0 \in Terms /\ 0 \in 0 .. MaxUnapplied
    BY DEF Terms
  <2> QED BY <2>1, <2>2 DEF Init, TypeOK, LeaderModes
<1>2. ModesAgree /\ OneAttempt /\ ProducerApplierStates /\ DrainSafe
  BY DEF Init, ModesAgree, OneAttempt, Owns, StillPrimary,
         ProducerApplierStates, DrainSafe
<1>3. FailuresExplained /\ LockInv /\ StartInv
  BY DEF Init, FailuresExplained, LockInv, StartInv
<1>4. /\ TermInv /\ BufferInv /\ MasterInv /\ ReelectedInv /\ RobbedInv
  BY DEF Init, TermInv, BufferInv, MasterInv, ReelectedInv, RobbedInv
<1> QED BY <1>1, <1>2, <1>3, <1>4 DEF IInv

\* The inductive invariant holds always.
THEOREM Invariance == Spec => []IInv
<1>1. IInv /\ [Next]_vars => IInv'
  BY NextInv
<1> QED BY InitInv, <1>1, PTL DEF Spec

-----------------------------------------------------------------------------
(* What the invariant gives *)

\* Every variable keeps its type, whatever the threads do.
THEOREM TypeCorrect == Spec => []TypeOK
<1>1. IInv => TypeOK
  BY DEF IInv
<1> QED BY <1>1, Invariance, PTL

\* Writes are accepted only after the drain, and the drain ends only when the
\* applier has applied what the producer fetched, but for an attempt that was
\* given up, a thread that was late and what the applier missed.
THEOREM DrainIsSafe == Spec => []DrainSafe
<1>1. IInv => DrainSafe
  BY DEF IInv
<1> QED BY <1>1, Invariance, PTL

\* The assertions of the topology coordinator and of the replication coordinator
\* on the role, the leader mode and the member state hold.
THEOREM ModesFollowRole == Spec => []ModesAgree
<1>1. IInv => ModesAgree
  BY DEF IInv
<1> QED BY <1>1, Invariance, PTL

\* An attempt to step down belongs to one command.
THEOREM AttemptsExclude == Spec => []OneAttempt
<1>1. IInv => OneAttempt
  BY DEF IInv
<1> QED BY <1>1, Invariance, PTL

\* The producer and the applier are in the states that replication_coordinator.h
\* lists for a secondary, for catch-up, for drain mode and for a primary.
THEOREM ProducerAndApplier == Spec => []ProducerApplierStates
<1>1. IInv => ProducerApplierStates
  BY DEF IInv
<1> QED BY <1>1, Invariance, PTL

\* Mode and role, attempts and commands, producer and applier agree, and the
\* assertions that fail do so on the schedules that FailuresExplained names.
THEOREM StatesAreConsistent == Spec => []StatesAgree
<1>1. IInv => StatesAgree
  BY DEF IInv, StatesAgree
<1> QED BY <1>1, Invariance, PTL

\* One step of LeaderModeTransitions.
ModeStep ==
    /\ leaderMode' # leaderMode
          => <<leaderMode, leaderMode'>> \in ValidTransitions
    /\ failed' = "setLeaderMode" => leaderMode = "kNotLeader"
    /\ robbed' \subseteq robbed \/
          \E c \in Commands : /\ cmd[c] = "attempting" /\ cmd'[c] = "idle"
                              /\ c \in robbed \/ termAtStart[c] # term

\* A command ends the attempt of another one only when it does not own it: it
\* was robbed itself, or the member was elected again since it began.
LEMMA RobbersHaveNoAttempt ==
    ASSUME IInv, Running, NEW c \in Commands, AbortAttempt(c)
    PROVE  ModeStep
<1> USE DEF AbortAttempt, AbortedMode, CommandReturns
<1>1. leaderMode' # leaderMode
         => <<leaderMode, leaderMode'>> \in ValidTransitions
  BY DEF ValidTransitions
<1>2. failed' # "setLeaderMode"
  BY DEF Running
<1>3. cmd[c] = "attempting" /\ cmd'[c] = "idle"
  BY DEF IInv, TypeOK
<1>4. CASE Owns(c)
  <2>1. \A d \in Victims(c) : d \in robbed
    BY <1>4 DEF Victims, IInv, OneAttempt, Owns
  <2>2. robbed' \subseteq robbed
    BY <2>1
  <2> QED BY <1>1, <1>2, <2>2 DEF ModeStep
<1>5. CASE leaderMode # "kAttemptingStepDown"
  BY <1>1, <1>2, <1>5 DEF ModeStep
<1>6. CASE ~Owns(c) /\ leaderMode = "kAttemptingStepDown"
  <2>1. role = "leader"
    BY <1>6 DEF IInv, ModesAgree
  <2>2. c \in robbed \/ termAtStart[c] # term
    BY <1>3, <1>6, <2>1 DEF Owns, StillPrimary
  <2> QED BY <1>1, <1>2, <1>3, <2>2 DEF ModeStep
<1> QED BY <1>4, <1>5, <1>6

\* Every step of the threads moves the mode along an arrow of the diagram.
LEMMA ModeSteps == ASSUME IInv, Running, Step PROVE ModeStep
<1> USE DEF Running, topoVars, cmdVars, auxVars
<1>1. CASE ElectionStep
  <2>1. CASE WinElection
    BY <2>1 DEF WinElection, IInv, ModesAgree, ModeStep, ValidTransitions
  <2>2. CASE StepDownSelf \/ \E t \in Terms : UpdateTerm(t)
    BY <2>2 DEF StepDownSelf, UpdateTerm, PrepareForUnconditionalStepDown,
                IInv, TypeOK, LeaderModes, ModesAgree, ModeStep,
                ValidTransitions
  <2>3. CASE StepDownFinish
    BY <2>3 DEF StepDownFinish, StepDownSelfAndReplace, IInv, ModesAgree,
                ModeStep, ValidTransitions
  <2>4. CASE RunForElection \/ LoseElection \/ CountVotes \/ AbortCatchup
    BY <2>4 DEF RunForElection, LoseElection, CountVotes, AbortCatchup, ModeStep
  <2>5. CASE \E t \in Terms : StartCatchup(t) \/ StartCatchupFails(t)
    BY <2>5 DEF StartCatchup, StartCatchupFails, Fails, ModeStep
  <2> QED BY <1>1, <2>1, <2>2, <2>3, <2>4, <2>5 DEF ElectionStep
<1>2. CASE ProducerStep \/ ApplierStep
  <2>1. CASE CompleteTransitionToPrimary
    BY <2>1 DEF CompleteTransitionToPrimary, CanCompleteTransitionToPrimary,
                ModeStep, ValidTransitions
  <2>2. CASE ProducerStep \/ ApplierReadsTerm \/ MultiApply \/ NoBatch
             \/ SignalDrain \/ LeaveDrainMode
    BY <2>2 DEF ProducerStep, StartProducer, EnqueueDocuments,
                ApplierReadsTerm, MultiApply, NoBatch, SignalDrain,
                LeaveDrainMode, ModeStep
  <2> QED BY <1>2, <2>1, <2>2 DEF ApplierStep
<1>3. ASSUME NEW c \in Commands, CommandStep(c) PROVE ModeStep
  <2>1. CASE PrepareForStepDownAttempt(c)
    BY <2>1 DEF PrepareForStepDownAttempt, MayAttempt, ModeStep,
                ValidTransitions
  <2>2. CASE PrepareFails(c)
    BY <2>2 DEF PrepareFails, AlreadySteppingDown, MayAttempt, Fails, IInv,
                TypeOK, LeaderModes, ModeStep
  <2>3. CASE AttemptSucceeds(c)
    BY <2>3 DEF AttemptSucceeds, StepDownSelfAndReplace, CommandReturns,
                ModeStep, ValidTransitions
  <2>4. CASE AbortAttempt(c)
    BY <2>4, RobbersHaveNoAttempt
  <2>5. CASE AttemptGone(c) \/ AbortFails(c)
    BY <2>5 DEF AttemptGone, AbortFails, Fails, ModeStep
  <2>6. CASE StepDown(c) \/ LockTimeout(c) \/ AttemptFails(c) \/ RetryAttempt(c)
    BY <2>6 DEF StepDown, LockTimeout, AttemptFails, RetryAttempt, ModeStep
  <2> QED BY <1>3, <2>1, <2>2, <2>3, <2>4, <2>5, <2>6 DEF CommandStep
<1> QED BY <1>1, <1>2, <1>3 DEF Step

\* The mode changes along the diagram of topology_coordinator.h; the assertion
\* of _setLeaderMode fails only after a step down, and only a command of an
\* earlier term, or one that was robbed, robs another.
THEOREM TransitionsAreValid == Spec => LeaderModeTransitions
<1>1. IInv /\ [Next]_vars => [ModeStep]_vars
  BY ModeSteps DEF Next
<1> QED BY <1>1, Invariance, PTL DEF Spec, LeaderModeTransitions, ModeStep
=============================================================================
