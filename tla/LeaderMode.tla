----------------------------- MODULE LeaderMode -----------------------------
(***************************************************************************)
(* From winning an election to accepting writes, and back: the modes of a   *)
(* leader (TopologyCoordinatorImpl::_leaderMode), catch-up, drain mode and   *)
(* the applier's signal that ends it, the replSetStepDown command, and the   *)
(* step down that a heartbeat or a higher term triggers.                     *)
(*                                                                         *)
(* One member is modelled.  A step is a critical section of                  *)
(* ReplicationCoordinatorImpl::_mutex, or of BackgroundSync::_mutex for the  *)
(* producer.  A thread that needs the global lock in mode X takes it and the *)
(* mutex in one step: whatever others do in between with the mutex alone,    *)
(* they may as well do before.                                              *)
(*                                                                         *)
(* A replSetStepDown command is                                             *)
(*   locking    -- it has queued up for the global lock                      *)
(*   attempting -- it holds the global lock and _mutex                       *)
(*   waiting    -- it waits for the secondaries, without either              *)
(* and the applier thread is at                                             *)
(*   top        -- the top of its loop                                       *)
(*   fetch      -- it has read the term and asks for a batch                 *)
(*   signal     -- it got none and calls signalDrainComplete                 *)
(*   lock       -- signalDrainComplete queues up for the global lock         *)
(*   transition -- it holds the lock and logs the "new primary" entry        *)
(***************************************************************************)
EXTENDS Integers

CONSTANTS
    Commands,      \* the threads that run replSetStepDown
    Applier,       \* the applier thread
    NoOwner,       \* nobody holds the global lock in mode X
    MaxTerm,       \* bound on the term
    MaxUnapplied   \* bound on the number of fetched entries

ASSUME ThreadsAssumption ==
    /\ Applier \notin Commands /\ NoOwner \notin Commands
    /\ Applier # NoOwner

ASSUME BoundsAssumption ==
    MaxTerm \in Nat /\ MaxUnapplied \in Nat

VARIABLES
    \* TopologyCoordinatorImpl
    term, role, leaderMode, firstOpTimeOfMyTerm,
    electionTerm,             \* the term that it runs for election in, or 0
    \* ReplicationCoordinatorImpl
    memberState, canAcceptNonLocalWrites, applierState,
    catchup,                  \* is there a _catchupState?
    winning,                  \* has _onVoteRequestComplete counted the votes?
    starting,                 \* the terms won whose thread has not started catch-up
    stepDownPending,          \* is _stepDownFinish scheduled?
    \* BackgroundSync, and the entries fetched that are not applied yet
    producerState, unapplied,
    \* the threads
    globalLock,               \* the owner of the global lock in mode X
    cmd, termAtStart,         \* the commands
    applier, termWhenBufferIsEmpty,
    failed,                   \* the assertion that has ended the server, or "none"
    \* history
    slips,                    \* out of "missed", "givenUp" and "late", see below
    robbed                    \* the commands whose attempt another one has ended

topoVars == <<term, role, leaderMode, firstOpTimeOfMyTerm, electionTerm>>
coordVars == <<memberState, canAcceptNonLocalWrites, applierState, catchup>>
syncVars == <<producerState, unapplied>>
pendingVars == <<winning, starting, stepDownPending>>
cmdVars == <<cmd, termAtStart>>
applierVars == <<applier, termWhenBufferIsEmpty>>
auxVars == <<failed, slips, robbed>>
vars == <<topoVars, coordVars, syncVars, pendingVars, globalLock, cmdVars,
          applierVars, auxVars>>

Terms == 0 .. MaxTerm

\* An optime is the term of its entry; this one is above all others.
MaxOpTime == MaxTerm + 1

LeaderModes == {"kNotLeader", "kLeaderElect", "kMaster", "kSteppingDown",
                "kAttemptingStepDown"}

\* The assertions that can fail, by the function that makes them.
Assertions == {"setLeaderMode", "attemptStepDown", "updateMemberState",
               "winElection"}

\* Every variable has the type of the member it stands for.
TypeOK ==
    /\ term \in Terms /\ electionTerm \in Terms
    /\ role \in {"follower", "candidate", "leader"}
    /\ leaderMode \in LeaderModes
    /\ firstOpTimeOfMyTerm \in Terms \cup {MaxOpTime}
    /\ memberState \in {"PRIMARY", "SECONDARY"}
    /\ canAcceptNonLocalWrites \in BOOLEAN
    /\ applierState \in {"Running", "Draining", "Stopped"}
    /\ catchup \in BOOLEAN
    /\ winning \in BOOLEAN
    /\ starting \subseteq Terms
    /\ stepDownPending \in BOOLEAN
    /\ producerState \in {"Starting", "Running", "Stopped"}
    /\ unapplied \in 0 .. MaxUnapplied
    /\ globalLock \in Commands \cup {Applier, NoOwner}
    /\ cmd \in [Commands -> {"idle", "locking", "attempting", "waiting"}]
    /\ termAtStart \in [Commands -> Terms]
    /\ applier \in {"top", "fetch", "signal", "lock", "transition"}
    /\ termWhenBufferIsEmpty \in Terms
    /\ failed \in Assertions \cup {"none"}
    /\ slips \subseteq {"missed", "givenUp", "late"}
    /\ robbed \subseteq Commands

\* A secondary.
Init ==
    /\ term = 0 /\ role = "follower" /\ leaderMode = "kNotLeader"
    /\ firstOpTimeOfMyTerm = 0 /\ electionTerm = 0
    /\ memberState = "SECONDARY" /\ canAcceptNonLocalWrites = FALSE
    /\ applierState = "Running" /\ catchup = FALSE
    /\ winning = FALSE /\ starting = {} /\ stepDownPending = FALSE
    /\ producerState = "Starting" /\ unapplied = 0
    /\ globalLock = NoOwner
    /\ cmd = [c \in Commands |-> "idle"]
    /\ termAtStart = [c \in Commands |-> 0]
    /\ applier = "top" /\ termWhenBufferIsEmpty = 0
    /\ failed = "none" /\ slips = {} /\ robbed = {}

Running == failed = "none"

\* The server ends where it is.
Fails(assertion) ==
    /\ failed' = assertion
    /\ UNCHANGED <<topoVars, coordVars, syncVars, pendingVars, globalLock,
                   cmdVars, applierVars, slips, robbed>>

\* Nobody is in the critical section of stepDown that spans several steps.
MutexFree == globalLock \notin Commands

\* What a primary does about the applier when it becomes a secondary.  Catch-up
\* is aborted, which stops the producer for a moment.
FollowAgain ==
    /\ applierState' = "Running" /\ catchup' = FALSE
    /\ producerState' = IF catchup \/ producerState = "Stopped"
                        THEN "Starting" ELSE producerState

\* _updateMemberStateFromTopologyCoordinator_inlock, after the step that gave
\* role and leaderMode their new values.
UpdateMemberState ==
    /\ canAcceptNonLocalWrites' = (leaderMode' = "kMaster")
    /\ memberState' = IF role' = "leader" THEN "PRIMARY" ELSE "SECONDARY"
    /\ IF memberState = "PRIMARY" /\ memberState' = "SECONDARY"
       THEN FollowAgain
       ELSE UNCHANGED <<applierState, catchup, producerState>>

-----------------------------------------------------------------------------
(* Elections, see the module Election *)

\* The dry run, of which nothing is seen here, has succeeded: the member runs
\* for election in a new term.
RunForElection ==
    /\ MutexFree /\ role = "follower" /\ term < MaxTerm
    /\ role' = "candidate" /\ term' = term + 1 /\ electionTerm' = term + 1
    /\ UNCHANGED <<leaderMode, firstOpTimeOfMyTerm, coordVars, syncVars,
                   pendingVars, globalLock, cmdVars, applierVars, auxVars>>

\* Too few votes, or a newer term.
LoseElection ==
    /\ MutexFree /\ role = "candidate" /\ ~winning
    /\ role' = "follower" /\ electionTerm' = 0
    /\ UNCHANGED <<term, leaderMode, firstOpTimeOfMyTerm, coordVars, syncVars,
                   pendingVars, globalLock, cmdVars, applierVars, auxVars>>

\* _onVoteRequestComplete, with a majority of votes: it releases the mutex.
CountVotes ==
    /\ MutexFree /\ role = "candidate" /\ ~winning /\ term = electionTerm
    /\ winning' = TRUE /\ electionTerm' = 0
    /\ UNCHANGED <<term, role, leaderMode, firstOpTimeOfMyTerm, coordVars,
                   syncVars, starting, stepDownPending, globalLock, cmdVars,
                   applierVars, auxVars>>

\* The first critical section of kActionWinElection, in whatever term it is now.
WinElection ==
    /\ MutexFree /\ winning
    /\ winning' = FALSE
    /\ role' = "leader" /\ leaderMode' = "kLeaderElect"
    /\ firstOpTimeOfMyTerm' = MaxOpTime
    /\ starting' = starting \cup {term}
    /\ UpdateMemberState
    /\ UNCHANGED <<term, electionTerm, unapplied, stepDownPending, globalLock,
                   cmdVars, applierVars, auxVars>>

\* Drain mode begins.  What is in the buffer is missed when the applier found
\* it empty before.
EnterDrainMode ==
    /\ applierState' = "Draining" /\ producerState' = "Stopped"
    /\ catchup' = FALSE

MissedBefore == {s \in {"missed"} : applier = "signal" /\ unapplied > 0}

\* The second critical section, in the thread that won the term t: catch-up
\* starts, or is skipped.  It is late when another term has been won since.
StartCatchup(t) ==
    /\ MutexFree /\ t \in starting
    /\ starting' = starting \ {t}
    /\ \/ /\ memberState # "PRIMARY"
          /\ UNCHANGED <<applierState, producerState, catchup, slips>>
       \/ /\ memberState = "PRIMARY" /\ ~catchup
          /\ \/ /\ catchup' = TRUE
                /\ slips' = slips \cup {s \in {"late"} : t # term}
                /\ UNCHANGED <<applierState, producerState>>
             \/ /\ EnterDrainMode
                /\ slips' = slips \cup {s \in {"late"} : t # term}
                                 \cup MissedBefore
    /\ UNCHANGED <<topoVars, memberState, canAcceptNonLocalWrites, unapplied,
                   winning, stepDownPending, globalLock, cmdVars, applierVars,
                   failed, robbed>>

\* invariant(!_catchupState) fails: another thread has started it.
StartCatchupFails(t) ==
    /\ MutexFree /\ t \in starting
    /\ memberState = "PRIMARY" /\ catchup
    /\ Fails("winElection")

\* CatchupState::abort_inlock: the member has caught up, or the timeout is
\* over, or replSetAbortPrimaryCatchUp was called.
AbortCatchup ==
    /\ MutexFree /\ catchup
    /\ EnterDrainMode
    /\ slips' = slips \cup MissedBefore
    /\ UNCHANGED <<topoVars, memberState, canAcceptNonLocalWrites, unapplied,
                   pendingVars, globalLock, cmdVars, applierVars, failed, robbed>>

-----------------------------------------------------------------------------
(* The producer and the applier *)

\* BackgroundSync::start, which reads the oplog under a lock.
StartProducer ==
    /\ producerState = "Starting" /\ globalLock = NoOwner
    /\ producerState' = "Running"
    /\ UNCHANGED <<topoVars, coordVars, unapplied, pendingVars, globalLock,
                   cmdVars, applierVars, auxVars>>

\* Fetched entries are put in the buffer, as far as there is space.
EnqueueDocuments ==
    /\ producerState = "Running"
    /\ \E n \in unapplied + 1 .. MaxUnapplied : unapplied' = n
    /\ UNCHANGED <<topoVars, coordVars, producerState, pendingVars, globalLock,
                   cmdVars, applierVars, auxVars>>

\* The top of the loop of oplogApplication.
ApplierReadsTerm ==
    /\ applier = "top"
    /\ applier' = "fetch" /\ termWhenBufferIsEmpty' = term
    /\ UNCHANGED <<topoVars, coordVars, syncVars, pendingVars, globalLock,
                   cmdVars, auxVars>>

\* A mutant: one entry more than there is.
BatchSizes_OneMore == 1 .. unapplied + 1
\* The sizes of the batches that tryPopAndWaitForMore can make up.
BatchSizes == 1 .. unapplied

\* The applier goes back to the top of its loop.
NextRound == applier' = "top" /\ termWhenBufferIsEmpty' = 0

\* A batch is applied, under locks.
MultiApply ==
    /\ applier = "fetch" /\ globalLock = NoOwner
    /\ \E n \in BatchSizes : unapplied' = unapplied - n
    /\ slips' = IF unapplied' = 0 THEN slips \ {"missed"} ELSE slips
    /\ NextRound
    /\ UNCHANGED <<topoVars, coordVars, producerState, pendingVars, globalLock,
                   cmdVars, failed, robbed>>

\* getNextBatch returns without a batch after a second, which does not mean
\* that there is nothing in the buffer or with the batcher.
NoBatch ==
    /\ applier = "fetch"
    /\ applier' = "signal"
    /\ slips' = IF unapplied > 0 THEN slips \cup {"missed"}
                                 ELSE slips \ {"missed"}
    /\ UNCHANGED <<topoVars, coordVars, syncVars, pendingVars, globalLock,
                   cmdVars, termWhenBufferIsEmpty, failed, robbed>>

\* signalDrainComplete, the first check.
SignalDrain ==
    /\ MutexFree /\ applier = "signal"
    /\ \/ /\ applierState = "Draining"
          /\ applier' = "lock" /\ UNCHANGED termWhenBufferIsEmpty
       \/ applierState # "Draining" /\ NextRound
    /\ UNCHANGED <<topoVars, coordVars, syncVars, pendingVars, globalLock,
                   cmdVars, auxVars>>

\* A mutant: any term will do.
CanCompleteTransitionToPrimary_AnyTerm(t) ==
    leaderMode \in {"kLeaderElect", "kAttemptingStepDown"}
CanCompleteTransitionToPrimary(t) ==
    t = term /\ leaderMode \in {"kLeaderElect", "kAttemptingStepDown"}

\* The global lock is obtained, and drain mode is left if all is as before.
LeaveDrainMode ==
    /\ applier = "lock" /\ globalLock = NoOwner
    /\ IF /\ applierState = "Draining"
          /\ CanCompleteTransitionToPrimary(termWhenBufferIsEmpty)
       THEN /\ applierState' = "Stopped"
            /\ applier' = "transition" /\ globalLock' = Applier
       ELSE applier' = "top" /\ UNCHANGED <<applierState, globalLock>>
    /\ termWhenBufferIsEmpty' = 0
    /\ UNCHANGED <<topoVars, memberState, canAcceptNonLocalWrites, catchup,
                   syncVars, pendingVars, cmdVars, auxVars>>

\* The "new primary" entry is logged (in the current term), and writes are
\* allowed, unless the member is stepping down by now.
CompleteTransitionToPrimary ==
    /\ applier = "transition"
    /\ applier' = "top" /\ globalLock' = NoOwner
    /\ IF CanCompleteTransitionToPrimary(term)
       THEN /\ leaderMode' = IF leaderMode = "kLeaderElect" THEN "kMaster"
                                                            ELSE leaderMode
            /\ firstOpTimeOfMyTerm' = term
            /\ slips' = slips \ {"givenUp"}
            /\ UNCHANGED <<term, role, electionTerm>>
            /\ UpdateMemberState
       ELSE UNCHANGED <<topoVars, coordVars, producerState, slips>>
    /\ UNCHANGED <<unapplied, pendingVars, cmdVars, termWhenBufferIsEmpty,
                   failed, robbed>>

-----------------------------------------------------------------------------
(* Stepping down for a heartbeat or for a higher term *)

PrepareForUnconditionalStepDown ==
    /\ leaderMode # "kSteppingDown"
    /\ leaderMode' = "kSteppingDown" /\ stepDownPending' = TRUE
    /\ UNCHANGED <<term, role>>

\* _updateTerm_inlock
UpdateTerm(t) ==
    /\ MutexFree /\ t > term
    /\ \/ /\ role = "leader"
          /\ PrepareForUnconditionalStepDown
       \/ /\ role # "leader"
          /\ term' = t
          /\ UNCHANGED <<role, leaderMode, stepDownPending>>
    /\ UNCHANGED <<firstOpTimeOfMyTerm, electionTerm, coordVars, syncVars,
                   winning, starting, globalLock, cmdVars, applierVars, auxVars>>

\* The heartbeats of a leader tell it to step down.
StepDownSelf ==
    /\ MutexFree /\ role = "leader"
    /\ PrepareForUnconditionalStepDown
    /\ UNCHANGED <<firstOpTimeOfMyTerm, electionTerm, coordVars, syncVars,
                   winning, starting, globalLock, cmdVars, applierVars, auxVars>>

\* _stepDownSelfAndReplaceWith
StepDownSelfAndReplace ==
    /\ role' = "follower" /\ leaderMode' = "kNotLeader"
    /\ slips' = slips \cap {"missed"}
    /\ UNCHANGED <<term, firstOpTimeOfMyTerm, electionTerm>>

StepDownFinish ==
    /\ stepDownPending /\ globalLock = NoOwner
    /\ stepDownPending' = FALSE
    /\ StepDownSelfAndReplace
    /\ UpdateMemberState
    /\ UNCHANGED <<unapplied, winning, starting, globalLock, cmdVars,
                   applierVars, failed, robbed>>

-----------------------------------------------------------------------------
(* The replSetStepDown command *)

StepDown(c) ==
    /\ cmd[c] = "idle" /\ MutexFree /\ memberState = "PRIMARY"
    /\ cmd' = [cmd EXCEPT ![c] = "locking"]
    /\ UNCHANGED <<topoVars, coordVars, syncVars, pendingVars, globalLock,
                   termAtStart, applierVars, auxVars>>

\* The global lock is not obtained in time, or the command is interrupted.
LockTimeout(c) ==
    /\ cmd[c] = "locking"
    /\ cmd' = [cmd EXCEPT ![c] = "idle"]
    /\ UNCHANGED <<topoVars, coordVars, syncVars, pendingVars, globalLock,
                   termAtStart, applierVars, auxVars>>

\* _setLeaderMode: the modes that kAttemptingStepDown may follow.
MayAttempt == {"kLeaderElect", "kMaster"}

\* A mutant: only an attempt is in the way.
AlreadySteppingDown_OnlyAttempts == leaderMode = "kAttemptingStepDown"
AlreadySteppingDown ==
    leaderMode \in {"kSteppingDown", "kAttemptingStepDown"}

PrepareForStepDownAttempt(c) ==
    /\ cmd[c] = "locking" /\ globalLock = NoOwner
    /\ \/ /\ AlreadySteppingDown
          /\ cmd' = [cmd EXCEPT ![c] = "idle"]
          /\ UNCHANGED <<leaderMode, coordVars, producerState, globalLock,
                         termAtStart, role>>
       \/ /\ ~AlreadySteppingDown
          /\ leaderMode \in MayAttempt
          /\ leaderMode' = "kAttemptingStepDown" /\ UNCHANGED role
          /\ UpdateMemberState
          /\ cmd' = [cmd EXCEPT ![c] = "attempting"]
          /\ termAtStart' = [termAtStart EXCEPT ![c] = term]
          /\ globalLock' = c
    /\ UNCHANGED <<term, firstOpTimeOfMyTerm, electionTerm, unapplied,
                   pendingVars, applierVars, auxVars>>

\* The assertion of _setLeaderMode fails.
PrepareFails(c) ==
    /\ cmd[c] = "locking" /\ globalLock = NoOwner
    /\ ~AlreadySteppingDown /\ leaderMode \notin MayAttempt
    /\ Fails("setLeaderMode")

\* attemptStepDown does not throw PrimarySteppedDown.
\* A mutant: the term is not compared.
StillPrimary_AnyTerm(c) == role = "leader" /\ leaderMode # "kSteppingDown"
StillPrimary(c) ==
    /\ role = "leader" /\ leaderMode # "kSteppingDown"
    /\ term = termAtStart[c]

\* No electable member has caught up yet: the locks are released.
AttemptFails(c) ==
    /\ cmd[c] = "attempting" /\ StillPrimary(c)
    /\ leaderMode = "kAttemptingStepDown"
    /\ cmd' = [cmd EXCEPT ![c] = "waiting"]
    /\ globalLock' = NoOwner
    /\ UNCHANGED <<topoVars, coordVars, syncVars, pendingVars, termAtStart,
                   applierVars, auxVars>>

\* A mutant: the command is not woken up when the member has stepped down.
RetryAttempt_NotWoken(c) ==
    /\ cmd[c] = "waiting" /\ globalLock = NoOwner /\ memberState = "PRIMARY"
    /\ cmd' = [cmd EXCEPT ![c] = "attempting"]
    /\ globalLock' = c
    /\ UNCHANGED <<topoVars, coordVars, syncVars, pendingVars, termAtStart,
                   applierVars, auxVars>>
\* The wait is over, for whatever reason, and the locks are taken again.
RetryAttempt(c) ==
    /\ cmd[c] = "waiting" /\ globalLock = NoOwner
    /\ cmd' = [cmd EXCEPT ![c] = "attempting"]
    /\ globalLock' = c
    /\ UNCHANGED <<topoVars, coordVars, syncVars, pendingVars, termAtStart,
                   applierVars, auxVars>>

CommandReturns(c) ==
    /\ cmd' = [cmd EXCEPT ![c] = "idle"]
    /\ termAtStart' = [termAtStart EXCEPT ![c] = 0]
    /\ globalLock' = NoOwner
    /\ UNCHANGED failed

\* Another member has caught up, or the step down is forced.
AttemptSucceeds(c) ==
    /\ cmd[c] = "attempting" /\ StillPrimary(c)
    /\ leaderMode = "kAttemptingStepDown"
    /\ StepDownSelfAndReplace
    /\ UpdateMemberState
    /\ CommandReturns(c)
    /\ robbed' = robbed \ {c}
    /\ UNCHANGED <<unapplied, pendingVars, applierVars>>

\* invariant(_leaderMode == kAttemptingStepDown) fails.
AttemptGone(c) ==
    /\ cmd[c] = "attempting" /\ StillPrimary(c)
    /\ leaderMode # "kAttemptingStepDown"
    /\ Fails("attemptStepDown")

\* A mutant: the mode is not restored.
AbortedMode_Stays == leaderMode
AbortedMode ==
    IF leaderMode = "kAttemptingStepDown" THEN "kMaster" ELSE leaderMode

\* An attempt that another command has begun, and that goes on.
Victims(c) ==
    {d \in Commands \ {c} : cmd[d] = "waiting" /\ StillPrimary(d)}

\* The member is stepping down or has stepped down for another reason, a time
\* limit is over, or the command was interrupted (abortAttemptedStepDownIfNeeded).
\* Whoever has begun the attempt, and in whatever mode, the mode is kMaster now.
AbortAttempt(c) ==
    /\ cmd[c] = "attempting" /\ role # "candidate"
    /\ leaderMode' = AbortedMode
    /\ UNCHANGED <<term, role, firstOpTimeOfMyTerm, electionTerm>>
    /\ UpdateMemberState
    /\ CommandReturns(c)
    /\ IF leaderMode = "kAttemptingStepDown"
       THEN /\ slips' = slips \cup
                        {s \in {"givenUp"} : firstOpTimeOfMyTerm # term}
            /\ robbed' = (robbed \cup Victims(c)) \ {c}
       ELSE robbed' = robbed \ {c} /\ UNCHANGED slips
    /\ UNCHANGED <<unapplied, pendingVars, applierVars>>

\* The member runs for election by now: the assertion fails that a candidate
\* whose state does not change is alone in its set.
AbortFails(c) ==
    /\ cmd[c] = "attempting" /\ role = "candidate"
    /\ Fails("updateMemberState")

-----------------------------------------------------------------------------
ElectionStep ==
    \/ RunForElection
    \/ LoseElection
    \/ CountVotes
    \/ WinElection
    \/ \E t \in Terms : StartCatchup(t) \/ StartCatchupFails(t)
    \/ AbortCatchup
    \/ \E t \in Terms : UpdateTerm(t)
    \/ StepDownSelf
    \/ StepDownFinish

ProducerStep ==
    \/ StartProducer
    \/ EnqueueDocuments

ApplierStep ==
    \/ ApplierReadsTerm
    \/ MultiApply
    \/ NoBatch
    \/ SignalDrain
    \/ LeaveDrainMode
    \/ CompleteTransitionToPrimary

CommandStep(c) ==
    \/ StepDown(c)
    \/ LockTimeout(c)
    \/ PrepareForStepDownAttempt(c)
    \/ PrepareFails(c)
    \/ AttemptFails(c)
    \/ RetryAttempt(c)
    \/ AttemptSucceeds(c)
    \/ AttemptGone(c)
    \/ AbortAttempt(c)
    \/ AbortFails(c)

Step ==
    \/ ElectionStep
    \/ ProducerStep
    \/ ApplierStep
    \/ \E c \in Commands : CommandStep(c)

\* One life of the server: an assertion that fails ends it.
Next ==
    \/ Running /\ Step
    \/ ~Running /\ UNCHANGED vars

Spec == Init /\ [][Next]_vars

\* What is scheduled on the executor.
Scheduled ==
    \/ \E t \in Terms : StartCatchup(t) \/ StartCatchupFails(t)
    \/ AbortCatchup
    \/ StepDownFinish

\* A command that waits goes on; a time limit ends one that does not succeed.
CommandProceeds(c) ==
    LockTimeout(c) \/ PrepareForStepDownAttempt(c) \/ PrepareFails(c)
        \/ RetryAttempt(c)

CommandEnds(c) ==
    AttemptSucceeds(c) \/ AttemptGone(c) \/ AbortAttempt(c) \/ AbortFails(c)

\* The executor runs what is scheduled, catch-up ends, the applier runs, and a
\* command waits for a bounded time.  Fairness is strong because the mutex and
\* the global lock come and go: a thread that waits for one of them gets it in
\* the end (for the lock see CallsReturn of LockManager).
Fairness ==
    /\ SF_vars(Running /\ Scheduled)
    /\ SF_vars(Running /\ ApplierStep)
    /\ \A c \in Commands : /\ SF_vars(Running /\ CommandProceeds(c))
                           /\ SF_vars(Running /\ CommandEnds(c))

FairSpec == Spec /\ Fairness

-----------------------------------------------------------------------------
(* Properties *)

\* "Replicatable writes are forbidden while in drain mode" and until the entry
\* is logged below which the primary commits nothing.
WritesOnlyWhenDrained ==
    canAcceptNonLocalWrites =>
        applierState = "Stopped" /\ firstOpTimeOfMyTerm = term

\* The drain comes before the writes.  "The applier signals drain complete when
\* the buffer is empty", unless it missed what was there; and writes are
\* accepted by a primary that has logged the first entry of its term and has
\* left drain mode, unless an attempt to step down that began earlier was
\* given up, or a late thread has started catch-up once more.
DrainSafe ==
    /\ canAcceptNonLocalWrites =>
          /\ memberState = "PRIMARY"
          /\ leaderMode \in {"kMaster", "kSteppingDown"}
          /\ \/ "givenUp" \in slips
             \/ /\ firstOpTimeOfMyTerm = term
                /\ applierState = "Stopped" \/ "late" \in slips
                /\ unapplied = 0 \/ "missed" \in slips
    /\ applier = "transition" =>
          /\ memberState = "PRIMARY" /\ ~canAcceptNonLocalWrites
          /\ unapplied = 0 \/ "missed" \in slips

\* The role, the mode, the member state and the scheduled step down agree
\* (assertions of getMemberState, processWinElection, finishUnconditionalStepDown
\* and _updateMemberStateFromTopologyCoordinator_inlock).
ModesAgree ==
    /\ role = "leader" <=> leaderMode # "kNotLeader"
    /\ role = "leader" <=> memberState = "PRIMARY"
    /\ stepDownPending <=> leaderMode = "kSteppingDown"
    /\ leaderMode = "kMaster" => canAcceptNonLocalWrites
    /\ winning => role = "candidate"

\* The command that has begun the present attempt.
Owns(c) ==
    /\ cmd[c] \in {"attempting", "waiting"} /\ StillPrimary(c)
    /\ c \notin robbed

\* "OnlyOneStepDownCmdIsAllowedAtATime": an attempt belongs to one command, which
\* finds it as it left it unless the member stepped down or it was robbed.
OneAttempt ==
    /\ \A c, d \in Commands : Owns(c) /\ Owns(d) => c = d
    /\ leaderMode = "kAttemptingStepDown" <=> \E c \in Commands : Owns(c)

\* The states of the producer and the applier, as replication_coordinator.h
\* describes them.
ProducerApplierStates ==
    /\ memberState = "SECONDARY" =>
          applierState = "Running" /\ producerState # "Stopped"
    /\ applierState = "Running" <=> producerState # "Stopped"
    /\ catchup => /\ memberState = "PRIMARY"
                  /\ applierState = "Running" \/ "late" \in slips

\* The assertions on attempts and on catch-up fail only for a command that was
\* robbed of its attempt, and for threads of two elections.
FailuresExplained ==
    /\ failed = "attemptStepDown" => \E c \in robbed : cmd[c] = "attempting"
    /\ failed = "winElection" => \E t \in starting : t # term \/ "late" \in slips

\* The states that several locks guard agree between critical sections: mode and
\* role, attempts and commands, producer and applier.
StatesAgree ==
    ModesAgree /\ OneAttempt /\ ProducerApplierStates /\ FailuresExplained

\* The diagram of TopologyCoordinator::LeaderMode, which _setLeaderMode asserts.
ValidTransitions ==
    {<<"kNotLeader", "kLeaderElect">>,
     <<"kLeaderElect", "kMaster">>,
     <<"kLeaderElect", "kAttemptingStepDown">>,
     <<"kLeaderElect", "kSteppingDown">>,
     <<"kMaster", "kAttemptingStepDown">>, <<"kMaster", "kSteppingDown">>,
     <<"kAttemptingStepDown", "kMaster">>,
     <<"kAttemptingStepDown", "kSteppingDown">>,
     <<"kAttemptingStepDown", "kNotLeader">>,
     <<"kSteppingDown", "kNotLeader">>}

\* The mode changes only along the diagram; the assertion of _setLeaderMode
\* fails only for a command that waited for the lock while the member stepped
\* down; and a command is robbed of its attempt only by one that began in an
\* earlier term or was robbed itself.
LeaderModeTransitions ==
    [][/\ leaderMode' # leaderMode
             => <<leaderMode, leaderMode'>> \in ValidTransitions
       /\ failed' = "setLeaderMode" => leaderMode = "kNotLeader"
       /\ robbed' \subseteq robbed \/
             \E c \in Commands : /\ cmd[c] = "attempting" /\ cmd'[c] = "idle"
                                 /\ c \in robbed \/ termAtStart[c] # term]_vars

\* A member that wins an election accepts writes in the end, or steps down, or
\* ends with a failed assertion.
LeadersAcceptWrites ==
    role = "leader" ~> canAcceptNonLocalWrites \/ role # "leader" \/ ~Running

\* replSetStepDown returns, unless the server ends.
CommandsReturn ==
    \A c \in Commands : cmd[c] # "idle" ~> cmd[c] = "idle" \/ ~Running
=============================================================================
