---------------------------- MODULE LockManager ----------------------------
(***************************************************************************)
(* The lock manager of db/concurrency (lock_manager.cpp) together with the  *)
(* part of the Locker that drives it (lockBegin, lockComplete, _unlockImpl  *)
(* in lock_state.cpp), for ONE resource.                                    *)
(*                                                                         *)
(* Every locker has its own thread and at most one LockRequest for the      *)
(* resource, so requests are identified with lockers.  The steps are the    *)
(* critical sections of the code: a partition mutex section is one step; a  *)
(* bucket mutex section is one step per partition mutex it takes, per       *)
(* request it migrates, per iteration of _onLockModeChanged and per         *)
(* notification it sends, with bucketOwner the thread that holds the mutex. *)
(* What the code reads without a mutex is read in a step of its own.        *)
(***************************************************************************)
EXTENDS Integers, Sequences, FiniteSets, SequencesExt, LockModes

CONSTANTS
    Lockers,             \* the lockers, one thread each
    Cleaner,             \* the thread that runs cleanupUnusedLocks
    NoOwner,             \* the bucket mutex is free
    Partitions,          \* the partitions of the lock manager
    PartitionOf,         \* the partition of a locker: its id modulo their number
    RequestModes,        \* the modes the lockers ask for
    Priority,            \* is this RESOURCE_GLOBAL (or the MMAPv1 flush lock)?
    UpgradeModes,        \* the modes to which lockers upgrade what they hold
    LockTimeouts,        \* do waits for a new lock have a finite timeout?
    ConversionTimeouts,  \* do waits for a conversion have one?
    MaxRecursion,        \* bound on recursiveCount
    CountModulus         \* 2^32: compatibleFirstCount is a uint32_t

ASSUME LockersAssumption ==
    /\ IsFiniteSet(Lockers)
    /\ Cleaner \notin Lockers
    /\ NoOwner \notin Lockers \cup {Cleaner}

ASSUME PartitionAssumption == PartitionOf \in [Lockers -> Partitions]

ASSUME OptionsAssumption ==
    /\ RequestModes \subseteq Modes /\ UpgradeModes \subseteq Modes
    /\ {Priority, LockTimeouts, ConversionTimeouts} \subseteq BOOLEAN
    /\ MaxRecursion \in Nat \ {0}
    /\ CountModulus \in Nat
    /\ CountModulus > Cardinality(Lockers)

VARIABLES
    \* LockRequest of each locker ("none": the locker has no request)
    status, mode, convertMode, recursiveCount, partitioned, compatibleFirst,
    where,               \* the structure whose lists the request is on
    \* LockHead
    headExists, grantedList, grantedCounts, conflictList, conflictCounts,
    partitions, conversionsCount, compatibleFirstCount,
    \* PartitionedLockHead of each partition
    plhExists, plhList,
    \* Threads
    pc, want, bucketOwner, scan, notify

requestVars == <<status, mode, convertMode, recursiveCount, partitioned,
                 compatibleFirst, where>>
headVars == <<headExists, grantedList, grantedCounts, conflictList,
              conflictCounts, partitions, conversionsCount,
              compatibleFirstCount>>
plhVars == <<plhExists, plhList>>
threadVars == <<pc, want, bucketOwner, scan, notify>>
vars == <<requestVars, headVars, plhVars, threadVars>>

Threads == Lockers \cup {Cleaner}

Statuses == {"none", "new", "granted", "waiting", "converting"}

PcValues == {"idle", "lock", "convert", "downgrade", "waiting", "timedOut",
             "unlock", "migrate", "moving", "cleanup", "convScan",
             "convNotify", "conflictScan", "conflictNotify", "scanDone"}

NoScan == [pos |-> 1, check |-> FALSE, newly |-> FALSE]

ScanStates == [pos : Nat \ {0}, check : BOOLEAN, newly : BOOLEAN]

TypeOK ==
    /\ status \in [Lockers -> Statuses]
    /\ mode \in [Lockers -> AnyMode]
    /\ convertMode \in [Lockers -> AnyMode]
    /\ recursiveCount \in [Lockers -> Nat]
    /\ partitioned \in [Lockers -> BOOLEAN]
    /\ compatibleFirst \in [Lockers -> BOOLEAN]
    /\ where \in [Lockers -> {"none", "partition", "head"}]
    /\ headExists \in BOOLEAN
    /\ grantedList \in Seq(Lockers)
    /\ grantedCounts \in [Modes -> Nat]
    /\ conflictList \in Seq(Lockers)
    /\ conflictCounts \in [Modes -> Nat]
    /\ partitions \in Seq(Partitions)
    /\ conversionsCount \in Nat
    /\ compatibleFirstCount \in Nat
    /\ plhExists \in [Partitions -> BOOLEAN]
    /\ plhList \in [Partitions -> Seq(Lockers)]
    /\ pc \in [Threads -> PcValues]
    /\ want \in [Lockers -> AnyMode]
    /\ bucketOwner \in Threads \cup {NoOwner}
    /\ scan \in ScanStates
    /\ notify \in [Lockers -> {"INVALID", "OK"}]

-----------------------------------------------------------------------------
(***************************************************************************)
(* The LockHead                                                            *)
(***************************************************************************)

\* The masks grantedModes and conflictModes are kept in lock-step with the counts.
grantedModes == {m \in Modes : grantedCounts[m] > 0}
conflictModes == {m \in Modes : conflictCounts[m] > 0}

Inc(counts, m) == [counts EXCEPT ![m] = @ + 1]
Dec(counts, m) == [counts EXCEPT ![m] = @ - 1]

\* A mutant: the new mode is not counted.
ReplaceMode_ForgetsNew(counts, new, old) == Dec(counts, old)
\* A granted request changes its mode from old to new.
ReplaceMode(counts, new, old) == Dec(Inc(counts, new), old)

\* LockRequestList::remove: the list without the (only) entry of r.
Unlink(list, r) == RemoveAt(list, CHOOSE i \in DOMAIN list : list[i] = r)

\* A mutant: forgets the requests that are already waiting.
MustWait_IgnoresQueue(r) == conflicts(mode[r], grantedModes)
MustWait(r) ==
    \/ conflicts(mode[r], grantedModes)
    \/ compatibleFirstCount = 0 /\ conflicts(mode[r], conflictModes)

\* compatibleFirstCount when request r is granted, and when it is released.
PolicyAcquired(r) ==
    IF compatibleFirst[r] THEN (compatibleFirstCount + 1) % CountModulus
                          ELSE compatibleFirstCount
PolicyReleased(r) ==
    IF compatibleFirst[r] THEN (compatibleFirstCount - 1) % CountModulus
                          ELSE compatibleFirstCount

\* LockHead::newRequest, for a new request and for one that is migrated.
NewRequest(r) ==
    /\ where' = [where EXCEPT ![r] = "head"]
    /\ \/ /\ MustWait(r)
          /\ status' = [status EXCEPT ![r] = "waiting"]
          /\ conflictList' = IF compatibleFirst[r] THEN Cons(r, conflictList)
                                                   ELSE Append(conflictList, r)
          /\ conflictCounts' = Inc(conflictCounts, mode[r])
          /\ UNCHANGED <<grantedList, grantedCounts, compatibleFirstCount>>
       \/ /\ ~MustWait(r)
          /\ status' = [status EXCEPT ![r] = "granted"]
          /\ grantedList' = Append(grantedList, r)
          /\ grantedCounts' = Inc(grantedCounts, mode[r])
          /\ compatibleFirstCount' = PolicyAcquired(r)
          /\ UNCHANGED <<conflictList, conflictCounts>>

\* The granted modes without those that request r, with convertMode cm, accounts for.
GrantedWithout(r, cm) ==
    {m \in Modes : grantedCounts[m] > (IF m \in {mode[r], cm} THEN 1 ELSE 0)}

-----------------------------------------------------------------------------
(***************************************************************************)
(* Mutexes and calls                                                       *)
(***************************************************************************)

BucketFree == bucketOwner = NoOwner

\* Thread t is at the bucket mutex section of its call and may go on with it.
InBucket(t, label) == pc[t] = label /\ bucketOwner \in {NoOwner, t}

\* The migrating thread holds the mutex of the partition whose requests it moves.
PartitionFree(p) ==
    \A t \in Threads : pc[t] = "moving" => Last(partitions) # p

Goto(t, label) == pc' = [pc EXCEPT ![t] = label]

\* The call of thread t that found the lock partitioned.
InterruptedCall(t) ==
    IF t = Cleaner THEN "cleanup"
    ELSE IF status[t] = "new" THEN "lock" ELSE "convert"

\* lockBegin gives priority to the full modes of the global and flush locks.
\* (enqueueAtFront and compatibleFirst are always set together.)
GivesPriority(m) == Priority /\ m \in {"S", "X"}

\* A mutant: the result of the previous wait stays.
ClearNotify_Forgotten(l) == UNCHANGED notify
\* The notification object is cleared before the lock manager is called.
ClearNotify(l) == notify' = [notify EXCEPT ![l] = "INVALID"]

\* A locker that is in no call and holds the resource.
Holder(l) == pc[l] = "idle" /\ status[l] = "granted" /\ where[l] # "none"

-----------------------------------------------------------------------------
Init ==
    /\ status = [l \in Lockers |-> "none"]
    /\ mode = [l \in Lockers |-> NoMode]
    /\ convertMode = [l \in Lockers |-> NoMode]
    /\ recursiveCount = [l \in Lockers |-> 0]
    /\ partitioned = [l \in Lockers |-> FALSE]
    /\ compatibleFirst = [l \in Lockers |-> FALSE]
    /\ where = [l \in Lockers |-> "none"]
    /\ headExists = FALSE
    /\ grantedList = <<>>
    /\ grantedCounts = [m \in Modes |-> 0]
    /\ conflictList = <<>>
    /\ conflictCounts = [m \in Modes |-> 0]
    /\ partitions = <<>>
    /\ conversionsCount = 0
    /\ compatibleFirstCount = 0
    /\ plhExists = [p \in Partitions |-> FALSE]
    /\ plhList = [p \in Partitions |-> <<>>]
    /\ pc = [t \in Threads |-> "idle"]
    /\ want = [l \in Lockers |-> NoMode]
    /\ bucketOwner = NoOwner
    /\ scan = NoScan
    /\ notify = [l \in Lockers |-> "INVALID"]

-----------------------------------------------------------------------------
(***************************************************************************)
(* lockBegin and LockManager::lock                                         *)
(***************************************************************************)

\* The request is created and asked for in mode m, up to the bucket mutex: an
\* intent mode is granted at once when its partition has a PartitionedLockHead.
LockBegin(l, m) ==
    LET p == PartitionOf[l]
        intent == m \in intentModes
    IN  /\ pc[l] = "idle" /\ status[l] = "none"
        /\ intent => PartitionFree(p)
        /\ mode' = [mode EXCEPT ![l] = m]
        /\ recursiveCount' = [recursiveCount EXCEPT ![l] = 1]
        /\ partitioned' = [partitioned EXCEPT ![l] = intent]
        /\ compatibleFirst' = [compatibleFirst EXCEPT ![l] = GivesPriority(m)]
        /\ ClearNotify(l)
        /\ \/ /\ intent /\ plhExists[p]
              /\ status' = [status EXCEPT ![l] = "granted"]
              /\ where' = [where EXCEPT ![l] = "partition"]
              /\ plhList' = [plhList EXCEPT ![p] = Append(@, l)]
              /\ UNCHANGED pc
           \/ /\ ~(intent /\ plhExists[p])
              /\ status' = [status EXCEPT ![l] = "new"]
              /\ Goto(l, "lock")
              /\ UNCHANGED <<where, plhList>>
        /\ UNCHANGED <<convertMode, headVars, plhExists, want, bucketOwner, scan>>

\* Mutants: each drops one of the conditions.
CanPartition_IgnoresGranted(l) == partitioned[l] /\ conflictModes = {}
CanPartition_IgnoresQueue(l) == partitioned[l] /\ grantedModes \subseteq intentModes
CanPartition(l) ==
    partitioned[l] /\ grantedModes \subseteq intentModes /\ conflictModes = {}

\* The request starts, or joins, a PartitionedLockHead in its partition.
LockStartPartition(l) ==
    LET p == PartitionOf[l]
    IN  /\ InBucket(l, "lock")
        /\ CanPartition(l)
        /\ headExists' = TRUE
        /\ plhExists' = [plhExists EXCEPT ![p] = TRUE]
        /\ plhList' = [plhList EXCEPT ![p] = Append(@, l)]
        /\ partitions' = Append(partitions, p)
        /\ status' = [status EXCEPT ![l] = "granted"]
        /\ where' = [where EXCEPT ![l] = "partition"]
        /\ bucketOwner' = NoOwner
        /\ Goto(l, "idle")
        /\ UNCHANGED <<mode, convertMode, recursiveCount, partitioned,
                       compatibleFirst, grantedList, grantedCounts,
                       conflictList, conflictCounts, conversionsCount,
                       compatibleFirstCount, want, scan, notify>>

LockMigrate(l) ==
    /\ InBucket(l, "lock")
    /\ ~CanPartition(l) /\ partitions # <<>>
    /\ bucketOwner' = l
    /\ Goto(l, "migrate")
    /\ UNCHANGED <<requestVars, headVars, plhVars, want, scan, notify>>

LockNewRequest(l) ==
    /\ InBucket(l, "lock")
    /\ ~CanPartition(l) /\ partitions = <<>>
    /\ headExists' = TRUE
    /\ partitioned' = [partitioned EXCEPT ![l] = FALSE]
    /\ NewRequest(l)
    /\ bucketOwner' = NoOwner
    /\ Goto(l, IF MustWait(l) THEN "waiting" ELSE "idle")
    /\ UNCHANGED <<mode, convertMode, recursiveCount, compatibleFirst,
                   partitions, conversionsCount, plhVars, want, scan, notify>>

-----------------------------------------------------------------------------
(***************************************************************************)
(* LockHead::migratePartitionedLockHeads, on behalf of lock, convert or     *)
(* cleanupUnusedLocks                                                      *)
(***************************************************************************)

\* Takes the mutex of the last partition.
MigrateBegin(t) ==
    /\ pc[t] = "migrate" /\ bucketOwner = t
    /\ Goto(t, "moving")
    /\ UNCHANGED <<requestVars, headVars, plhVars, want, bucketOwner, scan, notify>>

\* Moves the first request of the partition to the LockHead.
MigrateMove(t) ==
    LET p == Last(partitions)
    IN  /\ pc[t] = "moving" /\ bucketOwner = t
        /\ plhExists[p] /\ plhList[p] # <<>>
        /\ plhList' = [plhList EXCEPT ![p] = Tail(@)]
        /\ NewRequest(Head(plhList[p]))
        /\ UNCHANGED <<mode, convertMode, recursiveCount, partitioned,
                       compatibleFirst, headExists, partitions,
                       conversionsCount, plhExists, threadVars>>

\* Deletes the PartitionedLockHead, pops the partition and releases its mutex.
MigrateEnd(t) ==
    LET p == Last(partitions)
    IN  /\ pc[t] = "moving" /\ bucketOwner = t
        /\ plhExists[p] => plhList[p] = <<>>
        /\ plhExists' = [plhExists EXCEPT ![p] = FALSE]
        /\ partitions' = Front(partitions)
        /\ Goto(t, IF Len(partitions) > 1 THEN "migrate" ELSE InterruptedCall(t))
        /\ UNCHANGED <<requestVars, headExists, grantedList, grantedCounts,
                       conflictList, conflictCounts, conversionsCount,
                       compatibleFirstCount, plhList, want, bucketOwner, scan,
                       notify>>

-----------------------------------------------------------------------------
(***************************************************************************)
(* LockManager::convert                                                    *)
(***************************************************************************)

\* A locker that holds the resource locks it again, in mode m.
ConvertBegin(l, m) ==
    /\ Holder(l)
    /\ recursiveCount[l] < MaxRecursion
    /\ \/ isModeCovered(m, mode[l])
       \/ m \in UpgradeModes /\ isModeCovered(mode[l], m)
    /\ recursiveCount' = [recursiveCount EXCEPT ![l] = @ + 1]
    /\ compatibleFirst' = IF GivesPriority(m)
                          THEN [compatibleFirst EXCEPT ![l] = TRUE]
                          ELSE compatibleFirst
    /\ ClearNotify(l)
    /\ IF isModeCovered(m, mode[l])
       THEN UNCHANGED <<pc, want>>
       ELSE Goto(l, "convert") /\ want' = [want EXCEPT ![l] = m]
    /\ UNCHANGED <<status, mode, convertMode, partitioned, where, headVars,
                   plhVars, bucketOwner, scan>>

ConvertMigrate(l) ==
    /\ InBucket(l, "convert")
    /\ partitions # <<>>
    /\ bucketOwner' = l
    /\ Goto(l, "migrate")
    /\ UNCHANGED <<requestVars, headVars, plhVars, want, scan, notify>>

Convert(l) ==
    LET newMode == want[l]
        wait == conflicts(newMode, GrantedWithout(l, NoMode))
    IN  /\ InBucket(l, "convert")
        /\ partitions = <<>>
        /\ IF wait
           THEN /\ status' = [status EXCEPT ![l] = "converting"]
                /\ convertMode' = [convertMode EXCEPT ![l] = newMode]
                /\ conversionsCount' = conversionsCount + 1
                /\ grantedCounts' = Inc(grantedCounts, newMode)
                /\ UNCHANGED mode
           ELSE /\ grantedCounts' = ReplaceMode(grantedCounts, newMode, mode[l])
                /\ mode' = [mode EXCEPT ![l] = newMode]
                /\ UNCHANGED <<status, convertMode, conversionsCount>>
        /\ want' = [want EXCEPT ![l] = NoMode]
        /\ bucketOwner' = NoOwner
        /\ Goto(l, IF wait THEN "waiting" ELSE "idle")
        /\ UNCHANGED <<recursiveCount, partitioned, compatibleFirst, where,
                       headExists, grantedList, conflictList, conflictCounts,
                       partitions, compatibleFirstCount, plhVars, scan, notify>>

-----------------------------------------------------------------------------
(***************************************************************************)
(* lockComplete                                                            *)
(***************************************************************************)

WaitOk(l) ==
    /\ pc[l] = "waiting" /\ notify[l] = "OK"
    /\ Goto(l, "idle")
    /\ UNCHANGED <<requestVars, headVars, plhVars, want, bucketOwner, scan, notify>>

\* The wait ends by the timeout (or by deadlock detection): nothing has been
\* notified yet, but the request may be granted before it is cancelled.
WaitTimeout(l) ==
    /\ pc[l] = "waiting" /\ notify[l] = "INVALID"
    /\ IF recursiveCount[l] = 1 THEN LockTimeouts ELSE ConversionTimeouts
    /\ Goto(l, "timedOut")
    /\ UNCHANGED <<requestVars, headVars, plhVars, want, bucketOwner, scan, notify>>

-----------------------------------------------------------------------------
(***************************************************************************)
(* _unlockImpl and LockManager::unlock                                     *)
(***************************************************************************)

\* The request is destroyed: LockerImpl removes it from its _requests.
RemoveRequest(l) ==
    /\ status' = [status EXCEPT ![l] = "none"]
    /\ mode' = [mode EXCEPT ![l] = NoMode]
    /\ convertMode' = [convertMode EXCEPT ![l] = NoMode]
    /\ recursiveCount' = [recursiveCount EXCEPT ![l] = 0]
    /\ partitioned' = [partitioned EXCEPT ![l] = FALSE]
    /\ compatibleFirst' = [compatibleFirst EXCEPT ![l] = FALSE]

CallsUnlock(l) == Holder(l) \/ pc[l] = "timedOut"

\* unlock reads the status without a mutex, after it has decremented the count.
IsRecursive(l) == status[l] = "granted" /\ recursiveCount[l] - 1 > 0

UnlockRecursive(l) ==
    /\ CallsUnlock(l) /\ IsRecursive(l)
    /\ recursiveCount' = [recursiveCount EXCEPT ![l] = @ - 1]
    /\ Goto(l, "idle")
    /\ UNCHANGED <<status, mode, convertMode, partitioned, compatibleFirst,
                   where, headVars, plhVars, want, bucketOwner, scan, notify>>

UnlockPartitioned(l) ==
    LET p == PartitionOf[l]
    IN  /\ CallsUnlock(l) /\ ~IsRecursive(l)
        /\ partitioned[l] /\ PartitionFree(p)
        /\ where[l] = "partition"
        /\ plhList' = [plhList EXCEPT ![p] = Unlink(@, l)]
        /\ where' = [where EXCEPT ![l] = "none"]
        /\ RemoveRequest(l)
        /\ Goto(l, "idle")
        /\ UNCHANGED <<headVars, plhExists, want, bucketOwner, scan, notify>>

\* Not, or no longer, on a PartitionedLockHead: on to the bucket mutex.
UnlockToBucket(l) ==
    /\ CallsUnlock(l) /\ ~IsRecursive(l)
    /\ partitioned[l] => PartitionFree(PartitionOf[l])
    /\ where[l] # "partition"
    /\ recursiveCount' = [recursiveCount EXCEPT ![l] = @ - 1]
    /\ Goto(l, "unlock")
    /\ UNCHANGED <<status, mode, convertMode, partitioned, compatibleFirst,
                   where, headVars, plhVars, want, bucketOwner, scan, notify>>

\* A mutant: never looks at the conflict queue.
StartScan_NoRecheck(l, checkConflictQueue) ==
    /\ bucketOwner' = l
    /\ Goto(l, "convScan")
    /\ scan' = NoScan
\* The call of _onLockModeChanged; the thread keeps the bucket mutex.
StartScan(l, checkConflictQueue) ==
    /\ bucketOwner' = l
    /\ Goto(l, "convScan")
    /\ scan' = [NoScan EXCEPT !.check = checkConflictQueue]

UnlockGranted(l) ==
    /\ InBucket(l, "unlock") /\ status[l] = "granted"
    /\ grantedList' = Unlink(grantedList, l)
    /\ grantedCounts' = Dec(grantedCounts, mode[l])
    /\ compatibleFirstCount' = PolicyReleased(l)
    /\ where' = [where EXCEPT ![l] = "none"]
    /\ StartScan(l, grantedCounts'[mode[l]] = 0)
    /\ UNCHANGED <<status, mode, convertMode, recursiveCount, partitioned,
                   compatibleFirst, headExists, conflictList, conflictCounts,
                   partitions, conversionsCount, plhVars, want, notify>>

\* Cancels a pending request.
UnlockWaiting(l) ==
    /\ InBucket(l, "unlock") /\ status[l] = "waiting"
    /\ conflictList' = Unlink(conflictList, l)
    /\ conflictCounts' = Dec(conflictCounts, mode[l])
    /\ where' = [where EXCEPT ![l] = "none"]
    /\ StartScan(l, TRUE)
    /\ UNCHANGED <<status, mode, convertMode, recursiveCount, partitioned,
                   compatibleFirst, headExists, grantedList, grantedCounts,
                   partitions, conversionsCount, compatibleFirstCount, plhVars,
                   want, notify>>

\* A mutant: the mode it waited for stays counted.
CancelConversion_KeepsCount(l) == grantedCounts
CancelConversion(l) == Dec(grantedCounts, convertMode[l])

\* Cancels a pending conversion.  The conflict queue is checked because
\* grantedCounts[MODE_NONE], which the code tests, is always 0.
UnlockConverting(l) ==
    /\ InBucket(l, "unlock") /\ status[l] = "converting"
    /\ status' = [status EXCEPT ![l] = "granted"]
    /\ conversionsCount' = conversionsCount - 1
    /\ grantedCounts' = CancelConversion(l)
    /\ convertMode' = [convertMode EXCEPT ![l] = NoMode]
    /\ StartScan(l, TRUE)
    /\ UNCHANGED <<mode, recursiveCount, partitioned, compatibleFirst, where,
                   headExists, grantedList, conflictList, conflictCounts,
                   partitions, compatibleFirstCount, plhVars, want, notify>>

-----------------------------------------------------------------------------
(***************************************************************************)
(* LockManager::downgrade                                                  *)
(***************************************************************************)

\* Only full modes are downgraded; their requests are on the LockHead.
DowngradeBegin(l, m) ==
    /\ Holder(l) /\ mode[l] \in {"S", "X"}
    /\ m # mode[l] /\ isModeCovered(m, mode[l])
    /\ Goto(l, "downgrade")
    /\ want' = [want EXCEPT ![l] = m]
    /\ UNCHANGED <<requestVars, headVars, plhVars, bucketOwner, scan, notify>>

Downgrade(l) ==
    /\ InBucket(l, "downgrade")
    /\ grantedCounts' = ReplaceMode(grantedCounts, want[l], mode[l])
    /\ mode' = [mode EXCEPT ![l] = want[l]]
    /\ want' = [want EXCEPT ![l] = NoMode]
    /\ StartScan(l, TRUE)
    /\ UNCHANGED <<status, convertMode, recursiveCount, partitioned,
                   compatibleFirst, where, headExists, grantedList,
                   conflictList, conflictCounts, partitions, conversionsCount,
                   compatibleFirstCount, plhVars, notify>>

-----------------------------------------------------------------------------
(***************************************************************************)
(* _onLockModeChanged                                                      *)
(***************************************************************************)

InConvLoop == scan.pos <= Len(grantedList) /\ conversionsCount > 0

\* The conversion of r conflicts with nothing that the others hold or convert to.
CanConvert(r) ==
    /\ status[r] = "converting"
    /\ ~conflicts(convertMode[r], GrantedWithout(r, convertMode[r]))

ConvScanSkip(t) ==
    /\ pc[t] = "convScan" /\ bucketOwner = t
    /\ InConvLoop /\ ~CanConvert(grantedList[scan.pos])
    /\ scan' = [scan EXCEPT !.pos = @ + 1]
    /\ UNCHANGED <<requestVars, headVars, plhVars, pc, want, bucketOwner, notify>>

\* The conversion of the request at the cursor is granted.
ConvScanGrant(t) ==
    LET r == grantedList[scan.pos]
    IN  /\ pc[t] = "convScan" /\ bucketOwner = t
        /\ InConvLoop /\ CanConvert(r)
        /\ conversionsCount' = conversionsCount - 1
        /\ grantedCounts' = Dec(grantedCounts, mode[r])
        /\ status' = [status EXCEPT ![r] = "granted"]
        /\ mode' = [mode EXCEPT ![r] = convertMode[r]]
        /\ convertMode' = [convertMode EXCEPT ![r] = NoMode]
        /\ Goto(t, "convNotify")
        /\ UNCHANGED <<recursiveCount, partitioned, compatibleFirst, where,
                       headExists, grantedList, conflictList, conflictCounts,
                       partitions, compatibleFirstCount, plhVars, want,
                       bucketOwner, scan, notify>>

\* Its thread is notified: only now can it see the result.
ConvScanNotify(t) ==
    /\ pc[t] = "convNotify" /\ bucketOwner = t
    /\ notify' = [notify EXCEPT ![grantedList[scan.pos]] = "OK"]
    /\ scan' = [scan EXCEPT !.pos = @ + 1]
    /\ Goto(t, "convScan")
    /\ UNCHANGED <<requestVars, headVars, plhVars, want, bucketOwner>>

ConvScanEnd(t) ==
    /\ pc[t] = "convScan" /\ bucketOwner = t
    /\ ~InConvLoop
    /\ scan' = [scan EXCEPT !.pos = 1]
    /\ Goto(t, IF scan.check THEN "conflictScan" ELSE "scanDone")
    /\ UNCHANGED <<requestVars, headVars, plhVars, want, bucketOwner, notify>>

InConflictLoop(t) ==
    /\ pc[t] = "conflictScan" /\ bucketOwner = t
    /\ scan.pos <= Len(conflictList)

\* The front of the queue is not overtaken, unless the policy has just
\* switched to compatible-first: then the scan goes on to the end.
StopsScan == scan.pos = 1 /\ ~scan.newly

ConflictScanSkip(t) ==
    /\ InConflictLoop(t)
    /\ conflicts(mode[conflictList[scan.pos]], grantedModes)
    /\ ~StopsScan
    /\ scan' = [scan EXCEPT !.pos = @ + 1]
    /\ UNCHANGED <<requestVars, headVars, plhVars, pc, want, bucketOwner, notify>>

ConflictScanGrant(t) ==
    LET r == conflictList[scan.pos]
    IN  /\ InConflictLoop(t)
        /\ ~conflicts(mode[r], grantedModes)
        /\ status' = [status EXCEPT ![r] = "granted"]
        /\ conflictList' = RemoveAt(conflictList, scan.pos)
        /\ conflictCounts' = Dec(conflictCounts, mode[r])
        /\ grantedList' = Append(grantedList, r)
        /\ grantedCounts' = Inc(grantedCounts, mode[r])
        /\ compatibleFirstCount' = PolicyAcquired(r)
        /\ scan' = [scan EXCEPT !.newly =
                        @ \/ (compatibleFirst[r] /\ compatibleFirstCount = 0)]
        /\ Goto(t, "conflictNotify")
        /\ UNCHANGED <<mode, convertMode, recursiveCount, partitioned,
                       compatibleFirst, where, headExists, partitions,
                       conversionsCount, plhVars, want, bucketOwner, notify>>

\* A mutant: the granted request is not notified.
ConflictScanNotify_Forgets(t) ==
    /\ pc[t] = "conflictNotify" /\ bucketOwner = t
    /\ Goto(t, "conflictScan")
    /\ UNCHANGED <<requestVars, headVars, plhVars, want, bucketOwner, scan, notify>>
\* The request just granted is the last one of the granted list; after MODE_X
\* the rest of the queue is not looked at.
ConflictScanNotify(t) ==
    LET r == Last(grantedList)
    IN  /\ pc[t] = "conflictNotify" /\ bucketOwner = t
        /\ notify' = [notify EXCEPT ![r] = "OK"]
        /\ Goto(t, IF mode[r] = "X" THEN "scanDone" ELSE "conflictScan")
        /\ UNCHANGED <<requestVars, headVars, plhVars, want, bucketOwner, scan>>

ConflictScanEnd(t) ==
    /\ pc[t] = "conflictScan" /\ bucketOwner = t
    /\ InConflictLoop(t) =>
          conflicts(mode[conflictList[scan.pos]], grantedModes) /\ StopsScan
    /\ Goto(t, "scanDone")
    /\ UNCHANGED <<requestVars, headVars, plhVars, want, bucketOwner, scan, notify>>

\* The bucket mutex is released; unlock returns whether the count is 0, in
\* which case the request is destroyed.
ScanReturn(l) ==
    /\ pc[l] = "scanDone" /\ bucketOwner = l
    /\ bucketOwner' = NoOwner
    /\ scan' = NoScan
    /\ Goto(l, "idle")
    /\ IF recursiveCount[l] = 0
       THEN RemoveRequest(l)
       ELSE UNCHANGED <<status, mode, convertMode, recursiveCount, partitioned,
                        compatibleFirst>>
    /\ UNCHANGED <<where, headVars, plhVars, want, notify>>

-----------------------------------------------------------------------------
(***************************************************************************)
(* cleanupUnusedLocks                                                      *)
(***************************************************************************)

CleanupMigrate ==
    /\ pc[Cleaner] = "idle" /\ BucketFree
    /\ headExists /\ partitions # <<>>
    /\ bucketOwner' = Cleaner
    /\ Goto(Cleaner, "migrate")
    /\ UNCHANGED <<requestVars, headVars, plhVars, want, scan, notify>>

\* A mutant: does not migrate the partitions first.
Unpartitioned_Unchecked == TRUE
\* The requests in the partitions have been moved to the LockHead.
Unpartitioned == partitions = <<>>

\* A LockHead on which nothing is granted is deleted.  The code asserts that its
\* lists and counts are then those of a new one (NothingOrphaned, ListsMatch,
\* CompatibleFirstCountMatches), so the next findOrInsert finds them as they are.
Cleanup ==
    /\ \/ pc[Cleaner] = "idle" /\ BucketFree /\ headExists
       \/ InBucket(Cleaner, "cleanup")
    /\ Unpartitioned
    /\ headExists' = (grantedModes # {})
    /\ bucketOwner' = NoOwner
    /\ Goto(Cleaner, "idle")
    /\ UNCHANGED <<requestVars, grantedList, grantedCounts, conflictList,
                   conflictCounts, partitions, conversionsCount,
                   compatibleFirstCount, plhVars, want, scan, notify>>

-----------------------------------------------------------------------------
\* What a locker's thread does when its client calls it.
Call(l) ==
    \/ \E m \in RequestModes :
          LockBegin(l, m) \/ ConvertBegin(l, m) \/ DowngradeBegin(l, m)
    \/ WaitTimeout(l)

\* The first step of unlock.
Unlock(l) == UnlockRecursive(l) \/ UnlockPartitioned(l) \/ UnlockToBucket(l)

\* Acquisitions of the bucket mutex.
EnterBucket(l) ==
    \/ LockStartPartition(l) \/ LockMigrate(l) \/ LockNewRequest(l)
    \/ ConvertMigrate(l) \/ Convert(l) \/ Downgrade(l)
    \/ UnlockGranted(l) \/ UnlockWaiting(l) \/ UnlockConverting(l)

\* Steps of a thread that holds the bucket mutex.
Migrate(t) == MigrateBegin(t) \/ MigrateMove(t) \/ MigrateEnd(t)

Scan(l) ==
    \/ ConvScanSkip(l) \/ ConvScanGrant(l) \/ ConvScanNotify(l) \/ ConvScanEnd(l)
    \/ ConflictScanSkip(l) \/ ConflictScanGrant(l) \/ ConflictScanNotify(l)
    \/ ConflictScanEnd(l) \/ ScanReturn(l)

Next ==
    \/ \E l \in Lockers :
          Call(l) \/ Unlock(l) \/ EnterBucket(l) \/ Scan(l) \/ WaitOk(l)
    \/ \E t \in Threads : Migrate(t)
    \/ CleanupMigrate \/ Cleanup

Spec == Init /\ [][Next]_vars

-----------------------------------------------------------------------------
(***************************************************************************)
(* Fairness.  A thread that is in a call goes on with it; a mutex that is   *)
(* free again and again is eventually obtained by a thread that wants it;   *)
(* operations end, so that a lock that is held is eventually unlocked.      *)
(***************************************************************************)
Fairness ==
    \A l \in Lockers :
        /\ SF_vars(EnterBucket(l))
        /\ SF_vars(Unlock(l))
        /\ WF_vars(Scan(l) \/ WaitOk(l) \/ Migrate(l))

FairSpec ==
    Spec /\ Fairness /\ WF_vars(Migrate(Cleaner) \/ (pc[Cleaner] = "cleanup" /\ Cleanup))

-----------------------------------------------------------------------------
(***************************************************************************)
(* Properties                                                              *)
(***************************************************************************)

\* The mode in which the lock manager has granted the resource to l.
HeldMode(l) ==
    IF where[l] # "none" /\ status[l] \in {"granted", "converting"}
    THEN mode[l] ELSE NoMode

\* No two lockers hold the resource in conflicting modes.
Compatible ==
    \A k, l \in Lockers : k # l => ~conflicts(HeldMode(k), {HeldMode(l)})

\* "Non-empty implies the lock has no conflicts and only has intent modes as
\* grantedModes", and "the existence of a PartitionedLockHead for a resource
\* implies that its LockHead is partitioned".
PartitionedImpliesIntent ==
    /\ partitions # <<>> => grantedModes \subseteq intentModes /\ conflictModes = {}
    /\ \A p \in Partitions : plhExists[p] => \E i \in DOMAIN partitions : partitions[i] = p
    /\ \A l \in Lockers : where[l] = "partition" =>
          status[l] = "granted" /\ mode[l] \in intentModes /\ plhExists[PartitionOf[l]]

\* "Lock must still be granted": newRequest never makes a migrated request wait.
MigrationGrants ==
    \A t \in Threads :
        pc[t] = "moving" /\ plhList[Last(partitions)] # <<>>
            => ~MustWait(Head(plhList[Last(partitions)]))

\* No two lockers hold the resource in conflicting modes, be it through the
\* LockHead, through PartitionedLockHeads or while one is being migrated to the
\* other (lock, convert, migratePartitionedLockHeads, _onLockModeChanged), since
\* partitions exist for intent modes only and migration grants what it moves.
Exclusion == Compatible /\ PartitionedImpliesIntent /\ MigrationGrants

OnHead(l) == where[l] = "head"

HoldersIn(m) ==
    {l \in Lockers : OnHead(l) /\ status[l] \in {"granted", "converting"} /\ mode[l] = m}
ConvertersTo(m) == {l \in Lockers : status[l] = "converting" /\ convertMode[l] = m}
WaitersIn(m) == {l \in Lockers : status[l] = "waiting" /\ where[l] = "head" /\ mode[l] = m}

\* "These counts should exactly match the aggregated modes on the granted list"
\* (a pending conversion counts twice), and likewise for the conflict list and
\* for conversionsCount.
CountsMatch ==
    /\ \A m \in Modes :
          /\ grantedCounts[m] = Cardinality(HoldersIn(m)) + Cardinality(ConvertersTo(m))
          /\ conflictCounts[m] = Cardinality(WaitersIn(m))
    /\ conversionsCount = Cardinality({l \in Lockers : status[l] = "converting"})

\* Each list holds exactly the requests whose status says so, each of them once
\* (the requests share their next/prev fields between the lists).
ListsMatch ==
    /\ IsInjective(grantedList) /\ IsInjective(conflictList)
    /\ Range(grantedList) = UNION {HoldersIn(m) : m \in Modes}
    /\ Range(conflictList) = UNION {WaitersIn(m) : m \in Modes}
    /\ \A p \in Partitions :
          /\ IsInjective(plhList[p])
          /\ Range(plhList[p]) =
                {l \in Lockers : where[l] = "partition" /\ PartitionOf[l] = p}

\* compatibleFirstCount is the number of granted requests of the LockHead that
\* have requested the compatible-first policy.
CompatibleFirstCountMatches ==
    compatibleFirstCount =
        Cardinality({l \in Lockers : /\ OnHead(l) /\ compatibleFirst[l]
                                     /\ status[l] \in {"granted", "converting"}})

\* What the lock manager knows of a resource is what the requests say: the lists,
\* the counts of modes and of the compatible-first policy of a LockHead, through
\* conversions that are cancelled and partitions that are migrated.
HeadConsistent == ListsMatch /\ CountsMatch /\ CompatibleFirstCountMatches

\* "If there are lock requests hanging off a given LockHead, then this lock will
\* never disappear": what justifies the unlocked fast paths of convert and unlock.
HeadStays ==
    (\E l \in Lockers : where[l] # "none") \/ partitions # <<>> => headExists

\* A locker whose request is granted, and which is in no call, is on a list.
LockerHolds ==
    \A l \in Lockers : pc[l] = "idle" /\ status[l] = "granted" => where[l] # "none"

\* What a locker has, it keeps: cleanupUnusedLocks does not delete the LockHead
\* under it, and unlock takes no request off its list without telling the locker.
\* (Not so when waits for conversions time out, which only tests have them do.)
RequestsKept == HeadStays /\ LockerHolds

\* What cleanupUnusedLocks asserts before it deletes a LockHead that grants
\* nothing: no request is left in its conflict queue, which nobody would wake up.
NothingOrphaned ==
    BucketFree /\ grantedModes = {} =>
        conflictList = <<>> /\ conflictModes = {} /\ conversionsCount = 0

\* Some thread is about to send the notification for request l.
NotificationPending(l) ==
    \E t \in Lockers :
        \/ pc[t] = "convNotify" /\ grantedList[scan.pos] = l
        \/ pc[t] = "conflictNotify" /\ Last(grantedList) = l

\* A waiting thread whose request has been granted is, or is about to be,
\* notified: no wakeup is lost between lockBegin, which clears the notification
\* object, and lockComplete, which waits for it.
NoLostWakeup ==
    \A l \in Lockers :
        pc[l] = "waiting" /\ status[l] = "granted" => notify[l] = "OK" \/ NotificationPending(l)

\* A waiting thread that has been notified owns what it waited for: lockComplete
\* returns LOCK_OK without looking at the request.
WokenMeansGranted ==
    \A l \in Lockers : pc[l] = "waiting" /\ notify[l] = "OK" => status[l] = "granted"

\* notify() asserts that the result has not been set since lockBegin cleared it.
NotifiedOnce ==
    \A l \in Lockers : NotificationPending(l) => notify[l] = "INVALID"

\* No grant is missed: between calls, the request at the front of the conflict
\* queue conflicts with what is granted, although unlock calls
\* _onLockModeChanged with checkConflictQueue only when a mode disappears.  (A
\* full mode of a priority resource may be put in front of its conflicts.)
FrontBlocked ==
    BucketFree /\ ~Priority /\ conflictList # <<>>
        => conflicts(mode[Head(conflictList)], grantedModes)

\* Who waits must wait, and who is woken up was granted: no grant and no
\* notification is missed, sent twice or left over from an earlier wait.
WaitsExact == FrontBlocked /\ NoLostWakeup /\ WokenMeansGranted /\ NotifiedOnce

\* FIFO: on an ordinary resource a new request, on whichever path, never gets
\* the resource while one that conflicts with it and came before it waits.
NoOvertaking ==
    [][~Priority =>
        \A l \in Lockers : HeldMode(l) = NoMode /\ HeldMode(l)' # NoMode =>
            \A i \in DOMAIN conflictList :
                \/ conflictList[i] = l
                \/ ~conflicts(mode[conflictList[i]], {mode'[l]})
                \/ \E j \in 1..i : conflictList[j] = l]_vars

\* Every call returns, and with it every wait of a request for its lock, when
\* nothing is upgraded and no wait is given up: no thread stays in the lock
\* manager, or asleep, for ever.
CallsReturn ==
    \A l \in Lockers : pc[l] # "idle" ~> pc[l] = "idle"

\* The abstract lock: what is granted, in which mode.
Abstract == INSTANCE LockSpec WITH held <- [l \in Lockers |-> HeldMode(l)]

\* The lock manager implements the abstract lock.
ImplementsLockSpec == Abstract!Spec
=============================================================================
