---------------------------- MODULE CommitPoint ----------------------------
(***************************************************************************)
(* The replication commit point and the majority-committed snapshot: oplog  *)
(* entries written by primaries, fetched and applied by the other members,  *)
(* the positions that the members report, the point that a primary computes *)
(* from them (TopologyCoordinatorImpl::updateLastCommittedOpTime), how it   *)
(* spreads with the oplog, the committed snapshot that each member derives  *)
(* from it, write concern "majority", rollback, and crashes.                *)
(*                                                                         *)
(* A step is a critical section of ReplicationCoordinatorImpl::_mutex or of *)
(* BackgroundSync::_mutex.  Elections are as the module Election has them,  *)
(* without the dry run: an elected member drains, logs its first entry,     *)
(* completes the transition and only then accepts writes, and one that      *)
(* learns of a higher term is kSteppingDown before it is a follower.  Votes *)
(* are given in turn, and a winner leads in the term of its votes: Election *)
(* says what else the code allows, and what comes of it.                    *)
(*                                                                         *)
(* An optime is <<term, timestamp>> and the timestamp of an entry is its    *)
(* index in the oplog.  A position is recorded by the primary when it is    *)
(* reported: one that is delivered later, or relayed by other members, can  *)
(* only commit later what is committed here at once.  A member that is not  *)
(* primary records positions too; the entries they are about were written   *)
(* before the term in which it becomes primary, and it commits none of them *)
(* before an entry of that term, so they are left out.                      *)
(***************************************************************************)
EXTENDS Integers, FiniteSets, Sequences

CONSTANTS
    Nodes,        \* the voting, data-bearing members
    NoNode,       \* no member
    MaxTerm,      \* bound on the term
    MaxLog,       \* bound on the number of entries in an oplog
    MaxBatch,     \* bound on the number of entries that are applied at once
    MaxWrites,    \* bound on the number of clients that wait
    MaxCrashes,   \* bound on the number of crashes
    LazyFlush     \* can entries be in an oplog that are not durable yet?

ASSUME CommitAssumption ==
    /\ IsFiniteSet(Nodes) /\ Nodes # {} /\ NoNode \notin Nodes
    /\ {MaxTerm, MaxLog, MaxBatch, MaxWrites, MaxCrashes} \subseteq Nat /\ MaxTerm > 0
    /\ LazyFlush \in BOOLEAN /\ (LazyFlush \/ Cardinality(Nodes) > 1)

VARIABLES
    term, lastVote,     \* _term; the term of the stored vote
    role,               \* of Roles: _role and _leaderMode
    steppingDown,       \* is _leaderMode kSteppingDown?
    elect,              \* the election of a candidate
    log, durable,       \* the terms of the oplog's entries; how many are durable
    rollback,           \* the source of a member that is in ROLLBACK
    minValid,           \* the database is consistent from this optime on
    memberData,         \* the durable optimes that a primary knows of
    lastCommitted,      \* _lastCommittedOpTime
    candidates,         \* _stableOpTimeCandidates
    snapshot,           \* _currentCommittedSnapshot, Null for none
    waiting,            \* the writes whose clients wait for the majority
    committed,          \* history: the entries that a primary has committed
    crashes             \* counter for the bound

electVars == <<term, lastVote, role, steppingDown, elect>>
logVars == <<log, durable, minValid>>
pointVars == <<lastCommitted, candidates, snapshot>>
vars == <<electVars, logVars, rollback, memberData, pointVars, waiting,
          committed, crashes>>

Terms == 0 .. MaxTerm
Null == <<0, 0>>
OpTimes == {Null} \cup ((1 .. MaxTerm) \X (1 .. MaxLog))
Roles == {"follower", "draining", "primary"}

\* OpTime::operator<=: by term, then by timestamp.
AtMost(a, b) == a[1] < b[1] \/ (a[1] = b[1] /\ a[2] <= b[2])
Before(a, b) == a # b /\ AtMost(a, b)

EntryAt(l, i) == IF i = 0 THEN Null ELSE <<l[i], i>>
LastOf(l) == EntryAt(l, Len(l))
EntriesOf(l) == {EntryAt(l, i) : i \in 1 .. Len(l)}
Holds(l, o) == o = Null \/ o \in EntriesOf(l)

lastApplied(n) == LastOf(log[n])
Position(n) == EntryAt(log[n], durable[n])

Leader(n) == role[n] \in {"draining", "primary"}

\* The first entry that n has logged in its term.
FirstOfTerm(n) ==
    CHOOSE o \in EntriesOf(log[n]) :
        /\ o[1] = term[n]
        /\ \A p \in EntriesOf(log[n]) : p[1] = term[n] => AtMost(o, p)

\* _firstOpTimeOfMyTerm, above every optime until the transition is complete.
firstOpTimeOfMyTerm(n) ==
    IF role[n] = "primary" THEN FirstOfTerm(n) ELSE <<MaxTerm + 1, 0>>

\* The optime that a candidate asks for votes with, and the votes it has.
NoElection == [request |-> Null, votes |-> {}]
Logs == UNION {[1 .. k -> 1 .. MaxTerm] : k \in 0 .. MaxLog}

\* Every variable has the type of the member it stands for.
TypeOK ==
    /\ term \in [Nodes -> Terms] /\ lastVote \in [Nodes -> Terms]
    /\ role \in [Nodes -> Roles] /\ steppingDown \in [Nodes -> BOOLEAN]
    /\ elect \in [Nodes -> [request : OpTimes, votes : SUBSET Nodes]]
    /\ log \in [Nodes -> Logs]
    /\ durable \in [Nodes -> 0 .. MaxLog]
    /\ \A n \in Nodes : durable[n] <= Len(log[n])
    /\ minValid \in [Nodes -> OpTimes]
    /\ rollback \in [Nodes -> Nodes \cup {NoNode}]
    /\ memberData \in [Nodes -> [Nodes -> OpTimes]]
    /\ lastCommitted \in [Nodes -> OpTimes] /\ snapshot \in [Nodes -> OpTimes]
    /\ candidates \in [Nodes -> SUBSET OpTimes]
    /\ waiting \in [Nodes -> SUBSET OpTimes]
    /\ committed \subseteq OpTimes
    /\ crashes \in 0 .. MaxCrashes

\* A set that has been initiated and has just elected its first primary.
Init ==
    /\ term = [n \in Nodes |-> 1] /\ lastVote = [n \in Nodes |-> 1]
    /\ \E p \in Nodes :
           role = [n \in Nodes |-> IF n = p THEN "draining" ELSE "follower"]
    /\ steppingDown = [n \in Nodes |-> FALSE]
    /\ elect = [n \in Nodes |-> NoElection]
    /\ log = [n \in Nodes |-> <<>>] /\ durable = [n \in Nodes |-> 0]
    /\ minValid = [n \in Nodes |-> Null]
    /\ rollback = [n \in Nodes |-> NoNode]
    /\ memberData = [n \in Nodes |-> [m \in Nodes |-> Null]]
    /\ lastCommitted = [n \in Nodes |-> Null]
    /\ candidates = [n \in Nodes |-> {}] /\ snapshot = [n \in Nodes |-> Null]
    /\ waiting = [n \in Nodes |-> {}] /\ committed = {} /\ crashes = 0

-----------------------------------------------------------------------------
(* The commit point and the committed snapshot *)

\* The write majority of the configuration.
IsMajority(S) == 2 * Cardinality(S) > Cardinality(Nodes)

\* A mutant: a primary commits entries of earlier terms.
MayAdvance_OldTerm(n, first, point) == Before(lastCommitted[n], point)
\* The conditions of advanceLastCommittedOpTime.
MayAdvance(n, first, point) ==
    /\ Before(lastCommitted[n], point)
    /\ ~(Leader(n) /\ Before(point, first))

\* _calculateStableOpTime: the newest candidate up to the commit point.
StableOpTime(cands, point) ==
    LET below == {o \in cands : AtMost(o, point)}
    IN  IF below = {} THEN Null ELSE CHOOSE o \in below : \A p \in below : AtMost(p, o)

\* _setStableTimestampForStorage_inlock, with the candidates and the commit
\* point that the caller has just given n.
SetStable(n, cands, point) ==
    LET stable == StableOpTime(cands, point)
    IN  /\ candidates' = [candidates EXCEPT ![n] =
                             {o \in cands : AtMost(stable, o)}]
        /\ snapshot' = IF stable = Null \/ rollback[n] # NoNode
                       THEN snapshot
                       ELSE [snapshot EXCEPT ![n] = stable]

\* _advanceCommitPoint_inlock
AdvanceCommitPoint(n, first, point) ==
    IF MayAdvance(n, first, point)
    THEN /\ lastCommitted' = [lastCommitted EXCEPT ![n] = point]
         /\ SetStable(n, candidates[n], point)
    ELSE UNCHANGED pointVars

\* The greatest optime that a majority of the members has reached, where n
\* knows the positions known and its own oplog is durable up to own.
MajorityOpTime(n, own, known) ==
    LET at == [known EXCEPT ![n] = own]
        reached(o) == {m \in Nodes : AtMost(o, at[m])}
        points == {at[m] : m \in Nodes}
    IN  CHOOSE o \in points :
            /\ IsMajority(reached(o))
            /\ \A p \in points : IsMajority(reached(p)) => AtMost(p, o)

\* updateLastCommittedOpTime is for a primary that is not stepping down.
MayCommit(n) == Leader(n) /\ ~steppingDown[n]

\* _updateLastCommittedOpTime_inlock.  The entries up to the new commit point
\* become committed.
UpdateLastCommitted(n, first, own, known) ==
    LET point == MajorityOpTime(n, own, known)
    IN  IF MayCommit(n) /\ MayAdvance(n, first, point)
        THEN /\ AdvanceCommitPoint(n, first, point)
             /\ committed' = committed \cup
                                {o \in EntriesOf(log[n]) : AtMost(o, point)}
        ELSE UNCHANGED <<pointVars, committed>>

\* The candidates of n when lastApplied moves forward to o: the optime of a
\* consistent database is added.
WithCandidate(n, o) ==
    IF AtMost(minValid[n], o) THEN candidates[n] \cup {o} ELSE candidates[n]

\* _setMyLastAppliedOpTime_inlock, where the commit point is point and has just
\* moved, or not.  A member that is behind it takes a new snapshot at once.
SetMyLastApplied(n, o, point, moved) ==
    IF moved \/ (AtMost(minValid[n], o) /\ AtMost(o, point))
    THEN SetStable(n, WithCandidate(n, o), point)
    ELSE /\ candidates' = [candidates EXCEPT ![n] = WithCandidate(n, o)]
         /\ UNCHANGED snapshot

-----------------------------------------------------------------------------
(* Terms and elections, see the modules Election and LeaderMode *)

\* A secondary starts an election for the next term and votes for itself.
StartElection(n) ==
    /\ role[n] = "follower"
    /\ rollback[n] = NoNode /\ AtMost(minValid[n], lastApplied(n))
    /\ term[n] < MaxTerm
    /\ term' = [term EXCEPT ![n] = term[n] + 1]
    /\ lastVote' = [lastVote EXCEPT ![n] = term[n] + 1]
    /\ elect' = [elect EXCEPT ![n] = [request |-> lastApplied(n), votes |-> {n}]]
    /\ UNCHANGED <<role, steppingDown, logVars, rollback, memberData, pointVars,
                   waiting, committed, crashes>>

\* The conditions of processReplSetRequestVotes for a vote of v for n.  A
\* primary steps down first.
MayVote(v, n) ==
    /\ v # n /\ elect[n] # NoElection /\ role[v] = "follower"
    /\ term[v] <= term[n] /\ lastVote[v] < term[n]
    /\ AtMost(lastApplied(v), elect[n].request)

\* v votes for n, which wins if that gives it a majority: processWinElection.
\* Vote, term and win are one step: no vote of a member that has not entered the
\* term, and no term that rises between the count of the votes and the win.
Vote(v, n) ==
    LET all == elect[n].votes \cup {v}
    IN  /\ MayVote(v, n)
        /\ term' = [term EXCEPT ![v] = term[n]]
        /\ lastVote' = [lastVote EXCEPT ![v] = term[n]]
        /\ role' = IF IsMajority(all) THEN [role EXCEPT ![n] = "draining"] ELSE role
        /\ elect' = [elect EXCEPT
                        ![n] = IF IsMajority(all) THEN NoElection
                               ELSE [elect[n] EXCEPT !.votes = all],
                        ![v] = NoElection]
        /\ UNCHANGED <<steppingDown, logVars, rollback, memberData, pointVars,
                       waiting, committed, crashes>>

\* n learns of term t.  An election of its own is lost; a primary starts to step
\* down and stays in its term.
LearnTerm(n, t) ==
    IF t > term[n] /\ ~Leader(n)
    THEN /\ term' = [term EXCEPT ![n] = t]
         /\ elect' = [elect EXCEPT ![n] = NoElection]
         /\ UNCHANGED steppingDown
    ELSE /\ steppingDown' = [steppingDown EXCEPT ![n] = @ \/ t > term[n]]
         /\ UNCHANGED <<term, elect>>

\* updateTerm: n hears of the term of m, in a heartbeat, a request or an answer.
UpdateTerm(n, m) ==
    /\ term[m] > term[n] /\ ~steppingDown[n]
    /\ LearnTerm(n, term[m])
    /\ UNCHANGED <<lastVote, role, logVars, rollback, memberData, pointVars,
                   waiting, committed, crashes>>

\* _stepDownFinish, for a higher term, for want of a majority or on command.
\* What the member knows of the positions of others is of no use any more.
FinishStepDown(n) ==
    /\ Leader(n)
    /\ role' = [role EXCEPT ![n] = "follower"]
    /\ steppingDown' = [steppingDown EXCEPT ![n] = FALSE]
    /\ memberData' = [memberData EXCEPT ![n] = [m \in Nodes |-> Null]]
    /\ UNCHANGED <<term, lastVote, elect, logVars, rollback, pointVars, waiting,
                   committed, crashes>>

-----------------------------------------------------------------------------
(* The primary *)

\* What is durable when n has new entries up to i: they are flushed at once,
\* before anything else happens, or later.
DurableWith(n, i) ==
    {[durable EXCEPT ![n] = i]} \cup (IF LazyFlush THEN {durable} ELSE {})

\* n writes an entry of its term at the end of its oplog.  (Left out: a member
\* that has fetched an entry of a later term before the drain of its own is
\* complete.  lastApplied, which only moves forward, is not the last entry then.)
LogEntry(n) ==
    /\ Len(log[n]) < MaxLog /\ lastApplied(n)[1] <= term[n]
    /\ log' = [log EXCEPT ![n] = log[n] \o <<term[n]>>]
    /\ durable' \in DurableWith(n, Len(log[n]) + 1)
    /\ SetMyLastApplied(n, <<term[n], Len(log[n]) + 1>>, lastCommitted[n], FALSE)

\* The drain is complete: onTransitionToPrimary logs the "new primary" entry
\* and completeTransitionToPrimary takes it for _firstOpTimeOfMyTerm.  The entry
\* is not durable yet, so that the commit level, which is calculated again, does
\* not move.  (A member that starts to step down in between keeps the entry and
\* commits nothing, as one that starts to after it does.)
SignalDrainComplete(n) ==
    /\ role[n] = "draining" /\ ~steppingDown[n]
    /\ LogEntry(n)
    /\ role' = [role EXCEPT ![n] = "primary"]
    /\ UNCHANGED <<term, lastVote, steppingDown, elect, minValid,
                   rollback, memberData, lastCommitted, waiting,
                   committed, crashes>>

\* A client writes and waits for the majority.  A write that has begun may be
\* completed while the primary is stepping down.
ClientWrite(n) ==
    /\ role[n] = "primary"
    /\ Cardinality(UNION {waiting[m] : m \in Nodes}) < MaxWrites
    /\ LogEntry(n)
    /\ waiting' = [waiting EXCEPT ![n] =
                      waiting[n] \cup {<<term[n], Len(log[n]) + 1>>}]
    /\ UNCHANGED <<electVars, minValid, rollback, memberData, lastCommitted,
                   committed, crashes>>

\* The journal of a primary is flushed: setMyLastDurableOpTimeForward.  The
\* flush of another member matters when it reports its position.
Flush(n) ==
    /\ Leader(n) /\ durable[n] < Len(log[n])
    /\ durable' = [durable EXCEPT ![n] = Len(log[n])]
    /\ UpdateLastCommitted(n, firstOpTimeOfMyTerm(n), lastApplied(n),
                           memberData[n])
    /\ UNCHANGED <<electVars, log, minValid, rollback, memberData,
                   waiting, crashes>>

\* A mutant: a member reports what it has applied for what is durable.
ReportFlushes_Not(m) == durable
\* The journal of m has been flushed when m reports a position.
ReportFlushes(m) == [durable EXCEPT ![m] = Len(log[m])]

\* m has flushed its journal and tells the primary n, in a report or a
\* heartbeat.  Both carry the term of m, which is handled first: n starts to
\* step down if it is higher.
RecordPosition(n, m) ==
    /\ Leader(n) /\ n # m
    /\ term[m] <= term[n] \/ steppingDown[n]
    /\ Leader(m) => durable[m] = Len(log[m])
    /\ Before(memberData[n][m], lastApplied(m))
    /\ durable' = ReportFlushes(m)
    /\ memberData' = [memberData EXCEPT ![n][m] = lastApplied(m)]
    /\ UpdateLastCommitted(n, firstOpTimeOfMyTerm(n), Position(n), memberData'[n])
    /\ UNCHANGED <<electVars, log, minValid, rollback, waiting, crashes>>

\* A mutant: the term of the write is not compared.
CanAcknowledge_AnyTerm(n, o) ==
    /\ Leader(n) /\ ~steppingDown[n]
    /\ o \in waiting[n] /\ snapshot[n] # Null /\ AtMost(o, snapshot[n])
\* _awaitReplication_inlock returns success to the client that wrote o.
CanAcknowledge(n, o) ==
    /\ Leader(n) /\ ~steppingDown[n] /\ o[1] = term[n]
    /\ o \in waiting[n] /\ snapshot[n] # Null /\ AtMost(o, snapshot[n])

-----------------------------------------------------------------------------
(* Fetching and applying the oplog of another member *)

\* The producer of n runs, and s is a sync source for it: not in ROLLBACK, and
\* past minValid if n is not consistent yet.
CanFetch(n, s) ==
    /\ role[n] \in {"follower", "draining"} /\ rollback[n] = NoNode
    /\ s # n /\ rollback[s] = NoNode
    /\ AtMost(minValid[n], lastApplied(n)) \/ Holds(log[s], minValid[n])

\* n handles a batch from s that has passed checkRemoteOplogStart: it learns of
\* the commit point of s, then of its term (processMetadata), and then applies
\* the k entries that follow its own (multiApply).
Fetch(n, s, k) ==
    LET new   == Len(log[n]) + k
        moves == MayAdvance(n, firstOpTimeOfMyTerm(n), lastCommitted[s])
        point == IF moves THEN lastCommitted[s] ELSE lastCommitted[n]
    IN  /\ CanFetch(n, s) /\ Holds(log[s], lastApplied(n))
        /\ new <= Len(log[s])
        /\ log' = [log EXCEPT ![n] = SubSeq(log[s], 1, new)]
        /\ durable' \in DurableWith(n, new)
        /\ lastCommitted' = [lastCommitted EXCEPT ![n] = point]
        /\ IF k = 0
           THEN IF moves THEN SetStable(n, candidates[n], point)
                ELSE UNCHANGED <<candidates, snapshot>>
           ELSE SetMyLastApplied(n, <<log[s][new], new>>, point, moves)
        /\ LearnTerm(n, term[s])
        /\ UNCHANGED <<lastVote, role, minValid, rollback, memberData,
                       waiting, committed, crashes>>

-----------------------------------------------------------------------------
(* Rollback *)

CommonIndexes(l, m) ==
    {i \in 0 .. Len(l) : i <= Len(m) /\ \A j \in 1 .. i : l[j] = m[j]}
\* The length of the longest prefix that two oplogs have in common.
CommonPoint(l, m) == CHOOSE i \in CommonIndexes(l, m) :
                         \A j \in CommonIndexes(l, m) : j <= i

\* A mutant: the metadata is processed before the batch is validated.
PointOfMismatch_Processed(n, s) == lastCommitted[s]
\* The commit point of n when it has handled a batch that triggers a rollback:
\* nothing is learnt from it.
PointOfMismatch(n, s) == lastCommitted[n]

\* The oplog of s is ahead and does not have the last entry of n: when all that
\* n has fetched is applied and it is not a candidate, it enters ROLLBACK and
\* drops its snapshots.  (A primary that is catching up gives that up.)
StartRollback(n, s) ==
    /\ CanFetch(n, s) /\ role[n] = "follower"
    /\ ~Holds(log[s], lastApplied(n)) /\ Before(lastApplied(n), lastApplied(s))
    /\ lastCommitted' = [lastCommitted EXCEPT ![n] = PointOfMismatch(n, s)]
    /\ rollback' = [rollback EXCEPT ![n] = s]
    /\ snapshot' = [snapshot EXCEPT ![n] = Null]
    /\ elect' = [elect EXCEPT ![n] = NoElection]
    /\ UNCHANGED <<term, lastVote, role, steppingDown, logVars, memberData,
                   candidates, waiting, committed, crashes>>

\* A mutant: the candidates that were rolled back are kept.
CandidatesLeft_All(n, common) == candidates[n]
\* On leaving ROLLBACK the candidates after the common point are removed.
CandidatesLeft(n, common) == {o \in candidates[n] : AtMost(o, common)}

\* May syncRollback go on with the oplog of its source?
RollbackPossible(n) ==
    LET s == rollback[n]
    IN  /\ rollback[n] # NoNode /\ rollback[s] = NoNode
        /\ ~Holds(log[s], lastApplied(n)) /\ Before(lastApplied(n), lastApplied(s))

\* A mutant: the durable optime is not reset.
DurableAfterRollback_Kept(n, i) == durable
\* resetLastOpTimesFromOplog
DurableAfterRollback(n, i) == [durable EXCEPT ![n] = i]

\* syncRollback: the oplog is truncated at the common point, and the documents
\* are consistent with the last entry of the source.
Rollback(n) ==
    LET s == rollback[n]
        i == CommonPoint(log[n], log[s])
    IN  /\ RollbackPossible(n)
        /\ log' = [log EXCEPT ![n] = SubSeq(log[n], 1, i)]
        /\ durable' = DurableAfterRollback(n, i)
        /\ minValid' = [minValid EXCEPT ![n] = lastApplied(s)]
        /\ candidates' = [candidates EXCEPT ![n] =
                             CandidatesLeft(n, EntryAt(log[n], i))]
        /\ rollback' = [rollback EXCEPT ![n] = NoNode]
        /\ UNCHANGED <<electVars, memberData, lastCommitted,
                       snapshot, waiting, committed, crashes>>

\* The source has rolled back itself or does not answer, perhaps when syncFixUp
\* has already noted from where on the documents will be consistent: it is tried
\* again later.
RollbackFails(n) ==
    /\ rollback[n] # NoNode
    /\ rollback' = [rollback EXCEPT ![n] = NoNode]
    /\ \/ UNCHANGED minValid
       \/ /\ RollbackPossible(n)
          /\ minValid' = [minValid EXCEPT ![n] = lastApplied(rollback[n])]
    /\ UNCHANGED <<electVars, log, durable, memberData, pointVars, waiting,
                   committed, crashes>>

-----------------------------------------------------------------------------
(* Crashes *)

\* A crash that leaves the first i entries of the oplog, all those known to be
\* durable among them, and the restart: _finishLoadLocalConfig.
Crash(n, i) ==
    LET l == SubSeq(log[n], 1, i)
        last == LastOf(l)
        t == IF last[1] > lastVote[n] THEN last[1] ELSE lastVote[n]
    IN  /\ crashes < MaxCrashes /\ crashes' = crashes + 1
        /\ i >= durable[n] /\ i <= Len(log[n])
        /\ log' = [log EXCEPT ![n] = l]
        /\ durable' = [durable EXCEPT ![n] = i]
        /\ rollback' = [rollback EXCEPT ![n] = NoNode]
        /\ term' = [term EXCEPT ![n] = t]
        /\ role' = [role EXCEPT ![n] = "follower"]
        /\ steppingDown' = [steppingDown EXCEPT ![n] = FALSE]
        /\ lastCommitted' = [lastCommitted EXCEPT ![n] = Null]
        /\ snapshot' = [snapshot EXCEPT ![n] = Null]
        /\ candidates' = [candidates EXCEPT ![n] =
               IF last = Null \/ Before(last, minValid[n]) THEN {} ELSE {last}]
        /\ waiting' = [waiting EXCEPT ![n] = {}]
        /\ elect' = [elect EXCEPT ![n] = NoElection]
        /\ memberData' = [memberData EXCEPT ![n] = [m \in Nodes |-> Null]]
        /\ UNCHANGED <<lastVote, minValid, committed>>

-----------------------------------------------------------------------------

Next ==
    \E n \in Nodes :
        \/ StartElection(n) \/ FinishStepDown(n)
        \/ \E m \in Nodes : Vote(n, m) \/ UpdateTerm(n, m) \/ RecordPosition(n, m)
        \/ SignalDrainComplete(n) \/ ClientWrite(n) \/ Flush(n)
        \/ \E s \in Nodes, k \in 0 .. MaxBatch : Fetch(n, s, k)
        \/ \E s \in Nodes : StartRollback(n, s)
        \/ Rollback(n) \/ RollbackFails(n)
        \/ \E i \in 0 .. MaxLog : Crash(n, i)

Spec == Init /\ [][Next]_vars

-----------------------------------------------------------------------------
(* Properties *)

\* A committed entry is durable on a majority of the members, whatever rolls
\* back or crashes after updateLastCommittedOpTime has passed it.
CommittedIsDurable ==
    \A o \in committed :
        IsMajority({n \in Nodes : o[2] <= durable[n] /\ Holds(log[n], o)})

\* A member without some committed entry is behind a majority, which therefore
\* does not vote for it: whoever is elected has all that was committed.
CommittedIsElected ==
    \A n \in Nodes, o \in committed :
        ~Holds(log[n], o) =>
            ~IsMajority({v \in Nodes : AtMost(lastApplied(v), lastApplied(n))})

\* What a primary has committed survives rollbacks, crashes and elections.
CommittedSurvives == CommittedIsDurable /\ CommittedIsElected

\* The snapshot that reads with read concern "majority" use is committed, and
\* is part of the oplog of the member that serves them.
SnapshotIsCommitted ==
    \A n \in Nodes : snapshot[n] # Null =>
        /\ snapshot[n] \in committed /\ Holds(log[n], snapshot[n])
        /\ AtMost(snapshot[n], lastCommitted[n])

\* The invariant of rs_rollback.cpp:945-951: a member never rolls back to a
\* point before the commit point it knows of.
RollbackAfterCommitPoint ==
    \A n \in Nodes : RollbackPossible(n) =>
        LET i == CommonPoint(log[n], log[rollback[n]])
        IN  /\ AtMost(lastCommitted[n], EntryAt(log[n], i))
            /\ lastCommitted[n][2] <= i

\* A client is told that its write is on a majority only if the very entry it
\* wrote is committed.
AcknowledgedIsCommitted ==
    \A n \in Nodes : \A o \in waiting[n] : CanAcknowledge(n, o) => o \in committed

\* The committed log of the replica set, of which the members have parts.
Abstract == INSTANCE CommittedLog WITH entries <- committed

\* The primaries of all terms commit one log, to which they only append: none commits
\* an entry where another one is committed, or leaves a gap.
ImplementsCommittedLog == Abstract!Spec
=============================================================================
