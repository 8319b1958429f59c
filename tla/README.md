# A TLA+ verification of the MongoDB 3.6 server core

This directory holds TLA+ models of parts of the server under
`src/mongo/src/mongo` (MongoDB 3.6.1, with the annotations of this repository),
the TLC configurations that check them and TLAPS proofs about them. Paths below
are relative to `src/mongo/src/mongo`.

Run TLC as `tlc -workers 2 -config <run>.cfg <module>` (the module of each run is
in the tables below and in `PROJECT.json`) and the proofs as
`tlapm <module>.tla` (the modules `…Proofs` and `CommitPointSafety`).

## 1. Inventory: the system and its parts

A `mongod` serves client operations on one node; several of them form a replica
set, several replica sets a sharded cluster behind `mongos` routers and a config
server replica set.

| Part | State it keeps | Operations | Interacts with | Hard behaviour |
|---|---|---|---|---|
| **Lock manager** (`db/concurrency/lock_manager.*`, `lock_manager_defs.h`, `lock_request_list.h`) | per resource a `LockHead` (granted list, conflict queue, counts per mode, policy) and, for intent modes, a `PartitionedLockHead` per partition | `lock`, `convert`, `unlock`, `downgrade`, `cleanupUnusedLocks`, `_onLockModeChanged`, `migratePartitionedLockHeads` | called by the lockers, calls their notification objects | fast paths without a mutex, two kinds of mutexes, moving requests between lists, fairness |
| **Locker** (`db/concurrency/lock_state.*`, `d_concurrency.*`) | `_requests`, one notification object, ticket, client state | `lockBegin`, `lockComplete`, `unlock`, `lockGlobal`, save/restore for yields | lock manager, ticket holders, deadlock detector | timeouts racing grants, recursive locks, the order of PBWM, ticket and lock |
| **Deadlock detector** (`lock_manager.cpp`) | wait-for graph built node by node | `check`, `next`, `_processNextNode` | reads lock heads of all resources one bucket at a time | non-atomic snapshot, conversions |
| **Ticket holder** (`util/concurrency/ticketholder.*`) | number of tickets | `waitForTicket`, `release`, `resize` | lockers, storage throttling | resize against waiting and outstanding tickets |
| **Replica set elections** (`db/repl/topology_coordinator_impl.*`, `replication_coordinator_impl_elect_v1.cpp`, `vote_requester.*`, `scatter_gather_runner.*`) | term, role, leader mode, last vote (memory and disk) | candidacy, dry run, vote requests, winning, stepping down | heartbeats, oplog metadata, storage | crashes between voting and storing, terms that change while a callback waits for the mutex |
| **Heartbeats, topology, reconfig** (`replication_coordinator_impl_heartbeat.cpp`, `topology_coordinator_impl.cpp`) | member data, primary index, config | heartbeat requests and responses, sync source choice, reconfig | elections, commit point | stale answers, reconfig during elections |
| **Commit point and write concern** (`replication_coordinator_impl.cpp`) | last applied/durable optimes per member, last committed optime, stable candidates, waiter lists | `setMyLast…OpTime`, `updateLastCommittedOpTime`, `awaitReplication` | elections, oplog application | commit in a new term, out-of-order updates |
| **Oplog fetch, apply, rollback, initial sync** (`bgsync.cpp`, `oplog_fetcher.cpp`, `oplog_buffer*`, `sync_tail.cpp`, `rollback_impl.cpp`, `rs_rollback.cpp`, `initial_syncer.cpp`) | fetch position, buffers, minValid, appliedThrough, oplogTruncateAfterPoint | produce, batch, apply, find the common point, roll back, clone | commit point, storage | crash between markers, sync source changes |
| **Sharding: migrations** (`db/s/migration_source_manager.cpp`, `migration_destination_manager.cpp`, `metadata_manager.cpp`, `collection_range_deleter.cpp`) | state machines of donor and recipient, metadata snapshots, ranges to clean | clone, critical section, commit, range deletion | config server, queries that hold metadata | failed or unanswered commit, queries on ranges being deleted |
| **Sharding: catalog and balancer** (`s/catalog/*`, `s/catalog_cache.cpp`, `db/s/balancer/*`, `db/s/config/*`) | chunks, shard versions, distributed locks | split, merge, move, lock and ping, refresh | shards, mongos | lock takeover after missed pings |
| **Sessions and clocks** (`db/session*.cpp`, `db/logical_clock.cpp`, `logical_session_cache_impl.cpp`) | transaction numbers, retryable write history, cluster time | begin, commit of a statement, advance and sign the clock | oplog, migrations | retries of writes already done |
| **Transport** (`transport/service_state_machine.cpp`, `service_executor_*.cpp`, `session.*`) | state and owner of every connection | source, process, sink, terminate | thread pools, network | ownership handed between threads |
| **Executors and pools** (`executor/thread_pool_task_executor.cpp`, `executor/connection_pool.cpp`, `util/concurrency/thread_pool.cpp`) | queues, events, timers, connections by host | schedule, cancel, wait, shut down | all of replication and sharding | cancellation racing completion |
| **Storage engines** (`db/storage/wiredtiger`, `mmap_v1`, `kv`) | sessions, snapshots, journal, size storer | units of work, checkpoints, oplog visibility | lock manager, replication | oplog holes, durability waits |
| **Query, aggregation, indexes, catalog** (`db/query`, `db/exec`, `db/pipeline`, `db/matcher`, `db/catalog`, `db/index`) | plan cache, cursors, catalog entries | planning, execution with yields, index builds | locks, storage | data-dependent computation; yields |
| **Cursors** (`db/cursor_manager.cpp`, `s/query/cluster_cursor_manager.cpp`) | registered and pinned cursors | pin, unpin, kill, time out | sessions, queries | kill racing a pinned cursor |
| **Auth, FTDC, FTS, geo, scripting, client, shell, tools, BSON, util** | – | – | – | mostly sequential or data-dependent |
| **Third-party, generated code, Go tools, jstests** (`third_party`, `build`, `gotools`, `jstests`) | – | – | – | outside the project |

What makes the main parts correct:

* *Lock manager*: no conflicting grants on any path; counts and lists agree;
  no lost wakeup; no request forgotten in a queue; FIFO on ordinary resources;
  a lock held is a lock recorded.
* *Deadlock detector*: a cycle it reports existed; a deadlock that stays is found.
* *Ticket holder and global lock*: no ticket is lost however waits end; a batch of
  the applier is seen whole or not at all; operations, batches and resizes do not
  wait for each other for ever.
* *Elections*: a node votes once per term, across crashes; at most one node
  is elected in a term; who leads was elected by a majority; elections end.
* *Commit point*: what is committed survives elections, rollbacks and crashes; a
  write that is acknowledged, and what a majority read sees, is committed.
* *Migrations*: no document of a range that the shard owns, or that a query may
  still read, is deleted; every deletion comes to an end that its waiters learn of.
* *Service state machine*: one thread owns a connection at a time; every
  accepted connection is either served or ended.


## 2. Plan

The parts on which everything else rests come first: the lock manager,
because it is lock-free where it is fast and its errors are silent, and the
election of a primary, because its safety depends on crashes and on the order in
which critical sections of several servers run. What a leader does between winning
and accepting writes, and what it may tell clients, follows; then what surrounds the
locks (the deadlock detector, tickets and batches), and the deletion of ranges, where
migrations and queries meet. The order:

| Step | Modules | Composes | Properties |
|---|---|---|---|
| 1 *done* | `LockModes`, `LockSpec`, `LockManager` (+ `MC`, `Proofs`) | `LockManager` implements `LockSpec` | exclusion, counts, queues, wakeups, liveness |
| 2 *done* | `Election` (+ `MC`, `Proofs`) | – | votes, terms, leaders, liveness |
| 3 *done* | `LeaderMode` (+ `MC`, `Proofs`): the modes of a leader, catch-up, drain mode, `replSetStepDown`, step down by heartbeat, the applier's signal | the states of one member of `Election` | no write before the drain; an attempt ends as its command says; the assertions on `_leaderMode` |
| 4 *done* | `CommittedLog`, `CommitPoint` (+ `MC`, `Proofs`, `CommitPointSafety`): oplogs, positions, commit point, committed snapshot, write concern, rollback, crashes | `CommitPoint` implements `CommittedLog`; elections as in `Election` (votes in turn, winners in the term of their votes), the transition to primary as in `LeaderMode` | committed entries survive; snapshots and acknowledged writes are committed |
| 5 *done* | `DeadlockDetector` (+ `MC`, `Proofs`): several resources, the search bucket by bucket | the grants of `LockManager`, one step per call | a deadlock that stays is found; what is found is one |
| 6 *done* | `Throttling` (+ `MC`, `Proofs`): parallel batch writer mode, tickets and their resize, the global lock, yields, the batches of the applier | the grants of `LockManager` on the global lock | no ticket is lost; batches are isolated; nobody waits for ever |
| 7 *done* | `RangeDeleter` (+ `MC`, `Proofs`): chunk maps in use, range deletion, donating and receiving a chunk, refreshes | – | nothing owned or in use is deleted; no deletion or waiter is forgotten |
| 8 | `Recovery`: `oplogTruncateAfterPoint`, `minValid`, `appliedThrough`, crash at any point of a batch | the oplog of `CommitPoint` | after recovery the data is that of a prefix of the oplog |
| 9 | reconfiguration, in `Election` and `CommitPoint` | – | majorities of successive configurations meet |
| 10 | `ServiceStateMachine` | – | one owner per connection; a connection ends once |

Stated abstractly: the lock (`LockSpec`) and the committed log (`CommittedLog`). Worth stating: the one decision per
term that elections make, for `Election` to implement.

Every safety property that a passing run checks is also a theorem, some under a hypothesis that the section of the
component states (the options of the lock manager, the size of the set for two properties of the commit point). Where the code
has a schedule that breaks what one would expect, the schedule is in the model, and the property names it as an exception;
sections 4, 5 and 9 list them. Liveness stays with TLC: fairness and `ENABLED` are out of the
prover's reach. What would be proved next belongs to the modules of steps 8 to 10.
## 3. The lock manager (`LockModes`, `LockSpec`, `LockManager`)

### Modules

* `LockModes`: the modes, `LockConflictsTable`, `conflicts`, `isModeCovered`. A bit
  mask of modes is the set of its modes.
* `LockSpec`: the abstract lock. Its only state is the mode in which each locker
  holds the resource; a mode is acquired, changed or released, and is acquired or
  changed only while it is compatible with what the others hold.
* `LockManager`: one resource, its `LockHead` and `PartitionedLockHead`s, and one
  thread per locker, plus the thread that cleans up unused locks.
* `MCLockManager`: three lockers, two of which share a partition.
* `LockManagerProofs`: the theorems, in two parts.

### State and steps

A locker has at most one `LockRequest` for a resource, so requests are
identified with lockers, and the fields of the request are functions on
`Lockers`; `where` says which structure holds the request (`lock` or
`partitionedLock` of the code). Lists are sequences. `grantedModes` and
`conflictModes` are defined from the counts, which the code keeps in lock-step.

The steps are the critical sections of the code. A section under a partition
mutex is one step. A section under the bucket mutex may be several: one per
partition mutex it takes inside, per request it migrates, per iteration of
`_onLockModeChanged` and per notification; `bucketOwner` is the thread that
holds the mutex. What the code reads without a mutex (the status in `unlock`, the
mode in `convert`) is read in a step of its own, before the mutex is obtained,
and can be out of date afterwards.

| Code | Actions |
|---|---|
| `LockerImpl::lockBegin`, `LockManager::lock` | `LockBegin`, `LockStartPartition`, `LockMigrate`, `LockNewRequest` |
| `LockHead::newRequest` | `NewRequest` |
| `LockHead::migratePartitionedLockHeads` | `MigrateBegin`, `MigrateMove`, `MigrateEnd` |
| `LockManager::convert` | `ConvertBegin`, `ConvertMigrate`, `Convert` |
| `LockerImpl::lockComplete` | `WaitOk`, `WaitTimeout` |
| `LockManager::unlock`, `_unlockImpl` | `UnlockRecursive`, `UnlockPartitioned`, `UnlockToBucket`, `UnlockGranted`, `UnlockWaiting`, `UnlockConverting`, `ScanReturn` |
| `LockManager::downgrade` | `DowngradeBegin`, `Downgrade` |
| `LockManager::_onLockModeChanged` | `ConvScan…`, `ConflictScan…`, `ScanReturn` |
| `LockManager::cleanupUnusedLocks` | `CleanupMigrate`, `Cleanup` |

Left out: lock statistics and `dump`; the map from resources to lock heads
(one resource is modelled, and buckets of different resources do not share
state); the MMAPv1 flush lock that `lockComplete` gives up while it sleeps; the
deadlock check of `lockComplete`, which to the lock manager is one more reason
to give up a wait (`WaitTimeout` covers it). A spurious or periodic wakeup that
goes back to waiting changes nothing and is not a step.

The options of the model are what the callers do: `Priority` (the resource is
`RESOURCE_GLOBAL`, or the flush lock), `UpgradeModes` (the
modes that lockers convert to although they do not hold them), `LockTimeouts` and `ConversionTimeouts` (waits with a
finite timeout or with deadlock detection), and the modes that are asked for.

### Runs

| Run | Question | Instance |
|---|---|---|
| `lock_ordinary` | Are partitioning and migration safe against the paths that do not take the bucket mutex? Is any request, grant or wakeup lost, is the queue FIFO? Refinement of `LockSpec`. | all modes, recursion 2, upgrades to `IX` and `X`, requests time out; 1.7 million states |
| `lock_global` | Priority of the full modes and the compatible-first policy, conversions that are given up while they may be granted: do lists and counts stay exact, is anybody left in the queue? | all modes, upgrades to `IX`, all waits time out; 1.7 million states |
| `lock_liveness` | Is every request granted and does every call return? | `IX`, `S`, `X`, no upgrades or timeouts; 48,000 states |

The properties: `Exclusion` (no conflicting grants, on any path, through a
migration), `HeadConsistent` (the lists, the counts and the compatible-first count say
the same as the requests), `RequestsKept` (a lock that is held is not taken off its list,
nor its `LockHead` deleted), `WaitsExact` (who waits must wait, who is woken up was granted, no
notification is lost, doubled or left over), `NothingOrphaned`, `NoOvertaking`,
`ImplementsLockSpec` and `CallsReturn`.

Three lockers are enough for every pair of conflicting requests to meet a third
one that holds, waits, converts or migrates; two of them share a partition and
one does not. Recursion 2 is enough for a conversion (which increments the
count). `CountModulus` stands for 2^32: any modulus above the number of lockers
shows whether a count wraps.

Two lockers that upgrade the same lock wait for each other for ever (which the
deadlock detector exists for), but others still run, so TLC sees no deadlock there.

Fairness (`lock_liveness`): a thread inside a call takes its next step (weak
fairness: the operating system schedules it), a thread that waits for the bucket
mutex obtains it if it is free again and again (strong fairness, an assumption
on `SimpleMutex`), and an operation that holds the lock ends and unlocks it.
The last one is an assumption on the callers, without which no lock manager
grants anything. Nothing is assumed of new calls.

### Proofs

`LockManagerProofs` proves for every finite set of lockers, every set of
partitions, every assignment of lockers to partitions and all options:

| Theorem | Statement |
|---|---|
| `Invariance` | `Spec => []IInv` |
| `TypeCorrect`, `CountsExact`, `ListsExact`, `PartitionedIsIntent` | `[]TypeOK`, `[]CountsMatch`, `[]ListsMatch`, `[]PartitionedImpliesIntent` |
| `MutualExclusion`, `ExclusionHolds` | `[]Compatible`, and with migration `[]Exclusion` |
| `NoOrphans` | `[]NothingOrphaned` |
| `Implementation` | `Spec => ImplementsLockSpec` |

`Compatible` is not inductive: the code decides a grant from counts, so the
proof needs that the counts are exact (`CountsMatch`), hence that each list
holds exactly the requests that its status says (`ListsInv`), that a partitioned
lock has only intent modes and no waiters (`PartitionedImpliesIntent`), what a
request's fields are at each point of its thread's call (`RequestInv`), who owns
the bucket mutex during a migration (`MigrationInv`) and that a thread which
leaves nothing granted is still going to look at the queue (`QueueInv`). The
proof has one lemma per action; `HeldStep`, proved along with the invariant, is the
refinement step. Cardinalities change by one element at a time (`CardChange`,
`CountsStep`), lists are related to sets by `Represents`. `ExclusionHolds` adds that a
migrated request never has to wait: the thread that migrates owns the bucket
(`OwnerInv`, an invariant of its own), and whoever would conflict needs it.

The assumptions are those of `LockManager`: finitely many lockers, options of
the right type, and a modulus above the number of lockers.

The second part of `LockManagerProofs` continues with what the requests, the queue and the threads promise each
other, with the same generality except for two hypotheses on the options:

| Theorem | Statement |
|---|---|
| `WaitsInvariance` | `Spec => []WaitsInv` |
| `RequestsStay` | `~ConversionTimeouts => (Spec => []RequestsKept)` |
| `WaitsAreExact` | `~ConversionTimeouts => (Spec => []WaitsExact)` |
| `HeadExact` | `NoFullUpgrades => (Spec => []HeadConsistent)` |
| `FirstComeFirstServed` | `Spec => NoOvertaking` |
| `HeadNeverDisappears`, `NoGrantMissed` | `[]HeadStays`, `[]FrontBlocked`, whatever the options |

The hypotheses are the ones under which the code is right; findings 1 to 3 below are what
happens without them. `ConversionTimeouts` is FALSE for every caller but tests;
`NoFullUpgrades` says that the intent lock of a priority resource is not upgraded to `S` or
`X`. They stand in front of the parts of the invariant that need them, so that the
others hold in general.

`WaitsInv` is `IInv` and `OwnerInv` with

* per request (`FieldsInv`): a request that is on no list is being unlocked for the last
  time (`KeepInv`); who asks for compatible-first (`PolicyInv`); a pending conversion is to a
  mode that covers the one held (`UpgradeInv`);
* `PolicyCountInv`: the compatible-first count is a cardinality, which a grant or a release
  changes by the one request it is about, below the modulus of its type;
* `ScanInv`: on an ordinary resource the policy never switches, so the scan of the queue
  stays at its front, which is why nobody is overtaken;
* `FrontInv`: either the front of the queue conflicts with what is granted, or the thread
  with the bucket mutex is still going to look at it. It needs that a granted mode disappears
  only in steps that start such a scan: a conversion replaces a mode by one that covers it
  (`BlockedStays`), and an unlock that leaves the mode's count above 0 changes nothing;
* `NotifyInv`: between `lockBegin` and the grant nothing has been notified; whose
  notification is about to be sent has been granted and sleeps, or has given up but
  cannot get through `unlock` without the bucket mutex; `CursorInv` says that this
  notification is for a request of the granted list.

Only model-checked: liveness (out of the prover's reach).

### Findings

The runs keep apart what the first three need, so that their properties hold; the same
model shows them with other options:

1. **`unlock` acts on a stale status** (`RequestsKept` of `lock_ordinary`, with
   `ConversionTimeouts = TRUE`). The status is read
   at `lock_manager.cpp:657` without the bucket mutex. After a timed-out wait for a
   conversion the read may give `STATUS_CONVERTING` while `_onLockModeChanged` is
   granting it; the branch for granted requests then takes the request off the
   list with a count above 0, although the comment at line 685 says that the count
   is 0 by then, so that the locker loses the mode it still relies on.
2. **A late notification ends the wrong wait** (`WaitsExact` of `lock_ordinary`, with
   `ConversionTimeouts = TRUE`). The status is set (line 823) before the notification is
   sent (828). The locker can see the first, return, and ask for another conversion;
   the notification of the first one then ends the wait for the second, which is
   still pending.
3. **The compatible-first count wraps** (`HeadConsistent` of `lock_global`, with
   `"X"` in `UpgradeModes`) when the global lock is upgraded to a full mode: `lockBegin` sets the
   flag of a request that is already counted as granted, and `unlock` decrements by the
   flag.

Two comments describe something else than the code does; the model follows the code:

4. Pending conversions block each other in both directions, while the deadlock detector
   follows only earlier ones (lines 1278–1283); section 7 says what follows from it.
5. The scan of the queue stops at the first request that conflicts (line 865); the
   comment at 833–842 says that it grants *all* compatible ones.

Findings 1 and 2 need a wait for a conversion that times out or is found
deadlocked (`lock_state_test.cpp`, `ConflictUpgradeWithTimeout`); 3 needs an
upgrade of the global lock.


## 4. Elections (`Election`)

### Modules

* `Election`: the members of a replica set with protocol version 1 and a fixed
  configuration, the calls of `replSetRequestVotes` between them, and crashes.
* `MCElection`: two members that hold data and an arbiter.
* `ElectionProofs`: the theorems.

### State and steps

| Variable | Code |
|---|---|
| `term`, `role`, `lastVote` | `_term`, `_role`, `_lastVote` of `TopologyCoordinatorImpl` |
| `steppingDown` | `_leaderMode == kSteppingDown` |
| `diskVote` | the document of `local.replset.election` |
| `lastApplied` | the optime of the newest oplog entry; as one entry per term is written (the "new primary" entry), an optime is a term |
| `loaded`, `restore` | `_finishLoadLocalConfig` has restored the term; the term it has read and is about to restore |
| `elect` | the `VoteRequester` and where the candidate is between its callbacks |
| `rpcs` | the `replSetRequestVotes` calls, and how far the voter has got with each |
| `cast`, `won` | history: votes answered for; elections won, with the term of the votes and the term of the election id |
| `early` | history: votes given out of turn, see *What the properties except* |
| `highest` | the highest term that any member has entered, which bounds the terms that can still arrive in heartbeats and metadata |

A step is a critical section of `ReplicationCoordinatorImpl::_mutex`, or a write of
the last vote document.

| Code | Actions |
|---|---|
| `_startElectSelfIfEligibleV1`, `_startElectSelfV1_inlock` | `StartElection` |
| `_onDryRunComplete` | `OnDryRunComplete` (`RunForElection` or `LoseElection`) |
| `_writeLastVoteForMyElection`, `_startVoteRequester_inlock` | `WriteLastVoteForMyElection` |
| `_onVoteRequestComplete`, then `kActionWinElection` | `OnVoteRequestComplete`, `WinElection` |
| `VoteRequester::Algorithm`, `ScatterGatherRunner` | `Requester`, `Requests`, `WithResponse`, `HasReceivedSufficientResponses`, `RequestFails` |
| `updateTerm` from heartbeats and metadata | `LearnTerm` |
| `ReplicationCoordinatorImpl::processReplSetRequestVotes` | `UpdateTermForRequest`; `GrantDryRunVote`, `GrantVote` or `RefuseVote`; `StoreVote` |
| `StepDownSelf`, `_stepDownStart`, `_stepDownFinish`, `attemptStepDown` | `StepDownSelf`, `StepDownFinish`, `AttemptStepDown` |
| `onTransitionToPrimary`, replication | `LogNewPrimary`, `ApplyOplog` |
| a crash, `_startLoadLocalConfig`, `_finishLoadLocalConfig` | `Restart`, `FinishLoadLocalConfig` (its first critical section belongs to `Restart`) |
| the assertion of `ScatterGatherRunner::RunnerImpl::processResponse` | `RunnerAborts`, which is a restart too |

When a member stands for election (timeouts, priorities, freshness), when it
steps down and what it hears from others is nondeterministic: any schedule of the
code is a schedule of the model, and safety must not depend on the times. The
answer of an arbiter that prefers another primary is nondeterministic too. A
call that fails for the candidate may still be served by the voter, and a
request that was given up may arrive at any later time; a message is not
duplicated (the calls are made over TCP and are not retried).

Left out: reconfiguration, members without a vote, protocol version 0,
rollback (`lastApplied` does not go back; `CommitPoint` has it), and the modes of a leader other than
stepping down (`LeaderMode`, section 5).

### What the properties except

Four schedules of the code give less than one would expect of an election. All of them happen in the model, in every run
and in the proofs. The properties are stated so that they hold with them, and name what has gone wrong where they make an
exception.

| Schedule | What happens | How the properties say it |
|---|---|---|
| a higher term is learnt between the unlock at the end of `_onVoteRequestComplete` and the lock of `kActionWinElection` | the election id is made from a term in which nobody voted for the member, and in which another member may win as well: two members lead with two ids of one term | `won` records both terms; `ElectedByMajority` and `OneLeaderPerTerm` are about the term of the votes, and `ElectedByMajority` adds that it is not above that of the id |
| a primary that stepped down for a vote request, and so has not entered its term, grants the vote | it votes for itself in the same term when it then runs for election | its vote is `early`; `VotesStand` and `OneLeaderPerTerm` except a member whose vote in that term, or in a later one, was early |
| a request is served between the two critical sections of `_finishLoadLocalConfig` | a vote in an old term replaces in memory the vote of a higher term, which can then be given again | the replaced term is `early` |
| the primary does not answer in the dry run of a catch-up takeover | the algorithm can never have enough responses, and `invariant(!_callbacks.empty())` fails (`scatter_gather_runner.cpp:149`) | `RunnerAborts`; `ElectionsEnd` holds, as the candidate ends with its server |

What remains says more than its exceptions: two winners of one term have a common voter, that voter voted out of turn in
that very term or a later one, and no other fault (a crash at any point, a late answer, a lost call) leads to it.

### Run

| Run | Question | Instance |
|---|---|---|
| `elections` | Do votes survive crashes; when can a term have two winners; was a leader elected; does every candidate win or lose? | two members with data and an arbiter, 2 terms, 2 elections, 1 crash; 424,000 states |

Two elections are the fewest in which two candidates compete in one term. Two terms are enough for a vote, a term or a call of the first to be stale in the
second. One crash suffices to lose what was not written; the proofs cover any
number of each. The safety properties were also checked once with three elections and no crash (2.7 million states), with
two members, four elections and two crashes (413,000) and with three members that hold data, two elections and a crash
(836,000). The run does not check for deadlock: when the bounds are
used up, or the set has elected a primary and nothing happens, it rests.

Fairness: the callbacks of a candidate run (the executor runs what is scheduled), and its calls end by an answer or by the
timeout that `VoteRequester` gives them. Nothing is asked of the other members, and nobody has to stand for election.

### Proofs

`ElectionProofs` proves for every finite set of members and all bounds, from `NodesAssumption` and `BoundsAssumption`
alone:

| Theorem | Statement |
|---|---|
| `Invariance` | `Spec => []IInv` |
| `TypeCorrect` | `Spec => []TypeOK` |
| `VotesOnce`, `VotesAreRemembered`, `VotesAreKept` | `Spec => []VotedOncePerTerm`, `Spec => []VotesRemembered` and both, `Spec => []VotesStand` |
| `LeadersAreElected` | `Spec => []ElectedByMajority` |
| `ElectionSafety` | `Spec => []OneLeaderPerTerm` |

`VotedOncePerTerm` is not inductive, as a vote exists before it is answered for: it
is in memory, or on its way to the disk. `Pledged(v, t, c)` says that one of
these holds, and `PledgeInv` that a member is pledged to one candidate in a term and
to none in a term above its last vote. A new pledge is in a higher term than the
last vote, because a member votes in the term it is in (`TermInv`), or the vote is
recorded as `early`; a crash forgets only pledges that were
not answered for, since an answer is given after the write (`CastInv`). What a
candidate counts has been answered for in its term (`ElectInv`), because a call
belongs to one election (`CallInv`, by fresh ids); it wins with the votes of that term,
whatever term it is in by then. Two majorities meet (`MajoritiesMeet`), and the member
in both answered for one vote, or voted early.

Every action that has no part in a vote is shown to be a `Quiet` step, for which the
invariant is proved once (`QuietKeeps`).

Only model-checked: `ElectionsEnd`.

### Findings

1. **A superseded winner becomes primary in a term nobody elected it in.** The term is checked, the mutex released, taken
   again, and the election id made from the term that is current then
   (`replication_coordinator_impl_elect_v1.cpp:314`, `replication_coordinator_impl.cpp:2714`). The member elected in
   that term has the same term in its id, so that two members lead in one term.
2. **A former primary can vote twice in a term.** `updateTerm` makes it step down without entering the term
   (`topology_coordinator_impl.cpp:2949`); it grants the vote all the same, and if it
   then runs for election, it enters that term and votes for itself. With a majority that has this member in it, two members
   win the election of one term.
3. **A vote before the term is restored.** Between the two
   critical sections of `_finishLoadLocalConfig` (`replication_coordinator_impl.cpp:606`) a vote in an old term replaces the
   last vote in memory, and another one in the term of the vote on disk is granted later. It takes three elections and a
   crash.
4. **A silent primary stops a catch-up takeover.** The failed call leaves `_primaryVote` pending, the algorithm never has
   enough responses, and `invariant(!_callbacks.empty())` fails in `scatter_gather_runner.cpp:149`.

## 5. From election to writes and back (`LeaderMode`)

### Modules

* `LeaderMode`: one member, from the moment it wins an election until it is a
  secondary again: the modes of a leader, catch-up, drain mode and the signal of the
  applier that ends it, the `replSetStepDown` command, and the step down that a
  heartbeat or a higher term triggers.
* `MCLeaderMode`: two commands.
* `LeaderModeProofs`: the theorems.

It refines what `Election` knows of a leader: elections are won and lost here by
choice, and what `Election` calls `steppingDown` is one of five modes. As there, the term may rise between the count of
the votes and the win.

### State and steps

| Variable | Code |
|---|---|
| `term`, `role`, `leaderMode`, `firstOpTimeOfMyTerm` | members of `TopologyCoordinatorImpl`; an optime is the term of its entry |
| `electionTerm` | the term that `_onVoteRequestComplete` is called with |
| `memberState`, `canAcceptNonLocalWrites`, `applierState`, `catchup` | members of `ReplicationCoordinatorImpl` (`catchup`: there is a `_catchupState`) |
| `winning` | `_onVoteRequestComplete` has counted a majority and released the mutex |
| `starting` | the terms won whose thread is between the two critical sections of `kActionWinElection` |
| `stepDownPending` | `_stepDownFinish` is scheduled |
| `producerState`, `unapplied` | `BackgroundSync::_state`; the number of entries in the buffer, in the batcher and in the batch being applied |
| `globalLock` | the thread that has the global lock in mode X |
| `cmd`, `termAtStart` | where each `replSetStepDown` command is |
| `applier`, `termWhenBufferIsEmpty` | where the applier thread is |
| `failed` | the assertion that has ended the server; nothing moves after that |
| `slips`, `robbed` | history, see *What the properties except* |

A step is a critical section of `ReplicationCoordinatorImpl::_mutex`, or of
`BackgroundSync::_mutex`. A thread that needs the global lock takes it together with the
mutex: what others do in between with the mutex alone they can do before as well.
While a command has the lock and the mutex nobody else moves (`MutexFree`); while the
applier has the lock it does not have the mutex (`onTransitionToPrimary`), and the mode
can change under it.

| Code | Actions |
|---|---|
| `_onDryRunComplete`, `processLoseElection`, `kActionWinElection` | `RunForElection`, `LoseElection`, `CountVotes`, `WinElection`, `StartCatchup`, `StartCatchupFails` |
| `CatchupState::abort_inlock` (caught up, timeout, `abortCatchupIfNeeded`) | `AbortCatchup` |
| `_updateMemberStateFromTopologyCoordinator_inlock` | `UpdateMemberState`, `FollowAgain`, a part of every step that calls it |
| `BackgroundSync::start`, `_enqueueDocuments` | `StartProducer`, `EnqueueDocuments` |
| `SyncTail::oplogApplication` | `ApplierReadsTerm`, `MultiApply`, `NoBatch` |
| `signalDrainComplete` | `SignalDrain`, `LeaveDrainMode`, `CompleteTransitionToPrimary` |
| `_updateTerm_inlock`, `StepDownSelf`, `_stepDownFinish` | `UpdateTerm`, `StepDownSelf`, `StepDownFinish` |
| `stepDown` | `StepDown`, `LockTimeout`, `PrepareForStepDownAttempt`, `PrepareFails`, `AttemptFails`, `RetryAttempt`, `AttemptSucceeds`, `AttemptGone`, `AbortAttempt`, `AbortFails` |

Whether secondaries have caught up, when limits of time are over and what heartbeats say
is nondeterministic. Left out: reconfiguration, freezing, maintenance mode, rollback (a
secondary is `SECONDARY`), and shutdown.

### What the properties except

The code has several schedules that go wrong. All of them are behaviours of the model; where an assertion of the
code fails the server ends (`failed`). The properties say what goes wrong, when, and that nothing else does.

| Schedule | What goes wrong | How the properties say it |
|---|---|---|
| an attempt to step down begins before the first entry of the term is logged and is given up | the mode is `kMaster`: writes before the drain, see *Findings* | slip `givenUp`; `DrainSafe` excepts it until the entry is logged or the member steps down |
| no batch arrives within a second although the buffer is not empty, or entries arrive before drain mode begins and after the applier found none (`sync_tail.cpp:783–793`, `915–928`) | the drain is declared complete with entries left | slip `missed`, until the applier has seen an empty buffer; `DrainSafe` excepts the emptiness of the buffer, nothing else |
| a thread that won an earlier term enters its second critical section after a later win (`replication_coordinator_impl.cpp:2726`) | catch-up or drain mode starts once more, perhaps after the drain, or `invariant(!_catchupState)` (line 2733) fails in one of the two threads | slip `late`; `DrainSafe` and `ProducerApplierStates` except the applier's state, `FailuresExplained` says that the assertion fails only so |
| the member steps down while a command waits for the global lock (`replication_coordinator_impl.cpp:1718–1749`) | the attempt starts from `kNotLeader`, and the assertion of `_setLeaderMode` (`topology_coordinator_impl.cpp:2585`) fails | `PrepareFails`; `LeaderModeTransitions` says that it fails only from `kNotLeader` |
| a command of an earlier term wakes up while another one has begun an attempt, and ends that attempt | the assertion at `topology_coordinator_impl.cpp:2695` fails for the other command | the other command is `robbed`; `OneAttempt` and `FailuresExplained` except robbed commands, `LeaderModeTransitions` says who can rob |
| a command wakes up while the member runs for election again | `_updateMemberStateFromTopologyCoordinator_inlock` asserts that a candidate whose state does not change is alone in its set (`replication_coordinator_impl.cpp:2576`) | `AbortFails` |

### Runs

| Run | Question | Instance |
|---|---|---|
| `leader_modes` | When are writes accepted; which assertions on roles, modes and states hold, and when can the others fail; does a leader come to accept writes, and every command return? | two commands, 2 terms, 1 entry; 81,000 states |
| `doc_abort_while_draining` | Are writes forbidden in drain mode, as the code says? See *Findings* | the same |

`DrainSafe` says that writes come after the drain and the drain ends with nothing left to
apply, `StatesAgree` that role, mode, member state, attempts, producer and applier agree and which assertions can fail,
`LeaderModeTransitions` that the mode changes along its diagram; `LeadersAcceptWrites` and
`CommandsReturn` are the liveness properties. A failed assertion ends a server, so that the liveness properties are
about servers that go on.

Two terms are what it takes for a signal of the applier, or a command, of the first to
be stale in the second. Two commands compete for the attempt. One entry tells an empty
buffer from one that is not; the safety properties were also checked with two. The proofs
cover all numbers.

Fairness: what is scheduled on the executor runs, catch-up ends (it has a
timeout, or its target, which some member has reported, is reached, or
`replSetAbortPrimaryCatchUp` is called), the applier runs, a command waits until a time limit
(`stepDownUntil`, `waitUntil`) at most, and a thread that waits for the mutex or
for the global lock gets it in the end, which `CallsReturn` of `LockManager` shows for
the lock. It is strong because the mutex and the lock come and go, and of a command it is asked once for going on and
once for ending, as a time limit ends one that does not succeed. Nobody has to fetch,
to run for election, or to call `replSetStepDown`.

### Proofs

`LeaderModeProofs` proves, for all values of the constants, from `ThreadsAssumption` and `BoundsAssumption` alone:

| Theorem | Statement |
|---|---|
| `Invariance` | `Spec => []IInv` |
| `TypeCorrect` | `Spec => []TypeOK` |
| `DrainIsSafe` | `Spec => []DrainSafe` |
| `ModesFollowRole`, `AttemptsExclude`, `ProducerAndApplier`, `StatesAreConsistent` | `Spec => []ModesAgree`, `Spec => []OneAttempt`, `Spec => []ProducerApplierStates` and all of it, `Spec => []StatesAgree` |
| `TransitionsAreValid` | `Spec => LeaderModeTransitions` |

The properties are part of the inductive invariant; what has to be added is what
threads remember while they hold no lock. `BufferInv` is about the applier: once it has found the buffer
empty and the member is draining, it stays empty (or the entries count as missed); if the member steps down meanwhile,
the term that the applier has read is over before the member leads again, so that
`canCompleteTransitionToPrimary` refuses. `ReelectedInv` says the same of a waiting command and
`attemptStepDown`. `MasterInv` says that once drain mode is left the first entry of the
term is logged, is being logged, or the member must step down: an attempt that is given
up may restore `kMaster`. `StartInv` says that the thread that won the present term finds neither catch-up nor drain mode
unless a late thread has been there. `LockInv` ties the positions of the threads to the global lock,
`RobbedInv` and `TermInv` the rest. There is one lemma per action, with a step for every part of the
invariant that the action touches.

Only model-checked: `LeadersAcceptWrites` and `CommandsReturn`.

### Findings

1. **A failed step down lets writes in before the drain** (`doc_abort_while_draining`).
   `abortAttemptedStepDownIfNeeded` (`topology_coordinator_impl.cpp:1754`) sets `kMaster` even if
   the attempt began in `kLeaderElect`. Afterwards `canCompleteTransitionToPrimary` refuses for
   ever: drain mode is not left, temporary collections are not dropped, and
   `_firstOpTimeOfMyTerm` stays at its maximum, so that nothing commits.
2. The other schedules of *What the properties except*: four assertions that a legal sequence of commands and elections
   can make fail, and a drain that is declared complete with entries left.
3. `replication_coordinator.h:481` says that the producer stays `Running` when a member steps down
   during catch-up. The code aborts catch-up, which stops the producer, and starts it again:
   it is `Starting` (`FollowAgain`).


## 6. The commit point (`CommitPoint`)

### Modules

* `CommitPoint`: the members of a replica set with their oplogs; what a primary writes, what the
  others fetch and apply, the positions they report, the commit point that a primary computes
  from them and how it spreads, the committed snapshot that each member derives from it,
  write concern `majority`, rollback via refetch, and crashes.
* `CommittedLog`: what replication promises about the committed entries of the whole set, without members: they
  are one oplog, which only grows at its end.
* `MCCommitPoint`: interchangeable members, and what is explored of the instance with crashes.
* `CommitPointProofs`: lemmas about optimes, majorities and oplogs, type correctness, and what
  elections and oplogs keep. `CommitPointSafety`, which extends it: what is committed survives and is one log,
  acknowledged writes, snapshots and rollback.

It composes elections (`Election`, without the dry run) and the transition to primary
(`LeaderMode`) with replication. `Vote` is the vote, the voter's new term and, with the last vote, the win, in one
step: votes are given in turn, and a winner leads in the term of its votes. The schedules of section 4 in which this is not so
(a vote of a member that has not entered the term or has not restored its own, a term that rises between the count and the
win) are not behaviours of `CommitPoint`. Its properties and theorems are about elections without them; with
two leaders in one term there is no committed log. Nor does a leader accept writes before it has drained (section 5).

### State and steps

| Variable | Code |
|---|---|
| `term`, `lastVote`, `role`, `steppingDown`, `elect` | as in `Election`; a leader is `draining` until `completeTransitionToPrimary` |
| `log`, `durable` | the terms of the oplog's entries (an optime is `<<term, index>>`); how many are durable (`lastDurable`) |
| `rollback`, `minValid` | the sync source of a member in `ROLLBACK`; the optime from which its data is consistent |
| `memberData` | the durable optimes of others that a primary knows of |
| `lastCommitted` | `_lastCommittedOpTime` |
| `candidates`, `snapshot` | `_stableOpTimeCandidates`, `_currentCommittedSnapshot` |
| `waiting` | the optimes whose clients are in `awaitReplication` |
| `committed` | history: the entries that some primary has committed |

| Code | Actions |
|---|---|
| `StartElection`, `processReplSetRequestVotes`, `processWinElection`, `updateTerm`, `_stepDownFinish` | `StartElection`, `Vote`, `UpdateTerm`, `FinishStepDown` |
| `signalDrainComplete`, `completeTransitionToPrimary` | `SignalDrainComplete` |
| a write, a flush of the journal (`setMyLastDurableOpTimeForward`) | `ClientWrite`, `Flush` |
| `setLastOptime`, heartbeats; `updateLastCommittedOpTime`, `advanceLastCommittedOpTime` | `RecordPosition`, with `UpdateLastCommitted`, `MajorityOpTime`, `MayAdvance` |
| `_setMyLastAppliedOpTime_inlock`, `_setStableTimestampForStorage_inlock`, `_calculateStableOpTime` | `SetMyLastApplied`, `SetStable`, `StableOpTime` |
| `_awaitReplication_inlock`, `_doneWaitingForReplication_inlock` | `CanAcknowledge` |
| `OplogFetcher` (`checkRemoteOplogStart`, `_onSuccessfulBatch`), `processMetadata`, `multiApply` | `Fetch` |
| `BackgroundSync::_runRollback`, `syncRollback`, `syncFixUp` | `StartRollback`, `Rollback`, `RollbackFails` |
| a crash and `_finishLoadLocalConfig` | `Crash` |

A position is recorded when it is reported: one that arrives later, or through another member,
commits later what is committed here at once. A batch is fetched, checked and applied in one
step; that entries of a stopped fetcher are not applied is in `LeaderMode`. The wait of a client
ends on the check of the committed snapshot alone, which is one of the conditions of the code: the
model acknowledges more than the code does. `RollbackFails` may leave `minValid` behind, as
`syncFixUp` writes it (`rs_rollback.cpp:614`) before it changes anything else.

An entry may be durable at once or be flushed later (`LazyFlush`); a follower's flush is part of
its report. A batch may end before the newest entry of the source: the commit point in its
metadata may be ahead of what the member has when it has applied the batch.

Left out: a draining member that has fetched an entry of a later term through a member that had
not heard of that term, and then completes its drain. Its `lastApplied`, which only moves forward,
is not the last entry of its oplog from then on (the guard on terms in `LogEntry`). Also left out: members without a vote or without data, `writeConcernMajorityJournalDefault: false`,
write concerns with numbers or tags, and reads that wait for a snapshot.

### Runs

| Run | Question | Instance |
|---|---|---|
| `commit_point` | Does what is committed survive elections, rollbacks and crashes? Are snapshots and acknowledged writes committed? Does rollback respect the commit point, as the code asserts? Is what the set commits one log? | 3 members, 3 terms, 2 entries, 1 client, 1 crash; 534,000 states |
| `doc_commit_point_ahead` | *Expected violation.* Does rollback respect the commit point in a set of five? | 5 members, 2 terms, 1 entry; a counterexample of 13 states |

`CommittedSurvives`: a committed entry is durable on a majority, and whoever lacks it cannot be
elected. `SnapshotIsCommitted`: the committed snapshot of a member is a committed entry of its own
oplog. `RollbackAfterCommitPoint`: the assertion at `rs_rollback.cpp:945`.
`AcknowledgedIsCommitted`: a client is told of success only if the entry that it wrote is committed.
`ImplementsCommittedLog`: the entries that any primaries have ever committed (`committed`) are the variable of `CommittedLog`;
a step that commits appends to them, whichever primary takes it and however old its view of the set is.

Three terms are needed for the known anomaly in which a primary commits an entry of an earlier term that the
primary of a term in between may still undo (the mutant `MayAdvance_OldTerm` shows that it
happens within the bounds), and two entries for a rollback that ends at a common point that is not the
beginning. The constraint `Explored` keeps the run within minutes: a state with a crash behind it,
or with an entry that is not durable, is explored further only up to the second term and while no client waits;
the third term and the client are explored with entries that are durable at once, and once there is a third
term, only with clients whose member has reached it. The proofs below
have neither this restriction nor the bounds. The runs do not check for deadlock: the bounds end them.

### The finding

`doc_commit_point_ahead` shows that the assertion of `rs_rollback.cpp:944-947` does not hold in
general. *A* is primary in term 1 and writes an entry that nobody fetches; *B* is elected in term 2 by *C* and *D*, and its
first entry is committed on *B*, *C* and *D*. *E*, which is behind, gets a batch from *B* that ends before
that entry, but whose metadata has the commit point: `advanceLastCommittedOpTime`
(`topology_coordinator_impl.cpp:2875-2894`) takes it without asking what *E* has. Then *E* syncs from *A* and
fetches the entry of term 1. That entry is not after the commit point and becomes the committed
snapshot of *E* (`SnapshotIsCommitted` fails on the same instance, a state earlier), and when *E* meets *B* again
it has to roll back to a point before its commit point. It takes a majority that has the entry and two members
that lack it: five members.

### Proofs

All five invariants and the refinement are theorems, for every number of terms, entries, batches, clients and crashes, whether or not
entries are durable at once, from `CommitAssumption` alone: a finite, non-empty set of members and natural
numbers as bounds. What `Vote` leaves out (above) they leave out: they assume the elections of section 4 without votes out of
turn and without superseded winners, and section 4 says that only these give a term two winners.

| Theorem | States |
|---|---|
| `TypeCorrect` | `Spec => []TypeOK` |
| `CommittedNeverLost` | `Spec => []CommittedSurvives` |
| `OneCommittedLog` | `Spec => ImplementsCommittedLog` |
| `AcknowledgedNeverLost` | `Spec => []AcknowledgedIsCommitted` |
| `SnapshotSafe` | `FewMembers => (Spec => []SnapshotIsCommitted)` |
| `RollbackSafe` | `FewMembers => (Spec => []RollbackAfterCommitPoint)` |

`FewMembers` is `Cardinality(Nodes) <= 4`. It is not a convenience: the two properties are false with five
members, as the finding shows. The others need no such hypothesis: what is committed is safe in a set
of any size, and it is only a member's own view of it that may go astray.

None of the invariants is inductive. The inductive invariant has seven layers, each kept by every step
given the ones before it. TLC checked layers 1 to 6 with three members, and by simulation with five, before they were
proved, and layer 7 with three and with four.

1. `BaseInv`: types; terms of votes, entries and elections do not exceed the member's term where they must not.
2. `VoteInv`: a candidate's votes are stored, nobody has voted for two candidates of one term, and once there is a leader or
   an entry of a term, a majority of votes in it is spent (`Decided`), so that the term has one leader.
3. `LogInv`: the terms in an oplog do not decrease (`Ordered`); two oplogs with an entry of the same term agree up to it
   (`Matching`); nobody has an entry of a leader that has not written one, and a primary has every entry of its term.
4. `ReportInv`: what a primary knows of the positions of others, which may be out of date. Whoever has
   reported an entry of the term still has it, durably, or else the primary can commit it no more, since a majority has voted in
   a later term without having reported it (`Shut`). The same holds of later leaders and of later candidates
   with such a vote. This is the layer in which a deposed primary that has not heard of it goes on counting positions.
5. `CommitInv`: every committed entry is covered by an entry that is `Chosen`: a majority keeps it durably and has voted for
   nobody without it, and every leader and every oplog of later terms has it. That the entry that
   `updateLastCommittedOpTime` moves to is chosen follows from layer 4 and from its term being
   that of the primary. Entries of earlier terms are covered by it, they need not be chosen themselves.
6. `PointInv` and `WaitInv`: a commit point that a member knows of is chosen, and what an oplog with it has up to it is committed;
   a client's write is in the oplog of the member if that leads in the term of the write.
7. `LineInv` and `SnapInv`, with up to four members: the oplog of a member has its commit point or is part of every oplog
   that has it, and the candidates and the snapshot are in the oplog. An entry that is chosen is missing
   from one member at most, so that whom that member fetches from next has it.

`OneCommittedLog` needs layers 1 to 5 and that what is committed has no gaps (`NoGaps`, kept because a primary commits all
that its oplog has up to the commit point). Two committed entries are covered by chosen ones, the majorities that keep these
meet, and so one oplog has both entries (`CommittedTogether`): their terms are in the order of their places, and two in one place
are the same. A new entry therefore comes behind all that were committed.

Every step is first put into a class that says what it does to votes, oplogs and commit points (`Calm`, `LogStep`,
`Persist`, `Quiet`, `PointMoves`), and the layers are shown to be kept class by class rather than action by action.

## 7. The deadlock detector (`DeadlockDetector`)

### Modules

* `DeadlockDetector`: several resources, the lock manager with one step per call, and one search
  at a time, which reads one bucket per step while the other lockers go on.
* `MCDeadlockDetector`: five lockers and two resources, one of them the prioritized flush lock.
* `DeadlockDetectorProofs`: the theorems.

### State and steps

`head` has the lists of every `LockHead` and the fields of the requests; the counts are defined
from them (`LockManager` shows that they agree). `search` is the `DeadlockDetector` object: the
locker, the nodes that are not processed yet, the lockers in the graph, the result; and, as history,
the lockers that were in a deadlock with it when the search began (`deadlocked`), and whether one of
them (`broken`), or one that the search has met (`moved`), has gone its own way since: it has released or
given up a lock, or it has been granted before a conflicting request that waited before it (`Overtakes`).

| Code | Actions |
|---|---|
| `lockBegin`: `LockHead::newRequest`, `LockManager::convert` | `Lock`, `Convert` |
| `unlock`, `_onLockModeChanged` | `Unlock`, with `OnLockModeChanged` |
| `lockComplete`: a timeout | `GiveUp` |
| `DeadlockDetector::DeadlockDetector`, `next`, `_processNextNode` | `CheckBegin`, `ProcessNextNode` |
| the result in `lockComplete` | `KeepWaiting`, `Deadlock` |

What a deadlock is, is not defined by the search: a set of waiting lockers is `Stuck` if none of
them would be granted anything although everybody else released everything (by the grants of the
lock manager itself, and as long as none overtakes another), and it is a deadlock if no smaller set is.

### Run

`deadlocks` (454,000 states): `FoundIsDeadlock`, a locker that is told `LOCK_DEADLOCK` is stuck, unless
somebody whom the search met has gone its own way meanwhile; `DeadlockIsFound`, a locker that is
in a deadlock when its search begins finds it, unless one of the deadlock goes its own way.

Two interchangeable lockers ask for both resources, for one of them in a mode that they upgrade; the other
three ask for the flush lock only, each in another mode. This allows deadlocks of two and of three
(the third waits in the queue between them), within a resource (two conversions) and across resources,
waits behind a request that conflicts with nobody granted, and, which takes five lockers, a
request that overtakes another.

### Proofs

For any lockers, resources and request modes (`DeadlockAssumption`: only that the constants have their types;
the sets need not be finite):

| Theorem | Statement |
|---|---|
| `BasicInvariance` | `Spec => []BasicInv` |
| `TypeCorrect` | `Spec => []TypeOK` |
| `FoundCyclesAreDeadlocks` | `Spec => []FoundIsDeadlock` |
| `DeadlocksAreFound` | `Spec => []DeadlockIsFound` |

The argument:

1. **Loops.** The grants of `_onLockModeChanged` are recursive functions over a list. `LoopInvariant` and
   `LoopExists`, proved from the least element of a set of numbers, take the place of an induction theorem;
   `ConversionsGranted` and `WaitersGranted` are the loop invariants, and `GrantsFacts` says what the
   whole call does.
2. **Waits.** `Blocks(h, k, o)` says that on `h` the request of `k` waits for the one of `o`; these are
   exactly the edges that `_processNextNode` follows (`OwnersBlock`). A new request or a conversion ends
   no such wait (`NewRequestAsks`, `ConvertAsks`); a release ends only those of and for the one that
   releases, and of those that overtake (`GrantsKeep`, `UnlockReleases`). So all waits
   between lockers that do not go their own way stay (`RequestGoesOn`, `ReleaseGoesOn`), although each was read at another moment.
3. **From waits to deadlocks.** Lockers each of which waits for one of them are stuck, by the grants of the
   lock manager (`EdgesStuck`); conversely, in a deadlock that is not overlooked everybody waits for
   another one of it (`DeadlockEdges`).
4. **What is found is one.** `FoundInv`: a way of waits leads from the locker of the search through its graph to
   every node that is still to be processed, and back to the locker when a cycle is found.
5. **What is one is found.** `FollowInv`: the search has followed all waits of a minimal set of waits
   of the deadlock, to a node that is still to be processed or to a locker that was met; when no node is
   left the graph holds the whole deadlock, somebody in which waits for the locker (`FollowedIsFound`).

`BasicInv` says that a locker waits for one resource at a time, is on one list of it, and converts only a granted request, to
a mode that covers the one it holds: without the latter a granted conversion could end another's wait. The three
invariants were checked with TLC on the instance of the run before they were proved.

The proofs corrected the properties. Earlier versions of both were true of three lockers and
false of more, as TLC then showed:

* with five lockers, a request that is newly granted with compatible-first lets one that waits overtake a conflicting
  one (the flush lock is held in `IX` and `IS`; `S`, `X` and `IS` wait; when the `IX` is released the `S` is
  granted, and the `IS` with it, past the `X`), which ends a wait that the search may have read; hence `Overtakes`;
* with four lockers, a request may wait for its turn behind one of the deadlock only; hence `BehindOthers` speaks of the
  lockers of the deadlock instead of all.

### Limits of the search

The model shows three, which the properties leave out:

1. **A conversion that only another conversion blocks.** The lock manager counts pending conversions as
   granted, in either order; the comment at `lock_manager.cpp:1278–1279` says that conversions are
   granted first come, first served, and the search (1282–1283) follows only the ones that
   come earlier in the granted list. Of two conversions that block each other, the one that comes first in the list sees
   nobody whom it waits for, and the other one's search reaches it and ends there: neither of the two finds the deadlock
   (`ConversionBehind`).
2. **A request that only waits for its turn.** A request may stay in the queue behind others although it conflicts with
   nobody before it: when the one it conflicted with has given up (section 3, finding 5), or because the scan of the
   queue stops before it. The search sees nobody whom it waits for (`BehindOthers`).
3. **Phantom cycles.** Buckets are read one after the other, so a cycle may be reported of which one
   edge was gone, by a release, a timeout or an overtaking, before another came to be. The request is then
   cancelled although it could have been granted; the caller tries again.

The only production use of the detector is the flush lock of MMAPv1 (`lock_state.cpp:1049`).

## 8. Tickets, batches and the global lock (`Throttling`)

### Modules

* `Throttling`: how an operation comes to the global lock and leaves it again: parallel batch writer mode
  (PBWM), a ticket, the lock; yields; the applier, whose batch keeps everybody but its writers out;
  `TicketHolder::resize`.
* `MCThrottling`: three operations, one of which asks for `MODE_X`, and one writer.
* `ThrottlingProofs`: the theorems.

### State and steps

`pc` is where a thread is on the way `pbwm`, `ticket`, `global`, `active` and back; `mode` the mode it
asks for; `pbwm` who holds PBWM; `sem` and `outof` the semaphore of the ticket holder and `_outof`, which
`resize` changes in two steps. One ticket holder is modelled, that of `MODE_IX`, in
the variant with a semaphore (Linux).

| Code | Actions |
|---|---|
| `Lock::GlobalLock::_enqueue`, `LockerImpl::_lockGlobalBegin`, `lockGlobalComplete` | `Enqueue`, `LockPbwm`, `TakeTicket`, `LockGlobal`, `TicketTimeout`, `LockTimeout` |
| `unlockGlobal`, `saveLockStateAndUnlock`, `_unlockImpl`, `restoreLockState` | `UnlockGlobal`, `ReleaseTicket`, `UnlockPbwm`, `Restart` |
| `SyncTail::multiApply` | `BatchBegin`, `BatchStart`, `BatchEnd` |
| `TicketHolder::resize` | `ResizeBegin`, `GrowRelease`, `GrowCount`, `ShrinkWait`, `ShrinkCount`, `ResizeEnd` |

### Run

`throttling` (49,000 states): `TicketsConserved`, `BatchIsolated`, and the liveness properties `OpsServed` and
`WaitsEnd` (batches are applied, resizes return). One or two tickets, with four threads, make tickets
scarce; with one, the writer of a batch needs the very ticket that operations hold.

Fairness: strong for the steps of threads and of resize, because a semaphore, a mutex and a lock come and go
(the semaphore is assumed not to pass over a waiter for ever; the lock manager grants in the order
of its queue, section 3); weak for the applier, which
has priority on PBWM: its `MODE_X` request goes to the front and everyone who comes later waits. Operations end;
they need not begin, yield or time out, and those that take their locks again after a yield do not time out
(`restoreLockState`, `lock_state.cpp:788`).

`OpsServed` assumes that at most one other operation asks for `MODE_X`: such requests have no ticket and go to the
front of the queue, so that two of them that take turns starve the rest.

### Proofs

`ThrottlingProofs` proves, for all sets of operations and writers and all sizes:

| Theorem | Statement |
|---|---|
| `Invariance` | `Spec => []IInv` |
| `TypeCorrect` | `Spec => []TypeOK` |
| `NoTicketLost` | `Spec => []TicketsConserved` |
| `BatchAlone` | `Spec => []BatchIsolated` |

`IInv` is `TypeOK`, `TicketsConserved` and what these need: an operation past PBWM holds it and a batch runs
only when nobody does (`PbwmInv`, from which `BatchIsolated` follows), writers rest between batches
(`WriterInv`: they have no ticket when a batch starts), and between its two steps resize is on the way to its
size (`ResizeInv`: `_outof` stays in its range). There is one lemma per action; tickets are counted by adding or
removing one thread from the set of their holders.

Only model-checked: `OpsServed` and `WaitsEnd`.

## 9. Range deletion and migrations (`RangeDeleter`)

### Modules

* `RangeDeleter`: one shard and one sharded collection: the chunk maps in use (`MetadataManager`), the deletions
  that wait for queries or in the queue (`CollectionRangeDeleter`) and the tasks that carry them out, a migration
  that donates a range, one that receives a range, refreshes and clears of the metadata, and
  `cleanupOrphaned`. The config server and the other shard are external.
* `MCRangeDeleter`: one range, two queries.
* `RangeDeleterProofs`: the proofs.

### State and steps

| Variable | Code |
|---|---|
| `config`, `known` | the versions of the chunk map at the config server, as what each gives to this shard; the newest that was installed here |
| `metadata` | `MetadataManager::_metadata`: the trackers, each with a version and its `orphans` |
| `held` | which tracker a query, or the donating thread, refers to (`usageCounter`) |
| `receiving` | `_receivingChunks` |
| `queue` | `_orphans` and `_delayedOrphans` of the range deleter, and the tasks scheduled for it |
| `deleter` | the task that runs: deleting with the collection lock, or waiting for replication without it |
| `recv`, `arrived` | the receiving thread; ranges received whose fate the donor has not decided yet |
| `donate` | the donating thread, from its commit on |
| `docs` | the ranges whose document is here |
| `failed` | the function whose assertion has stopped the server; nothing moves after that |
| `exposed`, `left` | history: ranges that have lost their protection, and what a failed cursor left behind, see *What the properties except* |

| Code | Actions |
|---|---|
| `getActiveMetadata`, `ScopedCollectionMetadata::_clear`, `_retireExpiredMetadata` | `BeginQuery`, `EndQuery`, with `Retire` |
| `refreshActiveMetadata`, `ShardingState::_refreshMetadata` | `Refresh`, `Clear` |
| `cleanUpRange`, `CollectionRangeDeleter::add`, `CleanupOrphanedCommand` | `CleanUpRange`, `Add`, `CleanupOrphaned` |
| `MigrationSourceManager::commitChunkMetadataOnConfig` | `DonateCommit`, `DonateRefresh`, `DonateRefreshFails`, `DonateLeaves`, `DonateCheck`, `DonateCleanUp`, `DonateCleanUpFails`, `DonateEnd` |
| `MigrationDestinationManager::_migrateDriver`, `_notePending`, `_forgetPending`, `waitForClean` | `BeginReceive`, `WaitForClean`, `Clone`, `Finish`, `RecvFail`, `Forget`, `ForgetFails`, `Interrupt` |
| `cleanUpNextRange`, `_doDeletion`, `_pop` | `TaskEnds`, `TaskDeletes`, `TaskMoves`, `TaskGivesUp`, `Delete`, `DeleteEnds`, `Replicate`, `ReplicateFails` |
| the donor of a range that was received, the config server (external) | `RemoteCommit`, `RemoteAbort` |

A range has one document, so that a range is complete or empty. Left out: the cloning of documents itself, the
critical section, drops of the collection and new epochs, chunk splits (ranges are fixed).

### What the properties except

The metadata may be cleared at any moment, a chunk map may arrive late, and a cursor may fail: the code has no guard
against any of it and neither has the model. Three of these schedules harm documents or fail an assertion. The
properties are stated for all of them, and say what harm is possible and to whom.

| Schedule | What goes wrong | How the properties say it |
|---|---|---|
| the metadata is cleared while a range is being received, or has arrived and is not yet in the installed map (`metadata_manager.cpp:222`) | `_receivingChunks` no longer protects the range: a deletion may be queued for it, and `forgetReceive` may find it missing (line 386) or in a map in use (line 399) | the range is `exposed` from then on; `OwnedComplete`, `InUseComplete` and `Asserted` except exposed ranges, and the run `doc_cleanup_orphaned` shows the loss |
| a chunk map that was fetched before a clear is installed after it (`sharding_state.cpp:508`, `567`) | there is no active map to compare its version with: it may be older than one known before | the ranges about which the two differ (`Doubtful`) are `exposed` |
| the metadata is cleared while queries run | the trackers they refer to are dropped (line 224): no deletion waits for these queries any more | `InUseComplete` speaks of those that began since the last clear, and of what begins now |
| the metadata is cleared between `DonateCheck` and `DonateCleanUp` | `cleanUpRange` asserts that there is metadata (line 407) | `Asserted` excepts a donor whose metadata was read before the clear; the server stops (`DonateCleanUpFails`) |
| the cursor of `_doDeletion` fails, which is logged and taken for the end of the range (`collection_range_deleter.cpp:334–340`) | a receiving thread is told that its range is empty, and clones into the rest | `ClonesIntoEmpty` excepts what that deletion `left`; whatever else is left there is a violation |

A clear at any other time exposes nothing, and a range that is exposed does not make another one unsafe: that is what
`OwnedComplete` says beyond the run that violates `OrphansOnly`.

### Runs

`ranges` (1.83 million states): `OwnedComplete` (what the newest map gives to the shard is there), `InUseComplete` (so
is what a query may still read), `ClonesIntoEmpty` (a range is cloned only when nothing is left of an earlier stay),
`NothingStranded` (a queued deletion has a task; who waits for a deletion waits for one that is still to come) and
`Asserted` (what the code asserts: in `forgetReceive`, in `cleanUpNextRange` after the wait for replication, at the
beginning of `cleanUpRange` when a donor calls it, and in `refreshActiveMetadata` when the metadata goes), each with the
exceptions of the table.

`doc_cleanup_orphaned`, the same instance: what `cleanupOrphaned` says of itself, violated, see *Findings*.

Five versions let a range be received, donated, received again and donated again, as well after a clear; two queries hold
two older maps; two queued deletions of a range, or one of each kind (at once, delayed), exercise the four cases
of `add`. One clear abandons what was queued and leaves queries and a migration behind. Larger instances were run once,
with the same result: two ranges, one query and four versions (2.9 million states), two ranges, two queries and three
versions (4.9 million) or four (12.2 million), and one range with two clears and four versions (2.2 million).

### Proofs

All six invariants of the run are theorems, for any ranges and queries and any bounds, from `RangeAssumption` alone:
no schedule is assumed away.

| Theorem | States |
|---|---|
| `TypeCorrect` | `Spec => []TypeOK` |
| `NothingIsStranded` | `Spec => []NothingStranded` |
| `CloneIsIntoEmpty` | `Spec => []ClonesIntoEmpty` |
| `OwnedIsComplete` | `Spec => []OwnedComplete` |
| `InUseIsComplete` | `Spec => []InUseComplete` |
| `AssertionsHold` | `Spec => []Asserted` |

None but the type invariant is near to being inductive. There are four inductive invariants, each checked by TLC before
it was proved.

1. `BasicInv`: types, and the trackers in the order of their versions; one migration at a time
   (`OneMigration`); the deletion under way is the first of the queue unless it was abandoned (`DeleterInv`);
   without metadata there is nothing to delete (`EmptyInv`); there is a task for what is queued (`WillRun`); for a
   thread that waits there is exactly one deletion that has it as a waiter, and for one that does not
   there is none (`WaitInv`). Exactly one, because a second would leave the thread to be notified twice.
2. `SafeInv`. Its core is `Gone(r, i)`: `r` is exposed, or neither the newest map known here nor what has arrived
   gives `r` to the shard, and no map after the `i`-th that is in use has it. `DeletionsInv`: deletions in the queue are for
   ranges `Gone` after no map, those of the `i`-th tracker for ranges `Gone` after it, and none is for the
   range that is being cloned unless that is exposed. `DocsInv`: only such ranges lack their document. `ReceiveInv`: what is
   being received is among `_receivingChunks`, and is `Gone`. `VersionInv`: the versions not installed yet give the
   shard only what has arrived or what it has already, and an active map that is older than one known before differs from it
   in exposed ranges only. That `Gone` lasts is shown once, for every step that only lets trackers go or adds the newest map
   (`Shifted`).
3. `HeldInv`: the tracker that a query of the present metadata refers to does not retire, and ids from before the last clear
   are told apart by their first component. With `SafeInv` it gives `InUseComplete`.
4. `CloneInv`: the receiving thread waits for a deletion of its own range, and once it goes on the range is empty up to
   `left`.

The loops of `add` and `_retireExpiredMetadata` are the recursive functions `Due` and `PushList`. What they compute is
not needed, only what every iteration keeps: `LoopInvariant` derives it from the well-foundedness of `<` on the natural
numbers, with the set of allowed states as a parameter in place of a predicate.

What stays with TLC: that waits for deletions end, which is liveness.

### Findings

1. **A clear in the middle of a migration forgets the range that is being received** (`doc_cleanup_orphaned`). A range
   is received and its old documents are deleted; the metadata is cleared, and refreshed again; `cleanupOrphaned` asks for
   the same range, which is no longer in `_receivingChunks`, so it is queued; the migration clones, commits, and the queued
   deletion removes what has just arrived. `cleanup_orphaned_cmd.cpp:153` says "Safe to call with the balancer on." A
   clear comes from a step down (`sharding_state.cpp:225`), from a refresh that finds no chunk map (line 523) and from a
   donor's failed refresh (`migration_source_manager.cpp:542`).
2. A migration that fails before cloning begins leaves its range in `_receivingChunks`
   (`migration_destination_manager.cpp:1126`: `_forgetPending` is called only if `_chunkMarkedPending` is set), where it refuses
   every cleanup until the range is received again or the metadata is cleared. Nothing is lost by it.
3. The other schedules of *What the properties except*: an old map after a clear, two assertions that a clear can make
   fail, queries that a clear forgets, and a failed cursor taken for success.

## 10. What is not modelled

`PROJECT.json` lists every part with its reason. In short:

* parts of the plan that are not written yet: recovery from the markers of a batch, reconfiguration, transport;
  the hazard of a reconfiguration during a step down (`topology_coordinator_impl.cpp:2301`) is in the list with a note;
* parts of modelled components: the flush lock of MMAPv1 and deferred unlocks (locker), write concerns other than
  `majority` (commit point), the cloner and the critical section (migrations), heartbeat scheduling and the choice of
  sync sources, which are nondeterministic in the models;
* parts whose behaviour is in their data, such as query execution, aggregation, indexes, text search and BSON, which
  small instances do not cover; these, the shell, the client library and the tests are most of the repository's lines;
* code that is not the repository's own (WiredTiger, other third-party libraries, generated code, the Go
  tools and drivers).
