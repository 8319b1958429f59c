---------------------------- MODULE RangeDeleter ----------------------------
(***************************************************************************)
(* How one shard removes the documents of chunks it no longer owns         *)
(* (db/s/metadata_manager.cpp, collection_range_deleter.cpp), composed     *)
(* with the migrations that need it: the shard donates a chunk             *)
(* (migration_source_manager.cpp), receives one                            *)
(* (migration_destination_manager.cpp), refreshes its chunk map            *)
(* (sharding_state.cpp), runs queries that keep an older map alive, and    *)
(* serves the command cleanupOrphaned.                                     *)
(*                                                                         *)
(* One sharded collection is modelled, in one epoch.  Its key space is cut *)
(* once and for all into Ranges, each of one document: what a deletion     *)
(* finds in a range is the document or nothing.                            *)
(***************************************************************************)
EXTENDS Naturals, FiniteSets, Sequences, SequencesExt

CONSTANTS
    Ranges,      \* the chunks of the collection
    Queries,     \* the operations that hold a ScopedCollectionMetadata
    OwnedFirst,  \* the chunks the shard owns at first
    MaxVersion,  \* a bound on the versions of the chunk map
    MaxQueued,   \* a bound on the deletions that wait when one more is asked for
    MaxClears    \* a bound on how often the metadata is cleared

ASSUME RangeAssumption ==
    /\ IsFiniteSet(Ranges) /\ OwnedFirst \subseteq Ranges /\ "donor" \notin Queries
    /\ MaxVersion \in Nat \ {0} /\ MaxQueued \in Nat /\ MaxClears \in Nat

VARIABLES
    config,     \* config[v]: what version v of the chunk map gives this shard
    known,      \* the newest version this shard ever installed
    clears,     \* how often the metadata was cleared
    metadata,   \* MetadataManager::_metadata, the oldest tracker first
    held,       \* the tracker each ScopedCollectionMetadata refers to
    receiving,  \* MetadataManager::_receivingChunks
    queue,      \* CollectionRangeDeleter and the tasks scheduled for it
    deleter,    \* the task that runs: CollectionRangeDeleter::cleanUpNextRange
    recv,       \* the migrate thread of MigrationDestinationManager
    arrived,    \* received ranges whose donor has not been heard of since
    donate,     \* the moveChunk that donates a range
    docs,       \* the ranges whose document is on this shard
    failed,     \* the function whose assertion stopped the server
    exposed,    \* history: ranges whose protection a clear or an old map took away
    left        \* history: what the deletion awaited last left behind, its cursor failed

aux == <<exposed, left>>
vars == <<config, known, clears, metadata, held, receiving, queue, deleter, recv,
          arrived, donate, docs, failed, aux>>

None == "none"
NoTracker == <<>>
Holders == Queries \cup {"donor"}
Waiters == {"recv", "donor"}
Deletion == [range : Ranges, later : BOOLEAN, waiters : SUBSET Waiters]

Owned(i) == config[metadata[i].id[2]]
Active == metadata[Len(metadata)]
NoRecv == [pc |-> "idle", range |-> None]
NoDonation == [pc |-> "idle", range |-> None, version |-> 0]
Idle == [pc |-> "idle", range |-> None, gone |-> FALSE]

Init ==
    /\ config = <<OwnedFirst>> /\ known = 1 /\ clears = 0
    /\ metadata = <<[id |-> <<0, 1>>, orphans |-> <<>>]>>
    /\ held = [h \in Holders |-> NoTracker]
    /\ receiving = {}
    /\ queue = [orphans |-> <<>>, delayed |-> <<>>, tasks |-> {}]
    /\ deleter = Idle /\ recv = NoRecv /\ arrived = {} /\ donate = NoDonation
    /\ docs = OwnedFirst /\ failed = None /\ exposed = {} /\ left = {}

-----------------------------------------------------------------------------
(***************************************************************************)
(* CollectionRangeDeleter::add: deletions are queued by when they are due, *)
(* and a task is scheduled when none can be under way.  Two tasks due at   *)
(* the same time are not told apart.                                       *)
(***************************************************************************)
\* A mutant: a task for delayed deletions is taken for one that runs now.
When_AnyTask(q, o, d) ==
    CASE q.orphans # <<>> \/ q.delayed # <<>> -> {}
      [] OTHER -> IF o # <<>> THEN {"now"} ELSE IF d # <<>> THEN {"later"} ELSE {}
When(q, o, d) ==
    CASE q.orphans # <<>> -> {}
      [] q.orphans = <<>> /\ o # <<>> -> {"now"}
      [] o = <<>> /\ q.delayed = <<>> /\ d # <<>> -> {"later"}
      [] OTHER -> {}

\* The deletions among these that are for later, or those that are not, in their order.
Due(deletions, later) ==
    LET due[i \in 0 .. Len(deletions)] ==
            IF i = 0 THEN <<>>
            ELSE IF deletions[i].later = later THEN Append(due[i - 1], deletions[i])
            ELSE due[i - 1]
    IN  due[Len(deletions)]

Add(q, deletions) ==
    LET o == q.orphans \o Due(deletions, FALSE)
        d == q.delayed \o Due(deletions, TRUE)
    IN  [orphans |-> o, delayed |-> d, tasks |-> q.tasks \cup When(q, o, d)]

Queued ==
    FoldLeft(LAMBDA n, t : n + Len(t.orphans), Len(queue.orphans) + Len(queue.delayed), metadata)

(* MetadataManager::_pushRangeToClean *)
PushRange(q, r, later, waiters) ==
    Add(q, <<[range |-> r, later |-> later, waiters |-> waiters]>>)

(* Notification::notify: whoever waits for one of the deletions goes on. *)
Waits(w, deletions) == \E x \in deletions : w \in x.waiters

\* A mutant: the migration goes on whatever became of the deletion.
Notify_AnyStatus(deletions, ok) ==
    /\ recv' = IF Waits("recv", deletions) THEN [recv EXCEPT !.pc = "clean"] ELSE recv
    /\ donate' = IF Waits("donor", deletions) THEN [donate EXCEPT !.pc = "leave"]
                 ELSE donate
Notify(deletions, ok) ==
    /\ recv' = IF ~Waits("recv", deletions) THEN recv
               ELSE IF ok THEN [recv EXCEPT !.pc = "clean"] ELSE NoRecv
    /\ donate' = IF Waits("donor", deletions) THEN [donate EXCEPT !.pc = "leave"]
                 ELSE donate

(* CollectionRangeDeleter::_pop, and the task that goes on after it *)
Pop(q) == [q EXCEPT !.orphans = Tail(@), !.tasks = @ \cup {"now"}]

-----------------------------------------------------------------------------
(***************************************************************************)
(* The chunk maps in use                                                   *)
(***************************************************************************)
InUse(t) == \E h \in Holders : held[h] = t.id

(* MetadataManager::_findNewestOverlappingMetadata: 0 if there is none *)
\* A mutant: only the active map counts.
FindNewestOverlapping_Active(r) ==
    IF metadata # <<>> /\ r \in Owned(Len(metadata)) THEN Len(metadata) ELSE 0
FindNewestOverlapping(r) ==
    LET overlap == {i \in DOMAIN metadata : /\ r \in Owned(i)
                                            /\ i = Len(metadata) \/ InUse(metadata[i])}
    IN  IF overlap = {} THEN 0 ELSE Max(overlap)

(* MetadataManager::_retireExpiredMetadata, for trackers ms and the ids in use *)
Expired(ms, inUse) ==
    CHOOSE k \in 0 .. Len(ms) :
        /\ \A i \in 1 .. k : i < Len(ms) /\ ms[i].id \notin inUse
        /\ k + 1 >= Len(ms) \/ ms[k + 1].id \in inUse

(* MetadataManager::_pushListToClean, for the first k trackers in turn *)
PushList(q, ms, k) ==
    LET pushed[i \in 0 .. k] ==
            IF i = 0 THEN q
            ELSE IF ms[i].orphans = <<>> THEN pushed[i - 1]
            ELSE Add(pushed[i - 1], ms[i].orphans)
    IN  pushed[k]

Retire(ms, h) ==
    LET k == Expired(ms, {h[x] : x \in Holders})
    IN  /\ metadata' = SubSeq(ms, k + 1, Len(ms))
        /\ queue' = PushList(queue, ms, k)

(* MetadataManager::getActiveMetadata *)
BeginQuery(q) ==
    /\ held[q] = NoTracker /\ metadata # <<>>
    /\ held' = [held EXCEPT ![q] = Active.id]
    /\ UNCHANGED <<config, known, clears, metadata, receiving, queue, deleter, recv,
                   arrived, donate, docs, aux>>

(* ScopedCollectionMetadata::_clear *)
Release(h) ==
    /\ held[h] # NoTracker
    /\ held' = [held EXCEPT ![h] = NoTracker]
    /\ Retire(metadata, held')

EndQuery(q) ==
    /\ Release(q)
    /\ UNCHANGED <<config, known, clears, receiving, deleter, recv, arrived, donate, docs,
                   aux>>


-----------------------------------------------------------------------------
(***************************************************************************)
(* Refreshes.  They take the collection lock in MODE_X, which the deleter  *)
(* holds in MODE_IX while it deletes.                                      *)
(***************************************************************************)
CollectionFree == deleter.pc # "delete"

\* A map as old as v says otherwise about these ranges than one known before: where a
\* clear has left nothing to compare v with, they are exposed.
Doubtful(v) == {r \in Ranges : \E w \in v .. known : (r \in config[w]) # (r \in config[v])}

(* The active map is replaced.  It is an older one than was known before when the       *)
(* metadata was cleared after it had been fetched.                                      *)
SetActive(v) ==
    /\ Retire(Append(metadata, [id |-> <<clears, v>>, orphans |-> <<>>]), held)
    /\ known' = IF v > known THEN v ELSE known
    /\ receiving' = receiving \ config[v]
    /\ arrived' = arrived \ (config[v] \cap Last(config))
    /\ exposed' = exposed \cup Doubtful(v)

(* MetadataManager::refreshActiveMetadata with a chunk map: an older one is   *)
(* ignored, and the ranges it gives to this shard are no longer being received *)
\* A mutant: whatever was fetched is installed.
Install_Any(v) == SetActive(v)
Install(v) ==
    IF metadata # <<>> /\ Active.id[2] >= v
    THEN UNCHANGED <<known, metadata, queue, receiving, arrived, exposed>>
    ELSE SetActive(v)

(* ShardingState::_refreshMetadata: the map was fetched from the catalog cache *)
(* before the lock was taken, so that by now it may be an old one.             *)
Refresh(v) ==
    /\ CollectionFree
    /\ metadata # <<>> => v > Active.id[2]
    /\ Install(v)
    /\ UNCHANGED <<config, clears, held, deleter, recv, donate, docs, left>>

(* MetadataManager::_clearAllCleanups: the deletions of all trackers join the *)
(* queue, and everyone who waits for one of them learns that it failed.       *)
TrackerOrphans == UNION {ToSet(metadata[i].orphans) : i \in DOMAIN metadata}
AllDeletions == TrackerOrphans \cup ToSet(queue.orphans) \cup ToSet(queue.delayed)

\* A mutant: the deletion that is under way is not notified.
Abandon_NotReady ==
    /\ queue' = [queue EXCEPT !.orphans = <<>>, !.delayed = <<>>]
    /\ UNCHANGED deleter
Abandon ==
    /\ queue' = [queue EXCEPT !.orphans = <<>>, !.delayed = <<>>]
    /\ deleter' = [deleter EXCEPT !.gone = deleter.pc = "replicate"]

(* MetadataManager::refreshActiveMetadata without one.  What has arrived, and what is   *)
(* being cloned, loses the protection of _receivingChunks.                              *)
ClearMetadata ==
    /\ clears < MaxClears /\ clears' = clears + 1
    /\ metadata # <<>>
    /\ receiving' = {} /\ metadata' = <<>>
    /\ exposed' = exposed \cup arrived
                     \cup {r \in Ranges : recv.range = r /\ recv.pc # "wait"}

(* CollectionShardingState::markNotShardedAtStepdown, or a refresh that found *)
(* no chunk map                                                              *)
Clear ==
    /\ CollectionFree
    /\ ClearMetadata /\ Abandon /\ Notify(AllDeletions, FALSE)
    /\ UNCHANGED <<config, known, held, arrived, docs, left>>

-----------------------------------------------------------------------------
(***************************************************************************)
(* MetadataManager::cleanUpRange: a range in use is deleted when its last  *)
(* user is gone, and one that is owned or being received is not deleted.   *)
(***************************************************************************)
Refused(r) == r \in Owned(Len(metadata)) \/ r \in receiving

CleanUpRange(r, later, waiters) ==
    LET i == FindNewestOverlapping(r)
        x == [range |-> r, later |-> later, waiters |-> waiters]
    IN  IF i = 0
        THEN queue' = Add(queue, <<x>>) /\ UNCHANGED metadata
        ELSE /\ metadata' = [metadata EXCEPT ![i].orphans = Append(@, x)]
             /\ UNCHANGED queue

(* The command cleanupOrphaned; its own wait for the deletion is left out. *)
CleanupOrphaned(r) ==
    /\ metadata # <<>> /\ ~Refused(r)
    /\ Queued < MaxQueued
    /\ CleanUpRange(r, FALSE, {})
    /\ UNCHANGED <<config, known, clears, held, receiving, deleter, recv, arrived, donate,
                   docs, aux>>

-----------------------------------------------------------------------------
(***************************************************************************)
(* The shard donates r.  The registry lets one migration run at a time.    *)
(***************************************************************************)
NoMigration == recv.pc = "idle" /\ donate.pc = "idle"

(* commitChunkMetadataOnConfig, as far as the reply of the config server, which *)
(* may be an error whether or not it has committed                              *)
DonateCommit(r) ==
    /\ NoMigration
    /\ metadata # <<>> /\ r \in config[known] /\ r \in Last(config)
    /\ \/ /\ Len(config) < MaxVersion /\ config' = Append(config, Last(config) \ {r})
          /\ arrived' = arrived \ {r}
       \/ UNCHANGED <<config, arrived>>
    /\ donate' = [pc |-> "refresh", range |-> r, version |-> Len(config')]
    /\ UNCHANGED <<known, clears, metadata, held, receiving, queue, deleter, recv, docs, aux>>

(* The refresh that follows fetches the map once more, *)
DonateRefresh(v) ==
    /\ donate.pc = "refresh" /\ v >= donate.version
    /\ CollectionFree
    /\ Install(v)
    /\ donate' = [donate EXCEPT !.pc = "check"]
    /\ UNCHANGED <<config, clears, held, deleter, recv, docs, left>>

(* and the metadata, read under a lock of its own, shows whether r was given away. *)
DonateCheck ==
    /\ donate.pc = "check"
    /\ IF metadata = <<>> \/ donate.range \in Owned(Len(metadata))
       THEN donate' = NoDonation /\ UNCHANGED held
       ELSE /\ donate' = [donate EXCEPT !.pc = "cleanup"]
            /\ held' = [held EXCEPT !["donor"] = Active.id]
    /\ UNCHANGED <<config, known, clears, metadata, receiving, queue, deleter, recv, arrived,
                   docs, aux>>

(* When the refresh fails the metadata is cleared and r is left where it is. *)
DonateRefreshFails ==
    /\ donate.pc = "refresh" /\ CollectionFree
    /\ ClearMetadata /\ Abandon
    /\ donate' = NoDonation
    /\ UNCHANGED <<config, known, held, recv, arrived, docs, left>>

(* It may have been cleared by then. *)
DonateLeaves ==
    /\ donate.pc = "refresh" /\ CollectionFree
    /\ metadata = <<>>
    /\ donate' = NoDonation
    /\ UNCHANGED <<config, known, clears, metadata, held, receiving, queue, deleter, recv,
                   arrived, docs, aux>>

(* The deletion is asked for with _waitForDelete, or it is for later. *)
DonateCleanUp(later) ==
    /\ donate.pc = "cleanup" /\ metadata # <<>>
    /\ IF Refused(donate.range)
       THEN UNCHANGED <<queue, metadata>> /\ donate' = [donate EXCEPT !.pc = "leave"]
       ELSE /\ CleanUpRange(donate.range, later, IF later THEN {} ELSE {"donor"})
            /\ donate' = [donate EXCEPT !.pc = IF later THEN "leave" ELSE "wait"]
    /\ UNCHANGED <<config, known, clears, held, receiving, deleter, recv, arrived, docs,
                   aux>>

(* cleanUpRange asserts that there is metadata. *)
DonateCleanUpFails ==
    /\ donate.pc = "cleanup" /\ metadata = <<>>
    /\ failed' = "cleanUpRange"

(* commitChunkMetadataOnConfig returns and drops refreshedMetadata. *)
DonateEnd ==
    /\ donate.pc = "leave"
    /\ Release("donor")
    /\ donate' = NoDonation
    /\ UNCHANGED <<config, known, clears, receiving, deleter, recv, arrived, docs, aux>>

-----------------------------------------------------------------------------
(***************************************************************************)
(* The shard receives r.                                                   *)
(***************************************************************************)

(* _notePending: MetadataManager::beginReceive *)
BeginReceive(r) ==
    /\ NoMigration /\ CollectionFree
    /\ r \notin Last(config) /\ r \notin arrived
    /\ Len(config) < MaxVersion /\ Queued < MaxQueued
    /\ metadata # <<>> /\ FindNewestOverlapping(r) = 0
    /\ receiving' = receiving \cup {r}
    /\ queue' = PushRange(queue, r, FALSE, {"recv"})
    /\ recv' = [pc |-> "wait", range |-> r]
    /\ left' = {}
    /\ UNCHANGED <<config, known, clears, metadata, held, deleter, arrived, donate, docs,
                   exposed>>

(* MetadataManager::trackOrphanedDataCleanup: where the newest deletion of r is *)
Overlap(s, r) == {i \in DOMAIN s : s[i].range = r}
\* A mutant: only the queue is looked at.
TrackersWith_None(r) == {}
TrackersWith(r) == {i \in DOMAIN metadata : Overlap(metadata[i].orphans, r) # {}}
AwaitedBy(s, r, w) == [s EXCEPT ![Max(Overlap(s, r))].waiters = @ \cup {w}]

Track(r) ==
    \/ /\ TrackersWith(r) # {}
       /\ metadata' = [metadata EXCEPT ![Max(TrackersWith(r))].orphans =
                          AwaitedBy(@, r, "recv")]
       /\ UNCHANGED queue
    \/ /\ TrackersWith(r) = {}
       /\ \/ /\ Overlap(queue.orphans, r) # {}
             /\ queue' = [queue EXCEPT !.orphans = AwaitedBy(@, r, "recv")]
          \/ /\ Overlap(queue.orphans, r) = {} /\ Overlap(queue.delayed, r) # {}
             /\ queue' = [queue EXCEPT !.delayed = AwaitedBy(@, r, "recv")]
       /\ UNCHANGED metadata

IsTracked(r) ==
    TrackersWith(r) # {} \/ Overlap(queue.orphans, r) # {} \/ Overlap(queue.delayed, r) # {}

(* CollectionShardingState::waitForClean *)
WaitForClean ==
    /\ recv.pc = "clean"
    /\ \/ metadata = <<>> /\ recv' = NoRecv /\ UNCHANGED <<metadata, queue>>
       \/ /\ metadata # <<>> /\ Track(recv.range)
          /\ recv' = [recv EXCEPT !.pc = "wait"]
       \/ /\ metadata # <<>> /\ ~IsTracked(recv.range)
          /\ recv' = [recv EXCEPT !.pc = "clone"]
          /\ UNCHANGED <<metadata, queue>>
    /\ UNCHANGED <<config, known, clears, held, receiving, deleter, arrived, donate, docs,
                   aux>>

(* Steps 3 and 4 of _migrateDriver *)
Clone ==
    /\ recv.pc = "clone"
    /\ docs' = docs \cup {recv.range}
    /\ recv' = [recv EXCEPT !.pc = "steady"]
    /\ UNCHANGED <<config, known, clears, metadata, held, receiving, queue, deleter,
                   arrived, donate, aux>>

(* DONE: what becomes of r is up to its donor now. *)
Finish ==
    /\ recv.pc = "steady"
    /\ recv' = NoRecv /\ arrived' = arrived \cup {recv.range}
    /\ UNCHANGED <<config, known, clears, metadata, held, receiving, queue, deleter, donate,
                   docs, aux>>

(* An error, an abort or a timeout once cloning has begun *)
RecvFail ==
    /\ recv.pc \in {"clone", "steady"}
    /\ recv' = [recv EXCEPT !.pc = "forget"]
    /\ UNCHANGED <<config, known, clears, metadata, held, receiving, queue, deleter,
                   arrived, donate, docs, aux>>

(* _forgetPending: MetadataManager::forgetReceive, and what it asserts *)
MayForget(r) == FindNewestOverlapping(r) = 0 /\ r \in receiving

Forget ==
    /\ recv.pc = "forget" /\ CollectionFree
    /\ recv' = NoRecv
    /\ IF metadata = <<>> THEN UNCHANGED <<receiving, queue>>
       ELSE /\ MayForget(recv.range)
            /\ receiving' = receiving \ {recv.range}
            /\ queue' = PushRange(queue, recv.range, FALSE, {})
    /\ UNCHANGED <<config, known, clears, metadata, held, deleter, arrived, donate, docs,
                   aux>>

ForgetFails ==
    /\ recv.pc = "forget" /\ CollectionFree
    /\ metadata # <<>> /\ ~MayForget(recv.range)
    /\ failed' = "forgetReceive"

(* The thread that waits for a deletion is interrupted; the deletion stays. *)
Unawaited(s, w) == [i \in DOMAIN s |-> [s[i] EXCEPT !.waiters = @ \ {w}]]

Interrupt(w) ==
    /\ \/ w = "recv" /\ recv.pc = "wait" /\ recv' = NoRecv /\ UNCHANGED donate
       \/ /\ w = "donor" /\ donate.pc = "wait"
          /\ donate' = [donate EXCEPT !.pc = "leave"] /\ UNCHANGED recv
    /\ queue' = [queue EXCEPT !.orphans = Unawaited(@, w), !.delayed = Unawaited(@, w)]
    /\ metadata' = [i \in DOMAIN metadata |->
                      [metadata[i] EXCEPT !.orphans = Unawaited(@, w)]]
    /\ UNCHANGED <<config, known, clears, held, receiving, deleter, arrived, docs, aux>>

(* The other shard, and the config server *)
RemoteCommit(r) ==
    /\ r \in arrived \ Last(config) /\ Len(config) < MaxVersion
    /\ config' = Append(config, Last(config) \cup {r})
    /\ UNCHANGED <<known, clears, metadata, held, receiving, queue, deleter, recv, arrived,
                   donate, docs, aux>>

RemoteAbort(r) ==
    /\ r \in arrived \ Last(config)
    /\ arrived' = arrived \ {r}
    /\ UNCHANGED <<config, known, clears, metadata, held, receiving, queue, deleter, recv,
                   donate, docs, aux>>

-----------------------------------------------------------------------------
(***************************************************************************)
(* CollectionRangeDeleter::cleanUpNextRange, run by a task of the range    *)
(* deleter's executor, which runs one at a time.                           *)
(***************************************************************************)
Unscheduled(t) == [queue EXCEPT !.tasks = @ \ {t}]

(* A task finds no metadata, or nothing to do, or a deletion not yet due. *)
TaskEnds(t) ==
    /\ t \in queue.tasks /\ deleter.pc = "idle"
    /\ queue.orphans = <<>>
    /\ \/ (metadata = <<>> \/ queue.delayed = <<>>) /\ queue' = Unscheduled(t)
       \/ /\ metadata # <<>> /\ queue.delayed # <<>>
          /\ queue' = [Unscheduled(t) EXCEPT !.tasks = @ \cup {"later"}]
    /\ UNCHANGED <<config, known, clears, metadata, held, receiving, deleter, recv, arrived,
                   donate, docs, aux>>

Begin(t, q, d) ==
    /\ t \in queue.tasks /\ deleter.pc = "idle" /\ metadata # <<>>
    /\ queue' = [q EXCEPT !.tasks = @ \ {t}]
    /\ deleter' = [pc |-> "delete", range |-> d.range, gone |-> FALSE]
    /\ UNCHANGED <<config, known, clears, metadata, held, receiving, recv, arrived, donate,
                   docs, aux>>

TaskDeletes(t) ==
    queue.orphans # <<>> /\ Begin(t, queue, Head(queue.orphans))

(* A deletion is due: it is moved to the others and noted in the oplog, *)
TaskMoves(t) ==
    /\ queue.orphans = <<>> /\ queue.delayed # <<>>
    /\ Begin(t, [queue EXCEPT !.orphans = <<Head(queue.delayed)>>, !.delayed = Tail(@)],
             Head(queue.delayed))

(* and when that fails every deletion is given up. *)
TaskGivesUp(t) ==
    /\ t \in queue.tasks /\ deleter.pc = "idle" /\ metadata # <<>>
    /\ queue.orphans = <<>> /\ queue.delayed # <<>>
    /\ Notify(AllDeletions, FALSE)
    /\ queue' = [Unscheduled(t) EXCEPT !.delayed = <<>>]
    /\ metadata' = [i \in DOMAIN metadata |-> [metadata[i] EXCEPT !.orphans = <<>>]]
    /\ UNCHANGED <<config, known, clears, held, receiving, deleter, arrived, docs, aux>>

(* _doDeletion removed the document; *)
Delete ==
    /\ deleter.pc = "delete" /\ deleter.range \in docs
    /\ docs' = docs \ {deleter.range}
    /\ deleter' = [deleter EXCEPT !.pc = "replicate"]
    /\ UNCHANGED <<config, known, clears, metadata, held, receiving, queue, recv, arrived,
                   donate, aux>>

(* it found nothing more, or failed.  When its cursor fails it ends like one that found *)
(* nothing more.                                                                        *)
DeleteEnds(ok) ==
    /\ deleter.pc = "delete"
    /\ queue' = Pop(queue)
    /\ Notify({Head(queue.orphans)}, ok)
    /\ deleter' = Idle
    /\ docs' \in {docs} \cup (IF ok THEN {} ELSE {docs \ {deleter.range}})
    /\ left' = IF ok /\ Waits("recv", {Head(queue.orphans)}) THEN docs \cap {deleter.range}
               ELSE left
    /\ UNCHANGED <<config, known, clears, metadata, held, receiving, arrived, exposed>>

(* The deletion has reached a majority, and the task goes on, *)
Replicate ==
    /\ deleter.pc = "replicate"
    /\ queue' = [queue EXCEPT !.tasks = @ \cup {"now"}]
    /\ deleter' = Idle
    /\ UNCHANGED <<config, known, clears, metadata, held, receiving, recv, arrived, donate,
                   docs, aux>>

(* or it has not in time, and the range is given up. *)
ReplicateFails ==
    /\ deleter.pc = "replicate"
    /\ IF deleter.gone
       THEN /\ queue' = [queue EXCEPT !.tasks = @ \cup {"now"}]
            /\ UNCHANGED <<recv, donate>>
       ELSE queue' = Pop(queue) /\ Notify({Head(queue.orphans)}, FALSE)
    /\ deleter' = Idle
    /\ UNCHANGED <<config, known, clears, metadata, held, receiving, arrived, docs, aux>>

-----------------------------------------------------------------------------
Task(t) == TaskEnds(t) \/ TaskDeletes(t) \/ TaskMoves(t) \/ TaskGivesUp(t)

Step ==
    \/ \E q \in Queries : BeginQuery(q) \/ EndQuery(q)
    \/ \E v \in DOMAIN config : Refresh(v) \/ DonateRefresh(v)
    \/ Clear
    \/ \E r \in Ranges : \/ CleanupOrphaned(r) \/ DonateCommit(r) \/ BeginReceive(r)
                         \/ RemoteCommit(r) \/ RemoteAbort(r)
    \/ DonateRefreshFails \/ DonateLeaves \/ DonateCheck \/ DonateEnd
    \/ \E later \in BOOLEAN : DonateCleanUp(later)
    \/ WaitForClean \/ Clone \/ Finish \/ RecvFail \/ Forget
    \/ \E w \in Waiters : Interrupt(w)
    \/ \E t \in {"now", "later"} : Task(t)
    \/ Delete \/ Replicate \/ ReplicateFails
    \/ \E ok \in BOOLEAN : DeleteEnds(ok)

Running == failed = None

(* An assertion that fails stops the server. *)
Fails ==
    /\ ForgetFails \/ DonateCleanUpFails
    /\ UNCHANGED <<config, known, clears, metadata, held, receiving, queue, deleter, recv,
                   arrived, donate, docs, aux>>

Next ==
    \/ Running /\ Step /\ UNCHANGED failed
    \/ Running /\ Fails
    \/ ~Running /\ UNCHANGED vars

Spec == Init /\ [][Next]_vars

-----------------------------------------------------------------------------
\* Every variable has the type of what it stands for, and the trackers are in the
\* order of their versions, as refreshActiveMetadata lets only newer ones in.
TypeOK ==
    /\ config \in Seq(SUBSET Ranges) /\ Len(config) \in 1 .. MaxVersion
    /\ known \in DOMAIN config /\ clears \in 0 .. MaxClears
    /\ metadata \in Seq([id : (0 .. MaxClears) \X DOMAIN config, orphans : Seq(Deletion)])
    /\ \A i, j \in DOMAIN metadata : i < j => metadata[i].id[2] < metadata[j].id[2]
    /\ held \in [Holders -> {NoTracker} \cup ((0 .. MaxClears) \X DOMAIN config)]
    /\ receiving \in SUBSET Ranges /\ arrived \in SUBSET Ranges /\ docs \in SUBSET Ranges
    /\ exposed \in SUBSET Ranges /\ left \in SUBSET Ranges
    /\ failed \in {None, "forgetReceive", "cleanUpRange"}
    /\ queue \in [orphans : Seq(Deletion), delayed : Seq(Deletion),
                  tasks : SUBSET {"now", "later"}]
    /\ deleter \in [pc : {"idle", "delete", "replicate"}, range : Ranges \cup {None},
                    gone : BOOLEAN]
    /\ recv \in [pc : {"idle", "wait", "clean", "clone", "steady", "forget"},
                 range : Ranges \cup {None}]
    /\ donate \in [pc : {"idle", "refresh", "check", "cleanup", "wait", "leave"},
                   range : Ranges \cup {None}, version : 0 .. MaxVersion]

\* No deletion touches a range this shard owns: whatever the newest chunk map gives
\* to the shard, known to it or not yet, is there with its document.  Deletions
\* asked for when the range was left earlier must be over before it comes back
\* (waitForClean), wherever they wait, and _receivingChunks must protect a range
\* between its arrival and the refresh that shows it (cleanUpRange).  Exposed ranges
\* are excepted: the metadata was cleared between the two, or an older map was installed
\* after a clear.  A clear at any other time exposes nothing.
OwnedComplete == Last(config) \ exposed \subseteq docs

\* What the command cleanupOrphaned says of itself: "Safe to call with the balancer on."
\* (cleanup_orphaned_cmd.cpp:153), that is whatever migrations are under way.
OrphansOnly == Last(config) \subseteq docs

\* A query, or a donor, reads the documents of every range of the map it began with for
\* as long as it runs: a deletion waits until none can depend on the range (the orphans
\* of a tracker, _findNewestOverlappingMetadata and _retireExpiredMetadata), and so do
\* those that begin now.  Those that began before the metadata was cleared are forgotten
\* with it.
InUseComplete ==
    /\ \A h \in Holders : held[h] # NoTracker /\ held[h][1] = clears =>
          config[held[h][2]] \ exposed \subseteq docs
    /\ metadata # <<>> => Owned(Len(metadata)) \ exposed \subseteq docs

\* When the documents of a range are cloned none is left of an earlier time it was
\* here: beginReceive deletes them, and _migrateDriver stops if that failed.  It cannot
\* tell when the cursor of the last deletion failed.
ClonesIntoEmpty == recv.pc = "clone" => recv.range \notin docs \ left

\* No deletion is stranded: while one is queued a task runs or is scheduled, for
\* now if it is due now (the four cases of CollectionRangeDeleter::add, and what
\* cleanUpNextRange returns).
Scheduled ==
    /\ queue.orphans # <<>> => "now" \in queue.tasks \/ deleter.pc # "idle"
    /\ queue.delayed # <<>> => queue.tasks # {} \/ deleter.pc # "idle"

\* What the code asserts: the range of a failed migration is still among those being
\* received, and in no map in use (forgetReceive), unless it is exposed; the deletion
\* whose replication is waited for is the first of the queue unless it was abandoned
\* (cleanUpNextRange); there is metadata when a donor asks for the deletion of what it
\* gave away (cleanUpRange), unless it was cleared since the donor looked; and without
\* metadata nothing is received or queued (refreshActiveMetadata).
Asserted ==
    /\ recv.pc = "forget" /\ metadata # <<>> /\ recv.range \notin exposed =>
           MayForget(recv.range)
    /\ deleter.pc # "idle" /\ ~deleter.gone =>
           queue.orphans # <<>> /\ Head(queue.orphans).range = deleter.range
    /\ donate.pc = "cleanup" /\ held["donor"][1] = clears => metadata # <<>>
    /\ metadata = <<>> => receiving = {} /\ queue.orphans = <<>> /\ queue.delayed = <<>>

\* Whoever waits for a deletion waits for one that is still to come: every deletion
\* that ends, fails or is abandoned notifies, wherever it is queued.
Awaited ==
    /\ recv.pc = "wait" => Waits("recv", AllDeletions)
    /\ donate.pc = "wait" => Waits("donor", AllDeletions)

\* Nothing is stranded: deletions that are queued come to be done, and whoever
\* waits for one is told how it ended.
NothingStranded == Scheduled /\ Awaited
=============================================================================
