-------------------------- MODULE DeadlockDetector --------------------------
(***************************************************************************)
(* The deadlock detector (class DeadlockDetector in lock_manager.cpp) and   *)
(* the loop of LockerImpl::lockComplete that runs it, over several          *)
(* resources.                                                               *)
(*                                                                         *)
(* A call of the lock manager is one step here: it runs under the mutex of  *)
(* the bucket of its resource, and the partitions of the lock have been     *)
(* migrated before anyone waits (module LockManager).  Each resource has a  *)
(* bucket of its own, and the detector takes one bucket at a time, so that  *)
(* a search takes several steps.  recursiveCount is left out: a lock is     *)
(* released for good, and a conversion is not nested.                       *)
(***************************************************************************)
EXTENDS Integers, Sequences, LockModes

CONSTANTS
    Lockers,          \* the lockers, one thread each
    NoLocker,         \* no locker
    Resources,        \* the resources
    NoResource,       \* the invalid ResourceId
    RequestModes,     \* the modes in which each locker asks for each resource
    Prioritized       \* the resources among them that are the MMAPv1 flush lock

ASSUME DeadlockAssumption ==
    /\ NoLocker \notin Lockers
    /\ NoResource \notin Resources /\ Prioritized \subseteq Resources
    /\ RequestModes \in [Lockers -> [Resources -> SUBSET Modes]]

VARIABLES
    head,       \* the LockHead of each resource
    search      \* the search that is under way

vars == <<head, search>>

\* The lists of a LockHead, and the fields mode, convertMode and compatibleFirst
\* of the requests on them.  The counts are defined from these.
Heads == [granted : Seq(Lockers), queue : Seq(Lockers),
          mode : [Lockers -> AnyMode], convertMode : [Lockers -> AnyMode],
          first : SUBSET Lockers]

\* A search: its locker and the request it waits with, the nodes that are not
\* processed yet, the lockers in the graph, and the result.  The rest is history:
\* the lockers that were in a deadlock with it when the search began, and whether
\* one of them, or one that the search has met, has gone its own way since (Notes).
NoSearch == [locker |-> NoLocker, resId |-> NoResource, converting |-> FALSE,
             nodes |-> <<>>, graph |-> {}, foundCycle |-> FALSE,
             deadlocked |-> {}, broken |-> FALSE, moved |-> FALSE]
Searches == [locker : Lockers \cup {NoLocker}, resId : Resources \cup {NoResource},
             converting : BOOLEAN, nodes : Seq(Lockers \X Resources),
             graph : SUBSET Lockers, foundCycle : BOOLEAN,
             deadlocked : SUBSET Lockers, broken : BOOLEAN, moved : BOOLEAN]

\* The lockers on the lists of a LockHead.
Granted(h) == {h.granted[i] : i \in DOMAIN h.granted}
Waiters(h) == {h.queue[i] : i \in DOMAIN h.queue}
IsWaiting(h, l) == l \in Waiters(h)

\* In a list, a comes before b.
Precedes(list, a, b) == \E i, j \in DOMAIN list : i < j /\ list[i] = a /\ list[j] = b

\* The elements of a list that are in S, in their order.
Kept(list, S) ==
    LET kept[i \in 0 .. Len(list)] ==
            IF i = 0 THEN <<>>
            ELSE IF list[i] \in S THEN Append(kept[i - 1], list[i]) ELSE kept[i - 1]
    IN  kept[Len(list)]

\* No locker is on a list twice, or on both.
OnOneList(h) ==
    /\ \A l \in Lockers : ~Precedes(h.granted, l, l) /\ ~Precedes(h.queue, l, l)
    /\ Granted(h) \cap Waiters(h) = {}

\* Every variable has the type of the members it stands for, and a locker is on
\* one list of a resource at most.
TypeOK ==
    /\ head \in [Resources -> Heads]
    /\ search \in Searches
    /\ \A r \in Resources : OnOneList(head[r])

Init ==
    /\ head = [r \in Resources |->
                  [granted |-> <<>>, queue |-> <<>>,
                   mode |-> [l \in Lockers |-> NoMode],
                   convertMode |-> [l \in Lockers |-> NoMode], first |-> {}]]
    /\ search = NoSearch

-----------------------------------------------------------------------------
(* The lock manager *)

IsConverting(h, l) == h.convertMode[l] # NoMode

ModesOf(h, S) == {h.mode[l] : l \in S} \cup {h.convertMode[l] : l \in S}

\* LockerImpl::getWaitingResource
WaitingResource(l) ==
    IF \E r \in Resources : IsWaiting(head[r], l) \/ IsConverting(head[r], l)
    THEN CHOOSE r \in Resources : IsWaiting(head[r], l) \/ IsConverting(head[r], l)
    ELSE NoResource

\* A locker that runs: it neither waits nor searches.
Runs(l) == WaitingResource(l) = NoResource /\ search.locker # l

\* The first loop of _onLockModeChanged: conversions are granted, in the order of the
\* granted list.
GrantConversion(h, l) ==
    IF IsConverting(h, l) /\ ~conflicts(h.convertMode[l], ModesOf(h, Granted(h) \ {l}))
    THEN [h EXCEPT !.mode[l] = h.convertMode[l], !.convertMode[l] = NoMode]
    ELSE h

GrantConversions(h) ==
    LET converted[i \in 0 .. Len(h.granted)] ==
            IF i = 0 THEN h ELSE GrantConversion(converted[i - 1], h.granted[i])
    IN  converted[Len(h.granted)]

\* A mutant: a request that is granted stays in the queue.
Unqueued_Stays(queue, l) == queue
\* The queue without the request of l.
Unqueued(queue, l) == Kept(queue, Lockers \ {l})

\* The second loop: requests of the conflict queue are granted, in their order.
GrantWaiting(scan, l) ==
    LET h == scan.h
    IN  IF scan.done THEN scan
        ELSE IF conflicts(h.mode[l], ModesOf(h, Granted(h)))
        THEN [scan EXCEPT !.done = (Head(h.queue) = l /\ ~scan.newly)]
        ELSE [h     |-> [h EXCEPT !.granted = Append(@, l),
                                  !.queue = Unqueued(@, l)],
              newly |-> scan.newly \/ (l \in h.first /\ h.first \cap Granted(h) = {}),
              done  |-> h.mode[l] = "X"]

GrantWaiters(h) ==
    LET scan[i \in 0 .. Len(h.queue)] ==
            IF i = 0 THEN [h |-> h, newly |-> FALSE, done |-> FALSE]
            ELSE GrantWaiting(scan[i - 1], h.queue[i])
    IN  scan[Len(h.queue)].h

\* _onLockModeChanged
OnLockModeChanged(h, checkConflictQueue) ==
    IF checkConflictQueue THEN GrantWaiters(GrantConversions(h)) ELSE GrantConversions(h)

\* The request of l is gone from its LockHead.
Without(h, l) ==
    [h EXCEPT !.granted = Kept(@, Lockers \ {l}),
              !.queue = Unqueued(@, l),
              !.mode[l] = NoMode, !.convertMode[l] = NoMode,
              !.first = @ \ {l}]

\* LockManager::unlock for a granted request, a waiting one and a conversion.
UnlockGranted(h, l) ==
    LET rest == Without(h, l)
    IN  OnLockModeChanged(rest, h.mode[l] \notin ModesOf(rest, Granted(rest)))
UnlockWaiting(h, l) == OnLockModeChanged(Without(h, l), TRUE)
UnlockConverting(h, l) == OnLockModeChanged([h EXCEPT !.convertMode[l] = NoMode], TRUE)

\* LockHead::newRequest
NewRequest(h, l, m, priority) ==
    LET new == [h EXCEPT !.mode[l] = m,
                         !.first = IF priority THEN @ \cup {l} ELSE @]
    IN  IF \/ conflicts(m, ModesOf(h, Granted(h)))
           \/ h.first \cap Granted(h) = {} /\ conflicts(m, ModesOf(h, Waiters(h)))
        THEN [new EXCEPT !.queue = IF priority THEN <<l>> \o @ ELSE Append(@, l)]
        ELSE [new EXCEPT !.granted = Append(@, l)]

\* LockManager::convert
ConvertRequest(h, l, m, priority) ==
    LET asked == [h EXCEPT !.first = IF priority THEN @ \cup {l} ELSE @]
    IN  IF conflicts(m, ModesOf(h, Granted(h) \ {l}))
        THEN [asked EXCEPT !.convertMode[l] = m]
        ELSE [asked EXCEPT !.mode[l] = m]

-----------------------------------------------------------------------------
(* The lockers *)

\* A search has met l.
Met(l) ==
    l \in search.graph \/ \E i \in DOMAIN search.nodes : search.nodes[i][1] = l

\* When h becomes g, k is granted before a request that it conflicts with and that has
\* waited before it.  (A request with compatibleFirst that is newly granted lets it.)
Overtakes(h, g, k) ==
    /\ IsWaiting(h, k) /\ ~IsWaiting(g, k)
    /\ \E o \in Waiters(h) : /\ Precedes(h.queue, o, k) /\ IsWaiting(g, o)
                             /\ conflicts(h.mode[k], {h.mode[o]})

\* What the history of a search notes when l has released or given up its lock on r: who
\* goes its own way are l, and those that overtake another one then.
Notes(l, r) ==
    LET gone == {l} \cup {k \in Lockers \ {l} : Overtakes(head[r], head'[r], k)}
    IN  search' = [search EXCEPT !.moved = @ \/ \E k \in gone : Met(k),
                                 !.broken = @ \/ gone \cap search.deadlocked # {}]

\* lockBegin asks for a resource that l has no request for.
Lock(l, r, m) ==
    /\ Runs(l) /\ l \notin Granted(head[r])
    /\ head' = [head EXCEPT ![r] =
                   NewRequest(@, l, m, r \in Prioritized /\ m \in {"S", "X"})]
    /\ UNCHANGED search

\* lockBegin asks for a mode that is stronger than the one l holds.
Convert(l, r, m) ==
    /\ Runs(l) /\ l \in Granted(head[r])
    /\ m # head[r].mode[l] /\ isModeCovered(head[r].mode[l], m)
    /\ head' = [head EXCEPT ![r] =
                   ConvertRequest(@, l, m, r \in Prioritized /\ m \in {"S", "X"})]
    /\ UNCHANGED search

Unlock(l, r) ==
    /\ Runs(l) /\ l \in Granted(head[r])
    /\ head' = [head EXCEPT ![r] = UnlockGranted(@, l)]
    /\ Notes(l, r)

\* lockComplete cleans up when a wait for r has ended without the lock: the
\* request may have been granted in the meantime.  (One that was converted keeps
\* its new mode, its recursive count is not zero yet.)
CleanUp(l, r, converting) ==
    head' = [head EXCEPT ![r] =
                IF IsWaiting(@, l) THEN UnlockWaiting(@, l)
                ELSE IF IsConverting(@, l) THEN UnlockConverting(@, l)
                ELSE IF converting THEN @ ELSE UnlockGranted(@, l)]

\* A wait ends by its timeout, or by a search of its own that has found a cycle.
GiveUp(l) ==
    LET r == WaitingResource(l)
    IN  /\ r # NoResource /\ search.locker # l
        /\ CleanUp(l, r, IsConverting(head[r], l))
        /\ Notes(l, r)

-----------------------------------------------------------------------------
(* What a deadlock is, in terms of the grants of the lock manager *)

\* What is left of a LockHead when the lockers outside S are gone.
Only(h, S) ==
    [h EXCEPT !.granted = Kept(@, S), !.queue = Kept(@, S)]

\* The lockers of S wait, and go on waiting whatever the others release, as long as none
\* overtakes another one.
Stuck(S) ==
    /\ S # {} /\ \A l \in S : WaitingResource(l) # NoResource
    /\ \A r \in Resources :
           LET h == Only(head[r], S) IN OnLockModeChanged(h, TRUE) = h

\* A deadlock: lockers that are stuck, none of which could be left out.
IsDeadlock(S) == Stuck(S) /\ \A T \in SUBSET S : Stuck(T) => T = S

\* Two conversions wait, and the one that comes first in the granted list only
\* conflicts with the mode that the other waits for.
ConversionBehind(h, S) ==
    \E k, l \in S : /\ Precedes(h.granted, k, l)
                    /\ conflicts(h.convertMode[k], {h.convertMode[l]})
                    /\ ~conflicts(h.convertMode[k], {h.mode[l]})

\* A request waits behind others of S and conflicts with none of S: it waits for its
\* turn only.
BehindOthers(h, S) ==
    \E k \in S \cap Waiters(h) :
        ~conflicts(h.mode[k],
                   ModesOf(h, {o \in S : o \in Granted(h) \/ Precedes(h.queue, o, k)}))

\* A search does not follow all the waits of S.
Overlooked(S) ==
    \E r \in Resources : ConversionBehind(head[r], S) \/ BehindOthers(head[r], S)

\* The lockers in the deadlocks of l, but those that a search may overlook.
Deadlocked(l) ==
    UNION {S \in SUBSET Lockers : l \in S /\ IsDeadlock(S) /\ ~Overlooked(S)}
IsStuck(l) == \E S \in SUBSET Lockers : l \in S /\ Stuck(S)

-----------------------------------------------------------------------------
(* The search.  Another locker may search at the same time: what it does to   *)
(* this search is to give up its request, which GiveUp allows at any time.    *)

\* The constructor: l, which has waited for DeadlockTimeout, starts a search.
CheckBegin(l) ==
    LET r == WaitingResource(l)
    IN  /\ search = NoSearch /\ r # NoResource
        /\ search' = [NoSearch EXCEPT !.locker = l, !.resId = r,
                                      !.converting = IsConverting(head[r], l),
                                      !.nodes = <<<<l, r>>>>,
                                      !.deadlocked = Deadlocked(l)]
        /\ UNCHANGED head

\* A mutant: the conflicting requests that wait before it are not followed.
Before_Nobody(h, k) == {}
\* The lockers that wait before k.
Before(h, k) == {o \in Waiters(h) : Precedes(h.queue, o, k)}

\* The lockers that the request of k waits for, as _processNextNode sees it.
Owners(h, k) ==
    IF IsWaiting(h, k)
    THEN {l \in Granted(h) : conflicts(h.mode[k], {h.mode[l], h.convertMode[l]})}
         \cup {l \in Before(h, k) : conflicts(h.mode[k], {h.mode[l]})}
    ELSE {l \in Granted(h) \ {k} :
              \/ conflicts(h.convertMode[k], {h.mode[l]})
              \/ /\ Precedes(h.granted, l, k)
                 /\ conflicts(h.convertMode[k], {h.convertMode[l]})}

\* A mutant: any locker that is met twice closes a cycle.
ClosesCycle_Any(k) == TRUE
\* A locker that is met again closes a cycle if the search began with it.
ClosesCycle(k) == k = search.locker

\* next and _processNextNode: one bucket.  A request that has been granted is
\* dropped; the owners that wait themselves are queued with the resource they
\* wait for, those before k in the conflict queue first.
ProcessNextNode ==
    LET k == Head(search.nodes)[1]
        h == head[Head(search.nodes)[2]]
        owners == {o \in Owners(h, k) : WaitingResource(o) # NoResource}
        queued == Kept(h.queue \o h.granted, owners)
    IN  /\ search.nodes # <<>>
        /\ search' =
             IF ~IsWaiting(h, k) /\ ~IsConverting(h, k)
             THEN [search EXCEPT !.nodes = Tail(@)]
             ELSE IF k \in search.graph
             THEN [search EXCEPT !.nodes = Tail(@),
                                 !.foundCycle = @ \/ ClosesCycle(k)]
             ELSE [search EXCEPT !.nodes =
                                    [i \in DOMAIN queued |->
                                        <<queued[i], WaitingResource(queued[i])>>] \o Tail(@),
                                 !.graph = @ \cup {k}]
        /\ UNCHANGED head

SearchEnded == search # NoSearch /\ search.nodes = <<>>

\* No cycle was found: the locker goes on waiting.
KeepWaiting ==
    /\ SearchEnded /\ ~search.foundCycle
    /\ search' = NoSearch
    /\ UNCHANGED head

\* LOCK_DEADLOCK: the locker gives its request up.
Deadlock ==
    /\ SearchEnded /\ search.foundCycle
    /\ CleanUp(search.locker, search.resId, search.converting)
    /\ search' = NoSearch

-----------------------------------------------------------------------------

Next ==
    \/ \E l \in Lockers :
           \/ \E r \in Resources : \E m \in RequestModes[l][r] :
                  Lock(l, r, m) \/ Convert(l, r, m)
           \/ \E r \in Resources : Unlock(l, r)
           \/ GiveUp(l) \/ CheckBegin(l)
    \/ ProcessNextNode \/ KeepWaiting \/ Deadlock

Spec == Init /\ [][Next]_vars

-----------------------------------------------------------------------------
(* Properties *)

\* A locker that is told LOCK_DEADLOCK cannot get its lock before others in a
\* deadlock give up, if nobody that was met in the search has released or given
\* up a lock meanwhile, or overtaken another: the buckets are read one after the
\* other.
FoundIsDeadlock ==
    SearchEnded /\ search.foundCycle /\ ~search.moved => IsStuck(search.locker)

\* A locker that is in a deadlock when its search begins finds it, unless one that is
\* in it gives up its wait meanwhile, or overtakes another.  (Not so for the deadlocks
\* that are Overlooked.)
DeadlockIsFound ==
    SearchEnded /\ search.deadlocked # {} /\ ~search.broken => search.foundCycle
=============================================================================
