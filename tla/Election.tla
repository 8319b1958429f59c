------------------------------ MODULE Election ------------------------------
(***************************************************************************)
(* Elections of a replica set under protocol version 1: the candidate       *)
(* (replication_coordinator_impl_elect_v1.cpp, vote_requester.cpp), the     *)
(* voter (processReplSetRequestVotes), the term (updateTerm), stepping down *)
(* for a higher term, and the last vote on disk with crashes and restarts.  *)
(*                                                                         *)
(* A step is a critical section of ReplicationCoordinatorImpl::_mutex, or a *)
(* write of the last vote document.  A replSetRequestVotes call is a record *)
(* of rpcs; its field "at" says where it has got to:                        *)
(*   request -- on its way to the voter, or being served by it: a call of   *)
(*              updateTerm that finds nothing to do leaves it here          *)
(*   waiting -- updateTerm made the voter step down; the call waits for it  *)
(*   voting  -- updateTerm has returned, the voter is still in a lower term *)
(*   storing -- the vote is granted, and is being stored                    *)
(* An answer is processed when it is given: one that comes late is one that *)
(* RequestFails was faster than, and until it is processed it changes       *)
(* nothing.                                                                 *)
(*                                                                         *)
(* The configuration is fixed.  One oplog entry is written per term, the    *)
(* "new primary" entry, so an optime is the term of the entry.              *)
(***************************************************************************)
EXTENDS Integers, FiniteSets

CONSTANTS
    Nodes,         \* the members of the configuration; all of them vote
    Arbiters,      \* the members that hold no data
    None,          \* no member
    MaxTerm,       \* bound: no election is started in a term as high as this
    MaxElections,  \* bound on the number of elections started
    Crashing,      \* bound: the members that crash
    MaxRestarts    \* bound on the number of crashes

ASSUME NodesAssumption ==
    /\ IsFiniteSet(Nodes)
    /\ Arbiters \subseteq Nodes /\ Crashing \subseteq Nodes
    /\ None \notin Nodes

ASSUME BoundsAssumption ==
    {MaxTerm, MaxElections, MaxRestarts} \subseteq Nat

VARIABLES
    term, role, steppingDown,  \* TopologyCoordinatorImpl: _term, _role, and
                               \* whether _leaderMode is kSteppingDown
    lastVote,                  \* TopologyCoordinatorImpl: _lastVote
    diskVote,                  \* the document of local.replset.election
    lastApplied,               \* the optime of the newest entry of the oplog
    loaded,                    \* has _finishLoadLocalConfig restored the term?
    restore,                   \* the term that it is about to restore, or 0
    elect,                     \* the election of a candidate, with its VoteRequester
    rpcs,                      \* the replSetRequestVotes calls
    highest,                   \* the highest term that a node has entered
    elections, restarts,       \* counters for the bounds
    cast,                      \* history: the votes that have been answered for
    early,                     \* history: the votes given out of turn, see GrantVote
    won                        \* history: the elections won

topoVars == <<term, role, steppingDown, lastVote>>
diskVars == <<diskVote, lastApplied>>
boundVars == <<elections, restarts>>
historyVars == <<cast, early, won>>
startVars == <<loaded, restore>>
vars == <<topoVars, diskVars, startVars, elect, rpcs, highest, boundVars,
          historyVars>>

Terms == 0 .. MaxTerm

Votes == [term : Terms, cand : Nodes \cup {None}]

Phases == {"idle", "dryRun", "writing", "voting", "winning"}

\* votes: the members counted in _votes; done: those whose response has been
\* processed; primary: _primaryHost, when its vote is required.
Elections == [phase : Phases, term : Terms, id : 0 .. MaxElections,
              votes : SUBSET Nodes, done : SUBSET Nodes, stale : BOOLEAN,
              primary : Nodes \cup {None},
              primaryVote : {"Pending", "Yes", "No"}]

\* term: the one the election id is made from; elected: that of the votes.
Wins == [node : Nodes, term : Terms, elected : Terms]

Rpcs == [cand : Nodes, id : 1 .. MaxElections, to : Nodes, dryRun : BOOLEAN,
         term : Terms, opTime : Terms,
         at : {"request", "waiting", "voting", "storing"}]

\* Every variable has the type of the member it stands for.
TypeOK ==
    /\ term \in [Nodes -> Terms]
    /\ role \in [Nodes -> {"follower", "candidate", "leader"}]
    /\ steppingDown \in [Nodes -> BOOLEAN]
    /\ lastVote \in [Nodes -> Votes]
    /\ diskVote \in [Nodes -> Votes]
    /\ lastApplied \in [Nodes -> Terms]
    /\ loaded \in [Nodes -> BOOLEAN]
    /\ restore \in [Nodes -> Terms]
    /\ elect \in [Nodes -> Elections]
    /\ rpcs \subseteq Rpcs
    /\ highest \in Terms
    /\ elections \in 0 .. MaxElections
    /\ restarts \in 0 .. MaxRestarts
    /\ cast \subseteq [voter : Nodes, term : Terms, cand : Nodes]
    /\ early \subseteq Nodes \X Terms
    /\ won \subseteq Wins

NoVote == [term |-> 0, cand |-> None]

NoElection == [phase |-> "idle", term |-> 0, id |-> 0, votes |-> {},
               done |-> {}, stale |-> FALSE, primary |-> None,
               primaryVote |-> "Pending"]

\* A replica set that has been initiated and has not elected anyone yet.
Init ==
    /\ term = [n \in Nodes |-> 0]
    /\ role = [n \in Nodes |-> "follower"]
    /\ steppingDown = [n \in Nodes |-> FALSE]
    /\ lastVote = [n \in Nodes |-> NoVote]
    /\ diskVote = [n \in Nodes |-> NoVote]
    /\ lastApplied = [n \in Nodes |-> 0]
    /\ loaded = [n \in Nodes |-> TRUE]
    /\ restore = [n \in Nodes |-> 0]
    /\ elect = [n \in Nodes |-> NoElection]
    /\ rpcs = {}
    /\ highest = 0
    /\ elections = 0 /\ restarts = 0
    /\ cast = {} /\ early = {} /\ won = {}

-----------------------------------------------------------------------------
(* The VoteRequester *)

\* A strict majority of the voting members (all of them vote).
Majority == Cardinality(Nodes) \div 2 + 1

\* A candidate starts a VoteRequester: its own vote is counted.
Requester(n, phase, id, t, primary) ==
    [phase |-> phase, term |-> t, id |-> id, votes |-> {n}, done |-> {},
     stale |-> FALSE, primary |-> primary, primaryVote |-> "Pending"]

\* A mutant: votes are requested for the term after the new one.
Requests_NextTerm(n, id, dryRun, t) ==
    {[cand |-> n, id |-> id, to |-> to, dryRun |-> dryRun,
      term |-> IF dryRun THEN t ELSE t + 1,
      opTime |-> lastApplied[n], at |-> "request"] : to \in Nodes \ {n}}
Requests(n, id, dryRun, t) ==
    {[cand |-> n, id |-> id, to |-> to, dryRun |-> dryRun, term |-> t,
      opTime |-> lastApplied[n], at |-> "request"] : to \in Nodes \ {n}}

HasReceivedSufficientResponses(n) ==
    LET e == elect[n] IN
    IF e.primary # None /\ e.primaryVote # "Yes"
    THEN e.primaryVote = "No"
    ELSE e.stale \/ Cardinality(e.votes) >= Majority \/ e.done = Nodes \ {n}

\* getResult
SuccessfullyElected(n) ==
    LET e == elect[n] IN
    /\ ~e.stale
    /\ e.primary # None => e.primaryVote = "Yes"
    /\ Cardinality(e.votes) >= Majority

\* The VoteRequester of n has not processed the response of to.
Listening(n, to) ==
    /\ elect[n].phase \in {"dryRun", "voting"}
    /\ to \in Nodes \ ({n} \cup elect[n].done)
    /\ ~HasReceivedSufficientResponses(n)

\* The callback for the response to r has not been cancelled.
Awaited(r) ==
    /\ Listening(r.cand, r.to)
    /\ elect[r.cand].id = r.id
    /\ elect[r.cand].phase = IF r.dryRun THEN "dryRun" ELSE "voting"

\* What processResponse makes of the answer to r.  A mutant: every answer is
\* a vote.
WithResponse_CountsAll(e, r, granted, answer) ==
    [e EXCEPT !.done = @ \cup {r.to}, !.votes = @ \cup {r.to},
              !.stale = @ \/ answer > e.term]
WithResponse(e, r, granted, answer) ==
    [e EXCEPT !.done = @ \cup {r.to},
              !.votes = IF granted THEN @ \cup {r.to} ELSE @,
              !.stale = @ \/ answer > e.term,
              !.primaryVote = CASE r.to # e.primary -> @
                                [] granted -> "Yes"
                                [] OTHER -> "No"]

\* The voter answers r; the answer is lost on a candidate that stopped waiting.
Answer(r, granted, answer) ==
    /\ rpcs' = rpcs \ {r}
    /\ elect' = IF Awaited(r)
                THEN [elect EXCEPT ![r.cand] =
                         WithResponse(@, r, granted, answer)]
                ELSE elect

\* A call of n fails or times out, or the voter fails to store its vote.  The
\* voter may still be working on it.
RequestFails(n, to) ==
    /\ Listening(n, to)
    /\ elect' = [elect EXCEPT ![n].done = @ \cup {to}]
    /\ UNCHANGED <<topoVars, diskVars, startVars, rpcs, highest, boundVars,
                   historyVars>>

-----------------------------------------------------------------------------
(* The candidate *)

\* The calls that may still have an effect when n abandons its VoteRequester:
\* all that a dry run brings to the voter is a term (see LearnTerm).
Abandon(n) == {r \in rpcs : r.cand = n => ~r.dryRun}

\* LoseElectionGuardV1.  A mutant: a way out without processLoseElection.
LoseElection_KeepsRole(n) ==
    /\ elect' = [elect EXCEPT ![n] = NoElection]
    /\ rpcs' = Abandon(n)
    /\ UNCHANGED role
LoseElection(n) ==
    /\ role' = [role EXCEPT ![n] = "follower"]
    /\ elect' = [elect EXCEPT ![n] = NoElection]
    /\ rpcs' = Abandon(n)

\* The members that may be _currentPrimaryIndex for n.
KnownPrimaries(n) == {w.node : w \in won} \ {n}

\* _startElectSelfIfEligibleV1, for an election timeout, a priority takeover
\* or a step-up request (primary = None) or for a catch-up takeover, which
\* requires the vote of the primary in the dry run.
StartElection(n, primary) ==
    LET id == elections + 1 IN
    /\ id <= MaxElections /\ term[n] < MaxTerm
    /\ loaded[n] /\ n \notin Arbiters
    /\ role[n] = "follower"
    /\ role' = [role EXCEPT ![n] = "candidate"]
    /\ elections' = id
    /\ elect' = [elect EXCEPT ![n] =
                    Requester(n, "dryRun", id, term[n], primary)]
    /\ rpcs' = rpcs \cup Requests(n, id, TRUE, term[n])
    /\ UNCHANGED <<term, steppingDown, lastVote, diskVars, startVars, highest,
                   restarts, historyVars>>

HigherOf(t, u) == IF t > u THEN t ELSE u

\* The dry run has succeeded: n enters the next term and votes for itself.
RunForElection(n) ==
    /\ elect[n].term = term[n] /\ SuccessfullyElected(n)
    /\ term' = [term EXCEPT ![n] = @ + 1]
    /\ highest' = HigherOf(highest, term'[n])
    /\ lastVote' = [lastVote EXCEPT ![n] = [term |-> term'[n], cand |-> n]]
    /\ elect' = [elect EXCEPT ![n] =
                    Requester(n, "writing", @.id, term'[n], None)]
    /\ rpcs' = Abandon(n)
    /\ UNCHANGED <<role, steppingDown>>

OnDryRunComplete(n) ==
    /\ elect[n].phase = "dryRun" /\ HasReceivedSufficientResponses(n)
    /\ \/ RunForElection(n)
       \/ /\ elect[n].term # term[n] \/ ~SuccessfullyElected(n)
          /\ LoseElection(n)
          /\ UNCHANGED <<term, highest, steppingDown, lastVote>>
    /\ UNCHANGED <<diskVars, startVars, boundVars, historyVars>>

\* storeLocalLastVoteDocument only replaces the vote of a lower term.
\* A mutant: the document is only written once.
Stored_Once(n, vote) == IF diskVote[n].term = 0 THEN vote ELSE diskVote[n]
Stored(n, vote) == IF vote.term > diskVote[n].term THEN vote ELSE diskVote[n]

StartVoteRequester(n) ==
    /\ elect[n].term = term[n]
    /\ elect' = [elect EXCEPT ![n] =
                    Requester(n, "voting", @.id, term[n], None)]
    /\ rpcs' = rpcs \cup Requests(n, elect[n].id, FALSE, term[n])
    /\ cast' = cast \cup {[voter |-> n, term |-> term[n], cand |-> n]}
    /\ UNCHANGED role

\* The election is lost when the term has moved on or when the write fails,
\* which may be before or after the document was replaced.
WriteLastVoteForMyElection(n) ==
    LET stored == Stored(n, [term |-> elect[n].term, cand |-> n]) IN
    /\ elect[n].phase = "writing"
    /\ \/ /\ diskVote' = [diskVote EXCEPT ![n] = stored]
          /\ StartVoteRequester(n)
       \/ /\ \E d \in {diskVote[n], stored} :
                diskVote' = [diskVote EXCEPT ![n] = d]
          /\ LoseElection(n) /\ UNCHANGED cast
    /\ UNCHANGED <<term, steppingDown, lastVote, lastApplied, startVars, highest,
                   boundVars, early, won>>

\* A winner releases the mutex before it takes it again to become leader.
OnVoteRequestComplete(n) ==
    /\ elect[n].phase = "voting" /\ HasReceivedSufficientResponses(n)
    /\ \/ /\ elect[n].term = term[n] /\ SuccessfullyElected(n)
          /\ elect' = [elect EXCEPT ![n].phase = "winning"]
          /\ UNCHANGED <<role, rpcs>>
       \/ /\ elect[n].term # term[n] \/ ~SuccessfullyElected(n)
          /\ LoseElection(n)
    /\ UNCHANGED <<term, steppingDown, lastVote, diskVars, startVars, highest,
                   boundVars, historyVars>>

\* kActionWinElection: the election id is made from the current term.
WinElection(n) ==
    /\ elect[n].phase = "winning"
    /\ role' = [role EXCEPT ![n] = "leader"]
    /\ elect' = [elect EXCEPT ![n] = NoElection]
    /\ won' = won \cup {[node |-> n, term |-> term[n],
                         elected |-> elect[n].term]}
    /\ UNCHANGED <<term, steppingDown, lastVote, diskVars, startVars, rpcs,
                   highest, boundVars, cast, early>>

-----------------------------------------------------------------------------
(* The term *)

\* updateTerm with a higher term: a leader steps down and keeps its term.
UpdateTerm(n, t) ==
    /\ t > term[n]
    /\ IF role[n] = "leader"
       THEN steppingDown' = [steppingDown EXCEPT ![n] = TRUE] /\ UNCHANGED term
       ELSE term' = [term EXCEPT ![n] = t] /\ UNCHANGED steppingDown

\* A heartbeat, the metadata of a command, or a request for a dry run that was
\* given up brings a term to n, however late.
LearnTerm(n) ==
    /\ ~steppingDown[n]
    /\ \E t \in 1 .. highest : UpdateTerm(n, t)
    /\ UNCHANGED <<role, lastVote, diskVars, startVars, elect, rpcs, highest,
                   boundVars, historyVars>>

\* The heartbeats of a leader tell it to step down (it sees no majority).
StepDownSelf(n) ==
    /\ role[n] = "leader" /\ ~steppingDown[n]
    /\ steppingDown' = [steppingDown EXCEPT ![n] = TRUE]
    /\ UNCHANGED <<term, role, lastVote, diskVars, startVars, elect, rpcs,
                   highest, boundVars, historyVars>>

\* _stepDownFinish: the calls that waited for the step down go on.
StepDownFinish(n) ==
    /\ steppingDown[n]
    /\ role' = [role EXCEPT ![n] = "follower"]
    /\ steppingDown' = [steppingDown EXCEPT ![n] = FALSE]
    /\ rpcs' = {[r EXCEPT !.at = IF r.to = n /\ @ = "waiting" THEN "voting"
                                                              ELSE @] :
                   r \in rpcs}
    /\ UNCHANGED <<term, lastVote, diskVars, startVars, elect, highest,
                   boundVars, historyVars>>

\* attemptStepDown succeeds: the replSetStepDown command.
AttemptStepDown(n) ==
    /\ role[n] = "leader" /\ ~steppingDown[n]
    /\ role' = [role EXCEPT ![n] = "follower"]
    /\ UNCHANGED <<term, steppingDown, lastVote, diskVars, startVars, elect, rpcs,
                   highest, boundVars, historyVars>>

-----------------------------------------------------------------------------
(* The voter: processReplSetRequestVotes *)

\* updateTerm: the call that makes a leader step down waits for it; one that
\* finds it stepping down does not.
UpdateTermForRequest(r) ==
    /\ r.at = "request"
    /\ UpdateTerm(r.to, r.term)
    /\ rpcs' = IF role[r.to] = "leader"
               THEN (rpcs \ {r}) \cup
                    {[r EXCEPT !.at = IF steppingDown[r.to] THEN "voting"
                                                            ELSE "waiting"]}
               ELSE rpcs
    /\ UNCHANGED <<role, lastVote, diskVars, startVars, elect, highest,
                   boundVars, historyVars>>

\* updateTerm has been called for r and has returned.
TermUpdated(r) ==
    \/ r.at = "request" /\ r.term <= term[r.to]
    \/ r.at = "voting"

\* TopologyCoordinatorImpl::processReplSetRequestVotes, but for its last test:
\* an arbiter may see a healthy primary that it prefers.
\* A mutant: the last vote is not looked at.
MayGrantVote_Again(r) == r.term >= term[r.to] /\ r.opTime >= lastApplied[r.to]
MayGrantVote(r) ==
    /\ r.term >= term[r.to]
    /\ r.opTime >= lastApplied[r.to]
    /\ r.dryRun \/ lastVote[r.to].term # r.term

GrantDryRunVote(r) ==
    /\ r.dryRun /\ TermUpdated(r) /\ MayGrantVote(r)
    /\ Answer(r, TRUE, term[r.to])
    /\ UNCHANGED <<topoVars, diskVars, startVars, highest, boundVars, historyVars>>

\* The vote is out of turn when the voter has not entered its term, as
\* updateTerm made it step down instead; or when, between the two critical
\* sections of _finishLoadLocalConfig, it replaces that of a higher term.
OutOfTurn(r) ==
    {t \in {r.term} : t > term[r.to]} \cup
    {t \in {lastVote[r.to].term} : ~loaded[r.to] /\ t > r.term}

GrantVote(r) ==
    /\ ~r.dryRun /\ TermUpdated(r) /\ MayGrantVote(r)
    /\ early' = early \cup ({r.to} \X OutOfTurn(r))
    /\ lastVote' = [lastVote EXCEPT ![r.to] =
                       [term |-> r.term, cand |-> r.cand]]
    /\ rpcs' = (rpcs \ {r}) \cup {[r EXCEPT !.at = "storing"]}
    /\ UNCHANGED <<term, role, steppingDown, diskVars, startVars, elect,
                   highest, boundVars, cast, won>>

RefuseVote(r) ==
    /\ TermUpdated(r)
    /\ ~MayGrantVote(r) \/ r.to \in Arbiters
    /\ Answer(r, FALSE, term[r.to])
    /\ UNCHANGED <<topoVars, diskVars, startVars, highest, boundVars, historyVars>>

\* The vote is answered once it is durable.  The term in the answer is not
\* higher than that of the request.
StoreVote(r) ==
    /\ r.at = "storing"
    /\ diskVote' = [diskVote EXCEPT ![r.to] =
                       Stored(r.to, [term |-> r.term, cand |-> r.cand])]
    /\ Answer(r, TRUE, r.term)
    /\ cast' = cast \cup {[voter |-> r.to, term |-> r.term, cand |-> r.cand]}
    /\ UNCHANGED <<topoVars, lastApplied, startVars, highest, boundVars, early,
                   won>>

-----------------------------------------------------------------------------
(* The oplog, crashes and restarts *)

\* onTransitionToPrimary logs the "new primary" entry.
LogNewPrimary(n) ==
    /\ role[n] = "leader" /\ ~steppingDown[n] /\ lastApplied[n] # term[n]
    /\ lastApplied' = [lastApplied EXCEPT ![n] = term[n]]
    /\ UNCHANGED <<topoVars, diskVote, startVars, elect, rpcs, highest,
                   boundVars, historyVars>>

\* Replication brings the newest entry of m to n.
ApplyOplog(n, m) ==
    /\ loaded[n] /\ role[n] # "leader" /\ n \notin Arbiters
    /\ lastApplied[m] > lastApplied[n]
    /\ lastApplied' = [lastApplied EXCEPT ![n] = lastApplied[m]]
    /\ UNCHANGED <<topoVars, diskVote, startVars, elect, rpcs, highest,
                   boundVars, historyVars>>

\* The server of n ends and starts again, up to the first critical section of
\* _finishLoadLocalConfig: the vote is read back, the term is the initial one.
\* The term to restore is the higher of the newest entry's and of the vote's.
StartAgain(n) ==
    /\ term' = [term EXCEPT ![n] = 0]
    /\ role' = [role EXCEPT ![n] = "follower"]
    /\ steppingDown' = [steppingDown EXCEPT ![n] = FALSE]
    /\ lastVote' = [lastVote EXCEPT ![n] = diskVote[n]]
    /\ loaded' = [loaded EXCEPT ![n] = FALSE]
    /\ restore' = [restore EXCEPT ![n] =
                      HigherOf(lastApplied[n], diskVote[n].term)]
    /\ elect' = [elect EXCEPT ![n] = NoElection]
    /\ rpcs' = {r \in Abandon(n) : r.to = n => r.at = "request"}
    /\ UNCHANGED <<diskVars, highest, elections, historyVars>>

\* A crash.
Restart(n) ==
    /\ n \in Crashing /\ restarts < MaxRestarts
    /\ restarts' = restarts + 1
    /\ StartAgain(n)

\* ScatterGatherRunner's invariant(!_callbacks.empty()) fails: the last call
\* has ended and the vote of the primary, whose call failed, is still pending.
RunnerAborts(n) ==
    /\ elect[n].phase \in {"dryRun", "voting"}
    /\ elect[n].done = Nodes \ {n} /\ ~HasReceivedSufficientResponses(n)
    /\ StartAgain(n)
    /\ UNCHANGED restarts

\* The second critical section: updateTerm with the term that was read.
FinishLoadLocalConfig(n) ==
    /\ ~loaded[n]
    /\ loaded' = [loaded EXCEPT ![n] = TRUE]
    /\ term' = [term EXCEPT ![n] = HigherOf(@, restore[n])]
    /\ restore' = [restore EXCEPT ![n] = 0]
    /\ UNCHANGED <<role, steppingDown, lastVote, diskVars, elect, rpcs, highest,
                   boundVars, historyVars>>

-----------------------------------------------------------------------------
\* The callbacks of an election, each due in one phase of it.
Callback(n) ==
    \/ OnDryRunComplete(n)
    \/ WriteLastVoteForMyElection(n)
    \/ OnVoteRequestComplete(n)
    \/ WinElection(n)
    \/ RunnerAborts(n)

Candidate(n) ==
    \/ \E primary \in KnownPrimaries(n) \cup {None} : StartElection(n, primary)
    \/ \E to \in Nodes : RequestFails(n, to)
    \/ Callback(n)

Leader(n) ==
    \/ StepDownSelf(n)
    \/ StepDownFinish(n)
    \/ AttemptStepDown(n)
    \/ LogNewPrimary(n)

Server(n) ==
    \/ LearnTerm(n)
    \/ \E m \in Nodes : ApplyOplog(n, m)
    \/ Restart(n)
    \/ FinishLoadLocalConfig(n)

Call(r) ==
    \/ UpdateTermForRequest(r)
    \/ GrantDryRunVote(r)
    \/ GrantVote(r)
    \/ RefuseVote(r)
    \/ StoreVote(r)

Next ==
    \/ \E n \in Nodes : Candidate(n) \/ Leader(n) \/ Server(n)
    \/ \E r \in rpcs : Call(r)

Spec == Init /\ [][Next]_vars

\* The election of a candidate goes on: its callbacks run, and when it still
\* waits for answers its calls time out.  Nothing is asked of other members.
Fairness ==
    \A n \in Nodes \ Arbiters :
        WF_vars(Callback(n) \/ \E to \in Nodes : RequestFails(n, to))

FairSpec == Spec /\ Fairness

-----------------------------------------------------------------------------
(* Properties *)

\* n has given a vote out of turn in the term t, or in one after it.
Early(n, t) == \E u \in Terms : u >= t /\ <<n, u>> \in early

\* No member answers for votes for two candidates in one term, unless it gave
\* a vote out of turn in that term or a later one.
VotedOncePerTerm ==
    \A v, w \in cast :
        v.voter = w.voter /\ v.term = w.term => v = w \/ Early(v.voter, v.term)

\* A vote that has been answered for is on disk or overtaken there, and once
\* the server is up again neither its term nor its last vote is older, with
\* the same exception for these two.
VotesRemembered ==
    \A v \in cast :
        /\ diskVote[v.voter].term >= v.term
        /\ \/ /\ lastVote[v.voter].term >= v.term
              /\ loaded[v.voter] => term[v.voter] >= v.term
           \/ Early(v.voter, v.term)

\* "already voted for another candidate this term": a vote stands, whatever
\* crashes between granting it, storing the document and answering; and a
\* vote out of turn does not reach the terms after its own.
VotesStand == VotedOncePerTerm /\ VotesRemembered

\* The members that have answered for a vote for c in term t.
Voters(c, t) == {n \in Nodes : [voter |-> n, term |-> t, cand |-> c] \in cast}

\* Election safety: two members win the election of one term only when a
\* member voted for both, out of turn.
OneLeaderPerTerm ==
    \A v, w \in won :
        v.elected = w.elected /\ v.node # w.node =>
            \E n \in Voters(v.node, v.elected) \cap Voters(w.node, w.elected) :
                Early(n, v.elected)

\* A leader was voted for by a majority, in the term of its election id or in
\* the one that it left between its two critical sections for that term.
ElectedByMajority ==
    \A w \in won :
        /\ w.elected <= w.term
        /\ Cardinality(Voters(w.node, w.elected)) >= Majority

\* A candidate does not stay one: every election is won or lost, or ends with
\* the server.
ElectionsEnd ==
    \A n \in Nodes \ Arbiters :
        role[n] = "candidate" ~> role[n] # "candidate"
=============================================================================
