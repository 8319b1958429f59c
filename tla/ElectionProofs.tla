--------------------------- MODULE ElectionProofs ---------------------------
(***************************************************************************)
(* Proofs about Election, for every set of members, all bounds and every    *)
(* schedule: a member votes once in a term and two members do not win the   *)
(* election of one term, but for the votes that are given out of turn.      *)
(***************************************************************************)
EXTENDS Election, FiniteSetTheorems, TLAPS

Candidates == Nodes \cup {None}

\* v has committed itself to c in term t: it has answered for the vote, is
\* storing it, is about to store one for itself, or has it on record.
Pledged(v, t, c) ==
    \/ [voter |-> v, term |-> t, cand |-> c] \in cast
    \/ \E r \in rpcs : /\ r.at = "storing" /\ r.to = v
                       /\ r.term = t /\ r.cand = c
    \/ elect[v].phase = "writing" /\ elect[v].term = t /\ v = c
    \/ diskVote[v].term = t /\ diskVote[v].cand = c
    \/ lastVote[v].term = t /\ lastVote[v].cand = c

\* A member is pledged to one candidate in a term, and to none in a term
\* higher than that of its last vote, but for votes out of turn.
PledgeInv ==
    \A v \in Nodes, t \in Terms, c \in Candidates :
        Pledged(v, t, c) =>
            \/ Early(v, t)
            \/ /\ t <= lastVote[v].term
               /\ \A d \in Candidates : Pledged(v, t, d) => c = d

\* A member has entered the term of its last vote, or is about to restore it.
TermInv ==
    \A n \in Nodes :
        \/ lastVote[n].term <= term[n]
        \/ ~loaded[n] /\ lastVote[n].term <= restore[n]
        \/ Early(n, lastVote[n].term)

\* What has been answered for is on disk, or overtaken there.
CastInv == \A v \in cast : v.term <= diskVote[v.voter].term

\* A call belongs to at most one election: one for votes to the one that its
\* candidate counts votes in.
CallOK(r) ==
    /\ r.id <= elections
    /\ r.at = "storing" => ~r.dryRun
    /\ ~r.dryRun /\ elect[r.cand].id = r.id =>
          /\ elect[r.cand].phase \in {"voting", "winning"}
          /\ elect[r.cand].term = r.term
CallInv == \A r \in rpcs : CallOK(r)

\* Every vote that is counted has been answered for, in that term.
ElectOK(n) ==
    /\ elect[n].id <= elections
    /\ elect[n].phase # "idle" => loaded[n] /\ elect[n].id > 0
    /\ elect[n].phase = "dryRun" => elect[n].term < MaxTerm
    /\ elect[n].phase \in {"voting", "winning"} =>
          elect[n].votes \subseteq Voters(n, elect[n].term)
    /\ elect[n].phase = "winning" =>
          /\ elect[n].term <= term[n]
          /\ Cardinality(elect[n].votes) >= Majority
ElectInv == \A n \in Nodes : ElectOK(n)

WonInv == ElectedByMajority

IInv == TypeOK /\ PledgeInv /\ TermInv /\ CastInv /\ CallInv /\ ElectInv /\ WonInv

-----------------------------------------------------------------------------
(* Facts about the operators *)

\* Two majorities of the members have a member in common.
LEMMA MajoritiesMeet ==
    ASSUME NEW P, NEW Q, P \subseteq Nodes, Q \subseteq Nodes,
           Cardinality(P) >= Majority, Cardinality(Q) >= Majority
    PROVE  P \cap Q # {}
<1>1. IsFiniteSet(Nodes) /\ Cardinality(Nodes) \in Nat
  BY NodesAssumption, FS_CardinalityType
<1>2. /\ IsFiniteSet(P) /\ IsFiniteSet(Q)
      /\ Cardinality(P) \in Nat /\ Cardinality(Q) \in Nat
  BY <1>1, FS_Subset, FS_CardinalityType
<1>3. Cardinality(P \cup Q) <= Cardinality(Nodes)
  BY <1>1, FS_Subset, P \cup Q \subseteq Nodes
<1>4. Cardinality(P \cup Q) =
         Cardinality(P) + Cardinality(Q) - Cardinality(P \cap Q)
  BY <1>2, FS_Union
<1>5. Cardinality(P) + Cardinality(Q) > Cardinality(Nodes)
  BY <1>1, <1>2 DEF Majority
<1>6. ASSUME P \cap Q = {} PROVE FALSE
  <2>1. Cardinality(P \cap Q) = 0
    BY <1>6, FS_EmptySet
  <2> QED BY <2>1, <1>1, <1>2, <1>3, <1>4, <1>5
<1> QED BY <1>6

\* The fields of a VoteRequester that has just been started.
LEMMA RequesterFields ==
    ASSUME NEW n \in Nodes, NEW phase \in Phases, NEW id \in 0 .. MaxElections,
           NEW t \in Terms, NEW primary \in Nodes \cup {None}
    PROVE  /\ Requester(n, phase, id, t, primary) \in Elections
           /\ Requester(n, phase, id, t, primary).phase = phase
           /\ Requester(n, phase, id, t, primary).id = id
           /\ Requester(n, phase, id, t, primary).term = t
           /\ Requester(n, phase, id, t, primary).votes = {n}
BY BoundsAssumption DEF Requester, Elections

\* The fields of a member that is no candidate.
LEMMA NoElectionFields ==
    /\ NoElection \in Elections
    /\ NoElection.phase = "idle"
    /\ NoElection.id = 0
BY BoundsAssumption DEF NoElection, Elections, Terms, Phases

\* The calls of a VoteRequester that has just been started.
LEMMA RequestFields ==
    ASSUME TypeOK, NEW n \in Nodes, NEW id \in 1 .. MaxElections,
           NEW dryRun \in BOOLEAN, NEW t \in Terms
    PROVE  \E new \in SUBSET Rpcs :
              /\ new = Requests(n, id, dryRun, t)
              /\ \A r \in new :
                    /\ r.cand = n /\ r.id = id /\ r.dryRun = dryRun
                    /\ r.term = t /\ r.at = "request"
<1> DEFINE request(to) ==
        [cand |-> n, id |-> id, to |-> to, dryRun |-> dryRun, term |-> t,
         opTime |-> lastApplied[n], at |-> "request"]
<1>1. ASSUME NEW to \in Nodes
      PROVE  /\ request(to) \in Rpcs
             /\ request(to).cand = n /\ request(to).id = id
             /\ request(to).dryRun = dryRun /\ request(to).term = t
             /\ request(to).at = "request"
  BY DEF Rpcs, TypeOK
<1>2. Requests(n, id, dryRun, t) = {request(to) : to \in Nodes \ {n}}
  BY DEF Requests
<1> HIDE DEF request
<1> QED BY <1>1, <1>2

\* What processResponse does to the fields that the invariant is about.
LEMMA ResponseFields ==
    ASSUME NEW e \in Elections, NEW r \in Rpcs, NEW granted \in BOOLEAN,
           NEW answer \in Terms
    PROVE  /\ WithResponse(e, r, granted, answer) \in Elections
           /\ WithResponse(e, r, granted, answer).phase = e.phase
           /\ WithResponse(e, r, granted, answer).term = e.term
           /\ WithResponse(e, r, granted, answer).id = e.id
           /\ WithResponse(e, r, granted, answer).votes =
                 IF granted THEN e.votes \cup {r.to} ELSE e.votes
<1>1. (CASE r.to # e.primary -> e.primaryVote
         [] granted -> "Yes"
         [] OTHER -> "No") \in {"Pending", "Yes", "No"}
  BY DEF Elections
<1>2. (e.stale \/ answer > e.term) \in BOOLEAN
  OBVIOUS
<1> QED BY <1>1, <1>2 DEF WithResponse, Elections, Rpcs

-----------------------------------------------------------------------------
(* Steps that leave the votes alone *)

\* A vote out of turn counts for the terms before its own, and is kept.
LEMMA EarlyFacts ==
    ASSUME NEW v, NEW t \in Terms
    PROVE  /\ \A u \in Terms : u <= t /\ Early(v, t) => Early(v, u)
           /\ <<v, t>> \in early => Early(v, t)
           /\ early \subseteq early' /\ Early(v, t) => Early(v, t)'
           /\ early' = early /\ Early(v, t)' => Early(v, t)
<1>1. Terms \subseteq Int
  BY DEF Terms
<1> QED BY <1>1 DEF Early

\* No vote is granted, started, stored or forgotten.
LEMMA NoNewPledge ==
    ASSUME PledgeInv, lastVote' = lastVote, diskVote' = diskVote, cast' = cast,
           early' = early,
           \A r \in rpcs' : r.at = "storing" => r \in rpcs,
           \A v \in Nodes : elect'[v].phase = "writing" =>
               elect[v].phase = "writing" /\ elect[v].term = elect'[v].term
    PROVE  PledgeInv'
<1>1. ASSUME NEW v \in Nodes, NEW t \in Terms, NEW c \in Candidates,
             Pledged(v, t, c)'
      PROVE  Pledged(v, t, c)
  BY <1>1 DEF Pledged
<1> QED BY <1>1, EarlyFacts DEF PledgeInv

\* The votes that were answered for stay so.
LEMMA VotersGrow ==
    ASSUME cast \subseteq cast', NEW c, NEW t
    PROVE  /\ Voters(c, t) \subseteq Voters(c, t)'
           /\ \A S \in SUBSET Voters(c, t)' :
                 Cardinality(S) >= Majority =>
                     Cardinality(Voters(c, t)') >= Majority
<1>1. Voters(c, t) \subseteq Voters(c, t)'
  BY DEF Voters
<1>2. Voters(c, t)' \subseteq Nodes
  BY DEF Voters
<1>3. /\ IsFiniteSet(Nodes) /\ Cardinality(Nodes) \in Nat
      /\ IsFiniteSet(Voters(c, t)')
  BY <1>2, NodesAssumption, FS_Subset, FS_CardinalityType
<1>4. ASSUME NEW S \in SUBSET Voters(c, t)', Cardinality(S) >= Majority
      PROVE  Cardinality(Voters(c, t)') >= Majority
  <2>1. Cardinality(S) <= Cardinality(Voters(c, t)')
    BY <1>3, FS_Subset
  <2>2. Cardinality(S) \in Nat /\ Cardinality(Voters(c, t)') \in Nat
    BY <1>3, FS_Subset, FS_CardinalityType
  <2> QED BY <1>3, <1>4, <2>1, <2>2 DEF Majority
<1> QED BY <1>1, <1>4

\* A step that makes no election id keeps every leader's majority.
LEMMA NoNewLeader ==
    ASSUME ElectedByMajority, cast \subseteq cast', won' = won
    PROVE  ElectedByMajority'
<1>1. ASSUME NEW w \in won
      PROVE  /\ Cardinality(Voters(w.node, w.elected)') >= Majority
             /\ w.elected <= w.term
  BY VotersGrow DEF ElectedByMajority
<1> QED BY <1>1 DEF ElectedByMajority, Majority, Voters

\* A step that has no part in a vote: it may raise terms, end an election
\* without a leader, count the answers of a dry run, and drop or delay calls.
Quiet ==
    /\ lastVote' = lastVote /\ diskVote' = diskVote
    /\ loaded' = loaded /\ restore' = restore
    /\ cast' = cast /\ early' = early /\ won' = won /\ elections' = elections
    /\ \A n \in Nodes :
          /\ term'[n] >= term[n]
          /\ \/ elect'[n] = NoElection
             \/ /\ elect'[n].phase = elect[n].phase
                /\ elect'[n].term = elect[n].term
                /\ elect'[n].id = elect[n].id
                /\ \/ elect'[n].votes = elect[n].votes
                   \/ elect[n].phase = "dryRun"
    /\ \A r \in rpcs' :
          \/ r \in rpcs
          \/ /\ r.at # "storing"
             /\ \E q \in rpcs : /\ r.cand = q.cand /\ r.id = q.id
                               /\ r.term = q.term /\ r.dryRun = q.dryRun

\* The part of the state that most steps leave alone.
LEMMA TypesOfState ==
    ASSUME IInv
    PROVE  /\ TypeOK
           /\ \A n \in Nodes : /\ term[n] \in Nat /\ term[n] \in Terms
                               /\ elect[n] \in Elections
           /\ Terms \subseteq Nat
BY BoundsAssumption DEF IInv, TypeOK, Terms

\* A quiet step keeps the invariant.
LEMMA QuietKeeps ==
    ASSUME IInv, TypeOK', Quiet
    PROVE  IInv'
<1>1. PledgeInv'
  <2>1. \A r \in rpcs' : r.at = "storing" => r \in rpcs
    BY DEF Quiet
  <2>2. \A v \in Nodes : elect'[v].phase = "writing" =>
           elect[v].phase = "writing" /\ elect[v].term = elect'[v].term
    BY NoElectionFields DEF Quiet
  <2> QED BY <2>1, <2>2, NoNewPledge DEF IInv, Quiet
<1>2. TermInv'
  <2> SUFFICES ASSUME NEW n \in Nodes, lastVote[n].term <= term[n]
               PROVE  lastVote[n].term <= term'[n]
    BY EarlyFacts, TypesOfState DEF IInv, TermInv, Quiet, TypeOK, Votes
  <2>1. /\ lastVote[n].term \in Int /\ term[n] \in Int /\ term'[n] \in Int
        /\ term[n] <= term'[n]
    BY DEF IInv, TypeOK, Votes, Terms, Quiet
  <2> QED BY <2>1
<1>3. CastInv'
  BY DEF IInv, CastInv, Quiet
<1>4. CallInv'
  <2> SUFFICES ASSUME NEW r \in rpcs' PROVE CallOK(r)'
    BY DEF CallInv
  <2>1. r \in Rpcs
    BY DEF TypeOK
  <2>2. PICK q \in rpcs : /\ r.cand = q.cand /\ r.id = q.id
                         /\ r.term = q.term /\ r.dryRun = q.dryRun
                         /\ \/ r = q
                            \/ r.at # "storing"
    BY DEF Quiet
  <2>3. CallOK(q)
    BY DEF IInv, CallInv
  <2>4. r.cand \in Nodes /\ r.id # 0
    BY <2>1 DEF Rpcs
  <2> QED BY <2>2, <2>3, <2>4, NoElectionFields DEF CallOK, Quiet
<1>5. ElectInv'
  <2> SUFFICES ASSUME NEW n \in Nodes PROVE ElectOK(n)'
    BY DEF ElectInv
  <2>1. ElectOK(n) /\ elections \in Nat
    BY BoundsAssumption DEF IInv, ElectInv, TypeOK
  <2>2. CASE elect'[n] = NoElection
    BY <2>1, <2>2, NoElectionFields DEF ElectOK, Quiet
  <2>3. CASE elect'[n] # NoElection
    <3>1. /\ elect[n].term \in Int /\ term[n] \in Int /\ term'[n] \in Int
          /\ term[n] <= term'[n]
      BY DEF IInv, TypeOK, Elections, Terms, Quiet
    <3> QED BY <2>1, <2>3, <3>1 DEF ElectOK, Quiet, Voters
  <2> QED BY <2>2, <2>3
<1>6. WonInv'
  BY NoNewLeader DEF IInv, WonInv, Quiet
<1> QED BY <1>1, <1>2, <1>3, <1>4, <1>5, <1>6 DEF IInv

-----------------------------------------------------------------------------
(* The candidate *)

\* A dry run starts: its election id is fresh, so no call belongs to it yet.
LEMMA StartElectionKeeps ==
    ASSUME IInv, NEW n \in Nodes, NEW primary \in Nodes \cup {None},
           StartElection(n, primary)
    PROVE  IInv'
<1> DEFINE id == elections + 1
<1>0. /\ id \in 1 .. MaxElections /\ elections' = id /\ elections \in Nat
      /\ term[n] \in Terms /\ term[n] < MaxTerm
  BY BoundsAssumption DEF IInv, TypeOK, StartElection
<1>1. /\ elect'[n] = Requester(n, "dryRun", id, term[n], primary)
      /\ \A m \in Nodes \ {n} : elect'[m] = elect[m]
      /\ elect' \in [Nodes -> Elections]
      /\ elect'[n].phase = "dryRun" /\ elect'[n].id = id
      /\ elect'[n].term = term[n]
  BY <1>0, RequesterFields DEF IInv, TypeOK, StartElection, Phases
<1>2. PICK new \in SUBSET Rpcs :
         /\ rpcs' = rpcs \cup new
         /\ \A r \in new : r.id = id /\ r.dryRun /\ r.at = "request"
  <2>1. TypeOK
    BY DEF IInv
  <2>2. PICK b \in BOOLEAN : b = TRUE
    OBVIOUS
  <2>3. PICK new \in SUBSET Rpcs :
           /\ new = Requests(n, id, b, term[n])
           /\ \A r \in new : r.id = id /\ r.dryRun = b /\ r.at = "request"
    BY <1>0, <2>1, RequestFields
  <2>4. rpcs' = rpcs \cup new
    BY <2>2, <2>3 DEF StartElection
  <2> QED BY <2>2, <2>3, <2>4
<1>4. TypeOK'
  <2>1. rpcs' \subseteq Rpcs
    BY <1>2 DEF IInv, TypeOK
  <2>2. role' \in [Nodes -> {"follower", "candidate", "leader"}]
    BY DEF IInv, TypeOK, StartElection
  <2>3. elections' \in 0 .. MaxElections
    BY <1>0
  <2> QED BY <1>1, <2>1, <2>2, <2>3
      DEF IInv, TypeOK, StartElection, diskVars, historyVars, startVars
<1>5. PledgeInv'
  BY <1>1, <1>2, NoNewPledge
     DEF IInv, StartElection, diskVars, historyVars, startVars
<1>6. TermInv' /\ CastInv'
  BY DEF IInv, TermInv, CastInv, Early, StartElection, diskVars, historyVars, startVars
<1>7. CallInv'
  <2>1. ASSUME NEW r \in rpcs PROVE CallOK(r)'
    <3>1. r \in Rpcs /\ CallOK(r)
      BY DEF IInv, TypeOK, CallInv
    <3> QED BY <3>1, <1>0, <1>1 DEF CallOK, StartElection, Rpcs
  <2>2. ASSUME NEW r \in new PROVE CallOK(r)'
    BY <1>0, <1>2 DEF CallOK
  <2> QED BY <2>1, <2>2, <1>2 DEF CallInv
<1>8. ElectInv'
  <2>1. ElectOK(n)'
    BY <1>0, <1>1 DEF ElectOK, StartElection, startVars
  <2>2. ASSUME NEW m \in Nodes \ {n} PROVE ElectOK(m)'
    <3>1. ElectOK(m) /\ elect[m].id \in Nat
      BY DEF IInv, ElectInv, TypeOK, Elections
    <3> QED BY <3>1, <1>0, <1>1
        DEF ElectOK, StartElection, Voters, historyVars, startVars
  <2> QED BY <2>1, <2>2 DEF ElectInv
<1>9. WonInv'
  BY NoNewLeader DEF IInv, WonInv, StartElection, historyVars, startVars
<1> QED BY <1>4, <1>5, <1>6, <1>7, <1>8, <1>9 DEF IInv

\* An election that is lost leaves nothing behind but calls on their way.
LEMMA LoseElectionQuiet ==
    ASSUME IInv, NEW n \in Nodes, LoseElection(n)
    PROVE  /\ role' \in [Nodes -> {"follower", "candidate", "leader"}]
           /\ elect' \in [Nodes -> Elections]
           /\ rpcs' \subseteq rpcs
           /\ elect'[n] = NoElection
           /\ \A m \in Nodes \ {n} : elect'[m] = elect[m]
BY NoElectionFields DEF IInv, TypeOK, LoseElection, Abandon

\* A call that fails is not counted.
LEMMA RequestFailsKeeps ==
    ASSUME IInv, NEW n \in Nodes, NEW to \in Nodes, RequestFails(n, to)
    PROVE  IInv'
<1>1. /\ elect' \in [Nodes -> Elections]
      /\ \A m \in Nodes : /\ elect'[m].phase = elect[m].phase
                          /\ elect'[m].term = elect[m].term
                          /\ elect'[m].id = elect[m].id
                          /\ elect'[m].votes = elect[m].votes
  <2>1. PICK e : e = [elect[n] EXCEPT !.done = @ \cup {to}]
    OBVIOUS
  <2>2. elect[n] \in Elections
    BY DEF IInv, TypeOK
  <2>3. /\ e \in Elections /\ e.phase = elect[n].phase
        /\ e.term = elect[n].term /\ e.id = elect[n].id
        /\ e.votes = elect[n].votes
    BY <2>1, <2>2 DEF Elections
  <2>4. elect' = [elect EXCEPT ![n] = e]
    BY <2>1 DEF RequestFails
  <2> QED BY <2>3, <2>4 DEF IInv, TypeOK
<1>2. TypeOK'
  BY <1>1 DEF IInv, TypeOK, RequestFails, topoVars, diskVars, boundVars, startVars,
              historyVars
<1>3. Quiet
  BY <1>1, TypesOfState DEF Quiet, RequestFails, topoVars, diskVars, boundVars, startVars,
                            historyVars
<1> QED BY <1>2, <1>3, QuietKeeps

\* updateTerm raises the term of a member, or leaves it alone.
LEMMA UpdateTermFacts ==
    ASSUME IInv, NEW n \in Nodes, NEW t \in Terms, UpdateTerm(n, t)
    PROVE  /\ term' \in [Nodes -> Terms] /\ steppingDown' \in [Nodes -> BOOLEAN]
           /\ \A m \in Nodes : term'[m] >= term[m]
<1>1. t > term[n]
  BY DEF UpdateTerm
<1>2. CASE role[n] = "leader"
  <2>1. term' = term /\ steppingDown' = [steppingDown EXCEPT ![n] = TRUE]
    BY <1>2 DEF UpdateTerm
  <2>2. steppingDown' \in [Nodes -> BOOLEAN]
    BY <2>1 DEF IInv, TypeOK
  <2> QED BY <2>1, <2>2, TypesOfState DEF TypeOK
<1>3. CASE role[n] # "leader"
  <2>1. term' = [term EXCEPT ![n] = t] /\ steppingDown' = steppingDown
    BY <1>3 DEF UpdateTerm
  <2>2. steppingDown' \in [Nodes -> BOOLEAN]
    BY <2>1 DEF IInv, TypeOK
  <2>3. term' \in [Nodes -> Terms]
    BY <2>1 DEF IInv, TypeOK
  <2>4. \A m \in Nodes : /\ term'[m] = IF m = n THEN t ELSE term[m]
                        /\ term[m] \in Nat
    BY <2>1, TypesOfState DEF TypeOK
  <2> QED BY <1>1, <2>2, <2>3, <2>4, TypesOfState
<1> QED BY <1>2, <1>3

\* A term that arrives with a heartbeat or in metadata.
LEMMA LearnTermKeeps ==
    ASSUME IInv, NEW n \in Nodes, LearnTerm(n)
    PROVE  IInv'
<1>1. PICK t \in 1 .. highest : UpdateTerm(n, t)
  BY DEF LearnTerm
<1>2. t \in Terms
  BY BoundsAssumption DEF IInv, TypeOK, Terms
<1>3. /\ term' \in [Nodes -> Terms] /\ steppingDown' \in [Nodes -> BOOLEAN]
      /\ \A m \in Nodes : term'[m] >= term[m]
  BY <1>1, <1>2, UpdateTermFacts
<1>4. TypeOK'
  BY <1>3 DEF IInv, TypeOK, LearnTerm, diskVars, boundVars, startVars, historyVars
<1>5. Quiet
  BY <1>3 DEF Quiet, LearnTerm, diskVars, boundVars, startVars, historyVars
<1> QED BY <1>4, <1>5, QuietKeeps

\* Stepping down, and the "new primary" entry, leave the votes alone.
LEMMA LeaderKeeps ==
    ASSUME IInv, NEW n \in Nodes, Leader(n)
    PROVE  IInv'
<1>1. CASE StepDownSelf(n)
  <2>1. TypeOK'
    BY <1>1 DEF IInv, TypeOK, StepDownSelf, diskVars, boundVars, startVars, historyVars
  <2>2. Quiet
    BY <1>1, TypesOfState
       DEF Quiet, StepDownSelf, diskVars, boundVars, startVars, historyVars
  <2> QED BY <2>1, <2>2, QuietKeeps
<1>2. CASE StepDownFinish(n)
  <2>1. \A r \in rpcs' : \/ r \in rpcs
                        \/ /\ r.at = "voting" /\ r \in Rpcs
                           /\ \E q \in rpcs :
                                 /\ q.at = "waiting" /\ r.to = q.to
                                 /\ r.cand = q.cand /\ r.id = q.id
                                 /\ r.term = q.term /\ r.dryRun = q.dryRun
    <3> SUFFICES ASSUME NEW q \in rpcs, q.to = n, q.at = "waiting",
                        NEW r, r = [q EXCEPT !.at = "voting"]
                 PROVE  /\ r.at = "voting" /\ r \in Rpcs
                        /\ r.to = q.to /\ r.cand = q.cand /\ r.id = q.id
                        /\ r.term = q.term /\ r.dryRun = q.dryRun
      BY <1>2 DEF StepDownFinish, IInv, TypeOK, Rpcs
    <3> QED BY DEF IInv, TypeOK, Rpcs
  <2>3. TypeOK'
    <3>1. rpcs' \subseteq Rpcs
      BY <2>1 DEF IInv, TypeOK
    <3> QED BY <3>1, <1>2
        DEF IInv, TypeOK, StepDownFinish, diskVars, boundVars, startVars, historyVars
  <2>4. Quiet
    BY <1>2, <2>1, TypesOfState
       DEF Quiet, StepDownFinish, diskVars, boundVars, startVars, historyVars
  <2> QED BY <2>3, <2>4, QuietKeeps
<1>3. CASE AttemptStepDown(n)
  <2>1. TypeOK'
    BY <1>3 DEF IInv, TypeOK, AttemptStepDown, diskVars, boundVars, startVars, historyVars
  <2>2. Quiet
    BY <1>3, TypesOfState
       DEF Quiet, AttemptStepDown, diskVars, boundVars, startVars, historyVars
  <2> QED BY <2>1, <2>2, QuietKeeps
<1>4. CASE LogNewPrimary(n)
  <2>1. TypeOK'
    BY <1>4 DEF IInv, TypeOK, LogNewPrimary, topoVars, boundVars, startVars, historyVars
  <2>2. Quiet
    BY <1>4, TypesOfState
       DEF Quiet, LogNewPrimary, topoVars, boundVars, startVars, historyVars
  <2> QED BY <2>1, <2>2, QuietKeeps
<1> QED BY <1>1, <1>2, <1>3, <1>4 DEF Leader

\* Replication leaves the votes alone.
LEMMA ApplyOplogKeeps ==
    ASSUME IInv, NEW n \in Nodes, NEW m \in Nodes, ApplyOplog(n, m)
    PROVE  IInv'
<1>1. TypeOK'
  BY DEF IInv, TypeOK, ApplyOplog, topoVars, boundVars, startVars, historyVars
<1>2. Quiet
  BY TypesOfState DEF Quiet, ApplyOplog, topoVars, boundVars, startVars, historyVars
<1> QED BY <1>1, <1>2, QuietKeeps

-----------------------------------------------------------------------------
(* Steps that cast a vote *)

\* n makes one new pledge, to d in term u; those that it forgets, which are
\* in that term or a higher one, are votes out of turn.
NewPledge(n, u, d) ==
    /\ early \subseteq early'
    /\ \A t \in Terms : u <= t /\ t <= lastVote[n].term => Early(n, t)'
    /\ lastVote' = [lastVote EXCEPT ![n] = [term |-> u, cand |-> d]]
    /\ \A v \in Nodes, t \in Terms, c \in Candidates :
          Pledged(v, t, c)' =>
              Pledged(v, t, c) \/ (v = n /\ t = u /\ c = d)

\* A new pledge conflicts with none that was made before in its term.
LEMMA OneNewPledge ==
    ASSUME IInv, NEW n \in Nodes, NEW u \in Terms, NEW d \in Nodes,
           NewPledge(n, u, d)
    PROVE  PledgeInv'
<1> USE DEF NewPledge
<1> SUFFICES ASSUME NEW v \in Nodes, NEW t \in Terms, NEW c \in Candidates,
                    Pledged(v, t, c)', ~Early(v, t)'
             PROVE  /\ t <= lastVote'[v].term
                    /\ \A e \in Candidates : Pledged(v, t, e)' => c = e
  BY DEF PledgeInv
<1>1. /\ lastVote'[n].term = u /\ u \in Nat /\ t \in Nat
      /\ lastVote[v].term \in Nat /\ lastVote[n].term \in Nat
      /\ v # n => lastVote'[v] = lastVote[v]
  BY TypesOfState DEF TypeOK, Votes
<1>2. ~Early(v, t)
  BY EarlyFacts
<1>3. \A e \in Candidates : Pledged(v, t, e) =>
         /\ t <= lastVote[v].term
         /\ \A f \in Candidates : Pledged(v, t, f) => e = f
         /\ v = n => t < u
  <2>1. \A e \in Candidates : Pledged(v, t, e) =>
           /\ t <= lastVote[v].term
           /\ \A f \in Candidates : Pledged(v, t, f) => e = f
    BY <1>2 DEF IInv, PledgeInv
  <2>2. v = n /\ t <= lastVote[n].term => ~(u <= t)
    OBVIOUS
  <2> QED BY <1>1, <2>1, <2>2
<1>4. CASE v = n /\ t = u /\ c = d
  BY <1>1, <1>3, <1>4
<1>5. CASE ~(v = n /\ t = u /\ c = d)
  <2>1. Pledged(v, t, c) /\ t <= lastVote[v].term
    BY <1>3, <1>5
  <2>2. ~(v = n /\ t = u)
    BY <1>1, <1>3, <2>1
  <2>3. \A e \in Candidates : Pledged(v, t, e)' => Pledged(v, t, e)
    BY <2>2
  <2>4. \A e \in Candidates : Pledged(v, t, e) => c = e
    BY <1>3, <2>1
  <2>5. t <= lastVote'[v].term
    BY <1>1, <1>3, <2>1
  <2> QED BY <2>3, <2>4, <2>5
<1> QED BY <1>4, <1>5

\* Pledges that were made are kept, with the last vote.
LEMMA SamePledges ==
    ASSUME PledgeInv, lastVote' = lastVote, early' = early,
           \A v \in Nodes, t \in Terms, c \in Candidates :
               Pledged(v, t, c)' => Pledged(v, t, c)
    PROVE  PledgeInv'
BY EarlyFacts DEF PledgeInv

\* The candidate enters the next term and votes for itself.
LEMMA RunForElectionKeeps ==
    ASSUME IInv, NEW n \in Nodes, elect[n].phase = "dryRun", RunForElection(n),
           UNCHANGED <<diskVars, startVars, boundVars, historyVars>>
    PROVE  IInv'
<1> DEFINE u == term[n] + 1
<1>1. /\ u \in Terms /\ u > term[n] /\ term[n] \in Nat
      /\ lastVote[n].term \in Terms /\ lastVote[n].term \in Nat /\ loaded[n]
      /\ elect[n].id \in 1 .. elections /\ elections \in 0 .. MaxElections
  <2>1. /\ ElectOK(n) /\ elect[n] \in Elections
        /\ lastVote[n] \in Votes /\ term[n] \in Nat
        /\ elections \in 0 .. MaxElections
    BY TypesOfState DEF IInv, ElectInv, TypeOK
  <2>2. elect[n].term = term[n] /\ elect[n].term < MaxTerm /\ loaded[n]
    BY <2>1 DEF ElectOK, RunForElection
  <2>3. lastVote[n].term \in Terms /\ lastVote[n].term \in Nat
    BY <2>1, TypesOfState DEF Votes
  <2> QED BY <2>1, <2>2, <2>3, BoundsAssumption DEF ElectOK, Terms, Elections
<1>2. /\ term' = [term EXCEPT ![n] = u]
      /\ highest' = HigherOf(highest, u)
      /\ lastVote' = [lastVote EXCEPT ![n] = [term |-> u, cand |-> n]]
      /\ elect' = [elect EXCEPT ![n] =
                      Requester(n, "writing", elect[n].id, u, None)]
  BY DEF RunForElection, IInv, TypeOK
<1>3. rpcs' \subseteq rpcs /\ UNCHANGED <<role, steppingDown>>
  BY DEF RunForElection, Abandon
<1> HIDE DEF u
<1>4. /\ Requester(n, "writing", elect[n].id, u, None) \in Elections
      /\ elect'[n].phase = "writing" /\ elect'[n].term = u
      /\ elect'[n].id = elect[n].id
      /\ \A m \in Nodes \ {n} : elect'[m] = elect[m]
  <2>1. "writing" \in Phases /\ elect[n].id \in 0 .. MaxElections
    BY DEF Phases, IInv, TypeOK, Elections
  <2>2. Requester(n, "writing", elect[n].id, u, None) = elect'[n]
    BY <1>2 DEF IInv, TypeOK
  <2> QED BY <1>1, <1>2, <2>1, <2>2, RequesterFields
<1>5. TypeOK'
  <2>1. [term |-> u, cand |-> n] \in Votes
    BY <1>1 DEF Votes
  <2>2. highest' \in Terms
    BY <1>1, <1>2 DEF IInv, TypeOK, HigherOf
  <2>3. elect' \in [Nodes -> Elections] /\ term' \in [Nodes -> Terms]
        /\ lastVote' \in [Nodes -> Votes]
    BY <1>1, <1>2, <1>4, <2>1 DEF IInv, TypeOK
  <2> QED BY <1>3, <2>2, <2>3 DEF IInv, TypeOK, diskVars, boundVars, startVars, historyVars
<1>6. PledgeInv'
  <2>1. ASSUME NEW v \in Nodes, NEW t \in Terms, NEW c \in Candidates,
               Pledged(v, t, c)'
        PROVE  Pledged(v, t, c) \/ (v = n /\ t = u /\ c = n)
    <3>1. lastVote'[v] = IF v = n THEN [term |-> u, cand |-> n] ELSE lastVote[v]
      BY <1>2 DEF IInv, TypeOK
    <3> QED BY <2>1, <3>1, <1>3, <1>4
        DEF Pledged, diskVars, historyVars, startVars
  <2>2. ASSUME NEW t \in Terms, u <= t, t <= lastVote[n].term
        PROVE  Early(n, t)'
    <3>1. ~(lastVote[n].term <= term[n])
      BY <1>1, <2>2, TypesOfState
    <3>2. Early(n, lastVote[n].term)
      BY <1>1, <3>1 DEF IInv, TermInv
    <3> QED BY <1>1, <2>2, <3>2, EarlyFacts DEF historyVars
  <2>3. NewPledge(n, u, n)
    BY <1>1, <1>2, <2>1, <2>2 DEF NewPledge, historyVars
  <2> QED BY <1>1, <2>3, OneNewPledge
<1>7. TermInv'
  <2>1. lastVote'[n].term = u /\ term'[n] = u /\ u <= u
    BY <1>1, <1>2, TypesOfState DEF IInv, TypeOK
  <2>2. \A m \in Nodes \ {n} : lastVote'[m] = lastVote[m] /\ term'[m] = term[m]
    BY <1>2 DEF IInv, TypeOK
  <2> QED BY <2>1, <2>2
      DEF IInv, TermInv, Early, historyVars, startVars
<1>8. CastInv'
  BY DEF IInv, CastInv, diskVars, historyVars, startVars
<1>9. CallInv'
  <2> SUFFICES ASSUME NEW r \in rpcs PROVE CallOK(r)'
    BY <1>3 DEF CallInv
  <2>1. CallOK(r)
    BY DEF IInv, CallInv
  <2> QED BY <2>1, <1>4 DEF CallOK, boundVars, startVars, IInv, TypeOK, Rpcs
<1>10. ElectInv'
  <2>1. ElectOK(n)'
    BY <1>1, <1>4 DEF ElectOK, boundVars, startVars
  <2>2. ASSUME NEW m \in Nodes \ {n} PROVE ElectOK(m)'
    <3>1. ElectOK(m) /\ term'[m] = term[m] /\ elect'[m] = elect[m]
      BY <1>2, <1>4 DEF IInv, ElectInv, TypeOK
    <3> QED BY <3>1 DEF ElectOK, Voters, boundVars, startVars, historyVars
  <2> QED BY <2>1, <2>2 DEF ElectInv
<1>11. WonInv'
  BY NoNewLeader DEF IInv, WonInv, historyVars, startVars
<1> QED BY <1>5, <1>6, <1>7, <1>8, <1>9, <1>10, <1>11 DEF IInv

\* The end of a dry run: the candidate goes on, or loses.
LEMMA OnDryRunCompleteKeeps ==
    ASSUME IInv, NEW n \in Nodes, OnDryRunComplete(n)
    PROVE  IInv'
<1>1. CASE RunForElection(n)
  BY <1>1, RunForElectionKeeps DEF OnDryRunComplete
<1>2. CASE LoseElection(n) /\ UNCHANGED <<term, highest, steppingDown, lastVote>>
  <2>1. TypeOK'
    BY <1>2, LoseElectionQuiet
       DEF IInv, TypeOK, OnDryRunComplete, diskVars, boundVars, startVars, historyVars
  <2>2. Quiet
    BY <1>2, LoseElectionQuiet, TypesOfState
       DEF Quiet, OnDryRunComplete, diskVars, boundVars, startVars, historyVars
  <2> QED BY <2>1, <2>2, QuietKeeps
<1> QED BY <1>1, <1>2 DEF OnDryRunComplete

\* What is on disk after a write is what was there, or the vote written.
LEMMA StoredFacts ==
    ASSUME IInv, NEW n \in Nodes, NEW u \in Terms, NEW c \in Nodes
    PROVE  /\ Stored(n, [term |-> u, cand |-> c]) \in Votes
           /\ \/ Stored(n, [term |-> u, cand |-> c]) = diskVote[n]
              \/ /\ Stored(n, [term |-> u, cand |-> c]).term = u
                 /\ Stored(n, [term |-> u, cand |-> c]).cand = c
           /\ Stored(n, [term |-> u, cand |-> c]).term >= u
           /\ Stored(n, [term |-> u, cand |-> c]).term >= diskVote[n].term
<1>1. diskVote[n] \in Votes /\ [term |-> u, cand |-> c] \in Votes
  BY DEF IInv, TypeOK, Votes
<1>2. diskVote[n].term \in Nat /\ u \in Nat
  BY <1>1, TypesOfState DEF Votes
<1> QED BY <1>1, <1>2 DEF Stored

\* A write of the last vote only makes durable what the member is pledged to.
LEMMA WritesKeep ==
    ASSUME IInv, NEW n \in Nodes, NEW u \in Terms, NEW c \in Nodes,
           Pledged(n, u, c), NEW d \in Votes,
           d \in {diskVote[n], Stored(n, [term |-> u, cand |-> c])},
           diskVote' = [diskVote EXCEPT ![n] = d],
           lastVote' = lastVote, early' = early,
           \/ cast' = cast
           \/ /\ cast' = cast \cup {[voter |-> n, term |-> u, cand |-> c]}
              /\ d = Stored(n, [term |-> u, cand |-> c]),
           \A r \in rpcs' : r.at = "storing" => r \in rpcs,
           \A v \in Nodes : elect'[v].phase = "writing" =>
               elect[v].phase = "writing" /\ elect[v].term = elect'[v].term
    PROVE  PledgeInv' /\ CastInv'
<1>1. \A v \in Nodes : diskVote'[v] = IF v = n THEN d ELSE diskVote[v]
  BY DEF IInv, TypeOK
<1>2. d = diskVote[n] \/ (d.term = u /\ d.cand = c)
  BY StoredFacts
<1>3. \A v \in Nodes, t \in Terms, e \in Candidates :
         [voter |-> v, term |-> t, cand |-> e] \in cast' =>
             \/ [voter |-> v, term |-> t, cand |-> e] \in cast
             \/ v = n /\ t = u /\ e = c
  OBVIOUS
<1>4. ASSUME NEW v \in Nodes, NEW t \in Terms, NEW e \in Candidates,
             Pledged(v, t, e)'
      PROVE  Pledged(v, t, e)
  BY <1>1, <1>2, <1>3, <1>4 DEF Pledged
<1>5. PledgeInv'
  BY <1>4, SamePledges DEF IInv
<1>6. CastInv'
  <2> SUFFICES ASSUME NEW v \in cast' PROVE v.term <= diskVote'[v.voter].term
    BY DEF CastInv
  <2>1. CASE v \in cast
    <3>1. /\ v.voter \in Nodes /\ v.term \in Nat
          /\ v.term <= diskVote[v.voter].term
          /\ diskVote[v.voter].term \in Nat /\ d.term \in Nat
      BY <2>1, TypesOfState DEF IInv, TypeOK, CastInv, Votes
    <3>2. d.term >= diskVote[n].term
      BY <3>1, StoredFacts, TypesOfState DEF TypeOK, Votes
    <3> QED BY <1>1, <3>1, <3>2
  <2>2. CASE v \notin cast
    <3>1. /\ v.voter = n /\ v.term = u
          /\ d = Stored(n, [term |-> u, cand |-> c])
      BY <2>2
    <3> QED BY <1>1, <3>1, StoredFacts
  <2> QED BY <2>1, <2>2
<1> QED BY <1>5, <1>6

\* The candidate stores its vote for itself, and asks for votes or loses.
LEMMA WriteLastVoteKeeps ==
    ASSUME IInv, NEW n \in Nodes, WriteLastVoteForMyElection(n)
    PROVE  IInv'
<1> DEFINE u == elect[n].term
           stored == Stored(n, [term |-> u, cand |-> n])
<1>1. /\ u \in Terms /\ ElectOK(n) /\ elect[n].phase = "writing"
      /\ elect[n].id \in 1 .. MaxElections /\ elect[n].id <= elections
      /\ loaded[n] /\ elections \in Nat
      /\ \A r \in rpcs : r.dryRun \/ r.cand # n \/ r.id # elect[n].id
  <2>1. /\ ElectOK(n) /\ elect[n] \in Elections /\ elections \in Nat
        /\ elect[n].phase = "writing"
    BY BoundsAssumption
       DEF IInv, TypeOK, ElectInv, WriteLastVoteForMyElection
  <2>2. \A r \in rpcs : CallOK(r)
    BY DEF IInv, CallInv
  <2> QED BY <2>1, <2>2 DEF ElectOK, CallOK, Elections
<1>2. /\ UNCHANGED <<term, steppingDown, lastVote, lastApplied, loaded, restore,
                     highest, elections, restarts, early, won>>
      /\ \/ /\ diskVote' = [diskVote EXCEPT ![n] = stored]
            /\ StartVoteRequester(n)
         \/ /\ \E d \in {diskVote[n], stored} :
                  diskVote' = [diskVote EXCEPT ![n] = d]
            /\ LoseElection(n) /\ cast' = cast
  BY DEF WriteLastVoteForMyElection, boundVars, startVars
<1>3. Pledged(n, u, n)
  BY <1>1 DEF Pledged
<1>4. stored \in Votes /\ diskVote[n] \in Votes
  BY <1>1, StoredFacts DEF IInv, TypeOK
<1> HIDE DEF u
<1>5. CASE StartVoteRequester(n) /\ diskVote' = [diskVote EXCEPT ![n] = stored]
  <2>1. /\ term[n] = u /\ role' = role
        /\ elect' = [elect EXCEPT ![n] =
                        Requester(n, "voting", elect[n].id, u, None)]
        /\ cast' = cast \cup {[voter |-> n, term |-> u, cand |-> n]}
    BY <1>5 DEF StartVoteRequester, u, IInv, TypeOK
  <2>2. /\ elect' \in [Nodes -> Elections]
        /\ elect'[n].phase = "voting" /\ elect'[n].term = u
        /\ elect'[n].id = elect[n].id /\ elect'[n].votes = {n}
        /\ \A m \in Nodes \ {n} : elect'[m] = elect[m]
    <3>1. "voting" \in Phases /\ elect[n].id \in 0 .. MaxElections
      BY DEF Phases, IInv, TypeOK, Elections
    <3>2. Requester(n, "voting", elect[n].id, u, None) = elect'[n]
      BY <2>1 DEF IInv, TypeOK
    <3>3. elect'[n] \in Elections
      BY <1>1, <3>1, <3>2, RequesterFields
    <3> QED BY <1>1, <2>1, <3>1, <3>2, <3>3, RequesterFields DEF IInv, TypeOK
  <2>3. PICK new \in SUBSET Rpcs :
           /\ rpcs' = rpcs \cup new
           /\ \A r \in new : /\ r.cand = n /\ r.id = elect[n].id /\ ~r.dryRun
                             /\ r.term = u /\ r.at = "request"
    <3>1. TypeOK
      BY DEF IInv
    <3>2. PICK b \in BOOLEAN : b = FALSE
      OBVIOUS
    <3>3. PICK new \in SUBSET Rpcs :
             /\ new = Requests(n, elect[n].id, b, u)
             /\ \A r \in new :
                   /\ r.cand = n /\ r.id = elect[n].id /\ r.dryRun = b
                   /\ r.term = u /\ r.at = "request"
      BY <1>1, <3>1, RequestFields
    <3>4. rpcs' = rpcs \cup new
      BY <1>5, <2>1, <3>2, <3>3 DEF StartVoteRequester
    <3> QED BY <3>2, <3>3, <3>4
  <2>4. TypeOK'
    <3>1. rpcs' \subseteq Rpcs
      BY <2>3 DEF IInv, TypeOK
    <3>2. diskVote' \in [Nodes -> Votes]
      BY <1>4, <1>5 DEF IInv, TypeOK
    <3>3. cast' \subseteq [voter : Nodes, term : Terms, cand : Nodes]
      BY <1>1, <2>1 DEF IInv, TypeOK
    <3> QED BY <1>2, <2>1, <2>2, <3>1, <3>2, <3>3 DEF IInv, TypeOK
  <2>5. PledgeInv' /\ CastInv'
    <3>1. \A r \in rpcs' : r.at = "storing" => r \in rpcs
      BY <2>3
    <3>2. \A v \in Nodes : elect'[v].phase = "writing" =>
             elect[v].phase = "writing" /\ elect[v].term = elect'[v].term
      BY <2>2
    <3> QED BY <1>1, <1>2, <1>3, <1>4, <1>5, <2>1, <3>1, <3>2, WritesKeep
  <2>6. TermInv'
    BY <1>2 DEF IInv, TermInv, Early
  <2>7. CallInv'
    <3>1. ASSUME NEW r \in rpcs PROVE CallOK(r)'
      <4>1. CallOK(r) /\ r.cand \in Nodes
        BY DEF IInv, CallInv, TypeOK, Rpcs
      <4> QED BY <1>1, <1>2, <2>2, <4>1 DEF CallOK
    <3>2. ASSUME NEW r \in new PROVE CallOK(r)'
      BY <1>1, <1>2, <2>2, <2>3 DEF CallOK
    <3> QED BY <2>3, <3>1, <3>2 DEF CallInv
  <2>8. ElectInv'
    <3>1. ElectOK(n)'
      <4>1. elect'[n].votes \subseteq
               {m \in Nodes : [voter |-> m, term |-> elect'[n].term,
                               cand |-> n] \in cast'}
        BY <2>1, <2>2
      <4> QED BY <1>1, <1>2, <2>2, <4>1 DEF ElectOK, Voters
    <3>2. ASSUME NEW m \in Nodes \ {n} PROVE ElectOK(m)'
      <4>1. ElectOK(m) /\ elect'[m] = elect[m]
        BY <2>2 DEF IInv, ElectInv
      <4>2. cast \subseteq cast'
        BY <2>1
      <4> QED BY <1>2, <4>1, <4>2 DEF ElectOK, Voters
    <3> QED BY <3>1, <3>2 DEF ElectInv
  <2>9. WonInv'
    <3>1. cast \subseteq cast'
      BY <2>1
    <3> QED BY <1>2, <3>1, NoNewLeader DEF IInv, WonInv
  <2> QED BY <2>4, <2>5, <2>6, <2>7, <2>8, <2>9 DEF IInv
<1>6. CASE /\ \E d \in {diskVote[n], stored} :
                 diskVote' = [diskVote EXCEPT ![n] = d]
           /\ LoseElection(n) /\ cast' = cast
  <2>1. PICK d \in {diskVote[n], stored} :
           diskVote' = [diskVote EXCEPT ![n] = d]
    BY <1>6
  <2>2. /\ elect'[n] = NoElection
        /\ \A m \in Nodes \ {n} : elect'[m] = elect[m]
        /\ rpcs' \subseteq rpcs
    BY <1>6, LoseElectionQuiet
  <2>3. TypeOK'
    <3>1. diskVote' \in [Nodes -> Votes]
      BY <1>4, <2>1 DEF IInv, TypeOK
    <3> QED BY <1>2, <1>6, <3>1, LoseElectionQuiet DEF IInv, TypeOK
  <2>4. PledgeInv' /\ CastInv'
    <3>1. \A v \in Nodes : elect'[v].phase = "writing" =>
             elect[v].phase = "writing" /\ elect[v].term = elect'[v].term
      BY <2>2, NoElectionFields
    <3>2. d \in Votes
      BY <1>4
    <3> QED BY <1>1, <1>2, <1>3, <1>6, <2>1, <2>2, <3>1, <3>2, WritesKeep
  <2>5. TermInv'
    BY <1>2 DEF IInv, TermInv, Early
  <2>6. CallInv'
    <3> SUFFICES ASSUME NEW r \in rpcs PROVE CallOK(r)'
      BY <2>2 DEF CallInv
    <3>1. CallOK(r) /\ r \in Rpcs
      BY DEF IInv, CallInv, TypeOK
    <3> QED BY <1>2, <2>2, <3>1, NoElectionFields DEF CallOK, Rpcs
  <2>7. ElectInv'
    <3> SUFFICES ASSUME NEW m \in Nodes PROVE ElectOK(m)'
      BY DEF ElectInv
    <3>1. ElectOK(m)
      BY DEF IInv, ElectInv
    <3> QED BY <1>1, <1>2, <1>6, <2>2, <3>1, NoElectionFields
        DEF ElectOK, Voters
  <2>8. WonInv'
    BY <1>2, <1>6, NoNewLeader DEF IInv, WonInv
  <2> QED BY <2>3, <2>4, <2>5, <2>6, <2>7, <2>8 DEF IInv
<1> QED BY <1>2, <1>5, <1>6

\* A majority of votes has been counted: the candidate is about to win.
LEMMA OnVoteRequestCompleteKeeps ==
    ASSUME IInv, NEW n \in Nodes, OnVoteRequestComplete(n)
    PROVE  IInv'
<1>0. UNCHANGED <<term, steppingDown, lastVote, diskVote, lastApplied, loaded,
                  restore, highest, elections, restarts, cast, early, won>>
  BY DEF OnVoteRequestComplete, diskVars, boundVars, startVars, historyVars
<1>1. CASE /\ elect[n].term = term[n] /\ SuccessfullyElected(n)
           /\ elect' = [elect EXCEPT ![n].phase = "winning"]
           /\ UNCHANGED <<role, rpcs>>
  <2>1. /\ elect' \in [Nodes -> Elections]
        /\ elect'[n].phase = "winning" /\ elect'[n].term = elect[n].term
        /\ elect'[n].id = elect[n].id /\ elect'[n].votes = elect[n].votes
        /\ \A m \in Nodes \ {n} : elect'[m] = elect[m]
    <3>1. PICK e \in Elections : e = elect[n]
      BY TypesOfState
    <3>2. elect' = [elect EXCEPT ![n] = [e EXCEPT !.phase = "winning"]]
      BY <1>1, <3>1 DEF IInv, TypeOK
    <3>3. [e EXCEPT !.phase = "winning"] \in Elections
      BY DEF Elections, Phases
    <3>4. elect'[n] = [e EXCEPT !.phase = "winning"]
      BY <3>2 DEF IInv, TypeOK
    <3>5. /\ elect'[n].phase = "winning" /\ elect'[n].term = e.term
          /\ elect'[n].id = e.id /\ elect'[n].votes = e.votes
      BY <3>4 DEF Elections
    <3> QED BY <3>1, <3>2, <3>3, <3>5 DEF IInv, TypeOK
  <2>2. elect[n].phase = "voting" /\ Cardinality(elect[n].votes) >= Majority
    BY <1>1 DEF OnVoteRequestComplete, SuccessfullyElected
  <2>3. TypeOK'
    BY <1>0, <1>1, <2>1 DEF IInv, TypeOK
  <2>4. PledgeInv'
    <3>1. \A v \in Nodes : elect'[v].phase = "writing" =>
             elect[v].phase = "writing" /\ elect[v].term = elect'[v].term
      BY <2>1
    <3> QED BY <1>0, <1>1, <3>1, NoNewPledge DEF IInv
  <2>5. TermInv' /\ CastInv'
    BY <1>0 DEF IInv, TermInv, CastInv, Early
  <2>6. CallInv'
    <3> SUFFICES ASSUME NEW r \in rpcs PROVE CallOK(r)'
      BY <1>1 DEF CallInv
    <3>1. CallOK(r) /\ r.cand \in Nodes
      BY DEF IInv, CallInv, TypeOK, Rpcs
    <3> QED BY <1>0, <2>1, <2>2, <3>1 DEF CallOK
  <2>7. ElectInv'
    <3> SUFFICES ASSUME NEW m \in Nodes PROVE ElectOK(m)'
      BY DEF ElectInv
    <3>1. ElectOK(m)
      BY DEF IInv, ElectInv
    <3>2. CASE m = n
      BY <1>0, <1>1, <2>1, <2>2, <3>1, <3>2, TypesOfState
         DEF ElectOK, Voters, Majority
    <3>3. CASE m # n
      BY <1>0, <2>1, <3>1, <3>3 DEF ElectOK, Voters
    <3> QED BY <3>2, <3>3
  <2>8. WonInv'
    BY <1>0, NoNewLeader DEF IInv, WonInv
  <2> QED BY <2>3, <2>4, <2>5, <2>6, <2>7, <2>8 DEF IInv
<1>2. CASE LoseElection(n)
  <2>1. TypeOK'
    BY <1>0, <1>2, LoseElectionQuiet DEF IInv, TypeOK
  <2>2. Quiet
    BY <1>0, <1>2, LoseElectionQuiet, TypesOfState DEF Quiet
  <2> QED BY <2>1, <2>2, QuietKeeps
<1> QED BY <1>1, <1>2 DEF OnVoteRequestComplete

\* The election id is made: the majority was counted in the term of the votes.
LEMMA WinElectionKeeps ==
    ASSUME IInv, NEW n \in Nodes, WinElection(n)
    PROVE  IInv'
<1>0. /\ UNCHANGED <<term, steppingDown, lastVote, diskVote, lastApplied, loaded,
                     restore, rpcs, highest, elections, restarts, cast, early>>
      /\ elect[n].phase = "winning"
      /\ won' = won \cup {[node |-> n, term |-> term[n],
                            elected |-> elect[n].term]}
  BY DEF WinElection, diskVars, boundVars, startVars
<1>1. /\ elect' \in [Nodes -> Elections] /\ elect'[n] = NoElection
      /\ \A m \in Nodes \ {n} : elect'[m] = elect[m]
  BY NoElectionFields DEF IInv, TypeOK, WinElection
<1>2. TypeOK'
  <2>1. /\ role' \in [Nodes -> {"follower", "candidate", "leader"}]
        /\ won' \subseteq Wins
    BY <1>0, TypesOfState DEF IInv, TypeOK, WinElection, Wins, Elections
  <2> QED BY <1>0, <1>1, <2>1 DEF IInv, TypeOK
<1>3. PledgeInv'
  <2>1. \A v \in Nodes : elect'[v].phase = "writing" =>
           elect[v].phase = "writing" /\ elect[v].term = elect'[v].term
    BY <1>1, NoElectionFields
  <2> QED BY <1>0, <2>1, NoNewPledge DEF IInv
<1>4. TermInv' /\ CastInv'
  BY <1>0 DEF IInv, TermInv, CastInv, Early
<1>5. CallInv'
  <2> SUFFICES ASSUME NEW r \in rpcs PROVE CallOK(r)'
    BY <1>0 DEF CallInv
  <2>1. CallOK(r) /\ r \in Rpcs
    BY DEF IInv, CallInv, TypeOK
  <2> QED BY <1>0, <1>1, <2>1, NoElectionFields DEF CallOK, Rpcs
<1>6. ElectInv'
  <2> SUFFICES ASSUME NEW m \in Nodes PROVE ElectOK(m)'
    BY DEF ElectInv
  <2>1. ElectOK(m) /\ elections \in Nat
    BY BoundsAssumption DEF IInv, ElectInv, TypeOK
  <2> QED BY <1>0, <1>1, <2>1, NoElectionFields DEF ElectOK, Voters
<1>7. WonInv'
  <2>1. /\ elect[n].votes \subseteq Voters(n, elect[n].term)
        /\ Cardinality(elect[n].votes) >= Majority
        /\ elect[n].term <= term[n]
    BY <1>0 DEF IInv, ElectInv, ElectOK
  <2>2. PICK t \in Terms, u \in Terms : t = term[n] /\ u = elect[n].term
    BY TypesOfState DEF Elections
  <2>3. Voters(n, u)' = Voters(n, u) /\ cast \subseteq cast'
    BY <1>0 DEF Voters
  <2>4. Cardinality(Voters(n, u)') >= Majority
    BY <2>1, <2>2, <2>3, VotersGrow
  <2>5. ASSUME NEW w \in won'
        PROVE  /\ Cardinality(Voters(w.node, w.elected)') >= Majority
               /\ w.elected <= w.term
    <3>1. CASE w \in won
      <4>1. /\ Cardinality(Voters(w.node, w.elected)) >= Majority
            /\ w.elected <= w.term
        BY <3>1 DEF IInv, WonInv, ElectedByMajority
      <4>2. Voters(w.node, w.elected)' = Voters(w.node, w.elected)
        BY <1>0 DEF Voters
      <4> QED BY <4>1, <4>2
    <3>2. CASE w = [node |-> n, term |-> t, elected |-> u]
      <4>1. w.node = n /\ w.term = t /\ w.elected = u
        BY <3>2
      <4> QED BY <2>1, <2>2, <2>4, <4>1
    <3> QED BY <1>0, <2>2, <3>1, <3>2
  <2> QED BY <2>5 DEF WonInv, ElectedByMajority, Majority, Voters
<1> QED BY <1>2, <1>3, <1>4, <1>5, <1>6, <1>7 DEF IInv

-----------------------------------------------------------------------------
(* The voter *)

\* An answer changes the election that waits for it and no other.
LEMMA AnswerFacts ==
    ASSUME IInv, NEW r \in rpcs, NEW granted \in BOOLEAN, NEW answer \in Terms,
           Answer(r, granted, answer)
    PROVE  /\ elect' \in [Nodes -> Elections]
           /\ rpcs' \subseteq rpcs
           /\ \A m \in Nodes :
                 /\ elect'[m].phase = elect[m].phase
                 /\ elect'[m].term = elect[m].term
                 /\ elect'[m].id = elect[m].id
                 /\ \/ elect'[m].votes = elect[m].votes
                    \/ /\ granted /\ Awaited(r) /\ m = r.cand
                       /\ elect'[m].votes = elect[m].votes \cup {r.to}
<1>1. r \in Rpcs /\ r.cand \in Nodes
  BY DEF IInv, TypeOK, Rpcs
<1>2. rpcs' \subseteq rpcs
  BY DEF Answer
<1>3. CASE ~Awaited(r)
  <2>1. elect' = elect
    BY <1>3 DEF Answer
  <2> QED BY <1>2, <2>1 DEF IInv, TypeOK
<1>4. CASE Awaited(r)
  <2>1. PICK e \in Elections : e = elect[r.cand]
    BY <1>1, TypesOfState
  <2>2. elect' = [elect EXCEPT ![r.cand] = WithResponse(e, r, granted, answer)]
    BY <1>1, <1>4, <2>1 DEF Answer, IInv, TypeOK
  <2>3. PICK f \in Elections : /\ f = WithResponse(e, r, granted, answer)
                               /\ f.phase = e.phase /\ f.term = e.term
                               /\ f.id = e.id
                               /\ f.votes = IF granted THEN e.votes \cup {r.to}
                                                       ELSE e.votes
    <3> DEFINE f == WithResponse(e, r, granted, answer)
    <3>1. /\ f \in Elections /\ f.phase = e.phase /\ f.term = e.term
          /\ f.id = e.id
          /\ f.votes = IF granted THEN e.votes \cup {r.to} ELSE e.votes
      BY <1>1, ResponseFields
    <3> HIDE DEF f
    <3> QED BY <3>1 DEF f
  <2>4. elect' \in [Nodes -> Elections] /\ elect'[r.cand] = f
    BY <1>1, <2>2, <2>3 DEF IInv, TypeOK
  <2>5. \A m \in Nodes \ {r.cand} : elect'[m] = elect[m]
    BY <2>2 DEF IInv, TypeOK
  <2> QED BY <1>2, <1>4, <2>1, <2>3, <2>4, <2>5
<1> QED BY <1>3, <1>4

\* updateTerm, on behalf of a request for a vote.
LEMMA UpdateTermForRequestKeeps ==
    ASSUME IInv, NEW r \in rpcs, UpdateTermForRequest(r)
    PROVE  IInv'
<1>1. /\ r \in Rpcs /\ r.to \in Nodes /\ r.term \in Terms
      /\ UpdateTerm(r.to, r.term)
  BY DEF IInv, TypeOK, Rpcs, UpdateTermForRequest
<1>2. /\ term' \in [Nodes -> Terms] /\ steppingDown' \in [Nodes -> BOOLEAN]
      /\ \A m \in Nodes : term'[m] >= term[m]
  BY <1>1, UpdateTermFacts
<1>3. \A q \in rpcs' : \/ q \in rpcs
                      \/ /\ q \in Rpcs /\ q.at # "storing" /\ q.to = r.to
                         /\ q.cand = r.cand /\ q.id = r.id
                         /\ q.term = r.term /\ q.dryRun = r.dryRun
  <2>1. \A at \in {"waiting", "voting"} :
           LET q == [r EXCEPT !.at = at] IN
           /\ q \in Rpcs /\ q.at # "storing" /\ q.to = r.to
           /\ q.cand = r.cand /\ q.id = r.id
           /\ q.term = r.term /\ q.dryRun = r.dryRun
    BY <1>1 DEF Rpcs
  <2>2. \/ rpcs' = rpcs
        \/ \E at \in {"waiting", "voting"} :
              rpcs' = (rpcs \ {r}) \cup {[r EXCEPT !.at = at]}
    BY DEF UpdateTermForRequest
  <2> QED BY <2>1, <2>2
<1>4. UNCHANGED <<role, lastVote, diskVote, lastApplied, loaded, restore, elect,
                  highest, elections, restarts, cast, early, won>>
  BY DEF UpdateTermForRequest, diskVars, boundVars, startVars, historyVars
<1>5. TypeOK'
  <2>1. rpcs' \subseteq Rpcs
    BY <1>3 DEF IInv, TypeOK
  <2> QED BY <1>2, <1>4, <2>1 DEF IInv, TypeOK
<1>6. Quiet
  BY <1>1, <1>2, <1>3, <1>4 DEF Quiet
<1> QED BY <1>5, <1>6, QuietKeeps

\* The answer to a dry run is no vote.
LEMMA GrantDryRunVoteKeeps ==
    ASSUME IInv, NEW r \in rpcs, GrantDryRunVote(r)
    PROVE  IInv'
<1>1. PICK b \in BOOLEAN : b = TRUE
  OBVIOUS
<1>2. /\ Answer(r, b, term[r.to]) /\ r.dryRun
      /\ UNCHANGED <<term, role, steppingDown, lastVote, diskVote, lastApplied,
                     loaded, restore, highest, elections, restarts, cast,
                     early, won>>
  BY <1>1 DEF GrantDryRunVote, topoVars, diskVars, boundVars, startVars, historyVars
<1>3. term[r.to] \in Terms
  BY DEF IInv, TypeOK, Rpcs
<1>4. TypeOK'
  <2>1. rpcs' \subseteq Rpcs /\ elect' \in [Nodes -> Elections]
    BY <1>2, <1>3, AnswerFacts DEF IInv, TypeOK
  <2> QED BY <1>2, <2>1 DEF IInv, TypeOK
<1>5. Awaited(r) => elect[r.cand].phase = "dryRun"
  BY <1>2 DEF Awaited
<1>6. Quiet
  BY <1>2, <1>3, <1>5, AnswerFacts, TypesOfState DEF Quiet
<1> QED BY <1>4, <1>6, QuietKeeps

\* A refusal is counted as a response, not as a vote.
LEMMA RefuseVoteKeeps ==
    ASSUME IInv, NEW r \in rpcs, RefuseVote(r)
    PROVE  IInv'
<1>1. PICK b \in BOOLEAN : b = FALSE
  OBVIOUS
<1>2. /\ Answer(r, b, term[r.to])
      /\ UNCHANGED <<term, role, steppingDown, lastVote, diskVote, lastApplied,
                     loaded, restore, highest, elections, restarts, cast,
                     early, won>>
  BY <1>1 DEF RefuseVote, topoVars, diskVars, boundVars, startVars, historyVars
<1>3. term[r.to] \in Terms
  BY DEF IInv, TypeOK, Rpcs
<1>4. TypeOK'
  <2>1. rpcs' \subseteq Rpcs /\ elect' \in [Nodes -> Elections]
    BY <1>2, <1>3, AnswerFacts DEF IInv, TypeOK
  <2> QED BY <1>2, <2>1 DEF IInv, TypeOK
<1>5. Quiet
  BY <1>1, <1>2, <1>3, AnswerFacts, TypesOfState DEF Quiet
<1> QED BY <1>4, <1>5, QuietKeeps

\* A vote is granted in no term below the voter's and not in that of its last
\* vote.  Where it replaces the vote of a higher term it is out of turn.
LEMMA GrantVoteKeeps ==
    ASSUME IInv, NEW r \in rpcs, GrantVote(r)
    PROVE  IInv'
<1> DEFINE n == r.to
           q == [r EXCEPT !.at = "storing"]
<1>1. /\ r \in Rpcs /\ r.to \in Nodes /\ r.cand \in Nodes /\ r.term \in Terms
      /\ ~r.dryRun /\ CallOK(r)
  BY DEF IInv, TypeOK, Rpcs, CallInv, GrantVote
<1>2. /\ q \in Rpcs /\ q.at = "storing" /\ q.to = r.to /\ q.cand = r.cand
      /\ q.id = r.id /\ q.term = r.term /\ q.dryRun = r.dryRun
  BY <1>1 DEF Rpcs
<1>3. rpcs' = (rpcs \ {r}) \cup {q}
  BY DEF GrantVote
<1> HIDE DEF q
<1>4. /\ lastVote' = [lastVote EXCEPT ![n] = [term |-> r.term, cand |-> r.cand]]
      /\ early' = early \cup ({n} \X OutOfTurn(r))
      /\ UNCHANGED <<term, role, steppingDown, diskVote, lastApplied, loaded,
                     restore, elect, highest, elections, restarts, cast, won>>
  BY DEF GrantVote, diskVars, boundVars, startVars, historyVars
<1>5. /\ term[n] \in Nat /\ r.term \in Nat /\ lastVote[n].term \in Nat
      /\ term[n] \in Terms /\ lastVote[n].term \in Terms
      /\ r.term >= term[n] /\ lastVote[n].term # r.term
  <2>1. /\ term[n] \in Nat /\ r.term \in Nat /\ lastVote[n].term \in Nat
        /\ term[n] \in Terms /\ lastVote[n].term \in Terms
    BY <1>1, TypesOfState DEF TypeOK, Votes
  <2> QED BY <1>1, <2>1 DEF GrantVote, MayGrantVote
<1> DEFINE E(m, t) == \E u \in Terms : u >= t /\ <<m, u>> \in early'
<1>5a. /\ early \subseteq early' /\ early' \subseteq Nodes \X Terms
       /\ r.term > term[n] => E(n, r.term)
       /\ ~loaded[n] /\ lastVote[n].term > r.term => E(n, lastVote[n].term)
  <2>1. OutOfTurn(r) \subseteq Terms
    BY <1>1, <1>5 DEF OutOfTurn
  <2>2. early \subseteq early' /\ early' \subseteq Nodes \X Terms
    BY <1>1, <1>4, <2>1 DEF IInv, TypeOK
  <2>3. ASSUME NEW t \in Terms, t \in OutOfTurn(r) PROVE E(n, t)
    <3>1. <<n, t>> \in early' /\ t >= t
      BY <1>4, <2>3 DEF Terms
    <3> QED BY <3>1
  <2>4. r.term > term[n] => r.term \in OutOfTurn(r)
    BY DEF OutOfTurn
  <2>5. ~loaded[n] /\ lastVote[n].term > r.term =>
           lastVote[n].term \in OutOfTurn(r)
    BY DEF OutOfTurn
  <2> HIDE DEF E
  <2> QED BY <1>1, <1>5, <2>2, <2>3, <2>4, <2>5
<1>5b. \A m \in Nodes, t \in Terms : Early(m, t) => E(m, t)
  BY <1>5a DEF Early
<1>6. TypeOK'
  <2>1. rpcs' \subseteq Rpcs
    BY <1>2, <1>3 DEF IInv, TypeOK
  <2>2. lastVote' \in [Nodes -> Votes]
    BY <1>1, <1>4 DEF IInv, TypeOK, Votes
  <2> QED BY <1>4, <1>5a, <2>1, <2>2 DEF IInv, TypeOK
<1>7. PledgeInv'
  <2>1. ASSUME NEW v \in Nodes, NEW t \in Terms, NEW c \in Candidates,
               Pledged(v, t, c)'
        PROVE  Pledged(v, t, c) \/ (v = n /\ t = r.term /\ c = r.cand)
    <3>1. lastVote'[v] = IF v = n THEN [term |-> r.term, cand |-> r.cand]
                                  ELSE lastVote[v]
      BY <1>1, <1>4 DEF IInv, TypeOK
    <3>2. \A x \in rpcs' : x \in rpcs \/ x = q
      BY <1>3
    <3> QED BY <2>1, <3>1, <3>2, <1>2, <1>4 DEF Pledged
  <2>2. ASSUME NEW t \in Terms, r.term <= t, t <= lastVote[n].term
        PROVE  Early(n, t)'
    <3>1. t \in Nat /\ lastVote[n].term > r.term /\ lastVote[n].term > term[n]
      BY <1>5, <2>2, TypesOfState
    <3>2. Early(n, lastVote[n].term) \/ ~loaded[n]
      BY <1>1, <1>5, <3>1 DEF IInv, TermInv
    <3>3. PICK u \in Terms : u >= lastVote[n].term /\ <<n, u>> \in early'
      BY <1>1, <1>5, <1>5a, <1>5b, <3>1, <3>2
    <3>4. u >= t
      BY <1>5, <2>2, <3>1, <3>3, TypesOfState
    <3> QED BY <3>3, <3>4 DEF Early
  <2>3. NewPledge(n, r.term, r.cand)
    BY <1>4, <1>5a, <2>1, <2>2 DEF NewPledge
  <2> QED BY <1>1, <2>3, OneNewPledge
<1>8. TermInv'
  <2> SUFFICES ASSUME NEW m \in Nodes
               PROVE  \/ lastVote'[m].term <= term[m]
                      \/ ~loaded[m] /\ lastVote'[m].term <= restore[m]
                      \/ E(m, lastVote'[m].term)
    BY <1>4 DEF TermInv, Early
  <2>1. CASE m = n
    <3>1. lastVote'[m].term = r.term
      BY <1>1, <1>4, <2>1 DEF IInv, TypeOK
    <3>2. r.term <= term[n] \/ E(n, r.term)
      BY <1>5, <1>5a
    <3> HIDE DEF E
    <3> QED BY <2>1, <3>1, <3>2
  <2>2. CASE m # n
    <3>1. lastVote'[m] = lastVote[m] /\ lastVote[m].term \in Terms
      BY <1>1, <1>4, <2>2 DEF IInv, TypeOK, Votes
    <3> HIDE DEF E
    <3> QED BY <1>5b, <3>1 DEF IInv, TermInv
  <2> QED BY <2>1, <2>2
<1>9. CastInv'
  BY <1>4 DEF IInv, CastInv
<1>10. CallInv'
  <2>1. ASSUME NEW x \in rpcs PROVE CallOK(x)'
    BY <1>4 DEF IInv, CallInv, CallOK
  <2>2. CallOK(q)'
    BY <1>1, <1>2, <1>4 DEF CallOK
  <2> QED BY <1>3, <2>1, <2>2 DEF CallInv
<1>11. ElectInv'
  BY <1>4 DEF IInv, ElectInv, ElectOK, Voters, Majority
<1>12. WonInv'
  BY <1>4, NoNewLeader DEF IInv, WonInv
<1> QED BY <1>6, <1>7, <1>8, <1>9, <1>10, <1>11, <1>12 DEF IInv

\* The vote is stored and answered for; the candidate may count it.
LEMMA StoreVoteKeeps ==
    ASSUME IInv, NEW r \in rpcs, StoreVote(r)
    PROVE  IInv'
<1> DEFINE n == r.to
           stored == Stored(n, [term |-> r.term, cand |-> r.cand])
<1>1. /\ r \in Rpcs /\ n \in Nodes /\ r.cand \in Nodes /\ r.term \in Terms
      /\ r.at = "storing" /\ ~r.dryRun /\ CallOK(r)
  BY DEF IInv, TypeOK, Rpcs, CallInv, CallOK, StoreVote
<1>2. PICK b \in BOOLEAN : b = TRUE
  OBVIOUS
<1>3. /\ Answer(r, b, r.term)
      /\ diskVote' = [diskVote EXCEPT ![n] = stored]
      /\ cast' = cast \cup {[voter |-> n, term |-> r.term, cand |-> r.cand]}
      /\ UNCHANGED <<term, role, steppingDown, lastVote, lastApplied, loaded,
                     restore, highest, elections, restarts, early, won>>
  BY <1>2 DEF StoreVote, topoVars, boundVars, startVars
<1>4. /\ elect' \in [Nodes -> Elections]
      /\ rpcs' \subseteq rpcs
      /\ \A m \in Nodes :
            /\ elect'[m].phase = elect[m].phase
            /\ elect'[m].term = elect[m].term
            /\ elect'[m].id = elect[m].id
            /\ \/ elect'[m].votes = elect[m].votes
               \/ /\ Awaited(r) /\ m = r.cand
                  /\ elect'[m].votes = elect[m].votes \cup {n}
  BY <1>1, <1>3, AnswerFacts
<1>5. stored \in Votes
  BY <1>1, StoredFacts
<1>6. TypeOK'
  <2>1. diskVote' \in [Nodes -> Votes]
    BY <1>1, <1>3, <1>5 DEF IInv, TypeOK
  <2>2. cast' \subseteq [voter : Nodes, term : Terms, cand : Nodes]
    BY <1>1, <1>3 DEF IInv, TypeOK
  <2>3. rpcs' \subseteq Rpcs
    BY <1>4 DEF IInv, TypeOK
  <2> QED BY <1>3, <1>4, <2>1, <2>2, <2>3 DEF IInv, TypeOK
<1>7. PledgeInv' /\ CastInv'
  <2>1. Pledged(n, r.term, r.cand)
    BY <1>1 DEF Pledged
  <2>2. \A v \in Nodes : elect'[v].phase = "writing" =>
           elect[v].phase = "writing" /\ elect[v].term = elect'[v].term
    BY <1>4
  <2>3. \A x \in rpcs' : x.at = "storing" => x \in rpcs
    BY <1>4
  <2> HIDE DEF n
  <2> QED BY <1>1, <1>3, <1>5, <2>1, <2>2, <2>3, WritesKeep
<1>8. TermInv'
  BY <1>3 DEF IInv, TermInv, Early
<1>9. CallInv'
  <2> SUFFICES ASSUME NEW x \in rpcs PROVE CallOK(x)'
    BY <1>4 DEF CallInv
  <2>1. CallOK(x) /\ x.cand \in Nodes
    BY DEF IInv, CallInv, TypeOK, Rpcs
  <2> QED BY <1>3, <1>4, <2>1 DEF CallOK
<1>10. cast \subseteq cast'
  BY <1>3
<1>11. ElectInv'
  <2> SUFFICES ASSUME NEW m \in Nodes PROVE ElectOK(m)'
    BY DEF ElectInv
  <2>1. ElectOK(m)
    BY DEF IInv, ElectInv
  <2>2. CASE elect'[m].votes = elect[m].votes
    <3>1. elect[m].phase \in {"voting", "winning"} =>
             elect[m].votes \subseteq Voters(m, elect[m].term)'
      BY <1>4, <1>10, <2>1 DEF ElectOK, Voters
    <3> QED BY <1>3, <1>4, <2>1, <2>2, <3>1 DEF ElectOK, Voters
  <2>3. CASE /\ Awaited(r) /\ m = r.cand
             /\ elect'[m].votes = elect[m].votes \cup {n}
    <3>1. elect[m].phase = "voting" /\ elect[m].term = r.term
      BY <1>1, <2>3 DEF Awaited, CallOK
    <3>2. elect[m].votes \subseteq Voters(m, r.term)
      BY <2>1, <3>1 DEF ElectOK
    <3>3. elect'[m].votes \subseteq
             {v \in Nodes : [voter |-> v, term |-> elect'[m].term,
                             cand |-> m] \in cast'}
      BY <1>1, <1>3, <1>4, <2>3, <3>1, <3>2 DEF Voters
    <3> QED BY <1>3, <1>4, <2>1, <3>1, <3>3 DEF ElectOK, Voters
  <2> QED BY <1>4, <2>2, <2>3
<1>12. WonInv'
  BY <1>3, <1>10, NoNewLeader DEF IInv, WonInv
<1> QED BY <1>6, <1>7, <1>8, <1>9, <1>11, <1>12 DEF IInv

-----------------------------------------------------------------------------
(* Crashes and restarts *)

\* The higher of two terms.
LEMMA HigherOfFacts ==
    ASSUME NEW t \in Terms, NEW w \in Terms
    PROVE  /\ HigherOf(t, w) \in Terms
           /\ HigherOf(t, w) >= t /\ HigherOf(t, w) >= w
BY BoundsAssumption DEF HigherOf, Terms

\* A crash forgets pledges that were not answered for; the last vote is read
\* back from the disk, which has all the others.
LEMMA StartAgainKeeps ==
    ASSUME IInv, NEW n \in Nodes, StartAgain(n), restarts' \in 0 .. MaxRestarts
    PROVE  IInv'
<1>1. /\ UNCHANGED <<diskVote, lastApplied, highest, elections, cast, early,
                     won>>
      /\ \A r \in rpcs' : r \in rpcs /\ (r.to = n => r.at = "request")
  BY DEF StartAgain, diskVars, historyVars, startVars, Abandon
<1> DEFINE u == HigherOf(lastApplied[n], diskVote[n].term)
<1>2. u \in Terms /\ diskVote[n].term <= u /\ restore' = [restore EXCEPT ![n] = u]
  <2>1. lastApplied[n] \in Terms /\ diskVote[n].term \in Terms
    BY DEF IInv, TypeOK, Votes
  <2> QED BY <2>1, HigherOfFacts, TypesOfState DEF StartAgain
<1> HIDE DEF u
<1>2a. TypeOK'
  <2>1. /\ role' \in [Nodes -> {"follower", "candidate", "leader"}]
        /\ rpcs' \subseteq Rpcs
    BY <1>1, BoundsAssumption DEF IInv, TypeOK, StartAgain
  <2>2. /\ steppingDown' \in [Nodes -> BOOLEAN] /\ loaded' \in [Nodes -> BOOLEAN]
    BY DEF IInv, TypeOK, StartAgain
  <2>3. /\ term' \in [Nodes -> Terms] /\ lastVote' \in [Nodes -> Votes]
        /\ elect' \in [Nodes -> Elections]
    BY NoElectionFields, BoundsAssumption DEF IInv, TypeOK, StartAgain, Terms
  <2>4. restore' \in [Nodes -> Terms]
    BY <1>2 DEF IInv, TypeOK, StartAgain
  <2> QED BY <1>1, <2>1, <2>2, <2>3, <2>4 DEF IInv, TypeOK
<1>3. /\ lastVote'[n] = diskVote[n] /\ elect'[n] = NoElection /\ ~loaded'[n]
      /\ restore'[n] = u
      /\ \A m \in Nodes \ {n} :
            /\ lastVote'[m] = lastVote[m] /\ elect'[m] = elect[m]
            /\ loaded'[m] = loaded[m] /\ term'[m] = term[m]
            /\ restore'[m] = restore[m]
  BY <1>2 DEF IInv, TypeOK, StartAgain
<1>4. PledgeInv'
  <2>1. ASSUME NEW v \in Nodes, NEW t \in Terms, NEW c \in Candidates,
               Pledged(v, t, c)'
        PROVE  /\ Pledged(v, t, c)
               /\ t <= lastVote[v].term => t <= lastVote'[v].term
    <3>1. CASE v = n
      <4>1. \/ [voter |-> n, term |-> t, cand |-> c] \in cast
            \/ diskVote[n].term = t /\ diskVote[n].cand = c
        BY <2>1, <3>1, <1>1, <1>3, NoElectionFields DEF Pledged
      <4>2. t <= diskVote[n].term
        BY <4>1, TypesOfState DEF IInv, CastInv
      <4> QED BY <3>1, <4>1, <4>2, <1>3 DEF Pledged
    <3>2. CASE v # n
      <4>1. Pledged(v, t, c)
        BY <2>1, <3>2, <1>1, <1>3 DEF Pledged
      <4> QED BY <4>1, <3>2, <1>3
    <3> QED BY <3>1, <3>2
  <2> SUFFICES ASSUME NEW v \in Nodes, NEW t \in Terms, NEW c \in Candidates,
                      Pledged(v, t, c)', ~Early(v, t)'
               PROVE  /\ t <= lastVote'[v].term
                      /\ \A d \in Candidates : Pledged(v, t, d)' => c = d
    BY DEF PledgeInv
  <2>2. ~Early(v, t)
    BY <1>1, EarlyFacts
  <2> QED BY <2>1, <2>2 DEF IInv, PledgeInv
<1>5. TermInv' /\ CastInv'
  BY <1>1, <1>2, <1>3 DEF IInv, TermInv, CastInv, Early
<1>6. CallInv'
  <2> SUFFICES ASSUME NEW r \in rpcs, r.to = n => r.at = "request"
               PROVE  CallOK(r)'
    BY <1>1 DEF CallInv
  <2>1. CallOK(r) /\ r \in Rpcs
    BY DEF IInv, CallInv, TypeOK
  <2> QED BY <1>1, <1>3, <2>1, NoElectionFields DEF CallOK, Rpcs
<1>7. ElectInv'
  <2> SUFFICES ASSUME NEW m \in Nodes PROVE ElectOK(m)'
    BY DEF ElectInv
  <2>1. ElectOK(m) /\ elections \in Nat
    BY BoundsAssumption DEF IInv, ElectInv, TypeOK
  <2> QED BY <1>1, <1>3, <2>1, NoElectionFields DEF ElectOK, Voters
<1>8. WonInv'
  BY <1>1, NoNewLeader DEF IInv, WonInv
<1> QED BY <1>2a, <1>4, <1>5, <1>6, <1>7, <1>8 DEF IInv

\* A crash.
LEMMA RestartKeeps ==
    ASSUME IInv, NEW n \in Nodes, Restart(n)
    PROVE  IInv'
<1>1. restarts' \in 0 .. MaxRestarts /\ StartAgain(n)
  BY BoundsAssumption DEF IInv, TypeOK, Restart
<1> QED BY <1>1, StartAgainKeeps

\* The failed assertion of ScatterGatherRunner.
LEMMA RunnerAbortsKeeps ==
    ASSUME IInv, NEW n \in Nodes, RunnerAborts(n)
    PROVE  IInv'
<1>1. restarts' \in 0 .. MaxRestarts /\ StartAgain(n)
  BY DEF IInv, TypeOK, RunnerAborts
<1> QED BY <1>1, StartAgainKeeps

\* The term is restored from the last vote before the member votes again.
LEMMA FinishLoadLocalConfigKeeps ==
    ASSUME IInv, NEW n \in Nodes, FinishLoadLocalConfig(n)
    PROVE  IInv'
<1>1. /\ UNCHANGED <<role, steppingDown, lastVote, diskVote, lastApplied, elect,
                     rpcs, highest, elections, restarts, cast, early, won>>
      /\ ~loaded[n]
  BY DEF FinishLoadLocalConfig, diskVars, boundVars, startVars, historyVars
<1>2. /\ loaded' \in [Nodes -> BOOLEAN]
      /\ \A m \in Nodes : loaded[m] => loaded'[m]
      /\ \A m \in Nodes \ {n} : loaded'[m] = loaded[m]
  BY DEF IInv, TypeOK, FinishLoadLocalConfig
<1> DEFINE u == HigherOf(term[n], restore[n])
<1>3. /\ term' = [term EXCEPT ![n] = u]
      /\ restore' = [restore EXCEPT ![n] = 0]
  BY DEF FinishLoadLocalConfig, IInv, TypeOK
<1>4. u \in Terms /\ term[n] <= u /\ restore[n] <= u
  <2>1. term[n] \in Terms /\ restore[n] \in Terms
    BY DEF IInv, TypeOK
  <2> QED BY <2>1, HigherOfFacts, TypesOfState
<1> HIDE DEF u
<1>5. /\ term' \in [Nodes -> Terms] /\ term'[n] = u
      /\ \A m \in Nodes \ {n} : term'[m] = term[m]
  BY <1>3, <1>4 DEF IInv, TypeOK
<1>6. TypeOK'
  <2>1. restore' \in [Nodes -> Terms]
    BY <1>3, BoundsAssumption DEF IInv, TypeOK, Terms
  <2> QED BY <1>1, <1>2, <1>5, <2>1 DEF IInv, TypeOK
<1>7. PledgeInv'
  BY <1>1, NoNewPledge DEF IInv
<1>8. TermInv'
  <2> SUFFICES ASSUME NEW m \in Nodes
               PROVE  \/ lastVote[m].term <= term'[m]
                      \/ ~loaded'[m] /\ lastVote[m].term <= restore'[m]
                      \/ Early(m, lastVote[m].term)
    BY <1>1 DEF TermInv, Early
  <2>1. /\ lastVote[m].term \in Nat /\ term[m] \in Nat /\ restore[m] \in Nat
        /\ u \in Nat
    BY <1>4, TypesOfState DEF TypeOK, Votes
  <2>2. \/ lastVote[m].term <= term[m]
        \/ ~loaded[m] /\ lastVote[m].term <= restore[m]
        \/ Early(m, lastVote[m].term)
    BY DEF IInv, TermInv
  <2>3. CASE m = n
    BY <1>4, <1>5, <2>1, <2>2, <2>3
  <2>4. CASE m # n
    <3>1. restore'[m] = restore[m]
      BY <1>3, <2>4 DEF IInv, TypeOK
    <3> QED BY <1>2, <1>5, <2>2, <2>4, <3>1
  <2> QED BY <2>3, <2>4
<1>9. CastInv'
  BY <1>1 DEF IInv, CastInv
<1>10. CallInv'
  <2> SUFFICES ASSUME NEW r \in rpcs PROVE CallOK(r)'
    BY <1>1 DEF CallInv
  <2>1. CallOK(r) /\ r.to \in Nodes
    BY DEF IInv, CallInv, TypeOK, Rpcs
  <2> QED BY <1>1, <1>2, <2>1 DEF CallOK
<1>11. ElectInv'
  <2> SUFFICES ASSUME NEW m \in Nodes PROVE ElectOK(m)'
    BY DEF ElectInv
  <2>1. ElectOK(m)
    BY DEF IInv, ElectInv
  <2>2. elect[m].phase # "idle" => m # n
    BY <1>1, <2>1 DEF ElectOK
  <2> QED BY <1>1, <1>2, <1>5, <2>1, <2>2 DEF ElectOK, Voters, Majority
<1>12. WonInv'
  BY <1>1, NoNewLeader DEF IInv, WonInv
<1> QED BY <1>6, <1>7, <1>8, <1>9, <1>10, <1>11, <1>12 DEF IInv

-----------------------------------------------------------------------------
(* The invariant and the theorems *)

\* The invariant holds when the set has elected no one.
LEMMA InitInv == Init => IInv
<1> SUFFICES ASSUME Init PROVE IInv
  OBVIOUS
<1>1. TypeOK
  <2>1. 0 \in Terms /\ NoVote \in Votes
    BY BoundsAssumption DEF Terms, NoVote, Votes
  <2>2. /\ steppingDown \in [Nodes -> BOOLEAN] /\ loaded \in [Nodes -> BOOLEAN]
    BY DEF Init
  <2> QED BY <2>1, <2>2, NoElectionFields, BoundsAssumption DEF Init, TypeOK
<1>2. /\ \A n \in Nodes : /\ lastVote[n] = NoVote /\ diskVote[n] = NoVote
                          /\ term[n] = 0 /\ elect[n] = NoElection
      /\ rpcs = {} /\ cast = {} /\ early = {} /\ won = {} /\ elections = 0
  BY DEF Init
<1>3. NoVote.term = 0 /\ NoVote.cand = None
  BY DEF NoVote
<1>4. PledgeInv
  <2>1. \A v \in Nodes, t \in Terms, c \in Candidates :
           Pledged(v, t, c) => t = 0 /\ c = None
    BY <1>2, <1>3, NoElectionFields DEF Pledged
  <2>2. \A v \in Nodes : 0 <= lastVote[v].term
    BY <1>2, <1>3
  <2> QED BY <2>1, <2>2 DEF PledgeInv
<1>5. TermInv /\ CastInv /\ CallInv
  BY <1>2, <1>3 DEF TermInv, CastInv, CallInv
<1>6. ElectInv
  BY <1>2, NoElectionFields DEF ElectInv, ElectOK
<1>7. WonInv
  BY <1>2 DEF WonInv, ElectedByMajority
<1> QED BY <1>1, <1>4, <1>5, <1>6, <1>7 DEF IInv

\* A step that changes nothing keeps the invariant.
LEMMA StutterInv ==
    ASSUME IInv, UNCHANGED vars
    PROVE  IInv'
<1>1. UNCHANGED <<term, role, steppingDown, lastVote, diskVote, lastApplied,
                  loaded, restore, elect, rpcs, highest, elections, restarts,
                  cast, early, won>>
  BY DEF vars, topoVars, diskVars, boundVars, startVars, historyVars
<1>2. TypeOK'
  BY <1>1 DEF IInv, TypeOK
<1>3. Quiet
  BY <1>1, TypesOfState DEF Quiet
<1> QED BY <1>2, <1>3, QuietKeeps

\* Every step keeps the invariant.
LEMMA StepInv ==
    ASSUME IInv, [Next]_vars
    PROVE  IInv'
<1>1. CASE UNCHANGED vars
  BY <1>1, StutterInv
<1>2. ASSUME NEW n \in Nodes, Candidate(n) PROVE IInv'
  <2>1. ASSUME NEW primary \in KnownPrimaries(n) \cup {None},
               StartElection(n, primary)
        PROVE  IInv'
    <3>1. primary \in Nodes \cup {None}
      BY DEF KnownPrimaries, IInv, TypeOK, Wins
    <3> QED BY <2>1, <3>1, StartElectionKeeps
  <2> QED BY <1>2, <2>1, RequestFailsKeeps, OnDryRunCompleteKeeps,
             WriteLastVoteKeeps, OnVoteRequestCompleteKeeps, WinElectionKeeps,
             RunnerAbortsKeeps
      DEF Candidate, Callback
<1>3. ASSUME NEW n \in Nodes, Server(n) PROVE IInv'
  BY <1>3, LearnTermKeeps, ApplyOplogKeeps, RestartKeeps,
     FinishLoadLocalConfigKeeps DEF Server
<1>4. ASSUME NEW r \in rpcs, Call(r) PROVE IInv'
  BY <1>4, UpdateTermForRequestKeeps, GrantDryRunVoteKeeps, GrantVoteKeeps,
     RefuseVoteKeeps, StoreVoteKeeps DEF Call
<1> QED BY <1>1, <1>2, <1>3, <1>4, LeaderKeeps DEF Next

\* IInv is an invariant of elections.
THEOREM Invariance ==
    Spec => []IInv
<1>1. Init => IInv
  BY InitInv
<1>2. IInv /\ [Next]_vars => IInv'
  BY StepInv
<1> QED BY <1>1, <1>2, PTL DEF Spec

\* Every variable keeps its type: terms and election ids stay within bounds,
\* and a call names the members and the election it belongs to.
THEOREM TypeCorrect ==
    Spec => []TypeOK
<1>1. IInv => TypeOK
  BY DEF IInv
<1> QED BY <1>1, Invariance, PTL

\* No member answers for two votes in one term, through any number of
\* crashes, unless it voted out of turn in that term or a later one:
\* processReplSetRequestVotes, voteForMyselfV1 and the last vote document
\* keep the other votes of a member apart.
THEOREM VotesOnce ==
    Spec => []VotedOncePerTerm
<1>1. ASSUME IInv PROVE VotedOncePerTerm
  <2> SUFFICES ASSUME NEW v \in cast, NEW w \in cast,
                      v.voter = w.voter, v.term = w.term,
                      ~Early(v.voter, v.term)
               PROVE  v = w
    BY DEF VotedOncePerTerm
  <2>1. /\ v = [voter |-> v.voter, term |-> v.term, cand |-> v.cand]
        /\ w = [voter |-> v.voter, term |-> v.term, cand |-> w.cand]
        /\ v.voter \in Nodes /\ v.term \in Terms
        /\ v.cand \in Candidates /\ w.cand \in Candidates
    BY <1>1 DEF IInv, TypeOK, Candidates
  <2>2. Pledged(v.voter, v.term, v.cand) /\ Pledged(v.voter, v.term, w.cand)
    BY <2>1 DEF Pledged
  <2>3. v.cand = w.cand
    BY <1>1, <2>1, <2>2 DEF IInv, PledgeInv
  <2> QED BY <2>1, <2>3
<1>2. IInv => VotedOncePerTerm
  BY <1>1
<1> QED BY <1>2, Invariance, PTL

\* A vote that was answered for is not forgotten: it is on disk before the
\* answer, and is read back before the member votes again.
THEOREM VotesAreRemembered ==
    Spec => []VotesRemembered
<1>1. ASSUME IInv PROVE VotesRemembered
  <2> SUFFICES ASSUME NEW v \in cast
               PROVE  /\ diskVote[v.voter].term >= v.term
                      /\ \/ /\ lastVote[v.voter].term >= v.term
                            /\ loaded[v.voter] => term[v.voter] >= v.term
                         \/ Early(v.voter, v.term)
    BY DEF VotesRemembered
  <2>1. /\ v = [voter |-> v.voter, term |-> v.term, cand |-> v.cand]
        /\ v.voter \in Nodes /\ v.term \in Terms /\ v.cand \in Candidates
    BY <1>1 DEF IInv, TypeOK, Candidates
  <2>2. /\ v.term \in Nat /\ diskVote[v.voter].term \in Nat
        /\ lastVote[v.voter].term \in Nat /\ term[v.voter] \in Nat
        /\ lastVote[v.voter].term \in Terms
    BY <1>1, <2>1, TypesOfState DEF TypeOK, Votes
  <2>3. v.term <= diskVote[v.voter].term
    BY <1>1 DEF IInv, CastInv
  <2>4. v.term <= lastVote[v.voter].term \/ Early(v.voter, v.term)
    <3>1. Pledged(v.voter, v.term, v.cand)
      BY <2>1 DEF Pledged
    <3> QED BY <1>1, <2>1, <3>1 DEF IInv, PledgeInv
  <2>5. \/ lastVote[v.voter].term <= term[v.voter]
        \/ ~loaded[v.voter]
        \/ Early(v.voter, lastVote[v.voter].term)
    BY <1>1, <2>1 DEF IInv, TermInv
  <2>6. v.term <= lastVote[v.voter].term
        /\ Early(v.voter, lastVote[v.voter].term) => Early(v.voter, v.term)
    BY <2>1, <2>2, EarlyFacts
  <2> QED BY <2>2, <2>3, <2>4, <2>5, <2>6
<1>2. IInv => VotesRemembered
  BY <1>1
<1> QED BY <1>2, Invariance, PTL

\* The votes of a member stand: it gives one in a term and does not forget
\* it, but for the terms up to that of a vote out of turn.
THEOREM VotesAreKept ==
    Spec => []VotesStand
<1>1. VotedOncePerTerm /\ VotesRemembered => VotesStand
  BY DEF VotesStand
<1> QED BY <1>1, VotesOnce, VotesAreRemembered, PTL

\* Whoever makes an election id was voted for by a majority, in the term of
\* the id or in the term before it that the member was elected in.
THEOREM LeadersAreElected ==
    Spec => []ElectedByMajority
<1>1. IInv => ElectedByMajority
  BY DEF IInv, WonInv
<1> QED BY <1>1, Invariance, PTL

\* Election safety: the election of a term has one winner, unless a member
\* that both majorities share voted out of turn in that term or a later one.
THEOREM ElectionSafety ==
    Spec => []OneLeaderPerTerm
<1>1. ASSUME TypeOK, VotedOncePerTerm, ElectedByMajority
      PROVE  OneLeaderPerTerm
  <2> SUFFICES ASSUME NEW v \in won, NEW w \in won, v.elected = w.elected,
                      v.node # w.node
               PROVE  \E n \in Voters(v.node, v.elected) \cap
                               Voters(w.node, w.elected) :
                          Early(n, v.elected)
    BY DEF OneLeaderPerTerm
  <2>2. PICK n : n \in Voters(v.node, v.elected) \cap Voters(w.node, w.elected)
    <3>1. /\ Voters(v.node, v.elected) \subseteq Nodes
          /\ Voters(w.node, w.elected) \subseteq Nodes
      BY DEF Voters
    <3>2. /\ Cardinality(Voters(v.node, v.elected)) >= Majority
          /\ Cardinality(Voters(w.node, w.elected)) >= Majority
      BY <1>1 DEF ElectedByMajority
    <3> QED BY <3>1, <3>2, MajoritiesMeet
  <2> DEFINE x == [voter |-> n, term |-> v.elected, cand |-> v.node]
             y == [voter |-> n, term |-> v.elected, cand |-> w.node]
  <2>3. x \in cast /\ y \in cast
    BY <2>2 DEF Voters
  <2>4. /\ x.voter = n /\ y.voter = n /\ x.cand = v.node /\ y.cand = w.node
        /\ x.term = v.elected /\ y.term = v.elected
    OBVIOUS
  <2> HIDE DEF x, y
  <2>5. x # y
    BY <2>4
  <2>6. Early(x.voter, x.term)
    BY <1>1, <2>3, <2>4, <2>5 DEF VotedOncePerTerm
  <2> QED BY <2>2, <2>4, <2>6
<1>2. TypeOK /\ VotedOncePerTerm /\ ElectedByMajority => OneLeaderPerTerm
  BY <1>1
<1> QED BY <1>2, TypeCorrect, VotesOnce, LeadersAreElected, PTL
=============================================================================
