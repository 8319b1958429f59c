------------------------- MODULE CommitPointSafety -------------------------
(***************************************************************************)
(* Proofs about CommitPoint, second part: what is committed survives and is *)
(* one log, an acknowledged write is committed, and, in a set of up to four *)
(* members, rollback stays behind the commit point and snapshots are        *)
(* committed.                                                               *)
(*                                                                         *)
(* The fourth layer, ReportInv, is about the positions that a primary knows *)
(* of.  They are true when they are reported and may be stale later: a      *)
(* member rolls back once there is a leader of a later term.  What saves    *)
(* the primary is that then a majority has voted in a later term and will   *)
(* not report any more (Shut), so that a stale position never completes a   *)
(* majority.  The fifth, CommitInv, says that every committed entry is in   *)
(* every oplog with a chosen one: an entry that a majority keeps, without   *)
(* votes for anybody later that lacks it, and that everybody later has.     *)
(* The sixth says that commit points are chosen, and the seventh that the   *)
(* oplog of a member leads to the commit point it knows of.                 *)
(*                                                                         *)
(* Every theorem here assumes of elections what Vote, as one step, does:    *)
(* nobody votes out of turn, and a winner leads in the term of its votes.   *)
(* The module Election shows what the code allows beyond that.              *)
(***************************************************************************)
EXTENDS CommitPointProofs

-----------------------------------------------------------------------------
(* The fourth layer: what a primary knows of the positions of others *)

\* Those that have voted in a later term and are not known to n to have p.
Shut(n, p) == {v \in Nodes : lastVote[v] > term[n] /\ ~AtMost(p, memberData[n][v])}

\* Above every optime of the term of n.
Beyond(n) == <<term[n] + 1, 0>>

\* The entries that n has written in its term.
Own(n, p) == p \in OpTimes /\ p[1] = term[n] /\ Has(log[n], p)

\* What a leader knows of the entries of its term is true of its own oplog.
Reports ==
    \A n, v \in Nodes :
        /\ ~Leader(n) => memberData[n][v] = Null
        /\ Leader(n) /\ memberData[n][v][1] = term[n] => Has(log[n], memberData[n][v])

\* A leader that is not the last one can commit nothing of later terms.
Overtaken ==
    \A n \in Nodes : MayCommit(n) =>
        ((\E v \in Nodes : memberData[n][v][1] > term[n] \/ LaterThan(v, term[n]))
            => IsMajority(Shut(n, Beyond(n))))

\* Who has reported an entry of n still has it, or n can commit it no more.
AckInv ==
    \A n \in Nodes : MayCommit(n) => \A p \in OpTimes, v \in Nodes :
        Own(n, p) /\ v # n /\ AtMost(p, memberData[n][v]) =>
            \/ p[2] <= durable[v] /\ Has(log[v], p)
            \/ IsMajority(Shut(n, p))

\* Whoever is later than n has an entry of n, or n can commit it no more.
LeaderComplete ==
    \A n \in Nodes : MayCommit(n) => \A p \in OpTimes, c \in Nodes :
        Own(n, p) /\ LaterThan(c, term[n]) =>
            Has(log[c], p) \/ IsMajority(Shut(n, p))

\* So does a candidate of a later term with the vote of one that has reported it.
VoteAck ==
    \A n \in Nodes : MayCommit(n) => \A p \in OpTimes, c \in Nodes, v \in Nodes :
        /\ Own(n, p) /\ Candidate(c) /\ term[c] > term[n]
        /\ v \in elect[c].votes /\ AtMost(p, memberData[n][v])
        => Has(log[c], p) \/ IsMajority(Shut(n, p))

\* What the positions that a primary knows of keep.
ReportInv == Reports /\ Overtaken /\ AckInv /\ LeaderComplete /\ VoteAck

\* A step in which no position is recorded and nobody votes.
Quiet ==
    \A n \in Nodes :
        /\ MayCommit(n)' => /\ MayCommit(n) /\ term'[n] = term[n]
                            /\ memberData'[n] = memberData[n]
        /\ \/ memberData'[n] = memberData[n] /\ (Leader(n)' <=> Leader(n))
           \/ ~Leader(n)' /\ \A v \in Nodes : memberData'[n][v] = Null

\* Every step is quiet, or records a position, or is part of an election.
LEMMA QuietSteps ==
    ASSUME BaseInv, [Next]_vars
    PROVE  \/ Quiet
           \/ \E n, m \in Nodes : RecordPosition(n, m)
           \/ \E n \in Nodes : StartElection(n)
           \/ \E v, n \in Nodes : Vote(v, n)
<1>1. /\ role \in [Nodes -> Roles] /\ steppingDown \in [Nodes -> BOOLEAN]
      /\ memberData \in [Nodes -> [Nodes -> OpTimes]] /\ term \in [Nodes -> Terms]
  BY DEF BaseInv, TypeOK
<1>2. ASSUME memberData' = memberData, role' = role, steppingDown' = steppingDown,
             term' = term
      PROVE  Quiet
  BY <1>2 DEF Quiet, MayCommit, Leader
<1>3. ASSUME NEW n \in Nodes, FinishStepDown(n) PROVE Quiet
  <2>1. /\ role' = [role EXCEPT ![n] = "follower"] /\ term' = term
        /\ steppingDown' = [steppingDown EXCEPT ![n] = FALSE]
        /\ memberData' = [memberData EXCEPT ![n] = [m \in Nodes |-> Null]]
    BY <1>3 DEF FinishStepDown
  <2> QED BY <1>1, <2>1 DEF Quiet, MayCommit, Leader
<1>4. ASSUME NEW n \in Nodes, NEW t \in Terms, LearnTerm(n, t), role' = role,
             memberData' = memberData
      PROVE  Quiet
  BY <1>1, <1>4 DEF LearnTerm, Quiet, MayCommit, Leader
<1>5. ASSUME NEW n \in Nodes, SignalDrainComplete(n) PROVE Quiet
  <2>1. /\ role[n] = "draining" /\ role' = [role EXCEPT ![n] = "primary"]
        /\ UNCHANGED <<term, steppingDown, memberData>>
    BY <1>5 DEF SignalDrainComplete
  <2> QED BY <1>1, <2>1 DEF Quiet, MayCommit, Leader
<1>6. ASSUME NEW n \in Nodes, NEW i \in 0 .. MaxLog, Crash(n, i) PROVE Quiet
  <2>1. /\ role' = [role EXCEPT ![n] = "follower"]
        /\ steppingDown' = [steppingDown EXCEPT ![n] = FALSE]
        /\ memberData' = [memberData EXCEPT ![n] = [m \in Nodes |-> Null]]
        /\ \A m \in Nodes \ {n} : term'[m] = term[m]
    BY <1>1, <1>6 DEF Crash
  <2> QED BY <1>1, <2>1 DEF Quiet, MayCommit, Leader
<1>7. CASE UNCHANGED vars
  BY <1>2, <1>7 DEF vars, electVars
<1>8. CASE Next
  <2>1. ASSUME NEW n \in Nodes, ClientWrite(n) PROVE Quiet
    BY <1>2, <2>1 DEF ClientWrite, electVars
  <2>2. ASSUME NEW n \in Nodes, Flush(n) PROVE Quiet
    BY <1>2, <2>2 DEF Flush, electVars
  <2>3. ASSUME NEW n \in Nodes, NEW s \in Nodes, NEW k \in 0 .. MaxBatch, Fetch(n, s, k)
        PROVE  Quiet
    BY <1>1, <1>4, <2>3 DEF Fetch
  <2>4. ASSUME NEW n \in Nodes, NEW m \in Nodes, UpdateTerm(n, m) PROVE Quiet
    BY <1>1, <1>4, <2>4 DEF UpdateTerm
  <2>5. ASSUME NEW n \in Nodes, NEW s \in Nodes, StartRollback(n, s) PROVE Quiet
    BY <1>2, <2>5 DEF StartRollback
  <2>6. ASSUME NEW n \in Nodes, Rollback(n) PROVE Quiet
    BY <1>2, <2>6 DEF Rollback, electVars
  <2>7. ASSUME NEW n \in Nodes, RollbackFails(n) PROVE Quiet
    BY <1>2, <2>7 DEF RollbackFails, electVars
  <2> QED BY <1>3, <1>5, <1>6, <1>8, <2>1, <2>2, <2>3, <2>4, <2>5, <2>6, <2>7 DEF Next
<1> QED BY <1>7, <1>8

\* A leader that may commit is in the same position before and after the step,
\* but for votes in later terms.
Steady(n) ==
    /\ MayCommit(n) /\ term'[n] = term[n] /\ Extends(n)
    /\ memberData'[n] = memberData[n] /\ \A v \in Nodes : lastVote[v] <= lastVote'[v]

\* While n leads, those that are shut to it stay so.
LEMMA SteadyShut ==
    ASSUME Types, Types', NEW n \in Nodes, Steady(n), NEW p, IsMajority(Shut(n, p))
    PROVE  IsMajority(Shut(n, p)')
<1>1. Shut(n, p) \subseteq Shut(n, p)' /\ Shut(n, p)' \in SUBSET Nodes
  BY DEF Shut, Steady, Types, Numbers
<1> QED BY <1>1, MajorityGrows

\* Those known to be in no later term do not have an entry that n has just written.
LEMMA NewEntryShut ==
    ASSUME Types, Types', Reports, NEW n \in Nodes, Steady(n), NEW p \in OpTimes, Own(n, p)',
           ~Has(log[n], p)
    PROVE  /\ Shut(n, Beyond(n)) \subseteq Shut(n, p)
           /\ \A v \in Nodes : AtMost(p, memberData[n][v]) => memberData[n][v][1] > term[n]
<1>1. p[1] = term[n] /\ Has(log'[n], p) /\ p[1] \in Nat /\ p[2] \in Nat /\ term[n] \in Nat
  BY OpTimeFields, Bounds DEF Own, Steady, Types, Numbers
<1>2. p[2] > Len(log[n]) /\ Len(log[n]) \in Nat
  BY <1>1 DEF Has, Steady, Extends, Types, Numbers
<1>3. ASSUME NEW v \in Nodes, memberData[n][v][1] = term[n] PROVE memberData[n][v][2] < p[2]
  <2>1. Has(log[n], memberData[n][v]) /\ memberData[n][v][2] \in Nat
    BY <1>3, OpTimeFields, Bounds DEF Reports, Steady, MayCommit, Types, Records
  <2> QED BY <1>1, <1>2, <2>1 DEF Has
<1>4. \A v \in Nodes : memberData[n][v][1] \in Nat /\ memberData[n][v][2] \in Nat
  BY OpTimeFields, Bounds DEF Types, Records
<1>5. ASSUME NEW v \in Nodes, AtMost(p, memberData[n][v]) PROVE memberData[n][v][1] > term[n]
  BY <1>1, <1>3, <1>4, <1>5 DEF AtMost
<1>6. ASSUME NEW v \in Shut(n, Beyond(n)) PROVE v \in Shut(n, p)
  <2>1. v \in Nodes /\ lastVote[v] > term[n] /\ ~(memberData[n][v][1] > term[n])
    BY <1>1, <1>4 DEF Shut, Beyond, AtMost
  <2> QED BY <1>5, <2>1 DEF Shut
<1> QED BY <1>5, <1>6

\* The three parts of what a step leaves of a steady leader's knowledge: of what
\* has been reported, ...
LEMMA SteadyAck ==
    ASSUME CoreInv, CoreInv', ReportInv, Persist, NEW n \in Nodes, Steady(n),
           NEW p \in OpTimes, Own(n, p)', NEW v \in Nodes, v # n,
           AtMost(p, memberData[n][v])
    PROVE  (p[2] <= durable'[v] /\ Has(log'[v], p)) \/ IsMajority(Shut(n, p)')
<1>1. Types /\ Types'
  BY TypesHold, PTL DEF CoreInv, BaseInv
<1>2. MayCommit(n) /\ term'[n] = term[n] /\ p[1] = term[n]
  BY DEF Steady, Own
<1>3. CASE Has(log[n], p)
  <2>1. Own(n, p)
    BY <1>2, <1>3 DEF Own
  <2>2. CASE IsMajority(Shut(n, p))
    BY <1>1, <2>2, SteadyShut
  <2>3. CASE p[2] <= durable[v] /\ Has(log[v], p)
    <3>1. CASE p[2] <= durable'[v] /\ Has(log'[v], p)
      BY <3>1
    <3>2. CASE \E s \in Nodes : /\ \E i \in 1 .. Len(log[s]) : log[s][i] > p[1]
                                /\ ~Has(log[s], p)
      <4>1. PICK s \in Nodes : LaterThan(s, term[n]) /\ ~Has(log[s], p)
        BY <1>2, <3>2 DEF LaterThan
      <4>2. IsMajority(Shut(n, p))
        BY <1>2, <2>1, <4>1 DEF ReportInv, LeaderComplete
      <4> QED BY <1>1, <4>2, SteadyShut
    <3> QED BY <2>3, <3>1, <3>2 DEF Persist
  <2> QED BY <1>2, <2>1, <2>2, <2>3 DEF ReportInv, AckInv
<1>4. CASE ~Has(log[n], p)
  <2>1. /\ Shut(n, Beyond(n)) \subseteq Shut(n, p)
        /\ memberData[n][v][1] > term[n]
    BY <1>1, <1>4, NewEntryShut DEF ReportInv
  <2>2. IsMajority(Shut(n, Beyond(n)))
    BY <1>2, <2>1 DEF ReportInv, Overtaken
  <2>3. IsMajority(Shut(n, p))
    BY <2>1, <2>2, MajorityGrows DEF Shut
  <2> QED BY <1>1, <2>3, SteadyShut
<1> QED BY <1>3, <1>4

\* ... of those that are later, ...
LEMMA SteadyLater ==
    ASSUME CoreInv, CoreInv', ReportInv, NEW n \in Nodes, Steady(n),
           NEW s \in Nodes, LaterThan(s, term[n])
    PROVE  /\ IsMajority(Shut(n, Beyond(n))')
           /\ \A p \in OpTimes : Own(n, p)' =>
                  Has(log[s], p) \/ IsMajority(Shut(n, p)')
<1>1. Types /\ Types'
  BY TypesHold, PTL DEF CoreInv, BaseInv
<1>2. MayCommit(n) /\ term'[n] = term[n]
  BY DEF Steady
<1>3. IsMajority(Shut(n, Beyond(n)))
  BY <1>2 DEF ReportInv, Overtaken
<1>4. IsMajority(Shut(n, Beyond(n))')
  <2>1. PICK b : b = Beyond(n)
    OBVIOUS
  <2>2. IsMajority(Shut(n, b)')
    BY <1>1, <1>3, <2>1, SteadyShut
  <2>3. Shut(n, b)' = Shut(n, Beyond(n))'
    BY <1>2, <2>1 DEF Shut, Beyond
  <2> QED BY <2>2, <2>3
<1>5. ASSUME NEW p \in OpTimes, Own(n, p)'
      PROVE  Has(log[s], p) \/ IsMajority(Shut(n, p)')
  <2>1. CASE Has(log[n], p)
    <3>1. Own(n, p)
      BY <1>2, <1>5, <2>1 DEF Own
    <3>2. Has(log[s], p) \/ IsMajority(Shut(n, p))
      BY <1>2, <3>1 DEF ReportInv, LeaderComplete
    <3> QED BY <1>1, <3>2, SteadyShut
  <2>2. CASE ~Has(log[n], p)
    <3>1. Shut(n, Beyond(n)) \subseteq Shut(n, p)
      BY <1>1, <1>5, <2>2, NewEntryShut DEF ReportInv
    <3>2. IsMajority(Shut(n, p))
      BY <1>3, <3>1, MajorityGrows DEF Shut
    <3> QED BY <1>1, <3>2, SteadyShut
  <2> QED BY <2>1, <2>2
<1> QED BY <1>4, <1>5

\* ... and of candidates.
LEMMA SteadyVoter ==
    ASSUME CoreInv, CoreInv', ReportInv, NEW n \in Nodes, Steady(n),
           NEW p \in OpTimes, Own(n, p)', NEW c \in Nodes, Candidate(c),
           term[c] > term[n], NEW v \in elect[c].votes, AtMost(p, memberData[n][v])
    PROVE  Has(log[c], p) \/ IsMajority(Shut(n, p)')
<1>1. Types /\ Types' /\ v \in Nodes
  <2>1. Types /\ Types'
    BY TypesHold, PTL DEF CoreInv, BaseInv
  <2> QED BY <2>1 DEF Types, Records
<1>2. MayCommit(n) /\ term'[n] = term[n]
  BY DEF Steady
<1>3. CASE Has(log[n], p)
  <2>1. Own(n, p)
    BY <1>2, <1>3 DEF Own
  <2>2. Has(log[c], p) \/ IsMajority(Shut(n, p))
    BY <1>1, <1>2, <2>1 DEF ReportInv, VoteAck
  <2> QED BY <1>1, <2>2, SteadyShut
<1>4. CASE ~Has(log[n], p)
  <2>1. /\ Shut(n, Beyond(n)) \subseteq Shut(n, p)
        /\ memberData[n][v][1] > term[n]
    BY <1>1, <1>4, NewEntryShut DEF ReportInv
  <2>2. IsMajority(Shut(n, Beyond(n)))
    BY <1>1, <1>2, <2>1 DEF ReportInv, Overtaken
  <2>3. IsMajority(Shut(n, p))
    BY <2>1, <2>2, MajorityGrows DEF Shut
  <2> QED BY <1>1, <2>3, SteadyShut
<1> QED BY <1>3, <1>4

\* What the fourth layer uses of a calm step.
LEMMA CalmFacts ==
    ASSUME CoreInv, CoreInv', CalmStep
    PROVE  /\ NoWinner /\ LogStep /\ Persist /\ \A p \in Nat \X Nat : Spread(p)
           /\ \A v \in Nodes : lastVote[v] <= lastVote'[v]
           /\ \A c \in Nodes : Candidate(c)' =>
                  Candidate(c) /\ elect'[c] = elect[c] /\ term'[c] = term[c] /\ Extends(c)
<1>1. NoWinner /\ LogStep /\ Persist
  BY DEF CalmStep, Calm, NoWinner
<1>2. \A p \in Nat \X Nat : Spread(p)
  BY <1>1, StepSpreads
<1>3. Types /\ lastVote' = lastVote
  BY TypesHold DEF CoreInv, BaseInv, CalmStep, Calm
<1>4. \A v \in Nodes : lastVote[v] <= lastVote'[v]
  BY <1>3 DEF Types, Numbers
<1> QED BY <1>1, <1>2, <1>4 DEF CalmStep, Calm, Candidate

\* An entry that a step extends an oplog after is kept.
LEMMA ExtendsHas ==
    ASSUME Types, Types', NEW c \in Nodes, Extends(c), NEW p, Has(log[c], p)
    PROVE  Has(log'[c], p)
BY DEF Has, Extends, Types, Numbers

\* A quiet step keeps the fourth layer but for the votes.
LEMMA SteadyReports ==
    ASSUME CoreInv, CoreInv', ReportInv, NoWinner, LogStep, Persist, Quiet,
           \A v \in Nodes : lastVote[v] <= lastVote'[v]
    PROVE  /\ Reports' /\ Overtaken' /\ AckInv' /\ LeaderComplete'
           /\ \A n \in Nodes : MayCommit(n)' => Steady(n)
<1>1. Types /\ Types'
  BY TypesHold, PTL DEF CoreInv, BaseInv
<1>2. \A p \in Nat \X Nat : Spread(p)
  BY StepSpreads
<1>3. ASSUME NEW n \in Nodes, MayCommit(n)' PROVE Steady(n)
  <2>1. Leader(n)'
    BY <1>3 DEF MayCommit
  <2> QED BY <1>3, <2>1 DEF Quiet, Steady, NoWinner
<1>4. Reports'
  <2> SUFFICES ASSUME NEW n \in Nodes, NEW v \in Nodes
               PROVE  Reports!(n, v)'
    BY DEF Reports
  <2>1. CASE ~Leader(n)' /\ memberData'[n][v] = Null
    BY <2>1
  <2>2. CASE memberData'[n] = memberData[n] /\ (Leader(n)' <=> Leader(n))
    <3>1. ~Leader(n)' => memberData'[n][v] = Null
      BY <2>2 DEF ReportInv, Reports
    <3>2. ASSUME Leader(n)', memberData'[n][v][1] = term'[n]
          PROVE  Has(log'[n], memberData'[n][v])
      <4>1. Leader(n) /\ term'[n] = term[n] /\ Extends(n)
        BY <3>2 DEF NoWinner
      <4>2. Has(log[n], memberData[n][v])
        BY <2>2, <3>2, <4>1 DEF ReportInv, Reports
      <4> QED BY <1>1, <2>2, <4>1, <4>2, ExtendsHas
    <3> QED BY <3>1, <3>2
  <2> QED BY <2>1, <2>2 DEF Quiet
<1>5. Overtaken'
  <2> SUFFICES ASSUME NEW n \in Nodes, MayCommit(n)', NEW v \in Nodes,
                      memberData'[n][v][1] > term'[n] \/ LaterThan(v, term[n])'
               PROVE  IsMajority(Shut(n, Beyond(n))')
    BY DEF Overtaken, IsMajority
  <2>1. Steady(n)
    BY <1>3
  <2>2. MayCommit(n) /\ term'[n] = term[n] /\ memberData'[n] = memberData[n]
    BY <2>1 DEF Steady
  <2>3. CASE memberData'[n][v][1] > term'[n]
    <3>1. IsMajority(Shut(n, Beyond(n)))
      BY <2>2, <2>3 DEF ReportInv, Overtaken
    <3>2. PICK b : b = Beyond(n)
      OBVIOUS
    <3>3. IsMajority(Shut(n, b)')
      BY <1>1, <2>1, <3>1, <3>2, SteadyShut
    <3>4. Shut(n, b)' = Shut(n, Beyond(n))'
      BY <2>2, <3>2 DEF Shut, Beyond
    <3> QED BY <3>3, <3>4
  <2>4. CASE LaterThan(v, term[n])'
    <3>1. PICK p : p = <<term[n], 0>>
      OBVIOUS
    <3>2. p \in Nat \X Nat /\ p[1] = term[n]
      BY <1>1, <3>1 DEF Types, Numbers
    <3>3. LaterThan(v, p[1])'
      BY <2>2, <2>4, <3>2 DEF LaterThan
    <3>4. PICK s \in Nodes : LaterThan(s, p[1])
      BY <1>2, <3>2, <3>3 DEF Spread
    <3> QED BY <2>1, <3>2, <3>4, SteadyLater
  <2> QED BY <2>3, <2>4
<1>6. AckInv'
  <2> SUFFICES ASSUME NEW n \in Nodes, MayCommit(n)', NEW p \in OpTimes, NEW v \in Nodes,
                      Own(n, p)', v # n, AtMost(p, memberData'[n][v])
               PROVE  (p[2] <= durable'[v] /\ Has(log'[v], p)) \/ IsMajority(Shut(n, p)')
    BY DEF AckInv, IsMajority, Has
  <2>1. Steady(n) /\ memberData'[n] = memberData[n]
    BY <1>3 DEF Steady
  <2> QED BY <2>1, SteadyAck
<1>7. LeaderComplete'
  <2> SUFFICES ASSUME NEW n \in Nodes, MayCommit(n)', NEW p \in OpTimes, NEW c \in Nodes,
                      Own(n, p)', LaterThan(c, term[n])'
               PROVE  Has(log'[c], p) \/ IsMajority(Shut(n, p)')
    BY DEF LeaderComplete, IsMajority, Has
  <2>1. Steady(n) /\ term'[n] = term[n] /\ p[1] = term[n] /\ p \in Nat \X Nat
    BY <1>3, OpTimeFields DEF Steady, Own
  <2>2. LaterThan(c, p[1])'
    BY <2>1 DEF LaterThan
  <2>3. PICK s \in Nodes : LaterThan(s, p[1]) /\ (Has(log[s], p) => Has(log'[c], p))
    BY <1>2, <2>1, <2>2 DEF Spread
  <2> QED BY <2>1, <2>3, SteadyLater
<1> QED BY <1>3, <1>4, <1>5, <1>6, <1>7

\* A quiet and calm step keeps the fourth layer.
LEMMA QuietReports ==
    ASSUME CoreInv, CoreInv', CalmStep, Quiet, ReportInv
    PROVE  ReportInv'
<1>1. Types /\ Types'
  BY TypesHold, PTL DEF CoreInv, BaseInv
<1>2. /\ NoWinner /\ LogStep /\ Persist
      /\ \A v \in Nodes : lastVote[v] <= lastVote'[v]
      /\ \A c \in Nodes : Candidate(c)' =>
             Candidate(c) /\ elect'[c] = elect[c] /\ term'[c] = term[c] /\ Extends(c)
  BY CalmFacts
<1>3. /\ Reports' /\ Overtaken' /\ AckInv' /\ LeaderComplete'
      /\ \A n \in Nodes : MayCommit(n)' => Steady(n)
  BY <1>2, SteadyReports
<1>4. VoteAck'
  <2> SUFFICES ASSUME NEW n \in Nodes, MayCommit(n)', NEW p \in OpTimes, NEW c \in Nodes,
                      NEW v \in Nodes, Own(n, p)', Candidate(c)', term'[c] > term'[n],
                      v \in elect'[c].votes, AtMost(p, memberData'[n][v])
               PROVE  Has(log'[c], p) \/ IsMajority(Shut(n, p)')
    BY DEF VoteAck, IsMajority, Has
  <2>1. Steady(n) /\ term'[n] = term[n] /\ memberData'[n] = memberData[n]
    BY <1>3 DEF Steady
  <2>2. Candidate(c) /\ elect'[c] = elect[c] /\ term'[c] = term[c] /\ Extends(c)
    BY <1>2
  <2>3. Has(log[c], p) \/ IsMajority(Shut(n, p)')
    BY <2>1, <2>2, SteadyVoter
  <2> QED BY <1>1, <2>2, <2>3, ExtendsHas
<1> QED BY <1>3, <1>4 DEF ReportInv

\* What RecordPosition changes, member by member.
LEMMA RecordFacts ==
    ASSUME BaseInv, NEW n \in Nodes, NEW m \in Nodes, RecordPosition(n, m)
    PROVE  /\ Leader(n) /\ n # m /\ (term[m] <= term[n] \/ steppingDown[n])
           /\ memberData'[n][m] = LastOf(log[m]) /\ durable'[m] = Len(log[m])
           /\ \A v \in Nodes \ {m} : /\ memberData'[n][v] = memberData[n][v]
                                     /\ durable'[v] = durable[v]
           /\ \A k \in Nodes \ {n} : memberData'[k] = memberData[k]
           /\ UNCHANGED <<electVars, log, rollback>>
<1>1. /\ memberData \in [Nodes -> [Nodes -> OpTimes]] /\ durable \in [Nodes -> 0 .. MaxLog]
  BY DEF BaseInv, TypeOK
<1>2. /\ memberData' = [memberData EXCEPT ![n][m] = LastOf(log[m])]
      /\ durable' = [durable EXCEPT ![m] = Len(log[m])]
  BY DEF RecordPosition, ReportFlushes, lastApplied
<1>3. /\ memberData'[n][m] = LastOf(log[m])
      /\ \A v \in Nodes \ {m} : memberData'[n][v] = memberData[n][v]
      /\ \A k \in Nodes \ {n} : memberData'[k] = memberData[k]
  BY <1>1, <1>2
<1>4. durable'[m] = Len(log[m]) /\ \A v \in Nodes \ {m} : durable'[v] = durable[v]
  BY <1>1, <1>2
<1> QED BY <1>3, <1>4 DEF RecordPosition

\* RecordPosition keeps the fourth layer.
LEMMA RecordReports ==
    ASSUME CoreInv, CoreInv', ReportInv, NEW n \in Nodes, NEW m \in Nodes,
           RecordPosition(n, m)
    PROVE  ReportInv'
<1> DEFINE last == LastOf(log[m])
           L == Len(log[m])
<1>1. Types /\ Types' /\ BaseInv /\ TermInv /\ VoteInv /\ LogInv /\ BaseInv'
  <2>1. Types /\ Types'
    BY TypesHold, PTL DEF CoreInv, BaseInv
  <2> QED BY <2>1 DEF CoreInv, BaseInv
<1>2. /\ Leader(n) /\ n # m /\ (term[m] <= term[n] \/ steppingDown[n])
      /\ memberData'[n][m] = last /\ durable'[m] = L
      /\ \A v \in Nodes \ {m} : /\ memberData'[n][v] = memberData[n][v]
                                /\ durable'[v] = durable[v]
      /\ \A k \in Nodes \ {n} : memberData'[k] = memberData[k]
      /\ term' = term /\ lastVote' = lastVote /\ role' = role /\ log' = log
      /\ steppingDown' = steppingDown /\ elect' = elect
  BY <1>1, RecordFacts DEF electVars
<1>3. CalmStep
  BY <1>1, CalmPositions
<1>4. Persist /\ \A v \in Nodes : lastVote[v] <= lastVote'[v] /\ Extends(v)
  BY <1>1, <1>2, <1>3 DEF CalmStep, Extends, Types, Numbers
<1>5. /\ \A k \in Nodes : (Leader(k)' <=> Leader(k)) /\ (MayCommit(k)' <=> MayCommit(k))
      /\ \A c \in Nodes : Candidate(c)' <=> Candidate(c)
      /\ \A c \in Nodes, k \in Nodes : LaterThan(c, term[k])' <=> LaterThan(c, term[k])
      /\ \A k \in Nodes : \A p : (Own(k, p)' <=> Own(k, p)) /\ (Own(k, p) => Has(log[k], p))
  BY <1>2 DEF Leader, MayCommit, Candidate, LaterThan, Own, Has
<1>6. ASSUME NEW k \in Nodes, MayCommit(k), k # n PROVE Steady(k)
  BY <1>2, <1>4, <1>6 DEF Steady
<1>7. last \in OpTimes /\ L \in Nat /\ last[2] = L /\ last[1] \in Nat
      /\ (L # 0 => last[1] = log[m][L] /\ L \in 1 .. L)
      /\ (L = 0 => last[1] = 0)
  <2>1. last \in OpTimes /\ last[2] = L /\ (L # 0 => last[1] = log[m][L]) /\ L \in Nat
        /\ (L = 0 => last = Null)
    BY <1>1, LastFacts DEF Types, Records, Numbers
  <2>2. last[1] \in Nat /\ (last = Null => last[1] = 0)
    BY <2>1, OpTimeFields, Bounds
  <2> QED BY <2>1, <2>2
<1>8. last[1] = term[n] => L \in 1 .. Len(log[n]) /\ log[n][L] = term[n] /\ Has(log[n], last)
  <2>1. ASSUME last[1] = term[n]
        PROVE  L \in 1 .. Len(log[n]) /\ log[n][L] = term[n] /\ Has(log[n], last)
    <3>1. L # 0 /\ term[n] \in Nat
      BY <1>1, <1>7, <2>1 DEF TermInv, Types, Numbers
    <3>2. log[m][L] = term[n] /\ L \in 1 .. Len(log[m])
      BY <1>7, <2>1, <3>1
    <3>3. L <= Len(log[n]) /\ log[n][L] = term[n]
      BY <1>1, <1>2, <3>2 DEF Leader, LogInv, Fresh, HasAll
    <3>4. L \in 1 .. Len(log[n])
      BY <1>1, <1>7, <3>1, <3>3 DEF Types, Numbers
    <3> QED BY <1>7, <2>1, <3>3, <3>4 DEF Has
  <2> QED BY <2>1
<1>9. last[1] > term[n] => LaterThan(m, term[n])
  <2>1. ASSUME last[1] > term[n] PROVE LaterThan(m, term[n])
    <3>1. L # 0
      BY <1>1, <1>7, <2>1 DEF Types, Numbers
    <3>2. L \in 1 .. Len(log[m]) /\ log[m][L] > term[n]
      BY <1>7, <2>1, <3>1
    <3> QED BY <3>2 DEF LaterThan
  <2> QED BY <2>1
<1> HIDE DEF last
<1>10. ASSUME MayCommit(n)
       PROVE  term[m] <= term[n] /\ lastVote[m] <= term[n] /\ lastVote[m] \in Nat
  BY <1>1, <1>2, <1>10 DEF MayCommit, TermInv, Types, Numbers
<1>11. ASSUME MayCommit(n), NEW p, IsMajority(Shut(n, p))
       PROVE  IsMajority(Shut(n, p)')
  <2>1. m \notin Shut(n, p)
    BY <1>1, <1>10, <1>11 DEF Shut, Types, Numbers
  <2>2. ASSUME NEW v \in Shut(n, p) PROVE v \in Shut(n, p)'
    <3>1. v \in Nodes /\ v # m /\ lastVote[v] > term[n] /\ ~AtMost(p, memberData[n][v])
      BY <2>1 DEF Shut
    <3>2. memberData'[n][v] = memberData[n][v]
      BY <1>2, <3>1
    <3>3. lastVote'[v] > term'[n] /\ ~AtMost(p, memberData'[n][v])
      BY <1>2, <3>1, <3>2
    <3> QED BY <3>1, <3>3 DEF Shut
  <2>3. Shut(n, p)' \in SUBSET Nodes
    BY DEF Shut
  <2> QED BY <1>11, <2>2, <2>3, MajorityGrows
<1>12. Reports'
  <2> SUFFICES ASSUME NEW k \in Nodes, NEW v \in Nodes
               PROVE  Reports!(k, v)'
    BY DEF Reports
  <2>1. CASE k = n /\ v = m
    BY <1>2, <1>5, <1>8, <2>1
  <2>2. CASE ~(k = n /\ v = m)
    <3>1. memberData'[k][v] = memberData[k][v]
      BY <1>2, <2>2
    <3> QED BY <1>2, <1>5, <3>1 DEF ReportInv, Reports
  <2> QED BY <2>1, <2>2
<1>13. Overtaken'
  <2> SUFFICES ASSUME NEW k \in Nodes, MayCommit(k), NEW v \in Nodes,
                      memberData'[k][v][1] > term[k] \/ LaterThan(v, term[k])
               PROVE  IsMajority(Shut(k, Beyond(k))')
    BY <1>2, <1>5 DEF Overtaken, IsMajority
  <2>1. IsMajority(Shut(k, Beyond(k)))
    <3>1. CASE LaterThan(v, term[k])
      BY <3>1 DEF ReportInv, Overtaken
    <3>2. CASE memberData'[k][v][1] > term[k] /\ k = n /\ v = m
      <4>1. LaterThan(m, term[n])
        BY <1>2, <1>9, <3>2
      <4> QED BY <3>2, <4>1 DEF ReportInv, Overtaken
    <3>3. CASE memberData'[k][v][1] > term[k] /\ ~(k = n /\ v = m)
      <4>1. memberData'[k][v] = memberData[k][v]
        BY <1>2, <3>3
      <4> QED BY <3>3, <4>1 DEF ReportInv, Overtaken
    <3> QED BY <3>1, <3>2, <3>3
  <2>2. PICK b : b = Beyond(k)
    OBVIOUS
  <2>3. Shut(k, b)' = Shut(k, Beyond(k))'
    BY <1>2, <2>2 DEF Shut, Beyond
  <2>4. IsMajority(Shut(k, b)')
    <3>1. CASE k = n
      BY <1>11, <2>1, <2>2, <3>1
    <3>2. CASE k # n
      BY <1>1, <1>6, <2>1, <2>2, <3>2, SteadyShut
    <3> QED BY <3>1, <3>2
  <2> QED BY <2>3, <2>4
<1>14. AckInv'
  <2> SUFFICES ASSUME NEW k \in Nodes, MayCommit(k), NEW p \in OpTimes, NEW v \in Nodes,
                      Own(k, p)', v # k, AtMost(p, memberData'[k][v])
               PROVE  (p[2] <= durable'[v] /\ Has(log'[v], p)) \/ IsMajority(Shut(k, p)')
    BY <1>5 DEF AckInv, IsMajority, Has
  <2>1. CASE k # n
    <3>1. memberData'[k] = memberData[k]
      BY <1>2, <2>1
    <3> QED BY <1>4, <1>6, <2>1, <3>1, SteadyAck
  <2>2. Own(k, p) /\ p[1] = term[k] /\ Has(log[k], p)
    BY <1>5 DEF Own
  <2>3. p[1] \in Nat /\ p[2] \in Nat
    BY OpTimeFields, Bounds
  <2>4. CASE k = n /\ v # m
    <3>1. memberData'[k][v] = memberData[k][v] /\ durable'[v] = durable[v] /\ log'[v] = log[v]
      BY <1>2, <2>4
    <3>2. (p[2] <= durable[v] /\ Has(log[v], p)) \/ IsMajority(Shut(n, p))
      BY <2>2, <2>4, <3>1 DEF ReportInv, AckInv
    <3> QED BY <1>11, <2>4, <3>1, <3>2
  <2>5. CASE k = n /\ v = m
    <3>1. AtMost(p, last) /\ durable'[v] = L /\ log'[v] = log[m]
      BY <1>2, <2>5
    <3>2. CASE last[1] > term[n]
      <4>1. LaterThan(m, term[n])
        BY <1>9, <3>2
      <4>2. Has(log[m], p) \/ IsMajority(Shut(n, p))
        BY <2>2, <2>5, <4>1 DEF ReportInv, LeaderComplete
      <4>3. Has(log[m], p) => p[2] <= L
        BY <1>7 DEF Has
      <4> QED BY <1>11, <2>5, <3>1, <4>2, <4>3
    <3>3. CASE ~(last[1] > term[n])
      <4>1. last[1] = term[n] /\ p[2] <= L
        BY <1>1, <1>7, <2>2, <2>3, <2>5, <3>1, <3>3 DEF AtMost, Types, Numbers
      <4>2. L \in 1 .. Len(log[n]) /\ log[n][L] = term[n] /\ L # 0
        BY <1>7, <1>8, <4>1
      <4>3. log[m][L] = term[n] /\ L \in 1 .. L
        BY <1>7, <4>1, <4>2
      <4>4. p[2] \in 1 .. L
        BY <1>7, <2>2, <2>3, <4>1 DEF Has
      <4>5. log[n][p[2]] = log[m][p[2]]
        <5>1. L \in 1 .. Len(log[m]) /\ L <= L /\ log[m][L] = log[n][L]
          BY <1>7, <4>2, <4>3
        <5> QED BY <1>1, <4>2, <4>4, <5>1 DEF LogInv, Matching
      <4>6. Has(log[m], p)
        BY <2>2, <2>5, <4>4, <4>5 DEF Has
      <4> QED BY <3>1, <4>1, <4>6
    <3> QED BY <3>2, <3>3
  <2> QED BY <2>1, <2>4, <2>5
<1>15. LeaderComplete'
  <2> SUFFICES ASSUME NEW k \in Nodes, MayCommit(k), NEW p \in OpTimes, NEW c \in Nodes,
                      Own(k, p), LaterThan(c, term[k])
               PROVE  Has(log[c], p) \/ IsMajority(Shut(k, p)')
    BY <1>2, <1>5 DEF LeaderComplete, IsMajority, Has
  <2>1. Has(log[c], p) \/ IsMajority(Shut(k, p))
    BY DEF ReportInv, LeaderComplete
  <2> QED BY <1>1, <1>6, <1>11, <2>1, SteadyShut
<1>16. VoteAck'
  <2> SUFFICES ASSUME NEW k \in Nodes, MayCommit(k), NEW p \in OpTimes, NEW c \in Nodes,
                      NEW v \in Nodes, Own(k, p), Candidate(c), term[c] > term[k],
                      v \in elect[c].votes, AtMost(p, memberData'[k][v])
               PROVE  Has(log[c], p) \/ IsMajority(Shut(k, p)')
    BY <1>2, <1>5 DEF VoteAck, IsMajority, Has
  <2>1. lastVote[v] >= term[c]
    BY <1>1 DEF VoteInv, CandidateInv
  <2>2. ~(k = n /\ v = m)
    <3>1. ASSUME k = n, v = m PROVE FALSE
      <4>1. lastVote[v] <= term[k]
        BY <1>10, <3>1
      <4> QED BY <1>1, <2>1, <4>1 DEF Types, Numbers
    <3> QED BY <3>1
  <2>3. memberData'[k][v] = memberData[k][v]
    BY <1>2, <2>2
  <2>4. Has(log[c], p) \/ IsMajority(Shut(k, p))
    BY <2>3 DEF ReportInv, VoteAck
  <2> QED BY <1>1, <1>6, <1>11, <2>4, SteadyShut
<1> QED BY <1>12, <1>13, <1>14, <1>15, <1>16 DEF ReportInv

\* StartElection keeps the fourth layer.
LEMMA StartElectionReports ==
    ASSUME CoreInv, CoreInv', LogStep, Persist, ReportInv, NEW n \in Nodes,
           StartElection(n)
    PROVE  ReportInv'
<1>1. Types /\ Types' /\ TermInv
  <2>1. Types /\ Types'
    BY TypesHold, PTL DEF CoreInv, BaseInv
  <2> QED BY <2>1 DEF CoreInv, BaseInv
<1>2. /\ role[n] = "follower" /\ lastVote'[n] = term[n] + 1 /\ elect'[n].votes = {n}
      /\ \A m \in Nodes \ {n} : /\ term'[m] = term[m] /\ elect'[m] = elect[m]
                                /\ lastVote'[m] = lastVote[m]
      /\ role' = role /\ steppingDown' = steppingDown /\ memberData' = memberData
      /\ log' = log /\ durable' = durable
  BY StartElectionFacts DEF logVars, CoreInv
<1>3. \A v \in Nodes : lastVote[v] <= lastVote'[v] /\ Extends(v)
  BY <1>1, <1>2 DEF TermInv, Types, Numbers, Extends
<1>4. \A k \in Nodes : /\ Leader(k)' => Leader(k) /\ term'[k] = term[k] /\ k # n
                       /\ Leader(k) => Leader(k)'
  BY <1>2 DEF Leader
<1>5. NoWinner /\ Quiet
  BY <1>2, <1>3, <1>4 DEF NoWinner, Quiet, MayCommit
<1>6. /\ Reports' /\ Overtaken' /\ AckInv' /\ LeaderComplete'
      /\ \A k \in Nodes : MayCommit(k)' => Steady(k)
  BY <1>3, <1>5, SteadyReports
<1>7. VoteAck'
  <2> SUFFICES ASSUME NEW k \in Nodes, MayCommit(k)', NEW p \in OpTimes, NEW c \in Nodes,
                      NEW v \in Nodes, Own(k, p)', Candidate(c)', term'[c] > term'[k],
                      v \in elect'[c].votes, AtMost(p, memberData'[k][v])
               PROVE  Has(log'[c], p) \/ IsMajority(Shut(k, p)')
    BY DEF VoteAck, IsMajority, Has
  <2>1. Steady(k) /\ k # n /\ term'[k] = term[k] /\ memberData'[k] = memberData[k]
    BY <1>4, <1>6 DEF Steady, MayCommit
  <2>2. CASE c = n
    <3>1. v = n
      BY <1>2, <2>2
    <3>2. (p[2] <= durable'[v] /\ Has(log'[v], p)) \/ IsMajority(Shut(k, p)')
      BY <2>1, <3>1, SteadyAck
    <3> QED BY <2>2, <3>1, <3>2
  <2>3. CASE c # n
    <3>1. Candidate(c) /\ term[c] > term[k] /\ v \in elect[c].votes
      BY <1>2, <2>1, <2>3 DEF Candidate
    <3>2. Has(log[c], p) \/ IsMajority(Shut(k, p)')
      BY <2>1, <3>1, SteadyVoter
    <3> QED BY <1>2, <3>2
  <2> QED BY <2>2, <2>3
<1> QED BY <1>6, <1>7 DEF ReportInv

\* The candidate n that v votes for has what v has reported to a leader k.
LEMMA VoterHas ==
    ASSUME CoreInv, ReportInv, NEW v \in Nodes, NEW n \in Nodes, Vote(v, n),
           NEW k \in Nodes, MayCommit(k), NEW p \in OpTimes, Own(k, p),
           AtMost(p, memberData[k][v])
    PROVE  Has(log[n], p) \/ IsMajority(Shut(k, p))
<1>1. Types /\ VoteInv /\ LogInv /\ TermInv
  BY TypesHold DEF CoreInv, BaseInv
<1>2. /\ role[v] = "follower" /\ Candidate(n)
      /\ AtMost(LastOf(log[v]), elect[n].request)
  BY VoteFacts DEF CoreInv
<1>3. v # k /\ p[1] = term[k] /\ p # Null
  <2>1. p[1] = term[k] /\ 1 <= term[k] /\ term[k] \in Nat
    BY <1>1 DEF Own, TermInv, Types, Numbers
  <2>2. p # Null
    BY <2>1, OpTimeFields
  <2> QED BY <1>2, <2>1, <2>2 DEF MayCommit, Leader
<1>4. CASE IsMajority(Shut(k, p))
  BY <1>4
<1>5. CASE Has(log[v], p)
  <2>1. elect[n].request \in OpTimes
    BY <1>1 DEF Types, Records
  <2>2. elect[n].request = Null \/ Has(log[n], elect[n].request)
    BY <1>1, <1>2 DEF VoteInv, CandidateInv
  <2>3. Has(log[n], p) \/ LaterThan(n, p[1])
    BY <1>1, <1>2, <1>3, <1>5, <2>1, <2>2, AheadHas
  <2> QED BY <1>3, <2>3 DEF ReportInv, LeaderComplete
<1> QED BY <1>3, <1>4, <1>5 DEF ReportInv, AckInv

\* Vote keeps the fourth layer.
LEMMA VoteReports ==
    ASSUME CoreInv, CoreInv', LogStep, Persist, ReportInv,
           NEW v \in Nodes, NEW n \in Nodes, Vote(v, n)
    PROVE  ReportInv'
<1> DEFINE all == elect[n].votes \cup {v}
<1>1. /\ Types /\ Types' /\ TermInv /\ VoteInv /\ LogInv /\ VoteInv' /\ LogInv' /\ TermInv'
      /\ role \in [Nodes -> Roles]
  <2>1. Types /\ Types'
    BY TypesHold, PTL DEF CoreInv, BaseInv
  <2> QED BY <2>1 DEF CoreInv, BaseInv, TypeOK
<1>2. /\ v # n /\ Candidate(n) /\ role[v] = "follower" /\ lastVote[v] < term[n]
      /\ term'[v] = term[n] /\ lastVote'[v] = term[n] /\ elect'[v] = NoElection
      /\ \A m \in Nodes \ {v} : term'[m] = term[m] /\ lastVote'[m] = lastVote[m]
      /\ \A m \in Nodes \ {v, n} : elect'[m] = elect[m]
      /\ \/ /\ IsMajority(all) /\ elect'[n] = NoElection
            /\ role' = [role EXCEPT ![n] = "draining"]
         \/ /\ role' = role
            /\ elect'[n].request = elect[n].request /\ elect'[n].votes = all
      /\ steppingDown' = steppingDown /\ memberData' = memberData
      /\ log' = log /\ durable' = durable
  BY VoteFacts DEF logVars, CoreInv
<1>3. role[n] = "follower" /\ all \in SUBSET Nodes /\ (\A u \in elect[n].votes : lastVote[u] >= term[n])
  BY <1>1, <1>2 DEF VoteInv, CandidateInv, Types, Records
<1>4. \A u \in Nodes : lastVote[u] <= lastVote'[u] /\ Extends(u)
  BY <1>1, <1>2 DEF Types, Numbers, Extends
<1>5. \A u \in all : lastVote'[u] >= term[n]
  <2>1. ASSUME NEW u \in all PROVE lastVote'[u] >= term[n]
    <3>1. CASE u = v
      BY <1>1, <1>2, <3>1 DEF Types, Numbers
    <3>2. CASE u # v
      BY <1>2, <1>3, <3>2
    <3> QED BY <3>1, <3>2
  <2> QED BY <2>1
<1>6. ASSUME NEW k \in Nodes
      PROVE  /\ Leader(k) => Leader(k)'
             /\ Leader(k)' => /\ k # v /\ term'[k] = term[k]
                              /\ Leader(k) \/ (k = n /\ IsMajority(all) /\ role'[n] = "draining")
  BY <1>1, <1>2, <1>3 DEF Leader
<1>7. ASSUME NEW k \in Nodes, Leader(k), MayCommit(k)' PROVE Steady(k)
  BY <1>2, <1>4, <1>6, <1>7 DEF Steady, MayCommit
<1>8. ASSUME NEW k \in Nodes, Leader(k)', ~Leader(k)
      PROVE  \A u \in Nodes : /\ memberData'[k][u] = Null /\ memberData'[k][u][1] = 0
                              /\ memberData'[k][u][2] = 0
  BY <1>2, <1>8 DEF ReportInv, Reports, Null
<1>9. \A k \in Nodes : Leader(k)' => 1 <= term'[k] /\ term'[k] \in Nat
  BY <1>1, SMTT(30) DEF TermInv, Types, Numbers
<1>10. Reports'
  <2> SUFFICES ASSUME NEW k \in Nodes, NEW u \in Nodes
               PROVE  Reports!(k, u)'
    BY DEF Reports
  <2>1. CASE Leader(k) <=> Leader(k)'
    BY <1>2, <1>6, <2>1 DEF ReportInv, Reports
  <2>2. CASE ~Leader(k) /\ Leader(k)'
    BY <1>8, <1>9, <2>2
  <2> QED BY <1>6, <2>1, <2>2
\* No entry is in an oplog that the new leader has written.
<1>11. ASSUME NEW k \in Nodes, Leader(k)', ~Leader(k), NEW p \in OpTimes, Own(k, p)'
       PROVE  FALSE
  <2>1. role'[k] = "draining"
    BY <1>6, <1>11
  <2> QED BY <1>1, <1>11, <2>1 DEF Own, Has, LogInv, Fresh
<1>12. ASSUME NEW k \in Nodes, Leader(k), MayCommit(k)', NEW c \in Nodes,
              LaterThan(c, term[k])', ~LaterThan(c, term[k])
       PROVE  c = n /\ IsMajority(all) /\ term[n] > term[k]
  <2>1. Leader(c)' /\ ~Leader(c) /\ term'[c] > term'[k]
    BY <1>2, <1>6, <1>12 DEF LaterThan
  <2> QED BY <1>6, <1>7, <1>12, <2>1 DEF Steady
\* The votes for the winner, when none of them is from a member known to have p.
<1>13. ASSUME NEW k \in Nodes, Leader(k), MayCommit(k)', IsMajority(all), term[n] > term[k],
              NEW p, \A u \in all : ~AtMost(p, memberData[k][u])
       PROVE  IsMajority(Shut(k, p)')
  <2>1. term'[k] = term[k] /\ memberData'[k] = memberData[k]
    BY <1>7, <1>13 DEF Steady
  <2>2. ASSUME NEW u \in all PROVE u \in Shut(k, p)'
    <3>1. u \in Nodes /\ lastVote'[u] >= term[n] /\ lastVote'[u] \in Nat
      BY <1>1, <1>3, <1>5 DEF Types, Numbers
    <3>2. lastVote'[u] > term'[k]
      BY <1>1, <1>13, <2>1, <3>1 DEF Types, Numbers
    <3> QED BY <1>13, <2>1, <3>1, <3>2 DEF Shut
  <2>3. Shut(k, p)' \in SUBSET Nodes
    BY DEF Shut
  <2> QED BY <1>13, <2>2, <2>3, MajorityGrows
<1>14. Overtaken'
  <2> SUFFICES ASSUME NEW k \in Nodes, MayCommit(k)', NEW u \in Nodes,
                      memberData'[k][u][1] > term'[k] \/ LaterThan(u, term[k])'
               PROVE  IsMajority(Shut(k, Beyond(k))')
    BY DEF Overtaken, IsMajority
  <2>1. Leader(k)' /\ term'[k] = term[k]
    BY <1>6 DEF MayCommit
  <2>2. CASE ~Leader(k)
    <3>1. LaterThan(u, term[k])'
      BY <1>8, <1>9, <2>1, <2>2
    <3>2. PICK t : Decided(t)' /\ t > term'[k] /\ t \in Nat
      <4>1. CASE \E i \in 1 .. Len(log'[u]) : log'[u][i] > term'[k]
        <5>1. PICK i \in 1 .. Len(log'[u]) : log'[u][i] > term'[k]
          BY <4>1
        <5>2. Decided(log[u][i])' /\ log'[u][i] \in Nat
          BY <1>1, <5>1 DEF VoteInv, EntryDecided, Types, Numbers
        <5>3. PICK t : t = log'[u][i]
          OBVIOUS
        <5>4. Decided(t)'
          BY <5>2, <5>3 DEF Decided, Spent
        <5> QED BY <5>1, <5>2, <5>3, <5>4
      <4>2. CASE Leader(u)' /\ term'[u] > term'[k]
        <5>1. Decided(term[u])' /\ term'[u] \in Nat
          BY <1>1, <4>2 DEF VoteInv, LeaderInv, Types, Numbers
        <5>2. PICK t : t = term'[u]
          OBVIOUS
        <5>3. Decided(t)'
          BY <5>1, <5>2 DEF Decided, Spent
        <5> QED BY <4>2, <5>1, <5>2, <5>3
      <4> QED BY <3>1, <4>1, <4>2 DEF LaterThan
    <3>3. ASSUME NEW w \in Spent(t)' PROVE w \in Shut(k, Beyond(k))'
      <4>1. w \in Nodes /\ lastVote'[w] >= t /\ lastVote'[w] \in Nat
        BY <1>1 DEF Spent, Types, Numbers
      <4>2. lastVote'[w] > term'[k] /\ term'[k] \in Nat
        BY <1>9, <2>1, <3>2, <4>1
      <4>3. memberData'[k][w][1] = 0 /\ memberData'[k][w][2] = 0
        BY <1>8, <2>1, <2>2, <4>1
      <4>4. ~AtMost(Beyond(k)', memberData'[k][w])
        BY <4>2, <4>3 DEF AtMost, Beyond
      <4> QED BY <4>1, <4>2, <4>4 DEF Shut
    <3>4. Shut(k, Beyond(k))' \in SUBSET Nodes /\ IsMajority(Spent(t)')
      BY <3>2 DEF Shut, Decided, IsMajority
    <3> QED BY <3>3, <3>4, MajorityGrows
  <2>3. CASE Leader(k)
    <3>1. Steady(k) /\ memberData'[k] = memberData[k]
      BY <1>7, <2>3 DEF Steady
    <3>2. PICK b : b = Beyond(k)
      OBVIOUS
    <3>3. Shut(k, b)' = Shut(k, Beyond(k))'
      BY <2>1, <3>2 DEF Shut, Beyond
    <3>4. ASSUME NEW w \in Nodes, memberData[k][w][1] > term[k] \/ LaterThan(w, term[k])
          PROVE  IsMajority(Shut(k, b)')
      <4>1. MayCommit(k)
        BY <3>1 DEF Steady
      <4>2. IsMajority(Shut(k, b))
        BY <3>2, <3>4, <4>1 DEF ReportInv, Overtaken
      <4> QED BY <1>1, <3>1, <4>2, SteadyShut
    <3>5. CASE memberData'[k][u][1] > term'[k] \/ LaterThan(u, term[k])
      BY <2>1, <3>1, <3>3, <3>4, <3>5
    <3>6. CASE LaterThan(u, term[k])' /\ ~LaterThan(u, term[k])
      <4>1. IsMajority(all) /\ term[n] > term[k]
        BY <1>12, <2>3, <3>6
      <4>2. CASE \E w \in all : AtMost(b, memberData[k][w])
        <5>1. PICK w \in all : AtMost(b, memberData[k][w])
          BY <4>2
        <5>2. /\ w \in Nodes /\ memberData[k][w][1] \in Nat /\ term[k] \in Nat
              /\ memberData[k][w][2] \in Nat
          BY <1>1, <1>3, OpTimeFields, Bounds DEF Types, Numbers, Records
        <5>3. memberData[k][w][1] > term[k]
          BY <3>2, <5>1, <5>2 DEF AtMost, Beyond
        <5> QED BY <3>3, <3>4, <5>2, <5>3
      <4>3. CASE \A w \in all : ~AtMost(b, memberData[k][w])
        BY <1>13, <2>3, <3>3, <4>1, <4>3
      <4> QED BY <4>2, <4>3
    <3> QED BY <3>5, <3>6
  <2> QED BY <2>2, <2>3
<1>15. AckInv'
  <2> SUFFICES ASSUME NEW k \in Nodes, MayCommit(k)', NEW p \in OpTimes, NEW u \in Nodes,
                      Own(k, p)', u # k, AtMost(p, memberData'[k][u])
               PROVE  (p[2] <= durable'[u] /\ Has(log'[u], p)) \/ IsMajority(Shut(k, p)')
    BY DEF AckInv, IsMajority, Has
  <2>1. Leader(k)
    BY <1>11 DEF MayCommit
  <2>2. Steady(k) /\ memberData'[k] = memberData[k]
    BY <1>7, <2>1 DEF Steady
  <2> QED BY <2>2, SteadyAck
\* What a vote for n shows of an entry that its voter has reported.
<1>16. ASSUME NEW k \in Nodes, Steady(k), NEW p \in OpTimes, Own(k, p)', NEW u \in all,
              AtMost(p, memberData[k][u]), term[n] > term[k]
       PROVE  Has(log'[n], p) \/ IsMajority(Shut(k, p)')
  <2>1. CASE u \in elect[n].votes
    <3>1. Has(log[n], p) \/ IsMajority(Shut(k, p)')
      BY <1>2, <1>16, <2>1, SteadyVoter
    <3> QED BY <1>2, <3>1
  <2>2. CASE u = v
    <3>1. Own(k, p) /\ MayCommit(k)
      BY <1>2, <1>16 DEF Own, Steady
    <3>2. Has(log[n], p) \/ IsMajority(Shut(k, p))
      BY <1>16, <2>2, <3>1, VoterHas
    <3> QED BY <1>1, <1>2, <1>16, <3>2, SteadyShut
  <2> QED BY <2>1, <2>2
<1>17. LeaderComplete'
  <2> SUFFICES ASSUME NEW k \in Nodes, MayCommit(k)', NEW p \in OpTimes, NEW c \in Nodes,
                      Own(k, p)', LaterThan(c, term[k])'
               PROVE  Has(log'[c], p) \/ IsMajority(Shut(k, p)')
    BY DEF LeaderComplete, IsMajority, Has
  <2>1. Leader(k)
    BY <1>11 DEF MayCommit
  <2>2. Steady(k)
    BY <1>7, <2>1
  <2>3. CASE LaterThan(c, term[k])
    <3>1. Has(log[c], p) \/ IsMajority(Shut(k, p)')
      BY <2>2, <2>3, SteadyLater
    <3> QED BY <1>2, <3>1
  <2>4. CASE ~LaterThan(c, term[k])
    <3>1. c = n /\ IsMajority(all) /\ term[n] > term[k]
      BY <1>12, <2>1, <2>4
    <3>2. CASE \E u \in all : AtMost(p, memberData[k][u])
      BY <1>16, <2>2, <3>1, <3>2
    <3>3. CASE \A u \in all : ~AtMost(p, memberData[k][u])
      BY <1>13, <2>1, <3>1, <3>3
    <3> QED BY <3>2, <3>3
  <2> QED BY <2>3, <2>4
<1>18. VoteAck'
  <2> SUFFICES ASSUME NEW k \in Nodes, MayCommit(k)', NEW p \in OpTimes, NEW c \in Nodes,
                      NEW u \in Nodes, Own(k, p)', Candidate(c)', term'[c] > term'[k],
                      u \in elect'[c].votes, AtMost(p, memberData'[k][u])
               PROVE  Has(log'[c], p) \/ IsMajority(Shut(k, p)')
    BY DEF VoteAck, IsMajority, Has
  <2>1. Leader(k)
    BY <1>11 DEF MayCommit
  <2>2. Steady(k) /\ memberData'[k] = memberData[k] /\ term'[k] = term[k]
    BY <1>7, <2>1 DEF Steady
  <2>3. c # v /\ term'[c] = term[c]
    BY <1>2 DEF Candidate
  <2>4. CASE c = n
    <3>1. u \in all
      BY <1>2, <2>4 DEF Candidate
    <3> QED BY <1>16, <2>2, <2>3, <2>4, <3>1
  <2>5. CASE c # n
    <3>1. Candidate(c) /\ u \in elect[c].votes
      BY <1>2, <2>3, <2>5 DEF Candidate
    <3>2. Has(log[c], p) \/ IsMajority(Shut(k, p)')
      BY <2>2, <2>3, <3>1, SteadyVoter
    <3> QED BY <1>2, <3>2
  <2> QED BY <2>4, <2>5
<1> QED BY <1>10, <1>14, <1>15, <1>17, <1>18 DEF ReportInv

\* The fourth layer holds initially.
LEMMA ReportInit == Init => ReportInv
<1> SUFFICES ASSUME Init PROVE ReportInv
  OBVIOUS
<1>1. /\ \A n \in Nodes : term[n] = 1 /\ log[n] = <<>> /\ Len(log[n]) = 0
      /\ \A n, m \in Nodes : memberData[n][m] = Null /\ memberData[n][m][1] = 0
  BY DEF Init, Null
<1>2. \A n, c \in Nodes : ~LaterThan(c, term[n])
  BY <1>1 DEF LaterThan
<1>3. \A n \in Nodes, p \in OpTimes : ~Own(n, p)
  BY <1>1 DEF Own, Has
<1> QED BY <1>1, <1>2, <1>3
        DEF ReportInv, Reports, Overtaken, AckInv, LeaderComplete, VoteAck

\* Every step keeps the fourth layer.
LEMMA ReportStep ==
    ASSUME CoreInv, ReportInv, [Next]_vars
    PROVE  ReportInv'
<1>1. CoreInv' /\ Persist /\ LogStep
  BY CoreStep
<1>2. BaseInv /\ BaseInv' /\ VoteInv /\ LogInv
  BY <1>1 DEF CoreInv
<1>3. CASE \E n \in Nodes : StartElection(n)
  BY <1>1, <1>3, StartElectionReports
<1>4. CASE \E v, n \in Nodes : Vote(v, n)
  BY <1>1, <1>4, VoteReports
<1>5. CASE \E n, m \in Nodes : RecordPosition(n, m)
  BY <1>1, <1>5, RecordReports
<1>6. CASE Quiet
  BY <1>1, <1>2, <1>3, <1>4, <1>6, StepKinds, QuietReports
<1> QED BY <1>2, <1>3, <1>4, <1>5, <1>6, QuietSteps

-----------------------------------------------------------------------------
(* The fifth layer: what is committed *)

\* Those that keep p and have voted for nobody, in a later term, that lacks it.
Keepers(p) ==
    {v \in Nodes :
        /\ p[2] <= durable[v] /\ Has(log[v], p)
        /\ \A c \in Nodes : Candidate(c) /\ term[c] > p[1] /\ v \in elect[c].votes =>
                                Has(log[c], p)}

\* A majority keeps p, and every leader and every oplog of later terms has it.
Chosen(p) ==
    /\ IsMajority(Keepers(p))
    /\ \A c \in Nodes : LaterThan(c, p[1]) => Has(log[c], p)

\* A committed entry is in every oplog with one that is chosen.
Covers(p, o) ==
    /\ p \in OpTimes \ {Null} /\ Chosen(p) /\ o[2] <= p[2] /\ AtMost(o, p)
    /\ \A n \in Nodes : Has(log[n], p) => Has(log[n], o)

\* Every committed entry is covered by a chosen one.
CommitInv == \A o \in committed : \E p \in OpTimes : Covers(p, o)

\* How an entry is shown to be chosen after a step.
LEMMA ChosenIntro ==
    ASSUME NEW p, NEW S \in SUBSET Nodes, IsMajority(S), \A v \in S : v \in Keepers(p)',
           \A c \in Nodes : LaterThan(c, p[1])' => Has(log'[c], p)
    PROVE  Chosen(p)'
<1>1. S \subseteq Keepers(p)' /\ Keepers(p)' \in SUBSET Nodes
  BY DEF Keepers
<1>2. IsMajority(Keepers(p)')
  BY <1>1, MajorityGrows
<1> QED BY <1>2 DEF Chosen, IsMajority, Has

\* A calm step leaves what is chosen.
LEMMA ChosenCalm ==
    ASSUME CoreInv, CoreInv', CalmStep, NEW p \in OpTimes, Chosen(p)
    PROVE  Chosen(p)'
<1>1. Types /\ Types' /\ p \in Nat \X Nat
  <2>1. Types /\ Types'
    BY TypesHold, PTL DEF CoreInv, BaseInv
  <2> QED BY <2>1, OpTimeFields
<1>2. /\ Persist /\ Spread(p)
      /\ \A c \in Nodes : Candidate(c)' =>
             Candidate(c) /\ elect'[c] = elect[c] /\ term'[c] = term[c] /\ Extends(c)
  BY <1>1, CalmFacts
<1>3. ASSUME NEW v \in Keepers(p) PROVE v \in Keepers(p)'
  <2>1. v \in Nodes /\ p[2] <= durable[v] /\ Has(log[v], p)
    BY DEF Keepers
  <2>2. p[2] <= durable'[v] /\ Has(log'[v], p)
    <3>1. CASE \E s \in Nodes : /\ \E i \in 1 .. Len(log[s]) : log[s][i] > p[1]
                                /\ ~Has(log[s], p)
      BY <3>1 DEF Chosen, LaterThan
    <3> QED BY <1>2, <2>1, <3>1 DEF Persist
  <2>3. ASSUME NEW c \in Nodes, Candidate(c)', term'[c] > p[1], v \in elect'[c].votes
        PROVE  Has(log'[c], p)
    <3>1. Candidate(c) /\ term[c] > p[1] /\ v \in elect[c].votes /\ Extends(c)
      BY <1>2, <2>3
    <3>2. Has(log[c], p)
      BY <3>1 DEF Keepers
    <3> QED BY <1>1, <3>1, <3>2, ExtendsHas
  <2> QED BY <2>1, <2>2, <2>3 DEF Keepers, Has
<1>4. ASSUME NEW c \in Nodes, LaterThan(c, p[1])' PROVE Has(log'[c], p)
  <2>1. PICK s \in Nodes : LaterThan(s, p[1]) /\ (Has(log[s], p) => Has(log'[c], p))
    BY <1>2, <1>4 DEF Spread
  <2> QED BY <2>1 DEF Chosen
<1>5. Keepers(p) \in SUBSET Nodes /\ IsMajority(Keepers(p))
  BY DEF Keepers, Chosen
<1> QED BY <1>3, <1>4, <1>5, ChosenIntro

\* StartElection leaves what is chosen.
LEMMA ChosenStartElection ==
    ASSUME CoreInv, NEW p \in OpTimes, Chosen(p), NEW n \in Nodes, StartElection(n)
    PROVE  Chosen(p)'
<1>1. /\ role[n] = "follower" /\ elect'[n].votes = {n}
      /\ \A m \in Nodes \ {n} : term'[m] = term[m] /\ elect'[m] = elect[m]
      /\ role' = role /\ log' = log /\ durable' = durable
  BY StartElectionFacts DEF logVars, CoreInv
<1>2. ASSUME NEW v \in Keepers(p) PROVE v \in Keepers(p)'
  <2>1. v \in Nodes /\ p[2] <= durable'[v] /\ Has(log'[v], p)
    BY <1>1 DEF Keepers
  <2>2. ASSUME NEW c \in Nodes, Candidate(c)', term'[c] > p[1], v \in elect'[c].votes
        PROVE  Has(log'[c], p)
    <3>1. CASE c = n
      BY <1>1, <2>1, <2>2, <3>1
    <3>2. CASE c # n
      BY <1>1, <2>2, <3>2 DEF Keepers, Candidate
    <3> QED BY <3>1, <3>2
  <2> QED BY <2>1, <2>2 DEF Keepers, Has
<1>3. ASSUME NEW c \in Nodes, LaterThan(c, p[1])' PROVE Has(log'[c], p)
  <2>1. LaterThan(c, p[1])
    BY <1>1, <1>3 DEF LaterThan, Leader
  <2> QED BY <1>1, <2>1 DEF Chosen
<1>4. Keepers(p) \in SUBSET Nodes /\ IsMajority(Keepers(p))
  BY DEF Keepers, Chosen
<1> QED BY <1>2, <1>3, <1>4, ChosenIntro

\* Vote leaves what is chosen: a winner has the vote of one that keeps it.
LEMMA ChosenVote ==
    ASSUME CoreInv, NEW p \in OpTimes, p # Null, Chosen(p),
           NEW v \in Nodes, NEW n \in Nodes, Vote(v, n)
    PROVE  Chosen(p)'
<1> DEFINE all == elect[n].votes \cup {v}
<1>1. Types /\ VoteInv /\ LogInv /\ role \in [Nodes -> Roles]
  BY TypesHold DEF CoreInv, BaseInv, TypeOK
<1>2. /\ v # n /\ Candidate(n) /\ role[v] = "follower"
      /\ AtMost(LastOf(log[v]), elect[n].request)
      /\ elect'[v] = NoElection
      /\ \A m \in Nodes \ {v} : term'[m] = term[m]
      /\ \A m \in Nodes \ {v, n} : elect'[m] = elect[m]
      /\ \/ /\ IsMajority(all) /\ elect'[n] = NoElection
            /\ role' = [role EXCEPT ![n] = "draining"]
         \/ /\ role' = role
            /\ elect'[n].request = elect[n].request /\ elect'[n].votes = all
      /\ log' = log /\ durable' = durable
  BY VoteFacts DEF logVars, CoreInv
<1>3. Has(log[v], p) => Has(log[n], p)
  <2>1. ASSUME Has(log[v], p) PROVE Has(log[n], p)
    <3>1. elect[n].request \in OpTimes
      BY <1>1 DEF Types, Records
    <3>2. elect[n].request = Null \/ Has(log[n], elect[n].request)
      BY <1>1, <1>2 DEF VoteInv, CandidateInv
    <3>3. Has(log[n], p) \/ LaterThan(n, p[1])
      BY <1>1, <1>2, <2>1, <3>1, <3>2, AheadHas
    <3> QED BY <3>3 DEF Chosen
  <2> QED BY <2>1
<1>4. ASSUME NEW u \in Keepers(p), u \in all, term[n] > p[1] PROVE Has(log[n], p)
  BY <1>2, <1>3, <1>4 DEF Keepers
<1>5. ASSUME NEW u \in Keepers(p) PROVE u \in Keepers(p)'
  <2>1. u \in Nodes /\ p[2] <= durable'[u] /\ Has(log'[u], p)
    BY <1>2 DEF Keepers
  <2>2. ASSUME NEW c \in Nodes, Candidate(c)', term'[c] > p[1], u \in elect'[c].votes
        PROVE  Has(log'[c], p)
    <3>1. c # v /\ term'[c] = term[c]
      BY <1>2, <2>2 DEF Candidate
    <3>2. CASE c = n
      <4>1. u \in all
        BY <1>2, <2>2, <3>2 DEF Candidate
      <4> QED BY <1>2, <1>4, <2>2, <3>1, <3>2, <4>1
    <3>3. CASE c # n
      BY <1>2, <2>2, <3>1, <3>3 DEF Keepers, Candidate
    <3> QED BY <3>2, <3>3
  <2> QED BY <2>1, <2>2 DEF Keepers, Has
<1>6. Keepers(p) \in SUBSET Nodes /\ IsMajority(Keepers(p)) /\ all \in SUBSET Nodes
  BY <1>1 DEF Keepers, Chosen, Types, Records
<1>7. ASSUME NEW c \in Nodes, LaterThan(c, p[1])' PROVE Has(log'[c], p)
  <2>1. CASE LaterThan(c, p[1])
    BY <1>2, <2>1 DEF Chosen
  <2>2. CASE ~LaterThan(c, p[1])
    <3>1. Leader(c)' /\ ~(Leader(c) /\ term[c] > p[1]) /\ term'[c] > p[1]
      BY <1>2, <1>7, <2>2 DEF LaterThan
    <3>2. c # v /\ term'[c] = term[c]
      BY <1>1, <1>2, <3>1 DEF Leader
    <3>3. c = n /\ IsMajority(all)
      BY <1>1, <1>2, <3>1, <3>2 DEF Leader
    <3>4. PICK u \in all : u \in Keepers(p)
      BY <1>6, <3>3, MajoritiesMeet
    <3> QED BY <1>2, <1>4, <3>1, <3>2, <3>3, <3>4
  <2> QED BY <2>1, <2>2
<1> QED BY <1>5, <1>6, <1>7, ChosenIntro

\* What is chosen stays chosen.
LEMMA ChosenStep ==
    ASSUME CoreInv, [Next]_vars, NEW p \in OpTimes, p # Null, Chosen(p)
    PROVE  Chosen(p)'
<1>1. CoreInv' /\ BaseInv /\ BaseInv' /\ VoteInv /\ LogInv
  BY CoreStep DEF CoreInv
<1> QED BY <1>1, StepKinds, ChosenCalm, ChosenStartElection, ChosenVote

\* The first entry of the term of a primary.
LEMMA FirstFacts ==
    ASSUME CoreInv, NEW n \in Nodes, role[n] = "primary"
    PROVE  FirstOfTerm(n) \in OpTimes /\ FirstOfTerm(n)[1] = term[n]
<1> DEFINE S == {o \in EntriesOf(log[n]) : o[1] = term[n]}
           L == Len(log[n])
<1>1. Types /\ LogInv /\ log[n] \in Logs
  BY TypesHold DEF CoreInv, BaseInv, Types, Records
<1>2. L > 0 /\ log[n][L] = term[n] /\ L \in Nat
  BY <1>1 DEF LogInv, HasAll, Types, Numbers
<1>3. LastOf(log[n]) \in OpTimes /\ LastOf(log[n])[1] = term[n] /\ Has(log[n], LastOf(log[n]))
  BY <1>1, <1>2, LastFacts
<1>4. S \in SUBSET OpTimes /\ LastOf(log[n]) \in S
  BY <1>1, <1>3, EntriesFacts
<1>5. \E o \in S : \A p \in S : AtMost(o, p)
  BY <1>4, LeastOpTime
<1>6. \E o \in EntriesOf(log[n]) :
          /\ o[1] = term[n]
          /\ \A p \in EntriesOf(log[n]) : p[1] = term[n] => AtMost(o, p)
  BY <1>5
<1>7. FirstOfTerm(n) \in EntriesOf(log[n]) /\ FirstOfTerm(n)[1] = term[n]
  BY <1>6 DEF FirstOfTerm
<1> QED BY <1>1, <1>7, EntriesFacts

\* Only a primary has a first entry of its term that a point can have reached.
LEMMA PointReached ==
    ASSUME CoreInv, NEW n \in Nodes, NEW point \in OpTimes,
           ~Before(point, firstOpTimeOfMyTerm(n))
    PROVE  role[n] = "primary" /\ point[1] >= term[n]
<1>1. point \in Nat \X Nat /\ point[1] \in Nat /\ point[1] <= MaxTerm
  BY OpTimeFields, Bounds
<1>2. CASE role[n] # "primary"
  <2>1. firstOpTimeOfMyTerm(n) = <<MaxTerm + 1, 0>> /\ <<MaxTerm + 1, 0>> \in Nat \X Nat
    BY <1>2, Bounds DEF firstOpTimeOfMyTerm
  <2>2. Before(point, <<MaxTerm + 1, 0>>)
    BY <1>1, <2>1, BeforeFacts, Bounds
  <2> QED BY <2>1, <2>2
<1>3. CASE role[n] = "primary"
  <2>1. firstOpTimeOfMyTerm(n) = FirstOfTerm(n)
    BY <1>3 DEF firstOpTimeOfMyTerm
  <2>2. FirstOfTerm(n) \in OpTimes /\ FirstOfTerm(n)[1] = term[n]
    BY <1>3, FirstFacts
  <2>3. FirstOfTerm(n) \in Nat \X Nat
    BY <2>2, OpTimeFields
  <2>4. AtMost(FirstOfTerm(n), point)
    BY <1>1, <2>1, <2>3, BeforeFacts
  <2>5. term[n] \in Nat
    BY <2>2, <2>3
  <2> QED BY <1>1, <1>3, <2>2, <2>4, <2>5 DEF AtMost
<1> QED BY <1>2, <1>3

\* What a primary commits is an entry of its term that is chosen.
LEMMA CommitChosen ==
    ASSUME CoreInv, CoreInv', ReportInv', NEW n \in Nodes, MayCommit(n),
           UNCHANGED <<electVars, log, rollback>>,
           NEW own \in OpTimes, own = Null \/ Has(log[n], own), own[2] <= durable'[n],
           NEW point \in OpTimes,
           ~Before(point, firstOpTimeOfMyTerm(n)),
           NEW at \in [Nodes -> OpTimes], at[n] = own,
           \A m \in Nodes \ {n} : at[m] = memberData'[n][m],
           \E m \in Nodes : point = at[m],
           IsMajority({m \in Nodes : AtMost(point, at[m])})
    PROVE  /\ point # Null /\ Chosen(point)' /\ Has(log[n], point)
           /\ point[1] = term[n] /\ role[n] = "primary"
<1> DEFINE reached == {m \in Nodes : AtMost(point, at[m])}
           t == term[n]
<1>1. /\ Types /\ Types' /\ TermInv /\ LogInv /\ VoteInv
  <2>1. Types /\ Types'
    BY TypesHold, PTL DEF CoreInv, BaseInv
  <2> QED BY <2>1 DEF CoreInv, BaseInv
<1>2. /\ term' = term /\ lastVote' = lastVote /\ role' = role /\ log' = log
      /\ steppingDown' = steppingDown /\ elect' = elect /\ MayCommit(n)'
  BY DEF electVars, MayCommit, Leader
<1>3. role[n] = "primary" /\ point[1] >= t
  BY PointReached
<1>4. t \in Nat /\ 0 < t /\ lastVote[n] <= t /\ lastVote[n] \in Nat
  BY <1>1 DEF TermInv, Types, Numbers
<1>5. \A m \in Nodes : at[m][1] \in Nat /\ at[m][2] \in Nat
  BY OpTimeFields, Bounds
<1>6. point[1] \in Nat /\ point[2] \in Nat /\ own[1] \in Nat /\ own[2] \in Nat
  BY OpTimeFields, Bounds
<1>7. own[1] <= t
  <2>1. CASE own = Null
    BY <1>4, <2>1, OpTimeFields
  <2>2. CASE Has(log[n], own)
    <3>1. /\ own[2] \in 1 .. Len(log[n]) /\ log[n][own[2]] = own[1]
          /\ Len(log[n]) \in 1 .. Len(log[n]) /\ log[n][Len(log[n])] = t
      BY <1>1, <1>3, <2>2 DEF Has, LogInv, HasAll, Types, Numbers
    <3>2. own[2] <= Len(log[n])
      BY <3>1
    <3> QED BY <1>1, <3>1, <3>2 DEF LogInv, Ordered
  <2> QED BY <2>1, <2>2
<1>8. point[1] = t
  <2>1. ASSUME point[1] > t PROVE FALSE
    <3>1. \A m \in reached : m \in Nodes /\ m # n /\ memberData'[n][m][1] > t
      <4>1. ASSUME NEW m \in reached PROVE m \in Nodes /\ m # n /\ memberData'[n][m][1] > t
        <5>1. m \in Nodes /\ at[m][1] >= point[1] /\ at[m][1] > t
          BY <1>4, <1>5, <1>6, <2>1 DEF AtMost
        <5>2. m # n
          BY <1>4, <1>6, <1>7, <5>1
        <5> QED BY <5>1, <5>2
      <4> QED BY <4>1
    <3>2. reached \in SUBSET Nodes /\ IsMajority(reached) /\ Shut(n, Beyond(n))' \in SUBSET Nodes
      BY DEF Shut
    <3>3. PICK w \in Nodes : memberData'[n][w][1] > t
      BY <3>1, <3>2, MajoritiesMeet
    <3>4. IsMajority(Shut(n, Beyond(n))')
      BY <1>2, <3>3 DEF ReportInv, Overtaken, IsMajority
    <3>5. PICK m \in reached : m \in Shut(n, Beyond(n))'
      BY <3>2, <3>4, MajoritiesMeet
    <3>6. memberData'[n][m][1] > t /\ memberData'[n][m][1] \in Nat /\ memberData'[n][m][2] \in Nat
      BY <1>5, <3>1, <3>5
    <3>7. ~AtMost(<<t + 1, 0>>, memberData'[n][m])
      BY <1>2, <3>5 DEF Shut, Beyond
    <3> QED BY <1>4, <3>6, <3>7 DEF AtMost
  <2> QED BY <1>3, <1>4, <1>6, <2>1
<1>9. point # Null
  BY <1>4, <1>8, OpTimeFields
<1>10. Has(log[n], point)
  <2>1. PICK m \in Nodes : point = at[m]
    OBVIOUS
  <2>2. CASE m = n
    BY <1>9, <2>1, <2>2
  <2>3. CASE m # n
    <3>1. point = memberData'[n][m] /\ memberData'[n][m][1] = term'[n] /\ Leader(n)'
      BY <1>2, <1>8, <2>1, <2>3 DEF MayCommit
    <3>2. Has(log'[n], memberData'[n][m])
      BY <3>1 DEF ReportInv, Reports
    <3> QED BY <1>2, <3>1, <3>2
  <2> QED BY <2>2, <2>3
<1>11. Own(n, point)'
  BY <1>2, <1>8, <1>10 DEF Own
<1>12. reached \in SUBSET Nodes /\ IsMajority(reached) /\ Shut(n, point)' \in SUBSET Nodes
  BY DEF Shut
<1>13. ~IsMajority(Shut(n, point)')
  <2>1. ASSUME IsMajority(Shut(n, point)') PROVE FALSE
    <3>1. PICK m \in reached : m \in Shut(n, point)'
      BY <1>12, <2>1, MajoritiesMeet
    <3>2. m \in Nodes /\ AtMost(point, at[m]) /\ ~AtMost(point, memberData'[n][m])
          /\ lastVote[m] > term[n]
      BY <1>2, <3>1 DEF Shut
    <3>3. m = n
      BY <3>2
    <3> QED BY <1>4, <3>2, <3>3
  <2> QED BY <2>1
<1>14. ASSUME NEW v \in reached PROVE v \in Keepers(point)'
  <2>1. CASE v = n
    <3>1. AtMost(point, own) /\ own[1] = t /\ point[2] <= own[2]
      BY <1>4, <1>6, <1>7, <1>8, <2>1 DEF AtMost
    <3>2. durable'[n] \in Nat
      BY <1>1 DEF Types, Numbers
    <3>3. point[2] <= durable'[n]
      BY <1>6, <3>1, <3>2
    <3>4. ASSUME NEW c \in Nodes, Candidate(c)', term'[c] > point[1], n \in elect'[c].votes
          PROVE  FALSE
      <4>1. lastVote[n] >= term[c] /\ term[c] > t /\ term[c] \in Nat
        BY <1>1, <1>2, <1>8, <3>4 DEF VoteInv, CandidateInv, Candidate, Types, Numbers
      <4> QED BY <1>4, <4>1
    <3> QED BY <1>2, <1>10, <2>1, <3>3, <3>4 DEF Keepers, Has
  <2>2. CASE v # n
    <3>1. v \in Nodes /\ AtMost(point, memberData'[n][v])
      BY <2>2
    <3>2. (point[2] <= durable'[v] /\ Has(log'[v], point)) \/ IsMajority(Shut(n, point)')
      BY <1>2, <1>11, <2>2, <3>1 DEF ReportInv, AckInv, IsMajority, Has
    <3>3. ASSUME NEW c \in Nodes, Candidate(c)', term'[c] > point[1], v \in elect'[c].votes
          PROVE  Has(log'[c], point)
      <4>1. term'[c] > term'[n]
        BY <1>2, <1>8, <3>3
      <4>2. Has(log'[c], point) \/ IsMajority(Shut(n, point)')
        BY <1>2, <1>11, <3>1, <3>3, <4>1 DEF ReportInv, VoteAck, IsMajority, Has
      <4> QED BY <1>13, <4>2
    <3> QED BY <1>13, <3>1, <3>2, <3>3 DEF Keepers, Has
  <2> QED BY <2>1, <2>2
<1>15. ASSUME NEW c \in Nodes, LaterThan(c, point[1])' PROVE Has(log'[c], point)
  <2>1. LaterThan(c, term[n])'
    BY <1>2, <1>8, <1>15 DEF LaterThan
  <2>2. Has(log'[c], point) \/ IsMajority(Shut(n, point)')
    BY <1>2, <1>11, <2>1 DEF ReportInv, LeaderComplete, IsMajority, Has
  <2> QED BY <1>13, <2>2
<1>16. Chosen(point)'
  BY <1>12, <1>14, <1>15, ChosenIntro
<1> QED BY <1>3, <1>8, <1>9, <1>10, <1>16

\* In a step n moves the commit point to point.
CommitsTo(n, point) ==
    /\ MayCommit(n) /\ Before(lastCommitted[n], point)
    /\ point \in OpTimes \ {Null} /\ Chosen(point)' /\ Has(log[n], point)
    /\ point[1] = term[n] /\ role[n] = "primary"
    /\ lastCommitted' = [lastCommitted EXCEPT ![n] = point]
    /\ Stabilised(n, candidates[n], point)
    /\ committed' = committed \cup {o \in EntriesOf(log[n]) : AtMost(o, point)}
    /\ UNCHANGED <<electVars, log, rollback, waiting>>

\* A flush or a position commits nothing, or an entry of the term that is chosen.
LEMMA PositionSteps ==
    ASSUME CoreInv, ReportInv, [Next]_vars, NEW n \in Nodes, NEW m \in Nodes,
           Flush(n) \/ RecordPosition(n, m)
    PROVE  UNCHANGED <<pointVars, committed>> \/ \E point \in OpTimes : CommitsTo(n, point)
<1>1. CoreInv' /\ ReportInv' /\ TypeOK /\ Types /\ BaseInv /\ Types'
  <2>1. CoreInv' /\ ReportInv'
    BY CoreStep, ReportStep
  <2>2. Types /\ Types'
    BY <2>1, TypesHold, PTL DEF CoreInv, BaseInv
  <2> QED BY <2>1, <2>2 DEF CoreInv, BaseInv
<1>2. UNCHANGED <<electVars, log, rollback, waiting>>
  BY DEF Flush, RecordPosition
<1>3. PICK own \in OpTimes :
          /\ own = Null \/ Has(log[n], own)
          /\ own[2] <= durable'[n]
          /\ UpdateLastCommitted(n, firstOpTimeOfMyTerm(n), own, memberData'[n])
  <2>1. CASE Flush(n)
    <3>1. UpdateLastCommitted(n, firstOpTimeOfMyTerm(n), LastOf(log[n]), memberData'[n])
      BY <2>1 DEF Flush, lastApplied
    <3>2. durable'[n] = Len(log[n])
      BY <1>1, <2>1 DEF Flush, TypeOK
    <3>3. /\ LastOf(log[n]) \in OpTimes /\ LastOf(log[n])[2] = Len(log[n])
          /\ LastOf(log[n]) = Null \/ Has(log[n], LastOf(log[n]))
      BY <1>1, LastFacts DEF Types, Records
    <3>4. Len(log[n]) \in Nat
      BY <1>1 DEF Types, Numbers
    <3> QED BY <3>1, <3>2, <3>3, <3>4
  <2>2. CASE RecordPosition(n, m)
    <3>1. UpdateLastCommitted(n, firstOpTimeOfMyTerm(n), Position(n), memberData'[n])
      BY <2>2 DEF RecordPosition
    <3>2. durable'[n] = durable[n]
      BY <1>1, <2>2, RecordFacts
    <3>3. log[n] \in Logs /\ durable[n] \in 0 .. Len(log[n]) /\ durable[n] \in Nat
      <4>1. durable[n] \in Nat /\ durable[n] <= Len(log[n]) /\ Len(log[n]) \in Nat
        BY <1>1 DEF Types, Numbers
      <4>2. durable[n] \in 0 .. Len(log[n])
        BY <4>1
      <4> QED BY <1>1, <4>1, <4>2 DEF Types, Records
    <3>4. /\ Position(n) \in OpTimes /\ Position(n)[2] = durable[n]
          /\ Position(n) = Null \/ Has(log[n], Position(n))
      BY <3>3, EntryFacts DEF Position
    <3> QED BY <3>1, <3>2, <3>3, <3>4
  <2> QED BY <2>1, <2>2
<1>4. memberData'[n] \in [Nodes -> OpTimes]
  BY <1>1 DEF Types, Records
<1>5. PICK at \in [Nodes -> OpTimes] : at = [memberData'[n] EXCEPT ![n] = own]
  BY <1>4
<1>6. at[n] = own /\ \A k \in Nodes \ {n} : at[k] = memberData'[n][k]
  BY <1>4, <1>5
<1>7. PICK point \in OpTimes : point = MajorityOpTime(n, own, memberData'[n])
  BY <1>4, MajorityOpTimeFacts
<1>8. /\ \E k \in Nodes : point = at[k]
      /\ IsMajority({k \in Nodes : AtMost(point, at[k])})
  BY <1>4, <1>5, <1>7, MajorityOpTimeFacts
<1>9. \/ UNCHANGED <<pointVars, committed>>
      \/ /\ MayCommit(n) /\ ~Before(point, firstOpTimeOfMyTerm(n))
         /\ Before(lastCommitted[n], point)
         /\ lastCommitted' = [lastCommitted EXCEPT ![n] = point]
         /\ Stabilised(n, candidates[n], point)
         /\ committed' = committed \cup {o \in EntriesOf(log[n]) : AtMost(o, point)}
  <2> DEFINE q == MajorityOpTime(n, own, memberData'[n])
  <2>1. \/ UNCHANGED <<pointVars, committed>>
        \/ /\ MayCommit(n) /\ ~Before(q, firstOpTimeOfMyTerm(n))
           /\ Before(lastCommitted[n], q)
           /\ lastCommitted' = [lastCommitted EXCEPT ![n] = q]
           /\ Stabilised(n, candidates[n], q)
           /\ committed' = committed \cup {o \in EntriesOf(log[n]) : AtMost(o, q)}
    BY <1>1, <1>3, <1>4, UpdateLastCommittedFacts
  <2>2. q = point
    BY <1>7
  <2> HIDE DEF q
  <2> QED BY <2>1, <2>2
<1>10. CASE UNCHANGED <<pointVars, committed>>
  BY <1>10
<1>11. CASE ~UNCHANGED <<pointVars, committed>>
  <2>1. /\ point # Null /\ Chosen(point)' /\ Has(log[n], point)
        /\ point[1] = term[n] /\ role[n] = "primary"
    BY <1>1, <1>2, <1>3, <1>6, <1>8, <1>9, <1>11, CommitChosen
  <2>2. CommitsTo(n, point)
    BY <1>2, <1>9, <1>11, <2>1 DEF CommitsTo
  <2> QED BY <2>2
<1> QED BY <1>10, <1>11

\* Somebody has a chosen entry.
LEMMA ChosenHeld ==
    ASSUME NEW p, Chosen(p)
    PROVE  \E v \in Nodes : Has(log[v], p)
<1>1. Keepers(p) \in SUBSET Nodes /\ IsMajority(Keepers(p))
  BY DEF Keepers, Chosen
<1>2. \E v \in Keepers(p) : v \in Keepers(p)
  BY <1>1, MajoritiesMeet
<1> QED BY <1>2 DEF Keepers

\* A chosen entry is nobody's to write any more: an oplog has it after a step
\* only if it is part of one that had it.
LEMMA ChosenInherited ==
    ASSUME CoreInv, CoreInv', LogStep, NEW p \in OpTimes, Chosen(p),
           NEW n \in Nodes, Has(log'[n], p)
    PROVE  \E s \in Nodes : /\ Has(log[s], p)
                            /\ \A i \in 1 .. p[2] : log'[n][i] = log[s][i]
<1>1. Types /\ Types' /\ LogInv
  BY TypesHold, PTL DEF CoreInv, BaseInv
<1>2. p[2] \in Nat /\ p[2] \in 1 .. Len(log'[n]) /\ log'[n][p[2]] = p[1]
  BY OpTimeFields, Bounds DEF Has
<1>3. CASE Inherited(n)
  <2>1. PICK s \in Nodes : /\ Len(log'[n]) <= Len(log[s])
                           /\ \A i \in 1 .. Len(log'[n]) : log'[n][i] = log[s][i]
    BY <1>3 DEF Inherited
  <2>2. Has(log[s], p) /\ \A i \in 1 .. p[2] : log'[n][i] = log[s][i]
    BY <1>1, <1>2, <2>1 DEF Has, Types, Numbers
  <2> QED BY <2>2
<1>4. CASE Written(n)
  <2>1. Len(log[n]) \in Nat /\ Len(log'[n]) = Len(log[n]) + 1
    BY <1>1, <1>4 DEF Written, Types, Numbers
  <2>2. p[2] # Len(log[n]) + 1
    <3>1. ASSUME p[2] = Len(log[n]) + 1 PROVE FALSE
      <4>1. p[1] = term[n] /\ Leader(n)
        BY <1>2, <1>4, <3>1 DEF Written
      <4>2. PICK v \in Nodes : Has(log[v], p)
        BY ChosenHeld
      <4>3. p[2] \in 1 .. Len(log[v]) /\ log[v][p[2]] = term[n]
        BY <4>1, <4>2 DEF Has
      <4>4. p[2] <= Len(log[n])
        BY <1>1, <4>1, <4>3 DEF Leader, LogInv, Fresh, HasAll
      <4> QED BY <2>1, <3>1, <4>4
    <3> QED BY <3>1
  <2>3. p[2] \in 1 .. Len(log[n])
    BY <1>2, <2>1, <2>2
  <2>4. Has(log[n], p) /\ \A i \in 1 .. p[2] : log'[n][i] = log[n][i]
    BY <1>2, <1>4, <2>1, <2>3 DEF Has, Written
  <2> QED BY <2>4
<1> QED BY <1>3, <1>4 DEF LogStep

\* What is covered stays covered.
LEMMA CoversStep ==
    ASSUME CoreInv, CoreInv', LogStep, [Next]_vars,
           NEW p \in OpTimes, NEW o \in OpTimes, Covers(p, o)
    PROVE  Covers(p, o)'
<1>1. Chosen(p)'
  BY ChosenStep DEF Covers
<1>2. ASSUME NEW n \in Nodes, Has(log'[n], p) PROVE Has(log'[n], o)
  <2>1. Types /\ Types' /\ o[2] \in Nat /\ p[2] \in Nat /\ o[2] <= p[2]
    <3>1. Types /\ Types'
      BY TypesHold, PTL DEF CoreInv, BaseInv
    <3> QED BY <3>1, OpTimeFields, Bounds DEF Covers
  <2>2. PICK s \in Nodes : Has(log[s], p) /\ \A i \in 1 .. p[2] : log'[n][i] = log[s][i]
    BY <1>2, ChosenInherited DEF Covers
  <2>3. Has(log[s], o)
    BY <2>2 DEF Covers
  <2>4. Len(log'[n]) \in Nat /\ p[2] <= Len(log'[n]) /\ 1 <= o[2] /\ log[s][o[2]] = o[1]
    BY <1>2, <2>1, <2>3 DEF Has, Types, Numbers
  <2>5. o[2] \in 1 .. p[2] /\ o[2] \in 1 .. Len(log'[n])
    BY <2>1, <2>4
  <2> QED BY <2>2, <2>4, <2>5 DEF Has
<1> QED BY <1>1, <1>2 DEF Covers, Has

\* The entries of an oplog up to a chosen one are covered by it.
LEMMA PrimedCovers ==
    ASSUME CoreInv', NEW p \in OpTimes, p # Null, Chosen(p)', NEW n \in Nodes,
           Has(log'[n], p), NEW o \in OpTimes, Has(log'[n], o), AtMost(o, p)
    PROVE  Covers(p, o)'
<1>1. /\ p[1] \in Nat /\ p[2] \in Nat /\ o[1] \in Nat /\ o[2] \in Nat
      /\ p[2] \in 1 .. Len(log'[n]) /\ log'[n][p[2]] = p[1]
      /\ o[2] \in 1 .. Len(log'[n]) /\ log'[n][o[2]] = o[1]
  BY OpTimeFields, Bounds DEF Has
<1>2. o[2] <= p[2]
  <2>1. ASSUME ~(o[2] <= p[2]) PROVE FALSE
    <3>1. p[2] <= o[2]
      BY <1>1, <2>1
    <3>2. p[1] <= o[1]
      BY <1>1, <3>1 DEF CoreInv, LogInv, Ordered
    <3> QED BY <1>1, <2>1, <3>2 DEF AtMost
  <2> QED BY <2>1
<1>3. ASSUME NEW m \in Nodes, Has(log'[m], p) PROVE Has(log'[m], o)
  <2>1. p[2] \in 1 .. Len(log'[m]) /\ log'[m][p[2]] = p[1]
    BY <1>3 DEF Has
  <2>2. o[2] \in 1 .. p[2] /\ p[2] <= p[2] /\ o[2] \in 1 .. Len(log'[m])
    BY <1>1, <1>2, <2>1
  <2>3. log'[m][o[2]] = log'[n][o[2]]
    BY <1>1, <2>1, <2>2, SMTT(30) DEF CoreInv, LogInv, Matching
  <2> QED BY <1>1, <2>2, <2>3 DEF Has
<1> QED BY <1>2, <1>3 DEF Covers, Has

\* Entries are committed in no other steps than these.
LEMMA CommittedSteps ==
    ASSUME [Next]_vars
    PROVE  \/ committed' = committed
           \/ \E n, m \in Nodes : Flush(n) \/ RecordPosition(n, m)
<1>1. CASE UNCHANGED vars
  BY <1>1 DEF vars
<1>2. ASSUME NEW n \in Nodes, StartElection(n) \/ FinishStepDown(n) PROVE committed' = committed
  BY <1>2 DEF StartElection, FinishStepDown
<1>3. ASSUME NEW n \in Nodes, NEW m \in Nodes, Vote(n, m) \/ UpdateTerm(n, m)
      PROVE  committed' = committed
  BY <1>3 DEF Vote, UpdateTerm
<1>4. ASSUME NEW n \in Nodes, SignalDrainComplete(n) \/ ClientWrite(n)
      PROVE  committed' = committed
  BY <1>4 DEF SignalDrainComplete, ClientWrite
<1>5. ASSUME NEW n \in Nodes, NEW s \in Nodes, NEW k \in 0 .. MaxBatch, Fetch(n, s, k)
      PROVE  committed' = committed
  BY <1>5 DEF Fetch
<1>6. ASSUME NEW n \in Nodes, NEW s \in Nodes, StartRollback(n, s)
      PROVE  committed' = committed
  BY <1>6 DEF StartRollback
<1>7. ASSUME NEW n \in Nodes, Rollback(n) \/ RollbackFails(n) PROVE committed' = committed
  BY <1>7 DEF Rollback, RollbackFails
<1>8. ASSUME NEW n \in Nodes, NEW i \in 0 .. MaxLog, Crash(n, i) PROVE committed' = committed
  BY <1>8 DEF Crash
<1> QED BY <1>1, <1>2, <1>3, <1>4, <1>5, <1>6, <1>7, <1>8 DEF Next

\* The fifth layer holds initially.
LEMMA CommitInit == Init => CommitInv
BY DEF Init, CommitInv

\* Every step keeps the fifth layer.
LEMMA CommitStep ==
    ASSUME CoreInv, ReportInv, CommitInv, [Next]_vars
    PROVE  CommitInv'
<1>1. CoreInv' /\ LogStep /\ committed \subseteq OpTimes /\ Types
  BY CoreStep, TypesHold DEF CoreInv, BaseInv, TypeOK
<1>2. ASSUME NEW o \in committed PROVE \E p \in OpTimes : Covers(p, o)'
  <2>1. PICK p \in OpTimes : Covers(p, o)
    BY DEF CommitInv
  <2> QED BY <1>1, <2>1, CoversStep
<1>3. CASE committed' = committed
  BY <1>2, <1>3 DEF CommitInv
<1>4. CASE \E n, m \in Nodes : Flush(n) \/ RecordPosition(n, m)
  <2>1. PICK n \in Nodes, m \in Nodes : Flush(n) \/ RecordPosition(n, m)
    BY <1>4
  <2>2. CASE UNCHANGED <<pointVars, committed>>
    BY <1>2, <2>2 DEF CommitInv
  <2>3. CASE \E point \in OpTimes : CommitsTo(n, point)
    <3>1. PICK point \in OpTimes : CommitsTo(n, point)
      BY <2>3
    <3>2. /\ point # Null /\ Chosen(point)' /\ Has(log'[n], point) /\ log' = log
          /\ committed' = committed \cup {o \in EntriesOf(log[n]) : AtMost(o, point)}
      BY <3>1 DEF CommitsTo
    <3>3. ASSUME NEW o \in EntriesOf(log[n]), AtMost(o, point) PROVE Covers(point, o)'
      <4>1. o \in OpTimes /\ Has(log'[n], o)
        BY <1>1, <3>2, EntriesFacts DEF Types, Records
      <4> QED BY <1>1, <3>2, <3>3, <4>1, PrimedCovers
    <3> QED BY <1>2, <3>2, <3>3 DEF CommitInv
  <2> QED BY <2>1, <2>2, <2>3, PositionSteps
<1> QED BY <1>3, <1>4, CommittedSteps

\* What the invariant says of committed entries.
LEMMA CommitInvSurvives == CoreInv /\ CommitInv => CommittedSurvives
<1> SUFFICES ASSUME CoreInv, CommitInv PROVE CommittedSurvives
  OBVIOUS
<1>1. Types /\ LogInv /\ committed \subseteq OpTimes
  BY TypesHold DEF CoreInv, BaseInv, TypeOK
<1>2. ASSUME NEW o \in committed
      PROVE  IsMajority({n \in Nodes : o[2] <= durable[n] /\ Holds(log[n], o)})
  <2>1. PICK p \in OpTimes : Covers(p, o)
    BY DEF CommitInv
  <2>2. o \in OpTimes /\ o[2] \in Nat /\ p[2] \in Nat /\ o[2] <= p[2]
    BY <1>1, <2>1, OpTimeFields, Bounds DEF Covers
  <2>3. ASSUME NEW v \in Keepers(p)
        PROVE  v \in {n \in Nodes : o[2] <= durable[n] /\ Holds(log[n], o)}
    <3>1. v \in Nodes /\ p[2] <= durable[v] /\ Has(log[v], p) /\ durable[v] \in Nat
      BY <1>1 DEF Keepers, Types, Numbers
    <3>2. Has(log[v], o) /\ log[v] \in Logs
      BY <1>1, <2>1, <3>1 DEF Covers, Types, Records
    <3> QED BY <2>2, <3>1, <3>2, EntriesFacts
  <2>4. IsMajority(Keepers(p))
    BY <2>1 DEF Covers, Chosen
  <2> QED BY <2>3, <2>4, MajorityGrows
<1>3. ASSUME NEW n \in Nodes, NEW o \in committed, ~Holds(log[n], o),
             IsMajority({v \in Nodes : AtMost(lastApplied(v), lastApplied(n))})
      PROVE  FALSE
  <2> DEFINE behind == {v \in Nodes : AtMost(lastApplied(v), lastApplied(n))}
  <2>1. PICK p \in OpTimes : Covers(p, o)
    BY DEF CommitInv
  <2>2. o \in OpTimes /\ log[n] \in Logs /\ LastOf(log[n]) \in OpTimes
    BY <1>1 DEF Types, Records
  <2>3. ~Has(log[n], o)
    BY <1>3, <2>2, EntriesFacts
  <2>4. ~Has(log[n], p) /\ Chosen(p) /\ p # Null
    BY <2>1, <2>3 DEF Covers
  <2>5. Keepers(p) \in SUBSET Nodes /\ behind \in SUBSET Nodes /\ IsMajority(Keepers(p))
    BY <2>4 DEF Keepers, Chosen
  <2>6. PICK v \in behind : v \in Keepers(p)
    BY <1>3, <2>5, MajoritiesMeet
  <2>7. v \in Nodes /\ Has(log[v], p) /\ AtMost(LastOf(log[v]), LastOf(log[n]))
    BY <2>6 DEF Keepers, lastApplied
  <2>8. LastOf(log[n]) = Null \/ Has(log[n], LastOf(log[n]))
    BY <2>2, LastFacts
  <2>9. Has(log[n], p) \/ LaterThan(n, p[1])
    BY <1>1, <2>2, <2>4, <2>7, <2>8, AheadHas
  <2> QED BY <2>4, <2>9 DEF Chosen
<1> QED BY <1>2, <1>3 DEF CommittedSurvives, CommittedIsDurable, CommittedIsElected

-----------------------------------------------------------------------------
(* What is committed survives *)

\* The inductive invariant behind CommittedSurvives.
SafeInv == CoreInv /\ ReportInv /\ CommitInv

\* It holds initially.
LEMMA SafeInit == Init => SafeInv
BY CoreInit, ReportInit, CommitInit DEF SafeInv

\* Every step keeps it.
LEMMA SafeStep == SafeInv /\ [Next]_vars => SafeInv'
<1> SUFFICES ASSUME SafeInv, [Next]_vars PROVE SafeInv'
  OBVIOUS
<1>1. CoreInv /\ ReportInv /\ CommitInv
  BY DEF SafeInv
<1>2. CoreInv' /\ ReportInv' /\ CommitInv'
  BY <1>1, CoreStep, ReportStep, CommitStep
<1> QED BY <1>2 DEF SafeInv

\* An entry that updateLastCommittedOpTime has passed stays durable on a majority
\* and is had by whoever a majority can elect, through any number of elections,
\* rollbacks and crashes, for every number of members, if votes are in turn.
THEOREM CommittedNeverLost == Spec => []CommittedSurvives
<1>1. SafeInv => CommittedSurvives
  BY CommitInvSurvives DEF SafeInv
<1> QED BY <1>1, SafeInit, SafeStep, PTL DEF Spec

-----------------------------------------------------------------------------
(* What is committed is one log *)

\* No committed entry is without those before it.
NoGaps ==
    \A o \in committed : \A i \in 1 .. o[2] : \E p \in committed : p[2] = i

\* Two committed entries are in one oplog: that of a member of both majorities.
LEMMA CommittedTogether ==
    ASSUME SafeInv, NEW o \in committed, NEW q \in committed
    PROVE  \E n \in Nodes : Has(log[n], o) /\ Has(log[n], q)
<1>1. PICK a \in OpTimes : Covers(a, o)
  BY DEF SafeInv, CommitInv
<1>2. PICK b \in OpTimes : Covers(b, q)
  BY DEF SafeInv, CommitInv
<1>3. /\ Keepers(a) \in SUBSET Nodes /\ IsMajority(Keepers(a))
      /\ Keepers(b) \in SUBSET Nodes /\ IsMajority(Keepers(b))
  BY <1>1, <1>2 DEF Covers, Chosen, Keepers
<1>4. PICK v \in Keepers(a) : v \in Keepers(b)
  BY <1>3, MajoritiesMeet
<1>5. v \in Nodes /\ Has(log[v], a) /\ Has(log[v], b)
  BY <1>4 DEF Keepers
<1> QED BY <1>1, <1>2, <1>5 DEF Covers

\* So the committed entries are those of one log.
LEMMA CommittedIsLog ==
    ASSUME SafeInv, NoGaps
    PROVE  /\ Abstract!IsLog(committed)
           /\ \A o \in committed : o \in Nat \X Nat
<1>1. Types /\ Ordered /\ committed \subseteq OpTimes
  BY TypesHold DEF SafeInv, CoreInv, LogInv, BaseInv, TypeOK
<1>2. \A o \in committed : o \in Nat \X Nat /\ o = <<o[1], o[2]>>
  BY <1>1, OpTimeFields
<1>3. ASSUME NEW o \in committed, NEW p \in committed
      PROVE  /\ 0 < o[2]
             /\ o[2] <= p[2] => o[1] <= p[1] /\ (o[2] = p[2] => o = p)
  <2>1. PICK n \in Nodes : Has(log[n], o) /\ Has(log[n], p)
    BY CommittedTogether
  <2>2. Len(log[n]) \in Nat /\ o[2] \in 1 .. Len(log[n]) /\ p[2] \in 1 .. Len(log[n])
    BY <1>1, <2>1 DEF Has, Types, Numbers
  <2>3. o[1] = log[n][o[2]] /\ p[1] = log[n][p[2]]
    BY <2>1 DEF Has
  <2>4. o[2] <= p[2] => o[1] <= p[1]
    BY <1>1, <2>2, <2>3 DEF Ordered
  <2>5. o[2] = p[2] => o = p
    BY <1>2, <2>3
  <2> QED BY <2>2, <2>4, <2>5
<1> QED BY <1>2, <1>3 DEF NoGaps, Abstract!IsLog

\* What a step commits are the first entries of an oplog.
LEMMA CommitsFirst ==
    ASSUME SafeInv, [Next]_vars
    PROVE  \/ committed' = committed
           \/ \E n \in Nodes, point \in OpTimes : CommitsTo(n, point)
<1>1. CoreInv /\ ReportInv
  BY DEF SafeInv
<1>2. CASE \E n, m \in Nodes : Flush(n) \/ RecordPosition(n, m)
  <2>1. PICK n \in Nodes, m \in Nodes : Flush(n) \/ RecordPosition(n, m)
    BY <1>2
  <2> QED BY <1>1, <2>1, PositionSteps
<1> QED BY <1>2, CommittedSteps

\* Every step leaves no gap.
LEMMA NoGapsStep ==
    ASSUME SafeInv, NoGaps, [Next]_vars
    PROVE  NoGaps'
<1>1. CASE committed' = committed
  BY <1>1 DEF NoGaps
<1>2. ASSUME NEW n \in Nodes, NEW point \in OpTimes, CommitsTo(n, point)
      PROVE  NoGaps'
  <2>1. committed' = committed \cup {o \in EntriesOf(log[n]) : AtMost(o, point)}
    BY <1>2 DEF CommitsTo
  <2>2. Types /\ Ordered /\ log[n] \in Logs /\ point \in Nat \X Nat
    BY TypesHold, OpTimeFields DEF SafeInv, CoreInv, LogInv, BaseInv, Types, Records
  <2>3. ASSUME NEW o \in EntriesOf(log[n]), AtMost(o, point), NEW i \in 1 .. o[2]
        PROVE  \E p \in committed' : p[2] = i
    <3>1. o \in OpTimes /\ Has(log[n], o)
      BY <2>2, EntriesFacts
    <3>2. o[1] \in Nat /\ o[2] \in Nat /\ point[1] \in Nat /\ point[2] \in Nat
      BY <2>2, <3>1, OpTimeFields
    <3>3. /\ Len(log[n]) \in Nat /\ o[2] \in 1 .. Len(log[n]) /\ i \in 1 .. Len(log[n])
          /\ log[n][o[2]] = o[1]
      BY <2>2, <3>1, <3>2 DEF Has, Types, Numbers
    <3>4. log[n][i] \in Nat /\ log[n][i] <= o[1]
      BY <2>2, <3>2, <3>3 DEF Ordered, Types, Numbers
    <3> DEFINE p == EntryAt(log[n], i)
    <3>5. p = <<log[n][i], i>> /\ p \in EntriesOf(log[n])
      BY <3>3 DEF EntryAt, EntriesOf
    <3>6. AtMost(p, point)
      BY <2>3, <3>2, <3>3, <3>4, <3>5 DEF AtMost
    <3> QED BY <2>1, <3>5, <3>6
  <2> QED BY <2>1, <2>3 DEF NoGaps
<1> QED BY <1>1, <1>2, CommitsFirst

\* The primaries of all terms commit one log, to which they only append: through any
\* number of elections, rollbacks and crashes updateLastCommittedOpTime never passes
\* an entry in a place where it has passed another one, if votes are in turn.
THEOREM OneCommittedLog == Spec => ImplementsCommittedLog
<1> DEFINE Inv == SafeInv /\ NoGaps
<1>1. Init => Inv /\ Abstract!Init
  BY SafeInit DEF Init, NoGaps, Abstract!Init
<1>2. Inv /\ [Next]_vars => Inv'
  BY SafeStep, NoGapsStep
<1>3. Inv => /\ Abstract!IsLog(committed)
             /\ \A o \in committed : o \in Nat \X Nat
  BY CommittedIsLog
<1>4. ASSUME Inv, Inv', [Next]_vars PROVE [Abstract!Next]_committed
  <2>1. CASE committed' = committed
    BY <2>1
  <2>2. CASE committed' # committed
    <3>1. PICK n \in Nodes, point \in OpTimes : CommitsTo(n, point)
      BY <1>4, <2>2, CommitsFirst
    <3> DEFINE S == committed' \ committed
    <3>2. committed' = committed \cup S /\ S \in SUBSET OpTimes
      <4>1. committed \subseteq committed'
        BY <3>1 DEF CommitsTo
      <4>2. committed' \subseteq OpTimes
        BY <1>4 DEF SafeInv, CoreInv, BaseInv, TypeOK
      <4> QED BY <4>1, <4>2
    <3>3. Abstract!IsLog(committed) /\ \A o \in committed : o \in Nat \X Nat
      BY <1>3, <1>4
    <3>4. (Abstract!IsLog(committed) /\ \A o \in committed : o \in Nat \X Nat)'
      BY <1>3, <1>4, PTL
    <3>5. ASSUME NEW o \in committed, NEW p \in S PROVE o[2] < p[2]
      <4> SUFFICES ASSUME p[2] <= o[2] PROVE FALSE
        BY <3>3, <3>4
      <4>1. p \in committed' /\ p \notin committed /\ p[2] \in 1 .. o[2]
        BY <3>3, <3>4 DEF Abstract!IsLog
      <4>2. PICK q \in committed : q[2] = p[2]
        BY <3>3, <4>1 DEF Abstract!IsLog
      <4>3. q \in committed' /\ q[2] <= p[2]
        BY <3>2, <3>3, <4>2
      <4>4. q = p
        BY <3>4, <4>1, <4>2, <4>3 DEF Abstract!IsLog
      <4> QED BY <4>1, <4>2, <4>4
    <3>6. Abstract!IsLog(committed \cup S)
      BY <3>2, <3>4 DEF Abstract!IsLog
    <3>7. Abstract!Commit(S)
      BY <3>2, <3>5, <3>6 DEF Abstract!Commit
    <3> QED BY <3>2, <3>7 DEF Abstract!Next
  <2> QED BY <2>1, <2>2
<1> HIDE DEF Inv
<1> QED BY <1>1, <1>2, <1>4, PTL DEF Spec, ImplementsCommittedLog, Abstract!Spec

-----------------------------------------------------------------------------
(* The sixth layer: commit points, snapshots and the writes that wait *)

\* p is chosen, and what an oplog with p has up to it is committed.
Settled(p) ==
    /\ Chosen(p)
    /\ \A n \in Nodes, o \in OpTimes :
           Has(log[n], p) /\ Has(log[n], o) /\ AtMost(o, p) => o \in committed

\* What a member takes for committed is, and its snapshot is no newer.
PointInv ==
    \A n \in Nodes :
        /\ lastCommitted[n] # Null => /\ Settled(lastCommitted[n])
                                      /\ lastCommitted[n][1] <= term[n]
        /\ AtMost(snapshot[n], lastCommitted[n])

\* The write of a client that waits was written in no later term, a member that
\* leads in its term has it, and a candidate asks for votes for a later one.
WaitInv ==
    \A n \in Nodes : \A o \in waiting[n] :
        /\ o \in OpTimes /\ o[1] <= term[n]
        /\ Candidate(n) => o[1] < term[n]
        /\ Leader(n) /\ o[1] = term[n] => Has(log[n], o)

\* What a step can do to the commit point of n, its candidates and its snapshot.
\* It leaves them alone, perhaps giving up a rollback.
Keeps(n) ==
    /\ lastCommitted'[n] = lastCommitted[n] /\ candidates'[n] = candidates[n]
    /\ snapshot'[n] = snapshot[n] /\ rollback'[n] \in {rollback[n], NoNode}
    /\ Extends(n) /\ term'[n] >= term[n]

\* In a step the oplog of n becomes a part of that of s.
Prefix(n, s) ==
    /\ Len(log'[n]) <= Len(log[s])
    /\ \A i \in 1 .. Len(log'[n]) : log'[n][i] = log[s][i]

\* n has written or applied entries, and may have heard of a commit point.
Applies(n) ==
    /\ Stabilised(n, candidates[n] \cup {LastOf(log'[n])}, lastCommitted'[n])
    /\ rollback[n] = NoNode /\ rollback'[n] = NoNode
    /\ Extends(n) /\ term'[n] >= term[n]
    /\ \/ lastCommitted'[n] = lastCommitted[n]
       \/ \E s \in Nodes \ {n} :
              /\ lastCommitted'[n] = lastCommitted[s] /\ term'[n] >= term[s]
              /\ Before(lastCommitted[n], lastCommitted[s]) /\ Prefix(n, s)

\* n enters ROLLBACK.
Drops(n) ==
    /\ lastCommitted'[n] = lastCommitted[n] /\ candidates'[n] = candidates[n]
    /\ snapshot'[n] = Null /\ log'[n] = log[n] /\ term'[n] = term[n]

\* n rolls back.
Cuts(n) ==
    /\ Rollback(n)
    /\ lastCommitted'[n] = lastCommitted[n] /\ snapshot'[n] = snapshot[n]
    /\ candidates'[n] =
           CandidatesLeft(n, EntryAt(log[n], CommonPoint(log[n], log[rollback[n]])))
    /\ term'[n] = term[n] /\ rollback'[n] = NoNode

\* n crashes and restarts.
Restarts(n) ==
    /\ lastCommitted'[n] = Null /\ snapshot'[n] = Null /\ waiting'[n] = {}
    /\ candidates'[n] \subseteq {LastOf(log'[n])}

\* All that a step can do to them.
PointMoves(n) ==
    \/ Keeps(n) \/ Applies(n) \/ Drops(n) \/ Cuts(n) \/ Restarts(n)
    \/ \E point \in OpTimes : CommitsTo(n, point)

\* A step that changes neither the oplog nor what is known keeps it.
LEMMA KeepsIntro ==
    ASSUME Types, UNCHANGED pointVars, NEW n \in Nodes, log'[n] = log[n],
           rollback'[n] = rollback[n] \/ rollback'[n] = NoNode, term'[n] >= term[n]
    PROVE  Keeps(n)
<1>1. Extends(n)
  BY DEF Extends, Types, Numbers
<1> QED BY <1>1 DEF Keeps, pointVars

\* Elections and terms leave the commit points alone.
LEMMA VotingMoves ==
    ASSUME CoreInv, NEW n \in Nodes, NEW m \in Nodes,
           \/ StartElection(n) \/ FinishStepDown(n) \/ Vote(n, m) \/ UpdateTerm(n, m)
    PROVE  \A k \in Nodes : Keeps(k)
<1>1. Types /\ term \in [Nodes -> Terms] /\ BaseInv
  BY TypesHold DEF CoreInv, BaseInv, TypeOK
<1>2. log' = log /\ rollback' = rollback /\ UNCHANGED pointVars
  BY DEF StartElection, FinishStepDown, Vote, UpdateTerm, logVars
<1>3. \A k \in Nodes : term'[k] >= term[k]
  <2>1. CASE StartElection(n)
    BY <1>1, <2>1, StartElectionFacts DEF Types, Numbers
  <2>2. CASE FinishStepDown(n)
    BY <1>1, <2>2 DEF FinishStepDown, Types, Numbers
  <2>3. CASE Vote(n, m)
    <3>1. term' = [term EXCEPT ![n] = term[m]] /\ term[n] <= term[m]
      BY <2>3 DEF Vote, MayVote
    <3> QED BY <1>1, <3>1 DEF Types, Numbers
  <2>4. CASE UpdateTerm(n, m)
    <3>1. LearnTerm(n, term[m]) /\ term[m] \in Terms
      BY <1>1, <2>4 DEF UpdateTerm
    <3>2. term' = term \/ (term' = [term EXCEPT ![n] = term[m]] /\ term[m] > term[n])
      BY <3>1 DEF LearnTerm
    <3> QED BY <1>1, <3>2 DEF Types, Numbers
  <2> QED BY <2>1, <2>2, <2>3, <2>4
<1> QED BY <1>1, <1>2, <1>3, KeepsIntro

\* Writing applies an entry.
LEMMA WritingMoves ==
    ASSUME CoreInv, CoreInv', NEW n \in Nodes, SignalDrainComplete(n) \/ ClientWrite(n)
    PROVE  Applies(n) /\ \A k \in Nodes \ {n} : Keeps(k)
<1>1. Types /\ Types' /\ TypeOK /\ BaseInv /\ BaseInv' /\ VoteInv /\ LogInv
  BY TypesHold, PTL DEF CoreInv, BaseInv
<1>2. /\ LogEntry(n) /\ term' = term /\ rollback' = rollback
      /\ lastCommitted' = lastCommitted
  BY DEF SignalDrainComplete, ClientWrite, electVars
<1>3. /\ Written(n) /\ Leader(n) /\ \A m \in Nodes \ {n} : log'[m] = log[m]
  BY <1>1, CalmWrites
<1>4. rollback[n] = NoNode /\ Len(log[n]) \in Nat /\ term[n] \in Nat
  BY <1>1, <1>3 DEF VoteInv, LeaderInv, Types, Numbers
<1>5. Extends(n)
  BY <1>3, <1>4 DEF Written, Extends
<1>6. <<term[n], Len(log[n]) + 1>> = LastOf(log'[n]) /\ LastOf(log'[n]) \in OpTimes
  <2>1. Len(log'[n]) = Len(log[n]) + 1 /\ log'[n][Len(log[n]) + 1] = term[n]
    BY <1>3 DEF Written
  <2>2. LastOf(log'[n]) = <<term[n], Len(log[n]) + 1>>
    BY <1>4, <2>1 DEF LastOf, EntryAt
  <2>3. LastOf(log'[n]) \in OpTimes
    BY <1>1 DEF Types, Records
  <2> QED BY <2>2, <2>3
<1>7. PICK o \in OpTimes : o = LastOf(log'[n])
  BY <1>6
<1>8. SetMyLastApplied(n, o, lastCommitted[n], FALSE) /\ lastCommitted[n] \in OpTimes
  BY <1>1, <1>2, <1>6, <1>7 DEF LogEntry, Types, Records
<1>9. Stabilised(n, candidates[n] \cup {o}, lastCommitted[n])
  BY <1>1, <1>8, SetMyLastAppliedFacts
<1>10. Applies(n)
  BY <1>2, <1>4, <1>5, <1>7, <1>9 DEF Applies, Stabilised
<1>11. ASSUME NEW k \in Nodes, k # n PROVE Keeps(k)
  <2>1. candidates'[k] = candidates[k] /\ snapshot'[k] = snapshot[k] /\ term[k] \in Nat
    BY <1>1, <1>9, <1>11 DEF Stabilised, Types, Numbers
  <2>2. Extends(k)
    BY <1>1, <1>3, <1>11 DEF Extends, Types, Numbers
  <2> QED BY <1>2, <2>1, <2>2 DEF Keeps
<1> QED BY <1>10, <1>11

\* Fetching applies entries.
LEMMA FetchingMoves ==
    ASSUME CoreInv, CoreInv', NEW n \in Nodes, NEW s \in Nodes, NEW k \in 0 .. MaxBatch,
           Fetch(n, s, k)
    PROVE  Applies(n) /\ \A m \in Nodes \ {n} : Keeps(m)
<1>1. Types /\ Types' /\ TypeOK /\ TypeOK' /\ BaseInv /\ BaseInv' /\ VoteInv /\ LogInv
  BY TypesHold, PTL DEF CoreInv, BaseInv
<1>2. /\ rollback[n] = NoNode /\ rollback' = rollback /\ LearnTerm(n, term[s])
      /\ term \in [Nodes -> Terms]
  BY <1>1 DEF Fetch, CanFetch, TypeOK
<1>3. /\ term' = term \/ (term' = [term EXCEPT ![n] = term[s]] /\ term[s] > term[n])
      /\ ~Leader(n) /\ term[s] > term[n] => term' = [term EXCEPT ![n] = term[s]]
  BY <1>2 DEF LearnTerm
<1>4. /\ \A m \in Nodes : term[m] \in Nat
      /\ \A m \in Nodes \ {n} : term'[m] = term[m]
      /\ term'[n] = term[n] \/ (term'[n] = term[s] /\ term[s] > term[n])
      /\ ~Leader(n) /\ term[s] > term[n] => term'[n] = term[s]
  <2>1. \A m \in Nodes : term[m] \in Nat
    BY <1>1 DEF Types, Numbers
  <2> QED BY <1>2, <1>3, <2>1
<1>5. (\A m \in Nodes : term'[m] >= term[m]) /\ (~Leader(n) => term'[n] >= term[s])
  BY <1>4
<1>6. /\ \A m \in Nodes \ {n} : lastCommitted'[m] = lastCommitted[m]
      /\ \/ lastCommitted'[n] = lastCommitted[n]
         \/ /\ lastCommitted'[n] = lastCommitted[s] /\ ~Leader(n)
            /\ Before(lastCommitted[n], lastCommitted[s])
      /\ \/ UNCHANGED <<candidates, snapshot>>
         \/ Stabilised(n, candidates[n] \cup {LastOf(log'[n])}, lastCommitted'[n])
  BY <1>1, FetchPoint
<1>7. Stabilised(n, candidates[n] \cup {LastOf(log'[n])}, lastCommitted'[n])
  BY <1>1, <1>6 DEF Stabilised, TypeOK
<1>8. Extends(n) /\ \A m \in Nodes \ {n} : log'[m] = log[m]
  BY <1>1, FetchExtends, FetchLog
<1>9. s # n /\ Prefix(n, s)
  <2> DEFINE new == Len(log[n]) + k
  <2>1. /\ s # n /\ new \in 0 .. Len(log[s]) /\ Len(log'[n]) = new
        /\ \A i \in 1 .. new : log'[n][i] = log[s][i]
    BY <1>1, FetchLog
  <2>2. Len(log[s]) \in Nat
    BY <1>1 DEF Types, Numbers
  <2> HIDE DEF new
  <2> QED BY <2>1, <2>2 DEF Prefix
<1>10. Applies(n)
  BY <1>2, <1>5, <1>6, <1>7, <1>8, <1>9 DEF Applies
<1>11. ASSUME NEW m \in Nodes, m # n PROVE Keeps(m)
  <2>1. candidates'[m] = candidates[m] /\ snapshot'[m] = snapshot[m]
    BY <1>7, <1>11 DEF Stabilised
  <2>2. Extends(m)
    BY <1>1, <1>8, <1>11 DEF Extends, Types, Numbers
  <2> QED BY <1>2, <1>5, <1>6, <1>11, <2>1, <2>2 DEF Keeps
<1> QED BY <1>10, <1>11

\* The steps of a rollback.
LEMMA RollingMoves ==
    ASSUME CoreInv, NEW n \in Nodes, NEW s \in Nodes,
           StartRollback(n, s) \/ Rollback(n) \/ RollbackFails(n)
    PROVE  (Keeps(n) \/ Drops(n) \/ Cuts(n)) /\ \A m \in Nodes \ {n} : Keeps(m)
<1>1. /\ Types /\ BaseInv /\ log \in [Nodes -> Logs] /\ term \in [Nodes -> Terms]
      /\ lastCommitted \in [Nodes -> OpTimes] /\ snapshot \in [Nodes -> OpTimes]
      /\ candidates \in [Nodes -> SUBSET OpTimes]
      /\ rollback \in [Nodes -> Nodes \cup {NoNode}]
  BY TypesHold DEF CoreInv, BaseInv, TypeOK
<1>2. term' = term /\ \A m \in Nodes : term'[m] >= term[m]
  <2>1. term' = term
    BY DEF StartRollback, Rollback, RollbackFails, electVars
  <2> QED BY <1>1, <2>1 DEF Types, Numbers
<1>3. /\ lastCommitted' = lastCommitted
      /\ \A m \in Nodes \ {n} : /\ log'[m] = log[m] /\ candidates'[m] = candidates[m]
                                /\ snapshot'[m] = snapshot[m] /\ rollback'[m] = rollback[m]
  <2>1. CASE StartRollback(n, s)
    <3>1. /\ lastCommitted' = [lastCommitted EXCEPT ![n] = lastCommitted[n]]
          /\ log' = log /\ candidates' = candidates
          /\ snapshot' = [snapshot EXCEPT ![n] = Null]
          /\ rollback' = [rollback EXCEPT ![n] = s]
      BY <2>1 DEF StartRollback, PointOfMismatch, logVars
    <3> QED BY <1>1, <3>1
  <2>2. CASE Rollback(n)
    <3>1. \A m \in Nodes \ {n} : log'[m] = log[m]
      BY <1>1, <2>2, RollbackLog
    <3>2. /\ lastCommitted' = lastCommitted /\ snapshot' = snapshot
          /\ rollback' = [rollback EXCEPT ![n] = NoNode]
          /\ \E C : candidates' = [candidates EXCEPT ![n] = C]
      BY <2>2 DEF Rollback
    <3> QED BY <1>1, <3>1, <3>2
  <2>3. CASE RollbackFails(n)
    <3>1. /\ lastCommitted' = lastCommitted /\ candidates' = candidates
          /\ snapshot' = snapshot /\ log' = log
          /\ rollback' = [rollback EXCEPT ![n] = NoNode]
      BY <2>3 DEF RollbackFails, pointVars
    <3> QED BY <1>1, <3>1
  <2> QED BY <2>1, <2>2, <2>3
<1>4. ASSUME NEW m \in Nodes, m # n PROVE Keeps(m)
  <2>1. Extends(m)
    BY <1>1, <1>3, <1>4 DEF Extends, Types, Numbers
  <2> QED BY <1>2, <1>3, <1>4, <2>1 DEF Keeps
<1>5. CASE StartRollback(n, s)
  <2>1. /\ lastCommitted' = [lastCommitted EXCEPT ![n] = lastCommitted[n]]
        /\ log' = log /\ candidates' = candidates
        /\ snapshot' = [snapshot EXCEPT ![n] = Null]
    BY <1>5 DEF StartRollback, PointOfMismatch, logVars
  <2>2. Drops(n)
    BY <1>1, <1>2, <2>1 DEF Drops
  <2> QED BY <1>4, <2>2
<1>6. CASE Rollback(n)
  <2> DEFINE C == CandidatesLeft(n, EntryAt(log[n], CommonPoint(log[n], log[rollback[n]])))
  <2>1. /\ snapshot' = snapshot /\ rollback' = [rollback EXCEPT ![n] = NoNode]
        /\ candidates' = [candidates EXCEPT ![n] = C]
    BY <1>6 DEF Rollback
  <2>2. candidates'[n] = C
    <3> HIDE DEF C
    <3> QED BY <1>1, <2>1
  <2>3. Cuts(n)
    BY <1>1, <1>2, <1>3, <1>6, <2>1, <2>2 DEF Cuts
  <2> QED BY <1>4, <2>3
<1>7. CASE RollbackFails(n)
  <2>1. UNCHANGED pointVars /\ log' = log /\ rollback' = [rollback EXCEPT ![n] = NoNode]
    BY <1>7 DEF RollbackFails
  <2>2. Keeps(n)
    BY <1>1, <1>2, <2>1, KeepsIntro
  <2> QED BY <1>4, <2>2
<1> QED BY <1>5, <1>6, <1>7

\* A crash restarts the member.
LEMMA CrashingMoves ==
    ASSUME CoreInv, NEW n \in Nodes, NEW i \in 0 .. MaxLog, Crash(n, i)
    PROVE  Restarts(n) /\ \A m \in Nodes \ {n} : Keeps(m)
<1>1. /\ Types /\ BaseInv
      /\ lastCommitted \in [Nodes -> OpTimes] /\ snapshot \in [Nodes -> OpTimes]
      /\ rollback \in [Nodes -> Nodes \cup {NoNode}] /\ waiting \in [Nodes -> SUBSET OpTimes]
  BY TypesHold DEF CoreInv, BaseInv, TypeOK
<1>2. /\ lastCommitted' = [lastCommitted EXCEPT ![n] = Null]
      /\ snapshot' = [snapshot EXCEPT ![n] = Null]
      /\ rollback' = [rollback EXCEPT ![n] = NoNode]
      /\ waiting' = [waiting EXCEPT ![n] = {}]
  BY DEF Crash
<1>3. /\ \A m \in Nodes \ {n} : /\ log'[m] = log[m] /\ term'[m] = term[m]
                                /\ candidates'[m] = candidates[m]
      /\ candidates'[n] \subseteq {LastOf(log'[n])}
  BY <1>1, CrashLog
<1>4. Restarts(n)
  BY <1>1, <1>2, <1>3 DEF Restarts
<1>5. ASSUME NEW m \in Nodes, m # n PROVE Keeps(m)
  <2>1. Extends(m) /\ term'[m] >= term[m]
    BY <1>1, <1>3, <1>5 DEF Extends, Types, Numbers
  <2> QED BY <1>1, <1>2, <1>3, <1>5, <2>1 DEF Keeps
<1> QED BY <1>4, <1>5

\* A flush or a position commits, or changes nothing.
LEMMA PositionMoves ==
    ASSUME CoreInv, ReportInv, [Next]_vars, NEW n \in Nodes, NEW m \in Nodes,
           Flush(n) \/ RecordPosition(n, m)
    PROVE  \A k \in Nodes : Keeps(k) \/ \E point \in OpTimes : CommitsTo(k, point)
<1>1. Types /\ lastCommitted \in [Nodes -> OpTimes]
  BY TypesHold DEF CoreInv, BaseInv, TypeOK
<1>2. /\ term' = term /\ log' = log /\ rollback' = rollback
      /\ \A k \in Nodes : term'[k] >= term[k] /\ Extends(k)
  <2>1. term' = term /\ log' = log /\ rollback' = rollback
    BY DEF Flush, RecordPosition, electVars
  <2> QED BY <1>1, <2>1 DEF Extends, Types, Numbers
<1>3. CASE UNCHANGED <<pointVars, committed>>
  <2>1. UNCHANGED pointVars
    BY <1>3
  <2> QED BY <1>1, <1>2, <2>1, KeepsIntro
<1>4. CASE \E point \in OpTimes : CommitsTo(n, point)
  <2>1. PICK point \in OpTimes : CommitsTo(n, point)
    BY <1>4
  <2>2. ASSUME NEW k \in Nodes, k # n PROVE Keeps(k)
    <3>1. /\ lastCommitted' = [lastCommitted EXCEPT ![n] = point]
          /\ candidates'[k] = candidates[k] /\ snapshot'[k] = snapshot[k]
      BY <2>1, <2>2 DEF CommitsTo, Stabilised
    <3> QED BY <1>1, <1>2, <2>2, <3>1 DEF Keeps
  <2> QED BY <2>1, <2>2
<1> QED BY <1>3, <1>4, PositionSteps

\* Every step is one of these for every member.
LEMMA PointSteps ==
    ASSUME CoreInv, ReportInv, [Next]_vars, NEW n \in Nodes
    PROVE  PointMoves(n)
<1>1. CoreInv' /\ Types /\ Types'
  <2>1. CoreInv'
    BY CoreStep
  <2> QED BY <2>1, TypesHold, PTL DEF CoreInv, BaseInv
<1>2. CASE UNCHANGED vars
  <2>1. UNCHANGED pointVars /\ log' = log /\ rollback' = rollback /\ term' = term
    BY <1>2 DEF vars, electVars, logVars
  <2>2. Keeps(n)
    BY <1>1, <2>1, KeepsIntro DEF Types, Numbers
  <2> QED BY <2>2 DEF PointMoves
<1>3. CASE \E k, m \in Nodes : \/ StartElection(k) \/ FinishStepDown(k)
                               \/ Vote(k, m) \/ UpdateTerm(k, m)
  BY <1>3, VotingMoves DEF PointMoves
<1>4. CASE \E k \in Nodes : SignalDrainComplete(k) \/ ClientWrite(k)
  BY <1>1, <1>4, WritingMoves DEF PointMoves
<1>5. CASE \E k, s \in Nodes, j \in 0 .. MaxBatch : Fetch(k, s, j)
  BY <1>1, <1>5, FetchingMoves DEF PointMoves
<1>6. CASE \E k, s \in Nodes : StartRollback(k, s) \/ Rollback(k) \/ RollbackFails(k)
  BY <1>6, RollingMoves DEF PointMoves
<1>7. CASE \E k \in Nodes, i \in 0 .. MaxLog : Crash(k, i)
  BY <1>7, CrashingMoves DEF PointMoves
<1>8. CASE \E k, m \in Nodes : Flush(k) \/ RecordPosition(k, m)
  BY <1>8, PositionMoves DEF PointMoves
<1> QED BY <1>2, <1>3, <1>4, <1>5, <1>6, <1>7, <1>8 DEF Next

\* A step leaves the waiting writes of a member, drops them or adds one.
LEMMA WaitSteps ==
    ASSUME CoreInv, [Next]_vars, NEW n \in Nodes
    PROVE  \/ waiting'[n] = waiting[n] /\ term'[n] >= term[n]
           \/ waiting'[n] = {}
           \/ ClientWrite(n)
<1>1. CoreInv' /\ Types /\ waiting \in [Nodes -> SUBSET OpTimes]
  BY CoreStep, TypesHold DEF CoreInv, BaseInv, TypeOK
<1>2. CASE UNCHANGED vars
  BY <1>1, <1>2 DEF vars, electVars, Types, Numbers
<1>3. ASSUME NEW k \in Nodes, NEW m \in Nodes,
             StartElection(k) \/ FinishStepDown(k) \/ Vote(k, m) \/ UpdateTerm(k, m)
      PROVE  waiting'[n] = waiting[n] /\ term'[n] >= term[n]
  <2>1. waiting' = waiting
    BY <1>3 DEF StartElection, FinishStepDown, Vote, UpdateTerm
  <2> QED BY <1>3, <2>1, VotingMoves DEF Keeps
<1>4. ASSUME NEW k \in Nodes, SignalDrainComplete(k)
      PROVE  waiting'[n] = waiting[n] /\ term'[n] >= term[n]
  BY <1>1, <1>4 DEF SignalDrainComplete, Types, Numbers
<1>5. ASSUME NEW k \in Nodes, ClientWrite(k), k # n
      PROVE  waiting'[n] = waiting[n] /\ term'[n] >= term[n]
  <2>1. term' = term /\ \E W : waiting' = [waiting EXCEPT ![k] = W]
    BY <1>5 DEF ClientWrite, electVars
  <2> QED BY <1>1, <1>5, <2>1 DEF Types, Numbers
<1>6. ASSUME NEW k \in Nodes, NEW s \in Nodes, NEW j \in 0 .. MaxBatch, Fetch(k, s, j)
      PROVE  waiting'[n] = waiting[n] /\ term'[n] >= term[n]
  <2>1. waiting' = waiting
    BY <1>6 DEF Fetch
  <2> QED BY <1>1, <1>6, <2>1, FetchingMoves DEF Keeps, Applies
<1>7. ASSUME NEW k \in Nodes, NEW s \in Nodes,
             StartRollback(k, s) \/ Rollback(k) \/ RollbackFails(k)
      PROVE  waiting'[n] = waiting[n] /\ term'[n] >= term[n]
  <2>1. waiting' = waiting /\ term' = term
    BY <1>7 DEF StartRollback, Rollback, RollbackFails, electVars
  <2> QED BY <1>1, <2>1 DEF Types, Numbers
<1>8. ASSUME NEW k \in Nodes, NEW i \in 0 .. MaxLog, Crash(k, i)
      PROVE  (waiting'[n] = waiting[n] /\ term'[n] >= term[n]) \/ waiting'[n] = {}
  <2>1. waiting' = [waiting EXCEPT ![k] = {}]
    BY <1>8 DEF Crash
  <2> QED BY <1>1, <1>8, <2>1, CrashingMoves DEF Restarts, Keeps
<1>9. ASSUME NEW k \in Nodes, NEW m \in Nodes, Flush(k) \/ RecordPosition(k, m)
      PROVE  waiting'[n] = waiting[n] /\ term'[n] >= term[n]
  <2>1. waiting' = waiting /\ term' = term
    BY <1>9 DEF Flush, RecordPosition, electVars
  <2> QED BY <1>1, <2>1 DEF Types, Numbers
<1> QED BY <1>2, <1>3, <1>4, <1>5, <1>6, <1>7, <1>8, <1>9 DEF Next

\* Nothing ceases to be committed.
LEMMA CommittedGrows ==
    ASSUME CoreInv, ReportInv, [Next]_vars
    PROVE  committed \subseteq committed'
<1>1. CASE committed' = committed
  BY <1>1
<1>2. CASE \E n, m \in Nodes : Flush(n) \/ RecordPosition(n, m)
  <2>1. PICK n \in Nodes, m \in Nodes : Flush(n) \/ RecordPosition(n, m)
    BY <1>2
  <2>2. UNCHANGED <<pointVars, committed>> \/ \E point \in OpTimes : CommitsTo(n, point)
    BY <2>1, PositionSteps
  <2> QED BY <2>2 DEF CommitsTo
<1> QED BY <1>1, <1>2, CommittedSteps

\* In an oplog with p, what is not after p is not behind it.
Indexed ==
    \A n \in Nodes, p \in OpTimes, o \in OpTimes :
        Has(log[n], p) /\ Has(log[n], o) /\ AtMost(o, p) => o[2] \in 1 .. p[2]

\* This follows from the order of the oplogs.
LEMMA OrderedIndexed == Types /\ LogInv => Indexed
<1> SUFFICES ASSUME Types, LogInv, NEW n \in Nodes, NEW p \in OpTimes, NEW o \in OpTimes,
                    Has(log[n], p), Has(log[n], o), AtMost(o, p)
             PROVE  o[2] \in 1 .. p[2]
  BY DEF Indexed
<1>1. /\ p[1] \in Nat /\ p[2] \in Nat /\ o[1] \in Nat /\ o[2] \in Nat
      /\ p[2] \in 1 .. Len(log[n]) /\ log[n][p[2]] = p[1]
      /\ o[2] \in 1 .. Len(log[n]) /\ log[n][o[2]] = o[1]
  BY OpTimeFields, Bounds DEF Has
<1>2. ASSUME ~(o[2] <= p[2]) PROVE FALSE
  <2>1. p[2] <= o[2]
    BY <1>1, <1>2
  <2>2. p[1] <= o[1]
    BY <1>1, <2>1 DEF LogInv, Ordered
  <2> QED BY <1>1, <1>2, <2>2 DEF AtMost
<1> QED BY <1>1, <1>2

\* What is settled stays settled.
LEMMA SettledStep ==
    ASSUME CoreInv, ReportInv, [Next]_vars, NEW p \in OpTimes, p # Null, Settled(p)
    PROVE  Settled(p)'
<1>1. CoreInv' /\ LogStep /\ committed \subseteq committed'
  BY CoreStep, CommittedGrows
<1>2. Types /\ Types' /\ LogInv /\ LogInv' /\ Chosen(p)
  BY <1>1, TypesHold, PTL DEF CoreInv, BaseInv, Settled
<1>3. Chosen(p)' /\ Indexed'
  <2>1. Indexed'
    BY <1>2, OrderedIndexed, PTL
  <2> QED BY <1>2, <2>1, ChosenStep
<1>4. ASSUME NEW n \in Nodes, NEW o \in OpTimes, Has(log'[n], p), Has(log'[n], o), AtMost(o, p)
      PROVE  o \in committed'
  <2>1. PICK s \in Nodes : Has(log[s], p) /\ \A i \in 1 .. p[2] : log'[n][i] = log[s][i]
    BY <1>1, <1>2, <1>4, ChosenInherited
  <2>2. o[2] \in 1 .. p[2]
    BY <1>3, <1>4 DEF Indexed, Has
  <2>3. p[2] \in 1 .. Len(log[s]) /\ Len(log[s]) \in Nat /\ log'[n][o[2]] = o[1]
    BY <1>2, <1>4, <2>1 DEF Has, Types, Numbers
  <2>4. o[2] \in 1 .. Len(log[s]) /\ log[s][o[2]] = o[1]
    BY <2>1, <2>2, <2>3
  <2>5. Has(log[s], o)
    BY <2>4 DEF Has
  <2> QED BY <1>1, <1>4, <2>1, <2>5 DEF Settled
<1> QED BY <1>3, <1>4 DEF Settled, Has

\* What a primary commits is settled.
LEMMA SettledCommit ==
    ASSUME CoreInv, [Next]_vars, NEW n \in Nodes, NEW p \in OpTimes, CommitsTo(n, p)
    PROVE  Settled(p)'
<1>1. /\ p # Null /\ Chosen(p)' /\ Has(log[n], p) /\ log' = log
      /\ committed' = committed \cup {o \in EntriesOf(log[n]) : AtMost(o, p)}
  BY DEF CommitsTo
<1>2. Types /\ LogInv
  BY TypesHold DEF CoreInv, BaseInv
<1>3. ASSUME NEW m \in Nodes, NEW o \in OpTimes, Has(log[m], p), Has(log[m], o), AtMost(o, p)
      PROVE  o \in committed'
  <2>1. o[2] \in 1 .. p[2]
    BY <1>2, <1>3, OrderedIndexed DEF Indexed
  <2>2. /\ p[2] \in 1 .. Len(log[m]) /\ p[2] \in 1 .. Len(log[n]) /\ p[2] <= p[2]
        /\ log[m][p[2]] = log[n][p[2]] /\ log[m][o[2]] = o[1] /\ Len(log[n]) \in Nat
    BY <1>1, <1>2, <1>3, OpTimeFields DEF Has, Types, Numbers
  <2>3. log[n][o[2]] = o[1]
    BY <1>2, <2>1, <2>2 DEF LogInv, Matching
  <2>4. o[2] \in 1 .. Len(log[n])
    BY <2>1, <2>2
  <2>5. Has(log[n], o) /\ log[n] \in Logs
    BY <1>2, <2>3, <2>4 DEF Has, Types, Records
  <2>6. o \in EntriesOf(log[n])
    BY <2>5, EntriesFacts
  <2> QED BY <1>1, <1>3, <2>6
<1> QED BY <1>1, <1>3 DEF Settled, Has

\* AtMost is transitive.
LEMMA AtMostChain ==
    ASSUME NEW a \in OpTimes, NEW b \in OpTimes, NEW c \in OpTimes, AtMost(a, b), AtMost(b, c)
    PROVE  AtMost(a, c)
<1>1. /\ a[1] \in Nat /\ a[2] \in Nat /\ b[1] \in Nat /\ b[2] \in Nat
      /\ c[1] \in Nat /\ c[2] \in Nat
  BY OpTimeFields, Bounds
<1> QED BY <1>1 DEF AtMost

\* Null is before every optime.
LEMMA NullAtMost ==
    ASSUME NEW a \in OpTimes
    PROVE  AtMost(Null, a) /\ Null \in OpTimes
BY OpTimeFields, Bounds DEF AtMost, Null, OpTimes

\* The sixth layer holds initially.
LEMMA PointInit == Init => PointInv /\ WaitInv
<1>1. AtMost(Null, Null)
  BY DEF AtMost, Null
<1> SUFFICES ASSUME Init PROVE PointInv /\ WaitInv
  OBVIOUS
<1>2. \A n \in Nodes : /\ lastCommitted[n] = Null /\ snapshot[n] = Null
                        /\ waiting[n] = {}
  BY DEF Init
<1> QED BY <1>1, <1>2 DEF PointInv, WaitInv

\* Every step keeps what is known of commit points.
LEMMA PointStep ==
    ASSUME CoreInv, ReportInv, PointInv, [Next]_vars
    PROVE  PointInv'
<1>1. CoreInv' /\ Types /\ Types'
  <2>1. CoreInv'
    BY CoreStep
  <2> QED BY <2>1, TypesHold, PTL DEF CoreInv, BaseInv
<1> SUFFICES ASSUME NEW n \in Nodes
             PROVE  /\ lastCommitted'[n] # Null => /\ Settled(lastCommitted[n])'
                                                   /\ lastCommitted'[n][1] <= term'[n]
                    /\ AtMost(snapshot'[n], lastCommitted'[n])
  BY DEF PointInv
<1>2. /\ lastCommitted'[n] \in OpTimes /\ snapshot'[n] \in OpTimes /\ term'[n] \in Nat
      /\ \A m \in Nodes : /\ lastCommitted[m] \in OpTimes /\ snapshot[m] \in OpTimes
                          /\ term[m] \in Nat
  BY <1>1 DEF Types, Numbers, Records
<1>3. PICK q \in OpTimes : q = lastCommitted'[n]
  BY <1>2
<1>4. q[1] \in Nat
  BY OpTimeFields, Bounds
<1> SUFFICES /\ q # Null => Settled(q)' /\ q[1] <= term'[n]
             /\ AtMost(snapshot'[n], q)
  BY <1>3 DEF Settled, Chosen, Keepers, LaterThan
<1>5. ASSUME NEW m \in Nodes, q = lastCommitted[m], q # Null, term'[n] >= term[m]
      PROVE  Settled(q)' /\ q[1] <= term'[n]
  <2>1. Settled(q) /\ q[1] <= term[m]
    BY <1>5 DEF PointInv
  <2> QED BY <1>2, <1>4, <1>5, <2>1, SettledStep
<1>6. AtMost(snapshot[n], lastCommitted[n])
  BY DEF PointInv
<1>7. CASE Keeps(n)
  BY <1>3, <1>5, <1>6, <1>7 DEF Keeps
<1>8. CASE Applies(n)
  <2>1. \E m \in Nodes : q = lastCommitted[m] /\ term'[n] >= term[m]
    BY <1>3, <1>8 DEF Applies
  <2>2. AtMost(lastCommitted[n], q)
    <3>1. AtMost(q, q)
      BY <1>4, OpTimeFields, Bounds DEF AtMost
    <3> QED BY <1>3, <1>8, <3>1 DEF Applies, Before
  <2>3. AtMost(snapshot[n], q)
    BY <1>2, <1>6, <2>2, AtMostChain
  <2>4. snapshot'[n] = snapshot[n] \/ AtMost(snapshot'[n], q)
    BY <1>3, <1>8 DEF Applies, Stabilised
  <2> QED BY <1>5, <2>1, <2>3, <2>4
<1>9. CASE Drops(n)
  <2>1. q = lastCommitted[n] /\ term'[n] >= term[n] /\ snapshot'[n] = Null
    BY <1>2, <1>3, <1>9 DEF Drops
  <2> QED BY <1>5, <2>1, NullAtMost
<1>10. CASE Cuts(n)
  <2>1. q = lastCommitted[n] /\ term'[n] >= term[n] /\ snapshot'[n] = snapshot[n]
    BY <1>2, <1>3, <1>10 DEF Cuts
  <2> QED BY <1>5, <1>6, <2>1
<1>11. CASE Restarts(n)
  BY <1>3, <1>11, NullAtMost DEF Restarts
<1>12. CASE \E point \in OpTimes : CommitsTo(n, point)
  <2>1. PICK point \in OpTimes : CommitsTo(n, point)
    BY <1>12
  <2>2. lastCommitted \in [Nodes -> OpTimes]
    BY DEF CoreInv, BaseInv, TypeOK
  <2>3. q = point /\ point[1] = term[n] /\ term' = term /\ Before(lastCommitted[n], point)
    BY <1>3, <2>1, <2>2 DEF CommitsTo, electVars
  <2>4. Settled(q)' /\ q[1] <= term'[n]
    BY <1>2, <2>1, <2>3, SettledCommit
  <2>5. AtMost(snapshot[n], q)
    BY <1>2, <1>6, <2>3, AtMostChain DEF Before
  <2>6. snapshot'[n] = snapshot[n] \/ AtMost(snapshot'[n], q)
    BY <2>1, <2>3 DEF CommitsTo, Stabilised
  <2> QED BY <2>4, <2>5, <2>6
<1> QED BY <1>7, <1>8, <1>9, <1>10, <1>11, <1>12, PointSteps DEF PointMoves

\* Every step keeps what is known of the writes that wait.
LEMMA WaitStep ==
    ASSUME CoreInv, WaitInv, [Next]_vars
    PROVE  WaitInv'
<1>1. CoreInv' /\ Types /\ Types' /\ BaseInv /\ BaseInv' /\ VoteInv /\ VoteInv' /\ LogInv
  <2>1. CoreInv'
    BY CoreStep
  <2> QED BY <2>1, TypesHold, PTL DEF CoreInv, BaseInv
<1> SUFFICES ASSUME NEW n \in Nodes, NEW o \in waiting'[n]
             PROVE  /\ o \in OpTimes /\ o[1] <= term'[n]
                    /\ Candidate(n)' => o[1] < term'[n]
                    /\ Leader(n)' /\ o[1] = term'[n] => Has(log'[n], o)
  BY DEF WaitInv, Has
<1>2. term[n] \in Nat /\ term'[n] \in Nat
  BY <1>1 DEF Types, Numbers
<1>3. ASSUME o \in waiting[n], term'[n] >= term[n]
      PROVE  /\ o \in OpTimes /\ o[1] <= term'[n]
             /\ Candidate(n)' => o[1] < term'[n]
             /\ Leader(n)' /\ o[1] = term'[n] => Has(log'[n], o)
  <2>1. /\ o \in OpTimes /\ o[1] \in Nat /\ o[1] <= term[n]
        /\ Candidate(n) => o[1] < term[n]
        /\ Leader(n) /\ o[1] = term[n] => Has(log[n], o)
    BY <1>3, OpTimeFields, Bounds DEF WaitInv
  <2>2. o[1] <= term'[n]
    BY <1>2, <1>3, <2>1
  <2>3. CASE CalmStep
    <3>1. Candidate(n)' => Candidate(n) /\ term'[n] = term[n]
      BY <2>3 DEF CalmStep, Calm, Candidate
    <3>2. Leader(n)' => Leader(n) /\ term'[n] = term[n] /\ Extends(n)
      BY <2>3 DEF CalmStep, Calm
    <3>3. Extends(n) /\ Has(log[n], o) => Has(log'[n], o)
      BY <1>1, ExtendsHas
    <3> QED BY <2>1, <2>2, <3>1, <3>2, <3>3
  <2>4. CASE \E k \in Nodes : StartElection(k)
    <3>1. PICK k \in Nodes : StartElection(k)
      BY <2>4
    <3>2. /\ term'[k] = term[k] + 1 /\ role[k] = "follower" /\ role' = role /\ log' = log
          /\ \A m \in Nodes \ {k} : term'[m] = term[m] /\ elect'[m] = elect[m]
      BY <1>1, <3>1, StartElectionFacts DEF logVars
    <3>3. CASE n = k
      BY <1>2, <2>1, <2>2, <3>2, <3>3 DEF Leader
    <3>4. CASE n # k
      BY <2>1, <2>2, <3>2, <3>4 DEF Leader, Candidate
    <3> QED BY <3>3, <3>4
  <2>5. CASE \E v, k \in Nodes : Vote(v, k)
    <3>1. PICK v \in Nodes, k \in Nodes : Vote(v, k)
      BY <2>5
    <3>2. /\ v # k /\ Candidate(k) /\ role[v] = "follower" /\ elect'[v] = NoElection
          /\ \A m \in Nodes \ {v} : term'[m] = term[m]
          /\ \A m \in Nodes \ {v, k} : elect'[m] = elect[m]
          /\ role' = role \/ role' = [role EXCEPT ![k] = "draining"]
          /\ log' = log /\ role \in [Nodes -> Roles]
      BY <1>1, <3>1, VoteFacts DEF logVars, BaseInv, TypeOK
    <3>3. CASE n = v
      BY <2>1, <2>2, <3>2, <3>3 DEF Leader, Candidate
    <3>4. CASE n = k
      BY <1>2, <2>1, <2>2, <3>2, <3>4
    <3>5. CASE n # v /\ n # k
      BY <2>1, <2>2, <3>2, <3>5 DEF Leader, Candidate
    <3> QED BY <3>3, <3>4, <3>5
  <2> QED BY <1>1, <2>3, <2>4, <2>5, StepKinds
<1>4. CASE ClientWrite(n)
  <2>1. Written(n) /\ Leader(n) /\ role'[n] = "primary" /\ CalmStep
    BY <1>1, <1>4, CalmWrites
  <2>2. /\ term' = term /\ waiting \in [Nodes -> SUBSET OpTimes]
        /\ waiting' = [waiting EXCEPT ![n] = waiting[n] \cup {<<term[n], Len(log[n]) + 1>>}]
    BY <1>1, <1>4 DEF ClientWrite, electVars, BaseInv, TypeOK
  <2>3. CASE o \in waiting[n]
    BY <1>2, <1>3, <2>2, <2>3
  <2>4. CASE o = <<term[n], Len(log[n]) + 1>>
    <3>1. Len(log[n]) \in Nat
      BY <1>1 DEF Types, Numbers
    <3>2. Has(log'[n], o)
      BY <2>1, <2>4, <3>1 DEF Written, Has
    <3>3. ~Candidate(n)'
      BY <1>1, <2>1 DEF VoteInv, CandidateInv
    <3>4. o \in OpTimes
      <4>1. waiting'[n] \in SUBSET OpTimes
        BY <1>1 DEF BaseInv, TypeOK
      <4> QED BY <4>1
    <3> QED BY <1>2, <2>2, <2>4, <3>2, <3>3, <3>4
  <2> QED BY <2>2, <2>3, <2>4
<1> QED BY <1>3, <1>4, WaitSteps

\* A member that leads in the term of its commit point has what it commits to.
LEMMA PointAcknowledges ==
    ASSUME CoreInv, PointInv, WaitInv
    PROVE  AcknowledgedIsCommitted
<1> SUFFICES ASSUME NEW n \in Nodes, NEW o \in waiting[n], CanAcknowledge(n, o)
             PROVE  o \in committed
  BY DEF AcknowledgedIsCommitted
<1> DEFINE p == lastCommitted[n]
<1>1. Types /\ LogInv /\ role \in [Nodes -> Roles]
  BY TypesHold DEF CoreInv, BaseInv, TypeOK
<1>2. /\ Leader(n) /\ o[1] = term[n] /\ AtMost(o, snapshot[n]) /\ snapshot[n] # Null
  BY DEF CanAcknowledge
<1>3. o \in OpTimes /\ Has(log[n], o) /\ p \in OpTimes /\ snapshot[n] \in OpTimes
  BY <1>1, <1>2 DEF WaitInv, Types, Records
<1>4. AtMost(o, p)
  BY <1>2, <1>3, AtMostChain DEF PointInv
<1>5. o[1] \in Nat /\ p[1] \in Nat /\ o[2] \in 1 .. Len(log[n]) /\ log[n][o[2]] = o[1]
  BY <1>3, OpTimeFields, Bounds DEF Has
<1>6. role[n] = "primary"
  BY <1>1, <1>2, <1>5 DEF Leader, LogInv, Fresh
<1>7. p # Null
  <2>1. o[1] > 0
    BY <1>1, <1>5 DEF Types, Numbers
  <2> QED BY <1>3, <1>4, <1>5, <2>1, OpTimeFields DEF AtMost
<1>8. Settled(p) /\ p[1] = term[n]
  <2>1. Settled(p) /\ p[1] <= term[n]
    BY <1>7 DEF PointInv
  <2>2. p[1] >= o[1] /\ term[n] \in Nat
    BY <1>1, <1>4, <1>5 DEF AtMost, Types, Numbers
  <2> QED BY <1>2, <1>5, <2>1, <2>2
<1>9. PICK m \in Nodes : Has(log[m], p)
  BY <1>8, ChosenHeld DEF Settled
<1>10. Has(log[n], p)
  <2>1. p[2] \in 1 .. Len(log[m]) /\ log[m][p[2]] = term[n]
    BY <1>8, <1>9 DEF Has
  <2>2. p[2] <= Len(log[n]) /\ log[n][p[2]] = term[n] /\ Len(log[n]) \in Nat /\ Len(log[m]) \in Nat
    BY <1>1, <1>6, <2>1 DEF LogInv, HasAll, Types, Numbers
  <2>3. p[2] \in 1 .. Len(log[n])
    BY <2>1, <2>2
  <2> QED BY <1>8, <2>2, <2>3 DEF Has
<1> QED BY <1>3, <1>4, <1>8, <1>10 DEF Settled

\* The inductive invariant behind AcknowledgedIsCommitted.
AckedInv == SafeInv /\ PointInv /\ WaitInv

\* It holds initially.
LEMMA AckedInit == Init => AckedInv
BY SafeInit, PointInit DEF AckedInv

\* Every step keeps it.
LEMMA AckedStep == AckedInv /\ [Next]_vars => AckedInv'
<1> SUFFICES ASSUME AckedInv, [Next]_vars PROVE AckedInv'
  OBVIOUS
<1>1. SafeInv /\ CoreInv /\ ReportInv /\ PointInv /\ WaitInv
  BY DEF AckedInv, SafeInv
<1> QED BY <1>1, SafeStep, PointStep, WaitStep DEF AckedInv

\* When _awaitReplication_inlock tells a client that its write is on a majority,
\* the very entry that the client wrote is committed.
THEOREM AcknowledgedNeverLost == Spec => []AcknowledgedIsCommitted
<1>1. AckedInv => AcknowledgedIsCommitted
  BY PointAcknowledges DEF AckedInv, SafeInv
<1> QED BY <1>1, AckedInit, AckedStep, PTL DEF Spec

-----------------------------------------------------------------------------
(* The seventh layer: rollback and the committed snapshot *)

\* A member takes over a commit point that its oplog need not lead to.  If it
\* lacks the entry, then so do at most those that are not of the majority that
\* has it: with up to four members nobody else, and whom it fetches from next
\* has the entry.  With five it can fetch entries that the set has left behind.
FewMembers == Cardinality(Nodes) <= 4

\* The oplog of n has p, or ends before it and is part of those that have it.
Line(n, p) ==
    \/ Has(log[n], p)
    \/ \A m \in Nodes : Has(log[m], p) =>
           /\ Len(log[n]) < p[2]
           /\ \A i \in 1 .. Len(log[n]) : log[m][i] = log[n][i]

\* The oplog of every member leads to the commit point it knows of.
LineInv ==
    \A n \in Nodes : lastCommitted[n] # Null => Line(n, lastCommitted[n])

\* The candidates of a member are in its oplog, and so is its snapshot, which is
\* committed and is none while the member is in ROLLBACK.
SnapInv ==
    \A n \in Nodes :
        /\ \A o \in candidates[n] : o = Null \/ Has(log[n], o)
        /\ snapshot[n] # Null => /\ rollback[n] = NoNode /\ snapshot[n] \in committed
                                 /\ Has(log[n], snapshot[n])

\* Among few members, a chosen entry is missing from one at most.
LEMMA SmallChosen ==
    ASSUME FewMembers, NEW p, Chosen(p), NEW n \in Nodes, ~Has(log[n], p),
           NEW m \in Nodes, m # n
    PROVE  Has(log[m], p)
<1> SUFFICES ASSUME ~Has(log[m], p) PROVE FALSE
  OBVIOUS
<1> DEFINE rest == (Nodes \ {n}) \ {m}
<1>1. IsFiniteSet(Nodes) /\ IsFiniteSet(Nodes \ {n}) /\ IsFiniteSet(rest)
  BY CommitAssumption, FS_RemoveElement
<1>2. /\ Cardinality(Nodes \ {n}) = Cardinality(Nodes) - 1
      /\ Cardinality(rest) = Cardinality(Nodes \ {n}) - 1
  BY <1>1, FS_RemoveElement
<1>3. Keepers(p) \subseteq rest
  BY DEF Keepers
<1>4. Cardinality(Keepers(p)) <= Cardinality(rest) /\ IsFiniteSet(Keepers(p))
  BY <1>1, <1>3, FS_Subset
<1>5. /\ Cardinality(Nodes) \in Nat /\ Cardinality(rest) \in Nat
      /\ Cardinality(Keepers(p)) \in Nat /\ Cardinality(Nodes \ {n}) \in Nat
  BY <1>1, <1>4, FS_CardinalityType
<1>6. 2 * Cardinality(Keepers(p)) > Cardinality(Nodes)
  BY DEF Chosen, IsMajority
<1> HIDE DEF rest
<1> QED BY <1>2, <1>4, <1>5, <1>6 DEF FewMembers

\* A leader has the commit point it knows of.
LEMMA LeaderHasPoint ==
    ASSUME CoreInv, NEW n \in Nodes, Leader(n), NEW p \in OpTimes, Chosen(p), p[1] <= term[n]
    PROVE  Has(log[n], p)
<1>1. Types /\ LogInv /\ p[1] \in Nat /\ term[n] \in Nat
  BY TypesHold, OpTimeFields, Bounds DEF CoreInv, BaseInv, Types, Numbers
<1>2. CASE p[1] < term[n]
  BY <1>1, <1>2 DEF Chosen, LaterThan
<1>3. CASE p[1] = term[n]
  <2>1. PICK m \in Nodes : Has(log[m], p)
    BY ChosenHeld
  <2>2. p[2] \in 1 .. Len(log[m]) /\ log[m][p[2]] = term[n] /\ Len(log[m]) \in Nat
    BY <1>1, <1>3, <2>1 DEF Has, Types, Numbers
  <2>3. role[n] = "primary"
    BY <1>1, <2>2 DEF Leader, LogInv, Fresh
  <2>4. p[2] <= Len(log[n]) /\ log[n][p[2]] = term[n] /\ Len(log[n]) \in Nat
    BY <1>1, <2>2, <2>3 DEF LogInv, HasAll, Types, Numbers
  <2>5. p[2] \in 1 .. Len(log[n])
    BY <2>2, <2>4
  <2> QED BY <1>3, <2>4, <2>5 DEF Has
<1> QED BY <1>1, <1>2, <1>3

\* The oplog of n, cut from one with a chosen p, is on its line.
LEMMA PrefixLine ==
    ASSUME CoreInv, CoreInv', LogStep, NEW p \in OpTimes, Chosen(p),
           NEW n \in Nodes, NEW s \in Nodes, Has(log[s], p), Prefix(n, s)
    PROVE  Line(n, p)'
<1>1. Types /\ Types' /\ LogInv
  BY TypesHold, PTL DEF CoreInv, BaseInv
<1>2. /\ p[2] \in 1 .. Len(log[s]) /\ log[s][p[2]] = p[1] /\ p[2] \in Nat
      /\ Len(log'[n]) \in Nat
  BY <1>1, OpTimeFields, Bounds DEF Has, Types, Numbers
<1>3. ASSUME NEW m \in Nodes, Has(log'[m], p), ~Has(log'[n], p)
      PROVE  /\ Len(log'[n]) < p[2]
             /\ \A i \in 1 .. Len(log'[n]) : log'[m][i] = log'[n][i]
  <2>1. Len(log'[n]) < p[2]
    <3>1. ASSUME p[2] <= Len(log'[n]) PROVE FALSE
      <4>1. p[2] \in 1 .. Len(log'[n])
        BY <1>2, <3>1
      <4>2. log'[n][p[2]] = p[1]
        BY <1>2, <4>1 DEF Prefix
      <4> QED BY <1>3, <4>1, <4>2 DEF Has
    <3> QED BY <1>2, <3>1
  <2>2. PICK r \in Nodes : Has(log[r], p) /\ \A i \in 1 .. p[2] : log'[m][i] = log[r][i]
    BY <1>3, ChosenInherited
  <2>3. /\ p[2] \in 1 .. Len(log[r]) /\ log[r][p[2]] = log[s][p[2]] /\ p[2] <= p[2]
    BY <1>2, <2>2 DEF Has
  <2>4. \A i \in 1 .. p[2] : log[r][i] = log[s][i]
    BY <1>1, <1>2, <2>3 DEF LogInv, Matching
  <2>5. ASSUME NEW i \in 1 .. Len(log'[n]) PROVE log'[m][i] = log'[n][i]
    <3>1. i \in 1 .. p[2]
      BY <1>2, <2>1
    <3> QED BY <2>2, <2>4, <3>1 DEF Prefix
  <2> QED BY <2>1, <2>5
<1> QED BY <1>3 DEF Line, Has

\* A chosen point stays on the line of a member whose oplog is not cut.
LEMMA LineStep ==
    ASSUME FewMembers, CoreInv, CoreInv', LogStep, NEW p \in OpTimes, Chosen(p),
           NEW n \in Nodes, Extends(n), p[1] <= term[n], Line(n, p)
    PROVE  Line(n, p)'
<1>1. Types /\ Types' /\ LogInv /\ LogInv'
  BY TypesHold, PTL DEF CoreInv, BaseInv
<1>2. Has(log[n], p) => Has(log'[n], p)
  BY <1>1, ExtendsHas
<1>3. CASE Has(log[n], p)
  BY <1>2, <1>3 DEF Line, Has
<1>4. CASE ~Has(log[n], p)
  <2>1. Inherited(n)
    <3>1. ~Written(n)
      BY <1>4, LeaderHasPoint DEF Written
    <3> QED BY <3>1 DEF LogStep
  <2>2. PICK s \in Nodes : Prefix(n, s)
    BY <2>1 DEF Inherited, Prefix
  <2>3. CASE s # n
    <3>1. Has(log[s], p)
      BY <1>4, <2>3, SmallChosen
    <3> QED BY <2>2, <3>1, PrefixLine
  <2>4. CASE s = n
    <3>1. /\ Len(log'[n]) = Len(log[n]) /\ Len(log[n]) \in Nat
          /\ \A i \in 1 .. Len(log[n]) : log'[n][i] = log[n][i]
      BY <1>1, <2>2, <2>4 DEF Prefix, Extends, Types, Numbers
    <3>2. ASSUME NEW m \in Nodes, Has(log'[m], p)
          PROVE  /\ Len(log'[n]) < p[2]
                 /\ \A i \in 1 .. Len(log'[n]) : log'[m][i] = log'[n][i]
      <4>1. PICK r \in Nodes : Has(log[r], p) /\ \A i \in 1 .. p[2] : log'[m][i] = log[r][i]
        BY <3>2, ChosenInherited
      <4>2. Len(log[n]) < p[2] /\ \A i \in 1 .. Len(log[n]) : log[r][i] = log[n][i]
        BY <1>4, <4>1 DEF Line
      <4>3. p[2] \in Nat
        BY OpTimeFields, Bounds
      <4>4. \A i \in 1 .. Len(log[n]) : i \in 1 .. p[2]
        BY <3>1, <4>2, <4>3
      <4> QED BY <3>1, <4>1, <4>2, <4>4
    <3> QED BY <3>2 DEF Line, Has
  <2> QED BY <2>3, <2>4
<1> QED BY <1>3, <1>4

\* A member that may roll back has the commit point it knows of, and so does the
\* part of its oplog that it keeps.
LEMMA RollbackKeepsPoint ==
    ASSUME FewMembers, CoreInv, NEW n \in Nodes, RollbackPossible(n),
           NEW p \in OpTimes, p # Null, Chosen(p), Line(n, p)
    PROVE  Has(log[n], p) /\ p[2] <= CommonPoint(log[n], log[rollback[n]])
<1> DEFINE s == rollback[n]
<1>1. /\ Types /\ LogInv /\ rollback \in [Nodes -> Nodes \cup {NoNode}]
      /\ log \in [Nodes -> Logs]
  BY TypesHold DEF CoreInv, BaseInv, TypeOK
<1>2. /\ s \in Nodes /\ ~Holds(log[s], LastOf(log[n]))
      /\ Before(LastOf(log[n]), LastOf(log[s]))
  BY <1>1 DEF RollbackPossible, lastApplied
<1> HIDE DEF s
<1> DEFINE L == Len(log[n])
           K == Len(log[s])
<1>3. L \in 1 .. L /\ K \in 1 .. K /\ log[n][L] < log[s][K]
  BY <1>1, <1>2, RollbackSource
<1>4. /\ L \in Nat /\ K \in Nat /\ log[n][L] \in Nat /\ log[s][K] \in Nat
      /\ p[1] \in Nat /\ p[2] \in Nat /\ log[n] \in Logs /\ log[s] \in Logs
  <2>1. p[1] \in Nat /\ p[2] \in Nat
    BY OpTimeFields, Bounds
  <2> QED BY <1>1, <1>2, <1>3, <2>1 DEF Types, Numbers
<1>5. /\ LastOf(log[n]) \in OpTimes /\ LastOf(log[n])[1] = log[n][L]
      /\ LastOf(log[n])[2] = L
  BY <1>3, <1>4, LastFacts
<1>6. ~Has(log[s], LastOf(log[n]))
  BY <1>2, <1>4, <1>5, EntriesFacts
<1>7. s # n
  BY <1>3, <1>4
<1>8. Has(log[s], p)
  <2>1. CASE Has(log[n], p)
    <3>1. p[2] \in 1 .. L /\ log[n][p[2]] = p[1] /\ p[2] <= L
      BY <1>4, <2>1 DEF Has
    <3>2. p[1] <= log[n][L]
      BY <1>1, <1>3, <3>1 DEF LogInv, Ordered
    <3>3. LaterThan(s, p[1])
      BY <1>3, <1>4, <3>2 DEF LaterThan
    <3> QED BY <1>2, <3>3 DEF Chosen
  <2>2. CASE ~Has(log[n], p)
    BY <1>2, <1>7, <2>2, SmallChosen
  <2> QED BY <2>1, <2>2
<1>9. Has(log[n], p)
  <2>1. ASSUME ~Has(log[n], p) PROVE FALSE
    <3>1. L < p[2] /\ \A i \in 1 .. L : log[s][i] = log[n][i]
      BY <1>2, <1>8, <2>1 DEF Line
    <3>2. p[2] \in 1 .. K
      BY <1>8 DEF Has
    <3>3. L \in 1 .. K /\ log[s][L] = log[n][L]
      BY <1>3, <1>4, <3>1, <3>2
    <3> QED BY <1>5, <1>6, <3>3 DEF Has
  <2> QED BY <2>1
<1>10. /\ p[2] \in 1 .. L /\ p[2] \in 1 .. K /\ log[n][p[2]] = log[s][p[2]]
       /\ p[2] <= p[2]
  BY <1>4, <1>8, <1>9 DEF Has
<1>11. \A j \in 1 .. p[2] : log[n][j] = log[s][j]
  <2>1. Matching
    BY <1>1 DEF LogInv
  <2> QED BY <1>2, <1>10, <2>1 DEF Matching
<1>12. p[2] \in 0 .. L /\ p[2] <= K
  BY <1>4, <1>10
<1>13. p[2] <= CommonPoint(log[n], log[s])
  BY <1>4, <1>11, <1>12, CommonFacts
<1> QED BY <1>9, <1>13 DEF s

\* The seventh layer holds initially.
LEMMA LineInit == Init => LineInv /\ SnapInv
<1> SUFFICES ASSUME Init PROVE LineInv /\ SnapInv
  OBVIOUS
<1>1. \A n \in Nodes : /\ lastCommitted[n] = Null /\ snapshot[n] = Null
                       /\ candidates[n] = {}
  BY DEF Init
<1> QED BY <1>1 DEF LineInv, SnapInv

\* Every step keeps the oplogs on the lines of their commit points.
LEMMA LineInvStep ==
    ASSUME FewMembers, CoreInv, ReportInv, PointInv, LineInv, [Next]_vars
    PROVE  LineInv'
<1>1. CoreInv' /\ LogStep /\ PointInv'
  BY CoreStep, PointStep
<1>2. Types /\ Types' /\ BaseInv
  BY <1>1, TypesHold, PTL DEF CoreInv, BaseInv
<1> SUFFICES ASSUME NEW n \in Nodes, lastCommitted'[n] # Null
             PROVE  Line(n, lastCommitted[n])'
  BY DEF LineInv
<1>3. /\ lastCommitted'[n] \in OpTimes /\ log'[n] \in Logs
      /\ \A m \in Nodes : lastCommitted[m] \in OpTimes /\ term[m] \in Nat
  BY <1>2 DEF Types, Records, Numbers
<1>4. PICK q \in OpTimes : q = lastCommitted'[n]
  BY <1>3
<1> SUFFICES Line(n, q)'
  BY <1>4 DEF Line
<1>5. ASSUME NEW m \in Nodes, q = lastCommitted[m]
      PROVE  Chosen(q) /\ q[1] <= term[m] /\ Line(m, q)
  <2>1. Settled(q) /\ q[1] <= term[m] /\ Line(m, q)
    BY <1>4, <1>5 DEF PointInv, LineInv
  <2> QED BY <2>1 DEF Settled
<1>6. ASSUME q = lastCommitted[n], Extends(n) PROVE Line(n, q)'
  BY <1>1, <1>4, <1>5, <1>6, LineStep
<1>7. CASE Keeps(n)
  BY <1>4, <1>6, <1>7 DEF Keeps
<1>8. CASE Applies(n)
  <2>1. CASE q = lastCommitted[n]
    BY <1>6, <1>8, <2>1 DEF Applies
  <2>2. CASE \E s \in Nodes \ {n} : q = lastCommitted[s] /\ Prefix(n, s)
    <3>1. PICK s \in Nodes \ {n} : q = lastCommitted[s] /\ Prefix(n, s)
      BY <2>2
    <3>2. CASE Has(log'[n], q)
      BY <3>2 DEF Line, Has
    <3>3. CASE ~Has(log'[n], q)
      <4>1. ~Has(log[n], q)
        BY <1>2, <1>8, <3>3, ExtendsHas DEF Applies
      <4>2. Has(log[s], q)
        BY <1>5, <3>1, <4>1, SmallChosen
      <4> QED BY <1>1, <1>5, <3>1, <4>2, PrefixLine
    <3> QED BY <3>2, <3>3
  <2> QED BY <1>4, <1>8, <2>1, <2>2 DEF Applies
<1>9. CASE Drops(n)
  <2>1. Extends(n)
    BY <1>2, <1>9 DEF Drops, Extends, Types, Numbers
  <2> QED BY <1>4, <1>6, <1>9, <2>1 DEF Drops
<1>10. CASE Cuts(n)
  <2> DEFINE i == CommonPoint(log[n], log[rollback[n]])
  <2>1. Rollback(n) /\ RollbackPossible(n) /\ q = lastCommitted[n]
    BY <1>4, <1>10 DEF Cuts, Rollback
  <2>2. Has(log[n], q) /\ q[2] <= i
    BY <1>4, <1>5, <2>1, RollbackKeepsPoint
  <2>3. /\ i \in 0 .. Len(log[n]) /\ Len(log'[n]) = i
        /\ \A j \in 1 .. i : log'[n][j] = log[n][j]
    BY <1>2, <2>1, RollbackLog
  <2>4. Len(log[n]) \in Nat
    BY <1>2 DEF Types, Numbers
  <2> HIDE DEF i
  <2>5. Has(log'[n], q)
    BY <2>2, <2>3, <2>4 DEF Has
  <2> QED BY <2>5 DEF Line, Has
<1>11. CASE Restarts(n)
  BY <1>11 DEF Restarts
<1>12. CASE \E point \in OpTimes : CommitsTo(n, point)
  <2>1. PICK point \in OpTimes : CommitsTo(n, point)
    BY <1>12
  <2>2. lastCommitted \in [Nodes -> OpTimes]
    BY <1>2 DEF BaseInv, TypeOK
  <2>3. q = point /\ Has(log'[n], point)
    BY <1>4, <2>1, <2>2 DEF CommitsTo
  <2> QED BY <2>3 DEF Line, Has
<1> QED BY <1>7, <1>8, <1>9, <1>10, <1>11, <1>12, PointSteps DEF PointMoves

\* What the oplog of a member on the line of a settled point has up to it is
\* committed.
LineCommits ==
    \A n \in Nodes, p \in OpTimes, o \in OpTimes :
        /\ p # Null /\ Settled(p) /\ Line(n, p) /\ Has(log[n], o) /\ AtMost(o, p)
        => o \in committed

\* On its line a member has only committed entries up to the commit point.
LEMMA LineCommitted == Types /\ LogInv => LineCommits
<1> SUFFICES ASSUME Types, LogInv, NEW n \in Nodes, NEW p \in OpTimes, NEW o \in OpTimes,
                    p # Null, Settled(p), Line(n, p), Has(log[n], o), AtMost(o, p)
             PROVE  o \in committed
  BY DEF LineCommits
<1>1. CASE Has(log[n], p)
  BY <1>1 DEF Settled
<1>2. CASE ~Has(log[n], p)
  <2>1. PICK m \in Nodes : Has(log[m], p)
    BY ChosenHeld DEF Settled
  <2>2. Len(log[n]) < p[2] /\ \A i \in 1 .. Len(log[n]) : log[m][i] = log[n][i]
    BY <1>2, <2>1 DEF Line
  <2>3. /\ o[2] \in 1 .. Len(log[n]) /\ log[n][o[2]] = o[1] /\ p[2] \in 1 .. Len(log[m])
        /\ Len(log[n]) \in Nat /\ Len(log[m]) \in Nat
    BY <2>1 DEF Has, Types, Numbers
  <2>4. o[2] \in 1 .. Len(log[m]) /\ log[m][o[2]] = o[1]
    BY <2>2, <2>3
  <2>5. Has(log[m], o)
    BY <2>4 DEF Has
  <2> QED BY <2>1, <2>5 DEF Settled
<1> QED BY <1>1, <1>2

\* Every step keeps what is known of candidates and snapshots.
LEMMA SnapStep ==
    ASSUME FewMembers, CoreInv, ReportInv, PointInv, LineInv, SnapInv, [Next]_vars
    PROVE  SnapInv'
<1>1. CoreInv' /\ PointInv' /\ LineInv' /\ committed \subseteq committed'
  BY CoreStep, PointStep, LineInvStep, CommittedGrows
<1>2. Types /\ Types' /\ BaseInv /\ LineCommits'
  <2>1. Types /\ Types' /\ LogInv /\ LogInv' /\ BaseInv
    BY <1>1, TypesHold, PTL DEF CoreInv, BaseInv
  <2>2. LineCommits'
    BY <2>1, LineCommitted, PTL
  <2> QED BY <2>1, <2>2
<1> SUFFICES ASSUME NEW n \in Nodes
             PROVE  /\ \A o \in candidates'[n] : o = Null \/ Has(log'[n], o)
                    /\ snapshot'[n] # Null =>
                           /\ rollback'[n] = NoNode /\ snapshot'[n] \in committed'
                           /\ Has(log'[n], snapshot'[n])
  BY DEF SnapInv, Has
<1>3. /\ snapshot[n] \in OpTimes /\ snapshot'[n] \in OpTimes /\ lastCommitted'[n] \in OpTimes
      /\ candidates[n] \in SUBSET OpTimes /\ candidates'[n] \in SUBSET OpTimes
      /\ log[n] \in Logs /\ log'[n] \in Logs /\ Len(log[n]) \in Nat
  BY <1>2 DEF Types, Numbers, Records
<1>4. /\ \A o \in candidates[n] : o = Null \/ Has(log[n], o)
      /\ snapshot[n] # Null => /\ rollback[n] = NoNode /\ snapshot[n] \in committed
                               /\ Has(log[n], snapshot[n])
  BY DEF SnapInv
<1>5. ASSUME NEW o \in OpTimes, o # Null, Has(log'[n], o), AtMost(o, lastCommitted'[n])
      PROVE  o \in committed'
  <2>1. PICK q \in OpTimes : q = lastCommitted'[n]
    BY <1>3
  <2>2. q # Null
    <3>1. o[1] \in Nat /\ o[1] > 0
      BY <1>5, OpTimeFields, Bounds
    <3>2. Null[1] = 0
      BY DEF Null
    <3> QED BY <1>5, <2>1, <3>1, <3>2 DEF AtMost
  <2>3. Settled(q)' /\ Line(n, q)'
    <3>1. Settled(lastCommitted[n])' /\ Line(n, lastCommitted[n])'
      BY <1>1, <2>1, <2>2 DEF PointInv, LineInv
    <3> QED BY <2>1, <3>1 DEF Settled, Chosen, Keepers, LaterThan, Line
  <2> QED BY <1>2, <1>5, <2>1, <2>2, <2>3 DEF LineCommits, Has
<1>6. ASSUME Extends(n)
      PROVE  /\ \A o \in candidates[n] : o = Null \/ Has(log'[n], o)
             /\ snapshot[n] # Null => Has(log'[n], snapshot[n]) /\ snapshot[n] \in committed'
  <2>1. \A o \in OpTimes : Has(log[n], o) => Has(log'[n], o)
    BY <1>2, <1>6, ExtendsHas
  <2> QED BY <1>1, <1>3, <1>4, <2>1
<1>7. CASE Keeps(n)
  BY <1>4, <1>6, <1>7 DEF Keeps
<1>8. CASE Applies(n)
  <2>1. LastOf(log'[n]) = Null \/ Has(log'[n], LastOf(log'[n]))
    BY <1>3, LastFacts
  <2>2. /\ Extends(n) /\ rollback'[n] = NoNode
        /\ candidates'[n] \subseteq candidates[n] \cup {LastOf(log'[n])}
        /\ \/ snapshot'[n] = snapshot[n]
           \/ /\ snapshot'[n] \in candidates[n] \cup {LastOf(log'[n])}
              /\ AtMost(snapshot'[n], lastCommitted'[n])
    BY <1>8 DEF Applies, Stabilised
  <2>3. \A o \in candidates[n] \cup {LastOf(log'[n])} : o = Null \/ Has(log'[n], o)
    BY <1>6, <2>1, <2>2
  <2>4. CASE snapshot'[n] = snapshot[n]
    BY <1>6, <2>2, <2>3, <2>4
  <2>5. CASE /\ snapshot'[n] \in candidates[n] \cup {LastOf(log'[n])}
             /\ AtMost(snapshot'[n], lastCommitted'[n])
    BY <1>3, <1>5, <2>2, <2>3, <2>5
  <2> QED BY <2>2, <2>4, <2>5
<1>9. CASE Drops(n)
  BY <1>4, <1>9 DEF Drops
<1>10. CASE Cuts(n)
  <2> DEFINE i == CommonPoint(log[n], log[rollback[n]])
  <2>1. /\ Rollback(n) /\ rollback[n] # NoNode /\ snapshot'[n] = snapshot[n]
        /\ \A o \in candidates'[n] : o \in candidates[n] /\ AtMost(o, EntryAt(log[n], i))
    BY <1>10 DEF Cuts, Rollback, RollbackPossible, CandidatesLeft
  <2>2. snapshot'[n] = Null
    BY <1>4, <2>1
  <2>3. /\ i \in 0 .. Len(log[n]) /\ Len(log'[n]) = i
        /\ \A j \in 1 .. i : log'[n][j] = log[n][j]
    BY <1>2, <2>1, RollbackLog
  <2> HIDE DEF i
  <2>4. ASSUME NEW o \in candidates'[n], o # Null PROVE Has(log'[n], o)
    <3>1. o \in OpTimes /\ Has(log[n], o) /\ AtMost(o, EntryAt(log[n], i))
      BY <1>3, <1>4, <2>1, <2>4
    <3>2. o[1] \in Nat /\ o[1] > 0 /\ o[2] \in Nat
      BY <2>4, <3>1, OpTimeFields, Bounds
    <3>3. i # 0
      <4>1. i = 0 => EntryAt(log[n], i) = Null /\ Null[1] = 0
        BY DEF EntryAt, Null
      <4> QED BY <3>1, <3>2, <4>1 DEF AtMost
    <3>4. EntryAt(log[n], i) \in OpTimes /\ Has(log[n], EntryAt(log[n], i)) /\ EntryAt(log[n], i)[2] = i
      BY <1>3, <2>3, <3>3, EntryFacts
    <3>5. Indexed
      BY <1>2, OrderedIndexed DEF CoreInv
    <3>6. o[2] \in 1 .. i
      BY <3>1, <3>4, <3>5 DEF Indexed
    <3>7. log[n][o[2]] = o[1]
      BY <3>1 DEF Has
    <3> QED BY <2>3, <3>6, <3>7 DEF Has
  <2> QED BY <2>2, <2>4
<1>11. CASE Restarts(n)
  <2>1. LastOf(log'[n]) = Null \/ Has(log'[n], LastOf(log'[n]))
    BY <1>3, LastFacts
  <2> QED BY <1>11, <2>1 DEF Restarts
<1>12. CASE \E point \in OpTimes : CommitsTo(n, point)
  <2>1. PICK point \in OpTimes : CommitsTo(n, point)
    BY <1>12
  <2>2. lastCommitted \in [Nodes -> OpTimes]
    BY <1>2 DEF BaseInv, TypeOK
  <2>3. /\ log' = log /\ rollback' = rollback /\ lastCommitted'[n] = point
        /\ candidates'[n] \subseteq candidates[n]
        /\ \/ snapshot'[n] = snapshot[n]
           \/ /\ rollback[n] = NoNode
              /\ snapshot'[n] \in candidates[n] /\ AtMost(snapshot'[n], point)
    BY <2>1, <2>2 DEF CommitsTo, Stabilised
  <2>4. CASE snapshot'[n] = snapshot[n]
    BY <1>1, <1>4, <2>3, <2>4
  <2>5. CASE /\ rollback[n] = NoNode
             /\ snapshot'[n] \in candidates[n] /\ AtMost(snapshot'[n], point)
    BY <1>3, <1>4, <1>5, <2>3, <2>5
  <2> QED BY <2>3, <2>4, <2>5
<1> QED BY <1>7, <1>8, <1>9, <1>10, <1>11, <1>12, PointSteps DEF PointMoves

\* What the invariant says of snapshots.
LEMMA SnapshotsCommitted ==
    ASSUME CoreInv, PointInv, SnapInv
    PROVE  SnapshotIsCommitted
<1> SUFFICES ASSUME NEW n \in Nodes, snapshot[n] # Null
             PROVE  /\ snapshot[n] \in committed /\ Holds(log[n], snapshot[n])
                    /\ AtMost(snapshot[n], lastCommitted[n])
  BY DEF SnapshotIsCommitted
<1>1. Types /\ log[n] \in Logs /\ snapshot[n] \in OpTimes
  BY TypesHold DEF CoreInv, BaseInv, Types, Records
<1>2. snapshot[n] \in committed /\ Has(log[n], snapshot[n])
  BY DEF SnapInv
<1>3. Holds(log[n], snapshot[n])
  BY <1>1, <1>2, EntriesFacts
<1> QED BY <1>2, <1>3 DEF PointInv

\* What the invariant says of rollbacks.
LEMMA RollbacksKeep ==
    ASSUME FewMembers, CoreInv, PointInv, LineInv
    PROVE  RollbackAfterCommitPoint
<1> SUFFICES ASSUME NEW n \in Nodes, RollbackPossible(n)
             PROVE  LET i == CommonPoint(log[n], log[rollback[n]])
                    IN  /\ AtMost(lastCommitted[n], EntryAt(log[n], i))
                        /\ lastCommitted[n][2] <= i
  BY DEF RollbackAfterCommitPoint
<1> DEFINE i == CommonPoint(log[n], log[rollback[n]])
           p == lastCommitted[n]
<1>1. /\ Types /\ LogInv /\ rollback \in [Nodes -> Nodes \cup {NoNode}] /\ log \in [Nodes -> Logs]
  BY TypesHold DEF CoreInv, BaseInv, TypeOK
<1>2. rollback[n] \in Nodes /\ log[n] \in Logs /\ p \in OpTimes /\ Len(log[n]) \in Nat
  BY <1>1 DEF RollbackPossible, Types, Records, Numbers
<1>3. i \in 0 .. Len(log[n])
  BY <1>1, <1>2, CommonFacts
<1>4. EntryAt(log[n], i) \in OpTimes /\ p[1] \in Nat /\ p[2] \in Nat
  <2>1. EntryAt(log[n], i) \in OpTimes
    BY <1>2, <1>3, EntryFacts
  <2> QED BY <1>2, <2>1, OpTimeFields, Bounds
<1>5. CASE p = Null
  BY <1>2, <1>3, <1>4, <1>5, NullAtMost, OpTimeFields
<1>6. CASE p # Null
  <2>1. Chosen(p) /\ Line(n, p)
    BY <1>6 DEF PointInv, LineInv, Settled
  <2>2. Has(log[n], p) /\ p[2] <= i
    BY <1>2, <1>6, <2>1, RollbackKeepsPoint
  <2> HIDE DEF i
  <2>3. /\ p[2] \in 1 .. Len(log[n]) /\ log[n][p[2]] = p[1] /\ i \in 1 .. Len(log[n]) /\ i # 0
    BY <1>2, <1>3, <2>2 DEF Has
  <2>4. p[1] <= log[n][i] /\ log[n][i] \in Nat
    BY <1>1, <2>2, <2>3 DEF LogInv, Ordered, Types, Numbers
  <2>5. EntryAt(log[n], i) = <<log[n][i], i>>
    BY <2>3 DEF EntryAt
  <2> QED BY <1>2, <1>3, <1>4, <2>2, <2>4, <2>5 DEF AtMost, i
<1> QED BY <1>5, <1>6

\* The inductive invariant behind SnapshotIsCommitted and RollbackAfterCommitPoint.
LineSafe == AckedInv /\ LineInv /\ SnapInv

\* It holds initially.
LEMMA LineSafeInit == Init => LineSafe
BY AckedInit, LineInit DEF LineSafe

\* Every step of few members keeps it.
LEMMA LineSafeStep == FewMembers => (LineSafe /\ [Next]_vars => LineSafe')
<1> SUFFICES ASSUME FewMembers, LineSafe, [Next]_vars PROVE LineSafe'
  OBVIOUS
<1>1. AckedInv /\ CoreInv /\ ReportInv /\ PointInv /\ LineInv /\ SnapInv
  BY DEF LineSafe, AckedInv, SafeInv
<1> QED BY <1>1, AckedStep, LineInvStep, SnapStep DEF LineSafe

\* It always holds among few members.
LEMMA LineSafeAlways == FewMembers => (Spec => []LineSafe)
<1> SUFFICES ASSUME FewMembers PROVE Spec => []LineSafe
  OBVIOUS
<1>1. LineSafe /\ [Next]_vars => LineSafe'
  BY LineSafeStep
<1> QED BY <1>1, LineSafeInit, PTL DEF Spec

\* In a set of up to four members, the snapshot that reads with read concern
\* "majority" use is committed and part of the oplog of the member that has it.
THEOREM SnapshotSafe == FewMembers => (Spec => []SnapshotIsCommitted)
<1>1. LineSafe => SnapshotIsCommitted
  BY SnapshotsCommitted DEF LineSafe, AckedInv, SafeInv
<1> QED BY <1>1, LineSafeAlways, PTL

\* In a set of up to four members, rollback goes to no point before the commit
\* point that the member knows of, as rs_rollback.cpp asserts.
THEOREM RollbackSafe == FewMembers => (Spec => []RollbackAfterCommitPoint)
<1> SUFFICES ASSUME FewMembers PROVE Spec => []RollbackAfterCommitPoint
  OBVIOUS
<1>1. LineSafe => RollbackAfterCommitPoint
  BY RollbacksKeep DEF LineSafe, AckedInv, SafeInv
<1>2. Spec => []LineSafe
  BY LineSafeAlways
<1> QED BY <1>1, <1>2, PTL
=============================================================================
