------------------------- MODULE CommitPointProofs -------------------------
(***************************************************************************)
(* Proofs about CommitPoint, first part: the operators of the model, type   *)
(* correctness, and what elections and oplogs keep.                         *)
(*                                                                         *)
(* The first layer, BaseInv, is types and terms.  The second, VoteInv, says *)
(* that a term has one leader: a majority has voted and its votes are spent *)
(* before the leader writes.  The third, LogInv, says that oplogs are       *)
(* ordered, and that two of them agree up to an entry of the same term.     *)
(* Together they are CoreInv.  CoreStep also gives what the layers above    *)
(* need of every step: an oplog is a part of one that there was, or a       *)
(* leader has written an entry (LogStep), and a durable entry stays durable *)
(* unless another oplog has gone on without it (Persist).                   *)
(*                                                                         *)
(* All of it rests on elections in which Vote is one step, that is, without *)
(* the votes out of turn and the superseded winners of the module Election. *)
(***************************************************************************)
EXTENDS CommitPoint, FiniteSetTheorems, SequenceTheorems, WellFoundedInduction, TLAPS

-----------------------------------------------------------------------------
(* Natural numbers, optimes and majorities *)

\* The order of the natural numbers, as a relation.
LessThan == {ss \in Nat \X Nat : ss[1] < ss[2]}

\* A set of natural numbers has a least element.
LEMMA LeastNumber ==
    ASSUME NEW T \in SUBSET Nat, T # {}
    PROVE  \E x \in T : \A y \in T : x <= y
<1>1. OpToRel(<, Nat) = LessThan
  BY Zenon DEF OpToRel, LessThan
<1>2. IsWellFoundedOn(LessThan, Nat)
  BY <1>1, NatLessThanWellFounded
<1>3. PICK x \in T : \A y \in T : ~(<<y, x>> \in LessThan)
  BY <1>2, WFMin
<1>4. ASSUME NEW y \in T PROVE x <= y
  <2>1. x \in Nat /\ y \in Nat
    OBVIOUS
  <2>2. <<y, x>> \notin LessThan
    BY <1>3
  <2> QED BY <2>1, <2>2 DEF LessThan
<1> QED BY <1>4

\* A bounded set of natural numbers has a greatest element.
LEMMA GreatestNumber ==
    ASSUME NEW b \in Nat, NEW T \in SUBSET (0 .. b), T # {}
    PROVE  \E x \in T : \A y \in T : y <= x
<1> DEFINE U == {b - x : x \in T}
<1>1. U \in SUBSET Nat /\ U # {}
  OBVIOUS
<1> HIDE DEF U
<1>2. PICK u \in U : \A w \in U : u <= w
  BY <1>1, LeastNumber
<1>3. PICK x \in T : u = b - x
  BY DEF U
<1>4. ASSUME NEW y \in T PROVE y <= x
  <2>1. b - y \in U
    BY DEF U
  <2> QED BY <1>2, <1>3, <2>1
<1> QED BY <1>4

\* An optime is a pair of numbers within the bounds, both positive or both zero.
LEMMA OpTimeFields ==
    ASSUME NEW o \in OpTimes
    PROVE  /\ o \in Nat \X Nat /\ o = <<o[1], o[2]>>
           /\ o[1] \in 0 .. MaxTerm /\ o[2] \in 0 .. MaxLog
           /\ o # Null => o[1] \in 1 .. MaxTerm /\ o[2] \in 1 .. MaxLog
           /\ o = Null => o[1] = 0 /\ o[2] = 0
BY CommitAssumption DEF OpTimes, Null

\* Before is the negation of the converse of AtMost.
LEMMA BeforeFacts ==
    ASSUME NEW a \in Nat \X Nat, NEW b \in Nat \X Nat
    PROVE  /\ Before(a, b) <=> a[1] < b[1] \/ (a[1] = b[1] /\ a[2] < b[2])
           /\ Before(a, b) <=> ~AtMost(b, a)
<1>1. a = <<a[1], a[2]>> /\ b = <<b[1], b[2]>>
  OBVIOUS
<1>2. a[1] \in Nat /\ a[2] \in Nat /\ b[1] \in Nat /\ b[2] \in Nat
  OBVIOUS
<1>3. a = b <=> a[1] = b[1] /\ a[2] = b[2]
  BY <1>1
<1> QED BY <1>2, <1>3 DEF Before, AtMost

\* A set of optimes has a greatest element.
LEMMA GreatestOpTime ==
    ASSUME NEW S \in SUBSET OpTimes, S # {}
    PROVE  \E o \in S : \A p \in S : AtMost(p, o)
<1> DEFINE T == {o[1] : o \in S}
<1>1. T \in SUBSET (0 .. MaxTerm) /\ T # {}
  BY OpTimeFields
<1> HIDE DEF T
<1>2. PICK t \in T : \A u \in T : u <= t
  BY <1>1, GreatestNumber, CommitAssumption
<1> DEFINE U == {o[2] : o \in {o \in S : o[1] = t}}
<1>3. U \in SUBSET (0 .. MaxLog) /\ U # {}
  BY OpTimeFields DEF T
<1> HIDE DEF U
<1>4. PICK i \in U : \A j \in U : j <= i
  BY <1>3, GreatestNumber, CommitAssumption
<1>5. PICK o \in S : o[1] = t /\ o[2] = i
  BY DEF U
<1>6. ASSUME NEW p \in S PROVE AtMost(p, o)
  <2>1. p[1] \in T /\ (p[1] = t => p[2] \in U)
    BY DEF T, U
  <2>2. p[1] \in Nat /\ t \in Nat
    BY OpTimeFields, <1>5
  <2> QED BY <1>2, <1>4, <1>5, <2>1, <2>2 DEF AtMost
<1> QED BY <1>6

\* A set of optimes has a least element.
LEMMA LeastOpTime ==
    ASSUME NEW S \in SUBSET OpTimes, S # {}
    PROVE  \E o \in S : \A p \in S : AtMost(o, p)
<1> DEFINE T == {o[1] : o \in S}
<1>1. T \in SUBSET Nat /\ T # {}
  BY OpTimeFields
<1> HIDE DEF T
<1>2. PICK t \in T : \A u \in T : t <= u
  BY <1>1, LeastNumber
<1> DEFINE U == {o[2] : o \in {o \in S : o[1] = t}}
<1>3. U \in SUBSET Nat /\ U # {}
  BY OpTimeFields DEF T
<1> HIDE DEF U
<1>4. PICK i \in U : \A j \in U : i <= j
  BY <1>3, LeastNumber
<1>5. PICK o \in S : o[1] = t /\ o[2] = i
  BY DEF U
<1>6. ASSUME NEW p \in S PROVE AtMost(o, p)
  <2>1. p[1] \in T /\ (p[1] = t => p[2] \in U)
    BY DEF T, U
  <2>2. p[1] \in Nat /\ t \in Nat
    BY OpTimeFields, <1>5
  <2> QED BY <1>2, <1>4, <1>5, <2>1, <2>2 DEF AtMost
<1> QED BY <1>6

\* What contains a majority is one.
LEMMA MajorityGrows ==
    ASSUME NEW P, NEW Q \in SUBSET Nodes, P \subseteq Q, IsMajority(P)
    PROVE  IsMajority(Q)
<1>1. IsFiniteSet(Nodes) /\ IsFiniteSet(Q) /\ IsFiniteSet(P)
  BY CommitAssumption, FS_Subset
<1>2. /\ Cardinality(Nodes) \in Nat /\ Cardinality(Q) \in Nat
      /\ Cardinality(P) \in Nat /\ Cardinality(P) <= Cardinality(Q)
  BY <1>1, FS_Subset, FS_CardinalityType
<1> QED BY <1>2 DEF IsMajority

\* Two majorities have a member in common.
LEMMA MajoritiesMeet ==
    ASSUME NEW P \in SUBSET Nodes, NEW Q \in SUBSET Nodes,
           IsMajority(P), IsMajority(Q)
    PROVE  \E v \in P : v \in Q
<1>1. IsFiniteSet(Nodes) /\ IsFiniteSet(P) /\ IsFiniteSet(Q)
  BY CommitAssumption, FS_Subset
<1>2. /\ Cardinality(P) \in Nat /\ Cardinality(Q) \in Nat
      /\ Cardinality(Nodes) \in Nat
  BY <1>1, FS_CardinalityType
<1>3. Cardinality(P \cup Q) <= Cardinality(Nodes)
  BY <1>1, FS_Subset, P \cup Q \subseteq Nodes
<1>4. Cardinality(P \cup Q) = Cardinality(P) + Cardinality(Q) - Cardinality(P \cap Q)
  BY <1>1, FS_Union
<1>5. ASSUME P \cap Q = {} PROVE FALSE
  <2>1. Cardinality(P \cap Q) = 0
    BY <1>5, FS_EmptySet
  <2> QED BY <1>2, <1>3, <1>4, <2>1 DEF IsMajority
<1> QED BY <1>5

\* All the members are a majority.
LEMMA NodesMajority == IsMajority(Nodes)
<1>1. Cardinality(Nodes) \in Nat /\ Cardinality(Nodes) # 0
  BY CommitAssumption, FS_CardinalityType, FS_EmptySet
<1> QED BY <1>1 DEF IsMajority

-----------------------------------------------------------------------------
(* Oplogs *)

\* The oplog l has the entry p.
Has(l, p) == p[2] \in 1 .. Len(l) /\ l[p[2]] = p[1]

\* An oplog is a short sequence of terms.
LEMMA LogFacts ==
    ASSUME NEW l \in Logs
    PROVE  /\ l \in Seq(1 .. MaxTerm) /\ Len(l) \in 0 .. MaxLog
           /\ \A i \in 1 .. Len(l) : l[i] \in 1 .. MaxTerm
<1>1. PICK k \in 0 .. MaxLog : l \in [1 .. k -> 1 .. MaxTerm]
  BY DEF Logs
<1>2. k \in Nat
  BY CommitAssumption
<1> DEFINE q == SubSeq(l, 1, k)
<1>3. /\ q \in Seq(1 .. MaxTerm) /\ Len(q) = k
      /\ \A i \in 1 .. k : q[i] = l[i]
  BY <1>1, <1>2, SubSeqProperties
<1>4. q \in [1 .. k -> 1 .. MaxTerm]
  BY <1>3, LenProperties
<1>5. q = l
  BY <1>1, <1>3, <1>4
<1> QED BY <1>1, <1>3, <1>5

\* A short sequence of terms is an oplog.
LEMMA LogIntro ==
    ASSUME NEW l \in Seq(1 .. MaxTerm), Len(l) <= MaxLog
    PROVE  l \in Logs
<1>1. l \in [1 .. Len(l) -> 1 .. MaxTerm] /\ Len(l) \in 0 .. MaxLog
  BY CommitAssumption
<1> QED BY <1>1 DEF Logs

\* The first entries of an oplog are an oplog.
LEMMA CutFacts ==
    ASSUME NEW l \in Logs, NEW i \in 0 .. Len(l)
    PROVE  /\ SubSeq(l, 1, i) \in Logs /\ Len(SubSeq(l, 1, i)) = i
           /\ \A j \in 1 .. i : SubSeq(l, 1, i)[j] = l[j]
<1>1. l \in Seq(1 .. MaxTerm) /\ Len(l) \in 0 .. MaxLog
  BY LogFacts
<1>2. /\ SubSeq(l, 1, i) \in Seq(1 .. MaxTerm) /\ Len(SubSeq(l, 1, i)) = i
      /\ \A j \in 1 .. i : SubSeq(l, 1, i)[j] = l[j]
  <2>1. i \in Int /\ \A j \in 1 .. i : l[j] \in 1 .. MaxTerm
    BY <1>1, LogFacts
  <2>2. i >= 0
    BY <1>1
  <2> QED BY <2>1, <2>2, SubSeqProperties
<1>3. Len(SubSeq(l, 1, i)) <= MaxLog
  BY <1>1, <1>2, CommitAssumption
<1> QED BY <1>2, <1>3, LogIntro

\* An oplog with room for an entry is one with it.
LEMMA AppendFacts ==
    ASSUME NEW l \in Logs, Len(l) < MaxLog, NEW t \in 1 .. MaxTerm
    PROVE  /\ l \o <<t>> \in Logs /\ Len(l \o <<t>>) = Len(l) + 1
           /\ \A j \in 1 .. Len(l) : (l \o <<t>>)[j] = l[j]
           /\ (l \o <<t>>)[Len(l) + 1] = t
<1>1. l \in Seq(1 .. MaxTerm) /\ Len(l) \in 0 .. MaxLog
  BY LogFacts
<1>2. /\ l \o <<t>> \in Seq(1 .. MaxTerm) /\ Len(l \o <<t>>) = Len(l) + 1
      /\ \A j \in 1 .. Len(l) : (l \o <<t>>)[j] = l[j]
      /\ (l \o <<t>>)[Len(l) + 1] = t
  BY <1>1
<1>3. Len(l \o <<t>>) <= MaxLog
  BY <1>1, <1>2, CommitAssumption
<1> QED BY <1>2, <1>3, LogIntro

\* What EntryAt returns: an optime that the oplog has, or Null for position 0.
LEMMA EntryFacts ==
    ASSUME NEW l \in Logs, NEW i \in 0 .. Len(l)
    PROVE  /\ EntryAt(l, i) \in OpTimes /\ EntryAt(l, i)[2] = i
           /\ i # 0 => /\ EntryAt(l, i) = <<l[i], i>> /\ EntryAt(l, i)[1] = l[i]
                       /\ Has(l, EntryAt(l, i))
           /\ i = 0 => EntryAt(l, i) = Null
<1>1. Len(l) \in 0 .. MaxLog /\ \A j \in 1 .. Len(l) : l[j] \in 1 .. MaxTerm
  BY LogFacts
<1>2. CASE i = 0
  BY <1>2 DEF EntryAt, OpTimes, Null
<1>3. CASE i # 0
  <2>1. i \in 1 .. Len(l) /\ i \in 1 .. MaxLog
    BY <1>1, <1>3, CommitAssumption
  <2> QED BY <1>1, <1>3, <2>1 DEF EntryAt, OpTimes, Has
<1> QED BY <1>2, <1>3

\* The entries of an oplog are the optimes it has, and Holds adds Null to them.
LEMMA EntriesFacts ==
    ASSUME NEW l \in Logs
    PROVE  /\ EntriesOf(l) \subseteq OpTimes \ {Null}
           /\ \A o \in OpTimes : o \in EntriesOf(l) <=> Has(l, o)
           /\ \A o \in OpTimes : Holds(l, o) <=> o = Null \/ Has(l, o)
<1>1. Len(l) \in Nat /\ \A i \in 1 .. Len(l) : i \in 0 .. Len(l) /\ i # 0
  BY LogFacts
<1>2. ASSUME NEW i \in 1 .. Len(l)
      PROVE  EntryAt(l, i) \in OpTimes \ {Null} /\ Has(l, EntryAt(l, i))
  BY <1>1, EntryFacts DEF Null
<1>3. ASSUME NEW o \in OpTimes, Has(l, o) PROVE o \in EntriesOf(l)
  <2>1. o[2] \in 1 .. Len(l) /\ o = <<l[o[2]], o[2]>>
    BY <1>3, OpTimeFields DEF Has
  <2>2. o = EntryAt(l, o[2])
    BY <1>1, <2>1, EntryFacts
  <2> QED BY <2>1, <2>2 DEF EntriesOf
<1>4. \A o \in OpTimes : o \in EntriesOf(l) <=> Has(l, o)
  BY <1>2, <1>3 DEF EntriesOf
<1> QED BY <1>2, <1>4 DEF EntriesOf, Holds

\* What LastOf returns: the last entry that the oplog has, Null if it is empty.
LEMMA LastFacts ==
    ASSUME NEW l \in Logs
    PROVE  /\ LastOf(l) \in OpTimes /\ LastOf(l)[2] = Len(l)
           /\ Len(l) # 0 => LastOf(l)[1] = l[Len(l)] /\ Has(l, LastOf(l))
           /\ Len(l) = 0 <=> LastOf(l) = Null
<1>1. Len(l) \in Nat /\ Len(l) \in 0 .. Len(l)
  BY LogFacts
<1> QED BY <1>1, EntryFacts DEF LastOf, Null

-----------------------------------------------------------------------------
(* What the operators of the model choose *)

\* StableOpTime returns Null or a candidate, and nothing after the commit point.
LEMMA StableFacts ==
    ASSUME NEW cands \in SUBSET OpTimes, NEW point \in OpTimes
    PROVE  LET stable == StableOpTime(cands, point)
           IN  /\ stable \in OpTimes /\ AtMost(stable, point)
               /\ stable # Null => stable \in cands
<1> DEFINE below == {o \in cands : AtMost(o, point)}
<1>1. CASE below = {}
  <2>1. StableOpTime(cands, point) = Null
    BY <1>1 DEF StableOpTime
  <2>2. AtMost(Null, point) /\ Null \in OpTimes
    BY OpTimeFields DEF AtMost, Null, OpTimes
  <2> QED BY <2>1, <2>2
<1>2. CASE below # {}
  <2>1. \E o \in below : \A p \in below : AtMost(p, o)
    BY <1>2, GreatestOpTime
  <2>2. StableOpTime(cands, point) \in below
    BY <1>2, <2>1 DEF StableOpTime
  <2> QED BY <2>2
<1> QED BY <1>1, <1>2

\* The optime that a majority has reached is one of those it is chosen from.
LEMMA MajorityOpTimeFacts ==
    ASSUME NEW n \in Nodes, NEW own \in OpTimes, NEW known \in [Nodes -> OpTimes]
    PROVE  LET at == [known EXCEPT ![n] = own]
               point == MajorityOpTime(n, own, known)
           IN  /\ point \in OpTimes /\ \E m \in Nodes : point = at[m]
               /\ IsMajority({m \in Nodes : AtMost(point, at[m])})
<1> DEFINE at == [known EXCEPT ![n] = own]
           reached(o) == {m \in Nodes : AtMost(o, at[m])}
           points == {at[m] : m \in Nodes}
           good == {o \in points : IsMajority(reached(o))}
<1>1. at \in [Nodes -> OpTimes] /\ points \in SUBSET OpTimes /\ points # {}
  BY CommitAssumption
<1>2. PICK o \in points : \A p \in points : AtMost(o, p)
  BY <1>1, LeastOpTime
<1>3. reached(o) = Nodes
  BY <1>2
<1>4. o \in good
  BY <1>3, NodesMajority
<1>5. good \in SUBSET OpTimes
  BY <1>1
<1>6. \E p \in good : \A r \in good : AtMost(r, p)
  BY <1>4, <1>5, GreatestOpTime
<1>7. \E p \in points : /\ IsMajority(reached(p))
                        /\ \A r \in points : IsMajority(reached(r)) => AtMost(r, p)
  BY <1>6
<1>8. MajorityOpTime(n, own, known) =
          CHOOSE p \in points : /\ IsMajority(reached(p))
                        /\ \A r \in points : IsMajority(reached(r)) => AtMost(r, p)
  BY DEF MajorityOpTime
<1> HIDE DEF at, reached, points, good
<1>9. /\ MajorityOpTime(n, own, known) \in points
      /\ IsMajority(reached(MajorityOpTime(n, own, known)))
  BY <1>7, <1>8
<1> QED BY <1>1, <1>9 DEF at, reached, points

\* The longest common prefix of two oplogs.
LEMMA CommonFacts ==
    ASSUME NEW l \in Logs, NEW m \in Logs
    PROVE  LET i == CommonPoint(l, m)
           IN  /\ i \in 0 .. Len(l) /\ i <= Len(m) /\ \A j \in 1 .. i : l[j] = m[j]
               /\ \A k \in 0 .. Len(l) :
                      k <= Len(m) /\ (\A j \in 1 .. k : l[j] = m[j]) => k <= i
<1>1. Len(l) \in Nat /\ Len(m) \in Nat
  BY LogFacts
<1>2. 0 \in CommonIndexes(l, m) /\ CommonIndexes(l, m) \in SUBSET (0 .. Len(l))
  BY <1>1 DEF CommonIndexes
<1>3. \E i \in CommonIndexes(l, m) : \A j \in CommonIndexes(l, m) : j <= i
  BY <1>1, <1>2, GreatestNumber
<1>4. /\ CommonPoint(l, m) \in CommonIndexes(l, m)
      /\ \A j \in CommonIndexes(l, m) : j <= CommonPoint(l, m)
  BY <1>3 DEF CommonPoint
<1> QED BY <1>4 DEF CommonIndexes

-----------------------------------------------------------------------------
(* The first layer: types, terms and votes *)

\* A vote is stored for a term that has been reached.
TermInv == \A n \in Nodes : 1 <= lastVote[n] /\ lastVote[n] <= term[n]

\* What TypeOK says of the parts that the proofs are about.
Numbers ==
    \A n \in Nodes :
        /\ term[n] \in Nat /\ term[n] <= MaxTerm
        /\ lastVote[n] \in Nat /\ lastVote[n] <= MaxTerm
        /\ Len(log[n]) \in Nat /\ Len(log[n]) <= MaxLog
        /\ \A i \in 1 .. Len(log[n]) : log[n][i] \in Nat /\ 0 < log[n][i]
        /\ durable[n] \in Nat /\ durable[n] <= Len(log[n])

\* The same for the variables that hold optimes, sets and oplogs.
Records ==
    \A n \in Nodes :
        /\ log[n] \in Logs
        /\ elect[n].votes \in SUBSET Nodes /\ elect[n].request \in OpTimes
        /\ elect[n] = [request |-> elect[n].request, votes |-> elect[n].votes]
        /\ LastOf(log[n]) \in OpTimes /\ Position(n) \in OpTimes
        /\ lastCommitted[n] \in OpTimes /\ snapshot[n] \in OpTimes
        /\ candidates[n] \in SUBSET OpTimes
        /\ memberData[n] \in [Nodes -> OpTimes]
        /\ \A m \in Nodes : memberData[n][m] \in OpTimes

\* What the steps use of the types.
Types == Numbers /\ Records

\* The bounds are natural numbers.
LEMMA Bounds == MaxTerm \in Nat /\ 0 < MaxTerm /\ MaxLog \in Nat
BY CommitAssumption

\* The types of the members' variables, value by value.
LEMMA TypesHold == TypeOK => Types
<1> SUFFICES ASSUME TypeOK, NEW n \in Nodes
             PROVE  Numbers!(n) /\ Records!(n)
  BY DEF Types, Numbers, Records
<1>1. log[n] \in Logs /\ durable[n] \in 0 .. Len(log[n])
  BY LogFacts DEF TypeOK
<1>2. /\ Len(log[n]) \in 0 .. MaxLog
      /\ \A i \in 1 .. Len(log[n]) : log[n][i] \in 1 .. MaxTerm
  BY <1>1, LogFacts
<1>3. term[n] \in 0 .. MaxTerm /\ lastVote[n] \in 0 .. MaxTerm
  BY DEF TypeOK, Terms
<1>4. /\ elect[n].votes \in SUBSET Nodes /\ elect[n].request \in OpTimes
      /\ elect[n] = [request |-> elect[n].request, votes |-> elect[n].votes]
      /\ lastCommitted[n] \in OpTimes /\ snapshot[n] \in OpTimes
      /\ candidates[n] \in SUBSET OpTimes
      /\ memberData[n] \in [Nodes -> OpTimes]
      /\ \A m \in Nodes : memberData[n][m] \in OpTimes
  BY DEF TypeOK
<1>5. LastOf(log[n]) \in OpTimes /\ Position(n) \in OpTimes
  BY <1>1, <1>2, EntryFacts DEF LastOf, Position
<1>6. Numbers!(n)
  BY <1>1, <1>2, <1>3, Bounds
<1> QED BY <1>1, <1>4, <1>5, <1>6

\* The first layer: types and terms.
BaseInv == TypeOK /\ TermInv

\* What the step of n does to its candidates and its snapshot: it keeps some of
\* cands, and takes at most one of them, up to point, for the snapshot.
Stabilised(n, cands, point) ==
    /\ candidates' \in [Nodes -> SUBSET OpTimes] /\ snapshot' \in [Nodes -> OpTimes]
    /\ \A m \in Nodes \ {n} :
           candidates'[m] = candidates[m] /\ snapshot'[m] = snapshot[m]
    /\ candidates'[n] \subseteq cands
    /\ \/ snapshot'[n] = snapshot[n]
       \/ /\ rollback[n] = NoNode
          /\ snapshot'[n] \in cands /\ AtMost(snapshot'[n], point)

\* SetStable keeps some of the candidates and takes one, up to point, at most.
LEMMA SetStableFacts ==
    ASSUME TypeOK, NEW n \in Nodes, NEW cands \in SUBSET OpTimes,
           NEW point \in OpTimes, SetStable(n, cands, point)
    PROVE  Stabilised(n, cands, point)
<1> DEFINE stable == StableOpTime(cands, point)
<1>1. /\ stable \in OpTimes /\ AtMost(stable, point)
      /\ stable # Null => stable \in cands
  BY StableFacts
<1>2. /\ candidates' = [candidates EXCEPT ![n] = {o \in cands : AtMost(stable, o)}]
      /\ snapshot' = IF stable = Null \/ rollback[n] # NoNode THEN snapshot
                     ELSE [snapshot EXCEPT ![n] = stable]
  BY DEF SetStable
<1>3. candidates \in [Nodes -> SUBSET OpTimes] /\ snapshot \in [Nodes -> OpTimes]
  BY DEF TypeOK
<1> HIDE DEF stable
<1> QED BY <1>1, <1>2, <1>3 DEF Stabilised

\* SetMyLastApplied does the same with the new optime among the candidates.
LEMMA SetMyLastAppliedFacts ==
    ASSUME TypeOK, NEW n \in Nodes, NEW o \in OpTimes, NEW point \in OpTimes,
           NEW moved \in BOOLEAN, SetMyLastApplied(n, o, point, moved)
    PROVE  Stabilised(n, candidates[n] \cup {o}, point)
<1>1. candidates \in [Nodes -> SUBSET OpTimes] /\ snapshot \in [Nodes -> OpTimes]
  BY DEF TypeOK
<1>2. /\ WithCandidate(n, o) \in SUBSET OpTimes
      /\ WithCandidate(n, o) \subseteq candidates[n] \cup {o}
  BY <1>1 DEF WithCandidate
<1>3. CASE moved \/ (AtMost(minValid[n], o) /\ AtMost(o, point))
  <2>1. SetStable(n, WithCandidate(n, o), point)
    BY <1>3 DEF SetMyLastApplied
  <2>2. Stabilised(n, WithCandidate(n, o), point)
    BY <1>2, <2>1, SetStableFacts
  <2> QED BY <1>2, <2>2 DEF Stabilised
<1>4. CASE ~(moved \/ (AtMost(minValid[n], o) /\ AtMost(o, point)))
  <2>1. /\ candidates' = [candidates EXCEPT ![n] = WithCandidate(n, o)]
        /\ snapshot' = snapshot
    BY <1>4 DEF SetMyLastApplied
  <2> QED BY <1>1, <1>2, <2>1 DEF Stabilised
<1> QED BY <1>3, <1>4

\* UpdateLastCommitted leaves the commit point, or moves it to the optime of a
\* majority, which is not before the first entry of the term.
LEMMA UpdateLastCommittedFacts ==
    ASSUME TypeOK, NEW n \in Nodes, NEW first, NEW own \in OpTimes,
           NEW known \in [Nodes -> OpTimes],
           UpdateLastCommitted(n, first, own, known)
    PROVE  LET point == MajorityOpTime(n, own, known)
           IN  \/ UNCHANGED <<pointVars, committed>>
               \/ /\ MayCommit(n) /\ ~Before(point, first)
                  /\ Before(lastCommitted[n], point)
                  /\ lastCommitted' = [lastCommitted EXCEPT ![n] = point]
                  /\ Stabilised(n, candidates[n], point)
                  /\ committed' = committed \cup
                                     {o \in EntriesOf(log[n]) : AtMost(o, point)}
<1> DEFINE point == MajorityOpTime(n, own, known)
<1>1. point \in OpTimes
  BY MajorityOpTimeFacts
<1>2. CASE MayCommit(n) /\ MayAdvance(n, first, point)
  <2>1. /\ lastCommitted' = [lastCommitted EXCEPT ![n] = point]
        /\ SetStable(n, candidates[n], point)
        /\ committed' = committed \cup {o \in EntriesOf(log[n]) : AtMost(o, point)}
    BY <1>2 DEF UpdateLastCommitted, AdvanceCommitPoint
  <2>2. candidates[n] \in SUBSET OpTimes
    BY DEF TypeOK
  <2>3. Stabilised(n, candidates[n], point)
    BY <1>1, <2>1, <2>2, SetStableFacts
  <2> QED BY <1>2, <2>1, <2>3 DEF MayAdvance, MayCommit
<1>3. CASE ~(MayCommit(n) /\ MayAdvance(n, first, point))
  BY <1>3 DEF UpdateLastCommitted
<1> QED BY <1>2, <1>3

\* The commit point, candidates and snapshots keep their types in such a step.
PointTypes ==
    /\ lastCommitted' \in [Nodes -> OpTimes] /\ snapshot' \in [Nodes -> OpTimes]
    /\ candidates' \in [Nodes -> SUBSET OpTimes] /\ committed' \subseteq OpTimes

\* UpdateLastCommitted keeps the types.
LEMMA UpdateLastCommittedTypes ==
    ASSUME TypeOK, NEW n \in Nodes, NEW first, NEW own \in OpTimes,
           NEW known \in [Nodes -> OpTimes],
           UpdateLastCommitted(n, first, own, known)
    PROVE  PointTypes
<1> DEFINE point == MajorityOpTime(n, own, known)
<1>1. point \in OpTimes
  BY MajorityOpTimeFacts
<1>2. EntriesOf(log[n]) \subseteq OpTimes
  BY EntriesFacts DEF TypeOK
<1>3. CASE UNCHANGED <<pointVars, committed>>
  BY <1>3 DEF PointTypes, TypeOK, pointVars
<1>4. CASE /\ lastCommitted' = [lastCommitted EXCEPT ![n] = point]
           /\ Stabilised(n, candidates[n], point)
           /\ committed' = committed \cup {o \in EntriesOf(log[n]) : AtMost(o, point)}
  BY <1>1, <1>2, <1>4 DEF PointTypes, TypeOK, Stabilised
<1> QED BY <1>3, <1>4, UpdateLastCommittedFacts

\* LearnTerm, by cases.
LEMMA LearnTermFacts ==
    ASSUME BaseInv, NEW n \in Nodes, NEW t \in Terms, LearnTerm(n, t)
    PROVE  \/ /\ t > term[n] /\ ~Leader(n) /\ steppingDown' = steppingDown
              /\ term' = [term EXCEPT ![n] = t]
              /\ elect' = [elect EXCEPT ![n] = NoElection]
           \/ /\ ~(t > term[n] /\ ~Leader(n)) /\ term' = term /\ elect' = elect
              /\ steppingDown' = [steppingDown EXCEPT ![n] = steppingDown[n] \/ t > term[n]]
BY DEF LearnTerm

\* No election is an election without votes.
LEMMA NoElectionTypes == NoElection \in [request : OpTimes, votes : SUBSET Nodes]
BY DEF NoElection, OpTimes

\* The first layer holds initially.
LEMMA BaseInit == Init => BaseInv
<1> SUFFICES ASSUME Init PROVE BaseInv
  OBVIOUS
<1>1. PICK p \in Nodes :
          role = [n \in Nodes |-> IF n = p THEN "draining" ELSE "follower"]
  BY DEF Init
<1>2. <<>> \in Logs /\ Len(<<>>) = 0
  <2>1. <<>> \in Seq(1 .. MaxTerm) /\ Len(<<>>) = 0
    BY EmptySeq
  <2>2. Len(<<>>) <= MaxLog
    BY <2>1, CommitAssumption
  <2> QED BY <2>1, <2>2, LogIntro
<1>3. Null \in OpTimes /\ NoElection \in [request : OpTimes, votes : SUBSET Nodes]
  BY NoElectionTypes DEF OpTimes
<1>4. role \in [Nodes -> Roles]
  BY <1>1 DEF Roles
<1>5. 1 \in Terms
  BY CommitAssumption DEF Terms
<1> QED BY <1>2, <1>3, <1>4, <1>5, CommitAssumption DEF Init, BaseInv, TypeOK, TermInv

\* Elections and terms keep the first layer.
LEMMA BaseVotes ==
    ASSUME BaseInv, NEW n \in Nodes, NEW m \in Nodes,
           \/ StartElection(n) \/ FinishStepDown(n) \/ Vote(n, m) \/ UpdateTerm(n, m)
    PROVE  BaseInv'
<1>0. NoElection \in [request : OpTimes, votes : SUBSET Nodes]
  BY NoElectionTypes
<1>1. /\ term \in [Nodes -> Terms] /\ lastVote \in [Nodes -> Terms]
      /\ role \in [Nodes -> Roles] /\ steppingDown \in [Nodes -> BOOLEAN]
      /\ elect \in [Nodes -> [request : OpTimes, votes : SUBSET Nodes]]
      /\ Types /\ TermInv
  BY TypesHold DEF BaseInv, TypeOK
<1>2. CASE StartElection(n)
  <2>1. term[n] + 1 \in Terms
    BY <1>1, <1>2, Bounds DEF StartElection, Terms, Types, Numbers
  <2>2. [request |-> lastApplied(n), votes |-> {n}]
            \in [request : OpTimes, votes : SUBSET Nodes]
    BY <1>1 DEF lastApplied, Types, Records
  <2>3. TypeOK'
    BY <1>1, <1>2, <2>1, <2>2
    DEF StartElection, BaseInv, TypeOK, logVars, pointVars
  <2>4. TermInv'
    BY <1>1, <1>2 DEF StartElection, TermInv, Types, Numbers
  <2> QED BY <2>3, <2>4 DEF BaseInv
<1>3. CASE FinishStepDown(n)
  <2>1. [k \in Nodes |-> Null] \in [Nodes -> OpTimes]
    BY DEF OpTimes
  <2>2. TypeOK'
    BY <1>3, <2>1 DEF FinishStepDown, BaseInv, TypeOK, logVars, pointVars, Roles
  <2>3. TermInv'
    BY <1>1, <1>3 DEF FinishStepDown, TermInv
  <2> QED BY <2>2, <2>3 DEF BaseInv
<1>4. CASE Vote(n, m)
  <2> DEFINE all == elect[m].votes \cup {n}
             new == IF IsMajority(all) THEN NoElection ELSE [elect[m] EXCEPT !.votes = all]
  <2>1. new \in [request : OpTimes, votes : SUBSET Nodes]
    BY <1>0, <1>1 DEF Types, Records
  <2>2. /\ term' = [term EXCEPT ![n] = term[m]]
        /\ lastVote' = [lastVote EXCEPT ![n] = term[m]]
        /\ role' = IF IsMajority(all) THEN [role EXCEPT ![m] = "draining"] ELSE role
        /\ elect' = [elect EXCEPT ![m] = new, ![n] = NoElection]
        /\ UNCHANGED <<steppingDown, logVars, rollback, memberData, pointVars,
                       waiting, committed, crashes>>
    BY <1>4 DEF Vote
  <2> HIDE DEF new, all
  <2>3. elect' \in [Nodes -> [request : OpTimes, votes : SUBSET Nodes]]
    BY <1>0, <1>1, <2>1, <2>2
  <2>4. role' \in [Nodes -> Roles]
    BY <1>1, <2>2 DEF Roles
  <2>5. TypeOK'
    BY <1>1, <2>2, <2>3, <2>4 DEF BaseInv, TypeOK, logVars, pointVars
  <2>6. TermInv'
    BY <1>1, <2>2 DEF TermInv, Types, Numbers
  <2> QED BY <2>5, <2>6 DEF BaseInv
<1>5. CASE UpdateTerm(n, m)
  <2>1. LearnTerm(n, term[m]) /\ term[m] \in Terms
    BY <1>1, <1>5 DEF UpdateTerm
  <2>2. /\ term' \in [Nodes -> Terms] /\ steppingDown' \in [Nodes -> BOOLEAN]
        /\ elect' \in [Nodes -> [request : OpTimes, votes : SUBSET Nodes]]
    BY <1>0, <1>1, <2>1, LearnTermFacts
  <2>3. TypeOK'
    BY <1>1, <1>5, <2>2
    DEF UpdateTerm, BaseInv, TypeOK, logVars, pointVars
  <2>4. TermInv'
    <3>1. lastVote' = lastVote /\ term \in [Nodes -> Terms]
      BY <1>1, <1>5 DEF UpdateTerm
    <3>2. term' = term \/ (term' = [term EXCEPT ![n] = term[m]] /\ term[m] > term[n])
      BY <2>1, LearnTermFacts
    <3>3. ASSUME NEW k \in Nodes PROVE term'[k] \in Nat /\ term'[k] >= term[k]
      BY <1>1, <3>1, <3>2 DEF Types, Numbers
    <3> QED BY <1>1, <3>1, <3>3 DEF TermInv, Types, Numbers
  <2> QED BY <2>3, <2>4 DEF BaseInv
<1> QED BY <1>2, <1>3, <1>4, <1>5

\* Writing an entry keeps the first layer.
LEMMA BaseWrites ==
    ASSUME BaseInv, NEW n \in Nodes,
           SignalDrainComplete(n) \/ ClientWrite(n)
    PROVE  BaseInv'
<1>1. LogEntry(n) /\ Types /\ TermInv
  BY TypesHold DEF SignalDrainComplete, ClientWrite, BaseInv
<1> DEFINE o == <<term[n], Len(log[n]) + 1>>
<1>2. term[n] \in 1 .. MaxTerm /\ Len(log[n]) + 1 \in 1 .. MaxLog /\ o \in OpTimes
  <2>1. term[n] \in 1 .. MaxTerm /\ Len(log[n]) + 1 \in 1 .. MaxLog
    BY <1>1, Bounds DEF LogEntry, TermInv, Types, Numbers
  <2> QED BY <2>1 DEF OpTimes
<1>3. /\ log[n] \o <<term[n]>> \in Logs
      /\ Len(log[n] \o <<term[n]>>) = Len(log[n]) + 1
  BY <1>1, <1>2, AppendFacts DEF LogEntry, Types, Records
<1>4. log' = [log EXCEPT ![n] = log[n] \o <<term[n]>>] /\ log \in [Nodes -> Logs]
  BY <1>1 DEF LogEntry, BaseInv, TypeOK
<1>5. log' \in [Nodes -> Logs]
  BY <1>3, <1>4
<1>6. /\ durable' \in [Nodes -> 0 .. MaxLog]
      /\ \A m \in Nodes : durable'[m] <= Len(log'[m])
  <2>1. durable' = durable \/ durable' = [durable EXCEPT ![n] = Len(log[n]) + 1]
    BY <1>1 DEF LogEntry, DurableWith
  <2>2. durable \in [Nodes -> 0 .. MaxLog]
    BY DEF BaseInv, TypeOK
  <2>3. \A m \in Nodes \ {n} : log'[m] = log[m]
    BY <1>4
  <2>4. Len(log'[n]) = Len(log[n]) + 1
    BY <1>3, <1>4
  <2>5. \A m \in Nodes : durable'[m] = durable[m] \/ (m = n /\ durable'[m] = Len(log[n]) + 1)
    BY <2>1, <2>2
  <2>6. durable' \in [Nodes -> 0 .. MaxLog]
    BY <1>2, <2>1, <2>2
  <2> QED BY <1>1, <2>3, <2>4, <2>5, <2>6 DEF Types, Numbers
<1>7. Stabilised(n, candidates[n] \cup {o}, lastCommitted[n])
  <2>1. lastCommitted[n] \in OpTimes /\ FALSE \in BOOLEAN
    BY DEF BaseInv, TypeOK
  <2>2. SetMyLastApplied(n, o, lastCommitted[n], FALSE)
    BY <1>1 DEF LogEntry
  <2> QED BY <1>2, <2>1, <2>2, SetMyLastAppliedFacts DEF BaseInv
<1>8. CASE SignalDrainComplete(n)
  <2>1. TypeOK'
    BY <1>5, <1>6, <1>7, <1>8
    DEF SignalDrainComplete, BaseInv, TypeOK, Stabilised, Roles
  <2>2. TermInv'
    BY <1>1, <1>8 DEF SignalDrainComplete, TermInv
  <2> QED BY <2>1, <2>2 DEF BaseInv
<1>9. CASE ClientWrite(n)
  <2>1. waiting' \in [Nodes -> SUBSET OpTimes]
    BY <1>2, <1>9 DEF ClientWrite, BaseInv, TypeOK
  <2>2. TypeOK'
    BY <1>5, <1>6, <1>7, <1>9, <2>1
    DEF ClientWrite, BaseInv, TypeOK, Stabilised, electVars
  <2>3. TermInv'
    BY <1>1, <1>9 DEF ClientWrite, TermInv, electVars
  <2> QED BY <2>2, <2>3 DEF BaseInv
<1> QED BY <1>8, <1>9

\* Flushes and positions keep the first layer.
LEMMA BasePositions ==
    ASSUME BaseInv, NEW n \in Nodes, NEW m \in Nodes,
           Flush(n) \/ RecordPosition(n, m)
    PROVE  BaseInv'
<1>1. Types /\ TermInv /\ TypeOK
  BY TypesHold DEF BaseInv
<1>2. PICK k \in Nodes : durable' = [durable EXCEPT ![k] = Len(log[k])]
  BY DEF Flush, RecordPosition, ReportFlushes
<1>3. durable' \in [Nodes -> 0 .. MaxLog] /\ log' = log
  BY <1>1, <1>2 DEF TypeOK, Types, Numbers, Flush, RecordPosition
<1>4. \A j \in Nodes : durable'[j] <= Len(log'[j])
  BY <1>1, <1>2, <1>3 DEF TypeOK, Types, Numbers
<1>5. memberData' \in [Nodes -> [Nodes -> OpTimes]]
  <2>1. memberData \in [Nodes -> [Nodes -> OpTimes]] /\ lastApplied(m) \in OpTimes
    BY <1>1 DEF TypeOK, Types, Records, lastApplied
  <2>2. memberData' = memberData \/ memberData' = [memberData EXCEPT ![n][m] = lastApplied(m)]
    BY DEF Flush, RecordPosition
  <2> QED BY <2>1, <2>2
<1>6. PointTypes
  <2>1. CASE Flush(n)
    <3>1. UpdateLastCommitted(n, firstOpTimeOfMyTerm(n), lastApplied(n), memberData[n])
      BY <2>1 DEF Flush
    <3>2. lastApplied(n) \in OpTimes /\ memberData[n] \in [Nodes -> OpTimes]
      BY <1>1 DEF Types, Records, lastApplied
    <3> QED BY <1>1, <3>1, <3>2, UpdateLastCommittedTypes
  <2>2. CASE RecordPosition(n, m)
    <3>1. UpdateLastCommitted(n, firstOpTimeOfMyTerm(n), Position(n), memberData'[n])
      BY <2>2 DEF RecordPosition
    <3>2. Position(n) \in OpTimes /\ memberData'[n] \in [Nodes -> OpTimes]
      BY <1>1, <1>5 DEF Types, Records
    <3> QED BY <1>1, <3>1, <3>2, UpdateLastCommittedTypes
  <2> QED BY <2>1, <2>2
<1>7. UNCHANGED <<electVars, log, minValid, rollback, waiting, crashes>>
  BY DEF Flush, RecordPosition
<1>8. TypeOK'
  BY <1>1, <1>3, <1>4, <1>5, <1>6, <1>7 DEF TypeOK, PointTypes, electVars
<1>9. TermInv'
  BY <1>1, <1>7 DEF TermInv, electVars
<1> QED BY <1>8, <1>9 DEF BaseInv

\* The oplog of n after a batch from s.
LEMMA FetchLog ==
    ASSUME BaseInv, NEW n \in Nodes, NEW s \in Nodes, NEW k \in 0 .. MaxBatch,
           Fetch(n, s, k)
    PROVE  LET new == Len(log[n]) + k
           IN  /\ s # n /\ new \in 0 .. Len(log[s]) /\ new \in Nat
               /\ log' \in [Nodes -> Logs] /\ Len(log'[n]) = new
               /\ \A m \in Nodes \ {n} : log'[m] = log[m]
               /\ \A i \in 1 .. new : log'[n][i] = log[s][i]
               /\ log'[n] = SubSeq(log[s], 1, new)
               /\ durable' \in [Nodes -> 0 .. MaxLog]
               /\ \A m \in Nodes \ {n} : durable'[m] = durable[m]
               /\ durable'[n] = durable[n] \/ durable'[n] = new
<1> DEFINE new == Len(log[n]) + k
<1>1. /\ Types /\ log \in [Nodes -> Logs] /\ durable \in [Nodes -> 0 .. MaxLog]
      /\ k \in Nat
  BY TypesHold, CommitAssumption, SMTT(30) DEF BaseInv, TypeOK
<1>2. /\ s # n /\ new <= Len(log[s])
      /\ log' = [log EXCEPT ![n] = SubSeq(log[s], 1, new)]
      /\ durable' = durable \/ durable' = [durable EXCEPT ![n] = new]
  BY DEF Fetch, CanFetch, DurableWith
<1>3. new \in 0 .. Len(log[s]) /\ new \in Nat /\ new \in 0 .. MaxLog
  BY <1>1, <1>2, Bounds DEF Types, Numbers
<1>4. /\ SubSeq(log[s], 1, new) \in Logs /\ Len(SubSeq(log[s], 1, new)) = new
      /\ \A i \in 1 .. new : SubSeq(log[s], 1, new)[i] = log[s][i]
  BY <1>1, <1>3, CutFacts
<1> HIDE DEF new
<1>5. /\ log' \in [Nodes -> Logs] /\ log'[n] = SubSeq(log[s], 1, new)
      /\ \A m \in Nodes \ {n} : log'[m] = log[m]
  BY <1>1, <1>2, <1>4
<1>6. /\ durable' \in [Nodes -> 0 .. MaxLog]
      /\ \A m \in Nodes \ {n} : durable'[m] = durable[m]
      /\ durable'[n] = durable[n] \/ durable'[n] = new
  BY <1>1, <1>2, <1>3
<1> QED BY <1>2, <1>3, <1>4, <1>5, <1>6 DEF new

\* A batch moves the commit point of a member that is not draining, to that of
\* its source, or leaves it.
LEMMA FetchPoint ==
    ASSUME BaseInv, NEW n \in Nodes, NEW s \in Nodes, NEW k \in 0 .. MaxBatch,
           Fetch(n, s, k)
    PROVE  /\ lastCommitted' \in [Nodes -> OpTimes]
           /\ \A m \in Nodes \ {n} : lastCommitted'[m] = lastCommitted[m]
           /\ \/ lastCommitted'[n] = lastCommitted[n]
              \/ /\ lastCommitted'[n] = lastCommitted[s] /\ ~Leader(n)
                 /\ Before(lastCommitted[n], lastCommitted[s])
           /\ \/ UNCHANGED <<candidates, snapshot>>
              \/ Stabilised(n, candidates[n] \cup {LastOf(log'[n])}, lastCommitted'[n])
<1> DEFINE new == Len(log[n]) + k
           moves == MayAdvance(n, firstOpTimeOfMyTerm(n), lastCommitted[s])
           point == IF moves THEN lastCommitted[s] ELSE lastCommitted[n]
<1>1. /\ Types /\ TypeOK /\ k \in Nat /\ lastCommitted \in [Nodes -> OpTimes]
  BY TypesHold, CommitAssumption, SMTT(30) DEF BaseInv, TypeOK
<1>2. /\ lastCommitted' = [lastCommitted EXCEPT ![n] = point]
      /\ role[n] \in {"follower", "draining"}
      /\ k = 0 => IF moves THEN SetStable(n, candidates[n], point)
                  ELSE UNCHANGED <<candidates, snapshot>>
      /\ k # 0 => SetMyLastApplied(n, <<log[s][new], new>>, point, moves)
  BY DEF Fetch, CanFetch
<1>3. point \in OpTimes /\ candidates[n] \in SUBSET OpTimes
  BY <1>1 DEF Types, Records
<1>4. /\ new \in 0 .. Len(log[s]) /\ new \in Nat
      /\ log'[n] \in Logs /\ Len(log'[n]) = new
      /\ \A i \in 1 .. new : log'[n][i] = log[s][i]
      /\ log'[n] = SubSeq(log[s], 1, new)
  BY FetchLog
<1>5. moves => ~Leader(n)
  <2>1. ASSUME moves, Leader(n) PROVE FALSE
    <3>1. firstOpTimeOfMyTerm(n) = <<MaxTerm + 1, 0>>
      BY <1>2 DEF firstOpTimeOfMyTerm
    <3>2. ~Before(lastCommitted[s], <<MaxTerm + 1, 0>>)
      BY <2>1, <3>1 DEF MayAdvance
    <3>3. lastCommitted[s] \in OpTimes
      BY <1>1 DEF Types, Records
    <3>4. /\ lastCommitted[s] \in Nat \X Nat /\ lastCommitted[s][1] \in Nat
          /\ lastCommitted[s][1] < MaxTerm + 1
      BY <3>3, OpTimeFields, Bounds
    <3>5. <<MaxTerm + 1, 0>> \in Nat \X Nat
      BY Bounds
    <3> QED BY <3>2, <3>4, <3>5, BeforeFacts
  <2> QED BY <2>1
<1>6. k # 0 => LastOf(log'[n]) = <<log[s][new], new>>
  <2>1. ASSUME k # 0 PROVE LastOf(log'[n]) = <<log[s][new], new>>
    <3>1. new # 0 /\ new \in 1 .. new
      BY <1>1, <1>4, <2>1 DEF Types, Numbers
    <3>2. log'[n][new] = log[s][new]
      BY <1>4, <3>1
    <3> QED BY <1>4, <3>1, <3>2 DEF LastOf, EntryAt
  <2> QED BY <2>1
<1>7. LastOf(log'[n]) \in OpTimes
  BY <1>4, LastFacts
<1>8. \/ UNCHANGED <<candidates, snapshot>>
      \/ Stabilised(n, candidates[n] \cup {LastOf(log'[n])}, point)
  <2>1. CASE k = 0 /\ moves
    <3>1. Stabilised(n, candidates[n], point)
      BY <1>1, <1>2, <1>3, <2>1, SetStableFacts
    <3> QED BY <3>1 DEF Stabilised
  <2>2. CASE k = 0 /\ ~moves
    BY <1>2, <2>2
  <2>3. CASE k # 0
    <3>1. SetMyLastApplied(n, LastOf(log'[n]), point, moves) /\ moves \in BOOLEAN
      BY <1>2, <1>6, <2>3 DEF MayAdvance
    <3> HIDE DEF moves, point
    <3> QED BY <1>1, <1>3, <1>7, <3>1, SetMyLastAppliedFacts
  <2> QED BY <2>1, <2>2, <2>3
<1>9. lastCommitted'[n] = point
  BY <1>1, <1>2
<1>10. \A m \in Nodes \ {n} : lastCommitted'[m] = lastCommitted[m]
  BY <1>1, <1>2
<1>11. lastCommitted' \in [Nodes -> OpTimes]
  BY <1>1, <1>2, <1>3
<1>12. moves => Before(lastCommitted[n], lastCommitted[s])
  BY DEF MayAdvance
<1> HIDE DEF moves
<1> QED BY <1>5, <1>8, <1>9, <1>10, <1>11, <1>12

\* Fetching keeps the first layer.
LEMMA BaseFetch ==
    ASSUME BaseInv, NEW n \in Nodes, NEW s \in Nodes, NEW k \in 0 .. MaxBatch,
           Fetch(n, s, k)
    PROVE  BaseInv'
<1>1. Types /\ TermInv /\ TypeOK
  BY TypesHold DEF BaseInv
<1>2. /\ log' \in [Nodes -> Logs] /\ durable' \in [Nodes -> 0 .. MaxLog]
      /\ \A m \in Nodes : durable'[m] <= Len(log'[m])
  <2>1. log' \in [Nodes -> Logs] /\ durable' \in [Nodes -> 0 .. MaxLog]
    BY FetchLog
  <2>2. /\ Len(log'[n]) = Len(log[n]) + k
        /\ durable'[n] = durable[n] \/ durable'[n] = Len(log[n]) + k
    BY FetchLog
  <2>3. \A m \in Nodes \ {n} : log'[m] = log[m] /\ durable'[m] = durable[m]
    BY FetchLog
  <2>4. k \in Nat
    BY CommitAssumption
  <2> QED BY <1>1, <2>1, <2>2, <2>3, <2>4 DEF Types, Numbers
<1>3. /\ lastCommitted' \in [Nodes -> OpTimes]
      /\ candidates' \in [Nodes -> SUBSET OpTimes] /\ snapshot' \in [Nodes -> OpTimes]
  BY <1>1, FetchPoint DEF Stabilised, TypeOK
<1>4. /\ term' \in [Nodes -> Terms] /\ steppingDown' \in [Nodes -> BOOLEAN]
      /\ elect' \in [Nodes -> [request : OpTimes, votes : SUBSET Nodes]]
      /\ \A m \in Nodes : term'[m] \in Nat /\ term'[m] >= term[m]
  <2>1. LearnTerm(n, term[s]) /\ term[s] \in Terms
    BY <1>1 DEF Fetch, TypeOK
  <2>2. /\ term \in [Nodes -> Terms] /\ steppingDown \in [Nodes -> BOOLEAN]
        /\ elect \in [Nodes -> [request : OpTimes, votes : SUBSET Nodes]]
    BY <1>1 DEF TypeOK
  <2>3. CASE /\ term[s] > term[n] /\ steppingDown' = steppingDown
             /\ term' = [term EXCEPT ![n] = term[s]]
             /\ elect' = [elect EXCEPT ![n] = NoElection]
    BY <1>1, <2>1, <2>2, <2>3, NoElectionTypes DEF Types, Numbers
  <2>4. CASE /\ term' = term /\ elect' = elect
             /\ steppingDown' = [steppingDown EXCEPT ![n] =
                                    steppingDown[n] \/ term[s] > term[n]]
    BY <1>1, <2>2, <2>4 DEF Types, Numbers
  <2> QED BY <2>1, <2>3, <2>4, LearnTermFacts
<1>5. UNCHANGED <<lastVote, role, minValid, rollback, memberData, waiting,
                  committed, crashes>>
  BY DEF Fetch
<1>6. TypeOK'
  BY <1>1, <1>2, <1>3, <1>4, <1>5 DEF TypeOK
<1>7. TermInv'
  BY <1>1, <1>4, <1>5 DEF TermInv, Types, Numbers
<1> QED BY <1>6, <1>7 DEF BaseInv

\* The oplog of a member that rolls back is cut at the common point.
LEMMA RollbackLog ==
    ASSUME BaseInv, NEW n \in Nodes, Rollback(n)
    PROVE  LET s == rollback[n]
               i == CommonPoint(log[n], log[s])
           IN  /\ s \in Nodes /\ rollback[n] # NoNode /\ ~Holds(log[s], lastApplied(n))
               /\ Before(lastApplied(n), lastApplied(s))
               /\ i \in 0 .. Len(log[n]) /\ i <= Len(log[s])
               /\ \A j \in 1 .. i : log[n][j] = log[s][j]
               /\ \A k \in 0 .. Len(log[n]) :
                      k <= Len(log[s]) /\ (\A j \in 1 .. k : log[n][j] = log[s][j])
                      => k <= i
               /\ log' \in [Nodes -> Logs] /\ Len(log'[n]) = i
               /\ \A m \in Nodes \ {n} : log'[m] = log[m] /\ durable'[m] = durable[m]
               /\ \A j \in 1 .. i : log'[n][j] = log[n][j]
               /\ durable' \in [Nodes -> 0 .. MaxLog] /\ durable'[n] = i
<1> DEFINE s == rollback[n]
           i == CommonPoint(log[n], log[s])
<1>1. /\ Types /\ log \in [Nodes -> Logs] /\ durable \in [Nodes -> 0 .. MaxLog]
      /\ rollback \in [Nodes -> Nodes \cup {NoNode}]
  BY TypesHold DEF BaseInv, TypeOK
<1>2. /\ rollback[n] # NoNode /\ ~Holds(log[s], lastApplied(n))
      /\ Before(lastApplied(n), lastApplied(s))
      /\ log' = [log EXCEPT ![n] = SubSeq(log[n], 1, i)]
      /\ durable' = [durable EXCEPT ![n] = i]
  BY DEF Rollback, RollbackPossible, DurableAfterRollback
<1>3. s \in Nodes
  BY <1>1, <1>2
<1>4. /\ i \in 0 .. Len(log[n]) /\ i <= Len(log[s])
      /\ \A j \in 1 .. i : log[n][j] = log[s][j]
      /\ \A k \in 0 .. Len(log[n]) :
             k <= Len(log[s]) /\ (\A j \in 1 .. k : log[n][j] = log[s][j]) => k <= i
  BY <1>1, <1>3, CommonFacts
<1> HIDE DEF i, s
<1>5. /\ SubSeq(log[n], 1, i) \in Logs /\ Len(SubSeq(log[n], 1, i)) = i
      /\ \A j \in 1 .. i : SubSeq(log[n], 1, i)[j] = log[n][j]
  BY <1>1, <1>4, CutFacts
<1>6. i \in 0 .. MaxLog
  BY <1>1, <1>4, Bounds DEF Types, Numbers
<1>7. /\ log' \in [Nodes -> Logs] /\ log'[n] = SubSeq(log[n], 1, i)
      /\ \A m \in Nodes \ {n} : log'[m] = log[m] /\ durable'[m] = durable[m]
      /\ durable' \in [Nodes -> 0 .. MaxLog] /\ durable'[n] = i
  BY <1>1, <1>2, <1>5, <1>6
<1> QED BY <1>2, <1>3, <1>4, <1>5, <1>7 DEF i, s

\* A crash cuts an oplog behind what is durable.
LEMMA CrashLog ==
    ASSUME BaseInv, NEW n \in Nodes, NEW i \in 0 .. MaxLog, Crash(n, i)
    PROVE  /\ i \in 0 .. Len(log[n]) /\ i >= durable[n]
           /\ log' \in [Nodes -> Logs] /\ Len(log'[n]) = i
           /\ \A m \in Nodes \ {n} : log'[m] = log[m] /\ durable'[m] = durable[m]
           /\ \A j \in 1 .. i : log'[n][j] = log[n][j]
           /\ durable' \in [Nodes -> 0 .. MaxLog] /\ durable'[n] = i
           /\ term' \in [Nodes -> Terms] /\ term'[n] >= lastVote[n]
           /\ \A m \in Nodes \ {n} : term'[m] = term[m]
           /\ candidates' \in [Nodes -> SUBSET OpTimes]
           /\ \A m \in Nodes \ {n} : candidates'[m] = candidates[m]
           /\ candidates'[n] = {} \/ (i # 0 /\ candidates'[n] = {LastOf(log'[n])})
<1> DEFINE l == SubSeq(log[n], 1, i)
           last == LastOf(l)
           t == IF last[1] > lastVote[n] THEN last[1] ELSE lastVote[n]
           left == IF last = Null \/ Before(last, minValid[n]) THEN {} ELSE {last}
<1>1. /\ Types /\ log \in [Nodes -> Logs] /\ durable \in [Nodes -> 0 .. MaxLog]
      /\ term \in [Nodes -> Terms] /\ candidates \in [Nodes -> SUBSET OpTimes]
  BY TypesHold DEF BaseInv, TypeOK
<1>2. /\ i >= durable[n] /\ i <= Len(log[n])
      /\ log' = [log EXCEPT ![n] = l] /\ durable' = [durable EXCEPT ![n] = i]
      /\ term' = [term EXCEPT ![n] = t]
      /\ candidates' = [candidates EXCEPT ![n] = left]
  BY DEF Crash
<1>3. i \in 0 .. Len(log[n])
  BY <1>1, <1>2, Bounds DEF Types, Numbers
<1>4. l \in Logs /\ Len(l) = i /\ \A j \in 1 .. i : l[j] = log[n][j]
  BY <1>1, <1>3, CutFacts DEF Types, Records
<1> HIDE DEF l
<1>5. last \in OpTimes /\ (last = Null <=> i = 0)
  BY <1>4, LastFacts
<1>6. last[1] \in 0 .. MaxTerm
  BY <1>5, OpTimeFields
<1> HIDE DEF last
<1>7. t \in Terms /\ t >= lastVote[n]
  BY <1>1, <1>6, Bounds DEF Terms, Types, Numbers
<1>8. left \in SUBSET OpTimes /\ (left = {} \/ (i # 0 /\ left = {last}))
  BY <1>5
<1> HIDE DEF t, left
<1>9. /\ log' \in [Nodes -> Logs] /\ log'[n] = l
      /\ \A m \in Nodes \ {n} : log'[m] = log[m] /\ durable'[m] = durable[m]
      /\ durable' \in [Nodes -> 0 .. MaxLog] /\ durable'[n] = i
  BY <1>1, <1>2, <1>4
<1>10. /\ term' \in [Nodes -> Terms] /\ term'[n] = t
       /\ \A m \in Nodes \ {n} : term'[m] = term[m]
       /\ candidates' \in [Nodes -> SUBSET OpTimes] /\ candidates'[n] = left
       /\ \A m \in Nodes \ {n} : candidates'[m] = candidates[m]
  BY <1>1, <1>2, <1>7, <1>8
<1> QED BY <1>2, <1>3, <1>4, <1>7, <1>8, <1>9, <1>10 DEF last

\* Rollback keeps the first layer.
LEMMA BaseRollbacks ==
    ASSUME BaseInv, NEW n \in Nodes, NEW s \in Nodes,
           StartRollback(n, s) \/ Rollback(n) \/ RollbackFails(n)
    PROVE  BaseInv'
<1>1. Types /\ TermInv /\ TypeOK /\ Null \in OpTimes
  BY TypesHold DEF BaseInv, OpTimes
<1>2. CASE StartRollback(n, s)
  <2>1. lastCommitted[n] \in OpTimes
    BY <1>1 DEF TypeOK
  <2>2. TypeOK'
    BY <1>1, <1>2, <2>1, NoElectionTypes
    DEF StartRollback, PointOfMismatch, TypeOK, logVars
  <2>3. TermInv'
    BY <1>1, <1>2 DEF StartRollback, TermInv
  <2> QED BY <2>2, <2>3 DEF BaseInv
<1>3. CASE Rollback(n)
  <2>1. /\ log' \in [Nodes -> Logs] /\ durable' \in [Nodes -> 0 .. MaxLog]
        /\ rollback[n] \in Nodes /\ durable'[n] = Len(log'[n])
        /\ \A m \in Nodes \ {n} : log'[m] = log[m] /\ durable'[m] = durable[m]
    BY <1>3, RollbackLog
  <2>2. \A m \in Nodes : durable'[m] <= Len(log'[m])
    <3>1. durable'[n] \in Nat
      BY <2>1, Bounds
    <3> QED BY <1>1, <2>1, <3>1 DEF Types, Numbers
  <2>3. minValid' \in [Nodes -> OpTimes]
    <3>1. lastApplied(rollback[n]) \in OpTimes
      BY <1>1, <2>1 DEF lastApplied, Types, Records
    <3> QED BY <1>1, <1>3, <3>1 DEF Rollback, TypeOK
  <2>4. candidates' \in [Nodes -> SUBSET OpTimes]
    BY <1>1, <1>3 DEF Rollback, CandidatesLeft, TypeOK
  <2>5. rollback' = [rollback EXCEPT ![n] = NoNode]
    BY <1>3 DEF Rollback
  <2>6. UNCHANGED <<electVars, memberData, lastCommitted, snapshot, waiting,
                    committed, crashes>>
    BY <1>3 DEF Rollback
  <2>7. TypeOK'
    BY <1>1, <2>1, <2>2, <2>3, <2>4, <2>5, <2>6 DEF TypeOK, electVars
  <2>8. TermInv'
    BY <1>1, <2>6 DEF TermInv, electVars
  <2> QED BY <2>7, <2>8 DEF BaseInv
<1>4. CASE RollbackFails(n)
  <2>1. rollback[n] \in Nodes /\ rollback' = [rollback EXCEPT ![n] = NoNode]
    BY <1>1, <1>4 DEF RollbackFails, TypeOK
  <2>2. minValid' \in [Nodes -> OpTimes]
    <3>1. lastApplied(rollback[n]) \in OpTimes
      BY <1>1, <2>1 DEF lastApplied, Types, Records
    <3> QED BY <1>1, <1>4, <3>1 DEF RollbackFails, TypeOK
  <2>3. UNCHANGED <<electVars, log, durable, memberData, pointVars, waiting,
                    committed, crashes>>
    BY <1>4 DEF RollbackFails
  <2>4. TypeOK'
    BY <1>1, <2>1, <2>2, <2>3 DEF TypeOK, electVars, pointVars
  <2>5. TermInv'
    BY <1>1, <2>3 DEF TermInv, electVars
  <2> QED BY <2>4, <2>5 DEF BaseInv
<1> QED BY <1>2, <1>3, <1>4

\* A crash keeps the first layer.
LEMMA BaseCrash ==
    ASSUME BaseInv, NEW n \in Nodes, NEW i \in 0 .. MaxLog, Crash(n, i)
    PROVE  BaseInv'
<1>1. Types /\ TermInv /\ TypeOK /\ Null \in OpTimes
  BY TypesHold DEF BaseInv, OpTimes
<1>2. /\ log' \in [Nodes -> Logs] /\ durable' \in [Nodes -> 0 .. MaxLog]
      /\ durable'[n] = Len(log'[n]) /\ durable'[n] \in Nat
      /\ \A m \in Nodes \ {n} : log'[m] = log[m] /\ durable'[m] = durable[m]
      /\ term' \in [Nodes -> Terms] /\ term'[n] >= lastVote[n]
      /\ \A m \in Nodes \ {n} : term'[m] = term[m]
      /\ candidates' \in [Nodes -> SUBSET OpTimes]
  BY CrashLog, Bounds
<1>3. \A m \in Nodes : durable'[m] <= Len(log'[m])
  BY <1>1, <1>2 DEF Types, Numbers
<1>4. [m \in Nodes |-> Null] \in [Nodes -> OpTimes] /\ "follower" \in Roles
  BY <1>1 DEF Roles
<1>5. /\ role' \in [Nodes -> Roles] /\ steppingDown' \in [Nodes -> BOOLEAN]
      /\ elect' \in [Nodes -> [request : OpTimes, votes : SUBSET Nodes]]
      /\ rollback' \in [Nodes -> Nodes \cup {NoNode}]
      /\ memberData' \in [Nodes -> [Nodes -> OpTimes]]
  BY <1>1, <1>4, NoElectionTypes DEF Crash, TypeOK
<1>6. /\ lastCommitted' \in [Nodes -> OpTimes] /\ snapshot' \in [Nodes -> OpTimes]
      /\ waiting' \in [Nodes -> SUBSET OpTimes]
  BY <1>1 DEF Crash, TypeOK
<1>7. UNCHANGED <<lastVote, minValid, committed>> /\ crashes' \in 0 .. MaxCrashes
  <2>1. crashes' = crashes + 1 /\ crashes < MaxCrashes /\ MaxCrashes \in Nat
    BY CommitAssumption DEF Crash
  <2>2. crashes \in 0 .. MaxCrashes
    BY <1>1 DEF TypeOK
  <2> QED BY <2>1, <2>2 DEF Crash
<1>8. TypeOK'
  BY <1>1, <1>2, <1>3, <1>5, <1>6, <1>7 DEF TypeOK
<1>9. TermInv'
  BY <1>1, <1>2, <1>7 DEF TermInv, Types, Numbers
<1> QED BY <1>8, <1>9 DEF BaseInv

\* Every step keeps the first layer.
LEMMA BaseStep == BaseInv /\ [Next]_vars => BaseInv'
<1> SUFFICES ASSUME BaseInv, [Next]_vars PROVE BaseInv'
  OBVIOUS
<1>1. CASE UNCHANGED vars
  BY <1>1 DEF BaseInv, TypeOK, TermInv, vars, electVars, logVars, pointVars
<1>2. CASE Next
  BY <1>2, BaseVotes, BaseWrites, BasePositions, BaseFetch, BaseRollbacks,
     BaseCrash DEF Next
<1> QED BY <1>1, <1>2

\* Every variable has the type of the member it stands for; in particular no
\* oplog is durable beyond its end, whatever is rolled back or lost in a crash.
THEOREM TypeCorrect == Spec => []TypeOK
<1>1. Init => BaseInv
  BY BaseInit
<1>2. BaseInv /\ [Next]_vars => BaseInv'
  BY BaseStep
<1>3. BaseInv => TypeOK
  BY DEF BaseInv
<1> QED BY <1>1, <1>2, <1>3, PTL DEF Spec

-----------------------------------------------------------------------------
(* The second layer: elections and oplogs *)

\* n stands for election.
Candidate(n) == elect[n] # NoElection

\* A candidate has voted for itself, still has the entry it asks for votes with,
\* and its votes are stored.
CandidateInv ==
    \A c \in Nodes : Candidate(c) =>
        /\ role[c] = "follower" /\ rollback[c] = NoNode
        /\ c \in elect[c].votes
        /\ elect[c].request = Null \/ Has(log[c], elect[c].request)
        /\ \A v \in elect[c].votes : lastVote[v] >= term[c]

\* Nobody has voted for two candidates of a term.
VotesDisjoint ==
    \A c, d \in Nodes :
        Candidate(c) /\ Candidate(d) /\ c # d /\ term[c] = term[d] =>
            \A v \in elect[c].votes : v \notin elect[d].votes

\* Those whose vote no candidate of term t has or can get any more.
Spent(t) ==
    {v \in Nodes : /\ lastVote[v] >= t
                   /\ \A c \in Nodes : Candidate(c) /\ term[c] = t =>
                                           v \notin elect[c].votes}

\* Nobody can be elected in term t any more.
Decided(t) == IsMajority(Spent(t))

\* A leader is not in ROLLBACK and its election is decided.
LeaderInv ==
    \A n \in Nodes : Leader(n) => rollback[n] = NoNode /\ Decided(term[n])

\* There is one leader in a term.
OneLeader ==
    \A n, m \in Nodes : Leader(n) /\ Leader(m) /\ term[n] = term[m] => n = m

\* The election of the term of every entry is decided.
EntryDecided ==
    \A n \in Nodes : \A i \in 1 .. Len(log[n]) : Decided(log[n][i])

\* What elections keep.
VoteInv == CandidateInv /\ VotesDisjoint /\ LeaderInv /\ OneLeader /\ EntryDecided

\* The terms in an oplog do not decrease.
Ordered ==
    \A n \in Nodes : \A i, j \in 1 .. Len(log[n]) : i <= j => log[n][i] <= log[n][j]

\* Two oplogs with entries of the same term agree up to the first of them.
Matching ==
    \A n, m \in Nodes : \A j \in 1 .. Len(log[n]), k \in 1 .. Len(log[m]) :
        j <= k /\ log[n][j] = log[m][k] => \A i \in 1 .. j : log[m][i] = log[n][i]

\* Nobody has an entry of a leader that has not written any.
Fresh ==
    \A n, m \in Nodes : role[n] = "draining" =>
        \A i \in 1 .. Len(log[m]) : log[m][i] # term[n]

\* A primary has every entry of its term.
HasAll ==
    \A n \in Nodes : role[n] = "primary" =>
        /\ Len(log[n]) > 0 /\ log[n][Len(log[n])] = term[n]
        /\ \A m \in Nodes : \A i \in 1 .. Len(log[m]) :
               log[m][i] = term[n] => i <= Len(log[n]) /\ log[n][i] = term[n]

\* What the oplogs keep.
LogInv == Ordered /\ Matching /\ Fresh /\ HasAll

\* In a step the oplog of m is extended.
Extends(m) ==
    /\ Len(log[m]) <= Len(log'[m])
    /\ \A i \in 1 .. Len(log[m]) : log'[m][i] = log[m][i]

\* A step in which nobody votes or is elected: candidates and leaders stay what
\* they are, keep their terms and lose no entries, or cease to be.
Calm ==
    /\ lastVote' = lastVote
    /\ \A m \in Nodes :
           /\ \/ elect'[m] = NoElection
              \/ /\ elect'[m] = elect[m] /\ term'[m] = term[m]
                 /\ role'[m] = role[m] /\ rollback'[m] = rollback[m] /\ Extends(m)
           /\ Leader(m)' => /\ Leader(m) /\ term'[m] = term[m]
                            /\ rollback'[m] = rollback[m] /\ Extends(m)

\* Every entry was in an oplog before the step or is of the term of a leader.
EntriesKnown ==
    \A m \in Nodes : \A i \in 1 .. Len(log'[m]) :
        \/ \E s \in Nodes : i \in 1 .. Len(log[s]) /\ log[s][i] = log'[m][i]
        \/ \E s \in Nodes : Leader(s) /\ term[s] = log'[m][i]

\* In a calm step no vote comes back.
LEMMA CalmSpent ==
    ASSUME Calm, NEW t
    PROVE  Spent(t) \subseteq Spent(t)' /\ Spent(t)' \in SUBSET Nodes
BY DEF Calm, Spent, Candidate

\* A calm step keeps what elections keep.
LEMMA CalmVotes ==
    ASSUME Types, VoteInv, Calm, EntriesKnown
    PROVE  VoteInv'
<1>1. ASSUME NEW t, Decided(t) PROVE Decided(t)'
  <2>1. IsMajority(Spent(t)')
    BY <1>1, CalmSpent, MajorityGrows DEF Decided
  <2> QED BY <2>1 DEF Decided, IsMajority
<1>2. CandidateInv'
  <2> SUFFICES ASSUME NEW c \in Nodes, Candidate(c)'
               PROVE  CandidateInv!(c)'
    BY DEF CandidateInv
  <2>1. /\ Candidate(c) /\ elect'[c] = elect[c] /\ term'[c] = term[c]
        /\ role'[c] = role[c] /\ rollback'[c] = rollback[c] /\ Extends(c)
        /\ lastVote' = lastVote
    BY DEF Calm, Candidate
  <2>2. CandidateInv!(c)
    BY DEF VoteInv, CandidateInv
  <2>3. Has(log[c], elect[c].request) => Has(log'[c], elect'[c].request)
    BY <2>1 DEF Has, Extends, Types, Numbers
  <2> QED BY <2>1, <2>2, <2>3
<1>3. VotesDisjoint'
  BY DEF VoteInv, VotesDisjoint, Calm, Candidate
<1>4. LeaderInv'
  <2> SUFFICES ASSUME NEW n \in Nodes, Leader(n)'
               PROVE  rollback'[n] = NoNode /\ Decided(term[n])'
    BY DEF LeaderInv
  <2>1. Leader(n) /\ term'[n] = term[n] /\ rollback'[n] = rollback[n]
    BY DEF Calm
  <2>2. rollback[n] = NoNode /\ Decided(term[n])
    BY <2>1 DEF VoteInv, LeaderInv
  <2> QED BY <1>1, <2>1, <2>2
<1>5. OneLeader'
  BY DEF VoteInv, OneLeader, Calm
<1>6. EntryDecided'
  <2> SUFFICES ASSUME NEW m \in Nodes, NEW i \in 1 .. Len(log'[m])
               PROVE  Decided(log[m][i])'
    BY DEF EntryDecided
  <2>1. PICK t : t = log'[m][i]
    OBVIOUS
  <2>2. Decided(t)
    BY <2>1 DEF EntriesKnown, VoteInv, EntryDecided, LeaderInv
  <2>3. Decided(t)'
    BY <1>1, <2>2
  <2> QED BY <2>1, <2>3 DEF Decided, Spent
<1> QED BY <1>2, <1>3, <1>4, <1>5, <1>6 DEF VoteInv

\* What StartElection changes, member by member.
LEMMA StartElectionFacts ==
    ASSUME BaseInv, NEW n \in Nodes, StartElection(n)
    PROVE  /\ role[n] = "follower" /\ rollback[n] = NoNode /\ Candidate(n)'
           /\ term'[n] = term[n] + 1 /\ lastVote'[n] = term[n] + 1
           /\ elect'[n].request = LastOf(log[n]) /\ elect'[n].votes = {n}
           /\ \A m \in Nodes \ {n} : /\ term'[m] = term[m] /\ elect'[m] = elect[m]
                                     /\ lastVote'[m] = lastVote[m]
           /\ UNCHANGED <<role, steppingDown, logVars, rollback, memberData,
                          pointVars, waiting, committed, crashes>>
<1>1. /\ term \in [Nodes -> Terms] /\ lastVote \in [Nodes -> Terms]
      /\ elect \in [Nodes -> [request : OpTimes, votes : SUBSET Nodes]]
  BY DEF BaseInv, TypeOK
<1>2. elect' = [elect EXCEPT ![n] = [request |-> LastOf(log[n]), votes |-> {n}]]
  BY DEF StartElection, lastApplied
<1>3. elect'[n] = [request |-> LastOf(log[n]), votes |-> {n}]
  BY <1>1, <1>2
<1>4. elect'[n].request = LastOf(log[n]) /\ elect'[n].votes = {n} /\ Candidate(n)'
  BY <1>3 DEF Candidate, NoElection
<1> QED BY <1>1, <1>2, <1>4 DEF StartElection

\* StartElection keeps what elections keep.
LEMMA StartElectionVotes ==
    ASSUME BaseInv, VoteInv, NEW n \in Nodes, StartElection(n)
    PROVE  VoteInv'
<1>1. Types /\ TermInv
  BY TypesHold DEF BaseInv
<1>2. /\ role[n] = "follower" /\ rollback[n] = NoNode /\ Candidate(n)'
      /\ term'[n] = term[n] + 1 /\ lastVote'[n] = term[n] + 1
      /\ elect'[n].request = LastOf(log[n]) /\ elect'[n].votes = {n}
      /\ \A m \in Nodes \ {n} : /\ term'[m] = term[m] /\ elect'[m] = elect[m]
                                /\ lastVote'[m] = lastVote[m]
      /\ role' = role /\ rollback' = rollback /\ log' = log
  BY StartElectionFacts DEF logVars
<1>3. ASSUME NEW c \in Nodes \ {n} PROVE Candidate(c)' <=> Candidate(c)
  BY <1>2 DEF Candidate
<1>4. ASSUME NEW t \in Nat PROVE Spent(t) \subseteq Spent(t)'
  <2> SUFFICES ASSUME NEW v \in Spent(t) PROVE v \in Spent(t)'
    OBVIOUS
  <2>1. v \in Nodes /\ lastVote[v] >= t /\ lastVote'[v] >= t
    BY <1>1, <1>2 DEF Spent, TermInv, Types, Numbers
  <2>2. ASSUME NEW c \in Nodes, Candidate(c)', term'[c] = t PROVE v \notin elect'[c].votes
    <3>1. CASE c = n
      BY <1>1, <1>2, <2>1, <2>2, <3>1 DEF TermInv, Types, Numbers
    <3>2. CASE c # n
      BY <1>2, <1>3, <2>2, <3>2 DEF Spent
    <3> QED BY <3>1, <3>2
  <2> QED BY <2>1, <2>2 DEF Spent
<1>5. ASSUME NEW t \in Nat, Decided(t) PROVE Decided(t)'
  <2>1. IsMajority(Spent(t)')
    BY <1>4, <1>5, MajorityGrows DEF Decided, Spent
  <2> QED BY <2>1 DEF Decided, IsMajority
<1>6. CandidateInv'
  <2> SUFFICES ASSUME NEW c \in Nodes, Candidate(c)'
               PROVE  CandidateInv!(c)'
    BY DEF CandidateInv
  <2>1. CASE c = n
    <3>1. LastOf(log[n]) = Null \/ Has(log[n], LastOf(log[n]))
      BY <1>1, LastFacts DEF Types, Records
    <3> QED BY <1>1, <1>2, <2>1, <3>1 DEF Types, Numbers
  <2>2. CASE c # n
    <3>1. CandidateInv!(c)
      BY <1>3, <2>2 DEF VoteInv, CandidateInv
    <3>2. \A v \in Nodes : lastVote'[v] >= lastVote[v]
      BY <1>1, <1>2 DEF TermInv, Types, Numbers
    <3>3. \A v \in elect[c].votes : lastVote'[v] >= term[c]
      <4>1. ASSUME NEW v \in elect[c].votes PROVE lastVote'[v] >= term[c]
        <5>1. v \in Nodes /\ lastVote[v] >= term[c]
          BY <1>1, <1>3, <2>2, <3>1 DEF Types, Records
        <5> QED BY <1>1, <1>2, <3>2, <5>1 DEF Types, Numbers
      <4> QED BY <4>1
    <3> QED BY <1>2, <1>3, <2>2, <3>1, <3>3
  <2> QED BY <2>1, <2>2
<1>7. VotesDisjoint'
  <2>1. ASSUME NEW d \in Nodes \ {n}, Candidate(d), term[d] = term[n] + 1
        PROVE  n \notin elect[d].votes
    BY <1>1, <2>1 DEF VoteInv, CandidateInv, TermInv, Types, Numbers
  <2> SUFFICES ASSUME NEW c \in Nodes, NEW d \in Nodes, c # d,
                      Candidate(c)', Candidate(d)', term'[c] = term'[d],
                      NEW v \in elect'[c].votes
               PROVE  v \notin elect'[d].votes
    BY DEF VotesDisjoint
  <2>2. CASE c = n
    BY <1>2, <1>3, <2>1, <2>2
  <2>3. CASE d = n
    BY <1>2, <1>3, <2>1, <2>3
  <2>4. CASE c # n /\ d # n
    BY <1>2, <1>3, <2>4 DEF VoteInv, VotesDisjoint
  <2> QED BY <2>2, <2>3, <2>4
<1>8. \A m \in Nodes : Leader(m)' => Leader(m) /\ term'[m] = term[m]
  BY <1>2 DEF Leader
<1>9. LeaderInv'
  <2> SUFFICES ASSUME NEW m \in Nodes, Leader(m)'
               PROVE  rollback'[m] = NoNode /\ Decided(term[m])'
    BY DEF LeaderInv
  <2>1. rollback[m] = NoNode /\ Decided(term[m]) /\ term[m] \in Nat
    BY <1>1, <1>8 DEF VoteInv, LeaderInv, Types, Numbers
  <2>2. PICK t : t = term[m]
    OBVIOUS
  <2>3. Decided(t)'
    BY <1>5, <2>1, <2>2
  <2> QED BY <1>2, <1>8, <2>1, <2>2, <2>3 DEF Decided, Spent
<1>10. OneLeader'
  BY <1>8 DEF VoteInv, OneLeader
<1>11. EntryDecided'
  <2> SUFFICES ASSUME NEW m \in Nodes, NEW i \in 1 .. Len(log[m])
               PROVE  Decided(log[m][i])'
    BY <1>2 DEF EntryDecided
  <2>1. Decided(log[m][i]) /\ log[m][i] \in Nat
    BY <1>1 DEF VoteInv, EntryDecided, Types, Numbers
  <2>2. PICK t : t = log[m][i]
    OBVIOUS
  <2>3. Decided(t)'
    BY <1>5, <2>1, <2>2
  <2> QED BY <1>2, <2>2, <2>3 DEF Decided, Spent
<1> QED BY <1>6, <1>7, <1>9, <1>10, <1>11 DEF VoteInv

\* What Vote changes, member by member.
LEMMA VoteFacts ==
    ASSUME BaseInv, NEW v \in Nodes, NEW n \in Nodes, Vote(v, n)
    PROVE  LET all == elect[n].votes \cup {v}
           IN  /\ v # n /\ Candidate(n) /\ role[v] = "follower"
               /\ lastVote[v] < term[n] /\ AtMost(LastOf(log[v]), elect[n].request)
               /\ term'[v] = term[n] /\ lastVote'[v] = term[n] /\ elect'[v] = NoElection
               /\ \A m \in Nodes \ {v} : term'[m] = term[m] /\ lastVote'[m] = lastVote[m]
               /\ \A m \in Nodes \ {v, n} : elect'[m] = elect[m]
               /\ \/ /\ IsMajority(all) /\ elect'[n] = NoElection
                     /\ role' = [role EXCEPT ![n] = "draining"]
                  \/ /\ role' = role
                     /\ elect'[n].request = elect[n].request /\ elect'[n].votes = all
               /\ UNCHANGED <<steppingDown, logVars, rollback, memberData, pointVars,
                              waiting, committed, crashes>>
<1> DEFINE all == elect[n].votes \cup {v}
           new == IF IsMajority(all) THEN NoElection
                  ELSE [elect[n] EXCEPT !.votes = all]
<1>1. /\ term \in [Nodes -> Terms] /\ lastVote \in [Nodes -> Terms]
      /\ elect \in [Nodes -> [request : OpTimes, votes : SUBSET Nodes]]
  BY DEF BaseInv, TypeOK
<1>2. /\ v # n /\ Candidate(n) /\ role[v] = "follower"
      /\ lastVote[v] < term[n] /\ AtMost(LastOf(log[v]), elect[n].request)
      /\ term' = [term EXCEPT ![v] = term[n]]
      /\ lastVote' = [lastVote EXCEPT ![v] = term[n]]
      /\ role' = IF IsMajority(all) THEN [role EXCEPT ![n] = "draining"] ELSE role
      /\ elect' = [elect EXCEPT ![n] = new, ![v] = NoElection]
      /\ UNCHANGED <<steppingDown, logVars, rollback, memberData, pointVars,
                     waiting, committed, crashes>>
  BY DEF Vote, MayVote, Candidate, lastApplied
<1>3. ~IsMajority(all) => new.request = elect[n].request /\ new.votes = all
  BY <1>1
<1>4. IsMajority(all) => new = NoElection
  OBVIOUS
<1> HIDE DEF new
<1>5. elect'[n] = new /\ elect'[v] = NoElection /\ \A m \in Nodes \ {v, n} : elect'[m] = elect[m]
  BY <1>1, <1>2
<1>6. /\ term'[v] = term[n] /\ lastVote'[v] = term[n]
      /\ \A m \in Nodes \ {v} : term'[m] = term[m] /\ lastVote'[m] = lastVote[m]
  BY <1>1, <1>2
<1> QED BY <1>2, <1>3, <1>4, <1>5, <1>6

\* Vote keeps what elections keep, and elects nobody in a term that is decided.
LEMMA VoteVotes ==
    ASSUME BaseInv, BaseInv', VoteInv, NEW v \in Nodes, NEW n \in Nodes, Vote(v, n)
    PROVE  /\ VoteInv'
           /\ role'[n] = "draining" => ~Decided(term[n])
<1> DEFINE all == elect[n].votes \cup {v}
<1>1. Types /\ TermInv
  BY TypesHold DEF BaseInv
<1>2. /\ v # n /\ Candidate(n) /\ role[v] = "follower"
      /\ lastVote[v] < term[n] /\ AtMost(LastOf(log[v]), elect[n].request)
      /\ term'[v] = term[n] /\ lastVote'[v] = term[n] /\ elect'[v] = NoElection
      /\ \A m \in Nodes \ {v} : term'[m] = term[m] /\ lastVote'[m] = lastVote[m]
      /\ \A m \in Nodes \ {v, n} : elect'[m] = elect[m]
      /\ \/ /\ IsMajority(all) /\ elect'[n] = NoElection
            /\ role' = [role EXCEPT ![n] = "draining"]
         \/ /\ role' = role
            /\ elect'[n].request = elect[n].request /\ elect'[n].votes = all
      /\ rollback' = rollback /\ log' = log
  BY VoteFacts DEF logVars
<1>3. CandidateInv!(n) /\ role \in [Nodes -> Roles] /\ all \in SUBSET Nodes
  BY <1>1 DEF VoteInv, CandidateInv, BaseInv, TypeOK, Types, Records
<1>4. ASSUME NEW c \in Nodes, Candidate(c)'
      PROVE  /\ Candidate(c) /\ c # v /\ term'[c] = term[c] /\ role'[c] = role[c]
             /\ elect'[c].request = elect[c].request
             /\ elect'[c].votes = elect[c].votes \/ (c = n /\ elect'[c].votes = all)
  <2>1. c # v
    BY <1>2, <1>4 DEF Candidate
  <2>2. CASE c = n
    BY <1>2, <1>4, <2>2 DEF Candidate
  <2>3. CASE c # n
    BY <1>2, <1>3, <1>4, <2>1, <2>3 DEF Candidate
  <2> QED BY <2>1, <2>2, <2>3
<1>5. \A u \in Nodes : lastVote'[u] >= lastVote[u] /\ lastVote'[u] \in Nat
  BY <1>1, <1>2 DEF Types, Numbers
<1>6. ASSUME NEW t \in Nat PROVE Spent(t) \subseteq Spent(t)'
  <2> SUFFICES ASSUME NEW u \in Spent(t) PROVE u \in Spent(t)'
    OBVIOUS
  <2>1. u \in Nodes /\ lastVote[u] >= t /\ lastVote'[u] >= t
    BY <1>1, <1>5 DEF Spent, Types, Numbers
  <2>2. ASSUME NEW c \in Nodes, Candidate(c)', term'[c] = t PROVE u \notin elect'[c].votes
    <3>1. u \notin elect[c].votes
      BY <1>4, <2>2 DEF Spent
    <3>2. CASE c = n
      BY <1>1, <1>2, <1>4, <2>1, <2>2, <3>1, <3>2 DEF Types, Numbers
    <3>3. CASE c # n
      BY <1>4, <2>2, <3>1, <3>3
    <3> QED BY <3>2, <3>3
  <2> QED BY <2>1, <2>2 DEF Spent
<1>7. ASSUME NEW t \in Nat, Decided(t) PROVE Decided(t)'
  <2>1. IsMajority(Spent(t)')
    BY <1>6, <1>7, MajorityGrows DEF Decided, Spent
  <2> QED BY <2>1 DEF Decided, IsMajority
<1>8. CandidateInv'
  <2> SUFFICES ASSUME NEW c \in Nodes, Candidate(c)'
               PROVE  CandidateInv!(c)'
    BY DEF CandidateInv
  <2>1. CandidateInv!(c) /\ Candidate(c) /\ elect[c].votes \in SUBSET Nodes
    BY <1>1, <1>4 DEF VoteInv, CandidateInv, Types, Records
  <2>2. ASSUME NEW u \in elect'[c].votes PROVE lastVote'[u] >= term'[c]
    <3>1. CASE u \in elect[c].votes
      <4>1. u \in Nodes /\ lastVote[u] >= term[c]
        BY <2>1, <3>1
      <4> QED BY <1>1, <1>4, <1>5, <4>1 DEF Types, Numbers
    <3>2. CASE u \notin elect[c].votes
      BY <1>1, <1>2, <1>4, <2>2, <3>2 DEF Types, Numbers
    <3> QED BY <3>1, <3>2
  <2>3. c \in elect'[c].votes
    BY <1>4, <2>1
  <2> QED BY <1>2, <1>4, <2>1, <2>2, <2>3
<1>9. ASSUME NEW d \in Nodes, Candidate(d), d # n, term[d] = term[n]
      PROVE  \A u \in all : u \notin elect[d].votes
  <2>1. v \notin elect[d].votes
    BY <1>1, <1>2, <1>9 DEF VoteInv, CandidateInv, Types, Numbers
  <2> QED BY <1>2, <1>9, <2>1 DEF VoteInv, VotesDisjoint
<1>10. VotesDisjoint'
  <2> SUFFICES ASSUME NEW c \in Nodes, NEW d \in Nodes, c # d,
                      Candidate(c)', Candidate(d)', term'[c] = term'[d],
                      NEW u \in elect'[c].votes
               PROVE  u \notin elect'[d].votes
    BY DEF VotesDisjoint
  <2>1. Candidate(c) /\ Candidate(d) /\ term[c] = term[d]
    BY <1>4
  <2>2. CASE c = n
    BY <1>4, <1>9, <2>1, <2>2
  <2>3. CASE d = n
    BY <1>4, <1>9, <2>1, <2>3
  <2>4. CASE c # n /\ d # n
    BY <1>4, <2>1, <2>4 DEF VoteInv, VotesDisjoint
  <2> QED BY <2>2, <2>3, <2>4
<1>11. IsMajority(all) => ~Decided(term[n])
  <2>1. ASSUME IsMajority(all), Decided(term[n]) PROVE FALSE
    <3>1. Spent(term[n]) \in SUBSET Nodes
      BY DEF Spent
    <3>2. PICK u \in all : u \in Spent(term[n])
      BY <1>3, <2>1, <3>1, MajoritiesMeet DEF Decided
    <3>3. lastVote[u] >= term[n] /\ u \notin elect[n].votes
      BY <1>2, <3>2 DEF Spent
    <3>4. u = v
      BY <3>3
    <3> QED BY <1>1, <1>2, <3>3, <3>4 DEF Types, Numbers
  <2> QED BY <2>1
<1>12. role[n] = "follower"
  BY <1>2, <1>3
<1>13. ASSUME NEW m \in Nodes, Leader(m)'
       PROVE  /\ m # v /\ term'[m] = term[m]
              /\ Leader(m) \/ (m = n /\ IsMajority(all) /\ elect'[n] = NoElection)
  <2>1. role'[v] = "follower"
    BY <1>2, <1>3
  <2>2. m # v
    BY <1>13, <2>1 DEF Leader
  <2> QED BY <1>2, <1>3, <1>13, <2>2 DEF Leader
<1>14. IsMajority(all) /\ elect'[n] = NoElection => Decided(term[n])'
  <2> SUFFICES ASSUME IsMajority(all), elect'[n] = NoElection PROVE Decided(term[n])'
    OBVIOUS
  <2>1. ASSUME NEW u \in all PROVE u \in Spent(term[n])'
    <3>1. u \in Nodes /\ term'[n] = term[n] /\ lastVote'[u] >= term'[n]
      BY <1>1, <1>2, <1>3, <1>5 DEF Types, Numbers
    <3>2. ASSUME NEW c \in Nodes, Candidate(c)', term'[c] = term'[n]
          PROVE  u \notin elect'[c].votes
      <4>1. c # n /\ Candidate(c) /\ term[c] = term[n] /\ elect'[c].votes = elect[c].votes
        BY <1>4, <3>1, <3>2 DEF Candidate
      <4> QED BY <1>9, <4>1
    <3> QED BY <3>1, <3>2 DEF Spent
  <2>2. IsMajority(Spent(term[n])')
    BY <2>1, MajorityGrows DEF Spent
  <2> QED BY <2>2 DEF Decided, IsMajority
<1>15. LeaderInv'
  <2> SUFFICES ASSUME NEW m \in Nodes, Leader(m)'
               PROVE  rollback'[m] = NoNode /\ Decided(term[m])'
    BY DEF LeaderInv
  <2>1. CASE Leader(m)
    <3>1. rollback[m] = NoNode /\ Decided(term[m]) /\ term[m] \in Nat
      BY <1>1, <2>1 DEF VoteInv, LeaderInv, Types, Numbers
    <3>2. PICK t : t = term[m]
      OBVIOUS
    <3>3. Decided(t)'
      BY <1>7, <3>1, <3>2
    <3> QED BY <1>2, <1>13, <3>1, <3>2, <3>3 DEF Decided, Spent
  <2>2. CASE ~Leader(m)
    BY <1>2, <1>3, <1>13, <1>14, <2>2
  <2> QED BY <2>1, <2>2
<1>16. OneLeader'
  <2> SUFFICES ASSUME NEW m \in Nodes, NEW k \in Nodes, Leader(m)', Leader(k)',
                      term'[m] = term'[k], m # k
               PROVE  FALSE
    BY DEF OneLeader
  <2>1. term[m] = term[k]
    BY <1>13
  <2>2. CASE Leader(m) /\ Leader(k)
    BY <2>1, <2>2 DEF VoteInv, OneLeader
  <2>3. CASE ~Leader(m)
    <3>1. m = n /\ IsMajority(all) /\ Leader(k)
      BY <1>13, <2>3
    <3>2. Decided(term[n])
      BY <2>1, <3>1 DEF VoteInv, LeaderInv
    <3> QED BY <1>11, <3>1, <3>2
  <2>4. CASE ~Leader(k)
    <3>1. k = n /\ IsMajority(all) /\ Leader(m)
      BY <1>13, <2>4
    <3>2. Decided(term[n])
      BY <2>1, <3>1 DEF VoteInv, LeaderInv
    <3> QED BY <1>11, <3>1, <3>2
  <2> QED BY <2>2, <2>3, <2>4
<1>17. EntryDecided'
  <2> SUFFICES ASSUME NEW m \in Nodes, NEW i \in 1 .. Len(log[m])
               PROVE  Decided(log[m][i])'
    BY <1>2 DEF EntryDecided
  <2>1. Decided(log[m][i]) /\ log[m][i] \in Nat
    BY <1>1 DEF VoteInv, EntryDecided, Types, Numbers
  <2>2. PICK t : t = log[m][i]
    OBVIOUS
  <2>3. Decided(t)'
    BY <1>7, <2>1, <2>2
  <2> QED BY <1>2, <2>2, <2>3 DEF Decided, Spent
<1>18. role'[n] = "draining" => IsMajority(all)
  BY <1>2, <1>12
<1> QED BY <1>8, <1>10, <1>11, <1>15, <1>16, <1>17, <1>18 DEF VoteInv

-----------------------------------------------------------------------------
(* The third layer: oplogs *)

\* In a step the oplog of m becomes a part of one that there was.
Inherited(m) ==
    \E s \in Nodes : /\ Len(log'[m]) <= Len(log[s])
                     /\ \A i \in 1 .. Len(log'[m]) : log'[m][i] = log[s][i]

\* In a step m writes an entry of its term.
Written(m) ==
    /\ Leader(m) /\ Len(log'[m]) = Len(log[m]) + 1 /\ log'[m][Len(log[m]) + 1] = term[m]
    /\ \A i \in 1 .. Len(log[m]) : log'[m][i] = log[m][i]

\* In a step every oplog is inherited or written.
LogStep == \A m \in Nodes : Inherited(m) \/ Written(m)

\* In a step nobody becomes a leader, and the primaries keep their oplogs.
LeadersKept ==
    \A m \in Nodes :
        /\ role'[m] = "draining" => role[m] = "draining" /\ term'[m] = term[m]
        /\ role'[m] = "primary" => /\ role[m] = "primary" /\ term'[m] = term[m]
                                   /\ log'[m] = log[m]

\* With LogStep, every entry was there before or is of the term of a leader.
LEMMA StepEntries ==
    ASSUME Types, Types', LogStep
    PROVE  EntriesKnown
<1> SUFFICES ASSUME NEW m \in Nodes, NEW i \in 1 .. Len(log'[m])
             PROVE  EntriesKnown!(m)!(i)
  BY DEF EntriesKnown
<1>1. CASE Inherited(m)
  <2>1. PICK s \in Nodes : Len(log'[m]) <= Len(log[s]) /\ log'[m][i] = log[s][i]
    BY <1>1 DEF Inherited
  <2> QED BY <2>1 DEF Types, Numbers
<1>2. CASE Written(m)
  BY <1>2 DEF Written, Types, Numbers
<1> QED BY <1>1, <1>2 DEF LogStep

\* Inherited oplogs are ordered and match.
LEMMA InheritedOrder ==
    ASSUME Types, Types', LogInv, \A m \in Nodes : Inherited(m)
    PROVE  /\ Ordered' /\ Matching'
           /\ \A m \in Nodes : \A i \in 1 .. Len(log'[m]) :
                  \E s \in Nodes : i \in 1 .. Len(log[s]) /\ log[s][i] = log'[m][i]
<1>1. Ordered'
  <2> SUFFICES ASSUME NEW n \in Nodes, NEW i \in 1 .. Len(log'[n]),
                      NEW j \in 1 .. Len(log'[n]), i <= j
               PROVE  log'[n][i] <= log'[n][j]
    BY DEF Ordered
  <2>1. PICK s \in Nodes : /\ Len(log'[n]) <= Len(log[s])
                           /\ \A k \in 1 .. Len(log'[n]) : log'[n][k] = log[s][k]
    BY DEF Inherited
  <2>2. i \in 1 .. Len(log[s]) /\ j \in 1 .. Len(log[s])
    BY <2>1 DEF Types, Numbers
  <2> QED BY <2>1, <2>2 DEF LogInv, Ordered
<1>2. Matching'
  <2> SUFFICES ASSUME NEW n \in Nodes, NEW m \in Nodes, NEW j \in 1 .. Len(log'[n]),
                      NEW k \in 1 .. Len(log'[m]), j <= k, log'[n][j] = log'[m][k],
                      NEW i \in 1 .. j
               PROVE  log'[m][i] = log'[n][i]
    BY DEF Matching
  <2>1. PICK s \in Nodes : /\ Len(log'[n]) <= Len(log[s])
                           /\ \A q \in 1 .. Len(log'[n]) : log'[n][q] = log[s][q]
    BY DEF Inherited
  <2>2. PICK r \in Nodes : /\ Len(log'[m]) <= Len(log[r])
                           /\ \A q \in 1 .. Len(log'[m]) : log'[m][q] = log[r][q]
    BY DEF Inherited
  <2>3. /\ j \in 1 .. Len(log[s]) /\ k \in 1 .. Len(log[r])
        /\ i \in 1 .. Len(log'[n]) /\ i \in 1 .. Len(log'[m])
    BY <2>1, <2>2 DEF Types, Numbers
  <2>4. log[s][j] = log[r][k]
    BY <2>1, <2>2
  <2>5. log[r][i] = log[s][i]
    BY <2>3, <2>4 DEF LogInv, Matching
  <2> QED BY <2>1, <2>2, <2>3, <2>5
<1>3. ASSUME NEW m \in Nodes, NEW i \in 1 .. Len(log'[m])
      PROVE  \E s \in Nodes : i \in 1 .. Len(log[s]) /\ log[s][i] = log'[m][i]
  <2>1. PICK s \in Nodes : Len(log'[m]) <= Len(log[s]) /\ log'[m][i] = log[s][i]
    BY DEF Inherited
  <2> QED BY <2>1 DEF Types, Numbers
<1> QED BY <1>1, <1>2, <1>3

\* A step that only inherits oplogs keeps what the oplogs keep.
LEMMA InheritedLogs ==
    ASSUME Types, Types', LogInv, LeadersKept, \A m \in Nodes : Inherited(m)
    PROVE  LogInv'
<1>1. /\ Ordered' /\ Matching'
      /\ \A m \in Nodes : \A i \in 1 .. Len(log'[m]) :
             \E s \in Nodes : i \in 1 .. Len(log[s]) /\ log[s][i] = log'[m][i]
  BY InheritedOrder
<1>2. Fresh'
  <2> SUFFICES ASSUME NEW n \in Nodes, NEW m \in Nodes, role'[n] = "draining",
                      NEW i \in 1 .. Len(log'[m])
               PROVE  log'[m][i] # term'[n]
    BY DEF Fresh
  <2>1. role[n] = "draining" /\ term'[n] = term[n]
    BY DEF LeadersKept
  <2>2. PICK s \in Nodes : i \in 1 .. Len(log[s]) /\ log[s][i] = log'[m][i]
    BY <1>1
  <2> QED BY <2>1, <2>2 DEF LogInv, Fresh
<1>3. HasAll'
  <2> SUFFICES ASSUME NEW n \in Nodes, role'[n] = "primary"
               PROVE  HasAll!(n)'
    BY DEF HasAll
  <2>1. /\ role[n] = "primary" /\ term'[n] = term[n] /\ log'[n] = log[n]
        /\ HasAll!(n)
    BY DEF LeadersKept, LogInv, HasAll
  <2>2. ASSUME NEW m \in Nodes, NEW i \in 1 .. Len(log'[m]), log'[m][i] = term'[n]
        PROVE  i <= Len(log'[n]) /\ log'[n][i] = term'[n]
    <3>1. PICK s \in Nodes : i \in 1 .. Len(log[s]) /\ log[s][i] = log'[m][i]
      BY <1>1
    <3> QED BY <2>1, <2>2, <3>1
  <2> QED BY <2>1, <2>2
<1> QED BY <1>1, <1>2, <1>3 DEF LogInv

\* An entry that a leader writes keeps what the oplogs keep.
LEMMA WrittenLogs ==
    ASSUME Types, Types', VoteInv, LogInv, NEW n \in Nodes, Written(n),
           LastOf(log[n])[1] <= term[n],
           role'[n] = "primary", term' = term,
           \A m \in Nodes \ {n} : role'[m] = role[m] /\ log'[m] = log[m]
    PROVE  LogInv'
<1> DEFINE L == Len(log[n])
<1>1. /\ L \in Nat /\ Len(log'[n]) = L + 1 /\ log'[n][L + 1] = term[n]
      /\ \A i \in 1 .. L : log'[n][i] = log[n][i]
      /\ Leader(n) /\ term[n] \in Nat
  BY DEF Written, Types, Numbers
<1>2. \A i \in 1 .. L : log[n][i] <= term[n] /\ log[n][i] \in Nat
  <2> SUFFICES ASSUME NEW i \in 1 .. L PROVE log[n][i] <= term[n] /\ log[n][i] \in Nat
    OBVIOUS
  <2>0. L # 0 /\ L \in 1 .. L /\ i <= L
    BY <1>1
  <2>1. LastOf(log[n])[1] = log[n][L] /\ L \in 1 .. L /\ i <= L
    BY <2>0, LastFacts DEF Types, Records
  <2>2. log[n][i] <= log[n][L]
    BY <2>1 DEF LogInv, Ordered
  <2>3. log[n][i] \in Nat /\ log[n][L] \in Nat
    BY <2>1 DEF Types, Numbers
  <2> QED BY <1>1, <2>1, <2>2, <2>3
<1>3. ASSUME NEW m \in Nodes, NEW i \in 1 .. Len(log[m]), log[m][i] = term[n]
      PROVE  i <= L /\ log[n][i] = term[n]
  BY <1>1, <1>3 DEF LogInv, Fresh, HasAll, Leader
<1>4. Ordered'
  <2> SUFFICES ASSUME NEW m \in Nodes, NEW i \in 1 .. Len(log'[m]),
                      NEW j \in 1 .. Len(log'[m]), i <= j
               PROVE  log'[m][i] <= log'[m][j]
    BY DEF Ordered
  <2>1. CASE m # n
    BY <2>1 DEF LogInv, Ordered
  <2>2. CASE m = n
    <3>1. CASE j = L + 1
      BY <1>1, <1>2, <2>2, <3>1
    <3>2. CASE j # L + 1
      <4>1. i \in 1 .. L /\ j \in 1 .. L
        BY <1>1, <2>2, <3>2
      <4>2. log[n][i] <= log[n][j]
        BY <4>1 DEF LogInv, Ordered
      <4> QED BY <1>1, <2>2, <4>1, <4>2
    <3> QED BY <3>1, <3>2
  <2> QED BY <2>1, <2>2
<1>5. ASSUME NEW m \in Nodes, NEW i \in 1 .. Len(log'[m]), log'[m][i] = term[n]
      PROVE  i <= L + 1 /\ log'[n][i] = term[n]
  <2>1. CASE m = n
    BY <1>1, <1>5, <2>1
  <2>2. CASE m # n
    BY <1>1, <1>3, <1>5, <2>2
  <2> QED BY <2>1, <2>2
<1>6. ASSUME NEW k \in Nodes, NEW m \in Nodes, NEW j \in 1 .. Len(log[k]),
             NEW q \in 1 .. Len(log[m]), j <= q, log[k][j] = log[m][q], NEW i \in 1 .. j
      PROVE  log[m][i] = log[k][i]
  BY <1>6 DEF LogInv, Matching
<1>7. Matching'
  <2> SUFFICES ASSUME NEW k \in Nodes, NEW m \in Nodes, NEW j \in 1 .. Len(log'[k]),
                      NEW q \in 1 .. Len(log'[m]), j <= q, log'[k][j] = log'[m][q],
                      NEW i \in 1 .. j
               PROVE  log'[m][i] = log'[k][i]
    BY DEF Matching
  <2>0. Len(log[k]) \in Nat /\ Len(log[m]) \in Nat /\ Len(log'[k]) \in Nat /\ Len(log'[m]) \in Nat
    BY DEF Types, Numbers
  <2>1. CASE k # n /\ m # n
    BY <1>6, <2>1, SMTT(30)
  <2>2. CASE k = n /\ m = n
    BY <2>2
  <2>3. CASE k = n /\ m # n
    <3>1. CASE j = L + 1
      <4>1. log[m][q] = term[n] /\ q \in 1 .. Len(log[m])
        BY <1>1, <2>3, <3>1
      <4> QED BY <1>1, <1>3, <3>1, <4>1
    <3>2. CASE j # L + 1
      <4>1. j \in 1 .. L /\ i \in 1 .. L
        BY <1>1, <2>3, <3>2
      <4>2. log[n][j] = log[m][q] /\ q \in 1 .. Len(log[m])
        BY <1>1, <2>3, <4>1
      <4>3. log[m][i] = log[n][i]
        BY <1>6, <4>1, <4>2
      <4> QED BY <1>1, <2>3, <4>1, <4>3
    <3> QED BY <3>1, <3>2
  <2>4. CASE k # n /\ m = n
    <3>1. CASE q = L + 1
      <4>1. log[k][j] = term[n] /\ j \in 1 .. Len(log[k])
        BY <1>1, <2>4, <3>1
      <4>2. j <= L /\ log[n][j] = term[n]
        BY <1>3, <4>1
      <4>3. j \in 1 .. L /\ i \in 1 .. L
        BY <1>1, <4>2
      <4>4. log[n][i] = log[k][i]
        BY <1>6, <4>1, <4>2, <4>3, SMTT(30)
      <4> QED BY <1>1, <2>4, <4>3, <4>4
    <3>2. CASE q # L + 1
      <4>1. q \in 1 .. L /\ i \in 1 .. L /\ j \in 1 .. Len(log[k])
        BY <1>1, <2>4, <3>2
      <4>2. log[k][j] = log[n][q]
        BY <1>1, <2>4, <4>1
      <4>3. log[n][i] = log[k][i]
        BY <1>6, <4>1, <4>2
      <4> QED BY <1>1, <2>4, <4>1, <4>3
    <3> QED BY <3>1, <3>2
  <2> QED BY <2>1, <2>2, <2>3, <2>4
<1>8. ASSUME NEW k \in Nodes, k # n, Leader(k)
      PROVE  term[k] # term[n]
  BY <1>1, <1>8 DEF VoteInv, OneLeader
<1>9. Fresh'
  <2> SUFFICES ASSUME NEW k \in Nodes, NEW m \in Nodes, role'[k] = "draining",
                      NEW i \in 1 .. Len(log'[m])
               PROVE  log'[m][i] # term'[k]
    BY DEF Fresh
  <2>1. k # n /\ role[k] = "draining" /\ term[k] # term[n]
    BY <1>8 DEF Leader
  <2>2. CASE m # n
    BY <2>1, <2>2 DEF LogInv, Fresh
  <2>3. CASE m = n
    <3>1. CASE i = L + 1
      BY <1>1, <2>1, <2>3, <3>1
    <3>2. CASE i # L + 1
      <4>1. i \in 1 .. L
        BY <1>1, <2>3, <3>2
      <4> QED BY <1>1, <2>1, <2>3, <4>1 DEF LogInv, Fresh
    <3> QED BY <3>1, <3>2
  <2> QED BY <2>2, <2>3
<1>10. HasAll'
  <2> SUFFICES ASSUME NEW k \in Nodes, role'[k] = "primary"
               PROVE  HasAll!(k)'
    BY DEF HasAll
  <2>1. CASE k = n
    BY <1>1, <1>5, <2>1
  <2>2. CASE k # n
    <3>1. /\ role[k] = "primary" /\ term'[k] = term[k] /\ log'[k] = log[k]
          /\ HasAll!(k) /\ term[k] # term[n]
      BY <1>8, <2>2 DEF LogInv, HasAll, Leader
    <3>2. ASSUME NEW m \in Nodes, NEW i \in 1 .. Len(log'[m]), log'[m][i] = term'[k]
          PROVE  i <= Len(log'[k]) /\ log'[k][i] = term'[k]
      <4>1. CASE m # n
        BY <3>1, <3>2, <4>1
      <4>2. CASE m = n
        <5>1. i # L + 1
          BY <1>1, <3>1, <3>2, <4>2
        <5>2. i \in 1 .. L
          BY <1>1, <4>2, <5>1
        <5> QED BY <1>1, <3>1, <3>2, <4>2, <5>2
      <4> QED BY <4>1, <4>2
    <3> QED BY <3>1, <3>2
  <2> QED BY <2>1, <2>2
<1> QED BY <1>4, <1>7, <1>9, <1>10 DEF LogInv

\* In a step a durable entry stays durable, unless another oplog shows that the
\* set has gone on without it.
Persist ==
    \A m \in Nodes, p \in OpTimes :
        Has(log[m], p) /\ p[2] <= durable[m] =>
            \/ Has(log'[m], p) /\ p[2] <= durable'[m]
            \/ \E s \in Nodes : /\ \E i \in 1 .. Len(log[s]) : log[s][i] > p[1]
                                /\ ~Has(log[s], p)

\* A member that may roll back with the oplog of s is in an earlier term.
LEMMA RollbackSource ==
    ASSUME Types, LogInv, NEW n \in Nodes, NEW s \in Nodes,
           ~Holds(log[s], LastOf(log[n])), Before(LastOf(log[n]), LastOf(log[s]))
    PROVE  /\ Len(log[n]) \in 1 .. Len(log[n]) /\ Len(log[s]) \in 1 .. Len(log[s])
           /\ log[n][Len(log[n])] < log[s][Len(log[s])]
<1> DEFINE a == LastOf(log[n])
           b == LastOf(log[s])
<1>1. a \in OpTimes /\ b \in OpTimes /\ log[n] \in Logs /\ log[s] \in Logs
  BY DEF Types, Records
<1>2. a # Null /\ ~Has(log[s], a)
  BY <1>1, EntriesFacts
<1>3. a \in Nat \X Nat /\ b \in Nat \X Nat
  BY <1>1, OpTimeFields
<1>4. a[1] < b[1] \/ (a[1] = b[1] /\ a[2] < b[2])
  BY <1>3, BeforeFacts
<1>5. a[2] = Len(log[n]) /\ b[2] = Len(log[s]) /\ Len(log[n]) # 0
  BY <1>1, <1>2, LastFacts
<1>6. Len(log[n]) \in Nat /\ Len(log[s]) \in Nat
  BY DEF Types, Numbers
<1>7. Len(log[s]) # 0
  <2>1. ASSUME Len(log[s]) = 0 PROVE FALSE
    <3>1. b = Null
      BY <1>1, <2>1, LastFacts
    <3> QED BY <1>1, <1>3, <1>4, <3>1, OpTimeFields
  <2> QED BY <2>1
<1>8. a[1] = log[n][Len(log[n])] /\ b[1] = log[s][Len(log[s])]
  BY <1>1, <1>5, <1>7, LastFacts
<1>9. ASSUME a[1] = b[1], a[2] < b[2] PROVE FALSE
  <2>1. /\ Len(log[n]) \in 1 .. Len(log[n]) /\ Len(log[s]) \in 1 .. Len(log[s])
        /\ Len(log[n]) <= Len(log[s]) /\ Len(log[n]) \in 1 .. Len(log[s])
    BY <1>5, <1>6, <1>7, <1>9
  <2>2. log[n][Len(log[n])] = log[s][Len(log[s])]
    BY <1>8, <1>9
  <2>3. log[s][Len(log[n])] = log[n][Len(log[n])]
    BY <2>1, <2>2 DEF LogInv, Matching
  <2>4. Has(log[s], a)
    BY <1>5, <1>8, <2>1, <2>3 DEF Has
  <2> QED BY <1>2, <2>4
<1> QED BY <1>4, <1>5, <1>6, <1>7, <1>8, <1>9

\* Oplogs that are not cut persist.
LEMMA ExtendedPersist ==
    ASSUME Types, Types',
           \A m \in Nodes : Extends(m) /\ durable[m] <= durable'[m]
    PROVE  Persist
<1> SUFFICES ASSUME NEW m \in Nodes, NEW p \in OpTimes, Has(log[m], p), p[2] <= durable[m]
             PROVE  Has(log'[m], p) /\ p[2] <= durable'[m]
  BY DEF Persist
<1>1. p[2] \in Nat
  BY OpTimeFields, Bounds
<1> QED BY <1>1 DEF Has, Extends, Types, Numbers

\* Oplogs that stay as they are, inherit, extend and persist.
LEMMA SameLogs ==
    ASSUME Types, Types', log' = log, \A m \in Nodes : durable[m] <= durable'[m]
    PROVE  Persist /\ LogStep /\ \A m \in Nodes : Inherited(m) /\ Extends(m)
<1>1. \A m \in Nodes : Inherited(m) /\ Extends(m)
  BY DEF Inherited, Extends, Types, Numbers
<1> QED BY <1>1, ExtendedPersist DEF LogStep

\* What every step but a vote does.
CalmStep == Calm /\ LogStep /\ Persist /\ LogInv'

\* Learning of a term and stepping down are calm.
LEMMA CalmTerms ==
    ASSUME BaseInv, BaseInv', VoteInv, LogInv, NEW n \in Nodes, NEW m \in Nodes,
           UpdateTerm(n, m) \/ FinishStepDown(n)
    PROVE  CalmStep
<1>1. /\ Types /\ Types' /\ term \in [Nodes -> Terms] /\ role \in [Nodes -> Roles]
      /\ elect \in [Nodes -> [request : OpTimes, votes : SUBSET Nodes]]
  BY TypesHold, PTL DEF BaseInv, TypeOK
<1>2. log' = log /\ durable' = durable /\ lastVote' = lastVote /\ rollback' = rollback
  BY DEF UpdateTerm, FinishStepDown, logVars
<1>3. Persist /\ LogStep /\ \A k \in Nodes : Inherited(k) /\ Extends(k)
  BY <1>1, <1>2, SameLogs DEF Types, Numbers
<1>4. \A k \in Nodes :
          /\ role'[k] = role[k] \/ role'[k] = "follower"
          /\ \/ term'[k] = term[k] /\ elect'[k] = elect[k] /\ role'[k] = role[k]
             \/ elect'[k] = NoElection /\ ~Leader(k)' 
             \/ term'[k] = term[k] /\ elect'[k] = elect[k] /\ Leader(k) /\ ~Leader(k)'
  <2>1. CASE UpdateTerm(n, m)
    <3>1. LearnTerm(n, term[m]) /\ term[m] \in Terms /\ role' = role
      BY <1>1, <2>1 DEF UpdateTerm
    <3> QED BY <1>1, <3>1, LearnTermFacts DEF Leader
  <2>2. CASE FinishStepDown(n)
    <3>1. /\ term' = term /\ elect' = elect /\ Leader(n)
          /\ role' = [role EXCEPT ![n] = "follower"]
      BY <2>2 DEF FinishStepDown
    <3> QED BY <1>1, <3>1 DEF Leader
  <2> QED BY <2>1, <2>2
<1>5. \A k \in Nodes : Leader(k) => elect[k] = NoElection
  BY DEF VoteInv, CandidateInv, Candidate, Leader
<1>6. Calm
  BY <1>2, <1>3, <1>4, <1>5 DEF Calm, Leader
<1>7. LeadersKept
  BY <1>2, <1>4 DEF LeadersKept, Leader
<1> QED BY <1>1, <1>3, <1>6, <1>7, InheritedLogs DEF CalmStep

\* Flushes and positions are calm.
LEMMA CalmPositions ==
    ASSUME BaseInv, BaseInv', VoteInv, LogInv, NEW n \in Nodes, NEW m \in Nodes,
           Flush(n) \/ RecordPosition(n, m)
    PROVE  CalmStep
<1>1. Types /\ Types' /\ durable \in [Nodes -> 0 .. MaxLog]
  BY TypesHold, PTL DEF BaseInv, TypeOK
<1>2. PICK k \in Nodes : durable' = [durable EXCEPT ![k] = Len(log[k])]
  BY DEF Flush, RecordPosition, ReportFlushes
<1>3. \A j \in Nodes : durable[j] <= durable'[j]
  BY <1>1, <1>2 DEF Types, Numbers
<1>4. UNCHANGED <<electVars, log, rollback>>
  BY DEF Flush, RecordPosition
<1>5. Persist /\ LogStep /\ \A j \in Nodes : Inherited(j) /\ Extends(j)
  BY <1>1, <1>3, <1>4, SameLogs
<1>6. Calm /\ LeadersKept
  BY <1>4, <1>5 DEF Calm, LeadersKept, Leader, electVars
<1> QED BY <1>1, <1>5, <1>6, InheritedLogs DEF CalmStep

\* Writing an entry is calm.
LEMMA CalmWrites ==
    ASSUME BaseInv, BaseInv', VoteInv, LogInv, NEW n \in Nodes,
           SignalDrainComplete(n) \/ ClientWrite(n)
    PROVE  /\ CalmStep /\ Written(n) /\ Leader(n) /\ role'[n] = "primary"
           /\ \A m \in Nodes \ {n} : log'[m] = log[m] /\ role'[m] = role[m]
<1>1. /\ Types /\ Types' /\ log \in [Nodes -> Logs] /\ durable \in [Nodes -> 0 .. MaxLog]
      /\ role \in [Nodes -> Roles] /\ TermInv
  BY TypesHold, PTL DEF BaseInv, TypeOK
<1>2. /\ LogEntry(n) /\ role[n] \in {"draining", "primary"}
      /\ role' = [role EXCEPT ![n] = "primary"] \/ (role' = role /\ role[n] = "primary")
      /\ UNCHANGED <<term, lastVote, steppingDown, elect, rollback>>
  BY DEF SignalDrainComplete, ClientWrite, electVars
<1>3. Leader(n) /\ role'[n] = "primary" /\ \A m \in Nodes \ {n} : role'[m] = role[m]
  BY <1>1, <1>2 DEF Leader
<1>4. /\ Len(log[n]) < MaxLog /\ LastOf(log[n])[1] <= term[n]
      /\ log' = [log EXCEPT ![n] = log[n] \o <<term[n]>>]
      /\ durable' = durable \/ durable' = [durable EXCEPT ![n] = Len(log[n]) + 1]
  BY <1>2 DEF LogEntry, lastApplied, DurableWith
<1>5. term[n] \in 1 .. MaxTerm
  BY <1>1, Bounds DEF TermInv, Types, Numbers
<1>6. /\ Len(log[n] \o <<term[n]>>) = Len(log[n]) + 1
      /\ \A j \in 1 .. Len(log[n]) : (log[n] \o <<term[n]>>)[j] = log[n][j]
      /\ (log[n] \o <<term[n]>>)[Len(log[n]) + 1] = term[n]
  BY <1>1, <1>4, <1>5, AppendFacts
<1>7. log'[n] = log[n] \o <<term[n]>> /\ \A m \in Nodes \ {n} : log'[m] = log[m]
  BY <1>1, <1>4
<1>8. Written(n)
  BY <1>3, <1>6, <1>7 DEF Written
<1>9. \A m \in Nodes : Extends(m)
  <2>1. Extends(n)
    BY <1>1, <1>8 DEF Extends, Written, Types, Numbers
  <2>2. ASSUME NEW m \in Nodes, m # n PROVE Extends(m)
    <3>1. log'[m] = log[m] /\ Len(log[m]) \in Nat
      BY <1>1, <1>7, <2>2 DEF Types, Numbers
    <3> QED BY <3>1 DEF Extends
  <2> QED BY <2>1, <2>2
<1>10. \A m \in Nodes : durable[m] <= durable'[m]
  BY <1>1, <1>4 DEF Types, Numbers
<1>11. LogStep
  <2>1. ASSUME NEW m \in Nodes, m # n PROVE Inherited(m)
    <3>1. log'[m] = log[m] /\ Len(log[m]) \in Nat
      BY <1>1, <1>7, <2>1 DEF Types, Numbers
    <3> QED BY <3>1 DEF Inherited
  <2> QED BY <1>8, <2>1 DEF LogStep
<1>12. Calm
  BY <1>2, <1>3, <1>9 DEF Calm, Leader, VoteInv, CandidateInv, Candidate
<1>13. LogInv'
  BY <1>1, <1>2, <1>3, <1>4, <1>7, <1>8, WrittenLogs
<1>14. Persist
  BY <1>1, <1>9, <1>10, ExtendedPersist
<1> QED BY <1>3, <1>7, <1>8, <1>11, <1>12, <1>13, <1>14 DEF CalmStep

\* A batch extends the oplog.
LEMMA FetchExtends ==
    ASSUME BaseInv, BaseInv', LogInv, NEW n \in Nodes, NEW s \in Nodes,
           NEW k \in 0 .. MaxBatch, Fetch(n, s, k)
    PROVE  \A m \in Nodes : Extends(m) /\ durable[m] <= durable'[m]
<1> DEFINE L == Len(log[n])
<1>0. k \in Nat
  BY CommitAssumption
<1>1. Types /\ Types'
  BY TypesHold, PTL DEF BaseInv
<1>2. /\ L + k \in 0 .. Len(log[s]) /\ Len(log'[n]) = L + k
      /\ \A m \in Nodes \ {n} : log'[m] = log[m] /\ durable'[m] = durable[m]
      /\ \A i \in 1 .. L + k : log'[n][i] = log[s][i]
      /\ durable'[n] = durable[n] \/ durable'[n] = L + k
  BY FetchLog
<1>3. Holds(log[s], LastOf(log[n])) /\ log[n] \in Logs /\ log[s] \in Logs /\ L \in Nat
  BY <1>1 DEF Fetch, lastApplied, Types, Records, Numbers
<1>4. ASSUME NEW i \in 1 .. L PROVE log[s][i] = log[n][i]
  <2>1. L # 0 /\ L \in 1 .. L
    BY <1>3
  <2>2. LastOf(log[n]) \in OpTimes /\ LastOf(log[n]) # Null
    BY <1>3, <2>1, LastFacts
  <2>3. Has(log[s], LastOf(log[n]))
    BY <1>3, <2>2, EntriesFacts
  <2>4. L \in 1 .. Len(log[s]) /\ log[s][L] = log[n][L]
    BY <1>3, <2>1, <2>3, LastFacts DEF Has
  <2> QED BY <2>1, <2>4 DEF LogInv, Matching
<1>5. Extends(n) /\ durable[n] <= durable'[n]
  <2>1. durable[n] \in Nat /\ durable[n] <= L
    BY <1>1 DEF Types, Numbers
  <2>2. L <= L + k /\ \A i \in 1 .. L : i \in 1 .. L + k
    BY <1>0, <1>3
  <2>3. Extends(n)
    BY <1>2, <1>4, <2>2 DEF Extends
  <2> QED BY <1>0, <1>2, <1>3, <2>1, <2>3
<1>6. ASSUME NEW m \in Nodes, m # n PROVE Extends(m) /\ durable[m] <= durable'[m]
  <2>1. log'[m] = log[m] /\ durable'[m] = durable[m]
    BY <1>2, <1>6
  <2> QED BY <1>1, <2>1 DEF Extends, Types, Numbers
<1> QED BY <1>5, <1>6

\* Fetching is calm.
LEMMA CalmFetch ==
    ASSUME BaseInv, BaseInv', VoteInv, LogInv, NEW n \in Nodes, NEW s \in Nodes,
           NEW k \in 0 .. MaxBatch, Fetch(n, s, k)
    PROVE  CalmStep
<1>1. /\ Types /\ Types' /\ term \in [Nodes -> Terms]
      /\ elect \in [Nodes -> [request : OpTimes, votes : SUBSET Nodes]]
  BY TypesHold, PTL DEF BaseInv, TypeOK
<1>2. \A m \in Nodes : Extends(m) /\ durable[m] <= durable'[m]
  BY FetchExtends
<1>3. Persist
  BY <1>1, <1>2, ExtendedPersist
<1>4. \A m \in Nodes : Inherited(m)
  <2>1. Inherited(n)
    <3>1. /\ Len(log'[n]) \in 0 .. Len(log[s])
          /\ \A i \in 1 .. Len(log'[n]) : log'[n][i] = log[s][i]
      BY FetchLog
    <3> QED BY <1>1, <3>1 DEF Inherited, Types, Numbers
  <2>2. ASSUME NEW m \in Nodes, m # n PROVE Inherited(m)
    <3>1. log'[m] = log[m]
      BY <2>2, FetchLog
    <3> QED BY <1>1, <3>1 DEF Inherited, Types, Numbers
  <2> QED BY <2>1, <2>2
<1>5. /\ lastVote' = lastVote /\ role' = role /\ rollback' = rollback
      /\ role[n] # "primary" /\ LearnTerm(n, term[s]) /\ term[s] \in Terms
  BY <1>1 DEF Fetch, CanFetch
<1>6. \A m \in Nodes :
          \/ term'[m] = term[m] /\ elect'[m] = elect[m]
          \/ ~Leader(m) /\ elect'[m] = NoElection
  BY <1>1, <1>5, LearnTermFacts
<1>7. Calm
  BY <1>2, <1>5, <1>6 DEF Calm, Leader
<1>8. \A m \in Nodes \ {n} : log'[m] = log[m]
  BY FetchLog
<1>9. LeadersKept
  BY <1>5, <1>6, <1>8 DEF LeadersKept, Leader
<1> QED BY <1>1, <1>3, <1>4, <1>7, <1>9, InheritedLogs DEF CalmStep, LogStep

\* Entering ROLLBACK and leaving it without rolling back are calm.
LEMMA CalmRollbacks ==
    ASSUME BaseInv, BaseInv', VoteInv, LogInv, NEW n \in Nodes, NEW s \in Nodes,
           StartRollback(n, s) \/ RollbackFails(n)
    PROVE  CalmStep
<1>1. /\ Types /\ Types' /\ rollback \in [Nodes -> Nodes \cup {NoNode}]
      /\ elect \in [Nodes -> [request : OpTimes, votes : SUBSET Nodes]]
  BY TypesHold, PTL DEF BaseInv, TypeOK
<1>2. /\ log' = log /\ durable' = durable /\ term' = term
      /\ lastVote' = lastVote /\ role' = role
  BY DEF StartRollback, RollbackFails, logVars, electVars
<1>3. Persist /\ LogStep /\ \A m \in Nodes : Inherited(m) /\ Extends(m)
  BY <1>1, <1>2, SameLogs DEF Types, Numbers
<1>4. \A m \in Nodes :
          \/ elect'[m] = elect[m] /\ rollback'[m] = rollback[m]
          \/ elect'[m] = NoElection /\ ~Leader(m)
  <2>1. CASE StartRollback(n, s)
    BY <1>1, <2>1 DEF StartRollback, Leader
  <2>2. CASE RollbackFails(n)
    <3>1. /\ rollback[n] # NoNode /\ elect' = elect
          /\ rollback' = [rollback EXCEPT ![n] = NoNode]
      BY <2>2 DEF RollbackFails, electVars
    <3>2. elect[n] = NoElection /\ ~Leader(n)
      BY <3>1 DEF VoteInv, CandidateInv, LeaderInv, Candidate
    <3> QED BY <1>1, <3>1, <3>2
  <2> QED BY <2>1, <2>2
<1>5. Calm /\ LeadersKept
  BY <1>2, <1>3, <1>4 DEF Calm, LeadersKept, Leader
<1> QED BY <1>1, <1>3, <1>5, InheritedLogs DEF CalmStep

\* An oplog that is cut is not that of a candidate or a leader.
LEMMA CutLogs ==
    ASSUME Types, Types', VoteInv, LogInv, NEW n \in Nodes,
           Len(log'[n]) <= Len(log[n]),
           \A j \in 1 .. Len(log'[n]) : log'[n][j] = log[n][j],
           elect'[n] = NoElection, role'[n] = "follower",
           \A m \in Nodes \ {n} : /\ log'[m] = log[m] /\ role'[m] = role[m]
                                  /\ elect'[m] = elect[m] /\ term'[m] = term[m]
                                  /\ rollback'[m] = rollback[m],
           lastVote' = lastVote
    PROVE  Calm /\ LogStep /\ LogInv'
<1>1. \A m \in Nodes : Inherited(m)
  <2>1. Inherited(n)
    BY DEF Inherited
  <2>2. ASSUME NEW m \in Nodes, m # n PROVE Inherited(m)
    <3>1. log'[m] = log[m] /\ Len(log[m]) \in Nat
      BY <2>2 DEF Types, Numbers
    <3> QED BY <3>1 DEF Inherited
  <2> QED BY <2>1, <2>2
<1>2. ASSUME NEW m \in Nodes, m # n PROVE Extends(m)
  BY <1>2 DEF Extends, Types, Numbers
<1>3. Calm
  BY <1>2 DEF Calm, Leader
<1>4. LeadersKept
  BY DEF LeadersKept
<1> QED BY <1>1, <1>3, <1>4, InheritedLogs DEF LogStep

\* Rolling back is calm: what it drops, the set has gone on without.
LEMMA CalmRollback ==
    ASSUME BaseInv, BaseInv', VoteInv, LogInv, NEW n \in Nodes, Rollback(n)
    PROVE  CalmStep
<1> DEFINE s == rollback[n]
           i == CommonPoint(log[n], log[s])
<1>1. /\ Types /\ Types' /\ rollback \in [Nodes -> Nodes \cup {NoNode}]
      /\ role \in [Nodes -> Roles]
  BY TypesHold, PTL DEF BaseInv, TypeOK
<1>2. /\ s \in Nodes /\ rollback[n] # NoNode /\ ~Holds(log[s], LastOf(log[n]))
      /\ Before(LastOf(log[n]), LastOf(log[s]))
      /\ i \in 0 .. Len(log[n]) /\ Len(log'[n]) = i /\ durable'[n] = i
      /\ \A j \in 1 .. i : log[n][j] = log[s][j]
      /\ \A k \in 0 .. Len(log[n]) :
             k <= Len(log[s]) /\ (\A j \in 1 .. k : log[n][j] = log[s][j]) => k <= i
      /\ \A m \in Nodes \ {n} : log'[m] = log[m] /\ durable'[m] = durable[m]
      /\ \A j \in 1 .. i : log'[n][j] = log[n][j]
  BY RollbackLog DEF lastApplied
<1> HIDE DEF i, s
<1>3. /\ rollback' = [rollback EXCEPT ![n] = NoNode]
      /\ UNCHANGED <<term, lastVote, role, steppingDown, elect>>
  BY DEF Rollback, electVars
<1>4. elect[n] = NoElection /\ role[n] = "follower"
  BY <1>1, <1>2 DEF VoteInv, CandidateInv, LeaderInv, Candidate, Leader, Roles
<1>5. i \in Nat /\ i <= Len(log[n]) /\ Len(log[n]) \in Nat
  BY <1>1, <1>2 DEF Types, Numbers
<1>6. Calm /\ LogStep /\ LogInv'
  <2>1. \A m \in Nodes \ {n} : rollback'[m] = rollback[m]
    BY <1>1, <1>3
  <2> QED BY <1>1, <1>2, <1>3, <1>4, <1>5, <2>1, CutLogs
<1>7. Persist
  <2> SUFFICES ASSUME NEW m \in Nodes, NEW p \in OpTimes, Has(log[m], p), p[2] <= durable[m]
               PROVE  Persist!(m, p)!2
    BY DEF Persist
  <2>1. p[2] \in Nat /\ p[1] \in Nat
    BY OpTimeFields, Bounds
  <2>2. CASE m # n
    BY <1>2, <2>2
  <2>3. CASE m = n /\ p[2] <= i
    BY <1>2, <1>5, <2>1, <2>3 DEF Has
  <2>4. CASE m = n /\ p[2] > i
    <3>1. /\ Len(log[n]) \in 1 .. Len(log[n]) /\ Len(log[s]) \in 1 .. Len(log[s])
          /\ log[n][Len(log[n])] < log[s][Len(log[s])]
      BY <1>1, <1>2, <1>6, RollbackSource
    <3>2. p[1] <= log[n][Len(log[n])]
      BY <1>5, <2>1, <2>4, <3>1 DEF Has, LogInv, Ordered
    <3>3. log[s][Len(log[s])] > p[1]
      <4>1. log[s][Len(log[s])] \in Nat /\ log[n][Len(log[n])] \in Nat
        BY <1>1, <1>2, <3>1 DEF Types, Numbers
      <4> QED BY <2>1, <3>1, <3>2, <4>1
    <3>4. ASSUME Has(log[s], p) PROVE FALSE
      <4>1. /\ p[2] \in 1 .. Len(log[n]) /\ p[2] \in 1 .. Len(log[s])
            /\ log[n][p[2]] = log[s][p[2]]
        BY <2>4, <3>4 DEF Has
      <4>2. \A j \in 1 .. p[2] : log[s][j] = log[n][j]
        BY <1>2, <2>1, <4>1, SMTT(30) DEF LogInv, Matching
      <4>3. p[2] \in 0 .. Len(log[n]) /\ p[2] <= Len(log[s])
        BY <1>1, <1>2, <4>1 DEF Types, Numbers
      <4>4. p[2] <= i
        BY <1>2, <4>2, <4>3
      <4> QED BY <1>5, <2>1, <2>4, <4>4
    <3> QED BY <1>2, <3>1, <3>3, <3>4
  <2> QED BY <1>5, <2>1, <2>2, <2>3, <2>4
<1> QED BY <1>6, <1>7 DEF CalmStep

\* A crash is calm: it leaves what is durable.
LEMMA CalmCrash ==
    ASSUME BaseInv, BaseInv', VoteInv, LogInv, NEW n \in Nodes, NEW i \in 0 .. MaxLog,
           Crash(n, i)
    PROVE  CalmStep
<1>1. /\ Types /\ Types' /\ rollback \in [Nodes -> Nodes \cup {NoNode}]
      /\ role \in [Nodes -> Roles]
      /\ elect \in [Nodes -> [request : OpTimes, votes : SUBSET Nodes]]
  BY TypesHold, PTL DEF BaseInv, TypeOK
<1>2. /\ i \in 0 .. Len(log[n]) /\ i >= durable[n] /\ Len(log'[n]) = i
      /\ \A m \in Nodes \ {n} : /\ log'[m] = log[m] /\ durable'[m] = durable[m]
                                /\ term'[m] = term[m]
      /\ \A j \in 1 .. i : log'[n][j] = log[n][j]
      /\ durable'[n] = i
  BY CrashLog
<1>3. /\ rollback' = [rollback EXCEPT ![n] = NoNode] /\ lastVote' = lastVote
      /\ role' = [role EXCEPT ![n] = "follower"]
      /\ elect' = [elect EXCEPT ![n] = NoElection]
  BY DEF Crash
<1>4. elect'[n] = NoElection /\ role'[n] = "follower"
  BY <1>1, <1>3
<1>5. i \in Nat /\ i <= Len(log[n]) /\ Len(log[n]) \in Nat /\ durable[n] \in Nat
  BY <1>1, <1>2 DEF Types, Numbers
<1>6. Calm /\ LogStep /\ LogInv'
  <2>1. \A m \in Nodes \ {n} : /\ rollback'[m] = rollback[m] /\ role'[m] = role[m]
                               /\ elect'[m] = elect[m]
    BY <1>1, <1>3
  <2> QED BY <1>1, <1>2, <1>3, <1>4, <1>5, <2>1, CutLogs
<1>7. Persist
  <2> SUFFICES ASSUME NEW m \in Nodes, NEW p \in OpTimes, Has(log[m], p), p[2] <= durable[m]
               PROVE  Has(log'[m], p) /\ p[2] <= durable'[m]
    BY DEF Persist
  <2>1. p[2] \in Nat
    BY OpTimeFields, Bounds
  <2>2. CASE m # n
    BY <1>2, <2>2
  <2>3. CASE m = n
    BY <1>2, <1>5, <2>1, <2>3 DEF Has
  <2> QED BY <2>2, <2>3
<1> QED BY <1>6, <1>7 DEF CalmStep

\* A step of the system is calm, or an election starts, or there is a vote.
LEMMA StepKinds ==
    ASSUME BaseInv, BaseInv', VoteInv, LogInv, [Next]_vars
    PROVE  \/ CalmStep
           \/ \E n \in Nodes : StartElection(n)
           \/ \E v, n \in Nodes : Vote(v, n)
<1>1. CASE UNCHANGED vars
  <2>1. Types /\ Types'
    BY TypesHold, PTL DEF BaseInv
  <2>2. /\ log' = log /\ durable' = durable /\ term' = term /\ elect' = elect
        /\ lastVote' = lastVote /\ role' = role /\ rollback' = rollback
    BY <1>1 DEF vars, electVars, logVars
  <2>3. Persist /\ LogStep /\ \A m \in Nodes : Inherited(m) /\ Extends(m)
    BY <2>1, <2>2, SameLogs DEF Types, Numbers
  <2>4. Calm /\ LeadersKept
    BY <2>2, <2>3 DEF Calm, LeadersKept, Leader
  <2> QED BY <2>1, <2>3, <2>4, InheritedLogs DEF CalmStep
<1>2. CASE Next
  BY <1>2, CalmTerms, CalmPositions, CalmWrites, CalmFetch, CalmRollbacks,
     CalmRollback, CalmCrash DEF Next
<1> QED BY <1>1, <1>2

\* The first three layers.
CoreInv == BaseInv /\ VoteInv /\ LogInv

\* The first three layers hold initially.
LEMMA CoreInit == Init => CoreInv
<1> SUFFICES ASSUME Init PROVE CoreInv
  OBVIOUS
<1>1. BaseInv
  BY BaseInit
<1>2. /\ \A n \in Nodes : elect[n] = NoElection /\ log[n] = <<>> /\ Len(log[n]) = 0
      /\ \A n \in Nodes : term[n] = 1 /\ lastVote[n] = 1 /\ rollback[n] = NoNode
  BY DEF Init
<1>3. PICK p \in Nodes :
          role = [n \in Nodes |-> IF n = p THEN "draining" ELSE "follower"]
  BY DEF Init
<1>4. Decided(1)
  <2>1. Spent(1) = Nodes
    BY <1>2 DEF Spent, Candidate
  <2> QED BY <2>1, NodesMajority DEF Decided
<1>5. VoteInv
  BY <1>2, <1>3, <1>4
  DEF VoteInv, CandidateInv, VotesDisjoint, LeaderInv, OneLeader, EntryDecided,
      Candidate, Leader
<1>6. LogInv
  BY <1>2, <1>3 DEF LogInv, Ordered, Matching, Fresh, HasAll
<1> QED BY <1>1, <1>5, <1>6 DEF CoreInv

\* StartElection leaves the oplogs alone.
LEMMA StartElectionLogs ==
    ASSUME BaseInv, BaseInv', LogInv, NEW n \in Nodes, StartElection(n)
    PROVE  LogInv' /\ Persist /\ LogStep
<1>1. Types /\ Types'
  BY TypesHold, PTL DEF BaseInv
<1>2. /\ log' = log /\ durable' = durable /\ role' = role /\ role[n] = "follower"
      /\ \A m \in Nodes \ {n} : term'[m] = term[m]
  BY StartElectionFacts DEF logVars
<1>3. Persist /\ LogStep /\ \A m \in Nodes : Inherited(m) /\ Extends(m)
  BY <1>1, <1>2, SameLogs DEF Types, Numbers
<1>4. LeadersKept
  BY <1>2 DEF LeadersKept
<1> QED BY <1>1, <1>3, <1>4, InheritedLogs

\* Vote leaves the oplogs alone, and whoever it elects finds no entry of its term.
LEMMA VoteLogs ==
    ASSUME BaseInv, BaseInv', VoteInv, LogInv, NEW v \in Nodes, NEW n \in Nodes, Vote(v, n)
    PROVE  LogInv' /\ Persist /\ LogStep
<1>1. Types /\ Types' /\ role \in [Nodes -> Roles]
  BY TypesHold, PTL DEF BaseInv, TypeOK
<1>2. /\ log' = log /\ durable' = durable /\ role[v] = "follower" /\ v # n
      /\ \A m \in Nodes \ {v} : term'[m] = term[m]
      /\ role' = [role EXCEPT ![n] = "draining"] \/ role' = role
      /\ Candidate(n)
  BY VoteFacts DEF logVars
<1>3. Persist /\ LogStep /\ \A m \in Nodes : Inherited(m) /\ Extends(m)
  BY <1>1, <1>2, SameLogs DEF Types, Numbers
<1>4. Ordered' /\ Matching'
  BY <1>1, <1>3, InheritedOrder
<1>5. role[n] = "follower"
  BY <1>2 DEF VoteInv, CandidateInv
<1>6. Fresh'
  <2> SUFFICES ASSUME NEW k \in Nodes, NEW m \in Nodes, role'[k] = "draining",
                      NEW i \in 1 .. Len(log[m])
               PROVE  log[m][i] # term'[k]
    BY <1>2 DEF Fresh
  <2>1. k # v /\ term'[k] = term[k]
    BY <1>1, <1>2
  <2>2. CASE k = n
    <3>1. ~Decided(term[n])
      BY <2>2, VoteVotes
    <3> QED BY <2>1, <2>2, <3>1 DEF VoteInv, EntryDecided
  <2>3. CASE k # n
    <3>1. role[k] = "draining"
      BY <1>1, <1>2, <2>3
    <3> QED BY <2>1, <3>1 DEF LogInv, Fresh
  <2> QED BY <2>2, <2>3
<1>7. HasAll'
  <2>1. \A k \in Nodes : role'[k] = "primary" => role[k] = "primary" /\ term'[k] = term[k]
    BY <1>1, <1>2
  <2> QED BY <1>2, <2>1 DEF LogInv, HasAll
<1> QED BY <1>3, <1>4, <1>6, <1>7 DEF LogInv

\* Every step keeps the first three layers.
LEMMA CoreStep ==
    ASSUME CoreInv, [Next]_vars
    PROVE  CoreInv' /\ Persist /\ LogStep
<1>1. BaseInv /\ VoteInv /\ LogInv
  BY DEF CoreInv
<1>2. BaseInv'
  BY <1>1, BaseStep
<1>3. CASE CalmStep
  <2>1. Types /\ Types'
    BY <1>1, <1>2, TypesHold, PTL DEF BaseInv
  <2>2. Calm /\ LogStep /\ LogInv' /\ Persist
    BY <1>3 DEF CalmStep
  <2>3. VoteInv'
    BY <1>1, <2>1, <2>2, StepEntries, CalmVotes
  <2> QED BY <1>2, <2>2, <2>3 DEF CoreInv
<1>4. CASE \E n \in Nodes : StartElection(n)
  BY <1>1, <1>2, <1>4, StartElectionVotes, StartElectionLogs DEF CoreInv
<1>5. CASE \E v, n \in Nodes : Vote(v, n)
  BY <1>1, <1>2, <1>5, VoteVotes, VoteLogs DEF CoreInv
<1> QED BY <1>1, <1>2, <1>3, <1>4, <1>5, StepKinds

-----------------------------------------------------------------------------
(* How entries spread *)

\* c has an entry of a term later than t, or is the leader of one.
LaterThan(c, t) ==
    \/ \E i \in 1 .. Len(log[c]) : log[c][i] > t
    \/ Leader(c) /\ term[c] > t

\* What is later than an entry after a step comes from what was so before.
Spread(p) ==
    \A c \in Nodes : LaterThan(c, p[1])' =>
        \E s \in Nodes : LaterThan(s, p[1]) /\ (Has(log[s], p) => Has(log'[c], p))

\* In a step nobody becomes a leader.
NoWinner ==
    \A m \in Nodes : Leader(m)' => Leader(m) /\ term'[m] = term[m] /\ Extends(m)

\* An entry of a later term comes from a member that has one or leads in a later term.
LEMMA EntrySpreads ==
    ASSUME CoreInv, CoreInv', LogStep, NEW p \in Nat \X Nat, NEW c \in Nodes,
           NEW i \in 1 .. Len(log'[c]), log'[c][i] > p[1]
    PROVE  \E s \in Nodes : LaterThan(s, p[1]) /\ (Has(log[s], p) => Has(log'[c], p))
<1>1. Types /\ Types' /\ LogInv
  BY TypesHold, PTL DEF CoreInv, BaseInv
<1>2. p[1] \in Nat /\ p[2] \in Nat
  OBVIOUS
<1>3. CASE Inherited(c)
  <2>1. PICK s \in Nodes : /\ Len(log'[c]) <= Len(log[s])
                           /\ \A j \in 1 .. Len(log'[c]) : log'[c][j] = log[s][j]
    BY <1>3 DEF Inherited
  <2>2. i \in 1 .. Len(log[s]) /\ log[s][i] > p[1] /\ log[s][i] \in Nat
    BY <1>1, <2>1 DEF Types, Numbers
  <2>3. ASSUME Has(log[s], p) PROVE Has(log'[c], p)
    <3>1. p[2] \in 1 .. Len(log[s]) /\ log[s][p[2]] = p[1]
      BY <2>3 DEF Has
    <3>2. ~(i <= p[2])
      BY <1>1, <1>2, <2>2, <3>1 DEF LogInv, Ordered
    <3>3. p[2] \in 1 .. Len(log'[c])
      BY <1>1, <1>2, <3>1, <3>2 DEF Types, Numbers
    <3> QED BY <2>1, <3>1, <3>3 DEF Has
  <2> QED BY <2>2, <2>3 DEF LaterThan
<1>4. CASE Written(c)
  <2>1. LaterThan(c, p[1])
    <3>1. CASE i = Len(log[c]) + 1
      BY <1>4, <3>1 DEF Written, LaterThan
    <3>2. CASE i # Len(log[c]) + 1
      <4>1. i \in 1 .. Len(log[c])
        BY <1>1, <1>4, <3>2 DEF Written, Types, Numbers
      <4> QED BY <1>4, <4>1 DEF Written, LaterThan
    <3> QED BY <3>1, <3>2
  <2>2. Has(log[c], p) => Has(log'[c], p)
    BY <1>1, <1>2, <1>4 DEF Written, Has, Types, Numbers
  <2> QED BY <2>1, <2>2
<1> QED BY <1>3, <1>4 DEF LogStep

\* In a step without a winner, who is later than p was, or has it from one that was.
LEMMA StepSpreads ==
    ASSUME CoreInv, CoreInv', LogStep, NoWinner, NEW p \in Nat \X Nat
    PROVE  Spread(p)
<1> SUFFICES ASSUME NEW c \in Nodes, LaterThan(c, p[1])'
             PROVE  \E s \in Nodes : LaterThan(s, p[1]) /\ (Has(log[s], p) => Has(log'[c], p))
  BY DEF Spread
<1>1. CASE \E i \in 1 .. Len(log'[c]) : log'[c][i] > p[1]
  BY <1>1, EntrySpreads
<1>2. CASE Leader(c)' /\ term'[c] > p[1]
  <2>1. Leader(c) /\ term[c] > p[1] /\ Extends(c)
    BY <1>2 DEF NoWinner
  <2>2. Types
    BY TypesHold DEF CoreInv, BaseInv
  <2>3. Types'
    BY TypesHold, PTL DEF CoreInv, BaseInv
  <2>4. Has(log[c], p) => Has(log'[c], p)
    BY <2>1, <2>2, <2>3 DEF Has, Extends, Types, Numbers
  <2> QED BY <2>1, <2>4 DEF LaterThan
<1> QED BY <1>1, <1>2 DEF LaterThan

\* An oplog that ends after one with the entry p has it too, if it has it when
\* it goes beyond its term.
LEMMA AheadHas ==
    ASSUME Types, LogInv, NEW p \in OpTimes, p # Null, NEW v \in Nodes, NEW c \in Nodes,
           Has(log[v], p), NEW r \in OpTimes, r = Null \/ Has(log[c], r),
           AtMost(LastOf(log[v]), r)
    PROVE  Has(log[c], p) \/ LaterThan(c, p[1])
<1> DEFINE L == Len(log[v])
<1>1. /\ p[2] \in 1 .. L /\ log[v][p[2]] = p[1] /\ L \in Nat /\ p[1] \in Nat /\ p[2] \in Nat
      /\ 0 < p[1]
  BY OpTimeFields, Bounds DEF Has, Types, Numbers
<1>2. L # 0 /\ L \in 1 .. L /\ p[2] <= L
  BY <1>1
<1>3. /\ LastOf(log[v])[1] = log[v][L] /\ LastOf(log[v])[2] = L
      /\ LastOf(log[v]) \in OpTimes
  BY <1>2, LastFacts DEF Types, Records
<1>4. log[v][p[2]] <= log[v][L] /\ log[v][L] \in Nat
  BY <1>1, <1>2 DEF LogInv, Ordered, Types, Numbers
<1>5. r[1] \in Nat /\ r[2] \in Nat /\ (r = Null => r[1] = 0)
  BY OpTimeFields, Bounds
<1>6. log[v][L] < r[1] \/ (log[v][L] = r[1] /\ L <= r[2])
  BY <1>3 DEF AtMost
<1>7. r # Null /\ Has(log[c], r)
  BY <1>1, <1>4, <1>5, <1>6
<1>8. r[2] \in 1 .. Len(log[c]) /\ log[c][r[2]] = r[1]
  BY <1>7 DEF Has
<1>9. CASE r[1] > p[1]
  BY <1>8, <1>9 DEF LaterThan
<1>10. CASE ~(r[1] > p[1])
  <2>1. log[c][r[2]] = p[1] /\ p[2] <= r[2] /\ p[2] \in 1 .. p[2]
    BY <1>1, <1>2, <1>4, <1>5, <1>6, <1>8, <1>10
  <2>2. log[c][p[2]] = log[v][p[2]]
    BY <1>1, <1>8, <2>1, SMTT(30) DEF LogInv, Matching
  <2>3. p[2] \in 1 .. Len(log[c])
    BY <1>1, <1>5, <1>8, <2>1 DEF Types, Numbers
  <2> QED BY <1>1, <2>2, <2>3 DEF Has
<1> QED BY <1>9, <1>10
=============================================================================
