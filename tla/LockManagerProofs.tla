------------------------- MODULE LockManagerProofs -------------------------
(***************************************************************************)
(* Proofs about LockManager, for every set of lockers and partitions and    *)
(* every choice of the options (priority resource, upgrades, timeouts).     *)
(*                                                                         *)
(* The inductive invariant relates the request fields, which the provers    *)
(* can reason about pointwise, to the lists and counts of the LockHead and  *)
(* of the PartitionedLockHeads.  The second part rests on it: what a locker *)
(* has it keeps, who waits must wait and is woken up exactly once, and the  *)
(* compatible-first count is exact.                                        *)
(***************************************************************************)
EXTENDS LockManager, FiniteSetTheorems, SequenceTheorems, TLAPS

\* The list s holds exactly the elements of W, each of them once.
Represents(s, W) ==
    /\ \A i \in 1..Len(s) : s[i] \in W
    /\ \A i, j \in 1..Len(s) : s[i] = s[j] => i = j
    /\ \A x \in W : \E i \in 1..Len(s) : s[i] = x

Holders == {l \in Lockers : where[l] = "head" /\ status[l] \in {"granted", "converting"}}
Waiters == {l \in Lockers : where[l] = "head" /\ status[l] = "waiting"}
InPartition(p) == {l \in Lockers : where[l] = "partition" /\ PartitionOf[l] = p}

\* The lists hold the requests whose fields say so.
ListsInv ==
    /\ Represents(grantedList, Holders)
    /\ Represents(conflictList, Waiters)
    /\ \A p \in Partitions : Represents(plhList[p], InPartition(p))

\* The fields of a request agree with each other and with its thread.
ReqInv(l) ==
    /\ status[l] \in {"none", "new"} => where[l] = "none"
    /\ status[l] = "converting" =>
          /\ where[l] = "head" /\ convertMode[l] \in Modes
          /\ recursiveCount[l] >= 1
          /\ pc[l] # "unlock" => recursiveCount[l] >= 2
    /\ where[l] # "none" =>
          /\ mode[l] \in Modes
          /\ pc[l] # "unlock" => recursiveCount[l] >= 1
    /\ status[l] = "new" =>
          /\ mode[l] \in Modes /\ recursiveCount[l] >= 1
          /\ partitioned[l] => mode[l] \in intentModes
    /\ pc[l] = "lock" => status[l] = "new"
    /\ pc[l] = "convert" =>
          /\ status[l] = "granted" /\ where[l] # "none" /\ want[l] \in Modes
          /\ recursiveCount[l] >= 2
    /\ pc[l] \in {"migrate", "moving"} =>
          \/ status[l] = "new"
          \/ /\ status[l] = "granted" /\ where[l] # "none" /\ want[l] \in Modes
             /\ recursiveCount[l] >= 2
    /\ pc[l] = "downgrade" =>
          /\ status[l] = "granted" /\ where[l] = "head"
          /\ mode[l] \in {"S", "X"} /\ want[l] \in Modes
          /\ isModeCovered(want[l], mode[l])
    /\ pc[l] \in {"waiting", "timedOut", "unlock"} => where[l] = "head"

RequestInv == \A l \in Lockers : ReqInv(l)

\* Whoever migrates has a partition left to migrate.
MigrationInv ==
    bucketOwner # NoOwner /\ pc[bucketOwner] \in {"migrate", "moving"}
        => partitions # <<>>

\* The thread with the bucket mutex will still look at the whole conflict queue.
WillCheckQueue ==
    /\ bucketOwner \in Lockers
    /\ \/ pc[bucketOwner] \in {"convScan", "convNotify"} /\ scan.check
       \/ pc[bucketOwner] = "conflictScan" /\ scan.pos = 1

\* Nobody waits for nothing.
QueueInv == conflictList # <<>> /\ grantedModes = {} => WillCheckQueue

IInv ==
    /\ TypeOK
    /\ CountsMatch
    /\ ListsInv
    /\ PartitionedImpliesIntent
    /\ RequestInv
    /\ MigrationInv
    /\ QueueInv
    /\ Compatible

-----------------------------------------------------------------------------
(***************************************************************************)
(* Modes                                                                   *)
(***************************************************************************)

\* The conflict table is symmetric.
LEMMA ConflictsSymmetric ==
    ASSUME NEW m \in AnyMode, NEW n \in AnyMode
    PROVE  conflicts(m, {n}) => conflicts(n, {m})
BY DEF conflicts, LockConflictsTable, AnyMode, Modes, NoMode

\* Intent modes are compatible with each other.
LEMMA IntentCompatible ==
    ASSUME NEW m \in intentModes, NEW ms \in SUBSET intentModes
    PROVE  ~conflicts(m, ms)
BY DEF conflicts, LockConflictsTable, AnyMode, Modes, NoMode, intentModes

\* Nothing conflicts with MODE_NONE.
LEMMA NoModeCompatible ==
    ASSUME NEW m \in AnyMode
    PROVE  ~conflicts(m, {NoMode}) /\ ~conflicts(NoMode, {m})
BY DEF conflicts, LockConflictsTable, AnyMode, Modes, NoMode

\* A set of modes is checked mode by mode.
LEMMA ConflictsMember ==
    ASSUME NEW m \in AnyMode, NEW ms, NEW n \in ms, conflicts(m, {n})
    PROVE  conflicts(m, ms)
BY DEF conflicts

\* What is compatible with a mode is compatible with every mode it covers.
LEMMA CoveredCompatible ==
    ASSUME NEW m \in AnyMode, NEW n \in AnyMode, NEW k \in AnyMode,
           isModeCovered(m, n), ~conflicts(n, {k})
    PROVE  ~conflicts(m, {k})
BY DEF conflicts, isModeCovered

-----------------------------------------------------------------------------
(***************************************************************************)
(* Cardinalities                                                           *)
(***************************************************************************)

\* Two finite sets that differ at most in r.
LEMMA CardChange ==
    ASSUME NEW S, NEW T, NEW r, IsFiniteSet(S), IsFiniteSet(T), S \ {r} = T \ {r}
    PROVE  /\ Cardinality(S) \in Nat /\ Cardinality(T) \in Nat
           /\ Cardinality(T) = Cardinality(S) + (IF r \in T THEN 1 ELSE 0) - (IF r \in S THEN 1 ELSE 0)
<1> DEFINE U == S \ {r}
<1>0. U = S \ {r} /\ U = T \ {r}
  OBVIOUS
<1>1. IsFiniteSet(U)
  BY FS_RemoveElement
<1>2. Cardinality(S) \in Nat /\ Cardinality(T) \in Nat /\ Cardinality(U) \in Nat
  BY <1>1, FS_CardinalityType
<1>3. Cardinality(S) = Cardinality(U) + (IF r \in S THEN 1 ELSE 0)
  <2>1. CASE r \in S
    <3>1. Cardinality(S \ {r}) = Cardinality(S) - 1
      BY <2>1, FS_RemoveElement
    <3> QED BY <2>1, <3>1, <1>2
  <2>2. CASE r \notin S
    <3>1. U = S
      BY <2>2
    <3> QED BY <2>2, <3>1, <1>2
  <2> QED BY <2>1, <2>2
<1>4. Cardinality(T) = Cardinality(U) + (IF r \in T THEN 1 ELSE 0)
  <2>1. CASE r \in T
    <3>1. Cardinality(U) = Cardinality(T) - 1
      BY <2>1, <1>0, FS_RemoveElement
    <3> HIDE DEF U
    <3> QED BY <2>1, <3>1, <1>2
  <2>2. CASE r \notin T
    <3>1. U = T
      BY <2>2, <1>0
    <3> HIDE DEF U
    <3> QED BY <2>2, <3>1, <1>2
  <2> QED BY <2>1, <2>2
<1> HIDE DEF U
<1> QED BY <1>2, <1>3, <1>4

\* An element of a finite set counts, two elements count twice.
LEMMA CardAtLeast ==
    ASSUME NEW S, IsFiniteSet(S)
    PROVE  /\ Cardinality(S) \in Nat
           /\ (\E x \in S : TRUE) <=> Cardinality(S) >= 1
           /\ (\E x, y \in S : x # y) => Cardinality(S) >= 2
<1>1. Cardinality(S) \in Nat
  BY FS_CardinalityType
<1>2. (\E x \in S : TRUE) <=> Cardinality(S) >= 1
  BY <1>1, FS_EmptySet
<1>3. ASSUME NEW x \in S, NEW y \in S, x # y PROVE Cardinality(S) >= 2
  <2>1. IsFiniteSet(S \ {x}) /\ Cardinality(S \ {x}) = Cardinality(S) - 1
    BY FS_RemoveElement
  <2>2. Cardinality(S \ {x}) \in Nat
    BY <2>1, FS_CardinalityType
  <2>3. Cardinality(S \ {x}) # 0
    BY <2>1, <1>3, FS_EmptySet
  <2> QED BY <2>1, <2>2, <2>3, <1>1
<1> QED BY <1>1, <1>2, <1>3

-----------------------------------------------------------------------------
(***************************************************************************)
(* Lists                                                                   *)
(***************************************************************************)

\* What RemoveAt returns.
LEMMA RemoveAtType ==
    ASSUME NEW S, NEW s \in Seq(S), NEW i \in 1..Len(s)
    PROVE  /\ RemoveAt(s, i) \in Seq(S)
           /\ Len(RemoveAt(s, i)) = Len(s) - 1
           /\ \A j \in 1..(Len(s) - 1) :
                 RemoveAt(s, i)[j] = IF j < i THEN s[j] ELSE s[j + 1]
<1> DEFINE a == SubSeq(s, 1, i - 1)
           b == SubSeq(s, i + 1, Len(s))
<1>1. /\ a \in Seq(S) /\ Len(a) = i - 1
      /\ \A j \in 1..(i - 1) : a[j] = s[j]
  OBVIOUS
<1>2. /\ b \in Seq(S) /\ Len(b) = Len(s) - i
      /\ \A j \in 1..(Len(s) - i) : b[j] = s[i + j]
  OBVIOUS
<1>3. RemoveAt(s, i) = a \o b
  BY DEF RemoveAt
<1> HIDE DEF a, b
<1>4. /\ a \o b \in Seq(S) /\ Len(a \o b) = Len(a) + Len(b)
      /\ \A j \in 1..(Len(a) + Len(b)) :
            (a \o b)[j] = IF j <= Len(a) THEN a[j] ELSE b[j - Len(a)]
  BY <1>1, <1>2, ConcatProperties
<1>5. Len(s) \in Nat
  OBVIOUS
<1> QED BY <1>1, <1>2, <1>3, <1>4, <1>5

\* A list stays a list of exactly the right requests when one is removed...
LEMMA RemoveAtRepresents ==
    ASSUME NEW S, NEW s \in Seq(S), NEW i \in 1..Len(s), NEW W, Represents(s, W)
    PROVE  Represents(RemoveAt(s, i), W \ {s[i]})
<1> DEFINE t == RemoveAt(s, i)
<1>1. /\ Len(s) \in Nat /\ Len(t) = Len(s) - 1
      /\ \A j \in 1..(Len(s) - 1) : t[j] = IF j < i THEN s[j] ELSE s[j + 1]
  BY RemoveAtType
<1> HIDE DEF t
<1>2. \A j \in 1..Len(t) : t[j] \in W \ {s[i]}
  BY <1>1 DEF Represents
<1>3. \A j, k \in 1..Len(t) : t[j] = t[k] => j = k
  BY <1>1 DEF Represents
<1>4. ASSUME NEW x \in W \ {s[i]} PROVE \E j \in 1..Len(t) : t[j] = x
  <2>1. PICK j \in 1..Len(s) : s[j] = x
    BY DEF Represents
  <2>2. CASE j < i
    BY <2>1, <2>2, <1>1
  <2>3. CASE j > i
    <3>1. j - 1 \in 1..Len(t) /\ t[j - 1] = x
      BY <2>1, <2>3, <1>1
    <3> QED BY <3>1
  <2> QED BY <2>1, <2>2, <2>3
<1> QED BY <1>2, <1>3, <1>4 DEF Represents, t

\* ... wherever it stands ...
LEMMA UnlinkRepresents ==
    ASSUME NEW S, NEW s \in Seq(S), NEW W, Represents(s, W), NEW x \in W
    PROVE  Unlink(s, x) \in Seq(S) /\ Represents(Unlink(s, x), W \ {x})
<1> DEFINE i == CHOOSE i \in DOMAIN s : s[i] = x
<1>1. i \in 1..Len(s) /\ s[i] = x
  <2>1. PICK j \in DOMAIN s : s[j] = x
    BY DEF Represents
  <2>2. i \in DOMAIN s /\ s[i] = x
    BY <2>1
  <2> QED BY <2>2
<1>2. Unlink(s, x) = RemoveAt(s, i)
  BY DEF Unlink
<1> HIDE DEF i
<1>3. RemoveAt(s, i) \in Seq(S)
  BY <1>1, RemoveAtType
<1>4. Represents(RemoveAt(s, i), W \ {x})
  BY <1>1, RemoveAtRepresents
<1> QED BY <1>2, <1>3, <1>4

\* ... or at the front, ...
LEMMA TailRepresents ==
    ASSUME NEW S, NEW s \in Seq(S), s # <<>>, NEW W, Represents(s, W)
    PROVE  /\ Head(s) \in W /\ Head(s) \in S /\ Tail(s) \in Seq(S)
           /\ Represents(Tail(s), W \ {Head(s)})
<1>1. /\ Len(s) \in Nat /\ Len(s) >= 1 /\ Head(s) = s[1] /\ Len(Tail(s)) = Len(s) - 1
      /\ \A j \in 1..(Len(s) - 1) : Tail(s)[j] = s[j + 1]
      /\ Tail(s) \in Seq(S) /\ s[1] \in S
  OBVIOUS
<1> DEFINE t == Tail(s)
<1> HIDE DEF t
<1>2. \A j \in 1..Len(t) : t[j] \in W \ {s[1]}
  BY <1>1 DEF Represents, t
<1>3. \A j, k \in 1..Len(t) : t[j] = t[k] => j = k
  BY <1>1 DEF Represents, t
<1>4. ASSUME NEW x \in W \ {s[1]} PROVE \E j \in 1..Len(t) : t[j] = x
  <2>1. PICK j \in 1..Len(s) : s[j] = x
    BY DEF Represents
  <2>2. j - 1 \in 1..Len(t) /\ t[j - 1] = x
    BY <2>1, <1>1 DEF t
  <2> QED BY <2>2
<1>5. Represents(t, W \ {s[1]})
  BY <1>2, <1>3, <1>4 DEF Represents
<1>6. s[1] \in W
  BY <1>1 DEF Represents
<1> QED BY <1>1, <1>5, <1>6 DEF t

\* ... and when one is added at either end.
LEMMA AppendRepresents ==
    ASSUME NEW S, NEW s \in Seq(S), NEW W, Represents(s, W), NEW x \in S, x \notin W
    PROVE  Append(s, x) \in Seq(S) /\ Represents(Append(s, x), W \cup {x})
<1> DEFINE t == Append(s, x)
<1>1. /\ t \in Seq(S) /\ Len(s) \in Nat /\ Len(t) = Len(s) + 1 /\ t[Len(s) + 1] = x
      /\ \A j \in 1..Len(s) : t[j] = s[j]
  OBVIOUS
<1> HIDE DEF t
<1>2. \A j \in 1..Len(t) : t[j] \in W \cup {x}
  BY <1>1 DEF Represents
<1>3. \A j, k \in 1..Len(t) : t[j] = t[k] => j = k
  BY <1>1 DEF Represents
<1>4. \A y \in W \cup {x} : \E j \in 1..Len(t) : t[j] = y
  BY <1>1 DEF Represents
<1>5. Represents(t, W \cup {x})
  BY <1>2, <1>3, <1>4 DEF Represents
<1> QED BY <1>1, <1>5 DEF t

\* ... and a request put at the front of the list joins the set.
LEMMA ConsRepresents ==
    ASSUME NEW S, NEW s \in Seq(S), NEW W, Represents(s, W), NEW x \in S, x \notin W
    PROVE  Cons(x, s) \in Seq(S) /\ Represents(Cons(x, s), W \cup {x})
<1> DEFINE t == Cons(x, s)
<1>1. /\ t \in Seq(S) /\ Len(s) \in Nat /\ Len(t) = Len(s) + 1 /\ t[1] = x
      /\ \A j \in 1..Len(s) : t[j + 1] = s[j]
  <2>1. t = <<x>> \o s /\ <<x>> \in Seq(S) /\ Len(<<x>>) = 1 /\ <<x>>[1] = x
    BY DEF Cons
  <2>2. /\ <<x>> \o s \in Seq(S) /\ Len(<<x>> \o s) = 1 + Len(s)
        /\ \A j \in 1..(1 + Len(s)) :
              (<<x>> \o s)[j] = IF j <= 1 THEN <<x>>[j] ELSE s[j - 1]
    BY <2>1, ConcatProperties
  <2> QED BY <2>1, <2>2
<1> HIDE DEF t
<1>2. ASSUME NEW j \in 1..Len(t) PROVE j = 1 \/ (j - 1 \in 1..Len(s) /\ t[j] = s[j - 1])
  BY <1>1
<1>3. \A j \in 1..Len(t) : t[j] \in W \cup {x}
  BY <1>1, <1>2 DEF Represents
<1>4. ASSUME NEW j \in 1..Len(t), NEW k \in 1..Len(t), t[j] = t[k] PROVE j = k
  <2>1. \A n \in 1..Len(s) : s[n] # x
    BY DEF Represents
  <2>2. CASE j = 1 \/ k = 1
    BY <2>1, <2>2, <1>1, <1>2, <1>4
  <2>3. CASE j # 1 /\ k # 1
    <3>1. j - 1 = k - 1
      BY <2>3, <1>2, <1>4 DEF Represents
    <3> QED BY <3>1
  <2> QED BY <2>2, <2>3
<1>5. ASSUME NEW y \in W PROVE \E j \in 1..Len(t) : t[j] = y
  <2>1. PICK j \in 1..Len(s) : s[j] = y
    BY DEF Represents
  <2>2. j + 1 \in 1..Len(t) /\ t[j + 1] = y
    BY <2>1, <1>1
  <2> QED BY <2>2
<1>6. Represents(t, W \cup {x})
  BY <1>1, <1>3, <1>4, <1>5 DEF Represents
<1> QED BY <1>1, <1>6 DEF t

-----------------------------------------------------------------------------
(***************************************************************************)
(* The counts of the LockHead when one request changes                     *)
(***************************************************************************)

IsHolder(l, m) ==
    where[l] = "head" /\ status[l] \in {"granted", "converting"} /\ mode[l] = m
IsConverter(l, m) == status[l] = "converting" /\ convertMode[l] = m
IsWaiter(l, m) == status[l] = "waiting" /\ where[l] = "head" /\ mode[l] = m

\* No request but that of r changes.
OnlyRequest(r) ==
    \A k \in Lockers \ {r} :
        /\ status'[k] = status[k] /\ where'[k] = where[k]
        /\ mode'[k] = mode[k] /\ convertMode'[k] = convertMode[k]

\* The counts stay exact if they change by what request r contributes to them.
LEMMA CountsStep ==
    ASSUME NEW r \in Lockers, OnlyRequest(r), CountsMatch,
           \A m \in Modes :
              grantedCounts'[m] = grantedCounts[m]
                 + ((IF IsHolder(r, m)' THEN 1 ELSE 0) - (IF IsHolder(r, m) THEN 1 ELSE 0))
                 + ((IF IsConverter(r, m)' THEN 1 ELSE 0) - (IF IsConverter(r, m) THEN 1 ELSE 0)),
           \A m \in Modes :
              conflictCounts'[m] = conflictCounts[m]
                 + ((IF IsWaiter(r, m)' THEN 1 ELSE 0) - (IF IsWaiter(r, m) THEN 1 ELSE 0)),
           conversionsCount' = conversionsCount
              + ((IF status'[r] = "converting" THEN 1 ELSE 0)
                  - (IF status[r] = "converting" THEN 1 ELSE 0))
    PROVE  CountsMatch'
<1> DEFINE Conv == {l \in Lockers : status[l] = "converting"}
<1>1. ASSUME NEW S \in SUBSET Lockers PROVE IsFiniteSet(S)
  BY <1>1, LockersAssumption, FS_Subset
<1>2. ASSUME NEW m \in Modes
      PROVE  grantedCounts'[m] = Cardinality(HoldersIn(m)') + Cardinality(ConvertersTo(m)')
  <2>1. /\ HoldersIn(m) \in SUBSET Lockers /\ HoldersIn(m)' \in SUBSET Lockers
        /\ HoldersIn(m) \ {r} = HoldersIn(m)' \ {r}
        /\ (r \in HoldersIn(m) <=> IsHolder(r, m)) /\ (r \in HoldersIn(m)' <=> IsHolder(r, m)')
    BY DEF OnlyRequest, HoldersIn, OnHead, IsHolder
  <2>2. /\ ConvertersTo(m) \in SUBSET Lockers /\ ConvertersTo(m)' \in SUBSET Lockers
        /\ ConvertersTo(m) \ {r} = ConvertersTo(m)' \ {r}
        /\ (r \in ConvertersTo(m) <=> IsConverter(r, m))
        /\ (r \in ConvertersTo(m)' <=> IsConverter(r, m)')
    BY DEF OnlyRequest, ConvertersTo, IsConverter
  <2>3. /\ Cardinality(HoldersIn(m)) \in Nat /\ Cardinality(HoldersIn(m)') \in Nat
        /\ Cardinality(HoldersIn(m)') = Cardinality(HoldersIn(m))
              + (IF IsHolder(r, m)' THEN 1 ELSE 0) - (IF IsHolder(r, m) THEN 1 ELSE 0)
    BY <2>1, <1>1, CardChange
  <2>4. /\ Cardinality(ConvertersTo(m)) \in Nat /\ Cardinality(ConvertersTo(m)') \in Nat
        /\ Cardinality(ConvertersTo(m)') = Cardinality(ConvertersTo(m))
              + (IF IsConverter(r, m)' THEN 1 ELSE 0) - (IF IsConverter(r, m) THEN 1 ELSE 0)
    BY <2>2, <1>1, CardChange
  <2>5. grantedCounts[m] = Cardinality(HoldersIn(m)) + Cardinality(ConvertersTo(m))
    BY DEF CountsMatch
  <2> QED BY <2>3, <2>4, <2>5
<1>3. ASSUME NEW m \in Modes PROVE conflictCounts'[m] = Cardinality(WaitersIn(m)')
  <2>1. /\ WaitersIn(m) \in SUBSET Lockers /\ WaitersIn(m)' \in SUBSET Lockers
        /\ WaitersIn(m) \ {r} = WaitersIn(m)' \ {r}
        /\ (r \in WaitersIn(m) <=> IsWaiter(r, m)) /\ (r \in WaitersIn(m)' <=> IsWaiter(r, m)')
    BY DEF OnlyRequest, WaitersIn, IsWaiter
  <2>2. /\ Cardinality(WaitersIn(m)) \in Nat /\ Cardinality(WaitersIn(m)') \in Nat
        /\ Cardinality(WaitersIn(m)') = Cardinality(WaitersIn(m))
              + (IF IsWaiter(r, m)' THEN 1 ELSE 0) - (IF IsWaiter(r, m) THEN 1 ELSE 0)
    BY <2>1, <1>1, CardChange
  <2>3. conflictCounts[m] = Cardinality(WaitersIn(m))
    BY DEF CountsMatch
  <2> QED BY <2>2, <2>3
<1>4. conversionsCount' = Cardinality(Conv')
  <2>1. /\ Conv \in SUBSET Lockers /\ Conv' \in SUBSET Lockers
        /\ Conv \ {r} = Conv' \ {r}
        /\ (r \in Conv <=> (status[r] = "converting"))
        /\ (r \in Conv' <=> (status'[r] = "converting"))
    BY DEF OnlyRequest
  <2>2. conversionsCount = Cardinality(Conv)
    BY DEF CountsMatch
  <2> HIDE DEF Conv
  <2>3. /\ Cardinality(Conv) \in Nat /\ Cardinality(Conv') \in Nat
        /\ Cardinality(Conv') = Cardinality(Conv)
              + (IF status'[r] = "converting" THEN 1 ELSE 0)
              - (IF status[r] = "converting" THEN 1 ELSE 0)
    BY <2>1, <1>1, CardChange
  <2> QED BY <2>2, <2>3
<1> QED BY <1>2, <1>3, <1>4 DEF CountsMatch

-----------------------------------------------------------------------------
(***************************************************************************)
(* The initial state                                                       *)
(***************************************************************************)

\* The inductive invariant holds before the first lock call.
LEMMA InitIInv == Init => IInv
<1> SUFFICES ASSUME Init PROVE IInv
  OBVIOUS
<1>1. TypeOK
  <2>1. /\ status \in [Lockers -> Statuses] /\ mode \in [Lockers -> AnyMode]
        /\ convertMode \in [Lockers -> AnyMode] /\ recursiveCount \in [Lockers -> Nat]
        /\ partitioned \in [Lockers -> BOOLEAN] /\ compatibleFirst \in [Lockers -> BOOLEAN]
        /\ where \in [Lockers -> {"none", "partition", "head"}]
        /\ want \in [Lockers -> AnyMode] /\ notify \in [Lockers -> {"INVALID", "OK"}]
    BY DEF Init, Statuses, AnyMode
  <2>2. /\ headExists \in BOOLEAN
        /\ grantedCounts \in [Modes -> Nat] /\ conflictCounts \in [Modes -> Nat]
        /\ conversionsCount \in Nat /\ compatibleFirstCount \in Nat
    BY DEF Init
  <2>5. /\ grantedList \in Seq(Lockers) /\ conflictList \in Seq(Lockers)
        /\ partitions \in Seq(Partitions)
    BY EmptySeq DEF Init
  <2>3. plhExists \in [Partitions -> BOOLEAN] /\ plhList \in [Partitions -> Seq(Lockers)]
    BY DEF Init
  <2>4. /\ pc \in [Threads -> PcValues] /\ bucketOwner \in Threads \cup {NoOwner}
        /\ scan \in ScanStates
    BY DEF Init, PcValues, ScanStates, NoScan
  <2> QED BY <2>1, <2>2, <2>3, <2>4, <2>5 DEF TypeOK
<1>2. CountsMatch
  <2>1. /\ \A m \in Modes : HoldersIn(m) = {} /\ ConvertersTo(m) = {} /\ WaitersIn(m) = {}
        /\ {l \in Lockers : status[l] = "converting"} = {}
    BY DEF Init, HoldersIn, ConvertersTo, WaitersIn, OnHead
  <2>2. Cardinality({}) = 0
    BY FS_EmptySet
  <2>3. ASSUME NEW m \in Modes
        PROVE  /\ grantedCounts[m] = Cardinality(HoldersIn(m)) + Cardinality(ConvertersTo(m))
               /\ conflictCounts[m] = Cardinality(WaitersIn(m))
    <3>1. grantedCounts[m] = 0 /\ conflictCounts[m] = 0
      BY DEF Init
    <3> QED BY <2>1, <2>2, <3>1
  <2>4. conversionsCount = Cardinality({l \in Lockers : status[l] = "converting"})
    BY <2>1, <2>2 DEF Init
  <2> QED BY <2>3, <2>4 DEF CountsMatch
<1>3. ListsInv
  BY DEF Init, ListsInv, Represents, Holders, Waiters, InPartition
<1>4. PartitionedImpliesIntent
  BY DEF Init, PartitionedImpliesIntent
<1>5. RequestInv
  BY DEF Init, RequestInv, ReqInv, Threads
<1>6. MigrationInv /\ QueueInv
  BY DEF Init, MigrationInv, QueueInv
<1>7. Compatible
  BY NoModeCompatible DEF Init, Compatible, HeldMode, AnyMode
<1> QED BY <1>1, <1>2, <1>3, <1>4, <1>5, <1>6, <1>7 DEF IInv

-----------------------------------------------------------------------------
(***************************************************************************)
(* Steps that leave the lists and what is granted alone                    *)
(***************************************************************************)

quietVars == <<status, mode, convertMode, where, grantedList, grantedCounts,
               conflictList, conflictCounts, partitions, conversionsCount,
               plhExists, plhList>>

\* Nobody obtains, changes or releases the resource.
HeldSame == \A l \in Lockers : HeldMode(l)' = HeldMode(l)

\* A step that changes no request, list or count keeps the invariants that
\* relate them, and what every locker holds.
LEMMA QuietStep ==
    ASSUME IInv, UNCHANGED quietVars
    PROVE  CountsMatch' /\ ListsInv' /\ PartitionedImpliesIntent' /\ Compatible' /\ HeldSame
<1> USE DEF quietVars
<1>1. CountsMatch'
  BY DEF IInv, CountsMatch, HoldersIn, ConvertersTo, WaitersIn, OnHead
<1>2. ListsInv'
  BY DEF IInv, ListsInv, Holders, Waiters, InPartition
<1>3. PartitionedImpliesIntent'
  BY DEF IInv, PartitionedImpliesIntent, grantedModes, conflictModes
<1>4. Compatible'
  BY DEF IInv, Compatible, HeldMode
<1>5. HeldSame
  BY DEF HeldSame, HeldMode
<1> QED BY <1>1, <1>2, <1>3, <1>4, <1>5

\* The calls and returns that change neither lists nor counts: the fast paths of
\* convert and unlock, the start of a migration, and waits that end.
LEMMA QuietCalls ==
    ASSUME IInv, NEW l \in Lockers,
           \/ \E m \in RequestModes : ConvertBegin(l, m) \/ DowngradeBegin(l, m)
           \/ WaitTimeout(l) \/ UnlockRecursive(l) \/ UnlockToBucket(l)
           \/ LockMigrate(l) \/ ConvertMigrate(l) \/ WaitOk(l)
    PROVE  IInv' /\ HeldSame
<1> USE DEF IInv
<1>1. UNCHANGED quietVars
  BY DEF quietVars, ConvertBegin, DowngradeBegin, WaitTimeout, UnlockRecursive,
         UnlockToBucket, LockMigrate, ConvertMigrate, WaitOk, requestVars, headVars,
         plhVars
<1>2. TypeOK'
  <2>1. ASSUME NEW m \in RequestModes, ConvertBegin(l, m) PROVE TypeOK'
    <3>1. compatibleFirst' \in [Lockers -> BOOLEAN]
      BY <2>1 DEF ConvertBegin, TypeOK
    <3>2. /\ recursiveCount' \in [Lockers -> Nat]
          /\ notify' \in [Lockers -> {"INVALID", "OK"}]
      BY <2>1 DEF ConvertBegin, TypeOK, ClearNotify
    <3>3. pc' \in [Threads -> PcValues] /\ want' \in [Lockers -> AnyMode]
      <4>1. CASE isModeCovered(m, mode[l])
        BY <2>1, <4>1 DEF ConvertBegin, TypeOK
      <4>2. CASE ~isModeCovered(m, mode[l])
        BY <2>1, <4>2, OptionsAssumption
           DEF ConvertBegin, TypeOK, Goto, Threads, PcValues, AnyMode
      <4> QED BY <4>1, <4>2
    <3> QED BY <2>1, <3>1, <3>2, <3>3 DEF TypeOK, ConvertBegin, headVars, plhVars
  <2>2. ASSUME NEW m \in RequestModes, DowngradeBegin(l, m) PROVE TypeOK'
    BY <2>2, OptionsAssumption
       DEF TypeOK, DowngradeBegin, requestVars, headVars, plhVars, Goto, Threads, PcValues,
           AnyMode
  <2>3. CASE WaitTimeout(l) \/ LockMigrate(l) \/ ConvertMigrate(l) \/ WaitOk(l)
    BY <2>3
       DEF TypeOK, WaitTimeout, LockMigrate, ConvertMigrate, WaitOk, requestVars, headVars,
           plhVars, Goto, Threads, PcValues
  <2>4. CASE UnlockRecursive(l)
    BY <2>4
       DEF TypeOK, UnlockRecursive, headVars, plhVars, Goto, Threads, PcValues, IsRecursive
  <2>5. CASE UnlockToBucket(l)
    <3>1. recursiveCount[l] \in Nat /\ recursiveCount[l] >= 1
      BY <2>5 DEF UnlockToBucket, TypeOK, RequestInv, ReqInv, CallsUnlock, Holder
    <3>2. recursiveCount' \in [Lockers -> Nat] /\ pc' \in [Threads -> PcValues]
      BY <2>5, <3>1 DEF UnlockToBucket, TypeOK, Goto, Threads, PcValues
    <3> QED BY <2>5, <3>2 DEF TypeOK, UnlockToBucket, headVars, plhVars
  <2> QED BY <2>1, <2>2, <2>3, <2>4, <2>5
<1>3. ASSUME NEW k \in Lockers PROVE ReqInv(k)'
  <2> USE DEF TypeOK, RequestInv, ReqInv, Goto, Threads
  <2>1. ASSUME NEW m \in RequestModes, ConvertBegin(l, m) PROVE ReqInv(k)'
    <3>1. CASE k # l
      <4>1. /\ UNCHANGED <<status, where, mode, convertMode, partitioned>>
            /\ recursiveCount'[k] = recursiveCount[k]
        BY <2>1, <3>1 DEF ConvertBegin
      <4>2. pc'[k] = pc[k] /\ want'[k] = want[k]
        BY <2>1, <3>1 DEF ConvertBegin
      <4> QED BY <4>1, <4>2
    <3>2. CASE k = l /\ isModeCovered(m, mode[l])
      BY <2>1, <3>2 DEF ConvertBegin, Holder
    <3>3. CASE k = l /\ ~isModeCovered(m, mode[l])
      <4>1. /\ UNCHANGED <<status, where, mode, convertMode, partitioned>>
            /\ recursiveCount'[l] = recursiveCount[l] + 1
        BY <2>1 DEF ConvertBegin
      <4>2. pc'[l] = "convert" /\ want'[l] = m /\ m \in Modes
        BY <2>1, <3>3, OptionsAssumption DEF ConvertBegin
      <4>3. pc[l] = "idle" /\ status[l] = "granted" /\ where[l] # "none"
        BY <2>1 DEF ConvertBegin, Holder
      <4>4. recursiveCount[l] \in Nat /\ recursiveCount[l] >= 1 /\ mode[l] \in Modes
        BY <4>3
      <4>5. recursiveCount'[l] >= 2
        BY <4>1, <4>4
      <4>6. ReqInv(l)'
        BY <4>1, <4>2, <4>3, <4>4, <4>5
      <4> QED BY <3>3, <4>6 DEF ReqInv
    <3> QED BY <3>1, <3>2, <3>3
  <2>2. ASSUME NEW m \in RequestModes, DowngradeBegin(l, m) PROVE ReqInv(k)'
    <3>1. where[l] = "head"
      BY <2>2 DEF DowngradeBegin, Holder, IInv, PartitionedImpliesIntent, intentModes
    <3> QED BY <2>2, <3>1, OptionsAssumption DEF DowngradeBegin, Holder, requestVars
  <2>3. CASE WaitTimeout(l) \/ WaitOk(l)
    BY <2>3 DEF WaitTimeout, WaitOk, requestVars
  <2>4. CASE LockMigrate(l) \/ ConvertMigrate(l)
    BY <2>4 DEF LockMigrate, ConvertMigrate, requestVars, InBucket
  <2>5. CASE UnlockRecursive(l)
    BY <2>5 DEF UnlockRecursive, CallsUnlock, Holder, IsRecursive
  <2>6. CASE UnlockToBucket(l)
    BY <2>6 DEF UnlockToBucket, CallsUnlock, Holder, IsRecursive
  <2> QED BY <2>1, <2>2, <2>3, <2>4, <2>5, <2>6
<1>4. MigrationInv'
  BY LockersAssumption
     DEF TypeOK, MigrationInv, ConvertBegin, DowngradeBegin, WaitTimeout,
         UnlockRecursive, UnlockToBucket, LockMigrate, ConvertMigrate, WaitOk,
         requestVars, headVars, plhVars, Goto, Threads
<1>5. QueueInv'
  BY LockersAssumption
     DEF TypeOK, QueueInv, WillCheckQueue, grantedModes, ConvertBegin, DowngradeBegin,
         WaitTimeout, UnlockRecursive, UnlockToBucket, LockMigrate, ConvertMigrate,
         WaitOk, requestVars, headVars, plhVars, Goto, Threads, CallsUnlock, Holder,
         InBucket
<1> QED BY <1>1, <1>2, <1>3, <1>4, <1>5, QuietStep DEF RequestInv

\* The cursor of _onLockModeChanged stays one.
LEMMA ScanExcept ==
    ASSUME scan \in ScanStates
    PROVE  /\ scan.pos \in Nat \ {0} /\ scan.check \in BOOLEAN /\ scan.newly \in BOOLEAN
           /\ [scan EXCEPT !.pos = @ + 1] \in ScanStates
           /\ [scan EXCEPT !.pos = 1] \in ScanStates
           /\ \A b \in BOOLEAN : [scan EXCEPT !.newly = b] \in ScanStates
           /\ \A b \in BOOLEAN : [NoScan EXCEPT !.check = b] \in ScanStates
           /\ NoScan \in ScanStates
<1>1. scan.pos \in Nat \ {0} /\ scan.check \in BOOLEAN /\ scan.newly \in BOOLEAN
  BY DEF ScanStates
<1>2. scan.pos + 1 \in Nat \ {0}
  BY <1>1
<1>3. \A n \in Nat \ {0} : [scan EXCEPT !.pos = n] \in ScanStates
  BY DEF ScanStates
<1>4. [scan EXCEPT !.pos = @ + 1] \in ScanStates /\ [scan EXCEPT !.pos = 1] \in ScanStates
  BY <1>2, <1>3
<1>5. \A b \in BOOLEAN : [scan EXCEPT !.newly = b] \in ScanStates
  BY DEF ScanStates
<1>6. NoScan \in ScanStates
  BY DEF ScanStates, NoScan
<1>7. \A s \in ScanStates, b \in BOOLEAN : [s EXCEPT !.check = b] \in ScanStates
  BY DEF ScanStates
<1> QED BY <1>1, <1>4, <1>5, <1>6, <1>7

\* The steps of _onLockModeChanged that only move its cursor or notify.
LEMMA QuietScan ==
    ASSUME IInv, NEW t \in Lockers,
           \/ ConvScanSkip(t) \/ ConvScanNotify(t) \/ ConvScanEnd(t)
           \/ ConflictScanSkip(t) \/ ConflictScanNotify(t) \/ ConflictScanEnd(t)
    PROVE  IInv' /\ HeldSame
<1> USE DEF IInv
<1>1. UNCHANGED quietVars
  BY DEF quietVars, ConvScanSkip, ConvScanNotify, ConvScanEnd, ConflictScanSkip,
         ConflictScanNotify, ConflictScanEnd, requestVars, headVars, plhVars
<1>2. TypeOK'
  <2>0. scan \in ScanStates
    BY DEF TypeOK
  <2> HIDE DEF IInv
  <2>1. CASE ConvScanSkip(t) \/ ConflictScanSkip(t)
    <3>1. scan' \in ScanStates
      BY <2>1, <2>0, ScanExcept DEF ConvScanSkip, ConflictScanSkip
    <3> QED BY <2>1, <3>1 DEF IInv, TypeOK, requestVars, headVars, plhVars, ConvScanSkip, ConflictScanSkip
  <2>2. CASE ConvScanNotify(t)
    <3>1. scan' \in ScanStates
      BY <2>2, <2>0, ScanExcept DEF ConvScanNotify
    <3> QED BY <2>2, <3>1 DEF IInv, TypeOK, requestVars, headVars, plhVars, ConvScanNotify, Goto, Threads, PcValues
  <2>3. CASE ConvScanEnd(t)
    <3>1. scan' \in ScanStates
      BY <2>3, <2>0, ScanExcept DEF ConvScanEnd
    <3> QED BY <2>3, <3>1 DEF IInv, TypeOK, requestVars, headVars, plhVars, ConvScanEnd, Goto, Threads, PcValues
  <2>4. CASE ConflictScanNotify(t) \/ ConflictScanEnd(t)
    BY <2>4 DEF IInv, TypeOK, requestVars, headVars, plhVars, ConflictScanNotify, ConflictScanEnd, Goto, Threads, PcValues
  <2> QED BY <2>1, <2>2, <2>3, <2>4
<1>3. RequestInv' /\ MigrationInv'
  <2>1. UNCHANGED <<requestVars, want, bucketOwner>>
    BY DEF ConvScanSkip, ConvScanNotify, ConvScanEnd, ConflictScanSkip,
           ConflictScanNotify, ConflictScanEnd
  <2>2. \/ UNCHANGED pc
        \/ /\ pc[t] \in {"convScan", "convNotify", "conflictScan", "conflictNotify"}
           /\ \E x \in {"convScan", "conflictScan", "scanDone"} : pc' = [pc EXCEPT ![t] = x]
    BY DEF ConvScanSkip, ConvScanNotify, ConvScanEnd, ConflictScanSkip,
           ConflictScanNotify, ConflictScanEnd, Goto
  <2> QED BY <2>1, <2>2, <1>1
          DEF RequestInv, ReqInv, MigrationInv, TypeOK, Threads, requestVars, quietVars
<1>4. QueueInv'
  <2> USE DEF QueueInv, WillCheckQueue, TypeOK, Threads, ScanStates
  <2>1. UNCHANGED <<grantedModes, conflictList>> /\ bucketOwner = t /\ bucketOwner' = t
    BY <1>1, LockersAssumption
       DEF quietVars, grantedModes, ConvScanSkip, ConvScanNotify, ConvScanEnd,
           ConflictScanSkip, ConflictScanNotify, ConflictScanEnd, InConflictLoop
  <2>2. CASE ConvScanSkip(t)
    BY <2>1, <2>2 DEF ConvScanSkip
  <2>3. CASE ConvScanNotify(t)
    BY <2>1, <2>3 DEF ConvScanNotify, Goto
  <2>4. CASE ConvScanEnd(t)
    BY <2>1, <2>4 DEF ConvScanEnd, Goto
  <2>5. CASE ConflictScanSkip(t)
    <3>1. grantedModes # {}
      BY <2>5 DEF ConflictScanSkip, conflicts
    <3> QED BY <2>1, <3>1
  <2>6. CASE ConflictScanNotify(t)
    BY <2>1, <2>6 DEF ConflictScanNotify, Goto
  <2>7. CASE ConflictScanEnd(t)
    <3>1. CASE InConflictLoop(t)
      <4>1. grantedModes # {}
        BY <2>7, <3>1 DEF ConflictScanEnd, conflicts
      <4> QED BY <2>1, <4>1
    <3>2. CASE ~InConflictLoop(t)
      <4>1. conflictList # <<>> => scan.pos # 1
        BY <2>7, <3>2 DEF ConflictScanEnd, InConflictLoop
      <4> QED BY <2>1, <2>7, <4>1 DEF ConflictScanEnd
    <3> QED BY <3>1, <3>2
  <2> QED BY <2>2, <2>3, <2>4, <2>5, <2>6, <2>7
<1> QED BY <1>1, <1>2, <1>3, <1>4, QuietStep

\* cleanupUnusedLocks deletes the LockHead only when nothing is on it.
LEMMA QuietCleanup ==
    ASSUME IInv,
           (\E t \in Threads : MigrateBegin(t)) \/ CleanupMigrate \/ Cleanup
    PROVE  IInv' /\ HeldSame
<1> USE DEF IInv
<1>1. UNCHANGED quietVars
  BY DEF quietVars, MigrateBegin, CleanupMigrate, Cleanup, requestVars, headVars, plhVars
<1>2. TypeOK'
  BY DEF TypeOK, MigrateBegin, CleanupMigrate, Cleanup, requestVars, headVars, plhVars,
         Goto, Threads, PcValues
<1>3. RequestInv'
  BY LockersAssumption
     DEF TypeOK, RequestInv, ReqInv, MigrateBegin, CleanupMigrate, Cleanup, requestVars,
         Goto, Threads
<1>4. MigrationInv'
  BY LockersAssumption
     DEF TypeOK, MigrationInv, MigrateBegin, CleanupMigrate, Cleanup, headVars, Goto,
         Threads
<1>5. QueueInv'
  BY LockersAssumption
     DEF TypeOK, QueueInv, WillCheckQueue, grantedModes, MigrateBegin, CleanupMigrate,
         Cleanup, headVars, Goto, Threads, BucketFree, InBucket
<1> QED BY <1>1, <1>2, <1>3, <1>4, <1>5, QuietStep

-----------------------------------------------------------------------------
(***************************************************************************)
(* What the invariant says about what is granted                           *)
(***************************************************************************)

\* Updating a function at one point.
LEMMA ExceptType ==
    ASSUME NEW S, NEW T, NEW f \in [S -> T], NEW x \in S, NEW v \in T
    PROVE  /\ [f EXCEPT ![x] = v] \in [S -> T]
           /\ [f EXCEPT ![x] = v][x] = v
           /\ \A y \in S \ {x} : [f EXCEPT ![x] = v][y] = f[y]
OBVIOUS

\* Cardinalities of sets of lockers are numbers.
LEMMA CardNat == \A S \in SUBSET Lockers : IsFiniteSet(S) /\ Cardinality(S) \in Nat
BY LockersAssumption, FS_Subset, FS_CardinalityType

\* The mode of a request is in the mask of the list that it is on.
LEMMA Counted ==
    ASSUME IInv, NEW k \in Lockers, where[k] = "head"
    PROVE  /\ status[k] \in {"granted", "converting"} => mode[k] \in grantedModes
           /\ status[k] = "converting" => convertMode[k] \in grantedModes
           /\ status[k] = "waiting" => mode[k] \in conflictModes
<1> USE DEF IInv
<1>0. /\ mode[k] \in Modes /\ (status[k] = "converting" => convertMode[k] \in Modes)
      /\ \A m \in Modes : HoldersIn(m) \in SUBSET Lockers /\ ConvertersTo(m) \in SUBSET Lockers
                          /\ WaitersIn(m) \in SUBSET Lockers
  BY DEF RequestInv, ReqInv, HoldersIn, ConvertersTo, WaitersIn
<1>1. ASSUME status[k] \in {"granted", "converting"} PROVE mode[k] \in grantedModes
  <2>1. k \in HoldersIn(mode[k])
    BY <1>1, <1>0 DEF HoldersIn, OnHead
  <2>2. Cardinality(HoldersIn(mode[k])) >= 1 /\ Cardinality(ConvertersTo(mode[k])) >= 0
    BY <2>1, <1>0, CardNat, CardAtLeast
  <2>3. grantedCounts[mode[k]] > 0
    BY <2>2, <1>0, CardNat DEF CountsMatch
  <2> QED BY <2>3, <1>0 DEF grantedModes
<1>2. ASSUME status[k] = "converting" PROVE convertMode[k] \in grantedModes
  <2>1. k \in ConvertersTo(convertMode[k]) /\ convertMode[k] \in Modes
    BY <1>2, <1>0 DEF ConvertersTo
  <2>2. /\ Cardinality(HoldersIn(convertMode[k])) >= 0
        /\ Cardinality(ConvertersTo(convertMode[k])) >= 1
    BY <2>1, <1>0, CardNat, CardAtLeast
  <2>3. grantedCounts[convertMode[k]] > 0
    BY <2>1, <2>2, <1>0, CardNat DEF CountsMatch
  <2> QED BY <2>1, <2>3, <1>0 DEF grantedModes
<1>3. ASSUME status[k] = "waiting" PROVE mode[k] \in conflictModes
  <2>1. k \in WaitersIn(mode[k])
    BY <1>3, <1>0 DEF WaitersIn
  <2>2. conflictCounts[mode[k]] > 0
    BY <2>1, <1>0, CardNat, CardAtLeast DEF CountsMatch
  <2> QED BY <2>2, <1>0 DEF conflictModes
<1> QED BY <1>1, <1>2, <1>3

\* The mask of the conflict queue is empty if and only if the queue is.
LEMMA QueueModes ==
    ASSUME IInv
    PROVE  conflictList = <<>> <=> conflictModes = {}
<1> USE DEF IInv
<1>1. ASSUME conflictModes = {} PROVE conflictList = <<>>
  <2>1. Waiters = {}
    BY <1>1, Counted DEF Waiters
  <2>2. Len(conflictList) \in Nat /\ \A i \in 1..Len(conflictList) : FALSE
    BY <2>1 DEF ListsInv, Represents, TypeOK
  <2> QED BY <2>2 DEF TypeOK
<1>2. ASSUME conflictList = <<>>, NEW m \in conflictModes PROVE FALSE
  <2>1. Waiters = {}
    BY <1>2 DEF ListsInv, Represents
  <2>2. m \in Modes /\ WaitersIn(m) = {}
    BY <2>1 DEF WaitersIn, Waiters, conflictModes
  <2>3. conflictCounts[m] = 0
    BY <2>2, FS_EmptySet DEF CountsMatch
  <2> QED BY <2>3, <1>2 DEF conflictModes
<1> QED BY <1>1, <1>2

\* While a request is on a PartitionedLockHead, only intent modes are granted.
LEMMA PartitionHolder ==
    ASSUME IInv, NEW k \in Lockers, where[k] = "partition"
    PROVE  /\ partitions # <<>> /\ grantedModes \subseteq intentModes /\ conflictModes = {}
           /\ status[k] = "granted" /\ mode[k] \in intentModes
<1>1. PartitionOf[k] \in Partitions /\ plhExists[PartitionOf[k]]
  BY PartitionAssumption DEF IInv, PartitionedImpliesIntent
<1>2. partitions # <<>>
  BY <1>1 DEF IInv, PartitionedImpliesIntent
<1> QED BY <1>2 DEF IInv, PartitionedImpliesIntent

\* m conflicts with nothing that a locker other than l holds.
CompatibleMode(l, m) == \A k \in Lockers \ {l} : ~conflicts(m, {HeldMode(k)})

\* A request that passes the check against grantedModes may be granted.
LEMMA GrantedCompatible ==
    ASSUME IInv, partitions = <<>>, NEW l \in Lockers, NEW m \in Modes,
           ~conflicts(m, grantedModes)
    PROVE  CompatibleMode(l, m)
<1> SUFFICES ASSUME NEW k \in Lockers \ {l} PROVE ~conflicts(m, {HeldMode(k)})
  BY DEF CompatibleMode
<1>1. m \in AnyMode
  BY DEF AnyMode
<1>2. CASE HeldMode(k) = NoMode
  BY <1>1, <1>2, NoModeCompatible
<1>3. CASE HeldMode(k) # NoMode
  <2>1. where[k] # "none" /\ status[k] \in {"granted", "converting"} /\ HeldMode(k) = mode[k]
    BY <1>3 DEF HeldMode
  <2>2. where[k] = "head"
    BY <2>1, PartitionHolder DEF IInv, TypeOK
  <2>3. HeldMode(k) \in grantedModes
    BY <2>1, <2>2, Counted
  <2> QED BY <2>3, <1>1, ConflictsMember
<1> QED BY <1>2, <1>3

\* A conversion that passes the check against what the others hold may be granted.
LEMMA ConversionCompatible ==
    ASSUME IInv, NEW l \in Lockers, where[l] = "head", NEW m \in Modes, NEW cm \in AnyMode,
           status[l] \in {"granted", "converting"},
           cm # NoMode => status[l] = "converting" /\ convertMode[l] = cm,
           partitions = <<>> \/ m \in grantedModes,
           ~conflicts(m, GrantedWithout(l, cm))
    PROVE  CompatibleMode(l, m)
<1> SUFFICES ASSUME NEW k \in Lockers \ {l} PROVE ~conflicts(m, {HeldMode(k)})
  BY DEF CompatibleMode
<1>1. m \in AnyMode
  BY DEF AnyMode
<1>2. CASE HeldMode(k) = NoMode
  BY <1>1, <1>2, NoModeCompatible
<1>3. CASE HeldMode(k) # NoMode
  <2>1. /\ where[k] # "none" /\ status[k] \in {"granted", "converting"}
        /\ HeldMode(k) = mode[k] /\ mode[k] \in Modes
    BY <1>3 DEF HeldMode, IInv, RequestInv, ReqInv
  <2>2. CASE where[k] = "head"
    <3> DEFINE n == mode[k]
    <3>1. HoldersIn(n) \in SUBSET Lockers /\ ConvertersTo(n) \in SUBSET Lockers
      BY DEF HoldersIn, ConvertersTo
    <3>2. k \in HoldersIn(n)
      BY <2>1, <2>2 DEF HoldersIn, OnHead
    <3>3. grantedCounts[n] = Cardinality(HoldersIn(n)) + Cardinality(ConvertersTo(n))
      BY <2>1 DEF IInv, CountsMatch
    <3>4. /\ Cardinality(HoldersIn(n)) \in Nat /\ Cardinality(ConvertersTo(n)) \in Nat
          /\ Cardinality(HoldersIn(n)) >= 1
      BY <3>1, <3>2, CardNat, CardAtLeast
    <3>5. ASSUME n \in {mode[l], cm} PROVE grantedCounts[n] > 1
      <4>1. CASE n = mode[l]
        <5>1. l \in HoldersIn(n)
          BY <4>1 DEF HoldersIn, OnHead
        <5>2. Cardinality(HoldersIn(n)) >= 2
          BY <5>1, <3>1, <3>2, CardNat, CardAtLeast
        <5> QED BY <5>2, <3>3, <3>4
      <4>2. CASE n = cm
        <5>1. l \in ConvertersTo(n)
          BY <4>2, <2>1 DEF ConvertersTo, Modes, NoMode
        <5>2. Cardinality(ConvertersTo(n)) >= 1
          BY <5>1, <3>1, CardNat, CardAtLeast
        <5> QED BY <5>2, <3>3, <3>4
      <4> QED BY <3>5, <4>1, <4>2
    <3>6. n \in GrantedWithout(l, cm)
      BY <2>1, <3>3, <3>4, <3>5 DEF GrantedWithout
    <3> HIDE DEF n
    <3> QED BY <2>1, <3>6, <1>1, ConflictsMember DEF n
  <2>3. CASE where[k] = "partition"
    <3>1. mode[k] \in intentModes /\ grantedModes \subseteq intentModes
      BY <2>3, PartitionHolder
    <3>2. m \in intentModes
      BY <2>3, <3>1, PartitionHolder
    <3> QED BY <2>1, <3>1, <3>2, IntentCompatible
  <2> QED BY <2>1, <2>2, <2>3 DEF IInv, TypeOK
<1> QED BY <1>2, <1>3

\* One locker obtains, changes or releases the resource.
HeldChange(l) ==
    /\ \A k \in Lockers \ {l} : HeldMode(k)' = HeldMode(k)
    /\ HeldMode(l)' \in AnyMode
    /\ CompatibleMode(l, HeldMode(l)')

HeldStep == HeldSame \/ \E l \in Lockers : HeldChange(l)

\* When only locker l changes what it holds, to a mode compatible with what the
\* others hold, no two lockers conflict afterwards.
LEMMA CompatibleStep ==
    ASSUME IInv, HeldStep
    PROVE  Compatible'
<1>1. \A k \in Lockers : HeldMode(k) \in AnyMode
  BY DEF HeldMode, IInv, TypeOK, AnyMode
<1>2. CASE HeldSame
  BY <1>2 DEF IInv, Compatible, HeldSame
<1>3. ASSUME NEW l \in Lockers, HeldChange(l) PROVE Compatible'
  <2>1. \A k \in Lockers \ {l} : /\ ~conflicts(HeldMode(l)', {HeldMode(k)'})
                                 /\ ~conflicts(HeldMode(k)', {HeldMode(l)'})
    BY <1>1, <1>3, ConflictsSymmetric DEF HeldChange, CompatibleMode
  <2>2. \A j, k \in Lockers \ {l} : j # k => ~conflicts(HeldMode(j)', {HeldMode(k)'})
    BY <1>3 DEF HeldChange, IInv, Compatible
  <2> QED BY <2>1, <2>2 DEF Compatible
<1> QED BY <1>2, <1>3 DEF HeldStep

\* Neither the request nor the thread of locker k changes.
SameRequest(k) ==
    /\ status'[k] = status[k] /\ where'[k] = where[k] /\ mode'[k] = mode[k]
    /\ convertMode'[k] = convertMode[k] /\ recursiveCount'[k] = recursiveCount[k]
    /\ partitioned'[k] = partitioned[k] /\ pc'[k] = pc[k] /\ want'[k] = want[k]

\* The invariant of a request that a step leaves alone.
LEMMA SameRequestInv ==
    ASSUME IInv, NEW k \in Lockers, SameRequest(k)
    PROVE  ReqInv(k)'
BY DEF SameRequest, IInv, RequestInv, ReqInv

-----------------------------------------------------------------------------
(***************************************************************************)
(* lock                                                                    *)
(***************************************************************************)

\* lockBegin, up to the partition mutex section of LockManager::lock.
LEMMA LockBeginStep ==
    ASSUME IInv, NEW l \in Lockers, NEW m \in RequestModes, LockBegin(l, m)
    PROVE  IInv' /\ HeldStep
<1> DEFINE p == PartitionOf[l]
<1>0. /\ p \in Partitions /\ m \in Modes /\ l \in Threads
      /\ pc[l] = "idle" /\ status[l] = "none" /\ where[l] = "none"
      /\ TypeOK
  BY PartitionAssumption, OptionsAssumption
     DEF LockBegin, IInv, RequestInv, ReqInv, Threads
<1>1. UNCHANGED <<convertMode, headVars, plhExists, want, bucketOwner, scan>>
  BY DEF LockBegin
<1>2. /\ mode' = [mode EXCEPT ![l] = m]
      /\ recursiveCount' = [recursiveCount EXCEPT ![l] = 1]
      /\ partitioned' = [partitioned EXCEPT ![l] = m \in intentModes]
      /\ compatibleFirst' = [compatibleFirst EXCEPT ![l] = GivesPriority(m)]
      /\ notify' = [notify EXCEPT ![l] = "INVALID"]
  BY DEF LockBegin, ClearNotify
<1>3. \/ /\ m \in intentModes /\ plhExists[p]
         /\ status' = [status EXCEPT ![l] = "granted"]
         /\ where' = [where EXCEPT ![l] = "partition"]
         /\ plhList' = [plhList EXCEPT ![p] = Append(@, l)]
         /\ UNCHANGED pc
      \/ /\ status' = [status EXCEPT ![l] = "new"]
         /\ pc' = [pc EXCEPT ![l] = "lock"]
         /\ UNCHANGED <<where, plhList>>
  BY DEF LockBegin, Goto
<1> HIDE DEF p
<1>11. /\ partitioned' \in [Lockers -> BOOLEAN] /\ compatibleFirst' \in [Lockers -> BOOLEAN]
       /\ partitioned'[l] => m \in intentModes
       /\ \A k \in Lockers \ {l} : partitioned'[k] = partitioned[k]
  <2>1. (m \in intentModes) \in BOOLEAN /\ GivesPriority(m) \in BOOLEAN
    BY DEF GivesPriority
  <2>2. partitioned \in [Lockers -> BOOLEAN] /\ compatibleFirst \in [Lockers -> BOOLEAN]
    BY <1>0 DEF TypeOK
  <2> QED BY <1>2, <2>1, <2>2, ExceptType, Zenon
<1>12. /\ status'[l] \in {"granted", "new"} /\ mode'[l] = m /\ recursiveCount'[l] = 1
       /\ pc'[l] \in {"idle", "lock"} /\ (pc'[l] = "lock" => status'[l] = "new")
       /\ (status'[l] = "new" => where'[l] = "none") /\ where'[l] \in {"none", "partition"}
  BY <1>0, <1>2, <1>3 DEF TypeOK
<1>13. ASSUME NEW k \in Lockers \ {l}
       PROVE  /\ status'[k] = status[k] /\ where'[k] = where[k] /\ mode'[k] = mode[k]
              /\ recursiveCount'[k] = recursiveCount[k] /\ pc'[k] = pc[k]
  BY <1>0, <1>2, <1>3 DEF TypeOK, Threads
<1>4. TypeOK'
  <2>2. /\ mode' \in [Lockers -> AnyMode] /\ recursiveCount' \in [Lockers -> Nat]
        /\ notify' \in [Lockers -> {"INVALID", "OK"}]
    BY <1>0, <1>2 DEF TypeOK, AnyMode
  <2>3. /\ status' \in [Lockers -> Statuses] /\ pc' \in [Threads -> PcValues]
        /\ where' \in [Lockers -> {"none", "partition", "head"}]
    BY <1>0, <1>3 DEF TypeOK, Statuses, PcValues
  <2>4. plhList' \in [Partitions -> Seq(Lockers)]
    <3>1. plhList \in [Partitions -> Seq(Lockers)] /\ p \in Partitions
      BY <1>0, PartitionAssumption DEF TypeOK
    <3>2. Append(plhList[p], l) \in Seq(Lockers)
      BY <3>1, AppendProperties
    <3> HIDE DEF p
    <3> QED BY <1>3, <3>1, <3>2
  <2> QED BY <1>0, <1>1, <1>11, <2>2, <2>3, <2>4 DEF TypeOK, headVars
<1>5. CountsMatch'
  <2>1. UNCHANGED <<grantedCounts, conflictCounts, conversionsCount>>
    BY <1>1 DEF headVars
  <2>2. /\ \A n \in Modes : /\ HoldersIn(n)' = HoldersIn(n) /\ WaitersIn(n)' = WaitersIn(n)
                            /\ ConvertersTo(n)' = ConvertersTo(n)
        /\ {k \in Lockers : status[k] = "converting"}' = {k \in Lockers : status[k] = "converting"}
    BY <1>0, <1>1, <1>12, <1>13 DEF HoldersIn, WaitersIn, ConvertersTo, OnHead
  <2> QED BY <2>1, <2>2 DEF IInv, CountsMatch
<1>6. ListsInv'
  <2>1. Holders' = Holders /\ Waiters' = Waiters
    BY <1>0, <1>3 DEF Holders, Waiters, TypeOK
  <2>2. ASSUME NEW q \in Partitions PROVE Represents(plhList[q], InPartition(q))'
    <3>1. Represents(plhList[q], InPartition(q)) /\ plhList[q] \in Seq(Lockers)
      BY DEF IInv, ListsInv, TypeOK
    <3>2. CASE UNCHANGED <<where, plhList>>
      BY <3>1, <3>2 DEF InPartition
    <3>3. CASE where' = [where EXCEPT ![l] = "partition"] /\ plhList' = [plhList EXCEPT ![p] = Append(@, l)]
      <4>1. CASE q = p
        <5>1. InPartition(q)' = InPartition(q) \cup {l} /\ l \notin InPartition(q)
          BY <1>0, <3>3, <4>1 DEF InPartition, TypeOK, p
        <5>2. plhList'[q] = Append(plhList[q], l)
          BY <1>0, <3>3, <4>1 DEF TypeOK
        <5> QED BY <3>1, <5>1, <5>2, AppendRepresents
      <4>2. CASE q # p
        <5>1. InPartition(q)' = InPartition(q)
          BY <1>0, <3>3, <4>2 DEF InPartition, TypeOK, p
        <5>2. plhList'[q] = plhList[q]
          BY <1>0, <3>3, <4>2 DEF TypeOK
        <5> QED BY <3>1, <5>1, <5>2
      <4> QED BY <4>1, <4>2
    <3> QED BY <1>3, <3>2, <3>3
  <2>3. UNCHANGED <<grantedList, conflictList>>
    BY <1>1 DEF headVars
  <2> QED BY <2>1, <2>2, <2>3 DEF IInv, ListsInv
<1>7. PartitionedImpliesIntent'
  <2>1. UNCHANGED <<grantedModes, conflictModes, partitions, plhExists>>
    BY <1>1 DEF headVars, grantedModes, conflictModes
  <2>2. ASSUME NEW k \in Lockers, where'[k] = "partition"
        PROVE  status'[k] = "granted" /\ mode'[k] \in intentModes /\ plhExists'[PartitionOf[k]]
    <3>1. CASE k = l
      BY <1>0, <1>2, <1>3, <2>1, <2>2, <3>1 DEF TypeOK, p
    <3>2. CASE k # l
      BY <1>0, <1>2, <1>3, <2>1, <2>2, <3>2 DEF TypeOK, IInv, PartitionedImpliesIntent
    <3> QED BY <3>1, <3>2
  <2> QED BY <2>1, <2>2 DEF IInv, PartitionedImpliesIntent
<1>8. RequestInv'
  <2> SUFFICES ASSUME NEW k \in Lockers PROVE ReqInv(k)'
    BY DEF RequestInv
  <2>1. CASE k = l
    BY <1>0, <1>1, <1>11, <1>12, <2>1 DEF ReqInv
  <2>2. CASE k # l
    BY <1>1, <1>11, <1>13, <2>2 DEF IInv, RequestInv, ReqInv
  <2> QED BY <2>1, <2>2
<1>9. MigrationInv' /\ QueueInv'
  <2>1. UNCHANGED <<bucketOwner, partitions, conflictList, grantedModes, scan>>
    BY <1>1 DEF headVars, grantedModes
  <2>2. pc'[l] \in {"idle", "lock"} /\ \A t \in Threads \ {l} : pc'[t] = pc[t]
    BY <1>0, <1>3 DEF TypeOK
  <2> QED BY <1>0, <2>1, <2>2 DEF IInv, MigrationInv, QueueInv, WillCheckQueue, TypeOK, Threads
<1>10. HeldStep
  <2>1. \A k \in Lockers \ {l} : HeldMode(k)' = HeldMode(k)
    BY <1>0, <1>2, <1>3 DEF HeldMode, TypeOK
  <2>2. CASE where' = where
    <3>1. HeldSame
      BY <1>0, <2>1, <2>2 DEF HeldSame, HeldMode
    <3> QED BY <3>1 DEF HeldStep
  <2>3. CASE where' # where
    <3>1. HeldMode(l)' = m /\ m \in intentModes /\ plhExists[p]
      BY <1>0, <1>2, <1>3, <2>3 DEF HeldMode, TypeOK
    <3>2. grantedModes \subseteq intentModes
      BY <1>0, <3>1 DEF IInv, PartitionedImpliesIntent
    <3>3. ASSUME NEW k \in Lockers \ {l} PROVE ~conflicts(m, {HeldMode(k)})
      <4>1. HeldMode(k) \in intentModes \/ HeldMode(k) = NoMode
        BY <1>0, <3>2, Counted, PartitionHolder DEF HeldMode, TypeOK
      <4> QED BY <1>0, <4>1, <3>1, IntentCompatible, NoModeCompatible DEF AnyMode
    <3>4. HeldChange(l)
      BY <1>0, <2>1, <3>1, <3>3 DEF HeldChange, CompatibleMode, AnyMode
    <3> QED BY <3>4 DEF HeldStep
  <2> QED BY <2>2, <2>3
<1> QED BY <1>4, <1>5, <1>6, <1>7, <1>8, <1>9, <1>10, CompatibleStep DEF IInv

\* A count that changes at one mode.
LEMMA IncDec ==
    ASSUME NEW counts \in [Modes -> Int], NEW m \in Modes
    PROVE  /\ Inc(counts, m) \in [Modes -> Int] /\ Dec(counts, m) \in [Modes -> Int]
           /\ \A n \in Modes :
                 /\ Inc(counts, m)[n] = counts[n] + (IF n = m THEN 1 ELSE 0)
                 /\ Dec(counts, m)[n] = counts[n] - (IF n = m THEN 1 ELSE 0)
BY DEF Inc, Dec

\* Exact counts are natural numbers.
LEMMA CountsNat ==
    ASSUME CountsMatch', grantedCounts' \in [Modes -> Int], conflictCounts' \in [Modes -> Int]
    PROVE  /\ grantedCounts' \in [Modes -> Nat] /\ conflictCounts' \in [Modes -> Nat]
           /\ conversionsCount' \in Nat
<1>1. ASSUME NEW m \in Modes PROVE grantedCounts'[m] \in Nat /\ conflictCounts'[m] \in Nat
  <2>1. /\ HoldersIn(m)' \in SUBSET Lockers /\ ConvertersTo(m)' \in SUBSET Lockers
        /\ WaitersIn(m)' \in SUBSET Lockers
    BY DEF HoldersIn, ConvertersTo, WaitersIn
  <2>2. /\ Cardinality(HoldersIn(m)') \in Nat /\ Cardinality(ConvertersTo(m)') \in Nat
        /\ Cardinality(WaitersIn(m)') \in Nat
    BY <2>1, CardNat
  <2>3. /\ grantedCounts'[m] = Cardinality(HoldersIn(m)') + Cardinality(ConvertersTo(m)')
        /\ conflictCounts'[m] = Cardinality(WaitersIn(m)')
    BY DEF CountsMatch
  <2> QED BY <2>2, <2>3
<1>2. conversionsCount' \in Nat
  BY CardNat DEF CountsMatch
<1> QED BY <1>1, <1>2

\* compatibleFirstCount stays a uint32_t.
LEMMA PolicyType ==
    ASSUME TypeOK, NEW r \in Lockers
    PROVE  PolicyAcquired(r) \in Nat /\ PolicyReleased(r) \in Nat
<1>1. CountModulus \in Nat /\ CountModulus > 0
  <2>1. Cardinality(Lockers) \in Nat
    BY CardNat
  <2> QED BY <2>1, OptionsAssumption
<1>2. \A a \in Int : a % CountModulus \in Nat
  BY <1>1
<1>3. /\ compatibleFirstCount \in Nat
      /\ compatibleFirstCount + 1 \in Int /\ compatibleFirstCount - 1 \in Int
  BY DEF TypeOK
<1>4. PolicyAcquired(r) \in Nat
  BY <1>2, <1>3 DEF PolicyAcquired
<1>5. PolicyReleased(r) \in Nat
  BY <1>2, <1>3 DEF PolicyReleased
<1> QED BY <1>4, <1>5

\* newRequest puts the request on the granted list or on the conflict queue.
LEMMA NewRequestStep ==
    ASSUME IInv, NEW r \in Lockers, where[r] # "head", status[r] \in {"new", "granted"},
           mode[r] \in Modes, NewRequest(r),
           UNCHANGED <<mode, convertMode, conversionsCount, compatibleFirst>>
    PROVE  /\ status' \in [Lockers -> Statuses]
           /\ where' \in [Lockers -> {"none", "partition", "head"}]
           /\ grantedList' \in Seq(Lockers) /\ conflictList' \in Seq(Lockers)
           /\ grantedCounts' \in [Modes -> Nat] /\ conflictCounts' \in [Modes -> Nat]
           /\ compatibleFirstCount' \in Nat
           /\ CountsMatch'
           /\ Represents(grantedList, Holders)' /\ Represents(conflictList, Waiters)'
           /\ OnlyRequest(r) /\ where'[r] = "head"
           /\ \/ /\ MustWait(r) /\ status'[r] = "waiting" /\ grantedModes' = grantedModes
              \/ /\ ~MustWait(r) /\ status'[r] = "granted"
                 /\ grantedModes' = grantedModes \cup {mode[r]}
                 /\ conflictModes' = conflictModes /\ conflictList' = conflictList
<1>0. /\ TypeOK /\ Represents(grantedList, Holders) /\ Represents(conflictList, Waiters)
      /\ r \notin Holders /\ r \notin Waiters
      /\ grantedCounts \in [Modes -> Int] /\ conflictCounts \in [Modes -> Int]
      /\ conversionsCount \in Int /\ CountsMatch
  BY DEF IInv, TypeOK, ListsInv, Holders, Waiters
<1>1. /\ where' = [where EXCEPT ![r] = "head"]
      /\ \/ status' = [status EXCEPT ![r] = "waiting"]
         \/ status' = [status EXCEPT ![r] = "granted"]
  BY DEF NewRequest
<1>2. /\ status' \in [Lockers -> Statuses] /\ where' \in [Lockers -> {"none", "partition", "head"}]
      /\ where'[r] = "head"
      /\ \A k \in Lockers \ {r} : status'[k] = status[k] /\ where'[k] = where[k]
  BY <1>0, <1>1 DEF TypeOK, Statuses
<1>3. OnlyRequest(r)
  BY <1>2 DEF OnlyRequest
<1>4. CASE MustWait(r)
  <2>1. /\ status' = [status EXCEPT ![r] = "waiting"]
        /\ conflictList' = IF compatibleFirst[r] THEN Cons(r, conflictList)
                                                 ELSE Append(conflictList, r)
        /\ conflictCounts' = Inc(conflictCounts, mode[r])
        /\ UNCHANGED <<grantedList, grantedCounts, compatibleFirstCount>>
    BY <1>4 DEF NewRequest
  <2>2. status'[r] = "waiting" /\ grantedModes' = grantedModes
    BY <1>0, <2>1 DEF TypeOK, grantedModes
  <2>3. Holders' = Holders /\ Waiters' = Waiters \cup {r}
    BY <1>0, <1>2, <2>2 DEF Holders, Waiters
  <2>4. /\ Cons(r, conflictList) \in Seq(Lockers) /\ Append(conflictList, r) \in Seq(Lockers)
        /\ Represents(Cons(r, conflictList), Waiters \cup {r})
        /\ Represents(Append(conflictList, r), Waiters \cup {r})
    BY <1>0, ConsRepresents, AppendRepresents DEF TypeOK
  <2>5. conflictList' \in Seq(Lockers) /\ Represents(conflictList', Waiters')
    BY <2>1, <2>3, <2>4
  <2>6. /\ conflictCounts' \in [Modes -> Int]
        /\ \A n \in Modes : conflictCounts'[n] = conflictCounts[n] + (IF n = mode[r] THEN 1 ELSE 0)
    BY <1>0, <2>1, IncDec
  <2>7. CountsMatch'
    <3>1. \A n \in Modes :
             /\ grantedCounts'[n] = grantedCounts[n] /\ grantedCounts[n] \in Int
             /\ ~IsHolder(r, n) /\ ~IsHolder(r, n)' /\ ~IsConverter(r, n) /\ ~IsConverter(r, n)'
             /\ ~IsWaiter(r, n) /\ (IsWaiter(r, n)' <=> n = mode[r])
      BY <1>0, <1>2, <2>1, <2>2 DEF IsHolder, IsConverter, IsWaiter
    <3>2. conversionsCount' = conversionsCount /\ status[r] # "converting" /\ status'[r] # "converting"
      BY <2>2
    <3>3. \A n \in Modes : conflictCounts[n] \in Int
      BY <1>0
    <3> QED BY <1>0, <1>3, <2>6, <3>1, <3>2, <3>3, CountsStep
  <2>8. grantedCounts' \in [Modes -> Nat] /\ conflictCounts' \in [Modes -> Nat]
    BY <1>0, <2>1, <2>6, <2>7, CountsNat
  <2>9. grantedList' \in Seq(Lockers) /\ compatibleFirstCount' \in Nat
    BY <1>0, <2>1 DEF TypeOK
  <2> QED BY <1>0, <1>2, <1>3, <1>4, <2>1, <2>2, <2>3, <2>5, <2>7, <2>8, <2>9
<1>5. CASE ~MustWait(r)
  <2>1. /\ status' = [status EXCEPT ![r] = "granted"]
        /\ grantedList' = Append(grantedList, r)
        /\ grantedCounts' = Inc(grantedCounts, mode[r])
        /\ compatibleFirstCount' = PolicyAcquired(r)
        /\ UNCHANGED <<conflictList, conflictCounts>>
    BY <1>5 DEF NewRequest
  <2>2. status'[r] = "granted" /\ conflictModes' = conflictModes
    BY <1>0, <2>1 DEF TypeOK, conflictModes
  <2>3. Waiters' = Waiters /\ Holders' = Holders \cup {r}
    BY <1>0, <1>2, <2>2 DEF Holders, Waiters
  <2>4. grantedList' \in Seq(Lockers) /\ Represents(grantedList', Holders')
    BY <1>0, <2>1, <2>3, AppendRepresents DEF TypeOK
  <2>6. /\ grantedCounts' \in [Modes -> Int]
        /\ \A n \in Modes : grantedCounts'[n] = grantedCounts[n] + (IF n = mode[r] THEN 1 ELSE 0)
    BY <1>0, <2>1, IncDec
  <2>5. grantedModes' = grantedModes \cup {mode[r]}
    BY <1>0, <2>6 DEF grantedModes, TypeOK
  <2>7. CountsMatch'
    <3>1. \A n \in Modes :
             /\ conflictCounts'[n] = conflictCounts[n] /\ conflictCounts[n] \in Int
             /\ ~IsWaiter(r, n) /\ ~IsWaiter(r, n)' /\ ~IsConverter(r, n) /\ ~IsConverter(r, n)'
             /\ ~IsHolder(r, n) /\ (IsHolder(r, n)' <=> n = mode[r])
      BY <1>0, <1>2, <2>1, <2>2 DEF IsHolder, IsConverter, IsWaiter
    <3>2. conversionsCount' = conversionsCount /\ status[r] # "converting" /\ status'[r] # "converting"
      BY <2>2
    <3>3. \A n \in Modes : grantedCounts[n] \in Int
      BY <1>0
    <3> QED BY <1>0, <1>3, <2>6, <3>1, <3>2, <3>3, CountsStep
  <2>8. grantedCounts' \in [Modes -> Nat] /\ conflictCounts' \in [Modes -> Nat]
    BY <1>0, <2>1, <2>6, <2>7, CountsNat
  <2>9. conflictList' \in Seq(Lockers) /\ compatibleFirstCount' \in Nat
    BY <1>0, <2>1, PolicyType DEF TypeOK
  <2> QED BY <1>0, <1>2, <1>3, <1>5, <2>1, <2>2, <2>3, <2>4, <2>5, <2>7, <2>8, <2>9
<1> QED BY <1>4, <1>5

\* LockManager::lock on a LockHead that is not (or no longer) partitioned.
LEMMA LockNewRequestStep ==
    ASSUME IInv, NEW l \in Lockers, LockNewRequest(l)
    PROVE  IInv' /\ HeldStep
<1>0. /\ TypeOK /\ l \in Threads /\ status[l] = "new" /\ where[l] = "none" /\ mode[l] \in Modes
      /\ pc[l] = "lock" /\ bucketOwner \in {NoOwner, l} /\ partitions = <<>>
  BY DEF LockNewRequest, InBucket, IInv, RequestInv, ReqInv, Threads
<1>1. /\ UNCHANGED <<mode, convertMode, recursiveCount, compatibleFirst,
                     partitions, conversionsCount, plhVars, want, scan, notify>>
      /\ headExists' = TRUE /\ bucketOwner' = NoOwner
      /\ partitioned' = [partitioned EXCEPT ![l] = FALSE]
      /\ \/ MustWait(l) /\ pc' = [pc EXCEPT ![l] = "waiting"]
         \/ ~MustWait(l) /\ pc' = [pc EXCEPT ![l] = "idle"]
      /\ NewRequest(l)
  BY DEF LockNewRequest, Goto
<1>2. /\ status' \in [Lockers -> Statuses]
      /\ where' \in [Lockers -> {"none", "partition", "head"}]
      /\ grantedList' \in Seq(Lockers) /\ conflictList' \in Seq(Lockers)
      /\ grantedCounts' \in [Modes -> Nat] /\ conflictCounts' \in [Modes -> Nat]
      /\ compatibleFirstCount' \in Nat
      /\ CountsMatch'
      /\ Represents(grantedList, Holders)' /\ Represents(conflictList, Waiters)'
      /\ OnlyRequest(l) /\ where'[l] = "head"
  BY <1>0, <1>1, NewRequestStep
<1>3. \/ /\ MustWait(l) /\ status'[l] = "waiting" /\ grantedModes' = grantedModes
      \/ /\ ~MustWait(l) /\ status'[l] = "granted"
         /\ grantedModes' = grantedModes \cup {mode[l]}
         /\ conflictModes' = conflictModes /\ conflictList' = conflictList
  BY <1>0, <1>1, NewRequestStep
<1>4. /\ pc'[l] = (IF MustWait(l) THEN "waiting" ELSE "idle")
      /\ \A k \in Threads \ {l} : pc'[k] = pc[k]
      /\ pc' \in [Threads -> PcValues]
  BY <1>0, <1>1 DEF TypeOK, PcValues
<1>5. /\ partitioned' \in [Lockers -> BOOLEAN]
      /\ \A k \in Lockers \ {l} : partitioned'[k] = partitioned[k]
  BY <1>0, <1>1 DEF TypeOK
<1>6. TypeOK'
  BY <1>0, <1>1, <1>2, <1>4, <1>5 DEF TypeOK, plhVars
<1>7. ListsInv'
  <2>1. ASSUME NEW q \in Partitions PROVE Represents(plhList[q], InPartition(q))'
    <3>1. InPartition(q)' = InPartition(q) /\ plhList'[q] = plhList[q]
      BY <1>0, <1>1, <1>2 DEF InPartition, OnlyRequest, plhVars
    <3> QED BY <3>1 DEF IInv, ListsInv
  <2> QED BY <2>1, <1>2 DEF ListsInv
<1>8. PartitionedImpliesIntent'
  <2>1. \A k \in Lockers : where'[k] # "partition"
    BY <1>0, <1>2, PartitionHolder DEF OnlyRequest
  <2> QED BY <1>0, <1>1, <2>1 DEF IInv, PartitionedImpliesIntent, plhVars
<1>9. RequestInv'
  <2> SUFFICES ASSUME NEW k \in Lockers PROVE ReqInv(k)'
    BY DEF RequestInv
  <2>1. CASE k = l
    BY <1>0, <1>1, <1>2, <1>3, <1>4, <2>1 DEF IInv, RequestInv, ReqInv
  <2>2. CASE k # l
    <3>1. SameRequest(k)
      BY <1>1, <1>2, <1>4, <1>5, <2>2 DEF OnlyRequest, Threads, SameRequest
    <3> QED BY <3>1, SameRequestInv
  <2> QED BY <2>1, <2>2
<1>10. MigrationInv'
  BY <1>1 DEF MigrationInv
<1>11. QueueInv'
  <2>1. ASSUME MustWait(l) PROVE grantedModes # {}
    <3>1. CASE conflicts(mode[l], grantedModes)
      BY <3>1 DEF conflicts
    <3>2. CASE conflicts(mode[l], conflictModes)
      <4>1. conflictList # <<>>
        BY <3>2, QueueModes DEF conflicts
      <4>2. ~WillCheckQueue
        BY <1>0, LockersAssumption DEF WillCheckQueue
      <4> QED BY <4>1, <4>2 DEF IInv, QueueInv
    <3> QED BY <2>1, <3>1, <3>2 DEF MustWait
  <2> QED BY <1>3, <2>1 DEF QueueInv
<1>12. HeldStep
  <2>1. \A k \in Lockers \ {l} : HeldMode(k)' = HeldMode(k)
    BY <1>2 DEF HeldMode, OnlyRequest
  <2>2. CASE MustWait(l)
    <3>1. HeldSame
      BY <1>0, <1>3, <2>1, <2>2 DEF HeldSame, HeldMode
    <3> QED BY <3>1 DEF HeldStep
  <2>3. CASE ~MustWait(l)
    <3>1. HeldMode(l)' = mode[l]
      BY <1>1, <1>2, <1>3, <2>3 DEF HeldMode
    <3>2. CompatibleMode(l, mode[l])
      BY <1>0, <2>3, GrantedCompatible DEF MustWait
    <3>3. HeldChange(l)
      BY <1>0, <2>1, <3>1, <3>2 DEF HeldChange, AnyMode
    <3> QED BY <3>3 DEF HeldStep
  <2> QED BY <2>2, <2>3
<1> QED BY <1>2, <1>6, <1>7, <1>8, <1>9, <1>10, <1>11, <1>12, CompatibleStep DEF IInv

\* LockManager::lock starts or joins a PartitionedLockHead: everything granted is
\* an intent mode, so nothing conflicts with the new request.
LEMMA LockStartPartitionStep ==
    ASSUME IInv, NEW l \in Lockers, LockStartPartition(l)
    PROVE  IInv' /\ HeldStep
<1> DEFINE p == PartitionOf[l]
<1>0. /\ TypeOK /\ l \in Threads /\ status[l] = "new" /\ where[l] = "none" /\ mode[l] \in Modes
      /\ pc[l] = "lock" /\ bucketOwner \in {NoOwner, l} /\ p \in Partitions
      /\ mode[l] \in intentModes /\ grantedModes \subseteq intentModes /\ conflictModes = {}
      /\ recursiveCount[l] \in Nat
  BY PartitionAssumption
     DEF LockStartPartition, CanPartition, InBucket, IInv, RequestInv, ReqInv, Threads, TypeOK
<1>1. /\ UNCHANGED <<mode, convertMode, recursiveCount, partitioned, compatibleFirst,
                     grantedList, grantedCounts, conflictList, conflictCounts,
                     conversionsCount, compatibleFirstCount, want, scan, notify>>
      /\ headExists' = TRUE /\ bucketOwner' = NoOwner
      /\ plhExists' = [plhExists EXCEPT ![p] = TRUE]
      /\ plhList' = [plhList EXCEPT ![p] = Append(@, l)]
      /\ partitions' = Append(partitions, p)
      /\ status' = [status EXCEPT ![l] = "granted"]
      /\ where' = [where EXCEPT ![l] = "partition"]
      /\ pc' = [pc EXCEPT ![l] = "idle"]
  BY DEF LockStartPartition, Goto
<1> HIDE DEF p
<1>2. /\ status' \in [Lockers -> Statuses] /\ status'[l] = "granted"
      /\ where' \in [Lockers -> {"none", "partition", "head"}] /\ where'[l] = "partition"
      /\ \A k \in Lockers \ {l} : status'[k] = status[k] /\ where'[k] = where[k]
  BY <1>0, <1>1 DEF TypeOK, Statuses
<1>3. /\ pc' \in [Threads -> PcValues] /\ pc'[l] = "idle"
      /\ \A k \in Threads \ {l} : pc'[k] = pc[k]
  BY <1>0, <1>1 DEF TypeOK, PcValues
<1>4. /\ plhExists' \in [Partitions -> BOOLEAN] /\ plhExists'[p]
      /\ \A q \in Partitions \ {p} : plhExists'[q] = plhExists[q]
  BY <1>0, <1>1 DEF TypeOK
<1>5. /\ plhList' \in [Partitions -> Seq(Lockers)]
      /\ plhList'[p] = Append(plhList[p], l)
      /\ \A q \in Partitions \ {p} : plhList'[q] = plhList[q]
  <2>1. plhList \in [Partitions -> Seq(Lockers)] /\ Append(plhList[p], l) \in Seq(Lockers)
    BY <1>0, AppendProperties DEF TypeOK
  <2> QED BY <1>0, <1>1, <2>1
<1>6. /\ partitions' \in Seq(Partitions) /\ partitions' # <<>>
      /\ Len(partitions) \in Nat /\ Len(partitions') = Len(partitions) + 1
      /\ partitions'[Len(partitions) + 1] = p
      /\ \A i \in 1..Len(partitions) : partitions'[i] = partitions[i]
      /\ DOMAIN partitions = 1..Len(partitions) /\ DOMAIN partitions' = 1..Len(partitions')
  <2>1. partitions \in Seq(Partitions)
    BY <1>0 DEF TypeOK
  <2> QED BY <1>0, <1>1, <2>1
<1>7. TypeOK'
  BY <1>0, <1>1, <1>2, <1>3, <1>4, <1>5, <1>6 DEF TypeOK
<1>8. CountsMatch'
  <2>1. /\ \A n \in Modes : /\ HoldersIn(n)' = HoldersIn(n) /\ WaitersIn(n)' = WaitersIn(n)
                            /\ ConvertersTo(n)' = ConvertersTo(n)
        /\ {k \in Lockers : status[k] = "converting"}' = {k \in Lockers : status[k] = "converting"}
    BY <1>0, <1>1, <1>2 DEF HoldersIn, WaitersIn, ConvertersTo, OnHead
  <2> QED BY <1>1, <2>1 DEF IInv, CountsMatch
<1>9. ListsInv'
  <2>1. Holders' = Holders /\ Waiters' = Waiters
    BY <1>0, <1>2 DEF Holders, Waiters
  <2>2. ASSUME NEW q \in Partitions PROVE Represents(plhList[q], InPartition(q))'
    <3>1. Represents(plhList[q], InPartition(q)) /\ plhList[q] \in Seq(Lockers)
      BY DEF IInv, ListsInv, TypeOK
    <3>2. CASE q = p
      <4>1. InPartition(q)' = InPartition(q) \cup {l} /\ l \notin InPartition(q)
        BY <1>0, <1>2, <3>2 DEF InPartition, p
      <4>2. plhList'[q] = Append(plhList[q], l)
        BY <1>5, <3>2
      <4> QED BY <3>1, <4>1, <4>2, AppendRepresents
    <3>3. CASE q # p
      <4>1. InPartition(q)' = InPartition(q)
        BY <1>0, <1>2, <3>3 DEF InPartition, p
      <4> QED BY <1>5, <3>1, <3>3, <4>1
    <3> QED BY <3>2, <3>3
  <2> QED BY <1>1, <2>1, <2>2 DEF IInv, ListsInv
<1>10. PartitionedImpliesIntent'
  <2>1. UNCHANGED <<grantedModes, conflictModes>>
    BY <1>1 DEF grantedModes, conflictModes
  <2>2. ASSUME NEW q \in Partitions, plhExists'[q]
        PROVE  \E i \in DOMAIN partitions' : partitions'[i] = q
    <3>1. CASE q = p
      BY <1>6, <3>1
    <3>2. CASE q # p
      <4>1. PICK i \in DOMAIN partitions : partitions[i] = q
        BY <1>4, <2>2, <3>2 DEF IInv, PartitionedImpliesIntent
      <4> QED BY <1>6, <4>1
    <3> QED BY <3>1, <3>2
  <2>3. ASSUME NEW k \in Lockers, where'[k] = "partition"
        PROVE  status'[k] = "granted" /\ mode'[k] \in intentModes /\ plhExists'[PartitionOf[k]]
    <3>1. CASE k = l
      BY <1>0, <1>1, <1>2, <1>4, <3>1 DEF p
    <3>2. CASE k # l
      <4>1. PartitionOf[k] \in Partitions
        BY PartitionAssumption
      <4> QED BY <1>1, <1>2, <1>4, <2>3, <3>2, <4>1 DEF IInv, PartitionedImpliesIntent
    <3> QED BY <3>1, <3>2
  <2> QED BY <1>0, <2>1, <2>2, <2>3 DEF PartitionedImpliesIntent
<1>11. RequestInv'
  <2> SUFFICES ASSUME NEW k \in Lockers PROVE ReqInv(k)'
    BY DEF RequestInv
  <2>1. CASE k = l
    BY <1>0, <1>1, <1>2, <1>3, <2>1 DEF IInv, RequestInv, ReqInv
  <2>2. CASE k # l
    <3>1. SameRequest(k)
      BY <1>1, <1>2, <1>3, <2>2 DEF Threads, SameRequest
    <3> QED BY <3>1, SameRequestInv
  <2> QED BY <2>1, <2>2
<1>12. MigrationInv' /\ QueueInv'
  <2>1. conflictList' = <<>>
    BY <1>0, <1>1, QueueModes
  <2> QED BY <1>1, <2>1 DEF MigrationInv, QueueInv
<1>13. HeldStep
  <2>1. \A k \in Lockers \ {l} : HeldMode(k)' = HeldMode(k)
    BY <1>1, <1>2 DEF HeldMode
  <2>2. HeldMode(l)' = mode[l]
    BY <1>1, <1>2 DEF HeldMode
  <2>3. ASSUME NEW k \in Lockers \ {l} PROVE ~conflicts(mode[l], {HeldMode(k)})
    <3>1. HeldMode(k) \in intentModes \/ HeldMode(k) = NoMode
      BY <1>0, Counted, PartitionHolder DEF HeldMode, TypeOK
    <3> QED BY <1>0, <3>1, IntentCompatible, NoModeCompatible DEF AnyMode
  <2>4. HeldChange(l)
    BY <1>0, <2>1, <2>2, <2>3 DEF HeldChange, CompatibleMode, AnyMode
  <2> QED BY <2>4 DEF HeldStep
<1> QED BY <1>7, <1>8, <1>9, <1>10, <1>11, <1>12, <1>13, CompatibleStep DEF IInv

-----------------------------------------------------------------------------
(***************************************************************************)
(* migratePartitionedLockHeads                                             *)
(***************************************************************************)

\* A list without its last element.
LEMMA PrefixType ==
    ASSUME NEW S, NEW s \in Seq(S), NEW i \in 1..Len(s)
    PROVE  /\ SubSeq(s, 1, i - 1) \in Seq(S) /\ Len(SubSeq(s, 1, i - 1)) = i - 1
           /\ \A j \in 1..(i - 1) : SubSeq(s, 1, i - 1)[j] = s[j]
OBVIOUS

\* The partition that is being migrated.
LEMMA LastPartition ==
    ASSUME IInv, NEW t \in Threads, pc[t] = "moving", bucketOwner = t
    PROVE  /\ partitions # <<>> /\ Len(partitions) \in Nat \ {0}
           /\ Last(partitions) = partitions[Len(partitions)] /\ Last(partitions) \in Partitions
           /\ Front(partitions) \in Seq(Partitions)
           /\ Len(Front(partitions)) = Len(partitions) - 1
           /\ \A i \in 1..(Len(partitions) - 1) : Front(partitions)[i] = partitions[i]
<1>1. partitions # <<>> /\ partitions \in Seq(Partitions)
  BY LockersAssumption DEF IInv, MigrationInv, Threads, TypeOK
<1>2. Len(partitions) \in Nat \ {0} /\ partitions[Len(partitions)] \in Partitions
  BY <1>1
<1>3. /\ Front(partitions) \in Seq(Partitions)
      /\ Len(Front(partitions)) = Len(partitions) - 1
      /\ \A i \in 1..(Len(partitions) - 1) : Front(partitions)[i] = partitions[i]
  <2>1. Len(partitions) \in 1..Len(partitions)
    BY <1>2
  <2> QED BY <1>1, <2>1, PrefixType, Zenon DEF Front
<1> QED BY <1>1, <1>2, <1>3 DEF Last

\* A migrated request keeps its mode and stays granted (LockHead::newRequest).
LEMMA MigrateMoveStep ==
    ASSUME IInv, NEW t \in Threads, MigrateMove(t)
    PROVE  IInv' /\ HeldStep
<1> DEFINE p == Last(partitions)
           r == Head(plhList[p])
<1>0. TypeOK /\ pc[t] = "moving" /\ bucketOwner = t /\ plhExists[p] /\ plhList[p] # <<>>
  BY DEF IInv, MigrateMove
<1>1. p \in Partitions /\ partitions # <<>>
  BY <1>0, LastPartition
<1>2. /\ plhList' = [plhList EXCEPT ![p] = Tail(@)]
      /\ NewRequest(r)
      /\ UNCHANGED <<mode, convertMode, recursiveCount, partitioned,
                     compatibleFirst, headExists, partitions,
                     conversionsCount, plhExists, threadVars>>
  BY DEF MigrateMove
<1>3. plhList[p] \in Seq(Lockers) /\ Represents(plhList[p], InPartition(p))
  BY <1>0, <1>1 DEF TypeOK, IInv, ListsInv
<1> HIDE DEF p
<1>4. /\ r \in InPartition(p) /\ r \in Lockers /\ Tail(plhList[p]) \in Seq(Lockers)
      /\ Represents(Tail(plhList[p]), InPartition(p) \ {r})
  BY <1>0, <1>3, TailRepresents
<1> HIDE DEF r
<1>5. where[r] = "partition" /\ PartitionOf[r] = p
  BY <1>4 DEF InPartition
<1>6. /\ status[r] = "granted" /\ mode[r] \in intentModes /\ mode[r] \in Modes
      /\ grantedModes \subseteq intentModes /\ conflictModes = {}
  BY <1>4, <1>5, PartitionHolder DEF intentModes, Modes
<1>7. ~MustWait(r)
  BY <1>6, IntentCompatible DEF MustWait, conflicts
<1>8. /\ status' \in [Lockers -> Statuses]
      /\ where' \in [Lockers -> {"none", "partition", "head"}]
      /\ grantedList' \in Seq(Lockers) /\ conflictList' \in Seq(Lockers)
      /\ grantedCounts' \in [Modes -> Nat] /\ conflictCounts' \in [Modes -> Nat]
      /\ compatibleFirstCount' \in Nat
      /\ CountsMatch'
      /\ Represents(grantedList, Holders)' /\ Represents(conflictList, Waiters)'
      /\ OnlyRequest(r) /\ where'[r] = "head"
      /\ status'[r] = "granted" /\ grantedModes' = grantedModes \cup {mode[r]}
      /\ conflictModes' = conflictModes /\ conflictList' = conflictList
  BY <1>2, <1>4, <1>5, <1>6, <1>7, NewRequestStep
<1>9. /\ plhList' \in [Partitions -> Seq(Lockers)] /\ plhList'[p] = Tail(plhList[p])
      /\ \A q \in Partitions \ {p} : plhList'[q] = plhList[q]
  BY <1>0, <1>1, <1>2, <1>4 DEF TypeOK
<1>10. TypeOK'
  BY <1>0, <1>2, <1>8, <1>9 DEF TypeOK, threadVars
<1>11. ListsInv'
  <2>1. ASSUME NEW q \in Partitions PROVE Represents(plhList[q], InPartition(q))'
    <3>1. CASE q = p
      <4>1. InPartition(q)' = InPartition(p) \ {r}
        BY <1>4, <1>5, <1>8, <3>1 DEF InPartition, OnlyRequest
      <4> QED BY <1>4, <1>9, <3>1, <4>1
    <3>2. CASE q # p
      <4>1. InPartition(q)' = InPartition(q) /\ plhList'[q] = plhList[q]
        BY <1>4, <1>5, <1>8, <1>9, <3>2 DEF InPartition, OnlyRequest
      <4> QED BY <4>1 DEF IInv, ListsInv
    <3> QED BY <3>1, <3>2
  <2> QED BY <2>1, <1>8 DEF ListsInv
<1>12. PartitionedImpliesIntent'
  BY <1>2, <1>6, <1>8 DEF IInv, PartitionedImpliesIntent, OnlyRequest
<1>13. RequestInv'
  <2> SUFFICES ASSUME NEW k \in Lockers PROVE ReqInv(k)'
    BY DEF RequestInv
  <2>1. CASE k = r
    BY <1>2, <1>5, <1>6, <1>8, <2>1 DEF IInv, RequestInv, ReqInv, threadVars
  <2>2. CASE k # r
    <3>1. SameRequest(k)
      BY <1>2, <1>8, <2>2 DEF OnlyRequest, threadVars, SameRequest
    <3> QED BY <3>1, SameRequestInv
  <2> QED BY <2>1, <2>2
<1>14. MigrationInv' /\ QueueInv'
  BY <1>1, <1>2, <1>8 DEF MigrationInv, QueueInv
<1>15. HeldSame
  BY <1>2, <1>5, <1>6, <1>8 DEF HeldSame, HeldMode, OnlyRequest
<1> QED BY <1>8, <1>10, <1>11, <1>12, <1>13, <1>14, <1>15, CompatibleStep
        DEF IInv, HeldStep

\* The emptied PartitionedLockHead is deleted and its partition popped.
LEMMA MigrateEndStep ==
    ASSUME IInv, NEW t \in Threads, MigrateEnd(t)
    PROVE  IInv' /\ HeldStep
<1> DEFINE p == Last(partitions)
<1>0. TypeOK /\ pc[t] = "moving" /\ bucketOwner = t /\ (plhExists[p] => plhList[p] = <<>>)
  BY DEF IInv, MigrateEnd
<1>1. /\ p \in Partitions /\ Len(partitions) \in Nat \ {0}
      /\ p = partitions[Len(partitions)] /\ Front(partitions) \in Seq(Partitions)
      /\ Len(Front(partitions)) = Len(partitions) - 1
      /\ \A i \in 1..(Len(partitions) - 1) : Front(partitions)[i] = partitions[i]
      /\ partitions # <<>>
  BY <1>0, LastPartition
<1>2. /\ plhExists' = [plhExists EXCEPT ![p] = FALSE]
      /\ partitions' = Front(partitions)
      /\ \E x \in {"cleanup", "lock", "convert", "migrate"} :
            /\ pc' = [pc EXCEPT ![t] = x]
            /\ x = "migrate" => Len(partitions) > 1
            /\ t \in Lockers /\ x # "migrate" =>
                  x = IF status[t] = "new" THEN "lock" ELSE "convert"
      /\ UNCHANGED <<requestVars, grantedList, grantedCounts, conflictList, conflictCounts,
                     conversionsCount, plhList, bucketOwner, scan, want>>
      /\ UNCHANGED <<headExists, compatibleFirstCount, notify>>
  BY LockersAssumption DEF MigrateEnd, Goto, InterruptedCall
<1> HIDE DEF p
<1>3. \A k \in Lockers : where[k] = "partition" => PartitionOf[k] # p
  <2> SUFFICES ASSUME NEW k \in Lockers, where[k] = "partition", PartitionOf[k] = p
               PROVE  FALSE
    OBVIOUS
  <2>1. plhExists[p] /\ k \in InPartition(p)
    BY DEF IInv, PartitionedImpliesIntent, InPartition
  <2>2. Represents(<<>>, InPartition(p))
    BY <1>0, <1>1, <2>1 DEF IInv, ListsInv
  <2> QED BY <2>1, <2>2 DEF Represents
<1>4. /\ plhExists' \in [Partitions -> BOOLEAN] /\ ~plhExists'[p]
      /\ \A q \in Partitions \ {p} : plhExists'[q] = plhExists[q]
  BY <1>0, <1>1, <1>2 DEF TypeOK
<1>5. /\ pc' \in [Threads -> PcValues] /\ \A k \in Threads \ {t} : pc'[k] = pc[k]
      /\ pc'[t] \in {"cleanup", "lock", "convert", "migrate"}
      /\ pc'[t] = "migrate" => Len(partitions) > 1
      /\ t \in Lockers /\ pc'[t] # "migrate" =>
            pc'[t] = IF status[t] = "new" THEN "lock" ELSE "convert"
  BY <1>0, <1>2 DEF TypeOK, PcValues
<1>6. TypeOK'
  BY <1>0, <1>1, <1>2, <1>4, <1>5 DEF TypeOK, requestVars
<1>7. CountsMatch'
  BY <1>2 DEF IInv, CountsMatch, HoldersIn, ConvertersTo, WaitersIn, OnHead, requestVars
<1>8. ListsInv'
  BY <1>2 DEF IInv, ListsInv, Holders, Waiters, InPartition, requestVars
<1>9. PartitionedImpliesIntent'
  <2>1. UNCHANGED <<grantedModes, conflictModes>>
    BY <1>2 DEF grantedModes, conflictModes
  <2>2. grantedModes \subseteq intentModes /\ conflictModes = {}
    BY <1>1 DEF IInv, PartitionedImpliesIntent
  <2>3. ASSUME NEW q \in Partitions, plhExists'[q]
        PROVE  \E i \in DOMAIN partitions' : partitions'[i] = q
    <3>1. q # p /\ plhExists[q]
      BY <1>4, <2>3
    <3>2. PICK i \in DOMAIN partitions : partitions[i] = q
      BY <3>1 DEF IInv, PartitionedImpliesIntent
    <3>3. i \in 1..(Len(partitions) - 1)
      BY <1>0, <1>1, <3>1, <3>2 DEF TypeOK
    <3>4. i \in DOMAIN Front(partitions) /\ Front(partitions)[i] = q
      BY <1>1, <3>2, <3>3
    <3> QED BY <1>2, <3>4
  <2>4. ASSUME NEW k \in Lockers, where[k] = "partition"
        PROVE  status[k] = "granted" /\ mode[k] \in intentModes /\ plhExists'[PartitionOf[k]]
    <3>1. PartitionOf[k] \in Partitions \ {p}
      BY <1>3, <2>4, PartitionAssumption
    <3> QED BY <1>4, <2>4, <3>1 DEF IInv, PartitionedImpliesIntent
  <2> QED BY <1>2, <2>1, <2>2, <2>3, <2>4 DEF PartitionedImpliesIntent, requestVars
<1>10. RequestInv'
  <2> SUFFICES ASSUME NEW k \in Lockers PROVE ReqInv(k)'
    BY DEF RequestInv
  <2>1. CASE k = t
    BY <1>0, <1>2, <1>5, <2>1 DEF IInv, RequestInv, ReqInv, requestVars
  <2>2. CASE k # t
    <3>1. SameRequest(k)
      BY <1>2, <1>5, <2>2 DEF requestVars, SameRequest, Threads
    <3> QED BY <3>1, SameRequestInv
  <2> QED BY <2>1, <2>2
<1>11. MigrationInv'
  <2>1. ASSUME pc'[t] \in {"migrate", "moving"} PROVE partitions' # <<>>
    BY <1>1, <1>2, <1>5, <2>1
  <2> QED BY <1>0, <1>2, <2>1 DEF MigrationInv
<1>12. QueueInv'
  <2>1. conflictList' = <<>>
    BY <1>1, <1>2, QueueModes DEF IInv, PartitionedImpliesIntent
  <2> QED BY <2>1 DEF QueueInv
<1>13. HeldSame
  BY <1>2 DEF HeldSame, HeldMode, requestVars
<1> QED BY <1>6, <1>7, <1>8, <1>9, <1>10, <1>11, <1>12, <1>13, CompatibleStep
        DEF IInv, HeldStep

-----------------------------------------------------------------------------
(***************************************************************************)
(* convert, downgrade and unlock                                           *)
(***************************************************************************)

\* LockManager::convert, granted at once or left pending.
LEMMA ConvertStep ==
    ASSUME IInv, NEW l \in Lockers, Convert(l)
    PROVE  IInv' /\ HeldStep
<1> DEFINE newMode == want[l]
           wait == conflicts(newMode, GrantedWithout(l, NoMode))
<1>0. /\ TypeOK /\ l \in Threads /\ pc[l] = "convert" /\ bucketOwner \in {NoOwner, l}
      /\ partitions = <<>> /\ status[l] = "granted" /\ where[l] # "none"
      /\ newMode \in Modes /\ mode[l] \in Modes
      /\ recursiveCount[l] \in Nat /\ recursiveCount[l] >= 2
  BY DEF Convert, InBucket, IInv, RequestInv, ReqInv, Threads, TypeOK
<1>1. where[l] = "head"
  BY <1>0, PartitionHolder DEF TypeOK
<1>2. \/ /\ wait
         /\ status' = [status EXCEPT ![l] = "converting"]
         /\ convertMode' = [convertMode EXCEPT ![l] = newMode]
         /\ conversionsCount' = conversionsCount + 1
         /\ grantedCounts' = Inc(grantedCounts, newMode)
         /\ UNCHANGED mode
         /\ pc' = [pc EXCEPT ![l] = "waiting"]
      \/ /\ ~wait
         /\ grantedCounts' = ReplaceMode(grantedCounts, newMode, mode[l])
         /\ mode' = [mode EXCEPT ![l] = newMode]
         /\ UNCHANGED <<status, convertMode, conversionsCount>>
         /\ pc' = [pc EXCEPT ![l] = "idle"]
  BY DEF Convert, Goto
<1>3. /\ UNCHANGED <<recursiveCount, partitioned, compatibleFirst, where, headExists,
                     grantedList, conflictList, conflictCounts, partitions,
                     compatibleFirstCount, plhVars, scan, notify>>
      /\ want' = [want EXCEPT ![l] = NoMode] /\ bucketOwner' = NoOwner
  BY DEF Convert
<1> HIDE DEF wait, newMode
<1>4. /\ status' \in [Lockers -> Statuses] /\ status'[l] = (IF wait THEN "converting" ELSE "granted")
      /\ mode' \in [Lockers -> AnyMode] /\ mode'[l] = (IF wait THEN mode[l] ELSE newMode)
      /\ convertMode' \in [Lockers -> AnyMode] /\ (wait => convertMode'[l] = newMode)
      /\ want' \in [Lockers -> AnyMode]
      /\ \A k \in Lockers \ {l} : /\ status'[k] = status[k] /\ mode'[k] = mode[k]
                                  /\ convertMode'[k] = convertMode[k] /\ want'[k] = want[k]
  <2>0. /\ status \in [Lockers -> Statuses] /\ mode \in [Lockers -> AnyMode]
        /\ convertMode \in [Lockers -> AnyMode] /\ want \in [Lockers -> AnyMode]
        /\ NoMode \in AnyMode /\ newMode \in AnyMode
        /\ {"converting", "granted"} \subseteq Statuses
    BY <1>0 DEF TypeOK, AnyMode, Statuses
  <2>1. /\ want' \in [Lockers -> AnyMode]
        /\ \A k \in Lockers \ {l} : want'[k] = want[k]
    BY <1>3, <2>0
  <2>2. CASE wait
    BY <1>2, <2>0, <2>1, <2>2
  <2>3. CASE ~wait
    BY <1>0, <1>2, <2>0, <2>1, <2>3
  <2> QED BY <2>2, <2>3
<1>5. /\ pc' \in [Threads -> PcValues] /\ pc'[l] = (IF wait THEN "waiting" ELSE "idle")
      /\ \A k \in Threads \ {l} : pc'[k] = pc[k]
  BY <1>0, <1>2 DEF TypeOK, PcValues
<1>6. OnlyRequest(l)
  BY <1>3, <1>4 DEF OnlyRequest
<1>7. /\ grantedCounts' \in [Modes -> Int]
      /\ \A n \in Modes : /\ grantedCounts[n] \in Int
                          /\ grantedCounts'[n] = grantedCounts[n] + (IF n = newMode THEN 1 ELSE 0)
                                - (IF ~wait /\ n = mode[l] THEN 1 ELSE 0)
  <2>1. grantedCounts \in [Modes -> Int]
    BY <1>0 DEF TypeOK
  <2>2. newMode \in Modes /\ mode[l] \in Modes
    BY <1>0
  <2>3. CASE wait
    <3>1. grantedCounts' = Inc(grantedCounts, newMode)
      BY <1>2, <2>3
    <3> QED BY <2>1, <2>2, <2>3, <3>1, IncDec
  <2>4. CASE ~wait
    <3>1. grantedCounts' = ReplaceMode(grantedCounts, newMode, mode[l])
      BY <1>2, <2>4
    <3>2. /\ grantedCounts' \in [Modes -> Int]
          /\ \A n \in Modes :
                grantedCounts'[n] = grantedCounts[n] + (IF n = newMode THEN 1 ELSE 0)
                                       - (IF n = mode[l] THEN 1 ELSE 0)
      BY <2>1, <2>2, <3>1 DEF ReplaceMode, Inc, Dec
    <3> QED BY <2>1, <2>4, <3>2
  <2> QED BY <2>3, <2>4
<1>8. CountsMatch'
  <2>1. \A n \in Modes :
           /\ conflictCounts'[n] = conflictCounts[n] /\ conflictCounts[n] \in Int
           /\ ~IsWaiter(l, n) /\ ~IsWaiter(l, n)'
           /\ ~IsConverter(l, n) /\ (IsConverter(l, n)' <=> wait /\ n = newMode)
           /\ (IsHolder(l, n) <=> n = mode[l])
           /\ (IsHolder(l, n)' <=> n = (IF wait THEN mode[l] ELSE newMode))
    BY <1>0, <1>1, <1>3, <1>4 DEF IsHolder, IsConverter, IsWaiter, TypeOK
  <2>2. /\ conversionsCount' = conversionsCount + (IF wait THEN 1 ELSE 0)
        /\ conversionsCount \in Int
        /\ status[l] # "converting" /\ (status'[l] = "converting" <=> wait)
    BY <1>0, <1>2, <1>4 DEF TypeOK
  <2>3. CountsMatch
    BY DEF IInv
  <2> QED BY <1>6, <1>7, <2>1, <2>2, <2>3, CountsStep
<1>9. grantedCounts' \in [Modes -> Nat] /\ conversionsCount' \in Nat
  <2>1. conflictCounts' \in [Modes -> Int]
    BY <1>0, <1>3 DEF TypeOK
  <2> QED BY <1>7, <1>8, <2>1, CountsNat
<1>10. TypeOK'
  BY <1>0, <1>3, <1>4, <1>5, <1>9 DEF TypeOK, plhVars
<1>11. ListsInv'
  <2>1. Holders' = Holders /\ Waiters' = Waiters /\ \A q : InPartition(q)' = InPartition(q)
    BY <1>0, <1>3, <1>4 DEF Holders, Waiters, InPartition
  <2> QED BY <1>3, <2>1 DEF IInv, ListsInv, plhVars
<1>12. PartitionedImpliesIntent'
  BY <1>0, <1>1, <1>3, <1>4 DEF IInv, PartitionedImpliesIntent, plhVars
<1>13. RequestInv'
  <2> SUFFICES ASSUME NEW k \in Lockers PROVE ReqInv(k)'
    BY DEF RequestInv
  <2>1. CASE k = l
    BY <1>0, <1>1, <1>3, <1>4, <1>5, <2>1 DEF IInv, RequestInv, ReqInv
  <2>2. CASE k # l
    <3>1. SameRequest(k)
      BY <1>3, <1>4, <1>5, <2>2 DEF SameRequest, Threads
    <3> QED BY <3>1, SameRequestInv
  <2> QED BY <2>1, <2>2
<1>14. MigrationInv' /\ QueueInv'
  <2>1. grantedCounts[mode[l]] > 0
    BY <1>0, <1>1, Counted DEF grantedModes
  <2>2. grantedCounts'[newMode] > 0
    <3>1. grantedCounts[newMode] \in Nat
      BY <1>0 DEF TypeOK
    <3> QED BY <1>0, <1>7, <2>1, <3>1
  <2>3. newMode \in grantedModes'
    BY <1>0, <2>2 DEF grantedModes
  <2> QED BY <1>3, <2>3 DEF MigrationInv, QueueInv
<1>15. HeldStep
  <2>1. \A k \in Lockers \ {l} : HeldMode(k)' = HeldMode(k)
    BY <1>3, <1>4 DEF HeldMode
  <2>2. CASE wait
    <3>1. HeldSame
      BY <1>0, <1>3, <1>4, <2>1, <2>2 DEF HeldSame, HeldMode
    <3> QED BY <3>1 DEF HeldStep
  <2>3. CASE ~wait
    <3>1. HeldMode(l)' = newMode
      BY <1>0, <1>3, <1>4, <2>3 DEF HeldMode
    <3>2. CompatibleMode(l, newMode)
      BY <1>0, <1>1, <2>3, ConversionCompatible DEF wait, AnyMode
    <3>3. HeldChange(l)
      BY <1>0, <2>1, <3>1, <3>2 DEF HeldChange, AnyMode
    <3> QED BY <3>3 DEF HeldStep
  <2> QED BY <2>2, <2>3
<1> QED BY <1>8, <1>10, <1>11, <1>12, <1>13, <1>14, <1>15, CompatibleStep DEF IInv

\* LockManager::downgrade, up to its call of _onLockModeChanged.
LEMMA DowngradeStep ==
    ASSUME IInv, NEW l \in Lockers, Downgrade(l)
    PROVE  IInv' /\ HeldStep
<1> DEFINE newMode == want[l]
<1>0. /\ TypeOK /\ l \in Threads /\ pc[l] = "downgrade" /\ bucketOwner \in {NoOwner, l}
      /\ status[l] = "granted" /\ where[l] = "head"
      /\ newMode \in Modes /\ mode[l] \in Modes /\ mode[l] \in {"S", "X"}
      /\ isModeCovered(newMode, mode[l])
      /\ recursiveCount[l] \in Nat /\ recursiveCount[l] >= 1
  BY DEF Downgrade, InBucket, IInv, RequestInv, ReqInv, Threads, TypeOK, Modes
<1>1. mode[l] \in grantedModes /\ partitions = <<>>
  <2>1. mode[l] \in grantedModes
    BY <1>0, Counted
  <2> QED BY <1>0, <2>1 DEF IInv, PartitionedImpliesIntent, intentModes
<1>2. /\ grantedCounts' = ReplaceMode(grantedCounts, newMode, mode[l])
      /\ mode' = [mode EXCEPT ![l] = newMode]
      /\ want' = [want EXCEPT ![l] = NoMode]
      /\ bucketOwner' = l
      /\ pc' = [pc EXCEPT ![l] = "convScan"]
      /\ scan' = [NoScan EXCEPT !.check = TRUE]
      /\ UNCHANGED <<status, convertMode, recursiveCount, partitioned,
                     compatibleFirst, where, headExists, grantedList,
                     conflictList, conflictCounts, partitions, conversionsCount,
                     compatibleFirstCount, plhVars, notify>>
  BY DEF Downgrade, StartScan, Goto
<1> HIDE DEF newMode
<1>3. /\ mode' \in [Lockers -> AnyMode] /\ mode'[l] = newMode
      /\ want' \in [Lockers -> AnyMode]
      /\ \A k \in Lockers \ {l} : mode'[k] = mode[k] /\ want'[k] = want[k]
  BY <1>0, <1>2 DEF TypeOK, AnyMode
<1>4. /\ pc' \in [Threads -> PcValues] /\ pc'[l] = "convScan"
      /\ \A k \in Threads \ {l} : pc'[k] = pc[k]
  BY <1>0, <1>2 DEF TypeOK, PcValues
<1>5. scan' \in ScanStates /\ scan'.check
  <2>1. scan' \in ScanStates
    BY <1>0, <1>2, ScanExcept DEF TypeOK
  <2> QED BY <1>2, <2>1 DEF NoScan
<1>6. OnlyRequest(l)
  BY <1>2, <1>3 DEF OnlyRequest
<1>7. /\ grantedCounts' \in [Modes -> Int]
      /\ \A n \in Modes : /\ grantedCounts[n] \in Int
                          /\ grantedCounts'[n] = grantedCounts[n] + (IF n = newMode THEN 1 ELSE 0)
                                - (IF n = mode[l] THEN 1 ELSE 0)
  <2>1. grantedCounts \in [Modes -> Int]
    BY <1>0 DEF TypeOK
  <2>2. newMode \in Modes /\ mode[l] \in Modes
    BY <1>0
  <2>3. /\ grantedCounts' \in [Modes -> Int]
        /\ \A n \in Modes :
              grantedCounts'[n] = grantedCounts[n] + (IF n = newMode THEN 1 ELSE 0)
                                     - (IF n = mode[l] THEN 1 ELSE 0)
    BY <1>2, <2>1, <2>2 DEF ReplaceMode, Inc, Dec
  <2> QED BY <2>1, <2>3
<1>8. CountsMatch'
  <2>1. \A n \in Modes :
           /\ conflictCounts'[n] = conflictCounts[n] /\ conflictCounts[n] \in Int
           /\ ~IsWaiter(l, n) /\ ~IsWaiter(l, n)' /\ ~IsConverter(l, n) /\ ~IsConverter(l, n)'
           /\ (IsHolder(l, n) <=> n = mode[l]) /\ (IsHolder(l, n)' <=> n = newMode)
    BY <1>0, <1>2, <1>3 DEF IsHolder, IsConverter, IsWaiter, TypeOK
  <2>2. /\ conversionsCount' = conversionsCount /\ conversionsCount \in Int
        /\ status[l] # "converting" /\ status'[l] # "converting"
    BY <1>0, <1>2 DEF TypeOK
  <2>3. CountsMatch
    BY DEF IInv
  <2> QED BY <1>6, <1>7, <2>1, <2>2, <2>3, CountsStep
<1>9. grantedCounts' \in [Modes -> Nat]
  <2>1. conflictCounts' \in [Modes -> Int]
    BY <1>0, <1>2 DEF TypeOK
  <2> QED BY <1>7, <1>8, <2>1, CountsNat
<1>10. TypeOK'
  BY <1>0, <1>2, <1>3, <1>4, <1>5, <1>9 DEF TypeOK, plhVars
<1>11. ListsInv'
  BY <1>2 DEF IInv, ListsInv, plhVars, Holders, Waiters, InPartition
<1>12. PartitionedImpliesIntent'
  BY <1>0, <1>1, <1>2, <1>3 DEF IInv, PartitionedImpliesIntent, plhVars
<1>13. RequestInv'
  <2> SUFFICES ASSUME NEW k \in Lockers PROVE ReqInv(k)'
    BY DEF RequestInv
  <2>1. CASE k = l
    BY <1>0, <1>2, <1>3, <1>4, <2>1 DEF IInv, RequestInv, ReqInv
  <2>2. CASE k # l
    <3>1. SameRequest(k)
      BY <1>2, <1>3, <1>4, <2>2 DEF SameRequest, Threads
    <3> QED BY <3>1, SameRequestInv
  <2> QED BY <2>1, <2>2
<1>14. MigrationInv' /\ QueueInv'
  BY <1>2, <1>4, <1>5 DEF MigrationInv, QueueInv, WillCheckQueue
<1>15. HeldStep
  <2>1. /\ \A k \in Lockers \ {l} : HeldMode(k)' = HeldMode(k)
        /\ HeldMode(l) = mode[l] /\ HeldMode(l)' = newMode
    BY <1>0, <1>2, <1>3 DEF HeldMode
  <2>2. ASSUME NEW k \in Lockers \ {l} PROVE ~conflicts(newMode, {HeldMode(k)})
    <3>1. ~conflicts(mode[l], {HeldMode(k)})
      BY <2>1 DEF IInv, Compatible
    <3>2. HeldMode(k) \in AnyMode /\ mode[l] \in AnyMode /\ newMode \in AnyMode
      BY <1>0 DEF HeldMode, TypeOK, AnyMode
    <3> QED BY <1>0, <3>1, <3>2, CoveredCompatible
  <2>3. HeldChange(l)
    BY <1>0, <2>1, <2>2 DEF HeldChange, CompatibleMode, AnyMode
  <2> QED BY <2>3 DEF HeldStep
<1> QED BY <1>8, <1>10, <1>11, <1>12, <1>13, <1>14, <1>15, CompatibleStep DEF IInv

\* LockManager::unlock of a request that is still on a PartitionedLockHead.
LEMMA UnlockPartitionedStep ==
    ASSUME IInv, NEW l \in Lockers, UnlockPartitioned(l)
    PROVE  IInv' /\ HeldStep
<1> DEFINE p == PartitionOf[l]
<1>0. /\ TypeOK /\ l \in Threads /\ where[l] = "partition" /\ p \in Partitions
      /\ status[l] = "granted" /\ pc[l] \in {"idle", "timedOut"}
  BY PartitionAssumption, PartitionHolder
     DEF UnlockPartitioned, CallsUnlock, Holder, IInv, Threads
<1>1. /\ plhList' = [plhList EXCEPT ![p] = Unlink(@, l)]
      /\ where' = [where EXCEPT ![l] = "none"]
      /\ status' = [status EXCEPT ![l] = "none"]
      /\ mode' = [mode EXCEPT ![l] = NoMode]
      /\ convertMode' = [convertMode EXCEPT ![l] = NoMode]
      /\ recursiveCount' = [recursiveCount EXCEPT ![l] = 0]
      /\ partitioned' = [partitioned EXCEPT ![l] = FALSE]
      /\ compatibleFirst' = [compatibleFirst EXCEPT ![l] = FALSE]
      /\ pc' = [pc EXCEPT ![l] = "idle"]
      /\ UNCHANGED <<headVars, plhExists, want, bucketOwner, scan, notify>>
  BY DEF UnlockPartitioned, RemoveRequest, Goto
<1> HIDE DEF p
<1>2. /\ where' \in [Lockers -> {"none", "partition", "head"}] /\ where'[l] = "none"
      /\ status' \in [Lockers -> Statuses] /\ status'[l] = "none"
      /\ \A k \in Lockers \ {l} : status'[k] = status[k] /\ where'[k] = where[k]
  BY <1>0, <1>1 DEF TypeOK, Statuses
<1>3. /\ mode' \in [Lockers -> AnyMode] /\ convertMode' \in [Lockers -> AnyMode]
      /\ recursiveCount' \in [Lockers -> Nat]
      /\ \A k \in Lockers \ {l} : /\ mode'[k] = mode[k] /\ convertMode'[k] = convertMode[k]
                                  /\ recursiveCount'[k] = recursiveCount[k]
  BY <1>0, <1>1 DEF TypeOK, AnyMode
<1>4. /\ partitioned' \in [Lockers -> BOOLEAN] /\ compatibleFirst' \in [Lockers -> BOOLEAN]
      /\ \A k \in Lockers \ {l} : partitioned'[k] = partitioned[k]
  BY <1>0, <1>1 DEF TypeOK
<1>5. /\ pc' \in [Threads -> PcValues] /\ pc'[l] = "idle"
      /\ \A k \in Threads \ {l} : pc'[k] = pc[k]
  BY <1>0, <1>1 DEF TypeOK, PcValues
<1>6. /\ plhList[p] \in Seq(Lockers) /\ Represents(plhList[p], InPartition(p)) /\ l \in InPartition(p)
  BY <1>0 DEF TypeOK, IInv, ListsInv, InPartition, p
<1>7. Unlink(plhList[p], l) \in Seq(Lockers) /\ Represents(Unlink(plhList[p], l), InPartition(p) \ {l})
  BY <1>6, UnlinkRepresents
<1>8. /\ plhList' \in [Partitions -> Seq(Lockers)] /\ plhList'[p] = Unlink(plhList[p], l)
      /\ \A q \in Partitions \ {p} : plhList'[q] = plhList[q]
  <2>1. plhList \in [Partitions -> Seq(Lockers)]
    BY <1>0 DEF TypeOK
  <2> QED BY <1>0, <1>1, <1>7, <2>1
<1>9. TypeOK'
  BY <1>0, <1>1, <1>2, <1>3, <1>4, <1>5, <1>8 DEF TypeOK, headVars
<1>10. CountsMatch'
  <2>1. /\ \A n \in Modes : /\ HoldersIn(n)' = HoldersIn(n) /\ WaitersIn(n)' = WaitersIn(n)
                            /\ ConvertersTo(n)' = ConvertersTo(n)
        /\ {k \in Lockers : status[k] = "converting"}' = {k \in Lockers : status[k] = "converting"}
    BY <1>0, <1>2, <1>3 DEF HoldersIn, WaitersIn, ConvertersTo, OnHead
  <2> QED BY <1>1, <2>1 DEF IInv, CountsMatch, headVars
<1>11. ListsInv'
  <2>1. Holders' = Holders /\ Waiters' = Waiters
    BY <1>0, <1>2 DEF Holders, Waiters
  <2>2. ASSUME NEW q \in Partitions PROVE Represents(plhList[q], InPartition(q))'
    <3>1. CASE q = p
      <4>1. InPartition(q)' = InPartition(p) \ {l}
        BY <1>0, <1>2, <3>1 DEF InPartition
      <4> QED BY <1>7, <1>8, <3>1, <4>1
    <3>2. CASE q # p
      <4>1. InPartition(q)' = InPartition(q) /\ plhList'[q] = plhList[q]
        BY <1>0, <1>2, <1>8, <3>2 DEF InPartition, p
      <4> QED BY <4>1 DEF IInv, ListsInv
    <3> QED BY <3>1, <3>2
  <2> QED BY <1>1, <2>1, <2>2 DEF IInv, ListsInv, headVars
<1>12. PartitionedImpliesIntent'
  <2>1. UNCHANGED <<grantedModes, conflictModes, partitions, plhExists>>
    BY <1>1 DEF grantedModes, conflictModes, headVars
  <2> QED BY <1>2, <1>3, <2>1 DEF IInv, PartitionedImpliesIntent
<1>13. RequestInv'
  <2> SUFFICES ASSUME NEW k \in Lockers PROVE ReqInv(k)'
    BY DEF RequestInv
  <2>1. CASE k = l
    BY <1>2, <1>5, <2>1 DEF ReqInv
  <2>2. CASE k # l
    <3>1. SameRequest(k)
      BY <1>1, <1>2, <1>3, <1>4, <1>5, <2>2 DEF SameRequest, Threads
    <3> QED BY <3>1, SameRequestInv
  <2> QED BY <2>1, <2>2
<1>14. MigrationInv' /\ QueueInv'
  <2>1. UNCHANGED <<bucketOwner, partitions, conflictList, grantedModes, scan>>
    BY <1>1 DEF headVars, grantedModes
  <2> QED BY <1>0, <1>5, <2>1 DEF IInv, MigrationInv, QueueInv, WillCheckQueue, TypeOK, Threads
<1>15. HeldStep
  <2>1. \A k \in Lockers \ {l} : HeldMode(k)' = HeldMode(k)
    BY <1>2, <1>3 DEF HeldMode
  <2>2. HeldMode(l)' = NoMode /\ NoMode \in AnyMode /\ \A k \in Lockers : HeldMode(k) \in AnyMode
    BY <1>0, <1>2 DEF HeldMode, TypeOK, AnyMode
  <2>3. HeldChange(l)
    BY <2>1, <2>2, NoModeCompatible DEF HeldChange, CompatibleMode
  <2> QED BY <2>3 DEF HeldStep
<1> QED BY <1>9, <1>10, <1>11, <1>12, <1>13, <1>14, <1>15, CompatibleStep DEF IInv

\* LockManager::unlock of a granted request of the LockHead.
LEMMA UnlockGrantedStep ==
    ASSUME IInv, NEW l \in Lockers, UnlockGranted(l)
    PROVE  IInv' /\ HeldStep
<1>0. /\ TypeOK /\ l \in Threads /\ pc[l] = "unlock" /\ where[l] = "head"
      /\ status[l] = "granted" /\ mode[l] \in Modes
  BY DEF UnlockGranted, InBucket, IInv, RequestInv, ReqInv, Threads
<1>1. /\ grantedList' = Unlink(grantedList, l)
      /\ grantedCounts' = Dec(grantedCounts, mode[l])
      /\ compatibleFirstCount' = PolicyReleased(l)
      /\ where' = [where EXCEPT ![l] = "none"]
      /\ bucketOwner' = l
      /\ pc' = [pc EXCEPT ![l] = "convScan"]
      /\ scan' = [NoScan EXCEPT !.check = (grantedCounts'[mode[l]] = 0)]
      /\ UNCHANGED <<status, mode, convertMode, recursiveCount, partitioned,
                     compatibleFirst, headExists, conflictList, conflictCounts,
                     partitions, conversionsCount, plhVars, want, notify>>
  BY DEF UnlockGranted, StartScan, Goto
<1>2. /\ where' \in [Lockers -> {"none", "partition", "head"}] /\ where'[l] = "none"
      /\ \A k \in Lockers \ {l} : where'[k] = where[k]
  BY <1>0, <1>1 DEF TypeOK
<1>3. /\ pc' \in [Threads -> PcValues] /\ pc'[l] = "convScan"
      /\ \A k \in Threads \ {l} : pc'[k] = pc[k]
  BY <1>0, <1>1 DEF TypeOK, PcValues
<1>4. /\ scan' \in ScanStates
      /\ grantedCounts'[mode[l]] = 0 => scan'.check
  <2>1. scan' = [pos |-> 1, check |-> (grantedCounts'[mode[l]] = 0), newly |-> FALSE]
    BY <1>1 DEF NoScan
  <2>2. (grantedCounts'[mode[l]] = 0) \in BOOLEAN
    OBVIOUS
  <2>3. scan'.check = (grantedCounts'[mode[l]] = 0)
    BY <2>1
  <2>4. scan' \in ScanStates
    BY <2>1, <2>2 DEF ScanStates
  <2> QED BY <2>3, <2>4
<1>5. OnlyRequest(l)
  BY <1>1, <1>2 DEF OnlyRequest
<1>6. /\ grantedCounts' \in [Modes -> Int]
      /\ \A n \in Modes : /\ grantedCounts[n] \in Int
                          /\ grantedCounts'[n] = grantedCounts[n] - (IF n = mode[l] THEN 1 ELSE 0)
  <2>1. grantedCounts \in [Modes -> Int]
    BY <1>0 DEF TypeOK
  <2> QED BY <1>0, <1>1, <2>1, IncDec
<1>7. CountsMatch'
  <2>1. \A n \in Modes :
           /\ conflictCounts'[n] = conflictCounts[n] /\ conflictCounts[n] \in Int
           /\ ~IsWaiter(l, n) /\ ~IsWaiter(l, n)' /\ ~IsConverter(l, n) /\ ~IsConverter(l, n)'
           /\ (IsHolder(l, n) <=> n = mode[l]) /\ ~IsHolder(l, n)'
    BY <1>0, <1>1, <1>2 DEF IsHolder, IsConverter, IsWaiter, TypeOK
  <2>2. /\ conversionsCount' = conversionsCount /\ conversionsCount \in Int
        /\ status[l] # "converting" /\ status'[l] # "converting"
    BY <1>0, <1>1 DEF TypeOK
  <2>3. CountsMatch
    BY DEF IInv
  <2> QED BY <1>5, <1>6, <2>1, <2>2, <2>3, CountsStep
<1>8. grantedCounts' \in [Modes -> Nat]
  <2>1. conflictCounts' \in [Modes -> Int]
    BY <1>0, <1>1 DEF TypeOK
  <2> QED BY <1>6, <1>7, <2>1, CountsNat
<1>9. grantedList' \in Seq(Lockers) /\ Represents(grantedList', Holders \ {l})
  <2>1. grantedList \in Seq(Lockers) /\ Represents(grantedList, Holders) /\ l \in Holders
    BY <1>0 DEF TypeOK, IInv, ListsInv, Holders
  <2> QED BY <1>1, <2>1, UnlinkRepresents
<1>10. TypeOK'
  <2>1. compatibleFirstCount' \in Nat
    BY <1>0, <1>1, PolicyType
  <2> QED BY <1>0, <1>1, <1>2, <1>3, <1>4, <1>8, <1>9, <2>1 DEF TypeOK, plhVars
<1>11. ListsInv'
  <2>1. Holders' = Holders \ {l} /\ Waiters' = Waiters /\ \A q : InPartition(q)' = InPartition(q)
    BY <1>0, <1>1, <1>2 DEF Holders, Waiters, InPartition
  <2> QED BY <1>1, <1>9, <2>1 DEF IInv, ListsInv, plhVars
<1>12. grantedModes' \subseteq grantedModes /\ conflictModes' = conflictModes
  <2>1. conflictModes' = conflictModes
    BY <1>1 DEF conflictModes
  <2>2. ASSUME NEW m \in Modes, grantedCounts'[m] > 0 PROVE grantedCounts[m] > 0
    BY <1>6, <1>8, <2>2
  <2> QED BY <2>1, <2>2 DEF grantedModes
<1>13. PartitionedImpliesIntent'
  BY <1>1, <1>2, <1>12 DEF IInv, PartitionedImpliesIntent, plhVars
<1>14. RequestInv'
  <2> SUFFICES ASSUME NEW k \in Lockers PROVE ReqInv(k)'
    BY DEF RequestInv
  <2>1. CASE k = l
    BY <1>0, <1>1, <1>2, <1>3, <2>1 DEF ReqInv
  <2>2. CASE k # l
    <3>1. SameRequest(k)
      BY <1>1, <1>2, <1>3, <2>2 DEF SameRequest, Threads
    <3> QED BY <3>1, SameRequestInv
  <2> QED BY <2>1, <2>2
<1>15. MigrationInv' /\ QueueInv'
  <2>1. grantedModes' = {} => grantedCounts'[mode[l]] = 0
    BY <1>0, <1>8 DEF grantedModes
  <2> QED BY <1>1, <1>3, <1>4, <2>1 DEF MigrationInv, QueueInv, WillCheckQueue
<1>16. HeldStep
  <2>1. \A k \in Lockers \ {l} : HeldMode(k)' = HeldMode(k)
    BY <1>1, <1>2 DEF HeldMode
  <2>2. HeldMode(l)' = NoMode /\ NoMode \in AnyMode /\ \A k \in Lockers : HeldMode(k) \in AnyMode
    BY <1>0, <1>2 DEF HeldMode, TypeOK, AnyMode
  <2>3. HeldChange(l)
    BY <2>1, <2>2, NoModeCompatible DEF HeldChange, CompatibleMode
  <2> QED BY <2>3 DEF HeldStep
<1> QED BY <1>7, <1>10, <1>11, <1>13, <1>14, <1>15, <1>16, CompatibleStep DEF IInv

\* LockManager::unlock cancels a waiting request.
LEMMA UnlockWaitingStep ==
    ASSUME IInv, NEW l \in Lockers, UnlockWaiting(l)
    PROVE  IInv' /\ HeldStep
<1>0. /\ TypeOK /\ l \in Threads /\ pc[l] = "unlock" /\ where[l] = "head"
      /\ status[l] = "waiting" /\ mode[l] \in Modes
  BY DEF UnlockWaiting, InBucket, IInv, RequestInv, ReqInv, Threads
<1>1. /\ conflictList' = Unlink(conflictList, l)
      /\ conflictCounts' = Dec(conflictCounts, mode[l])
      /\ where' = [where EXCEPT ![l] = "none"]
      /\ bucketOwner' = l
      /\ pc' = [pc EXCEPT ![l] = "convScan"]
      /\ scan' = [NoScan EXCEPT !.check = TRUE]
      /\ UNCHANGED <<status, mode, convertMode, recursiveCount, partitioned,
                     compatibleFirst, headExists, grantedList, grantedCounts,
                     partitions, conversionsCount, compatibleFirstCount, plhVars,
                     want, notify>>
  BY DEF UnlockWaiting, StartScan, Goto
<1>2. /\ where' \in [Lockers -> {"none", "partition", "head"}] /\ where'[l] = "none"
      /\ \A k \in Lockers \ {l} : where'[k] = where[k]
  BY <1>0, <1>1 DEF TypeOK
<1>3. /\ pc' \in [Threads -> PcValues] /\ pc'[l] = "convScan"
      /\ \A k \in Threads \ {l} : pc'[k] = pc[k]
  BY <1>0, <1>1 DEF TypeOK, PcValues
<1>4. scan' \in ScanStates /\ scan'.check
  <2>1. scan' \in ScanStates
    BY <1>0, <1>1, ScanExcept DEF TypeOK
  <2> QED BY <1>1, <2>1 DEF NoScan
<1>5. OnlyRequest(l)
  BY <1>1, <1>2 DEF OnlyRequest
<1>6. /\ conflictCounts' \in [Modes -> Int]
      /\ \A n \in Modes : /\ conflictCounts[n] \in Int
                          /\ conflictCounts'[n] = conflictCounts[n] - (IF n = mode[l] THEN 1 ELSE 0)
  <2>1. conflictCounts \in [Modes -> Int]
    BY <1>0 DEF TypeOK
  <2> QED BY <1>0, <1>1, <2>1, IncDec
<1>7. CountsMatch'
  <2>1. \A n \in Modes :
           /\ grantedCounts'[n] = grantedCounts[n] /\ grantedCounts[n] \in Int
           /\ ~IsHolder(l, n) /\ ~IsHolder(l, n)' /\ ~IsConverter(l, n) /\ ~IsConverter(l, n)'
           /\ (IsWaiter(l, n) <=> n = mode[l]) /\ ~IsWaiter(l, n)'
    BY <1>0, <1>1, <1>2 DEF IsHolder, IsConverter, IsWaiter, TypeOK
  <2>2. /\ conversionsCount' = conversionsCount /\ conversionsCount \in Int
        /\ status[l] # "converting" /\ status'[l] # "converting"
    BY <1>0, <1>1 DEF TypeOK
  <2>3. CountsMatch
    BY DEF IInv
  <2> QED BY <1>5, <1>6, <2>1, <2>2, <2>3, CountsStep
<1>8. conflictCounts' \in [Modes -> Nat]
  <2>1. grantedCounts' \in [Modes -> Int]
    BY <1>0, <1>1 DEF TypeOK
  <2> QED BY <1>6, <1>7, <2>1, CountsNat
<1>9. conflictList' \in Seq(Lockers) /\ Represents(conflictList', Waiters \ {l})
  <2>1. conflictList \in Seq(Lockers) /\ Represents(conflictList, Waiters) /\ l \in Waiters
    BY <1>0 DEF TypeOK, IInv, ListsInv, Waiters
  <2> QED BY <1>1, <2>1, UnlinkRepresents
<1>10. TypeOK'
  BY <1>0, <1>1, <1>2, <1>3, <1>4, <1>8, <1>9 DEF TypeOK, plhVars
<1>11. ListsInv'
  <2>1. Holders' = Holders /\ Waiters' = Waiters \ {l} /\ \A q : InPartition(q)' = InPartition(q)
    BY <1>0, <1>1, <1>2 DEF Holders, Waiters, InPartition
  <2> QED BY <1>1, <1>9, <2>1 DEF IInv, ListsInv, plhVars
<1>12. PartitionedImpliesIntent'
  <2>1. mode[l] \in conflictModes
    BY <1>0, Counted
  <2> QED BY <1>1, <1>2, <2>1 DEF IInv, PartitionedImpliesIntent, plhVars
<1>13. RequestInv'
  <2> SUFFICES ASSUME NEW k \in Lockers PROVE ReqInv(k)'
    BY DEF RequestInv
  <2>1. CASE k = l
    BY <1>0, <1>1, <1>2, <1>3, <2>1 DEF ReqInv
  <2>2. CASE k # l
    <3>1. SameRequest(k)
      BY <1>1, <1>2, <1>3, <2>2 DEF SameRequest, Threads
    <3> QED BY <3>1, SameRequestInv
  <2> QED BY <2>1, <2>2
<1>14. MigrationInv' /\ QueueInv'
  BY <1>1, <1>3, <1>4 DEF MigrationInv, QueueInv, WillCheckQueue
<1>15. HeldSame
  BY <1>0, <1>1, <1>2 DEF HeldSame, HeldMode
<1> QED BY <1>7, <1>10, <1>11, <1>12, <1>13, <1>14, <1>15, CompatibleStep DEF IInv, HeldStep

\* LockManager::unlock cancels a pending conversion.
LEMMA UnlockConvertingStep ==
    ASSUME IInv, NEW l \in Lockers, UnlockConverting(l)
    PROVE  IInv' /\ HeldStep
<1>0. /\ TypeOK /\ l \in Threads /\ pc[l] = "unlock" /\ where[l] = "head"
      /\ status[l] = "converting" /\ mode[l] \in Modes /\ convertMode[l] \in Modes
      /\ recursiveCount[l] \in Nat /\ recursiveCount[l] >= 1
  BY DEF UnlockConverting, InBucket, IInv, RequestInv, ReqInv, Threads, TypeOK
<1>1. /\ status' = [status EXCEPT ![l] = "granted"]
      /\ conversionsCount' = conversionsCount - 1
      /\ grantedCounts' = Dec(grantedCounts, convertMode[l])
      /\ convertMode' = [convertMode EXCEPT ![l] = NoMode]
      /\ bucketOwner' = l
      /\ pc' = [pc EXCEPT ![l] = "convScan"]
      /\ scan' = [NoScan EXCEPT !.check = TRUE]
      /\ UNCHANGED <<mode, recursiveCount, partitioned, compatibleFirst, where,
                     headExists, grantedList, conflictList, conflictCounts,
                     partitions, compatibleFirstCount, plhVars, want, notify>>
  BY DEF UnlockConverting, StartScan, Goto, CancelConversion
<1>2. /\ status' \in [Lockers -> Statuses] /\ status'[l] = "granted"
      /\ convertMode' \in [Lockers -> AnyMode]
      /\ \A k \in Lockers \ {l} : status'[k] = status[k] /\ convertMode'[k] = convertMode[k]
  BY <1>0, <1>1 DEF TypeOK, Statuses, AnyMode
<1>3. /\ pc' \in [Threads -> PcValues] /\ pc'[l] = "convScan"
      /\ \A k \in Threads \ {l} : pc'[k] = pc[k]
  BY <1>0, <1>1 DEF TypeOK, PcValues
<1>4. scan' \in ScanStates /\ scan'.check
  <2>1. scan' \in ScanStates
    BY <1>0, <1>1, ScanExcept DEF TypeOK
  <2> QED BY <1>1, <2>1 DEF NoScan
<1>5. OnlyRequest(l)
  BY <1>1, <1>2 DEF OnlyRequest
<1>6. /\ grantedCounts' \in [Modes -> Int]
      /\ \A n \in Modes : /\ grantedCounts[n] \in Int
                          /\ grantedCounts'[n] = grantedCounts[n]
                                - (IF n = convertMode[l] THEN 1 ELSE 0)
  <2>1. grantedCounts \in [Modes -> Int]
    BY <1>0 DEF TypeOK
  <2> QED BY <1>0, <1>1, <2>1, IncDec
<1>7. CountsMatch'
  <2>1. \A n \in Modes :
           /\ conflictCounts'[n] = conflictCounts[n] /\ conflictCounts[n] \in Int
           /\ ~IsWaiter(l, n) /\ ~IsWaiter(l, n)'
           /\ (IsConverter(l, n) <=> n = convertMode[l]) /\ ~IsConverter(l, n)'
           /\ (IsHolder(l, n)' <=> IsHolder(l, n))
    BY <1>0, <1>1, <1>2 DEF IsHolder, IsConverter, IsWaiter, TypeOK
  <2>2. /\ conversionsCount' = conversionsCount - 1 /\ conversionsCount \in Int
        /\ status[l] = "converting" /\ status'[l] # "converting"
    BY <1>0, <1>1, <1>2 DEF TypeOK
  <2>3. CountsMatch
    BY DEF IInv
  <2> QED BY <1>5, <1>6, <2>1, <2>2, <2>3, CountsStep
<1>8. grantedCounts' \in [Modes -> Nat] /\ conversionsCount' \in Nat
  <2>1. conflictCounts' \in [Modes -> Int]
    BY <1>0, <1>1 DEF TypeOK
  <2> QED BY <1>6, <1>7, <2>1, CountsNat
<1>9. TypeOK'
  BY <1>0, <1>1, <1>2, <1>3, <1>4, <1>8 DEF TypeOK, plhVars
<1>10. ListsInv'
  <2>1. Holders' = Holders /\ Waiters' = Waiters /\ \A q : InPartition(q)' = InPartition(q)
    BY <1>0, <1>1, <1>2 DEF Holders, Waiters, InPartition
  <2> QED BY <1>1, <2>1 DEF IInv, ListsInv, plhVars
<1>11. grantedModes' \subseteq grantedModes /\ conflictModes' = conflictModes
  <2>1. conflictModes' = conflictModes
    BY <1>1 DEF conflictModes
  <2>2. ASSUME NEW m \in Modes, grantedCounts'[m] > 0 PROVE grantedCounts[m] > 0
    BY <1>6, <1>8, <2>2
  <2> QED BY <2>1, <2>2 DEF grantedModes
<1>12. PartitionedImpliesIntent'
  BY <1>0, <1>1, <1>2, <1>11 DEF IInv, PartitionedImpliesIntent, plhVars
<1>13. RequestInv'
  <2> SUFFICES ASSUME NEW k \in Lockers PROVE ReqInv(k)'
    BY DEF RequestInv
  <2>1. CASE k = l
    BY <1>0, <1>1, <1>2, <1>3, <2>1 DEF ReqInv
  <2>2. CASE k # l
    <3>1. SameRequest(k)
      BY <1>1, <1>2, <1>3, <2>2 DEF SameRequest, Threads
    <3> QED BY <3>1, SameRequestInv
  <2> QED BY <2>1, <2>2
<1>14. MigrationInv' /\ QueueInv'
  BY <1>1, <1>3, <1>4 DEF MigrationInv, QueueInv, WillCheckQueue
<1>15. HeldSame
  BY <1>0, <1>1, <1>2 DEF HeldSame, HeldMode
<1> QED BY <1>7, <1>9, <1>10, <1>12, <1>13, <1>14, <1>15, CompatibleStep DEF IInv, HeldStep

-----------------------------------------------------------------------------
(***************************************************************************)
(* _onLockModeChanged                                                      *)
(***************************************************************************)

\* _onLockModeChanged grants a pending conversion.
LEMMA ConvScanGrantStep ==
    ASSUME IInv, NEW t \in Lockers, ConvScanGrant(t)
    PROVE  IInv' /\ HeldStep
<1>0. /\ TypeOK /\ t \in Threads /\ pc[t] = "convScan" /\ bucketOwner = t
      /\ scan.pos <= Len(grantedList) /\ CanConvert(grantedList[scan.pos])
  BY DEF ConvScanGrant, InConvLoop, IInv, Threads
<1>2. PICK r \in Holders : r = grantedList[scan.pos]
  <2>1. scan.pos \in 1..Len(grantedList)
    BY <1>0, ScanExcept DEF TypeOK
  <2> QED BY <2>1 DEF IInv, ListsInv, Represents
<1>1. /\ conversionsCount' = conversionsCount - 1
      /\ grantedCounts' = Dec(grantedCounts, mode[r])
      /\ status' = [status EXCEPT ![r] = "granted"]
      /\ mode' = [mode EXCEPT ![r] = convertMode[r]]
      /\ convertMode' = [convertMode EXCEPT ![r] = NoMode]
      /\ pc' = [pc EXCEPT ![t] = "convNotify"]
      /\ UNCHANGED <<recursiveCount, partitioned, compatibleFirst, where,
                     headExists, grantedList, conflictList, conflictCounts,
                     partitions, compatibleFirstCount, plhVars, want,
                     bucketOwner, scan, notify>>
  BY <1>2 DEF ConvScanGrant, Goto
<1>17. PICK cm : cm = convertMode[r]
  OBVIOUS
<1>3. /\ r \in Lockers /\ status[r] = "converting" /\ where[r] = "head"
      /\ mode[r] \in Modes /\ cm \in Modes
      /\ ~conflicts(cm, GrantedWithout(r, cm))
  BY <1>0, <1>2, <1>17 DEF Holders, CanConvert, IInv, RequestInv, ReqInv
<1>4. /\ status' \in [Lockers -> Statuses] /\ status'[r] = "granted"
      /\ mode' \in [Lockers -> AnyMode] /\ mode'[r] = cm
      /\ convertMode' \in [Lockers -> AnyMode]
      /\ \A k \in Lockers \ {r} : /\ status'[k] = status[k] /\ mode'[k] = mode[k]
                                  /\ convertMode'[k] = convertMode[k]
  <2>1. /\ status \in [Lockers -> Statuses] /\ mode \in [Lockers -> AnyMode]
        /\ convertMode \in [Lockers -> AnyMode] /\ "granted" \in Statuses
        /\ cm \in AnyMode /\ NoMode \in AnyMode /\ mode' = [mode EXCEPT ![r] = cm]
    BY <1>0, <1>1, <1>3, <1>17 DEF TypeOK, Statuses, AnyMode
  <2> QED BY <1>1, <1>3, <2>1
<1>5. /\ pc' \in [Threads -> PcValues] /\ pc'[t] = "convNotify"
      /\ \A k \in Threads \ {t} : pc'[k] = pc[k]
  BY <1>0, <1>1 DEF TypeOK, PcValues
<1>6. OnlyRequest(r)
  BY <1>1, <1>4 DEF OnlyRequest
<1>7. /\ grantedCounts' \in [Modes -> Int]
      /\ \A n \in Modes : /\ grantedCounts[n] \in Int
                          /\ grantedCounts'[n] = grantedCounts[n] - (IF n = mode[r] THEN 1 ELSE 0)
  <2>1. grantedCounts \in [Modes -> Int]
    BY <1>0 DEF TypeOK
  <2> QED BY <1>1, <1>3, <2>1, IncDec
<1>8. CountsMatch'
  <2>1. \A n \in Modes :
           /\ conflictCounts'[n] = conflictCounts[n] /\ conflictCounts[n] \in Int
           /\ ~IsWaiter(r, n) /\ ~IsWaiter(r, n)'
           /\ (IsConverter(r, n) <=> n = cm) /\ ~IsConverter(r, n)'
           /\ (IsHolder(r, n) <=> n = mode[r]) /\ (IsHolder(r, n)' <=> n = cm)
    <3>1. ASSUME NEW n \in Modes
          PROVE  conflictCounts'[n] = conflictCounts[n] /\ conflictCounts[n] \in Int
      BY <1>0, <1>1 DEF TypeOK
    <3> QED BY <3>1, <1>1, <1>3, <1>4, <1>17 DEF IsHolder, IsConverter, IsWaiter
  <2>2. /\ conversionsCount' = conversionsCount - 1 /\ conversionsCount \in Int
        /\ status[r] = "converting" /\ status'[r] # "converting"
    BY <1>0, <1>1, <1>3, <1>4 DEF TypeOK
  <2>3. CountsMatch
    BY DEF IInv
  <2> QED BY <1>3, <1>6, <1>7, <2>1, <2>2, <2>3, CountsStep
<1>9. grantedCounts' \in [Modes -> Nat] /\ conversionsCount' \in Nat
  <2>1. conflictCounts' \in [Modes -> Int]
    BY <1>0, <1>1 DEF TypeOK
  <2> QED BY <1>7, <1>8, <2>1, CountsNat
<1>10. TypeOK'
  BY <1>0, <1>1, <1>4, <1>5, <1>9 DEF TypeOK, plhVars
<1>11. ListsInv'
  <2>1. Holders' = Holders /\ Waiters' = Waiters /\ \A q : InPartition(q)' = InPartition(q)
    BY <1>1, <1>3, <1>4 DEF Holders, Waiters, InPartition
  <2> QED BY <1>1, <2>1 DEF IInv, ListsInv, plhVars
<1>12. grantedModes' \subseteq grantedModes /\ conflictModes' = conflictModes
  <2>1. conflictModes' = conflictModes
    BY <1>1 DEF conflictModes
  <2>2. ASSUME NEW m \in Modes, grantedCounts'[m] > 0 PROVE grantedCounts[m] > 0
    BY <1>7, <1>9, <2>2
  <2> QED BY <2>1, <2>2 DEF grantedModes
<1>13. PartitionedImpliesIntent'
  BY <1>1, <1>3, <1>4, <1>12 DEF IInv, PartitionedImpliesIntent, plhVars
<1>14. RequestInv'
  <2> SUFFICES ASSUME NEW k \in Lockers PROVE ReqInv(k)'
    BY DEF RequestInv
  <2>0. /\ pc'[k] = pc[k] \/ (pc[k] = "convScan" /\ pc'[k] = "convNotify")
        /\ recursiveCount[k] \in Nat
    BY <1>0, <1>5 DEF Threads, TypeOK
  <2>1. CASE k = r
    BY <1>1, <1>3, <1>4, <2>0, <2>1 DEF IInv, RequestInv, ReqInv
  <2>2. CASE k # r
    BY <1>1, <1>4, <2>0, <2>2 DEF IInv, RequestInv, ReqInv
  <2> QED BY <2>1, <2>2
<1>15. MigrationInv' /\ QueueInv'
  <2>1. HoldersIn(cm)' \in SUBSET Lockers /\ r \in HoldersIn(cm)' /\ ConvertersTo(cm)' \in SUBSET Lockers
    BY <1>1, <1>3, <1>4 DEF HoldersIn, OnHead, ConvertersTo
  <2>2. /\ Cardinality(HoldersIn(cm)') >= 1 /\ Cardinality(ConvertersTo(cm)') \in Nat
        /\ Cardinality(HoldersIn(cm)') \in Nat
    BY <2>1, CardNat, CardAtLeast
  <2>3. grantedCounts'[cm] = Cardinality(HoldersIn(cm)') + Cardinality(ConvertersTo(cm)')
    BY <1>3, <1>8 DEF CountsMatch
  <2>4. cm \in grantedModes'
    BY <1>3, <2>2, <2>3 DEF grantedModes
  <2> QED BY <1>0, <1>1, <1>5, <2>4 DEF MigrationInv, QueueInv
<1>16. HeldStep
  <2>1. \A k \in Lockers \ {r} : HeldMode(k)' = HeldMode(k)
    BY <1>1, <1>4 DEF HeldMode
  <2>2. HeldMode(r)' = cm
    BY <1>1, <1>3, <1>4 DEF HeldMode
  <2>3. CompatibleMode(r, cm)
    <3>1. cm \in grantedModes /\ cm \in AnyMode
      BY <1>3, <1>17, Counted DEF AnyMode
    <3> QED BY <1>3, <1>17, <3>1, ConversionCompatible
  <2>4. HeldChange(r)
    BY <1>3, <2>1, <2>2, <2>3 DEF HeldChange, AnyMode
  <2> QED BY <1>3, <2>4 DEF HeldStep
<1> QED BY <1>8, <1>10, <1>11, <1>13, <1>14, <1>15, <1>16, CompatibleStep DEF IInv

\* _onLockModeChanged grants a request of the conflict queue.
LEMMA ConflictScanGrantStep ==
    ASSUME IInv, NEW t \in Lockers, ConflictScanGrant(t)
    PROVE  IInv' /\ HeldStep
<1>0. /\ TypeOK /\ t \in Threads /\ pc[t] = "conflictScan" /\ bucketOwner = t
      /\ scan.pos <= Len(conflictList) /\ ~conflicts(mode[conflictList[scan.pos]], grantedModes)
  BY DEF ConflictScanGrant, InConflictLoop, IInv, Threads
<1>2. scan.pos \in 1..Len(conflictList) /\ conflictList \in Seq(Lockers)
  BY <1>0, ScanExcept DEF TypeOK
<1>3. PICK r \in Waiters : r = conflictList[scan.pos]
  BY <1>2 DEF IInv, ListsInv, Represents
<1>1. /\ status' = [status EXCEPT ![r] = "granted"]
      /\ conflictList' = RemoveAt(conflictList, scan.pos)
      /\ conflictCounts' = Dec(conflictCounts, mode[r])
      /\ grantedList' = Append(grantedList, r)
      /\ grantedCounts' = Inc(grantedCounts, mode[r])
      /\ compatibleFirstCount' = PolicyAcquired(r)
      /\ scan' = [scan EXCEPT !.newly =
                      @ \/ (compatibleFirst[r] /\ compatibleFirstCount = 0)]
      /\ pc' = [pc EXCEPT ![t] = "conflictNotify"]
      /\ UNCHANGED <<mode, convertMode, recursiveCount, partitioned,
                     compatibleFirst, where, headExists, partitions,
                     conversionsCount, plhVars, want, bucketOwner, notify>>
  BY <1>3 DEF ConflictScanGrant, Goto
<1>4. conflictList' \in Seq(Lockers) /\ Represents(conflictList', Waiters \ {r})
  <2>1. Represents(conflictList, Waiters)
    BY DEF IInv, ListsInv
  <2> QED BY <1>1, <1>2, <1>3, <2>1, RemoveAtType, RemoveAtRepresents
<1>5. r \in Lockers /\ status[r] = "waiting" /\ where[r] = "head" /\ mode[r] \in Modes
  BY <1>3 DEF Waiters, IInv, RequestInv, ReqInv
<1>6. partitions = <<>>
  <2>1. mode[r] \in conflictModes
    BY <1>5, Counted
  <2> QED BY <2>1 DEF IInv, PartitionedImpliesIntent
<1>7. /\ status' \in [Lockers -> Statuses] /\ status'[r] = "granted"
      /\ \A k \in Lockers \ {r} : status'[k] = status[k]
  BY <1>0, <1>1, <1>5 DEF TypeOK, Statuses
<1>8. /\ pc' \in [Threads -> PcValues] /\ pc'[t] = "conflictNotify"
      /\ \A k \in Threads \ {t} : pc'[k] = pc[k]
  BY <1>0, <1>1 DEF TypeOK, PcValues
<1>9. scan' \in ScanStates
  <2>1. scan \in ScanStates /\ (scan.newly \/ (compatibleFirst[r] /\ compatibleFirstCount = 0)) \in BOOLEAN
    BY <1>0 DEF TypeOK
  <2> QED BY <1>1, <2>1, ScanExcept, Zenon
<1>10. grantedList' \in Seq(Lockers) /\ Represents(grantedList', Holders \cup {r})
  <2>1. grantedList \in Seq(Lockers) /\ Represents(grantedList, Holders) /\ r \notin Holders
    BY <1>0, <1>5 DEF TypeOK, IInv, ListsInv, Holders
  <2> QED BY <1>1, <1>5, <2>1, AppendRepresents
<1>11. OnlyRequest(r)
  BY <1>1, <1>7 DEF OnlyRequest
<1>12. /\ grantedCounts' \in [Modes -> Int] /\ conflictCounts' \in [Modes -> Int]
       /\ \A n \in Modes : /\ grantedCounts[n] \in Nat /\ conflictCounts[n] \in Nat
                           /\ grantedCounts'[n] = grantedCounts[n] + (IF n = mode[r] THEN 1 ELSE 0)
                           /\ conflictCounts'[n] = conflictCounts[n] - (IF n = mode[r] THEN 1 ELSE 0)
  <2>1. /\ grantedCounts \in [Modes -> Int] /\ conflictCounts \in [Modes -> Int]
        /\ \A n \in Modes : grantedCounts[n] \in Nat /\ conflictCounts[n] \in Nat
    BY <1>0 DEF TypeOK
  <2> QED BY <1>1, <1>5, <2>1, IncDec
<1>13. CountsMatch'
  <2>1. \A n \in Modes :
           /\ (IsWaiter(r, n) <=> n = mode[r]) /\ ~IsWaiter(r, n)'
           /\ ~IsConverter(r, n) /\ ~IsConverter(r, n)'
           /\ ~IsHolder(r, n) /\ (IsHolder(r, n)' <=> n = mode[r])
    BY <1>1, <1>5, <1>7 DEF IsHolder, IsConverter, IsWaiter
  <2>2. /\ conversionsCount' = conversionsCount /\ conversionsCount \in Int
        /\ status[r] # "converting" /\ status'[r] # "converting"
    BY <1>0, <1>1, <1>5, <1>7 DEF TypeOK
  <2>3. CountsMatch
    BY DEF IInv
  <2> QED BY <1>5, <1>11, <1>12, <2>1, <2>2, <2>3, CountsStep
<1>14. grantedCounts' \in [Modes -> Nat] /\ conflictCounts' \in [Modes -> Nat]
  BY <1>12, <1>13, CountsNat
<1>15. TypeOK'
  <2>1. compatibleFirstCount' \in Nat
    BY <1>0, <1>1, <1>5, PolicyType
  <2> QED BY <1>0, <1>1, <1>4, <1>7, <1>8, <1>9, <1>10, <1>14, <2>1 DEF TypeOK, plhVars
<1>16. ListsInv'
  <2>1. /\ Holders' = Holders \cup {r} /\ Waiters' = Waiters \ {r}
        /\ \A q : InPartition(q)' = InPartition(q)
    BY <1>1, <1>5, <1>7 DEF Holders, Waiters, InPartition
  <2> QED BY <1>1, <1>4, <1>10, <2>1 DEF IInv, ListsInv, plhVars
<1>17. PartitionedImpliesIntent'
  BY <1>1, <1>5, <1>6, <1>7 DEF IInv, PartitionedImpliesIntent, plhVars
<1>18. RequestInv'
  <2> SUFFICES ASSUME NEW k \in Lockers PROVE ReqInv(k)'
    BY DEF RequestInv
  <2>0. pc'[k] = pc[k] \/ (pc[k] = "conflictScan" /\ pc'[k] = "conflictNotify")
    BY <1>0, <1>8 DEF Threads
  <2>1. CASE k = r
    BY <1>1, <1>5, <1>7, <2>0, <2>1 DEF IInv, RequestInv, ReqInv
  <2>2. CASE k # r
    BY <1>1, <1>7, <2>0, <2>2 DEF IInv, RequestInv, ReqInv
  <2> QED BY <2>1, <2>2
<1>19. MigrationInv' /\ QueueInv'
  <2>1. grantedCounts'[mode[r]] > 0
    BY <1>5, <1>12
  <2>2. mode[r] \in grantedModes'
    BY <1>5, <2>1 DEF grantedModes
  <2> QED BY <1>0, <1>1, <1>8, <2>2 DEF MigrationInv, QueueInv
<1>20. HeldStep
  <2>1. \A k \in Lockers \ {r} : HeldMode(k)' = HeldMode(k)
    BY <1>1, <1>7 DEF HeldMode
  <2>2. HeldMode(r)' = mode[r]
    BY <1>1, <1>5, <1>7 DEF HeldMode
  <2>3. CompatibleMode(r, mode[r])
    BY <1>0, <1>3, <1>5, <1>6, GrantedCompatible
  <2>4. HeldChange(r)
    BY <1>5, <2>1, <2>2, <2>3 DEF HeldChange, AnyMode
  <2> QED BY <1>5, <2>4 DEF HeldStep
<1> QED BY <1>13, <1>15, <1>16, <1>17, <1>18, <1>19, <1>20, CompatibleStep DEF IInv

\* unlock or downgrade returns; with a count of 0 the request is destroyed.
LEMMA ScanReturnStep ==
    ASSUME IInv, NEW l \in Lockers, ScanReturn(l)
    PROVE  IInv' /\ HeldStep
<1>0. /\ TypeOK /\ l \in Threads /\ pc[l] = "scanDone" /\ bucketOwner = l
      /\ bucketOwner' = NoOwner /\ scan' = NoScan /\ pc' = [pc EXCEPT ![l] = "idle"]
      /\ UNCHANGED <<where, headVars, plhVars, want, notify>>
  BY DEF ScanReturn, Goto, IInv, Threads
<1>1. /\ pc' \in [Threads -> PcValues] /\ pc'[l] = "idle"
      /\ \A k \in Threads \ {l} : pc'[k] = pc[k]
  BY <1>0 DEF TypeOK, PcValues
<1>2. scan' \in ScanStates
  BY <1>0, ScanExcept DEF TypeOK
<1>3. UNCHANGED <<grantedModes, conflictModes>>
  BY <1>0 DEF grantedModes, conflictModes, headVars
<1>4. MigrationInv' /\ QueueInv'
  <2>1. ~WillCheckQueue
    BY <1>0 DEF WillCheckQueue
  <2> QED BY <1>0, <1>3, <2>1 DEF IInv, MigrationInv, QueueInv, headVars
<1>5. CASE recursiveCount[l] = 0
  <2>1. where[l] = "none" /\ status[l] # "converting"
    BY <1>0, <1>5 DEF IInv, RequestInv, ReqInv, TypeOK
  <2>2. /\ status' = [status EXCEPT ![l] = "none"]
        /\ mode' = [mode EXCEPT ![l] = NoMode]
        /\ convertMode' = [convertMode EXCEPT ![l] = NoMode]
        /\ recursiveCount' = [recursiveCount EXCEPT ![l] = 0]
        /\ partitioned' = [partitioned EXCEPT ![l] = FALSE]
        /\ compatibleFirst' = [compatibleFirst EXCEPT ![l] = FALSE]
    BY <1>5 DEF ScanReturn, RemoveRequest
  <2>3. /\ status' \in [Lockers -> Statuses] /\ status'[l] = "none"
        /\ recursiveCount' \in [Lockers -> Nat]
        /\ \A k \in Lockers \ {l} : status'[k] = status[k] /\ recursiveCount'[k] = recursiveCount[k]
    BY <1>0, <2>2 DEF TypeOK, Statuses
  <2>4. /\ mode' \in [Lockers -> AnyMode] /\ convertMode' \in [Lockers -> AnyMode]
        /\ \A k \in Lockers \ {l} : mode'[k] = mode[k] /\ convertMode'[k] = convertMode[k]
    BY <1>0, <2>2 DEF TypeOK, AnyMode
  <2>5. /\ partitioned' \in [Lockers -> BOOLEAN] /\ compatibleFirst' \in [Lockers -> BOOLEAN]
        /\ \A k \in Lockers \ {l} : partitioned'[k] = partitioned[k]
    BY <1>0, <2>2 DEF TypeOK
  <2>6. TypeOK'
    BY <1>0, <1>1, <1>2, <2>3, <2>4, <2>5 DEF TypeOK, headVars, plhVars
  <2>7. CountsMatch'
    <3>1. /\ \A n \in Modes : /\ HoldersIn(n)' = HoldersIn(n) /\ WaitersIn(n)' = WaitersIn(n)
                              /\ ConvertersTo(n)' = ConvertersTo(n)
          /\ {k \in Lockers : status[k] = "converting"}' = {k \in Lockers : status[k] = "converting"}
      BY <1>0, <2>1, <2>3, <2>4 DEF HoldersIn, WaitersIn, ConvertersTo, OnHead
    <3> QED BY <1>0, <3>1 DEF IInv, CountsMatch, headVars
  <2>8. ListsInv'
    <3>1. Holders' = Holders /\ Waiters' = Waiters /\ \A q : InPartition(q)' = InPartition(q)
      BY <1>0, <2>1, <2>3 DEF Holders, Waiters, InPartition
    <3> QED BY <1>0, <3>1 DEF IInv, ListsInv, headVars, plhVars
  <2>9. PartitionedImpliesIntent'
    BY <1>0, <1>3, <2>1, <2>3, <2>4 DEF IInv, PartitionedImpliesIntent, headVars, plhVars
  <2>10. RequestInv'
    <3> SUFFICES ASSUME NEW k \in Lockers PROVE ReqInv(k)'
      BY DEF RequestInv
    <3>1. CASE k = l
      BY <1>0, <1>1, <2>1, <2>3, <3>1 DEF ReqInv
    <3>2. CASE k # l
      <4>1. SameRequest(k)
        BY <1>0, <1>1, <2>3, <2>4, <2>5, <3>2 DEF SameRequest, Threads
      <4> QED BY <4>1, SameRequestInv
    <3> QED BY <3>1, <3>2
  <2>11. HeldSame
    BY <1>0, <2>1, <2>3, <2>4 DEF HeldSame, HeldMode
  <2> QED BY <1>4, <2>6, <2>7, <2>8, <2>9, <2>10, <2>11, CompatibleStep DEF IInv, HeldStep
<1>6. CASE recursiveCount[l] # 0
  <2>1. UNCHANGED requestVars
    BY <1>0, <1>6 DEF ScanReturn, requestVars
  <2>2. UNCHANGED quietVars
    BY <1>0, <2>1 DEF quietVars, requestVars, headVars, plhVars
  <2>3. TypeOK'
    BY <1>0, <1>1, <1>2, <2>1 DEF TypeOK, requestVars, headVars, plhVars
  <2>4. RequestInv'
    <3> SUFFICES ASSUME NEW k \in Lockers PROVE ReqInv(k)'
      BY DEF RequestInv
    <3>1. pc'[k] = pc[k] \/ (pc[k] = "scanDone" /\ pc'[k] = "idle")
      BY <1>0, <1>1 DEF Threads
    <3> QED BY <1>0, <2>1, <3>1 DEF IInv, RequestInv, ReqInv, requestVars
  <2> QED BY <1>4, <2>2, <2>3, <2>4, QuietStep DEF IInv, HeldStep
<1> QED BY <1>5, <1>6

-----------------------------------------------------------------------------
(***************************************************************************)
(* The theorems                                                            *)
(***************************************************************************)

\* Every step preserves the invariant, and is a step of the abstract lock.
LEMMA NextStep ==
    ASSUME IInv, [Next]_vars
    PROVE  IInv' /\ HeldStep
<1>1. ASSUME NEW l \in Lockers, Call(l) PROVE IInv' /\ HeldStep
  <2>1. ASSUME NEW m \in RequestModes, LockBegin(l, m) PROVE IInv' /\ HeldStep
    BY <2>1, LockBeginStep
  <2>2. CASE \/ \E m \in RequestModes : ConvertBegin(l, m) \/ DowngradeBegin(l, m)
             \/ WaitTimeout(l)
    BY <2>2, QuietCalls DEF HeldStep
  <2> QED BY <1>1, <2>1, <2>2 DEF Call
<1>2. ASSUME NEW l \in Lockers, Unlock(l) PROVE IInv' /\ HeldStep
  <2>1. CASE UnlockPartitioned(l)
    BY <2>1, UnlockPartitionedStep
  <2>2. CASE UnlockRecursive(l) \/ UnlockToBucket(l)
    BY <2>2, QuietCalls DEF HeldStep
  <2> QED BY <1>2, <2>1, <2>2 DEF Unlock
<1>3. ASSUME NEW l \in Lockers, EnterBucket(l) PROVE IInv' /\ HeldStep
  <2>1. CASE LockMigrate(l) \/ ConvertMigrate(l)
    BY <2>1, QuietCalls DEF HeldStep
  <2> QED BY <1>3, <2>1, LockStartPartitionStep, LockNewRequestStep, ConvertStep,
             DowngradeStep, UnlockGrantedStep, UnlockWaitingStep, UnlockConvertingStep
          DEF EnterBucket
<1>4. ASSUME NEW l \in Lockers, Scan(l) PROVE IInv' /\ HeldStep
  <2>1. CASE ConvScanGrant(l) \/ ConflictScanGrant(l) \/ ScanReturn(l)
    BY <2>1, ConvScanGrantStep, ConflictScanGrantStep, ScanReturnStep
  <2>2. CASE \/ ConvScanSkip(l) \/ ConvScanNotify(l) \/ ConvScanEnd(l)
             \/ ConflictScanSkip(l) \/ ConflictScanNotify(l) \/ ConflictScanEnd(l)
    BY <2>2, QuietScan DEF HeldStep
  <2> QED BY <1>4, <2>1, <2>2 DEF Scan
<1>5. ASSUME NEW l \in Lockers, WaitOk(l) PROVE IInv' /\ HeldStep
  BY <1>5, QuietCalls DEF HeldStep
<1>6. ASSUME NEW t \in Threads, Migrate(t) PROVE IInv' /\ HeldStep
  <2>1. CASE MigrateBegin(t)
    BY <2>1, QuietCleanup DEF HeldStep
  <2> QED BY <1>6, <2>1, MigrateMoveStep, MigrateEndStep DEF Migrate
<1>7. CASE CleanupMigrate \/ Cleanup
  BY <1>7, QuietCleanup DEF HeldStep
<1>8. CASE UNCHANGED vars
  <2>1. UNCHANGED quietVars
    BY <1>8 DEF vars, quietVars, requestVars, headVars, plhVars
  <2>2. TypeOK' /\ RequestInv' /\ MigrationInv' /\ QueueInv'
    BY <1>8 DEF vars, requestVars, headVars, plhVars, threadVars, IInv, TypeOK, RequestInv,
                ReqInv, MigrationInv, QueueInv, WillCheckQueue, grantedModes
  <2> QED BY <2>1, <2>2, QuietStep DEF IInv, HeldStep
<1> QED BY <1>1, <1>2, <1>3, <1>4, <1>5, <1>6, <1>7, <1>8 DEF Next

\* The inductive invariant holds in every reachable state.
THEOREM Invariance == Spec => []IInv
<1>1. IInv /\ [Next]_vars => IInv'
  BY NextStep
<1> QED BY InitIInv, <1>1, PTL DEF Spec

\* Every variable keeps its type: no count of the LockHead becomes negative and
\* no list ends up with something that is not a request.
THEOREM TypeCorrect == Spec => []TypeOK
<1>1. IInv => TypeOK
  BY DEF IInv
<1> QED BY Invariance, <1>1, PTL

\* Mutual exclusion: the modes granted by lock, convert, downgrade and
\* _onLockModeChanged to different lockers never conflict, partitioned or not.
THEOREM MutualExclusion == Spec => []Compatible
<1>1. IInv => Compatible
  BY DEF IInv
<1> QED BY Invariance, <1>1, PTL

\* grantedCounts, conflictCounts and conversionsCount are exactly what the
\* requests say, so the masks that lock and convert test are right.
THEOREM CountsExact == Spec => []CountsMatch
<1>1. IInv => CountsMatch
  BY DEF IInv
<1> QED BY Invariance, <1>1, PTL

\* A partitioned lock has no conflicts and only intent modes: what lets intent
\* requests skip the bucket mutex.
THEOREM PartitionedIsIntent == Spec => []PartitionedImpliesIntent
<1>1. IInv => PartitionedImpliesIntent
  BY DEF IInv
<1> QED BY Invariance, <1>1, PTL

\* A thread that migrates partitions or runs _onLockModeChanged has the bucket
\* mutex.
Sections == {"migrate", "moving", "convScan", "convNotify", "conflictScan",
             "conflictNotify", "scanDone"}
OwnerInv == \A t \in Threads : pc[t] \in Sections => bucketOwner = t

\* A step of thread u keeps this if u has the mutex or finds it free, or does not
\* touch it, and is not in a section without it when the step is over.
LEMMA OwnerStep ==
    ASSUME TypeOK, OwnerInv, NEW u \in Threads, NEW x,
           pc' = [pc EXCEPT ![u] = x] \/ pc' = pc,
           bucketOwner' = bucketOwner \/ bucketOwner \in {NoOwner, u},
           pc'[u] \in Sections => bucketOwner' = u
    PROVE  OwnerInv'
BY LockersAssumption DEF TypeOK, OwnerInv, Sections, Threads

\* The mutex is released only by the thread that has it.
LEMMA OwnerNext == ASSUME TypeOK, OwnerInv, [Next]_vars PROVE OwnerInv'
<1> USE DEF Goto, Sections
<1>1. ASSUME NEW l \in Lockers, Call(l) \/ Unlock(l) \/ WaitOk(l) PROVE OwnerInv'
  <2>1. bucketOwner' = bucketOwner /\ l \in Threads
    BY <1>1 DEF Call, Unlock, WaitOk, LockBegin, ConvertBegin, DowngradeBegin, WaitTimeout,
                UnlockRecursive, UnlockPartitioned, UnlockToBucket, Threads
  <2>2. \/ pc' = pc /\ pc[l] = "idle"
        \/ \E x \in {"lock", "convert", "downgrade", "timedOut", "idle", "unlock"} :
              pc' = [pc EXCEPT ![l] = x]
    BY <1>1 DEF Call, Unlock, WaitOk, LockBegin, ConvertBegin, DowngradeBegin, WaitTimeout,
                UnlockRecursive, UnlockPartitioned, UnlockToBucket, Holder
  <2> QED BY <2>1, <2>2, OwnerStep DEF TypeOK
<1>2. ASSUME NEW l \in Lockers, EnterBucket(l) PROVE OwnerInv'
  <2>1. bucketOwner \in {NoOwner, l} /\ l \in Threads
    BY <1>2 DEF EnterBucket, InBucket, LockStartPartition, LockMigrate, LockNewRequest,
                ConvertMigrate, Convert, Downgrade, UnlockGranted, UnlockWaiting,
                UnlockConverting, Threads
  <2>2. \/ /\ bucketOwner' = l
           /\ \E x \in {"migrate", "convScan"} : pc' = [pc EXCEPT ![l] = x]
        \/ \E x \in {"idle", "waiting"} : pc' = [pc EXCEPT ![l] = x]
    BY <1>2 DEF EnterBucket, LockStartPartition, LockMigrate, LockNewRequest, ConvertMigrate,
                Convert, Downgrade, UnlockGranted, UnlockWaiting, UnlockConverting, StartScan
  <2> QED BY <2>1, <2>2, OwnerStep DEF TypeOK
<1>3. ASSUME NEW l \in Lockers, Scan(l) PROVE OwnerInv'
  <2>1. bucketOwner = l /\ l \in Threads
    BY <1>3 DEF Scan, ConvScanSkip, ConvScanGrant, ConvScanNotify, ConvScanEnd,
                ConflictScanSkip, ConflictScanGrant, ConflictScanNotify, ConflictScanEnd,
                ScanReturn, InConflictLoop, Threads
  <2>2. CASE ScanReturn(l)
    <3>1. pc' = [pc EXCEPT ![l] = "idle"]
      BY <2>2 DEF ScanReturn
    <3> QED BY <2>1, <3>1, OwnerStep DEF TypeOK
  <2>3. CASE ~ScanReturn(l)
    <3>1. bucketOwner' = bucketOwner /\ (pc' = pc \/ \E x : pc' = [pc EXCEPT ![l] = x])
      BY <1>3, <2>3
         DEF Scan, ConvScanSkip, ConvScanGrant, ConvScanNotify, ConvScanEnd,
             ConflictScanSkip, ConflictScanGrant, ConflictScanNotify, ConflictScanEnd
    <3> QED BY <2>1, <3>1, OwnerStep
  <2> QED BY <2>2, <2>3
<1>4. ASSUME NEW t \in Threads, Migrate(t) PROVE OwnerInv'
  <2>1. bucketOwner = t /\ bucketOwner' = bucketOwner
    BY <1>4 DEF Migrate, MigrateBegin, MigrateMove, MigrateEnd, threadVars
  <2>2. pc' = pc \/ \E x : pc' = [pc EXCEPT ![t] = x]
    BY <1>4 DEF Migrate, MigrateBegin, MigrateMove, MigrateEnd, threadVars
  <2> QED BY <2>1, <2>2, OwnerStep
<1>5. CASE CleanupMigrate \/ Cleanup
  <2>1. bucketOwner \in {NoOwner, Cleaner} /\ Cleaner \in Threads
    BY <1>5 DEF CleanupMigrate, Cleanup, BucketFree, InBucket, Threads
  <2>2. \/ bucketOwner' = Cleaner /\ pc' = [pc EXCEPT ![Cleaner] = "migrate"]
        \/ pc' = [pc EXCEPT ![Cleaner] = "idle"]
    BY <1>5 DEF CleanupMigrate, Cleanup
  <2> QED BY <2>1, <2>2, OwnerStep DEF TypeOK
<1>6. CASE UNCHANGED vars
  BY <1>6 DEF vars, threadVars, OwnerInv
<1> QED BY <1>1, <1>2, <1>3, <1>4, <1>5, <1>6 DEF Next

\* A thread that migrates a partition moves intent locks to a LockHead on which
\* only intent modes are granted and nobody waits: all of them are granted there.
LEMMA MovedIsGranted == IInv /\ OwnerInv => MigrationGrants
<1> SUFFICES ASSUME IInv, OwnerInv, NEW t \in Threads, pc[t] = "moving",
                    plhList[Last(partitions)] # <<>>
             PROVE  ~MustWait(Head(plhList[Last(partitions)]))
  BY DEF MigrationGrants
<1> DEFINE p == Last(partitions)
           r == Head(plhList[p])
<1>1. partitions # <<>> /\ partitions \in Seq(Partitions)
  <2>1. bucketOwner = t /\ t # NoOwner
    BY LockersAssumption DEF OwnerInv, Sections, Threads
  <2> QED BY <2>1 DEF IInv, TypeOK, MigrationInv
<1>2. p \in Partitions
  BY <1>1 DEF Last
<1>3. plhList[p] \in Seq(Lockers) /\ Represents(plhList[p], InPartition(p))
  BY <1>2 DEF IInv, TypeOK, ListsInv
<1>4. r \in Lockers /\ where[r] = "partition"
  BY <1>3 DEF Represents, InPartition
<1>5. /\ mode[r] \in intentModes /\ conflictModes = {}
      /\ grantedModes \in SUBSET intentModes
  BY <1>1, <1>4 DEF IInv, PartitionedImpliesIntent
<1>6. ~conflicts(mode[r], grantedModes) /\ ~conflicts(mode[r], conflictModes)
  BY <1>5, IntentCompatible
<1> QED BY <1>6 DEF MustWait

\* Mutual exclusion, and what it rests on when intent locks skip the bucket mutex
\* and migratePartitionedLockHeads brings them back.
THEOREM ExclusionHolds == Spec => []Exclusion
<1>1. Init => OwnerInv
  BY LockersAssumption DEF Init, OwnerInv, Sections
<1>2. TypeOK /\ OwnerInv /\ [Next]_vars => OwnerInv'
  BY OwnerNext
<1>3. Spec => []OwnerInv
  BY <1>1, <1>2, TypeCorrect, PTL DEF Spec
<1>4. IInv /\ OwnerInv => Exclusion
  BY MovedIsGranted DEF IInv, Exclusion
<1> QED BY <1>3, <1>4, Invariance, PTL

\* The lists of the LockHead and of the PartitionedLockHeads hold exactly the
\* requests whose status says so, each of them once.
THEOREM ListsExact == Spec => []ListsMatch
<1>1. ASSUME IInv PROVE ListsMatch
  <2>1. /\ grantedList \in Seq(Lockers) /\ conflictList \in Seq(Lockers)
        /\ \A p \in Partitions : plhList[p] \in Seq(Lockers)
        /\ Represents(grantedList, Holders) /\ Represents(conflictList, Waiters)
        /\ \A p \in Partitions : Represents(plhList[p], InPartition(p))
    BY <1>1 DEF IInv, TypeOK, ListsInv
  <2>2. \A s \in Seq(Lockers) : \A W : Represents(s, W) => IsInjective(s) /\ Range(s) = W
    BY DEF Represents, IsInjective, Range
  <2>3. Holders = UNION {HoldersIn(m) : m \in Modes}
    BY <1>1 DEF Holders, HoldersIn, OnHead, IInv, RequestInv, ReqInv
  <2>4. Waiters = UNION {WaitersIn(m) : m \in Modes}
    BY <1>1 DEF Waiters, WaitersIn, IInv, RequestInv, ReqInv
  <2> QED BY <2>1, <2>2, <2>3, <2>4 DEF ListsMatch, InPartition
<1>2. IInv => ListsMatch
  BY <1>1
<1> QED BY Invariance, <1>2, PTL

\* The assertions of cleanupUnusedLocks: a LockHead that grants nothing, when
\* nobody is working on it, has nothing waiting on it either.
THEOREM NoOrphans == Spec => []NothingOrphaned
<1>1. ASSUME IInv, BucketFree, grantedModes = {}
      PROVE  conflictList = <<>> /\ conflictModes = {} /\ conversionsCount = 0
  <2>1. ~WillCheckQueue
    BY <1>1, LockersAssumption DEF BucketFree, WillCheckQueue
  <2>2. conflictList = <<>>
    BY <1>1, <2>1 DEF IInv, QueueInv
  <2>3. conflictModes = {}
    BY <1>1, <2>2, QueueModes
  <2>4. {l \in Lockers : status[l] = "converting"} = {}
    BY <1>1, Counted DEF IInv, RequestInv, ReqInv
  <2>5. conversionsCount = 0
    BY <1>1, <2>4, FS_EmptySet DEF IInv, CountsMatch
  <2> QED BY <2>2, <2>3, <2>5
<1>2. IInv => NothingOrphaned
  BY <1>1 DEF NothingOrphaned
<1> QED BY Invariance, <1>2, PTL

\* The lock manager implements the abstract lock: every step of it that changes
\* what is granted acquires, changes or releases one compatible mode.
THEOREM Implementation == Spec => ImplementsLockSpec
<1>0. /\ Abstract!NoMode = NoMode /\ Abstract!Modes = Modes /\ Abstract!AnyMode = AnyMode
      /\ Abstract!LockConflictsTable = LockConflictsTable
  BY DEF NoMode, Modes, AnyMode, LockConflictsTable, Abstract!NoMode, Abstract!Modes,
         Abstract!AnyMode, Abstract!LockConflictsTable
<1>1. Init => Abstract!Init
  BY <1>0 DEF Init, Abstract!Init, HeldMode
<1>2. ASSUME IInv, HeldStep PROVE [Abstract!Next]_([l \in Lockers |-> HeldMode(l)])
  <2> DEFINE held == [l \in Lockers |-> HeldMode(l)]
  <2>1. CASE HeldSame
    <3>1. held' = held
      BY <2>1 DEF HeldSame
    <3> QED BY <3>1
  <2>2. ASSUME NEW l \in Lockers, HeldChange(l) PROVE Abstract!Next \/ held' = held
    <3>1. PICK m \in AnyMode : m = HeldMode(l)'
      BY <2>2 DEF HeldChange
    <3>2. held' = [held EXCEPT ![l] = m]
      BY <2>2, <3>1 DEF HeldChange
    <3>3. \A k \in Lockers : held[k] = HeldMode(k)
      OBVIOUS
    <3>4. CASE m = NoMode
      <4>1. CASE held[l] = NoMode
        BY <3>2, <3>4, <4>1
      <4>2. CASE held[l] # NoMode
        <5>1. Abstract!Release(l)
          BY <1>0, <3>2, <3>4, <4>2 DEF Abstract!Release
        <5> QED BY <5>1 DEF Abstract!Next
      <4> QED BY <4>1, <4>2
    <3>5. CASE m \in Modes
      <4>1. Abstract!CompatibleWithOthers(l, m)
        BY <1>0, <2>2, <3>1, <3>3
           DEF HeldChange, CompatibleMode, Abstract!CompatibleWithOthers, conflicts,
               Abstract!conflicts
      <4>2. Abstract!Acquire(l, m) \/ Abstract!ChangeMode(l, m)
        BY <3>2, <4>1 DEF Abstract!Acquire, Abstract!ChangeMode
      <4> QED BY <1>0, <3>5, <4>2 DEF Abstract!Next
    <3> QED BY <3>4, <3>5 DEF AnyMode
  <2> QED BY <1>2, <2>1, <2>2 DEF HeldStep
<1>3. IInv /\ [Next]_vars => [Abstract!Next]_([l \in Lockers |-> HeldMode(l)])
  BY <1>2, NextStep
<1> QED BY <1>1, <1>3, Invariance, PTL DEF Spec, ImplementsLockSpec, Abstract!Spec

-----------------------------------------------------------------------------
(***************************************************************************)
(* What the requests, the queue and the threads promise each other.  Where  *)
(* the code is right only for some choice of the options, the invariant has *)
(* that choice as a hypothesis.                                            *)
(***************************************************************************)

\* Nobody upgrades the intent lock of a priority resource to a full mode.
NoFullUpgrades == Priority => UpgradeModes \cap {"S", "X"} = {}

\* The steps of a thread that runs _onLockModeChanged.
Scanning == {"convScan", "convNotify", "conflictScan", "conflictNotify", "scanDone"}

\* The locker is in a call of convert, to a mode it does not hold yet.
Upgrading(l) == pc[l] \in {"convert", "migrate", "moving"} /\ status[l] = "granted"

\* A request that is on no list is being unlocked, for the last time.
KeepInv(l) ==
    ~ConversionTimeouts =>
        /\ pc[l] = "timedOut" => recursiveCount[l] = 1
        /\ pc[l] = "unlock" => recursiveCount[l] = 0
        /\ status[l] \in {"granted", "waiting"} /\ where[l] = "none" =>
              pc[l] \in Scanning /\ recursiveCount[l] = 0

\* On a priority resource, exactly the full modes ask for compatible-first, and
\* a conversion does not change what was asked for.
PolicyInv(l) ==
    /\ compatibleFirst[l] => Priority
    /\ Priority /\ NoFullUpgrades =>
          /\ mode[l] \in {"S", "X"} => compatibleFirst[l]
          /\ Upgrading(l) => want[l] \notin {"S", "X"}
          /\ status[l] = "converting" => convertMode[l] \notin {"S", "X"}

\* A conversion is to a mode that covers what is held.
UpgradeInv(l) ==
    /\ Upgrading(l) => isModeCovered(mode[l], want[l])
    /\ status[l] = "converting" => isModeCovered(mode[l], convertMode[l])

FieldInv(l) == KeepInv(l) /\ PolicyInv(l) /\ UpgradeInv(l)

FieldsInv == \A l \in Lockers : FieldInv(l)

-----------------------------------------------------------------------------
(***************************************************************************)
(* The fields of a request, one step at a time                             *)
(***************************************************************************)

\* The types of the fields.
FieldTypes ==
    /\ status \in [Lockers -> Statuses] /\ where \in [Lockers -> {"none", "partition", "head"}]
    /\ mode \in [Lockers -> AnyMode] /\ convertMode \in [Lockers -> AnyMode]
    /\ want \in [Lockers -> AnyMode] /\ recursiveCount \in [Lockers -> Nat]
    /\ compatibleFirst \in [Lockers -> BOOLEAN]
    /\ notify \in [Lockers -> {"INVALID", "OK"}]
    /\ pc \in [Threads -> PcValues] /\ Lockers \subseteq Threads

\* The type invariant gives these types.
LEMMA FieldTypesHold == ASSUME TypeOK PROVE FieldTypes
BY DEF TypeOK, FieldTypes, Threads

\* Nothing of locker k changes.
Same(k) ==
    /\ SameRequest(k)
    /\ compatibleFirst'[k] = compatibleFirst[k] /\ notify'[k] = notify[k]

\* The invariants of a locker that a step leaves alone.
LEMMA SameField == ASSUME NEW k \in Lockers, FieldInv(k), Same(k) PROVE FieldInv(k)'
BY DEF Same, SameRequest, FieldInv, KeepInv, PolicyInv, UpgradeInv, Upgrading

\* The invariants hold before the first call.
LEMMA FieldsInit == Init => FieldsInv
BY DEF Init, FieldsInv, FieldInv, KeepInv, PolicyInv, UpgradeInv, Upgrading, Threads, NoMode

\* A call of locker l leaves the others alone, up to _onLockModeChanged.
LEMMA OthersSame ==
    ASSUME IInv, NEW l \in Lockers, Call(l) \/ WaitOk(l) \/ Unlock(l) \/ EnterBucket(l),
           NEW k \in Lockers \ {l}
    PROVE  Same(k)
<1>0. FieldTypes
  BY FieldTypesHold DEF IInv
<1> USE DEF Goto, Same, SameRequest, FieldTypes
<1>1. CASE Call(l) \/ WaitOk(l)
  <2>1. ASSUME NEW m \in RequestModes, LockBegin(l, m) PROVE Same(k)
    BY <1>0, <2>1 DEF LockBegin, ClearNotify
  <2>2. ASSUME NEW m \in RequestModes, ConvertBegin(l, m) PROVE Same(k)
    BY <1>0, <2>2 DEF ConvertBegin, ClearNotify
  <2>3. ASSUME NEW m \in RequestModes, DowngradeBegin(l, m) PROVE Same(k)
    BY <1>0, <2>3 DEF DowngradeBegin, requestVars
  <2>4. CASE WaitTimeout(l) \/ WaitOk(l)
    BY <1>0, <2>4 DEF WaitTimeout, WaitOk, requestVars
  <2> QED BY <1>1, <2>1, <2>2, <2>3, <2>4 DEF Call
<1>2. CASE Unlock(l)
  <2>1. CASE UnlockRecursive(l)
    BY <1>0, <2>1 DEF UnlockRecursive
  <2>2. CASE UnlockPartitioned(l)
    BY <1>0, <2>2 DEF UnlockPartitioned, RemoveRequest
  <2>3. CASE UnlockToBucket(l)
    BY <1>0, <2>3 DEF UnlockToBucket
  <2> QED BY <1>2, <2>1, <2>2, <2>3 DEF Unlock
<1>3. CASE EnterBucket(l)
  <2>1. CASE LockStartPartition(l)
    BY <1>0, <2>1 DEF LockStartPartition
  <2>2. CASE LockMigrate(l) \/ ConvertMigrate(l)
    BY <1>0, <2>2 DEF LockMigrate, ConvertMigrate, requestVars
  <2>3. CASE LockNewRequest(l)
    <3>1. status'[k] = status[k] /\ where'[k] = where[k]
      BY <1>0, <2>3 DEF LockNewRequest, NewRequest
    <3> QED BY <1>0, <2>3, <3>1 DEF LockNewRequest
  <2>4. CASE Convert(l)
    <3>1. status'[k] = status[k] /\ mode'[k] = mode[k] /\ convertMode'[k] = convertMode[k]
      BY <1>0, <2>4 DEF Convert
    <3> QED BY <1>0, <2>4, <3>1 DEF Convert
  <2>5. CASE Downgrade(l)
    BY <1>0, <2>5 DEF Downgrade, StartScan
  <2>6. CASE UnlockGranted(l) \/ UnlockWaiting(l) \/ UnlockConverting(l)
    BY <1>0, <2>6 DEF UnlockGranted, UnlockWaiting, UnlockConverting, StartScan
  <2> QED BY <1>3, <2>1, <2>2, <2>3, <2>4, <2>5, <2>6 DEF EnterBucket
<1> QED BY <1>1, <1>2, <1>3

\* The calls of a client.
LEMMA FieldsCall ==
    ASSUME IInv, FieldsInv, NEW l \in Lockers, Call(l) \/ WaitOk(l)
    PROVE  FieldsInv'
<1> USE DEF Goto
<1>0. FieldTypes /\ FieldInv(l) /\ ReqInv(l)
  BY FieldTypesHold DEF IInv, FieldsInv, RequestInv
<1>1. ASSUME NEW k \in Lockers \ {l} PROVE FieldInv(k)'
  BY <1>1, OthersSame, SameField DEF FieldsInv
<1>2. FieldInv(l)'
  <2> USE DEF FieldInv, KeepInv, PolicyInv, UpgradeInv, Upgrading
  <2>1. ASSUME NEW m \in RequestModes, LockBegin(l, m) PROVE FieldInv(l)'
    <3>1. /\ \/ status'[l] = "granted" /\ where'[l] = "partition"
             \/ status'[l] = "new"
          /\ pc'[l] \in {"idle", "lock"} /\ mode'[l] = m
      BY <1>0, <2>1 DEF LockBegin, FieldTypes
    <3>2. compatibleFirst'[l] <=> (Priority /\ m \in {"S", "X"})
      BY <1>0, <2>1 DEF LockBegin, FieldTypes, GivesPriority
    <3> QED BY <3>1, <3>2
  <2>2. ASSUME NEW m \in RequestModes, ConvertBegin(l, m) PROVE FieldInv(l)'
    <3>1. /\ status'[l] = "granted" /\ where'[l] # "none" /\ mode'[l] = mode[l]
          /\ status[l] = "granted" /\ convertMode'[l] = convertMode[l]
      BY <1>0, <2>2 DEF ConvertBegin, Holder
    <3>2. \/ pc'[l] = "idle"
          \/ /\ pc'[l] = "convert" /\ want'[l] = m /\ m \in UpgradeModes
             /\ isModeCovered(mode[l], m)
      BY <1>0, <2>2 DEF ConvertBegin, Holder, FieldTypes
    <3>3. compatibleFirst'[l] <=> (compatibleFirst[l] \/ GivesPriority(m))
      BY <1>0, <2>2 DEF ConvertBegin, FieldTypes
    <3>4. KeepInv(l)' /\ UpgradeInv(l)'
      BY <3>1, <3>2
    <3>5. PolicyInv(l)'
      BY <1>0, <3>1, <3>2, <3>3 DEF GivesPriority, NoFullUpgrades
    <3> QED BY <3>4, <3>5
  <2>3. ASSUME NEW m \in RequestModes, DowngradeBegin(l, m) PROVE FieldInv(l)'
    BY <1>0, <2>3 DEF DowngradeBegin, Holder, FieldTypes, requestVars
  <2>4. CASE WaitTimeout(l) \/ WaitOk(l)
    BY <1>0, <2>4 DEF WaitTimeout, WaitOk, FieldTypes, requestVars, ReqInv
  <2> QED BY <2>1, <2>2, <2>3, <2>4 DEF Call
<1> QED BY <1>1, <1>2 DEF FieldsInv

\* The first step of unlock.
LEMMA FieldsUnlock ==
    ASSUME IInv, FieldsInv, NEW l \in Lockers, Unlock(l)
    PROVE  FieldsInv'
<1> USE DEF Goto
<1>0. FieldTypes /\ FieldInv(l) /\ ReqInv(l)
  BY FieldTypesHold DEF IInv, FieldsInv, RequestInv
<1>1. ASSUME NEW k \in Lockers \ {l} PROVE FieldInv(k)'
  BY <1>1, OthersSame, SameField DEF FieldsInv
<1>2. FieldInv(l)'
  <2> USE DEF FieldInv, KeepInv, PolicyInv, UpgradeInv, Upgrading
  <2>1. CASE UnlockRecursive(l)
    BY <1>0, <2>1 DEF UnlockRecursive, CallsUnlock, Holder, IsRecursive, FieldTypes, ReqInv
  <2>2. CASE UnlockPartitioned(l)
    BY <1>0, <2>2 DEF UnlockPartitioned, RemoveRequest, FieldTypes, NoMode
  <2>3. CASE UnlockToBucket(l)
    <3>1. /\ recursiveCount'[l] = recursiveCount[l] - 1 /\ pc'[l] = "unlock"
          /\ where'[l] # "none" /\ pc[l] \in {"idle", "timedOut"}
          /\ UNCHANGED <<status, mode, convertMode, compatibleFirst, want>>
      BY <1>0, <2>3 DEF UnlockToBucket, CallsUnlock, Holder, FieldTypes, ReqInv
    <3>2. ~ConversionTimeouts => recursiveCount[l] = 1
      BY <1>0, <2>3 DEF UnlockToBucket, CallsUnlock, Holder, IsRecursive, FieldTypes, ReqInv
    <3> QED BY <1>0, <3>1, <3>2
  <2> QED BY <2>1, <2>2, <2>3 DEF Unlock
<1> QED BY <1>1, <1>2 DEF FieldsInv

\* The sections of the bucket mutex that lock and convert begin with.
LEMMA FieldsEnter ==
    ASSUME IInv, FieldsInv, NEW l \in Lockers, EnterBucket(l)
    PROVE  FieldsInv'
<1> USE DEF Goto
<1>0. FieldTypes /\ FieldInv(l) /\ ReqInv(l)
  BY FieldTypesHold DEF IInv, FieldsInv, RequestInv
<1>1. ASSUME NEW k \in Lockers \ {l} PROVE FieldInv(k)'
  BY <1>1, OthersSame, SameField DEF FieldsInv
<1>2. FieldInv(l)'
  <2> USE DEF FieldInv, KeepInv, PolicyInv, UpgradeInv, Upgrading
  <2>1. CASE LockStartPartition(l)
    BY <1>0, <2>1 DEF LockStartPartition, FieldTypes
  <2>2. CASE LockMigrate(l) \/ ConvertMigrate(l)
    BY <1>0, <2>2 DEF LockMigrate, ConvertMigrate, requestVars, FieldTypes, ReqInv, InBucket
  <2>3. CASE LockNewRequest(l)
    <3>1. /\ status'[l] \in {"waiting", "granted"} /\ where'[l] = "head"
          /\ pc'[l] \in {"waiting", "idle"}
          /\ UNCHANGED <<mode, compatibleFirst>>
      BY <1>0, <2>3 DEF LockNewRequest, NewRequest, FieldTypes
    <3> QED BY <1>0, <3>1
  <2>4. CASE Convert(l)
    <3>1. /\ status[l] = "granted" /\ where[l] # "none" /\ where'[l] = where[l]
          /\ pc[l] = "convert" /\ pc'[l] \in {"waiting", "idle"}
          /\ compatibleFirst'[l] = compatibleFirst[l]
      BY <1>0, <2>4 DEF Convert, InBucket, ReqInv, FieldTypes
    <3>2. \/ /\ status'[l] = "converting" /\ convertMode'[l] = want[l]
             /\ mode'[l] = mode[l]
          \/ status'[l] = "granted" /\ mode'[l] = want[l]
      BY <1>0, <3>1, <2>4 DEF Convert, FieldTypes
    <3> QED BY <1>0, <3>1, <3>2
  <2>5. CASE Downgrade(l)
    <3>1. /\ status[l] = "granted" /\ where[l] = "head" /\ mode[l] \in {"S", "X"}
          /\ pc'[l] = "convScan" /\ status'[l] = status[l] /\ where'[l] = where[l]
          /\ compatibleFirst'[l] = compatibleFirst[l]
      BY <1>0, <2>5 DEF Downgrade, InBucket, ReqInv, FieldTypes, StartScan
    <3> QED BY <1>0, <3>1
  <2>6. CASE UnlockGranted(l) \/ UnlockWaiting(l)
    <3>1. /\ pc[l] = "unlock" /\ pc'[l] = "convScan"
          /\ UNCHANGED <<status, mode, convertMode, compatibleFirst, recursiveCount>>
          /\ status[l] # "converting"
      BY <1>0, <2>6 DEF UnlockGranted, UnlockWaiting, InBucket, StartScan, FieldTypes
    <3> QED BY <1>0, <3>1 DEF Scanning
  <2>7. CASE UnlockConverting(l)
    <3>1. /\ where'[l] = "head" /\ pc'[l] = "convScan" /\ status'[l] = "granted"
          /\ UNCHANGED <<mode, compatibleFirst>>
      BY <1>0, <2>7 DEF UnlockConverting, InBucket, StartScan, FieldTypes, ReqInv
    <3> QED BY <1>0, <3>1
  <2> QED BY <2>1, <2>2, <2>3, <2>4, <2>5, <2>6, <2>7 DEF EnterBucket
<1> QED BY <1>1, <1>2 DEF FieldsInv

\* The request at the cursor of the scan of the granted list.
LEMMA AtCursor ==
    ASSUME IInv, InConvLoop
    PROVE  /\ scan.pos \in 1..Len(grantedList) /\ grantedList[scan.pos] \in Lockers
           /\ where[grantedList[scan.pos]] = "head"
           /\ status[grantedList[scan.pos]] \in {"granted", "converting"}
<1>1. scan.pos \in 1..Len(grantedList)
  BY ScanExcept DEF InConvLoop, IInv, TypeOK
<1> QED BY <1>1 DEF IInv, ListsInv, Represents, Holders

\* The request at the cursor of the scan of the conflict queue.
LEMMA AtQueueCursor ==
    ASSUME IInv, scan.pos <= Len(conflictList)
    PROVE  /\ scan.pos \in 1..Len(conflictList) /\ conflictList[scan.pos] \in Lockers
           /\ where[conflictList[scan.pos]] = "head"
           /\ status[conflictList[scan.pos]] = "waiting"
<1>1. scan.pos \in 1..Len(conflictList)
  BY ScanExcept DEF IInv, TypeOK
<1> QED BY <1>1 DEF IInv, ListsInv, Represents, Waiters

\* What the grant of a pending conversion changes: request r, and the thread t.
LEMMA ConvGrantFields ==
    ASSUME IInv, NEW t \in Lockers, ConvScanGrant(t)
    PROVE  \E r \in Lockers :
              /\ r = grantedList[scan.pos] /\ where[r] = "head" /\ status[r] = "converting"
              /\ status'[r] = "granted" /\ mode'[r] = convertMode[r]
              /\ pc[t] = "convScan" /\ pc'[t] = "convNotify" /\ bucketOwner = t
              /\ \A k \in Threads \ {t} : pc'[k] = pc[k]
              /\ \A k \in Lockers \ {r} :
                    /\ status'[k] = status[k] /\ mode'[k] = mode[k]
                    /\ convertMode'[k] = convertMode[k]
              /\ UNCHANGED <<recursiveCount, partitioned, compatibleFirst, where, want,
                             notify, grantedList, conflictList, bucketOwner, scan>>
<1>0. FieldTypes /\ InConvLoop
  BY FieldTypesHold DEF IInv, ConvScanGrant
<1>1. PICK r \in Lockers : r = grantedList[scan.pos] /\ where[r] = "head"
  BY <1>0, AtCursor
<1>2. status[r] = "converting"
  BY <1>1 DEF ConvScanGrant, CanConvert
<1>3. /\ status' = [status EXCEPT ![r] = "granted"]
      /\ mode' = [mode EXCEPT ![r] = convertMode[r]]
      /\ convertMode' = [convertMode EXCEPT ![r] = NoMode]
      /\ pc' = [pc EXCEPT ![t] = "convNotify"] /\ pc[t] = "convScan" /\ bucketOwner = t
      /\ UNCHANGED <<recursiveCount, partitioned, compatibleFirst, where, want,
                     notify, grantedList, conflictList, bucketOwner, scan>>
  BY <1>1 DEF ConvScanGrant, Goto
<1> QED BY <1>0, <1>1, <1>2, <1>3 DEF FieldTypes

\* What a grant from the conflict queue changes: request r, and the thread t.
LEMMA QueueGrantFields ==
    ASSUME IInv, NEW t \in Lockers, ConflictScanGrant(t)
    PROVE  \E r \in Lockers :
              /\ r = conflictList[scan.pos] /\ where[r] = "head" /\ status[r] = "waiting"
              /\ status'[r] = "granted" /\ ~conflicts(mode[r], grantedModes)
              /\ pc[t] = "conflictScan" /\ pc'[t] = "conflictNotify" /\ bucketOwner = t
              /\ \A k \in Threads \ {t} : pc'[k] = pc[k]
              /\ \A k \in Lockers \ {r} : status'[k] = status[k]
              /\ grantedList' = Append(grantedList, r)
              /\ compatibleFirstCount' = PolicyAcquired(r)
              /\ scan' = [scan EXCEPT !.newly =
                              @ \/ (compatibleFirst[r] /\ compatibleFirstCount = 0)]
              /\ UNCHANGED <<mode, convertMode, recursiveCount, partitioned,
                             compatibleFirst, where, want, notify, bucketOwner>>
<1>0. FieldTypes /\ scan.pos <= Len(conflictList)
  BY FieldTypesHold DEF IInv, ConflictScanGrant, InConflictLoop
<1>1. PICK r \in Lockers : r = conflictList[scan.pos] /\ where[r] = "head" /\ status[r] = "waiting"
  BY <1>0, AtQueueCursor
<1>2. /\ status' = [status EXCEPT ![r] = "granted"] /\ ~conflicts(mode[r], grantedModes)
      /\ pc' = [pc EXCEPT ![t] = "conflictNotify"] /\ pc[t] = "conflictScan" /\ bucketOwner = t
      /\ grantedList' = Append(grantedList, r)
      /\ compatibleFirstCount' = PolicyAcquired(r)
      /\ scan' = [scan EXCEPT !.newly = @ \/ (compatibleFirst[r] /\ compatibleFirstCount = 0)]
      /\ UNCHANGED <<mode, convertMode, recursiveCount, partitioned,
                     compatibleFirst, where, want, notify, bucketOwner>>
  BY <1>1 DEF ConflictScanGrant, InConflictLoop, Goto
<1> QED BY <1>0, <1>1, <1>2 DEF FieldTypes

\* The steps of _onLockModeChanged that change no request: only its thread moves.
ScanMoves(t) ==
    \/ ConvScanSkip(t) \/ ConvScanNotify(t) \/ ConvScanEnd(t)
    \/ ConflictScanSkip(t) \/ ConflictScanNotify(t) \/ ConflictScanEnd(t)

\* The steps of a scan that grant nothing change no request and no list.
LEMMA ScanMovesFields ==
    ASSUME IInv, NEW t \in Lockers, ScanMoves(t)
    PROVE  /\ UNCHANGED <<requestVars, headVars, plhVars, want, bucketOwner>>
           /\ bucketOwner = t
           /\ pc[t] \in Scanning \ {"scanDone"} /\ pc'[t] \in Scanning
           /\ \A k \in Threads \ {t} : pc'[k] = pc[k]
<1>0. FieldTypes
  BY FieldTypesHold DEF IInv
<1> QED BY <1>0 DEF ScanMoves, ConvScanSkip, ConvScanNotify, ConvScanEnd, ConflictScanSkip,
              ConflictScanNotify, ConflictScanEnd, InConflictLoop, Goto, FieldTypes, Scanning

\* What the return of _onLockModeChanged changes.
LEMMA ScanReturnFields ==
    ASSUME IInv, NEW l \in Lockers, ScanReturn(l)
    PROVE  /\ pc[l] = "scanDone" /\ pc'[l] = "idle" /\ bucketOwner = l
           /\ \A k \in Threads \ {l} : pc'[k] = pc[k]
           /\ \A k \in Lockers \ {l} : Same(k)
           /\ bucketOwner' = NoOwner /\ scan' = NoScan
           /\ UNCHANGED <<where, headVars, plhVars, want, notify>>
           /\ \/ /\ recursiveCount[l] = 0 /\ status'[l] = "none" /\ mode'[l] = NoMode
                 /\ compatibleFirst'[l] = FALSE
              \/ recursiveCount[l] # 0 /\ UNCHANGED requestVars
<1>0. FieldTypes
  BY FieldTypesHold DEF IInv
<1>1. /\ pc' = [pc EXCEPT ![l] = "idle"] /\ pc[l] = "scanDone" /\ bucketOwner = l
      /\ bucketOwner' = NoOwner /\ scan' = NoScan
      /\ UNCHANGED <<where, headVars, plhVars, want, notify>>
  BY DEF ScanReturn, Goto
<1>2. CASE recursiveCount[l] = 0
  <2>1. RemoveRequest(l)
    BY <1>2 DEF ScanReturn
  <2>2. status'[l] = "none" /\ mode'[l] = NoMode /\ compatibleFirst'[l] = FALSE
    BY <1>0, <2>1 DEF RemoveRequest, FieldTypes
  <2>3. ASSUME NEW k \in Lockers \ {l} PROVE Same(k)
    BY <1>0, <1>1, <2>1, <2>3 DEF RemoveRequest, FieldTypes, Same, SameRequest
  <2> QED BY <1>0, <1>1, <1>2, <2>2, <2>3 DEF FieldTypes
<1>3. CASE recursiveCount[l] # 0
  <2>1. UNCHANGED requestVars
    BY <1>1, <1>3 DEF ScanReturn, requestVars
  <2> QED BY <1>0, <1>1, <1>3, <2>1 DEF FieldTypes, Same, SameRequest, requestVars
<1> QED BY <1>2, <1>3

\* The steps of _onLockModeChanged.
LEMMA FieldsScan ==
    ASSUME IInv, FieldsInv, NEW t \in Lockers, Scan(t)
    PROVE  FieldsInv'
<1> SUFFICES ASSUME NEW k \in Lockers PROVE FieldInv(k)'
  BY DEF FieldsInv
<1>0. FieldTypes /\ FieldInv(k) /\ ReqInv(k)
  BY FieldTypesHold DEF IInv, FieldsInv, RequestInv
<1> USE DEF FieldInv, KeepInv, PolicyInv, UpgradeInv, Upgrading
<1>1. CASE ScanMoves(t)
  <2>1. /\ UNCHANGED requestVars /\ want' = want
        /\ pc'[k] = pc[k] \/ (pc[k] \in Scanning /\ pc'[k] \in Scanning)
    BY <1>0, <1>1, ScanMovesFields DEF FieldTypes
  <2> QED BY <1>0, <2>1 DEF requestVars, Scanning
<1>2. CASE ConvScanGrant(t)
  <2>1. PICK r \in Lockers :
              /\ where[r] = "head" /\ status[r] = "converting"
              /\ status'[r] = "granted" /\ mode'[r] = convertMode[r]
              /\ pc[t] = "convScan" /\ pc'[t] = "convNotify"
              /\ \A j \in Threads \ {t} : pc'[j] = pc[j]
              /\ \A j \in Lockers \ {r} :
                    /\ status'[j] = status[j] /\ mode'[j] = mode[j]
                    /\ convertMode'[j] = convertMode[j]
              /\ UNCHANGED <<recursiveCount, compatibleFirst, where, want>>
    BY <1>2, ConvGrantFields
  <2>2. pc'[k] = pc[k] \/ (pc[k] = "convScan" /\ pc'[k] = "convNotify")
    BY <1>0, <2>1 DEF FieldTypes
  <2>3. CASE k = r
    BY <1>0, <2>1, <2>2, <2>3 DEF ReqInv
  <2>4. CASE k # r
    BY <1>0, <2>1, <2>2, <2>4 DEF Scanning
  <2> QED BY <2>3, <2>4
<1>3. CASE ConflictScanGrant(t)
  <2>1. PICK r \in Lockers :
              /\ where[r] = "head" /\ status[r] = "waiting" /\ status'[r] = "granted"
              /\ pc[t] = "conflictScan" /\ pc'[t] = "conflictNotify"
              /\ \A j \in Threads \ {t} : pc'[j] = pc[j]
              /\ \A j \in Lockers \ {r} : status'[j] = status[j]
              /\ UNCHANGED <<mode, convertMode, recursiveCount, compatibleFirst, where, want>>
    BY <1>3, QueueGrantFields
  <2>2. pc'[k] = pc[k] \/ (pc[k] = "conflictScan" /\ pc'[k] = "conflictNotify")
    BY <1>0, <2>1 DEF FieldTypes
  <2>3. CASE k = r
    BY <1>0, <2>1, <2>2, <2>3 DEF ReqInv
  <2>4. CASE k # r
    BY <1>0, <2>1, <2>2, <2>4 DEF Scanning
  <2> QED BY <2>3, <2>4
<1>4. CASE ScanReturn(t)
  <2>1. CASE k # t
    <3>1. Same(k)
      BY <1>4, <2>1, ScanReturnFields
    <3> QED BY <3>1, <1>0, SameField
  <2>2. CASE k = t
    <3>1. /\ pc[k] = "scanDone" /\ pc'[k] = "idle" /\ where' = where
          /\ \/ /\ status'[k] = "none" /\ mode'[k] = NoMode /\ compatibleFirst'[k] = FALSE
             \/ recursiveCount[k] # 0 /\ UNCHANGED requestVars
      BY <1>4, <2>2, ScanReturnFields
    <3> QED BY <1>0, <3>1 DEF requestVars, NoMode
  <2> QED BY <2>1, <2>2
<1> QED BY <1>1, <1>2, <1>3, <1>4 DEF Scan, ScanMoves

\* What a step of migratePartitionedLockHeads that moves a request changes.
LEMMA MoveFields ==
    ASSUME IInv, OwnerInv, NEW t \in Threads, MigrateMove(t)
    PROVE  \E r \in Lockers :
              /\ where[r] = "partition" /\ where'[r] = "head"
              /\ status[r] = "granted" /\ status'[r] = "granted" /\ ~MustWait(r)
              /\ \A k \in Lockers \ {r} : Same(k)
              /\ conflictList' = conflictList /\ conflictModes' = conflictModes
              /\ grantedModes' = grantedModes \cup {mode[r]}
              /\ compatibleFirstCount' = PolicyAcquired(r)
              /\ partitions # <<>> /\ pc[t] = "moving" /\ bucketOwner = t
              /\ UNCHANGED <<mode, convertMode, recursiveCount, partitioned, compatibleFirst,
                             headExists, partitions, plhExists, threadVars>>
<1> DEFINE p == Last(partitions)
           h == Head(plhList[p])
<1>0. /\ FieldTypes /\ pc[t] = "moving" /\ bucketOwner = t /\ plhList[p] # <<>>
      /\ NewRequest(h)
      /\ UNCHANGED <<mode, convertMode, recursiveCount, partitioned, compatibleFirst,
                     headExists, partitions, conversionsCount, plhExists, threadVars>>
  BY FieldTypesHold DEF IInv, MigrateMove
<1>1. partitions # <<>> /\ partitions \in Seq(Partitions)
  <2>1. t # NoOwner
    BY LockersAssumption DEF Threads
  <2> QED BY <1>0, <2>1 DEF IInv, TypeOK, MigrationInv
<1>2. p \in Partitions
  BY <1>1 DEF Last
<1>3. h \in Lockers /\ where[h] = "partition"
  BY <1>0, <1>2 DEF IInv, TypeOK, ListsInv, Represents, InPartition
<1>4. ~MustWait(h)
  BY <1>0, MovedIsGranted DEF MigrationGrants
<1> HIDE DEF p, h
<1>5. status[h] = "granted" /\ mode[h] \in Modes
  BY <1>3, PartitionHolder DEF IInv, RequestInv, ReqInv
<1>6. /\ status' = [status EXCEPT ![h] = "granted"] /\ where' = [where EXCEPT ![h] = "head"]
      /\ compatibleFirstCount' = PolicyAcquired(h)
  BY <1>0, <1>4 DEF NewRequest
<1>7. /\ conflictList' = conflictList /\ conflictModes' = conflictModes
      /\ grantedModes' = grantedModes \cup {mode[h]}
  BY <1>0, <1>3, <1>4, <1>5, NewRequestStep
<1>8. ASSUME NEW k \in Lockers \ {h} PROVE Same(k)
  BY <1>0, <1>3, <1>6, <1>8 DEF Same, SameRequest, FieldTypes, threadVars
<1>9. where'[h] = "head" /\ status'[h] = "granted"
  BY <1>0, <1>3, <1>6 DEF FieldTypes
<1> QED BY <1>0, <1>1, <1>3, <1>4, <1>5, <1>6, <1>7, <1>8, <1>9

\* Migrations and cleanupUnusedLocks.
LEMMA FieldsRest ==
    ASSUME IInv, OwnerInv, FieldsInv,
           (\E t \in Threads : Migrate(t)) \/ CleanupMigrate \/ Cleanup \/ UNCHANGED vars
    PROVE  FieldsInv'
<1> SUFFICES ASSUME NEW k \in Lockers PROVE FieldInv(k)'
  BY DEF FieldsInv
<1>0. FieldTypes /\ FieldInv(k) /\ ReqInv(k)
  BY FieldTypesHold DEF IInv, FieldsInv, RequestInv
<1> USE DEF FieldInv, KeepInv, PolicyInv, UpgradeInv, Upgrading
<1>1. ASSUME NEW t \in Threads, MigrateBegin(t) PROVE FieldInv(k)'
  BY <1>0, <1>1 DEF MigrateBegin, FieldTypes, Goto, requestVars, Scanning
<1>2. ASSUME NEW t \in Threads, MigrateMove(t) PROVE FieldInv(k)'
  <2>1. PICK r \in Lockers :
              /\ where'[r] = "head" /\ status[r] = "granted" /\ status'[r] = "granted"
              /\ \A j \in Lockers \ {r} : Same(j)
              /\ UNCHANGED <<mode, convertMode, recursiveCount, compatibleFirst, threadVars>>
    BY <1>2, MoveFields
  <2>2. CASE k = r
    BY <1>0, <2>1, <2>2 DEF threadVars
  <2>3. CASE k # r
    BY <1>0, <2>1, <2>3, SameField
  <2> QED BY <2>2, <2>3
<1>3. ASSUME NEW t \in Threads, MigrateEnd(t) PROVE FieldInv(k)'
  <2>1. /\ UNCHANGED requestVars /\ want' = want
        /\ \/ pc'[k] = pc[k]
           \/ /\ pc[k] = "moving"
              /\ pc'[k] \in {"migrate", "lock", "convert"}
    BY <1>0, <1>3, LockersAssumption DEF MigrateEnd, FieldTypes, Goto, InterruptedCall
  <2> QED BY <1>0, <2>1 DEF requestVars, Scanning
<1>4. CASE CleanupMigrate \/ Cleanup
  <2>1. pc'[k] = pc[k]
    BY <1>0, <1>4, LockersAssumption DEF CleanupMigrate, Cleanup, Goto, FieldTypes, Threads
  <2> QED BY <1>0, <1>4, <2>1 DEF CleanupMigrate, Cleanup, requestVars
<1>5. CASE UNCHANGED vars
  BY <1>0, <1>5 DEF vars, requestVars, threadVars
<1> QED BY <1>1, <1>2, <1>3, <1>4, <1>5 DEF Migrate

\* Every step preserves the invariants of the fields.
LEMMA FieldsNext == ASSUME IInv, OwnerInv, FieldsInv, [Next]_vars PROVE FieldsInv'
BY FieldsCall, FieldsUnlock, FieldsEnter, FieldsScan, FieldsRest DEF Next

-----------------------------------------------------------------------------
(***************************************************************************)
(* The LockHead stays while requests hang off it                           *)
(***************************************************************************)

\* A LockHead that cleanupUnusedLocks deletes has no request.
LEMMA NothingLeft ==
    ASSUME IInv, bucketOwner \notin Lockers, partitions = <<>>, grantedModes = {}
    PROVE  \A l \in Lockers : where[l] = "none"
<1> SUFFICES ASSUME NEW l \in Lockers, where[l] # "none" PROVE FALSE
  OBVIOUS
<1>1. where[l] = "head"
  BY PartitionHolder DEF IInv, TypeOK
<1>2. status[l] \in {"granted", "converting", "waiting"}
  BY <1>1 DEF IInv, TypeOK, RequestInv, ReqInv, Statuses
<1>3. conflictList = <<>>
  BY DEF IInv, QueueInv, WillCheckQueue
<1>4. conflictModes = {}
  BY <1>3, QueueModes
<1> QED BY <1>1, <1>2, <1>4, Counted

\* Every step preserves HeadStays: cleanupUnusedLocks deletes an empty LockHead only.
LEMMA HeadStaysNext == ASSUME IInv, OwnerInv, HeadStays, [Next]_vars PROVE HeadStays'
<1> USE DEF HeadStays
<1>0. FieldTypes
  BY FieldTypesHold DEF IInv
<1>1. ASSUME NEW l \in Lockers, NEW m \in RequestModes, LockBegin(l, m) PROVE HeadStays'
  <2>1. CASE plhExists[PartitionOf[l]]
    <3>1. partitions # <<>>
      BY <2>1, PartitionAssumption DEF IInv, PartitionedImpliesIntent
    <3> QED BY <1>1, <3>1 DEF LockBegin, headVars
  <2>2. CASE ~plhExists[PartitionOf[l]]
    BY <1>1, <2>2 DEF LockBegin, headVars
  <2> QED BY <2>1, <2>2
<1>2. ASSUME NEW l \in Lockers, Call(l) \/ WaitOk(l),
             \A m \in RequestModes : ~LockBegin(l, m)
      PROVE  HeadStays'
  BY <1>2 DEF Call, ConvertBegin, DowngradeBegin, WaitTimeout, WaitOk, requestVars, headVars
<1>3. ASSUME NEW l \in Lockers, Unlock(l) PROVE HeadStays'
  BY <1>0, <1>3 DEF Unlock, UnlockRecursive, UnlockPartitioned, UnlockToBucket, headVars,
                    FieldTypes
<1>4. ASSUME NEW l \in Lockers, EnterBucket(l) PROVE HeadStays'
  <2>1. CASE LockStartPartition(l) \/ LockNewRequest(l)
    BY <2>1 DEF LockStartPartition, LockNewRequest
  <2>2. CASE LockMigrate(l) \/ ConvertMigrate(l)
    BY <2>2 DEF LockMigrate, ConvertMigrate, requestVars, headVars
  <2>3. CASE Convert(l) \/ Downgrade(l) \/ UnlockConverting(l)
    BY <2>3 DEF Convert, Downgrade, UnlockConverting
  <2>4. CASE UnlockGranted(l) \/ UnlockWaiting(l)
    BY <1>0, <2>4 DEF UnlockGranted, UnlockWaiting, FieldTypes
  <2> QED BY <1>4, <2>1, <2>2, <2>3, <2>4 DEF EnterBucket
<1>5. ASSUME NEW t \in Lockers, Scan(t) PROVE HeadStays'
  <2>1. UNCHANGED <<where, partitions, headExists>>
    BY <1>5 DEF Scan, ConvScanSkip, ConvScanGrant, ConvScanNotify, ConvScanEnd,
                ConflictScanSkip, ConflictScanGrant, ConflictScanNotify, ConflictScanEnd,
                ScanReturn, requestVars, headVars
  <2> QED BY <2>1
<1>6. ASSUME NEW t \in Threads, Migrate(t) PROVE HeadStays'
  <2>1. partitions # <<>> /\ headExists' = headExists
    <3>1. pc[bucketOwner] \in {"migrate", "moving"} /\ bucketOwner # NoOwner
      BY <1>6, LockersAssumption
         DEF Migrate, MigrateBegin, MigrateMove, MigrateEnd, Threads
    <3>2. headExists' = headExists
      BY <1>6 DEF Migrate, MigrateBegin, MigrateMove, MigrateEnd, headVars
    <3> QED BY <3>1, <3>2 DEF IInv, MigrationInv
  <2> QED BY <2>1
<1>7. CASE CleanupMigrate
  BY <1>7 DEF CleanupMigrate, requestVars, headVars
<1>8. CASE Cleanup
  <2>1. /\ bucketOwner \notin Lockers /\ partitions = <<>> /\ partitions' = partitions
        /\ headExists' = (grantedModes # {}) /\ where' = where
    BY <1>8, LockersAssumption DEF Cleanup, Unpartitioned, BucketFree, InBucket, requestVars
  <2> QED BY <2>1, NothingLeft
<1>9. CASE UNCHANGED vars
  BY <1>9 DEF vars, requestVars, headVars
<1> QED BY <1>1, <1>2, <1>3, <1>4, <1>5, <1>6, <1>7, <1>8, <1>9 DEF Next

-----------------------------------------------------------------------------
(***************************************************************************)
(* The compatible-first policy                                             *)
(***************************************************************************)

\* The granted requests of the LockHead that ask for compatible-first.
CompatibleFirsts ==
    {l \in Lockers : OnHead(l) /\ compatibleFirst[l] /\ status[l] \in {"granted", "converting"}}

\* The count is exact as long as nobody upgrades to a full mode.
PolicyCountInv == NoFullUpgrades => CompatibleFirstCountMatches

\* The count changes with the one request that is granted or released, and the
\* modulus of its type does not matter.
LEMMA PolicyArithmetic ==
    ASSUME IInv, CompatibleFirstCountMatches, NEW r \in Lockers
    PROVE  /\ compatibleFirstCount \in Nat
           /\ r \notin CompatibleFirsts =>
                 PolicyAcquired(r) = compatibleFirstCount + (IF compatibleFirst[r] THEN 1 ELSE 0)
           /\ r \in CompatibleFirsts => PolicyReleased(r) = compatibleFirstCount - 1
<1>1. /\ CompatibleFirsts \in SUBSET Lockers /\ compatibleFirstCount = Cardinality(CompatibleFirsts)
      /\ IsFiniteSet(CompatibleFirsts)
  BY CardNat DEF CompatibleFirsts, CompatibleFirstCountMatches
<1>2. /\ compatibleFirstCount \in Nat /\ Cardinality(Lockers) \in Nat
      /\ CountModulus \in Nat /\ CountModulus > Cardinality(Lockers)
  BY <1>1, CardNat, OptionsAssumption
<1>3. \A n \in Nat : n < CountModulus => n % CountModulus = n
  BY <1>2
<1>4. ASSUME r \notin CompatibleFirsts
      PROVE  PolicyAcquired(r) = compatibleFirstCount + (IF compatibleFirst[r] THEN 1 ELSE 0)
  <2>1. Cardinality(CompatibleFirsts \cup {r}) = compatibleFirstCount + 1
    BY <1>1, <1>4, FS_AddElement
  <2>2. Cardinality(CompatibleFirsts \cup {r}) <= Cardinality(Lockers)
    BY <1>1, LockersAssumption, FS_Subset
  <2>3. (compatibleFirstCount + 1) % CountModulus = compatibleFirstCount + 1
    BY <1>2, <1>3, <2>1, <2>2
  <2> QED BY <1>2, <2>3 DEF PolicyAcquired
<1>5. ASSUME r \in CompatibleFirsts PROVE PolicyReleased(r) = compatibleFirstCount - 1
  <2>1. compatibleFirstCount >= 1
    BY <1>1, <1>5, CardAtLeast
  <2>2. compatibleFirstCount <= Cardinality(Lockers)
    BY <1>1, LockersAssumption, FS_Subset
  <2>3. (compatibleFirstCount - 1) % CountModulus = compatibleFirstCount - 1
    <3>1. compatibleFirstCount - 1 \in Nat /\ compatibleFirstCount - 1 < CountModulus
      BY <1>2, <2>1, <2>2
    <3> QED BY <3>1, <1>3
  <2>4. compatibleFirst[r]
    BY <1>5 DEF CompatibleFirsts
  <2> QED BY <2>3, <2>4 DEF PolicyReleased
<1> QED BY <1>2, <1>4, <1>5

\* The count stays exact if it changes by what request r contributes to it.
LEMMA PolicyCountStep ==
    ASSUME CompatibleFirstCountMatches, NEW r \in Lockers,
           \A k \in Lockers \ {r} : k \in CompatibleFirsts' <=> k \in CompatibleFirsts,
           compatibleFirstCount' = compatibleFirstCount
              + (IF r \in CompatibleFirsts' THEN 1 ELSE 0)
              - (IF r \in CompatibleFirsts THEN 1 ELSE 0)
    PROVE  CompatibleFirstCountMatches'
<1> DEFINE C == CompatibleFirsts
           D == CompatibleFirsts'
<1>1. C \in SUBSET Lockers /\ D \in SUBSET Lockers
  BY DEF CompatibleFirsts
<1>2. IsFiniteSet(C) /\ IsFiniteSet(D) /\ C \ {r} = D \ {r}
  BY <1>1, CardNat
<1>3. compatibleFirstCount = Cardinality(C)
  BY DEF CompatibleFirsts, CompatibleFirstCountMatches
<1>4. Cardinality(D) = Cardinality(C) + (IF r \in D THEN 1 ELSE 0) - (IF r \in C THEN 1 ELSE 0)
  BY <1>2, CardChange
<1>5. compatibleFirstCount' = Cardinality(D)
  BY <1>3, <1>4
<1> QED BY <1>5 DEF CompatibleFirsts, CompatibleFirstCountMatches

\* A step that leaves the count and everybody's part in it alone.
LEMMA PolicyCountSame ==
    ASSUME CompatibleFirstCountMatches, compatibleFirstCount' = compatibleFirstCount,
           \A k \in Lockers : k \in CompatibleFirsts' <=> k \in CompatibleFirsts
    PROVE  CompatibleFirstCountMatches'
<1>1. CompatibleFirsts' = CompatibleFirsts
  BY DEF CompatibleFirsts
<1> QED BY <1>1 DEF CompatibleFirsts, CompatibleFirstCountMatches

\* A request that is granted: by newRequest or from the conflict queue.
LEMMA PolicyGranted ==
    ASSUME IInv, CompatibleFirstCountMatches, NEW r \in Lockers, r \notin Holders,
           compatibleFirst' = compatibleFirst, where'[r] = "head",
           \A k \in Lockers \ {r} : status'[k] = status[k] /\ where'[k] = where[k],
           \/ status'[r] = "waiting" /\ compatibleFirstCount' = compatibleFirstCount
           \/ status'[r] = "granted" /\ compatibleFirstCount' = PolicyAcquired(r)
    PROVE  CompatibleFirstCountMatches'
<1>1. r \notin CompatibleFirsts
  BY DEF CompatibleFirsts, Holders, OnHead
<1>2. \A k \in Lockers \ {r} : k \in CompatibleFirsts' <=> k \in CompatibleFirsts
  BY DEF CompatibleFirsts, OnHead
<1>3. compatibleFirstCount \in Nat
  BY PolicyArithmetic
<1>4. CASE status'[r] = "waiting"
  <2>1. r \notin CompatibleFirsts'
    BY <1>4 DEF CompatibleFirsts
  <2>2. compatibleFirstCount' = compatibleFirstCount
    BY <1>4
  <2> QED BY <1>1, <1>2, <1>3, <2>1, <2>2, PolicyCountStep
<1>5. CASE status'[r] = "granted"
  <2>1. r \in CompatibleFirsts' <=> compatibleFirst[r]
    BY <1>5 DEF CompatibleFirsts, OnHead
  <2>2. compatibleFirstCount' = compatibleFirstCount + (IF compatibleFirst[r] THEN 1 ELSE 0)
    BY <1>1, <1>5, PolicyArithmetic
  <2> QED BY <1>1, <1>2, <1>3, <2>1, <2>2, PolicyCountStep
<1> QED BY <1>4, <1>5

\* Every step preserves the compatible-first count: request by request, a grant
\* adds one and an unlock takes one away.
LEMMA PolicyCountNext ==
    ASSUME IInv, OwnerInv, FieldsInv, PolicyCountInv, [Next]_vars
    PROVE  PolicyCountInv'
<1> SUFFICES ASSUME NoFullUpgrades, CompatibleFirstCountMatches
             PROVE  CompatibleFirstCountMatches'
  BY DEF PolicyCountInv, NoFullUpgrades
<1>0. FieldTypes
  BY FieldTypesHold DEF IInv
<1> USE DEF Goto
<1>1. ASSUME NEW l \in Lockers, NEW m \in RequestModes, LockBegin(l, m)
      PROVE  CompatibleFirstCountMatches'
  <2>1. where[l] = "none" /\ compatibleFirstCount' = compatibleFirstCount
    BY <1>1 DEF LockBegin, IInv, RequestInv, ReqInv, headVars
  <2>2. where'[l] # "head"
    BY <1>0, <1>1, <2>1 DEF LockBegin, FieldTypes
  <2>3. \A k \in Lockers \ {l} : /\ status'[k] = status[k] /\ where'[k] = where[k]
                                 /\ compatibleFirst'[k] = compatibleFirst[k]
    BY <1>0, <1>1 DEF LockBegin, FieldTypes
  <2> QED BY <2>1, <2>2, <2>3, PolicyCountSame DEF CompatibleFirsts, OnHead
<1>2. ASSUME NEW l \in Lockers, NEW m \in RequestModes, ConvertBegin(l, m)
      PROVE  CompatibleFirstCountMatches'
  <2>1. /\ UNCHANGED <<status, where, compatibleFirstCount>>
        /\ compatibleFirst' \in {compatibleFirst, [compatibleFirst EXCEPT ![l] = TRUE]}
        /\ GivesPriority(m) \/ compatibleFirst' = compatibleFirst
        /\ isModeCovered(m, mode[l]) \/ m \in UpgradeModes
    BY <1>2 DEF ConvertBegin, headVars
  <2>2. GivesPriority(m) => compatibleFirst[l]
    <3> SUFFICES ASSUME Priority, m \in {"S", "X"} PROVE compatibleFirst[l]
      BY DEF GivesPriority
    <3>1. isModeCovered(m, mode[l]) /\ mode[l] \in AnyMode
      BY <1>0, <2>1 DEF NoFullUpgrades, FieldTypes
    <3>2. mode[l] \in {"S", "X"}
      BY <3>1 DEF isModeCovered, LockConflictsTable, AnyMode, Modes, NoMode
    <3> QED BY <3>2 DEF FieldsInv, FieldInv, PolicyInv
  <2>3. \A k \in Lockers : compatibleFirst'[k] <=> compatibleFirst[k]
    BY <1>0, <2>1, <2>2 DEF FieldTypes
  <2> QED BY <2>1, <2>3, PolicyCountSame DEF CompatibleFirsts, OnHead
<1>3. ASSUME NEW l \in Lockers,
             \/ \E m \in RequestModes : DowngradeBegin(l, m)
             \/ WaitTimeout(l) \/ WaitOk(l) \/ UnlockRecursive(l) \/ UnlockToBucket(l)
             \/ LockMigrate(l) \/ ConvertMigrate(l) \/ Downgrade(l)
      PROVE  CompatibleFirstCountMatches'
  <2>1. UNCHANGED <<status, where, compatibleFirst, compatibleFirstCount>>
    BY <1>3 DEF DowngradeBegin, WaitTimeout, WaitOk, UnlockRecursive, UnlockToBucket,
                LockMigrate, ConvertMigrate, Downgrade, requestVars, headVars
  <2> QED BY <2>1, PolicyCountSame DEF CompatibleFirsts, OnHead
<1>4. ASSUME NEW l \in Lockers, UnlockPartitioned(l) PROVE CompatibleFirstCountMatches'
  <2>1. /\ where[l] # "head" /\ where'[l] # "head"
        /\ compatibleFirstCount' = compatibleFirstCount
        /\ \A k \in Lockers \ {l} : /\ status'[k] = status[k] /\ where'[k] = where[k]
                                    /\ compatibleFirst'[k] = compatibleFirst[k]
    BY <1>0, <1>4 DEF UnlockPartitioned, RemoveRequest, FieldTypes, headVars
  <2> QED BY <2>1, PolicyCountSame DEF CompatibleFirsts, OnHead
<1>5. ASSUME NEW l \in Lockers, LockStartPartition(l) PROVE CompatibleFirstCountMatches'
  <2>1. /\ where[l] = "none" /\ where'[l] # "head"
        /\ UNCHANGED <<compatibleFirst, compatibleFirstCount>>
        /\ \A k \in Lockers \ {l} : status'[k] = status[k] /\ where'[k] = where[k]
    BY <1>0, <1>5 DEF LockStartPartition, InBucket, FieldTypes, IInv, RequestInv, ReqInv
  <2> QED BY <2>1, PolicyCountSame DEF CompatibleFirsts, OnHead
<1>6. ASSUME NEW l \in Lockers, LockNewRequest(l) PROVE CompatibleFirstCountMatches'
  <2>1. l \notin Holders
    BY <1>6 DEF LockNewRequest, InBucket, Holders, IInv, RequestInv, ReqInv
  <2>2. /\ compatibleFirst' = compatibleFirst /\ where'[l] = "head"
        /\ \A k \in Lockers \ {l} : status'[k] = status[k] /\ where'[k] = where[k]
        /\ \/ status'[l] = "waiting" /\ compatibleFirstCount' = compatibleFirstCount
           \/ status'[l] = "granted" /\ compatibleFirstCount' = PolicyAcquired(l)
    BY <1>0, <1>6 DEF LockNewRequest, NewRequest, FieldTypes
  <2> QED BY <2>1, <2>2, PolicyGranted
<1>7. ASSUME NEW l \in Lockers, Convert(l) PROVE CompatibleFirstCountMatches'
  <2>1. /\ status[l] = "granted" /\ status'[l] \in {"granted", "converting"}
        /\ UNCHANGED <<where, compatibleFirst, compatibleFirstCount>>
        /\ \A k \in Lockers \ {l} : status'[k] = status[k]
    BY <1>0, <1>7 DEF Convert, InBucket, FieldTypes, IInv, RequestInv, ReqInv
  <2> QED BY <2>1, PolicyCountSame DEF CompatibleFirsts, OnHead
<1>8. ASSUME NEW l \in Lockers, UnlockGranted(l) PROVE CompatibleFirstCountMatches'
  <2>1. /\ status[l] = "granted" /\ where[l] = "head" /\ where'[l] = "none"
        /\ UNCHANGED <<status, compatibleFirst>> /\ compatibleFirstCount' = PolicyReleased(l)
        /\ \A k \in Lockers \ {l} : where'[k] = where[k]
    BY <1>0, <1>8 DEF UnlockGranted, InBucket, FieldTypes, IInv, RequestInv, ReqInv
  <2>2. /\ l \in CompatibleFirsts <=> compatibleFirst[l]
        /\ l \notin CompatibleFirsts'
        /\ \A k \in Lockers \ {l} : k \in CompatibleFirsts' <=> k \in CompatibleFirsts
    BY <2>1 DEF CompatibleFirsts, OnHead
  <2>3. /\ compatibleFirstCount \in Nat
        /\ PolicyReleased(l) =
              compatibleFirstCount - (IF l \in CompatibleFirsts THEN 1 ELSE 0)
    <3>1. CASE compatibleFirst[l]
      BY <2>2, <3>1, PolicyArithmetic
    <3>2. CASE ~compatibleFirst[l]
      <4>1. compatibleFirstCount \in Nat
        BY PolicyArithmetic
      <4> QED BY <2>2, <3>2, <4>1 DEF PolicyReleased
    <3> QED BY <3>1, <3>2
  <2> QED BY <2>1, <2>2, <2>3, PolicyCountStep
<1>9. ASSUME NEW l \in Lockers, UnlockWaiting(l) \/ UnlockConverting(l)
      PROVE  CompatibleFirstCountMatches'
  <2>1. UNCHANGED <<compatibleFirst, compatibleFirstCount>>
    BY <1>9 DEF UnlockWaiting, UnlockConverting
  <2>2. \A k \in Lockers \ {l} : status'[k] = status[k] /\ where'[k] = where[k]
    BY <1>0, <1>9 DEF UnlockWaiting, UnlockConverting, FieldTypes
  <2>3. \/ status[l] = "waiting" /\ status'[l] = "waiting"
        \/ /\ status[l] = "converting" /\ status'[l] = "granted" /\ where'[l] = where[l]
    BY <1>0, <1>9 DEF UnlockWaiting, UnlockConverting, FieldTypes
  <2> QED BY <2>1, <2>2, <2>3, PolicyCountSame DEF CompatibleFirsts, OnHead
<1>10. ASSUME NEW t \in Lockers, Scan(t) PROVE CompatibleFirstCountMatches'
  <2>1. CASE ScanMoves(t)
    <3>1. UNCHANGED <<status, where, compatibleFirst, compatibleFirstCount>>
      BY <2>1, ScanMovesFields DEF requestVars, headVars
    <3> QED BY <3>1, PolicyCountSame DEF CompatibleFirsts, OnHead
  <2>2. CASE ConvScanGrant(t)
    <3>1. PICK r \in Lockers :
              /\ status[r] = "converting" /\ status'[r] = "granted"
              /\ \A k \in Lockers \ {r} : status'[k] = status[k]
              /\ UNCHANGED <<where, compatibleFirst>>
      BY <2>2, ConvGrantFields
    <3>2. compatibleFirstCount' = compatibleFirstCount
      BY <2>2 DEF ConvScanGrant
    <3> QED BY <3>1, <3>2, PolicyCountSame DEF CompatibleFirsts, OnHead
  <2>3. CASE ConflictScanGrant(t)
    <3>1. PICK r \in Lockers :
              /\ where[r] = "head" /\ status[r] = "waiting" /\ status'[r] = "granted"
              /\ \A k \in Lockers \ {r} : status'[k] = status[k]
              /\ compatibleFirstCount' = PolicyAcquired(r)
              /\ UNCHANGED <<where, compatibleFirst>>
      BY <2>3, QueueGrantFields
    <3>2. r \notin Holders
      BY <3>1 DEF Holders
    <3> QED BY <3>1, <3>2, PolicyGranted
  <2>4. CASE ScanReturn(t)
    <3>1. /\ compatibleFirstCount' = compatibleFirstCount /\ where' = where
          /\ \A k \in Lockers \ {t} : Same(k)
          /\ \/ recursiveCount[t] = 0
             \/ UNCHANGED <<status, compatibleFirst>>
          /\ pc[t] = "scanDone"
      BY <2>4, ScanReturnFields DEF headVars, requestVars
    <3>2. recursiveCount[t] = 0 => where[t] # "head"
      BY <3>1 DEF IInv, RequestInv, ReqInv
    <3> QED BY <3>1, <3>2, PolicyCountSame DEF CompatibleFirsts, OnHead, Same, SameRequest
  <2> QED BY <1>10, <2>1, <2>2, <2>3, <2>4 DEF Scan, ScanMoves
<1>11. ASSUME NEW t \in Threads, Migrate(t) PROVE CompatibleFirstCountMatches'
  <2>1. CASE MigrateMove(t)
    <3>1. PICK r \in Lockers :
              /\ where[r] = "partition" /\ where'[r] = "head" /\ status'[r] = "granted"
              /\ \A k \in Lockers \ {r} : Same(k)
              /\ compatibleFirstCount' = PolicyAcquired(r)
              /\ compatibleFirst' = compatibleFirst
      BY <2>1, MoveFields
    <3>2. r \notin Holders
      BY <3>1 DEF Holders
    <3> QED BY <3>1, <3>2, PolicyGranted DEF Same, SameRequest
  <2>2. CASE MigrateBegin(t) \/ MigrateEnd(t)
    <3>1. UNCHANGED <<status, where, compatibleFirst, compatibleFirstCount>>
      BY <2>2 DEF MigrateBegin, MigrateEnd, requestVars, headVars
    <3> QED BY <3>1, PolicyCountSame DEF CompatibleFirsts, OnHead
  <2> QED BY <1>11, <2>1, <2>2 DEF Migrate
<1>12. CASE CleanupMigrate \/ Cleanup \/ UNCHANGED vars
  <2>1. UNCHANGED <<status, where, compatibleFirst, compatibleFirstCount>>
    BY <1>12 DEF CleanupMigrate, Cleanup, vars, requestVars, headVars
  <2> QED BY <2>1, PolicyCountSame DEF CompatibleFirsts, OnHead
<1> QED BY <1>1, <1>2, <1>3, <1>4, <1>5, <1>6, <1>7, <1>8, <1>9, <1>10, <1>11, <1>12
        DEF Next, Call, Unlock, EnterBucket

-----------------------------------------------------------------------------
(***************************************************************************)
(* First come, first served                                                *)
(***************************************************************************)

\* On an ordinary resource the policy never changes, and the scan of the conflict
\* queue never goes beyond its front.
ScanInv ==
    ~Priority =>
        /\ ~scan.newly
        /\ \A t \in Lockers : pc[t] \in {"conflictScan", "conflictNotify"} => scan.pos = 1

\* Nobody but the owner of the bucket mutex is in one of its sections.
LEMMA OthersOutside ==
    ASSUME TypeOK, OwnerInv, NEW u \in Threads, bucketOwner \in {NoOwner, u}
    PROVE  /\ \A k \in Threads \ {u} : pc[k] \notin Sections
           /\ bucketOwner = NoOwner => \A k \in Threads : pc[k] \notin Sections
BY LockersAssumption DEF TypeOK, OwnerInv, Threads

\* Every step preserves this: outside of _onLockModeChanged a step may start a
\* scan, when nobody is in the middle of one.
LEMMA ScanInvNext ==
    ASSUME IInv, OwnerInv, FieldsInv, ScanInv, [Next]_vars
    PROVE  ScanInv'
<1> SUFFICES ASSUME ~Priority,
                    ~scan.newly,
                    \A t \in Lockers : pc[t] \in {"conflictScan", "conflictNotify"} => scan.pos = 1
             PROVE  /\ ~scan'.newly
                    /\ \A t \in Lockers :
                          pc'[t] \in {"conflictScan", "conflictNotify"} => scan'.pos = 1
  BY DEF ScanInv
<1> DEFINE Goal == /\ ~scan'.newly
                   /\ \A t \in Lockers :
                         pc'[t] \in {"conflictScan", "conflictNotify"} => scan'.pos = 1
<1>0. FieldTypes /\ TypeOK /\ scan \in ScanStates /\ NoOwner \notin Threads
  BY FieldTypesHold, LockersAssumption DEF IInv, TypeOK, Threads
<1> USE DEF Goto
<1>1. ASSUME scan' = scan,
             \A t \in Lockers : pc'[t] \in {"conflictScan", "conflictNotify"} => pc'[t] = pc[t]
      PROVE  Goal
  BY <1>1
<1>2. ASSUME NEW l \in Lockers, Call(l) \/ Unlock(l) \/ WaitOk(l) PROVE Goal
  <2>1. scan' = scan
    BY <1>2 DEF Call, Unlock, WaitOk, LockBegin, ConvertBegin, DowngradeBegin, WaitTimeout,
                UnlockRecursive, UnlockPartitioned, UnlockToBucket
  <2>2. \/ pc' = pc
        \/ \E x \in {"lock", "convert", "downgrade", "timedOut", "idle", "unlock"} :
              pc' = [pc EXCEPT ![l] = x]
    BY <1>2 DEF Call, Unlock, WaitOk, LockBegin, ConvertBegin, DowngradeBegin, WaitTimeout,
                UnlockRecursive, UnlockPartitioned, UnlockToBucket
  <2>3. \A t \in Lockers : pc'[t] \in {"conflictScan", "conflictNotify"} => pc'[t] = pc[t]
    BY <1>0, <2>2 DEF FieldTypes
  <2> QED BY <2>1, <2>3, <1>1
<1>3. ASSUME NEW l \in Lockers, EnterBucket(l) PROVE Goal
  <2>1. bucketOwner \in {NoOwner, l} /\ l \in Threads
    BY <1>3 DEF EnterBucket, InBucket, LockStartPartition, LockMigrate, LockNewRequest,
                ConvertMigrate, Convert, Downgrade, UnlockGranted, UnlockWaiting,
                UnlockConverting, Threads
  <2>2. /\ \E x \in {"migrate", "convScan", "idle", "waiting"} : pc' = [pc EXCEPT ![l] = x]
        /\ scan' = scan \/ \E b : scan' = [NoScan EXCEPT !.check = b]
    BY <1>3 DEF EnterBucket, LockStartPartition, LockMigrate, LockNewRequest, ConvertMigrate,
                Convert, Downgrade, UnlockGranted, UnlockWaiting, UnlockConverting, StartScan
  <2>3. \A t \in Lockers : pc'[t] \notin {"conflictScan", "conflictNotify"}
    BY <1>0, <2>1, <2>2, OthersOutside DEF FieldTypes, Sections
  <2>4. ~scan'.newly
    BY <2>2 DEF NoScan
  <2> QED BY <2>3, <2>4
<1>4. ASSUME NEW l \in Lockers, Scan(l) PROVE Goal
  <2>0. bucketOwner = l /\ l \in Threads /\ \A k \in Lockers \ {l} : pc[k] \notin Sections
    <3>1. bucketOwner = l /\ l \in Threads
      BY <1>4 DEF Scan, ConvScanSkip, ConvScanGrant, ConvScanNotify, ConvScanEnd,
                  ConflictScanSkip, ConflictScanGrant, ConflictScanNotify, ConflictScanEnd,
                  ScanReturn, InConflictLoop, Threads
    <3> QED BY <1>0, <3>1, OthersOutside DEF Threads
  <2>1. CASE ConvScanSkip(l) \/ ConvScanNotify(l)
    <3>1. scan' = [scan EXCEPT !.pos = @ + 1] /\ pc'[l] = "convScan"
          /\ \A k \in Lockers \ {l} : pc'[k] = pc[k]
      BY <1>0, <2>1 DEF ConvScanSkip, ConvScanNotify, FieldTypes
    <3>2. ~scan'.newly
      BY <1>0, <3>1 DEF ScanStates
    <3> QED BY <2>0, <3>1, <3>2 DEF Sections
  <2>2. CASE ConvScanEnd(l)
    <3>1. scan' = [scan EXCEPT !.pos = 1]
      BY <2>2 DEF ConvScanEnd
    <3> QED BY <1>0, <3>1 DEF ScanStates
  <2>3. CASE ConvScanGrant(l)
    <3>1. scan' = scan /\ pc'[l] = "convNotify" /\ \A k \in Lockers \ {l} : pc'[k] = pc[k]
      BY <1>0, <2>3 DEF ConvScanGrant, FieldTypes
    <3> QED BY <3>1, <1>1
  <2>4. CASE ConflictScanSkip(l)
    <3>1. pc[l] = "conflictScan" /\ ~StopsScan
      BY <2>4 DEF ConflictScanSkip, InConflictLoop
    <3> QED BY <3>1 DEF StopsScan
  <2>5. CASE ConflictScanGrant(l)
    <3>1. PICK r \in Lockers :
              /\ pc[l] = "conflictScan"
              /\ scan' = [scan EXCEPT !.newly =
                              @ \/ (compatibleFirst[r] /\ compatibleFirstCount = 0)]
      BY <2>5, QueueGrantFields
    <3>2. ~compatibleFirst[r]
      BY DEF FieldsInv, FieldInv, PolicyInv
    <3>3. scan.pos = 1 /\ scan' = [scan EXCEPT !.newly = FALSE]
      BY <3>1, <3>2
    <3> QED BY <1>0, <3>3 DEF ScanStates
  <2>6. CASE ConflictScanNotify(l) \/ ConflictScanEnd(l)
    <3>1. /\ scan' = scan /\ pc[l] \in {"conflictScan", "conflictNotify"}
          /\ \A k \in Lockers \ {l} : pc'[k] = pc[k]
      BY <1>0, <2>6 DEF ConflictScanNotify, ConflictScanEnd, FieldTypes
    <3> QED BY <2>0, <3>1
  <2>7. CASE ScanReturn(l)
    <3>1. scan' = NoScan
      BY <2>7 DEF ScanReturn
    <3> QED BY <3>1 DEF NoScan
  <2> QED BY <1>4, <2>1, <2>2, <2>3, <2>4, <2>5, <2>6, <2>7 DEF Scan
<1>5. ASSUME NEW t \in Threads, Migrate(t) PROVE Goal
  <2>1. scan' = scan
    BY <1>5 DEF Migrate, MigrateBegin, MigrateMove, MigrateEnd, threadVars
  <2>2. \/ pc' = pc
        \/ \E x \in {"moving", "migrate", "lock", "convert", "cleanup"} : pc' = [pc EXCEPT ![t] = x]
    BY <1>5 DEF Migrate, MigrateBegin, MigrateMove, MigrateEnd, threadVars, InterruptedCall
  <2>3. \A k \in Lockers : pc'[k] \in {"conflictScan", "conflictNotify"} => pc'[k] = pc[k]
    BY <1>0, <2>2 DEF FieldTypes
  <2> QED BY <2>1, <2>3, <1>1
<1>6. CASE CleanupMigrate \/ Cleanup
  <2>1. scan' = scan /\ \E x \in {"migrate", "idle"} : pc' = [pc EXCEPT ![Cleaner] = x]
    BY <1>6 DEF CleanupMigrate, Cleanup
  <2>2. \A k \in Lockers : pc'[k] = pc[k]
    BY <1>0, <2>1, LockersAssumption DEF FieldTypes
  <2> QED BY <2>1, <2>2, <1>1
<1>7. CASE UNCHANGED vars
  BY <1>7, <1>1 DEF vars, threadVars
<1> QED BY <1>2, <1>3, <1>4, <1>5, <1>6, <1>7 DEF Next

\* On an ordinary resource nobody asks for compatible-first.
LEMMA OrdinaryPolicy ==
    ASSUME IInv, FieldsInv, PolicyCountInv, ~Priority
    PROVE  compatibleFirstCount = 0 /\ \A l \in Lockers : ~compatibleFirst[l]
<1>1. \A l \in Lockers : ~compatibleFirst[l]
  BY DEF FieldsInv, FieldInv, PolicyInv
<1>2. CompatibleFirstCountMatches
  BY DEF PolicyCountInv, NoFullUpgrades
<1>3. CompatibleFirsts = {}
  BY <1>1 DEF CompatibleFirsts
<1>4. compatibleFirstCount = Cardinality(CompatibleFirsts)
  BY <1>2 DEF CompatibleFirsts, CompatibleFirstCountMatches
<1> QED BY <1>1, <1>3, <1>4, FS_EmptySet

\* The requests in the queue have a mode of its mask.
LEMMA Queued ==
    ASSUME IInv, NEW i \in DOMAIN conflictList
    PROVE  /\ conflictList[i] \in Lockers /\ where[conflictList[i]] = "head"
           /\ status[conflictList[i]] = "waiting"
           /\ mode[conflictList[i]] \in conflictModes
<1>1. conflictList[i] \in Waiters
  BY DEF IInv, TypeOK, ListsInv, Represents
<1> QED BY <1>1, Counted DEF Waiters

\* The step of NoOvertaking for one locker.
Overtakes(l) ==
    /\ HeldMode(l) = NoMode /\ HeldMode(l)' # NoMode
    /\ \E i \in DOMAIN conflictList :
          /\ conflictList[i] # l
          /\ conflicts(mode[conflictList[i]], {mode'[l]})
          /\ ~\E j \in 1..i : conflictList[j] = l

\* On an ordinary resource no step overtakes a waiting request that conflicts.
LEMMA NobodyOvertakes ==
    ASSUME IInv, OwnerInv, FieldsInv, PolicyCountInv, ScanInv, ~Priority, [Next]_vars,
           NEW l \in Lockers
    PROVE  ~Overtakes(l)
<1>0. FieldTypes
  BY FieldTypesHold DEF IInv
<1> USE DEF Goto
<1>1. ASSUME HeldMode(l)' = HeldMode(l) \/ HeldMode(l) # NoMode PROVE ~Overtakes(l)
  BY <1>1 DEF Overtakes
<1>2. ASSUME status'[l] = status[l], where'[l] = where[l], mode'[l] = mode[l]
      PROVE  ~Overtakes(l)
  BY <1>1, <1>2 DEF HeldMode
<1>3. ASSUME conflictModes = {} PROVE ~Overtakes(l)
  BY <1>3, Queued DEF Overtakes
<1>4. ASSUME NEW k \in Lockers, NEW m \in RequestModes, LockBegin(k, m) PROVE ~Overtakes(l)
  <2>1. CASE plhExists[PartitionOf[k]]
    <3>1. partitions # <<>>
      BY <2>1, PartitionAssumption DEF IInv, PartitionedImpliesIntent
    <3> QED BY <3>1, <1>3 DEF IInv, PartitionedImpliesIntent
  <2>2. CASE ~plhExists[PartitionOf[k]]
    <3>1. CASE k = l
      <4>1. status'[l] = "new"
        BY <1>0, <1>4, <2>2, <3>1 DEF LockBegin, FieldTypes
      <4> QED BY <4>1 DEF Overtakes, HeldMode
    <3>2. CASE k # l
      BY <1>0, <1>4, <2>2, <3>2, <1>2 DEF LockBegin, FieldTypes
    <3> QED BY <3>1, <3>2
  <2> QED BY <2>1, <2>2
<1>5. ASSUME NEW k \in Lockers,
             \/ \E m \in RequestModes : ConvertBegin(k, m) \/ DowngradeBegin(k, m)
             \/ WaitTimeout(k) \/ WaitOk(k) \/ UnlockRecursive(k) \/ UnlockToBucket(k)
             \/ LockMigrate(k) \/ ConvertMigrate(k)
      PROVE  ~Overtakes(l)
  <2>1. UNCHANGED <<status, where, mode>>
    BY <1>5 DEF ConvertBegin, DowngradeBegin, WaitTimeout, WaitOk, UnlockRecursive,
                UnlockToBucket, LockMigrate, ConvertMigrate, requestVars
  <2> QED BY <2>1, <1>2
<1>6. ASSUME NEW k \in Lockers, UnlockPartitioned(k) PROVE ~Overtakes(l)
  <2>1. CASE k = l
    <3>1. where'[l] = "none"
      BY <1>0, <1>6, <2>1 DEF UnlockPartitioned, FieldTypes
    <3> QED BY <3>1 DEF Overtakes, HeldMode
  <2>2. CASE k # l
    BY <1>0, <1>6, <2>2, <1>2 DEF UnlockPartitioned, RemoveRequest, FieldTypes
  <2> QED BY <2>1, <2>2
<1>7. ASSUME NEW k \in Lockers, LockStartPartition(k) PROVE ~Overtakes(l)
  BY <1>7, <1>3 DEF LockStartPartition, CanPartition
<1>8. ASSUME NEW k \in Lockers, LockNewRequest(k) PROVE ~Overtakes(l)
  <2>1. mode' = mode
    BY <1>8 DEF LockNewRequest
  <2>2. CASE k # l
    <3>1. status'[l] = status[l] /\ where'[l] = where[l]
      BY <1>0, <1>8, <2>2 DEF LockNewRequest, NewRequest, FieldTypes
    <3> QED BY <2>1, <3>1, <1>2
  <2>3. CASE k = l /\ MustWait(l)
    <3>1. status'[l] = "waiting"
      BY <1>0, <1>8, <2>3 DEF LockNewRequest, NewRequest, FieldTypes
    <3> QED BY <3>1 DEF Overtakes, HeldMode
  <2>4. CASE k = l /\ ~MustWait(l)
    <3>1. ~conflicts(mode[l], conflictModes)
      BY <2>4, OrdinaryPolicy DEF MustWait
    <3>2. ASSUME NEW i \in DOMAIN conflictList
          PROVE  ~conflicts(mode[conflictList[i]], {mode[l]})
      <4>1. PICK c \in Lockers : c = conflictList[i] /\ mode[c] \in conflictModes
        BY <3>2, Queued
      <4>2. ~conflicts(mode[l], {mode[c]})
        BY <3>1, <4>1 DEF conflicts
      <4>3. mode[l] \in AnyMode /\ mode[c] \in AnyMode
        BY <1>0, <4>1 DEF FieldTypes
      <4>4. ~conflicts(mode[c], {mode[l]})
        BY <4>2, <4>3, ConflictsSymmetric
      <4> QED BY <4>1, <4>4
    <3> QED BY <2>1, <3>2 DEF Overtakes
  <2> QED BY <2>2, <2>3, <2>4
<1>9. ASSUME NEW k \in Lockers, Convert(k) \/ Downgrade(k) \/ UnlockConverting(k)
      PROVE  ~Overtakes(l)
  <2>1. CASE k # l
    BY <1>0, <1>9, <2>1, <1>2 DEF Convert, Downgrade, UnlockConverting, FieldTypes
  <2>2. CASE k = l
    <3>1. status[l] \in {"granted", "converting"} /\ where[l] # "none" /\ mode[l] \in Modes
      BY <1>9, <2>2 DEF Convert, Downgrade, UnlockConverting, InBucket, IInv, RequestInv, ReqInv
    <3> QED BY <3>1, <1>1 DEF HeldMode, Modes, NoMode
  <2> QED BY <2>1, <2>2
<1>10. ASSUME NEW k \in Lockers, UnlockGranted(k) \/ UnlockWaiting(k) PROVE ~Overtakes(l)
  <2>1. CASE k = l
    <3>1. where'[l] = "none"
      BY <1>0, <1>10, <2>1 DEF UnlockGranted, UnlockWaiting, FieldTypes
    <3> QED BY <3>1 DEF Overtakes, HeldMode
  <2>2. CASE k # l
    BY <1>0, <1>10, <2>2, <1>2 DEF UnlockGranted, UnlockWaiting, FieldTypes
  <2> QED BY <2>1, <2>2
<1>11. ASSUME NEW t \in Lockers, Scan(t) PROVE ~Overtakes(l)
  <2>1. CASE ScanMoves(t)
    BY <2>1, <1>2, ScanMovesFields DEF requestVars
  <2>2. CASE ConvScanGrant(t)
    <3>1. PICK r \in Lockers :
              /\ where[r] = "head" /\ status[r] = "converting" /\ where' = where
              /\ \A k \in Lockers \ {r} : status'[k] = status[k] /\ mode'[k] = mode[k]
      BY <2>2, ConvGrantFields
    <3>2. CASE l = r
      <4>1. HeldMode(l) # NoMode
        BY <3>1, <3>2 DEF HeldMode, IInv, RequestInv, ReqInv, Modes, NoMode
      <4> QED BY <4>1, <1>1
    <3>3. CASE l # r
      BY <3>1, <3>3, <1>2
    <3> QED BY <3>2, <3>3
  <2>3. CASE ConflictScanGrant(t)
    <3>1. PICK r \in Lockers :
              /\ r = conflictList[scan.pos] /\ pc[t] = "conflictScan"
              /\ where' = where /\ mode' = mode
              /\ \A k \in Lockers \ {r} : status'[k] = status[k]
      BY <2>3, QueueGrantFields
    <3>2. CASE l = r
      <4>1. l = conflictList[1]
        BY <3>1, <3>2 DEF ScanInv
      <4>2. ASSUME NEW i \in DOMAIN conflictList PROVE 1 \in 1..i
        BY <4>2 DEF IInv, TypeOK
      <4> QED BY <4>1, <4>2 DEF Overtakes
    <3>3. CASE l # r
      BY <3>1, <3>3, <1>2
    <3> QED BY <3>2, <3>3
  <2>4. CASE ScanReturn(t)
    <3>1. CASE l # t
      BY <2>4, <3>1, <1>2, ScanReturnFields DEF Same, SameRequest
    <3>2. CASE l = t /\ recursiveCount[t] = 0
      <4>1. status'[l] = "none"
        BY <2>4, <3>2, ScanReturnFields
      <4> QED BY <4>1 DEF Overtakes, HeldMode
    <3>3. CASE l = t /\ recursiveCount[t] # 0
      BY <2>4, <3>3, <1>2, ScanReturnFields DEF requestVars
    <3> QED BY <3>1, <3>2, <3>3
  <2> QED BY <1>11, <2>1, <2>2, <2>3, <2>4 DEF Scan, ScanMoves
<1>12. ASSUME NEW t \in Threads, Migrate(t) PROVE ~Overtakes(l)
  <2>1. bucketOwner # NoOwner /\ pc[bucketOwner] \in {"migrate", "moving"}
    BY <1>12, LockersAssumption DEF Migrate, MigrateBegin, MigrateMove, MigrateEnd, Threads
  <2>2. conflictModes = {}
    BY <2>1 DEF IInv, MigrationInv, PartitionedImpliesIntent
  <2> QED BY <2>2, <1>3
<1>13. CASE CleanupMigrate \/ Cleanup \/ UNCHANGED vars
  BY <1>13, <1>2 DEF CleanupMigrate, Cleanup, vars, requestVars
<1> QED BY <1>4, <1>5, <1>6, <1>7, <1>8, <1>9, <1>10, <1>11, <1>12, <1>13
        DEF Next, Call, Unlock, EnterBucket

-----------------------------------------------------------------------------
(***************************************************************************)
(* Who waits must wait                                                     *)
(***************************************************************************)

\* The thread with the bucket mutex will still look at the front of the queue.
WillLook ==
    /\ bucketOwner \in Lockers
    /\ \/ pc[bucketOwner] \in {"convScan", "convNotify"} /\ scan.check
       \/ pc[bucketOwner] \in {"conflictScan", "conflictNotify"}

\* Whoever is at the front of the queue conflicts with what is granted.
Blocked == conflictList # <<>> => conflicts(mode[Head(conflictList)], grantedModes)

FrontInv == ~Priority => WillLook \/ Blocked

\* The front of the queue is a waiting request.
LEMMA FrontWaits ==
    ASSUME IInv, conflictList # <<>>
    PROVE  /\ Head(conflictList) \in Lockers /\ Head(conflictList) = conflictList[1]
           /\ mode[Head(conflictList)] \in Modes
           /\ status[Head(conflictList)] = "waiting" /\ where[Head(conflictList)] = "head"
<1>1. 1 \in DOMAIN conflictList /\ Head(conflictList) = conflictList[1]
  BY DEF IInv, TypeOK
<1> QED BY <1>1, Queued DEF IInv, RequestInv, ReqInv

\* A blocked front stays blocked if it stays and every granted mode stays, or is
\* replaced by one that covers it.
LEMMA BlockedStays ==
    ASSUME IInv, Blocked,
           conflictList # <<>> =>
              conflictList' # <<>> /\ Head(conflictList') = Head(conflictList)
                                  /\ mode'[Head(conflictList)] = mode[Head(conflictList)],
           conflictList = <<>> => conflictList' = <<>>,
           \A m \in grantedModes : \E n \in grantedModes' : n \in Modes /\ isModeCovered(m, n)
    PROVE  Blocked'
<1> SUFFICES ASSUME conflictList # <<>>
             PROVE  conflicts(mode'[Head(conflictList')], grantedModes')
  BY DEF Blocked
<1>1. PICK h \in Modes : h = mode[Head(conflictList)]
  BY FrontWaits
<1>2. PICK m \in grantedModes : m \in LockConflictsTable[h] /\ m \in Modes
  BY <1>1 DEF Blocked, conflicts, grantedModes
<1>3. PICK n \in grantedModes' : n \in Modes /\ isModeCovered(m, n)
  BY <1>2
<1>4. n \in LockConflictsTable[h]
  BY <1>2, <1>3 DEF isModeCovered, LockConflictsTable, AnyMode, Modes, NoMode
<1>5. conflicts(h, grantedModes')
  BY <1>3, <1>4 DEF conflicts
<1> QED BY <1>1, <1>5

\* Every mode covers itself.
LEMMA CoversItself == \A m : isModeCovered(m, m)
BY DEF isModeCovered

\* A step that changes neither the queue nor what is granted.
LEMMA BlockedSame ==
    ASSUME IInv, Blocked, UNCHANGED <<conflictList, grantedCounts>>,
           conflictList # <<>> => mode'[Head(conflictList)] = mode[Head(conflictList)]
    PROVE  Blocked'
<1>1. grantedModes' = grantedModes
  BY DEF grantedModes
<1> QED BY <1>1 DEF Blocked

\* What is granted to a request of the LockHead is in the mask.
HolderModes ==
    \A k \in Lockers : where[k] = "head" /\ status[k] \in {"granted", "converting"} =>
        mode[k] \in grantedModes

\* These facts are part of the invariant of the requests, ...
LEMMA HolderModesHold == IInv => HolderModes
BY Counted DEF HolderModes

\* ... also in the next state.
LEMMA HolderModesNext == IInv' => HolderModes'
BY HolderModesHold, PTL

\* The counts of modes that a step may take from.
LEMMA ModeStays ==
    ASSUME TypeOK, NEW m \in Modes, NEW old \in Modes, NEW new \in Modes, m # old,
           \/ grantedCounts' = ReplaceMode(grantedCounts, new, old)
           \/ grantedCounts' = Inc(grantedCounts, new)
           \/ grantedCounts' = Dec(grantedCounts, old),
           m \in grantedModes
    PROVE  m \in grantedModes'
<1>0. grantedCounts \in [Modes -> Nat] /\ grantedCounts \in [Modes -> Int]
  BY DEF TypeOK
<1>1. Inc(grantedCounts, new) \in [Modes -> Int]
  BY <1>0, IncDec
<1>2. /\ grantedCounts[m] \in Nat
      /\ Inc(grantedCounts, new)[m] = grantedCounts[m] + (IF m = new THEN 1 ELSE 0)
      /\ Dec(grantedCounts, old)[m] = grantedCounts[m]
      /\ ReplaceMode(grantedCounts, new, old)[m] = grantedCounts[m] + (IF m = new THEN 1 ELSE 0)
  <2>1. Dec(grantedCounts, old)[m] = grantedCounts[m] - 0
    BY <1>0, IncDec
  <2>2. Inc(grantedCounts, new)[m] = grantedCounts[m] + (IF m = new THEN 1 ELSE 0)
    BY <1>0, IncDec
  <2>3. ReplaceMode(grantedCounts, new, old)[m] = Inc(grantedCounts, new)[m] - 0
    BY <1>1, IncDec DEF ReplaceMode
  <2> QED BY <1>0, <2>1, <2>2, <2>3
<1>3. grantedCounts[m] > 0
  BY DEF grantedModes
<1>4. grantedCounts'[m] > 0
  BY <1>2, <1>3
<1> QED BY <1>4 DEF grantedModes

\* The notification that is about to be sent is for a request of the granted list.
CursorInv ==
    \A t \in Lockers :
        /\ pc[t] = "convNotify" => scan.pos \in 1..Len(grantedList)
        /\ pc[t] = "conflictNotify" => grantedList # <<>>

\* A step of the thread that has, or finds free, the bucket mutex, before
\* _onLockModeChanged: nobody is about to notify.
BucketStep(u) ==
    \/ u \in Lockers /\ EnterBucket(u)
    \/ Migrate(u)
    \/ u = Cleaner /\ (CleanupMigrate \/ Cleanup)

\* Nobody scans the lists before such a step, and nobody notifies after it.
LEMMA NotNotifying ==
    ASSUME IInv, OwnerInv, NEW u \in Threads,
           BucketStep(u)
    PROVE  /\ \A t \in Lockers : pc[t] \notin Scanning
           /\ \A t \in Lockers :
                 pc'[t] \notin {"convNotify", "conflictScan", "conflictNotify", "scanDone"}
           /\ bucketOwner \in {NoOwner, u}
<1>0. FieldTypes /\ TypeOK
  BY FieldTypesHold DEF IInv
<1> USE DEF Goto
<1>1. CASE u \in Lockers /\ EnterBucket(u)
  <2>1. bucketOwner \in {NoOwner, u} /\ pc[u] \in {"lock", "convert", "downgrade", "unlock"}
    BY <1>1 DEF EnterBucket, InBucket, LockStartPartition, LockMigrate, LockNewRequest,
                ConvertMigrate, Convert, Downgrade, UnlockGranted, UnlockWaiting,
                UnlockConverting
  <2>2. \E x \in {"migrate", "convScan", "idle", "waiting"} : pc' = [pc EXCEPT ![u] = x]
    BY <1>1 DEF EnterBucket, LockStartPartition, LockMigrate, LockNewRequest, ConvertMigrate,
                Convert, Downgrade, UnlockGranted, UnlockWaiting, UnlockConverting, StartScan
  <2>3. \A t \in Lockers : pc[t] \notin Scanning
    BY <1>0, <2>1, OthersOutside DEF Sections, Scanning, Threads
  <2> QED BY <1>0, <2>1, <2>2, <2>3 DEF FieldTypes, Scanning
<1>2. CASE Migrate(u)
  <2>1. bucketOwner = u /\ pc[u] \in {"migrate", "moving"}
    BY <1>2 DEF Migrate, MigrateBegin, MigrateMove, MigrateEnd
  <2>2. \/ pc' = pc
        \/ \E x \in {"moving", "migrate", "lock", "convert", "cleanup"} : pc' = [pc EXCEPT ![u] = x]
    BY <1>2 DEF Migrate, MigrateBegin, MigrateMove, MigrateEnd, threadVars, InterruptedCall
  <2>3. \A t \in Lockers : pc[t] \notin Scanning
    BY <1>0, <2>1, OthersOutside DEF Sections, Scanning, Threads
  <2> QED BY <1>0, <2>1, <2>2, <2>3 DEF FieldTypes, Scanning
<1>3. CASE u = Cleaner /\ (CleanupMigrate \/ Cleanup)
  <2>1. bucketOwner \in {NoOwner, u} /\ u \notin Lockers
    BY <1>3, LockersAssumption DEF CleanupMigrate, Cleanup, BucketFree, InBucket
  <2>2. \E x \in {"migrate", "idle"} : pc' = [pc EXCEPT ![u] = x]
    BY <1>3 DEF CleanupMigrate, Cleanup
  <2>3. \A t \in Lockers : pc[t] \notin Scanning
    BY <1>0, <2>1, OthersOutside DEF Sections, Scanning, Threads
  <2> QED BY <1>0, <2>1, <2>2, <2>3 DEF FieldTypes, Scanning
<1> QED BY <1>1, <1>2, <1>3 DEF BucketStep

\* Calls outside of the bucket mutex: nobody enters or leaves one of its sections.
LEMMA OutsideCalls ==
    ASSUME IInv, NEW l \in Lockers, Call(l) \/ Unlock(l) \/ WaitOk(l)
    PROVE  /\ UNCHANGED <<bucketOwner, scan, grantedList, conflictList, grantedCounts>>
           /\ pc[l] \in {"idle", "waiting", "timedOut"}
           /\ pc'[l] \in {"idle", "lock", "convert", "downgrade", "timedOut", "unlock"}
           /\ \A k \in Threads \ {l} : pc'[k] = pc[k]
<1>0. FieldTypes
  BY FieldTypesHold DEF IInv
<1>1. UNCHANGED <<bucketOwner, scan, grantedList, conflictList, grantedCounts>>
  BY DEF Call, Unlock, WaitOk, LockBegin, ConvertBegin, DowngradeBegin, WaitTimeout,
         UnlockRecursive, UnlockPartitioned, UnlockToBucket, headVars
<1>2. pc[l] \in {"idle", "waiting", "timedOut"}
  BY DEF Call, Unlock, WaitOk, LockBegin, ConvertBegin, DowngradeBegin, WaitTimeout,
         UnlockRecursive, UnlockPartitioned, UnlockToBucket, CallsUnlock, Holder
<1>3. \/ pc' = pc /\ pc[l] = "idle"
      \/ \E x \in {"lock", "convert", "downgrade", "timedOut", "idle", "unlock"} :
            pc' = [pc EXCEPT ![l] = x]
  BY DEF Call, Unlock, WaitOk, LockBegin, ConvertBegin, DowngradeBegin, WaitTimeout,
         UnlockRecursive, UnlockPartitioned, UnlockToBucket, Holder, Goto
<1> QED BY <1>0, <1>1, <1>2, <1>3 DEF FieldTypes

\* Every step preserves the cursor of the notification.
LEMMA CursorNext == ASSUME IInv, OwnerInv, CursorInv, [Next]_vars PROVE CursorInv'
<1>0. FieldTypes
  BY FieldTypesHold DEF IInv
<1>1. ASSUME NEW l \in Lockers, Call(l) \/ Unlock(l) \/ WaitOk(l) PROVE CursorInv'
  BY <1>1, OutsideCalls DEF CursorInv, Threads
<1>2. ASSUME NEW u \in Threads,
             BucketStep(u)
      PROVE  CursorInv'
  <2>1. \A t \in Lockers : pc'[t] \notin {"convNotify", "conflictNotify"}
    BY <1>2, NotNotifying
  <2> QED BY <2>1 DEF CursorInv
<1>3. ASSUME NEW t \in Lockers, Scan(t) PROVE CursorInv'
  <2>0. bucketOwner = t /\ t \in Threads /\ \A k \in Lockers \ {t} : pc[k] \notin Sections
    <3>1. bucketOwner = t /\ t \in Threads
      BY <1>3 DEF Scan, ConvScanSkip, ConvScanGrant, ConvScanNotify, ConvScanEnd,
                  ConflictScanSkip, ConflictScanGrant, ConflictScanNotify, ConflictScanEnd,
                  ScanReturn, InConflictLoop, Threads
    <3> QED BY <3>1, OthersOutside DEF Threads, IInv
  <2>1. CASE ConvScanGrant(t)
    <3>1. /\ pc'[t] = "convNotify" /\ UNCHANGED <<grantedList, scan>>
          /\ \A k \in Threads \ {t} : pc'[k] = pc[k]
      BY <2>1, ConvGrantFields
    <3>2. scan.pos \in 1..Len(grantedList)
      BY <2>1, AtCursor DEF ConvScanGrant
    <3> QED BY <2>0, <3>1, <3>2 DEF CursorInv, Sections, Threads
  <2>2. CASE ConflictScanGrant(t)
    <3>1. PICK r \in Lockers :
              /\ pc'[t] = "conflictNotify" /\ grantedList' = Append(grantedList, r)
              /\ \A k \in Threads \ {t} : pc'[k] = pc[k]
      BY <2>2, QueueGrantFields
    <3>2. Append(grantedList, r) # <<>>
      <4>1. grantedList \in Seq(Lockers) /\ Len(grantedList) \in Nat
        BY DEF IInv, TypeOK
      <4>2. Len(Append(grantedList, r)) = Len(grantedList) + 1
        BY <4>1, AppendProperties
      <4>3. Len(Append(grantedList, r)) # 0
        BY <4>1, <4>2
      <4>4. Len(<<>>) = 0
        OBVIOUS
      <4> QED BY <4>3, <4>4, Zenon
    <3> QED BY <2>0, <3>1, <3>2 DEF CursorInv, Sections, Threads
  <2>3. CASE ~ConvScanGrant(t) /\ ~ConflictScanGrant(t)
    <3>1. pc'[t] \notin {"convNotify", "conflictNotify"} /\ \A k \in Lockers \ {t} : pc'[k] = pc[k]
      BY <1>0, <1>3, <2>3
         DEF Scan, ConvScanSkip, ConvScanNotify, ConvScanEnd, ConflictScanSkip, InConflictLoop,
             ConflictScanNotify, ConflictScanEnd, ScanReturn, Goto, FieldTypes
    <3> QED BY <2>0, <3>1 DEF CursorInv, Sections
  <2> QED BY <2>1, <2>2, <2>3
<1>4. CASE UNCHANGED vars
  BY <1>4 DEF vars, threadVars, headVars, CursorInv
<1> QED BY <1>1, <1>2, <1>3, <1>4 DEF Next, Threads, BucketStep

\* A step that leaves the front of the queue with its owner, or blocked.
LEMMA FrontNext ==
    ASSUME IInv, IInv', OwnerInv, FieldsInv, PolicyCountInv, ScanInv, CursorInv, FrontInv,
           [Next]_vars
    PROVE  FrontInv'
<1> SUFFICES ASSUME ~Priority, WillLook \/ Blocked PROVE WillLook' \/ Blocked'
  BY DEF FrontInv
<1>0. FieldTypes /\ TypeOK
  BY FieldTypesHold DEF IInv
<1>1. ASSUME NEW l \in Lockers, Call(l) \/ Unlock(l) \/ WaitOk(l) PROVE WillLook' \/ Blocked'
  <2>1. CASE WillLook
    <3>1. bucketOwner \in Lockers /\ bucketOwner # l
      BY <1>1, <2>1, OutsideCalls DEF WillLook
    <3>2. pc'[bucketOwner] = pc[bucketOwner] /\ UNCHANGED <<bucketOwner, scan>>
      BY <1>1, <3>1, OutsideCalls DEF Threads
    <3> QED BY <2>1, <3>2 DEF WillLook
  <2>2. CASE Blocked
    <3>1. UNCHANGED <<conflictList, grantedCounts>>
      BY <1>1, OutsideCalls
    <3>2. ASSUME conflictList # <<>> PROVE mode'[Head(conflictList)] = mode[Head(conflictList)]
      <4>1. PICK h \in Lockers :
                  h = Head(conflictList) /\ status[h] = "waiting" /\ where[h] = "head"
        BY <3>2, FrontWaits
      <4>2. CASE h # l
        BY <1>1, <4>1, <4>2, OthersSame DEF Same, SameRequest
      <4>3. CASE h = l
        BY <1>1, <4>1, <4>3
           DEF Call, Unlock, WaitOk, LockBegin, ConvertBegin, DowngradeBegin, WaitTimeout,
               UnlockRecursive, UnlockPartitioned, UnlockToBucket, requestVars
      <4> QED BY <4>2, <4>3
    <3> QED BY <2>2, <3>1, <3>2, BlockedSame
  <2> QED BY <2>1, <2>2
<1>2. ASSUME NEW u \in Threads,
             BucketStep(u)
      PROVE  Blocked
  BY <1>2, NotNotifying DEF WillLook, Scanning
<1>3. ASSUME NEW l \in Lockers, EnterBucket(l) PROVE WillLook' \/ Blocked'
  <2>0. Blocked /\ l \in Threads
    BY <1>2, <1>3 DEF Threads, BucketStep
  <2>5. ASSUME conflictList # <<>>, pc[l] # "unlock"
        PROVE  mode'[Head(conflictList)] = mode[Head(conflictList)]
    <3>1. PICK h \in Lockers : h = Head(conflictList) /\ status[h] = "waiting" /\ where[h] = "head"
      BY <2>5, FrontWaits
    <3>2. CASE h # l
      BY <1>3, <3>1, <3>2, OthersSame DEF Same, SameRequest
    <3>3. CASE h = l
      <4>1. pc[l] \in {"lock", "convert", "downgrade", "unlock"}
        BY <1>3 DEF EnterBucket, InBucket, LockStartPartition, LockMigrate, LockNewRequest,
                    ConvertMigrate, Convert, Downgrade, UnlockGranted, UnlockWaiting,
                    UnlockConverting
      <4> QED BY <2>5, <3>1, <3>3, <4>1 DEF IInv, RequestInv, ReqInv
    <3> QED BY <3>2, <3>3
  <2>1. CASE LockStartPartition(l)
    <3>1. conflictList = <<>> /\ conflictList' = conflictList
      BY <2>1, QueueModes DEF LockStartPartition, CanPartition
    <3> QED BY <3>1 DEF Blocked
  <2>2. CASE LockMigrate(l) \/ ConvertMigrate(l)
    <3>1. UNCHANGED <<mode, conflictList, grantedCounts>>
      BY <2>2 DEF LockMigrate, ConvertMigrate, requestVars, headVars
    <3> QED BY <2>0, <3>1, BlockedSame
  <2>3. CASE LockNewRequest(l)
    <3>1. /\ NewRequest(l) /\ mode' = mode /\ where[l] = "none" /\ status[l] = "new"
          /\ mode[l] \in Modes /\ UNCHANGED <<convertMode, conversionsCount, compatibleFirst>>
      BY <2>3 DEF LockNewRequest, InBucket, IInv, RequestInv, ReqInv
    <3>2. CASE MustWait(l)
      <4>1. conflictList' = Append(conflictList, l) /\ UNCHANGED grantedCounts
        BY <3>1, <3>2, OrdinaryPolicy DEF NewRequest
      <4>2. grantedModes' = grantedModes
        BY <4>1 DEF grantedModes
      <4>3. CASE conflictList = <<>>
        <5>1. conflictModes = {}
          BY <4>3, QueueModes
        <5>2. conflicts(mode[l], grantedModes)
          BY <3>2, <5>1 DEF MustWait, conflicts
        <5>3. Head(conflictList') = l
          BY <4>1, <4>3
        <5> QED BY <3>1, <4>2, <5>2, <5>3 DEF Blocked
      <4>4. CASE conflictList # <<>>
        <5>1. conflictList \in Seq(Lockers)
          BY <1>0 DEF TypeOK
        <5>2. conflictList' # <<>> /\ Head(conflictList') = Head(conflictList)
          BY <4>1, <4>4, <5>1
        <5> QED BY <2>0, <3>1, <4>2, <4>4, <5>2 DEF Blocked
      <4> QED BY <4>3, <4>4
    <3>3. CASE ~MustWait(l)
      <4>1. grantedModes' = grantedModes \cup {mode[l]} /\ conflictList' = conflictList
        BY <3>1, <3>3, NewRequestStep
      <4> QED BY <2>0, <3>1, <4>1 DEF Blocked, conflicts
    <3> QED BY <3>2, <3>3
  <2>4. CASE Convert(l)
    <3>1. /\ pc[l] = "convert" /\ status[l] = "granted" /\ where[l] # "none"
          /\ mode[l] \in Modes /\ want[l] \in Modes /\ partitions = <<>>
          /\ isModeCovered(mode[l], want[l])
      BY <2>4 DEF Convert, InBucket, IInv, RequestInv, ReqInv, FieldsInv, FieldInv, UpgradeInv,
                  Upgrading
    <3>2. where[l] = "head"
      BY <1>0, <3>1, PartitionHolder DEF FieldTypes
    <3>3. /\ conflictList' = conflictList /\ where' = where
          /\ \/ grantedCounts' = Inc(grantedCounts, want[l])
             \/ /\ grantedCounts' = ReplaceMode(grantedCounts, want[l], mode[l])
                /\ status'[l] = "granted" /\ mode'[l] = want[l]
      BY <1>0, <2>4, <3>1 DEF Convert, FieldTypes
    <3>4. ASSUME NEW m \in grantedModes, m # mode[l] PROVE m \in grantedModes'
      BY <1>0, <3>1, <3>3, <3>4, ModeStays DEF grantedModes
    <3>5. mode[l] \in grantedModes' \/ want[l] \in grantedModes'
      <4>1. CASE grantedCounts' = Inc(grantedCounts, want[l])
        <5>1. mode[l] \in grantedModes
          BY <3>1, <3>2, Counted
        <5>2. /\ grantedCounts[mode[l]] > 0 /\ grantedCounts[mode[l]] \in Nat
              /\ grantedCounts'[mode[l]] >= grantedCounts[mode[l]]
              /\ grantedCounts'[mode[l]] \in Int
          <6>1. grantedCounts \in [Modes -> Int] /\ grantedCounts \in [Modes -> Nat]
            BY <1>0 DEF TypeOK
          <6>2. Inc(grantedCounts, want[l])[mode[l]] =
                   grantedCounts[mode[l]] + (IF mode[l] = want[l] THEN 1 ELSE 0)
            BY <3>1, <6>1, IncDec
          <6>3. grantedCounts[mode[l]] > 0 /\ grantedCounts[mode[l]] \in Nat
            BY <3>1, <5>1, <6>1 DEF grantedModes
          <6> QED BY <4>1, <6>2, <6>3
        <5> QED BY <3>1, <5>2 DEF grantedModes
      <4>2. CASE status'[l] = "granted" /\ mode'[l] = want[l]
        BY <3>2, <3>3, <4>2, HolderModesNext DEF HolderModes
      <4> QED BY <3>3, <4>1, <4>2
    <3>6. \A m \in grantedModes : \E n \in grantedModes' : n \in Modes /\ isModeCovered(m, n)
      BY <3>1, <3>4, <3>5, CoversItself DEF grantedModes
    <3>7. ASSUME conflictList # <<>> PROVE mode'[Head(conflictList)] = mode[Head(conflictList)]
      BY <2>5, <3>1, <3>7
    <3> QED BY <2>0, <3>3, <3>6, <3>7, BlockedStays
  <2>6. CASE Downgrade(l) \/ UnlockWaiting(l) \/ UnlockConverting(l)
    <3>1. /\ bucketOwner' = l /\ pc' = [pc EXCEPT ![l] = "convScan"]
          /\ scan' = [NoScan EXCEPT !.check = TRUE]
      BY <2>6 DEF Downgrade, UnlockWaiting, UnlockConverting, StartScan, Goto
    <3>2. pc'[l] = "convScan" /\ scan'.check
      BY <1>0, <2>0, <3>1 DEF FieldTypes, NoScan
    <3> QED BY <3>1, <3>2 DEF WillLook
  <2>7. CASE UnlockGranted(l)
    <3>1. /\ pc[l] = "unlock" /\ status[l] = "granted" /\ mode[l] \in Modes
          /\ bucketOwner' = l /\ pc' = [pc EXCEPT ![l] = "convScan"]
          /\ scan' = [NoScan EXCEPT !.check = (grantedCounts'[mode[l]] = 0)]
          /\ grantedCounts' = Dec(grantedCounts, mode[l])
          /\ conflictList' = conflictList /\ mode' = mode
      BY <2>7 DEF UnlockGranted, InBucket, StartScan, Goto, IInv, RequestInv, ReqInv
    <3>2. CASE grantedCounts'[mode[l]] = 0
      <4>1. pc'[l] = "convScan" /\ scan'.check
        BY <1>0, <2>0, <3>1, <3>2 DEF FieldTypes, NoScan
      <4> QED BY <3>1, <4>1 DEF WillLook
    <3>3. CASE grantedCounts'[mode[l]] # 0
      <4>1. ASSUME NEW m \in grantedModes, m # mode[l] PROVE m \in grantedModes'
        BY <1>0, <3>1, <4>1, ModeStays DEF grantedModes
      <4>2. grantedCounts'[mode[l]] \in Nat
        BY <3>1 DEF IInv, TypeOK
      <4>3. mode[l] \in grantedModes'
        BY <3>1, <3>3, <4>2 DEF grantedModes
      <4>4. grantedModes \subseteq grantedModes'
        BY <4>1, <4>3
      <4> QED BY <2>0, <3>1, <4>4 DEF Blocked, conflicts
    <3> QED BY <3>2, <3>3
  <2> QED BY <1>3, <2>1, <2>2, <2>3, <2>4, <2>6, <2>7 DEF EnterBucket
<1>4. ASSUME NEW t \in Lockers, Scan(t) PROVE WillLook' \/ Blocked'
  <2>0. t \in Threads /\ scan \in ScanStates
    BY <1>0 DEF Threads, TypeOK
  <2>1. ASSUME ScanMoves(t), Blocked PROVE Blocked'
    BY <2>1, ScanMovesFields, BlockedSame DEF requestVars, headVars
  <2>2. CASE ConvScanSkip(t) \/ ConvScanNotify(t)
    <3>1. CASE scan.check
      <4>1. /\ bucketOwner = t /\ bucketOwner' = t /\ pc'[t] = "convScan"
            /\ scan' = [scan EXCEPT !.pos = @ + 1]
        BY <1>0, <2>0, <2>2 DEF ConvScanSkip, ConvScanNotify, Goto, FieldTypes
      <4>2. scan'.check
        BY <2>0, <3>1, <4>1 DEF ScanStates
      <4> QED BY <4>1, <4>2 DEF WillLook
    <3>2. CASE ~scan.check
      <4>1. ~WillLook
        BY <2>2, <3>2 DEF WillLook, ConvScanSkip, ConvScanNotify
      <4> QED BY <2>1, <2>2, <4>1 DEF ScanMoves
    <3> QED BY <3>1, <3>2
  <2>3. CASE ConvScanEnd(t)
    <3>1. CASE scan.check
      <4>1. bucketOwner' = t /\ pc'[t] = "conflictScan"
        BY <1>0, <2>0, <2>3, <3>1 DEF ConvScanEnd, Goto, FieldTypes
      <4> QED BY <4>1 DEF WillLook
    <3>2. CASE ~scan.check
      <4>1. ~WillLook
        BY <2>3, <3>2 DEF WillLook, ConvScanEnd
      <4> QED BY <2>1, <2>3, <4>1 DEF ScanMoves
    <3> QED BY <3>1, <3>2
  <2>4. CASE ConvScanGrant(t)
    <3>1. PICK r \in Lockers :
              /\ r = grantedList[scan.pos] /\ where[r] = "head" /\ status[r] = "converting"
              /\ status'[r] = "granted" /\ mode'[r] = convertMode[r]
              /\ pc[t] = "convScan" /\ pc'[t] = "convNotify" /\ bucketOwner = t
              /\ \A k \in Lockers \ {r} : status'[k] = status[k] /\ mode'[k] = mode[k]
              /\ UNCHANGED <<where, conflictList, bucketOwner, scan>>
      BY <2>4, ConvGrantFields
    <3>2. CASE scan.check
      BY <3>1, <3>2 DEF WillLook
    <3>3. CASE ~scan.check
      <4>1. Blocked
        BY <3>1, <3>3 DEF WillLook
      <4>2. mode[r] \in Modes /\ convertMode[r] \in Modes /\ isModeCovered(mode[r], convertMode[r])
        BY <3>1 DEF IInv, RequestInv, ReqInv, FieldsInv, FieldInv, UpgradeInv
      <4>3. grantedCounts' = Dec(grantedCounts, mode[r])
        BY <2>4, <3>1 DEF ConvScanGrant
      <4>4. ASSUME NEW m \in grantedModes, m # mode[r] PROVE m \in grantedModes'
        BY <1>0, <4>2, <4>3, <4>4, ModeStays DEF grantedModes
      <4>5. convertMode[r] \in grantedModes'
        BY <3>1, HolderModesNext DEF HolderModes
      <4>6. \A m \in grantedModes : \E n \in grantedModes' : n \in Modes /\ isModeCovered(m, n)
        BY <4>2, <4>4, <4>5, CoversItself DEF grantedModes
      <4>7. ASSUME conflictList # <<>> PROVE mode'[Head(conflictList)] = mode[Head(conflictList)]
        BY <3>1, <4>7, FrontWaits
      <4> QED BY <3>1, <4>1, <4>6, <4>7, BlockedStays
    <3> QED BY <3>2, <3>3
  <2>5. CASE ConflictScanSkip(t)
    <3>1. pc[t] = "conflictScan" /\ ~StopsScan
      BY <2>5 DEF ConflictScanSkip, InConflictLoop
    <3> QED BY <3>1 DEF StopsScan, ScanInv
  <2>6. CASE ConflictScanGrant(t)
    <3>1. pc'[t] = "conflictNotify" /\ bucketOwner' = t
      BY <2>6, QueueGrantFields
    <3> QED BY <3>1 DEF WillLook
  <2>7. CASE ConflictScanNotify(t)
    <3>1. pc[t] = "conflictNotify" /\ bucketOwner' = t
          /\ pc' = [pc EXCEPT ![t] = IF mode[Last(grantedList)] = "X"
                                     THEN "scanDone" ELSE "conflictScan"]
      BY <2>7 DEF ConflictScanNotify, Goto
    <3>2. CASE mode[Last(grantedList)] # "X"
      <4>1. pc'[t] = "conflictScan"
        BY <1>0, <2>0, <3>1, <3>2 DEF FieldTypes
      <4> QED BY <3>1, <4>1 DEF WillLook
    <3>3. CASE mode[Last(grantedList)] = "X"
      <4>1. grantedList # <<>> /\ grantedList \in Seq(Lockers)
        BY <1>0, <3>1 DEF CursorInv, TypeOK
      <4>2. Len(grantedList) \in 1..Len(grantedList)
        BY <4>1
      <4>3. PICK r \in Holders : r = Last(grantedList)
        BY <4>2 DEF IInv, ListsInv, Represents, Last
      <4>4. "X" \in grantedModes
        BY <3>3, <4>3, Counted DEF Holders
      <4>5. Blocked
        <5> SUFFICES ASSUME conflictList # <<>>
                     PROVE  conflicts(mode[Head(conflictList)], grantedModes)
          BY DEF Blocked
        <5>1. mode[Head(conflictList)] \in Modes
          BY FrontWaits
        <5>2. "X" \in LockConflictsTable[mode[Head(conflictList)]]
          BY <5>1 DEF LockConflictsTable, AnyMode, Modes, NoMode
        <5> QED BY <4>4, <5>2 DEF conflicts
      <4> QED BY <2>1, <2>7, <4>5 DEF ScanMoves
    <3> QED BY <3>2, <3>3
  <2>8. CASE ConflictScanEnd(t)
    <3>1. pc[t] = "conflictScan" /\ bucketOwner = t /\ scan.pos = 1
      BY <2>8 DEF ConflictScanEnd, ScanInv
    <3>2. Blocked
      <4> SUFFICES ASSUME conflictList # <<>>
                   PROVE  conflicts(mode[Head(conflictList)], grantedModes)
        BY DEF Blocked
      <4>1. scan.pos <= Len(conflictList) /\ Head(conflictList) = conflictList[1]
        BY <1>0, <3>1, FrontWaits DEF TypeOK
      <4> QED BY <2>8, <3>1, <4>1 DEF ConflictScanEnd, InConflictLoop
    <3> QED BY <2>1, <2>8, <3>2 DEF ScanMoves
  <2>9. CASE ScanReturn(t)
    <3>1. /\ pc[t] = "scanDone" /\ bucketOwner = t /\ UNCHANGED <<conflictList, grantedCounts>>
          /\ \A k \in Lockers \ {t} : Same(k)
          /\ recursiveCount[t] = 0 \/ mode' = mode
      BY <2>9, ScanReturnFields DEF headVars, requestVars
    <3>2. Blocked
      BY <3>1 DEF WillLook
    <3>3. ASSUME conflictList # <<>> PROVE mode'[Head(conflictList)] = mode[Head(conflictList)]
      <4>1. PICK h \in Lockers : h = Head(conflictList) /\ where[h] = "head"
        BY <3>3, FrontWaits
      <4>2. CASE h = t
        <5>1. recursiveCount[t] # 0
          BY <3>1, <4>1, <4>2 DEF IInv, RequestInv, ReqInv
        <5> QED BY <3>1, <4>1, <5>1
      <4>3. CASE h # t
        BY <3>1, <4>1, <4>3 DEF Same, SameRequest
      <4> QED BY <4>2, <4>3
    <3> QED BY <3>1, <3>2, <3>3, BlockedSame
  <2> QED BY <1>4, <2>2, <2>3, <2>4, <2>5, <2>6, <2>7, <2>8, <2>9 DEF Scan
<1>5. ASSUME NEW t \in Threads, Migrate(t) PROVE Blocked'
  <2>1. bucketOwner # NoOwner /\ pc[bucketOwner] \in {"migrate", "moving"}
    BY <1>5, LockersAssumption DEF Migrate, MigrateBegin, MigrateMove, MigrateEnd, Threads
  <2>2. conflictModes = {}
    BY <2>1 DEF IInv, MigrationInv, PartitionedImpliesIntent
  <2>3. conflictList = <<>>
    BY <2>2, QueueModes
  <2>4. conflictList' = conflictList
    <3>1. CASE MigrateMove(t)
      BY <3>1, MoveFields
    <3>2. CASE MigrateBegin(t) \/ MigrateEnd(t)
      BY <3>2 DEF MigrateBegin, MigrateEnd, headVars
    <3> QED BY <1>5, <3>1, <3>2 DEF Migrate
  <2> QED BY <2>3, <2>4 DEF Blocked
<1>6. CASE CleanupMigrate \/ Cleanup
  <2>1. Blocked
    BY <1>2, <1>6 DEF Threads, BucketStep
  <2>2. UNCHANGED <<mode, conflictList, grantedCounts>>
    BY <1>6 DEF CleanupMigrate, Cleanup, requestVars, headVars
  <2> QED BY <2>1, <2>2, BlockedSame
<1>7. CASE UNCHANGED vars
  BY <1>7 DEF vars, requestVars, headVars, threadVars, WillLook, Blocked, grantedModes
<1> QED BY <1>1, <1>3, <1>4, <1>5, <1>6, <1>7 DEF Next

-----------------------------------------------------------------------------
(***************************************************************************)
(* Notifications                                                           *)
(***************************************************************************)

\* The thread sleeps in lockComplete, or has just given up.
Asleep == {"waiting", "timedOut", "unlock"}

\* Between lockBegin, which clears the notification object, and the grant nothing
\* has been notified; what is about to be notified has been granted, and its
\* thread is where it has to be to see it, or cannot go on before.
WakeInv(l) ==
    /\ status[l] \in {"new", "waiting", "converting"} => notify[l] = "INVALID"
    /\ pc[l] \in {"convert", "migrate", "moving"} => notify[l] = "INVALID"
    /\ NotificationPending(l) =>
          status[l] = "granted" /\ notify[l] = "INVALID" /\ pc[l] \in Asleep
    /\ pc[l] = "waiting" /\ status[l] = "granted" => notify[l] = "OK" \/ NotificationPending(l)
    /\ status[l] \in {"waiting", "converting"} /\ where[l] = "head" => pc[l] \in Asleep

NotifyInv == ~ConversionTimeouts => \A l \in Lockers : WakeInv(l)

\* A locker that a step leaves alone.
LEMMA SameWake ==
    ASSUME NEW k \in Lockers, WakeInv(k), Same(k),
           NotificationPending(k)' <=> NotificationPending(k)
    PROVE  WakeInv(k)'
BY DEF WakeInv, Same, SameRequest

\* The calls outside of the bucket mutex.
LEMMA WakeCalls ==
    ASSUME IInv, FieldsInv, ~ConversionTimeouts, \A k \in Lockers : WakeInv(k),
           NEW l \in Lockers, Call(l) \/ Unlock(l) \/ WaitOk(l), NEW k \in Lockers
    PROVE  WakeInv(k)'
<1>0. FieldTypes /\ WakeInv(l) /\ KeepInv(l) /\ ReqInv(l)
  BY FieldTypesHold DEF IInv, FieldsInv, FieldInv, RequestInv
<1>1. NotificationPending(k)' <=> NotificationPending(k)
  <2>1. /\ UNCHANGED <<scan, grantedList>>
        /\ pc[l] \notin {"convNotify", "conflictNotify"}
        /\ pc'[l] \notin {"convNotify", "conflictNotify"}
        /\ \A j \in Lockers \ {l} : pc'[j] = pc[j]
    BY OutsideCalls DEF Threads
  <2>2. \A j \in Lockers : /\ pc'[j] = "convNotify" <=> pc[j] = "convNotify"
                           /\ pc'[j] = "conflictNotify" <=> pc[j] = "conflictNotify"
    BY <2>1
  <2> QED BY <2>1, <2>2 DEF NotificationPending
<1>2. CASE k # l
  BY <1>1, <1>2, OthersSame, SameWake
<1>3. CASE k = l
  <2> SUFFICES WakeInv(l)'
    BY <1>3
  <2> USE DEF WakeInv, Goto
  <2> DEFINE Quiet == ~NotificationPending(l) /\ ~NotificationPending(l)'
  <2>0. pc[l] = "idle" => Quiet
    BY <1>0, <1>1, <1>3 DEF Asleep
  <2>9. NotificationPending(l)' <=> NotificationPending(l)
    BY <1>1, <1>3
  <2>1. ASSUME NEW m \in RequestModes, LockBegin(l, m) PROVE WakeInv(l)'
    <3>1. /\ pc[l] = "idle" /\ pc'[l] \in {"idle", "lock"} /\ status'[l] \in {"granted", "new"}
          /\ notify'[l] = "INVALID"
      BY <1>0, <2>1 DEF LockBegin, ClearNotify, FieldTypes
    <3> QED BY <2>0, <3>1
  <2>2. ASSUME NEW m \in RequestModes, ConvertBegin(l, m) PROVE WakeInv(l)'
    <3>1. /\ pc[l] = "idle" /\ pc'[l] \in {"idle", "convert"} /\ status'[l] = "granted"
          /\ notify'[l] = "INVALID"
      BY <1>0, <2>2 DEF ConvertBegin, Holder, ClearNotify, FieldTypes
    <3> QED BY <2>0, <3>1
  <2>3. ASSUME NEW m \in RequestModes, DowngradeBegin(l, m) PROVE WakeInv(l)'
    <3>1. pc[l] = "idle" /\ pc'[l] = "downgrade" /\ status'[l] = "granted"
      BY <1>0, <2>3 DEF DowngradeBegin, Holder, FieldTypes, requestVars
    <3> QED BY <2>0, <3>1
  <2>4. CASE WaitTimeout(l)
    <3>1. pc'[l] = "timedOut" /\ pc[l] = "waiting" /\ UNCHANGED <<status, where, notify>>
      BY <1>0, <2>4 DEF WaitTimeout, FieldTypes, requestVars
    <3> QED BY <1>0, <2>9, <3>1 DEF Asleep
  <2>5. CASE WaitOk(l)
    <3>1. pc'[l] = "idle" /\ notify[l] = "OK" /\ UNCHANGED <<status, where, notify>>
      BY <1>0, <2>5 DEF WaitOk, FieldTypes, requestVars
    <3> QED BY <1>0, <2>9, <3>1
  <2>6. CASE UnlockRecursive(l)
    <3>1. pc[l] = "idle" /\ pc'[l] = "idle" /\ status'[l] = "granted"
      BY <1>0, <2>6
         DEF UnlockRecursive, CallsUnlock, Holder, IsRecursive, FieldTypes, KeepInv
    <3> QED BY <2>0, <3>1
  <2>7. CASE UnlockPartitioned(l)
    <3>1. pc[l] = "idle" /\ pc'[l] = "idle" /\ status'[l] = "none"
      BY <1>0, <2>7
         DEF UnlockPartitioned, RemoveRequest, CallsUnlock, Holder, FieldTypes, ReqInv
    <3> QED BY <2>0, <3>1
  <2>8. CASE UnlockToBucket(l)
    <3>1. pc'[l] = "unlock" /\ UNCHANGED <<status, where, notify>>
      BY <1>0, <2>8 DEF UnlockToBucket, FieldTypes
    <3> QED BY <1>0, <2>9, <3>1 DEF Asleep
  <2> QED BY <1>3, <2>1, <2>2, <2>3, <2>4, <2>5, <2>6, <2>7, <2>8 DEF Call, Unlock, WakeInv
<1> QED BY <1>2, <1>3

\* When nobody is about to notify, no notification is pending.
LEMMA NonePending ==
    /\ (\A t \in Lockers : pc[t] \notin {"convNotify", "conflictNotify"}) =>
          \A k \in Lockers : ~NotificationPending(k)
    /\ (\A t \in Lockers : pc'[t] \notin {"convNotify", "conflictNotify"}) =>
          \A k \in Lockers : ~NotificationPending(k)'
BY DEF NotificationPending

\* The sections of the bucket mutex before _onLockModeChanged.
LEMMA WakeBucket ==
    ASSUME IInv, OwnerInv, FieldsInv, ~ConversionTimeouts, \A k \in Lockers : WakeInv(k),
           NEW u \in Threads, BucketStep(u), NEW k \in Lockers
    PROVE  WakeInv(k)'
<1>0. FieldTypes /\ WakeInv(k) /\ ReqInv(k)
  BY FieldTypesHold DEF IInv, RequestInv
<1>1. ~NotificationPending(k) /\ ~NotificationPending(k)'
  BY NotNotifying, NonePending DEF Scanning
<1> USE DEF Goto
<1>2. CASE u \in Lockers /\ EnterBucket(u) /\ k # u
  BY <1>0, <1>1, <1>2, OthersSame, SameWake
<1>3. CASE u \in Lockers /\ EnterBucket(u) /\ k = u
  <2> USE DEF WakeInv
  <2>1. CASE LockStartPartition(k)
    <3>1. pc'[k] = "idle" /\ status'[k] = "granted"
      BY <1>0, <2>1 DEF LockStartPartition, FieldTypes
    <3> QED BY <1>1, <3>1
  <2>2. CASE LockMigrate(k) \/ ConvertMigrate(k)
    <3>1. /\ pc[k] \in {"lock", "convert"} /\ pc'[k] = "migrate"
          /\ UNCHANGED <<status, where, notify>>
      BY <1>0, <2>2 DEF LockMigrate, ConvertMigrate, InBucket, FieldTypes, requestVars
    <3> QED BY <1>0, <1>1, <3>1 DEF ReqInv, Asleep
  <2>3. CASE LockNewRequest(k)
    <3>1. /\ status[k] = "new" /\ notify' = notify
          /\ \/ status'[k] = "waiting" /\ pc'[k] = "waiting"
             \/ status'[k] = "granted" /\ pc'[k] = "idle"
      BY <1>0, <2>3 DEF LockNewRequest, NewRequest, InBucket, FieldTypes, ReqInv
    <3> QED BY <1>0, <1>1, <3>1 DEF Asleep
  <2>4. CASE Convert(k)
    <3>1. /\ pc[k] = "convert" /\ status[k] = "granted" /\ notify' = notify
          /\ \/ status'[k] = "converting" /\ pc'[k] = "waiting"
             \/ status'[k] = "granted" /\ pc'[k] = "idle"
      BY <1>0, <2>4 DEF Convert, InBucket, FieldTypes, ReqInv
    <3> QED BY <1>0, <1>1, <3>1 DEF Asleep
  <2>5. CASE Downgrade(k) \/ UnlockGranted(k) \/ UnlockConverting(k)
    <3>1. status'[k] = "granted" /\ pc'[k] = "convScan"
      BY <1>0, <2>5 DEF Downgrade, UnlockGranted, UnlockConverting, InBucket, StartScan,
                        FieldTypes, ReqInv
    <3> QED BY <1>1, <3>1
  <2>6. CASE UnlockWaiting(k)
    <3>1. /\ status[k] = "waiting" /\ where'[k] = "none" /\ pc'[k] = "convScan"
          /\ UNCHANGED <<status, notify>>
      BY <1>0, <2>6 DEF UnlockWaiting, StartScan, FieldTypes
    <3> QED BY <1>0, <1>1, <3>1
  <2> QED BY <1>3, <2>1, <2>2, <2>3, <2>4, <2>5, <2>6 DEF EnterBucket, WakeInv
<1>4. CASE MigrateMove(u)
  <2>1. PICK r \in Lockers :
              /\ status[r] = "granted" /\ status'[r] = "granted"
              /\ \A j \in Lockers \ {r} : Same(j)
              /\ UNCHANGED threadVars
    BY <1>4, MoveFields
  <2>2. CASE k = r
    BY <1>0, <1>1, <2>1, <2>2 DEF WakeInv, threadVars
  <2>3. CASE k # r
    BY <1>0, <1>1, <2>1, <2>3, SameWake
  <2> QED BY <2>2, <2>3
<1>5. CASE \/ MigrateBegin(u) \/ MigrateEnd(u)
           \/ u = Cleaner /\ (CleanupMigrate \/ Cleanup)
  <2>1. UNCHANGED <<requestVars, notify>>
    BY <1>5 DEF MigrateBegin, MigrateEnd, CleanupMigrate, Cleanup
  <2>2. \/ pc'[k] = pc[k]
        \/ /\ pc[k] \in {"migrate", "moving"}
           /\ pc'[k] \in {"moving", "migrate", "lock", "convert"}
    BY <1>0, <1>5, LockersAssumption
       DEF MigrateBegin, MigrateEnd, CleanupMigrate, Cleanup, FieldTypes, InterruptedCall
  <2> QED BY <1>0, <1>1, <2>1, <2>2 DEF WakeInv, requestVars, Asleep
<1> QED BY <1>2, <1>3, <1>4, <1>5 DEF BucketStep, Migrate

\* The steps of _onLockModeChanged.
LEMMA WakeScan ==
    ASSUME IInv, OwnerInv, CursorInv, \A k \in Lockers : WakeInv(k),
           NEW t \in Lockers, Scan(t), NEW k \in Lockers
    PROVE  WakeInv(k)'
<1>0. FieldTypes /\ WakeInv(k) /\ ReqInv(k)
  BY FieldTypesHold DEF IInv, RequestInv
<1>1. bucketOwner = t /\ t \in Threads /\ \A j \in Lockers \ {t} : pc[j] \notin Sections
  <2>1. bucketOwner = t /\ t \in Threads
    BY DEF Scan, ConvScanSkip, ConvScanGrant, ConvScanNotify, ConvScanEnd, ConflictScanSkip,
           ConflictScanGrant, ConflictScanNotify, ConflictScanEnd, ScanReturn,
           InConflictLoop, Threads
  <2> QED BY <2>1, OthersOutside DEF Threads, IInv
<1> USE DEF Goto
<1>2. ASSUME pc[t] \notin {"convNotify", "conflictNotify"} PROVE ~NotificationPending(k)
  BY <1>1, <1>2, NonePending DEF Sections
<1>3. ASSUME pc'[t] \notin {"convNotify", "conflictNotify"},
             \A j \in Lockers \ {t} : pc'[j] = pc[j]
      PROVE  ~NotificationPending(k)'
  BY <1>1, <1>3, NonePending DEF Sections
<1>4. CASE ConvScanSkip(t) \/ ConvScanEnd(t) \/ ConflictScanSkip(t) \/ ConflictScanEnd(t)
  <2>1. /\ UNCHANGED <<requestVars, notify>> /\ \A j \in Lockers \ {t} : pc'[j] = pc[j]
        /\ pc[t] \in {"convScan", "conflictScan"}
        /\ pc'[t] \in {"convScan", "conflictScan", "scanDone"}
    BY <1>0, <1>1, <1>4 DEF ConvScanSkip, ConvScanEnd, ConflictScanSkip, ConflictScanEnd,
                            InConflictLoop, FieldTypes
  <2>2. ~NotificationPending(k) /\ ~NotificationPending(k)'
    BY <1>2, <1>3, <2>1
  <2>3. \/ pc'[k] = pc[k]
        \/ /\ pc[k] \in {"convScan", "conflictScan"}
           /\ pc'[k] \in {"convScan", "conflictScan", "scanDone"}
    BY <2>1
  <2> QED BY <1>0, <2>1, <2>2, <2>3 DEF WakeInv, requestVars, Asleep
<1>5. ASSUME NEW r \in Lockers, NotificationPending(r),
             \A j \in Lockers : NotificationPending(j) => j = r,
             UNCHANGED requestVars, notify' = [notify EXCEPT ![r] = "OK"],
             \A j \in Lockers \ {t} : pc'[j] = pc[j],
             pc[t] \in {"convNotify", "conflictNotify"},
             pc'[t] \in {"convScan", "conflictScan", "scanDone"}
      PROVE  WakeInv(k)'
  <2>1. ~NotificationPending(k)'
    BY <1>3, <1>5
  <2>2. \/ pc'[k] = pc[k]
        \/ /\ pc[k] \in {"convNotify", "conflictNotify"}
           /\ pc'[k] \in {"convScan", "conflictScan", "scanDone"}
    BY <1>5
  <2>3. CASE k = r
    <3>1. notify'[r] = "OK" /\ status[r] = "granted" /\ pc[r] \in Asleep
      BY <1>0, <1>5, <2>3 DEF FieldTypes, WakeInv
    <3> QED BY <1>5, <2>1, <2>2, <2>3, <3>1 DEF WakeInv, requestVars, Asleep
  <2>4. CASE k # r
    <3>1. notify'[k] = notify[k] /\ ~NotificationPending(k)
      BY <1>0, <1>5, <2>4 DEF FieldTypes
    <3> QED BY <1>0, <1>5, <2>1, <2>2, <3>1 DEF WakeInv, requestVars, Asleep
  <2> QED BY <2>3, <2>4
<1>6. CASE ConvScanNotify(t)
  <2>1. /\ pc[t] = "convNotify" /\ UNCHANGED requestVars /\ pc'[t] = "convScan"
        /\ notify' = [notify EXCEPT ![grantedList[scan.pos]] = "OK"]
        /\ \A j \in Lockers \ {t} : pc'[j] = pc[j]
    BY <1>0, <1>1, <1>6 DEF ConvScanNotify, FieldTypes
  <2>2. PICK r \in Lockers : r = grantedList[scan.pos]
    BY <2>1 DEF CursorInv, IInv, TypeOK
  <2>3. NotificationPending(r) /\ \A j \in Lockers : NotificationPending(j) => j = r
    BY <1>1, <2>1, <2>2 DEF NotificationPending, Sections
  <2> QED BY <1>5, <2>1, <2>2, <2>3
<1>7. CASE ConflictScanNotify(t)
  <2>1. /\ pc[t] = "conflictNotify" /\ UNCHANGED requestVars
        /\ pc'[t] \in {"conflictScan", "scanDone"}
        /\ notify' = [notify EXCEPT ![Last(grantedList)] = "OK"]
        /\ \A j \in Lockers \ {t} : pc'[j] = pc[j]
    BY <1>0, <1>1, <1>7 DEF ConflictScanNotify, FieldTypes
  <2>2. PICK r \in Lockers : r = Last(grantedList)
    BY <2>1 DEF CursorInv, IInv, TypeOK, Last
  <2>3. NotificationPending(r) /\ \A j \in Lockers : NotificationPending(j) => j = r
    BY <1>1, <2>1, <2>2 DEF NotificationPending, Sections
  <2> QED BY <1>5, <2>1, <2>2, <2>3
<1>8. ASSUME NEW r \in Lockers, where[r] = "head", status[r] \in {"waiting", "converting"},
             status'[r] = "granted", UNCHANGED <<where, notify>>,
             \A j \in Lockers \ {r} : status'[j] = status[j],
             \A j \in Lockers \ {t} : pc'[j] = pc[j],
             pc[t] \in {"convScan", "conflictScan"}, pc'[t] \in {"convNotify", "conflictNotify"},
             \A j \in Lockers : NotificationPending(j)' <=> j = r
      PROVE  WakeInv(k)'
  <2>1. ~NotificationPending(k)
    BY <1>2, <1>8
  <2>2. r # t /\ notify[r] = "INVALID" /\ pc[r] \in Asleep
    BY <1>8 DEF WakeInv, Asleep
  <2>3. CASE k = r
    BY <1>8, <2>2, <2>3 DEF WakeInv, Asleep
  <2>4. CASE k # r
    <3>1. \/ pc'[k] = pc[k]
          \/ /\ pc[k] \in {"convScan", "conflictScan"}
             /\ pc'[k] \in {"convNotify", "conflictNotify"}
      BY <1>8
    <3>2. ~NotificationPending(k)'
      BY <1>8, <2>4
    <3> QED BY <1>0, <1>8, <2>1, <2>4, <3>1, <3>2 DEF WakeInv, Asleep
  <2> QED BY <2>3, <2>4
<1>9. CASE ConvScanGrant(t)
  <2>1. PICK r \in Lockers :
              /\ r = grantedList[scan.pos] /\ where[r] = "head" /\ status[r] = "converting"
              /\ status'[r] = "granted" /\ pc[t] = "convScan" /\ pc'[t] = "convNotify"
              /\ \A j \in Threads \ {t} : pc'[j] = pc[j]
              /\ \A j \in Lockers \ {r} : status'[j] = status[j]
              /\ UNCHANGED <<where, notify, grantedList, scan>>
    BY <1>9, ConvGrantFields
  <2>2. \A j \in Lockers \ {t} : pc'[j] = pc[j]
    BY <2>1 DEF Threads
  <2>3. \A j \in Lockers : NotificationPending(j)' <=> j = r
    BY <1>1, <2>1, <2>2 DEF NotificationPending, Sections
  <2> QED BY <1>8, <2>1, <2>2, <2>3
<1>10. CASE ConflictScanGrant(t)
  <2>1. PICK r \in Lockers :
              /\ where[r] = "head" /\ status[r] = "waiting"
              /\ status'[r] = "granted" /\ pc[t] = "conflictScan" /\ pc'[t] = "conflictNotify"
              /\ \A j \in Threads \ {t} : pc'[j] = pc[j]
              /\ \A j \in Lockers \ {r} : status'[j] = status[j]
              /\ grantedList' = Append(grantedList, r)
              /\ UNCHANGED <<where, notify>>
    BY <1>10, QueueGrantFields
  <2>2. \A j \in Lockers \ {t} : pc'[j] = pc[j]
    BY <2>1 DEF Threads
  <2>3. Last(grantedList') = r
    <3>1. grantedList \in Seq(Lockers)
      BY DEF IInv, TypeOK
    <3>2. /\ Len(Append(grantedList, r)) = Len(grantedList) + 1
          /\ Append(grantedList, r)[Len(grantedList) + 1] = r
      BY <3>1, AppendProperties
    <3> QED BY <2>1, <3>2 DEF Last
  <2>4. \A j \in Lockers : NotificationPending(j)' <=> j = r
    BY <1>1, <2>1, <2>2, <2>3 DEF NotificationPending, Sections
  <2> QED BY <1>8, <2>1, <2>2, <2>4
<1>11. CASE ScanReturn(t)
  <2>1. /\ pc[t] = "scanDone" /\ pc'[t] = "idle" /\ UNCHANGED <<where, notify>>
        /\ \A j \in Threads \ {t} : pc'[j] = pc[j]
        /\ \A j \in Lockers \ {t} : Same(j)
        /\ status'[t] = "none" \/ status'[t] = status[t]
    BY <1>11, ScanReturnFields DEF requestVars
  <2>2. ~NotificationPending(k) /\ ~NotificationPending(k)'
    BY <1>2, <1>3, <2>1 DEF Threads
  <2>3. CASE k # t
    BY <1>0, <2>1, <2>2, <2>3, SameWake
  <2>4. CASE k = t
    BY <1>0, <2>1, <2>2, <2>4 DEF WakeInv, Asleep
  <2> QED BY <2>3, <2>4
<1> QED BY <1>4, <1>6, <1>7, <1>9, <1>10, <1>11 DEF Scan

\* Every step preserves the invariant of the notifications.
LEMMA NotifyNext ==
    ASSUME IInv, OwnerInv, FieldsInv, CursorInv, NotifyInv, [Next]_vars
    PROVE  NotifyInv'
<1> SUFFICES ASSUME ~ConversionTimeouts, \A k \in Lockers : WakeInv(k), NEW k \in Lockers
             PROVE  WakeInv(k)'
  BY DEF NotifyInv
<1>1. ASSUME NEW l \in Lockers, Call(l) \/ Unlock(l) \/ WaitOk(l) PROVE WakeInv(k)'
  BY <1>1, WakeCalls
<1>2. ASSUME NEW u \in Threads, BucketStep(u) PROVE WakeInv(k)'
  BY <1>2, WakeBucket
<1>3. ASSUME NEW t \in Lockers, Scan(t) PROVE WakeInv(k)'
  BY <1>3, WakeScan
<1>4. CASE UNCHANGED vars
  BY <1>4 DEF vars, requestVars, headVars, threadVars, WakeInv, NotificationPending
<1> QED BY <1>1, <1>2, <1>3, <1>4 DEF Next, BucketStep, Threads

-----------------------------------------------------------------------------
(***************************************************************************)
(* Theorems                                                                *)
(***************************************************************************)

\* The invariants of the two modules together are inductive.
WaitsInv ==
    /\ IInv /\ OwnerInv /\ FieldsInv /\ HeadStays
    /\ PolicyCountInv /\ ScanInv /\ CursorInv /\ FrontInv /\ NotifyInv

\* They hold before the first call.
LEMMA WaitsInit == Init => WaitsInv
<1> SUFFICES ASSUME Init PROVE WaitsInv
  OBVIOUS
<1>1. IInv /\ FieldsInv
  BY InitIInv, FieldsInit
<1>2. OwnerInv /\ HeadStays
  BY LockersAssumption DEF Init, OwnerInv, Sections, HeadStays
<1>3. PolicyCountInv
  <2>1. {l \in Lockers : /\ OnHead(l) /\ compatibleFirst[l]
                         /\ status[l] \in {"granted", "converting"}} = {}
    BY DEF Init, OnHead
  <2> QED BY <2>1, FS_EmptySet DEF Init, PolicyCountInv, CompatibleFirstCountMatches
<1>4. ScanInv /\ CursorInv /\ FrontInv
  BY DEF Init, ScanInv, CursorInv, FrontInv, Blocked, NoScan, Threads
<1>5. NotifyInv
  BY DEF Init, NotifyInv, WakeInv, NotificationPending, Threads
<1> QED BY <1>1, <1>2, <1>3, <1>4, <1>5 DEF WaitsInv

\* Every step of every thread preserves them.
LEMMA WaitsNext == ASSUME WaitsInv, [Next]_vars PROVE WaitsInv'
<1>1. IInv /\ OwnerInv /\ FieldsInv /\ TypeOK
  BY DEF WaitsInv, IInv
<1>2. IInv' /\ OwnerInv' /\ FieldsInv'
  BY <1>1, NextStep, OwnerNext, FieldsNext
<1>3. HeadStays' /\ PolicyCountInv' /\ ScanInv' /\ CursorInv'
  BY <1>1, HeadStaysNext, PolicyCountNext, ScanInvNext, CursorNext DEF WaitsInv
<1>4. FrontInv' /\ NotifyInv'
  BY <1>1, <1>2, FrontNext, NotifyNext DEF WaitsInv
<1> QED BY <1>2, <1>3, <1>4 DEF WaitsInv

\* The invariant on which the theorems of this module rest: the requests, the
\* LockHead and the threads of the lock manager fit together, whoever waits.
THEOREM WaitsInvariance == Spec => []WaitsInv
<1>1. WaitsInv /\ [Next]_vars => WaitsInv'
  BY WaitsNext
<1> QED BY <1>1, WaitsInit, PTL DEF Spec

\* "If there are lock requests hanging off a given LockHead, then this lock will
\* never disappear": cleanupUnusedLocks deletes no LockHead under a request,
\* whatever the options.
THEOREM HeadNeverDisappears == Spec => []HeadStays
<1>1. WaitsInv => HeadStays
  BY DEF WaitsInv
<1> QED BY <1>1, WaitsInvariance, PTL

\* What a locker has, it keeps: cleanupUnusedLocks does not delete the LockHead
\* under it, and unlock takes no request off its list without telling the locker,
\* unless waits for conversions time out, which only tests have them do.
THEOREM RequestsStay == ~ConversionTimeouts => (Spec => []RequestsKept)
<1> SUFFICES ASSUME ~ConversionTimeouts PROVE Spec => []RequestsKept
  OBVIOUS
<1>1. WaitsInv => RequestsKept
  BY DEF WaitsInv, RequestsKept, LockerHolds, FieldsInv, FieldInv, KeepInv, Scanning
<1> QED BY <1>1, WaitsInvariance, PTL

\* The lists, the counts of modes and the compatible-first count of a LockHead are
\* what the requests say, through every conversion, migration, timeout and unlock,
\* as long as nobody upgrades the intent lock of a priority resource to a full
\* mode (which sets compatibleFirst of a request that is already counted).
THEOREM HeadExact == NoFullUpgrades => (Spec => []HeadConsistent)
<1> SUFFICES ASSUME NoFullUpgrades PROVE Spec => []HeadConsistent
  OBVIOUS
<1>1. WaitsInv => CompatibleFirstCountMatches
  BY DEF WaitsInv, PolicyCountInv
<1>2. ListsMatch /\ CountsMatch /\ CompatibleFirstCountMatches => HeadConsistent
  BY DEF HeadConsistent
<1> QED BY <1>1, <1>2, ListsExact, CountsExact, WaitsInvariance, PTL

\* FIFO: on an ordinary resource a new request, on whichever path, never gets the
\* resource while one that conflicts with it and came before it waits.
THEOREM FirstComeFirstServed == Spec => NoOvertaking
<1> DEFINE Fifo ==
        ~Priority =>
            \A l \in Lockers : HeldMode(l) = NoMode /\ HeldMode(l)' # NoMode =>
                \A i \in DOMAIN conflictList :
                    \/ conflictList[i] = l
                    \/ ~conflicts(mode[conflictList[i]], {mode'[l]})
                    \/ \E j \in 1..i : conflictList[j] = l
<1>1. WaitsInv /\ [Next]_vars => Fifo
  <2> SUFFICES ASSUME WaitsInv, [Next]_vars, ~Priority, NEW l \in Lockers,
                      HeldMode(l) = NoMode /\ HeldMode(l)' # NoMode,
                      NEW i \in DOMAIN conflictList
               PROVE  \/ conflictList[i] = l
                      \/ ~conflicts(mode[conflictList[i]], {mode'[l]})
                      \/ \E j \in 1..i : conflictList[j] = l
    OBVIOUS
  <2>1. ~Overtakes(l)
    BY NobodyOvertakes DEF WaitsInv
  <2> QED BY <2>1 DEF Overtakes
<1>2. WaitsInv /\ [Next]_vars => [Fifo]_vars
  BY <1>1
<1> QED BY <1>2, WaitsInvariance, PTL DEF Spec, NoOvertaking

\* No grant is missed, whatever the options: on an ordinary resource, between
\* calls, the request at the front of the conflict queue conflicts with what is
\* granted, although unlock looks at the queue only when a mode disappears.
THEOREM NoGrantMissed == Spec => []FrontBlocked
<1>1. WaitsInv => FrontBlocked
  BY LockersAssumption DEF WaitsInv, FrontInv, WillLook, Blocked, FrontBlocked, BucketFree
<1> QED BY <1>1, WaitsInvariance, PTL

\* Who waits must wait, and who is woken up was granted: no grant and no
\* notification is missed, sent twice or left over from an earlier wait, unless
\* waits for conversions time out, which only tests have them do.
THEOREM WaitsAreExact == ~ConversionTimeouts => (Spec => []WaitsExact)
<1> SUFFICES ASSUME ~ConversionTimeouts PROVE Spec => []WaitsExact
  OBVIOUS
<1>1. WaitsInv => NoLostWakeup /\ NotifiedOnce
  BY DEF WaitsInv, NotifyInv, WakeInv, NoLostWakeup, NotifiedOnce
<1>2. WaitsInv => WokenMeansGranted
  BY DEF WaitsInv, NotifyInv, WakeInv, WokenMeansGranted, IInv, RequestInv, ReqInv, TypeOK, Statuses
<1>3. FrontBlocked /\ NoLostWakeup /\ NotifiedOnce /\ WokenMeansGranted => WaitsExact
  BY DEF WaitsExact
<1> QED BY <1>1, <1>2, <1>3, NoGrantMissed, WaitsInvariance, PTL

=============================================================================
