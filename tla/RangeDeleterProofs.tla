------------------------ MODULE RangeDeleterProofs --------------------------
(***************************************************************************)
(* Proofs about RangeDeleter: type correctness, the assertions of the      *)
(* code, that no deletion takes a document that the shard owns or that a   *)
(* query may still read, that nobody waits for a deletion that will not    *)
(* come, and that ranges are cloned only when they are empty.              *)
(***************************************************************************)
EXTENDS RangeDeleter, SequenceTheorems, WellFoundedInduction, TLAPS

-----------------------------------------------------------------------------
(***************************************************************************)
(* Induction over the loops of the model, which are recursive functions     *)
(***************************************************************************)

\* A set of numbers that is not empty has a least element.
LEMMA LeastElement ==
    ASSUME NEW T \in SUBSET Nat, T # {}
    PROVE  \E m \in T : \A y \in T : m <= y
<1>1. PICK m \in T : \A y \in T : ~(<<y, m>> \in OpToRel(<, Nat))
  BY WFMin, NatLessThanWellFounded, Zenon
<1>2. \A y \in T : ~(y < m)
  BY <1>1 DEF OpToRel
<1> QED BY <1>2

\* What holds before a loop and is kept by every iteration holds after it: f[i] is
\* the state after i iterations, Q[i] the set of states that are allowed then.
LEMMA LoopInvariant ==
    ASSUME NEW n \in Nat, NEW f, NEW Q, f[0] \in Q[0],
           \A i \in 1 .. n : f[i - 1] \in Q[i - 1] => f[i] \in Q[i]
    PROVE  \A i \in 0 .. n : f[i] \in Q[i]
<1> DEFINE T == {i \in 0 .. n : f[i] \notin Q[i]}
<1> SUFFICES ASSUME NEW j \in 0 .. n, f[j] \notin Q[j] PROVE FALSE
  OBVIOUS
<1>0. j \in T /\ T \in SUBSET Nat
  OBVIOUS
<1>1. PICK m \in T : \A y \in T : m <= y
  <2> HIDE DEF T
  <2>1. T # {}
    BY <1>0
  <2> QED BY <1>0, <2>1, LeastElement
<1>2. m \in 1 .. n
  BY <1>1
<1>3. m - 1 \in 0 .. n /\ m - 1 \notin T
  BY <1>1, <1>2
<1> QED BY <1>1, <1>2, <1>3

\* f has the states of a loop that begins with b and has the iterations F.
IsLoop(f, n, b, F) ==
    /\ f = [i \in 0 .. n |-> f[i]]
    /\ f[0] = b /\ \A i \in 1 .. n : f[i] = F[i][f[i - 1]]

\* The states of a loop of n iterations exist: F[i][x] is what iteration i makes of
\* state x.
LEMMA LoopExists ==
    ASSUME NEW n \in Nat, NEW b, NEW F
    PROVE  \E f : IsLoop(f, n, b, F)
<1> DEFINE Steps(f, m) ==
        f = [i \in 0 .. m |-> IF i = 0 THEN b ELSE F[i][f[i - 1]]]
<1> DEFINE T == {m \in 0 .. n : ~\E f : Steps(f, m)}
<1> SUFFICES ASSUME ~\E f : Steps(f, n) PROVE FALSE
  <2>1. PICK f : Steps(f, n)
    <3> HIDE DEF Steps
    <3> QED OBVIOUS
  <2>2. f = [i \in 0 .. n |-> f[i]] /\ f[0] = b
    BY <2>1
  <2>3. \A i \in 1 .. n : f[i] = F[i][f[i - 1]]
    BY <2>1
  <2> QED BY <2>2, <2>3 DEF IsLoop
<1>0. n \in T /\ T \in SUBSET Nat
  <2> HIDE DEF Steps
  <2> QED OBVIOUS
<1>1. PICK m \in T : \A y \in T : m <= y
  <2> HIDE DEF T
  <2>1. T # {}
    BY <1>0
  <2> QED BY <1>0, <2>1, LeastElement
<1>2. m # 0
  <2> DEFINE f == [i \in 0 .. 0 |-> b]
             h == [i \in 0 .. 0 |-> IF i = 0 THEN b ELSE F[i][f[i - 1]]]
  <2>1. \A i \in 0 .. 0 : h[i] = f[i]
    OBVIOUS
  <2>2. f = h
    BY <2>1
  <2>3. Steps(f, 0)
    BY <2>2
  <2> QED BY <1>1, <2>3
<1>3. m \in Nat /\ m >= 1 /\ m - 1 \in 0 .. n /\ m - 1 \notin T
  <2> HIDE DEF Steps
  <2>1. m \in 0 .. n
    BY <1>1
  <2> HIDE DEF T
  <2> QED BY <1>1, <1>2, <2>1
<1>4. PICK f : Steps(f, m - 1)
  <2> HIDE DEF Steps
  <2> QED BY <1>3
<1> DEFINE g == [i \in 0 .. m |-> IF i = m THEN F[m][f[m - 1]] ELSE f[i]]
<1>5. \A i \in 0 .. m : g[i] = IF i = 0 THEN b ELSE F[i][g[i - 1]]
  <2> TAKE i \in 0 .. m
  <2>1. CASE i = m
    <3>1. m - 1 \in 0 .. m /\ m - 1 # m
      BY <1>3
    <3>2. g[m - 1] = f[m - 1] /\ g[m] = F[m][f[m - 1]]
      BY <1>3, <3>1
    <3> QED BY <1>3, <2>1, <3>2
  <2>2. CASE i # m /\ i = 0
    <3>1. g[0] = f[0] /\ 0 \in 0 .. (m - 1)
      BY <1>3, <2>2
    <3>2. f[0] = b
      BY <1>4, <3>1
    <3> QED BY <2>2, <3>1, <3>2
  <2>3. CASE i # m /\ i # 0
    <3>1. i \in 0 .. (m - 1) /\ i - 1 \in 0 .. m /\ i - 1 # m /\ i \in 0 .. m
      BY <1>3, <2>3
    <3>2. g[i] = f[i] /\ g[i - 1] = f[i - 1]
      BY <2>3, <3>1
    <3>3. f[i] = F[i][f[i - 1]]
      BY <1>4, <2>3, <3>1
    <3> QED BY <2>3, <3>2, <3>3
  <2> QED BY <2>1, <2>2, <2>3
<1>6. Steps(g, m)
  <2> DEFINE h == [i \in 0 .. m |-> IF i = 0 THEN b ELSE F[i][g[i - 1]]]
  <2>1. \A i \in 0 .. m : h[i] = g[i]
    BY <1>5
  <2>2. DOMAIN g = 0 .. m /\ DOMAIN h = 0 .. m
    OBVIOUS
  <2>3. g = [i \in DOMAIN g |-> g[i]] /\ h = [i \in DOMAIN h |-> h[i]]
    OBVIOUS
  <2> QED BY <2>1, <2>2, <2>3
<1> QED BY <1>1, <1>6

-----------------------------------------------------------------------------
(***************************************************************************)
(* The loops of the model                                                  *)
(***************************************************************************)

\* Due goes through the deletions one by one.
LEMMA DueLoop ==
    ASSUME NEW s, Len(s) \in Nat, NEW later, NEW Q, <<>> \in Q[0],
           \A i \in 1 .. Len(s) : \A x \in Q[i - 1] :
              (IF s[i].later = later THEN Append(x, s[i]) ELSE x) \in Q[i]
    PROVE  Due(s, later) \in Q[Len(s)]
<1> DEFINE n == Len(s)
           Body(i, x) == IF s[i].later = later THEN Append(x, s[i]) ELSE x
           F == [i \in 1 .. n |-> [x \in Q[i - 1] |-> Body(i, x)]]
           Loop(f) == f = [i \in 0 .. n |-> IF i = 0 THEN <<>> ELSE Body(i, f[i - 1])]
<1>1. PICK g : IsLoop(g, n, <<>>, F)
  <2> HIDE DEF n, F
  <2>1. n \in Nat
    BY DEF n
  <2>2. \E g : IsLoop(g, n, <<>>, F)
    BY <2>1, LoopExists, Zenon
  <2> QED BY <2>2
<1>2. \A i \in 1 .. n : g[i - 1] \in Q[i - 1] => g[i] = Body(i, g[i - 1]) /\ g[i] \in Q[i]
  <2> SUFFICES ASSUME NEW i \in 1 .. n, g[i - 1] \in Q[i - 1]
               PROVE  g[i] = Body(i, g[i - 1]) /\ g[i] \in Q[i]
    OBVIOUS
  <2>1. i \in 0 .. n /\ i # 0
    OBVIOUS
  <2>2. g[i] = F[i][g[i - 1]]
    <3> HIDE DEF F, n, Body
    <3> QED BY <1>1, <2>1 DEF IsLoop
  <2>3. F[i][g[i - 1]] = Body(i, g[i - 1])
    <3> HIDE DEF Body
    <3> QED OBVIOUS
  <2>4. Body(i, g[i - 1]) \in Q[i]
    OBVIOUS
  <2> QED BY <2>2, <2>3, <2>4
<1>3. g[0] = <<>>
  <2> HIDE DEF F
  <2> QED BY <1>1 DEF IsLoop
<1>4. \A i \in 0 .. n : g[i] \in Q[i]
  <2> HIDE DEF n, Body, F
  <2>1. n \in Nat
    BY DEF n
  <2>2. g[0] \in Q[0]
    BY <1>3
  <2>3. \A i \in 1 .. n : g[i - 1] \in Q[i - 1] => g[i] \in Q[i]
    BY <1>2, Zenon
  <2> QED BY <2>1, <2>2, <2>3, LoopInvariant, Zenon
<1>5. Loop(g)
  <2> DEFINE h == [i \in 0 .. n |-> IF i = 0 THEN <<>> ELSE Body(i, g[i - 1])]
  <2>1. \A i \in 0 .. n : h[i] = g[i]
    <3> SUFFICES ASSUME NEW i \in 0 .. n PROVE h[i] = g[i]
      OBVIOUS
    <3> HIDE DEF Body
    <3>1. CASE i = 0
      BY <1>3, <3>1
    <3>2. CASE i # 0
      <4>1. i \in 1 .. n /\ i - 1 \in 0 .. n
        BY <3>2
      <4> QED BY <1>2, <1>4, <3>2, <4>1
    <3> QED BY <3>1, <3>2
  <2>2. DOMAIN g = 0 .. n /\ DOMAIN h = 0 .. n
    <3> HIDE DEF F
    <3> QED BY <1>1 DEF IsLoop
  <2>3. g = [i \in DOMAIN g |-> g[i]] /\ h = [i \in DOMAIN h |-> h[i]]
    <3> HIDE DEF F
    <3> QED BY <1>1 DEF IsLoop
  <2>4. g = h
    BY <2>1, <2>2, <2>3
  <2> QED BY <2>4
<1> DEFINE due == CHOOSE f : Loop(f)
<1>6. Loop(due)
  <2> HIDE DEF Loop
  <2> QED BY <1>5
<1>7. \A i \in 0 .. n : due[i] \in Q[i]
  <2> HIDE DEF due
  <2>1. due[0] = <<>>
    BY <1>6
  <2>2. \A i \in 1 .. n : due[i - 1] \in Q[i - 1] => due[i] \in Q[i]
    <3> SUFFICES ASSUME NEW i \in 1 .. n, due[i - 1] \in Q[i - 1] PROVE due[i] \in Q[i]
      OBVIOUS
    <3>1. due[i] = Body(i, due[i - 1])
      <4> HIDE DEF Body
      <4> QED BY <1>6
    <3> QED BY <3>1
  <2> HIDE DEF n, Body
  <2>3. n \in Nat
    BY DEF n
  <2>4. due[0] \in Q[0]
    BY <2>1
  <2> QED BY <2>2, <2>3, <2>4, LoopInvariant, Zenon
<1>8. Due(s, later) = due[n]
  BY DEF Due
<1>9. n \in 0 .. n
  OBVIOUS
<1> QED BY <1>7, <1>8, <1>9

\* PushList goes through the trackers one by one.
LEMMA PushLoop ==
    ASSUME NEW ms, NEW k \in Nat, NEW Q, NEW q \in Q[0],
           \A i \in 1 .. k : \A x \in Q[i - 1] :
              (IF ms[i].orphans = <<>> THEN x ELSE Add(x, ms[i].orphans)) \in Q[i]
    PROVE  PushList(q, ms, k) \in Q[k]
<1> DEFINE n == k
           Body(i, x) == IF ms[i].orphans = <<>> THEN x ELSE Add(x, ms[i].orphans)
           F == [i \in 1 .. n |-> [x \in Q[i - 1] |-> Body(i, x)]]
           Loop(f) == f = [i \in 0 .. n |-> IF i = 0 THEN q ELSE Body(i, f[i - 1])]
<1>1. PICK g : IsLoop(g, n, q, F)
  <2> HIDE DEF n, F
  <2>1. n \in Nat
    BY DEF n
  <2>2. \E g : IsLoop(g, n, q, F)
    BY <2>1, LoopExists, Zenon
  <2> QED BY <2>2
<1>2. \A i \in 1 .. n : g[i - 1] \in Q[i - 1] => g[i] = Body(i, g[i - 1]) /\ g[i] \in Q[i]
  <2> SUFFICES ASSUME NEW i \in 1 .. n, g[i - 1] \in Q[i - 1]
               PROVE  g[i] = Body(i, g[i - 1]) /\ g[i] \in Q[i]
    OBVIOUS
  <2>1. i \in 0 .. n /\ i # 0
    OBVIOUS
  <2>2. g[i] = F[i][g[i - 1]]
    <3> HIDE DEF F, n, Body
    <3> QED BY <1>1, <2>1 DEF IsLoop
  <2>3. F[i][g[i - 1]] = Body(i, g[i - 1])
    <3> HIDE DEF Body
    <3> QED OBVIOUS
  <2>4. Body(i, g[i - 1]) \in Q[i]
    OBVIOUS
  <2> QED BY <2>2, <2>3, <2>4
<1>3. g[0] = q
  <2> HIDE DEF F
  <2> QED BY <1>1 DEF IsLoop
<1>4. \A i \in 0 .. n : g[i] \in Q[i]
  <2> HIDE DEF n, Body, F
  <2>1. n \in Nat
    BY DEF n
  <2> QED BY <1>2, <1>3, <2>1, LoopInvariant
<1>5. Loop(g)
  <2> DEFINE h == [i \in 0 .. n |-> IF i = 0 THEN q ELSE Body(i, g[i - 1])]
  <2>1. \A i \in 0 .. n : h[i] = g[i]
    <3> SUFFICES ASSUME NEW i \in 0 .. n PROVE h[i] = g[i]
      OBVIOUS
    <3> HIDE DEF Body
    <3>1. CASE i = 0
      BY <1>3, <3>1
    <3>2. CASE i # 0
      <4>1. i \in 1 .. n /\ i - 1 \in 0 .. n
        BY <3>2
      <4> QED BY <1>2, <1>4, <3>2, <4>1
    <3> QED BY <3>1, <3>2
  <2>2. DOMAIN g = 0 .. n /\ DOMAIN h = 0 .. n
    <3> HIDE DEF F
    <3> QED BY <1>1 DEF IsLoop
  <2>3. g = [i \in DOMAIN g |-> g[i]] /\ h = [i \in DOMAIN h |-> h[i]]
    <3> HIDE DEF F
    <3> QED BY <1>1 DEF IsLoop
  <2>4. g = h
    BY <2>1, <2>2, <2>3
  <2> QED BY <2>4
<1> DEFINE pushed == CHOOSE f : Loop(f)
<1>6. Loop(pushed)
  <2> HIDE DEF Loop
  <2> QED BY <1>5
<1>7. \A i \in 0 .. n : pushed[i] \in Q[i]
  <2> HIDE DEF pushed
  <2>1. pushed[0] = q
    BY <1>6
  <2>2. \A i \in 1 .. n : pushed[i - 1] \in Q[i - 1] => pushed[i] \in Q[i]
    <3> SUFFICES ASSUME NEW i \in 1 .. n, pushed[i - 1] \in Q[i - 1] PROVE pushed[i] \in Q[i]
      OBVIOUS
    <3>1. pushed[i] = Body(i, pushed[i - 1])
      <4> HIDE DEF Body
      <4> QED BY <1>6
    <3> QED BY <3>1
  <2> HIDE DEF n, Body
  <2>3. n \in Nat
    BY DEF n
  <2> QED BY <2>1, <2>2, <2>3, LoopInvariant
<1>8. PushList(q, ms, k) = pushed[n]
  BY DEF PushList
<1>9. n \in 0 .. n
  OBVIOUS
<1> QED BY <1>7, <1>8, <1>9

-----------------------------------------------------------------------------
(***************************************************************************)
(* What is queued                                                          *)
(***************************************************************************)
QueueStates == [orphans : Seq(Deletion), delayed : Seq(Deletion),
                tasks : SUBSET {"now", "later"}]

\* The deletions of a queue.
InQueue(q) == ToSet(q.orphans) \cup ToSet(q.delayed)

\* A queue whose deletions will be looked at by a task, or by the one that runs.
WillRun(q, busy) ==
    /\ q.orphans # <<>> => "now" \in q.tasks \/ busy
    /\ q.delayed # <<>> => q.tasks # {} \/ busy

\* The first deletion that is due stays the first.
HeadKept(q, p) == q.orphans # <<>> => p.orphans # <<>> /\ Head(p.orphans) = Head(q.orphans)

\* Due picks deletions of the sequence.
LEMMA DueFacts ==
    ASSUME NEW s \in Seq(Deletion), NEW later
    PROVE  Due(s, later) \in Seq(Deletion) /\ ToSet(Due(s, later)) \subseteq ToSet(s)
<1> DEFINE P == {x \in Seq(Deletion) : ToSet(x) \subseteq ToSet(s)}
           Q == [i \in 0 .. Len(s) |-> P]
<1>1. Len(s) \in Nat /\ DOMAIN s = 1 .. Len(s)
  OBVIOUS
<1>2. <<>> \in P
  BY DEF ToSet
<1>3. ASSUME NEW i \in 1 .. Len(s), NEW x \in P PROVE Append(x, s[i]) \in P
  <2>1. s[i] \in Deletion /\ s[i] \in ToSet(s)
    BY <1>1 DEF ToSet
  <2>2. x \in Seq(Deletion) /\ ToSet(x) \subseteq ToSet(s)
    OBVIOUS
  <2>3. Append(x, s[i]) \in Seq(Deletion)
    BY <2>1, <2>2
  <2>4. ASSUME NEW j \in DOMAIN Append(x, s[i]) PROVE Append(x, s[i])[j] \in ToSet(s)
    <3>1. CASE j \in DOMAIN x
      <4>1. Append(x, s[i])[j] = x[j]
        BY <2>1, <2>2, <3>1
      <4> QED BY <2>2, <3>1, <4>1 DEF ToSet
    <3>2. CASE j \notin DOMAIN x
      <4>1. j = Len(x) + 1
        BY <2>1, <2>2, <2>4, <3>2
      <4>2. Append(x, s[i])[j] = s[i]
        BY <2>1, <2>2, <4>1
      <4> QED BY <2>1, <4>2
    <3> QED BY <3>1, <3>2
  <2>5. ToSet(Append(x, s[i])) \subseteq ToSet(s)
    BY <2>4 DEF ToSet
  <2> QED BY <2>3, <2>5
<1>4. \A i \in 0 .. Len(s) : Q[i] = P
  OBVIOUS
<1>5. Due(s, later) \in Q[Len(s)]
  <2> HIDE DEF P, Q
  <2>1. \A i \in 1 .. Len(s) : i \in 0 .. Len(s) /\ i - 1 \in 0 .. Len(s)
    BY <1>1
  <2>2. 0 \in 0 .. Len(s)
    BY <1>1
  <2>3. \A i \in 1 .. Len(s) : \A x \in Q[i - 1] :
              (IF s[i].later = later THEN Append(x, s[i]) ELSE x) \in Q[i]
    BY <1>3, <1>4, <2>1
  <2> QED BY <1>1, <1>2, <1>4, <2>2, <2>3, DueLoop
<1>6. Len(s) \in 0 .. Len(s)
  BY <1>1
<1> QED BY <1>4, <1>5, <1>6

\* The concatenation of two sequences of deletions.
LEMMA ConcatFacts ==
    ASSUME NEW s \in Seq(Deletion), NEW t \in Seq(Deletion)
    PROVE  /\ s \o t \in Seq(Deletion) /\ ToSet(s \o t) = ToSet(s) \cup ToSet(t)
           /\ s # <<>> => s \o t # <<>> /\ Head(s \o t) = Head(s)
           /\ s = <<>> => s \o t = t
<1>1. /\ s \o t \in Seq(Deletion) /\ Len(s \o t) = Len(s) + Len(t)
      /\ \A i \in 1 .. Len(s) + Len(t) :
            (s \o t)[i] = IF i <= Len(s) THEN s[i] ELSE t[i - Len(s)]
  BY ConcatProperties
<1>2. ToSet(s \o t) \subseteq ToSet(s) \cup ToSet(t)
  <2> SUFFICES ASSUME NEW i \in DOMAIN (s \o t)
               PROVE  (s \o t)[i] \in ToSet(s) \cup ToSet(t)
    BY DEF ToSet
  <2>1. i \in 1 .. Len(s) + Len(t)
    BY <1>1
  <2>2. CASE i <= Len(s)
    BY <1>1, <2>1, <2>2 DEF ToSet
  <2>3. CASE ~(i <= Len(s))
    <3>1. i - Len(s) \in DOMAIN t
      BY <2>1, <2>3
    <3> QED BY <1>1, <2>1, <2>3, <3>1 DEF ToSet
  <2> QED BY <2>2, <2>3
<1>3. ToSet(s) \subseteq ToSet(s \o t)
  <2> SUFFICES ASSUME NEW i \in DOMAIN s PROVE s[i] \in ToSet(s \o t)
    BY DEF ToSet
  <2>1. i \in 1 .. Len(s) + Len(t) /\ i <= Len(s) /\ i \in DOMAIN (s \o t)
    BY <1>1
  <2> QED BY <1>1, <2>1 DEF ToSet
<1>4. ToSet(t) \subseteq ToSet(s \o t)
  <2> SUFFICES ASSUME NEW i \in DOMAIN t PROVE t[i] \in ToSet(s \o t)
    BY DEF ToSet
  <2>1. /\ i + Len(s) \in 1 .. Len(s) + Len(t) /\ ~(i + Len(s) <= Len(s))
        /\ i + Len(s) - Len(s) = i /\ i + Len(s) \in DOMAIN (s \o t)
    BY <1>1
  <2> QED BY <1>1, <2>1 DEF ToSet
<1>5. s # <<>> => s \o t # <<>> /\ Head(s \o t) = Head(s)
  <2> SUFFICES ASSUME s # <<>> PROVE s \o t # <<>> /\ Head(s \o t) = Head(s)
    OBVIOUS
  <2>1. Len(s) \in Nat /\ Len(s) > 0 /\ Len(t) \in Nat
    OBVIOUS
  <2>2. 1 \in 1 .. Len(s) + Len(t) /\ 1 <= Len(s) /\ Len(s \o t) > 0
    BY <1>1, <2>1
  <2>3. (s \o t)[1] = s[1] /\ s \o t # <<>>
    BY <1>1, <2>2
  <2> QED BY <1>1, <2>3
<1>6. s = <<>> => s \o t = t
  BY ConcatEmptySeq
<1> QED BY <1>1, <1>2, <1>3, <1>4, <1>5, <1>6

\* CollectionRangeDeleter::add.
LEMMA AddFacts ==
    ASSUME NEW q \in QueueStates, NEW s \in Seq(Deletion)
    PROVE  /\ Add(q, s) \in QueueStates
           /\ InQueue(Add(q, s)) \subseteq InQueue(q) \cup ToSet(s)
           /\ HeadKept(q, Add(q, s))
           /\ \A busy \in BOOLEAN : WillRun(q, busy) => WillRun(Add(q, s), busy)
<1> DEFINE a == Due(s, FALSE)
           b == Due(s, TRUE)
           o == q.orphans \o a
           d == q.delayed \o b
<1>1. /\ a \in Seq(Deletion) /\ ToSet(a) \subseteq ToSet(s)
      /\ b \in Seq(Deletion) /\ ToSet(b) \subseteq ToSet(s)
  BY DueFacts
<1>2. q.orphans \in Seq(Deletion) /\ q.delayed \in Seq(Deletion) /\ q.tasks \in SUBSET {"now", "later"}
  BY DEF QueueStates
<1>3. Add(q, s) = [orphans |-> o, delayed |-> d, tasks |-> q.tasks \cup When(q, o, d)]
  BY DEF Add
<1> HIDE DEF a, b
<1>4. /\ o \in Seq(Deletion) /\ ToSet(o) = ToSet(q.orphans) \cup ToSet(a)
      /\ q.orphans # <<>> => o # <<>> /\ Head(o) = Head(q.orphans)
  BY <1>1, <1>2, ConcatFacts
<1>5. d \in Seq(Deletion) /\ ToSet(d) = ToSet(q.delayed) \cup ToSet(b)
  BY <1>1, <1>2, ConcatFacts
<1> HIDE DEF o, d
<1>6. When(q, o, d) \in SUBSET {"now", "later"}
  BY DEF When
<1>7. Add(q, s) \in QueueStates
  BY <1>2, <1>3, <1>4, <1>5, <1>6 DEF QueueStates
<1>8. InQueue(Add(q, s)) \subseteq InQueue(q) \cup ToSet(s)
  BY <1>1, <1>3, <1>4, <1>5 DEF InQueue
<1>9. HeadKept(q, Add(q, s))
  BY <1>3, <1>4 DEF HeadKept
<1>10. ASSUME NEW busy \in BOOLEAN, WillRun(q, busy) PROVE WillRun(Add(q, s), busy)
  <2>1. q.orphans # <<>> => "now" \in q.tasks \/ busy
    BY <1>10 DEF WillRun
  <2>2. q.delayed # <<>> => q.tasks # {} \/ busy
    BY <1>10 DEF WillRun
  <2>3. q.orphans = <<>> /\ o # <<>> => When(q, o, d) = {"now"}
    BY DEF When
  <2>4. q.orphans = <<>> /\ o = <<>> /\ q.delayed = <<>> /\ d # <<>> => When(q, o, d) = {"later"}
    BY DEF When
  <2>5. o # <<>> => "now" \in q.tasks \cup When(q, o, d) \/ busy
    BY <2>1, <2>3
  <2>6. d # <<>> => q.tasks \cup When(q, o, d) # {} \/ busy
    BY <1>4, <2>1, <2>2, <2>3, <2>4
  <2> QED BY <1>3, <2>5, <2>6 DEF WillRun
<1> QED BY <1>7, <1>8, <1>9, <1>10

\* _retireExpiredMetadata hands the orphans of the first k trackers to the queue.
LEMMA PushFacts ==
    ASSUME NEW q \in QueueStates, NEW ms, NEW k \in Nat,
           \A i \in 1 .. k : ms[i].orphans \in Seq(Deletion)
    PROVE  LET p == PushList(q, ms, k)
           IN  /\ p \in QueueStates
               /\ InQueue(p) \subseteq
                     InQueue(q) \cup UNION {ToSet(ms[i].orphans) : i \in 1 .. k}
               /\ HeadKept(q, p)
               /\ \A busy \in BOOLEAN : WillRun(q, busy) => WillRun(p, busy)
<1> DEFINE R == InQueue(q) \cup UNION {ToSet(ms[i].orphans) : i \in 1 .. k}
           P == {x \in QueueStates :
                   /\ InQueue(x) \subseteq R
                   /\ HeadKept(q, x)
                   /\ \A busy \in BOOLEAN : WillRun(q, busy) => WillRun(x, busy)}
           Q == [i \in 0 .. k |-> P]
<1>1. q \in P
  BY DEF HeadKept
<1>2. ASSUME NEW i \in 1 .. k, NEW x \in P PROVE Add(x, ms[i].orphans) \in P
  <2>1. x \in QueueStates /\ ms[i].orphans \in Seq(Deletion) /\ ToSet(ms[i].orphans) \subseteq R
    OBVIOUS
  <2>2. /\ InQueue(x) \subseteq R /\ HeadKept(q, x)
        /\ \A busy \in BOOLEAN : WillRun(q, busy) => WillRun(x, busy)
    OBVIOUS
  <2> DEFINE y == Add(x, ms[i].orphans)
  <2>3. /\ y \in QueueStates
        /\ InQueue(y) \subseteq InQueue(x) \cup ToSet(ms[i].orphans)
        /\ HeadKept(x, y)
        /\ \A busy \in BOOLEAN : WillRun(x, busy) => WillRun(y, busy)
    BY <2>1, AddFacts
  <2> HIDE DEF y, R
  <2>4. InQueue(y) \subseteq R
    BY <2>1, <2>2, <2>3
  <2>5. HeadKept(q, y)
    BY <2>2, <2>3 DEF HeadKept
  <2>6. \A busy \in BOOLEAN : WillRun(q, busy) => WillRun(y, busy)
    BY <2>2, <2>3
  <2>7. y \in P
    BY <2>3, <2>4, <2>5, <2>6
  <2> QED BY <2>7 DEF y
<1>3. \A i \in 0 .. k : Q[i] = P
  OBVIOUS
<1>4. PushList(q, ms, k) \in Q[k]
  <2> HIDE DEF P, Q
  <2>1. \A i \in 1 .. k : i \in 0 .. k /\ i - 1 \in 0 .. k
    OBVIOUS
  <2>2. 0 \in 0 .. k
    OBVIOUS
  <2>3. \A i \in 1 .. k : \A x \in Q[i - 1] :
              (IF ms[i].orphans = <<>> THEN x ELSE Add(x, ms[i].orphans)) \in Q[i]
    BY <1>2, <1>3, <2>1
  <2>4. q \in Q[0]
    BY <1>1, <1>3, <2>2
  <2> QED BY <2>3, <2>4, PushLoop
<1>5. PushList(q, ms, k) \in P
  <2> HIDE DEF P, Q
  <2>1. k \in 0 .. k
    OBVIOUS
  <2> QED BY <1>3, <1>4, <2>1
<1> QED BY <1>5

\* The trackers that expire are the longest prefix that nobody uses, without the
\* active one.
LEMMA ExpiredFacts ==
    ASSUME NEW ms, Len(ms) \in Nat, NEW inUse
    PROVE  LET k == Expired(ms, inUse)
           IN  /\ k \in 0 .. Len(ms)
               /\ \A i \in 1 .. k : i < Len(ms) /\ ms[i].id \notin inUse
               /\ k + 1 >= Len(ms) \/ ms[k + 1].id \in inUse
<1> DEFINE Stops(k) == k + 1 >= Len(ms) \/ ms[k + 1].id \in inUse
           T == {k \in 0 .. Len(ms) : Stops(k)}
<1>1. Len(ms) \in T /\ T \in SUBSET Nat
  OBVIOUS
<1>2. PICK k \in T : \A y \in T : k <= y
  <2> HIDE DEF T
  <2>1. T # {}
    BY <1>1
  <2> QED BY <1>1, <2>1, LeastElement
<1>3. ASSUME NEW i \in 1 .. k PROVE i < Len(ms) /\ ms[i].id \notin inUse
  <2>0. k \in 0 .. Len(ms)
    BY <1>2
  <2>1. i - 1 \in 0 .. Len(ms) /\ i - 1 \notin T /\ i - 1 + 1 = i
    <3> HIDE DEF T
    <3> QED BY <1>2, <1>3, <2>0
  <2>2. ~Stops(i - 1)
    BY <2>1
  <2>3. ~(i >= Len(ms)) /\ ms[i].id \notin inUse
    BY <2>1, <2>2
  <2> QED BY <2>3
<1>4. k \in 0 .. Len(ms) /\ (k + 1 >= Len(ms) \/ ms[k + 1].id \in inUse)
  BY <1>2
<1>5. \E j \in 0 .. Len(ms) : /\ \A i \in 1 .. j : i < Len(ms) /\ ms[i].id \notin inUse
                              /\ j + 1 >= Len(ms) \/ ms[j + 1].id \in inUse
  BY <1>3, <1>4
<1> QED BY <1>5 DEF Expired

\* The trackers that are left, and what the expired ones leave to the queue.
LEMMA RetireFacts ==
    ASSUME NEW T, NEW ms \in Seq(T), \A t \in T : t.orphans \in Seq(Deletion), NEW h,
           queue \in QueueStates, Retire(ms, h)
    PROVE  \E k \in 0 .. Len(ms) :
              /\ ms # <<>> => k < Len(ms)
              /\ \A i \in 1 .. k : \A x \in Holders : ms[i].id # h[x]
              /\ metadata' \in Seq(T) /\ Len(metadata') = Len(ms) - k
              /\ \A i \in 1 .. Len(ms) - k : metadata'[i] = ms[i + k]
              /\ queue' \in QueueStates /\ HeadKept(queue, queue')
              /\ InQueue(queue') \subseteq
                     InQueue(queue) \cup UNION {ToSet(ms[i].orphans) : i \in 1 .. k}
              /\ \A busy \in BOOLEAN : WillRun(queue, busy) => WillRun(queue', busy)
              /\ queue' = PushList(queue, ms, k)
<1> DEFINE inUse == {h[x] : x \in Holders}
           k == Expired(ms, inUse)
<1>1. Len(ms) \in Nat /\ \A i \in 1 .. Len(ms) : ms[i] \in T
  OBVIOUS
<1>2. /\ k \in 0 .. Len(ms)
      /\ \A i \in 1 .. k : i < Len(ms) /\ ms[i].id \notin inUse
  <2> HIDE DEF inUse
  <2> QED BY <1>1, ExpiredFacts
<1>3. metadata' = SubSeq(ms, k + 1, Len(ms)) /\ queue' = PushList(queue, ms, k)
  BY DEF Retire
<1>4. \A i \in 1 .. k : \A x \in Holders : ms[i].id # h[x]
  <2> HIDE DEF k
  <2> QED BY <1>2
<1> HIDE DEF k, inUse
<1>5. ms # <<>> => k < Len(ms)
  <2> SUFFICES ASSUME ms # <<>>, ~(k < Len(ms)) PROVE FALSE
    OBVIOUS
  <2>1. k = Len(ms) /\ Len(ms) \in 1 .. k
    BY <1>1, <1>2
  <2> QED BY <1>1, <1>2, <2>1
<1>6. k + 1 \in Int /\ Len(ms) \in Int /\ \A i \in k + 1 .. Len(ms) : ms[i] \in T
  BY <1>1, <1>2
<1>7. /\ metadata' \in Seq(T)
      /\ Len(metadata') = IF k + 1 <= Len(ms) THEN Len(ms) - (k + 1) + 1 ELSE 0
      /\ \A i \in 1 .. Len(ms) - (k + 1) + 1 : metadata'[i] = ms[k + 1 + i - 1]
  BY <1>3, <1>6, SubSeqProperties
<1>8. Len(metadata') = Len(ms) - k /\ \A i \in 1 .. Len(ms) - k : metadata'[i] = ms[i + k]
  <2>1. Len(ms) - (k + 1) + 1 = Len(ms) - k
    BY <1>1, <1>2
  <2>2. Len(metadata') = Len(ms) - k
    BY <1>1, <1>2, <1>7
  <2>3. \A i \in 1 .. Len(ms) - k : k + 1 + i - 1 = i + k
    BY <1>1, <1>2
  <2> QED BY <1>7, <2>1, <2>2, <2>3
<1>9. \A i \in 1 .. k : ms[i].orphans \in Seq(Deletion)
  BY <1>1, <1>2
<1>10. /\ queue' \in QueueStates /\ HeadKept(queue, queue')
       /\ InQueue(queue') \subseteq
              InQueue(queue) \cup UNION {ToSet(ms[i].orphans) : i \in 1 .. k}
       /\ \A busy \in BOOLEAN : WillRun(queue, busy) => WillRun(queue', busy)
  BY <1>2, <1>3, <1>9, PushFacts
<1> QED BY <1>2, <1>3, <1>4, <1>5, <1>7, <1>8, <1>10

-----------------------------------------------------------------------------
(***************************************************************************)
(* Who waits for what is queued                                            *)
(***************************************************************************)

\* w waits for a deletion of the sequence, and for no two of them.
Has(s, w) == \E i \in DOMAIN s : w \in s[i].waiters
One(s, w) == \A i, j \in DOMAIN s : w \in s[i].waiters /\ w \in s[j].waiters => i = j

\* The same for the two sequences of a queue,
QHas(q, w) == Has(q.orphans, w) \/ Has(q.delayed, w)
QOne(q, w) ==
    One(q.orphans, w) /\ One(q.delayed, w) /\ ~(Has(q.orphans, w) /\ Has(q.delayed, w))

\* and for a queue with trackers.
SomeWaits(ms, q, w) == QHas(q, w) \/ \E i \in DOMAIN ms : Has(ms[i].orphans, w)
OneWaits(ms, q, w) ==
    /\ QOne(q, w)
    /\ \A i \in DOMAIN ms : One(ms[i].orphans, w)
    /\ \A i \in DOMAIN ms : Has(ms[i].orphans, w) =>
          ~QHas(q, w) /\ \A j \in DOMAIN ms : Has(ms[j].orphans, w) => i = j

\* Nobody waits for nothing.
LEMMA EmptyWaits ==
    ASSUME NEW w
    PROVE  ~Has(<<>>, w) /\ One(<<>>, w)
BY DEF Has, One

\* Append, as far as waiting goes.
LEMMA AppendWaits ==
    ASSUME NEW s \in Seq(Deletion), NEW x \in Deletion, NEW w
    PROVE  /\ Append(s, x) \in Seq(Deletion)
           /\ Has(Append(s, x), w) <=> Has(s, w) \/ w \in x.waiters
           /\ One(s, w) /\ ~(Has(s, w) /\ w \in x.waiters) => One(Append(s, x), w)
<1> DEFINE t == Append(s, x)
<1>1. /\ t \in Seq(Deletion) /\ Len(t) = Len(s) + 1 /\ Len(s) \in Nat
      /\ \A i \in 1 .. Len(s) : t[i] = s[i]
      /\ t[Len(s) + 1] = x
  OBVIOUS
<1>2. DOMAIN t = 1 .. Len(s) + 1 /\ DOMAIN s = 1 .. Len(s)
  BY <1>1
<1> HIDE DEF t
<1>3. \A i \in DOMAIN t : i \in DOMAIN s \/ i = Len(s) + 1
  BY <1>1, <1>2
<1>4. \A i \in DOMAIN s : i \in DOMAIN t /\ t[i] = s[i]
  BY <1>1, <1>2
<1>5. Len(s) + 1 \in DOMAIN t
  BY <1>1, <1>2
<1>6. Has(t, w) <=> Has(s, w) \/ w \in x.waiters
  BY <1>1, <1>3, <1>4, <1>5 DEF Has
<1>7. ASSUME One(s, w), ~(Has(s, w) /\ w \in x.waiters) PROVE One(t, w)
  <2> SUFFICES ASSUME NEW i \in DOMAIN t, NEW j \in DOMAIN t,
                      w \in t[i].waiters, w \in t[j].waiters
               PROVE  i = j
    BY DEF One
  <2>1. CASE i \in DOMAIN s /\ j \in DOMAIN s
    BY <1>4, <1>7, <2>1 DEF One
  <2>2. CASE i \in DOMAIN s /\ j = Len(s) + 1
    BY <1>1, <1>4, <1>7, <2>2 DEF Has
  <2>3. CASE i = Len(s) + 1 /\ j \in DOMAIN s
    BY <1>1, <1>4, <1>7, <2>3 DEF Has
  <2> QED BY <1>3, <2>1, <2>2, <2>3
<1> QED BY <1>1, <1>6, <1>7 DEF t

\* Concatenation, as far as waiting goes.
LEMMA ConcatWaits ==
    ASSUME NEW s \in Seq(Deletion), NEW t \in Seq(Deletion), NEW w
    PROVE  /\ Has(s \o t, w) <=> Has(s, w) \/ Has(t, w)
           /\ One(s, w) /\ One(t, w) /\ ~(Has(s, w) /\ Has(t, w)) => One(s \o t, w)
<1> DEFINE c == s \o t
           n == Len(s)
<1>1. /\ c \in Seq(Deletion) /\ Len(c) = Len(s) + Len(t)
      /\ \A i \in 1 .. Len(s) + Len(t) :
            c[i] = IF i <= Len(s) THEN s[i] ELSE t[i - Len(s)]
  BY ConcatProperties
<1>2. /\ DOMAIN c = 1 .. n + Len(t) /\ DOMAIN s = 1 .. n /\ DOMAIN t = 1 .. Len(t)
      /\ n \in Nat /\ Len(t) \in Nat
  BY <1>1
<1> HIDE DEF c
<1>3. \A i \in DOMAIN c : \/ i \in DOMAIN s /\ c[i] = s[i]
                          \/ i > n /\ i - n \in DOMAIN t /\ c[i] = t[i - n]
  BY <1>1, <1>2
<1>4. \A i \in DOMAIN s : i \in DOMAIN c /\ c[i] = s[i]
  BY <1>1, <1>2
<1>5. \A i \in DOMAIN t : i + n \in DOMAIN c /\ c[i + n] = t[i]
  <2> SUFFICES ASSUME NEW i \in DOMAIN t PROVE i + n \in DOMAIN c /\ c[i + n] = t[i]
    OBVIOUS
  <2>1. i + n \in 1 .. n + Len(t) /\ ~(i + n <= n) /\ (i + n) - n = i
    BY <1>2
  <2> QED BY <1>1, <1>2, <2>1
<1>6. Has(c, w) <=> Has(s, w) \/ Has(t, w)
  <2>1. Has(c, w) => Has(s, w) \/ Has(t, w)
    BY <1>3 DEF Has
  <2>2. Has(s, w) \/ Has(t, w) => Has(c, w)
    BY <1>4, <1>5 DEF Has
  <2> QED BY <2>1, <2>2
<1>7. ASSUME One(s, w), One(t, w), ~(Has(s, w) /\ Has(t, w)) PROVE One(c, w)
  <2> SUFFICES ASSUME NEW i \in DOMAIN c, NEW j \in DOMAIN c,
                      w \in c[i].waiters, w \in c[j].waiters
               PROVE  i = j
    BY DEF One
  <2>1. \/ i \in DOMAIN s /\ c[i] = s[i]
        \/ i > n /\ i - n \in DOMAIN t /\ c[i] = t[i - n]
    BY <1>3
  <2>2. \/ j \in DOMAIN s /\ c[j] = s[j]
        \/ j > n /\ j - n \in DOMAIN t /\ c[j] = t[j - n]
    BY <1>3
  <2>3. CASE i \in DOMAIN s /\ c[i] = s[i] /\ j \in DOMAIN s /\ c[j] = s[j]
    BY <1>7, <2>3 DEF One
  <2>4. CASE i - n \in DOMAIN t /\ c[i] = t[i - n] /\ j - n \in DOMAIN t /\ c[j] = t[j - n]
    <3>1. i - n = j - n
      BY <1>7, <2>4 DEF One
    <3> QED BY <1>2, <3>1
  <2>5. CASE i \in DOMAIN s /\ c[i] = s[i] /\ j - n \in DOMAIN t /\ c[j] = t[j - n]
    BY <1>7, <2>5 DEF Has
  <2>6. CASE i - n \in DOMAIN t /\ c[i] = t[i - n] /\ j \in DOMAIN s /\ c[j] = s[j]
    BY <1>7, <2>6 DEF Has
  <2> QED BY <2>1, <2>2, <2>3, <2>4, <2>5, <2>6
<1> QED BY <1>6, <1>7 DEF c

\* The first deletion and the others.
LEMMA TailWaits ==
    ASSUME NEW s \in Seq(Deletion), s # <<>>, NEW w
    PROVE  /\ Head(s) \in Deletion /\ Tail(s) \in Seq(Deletion)
           /\ ToSet(Tail(s)) \subseteq ToSet(s) /\ Head(s) \in ToSet(s)
           /\ Has(s, w) <=> Has(Tail(s), w) \/ w \in Head(s).waiters
           /\ One(s, w) => One(Tail(s), w) /\ ~(Has(Tail(s), w) /\ w \in Head(s).waiters)
<1> DEFINE t == Tail(s)
<1>1. Len(s) \in Nat /\ Len(s) > 0 /\ Head(s) = s[1] /\ DOMAIN s = 1 .. Len(s) /\ 1 \in DOMAIN s
  OBVIOUS
<1>2. /\ t \in Seq(Deletion) /\ Len(t) = Len(s) - 1
      /\ \A i \in 1 .. Len(t) : t[i] = s[i + 1]
  BY HeadTailProperties
<1>3. DOMAIN t = 1 .. Len(s) - 1
  BY <1>2
<1> HIDE DEF t
<1>4. \A i \in DOMAIN t : i + 1 \in DOMAIN s /\ t[i] = s[i + 1] /\ i + 1 # 1
  BY <1>1, <1>2, <1>3
<1>5. \A i \in DOMAIN s : i # 1 => i - 1 \in DOMAIN t /\ t[i - 1] = s[i]
  <2> SUFFICES ASSUME NEW i \in DOMAIN s, i # 1 PROVE i - 1 \in DOMAIN t /\ t[i - 1] = s[i]
    OBVIOUS
  <2>1. i - 1 \in 1 .. Len(s) - 1 /\ (i - 1) + 1 = i
    BY <1>1
  <2> QED BY <1>3, <1>4, <2>1
<1>6. s[1] \in Deletion /\ ToSet(t) \subseteq ToSet(s) /\ s[1] \in ToSet(s)
  BY <1>1, <1>4 DEF ToSet
<1>7. Has(s, w) <=> Has(t, w) \/ w \in s[1].waiters
  <2>1. Has(s, w) => Has(t, w) \/ w \in s[1].waiters
    BY <1>5 DEF Has
  <2>2. Has(t, w) \/ w \in s[1].waiters => Has(s, w)
    BY <1>1, <1>4 DEF Has
  <2> QED BY <2>1, <2>2
<1>8. ASSUME One(s, w) PROVE One(t, w) /\ ~(Has(t, w) /\ w \in s[1].waiters)
  <2>1. One(t, w)
    <3> SUFFICES ASSUME NEW i \in DOMAIN t, NEW j \in DOMAIN t,
                        w \in t[i].waiters, w \in t[j].waiters
                 PROVE  i = j
      BY DEF One
    <3>1. i + 1 = j + 1
      BY <1>4, <1>8 DEF One
    <3> QED BY <1>3, <3>1
  <2>2. ~(Has(t, w) /\ w \in s[1].waiters)
    BY <1>1, <1>4, <1>8 DEF One, Has
  <2> QED BY <2>1, <2>2
<1> QED BY <1>1, <1>2, <1>6, <1>7, <1>8 DEF t

\* What Due picks is waited for as it was.
LEMMA DueWaits ==
    ASSUME NEW s \in Seq(Deletion), NEW later, NEW w
    PROVE  /\ Has(Due(s, later), w) <=> \E i \in DOMAIN s : s[i].later = later /\ w \in s[i].waiters
           /\ One(s, w) => One(Due(s, later), w)
<1> DEFINE Sees(i) == \E j \in 1 .. i : s[j].later = later /\ w \in s[j].waiters
           P(i) == {x \in Seq(Deletion) : /\ Has(x, w) <=> Sees(i)
                                          /\ One(s, w) => One(x, w)}
           Q == [i \in 0 .. Len(s) |-> P(i)]
<1>1. Len(s) \in Nat /\ DOMAIN s = 1 .. Len(s)
  OBVIOUS
<1>2. <<>> \in P(0)
  BY EmptyWaits
<1>3. ASSUME NEW i \in 1 .. Len(s), NEW x \in P(i - 1)
      PROVE  (IF s[i].later = later THEN Append(x, s[i]) ELSE x) \in P(i)
  <2>1. s[i] \in Deletion /\ i \in DOMAIN s
    BY <1>1
  <2>2. x \in Seq(Deletion) /\ (Has(x, w) <=> Sees(i - 1)) /\ (One(s, w) => One(x, w))
    OBVIOUS
  <2>3. Sees(i) <=> Sees(i - 1) \/ (s[i].later = later /\ w \in s[i].waiters)
    <3>1. i \in 1 .. i /\ \A j \in 1 .. i : j \in 1 .. (i - 1) \/ j = i
      BY <1>1
    <3>2. \A j \in 1 .. (i - 1) : j \in 1 .. i
      BY <1>1
    <3> QED BY <3>1, <3>2
  <2>4. One(s, w) /\ w \in s[i].waiters => ~Sees(i - 1)
    <3> SUFFICES ASSUME One(s, w), w \in s[i].waiters, NEW j \in 1 .. (i - 1), w \in s[j].waiters
                 PROVE  FALSE
      OBVIOUS
    <3>1. j \in DOMAIN s /\ j # i
      BY <1>1
    <3> QED BY <2>1, <3>1 DEF One
  <2> HIDE DEF Sees
  <2>5. CASE s[i].later = later
    <3>1. /\ Append(x, s[i]) \in Seq(Deletion)
          /\ Has(Append(x, s[i]), w) <=> Has(x, w) \/ w \in s[i].waiters
          /\ One(x, w) /\ ~(Has(x, w) /\ w \in s[i].waiters) => One(Append(x, s[i]), w)
      BY <2>1, <2>2, AppendWaits
    <3> QED BY <2>2, <2>3, <2>4, <2>5, <3>1
  <2>6. CASE s[i].later # later
    BY <2>2, <2>3, <2>6
  <2> QED BY <2>5, <2>6
<1>4. \A i \in 0 .. Len(s) : Q[i] = P(i)
  OBVIOUS
<1>5. Due(s, later) \in Q[Len(s)]
  <2> HIDE DEF P, Q
  <2>1. \A i \in 1 .. Len(s) : i \in 0 .. Len(s) /\ i - 1 \in 0 .. Len(s)
    BY <1>1
  <2>2. 0 \in 0 .. Len(s)
    BY <1>1
  <2>3. ASSUME NEW i \in 1 .. Len(s), NEW x \in Q[i - 1]
        PROVE  (IF s[i].later = later THEN Append(x, s[i]) ELSE x) \in Q[i]
    <3>1. Q[i - 1] = P(i - 1) /\ Q[i] = P(i)
      BY <1>4, <2>1
    <3>2. x \in P(i - 1)
      BY <3>1
    <3>3. (IF s[i].later = later THEN Append(x, s[i]) ELSE x) \in P(i)
      BY <1>3, <3>2, Zenon
    <3> QED BY <3>1, <3>3
  <2>4. <<>> \in Q[0]
    BY <1>2, <1>4, <2>2
  <2> QED BY <1>1, <2>3, <2>4, DueLoop
<1>6. Due(s, later) \in P(Len(s))
  <2> HIDE DEF P, Q
  <2>1. Len(s) \in 0 .. Len(s)
    BY <1>1
  <2> QED BY <1>4, <1>5, <2>1
<1> QED BY <1>1, <1>6

\* CollectionRangeDeleter::add moves the deletions into the queue with their waiters.
LEMMA AddWaits ==
    ASSUME NEW q \in QueueStates, NEW s \in Seq(Deletion), NEW w
    PROVE  /\ QHas(Add(q, s), w) <=> QHas(q, w) \/ Has(s, w)
           /\ QOne(q, w) /\ One(s, w) /\ ~(QHas(q, w) /\ Has(s, w)) => QOne(Add(q, s), w)
<1> DEFINE a == Due(s, FALSE)
           b == Due(s, TRUE)
           o == q.orphans \o a
           d == q.delayed \o b
<1>1. /\ a \in Seq(Deletion) /\ b \in Seq(Deletion)
      /\ q.orphans \in Seq(Deletion) /\ q.delayed \in Seq(Deletion)
  BY DueFacts DEF QueueStates
<1>2. Add(q, s).orphans = o /\ Add(q, s).delayed = d
  BY DEF Add
<1>3. /\ Has(a, w) <=> \E i \in DOMAIN s : s[i].later = FALSE /\ w \in s[i].waiters
      /\ Has(b, w) <=> \E i \in DOMAIN s : s[i].later = TRUE /\ w \in s[i].waiters
      /\ One(s, w) => One(a, w) /\ One(b, w)
  <2>1. \A x : /\ Has(Due(s, x), w) <=> \E i \in DOMAIN s : s[i].later = x /\ w \in s[i].waiters
               /\ One(s, w) => One(Due(s, x), w)
    BY DueWaits
  <2>2. /\ Has(a, w) <=> \E i \in DOMAIN s : s[i].later = FALSE /\ w \in s[i].waiters
        /\ One(s, w) => One(a, w)
    BY <2>1, Zenon
  <2>3. /\ Has(b, w) <=> \E i \in DOMAIN s : s[i].later = TRUE /\ w \in s[i].waiters
        /\ One(s, w) => One(b, w)
    BY <2>1, Zenon
  <2> QED BY <2>2, <2>3
<1> HIDE DEF a, b
<1>4. \A i \in DOMAIN s : s[i].later = TRUE \/ s[i].later = FALSE
  BY DEF Deletion
<1>5. Has(s, w) <=> Has(a, w) \/ Has(b, w)
  BY <1>3, <1>4 DEF Has
<1>6. One(s, w) => ~(Has(a, w) /\ Has(b, w))
  <2> SUFFICES ASSUME One(s, w), Has(a, w), Has(b, w) PROVE FALSE
    OBVIOUS
  <2>1. PICK i \in DOMAIN s : s[i].later = FALSE /\ w \in s[i].waiters
    BY <1>3
  <2>2. PICK j \in DOMAIN s : s[j].later = TRUE /\ w \in s[j].waiters
    BY <1>3
  <2>3. i = j
    BY <2>1, <2>2 DEF One
  <2> QED BY <2>1, <2>2, <2>3
<1>7. /\ Has(o, w) <=> Has(q.orphans, w) \/ Has(a, w)
      /\ One(q.orphans, w) /\ One(a, w) /\ ~(Has(q.orphans, w) /\ Has(a, w)) => One(o, w)
  BY <1>1, ConcatWaits
<1>8. /\ Has(d, w) <=> Has(q.delayed, w) \/ Has(b, w)
      /\ One(q.delayed, w) /\ One(b, w) /\ ~(Has(q.delayed, w) /\ Has(b, w)) => One(d, w)
  BY <1>1, ConcatWaits
<1> HIDE DEF o, d
<1> QED BY <1>2, <1>3, <1>5, <1>6, <1>7, <1>8 DEF QHas, QOne

\* So do the trackers that expire.
LEMMA PushWaits ==
    ASSUME NEW q \in QueueStates, NEW ms, NEW k \in Nat, NEW w,
           \A i \in 1 .. k : ms[i].orphans \in Seq(Deletion)
    PROVE  LET p == PushList(q, ms, k)
           IN  /\ QHas(p, w) <=> QHas(q, w) \/ \E i \in 1 .. k : Has(ms[i].orphans, w)
               /\ /\ QOne(q, w)
                  /\ \A i \in 1 .. k : One(ms[i].orphans, w)
                  /\ \A i \in 1 .. k : Has(ms[i].orphans, w) =>
                        ~QHas(q, w) /\ \A j \in 1 .. k : Has(ms[j].orphans, w) => i = j
                  => QOne(p, w)
<1> DEFINE Before == /\ QOne(q, w)
                     /\ \A i \in 1 .. k : One(ms[i].orphans, w)
                     /\ \A i \in 1 .. k : Has(ms[i].orphans, w) =>
                          ~QHas(q, w) /\ \A j \in 1 .. k : Has(ms[j].orphans, w) => i = j
           Sees(i) == \E j \in 1 .. i : Has(ms[j].orphans, w)
           P(i) == {x \in QueueStates : /\ QHas(x, w) <=> QHas(q, w) \/ Sees(i)
                                        /\ Before => QOne(x, w)}
           Q == [i \in 0 .. k |-> P(i)]
<1>1. q \in P(0)
  OBVIOUS
<1>2. ASSUME NEW i \in 1 .. k, NEW x \in P(i - 1)
      PROVE  (IF ms[i].orphans = <<>> THEN x ELSE Add(x, ms[i].orphans)) \in P(i)
  <2>1. ms[i].orphans \in Seq(Deletion)
    OBVIOUS
  <2>2. /\ x \in QueueStates /\ (QHas(x, w) <=> QHas(q, w) \/ Sees(i - 1))
        /\ Before => QOne(x, w)
    OBVIOUS
  <2>3. Sees(i) <=> Sees(i - 1) \/ Has(ms[i].orphans, w)
    <3>1. i \in 1 .. i /\ \A j \in 1 .. i : j \in 1 .. (i - 1) \/ j = i
      OBVIOUS
    <3>2. \A j \in 1 .. (i - 1) : j \in 1 .. i
      OBVIOUS
    <3> QED BY <3>1, <3>2
  <2>4. Before /\ Has(ms[i].orphans, w) => ~QHas(q, w) /\ ~Sees(i - 1)
    <3>1. \A j \in 1 .. (i - 1) : j \in 1 .. k /\ j # i
      OBVIOUS
    <3> QED BY <3>1
  <2>5. Before => One(ms[i].orphans, w)
    OBVIOUS
  <2> HIDE DEF Sees, Before
  <2>6. CASE ms[i].orphans = <<>>
    <3>1. ~Has(ms[i].orphans, w)
      BY <2>6, EmptyWaits
    <3> QED BY <2>2, <2>3, <2>6, <3>1
  <2>7. CASE ms[i].orphans # <<>>
    <3> DEFINE y == Add(x, ms[i].orphans)
    <3>1. /\ QHas(y, w) <=> QHas(x, w) \/ Has(ms[i].orphans, w)
          /\ QOne(x, w) /\ One(ms[i].orphans, w) /\ ~(QHas(x, w) /\ Has(ms[i].orphans, w))
             => QOne(y, w)
      BY <2>1, <2>2, AddWaits
    <3>2. y \in QueueStates
      BY <2>1, <2>2, AddFacts
    <3> HIDE DEF y
    <3>3. QHas(y, w) <=> QHas(q, w) \/ Sees(i)
      BY <2>2, <2>3, <3>1
    <3>4. Before => QOne(y, w)
      BY <2>2, <2>4, <2>5, <3>1
    <3>5. y \in P(i)
      BY <3>2, <3>3, <3>4
    <3> QED BY <2>7, <3>5 DEF y
  <2> QED BY <2>6, <2>7
<1>3. \A i \in 0 .. k : Q[i] = P(i)
  OBVIOUS
<1>4. PushList(q, ms, k) \in Q[k]
  <2> HIDE DEF P, Q
  <2>1. \A i \in 1 .. k : i \in 0 .. k /\ i - 1 \in 0 .. k
    OBVIOUS
  <2>2. 0 \in 0 .. k
    OBVIOUS
  <2>3. \A i \in 1 .. k : \A x \in Q[i - 1] :
              (IF ms[i].orphans = <<>> THEN x ELSE Add(x, ms[i].orphans)) \in Q[i]
    BY <1>2, <1>3, <2>1
  <2>4. q \in Q[0]
    BY <1>1, <1>3, <2>2
  <2> QED BY <2>3, <2>4, PushLoop
<1>5. PushList(q, ms, k) \in P(k)
  <2> HIDE DEF P, Q
  <2>1. k \in 0 .. k
    OBVIOUS
  <2> QED BY <1>3, <1>4, <2>1
<1> QED BY <1>5

\* _retireExpiredMetadata changes nothing about who waits.
LEMMA RetireWaits ==
    ASSUME NEW T, NEW ms \in Seq(T), \A t \in T : t.orphans \in Seq(Deletion), NEW h,
           queue \in QueueStates, Retire(ms, h), NEW w
    PROVE  /\ SomeWaits(metadata', queue', w) <=> SomeWaits(ms, queue, w)
           /\ OneWaits(ms, queue, w) => OneWaits(metadata', queue', w)
<1>1. PICK k \in 0 .. Len(ms) :
              /\ metadata' \in Seq(T) /\ Len(metadata') = Len(ms) - k
              /\ \A i \in 1 .. Len(ms) - k : metadata'[i] = ms[i + k]
              /\ queue' = PushList(queue, ms, k)
  BY RetireFacts
<1>2. /\ k \in Nat /\ Len(ms) \in Nat /\ DOMAIN ms = 1 .. Len(ms)
      /\ DOMAIN metadata' = 1 .. Len(ms) - k
  BY <1>1
<1>3. \A i \in 1 .. k : i \in DOMAIN ms /\ ms[i].orphans \in Seq(Deletion)
  BY <1>2
<1> DEFINE Seen == \E i \in 1 .. k : Has(ms[i].orphans, w)
<1>4. /\ QHas(queue', w) <=> QHas(queue, w) \/ Seen
      /\ /\ QOne(queue, w)
         /\ \A i \in 1 .. k : One(ms[i].orphans, w)
         /\ \A i \in 1 .. k : Has(ms[i].orphans, w) =>
               ~QHas(queue, w) /\ \A j \in 1 .. k : Has(ms[j].orphans, w) => i = j
         => QOne(queue', w)
  BY <1>1, <1>2, <1>3, PushWaits
<1>5. \A i \in DOMAIN metadata' : i + k \in DOMAIN ms /\ i + k \notin 1 .. k
                                  /\ metadata'[i] = ms[i + k]
  BY <1>1, <1>2
<1>6. \A i \in DOMAIN ms : i \notin 1 .. k => i - k \in DOMAIN metadata' /\ metadata'[i - k] = ms[i]
  <2> SUFFICES ASSUME NEW i \in DOMAIN ms, i \notin 1 .. k
               PROVE  i - k \in DOMAIN metadata' /\ metadata'[i - k] = ms[i]
    OBVIOUS
  <2>1. i - k \in 1 .. Len(ms) - k /\ (i - k) + k = i
    BY <1>2
  <2> QED BY <1>1, <1>2, <2>1
<1>7. (\E i \in DOMAIN ms : Has(ms[i].orphans, w)) <=>
         Seen \/ \E i \in DOMAIN metadata' : Has(metadata'[i].orphans, w)
  <2>1. ASSUME NEW i \in DOMAIN ms, Has(ms[i].orphans, w)
        PROVE  Seen \/ \E j \in DOMAIN metadata' : Has(metadata'[j].orphans, w)
    <3>1. CASE i \in 1 .. k
      BY <2>1, <3>1
    <3>2. CASE i \notin 1 .. k
      BY <1>6, <2>1, <3>2
    <3> QED BY <3>1, <3>2
  <2>2. ASSUME NEW i \in DOMAIN metadata', Has(metadata'[i].orphans, w)
        PROVE  \E j \in DOMAIN ms : Has(ms[j].orphans, w)
    BY <1>5, <2>2
  <2>3. Seen => \E j \in DOMAIN ms : Has(ms[j].orphans, w)
    BY <1>3
  <2> QED BY <2>1, <2>2, <2>3
<1>8. SomeWaits(metadata', queue', w) <=> SomeWaits(ms, queue, w)
  <2> HIDE DEF Seen
  <2> QED BY <1>4, <1>7 DEF SomeWaits
<1>9. ASSUME OneWaits(ms, queue, w) PROVE OneWaits(metadata', queue', w)
  <2>1. QOne(queue', w)
    BY <1>3, <1>4, <1>9 DEF OneWaits
  <2>2. \A i \in DOMAIN metadata' : One(metadata'[i].orphans, w)
    BY <1>5, <1>9 DEF OneWaits
  <2>3. ASSUME NEW i \in DOMAIN metadata', Has(metadata'[i].orphans, w)
        PROVE  ~QHas(queue', w) /\ \A j \in DOMAIN metadata' : Has(metadata'[j].orphans, w) => i = j
    <3>1. i + k \in DOMAIN ms /\ i + k \notin 1 .. k /\ Has(ms[i + k].orphans, w)
      BY <1>5, <2>3
    <3>2. ~QHas(queue, w) /\ \A j \in DOMAIN ms : Has(ms[j].orphans, w) => i + k = j
      BY <1>9, <3>1 DEF OneWaits
    <3>3. ~Seen
      BY <1>3, <3>1, <3>2
    <3>4. ASSUME NEW j \in DOMAIN metadata', Has(metadata'[j].orphans, w) PROVE i = j
      <4>1. i + k = j + k
        BY <1>5, <3>2, <3>4
      <4> QED BY <1>2, <4>1
    <3> QED BY <1>4, <3>2, <3>3, <3>4
  <2> QED BY <2>1, <2>2, <2>3 DEF OneWaits
<1> QED BY <1>8, <1>9

-----------------------------------------------------------------------------
(***************************************************************************)
(* The first invariant: types, queues and those who wait                   *)
(***************************************************************************)
Trackers == [id : (0 .. MaxClears) \X DOMAIN config, orphans : Seq(Deletion)]

\* The trackers are in the order of their versions.
Sorted(ms) == \A i, j \in DOMAIN ms : i < j => ms[i].id[2] < ms[j].id[2]

\* A thread that does something has a range, and there is one migration at a time.
OneMigration ==
    /\ recv.pc # "idle" => recv.range \in Ranges
    /\ donate.pc # "idle" => donate.range \in Ranges
    /\ recv.pc = "idle" \/ donate.pc = "idle"

\* The deletion under way is the first of the queue, unless it was abandoned.
DeleterInv ==
    /\ deleter.gone => deleter.pc = "replicate"
    /\ deleter.pc # "idle" /\ ~deleter.gone =>
          queue.orphans # <<>> /\ Head(queue.orphans).range = deleter.range

\* Without metadata nothing is received or queued.
EmptyInv == metadata = <<>> => receiving = {} /\ queue.orphans = <<>> /\ queue.delayed = <<>>

\* A thread that waits does so for exactly one deletion, and one that does not wait
\* for none: a notification finds who it is for.
WaitInv(w, waiting) ==
    OneWaits(metadata, queue, w) /\ (SomeWaits(metadata, queue, w) <=> waiting)

\* The type invariant without the trackers and the queue.
RestOK ==
    /\ config \in Seq(SUBSET Ranges) /\ Len(config) \in 1 .. MaxVersion
    /\ known \in DOMAIN config /\ clears \in 0 .. MaxClears
    /\ held \in [Holders -> {NoTracker} \cup ((0 .. MaxClears) \X DOMAIN config)]
    /\ receiving \in SUBSET Ranges /\ arrived \in SUBSET Ranges /\ docs \in SUBSET Ranges
    /\ deleter \in [pc : {"idle", "delete", "replicate"}, range : Ranges \cup {None},
                    gone : BOOLEAN]
    /\ recv \in [pc : {"idle", "wait", "clean", "clone", "steady", "forget"},
                 range : Ranges \cup {None}]
    /\ donate \in [pc : {"idle", "refresh", "check", "cleanup", "wait", "leave"},
                   range : Ranges \cup {None}, version : 0 .. MaxVersion]

\* The type invariant without what the history variables and failed may be,
StateOK == RestOK /\ metadata \in Seq(Trackers) /\ Sorted(metadata) /\ queue \in QueueStates

BasicInv ==
    /\ StateOK
    /\ OneMigration
    /\ DeleterInv
    /\ EmptyInv
    /\ WillRun(queue, deleter.pc # "idle")
    /\ WaitInv("recv", recv.pc = "wait") /\ WaitInv("donor", donate.pc = "wait")

\* The rest of the type invariant.
AuxOK ==
    /\ exposed \in SUBSET Ranges /\ left \in SUBSET Ranges
    /\ failed \in {None, "forgetReceive", "cleanUpRange"}

\* The parts of the type invariant.
LEMMA AllTypes ==
    StateOK /\ AuxOK => TypeOK
BY DEF StateOK, AuxOK, TypeOK, RestOK, Trackers, Sorted, QueueStates

LEMMA TypeParts ==
    StateOK <=> RestOK /\ metadata \in Seq(Trackers) /\ Sorted(metadata) /\ queue \in QueueStates
BY DEF StateOK

\* What StateOK says about the trackers and the queue.
LEMMA ShapeFacts ==
    ASSUME StateOK
    PROVE  /\ metadata \in Seq(Trackers) /\ Sorted(metadata) /\ queue \in QueueStates
           /\ \A t \in Trackers : t.orphans \in Seq(Deletion)
           /\ Len(metadata) \in Nat /\ DOMAIN metadata = 1 .. Len(metadata)
           /\ \A i \in DOMAIN metadata : /\ metadata[i] \in Trackers
                                         /\ metadata[i].orphans \in Seq(Deletion)
           /\ queue.orphans \in Seq(Deletion) /\ queue.delayed \in Seq(Deletion)
           /\ queue.tasks \in SUBSET {"now", "later"}
           /\ metadata # <<>> <=> Len(metadata) \in DOMAIN metadata
<1>1. metadata \in Seq(Trackers) /\ Sorted(metadata) /\ queue \in QueueStates
  BY TypeParts
<1>2. \A t \in Trackers : t.orphans \in Seq(Deletion)
  BY DEF Trackers
<1>3. Len(metadata) \in Nat /\ DOMAIN metadata = 1 .. Len(metadata)
  BY <1>1
<1>4. \A i \in DOMAIN metadata : metadata[i] \in Trackers
  BY <1>1
<1>5. /\ queue.orphans \in Seq(Deletion) /\ queue.delayed \in Seq(Deletion)
      /\ queue.tasks \in SUBSET {"now", "later"}
  BY <1>1 DEF QueueStates
<1>6. metadata # <<>> <=> Len(metadata) \in DOMAIN metadata
  BY <1>1, <1>3
<1> QED BY <1>1, <1>2, <1>3, <1>4, <1>5, <1>6

\* A sequence with no element is empty.
LEMMA NoElement ==
    ASSUME NEW s \in Seq(Deletion), ToSet(s) = {}
    PROVE  s = <<>>
<1>1. DOMAIN s = 1 .. Len(s) /\ Len(s) \in Nat
  OBVIOUS
<1>2. ASSUME Len(s) # 0 PROVE FALSE
  <2>1. 1 \in DOMAIN s
    BY <1>1, <1>2
  <2> QED BY <2>1 DEF ToSet
<1> QED BY <1>1, <1>2

\* What _retireExpiredMetadata leaves has the shape it had.
LEMMA RetireShape ==
    ASSUME StateOK, NEW ms \in Seq(Trackers), Sorted(ms), NEW h, Retire(ms, h), config' = config
    PROVE  /\ metadata' \in Seq(Trackers') /\ Sorted(metadata') /\ queue' \in QueueStates
           /\ HeadKept(queue, queue')
           /\ \A busy \in BOOLEAN : WillRun(queue, busy) => WillRun(queue', busy)
           /\ ms # <<>> => metadata' # <<>> /\ Last(metadata') = Last(ms)
           /\ ms = <<>> => metadata' = <<>> /\
                (queue.orphans = <<>> /\ queue.delayed = <<>> =>
                   queue'.orphans = <<>> /\ queue'.delayed = <<>>)
<1>1. queue \in QueueStates /\ \A t \in Trackers : t.orphans \in Seq(Deletion)
  BY ShapeFacts
<1>2. PICK k \in 0 .. Len(ms) :
              /\ ms # <<>> => k < Len(ms)
              /\ metadata' \in Seq(Trackers) /\ Len(metadata') = Len(ms) - k
              /\ \A i \in 1 .. Len(ms) - k : metadata'[i] = ms[i + k]
              /\ queue' \in QueueStates /\ HeadKept(queue, queue')
              /\ InQueue(queue') \subseteq
                     InQueue(queue) \cup UNION {ToSet(ms[i].orphans) : i \in 1 .. k}
              /\ \A busy \in BOOLEAN : WillRun(queue, busy) => WillRun(queue', busy)
  BY <1>1, RetireFacts
<1>3. Trackers' = Trackers
  BY DEF Trackers
<1>4. /\ Len(ms) \in Nat /\ k \in Nat /\ DOMAIN ms = 1 .. Len(ms)
      /\ DOMAIN metadata' = 1 .. Len(ms) - k
  BY <1>2
<1>5. Sorted(metadata')
  <2> SUFFICES ASSUME NEW i \in DOMAIN metadata', NEW j \in DOMAIN metadata', i < j
               PROVE  metadata'[i].id[2] < metadata'[j].id[2]
    BY DEF Sorted
  <2>1. i + k \in DOMAIN ms /\ j + k \in DOMAIN ms /\ i + k < j + k
    BY <1>4
  <2>2. metadata'[i] = ms[i + k] /\ metadata'[j] = ms[j + k]
    BY <1>2, <1>4
  <2> QED BY <2>1, <2>2 DEF Sorted
<1>6. ASSUME ms # <<>> PROVE metadata' # <<>> /\ Last(metadata') = Last(ms)
  <2>1. Len(ms) - k \in 1 .. Len(ms) - k /\ (Len(ms) - k) + k = Len(ms)
    BY <1>2, <1>4, <1>6
  <2>2. metadata'[Len(metadata')] = ms[Len(ms)]
    BY <1>2, <2>1
  <2>3. metadata' # <<>>
    BY <1>2, <1>4, <1>6
  <2> QED BY <2>2, <2>3 DEF Last
<1>7. ASSUME ms = <<>>
      PROVE  metadata' = <<>> /\ (queue.orphans = <<>> /\ queue.delayed = <<>> =>
                                   queue'.orphans = <<>> /\ queue'.delayed = <<>>)
  <2>1. k = 0 /\ Len(metadata') = 0
    BY <1>2, <1>4, <1>7
  <2>2. metadata' = <<>>
    BY <1>2, <2>1
  <2>3. UNION {ToSet(ms[i].orphans) : i \in 1 .. k} = {}
    BY <2>1
  <2>4. InQueue(queue') \subseteq InQueue(queue)
    BY <1>2, <2>3
  <2>5. ASSUME queue.orphans = <<>>, queue.delayed = <<>>
        PROVE  queue'.orphans = <<>> /\ queue'.delayed = <<>>
    <3>0. ToSet(<<>>) = {}
      BY DEF ToSet
    <3>1. InQueue(queue') = {}
      BY <2>4, <2>5, <3>0 DEF InQueue
    <3>2. queue'.orphans \in Seq(Deletion) /\ queue'.delayed \in Seq(Deletion)
      BY <1>2 DEF QueueStates
    <3> QED BY <3>1, <3>2, NoElement DEF InQueue
  <2> QED BY <2>2, <2>5
<1> QED BY <1>2, <1>3, <1>5, <1>6, <1>7

\* Nothing about waiting changes while the trackers and the queue stay as they are.
LEMMA SameWaits ==
    ASSUME NEW w, NEW waiting, WaitInv(w, waiting),
           metadata' = metadata, queue'.orphans = queue.orphans, queue'.delayed = queue.delayed
    PROVE  OneWaits(metadata', queue', w) /\ (SomeWaits(metadata', queue', w) <=> waiting)
BY DEF WaitInv, OneWaits, SomeWaits, QOne, QHas

\* Retiring trackers keeps everyone waiting who waited.
LEMMA RetireKeepsWaits ==
    ASSUME StateOK, NEW ms \in Seq(Trackers), NEW h, Retire(ms, h), NEW w, NEW waiting,
           OneWaits(ms, queue, w), SomeWaits(ms, queue, w) <=> waiting
    PROVE  OneWaits(metadata', queue', w) /\ (SomeWaits(metadata', queue', w) <=> waiting)
<1>1. queue \in QueueStates /\ \A t \in Trackers : t.orphans \in Seq(Deletion)
  BY ShapeFacts
<1>2. /\ SomeWaits(metadata', queue', w) <=> SomeWaits(ms, queue, w)
      /\ OneWaits(ms, queue, w) => OneWaits(metadata', queue', w)
  BY <1>1, RetireWaits
<1> QED BY <1>2

\* A deletion that is asked for, with its waiters, joins the queue.
LEMMA PushOne ==
    ASSUME NEW q \in QueueStates, NEW x \in Deletion
    PROVE  /\ Add(q, <<x>>) \in QueueStates
           /\ InQueue(Add(q, <<x>>)) \subseteq InQueue(q) \cup {x}
           /\ HeadKept(q, Add(q, <<x>>))
           /\ \A busy \in BOOLEAN : WillRun(q, busy) => WillRun(Add(q, <<x>>), busy)
           /\ \A w : QHas(Add(q, <<x>>), w) <=> QHas(q, w) \/ w \in x.waiters
           /\ \A w : QOne(q, w) /\ ~(QHas(q, w) /\ w \in x.waiters) => QOne(Add(q, <<x>>), w)
<1>1. <<x>> \in Seq(Deletion) /\ DOMAIN <<x>> = {1} /\ <<x>>[1] = x
  OBVIOUS
<1>2. ToSet(<<x>>) = {x}
  BY <1>1 DEF ToSet
<1>3. \A w : (Has(<<x>>, w) <=> w \in x.waiters) /\ One(<<x>>, w)
  BY <1>1 DEF Has, One
<1>4. /\ Add(q, <<x>>) \in QueueStates
      /\ InQueue(Add(q, <<x>>)) \subseteq InQueue(q) \cup ToSet(<<x>>)
      /\ HeadKept(q, Add(q, <<x>>))
      /\ \A busy \in BOOLEAN : WillRun(q, busy) => WillRun(Add(q, <<x>>), busy)
  BY <1>1, AddFacts
<1>5. \A w : /\ QHas(Add(q, <<x>>), w) <=> QHas(q, w) \/ Has(<<x>>, w)
             /\ QOne(q, w) /\ One(<<x>>, w) /\ ~(QHas(q, w) /\ Has(<<x>>, w))
                => QOne(Add(q, <<x>>), w)
  BY <1>1, AddWaits
<1> QED BY <1>2, <1>3, <1>4, <1>5

\* The newest element of a set of positions.
LEMMA MaxFacts ==
    ASSUME NEW n \in Nat, NEW S \in SUBSET (1 .. n), S # {}
    PROVE  Max(S) \in S /\ \A i \in S : i <= Max(S)
<1> DEFINE T == {n - i : i \in S}
<1>0. \A i \in S : n - i \in Nat
  OBVIOUS
<1>1. T \in SUBSET Nat /\ T # {}
  BY <1>0
<1>2. PICK m \in T : \A y \in T : m <= y
  <2> HIDE DEF T
  <2> QED BY <1>1, LeastElement
<1>3. PICK j \in S : m = n - j
  BY <1>2
<1>4. \A i \in S : j >= i
  <2> SUFFICES ASSUME NEW i \in S PROVE j >= i
    OBVIOUS
  <2>1. n - j <= n - i
    BY <1>2, <1>3
  <2> QED BY <2>1
<1>5. \E x \in S : \A y \in S : x >= y
  BY <1>4
<1>6. Max(S) \in S /\ \A y \in S : Max(S) >= y
  BY <1>5 DEF Max
<1> QED BY <1>6

\* _findNewestOverlappingMetadata: no newer map that is in use has the range.
LEMMA FindFacts ==
    ASSUME StateOK, NEW r
    PROVE  LET i == FindNewestOverlapping(r)
           IN  /\ i = 0 \/ i \in DOMAIN metadata
               /\ \A j \in DOMAIN metadata :
                     i < j /\ (j = Len(metadata) \/ InUse(metadata[j])) => r \notin Owned(j)
               /\ (\A j \in DOMAIN metadata :
                     (j = Len(metadata) \/ InUse(metadata[j])) => r \notin Owned(j)) => i = 0
<1> DEFINE overlap == {i \in DOMAIN metadata : /\ r \in Owned(i)
                                               /\ i = Len(metadata) \/ InUse(metadata[i])}
<1>1. FindNewestOverlapping(r) = IF overlap = {} THEN 0 ELSE Max(overlap)
  BY DEF FindNewestOverlapping
<1>2. Len(metadata) \in Nat /\ DOMAIN metadata = 1 .. Len(metadata)
  BY ShapeFacts
<1>3. overlap \in SUBSET (1 .. Len(metadata))
  BY <1>2
<1>4. \A j \in DOMAIN metadata :
         (j = Len(metadata) \/ InUse(metadata[j])) /\ r \in Owned(j) <=> j \in overlap
  OBVIOUS
<1>5. \A j \in overlap : j \in DOMAIN metadata
  OBVIOUS
<1>6. overlap # {} => Max(overlap) \in overlap /\ \A i \in overlap : i <= Max(overlap)
  <2> HIDE DEF overlap
  <2> QED BY <1>2, <1>3, MaxFacts
<1> HIDE DEF overlap
<1>7. CASE overlap = {}
  BY <1>1, <1>4, <1>7
<1>8. CASE overlap # {}
  <2>1. FindNewestOverlapping(r) = Max(overlap) /\ Max(overlap) \in DOMAIN metadata
    BY <1>1, <1>5, <1>6, <1>8
  <2>2. \A j \in DOMAIN metadata : Max(overlap) < j => j \notin overlap
    BY <1>2, <1>6, <1>8, <2>1
  <2>3. ~\A j \in DOMAIN metadata :
            (j = Len(metadata) \/ InUse(metadata[j])) => r \notin Owned(j)
    BY <1>4, <1>5, <1>6, <1>8
  <2> QED BY <1>4, <2>1, <2>2, <2>3
<1> QED BY <1>7, <1>8

\* cleanUpRange puts the deletion in the queue, or behind the queries that need the range.
LEMMA CleanUpShape ==
    ASSUME StateOK, NEW r \in Ranges, NEW later \in BOOLEAN, NEW W \in SUBSET Waiters,
           CleanUpRange(r, later, W), config' = config, metadata # <<>>
    PROVE  /\ metadata' \in Seq(Trackers') /\ Sorted(metadata') /\ queue' \in QueueStates
           /\ metadata' # <<>> /\ HeadKept(queue, queue')
           /\ \A busy \in BOOLEAN : WillRun(queue, busy) => WillRun(queue', busy)
           /\ \A w : SomeWaits(metadata', queue', w) <=> SomeWaits(metadata, queue, w) \/ w \in W
           /\ \A w : /\ OneWaits(metadata, queue, w)
                     /\ ~(SomeWaits(metadata, queue, w) /\ w \in W)
                     => OneWaits(metadata', queue', w)
<1> DEFINE i == FindNewestOverlapping(r)
           x == [range |-> r, later |-> later, waiters |-> W]
<1>1. x \in Deletion
  BY DEF Deletion
<1>2. /\ queue \in QueueStates /\ metadata \in Seq(Trackers) /\ Sorted(metadata)
      /\ Len(metadata) \in Nat /\ DOMAIN metadata = 1 .. Len(metadata)
      /\ \A j \in DOMAIN metadata : metadata[j] \in Trackers /\ metadata[j].orphans \in Seq(Deletion)
  BY ShapeFacts
<1>3. Trackers' = Trackers
  BY DEF Trackers
<1>4. i = 0 \/ i \in DOMAIN metadata
  BY FindFacts
<1>5. /\ i = 0 => queue' = Add(queue, <<x>>) /\ metadata' = metadata
      /\ i # 0 => /\ metadata' = [metadata EXCEPT ![i].orphans = Append(@, x)]
                  /\ queue' = queue
  BY DEF CleanUpRange
<1>x. \A w : w \in x.waiters <=> w \in W
  OBVIOUS
<1> HIDE DEF i, x
<1>6. CASE i = 0
  <2>1. /\ queue' \in QueueStates
        /\ HeadKept(queue, queue')
        /\ \A busy \in BOOLEAN : WillRun(queue, busy) => WillRun(queue', busy)
        /\ \A w : QHas(queue', w) <=> QHas(queue, w) \/ w \in x.waiters
        /\ \A w : QOne(queue, w) /\ ~(QHas(queue, w) /\ w \in x.waiters) => QOne(queue', w)
    <3> DEFINE p == Add(queue, <<x>>)
    <3>1. /\ p \in QueueStates
          /\ HeadKept(queue, p)
          /\ \A busy \in BOOLEAN : WillRun(queue, busy) => WillRun(p, busy)
          /\ \A w : QHas(p, w) <=> QHas(queue, w) \/ w \in x.waiters
          /\ \A w : QOne(queue, w) /\ ~(QHas(queue, w) /\ w \in x.waiters) => QOne(p, w)
      BY <1>1, <1>2, PushOne
    <3>2. queue' = p
      BY <1>5, <1>6
    <3> HIDE DEF p
    <3> QED BY <3>1, <3>2
  <2>2. metadata' = metadata
    BY <1>5, <1>6
  <2>3. \A w : SomeWaits(metadata', queue', w) <=> SomeWaits(metadata, queue, w) \/ w \in W
    BY <1>x, <2>1, <2>2 DEF SomeWaits
  <2>4. \A w : OneWaits(metadata, queue, w) /\ ~(SomeWaits(metadata, queue, w) /\ w \in W)
               => OneWaits(metadata', queue', w)
    BY <1>x, <2>1, <2>2 DEF SomeWaits, OneWaits
  <2> QED BY <1>2, <1>3, <2>1, <2>2, <2>3, <2>4
<1>7. CASE i # 0
  <2> DEFINE old == metadata[i].orphans
             t == [metadata[i] EXCEPT !.orphans = Append(old, x)]
  <2>1. i \in DOMAIN metadata /\ queue' = queue /\ metadata' = [metadata EXCEPT ![i] = t]
    BY <1>4, <1>5, <1>7
  <2>2. metadata[i] \in Trackers /\ old \in Seq(Deletion)
    BY <1>2, <2>1
  <2>3. \A w : /\ Append(old, x) \in Seq(Deletion)
               /\ Has(Append(old, x), w) <=> Has(old, w) \/ w \in x.waiters
               /\ One(old, w) /\ ~(Has(old, w) /\ w \in x.waiters) => One(Append(old, x), w)
    <3> HIDE DEF old
    <3> QED BY <1>1, <2>2, AppendWaits
  <2>4. t \in Trackers /\ t.orphans = Append(old, x) /\ t.id = metadata[i].id
    BY <2>2, <2>3 DEF Trackers
  <2> HIDE DEF t
  <2>5. /\ metadata' \in Seq(Trackers) /\ DOMAIN metadata' = DOMAIN metadata
        /\ Len(metadata') = Len(metadata)
        /\ metadata'[i] = t /\ \A j \in DOMAIN metadata : j # i => metadata'[j] = metadata[j]
    BY <1>2, <2>1, <2>4
  <2>6. \A j \in DOMAIN metadata : metadata'[j].id = metadata[j].id
    BY <2>4, <2>5
  <2>7. Sorted(metadata')
    BY <1>2, <2>5, <2>6 DEF Sorted
  <2>8. metadata' # <<>>
    BY <1>2, <2>5
  <2>9. \A w : Has(metadata'[i].orphans, w) <=> Has(metadata[i].orphans, w) \/ w \in W
    BY <1>x, <2>3, <2>4, <2>5
  <2>10. \A w : SomeWaits(metadata', queue', w) <=> SomeWaits(metadata, queue, w) \/ w \in W
    BY <2>1, <2>5, <2>9 DEF SomeWaits
  <2>11. ASSUME NEW w, OneWaits(metadata, queue, w), ~(SomeWaits(metadata, queue, w) /\ w \in W)
         PROVE  OneWaits(metadata', queue', w)
    <3>1. QOne(queue', w)
      BY <2>1, <2>11 DEF OneWaits
    <3>2. Has(old, w) => SomeWaits(metadata, queue, w)
      BY <2>1 DEF SomeWaits
    <3>3. One(metadata'[i].orphans, w)
      <4>1. One(old, w)
        BY <2>1, <2>11 DEF OneWaits
      <4> QED BY <1>x, <2>3, <2>4, <2>5, <2>11, <3>2, <4>1
    <3>4. \A j \in DOMAIN metadata' : One(metadata'[j].orphans, w)
      BY <2>5, <2>11, <3>3 DEF OneWaits
    <3>5. CASE w \in W
      <4>1. ~SomeWaits(metadata, queue, w)
        BY <2>11, <3>5
      <4>2. ~QHas(queue', w) /\ \A j \in DOMAIN metadata' : Has(metadata'[j].orphans, w) => j = i
        BY <2>1, <2>5, <4>1 DEF SomeWaits
      <4> QED BY <3>1, <3>4, <4>2 DEF OneWaits
    <3>6. CASE w \notin W
      <4>1. \A j \in DOMAIN metadata : Has(metadata'[j].orphans, w) <=> Has(metadata[j].orphans, w)
        BY <2>5, <2>9, <3>6
      <4> QED BY <2>1, <2>5, <2>11, <3>1, <3>4, <4>1 DEF OneWaits
    <3> QED BY <3>5, <3>6
  <2>12. HeadKept(queue, queue')
    BY <2>1 DEF HeadKept
  <2> QED BY <1>2, <1>3, <2>1, <2>5, <2>7, <2>8, <2>10, <2>11, <2>12
<1> QED BY <1>6, <1>7

\* The same deletions in the same order, up to who waits for them.
Alike(s, t) ==
    /\ t \in Seq(Deletion) /\ Len(t) = Len(s) /\ DOMAIN t = DOMAIN s
    /\ \A i \in DOMAIN s : t[i].range = s[i].range

\* What Alike says about the first deletion.
LEMMA AlikeFacts ==
    ASSUME NEW s \in Seq(Deletion), NEW t, Alike(s, t)
    PROVE  /\ t \in Seq(Deletion) /\ (t = <<>> <=> s = <<>>)
           /\ s # <<>> => Head(t).range = Head(s).range
<1>1. t \in Seq(Deletion) /\ Len(t) = Len(s) /\ Len(s) \in Nat /\ DOMAIN s = 1 .. Len(s)
  BY DEF Alike
<1>2. t = <<>> <=> s = <<>>
  BY <1>1
<1>3. ASSUME s # <<>> PROVE Head(t).range = Head(s).range
  <2>1. 1 \in DOMAIN s
    BY <1>1, <1>3
  <2>2. Head(t) = t[1] /\ Head(s) = s[1]
    BY <1>1
  <2> QED BY <2>1, <2>2 DEF Alike
<1> QED BY <1>1, <1>2, <1>3

\* Another thread waits for the newest deletion of r.
LEMMA AwaitedByFacts ==
    ASSUME NEW s \in Seq(Deletion), NEW r, NEW w \in Waiters, Overlap(s, r) # {}
    PROVE  LET t == AwaitedBy(s, r, w)
           IN  /\ Alike(s, t) /\ Has(t, w) /\ (~Has(s, w) => One(t, w))
               /\ \A i \in DOMAIN s : w \in t[i].waiters => w \in s[i].waiters \/ s[i].range = r
               /\ \A v : v # w => /\ Has(t, v) <=> Has(s, v)
                                  /\ One(s, v) => One(t, v)
               /\ \A v : v # w => \A i \in DOMAIN s : v \in t[i].waiters => v \in s[i].waiters
<1> DEFINE m == Max(Overlap(s, r))
           t == AwaitedBy(s, r, w)
<1>1. Len(s) \in Nat /\ DOMAIN s = 1 .. Len(s)
  OBVIOUS
<1>2. m \in DOMAIN s /\ s[m].range = r
  <2>1. Overlap(s, r) \in SUBSET (1 .. Len(s))
    BY <1>1 DEF Overlap
  <2>2. m \in Overlap(s, r)
    BY <1>1, <2>1, MaxFacts
  <2> QED BY <2>2 DEF Overlap
<1> DEFINE x == [s[m] EXCEPT !.waiters = @ \cup {w}]
<1>3. t = [s EXCEPT ![m] = x]
  BY DEF AwaitedBy
<1> HIDE DEF m
<1>4. s[m] \in Deletion
  BY <1>2
<1>5. x \in Deletion /\ x.range = s[m].range /\ x.waiters = s[m].waiters \cup {w}
  BY <1>4 DEF Deletion
<1> HIDE DEF t, x
<1>6. /\ t \in Seq(Deletion) /\ Len(t) = Len(s) /\ DOMAIN t = DOMAIN s /\ t[m] = x
      /\ \A i \in DOMAIN s : i # m => t[i] = s[i]
  BY <1>1, <1>2, <1>3, <1>5
<1>7. \A i \in DOMAIN s : t[i].range = s[i].range
  BY <1>5, <1>6
<1>8. \A i \in DOMAIN s : w \in t[i].waiters <=> w \in s[i].waiters \/ i = m
  BY <1>5, <1>6
<1>9. \A v : v # w => \A i \in DOMAIN s : v \in t[i].waiters <=> v \in s[i].waiters
  BY <1>5, <1>6
<1>10. Alike(s, t)
  BY <1>6, <1>7 DEF Alike
<1>11. Has(t, w) /\ (~Has(s, w) => One(t, w))
  BY <1>2, <1>6, <1>8 DEF Has, One
<1>12. \A v : v # w => (Has(t, v) <=> Has(s, v)) /\ (One(s, v) => One(t, v))
  BY <1>6, <1>9 DEF Has, One
<1>13. \A i \in DOMAIN s : w \in t[i].waiters => w \in s[i].waiters \/ s[i].range = r
  BY <1>2, <1>8
<1> QED BY <1>9, <1>10, <1>11, <1>12, <1>13 DEF t

\* A thread no longer waits.
LEMMA UnawaitedFacts ==
    ASSUME NEW s \in Seq(Deletion), NEW w
    PROVE  LET t == Unawaited(s, w)
           IN  /\ Alike(s, t) /\ ~Has(t, w) /\ One(t, w)
               /\ \A v : v # w => /\ Has(t, v) <=> Has(s, v)
                                  /\ One(s, v) => One(t, v)
               /\ \A v : \A i \in DOMAIN s : v \in t[i].waiters => v \in s[i].waiters
<1> DEFINE t == Unawaited(s, w)
<1>1. Len(s) \in Nat /\ DOMAIN s = 1 .. Len(s) /\ \A i \in DOMAIN s : s[i] \in Deletion
  OBVIOUS
<1>2. /\ DOMAIN t = DOMAIN s
      /\ \A i \in DOMAIN s : t[i] = [s[i] EXCEPT !.waiters = @ \ {w}]
  BY DEF Unawaited
<1>3. t = [i \in 1 .. Len(s) |-> t[i]]
  BY <1>1 DEF Unawaited
<1> HIDE DEF t
<1>4. \A i \in DOMAIN s : /\ t[i] \in Deletion /\ t[i].range = s[i].range
                          /\ t[i].waiters = s[i].waiters \ {w}
  BY <1>1, <1>2 DEF Deletion
<1>5. t \in Seq(Deletion) /\ Len(t) = Len(s)
  BY <1>1, <1>3, <1>4
<1>6. Alike(s, t)
  BY <1>2, <1>4, <1>5 DEF Alike
<1>7. ~Has(t, w) /\ One(t, w)
  BY <1>2, <1>4 DEF Has, One
<1>8. \A v : v # w => (Has(t, v) <=> Has(s, v)) /\ (One(s, v) => One(t, v))
  BY <1>2, <1>4 DEF Has, One
<1>9. \A v : \A i \in DOMAIN s : v \in t[i].waiters => v \in s[i].waiters
  BY <1>4
<1> QED BY <1>6, <1>7, <1>8, <1>9 DEF t

\* The trackers and the queue are the same, up to who waits.
AlikeAll ==
    /\ queue' \in QueueStates /\ queue'.tasks = queue.tasks
    /\ Alike(queue.orphans, queue'.orphans) /\ Alike(queue.delayed, queue'.delayed)
    /\ metadata' \in Seq(Trackers) /\ DOMAIN metadata' = DOMAIN metadata
    /\ Len(metadata') = Len(metadata)
    /\ \A i \in DOMAIN metadata : /\ metadata'[i].id = metadata[i].id
                                  /\ Alike(metadata[i].orphans, metadata'[i].orphans)

\* A sequence is like itself.
LEMMA AlikeSelf ==
    ASSUME NEW s \in Seq(Deletion)
    PROVE  Alike(s, s)
BY DEF Alike

\* trackOrphanedDataCleanup adds one waiter, to a deletion of r.
LEMMA TrackShape ==
    ASSUME StateOK, NEW r, Track(r)
    PROVE  /\ AlikeAll
           /\ SomeWaits(metadata', queue', "recv")
           /\ ~SomeWaits(metadata, queue, "recv") => OneWaits(metadata', queue', "recv")
           /\ \A v : v # "recv" => /\ SomeWaits(metadata', queue', v) <=> SomeWaits(metadata, queue, v)
                                   /\ OneWaits(metadata, queue, v) => OneWaits(metadata', queue', v)
<1>1. /\ queue \in QueueStates /\ metadata \in Seq(Trackers)
      /\ Len(metadata) \in Nat /\ DOMAIN metadata = 1 .. Len(metadata)
      /\ \A j \in DOMAIN metadata : metadata[j] \in Trackers /\ metadata[j].orphans \in Seq(Deletion)
      /\ queue.orphans \in Seq(Deletion) /\ queue.delayed \in Seq(Deletion)
  BY ShapeFacts
<1>0. "recv" \in Waiters
  BY DEF Waiters
<1>2. CASE TrackersWith(r) # {} /\ queue' = queue
           /\ metadata' = [metadata EXCEPT ![Max(TrackersWith(r))].orphans = AwaitedBy(@, r, "recv")]
  <2> DEFINE m == Max(TrackersWith(r))
             s == metadata[m].orphans
             u == [metadata[m] EXCEPT !.orphans = AwaitedBy(s, r, "recv")]
  <2>1. m \in DOMAIN metadata /\ Overlap(s, r) # {}
    <3>1. TrackersWith(r) \in SUBSET (1 .. Len(metadata))
      BY <1>1 DEF TrackersWith
    <3>2. m \in TrackersWith(r)
      BY <1>1, <1>2, <3>1, MaxFacts
    <3> QED BY <3>2 DEF TrackersWith
  <2>2. metadata' = [metadata EXCEPT ![m] = u]
    BY <1>2, <2>1
  <2> HIDE DEF m
  <2>3. s \in Seq(Deletion) /\ metadata[m] \in Trackers
    BY <1>1, <2>1
  <2> DEFINE t == AwaitedBy(s, r, "recv")
  <2>4. /\ Alike(s, t) /\ Has(t, "recv") /\ (~Has(s, "recv") => One(t, "recv"))
        /\ \A v : v # "recv" => (Has(t, v) <=> Has(s, v)) /\ (One(s, v) => One(t, v))
    <3> HIDE DEF s
    <3> QED BY <1>0, <2>1, <2>3, AwaitedByFacts
  <2>5. t \in Seq(Deletion)
    BY <2>4 DEF Alike
  <2>6. u \in Trackers /\ u.id = metadata[m].id /\ u.orphans = t
    <3> HIDE DEF t
    <3> QED BY <2>3, <2>5 DEF Trackers, t
  <2> HIDE DEF u, t
  <2>7. /\ metadata' \in Seq(Trackers) /\ DOMAIN metadata' = DOMAIN metadata
        /\ Len(metadata') = Len(metadata) /\ metadata'[m] = u
        /\ \A j \in DOMAIN metadata : j # m => metadata'[j] = metadata[j]
    BY <1>1, <2>1, <2>2, <2>6
  <2>8. \A i \in DOMAIN metadata : /\ metadata'[i].id = metadata[i].id
                                   /\ Alike(metadata[i].orphans, metadata'[i].orphans)
    <3> SUFFICES ASSUME NEW i \in DOMAIN metadata
                 PROVE  /\ metadata'[i].id = metadata[i].id
                        /\ Alike(metadata[i].orphans, metadata'[i].orphans)
      OBVIOUS
    <3>1. CASE i = m
      BY <2>4, <2>6, <2>7, <3>1
    <3>2. CASE i # m
      BY <1>1, <2>7, <3>2, AlikeSelf
    <3> QED BY <3>1, <3>2
  <2>9. AlikeAll
    BY <1>1, <1>2, <2>7, <2>8, AlikeSelf DEF AlikeAll
  <2>10. SomeWaits(metadata', queue', "recv")
    BY <2>1, <2>4, <2>6, <2>7 DEF SomeWaits
  <2>11. ASSUME ~SomeWaits(metadata, queue, "recv") PROVE OneWaits(metadata', queue', "recv")
    <3>1. ~QHas(queue', "recv") /\ \A j \in DOMAIN metadata : ~Has(metadata[j].orphans, "recv")
      BY <1>2, <2>11 DEF SomeWaits
    <3>2. \A j \in DOMAIN metadata : j # m => ~Has(metadata'[j].orphans, "recv")
      BY <2>7, <3>1
    <3>3. One(metadata'[m].orphans, "recv")
      BY <2>1, <2>4, <2>6, <2>7, <3>1
    <3>4. \A j \in DOMAIN metadata : One(metadata'[j].orphans, "recv")
      BY <3>2, <3>3 DEF One, Has
    <3>5. QOne(queue', "recv")
      BY <3>1 DEF QOne, QHas, One, Has
    <3> QED BY <2>7, <3>1, <3>2, <3>4, <3>5 DEF OneWaits
  <2>12. ASSUME NEW v, v # "recv"
         PROVE  /\ SomeWaits(metadata', queue', v) <=> SomeWaits(metadata, queue, v)
                /\ OneWaits(metadata, queue, v) => OneWaits(metadata', queue', v)
    <3>1. \A j \in DOMAIN metadata : /\ Has(metadata'[j].orphans, v) <=> Has(metadata[j].orphans, v)
                                     /\ One(metadata[j].orphans, v) => One(metadata'[j].orphans, v)
      BY <2>4, <2>6, <2>7, <2>12
    <3> QED BY <1>2, <2>7, <3>1 DEF SomeWaits, OneWaits
  <2> QED BY <2>9, <2>10, <2>11, <2>12
<1>3. ASSUME NEW s \in Seq(Deletion), NEW t, Overlap(s, r) # {}, t = AwaitedBy(s, r, "recv")
      PROVE  /\ Alike(s, t) /\ t \in Seq(Deletion) /\ Has(t, "recv")
             /\ ~Has(s, "recv") => One(t, "recv")
             /\ \A v : v # "recv" => (Has(t, v) <=> Has(s, v)) /\ (One(s, v) => One(t, v))
  <2>1. /\ Alike(s, t) /\ Has(t, "recv") /\ (~Has(s, "recv") => One(t, "recv"))
        /\ \A v : v # "recv" => (Has(t, v) <=> Has(s, v)) /\ (One(s, v) => One(t, v))
    BY <1>0, <1>3, AwaitedByFacts
  <2> QED BY <2>1 DEF Alike
<1>4. CASE metadata' = metadata /\ Overlap(queue.orphans, r) # {}
           /\ queue' = [queue EXCEPT !.orphans = AwaitedBy(@, r, "recv")]
  <2> DEFINE t == AwaitedBy(queue.orphans, r, "recv")
  <2>1. /\ Alike(queue.orphans, t) /\ t \in Seq(Deletion) /\ Has(t, "recv")
        /\ ~Has(queue.orphans, "recv") => One(t, "recv")
        /\ \A v : v # "recv" => /\ Has(t, v) <=> Has(queue.orphans, v)
                                /\ One(queue.orphans, v) => One(t, v)
    BY <1>1, <1>3, <1>4
  <2> HIDE DEF t
  <2>2. /\ queue' \in QueueStates /\ queue'.orphans = t /\ queue'.delayed = queue.delayed
        /\ queue'.tasks = queue.tasks
    BY <1>1, <1>4, <2>1 DEF QueueStates, t
  <2>3. AlikeAll
    BY <1>1, <1>4, <2>1, <2>2, AlikeSelf DEF AlikeAll
  <2>4. SomeWaits(metadata', queue', "recv")
    BY <2>1, <2>2 DEF SomeWaits, QHas
  <2>5. ASSUME ~SomeWaits(metadata, queue, "recv") PROVE OneWaits(metadata', queue', "recv")
    <3>1. /\ \A j \in DOMAIN metadata : ~Has(metadata[j].orphans, "recv")
          /\ ~Has(queue.orphans, "recv") /\ ~Has(queue.delayed, "recv")
      BY <2>5 DEF SomeWaits, QHas
    <3>2. \A j \in DOMAIN metadata : One(metadata[j].orphans, "recv")
      BY <3>1 DEF One, Has
    <3>3. QOne(queue', "recv")
      BY <2>1, <2>2, <3>1 DEF QOne, One, Has
    <3> QED BY <1>4, <3>1, <3>2, <3>3 DEF OneWaits
  <2>6. \A v : v # "recv" => /\ SomeWaits(metadata', queue', v) <=> SomeWaits(metadata, queue, v)
                             /\ OneWaits(metadata, queue, v) => OneWaits(metadata', queue', v)
    BY <1>4, <2>1, <2>2 DEF SomeWaits, OneWaits, QHas, QOne
  <2> QED BY <2>3, <2>4, <2>5, <2>6
<1>5. CASE metadata' = metadata /\ Overlap(queue.delayed, r) # {}
           /\ queue' = [queue EXCEPT !.delayed = AwaitedBy(@, r, "recv")]
  <2> DEFINE t == AwaitedBy(queue.delayed, r, "recv")
  <2>1. /\ Alike(queue.delayed, t) /\ t \in Seq(Deletion) /\ Has(t, "recv")
        /\ ~Has(queue.delayed, "recv") => One(t, "recv")
        /\ \A v : v # "recv" => /\ Has(t, v) <=> Has(queue.delayed, v)
                                /\ One(queue.delayed, v) => One(t, v)
    BY <1>1, <1>3, <1>5
  <2> HIDE DEF t
  <2>2. /\ queue' \in QueueStates /\ queue'.delayed = t /\ queue'.orphans = queue.orphans
        /\ queue'.tasks = queue.tasks
    BY <1>1, <1>5, <2>1 DEF QueueStates, t
  <2>3. AlikeAll
    BY <1>1, <1>5, <2>1, <2>2, AlikeSelf DEF AlikeAll
  <2>4. SomeWaits(metadata', queue', "recv")
    BY <2>1, <2>2 DEF SomeWaits, QHas
  <2>5. ASSUME ~SomeWaits(metadata, queue, "recv") PROVE OneWaits(metadata', queue', "recv")
    <3>1. /\ \A j \in DOMAIN metadata : ~Has(metadata[j].orphans, "recv")
          /\ ~Has(queue.orphans, "recv") /\ ~Has(queue.delayed, "recv")
      BY <2>5 DEF SomeWaits, QHas
    <3>2. \A j \in DOMAIN metadata : One(metadata[j].orphans, "recv")
      BY <3>1 DEF One, Has
    <3>3. QOne(queue', "recv")
      BY <2>1, <2>2, <3>1 DEF QOne, One, Has
    <3> QED BY <1>5, <3>1, <3>2, <3>3 DEF OneWaits
  <2>6. \A v : v # "recv" => /\ SomeWaits(metadata', queue', v) <=> SomeWaits(metadata, queue, v)
                             /\ OneWaits(metadata, queue, v) => OneWaits(metadata', queue', v)
    BY <1>5, <2>1, <2>2 DEF SomeWaits, OneWaits, QHas, QOne
  <2> QED BY <2>3, <2>4, <2>5, <2>6
<1> QED BY <1>2, <1>4, <1>5 DEF Track

\* What stays the same when only waiters come and go.
LEMMA AlikeKeeps ==
    ASSUME StateOK, AlikeAll, config' = config
    PROVE  /\ metadata' \in Seq(Trackers') /\ Sorted(metadata') /\ queue' \in QueueStates
           /\ metadata' = <<>> <=> metadata = <<>>
           /\ queue'.orphans = <<>> <=> queue.orphans = <<>>
           /\ queue'.delayed = <<>> <=> queue.delayed = <<>>
           /\ queue.orphans # <<>> => Head(queue'.orphans).range = Head(queue.orphans).range
           /\ \A busy : WillRun(queue, busy) => WillRun(queue', busy)
<1>1. /\ metadata \in Seq(Trackers) /\ Sorted(metadata) /\ Len(metadata) \in Nat
      /\ queue.orphans \in Seq(Deletion) /\ queue.delayed \in Seq(Deletion)
  BY ShapeFacts
<1>2. /\ metadata' \in Seq(Trackers) /\ DOMAIN metadata' = DOMAIN metadata
      /\ Len(metadata') = Len(metadata) /\ queue' \in QueueStates
      /\ \A i \in DOMAIN metadata : metadata'[i].id = metadata[i].id
      /\ Alike(queue.orphans, queue'.orphans) /\ Alike(queue.delayed, queue'.delayed)
      /\ queue'.tasks = queue.tasks
  BY DEF AlikeAll
<1>3. Trackers' = Trackers
  BY DEF Trackers
<1>4. Sorted(metadata')
  BY <1>1, <1>2 DEF Sorted
<1>5. metadata' = <<>> <=> metadata = <<>>
  BY <1>1, <1>2
<1>6. /\ queue'.orphans = <<>> <=> queue.orphans = <<>>
      /\ queue'.delayed = <<>> <=> queue.delayed = <<>>
      /\ queue.orphans # <<>> => Head(queue'.orphans).range = Head(queue.orphans).range
  BY <1>1, <1>2, AlikeFacts
<1>7. \A busy : WillRun(queue, busy) => WillRun(queue', busy)
  BY <1>2, <1>6 DEF WillRun
<1> QED BY <1>2, <1>3, <1>4, <1>5, <1>6, <1>7

\* A function on the first n numbers is a sequence.
LEMMA SeqOfFunction ==
    ASSUME NEW S, NEW n \in Nat, NEW f, f = [i \in 1 .. n |-> f[i]], \A i \in 1 .. n : f[i] \in S
    PROVE  f \in Seq(S) /\ Len(f) = n
OBVIOUS

\* A thread that is interrupted waits for nothing any more.
LEMMA InterruptShape ==
    ASSUME StateOK, NEW w,
           queue' = [queue EXCEPT !.orphans = Unawaited(@, w), !.delayed = Unawaited(@, w)],
           metadata' = [i \in DOMAIN metadata |->
                          [metadata[i] EXCEPT !.orphans = Unawaited(@, w)]]
    PROVE  /\ AlikeAll
           /\ ~SomeWaits(metadata', queue', w) /\ OneWaits(metadata', queue', w)
           /\ \A v : v # w => /\ SomeWaits(metadata', queue', v) <=> SomeWaits(metadata, queue, v)
                              /\ OneWaits(metadata, queue, v) => OneWaits(metadata', queue', v)
<1>1. /\ queue \in QueueStates /\ metadata \in Seq(Trackers)
      /\ Len(metadata) \in Nat /\ DOMAIN metadata = 1 .. Len(metadata)
      /\ \A j \in DOMAIN metadata : metadata[j] \in Trackers /\ metadata[j].orphans \in Seq(Deletion)
      /\ queue.orphans \in Seq(Deletion) /\ queue.delayed \in Seq(Deletion)
  BY ShapeFacts
<1>2. ASSUME NEW s \in Seq(Deletion), NEW t, t = Unawaited(s, w)
      PROVE  /\ Alike(s, t) /\ t \in Seq(Deletion) /\ ~Has(t, w) /\ One(t, w)
             /\ \A v : v # w => (Has(t, v) <=> Has(s, v)) /\ (One(s, v) => One(t, v))
  <2>1. /\ Alike(s, t) /\ ~Has(t, w) /\ One(t, w)
        /\ \A v : v # w => (Has(t, v) <=> Has(s, v)) /\ (One(s, v) => One(t, v))
    BY <1>2, UnawaitedFacts
  <2> QED BY <2>1 DEF Alike
<1> DEFINE o == Unawaited(queue.orphans, w)
           d == Unawaited(queue.delayed, w)
           s(i) == Unawaited(metadata[i].orphans, w)
<1>3. /\ Alike(queue.orphans, o) /\ o \in Seq(Deletion) /\ ~Has(o, w) /\ One(o, w)
      /\ \A v : v # w => /\ Has(o, v) <=> Has(queue.orphans, v)
                         /\ One(queue.orphans, v) => One(o, v)
  BY <1>1, <1>2
<1>4. /\ Alike(queue.delayed, d) /\ d \in Seq(Deletion) /\ ~Has(d, w) /\ One(d, w)
      /\ \A v : v # w => /\ Has(d, v) <=> Has(queue.delayed, v)
                         /\ One(queue.delayed, v) => One(d, v)
  BY <1>1, <1>2
<1>5. \A i \in DOMAIN metadata :
         /\ Alike(metadata[i].orphans, s(i)) /\ s(i) \in Seq(Deletion) /\ ~Has(s(i), w)
         /\ One(s(i), w)
         /\ \A v : v # w => /\ Has(s(i), v) <=> Has(metadata[i].orphans, v)
                            /\ One(metadata[i].orphans, v) => One(s(i), v)
  BY <1>1, <1>2
<1>6. queue' = [queue EXCEPT !.orphans = o, !.delayed = d]
  OBVIOUS
<1>7. \A i \in DOMAIN metadata : metadata'[i] = [metadata[i] EXCEPT !.orphans = s(i)]
  OBVIOUS
<1>8. metadata' = [i \in 1 .. Len(metadata) |-> metadata'[i]] /\ DOMAIN metadata' = DOMAIN metadata
  BY <1>1
<1> HIDE DEF o, d, s
<1>9. /\ queue' \in QueueStates /\ queue'.orphans = o /\ queue'.delayed = d
      /\ queue'.tasks = queue.tasks
  BY <1>1, <1>3, <1>4, <1>6 DEF QueueStates
<1>10. \A i \in DOMAIN metadata : /\ metadata'[i] \in Trackers /\ metadata'[i].orphans = s(i)
                                  /\ metadata'[i].id = metadata[i].id
  BY <1>1, <1>5, <1>7 DEF Trackers
<1>11. metadata' \in Seq(Trackers) /\ Len(metadata') = Len(metadata)
  <2>1. \A i \in 1 .. Len(metadata) : metadata'[i] \in Trackers
    BY <1>1, <1>10
  <2> QED BY <1>1, <1>8, <2>1, SeqOfFunction
<1>12. AlikeAll
  BY <1>3, <1>4, <1>5, <1>8, <1>9, <1>10, <1>11 DEF AlikeAll
<1>13. ~QHas(queue', w) /\ QOne(queue', w)
  BY <1>3, <1>4, <1>9 DEF QHas, QOne
<1>14. \A i \in DOMAIN metadata : ~Has(metadata'[i].orphans, w) /\ One(metadata'[i].orphans, w)
  BY <1>5, <1>10
<1>15. ~SomeWaits(metadata', queue', w) /\ OneWaits(metadata', queue', w)
  BY <1>8, <1>13, <1>14 DEF SomeWaits, OneWaits
<1>16. ASSUME NEW v, v # w
       PROVE  /\ SomeWaits(metadata', queue', v) <=> SomeWaits(metadata, queue, v)
              /\ OneWaits(metadata, queue, v) => OneWaits(metadata', queue', v)
  <2>1. \A i \in DOMAIN metadata : /\ Has(metadata'[i].orphans, v) <=> Has(metadata[i].orphans, v)
                                   /\ One(metadata[i].orphans, v) => One(metadata'[i].orphans, v)
    BY <1>5, <1>10, <1>16
  <2>2. (QHas(queue', v) <=> QHas(queue, v)) /\ (QOne(queue, v) => QOne(queue', v))
    BY <1>3, <1>4, <1>9, <1>16 DEF QHas, QOne
  <2> QED BY <1>8, <2>1, <2>2 DEF SomeWaits, OneWaits
<1> QED BY <1>12, <1>15, <1>16

\* Nobody waits once every deletion is gone.
LEMMA NobodyWaits ==
    ASSUME NEW ms, NEW q, q.orphans = <<>>, q.delayed = <<>>,
           \A i \in DOMAIN ms : ms[i].orphans = <<>>, NEW w
    PROVE  ~SomeWaits(ms, q, w) /\ OneWaits(ms, q, w)
BY EmptyWaits DEF SomeWaits, OneWaits, QHas, QOne

\* Whoever waits is found among all deletions.
LEMMA AllWaits ==
    ASSUME NEW w
    PROVE  Waits(w, AllDeletions) <=> SomeWaits(metadata, queue, w)
BY DEF Waits, AllDeletions, TrackerOrphans, ToSet, SomeWaits, QHas, Has

\* The first deletion of the queue leaves it with those who wait for it.
LEMMA PopShape ==
    ASSUME StateOK, queue.orphans # <<>>
    PROVE  LET p == Pop(queue)
               x == Head(queue.orphans)
           IN  /\ p \in QueueStates /\ p.delayed = queue.delayed
               /\ InQueue(p) \subseteq InQueue(queue) /\ x \in InQueue(queue) /\ x \in Deletion
               /\ \A busy : WillRun(p, busy)
               /\ \A w : SomeWaits(metadata, queue, w) <=>
                            SomeWaits(metadata, p, w) \/ Waits(w, {x})
               /\ \A w : OneWaits(metadata, queue, w) =>
                            /\ OneWaits(metadata, p, w)
                            /\ ~(SomeWaits(metadata, p, w) /\ Waits(w, {x}))
<1> DEFINE p == Pop(queue)
           x == Head(queue.orphans)
<1>1. /\ queue \in QueueStates /\ queue.orphans \in Seq(Deletion) /\ queue.delayed \in Seq(Deletion)
      /\ queue.tasks \in SUBSET {"now", "later"}
  BY ShapeFacts
<1>2. /\ p.orphans = Tail(queue.orphans) /\ p.delayed = queue.delayed
      /\ p.tasks = queue.tasks \cup {"now"}
      /\ p = [queue EXCEPT !.orphans = Tail(queue.orphans), !.tasks = queue.tasks \cup {"now"}]
  BY <1>1 DEF Pop, QueueStates
<1>3. \A w : /\ x \in Deletion /\ Tail(queue.orphans) \in Seq(Deletion)
             /\ ToSet(Tail(queue.orphans)) \subseteq ToSet(queue.orphans) /\ x \in ToSet(queue.orphans)
             /\ Has(queue.orphans, w) <=> Has(Tail(queue.orphans), w) \/ w \in x.waiters
             /\ One(queue.orphans, w) =>
                   One(Tail(queue.orphans), w) /\ ~(Has(Tail(queue.orphans), w) /\ w \in x.waiters)
  BY <1>1, TailWaits
<1>4. p \in QueueStates
  <2>1. Tail(queue.orphans) \in Seq(Deletion)
    BY <1>3
  <2> QED BY <1>1, <1>2, <2>1 DEF QueueStates
<1>5. \A w : Waits(w, {x}) <=> w \in x.waiters
  BY DEF Waits
<1> HIDE DEF p, x
<1>6. InQueue(p) \subseteq InQueue(queue) /\ x \in InQueue(queue)
  BY <1>2, <1>3 DEF InQueue
<1>7. \A busy : WillRun(p, busy)
  BY <1>2 DEF WillRun
<1>8. \A w : QHas(queue, w) <=> QHas(p, w) \/ w \in x.waiters
  BY <1>2, <1>3 DEF QHas
<1>9. \A w : QOne(queue, w) => QOne(p, w) /\ ~(QHas(p, w) /\ w \in x.waiters)
  BY <1>2, <1>3 DEF QHas, QOne
<1>10. \A w : SomeWaits(metadata, queue, w) <=> SomeWaits(metadata, p, w) \/ Waits(w, {x})
  BY <1>5, <1>8 DEF SomeWaits
<1>11. \A w : OneWaits(metadata, queue, w) =>
                 OneWaits(metadata, p, w) /\ ~(SomeWaits(metadata, p, w) /\ Waits(w, {x}))
  <2> SUFFICES ASSUME NEW w, OneWaits(metadata, queue, w)
               PROVE  OneWaits(metadata, p, w) /\ ~(SomeWaits(metadata, p, w) /\ Waits(w, {x}))
    OBVIOUS
  <2>1. QOne(p, w) /\ ~(QHas(p, w) /\ w \in x.waiters)
    BY <1>9 DEF OneWaits
  <2>2. \A i \in DOMAIN metadata : Has(metadata[i].orphans, w) => ~QHas(p, w) /\ w \notin x.waiters
    BY <1>8 DEF OneWaits
  <2>3. OneWaits(metadata, p, w)
    BY <2>1, <2>2 DEF OneWaits
  <2> QED BY <1>5, <2>1, <2>2, <2>3 DEF SomeWaits
<1> QED BY <1>2, <1>3, <1>4, <1>6, <1>7, <1>10, <1>11 DEF p, x

-----------------------------------------------------------------------------
(***************************************************************************)
(* Every step preserves BasicInv                                           *)
(***************************************************************************)

\* The parts of BasicInv after a step.
LEMMA Assemble ==
    ASSUME RestOK', metadata' \in Seq(Trackers'), Sorted(metadata'), queue' \in QueueStates,
           OneMigration', DeleterInv', EmptyInv', WillRun(queue', deleter'.pc # "idle"),
           OneWaits(metadata', queue', "recv"), OneWaits(metadata', queue', "donor"),
           SomeWaits(metadata', queue', "recv") <=> recv'.pc = "wait",
           SomeWaits(metadata', queue', "donor") <=> donate'.pc = "wait"
    PROVE  BasicInv'
<1>1. (StateOK <=> RestOK /\ metadata \in Seq(Trackers) /\ Sorted(metadata) /\ queue \in QueueStates)'
  BY TypeParts, PTL
<1>2. Sorted(metadata)' <=> Sorted(metadata')
  BY DEF Sorted
<1>3. QueueStates' = QueueStates
  BY DEF QueueStates, Deletion, Waiters
<1>4. StateOK'
  BY <1>1, <1>2, <1>3
<1>5. (WaitInv("recv", recv.pc = "wait") /\ WaitInv("donor", donate.pc = "wait"))'
  BY DEF WaitInv, OneWaits, SomeWaits, QOne, QHas, One, Has
<1>6. WillRun(queue, deleter.pc # "idle")'
  BY DEF WillRun
<1> QED BY <1>4, <1>5, <1>6 DEF BasicInv

\* What BasicInv says.
LEMMA BasicFacts ==
    ASSUME BasicInv
    PROVE  /\ StateOK /\ RestOK /\ OneMigration /\ DeleterInv /\ EmptyInv
           /\ WillRun(queue, deleter.pc # "idle")
           /\ WaitInv("recv", recv.pc = "wait") /\ WaitInv("donor", donate.pc = "wait")
           /\ OneWaits(metadata, queue, "recv") /\ OneWaits(metadata, queue, "donor")
           /\ SomeWaits(metadata, queue, "recv") <=> recv.pc = "wait"
           /\ SomeWaits(metadata, queue, "donor") <=> donate.pc = "wait"
BY TypeParts DEF BasicInv, WaitInv

\* A step that leaves the trackers and the queue alone.
LEMMA QuietStep ==
    ASSUME BasicInv, RestOK', Trackers \subseteq Trackers', OneMigration', DeleterInv', EmptyInv',
           metadata' = metadata, queue' = queue, deleter'.pc # "idle" <=> deleter.pc # "idle",
           recv'.pc = "wait" <=> recv.pc = "wait", donate'.pc = "wait" <=> donate.pc = "wait"
    PROVE  BasicInv'
<1>1. /\ StateOK /\ WillRun(queue, deleter.pc # "idle")
      /\ OneWaits(metadata, queue, "recv") /\ OneWaits(metadata, queue, "donor")
      /\ SomeWaits(metadata, queue, "recv") <=> recv.pc = "wait"
      /\ SomeWaits(metadata, queue, "donor") <=> donate.pc = "wait"
  BY BasicFacts
<1>2. metadata \in Seq(Trackers) /\ Sorted(metadata) /\ queue \in QueueStates
  BY <1>1, ShapeFacts
<1>3. metadata' \in Seq(Trackers')
  <2>1. metadata = [i \in 1 .. Len(metadata) |-> metadata[i]] /\ Len(metadata) \in Nat
        /\ \A i \in 1 .. Len(metadata) : metadata[i] \in Trackers'
    BY <1>2
  <2>2. metadata \in Seq(Trackers')
    BY <2>1, SeqOfFunction
  <2> QED BY <2>2
<1>4. WillRun(queue', deleter'.pc # "idle")
  BY <1>1 DEF WillRun
<1> QED BY <1>1, <1>2, <1>3, <1>4, Assemble

\* The versions of the chunk map only become more.
LEMMA ConfigGrows ==
    ASSUME RestOK, NEW c \in SUBSET Ranges, Len(config) < MaxVersion, config' = Append(config, c)
    PROVE  /\ config' \in Seq(SUBSET Ranges) /\ Len(config') = Len(config) + 1
           /\ Len(config') \in 1 .. MaxVersion /\ DOMAIN config \subseteq DOMAIN config'
           /\ \A v \in DOMAIN config : config'[v] = config[v]
           /\ config'[Len(config')] = c
           /\ Trackers \subseteq Trackers'
<1>1. config \in Seq(SUBSET Ranges) /\ Len(config) \in 1 .. MaxVersion /\ MaxVersion \in Nat
  BY RangeAssumption DEF RestOK
<1>2. /\ config' \in Seq(SUBSET Ranges) /\ Len(config') = Len(config) + 1
      /\ DOMAIN config = 1 .. Len(config) /\ DOMAIN config' = 1 .. Len(config) + 1
      /\ \A v \in 1 .. Len(config) : config'[v] = config[v]
      /\ config'[Len(config) + 1] = c
  BY <1>1
<1>3. DOMAIN config \subseteq DOMAIN config' /\ Len(config') \in 1 .. MaxVersion
  BY <1>1, <1>2
<1>4. Trackers \subseteq Trackers'
  <2> SUFFICES ASSUME NEW t \in Trackers PROVE t \in Trackers'
    OBVIOUS
  <2> QED BY <1>3 DEF Trackers
<1> QED BY <1>2, <1>3, <1>4

\* A query takes the active chunk map.
LEMMA BeginQueryBasic ==
    ASSUME BasicInv, NEW q \in Queries, BeginQuery(q)
    PROVE  BasicInv'
<1>1. StateOK /\ RestOK /\ OneMigration /\ DeleterInv /\ EmptyInv
  BY BasicFacts
<1>2. metadata # <<>> /\ held' = [held EXCEPT ![q] = Active.id]
      /\ UNCHANGED <<config, known, clears, metadata, receiving, queue, deleter, recv,
                     arrived, donate, docs>>
  BY DEF BeginQuery
<1>3. Active.id \in (0 .. MaxClears) \X DOMAIN config
  <2>1. metadata[Len(metadata)] \in Trackers
    BY <1>1, <1>2, ShapeFacts
  <2> QED BY <2>1 DEF Active, Trackers
<1>4. held' \in [Holders -> {NoTracker} \cup ((0 .. MaxClears) \X DOMAIN config)]
  BY <1>1, <1>2, <1>3 DEF RestOK
<1>5. RestOK'
  BY <1>1, <1>2, <1>4 DEF RestOK
<1>6. OneMigration' /\ DeleterInv' /\ EmptyInv' /\ Trackers \subseteq Trackers'
  BY <1>1, <1>2 DEF OneMigration, DeleterInv, EmptyInv, Trackers
<1> QED BY <1>2, <1>5, <1>6, QuietStep

\* The donor commits, or does not, at the config server.
LEMMA DonateCommitBasic ==
    ASSUME BasicInv, NEW r \in Ranges, DonateCommit(r)
    PROVE  BasicInv'
<1>1. StateOK /\ RestOK /\ OneMigration /\ DeleterInv /\ EmptyInv
  BY BasicFacts
<1>2. /\ recv.pc = "idle" /\ donate.pc = "idle"
      /\ donate' = [pc |-> "refresh", range |-> r, version |-> Len(config')]
      /\ UNCHANGED <<known, clears, metadata, held, receiving, queue, deleter, recv, docs>>
      /\ arrived' = arrived \/ arrived' = arrived \ {r}
      /\ \/ Len(config) < MaxVersion /\ config' = Append(config, Last(config) \ {r})
         \/ config' = config
  BY DEF DonateCommit, NoMigration
<1>3. /\ config' \in Seq(SUBSET Ranges) /\ Len(config') \in 1 .. MaxVersion
      /\ DOMAIN config \subseteq DOMAIN config' /\ Trackers \subseteq Trackers'
  <2>1. CASE config' = config
    BY <1>1, <2>1 DEF RestOK, Trackers
  <2>2. CASE Len(config) < MaxVersion /\ config' = Append(config, Last(config) \ {r})
    <3>1. Last(config) \in SUBSET Ranges
      <4>1. Len(config) \in DOMAIN config
        BY <1>1, RangeAssumption DEF RestOK
      <4> QED BY <1>1, <4>1 DEF RestOK, Last
    <3>2. Last(config) \ {r} \in SUBSET Ranges
      BY <3>1
    <3> QED BY <1>1, <2>2, <3>2, ConfigGrows
  <2> QED BY <1>2, <2>1, <2>2
<1>4. RestOK'
  <2>1. held' \in [Holders -> {NoTracker} \cup ((0 .. MaxClears) \X DOMAIN config')]
    BY <1>1, <1>2, <1>3 DEF RestOK
  <2>2. Len(config') \in 0 .. MaxVersion
    BY <1>3, RangeAssumption
  <2> QED BY <1>1, <1>2, <1>3, <2>1, <2>2 DEF RestOK
<1>5. OneMigration' /\ DeleterInv' /\ EmptyInv'
  BY <1>1, <1>2 DEF OneMigration, DeleterInv, EmptyInv
<1> QED BY <1>2, <1>3, <1>4, <1>5, QuietStep

\* The donor of a received range commits.
LEMMA RemoteCommitBasic ==
    ASSUME BasicInv, NEW r \in Ranges, RemoteCommit(r)
    PROVE  BasicInv'
<1>1. StateOK /\ RestOK /\ OneMigration /\ DeleterInv /\ EmptyInv
  BY BasicFacts
<1>2. /\ Len(config) < MaxVersion /\ config' = Append(config, Last(config) \cup {r})
      /\ UNCHANGED <<known, clears, metadata, held, receiving, queue, deleter, recv,
                     arrived, donate, docs>>
  BY DEF RemoteCommit
<1>3. /\ config' \in Seq(SUBSET Ranges) /\ Len(config') \in 1 .. MaxVersion
      /\ DOMAIN config \subseteq DOMAIN config' /\ Trackers \subseteq Trackers'
  <2>1. Last(config) \in SUBSET Ranges
    <3>1. Len(config) \in DOMAIN config
      BY <1>1, RangeAssumption DEF RestOK
    <3> QED BY <1>1, <3>1 DEF RestOK, Last
  <2>2. Last(config) \cup {r} \in SUBSET Ranges
    BY <2>1
  <2> QED BY <1>1, <1>2, <2>2, ConfigGrows
<1>4. RestOK'
  <2>1. held' \in [Holders -> {NoTracker} \cup ((0 .. MaxClears) \X DOMAIN config')]
    BY <1>1, <1>2, <1>3 DEF RestOK
  <2> QED BY <1>1, <1>2, <1>3, <2>1 DEF RestOK
<1>5. OneMigration' /\ DeleterInv' /\ EmptyInv'
  BY <1>1, <1>2 DEF OneMigration, DeleterInv, EmptyInv
<1> QED BY <1>2, <1>3, <1>4, <1>5, QuietStep

\* Steps of the receiving thread, of the donor of what it received, and of a deletion,
\* that leave the queue alone.
LEMMA QuietStepsBasic ==
    ASSUME BasicInv,
           Clone \/ Finish \/ RecvFail \/ Delete \/ \E r \in Ranges : RemoteAbort(r)
    PROVE  BasicInv'
<1>1. StateOK /\ RestOK /\ OneMigration /\ DeleterInv /\ EmptyInv
  BY BasicFacts
<1>2. CASE Clone
  <2>1. RestOK'
    BY <1>1, <1>2 DEF RestOK, OneMigration, Clone
  <2>2. OneMigration' /\ DeleterInv' /\ EmptyInv' /\ Trackers \subseteq Trackers'
    BY <1>1, <1>2 DEF OneMigration, DeleterInv, EmptyInv, Trackers, Clone, RestOK
  <2>3. recv'.pc = "wait" <=> recv.pc = "wait"
    BY <1>1, <1>2 DEF Clone, RestOK
  <2> QED BY <1>2, <2>1, <2>2, <2>3, QuietStep DEF Clone
<1>3. CASE Finish
  <2>1. RestOK'
    BY <1>1, <1>3 DEF RestOK, OneMigration, Finish, NoRecv
  <2>2. OneMigration' /\ DeleterInv' /\ EmptyInv' /\ Trackers \subseteq Trackers'
    BY <1>1, <1>3 DEF OneMigration, DeleterInv, EmptyInv, Trackers, Finish, RestOK, NoRecv
  <2>3. recv'.pc = "wait" <=> recv.pc = "wait"
    BY <1>1, <1>3 DEF Finish, NoRecv
  <2> QED BY <1>3, <2>1, <2>2, <2>3, QuietStep DEF Finish
<1>4. CASE RecvFail
  <2>1. RestOK'
    BY <1>1, <1>4 DEF RestOK, OneMigration, RecvFail
  <2>2. OneMigration' /\ DeleterInv' /\ EmptyInv' /\ Trackers \subseteq Trackers'
    BY <1>1, <1>4 DEF OneMigration, DeleterInv, EmptyInv, Trackers, RecvFail, RestOK
  <2>3. recv'.pc = "wait" <=> recv.pc = "wait"
    BY <1>1, <1>4 DEF RecvFail, RestOK
  <2> QED BY <1>4, <2>1, <2>2, <2>3, QuietStep DEF RecvFail
<1>5. CASE Delete
  <2>1. RestOK'
    BY <1>1, <1>5 DEF RestOK, Delete
  <2>2. OneMigration' /\ DeleterInv' /\ EmptyInv' /\ Trackers \subseteq Trackers'
    BY <1>1, <1>5 DEF OneMigration, DeleterInv, EmptyInv, Trackers, Delete, RestOK
  <2>3. deleter'.pc # "idle" <=> deleter.pc # "idle"
    BY <1>1, <1>5 DEF Delete, RestOK
  <2> QED BY <1>5, <2>1, <2>2, <2>3, QuietStep DEF Delete
<1>6. CASE \E r \in Ranges : RemoteAbort(r)
  <2> PICK r \in Ranges : RemoteAbort(r)
    BY <1>6
  <2>1. RestOK'
    BY <1>1 DEF RestOK, RemoteAbort
  <2>2. OneMigration' /\ DeleterInv' /\ EmptyInv' /\ Trackers \subseteq Trackers'
    BY <1>1 DEF OneMigration, DeleterInv, EmptyInv, Trackers, RemoteAbort
  <2> QED BY <2>1, <2>2, QuietStep DEF RemoteAbort
<1> QED BY <1>2, <1>3, <1>4, <1>5, <1>6

\* A step that retires the trackers nobody uses any more, after ms and held changed.
LEMMA RetireStep ==
    ASSUME BasicInv, RestOK', OneMigration', config' = config, deleter' = deleter,
           NEW ms \in Seq(Trackers), Sorted(ms), NEW h, Retire(ms, h),
           \A w : /\ OneWaits(metadata, queue, w) => OneWaits(ms, queue, w)
                  /\ SomeWaits(ms, queue, w) <=> SomeWaits(metadata, queue, w),
           ms = <<>> => metadata = <<>> /\ receiving' = receiving,
           recv'.pc = "wait" <=> recv.pc = "wait", donate'.pc = "wait" <=> donate.pc = "wait"
    PROVE  BasicInv' /\ (ms # <<>> => metadata' # <<>> /\ Last(metadata') = Last(ms))
<1>1. /\ StateOK /\ RestOK /\ DeleterInv /\ EmptyInv
      /\ WillRun(queue, deleter.pc # "idle")
      /\ OneWaits(metadata, queue, "recv") /\ OneWaits(metadata, queue, "donor")
      /\ SomeWaits(metadata, queue, "recv") <=> recv.pc = "wait"
      /\ SomeWaits(metadata, queue, "donor") <=> donate.pc = "wait"
  BY BasicFacts
<1>2. /\ metadata' \in Seq(Trackers') /\ Sorted(metadata') /\ queue' \in QueueStates
      /\ HeadKept(queue, queue')
      /\ \A busy \in BOOLEAN : WillRun(queue, busy) => WillRun(queue', busy)
      /\ ms # <<>> => metadata' # <<>> /\ Last(metadata') = Last(ms)
      /\ ms = <<>> => metadata' = <<>> /\
           (queue.orphans = <<>> /\ queue.delayed = <<>> =>
              queue'.orphans = <<>> /\ queue'.delayed = <<>>)
  BY <1>1, RetireShape
<1>3. DeleterInv'
  BY <1>1, <1>2 DEF DeleterInv, HeadKept
<1>4. EmptyInv'
  BY <1>1, <1>2 DEF EmptyInv
<1>5. WillRun(queue', deleter'.pc # "idle")
  BY <1>1, <1>2
<1>6. /\ OneWaits(ms, queue, "recv") /\ OneWaits(ms, queue, "donor")
      /\ SomeWaits(ms, queue, "recv") <=> recv'.pc = "wait"
      /\ SomeWaits(ms, queue, "donor") <=> donate'.pc = "wait"
  BY <1>1
<1>7. OneWaits(metadata', queue', "recv") /\ (SomeWaits(metadata', queue', "recv") <=> recv'.pc = "wait")
  BY <1>1, <1>6, RetireKeepsWaits
<1>8. OneWaits(metadata', queue', "donor") /\ (SomeWaits(metadata', queue', "donor") <=> donate'.pc = "wait")
  BY <1>1, <1>6, RetireKeepsWaits
<1> QED BY <1>2, <1>3, <1>4, <1>5, <1>7, <1>8, Assemble

\* A query ends.
LEMMA EndQueryBasic ==
    ASSUME BasicInv, NEW q \in Queries, EndQuery(q)
    PROVE  BasicInv'
<1>1. StateOK /\ RestOK /\ OneMigration
  BY BasicFacts
<1>2. /\ held' = [held EXCEPT ![q] = NoTracker] /\ Retire(metadata, held')
      /\ UNCHANGED <<config, known, clears, receiving, deleter, recv, arrived, donate, docs>>
  BY DEF EndQuery, Release
<1>3. metadata \in Seq(Trackers) /\ Sorted(metadata)
  BY <1>1, ShapeFacts
<1>4. RestOK' /\ OneMigration'
  BY <1>1, <1>2 DEF RestOK, OneMigration
<1> QED BY <1>2, <1>3, <1>4, RetireStep

\* The donor lets go of the map it held.
LEMMA DonateEndBasic ==
    ASSUME BasicInv, DonateEnd
    PROVE  BasicInv'
<1>1. StateOK /\ RestOK /\ OneMigration
  BY BasicFacts
<1>2. /\ held' = [held EXCEPT !["donor"] = NoTracker] /\ Retire(metadata, held')
      /\ donate.pc = "leave" /\ donate' = NoDonation
      /\ UNCHANGED <<config, known, clears, receiving, deleter, recv, arrived, docs>>
  BY DEF DonateEnd, Release
<1>3. metadata \in Seq(Trackers) /\ Sorted(metadata)
  BY <1>1, ShapeFacts
<1>4. RestOK' /\ OneMigration' /\ (donate'.pc = "wait" <=> donate.pc = "wait")
  <2>1. /\ donate' \in [pc : {"idle", "refresh", "check", "cleanup", "wait", "leave"},
                        range : Ranges \cup {None}, version : 0 .. MaxVersion]
        /\ donate'.pc = "idle"
    BY <1>2, RangeAssumption DEF NoDonation
  <2>2. held' \in [Holders -> {NoTracker} \cup ((0 .. MaxClears) \X DOMAIN config)]
    BY <1>1, <1>2 DEF RestOK
  <2>3. RestOK'
    BY <1>1, <1>2, <2>1, <2>2 DEF RestOK
  <2>4. OneMigration'
    BY <1>1, <1>2, <2>1 DEF OneMigration
  <2> QED BY <1>2, <2>1, <2>3, <2>4
<1> QED BY <1>2, <1>3, <1>4, RetireStep

\* The trackers with a new one behind them.
LEMMA NewTracker ==
    ASSUME StateOK, NEW v \in DOMAIN config, metadata # <<>> => v > Active.id[2]
    PROVE  LET t == [id |-> <<clears, v>>, orphans |-> <<>>]
               ms == Append(metadata, t)
           IN  /\ ms \in Seq(Trackers) /\ Sorted(ms) /\ ms # <<>> /\ Last(ms) = t
               /\ Len(ms) = Len(metadata) + 1 /\ DOMAIN ms = 1 .. Len(metadata) + 1
               /\ \A i \in DOMAIN metadata : i \in DOMAIN ms /\ ms[i] = metadata[i]
               /\ ms[Len(metadata) + 1] = t
               /\ \A w : /\ OneWaits(metadata, queue, w) => OneWaits(ms, queue, w)
                         /\ SomeWaits(ms, queue, w) <=> SomeWaits(metadata, queue, w)
<1> DEFINE t == [id |-> <<clears, v>>, orphans |-> <<>>]
           ms == Append(metadata, t)
           n == Len(metadata)
<1>1. /\ metadata \in Seq(Trackers) /\ Sorted(metadata) /\ n \in Nat /\ DOMAIN metadata = 1 .. n
  BY ShapeFacts
<1>2. t \in Trackers
  BY DEF StateOK, RestOK, Trackers
<1>t. t.orphans = <<>> /\ t.id[2] = v
  OBVIOUS
<1> HIDE DEF t
<1>3. /\ ms \in Seq(Trackers) /\ Len(ms) = n + 1 /\ DOMAIN ms = 1 .. n + 1
      /\ \A i \in 1 .. n : ms[i] = metadata[i]
      /\ ms[n + 1] = t
  BY <1>1, <1>2
<1> HIDE DEF ms
<1>4. \A i \in DOMAIN metadata : i \in DOMAIN ms /\ ms[i] = metadata[i]
  BY <1>1, <1>3
<1>5. \A i \in DOMAIN ms : i \in DOMAIN metadata \/ i = n + 1
  BY <1>1, <1>3
<1>6. ms # <<>> /\ Last(ms) = t
  BY <1>1, <1>3 DEF Last
<1>7. Sorted(ms)
  <2> SUFFICES ASSUME NEW i \in DOMAIN ms, NEW j \in DOMAIN ms, i < j
               PROVE  ms[i].id[2] < ms[j].id[2]
    BY DEF Sorted
  <2>1. i \in DOMAIN metadata
    BY <1>1, <1>3
  <2>2. CASE j \in DOMAIN metadata
    BY <1>1, <1>4, <2>1, <2>2 DEF Sorted
  <2>3. CASE j = n + 1
    <3>1. metadata # <<>> /\ n \in DOMAIN metadata /\ (i < n \/ i = n)
      BY <1>1, <2>1
    <3>2. metadata[i] \in Trackers /\ metadata[n] \in Trackers
      BY <1>1, <2>1, <3>1
    <3>3. metadata[i].id[2] \in Nat /\ metadata[n].id[2] \in Nat /\ v \in Nat
      <4>1. DOMAIN config \subseteq Nat
        BY DEF StateOK
      <4> QED BY <3>2, <4>1 DEF Trackers
    <3>4. metadata[i].id[2] <= metadata[n].id[2]
      BY <1>1, <2>1, <3>1, <3>3 DEF Sorted
    <3>5. metadata[n].id[2] < v
      BY <3>1, <3>3 DEF Active
    <3>6. ms[i] = metadata[i] /\ ms[j] = t
      BY <1>3, <1>4, <2>1, <2>3
    <3> QED BY <1>t, <3>3, <3>4, <3>5, <3>6
  <2> QED BY <1>5, <2>2, <2>3
<1>8. ASSUME NEW w
      PROVE  /\ OneWaits(metadata, queue, w) => OneWaits(ms, queue, w)
             /\ SomeWaits(ms, queue, w) <=> SomeWaits(metadata, queue, w)
  <2>1. n + 1 \in DOMAIN ms /\ ~Has(ms[n + 1].orphans, w) /\ One(ms[n + 1].orphans, w)
    BY <1>1, <1>3, <1>t, EmptyWaits
  <2>2. SomeWaits(ms, queue, w) <=> SomeWaits(metadata, queue, w)
    BY <1>4, <1>5, <2>1 DEF SomeWaits
  <2>3. OneWaits(metadata, queue, w) => OneWaits(ms, queue, w)
    BY <1>4, <1>5, <2>1 DEF OneWaits
  <2> QED BY <2>2, <2>3
<1> QED BY <1>3, <1>4, <1>6, <1>7, <1>8 DEF t, ms

\* refreshActiveMetadata: either the active map is as new, or the new one becomes the
\* active one.
LEMMA InstallBasic ==
    ASSUME BasicInv, NEW v \in DOMAIN config, Install(v), RestOK', OneMigration',
           config' = config, deleter' = deleter,
           recv'.pc = "wait" <=> recv.pc = "wait", donate'.pc = "wait" <=> donate.pc = "wait"
    PROVE  BasicInv' /\ metadata' # <<>>
<1>1. StateOK /\ RestOK /\ DeleterInv /\ EmptyInv
  BY BasicFacts
<1>2. CASE metadata # <<>> /\ Active.id[2] >= v
  <2>1. UNCHANGED <<known, metadata, queue, receiving, arrived>>
    BY <1>2 DEF Install
  <2>2. DeleterInv' /\ EmptyInv' /\ Trackers \subseteq Trackers'
    BY <1>1, <2>1 DEF DeleterInv, EmptyInv, Trackers
  <2> QED BY <1>2, <2>1, <2>2, QuietStep
<1>3. CASE ~(metadata # <<>> /\ Active.id[2] >= v)
  <2> DEFINE t == [id |-> <<clears, v>>, orphans |-> <<>>]
             ms == Append(metadata, t)
  <2>1. Retire(ms, held)
    BY <1>3 DEF Install, SetActive
  <2>2. metadata # <<>> => v > Active.id[2]
    <3> SUFFICES ASSUME metadata # <<>> PROVE v > Active.id[2]
      OBVIOUS
    <3>1. metadata[Len(metadata)] \in Trackers
      BY <1>1, ShapeFacts
    <3>2. DOMAIN config \subseteq Nat
      BY <1>1 DEF RestOK
    <3>3. Active.id[2] \in Nat /\ v \in Nat
      BY <3>1, <3>2 DEF Trackers, Active
    <3> QED BY <1>3, <3>3
  <2>3. /\ ms \in Seq(Trackers) /\ Sorted(ms) /\ ms # <<>>
        /\ \A w : /\ OneWaits(metadata, queue, w) => OneWaits(ms, queue, w)
                  /\ SomeWaits(ms, queue, w) <=> SomeWaits(metadata, queue, w)
    BY <1>1, <2>2, NewTracker
  <2> HIDE DEF ms
  <2> QED BY <2>1, <2>3, RetireStep
<1> QED BY <1>2, <1>3

\* What Install leaves typed.
LEMMA InstallTypes ==
    ASSUME RestOK, NEW v \in DOMAIN config, Install(v), config' = config
    PROVE  known' \in DOMAIN config /\ receiving' \in SUBSET Ranges /\ arrived' \in SUBSET Ranges
BY DEF RestOK, Install, SetActive

\* A refresh.
LEMMA RefreshBasic ==
    ASSUME BasicInv, NEW v \in DOMAIN config, Refresh(v)
    PROVE  BasicInv'
<1>1. StateOK /\ RestOK /\ OneMigration
  BY BasicFacts
<1>2. Install(v) /\ UNCHANGED <<config, clears, held, deleter, recv, donate, docs>>
  BY DEF Refresh
<1>3. known' \in DOMAIN config /\ receiving' \in SUBSET Ranges /\ arrived' \in SUBSET Ranges
  BY <1>1, <1>2, InstallTypes
<1>4. RestOK' /\ OneMigration'
  BY <1>1, <1>2, <1>3 DEF RestOK, OneMigration
<1> QED BY <1>2, <1>4, InstallBasic

\* The refresh after the donor's commit.
LEMMA DonateRefreshBasic ==
    ASSUME BasicInv, NEW v \in DOMAIN config, DonateRefresh(v)
    PROVE  BasicInv'
<1>1. StateOK /\ RestOK /\ OneMigration
  BY BasicFacts
<1>2. /\ donate.pc = "refresh" /\ Install(v)
      /\ UNCHANGED <<config, clears, held, deleter, recv, docs>>
      /\ donate' = [donate EXCEPT !.pc = "check"]
  BY DEF DonateRefresh
<1>3. known' \in DOMAIN config /\ receiving' \in SUBSET Ranges /\ arrived' \in SUBSET Ranges
  BY <1>1, <1>2, InstallTypes
<1>4. /\ donate' \in [pc : {"idle", "refresh", "check", "cleanup", "wait", "leave"},
                      range : Ranges \cup {None}, version : 0 .. MaxVersion]
      /\ donate'.pc # "wait"
  BY <1>1, <1>2, RangeAssumption DEF RestOK
<1>5. OneMigration'
  BY <1>1, <1>2 DEF RestOK, OneMigration
<1>6. RestOK'
  BY <1>1, <1>2, <1>3, <1>4 DEF RestOK
<1> QED BY <1>2, <1>4, <1>5, <1>6, InstallBasic

\* The donor reads the metadata, and takes the map or gives up.
LEMMA DonateCheckBasic ==
    ASSUME BasicInv, DonateCheck \/ DonateLeaves
    PROVE  BasicInv'
<1>1. StateOK /\ RestOK /\ OneMigration /\ DeleterInv /\ EmptyInv
  BY BasicFacts
<1>2. /\ donate.pc \in {"check", "refresh"}
      /\ UNCHANGED <<config, known, clears, metadata, receiving, queue, deleter, recv,
                     arrived, docs>>
      /\ \/ donate' = NoDonation /\ held' = held
         \/ /\ metadata # <<>> /\ donate' = [donate EXCEPT !.pc = "cleanup"]
            /\ held' = [held EXCEPT !["donor"] = Active.id]
  BY DEF DonateCheck, DonateLeaves
<1>3. /\ donate' \in [pc : {"idle", "refresh", "check", "cleanup", "wait", "leave"},
                      range : Ranges \cup {None}, version : 0 .. MaxVersion]
      /\ donate'.pc # "wait"
  BY <1>1, <1>2, RangeAssumption DEF RestOK, NoDonation
<1>4. OneMigration'
  BY <1>1, <1>2 DEF RestOK, OneMigration, NoDonation
<1>5. metadata # <<>> => Active.id \in (0 .. MaxClears) \X DOMAIN config
  <2> SUFFICES ASSUME metadata # <<>> PROVE Active.id \in (0 .. MaxClears) \X DOMAIN config
    OBVIOUS
  <2>1. metadata[Len(metadata)] \in Trackers
    BY <1>1, ShapeFacts
  <2> QED BY <2>1 DEF Trackers, Active
<1>6. held' \in [Holders -> {NoTracker} \cup ((0 .. MaxClears) \X DOMAIN config)]
  BY <1>1, <1>2, <1>5 DEF RestOK
<1>7. RestOK'
  BY <1>1, <1>2, <1>3, <1>6 DEF RestOK
<1>8. DeleterInv' /\ EmptyInv' /\ Trackers \subseteq Trackers'
  BY <1>1, <1>2 DEF DeleterInv, EmptyInv, Trackers
<1> QED BY <1>2, <1>3, <1>4, <1>7, <1>8, QuietStep

\* A step of cleanUpRange.
LEMMA CleanUpStep ==
    ASSUME BasicInv, NEW r \in Ranges, NEW later \in BOOLEAN, NEW W \in SUBSET Waiters,
           CleanUpRange(r, later, W), metadata # <<>>, RestOK', OneMigration', config' = config,
           deleter' = deleter,
           "recv" \in W => recv.pc # "wait", "donor" \in W => donate.pc # "wait",
           recv'.pc = "wait" <=> recv.pc = "wait" \/ "recv" \in W,
           donate'.pc = "wait" <=> donate.pc = "wait" \/ "donor" \in W
    PROVE  BasicInv'
<1>1. /\ StateOK /\ RestOK /\ DeleterInv /\ EmptyInv
      /\ WillRun(queue, deleter.pc # "idle")
      /\ OneWaits(metadata, queue, "recv") /\ OneWaits(metadata, queue, "donor")
      /\ SomeWaits(metadata, queue, "recv") <=> recv.pc = "wait"
      /\ SomeWaits(metadata, queue, "donor") <=> donate.pc = "wait"
  BY BasicFacts
<1>2. /\ metadata' \in Seq(Trackers') /\ Sorted(metadata') /\ queue' \in QueueStates
      /\ metadata' # <<>> /\ HeadKept(queue, queue')
      /\ \A busy \in BOOLEAN : WillRun(queue, busy) => WillRun(queue', busy)
      /\ \A w : SomeWaits(metadata', queue', w) <=> SomeWaits(metadata, queue, w) \/ w \in W
      /\ \A w : /\ OneWaits(metadata, queue, w)
                /\ ~(SomeWaits(metadata, queue, w) /\ w \in W)
                => OneWaits(metadata', queue', w)
  BY <1>1, CleanUpShape
<1>3. DeleterInv' /\ EmptyInv'
  BY <1>1, <1>2 DEF DeleterInv, HeadKept, EmptyInv
<1>4. WillRun(queue', deleter'.pc # "idle")
  BY <1>1, <1>2
<1>5. /\ OneWaits(metadata', queue', "recv") /\ OneWaits(metadata', queue', "donor")
      /\ SomeWaits(metadata', queue', "recv") <=> recv'.pc = "wait"
      /\ SomeWaits(metadata', queue', "donor") <=> donate'.pc = "wait"
  BY <1>1, <1>2
<1> QED BY <1>2, <1>3, <1>4, <1>5, Assemble

\* The command cleanupOrphaned.
LEMMA CleanupOrphanedBasic ==
    ASSUME BasicInv, NEW r \in Ranges, CleanupOrphaned(r)
    PROVE  BasicInv'
<1>1. RestOK /\ OneMigration
  BY BasicFacts
<1>2. /\ metadata # <<>> /\ CleanUpRange(r, FALSE, {})
      /\ UNCHANGED <<config, known, clears, held, receiving, deleter, recv, arrived, donate, docs>>
  BY DEF CleanupOrphaned
<1>3. RestOK' /\ OneMigration'
  BY <1>1, <1>2 DEF RestOK, OneMigration
<1>4. {} \in SUBSET Waiters /\ FALSE \in BOOLEAN
  OBVIOUS
<1> DEFINE W == {}
<1>5. /\ "recv" \notin W /\ "donor" \notin W /\ W \in SUBSET Waiters
      /\ CleanUpRange(r, FALSE, W)
  BY <1>2
<1> HIDE DEF W
<1> QED BY <1>2, <1>3, <1>4, <1>5, CleanUpStep

\* The donor asks for the deletion of what it gave away.
LEMMA DonateCleanUpBasic ==
    ASSUME BasicInv, NEW later \in BOOLEAN, DonateCleanUp(later)
    PROVE  BasicInv'
<1>1. StateOK /\ RestOK /\ OneMigration /\ DeleterInv /\ EmptyInv
  BY BasicFacts
<1>2. /\ metadata # <<>> /\ donate.pc = "cleanup"
      /\ UNCHANGED <<config, known, clears, held, receiving, deleter, recv, arrived, docs>>
  BY DEF DonateCleanUp
<1>3. donate.range \in Ranges /\ recv.pc = "idle"
  BY <1>1, <1>2 DEF OneMigration
<1>4. CASE Refused(donate.range)
  <2>1. UNCHANGED <<queue, metadata>> /\ donate' = [donate EXCEPT !.pc = "leave"]
    BY <1>4 DEF DonateCleanUp
  <2>2. RestOK'
    BY <1>1, <1>2, <2>1 DEF RestOK
  <2>3. OneMigration' /\ donate'.pc = "leave"
    BY <1>1, <1>2, <1>3, <2>1 DEF OneMigration, RestOK
  <2>4. DeleterInv' /\ EmptyInv' /\ Trackers \subseteq Trackers'
    BY <1>1, <1>2, <2>1 DEF DeleterInv, EmptyInv, Trackers
  <2> QED BY <1>2, <2>1, <2>2, <2>3, <2>4, QuietStep
<1>5. CASE ~Refused(donate.range)
  <2> DEFINE W == IF later THEN {} ELSE {"donor"}
  <2>1. /\ CleanUpRange(donate.range, later, W)
        /\ donate' = [donate EXCEPT !.pc = IF later THEN "leave" ELSE "wait"]
    BY <1>5 DEF DonateCleanUp
  <2>2. W \in SUBSET Waiters /\ "recv" \notin W /\ ("donor" \in W <=> ~later)
    BY DEF Waiters
  <2> HIDE DEF W
  <2>3. RestOK'
    BY <1>1, <1>2, <2>1 DEF RestOK
  <2>4. OneMigration' /\ donate'.pc = IF later THEN "leave" ELSE "wait"
    BY <1>1, <1>2, <1>3, <2>1 DEF OneMigration, RestOK
  <2>5. donate'.pc = "wait" <=> donate.pc = "wait" \/ "donor" \in W
    BY <1>2, <2>2, <2>4
  <2>6. recv'.pc = "wait" <=> recv.pc = "wait" \/ "recv" \in W
    BY <1>2, <2>2
  <2>7. "donor" \in W => donate.pc # "wait"
    BY <1>2
  <2> QED BY <1>2, <1>3, <2>1, <2>2, <2>3, <2>4, <2>5, <2>6, <2>7, CleanUpStep
<1> QED BY <1>4, <1>5

\* A deletion joins the queue.
LEMMA PushStep ==
    ASSUME BasicInv, NEW r \in Ranges, NEW W \in SUBSET Waiters, metadata # <<>>,
           queue' = PushRange(queue, r, FALSE, W), metadata' = metadata,
           RestOK', OneMigration', config' = config, deleter' = deleter,
           "recv" \in W => recv.pc # "wait", "donor" \in W => donate.pc # "wait",
           recv'.pc = "wait" <=> recv.pc = "wait" \/ "recv" \in W,
           donate'.pc = "wait" <=> donate.pc = "wait" \/ "donor" \in W
    PROVE  BasicInv'
<1>1. /\ StateOK /\ RestOK /\ DeleterInv /\ EmptyInv
      /\ WillRun(queue, deleter.pc # "idle")
      /\ OneWaits(metadata, queue, "recv") /\ OneWaits(metadata, queue, "donor")
      /\ SomeWaits(metadata, queue, "recv") <=> recv.pc = "wait"
      /\ SomeWaits(metadata, queue, "donor") <=> donate.pc = "wait"
  BY BasicFacts
<1>2. metadata \in Seq(Trackers) /\ Sorted(metadata) /\ queue \in QueueStates
  BY <1>1, ShapeFacts
<1> DEFINE x == [range |-> r, later |-> FALSE, waiters |-> W]
<1>3. x \in Deletion /\ queue' = Add(queue, <<x>>) /\ x.waiters = W
  BY DEF Deletion, PushRange
<1> HIDE DEF x
<1>4. /\ queue' \in QueueStates /\ HeadKept(queue, queue')
      /\ \A busy \in BOOLEAN : WillRun(queue, busy) => WillRun(queue', busy)
      /\ \A w : QHas(queue', w) <=> QHas(queue, w) \/ w \in W
      /\ \A w : QOne(queue, w) /\ ~(QHas(queue, w) /\ w \in W) => QOne(queue', w)
  <2> DEFINE p == Add(queue, <<x>>)
  <2>1. /\ p \in QueueStates /\ HeadKept(queue, p)
        /\ \A busy \in BOOLEAN : WillRun(queue, busy) => WillRun(p, busy)
        /\ \A w : QHas(p, w) <=> QHas(queue, w) \/ w \in x.waiters
        /\ \A w : QOne(queue, w) /\ ~(QHas(queue, w) /\ w \in x.waiters) => QOne(p, w)
    BY <1>2, <1>3, PushOne
  <2>2. queue' = p
    BY <1>3
  <2> HIDE DEF p
  <2> QED BY <1>3, <2>1, <2>2
<1>5. metadata' \in Seq(Trackers') /\ Sorted(metadata')
  <2>1. Trackers' = Trackers
    BY DEF Trackers
  <2> QED BY <1>2, <2>1
<1>6. DeleterInv' /\ EmptyInv'
  BY <1>1, <1>4 DEF DeleterInv, HeadKept, EmptyInv
<1>7. WillRun(queue', deleter'.pc # "idle")
  BY <1>1, <1>4
<1>8. \A w : SomeWaits(metadata', queue', w) <=> SomeWaits(metadata, queue, w) \/ w \in W
  BY <1>4 DEF SomeWaits
<1>9. \A w : OneWaits(metadata, queue, w) /\ ~(SomeWaits(metadata, queue, w) /\ w \in W)
             => OneWaits(metadata', queue', w)
  BY <1>4 DEF SomeWaits, OneWaits
<1>10. /\ OneWaits(metadata', queue', "recv") /\ OneWaits(metadata', queue', "donor")
       /\ SomeWaits(metadata', queue', "recv") <=> recv'.pc = "wait"
       /\ SomeWaits(metadata', queue', "donor") <=> donate'.pc = "wait"
  BY <1>1, <1>8, <1>9
<1> QED BY <1>4, <1>5, <1>6, <1>7, <1>10, Assemble

\* A migration to this shard begins with the deletion of what is left of the range.
LEMMA BeginReceiveBasic ==
    ASSUME BasicInv, NEW r \in Ranges, BeginReceive(r)
    PROVE  BasicInv'
<1>1. RestOK /\ OneMigration
  BY BasicFacts
<1>2. /\ metadata # <<>> /\ recv.pc = "idle" /\ donate.pc = "idle"
      /\ receiving' = receiving \cup {r} /\ recv' = [pc |-> "wait", range |-> r]
      /\ queue' = PushRange(queue, r, FALSE, {"recv"})
      /\ UNCHANGED <<config, known, clears, metadata, held, deleter, arrived, donate, docs>>
  BY DEF BeginReceive, NoMigration
<1>3. RestOK' /\ OneMigration'
  BY <1>1, <1>2 DEF RestOK, OneMigration
<1> DEFINE W == {"recv"}
<1>4. /\ "recv" \in W /\ "donor" \notin W /\ W \in SUBSET Waiters
      /\ queue' = PushRange(queue, r, FALSE, W)
  BY <1>2 DEF Waiters
<1>5. recv'.pc = "wait"
  BY <1>2
<1> HIDE DEF W
<1> QED BY <1>2, <1>3, <1>4, <1>5, PushStep

\* A migration that failed leaves its documents to the deleter.
LEMMA ForgetBasic ==
    ASSUME BasicInv, Forget
    PROVE  BasicInv'
<1>1. RestOK /\ OneMigration /\ DeleterInv /\ EmptyInv
  BY BasicFacts
<1>2. /\ recv.pc = "forget" /\ recv' = NoRecv
      /\ UNCHANGED <<config, known, clears, metadata, held, deleter, arrived, donate, docs>>
  BY DEF Forget
<1>3. recv.range \in Ranges /\ recv'.pc = "idle"
  BY <1>1, <1>2 DEF OneMigration, NoRecv
<1>4. CASE metadata = <<>>
  <2>1. UNCHANGED <<receiving, queue>>
    BY <1>4 DEF Forget
  <2>2. RestOK' /\ OneMigration'
    BY <1>1, <1>2, <2>1 DEF RestOK, OneMigration, NoRecv
  <2>3. DeleterInv' /\ EmptyInv' /\ Trackers \subseteq Trackers'
    BY <1>1, <1>2, <2>1 DEF DeleterInv, EmptyInv, Trackers
  <2> QED BY <1>2, <1>3, <2>1, <2>2, <2>3, QuietStep
<1>5. CASE metadata # <<>>
  <2> DEFINE W == {}
  <2>1. /\ receiving' = receiving \ {recv.range}
        /\ queue' = PushRange(queue, recv.range, FALSE, W)
    BY <1>5 DEF Forget
  <2>2. RestOK' /\ OneMigration'
    BY <1>1, <1>2, <2>1 DEF RestOK, OneMigration, NoRecv
  <2>3. "recv" \notin W /\ "donor" \notin W /\ W \in SUBSET Waiters
    OBVIOUS
  <2> HIDE DEF W
  <2> QED BY <1>2, <1>3, <1>5, <2>1, <2>2, <2>3, PushStep
<1> QED BY <1>4, <1>5

\* A step in which only waiters come and go.
LEMMA AlikeStep ==
    ASSUME BasicInv, AlikeAll, RestOK', OneMigration', config' = config, deleter' = deleter,
           receiving' = receiving,
           OneWaits(metadata', queue', "recv"), OneWaits(metadata', queue', "donor"),
           SomeWaits(metadata', queue', "recv") <=> recv'.pc = "wait",
           SomeWaits(metadata', queue', "donor") <=> donate'.pc = "wait"
    PROVE  BasicInv'
<1>1. /\ StateOK /\ DeleterInv /\ EmptyInv /\ WillRun(queue, deleter.pc # "idle")
  BY BasicFacts
<1>2. /\ metadata' \in Seq(Trackers') /\ Sorted(metadata') /\ queue' \in QueueStates
      /\ metadata' = <<>> <=> metadata = <<>>
      /\ queue'.orphans = <<>> <=> queue.orphans = <<>>
      /\ queue'.delayed = <<>> <=> queue.delayed = <<>>
      /\ queue.orphans # <<>> => Head(queue'.orphans).range = Head(queue.orphans).range
      /\ \A busy : WillRun(queue, busy) => WillRun(queue', busy)
  BY <1>1, AlikeKeeps
<1>3. DeleterInv' /\ EmptyInv'
  BY <1>1, <1>2 DEF DeleterInv, EmptyInv
<1>4. WillRun(queue', deleter'.pc # "idle")
  BY <1>1, <1>2
<1> QED BY <1>2, <1>3, <1>4, Assemble

\* waitForClean looks for another deletion of the range.
LEMMA WaitForCleanBasic ==
    ASSUME BasicInv, WaitForClean
    PROVE  BasicInv'
<1>1. /\ StateOK /\ RestOK /\ OneMigration /\ DeleterInv /\ EmptyInv
      /\ OneWaits(metadata, queue, "donor")
      /\ SomeWaits(metadata, queue, "recv") <=> recv.pc = "wait"
      /\ SomeWaits(metadata, queue, "donor") <=> donate.pc = "wait"
  BY BasicFacts
<1>2. /\ recv.pc = "clean"
      /\ UNCHANGED <<config, known, clears, held, receiving, deleter, arrived, donate, docs>>
  BY DEF WaitForClean
<1>3. donate.pc = "idle" /\ recv.range \in Ranges
  BY <1>1, <1>2 DEF OneMigration
<1>4. CASE Track(recv.range) /\ recv' = [recv EXCEPT !.pc = "wait"]
  <2>1. RestOK' /\ OneMigration' /\ recv'.pc = "wait"
    BY <1>1, <1>2, <1>3, <1>4 DEF RestOK, OneMigration
  <2>2. /\ AlikeAll
        /\ SomeWaits(metadata', queue', "recv")
        /\ ~SomeWaits(metadata, queue, "recv") => OneWaits(metadata', queue', "recv")
        /\ \A v : v # "recv" => /\ SomeWaits(metadata', queue', v) <=> SomeWaits(metadata, queue, v)
                                /\ OneWaits(metadata, queue, v) => OneWaits(metadata', queue', v)
    BY <1>1, <1>4, TrackShape
  <2>3. OneWaits(metadata', queue', "recv")
    BY <1>1, <1>2, <2>2
  <2>4. OneWaits(metadata', queue', "donor") /\ (SomeWaits(metadata', queue', "donor") <=> donate'.pc = "wait")
    BY <1>1, <1>2, <2>2
  <2> QED BY <1>2, <2>1, <2>2, <2>3, <2>4, AlikeStep
<1>5. CASE UNCHANGED <<metadata, queue>> /\ (recv' = NoRecv \/ recv' = [recv EXCEPT !.pc = "clone"])
  <2>1. RestOK' /\ OneMigration' /\ recv'.pc # "wait"
    BY <1>1, <1>2, <1>3, <1>5 DEF RestOK, OneMigration, NoRecv
  <2>2. DeleterInv' /\ EmptyInv' /\ Trackers \subseteq Trackers'
    BY <1>1, <1>2, <1>5 DEF DeleterInv, EmptyInv, Trackers
  <2> QED BY <1>2, <1>5, <2>1, <2>2, QuietStep
<1> QED BY <1>4, <1>5 DEF WaitForClean

\* A thread that waits is interrupted.
LEMMA InterruptBasic ==
    ASSUME BasicInv, NEW w \in Waiters, Interrupt(w)
    PROVE  BasicInv'
<1>1. /\ StateOK /\ RestOK /\ OneMigration
      /\ OneWaits(metadata, queue, "recv") /\ OneWaits(metadata, queue, "donor")
      /\ SomeWaits(metadata, queue, "recv") <=> recv.pc = "wait"
      /\ SomeWaits(metadata, queue, "donor") <=> donate.pc = "wait"
  BY BasicFacts
<1>2. /\ queue' = [queue EXCEPT !.orphans = Unawaited(@, w), !.delayed = Unawaited(@, w)]
      /\ metadata' = [i \in DOMAIN metadata |-> [metadata[i] EXCEPT !.orphans = Unawaited(@, w)]]
      /\ UNCHANGED <<config, known, clears, held, receiving, deleter, arrived, docs>>
      /\ \/ w = "recv" /\ recv.pc = "wait" /\ recv' = NoRecv /\ donate' = donate
         \/ w = "donor" /\ donate.pc = "wait" /\ donate' = [donate EXCEPT !.pc = "leave"]
            /\ recv' = recv
  BY DEF Interrupt
<1>3. /\ AlikeAll
      /\ ~SomeWaits(metadata', queue', w) /\ OneWaits(metadata', queue', w)
      /\ \A v : v # w => /\ SomeWaits(metadata', queue', v) <=> SomeWaits(metadata, queue, v)
                         /\ OneWaits(metadata, queue, v) => OneWaits(metadata', queue', v)
  BY <1>1, <1>2, InterruptShape
<1>4. CASE w = "recv" /\ recv.pc = "wait" /\ recv' = NoRecv /\ donate' = donate
  <2>1. RestOK' /\ OneMigration' /\ recv'.pc = "idle"
    BY <1>1, <1>2, <1>4 DEF RestOK, OneMigration, NoRecv
  <2>2. /\ OneWaits(metadata', queue', "recv") /\ OneWaits(metadata', queue', "donor")
        /\ SomeWaits(metadata', queue', "recv") <=> recv'.pc = "wait"
        /\ SomeWaits(metadata', queue', "donor") <=> donate'.pc = "wait"
    BY <1>1, <1>3, <1>4, <2>1
  <2> QED BY <1>2, <1>3, <2>1, <2>2, AlikeStep
<1>5. CASE w = "donor" /\ donate.pc = "wait" /\ donate' = [donate EXCEPT !.pc = "leave"]
           /\ recv' = recv
  <2>1. RestOK'
    BY <1>1, <1>2, <1>5 DEF RestOK
  <2>2. OneMigration' /\ donate'.pc = "leave"
    BY <1>1, <1>2, <1>5 DEF RestOK, OneMigration
  <2>3. /\ OneWaits(metadata', queue', "recv") /\ OneWaits(metadata', queue', "donor")
        /\ SomeWaits(metadata', queue', "recv") <=> recv'.pc = "wait"
        /\ SomeWaits(metadata', queue', "donor") <=> donate'.pc = "wait"
    BY <1>1, <1>3, <1>5, <2>2
  <2> QED BY <1>2, <1>3, <2>1, <2>2, <2>3, AlikeStep
<1> QED BY <1>2, <1>4, <1>5

\* Whoever waits for one of the deletions goes on, and nobody else.
LEMMA NotifyFacts ==
    ASSUME RestOK, OneMigration, NEW D, NEW ok \in BOOLEAN, Notify(D, ok),
           Waits("recv", D) => recv.pc = "wait", Waits("donor", D) => donate.pc = "wait"
    PROVE  /\ recv' \in [pc : {"idle", "wait", "clean", "clone", "steady", "forget"},
                         range : Ranges \cup {None}]
           /\ donate' \in [pc : {"idle", "refresh", "check", "cleanup", "wait", "leave"},
                           range : Ranges \cup {None}, version : 0 .. MaxVersion]
           /\ OneMigration'
           /\ Waits("recv", D) => recv'.pc # "wait"
           /\ ~Waits("recv", D) => recv' = recv
           /\ Waits("recv", D) => recv' = IF ok THEN [recv EXCEPT !.pc = "clean"] ELSE NoRecv
           /\ Waits("donor", D) => donate'.pc # "wait"
           /\ ~Waits("donor", D) => donate' = donate
<1>1. /\ Waits("recv", D) => recv' = IF ok THEN [recv EXCEPT !.pc = "clean"] ELSE NoRecv
      /\ ~Waits("recv", D) => recv' = recv
      /\ Waits("donor", D) => donate' = [donate EXCEPT !.pc = "leave"]
      /\ ~Waits("donor", D) => donate' = donate
  BY DEF Notify
<1>2. /\ recv' \in [pc : {"idle", "wait", "clean", "clone", "steady", "forget"},
                    range : Ranges \cup {None}]
      /\ recv'.pc # "idle" => recv.pc # "idle" /\ recv'.range = recv.range
      /\ Waits("recv", D) => recv'.pc # "wait"
  BY <1>1 DEF RestOK, NoRecv
<1>3. /\ donate' \in [pc : {"idle", "refresh", "check", "cleanup", "wait", "leave"},
                      range : Ranges \cup {None}, version : 0 .. MaxVersion]
      /\ donate'.pc # "idle" => donate.pc # "idle" /\ donate'.range = donate.range
      /\ Waits("donor", D) => donate'.pc # "wait"
  BY <1>1 DEF RestOK
<1>4. OneMigration'
  BY <1>2, <1>3 DEF OneMigration
<1> QED BY <1>1, <1>2, <1>3, <1>4

\* A clear of the metadata.
LEMMA ClearBasic ==
    ASSUME BasicInv, Clear \/ DonateRefreshFails
    PROVE  BasicInv'
<1>1. /\ StateOK /\ RestOK /\ OneMigration /\ DeleterInv /\ EmptyInv
      /\ SomeWaits(metadata, queue, "recv") <=> recv.pc = "wait"
      /\ SomeWaits(metadata, queue, "donor") <=> donate.pc = "wait"
  BY BasicFacts
<1>2. /\ deleter.pc # "delete" /\ clears < MaxClears /\ clears' = clears + 1
      /\ receiving' = {} /\ metadata' = <<>>
      /\ queue' = [queue EXCEPT !.orphans = <<>>, !.delayed = <<>>]
      /\ deleter' = [deleter EXCEPT !.gone = deleter.pc = "replicate"]
      /\ UNCHANGED <<config, known, held, arrived, docs>>
  BY DEF Clear, DonateRefreshFails, CollectionFree, ClearMetadata, Abandon
<1>3. /\ OneMigration' /\ recv'.pc # "wait" /\ donate'.pc # "wait"
      /\ recv' \in [pc : {"idle", "wait", "clean", "clone", "steady", "forget"},
                    range : Ranges \cup {None}]
      /\ donate' \in [pc : {"idle", "refresh", "check", "cleanup", "wait", "leave"},
                      range : Ranges \cup {None}, version : 0 .. MaxVersion]
  <2>1. CASE Clear
    <3>1. Notify(AllDeletions, FALSE)
      BY <2>1 DEF Clear
    <3>2. /\ Waits("recv", AllDeletions) <=> recv.pc = "wait"
          /\ Waits("donor", AllDeletions) <=> donate.pc = "wait"
      BY <1>1, AllWaits
    <3>3. /\ recv' \in [pc : {"idle", "wait", "clean", "clone", "steady", "forget"},
                        range : Ranges \cup {None}]
          /\ donate' \in [pc : {"idle", "refresh", "check", "cleanup", "wait", "leave"},
                          range : Ranges \cup {None}, version : 0 .. MaxVersion]
          /\ OneMigration'
          /\ Waits("recv", AllDeletions) => recv'.pc # "wait"
          /\ ~Waits("recv", AllDeletions) => recv' = recv
          /\ Waits("donor", AllDeletions) => donate'.pc # "wait"
          /\ ~Waits("donor", AllDeletions) => donate' = donate
      BY <1>1, <3>1, <3>2, NotifyFacts
    <3> QED BY <3>2, <3>3
  <2>2. CASE DonateRefreshFails
    <3>1. donate.pc = "refresh" /\ donate' = NoDonation /\ recv' = recv
      BY <2>2 DEF DonateRefreshFails
    <3>2. recv.pc = "idle"
      BY <1>1, <3>1 DEF OneMigration
    <3> QED BY <1>1, <3>1, <3>2, RangeAssumption DEF RestOK, OneMigration, NoDonation
  <2> QED BY <2>1, <2>2
<1>4. /\ queue' \in QueueStates /\ queue'.orphans = <<>> /\ queue'.delayed = <<>>
  <2>1. queue \in QueueStates /\ <<>> \in Seq(Deletion)
    BY <1>1, ShapeFacts
  <2> QED BY <1>2, <2>1 DEF QueueStates
<1>5. /\ deleter' \in [pc : {"idle", "delete", "replicate"}, range : Ranges \cup {None},
                       gone : BOOLEAN]
      /\ deleter'.pc = deleter.pc /\ (deleter'.gone <=> deleter.pc = "replicate")
  BY <1>1, <1>2 DEF RestOK
<1>6. RestOK'
  <2>1. clears' \in 0 .. MaxClears
    BY <1>1, <1>2, RangeAssumption DEF RestOK
  <2> QED BY <1>1, <1>2, <1>3, <1>5, <2>1 DEF RestOK
<1>7. DeleterInv'
  BY <1>1, <1>2, <1>5 DEF DeleterInv, RestOK
<1>8. EmptyInv' /\ WillRun(queue', deleter'.pc # "idle")
  BY <1>2, <1>4 DEF EmptyInv, WillRun
<1>9. metadata' \in Seq(Trackers') /\ Sorted(metadata') /\ \A i \in DOMAIN metadata' : FALSE
  BY <1>2 DEF Sorted
<1>10. \A w : ~SomeWaits(metadata', queue', w) /\ OneWaits(metadata', queue', w)
  BY <1>4, <1>9, NobodyWaits
<1> QED BY <1>3, <1>4, <1>6, <1>7, <1>8, <1>9, <1>10, Assemble

\* A step of the deleter that leaves the trackers and what is queued alone.
LEMMA TaskStep ==
    ASSUME BasicInv, RestOK', OneMigration', DeleterInv', config' = config, metadata' = metadata,
           receiving' = receiving, queue' \in QueueStates,
           queue'.orphans = queue.orphans, queue'.delayed = queue.delayed,
           WillRun(queue', deleter'.pc # "idle"), recv' = recv, donate' = donate
    PROVE  BasicInv'
<1>1. /\ StateOK /\ EmptyInv
      /\ WaitInv("recv", recv.pc = "wait") /\ WaitInv("donor", donate.pc = "wait")
  BY BasicFacts
<1>2. metadata \in Seq(Trackers) /\ Sorted(metadata) /\ Trackers' = Trackers
  BY <1>1, ShapeFacts DEF Trackers
<1>3. EmptyInv'
  BY <1>1 DEF EmptyInv
<1>4. OneWaits(metadata', queue', "recv") /\ (SomeWaits(metadata', queue', "recv") <=> recv.pc = "wait")
  BY <1>1, SameWaits
<1>5. OneWaits(metadata', queue', "donor") /\ (SomeWaits(metadata', queue', "donor") <=> donate.pc = "wait")
  BY <1>1, SameWaits
<1> QED BY <1>2, <1>3, <1>4, <1>5, Assemble

\* A task that finds nothing to do.
LEMMA TaskEndsBasic ==
    ASSUME BasicInv, NEW t \in {"now", "later"}, TaskEnds(t)
    PROVE  BasicInv'
<1>1. /\ StateOK /\ RestOK /\ OneMigration /\ DeleterInv /\ EmptyInv
  BY BasicFacts
<1>2. queue \in QueueStates /\ queue.tasks \in SUBSET {"now", "later"}
  BY <1>1, ShapeFacts
<1>3. /\ queue.orphans = <<>>
      /\ \/ (metadata = <<>> \/ queue.delayed = <<>>) /\ queue' = [queue EXCEPT !.tasks = @ \ {t}]
         \/ /\ metadata # <<>> /\ queue.delayed # <<>>
            /\ queue' = [[queue EXCEPT !.tasks = @ \ {t}] EXCEPT !.tasks = @ \cup {"later"}]
      /\ UNCHANGED <<config, known, clears, metadata, held, receiving, deleter, recv,
                     arrived, donate, docs>>
  BY DEF TaskEnds, Unscheduled
<1>4. /\ queue' \in QueueStates /\ queue'.orphans = queue.orphans /\ queue'.delayed = queue.delayed
      /\ queue.delayed # <<>> /\ metadata # <<>> => queue'.tasks # {}
  BY <1>2, <1>3 DEF QueueStates
<1>5. WillRun(queue', deleter'.pc # "idle")
  BY <1>1, <1>3, <1>4 DEF WillRun, EmptyInv
<1>6. RestOK' /\ OneMigration' /\ DeleterInv'
  BY <1>1, <1>3, <1>4 DEF RestOK, OneMigration, DeleterInv
<1> QED BY <1>3, <1>4, <1>5, <1>6, TaskStep

\* A task that begins with the first deletion.
LEMMA TaskDeletesBasic ==
    ASSUME BasicInv, NEW t \in {"now", "later"}, TaskDeletes(t)
    PROVE  BasicInv'
<1>1. /\ StateOK /\ RestOK /\ OneMigration
  BY BasicFacts
<1>2. queue \in QueueStates /\ queue.orphans \in Seq(Deletion) /\ queue.tasks \in SUBSET {"now", "later"}
  BY <1>1, ShapeFacts
<1>3. /\ queue.orphans # <<>> /\ queue' = [queue EXCEPT !.tasks = @ \ {t}]
      /\ deleter' = [pc |-> "delete", range |-> Head(queue.orphans).range, gone |-> FALSE]
      /\ UNCHANGED <<config, known, clears, metadata, held, receiving, recv, arrived, donate, docs>>
  BY DEF TaskDeletes, Begin
<1>4. queue' \in QueueStates /\ queue'.orphans = queue.orphans /\ queue'.delayed = queue.delayed
  BY <1>2, <1>3 DEF QueueStates
<1>5. Head(queue.orphans).range \in Ranges
  <2>1. Head(queue.orphans) \in Deletion
    BY <1>2, <1>3
  <2> QED BY <2>1 DEF Deletion
<1>6. RestOK' /\ OneMigration'
  BY <1>1, <1>3, <1>5 DEF RestOK, OneMigration
<1>7. DeleterInv' /\ WillRun(queue', deleter'.pc # "idle")
  BY <1>3, <1>4 DEF DeleterInv, WillRun
<1> QED BY <1>3, <1>4, <1>6, <1>7, TaskStep

\* A task that begins with a deletion that was for later.
LEMMA TaskMovesBasic ==
    ASSUME BasicInv, NEW t \in {"now", "later"}, TaskMoves(t)
    PROVE  BasicInv'
<1>1. /\ StateOK /\ RestOK /\ OneMigration /\ EmptyInv
      /\ OneWaits(metadata, queue, "recv") /\ OneWaits(metadata, queue, "donor")
      /\ SomeWaits(metadata, queue, "recv") <=> recv.pc = "wait"
      /\ SomeWaits(metadata, queue, "donor") <=> donate.pc = "wait"
  BY BasicFacts
<1>2. /\ queue \in QueueStates /\ queue.delayed \in Seq(Deletion)
      /\ queue.tasks \in SUBSET {"now", "later"}
      /\ metadata \in Seq(Trackers) /\ Sorted(metadata) /\ Trackers' = Trackers
  <2>1. Trackers' = Trackers
    BY DEF Trackers, TaskMoves, Begin
  <2> QED BY <1>1, <2>1, ShapeFacts
<1> DEFINE d == Head(queue.delayed)
<1>3. /\ queue.orphans = <<>> /\ queue.delayed # <<>> /\ metadata # <<>>
      /\ queue' = [[queue EXCEPT !.orphans = <<d>>, !.delayed = Tail(@)] EXCEPT !.tasks = @ \ {t}]
      /\ deleter' = [pc |-> "delete", range |-> d.range, gone |-> FALSE]
      /\ UNCHANGED <<config, known, clears, metadata, held, receiving, recv, arrived, donate, docs>>
  BY DEF TaskMoves, Begin
<1>4. \A w : /\ d \in Deletion /\ Tail(queue.delayed) \in Seq(Deletion)
             /\ Has(queue.delayed, w) <=> Has(Tail(queue.delayed), w) \/ w \in d.waiters
             /\ One(queue.delayed, w) =>
                   One(Tail(queue.delayed), w) /\ ~(Has(Tail(queue.delayed), w) /\ w \in d.waiters)
  BY <1>2, <1>3, TailWaits
<1> HIDE DEF d
<1>5. d \in Deletion /\ Tail(queue.delayed) \in Seq(Deletion)
  BY <1>4
<1>6. /\ queue' \in QueueStates /\ queue'.orphans = <<d>> /\ queue'.delayed = Tail(queue.delayed)
  <2> DEFINE o == <<d>>
             e == Tail(queue.delayed)
  <2>1. o \in Seq(Deletion) /\ e \in Seq(Deletion)
    BY <1>5
  <2>2. queue' = [[queue EXCEPT !.orphans = o, !.delayed = e] EXCEPT !.tasks = @ \ {t}]
    BY <1>3
  <2> HIDE DEF o, e
  <2>3. queue' \in QueueStates /\ queue'.orphans = o /\ queue'.delayed = e
    BY <1>2, <2>1, <2>2 DEF QueueStates
  <2> QED BY <2>3 DEF o, e
<1>7. \A w : (Has(<<d>>, w) <=> w \in d.waiters) /\ One(<<d>>, w)
  BY <1>5 DEF Has, One
<1>8. RestOK' /\ OneMigration'
  BY <1>1, <1>3, <1>5 DEF RestOK, OneMigration, Deletion
<1>9. DeleterInv' /\ WillRun(queue', deleter'.pc # "idle") /\ EmptyInv'
  <2>1. Head(<<d>>) = d /\ <<d>> # <<>>
    OBVIOUS
  <2> QED BY <1>3, <1>6, <2>1 DEF DeleterInv, WillRun, EmptyInv
<1>10. \A w : ~Has(queue.orphans, w)
  BY <1>3, EmptyWaits
<1>11. \A w : QHas(queue', w) <=> QHas(queue, w)
  BY <1>4, <1>6, <1>7, <1>10 DEF QHas
<1>12. \A w : QOne(queue, w) => QOne(queue', w)
  BY <1>4, <1>6, <1>7 DEF QOne
<1>13. \A w : (SomeWaits(metadata', queue', w) <=> SomeWaits(metadata, queue, w)) /\
              (OneWaits(metadata, queue, w) => OneWaits(metadata', queue', w))
  BY <1>3, <1>11, <1>12 DEF SomeWaits, OneWaits
<1>14. /\ OneWaits(metadata', queue', "recv") /\ OneWaits(metadata', queue', "donor")
       /\ SomeWaits(metadata', queue', "recv") <=> recv'.pc = "wait"
       /\ SomeWaits(metadata', queue', "donor") <=> donate'.pc = "wait"
  BY <1>1, <1>3, <1>13
<1> QED BY <1>2, <1>3, <1>6, <1>8, <1>9, <1>14, Assemble

\* A task that gives every deletion up.
LEMMA TaskGivesUpBasic ==
    ASSUME BasicInv, NEW t \in {"now", "later"}, TaskGivesUp(t)
    PROVE  BasicInv'
<1>1. /\ StateOK /\ RestOK /\ OneMigration /\ DeleterInv /\ EmptyInv
      /\ SomeWaits(metadata, queue, "recv") <=> recv.pc = "wait"
      /\ SomeWaits(metadata, queue, "donor") <=> donate.pc = "wait"
  BY BasicFacts
<1>2. /\ queue \in QueueStates /\ queue.tasks \in SUBSET {"now", "later"}
      /\ metadata \in Seq(Trackers) /\ Sorted(metadata)
      /\ Len(metadata) \in Nat /\ DOMAIN metadata = 1 .. Len(metadata)
      /\ \A i \in DOMAIN metadata : metadata[i] \in Trackers
  BY <1>1, ShapeFacts
<1>3. /\ deleter.pc = "idle" /\ metadata # <<>> /\ queue.orphans = <<>>
      /\ Notify(AllDeletions, FALSE)
      /\ queue' = [[queue EXCEPT !.tasks = @ \ {t}] EXCEPT !.delayed = <<>>]
      /\ metadata' = [i \in DOMAIN metadata |-> [metadata[i] EXCEPT !.orphans = <<>>]]
      /\ UNCHANGED <<config, known, clears, held, receiving, deleter, arrived, docs>>
  BY DEF TaskGivesUp, Unscheduled
<1>4. /\ Waits("recv", AllDeletions) <=> recv.pc = "wait"
      /\ Waits("donor", AllDeletions) <=> donate.pc = "wait"
  BY <1>1, AllWaits
<1>5. /\ recv' \in [pc : {"idle", "wait", "clean", "clone", "steady", "forget"},
                    range : Ranges \cup {None}]
      /\ donate' \in [pc : {"idle", "refresh", "check", "cleanup", "wait", "leave"},
                      range : Ranges \cup {None}, version : 0 .. MaxVersion]
      /\ OneMigration'
      /\ Waits("recv", AllDeletions) => recv'.pc # "wait"
      /\ ~Waits("recv", AllDeletions) => recv' = recv
      /\ Waits("donor", AllDeletions) => donate'.pc # "wait"
      /\ ~Waits("donor", AllDeletions) => donate' = donate
  BY <1>1, <1>3, <1>4, NotifyFacts
<1>6. recv'.pc # "wait" /\ donate'.pc # "wait"
  BY <1>4, <1>5
<1>7. queue' \in QueueStates /\ queue'.orphans = <<>> /\ queue'.delayed = <<>>
  BY <1>2, <1>3 DEF QueueStates
<1>8. /\ DOMAIN metadata' = DOMAIN metadata /\ metadata' = [i \in 1 .. Len(metadata) |-> metadata'[i]]
      /\ \A i \in DOMAIN metadata : metadata'[i] = [metadata[i] EXCEPT !.orphans = <<>>]
  BY <1>2, <1>3
<1>9. \A i \in DOMAIN metadata : /\ metadata'[i] \in Trackers /\ metadata'[i].orphans = <<>>
                                 /\ metadata'[i].id = metadata[i].id
  <2>1. <<>> \in Seq(Deletion)
    OBVIOUS
  <2> QED BY <1>2, <1>8, <2>1 DEF Trackers
<1>10. metadata' \in Seq(Trackers') /\ Len(metadata') = Len(metadata)
  <2>1. Trackers' = Trackers
    BY <1>3 DEF Trackers
  <2>2. \A i \in 1 .. Len(metadata) : metadata'[i] \in Trackers'
    BY <1>2, <1>9, <2>1
  <2> QED BY <1>2, <1>8, <2>2, SeqOfFunction
<1>11. Sorted(metadata')
  BY <1>2, <1>8, <1>9 DEF Sorted
<1>12. \A w : ~SomeWaits(metadata', queue', w) /\ OneWaits(metadata', queue', w)
  BY <1>7, <1>8, <1>9, NobodyWaits
<1>13. metadata' # <<>>
  BY <1>2, <1>3, <1>10
<1>14. RestOK'
  BY <1>1, <1>3, <1>5 DEF RestOK
<1>15. DeleterInv' /\ EmptyInv' /\ WillRun(queue', deleter'.pc # "idle")
  BY <1>1, <1>3, <1>7, <1>13 DEF DeleterInv, EmptyInv, WillRun
<1> QED BY <1>5, <1>6, <1>7, <1>10, <1>11, <1>12, <1>14, <1>15, Assemble

\* The first deletion ends, one way or another.
LEMMA PopStep ==
    ASSUME BasicInv, queue.orphans # <<>>, NEW ok \in BOOLEAN, queue' = Pop(queue),
           Notify({Head(queue.orphans)}, ok), deleter' = Idle, docs' \in SUBSET Ranges,
           UNCHANGED <<config, known, clears, metadata, held, receiving, arrived>>
    PROVE  BasicInv'
<1> DEFINE x == Head(queue.orphans)
<1>1. /\ StateOK /\ RestOK /\ OneMigration /\ EmptyInv
      /\ OneWaits(metadata, queue, "recv") /\ OneWaits(metadata, queue, "donor")
      /\ SomeWaits(metadata, queue, "recv") <=> recv.pc = "wait"
      /\ SomeWaits(metadata, queue, "donor") <=> donate.pc = "wait"
  BY BasicFacts
<1>2. /\ metadata \in Seq(Trackers) /\ Sorted(metadata) /\ Trackers' = Trackers
  BY <1>1, ShapeFacts DEF Trackers
<1>3. /\ queue' \in QueueStates
      /\ \A busy : WillRun(queue', busy)
      /\ \A w : SomeWaits(metadata, queue, w) <=> SomeWaits(metadata, queue', w) \/ Waits(w, {x})
      /\ \A w : OneWaits(metadata, queue, w) =>
                   /\ OneWaits(metadata, queue', w)
                   /\ ~(SomeWaits(metadata, queue', w) /\ Waits(w, {x}))
  BY <1>1, PopShape
<1> HIDE DEF x
<1>4. Notify({x}, ok)
  BY DEF x
<1>5. /\ recv' \in [pc : {"idle", "wait", "clean", "clone", "steady", "forget"},
                    range : Ranges \cup {None}]
      /\ donate' \in [pc : {"idle", "refresh", "check", "cleanup", "wait", "leave"},
                      range : Ranges \cup {None}, version : 0 .. MaxVersion]
      /\ OneMigration'
      /\ Waits("recv", {x}) => recv'.pc # "wait"
      /\ ~Waits("recv", {x}) => recv' = recv
      /\ Waits("donor", {x}) => donate'.pc # "wait"
      /\ ~Waits("donor", {x}) => donate' = donate
  BY <1>1, <1>3, <1>4, NotifyFacts
<1>6. RestOK' /\ deleter'.pc = "idle" /\ ~deleter'.gone
  BY <1>1, <1>5 DEF RestOK, Idle
<1>7. DeleterInv' /\ EmptyInv'
  <2>1. metadata # <<>>
    BY <1>1 DEF EmptyInv
  <2> QED BY <1>6, <2>1 DEF DeleterInv, EmptyInv
<1>8. WillRun(queue', deleter'.pc # "idle")
  BY <1>3
<1>9. /\ OneWaits(metadata', queue', "recv") /\ OneWaits(metadata', queue', "donor")
      /\ SomeWaits(metadata', queue', "recv") <=> recv'.pc = "wait"
      /\ SomeWaits(metadata', queue', "donor") <=> donate'.pc = "wait"
  <2>1. /\ OneWaits(metadata, queue', "recv") /\ OneWaits(metadata, queue', "donor")
        /\ SomeWaits(metadata, queue', "recv") <=> recv'.pc = "wait"
        /\ SomeWaits(metadata, queue', "donor") <=> donate'.pc = "wait"
    BY <1>1, <1>3, <1>5
  <2> QED BY <2>1
<1> QED BY <1>2, <1>3, <1>5, <1>6, <1>7, <1>8, <1>9, Assemble

\* A deletion has found nothing more, or failed.
LEMMA DeleteEndsBasic ==
    ASSUME BasicInv, NEW ok \in BOOLEAN, DeleteEnds(ok)
    PROVE  BasicInv'
<1>1. RestOK /\ DeleterInv
  BY BasicFacts
<1>2. /\ deleter.pc = "delete" /\ queue' = Pop(queue) /\ Notify({Head(queue.orphans)}, ok)
      /\ deleter' = Idle /\ docs' \in {docs} \cup (IF ok THEN {} ELSE {docs \ {deleter.range}})
      /\ UNCHANGED <<config, known, clears, metadata, held, receiving, arrived>>
  BY DEF DeleteEnds
<1>3. queue.orphans # <<>>
  BY <1>1, <1>2 DEF DeleterInv
<1>4. docs' \in SUBSET Ranges
  <2>1. docs' = docs \/ docs' = docs \ {deleter.range}
    BY <1>2
  <2> QED BY <1>1, <2>1 DEF RestOK
<1> QED BY <1>2, <1>3, <1>4, PopStep

\* The task goes on once the deletion is replicated.
LEMMA ReplicateBasic ==
    ASSUME BasicInv, deleter.pc = "replicate",
           queue' = [queue EXCEPT !.tasks = @ \cup {"now"}], deleter' = Idle,
           UNCHANGED <<config, known, clears, metadata, held, receiving, recv, arrived,
                       donate, docs>>
    PROVE  BasicInv'
<1>1. /\ StateOK /\ RestOK /\ OneMigration
  BY BasicFacts
<1>2. queue \in QueueStates /\ queue.tasks \in SUBSET {"now", "later"}
  BY <1>1, ShapeFacts
<1>3. /\ queue' \in QueueStates /\ queue'.orphans = queue.orphans
      /\ queue'.delayed = queue.delayed /\ "now" \in queue'.tasks
  BY <1>2 DEF QueueStates
<1>4. RestOK' /\ OneMigration'
  BY <1>1 DEF RestOK, OneMigration, Idle
<1>5. DeleterInv' /\ WillRun(queue', deleter'.pc # "idle")
  BY <1>3 DEF DeleterInv, WillRun, Idle
<1> QED BY <1>3, <1>4, <1>5, TaskStep

\* The deletion was not replicated in time.
LEMMA ReplicateFailsBasic ==
    ASSUME BasicInv, ReplicateFails
    PROVE  BasicInv'
<1>1. RestOK /\ DeleterInv
  BY BasicFacts
<1>2. /\ deleter.pc = "replicate" /\ deleter' = Idle
      /\ UNCHANGED <<config, known, clears, metadata, held, receiving, arrived, docs>>
  BY DEF ReplicateFails
<1>3. CASE deleter.gone
  <2>1. queue' = [queue EXCEPT !.tasks = @ \cup {"now"}] /\ UNCHANGED <<recv, donate>>
    BY <1>3 DEF ReplicateFails
  <2> QED BY <1>2, <2>1, ReplicateBasic
<1>4. CASE ~deleter.gone
  <2>1. queue' = Pop(queue) /\ Notify({Head(queue.orphans)}, FALSE)
    BY <1>4 DEF ReplicateFails
  <2>2. queue.orphans # <<>>
    BY <1>1, <1>2, <1>4 DEF DeleterInv
  <2>3. docs' \in SUBSET Ranges
    BY <1>1, <1>2 DEF RestOK
  <2> QED BY <1>2, <2>1, <2>2, <2>3, PopStep
<1> QED BY <1>3, <1>4

\* Every step preserves BasicInv, and so does a step that changes nothing.
LEMMA BasicStep ==
    BasicInv /\ [Next]_vars => BasicInv'
<1> SUFFICES ASSUME BasicInv, [Next]_vars PROVE BasicInv'
  OBVIOUS
<1>1. CASE \E q \in Queries : BeginQuery(q) \/ EndQuery(q)
  BY <1>1, BeginQueryBasic, EndQueryBasic
<1>2. CASE \E v \in DOMAIN config : Refresh(v) \/ DonateRefresh(v)
  BY <1>2, RefreshBasic, DonateRefreshBasic
<1>3. CASE Clear \/ DonateRefreshFails
  BY <1>3, ClearBasic
<1>4. CASE \E r \in Ranges : CleanupOrphaned(r) \/ DonateCommit(r) \/ BeginReceive(r) \/ RemoteCommit(r)
  BY <1>4, CleanupOrphanedBasic, DonateCommitBasic, BeginReceiveBasic, RemoteCommitBasic
<1>5. CASE Clone \/ Finish \/ RecvFail \/ Delete \/ \E r \in Ranges : RemoteAbort(r)
  BY <1>5, QuietStepsBasic
<1>6. CASE DonateCheck \/ DonateLeaves \/ DonateEnd
  BY <1>6, DonateCheckBasic, DonateEndBasic
<1>7. CASE \E later \in BOOLEAN : DonateCleanUp(later)
  BY <1>7, DonateCleanUpBasic
<1>8. CASE WaitForClean
  BY <1>8, WaitForCleanBasic
<1>9. CASE Forget
  BY <1>9, ForgetBasic
<1>10. CASE \E w \in Waiters : Interrupt(w)
  BY <1>10, InterruptBasic
<1>11. CASE \E t \in {"now", "later"} : Task(t)
  BY <1>11, TaskEndsBasic, TaskDeletesBasic, TaskMovesBasic, TaskGivesUpBasic DEF Task
<1>12. CASE Replicate
  BY <1>12, ReplicateBasic DEF Replicate
<1>13. CASE ReplicateFails
  BY <1>13, ReplicateFailsBasic
<1>14. CASE \E ok \in BOOLEAN : DeleteEnds(ok)
  BY <1>14, DeleteEndsBasic
<1>15. CASE Fails \/ UNCHANGED vars
  <2>1. UNCHANGED <<config, known, clears, metadata, held, receiving, queue, deleter, recv,
                    arrived, donate, docs>>
    BY <1>15 DEF Fails, vars
  <2>2. RestOK /\ OneMigration /\ DeleterInv /\ EmptyInv
    BY BasicFacts
  <2>3. RestOK' /\ OneMigration' /\ DeleterInv' /\ EmptyInv' /\ Trackers \subseteq Trackers'
    BY <2>1, <2>2 DEF RestOK, OneMigration, DeleterInv, EmptyInv, Trackers
  <2> QED BY <2>1, <2>3, QuietStep
<1> QED
  BY <1>1, <1>2, <1>3, <1>4, <1>5, <1>6, <1>7, <1>8, <1>9, <1>10, <1>11, <1>12, <1>13, <1>14,
     <1>15 DEF Next, Step

\* The shard begins with one map, and with nothing queued.
LEMMA BasicInit ==
    Init => BasicInv
<1> SUFFICES ASSUME Init PROVE BasicInv
  OBVIOUS
<1>1. /\ config = <<OwnedFirst>> /\ known = 1 /\ clears = 0
      /\ metadata = <<[id |-> <<0, 1>>, orphans |-> <<>>]>>
      /\ held = [h \in Holders |-> NoTracker]
      /\ receiving = {}
      /\ queue = [orphans |-> <<>>, delayed |-> <<>>, tasks |-> {}]
      /\ deleter = Idle /\ recv = NoRecv /\ arrived = {} /\ donate = NoDonation
      /\ docs = OwnedFirst
  BY DEF Init
<1>2. config \in Seq(SUBSET Ranges) /\ Len(config) = 1 /\ DOMAIN config = {1}
  BY <1>1, RangeAssumption
<1>3. Len(config) \in 1 .. MaxVersion /\ known \in DOMAIN config /\ clears \in 0 .. MaxClears
  BY <1>1, <1>2, RangeAssumption
<1>4. RestOK
  BY <1>1, <1>2, <1>3, RangeAssumption DEF RestOK, Idle, NoRecv, NoDonation
<1> DEFINE t == [id |-> <<0, 1>>, orphans |-> <<>>]
<1>5. t \in Trackers /\ t.orphans = <<>>
  <2>1. 0 \in 0 .. MaxClears /\ <<>> \in Seq(Deletion)
    BY RangeAssumption
  <2> QED BY <1>2, <2>1 DEF Trackers
<1>6. metadata = <<t>>
  BY <1>1
<1> HIDE DEF t
<1>7. metadata \in Seq(Trackers) /\ DOMAIN metadata = {1} /\ metadata[1] = t /\ metadata # <<>>
  BY <1>5, <1>6
<1>8. Sorted(metadata)
  BY <1>7 DEF Sorted
<1>9. queue \in QueueStates /\ queue.orphans = <<>> /\ queue.delayed = <<>>
  BY <1>1 DEF QueueStates
<1>10. StateOK
  BY <1>4, <1>7, <1>8, <1>9, TypeParts
<1>11. OneMigration /\ DeleterInv /\ EmptyInv /\ recv.pc # "wait" /\ donate.pc # "wait"
  BY <1>1, <1>7 DEF OneMigration, DeleterInv, EmptyInv, NoRecv, NoDonation, Idle
<1>12. WillRun(queue, deleter.pc # "idle")
  BY <1>9 DEF WillRun
<1>13. \A w : ~SomeWaits(metadata, queue, w) /\ OneWaits(metadata, queue, w)
  BY <1>5, <1>7, <1>9, NobodyWaits
<1> QED BY <1>10, <1>11, <1>12, <1>13 DEF BasicInv, WaitInv

\* The history variables are about ranges.
LEMMA AuxStep ==
    BasicInv /\ AuxOK /\ [Next]_vars => AuxOK'
<1> SUFFICES ASSUME BasicInv, AuxOK, [Next]_vars PROVE AuxOK'
  OBVIOUS
<1>1. arrived \in SUBSET Ranges /\ docs \in SUBSET Ranges
  BY BasicFacts DEF RestOK
<1>2. CASE Fails
  BY <1>2 DEF Fails, ForgetFails, DonateCleanUpFails, AuxOK, aux
<1>3. CASE UNCHANGED vars
  BY <1>3 DEF vars, aux, AuxOK
<1>4. CASE Step /\ UNCHANGED failed
  <2>1. CASE Clear \/ DonateRefreshFails
    BY <1>1, <1>4, <2>1 DEF Clear, DonateRefreshFails, ClearMetadata, AuxOK
  <2>2. CASE \E v \in DOMAIN config : Refresh(v) \/ DonateRefresh(v)
    BY <1>4, <2>2 DEF Refresh, DonateRefresh, Install, SetActive, Doubtful, AuxOK
  <2>3. CASE \E ok \in BOOLEAN : DeleteEnds(ok)
    BY <1>1, <1>4, <2>3 DEF DeleteEnds, AuxOK
  <2>4. CASE \E r \in Ranges : BeginReceive(r)
    BY <1>4, <2>4 DEF BeginReceive, AuxOK
  <2>5. CASE UNCHANGED aux
    BY <1>4, <2>5 DEF aux, AuxOK
  <2>6. CASE \E t \in {"now", "later"} : Task(t)
    <3>1. UNCHANGED aux
      BY <2>6 DEF Task, TaskEnds, TaskDeletes, TaskMoves, TaskGivesUp, Begin
    <3> QED BY <2>5, <3>1
  <2> QED
    BY <1>4, <2>1, <2>2, <2>3, <2>4, <2>5, <2>6
       DEF Step, BeginQuery, EndQuery, CleanupOrphaned, DonateCommit, RemoteCommit, RemoteAbort,
           DonateCheck, DonateLeaves, DonateEnd, DonateCleanUp, WaitForClean, Clone, Finish, RecvFail, Forget,
           Interrupt, Delete, Replicate, ReplicateFails
<1> QED BY <1>2, <1>3, <1>4 DEF Next

\* BasicInv is an invariant of the range deleter.
THEOREM BasicInvariance == Spec => []BasicInv
<1>1. Init => BasicInv
  BY BasicInit
<1>2. BasicInv /\ [Next]_vars => BasicInv'
  BY BasicStep
<1> QED BY <1>1, <1>2, PTL DEF Spec

\* The type invariant, with the order of the trackers.
THEOREM TypeCorrect == Spec => []TypeOK
<1>1. Init => AuxOK
  BY DEF Init, AuxOK
<1>2. BasicInv /\ AuxOK /\ [Next]_vars => AuxOK'
  BY AuxStep
<1>3. BasicInv /\ AuxOK => TypeOK
  BY AllTypes DEF BasicInv
<1> QED BY <1>1, <1>2, <1>3, BasicInvariance, PTL DEF Spec

\* While a deletion is queued a task runs or is scheduled, for now if it is due now, and a
\* thread that waits for a deletion waits for one that is still to come
\* (CollectionRangeDeleter::add, cleanUpNextRange and every place that notifies).
THEOREM NothingIsStranded == Spec => []NothingStranded
<1>1. BasicInv => NothingStranded
  <2> SUFFICES ASSUME BasicInv PROVE NothingStranded
    OBVIOUS
  <2>1. /\ WillRun(queue, deleter.pc # "idle")
        /\ SomeWaits(metadata, queue, "recv") <=> recv.pc = "wait"
        /\ SomeWaits(metadata, queue, "donor") <=> donate.pc = "wait"
    BY BasicFacts
  <2>2. Scheduled
    BY <2>1 DEF WillRun, Scheduled
  <2>3. Awaited
    BY <2>1, AllWaits DEF Awaited
  <2> QED BY <2>2, <2>3 DEF NothingStranded
<1> QED BY <1>1, BasicInvariance, PTL

-----------------------------------------------------------------------------
(***************************************************************************)
(* The second invariant: no deletion is for a range that is owned, in use  *)
(* or arriving, unless the range is exposed                                *)
(***************************************************************************)

\* What has arrived and is still protected.
Arriving == arrived \ exposed

\* Map v says of every range that is not exposed what the newest known map says of it,
\* and so does every map between the two.
Agrees(v) ==
    \A r \in Ranges \ exposed : \A w \in DOMAIN config :
       v <= w /\ w <= known => (r \in config[w] <=> r \in config[v])

\* Range r is neither owned nor arriving, and no map in use after tracker i has it, or it
\* is exposed.
Gone(r, i) ==
    r \notin exposed =>
       /\ r \notin config[known] /\ r \notin arrived
       /\ \A j \in DOMAIN metadata :
             i < j /\ (j = Len(metadata) \/ InUse(metadata[j])) => r \notin Owned(j)

\* The documents of r are being cloned, or have been and may be given up.
Cloning(r) ==
    recv.pc \in {"clone", "steady", "forget"} /\ recv.range = r /\ r \notin exposed

\* The maps this shard has installed, or will install: the active one agrees with the
\* newest known.  In those not installed yet a range that is arriving may come to the
\* shard, any other can only be given away.
VersionInv ==
    /\ metadata # <<>> => Active.id[2] <= known /\ Agrees(Active.id[2])
    /\ \A r \in Ranges \ exposed : \A v, w \in DOMAIN config :
          known <= v /\ v <= w =>
             /\ r \notin arrived /\ r \in config[w] => r \in config[v]
             /\ r \in arrived /\ r \in config[v] => r \in config[w]
    /\ \A r \in Arriving : r \notin config[known]

\* What is being received is protected from deletions, and still foreign.
ReceiveInv ==
    /\ Arriving \subseteq receiving
    /\ recv.pc # "idle" /\ recv.range \notin exposed =>
          metadata # <<>> /\ recv.range \in receiving /\ Gone(recv.range, 0)

\* Only what is gone has no document.
DocsInv ==
    /\ \A r \in Ranges \ docs : Gone(r, 0)
    /\ recv.pc = "steady" /\ recv.range \notin exposed => recv.range \in docs

\* Deletions are for what is gone: those in the queue for what no map in use has, those
\* of a tracker for what no later one has.
DeletionsInv ==
    /\ \A x \in InQueue(queue) : Gone(x.range, 0) /\ ~Cloning(x.range)
    /\ \A i \in DOMAIN metadata : \A x \in ToSet(metadata[i].orphans) :
          Gone(x.range, i) /\ ~Cloning(x.range)

SafeInv == VersionInv /\ ReceiveInv /\ DocsInv /\ DeletionsInv

\* A receiving thread waits for a deletion of its own range, and goes on only when the
\* range is empty or the cursor of the deletion has failed.
CloneInv ==
    /\ \A x \in AllDeletions : "recv" \in x.waiters => x.range = recv.range
    /\ recv.pc \in {"clean", "clone"} => recv.range \notin docs \ left

\* Tracker j of ms is one that deletions must wait for, while h says who holds which.
Live(ms, h, j) == j = Len(ms) \/ \E x \in Holders : h[x] = ms[j].id

\* What a step may do to the maps: more versions may be known, ranges may be exposed, the
\* first k trackers may go, and a tracker that is live afterwards was live before, or has
\* no more than the newest map.
Shifted(k) ==
    /\ known <= known' /\ known' \in DOMAIN config /\ exposed \subseteq exposed'
    /\ \A v \in DOMAIN config : v \in DOMAIN config' /\ config'[v] = config[v]
    /\ \A j \in DOMAIN metadata' : Live(metadata', held', j) =>
          \/ \A r \in Ranges \ exposed' : r \in config'[metadata'[j].id[2]] => r \in config'[known']
          \/ j + k \in DOMAIN metadata /\ metadata'[j].id = metadata[j + k].id
             /\ Live(metadata, held, j + k)

\* What Gone says, with the trackers that are live.
LEMMA GoneFacts ==
    ASSUME NEW r, NEW i
    PROVE  Gone(r, i) <=>
             (r \notin exposed =>
                /\ r \notin config[known] /\ r \notin arrived
                /\ \A j \in DOMAIN metadata :
                      i < j /\ Live(metadata, held, j) => r \notin config[metadata[j].id[2]])
BY DEF Gone, Live, InUse, Owned

\* The same after a step.
LEMMA GoneNext ==
    ASSUME NEW r, NEW i
    PROVE  Gone(r, i)' <=>
             (r \notin exposed' =>
                /\ r \notin config'[known'] /\ r \notin arrived'
                /\ \A j \in DOMAIN metadata' :
                      i < j /\ Live(metadata', held', j) => r \notin config'[metadata'[j].id[2]])
BY DEF Gone, Live, InUse, Owned

\* What BasicInv says about the trackers,
LEMMA BasicShape ==
    BasicInv => /\ StateOK /\ RestOK /\ OneMigration
                /\ Len(metadata) \in Nat /\ DOMAIN metadata = 1 .. Len(metadata)
                /\ metadata # <<>> <=> Len(metadata) \in DOMAIN metadata
                /\ \A i \in DOMAIN metadata : metadata[i].orphans \in Seq(Deletion)
                /\ queue.orphans \in Seq(Deletion) /\ queue.delayed \in Seq(Deletion)
BY BasicFacts, ShapeFacts

\* and the same after a step.
LEMMA NextShape ==
    ASSUME BasicInv'
    PROVE  /\ StateOK' /\ RestOK' /\ OneMigration'
           /\ Len(metadata') \in Nat /\ DOMAIN metadata' = 1 .. Len(metadata')
           /\ metadata' # <<>> <=> Len(metadata') \in DOMAIN metadata'
           /\ \A i \in DOMAIN metadata' : metadata'[i].orphans \in Seq(Deletion)
           /\ queue'.orphans \in Seq(Deletion) /\ queue'.delayed \in Seq(Deletion)
<1>1. (BasicInv => /\ StateOK /\ RestOK /\ OneMigration
                   /\ Len(metadata) \in Nat /\ DOMAIN metadata = 1 .. Len(metadata)
                   /\ metadata # <<>> <=> Len(metadata) \in DOMAIN metadata
                   /\ \A i \in DOMAIN metadata : metadata[i].orphans \in Seq(Deletion)
                   /\ queue.orphans \in Seq(Deletion) /\ queue.delayed \in Seq(Deletion))'
  BY BasicShape, PTL
<1>2. Seq(Deletion)' = Seq(Deletion)
  BY DEF Deletion, Waiters
<1> QED BY <1>1, <1>2

\* What is gone stays so unless it arrives, whatever becomes of the trackers.
LEMMA GoneKeep ==
    ASSUME BasicInv, BasicInv', VersionInv, NEW k \in Nat, Shifted(k), NEW r \in Ranges, NEW i \in Nat,
           Gone(r, i), r \in arrived' => r \in exposed', NEW m \in Nat, i <= m + k
    PROVE  Gone(r, m)'
<1> SUFFICES ASSUME r \notin exposed'
             PROVE  /\ r \notin config'[known'] /\ r \notin arrived'
                    /\ \A j \in DOMAIN metadata' :
                          m < j /\ Live(metadata', held', j) => r \notin config'[metadata'[j].id[2]]
  BY GoneNext
<1>1. StateOK /\ RestOK
  BY BasicFacts
<1>2. known \in DOMAIN config /\ DOMAIN config \subseteq Nat
  BY <1>1 DEF RestOK
<1>4. /\ known <= known' /\ known' \in DOMAIN config /\ r \notin exposed
      /\ \A v \in DOMAIN config : v \in DOMAIN config' /\ config'[v] = config[v]
  BY DEF Shifted
<1>3. r \notin config[known] /\ r \notin arrived
  BY <1>4 DEF Gone
<1>5. r \notin config'[known']
  <2>1. known <= known
    BY <1>2
  <2>2. r \in config[known'] => r \in config[known]
    BY <1>2, <1>3, <1>4, <2>1 DEF VersionInv
  <2> QED BY <1>3, <1>4, <2>2
<1>6. ASSUME NEW j \in DOMAIN metadata', m < j, Live(metadata', held', j)
      PROVE  r \notin config'[metadata'[j].id[2]]
  <2>1. CASE \A q \in Ranges \ exposed' : q \in config'[metadata'[j].id[2]] => q \in config'[known']
    BY <1>5, <2>1
  <2>2. CASE /\ j + k \in DOMAIN metadata /\ metadata'[j].id = metadata[j + k].id
             /\ Live(metadata, held, j + k)
    <3>1. /\ metadata[j + k].id[2] \in DOMAIN config
      <4>1. metadata[j + k] \in Trackers
        BY <1>1, <2>2, ShapeFacts
      <4> QED BY <4>1 DEF Trackers
    <3>2. i < j + k
      <4>1. j + k \in Nat
        BY <1>1, <2>2, ShapeFacts
      <4>2. j \in Nat
        BY NextShape
      <4> QED BY <1>6, <4>2
    <3>3. r \notin config[metadata[j + k].id[2]]
      BY <1>4, <2>2, <3>2, GoneFacts
    <3> QED BY <1>4, <2>2, <3>1, <3>3
  <2> QED BY <1>6, <2>1, <2>2 DEF Shifted
<1> QED BY <1>3, <1>5, <1>6

\* Range r may be that of a deletion after a step: it is gone, as far as the first n
\* trackers before the step, and the step neither clones it nor lets it arrive.
MayGo(r, n) ==
    /\ r \in Ranges /\ (r \in arrived' => r \in exposed')
    /\ ~(recv'.pc \in {"clone", "steady", "forget"} /\ recv'.range = r /\ r \notin exposed')
    /\ \E i \in 0 .. n : Gone(r, i)

\* What a step has to do to preserve SafeInv.
LEMMA SafeStep ==
    ASSUME BasicInv, BasicInv', SafeInv, NEW k \in Nat, Shifted(k), VersionInv',
           arrived' \ exposed' \subseteq receiving',
           recv'.pc # "idle" /\ recv'.range \notin exposed' =>
              /\ metadata' # <<>> /\ recv'.range \in receiving' /\ recv'.range \notin arrived'
              /\ Gone(recv'.range, 0),
           recv'.pc = "steady" /\ recv'.range \notin exposed' => recv'.range \in docs',
           \A r \in Ranges \ docs' : (r \in arrived' => r \in exposed') /\ Gone(r, 0),
           \A x \in InQueue(queue') : MayGo(x.range, k),
           \A j \in DOMAIN metadata' : \A x \in ToSet(metadata'[j].orphans) : MayGo(x.range, j + k)
    PROVE  SafeInv'
<1>1. VersionInv
  BY DEF SafeInv
<1>2. OneMigration' /\ \A j \in DOMAIN metadata' : j \in Nat
  BY NextShape
<1>3. ReceiveInv'
  <2>1. ASSUME recv'.pc # "idle", recv'.range \notin exposed' PROVE Gone(recv.range, 0)'
    <3> PICK r : r = recv'.range
      OBVIOUS
    <3>1. r \in Ranges /\ r \notin arrived' /\ Gone(r, 0)
      BY <1>2, <2>1 DEF OneMigration
    <3>2. Gone(r, 0)'
      BY <1>1, <3>1, GoneKeep
    <3> QED BY <3>2 DEF Gone, InUse, Owned
  <2> QED BY <2>1 DEF ReceiveInv, Arriving
<1>4. DocsInv'
  <2>1. ASSUME NEW r \in Ranges \ docs' PROVE Gone(r, 0)'
    BY <1>1, GoneKeep
  <2> QED BY <2>1 DEF DocsInv
<1>5. ASSUME NEW r, NEW m \in Nat, MayGo(r, m + k)
      PROVE  Gone(r, m)' /\ ~Cloning(r)'
  <2>1. PICK i \in 0 .. m + k : Gone(r, i)
    BY <1>5 DEF MayGo
  <2>2. i \in Nat /\ i <= m + k
    BY <2>1
  <2>3. Gone(r, m)'
    BY <1>1, <1>5, <2>1, <2>2, GoneKeep DEF MayGo
  <2> QED BY <1>5, <2>3 DEF MayGo, Cloning
<1>6. DeletionsInv'
  <2>1. ASSUME NEW x \in InQueue(queue') PROVE Gone(x.range, 0)' /\ ~Cloning(x.range)'
    <3>1. MayGo(x.range, 0 + k)
      OBVIOUS
    <3> QED BY <1>5, <3>1
  <2>2. ASSUME NEW j \in DOMAIN metadata', NEW x \in ToSet(metadata'[j].orphans)
        PROVE  Gone(x.range, j)' /\ ~Cloning(x.range)'
    BY <1>2, <1>5
  <2> QED BY <2>1, <2>2 DEF DeletionsInv, InQueue, ToSet
<1> QED BY <1>3, <1>4, <1>6 DEF SafeInv

\* A step that leaves the trackers where they are.
LEMMA SameTrackers ==
    ASSUME BasicInv, BasicInv', VersionInv,
           UNCHANGED <<config, known, held, arrived, exposed>>,
           Len(metadata') = Len(metadata),
           \A i \in DOMAIN metadata : metadata'[i].id = metadata[i].id
    PROVE  Shifted(0) /\ VersionInv'
<1>1. /\ Len(metadata) \in Nat /\ DOMAIN metadata = 1 .. Len(metadata)
      /\ metadata # <<>> <=> Len(metadata) \in DOMAIN metadata
  BY BasicShape
<1>2. /\ DOMAIN metadata' = DOMAIN metadata
      /\ metadata' # <<>> <=> Len(metadata') \in DOMAIN metadata'
  BY <1>1, NextShape
<1>3. known \in DOMAIN config /\ known <= known
  <2>1. known \in DOMAIN config /\ DOMAIN config \subseteq Nat
    BY BasicShape DEF RestOK
  <2> QED BY <2>1
<1>4. ASSUME NEW j \in DOMAIN metadata', Live(metadata', held', j)
      PROVE  j + 0 \in DOMAIN metadata /\ metadata'[j].id = metadata[j + 0].id
             /\ Live(metadata, held, j + 0)
  <2>1. j \in DOMAIN metadata /\ j + 0 = j
    BY <1>1, <1>2
  <2>2. metadata'[j].id = metadata[j].id
    BY <2>1
  <2>3. Live(metadata, held, j)
    BY <1>4, <2>2 DEF Live
  <2> QED BY <2>1, <2>2, <2>3
<1>5. Shifted(0)
  BY <1>3, <1>4 DEF Shifted
<1>6. metadata' # <<>> => metadata # <<>> /\ Active'.id = Active.id
  BY <1>1, <1>2 DEF Active
<1>7. VersionInv'
  BY <1>6 DEF VersionInv, Agrees, Arriving
<1> QED BY <1>5, <1>7

\* The deletions of the trackers and the queue.
LEMMA DeletionFacts ==
    ASSUME BasicInv, SafeInv
    PROVE  /\ \A x \in InQueue(queue) : x.range \in Ranges /\ Gone(x.range, 0) /\ ~Cloning(x.range)
           /\ \A i \in DOMAIN metadata : \A x \in ToSet(metadata[i].orphans) :
                 x.range \in Ranges /\ Gone(x.range, i) /\ ~Cloning(x.range)
           /\ \A x \in InQueue(queue) : x \in AllDeletions
           /\ \A i \in DOMAIN metadata : \A x \in ToSet(metadata[i].orphans) : x \in AllDeletions
           /\ \A x \in AllDeletions : ~Cloning(x.range)
<1>1. /\ \A i \in DOMAIN metadata : metadata[i].orphans \in Seq(Deletion)
      /\ queue.orphans \in Seq(Deletion) /\ queue.delayed \in Seq(Deletion)
  BY BasicShape
<1>2. \A s \in Seq(Deletion) : \A x \in ToSet(s) : x.range \in Ranges
  <2> SUFFICES ASSUME NEW s \in Seq(Deletion), NEW x \in ToSet(s) PROVE x.range \in Ranges
    OBVIOUS
  <2>1. x \in Deletion
    BY DEF ToSet
  <2> QED BY <2>1 DEF Deletion
<1>3. \A x \in InQueue(queue) : x.range \in Ranges /\ x \in AllDeletions
  BY <1>1, <1>2 DEF InQueue, AllDeletions
<1>4. \A i \in DOMAIN metadata : \A x \in ToSet(metadata[i].orphans) :
         x.range \in Ranges /\ x \in AllDeletions
  BY <1>1, <1>2 DEF AllDeletions, TrackerOrphans
<1>5. /\ \A x \in InQueue(queue) : Gone(x.range, 0) /\ ~Cloning(x.range)
      /\ \A i \in DOMAIN metadata : \A x \in ToSet(metadata[i].orphans) :
            Gone(x.range, i) /\ ~Cloning(x.range)
  BY DEF SafeInv, DeletionsInv
<1>6. \A x \in AllDeletions : ~Cloning(x.range)
  BY <1>5 DEF AllDeletions, TrackerOrphans, InQueue
<1> QED BY <1>3, <1>4, <1>5, <1>6

\* A step that asks for no deletion, installs no map and does not let a range arrive.
LEMMA QuietSafe ==
    ASSUME BasicInv, BasicInv', SafeInv,
           UNCHANGED <<config, known, held, arrived, receiving, exposed>>,
           Len(metadata') = Len(metadata),
           \A i \in DOMAIN metadata : metadata'[i].id = metadata[i].id,
           \A x \in InQueue(queue') : \E y \in InQueue(queue) : y.range = x.range,
           \A i \in DOMAIN metadata : \A x \in ToSet(metadata'[i].orphans) :
              \E y \in ToSet(metadata[i].orphans) : y.range = x.range,
           recv'.pc # "idle" => recv.pc # "idle" /\ recv'.range = recv.range,
           \A x \in AllDeletions : ~(/\ recv'.pc \in {"clone", "steady", "forget"}
                                     /\ recv'.range = x.range /\ x.range \notin exposed),
           recv'.pc = "steady" /\ recv'.range \notin exposed => recv'.range \in docs',
           \A r \in Ranges \ docs' : Gone(r, 0)
    PROVE  SafeInv'
<1>1. /\ Len(metadata) \in Nat /\ DOMAIN metadata = 1 .. Len(metadata)
      /\ metadata # <<>> <=> Len(metadata) \in DOMAIN metadata
  BY BasicShape
<1>2. /\ DOMAIN metadata' = DOMAIN metadata
      /\ metadata' # <<>> <=> metadata # <<>>
  BY <1>1, NextShape
<1>3. VersionInv /\ ReceiveInv /\ 0 \in Nat
  BY DEF SafeInv
<1>4. Shifted(0) /\ VersionInv'
  BY <1>3, SameTrackers
<1>5. /\ arrived' \ exposed' \subseteq receiving'
      /\ recv'.pc # "idle" /\ recv'.range \notin exposed' =>
            /\ metadata' # <<>> /\ recv'.range \in receiving'
            /\ recv'.range \notin arrived' /\ Gone(recv'.range, 0)
  <2>1. Gone(recv.range, 0) /\ recv.range \notin exposed => recv.range \notin arrived
    BY DEF Gone
  <2> QED BY <1>2, <1>3, <2>1 DEF ReceiveInv, Arriving
<1>6. \A r \in Ranges \ docs' : (r \in arrived' => r \in exposed') /\ Gone(r, 0)
  BY DEF Gone
<1>7. ASSUME NEW x \in InQueue(queue') PROVE MayGo(x.range, 0)
  <2>1. PICK y \in InQueue(queue) : y.range = x.range
    OBVIOUS
  <2>2. y.range \in Ranges /\ Gone(y.range, 0) /\ y \in AllDeletions /\ 0 \in 0 .. 0
    BY DeletionFacts
  <2> QED BY <2>1, <2>2 DEF MayGo, Gone
<1>8. ASSUME NEW j \in DOMAIN metadata', NEW x \in ToSet(metadata'[j].orphans)
      PROVE  MayGo(x.range, j + 0)
  <2>1. j \in DOMAIN metadata /\ j \in 0 .. j + 0
    BY <1>1, <1>2
  <2>2. PICK y \in ToSet(metadata[j].orphans) : y.range = x.range
    BY <2>1
  <2>3. y.range \in Ranges /\ Gone(y.range, j) /\ y \in AllDeletions
    BY <2>1, DeletionFacts
  <2> QED BY <2>1, <2>2, <2>3 DEF MayGo, Gone
<1> QED BY <1>3, <1>4, <1>5, <1>6, <1>7, <1>8, SafeStep

\* The receiving thread does not begin to clone.
LEMMA NotCloning ==
    ASSUME BasicInv, SafeInv,
           recv'.pc \in {"clone", "steady", "forget"} =>
              recv.pc \in {"clone", "steady", "forget"} /\ recv'.range = recv.range
    PROVE  \A x \in AllDeletions : ~(/\ recv'.pc \in {"clone", "steady", "forget"}
                                     /\ recv'.range = x.range /\ x.range \notin exposed)
<1>1. \A x \in AllDeletions : ~Cloning(x.range)
  BY DeletionFacts
<1> QED BY <1>1 DEF Cloning

\* A step that moreover leaves the trackers alone.
LEMMA StillSafe ==
    ASSUME BasicInv, BasicInv', SafeInv,
           UNCHANGED <<config, known, held, arrived, receiving, metadata, exposed>>,
           InQueue(queue') \subseteq InQueue(queue),
           recv'.pc # "idle" => recv.pc # "idle" /\ recv'.range = recv.range,
           recv'.pc \in {"clone", "steady", "forget"} => recv.pc \in {"clone", "steady", "forget"},
           recv'.pc = "steady" /\ recv'.range \notin exposed => recv'.range \in docs',
           \A r \in Ranges \ docs' : Gone(r, 0)
    PROVE  SafeInv'
<1>1. \A x \in AllDeletions : ~(/\ recv'.pc \in {"clone", "steady", "forget"}
                                /\ recv'.range = x.range /\ x.range \notin exposed)
  BY NotCloning
<1>2. \A x \in InQueue(queue') : \E y \in InQueue(queue) : y.range = x.range
  OBVIOUS
<1>3. \A i \in DOMAIN metadata : \A x \in ToSet(metadata'[i].orphans) :
         \E y \in ToSet(metadata[i].orphans) : y.range = x.range
  OBVIOUS
<1> QED BY <1>1, <1>2, <1>3, QuietSafe

\* What DocsInv says.
LEMMA DocsFacts ==
    ASSUME SafeInv
    PROVE  /\ \A r \in Ranges \ docs : Gone(r, 0)
           /\ recv.pc = "steady" /\ recv.range \notin exposed => recv.range \in docs
BY DEF SafeInv, DocsInv

\* The documents are cloned, or the migration fails.
LEMMA CloneSafe ==
    ASSUME BasicInv, BasicInv', SafeInv, Clone \/ RecvFail
    PROVE  SafeInv'
<1>1. /\ \A r \in Ranges \ docs : Gone(r, 0)
      /\ RestOK
  BY DocsFacts, BasicShape
<1>2. CASE Clone
  <2>1. /\ UNCHANGED <<config, known, held, arrived, receiving, metadata, queue, exposed>>
        /\ recv.pc = "clone" /\ recv'.pc = "steady" /\ recv'.range = recv.range
        /\ docs' = docs \cup {recv.range}
    BY <1>1, <1>2 DEF Clone, RestOK, aux
  <2>2. \A r \in Ranges \ docs' : Gone(r, 0)
    BY <1>1, <2>1
  <2> QED BY <2>1, <2>2, StillSafe
<1>3. CASE RecvFail
  <2>1. /\ UNCHANGED <<config, known, held, arrived, receiving, metadata, queue, exposed, docs>>
        /\ recv.pc \in {"clone", "steady"} /\ recv'.pc = "forget" /\ recv'.range = recv.range
    BY <1>1, <1>3 DEF RecvFail, RestOK, aux
  <2> QED BY <1>1, <2>1, StillSafe
<1> QED BY <1>2, <1>3

\* Whoever is notified does not clone yet.
LEMMA NotifySafe ==
    ASSUME BasicInv, SafeInv, NEW D, NEW ok \in BOOLEAN, Notify(D, ok),
           Waits("recv", D) => recv.pc = "wait", Waits("donor", D) => donate.pc = "wait"
    PROVE  /\ recv'.pc # "idle" => recv.pc # "idle" /\ recv'.range = recv.range
           /\ recv'.pc \in {"clone", "steady", "forget"} => recv' = recv
<1>1. RestOK
  BY BasicShape
<1>2. CASE Waits("recv", D)
  BY <1>1, <1>2 DEF Notify, RestOK, NoRecv
<1>3. CASE ~Waits("recv", D)
  BY <1>1, <1>3 DEF Notify, RestOK
<1> QED BY <1>2, <1>3

\* The first deletion of the queue, while one is under way.
LEMMA DeletedIsGone ==
    ASSUME BasicInv, SafeInv, deleter.pc = "delete"
    PROVE  /\ queue.orphans # <<>> /\ Head(queue.orphans) \in InQueue(queue)
           /\ deleter.range \in Ranges /\ Gone(deleter.range, 0) /\ ~Cloning(deleter.range)
<1>1. StateOK /\ DeleterInv
  BY BasicFacts
<1>2. queue.orphans # <<>> /\ Head(queue.orphans).range = deleter.range
  BY <1>1 DEF DeleterInv
<1>3. Head(queue.orphans) \in InQueue(queue)
  BY <1>1, <1>2, PopShape
<1> QED BY <1>2, <1>3, DeletionFacts

\* A document is deleted.
LEMMA DeleteSafe ==
    ASSUME BasicInv, BasicInv', SafeInv, Delete
    PROVE  SafeInv'
<1>1. /\ UNCHANGED <<config, known, held, arrived, receiving, metadata, queue, exposed, recv>>
      /\ deleter.pc = "delete" /\ docs' = docs \ {deleter.range}
  BY DEF Delete, aux
<1>2. Gone(deleter.range, 0) /\ ~Cloning(deleter.range)
  BY <1>1, DeletedIsGone
<1>3. \A r \in Ranges \ docs' : Gone(r, 0)
  BY <1>1, <1>2, DocsFacts
<1>4. recv'.pc = "steady" /\ recv'.range \notin exposed => recv'.range \in docs'
  BY <1>1, <1>2, DocsFacts DEF Cloning
<1> QED BY <1>1, <1>3, <1>4, StillSafe

\* The deletion ends, one way or another.
LEMMA PopSafe ==
    ASSUME BasicInv, BasicInv', SafeInv, queue.orphans # <<>>, NEW ok \in BOOLEAN,
           queue' = Pop(queue), Notify({Head(queue.orphans)}, ok),
           UNCHANGED <<config, known, held, arrived, receiving, metadata, exposed>>,
           \A r \in Ranges \ docs' : Gone(r, 0),
           recv.pc = "steady" /\ recv.range \notin exposed => recv.range \in docs'
    PROVE  SafeInv'
<1> DEFINE x == Head(queue.orphans)
<1>1. /\ StateOK
      /\ SomeWaits(metadata, queue, "recv") <=> recv.pc = "wait"
      /\ SomeWaits(metadata, queue, "donor") <=> donate.pc = "wait"
  BY BasicFacts
<1>2. /\ InQueue(queue') \subseteq InQueue(queue)
      /\ \A w : SomeWaits(metadata, queue, w) <=> SomeWaits(metadata, queue', w) \/ Waits(w, {x})
  BY <1>1, PopShape
<1> HIDE DEF x
<1>3. /\ Notify({x}, ok)
      /\ Waits("recv", {x}) => recv.pc = "wait"
      /\ Waits("donor", {x}) => donate.pc = "wait"
  <2>1. Notify({x}, ok)
    BY DEF x
  <2> QED BY <1>1, <1>2, <2>1
<1>4. /\ recv'.pc # "idle" => recv.pc # "idle" /\ recv'.range = recv.range
      /\ recv'.pc \in {"clone", "steady", "forget"} => recv' = recv
  BY <1>3, NotifySafe
<1>5. recv'.pc = "steady" /\ recv'.range \notin exposed => recv'.range \in docs'
  BY <1>4
<1>6. recv'.pc \in {"clone", "steady", "forget"} => recv.pc \in {"clone", "steady", "forget"}
  BY <1>4
<1> QED BY <1>2, <1>4, <1>5, <1>6, StillSafe

\* A deletion has found nothing more, or failed.
LEMMA DeleteEndsSafe ==
    ASSUME BasicInv, BasicInv', SafeInv, NEW ok \in BOOLEAN, DeleteEnds(ok)
    PROVE  SafeInv'
<1>1. /\ deleter.pc = "delete" /\ queue' = Pop(queue) /\ Notify({Head(queue.orphans)}, ok)
      /\ docs' \in {docs} \cup (IF ok THEN {} ELSE {docs \ {deleter.range}})
      /\ UNCHANGED <<config, known, held, arrived, receiving, metadata, exposed>>
  BY DEF DeleteEnds
<1>2. queue.orphans # <<>> /\ Gone(deleter.range, 0) /\ ~Cloning(deleter.range)
  BY <1>1, DeletedIsGone
<1>3. docs' = docs \/ docs' = docs \ {deleter.range}
  BY <1>1
<1>4. \A r \in Ranges \ docs' : Gone(r, 0)
  BY <1>2, <1>3, DocsFacts
<1>5. recv.pc = "steady" /\ recv.range \notin exposed => recv.range \in docs'
  BY <1>2, <1>3, DocsFacts DEF Cloning
<1> QED BY <1>1, <1>2, <1>4, <1>5, PopSafe

\* The replication ends, one way or another.
LEMMA ReplicateSafe ==
    ASSUME BasicInv, BasicInv', SafeInv, Replicate \/ ReplicateFails
    PROVE  SafeInv'
<1>1. /\ deleter.pc = "replicate"
      /\ UNCHANGED <<config, known, held, arrived, receiving, metadata, docs, exposed>>
  BY DEF Replicate, ReplicateFails, aux
<1>2. CASE queue' = [queue EXCEPT !.tasks = @ \cup {"now"}] /\ UNCHANGED <<recv, donate>>
  <2>1. queue \in QueueStates
    BY BasicShape, ShapeFacts
  <2>2. InQueue(queue') \subseteq InQueue(queue)
    BY <1>2, <2>1 DEF QueueStates, InQueue
  <2> QED BY <1>1, <1>2, <2>2, DocsFacts, StillSafe
<1>3. CASE ~deleter.gone /\ queue' = Pop(queue) /\ Notify({Head(queue.orphans)}, FALSE)
  <2>1. queue.orphans # <<>>
    BY <1>1, <1>3, BasicFacts DEF DeleterInv
  <2> QED BY <1>1, <1>3, <2>1, DocsFacts, PopSafe
<1> QED BY <1>2, <1>3 DEF Replicate, ReplicateFails

\* A task that ends or begins queues nothing.
LEMMA TaskQueue ==
    ASSUME BasicInv, NEW t \in {"now", "later"}, TaskEnds(t) \/ TaskDeletes(t) \/ TaskMoves(t)
    PROVE  InQueue(queue') \subseteq InQueue(queue)
<1>1. /\ queue \in QueueStates /\ queue.orphans \in Seq(Deletion) /\ queue.delayed \in Seq(Deletion)
      /\ queue.tasks \in SUBSET {"now", "later"}
  BY BasicShape, ShapeFacts
<1>2. CASE TaskEnds(t)
  <2>1. queue'.orphans = queue.orphans /\ queue'.delayed = queue.delayed
    BY <1>1, <1>2 DEF TaskEnds, Unscheduled, QueueStates
  <2> QED BY <2>1 DEF InQueue
<1>3. CASE TaskDeletes(t)
  <2>1. queue'.orphans = queue.orphans /\ queue'.delayed = queue.delayed
    BY <1>1, <1>3 DEF TaskDeletes, Begin, QueueStates
  <2> QED BY <2>1 DEF InQueue
<1>4. CASE TaskMoves(t)
  <2> DEFINE o == <<Head(queue.delayed)>>
             e == Tail(queue.delayed)
  <2>1. /\ queue.delayed # <<>>
        /\ queue' = [[queue EXCEPT !.orphans = o, !.delayed = e] EXCEPT !.tasks = @ \ {t}]
    BY <1>4 DEF TaskMoves, Begin
  <2>2. ToSet(e) \subseteq ToSet(queue.delayed) /\ Head(queue.delayed) \in ToSet(queue.delayed)
    BY <1>1, <2>1, TailWaits
  <2>3. ToSet(o) \subseteq ToSet(queue.delayed)
    BY <2>2 DEF ToSet
  <2> HIDE DEF o, e
  <2>4. queue'.orphans = o /\ queue'.delayed = e
    BY <1>1, <2>1 DEF QueueStates
  <2> QED BY <2>2, <2>3, <2>4 DEF InQueue
<1> QED BY <1>2, <1>3, <1>4

\* A task ends, or begins with a deletion.
LEMMA TaskSafe ==
    ASSUME BasicInv, BasicInv', SafeInv, NEW t \in {"now", "later"},
           TaskEnds(t) \/ TaskDeletes(t) \/ TaskMoves(t)
    PROVE  SafeInv'
<1>1. UNCHANGED <<config, known, held, arrived, receiving, metadata, recv, docs, exposed>>
  BY DEF TaskEnds, TaskDeletes, TaskMoves, Begin, aux
<1>2. InQueue(queue') \subseteq InQueue(queue)
  BY TaskQueue
<1> QED BY <1>1, <1>2, DocsFacts, StillSafe

\* A task gives every deletion up.
LEMMA TaskGivesUpSafe ==
    ASSUME BasicInv, BasicInv', SafeInv, NEW t \in {"now", "later"}, TaskGivesUp(t)
    PROVE  SafeInv'
<1>1. /\ queue.orphans = <<>> /\ Notify(AllDeletions, FALSE)
      /\ queue' = [[queue EXCEPT !.tasks = @ \ {t}] EXCEPT !.delayed = <<>>]
      /\ metadata' = [i \in DOMAIN metadata |-> [metadata[i] EXCEPT !.orphans = <<>>]]
      /\ UNCHANGED <<config, known, held, receiving, arrived, docs, exposed>>
  BY DEF TaskGivesUp, Unscheduled, aux
<1>2. /\ StateOK
      /\ SomeWaits(metadata, queue, "recv") <=> recv.pc = "wait"
      /\ SomeWaits(metadata, queue, "donor") <=> donate.pc = "wait"
  BY BasicFacts
<1>3. /\ queue \in QueueStates /\ DOMAIN metadata = 1 .. Len(metadata) /\ Len(metadata) \in Nat
      /\ \A i \in DOMAIN metadata : metadata[i] \in Trackers
  BY <1>2, ShapeFacts
<1>4. ~(\E x : x \in InQueue(queue'))
  BY <1>1, <1>3 DEF QueueStates, InQueue, ToSet
<1>5. /\ \A i \in DOMAIN metadata : metadata'[i].id = metadata[i].id /\ metadata'[i].orphans = <<>>
      /\ Len(metadata') = Len(metadata)
  <2>1. \A i \in DOMAIN metadata : metadata'[i] = [metadata[i] EXCEPT !.orphans = <<>>]
    BY <1>1
  <2>2. DOMAIN metadata' = 1 .. Len(metadata) /\ DOMAIN metadata' = 1 .. Len(metadata')
        /\ Len(metadata') \in Nat
    BY <1>1, <1>3, NextShape
  <2>3. Len(metadata') = Len(metadata)
    BY <1>3, <2>2
  <2> QED BY <1>3, <2>1, <2>3 DEF Trackers
<1>6. ~(\E i \in DOMAIN metadata : \E x : x \in ToSet(metadata'[i].orphans))
  BY <1>5 DEF ToSet
<1>7. /\ Waits("recv", AllDeletions) => recv.pc = "wait"
      /\ Waits("donor", AllDeletions) => donate.pc = "wait"
  BY <1>2, AllWaits
<1>8. /\ recv'.pc # "idle" => recv.pc # "idle" /\ recv'.range = recv.range
      /\ recv'.pc \in {"clone", "steady", "forget"} => recv' = recv
  BY <1>1, <1>7, NotifySafe
<1>9. recv'.pc = "steady" /\ recv'.range \notin exposed => recv'.range \in docs'
  BY <1>1, <1>8, DocsFacts
<1>10. \A x \in AllDeletions : ~(/\ recv'.pc \in {"clone", "steady", "forget"}
                                 /\ recv'.range = x.range /\ x.range \notin exposed)
  BY <1>8, NotCloning
<1>11. \A r \in Ranges \ docs' : Gone(r, 0)
  BY <1>1, DocsFacts
<1> QED BY <1>1, <1>4, <1>5, <1>6, <1>8, <1>9, <1>10, <1>11, QuietSafe

\* A deletion is still for the same range when somebody waits for it, or no longer does.
LEMMA AlikeRanges ==
    ASSUME StateOK, AlikeAll
    PROVE  /\ \A x \in InQueue(queue') : \E y \in InQueue(queue) : y.range = x.range
           /\ \A i \in DOMAIN metadata : \A x \in ToSet(metadata'[i].orphans) :
                 \E y \in ToSet(metadata[i].orphans) : y.range = x.range
<1>1. ASSUME NEW s, NEW u, Alike(s, u), NEW x \in ToSet(u)
      PROVE  \E y \in ToSet(s) : y.range = x.range
  BY <1>1 DEF Alike, ToSet
<1>2. /\ Alike(queue.orphans, queue'.orphans) /\ Alike(queue.delayed, queue'.delayed)
      /\ \A i \in DOMAIN metadata : Alike(metadata[i].orphans, metadata'[i].orphans)
  BY DEF AlikeAll
<1>3. \A x \in InQueue(queue') : \E y \in InQueue(queue) : y.range = x.range
  BY <1>1, <1>2 DEF InQueue
<1> QED BY <1>1, <1>2, <1>3

\* A wait is interrupted.
LEMMA InterruptSafe ==
    ASSUME BasicInv, BasicInv', SafeInv, NEW w \in Waiters, Interrupt(w)
    PROVE  SafeInv'
<1>1. /\ queue' = [queue EXCEPT !.orphans = Unawaited(@, w), !.delayed = Unawaited(@, w)]
      /\ metadata' = [i \in DOMAIN metadata |->
                        [metadata[i] EXCEPT !.orphans = Unawaited(@, w)]]
      /\ UNCHANGED <<config, known, held, receiving, arrived, docs, exposed>>
      /\ recv' = recv \/ recv' = NoRecv
  BY DEF Interrupt, aux
<1>2. StateOK /\ RestOK
  BY BasicShape
<1>3. AlikeAll
  BY <1>1, <1>2, InterruptShape
<1>4. /\ \A x \in InQueue(queue') : \E y \in InQueue(queue) : y.range = x.range
      /\ \A i \in DOMAIN metadata : \A x \in ToSet(metadata'[i].orphans) :
            \E y \in ToSet(metadata[i].orphans) : y.range = x.range
  BY <1>2, <1>3, AlikeRanges
<1>5. /\ Len(metadata') = Len(metadata)
      /\ \A i \in DOMAIN metadata : metadata'[i].id = metadata[i].id
  BY <1>3 DEF AlikeAll
<1>6. /\ recv'.pc # "idle" => recv.pc # "idle" /\ recv'.range = recv.range
      /\ recv'.pc \in {"clone", "steady", "forget"} => recv' = recv
  BY <1>1, <1>2 DEF NoRecv, RestOK
<1>7. recv'.pc = "steady" /\ recv'.range \notin exposed => recv'.range \in docs'
  BY <1>1, <1>6, DocsFacts
<1>8. \A x \in AllDeletions : ~(/\ recv'.pc \in {"clone", "steady", "forget"}
                                /\ recv'.range = x.range /\ x.range \notin exposed)
  BY <1>6, NotCloning
<1>9. \A r \in Ranges \ docs' : Gone(r, 0)
  BY <1>1, DocsFacts
<1> QED BY <1>1, <1>4, <1>5, <1>6, <1>7, <1>8, <1>9, QuietSafe

\* The receiving thread looks for deletions of its range, and clones if there is none.
LEMMA WaitForCleanSafe ==
    ASSUME BasicInv, BasicInv', SafeInv, WaitForClean
    PROVE  SafeInv'
<1>1. /\ recv.pc = "clean"
      /\ UNCHANGED <<config, known, held, receiving, arrived, docs, exposed>>
  BY DEF WaitForClean, aux
<1>2. StateOK /\ RestOK
  BY BasicShape
<1>3. \A r \in Ranges \ docs' : Gone(r, 0)
  BY <1>1, DocsFacts
<1>4. CASE recv' = NoRecv /\ UNCHANGED <<metadata, queue>>
  <2>1. recv'.pc = "idle"
    BY <1>4 DEF NoRecv
  <2> QED BY <1>1, <1>3, <1>4, <2>1, StillSafe
<1>5. CASE Track(recv.range) /\ recv' = [recv EXCEPT !.pc = "wait"]
  <2>1. recv'.pc = "wait" /\ recv'.range = recv.range
    BY <1>2, <1>5 DEF RestOK
  <2>2. AlikeAll
    BY <1>2, <1>5, TrackShape
  <2>3. /\ \A x \in InQueue(queue') : \E y \in InQueue(queue) : y.range = x.range
        /\ \A i \in DOMAIN metadata : \A x \in ToSet(metadata'[i].orphans) :
              \E y \in ToSet(metadata[i].orphans) : y.range = x.range
    BY <1>2, <2>2, AlikeRanges
  <2>4. /\ Len(metadata') = Len(metadata)
        /\ \A i \in DOMAIN metadata : metadata'[i].id = metadata[i].id
    BY <2>2 DEF AlikeAll
  <2>5. \A x \in AllDeletions : ~(/\ recv'.pc \in {"clone", "steady", "forget"}
                                  /\ recv'.range = x.range /\ x.range \notin exposed)
    BY <2>1
  <2> QED BY <1>1, <1>3, <2>1, <2>3, <2>4, <2>5, QuietSafe
<1>6. CASE /\ ~IsTracked(recv.range) /\ recv' = [recv EXCEPT !.pc = "clone"]
           /\ UNCHANGED <<metadata, queue>>
  <2>1. recv'.pc = "clone" /\ recv'.range = recv.range
    BY <1>2, <1>6 DEF RestOK
  <2>2. \A x \in AllDeletions : x.range # recv.range
    BY <1>6 DEF IsTracked, TrackersWith, Overlap, AllDeletions, TrackerOrphans, ToSet
  <2>3. \A i \in DOMAIN metadata : \A x \in ToSet(metadata'[i].orphans) :
           \E y \in ToSet(metadata[i].orphans) : y.range = x.range
    BY <1>6
  <2>4. \A x \in InQueue(queue') : \E y \in InQueue(queue) : y.range = x.range
    BY <1>6
  <2> QED BY <1>1, <1>3, <1>6, <2>1, <2>2, <2>3, <2>4, QuietSafe
<1> QED BY <1>4, <1>5, <1>6 DEF WaitForClean

\* A query, or the donor, takes the active chunk map.
LEMMA TakeActiveSafe ==
    ASSUME BasicInv, BasicInv', SafeInv, NEW h \in Holders,
           metadata # <<>>, held' = [held EXCEPT ![h] = Active.id],
           UNCHANGED <<config, known, metadata, receiving, queue, recv, arrived, docs, exposed>>
    PROVE  SafeInv'
<1>2. /\ RestOK /\ Len(metadata) \in Nat /\ DOMAIN metadata = 1 .. Len(metadata)
  BY BasicShape
<1>3. /\ VersionInv /\ ReceiveInv /\ DocsInv
      /\ Active.id[2] <= known /\ Agrees(Active.id[2])
  BY DEF SafeInv, VersionInv
<1>4. VersionInv'
  BY <1>3 DEF VersionInv, Active, Agrees, Arriving
<1>5. known \in DOMAIN config /\ known <= known
  <2>1. known \in DOMAIN config /\ DOMAIN config \subseteq Nat
    BY <1>2 DEF RestOK
  <2> QED BY <2>1
<1>6. ASSUME NEW j \in DOMAIN metadata', Live(metadata', held', j)
      PROVE  \/ \A r \in Ranges \ exposed' : r \in config'[metadata'[j].id[2]] => r \in config'[known']
             \/ j + 0 \in DOMAIN metadata /\ metadata'[j].id = metadata[j + 0].id
                /\ Live(metadata, held, j + 0)
  <2>1. j \in DOMAIN metadata /\ j + 0 = j
    BY <1>2
  <2>2. CASE j = Len(metadata)
    BY <2>1, <2>2 DEF Live
  <2>3. CASE j # Len(metadata)
    <3>1. PICK x \in Holders : held'[x] = metadata[j].id
      BY <1>6, <2>3 DEF Live
    <3>2. CASE held'[x] = held[x]
      BY <2>1, <3>1, <3>2 DEF Live
    <3>3. CASE held'[x] = Active.id
      BY <1>3, <1>5, <3>1, <3>3 DEF Agrees
    <3> QED BY <1>2, <3>2, <3>3 DEF RestOK
  <2> QED BY <2>2, <2>3
<1>7. Shifted(0)
  BY <1>5, <1>6 DEF Shifted
<1>8. ASSUME NEW x \in InQueue(queue') PROVE MayGo(x.range, 0)
  <2>1. x.range \in Ranges /\ Gone(x.range, 0) /\ ~Cloning(x.range) /\ 0 \in 0 .. 0
    BY DeletionFacts
  <2> QED BY <2>1 DEF MayGo, Gone, Cloning
<1>9. ASSUME NEW j \in DOMAIN metadata', NEW x \in ToSet(metadata'[j].orphans)
      PROVE  MayGo(x.range, j + 0)
  <2>1. j \in 0 .. j + 0
    BY <1>2
  <2>2. x.range \in Ranges /\ Gone(x.range, j) /\ ~Cloning(x.range)
    BY DeletionFacts
  <2> QED BY <2>1, <2>2 DEF MayGo, Gone, Cloning
<1>10. /\ arrived' \ exposed' \subseteq receiving'
       /\ recv'.pc # "idle" /\ recv'.range \notin exposed' =>
             /\ metadata' # <<>> /\ recv'.range \in receiving'
             /\ recv'.range \notin arrived' /\ Gone(recv'.range, 0)
       /\ recv'.pc = "steady" /\ recv'.range \notin exposed' => recv'.range \in docs'
       /\ \A r \in Ranges \ docs' : (r \in arrived' => r \in exposed') /\ Gone(r, 0)
  <2>1. \A r : Gone(r, 0) /\ r \notin exposed => r \notin arrived
    BY DEF Gone
  <2> QED BY <1>3, <2>1 DEF ReceiveInv, DocsInv, Arriving
<1>11. 0 \in Nat
  OBVIOUS
<1> QED BY <1>4, <1>7, <1>8, <1>9, <1>10, <1>11, SafeStep

LEMMA BeginQuerySafe ==
    ASSUME BasicInv, BasicInv', SafeInv, NEW q \in Queries, BeginQuery(q)
    PROVE  SafeInv'
<1>1. /\ metadata # <<>> /\ held' = [held EXCEPT ![q] = Active.id] /\ q \in Holders
      /\ UNCHANGED <<config, known, metadata, receiving, queue, recv, arrived, docs, exposed>>
  BY DEF BeginQuery, aux, Holders
<1> QED BY <1>1, TakeActiveSafe

\* The donor looks at the map it has refreshed.
LEMMA DonateCheckSafe ==
    ASSUME BasicInv, BasicInv', SafeInv, DonateCheck \/ DonateLeaves
    PROVE  SafeInv'
<1>1. UNCHANGED <<config, known, metadata, receiving, queue, recv, arrived, docs, exposed>>
  BY DEF DonateCheck, DonateLeaves, aux
<1>2. CASE UNCHANGED held
  BY <1>1, <1>2, DocsFacts, StillSafe
<1>3. CASE metadata # <<>> /\ held' = [held EXCEPT !["donor"] = Active.id]
  <2>1. "donor" \in Holders
    BY DEF Holders
  <2> QED BY <1>1, <1>3, <2>1, TakeActiveSafe
<1> QED BY <1>2, <1>3 DEF DonateCheck, DonateLeaves

\* The id of a tracker is not the absence of one.
LEMMA IdsAreTrackers ==
    ASSUME NEW p \in (0 .. MaxClears) \X DOMAIN config
    PROVE  p # NoTracker
<1>1. PICK a \in 0 .. MaxClears, b \in DOMAIN config : p = <<a, b>>
  OBVIOUS
<1>2. Len(<<a, b>>) = 2 /\ Len(NoTracker) = 0
  BY DEF NoTracker
<1> QED BY <1>1, <1>2

\* Trackers retire, after ms and held changed: each of ms was there before or is a new one
\* without deletions, and what is held was held before.
LEMMA RetireSafe ==
    ASSUME BasicInv, BasicInv', SafeInv, NEW ms \in Seq(Trackers), NEW h, Retire(ms, h),
           \A i \in 1 .. Len(ms) : \/ i \in DOMAIN metadata /\ ms[i] = metadata[i]
                                   \/ /\ ms[i].orphans = <<>>
                                      /\ \A r \in Ranges \ exposed' :
                                            r \in config[ms[i].id[2]] => r \in config[known'],
           \A x \in Holders : held'[x] = held[x] \/ held'[x] = NoTracker,
           VersionInv', known <= known', known' \in DOMAIN config, exposed \subseteq exposed',
           config' = config, recv' = recv, docs' = docs,
           arrived' \subseteq arrived, arrived' \ exposed' \subseteq receiving',
           recv.pc # "idle" /\ recv.range \notin exposed' =>
              metadata' # <<>> /\ recv.range \in receiving'
    PROVE  SafeInv'
<1>1. /\ StateOK /\ RestOK /\ queue \in QueueStates
      /\ \A t \in Trackers : t.orphans \in Seq(Deletion)
  BY BasicShape, ShapeFacts
<1>2. PICK k \in 0 .. Len(ms) :
              /\ ms # <<>> => k < Len(ms)
              /\ metadata' \in Seq(Trackers) /\ Len(metadata') = Len(ms) - k
              /\ \A i \in 1 .. Len(ms) - k : metadata'[i] = ms[i + k]
              /\ queue' \in QueueStates /\ HeadKept(queue, queue')
              /\ InQueue(queue') \subseteq
                     InQueue(queue) \cup UNION {ToSet(ms[i].orphans) : i \in 1 .. k}
              /\ \A busy \in BOOLEAN : WillRun(queue, busy) => WillRun(queue', busy)
  BY <1>1, RetireFacts
<1>3. k \in Nat /\ Len(ms) \in Nat /\ k <= Len(ms)
  BY <1>2
<1>4. \A j \in DOMAIN metadata' :
         /\ j \in Nat /\ j + k \in 1 .. Len(ms) /\ metadata'[j] = ms[j + k]
  <2>1. DOMAIN metadata' = 1 .. Len(ms) - k
    BY <1>2, NextShape
  <2>2. \A j \in 1 .. Len(ms) - k : j \in Nat /\ j + k \in 1 .. Len(ms)
    BY <1>3
  <2> QED BY <1>2, <2>1, <2>2
<1>5. ASSUME NEW j \in DOMAIN metadata', Live(metadata', held', j)
      PROVE  \/ \A r \in Ranges \ exposed' : r \in config'[metadata'[j].id[2]] => r \in config'[known']
             \/ j + k \in DOMAIN metadata /\ metadata'[j].id = metadata[j + k].id
                /\ Live(metadata, held, j + k)
  <2>1. CASE j = Len(metadata')
    <3>1. metadata' # <<>>
      BY <2>1, NextShape
    <3>2. Active'.id[2] <= known' /\ Agrees(Active.id[2])'
      BY <3>1 DEF VersionInv
    <3>3. known' \in DOMAIN config' /\ known' <= known'
      <4>1. DOMAIN config \subseteq Nat
        BY <1>1 DEF RestOK
      <4>2. known' \in Nat
        BY <4>1
      <4> QED BY <4>2
    <3> QED BY <2>1, <3>2, <3>3 DEF Agrees, Active
  <2>2. CASE j # Len(metadata')
    <3>1. PICK x \in Holders : held'[x] = metadata'[j].id
      BY <1>5, <2>2 DEF Live
    <3>2. metadata'[j].id # NoTracker
      <4>1. ms[j + k] \in Trackers /\ metadata'[j] = ms[j + k]
        BY <1>4
      <4>2. metadata'[j].id \in (0 .. MaxClears) \X DOMAIN config
        BY <4>1 DEF Trackers
      <4> QED BY <4>2, IdsAreTrackers
    <3>3. CASE held'[x] = held[x]
      <4>1. \/ \A r \in Ranges \ exposed' : r \in config'[metadata'[j].id[2]] => r \in config'[known']
            \/ j + k \in DOMAIN metadata /\ metadata'[j] = metadata[j + k]
        BY <1>4
      <4> QED BY <3>1, <3>3, <4>1 DEF Live
    <3> QED BY <3>1, <3>2, <3>3
  <2> QED BY <2>1, <2>2
<1>6. Shifted(k)
  BY <1>5 DEF Shifted
<1>7. ASSUME NEW r, NEW i \in Nat, NEW n \in Nat, i <= n, r \in Ranges, Gone(r, i), ~Cloning(r)
      PROVE  MayGo(r, n)
  <2>1. i \in 0 .. n
    BY <1>7
  <2> QED BY <1>7, <2>1 DEF MayGo, Gone, Cloning
<1>8. ASSUME NEW x \in InQueue(queue') PROVE MayGo(x.range, k)
  <2>1. CASE x \in InQueue(queue)
    <3>1. x.range \in Ranges /\ Gone(x.range, 0) /\ ~Cloning(x.range) /\ 0 \in Nat /\ 0 <= k
      BY <1>3, <2>1, DeletionFacts
    <3> QED BY <1>3, <1>7, <3>1
  <2>2. CASE x \notin InQueue(queue)
    <3>1. PICK i \in 1 .. k : x \in ToSet(ms[i].orphans)
      BY <1>2, <2>2
    <3>2. i \in 1 .. Len(ms) /\ i \in Nat /\ i <= k
      BY <1>3
    <3>3. i \in DOMAIN metadata /\ ms[i] = metadata[i]
      <4>1. ms[i].orphans # <<>>
        BY <3>1 DEF ToSet
      <4> QED BY <3>2, <4>1
    <3>4. x.range \in Ranges /\ Gone(x.range, i) /\ ~Cloning(x.range)
      BY <3>1, <3>3, DeletionFacts
    <3> QED BY <1>3, <1>7, <3>2, <3>4
  <2> QED BY <2>1, <2>2
<1>9. ASSUME NEW j \in DOMAIN metadata', NEW x \in ToSet(metadata'[j].orphans)
      PROVE  MayGo(x.range, j + k)
  <2>1. j + k \in 1 .. Len(ms) /\ j + k \in Nat /\ j + k <= j + k /\ metadata'[j] = ms[j + k]
    BY <1>3, <1>4
  <2>2. j + k \in DOMAIN metadata /\ ms[j + k] = metadata[j + k]
    <3>1. ms[j + k].orphans # <<>>
      BY <2>1 DEF ToSet
    <3> QED BY <2>1, <3>1
  <2>3. x.range \in Ranges /\ Gone(x.range, j + k) /\ ~Cloning(x.range)
    BY <2>1, <2>2, DeletionFacts
  <2> QED BY <1>7, <2>1, <2>3
<1>10. /\ recv'.pc # "idle" /\ recv'.range \notin exposed' =>
             /\ metadata' # <<>> /\ recv'.range \in receiving'
             /\ recv'.range \notin arrived' /\ Gone(recv'.range, 0)
       /\ recv'.pc = "steady" /\ recv'.range \notin exposed' => recv'.range \in docs'
       /\ \A r \in Ranges \ docs' : (r \in arrived' => r \in exposed') /\ Gone(r, 0)
  <2>1. \A r : Gone(r, 0) /\ r \notin exposed => r \notin arrived
    BY DEF Gone
  <2>2. /\ ReceiveInv /\ DocsInv
    BY DEF SafeInv
  <2> QED BY <2>1, <2>2 DEF ReceiveInv, DocsInv
<1> QED BY <1>3, <1>6, <1>8, <1>9, <1>10, SafeStep

\* A ScopedCollectionMetadata is released.
LEMMA ReleaseSafe ==
    ASSUME BasicInv, BasicInv', SafeInv, NEW y \in Holders,
           held' = [held EXCEPT ![y] = NoTracker], Retire(metadata, held'),
           UNCHANGED <<config, known, receiving, recv, arrived, docs, exposed>>
    PROVE  SafeInv'
<1>1. /\ StateOK /\ RestOK /\ metadata \in Seq(Trackers) /\ Sorted(metadata)
      /\ Len(metadata) \in Nat /\ DOMAIN metadata = 1 .. Len(metadata)
  BY BasicShape, ShapeFacts
<1>2. VersionInv /\ ReceiveInv
  BY DEF SafeInv
<1>3. /\ metadata # <<>> => metadata' # <<>> /\ Last(metadata') = Last(metadata)
      /\ metadata = <<>> => metadata' = <<>>
  BY <1>1, RetireShape
<1>4. metadata' # <<>> => metadata # <<>> /\ Active'.id = Active.id
  BY <1>3 DEF Active, Last
<1>5. VersionInv'
  BY <1>2, <1>4 DEF VersionInv, Agrees, Arriving
<1>6. known <= known' /\ known' \in DOMAIN config
  <2>1. known \in DOMAIN config /\ DOMAIN config \subseteq Nat
    BY <1>1 DEF RestOK
  <2> QED BY <2>1
<1>7. \A i \in 1 .. Len(metadata) : i \in DOMAIN metadata /\ metadata[i] = metadata[i]
  BY <1>1
<1>8. \A x \in Holders : held'[x] = held[x] \/ held'[x] = NoTracker
  BY <1>1 DEF RestOK
<1>9. /\ arrived' \ exposed' \subseteq receiving'
      /\ recv.pc # "idle" /\ recv.range \notin exposed' =>
            metadata' # <<>> /\ recv.range \in receiving'
  BY <1>2, <1>3 DEF ReceiveInv, Arriving
<1> QED BY <1>1, <1>5, <1>6, <1>7, <1>8, <1>9, RetireSafe

\* A query ends, or the donor does.
LEMMA EndSafe ==
    ASSUME BasicInv, BasicInv', SafeInv, DonateEnd \/ \E q \in Queries : EndQuery(q)
    PROVE  SafeInv'
<1>1. CASE DonateEnd
  <2>1. /\ held' = [held EXCEPT !["donor"] = NoTracker] /\ Retire(metadata, held')
        /\ UNCHANGED <<config, known, receiving, recv, arrived, docs, exposed>>
    BY <1>1 DEF DonateEnd, Release, aux
  <2>2. "donor" \in Holders
    BY DEF Holders
  <2> QED BY <2>1, <2>2, ReleaseSafe
<1>2. CASE \E q \in Queries : EndQuery(q)
  <2> PICK q \in Queries : EndQuery(q)
    BY <1>2
  <2>1. /\ held' = [held EXCEPT ![q] = NoTracker] /\ Retire(metadata, held')
        /\ UNCHANGED <<config, known, receiving, recv, arrived, docs, exposed>>
    BY DEF EndQuery, Release, aux
  <2>2. q \in Holders
    BY DEF Holders
  <2> QED BY <2>1, <2>2, ReleaseSafe
<1> QED BY <1>1, <1>2

\* A map becomes the active one: what it says about the versions.
LEMMA InstallVersion ==
    ASSUME BasicInv, BasicInv', SafeInv, NEW v \in DOMAIN config, SetActive(v), config' = config,
           metadata # <<>> => v > Active.id[2]
    PROVE  /\ VersionInv' /\ metadata' # <<>>
           /\ known <= known' /\ known' \in DOMAIN config /\ exposed \subseteq exposed'
           /\ \A r \in Ranges \ exposed' : r \in config[v] <=> r \in config[known']
<1> DEFINE t == [id |-> <<clears, v>>, orphans |-> <<>>]
           ms == Append(metadata, t)
<1>1. /\ Retire(ms, held) /\ known' = IF v > known THEN v ELSE known
      /\ arrived' = arrived \ (config[v] \cap Last(config))
      /\ exposed' = exposed \cup Doubtful(v)
  BY DEF SetActive
<1>2. /\ StateOK /\ RestOK /\ VersionInv
  BY BasicShape DEF SafeInv
<1>3. /\ known \in DOMAIN config /\ DOMAIN config \subseteq Nat
      /\ DOMAIN config = 1 .. Len(config) /\ Len(config) \in Nat /\ Len(config) \in DOMAIN config
      /\ Last(config) = config[Len(config)]
  BY <1>2 DEF RestOK, Last
<1>4. ms \in Seq(Trackers) /\ Sorted(ms) /\ ms # <<>> /\ Last(ms) = t
  BY <1>2, NewTracker
<1>5. t.id[2] = v
  OBVIOUS
<1> HIDE DEF t, ms
<1>6. metadata' # <<>> /\ Active'.id[2] = v
  <2>1. metadata' # <<>> /\ Last(metadata') = t
    BY <1>1, <1>2, <1>4, RetireShape
  <2> QED BY <1>5, <2>1 DEF Active, Last
<1>7. known <= known' /\ known' \in DOMAIN config /\ v <= known' /\ exposed \subseteq exposed'
  BY <1>1, <1>3
<1>8. ASSUME NEW r \in Ranges, r \notin exposed', NEW w \in DOMAIN config, v <= w, w <= known'
      PROVE  r \in config[w] <=> r \in config[v]
  <2>1. CASE v > known
    <3>1. w = v
      BY <1>1, <1>3, <1>8, <2>1
    <3> QED BY <3>1
  <2>2. CASE ~(v > known)
    <3>1. w \in v .. known /\ r \notin Doubtful(v)
      BY <1>1, <1>3, <1>8, <2>2
    <3> QED BY <3>1, Zenon DEF Doubtful
  <2> QED BY <2>1, <2>2
<1>9. \A r \in Ranges \ exposed' : r \in config[v] <=> r \in config[known']
  <2>1. known' <= known'
    BY <1>3, <1>7
  <2> QED BY <1>7, <1>8, <2>1
<1>10. ASSUME NEW r \in Ranges, r \notin exposed', r \in arrived
       PROVE  r \in arrived' <=> r \notin config[v]
  <2>1. r \notin exposed /\ r \in Arriving
    BY <1>7, <1>10 DEF Arriving
  <2>2. CASE v > known
    <3>1. known <= v /\ v <= Len(config)
      BY <1>3, <2>2
    <3>2. r \in config[v] => r \in Last(config)
      BY <1>2, <1>3, <1>10, <2>1, <3>1 DEF VersionInv
    <3> QED BY <1>1, <1>10, <3>2
  <2>3. CASE ~(v > known)
    <3>1. known' = known
      BY <1>1, <2>3
    <3>2. r \notin config[v]
      BY <1>2, <1>9, <1>10, <2>1, <3>1 DEF VersionInv
    <3> QED BY <1>1, <1>10, <3>2
  <2> QED BY <2>2, <2>3
<1>11. arrived' \subseteq arrived
  BY <1>1
<1>12. ASSUME NEW r \in Ranges, r \notin exposed', NEW a \in DOMAIN config, NEW b \in DOMAIN config,
              known' <= a, a <= b
       PROVE  /\ r \notin arrived' /\ r \in config[b] => r \in config[a]
              /\ r \in arrived' /\ r \in config[a] => r \in config[b]
  <2>1. known <= a /\ known <= known' /\ r \notin exposed
    BY <1>3, <1>7, <1>12
  <2>2. /\ r \notin arrived /\ r \in config[b] => r \in config[a]
        /\ r \in arrived /\ r \in config[a] => r \in config[b]
        /\ r \in arrived /\ r \in config[known'] => r \in config[a]
    BY <1>2, <1>7, <1>12, <2>1 DEF VersionInv
  <2> QED BY <1>9, <1>10, <1>11, <1>12, <2>2
<1>13. \A r \in arrived' \ exposed' : r \notin config[known']
  <2>1. arrived \subseteq Ranges
    BY <1>2 DEF RestOK
  <2> QED BY <1>9, <1>10, <1>11, <2>1
<1>14. VersionInv'
  <2>1. Agrees(Active.id[2])'
    BY <1>6, <1>8 DEF Agrees
  <2>2. Active'.id[2] <= known'
    BY <1>6, <1>7
  <2> QED BY <1>12, <1>13, <2>1, <2>2 DEF VersionInv, Arriving
<1> QED BY <1>6, <1>7, <1>9, <1>14

\* A map is installed, if it is a newer one than the active map.
LEMMA InstallSafe ==
    ASSUME BasicInv, BasicInv', SafeInv, NEW v \in DOMAIN config, Install(v),
           UNCHANGED <<config, recv, docs, held>>
    PROVE  SafeInv'
<1>1. /\ StateOK /\ RestOK /\ VersionInv /\ ReceiveInv /\ OneMigration
      /\ Len(metadata) \in Nat /\ DOMAIN metadata = 1 .. Len(metadata)
  BY BasicShape DEF SafeInv
<1>2. known \in DOMAIN config /\ DOMAIN config \subseteq Nat
  BY <1>1 DEF RestOK
<1>3. CASE metadata # <<>> /\ Active.id[2] >= v
  <2>1. UNCHANGED <<known, metadata, queue, receiving, arrived, exposed>>
    BY <1>3 DEF Install
  <2> QED BY <2>1, DocsFacts, StillSafe
<1>4. CASE ~(metadata # <<>> /\ Active.id[2] >= v)
  <2> DEFINE t == [id |-> <<clears, v>>, orphans |-> <<>>]
             ms == Append(metadata, t)
  <2>1. /\ SetActive(v) /\ Retire(ms, held)
        /\ receiving' = receiving \ config[v] /\ arrived' \subseteq arrived
    BY <1>4 DEF Install, SetActive
  <2>2. metadata # <<>> => v > Active.id[2]
    <3>1. metadata # <<>> => Active.id[2] \in DOMAIN config
      <4>1. metadata # <<>> => metadata[Len(metadata)] \in Trackers
        BY <1>1, ShapeFacts
      <4> QED BY <4>1 DEF Trackers, Active
    <3> QED BY <1>2, <1>4, <3>1
  <2>3. /\ VersionInv' /\ metadata' # <<>>
        /\ known <= known' /\ known' \in DOMAIN config /\ exposed \subseteq exposed'
        /\ \A r \in Ranges \ exposed' : r \in config[v] <=> r \in config[known']
    BY <2>1, <2>2, InstallVersion
  <2>4. /\ ms \in Seq(Trackers) /\ Len(ms) = Len(metadata) + 1
        /\ \A i \in DOMAIN metadata : ms[i] = metadata[i]
        /\ ms[Len(metadata) + 1] = t
    BY <1>1, <2>2, NewTracker
  <2>5. t.orphans = <<>> /\ t.id[2] = v
    OBVIOUS
  <2> HIDE DEF t, ms
  <2>6. \A i \in 1 .. Len(ms) : \/ i \in DOMAIN metadata /\ ms[i] = metadata[i]
                                \/ /\ ms[i].orphans = <<>>
                                   /\ \A r \in Ranges \ exposed' :
                                         r \in config[ms[i].id[2]] => r \in config[known']
    <3>1. \A i \in 1 .. Len(ms) : i \in DOMAIN metadata \/ i = Len(metadata) + 1
      BY <1>1, <2>4
    <3> QED BY <2>3, <2>4, <2>5, <3>1
  <2>7. arrived' \ exposed' \subseteq receiving'
    <3>1. arrived \subseteq Ranges /\ arrived \ exposed \subseteq receiving
      BY <1>1 DEF RestOK, ReceiveInv, Arriving
    <3>2. \A r \in arrived' \ exposed' : r \notin config[known']
      BY <2>3 DEF VersionInv, Arriving
    <3> QED BY <2>1, <2>3, <3>1, <3>2
  <2>8. recv.pc # "idle" /\ recv.range \notin exposed' =>
           metadata' # <<>> /\ recv.range \in receiving'
    <3> SUFFICES ASSUME recv.pc # "idle", recv.range \notin exposed'
                 PROVE  recv.range \in receiving'
      BY <2>3
    <3>1. /\ recv.range \in Ranges /\ recv.range \notin exposed /\ recv.range \in receiving
          /\ recv.range \notin config[known] /\ recv.range \notin arrived
      BY <1>1, <2>3 DEF ReceiveInv, OneMigration, Gone
    <3>2. known <= known
      BY <1>2
    <3>3. recv.range \notin config[known']
      BY <1>1, <1>2, <2>3, <3>1, <3>2 DEF VersionInv
    <3> QED BY <2>1, <2>3, <3>1, <3>3
  <2>9. \A x \in Holders : held'[x] = held[x] \/ held'[x] = NoTracker
    OBVIOUS
  <2> QED BY <2>1, <2>3, <2>4, <2>6, <2>7, <2>8, <2>9, RetireSafe
<1> QED BY <1>3, <1>4

\* A refresh, and the one after the donor's commit.
LEMMA RefreshSafe ==
    ASSUME BasicInv, BasicInv', SafeInv, NEW v \in DOMAIN config, Refresh(v) \/ DonateRefresh(v)
    PROVE  SafeInv'
<1>1. Install(v) /\ UNCHANGED <<config, recv, docs, held>>
  BY DEF Refresh, DonateRefresh
<1> QED BY <1>1, InstallSafe

\* The metadata is cleared: what loses its protection is exposed.
LEMMA ClearSafe ==
    ASSUME BasicInv, BasicInv', SafeInv, Clear \/ DonateRefreshFails
    PROVE  SafeInv'
<1>1. /\ receiving' = {} /\ metadata' = <<>>
      /\ queue' = [queue EXCEPT !.orphans = <<>>, !.delayed = <<>>]
      /\ exposed' = exposed \cup arrived
                       \cup {r \in Ranges : recv.range = r /\ recv.pc # "wait"}
      /\ UNCHANGED <<config, known, held, arrived, docs>>
  BY DEF Clear, DonateRefreshFails, ClearMetadata, Abandon
<1>2. /\ StateOK /\ RestOK /\ OneMigration /\ queue \in QueueStates
      /\ SomeWaits(metadata, queue, "recv") <=> recv.pc = "wait"
      /\ SomeWaits(metadata, queue, "donor") <=> donate.pc = "wait"
  BY BasicFacts, ShapeFacts, BasicShape
<1>3. recv'.pc # "idle" => recv.pc # "idle" /\ recv.pc # "wait" /\ recv'.range = recv.range
  <2>1. CASE Clear
    <3>1. Notify(AllDeletions, FALSE)
      BY <2>1 DEF Clear
    <3>2. Waits("recv", AllDeletions) <=> recv.pc = "wait"
      BY <1>2, AllWaits
    <3> QED BY <3>1, <3>2 DEF Notify, NoRecv
  <2>2. CASE DonateRefreshFails
    BY <1>2, <2>2 DEF DonateRefreshFails, OneMigration
  <2> QED BY <2>1, <2>2
<1>4. recv'.pc # "idle" => recv'.range \in exposed'
  BY <1>1, <1>2, <1>3 DEF OneMigration
<1>5. ~(\E x : x \in InQueue(queue')) /\ ~(\E j : j \in DOMAIN metadata')
  BY <1>1, <1>2 DEF QueueStates, InQueue, ToSet
<1>6. known \in DOMAIN config /\ known <= known /\ 0 \in Nat
  <2>1. known \in DOMAIN config /\ DOMAIN config \subseteq Nat
    BY <1>2 DEF RestOK
  <2> QED BY <2>1
<1>7. exposed \subseteq exposed' /\ arrived' \subseteq exposed'
  BY <1>1
<1>8. Shifted(0)
  BY <1>1, <1>5, <1>6, <1>7 DEF Shifted
<1>9. VersionInv'
  BY <1>1, <1>7 DEF SafeInv, VersionInv, Arriving
<1>10. \A r \in Ranges \ docs' : (r \in arrived' => r \in exposed') /\ Gone(r, 0)
  BY <1>1, <1>7, DocsFacts
<1>11. recv'.pc = "steady" => recv'.pc # "idle"
  OBVIOUS
<1> QED BY <1>4, <1>5, <1>6, <1>7, <1>8, <1>9, <1>10, <1>11, SafeStep

\* A step that leaves the trackers and the documents where they are, and asks for no
\* deletion but one of range r, which is gone as far as tracker n.
LEMMA AskSafe ==
    ASSUME BasicInv, BasicInv', SafeInv, NEW r \in Ranges, NEW n \in Nat, Gone(r, n),
           UNCHANGED <<config, known, held, arrived, docs, exposed>>,
           Len(metadata') = Len(metadata),
           \A i \in DOMAIN metadata : metadata'[i].id = metadata[i].id,
           \A x \in InQueue(queue') : x \in InQueue(queue) \/ (n = 0 /\ x.range = r),
           \A i \in DOMAIN metadata : \A x \in ToSet(metadata'[i].orphans) :
              x \in ToSet(metadata[i].orphans) \/ (i = n /\ x.range = r),
           recv'.pc \in {"clone", "steady", "forget"} => recv' = recv,
           ~(recv'.pc \in {"clone", "steady", "forget"} /\ recv'.range = r /\ r \notin exposed),
           arrived' \ exposed' \subseteq receiving',
           recv'.pc # "idle" /\ recv'.range \notin exposed =>
              recv'.range \in receiving' /\ Gone(recv'.range, 0),
           metadata # <<>>
    PROVE  SafeInv'
<1>1. /\ Len(metadata) \in Nat /\ DOMAIN metadata = 1 .. Len(metadata)
      /\ metadata # <<>> <=> Len(metadata) \in DOMAIN metadata
  BY BasicShape
<1>2. DOMAIN metadata' = DOMAIN metadata /\ metadata' # <<>>
  BY <1>1, NextShape
<1>3. VersionInv /\ 0 \in Nat
  BY DEF SafeInv
<1>4. Shifted(0) /\ VersionInv'
  BY <1>3, SameTrackers
<1>5. \A q : Gone(q, 0) /\ q \notin exposed => q \notin arrived
  BY DEF Gone
<1>6. \A q \in Ranges \ docs' : (q \in arrived' => q \in exposed') /\ Gone(q, 0)
  BY <1>5, DocsFacts
<1>7. recv'.pc = "steady" /\ recv'.range \notin exposed' => recv'.range \in docs'
  BY DocsFacts
<1>8. r \in arrived => r \in exposed
  BY DEF Gone
<1>9. ASSUME NEW x \in InQueue(queue') PROVE MayGo(x.range, 0)
  <2>1. CASE x \in InQueue(queue)
    <3>1. x.range \in Ranges /\ Gone(x.range, 0) /\ ~Cloning(x.range) /\ 0 \in 0 .. 0
      BY <2>1, DeletionFacts
    <3> QED BY <3>1 DEF MayGo, Gone, Cloning
  <2>2. CASE n = 0 /\ x.range = r
    <3>1. 0 \in 0 .. 0
      OBVIOUS
    <3> QED BY <1>8, <2>2, <3>1 DEF MayGo
  <2> QED BY <2>1, <2>2
<1>10. ASSUME NEW j \in DOMAIN metadata', NEW x \in ToSet(metadata'[j].orphans)
       PROVE  MayGo(x.range, j + 0)
  <2>1. j \in DOMAIN metadata /\ j \in 0 .. j + 0
    BY <1>1, <1>2
  <2>2. CASE x \in ToSet(metadata[j].orphans)
    <3>1. x.range \in Ranges /\ Gone(x.range, j) /\ ~Cloning(x.range)
      BY <2>1, <2>2, DeletionFacts
    <3> QED BY <2>1, <3>1 DEF MayGo, Gone, Cloning
  <2>3. CASE j = n /\ x.range = r
    BY <1>8, <2>1, <2>3 DEF MayGo
  <2> QED BY <2>1, <2>2, <2>3
<1> QED BY <1>2, <1>3, <1>4, <1>5, <1>6, <1>7, <1>9, <1>10, SafeStep

\* cleanUpRange
LEMMA CleanUpSafe ==
    ASSUME BasicInv, BasicInv', SafeInv, NEW r \in Ranges, NEW later \in BOOLEAN,
           NEW W \in SUBSET Waiters, metadata # <<>>, ~Refused(r), CleanUpRange(r, later, W),
           UNCHANGED <<config, known, held, receiving, recv, arrived, docs, exposed>>
    PROVE  SafeInv'
<1> DEFINE n == FindNewestOverlapping(r)
           x == [range |-> r, later |-> later, waiters |-> W]
<1>1. /\ StateOK /\ VersionInv /\ ReceiveInv
      /\ Len(metadata) \in Nat /\ DOMAIN metadata = 1 .. Len(metadata)
      /\ \A i \in DOMAIN metadata : metadata[i].orphans \in Seq(Deletion)
      /\ queue \in QueueStates
  BY BasicShape, ShapeFacts DEF SafeInv
<1>2. /\ n = 0 \/ n \in DOMAIN metadata
      /\ \A j \in DOMAIN metadata :
            n < j /\ (j = Len(metadata) \/ InUse(metadata[j])) => r \notin Owned(j)
  BY <1>1, FindFacts
<1>3. x \in Deletion /\ x.range = r
  BY DEF Deletion
<1>4. \/ n = 0 /\ queue' = Add(queue, <<x>>) /\ metadata' = metadata
      \/ n # 0 /\ queue' = queue
         /\ metadata' = [metadata EXCEPT ![n].orphans = Append(@, x)]
  BY DEF CleanUpRange
<1> HIDE DEF n, x
<1>5. n \in Nat
  BY <1>1, <1>2
<1>6. r \notin receiving /\ (r \notin exposed => r \notin config[known] /\ r \notin arrived)
  <2>1. /\ r \notin receiving /\ r \notin config[Active.id[2]]
        /\ Active.id[2] <= known /\ Agrees(Active.id[2])
    BY <1>1 DEF Refused, Owned, Active, VersionInv
  <2>2. known \in DOMAIN config /\ known <= known
    <3>1. known \in DOMAIN config /\ DOMAIN config \subseteq Nat
      BY BasicShape DEF RestOK
    <3> QED BY <3>1
  <2> QED BY <1>1, <2>1, <2>2 DEF Agrees, ReceiveInv, Arriving
<1>7. Gone(r, n)
  BY <1>2, <1>6 DEF Gone
<1>8. ~(recv'.pc \in {"clone", "steady", "forget"} /\ recv'.range = r /\ r \notin exposed)
  BY <1>1, <1>6 DEF ReceiveInv
<1>9. \A y \in InQueue(queue') : y \in InQueue(queue) \/ (n = 0 /\ y.range = r)
  <2>1. CASE n = 0 /\ queue' = Add(queue, <<x>>)
    <3>1. InQueue(Add(queue, <<x>>)) \subseteq InQueue(queue) \cup {x}
      BY <1>1, <1>3, PushOne
    <3> QED BY <1>3, <2>1, <3>1
  <2> QED BY <1>4, <2>1
<1>10. /\ Len(metadata') = Len(metadata)
       /\ \A i \in DOMAIN metadata : metadata'[i].id = metadata[i].id
       /\ \A i \in DOMAIN metadata : \A y \in ToSet(metadata'[i].orphans) :
             y \in ToSet(metadata[i].orphans) \/ (i = n /\ y.range = r)
  <2>1. CASE metadata' = metadata
    BY <2>1
  <2>2. CASE n # 0 /\ metadata' = [metadata EXCEPT ![n].orphans = Append(@, x)]
    <3> DEFINE o == Append(metadata[n].orphans, x)
    <3>1. n \in DOMAIN metadata /\ metadata[n] \in Trackers
      BY <1>1, <1>2, <2>2, ShapeFacts
    <3>2. \A y \in ToSet(o) : y \in ToSet(metadata[n].orphans) \/ y = x
      <4>1. metadata[n].orphans \in Seq(Deletion)
        BY <1>1, <3>1
      <4> QED BY <1>3, <4>1 DEF ToSet
    <3>3. metadata' = [metadata EXCEPT ![n] = [metadata[n] EXCEPT !.orphans = o]]
      BY <2>2, <3>1
    <3> HIDE DEF o
    <3>4. /\ metadata'[n].id = metadata[n].id /\ metadata'[n].orphans = o
          /\ \A i \in DOMAIN metadata : i # n => metadata'[i] = metadata[i]
      BY <3>1, <3>3 DEF Trackers
    <3>5. Len(metadata') = Len(metadata)
      <4>1. DOMAIN metadata' = DOMAIN metadata
        BY <3>3
      <4>2. Len(metadata') \in Nat /\ DOMAIN metadata' = 1 .. Len(metadata')
        BY NextShape
      <4> QED BY <1>1, <4>1, <4>2
    <3> QED BY <1>3, <3>2, <3>4, <3>5
  <2> QED BY <1>4, <2>1, <2>2
<1>11. /\ arrived' \ exposed' \subseteq receiving'
       /\ recv'.pc # "idle" /\ recv'.range \notin exposed =>
             recv'.range \in receiving' /\ Gone(recv'.range, 0)
  BY <1>1 DEF ReceiveInv, Arriving
<1> QED BY <1>5, <1>7, <1>8, <1>9, <1>10, <1>11, AskSafe

\* The command cleanupOrphaned.
LEMMA CleanupOrphanedSafe ==
    ASSUME BasicInv, BasicInv', SafeInv, NEW r \in Ranges, CleanupOrphaned(r)
    PROVE  SafeInv'
<1>1. /\ metadata # <<>> /\ ~Refused(r) /\ CleanUpRange(r, FALSE, {})
      /\ UNCHANGED <<config, known, held, receiving, recv, arrived, docs, exposed>>
  BY DEF CleanupOrphaned, aux
<1>2. {} \in SUBSET Waiters /\ FALSE \in BOOLEAN
  OBVIOUS
<1> QED BY <1>1, <1>2, CleanUpSafe

\* The donor asks for the deletion of what it gave away.
LEMMA DonateCleanUpSafe ==
    ASSUME BasicInv, BasicInv', SafeInv, NEW later \in BOOLEAN, DonateCleanUp(later)
    PROVE  SafeInv'
<1>1. /\ donate.pc = "cleanup" /\ metadata # <<>>
      /\ UNCHANGED <<config, known, held, receiving, recv, arrived, docs, exposed>>
  BY DEF DonateCleanUp, aux
<1>2. RestOK /\ donate.range \in Ranges
  BY <1>1, BasicShape DEF OneMigration
<1>3. CASE Refused(donate.range)
  <2>1. queue' = queue /\ metadata' = metadata /\ donate'.pc = "leave"
    BY <1>2, <1>3 DEF DonateCleanUp, RestOK
  <2> QED BY <1>1, <2>1, DocsFacts, StillSafe
<1>4. CASE ~Refused(donate.range)
  <2> PICK r \in Ranges : r = donate.range
    BY <1>2
  <2> PICK W \in SUBSET Waiters : W = IF later THEN {} ELSE {"donor"}
    BY DEF Waiters
  <2>1. ~Refused(r) /\ CleanUpRange(r, later, W)
    BY <1>4 DEF DonateCleanUp
  <2> QED BY <1>1, <2>1, CleanUpSafe
<1> QED BY <1>3, <1>4

\* beginReceive: the range that is going to be received is cleaned up first.
LEMMA BeginReceiveSafe ==
    ASSUME BasicInv, BasicInv', SafeInv, NEW r \in Ranges, BeginReceive(r)
    PROVE  SafeInv'
<1> DEFINE x == [range |-> r, later |-> FALSE, waiters |-> {"recv"}]
<1>1. /\ r \notin arrived /\ metadata # <<>> /\ FindNewestOverlapping(r) = 0
      /\ receiving' = receiving \cup {r} /\ recv' = [pc |-> "wait", range |-> r]
      /\ queue' = Add(queue, <<x>>)
      /\ UNCHANGED <<config, known, held, metadata, arrived, docs, exposed>>
  BY DEF BeginReceive, PushRange
<1>2. /\ StateOK /\ VersionInv /\ ReceiveInv /\ queue \in QueueStates
      /\ Len(metadata) \in Nat /\ DOMAIN metadata = 1 .. Len(metadata)
  BY BasicShape, ShapeFacts DEF SafeInv
<1>3. x \in Deletion /\ x.range = r
  BY DEF Deletion, Waiters
<1> HIDE DEF x
<1>4. \A j \in DOMAIN metadata :
         0 < j /\ (j = Len(metadata) \/ InUse(metadata[j])) => r \notin Owned(j)
  BY <1>1, <1>2, FindFacts
<1>5. r \notin exposed => r \notin config[known]
  <2>1. Len(metadata) \in DOMAIN metadata /\ 0 < Len(metadata)
    BY <1>1, <1>2
  <2>2. r \notin config[Active.id[2]] /\ Active.id[2] <= known /\ Agrees(Active.id[2])
    BY <1>1, <1>2, <1>4, <2>1 DEF VersionInv, Active, Owned
  <2>3. known \in DOMAIN config /\ known <= known
    <3>1. known \in DOMAIN config /\ DOMAIN config \subseteq Nat
      BY BasicShape DEF RestOK
    <3> QED BY <3>1
  <2> QED BY <2>2, <2>3 DEF Agrees
<1>6. Gone(r, 0) /\ 0 \in Nat
  BY <1>1, <1>4, <1>5 DEF Gone
<1>7. InQueue(queue') \subseteq InQueue(queue) \cup {x}
  BY <1>1, <1>2, <1>3, PushOne
<1>8. \A y \in InQueue(queue') : y \in InQueue(queue) \/ (0 = 0 /\ y.range = r)
  BY <1>3, <1>7
<1>9. /\ recv'.pc = "wait" /\ recv'.range = r /\ arrived' \ exposed' \subseteq receiving'
  BY <1>1, <1>2 DEF ReceiveInv, Arriving
<1> QED BY <1>1, <1>6, <1>8, <1>9, AskSafe

\* forgetReceive: what has been cloned in vain is cleaned up.
LEMMA ForgetSafe ==
    ASSUME BasicInv, BasicInv', SafeInv, Forget
    PROVE  SafeInv'
<1>1. /\ recv.pc = "forget" /\ recv' = NoRecv /\ recv'.pc = "idle"
      /\ UNCHANGED <<config, known, held, metadata, arrived, docs, exposed>>
  BY DEF Forget, aux, NoRecv
<1>2. /\ StateOK /\ OneMigration /\ ReceiveInv /\ queue \in QueueStates
  BY BasicShape, ShapeFacts DEF SafeInv
<1>3. CASE metadata = <<>>
  <2>1. UNCHANGED <<receiving, queue>>
    BY <1>3 DEF Forget
  <2> QED BY <1>1, <2>1, DocsFacts, StillSafe
<1>4. CASE metadata # <<>>
  <2> PICK r : r = recv.range
    OBVIOUS
  <2>1. r \in Ranges /\ Gone(r, 0) /\ (r \in arrived => r \in exposed)
    <3>1. r \in Ranges /\ (r \notin exposed => Gone(r, 0))
      BY <1>1, <1>2 DEF ReceiveInv, OneMigration
    <3> QED BY <3>1 DEF Gone
  <2> DEFINE x == [range |-> r, later |-> FALSE, waiters |-> {}]
  <2>2. receiving' = receiving \ {r} /\ queue' = Add(queue, <<x>>)
    BY <1>4 DEF Forget, PushRange
  <2>3. x \in Deletion /\ x.range = r
    BY <2>1 DEF Deletion
  <2> HIDE DEF x
  <2>4. InQueue(queue') \subseteq InQueue(queue) \cup {x}
    BY <1>2, <2>2, <2>3, PushOne
  <2>5. \A y \in InQueue(queue') : y \in InQueue(queue) \/ (0 = 0 /\ y.range = r)
    BY <2>3, <2>4
  <2>6. arrived' \ exposed' \subseteq receiving' /\ 0 \in Nat
    BY <1>1, <1>2, <2>1, <2>2 DEF ReceiveInv, Arriving
  <2> QED BY <1>1, <1>4, <2>1, <2>5, <2>6, AskSafe
<1> QED BY <1>3, <1>4

\* A step of the config server or of the other shard, which changes none of the trackers,
\* and the end of a migration.
LEMMA RemoteSafe ==
    ASSUME BasicInv, BasicInv', SafeInv, VersionInv',
           \A v \in DOMAIN config : v \in DOMAIN config' /\ config'[v] = config[v],
           UNCHANGED <<known, held, metadata, queue, receiving, docs, exposed>>,
           recv' = recv \/ recv'.pc = "idle",
           \A r \in arrived' : \/ r \in arrived \/ r \in exposed
                               \/ r \in docs /\ r \in receiving /\ Cloning(r),
           recv'.pc # "idle" => arrived' \subseteq arrived
    PROVE  SafeInv'
<1>1. /\ RestOK /\ VersionInv /\ ReceiveInv
      /\ Len(metadata) \in Nat /\ DOMAIN metadata = 1 .. Len(metadata)
  BY BasicShape DEF SafeInv
<1>2. known <= known' /\ known' \in DOMAIN config /\ 0 \in Nat
  <2>1. known \in DOMAIN config /\ DOMAIN config \subseteq Nat
    BY <1>1 DEF RestOK
  <2> QED BY <2>1
<1>3. \A j \in DOMAIN metadata : j + 0 = j /\ j \in 0 .. j + 0
  BY <1>1
<1>4. Shifted(0)
  BY <1>2, <1>3 DEF Shifted
<1>5. \A q, i : Gone(q, i) /\ q \notin exposed => q \notin arrived
  BY DEF Gone
<1>6. ASSUME NEW q \in Ranges, NEW i, Gone(q, i), ~Cloning(q), NEW n, i \in 0 .. n
      PROVE  MayGo(q, n)
  BY <1>5, <1>6 DEF MayGo, Cloning
<1>7. ASSUME NEW x \in InQueue(queue') PROVE MayGo(x.range, 0)
  <2>1. x.range \in Ranges /\ Gone(x.range, 0) /\ ~Cloning(x.range) /\ 0 \in 0 .. 0
    BY DeletionFacts
  <2> QED BY <1>6, <2>1
<1>8. ASSUME NEW j \in DOMAIN metadata', NEW x \in ToSet(metadata'[j].orphans)
      PROVE  MayGo(x.range, j + 0)
  <2>1. x.range \in Ranges /\ Gone(x.range, j) /\ ~Cloning(x.range) /\ j \in 0 .. j + 0
    BY <1>3, DeletionFacts
  <2> QED BY <1>6, <2>1
<1>9. \A q \in Ranges \ docs' : (q \in arrived' => q \in exposed') /\ Gone(q, 0)
  BY <1>5, DocsFacts
<1>10. /\ arrived' \ exposed' \subseteq receiving'
       /\ recv'.pc # "idle" /\ recv'.range \notin exposed' =>
             /\ metadata' # <<>> /\ recv'.range \in receiving'
             /\ recv'.range \notin arrived' /\ Gone(recv'.range, 0)
       /\ recv'.pc = "steady" /\ recv'.range \notin exposed' => recv'.range \in docs'
  BY <1>1, <1>5, DocsFacts DEF ReceiveInv, Arriving
<1> QED BY <1>2, <1>4, <1>7, <1>8, <1>9, <1>10, SafeStep

\* The migration is over for the recipient.
LEMMA FinishSafe ==
    ASSUME BasicInv, BasicInv', SafeInv, Finish
    PROVE  SafeInv'
<1>1. /\ recv.pc = "steady" /\ recv' = NoRecv /\ arrived' = arrived \cup {recv.range}
      /\ UNCHANGED <<config, known, held, metadata, queue, receiving, docs, exposed>>
  BY DEF Finish, aux
<1>2. /\ RestOK /\ VersionInv /\ ReceiveInv /\ (recv.range \notin exposed => recv.range \in docs)
  BY <1>1, BasicShape, DocsFacts DEF SafeInv
<1>3. known \in DOMAIN config /\ DOMAIN config \subseteq Nat
  BY <1>2 DEF RestOK
<1>4. recv.range \notin exposed =>
         recv.range \notin config[known] /\ recv.range \notin arrived /\ recv.range \in receiving
  BY <1>1, <1>2 DEF ReceiveInv, Gone
<1>5. recv.range \in Ranges \ exposed =>
         \A w \in DOMAIN config : known <= w => recv.range \notin config[w]
  <2>1. known <= known
    BY <1>3
  <2> QED BY <1>2, <1>3, <1>4, <2>1 DEF VersionInv
<1>6. \A v, w \in DOMAIN config : known <= v /\ v <= w => known <= w
  BY <1>3
<1>7. VersionInv'
  <2>1. metadata' # <<>> => Active'.id[2] <= known' /\ Agrees(Active.id[2])'
    BY <1>1, <1>2 DEF VersionInv, Active, Agrees
  <2>2. ASSUME NEW r \in Ranges \ exposed, NEW v \in DOMAIN config, NEW w \in DOMAIN config,
               known <= v, v <= w
        PROVE  /\ r \notin arrived' /\ r \in config[w] => r \in config[v]
               /\ r \in arrived' /\ r \in config[v] => r \in config[w]
    <3>1. CASE r = recv.range
      BY <1>1, <1>5, <2>2, <3>1
    <3>2. CASE r # recv.range
      BY <1>1, <1>2, <2>2, <3>2 DEF VersionInv
    <3> QED BY <3>1, <3>2
  <2>3. \A r \in arrived' \ exposed : r \notin config[known]
    BY <1>1, <1>2, <1>4 DEF VersionInv, Arriving
  <2> QED BY <1>1, <2>1, <2>2, <2>3 DEF VersionInv, Arriving
<1>8. /\ recv'.pc = "idle"
      /\ \A r \in arrived' : \/ r \in arrived \/ r \in exposed
                             \/ r \in docs /\ r \in receiving /\ Cloning(r)
  BY <1>1, <1>2, <1>4 DEF NoRecv, Cloning
<1> QED BY <1>1, <1>7, <1>8, RemoteSafe

\* The donor of an arrived range has given up.
LEMMA RemoteAbortSafe ==
    ASSUME BasicInv, BasicInv', SafeInv, NEW r \in Ranges, RemoteAbort(r)
    PROVE  SafeInv'
<1>1. /\ r \in arrived \ Last(config) /\ arrived' = arrived \ {r}
      /\ UNCHANGED <<config, known, held, metadata, queue, receiving, docs, exposed, recv>>
  BY DEF RemoteAbort, aux
<1>2. RestOK /\ VersionInv
  BY BasicShape DEF SafeInv
<1>3. /\ known \in DOMAIN config /\ DOMAIN config = 1 .. Len(config) /\ Len(config) \in Nat
      /\ Len(config) \in DOMAIN config
  BY <1>2 DEF RestOK
<1>4. VersionInv'
  <2>1. metadata' # <<>> => Active'.id[2] <= known' /\ Agrees(Active.id[2])'
    BY <1>1, <1>2 DEF VersionInv, Active, Agrees
  <2>2. ASSUME NEW q \in Ranges \ exposed, NEW v \in DOMAIN config, NEW w \in DOMAIN config,
               known <= v, v <= w
        PROVE  /\ q \notin arrived' /\ q \in config[w] => q \in config[v]
               /\ q \in arrived' /\ q \in config[v] => q \in config[w]
    <3>1. CASE q = r
      <4>1. known <= w /\ w <= Len(config)
        BY <1>3, <2>2
      <4>2. q \in config[w] => q \in config[Len(config)]
        BY <1>1, <1>2, <1>3, <3>1, <4>1 DEF VersionInv
      <4> QED BY <1>1, <3>1, <4>2 DEF Last
    <3>2. CASE q # r
      BY <1>1, <1>2, <2>2, <3>2 DEF VersionInv
    <3> QED BY <3>1, <3>2
  <2>3. \A q \in arrived' \ exposed : q \notin config[known]
    BY <1>1, <1>2 DEF VersionInv, Arriving
  <2> QED BY <1>1, <2>1, <2>2, <2>3 DEF VersionInv, Arriving
<1> QED BY <1>1, <1>4, RemoteSafe

\* The config server commits a change that gives this shard only what has arrived, and
\* takes only what has not.
LEMMA CommitSafe ==
    ASSUME BasicInv, BasicInv', SafeInv, NEW c \in SUBSET Ranges, Len(config) < MaxVersion,
           config' = Append(config, c),
           \A r \in Ranges \ exposed : /\ r \notin arrived /\ r \in c => r \in Last(config)
                                       /\ r \in arrived /\ r \in Last(config) => r \in c,
           UNCHANGED <<known, held, metadata, queue, receiving, docs, recv, exposed>>,
           arrived' \subseteq arrived, arrived \ arrived' \subseteq exposed
    PROVE  SafeInv'
<1>1. RestOK /\ VersionInv
  BY BasicShape DEF SafeInv
<1>2. /\ known \in DOMAIN config /\ DOMAIN config = 1 .. Len(config) /\ Len(config) \in Nat
      /\ Len(config) \in DOMAIN config
  BY <1>1 DEF RestOK
<1>3. /\ \A v \in DOMAIN config : v \in DOMAIN config' /\ config'[v] = config[v]
      /\ config'[Len(config) + 1] = c /\ DOMAIN config' = 1 .. Len(config) + 1
  BY <1>1, <1>2 DEF RestOK
<1>4. VersionInv'
  <2>1. metadata' # <<>> => Active'.id[2] <= known' /\ Agrees(Active.id[2])'
    <3> SUFFICES ASSUME metadata # <<>>
                 PROVE  Active.id[2] <= known /\ Agrees(Active.id[2])'
      BY DEF Active
    <3>1. Active.id[2] <= known /\ Agrees(Active.id[2]) /\ Active.id[2] \in DOMAIN config
      <4>1. metadata[Len(metadata)] \in Trackers
        BY BasicShape, ShapeFacts
      <4> QED BY <1>1, <4>1 DEF VersionInv, Active, Trackers
    <3>2. \A w \in DOMAIN config' : w <= known => w \in DOMAIN config
      BY <1>2, <1>3
    <3>3. Active' = Active
      BY DEF Active
    <3> QED BY <1>3, <3>1, <3>2, <3>3 DEF Agrees
  <2>2. ASSUME NEW q \in Ranges \ exposed, NEW v \in DOMAIN config', NEW w \in DOMAIN config',
               known <= v, v <= w
        PROVE  /\ q \notin arrived /\ q \in config'[w] => q \in config'[v]
               /\ q \in arrived /\ q \in config'[v] => q \in config'[w]
    <3>1. CASE w \in DOMAIN config
      <4>1. v \in DOMAIN config
        BY <1>2, <1>3, <2>2, <3>1
      <4> QED BY <1>1, <1>3, <2>2, <3>1, <4>1 DEF VersionInv
    <3>2. CASE w = Len(config) + 1 /\ v = Len(config) + 1
      BY <3>2
    <3>3. CASE w = Len(config) + 1 /\ v # Len(config) + 1
      <4>1. v \in DOMAIN config /\ v <= Len(config)
        BY <1>2, <1>3, <2>2, <3>3
      <4>2. /\ q \notin arrived /\ q \in config[Len(config)] => q \in config[v]
            /\ q \in arrived /\ q \in config[v] => q \in config[Len(config)]
        BY <1>1, <1>2, <2>2, <4>1 DEF VersionInv
      <4> QED BY <1>3, <3>3, <4>1, <4>2 DEF Last
    <3> QED BY <1>2, <1>3, <3>1, <3>2, <3>3
  <2>3. \A q \in arrived' \ exposed : q \notin config'[known']
    BY <1>1, <1>2, <1>3 DEF VersionInv, Arriving
  <2> QED BY <2>1, <2>2, <2>3 DEF VersionInv, Arriving
<1> QED BY <1>3, <1>4, RemoteSafe

\* The donor of this shard, or of what has arrived, commits.
LEMMA ConfigSafe ==
    ASSUME BasicInv, BasicInv', SafeInv, NEW r \in Ranges, DonateCommit(r) \/ RemoteCommit(r)
    PROVE  SafeInv'
<1>1. /\ RestOK /\ VersionInv
  BY BasicShape DEF SafeInv
<1>2. Last(config) \in SUBSET Ranges
  <2>1. Len(config) \in DOMAIN config
    BY <1>1 DEF RestOK
  <2> QED BY <1>1, <2>1 DEF RestOK, Last
<1>3. CASE RemoteCommit(r)
  <2> DEFINE c == Last(config) \cup {r}
  <2>1. /\ r \in arrived /\ Len(config) < MaxVersion /\ config' = Append(config, c)
        /\ UNCHANGED <<known, held, metadata, queue, receiving, docs, recv, arrived, exposed>>
    BY <1>3 DEF RemoteCommit, aux
  <2>2. c \in SUBSET Ranges
    BY <1>2
  <2>3. \A q \in Ranges : /\ q \notin arrived /\ q \in c => q \in Last(config)
                          /\ q \in arrived /\ q \in Last(config) => q \in c
    BY <2>1
  <2> HIDE DEF c
  <2> QED BY <2>1, <2>2, <2>3, CommitSafe
<1>4. CASE DonateCommit(r)
  <2> DEFINE c == Last(config) \ {r}
  <2>1. /\ r \in config[known]
        /\ \/ /\ Len(config) < MaxVersion /\ config' = Append(config, c)
              /\ arrived' = arrived \ {r}
           \/ UNCHANGED <<config, arrived>>
        /\ UNCHANGED <<known, held, metadata, queue, receiving, docs, recv, exposed>>
    BY <1>4 DEF DonateCommit, aux
  <2>2. r \in arrived => r \in exposed
    BY <1>1, <2>1 DEF VersionInv, Arriving
  <2>3. CASE UNCHANGED <<config, arrived>>
    BY <2>1, <2>3, DocsFacts, StillSafe
  <2>4. CASE Len(config) < MaxVersion /\ config' = Append(config, c) /\ arrived' = arrived \ {r}
    <3>1. c \in SUBSET Ranges
      BY <1>2
    <3>2. \A q \in Ranges \ exposed : /\ q \notin arrived /\ q \in c => q \in Last(config)
                                      /\ q \in arrived /\ q \in Last(config) => q \in c
      BY <2>2
    <3>3. arrived' \subseteq arrived /\ arrived \ arrived' \subseteq exposed
      BY <2>2, <2>4
    <3> HIDE DEF c
    <3> QED BY <2>1, <2>4, <3>1, <3>2, <3>3, CommitSafe
  <2> QED BY <2>1, <2>3, <2>4
<1> QED BY <1>3, <1>4

\* Every step preserves SafeInv.
LEMMA SafeNext ==
    BasicInv /\ BasicInv' /\ SafeInv /\ [Next]_vars => SafeInv'
<1> SUFFICES ASSUME BasicInv, BasicInv', SafeInv, [Next]_vars PROVE SafeInv'
  OBVIOUS
<1>1. CASE \E q \in Queries : BeginQuery(q) \/ EndQuery(q)
  BY <1>1, BeginQuerySafe, EndSafe
<1>2. CASE \E v \in DOMAIN config : Refresh(v) \/ DonateRefresh(v)
  BY <1>2, RefreshSafe
<1>3. CASE Clear \/ DonateRefreshFails
  BY <1>3, ClearSafe
<1>4. CASE \E r \in Ranges : \/ CleanupOrphaned(r) \/ DonateCommit(r) \/ BeginReceive(r)
                             \/ RemoteCommit(r) \/ RemoteAbort(r)
  BY <1>4, CleanupOrphanedSafe, ConfigSafe, BeginReceiveSafe, RemoteAbortSafe
<1>5. CASE Clone \/ RecvFail
  BY <1>5, CloneSafe
<1>6. CASE DonateEnd
  BY <1>6, EndSafe
<1>7. CASE \E later \in BOOLEAN : DonateCleanUp(later)
  BY <1>7, DonateCleanUpSafe
<1>8. CASE WaitForClean
  BY <1>8, WaitForCleanSafe
<1>9. CASE Forget
  BY <1>9, ForgetSafe
<1>10. CASE \E w \in Waiters : Interrupt(w)
  BY <1>10, InterruptSafe
<1>11. CASE \E t \in {"now", "later"} : Task(t)
  BY <1>11, TaskSafe, TaskGivesUpSafe DEF Task
<1>12. CASE Replicate \/ ReplicateFails
  BY <1>12, ReplicateSafe
<1>13. CASE Delete
  BY <1>13, DeleteSafe
<1>14. CASE \E ok \in BOOLEAN : DeleteEnds(ok)
  BY <1>14, DeleteEndsSafe
<1>15. CASE Finish
  BY <1>15, FinishSafe
<1>16. CASE DonateCheck \/ DonateLeaves
  BY <1>16, DonateCheckSafe
<1>17. CASE Fails \/ UNCHANGED vars
  <2>1. UNCHANGED <<config, known, held, arrived, receiving, metadata, queue, recv, docs, exposed>>
    BY <1>17 DEF vars, Fails, aux
  <2> QED BY <2>1, DocsFacts, StillSafe
<1> QED
  BY <1>1, <1>2, <1>3, <1>4, <1>5, <1>6, <1>7, <1>8, <1>9, <1>10, <1>11, <1>12, <1>13, <1>14,
     <1>15, <1>16, <1>17 DEF Next, Step

\* The shard begins with the documents of what it owns.
LEMMA SafeInit ==
    Init => SafeInv
<1> SUFFICES ASSUME Init PROVE SafeInv
  OBVIOUS
<1> DEFINE t == [id |-> <<0, 1>>, orphans |-> <<>>]
<1>1. /\ config = <<OwnedFirst>> /\ known = 1
      /\ metadata = <<t>>
      /\ queue = [orphans |-> <<>>, delayed |-> <<>>, tasks |-> {}]
      /\ recv.pc = "idle" /\ arrived = {} /\ exposed = {}
      /\ docs = OwnedFirst
  BY DEF Init, NoRecv
<1>2. t.id[2] = 1 /\ t.orphans = <<>>
  OBVIOUS
<1> HIDE DEF t
<1>3. /\ DOMAIN metadata = {1} /\ Len(metadata) = 1 /\ metadata[1] = t
      /\ DOMAIN config = {1} /\ config[1] = OwnedFirst
  BY <1>1
<1>4. VersionInv
  BY <1>1, <1>2, <1>3 DEF VersionInv, Active, Agrees, Arriving
<1>5. ReceiveInv
  BY <1>1 DEF ReceiveInv, Arriving
<1>6. \A r \in Ranges \ docs : Gone(r, 0)
  BY <1>1, <1>2, <1>3 DEF Gone, Owned
<1>7. DocsInv
  BY <1>1, <1>6 DEF DocsInv
<1>8. DeletionsInv
  BY <1>1, <1>2, <1>3 DEF DeletionsInv, InQueue, ToSet
<1> QED BY <1>4, <1>5, <1>7, <1>8 DEF SafeInv

\* Deletions are only for what is gone or exposed.
THEOREM SafeInvariance == Spec => []SafeInv
<1>1. Init => SafeInv
  BY SafeInit
<1>2. BasicInv /\ BasicInv' /\ SafeInv /\ [Next]_vars => SafeInv'
  BY SafeNext
<1> QED BY <1>1, <1>2, BasicInvariance, PTL DEF Spec

\* What SafeInv is for: what is owned is there, what is in use is, and the range of a
\* failed migration is where forgetReceive expects it.
LEMMA SafeMeans ==
    ASSUME BasicInv, SafeInv
    PROVE  /\ OwnedComplete
           /\ \A i \in DOMAIN metadata : i = Len(metadata) \/ InUse(metadata[i]) =>
                 Owned(i) \ exposed \subseteq docs
           /\ recv.pc = "forget" /\ metadata # <<>> /\ recv.range \notin exposed =>
                 MayForget(recv.range)
<1>1. /\ StateOK /\ RestOK /\ VersionInv /\ ReceiveInv
  BY BasicFacts DEF SafeInv
<1>2. /\ known \in DOMAIN config /\ DOMAIN config = 1 .. Len(config) /\ Len(config) \in Nat
      /\ Len(config) \in DOMAIN config /\ \A v \in DOMAIN config : config[v] \in SUBSET Ranges
  BY <1>1 DEF RestOK
<1>3. OwnedComplete
  <2> SUFFICES ASSUME NEW r \in config[Len(config)], r \notin exposed, r \notin docs PROVE FALSE
    BY DEF OwnedComplete, Last
  <2>1. r \in Ranges /\ known <= known /\ known <= Len(config)
    BY <1>2
  <2>2. r \notin config[known] /\ r \notin arrived
    BY <2>1, DocsFacts DEF Gone
  <2> QED BY <1>1, <1>2, <2>1, <2>2 DEF VersionInv
<1>4. ASSUME NEW i \in DOMAIN metadata, i = Len(metadata) \/ InUse(metadata[i]),
             NEW r \in Owned(i), r \notin exposed, r \notin docs
      PROVE  FALSE
  <2>1. i \in DOMAIN metadata /\ 0 < i /\ metadata[i] \in Trackers
    BY <1>1, ShapeFacts
  <2>2. r \in Ranges
    BY <1>2, <2>1 DEF Owned, Trackers
  <2>3. Gone(r, 0)
    BY <1>4, <2>2, DocsFacts
  <2> QED BY <1>4, <2>1, <2>3 DEF Gone
<1>5. ASSUME recv.pc = "forget", recv.range \notin exposed
      PROVE  MayForget(recv.range)
  <2>1. recv.range \in receiving /\ Gone(recv.range, 0)
    BY <1>1, <1>5 DEF ReceiveInv
  <2>2. \A j \in DOMAIN metadata : 0 < j
    BY <1>1, ShapeFacts
  <2>3. \A j \in DOMAIN metadata :
           (j = Len(metadata) \/ InUse(metadata[j])) => recv.range \notin Owned(j)
    BY <1>5, <2>1, <2>2 DEF Gone
  <2> QED BY <1>1, <2>1, <2>3, FindFacts DEF MayForget
<1> QED BY <1>3, <1>4, <1>5

\* No deletion touches a range this shard owns, whether it knows of it or not yet, unless
\* the range is exposed (cleanUpRange, waitForClean, _receivingChunks).
THEOREM OwnedIsComplete == Spec => []OwnedComplete
<1>1. BasicInv /\ SafeInv => OwnedComplete
  BY SafeMeans
<1> QED BY <1>1, SafeInvariance, BasicInvariance, PTL

-----------------------------------------------------------------------------
(***************************************************************************)
(* The third invariant: none of the trackers that are held retires, so     *)
(* that each is still there unless the metadata was cleared.               *)
(***************************************************************************)
HeldInv ==
    /\ \A i \in DOMAIN metadata : metadata[i].id[1] = clears
    /\ \A h \in Holders : held[h] # NoTracker =>
          /\ held[h][1] <= clears
          /\ held[h][1] = clears => \E i \in DOMAIN metadata : metadata[i].id = held[h]
    /\ donate.pc = "cleanup" => held["donor"] # NoTracker

\* The trackers keep their ids.
LEMMA SameHeld ==
    ASSUME BasicInv, BasicInv', HeldInv, UNCHANGED <<clears, held>>,
           Len(metadata') = Len(metadata),
           \A i \in DOMAIN metadata : metadata'[i].id = metadata[i].id,
           donate'.pc = "cleanup" => donate.pc = "cleanup"
    PROVE  HeldInv'
<1>1. DOMAIN metadata' = DOMAIN metadata
  BY BasicShape, NextShape
<1> QED BY <1>1 DEF HeldInv

\* A tracker is taken: the active one.
LEMMA TakeHeld ==
    ASSUME BasicInv, BasicInv', HeldInv, NEW y \in Holders, metadata # <<>>,
           held' = [held EXCEPT ![y] = Active.id],
           donate'.pc = "cleanup" => donate.pc = "cleanup" \/ y = "donor",
           UNCHANGED <<clears, metadata>>
    PROVE  HeldInv'
<1>1. /\ StateOK /\ RestOK /\ Len(metadata) \in DOMAIN metadata
      /\ metadata[Len(metadata)] \in Trackers
  BY BasicShape, ShapeFacts
<1>2. Active.id \in (0 .. MaxClears) \X DOMAIN config
  BY <1>1 DEF Active, Trackers
<1>3. Active.id # NoTracker /\ Active.id[1] = clears /\ clears <= clears
  BY <1>1, <1>2, IdsAreTrackers DEF HeldInv, Active, RestOK
<1>4. \A h \in Holders : held'[h] = IF h = y THEN Active.id ELSE held[h]
  BY <1>1 DEF RestOK
<1>5. \E i \in DOMAIN metadata : metadata[i].id = Active.id
  BY <1>1 DEF Active
<1>6. "donor" \in Holders
  BY DEF Holders
<1> QED BY <1>3, <1>4, <1>5, <1>6 DEF HeldInv

\* Trackers retire: none that is held.
LEMMA RetireHeld ==
    ASSUME BasicInv, BasicInv', HeldInv, NEW ms \in Seq(Trackers), Retire(ms, held'),
           clears' = clears,
           \A i \in 1 .. Len(ms) : ms[i].id[1] = clears,
           \A i \in DOMAIN metadata : i \in 1 .. Len(ms) /\ ms[i].id = metadata[i].id,
           \A h \in Holders : held'[h] = held[h] \/ held'[h] = NoTracker,
           donate'.pc = "cleanup" => donate.pc = "cleanup" /\ held'["donor"] = held["donor"]
    PROVE  HeldInv'
<1>1. /\ StateOK /\ RestOK /\ queue \in QueueStates
      /\ \A t \in Trackers : t.orphans \in Seq(Deletion)
  BY BasicShape, ShapeFacts
<1>2. PICK k \in 0 .. Len(ms) :
              /\ \A i \in 1 .. k : \A x \in Holders : ms[i].id # held'[x]
              /\ Len(metadata') = Len(ms) - k
              /\ \A i \in 1 .. Len(ms) - k : metadata'[i] = ms[i + k]
  BY <1>1, RetireFacts
<1>3. k \in Nat /\ Len(ms) \in Nat /\ k <= Len(ms) /\ DOMAIN metadata' = 1 .. Len(ms) - k
  BY <1>2, NextShape
<1>4. \A i \in 1 .. Len(ms) - k : i + k \in 1 .. Len(ms)
  BY <1>3
<1>5. \A i \in DOMAIN metadata' : metadata'[i].id[1] = clears'
  BY <1>2, <1>3, <1>4
<1>6. ASSUME NEW h \in Holders, held'[h] # NoTracker
      PROVE  /\ held'[h][1] <= clears'
             /\ held'[h][1] = clears' => \E i \in DOMAIN metadata' : metadata'[i].id = held'[h]
  <2>1. held'[h] = held[h] /\ held[h] # NoTracker /\ held[h][1] <= clears
    BY <1>6 DEF HeldInv
  <2>2. ASSUME held[h][1] = clears
        PROVE  \E i \in DOMAIN metadata' : metadata'[i].id = held[h]
    <3>1. PICK i \in DOMAIN metadata : metadata[i].id = held[h]
      BY <2>1, <2>2 DEF HeldInv
    <3>2. i \in 1 .. Len(ms) /\ ms[i].id = held'[h]
      BY <2>1, <3>1
    <3>3. i \notin 1 .. k
      BY <1>2, <3>2
    <3>4. i - k \in 1 .. Len(ms) - k /\ i - k + k = i
      BY <1>3, <3>2, <3>3
    <3>5. metadata'[i - k].id = held[h]
      BY <1>2, <2>1, <3>2, <3>4
    <3> QED BY <1>3, <3>4, <3>5
  <2> QED BY <2>1, <2>2
<1>7. donate'.pc = "cleanup" => held'["donor"] # NoTracker
  BY DEF HeldInv
<1> QED BY <1>5, <1>6, <1>7 DEF HeldInv

\* A map is installed.
LEMMA InstallHeld ==
    ASSUME BasicInv, BasicInv', HeldInv, NEW v \in DOMAIN config, Install(v),
           UNCHANGED <<clears, held>>, donate'.pc = "cleanup" => donate.pc = "cleanup"
    PROVE  HeldInv'
<1>1. /\ StateOK /\ RestOK /\ Len(metadata) \in Nat /\ DOMAIN metadata = 1 .. Len(metadata)
  BY BasicShape
<1>2. CASE metadata # <<>> /\ Active.id[2] >= v
  <2>1. metadata' = metadata
    BY <1>2 DEF Install
  <2> QED BY <2>1, SameHeld
<1>3. CASE ~(metadata # <<>> /\ Active.id[2] >= v)
  <2> DEFINE t == [id |-> <<clears, v>>, orphans |-> <<>>]
             ms == Append(metadata, t)
  <2>1. Retire(ms, held')
    BY <1>3 DEF Install, SetActive
  <2>2. metadata # <<>> => v > Active.id[2]
    <3>1. metadata # <<>> => Active.id[2] \in DOMAIN config
      <4>1. metadata # <<>> => metadata[Len(metadata)] \in Trackers
        BY <1>1, ShapeFacts
      <4> QED BY <4>1 DEF Trackers, Active
    <3>2. DOMAIN config \subseteq Nat
      BY <1>1 DEF RestOK
    <3> QED BY <1>3, <3>1, <3>2
  <2>3. /\ ms \in Seq(Trackers) /\ Len(ms) = Len(metadata) + 1
        /\ \A i \in DOMAIN metadata : ms[i] = metadata[i]
        /\ ms[Len(metadata) + 1] = t
    BY <1>1, <2>2, NewTracker
  <2>4. t.id[1] = clears
    OBVIOUS
  <2> HIDE DEF t, ms
  <2>5. \A i \in DOMAIN metadata : i \in 1 .. Len(ms)
    BY <1>1, <2>3
  <2>6. \A i \in 1 .. Len(ms) : i \in DOMAIN metadata \/ i = Len(metadata) + 1
    BY <1>1, <2>3
  <2>7. \A i \in 1 .. Len(ms) : ms[i].id[1] = clears
    BY <2>3, <2>4, <2>6 DEF HeldInv
  <2> QED BY <2>1, <2>3, <2>5, <2>7, RetireHeld
<1> QED BY <1>2, <1>3

\* A ScopedCollectionMetadata is released.
LEMMA ReleaseHeld ==
    ASSUME BasicInv, BasicInv', HeldInv, NEW y \in Holders,
           held' = [held EXCEPT ![y] = NoTracker], Retire(metadata, held'), clears' = clears,
           donate'.pc = "cleanup" => donate.pc = "cleanup" /\ y # "donor"
    PROVE  HeldInv'
<1>1. /\ StateOK /\ RestOK /\ metadata \in Seq(Trackers)
      /\ Len(metadata) \in Nat /\ DOMAIN metadata = 1 .. Len(metadata)
  BY BasicShape, ShapeFacts
<1>3. \A h \in Holders : held'[h] = held[h] \/ held'[h] = NoTracker
  BY <1>1 DEF RestOK
<1>4. \A i \in 1 .. Len(metadata) : metadata[i].id[1] = clears
  BY <1>1 DEF HeldInv
<1>5. donate'.pc = "cleanup" => donate.pc = "cleanup" /\ held'["donor"] = held["donor"]
  BY <1>1 DEF RestOK
<1> QED BY <1>1, <1>3, <1>4, <1>5, RetireHeld

\* Steps that leave the trackers and those who hold them alone.
LEMMA QuietHeld ==
    ASSUME BasicInv, BasicInv', HeldInv, UNCHANGED <<clears, held, metadata>>,
           donate'.pc = "cleanup" => donate.pc = "cleanup"
    PROVE  HeldInv'
BY SameHeld

\* Sequences of the same domain are of the same length.
LEMMA SameLength ==
    ASSUME NEW m \in Nat, NEW n \in Nat, 1 .. m = 1 .. n
    PROVE  m = n
OBVIOUS

\* Deletions are added to the trackers, or taken from them.
LEMMA DeletionsHeld ==
    ASSUME BasicInv, BasicInv', HeldInv,
           \/ \E r \in Ranges : CleanupOrphaned(r)
           \/ \E later \in BOOLEAN : DonateCleanUp(later)
           \/ WaitForClean
           \/ \E w \in Waiters : Interrupt(w)
           \/ \E t \in {"now", "later"} : TaskGivesUp(t)
    PROVE  HeldInv'
<1>1. /\ StateOK /\ RestOK /\ DOMAIN metadata = 1 .. Len(metadata) /\ Len(metadata) \in Nat
      /\ \A i \in DOMAIN metadata : metadata[i] \in Trackers
      /\ Len(metadata') \in Nat /\ DOMAIN metadata' = 1 .. Len(metadata')
  BY BasicShape, ShapeFacts, NextShape
<1>2. /\ UNCHANGED <<clears, held>>
      /\ donate'.pc = "cleanup" => donate.pc = "cleanup"
  BY <1>1 DEF CleanupOrphaned, DonateCleanUp, WaitForClean, Interrupt, TaskGivesUp, Notify, RestOK
<1>3. CASE metadata' = metadata
  BY <1>2, <1>3, QuietHeld
<1>4. CASE AlikeAll
  BY <1>2, <1>4, SameHeld DEF AlikeAll
<1>5. CASE \E n \in DOMAIN metadata : \E x :
              metadata' = [metadata EXCEPT ![n].orphans = Append(@, x)]
  <2> PICK n \in DOMAIN metadata : \E x :
              metadata' = [metadata EXCEPT ![n].orphans = Append(@, x)]
    BY <1>5
  <2> PICK x : metadata' = [metadata EXCEPT ![n].orphans = Append(@, x)]
    OBVIOUS
  <2> DEFINE o == Append(metadata[n].orphans, x)
  <2>1. metadata' = [metadata EXCEPT ![n] = [metadata[n] EXCEPT !.orphans = o]]
    OBVIOUS
  <2> HIDE DEF o
  <2>2. DOMAIN metadata' = DOMAIN metadata /\ \A i \in DOMAIN metadata : metadata'[i].id = metadata[i].id
    BY <1>1, <2>1 DEF Trackers
  <2>3. Len(metadata') = Len(metadata)
    BY <1>1, <2>2
  <2> QED BY <1>2, <2>2, <2>3, SameHeld
<1>6. CASE metadata' = [i \in DOMAIN metadata |-> [metadata[i] EXCEPT !.orphans = <<>>]]
  <2>1. DOMAIN metadata' = DOMAIN metadata /\ \A i \in DOMAIN metadata : metadata'[i].id = metadata[i].id
    BY <1>1, <1>6 DEF Trackers
  <2>2. Len(metadata') = Len(metadata)
    BY <1>1, <2>1, SameLength
  <2> QED BY <1>2, <2>1, <2>2, SameHeld
<1>7. ASSUME NEW r \in Ranges, NEW later, NEW W, CleanUpRange(r, later, W)
      PROVE  HeldInv'
  <2>1. FindNewestOverlapping(r) = 0 \/ FindNewestOverlapping(r) \in DOMAIN metadata
    BY <1>1, FindFacts
  <2> QED BY <1>3, <1>5, <1>7, <2>1 DEF CleanUpRange
<1>8. CASE \E r \in Ranges : CleanupOrphaned(r)
  BY <1>7, <1>8 DEF CleanupOrphaned
<1>9. CASE \E later \in BOOLEAN : DonateCleanUp(later)
  <2>1. donate.range \in Ranges
    BY <1>9, BasicShape DEF OneMigration, DonateCleanUp
  <2> QED BY <1>3, <1>7, <1>9, <2>1 DEF DonateCleanUp
<1>10. CASE WaitForClean
  <2>1. Track(recv.range) => AlikeAll
    BY <1>1, TrackShape
  <2> QED BY <1>3, <1>4, <1>10, <2>1 DEF WaitForClean
<1>11. CASE \E w \in Waiters : Interrupt(w)
  <2> PICK w \in Waiters : Interrupt(w)
    BY <1>11
  <2>1. /\ queue' = [queue EXCEPT !.orphans = Unawaited(@, w), !.delayed = Unawaited(@, w)]
        /\ metadata' = [i \in DOMAIN metadata |->
                          [metadata[i] EXCEPT !.orphans = Unawaited(@, w)]]
    BY DEF Interrupt
  <2> QED BY <1>1, <1>4, <2>1, InterruptShape
<1>12. CASE \E t \in {"now", "later"} : TaskGivesUp(t)
  BY <1>6, <1>12 DEF TaskGivesUp
<1> QED BY <1>8, <1>9, <1>10, <1>11, <1>12

\* The metadata is cleared: no tracker held is of the next time.
LEMMA ClearHeld ==
    ASSUME BasicInv, HeldInv, Clear \/ DonateRefreshFails
    PROVE  HeldInv'
<1>1. /\ clears' = clears + 1 /\ metadata' = <<>> /\ held' = held
      /\ donate'.pc = "cleanup" => donate.pc = "cleanup"
  BY BasicShape DEF Clear, DonateRefreshFails, ClearMetadata, Notify, NoDonation, RestOK
<1>2. /\ clears \in Nat
      /\ \A h \in Holders : held[h] # NoTracker => held[h][1] \in Nat
  BY BasicShape DEF RestOK
<1>3. \A h \in Holders : held[h] # NoTracker => held[h][1] <= clears' /\ held[h][1] # clears'
  BY <1>1, <1>2 DEF HeldInv
<1>4. DOMAIN metadata' = {}
  BY <1>1
<1> QED BY <1>1, <1>3, <1>4 DEF HeldInv

\* Every step preserves HeldInv.
LEMMA HeldNext ==
    BasicInv /\ BasicInv' /\ HeldInv /\ [Next]_vars => HeldInv'
<1> SUFFICES ASSUME BasicInv, BasicInv', HeldInv, [Next]_vars PROVE HeldInv'
  OBVIOUS
<1> USE BasicShape
<1>1. CASE \E q \in Queries : BeginQuery(q)
  <2> PICK q \in Queries : BeginQuery(q)
    BY <1>1
  <2>1. /\ metadata # <<>> /\ held' = [held EXCEPT ![q] = Active.id] /\ q \in Holders
        /\ UNCHANGED <<clears, metadata, donate>>
    BY DEF BeginQuery, Holders
  <2> QED BY <2>1, TakeHeld
<1>2. CASE DonateCheck \/ DonateLeaves
  <2>1. UNCHANGED <<clears, metadata>>
    BY <1>2 DEF DonateCheck, DonateLeaves
  <2>2. CASE donate' = NoDonation /\ held' = held
    BY <2>1, <2>2, QuietHeld DEF NoDonation
  <2>3. CASE metadata # <<>> /\ held' = [held EXCEPT !["donor"] = Active.id]
    <3>1. "donor" \in Holders
      BY DEF Holders
    <3> QED BY <2>1, <2>3, <3>1, TakeHeld
  <2> QED BY <1>2, <2>2, <2>3 DEF DonateCheck, DonateLeaves
<1>3. CASE \E q \in Queries : EndQuery(q)
  <2> PICK q \in Queries : EndQuery(q)
    BY <1>3
  <2>1. /\ held' = [held EXCEPT ![q] = NoTracker] /\ Retire(metadata, held') /\ q \in Holders
        /\ UNCHANGED <<clears, donate>>
    BY DEF EndQuery, Release, Holders
  <2>2. CASE q # "donor"
    BY <2>1, <2>2, ReleaseHeld
  <2>3. CASE q = "donor"
    BY <2>3, RangeAssumption
  <2> QED BY <2>2, <2>3
<1>4. CASE DonateEnd
  <2>1. /\ held' = [held EXCEPT !["donor"] = NoTracker] /\ Retire(metadata, held')
        /\ clears' = clears /\ donate'.pc = "idle" /\ "donor" \in Holders
    BY <1>4 DEF DonateEnd, Release, NoDonation, Holders
  <2> QED BY <2>1, ReleaseHeld
<1>5. CASE \E v \in DOMAIN config : Refresh(v) \/ DonateRefresh(v)
  <2> PICK v \in DOMAIN config : Refresh(v) \/ DonateRefresh(v)
    BY <1>5
  <2>1. /\ Install(v) /\ UNCHANGED <<clears, held>>
        /\ donate'.pc = "cleanup" => donate.pc = "cleanup"
    BY DEF Refresh, DonateRefresh, RestOK
  <2> QED BY <2>1, InstallHeld
<1>6. CASE Clear \/ DonateRefreshFails
  BY <1>6, ClearHeld
<1>7. CASE \/ \E r \in Ranges : CleanupOrphaned(r)
           \/ \E later \in BOOLEAN : DonateCleanUp(later)
           \/ WaitForClean
           \/ \E w \in Waiters : Interrupt(w)
           \/ \E t \in {"now", "later"} : TaskGivesUp(t)
  BY <1>7, DeletionsHeld
<1>8. CASE \/ \E r \in Ranges : DonateCommit(r) \/ BeginReceive(r) \/ RemoteCommit(r) \/ RemoteAbort(r)
           \/ Clone \/ Finish \/ RecvFail \/ Forget \/ Delete \/ Replicate \/ ReplicateFails
           \/ \E t \in {"now", "later"} : TaskEnds(t) \/ TaskDeletes(t) \/ TaskMoves(t)
           \/ \E ok \in BOOLEAN : DeleteEnds(ok)
           \/ Fails \/ UNCHANGED vars
  <2>1. UNCHANGED <<clears, held, metadata>>
    BY <1>8 DEF DonateCommit, BeginReceive, RemoteCommit, RemoteAbort, Clone, Finish, RecvFail,
                Forget, Delete, Replicate, ReplicateFails, TaskEnds, TaskDeletes, TaskMoves,
                Begin, DeleteEnds, Fails, vars
  <2>2. \/ donate' = donate \/ donate' = [donate EXCEPT !.pc = "leave"]
        \/ \E r \in Ranges : DonateCommit(r)
    BY <1>8 DEF BeginReceive, RemoteCommit, RemoteAbort, Clone, Finish, RecvFail,
                Forget, Delete, Replicate, ReplicateFails, TaskEnds, TaskDeletes, TaskMoves,
                Begin, DeleteEnds, Fails, vars, Notify
  <2>3. (\E r \in Ranges : DonateCommit(r)) => donate'.pc = "refresh"
    BY DEF DonateCommit
  <2>4. donate' = [donate EXCEPT !.pc = "leave"] => donate'.pc # "cleanup"
    BY DEF RestOK
  <2>5. donate'.pc = "cleanup" => donate.pc = "cleanup"
    BY <2>2, <2>3, <2>4
  <2> QED BY <2>1, <2>5, QuietHeld
<1> QED
  BY <1>1, <1>2, <1>3, <1>4, <1>5, <1>6, <1>7, <1>8 DEF Next, Step, Task

\* Who holds a tracker of the time since the last clear holds one that is still there.
THEOREM HeldInvariance == Spec => []HeldInv
<1>1. Init => HeldInv
  <2> SUFFICES ASSUME Init PROVE HeldInv
    OBVIOUS
  <2>1. /\ clears = 0 /\ metadata = <<[id |-> <<0, 1>>, orphans |-> <<>>]>>
        /\ \A h \in Holders : held[h] = NoTracker
        /\ donate.pc = "idle"
    BY DEF Init, NoDonation
  <2> QED BY <2>1 DEF HeldInv
<1>2. BasicInv /\ BasicInv' /\ HeldInv /\ [Next]_vars => HeldInv'
  BY HeldNext
<1> QED BY <1>1, <1>2, BasicInvariance, PTL DEF Spec

\* A query finds the documents of the map it began with for as long as it runs, unless the
\* metadata was cleared since or the range is exposed (_findNewestOverlappingMetadata,
\* _retireExpiredMetadata).
THEOREM InUseIsComplete == Spec => []InUseComplete
<1>1. BasicInv /\ SafeInv /\ HeldInv => InUseComplete
  <2> SUFFICES ASSUME BasicInv, SafeInv, HeldInv PROVE InUseComplete
    OBVIOUS
  <2>1. \A i \in DOMAIN metadata : i = Len(metadata) \/ InUse(metadata[i]) =>
           Owned(i) \ exposed \subseteq docs
    BY SafeMeans
  <2>2. metadata # <<>> => Owned(Len(metadata)) \ exposed \subseteq docs
    BY <2>1, BasicShape
  <2>3. ASSUME NEW h \in Holders, held[h] # NoTracker, held[h][1] = clears
        PROVE  config[held[h][2]] \ exposed \subseteq docs
    <3>1. PICK i \in DOMAIN metadata : metadata[i].id = held[h]
      BY <2>3 DEF HeldInv
    <3>2. InUse(metadata[i]) /\ Owned(i) = config[held[h][2]]
      BY <3>1 DEF InUse, Owned
    <3> QED BY <2>1, <3>1, <3>2
  <2> QED BY <2>2, <2>3 DEF InUseComplete
<1> QED BY <1>1, SafeInvariance, HeldInvariance, BasicInvariance, PTL

\* What the code asserts is true when it does, but for exposed ranges and for a donor whose
\* metadata was cleared since it looked (forgetReceive, cleanUpNextRange, cleanUpRange,
\* refreshActiveMetadata).
THEOREM AssertionsHold == Spec => []Asserted
<1>1. BasicInv /\ SafeInv /\ HeldInv => Asserted
  <2> SUFFICES ASSUME BasicInv, SafeInv, HeldInv PROVE Asserted
    OBVIOUS
  <2>1. recv.pc = "forget" /\ metadata # <<>> /\ recv.range \notin exposed =>
           MayForget(recv.range)
    BY SafeMeans
  <2>2. DeleterInv /\ EmptyInv
    BY BasicFacts
  <2>3. donate.pc = "cleanup" /\ held["donor"][1] = clears => metadata # <<>>
    <3>1. "donor" \in Holders
      BY DEF Holders
    <3> QED BY <3>1 DEF HeldInv
  <2> QED BY <2>1, <2>2, <2>3 DEF Asserted, DeleterInv, EmptyInv
<1> QED BY <1>1, SafeInvariance, HeldInvariance, BasicInvariance, PTL

-----------------------------------------------------------------------------
(***************************************************************************)
(* The fourth invariant: a range is empty when its documents are cloned,   *)
(* unless the cursor of the last deletion failed.                          *)
(***************************************************************************)

\* Whether the receiving thread waits.
LEMMA RecvWaits ==
    BasicInv => (recv.pc = "wait" <=> Waits("recv", AllDeletions))
BY BasicFacts, AllWaits

\* What a step has to do to preserve CloneInv: a deletion that is waited for after it was
\* waited for before.
LEMMA CloneStep ==
    ASSUME BasicInv', CloneInv,
           recv'.pc = "wait" =>
              /\ recv'.range = recv.range
              /\ \A x \in InQueue(queue') : "recv" \in x.waiters => x \in AllDeletions
              /\ \A i \in DOMAIN metadata' : \A x \in ToSet(metadata'[i].orphans) :
                    "recv" \in x.waiters => x \in AllDeletions,
           recv'.pc \in {"clean", "clone"} => recv'.range \notin docs' \ left'
    PROVE  CloneInv'
<1>1. (BasicInv => (recv.pc = "wait" <=> Waits("recv", AllDeletions)))'
  BY RecvWaits, PTL
<1>2. ASSUME NEW x \in AllDeletions', "recv" \in x.waiters PROVE x.range = recv'.range
  <2>1. Waits("recv", AllDeletions)'
    BY <1>2 DEF Waits
  <2>2. recv'.pc = "wait"
    BY <1>1, <2>1
  <2>3. x \in InQueue(queue') \/ \E i \in DOMAIN metadata' : x \in ToSet(metadata'[i].orphans)
    BY DEF AllDeletions, TrackerOrphans, InQueue, ToSet
  <2>4. x \in AllDeletions
    BY <1>2, <2>2, <2>3
  <2> QED BY <1>2, <2>2, <2>4 DEF CloneInv
<1> QED BY <1>2 DEF CloneInv

\* A step that leaves the trackers alone, and queues no more deletions.
LEMMA CloneStill ==
    ASSUME BasicInv', CloneInv, metadata' = metadata, InQueue(queue') \subseteq InQueue(queue),
           recv'.pc = "wait" => recv'.range = recv.range,
           recv'.pc \in {"clean", "clone"} => recv'.range \notin docs' \ left'
    PROVE  CloneInv'
<1>1. /\ \A x \in InQueue(queue') : x \in AllDeletions
      /\ \A i \in DOMAIN metadata' : \A x \in ToSet(metadata'[i].orphans) : x \in AllDeletions
  BY DEF AllDeletions, TrackerOrphans, InQueue
<1> QED BY <1>1, CloneStep

\* Trackers retire.
LEMMA CloneRetire ==
    ASSUME BasicInv, BasicInv', CloneInv, NEW ms \in Seq(Trackers), NEW h, Retire(ms, h),
           \A i \in 1 .. Len(ms) : (i \in DOMAIN metadata /\ ms[i] = metadata[i]) \/ ms[i].orphans = <<>>,
           recv' = recv, docs' = docs, left' = left
    PROVE  CloneInv'
<1>1. /\ StateOK /\ queue \in QueueStates
      /\ \A t \in Trackers : t.orphans \in Seq(Deletion)
  BY BasicShape, ShapeFacts
<1>2. PICK k \in 0 .. Len(ms) :
              /\ ms # <<>> => k < Len(ms)
              /\ metadata' \in Seq(Trackers) /\ Len(metadata') = Len(ms) - k
              /\ \A i \in 1 .. Len(ms) - k : metadata'[i] = ms[i + k]
              /\ queue' \in QueueStates /\ HeadKept(queue, queue')
              /\ InQueue(queue') \subseteq
                     InQueue(queue) \cup UNION {ToSet(ms[i].orphans) : i \in 1 .. k}
              /\ \A busy \in BOOLEAN : WillRun(queue, busy) => WillRun(queue', busy)
  BY <1>1, RetireFacts
<1>3. ASSUME NEW i \in 1 .. Len(ms), NEW x \in ToSet(ms[i].orphans) PROVE x \in AllDeletions
  <2>1. ms[i].orphans # <<>>
    BY DEF ToSet
  <2>2. i \in DOMAIN metadata /\ x \in ToSet(metadata[i].orphans)
    BY <2>1
  <2> QED BY <2>2 DEF AllDeletions, TrackerOrphans
<1>4. \A i \in 1 .. k : i \in 1 .. Len(ms)
  BY <1>2
<1>5. \A x \in InQueue(queue') : x \in AllDeletions
  <2>1. \A x \in InQueue(queue) : x \in AllDeletions
    BY DEF AllDeletions, InQueue
  <2> QED BY <1>2, <1>3, <1>4, <2>1
<1>6. \A i \in DOMAIN metadata' : i + k \in 1 .. Len(ms) /\ metadata'[i] = ms[i + k]
  <2>1. DOMAIN metadata' = 1 .. Len(ms) - k /\ k \in Nat /\ Len(ms) \in Nat
    BY <1>2, NextShape
  <2>2. \A i \in 1 .. Len(ms) - k : i + k \in 1 .. Len(ms)
    BY <2>1
  <2> QED BY <1>2, <2>1, <2>2
<1>7. \A i \in DOMAIN metadata' : \A x \in ToSet(metadata'[i].orphans) : x \in AllDeletions
  BY <1>3, <1>6
<1>8. recv'.pc \in {"clean", "clone"} => recv'.range \notin docs' \ left'
  BY DEF CloneInv
<1> QED BY <1>5, <1>7, <1>8, CloneStep

\* A map is installed, or released.
LEMMA CloneTrackers ==
    ASSUME BasicInv, BasicInv', CloneInv,
           \/ DonateEnd
           \/ \E q \in Queries : EndQuery(q)
           \/ \E v \in DOMAIN config : Refresh(v) \/ DonateRefresh(v)
    PROVE  CloneInv'
<1>1. recv' = recv /\ docs' = docs /\ left' = left
  BY DEF DonateEnd, EndQuery, Refresh, DonateRefresh, aux
<1>2. /\ StateOK /\ RestOK /\ metadata \in Seq(Trackers)
      /\ Len(metadata) \in Nat /\ DOMAIN metadata = 1 .. Len(metadata)
      /\ \A i \in DOMAIN metadata : metadata[i] \in Trackers
      /\ metadata # <<>> <=> Len(metadata) \in DOMAIN metadata
  BY BasicShape, ShapeFacts
<1>3. recv'.pc \in {"clean", "clone"} => recv'.range \notin docs' \ left'
  BY <1>1 DEF CloneInv
<1>4. CASE Retire(metadata, held')
  BY <1>1, <1>2, <1>4, CloneRetire
<1>5. CASE metadata' = metadata /\ queue' = queue
  BY <1>1, <1>3, <1>5, CloneStill
<1>6. CASE \E v \in DOMAIN config : Install(v)
  <2> PICK v \in DOMAIN config : Install(v)
    BY <1>6
  <2> DEFINE t == [id |-> <<clears, v>>, orphans |-> <<>>]
             ms == Append(metadata, t)
  <2>1. CASE ~(metadata # <<>> /\ Active.id[2] >= v)
    <3>1. Retire(ms, held)
      BY <2>1 DEF Install, SetActive
    <3>2. metadata # <<>> => v > Active.id[2]
      <4> SUFFICES ASSUME metadata # <<>> PROVE v > Active.id[2]
        OBVIOUS
      <4>1. metadata[Len(metadata)] \in Trackers
        BY <1>2
      <4>2. DOMAIN config \subseteq Nat
        BY <1>2 DEF RestOK
      <4>3. Active.id[2] \in Nat /\ v \in Nat
        BY <4>1, <4>2 DEF Trackers, Active
      <4> QED BY <2>1, <4>3
    <3>3. /\ ms \in Seq(Trackers) /\ Len(ms) = Len(metadata) + 1
          /\ \A i \in DOMAIN metadata : ms[i] = metadata[i]
          /\ ms[Len(metadata) + 1] = t
      BY <1>2, <3>2, NewTracker
    <3>4. t.orphans = <<>>
      OBVIOUS
    <3> HIDE DEF t, ms
    <3>5. \A i \in 1 .. Len(ms) : i \in DOMAIN metadata \/ i = Len(metadata) + 1
      BY <1>2, <3>3
    <3>6. \A i \in 1 .. Len(ms) :
             (i \in DOMAIN metadata /\ ms[i] = metadata[i]) \/ ms[i].orphans = <<>>
      BY <3>3, <3>4, <3>5
    <3> QED BY <1>1, <3>1, <3>3, <3>6, CloneRetire
  <2>2. CASE metadata # <<>> /\ Active.id[2] >= v
    BY <1>5, <2>2 DEF Install
  <2> QED BY <2>1, <2>2
<1> QED BY <1>4, <1>6 DEF DonateEnd, EndQuery, Release, Refresh, DonateRefresh

\* The first deletion ends: if it is the one the receiving thread waits for and it did not
\* fail, the range is empty or what is left of it is noted.
LEMMA DeleteEndsClone ==
    ASSUME BasicInv, BasicInv', CloneInv, NEW ok \in BOOLEAN, DeleteEnds(ok)
    PROVE  CloneInv'
<1> DEFINE x == Head(queue.orphans)
<1>1. /\ deleter.pc = "delete" /\ queue' = Pop(queue) /\ Notify({x}, ok)
      /\ ok => docs' = docs
      /\ ok /\ Waits("recv", {x}) => left' = docs \cap {deleter.range}
      /\ ~Waits("recv", {x}) => left' = left
      /\ docs' \subseteq docs /\ metadata' = metadata
  BY DEF DeleteEnds
<1>2. StateOK /\ RestOK /\ DeleterInv
  BY BasicFacts
<1>3. queue.orphans # <<>> /\ x.range = deleter.range
  BY <1>1, <1>2 DEF DeleterInv
<1>4. InQueue(queue') \subseteq InQueue(queue) /\ x \in InQueue(queue)
  BY <1>1, <1>2, <1>3, PopShape
<1>5. x \in AllDeletions
  BY <1>4 DEF AllDeletions, InQueue
<1> HIDE DEF x
<1>6. CASE Waits("recv", {x})
  <2>1. x.range = recv.range
    BY <1>5, <1>6 DEF Waits, CloneInv
  <2>2. recv' = IF ok THEN [recv EXCEPT !.pc = "clean"] ELSE NoRecv
    BY <1>1, <1>6 DEF Notify
  <2>3. CASE ok
    <3>1. recv'.pc = "clean" /\ recv'.range = recv.range
      BY <1>2, <2>2, <2>3 DEF RestOK
    <3>2. docs' = docs /\ left' = docs \cap {recv'.range}
      BY <1>1, <1>3, <1>6, <2>1, <2>3, <3>1
    <3>3. recv'.range \notin docs' \ left'
      BY <3>2
    <3> QED BY <1>1, <1>4, <3>1, <3>3, CloneStill
  <2>4. CASE ~ok
    <3>1. recv'.pc = "idle"
      BY <2>2, <2>4 DEF NoRecv
    <3> QED BY <1>1, <1>4, <3>1, CloneStill
  <2> QED BY <2>3, <2>4
<1>7. CASE ~Waits("recv", {x})
  <2>1. recv' = recv
    BY <1>1, <1>7 DEF Notify
  <2>2. recv'.pc \in {"clean", "clone"} => recv'.range \notin docs' \ left'
    BY <1>1, <1>7, <2>1 DEF CloneInv
  <2> QED BY <1>1, <1>4, <2>1, <2>2, CloneStill
<1> QED BY <1>6, <1>7

\* Every deletion is abandoned, or the first one for want of replication.
LEMMA FailClone ==
    ASSUME BasicInv, BasicInv', CloneInv,
           \/ Clear \/ DonateRefreshFails \/ ReplicateFails
           \/ \E t \in {"now", "later"} : TaskGivesUp(t)
    PROVE  CloneInv'
<1>1. docs' = docs /\ left' = left
  BY DEF Clear, DonateRefreshFails, ReplicateFails, TaskGivesUp, aux
<1>2. /\ StateOK /\ DeleterInv
      /\ SomeWaits(metadata, queue, "recv") <=> recv.pc = "wait"
  BY BasicFacts
<1>3. recv' = recv \/ recv' = NoRecv
  BY DEF Clear, DonateRefreshFails, ReplicateFails, TaskGivesUp, Notify
<1>4. recv'.pc \in {"clean", "clone"} => recv'.range \notin docs' \ left'
  BY <1>1, <1>3 DEF CloneInv, NoRecv
<1>5. CASE recv'.pc # "wait"
  BY <1>4, <1>5, CloneStep
<1>6. CASE recv'.pc = "wait"
  <2>1. recv' = recv /\ recv.pc = "wait"
    BY <1>3, <1>6 DEF NoRecv
  <2>2. Waits("recv", AllDeletions)
    BY <1>2, <2>1, AllWaits
  <2>3. ~Notify(AllDeletions, FALSE)
    BY <1>6, <2>2 DEF Notify, NoRecv
  <2>4. ~DonateRefreshFails
    BY <2>1, BasicShape DEF DonateRefreshFails, OneMigration
  <2>5. ReplicateFails
    BY <2>3, <2>4 DEF Clear, TaskGivesUp
  <2>6. metadata' = metadata /\ InQueue(queue') \subseteq InQueue(queue)
    <3>1. CASE deleter.gone
      <4>1. queue' = [queue EXCEPT !.tasks = @ \cup {"now"}] /\ queue \in QueueStates
        BY <1>2, <2>5, <3>1, ShapeFacts DEF ReplicateFails
      <4> QED BY <2>5, <4>1 DEF ReplicateFails, QueueStates, InQueue
    <3>2. CASE ~deleter.gone
      <4>1. queue' = Pop(queue) /\ queue.orphans # <<>>
        BY <1>2, <2>5, <3>2 DEF ReplicateFails, DeleterInv
      <4> QED BY <1>2, <2>5, <4>1, PopShape DEF ReplicateFails
    <3> QED BY <3>1, <3>2
  <2> QED BY <1>4, <2>1, <2>6, CloneStill
<1> QED BY <1>5, <1>6

\* Steps that queue no deletion, and those after which the receiving thread does not wait.
LEMMA QuietClone ==
    ASSUME BasicInv, BasicInv', CloneInv,
           \/ \E q \in Queries : BeginQuery(q)
           \/ \E r \in Ranges : DonateCommit(r) \/ RemoteCommit(r) \/ RemoteAbort(r)
           \/ Clone \/ Finish \/ RecvFail \/ Forget \/ Delete \/ Replicate
           \/ \E t \in {"now", "later"} : TaskEnds(t) \/ TaskDeletes(t) \/ TaskMoves(t)
           \/ DonateCheck \/ DonateLeaves \/ Fails \/ UNCHANGED vars
    PROVE  CloneInv'
<1>1. RestOK /\ queue \in QueueStates
  BY BasicShape, ShapeFacts
<1>2. CASE Clone \/ Finish \/ RecvFail \/ Forget
  <2>1. \/ recv' = [recv EXCEPT !.pc = "steady"] \/ recv' = [recv EXCEPT !.pc = "forget"]
        \/ recv' = NoRecv
    BY <1>2 DEF Clone, Finish, RecvFail, Forget
  <2>2. recv'.pc \in {"steady", "idle", "forget"}
    BY <1>1, <2>1 DEF NoRecv, RestOK
  <2> QED BY <2>2, CloneStep
<1>3. CASE ~(Clone \/ Finish \/ RecvFail \/ Forget)
  <2>1. recv' = recv /\ docs' \subseteq docs /\ metadata' = metadata /\ left' = left
    BY <1>3 DEF BeginQuery, DonateCommit, RemoteCommit, RemoteAbort, Delete, Replicate, TaskEnds,
                TaskDeletes, TaskMoves, Begin, DonateCheck, DonateLeaves, Fails, vars, aux
  <2>2. recv'.pc \in {"clean", "clone"} => recv'.range \notin docs' \ left'
    BY <2>1 DEF CloneInv
  <2>3. InQueue(queue') \subseteq InQueue(queue)
    <3>1. CASE queue' = queue
      BY <3>1
    <3>2. CASE Replicate
      <4>1. queue' = [queue EXCEPT !.tasks = @ \cup {"now"}]
        BY <3>2 DEF Replicate
      <4> QED BY <1>1, <4>1 DEF QueueStates, InQueue
    <3>3. CASE \E t \in {"now", "later"} : TaskEnds(t) \/ TaskDeletes(t) \/ TaskMoves(t)
      BY <3>3, TaskQueue
    <3> QED BY <1>3, <3>1, <3>2, <3>3 DEF BeginQuery, DonateCommit, RemoteCommit, RemoteAbort,
                                         Delete, DonateCheck, DonateLeaves, Fails, vars
  <2> QED BY <2>1, <2>2, <2>3, CloneStill
<1> QED BY <1>2, <1>3

\* A deletion is asked for by somebody else.
LEMMA CleanUpClone ==
    ASSUME BasicInv, BasicInv', CloneInv,
           \/ \E r \in Ranges : CleanupOrphaned(r)
           \/ \E later \in BOOLEAN : DonateCleanUp(later)
    PROVE  CloneInv'
<1>1. recv' = recv /\ docs' = docs /\ left' = left
  BY DEF CleanupOrphaned, DonateCleanUp, aux
<1>2. recv'.pc \in {"clean", "clone"} => recv'.range \notin docs' \ left'
  BY <1>1 DEF CloneInv
<1>3. CASE recv.pc # "wait"
  BY <1>1, <1>2, <1>3, CloneStep
<1>4. CASE recv.pc = "wait"
  <2>1. ~(\E later \in BOOLEAN : DonateCleanUp(later))
    BY <1>4, BasicShape DEF DonateCleanUp, OneMigration
  <2>2. PICK r \in Ranges : CleanUpRange(r, FALSE, {})
    BY <2>1 DEF CleanupOrphaned
  <2> DEFINE n == FindNewestOverlapping(r)
             x == [range |-> r, later |-> FALSE, waiters |-> {}]
  <2>3. /\ StateOK /\ queue \in QueueStates /\ DOMAIN metadata = 1 .. Len(metadata)
        /\ \A i \in DOMAIN metadata : metadata[i] \in Trackers
        /\ \A i \in DOMAIN metadata : metadata[i].orphans \in Seq(Deletion)
    BY BasicShape, ShapeFacts
  <2>4. n = 0 \/ n \in DOMAIN metadata
    BY <2>3, FindFacts
  <2>5. x \in Deletion /\ "recv" \notin x.waiters
    BY DEF Deletion
  <2>6. \/ n = 0 /\ queue' = Add(queue, <<x>>) /\ metadata' = metadata
        \/ n # 0 /\ queue' = queue
           /\ metadata' = [metadata EXCEPT ![n].orphans = Append(@, x)]
    BY <2>2 DEF CleanUpRange
  <2> HIDE DEF n, x
  <2>7. /\ \A y \in InQueue(queue) : y \in AllDeletions
        /\ \A i \in DOMAIN metadata : \A y \in ToSet(metadata[i].orphans) : y \in AllDeletions
    BY DEF AllDeletions, TrackerOrphans, InQueue
  <2>8. CASE n = 0 /\ queue' = Add(queue, <<x>>) /\ metadata' = metadata
    <3>1. InQueue(queue') \subseteq InQueue(queue) \cup {x}
      BY <2>3, <2>5, <2>8, PushOne
    <3>2. \A y \in InQueue(queue') : "recv" \in y.waiters => y \in AllDeletions
      BY <2>5, <2>7, <3>1
    <3> QED BY <1>1, <1>2, <2>7, <2>8, <3>2, CloneStep
  <2>9. CASE n # 0 /\ queue' = queue
             /\ metadata' = [metadata EXCEPT ![n].orphans = Append(@, x)]
    <3> DEFINE o == Append(metadata[n].orphans, x)
    <3>1. n \in DOMAIN metadata
      BY <2>4, <2>9
    <3>2. \A y \in ToSet(o) : y \in ToSet(metadata[n].orphans) \/ y = x
      <4>1. metadata[n].orphans \in Seq(Deletion)
        BY <2>3, <3>1
      <4> QED BY <2>5, <4>1 DEF ToSet
    <3>3. metadata' = [metadata EXCEPT ![n] = [metadata[n] EXCEPT !.orphans = o]]
      BY <2>9, <3>1
    <3> HIDE DEF o
    <3>4. /\ metadata'[n].orphans = o /\ DOMAIN metadata' = DOMAIN metadata
          /\ \A i \in DOMAIN metadata : i # n => metadata'[i] = metadata[i]
      BY <2>3, <3>1, <3>3 DEF Trackers
    <3>5. \A i \in DOMAIN metadata' : \A y \in ToSet(metadata'[i].orphans) :
             "recv" \in y.waiters => y \in AllDeletions
      BY <2>5, <2>7, <3>1, <3>2, <3>4
    <3> QED BY <1>1, <1>2, <2>7, <2>9, <3>5, CloneStep
  <2> QED BY <2>6, <2>8, <2>9
<1> QED BY <1>3, <1>4

\* A wait is interrupted: the receiving thread waits no more, or did not in the first place.
LEMMA InterruptClone ==
    ASSUME BasicInv, BasicInv', CloneInv, NEW w \in Waiters, Interrupt(w)
    PROVE  CloneInv'
<1>1. recv'.pc = "idle"
  <2>1. CASE recv' = NoRecv
    BY <2>1 DEF NoRecv
  <2>2. CASE donate.pc = "wait" /\ recv' = recv
    BY <2>2, BasicShape DEF OneMigration
  <2> QED BY <2>1, <2>2 DEF Interrupt
<1> QED BY <1>1, CloneStep

\* Nobody else's deletion is one the receiving thread waits for: after a step that makes it
\* wait every deletion it waits for is for its range.
LEMMA CloneBegins ==
    ASSUME CloneInv, recv'.pc = "wait",
           \A x \in InQueue(queue') : "recv" \in x.waiters => x.range = recv'.range,
           \A i \in DOMAIN metadata' : \A x \in ToSet(metadata'[i].orphans) :
              "recv" \in x.waiters => x.range = recv'.range
    PROVE  CloneInv'
<1>1. ASSUME NEW x \in AllDeletions', "recv" \in x.waiters PROVE x.range = recv'.range
  <2>1. x \in InQueue(queue') \/ \E i \in DOMAIN metadata' : x \in ToSet(metadata'[i].orphans)
    BY DEF AllDeletions, TrackerOrphans, InQueue, ToSet
  <2> QED BY <1>1, <2>1
<1> QED BY <1>1 DEF CloneInv

\* While the receiving thread does not wait, no deletion has it among its waiters.
LEMMA NoneForRecv ==
    ASSUME BasicInv, recv.pc # "wait"
    PROVE  /\ \A x \in InQueue(queue) : "recv" \notin x.waiters
           /\ \A i \in DOMAIN metadata : \A x \in ToSet(metadata[i].orphans) :
                 "recv" \notin x.waiters
<1>1. \A x \in AllDeletions : "recv" \notin x.waiters
  BY RecvWaits DEF Waits
<1> QED BY <1>1 DEF AllDeletions, TrackerOrphans, InQueue

\* beginReceive
LEMMA BeginReceiveClone ==
    ASSUME BasicInv, BasicInv', CloneInv, NEW r \in Ranges, BeginReceive(r)
    PROVE  CloneInv'
<1> DEFINE x == [range |-> r, later |-> FALSE, waiters |-> {"recv"}]
<1>1. /\ recv.pc = "idle" /\ recv' = [pc |-> "wait", range |-> r]
      /\ queue' = Add(queue, <<x>>) /\ metadata' = metadata
  BY DEF BeginReceive, PushRange, NoMigration
<1>2. x \in Deletion /\ x.range = r /\ queue \in QueueStates
  BY BasicShape, ShapeFacts DEF Deletion, Waiters
<1> HIDE DEF x
<1>3. InQueue(queue') \subseteq InQueue(queue) \cup {x}
  BY <1>1, <1>2, PushOne
<1>4. recv'.pc = "wait" /\ recv'.range = r
  BY <1>1
<1> QED BY <1>1, <1>2, <1>3, <1>4, NoneForRecv, CloneBegins

\* AwaitedBy adds a waiter to a deletion of the range only.
LEMMA AwaitedByRange ==
    ASSUME NEW s \in Seq(Deletion), NEW r, Overlap(s, r) # {},
           \A x \in ToSet(s) : "recv" \notin x.waiters
    PROVE  \A x \in ToSet(AwaitedBy(s, r, "recv")) : "recv" \in x.waiters => x.range = r
<1> DEFINE t == AwaitedBy(s, r, "recv")
<1>1. "recv" \in Waiters
  BY DEF Waiters
<1>2. /\ Alike(s, t)
      /\ \A i \in DOMAIN s : "recv" \in t[i].waiters => "recv" \in s[i].waiters \/ s[i].range = r
  BY <1>1, AwaitedByFacts
<1> HIDE DEF t
<1>3. \A i \in DOMAIN s : "recv" \notin s[i].waiters
  BY DEF ToSet
<1>4. \A x \in ToSet(t) : "recv" \in x.waiters => x.range = r
  BY <1>2, <1>3 DEF ToSet, Alike
<1> QED BY <1>4 DEF t

\* waitForClean finds a deletion of the range, or none.
LEMMA WaitForCleanClone ==
    ASSUME BasicInv, BasicInv', CloneInv, WaitForClean
    PROVE  CloneInv'
<1>1. recv.pc = "clean" /\ docs' = docs /\ left' = left /\ recv.range \notin docs \ left
  BY DEF WaitForClean, CloneInv, aux
<1>2. /\ StateOK /\ RestOK /\ queue \in QueueStates
      /\ queue.orphans \in Seq(Deletion) /\ queue.delayed \in Seq(Deletion)
      /\ Len(metadata) \in Nat /\ DOMAIN metadata = 1 .. Len(metadata)
      /\ \A j \in DOMAIN metadata : metadata[j] \in Trackers /\ metadata[j].orphans \in Seq(Deletion)
  BY BasicShape, ShapeFacts
<1>3. CASE recv' = NoRecv
  <2>1. recv'.pc = "idle"
    BY <1>3 DEF NoRecv
  <2> QED BY <2>1, CloneStep
<1>4. CASE recv' = [recv EXCEPT !.pc = "clone"]
  <2>1. recv'.pc = "clone" /\ recv'.range = recv.range
    BY <1>2, <1>4 DEF RestOK
  <2> QED BY <1>1, <2>1, CloneStep
<1>5. CASE Track(recv.range) /\ recv' = [recv EXCEPT !.pc = "wait"]
  <2> PICK r : r = recv.range
    OBVIOUS
  <2>1. recv'.pc = "wait" /\ recv'.range = r
    BY <1>2, <1>5 DEF RestOK
  <2>2. /\ \A x \in InQueue(queue) : "recv" \notin x.waiters
        /\ \A i \in DOMAIN metadata : \A x \in ToSet(metadata[i].orphans) : "recv" \notin x.waiters
    BY <1>1, NoneForRecv
  <2>3. CASE TrackersWith(r) # {} /\ queue' = queue
             /\ metadata' = [metadata EXCEPT ![Max(TrackersWith(r))].orphans =
                               AwaitedBy(@, r, "recv")]
    <3> DEFINE m == Max(TrackersWith(r))
               s == metadata[m].orphans
               t == AwaitedBy(s, r, "recv")
    <3>1. m \in DOMAIN metadata /\ Overlap(s, r) # {}
      <4>1. TrackersWith(r) \in SUBSET (1 .. Len(metadata))
        BY <1>2 DEF TrackersWith
      <4>2. m \in TrackersWith(r)
        BY <1>2, <2>3, <4>1, MaxFacts
      <4> QED BY <4>2 DEF TrackersWith
    <3>2. metadata' = [metadata EXCEPT ![m] = [metadata[m] EXCEPT !.orphans = t]]
      BY <2>3, <3>1
    <3> HIDE DEF m
    <3>3. s \in Seq(Deletion) /\ metadata[m] \in Trackers /\ \A x \in ToSet(s) : "recv" \notin x.waiters
      BY <1>2, <2>2, <3>1
    <3>4. \A x \in ToSet(t) : "recv" \in x.waiters => x.range = r
      <4> HIDE DEF s
      <4> QED BY <3>1, <3>3, AwaitedByRange
    <3> HIDE DEF s, t
    <3>5. /\ metadata'[m].orphans = t /\ DOMAIN metadata' = DOMAIN metadata
          /\ \A i \in DOMAIN metadata : i # m => metadata'[i] = metadata[i]
      BY <1>2, <3>1, <3>2, <3>3 DEF Trackers
    <3>6. \A i \in DOMAIN metadata' : \A x \in ToSet(metadata'[i].orphans) :
             "recv" \in x.waiters => x.range = r
      BY <2>2, <3>4, <3>5
    <3> QED BY <2>1, <2>2, <2>3, <3>6, CloneBegins
  <2>4. CASE /\ Overlap(queue.orphans, r) # {} /\ metadata' = metadata
             /\ queue' = [queue EXCEPT !.orphans = AwaitedBy(@, r, "recv")]
    <3> DEFINE t == AwaitedBy(queue.orphans, r, "recv")
    <3>1. \A x \in ToSet(t) : "recv" \in x.waiters => x.range = r
      BY <1>2, <2>2, <2>4, AwaitedByRange DEF InQueue
    <3>2. queue' = [queue EXCEPT !.orphans = t]
      BY <2>4
    <3> HIDE DEF t
    <3>3. queue'.orphans = t /\ queue'.delayed = queue.delayed
      BY <1>2, <3>2 DEF QueueStates
    <3>4. \A x \in InQueue(queue') : "recv" \in x.waiters => x.range = r
      BY <2>2, <3>1, <3>3 DEF InQueue
    <3> QED BY <2>1, <2>2, <2>4, <3>4, CloneBegins
  <2>5. CASE /\ Overlap(queue.delayed, r) # {} /\ metadata' = metadata
             /\ queue' = [queue EXCEPT !.delayed = AwaitedBy(@, r, "recv")]
    <3> DEFINE t == AwaitedBy(queue.delayed, r, "recv")
    <3>1. \A x \in ToSet(t) : "recv" \in x.waiters => x.range = r
      BY <1>2, <2>2, <2>5, AwaitedByRange DEF InQueue
    <3>2. queue' = [queue EXCEPT !.delayed = t]
      BY <2>5
    <3> HIDE DEF t
    <3>3. queue'.delayed = t /\ queue'.orphans = queue.orphans
      BY <1>2, <3>2 DEF QueueStates
    <3>4. \A x \in InQueue(queue') : "recv" \in x.waiters => x.range = r
      BY <2>2, <3>1, <3>3 DEF InQueue
    <3> QED BY <2>1, <2>2, <2>5, <3>4, CloneBegins
  <2> QED BY <1>5, <2>3, <2>4, <2>5 DEF Track
<1> QED BY <1>3, <1>4, <1>5 DEF WaitForClean

\* Every step preserves CloneInv.
LEMMA CloneNext ==
    BasicInv /\ BasicInv' /\ CloneInv /\ [Next]_vars => CloneInv'
<1> SUFFICES ASSUME BasicInv, BasicInv', CloneInv, [Next]_vars PROVE CloneInv'
  OBVIOUS
<1>1. CASE \E q \in Queries : BeginQuery(q) \/ EndQuery(q)
  BY <1>1, QuietClone, CloneTrackers
<1>2. CASE DonateEnd \/ \E v \in DOMAIN config : Refresh(v) \/ DonateRefresh(v)
  BY <1>2, CloneTrackers
<1>3. CASE Clear \/ DonateRefreshFails \/ ReplicateFails
  BY <1>3, FailClone
<1>4. CASE \E r \in Ranges : DonateCommit(r) \/ RemoteCommit(r) \/ RemoteAbort(r)
  BY <1>4, QuietClone
<1>5. CASE \E r \in Ranges : CleanupOrphaned(r)
  BY <1>5, CleanUpClone
<1>6. CASE \E r \in Ranges : BeginReceive(r)
  BY <1>6, BeginReceiveClone
<1>7. CASE \E later \in BOOLEAN : DonateCleanUp(later)
  BY <1>7, CleanUpClone
<1>8. CASE WaitForClean
  BY <1>8, WaitForCleanClone
<1>9. CASE Clone \/ Finish \/ RecvFail \/ Forget \/ Delete \/ Replicate
           \/ DonateCheck \/ DonateLeaves \/ Fails \/ UNCHANGED vars
  BY <1>9, QuietClone
<1>10. CASE \E w \in Waiters : Interrupt(w)
  BY <1>10, InterruptClone
<1>11. CASE \E t \in {"now", "later"} : Task(t)
  BY <1>11, QuietClone, FailClone DEF Task
<1>12. CASE \E ok \in BOOLEAN : DeleteEnds(ok)
  BY <1>12, DeleteEndsClone
<1> QED
  BY <1>1, <1>2, <1>3, <1>4, <1>5, <1>6, <1>7, <1>8, <1>9, <1>10, <1>11, <1>12
     DEF Next, Step

\* The documents of a range are cloned only when none is left of an earlier time it was
\* here, unless the cursor of the deletion failed (beginReceive, waitForClean,
\* _migrateDriver).
THEOREM CloneIsIntoEmpty == Spec => []ClonesIntoEmpty
<1>1. Init => CloneInv
  <2> SUFFICES ASSUME Init PROVE CloneInv
    OBVIOUS
  <2>1. recv.pc = "idle"
    BY DEF Init, NoRecv
  <2>2. ~Waits("recv", AllDeletions)
    BY <2>1, BasicInit, RecvWaits
  <2> QED BY <2>1, <2>2 DEF CloneInv, Waits
<1>2. BasicInv /\ BasicInv' /\ CloneInv /\ [Next]_vars => CloneInv'
  BY CloneNext
<1>3. CloneInv => ClonesIntoEmpty
  BY DEF CloneInv, ClonesIntoEmpty
<1> QED BY <1>1, <1>2, <1>3, BasicInvariance, PTL DEF Spec

=============================================================================
