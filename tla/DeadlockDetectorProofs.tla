---------------------- MODULE DeadlockDetectorProofs ------------------------
(***************************************************************************)
(* Proofs about DeadlockDetector: type correctness, a cycle that is found   *)
(* is a deadlock, and a deadlock is found.                                  *)
(***************************************************************************)
EXTENDS DeadlockDetector, SequenceTheorems, WellFoundedInduction, TLAPS

-----------------------------------------------------------------------------
(***************************************************************************)
(* Induction over the loops of the model, which are recursive functions     *)
(***************************************************************************)

\* A set of numbers that is not empty has a least element.
LEMMA LeastElement ==
    ASSUME NEW T \in SUBSET Nat, T # {}
    PROVE  \E m \in T : \A y \in T : m <= y
<1>1. PICK m \in T : \A y \in T : ~(<<y, m>> \in OpToRel(<, Nat))
  BY WFMin, NatLessThanWellFounded, Zenon
<1>2. \A y \in T : ~(y < m)
  BY <1>1 DEF OpToRel
<1> QED BY <1>2

\* What holds before a loop and is kept by every iteration holds after it: f[i] is
\* the state after i iterations, Q[i] the set of states that are allowed then.
LEMMA LoopInvariant ==
    ASSUME NEW n \in Nat, NEW f, NEW Q, f[0] \in Q[0],
           \A i \in 1 .. n : f[i - 1] \in Q[i - 1] => f[i] \in Q[i]
    PROVE  \A i \in 0 .. n : f[i] \in Q[i]
<1> DEFINE T == {i \in 0 .. n : f[i] \notin Q[i]}
<1> SUFFICES ASSUME NEW j \in 0 .. n, f[j] \notin Q[j] PROVE FALSE
  OBVIOUS
<1>0. j \in T /\ T \in SUBSET Nat
  OBVIOUS
<1>1. PICK m \in T : \A y \in T : m <= y
  <2> HIDE DEF T
  <2>1. T # {}
    BY <1>0
  <2> QED BY <1>0, <2>1, LeastElement
<1>2. m \in 1 .. n
  BY <1>1
<1>3. m - 1 \in 0 .. n /\ m - 1 \notin T
  BY <1>1, <1>2
<1> QED BY <1>1, <1>2, <1>3

\* f has the states of a loop that begins with b and has the iterations F.
IsLoop(f, n, b, F) ==
    /\ f = [i \in 0 .. n |-> f[i]]
    /\ f[0] = b /\ \A i \in 1 .. n : f[i] = F[i][f[i - 1]]

\* The states of a loop of n iterations exist: F[i][x] is what iteration i makes of
\* state x.
LEMMA LoopExists ==
    ASSUME NEW n \in Nat, NEW b, NEW F
    PROVE  \E f : IsLoop(f, n, b, F)
<1> DEFINE Steps(f, m) ==
        f = [i \in 0 .. m |-> IF i = 0 THEN b ELSE F[i][f[i - 1]]]
<1> DEFINE T == {m \in 0 .. n : ~\E f : Steps(f, m)}
<1> SUFFICES ASSUME ~\E f : Steps(f, n) PROVE FALSE
  <2>1. PICK f : Steps(f, n)
    <3> HIDE DEF Steps
    <3> QED OBVIOUS
  <2>2. f = [i \in 0 .. n |-> f[i]] /\ f[0] = b
    BY <2>1
  <2>3. \A i \in 1 .. n : f[i] = F[i][f[i - 1]]
    BY <2>1
  <2> QED BY <2>2, <2>3 DEF IsLoop
<1>0. n \in T /\ T \in SUBSET Nat
  <2> HIDE DEF Steps
  <2> QED OBVIOUS
<1>1. PICK m \in T : \A y \in T : m <= y
  <2> HIDE DEF T
  <2>1. T # {}
    BY <1>0
  <2> QED BY <1>0, <2>1, LeastElement
<1>2. m # 0
  <2> DEFINE f == [i \in 0 .. 0 |-> b]
             h == [i \in 0 .. 0 |-> IF i = 0 THEN b ELSE F[i][f[i - 1]]]
  <2>1. \A i \in 0 .. 0 : h[i] = f[i]
    OBVIOUS
  <2>2. f = h
    BY <2>1
  <2>3. Steps(f, 0)
    BY <2>2
  <2> QED BY <1>1, <2>3
<1>3. m \in Nat /\ m >= 1 /\ m - 1 \in 0 .. n /\ m - 1 \notin T
  <2> HIDE DEF Steps
  <2>1. m \in 0 .. n
    BY <1>1
  <2> HIDE DEF T
  <2> QED BY <1>1, <1>2, <2>1
<1>4. PICK f : Steps(f, m - 1)
  <2> HIDE DEF Steps
  <2> QED BY <1>3
<1> DEFINE g == [i \in 0 .. m |-> IF i = m THEN F[m][f[m - 1]] ELSE f[i]]
<1>5. \A i \in 0 .. m : g[i] = IF i = 0 THEN b ELSE F[i][g[i - 1]]
  <2> TAKE i \in 0 .. m
  <2>1. CASE i = m
    <3>1. m - 1 \in 0 .. m /\ m - 1 # m
      BY <1>3
    <3>2. g[m - 1] = f[m - 1] /\ g[m] = F[m][f[m - 1]]
      BY <1>3, <3>1
    <3> QED BY <1>3, <2>1, <3>2
  <2>2. CASE i # m /\ i = 0
    <3>1. g[0] = f[0] /\ 0 \in 0 .. (m - 1)
      BY <1>3, <2>2
    <3>2. f[0] = b
      BY <1>4, <3>1
    <3> QED BY <2>2, <3>1, <3>2
  <2>3. CASE i # m /\ i # 0
    <3>1. i \in 0 .. (m - 1) /\ i - 1 \in 0 .. m /\ i - 1 # m /\ i \in 0 .. m
      BY <1>3, <2>3
    <3>2. g[i] = f[i] /\ g[i - 1] = f[i - 1]
      BY <2>3, <3>1
    <3>3. f[i] = F[i][f[i - 1]]
      BY <1>4, <2>3, <3>1
    <3> QED BY <2>3, <3>2, <3>3
  <2> QED BY <2>1, <2>2, <2>3
<1>6. Steps(g, m)
  <2> DEFINE h == [i \in 0 .. m |-> IF i = 0 THEN b ELSE F[i][g[i - 1]]]
  <2>1. \A i \in 0 .. m : h[i] = g[i]
    BY <1>5
  <2>2. DOMAIN g = 0 .. m /\ DOMAIN h = 0 .. m
    OBVIOUS
  <2>3. g = [i \in DOMAIN g |-> g[i]] /\ h = [i \in DOMAIN h |-> h[i]]
    OBVIOUS
  <2> QED BY <2>1, <2>2, <2>3
<1> QED BY <1>1, <1>6

\* The states of such a loop stay in Q, if its iterations do.
LEMMA LoopStates ==
    ASSUME NEW n \in Nat, NEW b, NEW F, NEW Q, b \in Q[0],
           \A i \in 1 .. n : \A x \in Q[i - 1] : F[i][x] \in Q[i]
    PROVE  \E f : IsLoop(f, n, b, F) /\ \A i \in 0 .. n : f[i] \in Q[i]
<1>1. PICK f : IsLoop(f, n, b, F)
  BY LoopExists, Zenon
<1>2. f[0] \in Q[0]
  BY <1>1 DEF IsLoop
<1>3. \A i \in 1 .. n : f[i - 1] \in Q[i - 1] => f[i] \in Q[i]
  <2> TAKE i \in 1 .. n
  <2>1. f[i] = F[i][f[i - 1]]
    BY <1>1 DEF IsLoop
  <2> QED BY <2>1
<1>4. \A i \in 0 .. n : f[i] \in Q[i]
  BY <1>2, <1>3, LoopInvariant, Zenon
<1> QED BY <1>1, <1>4

-----------------------------------------------------------------------------
(***************************************************************************)
(* The loops of the model                                                  *)
(***************************************************************************)

\* Kept goes through a list.
LEMMA KeptLoop ==
    ASSUME NEW s, Len(s) \in Nat, NEW S, NEW Q, <<>> \in Q[0],
           \A i \in 1 .. Len(s) : \A x \in Q[i - 1] :
              (IF s[i] \in S THEN Append(x, s[i]) ELSE x) \in Q[i]
    PROVE  Kept(s, S) \in Q[Len(s)]
<1> DEFINE n == Len(s)
           b == <<>>
           Body(i, x) == IF s[i] \in S THEN Append(x, s[i]) ELSE x
           F == [i \in 1 .. n |-> [x \in Q[i - 1] |-> Body(i, x)]]
           Loop(f) == f = [i \in 0 .. n |-> IF i = 0 THEN b ELSE Body(i, f[i - 1])]
<1>0. n \in Nat
  OBVIOUS
<1>1. \A i \in 1 .. n : \A x \in Q[i - 1] : F[i][x] = Body(i, x) /\ F[i][x] \in Q[i]
  <2> SUFFICES ASSUME NEW i \in 1 .. n, NEW x \in Q[i - 1]
               PROVE  F[i][x] = Body(i, x) /\ F[i][x] \in Q[i]
    OBVIOUS
  <2>1. Body(i, x) \in Q[i]
    OBVIOUS
  <2>2. F[i][x] = Body(i, x)
    <3> HIDE DEF n, b, Body
    <3> QED OBVIOUS
  <2> QED BY <2>1, <2>2
<1>2. PICK g : IsLoop(g, n, b, F) /\ \A i \in 0 .. n : g[i] \in Q[i]
  <2>1. b \in Q[0]
    OBVIOUS
  <2> HIDE DEF n, b, Body, F
  <2> QED BY <1>0, <1>1, <2>1, LoopStates
<1>3. Loop(g)
  <2> DEFINE e == [i \in 0 .. n |-> IF i = 0 THEN b ELSE Body(i, g[i - 1])]
  <2> HIDE DEF n, b, Body, F
  <2>1. g[0] = b /\ g = [i \in 0 .. n |-> g[i]]
    BY <1>2 DEF IsLoop
  <2>2. ASSUME NEW i \in 0 .. n PROVE e[i] = g[i]
    <3>1. CASE i = 0
      BY <2>1, <3>1
    <3>2. CASE i # 0
      <4>1. i \in 1 .. n /\ i - 1 \in 0 .. n
        BY <1>0, <3>2
      <4>2. g[i] = F[i][g[i - 1]] /\ g[i - 1] \in Q[i - 1]
        BY <1>2, <4>1 DEF IsLoop
      <4>3. g[i] = Body(i, g[i - 1])
        BY <1>1, <4>1, <4>2
      <4> QED BY <3>2, <4>3
    <3> QED BY <3>1, <3>2
  <2>3. e = [i \in 0 .. n |-> e[i]]
    OBVIOUS
  <2>4. g = e
    BY <2>1, <2>2, <2>3
  <2> QED BY <2>4
<1> DEFINE kept == CHOOSE f : Loop(f)
<1>4. Loop(kept)
  <2> HIDE DEF Loop
  <2> QED BY <1>3
<1>5. \A i \in 0 .. n : kept[i] \in Q[i]
  <2> HIDE DEF kept
  <2>1. kept[0] \in Q[0]
    BY <1>4
  <2>2. \A i \in 1 .. n : kept[i - 1] \in Q[i - 1] => kept[i] \in Q[i]
    <3> TAKE i \in 1 .. n
    <3>1. kept[i] = Body(i, kept[i - 1])
      <4> HIDE DEF Body, b
      <4> QED BY <1>0, <1>4
    <3> QED BY <3>1
  <2> HIDE DEF n, Body, b
  <2> QED BY <1>0, <2>1, <2>2, LoopInvariant, Zenon
<1>6. Kept(s, S) = kept[n]
  BY DEF Kept
<1>7. n \in 0 .. n
  BY <1>0
<1> QED BY <1>5, <1>6, <1>7

\* GrantConversions goes through the granted list.
LEMMA ConversionLoop ==
    ASSUME NEW h, Len(h.granted) \in Nat, NEW Q, h \in Q[0],
           \A i \in 1 .. Len(h.granted) : \A x \in Q[i - 1] :
              GrantConversion(x, h.granted[i]) \in Q[i]
    PROVE  GrantConversions(h) \in Q[Len(h.granted)]
<1> DEFINE n == Len(h.granted)
           b == h
           Body(i, x) == GrantConversion(x, h.granted[i])
           F == [i \in 1 .. n |-> [x \in Q[i - 1] |-> Body(i, x)]]
           Loop(f) == f = [i \in 0 .. n |-> IF i = 0 THEN b ELSE Body(i, f[i - 1])]
<1>0. n \in Nat
  OBVIOUS
<1>1. \A i \in 1 .. n : \A x \in Q[i - 1] : F[i][x] = Body(i, x) /\ F[i][x] \in Q[i]
  <2> SUFFICES ASSUME NEW i \in 1 .. n, NEW x \in Q[i - 1]
               PROVE  F[i][x] = Body(i, x) /\ F[i][x] \in Q[i]
    OBVIOUS
  <2>1. Body(i, x) \in Q[i]
    OBVIOUS
  <2>2. F[i][x] = Body(i, x)
    <3> HIDE DEF n, b, Body
    <3> QED OBVIOUS
  <2> QED BY <2>1, <2>2
<1>2. PICK g : IsLoop(g, n, b, F) /\ \A i \in 0 .. n : g[i] \in Q[i]
  <2>1. b \in Q[0]
    OBVIOUS
  <2> HIDE DEF n, b, Body, F
  <2> QED BY <1>0, <1>1, <2>1, LoopStates
<1>3. Loop(g)
  <2> DEFINE e == [i \in 0 .. n |-> IF i = 0 THEN b ELSE Body(i, g[i - 1])]
  <2> HIDE DEF n, b, Body, F
  <2>1. g[0] = b /\ g = [i \in 0 .. n |-> g[i]]
    BY <1>2 DEF IsLoop
  <2>2. ASSUME NEW i \in 0 .. n PROVE e[i] = g[i]
    <3>1. CASE i = 0
      BY <2>1, <3>1
    <3>2. CASE i # 0
      <4>1. i \in 1 .. n /\ i - 1 \in 0 .. n
        BY <1>0, <3>2
      <4>2. g[i] = F[i][g[i - 1]] /\ g[i - 1] \in Q[i - 1]
        BY <1>2, <4>1 DEF IsLoop
      <4>3. g[i] = Body(i, g[i - 1])
        BY <1>1, <4>1, <4>2
      <4> QED BY <3>2, <4>3
    <3> QED BY <3>1, <3>2
  <2>3. e = [i \in 0 .. n |-> e[i]]
    OBVIOUS
  <2>4. g = e
    BY <2>1, <2>2, <2>3
  <2> QED BY <2>4
<1> DEFINE converted == CHOOSE f : Loop(f)
<1>4. Loop(converted)
  <2> HIDE DEF Loop
  <2> QED BY <1>3
<1>5. \A i \in 0 .. n : converted[i] \in Q[i]
  <2> HIDE DEF converted
  <2>1. converted[0] \in Q[0]
    BY <1>4
  <2>2. \A i \in 1 .. n : converted[i - 1] \in Q[i - 1] => converted[i] \in Q[i]
    <3> TAKE i \in 1 .. n
    <3>1. converted[i] = Body(i, converted[i - 1])
      <4> HIDE DEF Body, b
      <4> QED BY <1>0, <1>4
    <3> QED BY <3>1
  <2> HIDE DEF n, Body, b
  <2> QED BY <1>0, <2>1, <2>2, LoopInvariant, Zenon
<1>6. GrantConversions(h) = converted[n]
  BY DEF GrantConversions
<1>7. n \in 0 .. n
  BY <1>0
<1> QED BY <1>5, <1>6, <1>7

\* GrantWaiters goes through the conflict queue.
LEMMA WaitersLoop ==
    ASSUME NEW h, Len(h.queue) \in Nat, NEW Q,
           [h |-> h, newly |-> FALSE, done |-> FALSE] \in Q[0],
           \A i \in 1 .. Len(h.queue) : \A x \in Q[i - 1] :
              GrantWaiting(x, h.queue[i]) \in Q[i]
    PROVE  \E x \in Q[Len(h.queue)] : GrantWaiters(h) = x.h
<1> DEFINE n == Len(h.queue)
           b == [h |-> h, newly |-> FALSE, done |-> FALSE]
           Body(i, x) == GrantWaiting(x, h.queue[i])
           F == [i \in 1 .. n |-> [x \in Q[i - 1] |-> Body(i, x)]]
           Loop(f) == f = [i \in 0 .. n |-> IF i = 0 THEN b ELSE Body(i, f[i - 1])]
<1>0. n \in Nat
  OBVIOUS
<1>1. \A i \in 1 .. n : \A x \in Q[i - 1] : F[i][x] = Body(i, x) /\ F[i][x] \in Q[i]
  <2> SUFFICES ASSUME NEW i \in 1 .. n, NEW x \in Q[i - 1]
               PROVE  F[i][x] = Body(i, x) /\ F[i][x] \in Q[i]
    OBVIOUS
  <2>1. Body(i, x) \in Q[i]
    OBVIOUS
  <2>2. F[i][x] = Body(i, x)
    <3> HIDE DEF n, b, Body
    <3> QED OBVIOUS
  <2> QED BY <2>1, <2>2
<1>2. PICK g : IsLoop(g, n, b, F) /\ \A i \in 0 .. n : g[i] \in Q[i]
  <2>1. b \in Q[0]
    OBVIOUS
  <2> HIDE DEF n, b, Body, F
  <2> QED BY <1>0, <1>1, <2>1, LoopStates
<1>3. Loop(g)
  <2> DEFINE e == [i \in 0 .. n |-> IF i = 0 THEN b ELSE Body(i, g[i - 1])]
  <2> HIDE DEF n, b, Body, F
  <2>1. g[0] = b /\ g = [i \in 0 .. n |-> g[i]]
    BY <1>2 DEF IsLoop
  <2>2. ASSUME NEW i \in 0 .. n PROVE e[i] = g[i]
    <3>1. CASE i = 0
      BY <2>1, <3>1
    <3>2. CASE i # 0
      <4>1. i \in 1 .. n /\ i - 1 \in 0 .. n
        BY <1>0, <3>2
      <4>2. g[i] = F[i][g[i - 1]] /\ g[i - 1] \in Q[i - 1]
        BY <1>2, <4>1 DEF IsLoop
      <4>3. g[i] = Body(i, g[i - 1])
        BY <1>1, <4>1, <4>2
      <4> QED BY <3>2, <4>3
    <3> QED BY <3>1, <3>2
  <2>3. e = [i \in 0 .. n |-> e[i]]
    OBVIOUS
  <2>4. g = e
    BY <2>1, <2>2, <2>3
  <2> QED BY <2>4
<1> DEFINE scan == CHOOSE f : Loop(f)
<1>4. Loop(scan)
  <2> HIDE DEF Loop
  <2> QED BY <1>3
<1>5. \A i \in 0 .. n : scan[i] \in Q[i]
  <2> HIDE DEF scan
  <2>1. scan[0] \in Q[0]
    BY <1>4
  <2>2. \A i \in 1 .. n : scan[i - 1] \in Q[i - 1] => scan[i] \in Q[i]
    <3> TAKE i \in 1 .. n
    <3>1. scan[i] = Body(i, scan[i - 1])
      <4> HIDE DEF Body, b
      <4> QED BY <1>0, <1>4
    <3> QED BY <3>1
  <2> HIDE DEF n, Body, b
  <2> QED BY <1>0, <2>1, <2>2, LoopInvariant, Zenon
<1>6. GrantWaiters(h) = scan[n].h
  BY DEF GrantWaiters
<1>7. n \in 0 .. n
  BY <1>0
<1> QED BY <1>5, <1>6, <1>7

-----------------------------------------------------------------------------
(***************************************************************************)
(* Lists and modes                                                         *)
(***************************************************************************)

\* The elements of a list.
Members(list) == {list[i] : i \in DOMAIN list}

\* What a list is after Append.
LEMMA AppendFacts ==
    ASSUME NEW x \in Seq(Lockers), NEW e \in Lockers
    PROVE  /\ Append(x, e) \in Seq(Lockers)
           /\ Members(Append(x, e)) = Members(x) \cup {e}
           /\ \A p, q : Precedes(Append(x, e), p, q) <=>
                           Precedes(x, p, q) \/ (p \in Members(x) /\ q = e)
<1> DEFINE y == Append(x, e)
           n == Len(x)
<1>1. /\ y \in Seq(Lockers) /\ n \in Nat /\ DOMAIN x = 1 .. n /\ DOMAIN y = 1 .. (n + 1)
      /\ \A i \in 1 .. n : y[i] = x[i]
      /\ y[n + 1] = e
  OBVIOUS
<1> HIDE DEF y, n
<1>2. Members(y) = Members(x) \cup {e}
  BY <1>1 DEF Members
<1>3. ASSUME NEW p, NEW q, Precedes(y, p, q) PROVE Precedes(x, p, q) \/ (p \in Members(x) /\ q = e)
  <2>1. PICK i \in DOMAIN y, j \in DOMAIN y : i < j /\ y[i] = p /\ y[j] = q
    BY <1>3 DEF Precedes
  <2>2. i \in 1 .. n /\ p = x[i]
    BY <1>1, <2>1
  <2>3. CASE j = n + 1
    BY <1>1, <2>1, <2>2, <2>3 DEF Members
  <2>4. CASE j # n + 1
    <3>1. j \in 1 .. n /\ x[j] = q
      BY <1>1, <2>1, <2>4
    <3> QED BY <1>1, <2>1, <2>2, <3>1 DEF Precedes
  <2> QED BY <2>3, <2>4
<1>4. ASSUME NEW p, NEW q, Precedes(x, p, q) PROVE Precedes(y, p, q)
  <2>1. PICK i \in DOMAIN x, j \in DOMAIN x : i < j /\ x[i] = p /\ x[j] = q
    BY <1>4 DEF Precedes
  <2>2. i \in DOMAIN y /\ j \in DOMAIN y /\ y[i] = p /\ y[j] = q
    BY <1>1, <2>1
  <2> QED BY <2>1, <2>2 DEF Precedes
<1>5. ASSUME NEW p \in Members(x) PROVE Precedes(y, p, e)
  <2>1. PICK i \in DOMAIN x : x[i] = p
    BY DEF Members
  <2>2. i \in DOMAIN y /\ n + 1 \in DOMAIN y /\ i < n + 1 /\ y[i] = p
    BY <1>1, <2>1
  <2> QED BY <1>1, <2>2 DEF Precedes
<1>6. \A p, q : Precedes(y, p, q) <=> Precedes(x, p, q) \/ (p \in Members(x) /\ q = e)
  BY <1>3, <1>4, <1>5
<1>7. y \in Seq(Lockers)
  BY <1>1
<1> QED BY <1>2, <1>6, <1>7 DEF y

\* What a list is when an element is put in front.
LEMMA ConsFacts ==
    ASSUME NEW x \in Seq(Lockers), NEW e \in Lockers
    PROVE  /\ <<e>> \o x \in Seq(Lockers)
           /\ Members(<<e>> \o x) = Members(x) \cup {e}
           /\ \A p, q : Precedes(<<e>> \o x, p, q) <=>
                           Precedes(x, p, q) \/ (p = e /\ q \in Members(x))
<1> DEFINE y == <<e>> \o x
           n == Len(x)
<1>1. /\ y \in Seq(Lockers) /\ n \in Nat /\ DOMAIN x = 1 .. n /\ DOMAIN y = 1 .. (n + 1)
      /\ \A i \in 1 .. n : y[i + 1] = x[i]
      /\ y[1] = e
  OBVIOUS
<1> HIDE DEF y, n
<1>2. \A i \in DOMAIN y : i = 1 \/ (i - 1 \in DOMAIN x /\ y[i] = x[i - 1])
  <2> TAKE i \in DOMAIN y
  <2>1. CASE i # 1
    <3>1. i - 1 \in 1 .. n
      BY <1>1, <2>1
    <3>2. y[(i - 1) + 1] = x[i - 1] /\ (i - 1) + 1 = i
      BY <1>1, <3>1
    <3> QED BY <1>1, <3>1, <3>2
  <2> QED BY <2>1
<1>3. \A i \in DOMAIN x : i + 1 \in DOMAIN y /\ y[i + 1] = x[i]
  BY <1>1
<1>4. Members(y) = Members(x) \cup {e}
  <2>1. Members(y) \subseteq Members(x) \cup {e}
    BY <1>1, <1>2 DEF Members
  <2>2. Members(x) \subseteq Members(y)
    BY <1>3 DEF Members
  <2>3. e \in Members(y)
    BY <1>1 DEF Members
  <2> QED BY <2>1, <2>2, <2>3
<1>5. ASSUME NEW p, NEW q, Precedes(y, p, q) PROVE Precedes(x, p, q) \/ (p = e /\ q \in Members(x))
  <2>1. PICK i \in DOMAIN y, j \in DOMAIN y : i < j /\ y[i] = p /\ y[j] = q
    BY <1>5 DEF Precedes
  <2>2. j - 1 \in DOMAIN x /\ x[j - 1] = q
    BY <1>1, <1>2, <2>1
  <2>3. CASE i = 1
    BY <1>1, <2>1, <2>2, <2>3 DEF Members
  <2>4. CASE i # 1
    <3>1. i - 1 \in DOMAIN x /\ x[i - 1] = p /\ i - 1 < j - 1
      BY <1>1, <1>2, <2>1, <2>4
    <3> QED BY <2>2, <3>1 DEF Precedes
  <2> QED BY <2>3, <2>4
<1>6. ASSUME NEW p, NEW q, Precedes(x, p, q) PROVE Precedes(y, p, q)
  <2>1. PICK i \in DOMAIN x, j \in DOMAIN x : i < j /\ x[i] = p /\ x[j] = q
    BY <1>6 DEF Precedes
  <2>2. i + 1 \in DOMAIN y /\ j + 1 \in DOMAIN y /\ y[i + 1] = p /\ y[j + 1] = q /\ i + 1 < j + 1
    BY <1>1, <1>3, <2>1
  <2> QED BY <2>2 DEF Precedes
<1>7. ASSUME NEW q \in Members(x) PROVE Precedes(y, e, q)
  <2>1. PICK j \in DOMAIN x : x[j] = q
    BY DEF Members
  <2>2. 1 \in DOMAIN y /\ j + 1 \in DOMAIN y /\ 1 < j + 1 /\ y[j + 1] = q
    BY <1>1, <1>3, <2>1
  <2> QED BY <1>1, <2>2 DEF Precedes
<1>8. \A p, q : Precedes(y, p, q) <=> Precedes(x, p, q) \/ (p = e /\ q \in Members(x))
  BY <1>5, <1>6, <1>7
<1>9. y \in Seq(Lockers)
  BY <1>1
<1> QED BY <1>4, <1>8, <1>9 DEF y

\* Kept keeps the elements of S and their order.
LEMMA KeptFacts ==
    ASSUME NEW s \in Seq(Lockers), NEW S
    PROVE  /\ Kept(s, S) \in Seq(Lockers)
           /\ Members(Kept(s, S)) = Members(s) \cap S
           /\ \A p, q : Precedes(Kept(s, S), p, q) <=> Precedes(s, p, q) /\ p \in S /\ q \in S
<1> DEFINE Upto(i) == {s[j] : j \in 1 .. i} \cap S
           Prec(i, p, q) == /\ p \in S /\ q \in S
                            /\ \E u, v \in 1 .. i : u < v /\ s[u] = p /\ s[v] = q
           P(i) == {x \in Seq(Lockers) : /\ Members(x) = Upto(i)
                                         /\ \A p, q : Precedes(x, p, q) <=> Prec(i, p, q)}
           Q == [i \in 0 .. Len(s) |-> P(i)]
<1>1. Len(s) \in Nat /\ DOMAIN s = 1 .. Len(s) /\ \A i \in 1 .. Len(s) : s[i] \in Lockers
  OBVIOUS
<1>2. <<>> \in P(0)
  <2>1. Members(<<>>) = {} /\ \A p, q : ~Precedes(<<>>, p, q)
    BY DEF Members, Precedes
  <2>2. Upto(0) = {} /\ \A p, q : ~Prec(0, p, q)
    OBVIOUS
  <2> QED BY <2>1, <2>2
<1>3. ASSUME NEW i \in 1 .. Len(s), NEW x \in P(i - 1)
      PROVE  (IF s[i] \in S THEN Append(x, s[i]) ELSE x) \in P(i)
  <2>1. x \in Seq(Lockers) /\ Members(x) = Upto(i - 1)
        /\ \A p, q : Precedes(x, p, q) <=> Prec(i - 1, p, q)
    OBVIOUS
  <2>2. i \in 1 .. i /\ \A j \in 1 .. i : j \in 1 .. (i - 1) \/ j = i
    BY <1>1
  <2>3. \A j \in 1 .. (i - 1) : j \in 1 .. i /\ j < i
    BY <1>1
  <2>4. Upto(i) = Upto(i - 1) \cup ({s[i]} \cap S)
    BY <2>2, <2>3
  <2>5. ASSUME NEW p, NEW q
        PROVE  Prec(i, p, q) <=> Prec(i - 1, p, q) \/ (p \in Upto(i - 1) /\ q = s[i] /\ q \in S)
    <3>1. ASSUME Prec(i, p, q)
          PROVE  Prec(i - 1, p, q) \/ (p \in Upto(i - 1) /\ q = s[i] /\ q \in S)
      <4>1. PICK u \in 1 .. i, v \in 1 .. i : u < v /\ s[u] = p /\ s[v] = q
        BY <3>1
      <4>2. u \in 1 .. (i - 1)
        BY <1>1, <4>1
      <4>3. CASE v = i
        BY <3>1, <4>1, <4>2, <4>3
      <4>4. CASE v # i
        <5>1. v \in 1 .. (i - 1)
          BY <2>2, <4>4
        <5> QED BY <3>1, <4>1, <4>2, <5>1
      <4> QED BY <4>3, <4>4
    <3>2. ASSUME Prec(i - 1, p, q) PROVE Prec(i, p, q)
      BY <2>3, <3>2
    <3>3. ASSUME p \in Upto(i - 1), q = s[i], q \in S PROVE Prec(i, p, q)
      <4>1. PICK u \in 1 .. (i - 1) : s[u] = p
        BY <3>3
      <4> QED BY <2>2, <2>3, <3>3, <4>1
    <3> QED BY <3>1, <3>2, <3>3
  <2> HIDE DEF Upto, Prec
  <2>6. CASE s[i] \in S
    <3>1. /\ Append(x, s[i]) \in Seq(Lockers)
          /\ Members(Append(x, s[i])) = Members(x) \cup {s[i]}
          /\ \A p, q : Precedes(Append(x, s[i]), p, q) <=>
                           Precedes(x, p, q) \/ (p \in Members(x) /\ q = s[i])
      BY <1>1, <2>1, AppendFacts
    <3>2. Members(Append(x, s[i])) = Upto(i)
      BY <2>1, <2>4, <2>6, <3>1
    <3>3. \A p, q : Precedes(Append(x, s[i]), p, q) <=> Prec(i, p, q)
      BY <2>1, <2>5, <2>6, <3>1
    <3> QED BY <2>6, <3>1, <3>2, <3>3
  <2>7. CASE s[i] \notin S
    <3>1. Members(x) = Upto(i)
      BY <2>1, <2>4, <2>7
    <3>2. \A p, q : Precedes(x, p, q) <=> Prec(i, p, q)
      BY <2>1, <2>5, <2>7
    <3> QED BY <2>1, <2>7, <3>1, <3>2
  <2> QED BY <2>6, <2>7
<1>4. \A i \in 0 .. Len(s) : Q[i] = P(i)
  OBVIOUS
<1>5. Kept(s, S) \in Q[Len(s)]
  <2> HIDE DEF P, Q
  <2>1. <<>> \in Q[0]
    BY <1>1, <1>2, <1>4
  <2>2. ASSUME NEW i \in 1 .. Len(s), NEW x \in Q[i - 1]
        PROVE  (IF s[i] \in S THEN Append(x, s[i]) ELSE x) \in Q[i]
    <3>1. Q[i - 1] = P(i - 1) /\ Q[i] = P(i)
      BY <1>1, <1>4
    <3>2. x \in P(i - 1)
      BY <3>1
    <3>3. (IF s[i] \in S THEN Append(x, s[i]) ELSE x) \in P(i)
      BY <1>3, <3>2, Zenon
    <3> QED BY <3>1, <3>3
  <2> QED BY <1>1, <2>1, <2>2, KeptLoop
<1>6. Kept(s, S) \in P(Len(s))
  <2> HIDE DEF P, Q
  <2>1. Len(s) \in 0 .. Len(s)
    BY <1>1
  <2> QED BY <1>4, <1>5, <2>1
<1>7. Upto(Len(s)) = Members(s) \cap S
  BY <1>1 DEF Members
<1>8. \A p, q : Prec(Len(s), p, q) <=> Precedes(s, p, q) /\ p \in S /\ q \in S
  BY <1>1 DEF Precedes
<1> HIDE DEF Upto, Prec
<1> QED BY <1>6, <1>7, <1>8

\* The elements of two lists, one after the other.
LEMMA ConcatMembers ==
    ASSUME NEW A, NEW s \in Seq(A), NEW t \in Seq(A)
    PROVE  s \o t \in Seq(A) /\ Members(s \o t) = Members(s) \cup Members(t)
<1> DEFINE y == s \o t
<1>1. /\ y \in Seq(A) /\ Len(s) \in Nat /\ Len(t) \in Nat
      /\ DOMAIN s = 1 .. Len(s) /\ DOMAIN t = 1 .. Len(t) /\ DOMAIN y = 1 .. (Len(s) + Len(t))
      /\ \A i \in 1 .. Len(s) : y[i] = s[i]
      /\ \A i \in 1 .. Len(t) : y[Len(s) + i] = t[i]
  OBVIOUS
<1> HIDE DEF y
<1>2. ASSUME NEW i \in DOMAIN y PROVE y[i] \in Members(s) \cup Members(t)
  <2>1. CASE i <= Len(s)
    BY <1>1, <2>1 DEF Members
  <2>2. CASE ~(i <= Len(s))
    <3>1. i - Len(s) \in 1 .. Len(t) /\ Len(s) + (i - Len(s)) = i
      BY <1>1, <2>2
    <3>2. y[i] = t[i - Len(s)]
      BY <1>1, <3>1
    <3> QED BY <1>1, <3>1, <3>2 DEF Members
  <2> QED BY <2>1, <2>2
<1>3. ASSUME NEW i \in DOMAIN s PROVE s[i] \in Members(y)
  <2>1. i \in DOMAIN y /\ y[i] = s[i]
    BY <1>1
  <2> QED BY <2>1 DEF Members
<1>4. ASSUME NEW i \in DOMAIN t PROVE t[i] \in Members(y)
  <2>1. Len(s) + i \in DOMAIN y /\ y[Len(s) + i] = t[i]
    BY <1>1
  <2> QED BY <2>1 DEF Members
<1>5. Members(y) \subseteq Members(s) \cup Members(t)
  BY <1>2 DEF Members
<1>6. Members(s) \subseteq Members(y) /\ Members(t) \subseteq Members(y)
  BY <1>3, <1>4 DEF Members
<1>7. y \in Seq(A)
  BY <1>1
<1> QED BY <1>5, <1>6, <1>7 DEF y

\* The first element of a list, and the others.
LEMMA TailMembers ==
    ASSUME NEW A, NEW s \in Seq(A), s # <<>>
    PROVE  /\ Head(s) \in A /\ Tail(s) \in Seq(A)
           /\ Members(s) = {Head(s)} \cup Members(Tail(s))
<1> DEFINE y == Tail(s)
<1>1. /\ y \in Seq(A) /\ Len(s) \in Nat /\ Len(s) >= 1 /\ Head(s) = s[1] /\ s[1] \in A
      /\ DOMAIN s = 1 .. Len(s) /\ DOMAIN y = 1 .. (Len(s) - 1)
      /\ \A i \in 1 .. (Len(s) - 1) : y[i] = s[i + 1]
  OBVIOUS
<1> HIDE DEF y
<1>2. \A i \in DOMAIN y : i + 1 \in DOMAIN s /\ s[i + 1] = y[i]
  BY <1>1
<1>3. ASSUME NEW i \in DOMAIN s, i # 1 PROVE i - 1 \in DOMAIN y /\ y[i - 1] = s[i]
  <2>1. i - 1 \in 1 .. (Len(s) - 1) /\ (i - 1) + 1 = i
    BY <1>1, <1>3
  <2>2. y[i - 1] = s[(i - 1) + 1]
    BY <1>1, <2>1
  <2> QED BY <1>1, <2>1, <2>2
<1>4. Members(y) \subseteq Members(s) /\ Head(s) \in Members(s)
  BY <1>1, <1>2 DEF Members
<1>5. Members(s) \subseteq {Head(s)} \cup Members(y)
  BY <1>1, <1>3 DEF Members
<1>6. Members(s) = {Head(s)} \cup Members(y)
  BY <1>4, <1>5
<1> QED BY <1>1, <1>6 DEF y

\* Two modes conflict.
Clash(m, n) == n \in LockConflictsTable[m]

\* Conflicts are mutual; a mode conflicts with whatever a mode that it covers does.
LEMMA ClashFacts ==
    ASSUME NEW m \in AnyMode, NEW n \in AnyMode
    PROVE  /\ Clash(m, n) <=> Clash(n, m)
           /\ Clash(m, n) => m # NoMode /\ n # NoMode
           /\ \A c \in AnyMode : isModeCovered(n, c) /\ Clash(m, n) => Clash(m, c)
<1>1. \A p, q \in AnyMode : Clash(p, q) <=> Clash(q, p)
  BY DEF Clash, LockConflictsTable, AnyMode, Modes, NoMode
<1>2. Clash(m, n) => m # NoMode /\ n # NoMode
  BY DEF Clash, LockConflictsTable, AnyMode, Modes, NoMode
<1>3. \A c \in AnyMode : isModeCovered(n, c) /\ Clash(n, m) => Clash(c, m)
  BY DEF Clash, isModeCovered
<1> QED BY <1>1, <1>2, <1>3

\* conflicts, mode by mode.
LEMMA ConflictFacts ==
    ASSUME NEW m
    PROVE  /\ \A E : conflicts(m, E) <=> \E e \in E : Clash(m, e)
           /\ \A e : conflicts(m, {e}) <=> Clash(m, e)
           /\ \A e, f : conflicts(m, {e, f}) <=> Clash(m, e) \/ Clash(m, f)
           /\ \A h, S : conflicts(m, ModesOf(h, S)) <=>
                  \E l \in S : Clash(m, h.mode[l]) \/ Clash(m, h.convertMode[l])
  BY DEF conflicts, Clash, ModesOf
-----------------------------------------------------------------------------
(***************************************************************************)
(* What _onLockModeChanged does                                            *)
(***************************************************************************)

\* A LockHead as the lock manager leaves it: only a granted request converts, and to a
\* stronger mode.
HeadOK(h) ==
    /\ h \in Heads /\ OnOneList(h)
    /\ \A l \in Lockers : IsConverting(h, l) =>
          l \in Granted(h) /\ isModeCovered(h.mode[l], h.convertMode[l])

\* The request of l on h is as it is on g, or a conversion that was granted.
SameOrConverted(h, g, l) ==
    \/ g.mode[l] = h.mode[l] /\ g.convertMode[l] = h.convertMode[l]
    \/ IsConverting(h, l) /\ g.mode[l] = h.convertMode[l] /\ g.convertMode[l] = NoMode

\* Another granted request is in the way of a conversion of k, or of a waiting k.
ConversionBlocked(h, k) ==
    \E o \in Granted(h) \ {k} :
        Clash(h.convertMode[k], h.mode[o]) \/ Clash(h.convertMode[k], h.convertMode[o])
WaitBlocked(h, k) ==
    \E o \in Granted(h) : Clash(h.mode[k], h.mode[o]) \/ Clash(h.mode[k], h.convertMode[o])

\* x is h with some of its conversions granted.
Converted(h, x) ==
    /\ x \in Heads /\ x.granted = h.granted /\ x.queue = h.queue /\ x.first = h.first
    /\ \A l \in Lockers : SameOrConverted(h, x, l)
    /\ \A k \in Lockers : IsConverting(h, k) /\ ConversionBlocked(h, k) => IsConverting(x, k)

\* x is h with some of its waiting requests granted.
Served(h, x) ==
    /\ x \in Heads /\ OnOneList(x) /\ x.first = h.first
    /\ x.mode = h.mode /\ x.convertMode = h.convertMode
    /\ Granted(h) \subseteq Granted(x) /\ Granted(x) \subseteq Granted(h) \cup Waiters(h)
    /\ Waiters(x) = Waiters(h) \ Granted(x)
    /\ \A p, q : Precedes(h.granted, p, q) => Precedes(x.granted, p, q)
    /\ \A p, q \in Waiters(x) : Precedes(h.queue, p, q) => Precedes(x.queue, p, q)
    /\ \A k \in Waiters(h) : WaitBlocked(h, k) => k \in Waiters(x)
    /\ \A k \in Waiters(h) : \A o \in Granted(x) :
          Precedes(h.queue, o, k) /\ Clash(h.mode[k], h.mode[o]) => k \in Waiters(x)

\* The fields of a LockHead.
LEMMA HeadFields ==
    ASSUME NEW h \in Heads
    PROVE  /\ h.granted \in Seq(Lockers) /\ h.queue \in Seq(Lockers) /\ h.first \in SUBSET Lockers
           /\ h.mode \in [Lockers -> AnyMode] /\ h.convertMode \in [Lockers -> AnyMode]
           /\ Len(h.granted) \in Nat /\ DOMAIN h.granted = 1 .. Len(h.granted)
           /\ Len(h.queue) \in Nat /\ DOMAIN h.queue = 1 .. Len(h.queue)
           /\ Granted(h) = Members(h.granted) /\ Waiters(h) = Members(h.queue)
           /\ Granted(h) \subseteq Lockers /\ Waiters(h) \subseteq Lockers
<1>1. h.granted \in Seq(Lockers) /\ h.queue \in Seq(Lockers) /\ h.first \in SUBSET Lockers
      /\ h.mode \in [Lockers -> AnyMode] /\ h.convertMode \in [Lockers -> AnyMode]
  BY DEF Heads
<1>2. Granted(h) = Members(h.granted) /\ Waiters(h) = Members(h.queue)
  BY DEF Granted, Waiters, Members
<1>3. Members(h.granted) \subseteq Lockers /\ Members(h.queue) \subseteq Lockers
  BY <1>1 DEF Members
<1> QED BY <1>1, <1>2, <1>3

\* In a list without repetition of its elements only one of two comes before the other.
LEMMA PrecedesOnce ==
    ASSUME NEW s \in Seq(Lockers), \A l \in Lockers : ~Precedes(s, l, l), NEW p, NEW q,
           Precedes(s, p, q)
    PROVE  /\ p \in Members(s) /\ q \in Members(s) /\ p # q /\ ~Precedes(s, q, p)
<1>1. PICK i \in DOMAIN s, j \in DOMAIN s : i < j /\ s[i] = p /\ s[j] = q
  BY DEF Precedes
<1>2. p \in Lockers /\ q \in Lockers /\ DOMAIN s = 1 .. Len(s) /\ Len(s) \in Nat
  BY <1>1
<1>3. \A u, v \in DOMAIN s : s[u] = s[v] => u = v
  <2> SUFFICES ASSUME NEW u \in DOMAIN s, NEW v \in DOMAIN s, s[u] = s[v], u # v PROVE FALSE
    OBVIOUS
  <2>1. s[u] \in Lockers /\ (u < v \/ v < u)
    BY <1>2
  <2> QED BY <2>1 DEF Precedes
<1>4. ~Precedes(s, q, p)
  <2> SUFFICES ASSUME Precedes(s, q, p) PROVE FALSE
    OBVIOUS
  <2>1. PICK u \in DOMAIN s, v \in DOMAIN s : u < v /\ s[u] = q /\ s[v] = p
    BY DEF Precedes
  <2>2. u = j /\ v = i
    BY <1>1, <1>3, <2>1
  <2> QED BY <1>1, <1>2, <2>1, <2>2
<1> QED BY <1>1, <1>2, <1>4 DEF Members

\* One iteration of the first loop.
LEMMA GrantConversionStep ==
    ASSUME NEW h, HeadOK(h), NEW x, Converted(h, x), NEW l \in Granted(h)
    PROVE  Converted(h, GrantConversion(x, l))
<1> DEFINE y == [x EXCEPT !.mode[l] = x.convertMode[l], !.convertMode[l] = NoMode]
<1>1. /\ h \in Heads /\ x \in Heads /\ l \in Lockers /\ Granted(x) = Granted(h)
      /\ \A k \in Lockers : SameOrConverted(h, x, k)
      /\ \A k \in Lockers : IsConverting(h, k) /\ ConversionBlocked(h, k) => IsConverting(x, k)
  BY HeadFields DEF HeadOK, Converted, Granted
<1>2. CASE ~(IsConverting(x, l) /\ ~conflicts(x.convertMode[l], ModesOf(x, Granted(x) \ {l})))
  BY <1>2 DEF GrantConversion
<1>3. CASE IsConverting(x, l) /\ ~conflicts(x.convertMode[l], ModesOf(x, Granted(x) \ {l}))
  <2>1. GrantConversion(x, l) = y
    BY <1>3 DEF GrantConversion
  <2>2. /\ y \in Heads /\ y.granted = x.granted /\ y.queue = x.queue /\ y.first = x.first
        /\ \A k \in Lockers : k # l =>
              y.mode[k] = x.mode[k] /\ y.convertMode[k] = x.convertMode[k]
        /\ y.mode[l] = x.convertMode[l] /\ y.convertMode[l] = NoMode
    BY <1>1 DEF Heads, AnyMode
  <2> HIDE DEF y
  <2>3. IsConverting(h, l) /\ x.mode[l] = h.mode[l] /\ x.convertMode[l] = h.convertMode[l]
    BY <1>1, <1>3 DEF SameOrConverted, IsConverting
  <2>4. \A k \in Lockers : SameOrConverted(h, y, k)
    BY <1>1, <2>2, <2>3 DEF SameOrConverted
  <2>5. ~ConversionBlocked(h, l)
    <3> SUFFICES ASSUME NEW o \in Granted(h) \ {l},
                        \/ Clash(h.convertMode[l], h.mode[o])
                        \/ Clash(h.convertMode[l], h.convertMode[o])
                 PROVE  FALSE
      BY DEF ConversionBlocked
    <3>1. o \in Lockers /\ h.mode[o] \in AnyMode /\ h.convertMode[o] \in AnyMode
          /\ h.convertMode[l] \in AnyMode
      BY <1>1, HeadFields
    <3>2. ~Clash(h.convertMode[l], x.mode[o]) /\ ~Clash(h.convertMode[l], x.convertMode[o])
      BY <1>1, <1>3, <2>3, ConflictFacts
    <3>3. IsConverting(h, o) /\ x.mode[o] = h.convertMode[o]
      BY <1>1, <3>1, <3>2 DEF SameOrConverted
    <3>4. isModeCovered(h.mode[o], h.convertMode[o])
      BY <3>1, <3>3 DEF HeadOK
    <3> QED BY <3>1, <3>2, <3>3, <3>4, ClashFacts
  <2>6. \A k \in Lockers : IsConverting(h, k) /\ ConversionBlocked(h, k) => IsConverting(y, k)
    BY <1>1, <2>2, <2>5 DEF IsConverting
  <2> QED BY <2>1, <2>2, <2>4, <2>6 DEF Converted
<1> QED BY <1>2, <1>3

\* The first loop grants some conversions, none that is blocked.
LEMMA ConversionsGranted ==
    ASSUME NEW h, HeadOK(h)
    PROVE  Converted(h, GrantConversions(h)) /\ HeadOK(GrantConversions(h))
<1> DEFINE P == {x \in Heads : Converted(h, x)}
           n == Len(h.granted)
           Q == [i \in 0 .. n |-> P]
<1>1. n \in Nat /\ DOMAIN h.granted = 1 .. n /\ h \in Heads
  BY HeadFields DEF HeadOK
<1>2. h \in P
  BY <1>1 DEF Converted, SameOrConverted
<1>3. ASSUME NEW i \in 1 .. n, NEW x \in P PROVE GrantConversion(x, h.granted[i]) \in P
  <2>1. h.granted[i] \in Granted(h)
    BY <1>1 DEF Granted
  <2>2. Converted(h, GrantConversion(x, h.granted[i]))
    BY <2>1, GrantConversionStep
  <2> QED BY <2>2 DEF Converted
<1>4. \A i \in 0 .. n : Q[i] = P
  OBVIOUS
<1>5. GrantConversions(h) \in Q[n]
  <2> HIDE DEF P
  <2>1. h \in Q[0]
    BY <1>1, <1>2
  <2>2. ASSUME NEW i \in 1 .. n, NEW x \in Q[i - 1] PROVE GrantConversion(x, h.granted[i]) \in Q[i]
    <3>1. Q[i - 1] = P /\ Q[i] = P
      BY <1>1
    <3> HIDE DEF Q, n
    <3> QED BY <1>3, <3>1
  <2> HIDE DEF Q
  <2> QED BY <1>1, <2>1, <2>2, ConversionLoop
<1>6. Converted(h, GrantConversions(h))
  <2>1. n \in 0 .. n
    BY <1>1
  <2>2. GrantConversions(h) \in P
    <3> HIDE DEF P, Q, n
    <3> QED BY <1>4, <1>5, <2>1
  <2> QED BY <2>2
<1> DEFINE g == GrantConversions(h)
<1> HIDE DEF g
<1>7. Converted(h, g)
  BY <1>6 DEF g
<1>8. HeadOK(g)
  <2>1. g \in Heads /\ OnOneList(g) /\ Granted(g) = Granted(h)
    BY <1>7 DEF HeadOK, Converted, OnOneList, Granted, Waiters
  <2>2. ASSUME NEW l \in Lockers, IsConverting(g, l)
        PROVE  l \in Granted(g) /\ isModeCovered(g.mode[l], g.convertMode[l])
    <3>1. IsConverting(h, l) /\ g.mode[l] = h.mode[l] /\ g.convertMode[l] = h.convertMode[l]
      BY <1>7, <2>2 DEF Converted, SameOrConverted, IsConverting
    <3> QED BY <2>1, <3>1 DEF HeadOK
  <2> QED BY <2>1, <2>2 DEF HeadOK
<1> QED BY <1>7, <1>8 DEF g

\* The states of the second loop after i iterations.
Scans(c, i) ==
    {x \in [h : Heads, newly : BOOLEAN, done : BOOLEAN] :
        Served(c, x.h) /\ Granted(x.h) \subseteq Granted(c) \cup {c.queue[j] : j \in 1 .. i}}

\* The second loop grants the request of l.
Promoted(h, l) == [h EXCEPT !.granted = Append(@, l), !.queue = Unqueued(@, l)]

\* What is on the lists then.
LEMMA PromotedFacts ==
    ASSUME NEW h \in Heads, OnOneList(h), NEW l \in Waiters(h), NEW y, y = Promoted(h, l)
    PROVE  /\ y \in Heads /\ OnOneList(y) /\ y.first = h.first
           /\ y.mode = h.mode /\ y.convertMode = h.convertMode
           /\ Granted(y) = Granted(h) \cup {l} /\ Waiters(y) = Waiters(h) \ {l}
           /\ \A p, q : Precedes(h.granted, p, q) => Precedes(y.granted, p, q)
           /\ \A p, q : Precedes(y.queue, p, q) <=> Precedes(h.queue, p, q) /\ p # l /\ q # l
<1>1. l \in Lockers /\ l \notin Granted(h)
      /\ h.granted \in Seq(Lockers) /\ h.queue \in Seq(Lockers)
      /\ Granted(h) = Members(h.granted) /\ Waiters(h) = Members(h.queue)
      /\ Waiters(h) \subseteq Lockers
  BY HeadFields DEF OnOneList
<1>2. y.granted = Append(h.granted, l) /\ y.queue = Kept(h.queue, Lockers \ {l})
      /\ y.first = h.first /\ y.mode = h.mode /\ y.convertMode = h.convertMode
  BY DEF Heads, Unqueued, Promoted
<1>3. /\ y.granted \in Seq(Lockers) /\ Members(y.granted) = Members(h.granted) \cup {l}
      /\ \A p, q : Precedes(y.granted, p, q) <=>
                       Precedes(h.granted, p, q) \/ (p \in Members(h.granted) /\ q = l)
  BY <1>1, <1>2, AppendFacts
<1>4. /\ y.queue \in Seq(Lockers) /\ Members(y.queue) = Members(h.queue) \cap (Lockers \ {l})
      /\ \A p, q : Precedes(y.queue, p, q) <=>
                       Precedes(h.queue, p, q) /\ p \in Lockers \ {l} /\ q \in Lockers \ {l}
  <2> DEFINE q0 == h.queue
             S == Lockers \ {l}
  <2>1. q0 \in Seq(Lockers) /\ y.queue = Kept(q0, S)
    BY <1>1, <1>2
  <2> HIDE DEF q0, S
  <2>2. /\ Kept(q0, S) \in Seq(Lockers) /\ Members(Kept(q0, S)) = Members(q0) \cap S
        /\ \A p, q : Precedes(Kept(q0, S), p, q) <=> Precedes(q0, p, q) /\ p \in S /\ q \in S
    BY <2>1, KeptFacts
  <2> QED BY <2>1, <2>2 DEF q0, S
<1>5. y = [granted |-> y.granted, queue |-> y.queue, mode |-> h.mode,
           convertMode |-> h.convertMode, first |-> h.first]
  BY DEF Heads, Promoted
<1>6. y \in Heads
  BY <1>3, <1>4, <1>5 DEF Heads
<1>7. Granted(y) = Granted(h) \cup {l} /\ Waiters(y) = Waiters(h) \ {l}
  <2>1. Granted(y) = Members(y.granted) /\ Waiters(y) = Members(y.queue)
    BY <1>6, HeadFields
  <2> QED BY <1>1, <1>3, <1>4, <2>1
<1>8. \A p, q : Precedes(h.queue, p, q) => p \in Lockers /\ q \in Lockers
  BY <1>1 DEF Precedes
<1>9. OnOneList(y)
  BY <1>1, <1>3, <1>4, <1>7 DEF OnOneList
<1> QED BY <1>2, <1>3, <1>4, <1>6, <1>7, <1>8, <1>9

\* One iteration of the second loop.
LEMMA GrantWaitingStep ==
    ASSUME NEW c, HeadOK(c), NEW i \in 1 .. Len(c.queue), NEW x \in Scans(c, i - 1)
    PROVE  GrantWaiting(x, c.queue[i]) \in Scans(c, i)
<1> DEFINE l == c.queue[i]
           h == x.h
           y == Promoted(h, l)
<1>1. /\ c \in Heads /\ OnOneList(c) /\ c.queue \in Seq(Lockers) /\ Len(c.queue) \in Nat
      /\ DOMAIN c.queue = 1 .. Len(c.queue) /\ Waiters(c) = Members(c.queue)
      /\ l \in Waiters(c) /\ l \notin Granted(c) /\ l \in Lockers
      /\ \A k \in Lockers : ~Precedes(c.queue, k, k)
  BY HeadFields DEF HeadOK, OnOneList, Members
<1>2. /\ x \in [h : Heads, newly : BOOLEAN, done : BOOLEAN] /\ Served(c, h)
      /\ Granted(h) \subseteq Granted(c) \cup {c.queue[j] : j \in 1 .. (i - 1)}
  BY DEF Scans
<1>3. \A j \in 1 .. (i - 1) : j \in 1 .. i /\ j \in DOMAIN c.queue /\ j < i /\ i \in DOMAIN c.queue
  BY <1>1
<1>4. Granted(h) \subseteq Granted(c) \cup {c.queue[j] : j \in 1 .. i}
  BY <1>2, <1>3
<1>5. CASE x.done \/ conflicts(h.mode[l], ModesOf(h, Granted(h)))
  <2>1. \/ GrantWaiting(x, l) = x
        \/ GrantWaiting(x, l) = [x EXCEPT !.done = (Head(h.queue) = l /\ ~x.newly)]
    BY <1>5 DEF GrantWaiting
  <2>2. GrantWaiting(x, l) \in [h : Heads, newly : BOOLEAN, done : BOOLEAN]
        /\ GrantWaiting(x, l).h = h
    BY <1>2, <2>1
  <2> QED BY <1>2, <1>4, <2>2 DEF Scans
<1>6. CASE ~x.done /\ ~conflicts(h.mode[l], ModesOf(h, Granted(h)))
  <2> DEFINE z == GrantWaiting(x, l)
  <2>0. z = [h |-> y, newly |-> x.newly \/ (l \in h.first /\ h.first \cap Granted(h) = {}),
             done |-> h.mode[l] = "X"]
    BY <1>6 DEF GrantWaiting, Promoted
  <2>1. \A j \in 1 .. (i - 1) : Precedes(c.queue, c.queue[j], l)
    BY <1>3 DEF Precedes
  <2>2. l \notin Granted(h)
    BY <1>1, <1>2, <2>1
  <2>3. /\ h \in Heads /\ OnOneList(h) /\ h.first = c.first
        /\ h.mode = c.mode /\ h.convertMode = c.convertMode
        /\ Granted(c) \subseteq Granted(h) /\ Granted(h) \subseteq Granted(c) \cup Waiters(c)
        /\ Waiters(h) = Waiters(c) \ Granted(h)
        /\ \A p, q : Precedes(c.granted, p, q) => Precedes(h.granted, p, q)
        /\ \A p, q \in Waiters(h) : Precedes(c.queue, p, q) => Precedes(h.queue, p, q)
        /\ \A k \in Waiters(c) : WaitBlocked(c, k) => k \in Waiters(h)
        /\ \A k \in Waiters(c) : \A o \in Granted(h) :
              Precedes(c.queue, o, k) /\ Clash(c.mode[k], c.mode[o]) => k \in Waiters(h)
    BY <1>2 DEF Served
  <2>4. l \in Waiters(h)
    BY <1>1, <2>2, <2>3
  <2>5. /\ y \in Heads /\ OnOneList(y) /\ y.first = h.first
        /\ y.mode = h.mode /\ y.convertMode = h.convertMode
        /\ Granted(y) = Granted(h) \cup {l} /\ Waiters(y) = Waiters(h) \ {l}
        /\ \A p, q : Precedes(h.granted, p, q) => Precedes(y.granted, p, q)
        /\ \A p, q : Precedes(y.queue, p, q) <=> Precedes(h.queue, p, q) /\ p # l /\ q # l
    <3>1. h \in Heads /\ OnOneList(h)
      BY <2>3
    <3> HIDE DEF h, l
    <3> QED BY <2>4, <3>1, PromotedFacts, Zenon
  <2>6. \A o \in Granted(h) : ~Clash(c.mode[l], c.mode[o]) /\ ~Clash(c.mode[l], c.convertMode[o])
    BY <1>6, <2>3, ConflictFacts
  <2>z. z.h = y /\ z \in [h : Heads, newly : BOOLEAN, done : BOOLEAN]
    <3> HIDE DEF y, h
    <3> QED BY <1>2, <2>0, <2>5 DEF h
  <2> HIDE DEF h, y, l, z
  <2>7. ASSUME NEW k \in Waiters(c), WaitBlocked(c, k) PROVE k \in Waiters(y)
    <3>1. k \in Waiters(h)
      BY <2>3, <2>7
    <3>2. k # l
      BY <2>3, <2>6, <2>7 DEF WaitBlocked
    <3> QED BY <2>5, <3>1, <3>2
  <2>8. ASSUME NEW k \in Waiters(c), NEW o \in Granted(y), Precedes(c.queue, o, k),
               Clash(c.mode[k], c.mode[o])
        PROVE  k \in Waiters(y)
    <3>1. /\ o # k /\ ~Precedes(c.queue, k, o)
      BY <1>1, <2>8, PrecedesOnce
    <3>2. k # l
      BY <2>5, <2>6, <2>8, <3>1
    <3>3. CASE o = l
      <4>1. k \notin Granted(h)
        <5>1. k \notin Granted(c)
          BY <1>1 DEF OnOneList
        <5>2. k \notin {c.queue[j] : j \in 1 .. (i - 1)}
          BY <2>1, <3>1, <3>3
        <5> QED BY <1>2, <5>1, <5>2
      <4> QED BY <2>3, <2>5, <3>2, <4>1
    <3>4. CASE o # l
      BY <2>3, <2>5, <2>8, <3>2, <3>4
    <3> QED BY <3>3, <3>4
  <2>9. \A p, q \in Waiters(y) : Precedes(c.queue, p, q) => Precedes(y.queue, p, q)
    BY <2>3, <2>5
  <2>10. \A p, q : Precedes(c.granted, p, q) => Precedes(y.granted, p, q)
    BY <2>3, <2>5
  <2>11. /\ Granted(c) \subseteq Granted(y) /\ Granted(y) \subseteq Granted(c) \cup Waiters(c)
         /\ Waiters(y) = Waiters(c) \ Granted(y)
    BY <1>1, <2>3, <2>5
  <2>12. Served(c, y)
    BY <2>3, <2>5, <2>7, <2>8, <2>9, <2>10, <2>11 DEF Served
  <2>13. Granted(y) \subseteq Granted(c) \cup {c.queue[j] : j \in 1 .. i}
    <3>1. l \in {c.queue[j] : j \in 1 .. i}
      BY <1>1 DEF l
    <3> QED BY <1>4, <2>5, <3>1
  <2>14. z \in Scans(c, i)
    BY <2>z, <2>12, <2>13 DEF Scans
  <2> QED BY <2>14 DEF z, l
<1> QED BY <1>5, <1>6

\* The second loop grants some waiting requests, none that is blocked, or that comes
\* after a granted one which it conflicts with.
LEMMA WaitersGranted ==
    ASSUME NEW c, HeadOK(c)
    PROVE  Served(c, GrantWaiters(c)) /\ HeadOK(GrantWaiters(c))
<1> DEFINE n == Len(c.queue)
           b == [h |-> c, newly |-> FALSE, done |-> FALSE]
           Q == [i \in 0 .. n |-> Scans(c, i)]
<1>1. n \in Nat /\ DOMAIN c.queue = 1 .. n /\ c \in Heads /\ OnOneList(c)
      /\ Waiters(c) = Members(c.queue) /\ c.queue \in Seq(Lockers)
  BY HeadFields DEF HeadOK
<1>2. b \in Scans(c, 0)
  <2>1. Waiters(c) = Waiters(c) \ Granted(c)
    BY <1>1 DEF OnOneList
  <2>2. ASSUME NEW k, NEW o \in Granted(c), Precedes(c.queue, o, k) PROVE FALSE
    <3>1. o \in Waiters(c)
      BY <1>1, <2>2, PrecedesOnce DEF OnOneList
    <3> QED BY <1>1, <3>1 DEF OnOneList
  <2>3. Served(c, c)
    BY <1>1, <2>1, <2>2 DEF Served
  <2> QED BY <1>1, <2>3 DEF Scans
<1>3. ASSUME NEW i \in 1 .. n, NEW x \in Scans(c, i - 1) PROVE GrantWaiting(x, c.queue[i]) \in Scans(c, i)
  BY GrantWaitingStep
<1>4. \A i \in 0 .. n : Q[i] = Scans(c, i)
  OBVIOUS
<1>5. \E x \in Q[n] : GrantWaiters(c) = x.h
  <2>1. b \in Q[0]
    BY <1>1, <1>2
  <2>2. ASSUME NEW i \in 1 .. n, NEW x \in Q[i - 1] PROVE GrantWaiting(x, c.queue[i]) \in Q[i]
    <3>1. Q[i - 1] = Scans(c, i - 1) /\ Q[i] = Scans(c, i)
      BY <1>1
    <3> HIDE DEF Q, n
    <3> QED BY <1>3, <3>1
  <2> HIDE DEF Q
  <2> QED BY <1>1, <2>1, <2>2, WaitersLoop
<1>6. Served(c, GrantWaiters(c))
  <2>1. n \in 0 .. n
    BY <1>1
  <2>2. \E x \in Scans(c, n) : GrantWaiters(c) = x.h
    <3> HIDE DEF Q, n
    <3> QED BY <1>4, <1>5, <2>1
  <2> QED BY <2>2 DEF Scans
<1> DEFINE g == GrantWaiters(c)
<1> HIDE DEF g
<1>7. Served(c, g)
  BY <1>6 DEF g
<1>8. HeadOK(g)
  BY <1>7 DEF HeadOK, Served, IsConverting
<1> QED BY <1>7, <1>8 DEF g

\* g is what _onLockModeChanged makes of h.
Grants(h, g) ==
    /\ HeadOK(g)
    /\ Granted(h) \subseteq Granted(g) /\ Waiters(g) = Waiters(h) \ Granted(g)
    /\ \A l \in Lockers : SameOrConverted(h, g, l)
    /\ \A p, q : Precedes(h.granted, p, q) => Precedes(g.granted, p, q)
    /\ \A p, q \in Waiters(g) : Precedes(h.queue, p, q) => Precedes(g.queue, p, q)
    /\ \A k \in Lockers : IsConverting(h, k) /\ ConversionBlocked(h, k) => IsConverting(g, k)
    /\ \A k \in Waiters(h) : WaitBlocked(h, k) => k \in Waiters(g)
    /\ \A k \in Waiters(h) : \A o \in Granted(g) :
          Precedes(h.queue, o, k) /\ Clash(h.mode[k], h.mode[o]) => k \in Waiters(g)

\* A mode conflicts with what a request holds or waits for, also when it is converted.
LEMMA ClashStays ==
    ASSUME NEW h, HeadOK(h), NEW g, g \in Heads, NEW o \in Lockers, SameOrConverted(h, g, o),
           NEW m \in AnyMode
    PROVE  /\ Clash(m, h.mode[o]) => Clash(m, g.mode[o])
           /\ Clash(m, h.convertMode[o]) => Clash(m, g.mode[o]) \/ Clash(m, g.convertMode[o])
<1>1. h.mode[o] \in AnyMode /\ h.convertMode[o] \in AnyMode
  BY HeadFields DEF HeadOK
<1>2. IsConverting(h, o) => isModeCovered(h.mode[o], h.convertMode[o])
  BY DEF HeadOK
<1> QED BY <1>1, <1>2, ClashFacts DEF SameOrConverted

\* A request that waits does not convert.
LEMMA WaiterFacts ==
    ASSUME NEW h, HeadOK(h), NEW k \in Waiters(h)
    PROVE  k \in Lockers /\ k \notin Granted(h) /\ ~IsConverting(h, k)
  BY HeadFields DEF HeadOK, OnOneList

\* That is what it makes of it.
LEMMA GrantsFacts ==
    ASSUME NEW h, HeadOK(h), NEW check \in BOOLEAN
    PROVE  Grants(h, OnLockModeChanged(h, check))
<1> DEFINE c == GrantConversions(h)
           g == GrantWaiters(c)
<1>1. Converted(h, c) /\ HeadOK(c)
  BY ConversionsGranted
<1>2. Served(c, g) /\ HeadOK(g)
  BY <1>1, WaitersGranted
<1>3. OnLockModeChanged(h, check) = IF check THEN g ELSE c
  BY DEF OnLockModeChanged
<1> HIDE DEF g, c
<1>4. /\ Granted(c) = Granted(h) /\ Waiters(c) = Waiters(h) /\ h \in Heads /\ c \in Heads
      /\ c.granted = h.granted /\ c.queue = h.queue
      /\ \A l \in Lockers : SameOrConverted(h, c, l)
      /\ \A k \in Lockers : IsConverting(h, k) /\ ConversionBlocked(h, k) => IsConverting(c, k)
  BY <1>1 DEF Converted, Granted, Waiters, HeadOK
<1>5. \A k \in Waiters(h) : c.mode[k] = h.mode[k]
  BY <1>4, WaiterFacts DEF SameOrConverted
<1>6. ASSUME NEW k \in Waiters(h), WaitBlocked(h, k) PROVE WaitBlocked(c, k)
  <2>1. PICK o \in Granted(h) : Clash(h.mode[k], h.mode[o]) \/ Clash(h.mode[k], h.convertMode[o])
    BY <1>6 DEF WaitBlocked
  <2>2. o \in Lockers /\ h.mode[k] \in AnyMode
    BY <1>4, WaiterFacts, HeadFields
  <2>3. Clash(h.mode[k], c.mode[o]) \/ Clash(h.mode[k], c.convertMode[o])
    BY <1>4, <2>1, <2>2, ClashStays
  <2> QED BY <1>4, <1>5, <2>3 DEF WaitBlocked
<1>7. Grants(h, c)
  <2>1. Waiters(c) = Waiters(h) \ Granted(c)
    BY <1>4 DEF HeadOK, OnOneList
  <2> QED BY <1>1, <1>4, <2>1 DEF Grants
<1>8. Grants(h, g)
  <2>1. /\ g.mode = c.mode /\ g.convertMode = c.convertMode
        /\ Granted(c) \subseteq Granted(g)
        /\ Waiters(g) = Waiters(c) \ Granted(g)
        /\ \A p, q : Precedes(c.granted, p, q) => Precedes(g.granted, p, q)
        /\ \A p, q \in Waiters(g) : Precedes(c.queue, p, q) => Precedes(g.queue, p, q)
        /\ \A k \in Waiters(c) : WaitBlocked(c, k) => k \in Waiters(g)
        /\ \A k \in Waiters(c) : \A o \in Granted(g) :
              Precedes(c.queue, o, k) /\ Clash(c.mode[k], c.mode[o]) => k \in Waiters(g)
    BY <1>2 DEF Served
  <2>2. \A l \in Lockers : SameOrConverted(h, g, l) /\ (IsConverting(c, l) => IsConverting(g, l))
    BY <1>4, <2>1 DEF SameOrConverted, IsConverting
  <2>3. ASSUME NEW k \in Waiters(h), NEW o \in Granted(g), Precedes(h.queue, o, k),
               Clash(h.mode[k], h.mode[o])
        PROVE  k \in Waiters(g)
    <3>1. h.queue \in Seq(Lockers) /\ (\A l \in Lockers : ~Precedes(h.queue, l, l))
          /\ Waiters(h) = Members(h.queue)
      BY <1>4, HeadFields DEF HeadOK, OnOneList
    <3>2. o \in Waiters(h)
      BY <2>3, <3>1, PrecedesOnce
    <3> QED BY <1>4, <1>5, <2>1, <2>3, <3>2
  <2>4. Granted(h) \subseteq Granted(g) /\ Waiters(g) = Waiters(h) \ Granted(g)
    BY <1>4, <2>1
  <2>5. /\ \A p, q : Precedes(h.granted, p, q) => Precedes(g.granted, p, q)
        /\ \A p, q \in Waiters(g) : Precedes(h.queue, p, q) => Precedes(g.queue, p, q)
    BY <1>4, <2>1
  <2>6. \A k \in Lockers : IsConverting(h, k) /\ ConversionBlocked(h, k) => IsConverting(g, k)
    BY <1>4, <2>2
  <2>7. \A k \in Waiters(h) : WaitBlocked(h, k) => k \in Waiters(g)
    BY <1>4, <1>6, <2>1
  <2> QED BY <1>2, <2>2, <2>3, <2>4, <2>5, <2>6, <2>7 DEF Grants
<1> QED BY <1>3, <1>7, <1>8

-----------------------------------------------------------------------------
(***************************************************************************)
(* Who waits for whom                                                      *)
(***************************************************************************)

\* l waits for h, or to convert its request on it.
Waits(h, l) == IsWaiting(h, l) \/ IsConverting(h, l)

\* On h, the request of k waits for the one of o.
Blocks(h, k, o) ==
    \/ /\ k \in Waiters(h) /\ o \in Granted(h)
       /\ Clash(h.mode[k], h.mode[o]) \/ Clash(h.mode[k], h.convertMode[o])
    \/ k \in Waiters(h) /\ Precedes(h.queue, o, k) /\ Clash(h.mode[k], h.mode[o])
    \/ /\ IsConverting(h, k) /\ o \in Granted(h) \ {k}
       /\ \/ Clash(h.convertMode[k], h.mode[o])
          \/ Precedes(h.granted, o, k) /\ Clash(h.convertMode[k], h.convertMode[o])

\* These are the owners that a search follows.
LEMMA OwnersBlock ==
    ASSUME NEW h, HeadOK(h), NEW k \in Lockers, NEW o
    PROVE  Waits(h, k) /\ o \in Owners(h, k) <=> Blocks(h, k, o)
<1>1. CASE IsWaiting(h, k)
  <2>0. k \in Waiters(h)
    BY <1>1 DEF IsWaiting
  <2>1. ~IsConverting(h, k)
    BY <2>0, WaiterFacts
  <2>2. h.queue \in Seq(Lockers) /\ Waiters(h) = Members(h.queue)
        /\ \A l \in Lockers : ~Precedes(h.queue, l, l)
    BY HeadFields DEF HeadOK, OnOneList
  <2>3. Precedes(h.queue, o, k) => o \in Waiters(h)
    BY <2>2, PrecedesOnce
  <2>4. Owners(h, k) = {l \in Granted(h) : conflicts(h.mode[k], {h.mode[l], h.convertMode[l]})}
                       \cup {l \in Before(h, k) : conflicts(h.mode[k], {h.mode[l]})}
    BY <1>1 DEF Owners
  <2>5. o \in Owners(h, k) <=>
            \/ o \in Granted(h) /\ (Clash(h.mode[k], h.mode[o]) \/ Clash(h.mode[k], h.convertMode[o]))
            \/ o \in Before(h, k) /\ Clash(h.mode[k], h.mode[o])
    BY <2>4, ConflictFacts
  <2>6. o \in Before(h, k) <=> Precedes(h.queue, o, k)
    BY <2>3 DEF Before
  <2> QED BY <1>1, <2>0, <2>1, <2>5, <2>6 DEF Blocks, Waits
<1>2. CASE ~IsWaiting(h, k)
  <2>0. k \notin Waiters(h)
    BY <1>2 DEF IsWaiting
  <2>1. Owners(h, k) = {l \in Granted(h) \ {k} :
                          \/ conflicts(h.convertMode[k], {h.mode[l]})
                          \/ /\ Precedes(h.granted, l, k)
                             /\ conflicts(h.convertMode[k], {h.convertMode[l]})}
    BY <1>2 DEF Owners
  <2>2. o \in Owners(h, k) <=>
            /\ o \in Granted(h) \ {k}
            /\ \/ Clash(h.convertMode[k], h.mode[o])
               \/ Precedes(h.granted, o, k) /\ Clash(h.convertMode[k], h.convertMode[o])
    BY <2>1, ConflictFacts
  <2> QED BY <1>2, <2>0, <2>2 DEF Blocks, Waits
<1> QED BY <1>1, <1>2

\* Both of them have a request.
LEMMA BlocksFacts ==
    ASSUME NEW h, HeadOK(h), NEW k, NEW o, Blocks(h, k, o), k \in Lockers
    PROVE  /\ Waits(h, k) /\ o \in Lockers /\ k # o
           /\ o \in Granted(h) \cup Waiters(h) /\ k \in Granted(h) \cup Waiters(h)
<1>1. /\ h.queue \in Seq(Lockers) /\ Waiters(h) = Members(h.queue)
      /\ Waiters(h) \subseteq Lockers /\ Granted(h) \subseteq Lockers
      /\ \A l \in Lockers : ~Precedes(h.queue, l, l)
      /\ Waiters(h) \cap Granted(h) = {}
  BY HeadFields DEF HeadOK, OnOneList
<1>2. Precedes(h.queue, o, k) => o \in Waiters(h) /\ o # k
  BY <1>1, PrecedesOnce
<1>3. IsConverting(h, k) => k \in Granted(h)
  BY DEF HeadOK
<1> QED BY <1>1, <1>2, <1>3 DEF Blocks, Waits, IsWaiting

\* k overtakes, in terms of Clash.
LEMMA OvertakesFacts ==
    ASSUME NEW h, NEW g, NEW k
    PROVE  Overtakes(h, g, k) <=>
               /\ k \in Waiters(h) /\ k \notin Waiters(g)
               /\ \E o \in Waiters(h) : /\ Precedes(h.queue, o, k) /\ o \in Waiters(g)
                                        /\ Clash(h.mode[k], h.mode[o])
  BY ConflictFacts DEF Overtakes, IsWaiting

\* A wait for another request outlasts what _onLockModeChanged does, unless the one
\* that waits overtakes.
LEMMA GrantsKeep ==
    ASSUME NEW h, HeadOK(h), NEW g, Grants(h, g), NEW k \in Lockers, NEW o,
           Blocks(h, k, o), ~Overtakes(h, g, k)
    PROVE  Blocks(g, k, o)
<1>1. g \in Heads /\ h \in Heads /\ HeadOK(g)
  BY DEF Grants, HeadOK
<1>2. o \in Lockers /\ SameOrConverted(h, g, o) /\ SameOrConverted(h, g, k)
      /\ h.mode[k] \in AnyMode /\ h.convertMode[k] \in AnyMode
  BY <1>1, BlocksFacts, HeadFields DEF Grants
<1>3. /\ Clash(h.mode[k], h.mode[o]) => Clash(h.mode[k], g.mode[o])
      /\ Clash(h.mode[k], h.convertMode[o]) =>
             Clash(h.mode[k], g.mode[o]) \/ Clash(h.mode[k], g.convertMode[o])
      /\ Clash(h.convertMode[k], h.mode[o]) => Clash(h.convertMode[k], g.mode[o])
      /\ Clash(h.convertMode[k], h.convertMode[o]) =>
             Clash(h.convertMode[k], g.mode[o]) \/ Clash(h.convertMode[k], g.convertMode[o])
  BY <1>1, <1>2, ClashStays
<1>4. k \in Waiters(h) => g.mode[k] = h.mode[k]
  BY <1>2, WaiterFacts DEF SameOrConverted
<1>5. CASE /\ k \in Waiters(h) /\ o \in Granted(h)
           /\ Clash(h.mode[k], h.mode[o]) \/ Clash(h.mode[k], h.convertMode[o])
  <2>1. WaitBlocked(h, k)
    BY <1>5 DEF WaitBlocked
  <2>2. k \in Waiters(g) /\ o \in Granted(g)
    BY <1>5, <2>1 DEF Grants
  <2> QED BY <1>3, <1>4, <1>5, <2>2 DEF Blocks
<1>6. CASE k \in Waiters(h) /\ Precedes(h.queue, o, k) /\ Clash(h.mode[k], h.mode[o])
  <2>1. o \in Waiters(h)
    <3>1. /\ h.queue \in Seq(Lockers) /\ Waiters(h) = Members(h.queue)
          /\ \A l \in Lockers : ~Precedes(h.queue, l, l)
      BY HeadFields DEF HeadOK, OnOneList
    <3> QED BY <1>6, <3>1, PrecedesOnce
  <2>2. CASE o \in Granted(g)
    <3>1. k \in Waiters(g)
      BY <1>6, <2>2 DEF Grants
    <3> QED BY <1>3, <1>4, <1>6, <2>2, <3>1 DEF Blocks
  <2>3. CASE o \notin Granted(g)
    <3>1. o \in Waiters(g)
      BY <2>1, <2>3 DEF Grants
    <3>2. k \in Waiters(g)
      BY <1>6, <2>1, <3>1, OvertakesFacts
    <3>3. Precedes(g.queue, o, k)
      BY <1>6, <3>1, <3>2 DEF Grants
    <3> QED BY <1>3, <1>4, <1>6, <3>2, <3>3 DEF Blocks
  <2> QED BY <2>2, <2>3
<1>7. CASE /\ IsConverting(h, k) /\ o \in Granted(h) \ {k}
           /\ \/ Clash(h.convertMode[k], h.mode[o])
              \/ Precedes(h.granted, o, k) /\ Clash(h.convertMode[k], h.convertMode[o])
  <2>1. ConversionBlocked(h, k)
    BY <1>7 DEF ConversionBlocked
  <2>2. IsConverting(g, k) /\ o \in Granted(g) \ {k}
        /\ (Precedes(h.granted, o, k) => Precedes(g.granted, o, k))
    BY <1>7, <2>1 DEF Grants
  <2>3. g.convertMode[k] = h.convertMode[k]
    BY <1>2, <2>2 DEF SameOrConverted, IsConverting
  <2> QED BY <1>3, <1>7, <2>2, <2>3 DEF Blocks
<1> QED BY <1>5, <1>6, <1>7 DEF Blocks

-----------------------------------------------------------------------------
(***************************************************************************)
(* What the calls of the lock manager do to the waits                      *)
(***************************************************************************)

\* h becomes g by a request of l: nobody's wait for another request ends.
Asks(h, g, l) ==
    /\ HeadOK(g)
    /\ \A k \in Lockers \ {l} : Waits(g, k) => Waits(h, k)
    /\ \A k, o \in Lockers : Blocks(h, k, o) => Blocks(g, k, o)

\* h becomes g when l releases or gives up: no wait for another request ends but those
\* of l, those for l, and those of the lockers that overtake.
Releases(h, g, l) ==
    /\ HeadOK(g)
    /\ \A k \in Lockers : Waits(g, k) => Waits(h, k) /\ k # l
    /\ \A k, o \in Lockers \ {l} :
          Blocks(h, k, o) /\ ~Overtakes(h, g, k) => Blocks(g, k, o)

\* A LockHead without the request of l.
LEMMA WithoutFacts ==
    ASSUME NEW h, HeadOK(h), NEW l \in Lockers
    PROVE  LET rest == Without(h, l)
           IN  /\ HeadOK(rest)
               /\ Granted(rest) = Granted(h) \ {l} /\ Waiters(rest) = Waiters(h) \ {l}
               /\ \A p, q : Precedes(rest.granted, p, q) <=> Precedes(h.granted, p, q) /\ p # l /\ q # l
               /\ \A p, q : Precedes(rest.queue, p, q) <=> Precedes(h.queue, p, q) /\ p # l /\ q # l
               /\ \A k \in Lockers \ {l} : /\ rest.mode[k] = h.mode[k]
                                           /\ rest.convertMode[k] = h.convertMode[k]
               /\ rest.convertMode[l] = NoMode
<1> DEFINE rest == Without(h, l)
           S == Lockers \ {l}
<1>1. /\ h \in Heads /\ h.granted \in Seq(Lockers) /\ h.queue \in Seq(Lockers)
      /\ Granted(h) = Members(h.granted) /\ Waiters(h) = Members(h.queue)
      /\ Granted(h) \subseteq Lockers /\ Waiters(h) \subseteq Lockers
      /\ Granted(h) \cap Waiters(h) = {}
      /\ \A k \in Lockers : ~Precedes(h.granted, k, k) /\ ~Precedes(h.queue, k, k)
  BY HeadFields DEF HeadOK, OnOneList
<1>a. rest = [granted |-> Kept(h.granted, S), queue |-> Kept(h.queue, S),
              mode |-> [h.mode EXCEPT ![l] = NoMode],
              convertMode |-> [h.convertMode EXCEPT ![l] = NoMode], first |-> h.first \ {l}]
  <2>1. h \in Heads
    BY <1>1
  <2>2. rest = [h EXCEPT !.granted = Kept(@, S), !.queue = Kept(@, S),
                         !.mode = [@ EXCEPT ![l] = NoMode],
                         !.convertMode = [@ EXCEPT ![l] = NoMode], !.first = @ \ {l}]
    BY Zenon DEF Without, Unqueued
  <2> HIDE DEF rest, S
  <2> QED BY <2>1, <2>2 DEF Heads
<1> HIDE DEF rest, S
<1>2. /\ rest.granted = Kept(h.granted, S) /\ rest.queue = Kept(h.queue, S)
      /\ rest.mode = [h.mode EXCEPT ![l] = NoMode]
      /\ rest.convertMode = [h.convertMode EXCEPT ![l] = NoMode]
      /\ rest.first = h.first \ {l}
      /\ rest = [granted |-> rest.granted, queue |-> rest.queue, mode |-> rest.mode,
                 convertMode |-> rest.convertMode, first |-> rest.first]
  BY <1>a
<1>3. /\ rest.granted \in Seq(Lockers) /\ Members(rest.granted) = Members(h.granted) \cap S
      /\ \A p, q : Precedes(rest.granted, p, q) <=> Precedes(h.granted, p, q) /\ p \in S /\ q \in S
  BY <1>1, <1>2, KeptFacts
<1>4. /\ rest.queue \in Seq(Lockers) /\ Members(rest.queue) = Members(h.queue) \cap S
      /\ \A p, q : Precedes(rest.queue, p, q) <=> Precedes(h.queue, p, q) /\ p \in S /\ q \in S
  BY <1>1, <1>2, KeptFacts
<1>5. /\ rest.mode \in [Lockers -> AnyMode] /\ rest.convertMode \in [Lockers -> AnyMode]
      /\ rest.first \in SUBSET Lockers
      /\ \A k \in S : rest.mode[k] = h.mode[k] /\ rest.convertMode[k] = h.convertMode[k]
      /\ rest.convertMode[l] = NoMode
  BY <1>1, <1>2 DEF Heads, AnyMode, S
<1>6. rest \in Heads
  BY <1>2, <1>3, <1>4, <1>5 DEF Heads
<1>7. Granted(rest) = Granted(h) \cap S /\ Waiters(rest) = Waiters(h) \cap S
  <2>1. Granted(rest) = Members(rest.granted) /\ Waiters(rest) = Members(rest.queue)
    BY <1>6, HeadFields
  <2> QED BY <1>1, <1>3, <1>4, <2>1
<1>8. /\ \A p, q : Precedes(h.granted, p, q) => p \in Lockers /\ q \in Lockers
      /\ \A p, q : Precedes(h.queue, p, q) => p \in Lockers /\ q \in Lockers
  BY <1>1 DEF Precedes
<1>9. OnOneList(rest)
  BY <1>1, <1>3, <1>4, <1>7 DEF OnOneList
<1>10. HeadOK(rest)
  <2> SUFFICES ASSUME NEW k \in Lockers, IsConverting(rest, k)
               PROVE  k \in Granted(rest) /\ isModeCovered(rest.mode[k], rest.convertMode[k])
    BY <1>6, <1>9 DEF HeadOK
  <2>1. k \in S
    BY <1>5 DEF IsConverting, S
  <2>2. IsConverting(h, k)
    BY <1>5, <2>1 DEF IsConverting
  <2> QED BY <1>5, <1>7, <2>1, <2>2 DEF HeadOK
<1>11. /\ Granted(rest) = Granted(h) \ {l} /\ Waiters(rest) = Waiters(h) \ {l}
  BY <1>1, <1>7 DEF S
<1>12. /\ \A p, q : Precedes(rest.granted, p, q) <=> Precedes(h.granted, p, q) /\ p # l /\ q # l
       /\ \A p, q : Precedes(rest.queue, p, q) <=> Precedes(h.queue, p, q) /\ p # l /\ q # l
  BY <1>3, <1>4, <1>8 DEF S
<1>13. /\ \A k \in Lockers \ {l} : rest.mode[k] = h.mode[k] /\ rest.convertMode[k] = h.convertMode[k]
       /\ rest.convertMode[l] = NoMode
  BY <1>5 DEF S
<1> QED BY <1>10, <1>11, <1>12, <1>13, Zenon DEF rest

\* l is gone from the lists, and _onLockModeChanged has run.
LEMMA WithoutReleases ==
    ASSUME NEW h, HeadOK(h), NEW l \in Lockers, NEW g, Grants(Without(h, l), g)
    PROVE  Releases(h, g, l)
<1> DEFINE rest == Without(h, l)
<1>1. /\ HeadOK(rest)
      /\ Granted(rest) = Granted(h) \ {l} /\ Waiters(rest) = Waiters(h) \ {l}
      /\ \A p, q : Precedes(rest.granted, p, q) <=> Precedes(h.granted, p, q) /\ p # l /\ q # l
      /\ \A p, q : Precedes(rest.queue, p, q) <=> Precedes(h.queue, p, q) /\ p # l /\ q # l
      /\ \A k \in Lockers \ {l} : /\ rest.mode[k] = h.mode[k]
                                  /\ rest.convertMode[k] = h.convertMode[k]
      /\ rest.convertMode[l] = NoMode
  BY WithoutFacts
<1>2. Grants(rest, g)
  OBVIOUS
<1> HIDE DEF rest
<1>3. HeadOK(g)
  BY <1>2 DEF Grants
<1>4. ASSUME NEW k \in Lockers, Waits(g, k) PROVE Waits(h, k) /\ k # l
  <2>1. Waits(rest, k)
    BY <1>2, <1>4 DEF Waits, IsWaiting, IsConverting, Grants, SameOrConverted
  <2> QED BY <1>1, <2>1 DEF Waits, IsWaiting, IsConverting
<1>5. ASSUME NEW k \in Lockers \ {l}, NEW o \in Lockers \ {l}, Blocks(h, k, o), ~Overtakes(h, g, k)
      PROVE  Blocks(g, k, o)
  <2>1. Blocks(rest, k, o)
    BY <1>1, <1>5 DEF Blocks, IsConverting
  <2>2. ~Overtakes(rest, g, k)
    <3> SUFFICES ASSUME Overtakes(rest, g, k) PROVE FALSE
      OBVIOUS
    <3>1. PICK p \in Waiters(rest) : /\ Precedes(rest.queue, p, k) /\ p \in Waiters(g)
                                     /\ Clash(rest.mode[k], rest.mode[p])
      BY OvertakesFacts
    <3>2. k \in Waiters(rest) /\ k \notin Waiters(g)
      BY OvertakesFacts
    <3>3. p \in Lockers \ {l}
      BY <1>1, HeadFields DEF HeadOK
    <3>4. Overtakes(h, g, k)
      BY <1>1, <3>1, <3>2, <3>3, OvertakesFacts
    <3> QED BY <1>5, <3>4
  <2> QED BY <1>1, <1>2, <2>1, <2>2, GrantsKeep
<1> QED BY <1>3, <1>4, <1>5 DEF Releases

\* LockManager::unlock
LEMMA UnlockReleases ==
    ASSUME NEW h, HeadOK(h), NEW l \in Lockers
    PROVE  Releases(h, UnlockGranted(h, l), l) /\ Releases(h, UnlockWaiting(h, l), l)
<1>0. HeadOK(Without(h, l))
  BY WithoutFacts
<1>1. Grants(Without(h, l), UnlockGranted(h, l))
  <2> DEFINE rest == Without(h, l)
             check == h.mode[l] \notin ModesOf(rest, Granted(rest))
  <2>1. UnlockGranted(h, l) = OnLockModeChanged(rest, check) /\ check \in BOOLEAN
    BY DEF UnlockGranted
  <2> HIDE DEF check
  <2> QED BY <1>0, <2>1, GrantsFacts
<1>2. Grants(Without(h, l), UnlockWaiting(h, l))
  BY <1>0, GrantsFacts DEF UnlockWaiting
<1> QED BY <1>1, <1>2, WithoutReleases

\* A conversion is given up.
LEMMA UnlockConvertingReleases ==
    ASSUME NEW h, HeadOK(h), NEW l \in Lockers, IsConverting(h, l)
    PROVE  Releases(h, UnlockConverting(h, l), l)
<1> DEFINE rest == [h EXCEPT !.convertMode[l] = NoMode]
           g == UnlockConverting(h, l)
<1>1. /\ h \in Heads /\ rest \in Heads /\ rest.granted = h.granted /\ rest.queue = h.queue
      /\ rest.mode = h.mode /\ rest.convertMode[l] = NoMode
      /\ \A k \in Lockers \ {l} : rest.convertMode[k] = h.convertMode[k]
  BY DEF HeadOK, Heads, AnyMode
<1>2. g = OnLockModeChanged(rest, TRUE)
  BY DEF UnlockConverting
<1> HIDE DEF rest, g
<1>3. /\ Granted(rest) = Granted(h) /\ Waiters(rest) = Waiters(h) /\ OnOneList(rest)
  BY <1>1 DEF Granted, Waiters, HeadOK, OnOneList
<1>4. HeadOK(rest)
  BY <1>1, <1>3 DEF HeadOK, IsConverting
<1>5. Grants(rest, g)
  BY <1>2, <1>4, GrantsFacts
<1>6. HeadOK(g) /\ l \notin Waiters(h)
  BY <1>5, WaiterFacts DEF Grants
<1>7. ASSUME NEW k \in Lockers, Waits(g, k) PROVE Waits(h, k) /\ k # l
  <2>1. Waits(rest, k)
    BY <1>5, <1>7 DEF Waits, IsWaiting, IsConverting, Grants, SameOrConverted
  <2> QED BY <1>1, <1>3, <1>6, <2>1 DEF Waits, IsWaiting, IsConverting
<1>8. ASSUME NEW k \in Lockers \ {l}, NEW o \in Lockers \ {l}, Blocks(h, k, o), ~Overtakes(h, g, k)
      PROVE  Blocks(g, k, o)
  <2>1. Blocks(rest, k, o)
    BY <1>1, <1>3, <1>8 DEF Blocks, IsConverting
  <2>2. ~Overtakes(rest, g, k)
    BY <1>1, <1>3, <1>8 DEF Overtakes, IsWaiting
  <2> QED BY <1>4, <1>5, <2>1, <2>2, GrantsKeep
<1> QED BY <1>6, <1>7, <1>8 DEF Releases, g

\* LockHead::newRequest
LEMMA NewRequestAsks ==
    ASSUME NEW h, HeadOK(h), NEW l \in Lockers \ (Granted(h) \cup Waiters(h)),
           NEW m \in AnyMode, NEW priority \in BOOLEAN
    PROVE  Asks(h, NewRequest(h, l, m, priority), l)
<1> DEFINE g == NewRequest(h, l, m, priority)
           first == IF priority THEN h.first \cup {l} ELSE h.first
<1>1. /\ h \in Heads /\ h.granted \in Seq(Lockers) /\ h.queue \in Seq(Lockers)
      /\ h.mode \in [Lockers -> AnyMode] /\ h.convertMode \in [Lockers -> AnyMode]
      /\ h.first \in SUBSET Lockers
      /\ Granted(h) = Members(h.granted) /\ Waiters(h) = Members(h.queue)
      /\ Granted(h) \subseteq Lockers /\ Waiters(h) \subseteq Lockers
      /\ Granted(h) \cap Waiters(h) = {}
      /\ \A k \in Lockers : ~Precedes(h.granted, k, k) /\ ~Precedes(h.queue, k, k)
  BY HeadFields DEF HeadOK, OnOneList
<1>2. \/ g = [granted |-> Append(h.granted, l), queue |-> h.queue,
              mode |-> [h.mode EXCEPT ![l] = m], convertMode |-> h.convertMode, first |-> first]
      \/ g = [granted |-> h.granted, queue |-> Append(h.queue, l),
              mode |-> [h.mode EXCEPT ![l] = m], convertMode |-> h.convertMode, first |-> first]
      \/ g = [granted |-> h.granted, queue |-> <<l>> \o h.queue,
              mode |-> [h.mode EXCEPT ![l] = m], convertMode |-> h.convertMode, first |-> first]
  BY <1>1 DEF NewRequest, Heads
<1>3. first \in SUBSET Lockers /\ l \in Lockers
  BY <1>1
<1> HIDE DEF g, first
<1>4. /\ g.mode \in [Lockers -> AnyMode] /\ g.convertMode = h.convertMode /\ g.mode[l] = m
      /\ \A k \in Lockers \ {l} : g.mode[k] = h.mode[k]
  <2>1. g.mode = [h.mode EXCEPT ![l] = m] /\ g.convertMode = h.convertMode
    BY <1>2
  <2> QED BY <1>1, <1>3, <2>1
<1>5. /\ g.granted \in Seq(Lockers) /\ g.queue \in Seq(Lockers)
      /\ \A k \in Lockers : ~Precedes(g.granted, k, k) /\ ~Precedes(g.queue, k, k)
      /\ Members(g.granted) \cap Members(g.queue) = {}
      /\ Members(h.granted) \subseteq Members(g.granted)
      /\ Members(h.queue) \subseteq Members(g.queue)
      /\ Members(g.queue) \subseteq Members(h.queue) \cup {l}
      /\ \A p, q : Precedes(h.granted, p, q) => Precedes(g.granted, p, q)
      /\ \A p, q : Precedes(h.queue, p, q) => Precedes(g.queue, p, q)
  <2>1. CASE g.granted = Append(h.granted, l) /\ g.queue = h.queue
    <3>1. /\ g.granted \in Seq(Lockers) /\ Members(g.granted) = Members(h.granted) \cup {l}
          /\ \A p, q : Precedes(g.granted, p, q) <=>
                          Precedes(h.granted, p, q) \/ (p \in Members(h.granted) /\ q = l)
      BY <1>1, <1>3, <2>1, AppendFacts
    <3> QED BY <1>1, <1>3, <2>1, <3>1
  <2>2. CASE g.granted = h.granted /\ g.queue = Append(h.queue, l)
    <3>1. /\ g.queue \in Seq(Lockers) /\ Members(g.queue) = Members(h.queue) \cup {l}
          /\ \A p, q : Precedes(g.queue, p, q) <=>
                          Precedes(h.queue, p, q) \/ (p \in Members(h.queue) /\ q = l)
      BY <1>1, <1>3, <2>2, AppendFacts
    <3> QED BY <1>1, <1>3, <2>2, <3>1
  <2>3. CASE g.granted = h.granted /\ g.queue = <<l>> \o h.queue
    <3>1. /\ g.queue \in Seq(Lockers) /\ Members(g.queue) = Members(h.queue) \cup {l}
          /\ \A p, q : Precedes(g.queue, p, q) <=>
                          Precedes(h.queue, p, q) \/ (p = l /\ q \in Members(h.queue))
      BY <1>1, <1>3, <2>3, ConsFacts
    <3> QED BY <1>1, <1>3, <2>3, <3>1
  <2> QED BY <1>2, <2>1, <2>2, <2>3
<1>6. g \in Heads
  BY <1>1, <1>2, <1>3, <1>4, <1>5 DEF Heads
<1>7. Granted(g) = Members(g.granted) /\ Waiters(g) = Members(g.queue)
  BY <1>6, HeadFields
<1>8. OnOneList(g)
  BY <1>5, <1>7 DEF OnOneList
<1>9. ~IsConverting(h, l)
  BY DEF HeadOK
<1>10. HeadOK(g)
  <2> SUFFICES ASSUME NEW k \in Lockers, IsConverting(g, k)
               PROVE  k \in Granted(g) /\ isModeCovered(g.mode[k], g.convertMode[k])
    BY <1>6, <1>8 DEF HeadOK
  <2>1. IsConverting(h, k) /\ k # l
    BY <1>4, <1>9 DEF IsConverting
  <2>2. k \in Granted(h) /\ isModeCovered(h.mode[k], h.convertMode[k])
    BY <2>1 DEF HeadOK
  <2> QED BY <1>1, <1>4, <1>5, <1>7, <2>1, <2>2
<1>11. \A k \in Lockers \ {l} : Waits(g, k) => Waits(h, k)
  BY <1>1, <1>4, <1>5, <1>7 DEF Waits, IsWaiting, IsConverting
<1>12. ASSUME NEW k \in Lockers, NEW o \in Lockers, Blocks(h, k, o) PROVE Blocks(g, k, o)
  <2>1. k # l /\ o # l
    BY <1>12, BlocksFacts
  <2>2. /\ g.mode[k] = h.mode[k] /\ g.mode[o] = h.mode[o] /\ g.convertMode = h.convertMode
    BY <1>4, <2>1
  <2>3. /\ o \in Granted(h) => o \in Granted(g)
        /\ k \in Waiters(h) => k \in Waiters(g)
        /\ Precedes(h.granted, o, k) => Precedes(g.granted, o, k)
        /\ Precedes(h.queue, o, k) => Precedes(g.queue, o, k)
    BY <1>1, <1>5, <1>7
  <2> QED BY <1>12, <2>2, <2>3 DEF Blocks, IsConverting
<1>13. Asks(h, g, l)
  BY <1>10, <1>11, <1>12 DEF Asks
<1> QED BY <1>13 DEF g

\* LockManager::convert, for a stronger mode.
LEMMA ConvertAsks ==
    ASSUME NEW h, HeadOK(h), NEW l \in Granted(h), ~IsConverting(h, l), NEW m \in Modes,
           isModeCovered(h.mode[l], m), NEW priority \in BOOLEAN
    PROVE  Asks(h, ConvertRequest(h, l, m, priority), l)
<1> DEFINE g == ConvertRequest(h, l, m, priority)
<1>1. /\ h \in Heads /\ l \in Lockers /\ m \in AnyMode /\ m # NoMode
      /\ h.mode[l] \in AnyMode /\ h.convertMode[l] = NoMode
  BY HeadFields DEF HeadOK, AnyMode, Modes, NoMode, IsConverting
<1>2. /\ g \in Heads /\ g.granted = h.granted /\ g.queue = h.queue
      /\ \A k \in Lockers \ {l} : g.mode[k] = h.mode[k] /\ g.convertMode[k] = h.convertMode[k]
      /\ \/ g.mode[l] = h.mode[l] /\ g.convertMode[l] = m
         \/ g.mode[l] = m /\ g.convertMode[l] = NoMode
  <2> DEFINE first == IF priority THEN h.first \cup {l} ELSE h.first
             asked == [h EXCEPT !.first = first]
  <2>1. g = [asked EXCEPT !.convertMode[l] = m] \/ g = [asked EXCEPT !.mode[l] = m]
    BY DEF ConvertRequest
  <2>2. h.mode \in [Lockers -> AnyMode] /\ h.convertMode \in [Lockers -> AnyMode]
        /\ h.granted \in Seq(Lockers) /\ h.queue \in Seq(Lockers) /\ first \in SUBSET Lockers
    BY <1>1, HeadFields
  <2> HIDE DEF first
  <2>3. asked = [granted |-> h.granted, queue |-> h.queue, mode |-> h.mode,
                 convertMode |-> h.convertMode, first |-> first]
    <3>1. h \in Heads /\ asked = [h EXCEPT !.first = first]
      BY <1>1
    <3> HIDE DEF asked, g
    <3> QED BY <3>1 DEF Heads
  <2> HIDE DEF asked, g
  <2>4. \/ g = [granted |-> h.granted, queue |-> h.queue, mode |-> h.mode,
                convertMode |-> [h.convertMode EXCEPT ![l] = m], first |-> first]
        \/ g = [granted |-> h.granted, queue |-> h.queue, mode |-> [h.mode EXCEPT ![l] = m],
                convertMode |-> h.convertMode, first |-> first]
    BY <2>1, <2>3
  <2>5. g \in Heads
    BY <1>1, <2>2, <2>4 DEF Heads
  <2> QED BY <1>1, <2>2, <2>4, <2>5
<1> HIDE DEF g
<1>3. Granted(g) = Granted(h) /\ Waiters(g) = Waiters(h) /\ OnOneList(g)
  BY <1>2 DEF Granted, Waiters, HeadOK, OnOneList
<1>4. HeadOK(g)
  BY <1>1, <1>2, <1>3 DEF HeadOK, IsConverting
<1>5. \A k \in Lockers \ {l} : Waits(g, k) => Waits(h, k)
  BY <1>2, <1>3 DEF Waits, IsWaiting, IsConverting
<1>6. ASSUME NEW k \in Lockers, NEW o \in Lockers, Blocks(h, k, o) PROVE Blocks(g, k, o)
  <2>1. k # l
    <3>1. l \notin Waiters(h)
      BY <1>1, WaiterFacts
    <3> QED BY <1>6, <3>1 DEF Blocks
  <2>2. g.mode[k] = h.mode[k] /\ g.convertMode[k] = h.convertMode[k]
    BY <1>2, <2>1
  <2>3. h.mode[k] \in AnyMode /\ h.convertMode[k] \in AnyMode
    BY <1>1, HeadFields
  <2>4. CASE o # l
    BY <1>2, <1>3, <1>6, <2>2, <2>4 DEF Blocks, IsConverting
  <2>5. CASE o = l
    <3>1. /\ ~Clash(h.mode[k], h.convertMode[l]) /\ ~Clash(h.convertMode[k], h.convertMode[l])
      BY <1>1, <2>3, ClashFacts DEF AnyMode
    <3>2. /\ Clash(h.mode[k], h.mode[l]) => Clash(h.mode[k], g.mode[l])
          /\ Clash(h.convertMode[k], h.mode[l]) => Clash(h.convertMode[k], g.mode[l])
      BY <1>1, <1>2, <2>3, ClashFacts
    <3> QED BY <1>2, <1>3, <1>6, <2>2, <2>5, <3>1, <3>2 DEF Blocks, IsConverting
  <2> QED BY <2>4, <2>5
<1>7. Asks(h, g, l)
  BY <1>4, <1>5, <1>6 DEF Asks
<1> QED BY <1>7 DEF g

-----------------------------------------------------------------------------
(***************************************************************************)
(* Type correctness                                                        *)
(***************************************************************************)

\* A locker waits for one resource at a time.
OneWait ==
    \A l \in Lockers : \A r, q \in Resources :
        Waits(head[r], l) /\ Waits(head[q], l) => r = q

\* The LockHeads are as the lock manager leaves them.
HeadsOK ==
    head \in [Resources -> Heads] /\ (\A r \in Resources : HeadOK(head[r])) /\ OneWait

BasicInv ==
    /\ HeadsOK /\ search \in Searches
    /\ search = NoSearch \/ (search.locker \in Lockers /\ search.resId \in Resources)

\* The resource that a locker waits for.
LEMMA WaitingFacts ==
    ASSUME HeadsOK, NEW l \in Lockers
    PROVE  /\ WaitingResource(l) \in Resources \cup {NoResource}
           /\ WaitingResource(l) # NoResource => Waits(head[WaitingResource(l)], l)
           /\ \A r \in Resources : Waits(head[r], l) => WaitingResource(l) = r
<1> DEFINE P(r) == IsWaiting(head[r], l) \/ IsConverting(head[r], l)
<1>1. \A r \in Resources : P(r) <=> Waits(head[r], l)
  BY DEF Waits
<1>2. WaitingResource(l) = IF \E r \in Resources : P(r)
                           THEN CHOOSE r \in Resources : P(r) ELSE NoResource
  BY DEF WaitingResource
<1> HIDE DEF P
<1>3. CASE \E r \in Resources : P(r)
  <2> DEFINE w == CHOOSE r \in Resources : P(r)
  <2>1. w \in Resources /\ P(w)
    BY <1>3
  <2>2. WaitingResource(l) = w
    BY <1>2, <1>3
  <2> HIDE DEF w
  <2> QED BY <1>1, <2>1, <2>2 DEF HeadsOK, OneWait
<1>4. CASE ~\E r \in Resources : P(r)
  BY <1>1, <1>2, <1>4
<1> QED BY <1>3, <1>4

\* A locker that runs waits for no resource.
LEMMA RunsFacts ==
    ASSUME HeadsOK, NEW l \in Lockers, WaitingResource(l) = NoResource
    PROVE  \A r \in Resources : ~Waits(head[r], l)
  BY WaitingFacts, DeadlockAssumption

\* One LockHead changes.
LEMMA OneChange ==
    ASSUME HeadsOK, NEW r \in Resources, NEW l \in Lockers, NEW g,
           head' = [head EXCEPT ![r] = g],
           \/ Asks(head[r], g, l) /\ \A q \in Resources : ~Waits(head[q], l)
           \/ Releases(head[r], g, l) \/ g = head[r]
    PROVE  HeadsOK' /\ head'[r] = g /\ \A q \in Resources \ {r} : head'[q] = head[q]
<1>1. HeadOK(g) /\ g \in Heads
  BY DEF HeadsOK, Asks, Releases, HeadOK
<1>2. /\ head \in [Resources -> Heads] /\ \A q \in Resources : HeadOK(head[q])
      /\ OneWait
  BY DEF HeadsOK
<1>3. /\ head' \in [Resources -> Heads] /\ head'[r] = g
      /\ \A q \in Resources \ {r} : head'[q] = head[q]
  BY <1>1, <1>2
<1>4. \A q \in Resources : HeadOK(head'[q])
  BY <1>1, <1>2, <1>3
<1>5. ASSUME NEW k \in Lockers, NEW p \in Resources, NEW q \in Resources,
             Waits(head'[p], k), Waits(head'[q], k)
      PROVE  p = q
  <2>1. CASE \A u \in Resources : Waits(head'[u], k) => Waits(head[u], k)
    BY <1>2, <1>5, <2>1 DEF OneWait
  <2>2. CASE k = l /\ \A u \in Resources : ~Waits(head[u], l)
    <3>1. \A u \in Resources \ {r} : ~Waits(head'[u], k)
      BY <1>3, <2>2
    <3> QED BY <1>5, <3>1
  <2>3. \/ k = l /\ \A u \in Resources : ~Waits(head[u], l)
        \/ \A u \in Resources : Waits(head'[u], k) => Waits(head[u], k)
    <3>1. CASE Releases(head[r], g, l) \/ g = head[r]
      BY <1>3, <3>1 DEF Releases
    <3>2. CASE Asks(head[r], g, l) /\ \A u \in Resources : ~Waits(head[u], l)
      BY <1>3, <3>2 DEF Asks
    <3> QED BY <3>1, <3>2
  <2> QED BY <2>1, <2>2, <2>3
<1> QED BY <1>3, <1>4, <1>5 DEF HeadsOK, OneWait

\* lockBegin
LEMMA RequestSteps ==
    ASSUME HeadsOK, NEW l \in Lockers, NEW r \in Resources, NEW m \in RequestModes[l][r],
           Lock(l, r, m) \/ Convert(l, r, m)
    PROVE  \E g : /\ head' = [head EXCEPT ![r] = g] /\ Asks(head[r], g, l)
                  /\ \A q \in Resources : ~Waits(head[q], l)
<1>1. \A q \in Resources : ~Waits(head[q], l)
  BY RunsFacts DEF Lock, Convert, Runs
<1>2. HeadOK(head[r]) /\ m \in Modes /\ m \in AnyMode /\ head[r] \in Heads
  BY DeadlockAssumption DEF HeadsOK, AnyMode
<1>3. CASE Lock(l, r, m)
  <2> DEFINE priority == r \in Prioritized /\ m \in {"S", "X"}
             h == head[r]
             g == NewRequest(h, l, m, priority)
  <2>1. head' = [head EXCEPT ![r] = g] /\ priority \in BOOLEAN
    BY <1>3 DEF Lock
  <2>2. l \in Lockers \ (Granted(h) \cup Waiters(h))
    BY <1>1, <1>3 DEF Lock, Waits, IsWaiting
  <2>3. Asks(h, g, l)
    <3> HIDE DEF priority, h
    <3>1. HeadOK(h)
      BY <1>2 DEF h
    <3> QED BY <1>2, <2>1, <2>2, <3>1, NewRequestAsks
  <2> QED BY <1>1, <2>1, <2>3
<1>4. CASE Convert(l, r, m)
  <2> DEFINE h == head[r]
             priority == r \in Prioritized /\ m \in {"S", "X"}
             g == ConvertRequest(h, l, m, priority)
  <2>1. head' = [head EXCEPT ![r] = g] /\ priority \in BOOLEAN
    BY <1>4 DEF Convert
  <2>2. l \in Granted(h) /\ isModeCovered(h.mode[l], m) /\ ~IsConverting(h, l) /\ HeadOK(h)
    BY <1>1, <1>2, <1>4 DEF Convert, Waits
  <2>3. Asks(h, g, l)
    <3> HIDE DEF priority, h
    <3> QED BY <1>2, <2>1, <2>2, ConvertAsks
  <2> QED BY <1>1, <2>1, <2>3
<1> QED BY <1>3, <1>4

\* lockComplete cleans up.
LEMMA CleanUpSteps ==
    ASSUME HeadsOK, NEW l \in Lockers, NEW r \in Resources, NEW converting,
           CleanUp(l, r, converting)
    PROVE  \E g : /\ head' = [head EXCEPT ![r] = g]
                  /\ Releases(head[r], g, l) \/ (g = head[r] /\ ~Waits(head[r], l))
<1> DEFINE h == head[r]
           g == IF IsWaiting(h, l) THEN UnlockWaiting(h, l)
                ELSE IF IsConverting(h, l) THEN UnlockConverting(h, l)
                ELSE IF converting THEN h ELSE UnlockGranted(h, l)
<1>1. head' = [head EXCEPT ![r] = g]
  BY DEF CleanUp
<1>2. HeadOK(h)
  BY DEF HeadsOK
<1>3. Releases(h, UnlockGranted(h, l), l) /\ Releases(h, UnlockWaiting(h, l), l)
  BY <1>2, UnlockReleases
<1>4. IsConverting(h, l) => Releases(h, UnlockConverting(h, l), l)
  BY <1>2, UnlockConvertingReleases
<1>5. Releases(h, g, l) \/ (g = h /\ ~Waits(h, l))
  BY <1>3, <1>4 DEF Waits
<1> QED BY <1>1, <1>5

\* A locker releases its lock, or gives up its wait.
LEMMA ReleaseSteps ==
    ASSUME HeadsOK, NEW l \in Lockers,
           (\E r \in Resources : Unlock(l, r)) \/ GiveUp(l)
    PROVE  \E r \in Resources : \E g : /\ head' = [head EXCEPT ![r] = g]
                                       /\ Releases(head[r], g, l) /\ Notes(l, r)
<1>1. ASSUME NEW r \in Resources, Unlock(l, r)
      PROVE  head' = [head EXCEPT ![r] = UnlockGranted(head[r], l)]
             /\ Releases(head[r], UnlockGranted(head[r], l), l) /\ Notes(l, r)
  <2>1. HeadOK(head[r])
    BY DEF HeadsOK
  <2>2. Releases(head[r], UnlockGranted(head[r], l), l)
    BY <2>1, UnlockReleases
  <2> QED BY <1>1, <2>2 DEF Unlock
<1>2. CASE GiveUp(l)
  <2> DEFINE r == WaitingResource(l)
  <2>1. r # NoResource /\ CleanUp(l, r, IsConverting(head[r], l)) /\ Notes(l, r)
    BY <1>2 DEF GiveUp
  <2>2. r \in Resources /\ Waits(head[r], l)
    BY <2>1, WaitingFacts
  <2> HIDE DEF r
  <2>3. PICK g : head' = [head EXCEPT ![r] = g]
                 /\ (Releases(head[r], g, l) \/ (g = head[r] /\ ~Waits(head[r], l)))
    BY <2>1, <2>2, CleanUpSteps
  <2> QED BY <2>1, <2>2, <2>3
<1> QED BY <1>1, <1>2

\* The nodes that _processNextNode adds for k, when it waits for h.
Added(h, k) ==
    LET queued == Kept(h.queue \o h.granted,
                       {o \in Owners(h, k) : WaitingResource(o) # NoResource})
    IN  [i \in DOMAIN queued |-> <<queued[i], WaitingResource(queued[i])>>]

\* There is one for every owner that waits.
LEMMA AddedFacts ==
    ASSUME HeadsOK, NEW r \in Resources, NEW k \in Lockers, Waits(head[r], k)
    PROVE  /\ Added(head[r], k) \in Seq(Lockers \X Resources)
           /\ \A x : x \in Members(Added(head[r], k)) =>
                 /\ x[1] \in Lockers /\ x[2] = WaitingResource(x[1])
                 /\ Blocks(head[r], k, x[1])
           /\ \A o \in Lockers : Blocks(head[r], k, o) /\ WaitingResource(o) # NoResource =>
                 <<o, WaitingResource(o)>> \in Members(Added(head[r], k))
<1> DEFINE h == head[r]
           owners == {o \in Owners(h, k) : WaitingResource(o) # NoResource}
           queued == Kept(h.queue \o h.granted, owners)
           new == [i \in DOMAIN queued |-> <<queued[i], WaitingResource(queued[i])>>]
<1>1. HeadOK(h) /\ h \in Heads
  BY DEF HeadsOK, HeadOK
<1>2. \A o : o \in Owners(h, k) <=> Blocks(h, k, o)
  BY <1>1, OwnersBlock
<1>3. \A o : Blocks(h, k, o) => o \in Lockers /\ o \in Granted(h) \cup Waiters(h)
  BY <1>1, BlocksFacts
<1>4. h.queue \in Seq(Lockers) /\ h.granted \in Seq(Lockers)
      /\ Members(h.queue) = Waiters(h) /\ Members(h.granted) = Granted(h)
  BY <1>1, HeadFields
<1>5. /\ h.queue \o h.granted \in Seq(Lockers)
      /\ Members(h.queue \o h.granted) = Waiters(h) \cup Granted(h)
  BY <1>4, ConcatMembers
<1>6. queued \in Seq(Lockers)
      /\ Members(queued) = (Waiters(h) \cup Granted(h)) \cap owners
  <2> DEFINE s == h.queue \o h.granted
  <2>1. s \in Seq(Lockers) /\ Members(s) = Waiters(h) \cup Granted(h)
    BY <1>5
  <2> HIDE DEF s, owners, h
  <2> QED BY <2>1, KeptFacts DEF s
<1>7. Members(queued) = owners
  BY <1>2, <1>3, <1>6
<1>8. \A o \in owners : o \in Lockers /\ WaitingResource(o) \in Resources /\ Blocks(h, k, o)
  BY <1>2, <1>3, WaitingFacts
<1>9. Added(h, k) = new
  BY DEF Added
<1> HIDE DEF queued, owners, h
<1>10. \A i \in DOMAIN queued : queued[i] \in owners
  BY <1>7 DEF Members
<1>11. new \in Seq(Lockers \X Resources)
  <2>1. DOMAIN queued = 1 .. Len(queued) /\ Len(queued) \in Nat
    BY <1>6
  <2>2. \A i \in 1 .. Len(queued) :
            <<queued[i], WaitingResource(queued[i])>> \in Lockers \X Resources
    BY <1>8, <1>10, <2>1
  <2> QED BY <2>1, <2>2
<1>12. \A i \in DOMAIN new : i \in DOMAIN queued
          /\ new[i] = <<queued[i], WaitingResource(queued[i])>>
  OBVIOUS
<1>13. ASSUME NEW x \in Members(new)
       PROVE  x[1] \in Lockers /\ x[2] = WaitingResource(x[1]) /\ Blocks(h, k, x[1])
  <2>1. PICK i \in DOMAIN new : x = new[i]
    BY DEF Members
  <2>2. x = <<queued[i], WaitingResource(queued[i])>> /\ queued[i] \in owners
    BY <1>10, <1>12, <2>1
  <2> QED BY <1>8, <2>2
<1>14. ASSUME NEW o \in Lockers, Blocks(h, k, o), WaitingResource(o) # NoResource
       PROVE  <<o, WaitingResource(o)>> \in Members(new)
  <2>1. o \in owners
    BY <1>2, <1>14 DEF owners
  <2>2. PICK i \in DOMAIN queued : queued[i] = o
    BY <1>7, <2>1 DEF Members
  <2>3. i \in DOMAIN new /\ new[i] = <<o, WaitingResource(o)>>
    BY <2>2
  <2> QED BY <2>3 DEF Members
<1> HIDE DEF new
<1> QED BY <1>9, <1>11, <1>13, <1>14 DEF h

\* The fields of a search.
LEMMA SearchFields ==
    ASSUME search \in Searches
    PROVE  /\ search.locker \in Lockers \cup {NoLocker}
           /\ search.resId \in Resources \cup {NoResource}
           /\ search.nodes \in Seq(Lockers \X Resources) /\ search.graph \in SUBSET Lockers
           /\ search.foundCycle \in BOOLEAN /\ search.converting \in BOOLEAN
           /\ search.deadlocked \in SUBSET Lockers
           /\ search.broken \in BOOLEAN /\ search.moved \in BOOLEAN
  BY DEF Searches

\* The three cases of _processNextNode.
LEMMA ProcessCases ==
    ASSUME BasicInv, ProcessNextNode
    PROVE  \E k \in Lockers, r \in Resources :
              /\ search.nodes # <<>> /\ Head(search.nodes) = <<k, r>>
              /\ Tail(search.nodes) \in Seq(Lockers \X Resources)
              /\ Members(search.nodes) = {<<k, r>>} \cup Members(Tail(search.nodes))
              /\ head' = head
              /\ \/ /\ ~Waits(head[r], k)
                    /\ search' = [search EXCEPT !.nodes = Tail(@)]
                 \/ /\ Waits(head[r], k) /\ k \in search.graph
                    /\ search' = [search EXCEPT !.nodes = Tail(@),
                                                !.foundCycle = @ \/ k = search.locker]
                 \/ /\ Waits(head[r], k) /\ k \notin search.graph
                    /\ search' = [search EXCEPT !.nodes = Added(head[r], k) \o Tail(@),
                                                !.graph = @ \cup {k}]
<1> DEFINE x == Head(search.nodes)
<1>1. search.nodes # <<>> /\ search.nodes \in Seq(Lockers \X Resources)
  BY SearchFields DEF BasicInv, ProcessNextNode
<1>2. x \in Lockers \X Resources /\ Tail(search.nodes) \in Seq(Lockers \X Resources)
      /\ Members(search.nodes) = {x} \cup Members(Tail(search.nodes))
  BY <1>1, TailMembers
<1>3. x[1] \in Lockers /\ x[2] \in Resources /\ x = <<x[1], x[2]>>
  BY <1>2
<1> DEFINE k == x[1]
           r == x[2]
<1>4. head' = head
  BY DEF ProcessNextNode
<1>5. search' =
         IF ~Waits(head[r], k)
         THEN [search EXCEPT !.nodes = Tail(@)]
         ELSE IF k \in search.graph
         THEN [search EXCEPT !.nodes = Tail(@), !.foundCycle = @ \/ k = search.locker]
         ELSE [search EXCEPT !.nodes = Added(head[r], k) \o Tail(@), !.graph = @ \cup {k}]
  BY DEF ProcessNextNode, Waits, ClosesCycle, Added
<1> HIDE DEF x
<1>6. \/ /\ ~Waits(head[r], k)
         /\ search' = [search EXCEPT !.nodes = Tail(@)]
      \/ /\ Waits(head[r], k) /\ k \in search.graph
         /\ search' = [search EXCEPT !.nodes = Tail(@),
                                     !.foundCycle = @ \/ k = search.locker]
      \/ /\ Waits(head[r], k) /\ k \notin search.graph
         /\ search' = [search EXCEPT !.nodes = Added(head[r], k) \o Tail(@),
                                     !.graph = @ \cup {k}]
  BY <1>5
<1>7. Head(search.nodes) = <<k, r>>
  BY <1>3 DEF x
<1>8. Members(search.nodes) = {<<k, r>>} \cup Members(Tail(search.nodes))
  BY <1>2, <1>3
<1> HIDE DEF k, r
<1>9. k \in Lockers /\ r \in Resources
  BY <1>3 DEF k, r
<1> QED BY <1>1, <1>2, <1>4, <1>6, <1>7, <1>8, <1>9

\* What a search has become after a step of another locker.
Noted(G) ==
    search' = [search EXCEPT !.moved = @ \/ \E k \in G : Met(k),
                             !.broken = @ \/ G \cap search.deadlocked # {}]

\* That is what Notes says.
LEMMA NotesFacts ==
    ASSUME NEW l, NEW r, Notes(l, r)
    PROVE  Noted({l} \cup {k \in Lockers \ {l} : Overtakes(head[r], head'[r], k)})
  BY DEF Notes, Noted

\* Init
LEMMA BasicInit ==
    ASSUME Init
    PROVE  BasicInv
<1> DEFINE h0 == [granted |-> <<>>, queue |-> <<>>, mode |-> [l \in Lockers |-> NoMode],
                  convertMode |-> [l \in Lockers |-> NoMode], first |-> {}]
<1>1. h0 \in Heads
  BY DEF Heads, AnyMode
<1>2. \A r \in Resources : head[r] = h0
  BY DEF Init
<1>3. Granted(h0) = {} /\ Waiters(h0) = {} /\ \A l \in Lockers : ~IsConverting(h0, l)
  BY DEF Granted, Waiters, IsConverting
<1>4. OnOneList(h0)
  <2>1. h0.granted = <<>> /\ h0.queue = <<>>
    OBVIOUS
  <2>2. \A l : ~Precedes(<<>>, l, l)
    BY DEF Precedes
  <2> HIDE DEF h0
  <2> QED BY <1>3, <2>1, <2>2 DEF OnOneList
<1>5. head \in [Resources -> Heads]
  <2>1. head = [r \in Resources |-> h0]
    BY DEF Init
  <2> HIDE DEF h0
  <2> QED BY <1>1, <2>1
<1> HIDE DEF h0
<1>6. HeadOK(h0) /\ \A l \in Lockers : ~Waits(h0, l)
  BY <1>1, <1>3, <1>4 DEF HeadOK, Waits, IsWaiting
<1>7. HeadsOK
  BY <1>2, <1>5, <1>6 DEF HeadsOK, OneWait
<1>8. search = NoSearch /\ NoSearch \in Searches
  BY DEF Init, NoSearch, Searches
<1> QED BY <1>7, <1>8 DEF BasicInv

\* Every step.
LEMMA BasicStep ==
    ASSUME BasicInv, [Next]_vars
    PROVE  BasicInv'
<1>1. HeadsOK /\ search \in Searches
      /\ (search = NoSearch \/ (search.locker \in Lockers /\ search.resId \in Resources))
  BY DEF BasicInv
<1>2. NoSearch \in Searches
  BY DEF NoSearch, Searches
<1>3. ASSUME NEW l \in Lockers, NEW r \in Resources, NEW m \in RequestModes[l][r],
             Lock(l, r, m) \/ Convert(l, r, m)
      PROVE  BasicInv'
  <2>1. PICK g : /\ head' = [head EXCEPT ![r] = g] /\ Asks(head[r], g, l)
                 /\ \A q \in Resources : ~Waits(head[q], l)
    BY <1>1, <1>3, RequestSteps
  <2>2. HeadsOK'
    BY <1>1, <2>1, OneChange
  <2>3. search' = search
    BY <1>3 DEF Lock, Convert
  <2> QED BY <1>1, <2>2, <2>3 DEF BasicInv
<1>4. ASSUME NEW l \in Lockers, (\E r \in Resources : Unlock(l, r)) \/ GiveUp(l) PROVE BasicInv'
  <2>0. PICK r \in Resources : \E g : /\ head' = [head EXCEPT ![r] = g]
                                      /\ Releases(head[r], g, l) /\ Notes(l, r)
    BY <1>1, <1>4, ReleaseSteps
  <2>1. PICK g : /\ head' = [head EXCEPT ![r] = g]
                 /\ Releases(head[r], g, l) /\ Notes(l, r)
    BY <2>0
  <2>2. HeadsOK'
    BY <1>1, <2>1, OneChange
  <2>3. search' \in Searches /\ search'.locker = search.locker /\ search'.resId = search.resId
    BY <1>1, <2>1 DEF Notes, Searches
  <2>4. search = NoSearch => search' = NoSearch
    <3> SUFFICES ASSUME search = NoSearch PROVE search' = NoSearch
      OBVIOUS
    <3>1. PICK G : Noted(G)
      BY <2>1, NotesFacts
    <3>2. \A k : ~Met(k)
      BY DEF Met, NoSearch
    <3>3. search.moved = FALSE /\ search.broken = FALSE /\ search.deadlocked = {}
      BY DEF NoSearch
    <3>4. search' = [search EXCEPT !.moved = FALSE, !.broken = FALSE]
      BY <3>1, <3>2, <3>3 DEF Noted
    <3> QED BY <3>4 DEF NoSearch
  <2> QED BY <1>1, <2>2, <2>3, <2>4 DEF BasicInv
<1>5. ASSUME NEW l \in Lockers, CheckBegin(l) PROVE BasicInv'
  <2> DEFINE r == WaitingResource(l)
  <2>1. r \in Resources
    BY <1>1, <1>5, WaitingFacts DEF CheckBegin
  <2>2. Deadlocked(l) \in SUBSET Lockers /\ IsConverting(head[r], l) \in BOOLEAN
    BY DEF Deadlocked, IsConverting
  <2>3. /\ search' = [NoSearch EXCEPT !.locker = l, !.resId = r,
                                      !.converting = IsConverting(head[r], l),
                                      !.nodes = <<<<l, r>>>>,
                                      !.deadlocked = Deadlocked(l)]
        /\ head' = head
    BY <1>5 DEF CheckBegin
  <2> HIDE DEF r
  <2>4. <<<<l, r>>>> \in Seq(Lockers \X Resources)
    BY <2>1
  <2>5. search' = [locker |-> l, resId |-> r, converting |-> IsConverting(head[r], l),
                   nodes |-> <<<<l, r>>>>, graph |-> {}, foundCycle |-> FALSE,
                   deadlocked |-> Deadlocked(l), broken |-> FALSE, moved |-> FALSE]
    BY <2>3 DEF NoSearch
  <2>6. search' \in Searches /\ search'.locker \in Lockers /\ search'.resId \in Resources
    BY <2>1, <2>2, <2>4, <2>5 DEF Searches
  <2>7. HeadsOK'
    BY <1>1, <2>3 DEF HeadsOK, OneWait
  <2> QED BY <2>6, <2>7 DEF BasicInv
<1>6. CASE ProcessNextNode
  <2>1. PICK k \in Lockers, r \in Resources :
              /\ search.nodes # <<>>
              /\ Tail(search.nodes) \in Seq(Lockers \X Resources)
              /\ head' = head
              /\ \/ /\ ~Waits(head[r], k)
                    /\ search' = [search EXCEPT !.nodes = Tail(@)]
                 \/ /\ Waits(head[r], k) /\ k \in search.graph
                    /\ search' = [search EXCEPT !.nodes = Tail(@),
                                                !.foundCycle = @ \/ k = search.locker]
                 \/ /\ Waits(head[r], k) /\ k \notin search.graph
                    /\ search' = [search EXCEPT !.nodes = Added(head[r], k) \o Tail(@),
                                                !.graph = @ \cup {k}]
    BY <1>6, ProcessCases
  <2>2. HeadsOK'
    BY <1>1, <2>1 DEF HeadsOK, OneWait
  <2>3. Waits(head[r], k) => Added(head[r], k) \o Tail(search.nodes) \in Seq(Lockers \X Resources)
    BY <1>1, <2>1, AddedFacts, ConcatMembers
  <2>4. search' \in Searches /\ search'.locker = search.locker /\ search'.resId = search.resId
    <3>0. search \in Searches /\ (search.foundCycle \/ k = search.locker) \in BOOLEAN
          /\ search.graph \cup {k} \in SUBSET Lockers
      BY <1>1, SearchFields
    <3>1. CASE search' = [search EXCEPT !.nodes = Tail(@)]
      BY <2>1, <3>0, <3>1 DEF Searches
    <3>2. CASE search' = [search EXCEPT !.nodes = Tail(@),
                                        !.foundCycle = @ \/ k = search.locker]
      BY <2>1, <3>0, <3>2 DEF Searches
    <3>3. CASE /\ Waits(head[r], k)
               /\ search' = [search EXCEPT !.nodes = Added(head[r], k) \o Tail(@),
                                           !.graph = @ \cup {k}]
      BY <2>3, <3>0, <3>3 DEF Searches
    <3> QED BY <2>1, <3>1, <3>2, <3>3
  <2>5. search # NoSearch
    BY <2>1 DEF NoSearch
  <2> QED BY <1>1, <2>2, <2>4, <2>5 DEF BasicInv
<1>7. CASE KeepWaiting
  BY <1>1, <1>2, <1>7 DEF KeepWaiting, BasicInv, HeadsOK, OneWait
<1>8. CASE Deadlock
  <2>1. search.locker \in Lockers /\ search.resId \in Resources /\ search' = NoSearch
        /\ CleanUp(search.locker, search.resId, search.converting)
    BY <1>1, <1>8 DEF Deadlock, SearchEnded
  <2>2. PICK g : /\ head' = [head EXCEPT ![search.resId] = g]
                 /\ \/ Releases(head[search.resId], g, search.locker)
                    \/ g = head[search.resId]
    BY <1>1, <2>1, CleanUpSteps
  <2>3. HeadsOK'
    BY <1>1, <2>1, <2>2, OneChange
  <2> QED BY <1>2, <2>1, <2>3 DEF BasicInv
<1>9. CASE UNCHANGED vars
  BY <1>1, <1>9 DEF vars, BasicInv, HeadsOK, OneWait
<1> QED BY <1>3, <1>4, <1>5, <1>6, <1>7, <1>8, <1>9 DEF Next

\* The inductive invariant.
THEOREM BasicInvariance == Spec => []BasicInv
<1>1. Init => BasicInv
  BY BasicInit
<1>2. BasicInv /\ [Next]_vars => BasicInv'
  BY BasicStep
<1> QED BY <1>1, <1>2, PTL DEF Spec

\* Every variable has its type, and no request is on a list twice or on both: the
\* requests that _onLockModeChanged grants leave the conflict queue, and those that are
\* released leave their list.
THEOREM TypeCorrect == Spec => []TypeOK
<1>1. BasicInv => TypeOK
  BY DEF BasicInv, HeadsOK, HeadOK, TypeOK
<1> QED BY <1>1, BasicInvariance, PTL

-----------------------------------------------------------------------------
(***************************************************************************)
(* Lockers that are stuck, and the waits between them                      *)
(***************************************************************************)

\* Every locker of S waits for one of S.
Edges(S) == \A k \in S : \E o \in S : \E r \in Resources : Blocks(head[r], k, o)

\* What is left of a LockHead when the lockers outside S are gone.
LEMMA OnlyFacts ==
    ASSUME NEW h, HeadOK(h), NEW S
    PROVE  /\ Only(h, S) \in Heads /\ OnOneList(Only(h, S))
           /\ Only(h, S).mode = h.mode /\ Only(h, S).convertMode = h.convertMode
           /\ Granted(Only(h, S)) = Granted(h) \cap S /\ Waiters(Only(h, S)) = Waiters(h) \cap S
           /\ \A p, q : Precedes(Only(h, S).queue, p, q) <=>
                            Precedes(h.queue, p, q) /\ p \in S /\ q \in S
<1> DEFINE y == Only(h, S)
<1>1. /\ h \in Heads /\ h.granted \in Seq(Lockers) /\ h.queue \in Seq(Lockers)
      /\ Granted(h) = Members(h.granted) /\ Waiters(h) = Members(h.queue)
      /\ Granted(h) \cap Waiters(h) = {}
      /\ \A k \in Lockers : ~Precedes(h.granted, k, k) /\ ~Precedes(h.queue, k, k)
  BY HeadFields DEF HeadOK, OnOneList
<1>2. y = [granted |-> Kept(h.granted, S), queue |-> Kept(h.queue, S), mode |-> h.mode,
           convertMode |-> h.convertMode, first |-> h.first]
  <2>1. h \in Heads /\ y = [h EXCEPT !.granted = Kept(@, S), !.queue = Kept(@, S)]
    BY <1>1 DEF Only
  <2> HIDE DEF y
  <2> QED BY <2>1 DEF Heads
<1> HIDE DEF y
<1>3. /\ y.granted \in Seq(Lockers) /\ Members(y.granted) = Members(h.granted) \cap S
      /\ \A p, q : Precedes(y.granted, p, q) <=> Precedes(h.granted, p, q) /\ p \in S /\ q \in S
  BY <1>1, <1>2, KeptFacts
<1>4. /\ y.queue \in Seq(Lockers) /\ Members(y.queue) = Members(h.queue) \cap S
      /\ \A p, q : Precedes(y.queue, p, q) <=> Precedes(h.queue, p, q) /\ p \in S /\ q \in S
  BY <1>1, <1>2, KeptFacts
<1>5. y.mode = h.mode /\ y.convertMode = h.convertMode
  BY <1>2
<1>6. y \in Heads
  BY <1>1, <1>2, <1>3, <1>4 DEF Heads
<1>7. Granted(y) = Members(y.granted) /\ Waiters(y) = Members(y.queue)
  BY <1>6, HeadFields
<1>8. Granted(y) = Granted(h) \cap S /\ Waiters(y) = Waiters(h) \cap S
  BY <1>1, <1>3, <1>4, <1>7
<1>9. OnOneList(y)
  BY <1>1, <1>3, <1>4, <1>8 DEF OnOneList
<1> QED BY <1>4, <1>5, <1>6, <1>8, <1>9 DEF y

\* The lock manager grants nothing to lockers that wait for each other.
LEMMA NothingGranted ==
    ASSUME NEW h, HeadOK(h), NEW S,
           \A k \in S \cap Lockers : Waits(h, k) => \E o \in S : Blocks(h, k, o)
    PROVE  OnLockModeChanged(Only(h, S), TRUE) = Only(h, S)
<1> DEFINE y == Only(h, S)
<1>1. /\ y \in Heads /\ OnOneList(y) /\ y.mode = h.mode /\ y.convertMode = h.convertMode
      /\ Granted(y) = Granted(h) \cap S /\ Waiters(y) = Waiters(h) \cap S
      /\ \A p, q : Precedes(y.queue, p, q) <=> Precedes(h.queue, p, q) /\ p \in S /\ q \in S
  BY OnlyFacts
<1> HIDE DEF y
<1>2. /\ y.granted \in Seq(Lockers) /\ y.queue \in Seq(Lockers)
      /\ Len(y.granted) \in Nat /\ DOMAIN y.granted = 1 .. Len(y.granted)
      /\ Len(y.queue) \in Nat /\ DOMAIN y.queue = 1 .. Len(y.queue)
      /\ Granted(y) \subseteq Lockers /\ Waiters(y) \subseteq Lockers
  BY <1>1, HeadFields
<1>3. GrantConversions(y) = y
  <2> DEFINE Q == [i \in 0 .. Len(y.granted) |-> {y}]
  <2>1. ASSUME NEW l \in Granted(y) PROVE GrantConversion(y, l) = y
    <3>1. CASE IsConverting(y, l)
      <4>1. l \in S \cap Lockers /\ IsConverting(h, l) /\ Waits(h, l)
        BY <1>1, <1>2, <2>1, <3>1 DEF IsConverting, Waits
      <4>2. PICK o \in S : Blocks(h, l, o)
        BY <4>1
      <4>3. l \notin Waiters(h)
        BY <4>1, WaiterFacts
      <4>4. /\ o \in Granted(h) \ {l}
            /\ Clash(h.convertMode[l], h.mode[o]) \/ Clash(h.convertMode[l], h.convertMode[o])
        BY <4>2, <4>3 DEF Blocks
      <4>5. o \in Granted(y) \ {l}
        BY <1>1, <4>2, <4>4
      <4>6. conflicts(y.convertMode[l], ModesOf(y, Granted(y) \ {l}))
        BY <1>1, <4>4, <4>5, ConflictFacts
      <4> QED BY <4>6 DEF GrantConversion
    <3>2. CASE ~IsConverting(y, l)
      BY <3>2 DEF GrantConversion
    <3> QED BY <3>1, <3>2
  <2>2. \A i \in 0 .. Len(y.granted) : Q[i] = {y}
    OBVIOUS
  <2> HIDE DEF Q
  <2>3. y \in Q[0]
    BY <1>2, <2>2
  <2>4. ASSUME NEW i \in 1 .. Len(y.granted), NEW x \in Q[i - 1]
        PROVE  GrantConversion(x, y.granted[i]) \in Q[i]
    <3>1. Q[i - 1] = {y} /\ Q[i] = {y} /\ y.granted[i] \in Granted(y)
      BY <1>2, <2>2 DEF Granted
    <3> QED BY <2>1, <3>1
  <2>5. GrantConversions(y) \in Q[Len(y.granted)]
    BY <1>2, <2>3, <2>4, ConversionLoop
  <2> QED BY <1>2, <2>2, <2>5
<1>4. GrantWaiters(y) = y
  <2> DEFINE b == [h |-> y, newly |-> FALSE, done |-> FALSE]
             d == [h |-> y, newly |-> FALSE, done |-> TRUE]
             Q == [i \in 0 .. Len(y.queue) |-> IF i = 0 THEN {b} ELSE {d}]
  <2>1. ASSUME 1 \in DOMAIN y.queue PROVE GrantWaiting(b, y.queue[1]) = d
    <3> DEFINE l == y.queue[1]
    <3>1. l \in Waiters(y) /\ Head(y.queue) = l
      BY <1>2, <2>1 DEF Waiters
    <3>2. l \in S \cap Lockers /\ l \in Waiters(h) /\ Waits(h, l)
      BY <1>1, <1>2, <3>1 DEF Waits, IsWaiting
    <3>3. PICK o \in S : Blocks(h, l, o)
      BY <3>2
    <3>4. ~Precedes(y.queue, o, l)
      <4> SUFFICES ASSUME Precedes(y.queue, o, l) PROVE FALSE
        OBVIOUS
      <4>1. PICK i \in DOMAIN y.queue, j \in DOMAIN y.queue : i < j /\ y.queue[j] = l
        BY DEF Precedes
      <4>2. 1 < j
        BY <1>2, <4>1
      <4>3. Precedes(y.queue, l, l)
        BY <2>1, <4>1, <4>2 DEF Precedes
      <4> QED BY <1>1, <3>2, <4>3 DEF OnOneList
    <3>5. ~Precedes(h.queue, o, l)
      BY <1>1, <3>2, <3>4
    <3>6. ~IsConverting(h, l)
      BY <3>2, WaiterFacts
    <3>7. o \in Granted(h) /\ (Clash(h.mode[l], h.mode[o]) \/ Clash(h.mode[l], h.convertMode[o]))
      BY <3>3, <3>5, <3>6 DEF Blocks
    <3>8. conflicts(y.mode[l], ModesOf(y, Granted(y)))
      BY <1>1, <3>3, <3>7, ConflictFacts
    <3>9. GrantWaiting(b, l) = [b EXCEPT !.done = (Head(y.queue) = l /\ ~b.newly)]
      BY <3>8 DEF GrantWaiting
    <3> HIDE DEF l
    <3>10. GrantWaiting(b, l) = d
      BY <3>1, <3>9
    <3> QED BY <3>10 DEF l
  <2>2. \A l : GrantWaiting(d, l) = d
    BY DEF GrantWaiting
  <2> HIDE DEF d, b
  <2>3. \A i \in 0 .. Len(y.queue) : Q[i] = IF i = 0 THEN {b} ELSE {d}
    OBVIOUS
  <2> HIDE DEF Q
  <2>4. b \in Q[0]
    BY <1>2, <2>3
  <2>5. ASSUME NEW i \in 1 .. Len(y.queue), NEW x \in Q[i - 1]
        PROVE  GrantWaiting(x, y.queue[i]) \in Q[i]
    <3>1. i \in 0 .. Len(y.queue) /\ i - 1 \in 0 .. Len(y.queue) /\ i # 0
          /\ (i - 1 = 0 <=> i = 1)
      BY <1>2
    <3>2. Q[i] = {d}
      BY <2>3, <3>1
    <3>3. CASE i = 1
      <4>1. Q[i - 1] = {b}
        BY <2>3, <3>1, <3>3
      <4> QED BY <1>2, <2>1, <3>2, <3>3, <4>1
    <3>4. CASE i # 1
      <4>1. Q[i - 1] = {d}
        BY <2>3, <3>1, <3>4
      <4> QED BY <2>2, <3>2, <4>1
    <3> QED BY <3>3, <3>4
  <2>6. \E x \in Q[Len(y.queue)] : GrantWaiters(y) = x.h
    BY <1>2, <2>4, <2>5, WaitersLoop DEF b
  <2>7. b.h = y /\ d.h = y
    BY DEF b, d
  <2> QED BY <1>2, <2>3, <2>6, <2>7
<1> QED BY <1>3, <1>4 DEF OnLockModeChanged, y

\* Lockers that wait for each other are stuck.
LEMMA EdgesStuck ==
    ASSUME HeadsOK, NEW S \in SUBSET Lockers, S # {}, Edges(S)
    PROVE  Stuck(S)
<1>1. \A k \in S : \A r \in Resources : \A o \in S : Blocks(head[r], k, o) => Waits(head[r], k)
  BY BlocksFacts DEF HeadsOK
<1>2. \A l \in S : WaitingResource(l) # NoResource
  BY <1>1, WaitingFacts, DeadlockAssumption DEF Edges
<1>3. ASSUME NEW r \in Resources PROVE OnLockModeChanged(Only(head[r], S), TRUE) = Only(head[r], S)
  <2>1. HeadOK(head[r])
    BY DEF HeadsOK
  <2>2. ASSUME NEW k \in S \cap Lockers, Waits(head[r], k)
        PROVE  \E o \in S : Blocks(head[r], k, o)
    <3>1. PICK o \in S, q \in Resources : Blocks(head[q], k, o)
      BY DEF Edges
    <3>2. q = r
      BY <1>1, <2>2, <3>1 DEF HeadsOK, OneWait
    <3> QED BY <3>1, <3>2
  <2> QED BY <2>1, <2>2, NothingGranted
<1> QED BY <1>2, <1>3 DEF Stuck

\* Two elements of a list: one of them comes first.
LEMMA PrecedesTotal ==
    ASSUME NEW s \in Seq(Lockers), NEW p \in Members(s), NEW q \in Members(s), p # q
    PROVE  Precedes(s, p, q) \/ Precedes(s, q, p)
<1>1. PICK i \in DOMAIN s : s[i] = p
  BY DEF Members
<1>2. PICK j \in DOMAIN s : s[j] = q
  BY DEF Members
<1>3. i < j \/ j < i
  BY <1>1, <1>2
<1> QED BY <1>1, <1>2, <1>3 DEF Precedes

\* The second loop changes no mode.
LEMMA WaitersKeepModes ==
    ASSUME NEW c \in Heads
    PROVE  GrantWaiters(c).convertMode = c.convertMode
<1> DEFINE P == {x \in [h : Heads, newly : BOOLEAN, done : BOOLEAN] :
                    x.h.convertMode = c.convertMode}
           Q == [i \in 0 .. Len(c.queue) |-> P]
           b == [h |-> c, newly |-> FALSE, done |-> FALSE]
<1>1. Len(c.queue) \in Nat /\ DOMAIN c.queue = 1 .. Len(c.queue) /\ c.queue \in Seq(Lockers)
  BY HeadFields
<1>2. b \in P
  OBVIOUS
<1>3. ASSUME NEW x \in P, NEW l \in Lockers PROVE GrantWaiting(x, l) \in P
  <2> DEFINE h == x.h
             y == Promoted(h, l)
             z == GrantWaiting(x, l)
  <2>1. x \in [h : Heads, newly : BOOLEAN, done : BOOLEAN] /\ h \in Heads
        /\ h.convertMode = c.convertMode
    OBVIOUS
  <2>2. \/ z = x \/ z = [x EXCEPT !.done = (Head(h.queue) = l /\ ~x.newly)]
        \/ z = [h |-> y, newly |-> x.newly \/ (l \in h.first /\ h.first \cap Granted(h) = {}),
                done |-> h.mode[l] = "X"]
    BY DEF GrantWaiting, Promoted
  <2>3. y \in Heads /\ y.convertMode = h.convertMode
    <3>1. h.granted \in Seq(Lockers) /\ h.queue \in Seq(Lockers)
      BY <2>1, HeadFields
    <3>2. Append(h.granted, l) \in Seq(Lockers) /\ Unqueued(h.queue, l) \in Seq(Lockers)
      <4> DEFINE q0 == h.queue
                 S == Lockers \ {l}
      <4>1. q0 \in Seq(Lockers) /\ Unqueued(h.queue, l) = Kept(q0, S)
        BY <3>1 DEF Unqueued
      <4> HIDE DEF q0, S
      <4>2. Kept(q0, S) \in Seq(Lockers)
        BY <4>1, KeptFacts
      <4> QED BY <3>1, <4>1, <4>2
    <3>3. y = [granted |-> Append(h.granted, l), queue |-> Unqueued(h.queue, l),
               mode |-> h.mode, convertMode |-> h.convertMode, first |-> h.first]
      <4>1. h \in Heads /\ y = [h EXCEPT !.granted = Append(@, l), !.queue = Unqueued(@, l)]
        BY <2>1 DEF Promoted
      <4> HIDE DEF y, h
      <4> QED BY <4>1 DEF Heads
    <3> HIDE DEF y, h
    <3> QED BY <2>1, <3>2, <3>3 DEF Heads
  <2> HIDE DEF y, z, h
  <2>4. CASE z = x
    BY <2>4 DEF z
  <2>5. CASE z = [x EXCEPT !.done = (Head(h.queue) = l /\ ~x.newly)]
    <3>1. z \in [h : Heads, newly : BOOLEAN, done : BOOLEAN] /\ z.h = x.h
      BY <2>1, <2>5
    <3> QED BY <2>1, <3>1 DEF z, h
  <2>6. CASE z = [h |-> y, newly |-> x.newly \/ (l \in h.first /\ h.first \cap Granted(h) = {}),
                  done |-> h.mode[l] = "X"]
    <3>1. z \in [h : Heads, newly : BOOLEAN, done : BOOLEAN] /\ z.h = y
      BY <2>1, <2>3, <2>6
    <3> QED BY <2>1, <2>3, <3>1 DEF z
  <2> QED BY <2>2, <2>4, <2>5, <2>6
<1> HIDE DEF P, b
<1>4. \A i \in 0 .. Len(c.queue) : Q[i] = P
  OBVIOUS
<1> HIDE DEF Q
<1>5. b \in Q[0]
  BY <1>1, <1>2, <1>4
<1>6. ASSUME NEW i \in 1 .. Len(c.queue), NEW x \in Q[i - 1]
      PROVE  GrantWaiting(x, c.queue[i]) \in Q[i]
  <2>1. Q[i - 1] = P /\ Q[i] = P /\ c.queue[i] \in Lockers
    BY <1>1, <1>4
  <2> QED BY <1>3, <2>1
<1>7. \E x \in Q[Len(c.queue)] : GrantWaiters(c) = x.h
  BY <1>1, <1>5, <1>6, WaitersLoop DEF b
<1>8. \E x \in P : GrantWaiters(c) = x.h
  BY <1>1, <1>4, <1>7
<1> QED BY <1>8 DEF P

\* When the lock manager grants nothing, every conversion is blocked.
LEMMA ConversionsBlocked ==
    ASSUME NEW y \in Heads, OnLockModeChanged(y, TRUE) = y, NEW l \in Granted(y),
           IsConverting(y, l)
    PROVE  ConversionBlocked(y, l)
<1> SUFFICES ASSUME ~ConversionBlocked(y, l) PROVE FALSE
  OBVIOUS
<1> DEFINE n == Len(y.granted)
           Done(x) == \E k \in Lockers : y.convertMode[k] # NoMode /\ x.convertMode[k] = NoMode
           P(i) == {x \in Heads :
                       \/ Done(x)
                       \/ x = y /\ \A j \in 1 .. i : y.granted[j] # l}
           Q == [i \in 0 .. n |-> P(i)]
<1>1. /\ n \in Nat /\ DOMAIN y.granted = 1 .. n /\ Granted(y) \subseteq Lockers
      /\ y.mode \in [Lockers -> AnyMode] /\ y.convertMode \in [Lockers -> AnyMode]
  BY HeadFields
<1>2. y \in P(0)
  OBVIOUS
<1>3. ASSUME NEW x \in Heads, NEW k \in Lockers
      PROVE  /\ GrantConversion(x, k) \in Heads
             /\ Done(x) => Done(GrantConversion(x, k))
             /\ \/ GrantConversion(x, k) = x
                \/ IsConverting(x, k) /\ GrantConversion(x, k).convertMode[k] = NoMode
             /\ x = y /\ k = l => GrantConversion(x, k) # x
  <2> DEFINE z == [x EXCEPT !.mode[k] = x.convertMode[k], !.convertMode[k] = NoMode]
  <2>1. /\ z \in Heads /\ z.convertMode[k] = NoMode
        /\ \A o \in Lockers : x.convertMode[o] = NoMode => z.convertMode[o] = NoMode
    <3>1. x.mode \in [Lockers -> AnyMode] /\ x.convertMode \in [Lockers -> AnyMode]
          /\ x.granted \in Seq(Lockers) /\ x.queue \in Seq(Lockers) /\ x.first \in SUBSET Lockers
      BY HeadFields
    <3>2. z = [granted |-> x.granted, queue |-> x.queue,
               mode |-> [x.mode EXCEPT ![k] = x.convertMode[k]],
               convertMode |-> [x.convertMode EXCEPT ![k] = NoMode], first |-> x.first]
      <4>1. z = [x EXCEPT !.mode[k] = x.convertMode[k], !.convertMode[k] = NoMode]
        OBVIOUS
      <4> HIDE DEF z
      <4> QED BY <4>1 DEF Heads
    <3> HIDE DEF z
    <3>3. z.convertMode = [x.convertMode EXCEPT ![k] = NoMode]
      BY <3>2
    <3>4. z \in Heads
      BY <3>1, <3>2 DEF Heads, AnyMode
    <3> QED BY <3>1, <3>3, <3>4
  <2>2. GrantConversion(x, k) = x \/ (GrantConversion(x, k) = z /\ IsConverting(x, k))
    BY DEF GrantConversion
  <2>3. ASSUME x = y, k = l PROVE GrantConversion(x, k) # x
    <3>1. ~conflicts(y.convertMode[l], ModesOf(y, Granted(y) \ {l}))
      BY ConflictFacts DEF ConversionBlocked
    <3>2. GrantConversion(x, k) = z
      BY <2>3, <3>1 DEF GrantConversion
    <3> HIDE DEF z
    <3>3. z # x
      BY <2>1, <2>3 DEF IsConverting
    <3> QED BY <3>2, <3>3
  <2> HIDE DEF z
  <2> QED BY <2>1, <2>2, <2>3
<1>4. ASSUME NEW i \in 1 .. n, NEW x \in P(i - 1) PROVE GrantConversion(x, y.granted[i]) \in P(i)
  <2> DEFINE k == y.granted[i]
             z == GrantConversion(x, k)
  <2>1. k \in Granted(y) /\ k \in Lockers /\ x \in Heads
    BY <1>1 DEF Granted
  <2>2. /\ z \in Heads /\ (Done(x) => Done(z))
        /\ z = x \/ (IsConverting(x, k) /\ z.convertMode[k] = NoMode)
        /\ x = y /\ k = l => z # x
    BY <1>3, <2>1
  <2>3. CASE Done(x)
    BY <2>2, <2>3
  <2>4. CASE x = y /\ \A j \in 1 .. (i - 1) : y.granted[j] # l
    <3>1. CASE z = x
      <4>1. k # l
        BY <2>2, <2>4, <3>1
      <4>2. \A j \in 1 .. i : j = i \/ j \in 1 .. (i - 1)
        BY <1>1
      <4>3. \A j \in 1 .. i : y.granted[j] # l
        BY <2>4, <4>1, <4>2
      <4> QED BY <2>2, <2>4, <3>1, <4>3
    <3>2. CASE z # x
      <4>1. Done(z)
        BY <2>1, <2>2, <2>4, <3>2 DEF IsConverting
      <4> QED BY <2>2, <4>1
    <3> QED BY <3>1, <3>2
  <2> QED BY <2>3, <2>4
<1> HIDE DEF P
<1>5. \A i \in 0 .. n : Q[i] = P(i)
  OBVIOUS
<1> HIDE DEF Q
<1>6. y \in Q[0]
  BY <1>1, <1>2, <1>5
<1>7. ASSUME NEW i \in 1 .. n, NEW x \in Q[i - 1] PROVE GrantConversion(x, y.granted[i]) \in Q[i]
  <2>1. Q[i - 1] = P(i - 1) /\ Q[i] = P(i)
    BY <1>1, <1>5
  <2>2. x \in P(i - 1)
    BY <2>1
  <2>3. GrantConversion(x, y.granted[i]) \in P(i)
    BY <1>4, <2>2, Zenon
  <2> QED BY <2>1, <2>3
<1>8. GrantConversions(y) \in P(n)
  <2>1. GrantConversions(y) \in Q[n]
    BY <1>1, <1>6, <1>7, ConversionLoop
  <2> QED BY <1>1, <1>5, <2>1
<1> DEFINE c == GrantConversions(y)
<1>9. ~\A j \in 1 .. n : y.granted[j] # l
  BY <1>1 DEF Granted
<1>10. c \in Heads /\ Done(c)
  BY <1>8, <1>9 DEF P
<1>11. GrantWaiters(c).convertMode = c.convertMode
  BY <1>10, WaitersKeepModes
<1>12. GrantWaiters(c) = y
  BY DEF OnLockModeChanged
<1> HIDE DEF c
<1> QED BY <1>10, <1>11, <1>12

\* In a deadlock, unless it is overlooked, every locker waits for another one of it.
LEMMA DeadlockEdges ==
    ASSUME HeadsOK, NEW S \in SUBSET Lockers, Stuck(S), ~Overlooked(S), NEW k \in S
    PROVE  /\ WaitingResource(k) \in Resources
           /\ \E o \in S : Blocks(head[WaitingResource(k)], k, o)
<1> DEFINE r == WaitingResource(k)
           h == head[r]
<1>1. r \in Resources /\ Waits(h, k)
  BY WaitingFacts DEF Stuck
<1>2. /\ OnLockModeChanged(Only(h, S), TRUE) = Only(h, S)
      /\ ~ConversionBehind(h, S) /\ ~BehindOthers(h, S)
  BY <1>1 DEF Stuck, Overlooked
<1>3. HeadOK(h) /\ k \in Lockers
  BY <1>1 DEF HeadsOK
<1> HIDE DEF r, h
<1>4. ASSUME k \in Waiters(h) PROVE \E o \in S : Blocks(h, k, o)
  <2> DEFINE T == {o \in S : o \in Granted(h) \/ Precedes(h.queue, o, k)}
  <2>1. conflicts(h.mode[k], ModesOf(h, T))
    BY <1>2, <1>4 DEF BehindOthers
  <2>2. PICK o \in T : Clash(h.mode[k], h.mode[o]) \/ Clash(h.mode[k], h.convertMode[o])
    BY <2>1, ConflictFacts
  <2>3. CASE o \in Granted(h)
    BY <1>4, <2>2, <2>3 DEF Blocks
  <2>4. CASE o \notin Granted(h)
    <3>1. Precedes(h.queue, o, k) /\ o \in S /\ o \in Lockers
      BY <2>4
    <3>2. h.convertMode[o] = NoMode
      BY <1>3, <2>4, <3>1 DEF HeadOK, IsConverting
    <3>3. h.mode[k] \in AnyMode /\ NoMode \in AnyMode
      BY <1>3, HeadFields DEF HeadOK, AnyMode
    <3>4. ~Clash(h.mode[k], h.convertMode[o])
      BY <3>2, <3>3, ClashFacts
    <3> QED BY <1>4, <2>2, <3>1, <3>4 DEF Blocks
  <2> QED BY <2>2, <2>3, <2>4
<1>5. ASSUME k \notin Waiters(h) PROVE \E o \in S : Blocks(h, k, o)
  <2> DEFINE y == Only(h, S)
  <2>1. /\ y \in Heads /\ y.mode = h.mode /\ y.convertMode = h.convertMode
        /\ Granted(y) = Granted(h) \cap S
    BY <1>3, OnlyFacts
  <2>2. IsConverting(h, k) /\ k \in Granted(h)
    BY <1>1, <1>3, <1>5 DEF Waits, IsWaiting, HeadOK
  <2>3. IsConverting(y, k) /\ k \in Granted(y)
    BY <2>1, <2>2 DEF IsConverting
  <2>4. ConversionBlocked(y, k)
    BY <1>2, <2>1, <2>3, ConversionsBlocked
  <2>5. PICK o \in Granted(y) \ {k} :
            Clash(y.convertMode[k], y.mode[o]) \/ Clash(y.convertMode[k], y.convertMode[o])
    BY <2>4 DEF ConversionBlocked
  <2> HIDE DEF y
  <2>6. o \in S /\ o \in Granted(h) \ {k}
        /\ (Clash(h.convertMode[k], h.mode[o]) \/ Clash(h.convertMode[k], h.convertMode[o]))
    BY <2>1, <2>5
  <2>7. CASE Clash(h.convertMode[k], h.mode[o])
    BY <2>2, <2>6, <2>7 DEF Blocks
  <2>8. CASE ~Clash(h.convertMode[k], h.mode[o])
    <3>1. ~Precedes(h.granted, k, o)
      BY <1>2, <2>6, <2>8, ConflictFacts DEF ConversionBehind
    <3>2. h.granted \in Seq(Lockers) /\ Granted(h) = Members(h.granted)
      BY <1>3, HeadFields DEF HeadOK
    <3>3. Precedes(h.granted, o, k)
      BY <2>2, <2>6, <3>1, <3>2, PrecedesTotal
    <3> QED BY <2>2, <2>6, <2>8, <3>3 DEF Blocks
  <2> QED BY <2>7, <2>8
<1> QED BY <1>1, <1>4, <1>5 DEF r, h

-----------------------------------------------------------------------------
(***************************************************************************)
(* What the steps do to the waits                                          *)
(***************************************************************************)

\* The waits of and for the lockers outside G go on.
WaitsGoOn(G) ==
    \A r \in Resources : \A k, o \in Lockers \ G : Blocks(head[r], k, o) => Blocks(head'[r], k, o)

\* A request ends no wait.
LEMMA RequestGoesOn ==
    ASSUME BasicInv, NEW l \in Lockers, NEW r \in Resources, NEW m \in RequestModes[l][r],
           Lock(l, r, m) \/ Convert(l, r, m)
    PROVE  WaitsGoOn({}) /\ search' = search
<1>1. HeadsOK
  BY DEF BasicInv
<1>2. PICK g : /\ head' = [head EXCEPT ![r] = g] /\ Asks(head[r], g, l)
               /\ \A q \in Resources : ~Waits(head[q], l)
  BY <1>1, RequestSteps
<1>3. head'[r] = g /\ \A q \in Resources \ {r} : head'[q] = head[q]
  BY <1>1, <1>2, OneChange
<1> QED BY <1>2, <1>3 DEF Asks, WaitsGoOn, Lock, Convert

\* A release ends those of and for the ones that go their own way, which are noted.
LEMMA ReleaseGoesOn ==
    ASSUME BasicInv, NEW l \in Lockers, (\E r \in Resources : Unlock(l, r)) \/ GiveUp(l)
    PROVE  \E G \in SUBSET Lockers : WaitsGoOn(G) /\ Noted(G)
<1>1. HeadsOK
  BY DEF BasicInv
<1>2. PICK r \in Resources : \E g : /\ head' = [head EXCEPT ![r] = g]
                                    /\ Releases(head[r], g, l) /\ Notes(l, r)
  BY <1>1, ReleaseSteps
<1>3. PICK g : /\ head' = [head EXCEPT ![r] = g]
               /\ Releases(head[r], g, l) /\ Notes(l, r)
  BY <1>2
<1>4. head'[r] = g /\ \A q \in Resources \ {r} : head'[q] = head[q]
  BY <1>1, <1>3, OneChange
<1> DEFINE G == {l} \cup {k \in Lockers \ {l} : Overtakes(head[r], head'[r], k)}
<1>5. Noted(G) /\ G \in SUBSET Lockers
  BY <1>3, NotesFacts
<1>6. WaitsGoOn(G)
  <2> SUFFICES ASSUME NEW q \in Resources, NEW k \in Lockers \ G, NEW o \in Lockers \ G,
                      Blocks(head[q], k, o)
               PROVE  Blocks(head'[q], k, o)
    BY DEF WaitsGoOn
  <2>1. k # l /\ o # l /\ ~Overtakes(head[r], g, k)
    BY <1>4
  <2> HIDE DEF G
  <2>2. CASE q = r
    BY <1>3, <1>4, <2>1, <2>2 DEF Releases
  <2>3. CASE q # r
    BY <1>4, <2>3
  <2> QED BY <2>2, <2>3
<1> HIDE DEF G
<1> QED BY <1>5, <1>6

\* The effect of such a step on a search.
LEMMA NotedFields ==
    ASSUME search \in Searches, NEW G, Noted(G)
    PROVE  /\ search'.locker = search.locker /\ search'.resId = search.resId
           /\ search'.nodes = search.nodes /\ search'.graph = search.graph
           /\ search'.foundCycle = search.foundCycle /\ search'.deadlocked = search.deadlocked
           /\ search'.moved <=> search.moved \/ \E k \in G : Met(k)
           /\ search'.broken <=> search.broken \/ G \cap search.deadlocked # {}
  BY DEF Noted, Searches

-----------------------------------------------------------------------------
(***************************************************************************)
(* A cycle that is found is a deadlock                                     *)
(***************************************************************************)

\* A way of waits leads from the locker of the search, through the graph, to x.
Leads(P, x) ==
    /\ search.locker \in P
    /\ \A k \in P : \E o \in P \cup {x} : \E r \in Resources : Blocks(head[r], k, o)
Led(x) == \E P \in SUBSET search.graph : Leads(P, x)

\* Every node of a search is led to, and so is its locker when a cycle is found.
FoundInv ==
    search # NoSearch =>
        /\ search.graph = {} => /\ ~search.foundCycle
                                /\ \/ search.nodes = <<>>
                                   \/ search.nodes = <<<<search.locker, search.resId>>>>
        /\ ~search.moved =>
              /\ search.graph # {} => \A n \in Members(search.nodes) : Led(n[1])
              /\ search.foundCycle => Led(search.locker)

\* Such a way goes on, if none that the search has met goes its own way.
LEMMA LedGoesOn ==
    ASSUME NEW G \in SUBSET Lockers, WaitsGoOn(G), NEW x \in Lockers \ G, Led(x),
           search.graph \in SUBSET Lockers, search.graph \cap G = {},
           search'.graph = search.graph, search'.locker = search.locker
    PROVE  Led(x)'
<1>1. PICK P \in SUBSET search.graph : Leads(P, x)
  BY DEF Led
<1>2. ASSUME NEW k \in P PROVE \E o \in P \cup {x} : \E r \in Resources : Blocks(head'[r], k, o)
  <2>1. PICK o \in P \cup {x}, r \in Resources : Blocks(head[r], k, o)
    BY <1>1 DEF Leads
  <2>2. k \in Lockers \ G /\ o \in Lockers \ G
    <3>1. P \subseteq Lockers \ G
      BY <1>1
    <3> QED BY <2>1, <3>1
  <2> QED BY <2>1, <2>2 DEF WaitsGoOn
<1>3. Leads(P, x)'
  BY <1>1, <1>2 DEF Leads
<1> QED BY <1>1, <1>3 DEF Led

\* The lockers of the nodes are met.
LEMMA MetFacts ==
    ASSUME search \in Searches
    PROVE  /\ \A k \in search.graph : Met(k) /\ k \in Lockers
           /\ \A n \in Members(search.nodes) : Met(n[1]) /\ n[1] \in Lockers
<1>1. search.nodes \in Seq(Lockers \X Resources) /\ search.graph \in SUBSET Lockers
  BY SearchFields
<1>2. ASSUME NEW n \in Members(search.nodes) PROVE Met(n[1]) /\ n[1] \in Lockers
  <2>1. PICK i \in DOMAIN search.nodes : n = search.nodes[i]
    BY DEF Members
  <2>2. n \in Lockers \X Resources
    BY <1>1, <2>1
  <2> QED BY <2>1, <2>2 DEF Met
<1> QED BY <1>1, <1>2 DEF Met

\* A step of another locker.
LEMMA FoundOthers ==
    ASSUME BasicInv, FoundInv, NEW G \in SUBSET Lockers, WaitsGoOn(G), BasicInv',
           search'.locker = search.locker, search'.resId = search.resId,
           search'.nodes = search.nodes, search'.graph = search.graph,
           search'.foundCycle = search.foundCycle,
           ~search'.moved => ~search.moved /\ \A k \in G : ~Met(k),
           search = NoSearch => search' = NoSearch
    PROVE  FoundInv'
<1> SUFFICES ASSUME search' # NoSearch PROVE FoundInv'
  BY DEF FoundInv
<1>1. search # NoSearch /\ search \in Searches
  BY DEF BasicInv
<1>2. search.graph \in SUBSET Lockers /\ search.locker \in Lockers
  BY <1>1, SearchFields DEF BasicInv
<1>3. ASSUME ~search'.moved
      PROVE  /\ search.graph # {} => \A n \in Members(search.nodes) : Led(n[1])'
             /\ search.foundCycle => Led(search.locker)'
  <2>1. ~search.moved /\ \A k \in G : ~Met(k)
    BY <1>3
  <2>2. /\ search.graph \cap G = {}
        /\ \A n \in Members(search.nodes) : n[1] \in Lockers \ G
    BY <1>1, <2>1, MetFacts
  <2>3. ASSUME search.graph # {}, NEW n \in Members(search.nodes) PROVE Led(n[1])'
    <3> DEFINE x == n[1]
    <3>1. x \in Lockers \ G
      BY <2>2
    <3>2. Led(x)
      BY <1>1, <2>1, <2>3 DEF FoundInv
    <3> HIDE DEF x
    <3>3. Led(x)'
      BY <1>2, <2>2, <3>1, <3>2, LedGoesOn
    <3> QED BY <3>3 DEF x
  <2>4. ASSUME search.foundCycle PROVE Led(search.locker)'
    <3>1. Led(search.locker)
      BY <1>1, <2>1, <2>4 DEF FoundInv
    <3>2. search.locker \in search.graph
      BY <3>1 DEF Led, Leads
    <3>3. PICK x : x = search.locker
      OBVIOUS
    <3>4. Led(x)'
      BY <1>2, <2>2, <3>1, <3>2, <3>3, LedGoesOn
    <3> QED BY <3>3, <3>4 DEF Led, Leads
  <2> QED BY <2>3, <2>4
<1> QED BY <1>1, <1>3 DEF FoundInv

\* _processNextNode
LEMMA FoundProcess ==
    ASSUME BasicInv, FoundInv, ProcessNextNode
    PROVE  FoundInv'
<1>1. PICK k \in Lockers, r \in Resources :
          /\ search.nodes # <<>> /\ Head(search.nodes) = <<k, r>>
          /\ Tail(search.nodes) \in Seq(Lockers \X Resources)
          /\ Members(search.nodes) = {<<k, r>>} \cup Members(Tail(search.nodes))
          /\ head' = head
          /\ \/ /\ ~Waits(head[r], k)
                /\ search' = [search EXCEPT !.nodes = Tail(@)]
             \/ /\ Waits(head[r], k) /\ k \in search.graph
                /\ search' = [search EXCEPT !.nodes = Tail(@),
                                            !.foundCycle = @ \/ k = search.locker]
             \/ /\ Waits(head[r], k) /\ k \notin search.graph
                /\ search' = [search EXCEPT !.nodes = Added(head[r], k) \o Tail(@),
                                            !.graph = @ \cup {k}]
  BY ProcessCases
<1>2. search \in Searches /\ search # NoSearch /\ search.locker \in Lockers /\ HeadsOK
  <2>1. search # NoSearch
    BY <1>1 DEF NoSearch
  <2> QED BY <2>1 DEF BasicInv
<1>3. /\ search.graph = {} => /\ ~search.foundCycle
                              /\ \/ search.nodes = <<>>
                                 \/ search.nodes = <<<<search.locker, search.resId>>>>
      /\ ~search.moved =>
              /\ search.graph # {} => \A n \in Members(search.nodes) : Led(n[1])
              /\ search.foundCycle => Led(search.locker)
  BY <1>2 DEF FoundInv
<1> DEFINE tail == Tail(search.nodes)
<1>4. search.graph = {} => tail = <<>> /\ k = search.locker
  <2> SUFFICES ASSUME search.graph = {} PROVE tail = <<>> /\ k = search.locker
    OBVIOUS
  <2>1. search.nodes = <<<<search.locker, search.resId>>>>
    BY <1>1, <1>3
  <2> QED BY <1>1, <2>1
<1>5. ASSUME search'.graph = search.graph, search'.locker = search.locker, NEW x, Led(x)
      PROVE  Led(x)'
  BY <1>1, <1>5 DEF Led, Leads
<1> HIDE DEF tail
<1>6. CASE search' = [search EXCEPT !.nodes = Tail(@)]
  <2>1. /\ search'.graph = search.graph /\ search'.locker = search.locker
        /\ search'.foundCycle = search.foundCycle /\ search'.moved = search.moved
        /\ search'.nodes = tail
    BY <1>2, <1>6 DEF Searches, tail
  <2>2. \A n \in Members(tail) : n \in Members(search.nodes)
    BY <1>1 DEF tail
  <2>3. \A x : Led(x) => Led(x)'
    BY <1>5, <2>1
  <2>4. search.graph = {} => ~search'.foundCycle /\ search'.nodes = <<>>
    BY <1>3, <1>4, <2>1
  <2>5. ~search.moved =>
              /\ search'.graph # {} => \A n \in Members(tail) : Led(n[1])'
              /\ search'.foundCycle => Led(search.locker)'
    <3>1. search.foundCycle /\ ~search.moved => Led(search.locker)'
      BY <1>1, <1>3, <2>1 DEF Led, Leads
    <3> QED BY <1>3, <2>1, <2>2, <2>3, <3>1
  <2> QED BY <2>1, <2>4, <2>5 DEF FoundInv
<1>7. CASE /\ k \in search.graph
           /\ search' = [search EXCEPT !.nodes = Tail(@), !.foundCycle = @ \/ k = search.locker]
  <2>1. /\ search'.graph = search.graph /\ search'.locker = search.locker
        /\ search'.foundCycle = (search.foundCycle \/ k = search.locker)
        /\ search'.moved = search.moved /\ search'.nodes = tail
    BY <1>2, <1>7 DEF Searches, tail
  <2>2. \A n \in Members(tail) : n \in Members(search.nodes)
    BY <1>1 DEF tail
  <2>3. \A x : Led(x) => Led(x)'
    BY <1>5, <2>1
  <2>4. ~search.moved =>
              /\ \A n \in Members(tail) : Led(n[1])'
              /\ search'.foundCycle => Led(search.locker)'
    <3> SUFFICES ASSUME ~search.moved
                 PROVE  /\ \A n \in Members(tail) : Led(n[1])'
                        /\ search'.foundCycle => Led(search.locker)'
      OBVIOUS
    <3>1. \A n \in Members(search.nodes) : Led(n[1])
      BY <1>3, <1>7
    <3>2. Led(k)
      <4>1. <<k, r>> \in Members(search.nodes) /\ <<k, r>>[1] = k
        BY <1>1
      <4> QED BY <3>1, <4>1
    <3>3. search'.foundCycle => Led(search.locker)
      BY <1>3, <2>1, <3>2
    <3>4. Led(search.locker) => Led(search.locker)'
      BY <1>1, <2>1 DEF Led, Leads
    <3> QED BY <2>2, <2>3, <3>1, <3>3, <3>4
  <2> QED BY <1>7, <2>1, <2>4 DEF FoundInv
<1>8. CASE /\ Waits(head[r], k) /\ k \notin search.graph
           /\ search' = [search EXCEPT !.nodes = Added(head[r], k) \o Tail(@),
                                       !.graph = @ \cup {k}]
  <2> DEFINE new == Added(head[r], k)
  <2>1. /\ search'.graph = search.graph \cup {k} /\ search'.locker = search.locker
        /\ search'.foundCycle = search.foundCycle
        /\ search'.moved = search.moved /\ search'.nodes = new \o tail
    BY <1>2, <1>8 DEF Searches, tail
  <2>2. /\ new \in Seq(Lockers \X Resources)
        /\ \A x : x \in Members(new) => Blocks(head[r], k, x[1])
    BY <1>2, <1>8, AddedFacts
  <2>3. Members(search'.nodes) = Members(new) \cup Members(tail)
    <3>1. tail \in Seq(Lockers \X Resources) /\ new \in Seq(Lockers \X Resources)
      BY <1>1, <2>2 DEF tail
    <3> HIDE DEF new
    <3>2. Members(new \o tail) = Members(new) \cup Members(tail)
      BY <3>1, ConcatMembers
    <3> QED BY <2>1, <3>2
  <2>4. \A n \in Members(tail) : n \in Members(search.nodes)
    BY <1>1 DEF tail
  <2> HIDE DEF new
  <2>5. ASSUME NEW x, Led(x) PROVE Led(x)'
    BY <1>1, <2>1, <2>5 DEF Led, Leads
  <2>6. ASSUME ~search.moved
        PROVE  /\ \A n \in Members(search'.nodes) : Led(n[1])'
               /\ search'.foundCycle => Led(search.locker)'
    <3>1. ASSUME NEW n \in Members(tail) PROVE Led(n[1])
      <4>1. search.graph # {}
        BY <1>4, <3>1 DEF Members
      <4> QED BY <1>3, <2>4, <2>6, <4>1
    <3>2. PICK P \in SUBSET (search.graph \cup {k}) :
              /\ search.locker \in P /\ k \in P
              /\ \A j \in P \ {k} : \E o \in P : \E q \in Resources : Blocks(head[q], j, o)
      <4>1. CASE search.graph = {}
        <5>1. /\ {k} \in SUBSET (search.graph \cup {k}) /\ search.locker \in {k}
              /\ \A j \in {k} \ {k} : \E o \in {k} : \E q \in Resources : Blocks(head[q], j, o)
          BY <1>4, <4>1
        <5> QED BY <5>1
      <4>2. CASE search.graph # {}
        <5>1. <<k, r>> \in Members(search.nodes) /\ <<k, r>>[1] = k
          BY <1>1
        <5>2. Led(k)
          BY <1>3, <2>6, <4>2, <5>1
        <5>3. PICK P \in SUBSET search.graph : Leads(P, k)
          BY <5>2 DEF Led
        <5>4. /\ P \cup {k} \in SUBSET (search.graph \cup {k}) /\ search.locker \in P \cup {k}
              /\ \A j \in (P \cup {k}) \ {k} :
                    \E o \in P \cup {k} : \E q \in Resources : Blocks(head[q], j, o)
          BY <5>3 DEF Leads
        <5> QED BY <5>4
      <4> QED BY <4>1, <4>2
    <3>3. ASSUME NEW n \in Members(new) PROVE Led(n[1])'
      <4>1. \A j \in P : \E o \in P \cup {n[1]} : \E q \in Resources : Blocks(head[q], j, o)
        <5>1. Blocks(head[r], k, n[1])
          BY <2>2
        <5> QED BY <3>2, <5>1
      <4>2. Leads(P, n[1])'
        BY <1>1, <2>1, <3>2, <4>1 DEF Leads
      <4> QED BY <2>1, <3>2, <4>2 DEF Led
    <3>4. search'.foundCycle => Led(search.locker)'
      BY <1>1, <1>3, <2>1, <2>6 DEF Led, Leads
    <3> QED BY <2>3, <2>5, <3>1, <3>3, <3>4
  <2>7. search'.graph # {}
    BY <2>1
  <2> QED BY <2>1, <2>6, <2>7 DEF FoundInv
<1> QED BY <1>1, <1>6, <1>7, <1>8

\* Every step.
LEMMA FoundStep ==
    ASSUME BasicInv, FoundInv, [Next]_vars
    PROVE  FoundInv'
<1>0. BasicInv' /\ search \in Searches
  BY BasicStep DEF BasicInv
<1>1. ASSUME NEW l \in Lockers, NEW r \in Resources, NEW m \in RequestModes[l][r],
             Lock(l, r, m) \/ Convert(l, r, m)
      PROVE  FoundInv'
  <2>1. WaitsGoOn({}) /\ search' = search
    BY <1>1, RequestGoesOn
  <2> QED BY <1>0, <2>1, FoundOthers
<1>2. ASSUME NEW l \in Lockers, (\E r \in Resources : Unlock(l, r)) \/ GiveUp(l) PROVE FoundInv'
  <2>1. PICK G \in SUBSET Lockers : WaitsGoOn(G) /\ Noted(G)
    BY <1>2, ReleaseGoesOn
  <2>2. /\ search'.locker = search.locker /\ search'.resId = search.resId
        /\ search'.nodes = search.nodes /\ search'.graph = search.graph
        /\ search'.foundCycle = search.foundCycle
        /\ search'.moved <=> search.moved \/ \E k \in G : Met(k)
    BY <1>0, <2>1, NotedFields
  <2>3. search = NoSearch => search' = NoSearch
    <3> SUFFICES ASSUME search = NoSearch PROVE search' = NoSearch
      OBVIOUS
    <3>1. search'.locker = NoLocker
      BY <2>2 DEF NoSearch
    <3> QED BY <1>0, <3>1, DeadlockAssumption DEF BasicInv
  <2> QED BY <1>0, <2>1, <2>2, <2>3, FoundOthers
<1>3. ASSUME NEW l \in Lockers, CheckBegin(l) PROVE FoundInv'
  <2>1. search' = [NoSearch EXCEPT !.locker = l, !.resId = WaitingResource(l),
                                   !.converting = IsConverting(head[WaitingResource(l)], l),
                                   !.nodes = <<<<l, WaitingResource(l)>>>>,
                                   !.deadlocked = Deadlocked(l)]
    BY <1>3 DEF CheckBegin
  <2>2. /\ search'.graph = {} /\ search'.foundCycle = FALSE /\ search'.locker = l
        /\ search'.resId = WaitingResource(l) /\ search'.nodes = <<<<l, WaitingResource(l)>>>>
    BY <2>1 DEF NoSearch
  <2> QED BY <2>2 DEF FoundInv
<1>4. CASE ProcessNextNode
  BY <1>4, FoundProcess
<1>5. CASE KeepWaiting \/ Deadlock
  BY <1>5 DEF KeepWaiting, Deadlock, FoundInv
<1>6. CASE UNCHANGED vars
  BY <1>6 DEF vars, FoundInv, Led, Leads
<1> QED BY <1>1, <1>2, <1>3, <1>4, <1>5, <1>6 DEF Next

\* A cycle that is found is a deadlock: a search that ends with a cycle, without a
\* release or an overtaking of a locker that it met, has found lockers that wait for
\* each other, so that _onLockModeChanged grants none of their requests whatever the
\* others release.
THEOREM FoundCyclesAreDeadlocks == Spec => []FoundIsDeadlock
<1>1. Init => FoundInv
  BY DEF Init, FoundInv
<1>2. BasicInv /\ FoundInv /\ [Next]_vars => FoundInv'
  BY FoundStep
<1>3. BasicInv /\ FoundInv => FoundIsDeadlock
  <2> SUFFICES ASSUME BasicInv, FoundInv, SearchEnded, search.foundCycle, ~search.moved
               PROVE  IsStuck(search.locker)
    BY DEF FoundIsDeadlock
  <2>1. Led(search.locker) /\ search.graph \in SUBSET Lockers
    BY SearchFields DEF FoundInv, SearchEnded, BasicInv
  <2>2. PICK P \in SUBSET search.graph : Leads(P, search.locker)
    BY <2>1 DEF Led
  <2>3. P \in SUBSET Lockers /\ search.locker \in P /\ P \cup {search.locker} = P
    BY <2>1, <2>2 DEF Leads
  <2>4. Edges(P)
    BY <2>2, <2>3 DEF Leads, Edges
  <2>5. Stuck(P)
    BY <2>3, <2>4, EdgesStuck DEF BasicInv
  <2> QED BY <2>3, <2>5 DEF IsStuck
<1> QED BY <1>1, <1>2, <1>3, BasicInvariance, PTL DEF Spec

-----------------------------------------------------------------------------
(***************************************************************************)
(* A deadlock is found                                                     *)
(***************************************************************************)

\* In the deadlock S, W are the waits that the search may follow, and f the resources
\* that its lockers wait for: no part of S waits for itself only.
Waiting(S, W, f) ==
    /\ search.locker \in S
    /\ \A k, o \in S : <<k, o>> \in W => Blocks(head[f[k]], k, o)
    /\ \A k \in S : \E o \in S : <<k, o>> \in W
    /\ \A T \in SUBSET S : T # {} /\ (\A k \in T : \E o \in T : <<k, o>> \in W) => T = S

\* The search has followed the waits of the lockers in its graph: to a node, or to a
\* locker that was met before.
Followed(S, W, f) ==
    /\ \A n \in Members(search.nodes) : n[1] \in S => n[2] = f[n[1]]
    /\ \A k \in search.graph \cap S : \A o \in S : <<k, o>> \in W =>
          \/ \E n \in Members(search.nodes) : n[1] = o
          \/ o \in search.graph /\ (o = search.locker => search.foundCycle)
    /\ \/ search.locker \in search.graph
       \/ search.graph = {} /\ search.nodes = <<<<search.locker, f[search.locker]>>>>

\* A search follows the waits of a deadlock that it began with.
FollowInv ==
    search.deadlocked # {} /\ ~search.broken =>
        \E S \in SUBSET search.deadlocked : \E W : \E f \in [S -> Resources] :
            Waiting(S, W, f) /\ Followed(S, W, f)

\* A step of another locker.
LEMMA FollowOthers ==
    ASSUME BasicInv, FollowInv, NEW G \in SUBSET Lockers, WaitsGoOn(G),
           search'.locker = search.locker, search'.nodes = search.nodes,
           search'.graph = search.graph, search'.foundCycle = search.foundCycle,
           search'.deadlocked = search.deadlocked,
           ~search'.broken => ~search.broken /\ G \cap search.deadlocked = {}
    PROVE  FollowInv'
<1> SUFFICES ASSUME search'.deadlocked # {}, ~search'.broken
             PROVE  \E S \in SUBSET search'.deadlocked : \E W : \E f \in [S -> Resources] :
                        (Waiting(S, W, f) /\ Followed(S, W, f))'
  BY DEF FollowInv
<1>1. search.deadlocked # {} /\ ~search.broken /\ G \cap search.deadlocked = {}
      /\ search.deadlocked \in SUBSET Lockers
  BY SearchFields DEF BasicInv
<1>2. PICK S \in SUBSET search.deadlocked : \E W : \E f \in [S -> Resources] :
            Waiting(S, W, f) /\ Followed(S, W, f)
  BY <1>1 DEF FollowInv
<1>3. PICK W : \E f \in [S -> Resources] : Waiting(S, W, f) /\ Followed(S, W, f)
  BY <1>2
<1>4. PICK f \in [S -> Resources] : Waiting(S, W, f) /\ Followed(S, W, f)
  BY <1>3
<1>5. \A k \in S : k \in Lockers \ G /\ f[k] \in Resources
  BY <1>1, <1>2, <1>4
<1>6. \A k, o \in S : <<k, o>> \in W => Blocks(head'[f[k]], k, o)
  BY <1>4, <1>5 DEF Waiting, WaitsGoOn
<1>7. Waiting(S, W, f)'
  BY <1>4, <1>6 DEF Waiting
<1>8. Followed(S, W, f)'
  BY <1>4 DEF Followed
<1> QED BY <1>2, <1>4, <1>7, <1>8

\* A search begins.
LEMMA FollowBegin ==
    ASSUME BasicInv, NEW l \in Lockers, CheckBegin(l)
    PROVE  FollowInv'
<1>1. HeadsOK /\ head' = head
  BY DEF BasicInv, CheckBegin
<1>2. search' = [NoSearch EXCEPT !.locker = l, !.resId = WaitingResource(l),
                                 !.converting = IsConverting(head[WaitingResource(l)], l),
                                 !.nodes = <<<<l, WaitingResource(l)>>>>,
                                 !.deadlocked = Deadlocked(l)]
  BY DEF CheckBegin
<1>3. /\ search'.graph = {} /\ search'.locker = l
      /\ search'.nodes = <<<<l, WaitingResource(l)>>>> /\ search'.deadlocked = Deadlocked(l)
  BY <1>2 DEF NoSearch
<1> SUFFICES ASSUME Deadlocked(l) # {}
             PROVE  \E S \in SUBSET search'.deadlocked : \E W : \E f \in [S -> Resources] :
                        (Waiting(S, W, f) /\ Followed(S, W, f))'
  BY <1>3 DEF FollowInv
<1>4. PICK S \in SUBSET Lockers : l \in S /\ IsDeadlock(S) /\ ~Overlooked(S)
  BY DEF Deadlocked
<1>5. S \in SUBSET search'.deadlocked
  BY <1>3, <1>4 DEF Deadlocked
<1>6. \A k \in S : /\ WaitingResource(k) \in Resources
                   /\ \E o \in S : Blocks(head[WaitingResource(k)], k, o)
  BY <1>1, <1>4, DeadlockEdges DEF IsDeadlock
<1>7. PICK f \in [S -> Resources] : \A k \in S : f[k] = WaitingResource(k)
  <2>1. [k \in S |-> WaitingResource(k)] \in [S -> Resources]
    BY <1>6
  <2> QED BY <2>1
<1>8. PICK W : \A k, o \in S : <<k, o>> \in W <=> Blocks(head[f[k]], k, o)
  <2> DEFINE B == {x \in S \X S : Blocks(head[f[x[1]]], x[1], x[2])}
  <2>1. \A k, o \in S : <<k, o>> \in B <=> Blocks(head[f[k]], k, o)
    OBVIOUS
  <2> HIDE DEF B
  <2> QED BY <2>1
<1>9. \A k \in S : \E o \in S : <<k, o>> \in W
  BY <1>6, <1>7, <1>8
<1>10. ASSUME NEW T \in SUBSET S, T # {}, \A k \in T : \E o \in T : <<k, o>> \in W
       PROVE  T = S
  <2>1. Edges(T)
    BY <1>7, <1>8, <1>10 DEF Edges
  <2>2. T \in SUBSET Lockers
    BY <1>4
  <2>3. Stuck(T)
    BY <1>1, <1>10, <2>1, <2>2, EdgesStuck
  <2> QED BY <1>4, <2>3 DEF IsDeadlock
<1>11. Waiting(S, W, f)'
  BY <1>1, <1>3, <1>4, <1>8, <1>9, <1>10 DEF Waiting
<1>12. Followed(S, W, f)'
  <2>1. search'.nodes = <<<<l, f[l]>>>>
    BY <1>3, <1>4, <1>7
  <2>2. \A n \in Members(search'.nodes) : n = <<l, f[l]>>
    BY <2>1 DEF Members
  <2>3. \A n \in Members(search'.nodes) : n[2] = f[n[1]]
    BY <2>2
  <2> QED BY <1>3, <2>1, <2>3 DEF Followed
<1> QED BY <1>5, <1>7, <1>11, <1>12

\* _processNextNode
LEMMA FollowProcess ==
    ASSUME BasicInv, FollowInv, ProcessNextNode
    PROVE  FollowInv'
<1>1. PICK k \in Lockers, r \in Resources :
          /\ search.nodes # <<>> /\ Head(search.nodes) = <<k, r>>
          /\ Tail(search.nodes) \in Seq(Lockers \X Resources)
          /\ Members(search.nodes) = {<<k, r>>} \cup Members(Tail(search.nodes))
          /\ head' = head
          /\ \/ /\ ~Waits(head[r], k)
                /\ search' = [search EXCEPT !.nodes = Tail(@)]
             \/ /\ Waits(head[r], k) /\ k \in search.graph
                /\ search' = [search EXCEPT !.nodes = Tail(@),
                                            !.foundCycle = @ \/ k = search.locker]
             \/ /\ Waits(head[r], k) /\ k \notin search.graph
                /\ search' = [search EXCEPT !.nodes = Added(head[r], k) \o Tail(@),
                                            !.graph = @ \cup {k}]
  BY ProcessCases
<1>2. search \in Searches /\ HeadsOK /\ search.deadlocked \in SUBSET Lockers
  BY SearchFields DEF BasicInv
<1>3. search'.deadlocked = search.deadlocked /\ search'.broken = search.broken
      /\ search'.locker = search.locker
  BY <1>1, <1>2 DEF Searches
<1> SUFFICES ASSUME search.deadlocked # {}, ~search.broken
             PROVE  \E S \in SUBSET search.deadlocked : \E W : \E f \in [S -> Resources] :
                        (Waiting(S, W, f) /\ Followed(S, W, f))'
  BY <1>3 DEF FollowInv
<1>4. PICK S \in SUBSET search.deadlocked : \E W : \E f \in [S -> Resources] :
            Waiting(S, W, f) /\ Followed(S, W, f)
  BY DEF FollowInv
<1>5. PICK W : \E f \in [S -> Resources] : Waiting(S, W, f) /\ Followed(S, W, f)
  BY <1>4
<1>6. PICK f \in [S -> Resources] : Waiting(S, W, f) /\ Followed(S, W, f)
  BY <1>5
<1>7. Waiting(S, W, f)'
  BY <1>1, <1>3, <1>6 DEF Waiting
<1>8. ASSUME NEW o \in S
      PROVE  o \in Lockers /\ f[o] \in Resources /\ Waits(head[f[o]], o) /\ WaitingResource(o) = f[o]
  <2>1. o \in Lockers /\ f[o] \in Resources
    BY <1>2, <1>4, <1>6
  <2>2. PICK p \in S : Blocks(head[f[o]], o, p)
    BY <1>6 DEF Waiting
  <2>3. Waits(head[f[o]], o)
    BY <1>2, <2>1, <2>2, BlocksFacts DEF HeadsOK
  <2> QED BY <1>2, <2>1, <2>3, WaitingFacts
<1> DEFINE tail == Tail(search.nodes)
<1>9. k \in S => r = f[k] /\ Waits(head[r], k)
  <2>1. <<k, r>> \in Members(search.nodes) /\ <<k, r>>[1] = k /\ <<k, r>>[2] = r
    BY <1>1
  <2> QED BY <1>6, <1>8, <2>1 DEF Followed
<1>10. /\ \A n \in Members(tail) : n[1] \in S => n[2] = f[n[1]]
       /\ \A n \in Members(search.nodes) : n[1] = k \/ n \in Members(tail)
  BY <1>1, <1>6 DEF Followed
<1>11. search.graph = {} => k = search.locker /\ k \in S
  <2> SUFFICES ASSUME search.graph = {} PROVE k = search.locker /\ k \in S
    OBVIOUS
  <2>1. search.nodes = <<<<search.locker, f[search.locker]>>>>
    BY <1>6 DEF Followed
  <2> QED BY <1>1, <1>6, <2>1 DEF Waiting
<1>12. search.locker \in search.graph \/ search.graph = {}
  BY <1>6 DEF Followed
<1>13. \A j \in search.graph \cap S : \A o \in S : <<j, o>> \in W =>
          \/ \E n \in Members(search.nodes) : n[1] = o
          \/ o \in search.graph /\ (o = search.locker => search.foundCycle)
  BY <1>6 DEF Followed
<1> HIDE DEF tail
<1>14. CASE ~Waits(head[r], k) /\ search' = [search EXCEPT !.nodes = Tail(@)]
  <2>1. /\ search'.graph = search.graph /\ search'.foundCycle = search.foundCycle
        /\ search'.nodes = tail
    BY <1>2, <1>14 DEF Searches, tail
  <2>2. k \notin S /\ search.graph # {}
    BY <1>9, <1>11, <1>14
  <2>3. \A o \in S : (\E n \in Members(search.nodes) : n[1] = o) =>
                         \E n \in Members(tail) : n[1] = o
    BY <1>10, <2>2
  <2>4. Followed(S, W, f)'
    BY <1>3, <1>10, <1>12, <1>13, <2>1, <2>2, <2>3 DEF Followed
  <2> QED BY <1>4, <1>6, <1>7, <2>4
<1>15. CASE /\ k \in search.graph
            /\ search' = [search EXCEPT !.nodes = Tail(@), !.foundCycle = @ \/ k = search.locker]
  <2>1. /\ search'.graph = search.graph
        /\ search'.foundCycle = (search.foundCycle \/ k = search.locker)
        /\ search'.nodes = tail
    BY <1>2, <1>15 DEF Searches, tail
  <2>2. \A o \in S : (\E n \in Members(search.nodes) : n[1] = o) =>
                         o = k \/ \E n \in Members(tail) : n[1] = o
    BY <1>10
  <2>3. \A j \in search.graph \cap S : \A o \in S : <<j, o>> \in W =>
            \/ \E n \in Members(tail) : n[1] = o
            \/ o \in search.graph /\ (o = search.locker => search'.foundCycle)
    BY <1>13, <1>15, <2>1, <2>2
  <2>4. Followed(S, W, f)'
    BY <1>3, <1>10, <1>12, <1>15, <2>1, <2>3 DEF Followed
  <2> QED BY <1>4, <1>6, <1>7, <2>4
<1>16. CASE /\ Waits(head[r], k) /\ k \notin search.graph
            /\ search' = [search EXCEPT !.nodes = Added(head[r], k) \o Tail(@),
                                        !.graph = @ \cup {k}]
  <2> DEFINE new == Added(head[r], k)
  <2>1. /\ search'.graph = search.graph \cup {k} /\ search'.foundCycle = search.foundCycle
        /\ search'.nodes = new \o tail
    BY <1>2, <1>16 DEF Searches, tail
  <2>2. /\ new \in Seq(Lockers \X Resources)
        /\ \A x : x \in Members(new) => x[1] \in Lockers /\ x[2] = WaitingResource(x[1])
        /\ \A o \in Lockers : Blocks(head[r], k, o) /\ WaitingResource(o) # NoResource =>
              <<o, WaitingResource(o)>> \in Members(new)
    BY <1>2, <1>16, AddedFacts
  <2> HIDE DEF new
  <2>3. Members(search'.nodes) = Members(new) \cup Members(tail)
    <3>1. tail \in Seq(Lockers \X Resources)
      BY <1>1 DEF tail
    <3>2. Members(new \o tail) = Members(new) \cup Members(tail)
      BY <2>2, <3>1, ConcatMembers
    <3> QED BY <2>1, <3>2
  <2>4. \A n \in Members(search'.nodes) : n[1] \in S => n[2] = f[n[1]]
    <3>1. \A n \in Members(new) : n[1] \in S => n[2] = f[n[1]]
      BY <1>8, <2>2
    <3> QED BY <1>10, <2>3, <3>1
  <2>5. ASSUME NEW o \in S, <<k, o>> \in W, k \in S
        PROVE  \E n \in Members(search'.nodes) : n[1] = o
    <3>1. Blocks(head[r], k, o)
      BY <1>6, <1>9, <2>5 DEF Waiting
    <3>2. o \in Lockers /\ WaitingResource(o) # NoResource
      BY <1>8, DeadlockAssumption
    <3>3. <<o, WaitingResource(o)>> \in Members(search'.nodes)
      BY <2>2, <2>3, <3>1, <3>2
    <3> QED BY <3>3
  <2>6. ASSUME NEW j \in search.graph \cap S, NEW o \in S, <<j, o>> \in W
        PROVE  \/ \E n \in Members(search'.nodes) : n[1] = o
               \/ o \in search'.graph /\ (o = search.locker => search'.foundCycle)
    <3>1. k # search.locker
      BY <1>12, <1>16
    <3>2. CASE o = k
      BY <2>1, <3>1, <3>2
    <3>3. CASE o # k
      <4>1. (\E n \in Members(search.nodes) : n[1] = o) => \E n \in Members(tail) : n[1] = o
        BY <1>10, <3>3
      <4> QED BY <1>13, <2>1, <2>3, <2>6, <4>1
    <3> QED BY <3>2, <3>3
  <2>7. search.locker \in search'.graph
    BY <1>11, <1>12, <2>1
  <2>8. \A j \in search'.graph \cap S : \A o \in S : <<j, o>> \in W =>
            \/ \E n \in Members(search'.nodes) : n[1] = o
            \/ o \in search'.graph /\ (o = search.locker => search'.foundCycle)
    BY <2>1, <2>5, <2>6
  <2>9. Followed(S, W, f)'
    BY <1>3, <2>4, <2>7, <2>8 DEF Followed
  <2> QED BY <1>4, <1>6, <1>7, <2>9
<1> QED BY <1>1, <1>14, <1>15, <1>16

\* Every step.
LEMMA FollowStep ==
    ASSUME BasicInv, FollowInv, [Next]_vars
    PROVE  FollowInv'
<1>0. search \in Searches
  BY DEF BasicInv
<1>1. ASSUME NEW l \in Lockers, NEW r \in Resources, NEW m \in RequestModes[l][r],
             Lock(l, r, m) \/ Convert(l, r, m)
      PROVE  FollowInv'
  <2>1. WaitsGoOn({}) /\ search' = search
    BY <1>1, RequestGoesOn
  <2> QED BY <2>1, FollowOthers
<1>2. ASSUME NEW l \in Lockers, (\E r \in Resources : Unlock(l, r)) \/ GiveUp(l) PROVE FollowInv'
  <2>1. PICK G \in SUBSET Lockers : WaitsGoOn(G) /\ Noted(G)
    BY <1>2, ReleaseGoesOn
  <2>2. /\ search'.locker = search.locker
        /\ search'.nodes = search.nodes /\ search'.graph = search.graph
        /\ search'.foundCycle = search.foundCycle /\ search'.deadlocked = search.deadlocked
        /\ search'.broken <=> search.broken \/ G \cap search.deadlocked # {}
    BY <1>0, <2>1, NotedFields
  <2> QED BY <2>1, <2>2, FollowOthers
<1>3. ASSUME NEW l \in Lockers, CheckBegin(l) PROVE FollowInv'
  BY <1>3, FollowBegin
<1>4. CASE ProcessNextNode
  BY <1>4, FollowProcess
<1>5. CASE KeepWaiting \/ Deadlock
  <2>1. search' = NoSearch
    BY <1>5 DEF KeepWaiting, Deadlock
  <2>2. search'.deadlocked = {}
    BY <2>1 DEF NoSearch
  <2> QED BY <2>2 DEF FollowInv
<1>6. CASE UNCHANGED vars
  <2>1. WaitsGoOn({}) /\ search' = search
    BY <1>6 DEF vars, WaitsGoOn
  <2> QED BY <2>1, FollowOthers
<1> QED BY <1>1, <1>2, <1>3, <1>4, <1>5, <1>6 DEF Next

\* A search that has followed all waits of a deadlock has found a cycle: its graph then
\* holds all of the deadlock, in which somebody waits for the locker.
LEMMA FollowedIsFound ==
    ASSUME SearchEnded, NEW S, NEW W, NEW f, Waiting(S, W, f), Followed(S, W, f)
    PROVE  search.foundCycle
<1> DEFINE l == search.locker
<1>1. Members(search.nodes) = {} /\ search.nodes # <<<<l, f[l]>>>>
  BY DEF SearchEnded, Members
<1>2. l \in search.graph /\ l \in S
  BY <1>1 DEF Followed, Waiting
<1>3. \A k \in search.graph \cap S : \A o \in S : <<k, o>> \in W =>
          o \in search.graph /\ (o = l => search.foundCycle)
  BY <1>1 DEF Followed
<1>4. /\ \A k \in S : \E o \in S : <<k, o>> \in W
      /\ \A T \in SUBSET S : T # {} /\ (\A k \in T : \E o \in T : <<k, o>> \in W) => T = S
  BY DEF Waiting
<1> HIDE DEF l
<1>5. search.graph \cap S = S
  <2> DEFINE T == search.graph \cap S
  <2>1. T \in SUBSET S /\ T # {} /\ \A k \in T : \E o \in T : <<k, o>> \in W
    BY <1>2, <1>3, <1>4
  <2> HIDE DEF T
  <2>2. T = S
    BY <1>4, <2>1
  <2> QED BY <2>2 DEF T
<1>6. \E k \in S : <<k, l>> \in W
  <2> SUFFICES ASSUME \A k \in S : <<k, l>> \notin W PROVE FALSE
    OBVIOUS
  <2> DEFINE T == S \ {l}
  <2>1. \A k \in S : \E o \in T : <<k, o>> \in W
    BY <1>4
  <2>2. T \in SUBSET S /\ T # {} /\ (\A k \in T : \E o \in T : <<k, o>> \in W) /\ T # S
    BY <1>2, <2>1
  <2> HIDE DEF T
  <2> QED BY <1>4, <2>2
<1> QED BY <1>2, <1>3, <1>5, <1>6

\* A deadlock is found: a search of a locker that was in a deadlock when the search
\* began ends with a cycle, however requests, grants and releases of others come in
\* between, unless one of the deadlock has given up or overtaken another.
THEOREM DeadlocksAreFound == Spec => []DeadlockIsFound
<1>1. Init => FollowInv
  BY DEF Init, FollowInv, NoSearch
<1>2. BasicInv /\ FollowInv /\ [Next]_vars => FollowInv'
  BY FollowStep
<1>3. FollowInv => DeadlockIsFound
  BY FollowedIsFound DEF FollowInv, DeadlockIsFound
<1> QED BY <1>1, <1>2, <1>3, BasicInvariance, PTL DEF Spec

=============================================================================
