--------------------------- MODULE ReferenceProofs ---------------------------
(* The reference data a capture rests on.  An id names at most one entity as  *)
(* known at any time, and the entity a committed capture used is the one its  *)
(* id names today, for any ticks, times and evidence (entity_resolve and the  *)
(* guards of the store).  And a share count that gets a value is on the basis *)
(* of the close, for any sessions and splits (live_on_close_basis).           *)
EXTENDS MCReference, TLAPS, FiniteSetTheorems, WellFoundedInduction

\* A set of numbers that is not empty has a least one.
LEMMA Least ==
    ASSUME NEW S \in SUBSET Nat, S # {}
    PROVE  \E x \in S : \A y \in S : x <= y
<1> DEFINE R == OpToRel(<, Nat)
<1>1. IsWellFoundedOn(R, Nat)
    BY NatLessThanWellFounded, Zenon
<1>2. \A x, y \in Nat : x < y => <<x, y>> \in R
    BY DEF OpToRel
<1> HIDE DEF R
<1>3. PICK x \in S : \A y \in S : ~(<<y, x>> \in R)
    BY <1>1, WFMin
<1>4. \A y \in S : ~(y < x)
    BY <1>2, <1>3
<1> QED
    BY <1>3, <1>4

\* What holds at 0, and at a number when it holds one before, holds up to n: S is
\* the set of the numbers for which it holds.
LEMMA UpTo ==
    ASSUME NEW n \in Nat, NEW S, 0 \in S, \A d \in 1..n : d - 1 \in S => d \in S
    PROVE  \A d \in 0..n : d \in S
<1> DEFINE B == {d \in 0..n : d \notin S}
<1>1. SUFFICES ASSUME B # {} PROVE FALSE
    OBVIOUS
<1>2. PICK x \in B : \A y \in B : x <= y
    <2>1. B \in SUBSET Nat
        OBVIOUS
    <2> QED
        BY <1>1, <2>1, Least
<1>3. x \in 1..n /\ x - 1 \in 0..n /\ x - 1 \notin B
    BY <1>2
<1> QED
    BY <1>2, <1>3
-----------------------------------------------------------------------------
(* Chains of merges.                                                         *)

\* The edges join entities, at most one leaves an entity, and none closes a
\* cycle: some rank of the entities sinks along every edge.
Forest(v) ==
    /\ IsFiniteSet(v.entities)
    /\ \A m \in v.merges : m.from \in v.entities /\ m.to \in v.entities /\ m.known \in Times
    /\ \A m, o \in v.merges : m.from = o.from => m = o
    /\ \E rank \in [v.entities -> Nat] : \A m \in v.merges : rank[m.to] < rank[m.from]

LEMMA SuccessorIs ==
    ASSUME NEW v, Forest(v), NEW k \in Int, NEW e \in v.entities
    PROVE  /\ Successor(v, e, k) \in v.entities
           /\ \A m \in v.merges : m.from = e /\ m.known <= k => Successor(v, e, k) = m.to
           /\ Successor(v, e, k) # e => \E m \in v.merges : m.from = e /\ m.known <= k /\ Successor(v, e, k) = m.to
<1> DEFINE edges == {m \in v.merges : m.from = e /\ m.known <= k}
<1>1. CASE edges = {}
    BY <1>1 DEF Successor
<1>2. CASE edges # {}
    <2>1. PICK m \in edges : TRUE
        BY <1>2
    <2>2. \A o \in edges : o = m
        BY <2>1 DEF Forest
    <2>3. m.known \in Int
        BY <2>1 DEF Forest, Times
    <2>4. Successor(v, e, k) = m.to
        <3>1. \A o \in edges : o.known <= m.known
            BY <2>2, <2>3
        <3>2. (CHOOSE x \in edges : \A o \in edges : o.known <= x.known) = m
            BY <2>1, <2>2, <3>1
        <3> QED
            BY <1>2, <3>2 DEF Successor
    <2> QED
        BY <2>1, <2>2, <2>4 DEF Forest
<1> QED
    BY <1>1, <1>2

\* The recursion of a chain has a solution.
LEMMA ChainSteps ==
    ASSUME NEW v, Forest(v), NEW e, NEW k
    PROVE  LET n == Cardinality(v.entities)
           IN  /\ n \in Nat
               /\ Chain(v, e, k)[0] = e
               /\ \A d \in 1..n : Chain(v, e, k)[d] = Successor(v, Chain(v, e, k)[d - 1], k)
<1> DEFINE n == Cardinality(v.entities)
           Walks(j, w) == w = [d \in 0..j |-> IF d = 0 THEN e ELSE Successor(v, w[d - 1], k)]
           S == {j \in Nat : \E w : Walks(j, w)}
<1>1. n \in Nat
    BY FS_CardinalityType DEF Forest
<1>2. 0 \in S
    <2> DEFINE w == [d \in 0..0 |-> e]
    <2>1. Walks(0, w)
        OBVIOUS
    <2> QED
        BY <2>1
<1>3. ASSUME NEW j \in 1..n, j - 1 \in S PROVE j \in S
    <2>1. PICK w : Walks(j - 1, w)
        BY <1>3
    <2> DEFINE x == [d \in 0..j |-> IF d = j THEN Successor(v, w[j - 1], k) ELSE w[d]]
    <2>2. j \in Nat /\ j # 0 /\ j - 1 \in 0..(j - 1) /\ \A d \in 0..(j - 1) : d \in 0..j /\ d # j
        BY <1>1, <1>3
    <2>3. \A d \in 0..(j - 1) : x[d] = w[d]
        BY <2>2
    <2>4. \A d \in 0..j : x[d] = IF d = 0 THEN e ELSE Successor(v, x[d - 1], k)
        <3>1. SUFFICES ASSUME NEW d \in 0..j PROVE x[d] = IF d = 0 THEN e ELSE Successor(v, x[d - 1], k)
            OBVIOUS
        <3>2. CASE d = j
            BY <2>2, <2>3, <3>2
        <3>3. CASE d # j
            <4>1. d \in 0..(j - 1) /\ (d # 0 => d - 1 \in 0..(j - 1))
                BY <2>2, <3>1, <3>3
            <4>2. w[d] = IF d = 0 THEN e ELSE Successor(v, w[d - 1], k)
                BY <2>1, <4>1
            <4> QED
                BY <2>3, <4>1, <4>2
        <3> QED
            BY <3>2, <3>3
    <2>5. Walks(j, x)
        BY <2>4
    <2> QED
        BY <2>2, <2>5
<1>4. n \in S
    <2> HIDE DEF S, n
    <2>1. \A d \in 0..n : d \in S
        BY <1>1, <1>2, <1>3, UpTo
    <2> QED
        BY <1>1, <2>1
<1>5. Chain(v, e, k) = CHOOSE w : Walks(n, w)
    BY DEF Chain
<1>6. Walks(n, Chain(v, e, k))
    BY <1>4, <1>5
<1> HIDE DEF n
<1>7. \A d \in 0..n : Chain(v, e, k)[d] = IF d = 0 THEN e ELSE Successor(v, Chain(v, e, k)[d - 1], k)
    BY <1>6
<1>8. 0 \in 0..n /\ \A d \in 1..n : d \in 0..n /\ d # 0
    BY <1>1
<1> QED
    BY <1>1, <1>7, <1>8 DEF n

\* An edge sinks, so an entity is not its own successor by an edge.
LEMMA NoLoop == ASSUME NEW v, Forest(v) PROVE \A m \in v.merges : m.from # m.to
<1>1. PICK rank \in [v.entities -> Nat] : \A m \in v.merges : rank[m.to] < rank[m.from]
    BY DEF Forest
<1>2. \A m \in v.merges : rank[m.to] \in Nat
    BY <1>1 DEF Forest
<1> QED
    BY <1>1, <1>2

\* A chain ends at an entity that no knowable edge leaves: one that went on would
\* visit more entities than there are.
LEMMA ChainEnds ==
    ASSUME NEW v, Forest(v), NEW k \in Int, NEW e \in v.entities
    PROVE  /\ Survivor(v, e, k) \in v.entities
           /\ Successor(v, Survivor(v, e, k), k) = Survivor(v, e, k)
           /\ \A d \in 0..Cardinality(v.entities) : Chain(v, e, k)[d] \in v.entities
<1> DEFINE n == Cardinality(v.entities)
           c == Chain(v, e, k)
           Next1(x) == Successor(v, x, k)
<1>1. n \in Nat /\ c[0] = e /\ \A d \in 1..n : c[d] = Next1(c[d - 1])
    BY ChainSteps
<1> HIDE DEF n, c
<1>2. \A d \in 0..n : c[d] \in v.entities
    <2> DEFINE S == {d \in 0..n : c[d] \in v.entities}
    <2>1. 0 \in S
        BY <1>1
    <2>2. \A d \in 1..n : d - 1 \in S => d \in S
        BY <1>1, SuccessorIs
    <2> HIDE DEF S
    <2>3. \A d \in 0..n : d \in S
        BY <1>1, <2>1, <2>2, UpTo
    <2> QED
        BY <2>3 DEF S
<1>3. PICK rank \in [v.entities -> Nat] : \A m \in v.merges : rank[m.to] < rank[m.from]
    BY DEF Forest
<1>4. \A x \in v.entities : Next1(x) \in v.entities /\ (Next1(x) # x => rank[Next1(x)] < rank[x])
    BY <1>3, SuccessorIs
<1>5. ASSUME NEW i \in 0..n, Next1(c[i]) = c[i] PROVE Next1(c[n]) = c[n]
    <2> DEFINE S == {d \in Nat : i + d <= n => c[i + d] = c[i]}
    <2>1. 0 \in S
        BY <1>1, <1>5
    <2>2. \A d \in 1..n : d - 1 \in S => d \in S
        BY <1>1, <1>5
    <2> HIDE DEF S
    <2>3. \A d \in 0..n : d \in S
        BY <1>1, <2>1, <2>2, UpTo
    <2>4. n - i \in S
        BY <1>1, <2>3
    <2> QED
        BY <1>1, <1>5, <2>4 DEF S
<1>6. Next1(c[n]) = c[n]
    <2>1. SUFFICES ASSUME Next1(c[n]) # c[n] PROVE FALSE
        OBVIOUS
    <2>2. \A i \in 0..n : Next1(c[i]) # c[i]
        BY <1>5, <2>1
    <2>3. \A i \in 1..n : rank[c[i]] < rank[c[i - 1]]
        <3>1. \A i \in 1..n : i - 1 \in 0..n
            BY <1>1
        <3> QED
            BY <1>1, <1>2, <1>4, <2>2, <3>1
    <2>4. ASSUME NEW i \in 0..n, NEW j \in 0..n, i < j PROVE rank[c[j]] < rank[c[i]]
        <3> DEFINE S == {d \in Nat : i + 1 + d <= n => rank[c[i + 1 + d]] < rank[c[i]]}
        <3>1. 0 \in S
            <4>1. i + 1 <= n => i + 1 \in 1..n /\ (i + 1) - 1 = i
                BY <1>1
            <4> QED
                BY <1>1, <2>3, <4>1
        <3>2. ASSUME NEW d \in 1..n, d - 1 \in S PROVE d \in S
            <4>1. d \in Nat
                BY <1>1
            <4>2. SUFFICES ASSUME i + 1 + d <= n PROVE rank[c[i + 1 + d]] < rank[c[i]]
                BY <4>1
            <4>3. i + 1 + (d - 1) = i + d /\ i + d \in 0..n /\ i + 1 + d \in 1..n /\ (i + 1 + d) - 1 = i + d
                BY <1>1, <4>1, <4>2
            <4>4. rank[c[i + d]] < rank[c[i]]
                BY <3>2, <4>3
            <4>5. rank[c[i + 1 + d]] < rank[c[i + d]]
                BY <2>3, <4>3
            <4>6. rank[c[i]] \in Nat /\ rank[c[i + d]] \in Nat /\ rank[c[i + 1 + d]] \in Nat
                BY <1>2, <1>3, <4>3
            <4> QED
                BY <4>4, <4>5, <4>6
        <3> HIDE DEF S
        <3>3. \A d \in 0..n : d \in S
            BY <1>1, <3>1, <3>2, UpTo
        <3>4. j - i - 1 \in S /\ i + 1 + (j - i - 1) = j
            BY <1>1, <2>4, <3>3
        <3> QED
            BY <1>1, <2>4, <3>4 DEF S
    <2> DEFINE f == [d \in 0..n |-> c[d]]
    <2>5. f \in [0..n -> v.entities] /\ IsFiniteSet(v.entities)
        BY <1>2 DEF Forest
    <2>6. IsFiniteSet(0..n) /\ Cardinality(0..n) = n + 1
        BY <1>1, FS_Interval
    <2>7. Cardinality(v.entities) < Cardinality(0..n)
        BY <1>1, <2>6 DEF n
    <2> HIDE DEF f
    <2>8. PICK i, j \in 0..n : i # j /\ f[i] = f[j]
        BY <2>5, <2>6, <2>7, FS_PigeonHole
    <2>9. c[i] = c[j] /\ (i < j \/ j < i) /\ rank[c[i]] \in Nat
        BY <1>1, <1>2, <1>3, <2>8 DEF f
    <2> QED
        BY <2>4, <2>8, <2>9
<1>7. Survivor(v, e, k) = c[n]
    BY DEF Survivor, c, n
<1>8. n \in 0..n
    BY <1>1
<1> QED
    BY <1>2, <1>6, <1>7, <1>8 DEF c, n

\* The end of a chain is the end of the chain of its second entity.
LEMMA ChainThrough ==
    ASSUME NEW v, Forest(v), NEW k \in Int, NEW e \in v.entities
    PROVE  Survivor(v, Successor(v, e, k), k) = Survivor(v, e, k)
<1> DEFINE n == Cardinality(v.entities)
           f == Successor(v, e, k)
           c == Chain(v, e, k)
           b == Chain(v, f, k)
<1>1. n \in Nat /\ c[0] = e /\ \A d \in 1..n : c[d] = Successor(v, c[d - 1], k)
    BY ChainSteps
<1>2. b[0] = f /\ \A d \in 1..n : b[d] = Successor(v, b[d - 1], k)
    BY ChainSteps
<1>3. n # 0
    BY FS_EmptySet DEF Forest
<1>4. Successor(v, c[n], k) = c[n]
    BY ChainEnds DEF Survivor
<1> HIDE DEF n, b, c
<1> DEFINE S == {d \in Nat : d + 1 <= n => b[d] = c[d + 1]}
<1>5. 0 \in S
    <2>1. 1 \in 1..n /\ 0 + 1 = 1 /\ 1 - 1 = 0
        BY <1>1, <1>3
    <2> QED
        BY <1>1, <1>2, <2>1
<1>6. ASSUME NEW d \in 1..n, d - 1 \in S PROVE d \in S
    <2>1. SUFFICES ASSUME d + 1 <= n PROVE b[d] = c[d + 1]
        BY <1>1
    <2>2. d + 1 \in 1..n /\ (d + 1) - 1 = d /\ (d - 1) + 1 = d /\ d <= n
        BY <1>1, <2>1
    <2>3. b[d - 1] = c[d]
        BY <1>6, <2>2
    <2> QED
        BY <1>1, <1>2, <2>2, <2>3
<1> HIDE DEF S
<1>7. n - 1 \in S
    <2>1. \A d \in 0..n : d \in S
        BY <1>1, <1>5, <1>6, UpTo
    <2> QED
        BY <1>1, <1>3, <2>1
<1>8. b[n - 1] = c[n]
    BY <1>1, <1>3, <1>7 DEF S
<1>9. b[n] = c[n]
    BY <1>1, <1>2, <1>3, <1>4, <1>8
<1> QED
    BY <1>9 DEF Survivor, b, c, n, f

\* In a store that has more rows, or at a later time, the chain of an entity goes
\* on from where it ended.
LEMMA ChainGrows ==
    ASSUME NEW v, Forest(v), NEW w, Forest(w), v.entities \subseteq w.entities, v.merges \subseteq w.merges,
           NEW k \in Int, NEW l \in Int, k <= l, NEW e \in v.entities
    PROVE  Survivor(w, Survivor(v, e, k), l) = Survivor(w, e, l)
<1> DEFINE n == Cardinality(v.entities)
           c == Chain(v, e, k)
           S == {d \in 0..n : Survivor(w, c[d], l) = Survivor(w, e, l)}
<1>1. n \in Nat /\ c[0] = e /\ \A d \in 1..n : c[d] = Successor(v, c[d - 1], k)
    BY ChainSteps
<1>2. \A d \in 0..n : c[d] \in v.entities
    BY ChainEnds
<1> HIDE DEF n, c
<1>3. 0 \in S
    BY <1>1
<1>4. ASSUME NEW d \in 1..n, d - 1 \in S PROVE d \in S
    <2>1. d \in 0..n /\ d - 1 \in 0..n /\ c[d - 1] \in v.entities /\ c[d] = Successor(v, c[d - 1], k)
        BY <1>1, <1>2
    <2>2. CASE c[d] = c[d - 1]
        BY <1>4, <2>1, <2>2
    <2>3. CASE c[d] # c[d - 1]
        <3>1. PICK m \in v.merges : m.from = c[d - 1] /\ m.known <= k /\ c[d] = m.to
            BY <2>1, <2>3, SuccessorIs
        <3>2. m \in w.merges /\ m.known \in Int
            BY <3>1 DEF Forest, Times
        <3>3. Successor(w, c[d - 1], l) = c[d]
            BY <2>1, <3>1, <3>2, SuccessorIs
        <3>4. Survivor(w, c[d], l) = Survivor(w, c[d - 1], l)
            BY <2>1, <3>3, ChainThrough
        <3> QED
            BY <1>4, <2>1, <3>4
    <2> QED
        BY <2>2, <2>3
<1> HIDE DEF S
<1>5. n \in S
    <2>1. \A d \in 0..n : d \in S
        BY <1>1, <1>3, <1>4, UpTo
    <2> QED
        BY <1>1, <2>1
<1> QED
    BY <1>5 DEF S, Survivor, n, c

Merged(v, e, f, k) == Survivor(v, e, k) = Survivor(v, f, k)

Part(r, s) == r.entities \subseteq s.entities /\ r.aliases \subseteq s.aliases /\ r.merges \subseteq s.merges

\* Entities that are merged stay merged, in a store with more rows and later.
LEMMA StayMerged ==
    ASSUME NEW v, Forest(v), NEW w, Forest(w), Part(v, w), NEW k \in Int, NEW l \in Int, k <= l,
           NEW e \in v.entities, NEW f \in v.entities, Merged(v, e, f, k)
    PROVE  Merged(w, e, f, l)
<1>1. Survivor(w, Survivor(v, e, k), l) = Survivor(w, e, l)
    BY ChainGrows DEF Part
<1>2. Survivor(w, Survivor(v, f, k), l) = Survivor(w, f, l)
    BY ChainGrows DEF Part
<1> QED
    BY <1>1, <1>2 DEF Merged

\* An entity that is its own survivor today has no edge.
LEMMA NoEdge ==
    ASSUME NEW v, Forest(v), NEW e \in v.entities, Survivor(v, e, Forever) = e
    PROVE  \A m \in v.merges : m.from # e
<1>1. Forever \in Int /\ \A m \in v.merges : m.known <= Forever
    BY ActorsAssumption DEF Forever, Forest, Times
<1>2. Successor(v, e, Forever) = e
    BY <1>1, ChainEnds
<1> QED
    BY <1>1, <1>2, SuccessorIs, NoLoop

\* Entities without edges change no chain.
LEMMA MoreEntities ==
    ASSUME NEW v, Forest(v), NEW w, IsFiniteSet(w.entities), v.entities \subseteq w.entities, w.merges = v.merges
    PROVE  Forest(w)
<1>1. PICK rank \in [v.entities -> Nat] : \A m \in v.merges : rank[m.to] < rank[m.from]
    BY DEF Forest
<1> DEFINE more == [e \in w.entities |-> IF e \in v.entities THEN rank[e] ELSE 0]
<1>2. more \in [w.entities -> Nat]
    BY <1>1
<1>3. \A m \in w.merges : more[m.to] < more[m.from]
    BY <1>1 DEF Forest
<1> HIDE DEF more
<1> QED
    BY <1>2, <1>3 DEF Forest

\* w has the rows of v and edges from the entities E, which have none in v, to x,
\* which does not lead to one of them.
Joins(v, w, E, x) ==
    /\ E \subseteq v.entities /\ x \in v.entities /\ w.entities = v.entities
    /\ \A e \in E : Survivor(v, e, Forever) = e /\ Survivor(v, x, Forever) # e
    /\ \A m \in w.merges : m \in v.merges \/ (m.from \in E /\ m.to = x /\ m.known \in Times)
    /\ \A m, o \in w.merges : m \notin v.merges /\ o \notin v.merges /\ m.from = o.from => m = o

\* The edges of a merge, which the guard allows each on its own, go from entities
\* without an edge to one that does not lead back: what led to them now ranks
\* above the survivor.
LEMMA MoreMerges ==
    ASSUME NEW v, NEW w, NEW E, NEW x, Joins(v, w, E, x), Forest(v)
    PROVE  Forest(w)
<1>0. /\ E \subseteq v.entities /\ x \in v.entities /\ w.entities = v.entities
      /\ \A m \in w.merges : m \in v.merges \/ (m.from \in E /\ m.to = x /\ m.known \in Times)
      /\ \A m, o \in w.merges : m \notin v.merges /\ o \notin v.merges /\ m.from = o.from => m = o
    BY DEF Joins
<1>1. PICK rank \in [v.entities -> Nat] : \A m \in v.merges : rank[m.to] < rank[m.from]
    BY DEF Forest
<1>2. \A e \in E : Survivor(v, e, Forever) = e /\ Survivor(v, x, Forever) # e
    BY DEF Joins
<1> DEFINE more == [e \in v.entities |-> IF Survivor(v, e, Forever) \in E THEN rank[e] + rank[x] + 1 ELSE rank[e]]
<1>3. more \in [v.entities -> Nat]
    BY <1>0, <1>1
<1>4. ASSUME NEW m \in v.merges PROVE more[m.to] < more[m.from]
    <2>1. m.from \in v.entities /\ m.to \in v.entities /\ m.known <= Forever /\ Forever \in Int
        BY ActorsAssumption DEF Forest, Times, Forever
    <2>2. Survivor(v, m.to, Forever) = Survivor(v, m.from, Forever)
        <3>1. Successor(v, m.from, Forever) = m.to
            BY <2>1, SuccessorIs
        <3> QED
            BY <2>1, <3>1, ChainThrough
    <2>3. rank[m.to] \in Nat /\ rank[m.from] \in Nat /\ rank[x] \in Nat /\ rank[m.to] < rank[m.from]
        BY <1>0, <1>1, <2>1
    <2> QED
        BY <2>1, <2>2, <2>3
<1>5. ASSUME NEW e \in E PROVE more[x] < more[e]
    <2>1. Survivor(v, x, Forever) \notin E
        BY <1>2
    <2>2. more[x] = rank[x] /\ more[e] = rank[e] + rank[x] + 1 /\ rank[x] \in Nat /\ rank[e] \in Nat
        BY <1>0, <1>1, <1>2, <2>1
    <2> QED
        BY <2>2
<1> HIDE DEF more
<1>7. \A m \in w.merges : more[m.to] < more[m.from]
    BY <1>0, <1>4, <1>5
<1>8. \A m \in v.merges : m.from \notin E
    BY <1>0, <1>2, NoEdge
<1>9. \A m, o \in w.merges : m.from = o.from => m = o
    BY <1>0, <1>8 DEF Forest
<1>10. \A m \in w.merges : m.from \in w.entities /\ m.to \in w.entities /\ m.known \in Times
    BY <1>0 DEF Forest
<1> QED
    BY <1>0, <1>3, <1>7, <1>9, <1>10 DEF Forest
-----------------------------------------------------------------------------
(* Rows that a transaction may see.                                          *)

Entity == [birth : Names, form : {"none", "typed", "legacy"}, generation : Nat]
Claim == [name : Names, known : Times, source : {"capture", "observation", "head", "crosswalk"}]
Alias == [name : Names, entity : Entity, known : Times,
          source : {"capture", "observation", "head", "crosswalk"}]
Rows == [entities : SUBSET Entity, aliases : SUBSET Alias,
         merges : SUBSET [from : Entity, to : Entity, known : Times]]

\* Claims of one id were of one entity when the later of them became knowable.
Sound(v) ==
    /\ Forest(v)
    /\ \A r \in v.aliases : r.entity \in v.entities /\ r.known \in Times
    /\ \A r, o \in v.aliases : r.name = o.name => Merged(v, r.entity, o.entity, AsOf(r, o))

\* The entity has the id, or is merged with one that has it.
Carries(v, n, e) == \E r \in v.aliases : r.name = n /\ Merged(v, r.entity, e, Forever)

\* Every entity has the id it was born from.
Named(v) == \A e \in v.entities : Carries(v, e.birth, e)

\* Later claims decide.
LEMMA AsOfIs ==
    ASSUME NEW r, NEW o, r.known \in Times, o.known \in Times
    PROVE  /\ AsOf(r, o) \in Times /\ AsOf(r, o) \in Int /\ AsOf(r, o) = AsOf(o, r)
           /\ AsOf(r, o) <= Forever /\ Forever \in Int
           /\ r.known <= AsOf(r, o) /\ o.known <= AsOf(r, o)
           /\ \A k \in Int : r.known <= k /\ o.known <= k => AsOf(r, o) <= k
BY ActorsAssumption DEF AsOf, Times, Forever

LEMMA StaySound ==
    ASSUME NEW v, Sound(v), NEW w, Forest(w), Part(v, w)
    PROVE  \A r, o \in v.aliases : r.entity \in w.entities /\ r.known \in Times
                                  /\ (r.name = o.name => Merged(w, r.entity, o.entity, AsOf(r, o)))
<1> SUFFICES ASSUME NEW r \in v.aliases, NEW o \in v.aliases
             PROVE  r.entity \in w.entities /\ r.known \in Times
                    /\ (r.name = o.name => Merged(w, r.entity, o.entity, AsOf(r, o)))
    OBVIOUS
<1>1. /\ r.entity \in v.entities /\ o.entity \in v.entities /\ r.known \in Times /\ o.known \in Times
      /\ r.name = o.name => Merged(v, r.entity, o.entity, AsOf(r, o))
    BY DEF Sound
<1>2. AsOf(r, o) \in Int /\ AsOf(r, o) <= AsOf(r, o)
    BY <1>1, AsOfIs
<1>3. r.name = o.name => Merged(w, r.entity, o.entity, AsOf(r, o))
    BY <1>1, <1>2, StayMerged DEF Sound
<1> QED
    BY <1>1, <1>3 DEF Part

LEMMA StayCarried ==
    ASSUME NEW v, Sound(v), NEW w, Forest(w), Part(v, w), NEW n, NEW e \in v.entities, Carries(v, n, e)
    PROVE  Carries(w, n, e)
<1>1. PICK r \in v.aliases : r.name = n /\ Merged(v, r.entity, e, Forever)
    BY DEF Carries
<1>2. r.entity \in v.entities /\ r \in w.aliases /\ Forever \in Int /\ Forever <= Forever
    BY <1>1, ActorsAssumption DEF Sound, Part, Forever
<1>3. Merged(w, r.entity, e, Forever)
    BY <1>1, <1>2, StayMerged DEF Sound
<1> QED
    BY <1>1, <1>2, <1>3 DEF Carries

\* The guard of an alias compares it with every claim of its id.
LEMMA OneMoreAlias ==
    ASSUME NEW v, Sound(v), NEW row, row.entity \in v.entities, row.known \in Times, AliasAllowed(v, row),
           NEW w, w.entities = v.entities, w.merges = v.merges, w.aliases = v.aliases \cup {row}
    PROVE  Sound(w)
<1>1. IsFiniteSet(w.entities) /\ Forest(v)
    BY DEF Sound, Forest
<1>2. Forest(w) /\ Part(v, w)
    BY <1>1, MoreEntities DEF Part
<1>3. \A r, o \in v.aliases : r.entity \in w.entities /\ r.known \in Times
                             /\ (r.name = o.name => Merged(w, r.entity, o.entity, AsOf(r, o)))
    BY <1>2, StaySound
<1>4. ASSUME NEW o \in v.aliases, o.name = row.name
      PROVE  Merged(w, o.entity, row.entity, AsOf(o, row)) /\ Merged(w, row.entity, o.entity, AsOf(row, o))
    <2>1. o.entity \in v.entities /\ o.known \in Times
        BY DEF Sound
    <2>2. AsOf(o, row) \in Int /\ AsOf(o, row) <= AsOf(o, row) /\ AsOf(o, row) = AsOf(row, o)
        BY <2>1, AsOfIs
    <2>3. Merged(v, o.entity, row.entity, AsOf(o, row))
        BY <1>4 DEF AliasAllowed, Merged
    <2>4. Merged(w, o.entity, row.entity, AsOf(o, row))
        BY <1>1, <1>2, <2>1, <2>2, <2>3, StayMerged
    <2> QED
        BY <2>2, <2>4 DEF Merged
<1>5. Merged(w, row.entity, row.entity, AsOf(row, row))
    BY DEF Merged
<1> QED
    BY <1>2, <1>3, <1>4, <1>5 DEF Sound

\* Rows of two transactions that name no id in common, of which one merges nothing.
LEMMA Together ==
    ASSUME NEW s \in Rows, NEW x \in Rows, NEW y \in Rows, Sound(Both(s, x)), Sound(Both(s, y)), x.merges = {},
           \A r \in x.aliases, o \in y.aliases : r.name # o.name
    PROVE  /\ Sound(Both(Both(s, x), y)) /\ Sound(Both(Both(s, y), x))
           /\ Part(Both(s, x), Both(Both(s, x), y)) /\ Part(Both(s, y), Both(Both(s, x), y))
           /\ Part(Both(s, x), Both(Both(s, y), x)) /\ Part(Both(s, y), Both(Both(s, y), x))
<1> DEFINE j == Both(Both(s, x), y)
<1>1. j = Both(Both(s, y), x)
    <2>1. /\ (s.entities \cup x.entities) \cup y.entities = (s.entities \cup y.entities) \cup x.entities
          /\ (s.aliases \cup x.aliases) \cup y.aliases = (s.aliases \cup y.aliases) \cup x.aliases
          /\ (s.merges \cup x.merges) \cup y.merges = (s.merges \cup y.merges) \cup x.merges
        OBVIOUS
    <2> QED
        BY <2>1 DEF Both
<1>2. Part(Both(s, x), j) /\ Part(Both(s, y), j)
    BY DEF Part, Both
<1>3. Forest(j)
    <2>1. IsFiniteSet(Both(s, x).entities) /\ IsFiniteSet(Both(s, y).entities) /\ Forest(Both(s, y))
        BY DEF Sound, Forest
    <2>2. IsFiniteSet(Both(s, x).entities \cup Both(s, y).entities)
        BY <2>1, FS_Union
    <2>3. j.entities = Both(s, x).entities \cup Both(s, y).entities /\ j.merges = Both(s, y).merges
        BY DEF Both
    <2> QED
        BY <1>2, <2>1, <2>2, <2>3, MoreEntities DEF Part
<1>4. \A r \in j.aliases : r \in Both(s, x).aliases \/ r \in Both(s, y).aliases
    BY DEF Both
<1>5. \A r, o \in j.aliases : r.name = o.name =>
          \/ r \in Both(s, x).aliases /\ o \in Both(s, x).aliases
          \/ r \in Both(s, y).aliases /\ o \in Both(s, y).aliases
    BY DEF Both
<1> HIDE DEF j
<1>6. /\ \A r, o \in Both(s, x).aliases : r.entity \in j.entities /\ r.known \in Times
                             /\ (r.name = o.name => Merged(j, r.entity, o.entity, AsOf(r, o)))
      /\ \A r, o \in Both(s, y).aliases : r.entity \in j.entities /\ r.known \in Times
                             /\ (r.name = o.name => Merged(j, r.entity, o.entity, AsOf(r, o)))
    BY <1>2, <1>3, StaySound
<1>7. Sound(j)
    BY <1>3, <1>4, <1>5, <1>6 DEF Sound
<1> QED
    BY <1>1, <1>2, <1>7 DEF j

\* No rows change nothing.
LEMMA NothingMore == ASSUME NEW s \in Rows PROVE Both(s, NoRows) = s /\ NoRows \in Rows /\ NoRows.merges = {}
<1>1. Both(s, NoRows) = [entities |-> s.entities, aliases |-> s.aliases, merges |-> s.merges]
    BY DEF Both, NoRows
<1>2. s = [entities |-> s.entities, aliases |-> s.aliases, merges |-> s.merges]
    BY DEF Rows
<1> QED
    BY <1>1, <1>2 DEF NoRows, Rows

LEMMA StayNamed ==
    ASSUME NEW s \in Rows, NEW x \in Rows, NEW y \in Rows, Sound(Both(s, x)), Sound(Both(s, y)),
           Named(Both(s, x)), Named(Both(s, y)), x.merges = {},
           \A r \in x.aliases, o \in y.aliases : r.name # o.name
    PROVE  Named(Both(Both(s, x), y)) /\ Named(Both(Both(s, y), x))
<1>1. /\ Forest(Both(Both(s, x), y)) /\ Forest(Both(Both(s, y), x))
      /\ Part(Both(s, x), Both(Both(s, x), y)) /\ Part(Both(s, y), Both(Both(s, x), y))
      /\ Part(Both(s, x), Both(Both(s, y), x)) /\ Part(Both(s, y), Both(Both(s, y), x))
    BY Together DEF Sound
<1>2. \A e \in Both(Both(s, x), y).entities : e \in Both(s, x).entities \/ e \in Both(s, y).entities
    BY DEF Both
<1>3. \A e \in Both(Both(s, y), x).entities : e \in Both(s, x).entities \/ e \in Both(s, y).entities
    BY DEF Both
<1>4. \A e \in Both(s, x).entities : Carries(Both(Both(s, x), y), e.birth, e) /\ Carries(Both(Both(s, y), x), e.birth, e)
    BY <1>1, StayCarried DEF Named
<1>5. \A e \in Both(s, y).entities : Carries(Both(Both(s, x), y), e.birth, e) /\ Carries(Both(Both(s, y), x), e.birth, e)
    BY <1>1, StayCarried DEF Named
<1> QED
    BY <1>2, <1>3, <1>4, <1>5 DEF Named
-----------------------------------------------------------------------------
(* The invariant: what holds of the store, of a tick and of the backfill.    *)

\* An id named one entity when every claim of it was knowable, and an entity is
\* named by the id it was born from.
StoreOK(s) == s \in Rows /\ Sound(s) /\ Named(s)

TickState == [at : {"idle", "lookup", "mint", "name", "done"}, name : Names, cutoff : Times, entity : Entity]

\* A tick x with the rows own: it writes no merges, and before its alias is
\* written only its new entity has no name.
TickOK(x, own, s) ==
    /\ x \in TickState /\ own \in Rows /\ own.merges = {} /\ Sound(Both(s, own))
    /\ x.at \in {"idle", "lookup", "mint"} => own = NoRows
    /\ x.at = "name" => own.entities = {x.entity} /\ x.entity.birth = x.name /\ own.aliases = {}
    /\ x.at = "done" => /\ x.entity \in Both(s, own).entities /\ Carries(Both(s, own), x.name, x.entity)
                        /\ Named(Both(s, own))

Maps == UNION {[D -> Entity] : D \in SUBSET Entity}

\* The map of the backfill follows the merges.
Knows(map, v) ==
    \A e \in DOMAIN map : e \in v.entities /\ map[e] \in v.entities /\ Merged(v, map[e], e, Forever)

JobState ==
    [at : {"idle", "next", "mint", "insert"}, linked : BOOLEAN, todo : SUBSET SUBSET Claim,
     component : SUBSET Claim, left : SUBSET Claim, survivor : Entity, map : Maps, saved : Rows, savedMap : Maps]

\* A component has a claim besides those of the crosswalk.
Proper(component) == \E c \in component : c.source # "crosswalk"

\* The backfill b with the rows own: what it would go back to is as sound as what
\* it has, and a survivor without a name has a claim of its birth id to come.
JobOK(b, own, s) ==
    /\ b \in JobState /\ own \in Rows /\ Part(b.saved, own)
    /\ Sound(Both(s, own)) /\ Sound(Both(s, b.saved)) /\ Named(Both(s, b.saved))
    /\ Knows(b.map, Both(s, own)) /\ Knows(b.savedMap, Both(s, b.saved))
    /\ \A c \in b.todo : Proper(c)
    /\ b.at = "idle" => own = NoRows
    /\ b.at = "mint" => b.left = b.component /\ Proper(b.component)
    /\ b.at # "insert" => Named(Both(s, own))
    /\ b.at = "insert" =>
          /\ b.survivor \in Both(s, own).entities
          /\ \A e \in Both(s, own).entities :
                Carries(Both(s, own), e.birth, e) \/ (e = b.survivor /\ \E c \in b.left : c.name = e.birth)

\* The entity of a capture is one its id names.
CapturedOK(s) == \A c \in captured : c[2] \in s.entities /\ Carries(s, c[1], c[2])

\* No two transactions have claims of one id that are not committed.
AliasLocks == \A a, b \in Actors : a # b => \A r \in mine[a].aliases, o \in mine[b].aliases : r.name # o.name

IdentityInv ==
    /\ mine \in [Actors -> Rows] /\ tick \in [Ticks -> TickState]
    /\ StoreOK(store)
    /\ \A t \in Ticks : TickOK(tick[t], mine[t], store)
    /\ JobOK(backfill, mine[Job], store)
    /\ CapturedOK(store) /\ AliasLocks
    /\ uses \subseteq Uses /\ proofs \subseteq Times

LEMMA IdentityInvInit == Init => IdentityInv
<1> SUFFICES ASSUME Init PROVE IdentityInv
    OBVIOUS
<1>1. NoRows \in Rows /\ Both(NoRows, NoRows) = NoRows
    <2>1. NoRows \in Rows
        BY DEF NoRows, Rows
    <2> QED
        BY <2>1, NothingMore
<1>2. Sound(NoRows) /\ Named(NoRows)
    <2>1. NoRows.entities = {} /\ NoRows.aliases = {} /\ NoRows.merges = {}
        BY DEF NoRows
    <2>2. IsFiniteSet(NoRows.entities)
        BY <2>1, FS_EmptySet
    <2> DEFINE rank == [e \in NoRows.entities |-> 0]
    <2>3. rank \in [NoRows.entities -> Nat]
        OBVIOUS
    <2>4. \A m \in NoRows.merges : rank[m.to] < rank[m.from]
        BY <2>1
    <2> HIDE DEF rank
    <2>5. Forest(NoRows)
        BY <2>1, <2>2, <2>3, <2>4 DEF Forest
    <2> QED
        BY <2>1, <2>5 DEF Sound, Named
<1>3. NoEntity \in Entity /\ 1 \in Times /\ Cik \in Names
    BY ActorsAssumption DEF NoEntity, Entity, Times, Names
<1>4. IdleTick \in TickState /\ IdleTick.at = "idle"
    BY <1>3 DEF IdleTick, At, TickState
<1>5. NoMap \in Maps /\ DOMAIN NoMap = {}
    BY DEF NoMap, Maps
<1>6. IdleJob \in JobState /\ IdleJob.at = "idle" /\ IdleJob.todo = {} /\ IdleJob.saved = NoRows
      /\ IdleJob.map = NoMap /\ IdleJob.savedMap = NoMap
    BY <1>1, <1>3, <1>5 DEF IdleJob, JobState
<1>7. \A a \in Actors : mine[a] = NoRows
    BY DEF Init
<1>8. \A t \in Ticks : TickOK(tick[t], mine[t], store)
    BY <1>1, <1>2, <1>4, <1>7 DEF Init, TickOK, NoRows, Actors
<1>9. JobOK(backfill, mine[Job], store)
    BY <1>1, <1>2, <1>5, <1>6, <1>7 DEF Init, JobOK, Knows, Actors, Part
<1>10. AliasLocks
    BY <1>7 DEF AliasLocks, NoRows
<1> QED
    BY <1>1, <1>2, <1>4, <1>8, <1>9, <1>10 DEF Init, IdentityInv, StoreOK, CapturedOK

\* A transaction that has written nothing.
LEMMA RestingOK == ASSUME NEW s, StoreOK(s) PROVE TickOK(IdleTick, NoRows, s) /\ JobOK(IdleJob, NoRows, s)
<1>1. NoRows \in Rows /\ Both(s, NoRows) = s /\ NoRows.merges = {} /\ Sound(s) /\ Named(s)
    BY NothingMore DEF StoreOK
<1>2. NoEntity \in Entity /\ 1 \in Times /\ Cik \in Names
    BY ActorsAssumption DEF NoEntity, Entity, Times, Names
<1>3. IdleTick \in TickState /\ IdleTick.at = "idle"
    BY <1>2 DEF IdleTick, At, TickState
<1>4. NoMap \in Maps /\ DOMAIN NoMap = {}
    BY DEF NoMap, Maps
<1>5. IdleJob \in JobState /\ IdleJob.at = "idle" /\ IdleJob.todo = {} /\ IdleJob.saved = NoRows
      /\ IdleJob.map = NoMap /\ IdleJob.savedMap = NoMap
    BY <1>1, <1>2, <1>4 DEF IdleJob, JobState
<1>6. TickOK(IdleTick, NoRows, s)
    BY <1>1, <1>3 DEF TickOK
<1> QED
    BY <1>1, <1>4, <1>5, <1>6 DEF JobOK, Knows, Part

\* Rows y that another transaction commits leave a tick as it is.
LEMMA TickGrows ==
    ASSUME NEW s \in Rows, NEW y \in Rows, NEW x, NEW own, TickOK(x, own, s),
           Sound(Both(s, y)), Named(Both(s, y)), \A r \in own.aliases, o \in y.aliases : r.name # o.name
    PROVE  TickOK(x, own, Both(s, y))
<1> DEFINE v == Both(s, own)
           w == Both(Both(s, y), own)
<1>1. own \in Rows /\ own.merges = {} /\ Sound(v)
    BY DEF TickOK
<1>2. Sound(w) /\ Part(v, w) /\ Forest(w)
    BY <1>1, Together DEF Sound
<1>3. Named(v) => Named(w)
    BY <1>1, StayNamed
<1> HIDE DEF v, w
<1>4. x.at = "done" => x.entity \in w.entities /\ Carries(w, x.name, x.entity)
    <2>1. SUFFICES ASSUME x.at = "done" PROVE x.entity \in w.entities /\ Carries(w, x.name, x.entity)
        OBVIOUS
    <2>2. x.entity \in v.entities /\ Carries(v, x.name, x.entity)
        BY <2>1 DEF TickOK, v
    <2> QED
        BY <1>1, <1>2, <2>2, StayCarried DEF Part
<1> QED
    BY <1>2, <1>3, <1>4 DEF TickOK, v, w

\* A map that follows the merges follows those that are added.
LEMMA StayKnown ==
    ASSUME NEW map, NEW v, NEW w, Forest(v), Forest(w), Part(v, w), Knows(map, v)
    PROVE  Knows(map, w)
<1>1. Forever \in Int /\ Forever <= Forever
    BY ActorsAssumption DEF Forever
<1>2. \A e \in DOMAIN map : e \in v.entities /\ map[e] \in v.entities /\ Merged(v, map[e], e, Forever)
    BY DEF Knows
<1>3. \A e \in DOMAIN map : Merged(w, map[e], e, Forever)
    BY <1>1, <1>2, StayMerged
<1> QED
    BY <1>2, <1>3 DEF Knows, Part

\* Rows y that a tick commits leave the backfill as it is.
LEMMA JobGrows ==
    ASSUME NEW s \in Rows, NEW y \in Rows, NEW b, NEW own, JobOK(b, own, s), y.merges = {},
           Sound(Both(s, y)), Named(Both(s, y)), \A r \in y.aliases, o \in own.aliases : r.name # o.name
    PROVE  JobOK(b, own, Both(s, y))
<1> DEFINE v == Both(s, own)
           w == Both(Both(s, y), own)
           old == Both(s, b.saved)
           now == Both(Both(s, y), b.saved)
<1>1. own \in Rows /\ b.saved \in Rows /\ Sound(v) /\ Sound(old) /\ Named(old) /\ Part(b.saved, own)
    BY DEF JobOK, JobState
<1>2. Sound(w) /\ Part(v, w) /\ Part(Both(s, y), w) /\ Forest(v) /\ Forest(w)
    BY <1>1, Together DEF Sound
<1>3. Sound(now) /\ Part(old, now) /\ Forest(old) /\ Forest(now) /\ Named(now)
    BY <1>1, Together, StayNamed DEF Sound, Part
<1>4. Named(v) => Named(w)
    BY <1>1, StayNamed
<1>5. Knows(b.map, w) /\ Knows(b.savedMap, now)
    BY <1>2, <1>3, StayKnown DEF JobOK
<1>6. b.at = "insert" =>
          /\ b.survivor \in w.entities
          /\ \A e \in w.entities : Carries(w, e.birth, e) \/ (e = b.survivor /\ \E c \in b.left : c.name = e.birth)
    <2>1. SUFFICES ASSUME b.at = "insert"
                   PROVE  /\ b.survivor \in w.entities
                          /\ \A e \in w.entities :
                                Carries(w, e.birth, e) \/ (e = b.survivor /\ \E c \in b.left : c.name = e.birth)
        OBVIOUS
    <2>2. /\ b.survivor \in v.entities
          /\ \A e \in v.entities : Carries(v, e.birth, e) \/ (e = b.survivor /\ \E c \in b.left : c.name = e.birth)
        BY <2>1 DEF JobOK
    <2>3. \A e \in w.entities : e \in v.entities \/ e \in Both(s, y).entities
        BY DEF Both
    <2> HIDE DEF v, w
    <2>4. \A e \in Both(s, y).entities : Carries(w, e.birth, e)
        BY <1>2, StayCarried DEF Named
    <2>5. \A e \in v.entities : Carries(v, e.birth, e) => Carries(w, e.birth, e)
        BY <1>1, <1>2, StayCarried
    <2> QED
        BY <1>2, <2>2, <2>3, <2>4, <2>5 DEF Part
<1> QED
    BY <1>2, <1>3, <1>4, <1>5, <1>6 DEF JobOK

\* A step of one tick within its transaction.
LEMMA TickChanges ==
    ASSUME IdentityInv, NEW t \in Ticks, NEW x, NEW own, TickOK(x, own, store),
           tick' = [tick EXCEPT ![t] = x], mine' = [mine EXCEPT ![t] = own],
           UNCHANGED <<store, backfill, captured, uses, proofs>>,
           \A b \in Actors \ {t} : \A r \in own.aliases, o \in mine[b].aliases : r.name # o.name
    PROVE  IdentityInv'
<1>1. t \in Actors /\ t # Job /\ Job \in Actors /\ \A u \in Ticks : u \in Actors
    BY ActorsAssumption DEF Actors
<1>2. own \in Rows /\ x \in TickState
    BY DEF TickOK
<1>3. mine' \in [Actors -> Rows] /\ tick' \in [Ticks -> TickState] /\ mine'[t] = own /\ tick'[t] = x
      /\ (\A b \in Actors \ {t} : mine'[b] = mine[b]) /\ \A u \in Ticks \ {t} : tick'[u] = tick[u]
    BY <1>1, <1>2 DEF IdentityInv
<1>4. \A u \in Ticks : TickOK(tick'[u], mine'[u], store')
    BY <1>1, <1>3 DEF IdentityInv
<1>5. JobOK(backfill', mine'[Job], store')
    BY <1>1, <1>3 DEF IdentityInv
<1>6. AliasLocks'
    BY <1>1, <1>3 DEF IdentityInv, AliasLocks
<1>7. StoreOK(store') /\ CapturedOK(store)'
    BY DEF IdentityInv, CapturedOK
<1> QED
    BY <1>3, <1>4, <1>5, <1>6, <1>7 DEF IdentityInv

\* A step of the backfill within its transaction.
LEMMA JobChanges ==
    ASSUME IdentityInv, NEW b, NEW own, JobOK(b, own, store),
           backfill' = b, mine' = [mine EXCEPT ![Job] = own],
           UNCHANGED <<store, tick, captured, uses, proofs>>,
           \A t \in Ticks : \A r \in own.aliases, o \in mine[t].aliases : r.name # o.name
    PROVE  IdentityInv'
<1>1. Job \in Actors /\ \A u \in Ticks : u \in Actors /\ u # Job
    BY ActorsAssumption DEF Actors
<1>2. own \in Rows
    BY DEF JobOK
<1>3. mine' \in [Actors -> Rows] /\ mine'[Job] = own /\ \A t \in Ticks : mine'[t] = mine[t]
    BY <1>1, <1>2 DEF IdentityInv
<1>4. \A u \in Ticks : TickOK(tick'[u], mine'[u], store')
    BY <1>3 DEF IdentityInv
<1>5. AliasLocks'
    <2>1. \A a \in Actors : a = Job \/ a \in Ticks
        BY DEF Actors
    <2> QED
        BY <1>1, <1>3, <2>1 DEF IdentityInv, AliasLocks
<1>6. StoreOK(store') /\ CapturedOK(store)'
    BY DEF IdentityInv, CapturedOK
<1> QED
    BY <1>3, <1>4, <1>5, <1>6 DEF IdentityInv
-----------------------------------------------------------------------------
(* The steps of a tick.                                                      *)

\* A new entity without rows.
LEMMA OneMoreEntity ==
    ASSUME NEW v, Sound(v), NEW e, NEW w, w.entities = v.entities \cup {e}, w.merges = v.merges, w.aliases = v.aliases
    PROVE  Sound(w) /\ Part(v, w) /\ Forest(w)
<1>1. IsFiniteSet(w.entities)
    BY FS_AddElement DEF Sound, Forest
<1>2. Forest(w) /\ Part(v, w)
    BY <1>1, MoreEntities DEF Sound, Part
<1>3. \A r, o \in v.aliases : r.entity \in w.entities /\ r.known \in Times
                             /\ (r.name = o.name => Merged(w, r.entity, o.entity, AsOf(r, o)))
    BY <1>2, StaySound
<1> QED
    BY <1>2, <1>3 DEF Sound

\* The id a minted entity gets.
LEMMA MintedIs ==
    ASSUME NEW v, IsFiniteSet(v.entities), NEW n \in Names, NEW form \in {"typed", "legacy"}
    PROVE  Minted(v, n, form) \in Entity /\ Minted(v, n, form).birth = n
<1> DEFINE S == {e \in v.entities : e.birth = n /\ e.form = form}
<1>1. S \in SUBSET v.entities
    OBVIOUS
<1>2. IsFiniteSet(S)
    BY <1>1, FS_Subset
<1>3. Cardinality(S) \in Nat
    BY <1>2, FS_CardinalityType
<1> QED
    BY <1>3 DEF Minted, Entity

\* An entity that an id resolves to, as known at a time, has the id today.
LEMMA ResolvedCarries ==
    ASSUME NEW v, Sound(v), NEW k \in Times, NEW x \in v.entities, NEW n, Carries(v, n, x)
    PROVE  Survivor(v, x, k) \in v.entities /\ Carries(v, n, Survivor(v, x, k))
<1>1. k \in Int /\ Forever \in Int /\ k <= Forever /\ Forest(v)
    BY ActorsAssumption DEF Times, Forever, Sound
<1>2. Survivor(v, x, k) \in v.entities
    BY <1>1, ChainEnds
<1>3. Survivor(v, Survivor(v, x, k), Forever) = Survivor(v, x, Forever)
    BY <1>1, ChainGrows
<1> QED
    BY <1>2, <1>3 DEF Carries, Merged

LEMMA FoundCarries ==
    ASSUME NEW v, Sound(v), Named(v), NEW n \in Names, NEW k \in Times, NEW e \in LookupEntity(v, n, k)
    PROVE  e \in v.entities /\ Carries(v, n, e)
<1>1. CASE e \in Hits(v, n, k)
    <2>1. PICK r \in v.aliases : r.name = n /\ e = Survivor(v, r.entity, k)
        BY <1>1 DEF Hits
    <2>2. r.entity \in v.entities /\ Carries(v, n, r.entity)
        BY <2>1 DEF Sound, Carries, Merged
    <2> QED
        BY <2>1, <2>2, ResolvedCarries
<1>2. CASE e \notin Hits(v, n, k)
    <2>1. PICK x \in Born(v, n) : e = Survivor(v, x, k)
        BY <1>2 DEF LookupEntity
    <2>2. x \in v.entities /\ x.birth = n
        BY <2>1 DEF Born
    <2>3. Carries(v, n, x)
        BY <2>2 DEF Named
    <2> QED
        BY <2>1, <2>2, <2>3, ResolvedCarries
<1> QED
    BY <1>1, <1>2

LEMMA TickSteps ==
    ASSUME IdentityInv, NEW t \in Ticks,
           Launch(t) \/ Lookup(t) \/ Mint(t) \/ NameEntity(t) \/ TickFails(t)
    PROVE  IdentityInv'
<1> DEFINE v == View(t)
<1>1. /\ mine \in [Actors -> Rows] /\ tick \in [Ticks -> TickState] /\ t \in Actors /\ store \in Rows
      /\ StoreOK(store) /\ Sound(store) /\ Named(store) /\ TickOK(tick[t], mine[t], store) /\ tick[t] \in TickState
    BY DEF IdentityInv, StoreOK, Actors
<1>2. /\ Both(store, NoRows) = store /\ NoRows \in Rows /\ NoRows.merges = {} /\ NoRows.aliases = {} /\ NoRows.entities = {}
      /\ NoEntity \in Entity
    BY <1>1, NothingMore DEF NoRows, NoEntity, Entity, Names
<1>3. mine = [mine EXCEPT ![t] = mine[t]]
    BY <1>1
<1>4. \A b \in Actors \ {t} : \A r \in mine[t].aliases, o \in mine[b].aliases : r.name # o.name
    BY <1>1 DEF IdentityInv, AliasLocks
<1>5. ASSUME Abandon(t), UNCHANGED <<store, backfill, captured, uses, proofs>> PROVE IdentityInv'
    <2>1. TickOK(IdleTick, NoRows, store)
        BY <1>1, RestingOK
    <2> QED
        BY <1>2, <1>5, <2>1, TickChanges DEF Abandon
<1>6. CASE Launch(t)
    <2>1. PICK n \in Names, k \in Times : tick' = [tick EXCEPT ![t] = At("lookup", n, k, NoEntity)]
        BY <1>6 DEF Launch
    <2> DEFINE x == At("lookup", n, k, NoEntity)
    <2>2. x \in TickState /\ x.at = "lookup"
        BY <1>2 DEF At, TickState
    <2>3. mine[t] = NoRows
        BY <1>1, <1>6 DEF Launch, TickOK
    <2>4. tick' = [tick EXCEPT ![t] = x] /\ mine' = [mine EXCEPT ![t] = mine[t]]
          /\ UNCHANGED <<store, backfill, captured, uses, proofs>>
        BY <1>3, <1>6, <2>1 DEF Launch
    <2> HIDE DEF x
    <2>5. TickOK(x, mine[t], store)
        BY <1>1, <1>2, <2>2, <2>3 DEF TickOK
    <2> QED
        BY <1>4, <2>4, <2>5, TickChanges
<1>7. CASE Lookup(t)
    <2> DEFINE found == LookupEntity(v, tick[t].name, tick[t].cutoff)
    <2>1. mine[t] = NoRows /\ v = store
        BY <1>1, <1>2, <1>7 DEF Lookup, TickOK, View
    <2>2. UNCHANGED <<store, backfill, captured, uses, proofs>> /\ tick[t].at = "lookup"
        BY <1>7 DEF Lookup
    <2>3. ASSUME NEW e \in Entity, NEW at \in {"done", "mint"}, Goes(t, at, e), UNCHANGED mine,
                 at = "done" => e \in store.entities /\ Carries(store, tick[t].name, e)
          PROVE  IdentityInv'
        <3> DEFINE x == At(at, tick[t].name, tick[t].cutoff, e)
        <3>1. x \in TickState /\ x.at = at /\ x.name = tick[t].name /\ x.entity = e
            BY <1>1, <2>3 DEF At, TickState
        <3>2. tick' = [tick EXCEPT ![t] = x]
            BY <2>3 DEF Goes
        <3> HIDE DEF x
        <3>3. TickOK(x, mine[t], store)
            BY <1>1, <1>2, <2>1, <2>3, <3>1 DEF TickOK
        <3> QED
            BY <1>3, <1>4, <2>2, <2>3, <3>2, <3>3, TickChanges
    <2>4. CASE Abandon(t)
        BY <1>5, <2>2, <2>4
    <2>5. CASE (\E e \in found : Goes(t, "done", e)) /\ UNCHANGED mine
        <3>1. PICK e \in found : Goes(t, "done", e)
            BY <2>5
        <3>2. e \in store.entities /\ Carries(store, tick[t].name, e) /\ e \in Entity
            <4>1. tick[t].name \in Names /\ tick[t].cutoff \in Times
                BY <1>1 DEF TickState
            <4>2. e \in store.entities /\ Carries(store, tick[t].name, e)
                BY <1>1, <2>1, <3>1, <4>1, FoundCarries
            <4> QED
                BY <1>1, <4>2 DEF Rows
        <3> QED
            BY <2>3, <2>5, <3>1, <3>2
    <2>6. CASE Goes(t, "mint", NoEntity) /\ UNCHANGED mine
        BY <1>2, <2>3, <2>6
    <2> QED
        BY <1>7, <2>4, <2>5, <2>6 DEF Lookup
<1>8. CASE Mint(t)
    <2> DEFINE n == tick[t].name
               e == Minted(v, n, "typed")
               own == [entities |-> {e}, aliases |-> {}, merges |-> {}]
               x == At("name", n, tick[t].cutoff, e)
    <2>1. mine[t] = NoRows /\ v = store /\ n \in Names
        BY <1>1, <1>2, <1>8 DEF Mint, TickOK, View, TickState
    <2>2. mine' = [mine EXCEPT ![t] = own]
        <3>1. Both(mine[t], [NoRows EXCEPT !.entities = {e}]) = own
            BY <2>1 DEF Both, NoRows
        <3> QED
            BY <1>8, <3>1 DEF Mint
    <2>3. tick' = [tick EXCEPT ![t] = x] /\ UNCHANGED <<store, backfill, captured, uses, proofs>>
        BY <1>8 DEF Mint, Goes
    <2>4. e \in Entity /\ e.birth = n
        BY <1>1, <2>1, MintedIs DEF Sound, Forest
    <2> HIDE DEF e
    <2>5. x \in TickState /\ x.at = "name" /\ x.entity = e /\ x.name = n
        BY <1>1, <2>1, <2>4 DEF At, TickState
    <2>6. own \in Rows
        BY <2>4 DEF Rows
    <2>7. Sound(Both(store, own))
        <3>1. Both(store, own).entities = store.entities \cup {e} /\ Both(store, own).merges = store.merges
              /\ Both(store, own).aliases = store.aliases
            BY DEF Both
        <3> QED
            BY <1>1, <3>1, OneMoreEntity
    <2>8. own.entities = {e} /\ own.aliases = {} /\ own.merges = {}
        OBVIOUS
    <2> HIDE DEF x, own
    <2>9. TickOK(x, own, store)
        BY <2>4, <2>5, <2>6, <2>7, <2>8 DEF TickOK
    <2> QED
        BY <2>2, <2>3, <2>8, <2>9, TickChanges
<1>9. CASE NameEntity(t)
    <2> DEFINE row == [name |-> tick[t].name, entity |-> tick[t].entity,
                       known |-> tick[t].cutoff, source |-> "capture"]
               own == [entities |-> mine[t].entities, aliases |-> {row}, merges |-> {}]
               x == At("done", tick[t].name, tick[t].cutoff, row.entity)
    <2>1. tick[t].at = "name" /\ UNCHANGED <<store, backfill, captured, uses, proofs>> /\ ~AliasLocked(t, row.name)
        BY <1>9 DEF NameEntity
    <2>2. /\ mine[t].entities = {row.entity} /\ row.entity.birth = row.name /\ mine[t].aliases = {} /\ mine[t].merges = {}
          /\ Sound(v) /\ mine[t] \in Rows
        BY <1>1, <2>1 DEF TickOK, View
    <2>3. CASE Abandon(t)
        BY <1>5, <2>1, <2>3
    <2>4. CASE AliasAllowed(v, row) /\ mine' = [mine EXCEPT ![t] = Both(@, [NoRows EXCEPT !.aliases = {row}])]
               /\ Goes(t, "done", row.entity)
        <3>1. mine' = [mine EXCEPT ![t] = own]
            <4>1. Both(mine[t], [NoRows EXCEPT !.aliases = {row}]) = own
                BY <2>2 DEF Both, NoRows
            <4> QED
                BY <2>4, <4>1
        <3>2. tick' = [tick EXCEPT ![t] = x]
            BY <2>4 DEF Goes
        <3>3. x \in TickState /\ x.at = "done" /\ x.entity = row.entity /\ x.name = row.name /\ row \in Alias
              /\ row.known \in Times
            BY <1>1 DEF At, TickState, Alias
        <3>4. own \in Rows /\ own.merges = {} /\ own.aliases = {row} /\ own.entities = {row.entity}
            BY <2>2, <3>3 DEF Rows
        <3> DEFINE w == Both(store, own)
        <3>5. /\ w.entities = v.entities /\ w.merges = v.merges /\ w.aliases = v.aliases \cup {row}
              /\ w.entities = store.entities \cup {row.entity} /\ Part(store, w)
            BY <2>2 DEF Both, View, Part
        <3>6. row.entity \in v.entities
            BY <3>5
        <3> HIDE DEF w, own, x, v, row
        <3>7. Sound(w)
            BY <2>2, <2>4, <3>3, <3>5, <3>6, OneMoreAlias
        <3>8. Carries(w, row.name, row.entity)
            BY <3>5 DEF Carries, Merged
        <3>9. Named(w)
            <4>1. \A e \in store.entities : Carries(w, e.birth, e)
                BY <1>1, <3>5, <3>7, StayCarried DEF Named, Sound
            <4> QED
                BY <2>2, <3>5, <3>8, <4>1 DEF Named
        <3>10. TickOK(x, own, store)
            BY <3>3, <3>4, <3>5, <3>6, <3>7, <3>8, <3>9 DEF TickOK, w
        <3>11. \A b \in Actors \ {t} : \A r \in own.aliases, o \in mine[b].aliases : r.name # o.name
            BY <2>1, <3>4 DEF AliasLocked
        <3> QED
            BY <2>1, <3>1, <3>2, <3>10, <3>11, TickChanges
    <2> QED
        BY <1>9, <2>3, <2>4 DEF NameEntity
<1>10. CASE TickFails(t)
    BY <1>5, <1>10 DEF TickFails
<1> QED
    BY <1>6, <1>7, <1>8, <1>9, <1>10

\* Both the tick's capture and its rows become visible.
LEMMA TickCommits == ASSUME IdentityInv, NEW t \in Ticks, CommitTick(t) PROVE IdentityInv'
<1> DEFINE own == mine[t]
           s == Both(store, own)
<1>1. /\ mine \in [Actors -> Rows] /\ tick \in [Ticks -> TickState] /\ store \in Rows /\ StoreOK(store)
      /\ TickOK(tick[t], own, store) /\ t \in Actors /\ t # Job /\ Job \in Actors
    BY ActorsAssumption DEF IdentityInv, StoreOK, Actors
<1>2. /\ store' = s /\ tick' = [tick EXCEPT ![t] = IdleTick] /\ mine' = [mine EXCEPT ![t] = NoRows]
      /\ captured' = captured \cup {<<tick[t].name, tick[t].entity>>} /\ UNCHANGED <<backfill, uses, proofs>>
    BY DEF CommitTick, Abandon, View
<1>3. /\ own \in Rows /\ own.merges = {} /\ Sound(s) /\ Named(s) /\ tick[t].entity \in s.entities
      /\ Carries(s, tick[t].name, tick[t].entity)
    BY <1>1 DEF CommitTick, TickOK
<1>4. s \in Rows /\ Part(store, s)
    BY <1>1, <1>3 DEF Both, Rows, Part
<1>5. StoreOK(s)
    BY <1>3, <1>4 DEF StoreOK
<1> HIDE DEF s
<1>6. ASSUME NEW b \in Actors, b # t
      PROVE  mine'[b] = mine[b] /\ \A r \in own.aliases, o \in mine[b].aliases : r.name # o.name
    BY <1>1, <1>2, <1>6 DEF IdentityInv, AliasLocks
<1>7. ASSUME NEW u \in Ticks PROVE TickOK(tick'[u], mine'[u], store')
    <2>1. CASE u = t
        BY <1>1, <1>2, <1>5, <2>1, RestingOK
    <2>2. CASE u # t
        <3>1. u \in Actors /\ tick'[u] = tick[u] /\ TickOK(tick[u], mine[u], store)
            BY <1>1, <1>2, <2>2 DEF IdentityInv, Actors
        <3>2. TickOK(tick[u], mine[u], Both(store, own))
            BY <1>1, <1>3, <1>6, <2>2, <3>1, TickGrows DEF s
        <3> QED
            BY <1>2, <1>6, <2>2, <3>1, <3>2 DEF s
    <2> QED
        BY <2>1, <2>2
<1>8. JobOK(backfill', mine'[Job], store')
    <2>1. JobOK(backfill, mine[Job], Both(store, own))
        BY <1>1, <1>3, <1>6, JobGrows DEF s, IdentityInv
    <2> QED
        BY <1>1, <1>2, <1>6, <2>1 DEF s
<1>9. CapturedOK(store)'
    <2>1. \A c \in captured : c[2] \in s.entities /\ Carries(s, c[1], c[2])
        BY <1>1, <1>3, <1>4, StayCarried DEF IdentityInv, CapturedOK, StoreOK, Part, Sound
    <2> QED
        BY <1>2, <1>3, <2>1 DEF CapturedOK
<1>10. NoRows \in Rows /\ IdleTick \in TickState /\ NoRows.aliases = {}
    BY <1>5, RestingOK DEF TickOK, NoRows
<1>11. mine' \in [Actors -> Rows] /\ tick' \in [Ticks -> TickState]
    BY <1>1, <1>2, <1>10
<1>12. AliasLocks'
    BY <1>1, <1>2, <1>10 DEF IdentityInv, AliasLocks
<1> QED
    BY <1>2, <1>5, <1>7, <1>8, <1>9, <1>11, <1>12 DEF IdentityInv
-----------------------------------------------------------------------------
(* The steps of the backfill.                                                *)

\* A time of a set of times that none is before, and one that none is after.
LEMMA FirstAndLast ==
    ASSUME NEW S \in SUBSET Times, S # {}
    PROVE  Min(S) \in S /\ Max(S) \in S /\ \E x \in S : \A y \in S : x <= y
<1>1. S \in SUBSET Nat /\ MaxTime \in Nat
    BY ActorsAssumption DEF Times
<1>2. PICK x \in S : \A y \in S : x <= y
    BY <1>1, Least
<1> DEFINE T == {MaxTime - y : y \in S}
<1>3. T \in SUBSET Nat /\ T # {}
    BY <1>1 DEF Times
<1>4. PICK z \in T : \A y \in T : z <= y
    BY <1>3, Least
<1>5. PICK u \in S : z = MaxTime - u
    BY <1>4
<1>6. \A y \in S : u >= y
    <2>1. \A y \in S : MaxTime - u <= MaxTime - y
        BY <1>4, <1>5
    <2> QED
        BY <1>1, <1>5, <2>1
<1>7. Min(S) \in S
    BY <1>2 DEF Min
<1>8. Max(S) \in S
    BY <1>5, <1>6 DEF Max
<1> QED
    BY <1>2, <1>7, <1>8

\* The claim of an id is one of its uses.
LEMMA UseClaimIs ==
    ASSUME uses \subseteq Uses, NEW n \in Used
    PROVE  UseClaim(n) \in Claim /\ UseClaim(n).source # "crosswalk"
<1> DEFINE of == {u \in uses : u.name = n}
           S == {u.known : u \in of}
<1>1. \A u \in of : u \in Claim /\ u.source # "crosswalk"
    BY UsesAssumption DEF Claim, Names, Times
<1>2. S \in SUBSET Times /\ S # {}
    BY <1>1 DEF Used, Claim
<1>3. PICK k \in S : \A l \in S : k <= l
    BY <1>2, FirstAndLast
<1>4. \E u \in of : \A o \in of : u.known <= o.known
    BY <1>3
<1>5. UseClaim(n) \in of
    BY <1>4 DEF UseClaim
<1> QED
    BY <1>1, <1>5

\* What the plan of a run is made of.
LEMMA PlanIs ==
    ASSUME uses \subseteq Uses, proofs \subseteq Times
    PROVE  \A component \in Plan : component \in SUBSET Claim /\ Proper(component)
<1>1. \A n \in Used : UseClaim(n) \in Claim /\ UseClaim(n).source # "crosswalk"
    BY UseClaimIs
<1>2. CASE Linked
    <2> DEFINE claims == {UseClaim(n) : n \in Used} \cup CrosswalkClaims
    <2>1. Min(proofs) \in Times
        BY <1>2, FirstAndLast DEF Linked
    <2>2. CrosswalkClaims \in SUBSET Claim
        BY <2>1 DEF CrosswalkClaims, Claim, Names
    <2>3. claims \in SUBSET Claim
        BY <1>1, <2>2
    <2>4. claims # {} => Used # {}
        BY DEF CrosswalkClaims
    <2>5. claims # {} => Proper(claims)
        BY <1>1, <2>4 DEF Proper
    <2>6. Plan = {claims} \ {{}}
        BY <1>2 DEF Plan
    <2> HIDE DEF claims
    <2> QED
        BY <2>3, <2>5, <2>6
<1>3. CASE ~Linked
    <2>1. Plan = {{UseClaim(n)} : n \in Used}
        BY <1>3 DEF Plan
    <2> QED
        BY <1>1, <2>1 DEF Proper
<1> QED
    BY <1>2, <1>3

\* A component is named after one of its own claims.
LEMMA BirthNameIs ==
    ASSUME NEW component \in SUBSET Claim, Proper(component)
    PROVE  BirthName(component) \in Names /\ \E c \in component : c.name = BirthName(component)
<1> DEFINE own == {c \in component : c.source # "crosswalk"}
           first == {c \in own : \A o \in own : c.known <= o.known}
           S == {c.known : c \in own}
<1>1. S \in SUBSET Times /\ S # {}
    BY DEF Proper, Claim
<1>2. PICK k \in S : \A l \in S : k <= l
    BY <1>1, FirstAndLast
<1>3. PICK c \in first : TRUE
    BY <1>2
<1>4. c \in component /\ c.name \in {Lei, Cik}
    BY <1>3 DEF Claim, Names
<1>5. BirthName(component) = IF \E x \in first : x.name = Cik THEN Cik ELSE Lei
    BY DEF BirthName
<1>6. CASE \E x \in first : x.name = Cik
    BY <1>5, <1>6 DEF Names
<1>7. CASE ~\E x \in first : x.name = Cik
    BY <1>3, <1>4, <1>5, <1>7 DEF Names
<1> QED
    BY <1>6, <1>7

\* The run begins: the map holds the survivor of every committed entity.
LEMMA RunStarts == ASSUME IdentityInv, StartRun PROVE IdentityInv'
<1> DEFINE map == [e \in store.entities |-> Survivor(store, e, Forever)]
           b == [IdleJob EXCEPT !.at = "next", !.linked = Linked /\ Used = Names, !.todo = Plan, !.map = map]
<1>1. /\ mine \in [Actors -> Rows] /\ StoreOK(store) /\ JobOK(backfill, mine[Job], store) /\ Job \in Actors
      /\ store \in Rows /\ Sound(store) /\ Named(store) /\ Forest(store)
    BY DEF IdentityInv, StoreOK, Actors, Sound
<1>2. mine[Job] = NoRows /\ Both(store, NoRows) = store /\ NoRows \in Rows /\ NoRows.aliases = {}
    BY <1>1, NothingMore DEF StartRun, JobOK, NoRows
<1>3. backfill' = b /\ mine' = [mine EXCEPT ![Job] = NoRows] /\ UNCHANGED <<store, tick, captured, uses, proofs>>
    <2>1. mine = [mine EXCEPT ![Job] = NoRows]
        BY <1>1, <1>2
    <2> QED
        BY <2>1 DEF StartRun
<1>4. \A e \in store.entities : /\ Survivor(store, e, Forever) \in store.entities
                                /\ Survivor(store, Survivor(store, e, Forever), Forever) = Survivor(store, e, Forever)
    <2>1. Forever \in Int /\ Forever <= Forever
        BY ActorsAssumption DEF Forever
    <2> QED
        BY <1>1, <2>1, ChainEnds, ChainGrows
<1>5. map \in Maps /\ Knows(map, store)
    <2>1. store.entities \in SUBSET Entity /\ map \in [store.entities -> Entity]
        BY <1>1, <1>4 DEF Rows
    <2>2. map \in Maps
        BY <2>1 DEF Maps
    <2> QED
        BY <1>4, <2>2 DEF Knows, Merged
<1>6. /\ IdleJob \in JobState /\ IdleJob.saved = NoRows /\ IdleJob.savedMap = NoMap /\ Knows(NoMap, store)
    BY <1>1, <1>2, RestingOK DEF JobOK, IdleJob
<1>7. Plan \in SUBSET SUBSET Claim /\ \A c \in Plan : Proper(c)
    BY PlanIs DEF IdentityInv
<1>8. (Linked /\ Used = Names) \in BOOLEAN
    OBVIOUS
<1> HIDE DEF map
<1>9. /\ b \in JobState /\ b.at = "next" /\ b.todo = Plan /\ b.map = map /\ b.saved = NoRows /\ b.savedMap = NoMap
    BY <1>5, <1>6, <1>7, <1>8 DEF JobState
<1> HIDE DEF b
<1>10. JobOK(b, NoRows, store)
    BY <1>1, <1>2, <1>5, <1>6, <1>7, <1>9 DEF JobOK, Part
<1> QED
    BY <1>2, <1>3, <1>10, JobChanges

\* The merge of a component's entities: the map follows the new edges.
LEMMA ComponentMerges ==
    ASSUME NEW v, Sound(v), Named(v), NEW map \in Maps, Knows(map, v), NEW X \in SUBSET v.entities, NEW x \in X,
           NEW k \in Times, \A e \in X \ {x} : MergeAllowed(v, [from |-> e, to |-> x, known |-> k]),
           NEW w, w.entities = v.entities, w.aliases = v.aliases,
           w.merges = v.merges \cup {[from |-> e, to |-> x, known |-> k] : e \in X \ {x}}
    PROVE  /\ Sound(w) /\ Named(w)
           /\ Knows([e \in DOMAIN map |-> IF map[e] \in X THEN x ELSE map[e]], w)
<1>1. Forest(v) /\ Forever \in Int /\ Forever <= Forever /\ k <= Forever
    BY ActorsAssumption DEF Sound, Forever, Times
<1>2. Forest(w)
    <2> DEFINE E == X \ {x}
    <2>1. E \in SUBSET v.entities /\ x \in v.entities
        OBVIOUS
    <2>2. \A e \in E : Survivor(v, e, Forever) = e /\ Survivor(v, x, Forever) # e
        BY DEF MergeAllowed
    <2>3. \A m \in w.merges : m \in v.merges \/ \E e \in E : m = [from |-> e, to |-> x, known |-> k]
        OBVIOUS
    <2> HIDE DEF E
    <2>4. Joins(v, w, E, x)
        BY <2>1, <2>2, <2>3 DEF Joins
    <2> QED
        BY <1>1, <2>4, MoreMerges
<1>3. Part(v, w)
    BY DEF Part
<1>4. Sound(w)
    <2>1. \A r, o \in v.aliases : r.entity \in w.entities /\ r.known \in Times
                                 /\ (r.name = o.name => Merged(w, r.entity, o.entity, AsOf(r, o)))
        BY <1>2, <1>3, StaySound
    <2> QED
        BY <1>2, <2>1 DEF Sound
<1>5. Named(w)
    BY <1>2, <1>3, StayCarried DEF Named
<1>6. Knows(map, w)
    BY <1>1, <1>2, <1>3, StayKnown
<1>7. ASSUME NEW e \in X PROVE Merged(w, x, e, Forever)
    <2>1. CASE e = x
        BY <2>1 DEF Merged
    <2>2. CASE e # x
        <3> DEFINE m == [from |-> e, to |-> x, known |-> k]
        <3>1. m \in w.merges /\ e \in w.entities
            BY <2>2
        <3>2. m.from = e /\ m.known <= Forever /\ m.to = x
            BY <1>1
        <3> HIDE DEF m
        <3>3. Successor(w, e, Forever) = x
            BY <1>1, <1>2, <3>1, <3>2, SuccessorIs
        <3> QED
            BY <1>1, <1>2, <3>1, <3>3, ChainThrough DEF Merged
    <2> QED
        BY <2>1, <2>2
<1> DEFINE new == [e \in DOMAIN map |-> IF map[e] \in X THEN x ELSE map[e]]
<1>8. \A e \in DOMAIN map : e \in w.entities /\ new[e] \in w.entities /\ Merged(w, new[e], e, Forever)
    BY <1>6, <1>7 DEF Knows, Merged
<1> QED
    BY <1>4, <1>5, <1>8 DEF Knows

LEMMA ComponentTaken == ASSUME IdentityInv, TakeComponent PROVE IdentityInv'
<1> DEFINE own == mine[Job]
           v == View(Job)
<1>1. /\ mine \in [Actors -> Rows] /\ Job \in Actors /\ store \in Rows /\ own \in Rows /\ JobOK(backfill, own, store)
      /\ backfill \in JobState /\ backfill.at = "next" /\ UNCHANGED <<store, tick, captured, uses, proofs>>
    BY DEF IdentityInv, StoreOK, Actors, TakeComponent, JobOK
<1>2. /\ v = Both(store, own) /\ Sound(v) /\ Named(v) /\ Forest(v) /\ Knows(backfill.map, v) /\ backfill.map \in Maps
      /\ v \in Rows
    <2>1. v = Both(store, own)
        BY DEF View
    <2>2. v \in Rows
        BY <1>1, <2>1 DEF Both, Rows
    <2> QED
        BY <1>1, <2>1, <2>2 DEF JobOK, JobState, Sound
<1>3. \A t \in Ticks : \A r \in own.aliases, o \in mine[t].aliases : r.name # o.name
    BY <1>1, ActorsAssumption DEF IdentityInv, AliasLocks, Actors
<1>4. mine = [mine EXCEPT ![Job] = own]
    BY <1>1
<1>5. PICK component \in backfill.todo :
        LET existing == Existing(component)
            rank(e) == Preferred(e, component)
            known == Max({c.known : c \in component})
            edges(survivor) == {[from |-> e, to |-> survivor, known |-> known] : e \in existing \ {survivor}}
            saved == [backfill EXCEPT !.component = component, !.left = component,
                                      !.saved = mine[Job], !.savedMap = backfill.map]
        IN  \/ /\ existing = {}
               /\ backfill' = [saved EXCEPT !.at = "mint"]
               /\ UNCHANGED mine
            \/ \E survivor \in existing :
                  /\ \A o \in existing : rank(survivor) <= rank(o)
                  /\ \/ /\ \A m \in edges(survivor) : MergeAllowed(View(Job), m)
                        /\ mine' = [mine EXCEPT ![Job].merges = @ \cup edges(survivor)]
                        /\ backfill' = [saved EXCEPT !.at = "insert", !.survivor = survivor,
                              !.map = [e \in DOMAIN @ |-> IF @[e] \in existing THEN survivor ELSE @[e]]]
                     \/ /\ \E m \in edges(survivor) : ~MergeAllowed(View(Job), m)
                        /\ backfill' = [backfill EXCEPT !.todo = @ \ {component}]
                        /\ UNCHANGED mine
    BY DEF TakeComponent
<1> DEFINE existing == Existing(component)
           known == Max({c.known : c \in component})
           edges(x) == {[from |-> e, to |-> x, known |-> known] : e \in existing \ {x}}
           saved == [backfill EXCEPT !.component = component, !.left = component,
                                     !.saved = own, !.savedMap = backfill.map]
<1>6. component \in SUBSET Claim /\ Proper(component) /\ known \in Times
    <2>1. component \in SUBSET Claim /\ Proper(component)
        BY <1>1, <1>5 DEF JobOK, JobState
    <2>2. {c.known : c \in component} \in SUBSET Times /\ {c.known : c \in component} # {}
        BY <2>1 DEF Claim, Proper
    <2>3. known \in {c.known : c \in component}
        BY <2>2, FirstAndLast
    <2> QED
        BY <2>1, <2>2, <2>3
<1>7. existing \in SUBSET v.entities /\ v.entities \in SUBSET Entity
    BY <1>2 DEF Existing, Knows, Rows
<1>8. /\ saved \in JobState /\ saved.todo = backfill.todo /\ saved.component = component /\ saved.left = component
      /\ saved.saved = own /\ saved.savedMap = backfill.map /\ saved.map = backfill.map
    BY <1>1, <1>2, <1>6 DEF JobState
<1>9. Part(own, own) /\ \A c \in backfill.todo : Proper(c)
    BY <1>1 DEF Part, JobOK
<1> HIDE DEF saved, existing, known, v
<1>10. CASE backfill' = [saved EXCEPT !.at = "mint"] /\ UNCHANGED mine
    <2> DEFINE b == [saved EXCEPT !.at = "mint"]
    <2>1. /\ b \in JobState /\ b.at = "mint" /\ b.todo = backfill.todo /\ b.component = component /\ b.left = component
          /\ b.saved = own /\ b.savedMap = backfill.map /\ b.map = backfill.map
        BY <1>8 DEF JobState
    <2>2. backfill' = b /\ mine' = [mine EXCEPT ![Job] = own]
        BY <1>4, <1>10
    <2> HIDE DEF b
    <2>3. JobOK(b, own, store)
        BY <1>1, <1>2, <1>6, <1>9, <2>1 DEF JobOK
    <2> QED
        BY <1>1, <1>3, <2>2, <2>3, JobChanges
<1>11. ASSUME NEW x \in existing, \A m \in edges(x) : MergeAllowed(View(Job), m),
              mine' = [mine EXCEPT ![Job].merges = @ \cup edges(x)],
              backfill' = [saved EXCEPT !.at = "insert", !.survivor = x,
                              !.map = [e \in DOMAIN @ |-> IF @[e] \in existing THEN x ELSE @[e]]]
       PROVE  IdentityInv'
    <2> DEFINE map == [e \in DOMAIN backfill.map |-> IF backfill.map[e] \in existing THEN x ELSE backfill.map[e]]
               b == [saved EXCEPT !.at = "insert", !.survivor = x, !.map = map]
               new == [own EXCEPT !.merges = own.merges \cup edges(x)]
               w == Both(store, new)
    <2>1. backfill' = b /\ mine' = [mine EXCEPT ![Job] = new]
        BY <1>1, <1>8, <1>11
    <2>2. x \in v.entities /\ x \in Entity
        BY <1>7, <1>11
    <2>3. map \in Maps
        <3>1. DOMAIN backfill.map \in SUBSET Entity /\ backfill.map \in [DOMAIN backfill.map -> Entity]
            BY <1>2 DEF Maps
        <3>2. map \in [DOMAIN backfill.map -> Entity]
            BY <2>2, <3>1
        <3> QED
            BY <3>1, <3>2 DEF Maps
    <2>4. edges(x) \in SUBSET [from : Entity, to : Entity, known : Times]
        BY <1>6, <1>7, <2>2
    <2>5. /\ new \in Rows /\ new.entities = own.entities /\ new.aliases = own.aliases
          /\ new.merges = own.merges \cup edges(x)
        BY <1>1, <2>4 DEF Rows
    <2>6. w.entities = v.entities /\ w.aliases = v.aliases /\ w.merges = v.merges \cup edges(x)
        BY <1>2, <2>5 DEF Both
    <2>7. Part(own, new)
        BY <2>5 DEF Part
    <2>8. \A e \in existing \ {x} : MergeAllowed(v, [from |-> e, to |-> x, known |-> known])
        BY <1>11 DEF v
    <2> HIDE DEF map
    <2>9. b \in JobState /\ b.at = "insert" /\ b.survivor = x /\ b.map = map /\ b.todo = backfill.todo
          /\ b.saved = own /\ b.savedMap = backfill.map
        BY <1>8, <2>2, <2>3 DEF JobState
    <2> HIDE DEF new, w, b
    <2>10. Sound(w) /\ Named(w) /\ Knows(map, w)
        BY <1>2, <1>6, <1>7, <1>11, <2>6, <2>8, ComponentMerges DEF map
    <2>11. JobOK(b, new, store)
        BY <1>2, <1>9, <2>2, <2>5, <2>6, <2>7, <2>9, <2>10 DEF JobOK, w, Named
    <2>12. \A t \in Ticks : \A r \in new.aliases, o \in mine[t].aliases : r.name # o.name
        BY <1>3, <2>5
    <2>13. UNCHANGED <<store, tick, captured, uses, proofs>>
        BY <1>1
    <2> QED
        BY <2>1, <2>11, <2>12, <2>13, JobChanges
<1>12. CASE backfill' = [backfill EXCEPT !.todo = @ \ {component}] /\ UNCHANGED mine
    <2> DEFINE b == [backfill EXCEPT !.todo = backfill.todo \ {component}]
    <2>1. /\ b \in JobState /\ b.at = "next" /\ b.todo = backfill.todo \ {component} /\ b.saved = backfill.saved
          /\ b.savedMap = backfill.savedMap /\ b.map = backfill.map
        BY <1>1 DEF JobState
    <2>2. backfill' = b /\ mine' = [mine EXCEPT ![Job] = own]
        BY <1>1, <1>4, <1>12
    <2> HIDE DEF b
    <2>3. JobOK(b, own, store)
        BY <1>1, <2>1 DEF JobOK
    <2> QED
        BY <1>1, <1>3, <2>2, <2>3, JobChanges
<1> QED
    BY <1>5, <1>10, <1>11, <1>12 DEF saved, existing, known

LEMMA ComponentMinted == ASSUME IdentityInv, MintComponent PROVE IdentityInv'
<1> DEFINE own == mine[Job]
           v == View(Job)
           n == BirthName(backfill.component)
           e == Minted(v, n, "legacy")
           map == [x \in DOMAIN backfill.map \cup {e} |-> IF x = e THEN e ELSE backfill.map[x]]
           b == [backfill EXCEPT !.at = "insert", !.survivor = e, !.map = map]
           new == [own EXCEPT !.entities = own.entities \cup {e}]
           w == Both(store, new)
<1>1. /\ mine \in [Actors -> Rows] /\ Job \in Actors /\ store \in Rows /\ own \in Rows /\ JobOK(backfill, own, store)
      /\ backfill \in JobState /\ backfill.at = "mint" /\ UNCHANGED <<store, tick, captured, uses, proofs>>
    BY DEF IdentityInv, StoreOK, Actors, MintComponent, JobOK
<1>2. /\ v = Both(store, own) /\ Sound(v) /\ Named(v) /\ Forest(v) /\ Knows(backfill.map, v) /\ backfill.map \in Maps
      /\ backfill.component \in SUBSET Claim /\ Proper(backfill.component) /\ backfill.left = backfill.component
    BY <1>1 DEF JobOK, JobState, Sound, View
<1>3. \A t \in Ticks : \A r \in own.aliases, o \in mine[t].aliases : r.name # o.name
    BY <1>1, ActorsAssumption DEF IdentityInv, AliasLocks, Actors
<1>4. n \in Names /\ \E c \in backfill.left : c.name = n
    BY <1>2, BirthNameIs
<1>5. e \in Entity /\ e.birth = n
    BY <1>2, <1>4, MintedIs DEF Forest
<1>6. backfill' = b /\ mine' = [mine EXCEPT ![Job] = new]
    BY <1>1 DEF MintComponent
<1> HIDE DEF e, n, v
<1>7. map \in Maps
    <2>1. DOMAIN backfill.map \in SUBSET Entity /\ backfill.map \in [DOMAIN backfill.map -> Entity]
        BY <1>2 DEF Maps
    <2>2. map \in [DOMAIN backfill.map \cup {e} -> Entity] /\ DOMAIN backfill.map \cup {e} \in SUBSET Entity
        BY <1>5, <2>1
    <2> QED
        BY <2>2 DEF Maps
<1>8. /\ new \in Rows /\ new.entities = own.entities \cup {e} /\ new.aliases = own.aliases /\ new.merges = own.merges
    BY <1>1, <1>5 DEF Rows
<1>9. w.entities = v.entities \cup {e} /\ w.aliases = v.aliases /\ w.merges = v.merges
    BY <1>2, <1>8 DEF Both
<1>10. Sound(w) /\ Part(v, w) /\ Forest(w)
    BY <1>2, <1>9, OneMoreEntity
<1>11. Knows(map, w)
    <2>1. Knows(backfill.map, w)
        BY <1>2, <1>10, StayKnown
    <2>2. e \in w.entities /\ Merged(w, e, e, Forever)
        BY <1>9 DEF Merged
    <2> QED
        BY <2>1, <2>2 DEF Knows
<1> HIDE DEF map
<1>12. b \in JobState /\ b.at = "insert" /\ b.survivor = e /\ b.map = map /\ b.todo = backfill.todo
       /\ b.saved = backfill.saved /\ b.savedMap = backfill.savedMap /\ b.left = backfill.left
    BY <1>1, <1>5, <1>7 DEF JobState
<1>13. \A x \in w.entities : Carries(w, x.birth, x) \/ (x = e /\ \E c \in backfill.left : c.name = x.birth)
    <2>1. \A x \in v.entities : Carries(w, x.birth, x)
        BY <1>2, <1>10, StayCarried DEF Named
    <2> QED
        BY <1>4, <1>5, <1>9, <2>1
<1> HIDE DEF b, new, w
<1>14. Part(backfill.saved, new)
    BY <1>1, <1>8 DEF JobOK, Part
<1>15. JobOK(b, new, store)
    BY <1>1, <1>8, <1>9, <1>10, <1>11, <1>12, <1>13, <1>14 DEF JobOK, w
<1>16. \A t \in Ticks : \A r \in new.aliases, o \in mine[t].aliases : r.name # o.name
    BY <1>3, <1>8
<1>17. UNCHANGED <<store, tick, captured, uses, proofs>>
    BY <1>1
<1> QED
    BY <1>6, <1>15, <1>16, <1>17, JobChanges

\* A claim of the component is written, or was there: its survivor has the id.
LEMMA ClaimInserted == ASSUME IdentityInv, InsertClaim PROVE IdentityInv'
<1> DEFINE own == mine[Job]
           v == View(Job)
           x == backfill.survivor
<1>1. /\ mine \in [Actors -> Rows] /\ Job \in Actors /\ store \in Rows /\ own \in Rows /\ JobOK(backfill, own, store)
      /\ backfill \in JobState /\ backfill.at = "insert"
    BY DEF IdentityInv, StoreOK, Actors, InsertClaim, JobOK
<1>2. UNCHANGED <<store, tick, captured, uses, proofs>>
    BY DEF InsertClaim
<1>3. /\ v = Both(store, own) /\ Sound(v) /\ Forest(v) /\ Knows(backfill.map, v) /\ x \in v.entities
      /\ \A e \in v.entities : Carries(v, e.birth, e) \/ (e = x /\ \E c \in backfill.left : c.name = e.birth)
    BY <1>1 DEF JobOK, Sound, View
<1>4. \A t \in Ticks : \A r \in own.aliases, o \in mine[t].aliases : r.name # o.name
    BY <1>1, ActorsAssumption DEF IdentityInv, AliasLocks, Actors
<1>5. PICK claim \in backfill.left :
        LET row == [name |-> claim.name, entity |-> backfill.survivor,
                    known |-> claim.known, source |-> claim.source]
            rest == backfill.left \ {claim}
            ahead == IF rest # {} THEN [backfill EXCEPT !.left = rest]
                     ELSE [backfill EXCEPT !.at = "next", !.todo = @ \ {backfill.component}]
        IN  \/ Held(claim) /\ backfill' = ahead /\ UNCHANGED mine
            \/ /\ ~Held(claim) /\ ~AliasLocked(Job, claim.name)
               /\ \/ /\ AliasAllowed(View(Job), row)
                     /\ mine' = [mine EXCEPT ![Job].aliases = @ \cup {row}]
                     /\ backfill' = ahead
                  \/ ~AliasAllowed(View(Job), row) /\ ComponentFails
    BY DEF InsertClaim
<1> DEFINE row == [name |-> claim.name, entity |-> x, known |-> claim.known, source |-> claim.source]
           rest == backfill.left \ {claim}
           more == [backfill EXCEPT !.left = rest]
           last == [backfill EXCEPT !.at = "next", !.todo = backfill.todo \ {backfill.component}]
           ahead == IF rest # {} THEN more ELSE last
<1>6. /\ more \in JobState /\ more.at = "insert" /\ more.left = rest /\ more.survivor = x /\ more.map = backfill.map
      /\ more.saved = backfill.saved /\ more.savedMap = backfill.savedMap /\ more.todo = backfill.todo
    BY <1>1 DEF JobState
<1>7. /\ last \in JobState /\ last.at = "next" /\ last.map = backfill.map /\ last.saved = backfill.saved
      /\ last.savedMap = backfill.savedMap /\ last.todo = backfill.todo \ {backfill.component}
    BY <1>1 DEF JobState
<1> HIDE DEF v, more, last
<1>8. ASSUME NEW new \in Rows, Part(own, new), Sound(Both(store, new)), Part(v, Both(store, new)),
             Both(store, new).entities = v.entities, Carries(Both(store, new), claim.name, x)
      PROVE  JobOK(ahead, new, store)
    <2> DEFINE w == Both(store, new)
    <2>1. Forest(w) /\ Knows(backfill.map, w)
        BY <1>3, <1>8, StayKnown DEF Sound
    <2>2. Part(backfill.saved, new)
        BY <1>1, <1>8 DEF JobOK, Part
    <2>3. \A e \in w.entities : Carries(w, e.birth, e) \/ (e = x /\ \E c \in rest : c.name = e.birth)
        <3>1. SUFFICES ASSUME NEW e \in v.entities PROVE Carries(w, e.birth, e) \/ (e = x /\ \E c \in rest : c.name = e.birth)
            BY <1>8
        <3>2. CASE Carries(v, e.birth, e)
            BY <1>3, <1>8, <2>1, <3>2, StayCarried
        <3>3. CASE e = x /\ \E c \in backfill.left : c.name = e.birth
            BY <1>8, <3>3
        <3> QED
            BY <1>3, <3>2, <3>3
    <2>4. x \in w.entities
        BY <1>3, <1>8
    <2> HIDE DEF w
    <2>5. CASE rest # {}
        <3>1. JobOK(more, new, store)
            BY <1>1, <1>6, <1>8, <2>1, <2>2, <2>3, <2>4 DEF JobOK, w
        <3> QED
            BY <2>5, <3>1
    <2>6. CASE rest = {}
        <3>1. Named(w)
            BY <2>3, <2>6 DEF Named
        <3>2. JobOK(last, new, store)
            BY <1>1, <1>7, <1>8, <2>1, <2>2, <3>1 DEF JobOK, w
        <3> QED
            BY <2>6, <3>2
    <2> QED
        BY <2>5, <2>6
<1> HIDE DEF ahead
<1>9. CASE Held(claim) /\ backfill' = ahead /\ UNCHANGED mine
    <2>1. PICK r \in v.aliases : r.name = claim.name /\ r.entity \in DOMAIN backfill.map /\ backfill.map[r.entity] = x
        BY <1>9 DEF Held, v
    <2>2. Carries(v, claim.name, x)
        BY <1>3, <2>1 DEF Carries, Knows, Merged
    <2>3. Part(own, own) /\ Part(v, v)
        BY DEF Part
    <2>4. JobOK(ahead, own, store)
        BY <1>1, <1>3, <1>8, <2>2, <2>3
    <2>5. mine' = [mine EXCEPT ![Job] = own]
        BY <1>1, <1>9
    <2>6. backfill' = ahead
        BY <1>9
    <2> QED
        BY <1>2, <1>4, <2>4, <2>5, <2>6, JobChanges
<1>10. CASE /\ ~AliasLocked(Job, claim.name) /\ AliasAllowed(v, row)
            /\ mine' = [mine EXCEPT ![Job].aliases = @ \cup {row}] /\ backfill' = ahead
    <2> DEFINE new == [own EXCEPT !.aliases = own.aliases \cup {row}]
               w == Both(store, new)
    <2>1. mine' = [mine EXCEPT ![Job] = new] /\ backfill' = ahead
        BY <1>1, <1>10
    <2>2. row \in Alias /\ row.known \in Times /\ row.entity = x /\ row.name = claim.name
        BY <1>1, <1>5 DEF JobState, Claim, Alias
    <2>3. new \in Rows /\ new.entities = own.entities /\ new.aliases = own.aliases \cup {row} /\ new.merges = own.merges
        BY <1>1, <2>2 DEF Rows
    <2>4. w.entities = v.entities /\ w.merges = v.merges /\ w.aliases = v.aliases \cup {row} /\ Part(v, w)
        BY <1>3, <2>3 DEF Both, Part
    <2>5. Part(own, new)
        BY <2>3 DEF Part
    <2> HIDE DEF new, w, row
    <2>6. Sound(w)
        BY <1>3, <1>10, <2>2, <2>4, OneMoreAlias
    <2>7. Carries(w, claim.name, x)
        BY <2>2, <2>4 DEF Carries, Merged
    <2>8. JobOK(ahead, new, store)
        BY <1>8, <2>3, <2>4, <2>5, <2>6, <2>7 DEF w
    <2>9. \A t \in Ticks : \A r \in new.aliases, o \in mine[t].aliases : r.name # o.name
        <3>1. \A t \in Ticks : t \in Actors \ {Job}
            BY ActorsAssumption DEF Actors
        <3>2. \A t \in Ticks : \A o \in mine[t].aliases : row.name # o.name
            BY <1>10, <2>2, <3>1 DEF AliasLocked
        <3> QED
            BY <1>4, <2>3, <3>2
    <2> QED
        BY <1>2, <2>1, <2>8, <2>9, JobChanges
<1>11. CASE ComponentFails
    <2> DEFINE b == [backfill EXCEPT !.at = "next", !.map = backfill.savedMap,
                                     !.todo = backfill.todo \ {backfill.component}]
               old == backfill.saved
    <2>1. /\ b \in JobState /\ b.at = "next" /\ b.map = backfill.savedMap /\ b.saved = old
          /\ b.savedMap = backfill.savedMap /\ b.todo = backfill.todo \ {backfill.component}
        BY <1>1 DEF JobState
    <2>2. backfill' = b /\ mine' = [mine EXCEPT ![Job] = old]
        BY <1>1, <1>11 DEF ComponentFails
    <2>3. old \in Rows /\ Part(old, own) /\ Part(old, old)
        BY <1>1 DEF JobOK, JobState, Part
    <2> HIDE DEF b
    <2>4. JobOK(b, old, store)
        BY <1>1, <2>1, <2>3 DEF JobOK
    <2>5. \A t \in Ticks : \A r \in old.aliases, o \in mine[t].aliases : r.name # o.name
        BY <1>4, <2>3 DEF Part
    <2> QED
        BY <1>2, <2>2, <2>4, <2>5, JobChanges
<1> QED
    BY <1>5, <1>9, <1>10, <1>11 DEF ahead, more, last, v

\* All of the run's rows become visible; the ticks in flight keep theirs.
LEMMA RunCommits == ASSUME IdentityInv, CommitRun PROVE IdentityInv'
<1> DEFINE own == mine[Job]
           s == Both(store, own)
<1>1. /\ mine \in [Actors -> Rows] /\ tick \in [Ticks -> TickState] /\ store \in Rows /\ StoreOK(store)
      /\ JobOK(backfill, own, store) /\ Job \in Actors /\ \A t \in Ticks : t \in Actors /\ t # Job
    BY ActorsAssumption DEF IdentityInv, StoreOK, Actors
<1>2. /\ store' = s /\ backfill' = IdleJob /\ mine' = [mine EXCEPT ![Job] = NoRows]
      /\ UNCHANGED <<tick, captured, uses, proofs>>
    BY DEF CommitRun, View
<1>3. own \in Rows /\ Sound(s) /\ Named(s)
    BY <1>1 DEF CommitRun, JobOK
<1>4. s \in Rows /\ Part(store, s)
    BY <1>1, <1>3 DEF Both, Rows, Part
<1>5. StoreOK(s)
    BY <1>3, <1>4 DEF StoreOK
<1> HIDE DEF s
<1>6. ASSUME NEW u \in Ticks PROVE TickOK(tick'[u], mine'[u], store')
    <2>1. u \in Actors /\ u # Job /\ tick' = tick /\ TickOK(tick[u], mine[u], store) /\ mine'[u] = mine[u]
        BY <1>1, <1>2 DEF IdentityInv
    <2>2. \A r \in mine[u].aliases, o \in own.aliases : r.name # o.name
        BY <1>1, <2>1 DEF IdentityInv, AliasLocks
    <2>3. TickOK(tick[u], mine[u], Both(store, own))
        BY <1>1, <1>3, <2>1, <2>2, TickGrows DEF s
    <2> QED
        BY <1>2, <2>1, <2>3 DEF s
<1>7. JobOK(backfill', mine'[Job], store')
    BY <1>1, <1>2, <1>5, RestingOK
<1>8. CapturedOK(store)'
    <2>1. \A c \in captured : c[2] \in s.entities /\ Carries(s, c[1], c[2])
        BY <1>1, <1>3, <1>4, StayCarried DEF IdentityInv, CapturedOK, StoreOK, Part, Sound
    <2> QED
        BY <1>2, <2>1 DEF CapturedOK
<1>9. NoRows \in Rows /\ NoRows.aliases = {}
    BY <1>5, RestingOK DEF TickOK, NoRows
<1>10. mine' \in [Actors -> Rows]
    BY <1>1, <1>2, <1>9
<1>11. AliasLocks'
    BY <1>1, <1>2, <1>9 DEF IdentityInv, AliasLocks
<1> QED
    BY <1>1, <1>2, <1>5, <1>6, <1>7, <1>8, <1>10, <1>11 DEF IdentityInv

LEMMA RunDiesOK == ASSUME IdentityInv, RunDies PROVE IdentityInv'
<1>1. JobOK(IdleJob, NoRows, store) /\ NoRows.aliases = {}
    BY RestingOK DEF IdentityInv, NoRows
<1>2. /\ backfill' = IdleJob /\ mine' = [mine EXCEPT ![Job] = NoRows]
      /\ UNCHANGED <<store, tick, captured, uses, proofs>>
    BY DEF RunDies
<1>3. \A t \in Ticks : \A r \in NoRows.aliases, o \in mine[t].aliases : r.name # o.name
    BY <1>1
<1> QED
    BY <1>1, <1>2, <1>3, JobChanges

\* Evidence changes no row of the store.
LEMMA EvidenceArrives ==
    ASSUME IdentityInv, UNCHANGED <<store, mine, tick, backfill, captured>>, uses' \subseteq Uses, proofs' \subseteq Times
    PROVE  IdentityInv'
<1>1. AliasLocks' /\ CapturedOK(store)'
    BY DEF IdentityInv, AliasLocks, CapturedOK
<1> QED
    BY <1>1 DEF IdentityInv

LEMMA IdentityInvNext == IdentityInv /\ [Next]_vars => IdentityInv'
<1> SUFFICES ASSUME IdentityInv, [Next]_vars PROVE IdentityInv'
    OBVIOUS
<1>1. uses \subseteq Uses /\ proofs \subseteq Times
    BY DEF IdentityInv
<1>2. CASE StoreUse \/ StoreProof \/ StoreContradiction \/ UNCHANGED vars
    <2>1. UNCHANGED <<store, mine, tick, backfill, captured>>
        BY <1>2 DEF StoreUse, StoreProof, StoreContradiction, vars
    <2>2. uses' \subseteq Uses /\ proofs' \subseteq Times
        BY <1>1, <1>2 DEF StoreUse, StoreProof, StoreContradiction, vars
    <2> QED
        BY <2>1, <2>2, EvidenceArrives
<1> QED
    BY <1>2, TickSteps, TickCommits, RunStarts, ComponentTaken, ComponentMinted, ClaimInserted, RunCommits, RunDiesOK
    DEF Next

\* Two claims of an id that were knowable at a time name one entity at that time.
LEMMA SoundResolves ==
    ASSUME NEW v, Sound(v), NEW n, NEW k \in Times, NEW x \in Hits(v, n, k), NEW y \in Hits(v, n, k)
    PROVE  x = y
<1>1. PICK r \in v.aliases : r.name = n /\ r.known <= k /\ x = Survivor(v, r.entity, k)
    BY DEF Hits
<1>2. PICK o \in v.aliases : o.name = n /\ o.known <= k /\ y = Survivor(v, o.entity, k)
    BY DEF Hits
<1>3. /\ r.entity \in v.entities /\ o.entity \in v.entities /\ r.known \in Times /\ o.known \in Times
      /\ Merged(v, r.entity, o.entity, AsOf(r, o)) /\ Forest(v) /\ Part(v, v) /\ k \in Int
    BY <1>1, <1>2 DEF Sound, Part, Times
<1>4. AsOf(r, o) \in Int /\ AsOf(r, o) <= k
    BY <1>1, <1>2, <1>3, AsOfIs
<1>5. Merged(v, r.entity, o.entity, k)
    BY <1>3, <1>4, StayMerged
<1> QED
    BY <1>1, <1>2, <1>5 DEF Merged

\* entity_resolve never finds two entities for an id, as known at any time,
\* whatever capture ticks and the backfill have committed.
THEOREM IdResolvesToOne == Spec => []ResolvesToOne
<1>1. IdentityInv => ResolvesToOne
    <2> SUFFICES ASSUME IdentityInv, NEW n \in Names, NEW k \in Times
                 PROVE  Cardinality(Hits(store, n, k)) <= 1
        BY DEF ResolvesToOne
    <2>1. \A x, y \in Hits(store, n, k) : x = y
        BY SoundResolves DEF IdentityInv, StoreOK
    <2>2. CASE Hits(store, n, k) = {}
        BY <2>2, FS_EmptySet
    <2>3. CASE Hits(store, n, k) # {}
        <3>1. PICK x : x \in Hits(store, n, k)
            BY <2>3
        <3>2. Hits(store, n, k) = {x}
            BY <2>1, <3>1
        <3>3. Cardinality({x}) = 1
            BY FS_Singleton
        <3> QED
            BY <3>2, <3>3
    <2> QED
        BY <2>2, <2>3
<1> QED
    BY <1>1, IdentityInvInit, IdentityInvNext, PTL DEF Spec

\* The entity under which a capture was committed is, through merges, the entity
\* that its id names for a reader of today.
THEOREM CaptureKeepsItsId == Spec => []CapturedIdContinues
<1>1. IdentityInv => CapturedIdContinues
    <2> SUFFICES ASSUME IdentityInv, NEW c \in captured
                 PROVE  Hits(store, c[1], Forever) = {Survivor(store, c[2], Forever)}
        BY DEF CapturedIdContinues
    <2>1. Sound(store) /\ c[2] \in store.entities /\ Carries(store, c[1], c[2])
        BY DEF IdentityInv, StoreOK, CapturedOK
    <2>2. PICK r \in store.aliases : r.name = c[1] /\ Merged(store, r.entity, c[2], Forever)
        BY <2>1 DEF Carries
    <2>3. Forever \in Times /\ r.known <= Forever
        BY <2>1, <2>2, ActorsAssumption DEF Sound, Times, Forever
    <2>4. Survivor(store, c[2], Forever) \in Hits(store, c[1], Forever)
        BY <2>2, <2>3 DEF Hits, Merged
    <2>5. \A x \in Hits(store, c[1], Forever) : x = Survivor(store, c[2], Forever)
        BY <2>1, <2>3, <2>4, SoundResolves
    <2> QED
        BY <2>4, <2>5
<1> QED
    BY <1>1, IdentityInvInit, IdentityInvNext, PTL DEF Spec
-----------------------------------------------------------------------------
(* The stored price series of a symbol (market_prices.py, share_basis.py).   *)

\* An instance has its own name for the size of a set.
LEMMA PricesSize == \A S : Prices!Cardinality(S) = Cardinality(S)
BY DEF Prices!Cardinality, Cardinality

\* The level of an unadjusted close: the splits up to a session.
Level(S, d) == -Cardinality({s \in S : 0 < s /\ s <= d})

LEMMA LevelType ==
    ASSUME NEW S \in SUBSET Prices!Sessions, NEW d
    PROVE  Level(S, d) \in Int /\ Level(S, d) <= 0 /\ Level(S, d) # Prices!None
<1> DEFINE T == {s \in S : 0 < s /\ s <= d}
<1>1. IsFiniteSet(Prices!Sessions)
    BY FS_Interval, PricesAssumption DEF Prices!Sessions
<1>2. T \in SUBSET Prices!Sessions
    OBVIOUS
<1>3. Cardinality(T) \in Nat
    BY <1>1, <1>2, FS_Subset, FS_CardinalityType
<1> QED
    BY <1>3 DEF Level, Prices!None

LEMMA UnadjustedIs == \A d : Prices!Unadjusted(d) = Level(splits, d)
BY PricesSize DEF Prices!Unadjusted, Prices!Between, Level

LEMMA BetweenIs ==
    ASSUME splits \in SUBSET Prices!Sessions, NEW a \in Nat, NEW b \in Nat, a <= b
    PROVE  Prices!Between(a, b) = Level(splits, a) - Level(splits, b)
<1> DEFINE A == {s \in splits : 0 < s /\ s <= a}
           B == {s \in splits : 0 < s /\ s <= b}
           C == {s \in splits : a < s /\ s <= b}
<1>0. \A s \in splits : s \in Int /\ s > 0
    BY PricesAssumption DEF Prices!Sessions
<1>1. IsFiniteSet(Prices!Sessions)
    BY FS_Interval, PricesAssumption DEF Prices!Sessions
<1>2. A \in SUBSET Prices!Sessions /\ B \in SUBSET Prices!Sessions /\ C \in SUBSET Prices!Sessions
    OBVIOUS
<1>3. IsFiniteSet(A) /\ IsFiniteSet(B) /\ IsFiniteSet(C)
    BY <1>1, <1>2, FS_Subset
<1>4. Cardinality(A) \in Nat /\ Cardinality(B) \in Nat /\ Cardinality(C) \in Nat
    BY <1>3, FS_CardinalityType
<1>5. B = A \cup C /\ A \cap C = {}
    BY <1>0
<1>6. Cardinality(B) = Cardinality(A) + Cardinality(C)
    <2>1. Cardinality(A \cup C) = Cardinality(A) + Cardinality(C) - Cardinality(A \cap C)
        BY <1>3, FS_Union
    <2>2. Cardinality(A \cap C) = 0
        BY <1>5, FS_EmptySet
    <2> QED
        BY <1>4, <1>5, <2>1, <2>2
<1>7. Prices!Between(a, b) = Cardinality(C) /\ Level(splits, a) = -Cardinality(A) /\ Level(splits, b) = -Cardinality(B)
    BY PricesSize DEF Prices!Between, Level
<1> QED
    BY <1>4, <1>6, <1>7

SeriesBars == [Prices!Sessions -> Int]
StoringRun == [at : {"idle", "splits", "none", "insert"}, now : Int, alone : BOOLEAN,
               splits : SeriesBars, none : SeriesBars]

PriceTypes ==
    /\ splits \in SUBSET Prices!Sessions /\ closed \in Prices!Sessions /\ clean \in BOOLEAN
    /\ vendor \in [listed : Int, applied : Int] /\ vendor.listed <= closed
    /\ stored \in [splits : SeriesBars, none : SeriesBars]
    /\ storing \in [Runs -> StoringRun]
    /\ \A r \in Runs : storing[r].now <= closed

\* The bars x, of which none is later than session l and none is missing between
\* session f and another one.
NoGap(x, f, l) ==
    /\ \A d \in Prices!Sessions : x[d] # Prices!None => d <= l
    /\ \A d, e \in Prices!Sessions : f <= d /\ d <= e /\ x[e] # Prices!None => x[d] # Prices!None

\* From session f on, the adjusted bars x are on one basis.
OneLevel(x, f) ==
    \A d, e \in Prices!Sessions : f <= d /\ f <= e /\ x[d] # Prices!None /\ x[e] # Prices!None => x[d] = x[e]

\* Unadjusted bars are what the session closed at, of splits S.
AsClosed(S, x) == \A d \in Prices!Sessions : x[d] # Prices!None => x[d] = Level(S, d)

\* What is stored, whoever stored it, and more if no runs overlapped.
StoredOK ==
    /\ NoGap(stored.splits, closed - Lookback, vendor.listed) /\ NoGap(stored.none, closed - Lookback, vendor.listed)
    /\ AsClosed(splits, stored.none)
    /\ clean => OneLevel(stored.splits, closed - Lookback)

\* The answers a run q has.
AnswersOK(S, q, l) ==
    /\ NoGap(q.splits, q.now - Lookback, l) /\ NoGap(q.none, q.now - Lookback, l)
    /\ OneLevel(q.splits, q.now - Lookback) /\ AsClosed(S, q.none)

\* The answers of a run q that is alone replace every adjusted bar x has from its
\* floor on.
Replaces(x, q) ==
    /\ \A d \in Prices!Sessions : x[d] # Prices!None => d <= q.now
    /\ q.at \in {"none", "insert"} /\ q.splits # Prices!Empty =>
          \A d \in Prices!Sessions : q.now - Lookback <= d /\ x[d] # Prices!None => q.splits[d] # Prices!None

PriceInv ==
    /\ PriceTypes /\ StoredOK
    /\ \A r \in Runs : AnswersOK(splits, storing[r], vendor.listed)
    /\ \A r \in Runs : storing[r].alone => /\ Replaces(stored.splits, storing[r])
                                           /\ \A s \in Runs \ {r} : storing[s].at = "idle"

LEMMA EmptyBars == Prices!Empty \in SeriesBars /\ \A d \in Prices!Sessions : Prices!Empty[d] = Prices!None
BY DEF Prices!Empty, SeriesBars, Prices!None

LEMMA IdleRun ==
    /\ Prices!Idle \in StoringRun /\ Prices!Idle.at = "idle" /\ Prices!Idle.now = 0 /\ ~Prices!Idle.alone
    /\ Prices!Idle.splits = Prices!Empty /\ Prices!Idle.none = Prices!Empty
BY EmptyBars DEF Prices!Idle, StoringRun

LEMMA EmptyOK ==
    \A S, f, l : /\ NoGap(Prices!Empty, f, l) /\ OneLevel(Prices!Empty, f) /\ AsClosed(S, Prices!Empty)
BY EmptyBars DEF NoGap, OneLevel, AsClosed

LEMMA SessionInt == /\ Lookback \in Nat /\ MaxSession \in Nat
                    /\ \A d \in Prices!Sessions : d \in Nat /\ 1 <= d /\ d <= MaxSession
BY PricesAssumption DEF Prices!Sessions

LEMMA PriceInvInit == Prices!Init => PriceInv
<1> SUFFICES ASSUME Prices!Init PROVE PriceInv
    OBVIOUS
<1>1. closed = 1 /\ 1 \in Prices!Sessions
    BY PricesAssumption DEF Prices!Init, Prices!Sessions
<1>2. \A r \in Runs : storing[r] = Prices!Idle
    BY DEF Prices!Init
<1>3. PriceTypes
    BY <1>1, <1>2, EmptyBars, IdleRun DEF Prices!Init, PriceTypes
<1>4. StoredOK
    BY EmptyOK DEF StoredOK, Prices!Init
<1> QED
    BY <1>2, <1>3, <1>4, EmptyOK, IdleRun DEF PriceInv, AnswersOK

\* Bars stay without a gap when the vendor's list grows and the floor rises.
LEMMA Later ==
    ASSUME NEW x, NEW f \in Int, NEW g \in Int, NEW l \in Int, NEW m \in Int, f <= g, l <= m
    PROVE  /\ NoGap(x, f, l) => NoGap(x, g, m)
           /\ OneLevel(x, f) => OneLevel(x, g)
<1>1. \A d \in Prices!Sessions : d \in Int
    BY SessionInt
<1>2. NoGap(x, f, l) => NoGap(x, g, m)
    BY <1>1 DEF NoGap
<1>3. OneLevel(x, f) => OneLevel(x, g)
    BY <1>1 DEF OneLevel
<1> QED
    BY <1>2, <1>3

\* A session closes, or the vendor lists or restates one.
LEMMA PriceInvWorld ==
    ASSUME PriceInv, Prices!Close \/ Prices!VendorLists \/ Prices!VendorRestates
    PROVE  PriceInv'
<1>0. /\ closed \in Nat /\ 1 <= closed /\ closed <= MaxSession /\ vendor.listed \in Int /\ vendor.applied \in Int
      /\ vendor.listed <= closed /\ Lookback \in Nat /\ MaxSession \in Nat
    BY SessionInt DEF PriceInv, PriceTypes
<1>1. /\ UNCHANGED <<splits, stored, storing, clean>> /\ closed' \in Prices!Sessions /\ closed <= closed'
      /\ vendor' \in [listed : Int, applied : Int] /\ vendor.listed <= vendor'.listed /\ vendor'.listed <= closed'
    <2>1. CASE Prices!Close
        BY <1>0, <2>1 DEF Prices!Close, PriceInv, PriceTypes, Prices!Sessions
    <2>2. CASE Prices!VendorLists
        <3> DEFINE T == {vendor.applied, vendor.listed + 1}
        <3>1. Prices!Max(T) \in Int
            <4>1. \E x \in T : \A y \in T : x >= y
                BY <1>0
            <4> QED
                BY <1>0, <4>1 DEF Prices!Max
        <3> QED
            BY <1>0, <2>2, <3>1 DEF Prices!VendorLists, PriceInv, PriceTypes
    <2>3. CASE Prices!VendorRestates
        BY <1>0, <2>3 DEF Prices!VendorRestates, PriceInv, PriceTypes
    <2> QED
        BY <2>1, <2>2, <2>3
<1>2. closed' \in Int /\ vendor'.listed \in Int /\ closed - Lookback \in Int /\ closed' - Lookback \in Int
      /\ closed - Lookback <= closed' - Lookback
    BY <1>0, <1>1, SessionInt
<1>3. PriceTypes'
    <2>1. \A r \in Runs : storing[r].now \in Int /\ storing[r].now <= closed
        BY DEF PriceInv, PriceTypes, StoringRun
    <2> QED
        BY <1>0, <1>1, <1>2, <2>1 DEF PriceInv, PriceTypes
<1>4. StoredOK'
    BY <1>0, <1>1, <1>2, Later DEF PriceInv, StoredOK, AsClosed
<1>5. \A r \in Runs : AnswersOK(splits', storing'[r], vendor'.listed)
    <2> SUFFICES ASSUME NEW r \in Runs PROVE AnswersOK(splits, storing[r], vendor'.listed)
        BY <1>1
    <2>1. AnswersOK(splits, storing[r], vendor.listed) /\ storing[r].now - Lookback \in Int
        BY <1>0 DEF PriceInv, PriceTypes, StoringRun
    <2> QED
        BY <1>0, <1>1, <1>2, <2>1, Later DEF AnswersOK
<1> QED
    BY <1>1, <1>3, <1>4, <1>5 DEF PriceInv

\* A step of a run that leaves the rows alone.
LEMMA RunStep ==
    ASSUME PriceInv, NEW r \in Runs, NEW q \in StoringRun, storing' = [storing EXCEPT ![r] = q],
           UNCHANGED <<splits, closed, vendor, stored, clean>>,
           q.now <= closed, AnswersOK(splits, q, vendor.listed),
           q.alone => storing[r].alone /\ Replaces(stored.splits, q),
           storing[r].at # "idle"
    PROVE  PriceInv'
<1>1. \A s \in Runs : storing'[s] = IF s = r THEN q ELSE storing[s]
    BY DEF PriceInv, PriceTypes
<1>2. PriceTypes'
    BY <1>1 DEF PriceInv, PriceTypes
<1>3. StoredOK'
    BY DEF PriceInv, StoredOK, NoGap, OneLevel, AsClosed
<1>4. \A s \in Runs : AnswersOK(splits', storing'[s], vendor'.listed)
    BY <1>1 DEF PriceInv
<1>5. ASSUME NEW s \in Runs, storing'[s].alone
      PROVE  Replaces(stored'.splits, storing'[s]) /\ \A o \in Runs \ {s} : storing'[o].at = "idle"
    <2>1. CASE s = r
        BY <1>1, <1>5, <2>1 DEF PriceInv
    <2>2. CASE s # r
        BY <1>1, <1>5, <2>2 DEF PriceInv
    <2> QED
        BY <2>1, <2>2
<1> QED
    BY <1>2, <1>3, <1>4, <1>5 DEF PriceInv

\* A run starts; it is alone when no other is active, and others are no longer.
LEMMA PriceInvStart ==
    ASSUME PriceInv, NEW r \in Runs, Prices!Start(r)
    PROVE  PriceInv'
<1> DEFINE p == [Prices!Idle EXCEPT !.at = "splits", !.now = closed,
                                    !.alone = \A o \in Runs : storing[o].at = "idle"]
<1>0. closed \in Int /\ vendor.listed \in Int /\ vendor.listed <= closed /\ storing \in [Runs -> StoringRun]
    BY SessionInt DEF PriceInv, PriceTypes
<1>1. /\ \A s \in Runs : storing'[s] = IF s = r THEN p ELSE [storing[s] EXCEPT !.alone = FALSE]
      /\ storing' = [s \in Runs |-> IF s = r THEN p ELSE [storing[s] EXCEPT !.alone = FALSE]]
      /\ UNCHANGED <<splits, closed, vendor, stored, clean>>
    BY DEF Prices!Start
<1>2. /\ p \in StoringRun /\ p.at = "splits" /\ p.now = closed
      /\ p.splits = Prices!Empty /\ p.none = Prices!Empty
      /\ p.alone => \A o \in Runs : storing[o].at = "idle"
    <2>1. ASSUME NEW b \in BOOLEAN, NEW q \in StoringRun
          PROVE  LET n == [q EXCEPT !.at = "splits", !.now = closed, !.alone = b] IN
                 n \in StoringRun /\ n.at = "splits" /\ n.now = closed /\ n.alone = b
                 /\ n.splits = q.splits /\ n.none = q.none
        BY <1>0 DEF StoringRun
    <2>2. (\A o \in Runs : storing[o].at = "idle") \in BOOLEAN
        OBVIOUS
    <2> QED
        BY <2>1, <2>2, IdleRun
<1> HIDE DEF p
<1>3. ASSUME NEW s \in Runs, s # r
      PROVE  /\ storing'[s] \in StoringRun /\ storing'[s].at = storing[s].at /\ storing'[s].now = storing[s].now
             /\ storing'[s].splits = storing[s].splits /\ storing'[s].none = storing[s].none /\ ~storing'[s].alone
    BY <1>0, <1>1, <1>3 DEF StoringRun
<1>4. PriceTypes'
    <2>1. \A s \in Runs : storing'[s] \in StoringRun
        BY <1>1, <1>2, <1>3
    <2>2. storing' \in [Runs -> StoringRun]
        BY <1>1, <2>1
    <2>3. \A s \in Runs : storing'[s].now <= closed'
        BY <1>0, <1>1, <1>2, <1>3 DEF PriceInv, PriceTypes
    <2> QED
        BY <1>1, <2>2, <2>3 DEF PriceInv, PriceTypes
<1>5. StoredOK'
    BY <1>1 DEF PriceInv, StoredOK, NoGap, OneLevel, AsClosed
<1>6. \A s \in Runs : AnswersOK(splits', storing'[s], vendor'.listed)
    <2>1. AnswersOK(splits, p, vendor.listed)
        BY <1>2, EmptyOK DEF AnswersOK
    <2>2. ASSUME NEW s \in Runs, s # r PROVE AnswersOK(splits, storing'[s], vendor.listed)
        BY <1>3, <2>2 DEF PriceInv, AnswersOK
    <2> QED
        BY <1>1, <2>1, <2>2
<1>7. Replaces(stored.splits, p)
    <2>1. \A d \in Prices!Sessions : stored.splits[d] # Prices!None => d <= vendor.listed
        BY DEF PriceInv, StoredOK, NoGap
    <2> QED
        BY <1>0, <1>2, <2>1, SessionInt DEF Replaces
<1>8. ASSUME NEW s \in Runs, storing'[s].alone
      PROVE  Replaces(stored'.splits, storing'[s]) /\ \A o \in Runs \ {s} : storing'[o].at = "idle"
    <2>1. s = r /\ storing'[r] = p
        BY <1>1, <1>3, <1>8
    <2> QED
        BY <1>1, <1>2, <1>3, <1>7, <1>8, <2>1
<1> QED
    BY <1>4, <1>5, <1>6, <1>8 DEF PriceInv

\* What the vendor answers for the floor of a run: no bar is missing, unless all are.
LEMMA BarsAre ==
    ASSUME PriceInv, NEW r \in Runs, NEW level \in SeriesBars,
           \A d \in Prices!Sessions : level[d] # Prices!None,
           NEW bars \in Prices!Answers(r, level)
    PROVE  /\ bars \in SeriesBars
           /\ NoGap(bars, storing[r].now - Lookback, vendor.listed)
           /\ \A d \in Prices!Sessions : bars[d] # Prices!None => bars[d] = level[d]
           /\ bars # Prices!Empty => \A d \in Prices!Sessions :
                 storing[r].now - Lookback <= d /\ d <= storing[r].now /\ d <= vendor.listed => bars[d] # Prices!None
<1>0. storing[r].now \in Int /\ vendor.listed \in Int
    BY DEF PriceInv, PriceTypes, StoringRun
<1>1. CASE bars = Prices!Empty
    BY <1>1, EmptyBars, EmptyOK
<1>2. CASE bars = Prices!Bars(r, level)
    <2>1. /\ bars \in SeriesBars
          /\ \A d \in Prices!Sessions :
                bars[d] = IF storing[r].now - Lookback <= d /\ d <= storing[r].now /\ d <= vendor.listed
                          THEN level[d] ELSE Prices!None
        BY <1>2 DEF Prices!Bars, Prices!Kept, SeriesBars, Prices!None
    <2>2. NoGap(bars, storing[r].now - Lookback, vendor.listed)
        BY <1>0, <2>1, SessionInt DEF NoGap
    <2> QED
        BY <2>1, <2>2
<1> QED
    BY <1>1, <1>2 DEF Prices!Answers

LEMMA PriceInvFetch ==
    ASSUME PriceInv, NEW r \in Runs, Prices!FetchAdjusted(r) \/ Prices!FetchUnadjusted(r)
    PROVE  PriceInv'
<1> DEFINE q == storing[r]
<1>0. /\ q \in StoringRun /\ q.now <= closed /\ splits \in SUBSET Prices!Sessions
      /\ storing \in [Runs -> StoringRun] /\ AnswersOK(splits, q, vendor.listed)
    BY DEF PriceInv, PriceTypes
<1>1. CASE Prices!FetchAdjusted(r)
    <2> DEFINE level == [d \in Prices!Sessions |-> Prices!Unadjusted(vendor.applied)]
    <2>1. PICK bars \in Prices!Answers(r, level) : storing' = [storing EXCEPT ![r].at = "none", ![r].splits = bars]
        BY <1>1 DEF Prices!FetchAdjusted
    <2>2. /\ level \in SeriesBars
          /\ \A d \in Prices!Sessions : level[d] = Level(splits, vendor.applied) /\ level[d] # Prices!None
        BY <1>0, UnadjustedIs, LevelType DEF SeriesBars
    <2> HIDE DEF level
    <2> DEFINE p == [q EXCEPT !.at = "none", !.splits = bars]
    <2>3. /\ bars \in SeriesBars /\ NoGap(bars, q.now - Lookback, vendor.listed)
          /\ OneLevel(bars, q.now - Lookback)
        BY <2>2, BarsAre DEF OneLevel
    <2>4. /\ p \in StoringRun /\ p.at = "none" /\ p.now = q.now /\ p.splits = bars /\ p.none = q.none
          /\ p.alone = q.alone
        BY <1>0, <2>3 DEF StoringRun
    <2>5. /\ q.at = "splits" /\ storing' = [storing EXCEPT ![r] = p]
          /\ UNCHANGED <<splits, closed, vendor, stored, clean>>
        BY <1>0, <1>1, <2>1 DEF Prices!FetchAdjusted
    <2> HIDE DEF p
    <2>6. AnswersOK(splits, p, vendor.listed)
        BY <1>0, <2>3, <2>4 DEF AnswersOK
    <2>7. ASSUME p.alone PROVE Replaces(stored.splits, p)
        <3>1. \A d \in Prices!Sessions : stored.splits[d] # Prices!None => d <= q.now /\ d <= vendor.listed
            BY <2>4, <2>7 DEF PriceInv, Replaces, StoredOK, NoGap
        <3> QED
            BY <2>2, <2>4, <3>1, BarsAre DEF Replaces
    <2> QED
        BY <1>0, <2>4, <2>5, <2>6, <2>7, RunStep
<1>2. CASE Prices!FetchUnadjusted(r)
    <2> DEFINE level == [d \in Prices!Sessions |-> Prices!Unadjusted(d)]
    <2>1. PICK bars \in Prices!Answers(r, level) : storing' = [storing EXCEPT ![r].at = "insert", ![r].none = bars]
        BY <1>2 DEF Prices!FetchUnadjusted
    <2>2. /\ level \in SeriesBars
          /\ \A d \in Prices!Sessions : level[d] = Level(splits, d) /\ level[d] # Prices!None
        BY <1>0, UnadjustedIs, LevelType DEF SeriesBars
    <2> HIDE DEF level
    <2> DEFINE p == [q EXCEPT !.at = "insert", !.none = bars]
    <2>3. /\ bars \in SeriesBars /\ NoGap(bars, q.now - Lookback, vendor.listed) /\ AsClosed(splits, bars)
        BY <2>2, BarsAre DEF AsClosed
    <2>4. /\ p \in StoringRun /\ p.at = "insert" /\ p.now = q.now /\ p.splits = q.splits /\ p.none = bars
          /\ p.alone = q.alone
        BY <1>0, <2>3 DEF StoringRun
    <2>5. /\ q.at = "none" /\ storing' = [storing EXCEPT ![r] = p]
          /\ UNCHANGED <<splits, closed, vendor, stored, clean>>
        BY <1>0, <1>2, <2>1 DEF Prices!FetchUnadjusted
    <2> HIDE DEF p
    <2>6. AnswersOK(splits, p, vendor.listed)
        BY <1>0, <2>3, <2>4 DEF AnswersOK
    <2>7. ASSUME p.alone PROVE Replaces(stored.splits, p)
        BY <2>4, <2>5, <2>7 DEF PriceInv, Replaces
    <2> QED
        BY <1>0, <2>4, <2>5, <2>6, <2>7, RunStep
<1> QED
    BY <1>1, <1>2

\* Rows written over rows: no gap opens above the later floor.
LEMMA NewestIs ==
    ASSUME NEW old \in SeriesBars, NEW new \in SeriesBars, NEW f \in Int, NEW g \in Int, f <= g, NEW l \in Int,
           NoGap(old, g, l), NoGap(new, f, l)
    PROVE  /\ Prices!Newest(old, new) \in SeriesBars
           /\ \A d \in Prices!Sessions : Prices!Newest(old, new)[d] = IF new[d] = Prices!None THEN old[d] ELSE new[d]
           /\ NoGap(Prices!Newest(old, new), g, l)
<1>1. /\ Prices!Newest(old, new) \in SeriesBars
      /\ \A d \in Prices!Sessions : Prices!Newest(old, new)[d] = IF new[d] = Prices!None THEN old[d] ELSE new[d]
    BY DEF Prices!Newest, SeriesBars
<1>2. NoGap(new, g, l)
    BY Later
<1>3. NoGap(Prices!Newest(old, new), g, l)
    BY <1>1, <1>2 DEF NoGap
<1> QED
    BY <1>1, <1>3

\* The rows of a run: the newest vintage of each session.
LEMMA PriceInvInsert ==
    ASSUME PriceInv, NEW r \in Runs, Prices!Insert(r)
    PROVE  PriceInv'
<1> DEFINE q == storing[r]
<1>0. /\ q \in StoringRun /\ closed \in Int /\ vendor.listed \in Int /\ Lookback \in Int /\ q.now \in Int
      /\ q.now <= closed /\ q.now - Lookback \in Int /\ closed - Lookback \in Int /\ q.now - Lookback <= closed - Lookback
      /\ stored.splits \in SeriesBars /\ stored.none \in SeriesBars /\ q.splits \in SeriesBars /\ q.none \in SeriesBars
      /\ AnswersOK(splits, q, vendor.listed) /\ StoredOK
    BY SessionInt DEF PriceInv, PriceTypes, StoringRun
<1>1. /\ q.at = "insert" /\ storing' = [storing EXCEPT ![r] = Prices!Idle] /\ UNCHANGED <<splits, closed, vendor>>
      /\ stored' = [splits |-> Prices!Newest(stored.splits, q.splits), none |-> Prices!Newest(stored.none, q.none)]
      /\ clean' = IF q.splits = Prices!Empty THEN clean ELSE q.alone
    BY DEF Prices!Insert
<1>2. \A s \in Runs : storing'[s] = IF s = r THEN Prices!Idle ELSE storing[s]
    BY <1>1 DEF PriceInv, PriceTypes
<1>3. /\ stored'.splits \in SeriesBars /\ NoGap(stored'.splits, closed - Lookback, vendor.listed)
      /\ \A d \in Prices!Sessions : stored'.splits[d] = IF q.splits[d] = Prices!None THEN stored.splits[d] ELSE q.splits[d]
    BY <1>0, <1>1, NewestIs DEF StoredOK, AnswersOK
<1>4. /\ stored'.none \in SeriesBars /\ NoGap(stored'.none, closed - Lookback, vendor.listed)
      /\ \A d \in Prices!Sessions : stored'.none[d] = IF q.none[d] = Prices!None THEN stored.none[d] ELSE q.none[d]
    BY <1>0, <1>1, NewestIs DEF StoredOK, AnswersOK
<1>5. PriceTypes'
    <2>1. stored' \in [splits : SeriesBars, none : SeriesBars]
        BY <1>1, <1>3, <1>4
    <2>2. storing' \in [Runs -> StoringRun] /\ \A s \in Runs : storing'[s].now <= closed
        BY <1>0, <1>1, <1>2, IdleRun, SessionInt DEF PriceInv, PriceTypes
    <2>3. clean' \in BOOLEAN
        BY <1>0, <1>1 DEF PriceInv, PriceTypes, StoringRun
    <2> QED
        BY <1>1, <2>1, <2>2, <2>3 DEF PriceInv, PriceTypes
<1>6. AsClosed(splits, stored'.none)
    BY <1>0, <1>4 DEF AsClosed, StoredOK, AnswersOK
<1>7. ASSUME clean' PROVE OneLevel(stored'.splits, closed - Lookback)
    <2>1. CASE q.splits = Prices!Empty
        <3>1. \A d \in Prices!Sessions : stored'.splits[d] = stored.splits[d]
            BY <1>3, <2>1, EmptyBars
        <3> QED
            BY <1>0, <1>1, <1>7, <2>1, <3>1 DEF StoredOK, OneLevel
    <2>2. CASE q.splits # Prices!Empty
        <3>1. \A d \in Prices!Sessions : q.now - Lookback <= d /\ stored.splits[d] # Prices!None => q.splits[d] # Prices!None
            BY <1>1, <1>7, <2>2 DEF PriceInv, Replaces
        <3>2. \A d \in Prices!Sessions : closed - Lookback <= d => q.now - Lookback <= d
            BY <1>0, SessionInt
        <3>3. OneLevel(q.splits, q.now - Lookback)
            BY <1>0 DEF AnswersOK
        <3> QED
            BY <1>3, <3>1, <3>2, <3>3 DEF OneLevel
    <2> QED
        BY <2>1, <2>2
<1>8. StoredOK'
    BY <1>1, <1>3, <1>4, <1>6, <1>7 DEF StoredOK
<1>9. \A s \in Runs : AnswersOK(splits', storing'[s], vendor'.listed)
    <2>1. AnswersOK(splits, Prices!Idle, vendor.listed)
        BY IdleRun, EmptyOK DEF AnswersOK
    <2> QED
        BY <1>1, <1>2, <2>1 DEF PriceInv
<1>10. \A s \in Runs : ~storing'[s].alone
    <2>1. ASSUME NEW s \in Runs, s # r PROVE ~storing[s].alone
        BY <1>1, <2>1 DEF PriceInv
    <2> QED
        BY <1>2, <2>1, IdleRun
<1> QED
    BY <1>5, <1>8, <1>9, <1>10 DEF PriceInv

LEMMA PriceInvNext == PriceInv /\ [Prices!Next]_(Prices!vars) => PriceInv'
<1> SUFFICES ASSUME PriceInv, [Prices!Next]_(Prices!vars) PROVE PriceInv'
    OBVIOUS
<1>1. ASSUME NEW r \in Runs, Prices!Fail(r) PROVE PriceInv'
    <2>1. AnswersOK(splits, Prices!Idle, vendor.listed)
        BY IdleRun, EmptyOK DEF AnswersOK
    <2>2. Prices!Idle.now <= closed
        BY IdleRun, SessionInt DEF PriceInv, PriceTypes
    <2> QED
        BY <1>1, <2>1, <2>2, IdleRun, RunStep DEF Prices!Fail
<1>2. CASE UNCHANGED Prices!vars
    <2>1. /\ splits' = splits /\ closed' = closed /\ vendor' = vendor /\ stored' = stored /\ storing' = storing
          /\ clean' = clean
        BY <1>2 DEF Prices!vars
    <2> QED
        BY <2>1 DEF PriceInv, PriceTypes, StoredOK, AnswersOK, Replaces, NoGap, OneLevel, AsClosed
<1> QED
    BY <1>1, <1>2, PriceInvWorld, PriceInvStart, PriceInvFetch, PriceInvInsert DEF Prices!Next

\* A set of sessions that is not empty has a latest one.
LEMMA Latest ==
    ASSUME NEW T \in SUBSET Prices!Sessions, T # {}
    PROVE  Prices!Max(T) \in T /\ \A d \in T : d <= Prices!Max(T)
<1> DEFINE S == {MaxSession - d : d \in T}
<1>1. MaxSession \in Nat /\ \A d \in T : d \in 1..MaxSession
    BY PricesAssumption DEF Prices!Sessions
<1>2. S \in SUBSET Nat /\ S # {}
    BY <1>1
<1>3. PICK x \in T : \A d \in T : MaxSession - x <= MaxSession - d
    <2>1. PICK n \in S : \A m \in S : n <= m
        BY <1>2, Least
    <2> QED
        BY <2>1
<1>4. \A d \in T : x >= d
    BY <1>1, <1>3
<1>5. Prices!Max(T) \in T /\ \A d \in T : Prices!Max(T) >= d
    BY <1>4 DEF Prices!Max
<1> QED
    BY <1>1, <1>5

\* The recursion of SplitsSince has a solution.
LEMMA SinceIs ==
    ASSUME closed \in Nat \ {0}
    PROVE  /\ Prices!SplitsSince[closed] = 0
           /\ \A d \in 1..(closed - 1) :
                 Prices!SplitsSince[d] = Prices!EventFactor(d + 1) + Prices!SplitsSince[d + 1]
<1> DEFINE m == closed - 1
           Sums(k, w) == w = [d \in (closed - k)..closed |->
                                 IF d = closed THEN 0 ELSE Prices!EventFactor(d + 1) + w[d + 1]]
           S == {k \in Nat : \E w : Sums(k, w)}
<1>1. m \in Nat /\ closed - m = 1 /\ closed \in Int
    OBVIOUS
<1>2. 0 \in S
    <2> DEFINE w == [d \in (closed - 0)..closed |-> 0]
    <2>1. \A d \in (closed - 0)..closed : d = closed
        BY <1>1
    <2>2. Sums(0, w)
        BY <2>1
    <2> QED
        BY <2>2
<1>3. ASSUME NEW k \in 1..m, k - 1 \in S PROVE k \in S
    <2>1. PICK w : Sums(k - 1, w)
        BY <1>3
    <2> DEFINE c == closed - k
               x == [d \in c..closed |-> IF d = c THEN Prices!EventFactor(c + 1) + w[c + 1] ELSE w[d]]
    <2>2. /\ k \in Nat /\ c \in Int /\ c < closed /\ closed - (k - 1) = c + 1 /\ c + 1 \in (c + 1)..closed
          /\ \A d \in (c + 1)..closed : d \in c..closed /\ d # c
        BY <1>1, <1>3
    <2>3. w = [d \in (c + 1)..closed |-> IF d = closed THEN 0 ELSE Prices!EventFactor(d + 1) + w[d + 1]]
        BY <2>1, <2>2
    <2> HIDE DEF c
    <2>4. \A d \in (c + 1)..closed : x[d] = w[d]
        BY <2>2
    <2>5. \A d \in c..closed : x[d] = IF d = closed THEN 0 ELSE Prices!EventFactor(d + 1) + x[d + 1]
        <3>1. SUFFICES ASSUME NEW d \in c..closed
                       PROVE  x[d] = IF d = closed THEN 0 ELSE Prices!EventFactor(d + 1) + x[d + 1]
            OBVIOUS
        <3>2. CASE d = c
            <4>1. x[d] = Prices!EventFactor(c + 1) + w[c + 1] /\ d # closed
                BY <2>2, <3>1, <3>2
            <4> QED
                BY <2>2, <2>4, <3>2, <4>1
        <3>3. CASE d # c
            <4>1. d \in (c + 1)..closed /\ (d # closed => d + 1 \in (c + 1)..closed)
                BY <1>1, <2>2, <3>1, <3>3
            <4>2. w[d] = IF d = closed THEN 0 ELSE Prices!EventFactor(d + 1) + w[d + 1]
                BY <2>3, <4>1
            <4> QED
                BY <2>4, <4>1, <4>2
        <3> QED
            BY <3>2, <3>3
    <2>6. Sums(k, x)
        BY <2>5 DEF c
    <2> QED
        BY <2>2, <2>6
<1>4. m \in S
    <2> HIDE DEF S, m
    <2>1. \A d \in 0..m : d \in S
        BY <1>1, <1>2, <1>3, UpTo
    <2> QED
        BY <1>1, <2>1
<1>5. Prices!SplitsSince = CHOOSE w : w = [d \in 1..closed |-> IF d = closed THEN 0 ELSE Prices!EventFactor(d + 1) + w[d + 1]]
    BY DEF Prices!SplitsSince
<1>6. \E w : w = [d \in 1..closed |-> IF d = closed THEN 0 ELSE Prices!EventFactor(d + 1) + w[d + 1]]
    <2>1. PICK w : Sums(m, w)
        BY <1>4
    <2> QED
        BY <1>1, <2>1
<1>7. Prices!SplitsSince = [d \in 1..closed |->
          IF d = closed THEN 0 ELSE Prices!EventFactor(d + 1) + Prices!SplitsSince[d + 1]]
    BY <1>5, <1>6
<1>8. closed \in 1..closed /\ \A d \in 1..(closed - 1) : d \in 1..closed /\ d # closed
    BY <1>1
<1> QED
    BY <1>7, <1>8

LEMMA LevelsFall ==
    ASSUME splits \in SUBSET Prices!Sessions, NEW a \in Nat, NEW b \in Nat, a <= b
    PROVE  Level(splits, b) <= Level(splits, a)
<1> DEFINE C == {s \in splits : a < s /\ s <= b}
<1>1. IsFiniteSet(Prices!Sessions)
    BY FS_Interval, PricesAssumption DEF Prices!Sessions
<1>2. C \in SUBSET Prices!Sessions
    OBVIOUS
<1>3. Cardinality(C) \in Nat
    BY <1>1, <1>2, FS_Subset, FS_CardinalityType
<1>4. Prices!Between(a, b) = Cardinality(C)
    BY PricesSize DEF Prices!Between
<1> HIDE DEF C
<1> QED
    BY <1>3, <1>4, BetweenIs, LevelType

\* A multiple of a split is no smaller than the split.
LEMMA Multiple == \A n \in Nat, k \in Nat \ {0} : n * k \in Nat /\ n * k >= n
OBVIOUS

\* The moves of the market that hide no split.
SmallMoves == {move \in Prices!Moves(MaxLag) : Prices!Abs(move) + JumpLimit <= SplitSize}

\* Within the window of a refresh an event of the derived splits is the split of
\* its session, and a close the series speak for has seen no later one.
LEMMA EventIsSplit ==
    ASSUME PriceInv, clean, Prices!Usable(SmallMoves), NEW d \in 1..closed, closed - Lookback <= d, d # closed
    PROVE  Prices!EventFactor(d + 1) = Level(splits, d) - Level(splits, d + 1)
<1> DEFINE P == Prices!Paired
           M == Prices!Max(P)
           f == closed - Lookback
<1>0. /\ closed \in 1..MaxSession /\ MaxSession \in Nat /\ Lookback \in Nat
      /\ splits \in SUBSET Prices!Sessions /\ vendor.listed \in Int /\ vendor.listed <= closed
      /\ d \in Prices!Sessions /\ d + 1 \in Prices!Sessions /\ d + 1 <= closed /\ closed \in Prices!Sessions
      /\ d \in Nat /\ d + 1 \in Nat /\ closed \in Nat /\ f <= d /\ f <= d + 1
      /\ \A e \in Prices!Sessions : e \in Nat
    BY PricesAssumption DEF PriceInv, PriceTypes, Prices!Sessions
<1>1. /\ P \in SUBSET Prices!Sessions /\ P # {}
      /\ \A e \in Prices!Sessions : e \in P <=> stored.none[e] # Prices!None /\ stored.splits[e] # Prices!None
    BY DEF Prices!Usable, Prices!Paired, Prices!Series
<1>2. M \in P /\ M \in Prices!Sessions /\ \A e \in P : e <= M
    BY <1>1, Latest
<1>3. /\ NoGap(stored.splits, f, vendor.listed) /\ NoGap(stored.none, f, vendor.listed)
      /\ AsClosed(splits, stored.none) /\ OneLevel(stored.splits, f)
    BY DEF PriceInv, StoredOK
<1> HIDE DEF f
<1>4. M <= closed /\ M \in Nat
    <2>1. stored.splits[M] # Prices!None
        BY <1>1, <1>2
    <2> HIDE DEF M
    <2>2. M <= vendor.listed /\ M \in Nat
        BY <1>0, <1>2, <1>3, <2>1 DEF NoGap
    <2> QED
        BY <1>0, <2>2
<1>5. Level(splits, M) = Level(splits, closed)
    <2>1. CASE M >= closed
        BY <1>0, <1>4, <2>1
    <2>2. CASE ~(M >= closed)
        <3> DEFINE k == Prices!Between(M, closed)
        <3>1. PICK move \in SmallMoves : Prices!Abs(move - SplitSize * k) < JumpLimit
            BY <2>2 DEF Prices!Usable, Prices!SpeaksForClose
        <3>2. k = Level(splits, M) - Level(splits, closed)
            BY <1>0, <1>4, BetweenIs
        <3>3. k \in Nat
            BY <1>0, <1>4, <3>2, LevelsFall, LevelType
        <3>4. move \in Int /\ Prices!Abs(move) + JumpLimit <= SplitSize /\ SplitSize \in Nat /\ JumpLimit \in Nat
            BY PricesAssumption DEF SmallMoves, Prices!Moves
        <3> HIDE DEF k
        <3>5. k = 0
            <4>1. SUFFICES ASSUME k \in Nat \ {0} PROVE FALSE
                BY <3>3
            <4> DEFINE n == SplitSize * k
            <4>2. n \in Nat /\ n >= SplitSize /\ Prices!Abs(move - n) < JumpLimit
                BY <3>1, <3>4, <4>1, Multiple
            <4> HIDE DEF n
            <4> QED
                BY <3>4, <4>2 DEF Prices!Abs
        <3> QED
            BY <1>0, <3>2, <3>5, LevelType
    <2> QED
        BY <2>1, <2>2
<1> HIDE DEF M
<1>6. CASE d + 1 <= M
    <2>1. d \in P /\ d + 1 \in P
        <3>1. stored.splits[M] # Prices!None /\ stored.none[M] # Prices!None
            BY <1>1, <1>2
        <3>2. d <= M
            BY <1>0, <1>4, <1>6
        <3> QED
            BY <1>0, <1>1, <1>2, <1>3, <1>6, <3>1, <3>2 DEF NoGap
    <2>2. Prices!Before(d + 1, P) # {} /\ Prices!Max(Prices!Before(d + 1, P)) = d
        <3> DEFINE T == Prices!Before(d + 1, P)
        <3>1. T \in SUBSET Prices!Sessions /\ d \in T /\ \A e \in T : e <= d
            <4>1. T = {e \in P : e < d + 1}
                BY DEF Prices!Before
            <4>2. T \in SUBSET Prices!Sessions
                BY <1>1, <4>1
            <4> HIDE DEF T, P
            <4>3. d \in T
                BY <1>0, <2>1, <4>1
            <4>4. \A e \in T : e < d + 1 /\ e \in Nat
                BY <1>0, <4>1, <4>2
            <4> QED
                BY <1>0, <4>2, <4>3, <4>4
        <3> HIDE DEF T
        <3>2. Prices!Max(T) \in T /\ d <= Prices!Max(T)
            BY <3>1, Latest
        <3>3. Prices!Max(T) = d /\ T # {}
            <4>1. Prices!Max(T) \in Nat /\ Prices!Max(T) <= d
                BY <1>0, <3>1, <3>2
            <4> QED
                BY <1>0, <3>1, <3>2, <4>1
        <3> QED
            BY <3>3 DEF T
    <2>3. \A e \in P : Prices!Ratio(e) = stored.none[e] - stored.splits[e] /\ stored.none[e] = Level(splits, e)
        BY <1>1, <1>3 DEF Prices!Ratio, AsClosed
    <2>4. stored.splits[d] = stored.splits[d + 1] /\ stored.splits[d] \in Int
        BY <1>0, <1>1, <1>3, <2>1 DEF OneLevel, PriceInv, PriceTypes, SeriesBars
    <2>5. Prices!Step(d + 1) = Prices!Ratio(d) - Prices!Ratio(d + 1)
        BY <2>2 DEF Prices!Step
    <2>6. Level(splits, d) \in Int /\ Level(splits, d + 1) \in Int
        BY <1>0, LevelType
    <2>7. Prices!Step(d + 1) = Level(splits, d) - Level(splits, d + 1)
        BY <2>1, <2>3, <2>4, <2>5, <2>6
    <2>8. Prices!EventFactor(d + 1) = Prices!Step(d + 1)
        BY <2>1 DEF Prices!EventFactor, Prices!Steps
    <2> QED
        BY <2>7, <2>8
<1>7. CASE ~(d + 1 <= M)
    <2>1. d + 1 \notin P /\ M <= d
        BY <1>0, <1>2, <1>4, <1>7
    <2>2. Prices!EventFactor(d + 1) = 0
        BY <2>1 DEF Prices!EventFactor, Prices!Steps
    <2>3. /\ Level(splits, d) <= Level(splits, M) /\ Level(splits, d + 1) <= Level(splits, d)
          /\ Level(splits, closed) <= Level(splits, d + 1)
        <3>1. d <= d + 1
            BY <1>0
        <3> QED
            BY <1>0, <1>4, <2>1, <3>1, LevelsFall
    <2>4. \A e : Level(splits, e) \in Int
        BY <1>0, LevelType
    <2> QED
        BY <1>5, <2>2, <2>3, <2>4
<1> QED
    BY <1>6, <1>7

\* So the events after a date of the window count the splits after it.
LEMMA SinceCounts ==
    ASSUME PriceInv, clean, Prices!Usable(SmallMoves)
    PROVE  \A d \in 1..closed : closed - Lookback <= d => Prices!SplitsSince[d] = Prices!Between(d, closed)
<1> DEFINE OK(d) == closed - Lookback <= d => Prices!SplitsSince[d] = Level(splits, d) - Level(splits, closed)
           m == closed - 1
           S == {k \in 0..m : OK(closed - k)}
<1>0. closed \in Nat \ {0} /\ m \in Nat /\ Lookback \in Nat /\ splits \in SUBSET Prices!Sessions
    BY PricesAssumption DEF PriceInv, PriceTypes, Prices!Sessions
<1>1. \A e : Level(splits, e) \in Int
    BY <1>0, LevelType
<1>2. 0 \in S
    <2>1. OK(closed)
        BY <1>0, <1>1, SinceIs
    <2>2. closed - 0 = closed /\ 0 \in 0..m
        BY <1>0
    <2> QED
        BY <2>1, <2>2
<1>3. ASSUME NEW k \in 1..m, k - 1 \in S PROVE k \in S
    <2> DEFINE d == closed - k
    <2>1. d \in 1..closed /\ d # closed /\ d \in 1..(closed - 1) /\ closed - (k - 1) = d + 1 /\ k \in 0..m /\ d \in Nat
        BY <1>0
    <2>2. OK(d + 1)
        BY <1>3, <2>1
    <2> HIDE DEF d
    <2>3. ASSUME closed - Lookback <= d PROVE Prices!SplitsSince[d] = Level(splits, d) - Level(splits, closed)
        <3>1. Prices!SplitsSince[d + 1] = Level(splits, d + 1) - Level(splits, closed)
            BY <1>0, <2>1, <2>2, <2>3
        <3>2. Prices!EventFactor(d + 1) = Level(splits, d) - Level(splits, d + 1)
            BY <2>1, <2>3, EventIsSplit
        <3>3. Prices!SplitsSince[d] = Prices!EventFactor(d + 1) + Prices!SplitsSince[d + 1]
            BY <1>0, <2>1, SinceIs
        <3> QED
            BY <1>1, <3>1, <3>2, <3>3
    <2>4. OK(closed - k)
        BY <2>3 DEF d
    <2> QED
        BY <2>1, <2>4
<1>4. \A k \in 0..m : k \in S
    <2> HIDE DEF S, m
    <2> QED
        BY <1>0, <1>2, <1>3, UpTo
<1>5. ASSUME NEW d \in 1..closed, closed - Lookback <= d PROVE Prices!SplitsSince[d] = Prices!Between(d, closed)
    <2>1. closed - d \in 0..m /\ closed - (closed - d) = d /\ d \in Nat /\ closed \in Nat /\ d <= closed
        BY <1>0
    <2>2. OK(d)
        BY <1>4, <2>1
    <2>3. Prices!Between(d, closed) = Level(splits, d) - Level(splits, closed)
        BY <1>0, <2>1, BetweenIs
    <2> QED
        BY <1>5, <2>2, <2>3
<1> QED
    BY <1>5

\* A share count that gets a market value is multiplied by exactly the splits
\* between its basis date and the close (live_on_close_basis), for any sessions,
\* splits, window and limit and any runs of the lane, however late the vendor lists
\* and restates, while the newest adjusted rows are of a run that overlapped no
\* other and the market has not moved the close by as much as a split exceeds the
\* limit.  Without either condition it does not hold (FailsClosed).
THEOREM CountsOnOneBasis == Prices!Spec => []ValueOnOneBasis
<1>1. PriceInv => ValueOnOneBasis
    <2> SUFFICES ASSUME PriceInv, clean, Prices!Usable(SmallMoves), NEW own \in 1..closed, NEW filed \in 1..closed,
                        closed - Lookback <= own, closed - Lookback <= filed,
                        NEW kind \in {"cover", "statement", "unrecognised"},
                        NEW date, date = Prices!BasisDate(own, filed, kind, Prices!SplitsSince), date # 0,
                        NEW real \in Prices!TrueBasisDates(own, filed, kind)
                 PROVE  Prices!SplitsSince[date] = Prices!Between(real, closed)
        BY DEF ValueOnOneBasis, Prices!ValueOnOneBasis, Prices!CountsAreExact, SmallMoves
    <2>1. /\ Prices!SplitsSince[own] = Prices!Between(own, closed)
          /\ Prices!SplitsSince[filed] = Prices!Between(filed, closed)
        BY SinceCounts
    <2>2. CASE Prices!SplitsSince[own] = Prices!SplitsSince[filed]
        <3>1. date \in {own, filed}
            BY <2>2 DEF Prices!BasisDate
        <3>2. real \in {own, filed}
            BY DEF Prices!TrueBasisDates
        <3> QED
            BY <2>1, <2>2, <3>1, <3>2
    <2>3. CASE Prices!SplitsSince[own] # Prices!SplitsSince[filed]
        <3>1. kind \in {"cover", "statement"} /\ (kind = "cover" => date = own) /\ (kind = "statement" => date = filed)
            BY <2>3 DEF Prices!BasisDate
        <3>2. (kind = "cover" => real = own) /\ (kind = "statement" => real = filed)
            BY DEF Prices!TrueBasisDates
        <3> QED
            BY <2>1, <3>1, <3>2
    <2> QED
        BY <2>2, <2>3
<1> QED
    BY <1>1, PriceInvInit, PriceInvNext, PTL DEF Prices!Spec
-----------------------------------------------------------------------------
\* A behaviour of the two parts, of which one moves, is one of each of them.
LEMMA ReferencePartsBehave == MCSpec => Spec /\ Prices!Spec
<1>1. MCInit => Init /\ Prices!Init
    BY DEF MCInit
<1>2. [MCNext]_allVars => [Next]_vars
    BY DEF MCNext, allVars
<1>3. [MCNext]_allVars => [Prices!Next]_(Prices!vars)
    BY DEF MCNext, allVars, priceVars, Prices!vars
<1> QED
    BY <1>1, <1>2, <1>3, PTL DEF MCSpec, Spec, Prices!Spec
=============================================================================
