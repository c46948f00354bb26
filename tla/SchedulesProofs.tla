--------------------------- MODULE SchedulesProofs ---------------------------
(* The refresh of the QQQ prices keeps the series recent, for any number of   *)
(* symbols, cadence and cost of a symbol.                                     *)
EXTENDS MCSchedules, TLAPS, FiniteSetTheorems, WellFoundedInduction

\* An instance has its own name for the size of a set.
LEMMA RefreshSize == \A S : Refresh!Cardinality(S) = Cardinality(S)
BY DEF Refresh!Cardinality, Cardinality

Size == Cardinality(Symbols)

\* Symbols a run with its whole budget fetches.
Places == (Size + RefreshEvery - 1) \div RefreshEvery

LEMMA Exact == ASSUME NEW a \in Nat, NEW b \in Nat \ {0} PROVE (b * a) \div b = a
OBVIOUS

LEMMA OnceMore == ASSUME NEW a \in Nat, NEW b \in Nat PROVE a * b \in Nat /\ (a + 1) * b = a * b + b
OBVIOUS

LEMMA RoundUp ==
    ASSUME NEW a \in Nat, NEW b \in Nat \ {0}
    PROVE  (a + b - 1) \div b \in Nat /\ b * ((a + b - 1) \div b) >= a
<1>1. a + b - 1 \in Nat
    OBVIOUS
<1>2. ASSUME NEW c \in Nat PROVE c \div b \in Nat /\ c < b * (c \div b) + b
    OBVIOUS
<1>3. /\ (a + b - 1) \div b \in Nat
      /\ a + b - 1 < b * ((a + b - 1) \div b) + b
    BY <1>1, <1>2
<1> QED
    BY <1>3

\* One run has places for its share of a round, and the runs of a round for all.
LEMMA PlacesEnough ==
    /\ Size \in Nat /\ Places \in Nat /\ RefreshEvery * Places >= Size
    /\ Refresh!Need = Credits * Places /\ Refresh!Need \div Credits = Places
<1>1. Size \in Nat
    BY RefreshAssumption, FS_CardinalityType DEF Size
<1>2. Places \in Nat /\ RefreshEvery * Places >= Size
    BY <1>1, RefreshAssumption, RoundUp DEF Places
<1>3. Refresh!Need = Credits * Places
    BY RefreshSize DEF Refresh!Need, Places, Size
<1> QED
    BY <1>1, <1>2, <1>3, RefreshAssumption, Exact

\* A set of numbers that is not empty has a least one.
LEMMA Least ==
    ASSUME NEW S \in SUBSET Nat, S # {}
    PROVE  \E x \in S : \A y \in S : x <= y
<1> DEFINE R == OpToRel(<, Nat)
<1>1. IsWellFoundedOn(R, Nat)
    BY NatLessThanWellFounded, Zenon
<1>2. \A x, y \in Nat : x < y => <<x, y>> \in R
    BY DEF OpToRel
<1> HIDE DEF R
<1>3. PICK x \in S : \A y \in S : ~(<<y, x>> \in R)
    BY <1>1, WFMin
<1>4. \A y \in S : ~(y < x)
    BY <1>2, <1>3
<1> QED
    BY <1>3, <1>4
-----------------------------------------------------------------------------
(* The order of a run (refresh_order) and its plan.                          *)

Lags == lag \in [Symbols -> 0..(MaxLag + 1)]

\* Symbols whose series are j sessions older than a fetch may leave them.
Older(j) == {s \in Symbols : lag[s] > ListingLag + j}

\* A symbol later in the order has more symbols before it.
LEMMA AheadGrows ==
    ASSUME Lags
    PROVE  /\ \A s \in Symbols : /\ Refresh!Ahead(s) \in SUBSET Symbols /\ IsFiniteSet(Refresh!Ahead(s))
                                 /\ Cardinality(Refresh!Ahead(s)) \in Nat
           /\ \A s \in Symbols : \A t \in Refresh!Ahead(s) : Cardinality(Refresh!Ahead(t)) < Cardinality(Refresh!Ahead(s))
<1>1. ASSUME NEW s \in Symbols
      PROVE  /\ Refresh!Ahead(s) \in SUBSET Symbols /\ IsFiniteSet(Refresh!Ahead(s))
             /\ Cardinality(Refresh!Ahead(s)) \in Nat
    <2>1. Refresh!Ahead(s) \in SUBSET Symbols
        BY DEF Refresh!Ahead
    <2> QED
        BY <2>1, RefreshAssumption, FS_Subset, FS_CardinalityType
<1>2. ASSUME NEW s \in Symbols, NEW t \in Refresh!Ahead(s)
      PROVE  Cardinality(Refresh!Ahead(t)) < Cardinality(Refresh!Ahead(s))
    <2>0. /\ \A u \in Symbols : u \in Int /\ lag[u] \in Int
          /\ t \in Symbols
        BY RefreshAssumption DEF Lags, Refresh!Ahead
    <2>1. t \notin Refresh!Ahead(t) /\ (Refresh!Ahead(t) \cup {t}) \in SUBSET Refresh!Ahead(s)
        BY <1>2, <2>0 DEF Refresh!Ahead, Refresh!Earlier
    <2>2. Cardinality(Refresh!Ahead(t) \cup {t}) = Cardinality(Refresh!Ahead(t)) + 1
        BY <1>1, <2>0, <2>1, FS_AddElement
    <2>3. Cardinality(Refresh!Ahead(t) \cup {t}) <= Cardinality(Refresh!Ahead(s))
        BY <1>1, <2>1, FS_Subset
    <2> QED
        BY <1>1, <2>0, <2>2, <2>3
<1> QED
    BY <1>1, <1>2

\* The first n of the order leave out an older symbol only if they take n of them.
LEMMA FirstAreOldest ==
    ASSUME Lags, NEW n \in Nat, NEW j \in Nat, ~(Older(j) \subseteq Refresh!FirstOf(n))
    PROVE  /\ IsFiniteSet(Older(j)) /\ Cardinality(Older(j)) \in Nat
           /\ Cardinality(Older(j) \ Refresh!FirstOf(n)) \in Nat
           /\ Cardinality(Older(j) \ Refresh!FirstOf(n)) + n <= Cardinality(Older(j))
<1> DEFINE Left == Older(j) \ Refresh!FirstOf(n)
           S == {Cardinality(Refresh!Ahead(s)) : s \in Left}
<1>1. Older(j) \in SUBSET Symbols /\ IsFiniteSet(Older(j)) /\ Cardinality(Older(j)) \in Nat
    <2>1. Older(j) \in SUBSET Symbols
        BY DEF Older
    <2> QED
        BY <2>1, RefreshAssumption, FS_Subset, FS_CardinalityType
<1>2. S \in SUBSET Nat /\ S # {}
    BY <1>1, AheadGrows
<1>3. PICK s \in Left : \A t \in Left : Cardinality(Refresh!Ahead(s)) <= Cardinality(Refresh!Ahead(t))
    <2>1. PICK m \in S : \A k \in S : m <= k
        BY <1>2, Least
    <2> QED
        BY <2>1
<1>4. s \in Symbols /\ Cardinality(Refresh!Ahead(s)) \in Nat /\ Cardinality(Refresh!Ahead(s)) >= n
    BY <1>1, <1>3, AheadGrows, RefreshSize DEF Refresh!FirstOf
<1>5. Refresh!Ahead(s) \in SUBSET (Older(j) \ Left)
    <2>1. SUFFICES ASSUME NEW t \in Refresh!Ahead(s) PROVE t \in Older(j) /\ t \notin Left
        OBVIOUS
    <2>2. t \in Symbols /\ lag[t] \in Int /\ lag[s] \in Int /\ lag[t] >= lag[s] /\ lag[s] > ListingLag + j
        BY <1>3, <1>4, RefreshAssumption DEF Refresh!Ahead, Refresh!Earlier, Lags, Older
    <2>3. Cardinality(Refresh!Ahead(t)) < Cardinality(Refresh!Ahead(s)) /\ Cardinality(Refresh!Ahead(t)) \in Nat
        BY <1>4, <2>1, <2>2, AheadGrows
    <2> QED
        BY <1>3, <1>4, <2>2, <2>3, RefreshAssumption DEF Older
<1>6. Left \in SUBSET Older(j) /\ (Older(j) \ Left) \in SUBSET Older(j)
    OBVIOUS
<1>7. /\ IsFiniteSet(Older(j) \ Left) /\ Cardinality(Older(j) \ Left) \in Nat
      /\ Cardinality(Left) \in Nat /\ IsFiniteSet(Left)
    BY <1>1, <1>6, FS_Subset, FS_CardinalityType
<1>8. Cardinality(Refresh!Ahead(s)) <= Cardinality(Older(j) \ Left)
    BY <1>5, <1>7, FS_Subset
<1>9. Cardinality(Older(j) \ Left) = Cardinality(Older(j)) - Cardinality(Left)
    <2>1. Older(j) \cap Left = Left
        OBVIOUS
    <2>2. Cardinality(Older(j) \ Left) = Cardinality(Older(j)) - Cardinality(Older(j) \cap Left)
        BY <1>1, FS_Difference
    <2> QED
        BY <2>1, <2>2
<1>10. Cardinality(Left) + n <= Cardinality(Older(j))
    <2> DEFINE a == Cardinality(Left)
               b == Cardinality(Older(j) \ Left)
               c == Cardinality(Older(j))
               d == Cardinality(Refresh!Ahead(s))
    <2>1. a \in Nat /\ b \in Nat /\ c \in Nat /\ d \in Nat /\ d >= n /\ d <= b /\ b = c - a
        BY <1>1, <1>4, <1>7, <1>8, <1>9
    <2> HIDE DEF a, b, c, d
    <2>2. a + n <= c
        BY <2>1
    <2> QED
        BY <2>2 DEF a, c
<1> QED
    BY <1>1, <1>7, <1>10
-----------------------------------------------------------------------------
(* After k good sessions in a row, of the symbols that are older than j <= k *)
(* sessions those of j runs are gone: each of the j runs took Places of them *)
(* or all that were left.                                                    *)

RefreshTypes ==
    /\ Lags /\ streak \in Int /\ streak <= RefreshEvery
    /\ session \in [at : {"waiting", "fetching", "done"}, planned : SUBSET Symbols,
                    credits : Int, calls : Int, bad : BOOLEAN]

GoodSessions == IF streak > 0 THEN streak ELSE 0

\* Between two runs.
Waited(j) == Older(j) = {} \/ Cardinality(Older(j)) + j * Places <= Size

\* During and after a good run: the plan counts as fetched.
Planned(j) ==
    \/ Older(j) \subseteq session.planned
    \/ Cardinality(Older(j) \ session.planned) + (j + 1) * Places <= Size

LagInv ==
    /\ RefreshTypes /\ (session.at = "done" => session.planned = {})
    /\ broken = {} => \A j \in 0..GoodSessions :
          /\ session.at = "waiting" => Waited(j)
          /\ session.at # "waiting" /\ ~session.bad => Planned(j)

LEMMA Subsets ==
    ASSUME NEW S, NEW T, S \subseteq T, T \subseteq Symbols
    PROVE  Cardinality(S) \in Nat /\ Cardinality(T) \in Nat /\ Cardinality(S) <= Cardinality(T)
<1>1. T \in SUBSET Symbols /\ S \in SUBSET T
    OBVIOUS
<1>2. IsFiniteSet(T)
    BY <1>1, RefreshAssumption, FS_Subset
<1> QED
    BY <1>1, <1>2, FS_Subset, FS_CardinalityType

\* Before the first good session nothing is claimed.
LEMMA NothingWaited == Waited(0)
<1>1. Cardinality(Older(0)) \in Nat /\ Cardinality(Older(0)) <= Size
    BY Subsets DEF Older, Size
<1>2. 0 * Places = 0
    BY PlacesEnough
<1> QED
    BY <1>1, <1>2, PlacesEnough DEF Waited

LEMMA LagInvInit == Refresh!Init => LagInv
<1> SUFFICES ASSUME Refresh!Init PROVE LagInv
    OBVIOUS
<1>1. RefreshTypes
    BY RefreshAssumption DEF Refresh!Init, Refresh!Waiting, Refresh!Never, RefreshTypes, Lags
<1>2. GoodSessions = 0 /\ session.at = "waiting"
    BY DEF GoodSessions, Refresh!Init, Refresh!Waiting
<1>3. \A j \in 0..GoodSessions : j = 0
    BY <1>2
<1> QED
    BY <1>1, <1>2, <1>3, NothingWaited DEF LagInv

\* A run with its whole budget takes its places from the older symbols, or all of them.
LEMMA PlannedAtStart ==
    ASSUME RefreshTypes, NEW j \in Nat, Waited(j), session'.planned = Refresh!FirstOf(Places), UNCHANGED lag
    PROVE  Planned(j)'
<1>1. Older(j)' = Older(j)
    BY DEF Older
<1>2. CASE Older(j) \subseteq Refresh!FirstOf(Places)
    BY <1>1, <1>2 DEF Planned
<1>3. CASE ~(Older(j) \subseteq Refresh!FirstOf(Places))
    <2>1. /\ Cardinality(Older(j)) \in Nat /\ Cardinality(Older(j) \ Refresh!FirstOf(Places)) \in Nat
          /\ Cardinality(Older(j) \ Refresh!FirstOf(Places)) + Places <= Cardinality(Older(j))
        BY <1>3, PlacesEnough, FirstAreOldest DEF RefreshTypes
    <2>2. Cardinality(Older(j)) + j * Places <= Size
        BY <1>3 DEF Waited
    <2>3. j * Places \in Nat /\ (j + 1) * Places = j * Places + Places
        BY PlacesEnough, OnceMore
    <2>4. Cardinality(Older(j) \ Refresh!FirstOf(Places)) + (j + 1) * Places <= Size
        BY <2>1, <2>2, <2>3, PlacesEnough
    <2>5. Cardinality(Older(j)' \ session'.planned) + (j + 1) * Places <= Size
        BY <1>1, <2>4
    <2> QED
        BY <2>5 DEF Planned, Size, Places
<1> QED
    BY <1>2, <1>3

\* What a step takes from the plan is not older than any number of sessions.
LEMMA StaysPlanned ==
    ASSUME RefreshTypes, NEW j \in Nat, Planned(j),
           Older(j)' \ session'.planned \subseteq Older(j) \ session.planned
    PROVE  Planned(j)'
<1>1. CASE Older(j) \subseteq session.planned
    BY <1>1 DEF Planned
<1>2. CASE Cardinality(Older(j) \ session.planned) + (j + 1) * Places <= Size
    <2>1. /\ Cardinality(Older(j)' \ session'.planned) \in Nat
          /\ Cardinality(Older(j) \ session.planned) \in Nat
          /\ Cardinality(Older(j)' \ session'.planned) <= Cardinality(Older(j) \ session.planned)
        <3>1. Older(j) \ session.planned \subseteq Symbols
            BY DEF Older
        <3> QED
            BY <3>1, Subsets
    <2>2. (j + 1) * Places \in Nat
        BY PlacesEnough, OnceMore
    <2>3. Cardinality(Older(j)' \ session'.planned) + (j + 1) * Places <= Size
        BY <1>2, <2>1, <2>2, PlacesEnough
    <2> QED
        BY <2>3 DEF Planned, Size, Places
<1> QED
    BY <1>1, <1>2 DEF Planned

\* The next session adds one to every lag.
LEMMA WaitedNext ==
    ASSUME RefreshTypes, NEW j \in Nat, Planned(j), session.planned = {}, Older(j + 1)' \subseteq Older(j)
    PROVE  Waited(j + 1)'
<1>1. Older(j) \ session.planned = Older(j)
    OBVIOUS
<1>2. CASE Older(j) \subseteq session.planned
    BY <1>2 DEF Waited
<1>3. CASE Cardinality(Older(j) \ session.planned) + (j + 1) * Places <= Size
    <2>1. /\ Cardinality(Older(j + 1)') \in Nat /\ Cardinality(Older(j)) \in Nat
          /\ Cardinality(Older(j + 1)') <= Cardinality(Older(j))
        <3>1. Older(j) \subseteq Symbols
            BY DEF Older
        <3> QED
            BY <3>1, Subsets
    <2>2. (j + 1) * Places \in Nat
        BY PlacesEnough, OnceMore
    <2>3. Cardinality(Older(j + 1)') + (j + 1) * Places <= Size
        BY <1>1, <1>3, <2>1, <2>2, PlacesEnough
    <2> QED
        BY <2>3 DEF Waited, Size, Places
<1> QED
    BY <1>2, <1>3 DEF Planned

\* A good session lengthens the streak by one, up to a round; another one ends it.
LEMMA StreakStep ==
    ASSUME RefreshTypes, Refresh!NextSession
    PROVE  /\ streak' \in Int /\ streak' <= RefreshEvery
           /\ session.bad => GoodSessions' = 0
           /\ \A j \in 0..GoodSessions' : j # 0 => ~session.bad /\ j - 1 \in 0..GoodSessions
<1> DEFINE low == IF streak < 0 THEN streak ELSE 0
           next == IF GoodSessions + 1 < RefreshEvery THEN GoodSessions + 1 ELSE RefreshEvery
<1>1. streak \in Int /\ RefreshEvery \in Nat \ {0} /\ session.bad \in BOOLEAN
    BY RefreshAssumption DEF RefreshTypes
<1>2. GoodSessions \in Nat
    BY <1>1 DEF GoodSessions
<1>3. Refresh!Min({streak, 0}) = low
    BY <1>1 DEF Refresh!Min
<1>4. Refresh!Max({streak, 0}) = GoodSessions
    BY <1>1 DEF Refresh!Max, GoodSessions
<1>5. Refresh!Min({GoodSessions + 1, RefreshEvery}) = next
    BY <1>1, <1>2 DEF Refresh!Min
<1>6. streak' = IF session.bad THEN low - 1 ELSE next
    BY <1>3, <1>4, <1>5 DEF Refresh!NextSession
<1>7. CASE session.bad
    <2>1. streak' \in Int /\ streak' < 0
        BY <1>1, <1>6, <1>7
    <2>2. GoodSessions' = 0
        BY <2>1 DEF GoodSessions
    <2> QED
        BY <1>1, <2>1, <2>2
<1>8. CASE ~session.bad
    <2>1. streak' = next
        BY <1>6, <1>8
    <2>2. next \in Nat /\ next <= RefreshEvery /\ next <= GoodSessions + 1
        BY <1>1, <1>2
    <2> HIDE DEF next
    <2>3. GoodSessions' \in Nat /\ GoodSessions' <= GoodSessions + 1
        BY <2>1, <2>2, <1>2 DEF GoodSessions
    <2> QED
        BY <1>2, <1>8, <2>1, <2>2, <2>3
<1> QED
    BY <1>7, <1>8

LEMMA LagInvNext == LagInv /\ [Refresh!Next]_(Refresh!vars) => LagInv'
<1> SUFFICES ASSUME LagInv, [Refresh!Next]_(Refresh!vars) PROVE LagInv'
    OBVIOUS
<1>1. RefreshTypes /\ RefreshEvery \in Nat \ {0} /\ Credits \in Nat \ {0} /\ MaxLag \in Nat
    BY RefreshAssumption DEF LagInv
<1>2. \A j \in 0..GoodSessions : j \in Nat
    OBVIOUS
<1>3. CASE Refresh!Start
    <2>1. PICK credits \in 0..Refresh!Need :
              session' = [Refresh!Waiting EXCEPT !.at = "fetching", !.credits = credits,
                             !.bad = credits < Refresh!Need, !.planned = Refresh!FirstOf(credits \div Credits)]
        BY <1>3 DEF Refresh!Start
    <2>2. UNCHANGED <<lag, broken, streak>> /\ session.at = "waiting"
        BY <1>3 DEF Refresh!Start
    <2>3. session' = [at |-> "fetching", planned |-> Refresh!FirstOf(credits \div Credits), credits |-> credits,
                      calls |-> 0, bad |-> credits < Refresh!Need]
        BY <2>1 DEF Refresh!Waiting
    <2>4. Refresh!FirstOf(credits \div Credits) \in SUBSET Symbols /\ credits \in Int /\ Refresh!Need \in Int
        BY <1>1, PlacesEnough DEF Refresh!FirstOf
    <2>5. RefreshTypes'
        BY <1>1, <2>2, <2>3, <2>4 DEF RefreshTypes, Lags
    <2>6. ASSUME broken' = {}, ~session'.bad, NEW j \in 0..GoodSessions' PROVE Planned(j)'
        <3>1. credits = Refresh!Need /\ j \in 0..GoodSessions
            <4>1. GoodSessions' = GoodSessions
                BY <2>2 DEF GoodSessions
            <4>2. session'.bad = (credits < Refresh!Need)
                BY <2>3
            <4>3. ~(credits < Refresh!Need)
                BY <2>6, <4>2, Zenon
            <4>4. credits = Refresh!Need
                BY <2>1, <2>4, <4>3
            <4> QED
                BY <2>6, <4>1, <4>4
        <3>2. Waited(j) /\ j \in Nat
            BY <1>2, <2>2, <2>6, <3>1 DEF LagInv
        <3>3. session'.planned = Refresh!FirstOf(Places)
            BY <2>3, <3>1, PlacesEnough
        <3> QED
            BY <1>1, <2>2, <3>2, <3>3, PlannedAtStart
    <2> QED
        BY <2>3, <2>5, <2>6 DEF LagInv
<1>4. ASSUME RefreshTypes', UNCHANGED <<broken, streak>>, session.at = "fetching", session'.at # "waiting",
             session'.at = "done" => session'.planned = {},
             broken = {} /\ ~session'.bad => ~session.bad /\
                 \A j \in Nat : Older(j)' \ session'.planned \subseteq Older(j) \ session.planned
      PROVE  LagInv'
    <2>1. ASSUME broken' = {}, ~session'.bad, NEW j \in 0..GoodSessions' PROVE Planned(j)'
        <3>1. j \in 0..GoodSessions /\ j \in Nat
            BY <1>2, <1>4, <2>1 DEF GoodSessions
        <3>2. Planned(j)
            BY <1>4, <2>1, <3>1 DEF LagInv
        <3> QED
            BY <1>1, <1>4, <2>1, <3>1, <3>2, StaysPlanned
    <2> QED
        BY <1>4, <2>1 DEF LagInv
<1>5. ASSUME NEW bad \in BOOLEAN, Refresh!Stop(bad), session.at = "fetching", session.planned # {} => bad,
             UNCHANGED <<lag, broken, streak>>
      PROVE  LagInv'
    <2>1. session' = [at |-> "done", planned |-> {}, credits |-> 0, calls |-> 0, bad |-> session.bad \/ bad]
        BY <1>5 DEF Refresh!Stop, Refresh!Waiting
    <2>2. RefreshTypes'
        BY <1>1, <1>5, <2>1 DEF RefreshTypes, Lags
    <2>3. ASSUME ~session'.bad, NEW j \in Nat PROVE Older(j)' \ session'.planned \subseteq Older(j) \ session.planned
        BY <1>5, <2>1, <2>3 DEF Older
    <2>4. ~session'.bad => ~session.bad
        BY <2>1
    <2> QED
        BY <1>4, <1>5, <2>1, <2>2, <2>3, <2>4
<1>6. CASE Refresh!EndOfPlan
    BY <1>5, <1>6 DEF Refresh!EndOfPlan
<1>7. ASSUME NEW s \in session.planned, NEW calls \in Int, NEW bad \in BOOLEAN, Refresh!Spend(s, calls, bad),
             session.at = "fetching", lag' \in [Symbols -> 0..(MaxLag + 1)], UNCHANGED <<broken, streak>>,
             broken = {} /\ ~bad => lag'[s] <= ListingLag /\ \A t \in Symbols \ {s} : lag'[t] = lag[t]
      PROVE  LagInv'
    <2>1. session' = [session EXCEPT !.planned = @ \ {s}, !.calls = @ + calls, !.bad = @ \/ bad]
        BY <1>7 DEF Refresh!Spend
    <2>2. RefreshTypes'
        <3>1. (session.bad \/ bad) \in BOOLEAN
            OBVIOUS
        <3>2. session.calls + calls \in Int /\ session.planned \ {s} \in SUBSET Symbols
            BY <1>1, <1>7 DEF RefreshTypes
        <3>3. session' \in [at : {"waiting", "fetching", "done"}, planned : SUBSET Symbols,
                            credits : Int, calls : Int, bad : BOOLEAN]
            BY <1>1, <2>1, <3>1, <3>2 DEF RefreshTypes
        <3> QED
            BY <1>1, <1>7, <3>3 DEF RefreshTypes, Lags
    <2>3. /\ session'.at = "fetching" /\ session'.planned = session.planned \ {s}
          /\ ~session'.bad => ~session.bad /\ ~bad
        BY <1>1, <1>7, <2>1 DEF RefreshTypes
    <2>4. ASSUME broken = {}, ~session'.bad, NEW j \in Nat
          PROVE  Older(j)' \ session'.planned \subseteq Older(j) \ session.planned
        <3>1. lag'[s] <= ListingLag /\ \A t \in Symbols \ {s} : lag'[t] = lag[t]
            BY <1>7, <2>3, <2>4
        <3>2. s \in Symbols /\ lag'[s] \in Int /\ ~(lag'[s] > ListingLag + j)
            BY <1>1, <1>7, <3>1, RefreshAssumption DEF RefreshTypes
        <3> QED
            BY <2>3, <3>1, <3>2 DEF Older
    <2> QED
        BY <1>4, <1>7, <2>2, <2>3, <2>4
<1>8. CASE Refresh!Stored
    <2>1. PICK s \in session.planned, again \in Refresh!Repeats :
             /\ session.at = "fetching"
             /\ \/ s \in broken /\ Refresh!Spend(s, Credits + again, again > 0) /\ UNCHANGED lag
                \/ /\ s \notin broken /\ Refresh!Spend(s, Credits + again, again > 0)
                   /\ \E n \in Refresh!Listed(s) : lag' = [lag EXCEPT ![s] = n]
                \/ /\ s \notin broken /\ Refresh!Spend(s, Credits + again, TRUE)
                   /\ lag' = [lag EXCEPT ![s] = Refresh!Never]
             /\ UNCHANGED <<broken, streak>>
        BY <1>8 DEF Refresh!Stored, Refresh!Fetching
    <2>2. again \in Int /\ Credits + again \in Int /\ s \in Symbols
        BY <1>1, <2>1 DEF Refresh!Repeats, RefreshTypes
    <2>3. (again > 0) \in BOOLEAN
        OBVIOUS
    <2>4. CASE s \in broken /\ Refresh!Spend(s, Credits + again, again > 0) /\ UNCHANGED lag
        <3>1. lag' \in [Symbols -> 0..(MaxLag + 1)]
            BY <1>1, <2>4 DEF RefreshTypes, Lags
        <3>2. broken # {}
            BY <2>4
        <3> QED
            BY <1>7, <2>1, <2>2, <2>3, <2>4, <3>1, <3>2
    <2>5. ASSUME s \notin broken, Refresh!Spend(s, Credits + again, again > 0),
                 NEW n \in Refresh!Listed(s), lag' = [lag EXCEPT ![s] = n]
          PROVE  LagInv'
        <3>1. n \in 0..(MaxLag + 1) /\ n <= ListingLag
            BY <1>1, <2>2, <2>5, RefreshAssumption DEF Refresh!Listed, RefreshTypes, Lags
        <3>2. /\ lag' \in [Symbols -> 0..(MaxLag + 1)] /\ lag'[s] <= ListingLag
              /\ \A t \in Symbols \ {s} : lag'[t] = lag[t]
            BY <1>1, <2>2, <2>5, <3>1 DEF RefreshTypes, Lags
        <3> QED
            BY <1>7, <2>1, <2>2, <2>3, <2>5, <3>2
    <2>6. CASE s \notin broken /\ Refresh!Spend(s, Credits + again, TRUE) /\ lag' = [lag EXCEPT ![s] = Refresh!Never]
        <3>1. lag' \in [Symbols -> 0..(MaxLag + 1)]
            BY <1>1, <2>2, <2>6 DEF RefreshTypes, Lags, Refresh!Never
        <3> QED
            BY <1>7, <2>1, <2>2, <2>6, <3>1
    <2> QED
        BY <2>1, <2>4, <2>5, <2>6
<1>12. CASE Refresh!VendorError
    <2>1. PICK s \in session.planned, calls \in 1..Credits, again \in Refresh!Repeats :
             /\ session.at = "fetching"
             /\ Refresh!Spend(s, calls + again, s \notin broken \/ again > 0)
             /\ UNCHANGED <<lag, broken, streak>>
        BY <1>12 DEF Refresh!VendorError, Refresh!Fetching
    <2>2. calls + again \in Int
        BY <1>1, <2>1 DEF Refresh!Repeats
    <2>3. (s \notin broken \/ again > 0) \in BOOLEAN
        OBVIOUS
    <2>4. lag' \in [Symbols -> 0..(MaxLag + 1)]
        BY <1>1, <2>1 DEF RefreshTypes, Lags
    <2> QED
        BY <1>7, <2>1, <2>2, <2>3, <2>4
<1>9. CASE Refresh!RunStops
    BY <1>5, <1>9 DEF Refresh!RunStops
<1>10. CASE Refresh!NextSession
    <2>1. /\ session.at = "done" /\ session.planned = {} /\ UNCHANGED broken
          /\ session' = [at |-> "waiting", planned |-> {}, credits |-> 0, calls |-> 0, bad |-> FALSE]
        BY <1>10 DEF Refresh!NextSession, Refresh!Waiting, LagInv
    <2>2. \A s \in Symbols : lag[s] \in Int /\ lag'[s] \in 0..(MaxLag + 1) /\ lag'[s] <= lag[s] + 1
        BY <1>1, <1>10 DEF Refresh!NextSession, Refresh!Later, Refresh!Never, RefreshTypes, Lags
    <2>3. lag' \in [Symbols -> 0..(MaxLag + 1)]
        BY <2>2, <1>10 DEF Refresh!NextSession
    <2>4. RefreshTypes'
        BY <1>1, <1>10, <2>1, <2>3, StreakStep DEF RefreshTypes, Lags
    <2>5. ASSUME NEW j \in Nat PROVE Older(j + 1)' \subseteq Older(j)
        <3>1. \A s \in Symbols : lag'[s] > ListingLag + (j + 1) => lag[s] > ListingLag + j
            BY <2>2, RefreshAssumption
        <3> QED
            BY <3>1 DEF Older
    <2>6. ASSUME broken' = {}, NEW j \in 0..GoodSessions' PROVE Waited(j)'
        <3>1. CASE j = 0
            <4>1. Waited(0)'
                BY NothingWaited, PTL
            <4> QED
                BY <3>1, <4>1
        <3>2. CASE j # 0
            <4>1. ~session.bad /\ j - 1 \in 0..GoodSessions /\ j - 1 \in Nat
                BY <1>1, <1>10, <2>6, <3>2, StreakStep
            <4>2. Planned(j - 1)
                BY <2>1, <2>6, <4>1 DEF LagInv
            <4>3. Waited((j - 1) + 1)'
                BY <1>1, <2>1, <2>5, <4>1, <4>2, WaitedNext
            <4>4. (j - 1) + 1 = j
                BY <2>6
            <4> QED
                BY <4>3, <4>4
        <3> QED
            BY <3>1, <3>2
    <2> QED
        BY <2>1, <2>4, <2>6 DEF LagInv
<1>11. CASE UNCHANGED Refresh!vars
    <2>1. UNCHANGED <<lag, broken, session, streak>>
        BY <1>11 DEF Refresh!vars
    <2>2. RefreshTypes' /\ GoodSessions' = GoodSessions
        BY <1>1, <2>1 DEF RefreshTypes, Lags, GoodSessions
    <2>3. ASSUME NEW j \in Nat PROVE (Waited(j) => Waited(j)') /\ (Planned(j) => Planned(j)')
        BY <2>1 DEF Waited, Planned, Older, Places, Size
    <2> QED
        BY <1>2, <2>1, <2>2, <2>3 DEF LagInv
<1> QED
    BY <1>3, <1>6, <1>8, <1>9, <1>10, <1>11, <1>12 DEF Refresh!Next

\* After as many good sessions in a row as REFRESH_EVERY_SESSIONS no series is
\* older than that and the vendor's listing lag, whatever went wrong before: the
\* stalest ceil(n / cadence) of each run (refresh_order, need_credits) are enough
\* for any n, cadence, cost and lag of the listing.
THEOREM PricesStayRecent == Refresh!Spec => []WithinLag
<1>1. LagInv => WithinLag
    <2> SUFFICES ASSUME LagInv, broken = {}, streak = RefreshEvery, session.at = "waiting", NEW s \in Symbols
                 PROVE  lag[s] <= RefreshEvery + ListingLag
        BY DEF WithinLag, Refresh!WithinLag
    <2>1. RefreshEvery \in Nat \ {0} /\ RefreshEvery \in 0..GoodSessions
        BY RefreshAssumption DEF GoodSessions
    <2>2. Waited(RefreshEvery)
        BY <2>1 DEF LagInv
    <2>3. Cardinality(Older(RefreshEvery)) \in Nat /\ IsFiniteSet(Older(RefreshEvery))
        <3>1. Older(RefreshEvery) \in SUBSET Symbols
            BY DEF Older
        <3> QED
            BY <3>1, RefreshAssumption, FS_Subset, FS_CardinalityType
    <2>4. Older(RefreshEvery) = {} \/ Cardinality(Older(RefreshEvery)) = 0
        BY <2>1, <2>2, <2>3, PlacesEnough DEF Waited
    <2>5. Older(RefreshEvery) = {}
        BY <2>3, <2>4, FS_EmptySet
    <2>6. lag[s] \in Int
        BY DEF LagInv, RefreshTypes, Lags
    <2> QED
        BY <2>1, <2>5, <2>6, RefreshAssumption DEF Older
<1> QED
    BY <1>1, LagInvInit, LagInvNext, PTL DEF Refresh!Spec
-----------------------------------------------------------------------------
\* A behaviour of the two parts, of which one moves, is one of each of them.
LEMMA SchedulePartsBehave == MCSpec => Spec /\ Refresh!Spec
<1>1. MCInit => Init /\ Refresh!Init
    BY DEF MCInit
<1>2. [MCNext]_allVars => [Next]_vars
    BY DEF MCNext, RefreshStep, allVars
<1>3. [MCNext]_allVars => [Refresh!Next]_(Refresh!vars)
    BY DEF MCNext, RefreshStep, allVars, refreshVars, Refresh!vars
<1> QED
    BY <1>1, <1>2, <1>3, PTL DEF MCSpec, Spec, Refresh!Spec
=============================================================================
