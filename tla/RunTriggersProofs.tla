-------------------------- MODULE RunTriggersProofs --------------------------
(* A request and a deployment launch once, for any number of requests,        *)
(* deployments, deaths of the daemon or the code server and clearings of the  *)
(* cursor (lanes/triggers.py).                                                *)
EXTENDS RunTriggers, TLAPS, FiniteSetTheorems

Kinds == {"canary", "topt"}

\* The shape of the sensors' state.
Shapes ==
    /\ request \in [Ids -> {"absent", "pending", "consumed"}]
    /\ manual = [at |-> manual.at, asks |-> manual.asks, next |-> manual.next]
    /\ manual.at \in {"idle", "evaluating", "returned"}
    /\ manual.next \in Nat \ {0} /\ Len(manual.asks) \in Nat
    /\ boot.at = "idle" \/ boot = [at |-> "returned", asks |-> boot.asks, next |-> boot.next, stores |-> boot.stores]
    /\ boot.next \in Nat \ {0} /\ Len(boot.asks) \in Nat
    /\ deployed.number \in Nat /\ clears \in Nat /\ faults \in Nat

\* A key has one run, as the daemon's deduplication promises.
OneRunPerKey ==
    /\ \A r, s \in runs : r.key = s.key => r = s
    /\ \A r \in runs : r = RunOf([key |-> r.key, number |-> r.number], 1)

\* A manual run, made or asked for by an evaluation that was committed, is of a
\* request that is consumed.  An evaluation asks for its first request first.
ManualInv ==
    /\ \A r \in runs, i \in Ids : r.key = <<"manual", i, 0>> => request[i] = "consumed"
    /\ \A k \in 1..Len(manual.asks) : manual.asks[k].key = <<"manual", manual.asks[k].key[2], 0>>
    /\ manual.at = "evaluating" => manual.next = 1
    /\ manual.at = "returned" =>
          \A k \in 1..Len(manual.asks), i \in Ids :
              manual.asks[k].key = <<"manual", i, 0>> => request[i] = "consumed"

\* The run of a kind that an evaluation asks for which is to store c.
CanaryRun(kind, c) == RunOf([key |-> <<kind, c.deployment.digest, c.ordinal>>, number |-> c.deployment.number], 1)

\* What an evaluation asks for follows from the cursor it is to store, and that
\* names the deployment, or one before, which has no run yet then.
BootInv ==
    /\ \A r \in runs : r.key[1] \in Kinds => r.number \in Nat /\ r.number <= deployed.number
    /\ boot.at = "returned" =>
          /\ \A k \in 1..Len(boot.asks) : \E kind \in Kinds : RunOf(boot.asks[k], 1) = CanaryRun(kind, boot.stores)
          /\ boot.stores.deployment.number \in Nat
          /\ \/ boot.stores.deployment = deployed
             \/ /\ boot.stores.deployment.number < deployed.number
                /\ \A r \in runs : r.key[1] \in Kinds => r.number < deployed.number

\* The cursor the next evaluation is to store.
NextCursor == [deployment |-> deployed, ordinal |-> cursor.ordinal + 1]

\* The runs of deployment n that exist, that are asked for, and that the next
\* evaluation would ask for.
Existing(n, kind) == {r \in runs : r.number = n /\ r.key[1] = kind}
Pending(n, kind) ==
    IF boot.at = "returned" /\ boot.stores.deployment.number = n THEN {CanaryRun(kind, boot.stores)} ELSE {}
Upcoming(n, kind) ==
    IF deployed.number = n /\ ~SameDeployment(cursor.deployment, deployed) THEN {CanaryRun(kind, NextCursor)} ELSE {}

Canaries(n, kind) == Existing(n, kind) \cup Pending(n, kind) \cup Upcoming(n, kind)

\* Together they are few: only a clearing of the cursor makes room for another.
CanariesBounded ==
    \A n \in Nat, kind \in Kinds :
        IsFiniteSet(Canaries(n, kind)) /\ Cardinality(Canaries(n, kind)) <= 1 + clears

TriggerInv == Shapes /\ OneRunPerKey /\ ManualInv /\ BootInv /\ CanariesBounded

\* A step after which no deployment has runs it could not have had before keeps
\* the bound, and so does one that leaves a single run possible.
LEMMA FewerCanaries ==
    ASSUME TriggerInv, clears' \in Nat, clears <= clears',
           \A n \in Nat, kind \in Kinds :
               Canaries(n, kind)' \subseteq Canaries(n, kind) \/ \E x : Canaries(n, kind)' \subseteq {x}
    PROVE  CanariesBounded'
<1> SUFFICES ASSUME NEW n \in Nat, NEW kind \in Kinds
             PROVE  (IsFiniteSet(Canaries(n, kind)) /\ Cardinality(Canaries(n, kind)) <= 1 + clears)'
    BY DEF CanariesBounded
<1> DEFINE K == Canaries(n, kind)
           L == Canaries(n, kind)'
<1>1. clears \in Nat /\ IsFiniteSet(K) /\ Cardinality(K) <= 1 + clears /\ Cardinality(K) \in Nat
    BY FS_CardinalityType DEF TriggerInv, Shapes, CanariesBounded
<1>4. L \subseteq K \/ \E x : L \subseteq {x}
    OBVIOUS
<1> HIDE DEF K, L
<1>2. ASSUME L \subseteq K PROVE IsFiniteSet(L) /\ Cardinality(L) <= 1 + clears'
    <2>1. IsFiniteSet(L) /\ Cardinality(L) <= Cardinality(K) /\ Cardinality(L) \in Nat
        BY <1>1, <1>2, FS_Subset, FS_CardinalityType
    <2> QED
        BY <1>1, <2>1
<1>3. ASSUME NEW x, L \subseteq {x} PROVE IsFiniteSet(L) /\ Cardinality(L) <= 1 + clears'
    <2>1. IsFiniteSet({x}) /\ Cardinality({x}) = 1
        BY FS_Singleton
    <2>2. IsFiniteSet(L) /\ Cardinality(L) <= 1 /\ Cardinality(L) \in Nat
        BY <1>3, <2>1, FS_Subset, FS_CardinalityType
    <2> QED
        BY <2>2
<1> QED
    BY <1>1, <1>4, <1>2, <1>3 DEF L

\* A clearing of the cursor adds one run that is possible.
LEMMA OneMoreCanary ==
    ASSUME TriggerInv, clears' = clears + 1,
           \A n \in Nat, kind \in Kinds : \E x : Canaries(n, kind)' \subseteq Canaries(n, kind) \cup {x}
    PROVE  CanariesBounded'
<1> SUFFICES ASSUME NEW n \in Nat, NEW kind \in Kinds
             PROVE  (IsFiniteSet(Canaries(n, kind)) /\ Cardinality(Canaries(n, kind)) <= 1 + clears)'
    BY DEF CanariesBounded
<1> DEFINE K == Canaries(n, kind)
           L == Canaries(n, kind)'
<1>1. clears \in Nat /\ IsFiniteSet(K) /\ Cardinality(K) <= 1 + clears /\ Cardinality(K) \in Nat
    BY FS_CardinalityType DEF TriggerInv, Shapes, CanariesBounded
<1>2. PICK x : L \subseteq K \cup {x}
    OBVIOUS
<1> HIDE DEF K, L
<1>3. IsFiniteSet(K \cup {x}) /\ Cardinality(K \cup {x}) <= 1 + Cardinality(K) /\ Cardinality(K \cup {x}) \in Nat
    <2>1. /\ IsFiniteSet(K \cup {x})
          /\ Cardinality(K \cup {x}) = IF x \in K THEN Cardinality(K) ELSE Cardinality(K) + 1
        BY <1>1, FS_AddElement
    <2> QED
        BY <1>1, <2>1
<1>4. IsFiniteSet(L) /\ Cardinality(L) <= Cardinality(K \cup {x}) /\ Cardinality(L) \in Nat
    BY <1>2, <1>3, FS_Subset, FS_CardinalityType
<1> QED
    BY <1>1, <1>3, <1>4 DEF L

\* No sensor has run at the start: only the first evaluation's run is possible.
LEMMA TriggerInvInit == Init => TriggerInv
<1> SUFFICES ASSUME Init PROVE TriggerInv
    OBVIOUS
<1>1. Shapes
    BY BatchAssumption DEF Init, Shapes, Idle
<1>2. OneRunPerKey /\ ManualInv /\ BootInv
    BY DEF Init, OneRunPerKey, ManualInv, BootInv, Idle
<1>3. ASSUME NEW n \in Nat, NEW kind \in Kinds
      PROVE  IsFiniteSet(Canaries(n, kind)) /\ Cardinality(Canaries(n, kind)) <= 1 + clears
    <2>1. Canaries(n, kind) \in SUBSET {CanaryRun(kind, NextCursor)}
        BY DEF Init, Idle, Canaries, Existing, Pending, Upcoming
    <2>2. IsFiniteSet({CanaryRun(kind, NextCursor)}) /\ Cardinality({CanaryRun(kind, NextCursor)}) = 1
        BY FS_Singleton
    <2>3. IsFiniteSet(Canaries(n, kind)) /\ Cardinality(Canaries(n, kind)) <= 1
        BY <2>1, <2>2, FS_Subset
    <2>4. clears = 0
        BY DEF Init
    <2> QED
        BY <2>3, <2>4
<1> QED
    BY <1>1, <1>2, <1>3 DEF TriggerInv, CanariesBounded

\* The manual sensor's steps touch no canary.
LEMMA ManualSteps ==
    ASSUME TriggerInv, UNCHANGED <<boot, cursor, deployed, clears>>,
           Shapes', OneRunPerKey', ManualInv',
           \A r \in runs' : r \in runs \/ r.key[1] = "manual"
    PROVE  TriggerInv'
<1>1. BootInv'
    BY DEF TriggerInv, BootInv, Kinds, CanaryRun
<1>2. \A n \in Nat, kind \in Kinds : Canaries(n, kind)' \subseteq Canaries(n, kind)
    BY DEF Canaries, Existing, Pending, Upcoming, Kinds, CanaryRun, NextCursor
<1>3. CanariesBounded'
    BY <1>2, FewerCanaries DEF TriggerInv, Shapes
<1> QED
    BY <1>1, <1>3 DEF TriggerInv

\* A new run is the only one of its key.
LEMMA CreatedKeys ==
    ASSUME OneRunPerKey, NEW ask, runs' = Created(ask)
    PROVE  /\ OneRunPerKey'
           /\ \A r \in runs' : r \in runs \/ r = RunOf(ask, 1)
BY DEF OneRunPerKey, Created, RunOf

\* What a death or a deploy leaves of the evaluations.
LEMMA SurvivesManual ==
    ASSUME TriggerInv, manual' \in Survives(manual), UNCHANGED <<request, runs>>
    PROVE  /\ manual' = [at |-> manual'.at, asks |-> manual'.asks, next |-> manual'.next]
           /\ manual'.at \in {"idle", "evaluating", "returned"}
           /\ manual'.next \in Nat \ {0} /\ Len(manual'.asks) \in Nat
           /\ ManualInv'
<1>1. CASE manual' = Idle
    BY <1>1 DEF Idle, TriggerInv, ManualInv
<1>2. CASE manual.at = "returned" /\ manual' = [manual EXCEPT !.next = 1]
    <2>1. manual' = [at |-> "returned", asks |-> manual.asks, next |-> 1]
        BY <1>2 DEF TriggerInv, Shapes
    <2> QED
        BY <1>2, <2>1 DEF TriggerInv, Shapes, ManualInv
<1> QED
    BY <1>1, <1>2 DEF Survives

LEMMA SurvivesBoot ==
    ASSUME TriggerInv, boot' \in Survives(boot)
    PROVE  /\ boot'.next \in Nat \ {0} /\ Len(boot'.asks) \in Nat
           /\ \/ boot'.at = "idle"
              \/ /\ boot.at = "returned" /\ boot'.asks = boot.asks /\ boot'.stores = boot.stores
                 /\ boot' = [at |-> "returned", asks |-> boot'.asks, next |-> boot'.next, stores |-> boot'.stores]
<1>1. CASE boot' = Idle
    BY <1>1 DEF Idle
<1>2. CASE boot.at = "returned" /\ boot' = [boot EXCEPT !.next = 1]
    <2>1. boot' = [at |-> "returned", asks |-> boot.asks, next |-> 1, stores |-> boot.stores]
        BY <1>2 DEF TriggerInv, Shapes
    <2> QED
        BY <1>2, <2>1 DEF TriggerInv, Shapes
<1> QED
    BY <1>1, <1>2 DEF Survives

\* Every step of the sensors, the daemon and the operators keeps the invariant.
LEMMA TriggerInvNext == TriggerInv /\ [Next]_vars => TriggerInv'
<1> SUFFICES ASSUME TriggerInv, [Next]_vars
             PROVE  TriggerInv'
    OBVIOUS
<1>1. CASE RequestTrigger
    <2>1. Shapes' /\ OneRunPerKey' /\ ManualInv' /\ UNCHANGED <<runs, boot, cursor, deployed, clears, faults>>
        BY <1>1 DEF RequestTrigger, TriggerInv, Shapes, OneRunPerKey, ManualInv
    <2> QED
        BY <2>1, ManualSteps
<1>2. CASE PollRequests
    <2> DEFINE ids == SetToSortSeq(Selected, <)
               asks == [k \in 1..Cardinality(Selected) |-> Ask("manual", ids[k], 0)]
    <2>1. /\ UNCHANGED <<request, runs, boot, cursor, deployed, clears, faults>>
          /\ manual' = [at |-> "evaluating", next |-> 1, asks |-> asks]
        BY <1>2, Zenon DEF PollRequests
    <2> HIDE DEF ids
    <2>2. Cardinality(Selected) \in Nat
        <3>1. IsFiniteSet(Ids) /\ Selected \in SUBSET Ids
            BY BatchAssumption, FS_Interval DEF Ids, Selected, PendingIds
        <3> QED
            BY <3>1, FS_Subset, FS_CardinalityType
    <2>3. Len(asks) = Cardinality(Selected)
        BY <2>2
    <2>4. \A k \in 1..Len(asks) : asks[k].key = <<"manual", asks[k].key[2], 0>>
        BY <2>3 DEF Ask
    <2> HIDE DEF asks
    <2>5. Shapes' /\ OneRunPerKey' /\ ManualInv'
        BY <2>1, <2>2, <2>3, <2>4 DEF TriggerInv, Shapes, OneRunPerKey, ManualInv
    <2> QED
        BY <2>1, <2>5, ManualSteps
<1>3. CASE CommitConsumed
    <2>1. /\ UNCHANGED <<runs, boot, cursor, deployed, clears, faults>> /\ manual.at = "evaluating"
          /\ request' = [i \in Ids |-> IF \E k \in 1..Len(manual.asks) : manual.asks[k].key[2] = i
                                       THEN "consumed" ELSE request[i]]
          /\ manual' = [at |-> "returned", asks |-> manual.asks, next |-> manual.next]
        BY <1>3 DEF CommitConsumed, TriggerInv, Shapes
    <2>2. Shapes' /\ OneRunPerKey'
        BY <2>1 DEF TriggerInv, Shapes, OneRunPerKey
    <2>3. ManualInv'
        BY <2>1 DEF TriggerInv, Shapes, ManualInv
    <2> QED
        BY <2>1, <2>2, <2>3, ManualSteps
<1>4. CASE LaunchManual
    <2>1. /\ UNCHANGED <<request, boot, cursor, deployed, clears, faults>> /\ manual.at = "returned"
        BY <1>4 DEF LaunchManual
    <2>2. CASE manual.next <= Len(manual.asks)
        <3> DEFINE ask == manual.asks[manual.next]
        <3>1. /\ runs' = Created(ask)
              /\ manual' = [at |-> manual.at, asks |-> manual.asks, next |-> manual.next + 1]
              /\ manual.next \in 1..Len(manual.asks)
            BY <1>4, <2>2 DEF LaunchManual, TriggerInv, Shapes
        <3>2. OneRunPerKey' /\ \A r \in runs' : r \in runs \/ r = RunOf(ask, 1)
            BY <3>1, CreatedKeys DEF TriggerInv
        <3>3. Shapes'
            BY <2>1, <3>1 DEF TriggerInv, Shapes
        <3>4. ManualInv'
            <4>1. RunOf(ask, 1).key = ask.key
                BY DEF RunOf
            <4>2. \A i \in Ids : ask.key = <<"manual", i, 0>> => request[i] = "consumed"
                BY <2>1, <3>1 DEF TriggerInv, ManualInv
            <4>3. manual'.asks = manual.asks /\ manual'.at = manual.at
                BY <3>1
            <4> HIDE DEF ask
            <4>4. \A r \in runs', i \in Ids : r.key = <<"manual", i, 0>> => request'[i] = "consumed"
                BY <2>1, <3>2, <4>1, <4>2 DEF TriggerInv, ManualInv
            <4> QED
                BY <2>1, <4>3, <4>4 DEF TriggerInv, ManualInv
        <3>5. \A r \in runs' : r \in runs \/ r.key[1] = "manual"
            BY <3>1, <3>2 DEF TriggerInv, ManualInv, RunOf
        <3> QED
            BY <2>1, <3>2, <3>3, <3>4, <3>5, ManualSteps
    <2>3. CASE ~(manual.next <= Len(manual.asks))
        <3>1. manual' = Idle /\ UNCHANGED runs
            BY <1>4, <2>3 DEF LaunchManual
        <3>2. Shapes' /\ OneRunPerKey' /\ ManualInv'
            BY <2>1, <3>1 DEF TriggerInv, Shapes, OneRunPerKey, ManualInv, Idle
        <3> QED
            BY <2>1, <3>1, <3>2, ManualSteps
    <2> QED
        BY <2>2, <2>3
<1>5. CASE PollDeployment
    <2>1. /\ boot' = [at |-> "returned", asks |-> BootAsks, next |-> 1, stores |-> NextCursor]
          /\ UNCHANGED <<request, runs, manual, cursor, deployed, clears, faults>>
          /\ ~SameDeployment(cursor.deployment, deployed)
        BY <1>5 DEF PollDeployment, NextCursor
    <2>2. /\ Len(BootAsks) \in Nat
          /\ \A k \in 1..Len(BootAsks) : \E kind \in Kinds : RunOf(BootAsks[k], 1) = CanaryRun(kind, NextCursor)
        BY DEF BootAsks, Ask, RunOf, CanaryRun, NextCursor, Kinds
    <2>3. Shapes' /\ OneRunPerKey' /\ ManualInv'
        BY <2>1, <2>2 DEF TriggerInv, Shapes, OneRunPerKey, ManualInv
    <2>4. BootInv'
        BY <2>1, <2>2 DEF TriggerInv, Shapes, BootInv, NextCursor, Kinds, CanaryRun
    <2>5. \A n \in Nat, kind \in Kinds : Canaries(n, kind)' \subseteq Canaries(n, kind)
        BY <2>1 DEF Canaries, Existing, Pending, Upcoming, CanaryRun, NextCursor
    <2> QED
        BY <2>1, <2>3, <2>4, <2>5, FewerCanaries DEF TriggerInv, Shapes
<1>6. CASE LaunchBoot
    <2>1. boot.at = "returned" /\ UNCHANGED <<request, manual, deployed, clears, faults>>
        BY <1>6 DEF LaunchBoot
    <2>2. CASE boot.next <= Len(boot.asks)
        <3> DEFINE ask == boot.asks[boot.next]
        <3>1. /\ runs' = Created(ask) /\ UNCHANGED cursor
              /\ boot' = [at |-> "returned", asks |-> boot.asks, next |-> boot.next + 1, stores |-> boot.stores]
              /\ boot.next \in 1..Len(boot.asks)
            BY <1>6, <2>1, <2>2 DEF LaunchBoot, TriggerInv, Shapes
        <3>2. PICK made \in Kinds : RunOf(ask, 1) = CanaryRun(made, boot.stores)
            BY <2>1, <3>1 DEF TriggerInv, BootInv
        <3> HIDE DEF ask
        <3>3. OneRunPerKey' /\ \A r \in runs' : r \in runs \/ r = CanaryRun(made, boot.stores)
            BY <3>1, <3>2, CreatedKeys DEF TriggerInv
        <3>4. /\ CanaryRun(made, boot.stores).key[1] = made
              /\ CanaryRun(made, boot.stores).number = boot.stores.deployment.number
            BY DEF CanaryRun, RunOf
        <3>5. Shapes'
            BY <2>1, <3>1 DEF TriggerInv, Shapes
        <3>6. ManualInv'
            <4>1. \A i \in Ids : CanaryRun(made, boot.stores).key # <<"manual", i, 0>>
                BY <3>4 DEF Kinds
            <4> QED
                BY <2>1, <3>3, <4>1 DEF TriggerInv, ManualInv
        <3>7. BootInv'
            <4>1. boot'.asks = boot.asks /\ boot'.stores = boot.stores /\ boot'.at = "returned"
                BY <3>1
            <4>2. \A r \in runs' : r.key[1] \in Kinds => r.number \in Nat /\ r.number <= deployed'.number
                BY <2>1, <3>3, <3>4 DEF TriggerInv, BootInv, Shapes
            <4>3. \A k \in 1..Len(boot'.asks) : \E kind \in Kinds : RunOf(boot'.asks[k], 1) = CanaryRun(kind, boot'.stores)
                BY <2>1, <4>1 DEF TriggerInv, BootInv
            <4>4. /\ boot.stores.deployment.number \in Nat
                  /\ \/ boot.stores.deployment = deployed
                     \/ /\ boot.stores.deployment.number < deployed.number
                        /\ \A r \in runs' : r.key[1] \in Kinds => r.number < deployed.number
                BY <2>1, <3>3, <3>4 DEF TriggerInv, BootInv
            <4> QED
                BY <2>1, <4>1, <4>2, <4>3, <4>4 DEF BootInv, CanaryRun
        <3>8. \A n \in Nat, kind \in Kinds : Canaries(n, kind)' \subseteq Canaries(n, kind)
            <4> SUFFICES ASSUME NEW n \in Nat, NEW kind \in Kinds
                         PROVE  Canaries(n, kind)' \subseteq Canaries(n, kind)
                OBVIOUS
            <4>1. Pending(n, kind)' = Pending(n, kind) /\ Upcoming(n, kind)' = Upcoming(n, kind)
                BY <2>1, <3>1 DEF Pending, Upcoming, CanaryRun, NextCursor
            <4>2. Existing(n, kind)' \subseteq Existing(n, kind) \cup Pending(n, kind)
                BY <2>1, <3>3, <3>4 DEF Existing, Pending
            <4> QED
                BY <4>1, <4>2 DEF Canaries
        <3> QED
            BY <2>1, <3>3, <3>5, <3>6, <3>7, <3>8, FewerCanaries DEF TriggerInv, Shapes
    <2>3. CASE ~(boot.next <= Len(boot.asks))
        <3>1. boot' = Idle /\ cursor' = boot.stores /\ UNCHANGED runs
            BY <1>6, <2>3 DEF LaunchBoot
        <3>2. Shapes' /\ OneRunPerKey' /\ ManualInv' /\ BootInv'
            BY <2>1, <3>1 DEF TriggerInv, Shapes, OneRunPerKey, ManualInv, BootInv, Idle
        <3>3. ASSUME NEW n \in Nat, NEW kind \in Kinds
              PROVE  Canaries(n, kind)' \subseteq Canaries(n, kind) \/ \E x : Canaries(n, kind)' \subseteq {x}
            <4>1. Existing(n, kind)' = Existing(n, kind) /\ Pending(n, kind)' = {}
                BY <3>1 DEF Existing, Pending, Idle
            <4>2. CASE n # deployed.number \/ boot.stores.deployment = deployed
                <5>1. Upcoming(n, kind)' = {}
                    BY <2>1, <3>1, <4>2 DEF Upcoming, SameDeployment
                <5> QED
                    BY <4>1, <5>1 DEF Canaries
            <4>3. CASE n = deployed.number /\ boot.stores.deployment # deployed
                <5>1. Existing(n, kind) = {}
                    BY <2>1, <4>3 DEF TriggerInv, Shapes, BootInv, Existing
                <5>2. Canaries(n, kind)' \subseteq {CanaryRun(kind, NextCursor)'}
                    BY <4>1, <5>1 DEF Canaries, Upcoming
                <5> QED
                    BY <5>2
            <4> QED
                BY <4>2, <4>3
        <3>4. clears' \in Nat /\ clears <= clears'
            BY <2>1 DEF TriggerInv, Shapes
        <3>5. CanariesBounded'
            BY <3>3, <3>4, FewerCanaries
        <3> QED
            BY <3>2, <3>5 DEF TriggerInv
    <2> QED
        BY <2>2, <2>3
<1>7. CASE Dies
    <2>1. /\ manual' \in Survives(manual) /\ boot' \in Survives(boot)
          /\ UNCHANGED <<request, runs, cursor, deployed, clears>> /\ faults' = faults + 1
        BY <1>7 DEF Dies
    <2>2. Shapes' /\ OneRunPerKey' /\ ManualInv'
        BY <2>1, SurvivesManual, SurvivesBoot DEF TriggerInv, Shapes, OneRunPerKey
    <2>3. BootInv'
        BY <2>1, SurvivesBoot DEF TriggerInv, BootInv, CanaryRun
    <2>4. \A n \in Nat, kind \in Kinds : Canaries(n, kind)' \subseteq Canaries(n, kind)
        BY <2>1, SurvivesBoot DEF Canaries, Existing, Pending, Upcoming, CanaryRun, NextCursor
    <2> QED
        BY <2>1, <2>2, <2>3, <2>4, FewerCanaries DEF TriggerInv, Shapes
<1>8. CASE Deploy
    <2>1. /\ manual' \in Survives(manual) /\ boot' \in Survives(boot)
          /\ UNCHANGED <<request, runs, cursor, clears, faults>>
          /\ deployed'.number = deployed.number + 1
        BY <1>8 DEF Deploy
    <2>2. Shapes' /\ OneRunPerKey' /\ ManualInv'
        BY <2>1, SurvivesManual, SurvivesBoot DEF TriggerInv, Shapes, OneRunPerKey
    <2>3. boot'.at = "returned" =>
              /\ boot.at = "returned" /\ boot'.asks = boot.asks /\ boot'.stores = boot.stores
              /\ boot.stores.deployment.number \in Nat /\ boot.stores.deployment.number <= deployed.number
        BY <2>1, SurvivesBoot DEF TriggerInv, Shapes, BootInv
    <2>4. BootInv'
        <3>1. \A r \in runs' : r.key[1] \in Kinds => r.number \in Nat /\ r.number < deployed'.number
            BY <2>1 DEF TriggerInv, Shapes, BootInv
        <3>2. ASSUME boot'.at = "returned"
              PROVE  /\ \A k \in 1..Len(boot'.asks) :
                            \E kind \in Kinds : RunOf(boot'.asks[k], 1) = CanaryRun(kind, boot'.stores)
                     /\ boot'.stores.deployment.number \in Nat
                     /\ boot'.stores.deployment.number < deployed'.number
            BY <2>1, <2>3, <3>2 DEF TriggerInv, Shapes, BootInv
        <3>3. \A r \in runs' : r.key[1] \in Kinds => r.number <= deployed'.number
            BY <2>2, <3>1 DEF Shapes
        <3> QED
            BY <3>1, <3>2, <3>3 DEF BootInv, CanaryRun
    <2>5. ASSUME NEW n \in Nat, NEW kind \in Kinds
          PROVE  Canaries(n, kind)' \subseteq Canaries(n, kind) \/ \E x : Canaries(n, kind)' \subseteq {x}
        <3>1. Existing(n, kind)' = Existing(n, kind)
            BY <2>1 DEF Existing
        <3>2. CASE n # deployed.number + 1
            <4>1. Upcoming(n, kind)' = {}
                BY <2>1, <3>2 DEF Upcoming
            <4>2. Pending(n, kind)' \subseteq Pending(n, kind)
                BY <2>3 DEF Pending, CanaryRun
            <4> QED
                BY <3>1, <4>1, <4>2 DEF Canaries
        <3>3. CASE n = deployed.number + 1
            <4>1. Existing(n, kind) = {} /\ Pending(n, kind)' = {}
                BY <2>3, <3>3 DEF TriggerInv, Shapes, BootInv, Existing, Pending
            <4>2. Canaries(n, kind)' \subseteq {CanaryRun(kind, NextCursor)'}
                BY <3>1, <4>1 DEF Canaries, Upcoming
            <4> QED
                BY <4>2
        <3> QED
            BY <3>2, <3>3
    <2>6. clears' \in Nat /\ clears <= clears'
        BY <2>1 DEF TriggerInv, Shapes
    <2>7. CanariesBounded'
        BY <2>5, <2>6, FewerCanaries
    <2> QED
        BY <2>2, <2>4, <2>7 DEF TriggerInv
<1>9. CASE ClearCursor
    <2>1. UNCHANGED <<request, runs, manual, boot, deployed, faults>> /\ clears' = clears + 1
        BY <1>9 DEF ClearCursor
    <2>2. Shapes' /\ OneRunPerKey' /\ ManualInv' /\ BootInv'
        <3>1. Shapes' /\ OneRunPerKey' /\ ManualInv'
            BY <2>1 DEF TriggerInv, Shapes, OneRunPerKey, ManualInv
        <3> QED
            BY <2>1, <3>1 DEF TriggerInv, BootInv, CanaryRun
    <2>3. ASSUME NEW n \in Nat, NEW kind \in Kinds
          PROVE  \E x : Canaries(n, kind)' \subseteq Canaries(n, kind) \cup {x}
        <3>1. Existing(n, kind)' = Existing(n, kind) /\ Pending(n, kind)' = Pending(n, kind)
            BY <2>1 DEF Existing, Pending, CanaryRun
        <3>2. Canaries(n, kind)' \subseteq Canaries(n, kind) \cup {CanaryRun(kind, NextCursor)'}
            BY <3>1 DEF Canaries, Upcoming
        <3> QED
            BY <3>2
    <2> QED
        BY <2>1, <2>2, <2>3, OneMoreCanary DEF TriggerInv
<1>11. CASE Stamp
    <2>1. UNCHANGED <<request, runs, manual, boot, cursor, deployed, clears, faults>>
        BY <1>11 DEF Stamp
    <2>2. Shapes' /\ OneRunPerKey' /\ ManualInv'
        BY <2>1 DEF TriggerInv, Shapes, OneRunPerKey, ManualInv
    <2> QED
        BY <2>1, <2>2, ManualSteps
<1>10. CASE UNCHANGED vars
    <2>1. Shapes' /\ OneRunPerKey' /\ ManualInv'
        BY <1>10 DEF vars, TriggerInv, Shapes, OneRunPerKey, ManualInv
    <2> QED
        BY <1>10, <2>1, ManualSteps DEF vars
<1> QED
    BY <1>1, <1>2, <1>3, <1>4, <1>5, <1>6, <1>7, <1>8, <1>9, <1>10, <1>11 DEF Next, Poll, Canary

\* In every behaviour, a request of staging.pipeline_trigger_requests has one
\* run at most, however often the daemon goes through its run requests again,
\* and the row of a request that has a run says it is consumed.
THEOREM RequestsLaunchOnce == Spec => []LaunchedOnce
<1>1. TriggerInv => LaunchedOnce
    <2> SUFFICES ASSUME TriggerInv, NEW i \in Ids
                 PROVE  LET n == Cardinality({r \in runs : r.key = <<"manual", i, 0>>}) IN
                        n <= 1 /\ (n = 1 => request[i] = "consumed")
        BY DEF LaunchedOnce
    <2> DEFINE of == {r \in runs : r.key = <<"manual", i, 0>>}
    <2>1. ASSUME of = {} PROVE Cardinality(of) = 0
        BY <2>1, FS_EmptySet, Zenon
    <2>2. ASSUME NEW x \in of PROVE Cardinality(of) = 1 /\ request[i] = "consumed"
        <3>1. of = {x}
            BY <2>2 DEF TriggerInv, OneRunPerKey
        <3>2. request[i] = "consumed"
            BY <2>2 DEF TriggerInv, ManualInv
        <3> QED
            BY <3>1, <3>2, FS_Singleton
    <2> QED
        BY <2>1, <2>2
<1> QED
    BY <1>1, TriggerInvInit, TriggerInvNext, PTL DEF Spec

\* In every behaviour, a deployment has one canary at most, and one companion,
\* plus one for every time an operator cleared the cursor: deaths, deploys over
\* an open evaluation and rollbacks add none.
THEOREM DeploymentsHaveOneCanary == Spec => []OneCanaryPerDeployment
<1>1. TriggerInv => OneCanaryPerDeployment
    <2> SUFFICES ASSUME TriggerInv, NEW n \in 1..(MaxDeploys + 1), NEW kind \in {"canary", "topt"}
                 PROVE  Cardinality(Existing(n, kind)) <= 1 + clears
        BY DEF OneCanaryPerDeployment, Existing
    <2>1. n \in Nat /\ clears \in Nat
        BY DEF TriggerInv, Shapes
    <2>2. /\ IsFiniteSet(Canaries(n, kind)) /\ Cardinality(Canaries(n, kind)) <= 1 + clears
          /\ Existing(n, kind) \in SUBSET Canaries(n, kind)
        BY <2>1 DEF TriggerInv, CanariesBounded, Kinds, Canaries
    <2>3. IsFiniteSet(Existing(n, kind)) /\ Cardinality(Existing(n, kind)) <= Cardinality(Canaries(n, kind))
        BY <2>2, FS_Subset
    <2> QED
        BY <2>1, <2>2, <2>3, FS_CardinalityType
<1> QED
    BY <1>1, TriggerInvInit, TriggerInvNext, PTL DEF Spec

\* In every behaviour, a request that is consumed and has no run, and none the
\* daemon is about to create, became so in a death of the daemon or the code
\* server or in a deploy: the sensor loses no request by itself, whatever the batch
\* and whatever arrives between its select and its commit.
THEOREM RequestsLostOnlyByDeath == Spec => LostOnlyByDeath
<1>1. ASSUME TriggerInv, [Next]_vars
      PROVE  Lost' \subseteq Lost \/ faults' # faults \/ deployed' # deployed \/ UNCHANGED vars
    <2>1. ASSUME UNCHANGED <<request, manual>>, runs \subseteq runs'
          PROVE  Lost' \subseteq Lost
        BY <2>1 DEF Lost, Asked
    <2>2. CASE RequestTrigger
        BY <1>1, <2>2 DEF RequestTrigger, TriggerInv, Shapes, Lost, Asked
    <2>3. CASE PollRequests
        BY <2>3 DEF PollRequests, Lost, Asked
    <2>4. CASE CommitConsumed
        <3>1. /\ UNCHANGED runs /\ manual.at = "evaluating" /\ manual.next = 1
              /\ request' = [i \in Ids |-> IF \E k \in 1..Len(manual.asks) : manual.asks[k].key[2] = i
                                           THEN "consumed" ELSE request[i]]
              /\ manual' = [at |-> "returned", asks |-> manual.asks, next |-> 1]
            BY <1>1, <2>4 DEF CommitConsumed, TriggerInv, Shapes, ManualInv
        <3>2. ASSUME NEW i \in Ids, NEW k \in 1..Len(manual.asks), manual.asks[k].key[2] = i
              PROVE  Asked(i)'
            <4>1. manual.asks[k].key = <<"manual", i, 0>>
                BY <1>1, <3>2 DEF TriggerInv, ManualInv
            <4> QED
                BY <3>1, <4>1 DEF Asked
        <3>3. \A i \in Ids : ~Asked(i)
            BY <3>1 DEF Asked
        <3> QED
            BY <3>1, <3>2, <3>3 DEF Lost
    <2>5. CASE LaunchManual
        <3>1. manual.at = "returned" /\ UNCHANGED request
            BY <2>5 DEF LaunchManual
        <3>2. CASE manual.next <= Len(manual.asks)
            <4> DEFINE ask == manual.asks[manual.next]
            <4>1. /\ runs' = Created(ask)
                  /\ manual' = [at |-> manual.at, asks |-> manual.asks, next |-> manual.next + 1]
                BY <1>1, <2>5, <3>2 DEF LaunchManual, TriggerInv, Shapes
            <4>2. runs \subseteq runs' /\ \E r \in runs' : r.key = ask.key
                <5> HIDE DEF ask
                <5>1. RunOf(ask, 1).key = ask.key
                    BY DEF RunOf
                <5> QED
                    BY <4>1, <5>1 DEF Created
            <4>3. ASSUME NEW i \in Ids, Asked(i)
                  PROVE  Asked(i)' \/ ask.key = <<"manual", i, 0>>
                <5>1. PICK k \in manual.next..Len(manual.asks) : manual.asks[k].key = <<"manual", i, 0>>
                    BY <4>3 DEF Asked
                <5>2. CASE k = manual.next
                    BY <5>1, <5>2
                <5>3. CASE k # manual.next
                    <6>1. k \in (manual.next + 1)..Len(manual.asks)
                        BY <1>1, <5>1, <5>3 DEF TriggerInv, Shapes
                    <6> QED
                        BY <3>1, <4>1, <5>1, <6>1 DEF Asked
                <5> QED
                    BY <5>2, <5>3
            <4> HIDE DEF ask
            <4> QED
                BY <3>1, <4>2, <4>3 DEF Lost
        <3>3. CASE ~(manual.next <= Len(manual.asks))
            <4>1. manual' = Idle /\ UNCHANGED runs
                BY <2>5, <3>3 DEF LaunchManual
            <4>2. \A i \in Ids : ~Asked(i)
                BY <1>1, <3>3 DEF Asked, TriggerInv, Shapes
            <4> QED
                BY <3>1, <4>1, <4>2 DEF Lost
        <3> QED
            BY <3>2, <3>3
    <2>6. CASE PollDeployment \/ ClearCursor \/ Stamp
        BY <2>1, <2>6 DEF PollDeployment, ClearCursor, Stamp
    <2>7. CASE LaunchBoot
        BY <2>1, <2>7 DEF LaunchBoot, Created
    <2>8. CASE Dies
        BY <1>1, <2>8 DEF Dies, TriggerInv, Shapes
    <2>9. CASE Deploy
        <3>1. deployed'.number = deployed.number + 1 /\ deployed.number \in Nat
            BY <1>1, <2>9 DEF Deploy, TriggerInv, Shapes
        <3> QED
            BY <3>1
    <2> QED
        BY <1>1, <2>2, <2>3, <2>4, <2>5, <2>6, <2>7, <2>8, <2>9 DEF Next, Poll, Canary
<1>2. TriggerInv /\ [Next]_vars => [Lost' \subseteq Lost \/ faults' # faults \/ deployed' # deployed]_vars
    BY <1>1
<1> QED
    BY <1>2, TriggerInvInit, TriggerInvNext, PTL DEF Spec, LostOnlyByDeath
=============================================================================
