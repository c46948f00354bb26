------------------------- MODULE SourceGatewayProofs -------------------------
(***************************************************************************)
(* What the external call gateway guarantees for every number of processes, *)
(* every budget, window and clock.  A gate decides on what the ledger shows *)
(* when it looks, and the row of a call is written when the call ends; so   *)
(* the bounds of SourceGateway are not inductive, and each is proved from   *)
(* an invariant that also counts the calls no ledger shows yet:             *)
(*   BudgetInv   the processes past the budget check (Charged);             *)
(*   WindowInv   the processes the queue has admitted (Holding);            *)
(*   RepeatsInv  the processes past the index (Fetching) and about to land  *)
(*               a key (Landing).                                           *)
(* A check is passed only while the count is below the limit, so that even  *)
(* all the processes together exceed it by less than their number; each     *)
(* later step moves a process on, or turns it into a row.                   *)
(***************************************************************************)
EXTENDS SourceGateway, TLAPS, FiniteSetTheorems, SequenceTheorems, WellFoundedInduction

\* Later times are on no earlier day.
LEMMA DayMonotone ==
    ASSUME NEW s \in Nat, NEW t \in Nat, s <= t
    PROVE  Day(s) \in Nat /\ Day(t) \in Nat /\ Day(s) <= Day(t)
BY CapacityAssumption DEF Day

\* A set of times that is not empty has an earliest one.
LEMMA Earliest ==
    ASSUME NEW S \in SUBSET Nat, S # {}
    PROVE  \E x \in S : \A y \in S : x <= y
<1> DEFINE R == OpToRel(<, Nat)
<1>1. IsWellFoundedOn(R, Nat)
    BY NatLessThanWellFounded, Zenon
<1>2. \A x, y \in Nat : x < y => <<x, y>> \in R
    BY DEF OpToRel
<1> HIDE DEF R
<1>3. PICK x \in S : \A y \in S : ~(<<y, x>> \in R)
    BY <1>1, WFMin
<1>4. \A y \in S : ~(y < x)
    BY <1>2, <1>3
<1> QED
    BY <1>3, <1>4

LEMMA LocalType ==
    ASSUME TypeOK, NEW p \in Procs
    PROVE  /\ Fresh(p) \in Seq(Times)
           /\ Len(Fresh(p)) \in Nat
           /\ Len(Fresh(p)) >= 1 => Fresh(p)[1] \in Times
<1> DEFINE n == Len(local[p])
           e == Cardinality(Expired(p))
<1>1. local[p] \in Seq(Times) /\ n \in Nat
    BY DEF TypeOK
<1>2. e \in Nat
    <2>1. IsFiniteSet(1..n) /\ Expired(p) \in SUBSET (1..n)
        BY <1>1, FS_Interval DEF Expired
    <2> QED
        BY <2>1, FS_Subset, FS_CardinalityType
<1>3. \A i \in e + 1 .. n : local[p][i] \in Times
    BY <1>1, <1>2
<1> HIDE DEF e, n
<1>4. SubSeq(local[p], e + 1, n) \in Seq(Times)
    BY <1>1, <1>2, <1>3, SubSeqProperties, e + 1 \in Int, n \in Int
<1>5. Fresh(p) \in Seq(Times)
    BY <1>4 DEF Fresh, e, n
<1> QED
    BY <1>5

\* The oldest call of a window that holds one is a call of the window.
LEMMA OldestInWindow ==
    ASSUME TypeOK, Recent(now) # {}
    PROVE  Oldest(now) \in Nat /\ Oldest(now) > now - Window
<1> DEFINE S == {r.at : r \in Recent(now)}
<1>1. S \in SUBSET Nat /\ S # {}
    BY DEF TypeOK, Recent, Rows, Times
<1>2. \E x \in S : \A y \in S : x <= y
    BY <1>1, Earliest
<1>3. \E x \in S : \A r \in Recent(now) : x <= r.at
    BY <1>2
<1>4. Oldest(now) \in S
    BY <1>3 DEF Oldest
<1> QED
    BY <1>1, <1>4 DEF Recent

\* _queue admits at once only when the ledger's window has room.
LEMMA WaitMeaning ==
    ASSUME TypeOK, NEW p \in Procs
    PROVE  /\ Wait(p) \in Int
           /\ Wait(p) <= 0 => Cardinality(Recent(now)) < Calls
<1> DEFINE deque == IF Len(Fresh(p)) >= Calls THEN Window - (now - Fresh(p)[1]) ELSE 0
           ledger == IF Cardinality(Recent(now)) >= Calls THEN Window - (now - Oldest(now)) ELSE 0
<1>1. now \in Nat /\ Calls \in Nat \ {0} /\ Window \in Nat \ {0}
    BY CapacityAssumption DEF TypeOK, Times
<1>2. deque \in Int
    BY <1>1, LocalType DEF Times
<1>3. Cardinality(Recent(now)) \in Nat
    <2>1. Recent(now) \in SUBSET rows
        BY DEF Recent
    <2> QED
        BY <2>1, FS_Subset, FS_CardinalityType DEF TypeOK
<1>4. ledger \in Int /\ (ledger <= 0 => Cardinality(Recent(now)) < Calls)
    <2>1. CASE Cardinality(Recent(now)) >= Calls
        <3>1. Recent(now) # {}
            BY <1>1, <1>3, <2>1, FS_EmptySet
        <3>2. Oldest(now) \in Nat /\ Oldest(now) > now - Window
            BY <3>1, OldestInWindow
        <3> QED
            BY <1>1, <2>1, <3>2
    <2>2. CASE ~(Cardinality(Recent(now)) >= Calls)
        BY <1>1, <1>3, <2>2
    <2> QED
        BY <2>1, <2>2
<1>5. Wait(p) = Larger(deque, ledger)
    BY DEF Wait
<1> HIDE DEF deque, ledger
<1> QED
    BY <1>2, <1>4, <1>5 DEF Larger

\* The call a process is making, and the rest of the state.
CallTypes ==
    /\ pc \in [Procs -> {"idle", "lookup", "budget", "queue", "sleep", "recheck",
                         "admitted", "calling", "land"}]
    /\ key \in [Procs -> Keys \cup {NoKey}]
    /\ keep \in [Procs -> BOOLEAN]
    /\ waited \in [Procs -> 0..MaxWait] /\ wake \in [Procs -> Nat]
    /\ at \in [Procs -> Times]
    /\ \A p \in Procs : pc[p] # "idle" <=> key[p] # NoKey

StoreTypes ==
    /\ now \in Times /\ IsFiniteSet(rows) /\ rows \subseteq Rows /\ landed \subseteq Keys
    /\ admitted \in [Procs -> (0..Day(MaxTime)) \X Nat]
    /\ local \in [Procs -> Seq(Times)]
    /\ faults \in 0..MaxFaults

LEMMA TypeParts == TypeOK <=> CallTypes /\ StoreTypes
BY DEF TypeOK, CallTypes, StoreTypes

LEMMA ReturnTypes ==
    ASSUME CallTypes, NEW p \in Procs, Return(p)
    PROVE  CallTypes'
BY CapacityAssumption DEF CallTypes, Return, Goto, Times

LEMMA TypeInit == Init => TypeOK
<1> SUFFICES ASSUME Init PROVE TypeOK
    OBVIOUS
<1>1. Day(0) \in Nat /\ Day(0) <= Day(MaxTime) /\ Day(MaxTime) \in Nat /\ Day(0) = 0
    BY DayMonotone, CapacityAssumption DEF Day
<1>2. IsFiniteSet({})
    BY FS_EmptySet
<1>3. CallTypes
    BY CapacityAssumption DEF Init, CallTypes, Times
<1>4. StoreTypes
    BY <1>1, <1>2, CapacityAssumption DEF Init, StoreTypes, Times
<1> QED
    BY <1>3, <1>4, TypeParts

\* A fault is counted.
LEMMA FaultTypes ==
    ASSUME StoreTypes, faults < MaxFaults, faults' = faults + 1,
           UNCHANGED <<now, rows, landed, admitted, local>>
    PROVE  StoreTypes'
BY CapacityAssumption DEF StoreTypes, Day

\* A row is written of a call in flight.
LEMMA RecordTypes ==
    ASSUME TypeOK, NEW p \in Procs, pc[p] = "calling", NEW verdict \in Verdicts, Record(p, verdict)
    PROVE  /\ IsFiniteSet(rows') /\ rows' \subseteq Rows
           /\ \E row \in Rows : /\ rows' = rows \cup {row}
                                /\ row.key = key[p] /\ row.at = at[p] /\ row.verdict = verdict
<1> DEFINE alike == {r \in rows : r.key = key[p] /\ r.at = at[p] /\ r.verdict = verdict}
           row == [key |-> key[p], at |-> at[p], verdict |-> verdict, copy |-> Cardinality(alike) + 1]
<1>1. Cardinality(alike) \in Nat
    <2>1. alike \in SUBSET rows /\ IsFiniteSet(rows)
        BY DEF TypeOK
    <2> QED
        BY <2>1, FS_Subset, FS_CardinalityType
<1>2. rows' = rows \cup {row}
    BY DEF Record
<1> HIDE DEF alike
<1>3. row \in Rows /\ row.key = key[p] /\ row.at = at[p] /\ row.verdict = verdict
    BY <1>1 DEF TypeOK, Rows
<1> HIDE DEF row
<1>4. IsFiniteSet(rows') /\ rows' \subseteq Rows
    BY <1>2, <1>3, FS_AddElement DEF TypeOK
<1> QED
    BY <1>2, <1>3, <1>4

LEMMA ReasonType ==
    \A p \in Procs, answer \in {"accepted", "refused", "error"} : Reason(p, answer) \in Verdicts
BY DEF Reason, Verdicts

\* Every step keeps every type.
LEMMA TypeNext == TypeOK /\ [Next]_vars => TypeOK'
<1> SUFFICES ASSUME TypeOK, [Next]_vars
             PROVE  TypeOK'
    OBVIOUS
<1>0. CallTypes' /\ StoreTypes' => TypeOK'
    BY DEF TypeOK, CallTypes, StoreTypes, Day
<1>1. CallTypes /\ StoreTypes /\ now \in Nat /\ MaxTime \in Nat
    BY TypeParts, CapacityAssumption DEF StoreTypes, Times
<1>2. CASE Pass
    <2>1. CallTypes'
        BY <1>1, <1>2 DEF Pass, CallTypes, procState
    <2>2. StoreTypes'
        BY <1>1, <1>2 DEF Pass, StoreTypes, procState, Times, Day
    <2> QED
        BY <2>1, <2>2, <1>0
<1>3. ASSUME NEW p \in Procs, Step(p) PROVE TypeOK'
    <2>1. ASSUME NEW k \in Keys, FetchOnce(p, k) PROVE TypeOK'
        <3>1. CallTypes'
            BY <1>1, <2>1, ProcsAssumption DEF FetchOnce, CallTypes, Goto
        <3>2. StoreTypes'
            BY <1>1, <2>1 DEF FetchOnce, StoreTypes, Day
        <3> QED
            BY <3>1, <3>2, <1>0
    <2>2. CASE Landed(p) \/ CheckDailyBudget(p)
        <3>1. CallTypes'
            <4>1. CASE Return(p)
                BY <1>1, <4>1, ReturnTypes
            <4>2. ASSUME NEW l \in {"budget", "queue", "admitted"}, pc[p] # "idle", Goto(p, l),
                         UNCHANGED <<key, keep, waited, wake, at>>
                  PROVE  CallTypes'
                BY <1>1, <4>2 DEF CallTypes, Goto
            <4> QED
                BY <2>2, <4>1, <4>2 DEF Landed, CheckDailyBudget
        <3>2. StoreTypes'
            BY <1>1, <2>2 DEF Landed, CheckDailyBudget, StoreTypes, Day
        <3> QED
            BY <3>1, <3>2, <1>0
    <2>3. CASE LookupFails(p)
        <3>1. CallTypes'
            BY <1>1, <2>3 DEF LookupFails, CallTypes, Goto
        <3>2. StoreTypes'
            BY <1>1, <2>3, FaultTypes DEF LookupFails
        <3> QED
            BY <3>1, <3>2, <1>0
    <2>4. CASE Queue(p)
        <3>1. Wait(p) \in Int /\ Fresh(p) \in Seq(Times)
            BY WaitMeaning, LocalType
        <3>2. Append(Fresh(p), now) \in Seq(Times)
            BY <1>1, <3>1 DEF StoreTypes
        <3>3. CASE /\ Wait(p) <= 0
                   /\ local' = [local EXCEPT ![p] = Append(Fresh(p), now)]
                   /\ Goto(p, IF waited[p] > 0 THEN "recheck" ELSE "admitted")
                   /\ UNCHANGED <<key, keep, waited, wake, at>>
            <4>1. CallTypes'
                BY <1>1, <2>4, <3>3 DEF Queue, CallTypes, Goto
            <4>2. StoreTypes'
                BY <1>1, <2>4, <3>2, <3>3 DEF Queue, StoreTypes, Day
            <4> QED
                BY <4>1, <4>2, <1>0
        <3>4. CASE local' = [local EXCEPT ![p] = Fresh(p)] /\ Return(p)
            <4>1. CallTypes'
                BY <1>1, <3>4, ReturnTypes
            <4>2. StoreTypes'
                BY <1>1, <2>4, <3>1, <3>4 DEF Queue, StoreTypes, Day
            <4> QED
                BY <4>1, <4>2, <1>0
        <3>5. CASE /\ ~(Wait(p) <= 0) /\ ~(Wait(p) > 0 /\ waited[p] + Wait(p) > MaxWait)
                   /\ local' = [local EXCEPT ![p] = Fresh(p)]
                   /\ waited' = [waited EXCEPT ![p] = @ + Wait(p)]
                   /\ wake' = [wake EXCEPT ![p] = now + Wait(p)]
                   /\ Goto(p, "sleep")
                   /\ UNCHANGED <<key, keep, at>>
            <4>1. waited[p] + Wait(p) \in 0..MaxWait /\ now + Wait(p) \in Nat
                BY <1>1, <3>1, <3>5, CapacityAssumption DEF CallTypes
            <4>2. CallTypes'
                BY <1>1, <2>4, <3>5, <4>1 DEF Queue, CallTypes, Goto
            <4>3. StoreTypes'
                BY <1>1, <2>4, <3>1, <3>5 DEF Queue, StoreTypes, Day
            <4> QED
                BY <4>2, <4>3, <1>0
        <3> QED
            BY <2>4, <3>3, <3>4, <3>5 DEF Queue
    <2>5. CASE LedgerUnreadable(p) \/ LandFails(p)
        <3>1. CallTypes'
            BY <1>1, <2>5, ReturnTypes DEF LedgerUnreadable, LandFails
        <3>2. StoreTypes'
            BY <1>1, <2>5, FaultTypes DEF LedgerUnreadable, LandFails
        <3> QED
            BY <3>1, <3>2, <1>0
    <2>6. CASE Awake(p)
        <3>1. CallTypes' /\ StoreTypes'
            BY <1>1, <2>6 DEF Awake, CallTypes, StoreTypes, Goto, Day
        <3> QED
            BY <3>1, <1>0
    <2>7. CASE MakeCall(p)
        <3>1. CallTypes'
            BY <1>1, <2>7 DEF MakeCall, CallTypes, StoreTypes, Goto
        <3>2. Day(now) \in 0..Day(MaxTime) /\ AdmittedToday(p) + 1 \in Nat
            <4>1. now <= MaxTime
                BY <1>1 DEF StoreTypes, Times
            <4>2. Day(now) \in 0..Day(MaxTime)
                BY <1>1, <4>1, DayMonotone
            <4>3. admitted[p][2] \in Nat
                BY <1>1 DEF StoreTypes
            <4> QED
                BY <4>2, <4>3 DEF AdmittedToday
        <3>3. StoreTypes'
            BY <1>1, <2>7, <3>2 DEF MakeCall, StoreTypes, Day
        <3> QED
            BY <3>1, <3>3, <1>0
    <2>8. ASSUME NEW answer \in {"accepted", "refused", "error"}, pc[p] = "calling", AfterCall(p, answer)
          PROVE  CallTypes'
        <3>1. CASE Return(p)
            BY <1>1, <3>1, ReturnTypes
        <3>2. CASE Goto(p, "land") /\ UNCHANGED <<key, keep, waited, wake, at>>
            BY <1>1, <2>8, <3>2 DEF CallTypes, Goto
        <3> QED
            BY <2>8, <3>1, <3>2 DEF AfterCall
    <2>9. CASE Answer(p)
        <3>1. PICK answer \in {"accepted", "refused", "error"} : Record(p, Reason(p, answer)) /\ AfterCall(p, answer)
            BY <2>9 DEF Answer
        <3>2. pc[p] = "calling" /\ UNCHANGED <<now, landed, admitted, local, faults>>
            BY <2>9 DEF Answer
        <3>3. IsFiniteSet(rows') /\ rows' \subseteq Rows
            BY <3>1, <3>2, ReasonType, RecordTypes
        <3>4. StoreTypes'
            BY <1>1, <3>2, <3>3 DEF StoreTypes, Day
        <3> QED
            BY <2>8, <3>1, <3>2, <3>4, <1>0
    <2>10. CASE AnswerUnrecorded(p)
        BY <1>1, <2>8, <2>10, FaultTypes, <1>0 DEF AnswerUnrecorded
    <2>11. CASE Land(p)
        <3>1. CallTypes'
            BY <1>1, <2>11, ReturnTypes DEF Land
        <3>2. StoreTypes'
            BY <1>1, <2>11 DEF Land, StoreTypes, CallTypes, Day
        <3> QED
            BY <3>1, <3>2, <1>0
    <2>12. 0 \in 0..Day(MaxTime)
        BY <1>1, DayMonotone
    <2>13. CASE Crash(p)
        <3>1. CallTypes'
            BY <1>1, <2>13, ReturnTypes DEF Crash
        <3>2. StoreTypes'
            BY <1>1, <2>12, <2>13, CapacityAssumption DEF Crash, StoreTypes, Day
        <3> QED
            BY <3>1, <3>2, <1>0
    <2>14. CASE NewScope(p)
        <3>1. CallTypes' /\ StoreTypes'
            BY <1>1, <2>12, <2>14 DEF NewScope, CallTypes, StoreTypes, Day
        <3> QED
            BY <3>1, <1>0
    <2> QED
        BY <1>3, <2>1, <2>2, <2>3, <2>4, <2>5, <2>6, <2>7, <2>9, <2>10, <2>11, <2>13, <2>14 DEF Step
<1>4. CASE UNCHANGED vars
    BY <1>4 DEF vars, procState, TypeOK, Day
<1> QED
    BY <1>2, <1>3, <1>4 DEF Next
-----------------------------------------------------------------------------
(* What a step of a process is to the ledger and the gate, in one of seven   *)
(* kinds.                                                                    *)

\* The calls of the other processes stay as they are.
Elsewhere(p) ==
    \A q \in Procs \ {p} : pc'[q] = pc[q] /\ at'[q] = at[q] /\ admitted'[q] = admitted[q]

\* Neither the clock nor the ledger moves, and p is where no call is admitted.
Retires(p) ==
    /\ UNCHANGED <<now, rows>> /\ pc'[p] \in {"idle", "lookup", "budget", "land"}
    /\ at'[p] \in {at[p], 0} /\ admitted'[p] \in {admitted[p], <<0, 0>>}

\* p is further on in admit.
Moves(p, from, to) ==
    /\ UNCHANGED <<now, rows>> /\ pc[p] \in from /\ pc'[p] \in to
    /\ at'[p] = at[p] /\ admitted'[p] = admitted[p]

PassesBudget(p) == Moves(p, {"budget"}, {"queue"}) /\ Spent(p) < Budget
Waits(p) == Moves(p, {"queue", "sleep"}, {"queue", "sleep"})
PassesQueue(p) == Moves(p, {"queue"}, {"recheck", "admitted"}) /\ Cardinality(Recent(now)) < Calls
PassesRecheck(p) == Moves(p, {"recheck"}, {"admitted"})

Starts(p) ==
    /\ UNCHANGED <<now, rows>> /\ pc[p] = "admitted" /\ pc'[p] = "calling"
    /\ at'[p] = now /\ admitted'[p] = <<Day(now), AdmittedToday(p) + 1>>

\* The call in flight becomes a row.
Records(p) ==
    /\ UNCHANGED now /\ pc[p] = "calling" /\ pc'[p] \in {"idle", "land"}
    /\ at'[p] \in {at[p], 0} /\ admitted'[p] = admitted[p]
    /\ \E row \in Rows : rows' = rows \cup {row} /\ row.at = at[p]

LEMMA ReturnRetires ==
    ASSUME TypeOK, NEW p \in Procs, Return(p), UNCHANGED <<now, rows>>,
           admitted' = admitted \/ admitted' = [admitted EXCEPT ![p] = <<0, 0>>]
    PROVE  Elsewhere(p) /\ Retires(p)
BY DEF TypeOK, Return, Goto, Elsewhere, Retires

LEMMA SpentType ==
    ASSUME TypeOK, NEW p \in Procs
    PROVE  Spent(p) \in Nat /\ AdmittedToday(p) \in Nat /\ Cardinality(RowsOn(Day(now))) \in Nat
<1>1. RowsOn(Day(now)) \in SUBSET rows /\ IsFiniteSet(rows)
    BY DEF RowsOn, TypeOK
<1>2. Cardinality(RowsOn(Day(now))) \in Nat
    BY <1>1, FS_Subset, FS_CardinalityType
<1>3. AdmittedToday(p) \in Nat
    BY DEF AdmittedToday, TypeOK
<1> QED
    BY <1>2, <1>3 DEF Spent, Larger

LEMMA StepEffect ==
    ASSUME TypeOK, NEW p \in Procs, Step(p)
    PROVE  /\ Elsewhere(p)
           /\ Retires(p) \/ PassesBudget(p) \/ Waits(p) \/ PassesQueue(p) \/ PassesRecheck(p)
                \/ Starts(p) \/ Records(p)
<1>1. ASSUME NEW k \in Keys, FetchOnce(p, k) PROVE Elsewhere(p) /\ Retires(p)
    BY <1>1 DEF TypeOK, FetchOnce, Goto, Elsewhere, Retires
<1>2. CASE Landed(p)
    <2>1. CASE Return(p)
        BY <1>2, <2>1, ReturnRetires DEF Landed
    <2>2. CASE ~Return(p)
        BY <1>2, <2>2 DEF Landed, TypeOK, Goto, Elsewhere, Retires
    <2> QED
        BY <2>1, <2>2
<1>3. CASE LookupFails(p)
    BY <1>3 DEF LookupFails, TypeOK, Goto, Elsewhere, Retires
<1>4. CASE CheckDailyBudget(p)
    <2>1. CASE Spent(p) >= Budget
        BY <1>4, <2>1, ReturnRetires DEF CheckDailyBudget
    <2>2. CASE ~(Spent(p) >= Budget)
        <3>1. Spent(p) \in Nat /\ Budget \in Nat
            BY SpentType, CapacityAssumption
        <3>2. Spent(p) < Budget
            BY <2>2, <3>1
        <3> QED
            BY <1>4, <2>2, <3>2 DEF CheckDailyBudget, TypeOK, Goto, Elsewhere, Moves, PassesBudget, PassesRecheck
    <2> QED
        BY <2>1, <2>2
<1>5. CASE Queue(p)
    <2>1. CASE Wait(p) <= 0 /\ Goto(p, IF waited[p] > 0 THEN "recheck" ELSE "admitted")
                 /\ UNCHANGED <<key, keep, waited, wake, at>>
        BY <1>5, <2>1, WaitMeaning DEF Queue, TypeOK, Goto, Elsewhere, Moves, PassesQueue
    <2>2. CASE Return(p)
        BY <1>5, <2>2, ReturnRetires DEF Queue
    <2>3. CASE Goto(p, "sleep") /\ UNCHANGED <<key, keep, at>>
        BY <1>5, <2>3 DEF Queue, TypeOK, Goto, Elsewhere, Moves, Waits
    <2> QED
        BY <1>5, <2>1, <2>2, <2>3 DEF Queue
<1>6. CASE LedgerUnreadable(p) \/ LandFails(p) \/ Land(p) \/ Crash(p)
    BY <1>6, ReturnRetires DEF LedgerUnreadable, LandFails, Land, Crash
<1>7. CASE Awake(p)
    BY <1>7 DEF Awake, TypeOK, Goto, Elsewhere, Moves, Waits
<1>8. CASE MakeCall(p)
    BY <1>8 DEF MakeCall, TypeOK, Goto, Elsewhere, Starts
<1>9. ASSUME NEW answer, AfterCall(p, answer), admitted' = admitted
      PROVE  Elsewhere(p) /\ pc'[p] \in {"idle", "land"} /\ at'[p] \in {at[p], 0}
    BY <1>9 DEF AfterCall, Return, TypeOK, Goto, Elsewhere
<1>10. CASE Answer(p)
    <2>1. PICK answer \in {"accepted", "refused", "error"} : Record(p, Reason(p, answer)) /\ AfterCall(p, answer)
        BY <1>10 DEF Answer
    <2>2. pc[p] = "calling" /\ UNCHANGED <<now, landed, admitted, local, faults>>
        BY <1>10 DEF Answer
    <2>3. \E row \in Rows : rows' = rows \cup {row} /\ row.at = at[p]
        BY <2>1, <2>2, ReasonType, RecordTypes
    <2> QED
        BY <1>9, <2>1, <2>2, <2>3 DEF Records
<1>11. CASE AnswerUnrecorded(p)
    BY <1>9, <1>11 DEF AnswerUnrecorded, Retires
<1>12. CASE NewScope(p)
    BY <1>12 DEF NewScope, TypeOK, Elsewhere, Retires
<1> QED
    BY <1>1, <1>2, <1>3, <1>4, <1>5, <1>6, <1>7, <1>8, <1>10, <1>11, <1>12 DEF Step
-----------------------------------------------------------------------------
(* Counting rows R and processes C against a limit.                          *)

LEMMA FewerCounted ==
    ASSUME NEW R, NEW C, NEW R2 \in SUBSET R, NEW C2 \in SUBSET C, IsFiniteSet(R), IsFiniteSet(C),
           NEW limit \in Int, Cardinality(R) + Cardinality(C) <= limit
    PROVE  Cardinality(R2) + Cardinality(C2) <= limit
<1>1. /\ Cardinality(R2) <= Cardinality(R) /\ Cardinality(R) \in Nat /\ Cardinality(R2) \in Nat
      /\ Cardinality(C2) <= Cardinality(C) /\ Cardinality(C) \in Nat /\ Cardinality(C2) \in Nat
    BY FS_Subset, FS_CardinalityType
<1> QED
    BY <1>1

\* A process becomes a row.
LEMMA MovedCount ==
    ASSUME NEW R, NEW C, IsFiniteSet(R), IsFiniteSet(C), NEW x, NEW p \in C,
           NEW R2 \in SUBSET (R \cup {x}), NEW C2 \in SUBSET (C \ {p}),
           NEW limit \in Int, Cardinality(R) + Cardinality(C) <= limit
    PROVE  Cardinality(R2) + Cardinality(C2) <= limit
<1>1. Cardinality(R) \in Nat /\ Cardinality(C) \in Nat
    BY FS_CardinalityType
<1>2. IsFiniteSet(R \cup {x}) /\ Cardinality(R \cup {x}) <= Cardinality(R) + 1
    <2>1. /\ IsFiniteSet(R \cup {x})
          /\ Cardinality(R \cup {x}) = IF x \in R THEN Cardinality(R) ELSE Cardinality(R) + 1
        BY FS_AddElement
    <2> QED
        BY <1>1, <2>1
<1>3. IsFiniteSet(C \ {p}) /\ Cardinality(C \ {p}) = Cardinality(C) - 1
    BY FS_RemoveElement
<1>4. Cardinality(R \cup {x}) + Cardinality(C \ {p}) <= limit
    BY <1>1, <1>2, <1>3, FS_CardinalityType
<1> QED
    BY <1>2, <1>3, <1>4, FewerCounted

\* When the rows are below the limit, every process may still add one.
LEMMA RoomForEach ==
    ASSUME NEW R, IsFiniteSet(R), NEW C \in SUBSET Procs, NEW limit \in Nat, Cardinality(R) < limit
    PROVE  Cardinality(R) + Cardinality(C) <= limit + Cardinality(Procs) - 1
<1>1. /\ Cardinality(R) \in Nat /\ Cardinality(Procs) \in Nat
      /\ Cardinality(C) <= Cardinality(Procs) /\ Cardinality(C) \in Nat
    BY ProcsAssumption, FS_Subset, FS_CardinalityType
<1> QED
    BY <1>1
-----------------------------------------------------------------------------
(* The daily budget.                                                         *)

Waiting == {"queue", "sleep", "recheck", "admitted"}

\* Nothing is stamped with a time that has not come.
NotAhead ==
    /\ \A r \in rows : r.at <= now
    /\ \A p \in Procs : at[p] <= now /\ admitted[p][1] <= Day(now)

\* A gate has not admitted more than the budget, and less while it waits.
OwnShare ==
    \A p \in Procs : AdmittedToday(p) <= Budget /\ (pc[p] \in Waiting => AdmittedToday(p) < Budget)

\* The processes that count against the budget of day d: a call of that day is
\* in flight, or the budget check of a call of today has been passed.
Charged(d) ==
    {p \in Procs : \/ pc[p] = "calling" /\ Day(at[p]) = d
                   \/ pc[p] \in Waiting /\ Day(now) = d}

BudgetSum ==
    \A d \in Nat : Cardinality(RowsOn(d)) + Cardinality(Charged(d)) <= Budget + Cardinality(Procs) - 1

BudgetInv == TypeOK /\ NotAhead /\ OwnShare /\ BudgetSum

LEMMA FiniteCounts ==
    ASSUME TypeOK
    PROVE  /\ IsFiniteSet(rows) /\ IsFiniteSet(Procs) /\ Cardinality(Procs) \in Nat
           /\ Budget + Cardinality(Procs) - 1 \in Int /\ Calls + Cardinality(Procs) - 1 \in Int
           /\ \A d : IsFiniteSet(RowsOn(d)) /\ IsFiniteSet(Charged(d))
<1>1. IsFiniteSet(rows) /\ IsFiniteSet(Procs) /\ Cardinality(Procs) \in Nat
    BY ProcsAssumption, FS_CardinalityType DEF TypeOK
<1>2. ASSUME NEW d PROVE IsFiniteSet(RowsOn(d)) /\ IsFiniteSet(Charged(d))
    <2>1. RowsOn(d) \in SUBSET rows /\ Charged(d) \in SUBSET Procs
        BY DEF RowsOn, Charged
    <2> QED
        BY <1>1, <2>1, FS_Subset
<1> QED
    BY <1>1, <1>2, CapacityAssumption

LEMMA BudgetInvInit == Init => BudgetInv
<1> SUFFICES ASSUME Init PROVE BudgetInv
    OBVIOUS
<1>1. TypeOK
    BY TypeInit
<1>2. NotAhead
    BY CapacityAssumption DEF Init, NotAhead, Day
<1>3. OwnShare
    BY CapacityAssumption DEF Init, OwnShare, AdmittedToday, Waiting
<1>4. ASSUME NEW d \in Nat
      PROVE  Cardinality(RowsOn(d)) + Cardinality(Charged(d)) <= Budget + Cardinality(Procs) - 1
    <2>1. RowsOn(d) = {} /\ Charged(d) \in SUBSET Procs
        BY DEF Init, RowsOn, Charged
    <2>2. Cardinality(RowsOn(d)) < Budget /\ IsFiniteSet(RowsOn(d))
        BY <2>1, FS_EmptySet, CapacityAssumption
    <2> QED
        BY <2>1, <2>2, RoomForEach, CapacityAssumption
<1> QED
    BY <1>1, <1>2, <1>3, <1>4 DEF BudgetInv, BudgetSum

\* The clock moves: on a new day there is no row, and every process that waits
\* is charged to it.
LEMMA BudgetPass == BudgetInv /\ Pass => BudgetInv'
<1> SUFFICES ASSUME BudgetInv, Pass PROVE BudgetInv'
    OBVIOUS
<1>1. TypeOK'
    BY TypeNext DEF BudgetInv, Next
<1>2. now \in Nat /\ now' = now + 1 /\ UNCHANGED <<rows, pc, at, admitted>>
    BY DEF BudgetInv, TypeOK, Times, Pass, procState
<1>3. Day(now) \in Nat /\ Day(now') \in Nat /\ Day(now) <= Day(now')
    BY <1>2, DayMonotone
<1>4. NotAhead'
    <2>1. \A r \in rows : r.at \in Nat
        BY DEF BudgetInv, TypeOK, Rows, Times
    <2>2. \A p \in Procs : at[p] \in Nat /\ admitted[p][1] \in Nat
        BY <1>3, CapacityAssumption DEF BudgetInv, TypeOK, Times, Day
    <2> QED
        BY <1>2, <1>3, <2>1, <2>2 DEF BudgetInv, NotAhead, Day
<1>5. OwnShare'
    <2>1. ASSUME NEW p \in Procs PROVE AdmittedToday(p)' \in {AdmittedToday(p), 0}
        <3>1. admitted[p][1] \in Nat /\ admitted[p][1] <= Day(now)
            BY DEF BudgetInv, TypeOK, NotAhead
        <3> QED
            BY <1>2, <1>3, <3>1 DEF AdmittedToday, Day
    <2> QED
        BY <1>2, <2>1, CapacityAssumption DEF BudgetInv, OwnShare
<1>6. ASSUME NEW d \in Nat
      PROVE  (Cardinality(RowsOn(d)) + Cardinality(Charged(d)) <= Budget + Cardinality(Procs) - 1)'
    <2>1. CASE d = Day(now') /\ d # Day(now)
        <3>1. \A r \in rows : r.at \in Nat /\ r.at <= now
            BY DEF BudgetInv, NotAhead, TypeOK, Rows, Times
        <3>2. \A r \in rows : Day(r.at) \in Nat /\ Day(r.at) <= Day(now)
            BY <1>2, <3>1, DayMonotone
        <3>3. RowsOn(d)' = {} /\ Charged(d)' \in SUBSET Procs
            BY <1>2, <1>3, <2>1, <3>2 DEF RowsOn, Charged, Day
        <3>4. Cardinality(RowsOn(d)') < Budget /\ IsFiniteSet(RowsOn(d)')
            BY <3>3, FS_EmptySet, CapacityAssumption
        <3> QED
            BY <3>3, <3>4, RoomForEach, CapacityAssumption
    <2>2. CASE ~(d = Day(now') /\ d # Day(now))
        <3>1. RowsOn(d)' \in SUBSET RowsOn(d) /\ Charged(d)' \in SUBSET Charged(d)
            BY <1>2, <2>2 DEF RowsOn, Charged, Day
        <3>2. Cardinality(RowsOn(d)) + Cardinality(Charged(d)) <= Budget + Cardinality(Procs) - 1
            BY DEF BudgetInv, BudgetSum
        <3> QED
            BY <3>1, <3>2, FiniteCounts, FewerCounted DEF BudgetInv
    <2> QED
        BY <2>1, <2>2
<1> QED
    BY <1>1, <1>4, <1>5, <1>6 DEF BudgetInv, BudgetSum

\* A step of a process: the budget check needs room, and everything after it
\* keeps the process charged until its call is a row.
LEMMA BudgetStep ==
    ASSUME BudgetInv, NEW p \in Procs, Step(p)
    PROVE  BudgetInv'
<1>1. TypeOK'
    BY TypeNext DEF BudgetInv, Next
<1>2. Elsewhere(p) /\ (Retires(p) \/ PassesBudget(p) \/ Waits(p) \/ PassesQueue(p) \/ PassesRecheck(p)
                         \/ Starts(p) \/ Records(p))
    BY StepEffect DEF BudgetInv
<1>3. now \in Nat /\ now' = now /\ Day(now) \in Nat
    BY <1>2, DayMonotone DEF BudgetInv, TypeOK, Times, Retires, Moves, PassesBudget, Waits, PassesQueue,
        PassesRecheck, Starts, Records
<1>4. NotAhead'
    <2>1. \A r \in rows' : r.at <= now
        BY <1>2 DEF BudgetInv, NotAhead, Retires, Moves, PassesBudget, Waits, PassesQueue,
            PassesRecheck, Starts, Records
    <2>2. at'[p] <= now /\ admitted'[p][1] <= Day(now)
        BY <1>2, <1>3 DEF BudgetInv, NotAhead, Retires, Moves, PassesBudget, Waits, PassesQueue,
            PassesRecheck, Starts, Records
    <2> QED
        BY <1>2, <1>3, <2>1, <2>2 DEF BudgetInv, NotAhead, Elsewhere, Day
<1>5. OwnShare'
    <2>1. \A q \in Procs \ {p} : AdmittedToday(q)' = AdmittedToday(q) /\ pc'[q] = pc[q]
        BY <1>2, <1>3 DEF AdmittedToday, Elsewhere, Day
    <2>2. AdmittedToday(p)' <= Budget /\ (pc'[p] \in Waiting => AdmittedToday(p)' < Budget)
        <3>1. AdmittedToday(p) \in Nat /\ AdmittedToday(p) <= Budget /\ Budget \in Nat \ {0}
            BY CapacityAssumption DEF BudgetInv, OwnShare, AdmittedToday, TypeOK
        <3>2. CASE Retires(p)
            BY <1>3, <3>1, <3>2 DEF Retires, AdmittedToday, Waiting, Day
        <3>3. CASE PassesBudget(p)
            <4>1. AdmittedToday(p) <= Spent(p)
                BY <3>1, SpentType DEF BudgetInv, Spent, Larger
            <4>2. AdmittedToday(p)' = AdmittedToday(p) /\ Spent(p) < Budget
                BY <1>3, <3>3 DEF PassesBudget, Moves, AdmittedToday, Day
            <4> QED
                BY <3>1, <4>1, <4>2, SpentType DEF BudgetInv
        <3>4. CASE Waits(p) \/ PassesQueue(p) \/ PassesRecheck(p)
            <4>1. AdmittedToday(p)' = AdmittedToday(p) /\ pc[p] \in Waiting
                BY <1>3, <3>4 DEF Waits, PassesQueue, PassesRecheck, Moves, AdmittedToday, Waiting, Day
            <4> QED
                BY <4>1 DEF BudgetInv, OwnShare
        <3>5. CASE Starts(p)
            <4>1. AdmittedToday(p) < Budget
                BY <3>5 DEF BudgetInv, OwnShare, Starts, Waiting
            <4>2. AdmittedToday(p)' = AdmittedToday(p) + 1 /\ pc'[p] \notin Waiting
                BY <1>3, <3>5 DEF Starts, AdmittedToday, Waiting, Day
            <4> QED
                BY <3>1, <4>1, <4>2
        <3>6. CASE Records(p)
            BY <1>3, <3>1, <3>6 DEF Records, AdmittedToday, Waiting, Day
        <3> QED
            BY <1>2, <3>2, <3>3, <3>4, <3>5, <3>6
    <2> QED
        BY <2>1, <2>2 DEF BudgetInv, OwnShare
<1>6. ASSUME NEW d \in Nat
      PROVE  (Cardinality(RowsOn(d)) + Cardinality(Charged(d)) <= Budget + Cardinality(Procs) - 1)'
    <2>1. /\ Cardinality(RowsOn(d)) + Cardinality(Charged(d)) <= Budget + Cardinality(Procs) - 1
          /\ IsFiniteSet(RowsOn(d)) /\ IsFiniteSet(Charged(d)) /\ Budget + Cardinality(Procs) - 1 \in Int
        BY FiniteCounts DEF BudgetInv, BudgetSum
    <2>2. CASE Retires(p) \/ Waits(p) \/ PassesQueue(p) \/ PassesRecheck(p) \/ Starts(p)
        <3>1. RowsOn(d)' \in SUBSET RowsOn(d)
            BY <2>2 DEF RowsOn, Retires, Waits, PassesQueue, PassesRecheck, Starts, Moves, Day
        <3>2. p \in Charged(d)' => p \in Charged(d)
            BY <1>3, <2>2 DEF Charged, Waiting, Retires, Waits, PassesQueue, PassesRecheck, Starts, Moves, Day
        <3>3. Charged(d)' \in SUBSET Charged(d)
            BY <1>2, <1>3, <3>2 DEF Charged, Elsewhere, Day
        <3> QED
            BY <2>1, <3>1, <3>3, FewerCounted
    <2>3. CASE PassesBudget(p) /\ d = Day(now)
        <3>1. RowsOn(d)' = RowsOn(d)
            BY <2>3 DEF PassesBudget, Moves, RowsOn, Day
        <3>2. Cardinality(RowsOn(d)) <= Spent(p) /\ Spent(p) < Budget
            BY <2>3, SpentType DEF BudgetInv, PassesBudget, Spent, Larger
        <3>3. Cardinality(RowsOn(d)') < Budget /\ Charged(d)' \in SUBSET Procs /\ IsFiniteSet(RowsOn(d)')
            BY <2>1, <2>3, <3>1, <3>2, SpentType, CapacityAssumption DEF BudgetInv, Charged
        <3> QED
            BY <3>3, RoomForEach, CapacityAssumption
    <2>4. CASE PassesBudget(p) /\ d # Day(now)
        <3>1. RowsOn(d)' \in SUBSET RowsOn(d) /\ Charged(d)' \in SUBSET Charged(d)
            BY <1>2, <1>3, <2>4 DEF PassesBudget, Moves, RowsOn, Charged, Waiting, Elsewhere, Day
        <3> QED
            BY <2>1, <3>1, FewerCounted
    <2>5. CASE Records(p)
        <3>1. PICK row \in Rows : rows' = rows \cup {row} /\ row.at = at[p]
            BY <2>5 DEF Records
        <3>2. Charged(d)' \in SUBSET (Charged(d) \ {p})
            BY <1>2, <1>3, <2>5 DEF Records, Charged, Waiting, Elsewhere, Day
        <3>3. CASE Day(at[p]) = d
            <4> DEFINE R == RowsOn(d)
                       C == Charged(d)
                       R2 == RowsOn(d)'
                       C2 == Charged(d)'
                       limit == Budget + Cardinality(Procs) - 1
            <4>1. R2 \in SUBSET (R \cup {row})
                <5>1. R2 = {r \in rows' : Day(r.at) = d}
                    BY DEF RowsOn, Day
                <5> QED
                    BY <3>1, <5>1 DEF RowsOn
            <4>2. p \in C
                BY <2>5, <3>3 DEF Records, Charged
            <4>3. C2 \in SUBSET (C \ {p})
                BY <3>2
            <4>4. Cardinality(R) + Cardinality(C) <= limit /\ IsFiniteSet(R) /\ IsFiniteSet(C) /\ limit \in Int
                BY <2>1
            <4> HIDE DEF R, C, R2, C2, limit
            <4>5. Cardinality(R2) + Cardinality(C2) <= limit
                BY <4>1, <4>2, <4>3, <4>4, MovedCount
            <4> QED
                BY <4>5 DEF R2, C2, limit
        <3>4. CASE Day(at[p]) # d
            <4>1. RowsOn(d)' \in SUBSET RowsOn(d) /\ Charged(d)' \in SUBSET Charged(d)
                BY <3>1, <3>2, <3>4 DEF RowsOn, Day
            <4> QED
                BY <2>1, <4>1, FewerCounted
        <3> QED
            BY <3>3, <3>4
    <2> QED
        BY <1>2, <2>2, <2>3, <2>4, <2>5
<1> QED
    BY <1>1, <1>4, <1>5, <1>6 DEF BudgetInv, BudgetSum

\* The budget invariant holds always.
LEMMA BudgetInvNext == BudgetInv /\ [Next]_vars => BudgetInv'
<1> SUFFICES ASSUME BudgetInv, [Next]_vars PROVE BudgetInv'
    OBVIOUS
<1>1. CASE UNCHANGED vars
    BY <1>1 DEF vars, procState, BudgetInv, TypeOK, NotAhead, OwnShare, BudgetSum, RowsOn, Charged, AdmittedToday, Day
<1> QED
    BY <1>1, BudgetPass, BudgetStep DEF Next

LEMMA BudgetAlways == Spec => []BudgetInv
BY BudgetInvInit, BudgetInvNext, PTL DEF Spec
-----------------------------------------------------------------------------
(* The rate window.                                                          *)

\* The rows and the calls in flight of the window that ends at t.
RowsIn(t) == {r \in rows : r.at > t - Window /\ r.at <= t}
FlightsIn(t) == {p \in Procs : pc[p] = "calling" /\ at[p] > t - Window /\ at[p] <= t}

\* The processes that count against the window of now: the queue has admitted
\* their call, or it started within the window.
Holding ==
    {p \in Procs : \/ pc[p] \in {"recheck", "admitted"}
                   \/ pc[p] = "calling" /\ at[p] > now - Window}

PastWindows ==
    \A t \in Nat : t < now =>
        Cardinality(RowsIn(t)) + Cardinality(FlightsIn(t)) <= Calls + Cardinality(Procs) - 1

ThisWindow == Cardinality(Recent(now)) + Cardinality(Holding) <= Calls + Cardinality(Procs) - 1

WindowInv == BudgetInv /\ PastWindows /\ ThisWindow

LEMMA FiniteWindows ==
    ASSUME TypeOK
    PROVE  /\ IsFiniteSet(Recent(now)) /\ IsFiniteSet(Holding) /\ Calls + Cardinality(Procs) - 1 \in Int
           /\ \A t : IsFiniteSet(RowsIn(t)) /\ IsFiniteSet(FlightsIn(t))
<1>1. /\ Recent(now) \in SUBSET rows /\ Holding \in SUBSET Procs
      /\ \A t : RowsIn(t) \in SUBSET rows /\ FlightsIn(t) \in SUBSET Procs
    BY DEF Recent, Holding, RowsIn, FlightsIn
<1> QED
    BY <1>1, FiniteCounts, FS_Subset

\* A call in flight becomes a row, inside or outside of what is counted.
LEMMA RecordedCount ==
    ASSUME NEW R, NEW C, IsFiniteSet(R), IsFiniteSet(C), NEW x, NEW p,
           NEW R2 \in SUBSET (R \cup {x}), NEW C2 \in SUBSET (C \ {p}), p \in C \/ x \notin R2,
           NEW limit \in Int, Cardinality(R) + Cardinality(C) <= limit
    PROVE  Cardinality(R2) + Cardinality(C2) <= limit
<1>1. CASE p \in C
    BY <1>1, MovedCount
<1>2. CASE x \notin R2
    <2>1. R2 \in SUBSET R /\ C2 \in SUBSET C
        BY <1>2
    <2> QED
        BY <2>1, FewerCounted
<1> QED
    BY <1>1, <1>2

LEMMA WindowInvInit == Init => WindowInv
<1> SUFFICES ASSUME Init PROVE WindowInv
    OBVIOUS
<1>1. BudgetInv
    BY BudgetInvInit
<1>2. PastWindows
    BY DEF Init, PastWindows
<1>3. ThisWindow
    <2>1. Recent(now) = {} /\ Holding \in SUBSET Procs
        BY DEF Init, Recent, Holding
    <2>2. Cardinality(Recent(now)) < Calls /\ IsFiniteSet(Recent(now))
        BY <2>1, FS_EmptySet, CapacityAssumption
    <2> QED
        BY <2>1, <2>2, RoomForEach, CapacityAssumption DEF ThisWindow
<1> QED
    BY <1>1, <1>2, <1>3 DEF WindowInv

\* The clock moves: the window of now becomes a past one, and the next holds no
\* more than it.
LEMMA WindowPass ==
    ASSUME WindowInv, Pass
    PROVE  WindowInv'
<1>1. BudgetInv'
    BY BudgetInvNext DEF WindowInv, Next
<1>2. now \in Nat /\ now' = now + 1 /\ Window \in Nat /\ UNCHANGED <<rows, pc, at>>
    BY CapacityAssumption DEF WindowInv, BudgetInv, TypeOK, Times, Pass, procState
<1>3. /\ \A r \in rows : r.at \in Nat /\ r.at <= now
      /\ \A p \in Procs : at[p] \in Nat /\ at[p] <= now
    BY DEF WindowInv, BudgetInv, NotAhead, TypeOK, Rows, Times
<1>4. /\ IsFiniteSet(Recent(now)) /\ IsFiniteSet(Holding) /\ Calls + Cardinality(Procs) - 1 \in Int
      /\ Cardinality(Recent(now)) + Cardinality(Holding) <= Calls + Cardinality(Procs) - 1
    BY FiniteWindows DEF WindowInv, BudgetInv, ThisWindow
<1>5. ASSUME NEW t \in Nat, t < now'
      PROVE  (Cardinality(RowsIn(t)) + Cardinality(FlightsIn(t)) <= Calls + Cardinality(Procs) - 1)'
    <2>1. RowsIn(t)' = RowsIn(t) /\ FlightsIn(t)' = FlightsIn(t)
        BY <1>2 DEF RowsIn, FlightsIn
    <2>2. CASE t < now
        BY <2>1, <2>2 DEF WindowInv, PastWindows
    <2>3. CASE t = now
        <3>1. RowsIn(t)' \in SUBSET Recent(now) /\ FlightsIn(t)' \in SUBSET Holding
            BY <2>1, <2>3 DEF RowsIn, FlightsIn, Recent, Holding
        <3> QED
            BY <1>4, <3>1, FewerCounted
    <2> QED
        BY <1>2, <1>5, <2>2, <2>3
<1>6. ThisWindow'
    <2>1. Recent(now)' \in SUBSET Recent(now) /\ Holding' \in SUBSET Holding
        BY <1>2, <1>3 DEF Recent, Holding
    <2> QED
        BY <1>4, <2>1, FewerCounted DEF ThisWindow
<1> QED
    BY <1>1, <1>5, <1>6 DEF WindowInv, PastWindows

\* A step of a process: the queue needs room in the window, and what it admits
\* counts until the call is a row.
LEMMA WindowStep ==
    ASSUME WindowInv, NEW p \in Procs, Step(p)
    PROVE  WindowInv'
<1>1. BudgetInv'
    BY BudgetInvNext DEF WindowInv, Next
<1>2. Elsewhere(p) /\ (Retires(p) \/ PassesBudget(p) \/ Waits(p) \/ PassesQueue(p) \/ PassesRecheck(p)
                         \/ Starts(p) \/ Records(p))
    BY StepEffect DEF WindowInv, BudgetInv
<1>3. now \in Nat /\ now' = now /\ Window \in Nat /\ \A q \in Procs : at[q] \in Nat /\ at[q] <= now
    BY <1>2, CapacityAssumption DEF WindowInv, BudgetInv, NotAhead, TypeOK, Times, Retires, Moves, PassesBudget,
        Waits, PassesQueue, PassesRecheck, Starts, Records
<1> DEFINE limit == Calls + Cardinality(Procs) - 1
<1>4. /\ IsFiniteSet(Recent(now)) /\ IsFiniteSet(Holding) /\ limit \in Int
      /\ \A t : IsFiniteSet(RowsIn(t)) /\ IsFiniteSet(FlightsIn(t))
      /\ Cardinality(Recent(now)) + Cardinality(Holding) <= limit
    BY FiniteWindows DEF WindowInv, BudgetInv, ThisWindow
<1>5. ASSUME NEW t \in Nat, t < now'
      PROVE  Cardinality(RowsIn(t)') + Cardinality(FlightsIn(t)') <= limit
    <2>1. Cardinality(RowsIn(t)) + Cardinality(FlightsIn(t)) <= limit
        BY <1>3, <1>5 DEF WindowInv, PastWindows
    <2> HIDE DEF limit
    <2>2. CASE ~Records(p)
        <3>1. rows' = rows
            BY <1>2, <2>2 DEF Retires, Waits, PassesQueue, PassesRecheck, PassesBudget, Starts, Moves
        <3>2. p \in FlightsIn(t)' => p \in FlightsIn(t)
            BY <1>2, <1>3, <1>5, <2>2 DEF FlightsIn, Retires, Waits, PassesQueue, PassesRecheck, PassesBudget, Starts, Moves
        <3>3. RowsIn(t)' \in SUBSET RowsIn(t) /\ FlightsIn(t)' \in SUBSET FlightsIn(t)
            BY <1>2, <3>1, <3>2 DEF RowsIn, FlightsIn, Elsewhere
        <3> QED
            BY <1>4, <2>1, <3>3, FewerCounted
    <2>3. CASE Records(p)
        <3>1. PICK row \in Rows : rows' = rows \cup {row} /\ row.at = at[p]
            BY <2>3 DEF Records
        <3>2. RowsIn(t)' \in SUBSET (RowsIn(t) \cup {row}) /\ (p \in FlightsIn(t) \/ row \notin RowsIn(t)')
            BY <2>3, <3>1 DEF Records, RowsIn, FlightsIn
        <3>3. FlightsIn(t)' \in SUBSET (FlightsIn(t) \ {p})
            BY <1>2, <2>3 DEF Records, FlightsIn, Elsewhere
        <3>4. IsFiniteSet(RowsIn(t)) /\ IsFiniteSet(FlightsIn(t)) /\ limit \in Int
            BY <1>4
        <3> DEFINE R == RowsIn(t)
                   C == FlightsIn(t)
                   R2 == RowsIn(t)'
                   C2 == FlightsIn(t)'
        <3> HIDE DEF R, C, R2, C2
        <3>5. Cardinality(R2) + Cardinality(C2) <= limit
            <4>1. R2 \in SUBSET (R \cup {row}) /\ C2 \in SUBSET (C \ {p}) /\ (p \in C \/ row \notin R2)
                BY <3>2, <3>3 DEF R, C, R2, C2
            <4>2. IsFiniteSet(R) /\ IsFiniteSet(C) /\ Cardinality(R) + Cardinality(C) <= limit
                BY <2>1, <3>4 DEF R, C
            <4> QED
                BY <3>4, <4>1, <4>2, RecordedCount
        <3> QED
            BY <3>5 DEF R2, C2
    <2> QED
        BY <2>2, <2>3
<1>6. Cardinality(Recent(now)') + Cardinality(Holding') <= limit
    <2>1. CASE Retires(p) \/ PassesBudget(p) \/ Waits(p) \/ PassesRecheck(p) \/ Starts(p)
        <3>1. rows' = rows
            BY <2>1 DEF Retires, Waits, PassesRecheck, PassesBudget, Starts, Moves
        <3>2. p \in Holding' => p \in Holding
            BY <1>3, <2>1 DEF Holding, Retires, Waits, PassesRecheck, PassesBudget, Starts, Moves
        <3>3. Recent(now)' \in SUBSET Recent(now) /\ Holding' \in SUBSET Holding
            BY <1>2, <1>3, <3>1, <3>2 DEF Recent, Holding, Elsewhere
        <3> QED
            BY <1>4, <3>3, FewerCounted
    <2>2. CASE PassesQueue(p)
        <3>1. Recent(now)' = Recent(now) /\ Holding' \in SUBSET Procs /\ Cardinality(Recent(now)) < Calls
            BY <2>2 DEF PassesQueue, Moves, Recent, Holding
        <3> QED
            BY <1>4, <3>1, RoomForEach, CapacityAssumption
    <2>3. CASE Records(p)
        <3>1. PICK row \in Rows : rows' = rows \cup {row} /\ row.at = at[p]
            BY <2>3 DEF Records
        <3>2. Recent(now)' \in SUBSET (Recent(now) \cup {row}) /\ (p \in Holding \/ row \notin Recent(now)')
            BY <1>3, <2>3, <3>1 DEF Records, Recent, Holding
        <3>3. Holding' \in SUBSET (Holding \ {p})
            BY <1>2, <1>3, <2>3 DEF Records, Holding, Elsewhere
        <3> HIDE DEF limit
        <3> QED
            BY <1>4, <3>2, <3>3, RecordedCount
    <2> QED
        BY <1>2, <2>1, <2>2, <2>3
<1> QED
    BY <1>1, <1>3, <1>5, <1>6 DEF WindowInv, PastWindows, ThisWindow

LEMMA WindowInvNext == WindowInv /\ [Next]_vars => WindowInv'
<1> SUFFICES ASSUME WindowInv, [Next]_vars PROVE WindowInv'
    OBVIOUS
<1>1. CASE UNCHANGED vars
    <2>1. BudgetInv'
        BY BudgetInvNext DEF WindowInv
    <2> QED
        BY <1>1, <2>1 DEF vars, procState, WindowInv, PastWindows, ThisWindow, RowsIn, FlightsIn, Recent, Holding
<1> QED
    BY <1>1, WindowPass, WindowStep DEF Next
-----------------------------------------------------------------------------
(* The index of landed keys.                                                 *)

Users == Procs \ Forced

\* The rows of a key that the nightly verdict would call repeats of each other.
OrdinaryRows(k) == {r \in rows : r.key = k /\ r.verdict = "ordinary"}

\* The processes that missed the key and may still add such a row, and those
\* that have added one and are about to land the key.
Fetching(k) ==
    {p \in Users : keep[p] /\ key[p] = k /\ pc[p] \in Waiting \cup {"budget", "calling"}}
Landing(k) == {p \in Users : key[p] = k /\ pc[p] = "land"}

\* Until the key has landed, a row is of a process that lands it or met a fault;
\* then the processes that missed it together are all that can add one.
RepeatsOf(k) ==
    IF k \in landed
    THEN Cardinality(OrdinaryRows(k)) + Cardinality(Fetching(k)) <= Cardinality(Users) + faults
    ELSE Cardinality(OrdinaryRows(k)) <= Cardinality(Landing(k)) + faults

RepeatsInv == TypeOK /\ \A k \in Keys : RepeatsOf(k)

LEMMA RepeatTypes ==
    ASSUME TypeOK, NEW k
    PROVE  /\ IsFiniteSet(OrdinaryRows(k)) /\ Cardinality(OrdinaryRows(k)) \in Nat
           /\ IsFiniteSet(Fetching(k)) /\ Cardinality(Fetching(k)) \in Nat
           /\ IsFiniteSet(Landing(k)) /\ Cardinality(Landing(k)) \in Nat
           /\ IsFiniteSet(Users) /\ Cardinality(Users) \in Nat /\ faults \in Nat
<1>1. /\ IsFiniteSet(rows) /\ IsFiniteSet(Procs) /\ Users \in SUBSET Procs
      /\ OrdinaryRows(k) \in SUBSET rows /\ Fetching(k) \in SUBSET Procs /\ Landing(k) \in SUBSET Procs
    BY ProcsAssumption DEF TypeOK, Users, OrdinaryRows, Fetching, Landing
<1>2. faults \in Nat
    BY CapacityAssumption DEF TypeOK
<1> QED
    BY <1>1, <1>2, FS_Subset, FS_CardinalityType

LEMMA RepeatTypesPrimed ==
    ASSUME TypeOK', NEW k
    PROVE  /\ IsFiniteSet(OrdinaryRows(k)') /\ Cardinality(OrdinaryRows(k)') \in Nat
           /\ IsFiniteSet(Fetching(k)') /\ Cardinality(Fetching(k)') \in Nat
           /\ IsFiniteSet(Landing(k)') /\ Cardinality(Landing(k)') \in Nat
           /\ faults' \in Nat
<1>1. /\ IsFiniteSet(rows') /\ IsFiniteSet(Procs)
      /\ OrdinaryRows(k)' \in SUBSET rows' /\ Fetching(k)' \in SUBSET Procs /\ Landing(k)' \in SUBSET Procs
    BY ProcsAssumption DEF TypeOK, Users, OrdinaryRows, Fetching, Landing
<1>2. faults' \in Nat
    BY CapacityAssumption DEF TypeOK
<1> QED
    BY <1>1, <1>2, FS_Subset, FS_CardinalityType

\* A step that adds no ordinary row, lands nothing and lets nobody past a key
\* that has landed.
LEMMA RepeatsQuiet ==
    ASSUME TypeOK, TypeOK', NEW k, RepeatsOf(k), faults <= faults', landed' = landed,
           OrdinaryRows(k)' \subseteq OrdinaryRows(k), Landing(k) \subseteq Landing(k)',
           k \in landed => Fetching(k)' \subseteq Fetching(k)
    PROVE  RepeatsOf(k)'
<1> DEFINE O == OrdinaryRows(k)
           O2 == OrdinaryRows(k)'
           F == Fetching(k)
           F2 == Fetching(k)'
           L == Landing(k)
           L2 == Landing(k)'
<1>1. /\ IsFiniteSet(O) /\ Cardinality(O) \in Nat /\ IsFiniteSet(F) /\ Cardinality(F) \in Nat
      /\ IsFiniteSet(L) /\ Cardinality(L) \in Nat /\ Cardinality(Users) \in Nat /\ faults \in Nat
    BY RepeatTypes
<1>2. /\ IsFiniteSet(O2) /\ Cardinality(O2) \in Nat /\ IsFiniteSet(F2) /\ Cardinality(F2) \in Nat
      /\ IsFiniteSet(L2) /\ Cardinality(L2) \in Nat /\ faults' \in Nat
    BY RepeatTypesPrimed
<1>3. Cardinality(O2) <= Cardinality(O) /\ Cardinality(L) <= Cardinality(L2)
    BY <1>1, <1>2, FS_Subset
<1>4. k \in landed => Cardinality(F2) <= Cardinality(F)
    BY <1>1, FS_Subset
<1> QED
    BY <1>1, <1>2, <1>3, <1>4 DEF RepeatsOf

\* The other processes go on with what they are fetching.
Others(p) ==
    \A q \in Procs \ {p} : pc'[q] = pc[q] /\ key'[q] = key[q] /\ keep'[q] = keep[q]

\* A fault pays for the one process it lets past the index, or keeps from
\* landing its key.
LEMMA RepeatsFault ==
    ASSUME TypeOK, TypeOK', NEW k, RepeatsOf(k), NEW p \in Procs, Others(p),
           faults' = faults + 1, UNCHANGED <<rows, landed>>
    PROVE  RepeatsOf(k)'
<1> DEFINE O == OrdinaryRows(k)
           F == Fetching(k)
           F2 == Fetching(k)'
           L == Landing(k)
           L2 == Landing(k)'
<1>1. /\ Cardinality(O) \in Nat /\ IsFiniteSet(F) /\ Cardinality(F) \in Nat
      /\ IsFiniteSet(L) /\ Cardinality(L) \in Nat /\ Cardinality(Users) \in Nat /\ faults \in Nat
    BY RepeatTypes
<1>2. /\ IsFiniteSet(F2) /\ Cardinality(F2) \in Nat /\ IsFiniteSet(L2) /\ Cardinality(L2) \in Nat
    BY RepeatTypesPrimed
<1>3. OrdinaryRows(k)' = O
    BY DEF OrdinaryRows
<1>4. F2 \in SUBSET (F \cup {p}) /\ L \in SUBSET (L2 \cup {p})
    BY DEF Fetching, Landing, Others, Users
<1> HIDE DEF O, F, F2, L, L2
<1>5. Cardinality(F2) <= Cardinality(F) + 1 /\ Cardinality(L) <= Cardinality(L2) + 1
    <2>1. ASSUME NEW S, IsFiniteSet(S)
          PROVE  /\ IsFiniteSet(S \cup {p}) /\ Cardinality(S \cup {p}) \in Nat
                 /\ Cardinality(S \cup {p}) <= Cardinality(S) + 1
        <3>1. Cardinality(S) \in Nat
            BY <2>1, FS_CardinalityType
        <3>2. /\ IsFiniteSet(S \cup {p})
              /\ Cardinality(S \cup {p}) = Cardinality(S) \/ Cardinality(S \cup {p}) = Cardinality(S) + 1
            BY <2>1, FS_AddElement
        <3> QED
            BY <3>1, <3>2
    <2>2. /\ IsFiniteSet(F \cup {p}) /\ Cardinality(F \cup {p}) \in Nat
          /\ Cardinality(F \cup {p}) <= Cardinality(F) + 1
          /\ IsFiniteSet(L2 \cup {p}) /\ Cardinality(L2 \cup {p}) \in Nat
          /\ Cardinality(L2 \cup {p}) <= Cardinality(L2) + 1
        BY <1>1, <1>2, <2>1
    <2> QED
        BY <1>1, <1>2, <1>4, <2>2, FS_Subset
<1>6. /\ k \in landed => Cardinality(O) + Cardinality(F2) <= Cardinality(Users) + faults'
      /\ k \notin landed => Cardinality(O) <= Cardinality(L2) + faults'
    BY <1>1, <1>2, <1>5 DEF RepeatsOf, O, F, L
<1> QED
    BY <1>3, <1>6 DEF RepeatsOf, F2, L2

\* land: the processes that land the key and those that missed it are apart, so
\* that what either may have added or may add is bounded by all of them.
LEMMA RepeatsLand ==
    ASSUME TypeOK, TypeOK', NEW k, RepeatsOf(k), NEW p \in Procs, Land(p)
    PROVE  RepeatsOf(k)'
<1>1. /\ Others(p) /\ pc[p] = "land" /\ pc'[p] = "idle" /\ key[p] \in Keys
      /\ landed' = landed \cup {key[p]} /\ UNCHANGED <<rows, faults>>
    BY DEF Land, Return, Goto, Others, TypeOK
<1>2. OrdinaryRows(k)' = OrdinaryRows(k) /\ Fetching(k)' \subseteq Fetching(k)
    BY <1>1 DEF OrdinaryRows, Fetching, Others, Users, Waiting
<1> DEFINE O == OrdinaryRows(k)
           F == Fetching(k)
           F2 == Fetching(k)'
           L == Landing(k)
<1>3. /\ Cardinality(O) \in Nat /\ IsFiniteSet(F) /\ Cardinality(F) \in Nat /\ IsFiniteSet(Users)
      /\ IsFiniteSet(L) /\ Cardinality(L) \in Nat /\ Cardinality(Users) \in Nat /\ faults \in Nat
    BY RepeatTypes
<1>4. IsFiniteSet(F2) /\ Cardinality(F2) \in Nat /\ Cardinality(F2) <= Cardinality(F)
    BY <1>2, <1>3, RepeatTypesPrimed, FS_Subset
<1>5. CASE k \in landed
    BY <1>1, <1>2, <1>3, <1>4, <1>5 DEF RepeatsOf
<1>6. CASE k \notin landed /\ key[p] = k
    <2>1. F \cap L = {} /\ (F \cup L) \in SUBSET Users
        BY DEF Fetching, Landing, Waiting
    <2>2. Cardinality(O) <= Cardinality(L) + faults
        BY <1>6 DEF RepeatsOf
    <2>3. k \in landed'
        BY <1>1, <1>6
    <2> HIDE DEF O, F, L
    <2>4. Cardinality(F \cup L) = Cardinality(F) + Cardinality(L)
        <3>1. Cardinality(F \cup L) = Cardinality(F) + Cardinality(L) - Cardinality(F \cap L)
            BY <1>3, FS_Union
        <3>2. Cardinality(F \cap L) = 0
            BY <2>1, FS_EmptySet
        <3> QED
            BY <1>3, <3>1, <3>2
    <2>5. Cardinality(F \cup L) <= Cardinality(Users)
        BY <1>3, <2>1, FS_Subset
    <2>6. Cardinality(O) + Cardinality(F2) <= Cardinality(Users) + faults
        BY <1>3, <1>4, <2>2, <2>4, <2>5
    <2> QED
        BY <1>1, <1>2, <2>3, <2>6 DEF RepeatsOf, O
<1>7. CASE k \notin landed /\ key[p] # k
    <2>1. L = Landing(k)'
        BY <1>1, <1>7 DEF Landing, Others, Users
    <2> QED
        BY <1>1, <1>2, <1>7, <2>1 DEF RepeatsOf
<1> QED
    BY <1>5, <1>6, <1>7

LEMMA ReturnsAlone ==
    ASSUME TypeOK, NEW p \in Procs, Return(p)
    PROVE  Others(p) /\ pc'[p] = "idle"
BY DEF TypeOK, Return, Goto, Others

\* record_call: an ordinary row is of a process that goes on to land the key.
LEMMA RepeatsAnswer ==
    ASSUME TypeOK, TypeOK', NEW k, RepeatsOf(k), NEW p \in Procs, Answer(p)
    PROVE  RepeatsOf(k)'
<1>1. PICK answer \in {"accepted", "refused", "error"} : Record(p, Reason(p, answer)) /\ AfterCall(p, answer)
    BY DEF Answer
<1>2. pc[p] = "calling" /\ UNCHANGED <<landed, faults>>
    BY DEF Answer
<1>3. PICK row \in Rows : rows' = rows \cup {row} /\ row.key = key[p] /\ row.verdict = Reason(p, answer)
    BY <1>1, <1>2, ReasonType, RecordTypes
<1>4. Others(p) /\ pc'[p] \in {"idle", "land"}
    <2>1. CASE Return(p)
        BY <2>1, ReturnsAlone
    <2>2. CASE Goto(p, "land") /\ UNCHANGED <<key, keep>>
        BY <2>2 DEF Goto, Others, TypeOK
    <2> QED
        BY <1>1, <2>1, <2>2 DEF AfterCall
<1>5. Fetching(k)' \subseteq Fetching(k) \ {p} /\ Landing(k) \subseteq Landing(k)'
    BY <1>2, <1>4 DEF Fetching, Landing, Others, Users, Waiting
<1>6. CASE Reason(p, answer) # "ordinary" \/ key[p] # k
    <2>1. OrdinaryRows(k)' \subseteq OrdinaryRows(k)
        BY <1>3, <1>6 DEF OrdinaryRows
    <2>2. Fetching(k)' \subseteq Fetching(k) /\ faults <= faults' /\ landed' = landed
        BY <1>2, <1>5, RepeatTypes
    <2> QED
        BY <1>5, <2>1, <2>2, RepeatsQuiet
<1>7. CASE Reason(p, answer) = "ordinary" /\ key[p] = k
    <2>1. answer = "accepted" /\ keep[p] /\ p \in Users
        BY <1>7 DEF Reason, Users
    <2>2. pc'[p] = "land" /\ key'[p] = k
        BY <1>1, <1>7, <2>1 DEF AfterCall, Goto, TypeOK, Users
    <2>3. OrdinaryRows(k)' \subseteq OrdinaryRows(k) \cup {row}
        BY <1>3 DEF OrdinaryRows
    <2>4. p \in Fetching(k) /\ p \notin Landing(k) /\ Landing(k) \cup {p} \subseteq Landing(k)'
        BY <1>2, <1>5, <1>7, <2>1, <2>2 DEF Fetching, Landing, Waiting
    <2> DEFINE O == OrdinaryRows(k)
               O2 == OrdinaryRows(k)'
               F == Fetching(k)
               F2 == Fetching(k)'
               L == Landing(k)
               L2 == Landing(k)'
               limit == Cardinality(Users) + faults
    <2>5. /\ IsFiniteSet(O) /\ Cardinality(O) \in Nat /\ IsFiniteSet(F) /\ Cardinality(F) \in Nat
          /\ IsFiniteSet(L) /\ Cardinality(L) \in Nat /\ limit \in Int /\ faults \in Nat
        BY RepeatTypes
    <2>6. /\ Cardinality(O2) \in Nat /\ Cardinality(F2) \in Nat /\ IsFiniteSet(L2) /\ Cardinality(L2) \in Nat
        BY RepeatTypesPrimed
    <2>7. /\ O2 \in SUBSET (O \cup {row}) /\ F2 \in SUBSET (F \ {p}) /\ p \in F
          /\ p \notin L /\ (L \cup {p}) \in SUBSET L2
        BY <1>5, <2>3, <2>4
    <2>8. k \in landed => Cardinality(O) + Cardinality(F) <= limit
        BY DEF RepeatsOf
    <2>9. k \notin landed => Cardinality(O) <= Cardinality(L) + faults
        BY DEF RepeatsOf
    <2> HIDE DEF O, O2, F, F2, L, L2, limit
    <2>10. k \in landed => Cardinality(O2) + Cardinality(F2) <= limit
        BY <2>5, <2>7, <2>8, MovedCount
    <2>11. k \notin landed => Cardinality(O2) <= Cardinality(L2) + faults
        <3>1. /\ IsFiniteSet(O \cup {row}) /\ IsFiniteSet(L \cup {p}) /\ Cardinality(L \cup {p}) = Cardinality(L) + 1
              /\ Cardinality(O \cup {row}) = Cardinality(O) \/ Cardinality(O \cup {row}) = Cardinality(O) + 1
            BY <2>5, <2>7, FS_AddElement
        <3>2. Cardinality(O2) <= Cardinality(O \cup {row}) /\ Cardinality(L \cup {p}) <= Cardinality(L2)
            BY <2>6, <2>7, <3>1, FS_Subset
        <3> QED
            BY <2>5, <2>6, <2>9, <3>1, <3>2
    <2> QED
        BY <1>2, <2>10, <2>11 DEF RepeatsOf, O2, F2, L2, limit
<1> QED
    BY <1>6, <1>7

\* The steps of a process that add no row, land no key and are no fault.
LEMMA RepeatsWalk ==
    ASSUME TypeOK, TypeOK', NEW k \in Keys, RepeatsOf(k), NEW p \in Procs,
           \/ \E j \in Keys : FetchOnce(p, j)
           \/ Landed(p) \/ CheckDailyBudget(p) \/ Queue(p) \/ Awake(p) \/ MakeCall(p) \/ NewScope(p)
    PROVE  RepeatsOf(k)'
<1>1. UNCHANGED <<rows, landed, faults>> /\ pc[p] # "land"
    BY DEF FetchOnce, Landed, CheckDailyBudget, Queue, Awake, MakeCall, NewScope
<1>2. Others(p) /\ (k \in landed /\ p \in Fetching(k)' => p \in Fetching(k))
    <2>1. ASSUME NEW j \in Keys, FetchOnce(p, j) PROVE Others(p) /\ p \notin Fetching(k)'
        BY <2>1 DEF FetchOnce, Goto, TypeOK, Fetching, Users, Waiting, Others
    <2>2. CASE Return(p)
        BY <2>2, ReturnsAlone DEF Fetching, Waiting
    <2>3. CASE Landed(p) /\ ~Return(p)
        BY <2>3 DEF Landed, Goto, TypeOK, Fetching, Users, Waiting, Others
    <2>4. ASSUME NEW l \in Waiting \cup {"calling"}, Goto(p, l), UNCHANGED <<key, keep>>,
                 pc[p] \in Waiting \cup {"budget"}
          PROVE  Others(p) /\ (p \in Fetching(k)' => p \in Fetching(k))
        BY <2>4 DEF Goto, TypeOK, Fetching, Others
    <2>5. CASE CheckDailyBudget(p) /\ ~Return(p)
        BY <2>4, <2>5 DEF CheckDailyBudget, Waiting
    <2>6. CASE Queue(p) /\ ~Return(p)
        BY <2>4, <2>6 DEF Queue, Waiting
    <2>7. CASE Awake(p) \/ MakeCall(p)
        BY <2>4, <2>7 DEF Awake, MakeCall, Waiting
    <2>8. CASE NewScope(p)
        BY <2>8 DEF NewScope, Fetching, Others
    <2> QED
        BY <2>1, <2>2, <2>3, <2>5, <2>6, <2>7, <2>8
<1>3. /\ OrdinaryRows(k)' \subseteq OrdinaryRows(k) /\ Landing(k) \subseteq Landing(k)'
      /\ k \in landed => Fetching(k)' \subseteq Fetching(k)
    BY <1>1, <1>2 DEF OrdinaryRows, Landing, Fetching, Others, Users
<1>4. faults <= faults'
    BY <1>1, RepeatTypes
<1> QED
    BY <1>1, <1>3, <1>4, RepeatsQuiet

LEMMA RepeatsInvInit == Init => RepeatsInv
<1> SUFFICES ASSUME Init PROVE RepeatsInv
    OBVIOUS
<1>1. TypeOK
    BY TypeInit
<1>2. ASSUME NEW k \in Keys PROVE RepeatsOf(k)
    <2>1. OrdinaryRows(k) = {} /\ k \notin landed
        BY DEF Init, OrdinaryRows
    <2>2. Cardinality(OrdinaryRows(k)) = 0
        BY <2>1, FS_EmptySet
    <2> QED
        BY <1>1, <2>1, <2>2, RepeatTypes DEF RepeatsOf
<1> QED
    BY <1>1, <1>2 DEF RepeatsInv

LEMMA RepeatsInvNext == RepeatsInv /\ [Next]_vars => RepeatsInv'
<1> SUFFICES ASSUME RepeatsInv, [Next]_vars PROVE RepeatsInv'
    OBVIOUS
<1>0. TypeOK'
    BY TypeNext DEF RepeatsInv
<1> SUFFICES ASSUME NEW k \in Keys PROVE RepeatsOf(k)'
    BY <1>0 DEF RepeatsInv
<1>1. TypeOK /\ TypeOK' /\ RepeatsOf(k)
    BY <1>0 DEF RepeatsInv
<1>2. CASE Pass \/ UNCHANGED vars
    BY <1>1, <1>2 DEF Pass, vars, procState, RepeatsOf, OrdinaryRows, Fetching, Landing
<1>3. ASSUME NEW p \in Procs, Step(p) PROVE RepeatsOf(k)'
    <2>1. CASE LookupFails(p) \/ LedgerUnreadable(p) \/ AnswerUnrecorded(p) \/ LandFails(p) \/ Crash(p)
        <3>1. faults' = faults + 1 /\ UNCHANGED <<rows, landed>>
            BY <2>1 DEF LookupFails, LedgerUnreadable, AnswerUnrecorded, LandFails, Crash
        <3>2. Others(p)
            <4>1. CASE Return(p)
                BY <1>1, <4>1, ReturnsAlone
            <4>2. ASSUME NEW l, Goto(p, l), UNCHANGED <<key, keep>> PROVE Others(p)
                BY <1>1, <4>2 DEF Goto, Others, TypeOK
            <4> QED
                BY <2>1, <4>1, <4>2 DEF LookupFails, LedgerUnreadable, AnswerUnrecorded, AfterCall, LandFails, Crash
        <3> QED
            BY <1>1, <3>1, <3>2, RepeatsFault
    <2> QED
        BY <1>1, <1>3, <2>1, RepeatsLand, RepeatsAnswer, RepeatsWalk DEF Step
<1> QED
    BY <1>1, <1>2, <1>3 DEF Next
-----------------------------------------------------------------------------
(* The theorems.                                                             *)

\* Every value the gate, the ledger and the index hold keeps its type, whatever
\* the processes of the environment do: in particular the wait of _queue never
\* passes max_wait_seconds, and a process names a fetch key exactly while a call
\* of fetch_once is under way.
THEOREM GatewayTypes == Spec => []TypeOK
BY TypeInit, TypeNext, PTL DEF Spec

\* CapacityGate._check_daily_budget: for any number of processes, any budget and
\* any clock, the calls of a day on the ledger or in flight exceed the share of
\* the environment by less than its processes, and no gate passes it alone.
THEOREM BudgetNeverOvershot == Spec => []BudgetOvershoot
<1>1. BudgetInv => BudgetOvershoot
    <2> SUFFICES ASSUME BudgetInv PROVE BudgetOvershoot
        OBVIOUS
    <2>1. Day(MaxTime) \in Nat
        BY DayMonotone, CapacityAssumption
    <2>2. ASSUME NEW d \in 0..Day(MaxTime)
          PROVE  Cardinality(RowsOn(d)) + InFlight({t \in Times : Day(t) = d}) <= Budget + Cardinality(Procs) - 1
        <3> DEFINE C == {p \in Procs : pc[p] = "calling" /\ at[p] \in {t \in Times : Day(t) = d}}
        <3>1. C \in SUBSET Charged(d)
            BY DEF Charged
        <3>2. /\ IsFiniteSet(RowsOn(d)) /\ IsFiniteSet(Charged(d)) /\ Budget + Cardinality(Procs) - 1 \in Int
              /\ Cardinality(RowsOn(d)) + Cardinality(Charged(d)) <= Budget + Cardinality(Procs) - 1
            BY <2>1, <2>2, FiniteCounts DEF BudgetInv, BudgetSum
        <3>3. RowsOn(d) \in SUBSET RowsOn(d)
            OBVIOUS
        <3> HIDE DEF C
        <3>4. Cardinality(RowsOn(d)) + Cardinality(C) <= Budget + Cardinality(Procs) - 1
            BY <3>1, <3>2, <3>3, FewerCounted
        <3> QED
            BY <3>4 DEF InFlight, C
    <2> QED
        BY <2>2 DEF BudgetOvershoot, BudgetInv, OwnShare
<1> QED
    BY <1>1, BudgetAlways, PTL

\* CapacityGate._queue: the same for every rate window, past or present, though
\* each gate looks at the ledger once and its row appears when the call ends.
THEOREM WindowNeverOvershot == Spec => []WindowOvershoot
<1>1. WindowInv => WindowOvershoot
    <2> SUFFICES ASSUME WindowInv, NEW t \in Times
                 PROVE  LET W == {s \in Times : s > t - Window /\ s <= t} IN
                        Cardinality({r \in rows : r.at \in W}) + InFlight(W) <= Calls + Cardinality(Procs) - 1
        BY DEF WindowOvershoot
    <2> DEFINE W == {s \in Times : s > t - Window /\ s <= t}
               R == {r \in rows : r.at \in W}
               C == {p \in Procs : pc[p] = "calling" /\ at[p] \in W}
               limit == Calls + Cardinality(Procs) - 1
    <2>1. TypeOK /\ now \in Nat /\ t \in Nat /\ Window \in Nat
        BY CapacityAssumption DEF WindowInv, BudgetInv, TypeOK, Times
    <2>2. \A r \in rows : r.at \in Times
        BY <2>1 DEF TypeOK, Rows
    <2>3. \A p \in Procs : at[p] \in Times
        BY <2>1 DEF TypeOK
    <2>4. CASE t < now
        <3>1. R \in SUBSET RowsIn(t) /\ C \in SUBSET FlightsIn(t)
            BY DEF RowsIn, FlightsIn
        <3>2. /\ IsFiniteSet(RowsIn(t)) /\ IsFiniteSet(FlightsIn(t)) /\ limit \in Int
              /\ Cardinality(RowsIn(t)) + Cardinality(FlightsIn(t)) <= limit
            BY <2>1, <2>4, FiniteWindows DEF WindowInv, PastWindows
        <3> HIDE DEF R, C, limit
        <3> QED
            <4>1. Cardinality(R) + Cardinality(C) <= limit
                BY <3>1, <3>2, FewerCounted
            <4> QED
                BY <4>1 DEF InFlight, R, C, limit
    <2>5. CASE t >= now
        <3>1. R \in SUBSET Recent(now) /\ C \in SUBSET Holding
            BY <2>1, <2>2, <2>3, <2>5 DEF Recent, Holding, Times
        <3>2. /\ IsFiniteSet(Recent(now)) /\ IsFiniteSet(Holding) /\ limit \in Int
              /\ Cardinality(Recent(now)) + Cardinality(Holding) <= limit
            BY <2>1, FiniteWindows DEF WindowInv, ThisWindow
        <3> HIDE DEF R, C, limit
        <3> QED
            <4>1. Cardinality(R) + Cardinality(C) <= limit
                BY <3>1, <3>2, FewerCounted
            <4> QED
                BY <4>1 DEF InFlight, R, C, limit
    <2> QED
        BY <2>1, <2>4, <2>5
<1> QED
    BY <1>1, WindowInvInit, WindowInvNext, PTL DEF Spec

\* fetch_once over landed_fetch_keys: a key is answered more often than once
\* only by callers that missed it together or after a fault, whatever the number
\* of processes and keys.
THEOREM RepeatsStayBounded == Spec => []RepeatsBounded
<1>1. RepeatsInv => RepeatsBounded
    <2> SUFFICES ASSUME RepeatsInv, NEW k \in Keys
                 PROVE  Cardinality(OrdinaryRows(k)) <= Cardinality(Users) + faults
        BY DEF RepeatsBounded, OrdinaryRows, Users
    <2>1. TypeOK /\ RepeatsOf(k)
        BY DEF RepeatsInv
    <2>2. Landing(k) \in SUBSET Users
        BY DEF Landing
    <2>3. Cardinality(Landing(k)) <= Cardinality(Users)
        BY <2>1, <2>2, RepeatTypes, FS_Subset
    <2> QED
        BY <2>1, <2>3, RepeatTypes DEF RepeatsOf
<1> QED
    BY <1>1, RepeatsInvInit, RepeatsInvNext, PTL DEF Spec
=============================================================================
