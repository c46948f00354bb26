---------------------------- MODULE SourceGateway ----------------------------
(***************************************************************************)
(* The external call gateway (sources/gateway.py): CapacityGate.admit with  *)
(* its rate queue and its daily budget, record_call, emit, and fetch_once   *)
(* over the index of landed keys (landed_keys.py), for one vendor account   *)
(* and the processes of one environment that call it.  The processes share  *)
(* nothing but the ledger and the index, both autocommit; each is           *)
(* sequential, so it has at most one call in flight, and its gate lives as  *)
(* long as its op.                                                          *)
(*                                                                          *)
(* Time is a discrete clock: `called_at` is read when the call starts, the  *)
(* row is written when it ends.  The share of the environment               *)
(* (in_environment) is the pair Budget, Calls; a seat without a declared    *)
(* capacity, or with a share below one call, admits nothing and is left out.*)
(***************************************************************************)
EXTENDS Integers, Sequences, FiniteSets

CONSTANTS Procs,       \* processes of the environment that reach the vendor
          Forced,      \* those that run inside probe_scope
          Keys,        \* fetch keys
          Finals,      \* what callers pass as fetch_once(keep=...)
          NoKey,
          Budget,      \* daily_budget of the environment
          Calls,       \* calls_per_window of the environment
          Window,      \* window_seconds
          MaxWait,     \* max_wait_seconds
          DayLength,   \* clock ticks of one UTC day
          MaxTime,     \* bound: the clock
          MaxCalls,    \* bound: calls made in one behaviour
          MaxFaults    \* bound: crashes and outages in one behaviour

ASSUME CapacityAssumption ==
    /\ Budget \in Nat \ {0} /\ Calls \in Nat \ {0} /\ Window \in Nat \ {0}
    /\ MaxWait \in Nat /\ DayLength \in Nat \ {0}
    /\ MaxTime \in Nat /\ MaxCalls \in Nat /\ MaxFaults \in Nat
ASSUME ProcsAssumption == IsFiniteSet(Procs) /\ Forced \subseteq Procs
                          /\ NoKey \notin Keys /\ Finals \subseteq BOOLEAN

VARIABLES
    now,       \* the wall clock (the monotonic clock moves with it)
    rows,      \* staging.api_call_ledger: neither order nor ids matter, so that
               \* equal rows are told apart by a number
    landed,    \* staging.landed_fetch_keys
    pc, key,   \* the call each process is making
    keep,      \* fetch_once(keep=...)
    waited, wake,   \* _queue: time waited, end of the current sleep
    at,        \* called_at of the call in flight
    admitted,  \* CapacityGate._admitted: <<day, count>>
    local,     \* CapacityGate._windows: start times
    faults     \* crashes, ledger and index outages so far

procState == <<pc, key, keep, waited, wake, at, admitted, local>>
vars == <<now, rows, landed, procState, faults>>

Times == 0..MaxTime
Day(t) == t \div DayLength
\* A row by its verdict: a failed call, or the repeat_reason of an ok one.
Verdicts == {"ordinary", "probe", "window_not_final", "answer_refused", "error"}
Rows == [key : Keys, at : Times, verdict : Verdicts, copy : Nat \ {0}]

\* ledger_calls_since and ledger_window.
RowsOn(d) == {r \in rows : Day(r.at) = d}
Recent(t) == {r \in rows : r.at > t - Window}
Oldest(t) == CHOOSE x \in {r.at : r \in Recent(t)} : \A r \in Recent(t) : x <= r.at

Larger(a, b) == IF a > b THEN a ELSE b

Init ==
    /\ now = 0 /\ rows = {} /\ landed = {}
    /\ pc = [p \in Procs |-> "idle"]
    /\ key = [p \in Procs |-> NoKey]
    /\ keep = [p \in Procs |-> TRUE]
    /\ waited = [p \in Procs |-> 0] /\ wake = [p \in Procs |-> 0]
    /\ at = [p \in Procs |-> 0]
    /\ admitted = [p \in Procs |-> <<0, 0>>]
    /\ local = [p \in Procs |-> <<>>]
    /\ faults = 0

Goto(p, l) == pc' = [pc EXCEPT ![p] = l]

\* The call is over (answered, served from the index, or refused).
Return(p) ==
    /\ Goto(p, "idle")
    /\ key' = [key EXCEPT ![p] = NoKey]
    /\ keep' = [keep EXCEPT ![p] = TRUE]
    /\ waited' = [waited EXCEPT ![p] = 0]
    /\ wake' = [wake EXCEPT ![p] = 0]
    /\ at' = [at EXCEPT ![p] = 0]

\* fetch_once: a probe and a request that is not final skip the index.
FetchOnce(p, k) ==
    /\ pc[p] = "idle"
    /\ Cardinality(rows) < MaxCalls
    /\ \E final \in Finals :
           /\ keep' = [keep EXCEPT ![p] = final]
           /\ Goto(p, IF p \in Forced \/ ~final THEN "budget" ELSE "lookup")
    /\ key' = [key EXCEPT ![p] = k]
    /\ UNCHANGED <<now, rows, landed, waited, wake, at, admitted, local, faults>>

\* Variant: the index is not read.
Landed_NotRead(p) ==
    /\ pc[p] = "lookup"
    /\ Goto(p, "budget")
    /\ UNCHANGED <<key, keep, waited, wake, at>>
    /\ UNCHANGED <<now, rows, landed, admitted, local, faults>>

\* landed: a hit is served without a call.
Landed(p) ==
    /\ pc[p] = "lookup"
    /\ IF key[p] \in landed THEN Return(p)
       ELSE Goto(p, "budget") /\ UNCHANGED <<key, keep, waited, wake, at>>
    /\ UNCHANGED <<now, rows, landed, admitted, local, faults>>

\* The lookup fails: it reads as a miss.
LookupFails(p) ==
    /\ pc[p] = "lookup"
    /\ faults < MaxFaults
    /\ faults' = faults + 1
    /\ Goto(p, "budget")
    /\ UNCHANGED <<now, rows, landed, key, keep, waited, wake, at, admitted, local>>
-----------------------------------------------------------------------------
(* CapacityGate.admit.                                                     *)

AdmittedToday(p) == IF admitted[p][1] = Day(now) THEN admitted[p][2] ELSE 0

\* Variant: the gate counts its own admissions alone.
Spent_OwnOnly(p) == AdmittedToday(p)

\* _check_daily_budget: the ledger, or the gate's own admissions if larger.
Spent(p) == Larger(Cardinality(RowsOn(Day(now))), AdmittedToday(p))

CheckDailyBudget(p) ==
    /\ pc[p] \in {"budget", "recheck"}
    /\ IF Spent(p) >= Budget THEN Return(p)
       ELSE /\ Goto(p, IF pc[p] = "budget" THEN "queue" ELSE "admitted")
            /\ UNCHANGED <<key, keep, waited, wake, at>>
    /\ UNCHANGED <<now, rows, landed, admitted, local, faults>>

\* The starts at the head of the local deque that have left the window, and
\* what popleft leaves of it.
Expired(p) == {i \in 1..Len(local[p]) : \A j \in 1..i : now - local[p][j] >= Window}
Fresh(p) == SubSeq(local[p], Cardinality(Expired(p)) + 1, Len(local[p]))

\* Variant: the local deque alone paces the calls.
Wait_LocalOnly(p) == IF Len(Fresh(p)) >= Calls THEN Window - (now - Fresh(p)[1]) ELSE 0

\* _queue: how long until both the deque and the ledger's window have room.
Wait(p) ==
    Larger(IF Len(Fresh(p)) >= Calls THEN Window - (now - Fresh(p)[1]) ELSE 0,
           IF Cardinality(Recent(now)) >= Calls THEN Window - (now - Oldest(now)) ELSE 0)

\* One round of _queue: admitted, asleep, or refused.
Queue(p) ==
    /\ pc[p] = "queue"
    /\ CASE Wait(p) <= 0 ->
              /\ local' = [local EXCEPT ![p] = Append(Fresh(p), now)]
              /\ Goto(p, IF waited[p] > 0 THEN "recheck" ELSE "admitted")
              /\ UNCHANGED <<key, keep, waited, wake, at>>
         [] Wait(p) > 0 /\ waited[p] + Wait(p) > MaxWait ->
              /\ local' = [local EXCEPT ![p] = Fresh(p)]
              /\ Return(p)
         [] OTHER ->
              /\ local' = [local EXCEPT ![p] = Fresh(p)]
              /\ waited' = [waited EXCEPT ![p] = @ + Wait(p)]
              /\ wake' = [wake EXCEPT ![p] = now + Wait(p)]
              /\ Goto(p, "sleep")
              /\ UNCHANGED <<key, keep, at>>
    /\ UNCHANGED <<now, rows, landed, admitted, faults>>

\* The ledger cannot be read: the gate fails closed.
LedgerUnreadable(p) ==
    /\ pc[p] \in {"budget", "queue", "recheck"}
    /\ faults < MaxFaults
    /\ faults' = faults + 1
    /\ Return(p)
    /\ UNCHANGED <<now, rows, landed, admitted, local>>

Awake(p) ==
    /\ pc[p] = "sleep" /\ now >= wake[p]
    /\ Goto(p, "queue")
    /\ UNCHANGED <<now, rows, landed, key, keep, waited, wake, at, admitted, local, faults>>

\* admit returns and the request goes out.
MakeCall(p) ==
    /\ pc[p] = "admitted"
    /\ admitted' = [admitted EXCEPT ![p] = <<Day(now), AdmittedToday(p) + 1>>]
    /\ at' = [at EXCEPT ![p] = now]
    /\ Goto(p, "calling")
    /\ UNCHANGED <<now, rows, landed, key, keep, waited, wake, local, faults>>
-----------------------------------------------------------------------------
(* record_call: the row is written when the call ends.                     *)

\* _creation_reason, and `observe` for an answer the rule of the key refuses.
Reason(p, answer) == CASE answer = "error" -> "error"
                       [] answer # "error" /\ p \in Forced -> "probe"
                       [] answer # "error" /\ p \notin Forced /\ ~keep[p] -> "window_not_final"
                       [] OTHER -> IF answer = "refused" THEN "answer_refused" ELSE "ordinary"

\* emit.
Record(p, verdict) ==
    LET alike == {r \in rows : r.key = key[p] /\ r.at = at[p] /\ r.verdict = verdict} IN
    rows' = rows \cup {[key |-> key[p], at |-> at[p], verdict |-> verdict, copy |-> Cardinality(alike) + 1]}

\* Only an accepted, final answer of no probe goes on to be landed.
AfterCall(p, answer) ==
    IF answer = "accepted" /\ keep[p] /\ p \notin Forced
    THEN Goto(p, "land") /\ UNCHANGED <<key, keep, waited, wake, at>>
    ELSE Return(p)

\* The vendor answers: the resource, a body its rule refuses, or an error.
Answer(p) ==
    /\ pc[p] = "calling"
    /\ \E answer \in {"accepted", "refused", "error"} :
           /\ Record(p, Reason(p, answer))
           /\ AfterCall(p, answer)
    /\ UNCHANGED <<now, landed, admitted, local, faults>>

\* emit fails: the row is logged and lost, the answer is used.
AnswerUnrecorded(p) ==
    /\ pc[p] = "calling"
    /\ faults < MaxFaults
    /\ faults' = faults + 1
    /\ \E answer \in {"accepted", "refused", "error"} : AfterCall(p, answer)
    /\ UNCHANGED <<now, rows, landed, admitted, local>>

Land(p) ==
    /\ pc[p] = "land"
    /\ landed' = landed \cup {key[p]}
    /\ Return(p)
    /\ UNCHANGED <<now, rows, admitted, local, faults>>

\* land fails: logged, and the next caller fetches again.
LandFails(p) ==
    /\ pc[p] = "land"
    /\ faults < MaxFaults
    /\ faults' = faults + 1
    /\ Return(p)
    /\ UNCHANGED <<now, rows, landed, admitted, local>>

\* The process dies; its successor starts with a fresh gate.  A call in
\* flight was made and leaves no row.
Crash(p) ==
    /\ pc[p] # "idle"
    /\ faults < MaxFaults
    /\ faults' = faults + 1
    /\ Return(p)
    /\ admitted' = [admitted EXCEPT ![p] = <<0, 0>>]
    /\ local' = [local EXCEPT ![p] = <<>>]
    /\ UNCHANGED <<now, rows, landed>>

\* The op ends and the next one binds a fresh capacity_scope.
NewScope(p) ==
    /\ pc[p] = "idle"
    /\ admitted[p] # <<0, 0>> \/ local[p] # <<>>
    /\ admitted' = [admitted EXCEPT ![p] = <<0, 0>>]
    /\ local' = [local EXCEPT ![p] = <<>>]
    /\ UNCHANGED <<now, rows, landed, pc, key, keep, waited, wake, at, faults>>

Pass == now < MaxTime /\ now' = now + 1
        /\ UNCHANGED <<rows, landed, procState, faults>>

Step(p) == \/ \E k \in Keys : FetchOnce(p, k)
           \/ Landed(p) \/ LookupFails(p)
           \/ CheckDailyBudget(p) \/ Queue(p) \/ LedgerUnreadable(p)
           \/ Awake(p) \/ MakeCall(p)
           \/ Answer(p) \/ AnswerUnrecorded(p) \/ Land(p) \/ LandFails(p)
           \/ Crash(p) \/ NewScope(p)

Next == Pass \/ \E p \in Procs : Step(p)

Spec == Init /\ [][Next]_vars
-----------------------------------------------------------------------------
TypeOK ==
    /\ now \in Times /\ IsFiniteSet(rows) /\ rows \subseteq Rows /\ landed \subseteq Keys
    /\ pc \in [Procs -> {"idle", "lookup", "budget", "queue", "sleep", "recheck",
                         "admitted", "calling", "land"}]
    /\ key \in [Procs -> Keys \cup {NoKey}]
    /\ keep \in [Procs -> BOOLEAN]
    /\ waited \in [Procs -> 0..MaxWait] /\ wake \in [Procs -> Nat]
    /\ at \in [Procs -> Times]
    /\ admitted \in [Procs -> (0..Day(MaxTime)) \X Nat]
    /\ local \in [Procs -> Seq(Times)]
    /\ faults \in 0..MaxFaults
    /\ \A p \in Procs : pc[p] # "idle" <=> key[p] # NoKey

InFlight(S) == Cardinality({p \in Procs : pc[p] = "calling" /\ at[p] \in S})

\* The calls of a day that are on the ledger or in flight exceed the share of
\* the environment by less than its processes: the limit the CapacityGate
\* docstring accepts.  (A call whose row a crash loses is on no ledger.)  And a
\* gate's own admissions of the day are a floor: no process alone passes the
\* budget, even when none of its calls is on the ledger.
BudgetOvershoot ==
    /\ \A d \in 0..Day(MaxTime) :
          Cardinality(RowsOn(d)) + InFlight({t \in Times : Day(t) = d})
              <= Budget + Cardinality(Procs) - 1
    /\ \A p \in Procs : AdmittedToday(p) <= Budget

\* The same for every rate window: "the overshoot is bounded by the
\* environment's concurrent ticks".
WindowOvershoot ==
    \A t \in Times : LET W == {s \in Times : s > t - Window /\ s <= t} IN
        Cardinality({r \in rows : r.at \in W}) + InFlight(W)
            <= Calls + Cardinality(Procs) - 1

Ordinary(k, d) == {r \in RowsOn(d) : r.key = k /\ r.verdict = "ordinary"}

\* A key is fetched again only by callers that missed together, or after a
\* fault: the repeats the nightly verdict would name are bounded.
RepeatsBounded ==
    \A k \in Keys :
        Cardinality({r \in rows : r.key = k /\ r.verdict = "ordinary"})
            <= Cardinality(Procs \ Forced) + faults

\* Rule 28: "Each fetch key is fetched once per environment per day."
FetchedOnce ==
    \A k \in Keys, d \in 0..Day(MaxTime) : Cardinality(Ordinary(k, d)) <= 1
=============================================================================
