------------------------------ MODULE ModelCall ------------------------------
(***************************************************************************)
(* One logical call of the model provider (_call_provider, _retry_loop and  *)
(* _attempt in sources/llm.py) under the retry policy and the pacer of      *)
(* sources/model_policy.py, for the callers of one process.                 *)
(*                                                                          *)
(* A call repeats its attempt while the answer is transient, attempts are   *)
(* left and the next wait ends before the deadline.  An attempt waits for a *)
(* concurrency slot, then for the admission lock, then, holding both, for   *)
(* room in the rate window; each wait is bounded by what is left of the     *)
(* deadline.  Sleeps and timed acquires end on time: the clock stands still *)
(* while a caller has something to do.  An attempt on the wire has no such  *)
(* end: the transport's timeout is one of each socket operation, and a      *)
(* response that keeps coming lasts as long as it likes.                    *)
(***************************************************************************)
EXTENDS Integers, Sequences, FiniteSets, FiniteSetsExt

CONSTANTS Callers,
          Slots,            \* max_concurrent_calls
          Window, Rate,     \* seconds of the rate window, calls_per_minute
          MaxAttempts, InitialBackoff, BackoffFactor, MaxBackoff, JitterPercent,
          MinTotalWait, Deadline,
          LatestStart,      \* bound: no call starts later
          MaxNow            \* bound: the clock

\* base_backoff_seconds of a retry, 1-based.
BaseBackoff(retry) == Min({InitialBackoff * BackoffFactor ^ (retry - 1), MaxBackoff})

\* base_total_wait_seconds of the first retries.
BaseTotal ==
    LET total[n \in 0..(MaxAttempts - 1)] == IF n = 0 THEN 0 ELSE total[n - 1] + BaseBackoff(n)
    IN  total

\* The field bounds and the validator of ModelRetrySpec.
RetrySpecValid ==
    /\ MaxAttempts >= 2 /\ InitialBackoff >= 1 /\ BackoffFactor >= 1 /\ MaxBackoff >= 1
    /\ JitterPercent \in 0..100 /\ MinTotalWait >= 1
    /\ BaseTotal[MaxAttempts - 1] >= MinTotalWait
    /\ Deadline >= MinTotalWait

VARIABLES
    now,
    call,     \* per caller: where it is, its attempts, its times, its last answer
    holder,   \* the caller that holds the admission lock, or "none"
    starts    \* the gate's deque of admissions

vars == <<now, call, holder, starts>>

\* wake ends a sleep; of an attempt on the wire it is the time it was sent.
At(at, attempts, started, wake, last) ==
    [at |-> at, attempts |-> attempts, started |-> started, wake |-> wake, last |-> last]

\* The caller goes on with the same attempt.
Goto(c, at, wake) ==
    call' = [call EXCEPT ![c] = At(at, @.attempts, @.started, wake, @.last)]

Init == now = 0 /\ call = [c \in Callers |-> At("idle", 0, 0, 0, "none")] /\ holder = "none" /\ starts = <<>>

Elapsed(c) == now - call[c].started

\* remaining_seconds, as the moment at which nothing remains.
DeadlineOf(c) == call[c].started + Deadline

\* Attempts that hold a concurrency slot, and those that are on the wire.
Holding == {c \in Callers : call[c].at \in {"lock", "window", "asleep", "room", "sending"}}
Sending == {c \in Callers : call[c].at = "sending"}

\* RetryBudget is created and begin_attempt counts the first attempt.
Start(c) ==
    /\ call[c].at = "idle" /\ now <= LatestStart
    /\ call' = [call EXCEPT ![c] = At("slot", 1, now, 0, "none")]
    /\ UNCHANGED <<now, holder, starts>>

Ended(last) == At("ended", 0, 0, 0, last)

\* CapacityExceeded: the last answer stands, or the call was never sent.
Refused(c) == Ended(IF call[c].last = "none" THEN "refused" ELSE call[c].last)

AcquireSlot(c) ==
    /\ call[c].at = "slot"
    /\ \/ /\ Cardinality(Holding) < Slots
          /\ Goto(c, "lock", 0)
       \/ /\ Cardinality(Holding) >= Slots /\ now >= DeadlineOf(c)
          /\ call' = [call EXCEPT ![c] = Refused(c)]
    /\ UNCHANGED <<now, holder, starts>>

\* Variant: the wait for the window gets the whole deadline.
WindowLimit_Whole(c) == now + Deadline

\* max_wait_seconds is what remains when the lock is held, and the sleeps of
\* the queue count against it.
WindowLimit(c) == DeadlineOf(c)

\* Variant: the attempt goes on without the lock.
LockFree_Always == TRUE

LockFree == holder = "none"

AcquireLock(c) ==
    /\ call[c].at = "lock"
    /\ \/ /\ LockFree
          /\ holder' = c
          /\ Goto(c, "window", 0)
       \/ /\ ~LockFree /\ now >= DeadlineOf(c)
          /\ call' = [call EXCEPT ![c] = Refused(c)] /\ UNCHANGED holder
    /\ UNCHANGED <<now, starts>>

Release(c) == holder' = IF holder = c THEN "none" ELSE holder

\* The starts at the head of the deque that have left the window at time t, and
\* what popleft leaves of it.
Expired(t) == {i \in 1..Len(starts) : \A j \in 1..i : t - starts[j] >= Window}
FreshAt(t) == SubSeq(starts, Cardinality(Expired(t)) + 1, Len(starts))
Fresh == FreshAt(now)

\* The wait the deque asks for.
OwnWait == IF Len(Fresh) >= Rate THEN Window - (now - Head(Fresh)) ELSE 0

\* One round of the gate's queue.  Rows of other processes may ask for a
\* longer wait than the deque does, up to a window.
Queue(c) ==
    /\ call[c].at = "window"
    /\ starts' = Fresh
    /\ \E wait \in 0..Window :
          /\ wait >= OwnWait
          /\ IF wait = 0 THEN Goto(c, "room", 0) /\ UNCHANGED holder
             ELSE IF now + wait > WindowLimit(c)
                  THEN call' = [call EXCEPT ![c] = Refused(c)] /\ Release(c)
                  ELSE Goto(c, "asleep", now + wait) /\ UNCHANGED holder
    /\ UNCHANGED now

Awake(c) ==
    /\ call[c].at = "asleep" /\ now >= call[c].wake
    /\ Goto(c, "window", 0)
    /\ UNCHANGED <<now, holder, starts>>

\* The deque gets the start, the lock goes, the request goes out.
Send(c) ==
    /\ call[c].at = "room"
    /\ starts' = Append(starts, now)
    /\ Release(c)
    /\ Goto(c, "sending", now)
    /\ UNCHANGED now

\* The ledger cannot be read, or the transport raises: the call raises.
Broken(c) ==
    /\ call[c].at \in {"window", "sending"}
    /\ Release(c)
    /\ call' = [call EXCEPT ![c] = Ended("raised")]
    /\ UNCHANGED <<now, starts>>

\* wait_seconds for every value of the random unit.
Waits(retry) == BaseBackoff(retry) .. (BaseBackoff(retry) + (BaseBackoff(retry) * JitterPercent) \div 100)

\* Variant: the attempts are counted from zero.
LastAttempt_Early(c) == call[c].attempts + 1 >= MaxAttempts

LastAttempt(c) == call[c].attempts >= MaxAttempts

\* is_transient has read the answer; wait_before_next.
Answered(c) ==
    /\ call[c].at = "sending"
    /\ \E answer \in {"answer", "terminal", "transient"}, wait \in Waits(call[c].attempts) :
          call' = [call EXCEPT ![c] =
             IF answer # "transient" \/ LastAttempt(c) \/ Elapsed(c) + wait > Deadline
             THEN Ended(answer)
             ELSE At("backoff", @.attempts, @.started, now + wait, answer)]
    /\ UNCHANGED <<now, holder, starts>>

\* begin_attempt after the wait.
NextAttempt(c) ==
    /\ call[c].at = "backoff" /\ now >= call[c].wake
    /\ call' = [call EXCEPT ![c] = At("slot", @.attempts + 1, @.started, 0, @.last)]
    /\ UNCHANGED <<now, holder, starts>>

Step(c) == \/ AcquireSlot(c) \/ AcquireLock(c) \/ Queue(c) \/ Awake(c) \/ Send(c)
           \/ Broken(c) \/ Answered(c) \/ NextAttempt(c)

\* The caller has a step that does not wait for anything.
Due(c) ==
    \/ call[c].at \in {"window", "room"}
    \/ call[c].at = "slot" /\ Cardinality(Holding) < Slots
    \/ call[c].at = "lock" /\ LockFree
    \/ call[c].at \in {"slot", "lock"} /\ now >= DeadlineOf(c)
    \/ call[c].at \in {"asleep", "backoff"} /\ now >= call[c].wake

Running == {c \in Callers : call[c].at \notin {"idle", "ended"}}

Tick ==
    /\ \A c \in Callers : ~Due(c)
    /\ now < MaxNow /\ (now < LatestStart \/ Running # {})
    /\ now' = now + 1
    /\ starts' = FreshAt(now + 1)
    /\ UNCHANGED <<call, holder>>

Next == Tick \/ \E c \in Callers : Start(c) \/ Step(c)

Spec == Init /\ [][Next]_vars
-----------------------------------------------------------------------------
Places == {"idle", "slot", "lock", "window", "asleep", "room", "sending", "backoff", "ended"}

\* Every variable has its type.
TypeOK ==
    /\ now \in Nat
    /\ call \in [Callers -> [at : Places, attempts : 0..MaxAttempts, started : Nat, wake : Nat,
                             last : {"none", "answer", "terminal", "transient", "refused", "raised"}]]
    /\ holder \in Callers \cup {"none"}
    /\ starts \in Seq(Nat)

\* "Every wait stops at the deadline of the call": a caller that waits for a slot,
\* for the lock behind one that sleeps in the window, for the window or for its
\* next attempt has not passed its deadline, and no attempt was sent after it.
\* What a call lasts beyond its deadline is one response.
WaitsWithinDeadline ==
    \A c \in Running :
        LET waited == IF call[c].at = "sending" THEN call[c].wake ELSE now
        IN  waited <= DeadlineOf(c)

\* "at most max_concurrent_calls attempts at once, at most calls_per_minute
\* attempts in any 60 s window": for the attempts of this process.
PacerHolds == Cardinality(Sending) <= Slots /\ Len(Fresh) <= Rate

\* "The policy outlasts one rate window": a call that gives up on a transient
\* answer has tried for at least min_total_wait_seconds, whichever of the
\* attempts, the deadline and the refused window ended it.
GivesUpLate == [][\A c \in Callers :
    call[c].at # "ended" /\ call'[c].at = "ended" /\ call'[c].last = "transient" => Elapsed(c) >= MinTotalWait]_vars
=============================================================================
