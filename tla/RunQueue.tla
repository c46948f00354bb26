------------------------------- MODULE RunQueue -------------------------------
(***************************************************************************)
(* The run queue of the deployed Dagster instance (dagster.yaml), the jobs  *)
(* that hold a slot while they wait for other runs (_await_settled in       *)
(* lanes/quality.py) and the health check and the maximum runtime of        *)
(* run_launcher.py.  A run is a child process of the code server: a restart *)
(* of the server kills it and leaves its record STARTED.                    *)
(*                                                                          *)
(* One served universe.  Time is not counted: a deadline (the wait of three *)
(* hours, the grace of a head, the maximum runtime) may pass at any moment. *)
(***************************************************************************)
EXTENDS Integers, Sequences, SequencesExt, FiniteSets

CONSTANTS Ticks,       \* runs of a capture job
          Reports,     \* runs of the head-reports and backfill jobs
          Waiters,     \* runs with the tag truealpha/waits_for_runs
          Addressed,   \* the runs that carry their code server's address
          Slots,       \* max_concurrent_runs
          WaitLimit,   \* limit of the tag
          MaxRestarts  \* bound: restarts of the code server

Runs == Ticks \cup Reports \cup Waiters

ASSUME LimitsAssumption == /\ Slots \in Nat /\ WaitLimit \in Nat
                           /\ 0 < WaitLimit /\ WaitLimit < Slots
                           /\ MaxRestarts \in Nat
ASSUME RunsAssumption == /\ Ticks \cap Reports = {} /\ Waiters \cap (Ticks \cup Reports) = {}
                         /\ Addressed \subseteq Runs

VARIABLES
    queue,     \* QUEUED runs, oldest first
    status,    \* the run's record
    alive,     \* runs a process of the code server executes
    server,    \* "up", or "silent": it restarts or is slow
    old,       \* unfinished runs created more than IN_FLIGHT_MAX_AGE ago
    fresh,     \* a head within its grace that its reports do not name yet
    restarts

vars == <<queue, status, alive, server, old, fresh, restarts>>

Statuses == {"absent", "queued", "started", "done", "failed", "unsettled"}

Init ==
    /\ queue = <<>>
    /\ status = [r \in Runs |-> "absent"]
    /\ alive = {}
    /\ server = "up"
    /\ old = {}
    /\ fresh = FALSE
    /\ restarts = 0

\* A schedule, a sensor or an operator asks for a run.
Enqueue(r) ==
    /\ status[r] = "absent"
    /\ status' = [status EXCEPT ![r] = "queued"]
    /\ queue' = Append(queue, r)
    /\ UNCHANGED <<alive, server, old, fresh, restarts>>

InProgress == {r \in Runs : status[r] = "started"}

\* Variant: no limit for the runs that wait.
Fits_NoTagLimit(r) == Cardinality(InProgress) < Slots

\* The run exceeds no limit of the queue.
Fits(r) == /\ Cardinality(InProgress) < Slots
           /\ r \in Waiters => Cardinality(InProgress \cap Waiters) < WaitLimit

\* The queue does not start a run that exceeds a limit and starts the next one.
Dequeue ==
    /\ server = "up"
    /\ \E i \in 1..Len(queue) :
           /\ Fits(queue[i])
           /\ \A j \in 1..(i - 1) : ~Fits(queue[j])
           /\ status' = [status EXCEPT ![queue[i]] = "started"]
           /\ alive' = alive \cup {queue[i]}
           /\ queue' = RemoveAt(queue, i)
    /\ UNCHANGED <<server, old, fresh, restarts>>

End(r, s) ==
    /\ status' = [status EXCEPT ![r] = s]
    /\ alive' = alive \ {r}
    /\ UNCHANGED <<queue, server, old, restarts>>

\* A capture run ends: it may have advanced the head.  It may also fail.
TickEnds(r) ==
    /\ r \in Ticks \cap alive
    /\ \/ End(r, "done") /\ fresh' = TRUE
       \/ End(r, "done") /\ UNCHANGED fresh
       \/ End(r, "failed") /\ UNCHANGED fresh

\* A report run names the head.
ReportEnds(r) ==
    /\ r \in Reports \cap alive
    /\ End(r, "done")
    /\ fresh' = FALSE

\* HEAD_REPORTS_GRACE: the missing reports are then a mismatch, not a wait.
GracePasses == fresh /\ fresh' = FALSE /\ UNCHANGED <<queue, status, alive, server, old, restarts>>

\* runs_in_flight: the unfinished runs that move the head or its reports; a
\* queued run is committed to running, one of half a day ago is not counted.
RunsInFlight == {r \in (Ticks \cup Reports) \ old : status[r] \in {"queued", "started"}}

\* IN_FLIGHT_MAX_AGE.
GrowsOld(r) ==
    /\ r \in Ticks \cup Reports /\ r \notin old
    /\ status[r] \in {"queued", "started"}
    /\ old' = old \cup {r}
    /\ UNCHANGED <<queue, status, alive, server, fresh, restarts>>

\* settling.
Settling == RunsInFlight # {} \/ fresh

\* _await_settled returns when nothing is settling, and the run judges.
WaiterEnds(r) ==
    /\ r \in Waiters \cap alive
    /\ ~Settling
    /\ End(r, "done")
    /\ UNCHANGED fresh

\* SURFACE_SETTLE_TIMEOUT: the run judges what there is and names the rest
\* in progress.
WaitRunsOut(r) ==
    /\ r \in Waiters \cap alive
    /\ Settling
    /\ End(r, "unsettled")
    /\ UNCHANGED fresh
-----------------------------------------------------------------------------
(* The code server and the run monitor.                                    *)

\* The container restarts (a deploy, a crash): its processes are gone.
Restart ==
    /\ restarts < MaxRestarts
    /\ restarts' = restarts + 1
    /\ alive' = {}
    /\ server' = "silent"
    /\ UNCHANGED <<queue, status, old, fresh>>

\* The server is slow for a while; its processes go on.
FallsSilent ==
    /\ restarts < MaxRestarts
    /\ restarts' = restarts + 1
    /\ server = "up"
    /\ server' = "silent"
    /\ UNCHANGED <<queue, status, alive, old, fresh>>

Answers ==
    /\ server = "silent"
    /\ server' = "up"
    /\ UNCHANGED <<queue, status, alive, old, fresh, restarts>>

\* check_run_worker_health: only a server that answers without the run proves
\* that the worker is gone.
WorkerNotFound(r) == r \in Addressed /\ server = "up" /\ r \notin alive

MonitorPoll(r) ==
    /\ status[r] = "started"
    /\ WorkerNotFound(r)
    /\ End(r, "failed")
    /\ UNCHANGED fresh

\* dagster/max_runtime, or the instance's limit: it ends any run.
MaxRuntime(r) ==
    /\ status[r] = "started"
    /\ End(r, "failed")
    /\ UNCHANGED fresh

Next ==
    \/ \E r \in Runs : \/ Enqueue(r) \/ TickEnds(r) \/ ReportEnds(r)
                       \/ WaiterEnds(r) \/ WaitRunsOut(r) \/ GrowsOld(r)
                       \/ MonitorPoll(r) \/ MaxRuntime(r)
    \/ Dequeue \/ GracePasses \/ Restart \/ FallsSilent \/ Answers

Spec == Init /\ [][Next]_vars

\* The daemon polls, a working run ends, the server comes back, the grace of a
\* head passes.  A lost run without an address has only its maximum runtime.
\* The time-out of a wait and the maximum runtime of a live run may never
\* come: the queue must move without them.
FairSpec ==
    /\ Spec
    /\ WF_vars(Dequeue) /\ WF_vars(GracePasses) /\ WF_vars(Answers)
    /\ \A r \in Ticks \cup Reports : WF_vars(TickEnds(r) \/ ReportEnds(r))
    /\ \A r \in Waiters : WF_vars(WaiterEnds(r))
    /\ \A r \in Runs : WF_vars(MonitorPoll(r))
    /\ \A r \in Runs : WF_vars(r \notin alive /\ MaxRuntime(r))
-----------------------------------------------------------------------------
TypeOK ==
    /\ queue \in Seq(Runs)
    /\ status \in [Runs -> Statuses]
    /\ alive \subseteq InProgress
    /\ server \in {"up", "silent"}
    /\ old \subseteq Ticks \cup Reports /\ fresh \in BOOLEAN
    /\ restarts \in 0..MaxRestarts
    /\ IsInjective(queue)
    /\ \A r \in Runs : status[r] = "queued" <=> \E i \in 1..Len(queue) : queue[i] = r

\* Every queued run ends, without help from a time-out: runs that wait never
\* hold every slot against the runs they wait for, and a lost run gives its
\* slot back ("the waiting runs never hold every slot").
QueueMoves == \A r \in Runs : status[r] = "queued" ~>
                  status[r] \in {"done", "failed", "unsettled"}
=============================================================================
