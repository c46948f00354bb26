----------------------------- MODULE HeadReports -----------------------------
(***************************************************************************)
(* The reports that follow a governed head (lanes/standards.py): theme      *)
(* purity, supply chain, analyst ratings and question coverage of one       *)
(* universe, written by the runs of three launchers, and the verdict rows   *)
(* /health reads (quality/nightly_verdicts.py).                             *)
(*                                                                          *)
(* Heads are numbered in the order the pointer reaches them; 0 is no head.  *)
(* A run passes its ops in order, and each op resolves the head again.  A   *)
(* verdict row is dated by the tick its run was launched with, so the       *)
(* newest row of a check is the one of the latest launch, not the latest    *)
(* to be written.  Ticks are only compared: the order of the launches of    *)
(* open runs stands for them.                                               *)
(***************************************************************************)
EXTENDS Integers, Sequences, FiniteSets

CONSTANTS SensorRuns, FallbackRuns, BackfillRuns,  \* places for runs, by launcher
          MaxHeads,     \* bound: advances of the pointer
          MaxFaults     \* bound: deaths, exceptions, lane failures, lost cursors

Runs == SensorRuns \cup FallbackRuns \cup BackfillRuns
Checks == {"theme_purity", "question_coverage"}

VARIABLES
    head,     \* the run the pointer names
    stored,   \* the run of the newest question_coverage_report
    purity,   \* runs with theme-purity rows
    verdict,  \* newest row of each check; idle: of a run that recomputed nothing
    late,     \* per check, the open runs with an earlier tick than its newest row
    cursor,   \* the head the sensor last acted on; -1: the cursor has never seen the universe
    keys,     \* run keys head:<universe>:<run> that Dagster has launched
    launched, \* open runs in the order of their ticks
    run,
    faults

vars == <<head, stored, purity, verdict, late, cursor, keys, launched, run, faults>>
tables == <<head, stored, purity, cursor, keys>>

\* of: the head the coverage op resolved; current: REPORTS_CURRENT; failed: LANE_FAILURE.
NoRun == [at |-> "none", of |-> 0, current |-> FALSE, failed |-> FALSE]

Init ==
    /\ head = 0 /\ stored = 0 /\ purity = {} /\ cursor = -1 /\ keys = {} /\ faults = 0
    /\ verdict = [c \in Checks |-> [ok |-> "none", idle |-> FALSE]]
    /\ late = [c \in Checks |-> {}] /\ launched = <<>>
    /\ run = [r \in Runs |-> NoRun]

\* A tick publishes a head.
Advance ==
    /\ head < MaxHeads
    /\ head' = head + 1
    /\ UNCHANGED <<stored, purity, verdict, late, cursor, keys, launched, run, faults>>
-----------------------------------------------------------------------------
(* Launches: the pointer sensor, the daily fallback, and everything that    *)
(* runs the backfill job (its weekly schedule, the catch-up, an operator).  *)

LaunchRun(r) ==
    /\ run[r].at = "none"
    /\ run' = [run EXCEPT ![r].at = "start"]
    /\ launched' = Append(launched, r)

\* head_reports_sensor: a universe the cursor has never seen is launched only
\* when its report is missing, an advance always; the run key deduplicates.
HeadReportsSensor(r) ==
    /\ r \in SensorRuns /\ run[r].at = "none"
    /\ head # 0 /\ cursor # head
    /\ cursor' = head
    /\ IF (cursor = -1 /\ stored = head) \/ head \in keys
       THEN UNCHANGED <<run, launched, keys>>
       ELSE LaunchRun(r) /\ keys' = keys \cup {head}
    /\ UNCHANGED <<head, stored, purity, verdict, late, faults>>

\* head_reports_schedule, daily at 04:00.
HeadReportsSchedule(r) == r \in FallbackRuns /\ LaunchRun(r) /\ UNCHANGED <<tables, verdict, late, faults>>

\* standard_backfill_schedule, standard_backfill_catchup_sensor, a launch by hand.
StandardBackfill(r) == r \in BackfillRuns /\ LaunchRun(r) /\ UNCHANGED <<tables, verdict, late, faults>>

Fault == faults < MaxFaults /\ faults' = faults + 1

\* The sensor's cursor is reset.
CursorLost ==
    /\ cursor # -1 /\ Fault
    /\ cursor' = -1
    /\ UNCHANGED <<head, stored, purity, verdict, late, keys, launched, run>>
-----------------------------------------------------------------------------
(* Verdicts.  stay is the set of runs that are still open after the step.   *)

Open == {r \in Runs : run[r].at # "none"}

Earlier(r) == {p \in Open : \E i, j \in DOMAIN launched : i < j /\ launched[i] = p /\ launched[j] = r}

\* A row of run r: it becomes the newest of its check unless a run with a later
\* tick has written one (ran_at, then recorded_at).
WriteRow(r, c, row, stay) ==
    LET newest == r \notin late[c] IN
    /\ verdict' = IF newest THEN [verdict EXCEPT ![c] = row] ELSE verdict
    /\ late' = [d \in Checks |-> stay \cap (IF d = c /\ newest THEN Earlier(r) ELSE late[d])]

Red(c) == verdict[c].ok = "red"

\* verdict(): a run records how it did the work of check c.
Record(r, c, ok, stay) == WriteRow(r, c, [ok |-> ok, idle |-> FALSE], stay)

\* _already_current: a green row that says so, but none over a red one.
AlreadyCurrent(r, c) ==
    IF Red(c) THEN UNCHANGED <<verdict, late>> ELSE WriteRow(r, c, [ok |-> "green", idle |-> TRUE], Open)
-----------------------------------------------------------------------------
(* The ops of a run, in order.  A run that fails or dies frees its place.   *)

Goto(r, at) == run' = [run EXCEPT ![r].at = at] /\ UNCHANGED launched

End(r) ==
    /\ run' = [run EXCEPT ![r] = NoRun]
    /\ launched' = SelectSeq(launched, LAMBDA p : p # r)

\* Variant: the theme-purity verdict does not matter.
ReportsCurrent_CoverageOnly == stored = head /\ ~Red("question_coverage")

\* Variant: a stored report of any head is enough.
ReportsCurrent_AnyReport == stored # 0 /\ \A c \in Checks : ~Red(c)

\* The newest report names the head and no report verdict is red.
ReportsCurrent == stored = head /\ \A c \in Checks : ~Red(c)

\* head_reports_start; a run of the backfill job lands its standards here.
HeadReportsStart(r) ==
    /\ run[r].at = "start"
    /\ run' = [run EXCEPT ![r].at = "purity",
                          ![r].current = r \in FallbackRuns /\ head # 0 /\ ReportsCurrent]
    /\ UNCHANGED <<tables, verdict, late, launched, faults>>

\* run_theme_purity: the rows of the head as this op finds it.
ThemePurity(r) ==
    /\ run[r].at = "purity"
    /\ \/ run[r].current /\ AlreadyCurrent(r, "theme_purity") /\ UNCHANGED purity
       \/ ~run[r].current /\ head = 0 /\ Record(r, "theme_purity", "pending", Open) /\ UNCHANGED purity
       \/ ~run[r].current /\ head # 0 /\ Record(r, "theme_purity", "green", Open) /\ purity' = purity \cup {head}
    /\ Goto(r, "lanes")
    /\ UNCHANGED <<head, stored, cursor, keys, faults>>

\* An op under verdict() raises: a red row, and the run fails.
OpRaises(r) ==
    /\ Fault /\ ~run[r].current
    /\ \/ run[r].at = "purity" /\ Record(r, "theme_purity", "red", Open \ {r})
       \/ run[r].at \in {"compile", "persist"} /\ Record(r, "question_coverage", "red", Open \ {r})
    /\ End(r)
    /\ UNCHANGED tables

\* run_supply_chain_exposure and run_analyst_ratings write the rows of their
\* lanes and commit; a lane that failed as a whole says so in its summary.
Lanes(r) ==
    /\ run[r].at = "lanes"
    /\ \/ Goto(r, "compile") /\ UNCHANGED faults
       \/ /\ ~run[r].current /\ head # 0 /\ Fault
          /\ run' = [run EXCEPT ![r].at = "compile", ![r].failed = TRUE] /\ UNCHANGED launched
    /\ UNCHANGED <<tables, verdict, late>>

\* run_question_coverage, first half: compile_report resolves the head once more.
CompileReport(r) ==
    /\ run[r].at = "compile"
    /\ \/ run[r].current /\ AlreadyCurrent(r, "question_coverage") /\ Goto(r, "last")
       \/ ~run[r].current /\ head = 0 /\ Record(r, "question_coverage", "pending", Open) /\ Goto(r, "last")
       \/ /\ ~run[r].current /\ head # 0
          /\ run' = [run EXCEPT ![r].at = "persist", ![r].of = head]
          /\ UNCHANGED <<verdict, late, launched>>
    /\ UNCHANGED <<tables, faults>>

\* Second half: the report is the newest from its insert on.
Persist(r) ==
    /\ run[r].at = "persist"
    /\ stored' = run[r].of
    /\ Record(r, "question_coverage", "green", Open)
    /\ run' = [run EXCEPT ![r].at = "last", ![r].of = 0] /\ UNCHANGED launched
    /\ UNCHANGED <<head, purity, cursor, keys, faults>>

\* A run that ends without a row.
Leave(r) ==
    /\ End(r)
    /\ late' = [c \in Checks |-> late[c] \ {r}]
    /\ UNCHANGED verdict

\* fail_if_a_lane_failed.
FailIfALaneFailed(r) ==
    /\ run[r].at = "last"
    /\ IF run[r].failed THEN Record(r, "question_coverage", "red", Open \ {r}) /\ End(r) ELSE Leave(r)
    /\ UNCHANGED <<tables, faults>>

\* The worker is lost, or an op outside verdict() raises: the run fails with no row.
Die(r) ==
    /\ run[r].at # "none" /\ Fault
    /\ Leave(r)
    /\ UNCHANGED tables

Step(r) == \/ HeadReportsStart(r) \/ ThemePurity(r) \/ Lanes(r)
           \/ CompileReport(r) \/ Persist(r) \/ FailIfALaneFailed(r)

Next == \/ Advance \/ CursorLost
        \/ \E r \in Runs : \/ HeadReportsSensor(r) \/ HeadReportsSchedule(r) \/ StandardBackfill(r)
                           \/ Step(r) \/ OpRaises(r) \/ Die(r)

Spec == Init /\ [][Next]_vars

\* The daemon evaluates the sensor and the daily schedule, and a run goes on.
\* No one is obliged to launch a backfill.
Fairness == \A r \in Runs : WF_vars(Step(r)) /\ WF_vars(HeadReportsSensor(r)) /\ WF_vars(HeadReportsSchedule(r))

FairSpec == Spec /\ Fairness
-----------------------------------------------------------------------------
Places == {"none", "start", "purity", "lanes", "compile", "persist", "last"}

\* Every variable has its type.
TypeOK ==
    /\ head \in 0..MaxHeads /\ stored \in 0..MaxHeads /\ purity \subseteq 1..MaxHeads
    /\ cursor \in -1..MaxHeads /\ keys \subseteq 1..MaxHeads /\ faults \in 0..MaxFaults
    /\ verdict \in [Checks -> [ok : {"none", "green", "red", "pending"}, idle : BOOLEAN]]
    /\ late \in [Checks -> SUBSET Runs]
    /\ launched \in Seq(Runs)
    /\ run \in [Runs -> [at : Places, of : 0..MaxHeads, current : BOOLEAN, failed : BOOLEAN]]

\* The fallback "heals an advance the sensor missed": when the head stays, the
\* newest report names it for good, after late writers of older reports, dead
\* runs and a lost cursor.
ReportsFollowHead == <>[](stored = head)

\* "The next 04:00 fallback retries the lanes": a red verdict never stays for
\* want of a run that does the work again.
RedIsRetried == \A c \in Checks : Red(c) ~> ~Red(c)

\* "Only a run that does the work writes green again": a red row of a run is not
\* covered, as it is written, by the green row of a run that recomputed nothing.
RedNotHidden ==
    [][\A r \in Runs, c \in Checks :
          /\ \/ c = "question_coverage" /\ run[r].failed /\ FailIfALaneFailed(r)
             \/ c = "theme_purity" /\ run[r].at = "purity" /\ OpRaises(r)
             \/ c = "question_coverage" /\ run[r].at # "purity" /\ OpRaises(r)
          => Red(c)' \/ ~verdict'[c].idle]_vars

\* "a stored report for the head means purity ran for it too".
ReportMeansPurity == stored # 0 => stored \in purity
=============================================================================
