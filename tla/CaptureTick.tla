----------------------------- MODULE CaptureTick -----------------------------
(***************************************************************************)
(* The tick of the data engine: plan, capture, commit, freeze, materialize, *)
(* judge, register, advance the governed pointer, commit                    *)
(* (lanes/capture.py, production_topt/composition.py, a1_evidence.py,       *)
(* evidence_graph_repository.py, materialization.py and the tables those    *)
(* write).  Several ticks run at once against one PostgreSQL database at    *)
(* READ COMMITTED; a tick may die anywhere, may be launched again for the   *)
(* same run, and a deploy may happen between two launches.                  *)
(*                                                                          *)
(* What is abstracted:                                                      *)
(*  - a run is its content address: two launches with the same cutoff and   *)
(*    version are launches of the same run; a forced launch is another run; *)
(*  - an obligation is one member of Cells, in executor order; how its      *)
(*    terminal state is reached is CaptureExecutor's subject;               *)
(*  - one governed key (environment, universe, version, factor): the other  *)
(*    keys share no row with it;                                            *)
(*  - the rows all runs of a universe share (environment identity, list     *)
(*    version) are on file before the behaviour starts.                     *)
(***************************************************************************)
EXTENDS Integers

CONSTANTS Runs,         \* content-addressed capture runs
          Forced,       \* the runs launched with force_fetch
          Cutoff,       \* [Runs -> Nat], the cutoff of each run
          CellCount,    \* obligations per run
          Ticks,        \* concurrent executions (run_queue slots)
          Releases,     \* release manifests the artifact may measure
          FirstRelease, \* the release deployed at the start
          NoRun, NoRelease, NoRow,
          MaxLaunches,  \* bound: launches in one behaviour
          MaxDeploys    \* bound: deploys in one behaviour

ASSUME RunsAssumption == /\ Forced \subseteq Runs
                         /\ Cutoff \in [Runs -> Nat]
                         /\ NoRun \notin Runs
ASSUME ReleaseAssumption == FirstRelease \in Releases /\ NoRelease \notin Releases
ASSUME BoundsAssumption == /\ CellCount \in Nat \ {0}
                           /\ MaxLaunches \in Nat
                           /\ MaxDeploys \in Nat

VARIABLES
    \* committed rows
    plan,      \* raw.production_topt_run_plans: release_manifest_id per run
    results,   \* raw.capture_obligation_results: terminal state per run and cell
    nodes,     \* runs with a capture-run node in staging.evidence_nodes
    snapshot,  \* staging.topt_core_snapshots: release_manifest_id per run
    bound,     \* bound_to edges: <<run, release>>
    report,    \* quality reports on file per run
    pointer,   \* mart.current_pointer: sequence -> advance
    \* the deployment
    release, launches, deploys,
    \* each tick's own state and its open transaction
    pc, run, rel, work, mine, seen, lock, pend, grade,
    registration  \* the PointerRegistration the tick last returned

db == <<plan, results, nodes, snapshot, bound, report, pointer>>
env == <<release, launches, deploys>>
tx == <<pc, run, rel, work, mine, seen, lock, pend, grade, registration>>
vars == <<db, env, tx>>

Cells == 1..CellCount
Terminal == {"success", "unchanged", "unavailable", "failed"}
NoResults == [c \in Cells |-> "none"]
Reports == {"shortfall", "met", "missed"}
Locations == {"idle", "plan", "reuse", "capture", "refuse", "committing",
              "freeze", "judge", "register", "advance", "lockwait",
              "insert", "publish"}
Rows == [target : Runs, previous : Runs \cup {NoRun}, advanced_at : Nat]
Pending == [sequence : Nat, row : Rows]
Registrations == [run : Runs, advanced : BOOLEAN, degraded : BOOLEAN]

\* mart.topt_capture_status, as run_topt_pipeline reads it.
AllResolved(w) == \A c \in Cells : w[c] \in {"success", "unchanged"}
SomeTerminal(w) == \E c \in Cells : w[c] # "none"

\* What a tick reads of its own run: the committed results and its own.
Visible(p) == [c \in Cells |-> IF work[p][c] # "none"
                               THEN work[p][c] ELSE results[run[p]][c]]

\* mart.current_pointer_head: the row with the largest sequence.
IsHead(h) == h \in DOMAIN pointer /\ \A i \in DOMAIN pointer : i <= h
NoHead == DOMAIN pointer = {}

-----------------------------------------------------------------------------
(* The transaction of one tick.                                            *)

\* Everything the tick wrote becomes visible, and its locks are released.
CommitRows(p) ==
    /\ plan' = [plan EXCEPT ![run[p]] = IF "plan" \in mine[p] THEN rel[p] ELSE @]
    /\ results' = [results EXCEPT ![run[p]] = Visible(p)]
    /\ nodes' = IF "node" \in mine[p] THEN nodes \cup {run[p]} ELSE nodes
    /\ snapshot' = [snapshot EXCEPT ![run[p]] =
                        IF "snapshot" \in mine[p] THEN rel[p] ELSE @]
    /\ bound' = IF "edge" \in mine[p] THEN bound \cup {<<run[p], rel[p]>>} ELSE bound
    /\ pointer' = IF pend[p] = NoRow THEN pointer
                  ELSE [i \in DOMAIN pointer \cup {pend[p].sequence} |->
                            IF i = pend[p].sequence THEN pend[p].row ELSE pointer[i]]

\* A committed or rolled back transaction holds nothing.
ClearTx(p) ==
    /\ work' = [work EXCEPT ![p] = NoResults]
    /\ mine' = [mine EXCEPT ![p] = {}]
    /\ seen' = [seen EXCEPT ![p] = -1]
    /\ lock' = [lock EXCEPT ![p] = -1]
    /\ pend' = [pend EXCEPT ![p] = NoRow]

Goto(p, l) == pc' = [pc EXCEPT ![p] = l]

\* The tick is over: its transaction is closed and its slot is free.
EndTick(p) ==
    /\ ClearTx(p)
    /\ Goto(p, "idle")
    /\ run' = [run EXCEPT ![p] = NoRun]
    /\ rel' = [rel EXCEPT ![p] = NoRelease]
    /\ grade' = [grade EXCEPT ![p] = "none"]

\* The tick raises: psycopg's connection context rolls back, the op fails.
Rollback(p) ==
    /\ EndTick(p)
    /\ UNCHANGED <<db, env, registration>>

\* Variant: the insert does not wait for the other launch of the run.
OtherHolds_NoWait(p, kind) == FALSE

\* PostgreSQL makes an insert wait for another open transaction that holds
\* an uncommitted row of the same key: here, the rows of the same run.
OtherHolds(p, kind) ==
    \E q \in Ticks \ {p} : run[q] = run[p] /\ kind \in mine[q]
-----------------------------------------------------------------------------
Init ==
    /\ plan = [r \in Runs |-> NoRelease]
    /\ results = [r \in Runs |-> NoResults]
    /\ nodes = {}
    /\ snapshot = [r \in Runs |-> NoRelease]
    /\ bound = {}
    /\ report = [r \in Runs |-> {}]
    /\ pointer = [i \in {} |-> NoRun]
    /\ release = FirstRelease
    /\ launches = 0
    /\ deploys = 0
    /\ pc = [p \in Ticks |-> "idle"]
    /\ run = [p \in Ticks |-> NoRun]
    /\ rel = [p \in Ticks |-> NoRelease]
    /\ work = [p \in Ticks |-> NoResults]
    /\ mine = [p \in Ticks |-> {}]
    /\ seen = [p \in Ticks |-> -1]
    /\ lock = [p \in Ticks |-> -1]
    /\ pend = [p \in Ticks |-> NoRow]
    /\ grade = [p \in Ticks |-> "none"]
    /\ registration = [p \in Ticks |-> NoRow]

\* The daemon starts a tick: a schedule, a manual request, a re-execution.
Launch(p, r) ==
    /\ pc[p] = "idle"
    /\ launches < MaxLaunches
    /\ launches' = launches + 1
    /\ run' = [run EXCEPT ![p] = r]
    /\ rel' = [rel EXCEPT ![p] = release]
    /\ registration' = [registration EXCEPT ![p] = NoRow]
    /\ Goto(p, "plan")
    /\ UNCHANGED <<db, release, deploys, work, mine, seen, lock, pend, grade>>

\* Variant: a degraded run on file is captured again instead of refused.
PlanAndPersist_RetriesDegraded(p) ==
    /\ pc[p] = "plan"
    /\ ~OtherHolds(p, "plan")
    /\ mine' = [mine EXCEPT ![p] = IF plan[run[p]] = NoRelease THEN {"plan"} ELSE {}]
    /\ Goto(p, IF AllResolved(results[run[p]]) THEN "freeze" ELSE "reuse")
    /\ UNCHANGED <<db, env, run, rel, work, seen, lock, pend, grade, registration>>

\* plan_and_persist, then the status read that decides between a resume, a
\* refusal and a capture.  The run plan is inserted `on conflict do nothing`:
\* a plan already on file keeps the release that wrote it.
PlanAndPersist(p) ==
    /\ pc[p] = "plan"
    /\ ~OtherHolds(p, "plan")
    /\ mine' = [mine EXCEPT ![p] = IF plan[run[p]] = NoRelease THEN {"plan"} ELSE {}]
    /\ Goto(p, CASE AllResolved(results[run[p]]) -> "freeze"
                 [] ~SomeTerminal(results[run[p]]) -> "reuse"
                 [] OTHER -> "refuse")
    /\ UNCHANGED <<db, env, run, rel, work, seen, lock, pend, grade, registration>>

\* Cells another committed run has resolved.  Which of them qualify (age,
\* session, parser, coordinates) is any subset: SatisfyFromRecent picks one.
Reusable(p) == IF run[p] \in Forced THEN {}
               ELSE {c \in Cells : \E s \in Runs \ {run[p]} :
                        /\ results[s][c] \in {"success", "unchanged"}
                        /\ Cutoff[s] <= Cutoff[run[p]]}

\* Variant: only the executor appends the run's evidence node.
SatisfyFromRecent_NoNode(p) ==
    /\ pc[p] = "reuse"
    /\ \E S \in SUBSET Reusable(p) :
           /\ work' = [work EXCEPT ![p] = [c \in Cells |-> IF c \in S THEN "unchanged"
                                                          ELSE "none"]]
           /\ mine' = [mine EXCEPT ![p] = IF S = Cells THEN @ ELSE @ \cup {"node"}]
    /\ Goto(p, "capture")
    /\ UNCHANGED <<db, env, run, rel, seen, lock, pend, grade, registration>>

\* _satisfy_from_recent_observations, and the run's evidence node: the
\* executor appends it, or run_topt_pipeline itself when nothing is left to
\* capture.
SatisfyFromRecent(p) ==
    /\ pc[p] = "reuse"
    /\ \E S \in SUBSET Reusable(p) :
           work' = [work EXCEPT ![p] = [c \in Cells |-> IF c \in S THEN "unchanged"
                                                       ELSE "none"]]
    /\ mine' = [mine EXCEPT ![p] = @ \cup {"node"}]
    /\ Goto(p, "capture")
    /\ UNCHANGED <<db, env, run, rel, seen, lock, pend, grade, registration>>

\* ToptCaptureExecutor.run, one work item: a STOP halts the run at once.
CaptureItem(p, c) ==
    /\ pc[p] = "capture"
    /\ work[p][c] = "none"
    /\ \A d \in Cells : d < c => work[p][d] # "none"
    /\ \E s \in Terminal \ {"unchanged"} :
           /\ work' = [work EXCEPT ![p][c] = s]
           /\ Goto(p, IF s = "failed" THEN "refuse" ELSE "capture")
    /\ UNCHANGED <<db, env, run, rel, mine, seen, lock, pend, grade, registration>>

\* The executor returned: a complete, fully resolved capture is committed
\* before anything is frozen; any other is recorded and refused.
DecideCapture(p) ==
    /\ pc[p] = "capture"
    /\ \A c \in Cells : work[p][c] # "none"
    /\ Goto(p, IF AllResolved(Visible(p)) THEN "committing" ELSE "refuse")
    /\ UNCHANGED <<db, env, run, rel, work, mine, seen, lock, pend, grade, registration>>

CommitCapture(p) ==
    /\ pc[p] = "committing"
    /\ CommitRows(p)
    /\ ClearTx(p)
    /\ Goto(p, "freeze")
    /\ UNCHANGED <<report, env, run, rel, grade, registration>>

\* _record_and_refuse: the degraded run, its results and its report are
\* committed, and then the tick fails.
RecordAndRefuse(p) ==
    /\ pc[p] = "refuse"
    /\ CommitRows(p)
    /\ report' = [report EXCEPT ![run[p]] = @ \cup {"shortfall"}]
    /\ EndTick(p)
    /\ UNCHANGED <<env, registration>>
-----------------------------------------------------------------------------
\* Variant: a new snapshot takes any release.
FreezeAllowed_AnyRelease(p) ==
    \/ snapshot[run[p]] = rel[p]
    \/ snapshot[run[p]] = NoRelease /\ AllResolved(Visible(p))

\* freeze_snapshot and staging.validate_topt_core_snapshot: an existing
\* snapshot must carry this release; a new one needs a complete run and the
\* release of the run plan.
FreezeAllowed(p) ==
    IF snapshot[run[p]] # NoRelease
    THEN snapshot[run[p]] = rel[p]
    ELSE /\ AllResolved(Visible(p))
         /\ plan[run[p]] = rel[p]

\* freeze_snapshot, materialize, build_report and persist.  The report of a
\* run is a function of the run: one on file is reached again.
FreezeAndMaterialize(p) ==
    /\ pc[p] = "freeze"
    /\ ~OtherHolds(p, "snapshot")
    /\ FreezeAllowed(p)
    /\ mine' = [mine EXCEPT ![p] = IF snapshot[run[p]] = NoRelease
                                   THEN @ \cup {"snapshot"} ELSE @]
    /\ \E g \in {"met", "missed"} :
           /\ report[run[p]] \cap {"met", "missed"} \subseteq {g}
           /\ grade' = [grade EXCEPT ![p] = g]
    /\ Goto(p, "judge")
    /\ UNCHANGED <<db, env, run, rel, work, seen, lock, pend, registration>>

\* freeze_snapshot refuses the release: the tick fails.
FreezeRefused(p) ==
    /\ pc[p] = "freeze"
    /\ ~OtherHolds(p, "snapshot")
    /\ ~FreezeAllowed(p)
    /\ Rollback(p)

\* judge_issuers, the registry check, the strategy replay, the fund
\* consolidation and judge_strategy: all in the publish transaction.
JudgeAndReplay(p) ==
    /\ pc[p] = "judge"
    /\ Goto(p, "register")
    /\ UNCHANGED <<db, env, run, rel, work, mine, seen, lock, pend, grade, registration>>

\* A missing risk-free rate, a registry that classified no issuer, any error
\* of the publish half.
PublishSideRaises(p) ==
    /\ pc[p] \in {"freeze", "judge"}
    /\ Rollback(p)

\* Variant: the sequence of the head, not the one after it.
Built_SameSequence(p) ==
    [sequence |-> seen[p],
     row |-> [target |-> run[p],
              previous |-> IF seen[p] = -1 THEN NoRun ELSE pointer[seen[p]].target,
              advanced_at |-> Cutoff[run[p]]]]

\* Variant: the first advance of a key is numbered one.
Built_FirstIsOne(p) ==
    [sequence |-> IF seen[p] = -1 THEN 1 ELSE seen[p] + 1,
     row |-> [target |-> run[p],
              previous |-> IF seen[p] = -1 THEN NoRun ELSE pointer[seen[p]].target,
              advanced_at |-> Cutoff[run[p]]]]

\* The pointer the tick builds from the head it read.
Built(p) == [sequence |-> seen[p] + 1,
             row |-> [target |-> run[p],
                      previous |-> IF seen[p] = -1 THEN NoRun
                                   ELSE pointer[seen[p]].target,
                      advanced_at |-> Cutoff[run[p]]]]

\* Variant: a run that already heads the pointer advances it again.
RegisterEvidence_Readvances(p) ==
    /\ pc[p] = "register"
    /\ ~OtherHolds(p, "edge")
    /\ run[p] \in nodes
    /\ mine' = [mine EXCEPT ![p] = IF <<run[p], rel[p]>> \in bound
                                   THEN @ ELSE @ \cup {"edge"}]
    /\ \/ \E h \in DOMAIN pointer : IsHead(h) /\ seen' = [seen EXCEPT ![p] = h]
       \/ NoHead /\ seen' = [seen EXCEPT ![p] = -1]
    /\ Goto(p, "advance")
    /\ UNCHANGED <<db, env, run, rel, work, lock, pend, grade, registration>>

\* register_run_evidence up to repo.head(key): the manifest edge is appended
\* (it waits for another open transaction that appends the same edge; its
\* foreign key needs the run's node), then the head is read.  A run that
\* already heads the pointer advances nothing.
RegisterEvidence(p) ==
    /\ pc[p] = "register"
    /\ ~OtherHolds(p, "edge")
    /\ run[p] \in nodes
    /\ mine' = [mine EXCEPT ![p] = IF <<run[p], rel[p]>> \in bound
                                   THEN @ ELSE @ \cup {"edge"}]
    /\ \/ \E h \in DOMAIN pointer :
              /\ IsHead(h)
              /\ pointer[h].target = run[p]
              /\ registration' = [registration EXCEPT ![p] =
                     [run |-> run[p], advanced |-> FALSE, degraded |-> FALSE]]
              /\ Goto(p, "publish")
              /\ UNCHANGED seen
       \/ \E h \in DOMAIN pointer :
              /\ IsHead(h)
              /\ pointer[h].target # run[p]
              /\ seen' = [seen EXCEPT ![p] = h]
              /\ Goto(p, "advance")
              /\ UNCHANGED registration
       \/ /\ NoHead
          /\ seen' = [seen EXCEPT ![p] = -1]
          /\ Goto(p, "advance")
          /\ UNCHANGED registration
    /\ UNCHANGED <<db, env, run, rel, work, lock, pend, grade>>

\* advance: `select ... order by sequence desc limit 1 for update` takes its
\* snapshot now and then waits for the row it found.
SelectHeadForUpdate(p) ==
    /\ pc[p] = "advance"
    /\ \/ \E h \in DOMAIN pointer : IsHead(h) /\ lock' = [lock EXCEPT ![p] = h]
       \/ NoHead /\ UNCHANGED lock
    /\ Goto(p, "lockwait")
    /\ UNCHANGED <<db, env, run, rel, work, mine, seen, pend, grade, registration>>

\* Variant: a tick that still waits for the row already counts as its holder.
RowLocked_Waiters(p) == \E q \in Ticks \ {p} :
                    pc[q] \in {"lockwait", "insert", "publish"} /\ lock[q] = lock[p]

\* The row is held by a tick that is past its wait.
RowLocked(p) == \E q \in Ticks \ {p} :
                    pc[q] \in {"insert", "publish"} /\ lock[q] = lock[p]

\* advance's checks, against the row the locking read returned.  Rows are
\* never updated, so a wait returns the row of the old snapshot.
CheckHead(p) ==
    /\ pc[p] = "lockwait"
    /\ lock[p] = -1 \/ ~RowLocked(p)
    /\ IF lock[p] = seen[p]
       THEN /\ Goto(p, "insert")
            /\ UNCHANGED <<db, env, run, rel, work, mine, seen, lock, pend, grade, registration>>
       ELSE Rollback(p)

\* The insert waits for an open transaction that inserted the same sequence
\* and fails when a committed row holds it (current_pointer_unique_advance).
InsertWaits(p) == \E q \in Ticks \ {p} :
                      pend[q] # NoRow /\ pend[q].sequence = Built(p).sequence

\* Variant: no unique constraint on the sequence.
InsertPointer_NotUnique(p) ==
    /\ pc[p] = "insert"
    /\ pend' = [pend EXCEPT ![p] = Built(p)]
    /\ registration' = [registration EXCEPT ![p] =
           [run |-> run[p], advanced |-> TRUE, degraded |-> grade[p] = "missed"]]
    /\ Goto(p, "publish")
    /\ UNCHANGED <<db, env, run, rel, work, mine, seen, lock, grade>>

\* advance's insert, and what register_run_evidence returns for it.
InsertPointer(p) ==
    /\ pc[p] = "insert"
    /\ ~InsertWaits(p)
    /\ IF Built(p).sequence \in DOMAIN pointer
       THEN Rollback(p)
       ELSE /\ pend' = [pend EXCEPT ![p] = Built(p)]
            /\ registration' = [registration EXCEPT ![p] =
                   [run |-> run[p], advanced |-> TRUE, degraded |-> grade[p] = "missed"]]
            /\ Goto(p, "publish")
            /\ UNCHANGED <<db, env, run, rel, work, mine, seen, lock, grade>>

\* The publish transaction commits: snapshot, report, evidence and head.
CommitPublish(p) ==
    /\ pc[p] = "publish"
    /\ CommitRows(p)
    /\ report' = [report EXCEPT ![run[p]] = @ \cup {grade[p]}]
    /\ EndTick(p)
    /\ UNCHANGED <<env, registration>>
-----------------------------------------------------------------------------
\* The worker dies, the run monitor ends it, or the capture half raises (what
\* CaptureExecutor calls an abort): the server rolls back.
Crash(p) == pc[p] # "idle" /\ Rollback(p)

\* A deploy restarts the code location: every open tick dies with it.
Deploy ==
    /\ deploys < MaxDeploys
    /\ deploys' = deploys + 1
    /\ release' \in Releases \ {release}
    /\ pc' = [p \in Ticks |-> "idle"]
    /\ work' = [p \in Ticks |-> NoResults]
    /\ mine' = [p \in Ticks |-> {}]
    /\ seen' = [p \in Ticks |-> -1]
    /\ lock' = [p \in Ticks |-> -1]
    /\ pend' = [p \in Ticks |-> NoRow]
    /\ run' = [p \in Ticks |-> NoRun]
    /\ rel' = [p \in Ticks |-> NoRelease]
    /\ grade' = [p \in Ticks |-> "none"]
    /\ UNCHANGED <<db, launches, registration>>

Step(p) ==
    \/ PlanAndPersist(p) \/ SatisfyFromRecent(p)
    \/ \E c \in Cells : CaptureItem(p, c)
    \/ DecideCapture(p) \/ CommitCapture(p) \/ RecordAndRefuse(p)
    \/ FreezeAndMaterialize(p) \/ FreezeRefused(p)
    \/ JudgeAndReplay(p) \/ RegisterEvidence(p)
    \/ SelectHeadForUpdate(p) \/ CheckHead(p) \/ InsertPointer(p)
    \/ CommitPublish(p)

Next == \/ \E p \in Ticks : \/ \E r \in Runs : Launch(p, r)
                            \/ Step(p) \/ PublishSideRaises(p) \/ Crash(p)
        \/ Deploy

Spec == Init /\ [][Next]_vars

\* A launched tick keeps taking steps: PostgreSQL and the bounded vendor
\* calls answer, and the run monitor ends a tick that stops answering.
TickFairness == \A p \in Ticks : WF_vars(Step(p))

-----------------------------------------------------------------------------
(* Properties.                                                             *)

TypeOK ==
    /\ plan \in [Runs -> Releases \cup {NoRelease}]
    /\ results \in [Runs -> [Cells -> Terminal \cup {"none"}]]
    /\ nodes \subseteq Runs
    /\ snapshot \in [Runs -> Releases \cup {NoRelease}]
    /\ bound \subseteq Runs \X Releases
    /\ report \in [Runs -> SUBSET Reports]
    /\ DOMAIN pointer \subseteq Nat
    /\ \A i \in DOMAIN pointer : pointer[i] \in Rows
    /\ release \in Releases /\ launches \in Nat /\ deploys \in Nat
    /\ pc \in [Ticks -> Locations]
    /\ run \in [Ticks -> Runs \cup {NoRun}]
    /\ rel \in [Ticks -> Releases \cup {NoRelease}]
    /\ work \in [Ticks -> [Cells -> Terminal \cup {"none"}]]
    /\ mine \in [Ticks -> SUBSET {"plan", "node", "snapshot", "edge"}]
    /\ seen \in [Ticks -> Nat \cup {-1}]
    /\ lock \in [Ticks -> Nat \cup {-1}]
    /\ pend \in [Ticks -> Pending \cup {NoRow}]
    /\ grade \in [Ticks -> {"met", "missed", "none"}]
    /\ registration \in [Ticks -> Registrations \cup {NoRow}]

\* The advances of a key are one chain without gaps: each names the run of
\* the advance below it, and the first names none.  Racing ticks neither
\* lose an advance nor fork the chain.
HeadChain ==
    \A i \in DOMAIN pointer :
        IF i = 0 THEN pointer[i].previous = NoRun
        ELSE /\ i - 1 \in DOMAIN pointer
             /\ pointer[i].previous = pointer[i - 1].target
             /\ pointer[i].target # pointer[i].previous

\* A consumer that resolves a run through the pointer finds all of it: every
\* obligation resolved, a snapshot frozen under the release the plan names,
\* and the evidence edge to that release.
HeadIsPublished ==
    \A i \in DOMAIN pointer : LET r == pointer[i].target IN
        /\ AllResolved(results[r])
        /\ snapshot[r] # NoRelease /\ snapshot[r] = plan[r]
        /\ r \in nodes /\ <<r, snapshot[r]>> \in bound
        /\ report[r] \cap {"met", "missed"} # {}

\* A run that was recorded as degraded is never served, whatever is retried
\* (_record_and_refuse: "materialized": False, "published": False).
ShortfallNeverServed ==
    \A r \in Runs : "shortfall" \in report[r] =>
        /\ snapshot[r] = NoRelease
        /\ \A i \in DOMAIN pointer : pointer[i].target # r

\* Only a run with nothing on file is captured: no launch repeats the vendor
\* half of a run another launch has committed, and no two ticks capture one
\* run at the same time.
NoRecapture ==
    \A p \in Ticks : pc[p] \in {"reuse", "capture", "committing"} =>
        /\ ~SomeTerminal(results[run[p]])
        /\ \A q \in Ticks \ {p} :
               run[q] = run[p] => pc[q] = "plan"

\* A committed capture can always be bound to its release manifest: its
\* evidence node is on file, also when reuse satisfied every obligation.
CaptureIsBindable ==
    \A r \in Runs : AllResolved(results[r]) => r \in nodes /\ plan[r] # NoRelease

\* The table is append-only and grows one advance at a time; a recorded
\* terminal state is never rewritten.
AppendOnly ==
    [][/\ \A i \in DOMAIN pointer : i \in DOMAIN pointer' /\ pointer'[i] = pointer[i]
       /\ \A r \in Runs, c \in Cells :
              results[r][c] # "none" => results'[r][c] = results[r][c]]_vars

\* Whatever two ticks wait for (the rows of one run, the head row, one
\* sequence number), every launched tick ends.
EveryTickEnds == \A p \in Ticks : pc[p] # "idle" ~> pc[p] = "idle"

\* The ticks implement the registry's contract.
Registry == INSTANCE GovernedPointer WITH Cutoffs <- {Cutoff[r] : r \in Runs}
ImplementsRegistry == Registry!Spec
-----------------------------------------------------------------------------
(* The strengthenings the proofs in CaptureTickProofs rest on.             *)

AfterFreeze == {"judge", "register", "advance", "lockwait", "insert", "publish"}

\* A launched tick has a run and a release; after the freeze it has a grade;
\* the head it read stays on file (rows are never removed).
TypeInv ==
    /\ TypeOK
    /\ \A p \in Ticks : pc[p] # "idle" => run[p] \in Runs /\ rel[p] \in Releases
    /\ \A p \in Ticks : pc[p] \in AfterFreeze => grade[p] \in {"met", "missed"}
    /\ \A p \in Ticks : seen[p] = -1 \/ seen[p] \in DOMAIN pointer

\* The sequence numbers on file are an initial segment of the naturals.
DownClosed == \A i \in DOMAIN pointer : 0..i \subseteq DOMAIN pointer

\* A tick that read a head read another run's; a pending row is free, links
\* to the row below it, and is the only pending row of its sequence.
PendingLinks ==
    \A p \in Ticks :
        /\ (pc[p] \in {"advance", "lockwait", "insert"} /\ seen[p] # -1)
               => pointer[seen[p]].target # run[p]
        /\ pend[p] # NoRow =>
               LET n == pend[p].sequence IN
               /\ pend[p] \in Pending
               /\ n \notin DOMAIN pointer
               /\ IF n = 0 THEN pend[p].row.previous = NoRun
                  ELSE /\ n - 1 \in DOMAIN pointer
                       /\ pend[p].row.previous = pointer[n - 1].target
                       /\ pend[p].row.target # pend[p].row.previous
               /\ pend[p].row.advanced_at \in {Cutoff[r] : r \in Runs}
               /\ \A q \in Ticks \ {p} : pend[q] # NoRow => pend[q].sequence # n

ChainInv == TypeInv /\ HeadChain /\ DownClosed /\ PendingLinks

Capturing == {"reuse", "capture", "committing"}

\* What the committed rows of one run say of each other: the plan, the
\* results and the node are written together, a snapshot is the plan's and
\* complete, and a run with a shortfall on file stays short.
RunRows ==
    \A r \in Runs :
        /\ plan[r] # NoRelease <=> SomeTerminal(results[r])
        /\ SomeTerminal(results[r]) => r \in nodes
        /\ snapshot[r] # NoRelease => snapshot[r] = plan[r] /\ AllResolved(results[r])
        /\ "shortfall" \in report[r] =>
               SomeTerminal(results[r]) /\ ~AllResolved(results[r])

\* A capture: the tick holds the run plan of a run with nothing on file.
FreshCapture(p) ==
    /\ "plan" \in mine[p] /\ mine[p] \subseteq {"plan", "node"}
    /\ ~SomeTerminal(results[run[p]])

\* A run the tick found degraded on file: it holds nothing.
FoundDegraded(p) ==
    /\ mine[p] = {} /\ work[p] = NoResults
    /\ SomeTerminal(results[run[p]]) /\ ~AllResolved(results[run[p]])

\* The publish half holds a new snapshot, or found its release's on file.
Publishing(p) ==
    /\ mine[p] \subseteq {"snapshot", "edge"}
    /\ AllResolved(results[run[p]])
    /\ IF "snapshot" \in mine[p]
       THEN snapshot[run[p]] = NoRelease /\ plan[run[p]] = rel[p]
       ELSE snapshot[run[p]] = rel[p]

\* What a tick's location says of its open transaction and its run's rows.
RowsOf(p) ==
    /\ pc[p] = "idle" => run[p] = NoRun
    /\ pc[p] \in {"idle", "plan"} => mine[p] = {}
    /\ pc[p] \notin {"capture", "committing", "refuse"} => work[p] = NoResults
    /\ pc[p] \in Capturing => FreshCapture(p)
    /\ pc[p] \in {"capture", "committing"} => "node" \in mine[p]
    /\ pc[p] = "committing" => AllResolved(work[p])
    /\ pc[p] = "refuse" =>
           \/ FoundDegraded(p)
           \/ /\ FreshCapture(p) /\ "node" \in mine[p]
              /\ \E c \in Cells : work[p][c] \in {"unavailable", "failed"}
    /\ pc[p] = "freeze" => mine[p] = {} /\ AllResolved(results[run[p]])
    /\ pc[p] \in AfterFreeze => Publishing(p)
    /\ pc[p] \in {"advance", "lockwait", "insert", "publish"} =>
           "edge" \in mine[p] \/ <<run[p], rel[p]>> \in bound
    /\ pend[p] # NoRow => pc[p] = "publish" /\ pend[p].row.target = run[p]

\* One tick at a time holds the plan of a run, while every other tick of the
\* run still waits to plan; one at a time holds its new snapshot.
OneHolder ==
    \A p \in Ticks : \A q \in Ticks \ {p} :
        run[q] = run[p] =>
            /\ "plan" \in mine[p] => pc[q] = "plan"
            /\ "snapshot" \in mine[p] => "snapshot" \notin mine[q]

PublishInv == /\ ChainInv /\ RunRows /\ OneHolder /\ HeadIsPublished
              /\ \A p \in Ticks : RowsOf(p)
-----------------------------------------------------------------------------
(* What comments and docstrings of the code say, and the code does not do. *)

\* a1_evidence.py: "Monotonic pointer advance ensures downstream consumers
\* receive the freshest data knowable at cutoff".
HeadIsFreshest ==
    \A i, j \in DOMAIN pointer :
        i < j => pointer[i].advanced_at <= pointer[j].advanced_at

\* run_topt_pipeline: a publish-side failure "costs a retry of the cheap half
\* ... and the retry RESUMES".
RetryResumes == \A p \in Ticks : pc[p] = "freeze" => FreezeAllowed(p)

\* PointerRegistration.is_degraded: "True when the run heads the pointer but
\* missed one or more objectives".
DegradedHeadReported ==
    \A p \in Ticks :
        (pc[p] = "idle" /\ registration[p] # NoRow) =>
            ("missed" \in report[registration[p].run] => registration[p].degraded)
=============================================================================
