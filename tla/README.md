# TLA+ models of the truealpha data plane

truealpha is a research workbench. Its data engine (Dagster, Python) captures vendor data into
PostgreSQL (`raw`, `staging`, `mart`), freezes what it captured into snapshots, derives factors and
strategies from them, and serves one *head* per governed key: the LLM service and the web app resolve
a run through `mart.current_pointer` and read only what belongs to it.

This directory models the part of that engine whose correctness depends on interleavings, failures
and retries: the tick that captures and publishes a run, the executor inside it, the reuse of other
runs' observations, the gateway all vendor calls go through, the sensors and the queue that launch
runs, the store that says which entity an id names, the price series behind a market value, the calls
of a model and the reports built from them, and the documents of the web app.

    tlc -config CaptureTick.cfg MCCaptureTick        # any run of the table below
    tlapm CaptureTickProofs.tla                      # the proofs

## 1. Inventory

Paths: DE = `src/apps/data-engine/src/data_engine`, C = `src/common/contracts/src/truealpha_contracts`,
DB = `src/db/migrations`.

| component | state | operations | hard behaviour | what makes it correct |
|---|---|---|---|---|
| Governed pointer (C/`evidence_graph.py`, DE/`datahub/evidence_graph_repository.py`, DB/`0028`) | append-only advances per key | `head`, `advance` | read head, lock head, insert by racing ticks; nothing to lock on the first advance | one gapless chain, one head |
| Capture tick (DE/`lanes/capture.py`, `production_topt/composition.py`, `a1_evidence.py`) | run plan, obligation results, evidence nodes, snapshot, report, pointer | plan, reuse, capture, commit, refuse, freeze, judge, register, publish | two transactions with a commit in between; crashes, relaunches, deploys; two launches of one run | a head is fully published; a degraded run is never served; a committed capture is not repeated |
| Executor (DE/`production_topt/executor.py`, `capture_orchestration.py`) | attempt reasons of an item | fetch, retry, failover, halt | any sequence of answers; STOP after retries; short primaries | terminates, halts on STOP, never hides the primary |
| Sink and attempt ledger (`persistence.py`, `control_plane.py`, DB/`0023`) | attempts, vintages, observations, results | replay attempts, persist, corroborate in a savepoint | three independent validators; part of a second origin fails | accepts everything the executor produces; second origins whole or absent |
| Gateway (DE/`sources/gateway.py`, `landed_keys.py`) | call ledger, landed keys, per-process gate | `admit`, `record_call`, `emit`, `fetch_once` | processes that share only autocommit tables; check-then-act; lost rows | overshoot bounded by the processes, repeats bounded |
| Reuse of observations (`composition.py` 649-931) | results and observations of other runs | which recent observations satisfy an obligation | runs of any cutoff and parser that hand a cell on; two origins of one price | recent however often it is handed on; whole; readable by the replay; accepted by the freeze |
| Triggers (DE/`lanes/triggers.py`, DB/`0034`, the app's `trigger.ts`) | requests, sensor cursor, run keys, run plans | request, poll, commit, launch, store cursor, stamp the build | deaths and deploys between any two of these | at most one run per request and per deployment; every request is taken; the deployed build is proven |
| Run queue and launcher (`dagster.yaml`, DE/`run_launcher.py`, `_await_settled` in DE/`lanes/quality.py`) | queued and started runs | enqueue, dequeue, wait, monitor | runs that hold a slot while they wait for others; workers lost with the code server | the queue moves without time-outs |
| Service objectives, quality report | reports | judge a run | null and missing measures | verdict is a function of the run |
| Served head (DB/`20261006T1020`, `20261015T0555`) | views | latest head of a family, freshness | clock at read time, universe rolls | stale and withheld data is labelled |
| Record of model calls (DE/`sources/llm.py`) | `staging.model_invocations`, advisory locks | lock a question, replay, ask, record, commit | locks held until an op commits; ids taken before a commit; deploys between two asks | one answer per question, which never changes; no cycle of waits |
| One model call (`llm.py`, DE/`sources/model_policy.py`) | attempts, slots, admission lock, rate window | wait, send, back off, give up | four waits with one deadline, shared by the callers of a process | waits end in time, not too early, within the rate |
| Reports of a head (DE/`lanes/standards.py`, `quality/nightly_verdicts.py`) | reports, verdict rows, sensor cursor, run keys | launch, theme purity, lanes, coverage report, verdict | overlapping runs of three launchers while the head moves | the newest report reaches the head; a red verdict is worked on again |
| Prices (DE/`datahub/market_prices.py`, `price_series.py`, `share_basis.py`, `corporate_actions.py`, DE/`lanes/market_data.py`, `qqq_prices.py`) | two daily series per symbol | fetch, store, derive splits, choose symbols | a vendor that lists late and restates; runs that overlap; a window that moves; a budget that is short | a share count and a close on one basis; every symbol comes round |
| Entity identity (DE/`datahub/resolve_coordinates.py`, DE/`lanes/entity_identity.py`, DB/`20260917T0412`, `20260917T0604`) | entities, aliases, merges, bitemporal and append-only | look up, mint, name, plan, merge, claim | ticks and backfill write at one time; evidence arrives out of order | an id names one entity at every knowable time; what was captured stays with its id |
| Documents of the web app (`app-web` `documents.ts`) | documents, tombstones, tickets | create, delete, list, issue, redeem | rows that share a millisecond; two redemptions of one ticket | pages are complete; a ticket is served once |
| Adapters, factors, strategies, backtest, macro and history lanes, LLM service, pages of the web app, tools | | | sequential or read-only | see "Not modelled" |

How they interact: a schedule, a sensor or an operator launches a tick; the tick plans its
obligations, satisfies some from other runs' committed observations, hands the rest to the executor,
which calls adapters, which call the gateway; the sink writes the outcomes in the tick's transaction;
the tick commits the capture, and in a second transaction freezes, judges and advances the pointer.
Ticks meet only in PostgreSQL: in the rows of a run both of them launch, in the head row, in the
sequence number, in the entity store, and in the gateway's two autocommit tables. Behind a new head the
standards lane asks its questions through the record of model calls and writes its reports; the price
lanes fill the series a market value is computed from.

`PROJECT.json` lists the hazards, each at its line with the properties aimed at it.

## 2. Plan

Done in this order: CaptureTick over GovernedPointer with its proofs, CaptureExecutor over
CaptureContract with its proofs, SourceGateway, RunTriggers, RunQueue; then ModelInvocations and
ModelCall with their proofs, HeadReports, SplitBasis, PriceRefresh, ObservationReuse (the reuse window of
the first plan), Documents with its proof, EntityIdentity. What is left:

1. **ServedHead**: the two views over several keys' chains, with a clock.
2. **Objectives**: `unmet_objectives` and the report's measures as operators against a reference
   definition; reconciliation and confidence in the same way.
3. EntityIdentity: instruments and listings, whose schemes are reusable and whose claims have an
   interval, and the sensor that launches the backfill.
4. A composition of RunQueue with CaptureTick, where a lost worker is a tick's `Crash`, of
   RunTriggers with RunQueue, where a created run is enqueued, and of ModelInvocations with ModelCall.
5. What the nightly jobs judge after their last look (`lanes/quality.py:179`), over the tables of
   CaptureTick and HeadReports.
6. Proofs: every invariant and every action property of a passing run has its theorem. What is left is
   liveness, which stays with TLC.

## 3. Modules

| module | what it is |
|---|---|
| `GovernedPointer` | abstract: the registry's contract, one variable, one action `Advance` |
| `CaptureTick` | the ticks, their transactions and the tables; implements `GovernedPointer` |
| `CaptureTickProofs` | theorems about `CaptureTick` |
| `CaptureContract` | abstract: what a tick relies on when it calls the executor |
| `CaptureExecutor` | executor, router, sink, attempt ledger, triggers of `raw.capture_attempts`; implements `CaptureContract` |
| `CaptureExecutorProofs` | theorems about `CaptureExecutor` |
| `SourceGateway`, `SourceGatewayProofs` | the capacity gate, the call ledger and the landed-key index; theorems |
| `RunTriggers`, `RunTriggersProofs` | the manual-trigger sensor, the boot canary and the daemon that serves them; theorems |
| `RunQueue` | the run queue, the runs that wait for others, the health check |
| `ModelInvocations`, `ModelInvocationsProofs` | the record of model calls and its replay; theorems |
| `ModelCall` | retries, deadline and pacer of one call |
| `HeadReports` | the runs of the standards lane, their reports and verdicts |
| `ObservationReuse` | one cell handed from run to run |
| `EntityIdentity` | the entity store, the ticks that mint and the backfill that merges |
| `SplitBasis` | the stored price series of a symbol and the share count put on their basis |
| `PriceRefresh` | which symbols a price run fetches under its budget |
| `Documents` | documents, pages and download tickets of an owner |
| `AccessProofs` | theorems about `ObservationReuse`, `Documents` and `ModelCall` |
| `ReferenceProofs` | theorems about `EntityIdentity` and `SplitBasis` |
| `SchedulesProofs` | theorems about `PriceRefresh` |
| `MC...` | instances for TLC |

`MCReports`, `MCAccess`, `MCReference` and `MCSchedules` put two or three modules that share no state
into one run: a variable `part`, chosen in the initial state, says which of them the behaviour is of, the
others rest in one initial state, and fairness is asked of the active one only. The states of such a run
are the sum, not the product, of its parts. In `MCAccess` and `MCReference` the constant `Parts` says which
parts a `.cfg` runs. `MCAccess`, `MCReference` and `MCSchedules` leave the constants
of their parts open (the `.cfg` gives them their values) and name what is assumed of them, so that the
proofs are about the very instances the runs check.

Definitions named `X_Something` next to a definition `X` are plausible mistakes in `X`; each property
has one that breaks it, listed under "mutants" in `PROJECT.json`. They are used by no specification.

### CaptureTick

Committed tables are the variables `plan`, `results`, `nodes`, `snapshot`, `bound`, `report`,
`pointer`. A tick has a location and the state of its open transaction: `mine` and `work` are rows
written and not yet visible to others, `lock` the head row it waits for or holds, `pend` the advance it
has inserted. `CommitRows` publishes them, `Rollback` drops them. PostgreSQL at READ COMMITTED appears
as four external facts: an insert of a key waits for an open transaction that has inserted it
(`OtherHolds`, `InsertWaits`), `FOR UPDATE` waits for the holder of the row its snapshot found
(`RowLocked`), a statement sees what is committed and the transaction's own rows (`Visible`), and a
transaction that ends holds nothing (`ClearTx`). Because rows of the pointer are never updated, a
`FOR UPDATE` that had to wait returns the row of its old snapshot, not the new head: `CheckHead`
compares with that stale row, and it is the unique constraint in `InsertPointer` that refuses the
second of two racing advances.

A run is its content address, so two launches with one cutoff are launches of one run and meet in its
rows. `SatisfyFromRecent` may reuse any subset of the cells another run has resolved; the tick's
properties therefore hold whatever the conditions of the reuse query are. `Deploy` changes the release
and ends every open tick. `Crash` is a worker death, a run the monitor ends, or an exception of the
capture half.

`CaptureItem` is the executor seen from the tick: items in order, any terminal state, a failed one
halts. That this is what the executor does is `ImplementsContract`.

### CaptureExecutor

`heard` and `asked` are history variables; everything else is the code's. `FetchServed`, `FetchShort`,
`FetchFailed`, `FailoverShort` and `Failover` are `_run_item`; `RecordOutcome` is the hand-over with
the sink's guards; `ReplayAttempt` writes one attempt and asks `LedgerAccepts` and `TriggersAccept`,
two translations of two checks the code makes in different places; `Corroborate` writes one row of a
second origin and `CorroborationLost` rolls its savepoint back; `PutResult` ends the item. Stamps are
seconds after the first attempt, so that the spacing of two seconds, the terminal stamp at 60 and the
20 attempts a policy permits can meet. `served`, `content` and `vintage` are strings or sets, not
payloads: which bytes were captured matters to no property here.

### SourceGateway

One vendor account and one environment's share of it. Each process does what its code does in order:
look the key up, check the budget, queue (possibly several sleeps), check the budget again if it slept,
call, record, land. The ledger is a set, since nothing depends on the order of its rows; equal rows are
told apart by `copy`, so that each counts. A process's gate
(`admitted`, `local`) dies with its op (`NewScope`) or with the process (`Crash`). The clock advances
between any two steps.

### RunTriggers

A sensor is a generator evaluated by the code server; the daemon creates the runs it asked for and
stores the cursor last. So the rows of the manual trigger are committed as consumed (`CommitConsumed`)
before any run exists, and the boot canary's cursor is stored (`LaunchBoot`) after. A restart leaves of
an evaluation nothing, or, if the daemon had recorded the run requests, all of them to go through
again; the run key then has to deduplicate. Each run carries the number of the deployment in which its
evaluation ran, which is history: the code knows a deployment only by digest and configuration, so a
rollback and the deployment it returns to look the same to it. A created run is `open` until it writes its
plan, which names the build it runs in (`Stamp`); `identity` is the digest of the newest plan, which `/health`
reports and the release gate compares with the digest it promoted (`Proven`). A death or a deploy ends the
runs that are in the code server and leaves the queued ones. `calm` is history too: no deployment was
replaced before it was proven, no death took its canary and no operator cleared the cursor.

### RunQueue

The queue starts the oldest run that exceeds no limit. A tick, a report run and a waiting run hold a slot
from `Dequeue` to their end; a waiting run ends when `Settling` is false or its wait runs out. A restart
of the code server takes all processes and leaves their records started: such a run is ended by the
health check, once the server answers, or, if it has no address, by its maximum runtime.

### ModelInvocations and ModelCall

`rows` is the committed table; an op has its questions, the locks it holds and the rows it has written.
`LockQuestion` takes the advisory lock of a question (its request without the model's name, in the oldest
decoding version), `Replay` looks for an answer under the matching rules of `_replay_sql`, `AskAnswered`,
`AskRefused`, `AskNotSent` and `AskBroken` are the ways `_ask` ends. Four kinds of op differ in when they
commit: theme purity and the supply chain at the end, the backfill after each question, and a caller with
an autocommit connection in a transaction that `invoke` opens. An id is taken at the insert and seen at
the commit. `ModelCall` opens the one step that a call is here: a caller waits for a slot, for the
admission lock, for room in the window, sends, backs off. Its clock stands still while a caller has
something to do, so that waits end on time; a response is not a wait: the timeout of an attempt limits each
operation of its socket and not the whole response, and the clock may run on while a caller is sending.

### HeadReports

A run passes its ops in the code's order: `HeadReportsStart` (a fallback that finds the reports current
does nothing), `ThemePurity`, `Lanes`, `CompileReport`, `Persist`, `FailIfALaneFailed`. Each resolves
the head again. Launches come from the pointer sensor, whose cursor may be lost, from the daily
fallback and from the backfill job. Verdict rows are ordered by the tick of their run and not by when
they were written, which is why `late` keeps the runs that may still write behind a row.

### ObservationReuse

The query of `_satisfy_from_recent_observations` is `Anchors`, `Ahead`, `BoundSet` and `Satisfies`: age,
parser, validity, a classified issuer, the settled session of a price and the whole set of its origins. A run
that finds nothing asks the vendors (`Fetch`). Every run may hand on what it took over. A payload names its
issuer by the scheme of the corpus of the run that fetched it (`keyed`: LEI or CIK). `Consumable` is what
the freeze reads of a cell and `IdentitiesAgree` its comparison with the run's own identity.

### EntityIdentity

The issuers of one company that one universe names by LEI and another by CIK. `store` holds what is
committed, `mine` what each transaction has inserted; an advisory lock is held by whoever keeps the row
it protects. A tick looks an id up (`Lookup`), mints on a miss (`Mint`) and writes the birth alias
(`NameEntity`), in the transaction of the capture (`CommitTick`). The backfill reads plan and survivors
once (`StartRun`) and writes each component in a block of its own: `TakeComponent` merges what the
component spans, `MintComponent` mints, `InsertClaim` writes its claims; a refused row takes the block
back (`ComponentFails`). `AliasAllowed` and `MergeAllowed` are the triggers of the store, `Hits` the
resolver. Left out: retractions (no code writes one), the validity of reusable schemes, instruments and
listings with their relations.

### SplitBasis and PriceRefresh

A stored price is its level: an unadjusted close falls one level at an ex-date, a ratio of closes is a
difference of levels, a product of factors a count of splits. The vendor lists and restates at its own time; a run
fetches the two series one after the other, either of which may come without a bar, keeps a moving window
(`Kept`) and stores them; the vintage recorded last is read, whichever run fetched it. Readers derive splits
(`Steps`, `Confirmed`) and put a share count on the basis of the close (`BasisDate`). Where the code compares
closes of different days the market counts too: a move is in units of the logarithm of a price, of which a
split has `SplitSize` and the limit of x1.5 has `JumpLimit`, and `SpeaksForClose` is the code's comparison of a
live close with the last stored one. `clean` is history: the newest adjusted rows are of a run that had the
lane to itself (`alone`). The crons of the two price lanes are at 21:15 and 21:35, and their symbols are
disjoint; nothing keeps two launches of one lane apart, so `Runs` may overlap.

`PriceRefresh` is the choice of symbols: the stalest first, as many as the credits pay for, with short
budgets, repeated answers, vendor errors of any symbol, and symbols that never succeed. A fetch stores what
the vendor lists, which may end `ListingLag` sessions before the last close (`Listed`).

### Documents

Creating stores the bytes, then inserts in a transaction that dates the row at its start; listing follows
a cursor of creation time and id; a ticket is redeemed by one conditional update that locks its row.
A later revision of a document changes none of this and is left out.

## 4. Runs

| run | instance | checks | states |
|---|---|---|---|
| `tick_safety` | 2 ticks, 3 runs (one forced, two of one cutoff), 2 cells, 2 releases, 3 launches, 1 deploy | `HeadChain`, `HeadIsPublished`, `ShortfallNeverServed`, `NoRecapture`, `CaptureIsBindable`, `AppendOnly`, `ImplementsRegistry` | 496,783 |
| `schedules` | 2 ticks, 3 runs, 1 cell, 3 launches; 5 symbols, 3 places, 1 broken symbol, listing lag 1, 1 bad session in a row | `EveryTickEnds`; `EverySymbolRefreshed`, `WithinLag` | 276,121 |
| `executor` | 2 items, 3 attempts, a STOP, two RETRY and a TRACE_ONLY code, 1 corroboration | `NeverRefused`, `OneStory`, `SecondOriginWhole`, `ImplementsContract`, `SecondOriginHarmless`, `EveryRunEnds` | 274,146 |
| `gateway_capacity` | 2 processes, 1 key, budget 2, 2 calls per window of 2, waits up to 3, days of 4 ticks, 3 calls, 1 fault | `BudgetOvershoot`, `WindowOvershoot` | 2,948,810 |
| `gateway_index` | 2 processes and a probe, 1 key, final and unfinished requests, 1 fault | `RepeatsBounded` | 578,659 |
| `triggers` | 2 requests, batches of 1, 2 deployments, 1 death; or 3 deployments over 2 digests and 2 configurations, 1 death, 1 clearing | `LaunchedOnce`, `LostOnlyByDeath`, `EveryRequestConsumed`; `OneCanaryPerDeployment`, `GateOpens` | 438,654 |
| `queue_moves` | 2 ticks, 1 report run, 2 waiting runs, 2 slots, limit 1, 1 restart or silence, one run without an address | `QueueMoves` | 236,263 |
| `reports` | 2 ops of 4 kinds, 2 questions, 2 configurations, 3 calls, 1 death; 2 heads, a sensor or backfill run, a fallback run, 1 fault | `AnsweredOnce`, `ReplayIsStable`, `EveryOpEnds`; `ReportsFollowHead`, `RedIsRetried` | 371,691 |
| `access` | 3 runs, 3 cutoffs in a day of 4 units, age 2, 2 parsers, 1 forced; 3 documents in pages of 1, 1 ticket, 2 redeemers; 3 callers, 2 slots, 2 calls per window of 3, 3 attempts, deadline 6 | `ReusedIsRecent`, `ReusedCellIsWhole`; `PagesComplete`, `ServedOnce`; `WaitsWithinDeadline`, `PacerHolds`, `GivesUpLate` | 2,194,971 |
| `reference` | 2 ids, 2 ticks, 2 launches, 2 backfill runs, 3 uses, 1 proof, 2 knowable times; 3 sessions kept, and 5 sessions and 2 splits with 1 run at a time, or 3 sessions and 1 split with 2 runs that overlap | `ResolvesToOne`, `CapturedIdContinues`; `ValueOnOneBasis` | 2,975,194 |

Each module has a `TypeOK`. Those of the tick, the executor, the gateway and the reuse are proved; none is
checked in a run of its own.

Why these bounds are enough for the cases of interest: two ticks are what the run queue admits
(`max_concurrent_runs: 2`); three launches allow a head, a race over it, and a retry after a crash or after
the one deploy; two cells separate a partial, a degraded and a complete capture and a partial and a full
reuse. The forced run shares a cutoff with an ordinary one, so two different runs compete for a head. In the
executor three attempts give a first, a middle and a last one; two items give one after a halt. In the
gateway the budget and the window are reached with calls still to make, the sleep can cross the end of a
day, and one fault is a crash, a lost row, an unreadable ledger or an index outage at any point. In
`triggers` the second request does not fit the first batch, and three deployments allow a rollback and a
change of configuration only; a behaviour has the one or the other (`RequestBound`), since the two sensors
share only the runs, under keys of their own, and the deaths. The queue has the deployed limits and one more
waiting run than the tag admits. Two ops and two questions are enough for a cycle of locks, two
configurations for an answer that only the oldest version of its request finds. Two heads and two
overlapping runs let a report of the first be written behind one of the second. Three runs hand a cell on
twice, so that an age renewed by each of them shows; their corpora have one scheme, since only
`ReusedCellFreezes` looks at it. Pages of one document put a cursor between two that share a millisecond.
The deadline of a model call can be met in each of its waits; the validator of the policy (`RetrySpecValid`)
is evaluated for the small policy too. In the entity store the LEI has two uses, of which the older may be
stored later, and two knowable times put a claim before or behind a merge. Five sessions let one split leave
the window of three while the other is in it; with three sessions two runs that overlap already put an older
basis back (`FailsClosed` is violated there without any market move). A split of 7 units is larger than the
limit of 4 and than the largest move of 5, so that the market alone may pass the limit, and half hide a
split. Five symbols over three places do not divide evenly, and a broken one takes a place of every session.
Symmetry is used over ticks, over runs and over ordinary processes, which no formula tells apart, and never
in a run with a liveness property.

`CHECK_DEADLOCK FALSE` is set for all but the executor (which has an explicit final step): with every
permitted launch, call or request made and the clock at its bound the system is at rest.

Fairness. `schedules`: weak fairness of each tick's own steps: a launched op keeps running, since the
database answers, vendor calls time out and `run_monitoring` ends a run that does not. No fairness is
assumed of launches, crashes or deploys. The price lane is launched after each session and its run ends,
well or badly: weak fairness of its steps. `executor`: weak fairness of the executor's steps, for the same
reason. `triggers`: weak fairness of the two sensors' loops, since the daemon is restarted when it dies, and
of the plan a created run writes, since the queue moves; none of requests, deploys, clearings or deaths.
`queue_moves`: weak fairness of the queue, of the monitor, of working runs, of the server's return and of
the grace of a head; the time-out of a wait and the maximum runtime of a live run are deliberately not fair,
so that the queue is shown to move without them. `reports`: weak fairness of an op's steps (a call's waits
end, see `WaitsWithinDeadline`, its response comes or the run is ended), of the sensor and of the daily
schedule; none of launches of ops, of deaths or of the backfill. The gateway, `access` and `reference` have
no liveness property: the clock, the vendor and the launches are free.

### Where the code and what is said about it differ

These runs check a sentence of the code or its docs, and TLC finds it violated.

| run | sentence | what happens |
|---|---|---|
| `head_freshness_order` | `a1_evidence.py`: consumers "receive the freshest data knowable at cutoff" | cutoffs are not compared: a late tick of an older cutoff supersedes a newer head |
| `proof_merges` | `20260917T0604`: "A component the evidence now proves to span two existing entities is merged" | two ids that captures have minted, and a proof that becomes knowable after them: the edge is knowable with the proof, the claim the backfill writes on the survivor is older, and the guard, which compares it with the capture's as of the later of these two claims, still before the edge, refuses it; the component is rolled back with its merge, in this run and in every later one |

Others were met while modelling. Checking the definition in the run of its module shows the behaviour.

| definition | sentence | what happens |
|---|---|---|
| `CaptureTick!RetryResumes` | `composition.py`: "the retry RESUMES" | the plan keeps the release of the first launch, and the snapshot trigger refuses a freeze under another |
| `CaptureTick!DegradedHeadReported` | `a1_evidence.py`: `is_degraded` is "True when the run heads the pointer but missed one or more objectives" | a relaunch of a degraded head returns no unmet objective |
| `SourceGateway!FetchedOnce` | `init.md` rule 28: "Each fetch key is fetched once per environment per day" | callers that miss together all fetch; `RepeatsBounded` is what does hold |
| `HeadReports!ReportMeansPurity` | "a stored report for the head means purity ran for it too" | the coverage op resolves the head again, and may report a head that came after purity ran |
| `RunTriggers!ConsumedIsLaunched` | `0034`: the sensor "launches ... and marks the row consumed with the launched run's key" | the row is committed as consumed first; a death before the run is created loses the request; `LostOnlyByDeath` is what does hold |
| `RunTriggers!EveryDeploymentProven` | `triggers.py`: "a deployed build proves itself with one canary tick on every deployment" | a deploy is replaced after its canary was created and before the cursor was stored; the rollback to it builds the same run key, which is deduplicated, and no run stamps the digest the gate waits for; `GateOpens` is what does hold |
| `HeadReports!RedNotHidden` | `standards.py`: "Only a run that does the work writes green again" | rows are dated by their run's tick, so an idle run's green row may lie on top of a red one as it is written; `RedIsRetried` still holds |
| `PriceRefresh!RoundServesTicks` | `qqq_prices.py`: "A run after the close of session D stores D. That run serves the ticks that value D and the next `MAX_BAR_LAG_SESSIONS` sessions" | a run stores what the vendor lists, and D may not be listed yet: at the end of its round the symbol is one session older than a tick accepts; `WithinLag` is what does hold |
| `ObservationReuse!ReusedCellFreezes`, with two `Schemes` | `composition.py`: "An anchor now qualifies only when its payload trio equals THIS run's plan coordinates" | the listing alone is compared: a CIK-keyed run takes the financial fact of a LEI-keyed one, and its freeze refuses the cell because the identities disagree |
| `SplitBasis!FailsClosed` | `share_basis.py`: "it fails closed. An issuer whose splits are unknown between the basis date and the close's session gets no market value" | a 3-for-2 split (`SplitSize` = `JumpLimit`) on a session the vendor has not listed, and a rise on that day: the close is within x1.5 of the last stored one, and the count is valued without the split. Or two runs overlap, and the one that fetched before the restatement stores last: the newest adjusted rows are on the older basis; `ValueOnOneBasis` is what does hold |
| `ModelInvocations!EveryAskRecorded` | `llm.py`: "every ask is recorded, answers and vendor errors alike" | a transaction that rolls back takes the row of a call that was made with it |

Without a definition of their own: the comment at `lanes/capture.py` 341-343 says that a run which misses
an objective does not become the head; `register_run_evidence` always advances and records the miss.
The environment contract says that a model call "lasts at most deadline_seconds plus the timeout of one
attempt" and, two sentences later, that this timeout does not limit the whole response;
`WaitsWithinDeadline` is what does hold. `EverySymbolRefreshed` needs fewer broken symbols than
places. A second origin taken over may be of an earlier session than the first. The guard of a document's
revision is called race-proof and is not at READ COMMITTED. A tick that loses the race for an unseen id
waits for the whole capture of the other and is then refused, and the backfill's map of survivors does
not know an entity a tick has minted since. Its sensor follows `recorded_at`, which a late commit is
behind, and asks for new evidence since a cursor that a failed run has already moved.

The gateway's overshoot is not among them: its docstring states that it is bounded by the concurrent
ticks, and that is what `BudgetOvershoot` and `WindowOvershoot` check.

## 5. Proofs

TLAPS proves what follows for every value of the constants that satisfies the named assumptions of the
modules (`RunsAssumption`, `ReleaseAssumption`, `BoundsAssumption`; `AttemptsAssumption`,
`PlanAssumption`; `CapacityAssumption`, `ProcsAssumption`; `BatchAssumption`; `ReuseAssumption`;
`QuestionsAssumption`, `KindsAssumption`; `DocumentsAssumption`, `PolicyAssumption`; `UsesAssumption`,
`ActorsAssumption`; `PricesAssumption`; `RefreshAssumption`). They say that bounds are natural numbers, that limits are
positive, that the processes, documents and symbols are finitely many, that names compare as numbers, and
that markers such as `NoRun` are no member of the set they are outside of. Two assumptions say more:

- `RetrySpecAssumption`: the retry policy passes the validator of the contract (`ModelRetrySpec`);
- `RoomAssumption`, used by `GivesUpNoEarlier` alone: `min_total_wait_seconds` and the longest single wait
  (a back-off with its random extra, or the rate window) fit into the deadline together. The deployed
  contract has it (90 s and 60 s of 300 s). The validator asks only for `min_total_wait_seconds <=
  deadline_seconds`; a policy at that limit may give up early, because a wait that would pass the deadline
  is not begun.

Almost none of the properties is inductive. Each proof names the strengthening, and the strengthening was
model-checked in the instance of its run before it was proved.

**The tick** (`CaptureTickProofs`).

- `TypeCorrect`: `Spec => []TypeOK`, from `TypeInv`, which adds that a launched tick has a run and a
  release, that it has a grade once it has frozen, and that the head it read is still on file.
- `PointerIsOneChain`: `HeadChain`, for any number of ticks, runs and crashes. A commit adds the pending
  row of a tick, and nothing in `HeadChain` says that this row continues the chain. `ChainInv` adds
  `DownClosed` (the sequences on file are an initial segment of the naturals) and `PendingLinks`: a tick
  that has read a head read another run's, and a pending row has a free sequence, names the target of
  the row below it, and is the only pending row of that sequence. At `InsertPointer` no other tick has
  the sequence pending (it would wait), no committed row has it (it would fail), and the row below is
  still on file because rows are never removed.
- `TicksImplementRegistry`: a commit with a pending row is one `Advance` of `GovernedPointer`, every other
  step leaves the rows alone.
- `HeadsArePublished`, `DegradedNeverServed`, `CapturedOnce`, `CapturesAreBindable` and the action property
  `TablesAppendOnly`, from `PublishInv`. What the committed tables say of a run is true only because of
  what the open transactions may still add: the invariant relates a tick's place, its rows not yet
  committed and the tables of its run. It says who may be capturing a run (one tick, while nothing of
  it is on file), what a tick that resumes has found there, that a new snapshot and a pending advance are
  of a run whose capture is committed and complete, and that a run with a shortfall on file stays short.

**The executor** (`CaptureExecutorProofs`).

- `ExecutorTypeCorrect` and `ExecutorNeverRefused`: whatever the adapters answer and for every
  `MaxAttempts` in 1..20, the sink, the ledger and the triggers accept what the executor hands over.
  `ExecutorInv` adds that only retryable reasons precede the last one, that what is handed over has a
  terminal state in agreement with its last reason, and that the ledger is the prefix of the rows to
  replay. The bound of 20 attempts is used: it keeps the last start before the terminal stamp.
- `FileTellsOneStory`, `StopAlwaysHalts` and `SecondOriginsWhole`, from `StoryInv`: the properties speak of
  obligations on file, and the invariant says the same of the one in hand at each place of `_run_item`
  and of the sink, down to what the executor has heard and whom it has asked. `StopHalts` is proved and not
  checked in a run.
- `ExecutorImplementsContract`: `CaptureContract`'s result of an obligation is the one put on file; a step
  that puts one is a `Resolve` of the contract, an exception its `Abort`, everything else a stutter.

**The gateway** (`SourceGatewayProofs`).

- `GatewayTypes`, `BudgetNeverOvershot` and `WindowNeverOvershot`. A gate decides on what the ledger shows
  when it looks, and a row appears when its call has ended. So rows and calls in flight alone are not
  enough: `BudgetInv` counts, per day, the rows and the processes that have passed the budget check or
  are in flight (`Charged`); `WindowInv` counts the rows and the processes the queue has admitted
  (`Holding`) for the window of now, and rows and calls in flight for every past one. A check is
  passed only while the rows are below the limit, so that even all processes together exceed it by less
  than their number (`RoomForEach`); each later step moves a process on or turns it into a row
  (`MovedCount`), and time only takes from the window of now. A new day begins with an empty ledger and
  the waiting processes charged to it. The second budget check, after a sleep, is not used: the bound
  holds without it.
- `RepeatsStayBounded`, from `RepeatsInv`: until a key has landed, each of its ordinary rows is of a process
  about to land it (`Landing`) or of one that met a fault; from then on, rows and the processes that
  missed the key (`Fetching`) stay within the number of processes and faults, because a lookup hits.

Each step of a process is first reduced to one of seven effects on clock, ledger and gate
(`StepEffect`); the two counts are shown for the effects.

**Triggers** (`RunTriggersProofs`): `RequestsLaunchOnce`, `DeploymentsHaveOneCanary` and the action property
`RequestsLostOnlyByDeath`, from `TriggerInv`. The first two bound the runs that exist, and a run is created
from an ask some evaluation has left behind, possibly twice. The invariant says that a key has one run; that
whoever has a run, or is asked for by an evaluation that has returned, is consumed; that what a returned
evaluation asks for follows from the cursor it is to store; and that the canaries of a deployment that
exist, that are asked for and that the next evaluation would ask for are together at most one more than the
clearings of the cursor. For the third it says that an evaluation asks for exactly the rows it consumes and
that the daemon begins with the first of them.

**Reuse** (`AccessProofs`): `ReuseStaysRecent` and `ReuseIsUsable` (and `ReuseTypes`), for runs of
any cutoffs that hand a cell on in any chain. A run looks only at the run it takes a cell from. `ReuseInv`
ties it to the first of the chain: the observations a run holds are of one run, at most one per source;
those it has taken over are of a committed run whose cutoff lies in the window before its own, and are
of every required source, with an anchor the freeze can read and of an issuer that was classified. Nothing is
claimed of the identities in that anchor: the freeze may refuse them (`ReusedCellFreezes`).

**Model calls** (`ModelInvocationsProofs`, `AccessProofs`).

- `QuestionAnsweredOnce` and `FirstAnswerStays`: `AnsweredOnce` and `ReplayIsStable` for any ops, questions,
  configurations and deaths. They speak of committed rows, and what makes them true is who may hold an
  open one. `OnceInv` says that a lock has one holder, that an open row's question is locked by its op,
  that an op about to ask has nothing to replay, and that ids are unique; `StableInv` adds that an open
  row has a later id than every committed answer of its question. Every action is first reduced to one
  of four effects on locks and rows (an op ends, keeps, inserts or commits).
- `CallWaitsInTime`: `WaitsWithinDeadline` for every policy, any callers, slots and rate. The invariant says of
  each place that the clock has not passed the deadline while a caller waits, that a sleep ends by the
  deadline and that an attempt was sent before it. How long its response takes is not bounded.
- `GivesUpNoEarlier`: the action property `GivesUpLate`, from the same invariant: a call in its n-th attempt
  has waited at least the first n - 1 back-offs (`BaseTotal`), so one that has used all its attempts has
  waited the sum the validator compares with `min_total_wait_seconds`; one that stops because the next wait
  would pass the deadline is late by `RoomAssumption`. `TotalIs` shows that the recursion of `BaseTotal` has
  a solution.
- `PacerKeepsItsWord`: `PacerHolds` for any callers, slots, rate and window. `PacerInv` says that
  a slot is counted from its acquire on, that whoever is in the gate's queue holds the admission lock, and
  that room found in the deque is still there when the start is appended. The lemma `Popleft` says what the
  expiry of the deque's head leaves: the first start left is within the window, so a full deque asks for a
  positive wait.

**Documents** (`AccessProofs`): `TicketServedOnce`, `ServedOnce` for any tickets and redeemers. The
invariant says that a ticket has one pending redeemer, that an open update is of a ticket not yet redeemed,
and that whoever reads has redeemed a ticket whose bytes nobody has. `PagesSkipNothing`, `PagesComplete` for
any documents and any limit. The order by creation and id is strict and total (`DocumentOrder`), a row further down
has more rows ahead of it (`AheadGrows`), so a page that is not full is all that is left, and what is left
below a full one lies below its last row (`PageMeaning`). `ListInv` carries that from page to page: what is
listed lies at the cursor or above it, what is owed and not listed lies below it or is deleted, and a
committed document keeps its creation time.

**Entities** (`ReferenceProofs`): `IdResolvesToOne` and `CaptureKeepsItsId`, for any ticks, knowable times,
uses and runs. `ResolvesToOne` speaks of committed rows; what makes it true is that the rows of every
open transaction, put to the committed ones, pass the guards too. `IdentityInv` says:

- `Sound`, of the store alone, of the store with the rows of each transaction, and of the store with the
  rows the backfill would go back to: the merges are a forest (`Forest`: one edge leaves an entity, and a
  rank of the entities sinks along every edge), and two claims of one id are of entities that were merged
  when the later of the two became knowable. `ChainEnds` says that a walk as long as there are entities
  reaches an end, `StayMerged` that what is merged as known at a time stays merged later and with more rows.
- `AliasLocks`: no two open transactions have claims of one id, which is what the advisory lock of the guard
  is for. `Together` rests on it: the rows of two transactions that each passed the guard without seeing the
  other are sound together, because only the backfill merges.
- `Named`: an entity has the id it was born from, or is merged with one that has it; a tick that has minted
  and not yet named, and a component of the backfill whose claims are still to come, are the exceptions.
  `Knows`: the backfill's map from old to surviving entities follows the merges. Together they keep a
  capture's entity under its id (`CapturedOK`).

**Prices** (`ReferenceProofs`, `SchedulesProofs`).

- `CountsOnOneBasis`: `ValueOnOneBasis` for any sessions, splits, window, lag, moves and overlapping runs.
  `PriceInv` says of what is stored that from the floor of the last session on no bar is missing below another
  one (`NoGap`), that unadjusted bars are what their session closed at (`AsClosed`) and, if `clean`, that
  adjusted bars are on one basis (`OneLevel`); the same of the answers a run holds; and that those of a run
  which is alone replace every adjusted bar from its own floor on (`Replaces`), so that its insert leaves one
  basis. So within the window each step of the ratio is the split of its session (`EventIsSplit`), a close the
  series speak for has seen no later split that the move could hide, and the product over the events is the
  number of splits (`SinceCounts`). Without `clean`, or with larger moves, it is false
  (`FailsClosed`).
- `PricesStayRecent`: `WithinLag` for any symbols, cadence, cost and listing lag. `LagInv` counts: after k
  good sessions in a row, for each j up to k, the symbols older than j sessions and the listing lag are
  none, or fewer than all by j times the places of a run. A run takes its places from them or takes them all
  (`FirstAreOldest`), and a session makes each symbol older by one. The places of a round are enough because
  `need_credits` rounds up (`RoundUp`).

The lemmas `PartsBehave`, `ReferencePartsBehave` and `SchedulePartsBehave` tie the composed runs to their parts:
a behaviour of such a run is one of each part.

Induction. The library's induction rules cannot be applied by the installed provers. Where a walk, a sum or
an order is followed to its end, the proofs take the least counterexample instead (`Least`, from the
well-foundedness of `<` on the naturals; `UpTo` for the steps of a bounded recursion, applied to the set of
the numbers for which a fact holds), and show first that the recursive function exists (`ChainSteps`,
`TotalIs`, `SinceIs`).

Only model-checked: the liveness properties `EveryTickEnds`, `EverySymbolRefreshed`, `SecondOriginHarmless`,
`EveryRunEnds`, `EveryRequestConsumed`, `GateOpens`, `QueueMoves`, `EveryOpEnds`, `ReportsFollowHead`
and `RedIsRetried`: the prover handles neither fairness nor ENABLED.

## 6. Not modelled

Adapters and their parsers (their answers are the environment); the arithmetic of factors, strategies,
confidence and the backtest (sequential, over a frozen snapshot); the publish half's judging and replay
beyond that it may raise; other governed keys (they share no row); the provenance graph of single
observations; the served-head views; universe publication (an input of the plan), instruments, listings
and the backfill's sensor; the rows of the analyst-rating and supply-chain lanes and what a report says;
the derivation of a job's maximum runtime; the macro, history and backtest lanes (one idempotent
transaction each); what the waiting jobs judge; the LLM service (a reader) and the web app apart from
documents and the trigger request; migrations and repository tools. `PROJECT.json` lists each with its
reason.

Most lines of the repository are outside what such models can say: field validators of the contracts,
parsers of vendor payloads, decimal arithmetic, report texts and queries without a step of their own. The
models cover the code that changes shared state, and the map names only the lines they translate.
