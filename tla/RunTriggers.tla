----------------------------- MODULE RunTriggers -----------------------------
(***************************************************************************)
(* The sensors that launch runs on request (lanes/triggers.py): the manual  *)
(* trigger over staging.pipeline_trigger_requests (0034) and the boot       *)
(* canary with its cursor.  A sensor is evaluated by the code server; the   *)
(* daemon then creates the runs it asked for, unless a run of that key      *)
(* exists, and stores the cursor last.  The daemon is external: what is     *)
(* said of it here is what the sensors rely on.                             *)
(*                                                                          *)
(* A request is its request_id; its dedupe_key is as unique.  A deployment  *)
(* is a digest and a configuration; `number` counts the deployments.        *)
(***************************************************************************)
EXTENDS Integers, Sequences, SequencesExt, FiniteSets

CONSTANTS MaxRequests,  \* bound: requests in one behaviour
          Batch,        \* `limit 5`
          Digests, Configurations,
          FirstDigest, FirstConfiguration,   \* what is deployed at the start
          Forces,       \* boot_canary_forces_fetch: staging asks for a TOPT run too
          MaxDeploys,   \* bound: deployments
          MaxClears,    \* bound: an operator clears the cursor
          MaxFaults     \* bound: deaths of the code server or the daemon

ASSUME BatchAssumption == Batch \in Nat \ {0} /\ Forces \in BOOLEAN /\ MaxRequests \in Nat
ASSUME DeploymentAssumption == FirstDigest \in Digests /\ FirstConfiguration \in Configurations

VARIABLES
    request,   \* staging.pipeline_trigger_requests: status per request_id
    runs,      \* the runs Dagster has created: key, evaluation, and which run of its key
    manual,    \* the manual sensor's evaluation
    boot,      \* the boot sensor's evaluation
    cursor,    \* the boot sensor's stored cursor
    deployed,  \* the deployment of the code server
    open,      \* runs whose plan is not on file yet
    identity,  \* mart.data_engine_identity: the digest of its newest row
    calm,      \* no deploy, death or operator came between a deployment and its canary
    clears, faults

vars == <<request, runs, manual, boot, cursor, deployed, open, identity, calm, clears, faults>>
plans == <<open, identity, calm>>

Ids == 1..MaxRequests
NoDeployment == [digest |-> "none", configuration |-> "none", number |-> 0]
Idle == [at |-> "idle", asks |-> <<>>, next |-> 1]
NoCursor == [deployment |-> NoDeployment, ordinal |-> 0]

Init ==
    /\ request = [i \in Ids |-> "absent"]
    /\ runs = {}
    /\ manual = Idle
    /\ boot = Idle
    /\ cursor = NoCursor
    /\ deployed = [digest |-> FirstDigest, configuration |-> FirstConfiguration, number |-> 1]
    /\ open = {} /\ identity = NoDeployment.digest /\ calm = TRUE
    /\ clears = 0 /\ faults = 0

\* requestPipelineTrigger: the app inserts a row; ids grow.
RequestTrigger ==
    /\ \E i \in Ids : /\ request[i] = "absent"
                      /\ \A j \in 1..(i - 1) : request[j] # "absent"
                      /\ request' = [request EXCEPT ![i] = "pending"]
    /\ UNCHANGED <<runs, manual, boot, cursor, deployed, plans, clears, faults>>

\* A run request: its run key, and the evaluation that made it.
Ask(kind, id, ordinal) == [key |-> <<kind, id, ordinal>>, number |-> deployed.number]
-----------------------------------------------------------------------------
(* pipeline_trigger_sensor.                                                *)

PendingIds == {i \in Ids : request[i] = "pending"}

\* Variant: an off-by-one offset leaves the oldest request out.
Selected_Offset == {i \in PendingIds : Cardinality({j \in PendingIds : j < i}) \in 1..Batch}

\* The oldest Batch unconsumed requests.
Selected == {i \in PendingIds : Cardinality({j \in PendingIds : j < i}) < Batch}

\* The select, and a run request for each row in order.  The updates are not
\* visible before the commit.
PollRequests ==
    /\ manual.at = "idle" /\ Selected # {}
    /\ manual' = [at |-> "evaluating", next |-> 1,
                  asks |-> [k \in 1..Cardinality(Selected) |->
                      Ask("manual", SetToSortSeq(Selected, <)[k], 0)]]
    /\ UNCHANGED <<request, runs, boot, cursor, deployed, plans, clears, faults>>

\* Variant: the update is not restricted to the selected rows.
CommitConsumed_All ==
    /\ manual.at = "evaluating"
    /\ request' = [i \in Ids |-> IF request[i] = "pending" THEN "consumed" ELSE request[i]]
    /\ manual' = [manual EXCEPT !.at = "returned"]
    /\ UNCHANGED <<runs, boot, cursor, deployed, plans, clears, faults>>

\* The generator ends: the consumed rows are committed, and only then does the
\* daemon see the run requests.
CommitConsumed ==
    /\ manual.at = "evaluating"
    /\ request' = [i \in Ids |-> IF \E k \in 1..Len(manual.asks) : manual.asks[k].key[2] = i
                                 THEN "consumed" ELSE request[i]]
    /\ manual' = [manual EXCEPT !.at = "returned"]
    /\ UNCHANGED <<runs, boot, cursor, deployed, plans, clears, faults>>
-----------------------------------------------------------------------------
(* boot_canary_sensor.                                                     *)

\* Variant: the key is stamped with the container, not with the ordinal.
BootAsks_PerStart ==
    IF Forces THEN <<Ask("canary", deployed.digest, faults), Ask("topt", deployed.digest, faults)>>
    ELSE <<Ask("canary", deployed.digest, faults)>>

\* Variant: boot:<digest>, the key before #885.
BootAsks_NoOrdinal ==
    IF Forces THEN <<Ask("canary", deployed.digest, 0), Ask("topt", deployed.digest, 0)>>
    ELSE <<Ask("canary", deployed.digest, 0)>>

\* boot:<digest>:deploy-<ordinal>, and its companion where a fetch is forced.
BootAsks ==
    LET ordinal == cursor.ordinal + 1 IN
    IF Forces THEN <<Ask("canary", deployed.digest, ordinal), Ask("topt", deployed.digest, ordinal)>>
    ELSE <<Ask("canary", deployed.digest, ordinal)>>

\* boot_deployment: the number is not part of it.
SameDeployment(a, b) == a.digest = b.digest /\ a.configuration = b.configuration

\* The first evaluation that finds another deployment than the cursor's.
PollDeployment ==
    /\ boot.at = "idle"
    /\ ~SameDeployment(cursor.deployment, deployed)
    /\ boot' = [at |-> "returned", asks |-> BootAsks, next |-> 1,
                stores |-> [deployment |-> deployed, ordinal |-> cursor.ordinal + 1]]
    /\ UNCHANGED <<request, runs, manual, cursor, deployed, plans, clears, faults>>
-----------------------------------------------------------------------------
(* The daemon (external).                                                  *)

RunOf(ask, copy) == [key |-> ask.key, number |-> ask.number, copy |-> copy]

\* Variant: a key that exists does not stop a run.
Created_NoDedupe(ask) == runs \cup {RunOf(ask, 1 + Cardinality({r \in runs : r.key = ask.key}))}

\* A run is created unless one of its key exists.
Created(ask) == IF \E r \in runs : r.key = ask.key THEN runs ELSE runs \cup {RunOf(ask, 1)}

\* A created run is open, that is queued or at its start, until its plan is written.
Opened == open' = open \cup (runs' \ runs) /\ UNCHANGED <<identity, calm>>

LaunchManual ==
    /\ manual.at = "returned"
    /\ IF manual.next <= Len(manual.asks)
       THEN /\ runs' = Created(manual.asks[manual.next])
            /\ manual' = [manual EXCEPT !.next = @ + 1]
       ELSE manual' = Idle /\ UNCHANGED runs
    /\ Opened
    /\ UNCHANGED <<request, boot, cursor, deployed, clears, faults>>

\* The cursor is stored when every run of the evaluation exists.
LaunchBoot ==
    /\ boot.at = "returned"
    /\ IF boot.next <= Len(boot.asks)
       THEN /\ runs' = Created(boot.asks[boot.next])
            /\ boot' = [boot EXCEPT !.next = @ + 1]
            /\ UNCHANGED cursor
       ELSE boot' = Idle /\ cursor' = boot.stores /\ UNCHANGED runs
    /\ Opened
    /\ UNCHANGED <<request, manual, deployed, clears, faults>>

\* A run writes its plan, stamped with the build it runs in: /health reports the
\* newest, and the release gate waits for the digest it promoted.
Stamp ==
    /\ \E r \in open : open' = open \ {r}
    /\ identity' = deployed.digest
    /\ UNCHANGED <<request, runs, manual, boot, cursor, deployed, calm, clears, faults>>

\* What a restart leaves of an evaluation: nothing, or, when the daemon had
\* recorded its run requests, all of them to go through again.
Survives(e) == IF e.at = "returned" THEN {Idle, [e EXCEPT !.next = 1]} ELSE {Idle}

\* The runs in the code server end with it, the queued ones stay.
RunsEnd == open' \in SUBSET open

CanaryEnds == \E r \in open \ open' : r.key[1] = "canary" /\ r.number = deployed.number

\* The cursor names the deployment, and the newest run plan its digest: what the
\* release gate waits for.
Proven == SameDeployment(cursor.deployment, deployed) /\ identity = deployed.digest

\* The daemon or the code server dies; an open transaction rolls back.
Dies ==
    /\ faults < MaxFaults
    /\ faults' = faults + 1
    /\ manual' \in Survives(manual)
    /\ boot' \in Survives(boot)
    /\ RunsEnd /\ calm' = (calm /\ ~CanaryEnds)
    /\ UNCHANGED <<request, runs, cursor, deployed, identity, clears>>

\* A deploy restarts both: another digest or another configuration, or, a
\* rollback, one that was deployed before.
Deploy ==
    /\ deployed.number <= MaxDeploys
    /\ \E d \in Digests, c \in Configurations :
           deployed' = [digest |-> d, configuration |-> c, number |-> deployed.number + 1]
    /\ ~SameDeployment(deployed', deployed)
    /\ manual' \in Survives(manual)
    /\ boot' \in Survives(boot)
    /\ RunsEnd /\ calm' = (calm /\ Proven)
    /\ UNCHANGED <<request, runs, cursor, identity, clears, faults>>

\* An operator clears the cursor in the Dagster UI.
ClearCursor ==
    /\ clears < MaxClears
    /\ clears' = clears + 1
    /\ cursor' = NoCursor
    /\ calm' = FALSE
    /\ UNCHANGED <<request, runs, manual, boot, deployed, open, identity, faults>>

Poll == PollRequests \/ CommitConsumed \/ LaunchManual
Canary == PollDeployment \/ LaunchBoot

Next == RequestTrigger \/ Poll \/ Canary \/ Stamp \/ Dies \/ Deploy \/ ClearCursor

Spec == Init /\ [][Next]_vars

\* Both sensors run in the daemon's loop, which is restarted when it dies, and a
\* queued run gets its turn (RunQueue).
Fairness == WF_vars(Poll) /\ WF_vars(Canary) /\ WF_vars(Stamp)

FairSpec == Spec /\ Fairness
-----------------------------------------------------------------------------
TypeOK ==
    /\ request \in [Ids -> {"absent", "pending", "consumed"}]
    /\ \A r \in runs : r.key[1] \in {"manual", "canary", "topt"}
    /\ manual.at \in {"idle", "evaluating", "returned"}
    /\ boot.at \in {"idle", "returned"}
    /\ manual.next \in 1..(Batch + 1) /\ boot.next \in 1..3
    /\ Len(manual.asks) <= Batch
    /\ cursor.ordinal \in 0..(MaxDeploys + MaxClears + 1)
    /\ deployed.number \in 1..(MaxDeploys + 1)
    /\ open \subseteq runs /\ calm \in BOOLEAN
    /\ clears \in 0..MaxClears /\ faults \in 0..MaxFaults

\* A request has one run at most, whatever is delivered again, and only a
\* consumed request has one: the row always tells that its run exists.
LaunchedOnce ==
    \A i \in Ids :
        LET n == Cardinality({r \in runs : r.key = <<"manual", i, 0>>}) IN
        n <= 1 /\ (n = 1 => request[i] = "consumed")

\* The daemon is still to go through its request.
Asked(i) ==
    manual.at = "returned" /\ \E k \in manual.next..Len(manual.asks) : manual.asks[k].key = <<"manual", i, 0>>

Lost == {i \in Ids : /\ request[i] = "consumed" /\ ~Asked(i)
                     /\ \A r \in runs : r.key # <<"manual", i, 0>>}

\* consumed_at is committed before the run exists (see ConsumedIsLaunched).  What
\* that may cost is a request whose evaluation a death or a deploy cuts off:
\* in no other step is a consumed request left without a run, or without a daemon
\* that is about to create it.
LostOnlyByDeath == [][Lost' \subseteq Lost \/ faults' # faults \/ deployed' # deployed]_vars

\* A deployment has one canary at most, however often its containers restart;
\* each clearing of the cursor may add one.
OneCanaryPerDeployment ==
    \A n \in 1..(MaxDeploys + 1), kind \in {"canary", "topt"} :
        Cardinality({r \in runs : r.number = n /\ r.key[1] = kind}) <= 1 + clears

\* Every request is consumed: the batch limit and the deaths of an evaluation
\* only delay it.
EveryRequestConsumed == \A i \in Ids : request[i] = "pending" ~> request[i] = "consumed"

\* When no one deploys any more the cursor names the deployment, and the release
\* gate opens: after a rollback to an earlier digest too, and after deaths of the
\* daemon between the runs and the cursor.  It is excused only where a deployment
\* was replaced before it was proven, a death took its canary, or an operator
\* cleared the cursor.
GateOpens == <>[](SameDeployment(cursor.deployment, deployed) /\ (Proven \/ ~calm))
-----------------------------------------------------------------------------
(* What the comments say, and the code does not do.                        *)

\* "a deployed build proves itself with one canary tick on every deployment":
\* the last one is proven in the end, unless an operator cleared the cursor.
EveryDeploymentProven == <>[](Proven \/ clears > 0)

\* 0034: the sensor "launches ... and marks the row consumed with the launched
\* run's key".
ConsumedIsLaunched ==
    \A i \in Ids : request[i] = "consumed" ~>
        \E r \in runs : r.key = <<"manual", i, 0>>
=============================================================================
