--------------------------- MODULE CaptureExecutor ---------------------------
(***************************************************************************)
(* ToptCaptureExecutor over the planned work items (executor.py), the      *)
(* router (capture_orchestration.py), the capture-control sink              *)
(* (persistence.py), the attempt ledger (control_plane.py) and the triggers *)
(* of raw.capture_attempts (0023_capture_control.sql).  Three layers check  *)
(* what the executor produces: the sink's guards, the in-memory ledger and  *)
(* the database; a refusal by any of them fails the whole tick.             *)
(*                                                                          *)
(* The environment is the source adapters and the object store: any answer  *)
(* the port's types allow may come at any call.  Stamps are seconds after   *)
(* CaptureTimeline.first_attempt_at.  One row of `file` is an obligation's  *)
(* result joined with the rows that belong to it.                           *)
(***************************************************************************)
EXTENDS Integers, Sequences

CONSTANTS ItemCount,          \* work items of the run
          MaxAttempts,        \* _MAX_ATTEMPTS, of the executor and of the policy
          Offered,            \* reason codes the adapters may answer with
          MaxCorroborations   \* second origins one success may carry

\* ObligationReasonCode, by its disposition (_CANONICAL).
Stop == {"auth_failed", "contract_violation", "release_scope_mismatch",
         "look_ahead_violation", "checksum_mismatch"}
Retry == {"transient_network", "timeout", "rate_limited", "server_error"}
TraceOnly == {"not_yet_knowable", "field_unavailable", "low_confidence",
              "deferred_capacity"}
Reasons == Stop \cup Retry \cup TraceOnly

\* RetryPolicy.max_attempts is declared ge=1, le=20.
ASSUME AttemptsAssumption == MaxAttempts \in 1..20
ASSUME PlanAssumption == /\ ItemCount \in Nat \ {0}
                         /\ Offered \subseteq Reasons
                         /\ MaxCorroborations \in Nat

\* _ATTEMPT_OUTCOMES and replay_retry_policy.
AttemptOutcome(r) == CASE r = "transient_network" -> "transport_error"
                       [] r = "timeout" -> "interrupted"
                       [] r \in {"rate_limited", "server_error"} -> r
                       [] r \in TraceOnly -> "unavailable"
                       [] r \in Stop -> "failed"
                       [] r = "none" -> "success"
Retryable == {"interrupted", "rate_limited", "server_error", "transport_error"}
TerminalOutcomes == {"failed", "success", "unavailable", "unchanged"}

\* CaptureTimeline and _RETRY_SPACING.
Spacing == 2
TerminalAttemptAt == 60
CompletedAt == 180

VARIABLES
    file,       \* the obligations on file, in plan order
    pc,
    reasons,    \* _run_item's attempt reasons of the current item
    shortfall,  \* failover_reason of a primary success that served short
    outcome,    \* the terminal state handed to _terminal
    served,     \* success.served_by_failover: another origin, or none
    ledger,     \* AttemptLedger and the capture_attempts rows of the item
    content,    \* evidence nodes, vintage and observation of the primary
    corr,       \* rows each corroboration has written (a whole one has three)
    expected,   \* corroborations the success carries
    heard,      \* history: what the primary answered, call by call
    asked       \* history: failover calls of the item

item == <<reasons, shortfall, outcome, served, ledger, content, corr, expected,
          heard, asked>>
vars == <<file, pc, item>>

Ended == {"done", "halted", "raised", "refused"}
Answers == [answer : {"served", "short", "failed"}, reason : Reasons \cup {"none"}]
Attempts == [number : 1..MaxAttempts, started : Nat, completed : Nat,
             outcome : Retryable \cup TerminalOutcomes,
             reason : Reasons \cup {"none"}, vintage : {"created", "none"}]
Origins == {"none", "failover"}
Contents == SUBSET {"evidence", "vintage", "observation"}
Obligations == [state : {"success", "unavailable", "failed"},
                codes : SUBSET (Reasons \cup {"served_by_failover", "success", "unavailable", "failed"}),
                served : Origins, ledger : Seq(Attempts), content : Contents,
                corr : Seq(0..3), heard : Seq(Answers), asked : Nat,
                completed : Nat]

Goto(l) == pc' = l

FreshItem ==
    /\ reasons' = <<>> /\ shortfall' = "none"
    /\ outcome' = "none" /\ served' = "none"
    /\ ledger' = <<>> /\ content' = {}
    /\ corr' = <<>> /\ expected' = 0
    /\ heard' = <<>> /\ asked' = 0

Init ==
    /\ file = <<>> /\ pc = "fetch"
    /\ reasons = <<>> /\ shortfall = "none"
    /\ outcome = "none" /\ served = "none"
    /\ ledger = <<>> /\ content = {}
    /\ corr = <<>> /\ expected = 0
    /\ heard = <<>> /\ asked = 0

\* An exception leaves the tick: its transaction is rolled back.
Abort(l) == FreshItem /\ file' = <<>> /\ Goto(l)
-----------------------------------------------------------------------------
(* _run_item: the primary, its retries and the failover.                   *)

Hear(a, r) == heard' = Append(heard, [answer |-> a, reason |-> r])

\* The value goes to _write_success and to the sink.
Succeed(origin) ==
    /\ outcome' = "success" /\ served' = origin
    /\ expected' \in 0..MaxCorroborations
    /\ Goto("record")

FetchServed ==
    /\ pc = "fetch"
    /\ Hear("served", "none")
    /\ reasons' = Append(reasons, "none")
    /\ Succeed("none")
    /\ UNCHANGED <<file, shortfall, ledger, content, corr, asked>>

\* The primary served short of what the cell asks for.
FetchShort(r) ==
    /\ pc = "fetch"
    /\ r \notin Stop
    /\ Hear("short", r)
    /\ shortfall' = r
    /\ Goto("shortfall")
    /\ UNCHANGED <<file, reasons, outcome, served, ledger, content, corr, expected, asked>>

\* Variant: the primary's shortfall is not kept as the attempt's reason.
FailoverShort_ForgetsReason ==
    /\ pc = "shortfall"
    /\ asked' = asked + 1
    /\ \E origin \in Origins :
           /\ reasons' = Append(reasons, "none")
           /\ Succeed(origin)
    /\ UNCHANGED <<file, shortfall, ledger, content, corr, heard>>

FailoverShort ==
    /\ pc = "shortfall"
    /\ asked' = asked + 1
    /\ \E origin \in Origins :
           /\ reasons' = Append(reasons, IF origin = "failover" THEN shortfall ELSE "none")
           /\ Succeed(origin)
    /\ UNCHANGED <<file, shortfall, ledger, content, corr, heard>>

\* Variant: spent attempts start over.
FetchFailed_StartsOver(r) ==
    /\ pc = "fetch"
    /\ reasons' = IF r \in Retry /\ Len(reasons) + 1 = MaxAttempts THEN <<>> ELSE Append(reasons, r)
    /\ outcome' = IF r \in Stop THEN "failed" ELSE "none"
    /\ Goto(CASE r \in Stop -> "record"
              [] r \in Retry -> "fetch"
              [] OTHER -> "failover")
    /\ UNCHANGED <<file, shortfall, served, ledger, content, corr, expected, heard, asked>>

\* Variant: one attempt more than the policy permits.
FetchFailed_OneMore(r) ==
    /\ pc = "fetch"
    /\ Hear("failed", r)
    /\ reasons' = Append(reasons, r)
    /\ outcome' = IF r \in Stop THEN "failed" ELSE "none"
    /\ Goto(CASE r \in Stop -> "record"
              [] r \in Retry /\ Len(reasons) < MaxAttempts -> "fetch"
              [] OTHER -> "failover")
    /\ UNCHANGED <<file, shortfall, served, ledger, content, corr, expected, asked>>

\* A classified failure: STOP ends the run, TRACE_ONLY ends the attempts,
\* RETRY loops until the attempts are spent.
FetchFailed(r) ==
    /\ pc = "fetch"
    /\ Hear("failed", r)
    /\ reasons' = Append(reasons, r)
    /\ outcome' = IF r \in Stop THEN "failed" ELSE "none"
    /\ Goto(CASE r \in Stop -> "record"
              [] r \in Retry /\ Len(reasons) + 1 < MaxAttempts -> "fetch"
              [] OTHER -> "failover")
    /\ UNCHANGED <<file, shortfall, served, ledger, content, corr, expected, asked>>

\* Variant: the serving origin's success replaces the primary's history.
Failover_ErasesPrimary ==
    /\ pc = "failover"
    /\ asked' = asked + 1
    /\ \/ /\ Succeed("failover")
          /\ reasons' = <<reasons[Len(reasons)]>>
       \/ /\ outcome' = "unavailable"
          /\ Goto("record")
          /\ UNCHANGED <<reasons, served, expected>>
    /\ UNCHANGED <<file, shortfall, ledger, content, corr, heard>>

\* The primary could not serve: the next origin is asked, once.  An adapter
\* that declares none answers None.
Failover ==
    /\ pc = "failover"
    /\ asked' = asked + 1
    /\ \/ Succeed("failover")
       \/ /\ outcome' = "unavailable"
          /\ Goto("record")
          /\ UNCHANGED <<served, expected>>
    /\ UNCHANGED <<file, reasons, shortfall, ledger, content, corr, heard>>

\* An adapter raises, or breaks the port's contract on served_by_failover.
AdapterRaises == pc \in {"fetch", "shortfall", "failover"} /\ Abort("raised")
-----------------------------------------------------------------------------
(* record_outcome.                                                         *)

\* The guards of record_outcome that depend on what the executor did.
SinkAccepts ==
    /\ Len(reasons) \in 1..MaxAttempts
    /\ outcome = "success" => (served = "failover" <=> reasons[Len(reasons)] # "none")

\* _write_success, the guards, and for a success the primary's bytes and its
\* vintage (_persist_content).
RecordOutcome ==
    /\ pc = "record"
    /\ IF SinkAccepts
       THEN /\ content' = IF outcome = "success" THEN {"evidence", "vintage"} ELSE {}
            /\ Goto("replay")
            /\ UNCHANGED <<file, reasons, shortfall, outcome, served, ledger, corr,
                           expected, heard, asked>>
       ELSE Abort("refused")

\* The object store does not take the primary's bytes: nothing catches that.
StoreRaises == pc = "record" /\ outcome = "success" /\ Abort("raised")

\* _replay_attempts: the row of attempt n.
AttemptRow(n) ==
    LET last == n = Len(reasons) IN
    [number |-> n, started |-> (n - 1) * Spacing,
     completed |-> IF last THEN TerminalAttemptAt ELSE (n - 1) * Spacing + 1,
     outcome |-> IF last THEN outcome ELSE AttemptOutcome(reasons[n]),
     reason |-> reasons[n],
     vintage |-> IF last /\ outcome = "success" THEN "created" ELSE "none"]

\* AttemptLedger.start and AttemptLedger.finish.
LedgerAccepts(a) ==
    /\ Len(ledger) < MaxAttempts
    /\ ledger # <<>> => LET b == ledger[Len(ledger)] IN
           b.outcome \notin TerminalOutcomes /\ a.started >= b.completed
    /\ a.completed >= a.started
    /\ a.vintage = "created" <=> a.outcome = "success"
    /\ a.outcome \in Retryable \cup TerminalOutcomes
    /\ a.number = MaxAttempts => a.outcome \in TerminalOutcomes

\* raw.enforce_capture_attempt_sequence, raw.validate_capture_attempt_result
\* and the checks of raw.capture_attempt_results.
TriggersAccept(a) ==
    /\ a.number = Len(ledger) + 1
    /\ a.number <= MaxAttempts
    /\ ledger # <<>> => LET b == ledger[Len(ledger)] IN
           b.outcome \in Retryable /\ a.started >= b.completed
    /\ a.completed >= a.started
    /\ a.vintage = "created" <=> a.outcome = "success"
    /\ a.number = MaxAttempts => a.outcome \in TerminalOutcomes

ReplayAttempt ==
    /\ pc = "replay"
    /\ LET a == AttemptRow(Len(ledger) + 1) IN
       IF LedgerAccepts(a) /\ TriggersAccept(a)
       THEN /\ ledger' = Append(ledger, a)
            /\ Goto(CASE a.number < Len(reasons) -> "replay"
                      [] a.number >= Len(reasons) /\ outcome = "success" -> "observe"
                      [] OTHER -> "result")
            /\ UNCHANGED <<file, reasons, shortfall, outcome, served, content, corr,
                           expected, heard, asked>>
       ELSE Abort("refused")

PersistObservation ==
    /\ pc = "observe"
    /\ content' = content \cup {"observation"}
    /\ Goto(IF expected = 0 THEN "result" ELSE "corroborate")
    /\ corr' = IF expected = 0 THEN corr ELSE <<0>>
    /\ UNCHANGED <<file, reasons, shortfall, outcome, served, ledger, expected, heard, asked>>

\* The current corroboration is through: the next one, or the result.
NextCorroboration(rows) ==
    IF Len(corr) = expected
    THEN corr' = [corr EXCEPT ![Len(corr)] = rows] /\ Goto("result")
    ELSE corr' = Append([corr EXCEPT ![Len(corr)] = rows], 0) /\ UNCHANGED pc

\* _persist_corroboration: its request, its vintage, its observation.
Corroborate ==
    /\ pc = "corroborate"
    /\ IF corr[Len(corr)] < 2
       THEN corr' = [corr EXCEPT ![Len(corr)] = @ + 1] /\ UNCHANGED pc
       ELSE NextCorroboration(3)
    /\ UNCHANGED <<file, reasons, shortfall, outcome, served, ledger, content, expected,
                   heard, asked>>

\* Variant: the failure is caught, but no savepoint takes its rows back.
CorroborationLost_NoSavepoint ==
    /\ pc = "corroborate"
    /\ NextCorroboration(corr[Len(corr)])
    /\ UNCHANGED <<file, reasons, shortfall, outcome, served, ledger, content, expected,
                   heard, asked>>

\* Variant: the failure leaves record_outcome.
CorroborationLost_Raises == pc = "corroborate" /\ Abort("raised")

\* Any failure of it rolls back to its savepoint and is counted as lost.
CorroborationLost ==
    /\ pc = "corroborate"
    /\ NextCorroboration(0)
    /\ UNCHANGED <<file, reasons, shortfall, outcome, served, ledger, content, expected,
                   heard, asked>>

\* The reason codes of the result, or its state when there is none.
Codes == LET kept == {reasons[k] : k \in 1..Len(reasons)} \ {"none"} IN
         IF served = "failover" THEN kept \cup {"served_by_failover"}
         ELSE IF kept = {} THEN {outcome} ELSE kept

\* Variant: run ignores the halt _run_item returns.
PutResult_NoHalt ==
    /\ pc = "result"
    /\ file' = Append(file, [state |-> outcome, codes |-> Codes, served |-> served,
                             ledger |-> ledger, content |-> content, corr |-> corr,
                             heard |-> heard, asked |-> asked,
                             completed |-> CompletedAt])
    /\ FreshItem
    /\ Goto(IF Len(file) + 1 = ItemCount THEN "done" ELSE "fetch")

\* put_obligation_result, and run's loop: the next item, or the halt.
PutResult ==
    /\ pc = "result"
    /\ file' = Append(file, [state |-> outcome, codes |-> Codes, served |-> served,
                             ledger |-> ledger, content |-> content, corr |-> corr,
                             heard |-> heard, asked |-> asked,
                             completed |-> CompletedAt])
    /\ FreshItem
    /\ Goto(CASE outcome = "failed" -> "halted"
              [] outcome # "failed" /\ Len(file) + 1 = ItemCount -> "done"
              [] OTHER -> "fetch")

Step == \/ FetchServed
        \/ \E r \in Offered : FetchShort(r) \/ FetchFailed(r)
        \/ FailoverShort \/ Failover
        \/ RecordOutcome \/ ReplayAttempt \/ PersistObservation
        \/ Corroborate \/ CorroborationLost \/ PutResult
        \/ AdapterRaises \/ StoreRaises

Finished == pc \in Ended /\ UNCHANGED vars

Next == Step \/ Finished

Spec == Init /\ [][Next]_vars

\* Every call returns: the gateway bounds its waits and the clients their
\* timeouts.
FairSpec == Spec /\ WF_vars(Step)
-----------------------------------------------------------------------------
TypeOK ==
    /\ file \in Seq(Obligations)
    /\ pc \in {"fetch", "shortfall", "failover", "record", "replay", "observe",
               "corroborate", "result"} \cup Ended
    /\ reasons \in Seq(Reasons \cup {"none"}) /\ Len(reasons) <= MaxAttempts
    /\ shortfall \in Reasons \cup {"none"}
    /\ outcome \in {"none", "success", "unavailable", "failed"}
    /\ served \in Origins
    /\ ledger \in Seq(Attempts)
    /\ content \in Contents
    /\ corr \in Seq(0..3)
    /\ expected \in 0..MaxCorroborations
    /\ heard \in Seq(Answers)
    /\ asked \in Nat

\* What the executor hands over is accepted by all three layers behind it:
\* the sink, the ledger and the triggers never fail a tick over an attempt
\* history the executor itself produced.
NeverRefused == pc # "refused"

\* What one obligation on file has to agree on.
StoryOf(o) ==
    LET n == Len(o.ledger) IN
    /\ n = Len(o.heard) /\ n >= 1
    /\ \A k \in 1..n : o.heard[k].answer = "failed" =>
           o.ledger[k].reason = o.heard[k].reason
    /\ \A k \in 1..n : o.ledger[k].reason \in o.codes \cup {"none"}
    /\ o.served = "failover" <=> (o.state = "success" /\ o.ledger[n].reason # "none")
    /\ o.served = "failover" <=> "served_by_failover" \in o.codes
    /\ o.served = "failover" => o.ledger[n].reason = o.heard[n].reason
    /\ o.ledger[n].outcome = o.state
    /\ o.content = IF o.state = "success"
                   THEN {"evidence", "vintage", "observation"} ELSE {}
    /\ o.completed >= o.ledger[n].completed

\* The obligation on file tells what happened: each attempt names what the
\* primary answered, a substitution is declared and never hides the primary's
\* failure, and only a success has content.
OneStory == \A i \in 1..Len(file) : StoryOf(file[i])

\* A STOP is never papered over: the obligation that met one is failed, no
\* other origin was asked for it, and it is the last one the run reached.
StopHalts ==
    \A i \in 1..Len(file) : LET o == file[i] IN
        o.codes \cap Stop # {} => /\ o.state = "failed" /\ o.asked = 0
                                  /\ i = Len(file) /\ pc = "halted"

\* A second origin is on file whole or not at all, and the cell's failover
\* was asked at most once.
SecondOriginWhole ==
    \A i \in 1..Len(file) : LET o == file[i] IN
        /\ \A k \in 1..Len(o.corr) : o.corr[k] \in {0, 3}
        /\ o.asked <= 1

\* Whatever becomes of the second origins, the primary's result is recorded.
SecondOriginHarmless ==
    \A n \in 0..(ItemCount - 1) :
        (pc = "corroborate" /\ Len(file) = n) ~> Len(file) = n + 1

\* Every run ends: no answer of an adapter keeps an item in its loop.
EveryRunEnds == <>(pc \in Ended)

\* The executor implements the contract CaptureTick relies on.
Resolved(i) == IF i <= Len(file) THEN file[i].state ELSE "none"
Status == CASE pc \in {"done", "halted"} -> pc
            [] pc \in {"raised", "refused"} -> "aborted"
            [] OTHER -> "running"
Contract == INSTANCE CaptureContract
                WITH results <- [i \in 1..ItemCount |-> Resolved(i)], status <- Status
ImplementsContract == Contract!Spec
-----------------------------------------------------------------------------
(* The strengthening the proofs in CaptureExecutorProofs rest on.          *)

Recording == {"record", "replay", "observe", "corroborate", "result"}

\* Only retries precede the last attempt, and while the primary is asked there
\* is room for one more.
RetriesOnly ==
    /\ \A k \in 1..(Len(reasons) - 1) : reasons[k] \in Retry
    /\ pc \in {"fetch", "shortfall"} =>
           /\ Len(reasons) < MaxAttempts
           /\ \A k \in 1..Len(reasons) : reasons[k] \in Retry
    /\ pc = "shortfall" => shortfall # "none"
    /\ pc = "failover" => Len(reasons) >= 1 /\ reasons[Len(reasons)] # "none"

\* What is handed over has a terminal state that agrees with its last reason.
HandedOver ==
    pc \in Recording =>
        /\ Len(reasons) >= 1
        /\ outcome # "none"
        /\ outcome = "success" => (served = "failover" <=> reasons[Len(reasons)] # "none")

\* The ledger is a prefix of the rows to replay.
Replayed ==
    /\ pc \in {"fetch", "shortfall", "failover", "record"} => ledger = <<>>
    /\ pc = "replay" =>
           /\ Len(ledger) < Len(reasons)
           /\ \A k \in 1..Len(ledger) : ledger[k] = AttemptRow(k)

\* The loops of the corroborations and of the work items stay in range.
InRange == /\ pc = "corroborate" => Len(corr) \in 1..expected
           /\ pc \notin Ended => Len(file) < ItemCount

History == RetriesOnly /\ HandedOver /\ Replayed /\ InRange

ExecutorInv == TypeOK /\ History /\ NeverRefused

\* Each reason the item keeps is what the primary answered at that call, or
\* none when the primary served.
KeptReasons ==
    /\ Len(heard) = Len(reasons) + (IF pc = "shortfall" THEN 1 ELSE 0)
    /\ pc = "shortfall" => /\ heard[Len(heard)] = [answer |-> "short", reason |-> shortfall]
                           /\ shortfall \notin Stop
    /\ \A k \in 1..Len(reasons) :
           \/ reasons[k] = heard[k].reason
           \/ reasons[k] = "none" /\ heard[k].answer # "failed"

\* Another origin is asked once, for a success only, and never after a STOP.
Substitution ==
    /\ pc \in {"fetch", "shortfall", "failover"} =>
           outcome = "none" /\ served = "none" /\ asked = 0
    /\ served = "failover" => outcome = "success"
    /\ asked <= 1
    /\ outcome = "failed" => asked = 0
    /\ outcome # "failed" => \A k \in 1..Len(reasons) : reasons[k] \notin Stop

\* Every attempt of the item has its row.
ReplayedWhole == /\ Len(ledger) = Len(reasons)
                 /\ \A k \in 1..Len(ledger) : ledger[k] = AttemptRow(k)

\* The rows written so far, by the step record_outcome has reached.
WrittenSoFar ==
    /\ pc = "replay" =>
           content = IF outcome = "success" THEN {"evidence", "vintage"} ELSE {}
    /\ pc = "observe" => content = {"evidence", "vintage"}
    /\ pc \in {"observe", "corroborate"} => outcome = "success"
    /\ pc \in {"corroborate", "result"} =>
           content = IF outcome = "success" THEN {"evidence", "vintage", "observation"} ELSE {}
    /\ pc \in {"observe", "corroborate", "result"} => ReplayedWhole
    /\ \A k \in 1..Len(corr) :
           corr[k] \in {0, 3} \/ (k = Len(corr) /\ pc = "corroborate")

\* A failed obligation is the last one on file, and only it met a STOP.
FailedIsLast ==
    \A i \in 1..Len(file) :
        /\ file[i].codes \cap Stop # {} => file[i].state = "failed" /\ file[i].asked = 0
        /\ file[i].state = "failed" => i = Len(file) /\ pc = "halted"

StoryInv == /\ ExecutorInv /\ KeptReasons /\ Substitution /\ WrittenSoFar
            /\ OneStory /\ SecondOriginWhole /\ FailedIsLast
=============================================================================
