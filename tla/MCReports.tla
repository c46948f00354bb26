------------------------------ MODULE MCReports ------------------------------
(* The ops of the standards lane, twice: the questions they ask a model      *)
(* (ModelInvocations) and the reports they write of a head (HeadReports).    *)
(* A behaviour is one of the two.                                            *)
EXTENDS ModelInvocations

VARIABLES part, head, stored, purity, verdict, late, cursor, keys, launched, run, failures

reportVars == <<head, stored, purity, verdict, late, cursor, keys, launched, run, failures>>
allVars == <<vars, part, reportVars>>

\* One run of the sensor or of the backfill job, and one of the fallback.
Lane == INSTANCE HeadReports WITH
    SensorRuns <- {"a"}, BackfillRuns <- {"a"}, FallbackRuns <- {"f"},
    MaxHeads <- 2, MaxFaults <- 1, faults <- failures

\* An alias of a pinned model, and the model itself in the next decoding version.
MCConfigurations == {[model |-> "alias", version |-> "v1"], [model |-> "pinned", version |-> "v2"]}

MCInit == part \in {"questions", "reports"} /\ Init /\ Lane!Init

MCNext ==
    \/ part = "questions" /\ Next /\ UNCHANGED <<part, reportVars>>
    \/ part = "reports" /\ Lane!Next /\ UNCHANGED <<part, vars>>

MCFairness ==
    /\ \A o \in Ops : WF_allVars(part = "questions" /\ Step(o) /\ UNCHANGED <<part, reportVars>>)
    /\ \A r \in {"a", "f"} :
          /\ WF_allVars(part = "reports" /\ Lane!Step(r) /\ UNCHANGED <<part, vars>>)
          /\ WF_allVars(part = "reports" /\ Lane!HeadReportsSensor(r) /\ UNCHANGED <<part, vars>>)
          /\ WF_allVars(part = "reports" /\ Lane!HeadReportsSchedule(r) /\ UNCHANGED <<part, vars>>)

MCSpec == MCInit /\ [][MCNext]_allVars /\ MCFairness

\* ReportsFollowHead of HeadReports: when the pointer stays, the newest report
\* names its head for good (head_reports_sensor and its daily fallback).
ReportsFollowHead == Lane!ReportsFollowHead

\* RedIsRetried of HeadReports: a red verdict of a report lane is followed by a
\* run that does the work again.
RedIsRetried == Lane!RedIsRetried

\* RedNotHidden of HeadReports: what the fallback's description says of a red row.
RedNotHidden == Lane!RedNotHidden
=============================================================================
