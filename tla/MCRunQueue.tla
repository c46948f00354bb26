------------------------------ MODULE MCRunQueue ------------------------------
(* The queue of dagster.yaml: two slots, one for a run that waits.           *)
EXTENDS RunQueue

CONSTANTS t1, t2, r1, w1, w2

MCTicks == {t1, t2}
MCReports == {r1}
MCWaiters == {w1, w2}
\* t2 was launched without an address.
MCAddressed == {t1, r1, w1, w2}
=============================================================================
