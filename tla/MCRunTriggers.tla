---------------------------- MODULE MCRunTriggers ----------------------------
(* Two digests; a configuration of its own makes the same digest another     *)
(* deployment.  A behaviour has several deployments and a clearing of the    *)
(* cursor, or requests: the two sensors share the runs and the deaths only.  *)
EXTENDS RunTriggers

CONSTANTS dA, dB, c1, c2

MCDigests == {dA, dB}
MCConfigurations == {c1, c2}

\* Requests are made next to at most one deploy, of another digest.
RequestBound ==
    (\E i \in Ids : request[i] # "absent") =>
        deployed.number <= 2 /\ deployed.configuration = FirstConfiguration /\ clears = 0

MCNext == Next /\ RequestBound'

MCSpec == Init /\ [][MCNext]_vars /\ Fairness
=============================================================================
