------------------------------- MODULE MCAccess -------------------------------
(* Three ways of sharing a result or a resource: the observations of other    *)
(* runs (ObservationReuse), the documents of an owner (Documents) and the     *)
(* provider's rate (ModelCall).  A behaviour is one of the three, and a run   *)
(* checks the behaviours of some of them (Parts).                             *)
EXTENDS ObservationReuse, TLC

CONSTANTS Parts, r1, r2, r3,
          Documents, Tickets, Redeemers, Limit, Resolution, MaxTime,              \* of Documents
          Callers, Slots, Window, Rate, MaxAttempts, InitialBackoff,              \* of ModelCall
          BackoffFactor, MaxBackoff, JitterPercent, MinTotalWait, Deadline,
          LatestStart, MaxNow

MCRuns == {r1, r2, r3}

Symmetry == Permutations(MCRuns)

VARIABLES
    part,
    clock, document, deleted, ticket, redeem, listing, served,
    now, call, holder, starts

documentVars == <<clock, document, deleted, ticket, redeem, listing, served>>
callVars == <<now, call, holder, starts>>
allVars == <<vars, part, documentVars, callVars>>

Library == INSTANCE Documents WITH now <- clock
Call == INSTANCE ModelCall

\* Ids are ordered and a page holds a row at least (clampListLimit).
ASSUME DocumentsAssumption ==
    IsFiniteSet(Documents) /\ Documents \subseteq Int /\ Limit \in Nat \ {0} /\ MaxTime \in Nat

\* The fields of the policy are numbers, and so are the waits they make.
ASSUME PolicyAssumption ==
    /\ Slots \in Nat /\ Rate \in Nat \ {0} /\ Window \in Nat /\ "none" \notin Callers
    /\ Deadline \in Nat /\ MinTotalWait \in Nat /\ MaxAttempts \in Nat
    /\ \A n \in 1..MaxAttempts : Call!BaseBackoff(n) \in Nat

ASSUME RetrySpecAssumption == Call!RetrySpecValid

\* What is left of the deadline after min_total_wait_seconds holds the longest
\* single wait.  The deployed contract has it (90 s and 60 s of 300 s); its
\* validator asks only for min_total_wait_seconds <= deadline_seconds.
ASSUME RoomAssumption ==
    \A n \in 1..MaxAttempts : \A wait \in Call!Waits(n) \cup {Window} : MinTotalWait + wait <= Deadline

\* The parts that rest begin in one way.
MCInit ==
    /\ part \in Parts
    /\ Init /\ (part # "reuse" => semantic = "fact")
    /\ Library!Init /\ Call!Init

MCNext ==
    \/ part = "reuse" /\ Next /\ UNCHANGED <<part, documentVars, callVars>>
    \/ part = "library" /\ Library!Next /\ UNCHANGED <<part, vars, callVars>>
    \/ part = "call" /\ Call!Next /\ UNCHANGED <<part, vars, documentVars>>

MCSpec == MCInit /\ [][MCNext]_allVars

\* PagesComplete of Documents: the pages of a listing miss no document and
\* repeat none.
PagesComplete == Library!PagesComplete

\* ServedOnce of Documents: a download ticket gives its bytes at most once.
ServedOnce == Library!ServedOnce

\* WaitsWithinDeadline of ModelCall: a logical call of llm.py waits for nothing
\* and sends nothing after its deadline.
WaitsWithinDeadline == Call!WaitsWithinDeadline

\* PacerHolds of ModelCall: the attempts of a process keep the concurrency and
\* the rate of the policy, with callers that wait for slot, lock and window.
PacerHolds == Call!PacerHolds

\* GivesUpLate of ModelCall: a call gives up on transient answers only after
\* min_total_wait_seconds.
GivesUpLate == Call!GivesUpLate
=============================================================================
