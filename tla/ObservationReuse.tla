--------------------------- MODULE ObservationReuse ---------------------------
(***************************************************************************)
(* One cell (a subject and a semantic) across the capture runs that need it *)
(* (_satisfy_from_recent_observations in production_topt/composition.py):   *)
(* a run takes the observations another run committed, or asks the vendors. *)
(* What a run does besides is CaptureTick.                                  *)
(*                                                                          *)
(* Time is in units of which a day has PerDay.  Every stamp of a run is its *)
(* cutoff, and runs of any cutoffs overlap: ticks of two universes, canaries,*)
(* retries of old ticks, forced runs.  A deploy may change the parser        *)
(* between two runs.                                                        *)
(***************************************************************************)
EXTENDS Integers, FiniteSets

CONSTANTS Runs,
          MaxForced,    \* bound: runs with force_fetch
          Cutoffs,      \* times a run may have as its cutoff, from the third day on
          PerDay, Close,\* length of a day, and its time at which the session closes
          MaxAge,       \* _REUSE_MAX_AGE
          Parsers,      \* values of PARSER_VERSION
          Schemes       \* by which a corpus names its issuers: LEI (TOPT), CIK (the planes)

ASSUME ReuseAssumption ==
    /\ PerDay \in Nat \ {0} /\ MaxAge \in Nat /\ Close \in Nat
    /\ Cutoffs \subseteq Nat /\ \A t \in Cutoffs : 2 * PerDay <= t

Never == 99             \* valid_to of a fact that is open

VARIABLES
    semantic,  \* "price": session-bound, of two origins; "fact": neither
    run

vars == <<semantic, run>>

NoObservation == [run |-> "none", source |-> "none", parser |-> 0, knowable |-> 0, from |-> 0, to |-> 0,
                  unclassified |-> FALSE]

\* keyed: the scheme of the run's corpus; outcome: the terminal state of the
\* obligation; anchor: the observation of the vintage its final attempt names;
\* bound: the observations bound to it.
NoRun == [at |-> "none", cutoff |-> 0, forced |-> FALSE, parser |-> 0, keyed |-> "none",
          outcome |-> "none", anchor |-> NoObservation, bound |-> {}]

Init == semantic \in {"price", "fact"} /\ run = [r \in Runs |-> NoRun]

Day(t) == t \div PerDay

\* last_settled_session_date; every day has a session here.
Settled(t) == IF t % PerDay >= Close THEN Day(t) ELSE Day(t) - 1

\* configured_origin_sources.
RequiredSources == IF semantic = "price" THEN {"primary", "second"} ELSE {"primary"}

\* A run that is planned; with force_fetch it asks the vendors at once.
Planned(cutoff, forced, parser, keyed) ==
    [NoRun EXCEPT !.at = IF forced THEN "fetch" ELSE "reuse",
                  !.cutoff = cutoff, !.forced = forced, !.parser = parser, !.keyed = keyed]

Begin(r) ==
    /\ run[r].at = "none"
    /\ \E cutoff \in Cutoffs, forced \in BOOLEAN, parser \in Parsers, keyed \in Schemes :
          /\ forced => Cardinality({p \in Runs : run[p].forced}) < MaxForced
          /\ run' = [run EXCEPT ![r] = Planned(cutoff, forced, parser, keyed)]
    /\ UNCHANGED semantic
-----------------------------------------------------------------------------
(* The query.                                                              *)

ValidOn(o, day) == o.from <= day /\ day <= o.to

\* A member of the set may be read by run r.
Qualifies(o, r) == o.knowable <= run[r].cutoff /\ ValidOn(o, Day(run[r].cutoff))

\* Variant: the age of the result that resolved the source's own obligation.
LookedAt_Renewed(p) == run[p].cutoff

\* orig_done.completed_at: when the vendor was asked for the observation.
LookedAt(p) == run[run[p].anchor.run].cutoff

\* Variant: an anchor of any parser.
ParserMatches_Any(p, r) == TRUE

ParserMatches(p, r) == run[p].anchor.parser = run[r].parser

\* The anchors: committed obligations of other runs for this cell, by the listing
\* alone, whatever scheme their corpus has for the issuer (#1333, #1517).
Anchors(r) ==
    {p \in Runs \ {r} :
        /\ run[p].at = "committed" /\ run[p].cutoff <= run[r].cutoff
        /\ run[p].anchor.source = "primary" /\ ParserMatches(p, r)
        /\ Qualifies(run[p].anchor, r) /\ ~run[p].anchor.unclassified
        /\ LookedAt(p) > run[r].cutoff - MaxAge /\ LookedAt(p) <= run[r].cutoff}

\* order by: the newest look, the newest result, a forced run, the newest fact.
Ahead(p, q) ==
    \/ LookedAt(p) > LookedAt(q)
    \/ LookedAt(p) = LookedAt(q) /\ run[p].cutoff > run[q].cutoff
    \/ /\ LookedAt(p) = LookedAt(q) /\ run[p].cutoff = run[q].cutoff
       /\ \/ run[p].forced /\ ~run[q].forced
          \/ run[p].forced = run[q].forced /\ run[p].anchor.knowable > run[q].anchor.knowable

First(set) == {p \in set : \A q \in set : ~Ahead(q, p)}

\* having bool_and(qualifies): the whole set or nothing.
BoundSet(p, r) == IF \A o \in run[p].bound : Qualifies(o, r) THEN run[p].bound ELSE {}

Sources(set) == {o.source : o \in set}

\* _is_settled_session, for the semantics that are session-bound.
OfSession(p, r) == semantic = "price" => Day(run[p].anchor.knowable) = Settled(run[r].cutoff)

\* The set comes from every origin, of the session that is settled.
Satisfies(p, r) == Sources(BoundSet(p, r)) = RequiredSources /\ OfSession(p, r)
-----------------------------------------------------------------------------
(* A run resolves the cell and commits.                                    *)

\* The terminal state of the obligation, its final attempt and its bindings.
Resolve(r, outcome, anchor, bound) ==
    run' = [run EXCEPT ![r] = [at |-> "resolved", cutoff |-> @.cutoff, forced |-> @.forced, parser |-> @.parser,
                               keyed |-> @.keyed, outcome |-> outcome, anchor |-> anchor, bound |-> bound]]

Reuse(r) ==
    /\ run[r].at = "reuse"
    /\ \/ \E p \in First(Anchors(r)) :
             /\ Satisfies(p, r)
             /\ Resolve(r, "unchanged", run[p].anchor, BoundSet(p, r))
       \/ /\ Anchors(r) = {} \/ \E p \in First(Anchors(r)) : ~Satisfies(p, r)
          /\ run' = [run EXCEPT ![r].at = "fetch"]
    /\ UNCHANGED semantic

\* What a source may say at a cutoff: the close of the settled session, or of
\* the one before where the vendor is late; a fact that starts today or
\* tomorrow, or ends today, or of an issuer the registry could not classify.
Answers(r, source) ==
    LET now == run[r].cutoff
        Answer(knowable, from, to, unclassified) ==
            [run |-> r, source |-> source, parser |-> IF source = "primary" THEN run[r].parser ELSE 0,
             knowable |-> knowable, from |-> from, to |-> to, unclassified |-> unclassified]
    IN IF semantic = "price"
       THEN {Answer(PerDay * day, day, Never, FALSE) : day \in {Settled(now), Settled(now) - 1}}
       ELSE {Answer(now, Day(now), Never, FALSE), Answer(now, Day(now) + 1, Never, FALSE),
             Answer(now, Day(now), Day(now), FALSE), Answer(now, Day(now), Never, TRUE)}

Success(r, anchor, others) == Resolve(r, "success", anchor, {anchor} \cup others)

\* _serves_session: the close a failover may serve.
ServesSession(o, r) == Day(o.knowable) = Settled(run[r].cutoff)

\* The primary alone, the primary and the second origin, or the second origin
\* in place of a primary that failed or is a session late.
Fetch(r) ==
    /\ run[r].at = "fetch"
    /\ \/ \E o \in Answers(r, "primary") : Success(r, o, {})
       \/ semantic = "price" /\ \E o \in Answers(r, "primary"), s \in Answers(r, "second") : Success(r, o, {s})
       \/ semantic = "price" /\ \E s \in Answers(r, "second") : ServesSession(s, r) /\ Success(r, s, {})
    /\ UNCHANGED semantic

\* connection.commit() after the capture: only now do other runs see it.
Commit(r) ==
    /\ run[r].at = "resolved"
    /\ run' = [run EXCEPT ![r].at = "committed"]
    /\ UNCHANGED semantic

\* A shortfall elsewhere in the run, or a death, before the commit.
RollBack(r) ==
    /\ run[r].at = "resolved"
    /\ run' = [run EXCEPT ![r] = NoRun]
    /\ UNCHANGED semantic

Next == \E r \in Runs : Begin(r) \/ Reuse(r) \/ Fetch(r) \/ Commit(r) \/ RollBack(r)

Spec == Init /\ [][Next]_vars
-----------------------------------------------------------------------------
Observation == [run : Runs, source : {"primary", "second"}, parser : Parsers \cup {0},
                knowable : Nat, from : Nat, to : Nat, unclassified : BOOLEAN]

\* Every variable has its type.
TypeOK ==
    /\ semantic \in {"price", "fact"}
    /\ \A r \in Runs :
          /\ run[r].at \in {"none", "reuse", "fetch", "resolved", "committed"}
          /\ run[r].cutoff \in Cutoffs \cup {0} /\ run[r].parser \in Parsers \cup {0}
          /\ run[r].keyed \in Schemes \cup {"none"}
          /\ run[r].outcome \in {"none", "success", "unchanged"}
          /\ run[r].bound \subseteq Observation

Reused == {r \in Runs : run[r].outcome = "unchanged"}

\* "twelve hours ... with zero staleness risk": whatever chain of runs handed a
\* set of observations on, the vendors were asked for it within the window
\* before the cutoff of the last run that took it, and not after that cutoff.
ReusedIsRecent ==
    \A r \in Reused : \A o \in run[r].bound :
        run[r].cutoff - MaxAge < run[o.run].cutoff /\ run[o.run].cutoff <= run[r].cutoff

\* _load_observations of freeze_snapshot, and the parser the strategy bridge
\* reads: the observations of the anchor's vintage that a run can consume.
Consumable(r) ==
    {o \in run[r].bound :
        /\ o.source = run[r].anchor.source /\ o.run = run[r].anchor.run
        /\ o.parser = run[r].parser
        /\ ValidOn(o, Day(run[r].cutoff)) /\ o.knowable <= run[r].cutoff}

\* _validate_member_rows of freeze_snapshot: issuer, instrument and listing of a
\* financial fact are those of the run's own identity cell, and of a price the
\* listing is.  The payload names the issuer as the run that fetched it does.
IdentitiesAgree(o, r) == semantic = "fact" => run[o.run].keyed = run[r].keyed

\* "an anchor that qualifies while making the run unusable must not qualify",
\* and a reused cell is never "one corroboration short": a cell resolved
\* UNCHANGED gives the freeze exactly one observation, of the session settled at
\* the cutoff where it is a price, of an issuer the registry classified where it
\* is a fact, and comes from every origin its source declares.  Whether the
\* freeze then agrees with its identities is ReusedCellFreezes.
ReusedCellIsWhole ==
    \A r \in Reused :
        /\ Cardinality(Consumable(r)) = 1
        /\ Sources(run[r].bound) = RequiredSources
        /\ \A o \in Consumable(r) : ~o.unclassified /\ (semantic = "price" => ServesSession(o, r))

\* "An anchor now qualifies only when its payload trio equals THIS run's plan
\* coordinates for the subject, so equally-keyed universes still share vendor
\* bytes and differently-keyed ones capture fresh": the freeze accepts the
\* identities of every reused cell.
ReusedCellFreezes == \A r \in Reused : \A o \in Consumable(r) : IdentitiesAgree(o, r)
=============================================================================
