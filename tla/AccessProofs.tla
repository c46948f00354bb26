----------------------------- MODULE AccessProofs -----------------------------
(* What the three ways of sharing a result or a resource promise, for any     *)
(* numbers of runs, documents, requests and callers: a set of observations    *)
(* that is handed on stays recent and whole, pages skip nothing, a ticket is  *)
(* served once, a model call waits within its deadline and never gives up     *)
(* early, and the pacer keeps its limits.                                     *)
EXTENDS MCAccess, TLAPS, FiniteSetTheorems, SequenceTheorems, WellFoundedInduction

\* An instance has its own name for the size of a set.
LEMMA LibrarySize == \A S : Library!Cardinality(S) = Cardinality(S)
BY DEF Library!Cardinality, Cardinality

LEMMA CallSize == \A S : Call!Cardinality(S) = Cardinality(S)
BY DEF Call!Cardinality, Cardinality
-----------------------------------------------------------------------------
(* Reuse: however often a set of observations is handed on, it stays the set  *)
(* that one committed run fetched (_satisfy_from_recent_observations).        *)

RunRecord ==
    [at : {"none", "reuse", "fetch", "resolved", "committed"},
     cutoff : Cutoffs \cup {0}, forced : BOOLEAN, parser : Parsers \cup {0},
     keyed : Schemes \cup {"none"}, outcome : {"none", "success", "unchanged"},
     anchor : Observation \cup {NoObservation}, bound : SUBSET Observation]

Types == semantic \in {"price", "fact"} /\ run \in [Runs -> RunRecord]

Ended(r) == run[r].at \in {"resolved", "committed"}

\* A run has an outcome, and observations, when it has resolved the cell; then
\* the anchor is one of them, and they are of one run and one per source.
OneVintage ==
    \A r \in Runs :
        /\ run[r].at # "none" => run[r].cutoff \in Cutoffs
        /\ IF Ended(r) THEN run[r].outcome # "none" ELSE run[r].outcome = "none" /\ run[r].bound = {}
        /\ Ended(r) => run[r].anchor \in run[r].bound
        /\ \A o, q \in run[r].bound : o.run = q.run /\ (o.source = q.source => o = q)

\* A run that asked the vendors holds its own observations.
OwnAnswers == \A r \in Runs : run[r].outcome = "success" => run[r].anchor.run = r

\* Run r holds the observations of a committed run, whose answers were within
\* the window at r's cutoff, and r can consume the anchor.
FromCommitted(r) ==
    LET origin == run[r].anchor.run IN
    /\ origin \in Runs /\ run[origin].at = "committed"
    /\ run[r].cutoff - MaxAge < run[origin].cutoff /\ run[origin].cutoff <= run[r].cutoff
    /\ run[r].anchor.source = "primary"
    /\ run[r].anchor \in Consumable(r)
    /\ Sources(run[r].bound) = RequiredSources
    /\ ~run[r].anchor.unclassified
    /\ semantic = "price" => ServesSession(run[r].anchor, r)

HandedOn == \A r \in Reused : FromCommitted(r)

ReuseInv == Types /\ OneVintage /\ OwnAnswers /\ HandedOn

\* A cutoff is on the third day or later, and its settled session is on the
\* second or later.
LEMMA DayType == \A t \in Cutoffs : t \in Nat /\ Day(t) \in Nat /\ Day(t) >= 2
BY ReuseAssumption DEF Day

LEMMA SettledType ==
    \A t \in Cutoffs : /\ Settled(t) \in Nat /\ Settled(t) - 1 \in Nat
                       /\ PerDay * Settled(t) \in Nat /\ PerDay * (Settled(t) - 1) \in Nat
BY DayType, ReuseAssumption DEF Settled

\* What a source answers is an observation of the run that asked.
LEMMA AnswersType ==
    ASSUME NEW r \in Runs, Types, run[r].cutoff \in Cutoffs,
           NEW source \in {"primary", "second"}, NEW o \in Answers(r, source)
    PROVE  o \in Observation /\ o.run = r /\ o.source = source
<1>1. CASE semantic = "price"
    <2>1. PICK day \in {Settled(run[r].cutoff), Settled(run[r].cutoff) - 1} :
              o = [run |-> r, source |-> source, parser |-> IF source = "primary" THEN run[r].parser ELSE 0,
                   knowable |-> PerDay * day, from |-> day, to |-> Never, unclassified |-> FALSE]
        BY <1>1 DEF Answers
    <2>2. day \in Nat /\ PerDay * day \in Nat
        BY SettledType
    <2> QED
        BY <2>1, <2>2 DEF Types, RunRecord, Observation, Never
<1>2. CASE semantic # "price"
    <2>1. PICK from \in {Day(run[r].cutoff), Day(run[r].cutoff) + 1}, to \in {Never, Day(run[r].cutoff)},
               unclassified \in BOOLEAN :
              o = [run |-> r, source |-> source, parser |-> IF source = "primary" THEN run[r].parser ELSE 0,
                   knowable |-> run[r].cutoff, from |-> from, to |-> to, unclassified |-> unclassified]
        BY <1>2 DEF Answers
    <2>2. from \in Nat /\ to \in Nat /\ run[r].cutoff \in Nat
        BY DayType DEF Never
    <2> QED
        BY <2>1, <2>2 DEF Types, RunRecord, Observation
<1> QED
    BY <1>1, <1>2

\* No run exists at the start.
LEMMA ReuseInvInit == Init => ReuseInv
BY DEF Init, ReuseInv, Types, RunRecord, NoRun, OneVintage, OwnAnswers, HandedOn, Reused, Ended

\* A step of a run that has not committed disturbs no other that reused: that
\* one holds the observations of a run that has.
LEMMA OthersKept ==
    ASSUME ReuseInv, UNCHANGED semantic, NEW r \in Runs, run[r].at # "committed",
           \A p \in Runs \ {r} : run'[p] = run[p],
           NEW p \in Reused, p # r
    PROVE  FromCommitted(p)'
<1>1. p \in Runs /\ run'[p] = run[p]
    BY DEF Reused
<1>2. run'[run[p].anchor.run] = run[run[p].anchor.run]
    BY DEF ReuseInv, HandedOn, FromCommitted
<1> QED
    BY <1>1, <1>2 DEF ReuseInv, HandedOn, FromCommitted, Consumable, Sources, RequiredSources,
                      ServesSession, Settled, Day, ValidOn

\* A run begins, turns to its vendors or is rolled back: it has no outcome.
LEMMA NoOutcomeStep ==
    ASSUME ReuseInv, UNCHANGED semantic, NEW r \in Runs, run[r].at # "committed",
           run' \in [Runs -> RunRecord], \A p \in Runs \ {r} : run'[p] = run[p],
           run'[r].at \in {"none", "reuse", "fetch"}, run'[r].at # "none" => run'[r].cutoff \in Cutoffs,
           run'[r].outcome = "none", run'[r].bound = {}
    PROVE  ReuseInv'
<1>1. Types'
    BY DEF ReuseInv, Types
<1>2. OneVintage'
    BY DEF ReuseInv, OneVintage, Ended
<1>3. OwnAnswers'
    BY DEF ReuseInv, OwnAnswers
<1>4. HandedOn'
    BY OthersKept DEF HandedOn, Reused
<1> QED
    BY <1>1, <1>2, <1>3, <1>4 DEF ReuseInv

\* What a resolution assigns, field by field.
LEMMA ResolutionMeaning ==
    ASSUME Types, NEW r \in Runs, NEW outcome \in {"success", "unchanged"},
           NEW anchor \in Observation, NEW bound \in SUBSET Observation,
           Resolve(r, outcome, anchor, bound)
    PROVE  /\ run' \in [Runs -> RunRecord]
           /\ \A p \in Runs \ {r} : run'[p] = run[p]
           /\ run'[r].at = "resolved" /\ run'[r].outcome = outcome
           /\ run'[r].anchor = anchor /\ run'[r].bound = bound
           /\ run'[r].cutoff = run[r].cutoff /\ run'[r].parser = run[r].parser
<1> DEFINE new == [at |-> "resolved", cutoff |-> run[r].cutoff, forced |-> run[r].forced,
                   parser |-> run[r].parser, keyed |-> run[r].keyed, outcome |-> outcome, anchor |-> anchor, bound |-> bound]
<1>1. run[r] \in RunRecord
    BY DEF Types
<1>2. new \in RunRecord
    BY <1>1 DEF RunRecord
<1>3. run' = [run EXCEPT ![r] = new]
    BY DEF Resolve
<1> HIDE DEF new
<1>4. run'[r] = new /\ run' \in [Runs -> RunRecord] /\ \A p \in Runs \ {r} : run'[p] = run[p]
    BY <1>2, <1>3 DEF Types
<1> QED
    BY <1>4 DEF new

\* A run resolves the cell from the answers of its own vendors.
LEMMA SuccessStep ==
    ASSUME ReuseInv, UNCHANGED semantic, NEW r \in Runs, run[r].at = "fetch",
           NEW anchor \in Observation, NEW others \in SUBSET Observation,
           anchor.run = r, \A o \in others : o.run = r /\ o.source # anchor.source,
           \A o, q \in others : o = q,
           Success(r, anchor, others)
    PROVE  ReuseInv'
<1>1. /\ run' \in [Runs -> RunRecord]
      /\ \A p \in Runs \ {r} : run'[p] = run[p]
      /\ run'[r].at = "resolved" /\ run'[r].outcome = "success"
      /\ run'[r].anchor = anchor /\ run'[r].bound = {anchor} \cup others
      /\ run'[r].cutoff = run[r].cutoff
    BY ResolutionMeaning, {anchor} \cup others \in SUBSET Observation DEF ReuseInv, Success
<1>2. OneVintage'
    BY <1>1 DEF ReuseInv, OneVintage, Ended
<1>3. OwnAnswers'
    BY <1>1 DEF ReuseInv, OwnAnswers
<1>4. HandedOn'
    BY <1>1, OthersKept DEF HandedOn, Reused
<1> QED
    BY <1>1, <1>2, <1>3, <1>4 DEF ReuseInv, Types

\* A run takes the set of an anchor: the set of the run the anchor came from.
LEMMA UnchangedStep ==
    ASSUME ReuseInv, UNCHANGED semantic, NEW r \in Runs, run[r].at = "reuse",
           NEW p \in Anchors(r), Satisfies(p, r),
           Resolve(r, "unchanged", run[p].anchor, BoundSet(p, r))
    PROVE  ReuseInv'
<1>1. /\ p \in Runs /\ p # r /\ run[p].at = "committed"
      /\ run[p].anchor.source = "primary" /\ run[p].anchor.parser = run[r].parser
      /\ Qualifies(run[p].anchor, r) /\ ~run[p].anchor.unclassified
      /\ LookedAt(p) > run[r].cutoff - MaxAge /\ LookedAt(p) <= run[r].cutoff
    BY DEF Anchors, ParserMatches
<1>2. BoundSet(p, r) = run[p].bound
    BY DEF Satisfies, BoundSet, Sources, RequiredSources
<1>3. /\ run' \in [Runs -> RunRecord]
      /\ \A q \in Runs \ {r} : run'[q] = run[q]
      /\ run'[r].at = "resolved" /\ run'[r].outcome = "unchanged"
      /\ run'[r].anchor = run[p].anchor /\ run'[r].bound = run[p].bound
      /\ run'[r].cutoff = run[r].cutoff /\ run'[r].parser = run[r].parser
    <2>1. run[p].anchor \in Observation /\ run[p].bound \in SUBSET Observation
        BY <1>1 DEF ReuseInv, Types, RunRecord, OneVintage, Ended
    <2> QED
        BY <1>2, <2>1, ResolutionMeaning DEF ReuseInv
<1>4. /\ run[p].anchor \in run[p].bound
      /\ run[p].anchor.run \in Runs /\ run[run[p].anchor.run].at = "committed"
    BY <1>1 DEF ReuseInv, Types, RunRecord, OneVintage, Ended, OwnAnswers, HandedOn, FromCommitted, Reused
<1>5. OneVintage'
    BY <1>1, <1>3, <1>4 DEF ReuseInv, OneVintage, Ended
<1>6. OwnAnswers'
    BY <1>3 DEF ReuseInv, OwnAnswers
<1>7. FromCommitted(r)'
    <2>1. run'[run[p].anchor.run] = run[run[p].anchor.run]
        BY <1>3, <1>4
    <2>2. /\ run'[r].cutoff - MaxAge < run'[run'[r].anchor.run].cutoff
          /\ run'[run'[r].anchor.run].cutoff <= run'[r].cutoff
        BY <1>1, <1>3, <1>4, <2>1, ReuseAssumption DEF LookedAt, ReuseInv, Types, RunRecord
    <2>3. (run[r].anchor \in Consumable(r))'
        BY <1>1, <1>3, <1>4 DEF Consumable, Qualifies, ValidOn, Day
    <2>4. (Sources(run[r].bound) = RequiredSources)'
        BY <1>2, <1>3 DEF Satisfies, Sources, RequiredSources
    <2>5. (semantic = "price" => ServesSession(run[r].anchor, r))'
        BY <1>3 DEF Satisfies, OfSession, ServesSession, Settled, Day
    <2> QED
        BY <1>1, <1>3, <1>4, <2>1, <2>2, <2>3, <2>4, <2>5 DEF FromCommitted
<1>8. HandedOn'
    BY <1>3, <1>7, OthersKept DEF HandedOn, Reused
<1> QED
    BY <1>3, <1>5, <1>6, <1>8 DEF ReuseInv, Types

\* A commit changes nothing but what others see.
LEMMA CommitStep ==
    ASSUME ReuseInv, NEW r \in Runs, Commit(r)
    PROVE  ReuseInv'
<1>1. /\ run' \in [Runs -> RunRecord] /\ UNCHANGED semantic
      /\ \A p \in Runs \ {r} : run'[p] = run[p]
      /\ run[r].at = "resolved" /\ run'[r].at = "committed"
      /\ run'[r].outcome = run[r].outcome /\ run'[r].anchor = run[r].anchor
      /\ run'[r].bound = run[r].bound /\ run'[r].cutoff = run[r].cutoff
      /\ run'[r].parser = run[r].parser
    BY DEF ReuseInv, Types, RunRecord, Commit
<1>2. OneVintage'
    BY <1>1 DEF ReuseInv, OneVintage, Ended
<1>3. OwnAnswers'
    BY <1>1 DEF ReuseInv, OwnAnswers
<1>4. ASSUME r \in Reused PROVE FromCommitted(r)'
    <2>1. run'[run[r].anchor.run] = run[run[r].anchor.run]
        BY <1>1, <1>4 DEF ReuseInv, HandedOn, FromCommitted
    <2> QED
        BY <1>1, <1>4, <2>1 DEF ReuseInv, HandedOn, FromCommitted, Consumable, Sources, RequiredSources,
                                ServesSession, Settled, Day, ValidOn
<1>5. HandedOn'
    BY <1>1, <1>4, OthersKept DEF HandedOn, Reused
<1> QED
    BY <1>1, <1>2, <1>3, <1>5 DEF ReuseInv, Types

\* Every step of every run keeps the invariant.
LEMMA ReuseInvNext == ReuseInv /\ [Next]_vars => ReuseInv'
<1> SUFFICES ASSUME ReuseInv, [Next]_vars
             PROVE  ReuseInv'
    OBVIOUS
<1>1. ASSUME NEW r \in Runs, Begin(r) PROVE ReuseInv'
    <2>1. PICK cutoff \in Cutoffs, forced \in BOOLEAN, parser \in Parsers, keyed \in Schemes :
              run' = [run EXCEPT ![r] = Planned(cutoff, forced, parser, keyed)]
        BY <1>1 DEF Begin
    <2> DEFINE new == Planned(cutoff, forced, parser, keyed)
    <2>2. /\ new \in RunRecord /\ new.at \in {"reuse", "fetch"} /\ new.outcome = "none" /\ new.bound = {}
          /\ new.cutoff = cutoff
        BY DEF Planned, RunRecord, NoRun
    <2> HIDE DEF new
    <2>3. run'[r] = new /\ run' \in [Runs -> RunRecord] /\ \A p \in Runs \ {r} : run'[p] = run[p]
        BY <2>1, <2>2 DEF new, ReuseInv, Types
    <2> QED
        BY <1>1, <2>2, <2>3, NoOutcomeStep DEF Begin
<1>2. ASSUME NEW r \in Runs, Reuse(r) PROVE ReuseInv'
    <2>1. CASE \E p \in First(Anchors(r)) :
                  /\ Satisfies(p, r)
                  /\ Resolve(r, "unchanged", run[p].anchor, BoundSet(p, r))
        BY <1>2, <2>1, UnchangedStep DEF Reuse, First
    <2>2. CASE run' = [run EXCEPT ![r].at = "fetch"]
        <3>1. run[r].at = "reuse"
            BY <1>2 DEF Reuse
        <3>2. /\ run' \in [Runs -> RunRecord] /\ UNCHANGED semantic
              /\ \A p \in Runs \ {r} : run'[p] = run[p]
              /\ run'[r].at = "fetch" /\ run'[r].outcome = run[r].outcome
              /\ run'[r].bound = run[r].bound /\ run'[r].cutoff = run[r].cutoff
            BY <1>2, <2>2 DEF Reuse, ReuseInv, Types, RunRecord
        <3>3. run[r].outcome = "none" /\ run[r].bound = {} /\ run[r].cutoff \in Cutoffs
            BY <3>1 DEF ReuseInv, OneVintage, Ended
        <3> QED
            BY <3>1, <3>2, <3>3, NoOutcomeStep
    <2> QED
        BY <1>2, <2>1, <2>2 DEF Reuse
<1>3. ASSUME NEW r \in Runs, Fetch(r) PROVE ReuseInv'
    <2>1. run[r].at = "fetch" /\ run[r].cutoff \in Cutoffs /\ UNCHANGED semantic
        BY <1>3 DEF Fetch, ReuseInv, OneVintage
    <2>2. ASSUME NEW source \in {"primary", "second"}, NEW o \in Answers(r, source), Success(r, o, {})
          PROVE  ReuseInv'
        BY <2>1, <2>2, AnswersType, SuccessStep DEF ReuseInv
    <2>3. ASSUME NEW o \in Answers(r, "primary"), NEW s \in Answers(r, "second"), Success(r, o, {s})
          PROVE  ReuseInv'
        <3>1. /\ o \in Observation /\ o.run = r /\ o.source = "primary"
              /\ s \in Observation /\ s.run = r /\ s.source = "second"
            BY <2>1, <2>3, AnswersType DEF ReuseInv
        <3> QED
            BY <2>1, <2>3, <3>1, SuccessStep
    <2> QED
        BY <1>3, <2>2, <2>3 DEF Fetch
<1>4. ASSUME NEW r \in Runs, RollBack(r) PROVE ReuseInv'
    <2>1. /\ run' \in [Runs -> RunRecord] /\ UNCHANGED semantic
          /\ \A p \in Runs \ {r} : run'[p] = run[p]
          /\ run'[r].at = "none" /\ run'[r].outcome = "none" /\ run'[r].bound = {}
        BY <1>4 DEF RollBack, ReuseInv, Types, RunRecord, NoRun
    <2> QED
        BY <1>4, <2>1, NoOutcomeStep DEF RollBack
<1>5. CASE UNCHANGED vars
    BY <1>5 DEF vars, ReuseInv, Types, OneVintage, Ended, OwnAnswers, HandedOn, FromCommitted, Reused,
                Consumable, Sources, RequiredSources, ServesSession, Settled, Day, ValidOn
<1> QED
    BY <1>1, <1>2, <1>3, <1>4, <1>5, CommitStep DEF Next

\* "twelve hours ... with zero staleness risk" (_REUSE_MAX_AGE): in every
\* behaviour, of any number of runs with any cutoffs that hand a set on in any
\* chain, the vendors were asked for it within the window before the cutoff of
\* the last run that took it.
THEOREM ReuseStaysRecent == Spec => []ReusedIsRecent
<1>1. ReuseInv => ReusedIsRecent
    <2> SUFFICES ASSUME ReuseInv, NEW r \in Reused, NEW o \in run[r].bound
                 PROVE  /\ run[r].cutoff - MaxAge < run[o.run].cutoff
                        /\ run[o.run].cutoff <= run[r].cutoff
        BY DEF ReusedIsRecent
    <2>1. o.run = run[r].anchor.run
        BY DEF ReuseInv, OneVintage, Reused, Ended
    <2> QED
        BY <2>1 DEF ReuseInv, HandedOn, FromCommitted
<1> QED
    BY <1>1, ReuseInvInit, ReuseInvNext, PTL DEF Spec

\* "an anchor that qualifies while making the run unusable must not qualify": a
\* cell resolved UNCHANGED gives the freeze exactly one observation, the anchor,
\* of the session settled at the cutoff and of a classified issuer, and has the
\* observations of every origin.  The freeze may still refuse the issuer such a
\* fact names (ReusedCellFreezes).
THEOREM ReuseIsUsable == Spec => []ReusedCellIsWhole
<1>1. ReuseInv => ReusedCellIsWhole
    <2> SUFFICES ASSUME ReuseInv, NEW r \in Reused
                 PROVE  /\ Cardinality(Consumable(r)) = 1
                        /\ Sources(run[r].bound) = RequiredSources
                        /\ \A o \in Consumable(r) :
                              ~o.unclassified /\ (semantic = "price" => ServesSession(o, r))
        BY DEF ReusedCellIsWhole
    <2>1. \A o \in Consumable(r) : o = run[r].anchor
        BY DEF Consumable, ReuseInv, OneVintage, Reused, Ended
    <2>2. Consumable(r) = {run[r].anchor}
        BY <2>1 DEF ReuseInv, HandedOn, FromCommitted
    <2>3. Cardinality(Consumable(r)) = 1
        BY <2>2, FS_Singleton
    <2> QED
        BY <2>2, <2>3 DEF ReuseInv, HandedOn, FromCommitted
<1> QED
    BY <1>1, ReuseInvInit, ReuseInvNext, PTL DEF Spec

\* Every variable keeps its type: no cutoff makes a date before the calendar.
THEOREM ReuseTypes == Spec => []TypeOK
<1>1. ReuseInv => TypeOK
    BY DEF ReuseInv, Types, RunRecord, TypeOK
<1> QED
    BY <1>1, ReuseInvInit, ReuseInvNext, PTL DEF Spec
-----------------------------------------------------------------------------
(* Download tickets (redeemDownloadTicket in server/documents.ts).           *)

Pending(r) == redeem[r].at \in {"updated", "reading"}

\* The parts of the type invariant the argument needs.
TicketTypes ==
    /\ ticket \in [Tickets -> [at : {"none", "issued", "redeemed", "expired"}, of : Documents \cup {0}]]
    /\ redeem \in [Redeemers -> [at : {"idle", "updated", "reading"}, ticket : Tickets \cup {"none"}]]
    /\ served \in [Tickets -> {0, 1}]
    /\ \A r \in Redeemers : Pending(r) => redeem[r].ticket \in Tickets

\* At most one request is between its update and its bytes.
OneRedeemer ==
    \A r, q \in Redeemers : Pending(r) /\ Pending(q) /\ redeem[r].ticket = redeem[q].ticket => r = q

\* An update is of a ticket that is not redeemed yet, and a request that reads
\* has redeemed its ticket, whose bytes nobody has.
Redemption ==
    /\ \A r \in Redeemers : redeem[r].at = "updated" => ticket[redeem[r].ticket].at \in {"issued", "expired"}
    /\ \A r \in Redeemers : redeem[r].at = "reading" =>
          ticket[redeem[r].ticket].at = "redeemed" /\ served[redeem[r].ticket] = 0
    /\ \A t \in Tickets : served[t] = 1 => ticket[t].at = "redeemed"

TicketInv == TicketTypes /\ OneRedeemer /\ Redemption

\* The initial state satisfies the invariant.
LEMMA TicketInvInit == Library!Init => TicketInv
BY DEF Library!Init, TicketInv, TicketTypes, OneRedeemer, Redemption, Pending

\* Every request, failure and step of the clock keeps the invariant.
LEMMA TicketInvNext == TicketInv /\ [Library!Next]_(Library!vars) => TicketInv'
<1> SUFFICES ASSUME TicketInv, [Library!Next]_(Library!vars)
             PROVE  TicketInv'
    OBVIOUS
<1> USE DEF TicketInv, TicketTypes, OneRedeemer, Redemption, Pending
<1>1. ASSUME UNCHANGED <<ticket, redeem, served>> PROVE TicketInv'
    BY <1>1
<1>2. ASSUME NEW t \in Tickets, Library!IssueTicket(t) PROVE TicketInv'
    BY <1>2 DEF Library!IssueTicket, Library!Visible
<1>3. ASSUME NEW t \in Tickets, Library!ExpireTicket(t) PROVE TicketInv'
    BY <1>3 DEF Library!ExpireTicket
<1>4. ASSUME NEW t \in Tickets, NEW r \in Redeemers, Library!RedeemUpdate(r, t) PROVE TicketInv'
    BY <1>4 DEF Library!RedeemUpdate, Library!Redeemable, Library!RowFree
<1>5. ASSUME NEW r \in Redeemers, Library!RedeemCommit(r) PROVE TicketInv'
    BY <1>5 DEF Library!RedeemCommit
<1>6. ASSUME NEW r \in Redeemers, Library!RedeemRollback(r) PROVE TicketInv'
    BY <1>6 DEF Library!RedeemRollback
<1>7. ASSUME NEW r \in Redeemers, Library!ReadArtifact(r) PROVE TicketInv'
    BY <1>7 DEF Library!ReadArtifact
<1>8. CASE Library!Tick \/ Library!StartListing \/ Library!ListDocuments
    BY <1>8, <1>1 DEF Library!Tick, Library!StartListing, Library!ListDocuments
<1>9. ASSUME NEW d \in Documents,
             Library!StoreArtifact(d) \/ Library!InsertDocument(d) \/ Library!CommitDocument(d) \/
                 Library!AbandonDocument(d) \/ Library!TombstoneDocument(d)
      PROVE  TicketInv'
    BY <1>9, <1>1 DEF Library!StoreArtifact, Library!InsertDocument, Library!CommitDocument,
        Library!AbandonDocument, Library!TombstoneDocument
<1>10. CASE UNCHANGED Library!vars
    BY <1>10, <1>1 DEF Library!vars
<1> QED
    BY <1>2, <1>3, <1>4, <1>5, <1>6, <1>7, <1>8, <1>9, <1>10 DEF Library!Next

\* A ticket is single-use: whatever requests race for it, roll back or lose the
\* bytes, redeemDownloadTicket returns its bytes at most once.
THEOREM TicketServedOnce == Library!Spec => []ServedOnce
<1>1. TicketInv => ServedOnce
    BY DEF TicketInv, TicketTypes, ServedOnce, Library!ServedOnce
<1> QED
    BY <1>1, TicketInvInit, TicketInvNext, PTL DEF Library!Spec
-----------------------------------------------------------------------------
(* The pages of a listing (listDocuments).                                   *)

ListFields == IsFiniteSet(Documents) /\ Documents \subseteq Int /\ Limit \in Nat \ {0} /\ MaxTime \in Nat

DocumentTypes ==
    /\ clock \in 0..MaxTime
    /\ document \in [Documents -> [at : {"none", "stored", "open", "live", "abandoned"}, created : 0..MaxTime]]
    /\ deleted \subseteq Documents

ListingTypes ==
    listing \in [at : {"idle", "paging", "complete"}, before : [created : Nat, id : Int],
                 pages : Seq(SUBSET Documents), owed : SUBSET Documents]

\* A set of numbers that is not empty has a least one.
LEMMA Least ==
    ASSUME NEW S \in SUBSET Nat, S # {}
    PROVE  \E x \in S : \A y \in S : x <= y
<1> DEFINE R == OpToRel(<, Nat)
<1>1. IsWellFoundedOn(R, Nat)
    BY NatLessThanWellFounded, Zenon
<1>2. \A x, y \in Nat : x < y => <<x, y>> \in R
    BY DEF OpToRel
<1> HIDE DEF R
<1>3. PICK x \in S : \A y \in S : ~(<<y, x>> \in R)
    BY <1>1, WFMin
<1>4. \A y \in S : ~(y < x)
    BY <1>2, <1>3
<1> QED
    BY <1>3, <1>4

\* The documents are strictly ordered by creation time and id.
LEMMA DocumentOrder ==
    ASSUME ListFields, DocumentTypes
    PROVE  /\ \A d \in Documents : ~Library!Below(Library!Created(d), Library!Created(d))
           /\ \A d, e \in Documents : d # e => Library!Below(Library!Created(d), Library!Created(e)) \/
                  Library!Below(Library!Created(e), Library!Created(d))
           /\ \A d, e, f \in Documents :
                 Library!Below(Library!Created(d), Library!Created(e)) /\ Library!Below(Library!Created(e),
                     Library!Created(f)) => Library!Below(Library!Created(d), Library!Created(f))
<1>1. \A d \in Documents : document[d].created \in Int /\ d \in Int
    BY DEF ListFields, DocumentTypes
<1> QED
    BY <1>1 DEF Library!Below, Library!Created

\* A row lower in the order has more rows before it.
LEMMA AheadGrows ==
    ASSUME ListFields, DocumentTypes
    PROVE  /\ \A d \in Library!Rest : IsFiniteSet(Library!Ahead(d)) /\ Cardinality(Library!Ahead(d)) \in Nat
           /\ \A d, e \in Library!Rest : Library!Below(Library!Created(d), Library!Created(e)) =>
                  Cardinality(Library!Ahead(e)) < Cardinality(Library!Ahead(d))
<1>1. Library!Rest \in SUBSET Documents /\ IsFiniteSet(Library!Rest)
    <2>1. Library!Rest \in SUBSET Documents
        BY DEF Library!Rest, Library!Visible
    <2> QED
        BY <2>1, FS_Subset DEF ListFields
<1>2. ASSUME NEW d \in Library!Rest PROVE IsFiniteSet(Library!Ahead(d)) /\ Cardinality(Library!Ahead(d)) \in Nat
    <2>1. Library!Ahead(d) \in SUBSET Library!Rest
        BY DEF Library!Ahead
    <2> QED
        BY <1>1, <2>1, FS_Subset, FS_CardinalityType
<1>3. ASSUME NEW d \in Library!Rest, NEW e \in Library!Rest, Library!Below(Library!Created(d), Library!Created(e))
      PROVE  Cardinality(Library!Ahead(e)) < Cardinality(Library!Ahead(d))
    <2>1. e \notin Library!Ahead(e) /\ (Library!Ahead(e) \cup {e}) \in SUBSET Library!Ahead(d)
        BY <1>1, <1>3, DocumentOrder DEF Library!Ahead
    <2>2. IsFiniteSet(Library!Ahead(e) \cup {e}) /\
              Cardinality(Library!Ahead(e) \cup {e}) = Cardinality(Library!Ahead(e)) + 1
        BY <1>2, <2>1, FS_AddElement
    <2>3. Cardinality(Library!Ahead(e) \cup {e}) <= Cardinality(Library!Ahead(d))
        BY <1>2, <2>1, FS_Subset
    <2> QED
        BY <1>2, <2>2, <2>3
<1> QED
    BY <1>2, <1>3

\* A page that holds a row has a lowest one, and is no longer than the limit.
LEMMA PageHasLast ==
    ASSUME ListFields, DocumentTypes, Library!Page # {}
    PROVE  /\ Library!LastRow \in Library!Page
           /\ \A e \in Library!Page : ~Library!Below(Library!Created(e), Library!Created(Library!LastRow))
           /\ IsFiniteSet(Library!Page) /\ Cardinality(Library!Page) \in Nat /\ Cardinality(Library!Page) <= Limit
<1> DEFINE Rank(d) == Limit - Cardinality(Library!Ahead(d))
           S == {Rank(d) : d \in Library!Page}
<1>1. Library!Page \in SUBSET Library!Rest /\ Library!Rest \in SUBSET Documents /\ Limit \in Nat
    BY DEF Library!Page, Library!Rest, Library!Visible, ListFields
<1>2. \A d \in Library!Page : Cardinality(Library!Ahead(d)) \in Nat /\ Cardinality(Library!Ahead(d)) < Limit
    BY <1>1, AheadGrows, LibrarySize DEF Library!Page
<1>3. S \in SUBSET Nat /\ S # {}
    BY <1>1, <1>2
<1>4. PICK x \in Library!Page : \A d \in Library!Page : Rank(x) <= Rank(d)
    <2>1. PICK n \in S : \A m \in S : n <= m
        BY <1>3, Least
    <2> QED
        BY <2>1
<1>5. \A e \in Library!Page : ~Library!Below(Library!Created(e), Library!Created(x))
    <2>1. SUFFICES ASSUME NEW e \in Library!Page, Library!Below(Library!Created(e), Library!Created(x)) PROVE FALSE
        OBVIOUS
    <2>2. Cardinality(Library!Ahead(x)) < Cardinality(Library!Ahead(e))
        BY <1>1, <2>1, AheadGrows
    <2> QED
        BY <1>1, <1>2, <1>4, <2>2
<1>6. Library!LastRow \in Library!Page /\ \A e \in Library!Page : ~Library!Below(Library!Created(e),
          Library!Created(Library!LastRow))
    BY <1>5 DEF Library!LastRow
<1>7. Library!Page \in SUBSET (Library!Ahead(x) \cup {x})
    BY <1>1, <1>5, DocumentOrder DEF Library!Ahead
<1>8. /\ IsFiniteSet(Library!Ahead(x) \cup {x})
      /\ Cardinality(Library!Ahead(x) \cup {x}) = Cardinality(Library!Ahead(x)) \/
             Cardinality(Library!Ahead(x) \cup {x}) = Cardinality(Library!Ahead(x)) + 1
    BY <1>1, AheadGrows, FS_AddElement
<1>9. IsFiniteSet(Library!Page) /\ Cardinality(Library!Page) <= Cardinality(Library!Ahead(x) \cup {x})
    BY <1>7, <1>8, FS_Subset
<1>10. Cardinality(Library!Page) \in Nat
    BY <1>9, FS_CardinalityType
<1> QED
    BY <1>1, <1>2, <1>6, <1>8, <1>9, <1>10

\* A page that is not full holds all that is left; below a full one lies the rest.
LEMMA PageMeaning ==
    ASSUME ListFields, DocumentTypes
    PROVE  /\ Cardinality(Library!Page) # Limit => Library!Page = Library!Rest
           /\ Cardinality(Library!Page) = Limit =>
                 /\ Library!LastRow \in Library!Page
                 /\ \A e \in Library!Page : ~Library!Below(Library!Created(e), Library!Created(Library!LastRow))
                 /\ \A d \in Library!Rest \ Library!Page : Library!Below(Library!Created(d),
                        Library!Created(Library!LastRow))
<1>1. Library!Page \in SUBSET Library!Rest /\ Library!Rest \in SUBSET Documents /\ Limit \in Nat \ {0}
    BY DEF Library!Page, Library!Rest, Library!Visible, ListFields
<1>2. ASSUME Library!Page # Library!Rest PROVE Cardinality(Library!Page) = Limit
    <2> DEFINE S == {Cardinality(Library!Ahead(d)) : d \in Library!Rest \ Library!Page}
    <2>1. S \in SUBSET Nat /\ S # {}
        BY <1>1, <1>2, AheadGrows
    <2>2. PICK d \in Library!Rest \ Library!Page : \A e \in Library!Rest \ Library!Page :
              Cardinality(Library!Ahead(d)) <= Cardinality(Library!Ahead(e))
        <3>1. PICK n \in S : \A m \in S : n <= m
            BY <2>1, Least
        <3> QED
            BY <3>1
    <2>3. Cardinality(Library!Ahead(d)) \in Nat /\ Cardinality(Library!Ahead(d)) >= Limit
        BY <1>1, <2>2, AheadGrows, LibrarySize DEF Library!Page
    <2>4. Library!Ahead(d) \in SUBSET Library!Page
        <3>1. SUFFICES ASSUME NEW e \in Library!Ahead(d), e \notin Library!Page PROVE FALSE
            OBVIOUS
        <3>2. e \in Library!Rest /\ Library!Below(Library!Created(d), Library!Created(e))
            BY <3>1 DEF Library!Ahead
        <3>3. Cardinality(Library!Ahead(e)) < Cardinality(Library!Ahead(d)) /\ Cardinality(Library!Ahead(e)) \in Nat
            BY <2>2, <3>2, AheadGrows
        <3> QED
            BY <2>2, <2>3, <3>1, <3>2, <3>3
    <2>5. Library!Page # {}
        <3>1. Cardinality(Library!Ahead(d)) # 0
            BY <1>1, <2>3
        <3>2. Library!Ahead(d) # {}
            BY <3>1, FS_EmptySet
        <3> QED
            BY <2>4, <3>2
    <2>6. IsFiniteSet(Library!Page) /\ Cardinality(Library!Page) \in Nat /\ Cardinality(Library!Page) <= Limit
        BY <2>5, PageHasLast
    <2>7. Cardinality(Library!Ahead(d)) <= Cardinality(Library!Page)
        BY <2>4, <2>6, FS_Subset
    <2> QED
        BY <1>1, <2>3, <2>6, <2>7
<1>3. ASSUME Cardinality(Library!Page) = Limit
      PROVE  /\ Library!LastRow \in Library!Page
             /\ \A e \in Library!Page : ~Library!Below(Library!Created(e), Library!Created(Library!LastRow))
             /\ \A d \in Library!Rest \ Library!Page : Library!Below(Library!Created(d),
                    Library!Created(Library!LastRow))
    <2>1. Library!Page # {}
        BY <1>1, <1>3, FS_EmptySet
    <2>2. Library!LastRow \in Library!Page /\ \A e \in Library!Page : ~Library!Below(Library!Created(e),
              Library!Created(Library!LastRow))
        BY <2>1, PageHasLast
    <2>3. ASSUME NEW d \in Library!Rest \ Library!Page
          PROVE Library!Below(Library!Created(d), Library!Created(Library!LastRow))
        <3>1. Cardinality(Library!Ahead(Library!LastRow)) < Limit /\ ~(Cardinality(Library!Ahead(d)) < Limit)
            BY <1>1, <2>2, <2>3, LibrarySize DEF Library!Page
        <3>2. ~Library!Below(Library!Created(Library!LastRow), Library!Created(d))
            BY <1>1, <2>2, <2>3, <3>1, AheadGrows
        <3> QED
            BY <1>1, <2>2, <2>3, <3>2, DocumentOrder
    <2> QED
        BY <2>2, <2>3
<1> QED
    BY <1>2, <1>3

PageIds == 1..Len(listing.pages)
Listed(d) == \E i \in PageIds : d \in listing.pages[i]

\* What is listed lies at the cursor or above it, so that no later page repeats
\* it; what is owed and not listed lies below it, unless it was deleted.
ListInv ==
    /\ DocumentTypes /\ ListingTypes
    /\ \A i, j \in PageIds : i # j => listing.pages[i] \cap listing.pages[j] = {}
    /\ \A d \in Documents : Listed(d) =>
          document[d].at = "live" /\ (listing.at = "paging" => ~Library!Below(Library!Created(d), listing.before))
    /\ \A d \in listing.owed :
          /\ document[d].at = "live"
          /\ Listed(d) \/ (listing.at = "paging" /\ (d \in deleted \/ Library!Below(Library!Created(d),
                 listing.before)))

LEMMA ListInvInit == ASSUME ListFields PROVE Library!Init => ListInv
BY DEF ListFields, Library!Init, ListInv, DocumentTypes, ListingTypes, Library!NoCursor, Listed, PageIds

\* A live document keeps its date, and a tombstone stays.
LEMMA ListInvOther ==
    ASSUME ListInv, DocumentTypes', listing' = listing, deleted \subseteq deleted',
           \A d \in Documents : document[d].at = "live" => document'[d] = document[d]
    PROVE  ListInv'
<1>1. ListingTypes'
    BY DEF ListInv, ListingTypes
<1>2. \A d \in Documents : Listed(d)' <=> Listed(d)
    BY DEF Listed, PageIds
<1>3. \A i, j \in PageIds' : i # j => listing'.pages[i] \cap listing'.pages[j] = {}
    BY DEF ListInv, PageIds
<1>4. \A d \in Documents : document[d].at = "live" => document'[d].at = "live" /\
          Library!Created(d)' = Library!Created(d)
    BY DEF Library!Created
<1>5. \A d \in Documents : Listed(d)' =>
          document'[d].at = "live" /\ (listing'.at = "paging" => ~Library!Below(Library!Created(d)', listing'.before))
    BY <1>2, <1>4 DEF ListInv
<1>6. \A d \in listing'.owed :
          /\ document'[d].at = "live"
          /\ Listed(d)' \/ (listing'.at = "paging" /\ (d \in deleted' \/ Library!Below(Library!Created(d)',
                 listing'.before)))
    <2>1. \A d \in listing.owed : d \in Documents
        BY DEF ListInv, ListingTypes
    <2> QED
        BY <1>2, <1>4, <2>1 DEF ListInv
<1> QED
    BY <1>1, <1>3, <1>5, <1>6 DEF ListInv, Library!Below

\* A listing begins above every document: it owes what it sees.
LEMMA ListInvStart ==
    ASSUME ListFields, ListInv, Library!StartListing
    PROVE  ListInv'
<1>1. /\ listing' = [at |-> "paging", before |-> Library!NoCursor, pages |-> <<>>, owed |-> Library!Visible]
      /\ UNCHANGED <<clock, document, deleted>>
    BY DEF Library!StartListing
<1>2. DocumentTypes' /\ ListingTypes'
    BY <1>1 DEF ListInv, DocumentTypes, ListingTypes, Library!NoCursor, Library!Visible, ListFields
<1>3. \A d \in Documents : ~Listed(d)'
    BY <1>1 DEF Listed, PageIds
<1>4. \A d \in Library!Visible : document[d].at = "live" /\ Library!Below(Library!Created(d), Library!NoCursor)
    <2>1. \A d \in Library!Visible : document[d].at = "live" /\ document[d].created \in 0..MaxTime
        BY DEF ListInv, DocumentTypes, Library!Visible
    <2>2. \A k \in 0..MaxTime : k < MaxTime + 1
        BY DEF ListFields
    <2> QED
        BY <2>1, <2>2 DEF Library!Below, Library!Created, Library!NoCursor
<1> QED
    BY <1>1, <1>2, <1>3, <1>4 DEF ListInv, PageIds, Library!Created, Library!Below

\* A page is appended and the cursor goes to its last row.
LEMMA ListInvPage ==
    ASSUME ListFields, ListInv, Library!ListDocuments
    PROVE  ListInv'
<1> DEFINE n == Len(listing.pages)
           full == Cardinality(Library!Page) = Limit
<1>1. /\ DocumentTypes /\ ListingTypes /\ UNCHANGED <<clock, document, deleted>> /\ listing.at = "paging"
      /\ n \in Nat /\ listing.pages \in Seq(SUBSET Documents)
    BY DEF ListInv, Library!ListDocuments, ListingTypes
<1>2. /\ listing'.at = IF full THEN "paging" ELSE "complete"
      /\ listing'.before = IF full THEN Library!Cursor(Library!LastRow) ELSE Library!NoCursor
      /\ listing'.pages = Append(listing.pages, Library!Page)
      /\ listing'.owed = listing.owed \ deleted
    BY <1>1, LibrarySize DEF Library!ListDocuments, ListingTypes
<1>3. Library!Page \in SUBSET Library!Rest /\ Library!Rest \in SUBSET Documents /\
          Library!Rest = {d \in Library!Visible : Library!Below(Library!Created(d), listing.before)}
    BY DEF Library!Page, Library!Rest, Library!Visible
<1>4. /\ ~full => Library!Page = Library!Rest
      /\ full => /\ Library!LastRow \in Library!Page
                 /\ \A e \in Library!Page : ~Library!Below(Library!Created(e), Library!Created(Library!LastRow))
                 /\ \A d \in Library!Rest \ Library!Page : Library!Below(Library!Created(d),
                        Library!Created(Library!LastRow))
    BY <1>1, PageMeaning
<1>5. \A d \in Documents : document[d].created \in Nat /\ d \in Int
    BY <1>1 DEF DocumentTypes, ListFields
<1> HIDE DEF full
<1>6. /\ Len(listing'.pages) = n + 1 /\ listing'.pages[n + 1] = Library!Page /\ listing'.pages \in Seq(SUBSET Documents)
      /\ \A i \in 1..n : listing'.pages[i] = listing.pages[i]
    BY <1>1, <1>2, <1>3
<1>7. DocumentTypes' /\ ListingTypes'
    <2>1. full => Library!Cursor(Library!LastRow) \in [created : Nat, id : Int]
        BY <1>3, <1>4, <1>5 DEF Library!Cursor, Library!Created
    <2>2. Library!NoCursor \in [created : Nat, id : Int]
        BY DEF Library!NoCursor, ListFields
    <2>3. DocumentTypes'
        BY <1>1 DEF DocumentTypes
    <2>4. listing' = [at |-> listing'.at, before |-> listing'.before, pages |-> listing'.pages, owed |-> listing'.owed]
        BY <1>1, LibrarySize DEF Library!ListDocuments, ListingTypes
    <2> HIDE DEF n
    <2> QED
        BY <1>1, <1>2, <1>6, <2>1, <2>2, <2>3, <2>4 DEF ListingTypes
<1>8. \A d \in Documents : Listed(d)' <=> Listed(d) \/ d \in Library!Page
    BY <1>1, <1>6 DEF Listed, PageIds
<1>9. \A d \in Library!Page : ~Listed(d) /\ document[d].at = "live" /\ d \in Documents
    BY <1>1, <1>3 DEF ListInv, Library!Visible
<1>10. \A i, j \in PageIds' : i # j => listing'.pages[i] \cap listing'.pages[j] = {}
    <2>1. ASSUME NEW i \in 1..n, NEW j \in 1..n, i # j PROVE listing'.pages[i] \cap listing'.pages[j] = {}
        BY <1>6, <2>1 DEF ListInv, PageIds
    <2>2. ASSUME NEW i \in 1..n PROVE listing'.pages[i] \cap listing'.pages[n + 1] = {}
        BY <1>6, <1>9, <2>2 DEF Listed, PageIds
    <2>3. PageIds' = 1..(n + 1)
        BY <1>6 DEF PageIds
    <2> HIDE DEF n
    <2> QED
        BY <1>1, <2>1, <2>2, <2>3
<1>11. ASSUME NEW d \in Documents, Listed(d)'
       PROVE  document[d].at = "live" /\ (full => ~Library!Below(Library!Created(d), Library!Created(Library!LastRow)))
    <2>1. CASE d \in Library!Page
        BY <1>4, <1>9, <2>1
    <2>2. CASE Listed(d)
        <3>1. document[d].at = "live" /\ ~Library!Below(Library!Created(d), listing.before)
            BY <1>1, <2>2 DEF ListInv
        <3>2. full => Library!Below(Library!Created(Library!LastRow), listing.before)
            BY <1>3, <1>4
        <3>3. full => ~Library!Below(Library!Created(d), Library!Created(Library!LastRow))
            <4>1. listing.before.created \in Nat /\ listing.before.id \in Int
                BY <1>1 DEF ListingTypes
            <4> QED
                BY <1>3, <1>4, <1>5, <3>1, <3>2, <4>1 DEF Library!Below, Library!Created
        <3> QED
            BY <3>1, <3>3
    <2> QED
        BY <1>8, <1>11, <2>1, <2>2
<1>12. ASSUME NEW d \in listing.owed, d \notin deleted
       PROVE  document[d].at = "live" /\ (Listed(d)' \/ (full /\ Library!Below(Library!Created(d),
           Library!Created(Library!LastRow))))
    <2>1. d \in Documents /\ document[d].at = "live" /\ (Listed(d) \/ Library!Below(Library!Created(d), listing.before))
        BY <1>1, <1>12 DEF ListInv, ListingTypes
    <2>2. d \in Library!Visible
        BY <1>12, <2>1 DEF Library!Visible
    <2>3. CASE Listed(d)
        BY <1>8, <2>1, <2>3
    <2>4. CASE d \in Library!Page
        BY <1>8, <2>1, <2>4
    <2>5. CASE ~Listed(d) /\ d \notin Library!Page
        <3>1. d \in Library!Rest \ Library!Page
            BY <1>3, <2>1, <2>2, <2>5
        <3> QED
            BY <1>4, <2>1, <3>1
    <2> QED
        BY <2>3, <2>4, <2>5
<1>13. \A d \in Documents : Library!Created(d)' = Library!Created(d)
    BY <1>1 DEF Library!Created
<1>14. \A d \in Documents : Listed(d)' =>
          document'[d].at = "live" /\ (listing'.at = "paging" => ~Library!Below(Library!Created(d)', listing'.before))
    BY <1>1, <1>2, <1>11, <1>13 DEF Library!Cursor
<1>15. \A d \in listing'.owed :
          /\ document'[d].at = "live"
          /\ Listed(d)' \/ (listing'.at = "paging" /\ (d \in deleted' \/ Library!Below(Library!Created(d)',
                 listing'.before)))
    <2>1. \A d \in listing'.owed : d \in Documents /\ d \in listing.owed /\ d \notin deleted
        BY <1>1, <1>2 DEF ListingTypes
    <2> QED
        BY <1>1, <1>2, <1>12, <1>13, <2>1 DEF Library!Cursor
<1> QED
    BY <1>7, <1>10, <1>14, <1>15 DEF ListInv, Library!Below

LEMMA ListInvNext == ASSUME ListFields PROVE ListInv /\ [Library!Next]_(Library!vars) => ListInv'
<1> SUFFICES ASSUME ListInv, [Library!Next]_(Library!vars) PROVE ListInv'
    OBVIOUS
<1>1. DocumentTypes
    BY DEF ListInv
<1>2. CASE Library!Tick
    <2>1. DocumentTypes' /\ UNCHANGED <<document, deleted, listing>>
        BY <1>1, <1>2 DEF Library!Tick, DocumentTypes, ListFields
    <2> QED
        BY <2>1, ListInvOther
<1>3. ASSUME NEW d \in Documents,
             Library!StoreArtifact(d) \/ Library!InsertDocument(d) \/ Library!CommitDocument(d) \/
                 Library!AbandonDocument(d) \/ Library!TombstoneDocument(d)
      PROVE  ListInv'
    <2>1. DocumentTypes'
        BY <1>1, <1>3 DEF DocumentTypes, Library!StoreArtifact, Library!InsertDocument, Library!CommitDocument,
            Library!AbandonDocument, Library!TombstoneDocument,
            ListFields
    <2>2. listing' = listing /\ deleted \subseteq deleted' /\ \A e \in Documents : document[e].at = "live" =>
              document'[e] = document[e]
        BY <1>1, <1>3 DEF DocumentTypes, Library!StoreArtifact, Library!InsertDocument, Library!CommitDocument,
            Library!AbandonDocument, Library!TombstoneDocument
    <2> QED
        BY <2>1, <2>2, ListInvOther
<1>4. CASE UNCHANGED <<clock, document, deleted, listing>>
    <2>1. DocumentTypes'
        BY <1>1, <1>4 DEF DocumentTypes
    <2> QED
        BY <1>4, <2>1, ListInvOther
<1>5. ASSUME NEW t \in Tickets, Library!IssueTicket(t) \/ Library!ExpireTicket(t) \/ \E r \in Redeemers :
          Library!RedeemUpdate(r, t)
      PROVE ListInv'
    BY <1>4, <1>5 DEF Library!IssueTicket, Library!ExpireTicket, Library!RedeemUpdate
<1>6. ASSUME NEW r \in Redeemers, Library!RedeemCommit(r) \/ Library!RedeemRollback(r) \/ Library!ReadArtifact(r)
      PROVE ListInv'
    BY <1>4, <1>6 DEF Library!RedeemCommit, Library!RedeemRollback, Library!ReadArtifact
<1>7. CASE UNCHANGED Library!vars
    BY <1>4, <1>7 DEF Library!vars
<1> QED
    BY <1>2, <1>3, <1>5, <1>6, <1>7, ListInvStart, ListInvPage DEF Library!Next

\* "pagination could skip or repeat rows" (#470): for any number of documents, any
\* limit of a page and any creations and deletions between two pages, the pages
\* of a listing hold none twice and miss none that was there at its start and
\* was not deleted before its end.
THEOREM PagesSkipNothing == Library!Spec => []PagesComplete
<1>1. ListInv => PagesComplete
    BY DEF ListInv, PagesComplete, Library!PagesComplete, Listed, PageIds
<1>2. ListFields
    BY DocumentsAssumption DEF ListFields
<1>3. (Library!Init => ListInv) /\ (ListInv /\ [Library!Next]_(Library!vars) => ListInv')
    BY <1>2, ListInvInit, ListInvNext
<1> QED
    BY <1>1, <1>3, PTL DEF Library!Spec
-----------------------------------------------------------------------------
(* A logical call of the model provider (sources/llm.py).                    *)

\* The fields of the policy and the waits are numbers.
PolicyInNat ==
    /\ Deadline \in Nat /\ Window \in Nat /\ MaxAttempts \in Nat \ {0}
    /\ \A n \in 1..MaxAttempts : Call!BaseBackoff(n) \in Nat
    /\ \A n \in 1..MaxAttempts : \A wait \in Call!Waits(n) : wait \in Nat /\ Call!BaseBackoff(n) <= wait

LEMMA PolicyHolds == PolicyInNat
<1>1. \A n \in 1..MaxAttempts : \A wait \in Call!Waits(n) : wait \in Nat /\ Call!BaseBackoff(n) <= wait
    BY PolicyAssumption DEF Call!Waits
<1>2. MaxAttempts # 0
    BY RetrySpecAssumption, PolicyAssumption DEF Call!RetrySpecValid
<1> QED
    BY <1>1, <1>2, PolicyAssumption DEF PolicyInNat

\* The first retries have waited this long, at least.
Total(n) == Call!BaseTotal[n]

Answer == {"none", "answer", "terminal", "transient", "refused", "raised"}

CallState == [at : Call!Places, attempts : Nat, started : Nat, wake : Nat, last : Answer]

\* How long a call has tried at least, and how long it may still be where it is,
\* at time t; it is in an attempt.
InTime(x, t) ==
    /\ x.at \notin {"idle", "ended"} => x.attempts \in 1..MaxAttempts /\ x.started + Total(x.attempts - 1) <= t
    /\ x.at = "backoff" => x.attempts < MaxAttempts /\ x.started + Total(x.attempts) <= x.wake
    /\ x.at \in {"slot", "lock", "window", "room"} => t <= x.started + Deadline
    /\ x.at \in {"asleep", "backoff"} => t <= x.wake /\ x.wake <= x.started + Deadline
    /\ x.at = "sending" => x.wake <= x.started + Deadline

CallInv ==
    /\ now \in Nat
    /\ call \in [Callers -> CallState]
    /\ \A c \in Callers : InTime(call[c], now)

\* What holds at 0, and at a number when it holds one before, holds up to n: S is
\* the set of the numbers for which it holds.
LEMMA UpTo ==
    ASSUME NEW n \in Nat, NEW S, 0 \in S, \A d \in 1..n : d - 1 \in S => d \in S
    PROVE  \A d \in 0..n : d \in S
<1> DEFINE B == {d \in 0..n : d \notin S}
<1>1. SUFFICES ASSUME B # {} PROVE FALSE
    OBVIOUS
<1>2. PICK x \in B : \A y \in B : x <= y
    <2>1. B \in SUBSET Nat
        OBVIOUS
    <2> QED
        BY <1>1, <2>1, Least
<1>3. x \in 1..n /\ x - 1 \in 0..n /\ x - 1 \notin B
    BY <1>2
<1> QED
    BY <1>2, <1>3

\* The recursion of base_total_wait_seconds has a solution.
LEMMA TotalIs ==
    ASSUME PolicyInNat
    PROVE  /\ Total(0) = 0
           /\ \A n \in 1..(MaxAttempts - 1) : Total(n) = Total(n - 1) + Call!BaseBackoff(n)
           /\ \A n \in 0..(MaxAttempts - 1) : Total(n) \in Nat
<1> DEFINE m == MaxAttempts - 1
           Sums(j, w) == w = [n \in 0..j |-> IF n = 0 THEN 0 ELSE w[n - 1] + Call!BaseBackoff(n)]
           S == {j \in Nat : \E w : Sums(j, w)}
<1>1. m \in Nat
    BY DEF PolicyInNat
<1>2. 0 \in S
    <2> DEFINE w == [n \in 0..0 |-> 0]
    <2>1. Sums(0, w)
        OBVIOUS
    <2> QED
        BY <2>1
<1>3. ASSUME NEW j \in 1..m, j - 1 \in S PROVE j \in S
    <2>1. PICK w : Sums(j - 1, w)
        BY <1>3
    <2> DEFINE x == [n \in 0..j |-> IF n = j THEN w[j - 1] + Call!BaseBackoff(j) ELSE w[n]]
    <2>2. j \in Nat /\ j # 0 /\ j - 1 \in 0..(j - 1) /\ \A n \in 0..(j - 1) : n \in 0..j /\ n # j
        BY <1>1, <1>3
    <2>3. \A n \in 0..(j - 1) : x[n] = w[n]
        BY <2>2
    <2>4. \A n \in 0..j : x[n] = IF n = 0 THEN 0 ELSE x[n - 1] + Call!BaseBackoff(n)
        <3>1. SUFFICES ASSUME NEW n \in 0..j PROVE x[n] = IF n = 0 THEN 0 ELSE x[n - 1] + Call!BaseBackoff(n)
            OBVIOUS
        <3>2. CASE n = j
            BY <2>2, <2>3, <3>2
        <3>3. CASE n # j
            <4>1. n \in 0..(j - 1) /\ (n # 0 => n - 1 \in 0..(j - 1))
                BY <2>2, <3>1, <3>3
            <4>2. w[n] = IF n = 0 THEN 0 ELSE w[n - 1] + Call!BaseBackoff(n)
                BY <2>1, <4>1
            <4> QED
                BY <2>3, <4>1, <4>2
        <3> QED
            BY <3>2, <3>3
    <2>5. Sums(j, x)
        BY <2>4
    <2> QED
        BY <2>2, <2>5
<1>4. m \in S
    <2> HIDE DEF S, m
    <2>1. \A d \in 0..m : d \in S
        BY <1>1, <1>2, <1>3, UpTo
    <2> QED
        BY <1>1, <2>1
<1>5. Call!BaseTotal = CHOOSE w : Sums(m, w)
    BY DEF Call!BaseTotal
<1>6. Sums(m, Call!BaseTotal)
    BY <1>4, <1>5
<1> HIDE DEF m
<1>7. \A n \in 0..m : Total(n) = IF n = 0 THEN 0 ELSE Total(n - 1) + Call!BaseBackoff(n)
    BY <1>6 DEF Total
<1>8. Total(0) = 0 /\ \A n \in 1..m : Total(n) = Total(n - 1) + Call!BaseBackoff(n)
    <2>1. 0 \in 0..m /\ \A n \in 1..m : n \in 0..m /\ n # 0
        BY <1>1
    <2> QED
        BY <1>7, <2>1
<1>9. \A n \in 0..m : Total(n) \in Nat
    <2> DEFINE T == {n \in 0..m : Total(n) \in Nat}
    <2>1. 0 \in T
        BY <1>1, <1>8
    <2>2. \A n \in 1..m : n - 1 \in T => n \in T
        <3>1. \A n \in 1..m : Call!BaseBackoff(n) \in Nat /\ n \in 0..m
            BY <1>1 DEF PolicyInNat, m
        <3> QED
            BY <1>8, <3>1
    <2> HIDE DEF T
    <2>3. \A n \in 0..m : n \in T
        BY <1>1, <2>1, <2>2, UpTo
    <2> QED
        BY <2>3 DEF T
<1> QED
    BY <1>8, <1>9 DEF m

\* No call has started in the initial state.
LEMMA CallInvInit == Call!Init => CallInv
BY DEF Call!Init, CallInv, CallState, Answer, InTime, Call!At, Call!Places

\* What a step of one call has to show: that call stays in time.
LEMMA OneCall ==
    ASSUME CallInv, now' = now, NEW c \in Callers,
           NEW at \in Call!Places, NEW n \in Nat, NEW s \in Nat, NEW w \in Nat, NEW a \in Answer,
           InTime(Call!At(at, n, s, w, a), now),
           call' = [call EXCEPT ![c] = Call!At(at, n, s, w, a)]
    PROVE  CallInv'
<1>1. Call!At(at, n, s, w, a) \in CallState
    BY DEF Call!At, CallState
<1> HIDE DEF Call!At
<1>2. call' \in [Callers -> CallState]
    BY <1>1 DEF CallInv
<1>3. ASSUME NEW d \in Callers PROVE InTime(call'[d], now')
    BY DEF CallInv
<1> QED
    BY <1>2, <1>3 DEF CallInv

\* A call that has ended is in time.
LEMMA OneEnds ==
    ASSUME CallInv, now' = now, NEW c \in Callers, NEW last \in Answer, call' = [call EXCEPT ![c] = Call!Ended(last)]
    PROVE  CallInv'
<1>1. InTime(Call!At("ended", 0, 0, 0, last), now)
    BY DEF InTime, Call!At
<1>2. "ended" \in Call!Places
    BY DEF Call!Places
<1> QED
    BY <1>1, <1>2, OneCall DEF Call!Ended

\* So is one that capacity has refused.
LEMMA OneRefused ==
    ASSUME CallInv, now' = now, NEW c \in Callers, call' = [call EXCEPT ![c] = Call!Refused(c)]
    PROVE  CallInv'
<1>1. (IF call[c].last = "none" THEN "refused" ELSE call[c].last) \in Answer
    BY DEF CallInv, CallState, Answer
<1> QED
    BY <1>1, OneEnds DEF Call!Refused

\* A call goes on with its attempt, in time where it goes.
LEMMA OneGoes ==
    ASSUME CallInv, now' = now, NEW c \in Callers, NEW at \in Call!Places, NEW w \in Nat, Call!Goto(c, at, w),
           InTime(Call!At(at, call[c].attempts, call[c].started, w, call[c].last), now)
    PROVE  CallInv'
<1>1. call[c].attempts \in Nat /\ call[c].started \in Nat /\ call[c].last \in Answer
    BY DEF CallInv, CallState
<1>2. call' = [call EXCEPT ![c] = Call!At(at, call[c].attempts, call[c].started, w, call[c].last)]
    BY DEF Call!Goto
<1> QED
    BY <1>1, <1>2, OneCall

\* A step of one call, and the clock, keep every call in time.
LEMMA CallInvNext == PolicyInNat /\ CallInv /\ [Call!Next]_(Call!vars) => CallInv'
<1> SUFFICES ASSUME PolicyInNat, CallInv, [Call!Next]_(Call!vars)
             PROVE  CallInv'
    OBVIOUS
<1>a. /\ now \in Nat /\ Deadline \in Nat
      /\ \A c \in Callers : call[c] \in CallState /\ InTime(call[c], now)
    BY DEF PolicyInNat, CallInv
<1>1. ASSUME NEW c \in Callers, Call!Start(c) PROVE CallInv'
  <2>1. InTime(Call!At("slot", 1, now, 0, "none"), now)
    <3>1. 1 \in 1..MaxAttempts /\ now + Total(1 - 1) <= now
      BY <1>a, TotalIs DEF PolicyInNat
    <3> QED
      BY <1>a, <3>1 DEF InTime, Call!At
  <2>2. "slot" \in Call!Places /\ "none" \in Answer
    BY DEF Call!Places, Answer
  <2> QED
    BY <1>1, <1>a, <2>1, <2>2, OneCall DEF Call!Start
<1>2. ASSUME NEW c \in Callers, Call!AcquireSlot(c) PROVE CallInv'
  <2>1. InTime(Call!At("lock", call[c].attempts, call[c].started, 0, call[c].last), now) /\ "lock" \in Call!Places
    BY <1>2, <1>a DEF Call!AcquireSlot, InTime, Call!At, Call!Places
  <2> QED
    BY <1>2, <2>1, OneGoes, OneRefused DEF Call!AcquireSlot
<1>3. ASSUME NEW c \in Callers, Call!AcquireLock(c) PROVE CallInv'
  <2>1. InTime(Call!At("window", call[c].attempts, call[c].started, 0, call[c].last), now) /\ "window" \in Call!Places
    BY <1>3, <1>a DEF Call!AcquireLock, InTime, Call!At, Call!Places
  <2> QED
    BY <1>3, <2>1, OneGoes, OneRefused DEF Call!AcquireLock
<1>4. ASSUME NEW c \in Callers, Call!Queue(c) PROVE CallInv'
  <2>1. PICK wait \in 0..Window :
          \/ wait = 0 /\ Call!Goto(c, "room", 0)
          \/ call' = [call EXCEPT ![c] = Call!Refused(c)]
          \/ ~(now + wait > Call!WindowLimit(c)) /\ Call!Goto(c, "asleep", now + wait)
    BY <1>4 DEF Call!Queue
  <2>2. wait \in Nat /\ now + wait \in Nat /\ now' = now /\ "room" \in Call!Places /\ "asleep" \in Call!Places
    BY <1>4, <1>a DEF Call!Queue, PolicyInNat, Call!Places
  <2>3. InTime(Call!At("room", call[c].attempts, call[c].started, 0, call[c].last), now)
    BY <1>4, <1>a DEF Call!Queue, InTime, Call!At
  <2>4. ~(now + wait > Call!WindowLimit(c))
        => InTime(Call!At("asleep", call[c].attempts, call[c].started, now + wait, call[c].last), now)
    BY <1>4, <1>a, <2>2 DEF Call!Queue, InTime, Call!At, Call!WindowLimit, Call!DeadlineOf, CallState
  <2> QED
    BY <2>1, <2>2, <2>3, <2>4, OneGoes, OneRefused
<1>5. ASSUME NEW c \in Callers, Call!Awake(c) PROVE CallInv'
  <2>1. InTime(Call!At("window", call[c].attempts, call[c].started, 0, call[c].last), now) /\ "window" \in Call!Places
    BY <1>5, <1>a DEF Call!Awake, InTime, Call!At, Call!Places, CallState
  <2> QED
    BY <1>5, <2>1, OneGoes DEF Call!Awake
<1>6. ASSUME NEW c \in Callers, Call!Send(c) PROVE CallInv'
  <2>1. InTime(Call!At("sending", call[c].attempts, call[c].started, now, call[c].last), now) /\ "sending" \in Call!Places
    BY <1>6, <1>a DEF Call!Send, InTime, Call!At, Call!Places, CallState
  <2> QED
    BY <1>6, <1>a, <2>1, OneGoes DEF Call!Send
<1>7. ASSUME NEW c \in Callers, Call!Broken(c) PROVE CallInv'
  <2>1. "raised" \in Answer
    BY DEF Answer
  <2> QED
    BY <1>7, <2>1, OneEnds DEF Call!Broken
<1>8. ASSUME NEW c \in Callers, Call!Answered(c) PROVE CallInv'
  <2> DEFINE n == call[c].attempts
  <2>1. PICK answer \in {"answer", "terminal", "transient"}, wait \in Call!Waits(call[c].attempts) :
          call' = [call EXCEPT ![c] =
             IF answer # "transient" \/ Call!LastAttempt(c) \/ Call!Elapsed(c) + wait > Deadline
             THEN Call!Ended(answer)
             ELSE Call!At("backoff", call[c].attempts, call[c].started, now + wait, answer)]
    BY <1>8 DEF Call!Answered
  <2>2. /\ wait \in Nat /\ Call!BaseBackoff(n) <= wait /\ n \in 1..MaxAttempts /\ n \in Nat
        /\ call[c].started \in Nat /\ answer \in Answer /\ now' = now /\ call[c].started + Total(n - 1) <= now
    <3>1. n \in 1..MaxAttempts /\ n \in Nat /\ call[c].started \in Nat /\ call[c].started + Total(n - 1) <= now
      BY <1>8, <1>a DEF Call!Answered, CallState, InTime
    <3> QED
      BY <1>8, <3>1 DEF PolicyInNat, Answer, Call!Answered
  <2>3. CASE answer # "transient" \/ Call!LastAttempt(c) \/ Call!Elapsed(c) + wait > Deadline
    BY <2>1, <2>2, <2>3, OneEnds
  <2>4. CASE ~(answer # "transient" \/ Call!LastAttempt(c) \/ Call!Elapsed(c) + wait > Deadline)
    <3>0. n < MaxAttempts /\ call[c].started + Total(n) <= now + wait
      <4>1. n < MaxAttempts /\ n \in 1..(MaxAttempts - 1) /\ n - 1 \in 0..(MaxAttempts - 1)
        BY <2>2, <2>4 DEF Call!LastAttempt, PolicyInNat
      <4>2. Total(n) = Total(n - 1) + Call!BaseBackoff(n) /\ Total(n - 1) \in Nat /\ Call!BaseBackoff(n) \in Nat
        BY <2>2, <4>1, TotalIs DEF PolicyInNat
      <4> QED
        BY <2>2, <4>1, <4>2, <1>a
    <3>1. InTime(Call!At("backoff", call[c].attempts, call[c].started, now + wait, answer), now) /\
              "backoff" \in Call!Places
      BY <2>2, <2>4, <3>0, <1>a DEF InTime, Call!At, Call!Elapsed, Call!Places
    <3>2. now + wait \in Nat
      BY <2>2, <1>a
    <3> QED
      BY <2>1, <2>2, <2>4, <3>1, <3>2, OneCall
  <2> QED
    BY <2>3, <2>4
<1>9. ASSUME NEW c \in Callers, Call!NextAttempt(c) PROVE CallInv'
  <2>1. InTime(Call!At("slot", call[c].attempts + 1, call[c].started, 0, call[c].last), now) /\ "slot" \in Call!Places
    <3> DEFINE n == call[c].attempts
    <3>1. /\ n \in 1..MaxAttempts /\ n < MaxAttempts /\ n \in Nat /\ call[c].started \in Nat /\ call[c].wake \in Nat
          /\ call[c].started + Total(n) <= call[c].wake /\ call[c].wake <= now /\ now <= call[c].started + Deadline
      BY <1>9, <1>a DEF Call!NextAttempt, InTime, CallState
    <3>2. Total(n) \in Nat /\ n + 1 \in 1..MaxAttempts /\ (n + 1) - 1 = n
      BY <3>1, TotalIs DEF PolicyInNat
    <3>3. call[c].started + Total((n + 1) - 1) <= now
      BY <3>1, <3>2, <1>a
    <3> QED
      BY <3>1, <3>2, <3>3 DEF InTime, Call!At, Call!Places
  <2>2. call[c].attempts + 1 \in Nat /\ call[c].started \in Nat /\ call[c].last \in Answer
    BY <1>a DEF CallState
  <2> QED
    BY <1>9, <2>1, <2>2, OneCall DEF Call!NextAttempt
<1>10. CASE Call!Tick
  <2>1. now' = now + 1 /\ call' = call
    BY <1>10 DEF Call!Tick
  <2>2. ASSUME NEW c \in Callers PROVE InTime(call[c], now + 1)
    <3>1. call[c].at \notin {"idle", "ended"} => call[c].started + Total(call[c].attempts - 1) <= now + 1
      <4>1. SUFFICES ASSUME call[c].at \notin {"idle", "ended"}
                     PROVE  call[c].started + Total(call[c].attempts - 1) <= now + 1
        OBVIOUS
      <4>2. /\ call[c].attempts - 1 \in 0..(MaxAttempts - 1) /\ call[c].started \in Nat
            /\ call[c].started + Total(call[c].attempts - 1) <= now
        BY <1>a, <2>2, <4>1 DEF InTime, CallState, PolicyInNat
      <4>3. Total(call[c].attempts - 1) \in Nat
        BY <4>2, TotalIs
      <4> QED
        BY <1>a, <4>2, <4>3
    <3> QED
      BY <1>10, <1>a, <2>2, <3>1 DEF Call!Tick, Call!Due, CallState, InTime, Call!Places, Call!DeadlineOf
  <2> QED
    BY <2>1, <2>2, <1>a DEF CallInv
<1>11. CASE UNCHANGED Call!vars
    BY <1>11 DEF Call!vars, CallInv
<1> QED
    BY <1>1, <1>2, <1>3, <1>4, <1>5, <1>6, <1>7, <1>8, <1>9, <1>10, <1>11 DEF Call!Next, Call!Step

\* "Every wait stops at the deadline of the call": for every policy, and whatever
\* slots, locks and windows the call waits for and however long a response takes,
\* no call waits past its deadline or sends an attempt after it.
THEOREM CallWaitsInTime == Call!Spec => []WaitsWithinDeadline
<1>1. PolicyInNat
    BY PolicyHolds
<1>2. CallInv => WaitsWithinDeadline
    BY <1>1 DEF CallInv, CallState, InTime, WaitsWithinDeadline, Call!WaitsWithinDeadline, Call!Running,
        Call!DeadlineOf, PolicyInNat, Call!Places
<1>3. CallInv /\ [Call!Next]_(Call!vars) => CallInv'
    BY <1>1, CallInvNext
<1> QED
    BY <1>2, <1>3, CallInvInit, PTL DEF Call!Spec

\* A call that ends with a transient answer has used its attempts, or is closer to
\* its deadline than one wait.
LEMMA EndsLate ==
    ASSUME PolicyInNat, CallInv, [Call!Next]_(Call!vars), NEW c \in Callers,
           call[c].at # "ended", call'[c].at = "ended", call'[c].last = "transient"
    PROVE  Call!Elapsed(c) >= MinTotalWait
<1> DEFINE x == call[c]
           n == x.attempts
<1>1. /\ call \in [Callers -> CallState] /\ x \in CallState /\ InTime(x, now) /\ now \in Nat
      /\ x.started \in Nat /\ n \in Nat
    BY DEF CallInv, CallState
<1>2. MinTotalWait \in Nat /\ Deadline \in Nat /\ Window \in Nat /\ MaxAttempts \in Nat
      /\ Total(MaxAttempts - 1) >= MinTotalWait
    BY PolicyAssumption, RetrySpecAssumption DEF Call!RetrySpecValid, Total
<1>3. MinTotalWait <= Deadline /\ MinTotalWait + Window <= Deadline
    <2>1. 1 \in 1..MaxAttempts
        BY DEF PolicyInNat
    <2>2. \A wait \in Call!Waits(1) \cup {Window} : MinTotalWait + wait <= Deadline
        BY <2>1, RoomAssumption
    <2>3. MinTotalWait + Window <= Deadline
        BY <2>2
    <2> QED
        BY <1>2, <2>3
<1>4. ASSUME now >= Call!DeadlineOf(c) PROVE Call!Elapsed(c) >= MinTotalWait
    BY <1>1, <1>2, <1>3, <1>4 DEF Call!DeadlineOf, Call!Elapsed
<1>6. ASSUME NEW d \in Callers, NEW y, call' = [call EXCEPT ![d] = y]
      PROVE d = c /\ y.at = "ended" /\ y.last = "transient"
    BY <1>1, <1>6
<1>7. ASSUME NEW d \in Callers, NEW at, NEW w, Call!Goto(d, at, w) PROVE d = c /\ at = "ended"
    <2>1. d = c /\ Call!At(at, call[d].attempts, call[d].started, w, call[d].last).at = "ended"
        BY <1>6, <1>7 DEF Call!Goto
    <2> QED
        BY <2>1 DEF Call!At
<1>8. ASSUME NEW d \in Callers, Call!Start(d) PROVE FALSE
    BY <1>6, <1>8 DEF Call!Start, Call!At
<1>9. ASSUME NEW d \in Callers, Call!AcquireSlot(d) PROVE Call!Elapsed(c) >= MinTotalWait
    <2>1. CASE Call!Goto(d, "lock", 0)
        BY <1>7, <2>1
    <2>2. CASE now >= Call!DeadlineOf(d) /\ call' = [call EXCEPT ![d] = Call!Refused(d)]
        BY <1>4, <1>6, <2>2
    <2> QED
        BY <1>9, <2>1, <2>2 DEF Call!AcquireSlot
<1>10. ASSUME NEW d \in Callers, Call!AcquireLock(d) PROVE Call!Elapsed(c) >= MinTotalWait
    <2>1. CASE Call!Goto(d, "window", 0)
        BY <1>7, <2>1
    <2>2. CASE now >= Call!DeadlineOf(d) /\ call' = [call EXCEPT ![d] = Call!Refused(d)]
        BY <1>4, <1>6, <2>2
    <2> QED
        BY <1>10, <2>1, <2>2 DEF Call!AcquireLock
<1>11. ASSUME NEW d \in Callers, Call!Queue(d) PROVE Call!Elapsed(c) >= MinTotalWait
    <2>1. PICK wait \in 0..Window :
            \/ Call!Goto(d, "room", 0)
            \/ now + wait > Call!WindowLimit(d) /\ call' = [call EXCEPT ![d] = Call!Refused(d)]
            \/ Call!Goto(d, "asleep", now + wait)
        BY <1>11 DEF Call!Queue
    <2>2. CASE Call!Goto(d, "room", 0) \/ Call!Goto(d, "asleep", now + wait)
        BY <1>7, <2>2
    <2>3. CASE now + wait > Call!WindowLimit(d) /\ call' = [call EXCEPT ![d] = Call!Refused(d)]
        <3>1. d = c
            BY <1>6, <2>3
        <3>2. now + wait > x.started + Deadline /\ wait \in Nat /\ wait <= Window
            BY <1>2, <2>1, <2>3, <3>1 DEF Call!WindowLimit, Call!DeadlineOf
        <3> QED
            BY <1>1, <1>2, <1>3, <3>2 DEF Call!Elapsed
    <2> QED
        BY <2>1, <2>2, <2>3
<1>12. ASSUME NEW d \in Callers, Call!Awake(d) \/ Call!Send(d) PROVE FALSE
    BY <1>7, <1>12 DEF Call!Awake, Call!Send
<1>13. ASSUME NEW d \in Callers, Call!Broken(d) PROVE FALSE
    BY <1>6, <1>13 DEF Call!Broken, Call!Ended, Call!At
<1>14. ASSUME NEW d \in Callers, Call!Answered(d) PROVE Call!Elapsed(c) >= MinTotalWait
    <2>1. PICK answer \in {"answer", "terminal", "transient"}, wait \in Call!Waits(call[d].attempts) :
            call' = [call EXCEPT ![d] =
               IF answer # "transient" \/ Call!LastAttempt(d) \/ Call!Elapsed(d) + wait > Deadline
               THEN Call!Ended(answer)
               ELSE Call!At("backoff", call[d].attempts, call[d].started, now + wait, answer)]
        BY <1>14 DEF Call!Answered
    <2> DEFINE ends == answer # "transient" \/ Call!LastAttempt(d) \/ Call!Elapsed(d) + wait > Deadline
               y == IF ends THEN Call!Ended(answer)
                    ELSE Call!At("backoff", call[d].attempts, call[d].started, now + wait, answer)
    <2>2. d = c /\ y.at = "ended" /\ y.last = "transient"
        BY <1>6, <2>1
    <2>3. ends /\ answer = "transient"
        BY <2>2 DEF Call!Ended, Call!At
    <2>4. n \in 1..MaxAttempts /\ x.started + Total(n - 1) <= now
        BY <1>1, <1>14, <2>2 DEF Call!Answered, InTime
    <2>5. CASE Call!LastAttempt(c)
        <3>1. n = MaxAttempts
            BY <1>2, <2>4, <2>5 DEF Call!LastAttempt
        <3>2. Total(MaxAttempts - 1) \in Nat
            <4>1. MaxAttempts - 1 \in 0..(MaxAttempts - 1)
                BY DEF PolicyInNat
            <4> QED
                BY <4>1, TotalIs
        <3> QED
            BY <1>1, <1>2, <2>4, <3>1, <3>2 DEF Call!Elapsed
    <2>6. CASE Call!Elapsed(c) + wait > Deadline
        <3>1. wait \in Nat /\ MinTotalWait + wait <= Deadline
            BY <2>1, <2>2, <2>4, RoomAssumption DEF PolicyInNat
        <3> QED
            BY <1>1, <1>2, <2>6, <3>1 DEF Call!Elapsed
    <2> QED
        BY <2>2, <2>3, <2>5, <2>6
<1>15. ASSUME NEW d \in Callers, Call!NextAttempt(d) PROVE FALSE
    BY <1>6, <1>15 DEF Call!NextAttempt, Call!At
<1>16. CASE Call!Tick \/ UNCHANGED Call!vars
    BY <1>16 DEF Call!Tick, Call!vars
<1> QED
    BY <1>8, <1>9, <1>10, <1>11, <1>12, <1>13, <1>14, <1>15, <1>16 DEF Call!Next, Call!Step

\* "The policy outlasts one rate window": a call gives up on a transient answer
\* only after min_total_wait_seconds, for every policy whose deadline leaves room
\* for one more wait after them.
THEOREM GivesUpNoEarlier == Call!Spec => GivesUpLate
<1> DEFINE P == \A c \in Callers :
        call[c].at # "ended" /\ call'[c].at = "ended" /\ call'[c].last = "transient" => Call!Elapsed(c) >= MinTotalWait
<1>1. PolicyInNat
    BY PolicyHolds
<1>2. CallInv /\ [Call!Next]_(Call!vars) => CallInv'
    BY <1>1, CallInvNext
<1>3. CallInv /\ [Call!Next]_(Call!vars) => [P]_(Call!vars)
    BY <1>1, EndsLate
<1> QED
    BY <1>2, <1>3, CallInvInit, PTL DEF Call!Spec, GivesUpLate, Call!GivesUpLate
-----------------------------------------------------------------------------
(* The pacer (sources/model_policy.py).                                      *)

\* The fields of the policy, and a marker that is no caller.
PacerFields == Slots \in Nat /\ Rate \in Nat \ {0} /\ Window \in Nat /\ "none" \notin Callers

\* popleft keeps the starts within the window: never more than there were, and
\* the first of them is in it.
LEMMA Popleft ==
    ASSUME starts \in Seq(Nat), NEW t \in Nat, Window \in Nat
    PROVE  /\ Call!FreshAt(t) \in Seq(Nat) /\ Len(Call!FreshAt(t)) \in Nat /\ Len(Call!FreshAt(t)) <= Len(starts)
           /\ Len(Call!FreshAt(t)) > 0 => Head(Call!FreshAt(t)) \in Nat /\ t - Head(Call!FreshAt(t)) < Window
<1> DEFINE n == Len(starts)
           late == {i \in 1..n : i \notin Call!Expired(t)}
<1>0. n \in Nat
    OBVIOUS
<1>1. CASE late = {}
    <2>1. Call!Expired(t) = 1..n
        BY <1>1 DEF late, Call!Expired
    <2>2. Cardinality(Call!Expired(t)) = n
        <3>1. 1 \in Int /\ n \in Int
            BY <1>0
        <3>2. Cardinality(1..n) = IF 1 > n THEN 0 ELSE n - 1 + 1
            BY <3>1, FS_Interval
        <3> QED
            BY <1>0, <2>1, <3>2
    <2>3. Call!FreshAt(t) = << >>
        BY <1>0, <2>2, SubSeqEmpty, CallSize DEF Call!FreshAt
    <2> QED
        BY <1>0, <2>3
<1>2. CASE late # {}
    <2>1. PICK m \in late : \A i \in late : m <= i
        <3>1. late \in SUBSET Nat
            OBVIOUS
        <3> QED
            BY <1>2, <3>1, Least
    <2>2. m \in 1..n /\ m \notin Call!Expired(t) /\ \A i \in 1..(m - 1) : i \in Call!Expired(t)
        BY <1>0, <2>1
    <2>3. \A i \in 1..(m - 1) : t - starts[i] >= Window
        BY <2>2 DEF Call!Expired
    <2>4. t - starts[m] < Window
        BY <1>0, <2>2, <2>3 DEF Call!Expired
    <2>5. Call!Expired(t) = 1..(m - 1)
        BY <1>0, <2>2, <2>4 DEF Call!Expired
    <2>6. Cardinality(Call!Expired(t)) = m - 1
        BY <1>0, <2>2, <2>5, FS_Interval
    <2> HIDE DEF late, n
    <2>7. Call!FreshAt(t) = SubSeq(starts, m, n)
        BY <1>0, <2>2, <2>6, CallSize DEF Call!FreshAt, n
    <2>8. /\ Call!FreshAt(t) \in Seq(Nat) /\ Len(Call!FreshAt(t)) = n - m + 1 /\ Call!FreshAt(t)[1] = starts[m]
        <3>1. \A i \in m..n : starts[i] \in Nat
            BY <1>0, <2>2 DEF n
        <3> QED
            BY <1>0, <2>2, <2>7, <3>1, m \in Int, n \in Int, 1 \in 1..(n - m + 1), SubSeqProperties
    <2>9. Head(Call!FreshAt(t)) = starts[m] /\ starts[m] \in Nat
        BY <1>0, <2>2, <2>8, Head(Call!FreshAt(t)) = Call!FreshAt(t)[1] DEF n
    <2> QED
        BY <1>0, <2>2, <2>4, <2>8, <2>9 DEF n
<1> QED
    BY <1>1, <1>2

\* A caller in the queue of the gate holds the admission lock.
Queueing == {"window", "asleep", "room"}

\* A slot is counted from the acquire on, and room in the deque, found under the
\* lock, is still there when the start is appended.
PacerInv ==
    /\ CallInv /\ starts \in Seq(Nat)
    /\ IsFiniteSet(Call!Holding) /\ Cardinality(Call!Holding) <= Slots
    /\ \A c \in Callers : call[c].at \in Queueing => holder = c
    /\ Len(starts) <= Rate
    /\ \A c \in Callers : call[c].at = "room" => Len(starts) < Rate

LEMMA PacerInvInit == ASSUME PacerFields PROVE Call!Init => PacerInv
<1> SUFFICES ASSUME Call!Init PROVE PacerInv
    OBVIOUS
<1>1. CallInv
    BY CallInvInit
<1>2. Call!Holding = {}
    BY DEF Call!Init, Call!Holding, Call!At
<1>3. IsFiniteSet(Call!Holding) /\ Cardinality(Call!Holding) = 0
    BY <1>2, FS_EmptySet
<1> QED
    BY <1>1, <1>3 DEF Call!Init, PacerInv, PacerFields, Call!At, Queueing

\* A step of one caller.
Alone(c) == now' = now /\ \A d \in Callers \ {c} : call'[d] = call[d]

\* Fewer hold a slot.
LEMMA FewerHold ==
    ASSUME PacerFields, PacerInv, Call!Holding' \subseteq Call!Holding
    PROVE  IsFiniteSet(Call!Holding)' /\ (Cardinality(Call!Holding) <= Slots)'
<1>1. IsFiniteSet(Call!Holding') /\ Cardinality(Call!Holding') <= Cardinality(Call!Holding)
    BY FS_Subset DEF PacerInv
<1>2. Cardinality(Call!Holding') \in Nat /\ Cardinality(Call!Holding) \in Nat
    BY <1>1, FS_CardinalityType DEF PacerInv
<1> QED
    BY <1>1, <1>2 DEF PacerInv, PacerFields

\* A slot, the lock and room in the deque are taken only when free.
LEMMA PacerInvNext == ASSUME PolicyInNat, PacerFields PROVE PacerInv /\ [Call!Next]_(Call!vars) => PacerInv'
<1> SUFFICES ASSUME PacerInv, [Call!Next]_(Call!vars) PROVE PacerInv'
    OBVIOUS
<1>0. CallInv' /\ now \in Nat /\ Window \in Nat /\ Rate \in Nat \ {0} /\ Slots \in Nat /\ Len(starts) \in Nat
    BY CallInvNext DEF PacerInv, CallInv, PacerFields
<1>1. call \in [Callers -> CallState]
    BY DEF PacerInv, CallInv
<1>2. ASSUME NEW t \in Nat
      PROVE Call!FreshAt(t) \in Seq(Nat) /\ Len(Call!FreshAt(t)) \in Nat /\ Len(Call!FreshAt(t)) <= Len(starts)
    BY <1>0, Popleft DEF PacerInv
<1>3. ASSUME NEW c \in Callers, Alone(c), Call!Holding' \subseteq Call!Holding, starts' = starts,
             call'[c].at \notin Queueing,
             holder' = holder \/ Call!Release(c)
      PROVE  PacerInv'
    <2>1. IsFiniteSet(Call!Holding)' /\ (Cardinality(Call!Holding) <= Slots)'
        BY <1>3, FewerHold
    <2>2. \A d \in Callers : call'[d].at \in Queueing => holder' = d
        BY <1>3 DEF Alone, PacerInv, Call!Release
    <2>3. \A d \in Callers : call'[d].at = "room" => Len(starts') < Rate
        BY <1>3 DEF Alone, PacerInv, Queueing
    <2> QED
        BY <1>0, <1>3, <2>1, <2>2, <2>3 DEF PacerInv
<1>4. ASSUME NEW c \in Callers, Call!Start(c) \/ Call!NextAttempt(c) PROVE PacerInv'
    <2>1. Alone(c) /\ call'[c].at = "slot" /\ UNCHANGED <<holder, starts>>
        BY <1>1, <1>4 DEF Call!Start, Call!NextAttempt, Alone, Call!At
    <2>2. Call!Holding' \subseteq Call!Holding
        BY <2>1 DEF Call!Holding, Alone
    <2> QED
        BY <2>1, <2>2, <1>3 DEF Queueing
<1>5. ASSUME NEW c \in Callers, call' = [call EXCEPT ![c] = Call!Refused(c)] \/ \E a :
          call' = [call EXCEPT ![c] = Call!Ended(a)],
             now' = now, starts' = starts, holder' = holder \/ Call!Release(c)
      PROVE  PacerInv'
    <2>1. Alone(c) /\ call'[c].at = "ended"
        BY <1>1, <1>5 DEF Alone, Call!Refused, Call!Ended, Call!At
    <2>2. Call!Holding' \subseteq Call!Holding
        BY <2>1 DEF Call!Holding, Alone
    <2> QED
        BY <2>1, <2>2, <1>3, <1>5 DEF Queueing
<1>6. ASSUME NEW c \in Callers, Call!AcquireSlot(c) PROVE PacerInv'
    <2>1. CASE call' = [call EXCEPT ![c] = Call!Refused(c)]
        BY <1>5, <1>6, <2>1 DEF Call!AcquireSlot
    <2>2. CASE Cardinality(Call!Holding) < Slots /\ Call!Goto(c, "lock", 0)
        <3>1. Alone(c) /\ call'[c].at = "lock" /\ UNCHANGED <<holder, starts>>
            BY <1>1, <1>6, <2>2 DEF Call!AcquireSlot, Call!Goto, Alone, Call!At
        <3>2. Call!Holding' \subseteq Call!Holding \cup {c}
            BY <3>1 DEF Call!Holding, Alone
        <3>3. IsFiniteSet(Call!Holding') /\ Cardinality(Call!Holding') <= Slots
            <4>1. /\ IsFiniteSet(Call!Holding \cup {c})
                  /\ Cardinality(Call!Holding \cup {c}) = Cardinality(Call!Holding)
                        \/ Cardinality(Call!Holding \cup {c}) = Cardinality(Call!Holding) + 1
                BY FS_AddElement DEF PacerInv
            <4>2. IsFiniteSet(Call!Holding') /\ Cardinality(Call!Holding') <= Cardinality(Call!Holding \cup {c})
                BY <3>2, <4>1, FS_Subset
            <4>3. Cardinality(Call!Holding) \in Nat /\ Cardinality(Call!Holding') \in Nat
                BY <4>2, FS_CardinalityType DEF PacerInv
            <4> QED
                BY <1>0, <2>2, <4>1, <4>2, <4>3
        <3> QED
            BY <1>0, <3>1, <3>3 DEF PacerInv, Alone, Queueing
    <2> QED
        BY <1>6, <2>1, <2>2, CallSize DEF Call!AcquireSlot
<1>7. ASSUME NEW c \in Callers, Call!AcquireLock(c) PROVE PacerInv'
    <2>1. CASE call' = [call EXCEPT ![c] = Call!Refused(c)] /\ UNCHANGED holder
        BY <1>5, <1>7, <2>1 DEF Call!AcquireLock
    <2>2. CASE Call!LockFree /\ holder' = c /\ Call!Goto(c, "window", 0)
        <3>1. Alone(c) /\ call'[c].at = "window" /\ UNCHANGED starts /\ call[c].at = "lock"
            BY <1>1, <1>7, <2>2 DEF Call!AcquireLock, Call!Goto, Alone, Call!At
        <3>2. Call!Holding' \subseteq Call!Holding
            BY <3>1 DEF Call!Holding, Alone
        <3>3. IsFiniteSet(Call!Holding)' /\ (Cardinality(Call!Holding) <= Slots)'
            BY <3>2, FewerHold
        <3>4. \A d \in Callers : call[d].at \notin Queueing
            BY <2>2 DEF PacerInv, Call!LockFree, PacerFields
        <3>5. \A d \in Callers : (call'[d].at \in Queueing => holder' = d) /\ call'[d].at # "room"
            BY <2>2, <3>1, <3>4 DEF Alone, Queueing
        <3> QED
            BY <1>0, <3>1, <3>3, <3>5 DEF PacerInv
    <2> QED
        BY <1>7, <2>1, <2>2 DEF Call!AcquireLock
<1>8. ASSUME NEW c \in Callers, Call!Queue(c) PROVE PacerInv'
    <2>1. starts' = Call!FreshAt(now) /\ now' = now /\ call[c].at = "window"
        BY <1>8 DEF Call!Queue, Call!Fresh
    <2>2. starts' \in Seq(Nat) /\ Len(starts') \in Nat /\ Len(starts') <= Rate
        BY <1>0, <1>2, <2>1 DEF PacerInv
    <2>3. holder = c /\ \A d \in Callers \ {c} : call[d].at \notin Queueing
        BY <2>1 DEF PacerInv, Queueing
    <2>4. PICK wait \in 0..Window :
              /\ wait >= Call!OwnWait
              /\ \/ wait = 0 /\ Call!Goto(c, "room", 0) /\ UNCHANGED holder
                 \/ call' = [call EXCEPT ![c] = Call!Refused(c)]
                 \/ Call!Goto(c, "asleep", now + wait) /\ UNCHANGED holder
        BY <1>8 DEF Call!Queue
    <2>5. Alone(c) /\ call'[c].at \in {"room", "ended", "asleep"}
        BY <1>1, <2>1, <2>4 DEF Call!Goto, Alone, Call!At, Call!Refused, Call!Ended
    <2>6. Call!Holding' \subseteq Call!Holding
        BY <2>1, <2>5 DEF Call!Holding, Alone
    <2>7. IsFiniteSet(Call!Holding)' /\ (Cardinality(Call!Holding) <= Slots)'
        BY <2>6, FewerHold
    <2>8. call'[c].at = "room" => Len(starts') < Rate
        <3>1. call'[c].at = "room" => wait = 0
            BY <1>1, <2>4 DEF Call!Goto, Call!At, Call!Refused, Call!Ended
        <3>2. Len(Call!Fresh) > 0 => Head(Call!Fresh) \in Nat /\ now - Head(Call!Fresh) < Window
            <4>1. Len(Call!FreshAt(now)) > 0 => Head(Call!FreshAt(now)) \in Nat /\
                      now - Head(Call!FreshAt(now)) < Window
                BY <1>0, Popleft DEF PacerInv
            <4> QED
                BY <4>1 DEF Call!Fresh
        <3>3. Len(Call!Fresh) \in Nat /\ Call!Fresh = starts'
            BY <1>0, <1>2, <2>1 DEF Call!Fresh
        <3>4. Len(Call!Fresh) >= Rate => Call!OwnWait > 0
            BY <1>0, <3>2, <3>3 DEF Call!OwnWait
        <3>5. Call!OwnWait <= 0 => Len(Call!Fresh) < Rate
            <4>1. Len(Call!Fresh) < Rate => Call!OwnWait = 0
                BY <1>0, <3>3 DEF Call!OwnWait
            <4>2. Len(Call!Fresh) >= Rate => Call!OwnWait \in Int
                BY <1>0, <3>2, <3>3 DEF Call!OwnWait
            <4> QED
                BY <1>0, <3>3, <3>4, <4>1, <4>2
        <3> QED
            BY <2>4, <3>1, <3>3, <3>5
    <2>9. call'[c].at \in Queueing => holder' = c
        BY <1>1, <2>3, <2>4 DEF Call!Goto, Call!At, Call!Refused, Call!Ended, Queueing
    <2> QED
        BY <1>0, <2>2, <2>3, <2>5, <2>7, <2>8, <2>9 DEF PacerInv, Alone, Queueing
<1>9. ASSUME NEW c \in Callers, Call!Awake(c) PROVE PacerInv'
    <2>1. Alone(c) /\ call[c].at = "asleep" /\ call'[c].at = "window" /\ UNCHANGED <<holder, starts>>
        BY <1>1, <1>9 DEF Call!Awake, Call!Goto, Alone, Call!At
    <2>2. Call!Holding' \subseteq Call!Holding
        BY <2>1 DEF Call!Holding, Alone
    <2>3. IsFiniteSet(Call!Holding)' /\ (Cardinality(Call!Holding) <= Slots)'
        BY <2>2, FewerHold
    <2> QED
        BY <1>0, <2>1, <2>3 DEF PacerInv, Alone, Queueing
<1>10. ASSUME NEW c \in Callers, Call!Send(c) PROVE PacerInv'
    <2>1. /\ Alone(c) /\ call[c].at = "room" /\ call'[c].at = "sending" /\ starts' = Append(starts, now)
        BY <1>1, <1>10 DEF Call!Send, Call!Goto, Alone, Call!At
    <2>2. Call!Holding' \subseteq Call!Holding
        BY <2>1 DEF Call!Holding, Alone
    <2>3. IsFiniteSet(Call!Holding)' /\ (Cardinality(Call!Holding) <= Slots)'
        BY <2>2, FewerHold
    <2>4. \A d \in Callers : call'[d].at \notin Queueing
        BY <2>1 DEF PacerInv, Alone, Queueing
    <2>5. starts' \in Seq(Nat) /\ Len(starts') = Len(starts) + 1 /\ Len(starts) < Rate
        BY <1>0, <2>1 DEF PacerInv
    <2> QED
        BY <1>0, <2>3, <2>4, <2>5 DEF PacerInv, Queueing
<1>11. ASSUME NEW c \in Callers, Call!Broken(c) PROVE PacerInv'
    BY <1>5, <1>11 DEF Call!Broken
<1>12. ASSUME NEW c \in Callers, Call!Answered(c) PROVE PacerInv'
    <2>1. Alone(c) /\ call'[c].at \in {"ended", "backoff"} /\ UNCHANGED <<holder, starts>>
        BY <1>1, <1>12 DEF Call!Answered, Alone, Call!Ended, Call!At
    <2>2. Call!Holding' \subseteq Call!Holding
        BY <2>1 DEF Call!Holding, Alone
    <2> QED
        BY <2>1, <2>2, <1>3 DEF Queueing
<1>13. CASE Call!Tick
    <2>1. now + 1 \in Nat /\ starts' = Call!FreshAt(now + 1) /\ UNCHANGED <<call, holder>>
        BY <1>0, <1>13 DEF Call!Tick
    <2>2. Call!Holding' \subseteq Call!Holding
        BY <2>1 DEF Call!Holding
    <2>3. IsFiniteSet(Call!Holding)' /\ (Cardinality(Call!Holding) <= Slots)'
        BY <2>2, FewerHold
    <2>4. starts' \in Seq(Nat) /\ Len(starts') \in Nat /\ Len(starts') <= Len(starts)
        BY <1>2, <2>1
    <2> QED
        BY <1>0, <2>1, <2>3, <2>4 DEF PacerInv
<1>14. CASE UNCHANGED Call!vars
    BY <1>0, <1>14 DEF Call!vars, PacerInv, Call!Holding
<1> QED
    BY <1>4, <1>6, <1>7, <1>8, <1>9, <1>10, <1>11, <1>12, <1>13, <1>14 DEF Call!Next, Call!Step

\* "at most max_concurrent_calls attempts at once, at most calls_per_minute
\* attempts in any 60 s window": for any callers of a process, which take the
\* slot, the lock and the window one after the other and give up on each.
THEOREM PacerKeepsItsWord == Call!Spec => []PacerHolds
<1>0. PolicyInNat /\ PacerFields
    BY PolicyHolds, PolicyAssumption DEF PacerFields
<1>1. PacerInv => Call!PacerHolds
    <2> SUFFICES ASSUME PacerInv PROVE Call!PacerHolds
        OBVIOUS
    <2>1. Call!Sending \subseteq Call!Holding
        BY DEF Call!Sending, Call!Holding
    <2>2. IsFiniteSet(Call!Sending) /\ Cardinality(Call!Sending) <= Cardinality(Call!Holding)
        BY <2>1, FS_Subset DEF PacerInv
    <2>3. Cardinality(Call!Sending) \in Nat /\ Cardinality(Call!Holding) \in Nat
        BY <2>2, FS_CardinalityType DEF PacerInv
    <2>4. Len(Call!Fresh) \in Nat /\ Len(Call!Fresh) <= Len(starts) /\ Len(starts) \in Nat
        <3>1. now \in Nat /\ Window \in Nat /\ starts \in Seq(Nat)
            BY <1>0 DEF PacerInv, CallInv, PacerFields
        <3>2. Len(Call!FreshAt(now)) \in Nat /\ Len(Call!FreshAt(now)) <= Len(starts)
            BY <3>1, Popleft
        <3>3. Len(starts) \in Nat
            BY <3>1
        <3> QED
            BY <3>2, <3>3 DEF Call!Fresh
    <2> QED
        BY <1>0, <2>2, <2>3, <2>4, CallSize DEF PacerInv, Call!PacerHolds, PacerFields
<1>2. (Call!Init => PacerInv) /\ (PacerInv /\ [Call!Next]_(Call!vars) => PacerInv')
    BY <1>0, PacerInvInit, PacerInvNext
<1> QED
    BY <1>1, <1>2, PTL DEF Call!Spec, PacerHolds
-----------------------------------------------------------------------------
\* A behaviour of the three parts, of which one moves, is one of each of them.
LEMMA PartsBehave == MCSpec => Spec /\ Library!Spec /\ Call!Spec
<1>1. MCInit => Init /\ Library!Init /\ Call!Init
    BY DEF MCInit
<1>2. [MCNext]_allVars => [Next]_vars
    BY DEF MCNext, allVars
<1>3. [MCNext]_allVars => [Library!Next]_(Library!vars)
    BY DEF MCNext, allVars, documentVars, Library!vars
<1>4. [MCNext]_allVars => [Call!Next]_(Call!vars)
    BY DEF MCNext, allVars, callVars, Call!vars
<1> QED
    BY <1>1, <1>2, <1>3, <1>4, PTL DEF MCSpec, Spec, Library!Spec, Call!Spec
=============================================================================
