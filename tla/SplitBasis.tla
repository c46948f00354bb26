------------------------------ MODULE SplitBasis ------------------------------
(***************************************************************************)
(* The two stored daily price series of one symbol, the splits derived from *)
(* them and the share count put on the basis of a live close               *)
(* (datahub/market_prices.py, lanes/market_data.py, lanes/qqq_prices.py,    *)
(* datahub/price_series.py, factors/backtest/corporate_actions.py,          *)
(* datahub/share_basis.py).                                                 *)
(*                                                                          *)
(* Sessions are numbered.  A stored price is its level, the number of splits *)
(* that have lowered it: an unadjusted close loses one level at each        *)
(* ex-date, an adjusted one has the level of the day its answer is adjusted *)
(* to, a ratio of two closes is a difference of levels and a product of     *)
(* factors a number of splits.  What the market adds to a change of price   *)
(* cancels in the ratio of the two series.  Where the code compares closes  *)
(* of different days it is a move, in units of the logarithm of a price of  *)
(* which a split has SplitSize and the limit of x1.5 has JumpLimit.         *)
(***************************************************************************)
EXTENDS Integers, FiniteSets, FiniteSetsExt

CONSTANTS Runs,         \* places for runs of the lane that stores the symbol
          MaxSession,   \* bound: the last session
          MaxSplits,    \* bound: splits of the symbol
          Lookback,     \* sessions before today that a refresh keeps
          MaxLag,       \* MAX_BAR_LAG_SESSIONS
          SplitSize,    \* what a split takes from the logarithm of the price
          JumpLimit,    \* CLOSE_JUMP_LIMIT
          MaxMove       \* bound: what the market adds to it in a session

Sessions == 1..MaxSession
None == 99              \* no bar is stored

VARIABLES
    splits,   \* ex-dates of the symbol's splits
    closed,   \* the latest session that has closed
    vendor,   \* the session through which the vendor lists bars, and applies splits
    stored,   \* per series, the level of the newest vintage of each session
    run,
    clean     \* history: the newest adjusted rows are of a run that had the lane to itself

vars == <<splits, closed, vendor, stored, run, clean>>

Between(after, through) == Cardinality({s \in splits : after < s /\ s <= through})

Unadjusted(d) == -Between(0, d)

Empty == [d \in Sessions |-> None]

\* alone: no other run has been active since this one started.
Idle == [at |-> "idle", now |-> 0, alone |-> FALSE, splits |-> Empty, none |-> Empty]

Init ==
    /\ splits \in {s \in SUBSET Sessions : Cardinality(s) <= MaxSplits}
    /\ closed = 1 /\ vendor = [listed |-> 1, applied |-> 1]
    /\ stored = [splits |-> Empty, none |-> Empty] /\ clean = TRUE
    /\ run = [r \in Runs |-> Idle]

Close ==
    /\ closed < MaxSession
    /\ closed' = closed + 1
    /\ UNCHANGED <<splits, vendor, stored, run, clean>>

\* The vendor lists the bar of a closed session some time after its close.  Its
\* adjusted series knows the splits of the sessions it lists, and from some
\* moment on those of later sessions up to the open one.
VendorLists ==
    /\ vendor.listed < closed
    /\ vendor' = [listed |-> vendor.listed + 1, applied |-> Max({vendor.applied, vendor.listed + 1})]
    /\ UNCHANGED <<splits, closed, stored, run, clean>>

VendorRestates ==
    /\ vendor.applied <= closed
    /\ vendor' = [vendor EXCEPT !.applied = @ + 1]
    /\ UNCHANGED <<splits, closed, stored, run, clean>>
-----------------------------------------------------------------------------
(* A run: one request per series, then the rows.  Nothing keeps two launches *)
(* of a lane apart.                                                         *)

Start(r) ==
    /\ run[r].at = "idle"
    /\ run' = [s \in Runs |->
                  IF s = r THEN [Idle EXCEPT !.at = "splits", !.now = closed,
                                             !.alone = \A o \in Runs : run[o].at = "idle"]
                  ELSE [run[s] EXCEPT !.alone = FALSE]]
    /\ UNCHANGED <<splits, closed, vendor, stored, clean>>

\* The bars a refresh keeps: at or after the floor, and closed at its clock.
Kept(now) == {d \in Sessions : now - Lookback <= d /\ d <= now}

\* parse_daily_bars, of what the vendor lists.
Bars(r, level) == [d \in Sessions |-> IF d \in Kept(run[r].now) /\ d <= vendor.listed THEN level[d] ELSE None]

\* What the vendor answers: its list, or no value at all.
Answers(r, level) == {Bars(r, level), Empty}

\* An adjusted answer is on the share basis of its fetch.
FetchAdjusted(r) ==
    /\ run[r].at = "splits"
    /\ \E bars \in Answers(r, [d \in Sessions |-> Unadjusted(vendor.applied)]) :
          run' = [run EXCEPT ![r].at = "none", ![r].splits = bars]
    /\ UNCHANGED <<splits, closed, vendor, stored, clean>>

FetchUnadjusted(r) ==
    /\ run[r].at = "none"
    /\ \E bars \in Answers(r, [d \in Sessions |-> Unadjusted(d)]) :
          run' = [run EXCEPT ![r].at = "insert", ![r].none = bars]
    /\ UNCHANGED <<splits, closed, vendor, stored, clean>>

\* A changed bar is a new vintage, and the vintage recorded last is the one read.
Newest(old, new) == [d \in Sessions |-> IF new[d] = None THEN old[d] ELSE new[d]]

Series(bars) == {d \in Sessions : bars[d] # None}

\* Both series in one transaction.  The lane of the TOPT symbols stores one
\* answer without the other; that of the QQQ symbols refuses an empty one, which
\* is Fail.
Insert(r) ==
    /\ run[r].at = "insert"
    /\ stored' = [splits |-> Newest(stored.splits, run[r].splits), none |-> Newest(stored.none, run[r].none)]
    /\ clean' = IF run[r].splits = Empty THEN clean ELSE run[r].alone
    /\ run' = [run EXCEPT ![r] = Idle]
    /\ UNCHANGED <<splits, closed, vendor>>

\* A vendor error, a refusal of the gate, an answer without a closed bar, a lost
\* worker: nothing is written.
Fail(r) ==
    /\ run[r].at # "idle"
    /\ run' = [run EXCEPT ![r] = Idle]
    /\ UNCHANGED <<splits, closed, vendor, stored, clean>>

Next ==
    \/ Close \/ VendorLists \/ VendorRestates
    \/ \E r \in Runs : Start(r) \/ FetchAdjusted(r) \/ FetchUnadjusted(r) \/ Insert(r) \/ Fail(r)

Spec == Init /\ [][Next]_vars
-----------------------------------------------------------------------------
(* derive_split_events.                                                    *)

Paired == Series(stored.none) \cap Series(stored.splits)

Ratio(d) == stored.none[d] - stored.splits[d]

\* The ratio steps down at a paired session.
Before(d, set) == {e \in set : e < d}
Step(d) == IF Before(d, Paired) = {} THEN 0 ELSE Ratio(Max(Before(d, Paired))) - Ratio(d)

Abs(n) == IF n < 0 THEN -n ELSE n

\* What the market may add to a price in some sessions.
Moves(sessions) == (-MaxMove * sessions)..(MaxMove * sessions)

\* _confirm: the unadjusted close drops by the factor, within half of it.
Confirmed(d) ==
    LET last == Max(Before(d, Series(stored.none)))
        drop == stored.none[last] - stored.none[d]
    IN \E move \in Moves(d - last) :
          2 * Abs(SplitSize * (Step(d) - drop) + move) < SplitSize * Abs(Step(d))

Steps == {d \in Paired : Step(d) # 0}

\* The ratio of the latest session is 1.
OnOneBasis == Ratio(Max(Paired)) = 0

SameSpan == \A d \in Series(stored.none) : Min(Paired) <= d /\ d <= Max(Paired)

Derivable ==
    /\ Paired # {}
    /\ \A d \in Steps : Confirmed(d)
    /\ SameSpan /\ OnOneBasis

\* The factor of the event of a session, as split_factor_between multiplies it.
EventFactor(d) == IF d \in Steps THEN Step(d) ELSE 0
-----------------------------------------------------------------------------
(* live_on_close_basis, for the close of the latest session.               *)

\* Variant: series that lag within the limit speak for the close.
SpeaksForClose_Lagging(move) == Max(Paired) >= closed - MaxLag

\* _close_side_gap: the close's own session, or a close strictly within the limit
\* of the last stored one, when the market has added move to it since.
SpeaksForClose(move) ==
    \/ Max(Paired) >= closed
    \/ /\ Max(Paired) >= closed - MaxLag
       /\ Abs(move - SplitSize * Between(Max(Paired), closed)) < JumpLimit

\* The splits from each date to the close, as the events have them.
SplitsSince ==
    LET since[d \in 1..closed] == IF d = closed THEN 0 ELSE EventFactor(d + 1) + since[d + 1]
    IN  since

\* Series the symbol's values may rest on, if the market made one of the moves.
Usable(moves) == Paired # {} /\ (\E move \in moves : SpeaksForClose(move)) /\ Derivable

\* The count's own date and filing date; the class its document gives it.
Covered(own, filed) == \A d \in {own, filed} : Min(Paired) <= d

\* The date whose basis the count is put on; 0 where the code cannot tell.
BasisDate(own, filed, kind, since) ==
    CASE since[own] = since[filed] -> IF own < filed THEN filed ELSE own
      [] since[own] # since[filed] /\ kind = "cover" -> own
      [] since[own] # since[filed] /\ kind = "statement" -> filed
      [] OTHER -> 0

\* share_count_as_of: what the stored document says of the count.
TrueBasisDates(own, filed, kind) ==
    CASE kind = "cover" -> {own} [] kind = "statement" -> {filed} [] OTHER -> {own, filed}
-----------------------------------------------------------------------------
Levels == [Sessions -> (-MaxSplits)..0 \cup {None}]

\* Every variable has its type.
TypeOK ==
    /\ splits \subseteq Sessions /\ closed \in Sessions /\ clean \in BOOLEAN
    /\ vendor \in [listed : Sessions, applied : 1..(MaxSession + 1)]
    /\ stored \in [splits : Levels, none : Levels]
    /\ run \in [Runs -> [at : {"idle", "splits", "none", "insert"}, now : 0..MaxSession, alone : BOOLEAN,
                         splits : Levels, none : Levels]]

\* Every share count is multiplied by exactly the splits between its basis date
\* and the live close.  The dates of a count lie within the window that a refresh
\* keeps.
CountsAreExact ==
    LET since == SplitsSince IN
    \A own, filed \in {d \in 1..closed : closed - Lookback <= d} : Covered(own, filed) =>
        \A kind \in {"cover", "statement", "unrecognised"} :
            LET date == BasisDate(own, filed, kind, since) IN
            date # 0 => \A real \in TrueBasisDates(own, filed, kind) : since[date] = Between(real, closed)

\* live_on_close_basis "checks what the stored series can prove": while no
\* overlapping run has stored the adjusted rows, and the market has not moved the
\* close by as much as a split exceeds the limit of x1.5, a share count that gets a
\* market value is on the basis of the close, whatever the vendor had listed or
\* restated when each series was fetched, which series an answer lacked, which
\* bars the floor left on an older basis, and how far the series lag.
ValueOnOneBasis ==
    clean /\ Usable({move \in Moves(MaxLag) : Abs(move) + JumpLimit <= SplitSize}) => CountsAreExact

\* "it fails closed.  An issuer whose splits are unknown between the basis date
\* and the close's session gets no market value": whatever run stored the rows
\* last and whatever the market did.
FailsClosed == Usable(Moves(MaxLag)) => CountsAreExact
=============================================================================
