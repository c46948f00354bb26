----------------------------- MODULE PriceRefresh -----------------------------
(***************************************************************************)
(* Which symbols the QQQ price lane fetches (lanes/qqq_prices.py): one run  *)
(* after each session, the stalest symbols first, as many as the budget of  *)
(* Twelve Data credits pays for.  What a fetch stores is SplitBasis.        *)
(*                                                                          *)
(* A symbol is known by its lag: the sessions since the last one both of    *)
(* its series hold.  Never is the lag of a symbol without a split history;  *)
(* lags above MaxLag are not told apart.                                    *)
(***************************************************************************)
EXTENDS Integers, FiniteSets, FiniteSetsExt

CONSTANTS Symbols,      \* 1..n, in the order of their names
          MaxBroken,    \* bound: symbols without a split history, whatever is fetched
          ListingLag,   \* sessions the vendor's newest bar may trail the close at a fetch
          RefreshEvery, \* REFRESH_EVERY_SESSIONS
          Credits,      \* CREDITS_PER_SYMBOL
          MaxRetries,   \* bound: 429 answers of one run that are repeated
          MaxLag,       \* bound: lags that are told apart
          MaxFaults     \* bound: bad sessions in a row

Never == MaxLag + 1

VARIABLES
    lag,      \* per symbol
    broken,   \* symbols the vendor has no bars of, or whose series show no split history
    run,      \* the run of the session
    streak    \* sessions without a fault in a row, or the number of faulty ones below zero

vars == <<lag, broken, run, streak>>

\* planned: symbols still to fetch; calls: call_count of the client.
Waiting == [at |-> "waiting", planned |-> {}, credits |-> 0, calls |-> 0, bad |-> FALSE]

Init ==
    /\ lag = [s \in Symbols |-> Never]
    /\ broken \in {b \in SUBSET Symbols : Cardinality(b) <= MaxBroken}
    /\ run = Waiting /\ streak = 0

\* A short budget, a repeated answer, a rate limit, a death, or an answer that
\* fails a symbol the vendor serves.
MayFail == -streak < MaxFaults

\* Variant: by name only.
Earlier_ByName(s, t) == s < t

\* refresh_order: symbols without both series first, then the oldest, then by name.
Earlier(s, t) == lag[s] > lag[t] \/ (lag[s] = lag[t] /\ s < t)

Ahead(s) == {t \in Symbols : Earlier(t, s)}

\* The first n of the order.
FirstOf(n) == {s \in Symbols : Cardinality(Ahead(s)) < n}

\* Variant: rounded down.
Need_Floor == Credits * (Cardinality(Symbols) \div RefreshEvery)

\* need_credits: the stalest ceil(n / cadence).
Need == Credits * ((Cardinality(Symbols) + RefreshEvery - 1) \div RefreshEvery)

\* credit_budget: the need, or less where the other callers leave less.
Start ==
    /\ run.at = "waiting"
    /\ \E credits \in 0..Need :
          /\ credits < Need => MayFail
          /\ run' = [Waiting EXCEPT !.at = "fetching", !.credits = credits, !.bad = credits < Need,
                        !.planned = FirstOf(credits \div Credits)]
    /\ UNCHANGED <<lag, broken, streak>>

\* _fetch: the run stops before a symbol whose requests would pass the budget.
WithinBudget == run.calls + Credits <= run.credits

Stop(bad) == run' = [Waiting EXCEPT !.at = "done", !.bad = run.bad \/ bad]

EndOfPlan ==
    /\ run.at = "fetching" /\ (run.planned = {} \/ ~WithinBudget)
    /\ Stop(run.planned # {})
    /\ UNCHANGED <<lag, broken, streak>>

\* The loop is at s: the others of the plan come later.
Fetching(s) ==
    /\ run.at = "fetching" /\ WithinBudget
    /\ \A t \in run.planned : t = s \/ Earlier(s, t)

\* Repeats of a 429 answer of one symbol.
Repeats == 0..(IF MayFail THEN MaxRetries ELSE 0)

Spend(s, calls, bad) ==
    run' = [run EXCEPT !.planned = @ \ {s}, !.calls = @ + calls, !.bad = @ \/ bad]

\* Where the series of s may end after a fetch: the vendor may not list the bars
\* of the last sessions yet, and a bar that is stored stays.
Listed(s) == 0..(IF lag[s] < ListingLag THEN lag[s] ELSE ListingLag)

\* ingest_daily_series and its commit.  The series may show no split history: those
\* of a broken symbol never do, and another's not when a bar is listed or a split
\* restated between the two requests.
Stored ==
    /\ \E s \in run.planned, again \in Repeats :
          /\ Fetching(s)
          /\ \/ /\ s \in broken
                /\ Spend(s, Credits + again, again > 0)
                /\ UNCHANGED lag
             \/ /\ s \notin broken
                /\ Spend(s, Credits + again, again > 0)
                /\ \E n \in Listed(s) : lag' = [lag EXCEPT ![s] = n]
             \/ /\ s \notin broken /\ MayFail
                /\ Spend(s, Credits + again, TRUE)
                /\ lag' = [lag EXCEPT ![s] = Never]
    /\ UNCHANGED <<broken, streak>>

\* TwelveDataApiError, of any symbol: it keeps its place and the run goes on.  An
\* answer without a closed bar is one; the second request may be saved.
VendorError ==
    /\ \E s \in run.planned, calls \in 1..Credits, again \in Repeats :
          /\ Fetching(s) /\ (s \in broken \/ MayFail)
          /\ Spend(s, calls + again, s \notin broken \/ again > 0)
    /\ UNCHANGED <<lag, broken, streak>>

\* A rate limit, a refusal of the gate, a lost worker: the run ends.
RunStops ==
    /\ run.at = "fetching" /\ MayFail
    /\ Stop(TRUE)
    /\ UNCHANGED <<lag, broken, streak>>

Later(n) == IF n < MaxLag THEN n + 1 ELSE n

\* The ticks of the session have read the series; the next session closes.
NextSession ==
    /\ run.at = "done"
    /\ lag' = [s \in Symbols |-> IF lag[s] = Never THEN Never ELSE Later(lag[s])]
    /\ run' = Waiting
    /\ streak' = IF run.bad THEN Min({streak, 0}) - 1 ELSE Min({Max({streak, 0}) + 1, RefreshEvery})
    /\ UNCHANGED broken

Next == Start \/ EndOfPlan \/ Stored \/ VendorError \/ RunStops \/ NextSession

Spec == Init /\ [][Next]_vars

\* The schedule launches a run after each session and the run ends.
FairSpec == Spec /\ WF_vars(Next)
-----------------------------------------------------------------------------
\* Every variable has its type.
TypeOK ==
    /\ lag \in [Symbols -> 0..Never]
    /\ run.at \in {"waiting", "fetching", "done"} /\ run.planned \subseteq Symbols
    /\ run.credits \in 0..Need /\ run.calls \in Nat /\ run.bad \in BOOLEAN
    /\ broken \subseteq Symbols /\ streak \in (-MaxFaults)..RefreshEvery

\* "A symbol that fails writes nothing and keeps its place": symbols that never
\* succeed take places of every run, and still every other symbol comes again and
\* again to the newest bar the vendor lists, after errors, short budgets, repeats
\* that eat the budget and runs that stop half-way, while fewer symbols are broken
\* than a run has places.
EverySymbolRefreshed == \A s \in Symbols : [](s \notin broken) => []<>(lag[s] <= ListingLag)

\* "each weekday run refreshes the stalest ceil(N / REFRESH_EVERY_SESSIONS)": after
\* as many good sessions no series is older than the cadence and the lag of the
\* listing together, if no symbol is broken.  A tick accepts MAX_BAR_LAG_SESSIONS,
\* which is the cadence alone: see RoundServesTicks.
WithinLag ==
    broken = {} /\ streak = RefreshEvery /\ run.at = "waiting"
        => \A s \in Symbols : lag[s] <= RefreshEvery + ListingLag

\* "A run after the close of session D stores D. That run serves the ticks that
\* value D and the next MAX_BAR_LAG_SESSIONS sessions": when the run of a session
\* is over, as many good ones before it, every series ends within the lag a tick
\* accepts (REFRESH_EVERY_SESSIONS = MAX_BAR_LAG_SESSIONS + 1).
RoundServesTicks ==
    broken = {} /\ streak = RefreshEvery /\ run.at = "done" /\ ~run.bad
        => \A s \in Symbols : lag[s] < RefreshEvery
=============================================================================
