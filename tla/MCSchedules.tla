----------------------------- MODULE MCSchedules -----------------------------
(* What has to go on: the capture ticks (CaptureTick), which wait for each    *)
(* other's rows, and the refresh of the QQQ prices (PriceRefresh).  A         *)
(* behaviour is one of the two; the other rests in its initial state.         *)
EXTENDS MCCaptureTick, FiniteSets

CONSTANTS Symbols, MaxBroken, ListingLag, RefreshEvery, Credits, MaxRetries, MaxLag, MaxFaults

\* REFRESH_EVERY_SESSIONS and CREDITS_PER_SYMBOL are positive; the symbols are
\* those of a universe, and names compare as numbers.
ASSUME RefreshAssumption ==
    /\ IsFiniteSet(Symbols) /\ Symbols \subseteq Int
    /\ RefreshEvery \in Nat \ {0} /\ Credits \in Nat \ {0} /\ MaxLag \in Nat /\ ListingLag \in Nat

VARIABLES part, lag, broken, session, streak

refreshVars == <<lag, broken, session, streak>>
allVars == <<vars, part, refreshVars>>

\* The run has three places for five symbols, of which one may be broken.
Refresh == INSTANCE PriceRefresh WITH run <- session

\* The part that rests begins in one way.
MCInit ==
    /\ part \in {"ticks", "refresh"}
    /\ Init /\ Refresh!Init
    /\ part # "refresh" => broken = {}

RefreshStep == part = "refresh" /\ Refresh!Next /\ UNCHANGED <<part, vars>>

MCNext ==
    \/ part = "ticks" /\ Next /\ UNCHANGED <<part, refreshVars>>
    \/ RefreshStep

\* A launched tick takes its steps; there is none in the other part.  The
\* schedule launches the price lane after each session, and its run ends.
MCSpec ==
    /\ MCInit /\ [][MCNext]_allVars
    /\ TickFairness
    /\ WF_allVars(RefreshStep)

\* EverySymbolRefreshed of PriceRefresh: the QQQ price lane comes back to every
\* symbol that the vendor serves.
EverySymbolRefreshed == part = "refresh" => Refresh!EverySymbolRefreshed

\* WithinLag of PriceRefresh: after as many good sessions as a round takes, the
\* stored series are as recent as the cadence and the vendor's listing allow.
WithinLag == Refresh!WithinLag

\* RoundServesTicks of PriceRefresh: what the lane's description says of its cadence.
RoundServesTicks == Refresh!RoundServesTicks
=============================================================================
