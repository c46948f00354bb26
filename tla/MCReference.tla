----------------------------- MODULE MCReference -----------------------------
(* The reference data a capture rests on: the entity an id names             *)
(* (EntityIdentity) and the split-adjusted prices of a symbol (SplitBasis).  *)
(* A behaviour is of the one, or of the other with its runs one by one or    *)
(* overlapping, and a run checks the behaviours of some of them (Parts).      *)
EXTENDS EntityIdentity, TLC

CONSTANTS t1, t2, r1, r2, Parts,
          OverlapSession,   \* bound: the last session when runs overlap
          Runs, MaxSession, MaxSplits, Lookback, MaxLag, SplitSize, JumpLimit, MaxMove   \* of SplitBasis

ASSUME PricesAssumption ==
    /\ MaxSession \in Nat \ {0} /\ Lookback \in Nat /\ MaxLag \in Nat
    /\ SplitSize \in Nat /\ JumpLimit \in Nat /\ MaxMove \in Nat

MCTicks == {t1, t2}
MCRuns == {r1, r2}
Symmetry == Permutations(MCTicks) \cup Permutations(MCRuns)

\* The LEI is published in a head, and found in an older observation later.
MCUses == {[name |-> Lei, known |-> 2, source |-> "head"],
           [name |-> Lei, known |-> 1, source |-> "observation"],
           [name |-> Cik, known |-> 1, source |-> "head"]}

VARIABLES part, splits, closed, vendor, stored, storing, clean

priceVars == <<splits, closed, vendor, stored, storing, clean>>
allVars == <<vars, part, priceVars>>

Prices == INSTANCE SplitBasis WITH run <- storing

\* The part that rests begins in one way.
MCInit ==
    /\ part \in Parts
    /\ Init /\ Prices!Init
    /\ part = "identity" => splits = {}
    /\ part = "overlap" => Cardinality(splits) <= 1

OneByOne == \A r, s \in Runs : storing[r].at = "idle" \/ storing[s].at = "idle" \/ r = s

MCNext ==
    \/ part = "identity" /\ Next /\ UNCHANGED <<part, priceVars>>
    \/ part = "prices" /\ Prices!Next /\ OneByOne' /\ UNCHANGED <<part, vars>>
    \/ part = "overlap" /\ Prices!Next /\ closed' <= OverlapSession /\ UNCHANGED <<part, vars>>

MCSpec == MCInit /\ [][MCNext]_allVars

\* ValueOnOneBasis of SplitBasis: a share count that gets a market value is put
\* on the basis of the close by exactly the splits between them, unless runs of
\* the lane overlapped or the market hid a split.
ValueOnOneBasis == Prices!ValueOnOneBasis

\* FailsClosed of SplitBasis: it is, whatever runs overlapped and however the
\* market moved.
FailsClosed == Prices!FailsClosed
=============================================================================
