---------------------------- MODULE MCCaptureTick ----------------------------
(* Small instances of CaptureTick.  r1 is an earlier tick than r2; f2 is the *)
(* forced launch of r2's tick, which shares its cutoff.                      *)
EXTENDS CaptureTick, TLC

CONSTANTS r1, r2, f2

MCCutoff == [r \in Runs |-> IF r = r1 THEN 1 ELSE 2]
TickSymmetry == Permutations(Ticks)
=============================================================================
