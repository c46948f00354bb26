--------------------------- MODULE GovernedPointer ---------------------------
(***************************************************************************)
(* What the governed head registry promises its consumers                   *)
(* (truealpha_contracts/evidence_graph.py: CurrentPointer,                  *)
(* CurrentPointerRegistry): one append-only chain of advances per governed  *)
(* key.  An advance takes the next sequence number, names the head it       *)
(* supersedes, and changes the target run.  Nothing else ever happens to    *)
(* the table.  CaptureTick shows that the ticks, with all their reads,      *)
(* locks and transactions, implement exactly this.                          *)
(***************************************************************************)
EXTENDS Integers

CONSTANTS Runs,     \* capture runs that may become a head
          Cutoffs,  \* the values an advance may carry as advanced_at
          NoRun     \* previous_run of the first advance

\* mart.current_pointer of one governed key: a partial function from the
\* sequence number to the advance that holds it.
VARIABLE pointer

\* One row of the table: CurrentPointer without its content address.
Rows == [target : Runs, previous : Runs \cup {NoRun}, advanced_at : Cutoffs]

\* The sequence number the next advance takes.
IsNext(n) == /\ n \notin DOMAIN pointer
             /\ \A i \in DOMAIN pointer : i < n
             /\ n = 0 \/ n - 1 \in DOMAIN pointer

\* The table with one more row.
WithRow(n, row) ==
    [i \in DOMAIN pointer \cup {n} |-> IF i = n THEN row ELSE pointer[i]]

Init == pointer = [i \in {} |-> NoRun]

Advance(n, row) ==
    /\ IsNext(n)
    /\ row.previous = IF n = 0 THEN NoRun ELSE pointer[n - 1].target
    /\ row.target # row.previous
    /\ pointer' = WithRow(n, row)

Next == \E n \in {0} \cup {i + 1 : i \in DOMAIN pointer}, row \in Rows :
            Advance(n, row)

Spec == Init /\ [][Next]_pointer
=============================================================================
