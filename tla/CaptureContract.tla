--------------------------- MODULE CaptureContract ---------------------------
(***************************************************************************)
(* What run_topt_pipeline relies on when it calls the capture executor: the *)
(* obligations are resolved one by one in plan order, a fatal one halts the *)
(* run and leaves the rest unreached, and an exception leaves nothing.      *)
(* CaptureTick's CaptureItem is this contract seen from the tick.           *)
(***************************************************************************)
EXTENDS Integers

CONSTANT ItemCount   \* the work items handed over, in plan order
VARIABLES results,   \* terminal state per work item
          status       \* what the caller sees of the report

Items == 1..ItemCount
States == {"success", "unavailable", "failed"}
Nothing == [i \in Items |-> "none"]

Init == results = Nothing /\ status = "running"

\* The next obligation in order reaches its terminal state.
Resolve(i) ==
    /\ status = "running"
    /\ results[i] = "none"
    /\ \A j \in 1..(i - 1) : results[j] # "none"
    /\ \E s \in States :
           /\ results' = [results EXCEPT ![i] = s]
           /\ status' = CASE s = "failed" -> "halted"
                          [] s # "failed" /\ i = ItemCount -> "done"
                          [] OTHER -> "running"

\* An exception: the caller's transaction rolls everything back.
Abort == /\ status = "running"
         /\ results' = Nothing
         /\ status' = "aborted"

Next == Abort \/ \E i \in Items : Resolve(i)
Spec == Init /\ [][Next]_<<results, status>>
=============================================================================
