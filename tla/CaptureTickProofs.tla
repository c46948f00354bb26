-------------------------- MODULE CaptureTickProofs --------------------------
(***************************************************************************)
(* Machine-checked proofs about CaptureTick, for every set of runs, ticks,  *)
(* cells and releases and every bound:                                      *)
(*   TypeCorrect           the type invariant;                              *)
(*   PointerIsOneChain     the advances form one gapless chain;             *)
(*   TicksImplementRegistry  the ticks implement GovernedPointer;           *)
(*   HeadsArePublished, DegradedNeverServed, CapturedOnce,                  *)
(*   CapturesAreBindable, TablesAppendOnly                                  *)
(*                         what a consumer finds through the pointer.       *)
(* The chain rests on ChainInv: the unique sequence number alone keeps it,  *)
(* the row lock only turns a violation into a wait.  The rest rests on      *)
(* PublishInv: what a tick's location says of its open transaction and of   *)
(* the committed rows of its run, and who may hold those rows.              *)
(***************************************************************************)
EXTENDS CaptureTick, TLAPS

USE RunsAssumption, ReleaseAssumption, BoundsAssumption

\* Every step of the specification is one of these.
TickStep(p) == \/ \E r \in Runs : Launch(p, r)
               \/ Step(p) \/ PublishSideRaises(p) \/ Crash(p)

\* Rolling back keeps the type invariant: it only clears the tick.
LEMMA RollbackType ==
    ASSUME NEW p \in Ticks, TypeInv, Rollback(p)
    PROVE  TypeInv'
<1>1. NoResults \in [Cells -> Terminal \cup {"none"}]
  BY DEF NoResults
<1>2. TypeOK'
  BY <1>1 DEF TypeInv, TypeOK, Rollback, EndTick, ClearTx, Goto, db, env, Locations
<1>3. QED
  BY <1>2 DEF TypeInv, TypeOK, Rollback, EndTick, ClearTx, Goto, db, env, AfterFreeze

\* Committing a tick's rows keeps the committed tables well typed.
LEMMA CommitType ==
    ASSUME NEW p \in Ticks, TypeInv, pc[p] # "idle", CommitRows(p),
           pend[p] # NoRow => pend[p] \in Pending
    PROVE  /\ plan' \in [Runs -> Releases \cup {NoRelease}]
           /\ results' \in [Runs -> [Cells -> Terminal \cup {"none"}]]
           /\ nodes' \subseteq Runs
           /\ snapshot' \in [Runs -> Releases \cup {NoRelease}]
           /\ bound' \subseteq Runs \X Releases
           /\ DOMAIN pointer' \subseteq Nat
           /\ \A i \in DOMAIN pointer' : pointer'[i] \in Rows
           /\ DOMAIN pointer \subseteq DOMAIN pointer'
<1>1. run[p] \in Runs /\ rel[p] \in Releases
  BY DEF TypeInv
<1>2. Visible(p) \in [Cells -> Terminal \cup {"none"}]
  BY <1>1 DEF TypeInv, TypeOK, Visible
<1>3. /\ plan' \in [Runs -> Releases \cup {NoRelease}]
      /\ results' \in [Runs -> [Cells -> Terminal \cup {"none"}]]
      /\ nodes' \subseteq Runs
      /\ snapshot' \in [Runs -> Releases \cup {NoRelease}]
      /\ bound' \subseteq Runs \X Releases
  BY <1>1, <1>2 DEF TypeInv, TypeOK, CommitRows
<1>4. /\ DOMAIN pointer' \subseteq Nat
      /\ \A i \in DOMAIN pointer' : pointer'[i] \in Rows
      /\ DOMAIN pointer \subseteq DOMAIN pointer'
  BY <1>1 DEF TypeInv, TypeOK, CommitRows, Pending
<1>5. QED
  BY <1>3, <1>4

\* Every step keeps the type invariant.
LEMMA TypeStep == TypeInv /\ [Next]_vars => TypeInv'
<1> SUFFICES ASSUME TypeInv, [Next]_vars PROVE TypeInv'
  OBVIOUS
<1> USE DEF Locations, AfterFreeze
<1>0. NoResults \in [Cells -> Terminal \cup {"none"}]
  BY DEF NoResults
<1>1. CASE UNCHANGED vars
  BY <1>1 DEF TypeInv, TypeOK, vars, db, env, tx
<1>2. ASSUME NEW p \in Ticks, NEW r \in Runs, Launch(p, r) PROVE TypeInv'
  BY <1>2 DEF TypeInv, TypeOK, Launch, Goto, db
<1>3. ASSUME NEW p \in Ticks, PlanAndPersist(p) PROVE TypeInv'
  BY <1>3 DEF TypeInv, TypeOK, PlanAndPersist, Goto, db, env
<1>4. ASSUME NEW p \in Ticks, SatisfyFromRecent(p) PROVE TypeInv'
  BY <1>4 DEF TypeInv, TypeOK, SatisfyFromRecent, Goto, db, env, Terminal
<1>5. ASSUME NEW p \in Ticks, NEW c \in Cells, CaptureItem(p, c) PROVE TypeInv'
  BY <1>5 DEF TypeInv, TypeOK, CaptureItem, Goto, db, env
<1>6. ASSUME NEW p \in Ticks, DecideCapture(p) PROVE TypeInv'
  BY <1>6 DEF TypeInv, TypeOK, DecideCapture, Goto, db, env
<1>7. ASSUME NEW p \in Ticks, CommitCapture(p) PROVE TypeInv'
  <2>1. pc[p] # "idle" /\ CommitRows(p)
    BY <1>7 DEF CommitCapture
  <2>2. pend[p] # NoRow => pend[p] \in Pending
    BY DEF TypeInv, TypeOK
  <2>3. TypeOK'
    BY <1>0, <1>7, <2>1, <2>2, CommitType
       DEF TypeInv, TypeOK, CommitCapture, ClearTx, Goto, env
  <2>4. DOMAIN pointer \subseteq DOMAIN pointer'
    BY <2>1, <2>2, CommitType
  <2>5. QED
    BY <1>7, <2>3, <2>4
       DEF TypeInv, TypeOK, CommitCapture, ClearTx, Goto, env
<1>8. ASSUME NEW p \in Ticks, RecordAndRefuse(p) PROVE TypeInv'
  <2>1. pc[p] # "idle" /\ CommitRows(p) /\ run[p] \in Runs
    BY <1>8 DEF RecordAndRefuse, TypeInv
  <2>2. pend[p] # NoRow => pend[p] \in Pending
    BY DEF TypeInv, TypeOK
  <2>3. report' \in [Runs -> SUBSET Reports]
    BY <1>8, <2>1 DEF TypeInv, TypeOK, RecordAndRefuse, Reports
  <2>4. TypeOK'
    BY <1>0, <1>8, <2>1, <2>2, <2>3, CommitType
       DEF TypeInv, TypeOK, RecordAndRefuse, EndTick, ClearTx, Goto, env
  <2>5. DOMAIN pointer \subseteq DOMAIN pointer'
    BY <2>1, <2>2, CommitType
  <2>6. QED
    BY <1>8, <2>4, <2>5
       DEF TypeInv, TypeOK, RecordAndRefuse, EndTick, ClearTx, Goto, env
<1>9. ASSUME NEW p \in Ticks, FreezeAndMaterialize(p) PROVE TypeInv'
  BY <1>9 DEF TypeInv, TypeOK, FreezeAndMaterialize, Goto, db, env
<1>10. ASSUME NEW p \in Ticks, JudgeAndReplay(p) PROVE TypeInv'
  BY <1>10 DEF TypeInv, TypeOK, JudgeAndReplay, Goto, db, env
<1>11. ASSUME NEW p \in Ticks, RegisterEvidence(p) PROVE TypeInv'
  <2>1. run[p] \in Runs
    BY <1>11 DEF TypeInv, RegisterEvidence
  <2>2. [run |-> run[p], advanced |-> FALSE, degraded |-> FALSE] \in Registrations
    BY <2>1 DEF Registrations
  <2>3. registration' \in [Ticks -> Registrations \cup {NoRow}]
    BY <1>11, <2>2 DEF TypeInv, TypeOK, RegisterEvidence
  <2>4. /\ UNCHANGED <<db, env, run, rel, work, lock, pend, grade>>
        /\ pc[p] = "register"
    BY <1>11 DEF RegisterEvidence
  <2>5. /\ pc' \in [Ticks -> Locations]
        /\ \A q \in Ticks : q # p => pc'[q] = pc[q]
    BY <1>11 DEF RegisterEvidence, Goto, TypeInv, TypeOK
  <2>6. mine' \in [Ticks -> SUBSET {"plan", "node", "snapshot", "edge"}]
    BY <1>11 DEF RegisterEvidence, TypeInv, TypeOK
  <2>7. /\ seen' \in [Ticks -> Nat \cup {-1}]
        /\ \A q \in Ticks : seen'[q] = -1 \/ seen'[q] \in DOMAIN pointer
    <3>1. \/ seen' = seen
          \/ \E h \in DOMAIN pointer : seen' = [seen EXCEPT ![p] = h]
          \/ seen' = [seen EXCEPT ![p] = -1]
      BY <1>11 DEF RegisterEvidence
    <3>2. DOMAIN pointer \subseteq Nat /\ seen \in [Ticks -> Nat \cup {-1}]
      BY DEF TypeInv, TypeOK
    <3>3. QED
      BY <3>1, <3>2 DEF TypeInv
  <2>8. TypeOK'
    BY <2>3, <2>4, <2>5, <2>6, <2>7 DEF TypeInv, TypeOK, db, env
  <2>9. QED
    BY <2>4, <2>5, <2>7, <2>8 DEF TypeInv, db
<1>12. ASSUME NEW p \in Ticks, SelectHeadForUpdate(p) PROVE TypeInv'
  BY <1>12 DEF TypeInv, TypeOK, SelectHeadForUpdate, Goto, db, env
<1>13. ASSUME NEW p \in Ticks, CheckHead(p) PROVE TypeInv'
  BY <1>13, RollbackType DEF TypeInv, TypeOK, CheckHead, Goto, db, env
<1>14. ASSUME NEW p \in Ticks, InsertPointer(p) PROVE TypeInv'
  <2>1. CASE Rollback(p)
    BY <2>1, RollbackType
  <2>2. CASE ~Rollback(p)
    <3>1. run[p] \in Runs /\ Built(p) \in Pending
      BY <1>14 DEF TypeInv, TypeOK, InsertPointer, Built, Pending, Rows
    <3>2. [run |-> run[p], advanced |-> TRUE, degraded |-> grade[p] = "missed"]
             \in Registrations
      BY <3>1 DEF Registrations
    <3>3. registration' \in [Ticks -> Registrations \cup {NoRow}]
      BY <1>14, <2>2, <3>2 DEF TypeInv, TypeOK, InsertPointer
    <3>4. /\ UNCHANGED <<db, env, run, rel, work, mine, seen, lock, grade>>
          /\ pend' = [pend EXCEPT ![p] = Built(p)]
          /\ pc[p] = "insert" /\ pc' = [pc EXCEPT ![p] = "publish"]
      BY <1>14, <2>2 DEF InsertPointer, Goto
    <3>5. TypeOK'
      BY <3>1, <3>3, <3>4 DEF TypeInv, TypeOK, db, env
    <3>6. QED
      BY <3>4, <3>5 DEF TypeInv, TypeOK, db
  <2>3. QED
    BY <2>1, <2>2
<1>15. ASSUME NEW p \in Ticks, CommitPublish(p) PROVE TypeInv'
  <2>1. pc[p] # "idle" /\ CommitRows(p) /\ run[p] \in Runs
    BY <1>15 DEF CommitPublish, TypeInv
  <2>2. pend[p] # NoRow => pend[p] \in Pending
    BY DEF TypeInv, TypeOK
  <2>3. report' \in [Runs -> SUBSET Reports]
    BY <1>15, <2>1 DEF TypeInv, TypeOK, CommitPublish, Reports
  <2>4. TypeOK'
    BY <1>0, <1>15, <2>1, <2>2, <2>3, CommitType
       DEF TypeInv, TypeOK, CommitPublish, EndTick, ClearTx, Goto, env
  <2>5. DOMAIN pointer \subseteq DOMAIN pointer'
    BY <2>1, <2>2, CommitType
  <2>6. QED
    BY <1>15, <2>4, <2>5
       DEF TypeInv, TypeOK, CommitPublish, EndTick, ClearTx, Goto, env
<1>16. ASSUME NEW p \in Ticks,
              FreezeRefused(p) \/ PublishSideRaises(p) \/ Crash(p)
       PROVE TypeInv'
  BY <1>16, RollbackType DEF FreezeRefused, PublishSideRaises, Crash
<1>17. CASE Deploy
  BY <1>0, <1>17 DEF TypeInv, TypeOK, Deploy, db
<1>18. QED
  BY <1>1, <1>2, <1>3, <1>4, <1>5, <1>6, <1>7, <1>8, <1>9, <1>10, <1>11,
     <1>12, <1>13, <1>14, <1>15, <1>16, <1>17 DEF Next, Step

\* The type invariant holds in every reachable state, for every instance.
THEOREM TypeCorrect == Spec => []TypeOK
<1>1. Init => TypeInv
  BY DEF Init, TypeInv, TypeOK, NoResults, Locations, Terminal, AfterFreeze
<1>2. TypeInv => TypeOK
  BY DEF TypeInv
<1>3. QED
  BY <1>1, <1>2, TypeStep, PTL DEF Spec
-----------------------------------------------------------------------------
(* The chain.                                                              *)

Advancing == {"advance", "lockwait", "insert"}

\* A step that leaves the table alone, adds no pending row and brings no tick
\* to the advance keeps the chain and its pending links.
LEMMA ChainQuiet ==
    ASSUME ChainInv, pointer' = pointer,
           \A q \in Ticks : pend'[q] = pend[q] \/ pend'[q] = NoRow,
           \A q \in Ticks : pc'[q] \in Advancing /\ seen'[q] # -1 =>
               pc[q] \in Advancing /\ seen'[q] = seen[q] /\ run'[q] = run[q]
    PROVE  HeadChain' /\ DownClosed' /\ PendingLinks'
<1>1. HeadChain' /\ DownClosed'
  BY DEF ChainInv, HeadChain, DownClosed
<1>2. PendingLinks'
  BY DEF ChainInv, PendingLinks, Advancing
<1>3. QED
  BY <1>1, <1>2

\* Committing a pending row extends the chain by its next link; committing
\* without one changes nothing.
LEMMA ChainCommit ==
    ASSUME ChainInv, NEW p \in Ticks, CommitRows(p), ClearTx(p),
           pc' = [pc EXCEPT ![p] = "idle"] \/ pc' = [pc EXCEPT ![p] = "freeze"],
           \A q \in Ticks \ {p} : run'[q] = run[q]
    PROVE  HeadChain' /\ DownClosed' /\ PendingLinks'
<1>1. /\ pend'[p] = NoRow /\ seen'[p] = -1
      /\ \A q \in Ticks \ {p} : pend'[q] = pend[q] /\ seen'[q] = seen[q] /\ pc'[q] = pc[q]
      /\ pc'[p] \in {"idle", "freeze"}
  BY DEF ChainInv, TypeInv, TypeOK, ClearTx
<1>2. CASE pend[p] = NoRow
  <2>1. pointer' = pointer
    BY <1>2 DEF CommitRows
  <2>2. QED
    BY <1>1, <2>1, ChainQuiet DEF Advancing
<1>3. CASE pend[p] # NoRow
  <2> DEFINE n == pend[p].sequence
  <2>1. /\ n \in Nat /\ n \notin DOMAIN pointer
        /\ pend[p].row \in Rows
        /\ IF n = 0 THEN pend[p].row.previous = NoRun
           ELSE /\ n - 1 \in DOMAIN pointer
                /\ pend[p].row.previous = pointer[n - 1].target
                /\ pend[p].row.target # pend[p].row.previous
    BY <1>3 DEF ChainInv, PendingLinks, Pending
  <2>2. /\ DOMAIN pointer' = DOMAIN pointer \cup {n}
        /\ pointer'[n] = pend[p].row
        /\ \A i \in DOMAIN pointer : pointer'[i] = pointer[i]
    BY <1>3, <2>1 DEF CommitRows
  <2>3. DOMAIN pointer \subseteq Nat
    BY DEF ChainInv, TypeInv, TypeOK
  <2>4. HeadChain'
    <3> SUFFICES ASSUME NEW i \in DOMAIN pointer'
                 PROVE  IF i = 0 THEN pointer'[i].previous = NoRun
                        ELSE /\ i - 1 \in DOMAIN pointer'
                             /\ pointer'[i].previous = pointer'[i - 1].target
                             /\ pointer'[i].target # pointer'[i].previous
      BY DEF HeadChain
    <3>1. CASE i = n
      BY <2>1, <2>2, <3>1
    <3>2. CASE i # n
      BY <2>1, <2>2, <3>2 DEF ChainInv, HeadChain
    <3>3. QED
      BY <3>1, <3>2
  <2>5. DownClosed'
    <3>1. 0..n \subseteq DOMAIN pointer \cup {n}
      BY <2>1, <2>3 DEF ChainInv, DownClosed
    <3>2. QED
      BY <2>1, <2>2, <2>3, <3>1 DEF ChainInv, DownClosed
  <2>6. PendingLinks'
    <3> SUFFICES ASSUME NEW q \in Ticks
        PROVE  /\ (pc'[q] \in Advancing /\ seen'[q] # -1)
                      => pointer'[seen'[q]].target # run'[q]
               /\ pend'[q] # NoRow =>
                      /\ pend'[q] \in Pending
                      /\ pend'[q].sequence \notin DOMAIN pointer'
                      /\ IF pend'[q].sequence = 0 THEN pend'[q].row.previous = NoRun
                         ELSE /\ pend'[q].sequence - 1 \in DOMAIN pointer'
                              /\ pend'[q].row.previous = pointer'[pend'[q].sequence - 1].target
                              /\ pend'[q].row.target # pend'[q].row.previous
                      /\ pend'[q].row.advanced_at \in {Cutoff[r] : r \in Runs}
                      /\ \A t \in Ticks \ {q} :
                             pend'[t] # NoRow => pend'[t].sequence # pend'[q].sequence
      BY DEF PendingLinks, Advancing
    <3>1. CASE q = p
      BY <1>1, <3>1 DEF Advancing
    <3>2. CASE q # p
      <4>1. (pc'[q] \in Advancing /\ seen'[q] # -1) => pointer'[seen'[q]].target # run'[q]
        BY <1>1, <2>2, <3>2 DEF ChainInv, PendingLinks, TypeInv, Advancing
      <4>2. ASSUME pend'[q] # NoRow
            PROVE  /\ pend'[q] \in Pending
                   /\ pend'[q].sequence \notin DOMAIN pointer'
                   /\ IF pend'[q].sequence = 0 THEN pend'[q].row.previous = NoRun
                      ELSE /\ pend'[q].sequence - 1 \in DOMAIN pointer'
                           /\ pend'[q].row.previous = pointer'[pend'[q].sequence - 1].target
                           /\ pend'[q].row.target # pend'[q].row.previous
                   /\ pend'[q].row.advanced_at \in {Cutoff[r] : r \in Runs}
        BY <1>1, <1>3, <2>2, <3>2, <4>2 DEF ChainInv, PendingLinks
      <4>3. ASSUME pend'[q] # NoRow, NEW t \in Ticks \ {q}, pend'[t] # NoRow
            PROVE  pend'[t].sequence # pend'[q].sequence
        BY <1>1, <3>2, <4>3 DEF ChainInv, PendingLinks
      <4>4. QED
        BY <4>1, <4>2, <4>3
    <3>3. QED
      BY <3>1, <3>2
  <2>7. QED
    BY <2>4, <2>5, <2>6
<1>4. QED
  BY <1>2, <1>3

\* Rolling back keeps the chain.
LEMMA ChainRollback ==
    ASSUME ChainInv, NEW p \in Ticks, Rollback(p)
    PROVE  HeadChain' /\ DownClosed' /\ PendingLinks'
<1>1. pointer' = pointer
  BY DEF Rollback, db
<1>2. \A q \in Ticks : pend'[q] = pend[q] \/ pend'[q] = NoRow
  BY DEF ChainInv, TypeInv, TypeOK, Rollback, EndTick, ClearTx
<1>3. \A q \in Ticks : pc'[q] \in Advancing /\ seen'[q] # -1 =>
          pc[q] \in Advancing /\ seen'[q] = seen[q] /\ run'[q] = run[q]
  BY DEF ChainInv, TypeInv, TypeOK, Rollback, EndTick, ClearTx, Goto, Advancing
<1>4. QED
  BY <1>1, <1>2, <1>3, ChainQuiet

\* Reading the head: only a tick of another run goes on to the advance.
LEMMA ChainRegister ==
    ASSUME ChainInv, NEW p \in Ticks, RegisterEvidence(p)
    PROVE  HeadChain' /\ DownClosed' /\ PendingLinks'
<1>1. pointer' = pointer /\ pend' = pend /\ run' = run
  BY DEF RegisterEvidence, db
<1>2. HeadChain' /\ DownClosed'
  BY <1>1 DEF ChainInv, HeadChain, DownClosed
<1>3. ASSUME NEW q \in Ticks, pc'[q] \in Advancing, seen'[q] # -1
      PROVE  pointer[seen'[q]].target # run[q]
  <2>1. CASE q # p
    <3>1. pc'[q] = pc[q] /\ seen'[q] = seen[q]
      BY <2>1 DEF ChainInv, TypeInv, TypeOK, RegisterEvidence, Goto
    <3>2. QED
      BY <1>3, <3>1 DEF ChainInv, PendingLinks, Advancing
  <2>2. CASE q = p
    <3>1. \/ pc' = [pc EXCEPT ![p] = "publish"]
          \/ \E h \in DOMAIN pointer : /\ pointer[h].target # run[p]
                                       /\ seen' = [seen EXCEPT ![p] = h]
          \/ seen' = [seen EXCEPT ![p] = -1]
      BY DEF RegisterEvidence, Goto
    <3>2. pc \in [Ticks -> Locations] /\ seen \in [Ticks -> Nat \cup {-1}]
      BY DEF ChainInv, TypeInv, TypeOK
    <3>3. QED
      BY <1>3, <2>2, <3>1, <3>2 DEF Advancing
  <2>3. QED
    BY <2>1, <2>2
<1>4. PendingLinks'
  BY <1>1, <1>3 DEF ChainInv, PendingLinks, Advancing
<1>5. QED
  BY <1>2, <1>4

\* The insert: the sequence is free, and no other open transaction has it.
LEMMA ChainInsert ==
    ASSUME ChainInv, NEW p \in Ticks, InsertPointer(p)
    PROVE  HeadChain' /\ DownClosed' /\ PendingLinks'
<1>1. CASE Rollback(p)
  BY <1>1, ChainRollback
<1>2. CASE ~Rollback(p)
  <2>1. /\ pointer' = pointer /\ run' = run /\ seen' = seen
        /\ pend' = [pend EXCEPT ![p] = Built(p)]
        /\ pc[p] = "insert" /\ pc' = [pc EXCEPT ![p] = "publish"]
        /\ Built(p).sequence \notin DOMAIN pointer
        /\ ~InsertWaits(p)
    BY <1>2 DEF InsertPointer, Goto, db
  <2>2. /\ pc \in [Ticks -> Locations] /\ pend \in [Ticks -> Pending \cup {NoRow}]
        /\ run[p] \in Runs /\ DOMAIN pointer \subseteq Nat
        /\ seen[p] = -1 \/ seen[p] \in DOMAIN pointer
    BY <2>1 DEF ChainInv, TypeInv, TypeOK
  <2>3. HeadChain' /\ DownClosed'
    BY <2>1 DEF ChainInv, HeadChain, DownClosed
  <2>4. /\ Built(p) \in Pending
        /\ IF Built(p).sequence = 0 THEN Built(p).row.previous = NoRun
           ELSE /\ Built(p).sequence - 1 \in DOMAIN pointer
                /\ Built(p).row.previous = pointer[Built(p).sequence - 1].target
                /\ Built(p).row.target # Built(p).row.previous
        /\ Built(p).row.advanced_at \in {Cutoff[r] : r \in Runs}
    <3>1. seen[p] # -1 => pointer[seen[p]].target # run[p]
      BY <2>1 DEF ChainInv, PendingLinks
    <3>2. seen[p] # -1 => pointer[seen[p]] \in Rows
      BY <2>2 DEF ChainInv, TypeInv, TypeOK
    <3>3. Built(p) \in Pending
      BY <2>2, <3>2 DEF Built, Pending, Rows
    <3>4. QED
      BY <2>2, <3>1, <3>3 DEF Built
  <2>5. \A q \in Ticks \ {p} : pend[q] # NoRow => pend[q].sequence # Built(p).sequence
    BY <2>1 DEF InsertWaits
  <2>6. PendingLinks'
    <3>1. ASSUME NEW q \in Ticks, pc'[q] \in Advancing, seen'[q] # -1
          PROVE  pointer'[seen'[q]].target # run'[q]
      BY <2>1, <2>2, <3>1 DEF ChainInv, PendingLinks, Advancing
    <3>2. pend'[p] = Built(p) /\ \A q \in Ticks \ {p} : pend'[q] = pend[q]
      BY <2>1, <2>2
    <3>3. ASSUME NEW q \in Ticks, pend'[q] # NoRow
          PROVE  /\ pend'[q] \in Pending
                 /\ pend'[q].sequence \notin DOMAIN pointer'
                 /\ IF pend'[q].sequence = 0 THEN pend'[q].row.previous = NoRun
                    ELSE /\ pend'[q].sequence - 1 \in DOMAIN pointer'
                         /\ pend'[q].row.previous = pointer'[pend'[q].sequence - 1].target
                         /\ pend'[q].row.target # pend'[q].row.previous
                 /\ pend'[q].row.advanced_at \in {Cutoff[r] : r \in Runs}
      <4>1. CASE q = p
        BY <2>1, <2>4, <3>2, <4>1
      <4>2. CASE q # p
        BY <2>1, <3>2, <3>3, <4>2 DEF ChainInv, PendingLinks
      <4>3. QED
        BY <4>1, <4>2
    <3>4. ASSUME NEW q \in Ticks, NEW t \in Ticks \ {q}, pend'[q] # NoRow, pend'[t] # NoRow
          PROVE  pend'[t].sequence # pend'[q].sequence
      BY <2>5, <3>2, <3>4 DEF ChainInv, PendingLinks
    <3>5. QED
      BY <3>1, <3>3, <3>4 DEF PendingLinks, Advancing
  <2>7. QED
    BY <2>3, <2>6
<1>3. QED
  BY <1>1, <1>2

\* Every step keeps the chain invariant.
LEMMA ChainStep == ChainInv /\ [Next]_vars => ChainInv'
<1> SUFFICES ASSUME ChainInv, [Next]_vars
             PROVE  HeadChain' /\ DownClosed' /\ PendingLinks'
  BY TypeStep DEF ChainInv
<1> USE DEF Advancing
<1>1. CASE UNCHANGED vars
  BY <1>1, ChainQuiet DEF vars, db, tx
<1>2. ASSUME NEW p \in Ticks, NEW r \in Runs, Launch(p, r)
      PROVE  HeadChain' /\ DownClosed' /\ PendingLinks'
  BY <1>2, ChainQuiet DEF ChainInv, TypeInv, TypeOK, Launch, Goto, db
<1>3. ASSUME NEW p \in Ticks, PlanAndPersist(p)
      PROVE  HeadChain' /\ DownClosed' /\ PendingLinks'
  BY <1>3, ChainQuiet DEF ChainInv, TypeInv, TypeOK, PlanAndPersist, Goto, db
<1>4. ASSUME NEW p \in Ticks, SatisfyFromRecent(p)
      PROVE  HeadChain' /\ DownClosed' /\ PendingLinks'
  BY <1>4, ChainQuiet DEF ChainInv, TypeInv, TypeOK, SatisfyFromRecent, Goto, db
<1>5. ASSUME NEW p \in Ticks, NEW c \in Cells, CaptureItem(p, c)
      PROVE  HeadChain' /\ DownClosed' /\ PendingLinks'
  BY <1>5, ChainQuiet DEF ChainInv, TypeInv, TypeOK, CaptureItem, Goto, db
<1>6. ASSUME NEW p \in Ticks, DecideCapture(p)
      PROVE  HeadChain' /\ DownClosed' /\ PendingLinks'
  BY <1>6, ChainQuiet DEF ChainInv, TypeInv, TypeOK, DecideCapture, Goto, db
<1>7. ASSUME NEW p \in Ticks, CommitCapture(p)
      PROVE  HeadChain' /\ DownClosed' /\ PendingLinks'
  BY <1>7, ChainCommit DEF CommitCapture, Goto
<1>8. ASSUME NEW p \in Ticks, RecordAndRefuse(p) \/ CommitPublish(p)
      PROVE  HeadChain' /\ DownClosed' /\ PendingLinks'
  <2>1. CommitRows(p) /\ EndTick(p)
    BY <1>8 DEF RecordAndRefuse, CommitPublish
  <2>2. \A q \in Ticks \ {p} : run'[q] = run[q]
    BY <2>1 DEF EndTick, ChainInv, TypeInv, TypeOK
  <2>3. QED
    BY <2>1, <2>2, ChainCommit DEF EndTick, Goto
<1>9. ASSUME NEW p \in Ticks, FreezeAndMaterialize(p)
      PROVE  HeadChain' /\ DownClosed' /\ PendingLinks'
  BY <1>9, ChainQuiet DEF ChainInv, TypeInv, TypeOK, FreezeAndMaterialize, Goto, db
<1>10. ASSUME NEW p \in Ticks, JudgeAndReplay(p)
       PROVE  HeadChain' /\ DownClosed' /\ PendingLinks'
  BY <1>10, ChainQuiet DEF ChainInv, TypeInv, TypeOK, JudgeAndReplay, Goto, db
<1>11. ASSUME NEW p \in Ticks, SelectHeadForUpdate(p)
       PROVE  HeadChain' /\ DownClosed' /\ PendingLinks'
  BY <1>11, ChainQuiet DEF ChainInv, TypeInv, TypeOK, SelectHeadForUpdate, Goto, db
<1>12. ASSUME NEW p \in Ticks, CheckHead(p)
       PROVE  HeadChain' /\ DownClosed' /\ PendingLinks'
  <2>1. CASE Rollback(p)
    BY <2>1, ChainRollback
  <2>2. CASE ~Rollback(p)
    BY <1>12, <2>2, ChainQuiet DEF ChainInv, TypeInv, TypeOK, CheckHead, Goto, db
  <2>3. QED
    BY <2>1, <2>2
<1>13. ASSUME NEW p \in Ticks,
              FreezeRefused(p) \/ PublishSideRaises(p) \/ Crash(p)
       PROVE  HeadChain' /\ DownClosed' /\ PendingLinks'
  BY <1>13, ChainRollback DEF FreezeRefused, PublishSideRaises, Crash
<1>14. CASE Deploy
  BY <1>14, ChainQuiet DEF Deploy, db
<1>15. QED
  BY <1>1, <1>2, <1>3, <1>4, <1>5, <1>6, <1>7, <1>8, <1>9, <1>10, <1>11, <1>12,
     <1>13, <1>14, ChainRegister, ChainInsert DEF Next, Step

LEMMA ChainInit == Init => ChainInv
<1>1. Init => TypeInv
  BY DEF Init, TypeInv, TypeOK, NoResults, Locations, Terminal, AfterFreeze
<1>2. QED
  BY <1>1 DEF Init, ChainInv, HeadChain, DownClosed, PendingLinks

\* However ticks, crashes, retries and deploys interleave, the advances of a
\* governed key are one gapless chain in which each row names the run below.
THEOREM PointerIsOneChain == Spec => []HeadChain
<1>1. ChainInv => HeadChain
  BY DEF ChainInv
<1>2. QED
  BY <1>1, ChainInit, ChainStep, PTL DEF Spec

\* Every step of the ticks is, on the pointer table, one advance of the
\* registry's contract or no change at all.
LEMMA RegistryStep == ChainInv /\ [Next]_vars => [Registry!Next]_pointer
<1> SUFFICES ASSUME ChainInv, [Next]_vars, pointer' # pointer
             PROVE  Registry!Next
  OBVIOUS
<1>1. PICK p \in Ticks : CommitRows(p)
  BY DEF Next, Step, vars, db, Launch, PlanAndPersist, SatisfyFromRecent,
         CaptureItem, DecideCapture, CommitCapture, RecordAndRefuse,
         FreezeAndMaterialize, FreezeRefused, JudgeAndReplay, RegisterEvidence,
         SelectHeadForUpdate, CheckHead, InsertPointer, CommitPublish,
         PublishSideRaises, Crash, Rollback, Deploy
<1> DEFINE n == pend[p].sequence
           row == pend[p].row
<1>2. pend[p] # NoRow
  BY <1>1 DEF CommitRows
<1>3. /\ pend[p] \in Pending /\ n \in Nat /\ row \in Rows
      /\ n \notin DOMAIN pointer
      /\ IF n = 0 THEN row.previous = NoRun
         ELSE /\ n - 1 \in DOMAIN pointer
              /\ row.previous = pointer[n - 1].target
              /\ row.target # row.previous
      /\ row.advanced_at \in {Cutoff[r] : r \in Runs}
  BY <1>2 DEF ChainInv, PendingLinks, Pending
<1>4. DOMAIN pointer \subseteq Nat
  BY DEF ChainInv, TypeInv, TypeOK
<1>5. \A i \in DOMAIN pointer : i < n
  <2> SUFFICES ASSUME NEW i \in DOMAIN pointer, ~(i < n) PROVE FALSE
    OBVIOUS
  <2>1. n \in 0..i
    BY <1>3, <1>4
  <2>2. QED
    BY <1>3, <2>1 DEF ChainInv, DownClosed
<1>6. row \in Registry!Rows
  BY <1>3 DEF Registry!Rows, Rows
<1>7. n \in {0} \cup {i + 1 : i \in DOMAIN pointer}
  BY <1>3, <1>4
<1>8. pointer' = Registry!WithRow(n, row)
  BY <1>1, <1>2 DEF CommitRows, Registry!WithRow
<1>9. row.target # row.previous
  BY <1>3 DEF Rows
<1>10. Registry!Advance(n, row)
  BY <1>3, <1>5, <1>8, <1>9 DEF Registry!Advance, Registry!IsNext
<1>11. QED
  BY <1>6, <1>7, <1>10 DEF Registry!Next

\* The ticks implement the contract of the governed head registry.
THEOREM TicksImplementRegistry == Spec => ImplementsRegistry
<1>1. Init => Registry!Init
  BY DEF Init, Registry!Init
<1>2. QED
  BY <1>1, ChainInit, ChainStep, RegistryStep, PTL
     DEF Spec, ImplementsRegistry, Registry!Spec
-----------------------------------------------------------------------------
(* The published run.                                                      *)

LEMMA CellsNonempty == 1 \in Cells
  BY DEF Cells

\* A run with every obligation resolved has a terminal result.
LEMMA ResolvedIsTerminal ==
    ASSUME NEW w, AllResolved(w) PROVE SomeTerminal(w)
  BY CellsNonempty DEF AllResolved, SomeTerminal

\* A tick that wrote no result sees the committed ones.
LEMMA VisibleQuiet ==
    ASSUME TypeInv, NEW p \in Ticks, run[p] \in Runs, work[p] = NoResults
    PROVE  Visible(p) = results[run[p]]
  BY DEF TypeInv, TypeOK, Visible, NoResults

\* A tick that captures a run with nothing on file sees its own results.
LEMMA VisibleFresh ==
    ASSUME TypeInv, NEW p \in Ticks, run[p] \in Runs, ~SomeTerminal(results[run[p]])
    PROVE  Visible(p) = work[p]
  BY DEF TypeInv, TypeOK, Visible, SomeTerminal

\* What the location, the open transaction and the rows of a tick's run say
\* of each other is kept by a step that touches none of them.
LEMMA RowsKept ==
    ASSUME NEW q \in Ticks, RowsOf(q),
           pc'[q] = pc[q], run'[q] = run[q], rel'[q] = rel[q], work'[q] = work[q],
           mine'[q] = mine[q], pend'[q] = pend[q],
           run[q] \in Runs =>
               /\ plan'[run[q]] = plan[run[q]] /\ results'[run[q]] = results[run[q]]
               /\ snapshot'[run[q]] = snapshot[run[q]],
           pc[q] # "idle" => run[q] \in Runs,
           bound \subseteq bound'
    PROVE  RowsOf(q)'
  BY DEF RowsOf, FreshCapture, FoundDegraded, Publishing, SomeTerminal, AllResolved,
         AfterFreeze, Capturing, Cells, NoResults

\* A step of one tick that commits nothing and takes neither the run plan nor
\* a snapshot.
LEMMA LocalStep ==
    ASSUME PublishInv, NEW p \in Ticks, db' = db,
           \A q \in Ticks \ {p} :
               /\ pc'[q] = pc[q] /\ run'[q] = run[q] /\ rel'[q] = rel[q]
               /\ work'[q] = work[q] /\ mine'[q] = mine[q] /\ pend'[q] = pend[q],
           RowsOf(p)',
           \A k \in {"plan", "snapshot"} : k \in mine'[p] => k \in mine[p] /\ run'[p] = run[p],
           \/ pc'[p] = "plan"
           \/ run'[p] = run[p] /\ pc[p] # "plan"
           \/ run'[p] = NoRun
    PROVE  RunRows' /\ OneHolder' /\ HeadIsPublished' /\ \A q \in Ticks : RowsOf(q)'
<1>1. RunRows'
  BY DEF PublishInv, RunRows, db, SomeTerminal, AllResolved
<1>2. HeadIsPublished'
  BY DEF PublishInv, HeadIsPublished, db, AllResolved
<1>3. ASSUME NEW q \in Ticks PROVE RowsOf(q)'
  <2>1. CASE q = p
    BY <2>1
  <2>2. CASE q # p
    BY <2>2, RowsKept DEF PublishInv, ChainInv, TypeInv, db
  <2>3. QED
    BY <2>1, <2>2
<1>4. OneHolder'
  <2> SUFFICES ASSUME NEW s \in Ticks, NEW q \in Ticks \ {s}, run'[q] = run'[s]
               PROVE  /\ "plan" \in mine'[s] => pc'[q] = "plan"
                      /\ "snapshot" \in mine'[s] => "snapshot" \notin mine'[q]
    BY DEF OneHolder
  <2>1. \A t \in Ticks : mine[t] # {} => pc[t] # "idle" /\ run[t] \in Runs
    BY DEF PublishInv, ChainInv, TypeInv, RowsOf
  <2>2. CASE s = p
    BY <2>1, <2>2 DEF PublishInv, OneHolder
  <2>3. CASE s # p /\ q = p
    BY <2>1, <2>3 DEF PublishInv, OneHolder
  <2>4. CASE s # p /\ q # p
    BY <2>4 DEF PublishInv, OneHolder
  <2>5. QED
    BY <2>2, <2>3, <2>4
<1>5. QED
  BY <1>1, <1>2, <1>3, <1>4

Published == RunRows /\ OneHolder /\ HeadIsPublished /\ \A q \in Ticks : RowsOf(q)

\* Rolling back: the rows on file are untouched and the tick holds nothing.
LEMMA PublishRollback ==
    ASSUME PublishInv, NEW p \in Ticks, Rollback(p) PROVE Published'
<1>1. TypeOK
  BY DEF PublishInv, ChainInv, TypeInv
<1>2. /\ pc'[p] = "idle" /\ run'[p] = NoRun /\ mine'[p] = {}
      /\ work'[p] = NoResults /\ pend'[p] = NoRow
      /\ \A q \in Ticks \ {p} :
             /\ pc'[q] = pc[q] /\ run'[q] = run[q] /\ rel'[q] = rel[q]
             /\ work'[q] = work[q] /\ mine'[q] = mine[q] /\ pend'[q] = pend[q]
      /\ db' = db
  BY <1>1 DEF TypeOK, Rollback, EndTick, ClearTx, Goto
<1>3. RowsOf(p)'
  BY <1>2 DEF RowsOf, AfterFreeze, Capturing, NoResults, Cells
<1>4. QED
  BY <1>2, <1>3, LocalStep DEF Published

\* A tick that plans: it takes the plan of a run with nothing on file, and
\* then every other tick of the run still waits to plan.
LEMMA PublishPlan ==
    ASSUME PublishInv, NEW p \in Ticks, PlanAndPersist(p) PROVE Published'
<1>1. /\ TypeOK /\ run[p] \in Runs /\ rel[p] \in Releases
      /\ pc[p] = "plan" /\ mine[p] = {} /\ work[p] = NoResults /\ pend[p] = NoRow
  BY DEF PublishInv, ChainInv, TypeInv, PlanAndPersist, RowsOf
<1>2. /\ \A q \in Ticks \ {p} : pc'[q] = pc[q] /\ mine'[q] = mine[q]
      /\ run' = run /\ rel' = rel /\ work' = work /\ pend' = pend /\ db' = db
      /\ ~OtherHolds(p, "plan")
      /\ mine'[p] = IF plan[run[p]] = NoRelease THEN {"plan"} ELSE {}
      /\ pc'[p] = CASE AllResolved(results[run[p]]) -> "freeze"
                    [] ~SomeTerminal(results[run[p]]) -> "reuse"
                    [] OTHER -> "refuse"
  BY <1>1 DEF TypeOK, PlanAndPersist, Goto
<1>3. /\ plan[run[p]] # NoRelease <=> SomeTerminal(results[run[p]])
      /\ AllResolved(results[run[p]]) => SomeTerminal(results[run[p]])
  BY <1>1, ResolvedIsTerminal DEF PublishInv, RunRows
<1>4. plan' = plan /\ results' = results /\ snapshot' = snapshot /\ bound' = bound
  BY <1>2 DEF db
<1>5. \/ /\ pc'[p] = "freeze" /\ AllResolved(results[run[p]]) /\ mine'[p] = {}
      \/ /\ pc'[p] = "reuse" /\ ~SomeTerminal(results[run[p]]) /\ mine'[p] = {"plan"}
      \/ /\ pc'[p] = "refuse" /\ mine'[p] = {}
         /\ SomeTerminal(results[run[p]]) /\ ~AllResolved(results[run[p]])
  BY <1>2, <1>3
<1>6. RowsOf(p)'
  BY <1>1, <1>2, <1>4, <1>5 DEF RowsOf, FreshCapture, FoundDegraded, AfterFreeze, Capturing,
     SomeTerminal, AllResolved, NoResults, Cells
<1>7. ASSUME NEW q \in Ticks PROVE RowsOf(q)'
  <2>1. CASE q = p
    BY <1>6, <2>1
  <2>2. CASE q # p
    BY <1>2, <1>4, <2>2, RowsKept DEF PublishInv, ChainInv, TypeInv
  <2>3. QED
    BY <2>1, <2>2
<1>8. RunRows' /\ HeadIsPublished'
  BY <1>2 DEF PublishInv, RunRows, HeadIsPublished, db, SomeTerminal, AllResolved
<1>9. OneHolder'
  <2>1. ASSUME NEW q \in Ticks \ {p}, run[q] = run[p], "plan" \in mine'[p]
        PROVE  pc[q] = "plan"
    <3>1. plan[run[q]] = NoRelease /\ ~SomeTerminal(results[run[q]])
      BY <1>2, <1>3, <2>1
    <3>2. ~AllResolved(results[run[q]])
      BY <3>1, ResolvedIsTerminal
    <3>3. "plan" \notin mine[q]
      BY <1>2, <2>1 DEF OtherHolds
    <3>4. pc[q] \notin Capturing \cup AfterFreeze \cup {"freeze", "refuse"}
      BY <3>1, <3>2, <3>3 DEF PublishInv, RowsOf, FreshCapture, FoundDegraded, Publishing
    <3>5. pc[q] \in Locations /\ pc[q] # "idle"
      BY <1>1, <2>1 DEF TypeOK, PublishInv, RowsOf
    <3>6. QED
      BY <3>4, <3>5 DEF Locations, Capturing, AfterFreeze
  <2>2. "snapshot" \notin mine'[p]
    BY <1>5
  <2>3. ASSUME NEW q \in Ticks \ {p}, run[q] = run[p] PROVE "plan" \notin mine'[q]
    BY <1>2, <2>3 DEF OtherHolds
  <2>4. QED
    BY <1>2, <2>1, <2>2, <2>3 DEF PublishInv, OneHolder
<1>10. QED
  BY <1>7, <1>8, <1>9 DEF Published

\* The freeze: a new snapshot takes the plan's release, and waits for another
\* open transaction that holds the run's.
LEMMA PublishFreeze ==
    ASSUME PublishInv, NEW p \in Ticks, FreezeAndMaterialize(p) PROVE Published'
<1>1. /\ TypeOK /\ run[p] \in Runs /\ rel[p] \in Releases
      /\ pc[p] = "freeze" /\ mine[p] = {} /\ work[p] = NoResults /\ pend[p] = NoRow
      /\ AllResolved(results[run[p]])
  BY DEF PublishInv, ChainInv, TypeInv, FreezeAndMaterialize, RowsOf
<1>2. /\ \A q \in Ticks \ {p} : pc'[q] = pc[q] /\ mine'[q] = mine[q]
      /\ run' = run /\ rel' = rel /\ work' = work /\ pend' = pend /\ db' = db
      /\ ~OtherHolds(p, "snapshot") /\ FreezeAllowed(p)
      /\ mine'[p] = IF snapshot[run[p]] = NoRelease THEN {"snapshot"} ELSE {}
      /\ pc'[p] = "judge"
  BY <1>1 DEF TypeOK, FreezeAndMaterialize, Goto
<1>3. plan' = plan /\ results' = results /\ snapshot' = snapshot /\ bound' = bound
  BY <1>2 DEF db
<1>4. RowsOf(p)'
  BY <1>1, <1>2, <1>3 DEF RowsOf, Publishing, FreezeAllowed, AfterFreeze, Capturing,
     AllResolved, NoResults, Cells
<1>5. ASSUME NEW q \in Ticks PROVE RowsOf(q)'
  <2>1. CASE q = p
    BY <1>4, <2>1
  <2>2. CASE q # p
    BY <1>2, <1>3, <2>2, RowsKept DEF PublishInv, ChainInv, TypeInv
  <2>3. QED
    BY <2>1, <2>2
<1>6. RunRows' /\ HeadIsPublished'
  BY <1>2 DEF PublishInv, RunRows, HeadIsPublished, db, SomeTerminal, AllResolved
<1>7. OneHolder'
  <2>1. ASSUME NEW q \in Ticks \ {p}, run[q] = run[p]
        PROVE  "snapshot" \notin mine[q] /\ "plan" \notin mine[q]
    BY <1>1, <1>2, <2>1 DEF OtherHolds, PublishInv, OneHolder
  <2>2. "plan" \notin mine'[p]
    BY <1>2
  <2>3. QED
    BY <1>2, <2>1, <2>2 DEF PublishInv, OneHolder
<1>8. QED
  BY <1>5, <1>6, <1>7 DEF Published

\* What a committed fresh capture leaves on file.
LEMMA CommitFresh ==
    ASSUME PublishInv, NEW p \in Ticks, run[p] \in Runs, rel[p] \in Releases, FreshCapture(p),
           "node" \in mine[p], SomeTerminal(work[p]), pend[p] = NoRow, CommitRows(p),
           mine'[p] = {}, work'[p] = NoResults, pend'[p] = NoRow,
           \A q \in Ticks \ {p} :
               /\ pc'[q] = pc[q] /\ run'[q] = run[q] /\ rel'[q] = rel[q]
               /\ work'[q] = work[q] /\ mine'[q] = mine[q] /\ pend'[q] = pend[q],
           \/ pc'[p] = "freeze" /\ run'[p] = run[p] /\ AllResolved(work[p]) /\ report' = report
           \/ /\ pc'[p] = "idle" /\ run'[p] = NoRun /\ ~AllResolved(work[p])
              /\ report' = [report EXCEPT ![run[p]] = @ \cup {"shortfall"}]
    PROVE  Published'
<1> DEFINE r == run[p]
<1>1. TypeInv /\ TypeOK
  BY DEF PublishInv, ChainInv, TypeInv
<1>2. Visible(p) = work[p]
  BY <1>1, VisibleFresh DEF FreshCapture
<1>3. /\ plan[r] = NoRelease /\ snapshot[r] = NoRelease
      /\ ~SomeTerminal(results[r]) /\ ~AllResolved(results[r])
  BY ResolvedIsTerminal DEF FreshCapture, PublishInv, RunRows
<1>4. /\ plan' = [plan EXCEPT ![r] = rel[p]]
      /\ results' = [results EXCEPT ![r] = work[p]]
      /\ nodes' = nodes \cup {r}
      /\ snapshot' = snapshot /\ bound' = bound /\ pointer' = pointer
  BY <1>1, <1>2 DEF CommitRows, FreshCapture, TypeOK
<1>5. \A i \in DOMAIN pointer : pointer[i].target # r /\ pointer[i].target \in Runs
  BY <1>1, <1>3 DEF PublishInv, HeadIsPublished, TypeOK, Rows
<1>6. \A s \in Runs \ {r} : /\ plan'[s] = plan[s] /\ results'[s] = results[s]
                           /\ report'[s] = report[s]
  BY <1>1, <1>4 DEF TypeOK
<1>7. plan'[r] = rel[p] /\ results'[r] = work[p]
  BY <1>1, <1>4 DEF TypeOK
<1>8. "shortfall" \in report'[r] => ~AllResolved(work[p])
  <2>1. "shortfall" \in report[r] => pc'[p] = "idle"
    <3>1. "shortfall" \in report[r] => SomeTerminal(results[r])
      BY DEF PublishInv, RunRows
    <3>2. QED
      BY <1>3, <3>1
  <2>2. QED
    BY <1>1, <2>1 DEF TypeOK
<1>9. RunRows'
  <2> SUFFICES ASSUME NEW s \in Runs
      PROVE /\ plan'[s] # NoRelease <=> SomeTerminal(results'[s])
            /\ SomeTerminal(results'[s]) => s \in nodes'
            /\ snapshot'[s] # NoRelease => snapshot'[s] = plan'[s] /\ AllResolved(results'[s])
            /\ "shortfall" \in report'[s] =>
                   SomeTerminal(results'[s]) /\ ~AllResolved(results'[s])
    BY DEF RunRows, SomeTerminal, AllResolved
  <2>1. CASE s = r
    BY <1>3, <1>4, <1>7, <1>8, <2>1
  <2>2. CASE s # r
    BY <1>4, <1>6, <2>2 DEF PublishInv, RunRows
  <2>3. QED
    BY <2>1, <2>2
<1>10. HeadIsPublished'
  BY <1>4, <1>5, <1>6 DEF PublishInv, HeadIsPublished, AllResolved
<1>11. ASSUME NEW q \in Ticks \ {p}, run[q] = r PROVE pc[q] = "plan"
  BY <1>11 DEF PublishInv, OneHolder, FreshCapture
<1>12. ASSUME NEW q \in Ticks PROVE RowsOf(q)'
  <2>1. CASE q = p
    BY <1>4, <1>7, <2>1 DEF RowsOf, AfterFreeze, Capturing, NoResults, Cells, AllResolved
  <2>2. CASE q # p /\ run[q] = r
    <3>1. RowsOf(q) /\ pc'[q] = "plan"
      BY <1>11, <2>2 DEF PublishInv
    <3>2. QED
      BY <1>11, <2>2, <3>1 DEF RowsOf, AfterFreeze, Capturing, NoResults, Cells
  <2>3. CASE q # p /\ run[q] # r
    BY <1>1, <1>4, <1>6, <2>3, RowsKept DEF PublishInv, TypeInv
  <2>4. QED
    BY <2>1, <2>2, <2>3
<1>13. OneHolder'
  <2>1. \A t \in Ticks : mine[t] # {} => run[t] \in Runs
    BY DEF PublishInv, ChainInv, TypeInv, RowsOf
  <2>2. ASSUME NEW q \in Ticks \ {p}, run[q] = r PROVE mine[q] = {}
    BY <1>11, <2>2 DEF PublishInv, RowsOf
  <2>3. QED
    BY <2>1, <2>2 DEF PublishInv, OneHolder
<1>14. QED
  BY <1>9, <1>10, <1>12, <1>13 DEF Published

\* Recording a run that was already degraded on file adds only its report.
LEMMA PublishRefuse ==
    ASSUME PublishInv, NEW p \in Ticks, RecordAndRefuse(p) PROVE Published'
<1>1. /\ TypeInv /\ TypeOK /\ run[p] \in Runs /\ rel[p] \in Releases
      /\ pend[p] = NoRow /\ pc[p] = "refuse"
  BY DEF PublishInv, ChainInv, TypeInv, RecordAndRefuse, RowsOf
<1>2. /\ CommitRows(p) /\ report' = [report EXCEPT ![run[p]] = @ \cup {"shortfall"}]
      /\ pc'[p] = "idle" /\ run'[p] = NoRun /\ mine'[p] = {}
      /\ work'[p] = NoResults /\ pend'[p] = NoRow
      /\ \A q \in Ticks \ {p} :
             /\ pc'[q] = pc[q] /\ run'[q] = run[q] /\ rel'[q] = rel[q]
             /\ work'[q] = work[q] /\ mine'[q] = mine[q] /\ pend'[q] = pend[q]
  BY <1>1 DEF TypeOK, RecordAndRefuse, EndTick, ClearTx, Goto
<1>3. CASE FoundDegraded(p)
  <2>1. /\ plan' = plan /\ results' = results /\ nodes' = nodes
        /\ snapshot' = snapshot /\ bound' = bound /\ pointer' = pointer
    <3>1. Visible(p) = results[run[p]] /\ mine[p] = {}
      BY <1>1, <1>3, VisibleQuiet DEF FoundDegraded
    <3>2. QED
      BY <1>1, <1>2, <3>1 DEF CommitRows, TypeOK
  <2>2. RunRows'
    BY <1>1, <1>2, <1>3, <2>1
       DEF TypeOK, PublishInv, RunRows, FoundDegraded, SomeTerminal, AllResolved, Cells
  <2>3. HeadIsPublished'
    <3>1. \A s \in Runs : report[s] \subseteq report'[s]
      BY <1>1, <1>2 DEF TypeOK
    <3>2. \A i \in DOMAIN pointer : pointer[i].target \in Runs
      BY <1>1 DEF TypeOK, Rows
    <3>3. QED
      BY <2>1, <3>1, <3>2 DEF PublishInv, HeadIsPublished, AllResolved
  <2>4. ASSUME NEW q \in Ticks PROVE RowsOf(q)'
    <3>1. CASE q = p
      BY <1>2, <3>1 DEF RowsOf, AfterFreeze, Capturing, NoResults, Cells
    <3>2. CASE q # p
      BY <1>1, <1>2, <2>1, <3>2, RowsKept DEF PublishInv, TypeInv
    <3>3. QED
      BY <3>1, <3>2
  <2>5. OneHolder'
    <3>1. \A t \in Ticks : mine[t] # {} => run[t] \in Runs
      BY DEF PublishInv, ChainInv, TypeInv, RowsOf
    <3>2. QED
      BY <1>2, <3>1 DEF PublishInv, OneHolder
  <2>6. QED
    BY <2>2, <2>3, <2>4, <2>5 DEF Published
<1>4. CASE ~FoundDegraded(p)
  <2>1. PICK c \in Cells : work[p][c] \in {"unavailable", "failed"}
    BY <1>1, <1>4 DEF PublishInv, RowsOf
  <2>2. FreshCapture(p) /\ "node" \in mine[p]
    BY <1>1, <1>4 DEF PublishInv, RowsOf
  <2>3. SomeTerminal(work[p]) /\ ~AllResolved(work[p])
    BY <2>1 DEF SomeTerminal, AllResolved
  <2>4. QED
    BY <1>1, <1>2, <2>2, <2>3, CommitFresh
<1>5. QED
  BY <1>3, <1>4

\* A complete capture is committed before the publish half starts.
LEMMA PublishCapture ==
    ASSUME PublishInv, NEW p \in Ticks, CommitCapture(p) PROVE Published'
<1>1. /\ TypeOK /\ run[p] \in Runs /\ rel[p] \in Releases
      /\ pend[p] = NoRow /\ FreshCapture(p) /\ "node" \in mine[p] /\ AllResolved(work[p])
  BY DEF PublishInv, ChainInv, TypeInv, CommitCapture, RowsOf, Capturing
<1>2. /\ CommitRows(p) /\ report' = report
      /\ pc'[p] = "freeze" /\ run'[p] = run[p] /\ mine'[p] = {}
      /\ work'[p] = NoResults /\ pend'[p] = NoRow
      /\ \A q \in Ticks \ {p} :
             /\ pc'[q] = pc[q] /\ run'[q] = run[q] /\ rel'[q] = rel[q]
             /\ work'[q] = work[q] /\ mine'[q] = mine[q] /\ pend'[q] = pend[q]
  BY <1>1 DEF TypeOK, CommitCapture, ClearTx, Goto
<1>3. QED
  BY <1>1, <1>2, CommitFresh, ResolvedIsTerminal

\* The publish transaction: the head row becomes visible together with the
\* snapshot, the edge and the report it stands for.
LEMMA PublishCommit ==
    ASSUME PublishInv, NEW p \in Ticks, CommitPublish(p) PROVE Published'
<1> DEFINE r == run[p]
<1>1. /\ TypeInv /\ TypeOK /\ r \in Runs /\ rel[p] \in Releases
      /\ grade[p] \in {"met", "missed"} /\ work[p] = NoResults
      /\ Publishing(p)
      /\ "edge" \in mine[p] \/ <<r, rel[p]>> \in bound
  BY DEF PublishInv, ChainInv, TypeInv, CommitPublish, RowsOf, AfterFreeze
<1>2. /\ CommitRows(p) /\ report' = [report EXCEPT ![r] = @ \cup {grade[p]}]
      /\ pc'[p] = "idle" /\ run'[p] = NoRun /\ mine'[p] = {}
      /\ work'[p] = NoResults /\ pend'[p] = NoRow
      /\ \A q \in Ticks \ {p} :
             /\ pc'[q] = pc[q] /\ run'[q] = run[q] /\ rel'[q] = rel[q]
             /\ work'[q] = work[q] /\ mine'[q] = mine[q] /\ pend'[q] = pend[q]
  BY <1>1 DEF TypeOK, CommitPublish, EndTick, ClearTx, Goto
<1>3. /\ plan' = plan /\ results' = results /\ nodes' = nodes
      /\ \A s \in Runs \ {r} : snapshot'[s] = snapshot[s] /\ report'[s] = report[s]
      /\ snapshot'[r] = rel[p]
      /\ bound \subseteq bound' /\ <<r, rel[p]>> \in bound'
      /\ \A s \in Runs : report[s] \subseteq report'[s]
      /\ report'[r] = report[r] \cup {grade[p]}
  <2>1. Visible(p) = results[r]
    BY <1>1, VisibleQuiet
  <2>2. "plan" \notin mine[p] /\ "node" \notin mine[p]
    BY <1>1 DEF Publishing
  <2>3. plan' = plan /\ results' = results /\ nodes' = nodes
    BY <1>1, <1>2, <2>1, <2>2 DEF CommitRows, TypeOK
  <2>4. /\ \A s \in Runs \ {r} : snapshot'[s] = snapshot[s]
        /\ snapshot'[r] = rel[p]
    BY <1>1, <1>2 DEF CommitRows, TypeOK, Publishing
  <2>5. bound \subseteq bound' /\ <<r, rel[p]>> \in bound'
    BY <1>1, <1>2 DEF CommitRows
  <2>6. /\ \A s \in Runs \ {r} : report'[s] = report[s]
        /\ report'[r] = report[r] \cup {grade[p]}
    BY <1>1, <1>2 DEF TypeOK
  <2>7. QED
    BY <2>3, <2>4, <2>5, <2>6
<1>4. plan[r] = rel[p] /\ AllResolved(results[r]) /\ SomeTerminal(results[r]) /\ r \in nodes
  BY <1>1, ResolvedIsTerminal DEF Publishing, PublishInv, RunRows
<1>5. RunRows'
  <2> SUFFICES ASSUME NEW s \in Runs
      PROVE /\ plan'[s] # NoRelease <=> SomeTerminal(results'[s])
            /\ SomeTerminal(results'[s]) => s \in nodes'
            /\ snapshot'[s] # NoRelease => snapshot'[s] = plan'[s] /\ AllResolved(results'[s])
            /\ "shortfall" \in report'[s] =>
                   SomeTerminal(results'[s]) /\ ~AllResolved(results'[s])
    BY DEF RunRows, SomeTerminal, AllResolved
  <2>1. CASE s = r
    BY <1>1, <1>3, <1>4, <2>1 DEF PublishInv, RunRows
  <2>2. CASE s # r
    BY <1>3, <2>2 DEF PublishInv, RunRows
  <2>3. QED
    BY <2>1, <2>2
<1>6. snapshot[r] # NoRelease => snapshot[r] = rel[p]
  BY <1>1 DEF Publishing
<1>7. HeadIsPublished'
  <2> SUFFICES ASSUME NEW i \in DOMAIN pointer'
      PROVE LET t == pointer'[i].target IN
            /\ AllResolved(results'[t])
            /\ snapshot'[t] # NoRelease /\ snapshot'[t] = plan'[t]
            /\ t \in nodes' /\ <<t, snapshot'[t]>> \in bound'
            /\ report'[t] \cap {"met", "missed"} # {}
    BY DEF HeadIsPublished, AllResolved
  <2>1. CASE i \in DOMAIN pointer /\ pointer'[i] = pointer[i]
    <3> DEFINE t == pointer[i].target
    <3>1. /\ t \in Runs /\ AllResolved(results[t])
          /\ snapshot[t] # NoRelease /\ snapshot[t] = plan[t]
          /\ t \in nodes /\ <<t, snapshot[t]>> \in bound
          /\ report[t] \cap {"met", "missed"} # {}
      BY <1>1, <2>1 DEF TypeOK, Rows, PublishInv, HeadIsPublished
    <3>2. snapshot'[t] = snapshot[t]
      BY <1>3, <1>6, <3>1
    <3>3. QED
      BY <1>3, <2>1, <3>1, <3>2
  <2>2. CASE ~(i \in DOMAIN pointer /\ pointer'[i] = pointer[i])
    <3>1. pend[p] # NoRow /\ pointer'[i] = pend[p].row
      BY <1>2, <2>2 DEF CommitRows
    <3>2. pointer'[i].target = r
      BY <3>1 DEF PublishInv, RowsOf
    <3>3. QED
      BY <1>1, <1>3, <1>4, <3>2
  <2>3. QED
    BY <2>1, <2>2
<1>8. ASSUME NEW q \in Ticks PROVE RowsOf(q)'
  <2>1. CASE q = p
    BY <1>2, <2>1 DEF RowsOf, AfterFreeze, Capturing, NoResults, Cells
  <2>2. CASE q # p /\ run[q] = r
    <3>1. RowsOf(q) /\ pc'[q] = pc[q]
      BY <1>2, <2>2 DEF PublishInv
    <3>2. CASE pc[q] \in AfterFreeze
      <4>1. rel[q] \in Releases /\ Publishing(q)
        BY <1>1, <3>1, <3>2 DEF TypeInv, RowsOf, AfterFreeze
      <4>2. snapshot[r] = NoRelease => "snapshot" \in mine[p] /\ "snapshot" \in mine[q]
        BY <1>1, <2>2, <4>1 DEF Publishing
      <4>3. snapshot[r] # NoRelease
        BY <2>2, <4>2 DEF PublishInv, OneHolder
      <4>4. snapshot'[r] = snapshot[r]
        BY <1>3, <1>6, <4>3
      <4>5. QED
        BY <1>1, <1>2, <1>3, <2>2, <3>1, <4>4, RowsKept DEF TypeInv
    <3>3. CASE pc[q] \notin AfterFreeze
      BY <1>2, <1>3, <2>2, <3>1, <3>3
         DEF RowsOf, FreshCapture, FoundDegraded, SomeTerminal, AllResolved,
             AfterFreeze, Capturing, Cells, NoResults
    <3>4. QED
      BY <3>2, <3>3
  <2>3. CASE q # p /\ run[q] # r
    BY <1>1, <1>2, <1>3, <2>3, RowsKept DEF PublishInv, TypeInv
  <2>4. QED
    BY <2>1, <2>2, <2>3
<1>9. OneHolder'
  <2>1. \A t \in Ticks : mine[t] # {} => run[t] \in Runs
    BY DEF PublishInv, ChainInv, TypeInv, RowsOf
  <2>2. QED
    BY <1>2, <2>1 DEF PublishInv, OneHolder
<1>10. QED
  BY <1>5, <1>7, <1>8, <1>9 DEF Published

\* The steps of one tick that write into its own transaction only.
LEMMA PublishLocal ==
    ASSUME PublishInv, NEW p \in Ticks,
           \/ \E r \in Runs : Launch(p, r)
           \/ SatisfyFromRecent(p) \/ (\E c \in Cells : CaptureItem(p, c))
           \/ DecideCapture(p) \/ JudgeAndReplay(p) \/ RegisterEvidence(p)
           \/ SelectHeadForUpdate(p) \/ CheckHead(p) \/ InsertPointer(p)
    PROVE  Published'
<1>1. TypeInv /\ TypeOK /\ RowsOf(p)
  BY DEF PublishInv, ChainInv, TypeInv
<1> USE DEF Capturing, AfterFreeze, Goto
<1>2. ASSUME NEW r \in Runs, Launch(p, r) PROVE Published'
  <2>1. RowsOf(p)'
    BY <1>1, <1>2 DEF TypeOK, Launch, RowsOf, NoResults, Cells
  <2>2. QED
    BY <1>1, <1>2, <2>1, LocalStep DEF TypeOK, RowsOf, Launch, Published
<1>3. CASE SatisfyFromRecent(p)
  <2>1. RowsOf(p)'
    BY <1>1, <1>3 DEF TypeOK, SatisfyFromRecent, RowsOf, FreshCapture, SomeTerminal, Cells, db
  <2>2. QED
    BY <1>1, <1>3, <2>1, LocalStep DEF TypeOK, SatisfyFromRecent, Published
<1>4. ASSUME NEW c \in Cells, CaptureItem(p, c) PROVE Published'
  <2>1. PICK s \in Terminal \ {"unchanged"} :
           /\ work' = [work EXCEPT ![p][c] = s]
           /\ pc' = [pc EXCEPT ![p] = IF s = "failed" THEN "refuse" ELSE "capture"]
    BY <1>4 DEF CaptureItem
  <2>2. work'[p][c] = s
    BY <1>1, <1>4, <2>1 DEF TypeOK
  <2>3. /\ pc[p] = "capture" /\ mine' = mine /\ run' = run /\ pend' = pend /\ rel' = rel
        /\ results' = results /\ db' = db
    BY <1>4 DEF CaptureItem, db
  <2>4. FreshCapture(p)' /\ "node" \in mine'[p] /\ pend'[p] = NoRow
    BY <1>1, <2>3 DEF RowsOf, FreshCapture, SomeTerminal, Cells
  <2>5. /\ pc'[p] \in {"capture", "refuse"}
        /\ pc'[p] = "refuse" => work'[p][c] = "failed"
    BY <1>1, <2>1, <2>2 DEF TypeOK
  <2>6. RowsOf(p)'
    BY <2>4, <2>5 DEF RowsOf, Cells
  <2>7. QED
    BY <1>1, <2>1, <2>3, <2>6, LocalStep DEF TypeOK, Published
<1>5. CASE DecideCapture(p)
  <2>1. /\ pc[p] = "capture" /\ run[p] \in Runs /\ FreshCapture(p) /\ "node" \in mine[p]
        /\ pend[p] = NoRow
    BY <1>1, <1>5 DEF DecideCapture, RowsOf, TypeInv
  <2>2. Visible(p) = work[p]
    BY <1>1, <2>1, VisibleFresh DEF FreshCapture
  <2>3. /\ UNCHANGED <<db, run, rel, work, mine, pend>>
        /\ pc' = [pc EXCEPT ![p] = IF AllResolved(work[p]) THEN "committing" ELSE "refuse"]
        /\ \A c \in Cells : work[p][c] # "none"
    BY <1>5, <2>2 DEF DecideCapture
  <2>4. ~AllResolved(work[p]) => \E c \in Cells : work[p][c] \in {"unavailable", "failed"}
    BY <1>1, <2>3 DEF AllResolved, TypeOK, Terminal
  <2>5. RowsOf(p)'
    BY <1>1, <2>1, <2>3, <2>4 DEF TypeOK, RowsOf, FreshCapture, SomeTerminal,
       AllResolved, Cells, db
  <2>6. QED
    BY <1>1, <2>1, <2>3, <2>5, LocalStep DEF TypeOK, Published
<1>6. CASE JudgeAndReplay(p)
  <2>1. RowsOf(p)'
    BY <1>1, <1>6 DEF TypeOK, JudgeAndReplay, RowsOf, Publishing, AllResolved, Cells, NoResults, db
  <2>2. QED
    BY <1>1, <1>6, <2>1, LocalStep DEF TypeOK, JudgeAndReplay, Published
<1>7. CASE RegisterEvidence(p)
  <2>1. /\ pc[p] = "register" /\ UNCHANGED <<db, run, rel, work, pend>>
        /\ mine' = [mine EXCEPT ![p] = IF <<run[p], rel[p]>> \in bound
                                       THEN @ ELSE @ \cup {"edge"}]
        /\ pc' = [pc EXCEPT ![p] = "publish"] \/ pc' = [pc EXCEPT ![p] = "advance"]
    BY <1>7 DEF RegisterEvidence
  <2>2. /\ mine'[p] \subseteq mine[p] \cup {"edge"}
        /\ "snapshot" \in mine'[p] <=> "snapshot" \in mine[p]
        /\ "edge" \in mine'[p] \/ <<run[p], rel[p]>> \in bound
        /\ pc'[p] \in {"publish", "advance"}
    BY <1>1, <2>1 DEF TypeOK
  <2>3. RowsOf(p)'
    BY <1>1, <2>1, <2>2 DEF RowsOf, Publishing, AllResolved, Cells, NoResults, db
  <2>4. /\ \A q \in Ticks \ {p} : pc'[q] = pc[q] /\ mine'[q] = mine[q]
        /\ "plan" \notin mine'[p]
    BY <1>1, <2>1, <2>2 DEF TypeOK, RowsOf, Publishing
  <2>5. QED
    BY <2>1, <2>2, <2>3, <2>4, LocalStep DEF Published
<1>8. CASE SelectHeadForUpdate(p)
  <2>1. RowsOf(p)'
    BY <1>1, <1>8 DEF TypeOK, SelectHeadForUpdate, RowsOf, Publishing, AllResolved,
       Cells, NoResults, db
  <2>2. QED
    BY <1>1, <1>8, <2>1, LocalStep DEF TypeOK, SelectHeadForUpdate, Published
<1>9. CASE CheckHead(p) /\ ~Rollback(p)
  <2>1. /\ pc[p] = "lockwait" /\ pc' = [pc EXCEPT ![p] = "insert"]
        /\ UNCHANGED <<db, run, rel, work, mine, pend>>
    BY <1>9 DEF CheckHead
  <2>2. RowsOf(p)'
    BY <1>1, <2>1 DEF TypeOK, RowsOf, Publishing, AllResolved, Cells, NoResults, db
  <2>3. QED
    BY <1>1, <2>1, <2>2, LocalStep DEF TypeOK, Published
<1>10. CASE InsertPointer(p) /\ ~Rollback(p)
  <2>1. /\ pc[p] = "insert" /\ pend' = [pend EXCEPT ![p] = Built(p)]
        /\ pc' = [pc EXCEPT ![p] = "publish"]
        /\ UNCHANGED <<db, run, rel, work, mine>>
    BY <1>10 DEF InsertPointer
  <2>2. pend'[p].row.target = run[p]
    BY <1>1, <2>1 DEF TypeOK, Built
  <2>3. RowsOf(p)'
    BY <1>1, <2>1, <2>2 DEF TypeOK, RowsOf, Publishing, AllResolved, Cells, NoResults, db
  <2>4. QED
    BY <1>1, <2>1, <2>3, LocalStep DEF TypeOK, Published
<1>11. QED
  BY <1>2, <1>3, <1>4, <1>5, <1>6, <1>7, <1>8, <1>9, <1>10, PublishRollback

\* Every step keeps the invariant.
LEMMA PublishStep == PublishInv /\ [Next]_vars => PublishInv'
<1> SUFFICES ASSUME PublishInv, [Next]_vars PROVE Published'
  BY ChainStep DEF PublishInv, Published
<1>1. CASE UNCHANGED vars
  BY <1>1 DEF vars, db, tx, PublishInv, Published, RunRows, OneHolder, HeadIsPublished,
     RowsOf, FreshCapture, FoundDegraded, Publishing, SomeTerminal, AllResolved, Cells,
     NoResults, Capturing, AfterFreeze
<1>2. ASSUME NEW p \in Ticks, FreezeRefused(p) \/ PublishSideRaises(p) \/ Crash(p)
      PROVE  Published'
  BY <1>2, PublishRollback DEF FreezeRefused, PublishSideRaises, Crash
<1>3. CASE Deploy
  <2>1. ASSUME NEW p \in Ticks PROVE RowsOf(p)'
    BY <1>3 DEF Deploy, RowsOf, Capturing, AfterFreeze, NoResults, Cells
  <2>2. OneHolder'
    BY <1>3 DEF Deploy, OneHolder
  <2>3. RunRows' /\ HeadIsPublished'
    BY <1>3 DEF Deploy, db, PublishInv, RunRows, HeadIsPublished, SomeTerminal, AllResolved, Cells
  <2>4. QED
    BY <2>1, <2>2, <2>3 DEF Published
<1>4. QED
  BY <1>1, <1>2, <1>3, PublishLocal, PublishPlan, PublishFreeze, PublishRefuse,
     PublishCapture, PublishCommit DEF Next, Step

LEMMA PublishInit == Init => PublishInv
<1> SUFFICES ASSUME Init PROVE PublishInv
  OBVIOUS
<1>1. RunRows /\ HeadIsPublished
  BY CellsNonempty DEF Init, RunRows, HeadIsPublished, SomeTerminal, NoResults
<1>2. OneHolder /\ \A p \in Ticks : RowsOf(p)
  BY DEF Init, OneHolder, RowsOf, Capturing, AfterFreeze
<1>3. QED
  BY <1>1, <1>2, ChainInit DEF PublishInv

LEMMA PublishAlways == Spec => []PublishInv
  BY PublishInit, PublishStep, PTL DEF Spec

\* Whatever a consumer resolves through the pointer is published whole.
THEOREM HeadsArePublished == Spec => []HeadIsPublished
<1>1. PublishInv => HeadIsPublished
  BY DEF PublishInv
<1>2. QED
  BY <1>1, PublishAlways, PTL

\* A run recorded as degraded is never served.
THEOREM DegradedNeverServed == Spec => []ShortfallNeverServed
<1>1. PublishInv => ShortfallNeverServed
  BY DEF PublishInv, RunRows, HeadIsPublished, ShortfallNeverServed
<1>2. QED
  BY <1>1, PublishAlways, PTL

\* A run is captured by one tick, and only while nothing is on file.
THEOREM CapturedOnce == Spec => []NoRecapture
<1>1. PublishInv => NoRecapture
  BY DEF PublishInv, RowsOf, FreshCapture, OneHolder, NoRecapture, Capturing
<1>2. QED
  BY <1>1, PublishAlways, PTL

\* A committed capture can always be bound to its release manifest.
THEOREM CapturesAreBindable == Spec => []CaptureIsBindable
<1>1. PublishInv => CaptureIsBindable
  BY ResolvedIsTerminal DEF PublishInv, RunRows, CaptureIsBindable
<1>2. QED
  BY <1>1, PublishAlways, PTL

\* No advance and no terminal state is ever rewritten.
AppendStep ==
    /\ \A i \in DOMAIN pointer : i \in DOMAIN pointer' /\ pointer'[i] = pointer[i]
    /\ \A r \in Runs, c \in Cells : results[r][c] # "none" => results'[r][c] = results[r][c]

LEMMA AppendHolds == PublishInv /\ [Next]_vars => AppendStep
<1> SUFFICES ASSUME PublishInv, [Next]_vars PROVE AppendStep
  OBVIOUS
<1>1. TypeInv /\ TypeOK
  BY DEF PublishInv, ChainInv, TypeInv
<1>2. CASE pointer' = pointer /\ results' = results
  BY <1>2 DEF AppendStep
<1>3. CASE ~(pointer' = pointer /\ results' = results)
  <2>1. PICK p \in Ticks : /\ CommitRows(p)
                           /\ pc[p] \in {"committing", "refuse", "publish"}
    BY <1>3 DEF Next, Step, vars, db, Launch, PlanAndPersist, SatisfyFromRecent,
         CaptureItem, DecideCapture, CommitCapture, RecordAndRefuse,
         FreezeAndMaterialize, FreezeRefused, JudgeAndReplay, RegisterEvidence,
         SelectHeadForUpdate, CheckHead, InsertPointer, CommitPublish,
         PublishSideRaises, Crash, Rollback, Deploy
  <2>2. run[p] \in Runs
    BY <1>1, <2>1 DEF TypeInv
  <2>3. pend[p] # NoRow => pend[p].sequence \notin DOMAIN pointer
    BY DEF PublishInv, ChainInv, PendingLinks
  <2>4. \A i \in DOMAIN pointer : i \in DOMAIN pointer' /\ pointer'[i] = pointer[i]
    BY <2>1, <2>3 DEF CommitRows
  <2>5. \/ ~SomeTerminal(results[run[p]])
        \/ work[p] = NoResults
    BY <2>1 DEF PublishInv, RowsOf, FreshCapture, FoundDegraded, Capturing
  <2>6. \A c \in Cells : results[run[p]][c] # "none" => Visible(p)[c] = results[run[p]][c]
    BY <1>1, <2>2, <2>5, VisibleQuiet DEF SomeTerminal
  <2>7. results' = [results EXCEPT ![run[p]] = Visible(p)]
    BY <2>1 DEF CommitRows
  <2>8. QED
    BY <1>1, <2>2, <2>4, <2>6, <2>7 DEF AppendStep, TypeOK
<1>4. QED
  BY <1>2, <1>3

\* Triggers apart, the code itself never rewrites: advance only inserts, and a
\* tick that finds a terminal state of its run on file writes none.
THEOREM TablesAppendOnly == Spec => AppendOnly
<1>1. PublishInv /\ [Next]_vars => [AppendStep]_vars
  BY AppendHolds
<1>2. QED
  BY <1>1, PublishAlways, PTL DEF Spec, AppendOnly, AppendStep
=============================================================================
