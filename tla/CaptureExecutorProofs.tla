------------------------ MODULE CaptureExecutorProofs ------------------------
(***************************************************************************)
(* Theorems about CaptureExecutor for every number of work items, every    *)
(* attempt limit RetryPolicy permits and every set of answers.             *)
(*   ExecutorTypeCorrect, ExecutorNeverRefused   rest on ExecutorInv;      *)
(*   FileTellsOneStory, StopAlwaysHalts, SecondOriginsWhole and            *)
(*   ExecutorImplementsContract                  rest on StoryInv, which   *)
(* follows one item from the primary's answers to the rows on file.        *)
(***************************************************************************)
EXTENDS CaptureExecutor, TLAPS

\* What _replay_attempts computes for an attempt of a history the executor
\* can hand over is a well-formed row that starts no later than it ends.
LEMMA RowType ==
    ASSUME TypeOK, History, pc = "replay", NEW n \in 1..Len(reasons)
    PROVE  /\ AttemptRow(n) \in Attempts
           /\ AttemptRow(n).number = n
           /\ AttemptRow(n).started = (n - 1) * 2
           /\ AttemptRow(n).completed >= AttemptRow(n).started
           /\ AttemptRow(n).vintage = "created" <=> AttemptRow(n).outcome = "success"
           /\ n = Len(reasons) => AttemptRow(n).outcome \in TerminalOutcomes
           /\ n < Len(reasons) => /\ AttemptRow(n).outcome \in Retryable
                                  /\ AttemptRow(n).completed = (n - 1) * 2 + 1
<1>1. Len(reasons) \in 1..MaxAttempts /\ MaxAttempts \in 1..20
  BY AttemptsAssumption DEF TypeOK, History, HandedOver, Recording
<1>2. n \in Nat /\ n >= 1 /\ n <= MaxAttempts /\ (n - 1) * 2 <= 38
  BY <1>1
<1>3. reasons[n] \in Reasons \cup {"none"}
  BY DEF TypeOK
<1>4. outcome \in {"success", "unavailable", "failed"}
  BY DEF TypeOK, History, HandedOver, Recording
<1>5. CASE n = Len(reasons)
  BY <1>1, <1>2, <1>3, <1>4, <1>5
     DEF AttemptRow, Attempts, Spacing, TerminalAttemptAt, TerminalOutcomes
<1>6. CASE n # Len(reasons)
  <2>1. n < Len(reasons) /\ reasons[n] \in Retry
    BY <1>1, <1>6 DEF History, RetriesOnly
  <2>2. AttemptOutcome(reasons[n]) \in Retryable
    BY <2>1 DEF AttemptOutcome, Retry, Retryable, TraceOnly, Stop
  <2>3. AttemptOutcome(reasons[n]) # "success"
    BY <2>2 DEF Retryable
  <2> HIDE DEF AttemptOutcome
  <2> QED
    BY <1>2, <1>3, <2>1, <2>2, <2>3, <1>6 DEF AttemptRow, Attempts, Spacing
<1> QED
  BY <1>5, <1>6

\* Neither the ledger nor the triggers refuse the next row.
LEMMA RowAccepted ==
    ASSUME TypeOK, History, pc = "replay"
    PROVE  LET a == AttemptRow(Len(ledger) + 1) IN LedgerAccepts(a) /\ TriggersAccept(a)
<1> DEFINE m == Len(ledger)
           a == AttemptRow(m + 1)
           b == AttemptRow(m)
<1>1. m \in Nat /\ m + 1 \in 1..Len(reasons) /\ Len(reasons) <= MaxAttempts
      /\ MaxAttempts \in 1..20
  BY AttemptsAssumption DEF TypeOK, History, Replayed
<1>2. /\ a \in Attempts /\ a.number = m + 1 /\ a.started = m * 2
      /\ a.completed >= a.started
      /\ a.vintage = "created" <=> a.outcome = "success"
      /\ m + 1 = Len(reasons) => a.outcome \in TerminalOutcomes
  <2> HIDE DEF m
  <2> QED BY <1>1, RowType
<1>3. ledger # <<>> => /\ ledger[m] = b
                       /\ b.outcome \in Retryable
                       /\ b.completed = (m - 1) * 2 + 1
  <2> SUFFICES ASSUME ledger # <<>> PROVE ledger[m] = b /\ b.outcome \in Retryable
                                          /\ b.completed = (m - 1) * 2 + 1
    OBVIOUS
  <2>1. m >= 1
    BY DEF TypeOK
  <2>2. ledger[m] = b
    BY <2>1, <1>1 DEF History, Replayed
  <2>3. m \in 1..Len(reasons) /\ m < Len(reasons)
    BY <1>1, <2>1
  <2> HIDE DEF m
  <2> QED BY <2>2, <2>3, RowType
<1>4. Retryable \cap TerminalOutcomes = {}
  BY DEF Retryable, TerminalOutcomes
<1>5. a.outcome \in Retryable \cup TerminalOutcomes
  BY <1>2 DEF Attempts
<1>6. a.number = MaxAttempts => a.outcome \in TerminalOutcomes
  BY <1>1, <1>2
<1>7. LedgerAccepts(a)
  <2> HIDE DEF a, b
  <2> QED BY <1>1, <1>2, <1>3, <1>4, <1>5, <1>6 DEF LedgerAccepts
<1>8. TriggersAccept(a)
  <2> HIDE DEF a, b
  <2> QED BY <1>1, <1>2, <1>3, <1>4, <1>5, <1>6 DEF TriggersAccept
<1> QED BY <1>7, <1>8
-----------------------------------------------------------------------------
\* Replacing one entry of a sequence.
LEMMA SeqExcept ==
    ASSUME NEW S, NEW s \in Seq(S), NEW i \in 1..Len(s), NEW x \in S
    PROVE  [s EXCEPT ![i] = x] \in Seq(S) /\ Len([s EXCEPT ![i] = x]) = Len(s)
OBVIOUS

\* The first state.
LEMMA ExecutorInit == Init => ExecutorInv
<1> SUFFICES ASSUME Init PROVE ExecutorInv
  OBVIOUS
<1>1. TypeOK
  BY AttemptsAssumption, PlanAssumption DEF Init, TypeOK, Contents, Ended, Origins
<1>2. History
  BY AttemptsAssumption, PlanAssumption
     DEF Init, History, RetriesOnly, HandedOver, Replayed, InRange, Recording, Ended
<1> QED BY <1>1, <1>2 DEF Init, ExecutorInv, NeverRefused

\* An exception leaves a state that satisfies the invariant.
LEMMA AbortStep ==
    ASSUME ExecutorInv, Abort("raised")
    PROVE  ExecutorInv'
<1>1. TypeOK'
  BY AttemptsAssumption, PlanAssumption
     DEF Abort, FreshItem, Goto, TypeOK, Contents, Ended, Origins
<1>2. History'
  BY AttemptsAssumption, PlanAssumption
     DEF Abort, FreshItem, Goto, History, RetriesOnly, HandedOver, Replayed, InRange,
         Recording, Ended
<1> QED BY <1>1, <1>2 DEF Abort, Goto, ExecutorInv, NeverRefused

\* _run_item's calls of the primary and of the failover.
LEMMA FetchStep ==
    ASSUME ExecutorInv,
           \/ FetchServed \/ FailoverShort \/ Failover
           \/ \E r \in Offered : FetchShort(r) \/ FetchFailed(r)
    PROVE  ExecutorInv'
<1> USE AttemptsAssumption, PlanAssumption
<1>0. TypeOK /\ History
  BY DEF ExecutorInv
<1>1. CASE FetchServed
  <2>1. TypeOK'
    BY <1>1, <1>0 DEF TypeOK, History, RetriesOnly, FetchServed, Succeed, Hear, Goto, Answers, Origins
  <2>2. History'
    BY <1>1, <1>0, <2>1 DEF TypeOK, History, RetriesOnly, HandedOver, Replayed, InRange, Recording, Ended,
         FetchServed, Succeed, Goto
  <2> QED BY <1>1, <2>1, <2>2 DEF ExecutorInv, NeverRefused, FetchServed, Succeed, Goto
<1>2. CASE FailoverShort
  <2>1. TypeOK'
    BY <1>2, <1>0 DEF TypeOK, History, RetriesOnly, FailoverShort, Succeed, Goto, Origins
  <2>2. History'
    BY <1>2, <1>0, <2>1 DEF TypeOK, History, RetriesOnly, HandedOver, Replayed, InRange, Recording, Ended,
         FailoverShort, Succeed, Goto, Origins
  <2> QED BY <1>2, <2>1, <2>2 DEF ExecutorInv, NeverRefused, FailoverShort, Succeed, Goto, Origins
<1>3. CASE Failover
  <2>1. TypeOK'
    BY <1>3, <1>0 DEF TypeOK, History, RetriesOnly, Failover, Succeed, Goto, Origins
  <2>2. History'
    BY <1>3, <1>0, <2>1 DEF TypeOK, History, RetriesOnly, HandedOver, Replayed, InRange, Recording, Ended,
         Failover, Succeed, Goto
  <2> QED BY <1>3, <2>1, <2>2 DEF ExecutorInv, NeverRefused, Failover, Succeed, Goto
<1>4. ASSUME NEW r \in Offered, FetchShort(r) PROVE ExecutorInv'
  <2>1. TypeOK'
    BY <1>4, <1>0 DEF TypeOK, FetchShort, Hear, Goto, Answers
  <2>2. History'
    BY <1>4, <1>0, <2>1 DEF TypeOK, History, RetriesOnly, HandedOver, Replayed, InRange, Recording, Ended,
         FetchShort, Goto, Reasons, Stop, Retry, TraceOnly
  <2> QED BY <1>4, <2>1, <2>2 DEF ExecutorInv, NeverRefused, FetchShort, Goto, Reasons, Stop, Retry, TraceOnly
<1>5. ASSUME NEW r \in Offered, FetchFailed(r) PROVE ExecutorInv'
  <2>1. TypeOK'
    <3>1. heard' \in Seq(Answers)
      BY <1>5, <1>0 DEF TypeOK, FetchFailed, Hear, Answers
    <3>2. reasons' \in Seq(Reasons \cup {"none"}) /\ Len(reasons') <= MaxAttempts
      <4>1. /\ reasons' = Append(reasons, r) /\ r \in Reasons
            /\ reasons \in Seq(Reasons \cup {"none"})
        BY <1>5, <1>0 DEF TypeOK, FetchFailed
      <4>2. Len(reasons) < MaxAttempts
        BY <1>5, <1>0 DEF History, RetriesOnly, FetchFailed
      <4> QED BY <4>1, <4>2
    <3>3. pc' \in {"record", "fetch", "failover"} /\ outcome' \in {"failed", "none"}
      BY <1>5 DEF FetchFailed, Goto
    <3> QED
      BY <1>5, <1>0, <3>1, <3>2, <3>3 DEF TypeOK, FetchFailed
  <2>2. History'
    BY <1>5, <1>0, <2>1 DEF TypeOK, History, RetriesOnly, HandedOver, Replayed, InRange, Recording, Ended,
         FetchFailed, Goto, Reasons, Stop, Retry, TraceOnly
  <2> QED BY <1>5, <2>1, <2>2 DEF ExecutorInv, NeverRefused, FetchFailed, Goto, Reasons, Stop, Retry, TraceOnly
<1> QED BY <1>1, <1>2, <1>3, <1>4, <1>5

\* record_outcome up to the replay: the sink accepts.
LEMMA RecordStep ==
    ASSUME ExecutorInv, RecordOutcome
    PROVE  ExecutorInv'
<1> USE AttemptsAssumption, PlanAssumption
<1>0. TypeOK /\ History
  BY DEF ExecutorInv
<1>1. SinkAccepts
  BY <1>0 DEF TypeOK, History, HandedOver, RecordOutcome, SinkAccepts, Recording
<1>2. TypeOK'
  BY <1>0, <1>1 DEF TypeOK, RecordOutcome, Goto, Contents
<1>3. History'
  BY <1>0, <1>1, <1>2 DEF TypeOK, History, RetriesOnly, HandedOver, Replayed, InRange,
     Recording, Ended, RecordOutcome, Goto
<1> QED
  BY <1>1, <1>2, <1>3 DEF ExecutorInv, NeverRefused, RecordOutcome, Goto

\* One replayed attempt: all layers accept it and it extends the prefix.
LEMMA ReplayStep ==
    ASSUME ExecutorInv, ReplayAttempt
    PROVE  ExecutorInv'
<1> DEFINE a == AttemptRow(Len(ledger) + 1)
<1>1. TypeOK /\ History /\ pc = "replay"
  BY DEF ExecutorInv, ReplayAttempt
<1>2. LedgerAccepts(a) /\ TriggersAccept(a)
  BY <1>1, RowAccepted
<1>3. Len(ledger) + 1 \in 1..Len(reasons)
  BY <1>1 DEF TypeOK, History, Replayed
<1>4. a \in Attempts /\ a.number = Len(ledger) + 1
  BY <1>1, <1>3, RowType
<1>5. \A k \in 1..Len(reasons) : AttemptRow(k)' = AttemptRow(k)
  BY <1>2 DEF ReplayAttempt, AttemptRow
<1>6. ledger' = Append(ledger, a) /\ ledger' \in Seq(Attempts)
  <2>1. ledger' = Append(ledger, a)
    BY <1>2 DEF ReplayAttempt
  <2> QED BY <2>1, <1>1, <1>4 DEF TypeOK
<1>7. \A k \in 1..Len(ledger') : ledger'[k] = AttemptRow(k)'
  <2>1. \A k \in 1..Len(ledger) : ledger'[k] = AttemptRow(k) /\ k \in 1..Len(reasons)
    BY <1>1, <1>3, <1>6 DEF History, Replayed, TypeOK
  <2>2. ledger'[Len(ledger) + 1] = a
    BY <1>1, <1>6 DEF TypeOK
  <2>3. Len(ledger') = Len(ledger) + 1 /\ Len(ledger) \in Nat
    BY <1>1, <1>6 DEF TypeOK
  <2> HIDE DEF a
  <2> QED BY <2>1, <2>2, <2>3, <1>3, <1>5 DEF a
<1>8. /\ UNCHANGED <<file, reasons, shortfall, outcome, served, content, corr, expected,
                     heard, asked>>
      /\ pc' \in {"replay", "observe", "result"}
      /\ pc' = "replay" => Len(ledger) + 1 < Len(reasons)
  <2> HIDE DEF a
  <2> QED BY <1>2, <1>4 DEF ReplayAttempt, Goto, a
<1>9. TypeOK'
  BY <1>1, <1>6, <1>8 DEF TypeOK
<1>10. History'
  <2> HIDE DEF a
  <2> QED
    BY <1>1, <1>3, <1>6, <1>7, <1>8
       DEF TypeOK, History, RetriesOnly, HandedOver, Replayed, InRange, Ended, Recording
<1> QED
  BY <1>8, <1>9, <1>10 DEF ExecutorInv, NeverRefused

\* The observation, the corroborations and the result.
LEMMA PersistStep ==
    ASSUME ExecutorInv,
           PersistObservation \/ Corroborate \/ CorroborationLost \/ PutResult
    PROVE  ExecutorInv'
<1> USE AttemptsAssumption, PlanAssumption
<1>0. TypeOK /\ History
  BY DEF ExecutorInv
<1>1. CASE PersistObservation
  <2>1. TypeOK'
    <3>1. corr' \in Seq(0..3)
      <4>1. <<0>> \in Seq(0..3)
        OBVIOUS
      <4>2. corr \in Seq(0..3) /\ (corr' = corr \/ corr' = <<0>>)
        BY <1>1, <1>0 DEF TypeOK, PersistObservation
      <4> QED BY <4>1, <4>2
    <3> QED
      BY <1>1, <1>0, <3>1 DEF TypeOK, PersistObservation, Goto, Contents
  <2>2. History'
    BY <1>1, <1>0, <2>1 DEF TypeOK, History, RetriesOnly, HandedOver, Replayed, InRange, Recording, Ended,
         PersistObservation, Goto
  <2> QED BY <1>1, <2>1, <2>2 DEF ExecutorInv, NeverRefused, PersistObservation, Goto
<1>2. CASE Corroborate
  <2>1. TypeOK'
    <3>1. Len(corr) \in 1..Len(corr) /\ corr[Len(corr)] \in 0..3
      BY <1>2, <1>0 DEF TypeOK, History, InRange, Corroborate
    <3>2. \A x \in 0..3 : [corr EXCEPT ![Len(corr)] = x] \in Seq(0..3)
      BY <1>0, <3>1, SeqExcept DEF TypeOK
    <3>3. corr' \in Seq(0..3) /\ pc' \in {"corroborate", "result"}
      BY <1>2, <3>1, <3>2 DEF Corroborate, NextCorroboration, Goto
    <3> QED BY <1>2, <1>0, <3>3 DEF TypeOK, Corroborate
  <2>2. History'
    BY <1>2, <1>0, <2>1 DEF TypeOK, History, RetriesOnly, HandedOver, Replayed, InRange, Recording, Ended,
         Corroborate, NextCorroboration, Goto
  <2> QED BY <1>2, <2>1, <2>2 DEF ExecutorInv, NeverRefused, Corroborate, NextCorroboration, Goto
<1>3. CASE CorroborationLost
  <2>1. TypeOK'
    <3>1. Len(corr) \in 1..Len(corr) /\ corr[Len(corr)] \in 0..3
      BY <1>3, <1>0 DEF TypeOK, History, InRange, CorroborationLost
    <3>2. \A x \in 0..3 : [corr EXCEPT ![Len(corr)] = x] \in Seq(0..3)
      BY <1>0, <3>1, SeqExcept DEF TypeOK
    <3>3. corr' \in Seq(0..3) /\ pc' \in {"corroborate", "result"}
      BY <1>3, <3>1, <3>2 DEF CorroborationLost, NextCorroboration, Goto
    <3> QED BY <1>3, <1>0, <3>3 DEF TypeOK, CorroborationLost
  <2>2. History'
    BY <1>3, <1>0, <2>1 DEF TypeOK, History, RetriesOnly, HandedOver, Replayed, InRange, Recording, Ended,
         CorroborationLost, NextCorroboration, Goto
  <2> QED BY <1>3, <2>1, <2>2 DEF ExecutorInv, NeverRefused, CorroborationLost, NextCorroboration, Goto
<1>4. CASE PutResult
  <2>1. Codes \in SUBSET (Reasons \cup {"served_by_failover", "success", "unavailable", "failed"})
    <3>1. outcome \in {"success", "unavailable", "failed"}
      BY <1>0, <1>4 DEF TypeOK, History, HandedOver, Recording, PutResult
    <3>2. {reasons[k] : k \in 1..Len(reasons)} \ {"none"} \subseteq Reasons
      BY <1>0 DEF TypeOK
    <3> QED BY <3>1, <3>2 DEF Codes
  <2> DEFINE o == [state |-> outcome, codes |-> Codes, served |-> served,
                   ledger |-> ledger, content |-> content, corr |-> corr,
                   heard |-> heard, asked |-> asked, completed |-> CompletedAt]
  <2>2. outcome \in {"success", "unavailable", "failed"}
    BY <1>0, <1>4 DEF TypeOK, History, HandedOver, Recording, PutResult
  <2>3. CompletedAt \in Nat
    BY DEF CompletedAt
  <2>4. o \in Obligations
    BY <1>0, <2>1, <2>2, <2>3 DEF Obligations, TypeOK
  <2>5. file' = Append(file, o)
    BY <1>4 DEF PutResult
  <2> HIDE DEF o
  <2>6. file' \in Seq(Obligations) /\ Len(file') = Len(file) + 1 /\ Len(file) < ItemCount
    BY <1>0, <1>4, <2>4, <2>5 DEF PutResult, TypeOK, History, InRange, Ended
  <2>7. TypeOK'
    BY <1>4, <2>6 DEF TypeOK, PutResult, FreshItem, Goto, Contents, Ended, Origins
  <2>8. History'
    <3>1. /\ reasons' = <<>> /\ ledger' = <<>>
          /\ pc' \in {"halted", "done", "fetch"}
          /\ pc' = "fetch" => Len(file) + 1 # ItemCount
      BY <1>4 DEF PutResult, FreshItem, Goto
    <3>2. RetriesOnly' /\ HandedOver' /\ Replayed'
      BY <3>1 DEF RetriesOnly, HandedOver, Replayed, Recording
    <3>3. Len(file) \in Nat
      BY <1>0 DEF TypeOK
    <3>4. InRange'
      BY <2>6, <3>1, <3>3 DEF InRange, Ended
    <3> QED BY <3>2, <3>4 DEF History
  <2> QED BY <1>4, <2>7, <2>8 DEF ExecutorInv, NeverRefused, PutResult, Goto
<1> QED BY <1>1, <1>2, <1>3, <1>4

\* Every step preserves the invariant.
LEMMA ExecutorStep == ExecutorInv /\ [Next]_vars => ExecutorInv'
<1> SUFFICES ASSUME ExecutorInv, [Next]_vars PROVE ExecutorInv'
  OBVIOUS
<1>1. CASE UNCHANGED vars
  BY <1>1 DEF vars, item, ExecutorInv, TypeOK, History, RetriesOnly, HandedOver,
         Replayed, InRange, NeverRefused, AttemptRow
<1>2. CASE Step
  <2>1. CASE AdapterRaises \/ StoreRaises
    BY <2>1, AbortStep DEF AdapterRaises, StoreRaises
  <2> QED
    BY <1>2, <2>1, FetchStep, RecordStep, ReplayStep, PersistStep DEF Step
<1>3. CASE Finished
  BY <1>1, <1>3 DEF Finished
<1> QED BY <1>1, <1>2, <1>3 DEF Next

\* THEOREM: the capture-control rows, the ledger and the executor's own state
\* stay well formed, and no item is attempted more often than its policy
\* permits, for every plan and every answer of the adapters.
THEOREM ExecutorTypeCorrect == Spec => []TypeOK
<1>1. ExecutorInv => TypeOK
  BY DEF ExecutorInv
<1> QED BY <1>1, ExecutorInit, ExecutorStep, PTL DEF Spec

\* THEOREM: for every attempt limit RetryPolicy admits (1..20), the sink's
\* guards, AttemptLedger and the database triggers accept every history the
\* executor hands over.
THEOREM ExecutorNeverRefused == Spec => []NeverRefused
<1>1. ExecutorInv => NeverRefused
  BY DEF ExecutorInv
<1> QED BY <1>1, ExecutorInit, ExecutorStep, PTL DEF Spec
-----------------------------------------------------------------------------
(* What is on file.                                                        *)

\* Replacing the last entry of a sequence changes that entry only.
LEMMA LastReplaced ==
    ASSUME NEW s \in Seq(0..3), Len(s) >= 1, NEW x \in 0..3
    PROVE  LET e == [s EXCEPT ![Len(s)] = x] IN
           /\ e \in Seq(0..3) /\ Len(e) = Len(s)
           /\ e[Len(s)] = x
           /\ \A k \in 1..Len(s) : k # Len(s) => e[k] = s[k]
OBVIOUS

\* What a replayed row says of its attempt.
LEMMA RowFields ==
    ASSUME NEW k
    PROVE  /\ AttemptRow(k).reason = reasons[k]
           /\ k = Len(reasons) => /\ AttemptRow(k).outcome = outcome
                                  /\ AttemptRow(k).completed = 60
<1> HIDE DEF AttemptOutcome
<1> QED BY DEF AttemptRow, TerminalAttemptAt

\* The item's part of the invariant.
ItemStory == KeptReasons /\ Substitution /\ WrittenSoFar

\* The file's part of the invariant.
FileStory == OneStory /\ SecondOriginWhole /\ FailedIsLast

\* A step of an unfinished run that leaves the file alone keeps its part.
LEMMA FileKept ==
    ASSUME StoryInv, file' = file, pc \notin Ended
    PROVE  FileStory'
<1>1. OneStory' /\ SecondOriginWhole'
  BY DEF StoryInv, OneStory, SecondOriginWhole
<1>2. FailedIsLast'
  BY DEF StoryInv, FailedIsLast, Ended
<1> QED BY <1>1, <1>2 DEF FileStory

\* An exception leaves nothing on file and no item.
LEMMA StoryAbort ==
    ASSUME Abort("raised") PROVE ItemStory' /\ FileStory'
<1>1. KeptReasons' /\ Substitution' /\ WrittenSoFar'
  BY DEF Abort, FreshItem, Goto, KeptReasons, Substitution, WrittenSoFar
<1>2. FileStory'
  BY DEF Abort, FileStory, OneStory, SecondOriginWhole, FailedIsLast
<1> QED BY <1>1, <1>2 DEF ItemStory

\* _run_item's calls: every answer is kept as it was heard.
LEMMA StoryFetch ==
    ASSUME StoryInv,
           \/ FetchServed \/ FailoverShort \/ Failover
           \/ \E r \in Offered : FetchShort(r) \/ FetchFailed(r)
    PROVE  ItemStory'
<1> USE AttemptsAssumption, PlanAssumption
<1>0. /\ TypeOK /\ RetriesOnly /\ KeptReasons /\ Substitution /\ WrittenSoFar
      /\ reasons \in Seq(Reasons \cup {"none"}) /\ heard \in Seq(Answers)
      /\ Len(reasons) \in Nat /\ Len(heard) \in Nat
  BY DEF StoryInv, ExecutorInv, History, TypeOK
<1>1. Retry \cap Stop = {} /\ "none" \notin Stop
  BY DEF Retry, Stop
<1>2. CASE FetchServed
  <2>1. /\ pc = "fetch" /\ pc' = "record" /\ shortfall' = shortfall /\ asked' = asked
        /\ heard' = Append(heard, [answer |-> "served", reason |-> "none"])
        /\ reasons' = Append(reasons, "none")
        /\ outcome' = "success" /\ served' = "none" /\ corr' = corr
    BY <1>2 DEF FetchServed, Hear, Succeed, Goto
  <2>2. KeptReasons'
    BY <1>0, <2>1 DEF KeptReasons
  <2>3. Substitution'
    BY <1>0, <1>1, <2>1 DEF Substitution, RetriesOnly
  <2>4. WrittenSoFar'
    BY <1>0, <2>1 DEF WrittenSoFar
  <2> QED BY <2>2, <2>3, <2>4 DEF ItemStory
<1>3. CASE FailoverShort
  <2>1. PICK origin \in Origins :
            reasons' = Append(reasons, IF origin = "failover" THEN shortfall ELSE "none")
            /\ served' = origin
    BY <1>3 DEF FailoverShort, Succeed
  <2>2. /\ pc = "shortfall" /\ pc' = "record" /\ heard' = heard /\ asked' = asked + 1
        /\ outcome' = "success" /\ corr' = corr /\ shortfall' = shortfall
    BY <1>3 DEF FailoverShort, Succeed, Goto
  <2>3. KeptReasons'
    BY <1>0, <2>1, <2>2 DEF KeptReasons
  <2>4. Substitution'
    BY <1>0, <1>1, <2>1, <2>2 DEF Substitution, RetriesOnly, KeptReasons
  <2>5. WrittenSoFar'
    BY <1>0, <2>2 DEF WrittenSoFar
  <2> QED BY <2>3, <2>4, <2>5 DEF ItemStory
<1>4. CASE Failover
  <2>1. /\ pc = "failover" /\ pc' = "record" /\ heard' = heard /\ asked' = asked + 1
        /\ reasons' = reasons /\ corr' = corr /\ shortfall' = shortfall
        /\ \/ outcome' = "success" /\ served' = "failover"
           \/ outcome' = "unavailable" /\ served' = served
    BY <1>4 DEF Failover, Succeed, Goto
  <2>2. KeptReasons'
    BY <1>0, <2>1 DEF KeptReasons
  <2>3. Substitution'
    BY <1>0, <2>1 DEF Substitution
  <2>4. WrittenSoFar'
    BY <1>0, <2>1 DEF WrittenSoFar
  <2> QED BY <2>2, <2>3, <2>4 DEF ItemStory
<1>5. ASSUME NEW r \in Offered, FetchShort(r) PROVE ItemStory'
  <2>1. /\ pc = "fetch" /\ pc' = "shortfall" /\ shortfall' = r /\ asked' = asked
        /\ r \notin Stop /\ heard' = Append(heard, [answer |-> "short", reason |-> r])
        /\ reasons' = reasons /\ outcome' = outcome /\ served' = served /\ corr' = corr
    BY <1>5 DEF FetchShort, Hear, Goto
  <2>2. KeptReasons'
    BY <1>0, <2>1 DEF KeptReasons
  <2>3. Substitution'
    BY <1>0, <2>1 DEF Substitution
  <2>4. WrittenSoFar'
    BY <1>0, <2>1 DEF WrittenSoFar
  <2> QED BY <2>2, <2>3, <2>4 DEF ItemStory
<1>6. ASSUME NEW r \in Offered, FetchFailed(r) PROVE ItemStory'
  <2>1. /\ pc = "fetch" /\ pc' \in {"record", "fetch", "failover"} /\ asked' = asked
        /\ heard' = Append(heard, [answer |-> "failed", reason |-> r])
        /\ reasons' = Append(reasons, r) /\ served' = served /\ corr' = corr
        /\ outcome' = IF r \in Stop THEN "failed" ELSE "none"
        /\ r \in Stop => pc' = "record"
    BY <1>1, <1>6 DEF FetchFailed, Hear, Goto
  <2>2. KeptReasons'
    BY <1>0, <2>1 DEF KeptReasons
  <2>3. Substitution'
    BY <1>0, <1>1, <2>1 DEF Substitution, RetriesOnly
  <2>4. WrittenSoFar'
    BY <1>0, <2>1 DEF WrittenSoFar
  <2> QED BY <2>2, <2>3, <2>4 DEF ItemStory
<1> QED BY <1>2, <1>3, <1>4, <1>5, <1>6

\* record_outcome's steps: what the item was handed over with stays, and each
\* step adds its own rows.
LEMMA StoryRecord ==
    ASSUME StoryInv,
           \/ RecordOutcome /\ SinkAccepts
           \/ ReplayAttempt
           \/ PersistObservation \/ Corroborate \/ CorroborationLost
    PROVE  ItemStory'
<1> USE AttemptsAssumption, PlanAssumption
<1>0. /\ TypeOK /\ History /\ KeptReasons /\ Substitution /\ WrittenSoFar
      /\ Len(reasons) \in Nat /\ Len(corr) \in Nat /\ Len(ledger) \in Nat
  BY DEF StoryInv, ExecutorInv, TypeOK
<1>1. LET a == AttemptRow(Len(ledger) + 1) IN
      pc = "replay" => LedgerAccepts(a) /\ TriggersAccept(a) /\ a.number = Len(ledger) + 1
  BY <1>0, RowAccepted DEF TriggersAccept
<1>2. /\ pc \in Recording /\ pc' \in Recording
      /\ UNCHANGED <<reasons, shortfall, outcome, served, heard, asked>>
  <2> HIDE DEF AttemptRow
  <2> QED BY <1>1 DEF RecordOutcome, ReplayAttempt, PersistObservation, Corroborate,
             CorroborationLost, NextCorroboration, Goto, Recording
<1>3. KeptReasons'
  BY <1>0, <1>2 DEF KeptReasons, Recording
<1>4. Substitution'
  BY <1>0, <1>2 DEF Substitution, Recording
<1> SUFFICES WrittenSoFar'
  BY <1>3, <1>4 DEF ItemStory
<1>5. \A k \in 1..Len(reasons) : AttemptRow(k)' = AttemptRow(k)
  <2>1. reasons' = reasons /\ outcome' = outcome
    BY <1>2
  <2> QED BY <2>1 DEF AttemptRow
<1>6. ReplayedWhole /\ ledger' = ledger => ReplayedWhole'
  BY <1>2, <1>5 DEF ReplayedWhole
<1>7. CASE RecordOutcome /\ SinkAccepts
  BY <1>0, <1>7 DEF RecordOutcome, WrittenSoFar, Goto
<1>8. CASE ReplayAttempt
  <2> DEFINE a == AttemptRow(Len(ledger) + 1)
  <2>1. /\ pc = "replay" /\ ledger' = Append(ledger, a)
        /\ content' = content /\ corr' = corr
        /\ pc' = CASE Len(ledger) + 1 < Len(reasons) -> "replay"
                   [] Len(ledger) + 1 >= Len(reasons) /\ outcome = "success" -> "observe"
                   [] OTHER -> "result"
    <3> HIDE DEF AttemptRow
    <3> QED BY <1>1, <1>8 DEF ReplayAttempt, Goto
  <2> HIDE DEF a
  <2>2. /\ Len(ledger) < Len(reasons) /\ ledger \in Seq(Attempts)
        /\ \A k \in 1..Len(ledger) : ledger[k] = AttemptRow(k)
    BY <1>0, <2>1 DEF History, Replayed, TypeOK
  <2>3. Len(ledger') = Len(ledger) + 1 /\ ledger'[Len(ledger) + 1] = a
        /\ \A k \in 1..Len(ledger) : ledger'[k] = ledger[k]
    BY <2>1, <2>2
  <2>4. \A k \in 1..Len(ledger') : ledger'[k] = AttemptRow(k)'
    <3> SUFFICES ASSUME NEW k \in 1..Len(ledger') PROVE ledger'[k] = AttemptRow(k)
      BY <1>0, <1>5, <2>2, <2>3
    <3>1. CASE k = Len(ledger) + 1
      BY <2>3, <3>1 DEF a
    <3>2. CASE k # Len(ledger) + 1
      BY <1>0, <2>2, <2>3, <3>2
    <3> QED BY <3>1, <3>2
  <2>5. pc' \in {"observe", "result"} => ReplayedWhole'
    BY <1>0, <1>2, <2>1, <2>2, <2>3, <2>4 DEF ReplayedWhole
  <2>6. pc' \in {"replay", "observe", "result"} /\ (pc' = "observe" => outcome = "success")
        /\ (pc' = "result" => outcome # "success")
    BY <1>0, <2>1, <2>2
  <2> QED BY <1>0, <1>2, <2>1, <2>4, <2>5, <2>6 DEF WrittenSoFar
<1>9. CASE PersistObservation
  <2>1. /\ pc = "observe" /\ pc' \in {"result", "corroborate"} /\ ledger' = ledger
        /\ content' = content \cup {"observation"}
        /\ \/ corr' = corr /\ pc' = "result"
           \/ corr' = <<0>> /\ pc' = "corroborate"
    BY <1>9 DEF PersistObservation, Goto
  <2> QED BY <1>0, <1>2, <1>6, <2>1 DEF WrittenSoFar
<1>10. CASE Corroborate \/ CorroborationLost
  <2>1. /\ pc = "corroborate" /\ pc' \in {"corroborate", "result"}
        /\ ledger' = ledger /\ content' = content
    BY <1>10 DEF Corroborate, CorroborationLost, NextCorroboration, Goto
  <2>2. /\ corr \in Seq(0..3) /\ Len(corr) >= 1
        /\ \A x \in 0..3 : /\ [corr EXCEPT ![Len(corr)] = x] \in Seq(0..3)
                           /\ Len([corr EXCEPT ![Len(corr)] = x]) = Len(corr)
    BY <1>0, <2>1, SeqExcept DEF TypeOK, History, InRange
  <2>3. \/ \E x \in 0..3 : corr' = [corr EXCEPT ![Len(corr)] = x] /\ pc' = "corroborate"
        \/ \E x \in {0, 3} : corr' = [corr EXCEPT ![Len(corr)] = x] /\ pc' = "result"
        \/ \E x \in {0, 3} : /\ corr' = Append([corr EXCEPT ![Len(corr)] = x], 0)
                             /\ pc' = "corroborate"
    <3>1. corr[Len(corr)] \in 0..3
      BY <1>0, <2>2 DEF TypeOK
    <3> QED BY <1>10, <2>1, <3>1 DEF Corroborate, CorroborationLost, NextCorroboration, Goto
  <2>4. \A k \in 1..Len(corr') : corr'[k] \in {0, 3} \/ (k = Len(corr') /\ pc' = "corroborate")
    <3>1. \A k \in 1..Len(corr) : k # Len(corr) => corr[k] \in {0, 3}
      BY <1>0 DEF WrittenSoFar
    <3>2. ASSUME NEW x \in 0..3
          PROVE  LET e == [corr EXCEPT ![Len(corr)] = x] IN
                 /\ e \in Seq(0..3) /\ Len(e) = Len(corr) /\ e[Len(corr)] = x
                 /\ \A k \in 1..Len(corr) : k # Len(corr) => e[k] \in {0, 3}
      <4> DEFINE e == [corr EXCEPT ![Len(corr)] = x]
      <4>1. corr \in Seq(0..3) /\ Len(corr) >= 1
        BY <2>2
      <4>2. /\ e \in Seq(0..3) /\ Len(e) = Len(corr) /\ e[Len(corr)] = x
            /\ \A k \in 1..Len(corr) : k # Len(corr) => e[k] = corr[k]
        BY <4>1, LastReplaced
      <4> HIDE DEF e
      <4>3. \A k \in 1..Len(corr) : k # Len(corr) => e[k] \in {0, 3}
        BY <3>1, <4>2
      <4> QED BY <4>2, <4>3 DEF e
    <3>3. ASSUME NEW x \in 0..3, corr' = [corr EXCEPT ![Len(corr)] = x],
                 pc' = "corroborate" \/ x \in {0, 3}
          PROVE  \A k \in 1..Len(corr') :
                     corr'[k] \in {0, 3} \/ (k = Len(corr') /\ pc' = "corroborate")
      <4>1. /\ Len(corr') = Len(corr) /\ corr'[Len(corr)] = x
            /\ \A k \in 1..Len(corr) : k # Len(corr) => corr'[k] \in {0, 3}
        BY <3>2, <3>3
      <4> QED BY <3>3, <4>1
    <3>4. ASSUME NEW x \in {0, 3}, corr' = Append([corr EXCEPT ![Len(corr)] = x], 0)
          PROVE  \A k \in 1..Len(corr') : corr'[k] \in {0, 3}
      <4> DEFINE e == [corr EXCEPT ![Len(corr)] = x]
      <4>1. /\ e \in Seq(0..3) /\ Len(e) = Len(corr) /\ e[Len(corr)] = x
            /\ \A k \in 1..Len(corr) : k # Len(corr) => e[k] \in {0, 3}
        <5>1. x \in 0..3
          OBVIOUS
        <5> QED BY <3>2, <5>1
      <4>2. corr' = Append(e, 0)
        BY <3>4
      <4> HIDE DEF e
      <4>3. Len(corr') = Len(e) + 1 /\ corr'[Len(e) + 1] = 0
            /\ \A k \in 1..Len(e) : corr'[k] = e[k]
        BY <4>1, <4>2
      <4> QED BY <1>0, <4>1, <4>3
    <3> QED BY <2>3, <3>3, <3>4
  <2> QED BY <1>0, <1>2, <1>6, <2>1, <2>4 DEF WrittenSoFar
<1> QED BY <1>7, <1>8, <1>9, <1>10

\* The obligation put on file tells what happened.
LEMMA StoryPut ==
    ASSUME StoryInv, PutResult
    PROVE  ItemStory' /\ FileStory'
<1> USE AttemptsAssumption, PlanAssumption
<1> DEFINE o == [state |-> outcome, codes |-> Codes, served |-> served,
                 ledger |-> ledger, content |-> content, corr |-> corr,
                 heard |-> heard, asked |-> asked, completed |-> CompletedAt]
           n == Len(ledger)
<1>0. /\ TypeOK /\ History /\ KeptReasons /\ Substitution /\ WrittenSoFar
      /\ Len(reasons) \in Nat /\ Len(file) \in Nat /\ pc = "result"
  BY DEF StoryInv, ExecutorInv, TypeOK, PutResult
<1>1. /\ n = Len(reasons) /\ n = Len(heard) /\ n >= 1 /\ n \in Nat
      /\ \A k \in 1..n : ledger[k] = AttemptRow(k)
  BY <1>0 DEF WrittenSoFar, ReplayedWhole, KeptReasons, History, HandedOver, Recording
<1>2. \A k \in 1..n : ledger[k].reason = reasons[k]
  BY <1>1, RowFields
<1>3. ledger[n].outcome = outcome /\ ledger[n].completed = 60
  BY <1>1, RowFields
<1>4. /\ \A k \in 1..n : reasons[k] \in Codes \cup {"none"}
      /\ \A c \in Codes : c \in Stop => \E k \in 1..n : reasons[k] = c
      /\ served = "failover" <=> "served_by_failover" \in Codes
  <2>1. "served_by_failover" \notin Reasons \cup {"none", "success", "unavailable", "failed"}
    BY DEF Reasons, Stop, Retry, TraceOnly
  <2>2. {"served_by_failover", "success", "unavailable", "failed", "none"} \cap Stop = {}
    BY DEF Stop
  <2>3. /\ reasons \in Seq(Reasons \cup {"none"}) /\ served \in Origins
        /\ outcome \in {"success", "unavailable", "failed"}
    BY <1>0 DEF TypeOK, History, HandedOver, Recording
  <2> DEFINE kept == {reasons[k] : k \in 1..Len(reasons)} \ {"none"}
  <2>4. kept \subseteq Reasons
    BY <2>3
  <2>5. Codes = IF served = "failover" THEN kept \cup {"served_by_failover"}
                ELSE IF kept = {} THEN {outcome} ELSE kept
    BY DEF Codes
  <2>6. /\ \A k \in 1..n : reasons[k] \in kept \cup {"none"}
        /\ \A c \in kept : \E k \in 1..n : reasons[k] = c
    BY <1>1
  <2> HIDE DEF kept, n
  <2> QED BY <2>1, <2>2, <2>3, <2>4, <2>5, <2>6
<1>5. StoryOf(o)
  <2>1. served = "failover" <=> (outcome = "success" /\ reasons[n] # "none")
    BY <1>0, <1>1 DEF History, HandedOver, Recording, Substitution
  <2>2. \A k \in 1..n : heard[k].answer = "failed" => reasons[k] = heard[k].reason
    BY <1>0, <1>1 DEF KeptReasons
  <2>3. served = "failover" => reasons[n] = heard[n].reason
    BY <1>0, <1>1, <2>1 DEF KeptReasons
  <2>4. content = IF outcome = "success" THEN {"evidence", "vintage", "observation"} ELSE {}
    BY <1>0 DEF WrittenSoFar
  <2>5. CompletedAt >= ledger[n].completed
    BY <1>3 DEF CompletedAt
  <2>6. n \in 1..n
    BY <1>1
  <2> HIDE DEF Codes
  <2> QED BY <1>1, <1>2, <1>3, <1>4, <2>1, <2>2, <2>3, <2>4, <2>5, <2>6 DEF StoryOf
<1>6. o.codes \cap Stop # {} => o.state = "failed" /\ o.asked = 0
  BY <1>0, <1>1, <1>4 DEF Substitution
<1>7. /\ \A k \in 1..Len(o.corr) : o.corr[k] \in {0, 3}
      /\ o.asked <= 1
  BY <1>0 DEF WrittenSoFar, Substitution
<1>8. o.state = outcome
  OBVIOUS
<1>9. file' = Append(file, o) /\ FreshItem
      /\ pc' = CASE outcome = "failed" -> "halted"
                 [] outcome # "failed" /\ Len(file) + 1 = ItemCount -> "done"
                 [] OTHER -> "fetch"
  BY DEF PutResult, Goto
<1> HIDE DEF o, n
<1>10. /\ Len(file') = Len(file) + 1 /\ file'[Len(file) + 1] = o
       /\ \A i \in 1..Len(file) : file'[i] = file[i]
  BY <1>0, <1>9 DEF TypeOK
<1>11. pc' \in {"halted", "done", "fetch"} /\ (outcome = "failed" => pc' = "halted")
  BY <1>9
<1>12. \A i \in 1..Len(file') : i \in 1..Len(file) \/ i = Len(file) + 1
  BY <1>0, <1>10
<1>13. OneStory'
  <2>1. \A i \in 1..Len(file') : StoryOf(file'[i])
    BY <1>5, <1>10, <1>12 DEF StoryInv, OneStory
  <2> QED BY <2>1 DEF OneStory, StoryOf
<1>14. SecondOriginWhole'
  BY <1>7, <1>10, <1>12 DEF StoryInv, SecondOriginWhole
<1>15. FailedIsLast'
  BY <1>0, <1>6, <1>8, <1>10, <1>11, <1>12 DEF StoryInv, FailedIsLast
<1>16. ItemStory'
  BY <1>9, <1>11 DEF FreshItem, ItemStory, KeptReasons, Substitution, WrittenSoFar
<1> QED BY <1>13, <1>14, <1>15, <1>16 DEF FileStory

\* Every step keeps the story.
LEMMA StoryStep == StoryInv /\ [Next]_vars => StoryInv'
<1> SUFFICES ASSUME StoryInv, [Next]_vars PROVE ItemStory' /\ FileStory'
  BY ExecutorStep DEF StoryInv, ItemStory, FileStory
<1>1. CASE UNCHANGED vars
  BY <1>1 DEF vars, item, StoryInv, ItemStory, FileStory, KeptReasons, Substitution,
     WrittenSoFar, ReplayedWhole, AttemptRow, OneStory, SecondOriginWhole, FailedIsLast
<1>2. CASE AdapterRaises \/ StoreRaises
  BY <1>2, StoryAbort DEF AdapterRaises, StoreRaises
<1>3. CASE \/ FetchServed \/ FailoverShort \/ Failover
           \/ \E r \in Offered : FetchShort(r) \/ FetchFailed(r)
  <2>1. file' = file /\ pc \notin Ended
    BY <1>3 DEF FetchServed, FailoverShort, Failover, FetchShort, FetchFailed, Ended
  <2> QED BY <1>3, <2>1, FileKept, StoryFetch
<1>4. CASE RecordOutcome
  <2>1. SinkAccepts
    BY <1>4 DEF StoryInv, ExecutorInv, TypeOK, History, HandedOver, RecordOutcome,
       SinkAccepts, Recording
  <2>2. file' = file /\ pc \notin Ended
    BY <1>4, <2>1 DEF RecordOutcome, Ended
  <2> QED BY <1>4, <2>1, <2>2, FileKept, StoryRecord
<1>5. CASE ReplayAttempt
  <2>1. /\ LedgerAccepts(AttemptRow(Len(ledger) + 1))
        /\ TriggersAccept(AttemptRow(Len(ledger) + 1))
    BY <1>5, RowAccepted DEF StoryInv, ExecutorInv, ReplayAttempt
  <2>2. file' = file /\ pc \notin Ended
    <3> HIDE DEF AttemptRow
    <3> QED BY <1>5, <2>1 DEF ReplayAttempt, Ended
  <2> QED BY <1>5, <2>2, FileKept, StoryRecord
<1>6. CASE PersistObservation \/ Corroborate \/ CorroborationLost
  <2>1. file' = file /\ pc \notin Ended
    BY <1>6 DEF PersistObservation, Corroborate, CorroborationLost, Ended
  <2> QED BY <1>6, <2>1, FileKept, StoryRecord
<1>7. CASE PutResult
  BY <1>7, StoryPut
<1> QED BY <1>1, <1>2, <1>3, <1>4, <1>5, <1>6, <1>7 DEF Next, Step, Finished

LEMMA StoryInit == Init => StoryInv
<1> SUFFICES ASSUME Init PROVE StoryInv
  OBVIOUS
<1>1. KeptReasons /\ Substitution /\ WrittenSoFar
  BY DEF Init, KeptReasons, Substitution, WrittenSoFar
<1>2. OneStory /\ SecondOriginWhole /\ FailedIsLast
  BY DEF Init, OneStory, SecondOriginWhole, FailedIsLast
<1> QED BY <1>1, <1>2, ExecutorInit DEF StoryInv

LEMMA StoryAlways == Spec => []StoryInv
  BY StoryInit, StoryStep, PTL DEF Spec

\* THEOREM: every obligation on file tells what the primary answered and who
\* served it, whatever the adapters answered.
THEOREM FileTellsOneStory == Spec => []OneStory
<1>1. StoryInv => OneStory
  BY DEF StoryInv
<1> QED BY <1>1, StoryAlways, PTL

\* THEOREM: a STOP fails its obligation, asks no other origin and ends the run.
THEOREM StopAlwaysHalts == Spec => []StopHalts
<1>1. StoryInv => StopHalts
  BY DEF StoryInv, FailedIsLast, StopHalts
<1> QED BY <1>1, StoryAlways, PTL

\* THEOREM: a second origin is on file whole or not at all.
THEOREM SecondOriginsWhole == Spec => []SecondOriginWhole
<1>1. StoryInv => SecondOriginWhole
  BY DEF StoryInv
<1> QED BY <1>1, StoryAlways, PTL
-----------------------------------------------------------------------------
(* The contract CaptureTick relies on.                                     *)

\* Every step of the executor is, for its caller, one resolved obligation, an
\* abort, or nothing.
LEMMA ContractStep ==
    StoryInv /\ [Next]_vars =>
        [Contract!Next]_<<[i \in 1..ItemCount |-> Resolved(i)], Status>>
<1> SUFFICES ASSUME StoryInv, [Next]_vars
             PROVE  [Contract!Next]_<<[i \in 1..ItemCount |-> Resolved(i)], Status>>
  OBVIOUS
<1> USE AttemptsAssumption, PlanAssumption
<1> DEFINE res == [i \in 1..ItemCount |-> Resolved(i)]
<1>0. TypeOK /\ History /\ Len(file) \in Nat
  BY DEF StoryInv, ExecutorInv, TypeOK
<1>1. CASE file' = file /\ Status' = Status
  BY <1>1 DEF Resolved
<1>2. CASE AdapterRaises \/ StoreRaises
  <2>1. /\ Status = "running" /\ Status' = "aborted" /\ file' = <<>>
    BY <1>2 DEF AdapterRaises, StoreRaises, Abort, Goto, Status, Ended
  <2>2. res' = [i \in 1..ItemCount |-> "none"]
    BY <2>1 DEF Resolved
  <2>3. Contract!Abort
    BY <2>1, <2>2 DEF Contract!Abort, Contract!Nothing, Contract!Items
  <2> QED BY <2>3 DEF Contract!Next
<1>3. CASE PutResult
  <2> DEFINE n == Len(file) + 1
  <2>1. /\ n \in 1..ItemCount
        /\ outcome \in {"success", "unavailable", "failed"}
        /\ pc = "result" /\ Status = "running"
    BY <1>0, <1>3 DEF PutResult, History, InRange, Ended, HandedOver, Recording, TypeOK, Status
  <2>2. PICK o : file' = Append(file, o) /\ o.state = outcome
    BY <1>3 DEF PutResult
  <2>3. Len(file') = n /\ file'[n].state = outcome
        /\ \A i \in 1..Len(file) : file'[i] = file[i]
    BY <1>0, <2>2 DEF TypeOK
  <2>4. Status' = CASE outcome = "failed" -> "halted"
                    [] outcome # "failed" /\ n = ItemCount -> "done"
                    [] OTHER -> "running"
    BY <1>3 DEF PutResult, Goto, Status
  <2> HIDE DEF n
  <2>5. \A i \in 1..ItemCount : Resolved(i)' = IF i = n THEN outcome ELSE Resolved(i)
    BY <1>0, <2>3 DEF n, Resolved
  <2>6. res' = [res EXCEPT ![n] = outcome]
    BY <2>1, <2>5
  <2>7. res[n] = "none" /\ \A j \in 1..(n - 1) : res[j] # "none"
    <3>1. \A j \in 1..Len(file) : file[j].state \in {"success", "unavailable", "failed"}
      <4>1. file \in Seq(Obligations)
        BY <1>0 DEF TypeOK
      <4>2. \A j \in 1..Len(file) : file[j] \in Obligations
        BY <4>1
      <4>3. \A x \in Obligations : x.state \in {"success", "unavailable", "failed"}
        BY DEF Obligations
      <4> QED BY <4>2, <4>3
    <3> QED BY <1>0, <2>1, <3>1 DEF n, Resolved
  <2>8. Contract!Resolve(n)
    BY <2>1, <2>4, <2>6, <2>7 DEF Contract!Resolve, Contract!States
  <2> QED BY <2>1, <2>8 DEF Contract!Next, Contract!Items
<1>4. CASE ~(PutResult \/ AdapterRaises \/ StoreRaises)
  <2>1. ReplayAttempt => /\ LedgerAccepts(AttemptRow(Len(ledger) + 1))
                         /\ TriggersAccept(AttemptRow(Len(ledger) + 1))
    BY <1>0, RowAccepted DEF ReplayAttempt
  <2>2. RecordOutcome => SinkAccepts
    BY <1>0 DEF TypeOK, History, HandedOver, RecordOutcome, SinkAccepts, Recording
  <2>3. file' = file
    <3> HIDE DEF AttemptRow
    <3> QED BY <1>4, <2>1, <2>2 DEF Next, Step, Finished, vars, FetchServed, FetchShort,
            FetchFailed, FailoverShort, Failover, RecordOutcome, ReplayAttempt,
            PersistObservation, Corroborate, CorroborationLost
  <2>4. pc' = pc \/ (pc \notin Ended /\ pc' \notin Ended)
    <3>1. CASE ReplayAttempt
      <4> HIDE DEF AttemptRow
      <4> QED BY <2>1, <3>1 DEF ReplayAttempt, Goto, Ended
    <3>2. CASE ~ReplayAttempt
      BY <1>4, <2>2, <3>2 DEF Next, Step, Finished, vars, FetchServed, FetchShort,
         FetchFailed, FailoverShort, Failover, RecordOutcome, Succeed, NextCorroboration,
         PersistObservation, Corroborate, CorroborationLost, Goto, Ended
    <3> QED BY <3>1, <3>2
  <2>5. Status' = Status
    BY <2>4 DEF Status, Ended
  <2> QED BY <1>1, <2>3, <2>5
<1> QED BY <1>2, <1>3, <1>4

\* THEOREM: for its caller, the executor is CaptureContract: obligations are
\* resolved in plan order, a fatal one halts the run, an exception leaves
\* nothing.
THEOREM ExecutorImplementsContract == Spec => ImplementsContract
<1>1. Init => Contract!Init
  BY DEF Init, Contract!Init, Contract!Nothing, Contract!Items, Resolved, Status, Ended
<1> QED BY <1>1, StoryAlways, ContractStep, PTL DEF Spec, ImplementsContract, Contract!Spec
=============================================================================
