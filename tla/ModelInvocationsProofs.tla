----------------------- MODULE ModelInvocationsProofs -----------------------
(* A question is answered once and its first answer stays, for any number of *)
(* ops, questions, configurations, calls and deaths (invoke, _lock_question, *)
(* _replay and _ask in sources/llm.py).                                      *)
EXTENDS ModelInvocations, TLAPS, FiniteSetTheorems

\* Rows on file or in a transaction that is still open.
AllRows == rows \cup UNION {op[o].written : o \in Ops}

OpTotal == op = [o \in Ops |-> op[o]]

\* A key is held by one transaction.
LocksExclusive ==
    \A o, p \in Ops : o # p => \A k \in op[o].locks : k \notin op[p].locks

\* A transaction holds the key of every row it has written ...
RowsLocked == \A o \in Ops : \A r \in op[o].written : <<r.question>> \in op[o].locks

\* ... and of the question it is at.
QuestionLocked ==
    \A o \in Ops : op[o].at \in {"locked", "asking", "accepted", "refused"} => <<Question(o)>> \in op[o].locks

\* Who asks has found nothing to replay, and that stays true until it has asked.
NothingToReplay ==
    \A o \in Ops : op[o].at = "asking" => \A r \in Known(o) : ~Matches(r, Question(o), op[o].with)

\* Calls are numbered in the order they are made.
Numbered ==
    /\ \E n \in Nat : asked = 1..n
    /\ \A r \in AllRows : r.id \in asked

OnceInAll ==
    \A r, s \in AllRows : r.id < s.id /\ s.status = "answer"
        => ~Matches(r, s.question, [model |-> s.model, version |-> s.version])

\* A row in an open transaction is later than all the rows of its question on file.
OpenIsLater ==
    \A o \in Ops : \A r \in rows, s \in op[o].written : r.question = s.question => r.id < s.id

IsLeast(m, S) == m \in S /\ \A s \in S : m.id <= s.id

\* An answered question has a first answer.
FirstAnswers ==
    \A q, c :
        /\ Answers(rows, q, c) # {} => \E m : IsLeast(m, Answers(rows, q, c))
        /\ \A o \in Ops : Answers(op[o].written, q, c) # {} => \E m : IsLeast(m, Answers(op[o].written, q, c))

LockInv == LocksExclusive /\ RowsLocked /\ QuestionLocked

OnceInv == OpTotal /\ LockInv /\ NothingToReplay /\ Numbered /\ OnceInAll

\* The number of the next call is later than every row.
LEMMA NextNumber ==
    ASSUME Numbered
    PROVE  /\ Cardinality(asked) \in Nat /\ asked = 1..Cardinality(asked)
           /\ \A r \in AllRows : r.id \in Nat /\ r.id < Cardinality(asked) + 1
<1>1. PICK n \in Nat : asked = 1..n
    BY DEF Numbered
<1>2. Cardinality(asked) = n
    BY <1>1, FS_Interval
<1> QED
    BY <1>1, <1>2 DEF Numbered

\* A step of one op leaves the others alone.
LEMMA OneOp ==
    ASSUME OpTotal, NEW o \in Ops, NEW x, op' = [op EXCEPT ![o] = x]
    PROVE  OpTotal' /\ op'[o] = x /\ \A p \in Ops : p # o => op'[p] = op[p]
BY DEF OpTotal

\* The same, field by field.
LEMMA OneGoes ==
    ASSUME OpTotal, NEW o \in Ops, NEW at, NEW todo, NEW locks, NEW written, Goes(o, at, todo, locks, written)
    PROVE  /\ OpTotal' /\ \A p \in Ops : p # o => op'[p] = op[p]
           /\ op'[o].at = at /\ op'[o].todo = todo /\ op'[o].locks = locks /\ op'[o].written = written
           /\ op'[o].with = op[o].with
<1> DEFINE x == Op(at, op[o].kind, todo, op[o].with, locks, written)
<1>1. op' = [op EXCEPT ![o] = x]
    BY DEF Goes
<1>2. /\ x.at = at /\ x.todo = todo /\ x.locks = locks /\ x.written = written
      /\ x.with = op[o].with
    BY DEF Op
<1> HIDE DEF x
<1> QED
    BY <1>1, <1>2, OneOp

\* A transaction ends without a row, or a new one begins.
Ends(o) ==
    /\ rows' = rows /\ asked' = asked
    /\ \A p \in Ops : p # o => op'[p] = op[p]
    /\ op'[o].at \in {"next", "failed"} /\ op'[o].locks = {} /\ op'[o].written = {}

\* A transaction goes on, with no new row and the question it is at locked.
Keeps(o) ==
    /\ rows' = rows /\ asked' = asked
    /\ \A p \in Ops : p # o => op'[p] = op[p]
    /\ op'[o].written = op[o].written
    /\ op'[o].with = op[o].with
    /\ \/ op'[o].at = "next" /\ op'[o].locks = op[o].locks
       \/ /\ op[o].at = "next" /\ op'[o].at = "locked" /\ op'[o].todo = op[o].todo
          /\ op'[o].locks = op[o].locks \cup {LockKey(o)} /\ \A p \in Ops \ {o} : LockKey(o) \notin op[p].locks
       \/ /\ op[o].at \in {"locked", "asking"} /\ op'[o].at \in {"asking", "accepted", "refused"}
          /\ op'[o].todo = op[o].todo /\ op'[o].locks = op[o].locks
          /\ op'[o].at = "asking" => Answers(Known(o), Question(o), op[o].with) = {}

\* A transaction gets the row of a call.
Inserts(o, row) ==
    /\ rows' = rows /\ op[o].at = "asking" /\ asked' = asked \cup {Cardinality(asked) + 1}
    /\ \A p \in Ops : p # o => op'[p] = op[p]
    /\ op'[o].at \in {"accepted", "refused"} /\ op'[o].todo = op[o].todo /\ op'[o].locks = op[o].locks
    /\ op'[o].written = op[o].written \cup {row}
    /\ row.id = Cardinality(asked) + 1 /\ row.question = Question(o)
    /\ row.model = op[o].with.model

\* A transaction commits.
Commits(o) ==
    /\ rows' = rows \cup op[o].written /\ asked' = asked
    /\ \A p \in Ops : p # o => op'[p] = op[p]
    /\ op'[o].at \in {"next", "done", "failed"} /\ op'[o].locks = {} /\ op'[o].written = {}

\* Every action is one of the four.
LEMMA FourEffects ==
    ASSUME OpTotal, [Next]_vars
    PROVE  /\ OpTotal'
           /\ \/ UNCHANGED vars
              \/ \E o \in Ops : Ends(o) \/ Keeps(o) \/ Commits(o) \/ \E row : Inserts(o, row)
<1>1. ASSUME NEW o \in Ops, Launch(o) PROVE OpTotal' /\ Ends(o)
  <2>1. PICK k, c, s : op' = [op EXCEPT ![o] = Op("next", k, s, c, {}, {})]
    BY <1>1 DEF Launch
  <2>2. OpTotal' /\ op'[o] = Op("next", k, s, c, {}, {}) /\ \A p \in Ops : p # o => op'[p] = op[p]
    BY <2>1, OneOp
  <2> QED
    BY <1>1, <2>2 DEF Launch, Op, Ends
<1>2. ASSUME NEW o \in Ops, LockQuestion(o) PROVE OpTotal' /\ Keeps(o)
    BY <1>2, OneGoes DEF LockQuestion, Keeps
<1>3. ASSUME NEW o \in Ops, Replay(o) PROVE OpTotal' /\ Keeps(o)
    BY <1>3, OneGoes DEF Replay, Moves, Keeps
<1>4. ASSUME NEW o \in Ops, AskAnswered(o) PROVE OpTotal' /\ \E row : Inserts(o, row)
  <2>1. PICK served : Insert(o, Row(o, "answer", served), "accepted")
    BY <1>4 DEF AskAnswered
  <2> DEFINE row == Row(o, "answer", served)
  <2>2. row.id = Cardinality(asked) + 1 /\ row.question = Question(o) /\ row.model = op[o].with.model
    BY DEF Row
  <2> HIDE DEF row
  <2>3. OpTotal' /\ Inserts(o, row)
    BY <1>4, <2>1, <2>2, OneGoes DEF AskAnswered, Ask, Insert, Inserts, row
  <2> QED
    BY <2>3
<1>5. ASSUME NEW o \in Ops, AskRefused(o) PROVE OpTotal' /\ \E row : Inserts(o, row)
  <2>1. PICK status : Insert(o, Row(o, status, "none"), "refused")
    BY <1>5 DEF AskRefused
  <2> DEFINE row == Row(o, status, "none")
  <2>2. row.id = Cardinality(asked) + 1 /\ row.question = Question(o) /\ row.model = op[o].with.model
    BY DEF Row
  <2> HIDE DEF row
  <2>3. Goes(o, "refused", op[o].todo, op[o].locks, op[o].written \cup {row})
    BY <2>1 DEF Insert, row
  <2>4. rows' = rows /\ Ask(o)
    BY <1>5 DEF AskRefused
  <2>5. OpTotal' /\ Inserts(o, row)
    BY <2>2, <2>3, <2>4, OneGoes DEF Ask, Inserts
  <2> QED
    BY <2>5
<1>6. ASSUME NEW o \in Ops, AskNotSent(o) PROVE OpTotal' /\ Keeps(o)
    BY <1>6, OneGoes DEF AskNotSent, Moves, Keeps
<1>7. ASSUME NEW o \in Ops, AskBroken(o) \/ Die(o) PROVE OpTotal' /\ Ends(o)
    BY <1>7, OneOp DEF AskBroken, Die, Resting, Op, Ends
<1>8. ASSUME NEW o \in Ops, Proceed(o) PROVE OpTotal' /\ (Keeps(o) \/ Commits(o))
    BY <1>8, OneGoes DEF Proceed, Commit, Keeps, Commits
<1>9. ASSUME NEW o \in Ops, RaiseRefusal(o) PROVE OpTotal' /\ (Keeps(o) \/ Commits(o) \/ Ends(o))
    BY <1>9, OneGoes, OneOp DEF RaiseRefusal, Commit, Keeps, Commits, Ends, Resting, Op
<1>10. ASSUME NEW o \in Ops, Finish(o) PROVE OpTotal' /\ Commits(o)
    BY <1>10, OneGoes DEF Finish, Commit, Commits
<1>11. CASE UNCHANGED vars
    BY <1>11 DEF vars, OpTotal
<1> QED
    BY <1>1, <1>2, <1>3, <1>4, <1>5, <1>6, <1>7, <1>8, <1>9, <1>10, <1>11 DEF Next, Step

\* No op has asked in the initial state.
LEMMA OnceInvInit == Init => OnceInv /\ OpenIsLater /\ FirstAnswers
<1> SUFFICES ASSUME Init PROVE OnceInv /\ OpenIsLater /\ FirstAnswers
    OBVIOUS
<1>1. /\ rows = {} /\ asked = {} /\ OpTotal
      /\ \A o \in Ops : op[o].at = "idle" /\ op[o].locks = {} /\ op[o].written = {}
    BY DEF Init, Resting, Op, OpTotal
<1>2. asked = 1..0
    BY <1>1
<1>3. AllRows = {}
    BY <1>1 DEF AllRows
<1>4. LockInv /\ NothingToReplay /\ OpenIsLater
    BY <1>1 DEF LockInv, LocksExclusive, RowsLocked, QuestionLocked, NothingToReplay, OpenIsLater
<1>5. Numbered /\ OnceInAll
    BY <1>2, <1>3 DEF Numbered, OnceInAll
<1>6. FirstAnswers
    BY <1>1 DEF FirstAnswers, Answers
<1> QED
    BY <1>1, <1>4, <1>5, <1>6 DEF OnceInv

\* The locks: a key is taken when no other transaction holds it, and given back
\* with the rows written under it.
LEMMA LocksKept ==
    ASSUME LockInv, NEW o \in Ops, Ends(o) \/ Keeps(o) \/ Commits(o) \/ \E row : Inserts(o, row)
    PROVE  LockInv'
<1>1. CASE Ends(o) \/ Commits(o)
    BY <1>1 DEF LockInv, LocksExclusive, RowsLocked, QuestionLocked, Ends, Commits, Question
<1>2. CASE Keeps(o)
  <2>1. LocksExclusive'
    BY <1>2 DEF LockInv, LocksExclusive, Keeps
  <2>2. RowsLocked'
    BY <1>2 DEF LockInv, RowsLocked, Keeps
  <2>3. QuestionLocked'
    BY <1>2 DEF LockInv, QuestionLocked, Keeps, LockKey, Question
  <2> QED
    BY <2>1, <2>2, <2>3 DEF LockInv
<1>3. ASSUME NEW row, Inserts(o, row) PROVE LockInv'
  <2>1. LocksExclusive'
    BY <1>3 DEF LockInv, LocksExclusive, Inserts
  <2>2. RowsLocked'
    BY <1>3 DEF LockInv, RowsLocked, QuestionLocked, Inserts
  <2>3. QuestionLocked'
    BY <1>3 DEF LockInv, QuestionLocked, Inserts, Question
  <2> QED
    BY <2>1, <2>2, <2>3 DEF LockInv
<1> QED
    BY <1>1, <1>2, <1>3

\* A row of another transaction is of another question than one that is locked.
LEMMA ForeignRow ==
    ASSUME LockInv, NEW o \in Ops, NEW p \in Ops, o # p, NEW r \in op[p].written, NEW q, <<q>> \in op[o].locks
    PROVE  r.question # q
BY DEF LockInv, LocksExclusive, RowsLocked

\* A commit of another transaction brings nothing to replay.
LEMMA NothingToReplayKept ==
    ASSUME LockInv, NothingToReplay,
           NEW o \in Ops, Ends(o) \/ Keeps(o) \/ Commits(o) \/ \E row : Inserts(o, row)
    PROVE  NothingToReplay'
<1> SUFFICES ASSUME NEW a \in Ops, op'[a].at = "asking", NEW r \in Known(a)'
             PROVE  ~Matches(r, Question(a)', op'[a].with)
    BY DEF NothingToReplay, Matches
<1>1. CASE a = o
    BY <1>1 DEF Ends, Keeps, Commits, Inserts, Known, Answers, Question
<1>2. CASE a # o
  <2>1. op'[a] = op[a] /\ Question(a)' = Question(a)
    BY <1>2 DEF Ends, Keeps, Commits, Inserts, Question
  <2>2. r \in Known(a) \/ r \in op[o].written
    BY <2>1 DEF Ends, Keeps, Commits, Inserts, Known
  <2>3. r \in op[o].written => r.question # Question(a)
    BY <1>2, <2>1, ForeignRow DEF LockInv, QuestionLocked
  <2> QED
    BY <2>1, <2>2, <2>3 DEF NothingToReplay, Matches
<1> QED
    BY <1>1, <1>2

\* The rows there are: a step adds at most the row of a call.
LEMMA RowsThere ==
    ASSUME NEW o \in Ops
    PROVE  /\ Ends(o) \/ Keeps(o) \/ Commits(o) => AllRows' \subseteq AllRows
           /\ \A row : Inserts(o, row) => AllRows' \subseteq AllRows \cup {row}
BY DEF AllRows, Ends, Keeps, Commits, Inserts

\* No step asks again what would have replayed.
LEMMA OnceInvNext == OnceInv /\ [Next]_vars => OnceInv'
<1> SUFFICES ASSUME OnceInv, [Next]_vars
             PROVE  OnceInv'
    OBVIOUS
<1>0. OpTotal'
    BY FourEffects DEF OnceInv
<1>1. CASE UNCHANGED vars
    BY <1>1 DEF vars, OnceInv, OpTotal, LockInv, LocksExclusive, RowsLocked, QuestionLocked, Question,
               NothingToReplay, Known, Matches, Numbered, AllRows, OnceInAll
<1>2. ASSUME NEW o \in Ops, Ends(o) \/ Keeps(o) \/ Commits(o) PROVE OnceInv'
  <2>1. AllRows' \subseteq AllRows /\ asked' = asked
    BY <1>2, RowsThere DEF Ends, Keeps, Commits
  <2>2. Numbered' /\ OnceInAll'
    BY <2>1 DEF OnceInv, Numbered, OnceInAll, Matches
  <2> QED
    BY <1>0, <1>2, <2>2, LocksKept, NothingToReplayKept DEF OnceInv
<1>3. ASSUME NEW o \in Ops, NEW row, Inserts(o, row) PROVE OnceInv'
  <2>1. /\ Cardinality(asked) \in Nat /\ asked = 1..Cardinality(asked)
        /\ \A r \in AllRows : r.id \in Nat /\ r.id < Cardinality(asked) + 1
    BY NextNumber DEF OnceInv
  <2>2. AllRows' \subseteq AllRows \cup {row} /\ row.id = Cardinality(asked) + 1
    BY <1>3, RowsThere DEF Inserts
  <2>3. asked' = 1..(Cardinality(asked) + 1)
    BY <1>3, <2>1 DEF Inserts
  <2>4. Numbered'
    <3>1. Cardinality(asked) + 1 \in Nat
      BY <2>1
    <3>2. ASSUME NEW r \in AllRows' PROVE r.id \in asked'
      <4>1. r.id \in asked \/ r.id = Cardinality(asked) + 1
        BY <2>2 DEF OnceInv, Numbered
      <4> QED
        BY <2>1, <2>3, <4>1
    <3> QED
      BY <2>3, <3>1, <3>2 DEF Numbered
  <2>5. ASSUME NEW r \in AllRows PROVE ~Matches(r, row.question, [model |-> row.model, version |-> row.version])
    <3>1. row.question = Question(o) /\ row.model = op[o].with.model /\ op[o].at = "asking" /\ <<Question(o)>> \in op[o].locks
      BY <1>3 DEF Inserts, OnceInv, LockInv, QuestionLocked
    <3>2. CASE r \in Known(o)
      BY <3>1, <3>2 DEF OnceInv, NothingToReplay, Matches
    <3>3. CASE r \notin Known(o)
      <4>1. PICK p \in Ops : p # o /\ r \in op[p].written
        BY <3>3 DEF AllRows, Known
      <4> QED
        BY <3>1, <4>1, ForeignRow DEF OnceInv, Matches
    <3> QED
      BY <3>2, <3>3
  <2>6. OnceInAll'
    <3> SUFFICES ASSUME NEW r \in AllRows', NEW s \in AllRows', r.id < s.id, s.status = "answer"
                 PROVE  ~Matches(r, s.question, [model |-> s.model, version |-> s.version])
      BY DEF OnceInAll, Matches
    <3>1. CASE s \in AllRows
      <4>1. r \in AllRows
        BY <2>1, <2>2, <3>1
      <4> QED
        BY <3>1, <4>1 DEF OnceInv, OnceInAll
    <3>2. CASE s \notin AllRows
      <4>1. s = row /\ r \in AllRows
        BY <2>1, <2>2, <3>2
      <4> QED
        BY <2>5, <4>1
    <3> QED
      BY <3>1, <3>2
  <2> QED
    BY <1>0, <1>3, <2>4, <2>6, LocksKept, NothingToReplayKept DEF OnceInv
<1> QED
    BY <1>1, <1>2, <1>3, FourEffects DEF OnceInv

\* "parallel runs asking the same question wait for each other rather than both
\* asking": a recorded answer was asked for only when no earlier recorded answer
\* would have replayed.
THEOREM QuestionAnsweredOnce == Spec => []AnsweredOnce
<1>1. OnceInv => AnsweredOnce
    BY DEF OnceInv, OnceInAll, AnsweredOnce, AllRows
<1>2. Init => OnceInv
    BY OnceInvInit
<1> QED
    BY <1>1, <1>2, OnceInvNext, PTL DEF Spec

StableInv == OnceInv /\ OpenIsLater /\ FirstAnswers

\* What a commit adds to the answers of a question on file is later than them.
LEMMA OpenAnswers ==
    ASSUME OpenIsLater, NEW o \in Ops, NEW q, NEW c,
           NEW r \in Answers(rows, q, c), NEW s \in Answers(op[o].written, q, c)
    PROVE  r.id < s.id
BY DEF OpenIsLater, Answers, Matches

\* Rows that commit leave no open row of their question behind.
LEMMA OpenIsLaterNext == StableInv /\ [Next]_vars => OpenIsLater'
<1> SUFFICES ASSUME StableInv, [Next]_vars,
                    NEW a \in Ops, NEW r \in rows', NEW s \in op'[a].written, r.question = s.question
             PROVE  r.id < s.id
    BY DEF OpenIsLater
<1>1. CASE UNCHANGED vars
    BY <1>1 DEF vars, StableInv, OpenIsLater
<1>2. ASSUME NEW o \in Ops, Ends(o) \/ Keeps(o) PROVE r.id < s.id
    BY <1>2 DEF Ends, Keeps, StableInv, OpenIsLater
<1>3. ASSUME NEW o \in Ops, NEW row, Inserts(o, row) PROVE r.id < s.id
  <2>1. s \in op[a].written \/ s = row
    BY <1>3 DEF Inserts
  <2>2. r \in rows /\ r \in AllRows
    BY <1>3 DEF Inserts, AllRows
  <2>3. r.id < row.id
    BY <1>3, <2>2, NextNumber DEF Inserts, StableInv, OnceInv
  <2> QED
    BY <2>1, <2>2, <2>3 DEF StableInv, OpenIsLater
<1>4. ASSUME NEW o \in Ops, Commits(o) PROVE r.id < s.id
  <2>1. a # o /\ s \in op[a].written
    BY <1>4 DEF Commits
  <2>2. r \notin op[o].written
    <3>1. <<s.question>> \in op[a].locks
      BY <2>1 DEF StableInv, OnceInv, LockInv, RowsLocked
    <3> QED
      BY <2>1, <3>1, ForeignRow DEF StableInv, OnceInv
  <2> QED
    BY <1>4, <2>1, <2>2 DEF Commits, StableInv, OpenIsLater
<1> QED
    BY <1>1, <1>2, <1>3, <1>4, FourEffects DEF StableInv, OnceInv

\* The least of two sets of answers, where all of the second are later.
LEMMA LeastOfUnion ==
    ASSUME NEW A, NEW B, NEW m, IsLeast(m, A), \A r \in A, s \in B : r.id <= s.id
    PROVE  IsLeast(m, A \cup B)
BY DEF IsLeast

\* A call is later than the answers of its transaction, and a transaction is
\* later than the answers on file: a first answer stays one.
LEMMA FirstAnswersNext == StableInv /\ [Next]_vars => FirstAnswers'
<1> SUFFICES ASSUME StableInv, [Next]_vars, NEW q, NEW c
             PROVE  /\ Answers(rows', q, c) # {} => \E m : IsLeast(m, Answers(rows', q, c))
                    /\ \A a \in Ops : Answers(op'[a].written, q, c) # {}
                                      => \E m : IsLeast(m, Answers(op'[a].written, q, c))
    BY DEF FirstAnswers, Answers, Matches, IsLeast
<1>0. /\ Answers(rows, q, c) # {} => \E m : IsLeast(m, Answers(rows, q, c))
      /\ \A a \in Ops : Answers(op[a].written, q, c) # {} => \E m : IsLeast(m, Answers(op[a].written, q, c))
    BY DEF StableInv, FirstAnswers
<1>a. Answers({}, q, c) = {}
    BY DEF Answers
<1>1. CASE UNCHANGED vars
    BY <1>0, <1>1 DEF vars
<1>2. ASSUME NEW o \in Ops, Ends(o) \/ Keeps(o)
      PROVE  /\ rows' = rows
             /\ \A a \in Ops : op'[a].written = op[a].written \/ op'[a].written = {}
    BY <1>2 DEF Ends, Keeps
<1>3. ASSUME NEW o \in Ops, NEW row, Inserts(o, row)
      PROVE  /\ Answers(rows', q, c) # {} => \E m : IsLeast(m, Answers(rows', q, c))
             /\ \A a \in Ops : Answers(op'[a].written, q, c) # {}
                                => \E m : IsLeast(m, Answers(op'[a].written, q, c))
  <2> DEFINE A == Answers(op[o].written, q, c)
             B == Answers({row}, q, c)
  <2>1. Answers(op'[o].written, q, c) = A \cup B
    BY <1>3 DEF Inserts, Answers
  <2>2. \A r \in A, s \in B : r.id <= s.id
    <3>1. \A r \in A : r.id \in Nat /\ r.id < Cardinality(asked) + 1 /\ Cardinality(asked) \in Nat
      BY NextNumber DEF Answers, AllRows, StableInv, OnceInv
    <3>2. \A s \in B : s.id = Cardinality(asked) + 1
      BY <1>3 DEF Answers, Inserts
    <3> HIDE DEF A, B
    <3> QED
      BY <3>1, <3>2
  <2>3. B # {} => IsLeast(row, B)
    <3>1. row.id \in Nat
      BY <1>3, NextNumber DEF Inserts, StableInv, OnceInv
    <3> QED
      BY <3>1 DEF Answers, IsLeast
  <2>4. A # {} => \E m : IsLeast(m, A)
    BY <1>0
  <2> HIDE DEF A, B
  <2>5. A \cup B # {} => \E m : IsLeast(m, A \cup B)
    <3>1. CASE A = {}
      BY <2>3, <3>1
    <3>2. CASE A # {}
      BY <2>2, <2>4, <3>2, LeastOfUnion
    <3> QED
      BY <3>1, <3>2
  <2>6. rows' = rows /\ \A a \in Ops : a # o => op'[a].written = op[a].written
    BY <1>3 DEF Inserts
  <2> QED
    BY <1>0, <2>1, <2>5, <2>6
<1>4. ASSUME NEW o \in Ops, Commits(o)
      PROVE  /\ Answers(rows', q, c) # {} => \E m : IsLeast(m, Answers(rows', q, c))
             /\ \A a \in Ops : op'[a].written = op[a].written \/ op'[a].written = {}
  <2> DEFINE A == Answers(rows, q, c)
             B == Answers(op[o].written, q, c)
  <2>1. Answers(rows', q, c) = A \cup B
    BY <1>4 DEF Commits, Answers
  <2>2. \A r \in A, s \in B : r.id <= s.id
    <3>1. \A r \in A, s \in B : r.id \in Nat /\ s.id \in Nat
      BY NextNumber DEF Answers, AllRows, StableInv, OnceInv
    <3>2. \A r \in A, s \in B : r.id < s.id
      BY OpenAnswers DEF StableInv
    <3> HIDE DEF A, B
    <3> QED
      BY <3>1, <3>2
  <2>3. (A # {} => \E m : IsLeast(m, A)) /\ (B # {} => \E m : IsLeast(m, B))
    BY <1>0
  <2> HIDE DEF A, B
  <2>4. A \cup B # {} => \E m : IsLeast(m, A \cup B)
    <3>1. CASE A = {}
      BY <2>3, <3>1
    <3>2. CASE A # {}
      BY <2>2, <2>3, <3>2, LeastOfUnion
    <3> QED
      BY <3>1, <3>2
  <2>5. \A a \in Ops : op'[a].written = op[a].written \/ op'[a].written = {}
    BY <1>4 DEF Commits
  <2> QED
    BY <2>1, <2>4, <2>5
<1> QED
    BY <1>0, <1>a, <1>1, <1>2, <1>3, <1>4, FourEffects DEF StableInv, OnceInv

\* The first answer on file stays the first.
LEMMA FirstStays ==
    ASSUME StableInv, [Next]_vars, NEW q, NEW c, Replayed(q, c) # 0
    PROVE  Replayed(q, c)' = Replayed(q, c)
<1> DEFINE A == Answers(rows, q, c)
<1>1. A # {} /\ Replayed(q, c) = Chosen(A).id
    BY DEF Replayed
<1>2. PICK B : /\ Answers(rows', q, c) = A \cup B
               /\ \A r \in A, s \in B : r.id < s.id
               /\ \A s \in A \cup B : s.id \in Nat
  <2>0. \A s \in AllRows : s.id \in Nat
    BY NextNumber DEF StableInv, OnceInv
  <2>1. CASE rows' = rows
    <3>1. Answers(rows', q, c) = A \cup {} /\ \A s \in A \cup {} : s.id \in Nat
      BY <2>0, <2>1 DEF Answers, AllRows
    <3> QED
      BY <3>1
  <2>2. ASSUME NEW o \in Ops, Commits(o)
        PROVE  /\ Answers(rows', q, c) = A \cup Answers(op[o].written, q, c)
               /\ \A r \in A, s \in Answers(op[o].written, q, c) : r.id < s.id
               /\ \A s \in A \cup Answers(op[o].written, q, c) : s.id \in Nat
    <3>1. Answers(rows', q, c) = A \cup Answers(op[o].written, q, c)
      BY <2>2 DEF Commits, Answers
    <3>2. \A r \in A, s \in Answers(op[o].written, q, c) : r.id < s.id
      BY OpenAnswers DEF StableInv
    <3>3. \A s \in A \cup Answers(op[o].written, q, c) : s.id \in Nat
      BY <2>0 DEF Answers, AllRows
    <3> QED
      BY <3>1, <3>2, <3>3
  <2>3. rows' = rows \/ \E o \in Ops : Commits(o)
    BY FourEffects DEF StableInv, OnceInv, vars, Ends, Keeps, Inserts
  <2> QED
    BY <2>1, <2>2, <2>3
<1>3. \E m : IsLeast(m, A)
    BY <1>1 DEF StableInv, FirstAnswers
<1> HIDE DEF A
<1>4. IsLeast(Chosen(A), A)
    BY <1>3 DEF Chosen, IsLeast
<1>5. IsLeast(Chosen(A), A \cup B)
    BY <1>2, <1>4 DEF IsLeast
<1>6. IsLeast(Chosen(A \cup B), A \cup B)
    BY <1>5 DEF Chosen, IsLeast
<1>7. Chosen(A \cup B).id = Chosen(A).id
    BY <1>2, <1>5, <1>6 DEF IsLeast
<1>8. Replayed(q, c)' = Chosen(A \cup B).id
    BY <1>1, <1>2 DEF Replayed, Answers, Chosen, Matches
<1> QED
    BY <1>1, <1>7, <1>8

\* The first answer of a question is the one that is replayed, forever: no
\* transaction commits an answer with an earlier number.
THEOREM FirstAnswerStays == Spec => ReplayIsStable
<1>1. Init => StableInv
    BY OnceInvInit DEF StableInv
<1>2. StableInv /\ [Next]_vars => StableInv'
    BY OnceInvNext, OpenIsLaterNext, FirstAnswersNext DEF StableInv
<1>3. StableInv /\ [Next]_vars
      => [\A q \in Questions, c \in Configurations : Replayed(q, c) # 0 => Replayed(q, c)' = Replayed(q, c)]_vars
    BY FirstStays
<1> QED
    BY <1>1, <1>2, <1>3, PTL DEF Spec, ReplayIsStable
=============================================================================
