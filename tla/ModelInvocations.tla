-------------------------- MODULE ModelInvocations --------------------------
(***************************************************************************)
(* The record of model calls (sources/llm.py): staging.model_invocations,   *)
(* the advisory lock on a question and the replay of its first answer, used *)
(* by the ops that ask questions about filings.                             *)
(*                                                                          *)
(* A question is a request without its model name, in its oldest decoding   *)
(* version; questions are numbered in the order every op takes them (cik,   *)
(* then theme).  An answer is known by the id of its row, so two calls      *)
(* never happen to agree.  What one call does (retries, pacing) is          *)
(* ModelCall; here it is one step with one of its outcomes.                 *)
(***************************************************************************)
EXTENDS Integers, FiniteSets, FiniteSetsExt

CONSTANTS Ops,            \* op executions that may run at one time
          Questions,      \* a finite set of numbers
          Kinds,          \* kinds of op, see below
          Configurations, \* records of the model and the decoding version a process starts with
          Pinned,         \* the name the provider reports as the one that served
          MaxLaunches,    \* bound: ops launched
          MaxCalls,       \* bound: calls of the provider
          MaxFaults       \* bound: deaths of a process

\* Kinds: "purity" and "supply" hold one transaction for all their questions,
\* "backfill" commits after each, "own" has an autocommit connection, where
\* invoke opens a transaction of its own.
ASSUME QuestionsAssumption == IsFiniteSet(Questions) /\ Questions \subseteq Nat
ASSUME KindsAssumption == Kinds \subseteq {"purity", "supply", "backfill", "own"}

VARIABLES
    rows,    \* staging.model_invocations, committed
    op,      \* the op executions, with the state of their transaction
    asked,   \* history: ids of calls the provider answered, in any way
    launches, faults

vars == <<rows, op, asked, launches, faults>>

NoConfiguration == [model |-> "none", version |-> "none"]

Op(at, kind, todo, with, locks, written) ==
    [at |-> at, kind |-> kind, todo |-> todo, with |-> with, locks |-> locks, written |-> written]

Resting(at) == Op(at, "none", {}, NoConfiguration, {}, {})

\* The op goes on in its transaction; or from place to place only.
Goes(o, at, todo, locks, written) ==
    op' = [op EXCEPT ![o] = Op(at, @.kind, todo, @.with, locks, written)]
Moves(o, at) == Goes(o, at, op[o].todo, op[o].locks, op[o].written)

Init ==
    /\ rows = {} /\ asked = {}
    /\ op = [o \in Ops |-> Resting("idle")]
    /\ launches = 0 /\ faults = 0

\* An op of some kind, over some questions, in a process with some
\* configuration: a deploy or a rollback may lie between two launches, and the
\* process of an earlier configuration may still run.
Launch(o) ==
    /\ op[o].at \in {"idle", "done", "failed"} /\ launches < MaxLaunches
    /\ \E k \in Kinds, c \in Configurations, s \in SUBSET Questions \ {{}} :
          op' = [op EXCEPT ![o] = Op("next", k, s, c, {}, {})]
    /\ launches' = launches + 1
    /\ UNCHANGED <<rows, asked, faults>>
-----------------------------------------------------------------------------
(* invoke: lock, replay or ask, record.                                     *)

\* Variant: a purity op takes its questions in the opposite order.
Question_AnyOrder(o) == IF op[o].kind = "purity" THEN Max(op[o].todo) ELSE Min(op[o].todo)

\* Partitions are read in cik order and themes in the order of their registry.
Question(o) == Min(op[o].todo)

\* Variant: the key names the decoding version of the process.
LockKey_Versioned(o) == <<Question(o), op[o].with.version>>

\* _lock_question: the model name and the version are not part of the key.
LockKey(o) == <<Question(o)>>

\* pg_advisory_xact_lock: granted when no other transaction holds the key.
LockQuestion(o) ==
    /\ op[o].at = "next" /\ op[o].todo # {}
    /\ \A p \in Ops \ {o} : LockKey(o) \notin op[p].locks
    /\ Goes(o, "locked", op[o].todo, op[o].locks \cup {LockKey(o)}, op[o].written)
    /\ UNCHANGED <<rows, asked, launches, faults>>

\* The where clause of _replay_sql: answered and not cut off; the same request
\* of the same model, or the same question served by the model now configured,
\* in any known version.
Matches(r, q, with) ==
    /\ r.question = q /\ r.status = "answer"
    /\ r.model = with.model \/ r.served = with.model

\* Variant: order by id desc.
Chosen_Newest(set) == CHOOSE r \in set : \A s \in set : s.id <= r.id

\* order by id asc limit 1.
Chosen(set) == CHOOSE r \in set : \A s \in set : r.id <= s.id

Answers(known, q, with) == {r \in known : Matches(r, q, with)}

\* A statement sees what is committed and the rows of its own transaction.
Known(o) == rows \cup op[o].written

Replay(o) ==
    /\ op[o].at = "locked"
    /\ Moves(o, IF Answers(Known(o), Question(o), op[o].with) = {} THEN "asking" ELSE "accepted")
    /\ UNCHANGED <<rows, asked, launches, faults>>

\* The row of a call; the provider may not say which model served.
Row(o, status, served) ==
    [id |-> Cardinality(asked) + 1, question |-> Question(o), status |-> status,
     model |-> op[o].with.model, version |-> op[o].with.version, served |-> served]

Ask(o) == op[o].at = "asking" /\ Cardinality(asked) < MaxCalls /\ asked' = asked \cup {Cardinality(asked) + 1}

Insert(o, row, at) == Goes(o, at, op[o].todo, op[o].locks, op[o].written \cup {row})

\* The provider answers, and the answer is read into a decision.
AskAnswered(o) ==
    /\ Ask(o)
    /\ \E served \in {Pinned, "none"} :
          Insert(o, Row(o, "answer", served), "accepted")
    /\ UNCHANGED <<rows, launches, faults>>

\* An error status, a context limit or an answer cut off: recorded as a
\* refusal, and the error is raised when invoke has ended its own transaction.
AskRefused(o) ==
    /\ Ask(o)
    /\ \E status \in {"error", "cut off"} :
          Insert(o, Row(o, status, "none"), "refused")
    /\ UNCHANGED <<rows, launches, faults>>

\* Nothing was sent (the pacer refused): ModelCapacityRefused, with no row.
AskNotSent(o) ==
    /\ op[o].at = "asking"
    /\ Moves(o, "refused")
    /\ UNCHANGED <<rows, asked, launches, faults>>

\* The transport raises: no caller catches it, and the op ends.
AskBroken(o) ==
    /\ op[o].at = "asking"
    /\ op' = [op EXCEPT ![o] = Resting("failed")]
    /\ UNCHANGED <<rows, asked, launches, faults>>
-----------------------------------------------------------------------------
(* The ops.                                                                *)

\* A commit ends the transaction: its locks go as its rows become visible.
Commit(o, at, todo) == rows' = rows \cup op[o].written /\ Goes(o, at, todo, {}, {})

\* The question is dealt with.  A backfill and an autocommit connection commit
\* here; the others go on in the same transaction.
Proceed(o) ==
    /\ op[o].at = "accepted"
    /\ LET rest == op[o].todo \ {Question(o)}
       IN IF op[o].kind \in {"backfill", "own"}
          THEN Commit(o, "next", rest)
          ELSE Goes(o, "next", rest, op[o].locks, op[o].written) /\ UNCHANGED rows
    /\ UNCHANGED <<asked, launches, faults>>

\* The error of a call.  supply_chain_extraction catches it and leaves the
\* issuer out; an autocommit connection has committed the refusal; in the other
\* two it leaves the op, whose connection rolls back.
RaiseRefusal(o) ==
    /\ op[o].at = "refused"
    /\ CASE op[o].kind = "supply" ->
              /\ Goes(o, "next", op[o].todo \ {Question(o)}, op[o].locks, op[o].written)
              /\ UNCHANGED rows
         [] op[o].kind = "own" -> Commit(o, "failed", {})
         [] OTHER -> op' = [op EXCEPT ![o] = Resting("failed")] /\ UNCHANGED rows
    /\ UNCHANGED <<asked, launches, faults>>

\* connection.commit() at the end of an op.
Finish(o) ==
    /\ op[o].at = "next" /\ op[o].todo = {}
    /\ Commit(o, "done", {})
    /\ UNCHANGED <<asked, launches, faults>>

\* The process dies anywhere; the server rolls its transaction back.
Die(o) ==
    /\ op[o].at \notin {"idle", "done", "failed"} /\ faults < MaxFaults
    /\ op' = [op EXCEPT ![o] = Resting("failed")]
    /\ faults' = faults + 1
    /\ UNCHANGED <<rows, asked, launches>>

Step(o) == \/ LockQuestion(o) \/ Replay(o)
           \/ AskAnswered(o) \/ AskRefused(o) \/ AskNotSent(o) \/ AskBroken(o)
           \/ Proceed(o) \/ RaiseRefusal(o) \/ Finish(o)

Next == \E o \in Ops : Launch(o) \/ Step(o) \/ Die(o)

Spec == Init /\ [][Next]_vars

\* The database grants a free lock and a call ends, in time or by its timeout.
Fairness == \A o \in Ops : WF_vars(Step(o))

FairSpec == Spec /\ Fairness
-----------------------------------------------------------------------------
InvocationRow ==
    [id : 1..MaxCalls, question : Questions, status : {"answer", "error", "cut off"},
     model : {c.model : c \in Configurations}, version : {c.version : c \in Configurations},
     served : {Pinned, "none"}]

OpState ==
    [at : {"idle", "next", "locked", "asking", "accepted", "refused", "done", "failed"},
     kind : Kinds \cup {"none"}, todo : SUBSET Questions,
     with : Configurations \cup {NoConfiguration},
     locks : SUBSET {<<q>> : q \in Questions},
     written : SUBSET InvocationRow]

\* Every variable has its type.
TypeOK ==
    /\ rows \subseteq InvocationRow
    /\ op \in [Ops -> OpState]
    /\ asked \subseteq 1..MaxCalls
    /\ launches \in 0..MaxLaunches /\ faults \in 0..MaxFaults

\* "parallel runs asking the same question wait for each other rather than both
\* asking": no recorded answer was asked for when an earlier recorded answer
\* would have replayed, whatever versions and names the askers ran with.
AnsweredOnce ==
    \A r, s \in rows : r.id < s.id /\ s.status = "answer"
        => ~Matches(r, s.question, [model |-> s.model, version |-> s.version])

Replayed(q, with) == IF Answers(rows, q, with) = {} THEN 0 ELSE Chosen(Answers(rows, q, with)).id

\* The first answer is the answer: once a question replays a decision for a
\* configuration, it replays that decision forever, also for a row that was
\* numbered earlier and committed later.
ReplayIsStable ==
    [][\A q \in Questions, c \in Configurations :
          Replayed(q, c) # 0 => Replayed(q, c)' = Replayed(q, c)]_vars

\* Waiting for each other's questions never becomes a cycle: every op ends.
EveryOpEnds == \A o \in Ops : op[o].at = "next" ~> op[o].at \in {"done", "failed"}

\* "every ask is recorded, answers and vendor errors alike": a call the
\* provider has answered is on file, or in a transaction that is still open.
EveryAskRecorded == asked \subseteq {r.id : r \in rows \cup UNION {op[o].written : o \in Ops}}
=============================================================================
