----------------------------- MODULE ToolJournal -----------------------------
(***************************************************************************)
(* The write-ahead journal of tool calls: ToolExecutor.execute and         *)
(* reconcile_uncertain (tools/executor.py) over the tool_calls and         *)
(* tool_results tables (persistence/store.py).  A call stands for its      *)
(* idempotency key; schemas, permissions, redaction and the payloads are   *)
(* left out.  Both operations are one step per awaited statement that      *)
(* depends on what others may have committed: an executor that lost its    *)
(* lease goes on while its successor reconciles and retries, because the   *)
(* journal is not fenced.                                                  *)
(***************************************************************************)
EXTENDS Integers, FiniteSets

CONSTANTS
    Executor,    \* workers that call execute
    Reconciler,  \* resumes that call reconcile_uncertain
    Call,        \* idempotency keys
    RetrySafe,   \* the calls of tools that declare retry_safe
    Observable,  \* the calls of tools whose reconcile can observe the effect
    MaxAttempts  \* bound on ToolCall.attempt

ASSUME JournalAssumption ==
    /\ IsFiniteSet(Executor)
    /\ RetrySafe \subseteq Call /\ Observable \subseteq Call
    /\ MaxAttempts \in Nat /\ MaxAttempts >= 1

VARIABLES
    status,   \* tool_calls.status, "absent" before the intent
    attempt,  \* tool_calls.attempt
    results,  \* the calls that have a row in tool_results
    effects,  \* effects[c]: how often the tool changed the world for c
    pc,       \* what executor e is about to do
    job,      \* job[e]: the call e executes
    seen,     \* seen[e]: the status in the row e read
    rpc,      \* what reconciler r is about to do
    todo,     \* todo[r]: the uncertain calls r listed and has not handled
    target,   \* target[r]: the call r handles
    overtaken \* history: the executors whose call got its result after they looked for one

rowVars == <<status, attempt, results, overtaken>>
executorVars == <<pc, job, seen>>
reconcilerVars == <<rpc, todo, target>>
journalVars == <<rowVars, effects, executorVars, reconcilerVars>>

Uncertain == {"INTENT_RECORDED", "RUNNING"}
ToolCallStatus == Uncertain \cup {"absent", "SUCCEEDED", "FAILED", "NEEDS_REVIEW"}

Init ==
    /\ status = [c \in Call |-> "absent"]
    /\ attempt = [c \in Call |-> 0]
    /\ results = {}
    /\ effects = [c \in Call |-> 0]
    /\ pc = [e \in Executor |-> "idle"]
    /\ job \in [Executor -> Call]
    /\ seen = [e \in Executor |-> "absent"]
    /\ rpc = [r \in Reconciler |-> "idle"]
    /\ todo = [r \in Reconciler |-> {}]
    /\ target \in [Reconciler -> Call]
    /\ overtaken = {}

Goto(e, label) == pc' = [pc EXCEPT ![e] = label]
GotoReconcile(r, label) == rpc' = [rpc EXCEPT ![r] = label]

(***************************************************************************)
(* The journal.                                                            *)
(***************************************************************************)

\* update_status sets the status whatever it was.
UpdateStatus(c, new) ==
    /\ status' = [status EXCEPT ![c] = new]
    /\ UNCHANGED <<attempt, results, overtaken>>

\* record_result adds the result and closes the call in one transaction;
\* tool_results.tool_call_id is unique.
RecordsResult(c) ==
    /\ c \notin results
    /\ results' = results \cup {c}
    /\ status' = [status EXCEPT ![c] = "SUCCEEDED"]
    /\ overtaken' = overtaken \cup {e \in Executor : pc[e] = "reopen" /\ job[e] = c}
    /\ UNCHANGED attempt

(***************************************************************************)
(* ToolExecutor.execute.                                                   *)
(***************************************************************************)

\* get_by_idempotency_key reads the call and then its result.
ReadCall(e, c) ==
    /\ pc[e] = "idle"
    /\ Goto(e, IF status[c] = "absent" THEN "intent" ELSE "result")
    /\ job' = [job EXCEPT ![e] = c]
    /\ seen' = [seen EXCEPT ![e] = status[c]]
    /\ UNCHANGED <<rowVars, effects, reconcilerVars>>

\* Mutant: a failed call is retried whatever the tool declares.
MayRetryAny(e) == seen[e] = "FAILED"

MayRetry(e) == seen[e] = "FAILED" /\ job[e] \in RetrySafe

\* A stored result is returned, a failed retry-safe call is retried, and any other
\* call raises ManualReviewRequiredError.
ReadResult(e) ==
    /\ pc[e] = "result"
    /\ Goto(e, IF job[e] \notin results /\ MayRetry(e) THEN "retry" ELSE "idle")
    /\ UNCHANGED <<rowVars, effects, job, seen, reconcilerVars>>

\* Mutant: prepare_retry does not look for a result.
HasResultNever(c) == FALSE

HasResult(c) == c \in results

\* prepare_retry looks for a result first: "completed tool calls cannot be retried".
PrepareRetry(e) ==
    /\ pc[e] = "retry"
    /\ Goto(e, IF HasResult(job[e]) THEN "idle" ELSE "reopen")
    /\ UNCHANGED <<rowVars, effects, job, seen, reconcilerVars>>

\* Its second statement reopens the intent if the status is FAILED by then, or raises
\* ConcurrencyConflictError.
Reopen(e) ==
    LET c == job[e] IN
    /\ pc[e] = "reopen"
    /\ \/ /\ status[c] = "FAILED"
          /\ attempt[c] < MaxAttempts
          /\ status' = [status EXCEPT ![c] = "INTENT_RECORDED"]
          /\ attempt' = [attempt EXCEPT ![c] = @ + 1]
          /\ Goto(e, "mark")
       \/ /\ status[c] # "FAILED"
          /\ UNCHANGED <<status, attempt>>
          /\ Goto(e, "idle")
    /\ overtaken' = overtaken \ {e}
    /\ UNCHANGED <<results, effects, job, seen, reconcilerVars>>

\* Mutant: the intent of a reused key is taken over.
RecordIntentShared(e) ==
    LET c == job[e] IN
    /\ pc[e] = "intent"
    /\ status' = [status EXCEPT ![c] = "INTENT_RECORDED"]
    /\ attempt' = [attempt EXCEPT ![c] = 1]
    /\ UNCHANGED <<results, overtaken>>
    /\ Goto(e, "mark")
    /\ UNCHANGED <<effects, job, seen, reconcilerVars>>

\* record_intent; idempotency_key is unique, so the loser of a race raises
\* IdempotencyConflictError.
RecordIntent(e) ==
    LET c == job[e] IN
    /\ pc[e] = "intent"
    /\ \/ /\ status[c] = "absent"
          /\ status' = [status EXCEPT ![c] = "INTENT_RECORDED"]
          /\ attempt' = [attempt EXCEPT ![c] = 1]
          /\ UNCHANGED <<results, overtaken>>
          /\ Goto(e, "mark")
       \/ /\ status[c] # "absent"
          /\ UNCHANGED rowVars
          /\ Goto(e, "idle")
    /\ UNCHANGED <<effects, job, seen, reconcilerVars>>

MarkRunning(e) ==
    /\ pc[e] = "mark"
    /\ UpdateStatus(job[e], "RUNNING")
    /\ Goto(e, "execute")
    /\ UNCHANGED <<effects, job, seen, reconcilerVars>>

\* tool.execute and the validation of its output: it returns once the effect is
\* there, from this call or an earlier attempt, and may raise with or without it.
ExecuteTool(e) ==
    LET c == job[e] IN
    /\ pc[e] = "execute"
    /\ \E effect \in {0, 1} :
          /\ effects' = [effects EXCEPT ![c] = @ + effect]
          /\ \/ effects[c] + effect > 0 /\ Goto(e, "record")
             \/ Goto(e, "fail")
    /\ UNCHANGED <<rowVars, job, seen, reconcilerVars>>

MarkFailed(e) ==
    /\ pc[e] = "fail"
    /\ UpdateStatus(job[e], "FAILED")
    /\ Goto(e, "idle")
    /\ UNCHANGED <<effects, job, seen, reconcilerVars>>

\* record_result, or its IdempotencyConflictError.
RecordResult(e) ==
    /\ pc[e] = "record"
    /\ \/ RecordsResult(job[e])
       \/ job[e] \in results /\ UNCHANGED rowVars
    /\ Goto(e, "idle")
    /\ UNCHANGED <<effects, job, seen, reconcilerVars>>

\* The process dies, or the call is cancelled, at an await.
Crash(e) ==
    /\ pc[e] # "idle"
    /\ Goto(e, "idle")
    /\ overtaken' = overtaken \ {e}
    /\ UNCHANGED <<status, attempt, results, effects, job, seen, reconcilerVars>>

(***************************************************************************)
(* ToolExecutor.reconcile_uncertain, called by every resume.               *)
(***************************************************************************)

UncertainCalls(r) ==
    /\ rpc[r] = "idle"
    /\ todo' = [todo EXCEPT ![r] = {c \in Call : status[c] \in Uncertain}]
    /\ GotoReconcile(r, "next")
    /\ UNCHANGED <<rowVars, effects, executorVars, target>>

\* Mutant: reconcile trusts the intent.
ReconcileIntent(r) ==
    /\ rpc[r] = "next"
    /\ \E c \in todo[r] :
          /\ todo' = [todo EXCEPT ![r] = @ \ {c}]
          /\ target' = [target EXCEPT ![r] = c]
          /\ GotoReconcile(r, IF c \in Observable THEN "record" ELSE "settle")
    /\ UNCHANGED <<rowVars, effects, executorVars>>

\* tool.reconcile of the next call: a tool that can observe its effect proves it.
Reconcile(r) ==
    /\ rpc[r] = "next"
    /\ \E c \in todo[r] :
          /\ todo' = [todo EXCEPT ![r] = @ \ {c}]
          /\ target' = [target EXCEPT ![r] = c]
          /\ GotoReconcile(r, IF c \in Observable /\ effects[c] > 0
                              THEN "record" ELSE "settle")
    /\ UNCHANGED <<rowVars, effects, executorVars>>

ReconcileEnds(r) ==
    /\ rpc[r] = "next"
    /\ todo[r] = {}
    /\ GotoReconcile(r, "idle")
    /\ UNCHANGED <<rowVars, effects, executorVars, todo, target>>

\* The outcome is proved: record_result, or its IdempotencyConflictError, which ends
\* the loop and the resume.
RecordReconciled(r) ==
    /\ rpc[r] = "record"
    /\ \/ RecordsResult(target[r]) /\ GotoReconcile(r, "next")
       \/ target[r] \in results /\ UNCHANGED rowVars /\ GotoReconcile(r, "idle")
    /\ UNCHANGED <<effects, executorVars, todo, target>>

\* The call without a proof goes to manual review, and ends the loop with an error,
\* unless its tool is retry-safe: then it failed and may be retried.
Settle(r) ==
    LET c == target[r] IN
    /\ rpc[r] = "settle"
    /\ \/ /\ c \notin RetrySafe
          /\ UpdateStatus(c, "NEEDS_REVIEW")
          /\ GotoReconcile(r, "idle")
       \/ /\ c \in RetrySafe
          /\ UpdateStatus(c, "FAILED")
          /\ GotoReconcile(r, "next")
    /\ UNCHANGED <<effects, executorVars, todo, target>>

Execute(e) ==
    \/ \E c \in Call : ReadCall(e, c)
    \/ ReadResult(e) \/ PrepareRetry(e) \/ Reopen(e) \/ RecordIntent(e)
    \/ MarkRunning(e) \/ ExecuteTool(e) \/ MarkFailed(e) \/ RecordResult(e)

ReconcileUncertain(r) ==
    \/ UncertainCalls(r) \/ Reconcile(r) \/ ReconcileEnds(r)
    \/ RecordReconciled(r) \/ Settle(r)

Next ==
    \/ \E e \in Executor : Execute(e) \/ Crash(e)
    \/ \E r \in Reconciler : ReconcileUncertain(r)

Spec == Init /\ [][Next]_journalVars

(***************************************************************************)
(* Properties.                                                             *)
(***************************************************************************)

TypeOK ==
    /\ status \in [Call -> ToolCallStatus]
    /\ attempt \in [Call -> 0 .. MaxAttempts]
    /\ results \subseteq Call
    /\ effects \in [Call -> Nat]
    /\ pc \in [Executor -> {"idle", "result", "retry", "reopen", "intent", "mark",
                            "execute", "record", "fail"}]
    /\ job \in [Executor -> Call]
    /\ seen \in [Executor -> ToolCallStatus]
    /\ rpc \in [Reconciler -> {"idle", "next", "record", "settle"}]
    /\ todo \in [Reconciler -> SUBSET Call]
    /\ target \in [Reconciler -> Call]
    /\ overtaken \subseteq Executor

\* Every effect is one that a committed intent announced: each attempt the journal
\* counts (record_intent, prepare_retry) gives one executor one use of the tool, however
\* executors that lost their lease and the resumes of their successors interleave.
AttemptCoversEffects == \A c \in Call : effects[c] <= attempt[c]

\* A tool that is not retry-safe acts at most once per idempotency key
\* (reconcile_uncertain: "never blindly replay non-idempotent effects").
NonRetrySafeOnce == \A c \in Call \ RetrySafe : effects[c] <= 1

\* A stored result is an observation: the tool has acted.  A crash before the effect
\* followed by a reconciliation never records the call as done.
ResultIsObserved == \A c \in results : effects[c] > 0

\* A committed result stays, and gives the call no further attempt, even when a late
\* update_status moved it back to FAILED.  The one exception: an executor that looked for
\* the result before it was committed, and whose UPDATE comes after that status.
CompletedStaysCompleted ==
    [][\A c \in results :
          /\ c \in results'
          /\ \/ attempt'[c] = attempt[c]
             \/ \E e \in overtaken \ overtaken' : job[e] = c]_journalVars
=============================================================================
