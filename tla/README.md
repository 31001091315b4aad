# TLA+ models of the durable agent

This directory models the durable execution core of the repository: what happens to the
rows of a run when workers advance and resume it, callers pause and cancel it, processes
die, leases run out, answers get lost and storage is damaged, and what happens meanwhile to
the repository that the bundled worker changes and to everything stored about it. TLC checks the
models on small instances, and TLAPS proves theorems about them for every value of the constants.

    tlc -workers 2 -config chain.cfg MCDurableAgent     # one run
    tlapm CoordinationProofs.tla                        # the proofs of one module

`PROJECT.json` lists the components, the runs with their properties, one mutation per
property that the run must detect, the source lines of every definition, the hazards and the
theorems. Source paths below are relative to `src/durable_agent/`.

## 1. Inventory of the system

| Component | State | Operations | Interacts with |
|---|---|---|---|
| State machines (`domain/state_machine.py`, `enums.py`) | none | `transition_run`, `transition_task` | every writer of a run or a task |
| Plan graph (`domain/plan.py`, `retry.py`) | none | `validate_plan`, `topological_order`, `ready_tasks`, `parallel_batches`, retry decision | planner, orchestrator |
| Orchestrator (`orchestration/orchestrator.py`) | in-memory copies of run and tasks, batch, budget | `advance` and its helpers: select, start, execute with heartbeat, commit, handle failures, skip dependents, pause, cancel | store, lease, checkpoints, events, task workers |
| Recovery (`recovery/manager.py`) | copies of run and tasks; a circuit breaker | `resume`: pick a checkpoint, compare fingerprints, reconcile tools, close abandoned attempts, set the run RUNNING | store, checkpoints, tool executor |
| Application service (`application/service.py`) | none | `create_run`, `advance`, `pause`, `resume`, `cancel`, `cleanup_retention` | all of the above |
| Store (`persistence/store.py`, `orm.py`) | SQL rows: runs, plans, tasks, attempts, requests, leases, checkpoints, events, tool calls and results, idempotency keys, evidence, context, artifacts, reports | one transaction per method; optimistic versions and unique constraints | everybody |
| Run lease (`store.py:1414-1513`) | one row per run: owner, expiry, fencing token, version | acquire, renew, release | orchestrator, recovery |
| Checkpoints (`checkpoints/manager.py`, `domain/checkpoint.py`) | hash-chained rows per run | `write`, `recover_latest`, prune | orchestrator, recovery, creation |
| Tool execution (`tools/executor.py`) | call and result rows | `execute`, `reconcile_uncertain` | task workers, recovery, tools |
| Event log (`store.py:893-955`, `593-680`) | numbered event rows per run | `publish`, `stream`, `compact_terminal_events` | everybody; the clean-up command |
| Artifacts (`persistence/artifacts.py`) | files and a catalogue | `put`, `get`, `prune_orphans` | tools, clean-up |
| Bundled worker (`application/demo_worker.py`) | none; its memory is the tool journal | five tasks: inspect, research, implement, verify, report | tool executor, ledger, store |
| Tools (`tools/filesystem.py`, `search.py`, `subprocess.py`) | the files of the repository, snapshot rows, artifacts | read, write with an expected hash, index, search, record, test; `reconcile` | tool executor |
| Repository index (`repository/indexer.py`) | snapshot rows with a manifest | `index` with tombstones | index tool, creation, recovery |
| Evidence ledger (`evidence/ledger.py`) | evidence and claim rows | `record*`, `claim`, `verify_run` | bundled worker, report |
| Context manager (`context/manager.py`) | context and summary rows; items in memory | `build`, compress, navigation and reload in `advance` | orchestrator |
| Reporting (`reporting/generator.py`) | two report rows | render, `save_report` | orchestrator |
| Planner, research, retrieval | text | build and rank content | creation, tools |
| API, CLI, factory, settings, security, observability, providers | none of their own | translate, wire, check, log | service |

Components share state only through the database: there is no lock across processes but the
lease, and every awaited store call is a point where another process may act.

What is hard here:

* **Interleaving.** `advance` loads the task list once and decides on that copy until it
  returns. A worker that outlives its lease, its successor, and service calls that hold no
  lease at all write the same rows. Only the version in the `WHERE` clause of `update_run`
  and `update_task` stands between them.
* **Failure.** A batch, a recovery, a creation and a tool call are each several transactions;
  a process may die, and an exception may be raised, between any two of them.
* **Unreliable answers.** A commit whose answer is lost is repeated; a tool that has acted
  may not have been recorded.
* **Order and time.** Lease and retention decisions use clock readings taken before the
  transaction that uses them.
* **Progress.** Pause, cancellation, retries and failure policies must leave a run that
  somebody can still finish.
* **A world that moves.** The owners of the repository edit it while an attempt, its repetition
  and a reconciliation work from results that were journalled earlier.
* **Bounded memory.** The context is cut to a budget after every task, and what is cut must stay
  reachable through summaries, across restarts.

What makes each component correct: rows move only along the state machines and only when the
graph allows it (orchestrator, recovery, service); at most one worker believes in its lease,
unless a row was deleted under a pending acquisition (lease); a resume finds the newest undamaged checkpoint (checkpoints); effects are announced,
not repeated when they must not be, and results are true (tools); one run per key, RUNNING
only when planned (creation); events once, in causal order, never lost without a tombstone
(events); a plan is accepted exactly if it can be executed to its end (plan graph); evidence
was once true, one change is written, ids resolve and the report is backed (bundled worker,
tools, index, ledger, artifacts); a context fits and forgets nothing that it has room to refer
to (context manager).

## 2. Modules

| Module | Models | Composition |
|---|---|---|
| `StateMachine` | the two transition tables and the transition check | |
| `Plan` | task rows, `ready_tasks`, batch selection, failure policies, descendants | extends `StateMachine` |
| `RunLease` | the abstract lease: an owner and whether it is live | |
| `Lease` | the lease row with clock, expiry, token and version | implements `RunLease` |
| `Store` | transactions on run, task, attempt and request rows; copies and their freshness | extends `Plan`, `RunLease` |
| `Orchestrator` | `advance`, one step per awaited store call | extends `Store` |
| `Recovery` | `RecoveryManager.resume` and the hand-over to `advance` | extends `Orchestrator` |
| `Service` | `pause` and `cancel` | extends `Store` |
| `Lifecycle` | the abstract specification of the rows: what a reader may rely on | extends `Plan` |
| `DurableAgent` | workers, callers, lease expiry, exceptions and crashes together, and the properties | extends `Recovery`, `Service`; implements `Lifecycle` |
| `CheckpointChain` | `write`, `recover_latest`, `append_checkpoint`, `prune_checkpoints` | stands alone |
| `ToolJournal` | `execute` and `reconcile_uncertain` | stands alone |
| `RunCreation` | `create_run` | stands alone |
| `EventLog` | `publish` and `compact_terminal_events` | stands alone |
| `TaskGraph` | `topological_order`, the depth check, `parallel_batches` | stands alone |
| `Workspace` | files and their owners, manifests and snapshots, ledger rows, artifact and catalogue, reports | stands alone |
| `DemoWorker` | the programs of the bundled worker over journalled tools, and what the tools do | extends `Workspace` |
| `WorkerRun` | `advance` and `resume` around these programs, drift, reconciliation, crashes, clean-up | extends `DemoWorker` |
| `ContextAssembly` | `build`, compression, navigation, reload and the context rows | stands alone |
| `MC*` | plans, policies and symmetry sets for TLC | extend their module |
| `DurableAgentProofs`, `CheckpointProofs`, `RunCreationProofs`, `EventLogProofs`, `TaskGraphProofs`, `ContextProofs`, `WorkerProofs` | theorems | extend their module (`WorkerProofs`: `WorkerRun`) and `TLAPS` |
| `CoordinationProofs` | theorems about lease and tool journal | extends `Lease`, `ToolJournal` and `TLAPS` |

`DurableAgent` is the composition of orchestrator, recovery and service, for any task worker: in
it the checkpoint, event, context and tool calls of an operation are exceptions that may or may
not happen (`Abort`). `WorkerRun` is the composition of the same operations with one task
worker, its tools, the journal, the ledger, the index and the artifact store. It takes whole
what `DurableAgent` and `ToolJournal` take apart (the two transactions of a start, look-up and
intent of a call, observation and result of a reconciliation) and takes apart what they leave
out (files, snapshots, evidence, reports). The other modules share no row with these two that
both sides write.

### How state and actions correspond to the code

* **One action per awaited store call.** `pc[w]` names the next store call of worker `w`;
  everything the code does in memory until the following `await` belongs to the action.
* **Copies and versions.** `cache[w]` and `runCache[a]` are the task and run records an
  operation holds. Instead of a version number, `fresh[w]` and `runFresh` hold the records
  whose row has not been written since: `update_task` and `update_run` succeed exactly then.
  (`RunCreation` keeps explicit versions.) A conflict raises, as in the code.
* **Attempts.** `open` and `finished` are the attempt rows; the history is kept so that
  double commits can be stated.
* **Requests** are a sequence in insertion order (the code orders by `created_at`). A replay
  of an idempotency key returns the stored request and changes nothing.
* **Task workers** are external: `Execute` chooses any outcome for every task of the batch.
* **The lease** in `DurableAgent` is `RunLease`. A clock reading that is old when the
  transaction runs shows there as `AcquireTooLate`, and a heartbeat that is late as
  `HeldLeaseExpires`. `Lease` has the row itself, and takes a call apart into its clock reading
  (`BeginCall`), its SELECT (`ReadToAcquire`, `ReadToRenew`) and its guarded write (`Take`,
  `Extend`). The history `outdated` holds the workers whose row was deleted between read and
  update. `ImplementsRunLease` says that the row behaves as `RunLease` except that such a worker
  may take a live lease (`LeaseTaken`). For owner and liveness that is an expiry followed by an
  acquisition, which `Spec` of `DurableAgent` allows at any time and `TimelySpec` excludes.
* **CheckpointChain.** A row is its sequence, its parent's hash and the condition of its JSON:
  intact, unreadable (fails to parse or verify), or altered (self-valid, but with another
  hash). The payload is left out. `Corrupt` is what the repository's fault-injection hook does.
* **ToolJournal.** A call stands for its idempotency key. `effects` is a history counter of
  what the tool did to the world; a tool may act and raise. A NON_IDEMPOTENT tool is never
  retry-safe (`domain/models.py:201-205`), so the two branches of `reconcile_uncertain` that
  send a call to review coincide. Nothing stores the status UNCERTAIN. `prepare_retry` is two
  steps, as it is two statements: `PrepareRetry` looks for a result, `Reopen` updates the call by
  its status. The history `overtaken` holds the executors for whose call a result was committed
  between the two.
* **RunCreation.** One owner and one key; a run is named by the call that inserted it.
  Indexing, events and the checkpoint are exceptions only (`Fail`).
* **EventLog.** An event's number is the order of its `publish` call, so the events older than
  the retention cutoff are those up to `horizon`. `lost` holds transactions whose connection
  failed before the answer: the database may still commit them. The lock is the run row
  `FOR UPDATE`, as PostgreSQL takes it. On SQLite the clause is dropped, so two clean-ups that run
  at once may each insert a tombstone; the documentation excludes that deployment
  (`docs/operations.md:12`, `51`: a singleton maintenance job). `Age` assumes that calls and transactions are over within the
  retention time, which is at least a day (`configuration/settings.py:71`).
* **TaskGraph.** Tasks are positions in id order, 0 is an id that no task has, and all tasks
  have one priority. The loops are steps.

* **Workspace.** A text is its edition, whether it has the lines that the change is hung on
  (`anchored`), whether it holds the change that the run makes and whether redaction altered it; a
  hash is the content itself. `Transform` is `str.replace`: it leaves a text without the anchor as
  it is, and an edit by others may take the anchor away. `held` and `written` are
  histories. A manifest keeps a tombstone for a file that the previous snapshot held; whether
  two manifests agree includes the tombstones, as in `manifest_hash`.
* **DemoWorker.** A task is a sequence of operations, and `Program` lists them in the order of
  the code. A key of the journal is task, tool and path; an operation repeats from the first one
  and gets what is journalled. The expected hash of a write is that of the file, the content is
  computed from the redacted output. The writer's comparison and replacement are two steps, the
  indexer's walk one step per file. The rows of one loop over evidence are one step.
* **WorkerRun.** The plan is a chain, so the task rows are how many tasks SUCCEEDED and the
  attempts of the next one; the latter stands for the row's version. `open` names the worker
  whose attempt row is open. `fresh` is the version of the run row as a resume knows it. `holder` is the
  owner in the lease row: a resume may take it at any time, which is a lease that ran out.
  All errors of tools are final, so a failed attempt fails the run (`FailRun`). The transition
  COMPLETED to COMPLETED is legal, so an operation that comes late completes the run again and
  stores a second report. The clean-up may run between any two steps of the workers, since
  `cleanup_retention` excludes nobody: it lists the catalogue (`ListCatalogue`, only once the bytes
  are old, because before that a clean-up changes nothing) and later prunes (`PruneOrphans`).
  `Age` and `Edit` share the bound `MaxEdits`.
* **ContextAssembly.** An item is its category, the task or summary it is about and its tokens.
  Ids are random, so the greedy selection may meet the items of one priority in any order.
  `built` is the time of a context and the id of its summary. `valid` is the flag of the
  summaries: a resume that finds drift clears it for all of them (`InvalidateSummaries`:
  `recovery/manager.py:286-289`, `store.py:1515-1531`), and no read on the path of `Load` looks at
  it. `learned` is a history: the tasks
  whose notes a worker had, itself or through the row it started from.

Not modelled inside the modelled operations: the REPLAN drift policy of `resume`, which stores
a new plan revision, the idempotent claim of `resume`, the payload-only reads of
`CheckpointManager.write`, and retries after database errors in `WorkerRun` (they are in
`DurableAgent`).
Summaries are taken to be ASCII: a truncated one has exactly the size that was left for it.

## 3. Runs

All bounds are constants in the `.cfg` files. A run has the smallest sets that show the
interaction it is about; the theorems of section 4 remove the bounds for every property but the
four of `live`.

| Run | Instance | What it shows |
|---|---|---|
| `chain` | 2 dependent tasks (policies SKIP_DEPENDENTS and MANUAL_REVIEW), 2 workers that may outlive their lease, crash or raise at any await, 1 caller with 1 request | `CompletedMeansDone`, `CancelledMeansSettled`: an end state is true of all tasks although it is decided on a stale list. `DependenciesFirst`: no attempt runs ahead of its dependencies. |
| `retry` | 1 task with 2 attempts, the same workers | `SucceededOnce`: one outcome per task, and none after recovery or cancellation took the task away. `AttemptsAccounted`: numbers are never reused or run ahead of the row. `RowsFollowLifecycle`: the rows implement `Lifecycle`. |
| `fork` | 3 tasks, two of them parallel, three policies, budgets 1 and 4, 2 workers with crashes that do not outlive their lease, 2 requests | `OpenAttemptIsCurrent`, `ExecutesOnlyWhileRunning`, the type invariant and `RowsFollowLifecycle`. The first two need timely workers: a late worker can open an attempt for a task that is gone. |
| `live` | 2 dependent tasks with retries, 2 requests, no faults, fairness | `OperationsEnd`, `CancelHonoured`, `RunRests`, `RunEnds`. |
| `lease` | 3 workers, time to live 2, time 4, versions up to 3 | `OneUnexpiredRecord`: no takeover while the previous owner may believe in its lease, although every call decides with a time and a row that it read earlier, as long as no row was deleted under a pending update. `ImplementsRunLease`: the row is the abstract lease but for the takeovers that such a deletion permits. Time 4 has room for an expiry, a takeover and a new row; the exception itself is reached (section 5). |
| `checkpoints` | 2 writers, 3 retained rows, 6 checkpoints, 2 damaged rows | `WindowKept`, `IntactIsRecoverable` (also on forked chains that retention has cut), `NewestSelected`. |
| `tools` | 2 executors, 1 resume, a retry-safe and a not retry-safe call, 2 attempts | `AttemptCoversEffects`, `NonRetrySafeOnce`, `ResultIsObserved`, with executors that go on after they lost their lease. `CompletedStaysCompleted`: a committed result stays, and only an executor that had looked for it before it was committed may still reopen its call. |
| `creation` | 3 equal requests and a different one under one key, 1 fault | `OneRunPerKey`, `RunningIsPlanned`. |
| `events` | 2 publishers, 2 clean-ups, 3 events, 2 attempts | `PlacedOnce`, `CausalOrder`, `DeletionsAccounted`. Two attempts reach every case of the eight in the code: each attempt starts from nothing but the event. |
| `graph` | every plan of 4 tasks with unknown ids, depth limit 3 | `OrderRespectsDependencies`, `CycleIffNotExecutable`, `LevelsAreChains`, each against an independent definition. |
| `worker` | the plan of five tasks on 1 file that redaction alters, 2 workers that may crash or outlive their lease, 1 resume, both policies, 1 change from outside (an edit with or without the anchor, a removal, or bytes that grow old), clean-up at any moment | `EvidenceIsTrue`, `WritesAgree`, `ChangeIsIndexedAndTested`, `SnapshotsResolve`, `ReportIsBacked`, also when two operations report. One resume suffices to have two workers at the same task, a reconciliation, a replay and an index by either; one edit falls before, between or after any two of their steps. |
| `context` | 5 tasks, 2 workers, 3 loads, notes of 1 or 3 tokens, budget 9, compression from 5, reserve 3, summaries invalidated at any moment | `HistoryReachable`, `RunSummaryIsFinal`, `RestartContinues`. Five tasks reach all three generations, a restart of the count after the third, two summaries side by side, items dropped without a summary, and a build that raises. |

**Types.** `fork` checks the type invariant of the core. It is a theorem (section 4), and so are
those of the lease, the checkpoints, the tool journal, creation, the event log, the plan graph and
the context.
In `WorkerRun` `TypeOK` states the types for the reader and belongs to no run.

**Deadlock** is checked in all runs but four: a plan that has been judged stays judged
(`graph`), the event log stops at its bound on publish calls (`events`), a run of the bundled
worker ends or stays abandoned once nobody resumes it (`worker`), and no more contexts are built
when the tasks are used up (`context`).

**Symmetry** is used over workers, writers, executors, publishers and clean-ups in runs
without liveness properties.

**Fairness** (`live` only). A started operation or service call goes on (weak fairness): the
code awaits nothing but the database and the task worker, and the model has no step at which
one operation waits for another. Whoever drives the run keeps calling `advance` and is not
beaten to the lease for ever (strong fairness of `AdvanceAcquire`): the CLI and the API leave
repetition to their caller, so this is an assumption about the caller and not about the code.
`RunEnds` adds the same assumption about `resume`.

## 4. Theorems

Each proof module states its inductive invariant, which TLC checked on the instance of the run
first, and proves it action by action. The theorems hold for every value of the constants: any
plan, any number of workers, callers, writers, executors, publishers and clean-ups, any bound.

| Theorem | States | Argument |
|---|---|---|
| `DurableAgentProofs!TypeCorrect` | `TypeOK` | One part per group of variables, one lemma per store transaction, then one step per action. |
| `DurableAgentProofs!ImplementsLifecycle` | `RowsFollowLifecycle`: the composed system implements `Lifecycle` | `SafetyInv`, below: every write of a row is shown to be a legal step of `Lifecycle` from what the copy that it was computed from says about the row. |
| `DurableAgentProofs!CompletedIsDone`, `CancelledIsSettled`, `DependenciesComeFirst` | `CompletedMeansDone`, `CancelledMeansSettled`, `DependenciesFirst` | The promises of `Lifecycle` (`PromiseInv`) as invariants of the rows. |
| `DurableAgentProofs!OneSuccess`, `AttemptNumbersAreExact` | `SucceededOnce`, `AttemptsAccounted` | `AttemptInv`; a commit closes the attempt whose number the fresh row counts. |
| `DurableAgentProofs!OpenAttemptsAreCurrent`, `ExecutionNeedsRunning` | `OpenAttemptIsCurrent`, `ExecutesOnlyWhileRunning`, of `TimelySpec` | `TimelyInv`: one worker at most is not idle, its copies are current, and each label implies states of the run in which it may be reached. |
| `CoordinationProofs!LeaseTypeCorrect`, `LeaseExclusive` | `RowTypeOK`, `OneUnexpiredRecord` | A record that has not expired is that of the row. Within the life of a row its version only grows, so a pending read with no deletion since still describes the row if the versions agree (`VersionedRow`, `ReadIsRow`); the row that is overwritten then had expired at a reading taken in the past (`TakesAvailable`, `LeaseReads`). |
| `CoordinationProofs!LeaseImplementsRunLease` | `ImplementsRunLease` | Every step of the row is a step of the abstract lease or leaves owner and liveness as they are; a write over a live lease of somebody else is one by a worker in `outdated`. |
| `CheckpointProofs!ChainTypeCorrect`, `RetentionWindow` | `TypeOK`, `WindowKept` | The retained sequences are an interval that ends at the tip and has at least the last `Retain` members; the cutoff is the `Retain`-th from the tip because the interval has no gap. |
| `CheckpointProofs!IntactChainRecovers`, `NewestIsSelected` | `IntactIsRecoverable`, `NewestSelected` | `ChainIsValid` satisfies its recursion; the oldest retained row is valid by itself, and without damage (`DamageCounted`) validity passes from a parent to its child, so that the least row that breaks it cannot exist. |
| `CoordinationProofs!JournalTypeCorrect` | `TypeOK` | |
| `CoordinationProofs!IntentBeforeEffect` | `AttemptCoversEffects` | `effects` alone is not inductive. The invariant adds to it the executors that hold a licence to act (between intent and tool): effects plus licences never exceed the attempts counted. |
| `CoordinationProofs!AtMostOnce` | `NonRetrySafeOnce` | A call that is not retry-safe never gets a second attempt, because every path to `prepare_retry` has read `retry_safe`. |
| `CoordinationProofs!ResultsAreObservations`, `CompletedIsFinal` | `ResultIsObserved`, `CompletedStaysCompleted` | Whoever is about to record a result has seen an effect, and effects are not undone. An executor that is about to reopen a call found no result, so a result that is there now was committed afterwards and put the executor into `overtaken` (`LateReopen`). |
| `RunCreationProofs!CreationTypeCorrect`, `CreationIsIdempotent`, `RunningHasPlan` | `TypeOK`, `OneRunPerKey`, `RunningIsPlanned` | All copies name the run of the key; a caller that has stored tasks is the one whose plan is stored, and only it can set RUNNING. |
| `EventLogProofs!LogTypes`, `EventsPlacedOnce`, `LogIsCausal`, `CompactionIsAccounted` | `TypeOK`, `PlacedOnce`, `CausalOrder`, `DeletionsAccounted` | `LogInv`: the log grows at its end only, so a sequence that was once reached stays behind the last row, also when rows are deleted; an event that may still be inserted, by its publisher or by a transaction whose answer was lost, has one place to go; what a clean-up selected is still there when it commits, because it holds the lock. |
| `TaskGraphProofs!GraphTypes`, `OrderIsTopological`, `CycleIsExact` | `TypeOK`, `OrderRespectsDependencies`, `CycleIffNotExecutable` | `OrderInv`: a task is listed or queued if and only if what it depends on is listed, and an indegree counts the dependencies that are not. What is listed is therefore the least set closed under execution when the queue is empty. |
| `TaskGraphProofs!DepthsAreChains` | `LevelsAreChains` | `DepthInv`: the first tasks of the order have a depth that is one more than the greatest among their dependencies; by induction on the length, a chain of that length and no longer one ends in the task. |
| `ContextProofs!ContextTypes`, `NoHistoryIsLost`, `RunSummariesAreFinal`, `RestartsContinue` | `TypeOK`, `HistoryReachable`, `RunSummaryIsFinal`, `RestartContinues` | `ContextInv`: what was learned is reachable from the items of a worker, from the items that a stored row leads to, and from a draft together with its summary. The greedy loop keeps what is mandatory and stays below its limit, so a summary is refused only if the mandatory items alone leave no room, and these only grow. Later summaries do not change what an earlier one covers, and neither does the invalid flag: what a row leads to is loaded whether or not its summaries are valid. |
| `WorkerProofs!WorkerTypeCorrect`, `WorkerTruth` | `TypeOK`, and the inductive invariant `PlaceInv /\ TruthInv` | below |
| `WorkerProofs!WorkerEvidenceIsTrue`, `WorkerWritesAgree` | `EvidenceIsTrue`, `WritesAgree` | Arguments and results in the journal are final, so every write of a file carries the content computed from the one journalled read; a result says what was in a file, and the history of a file only grows. |
| `WorkerProofs!WorkerChangeIsIndexedAndTested` | `ChangeIsIndexedAndTested` | Who walks the files for the index of the implementation has passed every write; a passed write has a result, a result means that `Target`, the one content computed from the journalled read, was put there, and from then on the file holds it or a later edition. Until then a file holds its newest edition (`Newest`), which is what was read. |
| `WorkerProofs!WorkerSnapshotsResolve`, `WorkerReportIsBacked` | `SnapshotsResolve`, `ReportIsBacked` | Snapshots, evidence and claims are never removed. A task that is done has its claim. Whoever reports has found all five tasks done, so the claims it reads hold one of each task with stored evidence, whichever other operation reports before or after it and in whatever order the formats are stored. |

**Why `SafetyInv` is needed.** None of the properties of the core is inductive: each step writes
what a worker computed from copies that may be old. The invariant has three layers. `LocalInv`
says what a worker knows at each label from its own steps: which tasks of its list are ready,
which outcomes belong to a batch, which state its run record has. `RunCopies` and `TaskCopies` tie
copies to rows: a fresh copy equals its row, and an old one that shows an end state is still right,
because end states are final. `PromiseInv`, `CountInv` and `AttemptInv` say what the rows promise.
`CountInv` (a task that left READY has been attempted) is there because `Lifecycle` by itself
permits a task to wait that was never started, while the attempt rows need the count.

**Why `PlaceInv` and `TruthInv` are needed.** An attempt of the bundled worker repeats its program
from the first operation and trusts the journal, so its properties depend on how far every operation,
also one that lost its lease, has come. `PlaceInv` says where an operation can be: at a position of
the program of its task, past tools that all have a result, with an id that resolves, with at most the
progress that the rows show (`Progress`); one lemma per action shows that a step leads to such a place
(the `...Places` lemmas). The order of the programs is a fact about them, for any number of files
(`ProgramOrder`). `TruthInv` says what is true there: of the tables (`TableTrue`: every row of the
journal, every manifest and every record against the histories `held` and `written`), of what an
operation knows (`WorkTrue`) and of the run (`RunTrue`: claims of the tasks that are done, and the
reports). Most of a step is that nothing which was true becomes false, because tables and histories
only grow (`Grows`, `TableGrows`, `WorkGrows`); what remains is the one row or file that the action
writes (the `...Truth` lemmas). TLC checked both invariants on the instance of the run `worker`
(841,524 states) before they were proved.

**Induction over data.** The prover cannot use an induction rule that has an operator as a
parameter. Where a proof needs induction (a recursive function has a value and satisfies its
equation; the loop of the greedy selection; chains of checkpoints, summaries and dependencies) it
takes the set of counterexamples and its least element, which exists because the naturals are well
founded (`LeastNumber`).

**Assumptions.** Only the named `ASSUME`s of the modules, which TLC evaluates in every run:
`PlanAssumption`, `StoreAssumption`, `LeaseAssumption`, `BudgetAssumption` and `RequestAssumption`
(types of the plan and of the bounds, positive attempts and concurrency, no worker is the absent
owner), `LeaseRowAssumption` (a positive time to live), `ChainAssumption` (`Retain >= 2`, as
the settings demand), `JournalAssumption`, `CreationAssumption`, `LogAssumption` (finitely many
publishers, and that they are not clean-ups), `GraphAssumption`, the context's
`BudgetAssumption` (the compression threshold lies below the budget, the reserve is no smaller than
the smallest summary), `WorkspaceAssumption` (the change touches at least one file; the absent value is
neither a worker nor a truth value) and `AnswerAssumption` (no tool returns the absent value).

**Only model-checked**: the liveness properties of the run `live` (`OperationsEnd`, `CancelHonoured`,
`RunRests`, `RunEnds`): fairness and `ENABLED` are outside the prover. Every other property that a run
checks is a theorem.

## 5. Where the code and its documentation disagree

Met while modelling. None of the properties depends on the documented reading: where the code
does less than a document says, the property names the exception as its condition.

Rows, leases, checkpoints:

* `docs/architecture.md:101` says that the fencing token "makes stale owners unable to commit".
  No row update compares the token: after a takeover the old worker still commits every row that
  the new one has not written. `chain`, `retry` and `worker` show what the row versions and the
  journal guarantee all the same.
* `docs/adr/0003-checkpoint-recovery.md:110` says that "Cleanup never deletes the only valid
  resume point". A damaged newest checkpoint is skipped by the next write, which links to the one
  before it. Retention counts rows without looking at them (`store.py:872`): once the damaged row
  is the oldest one, all later rows have a parent that is gone, no checkpoint is valid, and every
  write and resume of the run raises.
* A crash between `update_task` and `start_task_attempt` (`orchestrator.py:379-381`) leaves a
  RUNNING task without an attempt row, and a worker that stalls there past its lease may open
  its attempt in a run that was cancelled meanwhile (`docs/state-machine.md:193-195`).
* Manual review followed by `resume` starts an attempt beyond `maximum_attempts`
  (`recovery/manager.py:134`), and the stored row no longer validates when it is read.
* `pause` writes the run without the lease; between the orchestrator's read and write of the
  run it makes the batch commit raise, and outcomes of sibling tasks are not recorded
  (`docs/state-machine.md:205`).
* Releasing a lease deletes the row with its fencing token and version; the next owner starts at
  1 (`store.py:1421-1431`, `1505`), where `docs/data-model.md:171` says that a token "increases
  whenever lease ownership is acquired after expiry". The version is also the only guard of
  `acquire_lease` between its SELECT (`1419`), its look at the expiry (`1433`) and its UPDATE
  (`1440-1451`): a worker that has read an expired row of version 1 overwrites the live row that
  another one inserted after the owner's release, and both hold an unexpired record (TLC reaches
  this in 13 states). `docs/requirements.md:36` says that "Duplicate workers cannot own one run",
  and `158` that "at most one unexpired lease/fencing generation may commit work".
* `prepare_retry` "Atomically reopen[s] a failed, result-less retry-safe tool intent"
  (`store.py:1119`), with two statements: a result that is recorded after the first, followed by
  the unconditional FAILED of another executor, lets the second reopen a call that has its result.
* `CheckpointManager.write` selects its base before it reads the tip: with two writers the
  parent of a checkpoint need not be the previous one (`docs/data-model.md:162`).
* `update_status` is unconditional: a late executor can move a reconciled call back to RUNNING,
  and every later resume then fails in `record_result`, which raises where
  `docs/data-model.md:249` says that a duplicate observation resolves to the stored result.
* Two equal creation requests that both plan the run, or one that crashes after its first
  transaction, leave a CREATED or PLANNING run that every repetition of the request returns and
  nothing completes (`service.py:109-162`; `docs/data-model.md:190-192`).
* `topological_order` names tasks that only depend on a cycle among the cyclic ones
  (`plan.py:48`, `70`), and takes tasks first-in first-out where `docs/planning.md:98` says by
  priority and id.
* `resume` reads the run before it claims the idempotency key (`service.py:244`): a replay that
  read PAUSED goes on after the first call has returned, and advances the run once more.
* REPLAN (`recovery/manager.py:180-219`) copies the task rows and then activates the new plan. A
  late worker that commits in the old rows in between has its task repeated, may set the run
  COMPLETED while a task of the new plan is not done, and one that starts an attempt there uses
  up a number that the new row will want: attempt numbers are unique per run and task, not per
  plan.

Bundled worker, tools, ledger, artifacts:

* Tool output is redacted before `_implement` transforms it and writes it back: carriage returns
  and what looks like a credential are changed in the repository (`redaction.py:28`,
  `demo_worker.py:215`), where the planner promises the "smallest compatible" change.
* The worker's own writes count as drift when `implement_change` is interrupted: with FAIL the
  run can never be resumed, with REINDEX the base of the index call changes under the same
  idempotency key and the call is refused as a reuse with other arguments.
* A tombstone in a pinned manifest is not repeated by the next index: every later resume sees
  drift (`indexer.py:175-184`).
* Results are final: a journalled read makes every repetition after a conflicting edit fail in
  the writer, and a journalled failing test makes every repetition of the verification fail.
* The writer, documented as an "atomic compare-and-swap" (`filesystem.py:63`), compares and then
  replaces: an edit between the two is lost.
* The catalogue can name bytes that are gone, which `docs/data-model.md:92-93` calls an "integrity
  incident" and `390` explains by a backup or a loss. `record_artifact` (`store.py:706-746`) is to
  be called "after its bytes are durable" (`717`) and does not look for them. A race with
  the clean-up is not needed (15 states): `put`, a crash, bytes that grow old, a clean-up, and a
  resume that replays the journalled result and catalogues it. `cleanup_retention`
  (`service.py:363-386`) does not look at the state of runs (`docs/requirements.md:205`: "only
  eligible terminal data") and takes no exclusion; `docs/operations.md:55-57` asks the operator to
  stop artifact writers or to hold one. No property says that catalogued bytes exist.
* `_transform_*` are `str.replace` calls (`demo_worker.py:322-343`): when others have removed the
  line that the change is hung on before the file is read, the text is written back, indexed, tested
  and reported unchanged (a COMPLETED run without the change in 70 states). `ChangeIsIndexedAndTested`
  therefore says what the worker made of the text it read, not that the change is there.
* COMPLETED to COMPLETED is a legal transition (`state_machine.py:90`), so a late operation completes
  a completed run again and stores further report rows (`orchestrator.py:127-143`, `store.py:1612`,
  `1635`). The newest rows of the two formats may then come from different documents, although
  "One strict `ReportDocument` generates both Markdown and JSON so the formats cannot drift"
  (`docs/adr/0008-evidence-model.md:95`); each of them is backed all the same (`ReportIsBacked`).
* `verify_run` and `_generate_report` read evidence and claims in two transactions
  (`ledger.py:160`, `orchestrator.py:771`): a late worker's claim in between fails the run, or
  leaves a COMPLETED run without a report. Its two formats are two transactions: a crash leaves
  one of them.
* A crash between the task commit and the run update loses the snapshot id of the task
  (`orchestrator.py:220-232`); the next task works from the older one.

Context:

* `task_state` items and run summaries are mandatory and accumulate until `build` raises, after
  the task was committed: that task has no context, and `advance` fails.
* With less room than the smallest summary, items are dropped without one.
* After a reload the current summary may be an older one that was retained, so the generation of
  the next summary depends on whether the worker was restarted.
* A chain of summaries can be deeper than its generation says, when an old summary survives two
  rounds and is compressed into the third.
* `resume` marks the summaries of a run invalid when it finds drift (`recovery/manager.py:287`), and
  `list_context_references` leaves them out (`store.py:1605`), but `latest_context`, from which the
  next worker loads its items, does not look at the flag (`store.py:1570-1588`): invalidated
  summaries are loaded, shown to the next task and compressed into the next summary. The document
  says "Exclude from new contexts", "new work cannot unknowingly reuse stale navigation"
  (`docs/context-compression.md:225-231`) and that resume "discards invalid navigation" (`249-251`).
  `RestartContinues` states what the code does. `invalidate_if_stale` has no caller but tests.
* A truncated summary of non-ASCII text is larger than estimated when it comes back as an item.

## 6. Plan

Done: the core (`StateMachine` to `DurableAgent`), the lease and its refinement, checkpoints,
the tool journal, run creation, the event log, the plan graph, the bundled worker with its
repository, ledger and artifacts, and the context, with the runs above; and theorems for all of
them.

What would extend it: the REPLAN revision of `resume` (plan versions, copied task rows, late workers
in the old plan) and its idempotent claim (`store.py:185-230`, `service.py:236-282`); then a second
refinement, of `WorkerRun` to `Lifecycle` for the chain that the bundled worker executes.

## 7. Not modelled

Text and I/O without interleavings of their own: the planner's wording and its model-assisted
variant, research and HTTP, parsing, chunking and ranking of repository files, report rendering,
the tools that the bundled worker does not use (patch, documents, research, shell). The REPLAN
policy and the claim of `resume`, see section 6; the circuit breaker, which only tests use.
Translation layers: API, CLI, factory, settings (their bounds are the assumptions), path and
network checks, observability, providers. Database set-up and migrations: the constraints they
declare are part of the transactions. `PROJECT.json` gives the reason for each.
