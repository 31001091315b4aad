----------------------------- MODULE WorkerRun -----------------------------
(***************************************************************************)
(* A run of the bundled worker: the attempts of advance                    *)
(* (orchestration/orchestrator.py) around its programs, and the resumes    *)
(* (recovery/manager.py) that validate the repository, reconcile the calls *)
(* of a worker that crashed or was too late, and go on, while others       *)
(* change the repository and clean up.  What DurableAgent and ToolJournal  *)
(* take apart is one step here: the transactions of a start, of a failure  *)
(* and of an abandoned task, and the observation of a call and its         *)
(* reconciled result.                                                      *)
(***************************************************************************)
EXTENDS DemoWorker

(***************************************************************************)
(* Orchestrator.advance.                                                   *)
(***************************************************************************)

\* advance of a run that nobody works on; a run that was abandoned is resumed.
Advance(w) ==
    /\ work[w].pc = "idle"
    /\ holder = None /\ open = None /\ run.state = "RUNNING"
    /\ holder' = w
    /\ work' = [work EXCEPT ![w].pc = "next", ![w].seen = <<done, tries>>]
    /\ UNCHANGED <<workspaceVars, journal, rowVars, fresh, resumes, policy>>

\* The next task is started if its row is as w knows it, whoever holds the lease.
StartTask(w) ==
    LET same == work[w].seen = <<done, tries>> /\ open = None IN
    /\ work[w].pc = "next" /\ work[w].seen[1] < Len(TaskSeq)
    /\ \/ /\ same
          /\ open' = w /\ tries' = tries + 1 /\ fresh' = {}
          /\ work' = [work EXCEPT ![w].pc = "op", ![w].at = 1, ![w].owned = {},
                                  ![w].base = run.snapshot]
          /\ UNCHANGED holder
       \/ ~ same /\ Leave(w) /\ UNCHANGED <<open, tries, fresh>>
    /\ UNCHANGED <<workspaceVars, journal, run, done, pinned, resumes, policy>>

\* The last renewal fails if another worker took the lease.
RenewLease(w) ==
    /\ work[w].pc = "renew"
    /\ \/ /\ holder = w
          /\ Goto(w, IF work[w].local = "failed" THEN "fail" ELSE "commit")
          /\ UNCHANGED holder
       \/ holder # w /\ Leave(w)
    /\ UNCHANGED <<workspaceVars, journal, rowVars, fresh, resumes, policy>>

\* update_task_and_finish_attempt(SUCCEEDED) needs the attempt to be open.
CommitTask(w) ==
    /\ work[w].pc = "commit"
    /\ \/ /\ open = w
          /\ done' = done + 1 /\ open' = None /\ tries' = 0
          /\ Goto(w, "update")
          /\ UNCHANGED holder
       \/ open # w /\ Leave(w) /\ UNCHANGED <<done, open, tries>>
    /\ UNCHANGED <<workspaceVars, journal, run, pinned, fresh, resumes, policy>>

Indexes(task) == \E i \in DOMAIN Program(task) : Program(task)[i].op = "index"

\* get_run, then update_run with the snapshot of a task that indexed.
UpdateRun(w) ==
    /\ work[w].pc = "update"
    /\ run' = IF Indexes(Task(w)) THEN [run EXCEPT !.snapshot = SnapshotOf(Task(w))] ELSE run
    /\ fresh' = {}
    /\ work' = [work EXCEPT ![w].pc = "pin", ![w].base = run'.snapshot]
    /\ UNCHANGED <<workspaceVars, journal, done, open, tries, pinned, holder, resumes, policy>>

\* The checkpoint pins the snapshot in the copy of the run that w committed.
WriteCheckpoint(w) ==
    /\ work[w].pc = "pin"
    /\ pinned' = work[w].base
    /\ work' = [work EXCEPT ![w].pc = "next", ![w].seen = <<@[1] + 1, 0>>]
    /\ UNCHANGED <<workspaceVars, journal, run, done, open, tries, leaseVars>>

\* The errors of the tools are final, and a test that timed out is not retry-safe: the task is
\* FAILED_TERMINAL and the run FAILED.  Retries after database errors are in DurableAgent.
FailRun(w) ==
    /\ work[w].pc = "fail"
    /\ \/ /\ open = w
          /\ open' = None /\ run' = [run EXCEPT !.state = "FAILED"] /\ fresh' = {}
       \/ open # w /\ UNCHANGED <<open, run, fresh>>
    /\ Leave(w)
    /\ UNCHANGED <<workspaceVars, journal, done, tries, pinned, resumes, policy>>

\* No task is left: get_run, then update_run.  A run that another operation completed is
\* completed again.
CompleteRun(w) ==
    /\ work[w].pc = "next" /\ work[w].seen[1] = Len(TaskSeq)
    /\ \/ /\ run.state \in {"RUNNING", "COMPLETED"}
          /\ run' = [run EXCEPT !.state = "COMPLETED"] /\ fresh' = {}
          /\ Goto(w, "report")
          /\ UNCHANGED holder
       \/ run.state \notin {"RUNNING", "COMPLETED"} /\ Leave(w) /\ UNCHANGED <<run, fresh>>
    /\ UNCHANGED <<workspaceVars, journal, done, open, tries, pinned, resumes, policy>>

\* _generate_report reads the evidence, then the claims; a claim that cites other evidence
\* by now makes it raise.  One document is stored in two formats, the newest row of each
\* is the report.
ReadEvidence(w) ==
    /\ work[w].pc = "report"
    /\ GotoWith(w, "compose", evidence)
    /\ UNCHANGED <<workspaceVars, journal, rowVars, leaseVars>>

SaveMarkdown(w) ==
    /\ work[w].pc = "compose"
    /\ \/ /\ CitedFrom(work[w].local)
          /\ reports' = [reports EXCEPT !.markdown = claims]
          /\ GotoWith(w, "json", claims)
          /\ UNCHANGED holder
       \/ ~ CitedFrom(work[w].local) /\ Leave(w) /\ UNCHANGED reports
    /\ UNCHANGED <<repositoryVars, snapshots, evidence, claims, artifactVars, journal,
                   rowVars, fresh, resumes, policy>>

SaveJson(w) ==
    /\ work[w].pc = "json"
    /\ reports' = [reports EXCEPT !.json = work[w].local]
    /\ Leave(w)
    /\ UNCHANGED <<repositoryVars, snapshots, evidence, claims, artifactVars, journal,
                   rowVars, fresh, resumes, policy>>

Attempt(w) ==
    \/ Advance(w) \/ StartTask(w) \/ RenewLease(w) \/ CommitTask(w) \/ UpdateRun(w)
    \/ WriteCheckpoint(w) \/ FailRun(w) \/ CompleteRun(w) \/ ReadEvidence(w)
    \/ SaveMarkdown(w) \/ SaveJson(w)

(***************************************************************************)
(* RecoveryManager.resume.                                                 *)
(***************************************************************************)

\* acquire_lease and the RECOVERING run row: the lease of a worker that crashed or
\* stalled expires.
ResumeRun(w) ==
    /\ work[w].pc = "idle"
    /\ resumes < MaxResumes /\ run.state \in {"RUNNING", "RECOVERING"}
    /\ resumes' = resumes + 1
    /\ holder' = w
    /\ run' = [run EXCEPT !.state = "RECOVERING"]
    /\ fresh' = IF run.state = "RECOVERING" THEN fresh \cup {w} ELSE {w}
    /\ Goto(w, "load")
    /\ UNCHANGED <<workspaceVars, journal, done, open, tries, pinned, policy>>

\* recover_latest, and the index of the snapshot that it pins.
LoadCheckpoint(w) ==
    /\ work[w].pc = "load"
    /\ work' = [work EXCEPT ![w].pc = "scan", ![w].base = pinned, ![w].local = <<>>]
    /\ UNCHANGED <<workspaceVars, journal, rowVars, leaseVars>>

FreshId == <<"resume", Cardinality({id \in DOMAIN snapshots : id[1] = "resume"})>>

\* _validate_repository compares the manifests and applies the policy.
ValidateRepository(w) ==
    LET previous == snapshots[work[w].base]
        current == Index(work[w].local, previous) IN
    /\ work[w].pc = "compare"
    /\ \/ current = previous /\ Goto(w, "list") /\ UNCHANGED <<snapshots, holder>>
       \/ current # previous /\ policy = "FAIL" /\ Leave(w) /\ UNCHANGED snapshots
       \/ /\ current # previous /\ policy # "FAIL"
          /\ SaveIndex(FreshId, current)
          /\ GotoWith(w, "rebase", FreshId)
          /\ UNCHANGED holder
    /\ UNCHANGED <<repositoryVars, ledgerVars, artifactVars, journal, rowVars,
                   fresh, resumes, policy>>

RebaseRun(w) ==
    /\ work[w].pc = "rebase"
    /\ \/ /\ w \in fresh
          /\ run' = [run EXCEPT !.snapshot = work[w].local] /\ fresh' = {w}
          /\ Goto(w, "list")
          /\ UNCHANGED holder
       \/ w \notin fresh /\ Leave(w) /\ UNCHANGED <<run, fresh>>
    /\ UNCHANGED <<workspaceVars, journal, done, open, tries, pinned, resumes, policy>>

UncertainCalls(w) ==
    /\ work[w].pc = "list"
    /\ GotoWith(w, "reconcile", {k \in Key : journal[k].status = "RUNNING"})
    /\ UNCHANGED <<workspaceVars, journal, rowVars, leaseVars>>

\* Mutant: a write is taken for done when the file is there.
ObservedExisting(key) ==
    \/ key[2] = "index" /\ Known(SnapshotOf(key[1]))
    \/ key[2] = "write" /\ files[key[3]] # Gone

\* reconcile: the index tool looks for its snapshot, the writer for its content; the
\* other tools prove nothing.
Observed(key) ==
    \/ key[2] = "index" /\ Known(SnapshotOf(key[1]))
    \/ key[2] = "write" /\ files[key[3]] = journal[key].args.content

Output(key) == IF key[2] = "index" THEN SnapshotOf(key[1]) ELSE "written"

\* reconcile_uncertain.
Reconcile(w) ==
    /\ work[w].pc = "reconcile"
    /\ \E key \in work[w].local :
          LET row == journal[key]
              goOn == GotoWith(w, "reconcile", work[w].local \ {key}) /\ UNCHANGED holder IN
          \/ /\ Observed(key) /\ row.result = None
             /\ SetCall(key, [row EXCEPT !.status = "SUCCEEDED", !.result = Output(key)])
             /\ goOn
          \/ Observed(key) /\ row.result # None /\ Leave(w) /\ UNCHANGED journal
          \/ /\ ~ Observed(key) /\ key[2] \in RetrySafe
             /\ SetCall(key, [row EXCEPT !.status = "FAILED"])
             /\ goOn
          \/ /\ ~ Observed(key) /\ key[2] \notin RetrySafe
             /\ SetCall(key, [row EXCEPT !.status = "NEEDS_REVIEW"])
             /\ Leave(w)
    /\ UNCHANGED <<workspaceVars, rowVars, fresh, resumes, policy>>

\* _recover_abandoned_task closes the open attempt; its task is READY again.
RecoverTask(w) ==
    /\ work[w].pc = "reconcile" /\ work[w].local = {}
    /\ open' = None
    /\ Goto(w, "return")
    /\ UNCHANGED <<workspaceVars, journal, run, done, tries, pinned, leaseVars>>

ReturnToRunning(w) ==
    /\ work[w].pc = "return"
    /\ \/ /\ w \in fresh
          /\ run' = [run EXCEPT !.state = "RUNNING"] /\ fresh' = {}
          /\ work' = [work EXCEPT ![w].pc = "pin_resumed", ![w].base = run.snapshot]
          /\ UNCHANGED holder
       \/ w \notin fresh /\ Leave(w) /\ UNCHANGED <<run, fresh>>
    /\ UNCHANGED <<workspaceVars, journal, done, open, tries, pinned, resumes, policy>>

\* The checkpoint of the recovery; then advance loads the tasks.
PinResumed(w) ==
    /\ work[w].pc = "pin_resumed"
    /\ pinned' = work[w].base
    /\ work' = [work EXCEPT ![w].pc = "next", ![w].seen = <<done, tries>>,
                            ![w].local = None]
    /\ UNCHANGED <<workspaceVars, journal, run, done, open, tries, leaseVars>>

Resume(w) ==
    \/ ResumeRun(w) \/ LoadCheckpoint(w) \/ ValidateRepository(w) \/ RebaseRun(w)
    \/ UncertainCalls(w) \/ Reconcile(w) \/ RecoverTask(w) \/ ReturnToRunning(w)
    \/ PinResumed(w)

(***************************************************************************)
(* The specification.                                                      *)
(***************************************************************************)

\* The process dies; what it knew is lost, its lease and its rows are not.
Crash(w) ==
    /\ work[w].pc # "idle"
    /\ work' = [work EXCEPT ![w] = Idle]
    /\ UNCHANGED <<workspaceVars, journal, rowVars, leaseVars>>

Init ==
    /\ WorkspaceInit
    /\ journal = [k \in Key |-> NoCall]
    /\ run = [state |-> "RUNNING", snapshot |-> Created]
    /\ done = 0 /\ open = None /\ tries = 0 /\ pinned = Created
    /\ holder = None /\ fresh = {} /\ resumes = 0 /\ policy \in DriftPolicies
    /\ work = [w \in Worker |-> Idle]

\* cleanup_retention excludes nobody.
Maintenance ==
    /\ Age \/ ListCatalogue \/ PruneOrphans
    /\ UNCHANGED <<files, held, written, snapshots, ledgerVars>>

Outside ==
    \/ (\E p \in Path : Edit(p)) /\ UNCHANGED <<snapshots, ledgerVars, artifactVars>>
    \/ Maintenance

Next ==
    \/ \E w \in Worker : Execute(w) \/ Attempt(w) \/ Resume(w) \/ Crash(w)
    \/ Outside /\ UNCHANGED <<journal, rowVars, leaseVars, work>>

Spec == Init /\ [][Next]_vars

(***************************************************************************)
(* Properties.                                                             *)
(***************************************************************************)

TypeOK ==
    /\ files \in [Path -> Content] /\ edits \in Nat
    /\ {held, written} \subseteq [Path -> SUBSET Content]
    /\ DOMAIN snapshots \subseteq SnapshotId
    /\ \A id \in DOMAIN snapshots : snapshots[id] \in Manifest
    /\ \A e \in evidence : e.type \in EvidenceType /\ DOMAIN e.contents \subseteq Path
    /\ artifact \in [stored : Manifest \cup {None}, old : BOOLEAN]
    /\ catalogue \in Manifest \cup {None} /\ known \in BOOLEAN \cup {None}
    /\ \A k \in Key :
          /\ journal[k].status \in {"absent", "RUNNING", "SUCCEEDED", "FAILED", "NEEDS_REVIEW"}
          /\ journal[k].status # "absent" => journal[k].args \in Input(k[2])
          /\ journal[k].result # None => journal[k].result \in Answer(k[2])
    /\ run \in [state : {"RUNNING", "RECOVERING", "COMPLETED", "FAILED"}, snapshot : SnapshotId]
    /\ pinned \in SnapshotId /\ done \in 0 .. Len(TaskSeq) /\ tries \in Nat
    /\ {open, holder} \subseteq Worker \cup {None} /\ fresh \subseteq Worker
    /\ resumes \in Nat /\ policy \in DriftPolicies

\* Evidence is what was there: every content that the ledger attributes to a file was in
\* that file at some time, although the record is written from a journalled result, maybe
\* one that a resume reconciled, long after others changed the file.
EvidenceIsTrue ==
    \A e \in evidence : \A p \in DOMAIN e.contents : e.contents[p] \in held[p]

\* Whoever writes a file, in however many attempts, writes one content: what was read
\* first is journalled, and a second reader that saw another edition is refused its result.
WritesAgree == \A p \in Path : Cardinality(written[p]) <= 1

\* The file holds what the worker made of the text that it read, or what others made of
\* the file since.
Implemented(p, content) ==
    LET read == journal[<<"implement_change", "read", p>>].result IN
    content = Gone \/
        (read # None /\ (content = Transform(read.content) \/ content.edition > read.content.edition))

\* The snapshot that the implementation hands on, and the files that the tests ran on,
\* hold in every file what the implementation wrote, unless others edited it afterwards:
\* neither a replayed nor a reconciled call lets the index or the tests run ahead of a
\* write.  (A text that others took the anchor from is written back without the change.)
ChangeIsIndexedAndTested ==
    /\ LET id == SnapshotOf("implement_change") IN
          Known(id) => \A p \in Live(snapshots[id]) :
                          Implemented(p, snapshots[id][p].content)
    /\ \A e \in evidence :
          e.type = "test" => \A p \in DOMAIN e.contents : Implemented(p, e.contents[p])

\* Ids resolve: every snapshot that a run row, a checkpoint, an attempt or a stored result
\* names has its rows, wherever a worker crashed; and the catalogue and the artifact
\* directory hold one map, that of the snapshot of the inspection, after any number of
\* attempts.
SnapshotsResolve ==
    /\ Known(run.snapshot) /\ Known(pinned)
    /\ \A w \in Worker : work[w].base # None => Known(work[w].base)
    /\ \A k \in Key : k[2] = "index" /\ journal[k].result # None => Known(journal[k].result)
    /\ LET id == SnapshotOf("inspect_repository") IN
          \A map \in {catalogue, artifact.stored} \ {None} : Known(id) /\ map = snapshots[id]

\* Whichever operations report, and in whatever order they store the two formats: what is
\* stored cites, for each task that makes a claim, one that is backed by stored evidence.
ReportIsBacked ==
    \A report \in {reports.markdown, reports.json} \ {None} :
        /\ \A c \in report : Supported(c)
        /\ \A i \in 1 .. 4 : \E c \in report : c.task = TaskSeq[i] /\ c.evidence # {}
=============================================================================
