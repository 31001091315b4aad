----------------------------- MODULE DemoWorker -----------------------------
(***************************************************************************)
(* The bundled worker (application/demo_worker.py): the tasks of the       *)
(* rule-based plan as programs over journalled tools, executed by          *)
(* operations that may lose the lease and go on.  Of a tool call the       *)
(* look-up and the intent are one step, which ToolJournal takes apart.     *)
(***************************************************************************)
EXTENDS Workspace

VARIABLES
    journal,  \* the tool_calls row of an idempotency key, with its result
    run,      \* the RunORM row: state and repository_snapshot_id
    done,     \* how many tasks of the plan are SUCCEEDED
    open,     \* whose attempt of the next task is open
    tries,    \* attempts of the next task; stands for the version of its row
    pinned,   \* repository_snapshot_id of the newest checkpoint
    holder,   \* the owner in the lease row
    fresh,    \* the resumes whose copy of the run row has its version
    resumes,
    policy,   \* repository_drift_policy
    work      \* work[w]: what the operation w does and knows

rowVars == <<run, done, open, tries, pinned>>
leaseVars == <<holder, fresh, resumes, policy>>
workspaceVars == <<repositoryVars, snapshots, ledgerVars, artifactVars>>
vars == <<workspaceVars, journal, rowVars, leaseVars, work>>

\* An operation that does not run: what it is about to do, where it is in its program,
\* the repository_snapshot_id in the run that it was given, the task rows as it knows
\* them <<done, tries>>, what it found out within a step of several awaits, and the
\* evidence that it recorded in this execution.
Idle == [pc |-> "idle", at |-> 0, base |-> None, seen |-> <<0, 0>>, local |-> None,
         owned |-> {}]

(***************************************************************************)
(* Programs.                                                               *)
(***************************************************************************)

\* RuleBasedPlanner.plan: a chain.
TaskSeq == <<"inspect_repository", "research_constraints", "implement_change",
             "verify_change", "generate_report">>

Op(op) == [op |-> op, path |-> 0]

FileOps ==
    [i \in 1 .. 3 * NumPaths |->
        [op |-> <<"read", "write", "file_evidence">>[((i - 1) % 3) + 1],
         path |-> ((i - 1) \div 3) + 1]]

\* _inspect, _research, _implement, _verify and _report.
Program(task) ==
    CASE task = "inspect_repository" ->
            <<Op("index"), Op("artifact"), Op("catalogue"), Op("map_evidence"),
              Op("search"), Op("chunk_evidence"), Op("claim")>>
      [] task = "research_constraints" ->
            <<Op("search"), Op("chunk_evidence"), Op("claim")>>
      [] task = "implement_change" -> FileOps \o <<Op("index"), Op("claim")>>
      [] task = "verify_change" -> <<Op("test"), Op("test_evidence"), Op("claim")>>
      [] task = "generate_report" -> <<Op("verify_run")>>

Tool == {"index", "artifact", "search", "read", "write", "test"}
RetrySafe == Tool \ {"test"}

\* The input and output schemas of the tools: what one takes, and what it returns.
Input(tool) ==
    CASE tool \in {"index", "search"} -> SnapshotId
      [] tool = "artifact" -> Manifest
      [] tool = "write" -> [content : Content, expected : Content]
      [] OTHER -> {None}

Answer(tool) ==
    CASE tool = "index" -> SnapshotId
      [] tool = "artifact" -> Manifest
      [] tool = "search" -> SUBSET Path
      [] tool = "read" -> [content : Content, hash : Content]
      [] tool = "write" -> {"written"}
      [] tool = "test" -> [files : [Path -> Content], passed : BOOLEAN]

\* None is the absence of a result, and so no answer of a tool.
ASSUME AnswerAssumption ==
    /\ \A tool \in Tool \ {"search"} : None \notin Answer(tool)
    /\ \A found \in Answer("search") : None # found
    /\ None # "failed"

\* idempotency_key: run, task and what the call is for.
Key ==
    UNION {{<<TaskSeq[i], Program(TaskSeq[i])[j].op, Program(TaskSeq[i])[j].path>> :
                j \in {k \in DOMAIN Program(TaskSeq[i]) : Program(TaskSeq[i])[k].op \in Tool}} :
           i \in 1 .. Len(TaskSeq)}
NoCall == [status |-> "absent", args |-> None, result |-> None]

Task(w) == TaskSeq[work[w].seen[1] + 1]
Current(w) == Program(Task(w))[work[w].at]
KeyOf(w) == <<Task(w), Current(w).op, Current(w).path>>
Result(w, op, path) == journal[<<Task(w), op, path>>].result

\* Mutant: the map is that of the snapshot that the run had before.
IndexOfRun(w) == snapshots[work[w].base]

\* The index that the task works with.
IndexOf(w) ==
    snapshots[IF Task(w) = "research_constraints" THEN work[w].base ELSE Result(w, "index", 0)]

NewContent(w, p) == Transform(Result(w, "read", p).content)

\* The arguments of the call.
Arguments(w) ==
    LET o == Current(w) IN
    CASE o.op = "index" -> work[w].base
      [] o.op = "search" -> IF Task(w) = "research_constraints" THEN work[w].base
                            ELSE Result(w, "index", 0)
      [] o.op = "artifact" -> IndexOf(w)
      [] o.op = "write" -> [content |-> NewContent(w, o.path),
                            expected |-> Result(w, "read", o.path).hash]
      [] OTHER -> None

Goto(w, label) == work' = [work EXCEPT ![w].pc = label]
GotoWith(w, label, value) == work' = [work EXCEPT ![w].pc = label, ![w].local = value]

\* The operation raises; its finally block releases the lease if it still has it.
Leave(w) ==
    /\ work' = [work EXCEPT ![w] = Idle]
    /\ holder' = IF holder = w THEN None ELSE holder

\* The worker raises: the outcome of the attempt is a failure.
Fails(w) == GotoWith(w, "renew", "failed")

\* On to the next operation of the program, or to its outcome.
ProceedWith(w, records) ==
    work' = [work EXCEPT
                ![w].pc = IF work[w].at = Len(Program(Task(w))) THEN "renew" ELSE "op",
                ![w].at = @ + 1, ![w].local = None, ![w].owned = @ \cup records]
Proceed(w) == ProceedWith(w, {})

(***************************************************************************)
(* ToolExecutor.execute.                                                   *)
(***************************************************************************)

SetCall(key, row) == journal' = [journal EXCEPT ![key] = row]
Intent(w) == [status |-> "RUNNING", args |-> Arguments(w), result |-> None]
AtTool(w, tool) == work[w].pc = "act" /\ Current(w).op = tool

\* Mutant: a result is not final for a tool that only reads, and arguments may differ.
CallToolRefreshing(w) ==
    LET row == journal[KeyOf(w)]
        p == Current(w).path IN
    /\ work[w].pc = "op" /\ Current(w).op \in Tool
    /\ \/ row.result = None /\ SetCall(KeyOf(w), Intent(w)) /\ Goto(w, "act")
       \/ /\ row.result # None
          /\ SetCall(KeyOf(w),
                IF Current(w).op = "read" /\ files[p] # Gone
                THEN [row EXCEPT !.result = [content |-> Redact(p, files[p]),
                                             hash |-> files[p]]]
                ELSE row)
          /\ Proceed(w)
    /\ UNCHANGED <<workspaceVars, rowVars, leaseVars>>

\* The call is looked up: other arguments are refused, a result is returned, a call that
\* failed is tried again if the tool allows it, and any other outcome is uncertain.
CallTool(w) ==
    LET row == journal[KeyOf(w)]
        fits == row.args = Arguments(w)
        retry == row.status = "FAILED" /\ Current(w).op \in RetrySafe IN
    /\ work[w].pc = "op" /\ Current(w).op \in Tool
    /\ \/ /\ row.status = "absent" \/ (fits /\ row.result = None /\ retry)
          /\ SetCall(KeyOf(w), Intent(w))
          /\ Goto(w, "act")
       \/ /\ row.status # "absent" /\ fits /\ row.result # None
          /\ Proceed(w)
          /\ UNCHANGED journal
       \/ /\ row.status # "absent" /\ (~ fits \/ (row.result = None /\ ~ retry))
          /\ Fails(w)
          /\ UNCHANGED journal
    /\ UNCHANGED <<workspaceVars, rowVars, leaseVars>>

\* The tool raised: update_status(FAILED), whatever the row says by now.
ToolRaises(w) ==
    /\ work[w].pc \in {"act", "walk", "save", "swap", "record"}
    /\ SetCall(KeyOf(w), [journal[KeyOf(w)] EXCEPT !.status = "FAILED"])
    /\ Fails(w)
    /\ UNCHANGED <<workspaceVars, rowVars, leaseVars>>

Returns(w, output) == GotoWith(w, "record", output)

\* record_result: the second result of a call is refused.
RecordResult(w) ==
    LET row == journal[KeyOf(w)] IN
    /\ work[w].pc = "record"
    /\ \/ /\ row.result = None
          /\ SetCall(KeyOf(w), [row EXCEPT !.status = "SUCCEEDED", !.result = work[w].local])
          /\ Proceed(w)
       \/ row.result # None /\ Fails(w) /\ UNCHANGED journal
    /\ UNCHANGED <<workspaceVars, rowVars, leaseVars>>

(***************************************************************************)
(* The tools.                                                              *)
(***************************************************************************)

\* RepositoryFileReaderTool: the hash is that of the file, the content is redacted.
ReadFile(w) ==
    LET p == Current(w).path IN
    /\ AtTool(w, "read") /\ files[p] # Gone
    /\ Returns(w, [content |-> Redact(p, files[p]), hash |-> files[p]])
    /\ UNCHANGED <<workspaceVars, journal, rowVars, leaseVars>>

\* Mutant: a file that is not the expected one is taken for written.
CompareFileTrusting(w) ==
    /\ AtTool(w, "write") /\ files[Current(w).path] # Gone
    /\ IF files[Current(w).path] = journal[KeyOf(w)].args.expected THEN Goto(w, "swap")
       ELSE Returns(w, "written")
    /\ UNCHANGED <<workspaceVars, journal, rowVars, leaseVars>>

\* ControlledFileWriterTool compares the file with expected_hash; a file that holds the
\* new content already is done.
CompareFile(w) ==
    LET file == files[Current(w).path]
        args == journal[KeyOf(w)].args IN
    /\ AtTool(w, "write") /\ file # Gone
    /\ \/ file = args.expected /\ Goto(w, "swap")
       \/ file # args.expected /\ file = args.content /\ Returns(w, "written")
    /\ UNCHANGED <<workspaceVars, journal, rowVars, leaseVars>>

\* ... and replaces it, some system calls later.
ReplaceFile(w) ==
    LET p == Current(w).path
        content == journal[KeyOf(w)].args.content IN
    /\ work[w].pc = "swap"
    /\ Put(p, content)
    /\ written' = [written EXCEPT ![p] = @ \cup {content}]
    /\ Returns(w, "written")
    /\ UNCHANGED <<edits, snapshots, ledgerVars, artifactVars, journal, rowVars, leaseVars>>

\* RepositoryIndexTool: a snapshot of that name is returned as it is.
FindIndex(w) ==
    LET id == SnapshotOf(Task(w)) IN
    /\ AtTool(w, "index")
    /\ \/ Known(id) /\ Returns(w, id)
       \/ ~ Known(id) /\ GotoWith(w, "walk", <<>>)
    /\ UNCHANGED <<workspaceVars, journal, rowVars, leaseVars>>

\* The indexer reads one file after the other, for the tool and for a resume.
WalkFile(w) ==
    LET found == Append(work[w].local, files[Len(work[w].local) + 1]) IN
    /\ work[w].pc \in {"walk", "scan"}
    /\ GotoWith(w, IF Len(found) < NumPaths THEN work[w].pc
                   ELSE IF work[w].pc = "walk" THEN "save" ELSE "compare", found)
    /\ UNCHANGED <<workspaceVars, journal, rowVars, leaseVars>>

SaveSnapshot(w) ==
    /\ work[w].pc = "save"
    /\ SaveIndex(SnapshotOf(Task(w)), Index(work[w].local, snapshots[work[w].base]))
    /\ Returns(w, SnapshotOf(Task(w)))
    /\ UNCHANGED <<repositoryVars, ledgerVars, artifactVars, journal, rowVars, leaseVars>>

\* RepositorySearchTool: chunks of the files in the snapshot.
Search(w) ==
    /\ AtTool(w, "search")
    /\ Returns(w, Live(snapshots[journal[KeyOf(w)].args]))
    /\ UNCHANGED <<workspaceVars, journal, rowVars, leaseVars>>

\* ArtifactRecorderTool: the repository map is written down.
RecordMap(w) ==
    LET content == journal[KeyOf(w)].args IN
    /\ AtTool(w, "artifact") /\ CanPut(content)
    /\ PutArtifact(content)
    /\ Returns(w, content)
    /\ UNCHANGED <<repositoryVars, snapshots, ledgerVars, catalogue, known,
                   journal, rowVars, leaseVars>>

\* TestRunnerTool runs the tests of the repository as it is.
RunTests(w) ==
    /\ AtTool(w, "test")
    /\ \E passed \in BOOLEAN : Returns(w, [files |-> files, passed |-> passed])
    /\ UNCHANGED <<workspaceVars, journal, rowVars, leaseVars>>

(***************************************************************************)
(* What a program does between its tools.  The rows of one loop over       *)
(* evidence are one step: nothing reads them before the claim.             *)
(***************************************************************************)

AtOp(w, names) == work[w].pc = "op" /\ Current(w).op \in names

Catalogue(w) ==
    LET content == Result(w, "artifact", 0) IN
    /\ AtOp(w, {"catalogue"})
    /\ IF CanCatalogue(content) THEN catalogue' = content /\ Proceed(w)
       ELSE Fails(w) /\ UNCHANGED catalogue
    /\ UNCHANGED <<repositoryVars, snapshots, ledgerVars, artifact, known,
                   journal, rowVars, leaseVars>>

\* The evidence that the operation records.
Findings(w) ==
    LET o == Current(w) IN
    CASE o.op = "map_evidence" ->
            {Record(w, Task(w), type, Contents(IndexOf(w))) : type \in {"artifact", "snapshot"}}
      [] o.op = "chunk_evidence" ->
            {Record(w, Task(w), "file", [q \in {p} |-> IndexOf(w)[p].content]) :
                p \in Result(w, "search", 0)}
      [] o.op = "file_evidence" ->
            {Record(w, Task(w), "file", [q \in {o.path} |-> NewContent(w, o.path)])}
      [] o.op = "test_evidence" -> {Record(w, Task(w), "test", Result(w, "test", 0).files)}

\* _research needs chunks to cite, _verify an exit code of zero.
Acceptable(w) ==
    /\ Current(w).op = "test_evidence" => Result(w, "test", 0).passed
    /\ Task(w) = "research_constraints" => Findings(w) # {}

RecordEvidence(w) ==
    /\ AtOp(w, {"map_evidence", "chunk_evidence", "file_evidence", "test_evidence"})
    /\ \/ Acceptable(w) /\ AddEvidence(Findings(w)) /\ ProceedWith(w, Findings(w))
       \/ ~ Acceptable(w) /\ Fails(w) /\ UNCHANGED evidence
    /\ UNCHANGED <<repositoryVars, snapshots, claims, reports, artifactVars,
                   journal, rowVars, leaseVars>>

\* Mutant: only snapshots are cited.
ClaimOfSnapshot(w) ==
    [task |-> Task(w), evidence |-> {e \in work[w].owned : e.type = "snapshot"}]

\* The claim of a task; the one of the inspection is about the snapshot.
ClaimOf(w) ==
    [task |-> Task(w),
     evidence |-> {e \in work[w].owned :
                      Task(w) = "inspect_repository" => e.type = "snapshot"}]

MakeClaim(w) ==
    /\ AtOp(w, {"claim"})
    /\ IF Supported(ClaimOf(w)) THEN AddClaim(ClaimOf(w)) /\ Proceed(w)
       ELSE Fails(w) /\ UNCHANGED claims
    /\ UNCHANGED <<repositoryVars, snapshots, evidence, reports, artifactVars,
                   journal, rowVars, leaseVars>>

\* verify_run, the only thing _report does: the evidence is read, then the claims.
ListEvidence(w) ==
    /\ AtOp(w, {"verify_run"})
    /\ GotoWith(w, "verify", evidence)
    /\ UNCHANGED <<workspaceVars, journal, rowVars, leaseVars>>

VerifyRun(w) ==
    /\ work[w].pc = "verify"
    /\ \/ CitedFrom(work[w].local) /\ Proceed(w)
       \/ ~ CitedFrom(work[w].local) /\ Fails(w)
    /\ UNCHANGED <<workspaceVars, journal, rowVars, leaseVars>>

Execute(w) ==
    \/ CallTool(w) \/ ToolRaises(w) \/ RecordResult(w)
    \/ ReadFile(w) \/ CompareFile(w) \/ ReplaceFile(w)
    \/ FindIndex(w) \/ WalkFile(w) \/ SaveSnapshot(w)
    \/ Search(w) \/ RecordMap(w) \/ RunTests(w)
    \/ Catalogue(w) \/ RecordEvidence(w) \/ MakeClaim(w) \/ ListEvidence(w)
    \/ VerifyRun(w)
=============================================================================
