------------------------------ MODULE Workspace ------------------------------
(***************************************************************************)
(* The repository that the agent works on and what is stored about it:     *)
(* the files, which the people who own the repository may change at any    *)
(* moment, the snapshots of the indexer (repository/indexer.py), the       *)
(* evidence ledger (evidence/ledger.py), the artifact directory and its    *)
(* catalogue (persistence/artifacts.py), and the report.  The text of a    *)
(* file is its edition, whether it has the lines that the change is hung   *)
(* on, whether the change was made to it and whether it went through the   *)
(* redaction of tool output; a hash is the content itself.                 *)
(***************************************************************************)
EXTENDS Integers, Sequences, FiniteSets

CONSTANTS
    Worker,         \* operations of the service: advance or resume
    None,           \* a row or a file that does not exist
    NumPaths,       \* the files that the change touches
    Sensitive,      \* the files with a carriage return or what looks like a credential
    DriftPolicies,  \* configured values of repository_drift_policy
    MaxEdits,       \* bound on what others change and on the bytes that grow old
    MaxResumes      \* bound on resumes; fewer than TaskSpec.maximum_attempts

ASSUME WorkspaceAssumption ==
    /\ NumPaths \in Nat \ {0} /\ MaxEdits \in Nat /\ MaxResumes \in Nat
    /\ None \notin Worker /\ None \notin BOOLEAN

VARIABLES
    files,      \* files[p]: what is in the file now
    held,       \* held[p]: everything that was ever in it (history)
    written,    \* written[p]: what repository.write put into it (history)
    edits,      \* what others have changed so far, and the bytes that grew old
    snapshots,  \* RepositorySnapshotORM rows with their files: id -> manifest
    evidence,   \* EvidenceORM rows
    claims,     \* ClaimORM rows with their links
    artifact,   \* the repository map in the artifact directory
    catalogue,  \* its ArtifactORM row
    known,      \* the catalogue as the running clean-up read it, or None
    reports     \* ReportORM rows by format

repositoryVars == <<files, held, written, edits>>
ledgerVars == <<evidence, claims, reports>>
artifactVars == <<artifact, catalogue, known>>

Path == 1 .. NumPaths

Content == [edition : Nat, anchored : BOOLEAN, changed : BOOLEAN, redacted : BOOLEAN]
Edition(n, anchored) ==
    [edition |-> n, anchored |-> anchored, changed |-> FALSE, redacted |-> FALSE]
Gone == Edition(0, FALSE)

\* _transform_config, _transform_client, _transform_readme, _transform_tests: the change
\* is made once, and str.replace leaves a text alone that lacks the line it looks for.
Transform(content) == [content EXCEPT !.changed = @ \/ content.anchored]

\* SecretRedactor.redact, which every tool output passes: credentials and carriage
\* returns are replaced.
Redact(p, content) == IF p \in Sensitive THEN [content EXCEPT !.redacted = TRUE] ELSE content

(***************************************************************************)
(* The indexer.                                                            *)
(***************************************************************************)

\* What a manifest says of a path: its content, and whether it is a tombstone.
Entry == [content : Content, deleted : BOOLEAN]
NoEntry == [content |-> Gone, deleted |-> FALSE]
Manifest == [Path -> Entry]

Live(manifest) == {p \in Path : manifest[p].content # Gone /\ ~ manifest[p].deleted}
Contents(manifest) == [p \in Live(manifest) |-> manifest[p].content]

\* index: the files found on the walk, and a tombstone for a file that the previous
\* snapshot held and the walk did not find.
Index(found, previous) ==
    [p \in Path |->
        IF found[p] # Gone THEN [content |-> found[p], deleted |-> FALSE]
        ELSE IF p \in Live(previous)
             THEN [content |-> previous[p].content, deleted |-> TRUE]
             ELSE NoEntry]

Nothing == [p \in Path |-> NoEntry]

\* Snapshot ids: the index of create_run, the fixed ids of the two tasks that index, and
\* a fresh one for every resume that finds drift.
SnapshotId ==
    {"create_run", "inspect_repository", "implement_change", "resume"} \X Nat

Created == <<"create_run", 0>>
SnapshotOf(task) == <<task, 0>>

Known(id) == id \in DOMAIN snapshots

\* save_repository_index: the id is the primary key.
SaveIndex(id, manifest) ==
    /\ ~ Known(id)
    /\ snapshots' = [i \in DOMAIN snapshots \cup {id} |->
                        IF i = id THEN manifest ELSE snapshots[i]]

(***************************************************************************)
(* Others change the repository: a new edition without the change, with or *)
(* without the lines that it is hung on, or the file is removed.           *)
(***************************************************************************)

Put(p, content) ==
    /\ files' = [files EXCEPT ![p] = content]
    /\ held' = [held EXCEPT ![p] = @ \cup {content}]

Edit(p) ==
    /\ edits < MaxEdits
    /\ edits' = edits + 1
    /\ \E content \in {Edition(edits + 2, anchored) : anchored \in BOOLEAN} \cup {Gone} :
          Put(p, content)
    /\ UNCHANGED written

(***************************************************************************)
(* The ledger.                                                             *)
(***************************************************************************)

EvidenceType == {"file", "snapshot", "artifact", "test"}
Record(w, task, type, contents) ==
    [by |-> w, task |-> task, type |-> type, contents |-> contents]

\* record, record_repository_chunk and record_tool_result: a row for each that w records.
AddEvidence(records) == evidence' = evidence \cup records

\* verify_claim: every id is that of a stored record.
Supported(claim) == claim.evidence \subseteq evidence

\* Every claim cites evidence that was read before.
CitedFrom(records) == \A c \in claims : c.evidence \subseteq records

\* claim, of evidence that was verified, then add_claim.
AddClaim(claim) == claims' = claims \cup {claim}

(***************************************************************************)
(* Artifacts.                                                              *)
(***************************************************************************)

Missing == [stored |-> None, old |-> FALSE]

\* put: bytes that are there stay, with their age; other bytes are a conflict.
CanPut(content) == artifact.stored \in {None, content}
PutArtifact(content) ==
    artifact' = IF artifact.stored = None THEN [stored |-> content, old |-> FALSE]
                ELSE artifact

\* record_artifact: the row is there already, or new, or refers to other bytes.
CanCatalogue(content) == catalogue \in {None, content}

\* The bytes become older than artifact_retention_days.
Age ==
    /\ edits < MaxEdits
    /\ edits' = edits + 1
    /\ artifact.stored # None /\ ~ artifact.old
    /\ artifact' = [artifact EXCEPT !.old = TRUE]
    /\ UNCHANGED <<catalogue, known>>

\* cleanup_retention takes the time and reads the catalogue, prune_orphans then removes the
\* files that were old and are not in it; with nothing old a clean-up does nothing.
ListCatalogue ==
    /\ known = None /\ artifact.old
    /\ known' = (catalogue # None)
    /\ UNCHANGED <<artifact, catalogue, edits>>

PruneOrphans ==
    /\ known # None
    /\ artifact' = IF artifact.old /\ ~ known THEN Missing ELSE artifact
    /\ known' = None
    /\ UNCHANGED <<catalogue, edits>>

WorkspaceInit ==
    /\ files = [p \in Path |-> Edition(1, TRUE)]
    /\ held = [p \in Path |-> {files[p]}]
    /\ written = [p \in Path |-> {}]
    /\ edits = 0
    /\ snapshots = [i \in {Created} |-> Index(files, Nothing)]
    /\ evidence = {} /\ claims = {}
    /\ artifact = Missing /\ catalogue = None /\ known = None
    /\ reports = [markdown |-> None, json |-> None]
=============================================================================
