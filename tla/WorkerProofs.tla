---------------------------- MODULE WorkerProofs ----------------------------
(***************************************************************************)
(* What the bundled worker leaves behind is true, for every number of      *)
(* workers and files, and however the repository is changed, workers       *)
(* crash, stall and resume.  Two inductive invariants: where an operation  *)
(* is in its program and of what kind everything is that it keeps          *)
(* (PlaceInv), and what the stored rows say about the files (TruthInv).    *)
(* Both rest on two facts: no table loses or changes what it once          *)
(* recorded (Grows), and an operation has passed a tool only when the      *)
(* journal holds its result.                                               *)
(***************************************************************************)
EXTENDS WorkerRun, FiniteSetTheorems, SequenceTheorems, TLAPS

-----------------------------------------------------------------------------
\* Where an operation is.  r is what it knows, s the snapshots, j the journal.

OpName == Tool \cup {"catalogue", "map_evidence", "chunk_evidence", "file_evidence",
                     "test_evidence", "claim", "verify_run"}
Tasks == {"inspect_repository", "research_constraints", "implement_change",
          "verify_change", "generate_report"}

Calling == {"act", "walk", "save", "swap", "record"}
Executing == Calling \cup {"op", "verify"}
Finishing == {"renew", "commit", "update", "pin"}
Reporting == {"report", "compose", "json"}
Label == Executing \cup Finishing \cup Reporting \cup
         {"idle", "next", "fail", "load", "scan", "compare", "rebase", "list", "reconcile",
          "return", "pin_resumed"}

Rec(pc, at, base, seen, local, owned) ==
    [pc |-> pc, at |-> at, base |-> base, seen |-> seen, local |-> local, owned |-> owned]
IsRec(r) == r = Rec(r.pc, r.at, r.base, r.seen, r.local, r.owned)

Row(status, args, result) == [status |-> status, args |-> args, result |-> result]
IsRow(row) == row = Row(row.status, row.args, row.result)

TaskOf(r) == TaskSeq[r.seen[1] + 1]
OpOf(r) == Program(TaskOf(r))[r.at]
KeyFor(t, o) == <<t, o.op, o.path>>
KeyAt(r) == KeyFor(TaskOf(r), OpOf(r))

\* The operations before position n of a program, and those that r has passed.
Before(t, n) == {Program(t)[i] : i \in {k \in DOMAIN Program(t) : k < n}}
Passed(r) == Before(TaskOf(r), r.at)

\* A tool that was passed has a result.
Answered(r, j) == \A o \in Passed(r) : o.op \in Tool => j[KeyFor(TaskOf(r), o)].result # None

Seen(r) == r.seen \in (0 .. 5) \X Nat /\ r.at \in Nat /\ r.pc \in Label /\ IsRec(r)

InProgram(r, s, j) ==
    r.pc \in Executing =>
        /\ r.seen[1] < 5 /\ r.at \in DOMAIN Program(TaskOf(r)) /\ r.base \in DOMAIN s
        /\ Answered(r, j)

\* With an outcome that is not a failure the program is at its end.
AtEnd(r, j) ==
    r.pc \in Finishing \cup {"fail"} =>
        /\ r.seen[1] < 5 /\ (r.pc = "renew" => r.local \in {None, "failed"})
        /\ r.pc # "fail" /\ (r.pc = "renew" => r.local # "failed") =>
              r.at = Len(Program(TaskOf(r))) + 1 /\ Answered(r, j)

InCall(r, j) ==
    /\ r.pc \in Calling => OpOf(r).op \in Tool /\ j[KeyAt(r)].status # "absent"
    /\ r.pc \in {"walk", "save"} => OpOf(r).op = "index"
    /\ r.pc = "swap" => OpOf(r).op = "write"
    /\ r.pc = "verify" => OpOf(r).op = "verify_run"
    /\ r.pc = "record" => r.local \in Answer(OpOf(r).op)

\* The snapshot that the index of a task returns.
IsIndex(id, t, s) == id \in DOMAIN s /\ id = SnapshotOf(t)

Walking(r) ==
    /\ r.pc \in {"walk", "scan"} => r.local \in Seq(Content) /\ Len(r.local) < NumPaths
    /\ r.pc \in {"save", "compare"} => r.local \in Seq(Content) /\ Len(r.local) = NumPaths

\* The calls that a resume has found without an outcome.
Uncertain(calls, j) == calls \subseteq Key /\ \A k \in calls : j[k].status # "absent"

Resolved(r, s, j) ==
    /\ r.base \in DOMAIN s \cup {None}
    /\ r.pc \in {"scan", "compare", "pin", "pin_resumed"} => r.base \in DOMAIN s
    /\ r.pc = "rebase" => r.local \in DOMAIN s
    /\ r.pc = "record" /\ OpOf(r).op = "index" => IsIndex(r.local, TaskOf(r), s)
    /\ r.pc = "reconcile" => Uncertain(r.local, j)

Placed(r, s, j) ==
    /\ Seen(r) /\ InProgram(r, s, j) /\ AtEnd(r, j) /\ InCall(r, j) /\ Walking(r)
    /\ Resolved(r, s, j)

\* How far the run is: the attempt of the worker that has it open is that of the next
\* task, and nobody has seen more tasks done than there are.
Ahead(w, r, d, o) ==
    /\ r.seen[1] <= d /\ (r.pc = "pin" => r.seen[1] < d) /\ (r.pc = "update" => r.seen[1] < d)
    /\ o = w => /\ r.pc \in Executing \cup {"renew", "commit", "fail"} => r.seen[1] = d
                /\ r.pc \notin {"next", "update", "pin", "return", "pin_resumed"} \cup Reporting

\* The rows of the journal: a result belongs to a call, that of an index is a snapshot.
JournalRows(j, s) ==
    /\ j = [k \in Key |-> j[k]] /\ \A k \in Key : IsRow(j[k])
    /\ \A k \in Key : j[k].result # None => /\ j[k].status # "absent"
                                            /\ k[2] = "index" => IsIndex(j[k].result, k[1], s)

Rows == /\ JournalRows(journal, snapshots)
        /\ work = [w \in Worker |-> work[w]]
        /\ IsFiniteSet(DOMAIN snapshots) /\ run.snapshot \in DOMAIN snapshots
        /\ pinned \in DOMAIN snapshots
        /\ reports = [markdown |-> reports.markdown, json |-> reports.json]

Progress ==
    /\ done = 5 => open = None
    /\ run.state = "COMPLETED" => done = 5 /\ fresh = {}
    /\ \A w \in Worker : Ahead(w, work[w], done, open)
    /\ \A w \in Worker : work[w].pc \in Reporting => run.state = "COMPLETED"

PlaceInv ==
    /\ TypeOK /\ Rows /\ Progress
    /\ \A w \in Worker : Placed(work[w], snapshots, journal)

-----------------------------------------------------------------------------
\* What the rows say.  h is held, wr what is to be written, e edits, cl the claims.

ReadKey(p) == <<"implement_change", "read", p>>
WriteKey(p) == <<"implement_change", "write", p>>
SearchKey(t) == <<t, "search", 0>>
Inspected == SnapshotOf("inspect_repository")
Changed == SnapshotOf("implement_change")

\* The one content that a write of p may put there.
NewFor(j, p) == Transform(j[ReadKey(p)].result.content)
Target == [p \in Path |-> IF journal[ReadKey(p)].result = None THEN {} ELSE {NewFor(journal, p)}]

ImplementedIn(wr, p, content) ==
    content = Gone \/ \E c \in wr[p] : content = c \/ content.edition > c.edition

Newest(f, h) == f = Gone \/ \A c \in h : c = f \/ f.edition > c.edition

\* The files, and the history of what was in them: until the worker has read a file it
\* holds its newest edition, and once the new content was there, that or a later one.
FilesTrue(f, h, wr, e) ==
    \A p \in Path :
        /\ f[p] \in h[p] /\ \A c \in h[p] : c.edition <= e + 1
        /\ wr[p] = {} => Newest(f[p], h[p])
        /\ wr[p] \cap h[p] # {} => ImplementedIn(wr, p, f[p])

ManifestTrue(manifest, h) == \A p \in Live(manifest) : manifest[p].content \in h[p]
ChangeIn(manifest, wr) == \A p \in Live(manifest) : ImplementedIn(wr, p, manifest[p].content)
SnapshotsTrue(s, h, wr) ==
    /\ \A id \in DOMAIN s : ManifestTrue(s[id], h)
    /\ Changed \in DOMAIN s => ChangeIn(s[Changed], wr)

WritesTrue(wr, to) == \A p \in Path : wr[p] \subseteq to[p]

\* The results of the tools.
ReadTrue(p, result, h) == result.hash \in h[p] /\ result.content = Redact(p, result.hash)
TestTrue(result, h, wr) ==
    \A p \in Path : result.files[p] \in h[p] /\ ImplementedIn(wr, p, result.files[p])
AnswerTrue(k, args, result, s, h, wr) ==
    /\ k[2] = "artifact" => result = args
    /\ k[2] = "search" => args \in DOMAIN s /\ result = Live(s[args])
    /\ k[2] = "read" => ReadTrue(k[3], result, h)
    /\ k[2] = "write" => args.content \in h[k[3]]
    /\ k[2] = "test" => TestTrue(result, h, wr)

\* The arguments of a call.
InputTrue(k, args, s, j) ==
    /\ k[2] = "artifact" => Inspected \in DOMAIN s /\ args = s[Inspected]
    /\ k[2] = "search" => args \in DOMAIN s
    /\ k[2] = "write" => /\ j[ReadKey(k[3])].result # None
                         /\ args = [content |-> NewFor(j, k[3]),
                                    expected |-> j[ReadKey(k[3])].result.hash]

RowTrue(k, s, j, h, wr) ==
    /\ j[k].status # "absent" => InputTrue(k, j[k].args, s, j)
    /\ j[k].result # None => AnswerTrue(k, j[k].args, j[k].result, s, h, wr)

\* The snapshot that the searches of r are about.
Searched(r) == IF TaskOf(r) = "research_constraints" THEN r.base ELSE SnapshotOf(TaskOf(r))

\* What r has, once it has passed an operation.
HasClaim(cl, t) == \E c \in cl : c.task = t /\ c.evidence # {}
AfterOp(r, o, j, cl) ==
    /\ o.op = "search" => j[SearchKey(TaskOf(r))].args = Searched(r)
    /\ o.op \in {"file_evidence", "test_evidence"} => r.owned # {}
    /\ o.op = "chunk_evidence" /\ TaskOf(r) = "research_constraints" => r.owned # {}
    /\ o.op = "map_evidence" => \E e \in r.owned : e.type = "snapshot"
    /\ o.op = "claim" => HasClaim(cl, TaskOf(r))

OpsTrue(r, j, cl) ==
    r.pc \in Executing \cup {"renew", "commit"} /\ (r.pc = "renew" => r.local # "failed") =>
        \A o \in Passed(r) : AfterOp(r, o, j, cl)

CallTrue(r, s, j, h, wr) ==
    /\ r.pc \in Calling /\ OpOf(r).op = "search" => j[KeyAt(r)].args = Searched(r)
    /\ r.pc = "record" => AnswerTrue(KeyAt(r), j[KeyAt(r)].args, r.local, s, h, wr)

WalkTrue(r, h, wr) ==
    /\ r.pc \in {"walk", "save", "scan", "compare"} =>
          \A i \in 1 .. Len(r.local) : r.local[i] \in h[i]
    /\ r.pc \in {"walk", "save"} /\ TaskOf(r) = "implement_change" =>
          \A i \in 1 .. Len(r.local) : ImplementedIn(wr, i, r.local[i])

EvidenceTrue(ev, h, wr) ==
    \A e \in ev : \A p \in DOMAIN e.contents :
        e.contents[p] \in h[p] /\ (e.type = "test" => ImplementedIn(wr, p, e.contents[p]))

\* A task that is done has its claim, and the implementation has written every file.
DoneTrue(d, cl, j) ==
    /\ \A i \in 1 .. 4 : i <= d => HasClaim(cl, TaskSeq[i])
    /\ d >= 3 => \A p \in Path : j[WriteKey(p)].result # None

MapsTrue(map, s) == map # None => Inspected \in DOMAIN s /\ map = s[Inspected]

Backed(cl, ev) == (\A c \in cl : c.evidence \subseteq ev) /\ \A i \in 1 .. 4 : HasClaim(cl, TaskSeq[i])

ReportTrue ==
    /\ \A c \in claims : Supported(c)
    /\ \A w \in Worker : work[w].pc = "json" => Backed(work[w].local, evidence)
    /\ reports.markdown # None => Backed(reports.markdown, evidence)
    /\ reports.json # None => Backed(reports.json, evidence)

\* Three parts: the tables, what an operation knows, and how far the run is.
TableTrue ==
    /\ FilesTrue(files, held, Target, edits)
    /\ SnapshotsTrue(snapshots, held, Target)
    /\ WritesTrue(written, Target)
    /\ \A k \in Key : RowTrue(k, snapshots, journal, held, Target)
    /\ EvidenceTrue(evidence, held, Target)
    /\ MapsTrue(catalogue, snapshots) /\ MapsTrue(artifact.stored, snapshots)

WorkTrue(r, s, j, h, wr, cl) ==
    OpsTrue(r, j, cl) /\ CallTrue(r, s, j, h, wr) /\ WalkTrue(r, h, wr)

RunTrue == DoneTrue(done, claims, journal) /\ ReportTrue

TruthInv ==
    /\ TableTrue /\ RunTrue
    /\ \A w \in Worker : WorkTrue(work[w], snapshots, journal, held, Target, claims)

-----------------------------------------------------------------------------
\* The programs.

LEMMA PathType == NumPaths \in Nat /\ NumPaths >= 1 /\ Path \subseteq Nat /\ 1 \in Path
  BY WorkspaceAssumption DEF Path

LEMMA FileOpsShape ==
    /\ DOMAIN FileOps = 1 .. 3 * NumPaths
    /\ \A p \in Path : /\ FileOps[3 * p - 2] = [op |-> "read", path |-> p]
                       /\ FileOps[3 * p - 1] = [op |-> "write", path |-> p]
                       /\ FileOps[3 * p] = [op |-> "file_evidence", path |-> p]
    /\ \A i \in 1 .. 3 * NumPaths : \E p \in Path : i = 3 * p - 2 \/ i = 3 * p - 1 \/ i = 3 * p
<1> USE PathType DEF Path
<1>1. DOMAIN FileOps = 1 .. 3 * NumPaths
  BY DEF FileOps
<1>2. ASSUME NEW p \in Path
      PROVE  /\ FileOps[3 * p - 2] = [op |-> "read", path |-> p]
             /\ FileOps[3 * p - 1] = [op |-> "write", path |-> p]
             /\ FileOps[3 * p] = [op |-> "file_evidence", path |-> p]
  <2>1. /\ (3 * p - 2) \in 1 .. 3 * NumPaths /\ (3 * p - 1) \in 1 .. 3 * NumPaths
        /\ (3 * p) \in 1 .. 3 * NumPaths
    OBVIOUS
  <2>2. /\ ((3 * p - 2 - 1) % 3) + 1 = 1 /\ ((3 * p - 2 - 1) \div 3) + 1 = p
        /\ ((3 * p - 1 - 1) % 3) + 1 = 2 /\ ((3 * p - 1 - 1) \div 3) + 1 = p
        /\ ((3 * p - 1) % 3) + 1 = 3 /\ ((3 * p - 1) \div 3) + 1 = p
    OBVIOUS
  <2> QED
    BY <2>1, <2>2 DEF FileOps
<1>3. ASSUME NEW i \in 1 .. 3 * NumPaths
      PROVE  \E p \in Path : i = 3 * p - 2 \/ i = 3 * p - 1 \/ i = 3 * p
  <2> DEFINE p == ((i - 1) \div 3) + 1
  <2>1. p \in Path
    OBVIOUS
  <2>2. i = 3 * p - 2 \/ i = 3 * p - 1 \/ i = 3 * p
    OBVIOUS
  <2> QED
    BY <2>1, <2>2
<1> QED
  BY <1>1, <1>2, <1>3

LEMMA FileOpsSeq ==
    FileOps \in Seq([op : {"read", "write", "file_evidence"}, path : Path])
      /\ Len(FileOps) = 3 * NumPaths
<1> DEFINE S == [op : {"read", "write", "file_evidence"}, path : Path]
<1>1. ASSUME NEW i \in 1 .. 3 * NumPaths PROVE FileOps[i] \in S
  <2>1. PICK p \in Path : i = 3 * p - 2 \/ i = 3 * p - 1 \/ i = 3 * p
    BY FileOpsShape
  <2>2. FileOps[i] \in {[op |-> "read", path |-> p], [op |-> "write", path |-> p],
                        [op |-> "file_evidence", path |-> p]}
    BY <2>1, FileOpsShape
  <2> QED
    BY <2>2
<1>2. FileOps = [i \in 1 .. 3 * NumPaths |-> FileOps[i]]
  BY DEF FileOps
<1>3. FileOps \in [1 .. 3 * NumPaths -> S]
  BY <1>1, <1>2
<1>4. 3 * NumPaths \in Nat
  BY PathType
<1> HIDE DEF S
<1>5. FileOps \in Seq(S)
  BY <1>3, <1>4, SeqDef
<1>6. Len(FileOps) = 3 * NumPaths
  BY <1>3, <1>4, <1>5, LenProperties
<1> QED
  BY <1>5, <1>6 DEF S

\* The program of the implementation: all files, then the index and the claim.
LEMMA ImplementShape ==
    LET P == Program("implement_change") IN
    /\ DOMAIN P = 1 .. 3 * NumPaths + 2 /\ Len(P) = 3 * NumPaths + 2
    /\ \A i \in 1 .. 3 * NumPaths : P[i] = FileOps[i]
    /\ P[3 * NumPaths + 1] = Op("index") /\ P[3 * NumPaths + 2] = Op("claim")
<1> DEFINE F == FileOps
           T == <<Op("index"), Op("claim")>>
           S == [op : OpName, path : Nat]
<1>1. F \in Seq(S) /\ Len(F) = 3 * NumPaths
  <2> DEFINE R == [op : {"read", "write", "file_evidence"}, path : Path]
  <2>1. R \subseteq S
    BY PathType DEF OpName, Tool
  <2>2. F \in Seq(R) /\ Len(F) = 3 * NumPaths
    BY FileOpsSeq
  <2> HIDE DEF R, S, F
  <2> QED
    BY <2>1, <2>2, SeqMonotonic
<1>2. T \in Seq(S) /\ Len(T) = 2 /\ T[1] = Op("index") /\ T[2] = Op("claim")
  BY DEF Op, OpName, Tool
<1>3. Program("implement_change") = F \o T
  BY DEF Program
<1> HIDE DEF F, T, S
<1>4. /\ F \o T \in Seq(S) /\ Len(F \o T) = Len(F) + Len(T)
      /\ \A i \in 1 .. Len(F) + Len(T) : (F \o T)[i] = IF i <= Len(F) THEN F[i] ELSE T[i - Len(F)]
  BY <1>1, <1>2, ConcatProperties
<1>5. DOMAIN (F \o T) = 1 .. 3 * NumPaths + 2 /\ Len(F \o T) = 3 * NumPaths + 2
  BY <1>1, <1>2, <1>4, LenProperties
<1>6. ASSUME NEW i \in 1 .. 3 * NumPaths PROVE (F \o T)[i] = F[i]
  BY <1>1, <1>2, <1>4, PathType
<1>7. /\ (F \o T)[3 * NumPaths + 1] = T[1]
      /\ (F \o T)[3 * NumPaths + 2] = T[2]
  BY <1>1, <1>2, <1>4, PathType
<1> QED
  BY <1>2, <1>3, <1>5, <1>6, <1>7 DEF F

\* What a program has done before it comes to an operation.
FileOp(op, p) == [op |-> op, path |-> p]
Ordered(t, n) ==
    LET o == Program(t)[n]
        before == Before(t, n) IN
    /\ o.op \in OpName /\ o.path \in Nat
    /\ o.op \in {"index", "artifact", "search", "test"} => o.path = 0
    /\ o.op = "index" => t \in {"inspect_repository", "implement_change"}
    /\ o.op \in {"artifact", "catalogue", "map_evidence"} =>
          t = "inspect_repository" /\ Op("index") \in before
    /\ o.op = "catalogue" => Op("artifact") \in before
    /\ o.op \in {"search", "chunk_evidence"} =>
          t = "research_constraints" \/ (t = "inspect_repository" /\ Op("index") \in before)
    /\ o.op = "chunk_evidence" => Op("search") \in before
    /\ o.op \in {"read", "write", "file_evidence"} => t = "implement_change" /\ o.path \in Path
    /\ o.op \in {"write", "file_evidence"} => FileOp("read", o.path) \in before
    /\ o.op = "file_evidence" => FileOp("write", o.path) \in before
    /\ o.op = "index" /\ t = "implement_change" =>
          \A p \in Path : FileOp("write", p) \in before
    /\ o.op \in {"test", "test_evidence"} => t = "verify_change"
    /\ o.op = "test_evidence" => Op("test") \in before
    /\ o.op = "verify_run" => t = "generate_report"
    /\ o.op = "claim" =>
          \/ t = "inspect_repository" /\ Op("map_evidence") \in before
          \/ t = "research_constraints" /\ Op("chunk_evidence") \in before
          \/ t = "implement_change" /\ FileOp("file_evidence", 1) \in before
          \/ t = "verify_change" /\ Op("test_evidence") \in before

\* What a program has done at its end.
Whole(t) == {Program(t)[i] : i \in DOMAIN Program(t)}
Ended(t) ==
    LET all == Whole(t) IN
    /\ Len(Program(t)) \in Nat /\ Len(Program(t)) >= 1 /\ DOMAIN Program(t) = 1 .. Len(Program(t))
    /\ t # "generate_report" => Op("claim") \in all
    /\ t = "implement_change" => \A p \in Path : FileOp("write", p) \in all
    /\ Indexes(t) <=> t \in {"inspect_repository", "implement_change"}
    /\ Indexes(t) => Op("index") \in all

LEMMA InBefore ==
    ASSUME NEW t, NEW n, NEW i \in DOMAIN Program(t), i < n
    PROVE  Program(t)[i] \in Before(t, n)
  BY DEF Before

LEMMA InspectOrder ==
    /\ Ended("inspect_repository")
    /\ \A n \in DOMAIN Program("inspect_repository") : Ordered("inspect_repository", n)
<1> DEFINE P == Program("inspect_repository")
<1>1. P = <<Op("index"), Op("artifact"), Op("catalogue"), Op("map_evidence"),
            Op("search"), Op("chunk_evidence"), Op("claim")>>
  BY DEF Program
<1>2. /\ DOMAIN P = 1 .. 7 /\ Len(P) = 7 /\ P[1] = Op("index") /\ P[2] = Op("artifact")
      /\ P[3] = Op("catalogue") /\ P[4] = Op("map_evidence") /\ P[5] = Op("search")
      /\ P[6] = Op("chunk_evidence") /\ P[7] = Op("claim")
  BY <1>1
<1>3. \A n \in Nat : \A i \in 1 .. 7 : i < n => P[i] \in Before("inspect_repository", n)
  BY <1>2, InBefore
<1> HIDE DEF P
<1>4. ASSUME NEW n \in 1 .. 7 PROVE Ordered("inspect_repository", n)
  <2>1. P[n].op \in OpName /\ P[n].path = 0 /\ P[n] = Op(P[n].op)
    BY <1>2 DEF Op, OpName, Tool
  <2>2. n > 1 => Op("index") \in Before("inspect_repository", n)
    BY <1>2, <1>3
  <2>3. n > 2 => Op("artifact") \in Before("inspect_repository", n)
    BY <1>2, <1>3
  <2>4. n > 4 => Op("map_evidence") \in Before("inspect_repository", n)
    BY <1>2, <1>3
  <2>5. n > 5 => Op("search") \in Before("inspect_repository", n)
    BY <1>2, <1>3
  <2>6. /\ P[n].op \notin {"read", "write", "file_evidence", "test", "test_evidence", "verify_run"}
        /\ P[n].op \in {"artifact", "catalogue", "map_evidence", "search", "chunk_evidence"} => n > 1
        /\ P[n].op = "catalogue" => n > 2
        /\ P[n].op = "chunk_evidence" => n > 5
        /\ P[n].op = "claim" => n > 4
    BY <1>2 DEF Op
  <2> QED
    BY <2>1, <2>2, <2>3, <2>4, <2>5, <2>6 DEF Ordered, P
<1>5. Ended("inspect_repository")
  <2>1. Op("claim") \in Whole("inspect_repository") /\ Op("index") \in Whole("inspect_repository")
    BY <1>2 DEF Whole, P
  <2>2. Indexes("inspect_repository")
    BY <1>2 DEF Indexes, P, Op
  <2> QED
    BY <1>2, <2>1, <2>2 DEF Ended, P
<1> QED
  BY <1>2, <1>4, <1>5 DEF P

LEMMA ResearchOrder ==
    /\ Ended("research_constraints")
    /\ \A n \in DOMAIN Program("research_constraints") : Ordered("research_constraints", n)
<1> DEFINE P == Program("research_constraints")
<1>1. P = <<Op("search"), Op("chunk_evidence"), Op("claim")>>
  BY DEF Program
<1>2. /\ DOMAIN P = 1 .. 3 /\ Len(P) = 3 /\ P[1] = Op("search") /\ P[2] = Op("chunk_evidence")
      /\ P[3] = Op("claim")
  BY <1>1
<1>3. \A n \in Nat : \A i \in 1 .. 3 : i < n => P[i] \in Before("research_constraints", n)
  BY <1>2, InBefore
<1> HIDE DEF P
<1>4. ASSUME NEW n \in 1 .. 3 PROVE Ordered("research_constraints", n)
  <2>1. P[n].op \in OpName /\ P[n].path = 0
    BY <1>2 DEF Op, OpName, Tool
  <2>2. n > 1 => Op("search") \in Before("research_constraints", n)
    BY <1>2, <1>3
  <2>3. n > 2 => Op("chunk_evidence") \in Before("research_constraints", n)
    BY <1>2, <1>3
  <2>4. /\ P[n].op \in {"search", "chunk_evidence", "claim"}
        /\ P[n].op = "chunk_evidence" => n > 1
        /\ P[n].op = "claim" => n > 2
    BY <1>2 DEF Op
  <2> QED
    BY <2>1, <2>2, <2>3, <2>4 DEF Ordered, P
<1>5. Ended("research_constraints")
  <2>1. Op("claim") \in Whole("research_constraints")
    BY <1>2 DEF Whole, P
  <2>2. ~ Indexes("research_constraints")
    BY <1>2 DEF Indexes, P, Op
  <2> QED
    BY <1>2, <2>1, <2>2 DEF Ended, P
<1> QED
  BY <1>2, <1>4, <1>5 DEF P

LEMMA VerifyOrder ==
    /\ Ended("verify_change")
    /\ \A n \in DOMAIN Program("verify_change") : Ordered("verify_change", n)
<1> DEFINE P == Program("verify_change")
<1>1. P = <<Op("test"), Op("test_evidence"), Op("claim")>>
  BY DEF Program
<1>2. /\ DOMAIN P = 1 .. 3 /\ Len(P) = 3 /\ P[1] = Op("test") /\ P[2] = Op("test_evidence")
      /\ P[3] = Op("claim")
  BY <1>1
<1>3. \A n \in Nat : \A i \in 1 .. 3 : i < n => P[i] \in Before("verify_change", n)
  BY <1>2, InBefore
<1> HIDE DEF P
<1>4. ASSUME NEW n \in 1 .. 3 PROVE Ordered("verify_change", n)
  <2>1. P[n].op \in OpName /\ P[n].path = 0
    BY <1>2 DEF Op, OpName, Tool
  <2>2. n > 1 => Op("test") \in Before("verify_change", n)
    BY <1>2, <1>3
  <2>3. n > 2 => Op("test_evidence") \in Before("verify_change", n)
    BY <1>2, <1>3
  <2>4. /\ P[n].op \in {"test", "test_evidence", "claim"}
        /\ P[n].op = "test_evidence" => n > 1
        /\ P[n].op = "claim" => n > 2
    BY <1>2 DEF Op
  <2> QED
    BY <2>1, <2>2, <2>3, <2>4 DEF Ordered, P
<1>5. Ended("verify_change")
  <2>1. Op("claim") \in Whole("verify_change")
    BY <1>2 DEF Whole, P
  <2>2. ~ Indexes("verify_change")
    BY <1>2 DEF Indexes, P, Op
  <2> QED
    BY <1>2, <2>1, <2>2 DEF Ended, P
<1> QED
  BY <1>2, <1>4, <1>5 DEF P

LEMMA ReportOrder ==
    /\ Ended("generate_report")
    /\ \A n \in DOMAIN Program("generate_report") : Ordered("generate_report", n)
<1>1. /\ DOMAIN Program("generate_report") = 1 .. 1 /\ Len(Program("generate_report")) = 1
      /\ Program("generate_report")[1] = Op("verify_run")
  BY DEF Program
<1>2. Ordered("generate_report", 1)
  BY <1>1 DEF Ordered, Op, OpName, Tool
<1>3. Ended("generate_report")
  BY <1>1 DEF Ended, Indexes, Op
<1> QED
  BY <1>1, <1>2, <1>3

LEMMA ImplementOrder ==
    /\ Ended("implement_change")
    /\ \A n \in DOMAIN Program("implement_change") : Ordered("implement_change", n)
<1> DEFINE t == "implement_change"
           P == Program(t)
           N == 3 * NumPaths
<1>1. /\ DOMAIN P = 1 .. N + 2 /\ Len(P) = N + 2 /\ P[N + 1] = Op("index")
      /\ P[N + 2] = Op("claim") /\ N \in Nat /\ N >= 3
  BY ImplementShape, PathType
<1>2. ASSUME NEW p \in Path
      PROVE  /\ p \in Nat /\ (3 * p - 2) \in 1 .. N /\ (3 * p - 1) \in 1 .. N /\ (3 * p) \in 1 .. N
             /\ P[3 * p - 2] = FileOp("read", p) /\ P[3 * p - 1] = FileOp("write", p)
             /\ P[3 * p] = FileOp("file_evidence", p)
  <2>1. p \in Nat /\ (3 * p - 2) \in 1 .. N /\ (3 * p - 1) \in 1 .. N /\ (3 * p) \in 1 .. N
    BY PathType DEF Path
  <2> QED
    BY <2>1, ImplementShape, FileOpsShape DEF FileOp
<1>3. \A i \in 1 .. N : \E p \in Path : i = 3 * p - 2 \/ i = 3 * p - 1 \/ i = 3 * p
  BY FileOpsShape
<1> HIDE DEF P, N
<1>4. \A n \in Int : \A i \in 1 .. N + 2 : i < n => P[i] \in Before(t, n)
  BY <1>1, InBefore DEF P
<1>5. ASSUME NEW n \in 1 .. N PROVE Ordered(t, n)
  <2>1. PICK p \in Path : n = 3 * p - 2 \/ n = 3 * p - 1 \/ n = 3 * p
    BY <1>3
  <2>2. CASE n = 3 * p - 2
    <3>1. P[n] = FileOp("read", p)
      BY <1>2, <2>2
    <3>2. P[n].op = "read" /\ P[n].path = p /\ p \in Nat
      <4>1. p \in Nat
        BY <1>2
      <4> QED
        BY <3>1, <4>1 DEF FileOp
    <3> QED
      BY <3>2 DEF Ordered, P, OpName, Tool
  <2>3. CASE n = 3 * p - 1
    <3>1. P[n] = FileOp("write", p)
      BY <1>2, <2>3
    <3>2. P[n].op = "write" /\ P[n].path = p /\ p \in Nat
      <4>1. p \in Nat
        BY <1>2
      <4> QED
        BY <3>1, <4>1 DEF FileOp
    <3>3. FileOp("read", p) \in Before(t, n)
      <4>1. (3 * p - 2) \in 1 .. N + 2 /\ n \in Int /\ 3 * p - 2 < n
        BY <1>1, <1>2, <2>3
      <4>2. P[3 * p - 2] \in Before(t, n)
        BY <1>4, <4>1
      <4> QED
        BY <1>2, <4>2
    <3> QED
      BY <3>2, <3>3 DEF Ordered, P, OpName, Tool
  <2>4. CASE n = 3 * p
    <3>1. P[n] = FileOp("file_evidence", p)
      BY <1>2, <2>4
    <3>2. P[n].op = "file_evidence" /\ P[n].path = p /\ p \in Nat
      <4>1. p \in Nat
        BY <1>2
      <4> QED
        BY <3>1, <4>1 DEF FileOp
    <3>3. FileOp("read", p) \in Before(t, n)
      <4>1. (3 * p - 2) \in 1 .. N + 2 /\ n \in Int /\ 3 * p - 2 < n
        BY <1>1, <1>2, <2>4
      <4>2. P[3 * p - 2] \in Before(t, n)
        BY <1>4, <4>1
      <4> QED
        BY <1>2, <4>2
    <3>4. FileOp("write", p) \in Before(t, n)
      <4>1. (3 * p - 1) \in 1 .. N + 2 /\ n \in Int /\ 3 * p - 1 < n
        BY <1>1, <1>2, <2>4
      <4>2. P[3 * p - 1] \in Before(t, n)
        BY <1>4, <4>1
      <4> QED
        BY <1>2, <4>2
    <3> QED
      BY <3>2, <3>3, <3>4 DEF Ordered, P, OpName, Tool
  <2> QED
    BY <2>1, <2>2, <2>3, <2>4
<1>6. Ordered(t, N + 1)
  <2>1. ASSUME NEW p \in Path PROVE FileOp("write", p) \in Before(t, N + 1)
    <3>1. 3 * p - 1 < N + 1
      BY <1>1, <1>2
    <3> QED
      BY <1>1, <1>2, <1>4, <3>1
  <2>2. P[N + 1].op = "index" /\ P[N + 1].path = 0
    BY <1>1 DEF Op
  <2> QED
    BY <2>1, <2>2 DEF Ordered, P, OpName, Tool
<1>7. Ordered(t, N + 2)
  <2>1. 1 \in Path
    BY PathType
  <2>2. PICK q \in Path : q = 1
    BY <2>1
  <2>3. FileOp("file_evidence", q) \in Before(t, N + 2)
    <3>1. (3 * q) \in 1 .. N + 2 /\ N + 2 \in Int /\ 3 * q < N + 2
      BY <1>1, <1>2
    <3>2. P[3 * q] \in Before(t, N + 2)
      BY <1>4, <3>1
    <3> QED
      BY <1>2, <3>2
  <2>4. P[N + 2].op = "claim" /\ P[N + 2].path = 0
    BY <1>1 DEF Op
  <2> QED
    BY <2>2, <2>3, <2>4 DEF Ordered, P, OpName, Tool
<1>8. Ended(t)
  <2>1. \A i \in 1 .. N + 2 : P[i] \in Whole(t)
    BY <1>1 DEF Whole, P
  <2>2. Op("claim") \in Whole(t) /\ Op("index") \in Whole(t)
    BY <1>1, <2>1
  <2>3. ASSUME NEW p \in Path PROVE FileOp("write", p) \in Whole(t)
    <3>1. (3 * p - 1) \in 1 .. N + 2
      BY <1>1, <1>2
    <3> QED
      BY <1>2, <2>1, <3>1
  <2>4. Indexes(t)
    <3>1. (N + 1) \in DOMAIN P /\ P[N + 1].op = "index"
      BY <1>1 DEF Op
    <3> QED
      BY <3>1 DEF Indexes, P
  <2>5. Len(P) \in Nat /\ Len(P) >= 1 /\ DOMAIN P = 1 .. Len(P)
    BY <1>1
  <2> QED
    BY <2>2, <2>3, <2>4, <2>5 DEF Ended, P
<1>9. \A n \in DOMAIN P : n \in 1 .. N \/ n = N + 1 \/ n = N + 2
  BY <1>1
<1> QED
  BY <1>5, <1>6, <1>7, <1>8, <1>9 DEF P

LEMMA ProgramOrder ==
    ASSUME NEW t \in Tasks
    PROVE  /\ Ended(t) /\ DOMAIN Program(t) = 1 .. Len(Program(t))
           /\ Len(Program(t)) \in Nat /\ Len(Program(t)) >= 1
           /\ \A n \in DOMAIN Program(t) : Ordered(t, n)
<1>1. Ended(t) /\ \A n \in DOMAIN Program(t) : Ordered(t, n)
  BY InspectOrder, ResearchOrder, ImplementOrder, VerifyOrder, ReportOrder DEF Tasks
<1> QED
  BY <1>1 DEF Ended

LEMMA WholeIsBefore ==
    ASSUME NEW t \in Tasks
    PROVE  Before(t, Len(Program(t)) + 1) = Whole(t)
<1> DEFINE n == Len(Program(t))
<1>1. n \in Nat /\ DOMAIN Program(t) = 1 .. n
  BY ProgramOrder
<1> HIDE DEF n
<1>2. \A k \in DOMAIN Program(t) : k < n + 1
  BY <1>1
<1>3. {k \in DOMAIN Program(t) : k < n + 1} = DOMAIN Program(t)
  BY <1>2
<1> QED
  BY <1>3 DEF Before, Whole, n

LEMMA BeforeNext ==
    ASSUME NEW t \in Tasks, NEW n \in DOMAIN Program(t)
    PROVE  Before(t, n + 1) = Before(t, n) \cup {Program(t)[n]}
<1>1. DOMAIN Program(t) \subseteq Int
  BY ProgramOrder
<1>2. {k \in DOMAIN Program(t) : k < n + 1} = {k \in DOMAIN Program(t) : k < n} \cup {n}
  BY <1>1
<1> QED
  BY <1>2 DEF Before

LEMMA BeforeFirst ==
    ASSUME NEW t \in Tasks
    PROVE  Before(t, 1) = {} /\ 1 \in DOMAIN Program(t)
  BY ProgramOrder DEF Before

LEMMA TaskSeqType ==
    /\ Len(TaskSeq) = 5
    /\ \A i \in 0 .. 4 : TaskSeq[i + 1] \in Tasks
    /\ TaskSeq[1] = "inspect_repository" /\ TaskSeq[2] = "research_constraints"
    /\ TaskSeq[3] = "implement_change" /\ TaskSeq[4] = "verify_change"
    /\ TaskSeq[5] = "generate_report"
<1>1. /\ Len(TaskSeq) = 5
      /\ TaskSeq[1] = "inspect_repository" /\ TaskSeq[2] = "research_constraints"
      /\ TaskSeq[3] = "implement_change" /\ TaskSeq[4] = "verify_change"
      /\ TaskSeq[5] = "generate_report"
  BY DEF TaskSeq
<1>2. ASSUME NEW i \in 0 .. 4 PROVE TaskSeq[i + 1] \in Tasks
  <2>1. i + 1 = 1 \/ i + 1 = 2 \/ i + 1 = 3 \/ i + 1 = 4 \/ i + 1 = 5
    OBVIOUS
  <2> QED
    BY <1>1, <2>1 DEF Tasks
<1> QED
  BY <1>1, <1>2

\* The keys are those of the tools in the programs.
LEMMA KeyOfTool ==
    ASSUME NEW i \in 0 .. 4, NEW n \in DOMAIN Program(TaskSeq[i + 1]),
           Program(TaskSeq[i + 1])[n].op \in Tool
    PROVE  KeyFor(TaskSeq[i + 1], Program(TaskSeq[i + 1])[n]) \in Key
<1>1. (i + 1) \in 1 .. Len(TaskSeq)
  BY TaskSeqType
<1> QED
  BY <1>1 DEF Key, KeyFor

LEMMA KeyShape ==
    ASSUME NEW k \in Key
    PROVE  /\ k[1] \in Tasks /\ k[2] \in Tool /\ k = <<k[1], k[2], k[3]>>
           /\ \E n \in DOMAIN Program(k[1]) : k = KeyFor(k[1], Program(k[1])[n])
<1>1. PICK i \in 1 .. Len(TaskSeq) :
         \E n \in {m \in DOMAIN Program(TaskSeq[i]) : Program(TaskSeq[i])[m].op \in Tool} :
            k = <<TaskSeq[i], Program(TaskSeq[i])[n].op, Program(TaskSeq[i])[n].path>>
  BY DEF Key
<1>2. PICK n \in DOMAIN Program(TaskSeq[i]) :
         /\ Program(TaskSeq[i])[n].op \in Tool
         /\ k = <<TaskSeq[i], Program(TaskSeq[i])[n].op, Program(TaskSeq[i])[n].path>>
  BY <1>1
<1>3. (i - 1) \in 0 .. 4 /\ (i - 1) + 1 = i
  BY TaskSeqType
<1>4. TaskSeq[i] \in Tasks
  BY <1>3, TaskSeqType
<1>5. k[1] = TaskSeq[i] /\ k[2] = Program(TaskSeq[i])[n].op /\ k[3] = Program(TaskSeq[i])[n].path
  BY <1>2
<1> QED
  BY <1>2, <1>4, <1>5 DEF KeyFor

\* What a key is for says where it is used.
LEMMA KeyFacts ==
    ASSUME NEW k \in Key
    PROVE  /\ k[2] \in {"index", "artifact", "search", "test"} => k[3] = 0
           /\ k[2] \in {"read", "write"} => k[1] = "implement_change" /\ k[3] \in Path
           /\ k[2] = "index" => k[1] \in {"inspect_repository", "implement_change"}
           /\ k[2] = "artifact" => k[1] = "inspect_repository"
           /\ k[2] = "test" => k[1] = "verify_change"
           /\ k[2] = "write" => ReadKey(k[3]) \in Key
<1>1. k[1] \in Tasks
  BY KeyShape
<1>2. PICK n \in DOMAIN Program(k[1]) : k = KeyFor(k[1], Program(k[1])[n])
  BY KeyShape
<1>3. k[2] = Program(k[1])[n].op /\ k[3] = Program(k[1])[n].path
  BY <1>2 DEF KeyFor
<1>4. Ordered(k[1], n)
  BY <1>1, ProgramOrder
<1>5. ASSUME k[2] = "write" PROVE ReadKey(k[3]) \in Key
  <2>1. k[1] = "implement_change" /\ FileOp("read", k[3]) \in Before(k[1], n)
    BY <1>3, <1>4, <1>5 DEF Ordered
  <2>2. PICK m \in DOMAIN Program(TaskSeq[3]) : Program(TaskSeq[3])[m] = FileOp("read", k[3])
    BY <2>1, TaskSeqType DEF Before
  <2>3. Program(TaskSeq[2 + 1])[m].op \in Tool
    BY <2>2 DEF FileOp, Tool
  <2>4. KeyFor(TaskSeq[2 + 1], Program(TaskSeq[2 + 1])[m]) \in Key
    BY <2>3, KeyOfTool
  <2> QED
    BY <2>2, <2>4, TaskSeqType DEF KeyFor, FileOp, ReadKey
<1> QED
  BY <1>3, <1>4, <1>5 DEF Ordered

-----------------------------------------------------------------------------
\* Steps of one operation.

Becomes(w, r) ==
    /\ work' = [v \in Worker |-> work'[v]] /\ work'[w] = r
    /\ \A v \in Worker : v # w => work'[v] = work[v]

\* The set of operations is a function, each of which has its six fields.
Shaped(w) == /\ w \in Worker /\ work = [v \in Worker |-> work[v]] /\ IsRec(work[w])

LEMMA Fields ==
    ASSUME NEW pc, NEW at, NEW base, NEW seen, NEW local, NEW owned
    PROVE  LET r == Rec(pc, at, base, seen, local, owned) IN
           /\ r.pc = pc /\ r.at = at /\ r.base = base /\ r.seen = seen /\ r.local = local
           /\ r.owned = owned /\ IsRec(r)
  BY DEF Rec, IsRec

LEMMA GotoEffect ==
    ASSUME NEW w, NEW label, Shaped(w), Goto(w, label)
    PROVE  Becomes(w, Rec(label, work[w].at, work[w].base, work[w].seen, work[w].local,
                          work[w].owned))
  BY DEF Shaped, Goto, Becomes, Rec, IsRec

LEMMA GotoWithEffect ==
    ASSUME NEW w, NEW label, NEW value, Shaped(w), GotoWith(w, label, value)
    PROVE  Becomes(w, Rec(label, work[w].at, work[w].base, work[w].seen, value, work[w].owned))
  BY DEF Shaped, GotoWith, Becomes, Rec, IsRec

LEMMA ProceedEffect ==
    ASSUME NEW w, NEW records, Shaped(w), ProceedWith(w, records)
    PROVE  Becomes(w, Rec(IF work[w].at = Len(Program(Task(w))) THEN "renew" ELSE "op",
                          work[w].at + 1, work[w].base, work[w].seen, None,
                          work[w].owned \cup records))
<1> DEFINE pc == IF work[w].at = Len(Program(Task(w))) THEN "renew" ELSE "op"
<1>1. work' = [work EXCEPT ![w].pc = pc, ![w].at = @ + 1, ![w].local = None,
                           ![w].owned = @ \cup records]
  BY DEF ProceedWith
<1> HIDE DEF pc
<1>2. Becomes(w, Rec(pc, work[w].at + 1, work[w].base, work[w].seen, None,
                     work[w].owned \cup records))
  BY <1>1 DEF Shaped, Becomes, Rec, IsRec
<1> QED
  BY <1>2 DEF pc

LEMMA IdleEffect ==
    ASSUME NEW w, Shaped(w), work' = [work EXCEPT ![w] = Idle]
    PROVE  Becomes(w, Idle) /\ Idle = Rec("idle", 0, None, <<0, 0>>, None, {})
  BY DEF Shaped, Becomes, Rec, Idle

LEMMA AdvanceEffect ==
    ASSUME NEW w, NEW label, NEW seen, Shaped(w),
           work' = [work EXCEPT ![w].pc = label, ![w].seen = seen]
    PROVE  Becomes(w, Rec(label, work[w].at, work[w].base, seen, work[w].local, work[w].owned))
  BY DEF Shaped, Becomes, Rec, IsRec

LEMMA StartEffect ==
    ASSUME NEW w, NEW base, Shaped(w),
           work' = [work EXCEPT ![w].pc = "op", ![w].at = 1, ![w].owned = {}, ![w].base = base]
    PROVE  Becomes(w, Rec("op", 1, base, work[w].seen, work[w].local, {}))
  BY DEF Shaped, Becomes, Rec, IsRec

LEMMA RebaseEffect ==
    ASSUME NEW w, NEW label, NEW base, Shaped(w),
           work' = [work EXCEPT ![w].pc = label, ![w].base = base]
    PROVE  Becomes(w, Rec(label, work[w].at, base, work[w].seen, work[w].local, work[w].owned))
  BY DEF Shaped, Becomes, Rec, IsRec

LEMMA LoadEffect ==
    ASSUME NEW w, NEW label, NEW base, NEW local, Shaped(w),
           work' = [work EXCEPT ![w].pc = label, ![w].base = base, ![w].local = local]
    PROVE  Becomes(w, Rec(label, work[w].at, base, work[w].seen, local, work[w].owned))
  BY DEF Shaped, Becomes, Rec, IsRec

LEMMA PinEffect ==
    ASSUME NEW w, NEW label, NEW seen, NEW local, Shaped(w),
           work' = [work EXCEPT ![w].pc = label, ![w].seen = seen, ![w].local = local]
    PROVE  Becomes(w, Rec(label, work[w].at, work[w].base, seen, local, work[w].owned))
  BY DEF Shaped, Becomes, Rec, IsRec

\* The journal is a function, each of whose rows has its three fields.
LEMMA RowFields ==
    ASSUME NEW status, NEW args, NEW result
    PROVE  LET row == Row(status, args, result) IN
           row.status = status /\ row.args = args /\ row.result = result /\ IsRow(row)
  BY DEF Row, IsRow

Stored(key, row) ==
    /\ journal' = [k \in Key |-> journal'[k]] /\ journal'[key] = row
    /\ \A k \in Key : k # key => journal'[k] = journal[k]

LEMMA SetCallEffect ==
    ASSUME NEW key \in Key, NEW row, journal = [k \in Key |-> journal[k]], SetCall(key, row)
    PROVE  Stored(key, row)
  BY DEF SetCall, Stored

LEMMA RowStatus ==
    ASSUME NEW row, NEW status, IsRow(row)
    PROVE  [row EXCEPT !.status = status] = Row(status, row.args, row.result)
  BY DEF IsRow, Row

Finished(row, result) == [row EXCEPT !.status = "SUCCEEDED", !.result = result]
LEMMA RowResult ==
    ASSUME NEW row, NEW result, IsRow(row)
    PROVE  Finished(row, result) = Row("SUCCEEDED", row.args, result)
<1>1. \A r, x : IsRow(r) => [r EXCEPT !.result = x] = Row(r.status, r.args, x)
  BY DEF IsRow, Row
<1> DEFINE mid == [row EXCEPT !.status = "SUCCEEDED"]
<1>2. mid = Row("SUCCEEDED", row.args, row.result)
  BY RowStatus
<1>3. IsRow(mid) /\ mid.status = "SUCCEEDED" /\ mid.args = row.args
  BY <1>2, RowFields
<1>4. Finished(row, result) = [mid EXCEPT !.result = result]
  BY DEF Finished
<1> QED
  BY <1>1, <1>3, <1>4

-----------------------------------------------------------------------------
\* An operation stays where it is while the others go on: tables only grow.

Keeps(s, t, j, i) ==
    /\ DOMAIN s \subseteq DOMAIN t /\ \A id \in DOMAIN s : t[id] = s[id]
    /\ \A k \in Key : /\ j[k].status # "absent" => i[k].status # "absent"
                      /\ j[k].result # None => i[k].result = j[k].result

LEMMA TaskOfType ==
    ASSUME NEW r, Seen(r), r.seen[1] < 5
    PROVE  /\ TaskOf(r) \in Tasks /\ r.seen[1] \in 0 .. 4 /\ r.seen \in Int \X Int
           /\ \E i \in 0 .. 4 : i = r.seen[1] /\ TaskOf(r) = TaskSeq[i + 1]
<1>1. r.seen[1] \in 0 .. 5 /\ r.seen \in Int \X Int
  BY DEF Seen
<1>2. r.seen[1] \in 0 .. 4
  BY <1>1
<1> QED
  BY <1>1, <1>2, TaskSeqType DEF TaskOf

LEMMA KeyAtType ==
    ASSUME NEW r, Seen(r), r.seen[1] < 5, r.at \in DOMAIN Program(TaskOf(r))
    PROVE  /\ OpOf(r).op \in Tool => KeyAt(r) \in Key
           /\ KeyAt(r) = <<TaskOf(r), OpOf(r).op, OpOf(r).path>>
           /\ Ordered(TaskOf(r), r.at) /\ OpOf(r).op \in OpName
<1>1. PICK i \in 0 .. 4 : TaskOf(r) = TaskSeq[i + 1]
  BY TaskOfType
<1>2. OpOf(r).op \in Tool => KeyAt(r) \in Key
  BY <1>1, KeyOfTool DEF KeyAt, OpOf
<1>3. Ordered(TaskOf(r), r.at)
  BY TaskOfType, ProgramOrder
<1> QED
  BY <1>2, <1>3 DEF KeyAt, KeyFor, Ordered, OpOf

LEMMA PassedKeys ==
    ASSUME NEW r, Seen(r), r.seen[1] < 5, NEW o \in Passed(r), o.op \in Tool
    PROVE  KeyFor(TaskOf(r), o) \in Key
<1>1. PICK i \in 0 .. 4 : TaskOf(r) = TaskSeq[i + 1]
  BY TaskOfType
<1>2. PICK n \in DOMAIN Program(TaskOf(r)) : o = Program(TaskOf(r))[n]
  BY DEF Passed, Before
<1> QED
  BY <1>1, <1>2, KeyOfTool

LEMMA AnsweredStable ==
    ASSUME NEW r, NEW s, NEW t, NEW j, NEW i, Keeps(s, t, j, i), Seen(r), r.seen[1] < 5,
           Answered(r, j)
    PROVE  Answered(r, i)
  BY PassedKeys DEF Answered, Keeps

LEMMA PlacedStable ==
    ASSUME NEW r, NEW s, NEW t, NEW j, NEW i, Keeps(s, t, j, i), Placed(r, s, j)
    PROVE  Placed(r, t, i)
<1>1. Seen(r) /\ Walking(r)
  BY DEF Placed
<1>2. InProgram(r, t, i)
  BY <1>1, AnsweredStable DEF Placed, InProgram, Keeps
<1>3. AtEnd(r, i)
  BY <1>1, AnsweredStable DEF Placed, AtEnd
<1>4. InCall(r, i)
  <2>1. r.pc \in Calling => r.seen[1] < 5 /\ r.at \in DOMAIN Program(TaskOf(r))
    BY DEF Placed, InProgram, Executing
  <2>2. r.pc \in Calling => KeyAt(r) \in Key
    BY <1>1, <2>1, KeyAtType DEF Placed, InCall
  <2> QED
    BY <2>2 DEF Placed, InCall, Keeps
<1>5. Resolved(r, t, i)
  BY DEF Placed, Resolved, Keeps, IsIndex, Uncertain
<1> QED
  BY <1>1, <1>2, <1>3, <1>4, <1>5 DEF Placed

LEMMA Moves ==
    ASSUME \A v \in Worker : Placed(work[v], snapshots, journal), NEW w \in Worker, NEW r,
           Becomes(w, r), Keeps(snapshots, snapshots', journal, journal'),
           Placed(r, snapshots', journal')
    PROVE  \A v \in Worker : Placed(work'[v], snapshots', journal')
<1> SUFFICES ASSUME NEW v \in Worker PROVE Placed(work'[v], snapshots', journal')
  OBVIOUS
<1>1. CASE v = w
  BY <1>1 DEF Becomes
<1>2. CASE v # w
  <2>1. work'[v] = work[v]
    BY <1>2 DEF Becomes
  <2> QED
    BY <2>1, PlacedStable
<1> QED
  BY <1>1, <1>2

LEMMA KeepsSame ==
    ASSUME UNCHANGED <<snapshots, journal>>
    PROVE  Keeps(snapshots, snapshots', journal, journal')
  BY DEF Keeps

LEMMA KeepsStored ==
    ASSUME NEW key \in Key, NEW row, Stored(key, row), UNCHANGED snapshots,
           row.status # "absent",
           journal[key].result # None => row.result = journal[key].result
    PROVE  Keeps(snapshots, snapshots', journal, journal')
  BY DEF Keeps, Stored

LEMMA KeepsSaved ==
    ASSUME NEW id, NEW manifest, SaveIndex(id, manifest), UNCHANGED journal
    PROVE  /\ Keeps(snapshots, snapshots', journal, journal')
           /\ DOMAIN snapshots' = DOMAIN snapshots \cup {id}
           /\ snapshots'[id] = manifest
  BY DEF Keeps, SaveIndex, Known

-----------------------------------------------------------------------------
\* Where an operation may go from where it is.

LEMMA PlacedIdle ==
    ASSUME NEW s, NEW j
    PROVE  Placed(Idle, s, j)
<1>1. Idle = Rec("idle", 0, None, <<0, 0>>, None, {})
  BY DEF Idle, Rec
<1>2. /\ Idle.pc = "idle" /\ Idle.at = 0 /\ Idle.base = None /\ Idle.seen = <<0, 0>> /\ IsRec(Idle)
  BY <1>1, Fields
<1>3. <<0, 0>> \in (0 .. 5) \X Nat
  OBVIOUS
<1> QED
  BY <1>2, <1>3 DEF Placed, Seen, InProgram, AtEnd, InCall, Walking, Resolved, Label, Executing,
                    Calling, Finishing

\* On to the next operation of the program.
LEMMA PlacedProceed ==
    ASSUME NEW r, NEW s, NEW j, NEW owned, Placed(r, s, j), r.pc \in Executing,
           OpOf(r).op \in Tool => j[KeyAt(r)].result # None
    PROVE  Placed(Rec(IF r.at = Len(Program(TaskOf(r))) THEN "renew" ELSE "op", r.at + 1, r.base,
                      r.seen, None, owned), s, j)
<1> DEFINE pc == IF r.at = Len(Program(TaskOf(r))) THEN "renew" ELSE "op"
           q == Rec(pc, r.at + 1, r.base, r.seen, None, owned)
<1>1. /\ Seen(r) /\ r.seen[1] < 5 /\ r.at \in DOMAIN Program(TaskOf(r)) /\ Answered(r, j)
      /\ r.base \in DOMAIN s /\ r.at \in Nat
  BY DEF Placed, InProgram, Seen
<1>2. /\ q.pc = pc /\ q.at = r.at + 1 /\ q.base = r.base /\ q.seen = r.seen /\ q.local = None
      /\ IsRec(q)
  BY Fields
<1>3. TaskOf(q) = TaskOf(r) /\ TaskOf(r) \in Tasks
  BY <1>1, <1>2, TaskOfType DEF TaskOf
<1>4. Passed(q) = Passed(r) \cup {OpOf(r)}
  BY <1>1, <1>2, <1>3, BeforeNext DEF Passed, OpOf
<1>5. Answered(q, j)
  BY <1>1, <1>3, <1>4 DEF Answered, KeyAt
<1>6. /\ DOMAIN Program(TaskOf(r)) = 1 .. Len(Program(TaskOf(r)))
      /\ Len(Program(TaskOf(r))) \in Nat
  BY <1>3, ProgramOrder
<1> HIDE DEF q
<1>7. /\ q.pc \in {"renew", "op"} /\ q.pc \notin Calling /\ q.pc # "verify"
      /\ q.pc = "renew" => q.at = Len(Program(TaskOf(q))) + 1
      /\ q.pc = "op" => q.at \in DOMAIN Program(TaskOf(q))
  <2>1. CASE r.at = Len(Program(TaskOf(r)))
    BY <1>2, <1>3, <2>1 DEF Calling
  <2>2. CASE r.at # Len(Program(TaskOf(r)))
    BY <1>1, <1>2, <1>3, <1>6, <2>2 DEF Calling
  <2> QED
    BY <2>1, <2>2
<1> HIDE DEF pc
<1>8. Seen(q)
  BY <1>1, <1>2, <1>7 DEF Seen, Label, Executing, Finishing
<1>9. InProgram(q, s, j)
  BY <1>1, <1>2, <1>5, <1>7 DEF InProgram, Executing, Calling
<1>10. AtEnd(q, j)
  BY <1>1, <1>2, <1>5, <1>7 DEF AtEnd, Finishing
<1>11. InCall(q, j) /\ Walking(q)
  BY <1>7 DEF InCall, Walking, Calling
<1>12. Resolved(q, s, j)
  BY <1>1, <1>2, <1>7 DEF Resolved
<1> QED
  BY <1>8, <1>9, <1>10, <1>11, <1>12 DEF q, pc, Placed

\* The outcome of an attempt is a failure.
LEMMA PlacedFails ==
    ASSUME NEW r, NEW s, NEW j, Placed(r, s, j), r.pc \in Executing
    PROVE  Placed(Rec("renew", r.at, r.base, r.seen, "failed", r.owned), s, j)
<1> DEFINE q == Rec("renew", r.at, r.base, r.seen, "failed", r.owned)
<1>1. /\ q.pc = "renew" /\ q.at = r.at /\ q.base = r.base /\ q.seen = r.seen
      /\ q.local = "failed" /\ IsRec(q)
  BY Fields
<1> HIDE DEF q
<1>2. Placed(q, s, j)
  BY <1>1 DEF Placed, Seen, InProgram, AtEnd, InCall, Walking, Resolved, Label, Executing,
              Calling, Finishing
<1> QED
  BY <1>2 DEF q

\* Within the execution of an operation.
LEMMA PlacedWithin ==
    ASSUME NEW r, NEW s, NEW j, Placed(r, s, j), r.pc \in Executing,
           NEW pc \in Executing, NEW local,
           pc \in Calling => OpOf(r).op \in Tool /\ j[KeyAt(r)].status # "absent",
           pc \in {"walk", "save"} => OpOf(r).op = "index",
           pc = "swap" => OpOf(r).op = "write",
           pc = "verify" => OpOf(r).op = "verify_run",
           pc = "record" => local \in Answer(OpOf(r).op),
           pc = "record" /\ OpOf(r).op = "index" => IsIndex(local, TaskOf(r), s),
           pc = "walk" => local \in Seq(Content) /\ Len(local) < NumPaths,
           pc = "save" => local \in Seq(Content) /\ Len(local) = NumPaths
    PROVE  Placed(Rec(pc, r.at, r.base, r.seen, local, r.owned), s, j)
<1> DEFINE q == Rec(pc, r.at, r.base, r.seen, local, r.owned)
<1>1. /\ q.pc = pc /\ q.at = r.at /\ q.base = r.base /\ q.seen = r.seen
      /\ q.local = local /\ IsRec(q)
  BY Fields
<1> HIDE DEF q
<1>2. TaskOf(q) = TaskOf(r) /\ OpOf(q) = OpOf(r)
  BY <1>1 DEF TaskOf, OpOf
<1>3. KeyAt(q) = KeyAt(r) /\ Passed(q) = Passed(r)
  BY <1>1, <1>2 DEF KeyAt, Passed
<1>4. Seen(q)
  BY <1>1 DEF Placed, Seen, Label
<1>5. InProgram(q, s, j)
  BY <1>1, <1>2, <1>3 DEF Placed, InProgram, Answered
<1>6. AtEnd(q, j)
  BY <1>1 DEF AtEnd, Executing, Calling, Finishing
<1>7. InCall(q, j)
  BY <1>1, <1>2, <1>3 DEF InCall
<1>8. Walking(q)
  BY <1>1 DEF Walking, Executing, Calling
<1>9. Resolved(q, s, j)
  BY <1>1, <1>2 DEF Placed, Resolved, Executing, Calling
<1>10. Placed(q, s, j)
  BY <1>4, <1>5, <1>6, <1>7, <1>8, <1>9 DEF Placed
<1> QED
  BY <1>10 DEF q

\* To a place outside a program.
LEMMA PlacedOutside ==
    ASSUME NEW s, NEW j, NEW pc \in Label \ (Executing \cup Finishing \cup {"fail"}),
           NEW at \in Nat, NEW base \in DOMAIN s \cup {None}, NEW seen \in (0 .. 5) \X Nat,
           NEW local, NEW owned,
           pc = "scan" => local \in Seq(Content) /\ Len(local) < NumPaths,
           pc = "compare" => local \in Seq(Content) /\ Len(local) = NumPaths,
           pc \in {"scan", "compare", "pin_resumed"} => base \in DOMAIN s,
           pc = "rebase" => local \in DOMAIN s,
           pc = "reconcile" => Uncertain(local, j)
    PROVE  Placed(Rec(pc, at, base, seen, local, owned), s, j)
<1> DEFINE q == Rec(pc, at, base, seen, local, owned)
<1>1. /\ q.pc = pc /\ q.at = at /\ q.base = base /\ q.seen = seen
      /\ q.local = local /\ IsRec(q)
  BY Fields
<1> HIDE DEF q
<1>2. pc \notin Executing /\ pc \notin Finishing /\ pc # "fail" /\ pc \in Label
  OBVIOUS
<1>3. Seen(q) /\ InProgram(q, s, j) /\ AtEnd(q, j) /\ InCall(q, j)
  BY <1>1, <1>2 DEF Seen, InProgram, AtEnd, InCall, Executing, Calling
<1>4. Walking(q) /\ Resolved(q, s, j)
  BY <1>1, <1>2 DEF Walking, Resolved, Executing, Calling, Finishing
<1>5. Placed(q, s, j)
  BY <1>3, <1>4 DEF Placed
<1> QED
  BY <1>5 DEF q

-----------------------------------------------------------------------------
\* The steps of a program keep the places.

Status == {"absent", "RUNNING", "SUCCEEDED", "FAILED", "NEEDS_REVIEW"}

LEMMA ExecuteProgress ==
    ASSUME Progress, NEW w \in Worker, NEW r, Becomes(w, r), work[w].pc \in Executing,
           r.pc \in Executing \cup {"renew"}, r.seen = work[w].seen,
           UNCHANGED <<done, open, run, fresh>>
    PROVE  Progress'
<1>1. \A v \in Worker : Ahead(v, work'[v], done, open)
  <2> SUFFICES ASSUME NEW v \in Worker PROVE Ahead(v, work'[v], done, open)
    OBVIOUS
  <2>1. CASE v # w
    BY <2>1 DEF Becomes, Progress
  <2>2. CASE v = w
    <3>1. work'[v] = r /\ Ahead(w, work[w], done, open)
      BY <2>2 DEF Becomes, Progress
    <3> QED
      BY <2>2, <3>1 DEF Ahead, Executing, Calling, Reporting
  <2> QED
    BY <2>1, <2>2
<1>2. \A v \in Worker : work'[v].pc \in Reporting => v # w /\ work'[v] = work[v]
  BY DEF Becomes, Executing, Calling, Reporting
<1> QED
  BY <1>1, <1>2 DEF Progress

LEMMA ExecutePlaces ==
    ASSUME PlaceInv, NEW w \in Worker, NEW r, Becomes(w, r), work[w].pc \in Executing,
           r.pc \in Executing \cup {"renew"}, r.seen = work[w].seen,
           UNCHANGED <<rowVars, leaseVars, reports>>,
           Keeps(snapshots, snapshots', journal, journal'), Placed(r, snapshots', journal'),
           TypeOK', JournalRows(journal', snapshots'), IsFiniteSet(DOMAIN snapshots')
    PROVE  PlaceInv'
<1>1. Progress'
  BY ExecuteProgress DEF PlaceInv, rowVars, leaseVars
<1>2. Rows'
  BY DEF PlaceInv, Rows, Becomes, Keeps, rowVars
<1>3. \A v \in Worker : Placed(work'[v], snapshots', journal')
  BY Moves DEF PlaceInv
<1> QED
  BY <1>1, <1>2, <1>3 DEF PlaceInv

LEMMA ShapedWork ==
    ASSUME PlaceInv, NEW w \in Worker
    PROVE  /\ Shaped(w) /\ Placed(work[w], snapshots, journal) /\ Seen(work[w])
           /\ Task(w) = TaskOf(work[w]) /\ Current(w) = OpOf(work[w]) /\ KeyOf(w) = KeyAt(work[w])
           /\ TypeOK /\ Rows /\ JournalRows(journal, snapshots)
  BY DEF PlaceInv, Rows, Placed, Seen, Shaped, Task, TaskOf, Current, OpOf, KeyOf, KeyAt, KeyFor

LEMMA RunningKey ==
    ASSUME PlaceInv, NEW w \in Worker, work[w].pc \in Executing
    PROVE  LET r == work[w] IN
           /\ r.seen[1] < 5 /\ TaskOf(r) \in Tasks /\ r.at \in DOMAIN Program(TaskOf(r))
           /\ r.base \in DOMAIN snapshots /\ Answered(r, journal)
           /\ Ordered(TaskOf(r), r.at) /\ (OpOf(r).op \in Tool => KeyAt(r) \in Key)
           /\ KeyAt(r)[1] = TaskOf(r) /\ KeyAt(r)[2] = OpOf(r).op /\ KeyAt(r)[3] = OpOf(r).path
<1> DEFINE r == work[w]
<1>1. Placed(r, snapshots, journal) /\ Seen(r)
  BY ShapedWork
<1> HIDE DEF r
<1>2. /\ r.seen[1] < 5 /\ r.at \in DOMAIN Program(TaskOf(r))
      /\ r.base \in DOMAIN snapshots /\ Answered(r, journal)
  BY <1>1 DEF Placed, InProgram, r
<1>3. TaskOf(r) \in Tasks
  BY <1>1, <1>2, TaskOfType
<1>4. /\ Ordered(TaskOf(r), r.at) /\ (OpOf(r).op \in Tool => KeyAt(r) \in Key)
      /\ KeyAt(r) = <<TaskOf(r), OpOf(r).op, OpOf(r).path>>
  BY <1>1, <1>2, KeyAtType
<1> QED
  BY <1>2, <1>3, <1>4 DEF r

\* A tool that was passed has an answer of its kind.
LEMMA PassedAnswer ==
    ASSUME PlaceInv, NEW w \in Worker, work[w].pc \in Executing, NEW o \in Passed(work[w]),
           o.op \in Tool
    PROVE  /\ KeyFor(Task(w), o) \in Key /\ journal[KeyFor(Task(w), o)].result # None
           /\ journal[KeyFor(Task(w), o)].result \in Answer(o.op)
           /\ o.op = "index" => IsIndex(journal[KeyFor(Task(w), o)].result, Task(w), snapshots)
<1> DEFINE k == KeyFor(Task(w), o)
<1>1. Task(w) = TaskOf(work[w]) /\ Seen(work[w]) /\ TypeOK /\ JournalRows(journal, snapshots)
  BY ShapedWork
<1>2. k \in Key
  BY <1>1, RunningKey, PassedKeys
<1>3. journal[k].result # None
  BY <1>1, RunningKey DEF Answered
<1>4. k[1] = Task(w) /\ k[2] = o.op
  BY DEF KeyFor
<1> HIDE DEF k
<1>5. journal[k].result \in Answer(k[2])
  BY <1>1, <1>2, <1>3 DEF TypeOK
<1>6. k[2] = "index" => IsIndex(journal[k].result, k[1], snapshots)
  BY <1>1, <1>2, <1>3 DEF JournalRows
<1> QED
  BY <1>2, <1>3, <1>4, <1>5, <1>6 DEF k

LEMMA TransformType ==
    ASSUME NEW c \in Content
    PROVE  Transform(c) \in Content /\ Transform(c).edition = c.edition
  BY DEF Transform, Content

LEMMA RedactType ==
    ASSUME NEW c \in Content, NEW p
    PROVE  Redact(p, c) \in Content /\ Redact(p, c).edition = c.edition
<1>1. CASE p \in Sensitive
  BY <1>1 DEF Redact, Content
<1>2. CASE p \notin Sensitive
  BY <1>2 DEF Redact
<1> QED
  BY <1>1, <1>2

LEMMA GoneType == Gone \in Content /\ Gone.edition = 0
  BY DEF Gone, Edition, Content

LEMMA EditionType ==
    ASSUME NEW n \in Nat, NEW anchored \in BOOLEAN
    PROVE  Edition(n, anchored) \in Content /\ Edition(n, anchored).edition = n
  BY DEF Edition, Content

LEMMA IndexType ==
    ASSUME NEW found, NEW previous \in Manifest, \A p \in Path : found[p] \in Content
    PROVE  Index(found, previous) \in Manifest
<1>1. ASSUME NEW p \in Path PROVE Index(found, previous)[p] \in Entry
  BY GoneType DEF Index, Manifest, Entry, NoEntry
<1> QED
  BY <1>1 DEF Index, Manifest

\* Every call has arguments of its kind.
LEMMA ArgumentsType ==
    ASSUME PlaceInv, NEW w \in Worker, work[w].pc \in Executing, Current(w).op \in Tool
    PROVE  Arguments(w) \in Input(Current(w).op)
<1> DEFINE r == work[w]
           o == Current(w)
<1>1. /\ Task(w) = TaskOf(r) /\ o = OpOf(r) /\ TypeOK
      /\ TaskOf(r) \in Tasks /\ r.base \in DOMAIN snapshots
      /\ Ordered(TaskOf(r), r.at)
  BY ShapedWork, RunningKey
<1>2. ASSUME Op("index") \in Passed(r)
      PROVE  Result(w, "index", 0) \in DOMAIN snapshots
  BY <1>2, PassedAnswer DEF Op, Result, KeyFor, Tool, IsIndex
<1>3. o.op \in {"artifact", "search"} => Op("index") \in Passed(r) \/ TaskOf(r) = "research_constraints"
  BY <1>1 DEF Ordered, Passed, OpOf
<1>4. CASE o.op = "index"
  BY <1>1, <1>4 DEF Arguments, Input, TypeOK
<1>5. CASE o.op = "search"
  <2>1. Arguments(w) \in DOMAIN snapshots
    BY <1>1, <1>2, <1>3, <1>5 DEF Arguments
  <2> QED
    BY <1>1, <1>5, <2>1 DEF Input, TypeOK
<1>6. CASE o.op = "artifact"
  <2>1. TaskOf(r) = "inspect_repository" /\ Op("index") \in Passed(r)
    BY <1>1, <1>6 DEF Ordered, Passed, OpOf
  <2>2. Arguments(w) = snapshots[Result(w, "index", 0)]
    BY <1>1, <1>6, <2>1 DEF Arguments, IndexOf
  <2> QED
    BY <1>1, <1>2, <1>6, <2>1, <2>2 DEF Input, TypeOK
<1>7. CASE o.op = "write"
  <2>1. FileOp("read", o.path) \in Passed(r)
    BY <1>1, <1>7 DEF Ordered, Passed, OpOf
  <2>2. Result(w, "read", o.path) \in Answer("read")
    BY <2>1, PassedAnswer DEF FileOp, Result, KeyFor, Tool
  <2>3. Result(w, "read", o.path).content \in Content /\ Result(w, "read", o.path).hash \in Content
    BY <2>2 DEF Answer
  <2>4. NewContent(w, o.path) \in Content
    BY <2>3, TransformType DEF NewContent
  <2>5. Arguments(w) = [content |-> NewContent(w, o.path), expected |-> Result(w, "read", o.path).hash]
    BY <1>7 DEF Arguments
  <2> QED
    BY <1>7, <2>3, <2>4, <2>5 DEF Input
<1>8. CASE o.op \in {"read", "test"}
  BY <1>8 DEF Arguments, Input
<1> QED
  BY <1>4, <1>5, <1>6, <1>7, <1>8 DEF Tool

LEMMA TypeSame ==
    ASSUME TypeOK, UNCHANGED <<workspaceVars, journal, rowVars, leaseVars>>
    PROVE  TypeOK'
  BY DEF TypeOK, workspaceVars, repositoryVars, ledgerVars, artifactVars, rowVars, leaseVars

\* A row of the journal is replaced by one of its kind.
LEMMA TypeStored ==
    ASSUME TypeOK, JournalRows(journal, snapshots), NEW key \in Key, NEW row,
           Stored(key, row), IsRow(row), row.status \in Status \ {"absent"},
           row.args \in Input(key[2]),
           row.result # None => /\ row.result \in Answer(key[2])
                                /\ key[2] = "index" => IsIndex(row.result, key[1], snapshots),
           UNCHANGED <<workspaceVars, rowVars, leaseVars>>
    PROVE  TypeOK' /\ JournalRows(journal', snapshots')
<1>1. \A k \in Key : journal'[k] = IF k = key THEN row ELSE journal[k]
  BY DEF Stored
<1>2. \A k \in Key :
         /\ journal'[k].status \in Status
         /\ journal'[k].status # "absent" => journal'[k].args \in Input(k[2])
         /\ journal'[k].result # None => journal'[k].result \in Answer(k[2])
  BY <1>1 DEF TypeOK, Status
<1>3. TypeOK'
  BY <1>2 DEF TypeOK, Status, workspaceVars, repositoryVars, ledgerVars, artifactVars, rowVars,
              leaseVars
<1>4. UNCHANGED snapshots
  BY DEF workspaceVars
<1> QED
  BY <1>1, <1>3, <1>4 DEF JournalRows, Stored

\* What an operation does when it proceeds, fails or goes on within its program: the
\* premises of ExecutePlaces for each.
LEMMA ProceedPlaces ==
    ASSUME PlaceInv, NEW w \in Worker, work[w].pc \in Executing, NEW records,
           ProceedWith(w, records),
           UNCHANGED <<rowVars, leaseVars, reports>>,
           Keeps(snapshots, snapshots', journal, journal'),
           Current(w).op \in Tool => journal'[KeyOf(w)].result # None,
           TypeOK', JournalRows(journal', snapshots'), IsFiniteSet(DOMAIN snapshots')
    PROVE  PlaceInv'
<1> DEFINE r == work[w]
           q == Rec(IF r.at = Len(Program(TaskOf(r))) THEN "renew" ELSE "op",
                    r.at + 1, r.base, r.seen, None, r.owned \cup records)
<1>1. /\ Shaped(w) /\ Placed(r, snapshots, journal) /\ Task(w) = TaskOf(r)
      /\ Current(w) = OpOf(r) /\ KeyOf(w) = KeyAt(r)
  BY ShapedWork
<1>2. Becomes(w, q)
  BY <1>1, ProceedEffect
<1>3. Placed(r, snapshots', journal')
  BY <1>1, PlacedStable
<1>4. Placed(q, snapshots', journal')
  BY <1>1, <1>3, PlacedProceed
<1>5. q.pc \in {"renew", "op"} /\ q.seen = r.seen
  BY Fields
<1> HIDE DEF q
<1> QED
  BY <1>2, <1>4, <1>5, ExecutePlaces DEF Executing

LEMMA FailsPlaces ==
    ASSUME PlaceInv, NEW w \in Worker, work[w].pc \in Executing, Fails(w),
           UNCHANGED <<rowVars, leaseVars, reports, snapshots>>,
           Keeps(snapshots, snapshots', journal, journal'),
           TypeOK', JournalRows(journal', snapshots')
    PROVE  PlaceInv'
<1> DEFINE r == work[w]
           q == Rec("renew", r.at, r.base, r.seen, "failed", r.owned)
<1>1. Shaped(w) /\ Placed(r, snapshots, journal) /\ Rows
  BY ShapedWork
<1>2. Becomes(w, q)
  BY <1>1, GotoWithEffect DEF Fails
<1>3. Placed(q, snapshots', journal')
  BY <1>1, PlacedStable, PlacedFails
<1>4. q.pc = "renew" /\ q.seen = r.seen
  BY Fields
<1>5. IsFiniteSet(DOMAIN snapshots')
  BY <1>1 DEF Rows
<1> HIDE DEF q
<1> QED
  BY <1>2, <1>3, <1>4, <1>5, ExecutePlaces

LEMMA WithinPlaces ==
    ASSUME PlaceInv, NEW w \in Worker, work[w].pc \in Executing,
           NEW pc \in Executing, NEW local,
           Becomes(w, Rec(pc, work[w].at, work[w].base, work[w].seen, local, work[w].owned)),
           UNCHANGED <<rowVars, leaseVars, reports>>,
           Keeps(snapshots, snapshots', journal, journal'),
           TypeOK', JournalRows(journal', snapshots'), IsFiniteSet(DOMAIN snapshots'),
           pc \in Calling => Current(w).op \in Tool /\ journal'[KeyOf(w)].status # "absent",
           pc \in {"walk", "save"} => Current(w).op = "index",
           pc = "swap" => Current(w).op = "write",
           pc = "verify" => Current(w).op = "verify_run",
           pc = "record" => local \in Answer(Current(w).op),
           pc = "record" /\ Current(w).op = "index" => IsIndex(local, Task(w), snapshots'),
           pc = "walk" => local \in Seq(Content) /\ Len(local) < NumPaths,
           pc = "save" => local \in Seq(Content) /\ Len(local) = NumPaths
    PROVE  PlaceInv'
<1> DEFINE r == work[w]
           q == Rec(pc, r.at, r.base, r.seen, local, r.owned)
<1>1. /\ Placed(r, snapshots, journal) /\ Current(w) = OpOf(r) /\ KeyOf(w) = KeyAt(r)
      /\ Task(w) = TaskOf(r)
  BY ShapedWork
<1>2. Placed(r, snapshots', journal')
  BY <1>1, PlacedStable
<1>3. Placed(q, snapshots', journal')
  BY <1>1, <1>2, PlacedWithin
<1>4. q.pc = pc /\ q.seen = r.seen
  BY Fields
<1> HIDE DEF q
<1>5. Becomes(w, q)
  BY DEF q
<1> QED
  BY <1>3, <1>4, <1>5, ExecutePlaces

LEMMA ActLabel == "act" \in Executing /\ "act" \in Calling
  BY DEF Executing, Calling

LEMMA CallToolPlaces ==
    ASSUME PlaceInv, NEW w \in Worker, CallTool(w)
    PROVE  PlaceInv'
<1> DEFINE r == work[w]
           row == journal[KeyOf(w)]
           fits == row.args = Arguments(w)
           retry == row.status = "FAILED" /\ Current(w).op \in RetrySafe
<1>1. /\ r.pc = "op" /\ r.pc \in Executing /\ Current(w).op \in Tool
      /\ UNCHANGED <<workspaceVars, rowVars, leaseVars>>
  BY DEF CallTool, Executing
<1>2. /\ Shaped(w) /\ Current(w) = OpOf(r) /\ KeyOf(w) = KeyAt(r) /\ TypeOK /\ Rows
      /\ JournalRows(journal, snapshots)
  BY ShapedWork
<1>3. KeyOf(w) \in Key /\ KeyOf(w)[2] = Current(w).op
  BY <1>1, <1>2, RunningKey
<1>4. UNCHANGED <<reports, snapshots>> /\ IsFiniteSet(DOMAIN snapshots')
  BY <1>1, <1>2 DEF workspaceVars, ledgerVars, Rows
<1>5. ASSUME row.result = None, SetCall(KeyOf(w), Intent(w)), Goto(w, "act")
      PROVE  PlaceInv'
  <2>1. Intent(w) = Row("RUNNING", Arguments(w), None)
    BY DEF Intent, Row
  <2>2. Stored(KeyOf(w), Intent(w))
    BY <1>2, <1>3, <1>5, SetCallEffect DEF JournalRows
  <2>3. /\ Intent(w).status = "RUNNING" /\ Intent(w).args = Arguments(w) /\ Intent(w).result = None
        /\ IsRow(Intent(w))
    BY <2>1, RowFields
  <2>4. Arguments(w) \in Input(Current(w).op)
    BY <1>1, ArgumentsType
  <2>5. TypeOK' /\ JournalRows(journal', snapshots')
    BY <1>1, <1>2, <1>3, <2>2, <2>3, <2>4, TypeStored DEF Status
  <2>6. Keeps(snapshots, snapshots', journal, journal')
    BY <1>3, <1>4, <1>5, <2>2, <2>3, KeepsStored
  <2>7. Becomes(w, Rec("act", r.at, r.base, r.seen, r.local, r.owned))
    BY <1>2, <1>5, GotoEffect
  <2>8. journal'[KeyOf(w)].status # "absent"
    BY <2>2, <2>3 DEF Stored
  <2> QED
    BY <1>1, <1>4, <2>5, <2>6, <2>7, <2>8, ActLabel, WithinPlaces
<1>6. ASSUME UNCHANGED journal PROVE TypeOK' /\ JournalRows(journal', snapshots')
  BY <1>1, <1>2, <1>4, <1>6, TypeSame
<1>7. ASSUME row.result # None, Proceed(w), UNCHANGED journal
      PROVE  PlaceInv'
  <2>1. ProceedWith(w, {})
    BY <1>7 DEF Proceed
  <2> QED
    BY <1>1, <1>4, <1>6, <1>7, <2>1, KeepsSame, ProceedPlaces
<1>8. ASSUME Fails(w), UNCHANGED journal
      PROVE  PlaceInv'
  BY <1>1, <1>4, <1>6, <1>8, KeepsSame, FailsPlaces
<1>9. row.status = "absent" => row.result = None
  BY <1>2, <1>3 DEF JournalRows
<1> QED
  BY <1>5, <1>7, <1>8, <1>9 DEF CallTool

LEMMA ToolRaisesPlaces ==
    ASSUME PlaceInv, NEW w \in Worker, ToolRaises(w)
    PROVE  PlaceInv'
<1> DEFINE r == work[w]
           row == journal[KeyOf(w)]
           new == [row EXCEPT !.status = "FAILED"]
<1>1. /\ r.pc \in Calling /\ r.pc \in Executing /\ SetCall(KeyOf(w), new) /\ Fails(w)
      /\ UNCHANGED <<workspaceVars, rowVars, leaseVars>>
  BY DEF ToolRaises, Executing, Calling
<1>2. /\ Shaped(w) /\ Current(w) = OpOf(r) /\ KeyOf(w) = KeyAt(r) /\ TypeOK
      /\ JournalRows(journal, snapshots) /\ Placed(r, snapshots, journal)
  BY ShapedWork
<1>3. KeyOf(w) \in Key /\ row.status # "absent" /\ IsRow(row)
  BY <1>1, <1>2, RunningKey DEF Placed, InCall, JournalRows
<1>4. new.status = "FAILED" /\ new.args = row.args /\ new.result = row.result /\ IsRow(new)
  BY <1>3, RowStatus, RowFields
<1> HIDE DEF new
<1>5. Stored(KeyOf(w), new)
  BY <1>1, <1>2, <1>3, SetCallEffect DEF JournalRows
<1>6. TypeOK' /\ JournalRows(journal', snapshots')
  <2>1. row.args \in Input(KeyOf(w)[2])
    BY <1>2, <1>3 DEF TypeOK
  <2>2. row.result # None => /\ row.result \in Answer(KeyOf(w)[2])
                             /\ KeyOf(w)[2] = "index" => IsIndex(row.result, KeyOf(w)[1], snapshots)
    BY <1>2, <1>3 DEF TypeOK, JournalRows
  <2> QED
    BY <1>1, <1>2, <1>3, <1>4, <1>5, <2>1, <2>2, TypeStored DEF Status
<1>7. UNCHANGED <<reports, snapshots>>
  BY <1>1 DEF workspaceVars, ledgerVars
<1>8. Keeps(snapshots, snapshots', journal, journal')
  BY <1>3, <1>4, <1>5, <1>7, KeepsStored
<1> QED
  BY <1>1, <1>6, <1>7, <1>8, FailsPlaces

LEMMA RecordResultPlaces ==
    ASSUME PlaceInv, NEW w \in Worker, RecordResult(w)
    PROVE  PlaceInv'
<1> DEFINE r == work[w]
           row == journal[KeyOf(w)]
           new == [row EXCEPT !.status = "SUCCEEDED", !.result = r.local]
<1>1. /\ r.pc = "record" /\ r.pc \in Calling /\ r.pc \in Executing
      /\ UNCHANGED <<workspaceVars, rowVars, leaseVars>>
  BY DEF RecordResult, Executing, Calling
<1>2. /\ Shaped(w) /\ Current(w) = OpOf(r) /\ KeyOf(w) = KeyAt(r) /\ TypeOK /\ Rows
      /\ JournalRows(journal, snapshots) /\ Placed(r, snapshots, journal)
  BY ShapedWork
<1>3. /\ KeyOf(w) \in Key /\ row.status # "absent" /\ IsRow(row) /\ KeyOf(w)[2] = Current(w).op
      /\ Current(w).op \in Tool /\ KeyOf(w)[1] = TaskOf(r)
  BY <1>1, <1>2, RunningKey DEF Placed, InCall, JournalRows
<1>4. /\ new.status = "SUCCEEDED" /\ new.args = row.args /\ new.result = r.local /\ IsRow(new)
  <2>1. Finished(row, r.local) = Row("SUCCEEDED", row.args, r.local)
    BY <1>3, RowResult
  <2>2. new = Finished(row, r.local)
    BY DEF Finished
  <2> HIDE DEF new
  <2> QED
    BY <2>1, <2>2, RowFields
<1>5. /\ r.local \in Answer(Current(w).op) /\ r.local # None
      /\ Current(w).op = "index" => IsIndex(r.local, KeyOf(w)[1], snapshots)
  <2>1. /\ r.local \in Answer(Current(w).op)
        /\ Current(w).op = "index" => IsIndex(r.local, KeyOf(w)[1], snapshots)
    BY <1>1, <1>2, <1>3 DEF Placed, InCall, Resolved
  <2> QED
    BY <1>3, <2>1, AnswerAssumption
<1>6. UNCHANGED <<reports, snapshots>> /\ IsFiniteSet(DOMAIN snapshots')
  BY <1>1, <1>2 DEF workspaceVars, ledgerVars, Rows
<1>7. ASSUME row.result = None, SetCall(KeyOf(w), new), Proceed(w)
      PROVE  PlaceInv'
  <2> HIDE DEF new
  <2>1. Stored(KeyOf(w), new)
    BY <1>2, <1>3, <1>7, SetCallEffect DEF JournalRows
  <2>2. row.args \in Input(KeyOf(w)[2])
    BY <1>2, <1>3 DEF TypeOK
  <2>3. TypeOK' /\ JournalRows(journal', snapshots')
    BY <1>1, <1>2, <1>3, <1>4, <1>5, <2>1, <2>2, TypeStored DEF Status
  <2>4. Keeps(snapshots, snapshots', journal, journal')
    BY <1>3, <1>4, <1>6, <1>7, <2>1, KeepsStored
  <2>5. journal'[KeyOf(w)].result # None
    BY <1>4, <1>5, <2>1 DEF Stored
  <2>6. ProceedWith(w, {})
    BY <1>7 DEF Proceed
  <2> QED
    BY <1>1, <1>6, <2>3, <2>4, <2>5, <2>6, ProceedPlaces
<1>8. ASSUME Fails(w), UNCHANGED journal
      PROVE  PlaceInv'
  <2>1. TypeOK' /\ JournalRows(journal', snapshots')
    BY <1>1, <1>2, <1>6, <1>8, TypeSame
  <2> QED
    BY <1>1, <1>6, <1>8, <2>1, KeepsSame, FailsPlaces
<1> QED
  BY <1>7, <1>8 DEF RecordResult

\* A tool returns: nothing but the operation changes.
LEMMA ReturnsPlaces ==
    ASSUME PlaceInv, NEW w \in Worker, work[w].pc \in Calling, NEW output,
           Returns(w, output), UNCHANGED <<journal, rowVars, leaseVars, reports>>,
           Keeps(snapshots, snapshots', journal, journal'),
           TypeOK', JournalRows(journal', snapshots'), IsFiniteSet(DOMAIN snapshots'),
           output \in Answer(Current(w).op),
           Current(w).op = "index" => IsIndex(output, Task(w), snapshots')
    PROVE  PlaceInv'
<1> DEFINE r == work[w]
<1>1. /\ Shaped(w) /\ Current(w) = OpOf(r) /\ KeyOf(w) = KeyAt(r) /\ Placed(r, snapshots, journal)
  BY ShapedWork
<1>2. r.pc \in Executing /\ "record" \in Executing /\ "record" \in Calling
  BY DEF Executing, Calling
<1>3. Current(w).op \in Tool /\ journal'[KeyOf(w)].status # "absent"
  BY <1>1 DEF Placed, InCall
<1>4. Becomes(w, Rec("record", r.at, r.base, r.seen, output, r.owned))
  BY <1>1, GotoWithEffect DEF Returns
<1> QED
  BY <1>2, <1>3, <1>4, WithinPlaces

\* Nothing but the operation changes.
LEMMA QuietTables ==
    ASSUME PlaceInv, UNCHANGED <<workspaceVars, journal, rowVars, leaseVars>>
    PROVE  /\ TypeOK' /\ JournalRows(journal', snapshots') /\ IsFiniteSet(DOMAIN snapshots')
           /\ Keeps(snapshots, snapshots', journal, journal')
           /\ UNCHANGED <<journal, rowVars, leaseVars, reports, snapshots>>
<1>1. UNCHANGED <<journal, rowVars, leaseVars, reports, snapshots>>
  BY DEF workspaceVars, ledgerVars
<1>2. TypeOK'
  BY TypeSame DEF PlaceInv
<1> QED
  BY <1>1, <1>2, KeepsSame DEF PlaceInv, Rows

LEMMA AtToolFacts ==
    ASSUME PlaceInv, NEW w \in Worker, NEW tool \in Tool, AtTool(w, tool)
    PROVE  /\ work[w].pc = "act" /\ work[w].pc \in Calling /\ work[w].pc \in Executing
           /\ Current(w).op = tool /\ KeyOf(w) \in Key /\ KeyOf(w)[2] = tool
           /\ KeyOf(w)[1] = Task(w) /\ KeyOf(w)[3] = Current(w).path
           /\ journal[KeyOf(w)].status # "absent" /\ journal[KeyOf(w)].args \in Input(tool)
           /\ Ordered(Task(w), work[w].at) /\ Current(w) = Program(Task(w))[work[w].at]
<1>1. work[w].pc = "act" /\ Current(w).op = tool /\ work[w].pc \in Calling /\ work[w].pc \in Executing
  BY DEF AtTool, Calling, Executing
<1>2. /\ Current(w) = OpOf(work[w]) /\ KeyOf(w) = KeyAt(work[w]) /\ Task(w) = TaskOf(work[w])
      /\ TypeOK /\ Placed(work[w], snapshots, journal)
  BY ShapedWork
<1>3. /\ KeyOf(w) \in Key /\ KeyOf(w)[2] = tool /\ Ordered(Task(w), work[w].at)
      /\ KeyOf(w)[1] = Task(w) /\ KeyOf(w)[3] = Current(w).path
  BY <1>1, <1>2, RunningKey
<1>4. journal[KeyOf(w)].status # "absent"
  BY <1>1, <1>2 DEF Placed, InCall
<1>5. journal[KeyOf(w)].args \in Input(tool)
  BY <1>2, <1>3, <1>4 DEF TypeOK
<1> QED
  BY <1>1, <1>2, <1>3, <1>4, <1>5 DEF OpOf

LEMMA ReadFilePlaces ==
    ASSUME PlaceInv, NEW w \in Worker, ReadFile(w)
    PROVE  PlaceInv'
<1> DEFINE p == Current(w).path
           output == [content |-> Redact(p, files[p]), hash |-> files[p]]
<1>1. /\ AtTool(w, "read") /\ Returns(w, output)
      /\ UNCHANGED <<workspaceVars, journal, rowVars, leaseVars>>
  BY DEF ReadFile
<1>2. /\ work[w].pc \in Calling /\ Current(w).op = "read" /\ Ordered(Task(w), work[w].at)
      /\ Current(w) = Program(Task(w))[work[w].at]
  BY <1>1, AtToolFacts DEF Tool
<1>3. p \in Path
  BY <1>2 DEF Ordered
<1>4. files[p] \in Content
  BY <1>3 DEF PlaceInv, TypeOK
<1>5. output \in Answer("read")
  BY <1>4, RedactType DEF Answer
<1> HIDE DEF output
<1> QED
  BY <1>1, <1>2, <1>5, QuietTables, ReturnsPlaces

LEMMA CompareFilePlaces ==
    ASSUME PlaceInv, NEW w \in Worker, CompareFile(w)
    PROVE  PlaceInv'
<1> DEFINE r == work[w]
<1>1. /\ AtTool(w, "write") /\ (Goto(w, "swap") \/ Returns(w, "written"))
      /\ UNCHANGED <<workspaceVars, journal, rowVars, leaseVars>>
  BY DEF CompareFile
<1>2. /\ r.pc \in Calling /\ r.pc \in Executing /\ Current(w).op = "write"
      /\ journal[KeyOf(w)].status # "absent" /\ "swap" \in Executing /\ "write" \in Tool
  BY <1>1, AtToolFacts DEF Tool, Executing, Calling, CompareFile
<1>3. CASE Goto(w, "swap")
  <2>1. Becomes(w, Rec("swap", r.at, r.base, r.seen, r.local, r.owned))
    BY <1>3, ShapedWork, GotoEffect
  <2>2. journal' = journal
    BY <1>1 DEF CompareFile
  <2> QED
    BY <1>1, <1>2, <2>1, <2>2, QuietTables, WithinPlaces DEF CompareFile
<1>4. CASE Returns(w, "written")
  <2>1. "written" \in Answer("write")
    BY DEF Answer
  <2> QED
    BY <1>1, <1>2, <1>4, <2>1, QuietTables, ReturnsPlaces DEF CompareFile
<1> QED
  BY <1>1, <1>3, <1>4 DEF CompareFile

\* A file that is put is of the kind of files, and the history grows.
LEMMA PutType ==
    ASSUME TypeOK, NEW p \in Path, NEW content \in Content, Put(p, content)
    PROVE  /\ files' \in [Path -> Content] /\ held' \in [Path -> SUBSET Content]
           /\ files'[p] = content /\ held'[p] = held[p] \cup {content}
           /\ \A q \in Path : q # p => files'[q] = files[q] /\ held'[q] = held[q]
<1>1. files \in [Path -> Content] /\ held \in [Path -> SUBSET Content]
  BY DEF TypeOK
<1> QED
  BY <1>1 DEF Put

LEMMA ReplaceFileTypes ==
    ASSUME PlaceInv, NEW w \in Worker, ReplaceFile(w)
    PROVE  LET p == Current(w).path
               content == journal[KeyOf(w)].args.content IN
           /\ work[w].pc = "swap" /\ Current(w).op = "write" /\ p \in Path
           /\ KeyOf(w) = WriteKey(p) /\ KeyOf(w) \in Key /\ journal[KeyOf(w)].status # "absent"
           /\ content \in Content /\ Put(p, content)
           /\ written' \in [Path -> SUBSET Content] /\ written'[p] = written[p] \cup {content}
           /\ \A q \in Path : q # p => written'[q] = written[q]
<1> DEFINE p == Current(w).path
           content == journal[KeyOf(w)].args.content
<1>1. /\ work[w].pc = "swap" /\ Put(p, content)
      /\ written' = [written EXCEPT ![p] = @ \cup {content}]
  BY DEF ReplaceFile
<1>2. /\ Current(w) = OpOf(work[w]) /\ KeyOf(w) = KeyAt(work[w])
      /\ TypeOK /\ Placed(work[w], snapshots, journal)
  BY ShapedWork
<1>3. work[w].pc \in Executing
  BY <1>1 DEF Executing, Calling
<1>4. Current(w).op = "write" /\ journal[KeyOf(w)].status # "absent"
  BY <1>1, <1>2 DEF Placed, InCall, Calling
<1>5. /\ KeyOf(w) \in Key /\ KeyOf(w)[2] = "write" /\ KeyOf(w)[3] = p
  BY <1>2, <1>3, <1>4, RunningKey DEF Tool
<1>6. KeyOf(w)[1] = "implement_change" /\ p \in Path
  BY <1>5, KeyFacts
<1>7. KeyOf(w) = WriteKey(p)
  BY <1>5, <1>6, KeyShape DEF WriteKey
<1>8. content \in Content
  BY <1>2, <1>4, <1>5 DEF TypeOK, Input
<1>9. written \in [Path -> SUBSET Content]
  BY <1>2 DEF TypeOK
<1> HIDE DEF p, content
<1>10. /\ written' \in [Path -> SUBSET Content] /\ written'[p] = written[p] \cup {content}
       /\ \A q \in Path : q # p => written'[q] = written[q]
  BY <1>1, <1>6, <1>8, <1>9
<1> QED
  BY <1>1, <1>4, <1>5, <1>6, <1>7, <1>8, <1>10 DEF p, content

LEMMA ReplaceFilePlaces ==
    ASSUME PlaceInv, NEW w \in Worker, ReplaceFile(w)
    PROVE  PlaceInv'
<1>1. /\ Returns(w, "written") /\ UNCHANGED <<edits, snapshots, ledgerVars, artifactVars>>
      /\ UNCHANGED <<journal, rowVars, leaseVars>>
  BY DEF ReplaceFile
<1>2. /\ work[w].pc = "swap" /\ Current(w).op = "write" /\ written' \in [Path -> SUBSET Content]
  BY ReplaceFileTypes
<1>3. files' \in [Path -> Content] /\ held' \in [Path -> SUBSET Content]
  BY ReplaceFileTypes, PutType DEF PlaceInv
<1>4. TypeOK'
  BY <1>1, <1>2, <1>3 DEF PlaceInv, TypeOK, ledgerVars, artifactVars, rowVars, leaseVars
<1>5. UNCHANGED reports /\ JournalRows(journal', snapshots') /\ IsFiniteSet(DOMAIN snapshots')
  BY <1>1 DEF PlaceInv, Rows, ledgerVars
<1>6. "written" \in Answer("write") /\ work[w].pc \in Calling
  BY <1>2 DEF Answer, Calling
<1> QED
  BY <1>1, <1>2, <1>4, <1>5, <1>6, KeepsSame, ReturnsPlaces

LEMMA EmptyWalk == <<>> \in Seq(Content) /\ Len(<<>>) = 0 /\ Len(<<>>) < NumPaths
  BY PathType

LEMMA FindIndexPlaces ==
    ASSUME PlaceInv, NEW w \in Worker, FindIndex(w)
    PROVE  PlaceInv'
<1> DEFINE r == work[w]
           id == SnapshotOf(Task(w))
<1>1. /\ AtTool(w, "index") /\ UNCHANGED <<workspaceVars, journal, rowVars, leaseVars>>
  BY DEF FindIndex
<1>2. /\ r.pc \in Calling /\ r.pc \in Executing /\ Current(w).op = "index"
      /\ journal'[KeyOf(w)].status # "absent" /\ "walk" \in Executing /\ "index" \in Tool
  BY <1>1, AtToolFacts DEF Tool, Executing, Calling
<1>3. CASE Known(id) /\ Returns(w, id)
  <2>1. id \in Answer("index") /\ IsIndex(id, Task(w), snapshots')
    BY <1>1, <1>3 DEF IsIndex, Known, Answer, PlaceInv, TypeOK, workspaceVars
  <2> QED
    BY <1>1, <1>2, <1>3, <2>1, QuietTables, ReturnsPlaces
<1>4. CASE GotoWith(w, "walk", <<>>)
  <2>1. Becomes(w, Rec("walk", r.at, r.base, r.seen, <<>>, r.owned))
    BY <1>4, ShapedWork, GotoWithEffect
  <2> QED
    BY <1>1, <1>2, <2>1, EmptyWalk, QuietTables, WithinPlaces
<1> QED
  BY <1>3, <1>4 DEF FindIndex

\* One more file of a walk.
LEMMA WalkedType ==
    ASSUME TypeOK, NEW local \in Seq(Content), Len(local) < NumPaths
    PROVE  LET found == Append(local, files[Len(local) + 1]) IN
           /\ found \in Seq(Content) /\ Len(found) = Len(local) + 1 /\ Len(found) <= NumPaths
           /\ Len(local) \in Nat /\ (Len(local) + 1) \in Path
           /\ \A i \in 1 .. Len(found) : found[i] = IF i = Len(local) + 1 THEN files[i] ELSE local[i]
<1>1. Len(local) \in Nat /\ (Len(local) + 1) \in Path
  BY PathType DEF Path
<1>2. files[Len(local) + 1] \in Content
  BY <1>1 DEF TypeOK
<1> QED
  BY <1>1, <1>2, PathType

LEMMA WalkPlaces ==
    ASSUME PlaceInv, NEW w \in Worker, WalkFile(w), work[w].pc = "walk"
    PROVE  PlaceInv'
<1> DEFINE r == work[w]
           found == Append(r.local, files[Len(r.local) + 1])
           pc == IF Len(found) < NumPaths THEN "walk" ELSE "save"
<1>1. /\ GotoWith(w, pc, found) /\ UNCHANGED <<workspaceVars, journal, rowVars, leaseVars>>
  BY DEF WalkFile
<1>2. /\ Shaped(w) /\ Current(w) = OpOf(r) /\ KeyOf(w) = KeyAt(r) /\ Placed(r, snapshots, journal)
  BY ShapedWork
<1>3. /\ r.pc \in Executing /\ Current(w).op = "index" /\ "index" \in Tool
      /\ journal'[KeyOf(w)].status # "absent"
      /\ r.local \in Seq(Content) /\ Len(r.local) < NumPaths
  BY <1>1, <1>2 DEF Placed, InCall, Walking, Executing, Calling, Tool
<1>4. found \in Seq(Content) /\ Len(found) <= NumPaths /\ Len(found) \in Nat
  BY <1>3, WalkedType DEF PlaceInv
<1>5. Becomes(w, Rec(pc, r.at, r.base, r.seen, found, r.owned))
  BY <1>1, <1>2, GotoWithEffect
<1> HIDE DEF found
<1>6. /\ pc \in {"walk", "save"} /\ (pc = "walk" => Len(found) < NumPaths)
      /\ (pc = "save" => Len(found) = NumPaths)
  BY <1>4, PathType
<1> HIDE DEF pc
<1>7. pc \in Executing
  BY <1>6 DEF Executing, Calling
<1> QED
  BY <1>1, <1>3, <1>4, <1>5, <1>6, <1>7, QuietTables, WithinPlaces

LEMMA FoundType ==
    ASSUME NEW local \in Seq(Content), Len(local) = NumPaths
    PROVE  \A p \in Path : local[p] \in Content
  BY DEF Path

LEMMA SavedTypes ==
    ASSUME PlaceInv, NEW id \in SnapshotId, NEW manifest \in Manifest, SaveIndex(id, manifest),
           UNCHANGED <<repositoryVars, ledgerVars, artifactVars, journal, rowVars>>,
           UNCHANGED <<fresh, resumes, policy>>, holder' \in Worker \cup {None}
    PROVE  /\ TypeOK' /\ JournalRows(journal', snapshots') /\ IsFiniteSet(DOMAIN snapshots')
           /\ Keeps(snapshots, snapshots', journal, journal') /\ UNCHANGED reports
           /\ id \in DOMAIN snapshots'
<1>1. /\ Keeps(snapshots, snapshots', journal, journal')
      /\ DOMAIN snapshots' = DOMAIN snapshots \cup {id} /\ snapshots'[id] = manifest
  BY KeepsSaved
<1>2. \A i \in DOMAIN snapshots' : snapshots'[i] \in Manifest
  BY <1>1 DEF PlaceInv, TypeOK, Keeps
<1>3. DOMAIN snapshots' \subseteq SnapshotId
  BY <1>1 DEF PlaceInv, TypeOK
<1>4. TypeOK'
  BY <1>2, <1>3 DEF PlaceInv, TypeOK, repositoryVars, ledgerVars, artifactVars, rowVars
<1>5. IsFiniteSet(DOMAIN snapshots')
  BY <1>1, FS_AddElement DEF PlaceInv, Rows
<1>6. JournalRows(journal', snapshots')
  BY <1>1 DEF PlaceInv, Rows, JournalRows, IsIndex
<1> QED
  BY <1>1, <1>4, <1>5, <1>6 DEF ledgerVars

LEMMA SaveSnapshotTypes ==
    ASSUME PlaceInv, NEW w \in Worker, work[w].pc = "save"
    PROVE  /\ SnapshotOf(Task(w)) \in SnapshotId
           /\ Task(w) \in {"inspect_repository", "implement_change"}
           /\ work[w].local \in Seq(Content) /\ Len(work[w].local) = NumPaths
           /\ snapshots[work[w].base] \in Manifest /\ work[w].base \in DOMAIN snapshots
           /\ Current(w).op = "index"
           /\ Index(work[w].local, snapshots[work[w].base]) \in Manifest
<1> DEFINE r == work[w]
<1>1. /\ Current(w) = OpOf(r) /\ Task(w) = TaskOf(r) /\ Placed(r, snapshots, journal) /\ TypeOK
  BY ShapedWork
<1>2. /\ r.pc \in Executing /\ Current(w).op = "index"
      /\ r.local \in Seq(Content) /\ Len(r.local) = NumPaths
  BY <1>1 DEF Placed, InCall, Walking, Executing, Calling
<1>3. Ordered(Task(w), r.at) /\ r.base \in DOMAIN snapshots
  BY <1>1, <1>2, RunningKey
<1>4. Task(w) \in {"inspect_repository", "implement_change"}
  BY <1>1, <1>2, <1>3 DEF Ordered, OpOf
<1>5. SnapshotOf(Task(w)) \in SnapshotId
  BY <1>4 DEF SnapshotOf, SnapshotId
<1>6. snapshots[r.base] \in Manifest
  BY <1>1, <1>3 DEF TypeOK
<1>7. Index(r.local, snapshots[r.base]) \in Manifest
  BY <1>2, <1>6, FoundType, IndexType
<1> QED
  BY <1>2, <1>3, <1>4, <1>5, <1>6, <1>7

LEMMA SaveSnapshotPlaces ==
    ASSUME PlaceInv, NEW w \in Worker, SaveSnapshot(w)
    PROVE  PlaceInv'
<1> DEFINE id == SnapshotOf(Task(w))
           manifest == Index(work[w].local, snapshots[work[w].base])
<1>1. /\ work[w].pc = "save" /\ SaveIndex(id, manifest) /\ Returns(w, id)
      /\ UNCHANGED <<repositoryVars, ledgerVars, artifactVars, journal, rowVars, leaseVars>>
  BY DEF SaveSnapshot
<1>2. id \in SnapshotId /\ manifest \in Manifest /\ Current(w).op = "index"
  BY <1>1, SaveSnapshotTypes
<1> HIDE DEF id, manifest
<1>3. UNCHANGED <<fresh, resumes, policy>> /\ holder' \in Worker \cup {None}
  BY <1>1 DEF leaseVars, PlaceInv, TypeOK
<1>4. /\ TypeOK' /\ JournalRows(journal', snapshots') /\ IsFiniteSet(DOMAIN snapshots')
      /\ Keeps(snapshots, snapshots', journal, journal') /\ UNCHANGED reports
      /\ id \in DOMAIN snapshots'
  BY <1>1, <1>2, <1>3, SavedTypes
<1>5. id \in Answer("index") /\ work[w].pc \in Calling /\ IsIndex(id, Task(w), snapshots')
  BY <1>1, <1>2, <1>4 DEF Answer, Calling, IsIndex, id
<1> QED
  BY <1>1, <1>2, <1>4, <1>5, ReturnsPlaces

LEMMA LiveType ==
    ASSUME NEW manifest
    PROVE  Live(manifest) \in SUBSET Path
  BY DEF Live

LEMMA SearchPlaces ==
    ASSUME PlaceInv, NEW w \in Worker, Search(w)
    PROVE  PlaceInv'
<1> DEFINE output == Live(snapshots[journal[KeyOf(w)].args])
<1>1. /\ AtTool(w, "search") /\ Returns(w, output)
      /\ UNCHANGED <<workspaceVars, journal, rowVars, leaseVars>>
  BY DEF Search
<1>2. work[w].pc \in Calling /\ Current(w).op = "search"
  BY <1>1, AtToolFacts DEF Tool
<1>3. output \in Answer("search")
  BY LiveType DEF Answer
<1> HIDE DEF output
<1> QED
  BY <1>1, <1>2, <1>3, QuietTables, ReturnsPlaces

LEMMA RecordMapPlaces ==
    ASSUME PlaceInv, NEW w \in Worker, RecordMap(w)
    PROVE  PlaceInv'
<1> DEFINE content == journal[KeyOf(w)].args
<1>1. /\ AtTool(w, "artifact") /\ PutArtifact(content) /\ Returns(w, content)
      /\ UNCHANGED <<repositoryVars, snapshots, ledgerVars, catalogue, known>>
      /\ UNCHANGED <<journal, rowVars, leaseVars>>
  BY DEF RecordMap
<1>2. /\ work[w].pc \in Calling /\ Current(w).op = "artifact" /\ content \in Input("artifact")
  BY <1>1, AtToolFacts DEF Tool
<1>3. content \in Manifest /\ content \in Answer("artifact")
  BY <1>2 DEF Input, Answer
<1> HIDE DEF content
<1>4. artifact' \in [stored : Manifest \cup {None}, old : BOOLEAN]
  BY <1>1, <1>3 DEF PutArtifact, PlaceInv, TypeOK
<1>5. TypeOK'
  BY <1>1, <1>4 DEF PlaceInv, TypeOK, repositoryVars, ledgerVars, rowVars, leaseVars
<1>6. UNCHANGED reports /\ JournalRows(journal', snapshots') /\ IsFiniteSet(DOMAIN snapshots')
  BY <1>1 DEF PlaceInv, Rows, ledgerVars
<1> QED
  BY <1>1, <1>2, <1>3, <1>5, <1>6, KeepsSame, ReturnsPlaces

LEMMA RunTestsPlaces ==
    ASSUME PlaceInv, NEW w \in Worker, RunTests(w)
    PROVE  PlaceInv'
<1>1. PICK passed \in BOOLEAN : Returns(w, [files |-> files, passed |-> passed])
  BY DEF RunTests
<1>2. AtTool(w, "test") /\ UNCHANGED <<workspaceVars, journal, rowVars, leaseVars>>
  BY DEF RunTests
<1>3. work[w].pc \in Calling /\ Current(w).op = "test"
  BY <1>2, AtToolFacts DEF Tool
<1> DEFINE output == [files |-> files, passed |-> passed]
<1>4. output \in Answer("test")
  BY DEF Answer, PlaceInv, TypeOK
<1>5. Returns(w, output)
  BY <1>1
<1> HIDE DEF output
<1> QED
  BY <1>2, <1>3, <1>4, <1>5, QuietTables, ReturnsPlaces

LEMMA RecordFields ==
    ASSUME NEW w, NEW task, NEW type, NEW contents
    PROVE  LET e == Record(w, task, type, contents) IN
           e.by = w /\ e.task = task /\ e.type = type /\ e.contents = contents
  BY DEF Record

\* Between its tools a program is at an operation that is none.
LEMMA AtOpFacts ==
    ASSUME PlaceInv, NEW w \in Worker, NEW names, AtOp(w, names), names \cap Tool = {}
    PROVE  /\ work[w].pc = "op" /\ work[w].pc \in Executing /\ Current(w).op \in names
           /\ Current(w).op \notin Tool
           /\ Ordered(Task(w), work[w].at) /\ Current(w) = Program(Task(w))[work[w].at]
           /\ Passed(work[w]) = Before(Task(w), work[w].at)
<1>1. work[w].pc = "op" /\ work[w].pc \in Executing /\ Current(w).op \in names
  BY DEF AtOp, Executing
<1>2. Task(w) = TaskOf(work[w])
  BY ShapedWork
<1>3. Ordered(Task(w), work[w].at)
  BY <1>1, <1>2, RunningKey
<1> QED
  BY <1>1, <1>2, <1>3 DEF Current, Passed

LEMMA FindingsType ==
    ASSUME PlaceInv, NEW w \in Worker,
           AtOp(w, {"map_evidence", "chunk_evidence", "file_evidence", "test_evidence"})
    PROVE  \A e \in Findings(w) : e.type \in EvidenceType /\ DOMAIN e.contents \subseteq Path
<1> DEFINE o == Current(w)
<1>1. /\ work[w].pc \in Executing /\ Ordered(Task(w), work[w].at)
      /\ o.op \in {"map_evidence", "chunk_evidence", "file_evidence", "test_evidence"}
      /\ o = Program(Task(w))[work[w].at] /\ Passed(work[w]) = Before(Task(w), work[w].at)
  BY AtOpFacts DEF Tool
<1>2. CASE o.op = "map_evidence"
  <2>1. \A e \in Findings(w) : \E type \in {"artifact", "snapshot"} :
           e = Record(w, Task(w), type, Contents(IndexOf(w)))
    BY <1>2 DEF Findings
  <2>2. DOMAIN Contents(IndexOf(w)) \subseteq Path
    BY DEF Contents, Live
  <2> QED
    BY <2>1, <2>2, RecordFields DEF EvidenceType
<1>3. CASE o.op = "chunk_evidence"
  <2>1. Op("search") \in Passed(work[w])
    BY <1>1, <1>3 DEF Ordered
  <2>2. Result(w, "search", 0) \in Answer("search")
    BY <1>1, <2>1, PassedAnswer DEF Op, Result, KeyFor, Tool
  <2>3. Result(w, "search", 0) \subseteq Path
    BY <2>2 DEF Answer
  <2>4. \A e \in Findings(w) : \E p \in Result(w, "search", 0) :
           e = Record(w, Task(w), "file", [q \in {p} |-> IndexOf(w)[p].content])
    BY <1>3 DEF Findings
  <2>5. ASSUME NEW e \in Findings(w)
        PROVE  e.type \in EvidenceType /\ DOMAIN e.contents \subseteq Path
    <3>1. PICK p \in Result(w, "search", 0) :
             e = Record(w, Task(w), "file", [q \in {p} |-> IndexOf(w)[p].content])
      BY <2>4
    <3>2. e.type = "file" /\ e.contents = [q \in {p} |-> IndexOf(w)[p].content]
      BY <3>1, RecordFields
    <3>3. DOMAIN e.contents = {p}
      BY <3>2
    <3> QED
      BY <2>3, <3>2, <3>3 DEF EvidenceType
  <2> QED
    BY <2>5
<1>4. CASE o.op = "file_evidence"
  <2>1. o.path \in Path
    BY <1>1, <1>4 DEF Ordered
  <2>2. Findings(w) = {Record(w, Task(w), "file", [q \in {o.path} |-> NewContent(w, o.path)])}
    BY <1>4 DEF Findings
  <2> QED
    BY <2>1, <2>2, RecordFields DEF EvidenceType
<1>5. CASE o.op = "test_evidence"
  <2>1. Op("test") \in Passed(work[w])
    BY <1>1, <1>5 DEF Ordered
  <2>2. Result(w, "test", 0) \in Answer("test")
    BY <1>1, <2>1, PassedAnswer DEF Op, Result, KeyFor, Tool
  <2>3. DOMAIN Result(w, "test", 0).files = Path
    BY <2>2 DEF Answer
  <2>4. Findings(w) = {Record(w, Task(w), "test", Result(w, "test", 0).files)}
    BY <1>5 DEF Findings
  <2> QED
    BY <2>3, <2>4, RecordFields DEF EvidenceType
<1> QED
  BY <1>1, <1>2, <1>3, <1>4, <1>5

LEMMA RecordEvidencePlaces ==
    ASSUME PlaceInv, NEW w \in Worker, RecordEvidence(w)
    PROVE  PlaceInv'
<1>1. /\ AtOp(w, {"map_evidence", "chunk_evidence", "file_evidence", "test_evidence"})
      /\ UNCHANGED <<repositoryVars, snapshots, claims, reports, artifactVars>>
      /\ UNCHANGED <<journal, rowVars, leaseVars>>
  BY DEF RecordEvidence
<1>2. work[w].pc \in Executing /\ Current(w).op \notin Tool
  BY <1>1, AtOpFacts DEF Tool
<1>3. evidence' = evidence \cup Findings(w) \/ UNCHANGED evidence
  BY DEF RecordEvidence, AddEvidence
<1>4. \A e \in evidence' : e.type \in EvidenceType /\ DOMAIN e.contents \subseteq Path
  BY <1>1, <1>3, FindingsType DEF PlaceInv, TypeOK
<1>5. TypeOK'
  BY <1>1, <1>4 DEF PlaceInv, TypeOK, repositoryVars, artifactVars, rowVars, leaseVars
<1>6. JournalRows(journal', snapshots') /\ IsFiniteSet(DOMAIN snapshots')
  BY <1>1 DEF PlaceInv, Rows
<1>7. CASE ProceedWith(w, Findings(w))
  BY <1>1, <1>2, <1>5, <1>6, <1>7, KeepsSame, ProceedPlaces
<1>8. CASE Fails(w)
  BY <1>1, <1>2, <1>5, <1>6, <1>8, KeepsSame, FailsPlaces
<1> QED
  BY <1>7, <1>8 DEF RecordEvidence

LEMMA CataloguePlaces ==
    ASSUME PlaceInv, NEW w \in Worker, Catalogue(w)
    PROVE  PlaceInv'
<1> DEFINE content == Result(w, "artifact", 0)
<1>1. /\ AtOp(w, {"catalogue"})
      /\ UNCHANGED <<repositoryVars, snapshots, ledgerVars, artifact, known>>
      /\ UNCHANGED <<journal, rowVars, leaseVars>>
  BY DEF Catalogue
<1>2. /\ work[w].pc \in Executing /\ Current(w).op \notin Tool /\ Current(w).op = "catalogue"
      /\ Ordered(Task(w), work[w].at) /\ Current(w) = Program(Task(w))[work[w].at]
      /\ Passed(work[w]) = Before(Task(w), work[w].at)
  BY <1>1, AtOpFacts DEF Tool
<1>3. content \in Manifest
  <2>1. Op("artifact") \in Passed(work[w])
    BY <1>2 DEF Ordered
  <2>2. content \in Answer("artifact")
    BY <1>2, <2>1, PassedAnswer DEF Op, Result, KeyFor, Tool
  <2> QED
    BY <2>2 DEF Answer
<1>4. catalogue' = content \/ UNCHANGED catalogue
  BY DEF Catalogue
<1>5. TypeOK'
  BY <1>1, <1>3, <1>4 DEF PlaceInv, TypeOK, repositoryVars, ledgerVars, rowVars, leaseVars
<1>6. JournalRows(journal', snapshots') /\ IsFiniteSet(DOMAIN snapshots') /\ UNCHANGED reports
  BY <1>1 DEF PlaceInv, Rows, ledgerVars
<1>7. CASE Proceed(w)
  <2>1. ProceedWith(w, {})
    BY <1>7 DEF Proceed
  <2> QED
    BY <1>1, <1>2, <1>5, <1>6, <2>1, KeepsSame, ProceedPlaces
<1>8. CASE Fails(w)
  BY <1>1, <1>2, <1>5, <1>6, <1>8, KeepsSame, FailsPlaces
<1> QED
  BY <1>7, <1>8 DEF Catalogue

LEMMA MakeClaimPlaces ==
    ASSUME PlaceInv, NEW w \in Worker, MakeClaim(w)
    PROVE  PlaceInv'
<1>1. /\ AtOp(w, {"claim"})
      /\ UNCHANGED <<repositoryVars, snapshots, evidence, reports, artifactVars>>
      /\ UNCHANGED <<journal, rowVars, leaseVars>>
  BY DEF MakeClaim
<1>2. work[w].pc \in Executing /\ Current(w).op \notin Tool
  BY <1>1, AtOpFacts DEF Tool
<1>3. TypeOK'
  BY <1>1 DEF PlaceInv, TypeOK, repositoryVars, artifactVars, rowVars, leaseVars
<1>4. JournalRows(journal', snapshots') /\ IsFiniteSet(DOMAIN snapshots')
  BY <1>1 DEF PlaceInv, Rows
<1>5. CASE Proceed(w)
  <2>1. ProceedWith(w, {})
    BY <1>5 DEF Proceed
  <2> QED
    BY <1>1, <1>2, <1>3, <1>4, <2>1, KeepsSame, ProceedPlaces
<1>6. CASE Fails(w)
  BY <1>1, <1>2, <1>3, <1>4, <1>6, KeepsSame, FailsPlaces
<1> QED
  BY <1>5, <1>6 DEF MakeClaim

LEMMA ListEvidencePlaces ==
    ASSUME PlaceInv, NEW w \in Worker, ListEvidence(w)
    PROVE  PlaceInv'
<1> DEFINE r == work[w]
<1>1. /\ AtOp(w, {"verify_run"}) /\ GotoWith(w, "verify", evidence)
      /\ UNCHANGED <<workspaceVars, journal, rowVars, leaseVars>>
  BY DEF ListEvidence
<1>2. r.pc \in Executing /\ Current(w).op = "verify_run"
  BY <1>1, AtOpFacts DEF Tool
<1>3. Becomes(w, Rec("verify", r.at, r.base, r.seen, evidence, r.owned))
  BY <1>1, ShapedWork, GotoWithEffect
<1>4. "verify" \in Executing /\ "verify" \notin Calling
  BY DEF Executing, Calling
<1> QED
  BY <1>1, <1>2, <1>3, <1>4, QuietTables, WithinPlaces

LEMMA VerifyRunPlaces ==
    ASSUME PlaceInv, NEW w \in Worker, VerifyRun(w)
    PROVE  PlaceInv'
<1>1. work[w].pc = "verify" /\ UNCHANGED <<workspaceVars, journal, rowVars, leaseVars>>
  BY DEF VerifyRun
<1>2. work[w].pc \in Executing /\ Current(w).op \notin Tool
  BY <1>1, ShapedWork DEF Placed, InCall, Executing, Tool
<1>3. CASE Proceed(w)
  <2>1. ProceedWith(w, {})
    BY <1>3 DEF Proceed
  <2> QED
    BY <1>1, <1>2, <2>1, QuietTables, ProceedPlaces
<1>4. CASE Fails(w)
  BY <1>1, <1>2, <1>4, QuietTables, FailsPlaces
<1> QED
  BY <1>3, <1>4 DEF VerifyRun

-----------------------------------------------------------------------------
\* The steps around the programs keep the places.

\* Everything but the row of w stays: what is left to show of a step outside the programs.
LEMMA PlacesOf ==
    ASSUME PlaceInv, NEW w \in Worker, NEW r, Becomes(w, r),
           Keeps(snapshots, snapshots', journal, journal'), Placed(r, snapshots', journal'),
           TypeOK', JournalRows(journal', snapshots'), IsFiniteSet(DOMAIN snapshots'),
           run'.snapshot \in DOMAIN snapshots', pinned' \in DOMAIN snapshots',
           reports' = [markdown |-> reports'.markdown, json |-> reports'.json], Progress'
    PROVE  PlaceInv'
<1>1. Rows'
  BY DEF Rows, Becomes
<1>2. \A v \in Worker : Placed(work'[v], snapshots', journal')
  BY Moves DEF PlaceInv
<1> QED
  BY <1>1, <1>2 DEF PlaceInv

\* The tables that most of these steps leave alone.
LEMMA StillTables ==
    ASSUME PlaceInv, UNCHANGED <<snapshots, journal, reports>>
    PROVE  /\ Keeps(snapshots, snapshots', journal, journal')
           /\ JournalRows(journal', snapshots') /\ IsFiniteSet(DOMAIN snapshots')
           /\ run.snapshot \in DOMAIN snapshots' /\ pinned \in DOMAIN snapshots'
           /\ reports' = [markdown |-> reports'.markdown, json |-> reports'.json]
  BY KeepsSame DEF PlaceInv, Rows

\* One operation moves, and the rows stay: Progress asks only where it is.
LEMMA ProgressOf ==
    ASSUME Progress, NEW w \in Worker, NEW r, Becomes(w, r), UNCHANGED <<done, open, run>>,
           fresh' \subseteq fresh \/ run.state # "COMPLETED",
           Ahead(w, r, done, open), r.pc \in Reporting => work[w].pc \in Reporting
    PROVE  Progress'
<1>1. \A v \in Worker : Ahead(v, work'[v], done, open)
  <2> SUFFICES ASSUME NEW v \in Worker PROVE Ahead(v, work'[v], done, open)
    OBVIOUS
  <2>1. CASE v # w
    BY <2>1 DEF Becomes, Progress
  <2>2. CASE v = w
    BY <2>2 DEF Becomes
  <2> QED
    BY <2>1, <2>2
<1>2. \A v \in Worker : work'[v].pc \in Reporting => work[v].pc \in Reporting
  BY DEF Becomes
<1>3. \A v \in Worker : work'[v].pc \in Reporting => run.state = "COMPLETED"
  BY <1>2 DEF Progress
<1>4. run.state = "COMPLETED" => done = 5 /\ fresh' = {}
  BY DEF Progress
<1> QED
  BY <1>1, <1>3, <1>4 DEF Progress

LEMMA AheadIdle ==
    ASSUME NEW w, NEW d \in Nat, NEW o
    PROVE  Ahead(w, Idle, d, o)
<1>1. Idle.pc = "idle" /\ Idle.seen[1] = 0
  BY DEF Idle
<1> QED
  BY <1>1 DEF Ahead, Executing, Calling, Reporting

LEMMA LabelKinds ==
    /\ Label \ (Executing \cup Finishing \cup {"fail"}) =
          Reporting \cup {"idle", "next", "load", "scan", "compare", "rebase", "list",
                          "reconcile", "return", "pin_resumed"}
    /\ Executing \cap Finishing = {} /\ Executing \cap Reporting = {} /\ Finishing \cap Reporting = {}
  BY DEF Label, Executing, Calling, Finishing, Reporting

\* An operation that stops.
LEMMA LeavePlaces ==
    ASSUME PlaceInv, NEW w \in Worker, work' = [work EXCEPT ![w] = Idle],
           UNCHANGED <<workspaceVars, journal, rowVars, fresh, resumes, policy>>,
           holder' \in {holder, None}
    PROVE  PlaceInv'
<1>1. Becomes(w, Idle) /\ Shaped(w)
  BY ShapedWork, IdleEffect
<1>2. TypeOK'
  BY DEF PlaceInv, TypeOK, workspaceVars, repositoryVars, ledgerVars, artifactVars, rowVars
<1>3. UNCHANGED <<snapshots, journal, reports, done, open, run, fresh, pinned>> /\ done \in Nat
  BY DEF workspaceVars, ledgerVars, rowVars, PlaceInv, TypeOK
<1>4. Idle.pc \notin Reporting
  BY DEF Idle, Reporting
<1>5. Progress'
  BY <1>1, <1>3, <1>4, AheadIdle, ProgressOf DEF PlaceInv
<1> QED
  BY <1>1, <1>2, <1>3, <1>5, PlacedIdle, StillTables, PlacesOf

LEMMA CrashPlaces ==
    ASSUME PlaceInv, NEW w \in Worker, Crash(w)
    PROVE  PlaceInv'
  BY LeavePlaces DEF Crash, leaseVars

\* Where the operations of a step are, when the rows of the run change too.
LEMMA ProgressSteps ==
    ASSUME PlaceInv, NEW w \in Worker, NEW r, Becomes(w, r),
           Ahead(w, r, done', open'),
           \A v \in Worker : v # w => Ahead(v, work[v], done', open'),
           done' = 5 => open' = None,
           run'.state = "COMPLETED" => done' = 5 /\ fresh' = {},
           r.pc \notin Reporting,
           \A v \in Worker : v # w /\ work[v].pc \in Reporting => run'.state = "COMPLETED"
    PROVE  Progress'
<1>1. \A v \in Worker : Ahead(v, work'[v], done', open')
  <2> SUFFICES ASSUME NEW v \in Worker PROVE Ahead(v, work'[v], done', open')
    OBVIOUS
  <2>1. CASE v # w
    BY <2>1 DEF Becomes
  <2>2. CASE v = w
    BY <2>2 DEF Becomes
  <2> QED
    BY <2>1, <2>2
<1>2. \A v \in Worker : work'[v].pc \in Reporting => v # w /\ work'[v] = work[v]
  BY DEF Becomes
<1>3. \A v \in Worker : work'[v].pc \in Reporting => run'.state = "COMPLETED"
  BY <1>2
<1> QED
  BY <1>1, <1>3 DEF Progress

LEMMA NoneIsNoWorker == None \notin Worker
  BY WorkspaceAssumption

LEMMA AdvancePlaces ==
    ASSUME PlaceInv, NEW w \in Worker, Advance(w)
    PROVE  PlaceInv'
<1> DEFINE r == work[w]
           q == Rec("next", r.at, r.base, <<done, tries>>, r.local, r.owned)
<1>1. /\ open = None /\ holder' = w
      /\ UNCHANGED <<workspaceVars, journal, rowVars, fresh, resumes, policy>>
  BY DEF Advance
<1>2. Shaped(w) /\ Placed(r, snapshots, journal)
  BY ShapedWork
<1>3. Becomes(w, q)
  BY <1>2, AdvanceEffect DEF Advance
<1>4. /\ done \in 0 .. 5 /\ tries \in Nat /\ r.at \in Nat /\ r.base \in DOMAIN snapshots \cup {None}
  BY <1>2, TaskSeqType DEF PlaceInv, TypeOK, Placed, Seen, Resolved
<1>5. /\ "next" \in Label \ (Executing \cup Finishing \cup {"fail"})
      /\ <<done, tries>> \in (0 .. 5) \X Nat
  BY <1>4, LabelKinds
<1>6. Placed(q, snapshots, journal)
  BY <1>4, <1>5, PlacedOutside
<1>7. q.pc = "next" /\ q.seen[1] = done
  BY Fields
<1> HIDE DEF q
<1>8. UNCHANGED <<snapshots, journal, reports, done, open, run, pinned, fresh>>
  BY <1>1 DEF workspaceVars, ledgerVars, rowVars
<1>9. Ahead(w, q, done, open) /\ q.pc \notin Reporting
  BY <1>1, <1>4, <1>7, NoneIsNoWorker DEF Ahead, Reporting
<1>10. Progress'
  BY <1>3, <1>8, <1>9, ProgressOf DEF PlaceInv
<1>11. TypeOK'
  BY <1>1 DEF PlaceInv, TypeOK, workspaceVars, repositoryVars, ledgerVars, artifactVars, rowVars
<1> QED
  BY <1>3, <1>6, <1>8, <1>10, <1>11, StillTables, PlacesOf

\* The first operation of a program: nothing has been passed.
LEMMA PlacedStart ==
    ASSUME NEW s, NEW j, NEW base \in DOMAIN s, NEW seen \in (0 .. 5) \X Nat, seen[1] < 5,
           NEW local, NEW owned
    PROVE  Placed(Rec("op", 1, base, seen, local, owned), s, j)
<1> DEFINE q == Rec("op", 1, base, seen, local, owned)
<1>1. q.pc = "op" /\ q.at = 1 /\ q.base = base /\ q.seen = seen /\ IsRec(q)
  BY Fields
<1> HIDE DEF q
<1>2. Seen(q)
  BY <1>1 DEF Seen, Label, Executing
<1>3. TaskOf(q) \in Tasks
  BY <1>1, <1>2, TaskOfType
<1>4. Passed(q) = {} /\ q.at \in DOMAIN Program(TaskOf(q))
  BY <1>1, <1>3, BeforeFirst DEF Passed
<1>5. Placed(q, s, j)
  BY <1>1, <1>2, <1>4 DEF Placed, InProgram, Answered, AtEnd, InCall, Walking, Resolved, Calling,
                          Finishing
<1> QED
  BY <1>5 DEF q

LEMMA StartTaskPlaces ==
    ASSUME PlaceInv, NEW w \in Worker, StartTask(w)
    PROVE  PlaceInv'
<1> DEFINE r == work[w]
           q == Rec("op", 1, run.snapshot, r.seen, r.local, {})
<1>1. /\ r.seen[1] < 5 /\ r.pc = "next"
      /\ UNCHANGED <<workspaceVars, journal, run, done, pinned, resumes, policy>>
  BY TaskSeqType DEF StartTask
<1>2. Shaped(w) /\ Placed(r, snapshots, journal) /\ r.seen \in (0 .. 5) \X Nat
  BY ShapedWork DEF Seen
<1>3. ASSUME r.seen = <<done, tries>>, open = None, open' = w, tries' = tries + 1, fresh' = {},
             UNCHANGED holder,
             work' = [work EXCEPT ![w].pc = "op", ![w].at = 1, ![w].owned = {},
                                  ![w].base = run.snapshot]
      PROVE  PlaceInv'
  <2>1. Becomes(w, q)
    BY <1>2, <1>3, StartEffect
  <2>2. run.snapshot \in DOMAIN snapshots
    BY DEF PlaceInv, Rows
  <2>3. Placed(q, snapshots, journal)
    BY <1>1, <1>2, <2>2, PlacedStart
  <2>4. q.pc = "op" /\ q.seen = r.seen
    BY Fields
  <2> HIDE DEF q
  <2>5. UNCHANGED <<snapshots, journal, reports, done, run, pinned>>
    BY <1>1 DEF workspaceVars, ledgerVars
  <2>6. done < 5 /\ r.seen[1] = done /\ done \in Nat
    BY <1>1, <1>3 DEF PlaceInv, TypeOK
  <2>7. Ahead(w, q, done, w) /\ q.pc \notin Reporting
    BY <2>4, <2>6 DEF Ahead, Executing, Calling, Reporting
  <2>8. \A v \in Worker : v # w => Ahead(v, work[v], done, w)
    BY DEF PlaceInv, Progress, Ahead
  <2>9. run.state # "COMPLETED" /\ \A v \in Worker : work[v].pc \notin Reporting
    BY <2>6 DEF PlaceInv, Progress
  <2>10. Progress'
    BY <1>3, <2>1, <2>5, <2>6, <2>7, <2>8, <2>9, ProgressSteps
  <2>11. TypeOK'
    BY <1>1, <1>3 DEF PlaceInv, TypeOK, workspaceVars, repositoryVars, ledgerVars, artifactVars
  <2> QED
    BY <2>1, <2>3, <2>5, <2>10, <2>11, StillTables, PlacesOf
<1>4. ASSUME Leave(w), UNCHANGED <<open, tries, fresh>>
      PROVE  PlaceInv'
  BY <1>1, <1>4, LeavePlaces DEF Leave, rowVars
<1> QED
  BY <1>3, <1>4 DEF StartTask

\* An outcome is committed, or the failure is.
LEMMA PlacedOutcome ==
    ASSUME NEW r, NEW s, NEW j, Placed(r, s, j), NEW pc,
           \/ r.pc = "renew" /\ pc = (IF r.local = "failed" THEN "fail" ELSE "commit")
           \/ r.pc = "commit" /\ pc = "update"
    PROVE  Placed(Rec(pc, r.at, r.base, r.seen, r.local, r.owned), s, j)
<1> DEFINE q == Rec(pc, r.at, r.base, r.seen, r.local, r.owned)
<1>1. /\ q.pc = pc /\ q.at = r.at /\ q.base = r.base /\ q.seen = r.seen /\ IsRec(q)
      /\ q.local = r.local
  BY Fields
<1> HIDE DEF q
<1>2. pc \in {"fail", "commit", "update"}
  OBVIOUS
<1>3. TaskOf(q) = TaskOf(r) /\ Passed(q) = Passed(r)
  BY <1>1 DEF TaskOf, Passed
<1>4. Seen(q) /\ InProgram(q, s, j) /\ InCall(q, j) /\ Walking(q) /\ Resolved(q, s, j)
  BY <1>1, <1>2 DEF Placed, Seen, InProgram, InCall, Walking, Resolved, Label, Executing, Calling,
                    Finishing
<1>5. AtEnd(q, j)
  BY <1>1, <1>2, <1>3 DEF Placed, AtEnd, Answered, Finishing
<1>6. Placed(q, s, j)
  BY <1>4, <1>5 DEF Placed
<1> QED
  BY <1>6 DEF q

LEMMA RenewLeasePlaces ==
    ASSUME PlaceInv, NEW w \in Worker, RenewLease(w)
    PROVE  PlaceInv'
<1> DEFINE r == work[w]
           pc == IF r.local = "failed" THEN "fail" ELSE "commit"
           q == Rec(pc, r.at, r.base, r.seen, r.local, r.owned)
<1>1. /\ r.pc = "renew" /\ UNCHANGED <<workspaceVars, journal, rowVars, fresh, resumes, policy>>
  BY DEF RenewLease
<1>2. Shaped(w) /\ Placed(r, snapshots, journal)
  BY ShapedWork
<1>3. ASSUME Goto(w, pc), UNCHANGED holder
      PROVE  PlaceInv'
  <2>1. Becomes(w, q)
    BY <1>2, <1>3, GotoEffect
  <2>2. Placed(q, snapshots, journal)
    BY <1>1, <1>2, PlacedOutcome
  <2>3. q.pc \in {"fail", "commit"} /\ q.seen = r.seen
    BY Fields
  <2> HIDE DEF q, pc
  <2>4. UNCHANGED <<snapshots, journal, reports, done, open, run, pinned, fresh>>
    BY <1>1 DEF workspaceVars, ledgerVars, rowVars
  <2>5. Ahead(w, q, done, open) /\ q.pc \notin Reporting
    BY <1>1, <2>3 DEF PlaceInv, Progress, Ahead, Reporting
  <2>6. Progress'
    BY <2>1, <2>4, <2>5, ProgressOf DEF PlaceInv
  <2>7. TypeOK'
    BY <1>1, <1>3 DEF PlaceInv, TypeOK, workspaceVars, repositoryVars, ledgerVars, artifactVars,
                      rowVars
  <2> QED
    BY <2>1, <2>2, <2>4, <2>6, <2>7, StillTables, PlacesOf
<1>4. ASSUME Leave(w)
      PROVE  PlaceInv'
  BY <1>1, <1>4, LeavePlaces DEF Leave
<1> QED
  BY <1>3, <1>4 DEF RenewLease

LEMMA CommitTaskPlaces ==
    ASSUME PlaceInv, NEW w \in Worker, CommitTask(w)
    PROVE  PlaceInv'
<1> DEFINE r == work[w]
           q == Rec("update", r.at, r.base, r.seen, r.local, r.owned)
<1>1. /\ r.pc = "commit"
      /\ UNCHANGED <<workspaceVars, journal, run, pinned, fresh, resumes, policy>>
  BY DEF CommitTask
<1>2. Shaped(w) /\ Placed(r, snapshots, journal) /\ r.seen \in (0 .. 5) \X Nat
  BY ShapedWork DEF Seen
<1>3. ASSUME open = w, done' = done + 1, open' = None, tries' = 0, Goto(w, "update"),
             UNCHANGED holder
      PROVE  PlaceInv'
  <2>1. Becomes(w, q)
    BY <1>2, <1>3, GotoEffect
  <2>2. Placed(q, snapshots, journal)
    BY <1>1, <1>2, PlacedOutcome
  <2>3. q.pc = "update" /\ q.seen = r.seen
    BY Fields
  <2> HIDE DEF q
  <2>4. UNCHANGED <<snapshots, journal, reports, run, pinned, fresh>>
    BY <1>1 DEF workspaceVars, ledgerVars
  <2>5. done \in 0 .. 5 /\ done # 5 /\ r.seen[1] = done
    BY <1>1, <1>3, TaskSeqType, NoneIsNoWorker DEF PlaceInv, TypeOK, Progress, Ahead
  <2>6. Ahead(w, q, done + 1, None) /\ q.pc \notin Reporting
    BY <2>3, <2>5, NoneIsNoWorker DEF Ahead, Executing, Calling, Reporting
  <2>7. ASSUME NEW v \in Worker, v # w PROVE Ahead(v, work[v], done + 1, None)
    <3>1. Ahead(v, work[v], done, open) /\ work[v].seen \in (0 .. 5) \X Nat
      BY ShapedWork DEF PlaceInv, Progress, Seen
    <3> QED
      BY <2>5, <3>1, NoneIsNoWorker DEF Ahead
  <2>8. run.state # "COMPLETED" /\ \A v \in Worker : work[v].pc \notin Reporting
    BY <2>5 DEF PlaceInv, Progress
  <2>9. Progress'
    BY <1>3, <2>1, <2>4, <2>6, <2>7, <2>8, ProgressSteps
  <2>10. TypeOK'
    BY <1>1, <1>3, <2>5, TaskSeqType
       DEF PlaceInv, TypeOK, workspaceVars, repositoryVars, ledgerVars, artifactVars
  <2> QED
    BY <2>1, <2>2, <2>4, <2>9, <2>10, StillTables, PlacesOf
<1>4. ASSUME Leave(w), UNCHANGED <<done, open, tries>>
      PROVE  PlaceInv'
  BY <1>1, <1>4, LeavePlaces DEF Leave, rowVars
<1> QED
  BY <1>3, <1>4 DEF CommitTask

\* The run row.
States == {"RUNNING", "RECOVERING", "COMPLETED", "FAILED"}
LEMMA RunState ==
    ASSUME TypeOK, NEW state \in States, run' = [run EXCEPT !.state = state]
    PROVE  /\ run'.state = state /\ run'.snapshot = run.snapshot
           /\ run' \in [state : States, snapshot : SnapshotId]
  BY DEF TypeOK, States

LEMMA RunSnapshot ==
    ASSUME TypeOK, NEW id \in SnapshotId, run' = [run EXCEPT !.snapshot = id]
    PROVE  /\ run'.state = run.state /\ run'.snapshot = id
           /\ run' \in [state : States, snapshot : SnapshotId]
  BY DEF TypeOK, States

\* The index of a task whose program is at its end.
LEMMA IndexedAtEnd ==
    ASSUME PlaceInv, NEW w \in Worker, work[w].pc = "update", Indexes(Task(w))
    PROVE  SnapshotOf(Task(w)) \in DOMAIN snapshots
<1> DEFINE r == work[w]
           t == Task(w)
           k == KeyFor(t, Op("index"))
<1>1. /\ t = TaskOf(r) /\ Seen(r) /\ Placed(r, snapshots, journal) /\ JournalRows(journal, snapshots)
  BY ShapedWork
<1>2. r.seen[1] < 5 /\ r.at = Len(Program(t)) + 1 /\ Answered(r, journal)
  BY <1>1 DEF Placed, AtEnd, Finishing
<1>3. t \in Tasks
  BY <1>1, <1>2, TaskOfType
<1>4. Op("index") \in Passed(r)
  BY <1>1, <1>2, <1>3, WholeIsBefore, ProgramOrder DEF Passed, Ended
<1>5. Op("index").op \in Tool /\ k[1] = t /\ k[2] = "index"
  BY DEF Op, Tool, KeyFor
<1>6. k \in Key
  BY <1>1, <1>2, <1>4, <1>5, PassedKeys
<1>7. journal[k].result # None
  BY <1>1, <1>2, <1>4, <1>5 DEF Answered
<1> HIDE DEF k
<1>8. IsIndex(journal[k].result, t, snapshots)
  BY <1>1, <1>5, <1>6, <1>7 DEF JournalRows
<1> QED
  BY <1>8 DEF IsIndex

LEMMA PlacedPin ==
    ASSUME NEW r, NEW s, NEW j, Placed(r, s, j), r.pc = "update", NEW base \in DOMAIN s
    PROVE  Placed(Rec("pin", r.at, base, r.seen, r.local, r.owned), s, j)
<1> DEFINE q == Rec("pin", r.at, base, r.seen, r.local, r.owned)
<1>1. q.pc = "pin" /\ q.at = r.at /\ q.base = base /\ q.seen = r.seen /\ IsRec(q)
  BY Fields
<1> HIDE DEF q
<1>2. TaskOf(q) = TaskOf(r) /\ Passed(q) = Passed(r)
  BY <1>1 DEF TaskOf, Passed
<1>3. Seen(q) /\ InProgram(q, s, j) /\ InCall(q, j) /\ Walking(q) /\ Resolved(q, s, j)
  BY <1>1 DEF Placed, Seen, InProgram, InCall, Walking, Resolved, Label, Executing, Calling,
              Finishing
<1>4. AtEnd(q, j)
  BY <1>1, <1>2 DEF Placed, AtEnd, Answered, Finishing
<1>5. Placed(q, s, j)
  BY <1>3, <1>4 DEF Placed
<1> QED
  BY <1>5 DEF q

LEMMA UpdateRunPlaces ==
    ASSUME PlaceInv, NEW w \in Worker, UpdateRun(w)
    PROVE  PlaceInv'
<1> DEFINE r == work[w]
           q == Rec("pin", r.at, run'.snapshot, r.seen, r.local, r.owned)
<1>1. /\ r.pc = "update" /\ fresh' = {}
      /\ UNCHANGED <<workspaceVars, journal, done, open, tries, pinned, holder, resumes, policy>>
  BY DEF UpdateRun
<1>2. Shaped(w) /\ Placed(r, snapshots, journal) /\ TypeOK /\ Rows /\ Progress
  BY ShapedWork DEF PlaceInv
<1>3. /\ run'.snapshot \in DOMAIN snapshots /\ run'.state = run.state
      /\ run' \in [state : States, snapshot : SnapshotId]
  <2>1. CASE Indexes(Task(w))
    <3>1. SnapshotOf(Task(w)) \in DOMAIN snapshots
      BY <1>1, <2>1, IndexedAtEnd
    <3>2. SnapshotOf(Task(w)) \in SnapshotId
      BY <1>2, <3>1 DEF TypeOK
    <3>3. run' = [run EXCEPT !.snapshot = SnapshotOf(Task(w))]
      BY <2>1 DEF UpdateRun
    <3> QED
      BY <1>2, <3>1, <3>2, <3>3, RunSnapshot
  <2>2. CASE ~ Indexes(Task(w))
    <3>1. run' = run
      BY <2>2 DEF UpdateRun
    <3> QED
      BY <1>2, <3>1 DEF Rows, TypeOK, States
  <2> QED
    BY <2>1, <2>2
<1>4. Becomes(w, q)
  BY <1>2, RebaseEffect DEF UpdateRun
<1>5. Placed(q, snapshots, journal)
  BY <1>1, <1>2, <1>3, PlacedPin
<1>6. q.pc = "pin" /\ q.seen = r.seen
  BY Fields
<1> HIDE DEF q
<1>7. UNCHANGED <<snapshots, journal, reports, done, open, pinned>>
  BY <1>1 DEF workspaceVars, ledgerVars
<1>8. Ahead(w, q, done, open) /\ q.pc \notin Reporting
  BY <1>1, <1>2, <1>6 DEF Progress, Ahead, Reporting, Executing, Calling
<1>9. Progress'
  BY <1>1, <1>2, <1>3, <1>4, <1>7, <1>8, ProgressSteps DEF Progress
<1>10. TypeOK'
  BY <1>1, <1>2, <1>3
     DEF TypeOK, States, workspaceVars, repositoryVars, ledgerVars, artifactVars
<1> QED
  BY <1>3, <1>4, <1>5, <1>7, <1>9, <1>10, StillTables, PlacesOf

LEMMA WriteCheckpointPlaces ==
    ASSUME PlaceInv, NEW w \in Worker, WriteCheckpoint(w)
    PROVE  PlaceInv'
<1> DEFINE r == work[w]
           n == r.seen[1] + 1
           q == Rec("next", r.at, r.base, <<n, 0>>, r.local, r.owned)
<1>1. /\ r.pc = "pin" /\ pinned' = r.base
      /\ UNCHANGED <<workspaceVars, journal, run, done, open, tries, leaseVars>>
  BY DEF WriteCheckpoint
<1>2. Shaped(w) /\ Placed(r, snapshots, journal) /\ TypeOK /\ Rows /\ Progress
  BY ShapedWork DEF PlaceInv
<1>3. r.seen \in (0 .. 5) \X Nat /\ r.seen[1] < 5 /\ r.at \in Nat /\ r.base \in DOMAIN snapshots
  BY <1>1, <1>2 DEF Placed, Seen, AtEnd, Finishing, Resolved
<1>4. n \in 0 .. 5
  BY <1>3
<1>5. r.seen[1] < done /\ open # w /\ done \in Nat
  BY <1>1, <1>2 DEF Progress, Ahead, TypeOK
<1>6. work' = [work EXCEPT ![w].pc = "next", ![w].seen = <<n, 0>>]
  BY <1>2 DEF WriteCheckpoint, Shaped
<1>7. n <= done
  BY <1>3, <1>5
<1> HIDE DEF n
<1>8. Becomes(w, q)
  BY <1>2, <1>6, AdvanceEffect
<1>9. "next" \in Label \ (Executing \cup Finishing \cup {"fail"}) /\ <<n, 0>> \in (0 .. 5) \X Nat
  BY <1>4, LabelKinds
<1>10. Placed(q, snapshots, journal)
  BY <1>3, <1>9, PlacedOutside
<1>11. q.pc = "next" /\ q.seen[1] = n
  BY Fields
<1> HIDE DEF q
<1>12. UNCHANGED <<snapshots, journal, reports, done, open, run, fresh>>
  BY <1>1 DEF workspaceVars, ledgerVars, leaseVars
<1>13. Ahead(w, q, done, open) /\ q.pc \notin Reporting
  BY <1>5, <1>7, <1>11 DEF Ahead, Reporting
<1>14. Progress'
  BY <1>2, <1>8, <1>12, <1>13, ProgressOf
<1>15. TypeOK'
  BY <1>1, <1>2, <1>3
     DEF TypeOK, workspaceVars, repositoryVars, ledgerVars, artifactVars, leaseVars
<1> QED
  BY <1>1, <1>3, <1>8, <1>10, <1>12, <1>14, <1>15, StillTables, PlacesOf

LEMMA FailRunPlaces ==
    ASSUME PlaceInv, NEW w \in Worker, FailRun(w)
    PROVE  PlaceInv'
<1>1. /\ Leave(w)
      /\ UNCHANGED <<workspaceVars, journal, done, tries, pinned, resumes, policy>>
  BY DEF FailRun
<1>2. Shaped(w) /\ TypeOK /\ Rows /\ Progress
  BY ShapedWork DEF PlaceInv
<1>3. ASSUME open = w, open' = None, run' = [run EXCEPT !.state = "FAILED"], fresh' = {}
      PROVE  PlaceInv'
  <2>1. Becomes(w, Idle) /\ Idle.pc \notin Reporting
    BY <1>1, <1>2, IdleEffect DEF Leave, Idle, Reporting
  <2>2. /\ run'.state = "FAILED" /\ run'.snapshot = run.snapshot
        /\ run' \in [state : States, snapshot : SnapshotId]
    BY <1>2, <1>3, RunState DEF States
  <2>3. UNCHANGED <<snapshots, journal, reports, done, pinned>> /\ done \in Nat
    BY <1>1, <1>2 DEF workspaceVars, ledgerVars, TypeOK
  <2>4. run.state # "COMPLETED" /\ \A v \in Worker : work[v].pc \notin Reporting
    BY <1>2, <1>3, NoneIsNoWorker DEF Progress
  <2>5. \A v \in Worker : Ahead(v, work[v], done, None)
    BY <1>2, NoneIsNoWorker DEF Progress, Ahead
  <2>6. Progress'
    BY <1>3, <2>1, <2>2, <2>3, <2>4, <2>5, AheadIdle, ProgressSteps
  <2>7. TypeOK'
    BY <1>1, <1>2, <1>3, <2>2 DEF TypeOK, States, Leave, workspaceVars, repositoryVars, ledgerVars,
                                  artifactVars
  <2> QED
    BY <2>1, <2>2, <2>3, <2>6, <2>7, PlacedIdle, StillTables, PlacesOf
<1>4. ASSUME UNCHANGED <<open, run, fresh>>
      PROVE  PlaceInv'
  BY <1>1, <1>4, LeavePlaces DEF Leave, rowVars
<1> QED
  BY <1>3, <1>4 DEF FailRun

LEMMA CompleteRunPlaces ==
    ASSUME PlaceInv, NEW w \in Worker, CompleteRun(w)
    PROVE  PlaceInv'
<1> DEFINE r == work[w]
           q == Rec("report", r.at, r.base, r.seen, r.local, r.owned)
<1>1. /\ r.pc = "next" /\ r.seen[1] = 5
      /\ UNCHANGED <<workspaceVars, journal, done, open, tries, pinned, resumes, policy>>
  BY TaskSeqType DEF CompleteRun
<1>2. Shaped(w) /\ Placed(r, snapshots, journal) /\ TypeOK /\ Rows /\ Progress
  BY ShapedWork DEF PlaceInv
<1>3. ASSUME run' = [run EXCEPT !.state = "COMPLETED"], fresh' = {}, Goto(w, "report"),
             UNCHANGED holder
      PROVE  PlaceInv'
  <2>1. Becomes(w, q)
    BY <1>2, <1>3, GotoEffect
  <2>2. /\ run'.state = "COMPLETED" /\ run'.snapshot = run.snapshot
        /\ run' \in [state : States, snapshot : SnapshotId]
    BY <1>2, <1>3, RunState DEF States
  <2>3. /\ r.at \in Nat /\ r.base \in DOMAIN snapshots \cup {None} /\ r.seen \in (0 .. 5) \X Nat
        /\ "report" \in Label \ (Executing \cup Finishing \cup {"fail"})
    BY <1>2, LabelKinds DEF Placed, Seen, Resolved, Reporting
  <2>4. Placed(q, snapshots, journal)
    BY <2>3, PlacedOutside
  <2>5. q.pc = "report" /\ q.seen = r.seen
    BY Fields
  <2> HIDE DEF q
  <2>6. done = 5
    BY <1>1, <1>2, TaskSeqType DEF Progress, Ahead, TypeOK
  <2>7. UNCHANGED <<snapshots, journal, reports, done, open, pinned>> /\ open = None
    BY <1>1, <1>2, <2>6 DEF workspaceVars, ledgerVars, Progress
  <2>8. Ahead(w, q, done, open)
    BY <1>1, <2>5, <2>6, <2>7, NoneIsNoWorker DEF Ahead
  <2>9. \A v \in Worker : Ahead(v, work'[v], done, open)
    BY <1>2, <2>1, <2>8 DEF Becomes, Progress
  <2>10. Progress'
    BY <1>3, <2>2, <2>6, <2>7, <2>9 DEF Progress
  <2>11. TypeOK'
    BY <1>1, <1>2, <1>3, <2>2
       DEF TypeOK, States, workspaceVars, repositoryVars, ledgerVars, artifactVars
  <2> QED
    BY <2>1, <2>2, <2>4, <2>7, <2>10, <2>11, StillTables, PlacesOf
<1>4. ASSUME Leave(w), UNCHANGED <<run, fresh>>
      PROVE  PlaceInv'
  BY <1>1, <1>4, LeavePlaces DEF Leave, rowVars
<1> QED
  BY <1>3, <1>4 DEF CompleteRun

-----------------------------------------------------------------------------
\* Reports and resumes.

Recovering == {"load", "scan", "compare", "rebase", "list", "reconcile"}

\* A step of a report or a resume that moves one operation, and leaves the run alone.
LEMMA OutsidePlaces ==
    ASSUME PlaceInv, NEW w \in Worker, NEW pc \in Reporting \cup Recovering, NEW base, NEW local,
           Becomes(w, Rec(pc, work[w].at, base, work[w].seen, local, work[w].owned)),
           pc \in Reporting => work[w].pc \in Reporting,
           UNCHANGED <<done, open, run, fresh, pinned>>,
           Keeps(snapshots, snapshots', journal, journal'), TypeOK',
           JournalRows(journal', snapshots'), IsFiniteSet(DOMAIN snapshots'),
           reports' = [markdown |-> reports'.markdown, json |-> reports'.json],
           base \in DOMAIN snapshots' \cup {None},
           pc = "scan" => local \in Seq(Content) /\ Len(local) < NumPaths,
           pc = "compare" => local \in Seq(Content) /\ Len(local) = NumPaths,
           pc \in {"scan", "compare"} => base \in DOMAIN snapshots',
           pc = "rebase" => local \in DOMAIN snapshots',
           pc = "reconcile" => Uncertain(local, journal')
    PROVE  PlaceInv'
<1> DEFINE r == work[w]
           q == Rec(pc, r.at, base, r.seen, local, r.owned)
<1>1. /\ r.at \in Nat /\ r.seen \in (0 .. 5) \X Nat
  BY ShapedWork DEF Seen
<1>2. pc \in Label \ (Executing \cup Finishing \cup {"fail"}) /\ pc # "pin_resumed"
  BY LabelKinds DEF Recovering, Reporting
<1>3. Placed(q, snapshots', journal')
  BY <1>1, <1>2, PlacedOutside
<1>4. q.pc = pc /\ q.seen = r.seen
  BY Fields
<1>5. Becomes(w, q)
  OBVIOUS
<1> HIDE DEF q
<1>6. Ahead(w, r, done, open)
  BY DEF PlaceInv, Progress
<1>7. Ahead(w, q, done, open)
  <2>1. pc \notin Executing \cup {"renew", "commit", "fail", "pin", "update"}
    BY DEF Recovering, Reporting, Executing, Calling
  <2>2. CASE pc \in Reporting
    BY <1>4, <1>6, <2>1, <2>2 DEF Ahead
  <2>3. CASE pc \in Recovering
    BY <1>4, <1>6, <2>1, <2>3 DEF Ahead, Recovering, Reporting
  <2> QED
    BY <2>2, <2>3
<1>8. Progress'
  BY <1>4, <1>5, <1>7, ProgressOf DEF PlaceInv
<1>9. run'.snapshot \in DOMAIN snapshots' /\ pinned' \in DOMAIN snapshots'
  BY DEF PlaceInv, Rows, Keeps
<1> QED
  BY <1>3, <1>5, <1>8, <1>9, PlacesOf

\* The operation stops, and the journal or the reports changed.
LEMMA LeavesPlaces ==
    ASSUME PlaceInv, NEW w \in Worker, work' = [work EXCEPT ![w] = Idle],
           UNCHANGED <<done, open, run, fresh, pinned>>,
           Keeps(snapshots, snapshots', journal, journal'), TypeOK',
           JournalRows(journal', snapshots'), IsFiniteSet(DOMAIN snapshots'),
           reports' = [markdown |-> reports'.markdown, json |-> reports'.json]
    PROVE  PlaceInv'
<1>1. Becomes(w, Idle) /\ Idle.pc \notin Reporting
  BY ShapedWork, IdleEffect DEF Idle, Reporting
<1>2. done \in Nat
  BY DEF PlaceInv, TypeOK
<1>3. Progress'
  BY <1>1, <1>2, AheadIdle, ProgressOf DEF PlaceInv
<1>4. run'.snapshot \in DOMAIN snapshots' /\ pinned' \in DOMAIN snapshots'
  BY DEF PlaceInv, Rows, Keeps
<1> QED
  BY <1>1, <1>3, <1>4, PlacedIdle, PlacesOf

LEMMA ReadEvidencePlaces ==
    ASSUME PlaceInv, NEW w \in Worker, ReadEvidence(w)
    PROVE  PlaceInv'
<1> DEFINE r == work[w]
<1>1. /\ r.pc = "report" /\ GotoWith(w, "compose", evidence)
      /\ UNCHANGED <<workspaceVars, journal, rowVars, leaseVars>>
  BY DEF ReadEvidence
<1>2. Becomes(w, Rec("compose", r.at, r.base, r.seen, evidence, r.owned))
  BY <1>1, ShapedWork, GotoWithEffect
<1>3. "compose" \in Reporting /\ r.pc \in Reporting /\ r.base \in DOMAIN snapshots \cup {None}
  BY <1>1, ShapedWork DEF Reporting, Placed, Resolved
<1>4. UNCHANGED <<snapshots, journal, reports, done, open, run, fresh, pinned>>
  BY <1>1 DEF workspaceVars, ledgerVars, rowVars, leaseVars
<1>5. "compose" \notin {"scan", "compare", "rebase", "reconcile"}
  OBVIOUS
<1> QED
  BY <1>1, <1>2, <1>3, <1>4, <1>5, QuietTables, StillTables, OutsidePlaces

LEMMA SaveMarkdownPlaces ==
    ASSUME PlaceInv, NEW w \in Worker, SaveMarkdown(w)
    PROVE  PlaceInv'
<1> DEFINE r == work[w]
<1>1. /\ r.pc = "compose"
      /\ UNCHANGED <<repositoryVars, snapshots, evidence, claims, artifactVars, journal>>
      /\ UNCHANGED <<rowVars, fresh, resumes, policy>>
  BY DEF SaveMarkdown
<1>2. Shaped(w) /\ Placed(r, snapshots, journal) /\ TypeOK /\ Rows
  BY ShapedWork
<1>3. UNCHANGED <<snapshots, journal, done, open, run, fresh, pinned>>
  BY <1>1 DEF rowVars
<1>4. ASSUME reports' = [reports EXCEPT !.markdown = claims], GotoWith(w, "json", claims),
             UNCHANGED holder
      PROVE  PlaceInv'
  <2>1. Becomes(w, Rec("json", r.at, r.base, r.seen, claims, r.owned))
    BY <1>2, <1>4, GotoWithEffect
  <2>2. "json" \in Reporting /\ r.pc \in Reporting /\ r.base \in DOMAIN snapshots \cup {None}
    BY <1>1, <1>2 DEF Reporting, Placed, Resolved
  <2>3. TypeOK'
    BY <1>1, <1>2, <1>4 DEF TypeOK, repositoryVars, artifactVars, rowVars
  <2>4. reports' = [markdown |-> reports'.markdown, json |-> reports'.json]
    BY <1>2, <1>4 DEF Rows
  <2>5. JournalRows(journal', snapshots') /\ IsFiniteSet(DOMAIN snapshots')
    BY <1>1, <1>2 DEF Rows
  <2>6. "json" \notin {"scan", "compare", "rebase", "reconcile"}
    OBVIOUS
  <2> QED
    BY <1>3, <2>1, <2>2, <2>3, <2>4, <2>5, <2>6, KeepsSame, OutsidePlaces
<1>5. ASSUME Leave(w), UNCHANGED reports
      PROVE  PlaceInv'
  <2>1. UNCHANGED workspaceVars
    BY <1>1, <1>5 DEF workspaceVars, ledgerVars
  <2> QED
    BY <1>1, <1>5, <2>1, LeavePlaces DEF Leave
<1> QED
  BY <1>4, <1>5 DEF SaveMarkdown

LEMMA SaveJsonPlaces ==
    ASSUME PlaceInv, NEW w \in Worker, SaveJson(w)
    PROVE  PlaceInv'
<1>1. /\ reports' = [reports EXCEPT !.json = work[w].local] /\ Leave(w)
      /\ UNCHANGED <<repositoryVars, snapshots, evidence, claims, artifactVars, journal>>
      /\ UNCHANGED <<rowVars, fresh, resumes, policy>>
  BY DEF SaveJson
<1>2. TypeOK /\ Rows
  BY ShapedWork
<1>3. TypeOK'
  BY <1>1, <1>2 DEF TypeOK, repositoryVars, artifactVars, rowVars, Leave
<1>4. reports' = [markdown |-> reports'.markdown, json |-> reports'.json]
  BY <1>1, <1>2 DEF Rows
<1>5. JournalRows(journal', snapshots') /\ IsFiniteSet(DOMAIN snapshots')
  BY <1>1, <1>2 DEF Rows
<1>6. UNCHANGED <<snapshots, journal, done, open, run, fresh, pinned>>
  BY <1>1 DEF rowVars
<1> QED
  BY <1>1, <1>3, <1>4, <1>5, <1>6, KeepsSame, LeavesPlaces DEF Leave

LEMMA ResumeRunPlaces ==
    ASSUME PlaceInv, NEW w \in Worker, ResumeRun(w)
    PROVE  PlaceInv'
<1> DEFINE r == work[w]
           q == Rec("load", r.at, r.base, r.seen, r.local, r.owned)
<1>1. /\ r.pc = "idle" /\ run.state \in {"RUNNING", "RECOVERING"} /\ holder' = w
      /\ run' = [run EXCEPT !.state = "RECOVERING"] /\ resumes' = resumes + 1
      /\ UNCHANGED <<workspaceVars, journal, done, open, tries, pinned, policy>>
      /\ Goto(w, "load") /\ fresh' \in {fresh \cup {w}, {w}}
  BY DEF ResumeRun
<1>2. Shaped(w) /\ Placed(r, snapshots, journal) /\ TypeOK /\ Rows /\ Progress
  BY ShapedWork DEF PlaceInv
<1>3. Becomes(w, q)
  BY <1>1, <1>2, GotoEffect
<1>4. /\ run'.state = "RECOVERING" /\ run'.snapshot = run.snapshot
      /\ run' \in [state : States, snapshot : SnapshotId]
  BY <1>1, <1>2, RunState DEF States
<1>5. /\ r.at \in Nat /\ r.base \in DOMAIN snapshots \cup {None} /\ r.seen \in (0 .. 5) \X Nat
      /\ "load" \in Label \ (Executing \cup Finishing \cup {"fail"})
  BY <1>2, LabelKinds DEF Placed, Seen, Resolved
<1>6. Placed(q, snapshots, journal)
  BY <1>5, PlacedOutside
<1>7. q.pc = "load" /\ q.seen = r.seen
  BY Fields
<1> HIDE DEF q
<1>8. UNCHANGED <<snapshots, journal, reports, done, open, pinned>>
  BY <1>1 DEF workspaceVars, ledgerVars
<1>9. Ahead(w, q, done, open) /\ q.pc \notin Reporting
  BY <1>2, <1>7 DEF Progress, Ahead, Reporting, Executing, Calling
<1>10. \A v \in Worker : work[v].pc \notin Reporting
  BY <1>1, <1>2 DEF Progress
<1>11. Progress'
  BY <1>2, <1>3, <1>4, <1>8, <1>9, <1>10, ProgressSteps DEF Progress
<1>12. TypeOK'
  BY <1>1, <1>2, <1>4
     DEF TypeOK, States, workspaceVars, repositoryVars, ledgerVars, artifactVars
<1> QED
  BY <1>3, <1>4, <1>6, <1>8, <1>11, <1>12, StillTables, PlacesOf

LEMMA LoadCheckpointPlaces ==
    ASSUME PlaceInv, NEW w \in Worker, LoadCheckpoint(w)
    PROVE  PlaceInv'
<1> DEFINE r == work[w]
<1>1. UNCHANGED <<workspaceVars, journal, rowVars, leaseVars>>
  BY DEF LoadCheckpoint
<1>2. Becomes(w, Rec("scan", r.at, pinned, r.seen, <<>>, r.owned))
  BY ShapedWork, LoadEffect DEF LoadCheckpoint
<1>3. "scan" \in Recovering /\ pinned \in DOMAIN snapshots /\ "scan" \notin Reporting
  BY ShapedWork DEF Recovering, Reporting, Rows
<1>4. UNCHANGED <<snapshots, journal, reports, done, open, run, fresh, pinned>>
  BY <1>1 DEF workspaceVars, ledgerVars, rowVars, leaseVars
<1>5. /\ TypeOK' /\ JournalRows(journal', snapshots') /\ IsFiniteSet(DOMAIN snapshots')
      /\ Keeps(snapshots, snapshots', journal, journal')
      /\ reports' = [markdown |-> reports'.markdown, json |-> reports'.json]
  BY <1>1, <1>4, QuietTables, StillTables
<1>6. "scan" \notin {"compare", "rebase", "reconcile"} /\ pinned \in DOMAIN snapshots'
  BY <1>3, <1>4
<1> QED
  BY <1>2, <1>3, <1>4, <1>5, <1>6, EmptyWalk, OutsidePlaces

LEMMA ScanPlaces ==
    ASSUME PlaceInv, NEW w \in Worker, WalkFile(w), work[w].pc = "scan"
    PROVE  PlaceInv'
<1> DEFINE r == work[w]
           found == Append(r.local, files[Len(r.local) + 1])
           pc == IF Len(found) < NumPaths THEN "scan" ELSE "compare"
<1>1. /\ GotoWith(w, pc, found) /\ UNCHANGED <<workspaceVars, journal, rowVars, leaseVars>>
  BY DEF WalkFile
<1>2. Shaped(w) /\ Placed(r, snapshots, journal)
  BY ShapedWork
<1>3. r.local \in Seq(Content) /\ Len(r.local) < NumPaths /\ r.base \in DOMAIN snapshots
  BY <1>2 DEF Placed, Walking, Resolved
<1>4. found \in Seq(Content) /\ Len(found) <= NumPaths /\ Len(found) \in Nat
  BY <1>3, WalkedType DEF PlaceInv
<1>5. Becomes(w, Rec(pc, r.at, r.base, r.seen, found, r.owned))
  BY <1>1, <1>2, GotoWithEffect
<1> HIDE DEF found
<1>6. /\ pc \in {"scan", "compare"} /\ (pc = "scan" => Len(found) < NumPaths)
      /\ (pc = "compare" => Len(found) = NumPaths)
  BY <1>4, PathType
<1> HIDE DEF pc
<1>7. pc \in Recovering /\ pc \notin Reporting
  BY <1>6 DEF Recovering, Reporting
<1>8. UNCHANGED <<snapshots, journal, reports, done, open, run, fresh, pinned>>
  BY <1>1 DEF workspaceVars, ledgerVars, rowVars, leaseVars
<1> QED
  BY <1>1, <1>3, <1>4, <1>5, <1>6, <1>7, <1>8, QuietTables, StillTables, OutsidePlaces

LEMMA WalkFilePlaces ==
    ASSUME PlaceInv, NEW w \in Worker, WalkFile(w)
    PROVE  PlaceInv'
  BY WalkPlaces, ScanPlaces DEF WalkFile

LEMMA FreshIdType ==
    ASSUME PlaceInv
    PROVE  FreshId \in SnapshotId
<1> DEFINE S == {id \in DOMAIN snapshots : id[1] = "resume"}
<1>1. IsFiniteSet(S)
  BY FS_Subset DEF PlaceInv, Rows
<1>2. Cardinality(S) \in Nat
  BY <1>1, FS_CardinalityType
<1> QED
  BY <1>2 DEF FreshId, SnapshotId

LEMMA ValidateTypes ==
    ASSUME PlaceInv, NEW w \in Worker, work[w].pc = "compare"
    PROVE  /\ work[w].local \in Seq(Content) /\ Len(work[w].local) = NumPaths
           /\ work[w].base \in DOMAIN snapshots /\ snapshots[work[w].base] \in Manifest
           /\ Index(work[w].local, snapshots[work[w].base]) \in Manifest
<1>1. /\ work[w].local \in Seq(Content) /\ Len(work[w].local) = NumPaths
      /\ work[w].base \in DOMAIN snapshots
  BY ShapedWork DEF Placed, Walking, Resolved
<1>2. snapshots[work[w].base] \in Manifest
  BY <1>1, ShapedWork DEF TypeOK
<1> QED
  BY <1>1, <1>2, FoundType, IndexType

LEMMA ValidateRepositoryPlaces ==
    ASSUME PlaceInv, NEW w \in Worker, ValidateRepository(w)
    PROVE  PlaceInv'
<1> DEFINE r == work[w]
           current == Index(r.local, snapshots[r.base])
<1>1. /\ r.pc = "compare"
      /\ UNCHANGED <<repositoryVars, ledgerVars, artifactVars, journal, rowVars>>
      /\ UNCHANGED <<fresh, resumes, policy>>
  BY DEF ValidateRepository
<1>2. Shaped(w) /\ r.base \in DOMAIN snapshots /\ current \in Manifest
  BY <1>1, ShapedWork, ValidateTypes
<1> HIDE DEF current
<1>3. UNCHANGED <<journal, reports, done, open, run, fresh, pinned>>
  BY <1>1 DEF ledgerVars, rowVars
<1>4. ASSUME Goto(w, "list"), UNCHANGED <<snapshots, holder>>
      PROVE  PlaceInv'
  <2>1. Becomes(w, Rec("list", r.at, r.base, r.seen, r.local, r.owned))
    BY <1>2, <1>4, GotoEffect
  <2>2. "list" \in Recovering /\ "list" \notin Reporting \cup {"scan", "compare", "rebase", "reconcile"}
    BY DEF Recovering, Reporting
  <2>3. UNCHANGED <<workspaceVars, journal, rowVars, leaseVars>>
    BY <1>1, <1>4 DEF workspaceVars, leaseVars
  <2> QED
    BY <1>2, <1>3, <1>4, <2>1, <2>2, <2>3, QuietTables, StillTables, OutsidePlaces
<1>5. ASSUME Leave(w), UNCHANGED snapshots
      PROVE  PlaceInv'
  <2>1. UNCHANGED workspaceVars
    BY <1>1, <1>5 DEF workspaceVars
  <2> QED
    BY <1>1, <1>5, <2>1, LeavePlaces DEF Leave
<1>6. ASSUME SaveIndex(FreshId, current), GotoWith(w, "rebase", FreshId), UNCHANGED holder
      PROVE  PlaceInv'
  <2> DEFINE id == FreshId
  <2>1. id \in SnapshotId /\ holder' \in Worker \cup {None}
    BY <1>6, FreshIdType, ShapedWork DEF TypeOK
  <2> HIDE DEF id
  <2>2. SaveIndex(id, current) /\ GotoWith(w, "rebase", id)
    BY <1>6 DEF id
  <2>3. /\ TypeOK' /\ JournalRows(journal', snapshots') /\ IsFiniteSet(DOMAIN snapshots')
        /\ Keeps(snapshots, snapshots', journal, journal') /\ id \in DOMAIN snapshots'
    BY <1>1, <1>2, <2>1, <2>2, SavedTypes
  <2>4. Becomes(w, Rec("rebase", r.at, r.base, r.seen, id, r.owned))
    BY <1>2, <2>2, GotoWithEffect
  <2>5. "rebase" \in Recovering /\ "rebase" \notin Reporting /\ r.base \in DOMAIN snapshots'
    BY <1>2, <2>3 DEF Recovering, Reporting, Keeps
  <2>6. reports' = [markdown |-> reports'.markdown, json |-> reports'.json]
    BY <1>3, ShapedWork DEF Rows
  <2>7. "rebase" \notin {"scan", "compare", "reconcile"}
    OBVIOUS
  <2> QED
    BY <1>3, <2>3, <2>4, <2>5, <2>6, <2>7, OutsidePlaces
<1> QED
  BY <1>4, <1>5, <1>6 DEF ValidateRepository, current

LEMMA RebaseRunPlaces ==
    ASSUME PlaceInv, NEW w \in Worker, RebaseRun(w)
    PROVE  PlaceInv'
<1> DEFINE r == work[w]
           q == Rec("list", r.at, r.base, r.seen, r.local, r.owned)
<1>1. /\ r.pc = "rebase"
      /\ UNCHANGED <<workspaceVars, journal, done, open, tries, pinned, resumes, policy>>
  BY DEF RebaseRun
<1>2. Shaped(w) /\ Placed(r, snapshots, journal) /\ TypeOK /\ Rows /\ Progress
  BY ShapedWork DEF PlaceInv
<1>3. ASSUME w \in fresh, run' = [run EXCEPT !.snapshot = r.local], fresh' = {w}, Goto(w, "list"),
             UNCHANGED holder
      PROVE  PlaceInv'
  <2>1. Becomes(w, q)
    BY <1>2, <1>3, GotoEffect
  <2>2. r.local \in DOMAIN snapshots /\ r.local \in SnapshotId
    BY <1>1, <1>2 DEF Placed, Resolved, TypeOK
  <2>3. /\ run'.state = run.state /\ run'.snapshot = r.local
        /\ run' \in [state : States, snapshot : SnapshotId]
    BY <1>2, <1>3, <2>2, RunSnapshot
  <2>4. /\ r.at \in Nat /\ r.base \in DOMAIN snapshots \cup {None} /\ r.seen \in (0 .. 5) \X Nat
        /\ "list" \in Label \ (Executing \cup Finishing \cup {"fail"})
    BY <1>2, LabelKinds DEF Placed, Seen, Resolved
  <2>5. Placed(q, snapshots, journal)
    BY <2>4, PlacedOutside
  <2>6. q.pc = "list" /\ q.seen = r.seen
    BY Fields
  <2> HIDE DEF q
  <2>7. UNCHANGED <<snapshots, journal, reports, done, open, pinned>>
    BY <1>1 DEF workspaceVars, ledgerVars
  <2>8. Ahead(w, q, done, open) /\ q.pc \notin Reporting
    BY <1>2, <2>6 DEF Progress, Ahead, Reporting, Executing, Calling
  <2>9. run.state # "COMPLETED"
    BY <1>2, <1>3 DEF Progress
  <2>10. Progress'
    BY <1>2, <2>1, <2>3, <2>7, <2>8, <2>9, ProgressSteps DEF Progress
  <2>11. TypeOK'
    BY <1>1, <1>2, <1>3, <2>3
       DEF TypeOK, States, workspaceVars, repositoryVars, ledgerVars, artifactVars
  <2> QED
    BY <2>1, <2>2, <2>3, <2>5, <2>7, <2>10, <2>11, StillTables, PlacesOf
<1>4. ASSUME Leave(w), UNCHANGED <<run, fresh>>
      PROVE  PlaceInv'
  BY <1>1, <1>4, LeavePlaces DEF Leave, rowVars
<1> QED
  BY <1>3, <1>4 DEF RebaseRun

LEMMA UncertainCallsPlaces ==
    ASSUME PlaceInv, NEW w \in Worker, UncertainCalls(w)
    PROVE  PlaceInv'
<1> DEFINE r == work[w]
<1>0. PICK calls : calls = {k \in Key : journal[k].status = "RUNNING"}
  OBVIOUS
<1>1. GotoWith(w, "reconcile", calls) /\ UNCHANGED <<workspaceVars, journal, rowVars, leaseVars>>
  BY <1>0 DEF UncertainCalls
<1>2. Becomes(w, Rec("reconcile", r.at, r.base, r.seen, calls, r.owned))
  BY <1>1, ShapedWork, GotoWithEffect
<1>3. /\ "reconcile" \in Recovering /\ "reconcile" \notin Reporting
      /\ r.base \in DOMAIN snapshots \cup {None}
  BY ShapedWork DEF Recovering, Reporting, Placed, Resolved
<1>4. UNCHANGED <<snapshots, journal, reports, done, open, run, fresh, pinned>>
  BY <1>1 DEF workspaceVars, ledgerVars, rowVars, leaseVars
<1>5. Uncertain(calls, journal')
  BY <1>0, <1>4 DEF Uncertain
<1>6. /\ TypeOK' /\ JournalRows(journal', snapshots') /\ IsFiniteSet(DOMAIN snapshots')
      /\ Keeps(snapshots, snapshots', journal, journal')
      /\ reports' = [markdown |-> reports'.markdown, json |-> reports'.json]
  BY <1>1, <1>4, QuietTables, StillTables
<1>7. "reconcile" \notin {"scan", "compare", "rebase"} /\ r.base \in DOMAIN snapshots' \cup {None}
  BY <1>3, <1>4
<1> QED
  BY <1>2, <1>3, <1>4, <1>5, <1>6, <1>7, OutsidePlaces

\* What a reconciled call gets for a result is of its kind.
LEMMA OutputType ==
    ASSUME PlaceInv, NEW key \in Key, Observed(key)
    PROVE  /\ Output(key) \in Answer(key[2]) /\ Output(key) # None
           /\ key[2] = "index" => IsIndex(Output(key), key[1], snapshots)
<1>1. TypeOK
  BY DEF PlaceInv
<1>2. CASE key[2] = "index"
  <2>1. Output(key) = SnapshotOf(key[1]) /\ SnapshotOf(key[1]) \in DOMAIN snapshots
    BY <1>2 DEF Observed, Output, Known
  <2>2. Output(key) \in Answer("index")
    BY <1>1, <2>1 DEF TypeOK, Answer
  <2> QED
    BY <1>2, <2>1, <2>2, AnswerAssumption DEF IsIndex, Tool
<1>3. CASE key[2] = "write"
  <2>1. Output(key) \in Answer("write")
    BY <1>3 DEF Output, Answer
  <2> QED
    BY <1>3, <2>1, AnswerAssumption DEF Tool
<1> QED
  BY <1>2, <1>3 DEF Observed

LEMMA ReconcilePlaces ==
    ASSUME PlaceInv, NEW w \in Worker, Reconcile(w)
    PROVE  PlaceInv'
<1> DEFINE r == work[w]
<1>1. r.pc = "reconcile" /\ UNCHANGED <<workspaceVars, rowVars, fresh, resumes, policy>>
  BY DEF Reconcile
<1>2. /\ Shaped(w) /\ Placed(r, snapshots, journal) /\ TypeOK /\ Rows
      /\ JournalRows(journal, snapshots)
  BY ShapedWork
<1>3. Uncertain(r.local, journal) /\ r.base \in DOMAIN snapshots \cup {None}
  BY <1>1, <1>2 DEF Placed, Resolved
<1>4. UNCHANGED <<snapshots, reports, done, open, run, fresh, pinned>>
  BY <1>1 DEF workspaceVars, ledgerVars, rowVars
<1>5. /\ IsFiniteSet(DOMAIN snapshots')
      /\ reports' = [markdown |-> reports'.markdown, json |-> reports'.json]
  BY <1>2, <1>4 DEF Rows
<1>6. PICK key \in r.local :
         LET row == journal[key]
             goOn == GotoWith(w, "reconcile", r.local \ {key}) /\ UNCHANGED holder IN
          \/ /\ Observed(key) /\ row.result = None
             /\ SetCall(key, [row EXCEPT !.status = "SUCCEEDED", !.result = Output(key)])
             /\ goOn
          \/ Observed(key) /\ row.result # None /\ Leave(w) /\ UNCHANGED journal
          \/ /\ ~ Observed(key) /\ key[2] \in RetrySafe
             /\ SetCall(key, [row EXCEPT !.status = "FAILED"])
             /\ goOn
          \/ /\ ~ Observed(key) /\ key[2] \notin RetrySafe
             /\ SetCall(key, [row EXCEPT !.status = "NEEDS_REVIEW"])
             /\ Leave(w)
  BY DEF Reconcile
<1> DEFINE row == journal[key]
           new == [row EXCEPT !.status = "SUCCEEDED", !.result = Output(key)]
           failed == [row EXCEPT !.status = "FAILED"]
           review == [row EXCEPT !.status = "NEEDS_REVIEW"]
           goOn == GotoWith(w, "reconcile", r.local \ {key}) /\ UNCHANGED holder
<1>7. key \in Key /\ row.status # "absent" /\ IsRow(row) /\ row.args \in Input(key[2])
  BY <1>2, <1>3 DEF Uncertain, JournalRows, TypeOK
<1>8. ASSUME NEW other, Stored(key, other), IsRow(other), other.status \in Status \ {"absent"},
             other.args = row.args, row.result # None => other.result = row.result,
             other.result # None => /\ other.result \in Answer(key[2])
                                    /\ key[2] = "index" => IsIndex(other.result, key[1], snapshots),
             \/ goOn
             \/ Leave(w)
      PROVE  PlaceInv'
  <2>1. Keeps(snapshots, snapshots', journal, journal')
    BY <1>4, <1>7, <1>8, KeepsStored DEF Status
  <2>2. holder' \in Worker \cup {None}
    BY <1>2, <1>8 DEF Leave, TypeOK
  <2>3. \A k \in Key : journal'[k] = IF k = key THEN other ELSE journal[k]
    BY <1>8 DEF Stored
  <2>4. \A k \in Key :
           /\ journal'[k].status \in Status
           /\ journal'[k].status # "absent" => journal'[k].args \in Input(k[2])
           /\ journal'[k].result # None => journal'[k].result \in Answer(k[2])
    BY <1>2, <1>7, <1>8, <2>3 DEF TypeOK, Status
  <2>5. TypeOK'
    BY <1>1, <1>2, <2>2, <2>4
       DEF TypeOK, Status, workspaceVars, repositoryVars, ledgerVars, artifactVars, rowVars
  <2>6. JournalRows(journal', snapshots')
    BY <1>2, <1>4, <1>8, <2>3 DEF JournalRows, Stored
  <2>7. CASE goOn
    <3>1. Becomes(w, Rec("reconcile", r.at, r.base, r.seen, r.local \ {key}, r.owned))
      BY <1>2, <2>7, GotoWithEffect
    <3>2. Uncertain(r.local \ {key}, journal')
      BY <1>3, <2>1 DEF Uncertain, Keeps
    <3>3. /\ "reconcile" \in Recovering /\ "reconcile" \notin Reporting
          /\ "reconcile" \notin {"scan", "compare", "rebase"}
      BY DEF Recovering, Reporting
    <3>4. r.base \in DOMAIN snapshots' \cup {None}
      BY <1>3, <1>4
    <3> QED
      BY <1>4, <1>5, <2>1, <2>5, <2>6, <3>1, <3>2, <3>3, <3>4, OutsidePlaces
  <2>8. CASE Leave(w)
    BY <1>4, <1>5, <2>1, <2>5, <2>6, <2>8, LeavesPlaces DEF Leave
  <2> QED
    BY <1>8, <2>7, <2>8
<1>9. /\ failed = Row("FAILED", row.args, row.result)
      /\ review = Row("NEEDS_REVIEW", row.args, row.result)
  BY <1>7, RowStatus
<1>10. new = Row("SUCCEEDED", row.args, Output(key))
  <2>1. Finished(row, Output(key)) = Row("SUCCEEDED", row.args, Output(key))
    BY <1>7, RowResult
  <2> QED
    BY <2>1 DEF Finished
<1>11. /\ row.result # None => row.result \in Answer(key[2])
       /\ row.result # None /\ key[2] = "index" => IsIndex(row.result, key[1], snapshots)
       /\ journal = [k \in Key |-> journal[k]]
  BY <1>2, <1>7 DEF TypeOK, JournalRows
<1> HIDE DEF new, failed, review
<1>12. CASE Observed(key) /\ row.result = None /\ SetCall(key, new) /\ goOn
  <2>1. Stored(key, new)
    BY <1>7, <1>11, <1>12, SetCallEffect
  <2>2. /\ new.status = "SUCCEEDED" /\ new.args = row.args /\ new.result = Output(key) /\ IsRow(new)
    BY <1>10, RowFields
  <2>3. new.status \in Status \ {"absent"}
    BY <2>2 DEF Status
  <2>4. new.result \in Answer(key[2]) /\ (key[2] = "index" => IsIndex(new.result, key[1], snapshots))
    BY <1>7, <1>12, <2>2, OutputType
  <2> QED
    BY <1>8, <1>12, <2>1, <2>2, <2>3, <2>4
<1>13. CASE Leave(w) /\ UNCHANGED journal
  BY <1>1, <1>13, LeavePlaces DEF Leave
<1>14. CASE SetCall(key, failed) /\ goOn
  <2>1. Stored(key, failed)
    BY <1>7, <1>11, <1>14, SetCallEffect
  <2>2. /\ failed.status = "FAILED" /\ failed.args = row.args /\ failed.result = row.result
        /\ IsRow(failed)
    BY <1>9, RowFields
  <2>3. failed.status \in Status \ {"absent"}
    BY <2>2 DEF Status
  <2> QED
    BY <1>8, <1>11, <1>14, <2>1, <2>2, <2>3
<1>15. CASE SetCall(key, review) /\ Leave(w)
  <2>1. Stored(key, review)
    BY <1>7, <1>11, <1>15, SetCallEffect
  <2>2. /\ review.status = "NEEDS_REVIEW" /\ review.args = row.args /\ review.result = row.result
        /\ IsRow(review)
    BY <1>9, RowFields
  <2>3. review.status \in Status \ {"absent"}
    BY <2>2 DEF Status
  <2> QED
    BY <1>8, <1>11, <1>15, <2>1, <2>2, <2>3
<1> QED
  BY <1>6, <1>12, <1>13, <1>14, <1>15 DEF new, failed, review

LEMMA RecoverTaskPlaces ==
    ASSUME PlaceInv, NEW w \in Worker, RecoverTask(w)
    PROVE  PlaceInv'
<1> DEFINE r == work[w]
           q == Rec("return", r.at, r.base, r.seen, r.local, r.owned)
<1>1. /\ r.pc = "reconcile" /\ open' = None /\ Goto(w, "return")
      /\ UNCHANGED <<workspaceVars, journal, run, done, tries, pinned, leaseVars>>
  BY DEF RecoverTask
<1>2. Shaped(w) /\ Placed(r, snapshots, journal) /\ TypeOK /\ Rows /\ Progress
  BY ShapedWork DEF PlaceInv
<1>3. Becomes(w, q)
  BY <1>1, <1>2, GotoEffect
<1>4. /\ r.at \in Nat /\ r.base \in DOMAIN snapshots \cup {None} /\ r.seen \in (0 .. 5) \X Nat
      /\ "return" \in Label \ (Executing \cup Finishing \cup {"fail"})
  BY <1>2, LabelKinds DEF Placed, Seen, Resolved
<1>5. Placed(q, snapshots, journal)
  BY <1>4, PlacedOutside
<1>6. q.pc = "return" /\ q.seen = r.seen
  BY Fields
<1> HIDE DEF q
<1>7. UNCHANGED <<snapshots, journal, reports, done, run, pinned, fresh>>
  BY <1>1 DEF workspaceVars, ledgerVars, leaseVars
<1>8. Ahead(w, q, done, None) /\ q.pc \notin Reporting
  BY <1>2, <1>6, NoneIsNoWorker DEF Progress, Ahead, Reporting
<1>9. \A v \in Worker : Ahead(v, work[v], done, None)
  BY <1>2, NoneIsNoWorker DEF Progress, Ahead
<1>10. Progress'
  BY <1>1, <1>2, <1>3, <1>7, <1>8, <1>9, ProgressSteps DEF Progress
<1>11. TypeOK'
  BY <1>1, <1>2 DEF TypeOK, workspaceVars, repositoryVars, ledgerVars, artifactVars, leaseVars
<1> QED
  BY <1>3, <1>5, <1>7, <1>10, <1>11, StillTables, PlacesOf

LEMMA ReturnToRunningPlaces ==
    ASSUME PlaceInv, NEW w \in Worker, ReturnToRunning(w)
    PROVE  PlaceInv'
<1> DEFINE r == work[w]
           q == Rec("pin_resumed", r.at, run.snapshot, r.seen, r.local, r.owned)
<1>1. /\ r.pc = "return"
      /\ UNCHANGED <<workspaceVars, journal, done, open, tries, pinned, resumes, policy>>
  BY DEF ReturnToRunning
<1>2. Shaped(w) /\ Placed(r, snapshots, journal) /\ TypeOK /\ Rows /\ Progress
  BY ShapedWork DEF PlaceInv
<1>3. ASSUME w \in fresh, run' = [run EXCEPT !.state = "RUNNING"], fresh' = {}, UNCHANGED holder,
             work' = [work EXCEPT ![w].pc = "pin_resumed", ![w].base = run.snapshot]
      PROVE  PlaceInv'
  <2>1. Becomes(w, q)
    BY <1>2, <1>3, RebaseEffect
  <2>2. /\ run'.state = "RUNNING" /\ run'.snapshot = run.snapshot
        /\ run' \in [state : States, snapshot : SnapshotId]
    BY <1>2, <1>3, RunState DEF States
  <2>3. /\ r.at \in Nat /\ run.snapshot \in DOMAIN snapshots /\ r.seen \in (0 .. 5) \X Nat
        /\ "pin_resumed" \in Label \ (Executing \cup Finishing \cup {"fail"})
    BY <1>2, LabelKinds DEF Placed, Seen, Resolved, Rows
  <2>4. Placed(q, snapshots, journal)
    BY <2>3, PlacedOutside
  <2>5. q.pc = "pin_resumed" /\ q.seen = r.seen
    BY Fields
  <2> HIDE DEF q
  <2>6. UNCHANGED <<snapshots, journal, reports, done, open, pinned>>
    BY <1>1 DEF workspaceVars, ledgerVars
  <2>7. Ahead(w, q, done, open) /\ q.pc \notin Reporting
    BY <1>1, <1>2, <2>5 DEF Progress, Ahead, Reporting, Executing, Calling
  <2>8. run.state # "COMPLETED"
    BY <1>2, <1>3 DEF Progress
  <2>9. Progress'
    BY <1>2, <2>1, <2>2, <2>6, <2>7, <2>8, ProgressSteps DEF Progress
  <2>10. TypeOK'
    BY <1>1, <1>2, <1>3, <2>2
       DEF TypeOK, States, workspaceVars, repositoryVars, ledgerVars, artifactVars
  <2> QED
    BY <2>1, <2>2, <2>4, <2>6, <2>9, <2>10, StillTables, PlacesOf
<1>4. ASSUME Leave(w), UNCHANGED <<run, fresh>>
      PROVE  PlaceInv'
  BY <1>1, <1>4, LeavePlaces DEF Leave, rowVars
<1> QED
  BY <1>3, <1>4 DEF ReturnToRunning

LEMMA PinResumedPlaces ==
    ASSUME PlaceInv, NEW w \in Worker, PinResumed(w)
    PROVE  PlaceInv'
<1> DEFINE r == work[w]
           q == Rec("next", r.at, r.base, <<done, tries>>, None, r.owned)
<1>1. /\ r.pc = "pin_resumed" /\ pinned' = r.base
      /\ UNCHANGED <<workspaceVars, journal, run, done, open, tries, leaseVars>>
  BY DEF PinResumed
<1>2. Shaped(w) /\ Placed(r, snapshots, journal) /\ TypeOK /\ Rows /\ Progress
  BY ShapedWork DEF PlaceInv
<1>3. Becomes(w, q)
  BY <1>2, PinEffect DEF PinResumed
<1>4. /\ r.at \in Nat /\ r.base \in DOMAIN snapshots /\ done \in 0 .. 5 /\ tries \in Nat
      /\ "next" \in Label \ (Executing \cup Finishing \cup {"fail"})
  BY <1>1, <1>2, LabelKinds, TaskSeqType DEF Placed, Seen, Resolved, TypeOK
<1>5. <<done, tries>> \in (0 .. 5) \X Nat
  BY <1>4
<1>6. Placed(q, snapshots, journal)
  BY <1>4, <1>5, PlacedOutside
<1>7. q.pc = "next" /\ q.seen[1] = done
  BY Fields
<1> HIDE DEF q
<1>8. UNCHANGED <<snapshots, journal, reports, done, open, run, fresh>>
  BY <1>1 DEF workspaceVars, ledgerVars, leaseVars
<1>9. Ahead(w, q, done, open) /\ q.pc \notin Reporting
  BY <1>1, <1>2, <1>4, <1>7 DEF Progress, Ahead, Reporting, Executing, Calling
<1>10. Progress'
  BY <1>2, <1>3, <1>8, <1>9, ProgressOf
<1>11. TypeOK'
  BY <1>1, <1>2, <1>4
     DEF TypeOK, workspaceVars, repositoryVars, ledgerVars, artifactVars, leaseVars
<1> QED
  BY <1>1, <1>3, <1>4, <1>6, <1>8, <1>10, <1>11, StillTables, PlacesOf

-----------------------------------------------------------------------------
\* Others, and the induction.

LEMMA EditPlaces ==
    ASSUME PlaceInv, NEW p \in Path, Edit(p), UNCHANGED <<snapshots, ledgerVars, artifactVars>>,
           UNCHANGED <<journal, rowVars, leaseVars, work>>
    PROVE  PlaceInv'
<1>1. TypeOK
  BY DEF PlaceInv
<1>2. PICK content \in {Edition(edits + 2, anchored) : anchored \in BOOLEAN} \cup {Gone} :
         Put(p, content)
  BY DEF Edit
<1>3. edits \in Nat /\ edits' = edits + 1 /\ written' = written
  BY <1>1 DEF Edit, TypeOK
<1>4. content \in Content
  <2>1. (edits + 2) \in Nat
    BY <1>3
  <2>2. \A anchored \in BOOLEAN : Edition(edits + 2, anchored) \in Content
    BY <2>1, EditionType
  <2> QED
    BY <2>2, GoneType
<1>5. files' \in [Path -> Content] /\ held' \in [Path -> SUBSET Content]
  BY <1>1, <1>2, <1>4, PutType
<1>6. edits' \in Nat /\ {held', written'} \subseteq [Path -> SUBSET Content]
  BY <1>1, <1>3, <1>5 DEF TypeOK
<1>7. TypeOK'
  BY <1>1, <1>5, <1>6 DEF TypeOK, ledgerVars, artifactVars, rowVars, leaseVars
<1> QED
  BY <1>7 DEF PlaceInv, Rows, Progress, ledgerVars, rowVars, leaseVars

LEMMA MaintenancePlaces ==
    ASSUME PlaceInv, Maintenance, UNCHANGED <<journal, rowVars, leaseVars, work>>
    PROVE  PlaceInv'
<1>1. TypeOK /\ UNCHANGED <<files, held, written, snapshots, ledgerVars>>
  BY DEF PlaceInv, Maintenance
<1>2. /\ artifact' \in [stored : Manifest \cup {None}, old : BOOLEAN]
      /\ catalogue' = catalogue /\ known' \in BOOLEAN \cup {None} /\ edits' \in Nat
  <2>1. CASE Age
    <3>1. edits' \in Nat
      BY <1>1, <2>1 DEF Age, TypeOK
    <3>2. artifact' \in [stored : Manifest \cup {None}, old : BOOLEAN]
      BY <1>1, <2>1 DEF Age, TypeOK
    <3>3. catalogue' = catalogue /\ known' = known
      BY <2>1 DEF Age
    <3> QED
      BY <1>1, <3>1, <3>2, <3>3 DEF TypeOK
  <2>2. CASE ListCatalogue
    BY <1>1, <2>2 DEF ListCatalogue, TypeOK
  <2>3. CASE PruneOrphans
    BY <1>1, <2>3 DEF PruneOrphans, TypeOK, Missing
  <2> QED
    BY <2>1, <2>2, <2>3 DEF Maintenance
<1>3. TypeOK'
  BY <1>1, <1>2 DEF TypeOK, ledgerVars, rowVars, leaseVars
<1> QED
  BY <1>1, <1>3 DEF PlaceInv, Rows, Progress, ledgerVars, rowVars, leaseVars

LEMMA StutterPlaces ==
    ASSUME PlaceInv, UNCHANGED vars
    PROVE  PlaceInv'
<1>1. UNCHANGED <<workspaceVars, journal, rowVars, leaseVars>> /\ UNCHANGED work
  BY DEF vars
<1>2. TypeOK'
  BY <1>1, TypeSame DEF PlaceInv
<1> QED
  BY <1>1, <1>2 DEF PlaceInv, Rows, Progress, workspaceVars, ledgerVars, rowVars, leaseVars

LEMMA ExecutePlaced ==
    ASSUME PlaceInv, NEW w \in Worker, Execute(w)
    PROVE  PlaceInv'
  BY CallToolPlaces, ToolRaisesPlaces, RecordResultPlaces, ReadFilePlaces, CompareFilePlaces,
     ReplaceFilePlaces, FindIndexPlaces, WalkFilePlaces, SaveSnapshotPlaces, SearchPlaces,
     RecordMapPlaces, RunTestsPlaces, CataloguePlaces, RecordEvidencePlaces, MakeClaimPlaces,
     ListEvidencePlaces, VerifyRunPlaces DEF Execute

LEMMA AttemptPlaced ==
    ASSUME PlaceInv, NEW w \in Worker, Attempt(w)
    PROVE  PlaceInv'
  BY AdvancePlaces, StartTaskPlaces, RenewLeasePlaces, CommitTaskPlaces, UpdateRunPlaces,
     WriteCheckpointPlaces, FailRunPlaces, CompleteRunPlaces, ReadEvidencePlaces,
     SaveMarkdownPlaces, SaveJsonPlaces DEF Attempt

LEMMA ResumePlaced ==
    ASSUME PlaceInv, NEW w \in Worker, Resume(w)
    PROVE  PlaceInv'
  BY ResumeRunPlaces, LoadCheckpointPlaces, ValidateRepositoryPlaces, RebaseRunPlaces,
     UncertainCallsPlaces, ReconcilePlaces, RecoverTaskPlaces, ReturnToRunningPlaces,
     PinResumedPlaces DEF Resume

LEMMA PlaceStep ==
    ASSUME PlaceInv, [Next]_vars
    PROVE  PlaceInv'
<1>1. ASSUME NEW w \in Worker, Execute(w) \/ Attempt(w) \/ Resume(w) \/ Crash(w)
      PROVE  PlaceInv'
  BY <1>1, ExecutePlaced, AttemptPlaced, ResumePlaced, CrashPlaces
<1>2. CASE Outside /\ UNCHANGED <<journal, rowVars, leaseVars, work>>
  BY <1>2, EditPlaces, MaintenancePlaces DEF Outside
<1>3. CASE UNCHANGED vars
  BY <1>3, StutterPlaces
<1> QED
  BY <1>1, <1>2, <1>3 DEF Next

LEMMA InitPlaces ==
    ASSUME Init
    PROVE  PlaceInv
<1>1. WorkspaceInit /\ files = [p \in Path |-> Edition(1, TRUE)]
  BY DEF Init, WorkspaceInit
<1>2. Nothing \in Manifest
  BY GoneType DEF Nothing, Manifest, NoEntry, Entry
<1>3. \A p \in Path : files[p] \in Content
  BY <1>1, EditionType
<1>4. Index(files, Nothing) \in Manifest
  BY <1>2, <1>3, IndexType
<1>5. /\ DOMAIN snapshots = {Created} /\ snapshots[Created] = Index(files, Nothing)
  BY <1>1 DEF WorkspaceInit
<1>6. Created \in SnapshotId /\ IsFiniteSet({Created})
  BY FS_Singleton DEF Created, SnapshotId
<1>7. /\ files \in [Path -> Content] /\ held \in [Path -> SUBSET Content]
      /\ written \in [Path -> SUBSET Content] /\ edits \in Nat
  BY <1>1, <1>3 DEF WorkspaceInit
<1>8. /\ evidence = {} /\ artifact = [stored |-> None, old |-> FALSE] /\ catalogue = None
      /\ known = None /\ reports = [markdown |-> None, json |-> None]
  BY <1>1 DEF WorkspaceInit, Missing
<1>9. /\ journal = [k \in Key |-> NoCall] /\ NoCall = Row("absent", None, None)
      /\ run = [state |-> "RUNNING", snapshot |-> Created] /\ done = 0 /\ open = None /\ tries = 0
      /\ pinned = Created /\ holder = None /\ fresh = {} /\ resumes = 0 /\ policy \in DriftPolicies
      /\ work = [w \in Worker |-> Idle]
  BY DEF Init, NoCall, Row
<1>10. NoCall.status = "absent" /\ NoCall.args = None /\ NoCall.result = None /\ IsRow(NoCall)
  BY <1>9, RowFields
<1>11. TypeOK
  <2>1. \A id \in DOMAIN snapshots : snapshots[id] \in Manifest /\ id \in SnapshotId
    BY <1>4, <1>5, <1>6
  <2>2. \A k \in Key : journal[k].status = "absent" /\ journal[k].result = None
    BY <1>9, <1>10
  <2> QED
    BY <1>6, <1>7, <1>8, <1>9, <2>1, <2>2, TaskSeqType DEF TypeOK
<1>12. Rows
  <2>1. JournalRows(journal, snapshots)
    BY <1>9, <1>10 DEF JournalRows
  <2> QED
    BY <1>5, <1>6, <1>8, <1>9, <2>1 DEF Rows
<1>13. Progress
  <2>1. \A w \in Worker : work[w] = Idle /\ work[w].pc = "idle"
    BY <1>9 DEF Idle
  <2>2. \A w \in Worker : Ahead(w, work[w], done, open)
    BY <1>9, <2>1, AheadIdle
  <2> QED
    BY <1>9, <2>1, <2>2 DEF Progress, Reporting
<1>14. \A w \in Worker : Placed(work[w], snapshots, journal)
  BY <1>9, PlacedIdle
<1> QED
  BY <1>11, <1>12, <1>13, <1>14 DEF PlaceInv

\* Every operation is where the code can be: what it has passed is journalled, what it
\* names is stored, and everything is of its kind.
THEOREM WorkerPlaces == Spec => []PlaceInv
<1>1. Init => PlaceInv
  BY InitPlaces
<1>2. PlaceInv /\ [Next]_vars => PlaceInv'
  BY PlaceStep
<1> QED
  BY <1>1, <1>2, PTL DEF Spec

\* Type correctness of the run of the bundled worker: the rows, the calls and their
\* answers, and the snapshots are of their kind for any number of workers and files.
THEOREM WorkerTypeCorrect == Spec => []TypeOK
<1>1. PlaceInv => TypeOK
  BY DEF PlaceInv
<1> QED
  BY <1>1, WorkerPlaces, PTL

-----------------------------------------------------------------------------
\* What is true stays true: the histories and the tables grow, and the arguments of a call
\* are final.

Widens(h, g) == \A p \in Path : h[p] \subseteq g[p]
Final(j, i) == \A k \in Key : j[k].status # "absent" => i[k].args = j[k].args

LEMMA WidensSame ==
    ASSUME NEW h
    PROVE  Widens(h, h)
  BY DEF Widens

LEMMA ImplementedGrows ==
    ASSUME NEW wr, NEW wq, Widens(wr, wq), NEW p \in Path, NEW content,
           ImplementedIn(wr, p, content)
    PROVE  ImplementedIn(wq, p, content)
  BY DEF ImplementedIn, Widens

LEMMA AnswerGrows ==
    ASSUME NEW s, NEW t, NEW j, NEW i, Keeps(s, t, j, i), NEW h, NEW g, Widens(h, g),
           NEW wr, NEW wq, Widens(wr, wq), NEW k \in Key, NEW args, NEW result,
           AnswerTrue(k, args, result, s, h, wr)
    PROVE  AnswerTrue(k, args, result, t, g, wq)
<1>1. k[2] = "artifact" => result = args
  BY DEF AnswerTrue
<1>2. k[2] = "search" => args \in DOMAIN t /\ result = Live(t[args])
  BY DEF AnswerTrue, Keeps
<1>3. k[2] \in {"read", "write"} => k[3] \in Path
  BY KeyFacts
<1>4. k[2] = "read" => ReadTrue(k[3], result, g)
  BY <1>3 DEF AnswerTrue, ReadTrue, Widens
<1>5. k[2] = "write" => args.content \in g[k[3]]
  BY <1>3 DEF AnswerTrue, Widens
<1>6. k[2] = "test" => TestTrue(result, g, wq)
  BY ImplementedGrows DEF AnswerTrue, TestTrue, Widens
<1> QED
  BY <1>1, <1>2, <1>4, <1>5, <1>6 DEF AnswerTrue

LEMMA InputGrows ==
    ASSUME NEW s, NEW t, NEW j, NEW i, Keeps(s, t, j, i), NEW k \in Key, NEW args,
           InputTrue(k, args, s, j)
    PROVE  InputTrue(k, args, t, i)
<1>1. k[2] = "write" => ReadKey(k[3]) \in Key
  BY KeyFacts
<1>2. k[2] = "write" => i[ReadKey(k[3])].result = j[ReadKey(k[3])].result
  BY <1>1 DEF InputTrue, Keeps
<1>3. k[2] = "write" => NewFor(i, k[3]) = NewFor(j, k[3])
  BY <1>2 DEF NewFor
<1> QED
  BY <1>2, <1>3 DEF InputTrue, Keeps

\* A row that no one touched, or that got no other arguments and no result.
LEMMA RowGrows ==
    ASSUME NEW s, NEW t, NEW j, NEW i, Keeps(s, t, j, i), NEW h, NEW g, Widens(h, g),
           NEW wr, NEW wq, Widens(wr, wq), NEW k \in Key, RowTrue(k, s, j, h, wr),
           i[k].status # "absent" => j[k].status # "absent" /\ i[k].args = j[k].args,
           i[k].result = j[k].result, j[k].result # None => j[k].status # "absent"
    PROVE  RowTrue(k, t, i, g, wq)
<1>1. i[k].status # "absent" => InputTrue(k, i[k].args, t, i)
  BY InputGrows DEF RowTrue
<1>2. j[k].result # None => i[k].args = j[k].args
  BY DEF Keeps
<1>3. i[k].result # None => AnswerTrue(k, i[k].args, i[k].result, t, g, wq)
  BY <1>2, AnswerGrows DEF RowTrue
<1> QED
  BY <1>1, <1>3 DEF RowTrue

\* An operation that was passed is one of its program.
LEMMA PassedOps ==
    ASSUME NEW r, Seen(r), r.seen[1] < 5, NEW o \in Passed(r)
    PROVE  /\ \E n \in DOMAIN Program(TaskOf(r)) : o = Program(TaskOf(r))[n] /\ Ordered(TaskOf(r), n)
           /\ o.op = "search" => KeyFor(TaskOf(r), o) = SearchKey(TaskOf(r)) /\ o.op \in Tool
<1>1. PICK n \in DOMAIN Program(TaskOf(r)) : o = Program(TaskOf(r))[n]
  BY DEF Passed, Before
<1>2. Ordered(TaskOf(r), n)
  BY TaskOfType, ProgramOrder
<1>3. o.op = "search" => o.path = 0
  BY <1>1, <1>2 DEF Ordered
<1> QED
  BY <1>1, <1>2, <1>3 DEF KeyFor, SearchKey, Tool

LEMMA AfterOpGrows ==
    ASSUME NEW s, NEW t, NEW j, NEW i, Keeps(s, t, j, i), Final(j, i), JournalRows(j, s),
           NEW cl, NEW cm, cl \subseteq cm,
           NEW r, Seen(r), r.seen[1] < 5, Answered(r, j),
           NEW q, q.seen = r.seen, q.base = r.base, r.owned \subseteq q.owned,
           NEW o \in Passed(r), AfterOp(r, o, j, cl)
    PROVE  AfterOp(q, o, i, cm)
<1>1. TaskOf(q) = TaskOf(r) /\ Searched(q) = Searched(r)
  BY DEF TaskOf, Searched
<1>2. o.op = "search" => i[SearchKey(TaskOf(q))].args = Searched(q)
  <2> SUFFICES ASSUME o.op = "search" PROVE i[SearchKey(TaskOf(q))].args = Searched(q)
    OBVIOUS
  <2> DEFINE k == KeyFor(TaskOf(r), o)
  <2>1. k = SearchKey(TaskOf(r)) /\ o.op \in Tool /\ k \in Key
    BY PassedOps, PassedKeys
  <2>2. j[k].result # None
    BY <2>1 DEF Answered
  <2> HIDE DEF k
  <2>3. j[k].status # "absent"
    BY <2>1, <2>2 DEF JournalRows
  <2>4. i[k].args = j[k].args
    BY <2>1, <2>3 DEF Final
  <2> QED
    BY <1>1, <2>1, <2>4 DEF AfterOp
<1>3. o.op = "claim" => HasClaim(cm, TaskOf(q))
  BY <1>1 DEF AfterOp, HasClaim
<1> QED
  BY <1>1, <1>2, <1>3 DEF AfterOp

LEMMA WorkGrows ==
    ASSUME NEW s, NEW t, NEW j, NEW i, Keeps(s, t, j, i), Final(j, i), JournalRows(j, s),
           NEW h, NEW g, Widens(h, g), NEW wr, NEW wq, Widens(wr, wq),
           NEW cl, NEW cm, cl \subseteq cm, NEW r, Placed(r, s, j),
           WorkTrue(r, s, j, h, wr, cl)
    PROVE  WorkTrue(r, t, i, g, wq, cm)
<1>1. Seen(r)
  BY DEF Placed
<1>2. OpsTrue(r, i, cm)
  <2> SUFFICES ASSUME r.pc \in Executing \cup {"renew", "commit"},
                      r.pc = "renew" => r.local # "failed",
                      NEW o \in Passed(r)
               PROVE  AfterOp(r, o, i, cm)
    BY DEF OpsTrue
  <2>1. r.seen[1] < 5 /\ Answered(r, j)
    BY DEF Placed, InProgram, AtEnd, Finishing
  <2>2. AfterOp(r, o, j, cl)
    BY DEF WorkTrue, OpsTrue
  <2> QED
    BY <1>1, <2>1, <2>2, AfterOpGrows
<1>3. CallTrue(r, t, i, g, wq)
  <2>1. r.pc \in Calling => /\ KeyAt(r) \in Key /\ j[KeyAt(r)].status # "absent"
    BY <1>1, KeyAtType DEF Placed, InProgram, InCall, Executing
  <2>2. r.pc \in Calling => i[KeyAt(r)].args = j[KeyAt(r)].args
    BY <2>1 DEF Final
  <2>3. r.pc \in Calling /\ OpOf(r).op = "search" => i[KeyAt(r)].args = Searched(r)
    BY <2>2 DEF WorkTrue, CallTrue
  <2>4. "record" \in Calling
    BY DEF Calling
  <2>5. r.pc = "record" => AnswerTrue(KeyAt(r), i[KeyAt(r)].args, r.local, t, g, wq)
    <3> SUFFICES ASSUME r.pc = "record"
                 PROVE  AnswerTrue(KeyAt(r), i[KeyAt(r)].args, r.local, t, g, wq)
      OBVIOUS
    <3>1. AnswerTrue(KeyAt(r), j[KeyAt(r)].args, r.local, s, h, wr)
      BY DEF WorkTrue, CallTrue
    <3>2. AnswerTrue(KeyAt(r), j[KeyAt(r)].args, r.local, t, g, wq)
      BY <2>1, <2>4, <3>1, AnswerGrows
    <3> QED
      BY <2>2, <2>4, <3>2
  <2> QED
    BY <2>3, <2>5 DEF CallTrue
<1>4. WalkTrue(r, g, wq)
  <2>1. r.pc \in {"walk", "save", "scan", "compare"} => \A n \in 1 .. Len(r.local) : n \in Path
    BY PathType DEF Placed, Walking, Path
  <2>2. r.pc \in {"walk", "save", "scan", "compare"} =>
           \A n \in 1 .. Len(r.local) : r.local[n] \in g[n]
    BY <2>1 DEF WorkTrue, WalkTrue, Widens
  <2>3. r.pc \in {"walk", "save"} /\ TaskOf(r) = "implement_change" =>
           \A n \in 1 .. Len(r.local) : ImplementedIn(wq, n, r.local[n])
    BY <2>1, ImplementedGrows DEF WorkTrue, WalkTrue
  <2> QED
    BY <2>2, <2>3 DEF WalkTrue
<1> QED
  BY <1>2, <1>3, <1>4 DEF WorkTrue

\* One step of the tables.
Grows ==
    /\ Keeps(snapshots, snapshots', journal, journal') /\ Final(journal, journal')
    /\ Widens(held, held') /\ Widens(Target, Target')
    /\ evidence \subseteq evidence' /\ claims \subseteq claims'

LEMMA WorkMoves ==
    ASSUME PlaceInv, TruthInv, Grows, NEW w \in Worker, NEW r, Becomes(w, r),
           WorkTrue(r, snapshots', journal', held', Target', claims')
    PROVE  \A v \in Worker : WorkTrue(work'[v], snapshots', journal', held', Target', claims')
<1> SUFFICES ASSUME NEW v \in Worker
             PROVE  WorkTrue(work'[v], snapshots', journal', held', Target', claims')
  OBVIOUS
<1>1. CASE v = w
  BY <1>1 DEF Becomes
<1>2. CASE v # w
  <2>1. work'[v] = work[v]
    BY <1>2 DEF Becomes
  <2>2. /\ Placed(work[v], snapshots, journal) /\ JournalRows(journal, snapshots)
        /\ WorkTrue(work[v], snapshots, journal, held, Target, claims)
    BY ShapedWork DEF TruthInv
  <2> QED
    BY <2>1, <2>2, WorkGrows DEF Grows
<1> QED
  BY <1>1, <1>2

\* Every file is read and written under a key of its own.
LEMMA ReadKeyType ==
    ASSUME NEW p \in Path
    PROVE  ReadKey(p) \in Key /\ WriteKey(p) \in Key
<1>1. /\ FileOp("read", p) \in Whole("implement_change")
      /\ FileOp("write", p) \in Whole("implement_change")
  <2>1. FileOp("write", p) \in Whole("implement_change")
    BY ProgramOrder DEF Tasks, Ended
  <2>2. PICK n \in DOMAIN Program("implement_change") :
           Program("implement_change")[n] = FileOp("write", p)
    BY <2>1 DEF Whole
  <2>3. Ordered("implement_change", n)
    BY ProgramOrder DEF Tasks
  <2>4. FileOp("read", p) \in Before("implement_change", n)
    BY <2>2, <2>3 DEF Ordered, FileOp
  <2> QED
    BY <2>1, <2>4 DEF Before, Whole
<1>2. ASSUME NEW op \in {"read", "write"}
      PROVE  <<"implement_change", op, p>> \in Key
  <2>1. PICK m \in DOMAIN Program(TaskSeq[2 + 1]) : Program(TaskSeq[2 + 1])[m] = FileOp(op, p)
    BY <1>1, TaskSeqType DEF Whole
  <2>2. Program(TaskSeq[2 + 1])[m].op \in Tool
    BY <2>1 DEF FileOp, Tool
  <2>3. KeyFor(TaskSeq[2 + 1], Program(TaskSeq[2 + 1])[m]) \in Key
    BY <2>2, KeyOfTool
  <2> QED
    BY <2>1, <2>3, TaskSeqType DEF KeyFor, FileOp
<1> QED
  BY <1>2 DEF ReadKey, WriteKey

\* What is to be written is final too.
LEMMA TargetGrows ==
    ASSUME Keeps(snapshots, snapshots', journal, journal')
    PROVE  /\ Widens(Target, Target')
           /\ \A p \in Path : Target[p] # {} => Target'[p] = Target[p]
<1>1. ASSUME NEW p \in Path, journal[ReadKey(p)].result # None
      PROVE  journal'[ReadKey(p)].result = journal[ReadKey(p)].result
  BY <1>1, ReadKeyType DEF Keeps
<1> QED
  BY <1>1 DEF Widens, Target, NewFor

LEMMA TargetSame ==
    ASSUME UNCHANGED journal
    PROVE  Target' = Target
  BY DEF Target, NewFor

\* The run after a step of an operation that does not go on with a report.
LEMMA StepTruth ==
    ASSUME PlaceInv, TruthInv, Grows, NEW w \in Worker, NEW r, Becomes(w, r),
           r.pc \notin Reporting, UNCHANGED reports, DoneTrue(done', claims', journal'), TableTrue',
           WorkTrue(r, snapshots', journal', held', Target', claims'),
           \A c \in claims' : c.evidence \subseteq evidence'
    PROVE  TruthInv'
<1>1. \A v \in Worker : WorkTrue(work'[v], snapshots', journal', held', Target', claims')
  BY WorkMoves
<1>2. \A v \in Worker : work'[v].pc \in Reporting => work'[v] = work[v]
  BY DEF Becomes
<1>3. "json" \in Reporting
  BY DEF Reporting
<1>4. \A cl : Backed(cl, evidence) => Backed(cl, evidence')
  BY DEF Backed, Grows
<1>5. \A v \in Worker : work'[v].pc = "json" => Backed(work'[v].local, evidence')
  BY <1>2, <1>3, <1>4 DEF TruthInv, RunTrue, ReportTrue
<1>6. ReportTrue'
  BY <1>4, <1>5 DEF TruthInv, RunTrue, ReportTrue, Supported
<1> QED
  BY <1>1, <1>6 DEF TruthInv, RunTrue

LEMMA DoneGrows ==
    ASSUME TruthInv, Grows
    PROVE  DoneTrue(done, claims', journal')
<1>1. \A t : HasClaim(claims, t) => HasClaim(claims', t)
  BY DEF HasClaim, Grows
<1>2. \A p \in Path : journal[WriteKey(p)].result # None => journal'[WriteKey(p)].result # None
  BY ReadKeyType DEF Grows, Keeps
<1> QED
  BY <1>1, <1>2 DEF TruthInv, RunTrue, DoneTrue

LEMMA ClaimsStay ==
    ASSUME TruthInv, Grows, UNCHANGED claims
    PROVE  \A c \in claims' : c.evidence \subseteq evidence'
  BY DEF TruthInv, RunTrue, ReportTrue, Supported, Grows

LEMMA GrowsSame ==
    ASSUME UNCHANGED <<snapshots, journal, held, evidence, claims>>
    PROVE  Grows
<1>1. Target' = Target
  BY TargetSame
<1> QED
  BY <1>1, KeepsSame, WidensSame DEF Grows, Final

LEMMA TableSame ==
    ASSUME TableTrue, UNCHANGED <<workspaceVars, journal>>
    PROVE  TableTrue'
<1>1. Target' = Target
  BY TargetSame
<1> QED
  BY <1>1 DEF TableTrue, workspaceVars, repositoryVars, ledgerVars, artifactVars

\* The tables after a step that adds to some of them.
LEMMA TableGrows ==
    ASSUME PlaceInv, TableTrue, Grows,
           FilesTrue(files', held', Target', edits'),
           \A id \in DOMAIN snapshots' : id \notin DOMAIN snapshots =>
               /\ ManifestTrue(snapshots'[id], held')
               /\ id = Changed => ChangeIn(snapshots'[id], Target'),
           \A p \in Path : \A c \in written'[p] : c \notin written[p] => c \in Target[p],
           \A k \in Key : RowTrue(k, snapshots', journal', held', Target'),
           \A e \in evidence' : e \notin evidence => \A p \in DOMAIN e.contents :
               /\ e.contents[p] \in held'[p]
               /\ e.type = "test" => ImplementedIn(Target', p, e.contents[p]),
           catalogue' # catalogue => MapsTrue(catalogue', snapshots'),
           artifact'.stored # artifact.stored => MapsTrue(artifact'.stored, snapshots')
    PROVE  TableTrue'
<1>1. \A m \in Manifest : ManifestTrue(m, held) => ManifestTrue(m, held')
  BY DEF ManifestTrue, Grows, Widens, Live
<1>2. \A m \in Manifest : ChangeIn(m, Target) => ChangeIn(m, Target')
  BY ImplementedGrows DEF ChangeIn, Grows, Live
<1>3. \A id \in DOMAIN snapshots : /\ id \in DOMAIN snapshots' /\ snapshots'[id] = snapshots[id]
                                   /\ snapshots[id] \in Manifest
  BY DEF Grows, Keeps, PlaceInv, TypeOK
<1>4. SnapshotsTrue(snapshots', held', Target')
  BY <1>1, <1>2, <1>3 DEF SnapshotsTrue, TableTrue
<1>5. WritesTrue(written', Target')
  BY DEF TableTrue, WritesTrue, Grows, Widens
<1>6. EvidenceTrue(evidence', held', Target')
  <2> SUFFICES ASSUME NEW e \in evidence', NEW p \in DOMAIN e.contents
               PROVE  /\ e.contents[p] \in held'[p]
                      /\ e.type = "test" => ImplementedIn(Target', p, e.contents[p])
    BY DEF EvidenceTrue
  <2>1. CASE e \notin evidence
    BY <2>1
  <2>2. CASE e \in evidence
    <3>1. p \in Path
      BY <2>2 DEF PlaceInv, TypeOK
    <3>2. /\ e.contents[p] \in held[p]
          /\ e.type = "test" => ImplementedIn(Target, p, e.contents[p])
      BY <2>2 DEF TableTrue, EvidenceTrue
    <3> QED
      BY <3>1, <3>2, ImplementedGrows DEF Grows, Widens
  <2> QED
    BY <2>1, <2>2
<1>7. \A map : MapsTrue(map, snapshots) => MapsTrue(map, snapshots')
  BY <1>3 DEF MapsTrue
<1>8. MapsTrue(catalogue', snapshots') /\ MapsTrue(artifact'.stored, snapshots')
  BY <1>7 DEF TableTrue
<1> QED
  BY <1>4, <1>5, <1>6, <1>8 DEF TableTrue

\* The rows of the journal when none changes.
LEMMA RowsStay ==
    ASSUME PlaceInv, TableTrue, Grows, UNCHANGED journal
    PROVE  \A k \in Key : RowTrue(k, snapshots', journal', held', Target')
<1> SUFFICES ASSUME NEW k \in Key PROVE RowTrue(k, snapshots', journal', held', Target')
  OBVIOUS
<1>1. RowTrue(k, snapshots, journal, held, Target)
  BY DEF TableTrue
<1>2. journal[k].result # None => journal[k].status # "absent"
  BY DEF PlaceInv, Rows, JournalRows
<1> QED
  BY <1>1, <1>2, RowGrows DEF Grows

-----------------------------------------------------------------------------
\* What an operation knows after a step of its program.

LEMMA OutsideTrue ==
    ASSUME NEW r, NEW s, NEW j, NEW h, NEW wr, NEW cl,
           \/ r.pc \notin Executing \cup {"renew", "commit", "scan", "compare"}
           \/ r.pc = "renew" /\ r.local = "failed"
    PROVE  WorkTrue(r, s, j, h, wr, cl)
  BY DEF WorkTrue, OpsTrue, CallTrue, WalkTrue, Executing, Calling

\* To a later step of the same call.
LEMMA WithinTrue ==
    ASSUME NEW s, NEW t, NEW j, NEW i, Keeps(s, t, j, i), Final(j, i), JournalRows(j, s),
           NEW g, NEW wq, NEW cl, NEW cm, cl \subseteq cm, NEW r, Placed(r, s, j),
           r.pc \in Executing, OpsTrue(r, j, cl), NEW pc \in Executing, NEW local,
           pc \in Calling /\ OpOf(r).op = "search" => i[KeyAt(r)].args = Searched(r),
           pc = "record" => AnswerTrue(KeyAt(r), i[KeyAt(r)].args, local, t, g, wq),
           pc \in {"walk", "save"} =>
               \A n \in 1 .. Len(local) :
                   /\ local[n] \in g[n]
                   /\ TaskOf(r) = "implement_change" => ImplementedIn(wq, n, local[n])
    PROVE  WorkTrue(Rec(pc, r.at, r.base, r.seen, local, r.owned), t, i, g, wq, cm)
<1> DEFINE q == Rec(pc, r.at, r.base, r.seen, local, r.owned)
<1>1. /\ q.pc = pc /\ q.at = r.at /\ q.base = r.base /\ q.seen = r.seen
      /\ q.local = local /\ q.owned = r.owned
  BY Fields
<1> HIDE DEF q
<1>2. /\ TaskOf(q) = TaskOf(r) /\ OpOf(q) = OpOf(r) /\ KeyAt(q) = KeyAt(r) /\ Passed(q) = Passed(r)
      /\ Searched(q) = Searched(r)
  BY <1>1 DEF TaskOf, OpOf, KeyAt, Passed, Searched
<1>3. Seen(r) /\ r.seen[1] < 5 /\ Answered(r, j)
  BY DEF Placed, InProgram
<1>4. r.pc # "renew" /\ pc # "renew" /\ pc \notin {"scan", "compare"}
  BY DEF Executing, Calling
<1>5. OpsTrue(q, i, cm)
  <2> SUFFICES ASSUME NEW o \in Passed(q) PROVE AfterOp(q, o, i, cm)
    BY DEF OpsTrue
  <2>1. AfterOp(r, o, j, cl)
    BY <1>2, <1>4 DEF OpsTrue
  <2> QED
    BY <1>1, <1>2, <1>3, <2>1, AfterOpGrows
<1>6. CallTrue(q, t, i, g, wq)
  BY <1>1, <1>2 DEF CallTrue
<1>7. WalkTrue(q, g, wq)
  BY <1>1, <1>2, <1>4 DEF WalkTrue
<1>8. WorkTrue(q, t, i, g, wq, cm)
  BY <1>5, <1>6, <1>7 DEF WorkTrue
<1> QED
  BY <1>8 DEF q

\* On to the next operation.
Own(r, owned) == Rec("op", r.at, r.base, r.seen, None, owned)

LEMMA ProceedTrue ==
    ASSUME NEW s, NEW t, NEW j, NEW i, Keeps(s, t, j, i), Final(j, i), JournalRows(j, s),
           NEW g, NEW wq, NEW cl, NEW cm, cl \subseteq cm, NEW r, Placed(r, s, j),
           r.pc \in Executing, OpsTrue(r, j, cl), NEW pc \in {"renew", "op"}, NEW records,
           AfterOp(Own(r, r.owned \cup records), OpOf(r), i, cm)
    PROVE  WorkTrue(Rec(pc, r.at + 1, r.base, r.seen, None, r.owned \cup records), t, i, g, wq, cm)
<1> DEFINE q == Rec(pc, r.at + 1, r.base, r.seen, None, r.owned \cup records)
           a == Own(r, r.owned \cup records)
<1>1. /\ q.pc = pc /\ q.at = r.at + 1 /\ q.base = r.base /\ q.seen = r.seen
      /\ q.local = None /\ q.owned = r.owned \cup records
  BY Fields
<1>2. a.base = r.base /\ a.seen = r.seen /\ a.owned = r.owned \cup records
  BY Fields DEF Own
<1> HIDE DEF q, a
<1>3. /\ Seen(r) /\ r.seen[1] < 5 /\ Answered(r, j) /\ r.at \in DOMAIN Program(TaskOf(r))
  BY DEF Placed, InProgram
<1>4. TaskOf(q) = TaskOf(r) /\ TaskOf(a) = TaskOf(r) /\ TaskOf(r) \in Tasks
  BY <1>1, <1>2, <1>3, TaskOfType DEF TaskOf
<1>5. Passed(q) = Passed(r) \cup {OpOf(r)}
  BY <1>1, <1>3, <1>4, BeforeNext DEF Passed, OpOf
<1>6. Searched(a) = Searched(q)
  BY <1>1, <1>2, <1>4 DEF Searched
<1>7. AfterOp(q, OpOf(r), i, cm)
  BY <1>1, <1>2, <1>4, <1>6 DEF AfterOp, a
<1>8. r.pc # "renew"
  BY DEF Executing, Calling
<1>9. OpsTrue(q, i, cm)
  <2> SUFFICES ASSUME NEW o \in Passed(q) PROVE AfterOp(q, o, i, cm)
    BY DEF OpsTrue
  <2>1. CASE o = OpOf(r)
    BY <1>7, <2>1
  <2>2. CASE o \in Passed(r)
    <3>1. AfterOp(r, o, j, cl)
      BY <1>8, <2>2 DEF OpsTrue
    <3> QED
      BY <1>1, <1>3, <2>2, <3>1, AfterOpGrows
  <2> QED
    BY <1>5, <2>1, <2>2
<1>10. CallTrue(q, t, i, g, wq) /\ WalkTrue(q, g, wq)
  BY <1>1 DEF CallTrue, WalkTrue, Calling
<1>11. WorkTrue(q, t, i, g, wq, cm)
  BY <1>9, <1>10 DEF WorkTrue
<1> QED
  BY <1>11 DEF q

\* The steps of a program, as premises of StepTruth.
LEMMA ExecuteTruth ==
    ASSUME PlaceInv, TruthInv, Grows, NEW w \in Worker, NEW r, Becomes(w, r),
           work[w].pc \in Executing, r.pc \in Executing \cup {"renew"},
           UNCHANGED <<rowVars, reports>>, TableTrue',
           WorkTrue(r, snapshots', journal', held', Target', claims'),
           \A c \in claims' : c.evidence \subseteq evidence'
    PROVE  TruthInv'
<1>1. r.pc \notin Reporting
  BY DEF Executing, Calling, Reporting
<1>2. UNCHANGED done
  BY DEF rowVars
<1> QED
  BY <1>1, <1>2, DoneGrows, StepTruth

LEMMA ProceedsTruth ==
    ASSUME PlaceInv, TruthInv, Grows, NEW w \in Worker, work[w].pc \in Executing, NEW records,
           ProceedWith(w, records), UNCHANGED <<rowVars, reports>>, TableTrue',
           AfterOp(Own(work[w], work[w].owned \cup records), Current(w), journal', claims'),
           \A c \in claims' : c.evidence \subseteq evidence'
    PROVE  TruthInv'
<1> DEFINE r == work[w]
           pc == IF r.at = Len(Program(TaskOf(r))) THEN "renew" ELSE "op"
           q == Rec(pc, r.at + 1, r.base, r.seen, None, r.owned \cup records)
<1>1. /\ Shaped(w) /\ Placed(r, snapshots, journal) /\ Task(w) = TaskOf(r)
      /\ Current(w) = OpOf(r) /\ JournalRows(journal, snapshots)
  BY ShapedWork
<1>2. Becomes(w, q)
  BY <1>1, ProceedEffect
<1>3. pc \in {"renew", "op"}
  OBVIOUS
<1>4. OpsTrue(r, journal, claims)
  BY DEF TruthInv, WorkTrue
<1> HIDE DEF pc
<1>5. WorkTrue(q, snapshots', journal', held', Target', claims')
  BY <1>1, <1>3, <1>4, ProceedTrue DEF Grows
<1>6. q.pc \in Executing \cup {"renew"}
  BY <1>3, Fields DEF Executing
<1> HIDE DEF q
<1> QED
  BY <1>2, <1>5, <1>6, ExecuteTruth

LEMMA FailsTruth ==
    ASSUME PlaceInv, TruthInv, Grows, NEW w \in Worker, work[w].pc \in Executing, Fails(w),
           UNCHANGED <<rowVars, reports, claims>>, TableTrue'
    PROVE  TruthInv'
<1> DEFINE r == work[w]
           q == Rec("renew", r.at, r.base, r.seen, "failed", r.owned)
<1>1. Becomes(w, q)
  BY ShapedWork, GotoWithEffect DEF Fails
<1>2. q.pc = "renew" /\ q.local = "failed"
  BY Fields
<1> HIDE DEF q
<1>3. WorkTrue(q, snapshots', journal', held', Target', claims')
  BY <1>2, OutsideTrue
<1> QED
  BY <1>1, <1>2, <1>3, ClaimsStay, ExecuteTruth

LEMMA WithinTruth ==
    ASSUME PlaceInv, TruthInv, Grows, NEW w \in Worker, work[w].pc \in Executing,
           NEW pc \in Executing, NEW local,
           Becomes(w, Rec(pc, work[w].at, work[w].base, work[w].seen, local, work[w].owned)),
           UNCHANGED <<rowVars, reports, claims>>, TableTrue',
           pc \in Calling /\ Current(w).op = "search" =>
               journal'[KeyOf(w)].args = Searched(work[w]),
           pc = "record" => AnswerTrue(KeyOf(w), journal'[KeyOf(w)].args, local, snapshots', held',
                                       Target'),
           pc \in {"walk", "save"} =>
               \A n \in 1 .. Len(local) :
                   /\ local[n] \in held'[n]
                   /\ Task(w) = "implement_change" => ImplementedIn(Target', n, local[n])
    PROVE  TruthInv'
<1> DEFINE r == work[w]
           q == Rec(pc, r.at, r.base, r.seen, local, r.owned)
<1>1. /\ Placed(r, snapshots, journal) /\ Current(w) = OpOf(r) /\ KeyOf(w) = KeyAt(r)
      /\ Task(w) = TaskOf(r) /\ JournalRows(journal, snapshots)
  BY ShapedWork
<1>2. OpsTrue(r, journal, claims)
  BY DEF TruthInv, WorkTrue
<1>3. WorkTrue(q, snapshots', journal', held', Target', claims')
  BY <1>1, <1>2, WithinTrue DEF Grows
<1>4. q.pc = pc
  BY Fields
<1> HIDE DEF q
<1>5. Becomes(w, q)
  BY DEF q
<1> QED
  BY <1>3, <1>4, <1>5, ClaimsStay, ExecuteTruth

-----------------------------------------------------------------------------
\* The journal is true.

\* A tool that was passed: what its row says.
LEMMA PassedTrue ==
    ASSUME PlaceInv, TruthInv, NEW w \in Worker, work[w].pc \in Executing,
           NEW o \in Passed(work[w]), o.op \in Tool
    PROVE  LET k == KeyFor(Task(w), o) IN
           /\ k \in Key /\ journal[k].result # None /\ journal[k].status # "absent"
           /\ InputTrue(k, journal[k].args, snapshots, journal)
           /\ AnswerTrue(k, journal[k].args, journal[k].result, snapshots, held, Target)
           /\ o.op = "index" => IsIndex(journal[k].result, Task(w), snapshots)
<1> DEFINE k == KeyFor(Task(w), o)
<1>1. /\ k \in Key /\ journal[k].result # None
      /\ o.op = "index" => IsIndex(journal[k].result, Task(w), snapshots)
  BY PassedAnswer
<1> HIDE DEF k
<1>2. journal[k].status # "absent"
  BY <1>1, ShapedWork DEF JournalRows
<1>3. RowTrue(k, snapshots, journal, held, Target)
  BY <1>1 DEF TruthInv, TableTrue
<1> QED
  BY <1>1, <1>2, <1>3 DEF RowTrue, k

\* A call under way: what its row says.
LEMMA CallingTrue ==
    ASSUME PlaceInv, TruthInv, NEW w \in Worker, work[w].pc \in Calling
    PROVE  /\ KeyOf(w) \in Key /\ journal[KeyOf(w)].status # "absent" /\ Current(w).op \in Tool
           /\ KeyOf(w)[1] = Task(w) /\ KeyOf(w)[2] = Current(w).op /\ KeyOf(w)[3] = Current(w).path
           /\ InputTrue(KeyOf(w), journal[KeyOf(w)].args, snapshots, journal)
           /\ Current(w).op = "search" => journal[KeyOf(w)].args = Searched(work[w])
           /\ work[w].pc = "record" => AnswerTrue(KeyOf(w), journal[KeyOf(w)].args, work[w].local,
                                                  snapshots, held, Target)
<1> DEFINE r == work[w]
<1>1. /\ Current(w) = OpOf(r) /\ KeyOf(w) = KeyAt(r) /\ Placed(r, snapshots, journal)
      /\ Task(w) = TaskOf(r)
  BY ShapedWork
<1>2. r.pc \in Executing
  BY DEF Executing
<1>3. journal[KeyOf(w)].status # "absent" /\ Current(w).op \in Tool
  BY <1>1 DEF Placed, InCall
<1>4. /\ KeyOf(w) \in Key /\ KeyOf(w)[2] = Current(w).op /\ KeyOf(w)[1] = Task(w)
      /\ KeyOf(w)[3] = Current(w).path
  BY <1>1, <1>2, <1>3, RunningKey
<1>5. InputTrue(KeyOf(w), journal[KeyOf(w)].args, snapshots, journal)
  BY <1>3, <1>4 DEF TruthInv, TableTrue, RowTrue
<1>6. CallTrue(r, snapshots, journal, held, Target)
  BY DEF TruthInv, WorkTrue
<1> QED
  BY <1>1, <1>3, <1>4, <1>5, <1>6 DEF CallTrue

LEMMA ArgumentsTrue ==
    ASSUME PlaceInv, TruthInv, NEW w \in Worker, work[w].pc \in Executing, Current(w).op \in Tool
    PROVE  /\ InputTrue(KeyOf(w), Arguments(w), snapshots, journal)
           /\ Current(w).op = "search" => Arguments(w) = Searched(work[w])
<1> DEFINE r == work[w]
           o == Current(w)
           k == KeyOf(w)
<1>1. /\ Task(w) = TaskOf(r) /\ o = OpOf(r) /\ k = KeyAt(r)
      /\ TaskOf(r) \in Tasks /\ r.base \in DOMAIN snapshots
      /\ Ordered(TaskOf(r), r.at) /\ k[2] = o.op /\ k[3] = o.path /\ k \in Key
  BY ShapedWork, RunningKey
<1>2. ASSUME Op("index") \in Passed(r)
      PROVE  /\ Result(w, "index", 0) \in DOMAIN snapshots
             /\ Result(w, "index", 0) = SnapshotOf(Task(w))
  BY <1>2, PassedAnswer DEF Op, Result, KeyFor, Tool, IsIndex
<1>3. CASE o.op = "search"
  <2>1. TaskOf(r) = "research_constraints" \/ Op("index") \in Passed(r)
    BY <1>1, <1>3 DEF Ordered, Passed, OpOf
  <2>2. Arguments(w) = Searched(r) /\ Arguments(w) \in DOMAIN snapshots
    BY <1>1, <1>2, <1>3, <2>1 DEF Arguments, Searched
  <2> QED
    BY <1>1, <1>3, <2>2 DEF InputTrue
<1>4. CASE o.op = "artifact"
  <2>1. TaskOf(r) = "inspect_repository" /\ Op("index") \in Passed(r)
    BY <1>1, <1>4 DEF Ordered, Passed, OpOf
  <2>2. Arguments(w) = snapshots[Result(w, "index", 0)]
    BY <1>1, <1>4, <2>1 DEF Arguments, IndexOf
  <2>3. Arguments(w) = snapshots[Inspected] /\ Inspected \in DOMAIN snapshots
    BY <1>1, <1>2, <2>1, <2>2 DEF Inspected
  <2> QED
    BY <1>1, <1>4, <2>3 DEF InputTrue
<1>5. CASE o.op = "write"
  <2>1. FileOp("read", o.path) \in Passed(r) /\ TaskOf(r) = "implement_change"
    BY <1>1, <1>5 DEF Ordered, Passed, OpOf
  <2>2. KeyFor(Task(w), FileOp("read", o.path)) = ReadKey(o.path)
    BY <1>1, <2>1 DEF KeyFor, FileOp, ReadKey
  <2>3. journal[ReadKey(o.path)].result # None
    BY <2>1, <2>2, PassedAnswer DEF FileOp, Tool
  <2>4. Result(w, "read", o.path) = journal[ReadKey(o.path)].result
    BY <1>1, <2>1 DEF Result, ReadKey
  <2>5. NewContent(w, o.path) = NewFor(journal, o.path)
    BY <2>4 DEF NewContent, NewFor
  <2>6. Arguments(w) = [content |-> NewFor(journal, o.path),
                        expected |-> journal[ReadKey(o.path)].result.hash]
    BY <1>5, <2>4, <2>5 DEF Arguments
  <2> QED
    BY <1>1, <1>5, <2>3, <2>6 DEF InputTrue
<1>6. CASE o.op \in {"index", "read", "test"}
  BY <1>1, <1>6 DEF InputTrue
<1> QED
  BY <1>3, <1>4, <1>5, <1>6 DEF Tool

\* A file that the worker has not read before holds the newest edition.
LEMMA FilesStay ==
    ASSUME FilesTrue(files, held, Target, edits), UNCHANGED <<files, held, edits>>,
           Keeps(snapshots, snapshots', journal, journal')
    PROVE  FilesTrue(files', held', Target', edits')
<1> SUFFICES ASSUME NEW p \in Path, Target'[p] \cap held[p] # {}
             PROVE  ImplementedIn(Target', p, files[p])
  BY TargetGrows DEF FilesTrue, Widens
<1>1. CASE Target[p] = {}
  <2>1. PICK c \in Target'[p] : c \in held[p]
    OBVIOUS
  <2>2. Newest(files[p], held[p])
    BY <1>1 DEF FilesTrue
  <2> QED
    BY <2>1, <2>2 DEF Newest, ImplementedIn
<1>2. CASE Target[p] # {}
  <2>1. Target'[p] = Target[p]
    BY <1>2, TargetGrows
  <2>2. ImplementedIn(Target, p, files[p])
    BY <2>1 DEF FilesTrue
  <2> QED
    BY <2>1, <2>2 DEF ImplementedIn
<1> QED
  BY <1>1, <1>2

\* A row of the journal is replaced by one that is true.
LEMMA StoredTrue ==
    ASSUME PlaceInv, TableTrue, NEW key \in Key, NEW row, Stored(key, row), UNCHANGED workspaceVars,
           row.status # "absent", journal[key].result # None => row.result = journal[key].result,
           journal[key].status # "absent" => row.args = journal[key].args,
           InputTrue(key, row.args, snapshots, journal),
           row.result # None => AnswerTrue(key, row.args, row.result, snapshots, held, Target)
    PROVE  Grows /\ TableTrue'
<1>1. UNCHANGED <<files, held, written, edits, snapshots, evidence, claims, catalogue, artifact>>
  BY DEF workspaceVars, repositoryVars, ledgerVars, artifactVars
<1>2. Keeps(snapshots, snapshots', journal, journal')
  BY <1>1, KeepsStored
<1>3. Grows
  BY <1>1, <1>2, WidensSame, TargetGrows DEF Grows, Final, Stored
<1>4. ASSUME NEW k \in Key
      PROVE  RowTrue(k, snapshots', journal', held', Target')
  <2>1. CASE k # key
    <3>1. journal'[k] = journal[k]
      BY <2>1 DEF Stored
    <3>2. journal[k].result # None => journal[k].status # "absent"
      BY DEF PlaceInv, Rows, JournalRows
    <3>3. RowTrue(k, snapshots, journal, held, Target)
      BY DEF TableTrue
    <3> QED
      BY <1>3, <3>1, <3>2, <3>3, RowGrows DEF Grows
  <2>2. CASE k = key
    <3>1. InputTrue(key, row.args, snapshots', journal')
      BY <1>2, InputGrows
    <3>2. row.result # None => AnswerTrue(key, row.args, row.result, snapshots', held', Target')
      BY <1>3, AnswerGrows DEF Grows
    <3> QED
      BY <2>2, <3>1, <3>2 DEF RowTrue, Stored
  <2> QED
    BY <2>1, <2>2
<1>5. FilesTrue(files', held', Target', edits')
  BY <1>1, <1>2, FilesStay DEF TableTrue
<1>6. TableTrue'
  BY <1>1, <1>3, <1>4, <1>5, TableGrows
<1> QED
  BY <1>3, <1>6

\* Past a tool.
LEMMA AfterTool ==
    ASSUME PlaceInv, NEW w \in Worker, work[w].pc \in Executing, Current(w).op \in Tool,
           NEW owned, NEW j, NEW cl,
           Current(w).op = "search" => j[KeyOf(w)].args = Searched(work[w])
    PROVE  AfterOp(Own(work[w], owned), Current(w), j, cl)
<1> DEFINE r == work[w]
           a == Own(r, owned)
<1>1. a.base = r.base /\ a.seen = r.seen
  BY Fields DEF Own
<1> HIDE DEF a
<1>2. TaskOf(a) = TaskOf(r) /\ Searched(a) = Searched(r)
  BY <1>1 DEF TaskOf, Searched
<1>3. Current(w).op = "search" => KeyOf(w) = SearchKey(TaskOf(r))
  <2>1. Current(w) = OpOf(r) /\ Task(w) = TaskOf(r)
    BY ShapedWork
  <2>2. Ordered(TaskOf(r), r.at)
    BY RunningKey
  <2>3. Current(w).op = "search" => Current(w).path = 0
    BY <2>1, <2>2 DEF Ordered, OpOf
  <2> QED
    BY <2>1, <2>3 DEF KeyOf, SearchKey
<1>4. AfterOp(a, Current(w), j, cl)
  BY <1>2, <1>3 DEF AfterOp, Tool
<1> QED
  BY <1>4 DEF a

LEMMA CallToolTruth ==
    ASSUME PlaceInv, TruthInv, NEW w \in Worker, CallTool(w)
    PROVE  TruthInv'
<1> DEFINE r == work[w]
           row == journal[KeyOf(w)]
           fits == row.args = Arguments(w)
<1>1. /\ r.pc = "op" /\ r.pc \in Executing /\ Current(w).op \in Tool
      /\ UNCHANGED <<workspaceVars, rowVars, leaseVars>>
  BY DEF CallTool, Executing
<1>2. /\ Shaped(w) /\ KeyOf(w) = KeyAt(r) /\ Current(w) = OpOf(r) /\ TableTrue
      /\ JournalRows(journal, snapshots) /\ KeyOf(w) \in Key
  BY <1>1, ShapedWork, RunningKey DEF TruthInv
<1>3. UNCHANGED <<rowVars, reports, claims>>
  BY <1>1 DEF workspaceVars, ledgerVars, artifactVars
<1>4. /\ InputTrue(KeyOf(w), Arguments(w), snapshots, journal)
      /\ Current(w).op = "search" => Arguments(w) = Searched(r)
  BY <1>1, ArgumentsTrue
<1>5. ASSUME row.status = "absent" \/ (fits /\ row.result = None), SetCall(KeyOf(w), Intent(w)),
             Goto(w, "act")
      PROVE  TruthInv'
  <2>1. /\ Intent(w).status = "RUNNING" /\ Intent(w).args = Arguments(w) /\ Intent(w).result = None
    BY DEF Intent
  <2>2. Stored(KeyOf(w), Intent(w))
    BY <1>2, <1>5, SetCallEffect DEF JournalRows
  <2>3. row.result = None
    BY <1>2, <1>5 DEF JournalRows
  <2>4. Grows /\ TableTrue'
    BY <1>1, <1>2, <1>4, <1>5, <2>1, <2>2, <2>3, StoredTrue
  <2>5. Becomes(w, Rec("act", r.at, r.base, r.seen, r.local, r.owned))
    BY <1>2, <1>5, GotoEffect
  <2>6. journal'[KeyOf(w)].args = Arguments(w)
    BY <2>1, <2>2 DEF Stored
  <2>7. "act" \in Executing /\ "act" \notin {"record", "walk", "save"}
    BY ActLabel
  <2> QED
    BY <1>1, <1>3, <1>4, <2>4, <2>5, <2>6, <2>7, WithinTruth
<1>6. ASSUME UNCHANGED journal
      PROVE  Grows /\ TableTrue'
  <2>1. UNCHANGED <<snapshots, held, evidence, claims>>
    BY <1>1 DEF workspaceVars, repositoryVars, ledgerVars
  <2> QED
    BY <1>1, <1>2, <1>6, <2>1, GrowsSame, TableSame
<1>7. ASSUME fits, Proceed(w), UNCHANGED journal
      PROVE  TruthInv'
  <2>1. ProceedWith(w, {})
    BY <1>7 DEF Proceed
  <2>2. Current(w).op = "search" => journal'[KeyOf(w)].args = Searched(r)
    BY <1>4, <1>7
  <2>3. AfterOp(Own(r, r.owned \cup {}), Current(w), journal', claims')
    BY <1>1, <2>2, AfterTool
  <2> QED
    BY <1>1, <1>3, <1>6, <1>7, <2>1, <2>3, ClaimsStay, ProceedsTruth
<1>8. ASSUME Fails(w), UNCHANGED journal
      PROVE  TruthInv'
  BY <1>1, <1>3, <1>6, <1>8, FailsTruth
<1> QED
  BY <1>5, <1>7, <1>8 DEF CallTool

LEMMA ToolRaisesTruth ==
    ASSUME PlaceInv, TruthInv, NEW w \in Worker, ToolRaises(w)
    PROVE  TruthInv'
<1> DEFINE row == journal[KeyOf(w)]
           new == [row EXCEPT !.status = "FAILED"]
<1>1. /\ work[w].pc \in Calling /\ work[w].pc \in Executing /\ Fails(w) /\ SetCall(KeyOf(w), new)
      /\ UNCHANGED <<workspaceVars, rowVars, leaseVars>>
  BY DEF ToolRaises, Calling, Executing
<1>2. /\ KeyOf(w) \in Key /\ row.status # "absent"
      /\ InputTrue(KeyOf(w), row.args, snapshots, journal)
  BY <1>1, CallingTrue
<1>3. TableTrue /\ JournalRows(journal, snapshots) /\ IsRow(row)
  BY <1>2, ShapedWork DEF TruthInv, JournalRows
<1>4. new = Row("FAILED", row.args, row.result)
  BY <1>3, RowStatus
<1>5. new.status = "FAILED" /\ new.args = row.args /\ new.result = row.result
  BY <1>4, RowFields
<1> HIDE DEF new
<1>6. Stored(KeyOf(w), new)
  BY <1>1, <1>2, <1>3, SetCallEffect DEF JournalRows
<1>7. row.result # None => AnswerTrue(KeyOf(w), row.args, row.result, snapshots, held, Target)
  BY <1>2, <1>3 DEF TableTrue, RowTrue
<1>8. Grows /\ TableTrue'
  BY <1>1, <1>2, <1>3, <1>5, <1>6, <1>7, StoredTrue
<1>9. UNCHANGED <<rowVars, reports, claims>>
  BY <1>1 DEF workspaceVars, ledgerVars, artifactVars
<1> QED
  BY <1>1, <1>8, <1>9, FailsTruth

LEMMA RecordResultTruth ==
    ASSUME PlaceInv, TruthInv, NEW w \in Worker, RecordResult(w)
    PROVE  TruthInv'
<1> DEFINE r == work[w]
           row == journal[KeyOf(w)]
           new == [row EXCEPT !.status = "SUCCEEDED", !.result = r.local]
<1>1. /\ r.pc = "record" /\ r.pc \in Calling /\ r.pc \in Executing
      /\ UNCHANGED <<workspaceVars, rowVars, leaseVars>>
  BY DEF RecordResult, Executing, Calling
<1>2. /\ KeyOf(w) \in Key /\ row.status # "absent" /\ Current(w).op \in Tool
      /\ InputTrue(KeyOf(w), row.args, snapshots, journal)
      /\ AnswerTrue(KeyOf(w), row.args, r.local, snapshots, held, Target)
      /\ Current(w).op = "search" => row.args = Searched(r)
  BY <1>1, CallingTrue
<1>3. TableTrue /\ JournalRows(journal, snapshots) /\ IsRow(row)
  BY <1>2, ShapedWork DEF TruthInv, JournalRows
<1>4. /\ new.status = "SUCCEEDED" /\ new.args = row.args /\ new.result = r.local
  <2>1. Finished(row, r.local) = Row("SUCCEEDED", row.args, r.local)
    BY <1>3, RowResult
  <2>2. new = Finished(row, r.local)
    BY DEF Finished
  <2> HIDE DEF new
  <2> QED
    BY <2>1, <2>2, RowFields
<1>5. UNCHANGED <<rowVars, reports, claims>>
  BY <1>1 DEF workspaceVars, ledgerVars, artifactVars
<1> HIDE DEF new
<1>6. ASSUME row.result = None, SetCall(KeyOf(w), new), Proceed(w)
      PROVE  TruthInv'
  <2>1. Stored(KeyOf(w), new)
    BY <1>2, <1>3, <1>6, SetCallEffect DEF JournalRows
  <2>2. Grows /\ TableTrue'
    BY <1>1, <1>2, <1>3, <1>4, <1>6, <2>1, StoredTrue
  <2>3. ProceedWith(w, {})
    BY <1>6 DEF Proceed
  <2>4. Current(w).op = "search" => journal'[KeyOf(w)].args = Searched(r)
    BY <1>2, <1>4, <2>1 DEF Stored
  <2>5. AfterOp(Own(r, r.owned \cup {}), Current(w), journal', claims')
    BY <1>1, <1>2, <2>4, AfterTool
  <2> QED
    BY <1>1, <1>5, <2>2, <2>3, <2>5, ClaimsStay, ProceedsTruth
<1>7. ASSUME Fails(w), UNCHANGED journal
      PROVE  TruthInv'
  <2>1. UNCHANGED <<snapshots, held, evidence, claims>>
    BY <1>1 DEF workspaceVars, repositoryVars, ledgerVars
  <2>2. Grows /\ TableTrue'
    BY <1>1, <1>3, <1>7, <2>1, GrowsSame, TableSame
  <2> QED
    BY <1>1, <1>5, <1>7, <2>2, FailsTruth
<1> QED
  BY <1>6, <1>7 DEF RecordResult, new

-----------------------------------------------------------------------------
\* The tools are true.

LEMMA QuietTruth ==
    ASSUME TruthInv, UNCHANGED <<workspaceVars, journal, rowVars, leaseVars>>
    PROVE  /\ Grows /\ TableTrue'
           /\ UNCHANGED <<rowVars, reports, claims, journal, snapshots, held, Target,
                          evidence, files>>
<1>1. UNCHANGED <<rowVars, reports, claims, journal, snapshots, held, Target, evidence,
                  files>>
  BY TargetSame DEF workspaceVars, repositoryVars, ledgerVars, artifactVars
<1>2. TableTrue'
  BY TableSame DEF TruthInv
<1> QED
  BY <1>1, <1>2, GrowsSame

LEMMA ReturnsTruth ==
    ASSUME PlaceInv, TruthInv, Grows, NEW w \in Worker, work[w].pc \in Calling, NEW output,
           Returns(w, output), UNCHANGED <<rowVars, reports, claims, journal>>, TableTrue',
           AnswerTrue(KeyOf(w), journal[KeyOf(w)].args, output, snapshots', held', Target')
    PROVE  TruthInv'
<1> DEFINE r == work[w]
<1>1. Becomes(w, Rec("record", r.at, r.base, r.seen, output, r.owned))
  BY ShapedWork, GotoWithEffect DEF Returns
<1>2. r.pc \in Executing /\ "record" \in Executing /\ "record" \notin {"walk", "save"}
  BY DEF Executing, Calling
<1>3. Current(w).op = "search" => journal'[KeyOf(w)].args = Searched(r)
  BY CallingTrue
<1> QED
  BY <1>1, <1>2, <1>3, WithinTruth

LEMMA FilesTyped ==
    ASSUME PlaceInv, TruthInv, NEW p \in Path
    PROVE  /\ files[p] \in Content /\ held[p] \subseteq Content /\ files[p] \in held[p]
           /\ edits \in Nat /\ \A c \in held[p] : c.edition <= edits + 1
           /\ Target[p] = {} => Newest(files[p], held[p])
           /\ Target[p] \cap held[p] # {} => ImplementedIn(Target, p, files[p])
<1>1. files[p] \in Content /\ held[p] \subseteq Content /\ edits \in Nat
  BY DEF PlaceInv, TypeOK
<1> QED
  BY <1>1 DEF TruthInv, TableTrue, FilesTrue

LEMMA ReadFileTruth ==
    ASSUME PlaceInv, TruthInv, NEW w \in Worker, ReadFile(w)
    PROVE  TruthInv'
<1> DEFINE p == Current(w).path
           output == [content |-> Redact(p, files[p]), hash |-> files[p]]
<1>1. /\ AtTool(w, "read") /\ Returns(w, output)
      /\ UNCHANGED <<workspaceVars, journal, rowVars, leaseVars>>
  BY DEF ReadFile
<1>2. /\ work[w].pc \in Calling /\ KeyOf(w)[2] = "read" /\ KeyOf(w)[3] = p /\ KeyOf(w) \in Key
  BY <1>1, AtToolFacts DEF Tool
<1>3. p \in Path
  BY <1>2, KeyFacts
<1>4. files[p] \in held[p]
  BY <1>3, FilesTyped
<1>5. ReadTrue(p, output, held)
  BY <1>4 DEF ReadTrue
<1> HIDE DEF output
<1>6. AnswerTrue(KeyOf(w), journal[KeyOf(w)].args, output, snapshots, held, Target)
  BY <1>2, <1>5 DEF AnswerTrue
<1> QED
  BY <1>1, <1>2, <1>6, QuietTruth, ReturnsTruth

LEMMA CompareFileTruth ==
    ASSUME PlaceInv, TruthInv, NEW w \in Worker, CompareFile(w)
    PROVE  TruthInv'
<1> DEFINE r == work[w]
           p == Current(w).path
<1>1. AtTool(w, "write") /\ UNCHANGED <<workspaceVars, journal, rowVars, leaseVars>>
  BY DEF CompareFile
<1>2. /\ r.pc \in Calling /\ r.pc \in Executing /\ Current(w).op = "write"
      /\ KeyOf(w)[2] = "write" /\ KeyOf(w)[3] = p /\ KeyOf(w) \in Key
  BY <1>1, AtToolFacts DEF Tool
<1>3. p \in Path
  BY <1>2, KeyFacts
<1>4. CASE Goto(w, "swap")
  <2>1. Becomes(w, Rec("swap", r.at, r.base, r.seen, r.local, r.owned))
    BY <1>4, ShapedWork, GotoEffect
  <2>2. "swap" \in Executing /\ "swap" \notin {"record", "walk", "save"}
    BY DEF Executing, Calling
  <2> QED
    BY <1>1, <1>2, <2>1, <2>2, QuietTruth, WithinTruth
<1>5. CASE files[p] = journal[KeyOf(w)].args.content /\ Returns(w, "written")
  <2>1. journal[KeyOf(w)].args.content \in held[p]
    BY <1>3, <1>5, FilesTyped
  <2>2. AnswerTrue(KeyOf(w), journal[KeyOf(w)].args, "written", snapshots, held, Target)
    BY <1>2, <2>1 DEF AnswerTrue
  <2> QED
    BY <1>1, <1>2, <1>5, <2>2, QuietTruth, ReturnsTruth
<1> QED
  BY <1>4, <1>5 DEF CompareFile

\* The new content of a file is what the change makes of an edition that was there.
LEMMA NewContentTrue ==
    ASSUME PlaceInv, TruthInv, NEW p \in Path, journal[ReadKey(p)].result # None
    PROVE  /\ NewFor(journal, p) \in Content /\ NewFor(journal, p).edition <= edits + 1
           /\ Target[p] = {NewFor(journal, p)}
<1> DEFINE k == ReadKey(p)
           result == journal[k].result
<1>1. k \in Key /\ k[2] = "read" /\ k[3] = p
  BY ReadKeyType DEF ReadKey
<1> HIDE DEF k
<1>2. RowTrue(k, snapshots, journal, held, Target)
  BY <1>1 DEF TruthInv, TableTrue
<1>3. ReadTrue(p, result, held)
  BY <1>1, <1>2 DEF RowTrue, AnswerTrue, k
<1> HIDE DEF result
<1>4. result.hash \in held[p] /\ result.content = Redact(p, result.hash)
  BY <1>3 DEF ReadTrue
<1>5. result.hash \in Content /\ result.hash.edition <= edits + 1
  BY <1>4, FilesTyped
<1>6. result.content \in Content /\ result.content.edition <= edits + 1
  BY <1>4, <1>5, RedactType
<1>7. Target[p] = {NewFor(journal, p)}
  BY DEF Target
<1> QED
  BY <1>6, <1>7, TransformType DEF NewFor, result, k

\* A file whose write has a result held the new content.
LEMMA WriteLanded ==
    ASSUME PlaceInv, TruthInv, NEW p \in Path, journal[WriteKey(p)].result # None
    PROVE  Target[p] \cap held[p] # {}
<1> DEFINE k == WriteKey(p)
<1>1. k \in Key /\ k[2] = "write" /\ k[3] = p
  BY ReadKeyType DEF WriteKey
<1>2. journal[k].status # "absent"
  BY <1>1 DEF PlaceInv, Rows, JournalRows
<1>3. RowTrue(k, snapshots, journal, held, Target)
  BY <1>1 DEF TruthInv, TableTrue
<1> HIDE DEF k
<1>4. InputTrue(k, journal[k].args, snapshots, journal) /\ journal[k].args.content \in held[p]
  BY <1>1, <1>2, <1>3 DEF RowTrue, AnswerTrue, k
<1>5. journal[ReadKey(p)].result # None /\ journal[k].args.content = NewFor(journal, p)
  BY <1>1, <1>4 DEF InputTrue
<1> QED
  BY <1>4, <1>5, NewContentTrue

LEMMA ReplaceFileTable ==
    ASSUME PlaceInv, TruthInv, NEW w \in Worker, ReplaceFile(w)
    PROVE  /\ Grows /\ TableTrue' /\ UNCHANGED <<rowVars, reports, claims, journal>>
           /\ AnswerTrue(KeyOf(w), journal[KeyOf(w)].args, "written", snapshots', held', Target')
<1> DEFINE p == Current(w).path
           content == journal[KeyOf(w)].args.content
<1>1. /\ work[w].pc = "swap" /\ Put(p, content)
      /\ written' = [written EXCEPT ![p] = @ \cup {content}]
      /\ UNCHANGED <<edits, snapshots, ledgerVars, artifactVars, journal, rowVars, leaseVars>>
  BY DEF ReplaceFile
<1>2. /\ Current(w).op = "write" /\ p \in Path
  BY ReplaceFileTypes
<1>3. /\ KeyOf(w) \in Key /\ KeyOf(w)[2] = "write" /\ KeyOf(w)[3] = p
      /\ InputTrue(KeyOf(w), journal[KeyOf(w)].args, snapshots, journal)
  BY <1>1, <1>2, CallingTrue DEF Calling
<1>4. journal[ReadKey(p)].result # None /\ content = NewFor(journal, p)
  BY <1>3 DEF InputTrue
<1> HIDE DEF content, p
<1>5. content \in Content /\ content.edition <= edits + 1 /\ Target[p] = {content}
  BY <1>2, <1>4, NewContentTrue
<1>6. /\ files'[p] = content /\ held'[p] = held[p] \cup {content}
      /\ \A q \in Path : q # p => files'[q] = files[q] /\ held'[q] = held[q]
  BY <1>1, <1>2, <1>5, PutType DEF PlaceInv
<1>7. /\ written'[p] = written[p] \cup {content}
      /\ \A q \in Path : q # p => written'[q] = written[q]
  BY <1>1, <1>2 DEF PlaceInv, TypeOK
<1>8. Widens(held, held') /\ Target' = Target
  BY <1>1, <1>6, TargetSame DEF Widens
<1>9. /\ UNCHANGED <<rowVars, reports, claims, journal, snapshots, evidence, catalogue,
                     artifact, edits>>
  BY <1>1 DEF ledgerVars, artifactVars
<1>10. Grows
  BY <1>8, <1>9, KeepsSame, WidensSame DEF Grows, Final
<1>11. FilesTrue(files', held', Target', edits')
  <2> SUFFICES ASSUME NEW q \in Path
               PROVE  /\ files'[q] \in held'[q] /\ \A c \in held'[q] : c.edition <= edits + 1
                      /\ Target[q] = {} => Newest(files'[q], held'[q])
                      /\ Target[q] \cap held'[q] # {} => ImplementedIn(Target, q, files'[q])
    BY <1>8, <1>9 DEF FilesTrue
  <2>1. CASE q # p
    BY <1>6, <2>1, FilesTyped
  <2>2. CASE q = p
    <3>1. ImplementedIn(Target, q, files'[q])
      BY <1>5, <1>6, <2>2 DEF ImplementedIn
    <3> QED
      BY <1>5, <1>6, <2>2, <3>1, FilesTyped
  <2> QED
    BY <2>1, <2>2
<1>12. \A q \in Path : \A c \in written'[q] : c \notin written[q] => c \in Target[q]
  BY <1>5, <1>7
<1>13. \A k \in Key : RowTrue(k, snapshots', journal', held', Target')
  BY <1>9, <1>10, RowsStay DEF TruthInv
<1>14. TableTrue'
  BY <1>9, <1>10, <1>11, <1>12, <1>13, TableGrows DEF TruthInv
<1>15. AnswerTrue(KeyOf(w), journal[KeyOf(w)].args, "written", snapshots', held', Target')
  BY <1>3, <1>6 DEF AnswerTrue, content
<1> QED
  BY <1>9, <1>10, <1>14, <1>15

LEMMA ReplaceFileTruth ==
    ASSUME PlaceInv, TruthInv, NEW w \in Worker, ReplaceFile(w)
    PROVE  TruthInv'
<1>1. work[w].pc \in Calling /\ Returns(w, "written")
  BY DEF ReplaceFile, Calling
<1> QED
  BY <1>1, ReplaceFileTable, ReturnsTruth

LEMMA FindIndexTruth ==
    ASSUME PlaceInv, TruthInv, NEW w \in Worker, FindIndex(w)
    PROVE  TruthInv'
<1> DEFINE r == work[w]
           id == SnapshotOf(Task(w))
<1>1. AtTool(w, "index") /\ UNCHANGED <<workspaceVars, journal, rowVars, leaseVars>>
  BY DEF FindIndex
<1>2. r.pc \in Calling /\ r.pc \in Executing /\ Current(w).op = "index" /\ KeyOf(w)[2] = "index"
  BY <1>1, AtToolFacts DEF Tool
<1>3. CASE Returns(w, id)
  <2>1. AnswerTrue(KeyOf(w), journal[KeyOf(w)].args, id, snapshots, held, Target)
    BY <1>2 DEF AnswerTrue
  <2> QED
    BY <1>1, <1>2, <1>3, <2>1, QuietTruth, ReturnsTruth
<1>4. CASE GotoWith(w, "walk", <<>>)
  <2>1. Becomes(w, Rec("walk", r.at, r.base, r.seen, <<>>, r.owned))
    BY <1>4, ShapedWork, GotoWithEffect
  <2>2. "walk" \in Executing /\ "walk" # "record"
    BY DEF Executing, Calling
  <2>3. 1 .. Len(<<>>) = {}
    BY EmptyWalk
  <2> QED
    BY <1>1, <1>2, <2>1, <2>2, <2>3, QuietTruth, WithinTruth
<1> QED
  BY <1>3, <1>4 DEF FindIndex

\* The numbers of the tasks.
LEMMA TaskNumber ==
    ASSUME NEW n \in 0 .. 4
    PROVE  /\ TaskSeq[n + 1] = "inspect_repository" => n = 0
           /\ TaskSeq[n + 1] = "research_constraints" => n = 1
           /\ TaskSeq[n + 1] = "implement_change" => n = 2
           /\ TaskSeq[n + 1] = "verify_change" => n = 3
           /\ TaskSeq[n + 1] = "generate_report" => n = 4
<1>1. CASE n = 0
  BY <1>1, TaskSeqType
<1>2. CASE n = 1
  BY <1>2, TaskSeqType
<1>3. CASE n = 2
  BY <1>3, TaskSeqType
<1>4. CASE n = 3
  BY <1>4, TaskSeqType
<1>5. CASE n = 4
  BY <1>5, TaskSeqType
<1> QED
  BY <1>1, <1>2, <1>3, <1>4, <1>5

\* Before the index of the implementation, and before the tests, every file is written.
LEMMA WrittenBefore ==
    ASSUME PlaceInv, TruthInv, NEW w \in Worker, work[w].pc \in Executing,
           \/ Task(w) = "implement_change" /\ Current(w).op = "index"
           \/ Task(w) = "verify_change"
    PROVE  \A p \in Path : ImplementedIn(Target, p, files[p])
<1> DEFINE r == work[w]
<1>1. /\ Task(w) = TaskOf(r) /\ Current(w) = OpOf(r) /\ Ordered(TaskOf(r), r.at)
      /\ Seen(r) /\ r.seen[1] < 5
  BY ShapedWork, RunningKey
<1>2. CASE Task(w) = "implement_change" /\ Current(w).op = "index"
  <2> SUFFICES ASSUME NEW p \in Path PROVE journal[WriteKey(p)].result # None
    BY WriteLanded, FilesTyped
  <2>1. FileOp("write", p) \in Passed(r)
    BY <1>1, <1>2 DEF Ordered, Passed, OpOf
  <2>2. KeyFor(Task(w), FileOp("write", p)) = WriteKey(p)
    BY <1>2 DEF KeyFor, FileOp, WriteKey
  <2> QED
    BY <2>1, <2>2, PassedAnswer DEF FileOp, Tool
<1>3. CASE Task(w) = "verify_change"
  <2>1. r.seen[1] \in 0 .. 4
    BY <1>1, TaskOfType
  <2>2. r.seen[1] = 3
    BY <1>1, <1>3, <2>1, TaskNumber DEF TaskOf
  <2>3. r.seen[1] <= done /\ done \in Nat
    BY DEF PlaceInv, Progress, Ahead, TypeOK
  <2>4. \A p \in Path : journal[WriteKey(p)].result # None
    BY <2>2, <2>3 DEF TruthInv, RunTrue, DoneTrue
  <2> QED
    BY <2>4, WriteLanded, FilesTyped
<1> QED
  BY <1>2, <1>3

LEMMA WalkedTrue ==
    ASSUME PlaceInv, TruthInv, NEW w \in Worker, work[w].pc \in {"walk", "scan"}
    PROVE  LET found == Append(work[w].local, files[Len(work[w].local) + 1]) IN
           \A n \in 1 .. Len(found) :
               /\ found[n] \in held[n]
               /\ work[w].pc = "walk" /\ Task(w) = "implement_change" =>
                     ImplementedIn(Target, n, found[n])
<1> DEFINE r == work[w]
           found == Append(r.local, files[Len(r.local) + 1])
<1>1. /\ Task(w) = TaskOf(r) /\ Placed(r, snapshots, journal) /\ TypeOK /\ Current(w) = OpOf(r)
  BY ShapedWork
<1>2. r.local \in Seq(Content) /\ Len(r.local) < NumPaths
  BY <1>1 DEF Placed, Walking
<1>3. /\ Len(found) = Len(r.local) + 1 /\ Len(r.local) \in Nat /\ (Len(r.local) + 1) \in Path
      /\ \A n \in 1 .. Len(found) : found[n] = IF n = Len(r.local) + 1 THEN files[n] ELSE r.local[n]
  BY <1>1, <1>2, WalkedType
<1> HIDE DEF found
<1> SUFFICES ASSUME NEW n \in 1 .. Len(found)
             PROVE  /\ found[n] \in held[n]
                    /\ r.pc = "walk" /\ Task(w) = "implement_change" =>
                          ImplementedIn(Target, n, found[n])
  BY DEF found
<1>4. CASE n = Len(r.local) + 1
  <2>1. n \in Path /\ found[n] = files[n]
    BY <1>3, <1>4
  <2>2. ASSUME r.pc = "walk", Task(w) = "implement_change" PROVE ImplementedIn(Target, n, files[n])
    <3>1. r.pc \in Executing /\ Current(w).op = "index"
      BY <1>1, <2>2 DEF Executing, Calling, Placed, InCall
    <3> QED
      BY <2>1, <2>2, <3>1, WrittenBefore
  <2> QED
    BY <2>1, <2>2, FilesTyped
<1>5. CASE n # Len(r.local) + 1
  <2>1. n \in 1 .. Len(r.local) /\ found[n] = r.local[n]
    BY <1>3, <1>5
  <2>2. WalkTrue(r, held, Target)
    BY DEF TruthInv, WorkTrue
  <2> QED
    BY <1>1, <2>1, <2>2 DEF WalkTrue
<1> QED
  BY <1>4, <1>5

LEMMA WalkTruth ==
    ASSUME PlaceInv, TruthInv, NEW w \in Worker, WalkFile(w), work[w].pc = "walk"
    PROVE  TruthInv'
<1> DEFINE r == work[w]
           found == Append(r.local, files[Len(r.local) + 1])
           pc == IF Len(found) < NumPaths THEN "walk" ELSE "save"
<1>1. /\ GotoWith(w, pc, found) /\ UNCHANGED <<workspaceVars, journal, rowVars, leaseVars>>
  BY DEF WalkFile
<1>2. Current(w).op = "index" /\ r.pc \in Executing
  BY ShapedWork DEF Placed, InCall, Executing, Calling
<1>3. Becomes(w, Rec(pc, r.at, r.base, r.seen, found, r.owned))
  BY <1>1, ShapedWork, GotoWithEffect
<1>4. \A n \in 1 .. Len(found) :
          /\ found[n] \in held[n]
          /\ Task(w) = "implement_change" => ImplementedIn(Target, n, found[n])
  BY WalkedTrue
<1> HIDE DEF found
<1>5. pc \in Executing /\ pc # "record"
  BY DEF Executing, Calling
<1> HIDE DEF pc
<1> QED
  BY <1>1, <1>2, <1>3, <1>4, <1>5, QuietTruth, WithinTruth

\* A step outside of a program that leaves the tables true.
LEMMA AsideTruth ==
    ASSUME PlaceInv, TruthInv, Grows, NEW w \in Worker, NEW r, Becomes(w, r),
           r.pc \notin Reporting, UNCHANGED <<reports, claims, done>>, TableTrue',
           WorkTrue(r, snapshots', journal', held', Target', claims')
    PROVE  TruthInv'
<1>1. DoneTrue(done', claims', journal')
  BY DoneGrows
<1> QED
  BY <1>1, ClaimsStay, StepTruth

LEMMA ScanTruth ==
    ASSUME PlaceInv, TruthInv, NEW w \in Worker, WalkFile(w), work[w].pc = "scan"
    PROVE  TruthInv'
<1> DEFINE r == work[w]
           found == Append(r.local, files[Len(r.local) + 1])
           pc == IF Len(found) < NumPaths THEN "scan" ELSE "compare"
           q == Rec(pc, r.at, r.base, r.seen, found, r.owned)
<1>1. "scan" # "walk"
  OBVIOUS
<1>2. /\ GotoWith(w, pc, found) /\ UNCHANGED <<workspaceVars, journal, rowVars, leaseVars>>
  BY <1>1 DEF WalkFile
<1>3. Becomes(w, q)
  BY <1>2, ShapedWork, GotoWithEffect
<1>4. \A n \in 1 .. Len(found) : found[n] \in held[n]
  BY WalkedTrue
<1>5. pc \in {"scan", "compare"}
  OBVIOUS
<1> HIDE DEF found, pc
<1>6. q.pc = pc /\ q.local = found
  BY Fields
<1> HIDE DEF q
<1>7. /\ pc \notin Executing /\ pc \notin {"renew", "commit"} /\ pc \notin Calling
      /\ pc \notin {"walk", "save", "record"} /\ pc \notin Reporting
  BY <1>5 DEF Executing, Calling, Reporting
<1>8. /\ Grows /\ TableTrue'
      /\ UNCHANGED <<rowVars, reports, claims, journal, snapshots, held, Target, evidence>>
  BY <1>2, QuietTruth
<1>9. WorkTrue(q, snapshots', journal', held', Target', claims')
  <2>1. OpsTrue(q, journal', claims') /\ CallTrue(q, snapshots', journal', held', Target')
    BY <1>6, <1>7 DEF OpsTrue, CallTrue
  <2>2. WalkTrue(q, held', Target')
    BY <1>4, <1>6, <1>7, <1>8 DEF WalkTrue
  <2> QED
    BY <2>1, <2>2 DEF WorkTrue
<1>10. UNCHANGED <<reports, claims, done>>
  BY <1>8 DEF rowVars
<1> QED
  BY <1>3, <1>6, <1>7, <1>8, <1>9, <1>10, AsideTruth

LEMMA WalkFileTruth ==
    ASSUME PlaceInv, TruthInv, NEW w \in Worker, WalkFile(w)
    PROVE  TruthInv'
  BY WalkTruth, ScanTruth DEF WalkFile

\* What an index holds was on the walk.
LEMMA IndexTrue ==
    ASSUME NEW found, NEW previous, NEW p \in Live(Index(found, previous))
    PROVE  p \in Path /\ Index(found, previous)[p].content = found[p]
<1>1. p \in Path /\ ~ Index(found, previous)[p].deleted /\ Index(found, previous)[p].content # Gone
  BY DEF Live
<1>2. Index(found, previous)[p] =
        IF found[p] # Gone THEN [content |-> found[p], deleted |-> FALSE]
        ELSE IF p \in Live(previous)
             THEN [content |-> previous[p].content, deleted |-> TRUE]
             ELSE NoEntry
  BY <1>1 DEF Index
<1>3. NoEntry.content = Gone
  BY DEF NoEntry
<1> QED
  BY <1>1, <1>2, <1>3

\* A snapshot is saved.
LEMMA SavedTrue ==
    ASSUME PlaceInv, TruthInv, NEW id, NEW manifest, SaveIndex(id, manifest),
           UNCHANGED <<repositoryVars, ledgerVars, artifactVars, journal>>,
           ManifestTrue(manifest, held), id = Changed => ChangeIn(manifest, Target)
    PROVE  /\ Grows /\ TableTrue'
           /\ UNCHANGED <<reports, claims, held, Target>>
<1>1. UNCHANGED <<files, held, written, Target, edits, evidence, claims, catalogue, artifact, reports>>
  BY TargetSame DEF repositoryVars, ledgerVars, artifactVars
<1>2. /\ Keeps(snapshots, snapshots', journal, journal')
      /\ DOMAIN snapshots' = DOMAIN snapshots \cup {id} /\ snapshots'[id] = manifest
  BY KeepsSaved
<1>3. Grows
  BY <1>1, <1>2, WidensSame DEF Grows, Final
<1>4. FilesTrue(files', held', Target', edits') /\ TableTrue
  BY <1>1 DEF TruthInv, TableTrue
<1>5. \A k \in Key : RowTrue(k, snapshots', journal', held', Target')
  BY <1>3, <1>4, RowsStay
<1>6. TableTrue'
  BY <1>1, <1>2, <1>3, <1>4, <1>5, TableGrows
<1> QED
  BY <1>1, <1>3, <1>6

LEMMA SaveSnapshotTruth ==
    ASSUME PlaceInv, TruthInv, NEW w \in Worker, SaveSnapshot(w)
    PROVE  TruthInv'
<1> DEFINE r == work[w]
           id == SnapshotOf(Task(w))
           previous == snapshots[r.base]
           manifest == Index(r.local, previous)
<1>1. /\ r.pc = "save" /\ SaveIndex(id, manifest) /\ Returns(w, id)
      /\ UNCHANGED <<repositoryVars, ledgerVars, artifactVars, journal, rowVars, leaseVars>>
  BY DEF SaveSnapshot
<1>2. /\ Len(r.local) = NumPaths /\ Current(w).op = "index" /\ Task(w) = TaskOf(r)
  BY <1>1, SaveSnapshotTypes, ShapedWork
<1>3. 1 .. Len(r.local) = Path
  BY <1>2 DEF Path
<1>4. \A p \in Path : /\ r.local[p] \in held[p]
                      /\ Task(w) = "implement_change" => ImplementedIn(Target, p, r.local[p])
  BY <1>1, <1>2, <1>3 DEF TruthInv, WorkTrue, WalkTrue
<1>5. ManifestTrue(manifest, held)
  BY <1>4, IndexTrue DEF ManifestTrue
<1>6. id = Changed => Task(w) = "implement_change"
  BY DEF SnapshotOf, Changed
<1>7. id = Changed => ChangeIn(manifest, Target)
  BY <1>4, <1>6, IndexTrue DEF ChangeIn
<1> HIDE DEF id, manifest
<1>8. /\ Grows /\ TableTrue' /\ UNCHANGED <<reports, claims>>
  BY <1>1, <1>5, <1>7, SavedTrue
<1>9. r.pc \in Calling
  BY <1>1 DEF Calling
<1>10. KeyOf(w)[2] = "index"
  BY <1>2, <1>9, CallingTrue
<1>11. AnswerTrue(KeyOf(w), journal[KeyOf(w)].args, id, snapshots', held', Target')
  BY <1>10 DEF AnswerTrue
<1> QED
  BY <1>1, <1>8, <1>9, <1>11, ReturnsTruth

LEMMA SearchTruth ==
    ASSUME PlaceInv, TruthInv, NEW w \in Worker, Search(w)
    PROVE  TruthInv'
<1> DEFINE args == journal[KeyOf(w)].args
           output == Live(snapshots[args])
<1>1. /\ AtTool(w, "search") /\ Returns(w, output)
      /\ UNCHANGED <<workspaceVars, journal, rowVars, leaseVars>>
  BY DEF Search
<1>2. work[w].pc \in Calling /\ KeyOf(w)[2] = "search"
  BY <1>1, AtToolFacts DEF Tool
<1>3. args \in DOMAIN snapshots
  BY <1>2, CallingTrue DEF InputTrue
<1>4. AnswerTrue(KeyOf(w), args, output, snapshots, held, Target)
  BY <1>2, <1>3 DEF AnswerTrue
<1> HIDE DEF output
<1> QED
  BY <1>1, <1>2, <1>4, QuietTruth, ReturnsTruth

LEMMA RecordMapTruth ==
    ASSUME PlaceInv, TruthInv, NEW w \in Worker, RecordMap(w)
    PROVE  TruthInv'
<1> DEFINE content == journal[KeyOf(w)].args
<1>1. /\ AtTool(w, "artifact") /\ PutArtifact(content) /\ Returns(w, content)
      /\ UNCHANGED <<repositoryVars, snapshots, ledgerVars, catalogue, known>>
      /\ UNCHANGED <<journal, rowVars, leaseVars>>
  BY DEF RecordMap
<1>2. work[w].pc \in Calling /\ KeyOf(w)[2] = "artifact"
  BY <1>1, AtToolFacts DEF Tool
<1>3. Inspected \in DOMAIN snapshots /\ content = snapshots[Inspected]
  BY <1>2, CallingTrue DEF InputTrue
<1>4. AnswerTrue(KeyOf(w), content, content, snapshots, held, Target)
  BY <1>2 DEF AnswerTrue
<1> HIDE DEF content
<1>5. UNCHANGED <<files, held, written, Target, edits, evidence, claims, reports>>
  BY <1>1, TargetSame DEF repositoryVars, ledgerVars
<1>6. artifact'.stored # artifact.stored => artifact'.stored = content
  BY <1>1 DEF PutArtifact
<1>7. Grows
  BY <1>1, <1>5, GrowsSame
<1>8. FilesTrue(files', held', Target', edits') /\ TableTrue
  BY <1>5 DEF TruthInv, TableTrue
<1>9. \A k \in Key : RowTrue(k, snapshots', journal', held', Target')
  BY <1>1, <1>7, <1>8, RowsStay
<1>10. artifact'.stored # artifact.stored => MapsTrue(artifact'.stored, snapshots')
  BY <1>1, <1>3, <1>6 DEF MapsTrue
<1>11. TableTrue'
  BY <1>1, <1>5, <1>7, <1>8, <1>9, <1>10, TableGrows
<1> QED
  BY <1>1, <1>2, <1>4, <1>5, <1>7, <1>11, ReturnsTruth DEF content

LEMMA RunTestsTruth ==
    ASSUME PlaceInv, TruthInv, NEW w \in Worker, RunTests(w)
    PROVE  TruthInv'
<1>1. PICK passed \in BOOLEAN : Returns(w, [files |-> files, passed |-> passed])
  BY DEF RunTests
<1>2. AtTool(w, "test") /\ UNCHANGED <<workspaceVars, journal, rowVars, leaseVars>>
  BY DEF RunTests
<1>3. work[w].pc \in Calling /\ work[w].pc \in Executing /\ KeyOf(w)[2] = "test" /\ KeyOf(w) \in Key
  BY <1>2, AtToolFacts DEF Tool
<1> DEFINE output == [files |-> files, passed |-> passed]
<1>4. KeyOf(w)[1] = "verify_change" /\ KeyOf(w)[1] = Task(w)
  BY <1>3, KeyFacts, CallingTrue
<1>5. \A p \in Path : ImplementedIn(Target, p, files[p])
  BY <1>3, <1>4, WrittenBefore
<1>6. \A p \in Path : files[p] \in held[p] /\ ImplementedIn(Target, p, files[p])
  BY <1>5, FilesTyped
<1>7. TestTrue(output, held, Target)
  BY <1>6 DEF TestTrue
<1>8. Returns(w, output)
  BY <1>1
<1> HIDE DEF output
<1>9. AnswerTrue(KeyOf(w), journal[KeyOf(w)].args, output, snapshots, held, Target)
  BY <1>3, <1>7 DEF AnswerTrue
<1> QED
  BY <1>2, <1>3, <1>8, <1>9, QuietTruth, ReturnsTruth

-----------------------------------------------------------------------------
\* What a program does between its tools is true.

LEMMA CatalogueTruth ==
    ASSUME PlaceInv, TruthInv, NEW w \in Worker, Catalogue(w)
    PROVE  TruthInv'
<1> DEFINE content == Result(w, "artifact", 0)
<1>1. /\ AtOp(w, {"catalogue"})
      /\ UNCHANGED <<repositoryVars, snapshots, ledgerVars, artifact, known>>
      /\ UNCHANGED <<journal, rowVars, leaseVars>>
  BY DEF Catalogue
<1>2. /\ work[w].pc \in Executing /\ Current(w).op = "catalogue"
      /\ Ordered(Task(w), work[w].at) /\ Current(w) = Program(Task(w))[work[w].at]
      /\ Passed(work[w]) = Before(Task(w), work[w].at)
  BY <1>1, AtOpFacts DEF Tool
<1>3. Inspected \in DOMAIN snapshots /\ content = snapshots[Inspected]
  <2> DEFINE k == KeyFor(Task(w), Op("artifact"))
  <2>1. Op("artifact") \in Passed(work[w]) /\ Op("artifact").op \in Tool
    BY <1>2 DEF Ordered, Op, Tool
  <2>2. k[2] = "artifact" /\ content = journal[k].result
    BY DEF KeyFor, Op, Result
  <2>3. /\ InputTrue(k, journal[k].args, snapshots, journal)
        /\ AnswerTrue(k, journal[k].args, journal[k].result, snapshots, held, Target)
    BY <1>2, <2>1, PassedTrue
  <2> HIDE DEF k
  <2> QED
    BY <2>2, <2>3 DEF InputTrue, AnswerTrue
<1>4. catalogue' = content \/ UNCHANGED catalogue
  BY DEF Catalogue
<1> HIDE DEF content
<1>5. UNCHANGED <<files, held, written, Target, edits, evidence, claims, reports>>
  BY <1>1, TargetSame DEF repositoryVars, ledgerVars
<1>6. Grows
  BY <1>1, <1>5, GrowsSame
<1>7. FilesTrue(files', held', Target', edits') /\ TableTrue
  BY <1>5 DEF TruthInv, TableTrue
<1>8. \A k \in Key : RowTrue(k, snapshots', journal', held', Target')
  BY <1>1, <1>6, <1>7, RowsStay
<1>9. catalogue' # catalogue => MapsTrue(catalogue', snapshots')
  BY <1>1, <1>3, <1>4 DEF MapsTrue
<1>10. TableTrue'
  BY <1>1, <1>5, <1>6, <1>7, <1>8, <1>9, TableGrows
<1>11. CASE Proceed(w)
  <2>1. ProceedWith(w, {})
    BY <1>11 DEF Proceed
  <2>2. AfterOp(Own(work[w], work[w].owned \cup {}), Current(w), journal', claims')
    BY <1>2 DEF AfterOp
  <2> QED
    BY <1>1, <1>2, <1>5, <1>6, <1>10, <2>1, <2>2, ClaimsStay, ProceedsTruth
<1>12. CASE Fails(w)
  BY <1>1, <1>2, <1>5, <1>6, <1>10, <1>12, FailsTruth
<1> QED
  BY <1>11, <1>12 DEF Catalogue

\* The index that a program works with.
LEMMA IndexOfTrue ==
    ASSUME PlaceInv, TruthInv, NEW w \in Worker, work[w].pc \in Executing,
           Task(w) = "research_constraints" \/ Op("index") \in Passed(work[w])
    PROVE  /\ IndexOf(w) = snapshots[Searched(work[w])] /\ Searched(work[w]) \in DOMAIN snapshots
           /\ ManifestTrue(IndexOf(w), held)
<1> DEFINE r == work[w]
<1>1. Task(w) = TaskOf(r) /\ r.base \in DOMAIN snapshots
  BY ShapedWork, RunningKey
<1>2. CASE Task(w) = "research_constraints"
  BY <1>1, <1>2 DEF IndexOf, Searched, TruthInv, TableTrue, SnapshotsTrue
<1>3. CASE Task(w) # "research_constraints"
  <2>1. IsIndex(Result(w, "index", 0), Task(w), snapshots)
    BY <1>3, PassedAnswer DEF Op, Result, KeyFor, Tool
  <2>2. Result(w, "index", 0) = Searched(r) /\ Searched(r) \in DOMAIN snapshots
    BY <1>1, <1>3, <2>1 DEF IsIndex, Searched
  <2> QED
    BY <1>3, <2>2 DEF IndexOf, TruthInv, TableTrue, SnapshotsTrue
<1> QED
  BY <1>2, <1>3

\* A record of what was there.
RecordTrue(e, h, wr) ==
    \A p \in DOMAIN e.contents :
        e.contents[p] \in h[p] /\ (e.type = "test" => ImplementedIn(wr, p, e.contents[p]))

LEMMA FindingsTrue ==
    ASSUME PlaceInv, TruthInv, NEW w \in Worker,
           AtOp(w, {"map_evidence", "chunk_evidence", "file_evidence", "test_evidence"}),
           NEW e \in Findings(w)
    PROVE  RecordTrue(e, held, Target)
<1> DEFINE r == work[w]
           o == Current(w)
<1>1. /\ r.pc \in Executing /\ Ordered(Task(w), r.at)
      /\ o.op \in {"map_evidence", "chunk_evidence", "file_evidence", "test_evidence"}
      /\ o = Program(Task(w))[r.at] /\ Passed(r) = Before(Task(w), r.at)
  BY AtOpFacts DEF Tool
<1>2. CASE o.op = "map_evidence"
  <2>1. Op("index") \in Passed(r)
    BY <1>1, <1>2 DEF Ordered
  <2>2. ManifestTrue(IndexOf(w), held)
    BY <1>1, <2>1, IndexOfTrue
  <2>3. PICK type \in {"artifact", "snapshot"} : e = Record(w, Task(w), type, Contents(IndexOf(w)))
    BY <1>2 DEF Findings
  <2>4. e.type # "test" /\ e.contents = Contents(IndexOf(w))
    BY <2>3, RecordFields
  <2>5. \A p \in DOMAIN e.contents : e.contents[p] \in held[p]
    BY <2>2, <2>4 DEF Contents, ManifestTrue
  <2> QED
    BY <2>4, <2>5 DEF RecordTrue
<1>3. CASE o.op = "chunk_evidence"
  <2> DEFINE k == SearchKey(Task(w))
  <2>1. /\ Op("search") \in Passed(r) /\ Op("search").op = "search" /\ Op("search").op \in Tool
        /\ Task(w) = "research_constraints" \/ Op("index") \in Passed(r)
    BY <1>1, <1>3 DEF Ordered, Op, Tool
  <2>2. KeyFor(Task(w), Op("search")) = k /\ k[2] = "search" /\ Result(w, "search", 0) = journal[k].result
    BY DEF KeyFor, Op, SearchKey, Result
  <2>3. AnswerTrue(k, journal[k].args, journal[k].result, snapshots, held, Target)
    BY <1>1, <2>1, <2>2, PassedTrue
  <2>4. journal[k].args = Searched(r)
    <3>1. OpsTrue(r, journal, claims) /\ r.pc # "renew" /\ TaskOf(r) = Task(w)
      BY <1>1, ShapedWork DEF TruthInv, WorkTrue, Executing, Calling
    <3>2. AfterOp(r, Op("search"), journal, claims)
      BY <1>1, <2>1, <3>1 DEF OpsTrue
    <3> QED
      BY <2>1, <3>1, <3>2 DEF AfterOp
  <2> HIDE DEF k
  <2>5. Result(w, "search", 0) = Live(IndexOf(w)) /\ ManifestTrue(IndexOf(w), held)
    BY <1>1, <2>1, <2>2, <2>3, <2>4, IndexOfTrue DEF AnswerTrue
  <2>6. PICK p \in Result(w, "search", 0) :
           e = Record(w, Task(w), "file", [q \in {p} |-> IndexOf(w)[p].content])
    BY <1>3 DEF Findings
  <2>7. e.type # "test" /\ e.contents = [q \in {p} |-> IndexOf(w)[p].content]
    BY <2>6, RecordFields
  <2>8. IndexOf(w)[p].content \in held[p]
    BY <2>5, <2>6 DEF ManifestTrue
  <2>9. \A q \in DOMAIN e.contents : e.contents[q] \in held[q]
    BY <2>7, <2>8
  <2> QED
    BY <2>7, <2>9 DEF RecordTrue
<1>4. CASE o.op = "file_evidence"
  <2> DEFINE p == o.path
             k == WriteKey(p)
  <2>1. Task(w) = "implement_change" /\ FileOp("write", p) \in Passed(r)
    BY <1>1, <1>4 DEF Ordered
  <2>2. /\ KeyFor(Task(w), FileOp("write", p)) = k /\ k[2] = "write" /\ k[3] = p
        /\ FileOp("write", p).op \in Tool
    BY <2>1 DEF KeyFor, FileOp, WriteKey, Tool
  <2>3. /\ InputTrue(k, journal[k].args, snapshots, journal)
        /\ AnswerTrue(k, journal[k].args, journal[k].result, snapshots, held, Target)
    BY <1>1, <2>1, <2>2, PassedTrue
  <2> HIDE DEF k
  <2>4. NewFor(journal, p) \in held[p]
    BY <2>2, <2>3 DEF InputTrue, AnswerTrue
  <2>5. NewContent(w, p) = NewFor(journal, p)
    BY <2>1 DEF NewContent, NewFor, Result, ReadKey
  <2>6. e = Record(w, Task(w), "file", [q \in {p} |-> NewContent(w, p)])
    BY <1>4 DEF Findings
  <2>7. e.type # "test" /\ e.contents = [q \in {p} |-> NewContent(w, p)]
    BY <2>6, RecordFields
  <2>8. \A q \in DOMAIN e.contents : e.contents[q] \in held[q]
    BY <2>4, <2>5, <2>7
  <2> QED
    BY <2>7, <2>8 DEF RecordTrue
<1>5. CASE o.op = "test_evidence"
  <2> DEFINE k == KeyFor(Task(w), Op("test"))
  <2>1. Op("test") \in Passed(r) /\ Op("test").op = "test" /\ Op("test").op \in Tool
    BY <1>1, <1>5 DEF Ordered, Op, Tool
  <2>2. k[2] = "test" /\ Result(w, "test", 0) = journal[k].result
    BY DEF KeyFor, Op, Result
  <2>3. /\ AnswerTrue(k, journal[k].args, journal[k].result, snapshots, held, Target)
        /\ journal[k].result \in Answer("test")
    BY <1>1, <2>1, PassedTrue, PassedAnswer
  <2> HIDE DEF k
  <2>4. TestTrue(Result(w, "test", 0), held, Target) /\ DOMAIN Result(w, "test", 0).files = Path
    BY <2>2, <2>3 DEF AnswerTrue, Answer
  <2>5. e = Record(w, Task(w), "test", Result(w, "test", 0).files)
    BY <1>5 DEF Findings
  <2>6. e.contents = Result(w, "test", 0).files
    BY <2>5, RecordFields
  <2> QED
    BY <2>4, <2>6 DEF RecordTrue, TestTrue
<1> QED
  BY <1>1, <1>2, <1>3, <1>4, <1>5

\* What an operation has after it recorded evidence.
LEMMA AfterFindings ==
    ASSUME PlaceInv, NEW w \in Worker, Acceptable(w),
           AtOp(w, {"map_evidence", "chunk_evidence", "file_evidence", "test_evidence"})
    PROVE  AfterOp(Own(work[w], work[w].owned \cup Findings(w)), Current(w), journal', claims')
<1> DEFINE r == work[w]
           o == Current(w)
           a == Own(r, r.owned \cup Findings(w))
<1>1. o.op \in {"map_evidence", "chunk_evidence", "file_evidence", "test_evidence"}
  BY DEF AtOp
<1>2. a.seen = r.seen /\ a.owned = r.owned \cup Findings(w)
  BY Fields DEF Own
<1> HIDE DEF a
<1>3. TaskOf(a) = Task(w)
  BY <1>2, ShapedWork DEF TaskOf
<1>4. o.op \in {"file_evidence", "test_evidence"} => Findings(w) # {}
  BY DEF Findings
<1>5. Task(w) = "research_constraints" => Findings(w) # {}
  BY DEF Acceptable
<1>6. ASSUME o.op = "map_evidence" PROVE \E e \in a.owned : e.type = "snapshot"
  <2> DEFINE e == Record(w, Task(w), "snapshot", Contents(IndexOf(w)))
  <2>1. e \in Findings(w)
    BY <1>6 DEF Findings
  <2>2. e.type = "snapshot"
    BY RecordFields
  <2> HIDE DEF e
  <2> QED
    BY <1>2, <2>1, <2>2
<1>7. AfterOp(a, o, journal', claims')
  BY <1>1, <1>2, <1>3, <1>4, <1>5, <1>6 DEF AfterOp
<1> QED
  BY <1>7 DEF a

LEMMA RecordEvidenceTruth ==
    ASSUME PlaceInv, TruthInv, NEW w \in Worker, RecordEvidence(w)
    PROVE  TruthInv'
<1>1. /\ AtOp(w, {"map_evidence", "chunk_evidence", "file_evidence", "test_evidence"})
      /\ UNCHANGED <<repositoryVars, snapshots, claims, reports, artifactVars>>
      /\ UNCHANGED <<journal, rowVars, leaseVars>>
  BY DEF RecordEvidence
<1>2. work[w].pc \in Executing
  BY <1>1 DEF AtOp, Executing
<1>3. UNCHANGED <<files, held, written, Target, edits, artifact, catalogue>>
  BY <1>1, TargetSame DEF repositoryVars, artifactVars
<1>4. evidence' = evidence \cup Findings(w) \/ UNCHANGED evidence
  BY DEF RecordEvidence, AddEvidence
<1>5. Grows
  BY <1>1, <1>3, <1>4, KeepsSame, WidensSame DEF Grows, Final
<1>6. FilesTrue(files', held', Target', edits') /\ TableTrue
  BY <1>3 DEF TruthInv, TableTrue
<1>7. \A k \in Key : RowTrue(k, snapshots', journal', held', Target')
  BY <1>1, <1>5, <1>6, RowsStay
<1>8. \A e \in evidence' : e \notin evidence => \A p \in DOMAIN e.contents :
         /\ e.contents[p] \in held'[p]
         /\ e.type = "test" => ImplementedIn(Target', p, e.contents[p])
  BY <1>1, <1>3, <1>4, FindingsTrue DEF RecordTrue
<1>9. TableTrue'
  BY <1>1, <1>3, <1>5, <1>6, <1>7, <1>8, TableGrows
<1>10. CASE Acceptable(w) /\ ProceedWith(w, Findings(w))
  BY <1>1, <1>2, <1>3, <1>5, <1>9, <1>10, AfterFindings, ClaimsStay, ProceedsTruth
<1>11. CASE Fails(w)
  BY <1>1, <1>2, <1>3, <1>5, <1>9, <1>11, FailsTruth
<1> QED
  BY <1>10, <1>11 DEF RecordEvidence

\* A claim cites evidence.
LEMMA ClaimCites ==
    ASSUME PlaceInv, TruthInv, NEW w \in Worker, AtOp(w, {"claim"})
    PROVE  ClaimOf(w).task = Task(w) /\ ClaimOf(w).evidence # {}
<1> DEFINE r == work[w]
<1>1. /\ r.pc \in Executing /\ Ordered(Task(w), r.at) /\ Current(w).op = "claim"
      /\ Current(w) = Program(Task(w))[r.at] /\ Passed(r) = Before(Task(w), r.at)
  BY AtOpFacts DEF Tool
<1>2. /\ \A o \in Passed(r) : AfterOp(r, o, journal, claims)
      /\ TaskOf(r) = Task(w)
  BY <1>1, ShapedWork DEF TruthInv, WorkTrue, OpsTrue, Executing, Calling
<1>3. ClaimOf(w).task = Task(w) /\ ClaimOf(w).evidence =
        {e \in r.owned : Task(w) = "inspect_repository" => e.type = "snapshot"}
  BY DEF ClaimOf
<1>4. CASE Task(w) = "inspect_repository" /\ Op("map_evidence") \in Passed(r)
  <2>1. \E e \in r.owned : e.type = "snapshot"
    BY <1>2, <1>4 DEF AfterOp, Op
  <2> QED
    BY <1>3, <2>1
<1>5. CASE Task(w) = "research_constraints" /\ Op("chunk_evidence") \in Passed(r)
  <2>1. r.owned # {}
    BY <1>2, <1>5 DEF AfterOp, Op
  <2> QED
    BY <1>3, <1>5, <2>1
<1>6. CASE Task(w) = "implement_change" /\ FileOp("file_evidence", 1) \in Passed(r)
  <2>1. r.owned # {}
    BY <1>2, <1>6 DEF AfterOp, FileOp
  <2> QED
    BY <1>3, <1>6, <2>1
<1>7. CASE Task(w) = "verify_change" /\ Op("test_evidence") \in Passed(r)
  <2>1. r.owned # {}
    BY <1>2, <1>7 DEF AfterOp, Op
  <2> QED
    BY <1>3, <1>7, <2>1
<1> QED
  BY <1>1, <1>4, <1>5, <1>6, <1>7 DEF Ordered

LEMMA MakeClaimTruth ==
    ASSUME PlaceInv, TruthInv, NEW w \in Worker, MakeClaim(w)
    PROVE  TruthInv'
<1> DEFINE claim == ClaimOf(w)
<1>1. /\ AtOp(w, {"claim"})
      /\ UNCHANGED <<repositoryVars, snapshots, evidence, reports, artifactVars>>
      /\ UNCHANGED <<journal, rowVars, leaseVars>>
  BY DEF MakeClaim
<1>2. work[w].pc \in Executing /\ Current(w).op = "claim"
  BY <1>1 DEF AtOp, Executing
<1>3. UNCHANGED <<files, held, written, Target, edits, artifact, catalogue>>
  BY <1>1, TargetSame DEF repositoryVars, artifactVars
<1>4. claims' = claims \cup {claim} \/ UNCHANGED claims
  BY DEF MakeClaim, AddClaim
<1>5. Grows
  BY <1>1, <1>3, <1>4, KeepsSame, WidensSame DEF Grows, Final
<1>6. FilesTrue(files', held', Target', edits') /\ TableTrue
  BY <1>3 DEF TruthInv, TableTrue
<1>7. \A k \in Key : RowTrue(k, snapshots', journal', held', Target')
  BY <1>1, <1>5, <1>6, RowsStay
<1>8. TableTrue'
  BY <1>1, <1>3, <1>5, <1>6, <1>7, TableGrows
<1>9. CASE Supported(claim) /\ claims' = claims \cup {claim} /\ Proceed(w)
  <2> DEFINE a == Own(work[w], work[w].owned \cup {})
  <2>1. ProceedWith(w, {})
    BY <1>9 DEF Proceed
  <2>2. claim.task = Task(w) /\ claim.evidence # {}
    BY <1>1, ClaimCites
  <2>3. a.seen = work[w].seen
    BY Fields DEF Own
  <2> HIDE DEF a
  <2>4. TaskOf(a) = Task(w)
    BY <2>3, ShapedWork DEF TaskOf
  <2>5. HasClaim(claims', Task(w))
    BY <1>9, <2>2 DEF HasClaim
  <2>6. AfterOp(a, Current(w), journal', claims')
    BY <1>2, <2>4, <2>5 DEF AfterOp
  <2>7. \A c \in claims' : c.evidence \subseteq evidence'
    BY <1>1, <1>9 DEF Supported, TruthInv, RunTrue, ReportTrue
  <2> QED
    BY <1>1, <1>2, <1>3, <1>5, <1>8, <2>1, <2>6, <2>7, ProceedsTruth DEF a
<1>10. CASE Fails(w) /\ UNCHANGED claims
  BY <1>1, <1>2, <1>3, <1>5, <1>8, <1>10, FailsTruth
<1> QED
  BY <1>9, <1>10 DEF MakeClaim, AddClaim

LEMMA ListEvidenceTruth ==
    ASSUME PlaceInv, TruthInv, NEW w \in Worker, ListEvidence(w)
    PROVE  TruthInv'
<1> DEFINE r == work[w]
<1>1. /\ AtOp(w, {"verify_run"}) /\ GotoWith(w, "verify", evidence)
      /\ UNCHANGED <<workspaceVars, journal, rowVars, leaseVars>>
  BY DEF ListEvidence
<1>2. r.pc \in Executing
  BY <1>1 DEF AtOp, Executing
<1>3. Becomes(w, Rec("verify", r.at, r.base, r.seen, evidence, r.owned))
  BY <1>1, ShapedWork, GotoWithEffect
<1>4. "verify" \in Executing /\ "verify" \notin Calling /\ "verify" \notin {"record", "walk", "save"}
  BY DEF Executing, Calling
<1> QED
  BY <1>1, <1>2, <1>3, <1>4, QuietTruth, WithinTruth

LEMMA VerifyRunTruth ==
    ASSUME PlaceInv, TruthInv, NEW w \in Worker, VerifyRun(w)
    PROVE  TruthInv'
<1>1. work[w].pc = "verify" /\ UNCHANGED <<workspaceVars, journal, rowVars, leaseVars>>
  BY DEF VerifyRun
<1>2. work[w].pc \in Executing /\ Current(w).op = "verify_run"
  BY <1>1, ShapedWork DEF Placed, InCall, Executing
<1>3. CASE Proceed(w)
  <2>1. ProceedWith(w, {})
    BY <1>3 DEF Proceed
  <2>2. AfterOp(Own(work[w], work[w].owned \cup {}), Current(w), journal', claims')
    BY <1>2 DEF AfterOp
  <2> QED
    BY <1>1, <1>2, <2>1, <2>2, QuietTruth, ClaimsStay, ProceedsTruth
<1>4. CASE Fails(w)
  BY <1>1, <1>2, <1>4, QuietTruth, FailsTruth
<1> QED
  BY <1>3, <1>4 DEF VerifyRun

LEMMA ExecutedTruth ==
    ASSUME PlaceInv, TruthInv, NEW w \in Worker, Execute(w)
    PROVE  TruthInv'
  BY CallToolTruth, ToolRaisesTruth, RecordResultTruth, ReadFileTruth, CompareFileTruth,
     ReplaceFileTruth, FindIndexTruth, WalkFileTruth, SaveSnapshotTruth, SearchTruth,
     RecordMapTruth, RunTestsTruth, CatalogueTruth, RecordEvidenceTruth, MakeClaimTruth,
     ListEvidenceTruth, VerifyRunTruth
     DEF Execute

-----------------------------------------------------------------------------
\* The steps around the programs are true.

\* Where an operation has nothing to show for what it did.
Apart == {"idle", "next", "fail", "update", "pin", "load", "rebase", "list", "reconcile", "return",
          "pin_resumed"}

LEMMA ApartTruth ==
    ASSUME PlaceInv, TruthInv, Grows, NEW w \in Worker, NEW q, Becomes(w, q), q.pc \in Apart,
           UNCHANGED <<reports, claims, done>>, TableTrue'
    PROVE  TruthInv'
<1>1. /\ q.pc \notin Executing \cup {"renew", "commit", "scan", "compare"}
      /\ q.pc \notin Reporting
  BY DEF Apart, Executing, Calling, Reporting
<1> QED
  BY <1>1, OutsideTrue, AsideTruth

LEMMA StillTruth ==
    ASSUME TruthInv, UNCHANGED <<workspaceVars, journal>>
    PROVE  /\ Grows /\ TableTrue'
           /\ UNCHANGED <<reports, claims, journal, snapshots, held, Target, evidence>>
<1>1. UNCHANGED <<reports, claims, journal, snapshots, held, Target, evidence>>
  BY TargetSame DEF workspaceVars, repositoryVars, ledgerVars, artifactVars
<1>2. TableTrue'
  BY TableSame DEF TruthInv
<1> QED
  BY <1>1, <1>2, GrowsSame

LEMMA ApartQuiet ==
    ASSUME PlaceInv, TruthInv, NEW w \in Worker, NEW q, Becomes(w, q), q.pc \in Apart,
           UNCHANGED <<workspaceVars, journal, done>>
    PROVE  TruthInv'
  BY StillTruth, ApartTruth

\* The operation stops.
LEMMA LeaveTruth ==
    ASSUME PlaceInv, TruthInv, NEW w \in Worker, work' = [work EXCEPT ![w] = Idle],
           UNCHANGED <<workspaceVars, journal, done>>
    PROVE  TruthInv'
<1>1. Becomes(w, Idle) /\ Idle.pc \in Apart
  BY ShapedWork, IdleEffect DEF Idle, Apart
<1> QED
  BY <1>1, ApartQuiet

LEMMA CrashTruth ==
    ASSUME PlaceInv, TruthInv, NEW w \in Worker, Crash(w)
    PROVE  TruthInv'
<1>1. UNCHANGED <<workspaceVars, journal, done, run>>
  BY DEF Crash, rowVars
<1> QED
  BY <1>1, LeaveTruth DEF Crash

LEMMA AdvanceTruth ==
    ASSUME PlaceInv, TruthInv, NEW w \in Worker, Advance(w)
    PROVE  TruthInv'
<1> DEFINE r == work[w]
           q == Rec("next", r.at, r.base, <<done, tries>>, r.local, r.owned)
<1>1. UNCHANGED <<workspaceVars, journal, done>>
  BY DEF Advance, rowVars
<1>2. Becomes(w, q)
  BY ShapedWork, AdvanceEffect DEF Advance
<1>3. q.pc \in Apart
  BY Fields DEF Apart
<1> HIDE DEF q
<1> QED
  BY <1>1, <1>2, <1>3, ApartQuiet

LEMMA StartTaskTruth ==
    ASSUME PlaceInv, TruthInv, NEW w \in Worker, StartTask(w)
    PROVE  TruthInv'
<1> DEFINE r == work[w]
           q == Rec("op", 1, run.snapshot, r.seen, r.local, {})
<1>1. /\ r.seen[1] < 5 /\ r.pc = "next" /\ r.pc # "idle"
      /\ UNCHANGED <<workspaceVars, journal, run, done>>
  BY TaskSeqType DEF StartTask
<1>2. ASSUME work' = [work EXCEPT ![w].pc = "op", ![w].at = 1, ![w].owned = {},
                                  ![w].base = run.snapshot]
      PROVE  TruthInv'
  <2>1. Becomes(w, q)
    BY <1>2, ShapedWork, StartEffect
  <2>2. q.pc = "op" /\ q.seen = r.seen /\ q.at = 1
    BY Fields
  <2> HIDE DEF q
  <2>3. TaskOf(q) = TaskOf(r) /\ TaskOf(r) \in Tasks
    BY <1>1, <2>2, ShapedWork, TaskOfType DEF TaskOf
  <2>4. Passed(q) = {}
    BY <2>2, <2>3, BeforeFirst DEF Passed
  <2>5. q.pc \notin Reporting
    BY <2>2 DEF Reporting
  <2>6. WorkTrue(q, snapshots', journal', held', Target', claims')
    BY <2>2, <2>4 DEF WorkTrue, OpsTrue, CallTrue, WalkTrue, Calling
  <2> QED
    BY <1>1, <2>1, <2>5, <2>6, StillTruth, AsideTruth
<1>3. ASSUME Leave(w)
      PROVE  TruthInv'
  BY <1>1, <1>3, LeaveTruth DEF Leave
<1> QED
  BY <1>2, <1>3 DEF StartTask

LEMMA RenewLeaseTruth ==
    ASSUME PlaceInv, TruthInv, NEW w \in Worker, RenewLease(w)
    PROVE  TruthInv'
<1> DEFINE r == work[w]
           pc == IF r.local = "failed" THEN "fail" ELSE "commit"
           q == Rec(pc, r.at, r.base, r.seen, r.local, r.owned)
<1>1. r.pc = "renew" /\ r.pc # "idle" /\ UNCHANGED <<workspaceVars, journal, done, run>>
  BY DEF RenewLease, rowVars
<1>2. ASSUME Goto(w, pc)
      PROVE  TruthInv'
  <2>1. Becomes(w, q)
    BY <1>2, ShapedWork, GotoEffect
  <2>2. /\ q.pc = pc /\ q.at = r.at /\ q.base = r.base /\ q.seen = r.seen /\ q.owned = r.owned
    BY Fields
  <2> HIDE DEF q
  <2>3. CASE r.local = "failed"
    <3>1. q.pc \in Apart
      BY <2>2, <2>3 DEF Apart
    <3> QED
      BY <1>1, <2>1, <3>1, ApartQuiet
  <2>4. CASE r.local # "failed"
    <3>1. q.pc = "commit" /\ q.pc \notin Reporting
      BY <2>2, <2>4 DEF Reporting
    <3>2. TaskOf(q) = TaskOf(r) /\ Passed(q) = Passed(r) /\ Searched(q) = Searched(r)
      BY <2>2 DEF TaskOf, Passed, Searched
    <3>3. \A o \in Passed(r) : AfterOp(r, o, journal, claims)
      BY <1>1, <2>4 DEF TruthInv, WorkTrue, OpsTrue
    <3>4. \A o \in Passed(q) : AfterOp(q, o, journal, claims)
      BY <2>2, <3>2, <3>3 DEF AfterOp
    <3>5. WorkTrue(q, snapshots, journal, held, Target, claims)
      BY <3>1, <3>4 DEF WorkTrue, OpsTrue, CallTrue, WalkTrue, Calling
    <3>6. WorkTrue(q, snapshots', journal', held', Target', claims')
      BY <1>1, <3>5, StillTruth
    <3> QED
      BY <1>1, <2>1, <3>1, <3>6, StillTruth, AsideTruth
  <2> QED
    BY <2>3, <2>4
<1>3. ASSUME Leave(w)
      PROVE  TruthInv'
  BY <1>1, <1>3, LeaveTruth DEF Leave
<1> QED
  BY <1>2, <1>3 DEF RenewLease

LEMMA CommittedTrue ==
    ASSUME PlaceInv, TruthInv, NEW w \in Worker, work[w].pc = "commit", open = w
    PROVE  DoneTrue(done + 1, claims, journal)
<1> DEFINE r == work[w]
           t == TaskOf(r)
<1>1. Seen(r) /\ Placed(r, snapshots, journal)
  BY ShapedWork
<1>2. r.seen[1] < 5 /\ r.at = Len(Program(t)) + 1 /\ Answered(r, journal)
  BY <1>1 DEF Placed, AtEnd, Finishing
<1>3. r.seen[1] = done
  BY DEF PlaceInv, Progress, Ahead
<1>4. done \in 0 .. 4 /\ t = TaskSeq[done + 1] /\ t \in Tasks
  BY <1>1, <1>2, <1>3, TaskOfType DEF TaskOf
<1>5. Passed(r) = Whole(t)
  BY <1>2, <1>4, WholeIsBefore DEF Passed
<1>6. \A o \in Passed(r) : AfterOp(r, o, journal, claims)
  BY DEF TruthInv, WorkTrue, OpsTrue
<1>7. DoneTrue(done, claims, journal)
  BY DEF TruthInv, RunTrue
<1>8. ASSUME NEW i \in 1 .. 4, i <= done + 1 PROVE HasClaim(claims, TaskSeq[i])
  <2>1. CASE i <= done
    BY <1>7, <2>1 DEF DoneTrue
  <2>2. CASE i = done + 1
    <3>1. done # 4
      BY <2>2
    <3>2. t # "generate_report"
      BY <1>4, <3>1, TaskNumber
    <3>3. Op("claim") \in Passed(r)
      BY <1>4, <1>5, <3>2, ProgramOrder DEF Ended
    <3>4. HasClaim(claims, t)
      BY <1>6, <3>3 DEF AfterOp, Op
    <3> QED
      BY <1>4, <2>2, <3>4
  <2> QED
    BY <1>4, <1>8, <2>1, <2>2
<1>9. ASSUME done + 1 >= 3, NEW p \in Path PROVE journal[WriteKey(p)].result # None
  <2>1. CASE done >= 3
    BY <1>7, <2>1 DEF DoneTrue
  <2>2. CASE done = 2
    <3>1. t = "implement_change"
      BY <1>4, <2>2, TaskSeqType
    <3>2. FileOp("write", p) \in Passed(r)
      BY <1>4, <1>5, <3>1, ProgramOrder DEF Ended
    <3>3. KeyFor(t, FileOp("write", p)) = WriteKey(p) /\ FileOp("write", p).op \in Tool
      BY <3>1 DEF KeyFor, FileOp, WriteKey, Tool
    <3>4. journal[WriteKey(p)].result # None
      BY <1>2, <3>2, <3>3 DEF Answered
    <3> QED
      BY <3>4
  <2> QED
    BY <1>4, <1>9, <2>1, <2>2
<1> QED
  BY <1>8, <1>9 DEF DoneTrue

LEMMA CommitTaskTruth ==
    ASSUME PlaceInv, TruthInv, NEW w \in Worker, CommitTask(w)
    PROVE  TruthInv'
<1> DEFINE r == work[w]
           q == Rec("update", r.at, r.base, r.seen, r.local, r.owned)
<1>1. /\ r.pc = "commit" /\ r.pc # "idle" /\ UNCHANGED <<workspaceVars, journal, run>>
  BY DEF CommitTask
<1>2. ASSUME open = w, done' = done + 1, Goto(w, "update")
      PROVE  TruthInv'
  <2>1. Becomes(w, q)
    BY <1>2, ShapedWork, GotoEffect
  <2>2. q.pc = "update"
    BY Fields
  <2> HIDE DEF q
  <2>3. /\ Grows /\ TableTrue' /\ UNCHANGED <<reports, claims, Target>>
    BY <1>1, StillTruth
  <2>4. DoneTrue(done', claims', journal')
    BY <1>1, <1>2, <2>3, CommittedTrue
  <2>5. q.pc \notin Reporting /\ q.pc \notin Executing \cup {"renew", "commit", "scan", "compare"}
    BY <2>2 DEF Reporting, Executing, Calling
  <2>6. WorkTrue(q, snapshots', journal', held', Target', claims')
    BY <2>5, OutsideTrue
  <2> QED
    BY <1>1, <2>1, <2>3, <2>4, <2>5, <2>6, ClaimsStay, StepTruth
<1>3. ASSUME Leave(w), UNCHANGED done
      PROVE  TruthInv'
  BY <1>1, <1>3, LeaveTruth DEF Leave
<1> QED
  BY <1>2, <1>3 DEF CommitTask

LEMMA UpdateRunTruth ==
    ASSUME PlaceInv, TruthInv, NEW w \in Worker, UpdateRun(w)
    PROVE  TruthInv'
<1> DEFINE r == work[w]
           q == Rec("pin", r.at, run'.snapshot, r.seen, r.local, r.owned)
<1>1. r.pc = "update" /\ r.pc # "idle" /\ UNCHANGED <<workspaceVars, journal, done>>
  BY DEF UpdateRun
<1>2. Becomes(w, q)
  BY ShapedWork, RebaseEffect DEF UpdateRun
<1>3. q.pc \in Apart
  BY Fields DEF Apart
<1> HIDE DEF q
<1> QED
  BY <1>1, <1>2, <1>3, ApartQuiet

LEMMA WriteCheckpointTruth ==
    ASSUME PlaceInv, TruthInv, NEW w \in Worker, WriteCheckpoint(w)
    PROVE  TruthInv'
<1> DEFINE r == work[w]
           n == r.seen[1] + 1
           q == Rec("next", r.at, r.base, <<n, 0>>, r.local, r.owned)
<1>1. r.pc = "pin" /\ r.pc # "idle" /\ UNCHANGED <<workspaceVars, journal, done, run>>
  BY DEF WriteCheckpoint
<1>2. work' = [work EXCEPT ![w].pc = "next", ![w].seen = <<n, 0>>]
  BY ShapedWork DEF WriteCheckpoint, Shaped
<1> HIDE DEF n
<1>3. Becomes(w, q)
  BY <1>2, ShapedWork, AdvanceEffect
<1>4. q.pc \in Apart
  BY Fields DEF Apart
<1> HIDE DEF q
<1> QED
  BY <1>1, <1>3, <1>4, ApartQuiet

LEMMA FailRunTruth ==
    ASSUME PlaceInv, TruthInv, NEW w \in Worker, FailRun(w)
    PROVE  TruthInv'
<1>1. Leave(w) /\ UNCHANGED <<workspaceVars, journal, done>>
  BY DEF FailRun
<1> QED
  BY <1>1, LeaveTruth DEF Leave

-----------------------------------------------------------------------------
\* The reports are true.

LEMMA ReportsTruth ==
    ASSUME PlaceInv, TruthInv, NEW w \in Worker, NEW q, Becomes(w, q),
           q.pc \in Reporting \cup {"idle"},
           UNCHANGED <<repositoryVars, snapshots, evidence, claims, artifactVars, journal, done>>,
           q.pc = "json" => Backed(q.local, evidence),
           reports'.markdown # reports.markdown => Backed(reports'.markdown, evidence),
           reports'.json # reports.json => Backed(reports'.json, evidence)
    PROVE  TruthInv'
<1>1. UNCHANGED <<files, held, written, Target, edits, artifact, catalogue>>
  BY TargetSame DEF repositoryVars, artifactVars
<1>2. Grows
  BY <1>1, GrowsSame
<1>3. TableTrue'
  BY <1>1 DEF TruthInv, TableTrue
<1>4. q.pc \notin Executing \cup {"renew", "commit", "scan", "compare"}
  BY DEF Reporting, Executing, Calling
<1>5. WorkTrue(q, snapshots', journal', held', Target', claims')
  BY <1>4, OutsideTrue
<1>6. \A v \in Worker : WorkTrue(work'[v], snapshots', journal', held', Target', claims')
  BY <1>2, <1>5, WorkMoves
<1>7. DoneTrue(done', claims', journal')
  BY <1>2, DoneGrows
<1>8. ReportTrue
  BY DEF TruthInv, RunTrue
<1>9. \A v \in Worker : work'[v].pc = "json" => Backed(work'[v].local, evidence)
  BY <1>8 DEF ReportTrue, Becomes
<1>10. ReportTrue'
  BY <1>8, <1>9 DEF ReportTrue, Supported
<1> QED
  BY <1>3, <1>6, <1>7, <1>10 DEF TruthInv, RunTrue

LEMMA CompleteRunTruth ==
    ASSUME PlaceInv, TruthInv, NEW w \in Worker, CompleteRun(w)
    PROVE  TruthInv'
<1> DEFINE r == work[w]
           q == Rec("report", r.at, r.base, r.seen, r.local, r.owned)
<1>1. UNCHANGED <<workspaceVars, journal, done>>
  BY DEF CompleteRun
<1>2. ASSUME Goto(w, "report")
      PROVE  TruthInv'
  <2>1. Becomes(w, q)
    BY <1>2, ShapedWork, GotoEffect
  <2>2. q.pc = "report" /\ q.pc # "json" /\ q.pc \in Reporting
    BY Fields DEF Reporting
  <2> HIDE DEF q
  <2>3. UNCHANGED <<repositoryVars, snapshots, evidence, claims, artifactVars, journal, done, reports>>
    BY <1>1 DEF workspaceVars, ledgerVars
  <2> QED
    BY <2>1, <2>2, <2>3, ReportsTruth
<1>3. ASSUME Leave(w)
      PROVE  TruthInv'
  BY <1>1, <1>3, LeaveTruth DEF Leave
<1> QED
  BY <1>2, <1>3 DEF CompleteRun

LEMMA ReadEvidenceTruth ==
    ASSUME PlaceInv, TruthInv, NEW w \in Worker, ReadEvidence(w)
    PROVE  TruthInv'
<1> DEFINE r == work[w]
           q == Rec("compose", r.at, r.base, r.seen, evidence, r.owned)
<1>1. GotoWith(w, "compose", evidence) /\ UNCHANGED <<workspaceVars, journal, done>>
  BY DEF ReadEvidence, rowVars
<1>2. Becomes(w, q)
  BY <1>1, ShapedWork, GotoWithEffect
<1>3. q.pc = "compose" /\ q.pc # "json" /\ q.pc \in Reporting
  BY Fields DEF Reporting
<1> HIDE DEF q
<1>4. UNCHANGED <<repositoryVars, snapshots, evidence, claims, artifactVars, journal, done, reports>>
  BY <1>1 DEF workspaceVars, ledgerVars
<1> QED
  BY <1>2, <1>3, <1>4, ReportsTruth

\* Whoever composes a report finds the claims of all tasks.
LEMMA ClaimsBacked ==
    ASSUME PlaceInv, TruthInv, NEW w \in Worker, work[w].pc \in Reporting
    PROVE  Backed(claims, evidence)
<1>1. done = 5
  BY DEF PlaceInv, Progress
<1>2. \A c \in claims : c.evidence \subseteq evidence
  BY DEF TruthInv, RunTrue, ReportTrue, Supported
<1>3. \A i \in 1 .. 4 : HasClaim(claims, TaskSeq[i])
  BY <1>1 DEF TruthInv, RunTrue, DoneTrue
<1> QED
  BY <1>2, <1>3 DEF Backed

LEMMA SaveMarkdownTruth ==
    ASSUME PlaceInv, TruthInv, NEW w \in Worker, SaveMarkdown(w)
    PROVE  TruthInv'
<1> DEFINE r == work[w]
           q == Rec("json", r.at, r.base, r.seen, claims, r.owned)
<1>1. /\ r.pc \in Reporting
      /\ UNCHANGED <<repositoryVars, snapshots, evidence, claims, artifactVars, journal, done>>
  BY DEF SaveMarkdown, Reporting, rowVars
<1>2. ASSUME reports' = [reports EXCEPT !.markdown = claims], GotoWith(w, "json", claims)
      PROVE  TruthInv'
  <2>1. Becomes(w, q)
    BY <1>2, ShapedWork, GotoWithEffect
  <2>2. q.pc = "json" /\ q.pc \in Reporting /\ q.local = claims
    BY Fields DEF Reporting
  <2> HIDE DEF q
  <2>3. reports'.markdown = claims /\ reports'.json = reports.json
    BY <1>2 DEF PlaceInv, Rows
  <2>4. Backed(claims, evidence)
    BY <1>1, ClaimsBacked
  <2> QED
    BY <1>1, <2>1, <2>2, <2>3, <2>4, ReportsTruth
<1>3. ASSUME Leave(w), UNCHANGED reports
      PROVE  TruthInv'
  <2>1. UNCHANGED workspaceVars
    BY <1>1, <1>3 DEF workspaceVars, ledgerVars
  <2> QED
    BY <1>1, <1>3, <2>1, LeaveTruth DEF Leave
<1> QED
  BY <1>2, <1>3 DEF SaveMarkdown

LEMMA SaveJsonTruth ==
    ASSUME PlaceInv, TruthInv, NEW w \in Worker, SaveJson(w)
    PROVE  TruthInv'
<1> DEFINE r == work[w]
<1>1. /\ r.pc = "json" /\ Leave(w) /\ reports' = [reports EXCEPT !.json = r.local]
      /\ UNCHANGED <<repositoryVars, snapshots, evidence, claims, artifactVars, journal, done>>
  BY DEF SaveJson, rowVars
<1>2. Becomes(w, Idle) /\ Idle.pc = "idle" /\ Idle.pc # "json"
  BY <1>1, ShapedWork, IdleEffect DEF Leave, Idle
<1>3. reports'.json = r.local /\ reports'.markdown = reports.markdown
  BY <1>1 DEF PlaceInv, Rows
<1>4. Backed(r.local, evidence)
  BY <1>1 DEF TruthInv, RunTrue, ReportTrue
<1> QED
  BY <1>1, <1>2, <1>3, <1>4, ReportsTruth

LEMMA AttemptedTruth ==
    ASSUME PlaceInv, TruthInv, NEW w \in Worker, Attempt(w)
    PROVE  TruthInv'
  BY AdvanceTruth, StartTaskTruth, RenewLeaseTruth, CommitTaskTruth, UpdateRunTruth,
     WriteCheckpointTruth, FailRunTruth, CompleteRunTruth, ReadEvidenceTruth,
     SaveMarkdownTruth, SaveJsonTruth DEF Attempt

-----------------------------------------------------------------------------
\* The resumes are true.

LEMMA ResumeRunTruth ==
    ASSUME PlaceInv, TruthInv, NEW w \in Worker, ResumeRun(w)
    PROVE  TruthInv'
<1> DEFINE r == work[w]
           q == Rec("load", r.at, r.base, r.seen, r.local, r.owned)
<1>1. Goto(w, "load") /\ UNCHANGED <<workspaceVars, journal, done>>
  BY DEF ResumeRun
<1>2. Becomes(w, q)
  BY <1>1, ShapedWork, GotoEffect
<1>3. q.pc \in Apart
  BY Fields DEF Apart
<1> HIDE DEF q
<1> QED
  BY <1>1, <1>2, <1>3, ApartQuiet

LEMMA LoadCheckpointTruth ==
    ASSUME PlaceInv, TruthInv, NEW w \in Worker, LoadCheckpoint(w)
    PROVE  TruthInv'
<1> DEFINE r == work[w]
           q == Rec("scan", r.at, pinned, r.seen, <<>>, r.owned)
<1>1. r.pc = "load" /\ r.pc # "idle" /\ UNCHANGED <<workspaceVars, journal, done, run>>
  BY DEF LoadCheckpoint, rowVars
<1>2. Becomes(w, q)
  BY ShapedWork, LoadEffect DEF LoadCheckpoint
<1>3. q.pc = "scan" /\ q.local = <<>>
  BY Fields
<1> HIDE DEF q
<1>4. 1 .. Len(q.local) = {}
  BY <1>3, EmptyWalk
<1>5. "scan" \notin Executing /\ "scan" \notin Calling /\ "scan" \notin Reporting
  BY DEF Executing, Calling, Reporting
<1>6. WorkTrue(q, snapshots', journal', held', Target', claims')
  BY <1>3, <1>4, <1>5 DEF WorkTrue, OpsTrue, CallTrue, WalkTrue
<1> QED
  BY <1>1, <1>2, <1>3, <1>5, <1>6, StillTruth, AsideTruth

LEMMA ValidateRepositoryTruth ==
    ASSUME PlaceInv, TruthInv, NEW w \in Worker, ValidateRepository(w)
    PROVE  TruthInv'
<1> DEFINE r == work[w]
           previous == snapshots[r.base]
           current == Index(r.local, previous)
<1>1. /\ r.pc = "compare" /\ r.pc # "idle"
      /\ UNCHANGED <<repositoryVars, ledgerVars, artifactVars, journal, done, run>>
  BY DEF ValidateRepository, rowVars
<1>3. 1 .. Len(r.local) = Path
  BY <1>1, ValidateTypes DEF Path
<1>4. \A p \in Path : r.local[p] \in held[p]
  BY <1>1, <1>3 DEF TruthInv, WorkTrue, WalkTrue
<1>5. ManifestTrue(current, held)
  BY <1>4, IndexTrue DEF ManifestTrue
<1> HIDE DEF current
<1>6. ASSUME Goto(w, "list"), UNCHANGED snapshots
      PROVE  TruthInv'
  <2> DEFINE q == Rec("list", r.at, r.base, r.seen, r.local, r.owned)
  <2>1. Becomes(w, q)
    BY <1>6, ShapedWork, GotoEffect
  <2>2. q.pc \in Apart
    BY Fields DEF Apart
  <2> HIDE DEF q
  <2>3. UNCHANGED workspaceVars
    BY <1>1, <1>6 DEF workspaceVars
  <2> QED
    BY <1>1, <2>1, <2>2, <2>3, ApartQuiet
<1>7. ASSUME Leave(w), UNCHANGED snapshots
      PROVE  TruthInv'
  <2>1. UNCHANGED workspaceVars
    BY <1>1, <1>7 DEF workspaceVars
  <2> QED
    BY <1>1, <1>7, <2>1, LeaveTruth DEF Leave
<1>8. ASSUME SaveIndex(FreshId, current), GotoWith(w, "rebase", FreshId)
      PROVE  TruthInv'
  <2> DEFINE id == FreshId
             q == Rec("rebase", r.at, r.base, r.seen, id, r.owned)
  <2>1. id # Changed
    BY DEF FreshId, Changed, SnapshotOf
  <2> HIDE DEF id
  <2>2. SaveIndex(id, current) /\ GotoWith(w, "rebase", id)
    BY <1>8 DEF id
  <2>3. /\ Grows /\ TableTrue' /\ UNCHANGED <<reports, claims>>
    BY <1>1, <1>5, <2>1, <2>2, SavedTrue
  <2>4. Becomes(w, q)
    BY <2>2, ShapedWork, GotoWithEffect
  <2>5. q.pc \in Apart
    BY Fields DEF Apart
  <2> HIDE DEF q
  <2> QED
    BY <1>1, <2>3, <2>4, <2>5, ApartTruth
<1> QED
  BY <1>6, <1>7, <1>8 DEF ValidateRepository, current

LEMMA RebaseRunTruth ==
    ASSUME PlaceInv, TruthInv, NEW w \in Worker, RebaseRun(w)
    PROVE  TruthInv'
<1> DEFINE r == work[w]
           q == Rec("list", r.at, r.base, r.seen, r.local, r.owned)
<1>1. r.pc = "rebase" /\ r.pc # "idle" /\ UNCHANGED <<workspaceVars, journal, done>>
  BY DEF RebaseRun
<1>2. ASSUME Goto(w, "list")
      PROVE  TruthInv'
  <2>1. Becomes(w, q)
    BY <1>2, ShapedWork, GotoEffect
  <2>2. q.pc \in Apart
    BY Fields DEF Apart
  <2> HIDE DEF q
  <2> QED
    BY <1>1, <2>1, <2>2, ApartQuiet
<1>3. ASSUME Leave(w)
      PROVE  TruthInv'
  BY <1>1, <1>3, LeaveTruth DEF Leave
<1> QED
  BY <1>2, <1>3 DEF RebaseRun

LEMMA UncertainCallsTruth ==
    ASSUME PlaceInv, TruthInv, NEW w \in Worker, UncertainCalls(w)
    PROVE  TruthInv'
<1> DEFINE r == work[w]
<1>0. PICK calls : calls = {k \in Key : journal[k].status = "RUNNING"}
  OBVIOUS
<1> DEFINE q == Rec("reconcile", r.at, r.base, r.seen, calls, r.owned)
<1>1. /\ r.pc = "list" /\ r.pc # "idle" /\ GotoWith(w, "reconcile", calls)
      /\ UNCHANGED <<workspaceVars, journal, done, run>>
  BY <1>0 DEF UncertainCalls, rowVars
<1>2. Becomes(w, q)
  BY <1>1, ShapedWork, GotoWithEffect
<1>3. q.pc \in Apart
  BY Fields DEF Apart
<1> HIDE DEF q
<1> QED
  BY <1>1, <1>2, <1>3, ApartQuiet

\* A reconciled call did what it says.
LEMMA ObservedTrue ==
    ASSUME PlaceInv, TruthInv, NEW key \in Key, Observed(key)
    PROVE  AnswerTrue(key, journal[key].args, Output(key), snapshots, held, Target)
<1>1. CASE key[2] = "index"
  BY <1>1 DEF AnswerTrue
<1>2. CASE key[2] = "write"
  <2>1. key[3] \in Path /\ files[key[3]] = journal[key].args.content
    BY <1>2, KeyFacts DEF Observed
  <2>2. journal[key].args.content \in held[key[3]]
    BY <2>1, FilesTyped
  <2> QED
    BY <1>2, <2>2 DEF AnswerTrue
<1> QED
  BY <1>1, <1>2 DEF Observed

LEMMA ReconcileTruth ==
    ASSUME PlaceInv, TruthInv, NEW w \in Worker, Reconcile(w)
    PROVE  TruthInv'
<1> DEFINE r == work[w]
<1>1. r.pc = "reconcile" /\ r.pc # "idle" /\ UNCHANGED <<workspaceVars, done, run>>
  BY DEF Reconcile, rowVars
<1>2. Uncertain(r.local, journal) /\ JournalRows(journal, snapshots) /\ TableTrue
  BY <1>1, ShapedWork DEF Placed, Resolved, TruthInv
<1>3. PICK key \in r.local :
         LET row == journal[key]
             goOn == GotoWith(w, "reconcile", r.local \ {key}) /\ UNCHANGED holder IN
          \/ /\ Observed(key) /\ row.result = None
             /\ SetCall(key, [row EXCEPT !.status = "SUCCEEDED", !.result = Output(key)])
             /\ goOn
          \/ Observed(key) /\ row.result # None /\ Leave(w) /\ UNCHANGED journal
          \/ /\ ~ Observed(key) /\ key[2] \in RetrySafe
             /\ SetCall(key, [row EXCEPT !.status = "FAILED"])
             /\ goOn
          \/ /\ ~ Observed(key) /\ key[2] \notin RetrySafe
             /\ SetCall(key, [row EXCEPT !.status = "NEEDS_REVIEW"])
             /\ Leave(w)
  BY DEF Reconcile
<1> DEFINE row == journal[key]
           new == [row EXCEPT !.status = "SUCCEEDED", !.result = Output(key)]
           failed == [row EXCEPT !.status = "FAILED"]
           review == [row EXCEPT !.status = "NEEDS_REVIEW"]
           goOn == GotoWith(w, "reconcile", r.local \ {key}) /\ UNCHANGED holder
<1>4. /\ key \in Key /\ row.status # "absent" /\ IsRow(row) /\ journal = [k \in Key |-> journal[k]]
  BY <1>2 DEF Uncertain, JournalRows
<1>5. /\ InputTrue(key, row.args, snapshots, journal)
      /\ row.result # None => AnswerTrue(key, row.args, row.result, snapshots, held, Target)
  BY <1>2, <1>4 DEF TableTrue, RowTrue
<1>6. ASSUME NEW other, SetCall(key, other), other.status # "absent", other.args = row.args,
             row.result # None => other.result = row.result,
             other.result # None =>
                 AnswerTrue(key, row.args, other.result, snapshots, held, Target),
             goOn \/ Leave(w)
      PROVE  TruthInv'
  <2>1. Stored(key, other)
    BY <1>4, <1>6, SetCallEffect
  <2>2. InputTrue(key, other.args, snapshots, journal)
    BY <1>5, <1>6
  <2>3. other.result # None => AnswerTrue(key, other.args, other.result, snapshots, held, Target)
    BY <1>6
  <2>4. Grows /\ TableTrue'
    BY <1>1, <1>2, <1>4, <1>6, <2>1, <2>2, <2>3, StoredTrue
  <2>5. UNCHANGED <<reports, claims>>
    BY <1>1 DEF workspaceVars, ledgerVars, artifactVars
  <2>6. \E q : Becomes(w, q) /\ q.pc \in Apart
    <3>1. CASE goOn
      <4> DEFINE q == Rec("reconcile", r.at, r.base, r.seen, r.local \ {key}, r.owned)
      <4>1. Becomes(w, q)
        BY <3>1, ShapedWork, GotoWithEffect
      <4>2. q.pc \in Apart
        BY Fields DEF Apart
      <4> HIDE DEF q
      <4> QED
        BY <4>1, <4>2
    <3>2. CASE Leave(w)
      <4>1. Becomes(w, Idle) /\ Idle.pc \in Apart
        BY <3>2, ShapedWork, IdleEffect DEF Leave, Idle, Apart
      <4> QED
        BY <4>1
    <3> QED
      BY <1>6, <3>1, <3>2
  <2> QED
    BY <1>1, <1>2, <2>4, <2>5, <2>6, ApartTruth
<1>7. /\ failed = Row("FAILED", row.args, row.result)
      /\ review = Row("NEEDS_REVIEW", row.args, row.result)
  BY <1>4, RowStatus
<1>8. new = Row("SUCCEEDED", row.args, Output(key))
  <2>1. Finished(row, Output(key)) = Row("SUCCEEDED", row.args, Output(key))
    BY <1>4, RowResult
  <2> QED
    BY <2>1 DEF Finished
<1> HIDE DEF new, failed, review
<1>9. CASE Observed(key) /\ row.result = None /\ SetCall(key, new) /\ goOn
  <2>1. new.status = "SUCCEEDED" /\ new.args = row.args /\ new.result = Output(key)
    BY <1>8, RowFields
  <2>2. AnswerTrue(key, row.args, new.result, snapshots, held, Target)
    BY <1>4, <1>9, <2>1, ObservedTrue
  <2> QED
    BY <1>6, <1>9, <2>1, <2>2
<1>10. CASE Leave(w) /\ UNCHANGED journal
  BY <1>1, <1>10, LeaveTruth DEF Leave
<1>11. CASE SetCall(key, failed) /\ goOn
  <2>1. failed.status = "FAILED" /\ failed.args = row.args /\ failed.result = row.result
    BY <1>7, RowFields
  <2> QED
    BY <1>5, <1>6, <1>11, <2>1
<1>12. CASE SetCall(key, review) /\ Leave(w)
  <2>1. review.status = "NEEDS_REVIEW" /\ review.args = row.args /\ review.result = row.result
    BY <1>7, RowFields
  <2> QED
    BY <1>5, <1>6, <1>12, <2>1
<1> QED
  BY <1>3, <1>9, <1>10, <1>11, <1>12 DEF new, failed, review

LEMMA RecoverTaskTruth ==
    ASSUME PlaceInv, TruthInv, NEW w \in Worker, RecoverTask(w)
    PROVE  TruthInv'
<1> DEFINE r == work[w]
           q == Rec("return", r.at, r.base, r.seen, r.local, r.owned)
<1>1. /\ r.pc = "reconcile" /\ r.pc # "idle" /\ Goto(w, "return")
      /\ UNCHANGED <<workspaceVars, journal, done, run>>
  BY DEF RecoverTask
<1>2. Becomes(w, q)
  BY <1>1, ShapedWork, GotoEffect
<1>3. q.pc \in Apart
  BY Fields DEF Apart
<1> HIDE DEF q
<1> QED
  BY <1>1, <1>2, <1>3, ApartQuiet

LEMMA ReturnToRunningTruth ==
    ASSUME PlaceInv, TruthInv, NEW w \in Worker, ReturnToRunning(w)
    PROVE  TruthInv'
<1> DEFINE r == work[w]
           q == Rec("pin_resumed", r.at, run.snapshot, r.seen, r.local, r.owned)
<1>1. r.pc = "return" /\ r.pc # "idle" /\ UNCHANGED <<workspaceVars, journal, done>>
  BY DEF ReturnToRunning
<1>2. ASSUME work' = [work EXCEPT ![w].pc = "pin_resumed", ![w].base = run.snapshot]
      PROVE  TruthInv'
  <2>1. Becomes(w, q)
    BY <1>2, ShapedWork, RebaseEffect
  <2>2. q.pc \in Apart
    BY Fields DEF Apart
  <2> HIDE DEF q
  <2> QED
    BY <1>1, <2>1, <2>2, ApartQuiet
<1>3. ASSUME Leave(w)
      PROVE  TruthInv'
  BY <1>1, <1>3, LeaveTruth DEF Leave
<1> QED
  BY <1>2, <1>3 DEF ReturnToRunning

LEMMA PinResumedTruth ==
    ASSUME PlaceInv, TruthInv, NEW w \in Worker, PinResumed(w)
    PROVE  TruthInv'
<1> DEFINE r == work[w]
           q == Rec("next", r.at, r.base, <<done, tries>>, None, r.owned)
<1>1. r.pc = "pin_resumed" /\ r.pc # "idle" /\ UNCHANGED <<workspaceVars, journal, done, run>>
  BY DEF PinResumed
<1>2. Becomes(w, q)
  BY ShapedWork, PinEffect DEF PinResumed
<1>3. q.pc \in Apart
  BY Fields DEF Apart
<1> HIDE DEF q
<1> QED
  BY <1>1, <1>2, <1>3, ApartQuiet

LEMMA ResumedTruth ==
    ASSUME PlaceInv, TruthInv, NEW w \in Worker, Resume(w)
    PROVE  TruthInv'
  BY ResumeRunTruth, LoadCheckpointTruth, ValidateRepositoryTruth, RebaseRunTruth,
     UncertainCallsTruth, ReconcileTruth, RecoverTaskTruth, ReturnToRunningTruth,
     PinResumedTruth DEF Resume

-----------------------------------------------------------------------------
\* Others change the repository and clean up.

LEMMA OthersTruth ==
    ASSUME PlaceInv, TruthInv, Grows, TableTrue',
           UNCHANGED <<work, done, reports, claims, evidence>>
    PROVE  TruthInv'
<1>1. \A w \in Worker : WorkTrue(work'[w], snapshots', journal', held', Target', claims')
  <2> SUFFICES ASSUME NEW w \in Worker
               PROVE  WorkTrue(work[w], snapshots', journal', held', Target', claims')
    OBVIOUS
  <2>1. /\ Placed(work[w], snapshots, journal) /\ JournalRows(journal, snapshots)
        /\ WorkTrue(work[w], snapshots, journal, held, Target, claims)
    BY ShapedWork DEF TruthInv
  <2> QED
    BY <2>1, WorkGrows DEF Grows
<1>2. DoneTrue(done', claims', journal')
  BY DoneGrows
<1>3. ReportTrue'
  BY DEF TruthInv, RunTrue, ReportTrue, Supported
<1> QED
  BY <1>1, <1>2, <1>3 DEF TruthInv, RunTrue

LEMMA EditTruth ==
    ASSUME PlaceInv, TruthInv, NEW p \in Path, Edit(p),
           UNCHANGED <<snapshots, ledgerVars, artifactVars>>,
           UNCHANGED <<journal, rowVars, leaseVars, work>>
    PROVE  TruthInv'
<1>1. PICK content \in {Edition(edits + 2, anchored) : anchored \in BOOLEAN} \cup {Gone} :
         Put(p, content)
  BY DEF Edit
<1>2. edits \in Nat /\ edits' = edits + 1 /\ Target' = Target /\ written' = written
  BY TargetSame DEF Edit, PlaceInv, TypeOK
<1>3. /\ content \in Content /\ content.edition <= edits + 2
      /\ content # Gone => content.edition = edits + 2
  <2>1. (edits + 2) \in Nat
    BY <1>2
  <2>2. CASE content = Gone
    BY <2>1, <2>2, GoneType
  <2>3. CASE content # Gone
    <3>1. PICK anchored \in BOOLEAN : content = Edition(edits + 2, anchored)
      BY <2>3
    <3> QED
      BY <2>1, <3>1, EditionType
  <2> QED
    BY <2>2, <2>3
<1>4. /\ files'[p] = content /\ held'[p] = held[p] \cup {content}
      /\ \A q \in Path : q # p => files'[q] = files[q] /\ held'[q] = held[q]
  BY <1>1, <1>3, PutType DEF PlaceInv
<1>5. Widens(held, held') /\ Widens(Target, Target')
  BY <1>2, <1>4 DEF Widens
<1>6. UNCHANGED <<snapshots, evidence, claims, reports, artifact, catalogue, journal, done, work>>
  BY DEF ledgerVars, artifactVars, rowVars
<1>7. Grows
  BY <1>5, <1>6, KeepsSame DEF Grows, Final
<1>8. FilesTrue(files', held', Target', edits')
  <2> SUFFICES ASSUME NEW q \in Path
               PROVE  /\ files'[q] \in held'[q] /\ \A c \in held'[q] : c.edition <= edits + 1 + 1
                      /\ Target[q] = {} => Newest(files'[q], held'[q])
                      /\ Target[q] \cap held'[q] # {} => ImplementedIn(Target, q, files'[q])
    BY <1>2 DEF FilesTrue
  <2>1. \A c \in held[q] : c.edition \in Nat /\ c.edition <= edits + 1
    BY FilesTyped DEF Content
  <2>2. \A c \in held[q] : c.edition <= edits + 1 + 1 /\ c.edition < edits + 2
    BY <1>2, <2>1
  <2>3. CASE q # p
    BY <1>4, <2>2, <2>3, FilesTyped
  <2>4. CASE q = p
    <3>1. Newest(content, held'[q])
      BY <1>3, <1>4, <2>2, <2>4 DEF Newest
    <3>2. ASSUME NEW c \in Target[q] PROVE ImplementedIn(Target, q, content)
      <4>1. journal[ReadKey(q)].result # None /\ c = NewFor(journal, q)
        BY <3>2 DEF Target
      <4>2. c \in Content /\ c.edition <= edits + 1
        BY <4>1, NewContentTrue
      <4>3. content # Gone => content.edition > c.edition
        BY <1>2, <1>3, <4>2 DEF Content
      <4> QED
        BY <3>2, <4>3 DEF ImplementedIn
    <3>3. content.edition <= edits + 1 + 1
      BY <1>2, <1>3 DEF Content
    <3> QED
      BY <1>4, <2>2, <2>4, <3>1, <3>2, <3>3
  <2> QED
    BY <2>3, <2>4
<1>9. \A k \in Key : RowTrue(k, snapshots', journal', held', Target')
  BY <1>6, <1>7, RowsStay DEF TruthInv
<1>10. TableTrue'
  BY <1>2, <1>6, <1>7, <1>8, <1>9, TableGrows DEF TruthInv
<1> QED
  BY <1>6, <1>7, <1>10, OthersTruth

LEMMA MaintenanceTruth ==
    ASSUME PlaceInv, TruthInv, Maintenance, UNCHANGED <<journal, rowVars, leaseVars, work>>
    PROVE  TruthInv'
<1>1. UNCHANGED <<files, held, written, Target, snapshots, evidence, claims, reports, journal,
                  done, work>>
  BY TargetSame DEF Maintenance, ledgerVars, rowVars
<1>2. /\ artifact'.stored \in {artifact.stored, None} /\ catalogue' = catalogue
      /\ edits' \in {edits, edits + 1}
  <2>1. CASE Age
    BY <2>1 DEF Age, PlaceInv, TypeOK
  <2>2. CASE ListCatalogue
    BY <2>2 DEF ListCatalogue
  <2>3. CASE PruneOrphans
    BY <2>3 DEF PruneOrphans, Missing
  <2> QED
    BY <2>1, <2>2, <2>3 DEF Maintenance
<1>3. ASSUME NEW p \in Path, NEW c \in held[p] PROVE c.edition <= edits' + 1
  BY <1>2, <1>3, FilesTyped DEF Content
<1>4. FilesTrue(files', held', Target', edits')
  BY <1>1, <1>3, FilesTyped DEF FilesTrue
<1>5. TableTrue'
  BY <1>1, <1>2, <1>4 DEF TruthInv, TableTrue, MapsTrue
<1>6. Grows
  BY <1>1, GrowsSame
<1> QED
  BY <1>1, <1>5, <1>6, OthersTruth

LEMMA TruthStep ==
    ASSUME PlaceInv, TruthInv, [Next]_vars
    PROVE  TruthInv'
<1>1. ASSUME NEW w \in Worker, Execute(w) \/ Attempt(w) \/ Resume(w) \/ Crash(w)
      PROVE  TruthInv'
  BY <1>1, ExecutedTruth, AttemptedTruth, ResumedTruth, CrashTruth
<1>2. CASE Outside /\ UNCHANGED <<journal, rowVars, leaseVars, work>>
  BY <1>2, EditTruth, MaintenanceTruth DEF Outside
<1>3. CASE UNCHANGED vars
  <2>1. UNCHANGED <<workspaceVars, journal, rowVars, work>>
    BY <1>3 DEF vars
  <2>2. /\ Grows /\ TableTrue'
        /\ UNCHANGED <<reports, claims, evidence>>
    BY <2>1, StillTruth
  <2>3. UNCHANGED <<work, done>>
    BY <2>1 DEF rowVars
  <2> QED
    BY <2>2, <2>3, OthersTruth
<1> QED
  BY <1>1, <1>2, <1>3 DEF Next

LEMMA InitTruth ==
    ASSUME Init
    PROVE  TruthInv
<1>1. /\ files = [p \in Path |-> Edition(1, TRUE)] /\ held = [p \in Path |-> {files[p]}]
      /\ written = [p \in Path |-> {}] /\ edits = 0
      /\ snapshots = [i \in {Created} |-> Index(files, Nothing)]
      /\ evidence = {} /\ claims = {} /\ artifact.stored = None /\ catalogue = None
      /\ reports.json = None /\ reports.markdown = None
  BY DEF Init, WorkspaceInit, Missing
<1>2. /\ \A k \in Key : journal[k].status = "absent" /\ journal[k].result = None
      /\ \A p \in Path : Target[p] = {}
  <2>1. \A k \in Key : journal[k].status = "absent" /\ journal[k].result = None
    BY DEF Init, NoCall
  <2> QED
    BY <2>1, ReadKeyType DEF Target
<1>3. FilesTrue(files, held, Target, edits)
  <2>1. PICK first : first = Edition(1, TRUE)
    OBVIOUS
  <2>2. first.edition = 1
    BY <2>1 DEF Edition
  <2>3. \A p \in Path : files[p] = first /\ held[p] = {first}
    BY <1>1, <2>1
  <2>4. first.edition <= edits + 1
    BY <1>1, <2>2
  <2>5. ASSUME NEW p \in Path
        PROVE  files[p] \in held[p] /\ \A c \in held[p] : c.edition <= edits + 1
    BY <2>3, <2>4
  <2>6. ASSUME NEW p \in Path
        PROVE  Newest(files[p], held[p]) /\ Target[p] = {}
    BY <1>2, <2>3 DEF Newest
  <2> QED
    BY <2>5, <2>6 DEF FilesTrue
<1>4. SnapshotsTrue(snapshots, held, Target)
  <2>1. DOMAIN snapshots = {Created} /\ snapshots[Created] = Index(files, Nothing)
    BY <1>1
  <2>2. Changed # Created
    BY DEF Changed, Created, SnapshotOf
  <2>3. ManifestTrue(Index(files, Nothing), held)
    BY <1>1 DEF ManifestTrue, Index, Live, Nothing, NoEntry
  <2> QED
    BY <2>1, <2>2, <2>3 DEF SnapshotsTrue
<1>5. WritesTrue(written, Target)
  BY <1>1 DEF WritesTrue
<1>6. \A k \in Key : RowTrue(k, snapshots, journal, held, Target)
  BY <1>2 DEF RowTrue
<1>7. EvidenceTrue(evidence, held, Target)
  BY <1>1 DEF EvidenceTrue
<1>8. TableTrue
  BY <1>1, <1>3, <1>4, <1>5, <1>6, <1>7 DEF TableTrue, MapsTrue
<1>9. \A w \in Worker : work[w].pc = "idle"
  BY DEF Init, Idle
<1>10. RunTrue
  <2>1. DoneTrue(done, claims, journal)
    BY DEF Init, DoneTrue
  <2>2. ReportTrue
    BY <1>1, <1>9 DEF ReportTrue
  <2> QED
    BY <2>1, <2>2 DEF RunTrue
<1>11. ASSUME NEW w \in Worker
       PROVE  WorkTrue(work[w], snapshots, journal, held, Target, claims)
  <2>1. "idle" \notin Executing \cup {"renew", "commit", "scan", "compare"}
    BY DEF Executing, Calling
  <2> QED
    BY <1>9, <2>1, OutsideTrue
<1> QED
  BY <1>8, <1>10, <1>11 DEF TruthInv

-----------------------------------------------------------------------------
\* The properties of the run.

\* What the rows, the files and the operations know of each other stays true: the inductive
\* invariant behind the properties of the demo worker, under every interleaving of workers,
\* resumes, crashes, edits of others and clean-ups.
THEOREM WorkerTruth == Spec => [](PlaceInv /\ TruthInv)
<1>1. Init => PlaceInv /\ TruthInv
  BY InitPlaces, InitTruth
<1>2. PlaceInv /\ TruthInv /\ [Next]_vars => PlaceInv' /\ TruthInv'
  BY PlaceStep, TruthStep
<1> QED
  BY <1>1, <1>2, PTL DEF Spec

\* Every content that EvidenceLedger attributes to a file was in that file, whichever
\* attempt recorded it and whether its tool result was replayed or reconciled.
THEOREM WorkerEvidenceIsTrue == Spec => []EvidenceIsTrue
<1>1. PlaceInv /\ TruthInv => EvidenceIsTrue
  BY DEF TruthInv, TableTrue, EvidenceTrue, EvidenceIsTrue
<1> QED
  BY <1>1, WorkerTruth, PTL

\* ControlledFileWriterTool puts at most one content into a file, that of the journalled
\* read, in however many attempts of however many workers.
THEOREM WorkerWritesAgree == Spec => []WritesAgree
<1>1. ASSUME TruthInv, NEW p \in Path
      PROVE  Cardinality(written[p]) <= 1
  <2>1. \A c \in written[p] : c = NewFor(journal, p)
    BY <1>1 DEF TruthInv, TableTrue, WritesTrue, Target
  <2>2. CASE written[p] = {}
    BY <2>2, FS_EmptySet
  <2>3. CASE written[p] # {}
    <3>1. written[p] = {NewFor(journal, p)}
      BY <2>1, <2>3
    <3> QED
      BY <3>1, FS_Singleton
  <2> QED
    BY <2>2, <2>3
<1>2. PlaceInv /\ TruthInv => WritesAgree
  BY <1>1 DEF WritesAgree
<1> QED
  BY <1>2, WorkerTruth, PTL

\* The snapshot of _implement and the files that the tests of _verify ran on hold in every
\* file what the worker made of the text that it read, or what others made of it since: no
\* replayed or reconciled call lets the index or the tests run ahead of a write.
THEOREM WorkerChangeIsIndexedAndTested == Spec => []ChangeIsIndexedAndTested
<1>1. ASSUME PlaceInv, TruthInv PROVE ChangeIsIndexedAndTested
  <2>1. ASSUME NEW p \in Path, NEW content, ImplementedIn(Target, p, content)
        PROVE  Implemented(p, content)
    <3> DEFINE read == journal[ReadKey(p)].result
    <3>1. read # None => read.content \in Content
      <4>1. ReadKey(p) \in Key /\ ReadKey(p)[2] = "read"
        BY ReadKeyType DEF ReadKey
      <4> QED
        BY <1>1, <4>1 DEF PlaceInv, TypeOK, Answer
    <3>2. read # None => Transform(read.content).edition = read.content.edition
      BY <3>1, TransformType
    <3>3. content # Gone =>
             /\ read # None
             /\ content = Transform(read.content)
                \/ content.edition > Transform(read.content).edition
      BY <2>1 DEF ImplementedIn, Target, NewFor
    <3> QED
      BY <3>2, <3>3 DEF Implemented, ReadKey
  <2>2. Known(Changed) => \A p \in Live(snapshots[Changed]) :
                             Implemented(p, snapshots[Changed][p].content)
    BY <1>1, <2>1 DEF TruthInv, TableTrue, SnapshotsTrue, ChangeIn, Known, Live
  <2>3. \A e \in evidence :
           e.type = "test" => \A p \in DOMAIN e.contents : Implemented(p, e.contents[p])
    BY <1>1, <2>1 DEF TruthInv, TableTrue, EvidenceTrue, PlaceInv, TypeOK
  <2> QED
    BY <2>2, <2>3 DEF ChangeIsIndexedAndTested, Changed
<1>2. PlaceInv /\ TruthInv => ChangeIsIndexedAndTested
  BY <1>1
<1> QED
  BY <1>2, WorkerTruth, PTL

\* Every repository_snapshot_id in a run row, a checkpoint, an attempt or a stored result
\* has its rows, and the catalogue and the artifact directory hold the map of the
\* snapshot of _inspect and no other.
THEOREM WorkerSnapshotsResolve == Spec => []SnapshotsResolve
<1>1. ASSUME PlaceInv, TruthInv PROVE SnapshotsResolve
  <2>1. Known(run.snapshot) /\ Known(pinned)
    BY <1>1 DEF PlaceInv, Rows, Known
  <2>2. \A w \in Worker : work[w].base # None => Known(work[w].base)
    BY <1>1 DEF PlaceInv, Placed, Resolved, Known
  <2>3. \A k \in Key : k[2] = "index" /\ journal[k].result # None => Known(journal[k].result)
    BY <1>1 DEF PlaceInv, Rows, JournalRows, IsIndex, Known
  <2>4. \A map \in {catalogue, artifact.stored} \ {None} :
           Known(Inspected) /\ map = snapshots[Inspected]
    BY <1>1 DEF TruthInv, TableTrue, MapsTrue, Known
  <2> QED
    BY <2>1, <2>2, <2>3, <2>4 DEF SnapshotsResolve, Inspected
<1>2. PlaceInv /\ TruthInv => SnapshotsResolve
  BY <1>1
<1> QED
  BY <1>2, WorkerTruth, PTL

\* A stored report (_generate_report), in either format and whichever of several operations
\* stored it last, cites for each task a claim with stored evidence.
THEOREM WorkerReportIsBacked == Spec => []ReportIsBacked
<1>1. ASSUME TruthInv, NEW report \in {reports.markdown, reports.json} \ {None}
      PROVE  /\ \A c \in report : Supported(c)
             /\ \A i \in 1 .. 4 : \E c \in report : c.task = TaskSeq[i] /\ c.evidence # {}
  <2>1. Backed(report, evidence)
    BY <1>1 DEF TruthInv, RunTrue, ReportTrue
  <2> QED
    BY <2>1 DEF Backed, HasClaim, Supported
<1>2. PlaceInv /\ TruthInv => ReportIsBacked
  BY <1>1 DEF ReportIsBacked
<1> QED
  BY <1>2, WorkerTruth, PTL
=============================================================================
