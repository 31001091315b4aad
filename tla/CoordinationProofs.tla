------------------------- MODULE CoordinationProofs -------------------------
(***************************************************************************)
(* What keeps concurrent operations apart: the lease row and the journal   *)
(* of tool calls keep their promises for every set of workers, executors   *)
(* and calls, every time to live and every bound.                          *)
(***************************************************************************)
EXTENDS Lease, ToolJournal, FiniteSetTheorems, TLAPS

-----------------------------------------------------------------------------
\* The lease row.

\* Type correctness of the lease row, the records workers hold and the calls they
\* are in; no call carries a time the clock has not reached.
THEOREM LeaseTypeCorrect == RowSpec => []RowTypeOK
<1>1. RowInit => RowTypeOK
  BY LeaseRowAssumption DEF RowInit, RowTypeOK, Row, NoRow, NoRecord, NoCall, Record
<1>2. RowTypeOK /\ [RowNext]_leaseVars => RowTypeOK'
  <2> SUFFICES ASSUME RowTypeOK, [RowNext]_leaseVars PROVE RowTypeOK'
    OBVIOUS
  <2> USE DEF RowTypeOK, Row, Record, NoCall, NoRecord, NoRow
  <2>1. CASE Tick
    BY <2>1 DEF Tick
  <2>2. ASSUME NEW w \in Worker, BeginCall(w) PROVE RowTypeOK'
    BY <2>2 DEF BeginCall
  <2>3. ASSUME NEW w \in Worker, NEW f \in Nat, NEW v \in Nat, Grant(w, f, v), Return(w),
               UNCHANGED <<now, outdated>>
        PROVE RowTypeOK'
    BY <2>3, LeaseRowAssumption DEF Grant, Return
  <2>a. ASSUME NEW w \in Worker, UNCHANGED <<now, row, held, outdated>>, Return(w)
        PROVE  RowTypeOK'
    BY <2>a, LeaseRowAssumption DEF Return
  <2>b. ASSUME NEW w \in Worker, UNCHANGED <<now, row, held, outdated>>,
               NEW step \in {"take", "extend"}, ReadRow(w, step)
        PROVE  RowTypeOK'
    <3>1. /\ [step |-> step, at |-> call[w].at, read |-> row].step = step
          /\ [step |-> step, at |-> call[w].at, read |-> row].at = call[w].at
          /\ [step |-> step, at |-> call[w].at, read |-> row].read = row
      OBVIOUS
    <3> QED
      BY <2>b, <3>1 DEF ReadRow
  <2>4. ASSUME NEW w \in Worker, ReadToAcquire(w) \/ ReadToRenew(w) PROVE RowTypeOK'
    BY <2>4, <2>a, <2>b DEF ReadToAcquire, ReadToRenew
  <2>5. ASSUME NEW w \in Worker, Take(w) \/ Extend(w) PROVE RowTypeOK'
    <3>1. CASE UNCHANGED <<row, held>>
      BY <2>5, <2>a, <3>1 DEF Take, Extend
    <3>2. ASSUME NEW f \in Nat, NEW v \in Nat, Grant(w, f, v) PROVE RowTypeOK'
      BY <2>3, <2>5, <3>2 DEF Take, Extend
    <3> QED
      BY <2>5, <3>1, <3>2 DEF Take, Extend
  <2>6. ASSUME NEW w \in Worker, Release(w) PROVE RowTypeOK'
    BY <2>6 DEF Release
  <2>7. ASSUME NEW w \in Worker, Die(w) PROVE RowTypeOK'
    BY <2>7 DEF Die, Return
  <2>8. CASE UNCHANGED leaseVars
    BY <2>8 DEF leaseVars
  <2> QED
    BY <2>1, <2>2, <2>4, <2>5, <2>6, <2>7, <2>8 DEF RowNext
<1> QED
  BY <1>1, <1>2, PTL DEF RowSpec

\* A row exists if and only if it has a version.
VersionedRow == row.version = 0 <=> row = NoRow

\* What a call that is about to write knows of the row it read: nobody else's lease was
\* live then; and unless a row was deleted under a pending update, a row that still has
\* the version is the row that was read, because the version of a row only grows.
ReadIsRow ==
    \A w \in Worker : call[w].step = "take" =>
        /\ call[w].read.version = 0 <=> call[w].read = NoRow
        /\ call[w].read.owner \in {NoOwner, w} \/ call[w].read.expires <= call[w].at
        /\ call[w].read # NoRow /\ w \notin outdated =>
              /\ call[w].read.version <= row.version
              /\ call[w].read.version = row.version => call[w].read = row

\* Why two unexpired records do not coexist: such a record is the row.
UnexpiredIsRow ==
    outdated = {} => \A w \in Worker : held[w].expires > now =>
                  row.owner = w /\ row.expires = held[w].expires

\* A row that is written by acquire_lease was missing, its own or expired, unless a row
\* was deleted under a pending update.
LEMMA TakesAvailable ==
    ASSUME RowTypeOK, VersionedRow, ReadIsRow, NEW w \in Worker, call[w].step = "take",
           SameVersion(w), w \notin outdated
    PROVE  row.owner \in {NoOwner, w} \/ row.expires <= call[w].at
<1> USE DEF RowTypeOK, Row, SameVersion
<1>1. CASE call[w].read = NoRow
  BY <1>1 DEF ReadIsRow, VersionedRow, NoRow
<1>2. CASE call[w].read # NoRow
  <2>1. call[w].read = row
    BY <1>2 DEF ReadIsRow
  <2> QED
    BY <2>1 DEF ReadIsRow
<1> QED
  BY <1>1, <1>2

\* The facts about rows that were read, and about the versions, are kept by every step.
LEMMA LeaseReads == RowSpec => [](VersionedRow /\ ReadIsRow)
<1>1. RowInit => VersionedRow /\ ReadIsRow
  BY DEF RowInit, VersionedRow, ReadIsRow, NoRow, NoCall
<1>2. RowTypeOK /\ VersionedRow /\ ReadIsRow /\ [RowNext]_leaseVars => (VersionedRow /\ ReadIsRow)'
  <2> SUFFICES ASSUME RowTypeOK, VersionedRow, ReadIsRow, [RowNext]_leaseVars
               PROVE  VersionedRow' /\ ReadIsRow'
    OBVIOUS
  <2> USE DEF RowTypeOK, Row, Record, NoRecord
  <2>1. CASE Tick
    BY <2>1 DEF Tick, VersionedRow, ReadIsRow
  <2>2. ASSUME NEW w \in Worker, BeginCall(w) PROVE VersionedRow' /\ ReadIsRow'
    BY <2>2 DEF BeginCall, VersionedRow, ReadIsRow
  <2>3. ASSUME NEW w \in Worker, NEW f, NEW v \in Nat, Grant(w, f, v), Return(w), UNCHANGED outdated,
               v = row.version + 1
        PROVE VersionedRow' /\ ReadIsRow'
    <3>1. row'.version = row.version + 1 /\ row'.owner = w
      BY <2>3 DEF Grant
    <3>2. VersionedRow'
      BY <3>1, LeaseRowAssumption DEF VersionedRow, NoRow
    <3>3. \A u \in Worker : call'[u] = call[u] \/ call'[u] = NoCall
      BY <2>3 DEF Return
    <3> QED
      BY <2>3, <3>1, <3>2, <3>3 DEF ReadIsRow, NoCall
  <2>4. ASSUME NEW w \in Worker, ReadToAcquire(w) PROVE VersionedRow' /\ ReadIsRow'
    <3>1. CASE Return(w)
      BY <2>4, <3>1 DEF ReadToAcquire, Return, VersionedRow, ReadIsRow, NoCall
    <3>2. CASE ~LeasedToOther(w) /\ ReadRow(w, "take")
      <4>1. /\ \A u \in Worker \ {w} : call'[u] = call[u]
            /\ call'[w].read = row /\ call'[w].at = call[w].at
        BY <3>2 DEF ReadRow
      <4>2. row.owner \in {NoOwner, w} \/ row.expires <= call[w].at
        BY <3>2 DEF LeasedToOther
      <4> QED
        BY <2>4, <4>1, <4>2 DEF ReadToAcquire, VersionedRow, ReadIsRow
    <3> QED
      BY <2>4, <3>1, <3>2 DEF ReadToAcquire
  <2>5. ASSUME NEW w \in Worker, Take(w) PROVE VersionedRow' /\ ReadIsRow'
    <3>1. CASE UNCHANGED row
      BY <2>5, <3>1 DEF Take, Return, VersionedRow, ReadIsRow, NoCall
    <3>2. ASSUME NEW f, Grant(w, f, call[w].read.version + 1), SameVersion(w)
          PROVE VersionedRow' /\ ReadIsRow'
      BY <2>3, <2>5, <3>2 DEF Take, SameVersion
    <3> QED
      BY <2>5, <3>1, <3>2 DEF Take
  <2>6. ASSUME NEW w \in Worker, ReadToRenew(w) PROVE VersionedRow' /\ ReadIsRow'
    BY <2>6 DEF ReadToRenew, ReadRow, Return, VersionedRow, ReadIsRow, NoCall
  <2>7. ASSUME NEW w \in Worker, Extend(w) PROVE VersionedRow' /\ ReadIsRow'
    <3>1. CASE UNCHANGED row
      BY <2>7, <3>1 DEF Extend, Return, VersionedRow, ReadIsRow, NoCall
    <3>2. CASE Matches(w) /\ Grant(w, held[w].fence, held[w].version + 1)
      <4>1. held[w].version + 1 \in Nat /\ held[w].version = row.version
        BY <3>2 DEF Matches
      <4> QED
        BY <2>3, <2>7, <3>2, <4>1 DEF Extend
    <3> QED
      BY <2>7, <3>1, <3>2 DEF Extend
  <2>8. ASSUME NEW w \in Worker, Release(w) PROVE VersionedRow' /\ ReadIsRow'
    <3>1. CASE Matches(w)
      <4>1. row' = NoRow /\ call' = call
        BY <2>8, <3>1 DEF Release
      <4>2. \A v \in Worker : Pending(v) \/ v \in outdated => v \in outdated'
        BY <2>8, <3>1 DEF Release
      <4> QED
        BY <4>1, <4>2 DEF VersionedRow, ReadIsRow, Pending, NoRow
    <3>2. CASE ~Matches(w)
      BY <2>8, <3>2 DEF Release, VersionedRow, ReadIsRow
    <3> QED
      BY <3>1, <3>2
  <2>9. ASSUME NEW w \in Worker, Die(w) PROVE VersionedRow' /\ ReadIsRow'
    BY <2>9 DEF Die, Return, VersionedRow, ReadIsRow, NoCall
  <2>10. CASE UNCHANGED leaseVars
    BY <2>10 DEF leaseVars, VersionedRow, ReadIsRow
  <2> QED
    BY <2>1, <2>2, <2>4, <2>5, <2>6, <2>7, <2>8, <2>9, <2>10 DEF RowNext
<1> QED
  BY <1>1, <1>2, LeaseTypeCorrect, PTL DEF RowSpec

\* A takeover happens only after the previous owner's record has expired, however long
\* before the write the clock and the row were read, unless a row was deleted under a
\* pending update.
THEOREM LeaseExclusive == RowSpec => []OneUnexpiredRecord
<1>1. RowInit => UnexpiredIsRow
  BY DEF RowInit, UnexpiredIsRow, NoRecord
<1>2. RowTypeOK /\ VersionedRow /\ ReadIsRow /\ UnexpiredIsRow /\ [RowNext]_leaseVars
        => UnexpiredIsRow'
  <2> SUFFICES ASSUME RowTypeOK, VersionedRow, ReadIsRow, UnexpiredIsRow, [RowNext]_leaseVars
               PROVE  UnexpiredIsRow'
    OBVIOUS
  <2> USE DEF RowTypeOK, Row, Record, UnexpiredIsRow, NoRecord
  <2>1. CASE Tick
    BY <2>1 DEF Tick
  <2>2. ASSUME NEW w \in Worker, BeginCall(w) \/ ReadToAcquire(w) \/ ReadToRenew(w)
        PROVE UnexpiredIsRow'
    BY <2>2 DEF BeginCall, ReadToAcquire, ReadToRenew
  <2>3. ASSUME NEW w \in Worker, NEW f, NEW v, Grant(w, f, v), UNCHANGED <<now, outdated>>,
               w \notin outdated => row.owner \in {NoOwner, w} \/ row.expires <= call[w].at
        PROVE UnexpiredIsRow'
    BY <2>3, LeaseRowAssumption DEF Grant
  <2>4. ASSUME NEW w \in Worker, Take(w) PROVE UnexpiredIsRow'
    <3>1. CASE UNCHANGED <<row, held>>
      BY <2>4, <3>1 DEF Take
    <3>2. ASSUME NEW f, NEW v, Grant(w, f, v), SameVersion(w) PROVE UnexpiredIsRow'
      <4>1. w \notin outdated => row.owner \in {NoOwner, w} \/ row.expires <= call[w].at
        BY <2>4, <3>2, TakesAvailable DEF Take
      <4> QED
        BY <2>3, <2>4, <3>2, <4>1 DEF Take
    <3> QED
      BY <2>4, <3>1, <3>2 DEF Take
  <2>5. ASSUME NEW w \in Worker, Extend(w) PROVE UnexpiredIsRow'
    <3>1. CASE UNCHANGED <<row, held>>
      BY <2>5, <3>1 DEF Extend
    <3>2. CASE Matches(w) /\ Grant(w, held[w].fence, held[w].version + 1)
      BY <2>3, <2>5, <3>2 DEF Extend, Matches
    <3> QED
      BY <2>5, <3>1, <3>2 DEF Extend
  <2>6. ASSUME NEW w \in Worker, Release(w) PROVE UnexpiredIsRow'
    BY <2>6, LeaseRowAssumption DEF Release, Matches, NoRow
  <2>7. ASSUME NEW w \in Worker, Die(w) PROVE UnexpiredIsRow'
    BY <2>7 DEF Die
  <2>8. CASE UNCHANGED leaseVars
    BY <2>8 DEF leaseVars
  <2> QED
    BY <2>1, <2>2, <2>4, <2>5, <2>6, <2>7, <2>8 DEF RowNext
<1>3. UnexpiredIsRow => OneUnexpiredRecord
  BY DEF UnexpiredIsRow, OneUnexpiredRecord
<1> QED
  BY <1>1, <1>2, <1>3, LeaseTypeCorrect, LeaseReads, PTL DEF RowSpec

\* What the rest of the program sees of a row that has not expired, and of one that
\* has.
LEMMA SeenOf ==
    ASSUME NEW o, NEW e \in Nat, NEW n \in Nat
    PROVE  [owner |-> o, live |-> IF e > n THEN TRUE ELSE FALSE]
             = IF e > n THEN [owner |-> o, live |-> TRUE] ELSE [owner |-> o, live |-> FALSE]
<1>1. CASE e > n
  BY <1>1
<1>2. CASE ~(e > n)
  BY <1>2
<1> QED
  BY <1>1, <1>2

\* The row implements the lease the rest of the program is modelled with: every step
\* is a step of RunLease or leaves owner and liveness alone, and only after a row was
\* deleted under a pending update may it take a live lease away.
THEOREM LeaseImplementsRunLease == RowSpec => ImplementsRunLease
<1> DEFINE live(o) == [owner |-> o, live |-> TRUE]
           over(o) == [owner |-> o, live |-> FALSE]
           Allowed == \/ Abstract!LeaseNext
                      \/ \E w \in outdated : Abstract!LeaseTaken(w)
<1>1. RowInit => Abstract!LeaseInit
  BY DEF RowInit, Abstract!LeaseInit, Abstract!NoLease, NoRow, Seen
<1>2. RowTypeOK /\ RowTypeOK' /\ VersionedRow /\ ReadIsRow /\ [RowNext]_leaseVars => [Allowed]_Seen
  <2> SUFFICES ASSUME RowTypeOK, RowTypeOK', VersionedRow, ReadIsRow, [RowNext]_leaseVars
               PROVE  [Allowed]_Seen
    OBVIOUS
  <2>0. /\ now \in Nat /\ row.expires \in Nat /\ now' \in Nat /\ row'.expires \in Nat
        /\ row.owner \in Worker \cup {NoOwner}
        /\ \A w \in Worker : call[w].at <= now /\ call[w].at \in Nat
    BY DEF RowTypeOK, Row
  <2>a. Seen = IF row.expires > now THEN live(row.owner) ELSE over(row.owner)
    BY <2>0, SeenOf DEF Seen
  <2>b. Seen' = IF row'.expires > now' THEN live(row'.owner) ELSE over(row'.owner)
    BY <2>0, SeenOf DEF Seen
  <2>c. UNCHANGED <<row, now>> => UNCHANGED Seen
    BY DEF Seen
  <2> HIDE DEF live, over
  <2>d. ASSUME NEW o
        PROVE  /\ live(o).owner = o /\ live(o).live
               /\ over(o).owner = o /\ ~over(o).live
    <3>1. live(o).owner = o /\ over(o).owner = o
      BY DEF live, over
    <3>2. live(o).live
      BY DEF live
    <3>3. ~over(o).live
      BY DEF over
    <3> QED
      BY <3>1, <3>2, <3>3
  <2>1. CASE Tick
    <3>1. now' = now + 1 /\ row' = row
      BY <2>1 DEF Tick
    <3>2. CASE row.expires > now + 1
      BY <2>0, <2>a, <2>b, <3>1, <3>2
    <3>3. CASE ~(row.expires > now)
      BY <2>0, <2>a, <2>b, <3>1, <3>3
    <3>4. CASE row.expires = now + 1
      <4>1. Seen = live(row.owner) /\ Seen' = over(row.owner)
        BY <2>0, <2>a, <2>b, <3>1, <3>4
      <4>2. Abstract!LeaseExpires
        BY <2>d, <4>1 DEF over, Abstract!LeaseExpires
      <4> QED
        BY <4>2 DEF Abstract!LeaseNext
    <3> QED
      BY <2>0, <3>2, <3>3, <3>4
  <2>2. ASSUME NEW w \in Worker, NEW f, NEW v, Grant(w, f, v), UNCHANGED now,
               w \notin outdated => row.owner \in {NoOwner, w} \/ row.expires <= call[w].at
        PROVE  [Allowed]_Seen
    <3>1. ASSUME row.owner \in {NoOwner, w} \/ row.expires <= call[w].at
          PROVE  Abstract!Available(w)
      <4>1. CASE row.owner \in {NoOwner, w}
        BY <2>a, <2>d, <4>1 DEF Abstract!Available
      <4>2. CASE row.expires <= call[w].at
        <5>1. Seen = over(row.owner)
          BY <2>0, <2>a, <4>2
        <5> QED
          BY <2>d, <5>1 DEF Abstract!Available
      <4> QED
        BY <3>1, <4>1, <4>2
    <3>2. Seen' = live(w) \/ Seen' = over(w)
      BY <2>2, <2>b DEF Grant
    <3>3. CASE Abstract!Available(w)
      BY <3>2, <3>3 DEF live, over, Abstract!LeaseNext, Abstract!AcquireLease,
                        Abstract!AcquireTooLate
    <3>4. CASE ~Abstract!Available(w)
      <4>1. w \in outdated
        BY <2>2, <3>1, <3>4
      <4>2. Abstract!LeaseTaken(w)
        BY <3>2, <3>4 DEF live, over, Abstract!LeaseTaken
      <4> QED
        BY <4>1, <4>2
    <3> QED
      BY <3>3, <3>4
  <2>3. ASSUME NEW w \in Worker, BeginCall(w) \/ ReadToAcquire(w) \/ ReadToRenew(w)
        PROVE  [Allowed]_Seen
    BY <2>3, <2>c DEF BeginCall, ReadToAcquire, ReadToRenew
  <2>4. ASSUME NEW w \in Worker, Take(w) PROVE [Allowed]_Seen
    <3>1. CASE UNCHANGED row
      BY <2>4, <2>c, <3>1 DEF Take
    <3>2. ASSUME NEW f, NEW v, Grant(w, f, v), SameVersion(w) PROVE [Allowed]_Seen
      <4>1. w \notin outdated => row.owner \in {NoOwner, w} \/ row.expires <= call[w].at
        BY <2>4, <3>2, TakesAvailable DEF Take
      <4> QED
        BY <2>2, <2>4, <3>2, <4>1 DEF Take
    <3> QED
      BY <2>4, <3>1, <3>2 DEF Take
  <2>5. ASSUME NEW w \in Worker, Extend(w) PROVE [Allowed]_Seen
    <3>1. CASE UNCHANGED row
      BY <2>5, <2>c, <3>1 DEF Extend
    <3>2. CASE Matches(w) /\ Grant(w, held[w].fence, held[w].version + 1)
      BY <2>2, <2>5, <3>2 DEF Extend, Matches
    <3> QED
      BY <2>5, <3>1, <3>2 DEF Extend
  <2>6. ASSUME NEW w \in Worker, Release(w) PROVE [Allowed]_Seen
    <3>1. CASE Matches(w)
      <4>1. row' = NoRow /\ now' = now /\ row.owner = w
        BY <2>6, <3>1 DEF Release, Matches
      <4>2. Seen' = over(NoOwner) /\ Seen.owner = w
        BY <2>0, <2>a, <2>b, <2>d, <4>1 DEF NoRow
      <4>3. Abstract!ReleaseLease(w)
        BY <4>2 DEF over, Abstract!NoLease, Abstract!ReleaseLease
      <4> QED
        BY <4>3 DEF Abstract!LeaseNext
    <3>2. CASE ~Matches(w)
      BY <2>6, <2>c, <3>2 DEF Release
    <3> QED
      BY <3>1, <3>2
  <2>7. ASSUME NEW w \in Worker, Die(w) PROVE [Allowed]_Seen
    BY <2>7, <2>c DEF Die
  <2>8. CASE UNCHANGED leaseVars
    BY <2>8, <2>c DEF leaseVars
  <2> QED
    BY <2>1, <2>3, <2>4, <2>5, <2>6, <2>7, <2>8 DEF RowNext
<1> QED
  BY <1>1, <1>2, LeaseTypeCorrect, LeaseReads, PTL DEF RowSpec, ImplementsRunLease

-----------------------------------------------------------------------------
\* The journal of tool calls.  An attempt the journal counts is either spent, as an effect, or
\* held by one executor that may still use the tool: the inductive invariant counts the
\* effects and the executors together.

\* The executors of c that have an attempt and have not yet used the tool.
InFlight(c) == {e \in Executor : pc[e] \in {"mark", "execute"} /\ job[e] = c}

Covered == \A c \in Call : effects[c] + Cardinality(InFlight(c)) <= attempt[c]

NoIntentNoAttempt == \A c \in Call : status[c] = "absent" => attempt[c] = 0

RetriesAreSafe ==
    /\ \A e \in Executor : pc[e] \in {"retry", "reopen"} => job[e] \in RetrySafe
    /\ \A c \in Call \ RetrySafe : attempt[c] <= 1

Observed ==
    /\ \A c \in results : effects[c] > 0
    /\ \A e \in Executor : pc[e] = "record" => effects[job[e]] > 0
    /\ \A r \in Reconciler : rpc[r] = "record" => effects[target[r]] > 0

\* An executor that is to reopen a completed call looked before the call was completed.
LateReopen ==
    \A e \in Executor : pc[e] = "reopen" /\ job[e] \in results => e \in overtaken

JournalInv ==
    TypeOK /\ Covered /\ NoIntentNoAttempt /\ RetriesAreSafe /\ Observed /\ LateReopen

\* Every step keeps the types.
LEMMA TypeStep ==
    ASSUME TypeOK, [Next]_journalVars
    PROVE  TypeOK'
<1> USE JournalAssumption DEF TypeOK, ToolCallStatus, Uncertain
<1>1. CASE UNCHANGED journalVars
  BY <1>1 DEF journalVars, rowVars, executorVars, reconcilerVars
<1>2. ASSUME NEW e \in Executor, NEW c \in Call, ReadCall(e, c)
      PROVE  TypeOK'
  BY <1>2 DEF ReadCall, Goto, rowVars, reconcilerVars
<1>3. ASSUME NEW e \in Executor, ReadResult(e)
      PROVE  TypeOK'
  BY <1>3 DEF ReadResult, Goto, rowVars, reconcilerVars
<1>4. ASSUME NEW e \in Executor, PrepareRetry(e)
      PROVE  TypeOK'
  BY <1>4 DEF PrepareRetry, Goto, rowVars, reconcilerVars
<1>4a. ASSUME NEW e \in Executor, Reopen(e)
       PROVE  TypeOK'
  BY <1>4a DEF Reopen, Goto, rowVars, reconcilerVars
<1>5. ASSUME NEW e \in Executor, RecordIntent(e)
      PROVE  TypeOK'
  BY <1>5 DEF RecordIntent, Goto, rowVars, reconcilerVars
<1>6. ASSUME NEW e \in Executor, MarkRunning(e)
      PROVE  TypeOK'
  BY <1>6 DEF MarkRunning, UpdateStatus, Goto, reconcilerVars
<1>7. ASSUME NEW e \in Executor, ExecuteTool(e)
      PROVE  TypeOK'
  BY <1>7 DEF ExecuteTool, Goto, rowVars, reconcilerVars
<1>8. ASSUME NEW e \in Executor, MarkFailed(e)
      PROVE  TypeOK'
  BY <1>8 DEF MarkFailed, UpdateStatus, Goto, reconcilerVars
<1>9. ASSUME NEW e \in Executor, RecordResult(e)
      PROVE  TypeOK'
  BY <1>9 DEF RecordResult, RecordsResult, Goto, rowVars, reconcilerVars
<1>10. ASSUME NEW e \in Executor, Crash(e)
       PROVE  TypeOK'
  BY <1>10 DEF Crash, Goto, rowVars, reconcilerVars
<1>11. ASSUME NEW r \in Reconciler, UncertainCalls(r)
       PROVE  TypeOK'
  BY <1>11 DEF UncertainCalls, GotoReconcile, rowVars, executorVars
<1>12. ASSUME NEW r \in Reconciler, Reconcile(r)
       PROVE  TypeOK'
  BY <1>12 DEF Reconcile, GotoReconcile, rowVars, executorVars
<1>13. ASSUME NEW r \in Reconciler, ReconcileEnds(r)
       PROVE  TypeOK'
  BY <1>13 DEF ReconcileEnds, GotoReconcile, rowVars, executorVars
<1>14. ASSUME NEW r \in Reconciler, Settle(r)
       PROVE  TypeOK'
  BY <1>14 DEF Settle, UpdateStatus, GotoReconcile, executorVars
<1>15. ASSUME NEW r \in Reconciler, RecordReconciled(r)
       PROVE  TypeOK'
  BY <1>15 DEF RecordReconciled, RecordsResult, GotoReconcile, rowVars, executorVars
<1> QED
  BY <1>1, <1>2, <1>3, <1>4, <1>4a, <1>5, <1>6, <1>7, <1>8, <1>9, <1>10, <1>11, <1>12, <1>13,
     <1>14, <1>15 DEF Next, Execute, ReconcileUncertain

\* The executors of a call are finitely many.
LEMMA InFlightFinite ==
    ASSUME NEW c \in Call
    PROVE  IsFiniteSet(InFlight(c)) /\ Cardinality(InFlight(c)) \in Nat
<1>1. InFlight(c) \in SUBSET Executor
  BY DEF InFlight
<1>2. IsFiniteSet(InFlight(c))
  BY <1>1, FS_Subset, JournalAssumption
<1> QED
  BY <1>2, FS_CardinalityType

\* An executor that is not given an attempt for c does not add to those in flight.
LEMMA InFlightShrinks ==
    ASSUME NEW c \in Call, InFlight(c)' \in SUBSET InFlight(c)
    PROVE  /\ Cardinality(InFlight(c)') \in Nat
           /\ Cardinality(InFlight(c)') <= Cardinality(InFlight(c))
<1>1. IsFiniteSet(InFlight(c))
  BY InFlightFinite
<1>2. /\ IsFiniteSet(InFlight(c)')
      /\ Cardinality(InFlight(c)') <= Cardinality(InFlight(c))
  BY <1>1, FS_Subset
<1> QED
  BY <1>2, FS_CardinalityType

\* An executor that uses the tool leaves those in flight.
LEMMA InFlightLeaves ==
    ASSUME NEW c \in Call, NEW e \in InFlight(c), InFlight(c)' = InFlight(c) \ {e}
    PROVE  /\ Cardinality(InFlight(c)') \in Nat
           /\ Cardinality(InFlight(c)') = Cardinality(InFlight(c)) - 1
<1>1. IsFiniteSet(InFlight(c))
  BY InFlightFinite
<1>2. /\ IsFiniteSet(InFlight(c) \ {e})
      /\ Cardinality(InFlight(c) \ {e}) = Cardinality(InFlight(c)) - 1
  BY <1>1, FS_RemoveElement
<1> QED
  BY <1>2, FS_CardinalityType

\* One executor that is given an attempt adds one.
LEMMA InFlightEnters ==
    ASSUME NEW c \in Call, NEW e, InFlight(c)' = InFlight(c) \cup {e}
    PROVE  /\ Cardinality(InFlight(c)') \in Nat
           /\ Cardinality(InFlight(c)') <= Cardinality(InFlight(c)) + 1
<1>1. IsFiniteSet(InFlight(c)) /\ Cardinality(InFlight(c)) \in Nat
  BY InFlightFinite
<1>2. /\ IsFiniteSet(InFlight(c) \cup {e})
      /\ Cardinality(InFlight(c) \cup {e}) <= Cardinality(InFlight(c)) + 1
  BY <1>1, FS_AddElement
<1> QED
  BY <1>2, FS_CardinalityType

\* A call that gets neither an effect nor an attempt stays covered.
LEMMA CoveredKept ==
    ASSUME TypeOK, Covered, NEW c \in Call, InFlight(c)' \in SUBSET InFlight(c),
           effects'[c] = effects[c], attempt'[c] = attempt[c]
    PROVE  effects'[c] + Cardinality(InFlight(c)') <= attempt'[c]
<1>1. /\ Cardinality(InFlight(c)') \in Nat
      /\ Cardinality(InFlight(c)') <= Cardinality(InFlight(c))
  BY InFlightShrinks
<1>2. Cardinality(InFlight(c)) \in Nat
  BY InFlightFinite
<1>3. effects[c] \in Nat /\ attempt[c] \in Nat
  BY JournalAssumption DEF TypeOK
<1> QED
  BY <1>1, <1>2, <1>3 DEF Covered

\* A call that gets one attempt and one executor stays covered.
LEMMA CoveredReopened ==
    ASSUME TypeOK, Covered, NEW c \in Call, NEW e, InFlight(c)' = InFlight(c) \cup {e},
           effects'[c] = effects[c], attempt'[c] = attempt[c] + 1
    PROVE  effects'[c] + Cardinality(InFlight(c)') <= attempt'[c]
<1>1. /\ Cardinality(InFlight(c)') \in Nat
      /\ Cardinality(InFlight(c)') <= Cardinality(InFlight(c)) + 1
  BY InFlightEnters
<1>2. Cardinality(InFlight(c)) \in Nat
  BY InFlightFinite
<1>3. effects[c] \in Nat /\ attempt[c] \in Nat
  BY JournalAssumption DEF TypeOK
<1> QED
  BY <1>1, <1>2, <1>3 DEF Covered

\* Every step keeps the effects and the executors in flight within the attempts.
LEMMA CoveredStep ==
    ASSUME JournalInv, [Next]_journalVars
    PROVE  Covered'
<1> USE DEF JournalInv
<1>1. ASSUME UNCHANGED <<effects, attempt>>,
             \A c \in Call : InFlight(c)' \in SUBSET InFlight(c)
      PROVE  Covered'
  BY <1>1, CoveredKept DEF Covered
<1>2. CASE UNCHANGED journalVars
  BY <1>1, <1>2 DEF InFlight, journalVars, executorVars, rowVars
<1>3. ASSUME NEW e \in Executor, NEW c \in Call, ReadCall(e, c)
      PROVE  Covered'
  <2>1. pc' = [pc EXCEPT ![e] = "intent"] \/ pc' = [pc EXCEPT ![e] = "result"]
    BY <1>3 DEF ReadCall, Goto
  <2>2. \A d \in Executor \ {e} : pc'[d] = pc[d] /\ job'[d] = job[d]
    BY <1>3, <2>1 DEF ReadCall, TypeOK
  <2>3. pc'[e] \notin {"mark", "execute"}
    BY <2>1 DEF TypeOK
  <2> QED
    BY <1>1, <1>3, <2>2, <2>3 DEF ReadCall, InFlight, rowVars
<1>4. ASSUME NEW e \in Executor,
             ReadResult(e) \/ PrepareRetry(e) \/ MarkFailed(e) \/ RecordResult(e) \/ Crash(e)
      PROVE  Covered'
  <2>1. \/ pc' = [pc EXCEPT ![e] = "idle"]
        \/ pc' = [pc EXCEPT ![e] = "retry"]
        \/ pc' = [pc EXCEPT ![e] = "reopen"]
    BY <1>4 DEF ReadResult, PrepareRetry, MarkFailed, RecordResult, Crash, Goto
  <2>2. UNCHANGED <<effects, attempt, job>>
    BY <1>4 DEF ReadResult, PrepareRetry, MarkFailed, RecordResult, Crash, UpdateStatus, RecordsResult,
                rowVars
  <2>3. \A d \in Executor \ {e} : pc'[d] = pc[d]
    BY <2>1 DEF TypeOK
  <2>4. pc'[e] \notin {"mark", "execute"}
    BY <2>1 DEF TypeOK
  <2> QED
    BY <1>1, <2>2, <2>3, <2>4 DEF InFlight
<1>5. ASSUME NEW e \in Executor, Reopen(e) \/ RecordIntent(e)
      PROVE  Covered'
  <2>1. UNCHANGED <<effects, job>> /\ pc[e] \notin {"mark", "execute"} /\ job[e] \in Call
    BY <1>5 DEF Reopen, RecordIntent, TypeOK
  <2>2. CASE Goto(e, "idle") /\ UNCHANGED attempt
    <3>1. \A d \in Executor : pc'[d] = IF d = e THEN "idle" ELSE pc[d]
      BY <2>2 DEF Goto, TypeOK
    <3> QED
      BY <1>1, <2>1, <2>2, <3>1 DEF InFlight
  <2>3. CASE ~ (Goto(e, "idle") /\ UNCHANGED attempt)
    <3>1. attempt' = [attempt EXCEPT ![job[e]] = attempt[job[e]] + 1]
      <4>1. CASE Reopen(e)
        BY <2>3, <4>1 DEF Reopen
      <4>2. CASE RecordIntent(e)
        <5>1. attempt' = [attempt EXCEPT ![job[e]] = 1] /\ status[job[e]] = "absent"
          BY <2>3, <4>2 DEF RecordIntent, rowVars
        <5>2. attempt[job[e]] = 0
          BY <2>1, <5>1 DEF NoIntentNoAttempt
        <5> QED
          BY <5>1, <5>2
      <4> QED
        BY <1>5, <4>1, <4>2
    <3>2. \A d \in Executor : pc'[d] = IF d = e THEN "mark" ELSE pc[d]
      BY <1>5, <2>3 DEF Reopen, RecordIntent, Goto, TypeOK, rowVars
    <3>3. SUFFICES ASSUME NEW c \in Call
                   PROVE  effects'[c] + Cardinality(InFlight(c)') <= attempt'[c]
      BY DEF Covered
    <3>4. CASE c = job[e]
      <4>1. InFlight(c)' = InFlight(c) \cup {e}
        BY <2>1, <3>2, <3>4 DEF InFlight
      <4>2. attempt'[c] = attempt[c] + 1 /\ effects'[c] = effects[c]
        BY <2>1, <3>1, <3>4 DEF TypeOK
      <4> QED
        BY <4>1, <4>2, CoveredReopened
    <3>5. CASE c # job[e]
      <4>1. InFlight(c)' \in SUBSET InFlight(c)
        BY <2>1, <3>2, <3>5 DEF InFlight
      <4>2. attempt'[c] = attempt[c] /\ effects'[c] = effects[c]
        BY <2>1, <3>1, <3>5 DEF TypeOK
      <4> QED
        BY <4>1, <4>2, CoveredKept
    <3> QED
      BY <3>4, <3>5
  <2> QED
    BY <2>2, <2>3
<1>6. ASSUME NEW e \in Executor, MarkRunning(e)
      PROVE  Covered'
  <2>1. \A d \in Executor : pc'[d] = IF d = e THEN "execute" ELSE pc[d]
    BY <1>6 DEF MarkRunning, Goto, TypeOK
  <2>2. pc[e] = "mark" /\ UNCHANGED <<effects, job, attempt>>
    BY <1>6 DEF MarkRunning, UpdateStatus
  <2> QED
    BY <1>1, <2>1, <2>2 DEF InFlight
<1>7. ASSUME NEW e \in Executor, ExecuteTool(e)
      PROVE  Covered'
  <2>1. PICK effect \in {0, 1} :
            /\ effects' = [effects EXCEPT ![job[e]] = effects[job[e]] + effect]
            /\ Goto(e, "record") \/ Goto(e, "fail")
    BY <1>7 DEF ExecuteTool
  <2>2. \A d \in Executor \ {e} : pc'[d] = pc[d]
    BY <2>1 DEF Goto, TypeOK
  <2>3. pc[e] = "execute" /\ pc'[e] \notin {"mark", "execute"} /\ UNCHANGED <<job, attempt>>
    BY <1>7, <2>1 DEF ExecuteTool, Goto, TypeOK, rowVars
  <2>4. SUFFICES ASSUME NEW c \in Call
                 PROVE  effects'[c] + Cardinality(InFlight(c)') <= attempt'[c]
    BY DEF Covered
  <2>5. CASE c = job[e]
    <3>1. e \in InFlight(c) /\ InFlight(c)' = InFlight(c) \ {e}
      BY <2>2, <2>3, <2>5 DEF InFlight
    <3>2. /\ Cardinality(InFlight(c)') \in Nat
          /\ Cardinality(InFlight(c)') = Cardinality(InFlight(c)) - 1
      BY <3>1, InFlightLeaves
    <3>3. Cardinality(InFlight(c)) \in Nat
      BY InFlightFinite
    <3>4. effects[c] \in Nat /\ attempt[c] \in Nat /\ attempt'[c] = attempt[c]
      BY <2>3, JournalAssumption DEF TypeOK
    <3>5. effects'[c] = effects[c] + effect
      BY <2>1, <2>5 DEF TypeOK
    <3> QED
      BY <3>2, <3>3, <3>4, <3>5 DEF Covered
  <2>6. CASE c # job[e]
    <3>1. InFlight(c)' \in SUBSET InFlight(c)
      BY <2>2, <2>3 DEF InFlight
    <3>2. effects'[c] = effects[c] /\ attempt'[c] = attempt[c]
      BY <2>1, <2>3, <2>6 DEF TypeOK
    <3> QED
      BY <3>1, <3>2, CoveredKept
  <2> QED
    BY <2>5, <2>6
<1>8. ASSUME NEW r \in Reconciler, ReconcileUncertain(r)
      PROVE  Covered'
  <2>1. UNCHANGED <<effects, attempt, pc, job>>
    BY <1>8 DEF ReconcileUncertain, UncertainCalls, Reconcile, ReconcileEnds,
                RecordReconciled, Settle, RecordsResult, UpdateStatus, executorVars, rowVars
  <2> QED
    BY <1>1, <2>1 DEF InFlight
<1> QED
  BY <1>2, <1>3, <1>4, <1>5, <1>6, <1>7, <1>8 DEF Next, Execute

\* A call has no attempt before its intent is committed.
LEMMA IntentStep ==
    ASSUME JournalInv, [Next]_journalVars
    PROVE  NoIntentNoAttempt'
<1> USE DEF JournalInv, TypeOK, NoIntentNoAttempt
<1>1. CASE UNCHANGED journalVars
  BY <1>1 DEF journalVars, rowVars
<1>2. ASSUME NEW e \in Executor, Execute(e) \/ Crash(e)
      PROVE  NoIntentNoAttempt'
  BY <1>2 DEF Execute, ReadCall, ReadResult, PrepareRetry, Reopen, RecordIntent, MarkRunning,
              ExecuteTool, MarkFailed, RecordResult, Crash, UpdateStatus, RecordsResult,
              rowVars
<1>3. ASSUME NEW r \in Reconciler, ReconcileUncertain(r)
      PROVE  NoIntentNoAttempt'
  BY <1>3 DEF ReconcileUncertain, UncertainCalls, Reconcile, ReconcileEnds,
              RecordReconciled, Settle, UpdateStatus, RecordsResult, rowVars
<1> QED
  BY <1>1, <1>2, <1>3 DEF Next

\* Only the calls of retry-safe tools get a second attempt.
LEMMA RetryStep ==
    ASSUME JournalInv, [Next]_journalVars
    PROVE  RetriesAreSafe'
<1> USE DEF JournalInv, TypeOK, RetriesAreSafe
<1>1. CASE UNCHANGED journalVars
  BY <1>1 DEF journalVars, rowVars, executorVars
<1>2. ASSUME NEW e \in Executor, NEW c \in Call, ReadCall(e, c)
      PROVE  RetriesAreSafe'
  BY <1>2 DEF ReadCall, Goto, rowVars
<1>3. ASSUME NEW e \in Executor, ReadResult(e)
      PROVE  RetriesAreSafe'
  BY <1>3 DEF ReadResult, MayRetry, Goto, rowVars
<1>4. ASSUME NEW e \in Executor, PrepareRetry(e) \/ Reopen(e)
      PROVE  RetriesAreSafe'
  BY <1>4, JournalAssumption DEF PrepareRetry, Reopen, Goto, rowVars
<1>5. ASSUME NEW e \in Executor, RecordIntent(e)
      PROVE  RetriesAreSafe'
  BY <1>5 DEF RecordIntent, Goto, rowVars
<1>6. ASSUME NEW e \in Executor,
             MarkRunning(e) \/ ExecuteTool(e) \/ MarkFailed(e) \/ RecordResult(e) \/ Crash(e)
      PROVE  RetriesAreSafe'
  BY <1>6 DEF MarkRunning, ExecuteTool, MarkFailed, RecordResult, Crash, UpdateStatus,
              RecordsResult, Goto, rowVars
<1>7. ASSUME NEW r \in Reconciler, ReconcileUncertain(r)
      PROVE  RetriesAreSafe'
  BY <1>7 DEF ReconcileUncertain, UncertainCalls, Reconcile, ReconcileEnds,
              RecordReconciled, Settle, UpdateStatus, RecordsResult, rowVars, executorVars
<1> QED
  BY <1>1, <1>2, <1>3, <1>4, <1>5, <1>6, <1>7 DEF Next, Execute

\* What is about to be recorded, and what is recorded, has happened.
LEMMA ObservedStep ==
    ASSUME JournalInv, [Next]_journalVars
    PROVE  Observed'
<1> USE DEF JournalInv, TypeOK, Observed
<1>1. CASE UNCHANGED journalVars
  BY <1>1 DEF journalVars, rowVars, executorVars, reconcilerVars
<1>2. ASSUME NEW e \in Executor, NEW c \in Call, ReadCall(e, c)
      PROVE  Observed'
  BY <1>2 DEF ReadCall, Goto, rowVars, reconcilerVars
<1>3. ASSUME NEW e \in Executor,
             \/ ReadResult(e) \/ PrepareRetry(e) \/ Reopen(e) \/ RecordIntent(e)
             \/ MarkRunning(e) \/ MarkFailed(e) \/ Crash(e)
      PROVE  Observed'
  BY <1>3 DEF ReadResult, PrepareRetry, Reopen, RecordIntent, MarkRunning, MarkFailed, Crash,
              UpdateStatus, Goto, rowVars, reconcilerVars
<1>4. ASSUME NEW e \in Executor, ExecuteTool(e)
      PROVE  Observed'
  <2>1. PICK effect \in {0, 1} :
            /\ effects' = [effects EXCEPT ![job[e]] = effects[job[e]] + effect]
            /\ \/ effects[job[e]] + effect > 0 /\ Goto(e, "record")
               \/ Goto(e, "fail")
    BY <1>4 DEF ExecuteTool
  <2>2. \A c \in Call : effects'[c] \in Nat /\ effects'[c] >= effects[c]
    BY <2>1
  <2>3. \A d \in Executor : pc'[d] = "record" => effects'[job[d]] > 0
    BY <2>1, <2>2 DEF Goto
  <2> QED
    BY <1>4, <2>2, <2>3 DEF ExecuteTool, rowVars, reconcilerVars
<1>5. ASSUME NEW e \in Executor, RecordResult(e)
      PROVE  Observed'
  BY <1>5 DEF RecordResult, RecordsResult, Goto, rowVars, reconcilerVars
<1>6. ASSUME NEW r \in Reconciler, UncertainCalls(r) \/ ReconcileEnds(r) \/ Settle(r)
      PROVE  Observed'
  BY <1>6 DEF UncertainCalls, ReconcileEnds, Settle, UpdateStatus, GotoReconcile,
              rowVars, executorVars
<1>7. ASSUME NEW r \in Reconciler, Reconcile(r)
      PROVE  Observed'
  BY <1>7 DEF Reconcile, GotoReconcile, rowVars, executorVars
<1>8. ASSUME NEW r \in Reconciler, RecordReconciled(r)
      PROVE  Observed'
  BY <1>8 DEF RecordReconciled, RecordsResult, GotoReconcile, rowVars, executorVars
<1> QED
  BY <1>1, <1>2, <1>3, <1>4, <1>5, <1>6, <1>7, <1>8 DEF Next, Execute, ReconcileUncertain

\* Who looks for a result does not go on when there is one; a result that comes later
\* overtakes those who have looked.
LEMMA LateReopenStep ==
    ASSUME JournalInv, [Next]_journalVars
    PROVE  LateReopen'
<1> USE DEF JournalInv, TypeOK, LateReopen
<1>1. CASE UNCHANGED journalVars
  BY <1>1 DEF journalVars, rowVars, executorVars
<1>2. ASSUME NEW e \in Executor, NEW c \in Call, ReadCall(e, c)
      PROVE  LateReopen'
  BY <1>2 DEF ReadCall, Goto, rowVars
<1>3. ASSUME NEW e \in Executor, ReadResult(e) \/ PrepareRetry(e)
      PROVE  LateReopen'
  BY <1>3 DEF ReadResult, PrepareRetry, HasResult, Goto, rowVars
<1>4. ASSUME NEW e \in Executor, Reopen(e) \/ Crash(e)
      PROVE  LateReopen'
  BY <1>4 DEF Reopen, Crash, Goto
<1>5. ASSUME NEW e \in Executor,
             RecordIntent(e) \/ MarkRunning(e) \/ ExecuteTool(e) \/ MarkFailed(e)
      PROVE  LateReopen'
  BY <1>5 DEF RecordIntent, MarkRunning, ExecuteTool, MarkFailed, UpdateStatus, Goto, rowVars
<1>6. ASSUME NEW e \in Executor, RecordResult(e)
      PROVE  LateReopen'
  BY <1>6 DEF RecordResult, RecordsResult, Goto, rowVars
<1>7. ASSUME NEW r \in Reconciler, ReconcileUncertain(r)
      PROVE  LateReopen'
  BY <1>7 DEF ReconcileUncertain, UncertainCalls, Reconcile, ReconcileEnds,
              RecordReconciled, Settle, UpdateStatus, RecordsResult, rowVars, executorVars
<1> QED
  BY <1>1, <1>2, <1>3, <1>4, <1>5, <1>6, <1>7 DEF Next, Execute

\* The inductive invariant holds initially and is kept by every step.
LEMMA JournalInvariant ==
    Spec => []JournalInv
<1>1. Init => JournalInv
  <2> SUFFICES ASSUME Init PROVE JournalInv
    OBVIOUS
  <2>1. TypeOK
    BY JournalAssumption DEF Init, TypeOK, ToolCallStatus, Uncertain
  <2>2. \A c \in Call : InFlight(c) = {}
    BY DEF Init, InFlight
  <2>3. Covered
    BY <2>2, FS_EmptySet DEF Init, Covered
  <2> QED
    BY <2>1, <2>3 DEF Init, JournalInv, NoIntentNoAttempt, RetriesAreSafe, Observed, LateReopen
<1>2. JournalInv /\ [Next]_journalVars => JournalInv'
  BY TypeStep, CoveredStep, IntentStep, RetryStep, ObservedStep, LateReopenStep DEF JournalInv
<1> QED
  BY <1>1, <1>2, PTL DEF Spec

\* The journal's rows and the locals of execute and reconcile_uncertain keep their types;
\* the status UNCERTAIN, which uncertain_calls also asks for, is never stored.
THEOREM JournalTypeCorrect ==
    Spec => []TypeOK
<1>1. JournalInv => TypeOK
  BY DEF JournalInv
<1> QED
  BY <1>1, JournalInvariant, PTL

\* Every use of a tool is one that record_intent or prepare_retry committed first, for
\* any number of executors and resumes.
THEOREM IntentBeforeEffect ==
    Spec => []AttemptCoversEffects
<1>1. JournalInv => AttemptCoversEffects
  <2> SUFFICES ASSUME JournalInv, NEW c \in Call PROVE effects[c] <= attempt[c]
    BY DEF AttemptCoversEffects
  <2>1. Cardinality(InFlight(c)) \in Nat
    BY InFlightFinite
  <2>2. effects[c] \in Nat /\ attempt[c] \in Nat
    BY JournalAssumption DEF JournalInv, TypeOK
  <2> QED
    BY <2>1, <2>2 DEF JournalInv, Covered
<1> QED
  BY <1>1, JournalInvariant, PTL

\* A tool that is not retry-safe acts at most once for an idempotency key.
THEOREM AtMostOnce ==
    Spec => []NonRetrySafeOnce
<1>1. JournalInv /\ AttemptCoversEffects => NonRetrySafeOnce
  <2> SUFFICES ASSUME JournalInv, AttemptCoversEffects, NEW c \in Call \ RetrySafe
               PROVE  effects[c] <= 1
    BY DEF NonRetrySafeOnce
  <2>1. effects[c] \in Nat /\ attempt[c] \in Nat
    BY JournalAssumption DEF JournalInv, TypeOK
  <2> QED
    BY <2>1 DEF JournalInv, RetriesAreSafe, AttemptCoversEffects
<1> QED
  BY <1>1, JournalInvariant, IntentBeforeEffect, PTL

\* A stored result means that the tool has acted.
THEOREM ResultsAreObservations ==
    Spec => []ResultIsObserved
<1>1. JournalInv => ResultIsObserved
  BY DEF JournalInv, Observed, ResultIsObserved
<1> QED
  BY <1>1, JournalInvariant, PTL

\* A committed result is never lost, and its call is never reopened but by an executor
\* that looked for the result before it was committed.
THEOREM CompletedIsFinal ==
    Spec => CompletedStaysCompleted
<1> DEFINE Kept == \A c \in results :
                      /\ c \in results'
                      /\ \/ attempt'[c] = attempt[c]
                         \/ \E e \in overtaken \ overtaken' : job[e] = c
<1>1. ASSUME JournalInv, [Next]_journalVars
      PROVE  [Kept]_journalVars
  <2> USE <1>1 DEF JournalInv, TypeOK
  <2>1. CASE UNCHANGED journalVars
    BY <2>1
  <2>2. ASSUME NEW e \in Executor, Reopen(e)
        PROVE  Kept
    <3>1. overtaken' = overtaken \ {e} /\ results' = results
      BY <2>2 DEF Reopen
    <3>2. job[e] \in results => e \in overtaken \ overtaken'
      BY <2>2, <3>1 DEF Reopen, LateReopen
    <3>3. \A c \in Call \ {job[e]} : attempt'[c] = attempt[c]
      BY <2>2 DEF Reopen
    <3> QED
      BY <3>1, <3>2, <3>3
  <2>3. ASSUME NEW e \in Executor, RecordIntent(e)
        PROVE  Kept
    <3>1. ASSUME NEW c \in results PROVE status[c] # "absent"
      <4>1. effects[c] > 0 /\ effects[c] \in Nat
        BY <3>1 DEF Observed
      <4>2. Cardinality(InFlight(c)) \in Nat
        BY <3>1, InFlightFinite
      <4>3. attempt[c] # 0
        BY <3>1, <4>1, <4>2, JournalAssumption DEF Covered
      <4> QED
        BY <3>1, <4>3 DEF NoIntentNoAttempt
    <3> QED
      BY <2>3, <3>1 DEF RecordIntent, rowVars
  <2>4. ASSUME NEW e \in Executor,
               \/ \E c \in Call : ReadCall(e, c)
               \/ ReadResult(e) \/ PrepareRetry(e) \/ MarkRunning(e) \/ ExecuteTool(e)
               \/ MarkFailed(e) \/ RecordResult(e) \/ Crash(e)
        PROVE  Kept
    BY <2>4 DEF ReadCall, ReadResult, PrepareRetry, MarkRunning, ExecuteTool, MarkFailed, RecordResult,
                Crash, UpdateStatus, RecordsResult, rowVars
  <2>5. ASSUME NEW r \in Reconciler, ReconcileUncertain(r)
        PROVE  Kept
    BY <2>5 DEF ReconcileUncertain, UncertainCalls, Reconcile, ReconcileEnds,
                RecordReconciled, Settle, UpdateStatus, RecordsResult, rowVars
  <2> QED
    BY <2>1, <2>2, <2>3, <2>4, <2>5 DEF Next, Execute
<1> QED
  BY <1>1, JournalInvariant, PTL DEF Spec, CompletedStaysCompleted
=============================================================================
