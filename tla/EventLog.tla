------------------------------ MODULE EventLog ------------------------------
(***************************************************************************)
(* The audit events of one run: SqlStore.publish and                       *)
(* compact_terminal_events (persistence/store.py).  publish reads the      *)
(* highest sequence and inserts the next one in one transaction, and is    *)
(* repeated when the database reports an error, also when the commit       *)
(* happened and only its answer was lost.  compact_terminal_events         *)
(* replaces the old high-volume events of a terminal run by a tombstone.   *)
(* Time is the order of the publish calls: an event is older than the      *)
(* retention cutoff if its number is at most horizon.                      *)
(***************************************************************************)
EXTENDS Integers, FiniteSets

CONSTANTS
    Publisher,   \* operations that publish events of the run
    Compactor,   \* clean-up processes
    MaxEvents,   \* bound on the publish calls
    MaxAttempts  \* the attempts of one publish call (8)

ASSUME LogAssumption ==
    /\ MaxEvents \in Nat
    /\ MaxAttempts \in Nat /\ MaxAttempts >= 1
    /\ IsFiniteSet(Publisher)
    /\ Publisher \cap Compactor = {} /\ "free" \notin Compactor

VARIABLES
    rows,      \* the EventORM rows, by sequence
    calls,     \* how many publish calls there were: the n-th has event_id n
    terminal,  \* whether the run is in a terminal state
    horizon,   \* the events up to this one are older than the retention cutoff
    pc,        \* what publisher p is about to do
    event,     \* event[p]: the event p publishes
    latest,    \* latest[w]: the highest sequence in w's transaction
    attempts,  \* attempts[p]: how often p's call has tried
    lost,      \* transactions whose connection failed before the answer
    lock,      \* the compactor that holds the run row FOR UPDATE, or "free"
    cpc,       \* what compactor c is about to do
    selected,  \* selected[c]: the sequences that c compacts
    placed,    \* every event that was ever inserted
    returned   \* the events whose publish call has returned

publisherVars == <<calls, pc, event, attempts, lost, returned>>
compactorVars == <<lock, cpc, selected>>
logVars == <<rows, terminal, horizon, latest, placed, publisherVars, compactorVars>>

None == [id |-> 0, kind |-> "tombstone", floor |-> 0]
Event == [id : 1 .. MaxEvents, kind : {"audit", "bulk"}, floor : Nat]

\* One row: an event, or a tombstone with the events of its manifest.
Row == [id : 0 .. MaxEvents, kind : {"audit", "bulk", "tombstone"},
        manifest : SUBSET (1 .. MaxEvents)]

Sequences == DOMAIN rows

IsLatest(n) ==
    \/ Sequences = {} /\ n = 0
    \/ n \in Sequences /\ \A s \in Sequences : s <= n

Init ==
    /\ rows = [s \in {} |-> [id |-> 0, kind |-> "tombstone", manifest |-> {}]]
    /\ calls = 0 /\ terminal = FALSE /\ horizon = 0
    /\ pc = [p \in Publisher |-> "idle"]
    /\ event = [p \in Publisher |-> None]
    /\ latest = [w \in Publisher \cup Compactor |-> 0]
    /\ attempts = [p \in Publisher |-> 0]
    /\ lost = {} /\ lock = "free"
    /\ cpc = [c \in Compactor |-> "idle"]
    /\ selected = [c \in Compactor |-> {}]
    /\ placed = {} /\ returned = {}

Goto(p, label) == pc' = [pc EXCEPT ![p] = label]

(***************************************************************************)
(* publish.                                                                *)
(***************************************************************************)

\* The event gets its id and created_at before the first attempt.
BeginPublish(p) ==
    /\ pc[p] = "idle" /\ calls < MaxEvents
    /\ calls' = calls + 1
    /\ \E kind \in {"audit", "bulk"}, n \in Sequences \cup {0} :
          /\ IsLatest(n)
          /\ event' = [event EXCEPT ![p] = [id |-> calls + 1, kind |-> kind, floor |-> n]]
    /\ attempts' = [attempts EXCEPT ![p] = 1]
    /\ Goto(p, "read")
    /\ UNCHANGED <<rows, terminal, horizon, latest, lost, placed, returned, compactorVars>>

\* publish returns the event_id.
Acknowledge(p) ==
    /\ returned' = returned \cup {event[p].id}
    /\ Goto(p, "idle")
    /\ UNCHANGED attempts

\* A SQLAlchemyError: the next attempt, or ConcurrencyConflictError after the last one.
TryAgain(p) ==
    /\ \/ /\ attempts[p] < MaxAttempts
          /\ attempts' = [attempts EXCEPT ![p] = @ + 1]
          /\ Goto(p, "read")
       \/ /\ attempts[p] = MaxAttempts
          /\ Goto(p, "idle")
          /\ UNCHANGED attempts
    /\ UNCHANGED returned

Stored(id) == \E s \in Sequences : rows[s].id = id

\* Mutant: the next sequence is the number of rows plus one.
ReadLatestByCount(p) ==
    /\ pc[p] = "read"
    /\ \/ Stored(event[p].id) /\ Acknowledge(p) /\ UNCHANGED latest
       \/ /\ ~ Stored(event[p].id)
          /\ latest' = [latest EXCEPT ![p] = Cardinality(Sequences)]
          /\ Goto(p, "insert")
          /\ UNCHANGED <<attempts, returned>>
    /\ UNCHANGED <<rows, calls, terminal, horizon, event, lost, placed, compactorVars>>

\* The reads of an attempt: the event itself, then the highest sequence.
ReadLatest(p) ==
    /\ pc[p] = "read"
    /\ \/ Stored(event[p].id) /\ Acknowledge(p) /\ UNCHANGED latest
       \/ /\ ~ Stored(event[p].id)
          /\ \E n \in Sequences \cup {0} :
                IsLatest(n) /\ latest' = [latest EXCEPT ![p] = n]
          /\ Goto(p, "insert")
          /\ UNCHANGED <<attempts, returned>>
    /\ UNCHANGED <<rows, calls, terminal, horizon, event, lost, placed, compactorVars>>

\* Mutant: only the event_id is unique.
FreeById(e, s) == \A r \in Sequences : rows[r].id # e.id

\* event_id and (run_id, sequence) are unique.
Free(e, s) == s \notin Sequences /\ \A r \in Sequences : rows[r].id # e.id

Place(e, s) ==
    /\ rows' = [r \in Sequences \cup {s} |->
                  IF r = s THEN [id |-> e.id, kind |-> e.kind, manifest |-> {}] ELSE rows[r]]
    /\ placed' = placed \cup {[id |-> e.id, kind |-> e.kind, floor |-> e.floor, sequence |-> s]}

\* The insert and its commit: done, refused, rolled back, or done or still open when the
\* connection fails.
Insert(p) ==
    LET s == latest[p] + 1 IN
    /\ pc[p] = "insert"
    /\ \/ Free(event[p], s) /\ Place(event[p], s) /\ Acknowledge(p) /\ UNCHANGED lost
       \/ Free(event[p], s) /\ Place(event[p], s) /\ TryAgain(p) /\ UNCHANGED lost
       \/ TryAgain(p) /\ UNCHANGED <<rows, placed, lost>>
       \/ /\ TryAgain(p)
          /\ lost' = lost \cup {[event |-> event[p], sequence |-> s]}
          /\ UNCHANGED <<rows, placed>>
    /\ UNCHANGED <<calls, terminal, horizon, event, latest, compactorVars>>

\* The database ends a transaction whose client is gone.
EndLost(t) ==
    /\ lost' = lost \ {t}
    /\ \/ Free(t.event, t.sequence) /\ Place(t.event, t.sequence)
       \/ UNCHANGED <<rows, placed>>
    /\ UNCHANGED <<calls, terminal, horizon, pc, event, latest, attempts, returned,
                   compactorVars>>

\* The process dies, or the call is cancelled.
Crash(p) ==
    /\ pc[p] # "idle"
    /\ Goto(p, "idle")
    /\ UNCHANGED <<rows, calls, terminal, horizon, event, latest, attempts, lost, placed,
                   returned, compactorVars>>

(***************************************************************************)
(* The run and the clock.                                                  *)
(***************************************************************************)

EndRun ==
    /\ ~ terminal /\ terminal' = TRUE
    /\ UNCHANGED <<rows, horizon, latest, placed, publisherVars, compactorVars>>

\* event_retention_days is at least one day, far more than publish calls take: when an
\* event is that old its call is over, and so is every transaction that did not see it.
Age ==
    /\ horizon < calls
    /\ \A p \in Publisher : pc[p] # "idle" => event[p].id # horizon + 1
    /\ \A t \in lost : t.event.id # horizon + 1
    /\ \A s \in Sequences : rows[s].id = horizon + 1 =>
          /\ \A p \in Publisher : pc[p] = "insert" => s <= latest[p]
          /\ \A t \in lost : s < t.sequence
    /\ horizon' = horizon + 1
    /\ UNCHANGED <<rows, terminal, latest, placed, publisherVars, compactorVars>>

(***************************************************************************)
(* compact_terminal_events: one transaction that locks the run row.        *)
(***************************************************************************)

Candidates == {s \in Sequences : rows[s].kind = "bulk" /\ rows[s].id <= horizon}

MayLock == lock = "free"

SelectCandidates(c) ==
    /\ cpc[c] = "idle" /\ MayLock /\ terminal /\ Candidates # {}
    /\ lock' = c
    /\ selected' = [selected EXCEPT ![c] = Candidates]
    /\ cpc' = [cpc EXCEPT ![c] = "latest"]
    /\ UNCHANGED <<rows, terminal, horizon, latest, placed, publisherVars>>

ReadTombstonePosition(c) ==
    /\ cpc[c] = "latest"
    /\ \E n \in Sequences : IsLatest(n) /\ latest' = [latest EXCEPT ![c] = n]
    /\ cpc' = [cpc EXCEPT ![c] = "commit"]
    /\ UNCHANGED <<rows, terminal, horizon, placed, publisherVars, lock, selected>>

Release(c) ==
    /\ lock' = "free"
    /\ cpc' = [cpc EXCEPT ![c] = "idle"]
    /\ selected' = [selected EXCEPT ![c] = {}]

\* Mutant: the delete repeats the condition instead of naming the rows.
DeletedByAge(c) == Candidates

\* The rows that the delete removes.
Deleted(c) == selected[c]

\* The tombstone is inserted and the rows deleted, or the transaction fails: it has no
\* second attempt.
Compact(c) ==
    LET s == latest[c] + 1 IN
    /\ cpc[c] = "commit"
    /\ \/ /\ s \notin Sequences \ Deleted(c)
          /\ rows' = [r \in (Sequences \ Deleted(c)) \cup {s} |->
                        IF r = s THEN [id |-> 0, kind |-> "tombstone",
                                       manifest |-> {rows[q].id : q \in selected[c]}]
                                 ELSE rows[r]]
          /\ placed' = placed \cup {[id |-> 0, kind |-> "tombstone", floor |-> 0,
                                     sequence |-> s]}
       \/ UNCHANGED <<rows, placed>>
    /\ Release(c)
    /\ UNCHANGED <<terminal, horizon, latest, publisherVars>>

Publish(p) == BeginPublish(p) \/ ReadLatest(p) \/ Insert(p)
CompactTerminalEvents(c) == SelectCandidates(c) \/ ReadTombstonePosition(c) \/ Compact(c)

Next ==
    \/ \E p \in Publisher : Publish(p) \/ Crash(p)
    \/ \E t \in lost : EndLost(t)
    \/ \E c \in Compactor : CompactTerminalEvents(c)
    \/ EndRun \/ Age

Spec == Init /\ [][Next]_logVars

(***************************************************************************)
(* Properties.                                                             *)
(***************************************************************************)

TypeOK ==
    /\ Sequences \subseteq Nat \ {0} /\ rows \in [Sequences -> Row]
    /\ calls \in 0 .. MaxEvents /\ terminal \in BOOLEAN /\ horizon \in 0 .. calls
    /\ pc \in [Publisher -> {"idle", "read", "insert"}]
    /\ event \in [Publisher -> Event \cup {None}]
    /\ latest \in [Publisher \cup Compactor -> Nat]
    /\ attempts \in [Publisher -> 0 .. MaxAttempts]
    /\ lost \subseteq [event : Event, sequence : Nat \ {0}]
    /\ lock \in Compactor \cup {"free"}
    /\ cpc \in [Compactor -> {"idle", "latest", "commit"}]
    /\ selected \in [Compactor -> SUBSET Sequences]
    /\ returned \subseteq 1 .. calls

\* However attempts are repeated after a lost answer, and whatever was compacted
\* meanwhile: an event is inserted at most once, a sequence is never given out twice, and
\* an event whose id publish returned was inserted.
PlacedOnce ==
    /\ \A x, y \in placed :
          x.sequence = y.sequence \/ (x.id = y.id /\ x.id # 0) => x = y
    /\ returned \subseteq {x.id : x \in placed}

\* "ordered audit writes preserve causality": an event is placed after every event that
\* was there when its publish call began.
CausalOrder == \A x \in placed : x.sequence > x.floor

\* "a digest tombstone for every compacted range": a stored event is in the log or in the
\* manifest of exactly one tombstone, and an audit event is in the log.
DeletionsAccounted ==
    \A x \in placed : x.id # 0 =>
        /\ Cardinality({s \in Sequences : rows[s].id = x.id \/ x.id \in rows[s].manifest}) = 1
        /\ x.kind = "audit" => Stored(x.id)
=============================================================================
