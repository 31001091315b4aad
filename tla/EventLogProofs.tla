--------------------------- MODULE EventLogProofs ---------------------------
(***************************************************************************)
(* Safety of the event log for every number of publishers, clean-up        *)
(* processes, events and attempts.                                         *)
(***************************************************************************)
EXTENDS EventLog, FiniteSetTheorems, TLAPS

-----------------------------------------------------------------------------
\* The log only grows at its end: a sequence that was reached stays behind the last row.
Reached(n) == \E s \in Sequences : n <= s

Placement ==
    [id : 0 .. MaxEvents, kind : {"audit", "bulk", "tombstone"}, floor : Nat,
     sequence : Nat \ {0}]

InLog(x) ==
    /\ x.sequence \in Sequences
    /\ rows[x.sequence].id = x.id /\ rows[x.sequence].kind = x.kind

\* The row s accounts for the event id: it is the event, or its tombstone.
Holds(s, id) == rows[s].id = id \/ id \in rows[s].manifest

\* A row was inserted; a tombstone has no id and stands for old events.
RowOK(s) ==
    /\ \E x \in placed :
          x.sequence = s /\ x.id = rows[s].id /\ x.kind = rows[s].kind
    /\ rows[s].kind = "tombstone" => rows[s].id = 0 /\ rows[s].manifest \subseteq 1 .. horizon
    /\ rows[s].kind # "tombstone" => rows[s].id # 0 /\ rows[s].manifest = {}

\* What was inserted is in the log, or is an old bulk event; nothing is forgotten.
PlacementOK(x) ==
    /\ x \in Placement /\ x.sequence > x.floor /\ Reached(x.sequence)
    /\ InLog(x) \/ (x.kind = "bulk" /\ x.id \in 1 .. horizon)
    /\ x.id # 0 => \E s \in Sequences : Holds(s, x.id)

\* An insert at position s comes after every event that may be deleted.
PastOld(s) == \A x \in placed : x.id \in 1 .. horizon => x.sequence < s

\* An event that is still being published is not old.
PublisherOK(p) ==
    /\ pc[p] # "idle" =>
          /\ event[p] \in Event /\ event[p].id \in 1 .. calls /\ event[p].id > horizon
          /\ event[p].floor = 0 \/ Reached(event[p].floor)
    /\ pc[p] = "insert" => latest[p] >= event[p].floor /\ PastOld(latest[p] + 1)

LostOK(t) ==
    /\ t.event.id \in 1 .. calls /\ t.event.id > horizon
    /\ t.sequence > t.event.floor /\ PastOld(t.sequence)

\* The holder of the lock is the only one that deletes.
CompactorOK(c) ==
    /\ cpc[c] # "idle" => lock = c
    /\ cpc[c] = "idle" => selected[c] = {}
    /\ \A q \in selected[c] :
          q \in Sequences /\ rows[q].kind = "bulk" /\ rows[q].id \in 1 .. horizon
    /\ cpc[c] = "commit" =>
          /\ \A q \in selected[c] : q <= latest[c]
          /\ \A x \in placed : InLog(x) \/ x.sequence <= latest[c]

HeldOnce ==
    \A s, r \in Sequences : \A id \in 1 .. MaxEvents : Holds(s, id) /\ Holds(r, id) => s = r

PlacedUnique ==
    \A x, y \in placed : x.sequence = y.sequence \/ (x.id = y.id /\ x.id # 0) => x = y

StoreType ==
    /\ Sequences \subseteq Nat \ {0} /\ rows \in [Sequences -> Row]
    /\ calls \in 0 .. MaxEvents /\ horizon \in 0 .. calls

StoreInv ==
    /\ StoreType /\ HeldOnce /\ PlacedUnique
    /\ \A s \in Sequences : RowOK(s)
    /\ \A x \in placed : PlacementOK(x)

PublisherType ==
    /\ pc \in [Publisher -> {"idle", "read", "insert"}]
    /\ event \in [Publisher -> Event \cup {None}]
    /\ attempts \in [Publisher -> 0 .. MaxAttempts]
    /\ lost \subseteq [event : Event, sequence : Nat \ {0}]
    /\ returned \subseteq 1 .. calls
    /\ returned \subseteq {x.id : x \in placed}

PublisherInv ==
    /\ PublisherType
    /\ \A p \in Publisher : PublisherOK(p)
    /\ \A t \in lost : LostOK(t)

CompactorInv ==
    /\ lock \in Compactor \cup {"free"}
    /\ cpc \in [Compactor -> {"idle", "latest", "commit"}]
    /\ selected \in [Compactor -> SUBSET Sequences]
    /\ \A c \in Compactor : CompactorOK(c)

LatestType == latest \in [Publisher \cup Compactor -> Nat] /\ terminal \in BOOLEAN

LogInv == StoreInv /\ PublisherInv /\ CompactorInv /\ LatestType

-----------------------------------------------------------------------------
\* What a step leaves to the others.

\* Positions that were reached and positions past the old events stay so.
Kept ==
    /\ UNCHANGED horizon /\ calls' \in Nat /\ calls' >= calls
    /\ \A n \in Nat : Reached(n) => Reached(n)'
    /\ \A n \in Nat : PastOld(n) => PastOld(n)'

LEMMA RowsKept ==
    ASSUME UNCHANGED <<rows, placed, horizon>>
    PROVE  /\ \A n : Reached(n)' = Reached(n)
           /\ \A n : PastOld(n)' = PastOld(n)
           /\ \A x : InLog(x)' = InLog(x)
           /\ \A s, id : Holds(s, id)' = Holds(s, id)
           /\ \A s : RowOK(s)' = RowOK(s)
           /\ \A x : PlacementOK(x)' = PlacementOK(x)
           /\ HeldOnce' = HeldOnce /\ PlacedUnique' = PlacedUnique
  BY DEF Reached, PastOld, InLog, Holds, RowOK, PlacementOK, HeldOnce, PlacedUnique, Sequences

\* The store when only a call begins.
LEMMA StoreStays ==
    ASSUME StoreInv, UNCHANGED <<rows, placed, horizon>>, calls' \in calls .. MaxEvents
    PROVE  StoreInv' /\ Kept
<1>1. StoreType'
  BY DEF StoreInv, StoreType, Sequences
<1>2. Kept
  BY RowsKept DEF Kept, StoreInv, StoreType
<1>3. HeldOnce' /\ PlacedUnique'
  BY RowsKept DEF StoreInv
<1>4. \A s \in Sequences' : RowOK(s)'
  BY RowsKept DEF StoreInv, Sequences
<1>5. \A x \in placed' : PlacementOK(x)'
  BY RowsKept DEF StoreInv
<1> QED
  BY <1>1, <1>2, <1>3, <1>4, <1>5 DEF StoreInv

\* The clean-up processes see their rows as long as nobody deletes.
LEMMA CompactorsStay ==
    ASSUME StoreInv, CompactorInv, UNCHANGED <<lock, cpc, selected>>, UNCHANGED horizon,
           Sequences \subseteq Sequences', \A s \in Sequences : rows'[s] = rows[s],
           \A c \in Compactor : latest'[c] = latest[c],
           \A x \in placed' : x \in placed \/ InLog(x)'
    PROVE  CompactorInv'
<1>1. \A x \in placed : InLog(x) => InLog(x)'
  BY DEF InLog
<1>2. ASSUME NEW c \in Compactor PROVE CompactorOK(c)'
  <2>1. CompactorOK(c)
    BY DEF CompactorInv
  <2> QED
    BY <1>1, <2>1 DEF CompactorOK
<1>3. selected' \in [Compactor -> SUBSET Sequences']
  BY DEF CompactorInv
<1> QED
  BY <1>2, <1>3 DEF CompactorInv

\* The publishers that do not move.
LEMMA PublishersKept ==
    ASSUME StoreInv, PublisherInv, LatestType, Kept, NEW S \in SUBSET Publisher,
           \A p \in Publisher \ S :
              pc'[p] = pc[p] /\ event'[p] = event[p] /\ latest'[p] = latest[p]
    PROVE  /\ \A p \in Publisher \ S : PublisherOK(p)'
           /\ \A t \in lost : LostOK(t)'
<1>0. calls \in Nat /\ horizon \in Nat
  BY LogAssumption DEF StoreInv, StoreType
<1>1. ASSUME NEW p \in Publisher \ S PROVE PublisherOK(p)'
  <2>1. PublisherOK(p) /\ latest[p] + 1 \in Nat
    BY DEF PublisherInv, LatestType
  <2>2. event[p] \in Event => event[p].floor \in Nat /\ event[p].id \in Nat
    BY DEF Event
  <2>3. pc[p] # "idle" =>
          /\ event[p] \in Event /\ event[p].id \in 1 .. calls' /\ event[p].id > horizon
          /\ event[p].floor = 0 \/ Reached(event[p].floor)'
    BY <1>0, <2>1, <2>2 DEF PublisherOK, Kept
  <2>4. pc[p] = "insert" => latest[p] >= event[p].floor /\ PastOld(latest[p] + 1)'
    BY <2>1 DEF PublisherOK, Kept
  <2>5. pc'[p] = pc[p] /\ event'[p] = event[p] /\ latest'[p] = latest[p] /\ horizon' = horizon
    BY DEF Kept
  <2> QED
    BY <2>3, <2>4, <2>5 DEF PublisherOK
<1>2. ASSUME NEW t \in lost PROVE LostOK(t)'
  <2>1. LostOK(t) /\ t \in [event : Event, sequence : Nat \ {0}]
    BY DEF PublisherInv, PublisherType
  <2>2. t.sequence \in Nat /\ t.event.id \in Nat
    BY <2>1 DEF Event
  <2> QED
    BY <1>0, <2>1, <2>2 DEF LostOK, Kept
<1> QED
  BY <1>1, <1>2

-----------------------------------------------------------------------------
\* publish.

\* An event that is still being published, inserted past the old events.
LEMMA PlaceSafe ==
    ASSUME StoreInv, NEW e \in Event, NEW s \in Nat \ {0}, e.id > horizon, e.id \in 1 .. calls,
           s > e.floor, PastOld(s), Free(e, s), Place(e, s), UNCHANGED <<horizon, calls>>
    PROVE  /\ StoreInv' /\ Kept
           /\ Sequences \subseteq Sequences' /\ \A r \in Sequences : rows'[r] = rows[r]
           /\ \A x \in placed' : x \in placed \/ InLog(x)'
           /\ placed \subseteq placed' /\ \E x \in placed' : x.id = e.id
<1> DEFINE new == [id |-> e.id, kind |-> e.kind, floor |-> e.floor, sequence |-> s]
           row == [id |-> e.id, kind |-> e.kind, manifest |-> {}]
<1>0. /\ Sequences \subseteq Nat \ {0} /\ rows \in [Sequences -> Row]
      /\ calls \in Nat /\ horizon \in Nat /\ MaxEvents \in Nat
      /\ e.id \in 1 .. MaxEvents /\ e.kind \in {"audit", "bulk"} /\ e.floor \in Nat
  BY LogAssumption DEF StoreInv, StoreType, Event
<1>1. /\ Sequences' = Sequences \cup {s} /\ s \notin Sequences
      /\ rows'[s] = row /\ \A r \in Sequences : rows'[r] = rows[r]
  BY DEF Place, Free, Sequences
<1>2. placed' = placed \cup {new}
  BY DEF Place
<1> HIDE DEF new, row
<1>3. /\ new.id = e.id /\ new.kind = e.kind /\ new.floor = e.floor /\ new.sequence = s
      /\ row.id = e.id /\ row.kind = e.kind /\ row.manifest = {}
      /\ new \in Placement /\ row \in Row
  BY <1>0 DEF new, row, Placement, Row
<1>4. ASSUME NEW x \in placed PROVE x.sequence # s /\ x.id # e.id /\ PlacementOK(x)
  <2>1. PlacementOK(x)
    BY DEF StoreInv
  <2>2. CASE InLog(x)
    BY <1>1, <2>1, <2>2 DEF InLog, Free
  <2>3. CASE x.id \in 1 .. horizon
    <3>1. x.sequence < s /\ x.id <= horizon
      BY <1>0, <2>3 DEF PastOld
    <3>2. x.sequence \in Nat /\ x.id \in Nat
      BY <2>1 DEF PlacementOK, Placement
    <3> QED
      BY <1>0, <2>1, <3>1, <3>2
  <2> QED
    BY <2>1, <2>2, <2>3 DEF PlacementOK
<1>5. ASSUME NEW r \in Sequences PROVE ~Holds(r, e.id)
  <2>1. RowOK(r) /\ rows[r].id # e.id
    BY DEF StoreInv, Free
  <2>2. e.id \notin 1 .. horizon
    BY <1>0
  <2> QED
    BY <2>1, <2>2 DEF RowOK, Holds
<1>6. /\ \A r \in Sequences : \A id : Holds(r, id)' <=> Holds(r, id)
      /\ \A id \in 1 .. MaxEvents : Holds(s, id)' <=> id = e.id
  BY <1>1, <1>3 DEF Holds
<1>7. HeldOnce'
  BY <1>1, <1>5, <1>6 DEF StoreInv, HeldOnce
<1>8. \A n : Reached(n) => Reached(n)'
  BY <1>1 DEF Reached
<1>9. \A n \in Nat : PastOld(n) => PastOld(n)'
  <2>1. new.id \notin 1 .. horizon
    BY <1>0, <1>3
  <2> QED
    BY <1>2, <2>1 DEF PastOld
<1>10. StoreType'
  <2>1. rows' \in [Sequences' -> Row]
    BY <1>0, <1>1, <1>3 DEF Place, Sequences, row
  <2> QED
    BY <1>0, <1>1, <2>1 DEF StoreInv, StoreType
<1>11. ASSUME NEW r \in Sequences' PROVE RowOK(r)'
  <2>1. CASE r \in Sequences
    BY <1>1, <1>2, <2>1 DEF RowOK, StoreInv
  <2>2. CASE r = s
    BY <1>0, <1>1, <1>2, <1>3, <2>2 DEF RowOK
  <2> QED
    BY <1>1, <2>1, <2>2
<1>12. InLog(new)'
  BY <1>1, <1>3 DEF InLog
<1>13. ASSUME NEW x \in placed' PROVE PlacementOK(x)'
  <2>1. CASE x \in placed
    <3>1. PlacementOK(x)
      BY <1>4, <2>1
    <3>2. InLog(x) => InLog(x)'
      BY <1>1 DEF InLog
    <3>3. x.id # 0 => \E r \in Sequences : Holds(r, x.id)
      BY <3>1 DEF PlacementOK
    <3>4. x.id # 0 => \E r \in Sequences' : Holds(r, x.id)'
      BY <1>1, <1>6, <3>3
    <3> QED
      BY <1>8, <3>1, <3>2, <3>4 DEF PlacementOK
  <2>2. CASE x = new
    <3>1. Reached(s)' /\ Holds(s, e.id)'
      BY <1>0, <1>1, <1>6 DEF Reached
    <3> QED
      BY <1>1, <1>3, <1>12, <2>2, <3>1 DEF PlacementOK
  <2> QED
    BY <1>2, <2>1, <2>2
<1>14. PlacedUnique'
  BY <1>2, <1>3, <1>4 DEF StoreInv, PlacedUnique
<1>15. Kept
  BY <1>0, <1>8, <1>9 DEF Kept
<1> QED
  BY <1>1, <1>2, <1>3, <1>7, <1>10, <1>11, <1>12, <1>13, <1>14, <1>15 DEF StoreInv

\* The highest sequence is past everything that was reached.
LEMMA LatestIsLast ==
    ASSUME StoreInv, NEW n \in Sequences \cup {0}, IsLatest(n)
    PROVE  /\ n \in Nat /\ (n = 0 \/ Reached(n))
           /\ \A m \in Nat : Reached(m) => m <= n
           /\ \A x \in placed : x.sequence \in Nat /\ x.sequence <= n
           /\ PastOld(n + 1)
<1>1. Sequences \subseteq Nat \ {0} /\ n \in Nat
  BY DEF StoreInv, StoreType
<1>2. \A m \in Nat : Reached(m) => m <= n
  BY <1>1 DEF IsLatest, Reached
<1>3. \A x \in placed : x.sequence \in Nat /\ x.sequence <= n
  BY <1>2 DEF StoreInv, PlacementOK, Placement
<1>4. n = 0 \/ Reached(n)
  BY <1>1 DEF Reached
<1>5. PastOld(n + 1)
  BY <1>1, <1>3 DEF PastOld
<1> QED
  BY <1>1, <1>2, <1>3, <1>4, <1>5

LEMMA BeginPublishSafe ==
    ASSUME LogInv, NEW p \in Publisher, BeginPublish(p)
    PROVE  LogInv'
<1> USE DEF LogInv
<1>0. calls \in Nat /\ horizon \in Nat /\ horizon <= calls /\ MaxEvents \in Nat /\ calls < MaxEvents
  BY LogAssumption DEF StoreInv, StoreType, BeginPublish
<1>1. PICK kind \in {"audit", "bulk"}, n \in Sequences \cup {0} :
        /\ IsLatest(n)
        /\ event' = [event EXCEPT ![p] = [id |-> calls + 1, kind |-> kind, floor |-> n]]
  BY DEF BeginPublish
<1> DEFINE e == [id |-> calls + 1, kind |-> kind, floor |-> n]
<1>2. n \in Nat /\ (n = 0 \/ Reached(n))
  BY <1>1, LatestIsLast
<1>3. e \in Event /\ e.id = calls + 1 /\ e.floor = n
  BY <1>0, <1>2 DEF Event
<1>4. /\ UNCHANGED <<rows, placed, horizon, terminal, latest, lost, returned, lock, cpc, selected>>
      /\ calls' = calls + 1 /\ pc' = [pc EXCEPT ![p] = "read"]
      /\ attempts' = [attempts EXCEPT ![p] = 1]
  BY DEF BeginPublish, Goto, compactorVars
<1> HIDE DEF e
<1>5. StoreInv' /\ Kept
  <2>1. calls' \in calls .. MaxEvents
    BY <1>0, <1>4
  <2> QED
    BY <1>4, <2>1, StoreStays
<1>6. /\ pc'[p] = "read" /\ event'[p] = e
      /\ \A q \in Publisher \ {p} : pc'[q] = pc[q] /\ event'[q] = event[q] /\ latest'[q] = latest[q]
  BY <1>1, <1>4 DEF PublisherInv, PublisherType, e
<1>7. /\ \A q \in Publisher \ {p} : PublisherOK(q)'
      /\ \A t \in lost : LostOK(t)'
  <2>1. {p} \in SUBSET Publisher
    OBVIOUS
  <2> QED
    BY <1>5, <1>6, <2>1, PublishersKept
<1>8. PublisherOK(p)'
  <2>1. n = 0 \/ Reached(n)'
    BY <1>2, <1>5 DEF Kept
  <2>2. e.id \in 1 .. calls' /\ e.id > horizon'
    BY <1>0, <1>3, <1>4
  <2> QED
    BY <1>3, <1>6, <2>1, <2>2 DEF PublisherOK
<1>9. PublisherType'
  <2>1. 1 \in 0 .. MaxAttempts
    BY LogAssumption
  <2>2. event' \in [Publisher -> Event \cup {None}] /\ attempts' \in [Publisher -> 0 .. MaxAttempts]
    BY <1>1, <1>3, <1>4, <2>1 DEF PublisherInv, PublisherType, e
  <2>3. returned' \subseteq 1 .. calls'
    BY <1>0, <1>4 DEF PublisherInv, PublisherType
  <2> QED
    BY <1>4, <2>2, <2>3 DEF PublisherInv, PublisherType
<1>10. PublisherInv'
  BY <1>4, <1>7, <1>8, <1>9 DEF PublisherInv
<1>11. CompactorInv'
  <2>1. \A c \in Compactor : latest'[c] = latest[c]
    BY <1>4
  <2>2. Sequences \subseteq Sequences' /\ \A s \in Sequences : rows'[s] = rows[s]
    BY <1>4 DEF Sequences
  <2> QED
    BY <1>4, <2>1, <2>2, CompactorsStay
<1>12. LatestType'
  BY <1>4 DEF LatestType
<1> QED
  BY <1>5, <1>10, <1>11, <1>12

\* A step of p within its call: what the others see, and what remains to be shown.
LEMMA PublisherStep ==
    ASSUME LogInv, NEW p \in Publisher, StoreInv', Kept,
           UNCHANGED <<calls, horizon, terminal, event, compactorVars>>,
           Sequences \subseteq Sequences', \A s \in Sequences : rows'[s] = rows[s],
           \A x \in placed' : x \in placed \/ InLog(x)', placed \subseteq placed',
           pc' \in [Publisher -> {"idle", "read", "insert"}],
           latest' \in [Publisher \cup Compactor -> Nat],
           \A q \in Publisher \ {p} : pc'[q] = pc[q] /\ latest'[q] = latest[q],
           \A c \in Compactor : latest'[c] = latest[c],
           attempts' \in [Publisher -> 0 .. MaxAttempts],
           returned' \subseteq returned \cup {event[p].id},
           returned' \subseteq 1 .. calls, returned' \subseteq {x.id : x \in placed'},
           PublisherOK(p)',
           lost' \subseteq [event : Event, sequence : Nat \ {0}],
           \A t \in lost' : t \in lost \/ LostOK(t)'
    PROVE  LogInv'
<1> USE DEF LogInv
<1>1. \A q \in Publisher \ {p} : PublisherOK(q)'
  BY PublishersKept
<1>2. \A t \in lost : LostOK(t)'
  BY PublishersKept
<1>3. PublisherInv'
  <2>1. PublisherType'
    BY DEF PublisherInv, PublisherType
  <2> QED
    BY <1>1, <1>2, <2>1 DEF PublisherInv
<1>4. CompactorInv'
  BY CompactorsStay DEF compactorVars
<1>5. LatestType'
  BY DEF LatestType
<1> QED
  BY <1>3, <1>4, <1>5

\* The call goes on with another attempt or it is over.
LEMMA AttemptEnds ==
    ASSUME LogInv, NEW p \in Publisher, Kept, UNCHANGED <<calls, event>>, pc[p] # "idle",
           \/ Acknowledge(p) \/ TryAgain(p)
           \/ Goto(p, "idle") /\ UNCHANGED <<attempts, returned>>
    PROVE  /\ pc' \in [Publisher -> {"idle", "read", "insert"}]
           /\ \A q \in Publisher \ {p} : pc'[q] = pc[q]
           /\ attempts' \in [Publisher -> 0 .. MaxAttempts]
           /\ returned' \subseteq returned \cup {event[p].id}
           /\ returned' \subseteq 1 .. calls
           /\ event[p] \in Event /\ event[p].id \in 1 .. calls /\ event[p].id > horizon
           /\ PublisherOK(p)'
<1> USE DEF LogInv
<1>1. /\ pc \in [Publisher -> {"idle", "read", "insert"}]
      /\ attempts \in [Publisher -> 0 .. MaxAttempts]
      /\ returned \subseteq 1 .. calls
      /\ MaxAttempts \in Nat
  BY LogAssumption DEF PublisherInv, PublisherType
<1>2. /\ event[p] \in Event /\ event[p].id \in 1 .. calls /\ event[p].id > horizon
      /\ event[p].floor = 0 \/ Reached(event[p].floor)
  BY DEF PublisherInv, PublisherOK
<1>3. pc' = [pc EXCEPT ![p] = "idle"] \/ pc' = [pc EXCEPT ![p] = "read"]
  BY DEF Acknowledge, TryAgain, Goto
<1>4. attempts' \in [Publisher -> 0 .. MaxAttempts]
  <2>1. attempts' = attempts
        \/ (attempts[p] < MaxAttempts /\ attempts' = [attempts EXCEPT ![p] = attempts[p] + 1])
    BY <1>1 DEF Acknowledge, TryAgain
  <2>2. attempts[p] \in 0 .. MaxAttempts
    BY <1>1
  <2>3. attempts[p] < MaxAttempts => attempts[p] + 1 \in 0 .. MaxAttempts
    BY <1>1, <2>2
  <2> QED
    BY <1>1, <2>1, <2>3
<1>5. returned' \subseteq returned \cup {event[p].id}
  BY DEF Acknowledge, TryAgain
<1>6. pc'[p] # "insert" /\ event'[p] = event[p]
  BY <1>1, <1>3
<1>7. event[p].floor = 0 \/ Reached(event[p].floor)'
  BY <1>2 DEF Kept, Event
<1>8. PublisherOK(p)'
  BY <1>2, <1>6, <1>7 DEF PublisherOK, Kept
<1> QED
  BY <1>1, <1>2, <1>3, <1>4, <1>5, <1>8

LEMMA ReadLatestSafe ==
    ASSUME LogInv, NEW p \in Publisher, ReadLatest(p)
    PROVE  LogInv'
<1> USE DEF LogInv
<1>0. /\ pc[p] = "read"
      /\ UNCHANGED <<rows, calls, terminal, horizon, event, lost, placed, compactorVars>>
  BY DEF ReadLatest
<1>1. StoreInv' /\ Kept
  <2>1. calls' \in calls .. MaxEvents
    BY <1>0, LogAssumption DEF StoreInv, StoreType
  <2> QED
    BY <1>0, <2>1, StoreStays
<1>2. Sequences \subseteq Sequences' /\ \A s \in Sequences : rows'[s] = rows[s]
  BY <1>0 DEF Sequences
<1>3. /\ lost' \subseteq [event : Event, sequence : Nat \ {0}] /\ lost' = lost
      /\ returned \subseteq {x.id : x \in placed} /\ returned \subseteq 1 .. calls
      /\ latest \in [Publisher \cup Compactor -> Nat]
      /\ pc \in [Publisher -> {"idle", "read", "insert"}]
      /\ attempts \in [Publisher -> 0 .. MaxAttempts]
  BY <1>0 DEF PublisherInv, PublisherType, LatestType
<1>4. CASE Stored(event[p].id) /\ Acknowledge(p) /\ UNCHANGED latest
  <2>1. event[p].id \in {x.id : x \in placed}
    BY <1>4 DEF Stored, StoreInv, RowOK
  <2>2. returned' \subseteq {x.id : x \in placed'}
    BY <1>0, <1>3, <1>4, <2>1 DEF Acknowledge
  <2> QED
    BY <1>0, <1>1, <1>2, <1>3, <1>4, <2>2, AttemptEnds, PublisherStep
<1>5. CASE /\ \E n \in Sequences \cup {0} :
                 IsLatest(n) /\ latest' = [latest EXCEPT ![p] = n]
           /\ Goto(p, "insert") /\ UNCHANGED <<attempts, returned>>
  <2>1. PICK n \in Sequences \cup {0} : IsLatest(n) /\ latest' = [latest EXCEPT ![p] = n]
    BY <1>5
  <2>2. /\ n \in Nat /\ PastOld(n + 1)
        /\ \A m \in Nat : Reached(m) => m <= n
    BY <2>1, LatestIsLast
  <2>3. /\ event[p] \in Event /\ event[p].id \in 1 .. calls /\ event[p].id > horizon
        /\ event[p].floor = 0 \/ Reached(event[p].floor)
    BY <1>0 DEF PublisherInv, PublisherOK
  <2>4. event[p].floor \in Nat /\ event[p].floor <= n
    BY <2>2, <2>3 DEF Event
  <2>5. /\ pc'[p] = "insert" /\ event'[p] = event[p] /\ latest'[p] = n
        /\ pc' \in [Publisher -> {"idle", "read", "insert"}]
        /\ latest' \in [Publisher \cup Compactor -> Nat]
        /\ \A q \in Publisher \ {p} : pc'[q] = pc[q] /\ latest'[q] = latest[q]
        /\ \A c \in Compactor : latest'[c] = latest[c]
    BY <1>0, <1>3, <1>5, <2>1, <2>2, LogAssumption DEF Goto
  <2>6. PublisherOK(p)'
    <3>1. event[p].floor = 0 \/ Reached(event[p].floor)'
      BY <1>0, <2>3, RowsKept
    <3>2. PastOld(n + 1)'
      BY <1>0, <2>2, RowsKept
    <3>3. calls' = calls /\ horizon' = horizon
      BY <1>0
    <3> QED
      BY <2>3, <2>4, <2>5, <3>1, <3>2, <3>3, <2>2 DEF PublisherOK
  <2> QED
    BY <1>0, <1>1, <1>2, <1>3, <1>5, <2>5, <2>6, PublisherStep
<1> QED
  BY <1>4, <1>5 DEF ReadLatest

LEMMA InsertSafe ==
    ASSUME LogInv, NEW p \in Publisher, Insert(p)
    PROVE  LogInv'
<1> USE DEF LogInv
<1> DEFINE s == latest[p] + 1
           t == [event |-> event[p], sequence |-> s]
<1>0. /\ pc[p] = "insert" /\ pc[p] # "idle"
      /\ UNCHANGED <<calls, terminal, horizon, event, latest, compactorVars>>
      /\ UNCHANGED <<calls, event>> /\ UNCHANGED <<horizon, calls>>
  BY DEF Insert
<1>1. /\ returned \subseteq {x.id : x \in placed} /\ returned \subseteq 1 .. calls
      /\ latest \in [Publisher \cup Compactor -> Nat] /\ latest' = latest
      /\ lost \subseteq [event : Event, sequence : Nat \ {0}]
  BY <1>0 DEF PublisherInv, PublisherType, LatestType
<1>2. /\ event[p] \in Event /\ event[p].id \in 1 .. calls /\ event[p].id > horizon
      /\ latest[p] >= event[p].floor /\ PastOld(s)
  BY <1>0 DEF PublisherInv, PublisherOK
<1>3. s \in Nat \ {0} /\ s > event[p].floor
  BY <1>1, <1>2 DEF Event
<1>4. CASE Free(event[p], s) /\ Place(event[p], s) /\ (Acknowledge(p) \/ TryAgain(p)) /\ UNCHANGED lost
  <2>1. /\ StoreInv' /\ Kept
        /\ Sequences \subseteq Sequences' /\ \A r \in Sequences : rows'[r] = rows[r]
        /\ \A x \in placed' : x \in placed \/ InLog(x)'
        /\ placed \subseteq placed' /\ \E x \in placed' : x.id = event[p].id
    <3> HIDE DEF s
    <3> QED
      BY <1>0, <1>2, <1>3, <1>4, PlaceSafe
  <2>2. returned' \subseteq {x.id : x \in placed'}
    BY <1>1, <1>4, <2>1 DEF Acknowledge, TryAgain
  <2>3. /\ pc' \in [Publisher -> {"idle", "read", "insert"}]
        /\ \A q \in Publisher \ {p} : pc'[q] = pc[q]
        /\ attempts' \in [Publisher -> 0 .. MaxAttempts]
        /\ returned' \subseteq returned \cup {event[p].id}
        /\ returned' \subseteq 1 .. calls /\ PublisherOK(p)'
    BY <1>0, <1>4, <2>1, AttemptEnds
  <2> QED
    BY <1>0, <1>1, <1>4, <2>1, <2>2, <2>3, PublisherStep
<1>5. CASE /\ TryAgain(p) /\ UNCHANGED <<rows, placed>>
           /\ lost' = lost \/ lost' = lost \cup {t}
  <2>1. StoreInv' /\ Kept
    <3>1. calls' \in calls .. MaxEvents
      BY <1>0, LogAssumption DEF StoreInv, StoreType
    <3> QED
      BY <1>0, <1>5, <3>1, StoreStays
  <2>2. Sequences \subseteq Sequences' /\ \A r \in Sequences : rows'[r] = rows[r]
    BY <1>5 DEF Sequences
  <2>3. /\ pc' \in [Publisher -> {"idle", "read", "insert"}]
        /\ \A q \in Publisher \ {p} : pc'[q] = pc[q]
        /\ attempts' \in [Publisher -> 0 .. MaxAttempts]
        /\ returned' \subseteq 1 .. calls /\ PublisherOK(p)'
    BY <1>0, <1>5, <2>1, AttemptEnds
  <2>4. returned' = returned
    BY <1>5 DEF TryAgain
  <2>5. ASSUME NEW u, u = t PROVE LostOK(u)'
    <3>1. u.event = event[p] /\ u.sequence = s
      BY <2>5
    <3>2. PastOld(u.sequence)'
      BY <1>0, <1>2, <1>5, <3>1, RowsKept
    <3> QED
      BY <1>0, <1>2, <1>3, <3>1, <3>2 DEF LostOK
  <2>6. t \in [event : Event, sequence : Nat \ {0}]
    BY <1>2, <1>3
  <2> HIDE DEF t
  <2>7. /\ lost' \subseteq [event : Event, sequence : Nat \ {0}]
        /\ \A u \in lost' : u \in lost \/ LostOK(u)'
    BY <1>1, <1>5, <2>5, <2>6
  <2> QED
    BY <1>0, <1>1, <1>5, <2>1, <2>2, <2>3, <2>4, <2>7, PublisherStep
<1> QED
  BY <1>4, <1>5 DEF Insert

LEMMA CrashSafe ==
    ASSUME LogInv, NEW p \in Publisher, Crash(p)
    PROVE  LogInv'
<1> USE DEF LogInv
<1>0. /\ pc[p] # "idle" /\ Goto(p, "idle")
      /\ UNCHANGED <<rows, calls, terminal, horizon, event, latest, attempts, lost, placed,
                     returned, compactorVars>>
  BY DEF Crash
<1>1. StoreInv' /\ Kept
  <2>1. calls' \in calls .. MaxEvents
    BY <1>0, LogAssumption DEF StoreInv, StoreType
  <2> QED
    BY <1>0, <2>1, StoreStays
<1>2. Sequences \subseteq Sequences' /\ \A s \in Sequences : rows'[s] = rows[s]
  BY <1>0 DEF Sequences
<1>3. /\ pc' \in [Publisher -> {"idle", "read", "insert"}]
      /\ \A q \in Publisher \ {p} : pc'[q] = pc[q]
      /\ attempts' \in [Publisher -> 0 .. MaxAttempts] /\ PublisherOK(p)'
  BY <1>0, <1>1, AttemptEnds
<1>4. /\ returned' \subseteq {x.id : x \in placed'} /\ returned' \subseteq 1 .. calls
      /\ returned' = returned /\ lost' = lost
      /\ latest' \in [Publisher \cup Compactor -> Nat]
      /\ lost' \subseteq [event : Event, sequence : Nat \ {0}]
  BY <1>0 DEF PublisherInv, PublisherType, LatestType
<1> QED
  BY <1>0, <1>1, <1>2, <1>3, <1>4, PublisherStep

LEMMA EndLostSafe ==
    ASSUME LogInv, NEW t \in lost, EndLost(t)
    PROVE  LogInv'
<1> USE DEF LogInv
<1>0. /\ lost' \subseteq lost
      /\ UNCHANGED <<calls, terminal, horizon, pc, event, latest, attempts, returned,
                     compactorVars>>
      /\ UNCHANGED <<horizon, calls>> /\ UNCHANGED <<lock, cpc, selected>>
  BY DEF EndLost, compactorVars
<1>1. /\ t.event \in Event /\ t.sequence \in Nat \ {0}
      /\ t.event.id \in 1 .. calls /\ t.event.id > horizon
      /\ t.sequence > t.event.floor /\ PastOld(t.sequence)
  BY DEF PublisherInv, PublisherType, LostOK
<1>2. /\ StoreInv' /\ Kept
      /\ Sequences \subseteq Sequences' /\ \A r \in Sequences : rows'[r] = rows[r]
      /\ \A x \in placed' : x \in placed \/ InLog(x)'
      /\ placed \subseteq placed'
  <2>1. CASE Free(t.event, t.sequence) /\ Place(t.event, t.sequence)
    BY <1>0, <1>1, <2>1, PlaceSafe
  <2>2. CASE UNCHANGED <<rows, placed>>
    <3>1. calls' \in calls .. MaxEvents
      BY <1>0, LogAssumption DEF StoreInv, StoreType
    <3> QED
      BY <1>0, <2>2, <3>1, StoreStays DEF Sequences
  <2> QED
    BY <2>1, <2>2 DEF EndLost
<1>3. (\A q \in Publisher : PublisherOK(q)') /\ \A u \in lost : LostOK(u)'
  <2>1. {} \in SUBSET Publisher /\ Publisher \ {} = Publisher
    OBVIOUS
  <2>2. \A q \in Publisher \ {} :
           pc'[q] = pc[q] /\ event'[q] = event[q] /\ latest'[q] = latest[q]
    BY <1>0
  <2> QED
    BY <1>2, <2>1, <2>2, PublishersKept
<1>4. PublisherInv'
  <2>1. PublisherType'
    BY <1>0, <1>2 DEF PublisherInv, PublisherType
  <2> QED
    BY <1>0, <1>3, <2>1 DEF PublisherInv
<1>5. CompactorInv'
  <2>1. \A c \in Compactor : latest'[c] = latest[c]
    BY <1>0
  <2> QED
    BY <1>0, <1>2, <2>1, CompactorsStay
<1> QED
  BY <1>0, <1>2, <1>4, <1>5 DEF LatestType

-----------------------------------------------------------------------------
\* The run and the clock.

LEMMA EndRunSafe ==
    ASSUME LogInv, EndRun \/ UNCHANGED logVars
    PROVE  LogInv'
<1> USE DEF LogInv
<1>0. /\ UNCHANGED <<rows, calls, horizon, pc, event, latest, attempts, lost, placed, returned>>
      /\ UNCHANGED <<lock, cpc, selected>> /\ terminal' \in BOOLEAN
  BY DEF EndRun, logVars, publisherVars, compactorVars, LatestType
<1>1. StoreInv' /\ Kept
  <2>1. calls' \in calls .. MaxEvents
    BY <1>0, LogAssumption DEF StoreInv, StoreType
  <2> QED
    BY <1>0, <2>1, StoreStays
<1>2. (\A q \in Publisher : PublisherOK(q)') /\ \A u \in lost : LostOK(u)'
  <2>1. {} \in SUBSET Publisher /\ Publisher \ {} = Publisher
    OBVIOUS
  <2>2. \A q \in Publisher \ {} :
           pc'[q] = pc[q] /\ event'[q] = event[q] /\ latest'[q] = latest[q]
    BY <1>0
  <2> QED
    BY <1>1, <2>1, <2>2, PublishersKept
<1>3. PublisherInv'
  <2>1. PublisherType'
    BY <1>0 DEF PublisherInv, PublisherType
  <2> QED
    BY <1>0, <1>2, <2>1 DEF PublisherInv
<1>4. CompactorInv'
  <2>1. \A c \in Compactor : latest'[c] = latest[c]
    BY <1>0
  <2>2. Sequences \subseteq Sequences' /\ \A r \in Sequences : rows'[r] = rows[r]
    BY <1>0 DEF Sequences
  <2> QED
    BY <1>0, <2>1, <2>2, CompactorsStay
<1> QED
  BY <1>0, <1>1, <1>3, <1>4 DEF LatestType

\* An event that grows old was seen by every transaction that is still open.
LEMMA AgeSafe ==
    ASSUME LogInv, Age
    PROVE  LogInv'
<1> USE DEF LogInv
<1>0. /\ UNCHANGED <<rows, calls, terminal, pc, event, latest, attempts, lost, placed, returned>>
      /\ UNCHANGED <<lock, cpc, selected>> /\ horizon' = horizon + 1
  BY DEF Age, publisherVars, compactorVars
<1>1. /\ horizon \in Nat /\ horizon < calls /\ calls \in 0 .. MaxEvents /\ MaxEvents \in Nat
      /\ 1 .. horizon' = 1 .. horizon \cup {horizon + 1}
  BY <1>0, LogAssumption DEF StoreInv, StoreType, Age
<1>2. /\ Sequences' = Sequences
      /\ \A n : Reached(n)' = Reached(n)
      /\ \A x : InLog(x)' = InLog(x)
      /\ \A s, id : Holds(s, id)' = Holds(s, id)
      /\ HeldOnce' = HeldOnce /\ PlacedUnique' = PlacedUnique
  BY <1>0 DEF Reached, InLog, Holds, HeldOnce, PlacedUnique, Sequences
<1>3. StoreInv'
  <2>1. StoreType'
    BY <1>0, <1>1, <1>2 DEF StoreInv, StoreType
  <2>2. ASSUME NEW s \in Sequences PROVE RowOK(s)'
    BY <1>0, <1>1 DEF StoreInv, RowOK
  <2>3. ASSUME NEW x \in placed PROVE PlacementOK(x)'
    BY <1>1, <1>2 DEF StoreInv, PlacementOK
  <2> QED
    BY <1>0, <1>2, <2>1, <2>2, <2>3 DEF StoreInv
<1>4. ASSUME NEW n \in Nat, PastOld(n),
             \A s \in Sequences : rows[s].id = horizon + 1 => s < n
      PROVE  PastOld(n)'
  <2>1. ASSUME NEW x \in placed, x.id = horizon + 1 PROVE x.sequence < n
    <3>1. InLog(x)
      BY <1>1, <2>1 DEF StoreInv, PlacementOK
    <3> QED
      BY <1>4, <2>1, <3>1 DEF InLog
  <2> QED
    BY <1>0, <1>1, <1>4, <2>1 DEF PastOld
<1>5. ASSUME NEW p \in Publisher PROVE PublisherOK(p)'
  <2>1. PublisherOK(p) /\ latest[p] \in Nat
    BY DEF PublisherInv, LatestType
  <2>2. pc[p] # "idle" => event[p].id > horizon + 1
    <3>1. pc[p] # "idle" => event[p].id \in Nat /\ event[p].id > horizon /\ event[p].id # horizon + 1
      BY <2>1 DEF PublisherOK, Event, Age
    <3> QED
      BY <1>1, <3>1
  <2>3. pc[p] = "insert" => PastOld(latest[p] + 1)'
    <3>0. \A s \in Sequences : s \in Nat
      BY DEF StoreInv, StoreType
    <3>1. pc[p] = "insert" => \A s \in Sequences : rows[s].id = horizon + 1 => s < latest[p] + 1
      BY <2>1, <3>0 DEF Age
    <3>2. latest[p] + 1 \in Nat /\ latest' = latest
      BY <1>0, <2>1
    <3> QED
      BY <1>4, <2>1, <3>1, <3>2 DEF PublisherOK
  <2> QED
    BY <1>0, <1>2, <2>1, <2>2, <2>3 DEF PublisherOK
<1>6. ASSUME NEW t \in lost PROVE LostOK(t)'
  <2>1. LostOK(t) /\ t \in [event : Event, sequence : Nat \ {0}]
    BY DEF PublisherInv, PublisherType
  <2>2. t.event.id \in Nat /\ t.event.id > horizon /\ t.event.id # horizon + 1 /\ t.sequence \in Nat
    BY <2>1 DEF LostOK, Event, Age
  <2>3. PastOld(t.sequence)'
    BY <1>4, <2>1, <2>2 DEF LostOK, Age
  <2>4. t.event.id > horizon + 1
    BY <1>1, <2>2
  <2> QED
    BY <1>0, <2>1, <2>3, <2>4 DEF LostOK
<1>7. PublisherInv'
  <2>1. PublisherType'
    BY <1>0 DEF PublisherInv, PublisherType
  <2> QED
    BY <1>0, <1>5, <1>6, <2>1 DEF PublisherInv
<1>8. CompactorInv'
  <2>1. ASSUME NEW c \in Compactor PROVE CompactorOK(c)'
    BY <1>0, <1>1, <1>2 DEF CompactorInv, CompactorOK
  <2> QED
    BY <1>0, <1>2, <2>1 DEF CompactorInv
<1> QED
  BY <1>0, <1>3, <1>7, <1>8 DEF LatestType

-----------------------------------------------------------------------------
\* compact_terminal_events.

\* The publishers do not see a clean-up but for the positions it leaves behind the log.
LEMMA PublishersStay ==
    ASSUME LogInv, Kept, UNCHANGED <<terminal, publisherVars>>, placed \subseteq placed',
           latest' \in [Publisher \cup Compactor -> Nat],
           \A p \in Publisher : latest'[p] = latest[p]
    PROVE  PublisherInv' /\ LatestType'
<1> USE DEF LogInv
<1>1. UNCHANGED <<calls, pc, event, attempts, lost, returned>>
  BY DEF publisherVars
<1>2. (\A q \in Publisher : PublisherOK(q)') /\ \A u \in lost : LostOK(u)'
  <2>1. {} \in SUBSET Publisher /\ Publisher \ {} = Publisher
    OBVIOUS
  <2>2. \A q \in Publisher \ {} :
           pc'[q] = pc[q] /\ event'[q] = event[q] /\ latest'[q] = latest[q]
    BY <1>1
  <2> QED
    BY <2>1, <2>2, PublishersKept
<1>3. PublisherType'
  BY <1>1 DEF PublisherInv, PublisherType
<1> QED
  BY <1>1, <1>2, <1>3 DEF PublisherInv, LatestType

\* The lock admits one clean-up at a time.
LEMMA OthersIdle ==
    ASSUME CompactorInv, NEW c \in Compactor, lock \in {c, "free"}
    PROVE  \A d \in Compactor : d # c => cpc[d] = "idle" /\ selected[d] = {}
  BY LogAssumption DEF CompactorInv, CompactorOK

LEMMA SelectCandidatesSafe ==
    ASSUME LogInv, NEW c \in Compactor, SelectCandidates(c)
    PROVE  LogInv'
<1> USE DEF LogInv
<1>0. /\ lock = "free" /\ lock' = c
      /\ selected' = [selected EXCEPT ![c] = Candidates]
      /\ cpc' = [cpc EXCEPT ![c] = "latest"]
      /\ UNCHANGED <<rows, terminal, horizon, latest, placed, publisherVars>>
      /\ UNCHANGED <<rows, placed, horizon>>
  BY DEF SelectCandidates, MayLock
<1>1. StoreInv' /\ Kept
  <2>1. calls' \in calls .. MaxEvents
    BY <1>0, LogAssumption DEF StoreInv, StoreType, publisherVars
  <2> QED
    BY <1>0, <2>1, StoreStays
<1>2. PublisherInv' /\ LatestType'
  BY <1>0, <1>1, PublishersStay DEF LatestType
<1>3. ASSUME NEW q \in Candidates
      PROVE  q \in Sequences /\ rows[q].kind = "bulk" /\ rows[q].id \in 1 .. horizon
  <2>1. q \in Sequences /\ rows[q].kind = "bulk" /\ rows[q].id <= horizon
    BY DEF Candidates
  <2>2. rows[q].id # 0 /\ rows[q].id \in Nat /\ horizon \in Nat
    BY <2>1, LogAssumption DEF StoreInv, StoreType, RowOK, Row
  <2> QED
    BY <2>1, <2>2
<1>4. Sequences' = Sequences /\ Candidates \subseteq Sequences
  BY <1>0 DEF Sequences, Candidates
<1>5. ASSUME NEW d \in Compactor PROVE CompactorOK(d)'
  <2>1. CASE d = c
    <3>1. cpc'[d] = "latest" /\ selected'[d] = Candidates
      BY <1>0, <2>1 DEF CompactorInv
    <3> QED
      BY <1>0, <1>3, <1>4, <2>1, <3>1 DEF CompactorOK
  <2>2. CASE d # c
    <3>1. cpc'[d] = "idle" /\ selected'[d] = {}
      BY <1>0, <2>2, OthersIdle DEF CompactorInv
    <3> QED
      BY <3>1 DEF CompactorOK
  <2> QED
    BY <2>1, <2>2
<1>6. CompactorInv'
  <2>1. selected' \in [Compactor -> SUBSET Sequences']
    BY <1>0, <1>4 DEF CompactorInv
  <2>2. lock' \in Compactor \cup {"free"} /\ cpc' \in [Compactor -> {"idle", "latest", "commit"}]
    BY <1>0 DEF CompactorInv
  <2> QED
    BY <1>5, <2>1, <2>2 DEF CompactorInv
<1> QED
  BY <1>1, <1>2, <1>6

LEMMA ReadTombstonePositionSafe ==
    ASSUME LogInv, NEW c \in Compactor, ReadTombstonePosition(c)
    PROVE  LogInv'
<1> USE DEF LogInv
<1>0. /\ cpc[c] = "latest" /\ cpc' = [cpc EXCEPT ![c] = "commit"]
      /\ UNCHANGED <<rows, terminal, horizon, placed, publisherVars>>
      /\ UNCHANGED <<lock, selected>> /\ UNCHANGED <<rows, placed, horizon>>
      /\ UNCHANGED <<terminal, publisherVars>>
  BY DEF ReadTombstonePosition
<1>1. PICK n \in Sequences : IsLatest(n) /\ latest' = [latest EXCEPT ![c] = n]
  BY DEF ReadTombstonePosition
<1>2. /\ n \in Nat /\ \A x \in placed : x.sequence \in Nat /\ x.sequence <= n
      /\ \A q \in Sequences : q <= n
  BY <1>1, LatestIsLast DEF IsLatest
<1>3. StoreInv' /\ Kept
  <2>1. calls' \in calls .. MaxEvents
    BY <1>0, LogAssumption DEF StoreInv, StoreType, publisherVars
  <2> QED
    BY <1>0, <2>1, StoreStays
<1>4. /\ latest' \in [Publisher \cup Compactor -> Nat] /\ latest'[c] = n
      /\ \A p \in Publisher : latest'[p] = latest[p]
  BY <1>1, <1>2, LogAssumption DEF LatestType
<1>5. PublisherInv' /\ LatestType'
  BY <1>0, <1>3, <1>4, PublishersStay
<1>6. Sequences' = Sequences
  BY <1>0 DEF Sequences
<1>7. CompactorOK(c) /\ lock = c
  BY <1>0 DEF CompactorInv, CompactorOK
<1>8. ASSUME NEW d \in Compactor PROVE CompactorOK(d)'
  <2>1. CASE d = c
    <3>1. cpc'[d] = "commit" /\ selected'[d] = selected[c] /\ latest'[d] = n
      BY <1>0, <1>4, <2>1 DEF CompactorInv
    <3> QED
      BY <1>0, <1>2, <1>6, <1>7, <2>1, <3>1 DEF CompactorOK
  <2>2. CASE d # c
    <3>1. cpc'[d] = "idle" /\ selected'[d] = {}
      BY <1>0, <1>7, <2>2, OthersIdle DEF CompactorInv
    <3> QED
      BY <3>1 DEF CompactorOK
  <2> QED
    BY <2>1, <2>2
<1>9. CompactorInv'
  BY <1>0, <1>6, <1>8 DEF CompactorInv
<1> QED
  BY <1>3, <1>5, <1>9

\* The tombstone takes the place of the rows it names, behind all that was inserted.
LEMMA TombstoneSafe ==
    ASSUME StoreInv, NEW D \in SUBSET Sequences, NEW s \in Nat \ {0}, s \notin Sequences,
           \A q \in D : q < s /\ rows[q].kind = "bulk" /\ rows[q].id \in 1 .. horizon,
           \A x \in placed : x.sequence # s,
           rows' = [r \in (Sequences \ D) \cup {s} |->
                      IF r = s THEN [id |-> 0, kind |-> "tombstone",
                                     manifest |-> {rows[q].id : q \in D}]
                               ELSE rows[r]],
           placed' = placed \cup {[id |-> 0, kind |-> "tombstone", floor |-> 0, sequence |-> s]},
           UNCHANGED <<calls, horizon>>
    PROVE  StoreInv' /\ Kept /\ placed \subseteq placed'
<1>a. PICK M : M = {rows[q].id : q \in D}
  OBVIOUS
<1>b. PICK new : new = [id |-> 0, kind |-> "tombstone", floor |-> 0, sequence |-> s]
  OBVIOUS
<1>c. PICK row : row = [id |-> 0, kind |-> "tombstone", manifest |-> M]
  OBVIOUS
<1>0. /\ Sequences \subseteq Nat \ {0} /\ rows \in [Sequences -> Row]
      /\ calls \in Nat /\ horizon \in Nat /\ MaxEvents \in Nat
      /\ horizon <= calls /\ calls <= MaxEvents
  BY LogAssumption DEF StoreInv, StoreType
<1>1. /\ rows' = [r \in (Sequences \ D) \cup {s} |-> IF r = s THEN row ELSE rows[r]]
      /\ placed' = placed \cup {new}
      /\ calls' = calls /\ horizon' = horizon
  BY <1>a, <1>b, <1>c
<1>2. \A q \in D : q < s /\ rows[q].kind = "bulk" /\ rows[q].id \in 1 .. horizon
  OBVIOUS
<1>4. M \subseteq 1 .. horizon /\ M \subseteq 1 .. MaxEvents
  <2>1. 1 .. horizon \subseteq 1 .. MaxEvents
    BY <1>0
  <2> QED
    BY <1>a, <1>2, <2>1
<1>5. \A q \in D : rows[q].id \in M
  BY <1>a
<1>6. \A id \in M : \E q \in D : rows[q].id = id
  BY <1>a
<1>7. /\ Sequences' = (Sequences \ D) \cup {s}
      /\ rows'[s] = row /\ \A r \in Sequences \ D : rows'[r] = rows[r]
  BY <1>1 DEF Sequences
<1>8. /\ new.id = 0 /\ new.kind = "tombstone" /\ new.floor = 0 /\ new.sequence = s
      /\ row.id = 0 /\ row.kind = "tombstone" /\ row.manifest = M
      /\ new \in Placement /\ row \in Row
  BY <1>b, <1>c, <1>0, <1>4 DEF Placement, Row
<1>10. PlacedUnique'
  BY <1>1, <1>8 DEF StoreInv, PlacedUnique
<1>11. /\ \A r \in Sequences \ D : \A id : Holds(r, id)' <=> Holds(r, id)
       /\ \A id \in 1 .. MaxEvents : Holds(s, id)' <=> id \in M
  BY <1>7, <1>8, <1>4 DEF Holds
<1>12. ASSUME NEW r \in Sequences \ D, NEW id \in M PROVE ~Holds(r, id)
  <2>1. PICK q \in D : rows[q].id = id
    BY <1>6
  <2>2. q \in Sequences /\ Holds(q, id) /\ q # r /\ id \in 1 .. MaxEvents
    BY <1>2, <1>4, <2>1 DEF Holds
  <2> QED
    BY <2>2 DEF StoreInv, HeldOnce
<1>13. HeldOnce'
  BY <1>7, <1>11, <1>12 DEF StoreInv, HeldOnce
<1>14. ASSUME NEW n \in Nat, Reached(n) PROVE Reached(n)'
  <2>1. PICK r \in Sequences : n <= r
    BY <1>14 DEF Reached
  <2>2. r \in D => n <= s
    BY <1>0, <1>2, <2>1
  <2> QED
    BY <1>7, <2>1, <2>2 DEF Reached
<1>15. \A n \in Nat : PastOld(n) => PastOld(n)'
  <2>1. new.id \notin 1 .. horizon
    BY <1>0, <1>8
  <2> QED
    BY <1>1, <2>1 DEF PastOld
<1>16. StoreType'
  <2>1. rows' \in [Sequences' -> Row]
    <3>1. rows' \in [(Sequences \ D) \cup {s} -> Row]
      BY <1>0, <1>1, <1>8, Zenon
    <3> QED
      BY <1>7, <3>1
  <2>2. Sequences' \subseteq Nat \ {0}
    BY <1>0, <1>7
  <2>3. calls' \in 0 .. MaxEvents /\ horizon' \in 0 .. calls'
    BY <1>0, <1>1
  <2> QED
    BY <2>1, <2>2, <2>3 DEF StoreType
<1>17. ASSUME NEW r \in Sequences' PROVE RowOK(r)'
  <2>1. CASE r \in Sequences \ D
    BY <1>1, <1>7, <2>1 DEF RowOK, StoreInv
  <2>2. CASE r = s
    BY <1>1, <1>4, <1>7, <1>8, <2>2 DEF RowOK
  <2> QED
    BY <1>7, <2>1, <2>2
<1>18. ASSUME NEW x \in placed PROVE PlacementOK(x)'
  <2>1. PlacementOK(x) /\ x.sequence \in Nat
    BY DEF StoreInv, PlacementOK, Placement
  <2>2. InLog(x)' \/ (x.kind = "bulk" /\ x.id \in 1 .. horizon')
    <3>1. CASE InLog(x) /\ x.sequence \notin D
      BY <1>7, <3>1 DEF InLog
    <3>2. CASE InLog(x) /\ x.sequence \in D
      BY <1>1, <1>2, <3>2 DEF InLog
    <3> QED
      BY <1>1, <2>1, <3>1, <3>2 DEF PlacementOK
  <2>3. ASSUME x.id # 0 PROVE \E r \in Sequences' : Holds(r, x.id)'
    <3>1. PICK r \in Sequences : Holds(r, x.id)
      BY <2>1, <2>3 DEF PlacementOK
    <3>2. CASE r \notin D
      BY <1>7, <1>11, <3>1, <3>2
    <3>3. CASE r \in D
      <4>1. RowOK(r) /\ rows[r].kind = "bulk"
        BY <1>2, <3>3 DEF StoreInv
      <4>2. rows[r].id = x.id
        BY <3>1, <4>1 DEF RowOK, Holds
      <4>3. x.id \in M /\ x.id \in 1 .. MaxEvents
        BY <1>4, <1>5, <3>3, <4>2
      <4> QED
        BY <1>7, <1>11, <4>3
    <3> QED
      BY <3>2, <3>3
  <2> QED
    BY <1>14, <2>1, <2>2, <2>3 DEF PlacementOK
<1>19. ASSUME NEW x, x = new PROVE PlacementOK(x)'
  <2>1. InLog(x)' /\ Reached(x.sequence)'
    BY <1>2, <1>7, <1>8, <1>19 DEF InLog, Reached
  <2> QED
    BY <1>2, <1>8, <1>19, <2>1 DEF PlacementOK
<1>20. Kept
  BY <1>0, <1>1, <1>14, <1>15 DEF Kept
<1> QED
  BY <1>1, <1>10, <1>13, <1>16, <1>17, <1>18, <1>19, <1>20 DEF StoreInv

LEMMA CompactSafe ==
    ASSUME LogInv, NEW c \in Compactor, Compact(c)
    PROVE  LogInv'
<1> USE DEF LogInv
<1>0. /\ cpc[c] = "commit" /\ Release(c)
      /\ UNCHANGED <<terminal, publisherVars>> /\ UNCHANGED horizon /\ UNCHANGED latest
      /\ calls' = calls
  BY DEF Compact, publisherVars
<1>1. StoreInv' /\ Kept /\ placed \subseteq placed'
  <2>1. CASE UNCHANGED <<rows, placed>>
    <3>1. calls' \in calls .. MaxEvents
      BY <1>0, LogAssumption DEF StoreInv, StoreType
    <3> QED
      BY <1>0, <2>1, <3>1, StoreStays
  <2>2. CASE ~ UNCHANGED <<rows, placed>>
    <3>1. PICK s, D : s = latest[c] + 1 /\ D = selected[c]
      OBVIOUS
    <3>2. /\ s \notin Sequences \ D
          /\ rows' = [r \in (Sequences \ D) \cup {s} |->
                        IF r = s THEN [id |-> 0, kind |-> "tombstone",
                                       manifest |-> {rows[q].id : q \in D}]
                                 ELSE rows[r]]
          /\ placed' = placed \cup {[id |-> 0, kind |-> "tombstone", floor |-> 0,
                                     sequence |-> s]}
      BY <2>2, <3>1 DEF Compact, Deleted
    <3>3. CompactorOK(c) /\ latest[c] \in Nat /\ Sequences \subseteq Nat /\ D \in SUBSET Sequences
      BY <3>1 DEF CompactorInv, LatestType, StoreInv, StoreType
    <3>4. ASSUME NEW q \in D PROVE q < s /\ rows[q].kind = "bulk" /\ rows[q].id \in 1 .. horizon
      <4>1. q \in Nat /\ q <= latest[c]
        BY <1>0, <3>1, <3>3 DEF CompactorOK
      <4>2. q < s
        BY <3>1, <3>3, <4>1
      <4>3. rows[q].kind = "bulk" /\ rows[q].id \in 1 .. horizon
        BY <3>1, <3>3 DEF CompactorOK
      <4> QED
        BY <4>2, <4>3
    <3>5. s \notin Sequences /\ s \in Nat \ {0}
      BY <3>1, <3>2, <3>3, <3>4
    <3>6. ASSUME NEW x \in placed PROVE x.sequence # s
      <4>1. x.sequence \in Nat /\ (InLog(x) \/ x.sequence <= latest[c])
        BY <1>0, <3>3 DEF StoreInv, PlacementOK, Placement, CompactorOK
      <4> QED
        BY <3>1, <3>3, <3>5, <4>1 DEF InLog
    <3> QED
      BY <1>0, <3>2, <3>3, <3>4, <3>5, <3>6, TombstoneSafe
  <2> QED
    BY <2>1, <2>2
<1>2. PublisherInv' /\ LatestType'
  <2>1. latest' \in [Publisher \cup Compactor -> Nat]
    BY <1>0 DEF LatestType
  <2> QED
    BY <1>0, <1>1, <2>1, PublishersStay
<1>3. ASSUME NEW d \in Compactor PROVE cpc'[d] = "idle" /\ selected'[d] = {}
  <2>1. lock = c
    BY <1>0 DEF CompactorInv, CompactorOK
  <2> QED
    BY <1>0, <2>1, OthersIdle DEF CompactorInv, Release
<1>4. CompactorInv'
  <2>1. /\ lock' \in Compactor \cup {"free"}
        /\ cpc' \in [Compactor -> {"idle", "latest", "commit"}]
    BY <1>0 DEF CompactorInv, Release
  <2>2. selected' \in [Compactor -> SUBSET Sequences']
    <3>1. DOMAIN selected' = Compactor /\ selected' = [d \in Compactor |-> selected'[d]]
      BY <1>0 DEF CompactorInv, Release
    <3> QED
      BY <1>3, <3>1
  <2> QED
    BY <1>3, <2>1, <2>2 DEF CompactorInv, CompactorOK
<1> QED
  BY <1>1, <1>2, <1>4

-----------------------------------------------------------------------------
\* The invariant and what it says.

LEMMA InitLog == Init => LogInv
<1> SUFFICES ASSUME Init PROVE LogInv
  OBVIOUS
<1>0. Sequences = {} /\ placed = {} /\ lost = {} /\ returned = {} /\ calls = 0 /\ horizon = 0
  BY DEF Init, Sequences
<1>1. StoreInv
  <2>1. rows \in [Sequences -> Row]
    BY <1>0 DEF Init, Sequences
  <2> QED
    BY <1>0, <2>1, LogAssumption DEF StoreInv, StoreType, HeldOnce, PlacedUnique
<1>2. PublisherInv
  <2>1. PublisherType
    BY <1>0, LogAssumption DEF Init, PublisherType
  <2>2. \A p \in Publisher : PublisherOK(p)
    BY DEF Init, PublisherOK
  <2> QED
    BY <1>0, <2>1, <2>2 DEF PublisherInv
<1>3. CompactorInv
  BY DEF Init, CompactorInv, CompactorOK
<1>4. LatestType
  BY DEF Init, LatestType
<1> QED
  BY <1>1, <1>2, <1>3, <1>4 DEF LogInv

LEMMA NextLog == LogInv /\ [Next]_logVars => LogInv'
<1> SUFFICES ASSUME LogInv, [Next]_logVars PROVE LogInv'
  OBVIOUS
<1>1. ASSUME NEW p \in Publisher, Publish(p) \/ Crash(p) PROVE LogInv'
  BY <1>1, BeginPublishSafe, ReadLatestSafe, InsertSafe, CrashSafe DEF Publish
<1>2. ASSUME NEW t \in lost, EndLost(t) PROVE LogInv'
  BY <1>2, EndLostSafe
<1>3. ASSUME NEW c \in Compactor, CompactTerminalEvents(c) PROVE LogInv'
  BY <1>3, SelectCandidatesSafe, ReadTombstonePositionSafe, CompactSafe
     DEF CompactTerminalEvents
<1>4. CASE Age
  BY <1>4, AgeSafe
<1>5. CASE EndRun \/ UNCHANGED logVars
  BY <1>5, EndRunSafe
<1> QED
  BY <1>1, <1>2, <1>3, <1>4, <1>5 DEF Next

\* Every reachable state of the event log satisfies the inductive invariant, whatever the
\* number of publishers, clean-up processes, calls and attempts of SqlStore.publish.
THEOREM LogSafe == Spec => []LogInv
  BY InitLog, NextLog, PTL DEF Spec

\* The rows, the transactions of publish and those of compact_terminal_events keep their types.
THEOREM LogTypes == Spec => []TypeOK
<1>1. LogInv => TypeOK
  BY DEF LogInv, StoreInv, StoreType, PublisherInv, PublisherType, CompactorInv, LatestType,
         TypeOK
<1> QED
  BY <1>1, LogSafe, PTL

\* publish repeats an insert whose answer was lost, and compact_terminal_events deletes rows
\* meanwhile: still no event_id is inserted twice, no sequence is given out twice, and an
\* event_id that publish returned was inserted.
THEOREM EventsPlacedOnce == Spec => []PlacedOnce
<1>1. LogInv => PlacedOnce
  BY DEF LogInv, StoreInv, PublisherInv, PublisherType, PlacedUnique, PlacedOnce
<1> QED
  BY <1>1, LogSafe, PTL

\* publish places an event after every event that was in the log when the call began.
THEOREM LogIsCausal == Spec => []CausalOrder
<1>1. LogInv => CausalOrder
  BY DEF LogInv, StoreInv, PlacementOK, CausalOrder
<1> QED
  BY <1>1, LogSafe, PTL

\* compact_terminal_events loses nothing: an event that was inserted is in the log or in the
\* manifest of exactly one tombstone, and an audit event is in the log.
THEOREM CompactionIsAccounted == Spec => []DeletionsAccounted
<1>1. ASSUME LogInv PROVE DeletionsAccounted
  <2> SUFFICES ASSUME NEW x \in placed, x.id # 0
               PROVE  /\ Cardinality({s \in Sequences :
                                       rows[s].id = x.id \/ x.id \in rows[s].manifest}) = 1
                      /\ x.kind = "audit" => Stored(x.id)
    BY DEF DeletionsAccounted
  <2>1. PlacementOK(x) /\ HeldOnce
    BY <1>1 DEF LogInv, StoreInv
  <2>2. PICK s \in Sequences : Holds(s, x.id)
    BY <2>1 DEF PlacementOK
  <2>3. x.id \in 1 .. MaxEvents
    BY <2>1, LogAssumption DEF PlacementOK, Placement
  <2>4. {r \in Sequences : rows[r].id = x.id \/ x.id \in rows[r].manifest} = {s}
    BY <2>1, <2>2, <2>3 DEF HeldOnce, Holds
  <2>5. Cardinality({s}) = 1
    BY FS_Singleton
  <2>6. x.kind = "audit" => Stored(x.id)
    BY <2>1 DEF PlacementOK, InLog, Stored
  <2> QED
    BY <2>4, <2>5, <2>6
<1> QED
  BY <1>1, LogSafe, PTL

=============================================================================
