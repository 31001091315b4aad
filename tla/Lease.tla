-------------------------------- MODULE Lease --------------------------------
(***************************************************************************)
(* acquire_lease, renew_lease and release_lease of persistence/store.py on *)
(* the one LeaseORM row of a run.  A call reads the clock, then the row,   *)
(* and then writes the row if its WHERE clause still holds: three steps,   *)
(* since READ COMMITTED lets other transactions commit between the         *)
(* statements of one.                                                      *)
(***************************************************************************)
EXTENDS Integers

CONSTANTS
    Worker, NoOwner,
    Ttl,         \* Settings.lease_ttl_seconds
    MaxTime,     \* bound on the clock
    MaxVersion   \* bound on the version of a row

ASSUME LeaseRowAssumption ==
    /\ NoOwner \notin Worker
    /\ Ttl \in Nat \ {0} /\ MaxTime \in Nat /\ MaxVersion \in Nat

VARIABLES
    now,      \* Clock.now()
    row,      \* the LeaseORM row; NoRow when it does not exist
    held,     \* held[w]: the LeaseRecord w got last; NoRecord when it has none
    call,     \* call[w]: the step w is at, the time and the row it read
    outdated  \* history: the workers whose row was deleted after they read it and
              \* before they updated it

leaseVars == <<now, row, held, call, outdated>>

NoRow == [owner |-> NoOwner, expires |-> 0, fence |-> 0, version |-> 0]
NoRecord == [expires |-> 0, fence |-> 0, version |-> 0]
Record == [expires : Nat, fence : Nat, version : Nat]
NoCall == [step |-> "none", at |-> 0, read |-> NoRow]

RowInit ==
    /\ now = 1
    /\ row = NoRow
    /\ held = [w \in Worker |-> NoRecord]
    /\ call = [w \in Worker |-> NoCall]
    /\ outdated = {}

-----------------------------------------------------------------------------
Tick ==
    /\ now < MaxTime
    /\ now' = now + 1
    /\ UNCHANGED <<row, held, call, outdated>>

\* now = self._clock.now(); only a holder renews.
BeginCall(w) ==
    /\ call[w] = NoCall
    /\ \E step \in {"acquire"} \cup (IF held[w] # NoRecord THEN {"renew"} ELSE {}) :
          call' = [call EXCEPT ![w] = [step |-> step, at |-> now, read |-> NoRow]]
    /\ UNCHANGED <<now, row, held, outdated>>

\* The call is over, by its return or by an exception.
Return(w) == call' = [call EXCEPT ![w] = NoCall]

\* session.get, which finds a row that lets the call go on.
ReadRow(w, step) == call' = [call EXCEPT ![w] = [step |-> step, at |-> @.at, read |-> row]]

\* Mutant: somebody else's lease is taken without looking at its expiry.
LeasedToOtherNever(w) == FALSE

LeasedToOther(w) == row.owner \notin {NoOwner, w} /\ row.expires > call[w].at

ReadToAcquire(w) ==
    /\ call[w].step = "acquire"
    /\ IF LeasedToOther(w) THEN Return(w) ELSE ReadRow(w, "take")
    /\ UNCHANGED <<now, row, held, outdated>>

\* The row and the returned record after a granted call.
Grant(w, fence, version) ==
    LET record == [expires |-> call[w].at + Ttl, fence |-> fence, version |-> version]
    IN /\ row' = [owner |-> w, expires |-> record.expires,
                  fence |-> record.fence, version |-> record.version]
       /\ held' = [held EXCEPT ![w] = record]

\* The INSERT finds no row, or the UPDATE a row with the version that was read.
SameVersion(w) == row.version = call[w].read.version

\* INSERT or UPDATE, or the conflict that they meet.  A row that did not exist gets
\* fencing token and version 1.
Take(w) ==
    LET read == call[w].read IN
    /\ call[w].step = "take"
    /\ \/ ~ SameVersion(w) /\ UNCHANGED <<row, held>>
       \/ /\ SameVersion(w)
          /\ read.version < MaxVersion
          /\ Grant(w, IF read.owner = w THEN read.fence ELSE read.fence + 1,
                   read.version + 1)
    /\ Return(w)
    /\ UNCHANGED <<now, outdated>>

\* Mutant: token and version are trusted to name the owner.
MatchesToken(w) == row.fence = held[w].fence /\ row.version = held[w].version

\* The conditions of renew_lease and release_lease on the row.
Matches(w) ==
    /\ row.owner = w
    /\ row.fence = held[w].fence
    /\ row.version = held[w].version

ReadToRenew(w) ==
    /\ call[w].step = "renew"
    /\ IF Matches(w) /\ row.expires > call[w].at
       THEN ReadRow(w, "extend") ELSE Return(w)
    /\ UNCHANGED <<now, row, held, outdated>>

Extend(w) ==
    /\ call[w].step = "extend"
    /\ \/ ~ Matches(w) /\ UNCHANGED <<row, held>>
       \/ /\ Matches(w)
          /\ held[w].version < MaxVersion
          /\ Grant(w, held[w].fence, held[w].version + 1)
    /\ Return(w)
    /\ UNCHANGED <<now, outdated>>

\* v has found a row and is about to update it.
Pending(v) == call[v].step = "take" /\ call[v].read # NoRow

\* The DELETE of a release reads no clock and is the last thing an operation does.
Release(w) ==
    /\ call[w] = NoCall /\ held[w] # NoRecord
    /\ row' = IF Matches(w) THEN NoRow ELSE row
    /\ outdated' = outdated \cup {v \in Worker : Matches(w) /\ Pending(v)}
    /\ held' = [held EXCEPT ![w] = NoRecord]
    /\ UNCHANGED <<now, call>>

\* The process dies, before or after the transaction of a call.
Die(w) ==
    /\ held[w] # NoRecord \/ call[w] # NoCall
    /\ held' = [held EXCEPT ![w] = NoRecord]
    /\ Return(w)
    /\ UNCHANGED <<now, row, outdated>>

RowNext ==
    \/ Tick
    \/ \E w \in Worker :
          \/ BeginCall(w) \/ ReadToAcquire(w) \/ Take(w) \/ ReadToRenew(w) \/ Extend(w)
          \/ Release(w) \/ Die(w)

RowSpec == RowInit /\ [][RowNext]_leaseVars

-----------------------------------------------------------------------------
Row == [owner : Worker \cup {NoOwner}, expires : Nat, fence : Nat, version : Nat]

RowTypeOK ==
    /\ now \in Nat \ {0}
    /\ row \in Row
    /\ held \in [Worker -> Record]
    /\ call \in [Worker -> [step : {"none", "acquire", "take", "renew", "extend"},
                            at : Nat, read : Row]]
    /\ \A w \in Worker : call[w].at <= now
    /\ outdated \subseteq Worker

\* The row, seen as owner and liveness, behaves as the rest of the program assumes,
\* whatever the delays between clock, read and write, with one exception: after a row
\* was deleted under a pending update, acquire_lease may take a live lease away, since a
\* new row counts its versions from 1 again.
Seen == [owner |-> row.owner, live |-> IF row.expires > now THEN TRUE ELSE FALSE]
Abstract == INSTANCE RunLease WITH lease <- Seen
ImplementsRunLease ==
    /\ Abstract!LeaseInit
    /\ [][\/ Abstract!LeaseNext
          \/ \E w \in outdated : Abstract!LeaseTaken(w)]_Seen

\* At most one worker holds a record that has not expired: a takeover never happens
\* while the previous owner may still believe in its lease, unless a row was deleted
\* under a pending update.
OneUnexpiredRecord ==
    outdated = {} =>
        \A v, w \in Worker : held[v].expires > now /\ held[w].expires > now => v = w
=============================================================================
