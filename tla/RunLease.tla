------------------------------ MODULE RunLease ------------------------------
(***************************************************************************)
(* The lease of a run as the rest of the program relies on it: an owner,   *)
(* and whether the expiry still lies ahead.  Store uses these operators;   *)
(* Lease models the row with clock, expiry, fencing token and version and  *)
(* implements this specification.                                          *)
(***************************************************************************)
CONSTANTS
    Worker,   \* worker ids: one per advance or resume operation
    NoOwner   \* the lease row does not exist

ASSUME LeaseAssumption == NoOwner \notin Worker

VARIABLE lease

NoLease == [owner |-> NoOwner, live |-> FALSE]

LeaseInit == lease = NoLease

Leased(w) == lease.owner = w /\ lease.live

\* acquire_lease succeeds on a missing, expired or own lease.
Available(w) == lease.owner \in {NoOwner, w} \/ ~lease.live

AcquireLease(w) ==
    /\ Available(w)
    /\ lease' = [owner |-> w, live |-> TRUE]

\* release_lease deletes w's lease, expired or not; anybody else's raises.
ReleaseLease(w) == lease' = IF lease.owner = w THEN NoLease ELSE lease

\* The clock passes expires_at.
LeaseExpires == lease.live /\ lease' = [owner |-> lease.owner, live |-> FALSE]

\* The clock is read before the transaction: a call that takes longer than the
\* time to live acquires a lease that is over.
AcquireTooLate(w) ==
    /\ Available(w)
    /\ lease' = [owner |-> w, live |-> FALSE]

\* A pending acquire_lease overwrites a live lease.  No step of LeaseNext: Lease shows
\* when it happens.  For owner and liveness it is an expiry and an acquisition in one.
LeaseTaken(w) ==
    /\ ~ Available(w)
    /\ \E live \in BOOLEAN : lease' = [owner |-> w, live |-> live]

LeaseNext ==
    \/ \E w \in Worker : AcquireLease(w) \/ AcquireTooLate(w) \/ ReleaseLease(w)
    \/ LeaseExpires

LeaseSpec == LeaseInit /\ [][LeaseNext]_lease
=============================================================================
