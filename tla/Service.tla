------------------------------- MODULE Service -------------------------------
(***************************************************************************)
(* AgentService.pause and cancel (application/service.py): a caller        *)
(* that holds no lease reads the run, stores a lifecycle request and, for  *)
(* a pause of a RUNNING run, marks the run PAUSE_REQUESTED.  A replay of   *)
(* an idempotency key returns the stored request and changes nothing.      *)
(***************************************************************************)
EXTENDS Store

CONSTANT MaxRequests  \* bound on the requests stored in a behaviour

ASSUME RequestAssumption == MaxRequests \in Nat

VARIABLE clientPc  \* the store call client c is about to make

ClientInit == clientPc = [c \in Client |-> "idle"]

ClientGoto(c, label) == clientPc' = [clientPc EXCEPT ![c] = label]

PauseCall(c) ==
    /\ clientPc[c] = "idle" /\ Len(requests) < MaxRequests
    /\ run \in {"RUNNING", "PAUSE_REQUESTED"}
    /\ GetRun(c)
    /\ ClientGoto(c, "pause_create")
    /\ UNCHANGED <<storeVars, cache, fresh>>

PauseCreate(c) ==
    /\ clientPc[c] = "pause_create"
    /\ CreateRequest("pause")
    /\ IF runCache[c] = "RUNNING"
       THEN ClientGoto(c, "pause_mark") /\ UNCHANGED <<runCache, runFresh>>
       ELSE ClientGoto(c, "idle") /\ ForgetRun(c)
    /\ UNCHANGED <<run, task, open, finished, lease, cache, fresh>>

\* The version is the one read before the request was stored; a conflict raises
\* and leaves the request PENDING.
PauseMark(c) ==
    /\ clientPc[c] = "pause_mark"
    /\ \/ UpdateRun(c, "PAUSE_REQUESTED", FALSE)
       \/ RunConflict(c) /\ ForgetRun(c) /\ UNCHANGED run
    /\ ClientGoto(c, "idle")
    /\ UNCHANGED <<task, open, finished, requests, lease, cache, fresh>>

CancelCall(c) ==
    /\ clientPc[c] = "idle" /\ Len(requests) < MaxRequests
    /\ run \notin RunTerminal
    /\ ClientGoto(c, "cancel_create")
    /\ UNCHANGED <<storeVars, copyVars>>

CancelCreate(c) ==
    /\ clientPc[c] = "cancel_create"
    /\ CreateRequest("cancel")
    /\ ClientGoto(c, "idle")
    /\ UNCHANGED <<run, task, open, finished, lease, copyVars>>

ServiceCall(c) ==
    PauseCall(c) \/ PauseCreate(c) \/ PauseMark(c) \/ CancelCall(c) \/ CancelCreate(c)
=============================================================================
