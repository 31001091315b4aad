--------------------------- MODULE CheckpointChain ---------------------------
(***************************************************************************)
(* The checkpoints of one run: CheckpointManager.write and recover_latest  *)
(* (checkpoints/manager.py) over append_checkpoint and prune_checkpoints   *)
(* (persistence/store.py).  A checkpoint is its sequence number, the hash  *)
(* of its parent and the condition of its stored JSON; the payload is left *)
(* out.  write is one step per awaited call, so that a worker that lost    *)
(* its lease and its successor may write at the same time.                 *)
(***************************************************************************)
EXTENDS Integers, FiniteSets

CONSTANTS
    Writer,         \* operations that write checkpoints of the run
    Retain,         \* Settings.checkpoint_retention_count
    MaxSequence,    \* bound on the checkpoints written
    MaxCorruptions  \* bound on the rows that storage corrupts

ASSUME ChainAssumption ==
    /\ Retain \in Nat /\ Retain >= 2
    /\ MaxSequence \in Nat /\ MaxCorruptions \in Nat

VARIABLES
    rows,       \* the CheckpointORM rows, by sequence
    pc,         \* the store call writer w is about to make
    base,       \* base[w]: the checkpoint w builds on, as selected by recover_latest
    expected,   \* expected[w]: the tip w read, in a call of its own
    corruptions \* how many rows were corrupted so far

chainVars == <<rows, pc, base, expected, corruptions>>

\* What happened to envelope_json since it was written: nothing, it fails to parse or
\* to verify, or it is self-valid but hashes to something else.
Condition == {"intact", "unreadable", "altered"}

\* chain_hash of a row: rows are equal if sequence and content are.
Hash == [sequence : Nat, condition : Condition]
NoHash == [sequence |-> 0, condition |-> "intact"]
ChainHash(s) == [sequence |-> s, condition |-> rows[s].condition]
Row == [parent : Hash, condition : Condition]

Sequences == DOMAIN rows
SelfValid(s) == rows[s].condition # "unreadable"

IsTip(n) ==
    \/ Sequences = {} /\ n = 0
    \/ n \in Sequences /\ \A s \in Sequences : s <= n

Oldest(s) == \A r \in Sequences : s <= r

\* Mutant: only the first checkpoint of a run is an anchor.
ChainIsValidFromFirst ==
    [s \in Sequences |->
        LET valid[r \in Sequences] ==
                /\ SelfValid(r)
                /\ \/ rows[r].parent = NoHash
                   \/ \E p \in Sequences : /\ p < r /\ SelfValid(p)
                                           /\ rows[r].parent = ChainHash(p)
                                           /\ valid[p]
        IN valid[s]]

\* _chain_is_valid: the oldest retained row is the anchor, every other one needs its
\* parent among the older self-valid rows.
ChainIsValid ==
    [s \in Sequences |->
        LET valid[r \in Sequences] ==
                /\ SelfValid(r)
                /\ \/ Oldest(r)
                   \/ rows[r].parent = NoHash /\ r = 1
                   \/ \E p \in Sequences : /\ p < r /\ SelfValid(p)
                                           /\ rows[r].parent = ChainHash(p)
                                           /\ valid[p]
        IN valid[s]]

\* Mutant: the candidates are tried from the oldest.
IsSelectedOldest(s) ==
    /\ s \in Sequences /\ ChainIsValid[s]
    /\ \A r \in Sequences : ChainIsValid[r] => s <= r

\* recover_latest: the newest row whose chain is valid.
IsSelected(s) ==
    /\ s \in Sequences /\ ChainIsValid[s]
    /\ \A r \in Sequences : ChainIsValid[r] => r <= s

Recoverable == \E s \in Sequences : ChainIsValid[s]

Init ==
    /\ rows = [s \in {} |-> [parent |-> NoHash, condition |-> "intact"]]
    /\ pc = [w \in Writer |-> "idle"]
    /\ base = [w \in Writer |-> NoHash]
    /\ expected = [w \in Writer |-> 0]
    /\ corruptions = 0

Goto(w, label) == pc' = [pc EXCEPT ![w] = label]

\* The write returns or raises; its locals are gone.
Return(w) ==
    /\ Goto(w, "idle")
    /\ base' = [base EXCEPT ![w] = NoHash]
    /\ expected' = [expected EXCEPT ![w] = 0]

-----------------------------------------------------------------------------
\* The first read only decides whether there is a chain to build on.
ListCheckpoints(w) ==
    /\ pc[w] = "idle"
    /\ Goto(w, IF Sequences = {} THEN "append" ELSE "select")
    /\ UNCHANGED <<rows, base, expected, corruptions>>

SelectBase(w) ==
    /\ pc[w] = "select"
    /\ \/ ~Recoverable /\ Return(w)
       \/ \E s \in Sequences :
             /\ IsSelected(s)
             /\ base' = [base EXCEPT ![w] = ChainHash(s)]
             /\ Goto(w, "tip")
             /\ UNCHANGED expected
    /\ UNCHANGED <<rows, corruptions>>

ReadTip(w) ==
    /\ pc[w] = "tip"
    /\ \E n \in Sequences : IsTip(n) /\ expected' = [expected EXCEPT ![w] = n]
    /\ Goto(w, "append")
    /\ UNCHANGED <<rows, base, corruptions>>

\* The checks of append_checkpoint inside its transaction.
Accepts(w) ==
    /\ IsTip(expected[w])
    /\ IF Sequences = {}
       THEN base[w] = NoHash
       ELSE \E s \in Sequences : SelfValid(s) /\ base[w] = ChainHash(s)

AppendCheckpoint(w) ==
    /\ pc[w] = "append"
    /\ expected[w] < MaxSequence
    /\ \/ ~Accepts(w) /\ Return(w) /\ UNCHANGED rows
       \/ /\ Accepts(w)
          /\ LET n == expected[w] + 1
             IN rows' = [s \in Sequences \cup {n} |->
                            IF s = n THEN [parent |-> base[w], condition |-> "intact"]
                                     ELSE rows[s]]
          /\ Goto(w, "prune")
          /\ UNCHANGED <<base, expected>>
    /\ UNCHANGED corruptions

\* Mutant: the offset is one short.
IsCutoffShort(c) ==
    c \in Sequences /\ Cardinality({s \in Sequences : s > c}) = Retain - 2

\* ORDER BY sequence DESC OFFSET retain - 1 LIMIT 1.
IsCutoff(c) == c \in Sequences /\ Cardinality({s \in Sequences : s > c}) = Retain - 1

Prune(w) ==
    /\ pc[w] = "prune"
    /\ \/ /\ \A c \in Sequences : ~IsCutoff(c)
          /\ UNCHANGED rows
       \/ \E c \in Sequences :
             /\ IsCutoff(c)
             /\ rows' = [s \in {r \in Sequences : r >= c} |-> rows[s]]
    /\ Return(w)
    /\ UNCHANGED corruptions

\* The process dies or a store call of write raises.
Stop(w) ==
    /\ pc[w] # "idle"
    /\ Return(w)
    /\ UNCHANGED <<rows, corruptions>>

\* Storage damages the JSON of a row.
Corrupt(s, condition) ==
    /\ corruptions < MaxCorruptions
    /\ rows[s].condition = "intact"
    /\ rows' = [rows EXCEPT ![s].condition = condition]
    /\ corruptions' = corruptions + 1
    /\ UNCHANGED <<pc, base, expected>>

Write(w) ==
    \/ ListCheckpoints(w) \/ SelectBase(w) \/ ReadTip(w) \/ AppendCheckpoint(w) \/ Prune(w)

CorruptAny == \E s \in Sequences, condition \in {"unreadable", "altered"} : Corrupt(s, condition)

WriteNext == \E w \in Writer : Write(w) \/ Stop(w)

Spec == Init /\ [][WriteNext \/ CorruptAny]_chainVars

-----------------------------------------------------------------------------
TypeOK ==
    /\ Sequences \in SUBSET (Nat \ {0})
    /\ rows \in [Sequences -> Row]
    /\ pc \in [Writer -> {"idle", "select", "tip", "append", "prune"}]
    /\ base \in [Writer -> Hash]
    /\ expected \in [Writer -> Nat]
    /\ corruptions \in Nat

\* Whatever writers race, stop or prune twice: sequences are given out without a gap
\* and the newest Retain checkpoints are there.
WindowKept ==
    \E n \in Sequences \cup {0} :
        /\ IsTip(n)
        /\ \A k \in 1..n : k > n - Retain => k \in Sequences
        /\ \A s \in Sequences : s..n \subseteq Sequences

\* As long as no row is damaged a resume finds a checkpoint, also when racing writers
\* have forked the chain and retention cut it at the fork.
IntactIsRecoverable == corruptions = 0 /\ Sequences # {} => Recoverable

\* Rows that were appended one after the other.
Linear ==
    \A s \in Sequences : s - 1 \in Sequences =>
        rows[s].parent = [sequence |-> s - 1, condition |-> "intact"]

\* On a chain that no race has forked the newest checkpoint is selected, and the one
\* before it when the newest one is the only damage so far.
NewestSelected ==
    \A s \in Sequences : Linear /\ IsTip(s) =>
        /\ corruptions = 0 => IsSelected(s)
        /\ corruptions = 1 /\ ~SelfValid(s) /\ s - 1 \in Sequences => IsSelected(s - 1)
=============================================================================
