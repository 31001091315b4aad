-------------------------- MODULE CheckpointProofs --------------------------
(***************************************************************************)
(* CheckpointChain for any number of writers, any retention count and any  *)
(* length of the chain: types, the retention window, and which checkpoint  *)
(* a resume selects.                                                       *)
(***************************************************************************)
EXTENDS CheckpointChain, FiniteSetTheorems, WellFoundedInduction, TLAPS

Step == WriteNext \/ CorruptAny

\* The locals of a writer that returns or raises keep their types.
LEMMA ReturnType ==
    ASSUME TypeOK, NEW w \in Writer, Return(w)
    PROVE  /\ pc' \in [Writer -> {"idle", "select", "tip", "append", "prune"}]
           /\ base' \in [Writer -> Hash]
           /\ expected' \in [Writer -> Nat]
  BY DEF TypeOK, Return, Goto, NoHash, Hash, Condition

\* The hash of a stored row is a hash.
LEMMA ChainHashType ==
    ASSUME TypeOK, NEW s \in Sequences
    PROVE  ChainHash(s) \in Hash
  BY DEF TypeOK, Sequences, ChainHash, Hash, Row, Condition

\* Every step keeps the types.
LEMMA TypeStep ==
    ASSUME TypeOK, [Step]_chainVars
    PROVE  TypeOK'
<1>1. CASE UNCHANGED chainVars
  BY <1>1 DEF TypeOK, chainVars, Sequences
<1>2. ASSUME NEW w \in Writer, ListCheckpoints(w)
      PROVE  TypeOK'
  BY <1>2 DEF ListCheckpoints, TypeOK, Goto, Sequences
<1>3. ASSUME NEW w \in Writer, SelectBase(w)
      PROVE  TypeOK'
  <2>1. CASE Return(w)
    BY <1>3, <2>1, ReturnType DEF SelectBase, TypeOK, Sequences
  <2>2. CASE ~Return(w)
    <3>1. PICK s \in Sequences : /\ base' = [base EXCEPT ![w] = ChainHash(s)]
                                 /\ Goto(w, "tip")
                                 /\ UNCHANGED expected
      BY <1>3, <2>2 DEF SelectBase
    <3>2. ChainHash(s) \in Hash
      BY ChainHashType
    <3> QED
      BY <1>3, <3>1, <3>2 DEF SelectBase, TypeOK, Goto, Sequences
  <2> QED
    BY <2>1, <2>2
<1>4. ASSUME NEW w \in Writer, ReadTip(w)
      PROVE  TypeOK'
  BY <1>4 DEF ReadTip, TypeOK, Goto, Sequences
<1>5. ASSUME NEW w \in Writer, AppendCheckpoint(w)
      PROVE  TypeOK'
  <2>1. CASE Return(w) /\ UNCHANGED rows
    BY <1>5, <2>1, ReturnType DEF AppendCheckpoint, TypeOK, Sequences
  <2>2. CASE ~(Return(w) /\ UNCHANGED rows)
    <3> DEFINE n == expected[w] + 1
    <3>1. /\ rows' = [s \in Sequences \cup {n} |->
                         IF s = n THEN [parent |-> base[w], condition |-> "intact"]
                                  ELSE rows[s]]
          /\ Goto(w, "prune")
          /\ UNCHANGED <<base, expected, corruptions>>
      BY <1>5, <2>2 DEF AppendCheckpoint
    <3>2. n \in Nat \ {0}
      BY DEF TypeOK
    <3>3. [parent |-> base[w], condition |-> "intact"] \in Row
      BY DEF TypeOK, Row, Condition
    <3>4. Sequences' = Sequences \cup {n}
      BY <3>1 DEF Sequences
    <3>5. rows' \in [Sequences' -> Row]
      BY <3>1, <3>3, <3>4 DEF TypeOK, Sequences
    <3> QED
      BY <3>1, <3>2, <3>4, <3>5 DEF TypeOK, Goto
  <2> QED
    BY <2>1, <2>2
<1>6. ASSUME NEW w \in Writer, Prune(w)
      PROVE  TypeOK'
  <2>1. CASE UNCHANGED rows
    BY <1>6, <2>1, ReturnType DEF Prune, TypeOK, Sequences
  <2>2. CASE ~UNCHANGED rows
    <3>1. PICK c \in Sequences : rows' = [s \in {r \in Sequences : r >= c} |-> rows[s]]
      BY <1>6, <2>2 DEF Prune
    <3>2. Sequences' = {r \in Sequences : r >= c}
      BY <3>1 DEF Sequences
    <3>3. rows' \in [Sequences' -> Row]
      BY <3>1, <3>2 DEF TypeOK, Sequences
    <3> QED
      BY <1>6, <3>2, <3>3, ReturnType DEF Prune, TypeOK
  <2> QED
    BY <2>1, <2>2
<1>7. ASSUME NEW w \in Writer, Stop(w)
      PROVE  TypeOK'
  BY <1>7, ReturnType DEF Stop, TypeOK, Sequences
<1>8. CASE CorruptAny
  <2>1. PICK s \in Sequences, condition \in {"unreadable", "altered"} : Corrupt(s, condition)
    BY <1>8 DEF CorruptAny
  <2>2. Sequences' = Sequences
    BY <2>1 DEF Corrupt, Sequences, TypeOK
  <2>3. rows[s] \in Row /\ rows' = [rows EXCEPT ![s] = [rows[s] EXCEPT !.condition = condition]]
    BY <2>1 DEF Corrupt, Sequences, TypeOK
  <2>4. [rows[s] EXCEPT !.condition = condition] \in Row
    BY <2>1, <2>3 DEF Row, Condition
  <2>5. rows' \in [Sequences' -> Row]
    BY <2>2, <2>3, <2>4 DEF TypeOK
  <2> QED
    BY <2>1, <2>2, <2>5 DEF Corrupt, TypeOK
<1> QED
  BY <1>1, <1>2, <1>3, <1>4, <1>5, <1>6, <1>7, <1>8 DEF Step, WriteNext, Write

\* The stored checkpoints, the hashes writers build on and the tips they read keep
\* their types; sequence numbers start at 1.
THEOREM ChainTypeCorrect == Spec => []TypeOK
<1>1. Init => TypeOK
  BY DEF Init, TypeOK, NoHash, Hash, Condition, Sequences, Row
<1>2. TypeOK /\ [Step]_chainVars => TypeOK'
  BY TypeStep
<1> QED
  BY <1>1, <1>2, PTL DEF Spec, Step

-----------------------------------------------------------------------------
\* The window, for a given tip.
WindowTo(n) ==
    /\ IsTip(n)
    /\ \A k \in 1..n : k > n - Retain => k \in Sequences
    /\ \A s \in Sequences : s..n \subseteq Sequences

\* Steps that leave the stored sequence numbers alone leave the window alone.
LEMMA WindowUnchanged ==
    ASSUME WindowKept, Sequences' = Sequences
    PROVE  WindowKept'
  BY DEF WindowKept, IsTip

\* The cutoff of a window is the first of its last Retain sequence numbers, so that
\* pruning keeps them.
LEMMA CutoffBelowWindow ==
    ASSUME TypeOK, NEW n \in Sequences, WindowTo(n), NEW c \in Sequences, IsCutoff(c)
    PROVE  c = n - Retain + 1
<1>0. Sequences \subseteq Nat /\ \A s \in Sequences : s <= n
  BY DEF TypeOK, WindowTo, IsTip
<1>1. n \in Nat /\ c \in Nat /\ c <= n
  BY <1>0
<1>2. {s \in Sequences : s > c} = (c + 1)..n
  <2>1. ASSUME NEW s \in Sequences, s > c
        PROVE  s \in (c + 1)..n
    <3>1. s \in Nat /\ s <= n
      BY <1>0
    <3> QED
      BY <1>1, <2>1, <3>1
  <2>2. (c + 1)..n \subseteq c..n
    BY <1>1
  <2>3. c..n \subseteq Sequences
    BY DEF WindowTo
  <2>4. \A s \in (c + 1)..n : s > c
    BY <1>1
  <2> QED
    BY <2>1, <2>2, <2>3, <2>4
<1>3. Cardinality((c + 1)..n) = n - c
  <2>1. c + 1 \in Int /\ n \in Int
    BY <1>1
  <2>2. Cardinality((c + 1)..n) = IF c + 1 > n THEN 0 ELSE n - (c + 1) + 1
    BY <2>1, FS_Interval
  <2> QED
    BY <1>1, <2>2
<1>4. Cardinality({s \in Sequences : s > c}) = Retain - 1
  BY DEF IsCutoff
<1>5. n - c = Retain - 1
  BY <1>2, <1>3, <1>4
<1> QED
  BY <1>1, <1>5, ChainAssumption

\* Every step keeps the window.
LEMMA WindowStep ==
    ASSUME TypeOK, WindowKept, [Step]_chainVars
    PROVE  WindowKept'
<1>1. ASSUME NEW w \in Writer, AppendCheckpoint(w), ~UNCHANGED rows
      PROVE  WindowKept'
  <2>0. PICK n \in Nat : n = expected[w]
    BY DEF TypeOK
  <2>1. /\ Accepts(w)
        /\ rows' = [s \in Sequences \cup {n + 1} |->
                       IF s = n + 1 THEN [parent |-> base[w], condition |-> "intact"]
                                    ELSE rows[s]]
    BY <1>1, <2>0 DEF AppendCheckpoint
  <2>2. IsTip(n)
    BY <2>0, <2>1 DEF Accepts
  <2>3. Sequences' = Sequences \cup {n + 1}
    BY <2>1 DEF Sequences
  <2>4. PICK m \in Sequences \cup {0} : WindowTo(m)
    BY DEF WindowKept, WindowTo
  <2>5. m = n
    BY <2>2, <2>4 DEF WindowTo, IsTip, TypeOK
  <2>6. Sequences \subseteq 1..n
    BY <2>2 DEF IsTip, TypeOK
  <2>7. PICK k \in Sequences' : k = n + 1
    BY <2>3
  <2>8. IsTip(k)'
    BY <2>2, <2>3, <2>6, <2>7 DEF IsTip
  <2>9. \A j \in 1..k : j > k - Retain => j \in Sequences'
    BY <2>3, <2>4, <2>5, <2>7, ChainAssumption DEF WindowTo
  <2>10. \A s \in Sequences' : s..k \subseteq Sequences'
    BY <2>3, <2>4, <2>5, <2>6, <2>7 DEF WindowTo
  <2> QED
    BY <2>8, <2>9, <2>10 DEF WindowKept
<1>2. ASSUME NEW w \in Writer, Prune(w), ~UNCHANGED rows
      PROVE  WindowKept'
  <2>1. PICK c \in Sequences : /\ IsCutoff(c)
                               /\ rows' = [s \in {r \in Sequences : r >= c} |-> rows[s]]
    BY <1>2 DEF Prune
  <2>2. Sequences' = {r \in Sequences : r >= c}
    BY <2>1 DEF Sequences
  <2>3. PICK n \in Sequences \cup {0} : WindowTo(n)
    BY DEF WindowKept, WindowTo
  <2>4. n \in Sequences /\ n \in Nat /\ c \in Nat /\ c <= n
    BY <2>3 DEF WindowTo, IsTip, TypeOK
  <2>5. c = n - Retain + 1
    BY <2>1, <2>3, <2>4, CutoffBelowWindow
  <2>6. IsTip(n)'
    BY <2>2, <2>3, <2>4 DEF WindowTo, IsTip
  <2>7. \A k \in 1..n : k > n - Retain => k \in Sequences'
    BY <2>2, <2>3, <2>4, <2>5, ChainAssumption DEF WindowTo
  <2>8. \A s \in Sequences' : s..n \subseteq Sequences'
    BY <2>2, <2>3, <2>4 DEF WindowTo, TypeOK
  <2>9. n \in Sequences'
    BY <2>2, <2>4
  <2> QED
    BY <2>6, <2>7, <2>8, <2>9 DEF WindowKept
<1>3. CASE CorruptAny
  <2>1. Sequences' = Sequences
    BY <1>3 DEF CorruptAny, Corrupt, Sequences, TypeOK
  <2> QED
    BY <2>1, WindowUnchanged
<1>4. CASE UNCHANGED rows
  BY <1>4, WindowUnchanged DEF Sequences
<1> QED
  BY <1>1, <1>2, <1>3, <1>4
  DEF Step, WriteNext, Write, chainVars, ListCheckpoints, SelectBase, ReadTip, Stop

\* Sequence numbers are given out without a gap and the newest Retain checkpoints are
\* retained, whatever racing, stopped or repeated writes and prunings happen and
\* whatever storage does to the rows: append_checkpoint compares the tip inside its
\* transaction, and prune_checkpoints counts from it.
THEOREM RetentionWindow == Spec => []WindowKept
<1>1. Init => WindowKept
  BY DEF Init, WindowKept, IsTip, Sequences
<1>2. TypeOK /\ WindowKept /\ [Step]_chainVars => WindowKept'
  BY WindowStep
<1> QED
  BY <1>1, <1>2, ChainTypeCorrect, PTL DEF Spec, Step

-----------------------------------------------------------------------------
\* The recursion of _chain_is_valid.

\* A set of numbers has a least one: induction, with the set of counterexamples.
LEMMA LeastNumber ==
    ASSUME NEW T \in SUBSET Nat, T # {}
    PROVE  \E x \in T : \A y \in T : x <= y
<1> DEFINE R == OpToRel(<, Nat)
<1>1. IsWellFoundedOn(R, Nat)
  BY NatLessThanWellFounded
<1>2. \A a, b \in Nat : a < b => <<a, b>> \in R
  BY DEF OpToRel
<1> HIDE DEF R
<1>3. PICK x \in T : \A y \in T : ~ (<<y, x>> \in R)
  BY <1>1, WFMin
<1>4. ASSUME NEW y \in T PROVE x <= y
  <2>1. x \in Nat /\ y \in Nat /\ ~ (y < x)
    BY <1>2, <1>3
  <2> QED
    BY <2>1
<1> QED
  BY <1>4

\* What the row r needs, when f tells which rows are valid.
Valid(f, r) ==
    /\ SelfValid(r)
    /\ \/ Oldest(r)
       \/ rows[r].parent = NoHash /\ r = 1
       \/ \E p \in Sequences : /\ p < r /\ SelfValid(p)
                               /\ rows[r].parent = ChainHash(p)
                               /\ f[p]

UpTo(n) == {r \in Sequences : r <= n}
ValidUpTo(f, n) == f = [r \in UpTo(n) |-> Valid(f, r)]

LEMMA ValidExists ==
    ASSUME TypeOK, NEW n \in Nat
    PROVE  \E f : ValidUpTo(f, n)
<1>0. Sequences \subseteq Nat \ {0}
  BY DEF TypeOK
<1> DEFINE T == {m \in Nat : ~ \E f : ValidUpTo(f, m)}
<1> SUFFICES ASSUME T # {} PROVE FALSE
  OBVIOUS
<1>1. PICK m \in T : \A k \in T : m <= k
  <2>1. T \in SUBSET Nat
    OBVIOUS
  <2> HIDE DEF T
  <2> QED
    BY <2>1, LeastNumber
<1>2. m \in Nat /\ ~ \E f : ValidUpTo(f, m)
  OBVIOUS
<1>3. CASE m = 0
  <2>1. UpTo(0) = {}
    <3>1. \A r \in Sequences : ~ (r <= 0)
      BY <1>0
    <3> QED
      BY <3>1 DEF UpTo
  <2>2. ValidUpTo([r \in {} |-> TRUE], 0)
    BY <2>1 DEF ValidUpTo
  <2> QED
    BY <1>2, <1>3, <2>2
<1>4. CASE m # 0
  <2>1. m - 1 \in Nat /\ ~ (m <= m - 1)
    BY <1>2, <1>4
  <2>2. m - 1 \notin T
    BY <1>1, <2>1
  <2>3. PICK f : ValidUpTo(f, m - 1)
    BY <2>1, <2>2
  <2> HIDE DEF T
  <2> DEFINE g == [r \in UpTo(m) |-> IF r < m THEN f[r] ELSE Valid(f, r)]
  <2>4. ASSUME NEW r \in UpTo(m) PROVE g[r] = Valid(g, r)
    <3>1. r \in Sequences /\ r \in Nat /\ r <= m
      BY <1>0 DEF UpTo
    <3>2. ASSUME NEW p \in Sequences, p < r PROVE g[p] = f[p]
      <4>1. p \in UpTo(m) /\ p < m
        BY <1>0, <1>2, <3>1, <3>2 DEF UpTo
      <4> QED
        BY <4>1
    <3>3. Valid(g, r) = Valid(f, r)
      <4> HIDE DEF g
      <4> QED
        BY <3>2 DEF Valid
    <3>4. r < m => f[r] = Valid(f, r)
      <4>1. r < m => r \in UpTo(m - 1)
        BY <1>2, <3>1 DEF UpTo
      <4> QED
        BY <2>3, <4>1 DEF ValidUpTo
    <3>5. g[r] = IF r < m THEN f[r] ELSE Valid(f, r)
      OBVIOUS
    <3> HIDE DEF g
    <3> QED
      BY <3>3, <3>4, <3>5
  <2>5. ValidUpTo(g, m)
    <3>1. g = [r \in UpTo(m) |-> g[r]]
      OBVIOUS
    <3> HIDE DEF g
    <3> QED
      BY <2>4, <3>1 DEF ValidUpTo
  <2> QED
    BY <1>2, <2>5
<1> QED
  BY <1>3, <1>4

\* _chain_is_valid computes what its recursion says.
LEMMA ChainIsValidEquation ==
    ASSUME TypeOK, WindowKept, NEW s \in Sequences
    PROVE  ChainIsValid[s] = Valid(ChainIsValid, s)
<1>1. PICK n \in Nat : Sequences \subseteq UpTo(n)
  BY DEF WindowKept, IsTip, TypeOK, UpTo
<1>2. UpTo(n) = Sequences
  BY <1>1 DEF UpTo
<1>3. \E f : f = [r \in Sequences |-> Valid(f, r)]
  BY <1>2, ValidExists DEF ValidUpTo
<1> DEFINE g == CHOOSE f : f = [r \in Sequences |-> Valid(f, r)]
<1>4. g = [r \in Sequences |-> Valid(g, r)]
  BY <1>3
<1>5. ChainIsValid = [r \in Sequences |-> g[r]]
  BY DEF ChainIsValid, Valid
<1> HIDE DEF g
<1>6. ChainIsValid = g
  BY <1>4, <1>5
<1> QED
  BY <1>4, <1>6

\* The first checkpoint that is retained needs no parent.
LEMMA OldestIsValid ==
    ASSUME TypeOK, WindowKept, NEW s \in Sequences, Oldest(s), SelfValid(s)
    PROVE  ChainIsValid[s]
  BY ChainIsValidEquation DEF Valid

-----------------------------------------------------------------------------
\* Damage is counted: without any every row is as it was written, and after one
\* corruption at most one is not.
DamageCounted ==
    /\ corruptions = 0 => \A s \in Sequences : rows[s].condition = "intact"
    /\ corruptions = 1 =>
          \A s, r \in Sequences :
             rows[s].condition # "intact" /\ rows[r].condition # "intact" => s = r

LEMMA DamageStep ==
    ASSUME TypeOK, DamageCounted, [Step]_chainVars
    PROVE  DamageCounted'
<1>1. ASSUME NEW w \in Writer, AppendCheckpoint(w), ~UNCHANGED rows
      PROVE  DamageCounted'
  <2>1. PICK n : n = expected[w] + 1
    OBVIOUS
  <2>2. /\ rows' = [s \in Sequences \cup {n} |->
                       IF s = n THEN [parent |-> base[w], condition |-> "intact"]
                                ELSE rows[s]]
        /\ UNCHANGED corruptions
    BY <1>1, <2>1 DEF AppendCheckpoint
  <2>3. /\ Sequences' = Sequences \cup {n}
        /\ \A s \in Sequences' : rows'[s].condition # "intact" =>
              s \in Sequences /\ rows[s].condition # "intact"
    BY <2>2 DEF Sequences
  <2> QED
    BY <2>2, <2>3 DEF DamageCounted
<1>2. ASSUME NEW w \in Writer, Prune(w), ~UNCHANGED rows
      PROVE  DamageCounted'
  <2>1. PICK c \in Sequences : rows' = [s \in {r \in Sequences : r >= c} |-> rows[s]]
    BY <1>2 DEF Prune
  <2>2. Sequences' \subseteq Sequences /\ (\A s \in Sequences' : rows'[s] = rows[s])
        /\ UNCHANGED corruptions
    BY <1>2, <2>1 DEF Sequences, Prune
  <2> QED
    BY <2>2 DEF DamageCounted
<1>3. CASE CorruptAny
  <2>1. PICK s \in Sequences, condition \in {"unreadable", "altered"} : Corrupt(s, condition)
    BY <1>3 DEF CorruptAny
  <2>2. /\ corruptions' = corruptions + 1 /\ corruptions \in Nat
        /\ Sequences' = Sequences /\ \A r \in Sequences : r # s => rows'[r] = rows[r]
    BY <2>1 DEF Corrupt, Sequences, TypeOK
  <2>3. corruptions' # 0 /\ (corruptions' = 1 => corruptions = 0)
    BY <2>2
  <2> QED
    BY <2>2, <2>3 DEF DamageCounted
<1>4. CASE UNCHANGED <<rows, corruptions>>
  BY <1>4 DEF DamageCounted, Sequences
<1> QED
  BY <1>1, <1>2, <1>3, <1>4
  DEF Step, WriteNext, Write, chainVars, ListCheckpoints, SelectBase, ReadTip, Stop,
      AppendCheckpoint, Prune

LEMMA DamageIsCounted == Spec => []DamageCounted
<1>1. Init => DamageCounted
  BY DEF Init, DamageCounted, Sequences
<1>2. TypeOK /\ DamageCounted /\ [Step]_chainVars => DamageCounted'
  BY DamageStep
<1> QED
  BY <1>1, <1>2, ChainTypeCorrect, PTL DEF Spec, Step

\* recover_latest finds a checkpoint as long as storage damaged none, also when racing
\* writers forked the chain and prune_checkpoints cut it at the fork: the oldest retained
\* row is an anchor.
THEOREM IntactChainRecovers == Spec => []IntactIsRecoverable
<1>1. ASSUME TypeOK, WindowKept, DamageCounted PROVE IntactIsRecoverable
  <2> SUFFICES ASSUME corruptions = 0, Sequences # {} PROVE Recoverable
    BY DEF IntactIsRecoverable
  <2>1. PICK s \in Sequences : \A r \in Sequences : s <= r
    <3>1. Sequences \in SUBSET Nat
      BY <1>1 DEF TypeOK
    <3> QED
      BY <3>1, LeastNumber
  <2>2. Oldest(s) /\ SelfValid(s)
    BY <1>1, <2>1 DEF Oldest, SelfValid, DamageCounted
  <2> QED
    BY <1>1, <2>2, OldestIsValid DEF Recoverable
<1> QED
  BY <1>1, ChainTypeCorrect, RetentionWindow, DamageIsCounted, PTL

\* On a chain without forks every row is valid up to a row below which nothing is damaged.
LEMMA LinearIsValid ==
    ASSUME TypeOK, WindowKept, Linear, NEW t \in Sequences,
           \A r \in Sequences : r <= t => rows[r].condition = "intact"
    PROVE  ChainIsValid[t]
<1>0. Sequences \subseteq Nat \ {0}
  BY DEF TypeOK
<1> DEFINE T == {r \in Sequences : r <= t /\ ~ ChainIsValid[r]}
<1> SUFFICES ASSUME T # {} PROVE FALSE
  BY <1>0
<1>1. PICK r \in T : \A k \in T : r <= k
  <2>1. T \in SUBSET Nat
    BY <1>0
  <2> HIDE DEF T
  <2> QED
    BY <2>1, LeastNumber
<1>2. r \in Sequences /\ r \in Nat /\ r <= t /\ t \in Nat /\ ~ ChainIsValid[r] /\ SelfValid(r)
  BY <1>0 DEF SelfValid
<1>3. ~ Oldest(r)
  BY <1>2, OldestIsValid
<1>4. PICK o \in Sequences : o < r /\ o \in Nat
  BY <1>0, <1>2, <1>3 DEF Oldest
<1>5. r - 1 \in Sequences
  <2>1. PICK n \in Sequences \cup {0} : IsTip(n) /\ \A s \in Sequences : s..n \subseteq Sequences
    BY DEF WindowKept
  <2>2. n \in Nat /\ r <= n
    BY <1>0, <1>2, <2>1 DEF IsTip
  <2>3. r - 1 \in o..n
    BY <1>2, <1>4, <2>2
  <2> QED
    BY <1>4, <2>1, <2>3
<1>6. r - 1 <= t /\ r - 1 < r /\ ~ (r <= r - 1)
  BY <1>2
<1>7. ChainIsValid[r - 1]
  BY <1>1, <1>5, <1>6
<1> HIDE DEF T
<1>8. rows[r - 1].condition = "intact"
  BY <1>5, <1>6
<1>9. SelfValid(r - 1) /\ rows[r].parent = ChainHash(r - 1)
  BY <1>2, <1>5, <1>8 DEF Linear, SelfValid, ChainHash
<1>10. Valid(ChainIsValid, r)
  BY <1>2, <1>5, <1>6, <1>7, <1>9 DEF Valid
<1> QED
  BY <1>2, <1>10, ChainIsValidEquation

\* recover_latest selects the newest checkpoint of a chain that no race has forked, and
\* the one before it when the newest one is the only damage.
THEOREM NewestIsSelected == Spec => []NewestSelected
<1>1. ASSUME TypeOK, WindowKept, DamageCounted PROVE NewestSelected
  <2>0. Sequences \subseteq Nat \ {0}
    BY <1>1 DEF TypeOK
  <2> SUFFICES ASSUME NEW s \in Sequences, Linear, IsTip(s)
               PROVE  /\ corruptions = 0 => IsSelected(s)
                      /\ corruptions = 1 /\ ~SelfValid(s) /\ s - 1 \in Sequences =>
                            IsSelected(s - 1)
    BY DEF NewestSelected
  <2>1. \A r \in Sequences : r <= s
    BY DEF IsTip
  <2>2. ASSUME corruptions = 0 PROVE IsSelected(s)
    <3>1. \A r \in Sequences : r <= s => rows[r].condition = "intact"
      BY <1>1, <2>2 DEF DamageCounted
    <3>2. ChainIsValid[s]
      BY <1>1, <3>1, LinearIsValid
    <3> QED
      BY <2>1, <3>2 DEF IsSelected
  <2>3. ASSUME corruptions = 1, ~SelfValid(s), s - 1 \in Sequences PROVE IsSelected(s - 1)
    <3>0. PICK t \in Sequences : t = s - 1
      BY <2>3
    <3>1. s \in Nat /\ t \in Nat /\ t < s
      BY <2>0, <3>0
    <3>2. \A r \in Sequences : r <= t => r # s
      BY <2>0, <3>1
    <3>3. \A r \in Sequences : r <= t => rows[r].condition = "intact"
      BY <1>1, <2>3, <3>2 DEF DamageCounted, SelfValid
    <3>4. ChainIsValid[t]
      BY <1>1, <3>3, LinearIsValid
    <3>5. ~ ChainIsValid[s]
      BY <1>1, <2>3, ChainIsValidEquation DEF Valid
    <3>6. \A r \in Sequences : r # s => r <= t
      BY <2>0, <2>1, <3>0, <3>1
    <3>7. \A r \in Sequences : ChainIsValid[r] => r <= t
      BY <3>5, <3>6
    <3> QED
      BY <3>0, <3>4, <3>7 DEF IsSelected
  <2> QED
    BY <2>2, <2>3
<1> QED
  BY <1>1, ChainTypeCorrect, RetentionWindow, DamageIsCounted, PTL
=============================================================================
