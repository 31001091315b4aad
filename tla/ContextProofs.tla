---------------------------- MODULE ContextProofs ----------------------------
(***************************************************************************)
(* The context of a run for every budget, every number of workers and      *)
(* tasks and every size of the items: a compression forgets nothing that   *)
(* it has room to refer to, a run summary is final, and a restart goes on  *)
(* where the last worker was.                                              *)
(***************************************************************************)
EXTENDS ContextAssembly, FiniteSetTheorems, WellFoundedInduction, TLAPS

-----------------------------------------------------------------------------
\* Numbers and tokens.

\* A set of numbers has a least one: induction, with the set of counterexamples.
LEMMA LeastNumber ==
    ASSUME NEW T \in SUBSET Nat, T # {}
    PROVE  \E x \in T : \A y \in T : x <= y
<1> DEFINE R == OpToRel(<, Nat)
<1>1. IsWellFoundedOn(R, Nat)
  BY NatLessThanWellFounded
<1>2. \A a, b \in Nat : a < b => <<a, b>> \in R
  BY DEF OpToRel
<1> HIDE DEF R
<1>3. PICK x \in T : \A y \in T : ~ (<<y, x>> \in R)
  BY <1>1, WFMin
<1>4. ASSUME NEW y \in T PROVE x <= y
  <2>1. x \in Nat /\ y \in Nat /\ ~ (y < x)
    BY <1>2, <1>3
  <2> QED
    BY <2>1
<1> QED
  BY <1>4

LEMMA GreaterOfTwo ==
    ASSUME NEW a \in Int, NEW b \in Int
    PROVE  Max({a, b}) \in {a, b} /\ Max({a, b}) >= a /\ Max({a, b}) >= b
<1>1. \E x \in {a, b} : \A y \in {a, b} : x >= y
  OBVIOUS
<1>2. /\ Max({a, b}) \in {a, b} /\ \A y \in {a, b} : Max({a, b}) >= y
  BY <1>1 DEF Max
<1> QED
  BY <1>2

LEMMA LesserOfTwo ==
    ASSUME NEW a \in Nat, NEW b \in Nat
    PROVE  Min({a, b}) \in Nat
<1>1. \E x \in {a, b} : \A y \in {a, b} : x =< y
  OBVIOUS
<1>2. Min({a, b}) \in {a, b}
  BY <1>1 DEF Min
<1> QED
  BY <1>2

LEMMA FirstNumbers ==
    ASSUME NEW n \in Nat
    PROVE  IsFiniteSet(1 .. n) /\ Cardinality(1 .. n) = n
<1>1. 1 \in Int /\ n \in Int
  OBVIOUS
<1>2. IsFiniteSet(1 .. n) /\ Cardinality(1 .. n) = IF 1 > n THEN 0 ELSE n - 1 + 1
  BY <1>1, FS_Interval
<1> QED
  BY <1>2

Bag(items) == UNION {{i} \X (1 .. i.tokens) : i \in items}

\* A finite set of items has a number of tokens.
LEMMA TokensType ==
    ASSUME NEW items \in SUBSET Item, IsFiniteSet(items)
    PROVE  IsFiniteSet(Bag(items)) /\ Tokens(items) \in Nat
<1> DEFINE f == [i \in items |-> {i} \X (1 .. i.tokens)]
<1> DEFINE T == {{i} \X (1 .. i.tokens) : i \in items}
<1>1. f \in Surjection(items, T)
  BY DEF Surjection
<1>2. \A B \in T : IsFiniteSet(B)
  <2>1. ASSUME NEW i \in items PROVE IsFiniteSet({i} \X (1 .. i.tokens))
    <3>1. i.tokens \in Nat
      BY DEF Item
    <3>2. IsFiniteSet(1 .. i.tokens)
      BY <3>1, FirstNumbers
    <3>3. IsFiniteSet({i})
      BY FS_Singleton
    <3> QED
      BY <3>2, <3>3, FS_Product
  <2> QED
    BY <2>1
<1> HIDE DEF f, T
<1>3. IsFiniteSet(T)
  BY <1>1, FS_Surjection
<1>4. IsFiniteSet(UNION T)
  BY <1>2, <1>3, FS_UNION
<1>5. Bag(items) = UNION T /\ Tokens(items) = Cardinality(UNION T)
  BY DEF Bag, Tokens, T
<1> QED
  BY <1>4, <1>5, FS_CardinalityType

\* More items have no fewer tokens.
LEMMA TokensMonotone ==
    ASSUME NEW items \in SUBSET Item, IsFiniteSet(items), NEW some \in SUBSET items
    PROVE  IsFiniteSet(some) /\ Tokens(some) \in Nat /\ Tokens(some) <= Tokens(items)
<1>1. IsFiniteSet(some) /\ some \in SUBSET Item
  BY FS_Subset
<1>2. IsFiniteSet(Bag(items)) /\ Tokens(some) \in Nat
  BY <1>1, TokensType
<1>3. Bag(some) \in SUBSET Bag(items)
  BY DEF Bag
<1>4. Cardinality(Bag(some)) <= Cardinality(Bag(items))
  BY <1>2, <1>3, FS_Subset
<1> QED
  BY <1>1, <1>2, <1>4 DEF Tokens, Bag

\* An item adds at most its tokens.
LEMMA TokensOfOneMore ==
    ASSUME NEW items \in SUBSET Item, IsFiniteSet(items), NEW i \in Item
    PROVE  /\ IsFiniteSet(items \cup {i}) /\ Tokens(items \cup {i}) \in Nat
           /\ Tokens(items \cup {i}) <= Tokens(items) + i.tokens
<1>1. i.tokens \in Nat
  BY DEF Item
<1> DEFINE B == {i} \X (1 .. i.tokens)
<1>2. IsFiniteSet(B) /\ Cardinality(B) = i.tokens
  <2>1. IsFiniteSet(1 .. i.tokens) /\ Cardinality(1 .. i.tokens) = i.tokens
    BY <1>1, FirstNumbers
  <2>2. IsFiniteSet({i}) /\ Cardinality({i}) = 1
    BY FS_Singleton
  <2>3. IsFiniteSet(B) /\ Cardinality(B) = 1 * i.tokens
    BY <2>1, <2>2, FS_Product
  <2> QED
    BY <1>1, <2>3
<1>3. Bag(items \cup {i}) = Bag(items) \cup B
  BY DEF Bag
<1> HIDE DEF B
<1>4. IsFiniteSet(Bag(items)) /\ Tokens(items) \in Nat
  BY TokensType
<1>5. IsFiniteSet(items \cup {i}) /\ Tokens(items \cup {i}) \in Nat
  <2>1. IsFiniteSet(items \cup {i}) /\ items \cup {i} \in SUBSET Item
    BY FS_AddElement
  <2> QED
    BY <2>1, TokensType
<1>6. Cardinality(Bag(items) \cap B) \in Nat
  <2>1. Bag(items) \cap B \in SUBSET B
    OBVIOUS
  <2>2. IsFiniteSet(Bag(items) \cap B)
    BY <1>2, <2>1, FS_Subset
  <2> QED
    BY <2>2, FS_CardinalityType
<1>7. Cardinality(Bag(items) \cup B)
         = Cardinality(Bag(items)) + Cardinality(B) - Cardinality(Bag(items) \cap B)
  BY <1>2, <1>4, FS_Union
<1>8. Tokens(items) = Cardinality(Bag(items)) /\ Tokens(items \cup {i}) = Cardinality(Bag(items) \cup B)
  BY <1>3 DEF Tokens, Bag
<1> QED
  BY <1>1, <1>2, <1>4, <1>5, <1>6, <1>7, <1>8

-----------------------------------------------------------------------------
\* What build selects.

\* One round of the selection; f[n - 1] is what was selected before.
Round(mandatory, order, f, n) ==
    IF n = 0 THEN mandatory
    ELSE IF Tokens(f[n - 1]) + order[n].tokens <= OptionalLimit(Tokens(mandatory))
         THEN f[n - 1] \cup {order[n]} ELSE f[n - 1]

Rounds(mandatory, order, f, n) == f = [m \in 0 .. n |-> Round(mandatory, order, f, m)]

LEMMA RoundsExist ==
    ASSUME NEW mandatory, NEW order, NEW n \in Nat
    PROVE  \E f : Rounds(mandatory, order, f, n)
<1> DEFINE T == {m \in Nat : ~ \E f : Rounds(mandatory, order, f, m)}
<1> SUFFICES ASSUME T # {} PROVE FALSE
  OBVIOUS
<1>1. PICK m \in T : \A k \in T : m <= k
  <2>1. T \in SUBSET Nat
    OBVIOUS
  <2> HIDE DEF T
  <2> QED
    BY <2>1, LeastNumber
<1>2. m \in Nat /\ ~ \E f : Rounds(mandatory, order, f, m)
  OBVIOUS
<1>3. CASE m = 0
  <2> DEFINE f == [i \in 0 .. 0 |-> mandatory]
  <2>1. Rounds(mandatory, order, f, 0)
    BY DEF Rounds, Round
  <2> QED
    BY <1>2, <1>3, <2>1
<1>4. CASE m # 0
  <2>1. m - 1 \in Nat /\ ~ (m <= m - 1)
    BY <1>2, <1>4
  <2>2. PICK f : Rounds(mandatory, order, f, m - 1)
    BY <1>1, <2>1
  <2> HIDE DEF T
  <2> DEFINE g == [i \in 0 .. m |-> IF i = m THEN Round(mandatory, order, f, i) ELSE f[i]]
  <2>3. ASSUME NEW i \in 0 .. m PROVE g[i] = Round(mandatory, order, g, i)
    <3>1. g[i] = IF i = m THEN Round(mandatory, order, f, i) ELSE f[i]
      OBVIOUS
    <3>2. i # 0 => i - 1 \in 0 .. m /\ i - 1 # m
      BY <1>2
    <3>3. i # 0 => g[i - 1] = f[i - 1]
      BY <3>2
    <3>4. i # m => f[i] = Round(mandatory, order, f, i)
      <4>1. i # m => i \in 0 .. m - 1
        BY <1>2
      <4> QED
        BY <2>2, <4>1 DEF Rounds
    <3> HIDE DEF g
    <3>5. Round(mandatory, order, g, i) = Round(mandatory, order, f, i)
      BY <3>3 DEF Round
    <3> QED
      BY <3>1, <3>4, <3>5
  <2>4. Rounds(mandatory, order, g, m)
    <3>1. g = [i \in 0 .. m |-> g[i]]
      OBVIOUS
    <3> HIDE DEF g
    <3> QED
      BY <2>3, <3>1 DEF Rounds
  <2> QED
    BY <1>2, <2>4
<1> QED
  BY <1>3, <1>4

\* The loop keeps what is mandatory, takes nothing from elsewhere and stays below its limit.
LEMMA GreedySelects ==
    ASSUME NEW mandatory \in SUBSET Item, IsFiniteSet(mandatory),
           NEW optional \in SUBSET Item, NEW order \in Seq(optional)
    PROVE  /\ mandatory \subseteq Greedy(mandatory, order)
           /\ Greedy(mandatory, order) \subseteq mandatory \cup optional
           /\ IsFiniteSet(Greedy(mandatory, order))
           /\ Tokens(Greedy(mandatory, order)) <= OptionalLimit(Tokens(mandatory))
<1> DEFINE g == CHOOSE f : f = [m \in 0 .. Len(order) |-> Round(mandatory, order, f, m)]
<1>0. PICK n \in Nat : n = Len(order) /\ DOMAIN order = 1 .. n
  OBVIOUS
<1>1. \E f : f = [m \in 0 .. Len(order) |-> Round(mandatory, order, f, m)]
  BY <1>0, RoundsExist DEF Rounds
<1>2. g = [m \in 0 .. Len(order) |-> Round(mandatory, order, g, m)]
  BY <1>1
<1>3. Greedy(mandatory, order) = g[Len(order)]
  BY DEF Greedy, Round
<1> HIDE DEF g
<1>4. \A m \in 0 .. n : g[m] = Round(mandatory, order, g, m)
  BY <1>0, <1>2
<1>5. PICK limit : limit = OptionalLimit(Tokens(mandatory))
  OBVIOUS
<1>6. Tokens(mandatory) \in Nat /\ Tokens(mandatory) <= limit /\ limit \in Int
  <2>1. Tokens(mandatory) \in Nat
    BY TokensType
  <2>2. Available - Reserve \in Int
    BY BudgetAssumption
  <2>3. PICK a \in Int, b \in Int : a = Available - Reserve /\ b = Tokens(mandatory)
    BY <2>1, <2>2
  <2>4. limit = Max({a, b})
    BY <1>5, <2>3 DEF OptionalLimit
  <2>5. Max({a, b}) \in {a, b} /\ Max({a, b}) >= b
    BY GreaterOfTwo
  <2> QED
    BY <2>1, <2>3, <2>4, <2>5
<1> DEFINE Good(m) == /\ mandatory \subseteq g[m] /\ g[m] \subseteq mandatory \cup optional
                      /\ IsFiniteSet(g[m]) /\ Tokens(g[m]) <= limit
<1> DEFINE T == {m \in Nat : m <= n /\ ~ Good(m)}
<1>7. T = {}
  <2> SUFFICES ASSUME T # {} PROVE FALSE
    OBVIOUS
  <2>1. PICK m \in T : \A k \in T : m <= k
    <3>1. T \in SUBSET Nat
      OBVIOUS
    <3> HIDE DEF T
    <3> QED
      BY <3>1, LeastNumber
  <2>2. m \in Nat /\ m <= n /\ ~ Good(m)
    OBVIOUS
  <2>3. g[m] = Round(mandatory, order, g, m)
    BY <1>4, <2>2
  <2>4. CASE m = 0
    BY <1>6, <2>2, <2>3, <2>4 DEF Round
  <2>5. CASE m # 0
    <3>1. m - 1 \in Nat /\ m - 1 <= n /\ ~ (m <= m - 1) /\ m \in 1 .. n
      BY <1>0, <2>2, <2>5
    <3>2. Good(m - 1)
      BY <2>1, <3>1
    <3>3. PICK S : S = g[m - 1]
      OBVIOUS
    <3>4. /\ mandatory \subseteq S /\ S \subseteq mandatory \cup optional
          /\ IsFiniteSet(S) /\ Tokens(S) <= limit /\ S \in SUBSET Item
      BY <3>2, <3>3
    <3>5. order[m] \in optional /\ order[m] \in Item
      BY <1>0, <3>1
    <3>6. g[m] = IF Tokens(S) + order[m].tokens <= limit THEN S \cup {order[m]} ELSE S
      BY <1>5, <2>3, <2>5, <3>3 DEF Round
    <3>7. CASE Tokens(S) + order[m].tokens <= limit
      <4>1. g[m] = S \cup {order[m]}
        BY <3>6, <3>7
      <4>2. /\ IsFiniteSet(g[m]) /\ Tokens(g[m]) \in Nat
            /\ Tokens(g[m]) <= Tokens(S) + order[m].tokens
        BY <3>4, <3>5, <4>1, TokensOfOneMore
      <4>3. Tokens(S) \in Nat /\ order[m].tokens \in Nat
        BY <3>4, <3>5, TokensType DEF Item
      <4>4. Tokens(g[m]) <= limit
        BY <1>6, <3>7, <4>2, <4>3
      <4> QED
        BY <2>2, <3>4, <3>5, <4>1, <4>2, <4>4
    <3>8. CASE ~ (Tokens(S) + order[m].tokens <= limit)
      BY <2>2, <3>4, <3>6, <3>8
    <3> QED
      BY <3>7, <3>8
  <2> QED
    BY <2>4, <2>5
<1>8. Good(n)
  BY <1>0, <1>7
<1> QED
  BY <1>0, <1>3, <1>5, <1>8

\* The orders of the optional items list them.
LEMMA OrdersList ==
    ASSUME NEW optional, IsFiniteSet(optional), NEW order \in Orders(optional)
    PROVE  order \in Seq(optional)
<1>1. PICK A, B : A = {i \in optional : i.category = "history"}
                  /\ B = {i \in optional : i.category = "summary"}
  OBVIOUS
<1>2. PICK first \in SetToSeqs(A), second \in SetToSeqs(B) : order = first \o second
  <2>1. Orders(optional) = {f \o g : f \in SetToSeqs(A), g \in SetToSeqs(B)}
    BY <1>1 DEF Orders
  <2> QED
    BY <2>1
<1>3. IsFiniteSet(A) /\ IsFiniteSet(B)
  <2>1. A \in SUBSET optional /\ B \in SUBSET optional
    BY <1>1
  <2> QED
    BY <2>1, FS_Subset
<1>4. Cardinality(A) \in Nat /\ Cardinality(B) \in Nat
  BY <1>3, FS_CardinalityType
<1>5. first \in [1 .. Cardinality(A) -> A] /\ second \in [1 .. Cardinality(B) -> B]
  BY <1>2 DEF SetToSeqs
<1>6. A \subseteq optional /\ B \subseteq optional
  BY <1>1
<1>7. first \in [1 .. Cardinality(A) -> optional] /\ second \in [1 .. Cardinality(B) -> optional]
  BY <1>5, <1>6
<1>8. first \in Seq(optional) /\ second \in Seq(optional)
  BY <1>4, <1>7
<1> QED
  BY <1>2, <1>8

-----------------------------------------------------------------------------
\* The inductive invariant, over the summary rows s and what they cover, f.

\* Items that a worker may hold: every summary among them is stored, and a run summary
\* is mandatory.
Known(s, items) ==
    /\ items \in SUBSET Item /\ IsFiniteSet(items)
    /\ \A i \in items : i.category = "summary" =>
          i.of \in DOMAIN s /\ (s[i.of].generation >= 3 => i.mandatory)

\* The tasks whose note is in the items or below a summary in them.
Reach(f, items) == Of(items, "history") \cup UNION {f[id] : id \in Of(items, "summary")}

\* What must be kept leaves room for a summary.
Room(items) == Tokens(Mandatory(items)) <= Available - Minimum

Told(f, items, learned) == Room(items) => learned \subseteq Reach(f, items)

\* A summary that may be stored under id.
Linked(s, summary, id) ==
    /\ summary \in Summary
    /\ \A p \in summary.parents : p \in DOMAIN s /\ p < id /\ s[p].generation < 3

\* What a summary stands for.
Behind(f, summary) == summary.sources \cup UNION {f[p] : p \in summary.parents}

\* The items that a worker goes on with after it stored r.
Continued(r) ==
    IF r.summary = None THEN r.selected ELSE Navigation(r.selected, r.built, r.summary)

\* A context that was built and is not stored yet.
Drafted(s, f, v) ==
    LET d == v.draft IN
    /\ d \in Draft /\ d.built \notin DOMAIN s /\ Known(s, d.selected)
    /\ d.summary = None => Told(f, d.selected, d.learned)
    /\ d.summary # None =>
          /\ Linked(s, d.summary, d.built)
          /\ d.summary.sources \subseteq Of(v.items, "history")
          /\ d.summary.parents \subseteq Of(v.items, "summary")
          /\ Room(d.selected) => d.learned \subseteq Reach(f, d.selected) \cup Behind(f, d.summary)

Working(s, f, v) ==
    /\ Known(s, v.items)
    /\ v.current \in DOMAIN s \cup {None}
    /\ v.pc \in {"ready", "build"} => Told(f, v.items, v.learned)
    /\ v.pc = "save" => Drafted(s, f, v) /\ v.draft.learned = v.learned

Latest(s, f, r) ==
    /\ Known(s, r.selected)
    /\ r.summary # None => r.built \in DOMAIN s /\ s[r.built] = r.summary
    /\ Told(f, Continued(r), r.learned)

Archived(s, items) ==
    \A id \in DOMAIN s : /\ Linked(s, s[id], id)
                         /\ s[id].sources \subseteq Of(items, "history")
                         /\ s[id].parents \subseteq Of(items, "summary")

\* The times of contexts tell them apart.
Unique ==
    /\ row.built <= built
    /\ \A w \in Worker :
          /\ worker[w].from <= built
          /\ worker[w].pc = "save" =>
                LET b == worker[w].draft.built IN
                /\ b \in 1 .. built /\ b # row.built
                /\ \A v \in Worker :
                      /\ worker[v].from # b
                      /\ v # w /\ worker[v].pc = "save" => worker[v].draft.built # b

Continues ==
    \A w \in Worker :
        worker[w].pc = "ready" /\ worker[w].from = row.built => worker[w].items = Continued(row)

ContextInv ==
    /\ TypeOK
    /\ Archived(summaries, archive)
    /\ Latest(summaries, Covers, row)
    /\ \A w \in Worker : Working(summaries, Covers, worker[w])
    /\ Unique /\ Continues

-----------------------------------------------------------------------------
\* What a summary covers, and that later rows do not change it.

Below(s, f, id) ==
    IF id \notin DOMAIN s THEN {}
    ELSE s[id].sources \cup UNION {f[p] : p \in {q \in s[id].parents : q < id}}

BelowUpTo(s, f, n) == f = [m \in 0 .. n |-> Below(s, f, m)]

LEMMA BelowExists ==
    ASSUME NEW s, \A id \in DOMAIN s : s[id].parents \subseteq Nat, NEW n \in Nat
    PROVE  \E f : BelowUpTo(s, f, n)
<1> DEFINE T == {m \in Nat : ~ \E f : BelowUpTo(s, f, m)}
<1> SUFFICES ASSUME T # {} PROVE FALSE
  OBVIOUS
<1>1. PICK m \in T : \A k \in T : m <= k
  <2>1. T \in SUBSET Nat
    OBVIOUS
  <2> HIDE DEF T
  <2> QED
    BY <2>1, LeastNumber
<1>2. m \in Nat /\ ~ \E f : BelowUpTo(s, f, m)
  OBVIOUS
<1>3. PICK f : m # 0 => BelowUpTo(s, f, m - 1)
  <2>1. m # 0 => m - 1 \in Nat /\ ~ (m <= m - 1)
    BY <1>2
  <2> QED
    BY <1>1, <2>1
<1> HIDE DEF T
<1> DEFINE g == [i \in 0 .. m |-> IF i < m THEN f[i] ELSE Below(s, f, i)]
<1>4. ASSUME NEW i \in 0 .. m PROVE g[i] = Below(s, g, i)
  <2>1. g[i] = IF i < m THEN f[i] ELSE Below(s, f, i)
    OBVIOUS
  <2>2. ASSUME NEW p \in Nat, p < i PROVE g[p] = f[p]
    <3>1. p \in 0 .. m /\ p < m
      BY <1>2, <2>2
    <3> QED
      BY <3>1
  <2>3. i < m => f[i] = Below(s, f, i)
    <3>1. i < m => i \in 0 .. m - 1 /\ m # 0
      BY <1>2
    <3> QED
      BY <1>3, <3>1 DEF BelowUpTo
  <2> HIDE DEF g
  <2>4. Below(s, g, i) = Below(s, f, i)
    <3>1. CASE i \in DOMAIN s
      <4>1. \A p \in {q \in s[i].parents : q < i} : g[p] = f[p]
        BY <2>2, <3>1
      <4> QED
        BY <4>1 DEF Below
    <3>2. CASE i \notin DOMAIN s
      BY <3>2 DEF Below
    <3> QED
      BY <3>1, <3>2
  <2> QED
    BY <2>1, <2>3, <2>4
<1>5. BelowUpTo(s, g, m)
  <2>1. g = [i \in 0 .. m |-> g[i]]
    OBVIOUS
  <2> HIDE DEF g
  <2> QED
    BY <1>4, <2>1 DEF BelowUpTo
<1> QED
  BY <1>2, <1>5

\* Rows that s has, t has too.
Extends(s, t) == DOMAIN s \subseteq DOMAIN t /\ \A id \in DOMAIN s : t[id] = s[id]

\* What a stored summary covers is what it stands for.
LEMMA CoversStored ==
    ASSUME NEW s, NEW f, NEW n \in Nat, BelowUpTo(s, f, n), NEW id \in DOMAIN s,
           id \in 1 .. n, Linked(s, s[id], id)
    PROVE  f[id] = Behind(f, s[id])
<1>1. f[id] = Below(s, f, id)
  <2>1. id \in 0 .. n
    OBVIOUS
  <2> QED
    BY <2>1 DEF BelowUpTo
<1>2. {q \in s[id].parents : q < id} = s[id].parents
  BY DEF Linked
<1> QED
  BY <1>1, <1>2 DEF Below, Behind

LEMMA CoversKept ==
    ASSUME NEW s, NEW t, NEW f, NEW g, NEW n \in Nat, NEW m \in Nat, n <= m,
           BelowUpTo(s, f, n), BelowUpTo(t, g, m), Extends(s, t),
           DOMAIN s \subseteq 1 .. n, \A id \in DOMAIN s : Linked(s, s[id], id)
    PROVE  \A id \in DOMAIN s : f[id] = g[id]
<1> DEFINE T == {id \in DOMAIN s : f[id] # g[id]}
<1> SUFFICES ASSUME T # {} PROVE FALSE
  OBVIOUS
<1>1. PICK id \in T : \A k \in T : id <= k
  <2>1. T \in SUBSET Nat
    OBVIOUS
  <2> HIDE DEF T
  <2> QED
    BY <2>1, LeastNumber
<1>2. id \in DOMAIN s /\ f[id] # g[id] /\ id \in Nat /\ id \in 0 .. n /\ id \in 0 .. m
  OBVIOUS
<1>3. ASSUME NEW p \in s[id].parents PROVE f[p] = g[p]
  <2>1. p \in DOMAIN s /\ p < id /\ p \in Nat
    BY <1>2 DEF Linked
  <2> QED
    BY <1>1, <1>2, <2>1
<1> HIDE DEF T
<1>4. f[id] = Below(s, f, id) /\ g[id] = Below(t, g, id)
  BY <1>2 DEF BelowUpTo
<1>5. t[id] = s[id] /\ id \in DOMAIN t
  BY <1>2 DEF Extends
<1> QED
  BY <1>2, <1>3, <1>4, <1>5 DEF Below

\* Covers in a state and in the next one.
LEMMA CoversRecursion ==
    ASSUME TypeOK
    PROVE  BelowUpTo(summaries, Covers, built)
<1>1. built \in Nat /\ \A id \in DOMAIN summaries : summaries[id].parents \subseteq Nat
  BY DEF TypeOK, Summary
<1>2. \E f : f = [n \in 0 .. built |-> Below(summaries, f, n)]
  BY <1>1, BelowExists DEF BelowUpTo
<1>3. Covers = CHOOSE f : f = [n \in 0 .. built |-> Below(summaries, f, n)]
  BY DEF Covers, Below
<1> QED
  BY <1>2, <1>3 DEF BelowUpTo

LEMMA CoversRecursionNext ==
    ASSUME TypeOK'
    PROVE  BelowUpTo(summaries', Covers', built')
<1>1. built' \in Nat /\ \A id \in DOMAIN summaries' : summaries'[id].parents \subseteq Nat
  BY DEF TypeOK, Summary
<1>2. \E f : f = [n \in 0 .. built' |-> Below(summaries', f, n)]
  BY <1>1, BelowExists DEF BelowUpTo
<1>3. Covers' = CHOOSE f : f = [n \in 0 .. built' |-> Below(summaries', f, n)]
  BY DEF Covers, Below
<1> QED
  BY <1>2, <1>3 DEF BelowUpTo

-----------------------------------------------------------------------------
\* More rows change nothing for those who know the earlier ones.

LEMMA KnownKept ==
    ASSUME NEW s, NEW t, Extends(s, t), NEW items, Known(s, items)
    PROVE  Known(t, items)
  BY DEF Known, Extends

LEMMA LinkedKept ==
    ASSUME NEW s, NEW t, Extends(s, t), NEW summary, NEW id, Linked(s, summary, id)
    PROVE  Linked(t, summary, id)
  BY DEF Linked, Extends

LEMMA ReachKept ==
    ASSUME NEW s, NEW f, NEW g, \A id \in DOMAIN s : f[id] = g[id], NEW items, Known(s, items)
    PROVE  Reach(g, items) = Reach(f, items)
<1>1. \A id \in Of(items, "summary") : f[id] = g[id]
  BY DEF Known, Of
<1> QED
  BY <1>1 DEF Reach

LEMMA BehindKept ==
    ASSUME NEW s, NEW f, NEW g, \A id \in DOMAIN s : f[id] = g[id],
           NEW summary, NEW id, Linked(s, summary, id)
    PROVE  Behind(g, summary) = Behind(f, summary)
<1>1. \A p \in summary.parents : f[p] = g[p]
  BY DEF Linked
<1> QED
  BY <1>1 DEF Behind

LEMMA WorkingKept ==
    ASSUME NEW s, NEW t, Extends(s, t), NEW f, NEW g, \A id \in DOMAIN s : f[id] = g[id],
           NEW v, Working(s, f, v), v.pc = "save" => v.draft.built \notin DOMAIN t
    PROVE  Working(t, g, v)
<1>1. Known(t, v.items)
  BY KnownKept DEF Working
<1>2. v.current \in DOMAIN t \cup {None}
  BY DEF Working, Extends
<1>3. v.pc \in {"ready", "build"} => Told(g, v.items, v.learned)
  <2>1. Reach(g, v.items) = Reach(f, v.items)
    BY ReachKept DEF Working
  <2> QED
    BY <2>1 DEF Working, Told
<1>4. ASSUME v.pc = "save" PROVE Drafted(t, g, v)
  <2>1. Drafted(s, f, v)
    BY <1>4 DEF Working
  <2>2. PICK d : d = v.draft
    OBVIOUS
  <2>3. Known(s, d.selected) /\ Known(t, d.selected)
    BY <2>1, <2>2, KnownKept DEF Drafted
  <2>4. Reach(g, d.selected) = Reach(f, d.selected)
    BY <2>3, ReachKept
  <2>5. d.summary # None =>
           Linked(t, d.summary, d.built) /\ Behind(g, d.summary) = Behind(f, d.summary)
    BY <2>1, <2>2, LinkedKept, BehindKept DEF Drafted
  <2> QED
    BY <1>4, <2>1, <2>2, <2>3, <2>4, <2>5 DEF Drafted, Told
<1> QED
  BY <1>1, <1>2, <1>3, <1>4 DEF Working

LEMMA NavigationKnown ==
    ASSUME NEW s, NEW items, Known(s, items), NEW id \in DOMAIN s, id \in Nat, s[id] \in Summary
    PROVE  /\ Known(s, Navigation(items, id, s[id]))
           /\ items \subseteq Navigation(items, id, s[id])
           /\ id \in Of(Navigation(items, id, s[id]), "summary")
<1>1. CASE id \in Of(items, "summary")
  BY <1>1 DEF Navigation
<1>2. CASE id \notin Of(items, "summary")
  <2>1. PICK i : i = NewItem("summary", id, s[id].tokens, s[id].generation >= 3)
    OBVIOUS
  <2>2. /\ i \in Item /\ i.category = "summary" /\ i.of = id
        /\ s[id].generation >= 3 => i.mandatory
    <3>0. s[id].tokens \in Nat /\ (s[id].generation >= 3) \in BOOLEAN
      BY DEF Summary
    <3>1. PICK n \in Nat, b \in BOOLEAN : n = s[id].tokens /\ b = (s[id].generation >= 3)
      BY <3>0, Zenon
    <3>2. i = [category |-> "summary", of |-> id, tokens |-> n, mandatory |-> b]
      BY <2>1, <3>1 DEF NewItem
    <3> QED
      BY <3>1, <3>2 DEF Item
  <2>3. Navigation(items, id, s[id]) = items \cup {i}
    BY <1>2, <2>1 DEF Navigation
  <2>4. IsFiniteSet(items \cup {i})
    BY FS_AddElement DEF Known
  <2>5. Known(s, items \cup {i})
    BY <2>2, <2>4 DEF Known
  <2>6. id \in Of(items \cup {i}, "summary")
    BY <2>2 DEF Of
  <2> QED
    BY <2>3, <2>5, <2>6
<1> QED
  BY <1>1, <1>2

LEMMA ContinuedKnown ==
    ASSUME NEW s, NEW f, DOMAIN s \subseteq Nat, NEW r \in Draft, Latest(s, f, r)
    PROVE  Known(s, Continued(r))
<1>1. CASE r.summary = None
  BY <1>1 DEF Latest, Continued
<1>2. CASE r.summary # None
  <2>1. r.built \in DOMAIN s /\ s[r.built] = r.summary /\ r.summary \in Summary /\ r.built \in Nat
    BY <1>2 DEF Latest, Draft
  <2> QED
    BY <1>2, <2>1, NavigationKnown DEF Latest, Continued
<1> QED
  BY <1>1, <1>2

LEMMA LatestKept ==
    ASSUME NEW s, NEW t, Extends(s, t), NEW f, NEW g, \A id \in DOMAIN s : f[id] = g[id],
           DOMAIN s \subseteq Nat, NEW r \in Draft, Latest(s, f, r)
    PROVE  Latest(t, g, r)
<1>1. Known(t, r.selected)
  BY KnownKept DEF Latest
<1>2. r.summary # None => r.built \in DOMAIN t /\ t[r.built] = r.summary
  BY DEF Latest, Extends
<1>3. Known(s, Continued(r))
  BY ContinuedKnown
<1>4. Reach(g, Continued(r)) = Reach(f, Continued(r))
  BY <1>3, ReachKept
<1> QED
  BY <1>1, <1>2, <1>4 DEF Latest, Told

-----------------------------------------------------------------------------
\* A context that is built.

\* What Build may select of items.
Selections(items) ==
    IF Tokens(items) <= CompressionAt THEN {items}
    ELSE {Greedy(Mandatory(items), order) : order \in Orders(items \ Mandatory(items))}

LEMMA SelectionKeeps ==
    ASSUME NEW items \in SUBSET Item, IsFiniteSet(items), NEW selected \in Selections(items)
    PROVE  /\ Mandatory(items) \subseteq selected /\ selected \subseteq items
           /\ selected = items \/ Tokens(selected) <= OptionalLimit(Tokens(Mandatory(items)))
<1>1. PICK kept : kept = Mandatory(items)
  OBVIOUS
<1>2. kept \subseteq items
  BY <1>1 DEF Mandatory
<1>3. CASE Tokens(items) <= CompressionAt
  BY <1>1, <1>2, <1>3 DEF Selections
<1>4. CASE ~ (Tokens(items) <= CompressionAt)
  <2>1. PICK order \in Orders(items \ kept) : selected = Greedy(kept, order)
    BY <1>1, <1>4 DEF Selections
  <2>2. PICK optional : optional = items \ kept
    OBVIOUS
  <2>3. /\ IsFiniteSet(kept) /\ kept \in SUBSET Item
        /\ IsFiniteSet(optional) /\ optional \in SUBSET Item
    BY <1>2, <2>2, FS_Subset
  <2>4. order \in Seq(optional)
    BY <2>1, <2>2, <2>3, OrdersList
  <2>5. /\ kept \subseteq selected /\ selected \subseteq kept \cup optional
        /\ Tokens(selected) <= OptionalLimit(Tokens(kept))
    BY <2>1, <2>3, <2>4, GreedySelects
  <2> QED
    BY <1>1, <1>2, <2>2, <2>5
<1> QED
  BY <1>3, <1>4

\* Nothing is dropped without a summary c unless there is no room for one.
Replaces(c, items, selected) ==
    /\ c \in Summary \cup {None}
    /\ c = None => selected = items \/ ~ Room(selected)
    /\ c # None => /\ c.sources = Of(items \ selected, "history")
                   /\ c.parents = Of(items \ selected, "summary")

LEMMA CompressLinks ==
    ASSUME NEW items \in SUBSET Item, IsFiniteSet(items), NEW selected \in Selections(items),
           NEW generation \in 1 .. 3
    PROVE  Replaces(Compress(items, selected, generation), items, selected)
<1>0. PICK c : c = Compress(items, selected, generation)
  OBVIOUS
<1>1. /\ Mandatory(items) \subseteq selected /\ selected \subseteq items
      /\ selected = items \/ Tokens(selected) <= OptionalLimit(Tokens(Mandatory(items)))
  BY SelectionKeeps
<1>2. PICK removed, maximum : removed = items \ selected /\ maximum = Available - Tokens(selected)
  OBVIOUS
<1>3. /\ IsFiniteSet(selected) /\ Tokens(selected) \in Nat
      /\ IsFiniteSet(removed) /\ Tokens(removed) \in Nat
  BY <1>1, <1>2, TokensMonotone
<1>4. Available \in Nat /\ Minimum \in Nat /\ Reserve \in Nat /\ Minimum <= Reserve /\ HeaderTokens \in Nat
  BY BudgetAssumption
<1>5. CASE removed = {} \/ maximum < Minimum
  <2>1. c = None
    BY <1>0, <1>2, <1>5 DEF Compress
  <2>2. ASSUME selected # items PROVE ~ Room(selected)
    <3>1. removed # {} /\ maximum < Minimum
      BY <1>1, <1>2, <1>5, <2>2
    <3>2. PICK k \in Nat, n \in Nat : k = Tokens(Mandatory(items)) /\ n = Tokens(selected)
      <4>1. Mandatory(items) \in SUBSET items
        BY DEF Mandatory
      <4>2. Tokens(Mandatory(items)) \in Nat
        BY <4>1, TokensMonotone
      <4> QED
        BY <1>3, <4>2
    <3>3. n <= Max({Available - Reserve, k})
      BY <1>1, <2>2, <3>2 DEF OptionalLimit
    <3>4. n > Available - Minimum
      BY <1>2, <1>3, <1>4, <3>1, <3>2
    <3>5. k > Available - Minimum
      <4>1. PICK a \in Int : a = Available - Reserve
        BY <1>4
      <4>2. Max({a, k}) \in {a, k}
        BY GreaterOfTwo
      <4>3. n <= a \/ n <= k
        BY <3>3, <4>1, <4>2
      <4> QED
        BY <1>4, <3>4, <4>1, <4>3
    <3>6. Mandatory(items) \in SUBSET Mandatory(selected) /\ Mandatory(selected) \in SUBSET selected
      BY <1>1 DEF Mandatory
    <3>7. Mandatory(selected) \in SUBSET Item /\ IsFiniteSet(Mandatory(selected))
      BY <1>1, <1>3, <3>6, FS_Subset
    <3>8. Tokens(Mandatory(selected)) \in Nat /\ k <= Tokens(Mandatory(selected))
      BY <3>2, <3>6, <3>7, TokensMonotone, TokensType
    <3> QED
      BY <1>4, <3>2, <3>5, <3>8 DEF Room
  <2> QED
    BY <1>0, <2>1, <2>2 DEF Replaces
<1>6. CASE ~ (removed = {} \/ maximum < Minimum)
  <2>1. PICK n : n = Min({Tokens(removed) + HeaderTokens, maximum})
    OBVIOUS
  <2>2. n \in Nat
    <3>1. maximum \in Nat /\ Tokens(removed) + HeaderTokens \in Nat
      BY <1>2, <1>3, <1>4, <1>6
    <3> QED
      BY <2>1, <3>1, LesserOfTwo
  <2>3. c = [tokens |-> n, sources |-> Of(removed, "history"),
             parents |-> Of(removed, "summary"), generation |-> generation]
    BY <1>0, <1>2, <1>6, <2>1 DEF Compress
  <2>4. Of(removed, "history") \subseteq Nat /\ Of(removed, "summary") \subseteq Nat
    BY <1>2 DEF Of, Item
  <2>5. c \in Summary
    BY <2>2, <2>3, <2>4 DEF Summary
  <2> QED
    BY <1>0, <1>2, <2>3, <2>5, BudgetAssumption DEF Replaces
<1> QED
  BY <1>5, <1>6

LEMMA ReachSplit ==
    ASSUME NEW f, NEW items, NEW selected, selected \subseteq items, NEW c,
           c.sources = Of(items \ selected, "history"),
           c.parents = Of(items \ selected, "summary")
    PROVE  Reach(f, items) \subseteq Reach(f, selected) \cup Behind(f, c)
<1>1. Of(items, "history") \subseteq Of(selected, "history") \cup c.sources
  BY DEF Of
<1>2. Of(items, "summary") \subseteq Of(selected, "summary") \cup c.parents
  BY DEF Of
<1> QED
  BY <1>1, <1>2 DEF Reach, Behind

\* The draft of a build is as the invariant wants it.
Drawn(time, items, selected, generation, learned) ==
    [built |-> time, selected |-> selected, summary |-> Compress(items, selected, generation),
     learned |-> learned]

LEMMA BuildDrafts ==
    ASSUME NEW s, NEW f, NEW v, NEW n \in Nat, DOMAIN s \subseteq 1 .. n,
           \A id \in DOMAIN s : s[id] \in Summary,
           Known(s, v.items), Told(f, v.items, v.learned), v.learned \subseteq Nat,
           NEW t \in Nat, NEW items, Known(s, items), v.items \subseteq items,
           t \in Of(items, "history"),
           NEW selected \in Selections(items), NEW generation \in 1 .. 3, NEW u,
           u.items = items, u.draft = Drawn(n + 1, items, selected, generation, v.learned \cup {t})
    PROVE  Drafted(s, f, u)
<1>1. PICK d : d = u.draft
  OBVIOUS
<1>2. PICK c : c = Compress(items, selected, generation)
  OBVIOUS
<1>3. d.built = n + 1 /\ d.selected = selected /\ d.summary = c /\ d.learned = v.learned \cup {t}
  BY <1>1, <1>2 DEF Drawn
<1>4. items \in SUBSET Item /\ IsFiniteSet(items)
  BY DEF Known
<1>5. Mandatory(items) \subseteq selected /\ selected \subseteq items
  BY <1>4, SelectionKeeps
<1>6. /\ c \in Summary \cup {None}
      /\ c = None => selected = items \/ ~ Room(selected)
      /\ c # None => /\ c.sources = Of(items \ selected, "history")
                     /\ c.parents = Of(items \ selected, "summary")
  <2>1. Replaces(Compress(items, selected, generation), items, selected)
    BY <1>4, CompressLinks
  <2> QED
    BY <1>2, <2>1 DEF Replaces
<1>7. Known(s, selected)
  BY <1>4, <1>5, FS_Subset DEF Known
<1>8. Room(selected) => v.learned \cup {t} \subseteq Reach(f, items)
  <2>1. Mandatory(v.items) \in SUBSET Mandatory(selected) /\ Mandatory(selected) \in SUBSET selected
    BY <1>5 DEF Mandatory
  <2>2. Mandatory(selected) \in SUBSET Item /\ IsFiniteSet(Mandatory(selected))
    BY <1>7, <2>1, FS_Subset DEF Known
  <2>3. /\ Tokens(Mandatory(v.items)) \in Nat /\ Tokens(Mandatory(selected)) \in Nat
        /\ Tokens(Mandatory(v.items)) <= Tokens(Mandatory(selected))
    BY <2>1, <2>2, TokensMonotone, TokensType
  <2>4. Room(selected) => Room(v.items)
    <3>1. Available - Minimum \in Int
      BY BudgetAssumption
    <3> QED
      BY <2>3, <3>1 DEF Room
  <2>5. Reach(f, v.items) \subseteq Reach(f, items)
    BY DEF Reach, Of
  <2>6. t \in Reach(f, items)
    BY DEF Reach
  <2> QED
    BY <2>4, <2>5, <2>6 DEF Told
<1>9. c = None => Told(f, selected, v.learned \cup {t})
  BY <1>6, <1>8 DEF Told
<1>10. ASSUME c # None
       PROVE  /\ Linked(s, c, n + 1)
              /\ c.sources \subseteq Of(items, "history") /\ c.parents \subseteq Of(items, "summary")
              /\ Room(selected) => v.learned \cup {t} \subseteq Reach(f, selected) \cup Behind(f, c)
  <2>1. Reach(f, items) \subseteq Reach(f, selected) \cup Behind(f, c)
    BY <1>5, <1>6, <1>10, ReachSplit
  <2>2. c.sources \subseteq Of(items, "history") /\ c.parents \subseteq Of(items, "summary")
    BY <1>6, <1>10 DEF Of
  <2>3. ASSUME NEW p \in c.parents PROVE p \in DOMAIN s /\ p < n + 1 /\ s[p].generation < 3
    <3>1. PICK i \in items \ selected : i.category = "summary" /\ i.of = p
      BY <1>6, <1>10 DEF Of
    <3>2. p \in DOMAIN s /\ (s[p].generation >= 3 => i.mandatory)
      BY <3>1 DEF Known
    <3>3. ~ i.mandatory
      BY <1>5, <3>1 DEF Mandatory
    <3>4. s[p].generation \in 1 .. 3 /\ p \in 1 .. n
      BY <3>2 DEF Summary
    <3> QED
      BY <3>2, <3>3, <3>4
  <2> QED
    BY <1>6, <1>8, <1>10, <2>1, <2>2, <2>3 DEF Linked
<1>11. d \in Draft /\ d.built \notin DOMAIN s
  <2>1. n + 1 \in Nat /\ n + 1 \notin 1 .. n
    OBVIOUS
  <2>2. v.learned \cup {t} \in SUBSET Nat /\ selected \in SUBSET Item
    BY <1>4, <1>5
  <2>3. d = [built |-> n + 1, selected |-> selected, summary |-> c, learned |-> v.learned \cup {t}]
    BY <1>1, <1>2 DEF Drawn
  <2> QED
    BY <1>3, <1>6, <2>1, <2>2, <2>3 DEF Draft
<1> QED
  BY <1>1, <1>3, <1>7, <1>9, <1>10, <1>11 DEF Drafted

-----------------------------------------------------------------------------
\* The steps.

LEMMA CoversNext ==
    ASSUME ContextInv, TypeOK', Extends(summaries, summaries'), built <= built'
    PROVE  \A id \in DOMAIN summaries : Covers[id] = Covers'[id]
<1>1. /\ BelowUpTo(summaries, Covers, built) /\ BelowUpTo(summaries', Covers', built')
      /\ built \in Nat /\ built' \in Nat /\ DOMAIN summaries \subseteq 1 .. built
      /\ \A id \in DOMAIN summaries : Linked(summaries, summaries[id], id)
  BY CoversRecursion, CoversRecursionNext DEF ContextInv, TypeOK, Archived
<1> QED
  BY <1>1, CoversKept

LEMMA IdleWorks ==
    ASSUME NEW s, NEW f
    PROVE  Working(s, f, Idle) /\ Idle \in Call
<1>1. Known(s, {})
  BY FS_EmptySet DEF Known
<1> QED
  BY <1>1 DEF Working, Idle, Call

\* A step that stores nothing concerns only the worker that takes it.
LEMMA OneWorks ==
    ASSUME ContextInv, TypeOK', UNCHANGED <<row, summaries, archive>>, built <= built',
           NEW w \in Worker, \A v \in Worker \ {w} : worker'[v] = worker[v],
           Working(summaries', Covers', worker'[w]), Unique',
           worker'[w].pc = "ready" /\ worker'[w].from = row.built =>
               worker'[w].items = Continued(row)
    PROVE  ContextInv'
<1>1. Extends(summaries, summaries') /\ summaries' = summaries
  BY DEF Extends
<1>2. \A id \in DOMAIN summaries : Covers[id] = Covers'[id]
  BY <1>1, CoversNext
<1>3. Archived(summaries', archive')
  BY DEF ContextInv
<1>4. Latest(summaries', Covers', row')
  <2>1. /\ DOMAIN summaries \subseteq Nat /\ row \in Draft /\ row' = row
        /\ Latest(summaries, Covers, row)
    BY DEF ContextInv, TypeOK
  <2> QED
    BY <1>1, <1>2, <2>1, LatestKept
<1>5. ASSUME NEW v \in Worker PROVE Working(summaries', Covers', worker'[v])
  <2>1. CASE v = w
    BY <2>1
  <2>2. CASE v # w
    <3>1. worker'[v] = worker[v] /\ Working(summaries, Covers, worker[v])
      BY <2>2 DEF ContextInv
    <3>2. worker[v].pc = "save" => worker[v].draft.built \notin DOMAIN summaries'
      BY <1>1, <3>1 DEF Working, Drafted
    <3> QED
      BY <1>1, <1>2, <3>1, <3>2, WorkingKept
  <2> QED
    BY <2>1, <2>2
<1>6. Continues'
  BY DEF ContextInv, Continues
<1> QED
  BY <1>3, <1>4, <1>5, <1>6 DEF ContextInv

LEMMA InitInv == Init => ContextInv
<1> SUFFICES ASSUME Init PROVE ContextInv
  OBVIOUS
<1>1. TypeOK
  <2>1. Idle \in Call
    BY IdleWorks
  <2>2. row \in Draft
    BY DEF Init, Draft
  <2>3. worker \in [Worker -> Call]
    BY <2>1 DEF Init
  <2>4. summaries \in [DOMAIN summaries -> Summary] /\ DOMAIN summaries = {}
    BY DEF Init
  <2> QED
    BY <2>2, <2>3, <2>4, BudgetAssumption DEF Init, TypeOK
<1>2. Archived(summaries, archive)
  BY DEF Init, Archived
<1>3. Latest(summaries, Covers, row)
  <2>1. Known(summaries, {})
    BY FS_EmptySet DEF Known
  <2>2. row.selected = {} /\ row.summary = None /\ row.learned = {}
    BY DEF Init
  <2> QED
    BY <2>1, <2>2 DEF Latest, Told, Continued
<1>4. \A w \in Worker : worker[w] = Idle
  BY DEF Init
<1>5. \A w \in Worker : Working(summaries, Covers, worker[w])
  BY <1>4, IdleWorks
<1>6. Unique /\ Continues
  BY <1>4 DEF Init, Unique, Continues, Idle
<1> QED
  BY <1>1, <1>2, <1>3, <1>5, <1>6 DEF ContextInv

\* The items that anybody loads from a row are those of the one who stored it.
LEMMA LoadedContinues ==
    ASSUME TypeOK, Latest(summaries, Covers, row), NEW last \in LastSummary(row)
    PROVE  Loaded(row, last) = Continued(row) /\ last \in DOMAIN summaries \cup {None}
<1>1. row.built \in Nat /\ None \notin Nat
  BY BudgetAssumption DEF TypeOK, Draft
<1>2. CASE row.summary # None
  <2>1. last = row.built /\ last # None /\ last \in DOMAIN summaries /\ summaries[last] = row.summary
    BY <1>1, <1>2 DEF LastSummary, Latest
  <2> QED
    BY <1>2, <2>1 DEF Loaded, Continued
<1>3. CASE row.summary = None /\ References(row.selected) = {}
  <2>1. last = None
    BY <1>3 DEF LastSummary
  <2> QED
    BY <1>3, <2>1 DEF Loaded, Continued
<1>4. CASE row.summary = None /\ References(row.selected) # {}
  <2>1. last \in Of(row.selected, "summary")
    BY <1>4 DEF LastSummary, References
  <2>2. last \in DOMAIN summaries /\ last # None
    BY <1>1, <2>1 DEF Latest, Known, Of, TypeOK
  <2> QED
    BY <1>4, <2>1, <2>2 DEF Loaded, Continued, Navigation
<1> QED
  BY <1>2, <1>3, <1>4

LEMMA LoadStep ==
    ASSUME ContextInv, NEW w \in Worker, Load(w)
    PROVE  ContextInv'
<1>1. TypeOK /\ Latest(summaries, Covers, row) /\ DOMAIN summaries \subseteq Nat
  BY DEF ContextInv, TypeOK
<1>2. PICK last \in LastSummary(row) :
         worker' = [worker EXCEPT ![w] =
              [Idle EXCEPT !.pc = "ready", !.items = Loaded(row, last), !.current = last,
                           !.from = row.built, !.learned = row.learned]]
  BY DEF Load
<1>3. PICK items : items = Continued(row)
  OBVIOUS
<1>4. Loaded(row, last) = items /\ last \in DOMAIN summaries \cup {None}
  BY <1>1, <1>3, LoadedContinues
<1>5. Known(summaries, items) /\ Told(Covers, items, row.learned)
  <2>1. row \in Draft
    BY <1>1 DEF TypeOK
  <2>2. Known(summaries, Continued(row))
    BY <1>1, <2>1, ContinuedKnown
  <2> QED
    BY <1>1, <1>3, <2>2 DEF Latest
<1>6. PICK v, u : v = Idle /\ u = [v EXCEPT !.pc = "ready", !.items = items, !.current = last,
                                            !.from = row.built, !.learned = row.learned]
  OBVIOUS
<1>7. worker' = [worker EXCEPT ![w] = u]
  BY <1>2, <1>4, <1>6
<1>8. /\ u \in Call /\ u.pc = "ready" /\ u.items = items /\ u.current = last
      /\ u.from = row.built /\ u.learned = row.learned
  <2>1. items \in SUBSET Item /\ last \in Nat \cup {None}
    BY <1>1, <1>4, <1>5 DEF Known
  <2>2. v \in Call
    BY <1>6, IdleWorks
  <2> QED
    BY <1>1, <1>6, <2>1, <2>2 DEF TypeOK, Draft, Call
<1>9. UNCHANGED <<built, row, summaries, valid, archive, succeeded>>
  BY DEF Load
<1>10. worker'[w] = u /\ \A x \in Worker \ {w} : worker'[x] = worker[x]
  BY <1>1, <1>7 DEF TypeOK
<1>11. TypeOK'
  <2>1. loads' \in 0 .. MaxLoads
    BY <1>1, BudgetAssumption DEF Load, TypeOK
  <2>2. worker' \in [Worker -> Call]
    BY <1>1, <1>7, <1>8 DEF TypeOK
  <2> QED
    BY <1>1, <1>9, <2>1, <2>2 DEF TypeOK
<1>12. Covers' = Covers
  BY <1>9 DEF Covers
<1>13. Working(summaries', Covers', worker'[w])
  <2>1. Working(summaries, Covers, u)
    BY <1>4, <1>5, <1>8 DEF Working
  <2> QED
    BY <1>9, <1>10, <1>12, <2>1
<1>14. Unique'
  BY <1>8, <1>9, <1>10 DEF ContextInv, Unique
<1>15. built <= built'
  BY <1>1, <1>9 DEF TypeOK
<1> QED
  BY <1>3, <1>8, <1>9, <1>10, <1>11, <1>13, <1>14, <1>15, OneWorks

\* A call that ends, or a process that dies.
LEMMA IdleStep ==
    ASSUME ContextInv, NEW w \in Worker, worker' = [worker EXCEPT ![w] = Idle],
           UNCHANGED <<succeeded, built, row, summaries, valid, archive, loads>>
    PROVE  ContextInv'
<1>1. TypeOK
  BY DEF ContextInv
<1>2. worker'[w] = Idle /\ \A v \in Worker \ {w} : worker'[v] = worker[v]
  BY <1>1 DEF TypeOK
<1>3. TypeOK'
  <2>1. Idle \in Call
    BY IdleWorks
  <2>2. worker' \in [Worker -> Call]
    BY <1>1, <2>1 DEF TypeOK
  <2> QED
    BY <1>1, <2>2 DEF TypeOK
<1>4. Working(summaries', Covers', worker'[w])
  BY <1>2, IdleWorks
<1>5. Unique'
  <2>1. Idle.from = 0 /\ Idle.pc = "idle"
    BY DEF Idle
  <2>2. built \in Nat
    BY <1>1 DEF TypeOK
  <2> QED
    BY <1>2, <2>1, <2>2 DEF ContextInv, Unique
<1>6. worker'[w].pc # "ready"
  BY <1>2 DEF Idle
<1>7. built <= built'
  BY <1>1 DEF TypeOK
<1> QED
  BY <1>2, <1>3, <1>4, <1>5, <1>6, <1>7, OneWorks

LEMMA CommitStep ==
    ASSUME ContextInv, NEW w \in Worker, CommitTask(w)
    PROVE  ContextInv'
<1>1. TypeOK /\ worker[w] \in Call /\ Working(summaries, Covers, worker[w])
  BY DEF ContextInv, TypeOK
<1>2. PICK v : v = worker[w]
  OBVIOUS
<1>3. PICK u : u = [v EXCEPT !.pc = "build", !.task = succeeded + 1]
  OBVIOUS
<1>4. worker' = [worker EXCEPT ![w] = u]
  BY <1>2, <1>3 DEF CommitTask
<1>5. /\ v \in Call /\ v.pc = "ready"
      /\ u.pc = "build" /\ u.items = v.items /\ u.current = v.current /\ u.learned = v.learned
      /\ u.from = v.from /\ u \in Call
  <2>1. succeeded + 1 \in Nat
    BY <1>1 DEF TypeOK
  <2> QED
    BY <1>1, <1>2, <1>3, <2>1 DEF CommitTask, Call
<1>6. UNCHANGED <<built, row, summaries, valid, archive, loads>>
  BY DEF CommitTask
<1>7. worker'[w] = u /\ \A x \in Worker \ {w} : worker'[x] = worker[x]
  BY <1>1, <1>4 DEF TypeOK
<1>8. TypeOK'
  <2>1. succeeded' \in 0 .. MaxTasks
    BY <1>1, BudgetAssumption DEF CommitTask, TypeOK
  <2>2. worker' \in [Worker -> Call]
    BY <1>1, <1>4, <1>5 DEF TypeOK
  <2> QED
    BY <1>1, <1>6, <2>1, <2>2 DEF TypeOK
<1>9. Covers' = Covers
  BY <1>6 DEF Covers
<1>10. Working(summaries', Covers', worker'[w])
  <2>1. Working(summaries, Covers, u)
    BY <1>1, <1>2, <1>5 DEF Working
  <2> QED
    BY <1>6, <1>7, <1>9, <2>1
<1>11. Unique'
  BY <1>2, <1>5, <1>6, <1>7 DEF ContextInv, Unique
<1>12. built <= built'
  BY <1>1, <1>6 DEF TypeOK
<1> QED
  BY <1>5, <1>6, <1>7, <1>8, <1>10, <1>11, <1>12, OneWorks

LEMMA GenerationType ==
    ASSUME TypeOK, NEW current \in DOMAIN summaries \cup {None}
    PROVE  NextGeneration(current) \in 1 .. 3
<1>1. CASE current = None
  BY <1>1 DEF NextGeneration
<1>2. CASE current # None
  <2>1. summaries[current].generation \in 1 .. 3
    BY <1>2 DEF TypeOK, Summary
  <2> QED
    BY <1>2, <2>1 DEF NextGeneration
<1> QED
  BY <1>1, <1>2

\* The items of the task that has succeeded.
WithTask(before, task, note) ==
    before \cup {NewItem("task_state", task, StateTokens, FALSE),
                 NewItem("history", task, note, FALSE)}

LEMMA ItemsOfTask ==
    ASSUME NEW s, NEW before, Known(s, before), NEW task \in Nat, NEW note \in NoteTokens
    PROVE  /\ Known(s, WithTask(before, task, note)) /\ before \subseteq WithTask(before, task, note)
           /\ task \in Of(WithTask(before, task, note), "history")
<1>0. PICK items : items = WithTask(before, task, note)
  OBVIOUS
<1>1. PICK i, j : i = NewItem("task_state", task, StateTokens, FALSE)
                  /\ j = NewItem("history", task, note, FALSE)
  OBVIOUS
<1>2. /\ i \in Item /\ i.category = "task_state"
      /\ j \in Item /\ j.category = "history" /\ j.of = task
  <2>1. StateTokens \in Nat /\ note \in Nat
    BY BudgetAssumption
  <2> QED
    BY <1>1, <2>1 DEF NewItem, Item
<1>3. items = before \cup {i, j} /\ items = (before \cup {i}) \cup {j}
  BY <1>0, <1>1 DEF WithTask
<1>4. IsFiniteSet(items)
  <2>1. IsFiniteSet(before \cup {i})
    BY FS_AddElement DEF Known
  <2>2. IsFiniteSet((before \cup {i}) \cup {j})
    BY <2>1, FS_AddElement
  <2> QED
    BY <1>3, <2>2
<1>5. Known(s, items)
  BY <1>2, <1>3, <1>4 DEF Known
<1>6. task \in Of(items, "history")
  BY <1>2, <1>3 DEF Of
<1> QED
  BY <1>0, <1>3, <1>5, <1>6

LEMMA BuildStep ==
    ASSUME ContextInv, NEW w \in Worker, Build(w)
    PROVE  ContextInv'
<1>1. /\ TypeOK /\ worker[w] \in Call /\ Working(summaries, Covers, worker[w])
      /\ built \in Nat /\ DOMAIN summaries \subseteq 1 .. built
      /\ \A id \in DOMAIN summaries : summaries[id] \in Summary
  BY DEF ContextInv, TypeOK
<1>2. PICK v : v = worker[w]
  OBVIOUS
<1>3. /\ v \in Call /\ v.pc = "build" /\ v.task \in Nat /\ v.learned \subseteq Nat
      /\ Known(summaries, v.items) /\ Told(Covers, v.items, v.learned)
      /\ v.current \in DOMAIN summaries \cup {None}
  BY <1>1, <1>2 DEF Build, Working, Call
<1>4. UNCHANGED <<succeeded, row, summaries, valid, archive, loads>>
  BY DEF Build
<1>5. PICK note, items :
         /\ note \in NoteTokens
         /\ items = WithTask(v.items, v.task, note)
         /\ \/ worker' = [worker EXCEPT ![w] = Idle] /\ UNCHANGED built
            \/ /\ built' = built + 1
               /\ \E selected \in Selections(items) :
                     worker' = [worker EXCEPT ![w] =
                        [v EXCEPT !.pc = "save", !.items = items,
                                  !.learned = v.learned \cup {v.task},
                                  !.draft = [built |-> built + 1, selected |-> selected,
                                             summary |-> Compress(items, selected,
                                                            NextGeneration(v.current)),
                                             learned |-> v.learned \cup {v.task}]]]
  BY <1>2 DEF Build, Selections, WithTask
<1>6. CASE worker' = [worker EXCEPT ![w] = Idle] /\ UNCHANGED built
  BY <1>4, <1>6, IdleStep
<1>7. ASSUME NEW selected \in Selections(items), built' = built + 1,
             worker' = [worker EXCEPT ![w] =
                [v EXCEPT !.pc = "save", !.items = items,
                          !.learned = v.learned \cup {v.task},
                          !.draft = [built |-> built + 1, selected |-> selected,
                                     summary |-> Compress(items, selected,
                                                    NextGeneration(v.current)),
                                     learned |-> v.learned \cup {v.task}]]]
      PROVE  ContextInv'
  <2>1. Known(summaries, items) /\ v.items \subseteq items /\ v.task \in Of(items, "history")
    BY <1>3, <1>5, ItemsOfTask
  <2>2. PICK generation \in 1 .. 3 : generation = NextGeneration(v.current)
    BY <1>1, <1>3, GenerationType
  <2>3. PICK d : d = Drawn(built + 1, items, selected, generation, v.learned \cup {v.task})
    OBVIOUS
  <2>4. PICK u : u = [v EXCEPT !.pc = "save", !.items = items,
                               !.learned = v.learned \cup {v.task}, !.draft = d]
    OBVIOUS
  <2>5. worker' = [worker EXCEPT ![w] = u]
    BY <1>7, <2>2, <2>3, <2>4 DEF Drawn
  <2>6. /\ u.pc = "save" /\ u.items = items /\ u.learned = v.learned \cup {v.task}
        /\ u.draft = d /\ u.from = v.from /\ u.current = v.current
    BY <1>3, <2>4 DEF Call
  <2>7. d.built = built + 1 /\ d.learned = v.learned \cup {v.task}
    BY <2>3 DEF Drawn
  <2>8. Drafted(summaries, Covers, u)
    <3>1. u.draft = Drawn(built + 1, items, selected, generation, v.learned \cup {v.task})
      BY <2>3, <2>6
    <3>2. u.items = items
      BY <2>6
    <3> HIDE <1>7
    <3> QED
      BY <1>1, <1>3, <2>1, <3>1, <3>2, BuildDrafts
  <2>9. u \in Call
    <3>1. d \in Draft /\ items \in SUBSET Item
      BY <2>1, <2>6, <2>8 DEF Drafted, Known
    <3> QED
      BY <1>3, <2>4, <3>1 DEF Call
  <2>10. worker'[w] = u /\ \A x \in Worker \ {w} : worker'[x] = worker[x]
    BY <1>1, <2>5 DEF TypeOK
  <2>11. TypeOK'
    <3>1. built' \in Nat /\ 1 .. built \subseteq 1 .. built'
      BY <1>1, <1>7
    <3>2. worker' \in [Worker -> Call]
      BY <1>1, <2>5, <2>9 DEF TypeOK
    <3> QED
      BY <1>1, <1>4, <3>1, <3>2 DEF TypeOK
  <2>12. built <= built' /\ Extends(summaries, summaries')
    BY <1>1, <1>4, <1>7 DEF Extends
  <2>13. Working(summaries', Covers', worker'[w])
    <3>1. Working(summaries, Covers, u)
      BY <1>3, <2>1, <2>6, <2>7, <2>8 DEF Working
    <3>2. \A id \in DOMAIN summaries : Covers[id] = Covers'[id]
      BY <2>11, <2>12, CoversNext
    <3>3. u.draft.built \notin DOMAIN summaries'
      BY <1>4, <2>8 DEF Drafted
    <3> QED
      BY <2>10, <2>12, <3>1, <3>2, <3>3, WorkingKept
  <2>14. Unique'
    <3>1. /\ row'.built <= built /\ \A x \in Worker : worker'[x].from <= built
      BY <1>2, <1>4, <2>6, <2>10 DEF ContextInv, Unique
    <3>2. \A x \in Worker \ {w} : worker'[x].pc = "save" =>
             /\ worker'[x].draft.built \in 1 .. built /\ worker'[x].draft.built # row'.built
             /\ \A y \in Worker : /\ worker'[y].from # worker'[x].draft.built
                                  /\ y # x /\ y # w /\ worker'[y].pc = "save" =>
                                        worker'[y].draft.built # worker'[x].draft.built
      BY <1>2, <1>4, <2>6, <2>10 DEF ContextInv, Unique
    <3>3. row'.built \in Nat /\ \A x \in Worker : worker'[x].from \in Nat
      BY <2>11 DEF TypeOK, Draft, Call
    <3>4. worker'[w].draft.built = built + 1
      BY <2>6, <2>7, <2>10
    <3>5. /\ built + 1 \in 1 .. built' /\ 1 .. built \subseteq 1 .. built'
          /\ \A n \in Nat : n <= built => n # built + 1 /\ n <= built'
          /\ built + 1 \notin 1 .. built
      BY <1>1, <1>7
    <3> QED
      BY <3>1, <3>2, <3>3, <3>4, <3>5 DEF Unique
  <2> QED
    BY <1>4, <2>6, <2>10, <2>11, <2>12, <2>13, <2>14, OneWorks
<1> QED
  BY <1>5, <1>6, <1>7

\* A draft that was stored with its summary is a row as the invariant wants it.
LEMMA DraftStored ==
    ASSUME NEW s, NEW t, NEW f, NEW g, NEW n \in Nat, BelowUpTo(t, g, n), Extends(s, t),
           \A id \in DOMAIN s : f[id] = g[id], NEW v, Drafted(s, f, v), NEW d, d = v.draft,
           d.summary # None =>
               d.built \in DOMAIN t /\ t[d.built] = d.summary /\ d.built \in 1 .. n
    PROVE  Latest(t, g, d)
<1>1. d \in Draft /\ Known(s, d.selected)
  BY DEF Drafted
<1>2. Known(t, d.selected) /\ Reach(g, d.selected) = Reach(f, d.selected)
  BY <1>1, KnownKept, ReachKept
<1>3. CASE d.summary = None
  BY <1>2, <1>3 DEF Drafted, Told, Latest, Continued
<1>4. CASE d.summary # None
  <2>1. PICK items : items = Navigation(d.selected, d.built, d.summary)
    OBVIOUS
  <2>2. d.built \in Nat /\ d.summary \in Summary
    BY <1>1, <1>4 DEF Draft
  <2>3. /\ Known(t, items) /\ d.selected \subseteq items /\ d.built \in Of(items, "summary")
    BY <1>2, <1>4, <2>1, <2>2, NavigationKnown
  <2>4. Linked(s, d.summary, d.built) /\ Linked(t, d.summary, d.built)
    BY <1>4, LinkedKept DEF Drafted
  <2>5. Behind(g, d.summary) = Behind(f, d.summary)
    BY <2>4, BehindKept
  <2>6. g[d.built] = Behind(g, d.summary)
    <3>1. Linked(t, t[d.built], d.built)
      BY <1>4, <2>4
    <3>2. g[d.built] = Behind(g, t[d.built])
      BY <1>4, <3>1, CoversStored
    <3> QED
      BY <1>4, <3>2
  <2>7. Reach(g, d.selected) \cup Behind(g, d.summary) \subseteq Reach(g, items)
    <3>1. Of(d.selected, "history") \subseteq Of(items, "history")
      BY <2>3 DEF Of
    <3>2. Of(d.selected, "summary") \subseteq Of(items, "summary")
      BY <2>3 DEF Of
    <3> QED
      BY <2>3, <2>6, <3>1, <3>2 DEF Reach
  <2>8. Room(items) => Room(d.selected)
    <3>1. Mandatory(d.selected) \in SUBSET Mandatory(items) /\ Mandatory(items) \in SUBSET items
      BY <2>3 DEF Mandatory
    <3>2. Mandatory(items) \in SUBSET Item /\ IsFiniteSet(Mandatory(items))
      BY <2>3, <3>1, FS_Subset DEF Known
    <3>3. /\ Tokens(Mandatory(d.selected)) \in Nat /\ Tokens(Mandatory(items)) \in Nat
          /\ Tokens(Mandatory(d.selected)) <= Tokens(Mandatory(items))
      BY <3>1, <3>2, TokensMonotone, TokensType
    <3>4. Available - Minimum \in Int
      BY BudgetAssumption
    <3> QED
      BY <3>3, <3>4 DEF Room
  <2>9. Room(d.selected) => d.learned \subseteq Reach(f, d.selected) \cup Behind(f, d.summary)
    BY <1>4 DEF Drafted
  <2>10. Told(g, items, d.learned)
    BY <1>2, <2>5, <2>7, <2>8, <2>9 DEF Told
  <2> QED
    BY <1>2, <1>4, <2>1, <2>10 DEF Latest, Continued
<1> QED
  BY <1>3, <1>4

LEMMA SaveStep ==
    ASSUME ContextInv, NEW w \in Worker, SaveContext(w)
    PROVE  ContextInv'
<1>1. /\ TypeOK /\ worker[w] \in Call /\ Working(summaries, Covers, worker[w]) /\ Unique
      /\ built \in Nat /\ DOMAIN summaries \subseteq 1 .. built /\ row \in Draft
      /\ \A id \in DOMAIN summaries : summaries[id] \in Summary
  BY DEF ContextInv, TypeOK
<1>2. PICK v, d : v = worker[w] /\ d = v.draft
  OBVIOUS
<1>3. /\ v \in Call /\ v.pc = "save" /\ Drafted(summaries, Covers, v) /\ d.learned = v.learned
      /\ v.current \in DOMAIN summaries \cup {None} /\ d \in Draft /\ Known(summaries, d.selected)
      /\ Known(summaries, v.items) /\ d.built \notin DOMAIN summaries
  BY <1>1, <1>2 DEF SaveContext, Working, Drafted
<1>4. PICK made : made = IF d.summary = None THEN {} ELSE {d.built}
  OBVIOUS
<1>5. /\ row' = IF d.built > row.built THEN d ELSE row
      /\ summaries' = [id \in DOMAIN summaries \cup made |->
                          IF id \in made THEN d.summary ELSE summaries[id]]
      /\ valid' = valid \cup made
      /\ archive' = archive \cup v.items
      /\ UNCHANGED <<succeeded, built, loads>>
  BY <1>2, <1>4 DEF SaveContext
<1>6. PICK u : u = [v EXCEPT !.pc = "ready", !.draft = None, !.from = d.built,
                             !.items = IF made = {} THEN d.selected
                                       ELSE Navigation(d.selected, d.built, d.summary),
                             !.current = IF made = {} THEN v.current ELSE d.built]
  OBVIOUS
<1>7. worker' = [worker EXCEPT ![w] = u]
  BY <1>2, <1>4, <1>6 DEF SaveContext
<1>8. d.built \in 1 .. built /\ d.built # row.built
  BY <1>1, <1>2, <1>3 DEF Unique
<1>9. d.summary # None => Linked(summaries, d.summary, d.built) /\ d.summary \in Summary
  BY <1>2, <1>3 DEF Drafted, Linked
<1>10. /\ Extends(summaries, summaries')
       /\ DOMAIN summaries' = DOMAIN summaries \cup made
       /\ \A id \in made : summaries'[id] = d.summary
  <2>1. made \cap DOMAIN summaries = {}
    BY <1>3, <1>4
  <2> QED
    BY <1>5, <2>1 DEF Extends
<1>11. d.summary # None =>
          d.built \in DOMAIN summaries' /\ summaries'[d.built] = d.summary /\ d.built \in 1 .. built
  BY <1>4, <1>8, <1>10
<1>12. /\ DOMAIN summaries' \subseteq 1 .. built
       /\ summaries' \in [DOMAIN summaries' -> Summary]
  <2>1. DOMAIN summaries' \subseteq 1 .. built
    BY <1>1, <1>4, <1>8, <1>10
  <2>2. \A id \in DOMAIN summaries' : summaries'[id] \in Summary
    BY <1>1, <1>4, <1>9, <1>10 DEF Extends
  <2>3. summaries' = [id \in DOMAIN summaries' |-> summaries'[id]]
    BY <1>5
  <2> QED
    BY <2>1, <2>2, <2>3
<1>13. /\ u.pc = "ready" /\ u.from = d.built /\ u.items = Continued(d) /\ u.learned = v.learned
       /\ u.current \in DOMAIN summaries' \cup {None}
  <2>1. /\ u.pc = "ready" /\ u.from = d.built /\ u.learned = v.learned
        /\ u.items = (IF made = {} THEN d.selected ELSE Navigation(d.selected, d.built, d.summary))
        /\ u.current = (IF made = {} THEN v.current ELSE d.built)
    BY <1>3, <1>6 DEF Call
  <2>2. made = {} <=> d.summary = None
    BY <1>4
  <2> QED
    BY <1>3, <1>4, <1>10, <2>1, <2>2 DEF Continued
<1>14. BelowUpTo(summaries', Covers', built)
  <2>1. \A id \in DOMAIN summaries' : summaries'[id].parents \subseteq Nat
    BY <1>12 DEF Summary
  <2>2. \E f : f = [n \in 0 .. built |-> Below(summaries', f, n)]
    BY <1>1, <2>1, BelowExists DEF BelowUpTo
  <2>3. Covers' = CHOOSE f : f = [n \in 0 .. built |-> Below(summaries', f, n)]
    BY <1>5 DEF Covers, Below
  <2> QED
    BY <2>2, <2>3 DEF BelowUpTo
<1>15. \A id \in DOMAIN summaries : Covers[id] = Covers'[id]
  <2>1. \A id \in DOMAIN summaries : Linked(summaries, summaries[id], id)
    BY DEF ContextInv, Archived
  <2>2. BelowUpTo(summaries, Covers, built) /\ built <= built
    BY <1>1, CoversRecursion
  <2> QED
    BY <1>1, <1>10, <1>14, <2>1, <2>2, CoversKept
<1>16. Latest(summaries', Covers', d)
  BY <1>1, <1>2, <1>3, <1>10, <1>11, <1>14, <1>15, DraftStored
<1>17. Known(summaries', Continued(d))
  <2>1. DOMAIN summaries' \subseteq Nat
    BY <1>12
  <2> QED
    BY <1>3, <1>16, <2>1, ContinuedKnown
<1>18. worker'[w] = u /\ \A x \in Worker \ {w} : worker'[x] = worker[x]
  BY <1>1, <1>7 DEF TypeOK
<1>19. TypeOK'
  <2>1. u \in Call
    <3>1. u.items \in SUBSET Item /\ u.current \in Nat \cup {None} /\ d.built \in Nat
      BY <1>3, <1>12, <1>13, <1>17 DEF Known, Draft
    <3>2. PICK items, current : items = u.items /\ current = u.current
      OBVIOUS
    <3>3. u = [v EXCEPT !.pc = "ready", !.draft = None, !.from = d.built, !.items = items,
                        !.current = current]
      BY <1>3, <1>6, <3>2 DEF Call
    <3> QED
      BY <1>3, <3>1, <3>2, <3>3 DEF Call
  <2>2. worker' \in [Worker -> Call]
    BY <1>1, <1>7, <2>1 DEF TypeOK
  <2>3. row' \in Draft
    BY <1>1, <1>3, <1>5
  <2>4. archive' \subseteq Item
    BY <1>1, <1>3, <1>5 DEF TypeOK, Known
  <2>5. valid' \subseteq DOMAIN summaries'
    BY <1>1, <1>5 DEF TypeOK
  <2> QED
    BY <1>1, <1>5, <1>12, <2>2, <2>3, <2>4, <2>5 DEF TypeOK
<1>20. Archived(summaries', archive')
  <2>1. ASSUME NEW id \in DOMAIN summaries'
        PROVE  /\ Linked(summaries', summaries'[id], id)
               /\ summaries'[id].sources \subseteq Of(archive', "history")
               /\ summaries'[id].parents \subseteq Of(archive', "summary")
    <3>1. CASE id \in DOMAIN summaries
      <4>1. /\ summaries'[id] = summaries[id] /\ Linked(summaries, summaries[id], id)
            /\ summaries[id].sources \subseteq Of(archive, "history")
            /\ summaries[id].parents \subseteq Of(archive, "summary")
        BY <1>10, <3>1 DEF Extends, ContextInv, Archived
      <4>2. /\ Of(archive, "history") \subseteq Of(archive', "history")
            /\ Of(archive, "summary") \subseteq Of(archive', "summary")
        BY <1>5 DEF Of
      <4>3. Linked(summaries', summaries[id], id)
        BY <1>10, <4>1, LinkedKept
      <4> QED
        BY <4>1, <4>2, <4>3
    <3>2. CASE id \in made
      <4>1. d.summary # None /\ id = d.built /\ summaries'[id] = d.summary
        BY <1>4, <1>10, <3>2
      <4>2. /\ d.summary.sources \subseteq Of(v.items, "history")
            /\ d.summary.parents \subseteq Of(v.items, "summary")
        BY <1>2, <1>3, <4>1 DEF Drafted
      <4>3. /\ Of(v.items, "history") \subseteq Of(archive', "history")
            /\ Of(v.items, "summary") \subseteq Of(archive', "summary")
        BY <1>5 DEF Of
      <4>4. Linked(summaries', d.summary, d.built)
        BY <1>9, <1>10, <4>1, LinkedKept
      <4> QED
        BY <4>1, <4>2, <4>3, <4>4
    <3> QED
      BY <1>10, <3>1, <3>2
  <2> QED
    BY <2>1 DEF Archived
<1>21. Latest(summaries', Covers', row')
  <2>1. CASE d.built > row.built
    BY <1>5, <1>16, <2>1
  <2>2. CASE ~ (d.built > row.built)
    <3>1. row' = row /\ Latest(summaries, Covers, row) /\ DOMAIN summaries \subseteq Nat
      BY <1>1, <1>5, <2>2 DEF ContextInv
    <3> QED
      BY <1>1, <1>10, <1>15, <3>1, LatestKept
  <2> QED
    BY <2>1, <2>2
<1>22. ASSUME NEW x \in Worker PROVE Working(summaries', Covers', worker'[x])
  <2>1. CASE x = w
    <3>1. Working(summaries', Covers', u)
      BY <1>3, <1>13, <1>16, <1>17 DEF Working, Latest
    <3> QED
      BY <1>18, <2>1, <3>1
  <2>2. CASE x # w
    <3>1. worker'[x] = worker[x] /\ Working(summaries, Covers, worker[x])
      BY <1>18, <2>2 DEF ContextInv
    <3>2. worker[x].pc = "save" => worker[x].draft.built \notin DOMAIN summaries'
      <4>1. worker[x].pc = "save" => worker[x].draft.built # d.built
        BY <1>1, <1>2, <1>3, <2>2 DEF Unique
      <4> QED
        BY <1>4, <1>10, <3>1, <4>1 DEF Working, Drafted
    <3> QED
      BY <1>10, <1>15, <3>1, <3>2, WorkingKept
  <2> QED
    BY <2>1, <2>2
<1>23. row'.built \in {row.built, d.built} /\ (row'.built = d.built => row' = d)
  BY <1>5, <1>8
<1>24. Unique'
  <2>1. /\ d.built <= built /\ row.built <= built /\ row'.built <= built
        /\ \A x \in Worker : worker[x].from <= built
    BY <1>1, <1>8, <1>23 DEF Unique
  <2>2. \A x \in Worker : worker'[x].from \in {worker[x].from, d.built}
    BY <1>13, <1>18
  <2>3. \A x \in Worker : worker'[x].pc = "save" => x # w
    BY <1>13, <1>18
  <2>4. ASSUME NEW x \in Worker \ {w}, worker[x].pc = "save"
        PROVE  /\ worker[x].draft.built \in 1 .. built
               /\ worker[x].draft.built \notin {row.built, d.built}
               /\ \A y \in Worker : /\ worker[y].from # worker[x].draft.built
                                    /\ y # x /\ worker[y].pc = "save" =>
                                          worker[y].draft.built # worker[x].draft.built
    BY <1>1, <1>2, <1>3, <2>4 DEF Unique
  <2> QED
    BY <1>5, <1>18, <1>23, <2>1, <2>2, <2>3, <2>4 DEF Unique
<1>25. Continues'
  <2>1. ASSUME NEW x \in Worker, worker'[x].pc = "ready", worker'[x].from = row'.built
        PROVE  worker'[x].items = Continued(row')
    <3>1. CASE x = w
      BY <1>13, <1>18, <1>23, <2>1, <3>1
    <3>2. CASE x # w
      <4>1. worker'[x] = worker[x] /\ worker[x].from # d.built
        BY <1>1, <1>2, <1>3, <1>18, <3>2 DEF Unique
      <4>2. row' = row
        BY <1>5, <2>1, <4>1
      <4> QED
        BY <2>1, <4>1, <4>2 DEF ContextInv, Continues
    <3> QED
      BY <3>1, <3>2
  <2> QED
    BY <2>1 DEF Continues
<1> QED
  BY <1>19, <1>20, <1>21, <1>22, <1>24, <1>25 DEF ContextInv

\* What every row of the context and every worker promises holds in every state.
THEOREM ContextSafe == Spec => []ContextInv
<1>1. ASSUME ContextInv, [Next]_vars PROVE ContextInv'
  <2>1. CASE UNCHANGED vars \/ InvalidateSummaries
    <3>1. /\ UNCHANGED <<succeeded, built, row, summaries, archive, loads, worker>>
          /\ valid' \subseteq valid
      BY <2>1 DEF vars, InvalidateSummaries
    <3>2. Covers' = Covers
      BY <3>1 DEF Covers
    <3>3. TypeOK' /\ Unique' /\ Continues'
      BY <1>1, <3>1 DEF ContextInv, TypeOK, Unique, Continues
    <3> QED
      BY <1>1, <3>1, <3>2, <3>3 DEF ContextInv
  <2>2. ASSUME NEW w \in Worker, Stop(w) PROVE ContextInv'
    BY <1>1, <2>2, IdleStep DEF Stop
  <2>3. ASSUME NEW w \in Worker, Load(w) \/ CommitTask(w) \/ Build(w) \/ SaveContext(w)
        PROVE  ContextInv'
    BY <1>1, <2>3, LoadStep, CommitStep, BuildStep, SaveStep
  <2> QED
    BY <1>1, <2>1, <2>2, <2>3 DEF Next
<1> QED
  BY <1>1, InitInv, PTL DEF Spec

\* All variables keep their types: the rows and the copies of any number of workers.
THEOREM ContextTypes == Spec => []TypeOK
<1>1. ContextInv => TypeOK
  BY DEF ContextInv
<1> QED
  BY <1>1, ContextSafe, PTL

\* A run summary is the last of its line, for every number of compressions and restarts.
THEOREM RunSummariesAreFinal == Spec => []RunSummaryIsFinal
<1>1. ContextInv => RunSummaryIsFinal
  <2> SUFFICES ASSUME ContextInv, NEW id \in DOMAIN summaries
               PROVE  /\ summaries[id].generation \in 1 .. 3
                      /\ \A p \in summaries[id].parents : summaries[p].generation < 3
    BY DEF RunSummaryIsFinal
  <2> QED
    BY DEF ContextInv, Archived, Linked, Summary
<1> QED
  BY <1>1, ContextSafe, PTL

\* Whoever loads the latest row has the items of the worker that stored it or loaded it.
THEOREM RestartsContinue == Spec => []RestartContinues
<1>1. ContextInv => RestartContinues
  <2> SUFFICES ASSUME ContextInv, NEW w \in Worker, worker[w].pc = "ready",
                      worker[w].from = row.built, NEW last \in LastSummary(row)
               PROVE  Loaded(row, last) = worker[w].items
    BY DEF RestartContinues
  <2>1. Loaded(row, last) = Continued(row)
    BY LoadedContinues DEF ContextInv
  <2> QED
    BY <2>1 DEF ContextInv, Continues
<1> QED
  BY <1>1, ContextSafe, PTL

\* As long as there is room for a summary, the note of every task that a worker knew of is
\* in its context or below a summary in it, and what a summary replaced is stored.
THEOREM NoHistoryIsLost == Spec => []HistoryReachable
<1>1. ContextInv => HistoryReachable
  <2> SUFFICES ASSUME ContextInv PROVE HistoryReachable
    OBVIOUS
  <2>1. ASSUME NEW w \in Worker, worker[w].pc = "ready",
               Tokens(Mandatory(worker[w].items)) <= Available - Minimum
        PROVE  worker[w].learned \subseteq
                  Of(worker[w].items, "history")
                      \cup UNION {Covers[id] : id \in Of(worker[w].items, "summary")}
    BY <2>1 DEF ContextInv, Working, Told, Room, Reach
  <2>2. ASSUME NEW id \in DOMAIN summaries
        PROVE  /\ summaries[id].sources \subseteq Of(archive, "history")
               /\ summaries[id].parents \subseteq DOMAIN summaries \cap Of(archive, "summary")
    BY DEF ContextInv, Archived, Linked
  <2> QED
    BY <2>1, <2>2 DEF HistoryReachable
<1> QED
  BY <1>1, ContextSafe, PTL

=============================================================================
