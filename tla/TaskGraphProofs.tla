--------------------------- MODULE TaskGraphProofs ---------------------------
(***************************************************************************)
(* The graph algorithms of domain/plan.py are right for every plan: the    *)
(* order, the cycle check and the depths.                                  *)
(***************************************************************************)
EXTENDS TaskGraph, FiniteSetTheorems, SequenceTheorems, WellFoundedInduction, TLAPS

-----------------------------------------------------------------------------
\* Finite sets of numbers and the sequences that list them.

\* A set of numbers has a least one: induction, with the set of counterexamples.
LEMMA LeastNumber ==
    ASSUME NEW T \in SUBSET Nat, T # {}
    PROVE  \E x \in T : \A y \in T : x <= y
<1> DEFINE R == OpToRel(<, Nat)
<1>1. IsWellFoundedOn(R, Nat)
  BY NatLessThanWellFounded
<1>2. \A a, b \in Nat : a < b => <<a, b>> \in R
  BY DEF OpToRel
<1> HIDE DEF R
<1>3. PICK x \in T : \A y \in T : ~ (<<y, x>> \in R)
  BY <1>1, WFMin
<1>4. ASSUME NEW y \in T PROVE x <= y
  <2>1. x \in Nat /\ y \in Nat /\ ~ (y < x)
    BY <1>2, <1>3
  <2> QED
    BY <2>1
<1> QED
  BY <1>4

\* A bounded one has a greatest.
LEMMA GreatestNumber ==
    ASSUME NEW T \in SUBSET Nat, T # {}, NEW b \in Nat, \A x \in T : x <= b
    PROVE  \E x \in T : \A y \in T : y <= x
<1> DEFINE U == {n \in Nat : \A x \in T : x <= n}
<1>1. U \in SUBSET Nat /\ b \in U
  OBVIOUS
<1>2. PICK u \in U : \A n \in U : u <= n
  <2> HIDE DEF U
  <2> QED
    BY <1>1, LeastNumber
<1>3. u \in Nat /\ \A x \in T : x <= u
  OBVIOUS
<1>4. CASE u \in T
  BY <1>3, <1>4
<1>5. CASE u \notin T
  <2>1. \A x \in T : x \in Nat /\ x <= u /\ x # u
    BY <1>3, <1>5
  <2>2. \A x \in T : x <= u - 1 /\ u - 1 \in Nat
    BY <1>3, <2>1
  <2>3. u - 1 \in U
    BY <2>2
  <2> HIDE DEF U
  <2> QED
    BY <1>2, <1>3, <2>3
<1> QED
  BY <1>4, <1>5

LEMMA TaskFinite ==
    /\ N \in Nat /\ Task \subseteq Nat \ {0} /\ \A t \in Task : t <= N
    /\ IsFiniteSet(Task) /\ Cardinality(Task) = N
    /\ \A S \in SUBSET Task : IsFiniteSet(S) /\ Cardinality(S) \in Nat
<1>1. N \in Nat
  BY GraphAssumption
<1>2. Task \subseteq Nat \ {0} /\ \A t \in Task : t <= N
  BY <1>1 DEF Task
<1>3. IsFiniteSet(1 .. N) /\ Cardinality(1 .. N) = IF 1 > N THEN 0 ELSE N - 1 + 1
  BY <1>1, FS_Interval
<1>4. IsFiniteSet(Task) /\ Cardinality(Task) = N
  BY <1>1, <1>3 DEF Task
<1>5. \A S \in SUBSET Task : IsFiniteSet(S)
  BY <1>4, FS_Subset
<1> QED
  BY <1>1, <1>2, <1>4, <1>5, FS_CardinalityType

\* No element is listed twice.
Distinct(s) == \A i, j \in DOMAIN s : s[i] = s[j] => i = j

Sorted(q, S) ==
    /\ q \in SetToSeqs(S)
    /\ \A i, j \in DOMAIN q : i < j => q[i] < q[j]

LEMMA SortedExists ==
    ASSUME NEW S \in SUBSET Task
    PROVE  \E q : Sorted(q, S)
<1> DEFINE T == {n \in Nat : \E X \in SUBSET Task : Cardinality(X) = n /\ ~ \E q : Sorted(q, X)}
<1> SUFFICES ASSUME T # {} PROVE FALSE
  <2>1. Cardinality(S) \in Nat
    BY TaskFinite
  <2> QED
    BY <2>1
<1>1. PICK n \in T : \A k \in T : n <= k
  <2>1. T \in SUBSET Nat
    OBVIOUS
  <2> HIDE DEF T
  <2> QED
    BY <2>1, LeastNumber
<1>2. PICK X \in SUBSET Task : Cardinality(X) = n /\ ~ \E q : Sorted(q, X)
  OBVIOUS
<1>3. n \in Nat /\ IsFiniteSet(X)
  BY <1>2, TaskFinite
<1>4. CASE n = 0
  <2>1. X = {}
    BY <1>2, <1>3, <1>4, FS_EmptySet
  <2>2. <<>> \in [1 .. 0 -> {}] /\ 1 .. 0 = {}
    OBVIOUS
  <2>3. Sorted(<<>>, X)
    BY <1>2, <1>4, <2>1, <2>2 DEF Sorted, SetToSeqs
  <2> QED
    BY <1>2, <2>3
<1>5. CASE n # 0
  <2>1. PICK m \in X : \A x \in X : x <= m
    <3>1. X # {}
      BY <1>2, <1>5, FS_EmptySet
    <3> HIDE DEF T
    <3> QED
      BY <1>2, <3>1, TaskFinite, GreatestNumber
  <2> DEFINE Y == X \ {m}
  <2>2. Y \in SUBSET Task /\ Cardinality(Y) = n - 1 /\ n - 1 \in Nat /\ ~ (n <= n - 1)
    <3>1. Cardinality(X \ {m}) = Cardinality(X) - 1
      BY <1>3, FS_RemoveElement
    <3>2. n - 1 \in Nat /\ ~ (n <= n - 1)
      BY <1>3, <1>5
    <3> QED
      BY <1>2, <3>1, <3>2
  <2>3. PICK p : Sorted(p, Y)
    <3>1. n - 1 \notin T
      BY <1>1, <2>2
    <3> QED
      BY <2>2, <3>1
  <2> HIDE DEF T
  <2>4. /\ p \in [1 .. n - 1 -> Y]
        /\ \A i, j \in 1 .. n - 1 : i < j => p[i] < p[j]
    BY <2>2, <2>3 DEF Sorted, SetToSeqs
  <2>5. \A x \in Y : x < m /\ x \in X /\ x \in Nat
    BY <1>2, <2>1, TaskFinite
  <2> HIDE DEF Y
  <2> DEFINE q == [i \in 1 .. n |-> IF i = n THEN m ELSE p[i]]
  <2>6. \A i \in 1 .. n : q[i] \in X /\ (i = n => q[i] = m) /\ (i # n => i \in 1 .. n - 1 /\ q[i] = p[i])
    BY <1>3, <2>4, <2>5
  <2>7. q \in [1 .. n -> X]
    BY <2>6
  <2> HIDE DEF q
  <2>8. ASSUME NEW i \in 1 .. n, NEW j \in 1 .. n, i < j PROVE q[i] < q[j]
    <3>1. i # n /\ i \in 1 .. n - 1
      BY <1>3, <2>8
    <3>2. CASE j = n
      BY <2>4, <2>5, <2>6, <3>1, <3>2
    <3>3. CASE j # n
      BY <2>4, <2>6, <2>8, <3>1, <3>3
    <3> QED
      BY <3>2, <3>3
  <2>9. \A x \in X : x \in Nat
    BY <1>2, TaskFinite
  <2>10. ASSUME NEW i \in 1 .. n, NEW j \in 1 .. n, i # j PROVE q[i] # q[j]
    <3>1. q[i] \in Nat /\ q[j] \in Nat
      BY <2>6, <2>9
    <3>2. i < j \/ j < i
      BY <1>3, <2>10
    <3> QED
      BY <2>8, <3>1, <3>2
  <2>11. Sorted(q, X)
    BY <1>2, <2>7, <2>8, <2>10 DEF Sorted, SetToSeqs
  <2> QED
    BY <1>2, <2>11
<1> QED
  BY <1>4, <1>5

\* The tasks in id order: each one once and no other.
LEMMA InIdOrderLists ==
    ASSUME NEW S \in SUBSET Task
    PROVE  InIdOrder(S) \in Seq(Task) /\ Distinct(InIdOrder(S)) /\ ToSet(InIdOrder(S)) = S
<1> DEFINE q == InIdOrder(S)
<1>1. Sorted(q, S)
  BY SortedExists DEF InIdOrder, Sorted
<1> HIDE DEF q
<1>2. PICK n \in Nat : n = Cardinality(S) /\ IsFiniteSet(S)
  BY TaskFinite
<1>3. q \in [1 .. n -> S] /\ \A i, j \in 1 .. n : i # j => q[i] # q[j]
  BY <1>1, <1>2 DEF Sorted, SetToSeqs
<1>4. q \in Injection(1 .. n, S)
  BY <1>3 DEF Injection, IsInjective
<1>5. Cardinality(1 .. n) = n
  BY <1>2, FS_Interval
<1>6. q \in Surjection(1 .. n, S)
  BY <1>2, <1>4, <1>5, FS_Injection
<1>7. ToSet(q) = S
  BY <1>3, <1>6 DEF Surjection, ToSet
<1>8. q \in [1 .. n -> Task]
  BY <1>3
<1>9. q \in Seq(Task)
  BY <1>2, <1>8, SeqDef
<1>10. Distinct(q)
  BY <1>3 DEF Distinct
<1> QED
  BY <1>7, <1>9, <1>10 DEF q

\* The head of the queue is listed and others are queued.
LEMMA Requeue ==
    ASSUME NEW q \in Seq(Task), q # << >>, NEW r \in Seq(Task), NEW a \in Seq(Task),
           Distinct(q), Distinct(r), Distinct(a),
           ToSet(q) \cap ToSet(r) = {}, ToSet(a) \cap (ToSet(q) \cup ToSet(r)) = {}
    PROVE  LET h == Head(q)
               r2 == Append(r, h)
               q2 == Tail(q) \o a IN
           /\ h \in Task /\ h \in ToSet(q) /\ h \notin ToSet(r)
           /\ r2 \in Seq(Task) /\ q2 \in Seq(Task)
           /\ Len(r2) = Len(r) + 1 /\ (\A i \in 1 .. Len(r) : r2[i] = r[i]) /\ r2[Len(r) + 1] = h
           /\ ToSet(r2) = ToSet(r) \cup {h}
           /\ ToSet(q2) = (ToSet(q) \ {h}) \cup ToSet(a)
           /\ Distinct(r2) /\ Distinct(q2) /\ ToSet(q2) \cap ToSet(r2) = {}
<1>0. PICK h : h = Head(q)
  OBVIOUS
<1>1. PICK r2 : r2 = Append(r, h)
  OBVIOUS
<1>2. PICK b : b = Tail(q)
  OBVIOUS
<1>3. PICK q2 : q2 = b \o a
  OBVIOUS
<1>4. PICK n \in Nat : n = Len(q) /\ n > 0 /\ DOMAIN q = 1 .. n /\ q \in [1 .. n -> Task]
  BY LenProperties, EmptySeq
<1>5. PICK m \in Nat : m = Len(r) /\ DOMAIN r = 1 .. m /\ r \in [1 .. m -> Task]
  BY LenProperties
<1>6. PICK k \in Nat : k = Len(a) /\ DOMAIN a = 1 .. k /\ a \in [1 .. k -> Task]
  BY LenProperties
<1>7. h \in Task /\ h = q[1]
  BY <1>0, <1>4
<1>8. /\ b \in Seq(Task) /\ Len(b) = n - 1
      /\ \A i \in 1 .. n - 1 : b[i] = q[i + 1]
  BY <1>2, <1>4, HeadTailProperties
<1>9. /\ q2 \in Seq(Task) /\ Len(q2) = n - 1 + k
      /\ \A i \in 1 .. n - 1 + k : q2[i] = IF i <= n - 1 THEN b[i] ELSE a[i - (n - 1)]
  <2>1. /\ q2 \in Seq(Task) /\ Len(q2) = Len(b) + Len(a)
        /\ \A i \in 1 .. Len(b) + Len(a) : q2[i] = IF i <= Len(b) THEN b[i] ELSE a[i - Len(b)]
    BY <1>3, <1>8, ConcatProperties
  <2>2. Len(b) = n - 1 /\ Len(a) = k
    BY <1>6, <1>8
  <2> QED
    BY <2>1, <2>2
<1>10. DOMAIN q2 = 1 .. n - 1 + k
  BY <1>9, LenProperties
<1>11. /\ r2 \in Seq(Task) /\ Len(r2) = m + 1 /\ DOMAIN r2 = 1 .. m + 1
       /\ (\A i \in 1 .. m : r2[i] = r[i]) /\ r2[m + 1] = h
  <2>1. r2 \in Seq(Task) /\ Len(r2) = m + 1
    BY <1>1, <1>5, <1>7
  <2>2. (\A i \in 1 .. m : r2[i] = r[i]) /\ r2[m + 1] = h
    BY <1>1, <1>5, <1>7
  <2> QED
    BY <2>1, <2>2, LenProperties
<1>12. h \in ToSet(q) /\ h \notin ToSet(r)
  <2>1. 1 \in DOMAIN q
    BY <1>4
  <2>2. h \in ToSet(q)
    BY <1>7, <2>1 DEF ToSet
  <2> QED
    BY <2>2
<1>13. ToSet(r2) = ToSet(r) \cup {h}
  <2>1. \A i \in 1 .. m + 1 : i = m + 1 \/ i \in 1 .. m
    BY <1>5
  <2>2. m + 1 \in 1 .. m + 1 /\ 1 .. m \subseteq 1 .. m + 1
    BY <1>5
  <2> QED
    BY <1>5, <1>11, <2>1, <2>2 DEF ToSet
<1>14. ASSUME NEW i \in DOMAIN q2
       PROVE  \/ i \in 1 .. n - 1 /\ i + 1 \in 2 .. n /\ q2[i] = q[i + 1]
              \/ i \notin 1 .. n - 1 /\ i - (n - 1) \in 1 .. k /\ q2[i] = a[i - (n - 1)]
  <2>1. i \in 1 .. n - 1 + k
    BY <1>10
  <2>2. CASE i <= n - 1
    <3>1. i \in 1 .. n - 1 /\ i + 1 \in 2 .. n
      BY <1>4, <1>6, <2>1, <2>2
    <3> QED
      BY <1>8, <1>9, <2>1, <2>2, <3>1
  <2>3. CASE ~ (i <= n - 1)
    <3>1. i \notin 1 .. n - 1 /\ i - (n - 1) \in 1 .. k
      BY <1>4, <1>6, <2>1, <2>3
    <3> QED
      BY <1>9, <2>1, <2>3, <3>1
  <2> QED
    BY <2>2, <2>3
<1>15. /\ \A j \in 2 .. n : j - 1 \in DOMAIN q2 /\ q2[j - 1] = q[j]
       /\ \A j \in 1 .. k : j + (n - 1) \in DOMAIN q2 /\ q2[j + (n - 1)] = a[j]
  <2>1. ASSUME NEW j \in 2 .. n PROVE j - 1 \in DOMAIN q2 /\ q2[j - 1] = q[j]
    <3>1. j - 1 \in 1 .. n - 1 /\ j - 1 + 1 = j /\ j - 1 <= n - 1 /\ j - 1 \in 1 .. n - 1 + k
      BY <1>4, <1>6
    <3> QED
      BY <1>8, <1>9, <1>10, <3>1
  <2>2. ASSUME NEW j \in 1 .. k PROVE j + (n - 1) \in DOMAIN q2 /\ q2[j + (n - 1)] = a[j]
    <3>1. ~ (j + (n - 1) <= n - 1) /\ j + (n - 1) - (n - 1) = j /\ j + (n - 1) \in 1 .. n - 1 + k
      BY <1>4, <1>6
    <3> QED
      BY <1>9, <1>10, <3>1
  <2> QED
    BY <2>1, <2>2
<1>16. ToSet(q) \ {h} = {q[j] : j \in 2 .. n}
  <2>1. \A j \in 1 .. n : j = 1 \/ j \in 2 .. n
    BY <1>4
  <2>2. \A j \in 2 .. n : j \in 1 .. n /\ j # 1 /\ 1 \in 1 .. n
    BY <1>4
  <2>3. \A j \in 2 .. n : q[j] # h
    BY <1>4, <1>7, <2>2 DEF Distinct
  <2> QED
    BY <1>4, <1>7, <2>1, <2>2, <2>3 DEF ToSet
<1>17. ToSet(q2) = (ToSet(q) \ {h}) \cup ToSet(a)
  <2>1. ASSUME NEW i \in DOMAIN q2 PROVE q2[i] \in {q[j] : j \in 2 .. n} \cup {a[j] : j \in 1 .. k}
    BY <1>14
  <2>2. ASSUME NEW j \in 2 .. n PROVE q[j] \in ToSet(q2)
    BY <1>15 DEF ToSet
  <2>3. ASSUME NEW j \in 1 .. k PROVE a[j] \in ToSet(q2)
    BY <1>15 DEF ToSet
  <2>4. ToSet(a) = {a[j] : j \in 1 .. k} /\ ToSet(q2) = {q2[i] : i \in DOMAIN q2}
    BY <1>6 DEF ToSet
  <2> QED
    BY <1>16, <2>1, <2>2, <2>3, <2>4
<1>18. Distinct(r2)
  <2>1. ASSUME NEW i \in 1 .. m + 1, NEW j \in 1 .. m + 1, r2[i] = r2[j] PROVE i = j
    <3>1. \A x \in 1 .. m + 1 : x = m + 1 \/ (x \in 1 .. m /\ r2[x] = r[x] /\ r2[x] # h)
      BY <1>5, <1>11, <1>12 DEF ToSet
    <3> QED
      BY <1>5, <1>11, <2>1, <3>1 DEF Distinct
  <2> QED
    BY <1>11, <2>1 DEF Distinct
<1>19. Distinct(q2)
  <2>1. ASSUME NEW i \in DOMAIN q2, NEW j \in DOMAIN q2, q2[i] = q2[j] PROVE i = j
    <3>0. i \in Nat /\ j \in Nat
      BY <1>4, <1>6, <1>10
    <3>1. CASE i \in 1 .. n - 1 /\ j \in 1 .. n - 1
      <4>1. i + 1 \in 1 .. n /\ j + 1 \in 1 .. n /\ q[i + 1] = q[j + 1]
        BY <1>4, <1>14, <2>1, <3>1
      <4>2. i + 1 = j + 1
        BY <1>4, <4>1 DEF Distinct
      <4> QED
        BY <3>0, <4>2
    <3>2. CASE i \notin 1 .. n - 1 /\ j \notin 1 .. n - 1
      <4>1. /\ i - (n - 1) \in 1 .. k /\ j - (n - 1) \in 1 .. k
            /\ a[i - (n - 1)] = a[j - (n - 1)]
        BY <1>14, <2>1, <3>2
      <4>2. i - (n - 1) = j - (n - 1)
        BY <1>6, <4>1 DEF Distinct
      <4> QED
        BY <1>4, <3>0, <4>2
    <3>3. ASSUME NEW x \in DOMAIN q2, NEW y \in DOMAIN q2, x \in 1 .. n - 1, y \notin 1 .. n - 1
          PROVE  q2[x] # q2[y]
      <4>1. q2[x] \in ToSet(q) /\ q2[y] \in ToSet(a)
        <5>1. x + 1 \in 1 .. n
          BY <1>4, <3>3
        <5> QED
          BY <1>4, <1>6, <1>14, <3>3, <5>1 DEF ToSet
      <4> QED
        BY <4>1
    <3> QED
      BY <2>1, <3>1, <3>2, <3>3
  <2> QED
    BY <2>1 DEF Distinct
<1>20. ToSet(q2) \cap ToSet(r2) = {}
  BY <1>12, <1>13, <1>17
<1> QED
  BY <1>0, <1>1, <1>2, <1>3, <1>5, <1>7, <1>9, <1>11, <1>12, <1>13, <1>17, <1>18, <1>19, <1>20

-----------------------------------------------------------------------------
\* The order.

Checked == pc \notin {"check", "missing"}
Ordered == pc \in {"depth", "deep", "valid"}

Types ==
    /\ dependencies \in [Task -> SUBSET (0 .. N)]
    /\ pc \in {"check", "missing", "order", "cycle", "depth", "deep", "valid"}
    /\ indegree \in [Task -> Nat]
    /\ queue \in Seq(Task) /\ result \in Seq(Task)

\* A task is listed or queued if and only if what it depends on is listed.
Reached ==
    \A t \in Task :
        /\ dependencies[t] \subseteq Task
        /\ t \in ToSet(result) \cup ToSet(queue) <=> dependencies[t] \subseteq ToSet(result)

\* An indegree counts the dependencies that are not listed.
Counted == \A t \in Task : indegree[t] = Cardinality(dependencies[t] \ ToSet(result))

OrderInv ==
    /\ Types
    /\ Distinct(result) /\ Distinct(queue) /\ ToSet(queue) \cap ToSet(result) = {}
    /\ \A i \in DOMAIN result : dependencies[result[i]] \subseteq {result[j] : j \in 1 .. i - 1}
    /\ ~ Checked => result = << >> /\ queue = << >>
    /\ Checked => Reached
    /\ pc = "order" => Counted
    /\ pc = "cycle" \/ Ordered => queue = << >>
    /\ pc = "cycle" => Len(result) # N
    /\ Ordered => Len(result) = N

LEMMA EmptyLists == ToSet(<< >>) = {} /\ Distinct(<< >>) /\ DOMAIN << >> = {}
  BY DEF ToSet, Distinct

LEMMA CheckOrder ==
    ASSUME OrderInv, Check
    PROVE  OrderInv'
<1>0. /\ pc = "check" /\ ~ Checked /\ result = << >> /\ queue = << >>
      /\ UNCHANGED <<dependencies, result, depth>>
  BY DEF OrderInv, Check, Checked
<1>1. CASE pc' = "missing" /\ UNCHANGED <<indegree, queue>>
  BY <1>0, <1>1 DEF OrderInv, Types, Checked, Ordered
<1>2. CASE /\ \A t \in Task : dependencies[t] \subseteq Task
           /\ pc' = "order"
           /\ indegree' = [t \in Task |-> Cardinality(dependencies[t])]
           /\ queue' = InIdOrder({t \in Task : dependencies[t] = {}})
  <2>1. PICK S \in SUBSET Task : S = {t \in Task : dependencies[t] = {}}
    OBVIOUS
  <2>2. queue' \in Seq(Task) /\ Distinct(queue') /\ ToSet(queue') = S
    BY <1>2, <2>1, InIdOrderLists
  <2>3. \A t \in Task : indegree'[t] = Cardinality(dependencies[t]) /\ Cardinality(dependencies[t]) \in Nat
    BY <1>2, TaskFinite
  <2>4. indegree' \in [Task -> Nat]
    BY <1>2, <2>3
  <2>5. Types'
    BY <1>0, <1>2, <2>2, <2>4 DEF OrderInv, Types
  <2>6. result' = << >> /\ ToSet(result') = {} /\ dependencies' = dependencies
    BY <1>0, EmptyLists
  <2>7. Reached'
    <3>1. \A t \in Task : t \in S <=> dependencies[t] \subseteq {}
      BY <2>1
    <3> QED
      BY <1>2, <2>2, <2>6, <3>1 DEF Reached
  <2>8. Counted'
    <3>1. \A t \in Task : dependencies[t] \ {} = dependencies[t]
      OBVIOUS
    <3> QED
      BY <2>3, <2>6, <3>1 DEF Counted
  <2>9. Distinct(result') /\ DOMAIN result' = {}
    BY <2>6, EmptyLists
  <2>10. Distinct(result)' /\ Distinct(queue)' /\ ToSet(queue)' \cap ToSet(result)' = {}
    BY <2>2, <2>6, <2>9 DEF Distinct, ToSet
  <2>11. Checked' /\ ~ Ordered' /\ pc' = "order"
    BY <1>2 DEF Checked, Ordered
  <2> QED
    BY <2>5, <2>7, <2>8, <2>9, <2>10, <2>11 DEF OrderInv
<1> QED
  BY <1>1, <1>2 DEF Check

LEMMA PopOrder ==
    ASSUME OrderInv, Pop
    PROVE  OrderInv'
<1> DEFINE freed == {t \in Task : Head(queue) \in dependencies[t]}
           new == {t \in freed : indegree[t] = 1}
<1>0. /\ pc = "order" /\ queue # << >> /\ Checked /\ Types /\ Reached /\ Counted
      /\ indegree' = [t \in Task |-> indegree[t] - IF t \in freed THEN 1 ELSE 0]
      /\ queue' = Tail(queue) \o InIdOrder(new)
      /\ result' = Append(result, Head(queue))
      /\ pc' = pc /\ dependencies' = dependencies
  BY DEF OrderInv, Pop, Checked
<1>1. PICK R, Q, h : R = ToSet(result) /\ Q = ToSet(queue) /\ h = Head(queue)
  OBVIOUS
<1>2. PICK a : a = InIdOrder(new)
  OBVIOUS
<1>3. a \in Seq(Task) /\ Distinct(a) /\ ToSet(a) = new
  <2>1. new \in SUBSET Task
    OBVIOUS
  <2> HIDE DEF new
  <2> QED
    BY <1>2, <2>1, InIdOrderLists
<1>4. Q \cap R = {} /\ Distinct(result) /\ Distinct(queue)
  BY <1>1 DEF OrderInv
<1>5. h \in Task /\ h \in Q /\ h \notin R
  <2>1. PICK n \in Nat : n = Len(queue) /\ n > 0 /\ DOMAIN queue = 1 .. n
    BY <1>0, LenProperties, EmptySeq DEF Types
  <2>2. h = queue[1] /\ 1 \in DOMAIN queue /\ h \in Task
    BY <1>0, <1>1, <2>1, HeadTailProperties DEF Types
  <2>3. h \in Q
    BY <1>1, <2>2 DEF ToSet
  <2> QED
    BY <1>4, <2>2, <2>3
<1>6. ASSUME NEW t \in Task
      PROVE  /\ dependencies[t] \subseteq Task
             /\ IsFiniteSet(dependencies[t] \ R)
             /\ indegree[t] = Cardinality(dependencies[t] \ R) /\ indegree[t] \in Nat
             /\ t \in R \cup Q <=> dependencies[t] \subseteq R
             /\ t \in freed <=> h \in dependencies[t]
  <2>1. dependencies[t] \subseteq Task
    BY <1>0 DEF Reached
  <2>2. dependencies[t] \ R \in SUBSET Task
    BY <2>1
  <2>3. IsFiniteSet(dependencies[t] \ R)
    BY <2>2, TaskFinite
  <2> QED
    BY <1>0, <1>1, <2>1, <2>3 DEF Reached, Counted, Types
<1>7. ASSUME NEW t \in Task
      PROVE  t \in new <=> dependencies[t] \subseteq R \cup {h} /\ ~ (dependencies[t] \subseteq R)
  <2> DEFINE D == dependencies[t] \ R
  <2>1. t \in new <=> h \in dependencies[t] /\ indegree[t] = 1
    BY <1>6
  <2>2. indegree[t] = 1 <=> \E x : D = {x}
    BY <1>6, FS_Singleton
  <2>3. h \in dependencies[t] <=> h \in D
    BY <1>5
  <2>4. (h \in D /\ \E x : D = {x}) <=> D = {h}
    OBVIOUS
  <2> HIDE DEF new
  <2>5. D = {h} <=> dependencies[t] \subseteq R \cup {h} /\ ~ (dependencies[t] \subseteq R)
    BY <1>5
  <2> QED
    BY <2>1, <2>2, <2>3, <2>4, <2>5
<1>8. new \in SUBSET Task /\ new \cap (Q \cup R) = {}
  BY <1>6, <1>7
<1> HIDE DEF new
<1>9. /\ result' \in Seq(Task) /\ queue' \in Seq(Task)
      /\ Len(result') = Len(result) + 1
      /\ (\A i \in 1 .. Len(result) : result'[i] = result[i]) /\ result'[Len(result) + 1] = h
      /\ ToSet(result') = R \cup {h}
      /\ ToSet(queue') = (Q \ {h}) \cup new
      /\ Distinct(result') /\ Distinct(queue') /\ ToSet(queue') \cap ToSet(result') = {}
  <2>1. /\ queue \in Seq(Task) /\ result \in Seq(Task)
        /\ ToSet(queue) \cap ToSet(result) = {}
        /\ ToSet(a) \cap (ToSet(queue) \cup ToSet(result)) = {}
    BY <1>0, <1>1, <1>3, <1>4, <1>8 DEF Types
  <2>2. /\ Append(result, Head(queue)) \in Seq(Task) /\ Tail(queue) \o a \in Seq(Task)
        /\ Len(Append(result, Head(queue))) = Len(result) + 1
        /\ \A i \in 1 .. Len(result) : Append(result, Head(queue))[i] = result[i]
        /\ Append(result, Head(queue))[Len(result) + 1] = Head(queue)
        /\ ToSet(Append(result, Head(queue))) = ToSet(result) \cup {Head(queue)}
        /\ ToSet(Tail(queue) \o a) = (ToSet(queue) \ {Head(queue)}) \cup ToSet(a)
        /\ Distinct(Append(result, Head(queue))) /\ Distinct(Tail(queue) \o a)
        /\ ToSet(Tail(queue) \o a) \cap ToSet(Append(result, Head(queue))) = {}
    BY <1>0, <1>3, <1>4, <2>1, Requeue, Zenon
  <2> QED
    BY <1>0, <1>1, <1>2, <1>3, <2>2
<1>10. ASSUME NEW t \in Task
       PROVE  indegree'[t] \in Nat /\ indegree'[t] = Cardinality(dependencies[t] \ (R \cup {h}))
  <2> DEFINE D == dependencies[t] \ R
  <2>1. Cardinality(D \ {h}) = IF h \in D THEN Cardinality(D) - 1 ELSE Cardinality(D)
    BY <1>6, FS_RemoveElement
  <2>2. dependencies[t] \ (R \cup {h}) = D \ {h}
    OBVIOUS
  <2>3. indegree'[t] = IF h \in D THEN indegree[t] - 1 ELSE indegree[t]
    <3>1. indegree'[t] = indegree[t] - IF t \in freed THEN 1 ELSE 0
      BY <1>0
    <3>2. t \in freed <=> h \in D
      BY <1>5, <1>6
    <3>3. indegree[t] \in Nat
      BY <1>6
    <3> HIDE DEF freed, D
    <3> QED
      BY <3>1, <3>2, <3>3
  <2>4. IsFiniteSet(D \ {h})
    BY <1>6, FS_RemoveElement
  <2>5. Cardinality(D \ {h}) \in Nat
    BY <2>4, FS_CardinalityType
  <2>6. indegree[t] = Cardinality(D)
    BY <1>6
  <2> HIDE DEF D
  <2> QED
    BY <2>1, <2>2, <2>3, <2>5, <2>6
<1>11. Types'
  <2>1. indegree' \in [Task -> Nat]
    <3>1. indegree' = [t \in Task |-> indegree'[t]]
      BY <1>0
    <3> QED
      BY <1>10, <3>1
  <2> QED
    BY <1>0, <1>9, <2>1 DEF Types
<1>12. Counted'
  BY <1>0, <1>9, <1>10 DEF Counted, ToSet
<1>13. Reached'
  <2>1. ASSUME NEW t \in Task
        PROVE  t \in (R \cup {h}) \cup ((Q \ {h}) \cup new) <=> dependencies[t] \subseteq R \cup {h}
    <3>1. t \in R \cup Q <=> dependencies[t] \subseteq R
      BY <1>6
    <3> QED
      BY <1>5, <1>7, <3>1
  <2> QED
    BY <1>0, <1>6, <1>9, <2>1 DEF Reached, ToSet
<1>14. ASSUME NEW i \in DOMAIN result'
       PROVE  dependencies'[result'[i]] \subseteq {result'[j] : j \in 1 .. i - 1}
  <2>0. PICK m \in Nat : m = Len(result) /\ DOMAIN result = 1 .. m
    BY <1>0, LenProperties DEF Types
  <2>1. DOMAIN result' = 1 .. m + 1
    BY <1>9, <2>0, LenProperties
  <2>2. CASE i \in 1 .. m
    <3>1. dependencies[result[i]] \subseteq {result[j] : j \in 1 .. i - 1} /\ result'[i] = result[i]
      BY <1>9, <2>0, <2>2 DEF OrderInv
    <3>2. \A j \in 1 .. i - 1 : result'[j] = result[j]
      BY <1>9, <2>0, <2>2
    <3> QED
      BY <1>0, <3>1, <3>2
  <2>3. CASE i = m + 1
    <3>1. h \in R \cup Q
      BY <1>5
    <3>2. dependencies[h] \subseteq R
      BY <1>5, <1>6, <3>1
    <3>3. R = {result[j] : j \in 1 .. m}
      BY <1>1, <2>0 DEF ToSet
    <3>4. i - 1 = m /\ \A j \in 1 .. m : result'[j] = result[j]
      BY <1>9, <2>0, <2>3
    <3>5. result'[i] = h
      BY <1>9, <2>0, <2>3
    <3>6. {result'[j] : j \in 1 .. i - 1} = R
      BY <3>3, <3>4
    <3>7. dependencies'[result'[i]] = dependencies[h]
      BY <1>0, <3>5
    <3> QED
      BY <3>2, <3>6, <3>7
  <2> QED
    BY <2>0, <2>1, <2>2, <2>3
<1>15. Checked' /\ ~ Ordered' /\ pc' = "order"
  BY <1>0 DEF Checked, Ordered
<1>16. Distinct(result)' /\ Distinct(queue)' /\ ToSet(queue)' \cap ToSet(result)' = {}
  BY <1>9 DEF Distinct, ToSet
<1> QED
  BY <1>11, <1>12, <1>13, <1>14, <1>15, <1>16 DEF OrderInv

LEMMA OrderStep ==
    ASSUME OrderInv, [Next]_graphVars
    PROVE  OrderInv'
<1>1. CASE EndOfOrder
  <2>1. /\ pc = "order" /\ queue = << >> /\ UNCHANGED <<dependencies, indegree, queue, result>>
        /\ pc' = IF Len(result) = N THEN "depth" ELSE "cycle"
    BY <1>1 DEF EndOfOrder
  <2>2. Checked /\ Checked' /\ (Ordered' <=> Len(result) = N) /\ (pc' = "cycle" <=> Len(result) # N)
        /\ pc' # "order"
    BY <2>1 DEF Checked, Ordered
  <2>3. Types' /\ Reached'
    BY <2>1, <2>2 DEF OrderInv, Types, Reached
  <2> QED
    BY <2>1, <2>2, <2>3 DEF OrderInv
<1>2. CASE EndOfDepth
  <2>1. /\ pc = "depth" /\ UNCHANGED <<dependencies, indegree, queue, result>>
        /\ pc' \in {"deep", "valid"}
    BY <1>2 DEF EndOfDepth
  <2>2. Checked /\ Checked' /\ Ordered /\ Ordered' /\ pc' # "cycle" /\ pc' # "order"
    BY <2>1 DEF Checked, Ordered
  <2>3. Types' /\ Reached'
    BY <2>1, <2>2 DEF OrderInv, Types, Reached
  <2> QED
    BY <2>1, <2>2, <2>3 DEF OrderInv
<1>3. CASE UNCHANGED <<dependencies, pc, indegree, queue, result>>
  <2>1. /\ Types' = Types /\ Reached' = Reached /\ Counted' = Counted
        /\ Checked' = Checked /\ Ordered' = Ordered
    BY <1>3 DEF Types, Reached, Counted, Checked, Ordered
  <2> QED
    BY <1>3, <2>1 DEF OrderInv
<1> QED
  BY <1>1, <1>2, <1>3, CheckOrder, PopOrder DEF Next, Measure, graphVars

\* Every reachable state of validate_plan satisfies the invariant of the order.
THEOREM OrderSafe == Spec => []OrderInv
<1>1. Init => OrderInv
  <2> SUFFICES ASSUME Init PROVE OrderInv
    OBVIOUS
  <2>1. /\ result = << >> /\ queue = << >> /\ ~ Checked /\ ~ Ordered /\ pc = "check"
        /\ DOMAIN result = {} /\ Distinct(result) /\ Distinct(queue)
        /\ ToSet(queue) \cap ToSet(result) = {}
    BY EmptyLists DEF Init, Checked, Ordered
  <2>2. Types
    BY EmptySeq DEF Init, Types, Plans
  <2> QED
    BY <2>1, <2>2 DEF OrderInv
<1>2. OrderInv /\ [Next]_graphVars => OrderInv'
  BY OrderStep
<1> QED
  BY <1>1, <1>2, PTL DEF Spec

\* topological_order lists every task at most once and after all its dependencies, for
\* every plan and at every moment of the loop.
THEOREM OrderIsTopological == Spec => []OrderRespectsDependencies
<1>1. OrderInv => OrderRespectsDependencies
  BY DEF OrderInv, OrderRespectsDependencies, Distinct
<1> QED
  BY <1>1, OrderSafe, PTL

\* Distinct tasks are all of them when they are as many.
LEMMA ResultComplete ==
    ASSUME OrderInv
    PROVE  /\ Len(result) \in Nat /\ DOMAIN result = 1 .. Len(result)
           /\ result \in [1 .. Len(result) -> Task]
           /\ Len(result) = N <=> ToSet(result) = Task
<1>1. PICK m \in Nat : m = Len(result) /\ DOMAIN result = 1 .. m /\ result \in [1 .. m -> Task]
  BY LenProperties DEF OrderInv, Types
<1>2. result \in Injection(1 .. m, Task)
  BY <1>1 DEF OrderInv, Distinct, Injection, IsInjective
<1>3. Cardinality(1 .. m) = m
  BY FS_Interval
<1>4. m = N <=> result \in Surjection(1 .. m, Task)
  BY <1>2, <1>3, TaskFinite, FS_Injection
<1>5. result \in Surjection(1 .. m, Task) <=> ToSet(result) = Task
  BY <1>1 DEF Surjection, ToSet
<1> QED
  BY <1>1, <1>4, <1>5

\* topological_order reports a cycle exactly if the plan could not be executed to its end:
\* if some tasks could never become ready.
THEOREM CycleIsExact == Spec => []CycleIffNotExecutable
<1>1. ASSUME OrderInv PROVE CycleIffNotExecutable
  <2>1. ASSUME pc = "cycle" PROVE ~ Executable
    <3>1. Checked /\ Reached /\ queue = << >> /\ Len(result) # N
      BY <1>1, <2>1 DEF OrderInv, Checked
    <3>2. ToSet(result) # Task /\ ToSet(result) \in SUBSET Task /\ ToSet(queue) = {}
      BY <1>1, <3>1, ResultComplete, EmptyLists DEF ToSet
    <3>3. \A t \in Task \ ToSet(result) : ~ (dependencies[t] \subseteq ToSet(result))
      BY <3>1, <3>2 DEF Reached
    <3> QED
      BY <3>2, <3>3 DEF Executable
  <2>2. ASSUME Ordered, NEW done \in SUBSET Task, done # Task
        PROVE  \E t \in Task \ done : dependencies[t] \subseteq done
    <3>1. PICK n \in Nat : DOMAIN result = 1 .. n /\ result \in [1 .. n -> Task]
      BY <1>1, ResultComplete
    <3>2. ToSet(result) = Task
      BY <1>1, <2>2, ResultComplete DEF OrderInv
    <3> DEFINE T == {i \in 1 .. n : result[i] \notin done}
    <3>3. T \in SUBSET Nat
      OBVIOUS
    <3>4. T # {}
      BY <2>2, <3>1, <3>2 DEF ToSet
    <3> HIDE DEF T
    <3>5. PICK i \in T : \A j \in T : i <= j
      BY <3>3, <3>4, LeastNumber
    <3>6. i \in 1 .. n /\ result[i] \in Task \ done
      BY <3>1 DEF T
    <3>7. \A j \in 1 .. i - 1 : result[j] \in done
      <4>1. \A j \in 1 .. i - 1 : j \in 1 .. n /\ ~ (i <= j)
        BY <3>6
      <4> QED
        BY <3>5, <4>1 DEF T
    <3>8. dependencies[result[i]] \subseteq {result[j] : j \in 1 .. i - 1}
      BY <1>1, <3>1, <3>6 DEF OrderInv
    <3> QED
      BY <3>6, <3>7, <3>8
  <2> QED
    BY <2>1, <2>2 DEF CycleIffNotExecutable, Ordered, Executable
<1> QED
  BY <1>1, OrderSafe, PTL

-----------------------------------------------------------------------------
\* The depths.

LEMMA DeepestIsGreatest ==
    ASSUME NEW S \in SUBSET Nat, NEW b \in Nat, \A x \in S : x <= b
    PROVE  /\ Deepest(S) \in 0 .. b
           /\ \A x \in S : x <= Deepest(S)
           /\ S = {} => Deepest(S) = 0
           /\ S # {} => Deepest(S) \in S
<1>1. CASE S = {}
  BY <1>1 DEF Deepest
<1>2. CASE S # {}
  <2>1. \E n \in S : \A m \in S : m <= n
    BY <1>2, GreatestNumber
  <2>2. Deepest(S) \in S /\ \A m \in S : m <= Deepest(S)
    BY <1>2, <2>1 DEF Deepest
  <2>3. Deepest(S) \in Nat /\ Deepest(S) <= b
    BY <2>2
  <2>4. Deepest(S) \in 0 .. b
    BY <2>3
  <2> QED
    BY <1>2, <2>2, <2>4
<1> QED
  BY <1>1, <1>2

\* The first k tasks of the order have their depth.
Measured(k) ==
    /\ DOMAIN depth = {result[j] : j \in 1 .. k}
    /\ \A j \in 1 .. k :
          /\ depth[result[j]] \in 1 .. j
          /\ depth[result[j]] = 1 + Deepest({depth[d] : d \in dependencies[result[j]]})

DepthInv ==
    /\ ~ Ordered => DOMAIN depth = {}
    /\ Ordered => \E k \in 0 .. N : Measured(k)
    /\ pc \in {"deep", "valid"} => DOMAIN depth = Task

LEMMA MeasureDepth ==
    ASSUME OrderInv, DepthInv, Measure
    PROVE  DepthInv'
<1>0. /\ pc = "depth" /\ Ordered /\ DOMAIN depth # Task /\ NextDepth
      /\ UNCHANGED <<dependencies, pc, indegree, queue, result>>
  BY DEF Measure, Ordered
<1>1. PICK k \in 0 .. N : Measured(k)
  BY <1>0 DEF DepthInv
<1>2. /\ N \in Nat /\ k \in Nat /\ DOMAIN result = 1 .. N /\ result \in [1 .. N -> Task]
      /\ ToSet(result) = Task
  BY <1>0, ResultComplete, TaskFinite DEF OrderInv
<1>3. \A i, j \in 1 .. N : result[i] = result[j] => i = j
  BY <1>2 DEF OrderInv, Distinct
<1>4. Cardinality(DOMAIN depth) = k
  <2> DEFINE f == [j \in 1 .. k |-> result[j]]
  <2>1. 1 .. k \subseteq 1 .. N
    BY <1>2
  <2>2. DOMAIN depth = {result[j] : j \in 1 .. k}
    BY <1>1 DEF Measured
  <2>3. f \in [1 .. k -> DOMAIN depth] /\ \A j \in 1 .. k : f[j] = result[j]
    BY <2>2
  <2> HIDE DEF f
  <2>4. f \in Injection(1 .. k, DOMAIN depth)
    BY <1>3, <2>1, <2>3 DEF Injection, IsInjective
  <2>5. f \in Surjection(1 .. k, DOMAIN depth)
    BY <2>2, <2>3 DEF Surjection
  <2>6. f \in Bijection(1 .. k, DOMAIN depth)
    BY <2>4, <2>5 DEF Bijection
  <2>7. ExistsBijection(1 .. k, DOMAIN depth)
    BY <2>6 DEF ExistsBijection
  <2> QED
    BY <1>2, <2>7, FS_CountingElements
<1>5. k < N /\ k + 1 \in 1 .. N
  <2>1. k = N => DOMAIN depth = Task
    BY <1>1, <1>2 DEF Measured, ToSet
  <2> QED
    BY <1>0, <1>2, <2>1
<1>6. PICK t \in Task : t = result[k + 1]
  BY <1>2, <1>5
<1>7. PICK S : S = {depth[d] : d \in dependencies[t]}
  OBVIOUS
<1>8. depth' = [u \in DOMAIN depth \cup {t} |-> IF u = t THEN 1 + Deepest(S) ELSE depth[u]]
  BY <1>0, <1>4, <1>6, <1>7 DEF NextDepth
<1>9. t \notin DOMAIN depth
  <2>1. \A j \in 1 .. k : j \in 1 .. N /\ j # k + 1
    BY <1>2
  <2> QED
    BY <1>1, <1>3, <1>5, <1>6, <2>1 DEF Measured
<1>10. ASSUME NEW j \in 1 .. k + 1 PROVE dependencies[result[j]] \subseteq DOMAIN depth
  <2>1. j \in 1 .. N /\ 1 .. j - 1 \subseteq 1 .. k
    BY <1>2, <1>5
  <2>2. dependencies[result[j]] \subseteq {result[i] : i \in 1 .. j - 1}
    BY <1>2, <2>1 DEF OrderInv
  <2> QED
    BY <1>1, <2>1, <2>2 DEF Measured
<1>11. /\ DOMAIN depth' = DOMAIN depth \cup {t} /\ depth'[t] = 1 + Deepest(S)
       /\ \A u \in DOMAIN depth : depth'[u] = depth[u]
  BY <1>8, <1>9
<1>12. ASSUME NEW j \in 1 .. k + 1
       PROVE  {depth'[d] : d \in dependencies[result[j]]} = {depth[d] : d \in dependencies[result[j]]}
  BY <1>10, <1>11
<1>13. Deepest(S) \in 0 .. k
  <2>1. k + 1 \in 1 .. k + 1
    BY <1>2
  <2>2. \A d \in dependencies[t] : d \in DOMAIN depth
    BY <1>6, <1>10, <2>1
  <2>3. \A d \in DOMAIN depth : depth[d] \in Nat /\ depth[d] <= k
    <3>1. \A j \in 1 .. k : depth[result[j]] \in 1 .. j
      BY <1>1 DEF Measured
    <3>2. \A j \in 1 .. k : depth[result[j]] \in Nat /\ depth[result[j]] <= k
      BY <1>2, <3>1
    <3> QED
      BY <1>1, <3>2 DEF Measured
  <2>4. S \in SUBSET Nat /\ \A x \in S : x <= k
    BY <1>7, <2>2, <2>3
  <2> QED
    BY <1>2, <2>4, DeepestIsGreatest
<1>14. Measured(k + 1)'
  <2>1. \A j \in 1 .. k + 1 : j = k + 1 \/ j \in 1 .. k
    BY <1>2
  <2>2. DOMAIN depth' = {result[j] : j \in 1 .. k + 1}
    <3>1. 1 .. k + 1 = 1 .. k \cup {k + 1}
      BY <1>2
    <3> QED
      BY <1>1, <1>6, <1>11, <3>1 DEF Measured
  <2>3. ASSUME NEW j \in 1 .. k + 1
        PROVE  /\ depth'[result[j]] \in 1 .. j
               /\ depth'[result[j]] = 1 + Deepest({depth'[d] : d \in dependencies[result[j]]})
    <3>1. CASE j \in 1 .. k
      <4>1. /\ depth[result[j]] \in 1 .. j /\ result[j] \in DOMAIN depth
            /\ depth[result[j]] = 1 + Deepest({depth[d] : d \in dependencies[result[j]]})
        BY <1>1, <3>1 DEF Measured
      <4> QED
        BY <1>11, <1>12, <4>1
    <3>2. CASE j = k + 1
      <4>1. {depth'[d] : d \in dependencies[t]} = S
        BY <1>6, <1>7, <1>12, <3>2
      <4>2. depth'[t] \in 1 .. k + 1
        BY <1>2, <1>11, <1>13
      <4> QED
        BY <1>6, <1>11, <3>2, <4>1, <4>2
    <3> QED
      BY <2>1, <3>1, <3>2
  <2> QED
    BY <1>0, <2>2, <2>3 DEF Measured
<1>15. k + 1 \in 0 .. N
  BY <1>2, <1>5
<1> QED
  BY <1>0, <1>14, <1>15 DEF DepthInv, Ordered

LEMMA DepthStep ==
    ASSUME OrderInv, DepthInv, [Next]_graphVars
    PROVE  DepthInv'
<1>1. CASE Check \/ Pop
  <2>1. ~ Ordered /\ ~ Ordered' /\ depth' = depth /\ pc' \notin {"deep", "valid"}
    BY <1>1 DEF Check, Pop, Ordered
  <2> QED
    BY <2>1 DEF DepthInv
<1>2. CASE EndOfOrder
  <2>1. /\ ~ Ordered /\ UNCHANGED <<dependencies, result, depth>>
        /\ pc' \notin {"deep", "valid"} /\ N \in Nat
    BY <1>2, TaskFinite DEF EndOfOrder, Ordered
  <2>2. DOMAIN depth = {} /\ DOMAIN depth' = {}
    BY <2>1 DEF DepthInv
  <2>3. Measured(0)' /\ 0 \in 0 .. N
    BY <2>1, <2>2 DEF Measured
  <2> QED
    BY <2>1, <2>2, <2>3 DEF DepthInv
<1>3. CASE EndOfDepth
  <2>1. /\ Ordered /\ Ordered' /\ DOMAIN depth = Task
        /\ UNCHANGED <<dependencies, result, depth>>
    BY <1>3 DEF EndOfDepth, Ordered
  <2>2. \A k \in 0 .. N : Measured(k)' = Measured(k)
    BY <2>1 DEF Measured
  <2> QED
    BY <2>1, <2>2 DEF DepthInv
<1>4. CASE UNCHANGED graphVars
  <2>1. \A k \in 0 .. N : Measured(k)' = Measured(k)
    BY <1>4 DEF Measured, graphVars
  <2> QED
    BY <1>4, <2>1 DEF DepthInv, graphVars, Ordered
<1> QED
  BY <1>1, <1>2, <1>3, <1>4, MeasureDepth DEF Next

LEMMA DepthSafe == Spec => []DepthInv
<1>1. Init => DepthInv
  BY DEF Init, DepthInv, Ordered
<1>2. OrderInv /\ DepthInv /\ [Next]_graphVars => DepthInv'
  BY DepthStep
<1> QED
  BY <1>1, <1>2, OrderSafe, PTL DEF Spec

-----------------------------------------------------------------------------
\* The reference for the depths.

Ends(f, m) ==
    IF m = 0 THEN Task ELSE {t \in Task : \E d \in dependencies[t] : d \in f[m - 1]}

EndsUpTo(f, n) == f = [m \in 0 .. n |-> Ends(f, m)]

LEMMA EndsExists ==
    ASSUME NEW n \in Nat
    PROVE  \E f : EndsUpTo(f, n)
<1> DEFINE T == {m \in Nat : ~ \E f : EndsUpTo(f, m)}
<1> SUFFICES ASSUME T # {} PROVE FALSE
  OBVIOUS
<1>1. PICK m \in T : \A k \in T : m <= k
  <2>1. T \in SUBSET Nat
    OBVIOUS
  <2> HIDE DEF T
  <2> QED
    BY <2>1, LeastNumber
<1>2. m \in Nat /\ ~ \E f : EndsUpTo(f, m)
  OBVIOUS
<1>3. CASE m = 0
  <2> DEFINE f == [i \in 0 .. 0 |-> Task]
  <2>1. EndsUpTo(f, 0)
    BY DEF EndsUpTo, Ends
  <2> QED
    BY <1>2, <1>3, <2>1
<1>4. CASE m # 0
  <2>1. m - 1 \in Nat /\ ~ (m <= m - 1)
    BY <1>2, <1>4
  <2>2. PICK f : EndsUpTo(f, m - 1)
    BY <1>1, <2>1
  <2> HIDE DEF T
  <2> DEFINE g == [i \in 0 .. m |-> IF i = m THEN Ends(f, i) ELSE f[i]]
  <2>3. ASSUME NEW i \in 0 .. m PROVE g[i] = Ends(g, i)
    <3>1. g[i] = IF i = m THEN Ends(f, i) ELSE f[i]
      OBVIOUS
    <3>2. i # 0 => i - 1 \in 0 .. m /\ i - 1 # m
      BY <1>2
    <3>3. i # 0 => g[i - 1] = f[i - 1]
      BY <3>2
    <3>4. i # m => f[i] = Ends(f, i)
      <4>1. i # m => i \in 0 .. m - 1
        BY <1>2
      <4> QED
        BY <2>2, <4>1 DEF EndsUpTo
    <3> HIDE DEF g
    <3>5. Ends(g, i) = Ends(f, i)
      BY <3>3 DEF Ends
    <3> QED
      BY <3>1, <3>4, <3>5
  <2>4. EndsUpTo(g, m)
    <3>1. g = [i \in 0 .. m |-> g[i]]
      OBVIOUS
    <3> HIDE DEF g
    <3> QED
      BY <2>3, <3>1 DEF EndsUpTo
  <2> QED
    BY <1>2, <2>4
<1> QED
  BY <1>3, <1>4

LEMMA EndsChainEquation ==
    ASSUME NEW n \in 0 .. N
    PROVE  EndsChain[n] = Ends(EndsChain, n)
<1>1. \E f : f = [m \in 0 .. N |-> Ends(f, m)]
  BY EndsExists, TaskFinite DEF EndsUpTo
<1> DEFINE g == CHOOSE f : f = [m \in 0 .. N |-> Ends(f, m)]
<1>2. g = [m \in 0 .. N |-> Ends(g, m)]
  BY <1>1
<1>3. EndsChain = [m \in 0 .. N |-> g[m]]
  BY DEF EndsChain, Ends
<1> HIDE DEF g
<1>4. EndsChain = g
  BY <1>2, <1>3
<1> QED
  BY <1>2, <1>4

\* What the invariants say of a plan whose depths are all known.
LEMMA DepthsOfAll ==
    ASSUME OrderInv, DepthInv, pc \in {"deep", "valid"}
    PROVE  /\ ToSet(result) = Task
           /\ \A t \in Task :
                 /\ dependencies[t] \subseteq Task /\ depth[t] \in 1 .. N
                 /\ \A d \in dependencies[t] : depth[d] < depth[t]
                 /\ depth[t] > 1 => \E d \in dependencies[t] : depth[d] = depth[t] - 1
<1>1. Ordered /\ Checked /\ Reached /\ DOMAIN depth = Task /\ N \in Nat
  BY TaskFinite DEF OrderInv, DepthInv, Ordered, Checked
<1>2. PICK k \in 0 .. N : Measured(k)
  BY <1>1 DEF DepthInv
<1>3. ToSet(result) = Task
  BY <1>1, ResultComplete DEF OrderInv
<1>4. ASSUME NEW t \in Task
      PROVE  /\ depth[t] \in 1 .. N
             /\ depth[t] = 1 + Deepest({depth[d] : d \in dependencies[t]})
  <2>1. PICK j \in 1 .. k : t = result[j]
    BY <1>1, <1>2 DEF Measured
  <2>2. depth[t] \in 1 .. j /\ depth[t] = 1 + Deepest({depth[d] : d \in dependencies[t]})
    BY <1>2, <2>1 DEF Measured
  <2>3. 1 .. j \subseteq 1 .. N
    BY <1>1
  <2> QED
    BY <2>2, <2>3
<1>5. ASSUME NEW t \in Task
      PROVE  /\ dependencies[t] \subseteq Task
             /\ \A d \in dependencies[t] : depth[d] < depth[t]
             /\ depth[t] > 1 => \E d \in dependencies[t] : depth[d] = depth[t] - 1
  <2>1. PICK S : S = {depth[d] : d \in dependencies[t]}
    OBVIOUS
  <2>2. dependencies[t] \subseteq Task
    BY <1>1 DEF Reached
  <2>3. S \in SUBSET Nat /\ \A x \in S : x <= N
    <3>1. ASSUME NEW d \in Task PROVE depth[d] \in Nat /\ depth[d] <= N
      <4>1. depth[d] \in 1 .. N
        BY <1>4
      <4> QED
        BY <1>1, <4>1
    <3> QED
      BY <2>1, <2>2, <3>1
  <2>4. /\ Deepest(S) \in Nat /\ \A x \in S : x <= Deepest(S)
        /\ S = {} => Deepest(S) = 0
        /\ S # {} => Deepest(S) \in S
    <3>1. Deepest(S) \in 0 .. N => Deepest(S) \in Nat
      BY <1>1
    <3> QED
      BY <1>1, <2>3, <3>1, DeepestIsGreatest
  <2>5. depth[t] = 1 + Deepest(S)
    BY <1>4, <2>1
  <2>6. ASSUME NEW d \in dependencies[t] PROVE depth[d] < depth[t]
    <3>1. depth[d] \in S /\ depth[d] \in Nat
      BY <2>1, <2>3
    <3>2. depth[d] <= Deepest(S)
      BY <2>4, <3>1
    <3> QED
      BY <2>4, <2>5, <3>1, <3>2
  <2>7. ASSUME depth[t] > 1 PROVE \E d \in dependencies[t] : depth[d] = depth[t] - 1
    <3>1. Deepest(S) # 0 /\ Deepest(S) = depth[t] - 1
      BY <2>4, <2>5, <2>7
    <3>2. Deepest(S) \in S
      BY <2>4, <3>1
    <3> QED
      BY <2>1, <3>1, <3>2
  <2> QED
    BY <2>2, <2>6, <2>7
<1> QED
  BY <1>3, <1>4, <1>5

\* A task ends a chain of n + 1 tasks if and only if its depth is more than n.
LEMMA DepthIsLongestChain ==
    ASSUME OrderInv, DepthInv, pc \in {"deep", "valid"}, NEW n \in 0 .. N
    PROVE  \A t \in Task : t \in EndsChain[n] <=> n < depth[t]
<1>0. N \in Nat
  BY TaskFinite
<1> DEFINE T == {m \in 0 .. N : ~ \A t \in Task : t \in EndsChain[m] <=> m < depth[t]}
<1> SUFFICES ASSUME T # {} PROVE FALSE
  OBVIOUS
<1>1. PICK m \in T : \A k \in T : m <= k
  <2>1. T \in SUBSET Nat
    OBVIOUS
  <2> HIDE DEF T
  <2> QED
    BY <2>1, LeastNumber
<1>2. m \in 0 .. N /\ ~ \A t \in Task : t \in EndsChain[m] <=> m < depth[t]
  OBVIOUS
<1>3. m # 0 => \A t \in Task : t \in EndsChain[m - 1] <=> m - 1 < depth[t]
  <2>1. m # 0 => m - 1 \in 0 .. N /\ ~ (m <= m - 1)
    BY <1>0, <1>2
  <2> QED
    BY <1>1, <2>1
<1> HIDE DEF T
<1>4. ASSUME NEW t \in Task PROVE t \in EndsChain[m] <=> m < depth[t]
  <2>1. /\ dependencies[t] \subseteq Task /\ depth[t] \in 1 .. N
        /\ \A d \in dependencies[t] : depth[d] < depth[t] /\ depth[d] \in 1 .. N
        /\ depth[t] > 1 => \E d \in dependencies[t] : depth[d] = depth[t] - 1
    BY DepthsOfAll
  <2>2. CASE m = 0
    <3>1. EndsChain[m] = Task
      BY <1>2, <2>2, EndsChainEquation DEF Ends
    <3> QED
      BY <1>0, <2>1, <2>2, <3>1
  <2>3. CASE m # 0
    <3>1. t \in EndsChain[m] <=> \E d \in dependencies[t] : d \in EndsChain[m - 1]
      BY <1>2, <2>3, EndsChainEquation DEF Ends
    <3>2. t \in EndsChain[m] <=> \E d \in dependencies[t] : m - 1 < depth[d]
      BY <1>3, <2>1, <2>3, <3>1
    <3>3. ASSUME NEW d \in dependencies[t], m - 1 < depth[d] PROVE m < depth[t]
      <4>1. depth[d] < depth[t] /\ depth[d] \in Nat /\ depth[t] \in Nat /\ m \in Nat
        BY <1>0, <1>2, <2>1
      <4> QED
        BY <3>3, <4>1
    <3>4. ASSUME m < depth[t] PROVE \E d \in dependencies[t] : m - 1 < depth[d]
      <4>1. depth[t] \in Nat /\ m \in Nat
        BY <1>0, <1>2, <2>1
      <4>2. depth[t] > 1 /\ m - 1 < depth[t] - 1
        BY <2>3, <3>4, <4>1
      <4> QED
        BY <2>1, <4>2
    <3> QED
      BY <3>2, <3>3, <3>4
  <2> QED
    BY <2>2, <2>3
<1> QED
  BY <1>2, <1>4

\* The depth that validate_plan compares with maximum_depth is the length of the longest
\* chain of dependencies, and parallel_batches partitions every valid plan into levels that
\* can run together, each as early as it can.
THEOREM DepthsAreChains == Spec => []LevelsAreChains
<1>1. ASSUME OrderInv, DepthInv PROVE LevelsAreChains
  <2>1. pc \in {"deep", "valid"} =>
          \A t \in Task : \A n \in 0 .. N : (t \in EndsChain[n]) <=> (n < depth[t])
    BY <1>1, DepthIsLongestChain
  <2>2. ASSUME pc = "valid"
        PROVE  LET batches == ParallelBatches
                   Before(n) == UNION {batches[m] : m \in 1 .. n - 1}
               IN /\ UNION {batches[n] : n \in DOMAIN batches} = Task
                  /\ \A n \in DOMAIN batches : \A t \in batches[n] :
                        /\ dependencies[t] \subseteq Before(n)
                        /\ t \notin Before(n)
                        /\ n > 1 => dependencies[t] \cap batches[n - 1] # {}
    <3>0. PICK B : B = ParallelBatches
      OBVIOUS
    <3>1. PICK D : D = Deepest({depth[t] : t \in Task})
      OBVIOUS
    <3>2. /\ N \in Nat /\ ToSet(result) = Task
          /\ \A t \in Task : depth[t] \in 1 .. N /\ dependencies[t] \subseteq Task
      BY <1>1, <2>2, DepthsOfAll, TaskFinite
    <3>3. D \in Nat /\ \A t \in Task : depth[t] \in 1 .. D
      <4>1. PICK S : S = {depth[t] : t \in Task}
        OBVIOUS
      <4>2. S \in SUBSET Nat /\ \A x \in S : x <= N
        BY <3>2, <4>1
      <4>3. D \in 0 .. N /\ \A x \in S : x <= D
        BY <3>1, <3>2, <4>1, <4>2, DeepestIsGreatest
      <4>4. D \in Nat
        BY <3>2, <4>3
      <4>5. \A t \in Task : depth[t] \in Nat /\ depth[t] >= 1 /\ depth[t] <= D
        BY <3>2, <4>1, <4>3
      <4> QED
        BY <4>4, <4>5
    <3>4. \A n \in 1 .. D : B[n] = {t \in Task : depth[t] = n}
      <4>1. \A n \in 1 .. D : B[n] = Batch(n)
        BY <3>0, <3>1 DEF ParallelBatches
      <4>2. \A n : Batch(n) = {t \in Task : depth[t] = n}
        BY <3>2 DEF Batch, ToSet
      <4> QED
        BY <4>1, <4>2
    <3>5. DOMAIN B = 1 .. D
      BY <3>0, <3>1 DEF ParallelBatches
    <3>6. UNION {B[n] : n \in DOMAIN B} = Task
      BY <3>3, <3>4, <3>5
    <3>7. ASSUME NEW n \in DOMAIN B, NEW t \in B[n]
          PROVE  /\ dependencies[t] \subseteq UNION {B[m] : m \in 1 .. n - 1}
                 /\ t \notin UNION {B[m] : m \in 1 .. n - 1}
                 /\ n > 1 => dependencies[t] \cap B[n - 1] # {}
      <4>1. n \in 1 .. D /\ t \in Task /\ depth[t] = n
        BY <3>4, <3>5
      <4>2. \A m \in 1 .. n - 1 : m \in 1 .. D /\ m # n /\ B[m] = {u \in Task : depth[u] = m}
        BY <3>3, <3>4, <4>1
      <4>3. /\ \A d \in dependencies[t] : depth[d] < n
            /\ n > 1 => \E d \in dependencies[t] : depth[d] = n - 1
        BY <1>1, <2>2, <4>1, DepthsOfAll
      <4>4. ASSUME NEW d \in dependencies[t] PROVE d \in UNION {B[m] : m \in 1 .. n - 1}
        <5>1. d \in Task /\ depth[d] \in 1 .. D /\ depth[d] < n
          BY <3>2, <3>3, <4>1, <4>3
        <5>2. depth[d] \in 1 .. n - 1
          BY <3>3, <4>1, <5>1
        <5> QED
          BY <4>2, <5>1, <5>2
      <4>5. t \notin UNION {B[m] : m \in 1 .. n - 1}
        BY <4>1, <4>2
      <4>6. ASSUME n > 1 PROVE dependencies[t] \cap B[n - 1] # {}
        <5>1. n - 1 \in 1 .. n - 1
          BY <3>3, <4>1, <4>6
        <5> QED
          BY <3>2, <4>1, <4>2, <4>3, <4>6, <5>1
      <4> QED
        BY <4>4, <4>5, <4>6
    <3> QED
      BY <3>0, <3>6, <3>7
  <2> QED
    BY <2>1, <2>2 DEF LevelsAreChains
<1> QED
  BY <1>1, OrderSafe, DepthSafe, PTL

\* All variables keep their types, for every plan of any size.
THEOREM GraphTypes == Spec => []TypeOK
<1>1. ASSUME OrderInv, DepthInv PROVE DOMAIN depth \subseteq Task
  <2>1. CASE ~ Ordered
    BY <1>1, <2>1 DEF DepthInv
  <2>2. CASE Ordered
    <3>1. PICK k \in 0 .. N : Measured(k)
      BY <1>1, <2>2 DEF DepthInv
    <3>2. /\ DOMAIN result = 1 .. N /\ N \in Nat /\ result \in [1 .. N -> Task]
      BY <1>1, <2>2, ResultComplete, TaskFinite DEF OrderInv
    <3>3. 1 .. k \subseteq 1 .. N
      BY <3>2
    <3> QED
      BY <3>1, <3>2, <3>3 DEF Measured
  <2> QED
    BY <2>1, <2>2
<1>2. OrderInv /\ DepthInv => TypeOK
  BY <1>1 DEF OrderInv, Types, TypeOK
<1> QED
  BY <1>2, OrderSafe, DepthSafe, PTL

==============================================================================
