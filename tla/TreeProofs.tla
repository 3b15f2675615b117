----------------------------- MODULE TreeProofs -----------------------------
(***************************************************************************)
(* What an edit of the editor's tree keeps, for any number of widgets,     *)
(* pages, groups and edits, where a cut is pasted before what was cut      *)
(* changes: the tree stays a tree, no move loses a node, a page that       *)
(* changes is dirty, and a batch lands where the drop was shown.           *)
(*                                                                         *)
(* First the facts about lists and walks, then what moving, adding,        *)
(* deleting and copying do to any tree, then the actions, which are        *)
(* instances of these, and the theorems.                                   *)
(***************************************************************************)
EXTENDS WidgetTree, FiniteSetTheorems, WellFoundedInduction, TLAPS

-----------------------------------------------------------------------------
(* Walks are least fixed points.                                           *)

(* What is closed in k under the step from a node to what it holds.        *)
Closed(k, T) == T \in SUBSET Nodes /\ Children(k, T) \subseteq T
Least(k, S) == {n \in Nodes : \A T \in SUBSET Nodes : S \subseteq T /\ Closed(k, T) => n \in T}
Forest(k) == k \in [Hosts -> Seq(Nodes)]

LEMMA RangeType ==
    ASSUME NEW S, NEW list \in Seq(S)
    PROVE  /\ Range(list) \subseteq S
           /\ \A x \in Range(list) : \E i \in 1..Len(list) : list[i] = x
           /\ \A i \in 1..Len(list) : list[i] \in Range(list)
  BY DEF Range

LEMMA HostsKnown ==
    ASSUME NEW T \in SUBSET Nodes
    PROVE  HostsOf(T) \subseteq Hosts
  <1>1. ASSUME NEW n \in T PROVE InnerHosts(n) \subseteq Hosts
    <2>1. CASE n \in Groups
      <3>1. Chrome[n] \in ChromeAreas
        BY <2>1, TreeAssumption DEF Bijection, Injection
      <3> QED BY <2>1, <3>1 DEF InnerHosts, Hosts, PageHosts, WidgetHosts
    <2> QED BY <2>1 DEF InnerHosts
  <1> QED BY <1>1 DEF HostsOf

LEMMA ChildrenType ==
    ASSUME NEW k, Forest(k), NEW T \in SUBSET Nodes
    PROVE  Children(k, T) \subseteq Nodes
  <1>1. \A h \in HostsOf(T) : k[h] \in Seq(Nodes)
    BY HostsKnown DEF Forest
  <1>2. \A h \in HostsOf(T) : Range(k[h]) \subseteq Nodes
    BY <1>1, RangeType
  <1> QED BY <1>2 DEF Children

LEMMA ChildrenGrow ==
    ASSUME NEW k, NEW T, NEW U, T \subseteq U
    PROVE  Children(k, T) \subseteq Children(k, U)
  BY DEF Children, HostsOf

Grow(k, T) == IF Children(k, T) \subseteq T THEN T ELSE T \cup Children(k, T)

LEMMA LeastStep ==
    ASSUME NEW k, Forest(k), NEW S \in SUBSET Nodes
    PROVE  /\ S \subseteq Least(k, S)
           /\ Children(k, S) \subseteq S => Least(k, S) = S
           /\ Least(k, S \cup Children(k, S)) = Least(k, S)
  <1>1. S \subseteq Least(k, S)
    BY DEF Least
  <1>2. Children(k, S) \subseteq S => Least(k, S) \subseteq S
    BY DEF Least, Closed
  <1>3. ASSUME NEW T \in SUBSET Nodes, Closed(k, T), S \subseteq T
        PROVE  S \cup Children(k, S) \subseteq T
    <2>1. Children(k, S) \subseteq Children(k, T)
      BY <1>3, ChildrenGrow
    <2> QED BY <1>3, <2>1 DEF Closed
  <1>4. Least(k, S \cup Children(k, S)) = Least(k, S)
    BY <1>3 DEF Least
  <1> QED BY <1>1, <1>2, <1>4

LEMMA SmallestOf ==
    ASSUME NEW M \in SUBSET Nat, M # {}
    PROVE  \E n \in M : \A m \in M : n <= m
  <1> DEFINE less == OpToRel(<, Nat)
  <1>1. IsWellFoundedOn(less, Nat)
    BY NatLessThanWellFounded, Zenon
  <1>2. PICK n \in M : \A m \in M : ~(<<m, n>> \in less)
    <2> HIDE DEF less
    <2> QED BY <1>1, WFMin, Zenon
  <1>3. \A m \in M : ~(m < n)
    BY <1>2 DEF OpToRel
  <1> QED BY <1>3

LEMMA LessMissing ==
    ASSUME NEW T \in SUBSET Nodes, NEW U \in SUBSET Nodes, T \subseteq U, T # U
    PROVE  /\ Cardinality(Nodes \ U) \in Nat /\ Cardinality(Nodes \ T) \in Nat
           /\ Cardinality(Nodes \ U) < Cardinality(Nodes \ T)
  <1>1. IsFiniteSet(Nodes \ T) /\ IsFiniteSet(Nodes \ U)
    BY TreeAssumption, FS_Difference
  <1>2. Nodes \ U \in SUBSET (Nodes \ T) /\ Nodes \ U # Nodes \ T
    OBVIOUS
  <1>3. Cardinality(Nodes \ U) <= Cardinality(Nodes \ T)
        /\ Cardinality(Nodes \ T) # Cardinality(Nodes \ U)
    BY <1>1, <1>2, FS_Subset, Zenon
  <1>4. Cardinality(Nodes \ U) \in Nat /\ Cardinality(Nodes \ T) \in Nat
    BY <1>1, FS_CardinalityType
  <1> QED BY <1>3, <1>4

(* Below is what is least: the recursion adds children until none is new.  *)
LEMMA BelowIsLeast ==
    ASSUME NEW k, Forest(k), NEW S \in SUBSET Nodes
    PROVE  Below(k, S) = Least(k, S)
  <1> DEFINE E(f) == [T \in SUBSET Nodes |->
                        LET more == Children(k, T)
                        IN IF more \subseteq T THEN T ELSE f[T \cup more]]
             g == CHOOSE f : f = E(f)
             least == [T \in SUBSET Nodes |-> Least(k, T)]
  <1>1. ASSUME NEW T \in SUBSET Nodes
        PROVE  least[T] = IF Children(k, T) \subseteq T THEN T
                          ELSE least[T \cup Children(k, T)]
    <2>1. T \cup Children(k, T) \in SUBSET Nodes
      BY ChildrenType
    <2> QED BY <2>1, LeastStep
  <1>2. least = E(least)
    BY <1>1
  <1>3. g = E(g)
    BY <1>2
  <1>4. Below(k, S) = g[S]
    BY DEF Below
  <1> HIDE DEF g
  <1>5. ASSUME NEW T \in SUBSET Nodes
        PROVE  g[T] = IF Children(k, T) \subseteq T THEN T ELSE g[T \cup Children(k, T)]
    BY <1>3
  <1> DEFINE wrong == {T \in SUBSET Nodes : g[T] # Least(k, T)}
             sizes == {Cardinality(Nodes \ T) : T \in wrong}
  <1>6. wrong = {}
    <2> SUFFICES ASSUME wrong # {} PROVE FALSE
      OBVIOUS
    <2>1. sizes \in SUBSET Nat /\ sizes # {}
      <3>1. ASSUME NEW T \in wrong PROVE Cardinality(Nodes \ T) \in Nat
        BY TreeAssumption, FS_Difference, FS_CardinalityType
      <3> QED BY <3>1
    <2>2. PICK T \in wrong : \A U \in wrong : Cardinality(Nodes \ T) <= Cardinality(Nodes \ U)
      <3> HIDE DEF wrong
      <3>1. PICK n \in sizes : \A m \in sizes : n <= m
        BY <2>1, SmallestOf
      <3> QED BY <3>1
    <2> DEFINE U == T \cup Children(k, T)
    <2>3. U \in SUBSET Nodes
      BY ChildrenType
    <2>4. CASE Children(k, T) \subseteq T
      BY <2>4, <1>5, LeastStep
    <2>5. CASE ~(Children(k, T) \subseteq T)
      <3>1. Cardinality(Nodes \ U) < Cardinality(Nodes \ T)
            /\ Cardinality(Nodes \ U) \in Nat /\ Cardinality(Nodes \ T) \in Nat
        <4>1. T \subseteq U /\ T # U
          BY <2>5
        <4> HIDE DEF U, wrong
        <4> QED BY <2>3, <4>1, LessMissing
      <3>2. U \notin wrong
        BY <2>2, <3>1
      <3>3. g[U] = Least(k, U)
        BY <2>3, <3>2
      <3>4. Least(k, U) = Least(k, T)
        BY LeastStep
      <3> QED BY <1>5, <2>5, <3>3, <3>4
    <2> QED BY <2>4, <2>5
  <1> QED BY <1>4, <1>6

-----------------------------------------------------------------------------
(* Lists.                                                                  *)

Distinct(list) == \A i, j \in 1..Len(list) : list[i] = list[j] => i = j

LEMMA RangeIn ==
    ASSUME NEW S, NEW T, NEW list \in Seq(S), Range(list) \subseteq T
    PROVE  list \in Seq(T)
  <1>1. \A i \in 1..Len(list) : list[i] \in T
    BY RangeType
  <1> QED BY <1>1

LEMMA RangeEmpty ==
    ASSUME NEW S, NEW list \in Seq(S)
    PROVE  Range(list) = {} <=> list = <<>>
  <1>1. CASE list = <<>>
    BY <1>1 DEF Range
  <1>2. CASE list # <<>>
    <2>1. 1 \in 1..Len(list)
      BY <1>2
    <2> QED BY <1>2, <2>1, RangeType
  <1> QED BY <1>1, <1>2

LEMMA Concatenation ==
    ASSUME NEW S, NEW s \in Seq(S), NEW t \in Seq(S)
    PROVE  /\ s \o t \in Seq(S)
           /\ Range(s \o t) = Range(s) \cup Range(t)
           /\ Distinct(s) /\ Distinct(t) /\ Range(s) \cap Range(t) = {} => Distinct(s \o t)
  <1>1. s \o t \in Seq(S) /\ Len(s \o t) = Len(s) + Len(t)
        /\ Len(s) \in Nat /\ Len(t) \in Nat
    OBVIOUS
  <1>2. \A i \in 1..Len(s) : (s \o t)[i] = s[i]
    OBVIOUS
  <1>3. \A i \in 1..Len(t) : (s \o t)[Len(s) + i] = t[i]
    OBVIOUS
  <1>4. ASSUME NEW i \in 1..Len(s \o t), i \notin 1..Len(s)
        PROVE  i - Len(s) \in 1..Len(t) /\ (s \o t)[i] = t[i - Len(s)]
    <2>1. i - Len(s) \in 1..Len(t) /\ i = Len(s) + (i - Len(s))
      BY <1>1, <1>4
    <2> QED BY <1>3, <2>1
  <1>5. Range(s \o t) \subseteq Range(s) \cup Range(t)
    <2>1. ASSUME NEW x \in Range(s \o t) PROVE x \in Range(s) \cup Range(t)
      <3>1. PICK i \in 1..Len(s \o t) : (s \o t)[i] = x
        BY <1>1, RangeType
      <3>2. CASE i \in 1..Len(s)
        BY <1>2, <3>1, <3>2, RangeType
      <3>3. CASE i \notin 1..Len(s)
        BY <1>4, <3>1, <3>3, RangeType
      <3> QED BY <3>2, <3>3
    <2> QED BY <2>1
  <1>6. Range(s) \subseteq Range(s \o t)
    <2>1. ASSUME NEW i \in 1..Len(s) PROVE s[i] \in Range(s \o t)
      <3>1. i \in 1..Len(s \o t)
        BY <1>1
      <3> QED BY <1>1, <1>2, <3>1, RangeType
    <2> QED BY <2>1, RangeType
  <1>7. Range(t) \subseteq Range(s \o t)
    <2>1. ASSUME NEW i \in 1..Len(t) PROVE t[i] \in Range(s \o t)
      <3>1. Len(s) + i \in 1..Len(s \o t)
        BY <1>1
      <3> QED BY <1>1, <1>3, <3>1, RangeType
    <2> QED BY <2>1, RangeType
  <1>8. ASSUME Distinct(s), Distinct(t), Range(s) \cap Range(t) = {}
        PROVE  Distinct(s \o t)
    <2>1. ASSUME NEW i \in 1..Len(s \o t), NEW j \in 1..Len(s \o t), i < j
          PROVE  (s \o t)[i] # (s \o t)[j]
      <3>1. CASE j \in 1..Len(s)
        <4>1. i \in 1..Len(s)
          BY <2>1, <3>1
        <4> QED BY <1>2, <1>8, <2>1, <3>1, <4>1 DEF Distinct
      <3>2. CASE i \in 1..Len(s) /\ j \notin 1..Len(s)
        <4>1. (s \o t)[i] \in Range(s) /\ (s \o t)[j] \in Range(t)
          BY <1>2, <1>4, <3>2, RangeType
        <4> QED BY <1>8, <4>1
      <3>3. CASE i \notin 1..Len(s) /\ j \notin 1..Len(s)
        <4>1. i - Len(s) \in 1..Len(t) /\ (s \o t)[i] = t[i - Len(s)]
          BY <1>4, <3>3
        <4>2. j - Len(s) \in 1..Len(t) /\ (s \o t)[j] = t[j - Len(s)]
          BY <1>4, <3>3
        <4>3. i - Len(s) # j - Len(s)
          BY <2>1, <1>1
        <4> QED BY <1>8, <4>1, <4>2, <4>3 DEF Distinct
      <3> QED BY <3>1, <3>2, <3>3
    <2> QED BY <2>1, <1>1 DEF Distinct
  <1> QED BY <1>1, <1>5, <1>6, <1>7, <1>8

(* Induction, over the set of the numbers for which something holds.       *)
LEMMA UpTo ==
    ASSUME NEW n \in Nat, NEW Y, 0 \in Y, \A i \in 0..(n - 1) : i \in Y => i + 1 \in Y
    PROVE  \A i \in 0..n : i \in Y
  <1> SUFFICES ASSUME NEW x \in 0..n, x \notin Y PROVE FALSE
    OBVIOUS
  <1> DEFINE M == {i \in 0..n : i \notin Y}
  <1>1. M \in SUBSET Nat /\ M # {}
    OBVIOUS
  <1>2. PICK m \in M : \A i \in M : m <= i
    <2> HIDE DEF M
    <2> QED BY <1>1, SmallestOf
  <1>3. m \in 0..n /\ m \notin Y /\ m # 0
    BY <1>2
  <1>4. m - 1 \in 0..(n - 1) /\ m - 1 \in 0..n /\ ~(m <= m - 1)
    BY <1>3
  <1>5. m - 1 \in Y
    BY <1>2, <1>4
  <1>6. m - 1 + 1 \in Y
    BY <1>4, <1>5
  <1> QED BY <1>3, <1>6

(* The stages of a spread.                                                 *)
Stages(u, n, list, g) ==
    /\ u \in [0..n -> Seq(Nodes)]
    /\ u[0] = <<>>
    /\ \A i \in 1..n : u[i] = u[i - 1] \o g[list[i]]

LEMMA SpreadStages ==
    ASSUME NEW list \in Seq(Nodes), NEW g \in [Nodes -> Seq(Nodes)]
    PROVE  \E u : Stages(u, Len(list), list, g) /\ Spread(list, g) = u[Len(list)]
  <1> DEFINE n == Len(list)
             Y == {i \in 0..n : \E u : Stages(u, i, list, g)}
             E(f) == [i \in 0..n |-> IF i = 0 THEN <<>> ELSE f[i - 1] \o g[list[i]]]
             chosen == CHOOSE f : f = E(f)
  <1>1. n \in Nat
    OBVIOUS
  <1>2. 0 \in Y
    <2>1. Stages([i \in 0..0 |-> <<>>], 0, list, g)
      BY DEF Stages
    <2> QED BY <1>1, <2>1
  <1>3. ASSUME NEW i \in 0..(n - 1), i \in Y PROVE i + 1 \in Y
    <2>1. PICK u : Stages(u, i, list, g)
      BY <1>3
    <2> DEFINE v == [j \in 0..(i + 1) |-> IF j = i + 1 THEN u[i] \o g[list[i + 1]] ELSE u[j]]
    <2>2. list[i + 1] \in Nodes
      BY <1>3
    <2>3. u[i] \o g[list[i + 1]] \in Seq(Nodes)
      BY <2>1, <2>2, Concatenation DEF Stages
    <2>4. v \in [0..(i + 1) -> Seq(Nodes)]
      BY <2>1, <2>3 DEF Stages
    <2>5. v[0] = <<>>
      BY <2>1 DEF Stages
    <2>6. ASSUME NEW j \in 1..(i + 1) PROVE v[j] = v[j - 1] \o g[list[j]]
      <3>1. CASE j = i + 1
        <4>1. j - 1 = i /\ i \in 0..(i + 1) /\ i # i + 1 /\ i \in 0..i
          BY <1>3, <3>1
        <4>2. v[i + 1] = u[i] \o g[list[i + 1]]
          <5>1. i + 1 \in 0..(i + 1)
            BY <1>1, <1>3
          <5> QED BY <5>1, Zenon
        <4>3. v[j - 1] = u[i]
          BY <4>1
        <4> QED BY <3>1, <4>2, <4>3
      <3>2. CASE j # i + 1
        <4>1. j \in 1..i /\ v[j] = u[j] /\ v[j - 1] = u[j - 1]
          BY <1>3, <2>6, <3>2
        <4> QED BY <2>1, <4>1 DEF Stages
      <3> QED BY <3>1, <3>2
    <2>7. Stages(v, i + 1, list, g)
      BY <2>4, <2>5, <2>6 DEF Stages
    <2> QED BY <1>3, <2>7
  <1>4. n \in Y
    <2> HIDE DEF Y
    <2>1. \A i \in 0..n : i \in Y
      BY <1>1, <1>2, <1>3, UpTo
    <2> QED BY <1>1, <2>1
  <1>5. PICK u : Stages(u, n, list, g)
    BY <1>4
  <1>6. u = E(u)
    <2>1. u = [i \in 0..n |-> u[i]]
      BY <1>5 DEF Stages
    <2>2. ASSUME NEW i \in 0..n
          PROVE  u[i] = IF i = 0 THEN <<>> ELSE u[i - 1] \o g[list[i]]
      <3>1. CASE i = 0
        BY <1>5, <3>1 DEF Stages
      <3>2. CASE i # 0
        <4>1. i \in 1..n
          BY <1>1, <3>2
        <4> QED BY <1>5, <3>2, <4>1 DEF Stages
      <3> QED BY <3>1, <3>2
    <2> QED BY <2>1, <2>2
  <1>7. chosen = E(chosen)
    BY <1>6
  <1>8. Spread(list, g) = chosen[n]
    BY DEF Spread
  <1>9. ASSUME NEW i \in 0..n
        PROVE  chosen[i] = IF i = 0 THEN <<>> ELSE chosen[i - 1] \o g[list[i]]
    <2> HIDE DEF chosen
    <2> QED BY <1>7
  <1> HIDE DEF chosen
  <1>10. \A i \in 0..n : i \in {j \in 0..n : chosen[j] = u[j]}
    <2> DEFINE Z == {j \in 0..n : chosen[j] = u[j]}
    <2>1. 0 \in Z
      BY <1>1, <1>5, <1>9 DEF Stages
    <2>2. ASSUME NEW i \in 0..(n - 1), i \in Z PROVE i + 1 \in Z
      <3>1. i + 1 \in 0..n /\ i + 1 \in 1..n /\ i + 1 # 0 /\ i + 1 - 1 = i
        BY <1>1, <2>2
      <3>2. \A j \in 1..n : chosen[j] = chosen[j - 1] \o g[list[j]]
        <4> TAKE j \in 1..n
        <4>1. j \in 0..n /\ j # 0
          BY <1>1
        <4> QED BY <1>9, <4>1
      <3>3. \A j \in 1..n : u[j] = u[j - 1] \o g[list[j]]
        BY <1>5 DEF Stages
      <3>4. PICK j \in 1..n : j = i + 1
        BY <3>1
      <3>5. j - 1 = i
        BY <3>1, <3>4
      <3>6. chosen[j] = chosen[i] \o g[list[j]] /\ u[j] = u[i] \o g[list[j]]
        BY <3>2, <3>3, <3>5
      <3>7. chosen[j] = u[j] /\ j \in 0..n
        BY <2>2, <3>1, <3>4, <3>6
      <3> QED BY <3>4, <3>7
    <2> HIDE DEF Z
    <2>3. \A i \in 0..n : i \in Z
      BY <1>1, <2>1, <2>2, UpTo
    <2> QED BY <2>3 DEF Z
  <1> QED BY <1>1, <1>5, <1>8, <1>10

-----------------------------------------------------------------------------
(* Lists whose nodes are replaced or taken out.                            *)

Gathered(g, S) == UNION {Range(g[n]) : n \in S}
FirstOf(list, i) == {list[j] : j \in 1..i}

LEMMA StageRange ==
    ASSUME NEW list \in Seq(Nodes), NEW g \in [Nodes -> Seq(Nodes)],
           NEW u, Stages(u, Len(list), list, g), NEW i \in 0..Len(list)
    PROVE  u[i] \in Seq(Nodes) /\ Range(u[i]) = Gathered(g, FirstOf(list, i))
  <1> DEFINE n == Len(list)
             Y == {a \in 0..n : Range(u[a]) = Gathered(g, FirstOf(list, a))}
  <1>1. n \in Nat
    OBVIOUS
  <1>2. 0 \in Y
    <2>1. Range(u[0]) = {}
      BY DEF Stages, Range
    <2>2. FirstOf(list, 0) = {}
      BY DEF FirstOf
    <2> QED BY <1>1, <2>1, <2>2 DEF Gathered
  <1>3. ASSUME NEW a \in 0..(n - 1), a \in Y PROVE a + 1 \in Y
    <2>1. PICK b \in 1..n : b = a + 1
      BY <1>1
    <2>2. a \in 0..n /\ b \in 0..n /\ b - 1 = a
      BY <1>1, <2>1
    <2>3. u[b] = u[a] \o g[list[b]]
      BY <2>2 DEF Stages
    <2>4. u[a] \in Seq(Nodes) /\ list[b] \in Nodes
      <3>1. list[b] \in Nodes
        BY <2>1
      <3> QED BY <2>2, <3>1 DEF Stages
    <2>5. g[list[b]] \in Seq(Nodes)
      BY <2>4
    <2>6. Range(u[b]) = Range(u[a]) \cup Range(g[list[b]])
      <3> DEFINE t == g[list[b]]
      <3>1. t \in Seq(Nodes) /\ u[b] = u[a] \o t
        BY <2>3, <2>5
      <3> HIDE DEF t
      <3>2. Range(u[b]) = Range(u[a]) \cup Range(t)
        BY <2>4, <3>1, Concatenation
      <3> QED BY <3>2 DEF t
    <2>7. FirstOf(list, b) = FirstOf(list, a) \cup {list[b]}
      BY <2>1 DEF FirstOf
    <2>8. Gathered(g, FirstOf(list, b)) = Gathered(g, FirstOf(list, a)) \cup Range(g[list[b]])
      BY <2>7 DEF Gathered
    <2> QED BY <1>3, <2>1, <2>2, <2>6, <2>8
  <1>4. i \in Y
    <2> HIDE DEF Y
    <2> QED BY <1>1, <1>2, <1>3, UpTo
  <1> QED BY <1>4 DEF Stages

(* What a spread list holds.                                               *)
LEMMA SpreadRange ==
    ASSUME NEW list \in Seq(Nodes), NEW g \in [Nodes -> Seq(Nodes)]
    PROVE  /\ Spread(list, g) \in Seq(Nodes)
           /\ Range(Spread(list, g)) = Gathered(g, Range(list))
  <1>1. PICK u : Stages(u, Len(list), list, g) /\ Spread(list, g) = u[Len(list)]
    BY SpreadStages
  <1>2. Len(list) \in 0..Len(list)
    OBVIOUS
  <1>3. u[Len(list)] \in Seq(Nodes)
        /\ Range(u[Len(list)]) = Gathered(g, FirstOf(list, Len(list)))
    BY <1>1, <1>2, StageRange
  <1>4. FirstOf(list, Len(list)) = Range(list)
    BY RangeType DEF FirstOf
  <1> QED BY <1>1, <1>3, <1>4

LEMMA SpreadDistinct ==
    ASSUME NEW list \in Seq(Nodes), NEW g \in [Nodes -> Seq(Nodes)], Distinct(list),
           \A n \in Range(list) : Distinct(g[n]),
           \A m, n \in Range(list) : m # n => Range(g[m]) \cap Range(g[n]) = {}
    PROVE  Distinct(Spread(list, g))
  <1>1. PICK u : Stages(u, Len(list), list, g) /\ Spread(list, g) = u[Len(list)]
    BY SpreadStages
  <1> DEFINE n == Len(list)
             Y == {a \in 0..n : Distinct(u[a])}
  <1>2. n \in Nat
    OBVIOUS
  <1>3. 0 \in Y
    BY <1>1, <1>2 DEF Stages, Distinct
  <1>4. ASSUME NEW a \in 0..(n - 1), a \in Y PROVE a + 1 \in Y
    <2>1. PICK b \in 1..n : b = a + 1
      BY <1>2
    <2>2. a \in 0..n /\ b \in 0..n /\ b - 1 = a
      BY <1>2, <2>1
    <2>3. u[b] = u[a] \o g[list[b]]
      BY <1>1, <2>2 DEF Stages
    <2>4. u[a] \in Seq(Nodes) /\ Range(u[a]) = Gathered(g, FirstOf(list, a))
      BY <1>1, <2>2, StageRange
    <2>5. list[b] \in Range(list) /\ list[b] \in Nodes
      BY RangeType
    <2>6. ASSUME NEW j \in 1..a PROVE Range(g[list[j]]) \cap Range(g[list[b]]) = {}
      <3>1. j \in 1..n /\ j # b
        BY <2>1, <2>2
      <3>2. list[j] \in Range(list) /\ list[j] # list[b]
        BY <3>1, RangeType DEF Distinct
      <3> QED BY <2>5, <3>2
    <2>7. Range(u[a]) \cap Range(g[list[b]]) = {}
      BY <2>4, <2>6 DEF Gathered, FirstOf
    <2>8. Distinct(u[b])
      BY <1>4, <2>3, <2>4, <2>5, <2>7, Concatenation
    <2> QED BY <2>1, <2>2, <2>8
  <1>5. n \in Y
    <2> HIDE DEF Y
    <2>1. \A i \in 0..n : i \in Y
      BY <1>2, <1>3, <1>4, UpTo
    <2> QED BY <1>2, <2>1
  <1> QED BY <1>1, <1>5

LEMMA SparedType ==
    ASSUME NEW S
    PROVE  /\ Spared(S) \in [Nodes -> Seq(Nodes)]
           /\ \A n \in Nodes : n \in S => Range(Spared(S)[n]) = {}
           /\ \A n \in Nodes \ S : Range(Spared(S)[n]) = {n}
           /\ \A n \in Nodes : Distinct(Spared(S)[n])
  BY DEF Spared, Range, Distinct

(* What remains of a list when nodes leave it.                             *)
LEMMA WithoutList ==
    ASSUME NEW list \in Seq(Nodes), NEW S
    PROVE  /\ Spread(list, Spared(S)) \in Seq(Nodes)
           /\ Range(Spread(list, Spared(S))) = Range(list) \ S
           /\ Distinct(list) => Distinct(Spread(list, Spared(S)))
  <1>1. Spread(list, Spared(S)) \in Seq(Nodes)
        /\ Range(Spread(list, Spared(S))) = Gathered(Spared(S), Range(list))
    BY SpreadRange, SparedType
  <1>2. Range(list) \subseteq Nodes
    BY RangeType
  <1>3. \A n \in Range(list) : Range(Spared(S)[n]) = IF n \in S THEN {} ELSE {n}
    BY <1>2, SparedType
  <1>4. ASSUME Distinct(list) PROVE Distinct(Spread(list, Spared(S)))
    <2>1. \A n \in Range(list) : Distinct(Spared(S)[n])
      BY <1>2, SparedType
    <2>2. ASSUME NEW m \in Range(list), NEW n \in Range(list), m # n
          PROVE  Range(Spared(S)[m]) \cap Range(Spared(S)[n]) = {}
      <3>1. Range(Spared(S)[m]) \subseteq {m} /\ Range(Spared(S)[n]) \subseteq {n}
        BY <1>2, SparedType
      <3> QED BY <2>2, <3>1
    <2> QED BY <1>4, <2>1, <2>2, SparedType, SpreadDistinct
  <1>5. Gathered(Spared(S), Range(list)) = Range(list) \ S
    <2>1. ASSUME NEW x \in Gathered(Spared(S), Range(list)) PROVE x \in Range(list) \ S
      <3>1. PICK n \in Range(list) : x \in Range(Spared(S)[n])
        BY DEF Gathered
      <3> QED BY <1>3, <3>1
    <2>2. ASSUME NEW x \in Range(list) \ S PROVE x \in Gathered(Spared(S), Range(list))
      <3>1. x \in Range(Spared(S)[x])
        BY <1>3
      <3> QED BY <3>1 DEF Gathered
    <2> QED BY <2>1, <2>2
  <1> QED BY <1>1, <1>4, <1>5, Zenon

(* Up to any point of the list, what left moved the rest forward by as     *)
(* many places as nodes left.                                              *)
Left(list, S, i) == {x \in 1..i : list[x] \in S}

LEMMA StageLength ==
    ASSUME NEW list \in Seq(Nodes), NEW S, NEW u,
           Stages(u, Len(list), list, Spared(S)), NEW i \in 0..Len(list)
    PROVE  Len(u[i]) = i - Cardinality(Left(list, S, i))
  <1> DEFINE n == Len(list)
             Y == {a \in 0..n : /\ IsFiniteSet(Left(list, S, a))
                                /\ Cardinality(Left(list, S, a)) \in Nat
                                /\ Len(u[a]) = a - Cardinality(Left(list, S, a))}
  <1>1. n \in Nat
    OBVIOUS
  <1>2. 0 \in Y
    <2>1. Left(list, S, 0) = {}
      BY DEF Left
    <2>2. IsFiniteSet({}) /\ Cardinality({}) = 0
      BY FS_EmptySet
    <2>3. Len(u[0]) = 0
      BY DEF Stages
    <2>4. 0 - 0 = 0 /\ 0 \in Nat /\ 0 \in 0..n
      BY <1>1
    <2> QED BY <2>1, <2>2, <2>3, <2>4
  <1>3. ASSUME NEW a \in 0..(n - 1), a \in Y PROVE a + 1 \in Y
    <2>1. PICK b \in 1..n : b = a + 1
      BY <1>1
    <2>2. a \in 0..n /\ b \in 0..n /\ b - 1 = a
      BY <1>1, <2>1
    <2>3. u[b] = u[a] \o Spared(S)[list[b]]
      BY <2>2 DEF Stages
    <2>4. u[a] \in Seq(Nodes) /\ list[b] \in Nodes
      BY <2>2 DEF Stages
    <2>5. CASE list[b] \in S
      <3>1. Left(list, S, b) = Left(list, S, a) \cup {b} /\ b \notin Left(list, S, a)
        BY <2>1, <2>5 DEF Left
      <3>2. IsFiniteSet(Left(list, S, b))
            /\ Cardinality(Left(list, S, b)) = Cardinality(Left(list, S, a)) + 1
        <4>1. IsFiniteSet(Left(list, S, a))
          BY <1>3
        <4> DEFINE T == Left(list, S, a)
        <4>2. IsFiniteSet(T) /\ b \notin T
          BY <3>1, <4>1
        <4> HIDE DEF T
        <4>3. IsFiniteSet(T \cup {b}) /\ Cardinality(T \cup {b}) = Cardinality(T) + 1
          BY <4>2, FS_AddElement
        <4>4. Left(list, S, b) = T \cup {b}
          BY <3>1 DEF T
        <4> QED BY <4>3, <4>4 DEF T
      <3>3. u[b] = u[a] \o <<>>
        BY <2>3, <2>4, <2>5 DEF Spared
      <3>4. Len(u[b]) = Len(u[a])
        BY <2>4, <3>3
      <3> QED BY <1>3, <2>1, <2>2, <3>2, <3>4
    <2>6. CASE list[b] \notin S
      <3>1. Left(list, S, b) = Left(list, S, a)
        BY <2>1, <2>6 DEF Left
      <3>2. u[b] = u[a] \o <<list[b]>>
        BY <2>3, <2>4, <2>6 DEF Spared
      <3>3. Len(u[b]) = Len(u[a]) + 1
        BY <2>4, <3>2
      <3> QED BY <1>3, <2>1, <2>2, <2>4, <3>1, <3>3
    <2> QED BY <2>5, <2>6
  <1>4. i \in Y
    <2> HIDE DEF Y
    <2> QED BY <1>1, <1>2, <1>3, UpTo
  <1> QED BY <1>4

Prefixed(s, t) == Len(s) <= Len(t) /\ \A c \in 1..Len(s) : t[c] = s[c]

LEMMA StagePrefix ==
    ASSUME NEW list \in Seq(Nodes), NEW g \in [Nodes -> Seq(Nodes)],
           NEW u, Stages(u, Len(list), list, g), NEW i \in 0..Len(list)
    PROVE  Prefixed(u[i], u[Len(list)])
  <1> DEFINE n == Len(list)
             Y == {d \in 0..(n - i) : /\ Len(u[i]) <= Len(u[i + d])
                                      /\ \A c \in 1..Len(u[i]) : u[i + d][c] = u[i][c]}
  <1>1. n \in Nat /\ n - i \in Nat /\ u[i] \in Seq(Nodes) /\ i + 0 = i
    BY DEF Stages
  <1>2. 0 \in Y
    BY <1>1
  <1>3. ASSUME NEW d \in 0..((n - i) - 1), d \in Y PROVE d + 1 \in Y
    <2>1. PICK a \in 0..n, b \in 1..n : a = i + d /\ b = i + (d + 1) /\ b - 1 = a
      <3>1. i + d \in 0..n /\ i + (d + 1) \in 1..n /\ i + (d + 1) - 1 = i + d
        BY <1>1
      <3> QED BY <3>1
    <2>2. u[b] = u[a] \o g[list[b]]
      BY <2>1 DEF Stages
    <2>3. u[a] \in Seq(Nodes) /\ g[list[b]] \in Seq(Nodes)
      <3>1. list[b] \in Nodes
        BY <2>1
      <3> QED BY <2>1, <3>1 DEF Stages
    <2> DEFINE t == g[list[b]]
    <2> HIDE DEF t
    <2>4. Len(u[b]) = Len(u[a]) + Len(t) /\ Len(t) \in Nat
          /\ \A c \in 1..Len(u[a]) : u[b][c] = u[a][c]
      <3>1. t \in Seq(Nodes) /\ u[b] = u[a] \o t
        BY <2>2, <2>3 DEF t
      <3> QED BY <2>3, <3>1
    <2>5. Len(u[i]) <= Len(u[a]) /\ \A c \in 1..Len(u[i]) : u[a][c] = u[i][c]
      BY <1>3, <2>1
    <2>6. Len(u[i]) <= Len(u[b]) /\ \A c \in 1..Len(u[i]) : u[b][c] = u[i][c]
      <3>1. Len(u[i]) \in Nat /\ Len(u[a]) \in Nat
        BY <1>1, <2>3
      <3>2. \A c \in 1..Len(u[i]) : c \in 1..Len(u[a])
        BY <2>5, <3>1
      <3>3. Len(u[i]) <= Len(u[b])
        BY <2>4, <2>5, <3>1
      <3>4. \A c \in 1..Len(u[i]) : u[b][c] = u[i][c]
        <4> TAKE c \in 1..Len(u[i])
        <4>1. u[b][c] = u[a][c]
          BY <2>4, <3>2
        <4> QED BY <2>5, <4>1
      <3> QED BY <3>3, <3>4
    <2>7. d + 1 \in 0..(n - i)
      BY <1>1
    <2> QED BY <2>1, <2>6, <2>7
  <1>4. n - i \in Y
    <2> HIDE DEF Y
    <2>1. \A d \in 0..(n - i) : d \in Y
      BY <1>1, <1>2, <1>3, UpTo
    <2> QED BY <1>1, <2>1
  <1>5. i + (n - i) = n
    BY <1>1
  <1> QED BY <1>4, <1>5 DEF Prefixed

(* What stays is found where the index after removal says.                 *)
LEMMA StaysAt ==
    ASSUME NEW list \in Seq(Nodes), NEW S, NEW i \in 1..Len(list), list[i] \notin S
    PROVE  LET kept == Spread(list, Spared(S))
               c == i - Cardinality(Left(list, S, i))
           IN /\ c \in 1..Len(kept)
              /\ kept[c] = list[i]
              /\ (i - 1) - Cardinality(Left(list, S, i - 1)) = c - 1
  <1>1. PICK u : Stages(u, Len(list), list, Spared(S))
                 /\ Spread(list, Spared(S)) = u[Len(list)]
    BY SpreadStages, SparedType
  <1>2. i \in 0..Len(list) /\ i - 1 \in 0..Len(list) /\ Len(list) \in 0..Len(list)
    OBVIOUS
  <1>3. u[i] = u[i - 1] \o <<list[i]>>
    <2>1. list[i] \in Nodes
      OBVIOUS
    <2>2. Spared(S)[list[i]] = <<list[i]>>
      BY <2>1 DEF Spared
    <2> QED BY <1>1, <2>2 DEF Stages
  <1>4. u[i - 1] \in Seq(Nodes) /\ u[i] \in Seq(Nodes) /\ u[Len(list)] \in Seq(Nodes)
    BY <1>1, <1>2 DEF Stages
  <1>5. Len(u[i]) = Len(u[i - 1]) + 1 /\ u[i][Len(u[i])] = list[i]
    BY <1>3, <1>4
  <1>6. Len(u[i]) = i - Cardinality(Left(list, S, i))
        /\ Len(u[i - 1]) = (i - 1) - Cardinality(Left(list, S, i - 1))
    BY <1>1, <1>2, StageLength
  <1>7. Len(u[i]) \in 1..Len(u[i])
    BY <1>4, <1>5
  <1>8. Len(u[i]) <= Len(u[Len(list)])
        /\ \A c \in 1..Len(u[i]) : u[Len(list)][c] = u[i][c]
    <2>1. Spared(S) \in [Nodes -> Seq(Nodes)] /\ Stages(u, Len(list), list, Spared(S))
      BY <1>1, SparedType
    <2> DEFINE g == Spared(S)
    <2> HIDE DEF g
    <2>2. g \in [Nodes -> Seq(Nodes)] /\ Stages(u, Len(list), list, g)
      BY <2>1 DEF g
    <2>3. Prefixed(u[i], u[Len(list)])
      BY <1>2, <2>2, StagePrefix
    <2> QED BY <2>3 DEF Prefixed
  <1>9. Len(u[i]) \in 1..Len(u[Len(list)])
    BY <1>4, <1>7, <1>8
  <1>10. u[Len(list)][Len(u[i])] = list[i]
    BY <1>5, <1>7, <1>8
  <1>11. (i - 1) - Cardinality(Left(list, S, i - 1)) = Len(u[i]) - 1
    BY <1>4, <1>5, <1>6
  <1> QED BY <1>1, <1>6, <1>9, <1>10, <1>11

-----------------------------------------------------------------------------
(* Hosts and walks.                                                        *)

-----------------------------------------------------------------------------
(* Hosts: the tops, and those of one node each.                            *)
TopHosts == {Region} \cup Roots

LEMMA Kinds ==
    /\ WidgetHosts \cap PageHosts = {} /\ Hosts = WidgetHosts \cup PageHosts
    /\ \A n \in Nodes : n \in Widgets <=> n \notin PageNodes
    /\ \A n \in Nodes : n \in PageNodes <=> n \in Pages \/ n \in Groups
    /\ \A n \in Pages : n \notin Groups
    /\ \A n \in Widgets : InnerHosts(n) = {n} \cap Containers
    /\ \A n \in Pages : InnerHosts(n) = {n}
    /\ \A n \in Groups : InnerHosts(n) = {n, Chrome[n]} /\ Chrome[n] \in ChromeAreas
    /\ \A m, n \in Groups : Chrome[m] = Chrome[n] => m = n
    /\ \A h \in ChromeAreas : \E n \in Groups : h = Chrome[n]
    /\ Hosts \cap Nodes = Containers \cup PageNodes
    /\ Hosts = TopHosts \cup ChromeAreas \cup Containers \cup PageNodes
    /\ TopHosts \cap ChromeAreas = {} /\ TopHosts \cap Nodes = {} /\ ChromeAreas \cap Nodes = {}
    /\ Containers \subseteq Widgets
  <1>1. Chrome \in [Groups -> ChromeAreas] /\ IsInjective(Chrome)
        /\ \A h \in ChromeAreas : \E n \in Groups : Chrome[n] = h
    BY TreeAssumption DEF Bijection, Injection, Surjection
  <1>2. DOMAIN Chrome = Groups
    BY <1>1
  <1>3. \A m, n \in Groups : Chrome[m] = Chrome[n] => m = n
    BY <1>1, <1>2 DEF IsInjective
  <1>4. TopHosts \cap ChromeAreas = {} /\ TopHosts \cap Nodes = {} /\ ChromeAreas \cap Nodes = {}
    BY TreeAssumption DEF TopHosts
  <1>5. Hosts = TopHosts \cup ChromeAreas \cup Containers \cup PageNodes
        /\ Hosts = WidgetHosts \cup PageHosts
    BY DEF Hosts, WidgetHosts, PageHosts, TopHosts, PageNodes
  <1>6. /\ Containers \subseteq Widgets /\ PageNodes \subseteq Nodes
        /\ \A n \in Nodes : n \in Widgets <=> n \notin PageNodes
        /\ \A n \in Nodes : n \in PageNodes <=> n \in Pages \/ n \in Groups
        /\ \A n \in Pages : n \notin Groups
    BY TreeAssumption DEF Nodes, PageNodes
  <1>7. Hosts \cap Nodes = Containers \cup PageNodes
    BY <1>4, <1>5, <1>6 DEF Nodes
  <1>8. WidgetHosts \cap PageHosts = {}
    BY TreeAssumption, <1>6 DEF WidgetHosts, PageHosts, Roots, Nodes, PageNodes
  <1>9. \A n \in Widgets : n \in Nodes /\ n \notin Groups
    BY <1>6 DEF Nodes
  <1>10. \A n \in Widgets : InnerHosts(n) = {n} \cap Containers
    BY <1>6, <1>7, <1>9 DEF InnerHosts
  <1>11. \A n \in Pages : InnerHosts(n) = {n}
    BY <1>6, <1>7 DEF InnerHosts, PageNodes
  <1>12. \A n \in Groups : InnerHosts(n) = {n, Chrome[n]} /\ Chrome[n] \in ChromeAreas
    BY <1>1 DEF InnerHosts
  <1> QED BY <1>1, <1>3, <1>4, <1>5, <1>6, <1>7, <1>8, <1>10, <1>11, <1>12

LEMMA OneOwner ==
    /\ \A m, n \in Nodes : m # n => InnerHosts(m) \cap InnerHosts(n) = {}
    /\ \A n \in Nodes : InnerHosts(n) \cap TopHosts = {}
    /\ \A n \in Nodes : InnerHosts(n) \subseteq Hosts
    /\ \A h \in Hosts \ TopHosts : \E n \in Nodes : h \in InnerHosts(n)
  <1>1. \A n \in Nodes : InnerHosts(n) \subseteq {n} \cup ChromeAreas
    BY Kinds
  <1>2. ASSUME NEW m \in Nodes, NEW n \in Nodes, m # n
        PROVE  InnerHosts(m) \cap InnerHosts(n) = {}
    BY <1>2, Kinds
  <1>3. \A n \in Nodes : InnerHosts(n) \cap TopHosts = {}
    BY <1>1, Kinds
  <1>4. \A n \in Nodes : InnerHosts(n) \subseteq Hosts
    BY Kinds
  <1>5. ASSUME NEW h \in Hosts \ TopHosts PROVE \E n \in Nodes : h \in InnerHosts(n)
    <2>1. CASE h \in ChromeAreas
      BY <2>1, Kinds DEF Nodes, PageNodes
    <2>2. CASE h \in Containers
      BY <2>2, Kinds DEF Nodes
    <2>3. CASE h \in PageNodes
      BY <2>3, Kinds DEF Nodes, PageNodes
    <2> QED BY <2>1, <2>2, <2>3, Kinds
  <1> QED BY <1>2, <1>3, <1>4, <1>5

LEMMA Owned ==
    ASSUME NEW T \in SUBSET Nodes, NEW n \in Nodes, NEW h \in InnerHosts(n)
    PROVE  h \in HostsOf(T) <=> n \in T
  BY OneOwner DEF HostsOf

LEMMA TopsNotOwned ==
    ASSUME NEW T \in SUBSET Nodes
    PROVE  HostsOf(T) \cap TopHosts = {} /\ HostsOf(T) \subseteq Hosts
  BY OneOwner DEF HostsOf

-----------------------------------------------------------------------------
(* Walks down a tree.                                                      *)
LEMMA BelowFacts ==
    ASSUME NEW k, Forest(k), NEW S \in SUBSET Nodes
    PROVE  /\ S \subseteq Below(k, S) /\ Below(k, S) \subseteq Nodes
           /\ Children(k, Below(k, S)) \subseteq Below(k, S)
           /\ \A T \in SUBSET Nodes :
                 S \subseteq T /\ Children(k, T) \subseteq T => Below(k, S) \subseteq T
  <1>1. Below(k, S) = Least(k, S)
    BY BelowIsLeast
  <1>2. S \subseteq Least(k, S) /\ Least(k, S) \subseteq Nodes
    BY DEF Least
  <1>3. \A T \in SUBSET Nodes :
            S \subseteq T /\ Children(k, T) \subseteq T => Least(k, S) \subseteq T
    BY DEF Least, Closed
  <1>4. ASSUME NEW T \in SUBSET Nodes, S \subseteq T, Children(k, T) \subseteq T
        PROVE  Children(k, Least(k, S)) \subseteq T
    BY <1>3, <1>4, ChildrenGrow
  <1>5. Children(k, Least(k, S)) \subseteq Nodes
    BY <1>2, ChildrenType
  <1>6. Children(k, Least(k, S)) \subseteq Least(k, S)
    BY <1>4, <1>5 DEF Least, Closed
  <1> QED BY <1>1, <1>2, <1>3, <1>6

(* A set with the children of its nodes has everything below it.           *)
LEMMA BelowIn ==
    ASSUME NEW k, Forest(k), NEW S \in SUBSET Nodes, NEW T \in SUBSET Nodes, S \subseteq T,
           \A h \in HostsOf(T) : Range(k[h]) \subseteq T
    PROVE  Below(k, S) \subseteq T
  <1>1. Children(k, T) \subseteq T
    BY DEF Children
  <1> QED BY <1>1, BelowFacts

LEMMA BelowClosed ==
    ASSUME NEW k, Forest(k), NEW S \in SUBSET Nodes, NEW h \in HostsOf(Below(k, S))
    PROVE  Range(k[h]) \subseteq Below(k, S)
  BY BelowFacts DEF Children

(* What is below is given, or held by what is below.                       *)
LEMMA BelowSplit ==
    ASSUME NEW k, Forest(k), NEW S \in SUBSET Nodes, NEW x \in Below(k, S), x \notin S
    PROVE  \E h \in HostsOf(Below(k, S)) : x \in Range(k[h])
  <1> DEFINE B == Below(k, S)
             T == S \cup Children(k, B)
  <1>1. T \in SUBSET Nodes /\ T \subseteq B
    BY BelowFacts
  <1>2. Children(k, T) \subseteq T
    BY <1>1, ChildrenGrow
  <1>3. B \subseteq T
    BY <1>1, <1>2, BelowFacts
  <1> QED BY <1>3 DEF Children

LEMMA BelowGrows ==
    ASSUME NEW k, Forest(k), NEW S \in SUBSET Nodes, NEW T \in SUBSET Nodes, S \subseteq Below(k, T)
    PROVE  Below(k, S) \subseteq Below(k, T)
  BY BelowFacts

LEMMA BelowOne ==
    ASSUME NEW k, Forest(k), NEW S \in SUBSET Nodes
    PROVE  \A x : x \in Below(k, S) <=> \E n \in S : x \in Subtree(k, n)
  <1> DEFINE T == UNION {Subtree(k, n) : n \in S}
  <1>1. \A n \in S : n \in Subtree(k, n) /\ Subtree(k, n) \subseteq Nodes
    BY BelowFacts DEF Subtree
  <1>2. T \in SUBSET Nodes /\ S \subseteq T
    BY <1>1
  <1>3. ASSUME NEW h \in HostsOf(T) PROVE Range(k[h]) \subseteq T
    <2>1. PICK n \in S : h \in HostsOf(Subtree(k, n))
      BY <1>3 DEF HostsOf
    <2>2. Range(k[h]) \subseteq Subtree(k, n)
      BY <2>1, BelowClosed DEF Subtree
    <2> QED BY <2>2
  <1>4. Below(k, S) \subseteq T
    BY <1>2, <1>3, BelowIn
  <1>5. \A n \in S : Subtree(k, n) \subseteq Below(k, S)
    BY BelowFacts, BelowGrows DEF Subtree
  <1> QED BY <1>4, <1>5

(* Trees that agree on what lies below agree on what that is.              *)
LEMMA BelowAgrees ==
    ASSUME NEW k, Forest(k), NEW j, Forest(j), NEW S \in SUBSET Nodes,
           \A h \in HostsOf(Below(k, S)) : Range(j[h]) = Range(k[h])
    PROVE  Below(j, S) = Below(k, S)
  <1> DEFINE B == Below(k, S)
             C == Below(j, S)
  <1>1. S \subseteq B /\ B \subseteq Nodes /\ S \subseteq C /\ C \subseteq Nodes
    BY BelowFacts
  <1>2. C \subseteq B
    BY <1>1, BelowClosed, BelowIn
  <1>3. \A h \in HostsOf(C) : h \in HostsOf(B)
    BY <1>2 DEF HostsOf
  <1>4. ASSUME NEW h \in HostsOf(C) PROVE Range(k[h]) \subseteq C
    <2>1. Range(j[h]) \subseteq C
      BY BelowClosed
    <2> QED BY <1>3, <2>1
  <1>5. B \subseteq C
    BY <1>1, <1>4, BelowIn
  <1> QED BY <1>2, <1>5

-----------------------------------------------------------------------------
(* Trees.                                                                  *)

(* A tree, in terms of what hosts hold.                                    *)
KindsFit(k) ==
    /\ \A h \in WidgetHosts : Range(k[h]) \subseteq Widgets
    /\ \A h \in PageHosts : Range(k[h]) \subseteq PageNodes
Apart(k) ==
    /\ \A h \in Hosts : Distinct(k[h])
    /\ \A a, b \in Hosts : a # b => Range(k[a]) \cap Range(k[b]) = {}
Grounded(k) == \A h \in Hosts : Range(k[h]) # {} => h \in HostsIn(k)

LEMMA ApartIs ==
    ASSUME NEW k, Forest(k)
    PROVE  OnePlace(k) <=> Apart(k)
  <1>1. \A h \in Hosts : k[h] \in Seq(Nodes)
    BY DEF Forest
  <1>2. ASSUME OnePlace(k) PROVE Apart(k)
    <2>1. \A h \in Hosts : Distinct(k[h])
      BY <1>2 DEF OnePlace, Distinct
    <2>2. ASSUME NEW a \in Hosts, NEW b \in Hosts, a # b, NEW x \in Range(k[a]), x \in Range(k[b])
          PROVE  FALSE
      <3>1. PICK i \in 1..Len(k[a]) : k[a][i] = x
        BY <1>1, RangeType
      <3>2. PICK j \in 1..Len(k[b]) : k[b][j] = x
        BY <1>1, <2>2, RangeType
      <3> QED BY <1>2, <2>2, <3>1, <3>2 DEF OnePlace
    <2> QED BY <2>1, <2>2 DEF Apart
  <1>3. ASSUME Apart(k), NEW a \in Hosts, NEW b \in Hosts,
               NEW i \in 1..Len(k[a]), NEW j \in 1..Len(k[b]), k[a][i] = k[b][j]
        PROVE  a = b /\ i = j
    <2>1. k[a][i] \in Range(k[a]) /\ k[b][j] \in Range(k[b])
      BY <1>1, RangeType
    <2>2. a = b
      BY <1>3, <2>1 DEF Apart
    <2> QED BY <1>3, <2>2 DEF Apart, Distinct
  <1> QED BY <1>2, <1>3 DEF OnePlace

LEMMA TreeIs ==
    ASSUME NEW k
    PROVE  IsTree(k) <=> Forest(k) /\ KindsFit(k) /\ Apart(k) /\ Grounded(k)
  <1>1. ASSUME IsTree(k) PROVE Forest(k) /\ KindsFit(k) /\ Apart(k) /\ Grounded(k)
    <2>1. Forest(k)
      BY <1>1 DEF IsTree, Forest
    <2>2. KindsFit(k)
      BY <1>1, RangeType DEF IsTree, KindsFit
    <2>3. Apart(k)
      BY <1>1, <2>1, ApartIs DEF IsTree
    <2>4. Grounded(k)
      <3>1. \A h \in Hosts \ HostsIn(k) : k[h] = <<>>
        BY <1>1 DEF IsTree
      <3> QED BY <2>1, <3>1, RangeEmpty DEF Grounded, Forest
    <2> QED BY <2>1, <2>2, <2>3, <2>4
  <1>2. ASSUME Forest(k), KindsFit(k), Apart(k), Grounded(k) PROVE IsTree(k)
    <2>1. \A h \in Hosts : k[h] \in Seq(Nodes)
      BY <1>2 DEF Forest
    <2>2. \A h \in Hosts \ HostsIn(k) : k[h] = <<>>
      BY <1>2, <2>1, RangeEmpty DEF Grounded
    <2>3. \A h \in WidgetHosts : k[h] \in Seq(Widgets)
      BY <1>2, <2>1, RangeIn DEF KindsFit, Hosts
    <2>4. \A h \in PageHosts : k[h] \in Seq(PageNodes)
      BY <1>2, <2>1, RangeIn DEF KindsFit, Hosts
    <2> QED BY <1>2, <2>2, <2>3, <2>4, ApartIs DEF IsTree, Forest
  <1> QED BY <1>1, <1>2

Placed(k) == UNION {Range(k[h]) : h \in Hosts}

LEMMA TopsAre ==
    ASSUME NEW k, Forest(k)
    PROVE  /\ Tops(k) \in SUBSET Nodes
           /\ \A x : x \in Tops(k) <=> \E h \in TopHosts : x \in Range(k[h])
           /\ TopHosts \subseteq Hosts
  <1>1. TopHosts \subseteq Hosts
    BY DEF TopHosts, Hosts, WidgetHosts, PageHosts
  <1>2. \A h \in Hosts : Range(k[h]) \subseteq Nodes
    BY RangeType DEF Forest
  <1>3. \A x : x \in Tops(k) <=> \E h \in TopHosts : x \in Range(k[h])
    BY DEF Tops, TopHosts, Roots
  <1> QED BY <1>1, <1>2, <1>3

LEMMA HostsInAre ==
    ASSUME NEW k
    PROVE  \A h : h \in HostsIn(k) <=> h \in TopHosts \/ h \in HostsOf(Reached(k))
  BY DEF HostsIn, TopHosts

LEMMA ReachedFacts ==
    ASSUME NEW k, Forest(k)
    PROVE  /\ Reached(k) \subseteq Nodes /\ Tops(k) \subseteq Reached(k)
           /\ HostsIn(k) \subseteq Hosts
           /\ \A h \in HostsIn(k) : Range(k[h]) \subseteq Reached(k)
           /\ Reached(k) \subseteq Placed(k)
  <1>1. Reached(k) \subseteq Nodes /\ Tops(k) \subseteq Reached(k)
    BY TopsAre, BelowFacts DEF Reached
  <1>2. HostsIn(k) \subseteq Hosts
    BY <1>1, HostsInAre, TopsAre, HostsKnown
  <1>3. ASSUME NEW h \in HostsIn(k) PROVE Range(k[h]) \subseteq Reached(k)
    <2>1. CASE h \in TopHosts
      BY <1>1, <2>1, TopsAre
    <2>2. CASE h \in HostsOf(Reached(k))
      BY <2>2, TopsAre, BelowClosed DEF Reached
    <2> QED BY <2>1, <2>2, HostsInAre
  <1>4. ASSUME NEW x \in Reached(k) PROVE x \in Placed(k)
    <2>1. CASE x \in Tops(k)
      BY <2>1, TopsAre DEF Placed
    <2>2. CASE x \notin Tops(k)
      <3>1. PICK h \in HostsOf(Reached(k)) : x \in Range(k[h])
        BY <2>2, TopsAre, BelowSplit DEF Reached
      <3>2. h \in Hosts
        BY <1>1, HostsKnown
      <3> QED BY <3>1, <3>2 DEF Placed
    <2> QED BY <2>1, <2>2
  <1> QED BY <1>1, <1>2, <1>3, <1>4

LEMMA ReachedIn ==
    ASSUME NEW k, Forest(k), NEW T \in SUBSET Nodes, \A h \in TopHosts : Range(k[h]) \subseteq T,
           \A h \in HostsOf(T) : Range(k[h]) \subseteq T
    PROVE  Reached(k) \subseteq T
  <1>1. Tops(k) \subseteq T
    BY TopsAre
  <1> QED BY <1>1, BelowIn, TopsAre DEF Reached

(* In a tree, what is reached is what has a place.                         *)
LEMMA ReachedIsPlaced ==
    ASSUME NEW k, Forest(k), Grounded(k)
    PROVE  Reached(k) = Placed(k)
  <1>1. ASSUME NEW x \in Placed(k) PROVE x \in Reached(k)
    <2>1. PICK h \in Hosts : x \in Range(k[h])
      BY DEF Placed
    <2>2. h \in HostsIn(k)
      BY <2>1 DEF Grounded
    <2> QED BY <2>1, <2>2, ReachedFacts
  <1> QED BY <1>1, ReachedFacts

(* A tree in which what is below is apart from what holds it: no node is   *)
(* below itself.                                                           *)
LEMMA NotBelowItself ==
    ASSUME NEW k, Forest(k), Apart(k), Grounded(k),
           NEW n \in Nodes, NEW h \in Hosts, n \in Range(k[h])
    PROVE  h \notin HostsOf(Subtree(k, n))
  <1> DEFINE B == Subtree(k, n)
             T == Reached(k) \ B
  <1> SUFFICES ASSUME h \in HostsOf(B) PROVE FALSE
    OBVIOUS
  <1>1. n \in B /\ B \subseteq Nodes
    BY BelowFacts DEF Subtree
  <1>2. \A x \in B : \E a \in HostsOf(B) : x \in Range(k[a])
    <2> TAKE x \in B
    <2>1. CASE x = n
      BY <2>1
    <2>2. CASE x # n
      BY <2>2, BelowSplit DEF Subtree
    <2> QED BY <2>1, <2>2
  <1>3. HostsOf(B) \subseteq Hosts /\ HostsOf(B) \cap TopHosts = {}
    BY <1>1, TopsNotOwned
  <1>4. \A x \in B, a \in Hosts : x \in Range(k[a]) => a \in HostsOf(B)
    BY <1>2, <1>3 DEF Apart
  <1>5. T \in SUBSET Nodes
    BY ReachedFacts
  <1>6. ASSUME NEW a \in TopHosts PROVE Range(k[a]) \subseteq T
    <2>1. a \in HostsIn(k) /\ a \in Hosts /\ a \notin HostsOf(B)
      BY <1>3, HostsInAre, TopsAre
    <2> QED BY <1>4, <2>1, ReachedFacts
  <1>7. ASSUME NEW a \in HostsOf(T) PROVE Range(k[a]) \subseteq T
    <2>1. a \in HostsIn(k)
      BY HostsInAre DEF HostsOf
    <2>2. PICK m \in T : a \in InnerHosts(m)
      BY DEF HostsOf
    <2>3. a \notin HostsOf(B)
      BY <1>1, <1>5, <2>2, Owned
    <2> QED BY <1>4, <2>1, <2>3, ReachedFacts
  <1>8. Reached(k) \subseteq T
    BY <1>5, <1>6, <1>7, ReachedIn
  <1>9. n \in Reached(k)
    BY ReachedIsPlaced DEF Placed
  <1> QED BY <1>1, <1>8, <1>9

LEMMA BelowWidgets ==
    ASSUME NEW k, Forest(k), KindsFit(k), NEW S \in SUBSET Widgets
    PROVE  Below(k, S) \subseteq Widgets
  <1>1. S \in SUBSET Nodes /\ Widgets \in SUBSET Nodes
    BY DEF Nodes
  <1>2. ASSUME NEW h \in HostsOf(Widgets) PROVE Range(k[h]) \subseteq Widgets
    <2>1. h \in Containers
      BY Kinds DEF HostsOf
    <2> QED BY <2>1 DEF KindsFit, WidgetHosts
  <1> QED BY <1>1, <1>2, BelowIn

LEMMA BelowPage ==
    ASSUME NEW k, Forest(k), KindsFit(k), NEW p \in Pages
    PROVE  Subtree(k, p) \subseteq {p} \cup Widgets
  <1> DEFINE T == {p} \cup Widgets
  <1>1. T \in SUBSET Nodes /\ {p} \in SUBSET Nodes
    BY DEF Nodes, PageNodes
  <1>2. ASSUME NEW h \in HostsOf(T) PROVE Range(k[h]) \subseteq T
    <2>1. h \in Containers \cup {p}
      BY Kinds DEF HostsOf
    <2> QED BY <2>1 DEF KindsFit, WidgetHosts
  <1>3. Below(k, {p}) \subseteq T
    BY <1>1, <1>2, BelowIn
  <1> QED BY <1>3 DEF Subtree

-----------------------------------------------------------------------------
(* Moving, deleting and adding, in any tree.                               *)

Tree(k) == Forest(k) /\ KindsFit(k) /\ Apart(k) /\ Grounded(k)

LEMMA HostsOfGrows ==
    ASSUME NEW S, NEW T, S \subseteq T
    PROVE  HostsOf(S) \subseteq HostsOf(T)
  BY DEF HostsOf

(* The node that owns a host that is not a top.                            *)
LEMMA OwnerOf ==
    ASSUME NEW T, NEW h \in HostsOf(T)
    PROVE  \E n \in T : h \in InnerHosts(n)
  BY DEF HostsOf

(* Nodes move to a host that is not below them: the tree holds the same.   *)
LEMMA MoveTree ==
    ASSUME NEW k, Tree(k), NEW j, Forest(j), NEW M, M \subseteq Reached(k),
           NEW host \in HostsIn(k), host \notin HostsOf(Below(k, M)),
           host \in WidgetHosts => M \subseteq Widgets,
           host \in PageHosts => M \subseteq PageNodes,
           \A h \in Hosts : Distinct(j[h]),
           \A h \in Hosts \ {host} : Range(j[h]) = Range(k[h]) \ M,
           Range(j[host]) = (Range(k[host]) \ M) \cup M
    PROVE  Tree(j) /\ Reached(j) = Reached(k)
  <1> DEFINE B == Below(k, M)
             R == Reached(j)
  <1>1. Forest(k) /\ KindsFit(k) /\ Apart(k) /\ Grounded(k)
    BY DEF Tree
  <1>2. R \subseteq Nodes /\ Reached(k) \subseteq Nodes /\ M \in SUBSET Nodes /\ host \in Hosts
    BY <1>1, ReachedFacts
  <1>3. M \subseteq B /\ B \subseteq Nodes
    BY <1>1, <1>2, BelowFacts
  <1>4. KindsFit(j)
    <2>1. \A h \in WidgetHosts : h \in Hosts /\ Range(j[h]) \subseteq Widgets
      BY <1>1 DEF KindsFit, Hosts
    <2>2. \A h \in PageHosts : h \in Hosts /\ Range(j[h]) \subseteq PageNodes
      BY <1>1 DEF KindsFit, Hosts
    <2> QED BY <2>1, <2>2 DEF KindsFit
  <1>5. Apart(j)
    <2>1. ASSUME NEW a \in Hosts, NEW b \in Hosts, a # b
          PROVE  Range(j[a]) \cap Range(j[b]) = {}
      <3>1. Range(k[a]) \cap Range(k[b]) = {}
        BY <1>1, <2>1 DEF Apart
      <3>2. CASE a # host /\ b # host
        BY <3>1, <3>2
      <3>3. CASE a = host
        <4>1. Range(j[b]) = Range(k[b]) \ M
          BY <2>1, <3>3
        <4> QED BY <3>1, <3>3, <4>1
      <3>4. CASE b = host
        <4>1. Range(j[a]) = Range(k[a]) \ M
          BY <2>1, <3>4
        <4> QED BY <3>1, <3>4, <4>1
      <3> QED BY <3>2, <3>3, <3>4
    <2> QED BY <2>1 DEF Apart
  <1>6. \A h \in Hosts : Range(k[h]) \subseteq Range(j[h]) \cup M
    BY <1>2
  <1>7. \A h \in HostsIn(j) : Range(j[h]) \subseteq R
    BY ReachedFacts
  <1>8. Reached(k) \subseteq R \cup B
    <2>1. ASSUME NEW h \in TopHosts PROVE Range(k[h]) \subseteq R \cup B
      <3>1. h \in HostsIn(j) /\ h \in Hosts
        BY <2>1, HostsInAre, TopsAre
      <3> QED BY <1>3, <1>6, <1>7, <3>1
    <2>2. ASSUME NEW h \in HostsOf(R \cup B) PROVE Range(k[h]) \subseteq R \cup B
      <3>1. h \in HostsOf(R) \/ h \in HostsOf(B)
        BY <2>2 DEF HostsOf
      <3>2. CASE h \in HostsOf(R)
        <4>1. h \in HostsIn(j) /\ h \in Hosts
          BY <3>2, HostsInAre, <1>2, HostsKnown
        <4> QED BY <1>3, <1>6, <1>7, <4>1
      <3>3. CASE h \in HostsOf(B)
        BY <3>3, <1>1, <1>2, BelowClosed
      <3> QED BY <3>1, <3>2, <3>3
    <2> QED BY <1>1, <1>2, <1>3, <2>1, <2>2, ReachedIn
  <1>9. host \in HostsIn(j)
    <2>1. CASE host \in TopHosts
      BY <2>1, HostsInAre
    <2>2. CASE host \in HostsOf(Reached(k))
      <3>1. PICK n \in Reached(k) : host \in InnerHosts(n)
        BY <2>2, OwnerOf
      <3>2. n \notin B
        BY <3>1 DEF HostsOf
      <3>3. n \in R
        BY <1>8, <3>1, <3>2
      <3> QED BY <3>1, <3>3, HostsInAre DEF HostsOf
    <2> QED BY <2>1, <2>2, HostsInAre
  <1>10. M \subseteq R
    BY <1>7, <1>9
  <1>11. B \subseteq R
    <2> DEFINE T == R \cap B
    <2>1. T \in SUBSET Nodes /\ M \subseteq T
      BY <1>2, <1>3, <1>10
    <2>2. ASSUME NEW h \in HostsOf(T) PROVE Range(k[h]) \subseteq T
      <3>1. h \in HostsOf(R) /\ h \in HostsOf(B)
        BY <2>2 DEF HostsOf
      <3>2. h \in HostsIn(j) /\ h \in Hosts
        BY <3>1, HostsInAre, <1>2, HostsKnown
      <3>3. Range(k[h]) \subseteq R
        BY <1>6, <1>7, <1>10, <3>2
      <3>4. Range(k[h]) \subseteq B
        BY <3>1, <1>1, <1>2, BelowClosed
      <3> QED BY <3>3, <3>4
    <2>3. B \subseteq T
      BY <1>1, <1>2, <2>1, <2>2, BelowIn
    <2> QED BY <2>3
  <1>12. Reached(k) \subseteq R
    BY <1>8, <1>11
  <1>13. HostsIn(k) \subseteq HostsIn(j)
    BY <1>12, HostsInAre, HostsOfGrows
  <1>14. Grounded(j)
    <2>1. ASSUME NEW h \in Hosts, Range(j[h]) # {} PROVE h \in HostsIn(j)
      <3>1. CASE h = host
        BY <3>1, <1>9
      <3>2. CASE h # host
        <4>1. Range(k[h]) # {}
          BY <2>1, <3>2
        <4> QED BY <1>1, <1>13, <4>1 DEF Grounded
      <3> QED BY <3>1, <3>2
    <2> QED BY <2>1 DEF Grounded
  <1>15. Tree(j)
    BY <1>4, <1>5, <1>14 DEF Tree
  <1>16. R \subseteq Reached(k)
    <2>1. Reached(k) = Placed(k) /\ R = Placed(j)
      BY <1>1, <1>14, ReachedIsPlaced
    <2>2. \A h \in Hosts : Range(j[h]) \subseteq Range(k[h]) \cup M
      BY <1>2
    <2> QED BY <2>1, <2>2 DEF Placed
  <1> QED BY <1>12, <1>15, <1>16

(* Nodes leave with everything below them.                                 *)
LEMMA DeleteTree ==
    ASSUME NEW k, Tree(k), NEW j, Forest(j), NEW M \in SUBSET Nodes,
           \A h \in Hosts : Distinct(j[h]),
           \A h \in HostsOf(Below(k, M)) : Range(j[h]) = {},
           \A h \in Hosts \ HostsOf(Below(k, M)) : Range(j[h]) = Range(k[h]) \ M
    PROVE  Tree(j) /\ Reached(j) = Reached(k) \ Below(k, M)
  <1> DEFINE B == Below(k, M)
             R == Reached(j)
  <1>1. Forest(k) /\ KindsFit(k) /\ Apart(k) /\ Grounded(k)
    BY DEF Tree
  <1>2. R \subseteq Nodes /\ Reached(k) \subseteq Nodes
    BY <1>1, ReachedFacts
  <1>3. M \subseteq B /\ B \subseteq Nodes
    BY <1>1, BelowFacts
  <1>4. \A h \in Hosts : Range(j[h]) \subseteq Range(k[h])
    OBVIOUS
  <1>5. KindsFit(j)
    BY <1>1, <1>4 DEF KindsFit, Hosts
  <1>6. Apart(j)
    BY <1>1, <1>4 DEF Apart
  <1>7. \A h \in HostsIn(j) : Range(j[h]) \subseteq R
    BY ReachedFacts
  <1>8. \A h \in Hosts : h \notin HostsOf(B) => Range(k[h]) \subseteq Range(j[h]) \cup M
    OBVIOUS
  <1>9. Reached(k) \subseteq R \cup B
    <2>1. ASSUME NEW h \in TopHosts PROVE Range(k[h]) \subseteq R \cup B
      <3>1. h \in HostsIn(j) /\ h \in Hosts /\ h \notin HostsOf(B)
        BY <2>1, <1>3, HostsInAre, TopsAre, TopsNotOwned
      <3> QED BY <1>3, <1>7, <1>8, <3>1
    <2>2. ASSUME NEW h \in HostsOf(R \cup B) PROVE Range(k[h]) \subseteq R \cup B
      <3>1. CASE h \in HostsOf(B)
        BY <3>1, <1>1, BelowClosed
      <3>2. CASE h \notin HostsOf(B)
        <4>1. h \in HostsOf(R)
          BY <2>2, <3>2 DEF HostsOf
        <4>2. h \in HostsIn(j) /\ h \in Hosts
          BY <4>1, HostsInAre, <1>2, HostsKnown
        <4> QED BY <1>3, <1>7, <1>8, <3>2, <4>2
      <3> QED BY <3>1, <3>2
    <2> QED BY <1>1, <1>2, <1>3, <2>1, <2>2, ReachedIn
  <1>10. Grounded(j)
    <2>1. ASSUME NEW h \in Hosts, Range(j[h]) # {} PROVE h \in HostsIn(j)
      <3>1. h \notin HostsOf(B) /\ Range(k[h]) # {}
        BY <2>1, <1>4
      <3>2. h \in HostsIn(k)
        BY <3>1, <1>1 DEF Grounded
      <3>3. CASE h \in TopHosts
        BY <3>3, HostsInAre
      <3>4. CASE h \in HostsOf(Reached(k))
        <4>1. PICK n \in Reached(k) : h \in InnerHosts(n)
          BY <3>4, OwnerOf
        <4>2. n \notin B
          BY <3>1, <4>1 DEF HostsOf
        <4>3. n \in R
          BY <1>9, <4>1, <4>2
        <4> QED BY <4>1, <4>3, HostsInAre DEF HostsOf
      <3> QED BY <3>2, <3>3, <3>4, HostsInAre
    <2> QED BY <2>1 DEF Grounded
  <1>11. Tree(j)
    BY <1>5, <1>6, <1>10 DEF Tree
  <1>12. Reached(k) = Placed(k) /\ R = Placed(j)
    BY <1>1, <1>10, ReachedIsPlaced
  <1>13. ASSUME NEW x \in R PROVE x \in Reached(k) /\ x \notin B
    <2>1. PICK h \in Hosts : x \in Range(j[h])
      BY <1>12 DEF Placed
    <2>2. h \notin HostsOf(B) /\ x \in Range(k[h]) /\ x \notin M
      BY <2>1
    <2>3. x \in B => FALSE
      <3> SUFFICES ASSUME x \in B PROVE FALSE
        OBVIOUS
      <3>1. PICK a \in HostsOf(B) : x \in Range(k[a])
        BY <1>1, <2>2, BelowSplit
      <3>2. a \in Hosts /\ a # h
        BY <1>3, <2>2, <3>1, HostsKnown
      <3> QED BY <1>1, <2>2, <3>1, <3>2 DEF Apart
    <2> QED BY <1>12, <2>2, <2>3 DEF Placed
  <1> QED BY <1>9, <1>11, <1>13

(* A node that is not in the tree, and holds nothing, comes in.            *)
LEMMA AddTree ==
    ASSUME NEW k, Tree(k), NEW j, Forest(j), NEW w \in Nodes, w \notin Reached(k),
           NEW host \in HostsIn(k),
           host \in WidgetHosts => w \in Widgets, host \in PageHosts => w \in PageNodes,
           \A h \in Hosts : Distinct(j[h]),
           \A h \in Hosts \ {host} : Range(j[h]) = Range(k[h]),
           Range(j[host]) = Range(k[host]) \cup {w}
    PROVE  Tree(j) /\ Reached(j) = Reached(k) \cup {w}
  <1> DEFINE R == Reached(j)
  <1>1. Forest(k) /\ KindsFit(k) /\ Apart(k) /\ Grounded(k)
    BY DEF Tree
  <1>2. R \subseteq Nodes /\ Reached(k) \subseteq Nodes /\ host \in Hosts
    BY <1>1, ReachedFacts
  <1>3. Reached(k) = Placed(k)
    BY <1>1, ReachedIsPlaced
  <1>4. \A h \in Hosts : w \notin Range(k[h])
    BY <1>3 DEF Placed
  <1>5. KindsFit(j)
    BY <1>1 DEF KindsFit, Hosts
  <1>6. Apart(j)
    <2>1. ASSUME NEW a \in Hosts, NEW b \in Hosts, a # b
          PROVE  Range(j[a]) \cap Range(j[b]) = {}
      <3>1. Range(k[a]) \cap Range(k[b]) = {} /\ w \notin Range(k[a]) /\ w \notin Range(k[b])
        BY <1>1, <1>4, <2>1 DEF Apart
      <3>2. CASE a # host /\ b # host
        BY <3>1, <3>2
      <3>3. CASE a = host
        <4>1. Range(j[b]) = Range(k[b])
          BY <2>1, <3>3
        <4> QED BY <3>1, <3>3, <4>1
      <3>4. CASE b = host
        <4>1. Range(j[a]) = Range(k[a])
          BY <2>1, <3>4
        <4> QED BY <3>1, <3>4, <4>1
      <3> QED BY <3>2, <3>3, <3>4
    <2> QED BY <2>1 DEF Apart
  <1>7. \A h \in Hosts : Range(k[h]) \subseteq Range(j[h])
    BY <1>2
  <1>8. \A h \in HostsIn(j) : Range(j[h]) \subseteq R
    BY ReachedFacts
  <1>9. Reached(k) \subseteq R
    <2>1. ASSUME NEW h \in TopHosts PROVE Range(k[h]) \subseteq R
      BY <1>7, <1>8, HostsInAre, TopsAre
    <2>2. ASSUME NEW h \in HostsOf(R) PROVE Range(k[h]) \subseteq R
      BY <1>2, <1>7, <1>8, HostsInAre, HostsKnown
    <2> QED BY <1>1, <1>2, <2>1, <2>2, ReachedIn
  <1>10. HostsIn(k) \subseteq HostsIn(j)
    BY <1>9, HostsInAre, HostsOfGrows
  <1>11. Grounded(j)
    <2>1. ASSUME NEW h \in Hosts, Range(j[h]) # {} PROVE h \in HostsIn(j)
      <3>1. CASE h = host
        BY <3>1, <1>10
      <3>2. CASE h # host
        BY <1>1, <1>10, <2>1, <3>2 DEF Grounded
      <3> QED BY <3>1, <3>2
    <2> QED BY <2>1 DEF Grounded
  <1>12. Tree(j)
    BY <1>5, <1>6, <1>11 DEF Tree
  <1>13. R = Placed(j)
    BY <1>11, ReachedIsPlaced
  <1>14. Placed(j) = Placed(k) \cup {w}
    <2>1. \A h \in Hosts : Range(j[h]) \subseteq Range(k[h]) \cup {w}
      BY <1>2
    <2>2. w \in Placed(j)
      BY <1>2 DEF Placed
    <2> QED BY <1>7, <2>1, <2>2 DEF Placed
  <1> QED BY <1>3, <1>12, <1>13, <1>14

-----------------------------------------------------------------------------
(* New ids.                                                                *)

(* New ids for the nodes of B, none of them in the tree k.                 *)
Renames(f, B, k) ==
    /\ f \in Injection(B, Nodes \ Reached(k))
    /\ \A n \in B : f[n] \in SameType(n)

LEMMA RenamesFacts ==
    ASSUME NEW k, NEW B \in SUBSET Nodes, NEW f, Renames(f, B, k)
    PROVE  /\ f \in [B -> Nodes] /\ DOMAIN f = B /\ Range(f) \in SUBSET Nodes
           /\ Range(f) \cap Reached(k) = {}
           /\ \A m, n \in B : f[m] = f[n] => m = n
           /\ \A n \in B : /\ n \in Widgets <=> f[n] \in Widgets
                           /\ n \in Containers <=> f[n] \in Containers
                           /\ n \in Groups <=> f[n] \in Groups
                           /\ n \in Pages <=> f[n] \in Pages
                           /\ n \in PageNodes <=> f[n] \in PageNodes
  <1>1. f \in [B -> Nodes \ Reached(k)] /\ \A m, n \in B : f[m] = f[n] => m = n
    BY DEF Renames, Injection, IsInjective
  <1>2. ASSUME NEW n \in B
        PROVE  /\ n \in Widgets <=> f[n] \in Widgets
               /\ n \in Containers <=> f[n] \in Containers
               /\ n \in Groups <=> f[n] \in Groups
               /\ n \in Pages <=> f[n] \in Pages
    <2>1. f[n] \in SameType(n) /\ n \in Nodes
      BY DEF Renames
    <2>2. CASE n \in Containers
      BY <2>1, <2>2, Kinds DEF SameType, Nodes, PageNodes
    <2>3. CASE n \in Widgets \ Containers
      BY <2>1, <2>3, Kinds DEF SameType, Nodes, PageNodes
    <2>4. CASE n \in Pages
      <3>1. n \notin Containers /\ n \notin Widgets
        BY <2>1, <2>4, Kinds
      <3> QED BY <2>1, <2>4, <3>1, Kinds DEF SameType, Nodes, PageNodes
    <2>5. CASE n \in Groups
      <3>1. n \notin Containers /\ n \notin Widgets /\ n \notin Pages
        BY <2>1, <2>5, Kinds
      <3> QED BY <2>1, <2>5, <3>1, Kinds DEF SameType, Nodes, PageNodes
    <2> QED BY <2>1, <2>2, <2>3, <2>4, <2>5, Kinds
  <1>3. DOMAIN f = B /\ Range(f) \in SUBSET Nodes /\ Range(f) \cap Reached(k) = {}
    BY <1>1 DEF Range
  <1> QED BY <1>1, <1>2, <1>3 DEF PageNodes

(* Every host of a copy copies one host of the original, of its kind.      *)
LEMMA CopiedFacts ==
    ASSUME NEW k, NEW B \in SUBSET Nodes, NEW f, Renames(f, B, k), NEW n \in B
    PROVE  /\ \A h \in InnerHosts(f[n]) :
                 /\ Copied(f, h) \in InnerHosts(n)
                 /\ h \in WidgetHosts <=> Copied(f, h) \in WidgetHosts
           /\ \A g, h \in InnerHosts(f[n]) : Copied(f, g) = Copied(f, h) => g = h
           /\ \A c \in InnerHosts(n) : \E h \in InnerHosts(f[n]) : Copied(f, h) = c
  <1> DEFINE Pair(m, c, h) == \/ c = m /\ h = f[m]
                              \/ m \in Groups /\ c = Chrome[m] /\ h = Chrome[f[m]]
  <1>1. f \in [B -> Nodes] /\ DOMAIN f = B /\ n \in Nodes /\ f[n] \in Nodes
        /\ \A a, b \in B : f[a] = f[b] => a = b
    BY RenamesFacts
  <1>2. \A m \in B : m \in Nodes /\ f[m] \in Nodes /\ (m \in Groups <=> f[m] \in Groups)
                     /\ (m \in Hosts <=> f[m] \in Hosts)
    <2> TAKE m \in B
    <2>1. m \in Nodes /\ f[m] \in Nodes
      BY <1>1
    <2>2. m \in Containers <=> f[m] \in Containers
      BY RenamesFacts
    <2>3. m \in PageNodes <=> f[m] \in PageNodes
      BY RenamesFacts
    <2>4. m \in Groups <=> f[m] \in Groups
      BY RenamesFacts
    <2> QED BY <2>1, <2>2, <2>3, <2>4, Kinds
  <1>3. ASSUME NEW h \in InnerHosts(f[n]), NEW c, NEW m \in B, Pair(m, c, h)
        PROVE  m = n
    <2>1. h \in InnerHosts(f[m])
      <3>1. CASE h = f[m]
        <4>1. f[m] \in Hosts
          BY <3>1, <1>1, OneOwner
        <4> QED BY <3>1, <4>1 DEF InnerHosts
      <3>2. CASE m \in Groups /\ h = Chrome[f[m]]
        BY <3>2, <1>2 DEF InnerHosts
      <3> QED BY <1>3, <3>1, <3>2
    <2>2. f[m] = f[n]
      BY <1>1, <1>2, <2>1, OneOwner
    <2> QED BY <1>1, <2>2
  <1>4. ASSUME NEW c \in InnerHosts(n)
        PROVE  \E h \in InnerHosts(f[n]) : Pair(n, c, h)
    <2>1. CASE n \in Groups
      BY <2>1, <1>2 DEF InnerHosts
    <2>2. CASE n \notin Groups
      BY <2>2, <1>2 DEF InnerHosts
    <2> QED BY <2>1, <2>2
  <1>5. ASSUME NEW h \in InnerHosts(f[n])
        PROVE  \E c \in InnerHosts(n) : Pair(n, c, h)
    <2>1. CASE n \in Groups
      BY <2>1, <1>2 DEF InnerHosts
    <2>2. CASE n \notin Groups
      BY <2>2, <1>2 DEF InnerHosts
    <2> QED BY <2>1, <2>2
  <1>6. ASSUME NEW h \in InnerHosts(f[n])
        PROVE  Copied(f, h) \in HostsOf(B) /\ Pair(n, Copied(f, h), h)
    <2> DEFINE Is(c) == \E m \in B : Pair(m, c, h)
    <2>1. PICK c \in InnerHosts(n) : Pair(n, c, h)
      BY <1>5
    <2>2. c \in HostsOf(B) /\ Is(c)
      BY <2>1 DEF HostsOf
    <2>3. Copied(f, h) = CHOOSE host \in HostsOf(B) : Is(host)
      BY <1>1 DEF Copied
    <2> HIDE DEF Is
    <2>4. Copied(f, h) \in HostsOf(B) /\ Is(Copied(f, h))
      BY <2>2, <2>3
    <2> USE DEF Is
    <2>5. PICK m \in B : Pair(m, Copied(f, h), h)
      BY <2>4
    <2>6. m = n
      BY <1>3, <2>5
    <2> QED BY <2>4, <2>5, <2>6
  <1>7. \A m \in Groups : Chrome[m] \in ChromeAreas /\ Chrome[m] \notin Nodes
    BY Kinds
  <1>8. ASSUME NEW h \in InnerHosts(f[n])
        PROVE  Copied(f, h) \in InnerHosts(n)
               /\ (h \in WidgetHosts <=> Copied(f, h) \in WidgetHosts)
    <2>1. Pair(n, Copied(f, h), h)
      BY <1>6
    <2>2. CASE n \in Groups /\ Copied(f, h) = Chrome[n] /\ h = Chrome[f[n]]
      <3>1. Chrome[n] \in WidgetHosts /\ Chrome[f[n]] \in WidgetHosts
        BY <2>2, <1>2, <1>7 DEF WidgetHosts
      <3> QED BY <2>2, <3>1 DEF InnerHosts
    <2>3. CASE Copied(f, h) = n /\ h = f[n]
      <3>1. f[n] \in Hosts
        BY <1>1, <2>3, OneOwner
      <3>2. n \in InnerHosts(n)
        BY <3>1, <1>2 DEF InnerHosts
      <3>3. n \in WidgetHosts <=> n \in Containers \cup Pages
        BY <1>1, Kinds DEF WidgetHosts, TopHosts
      <3>4. f[n] \in WidgetHosts <=> f[n] \in Containers \cup Pages
        BY <1>1, Kinds DEF WidgetHosts, TopHosts
      <3> QED BY <2>3, <3>2, <3>3, <3>4, RenamesFacts
    <2> QED BY <2>1, <2>2, <2>3
  <1>9. ASSUME NEW g \in InnerHosts(f[n]), NEW h \in InnerHosts(f[n]), Copied(f, g) = Copied(f, h)
        PROVE  g = h
    BY <1>1, <1>6, <1>7, <1>9
  <1>10. ASSUME NEW c \in InnerHosts(n)
         PROVE  \E h \in InnerHosts(f[n]) : Copied(f, h) = c
    <2>1. PICK h \in InnerHosts(f[n]) : Pair(n, c, h)
      BY <1>4
    <2>2. Pair(n, Copied(f, h), h)
      BY <1>6
    <2> QED BY <1>1, <1>2, <1>7, <2>1, <2>2
  <1> QED BY <1>8, <1>9, <1>10

LEMMA RenamedFacts ==
    ASSUME NEW B \in SUBSET Nodes, NEW f \in [B -> Nodes], NEW list \in Seq(Nodes),
           Range(list) \subseteq B, \A m, n \in B : f[m] = f[n] => m = n
    PROVE  /\ Renamed(f, list) \in Seq(Nodes)
           /\ Range(Renamed(f, list)) = {f[n] : n \in Range(list)}
           /\ Distinct(list) => Distinct(Renamed(f, list))
  <1>1. \A i \in 1..Len(list) : list[i] \in B
    BY RangeType
  <1>2. Renamed(f, list) \in Seq(Nodes) /\ Len(Renamed(f, list)) = Len(list)
        /\ \A i \in 1..Len(list) : Renamed(f, list)[i] = f[list[i]]
    BY <1>1 DEF Renamed
  <1>3. ASSUME NEW x \in Range(Renamed(f, list)) PROVE x \in {f[n] : n \in Range(list)}
    <2>1. PICK i \in 1..Len(list) : Renamed(f, list)[i] = x
      BY <1>2, RangeType
    <2> QED BY <1>2, <2>1, RangeType
  <1>4. ASSUME NEW n \in Range(list) PROVE f[n] \in Range(Renamed(f, list))
    <2>1. PICK i \in 1..Len(list) : list[i] = n
      BY RangeType
    <2> QED BY <1>2, <2>1, RangeType
  <1>5. Distinct(list) => Distinct(Renamed(f, list))
    BY <1>1, <1>2 DEF Distinct
  <1> QED BY <1>2, <1>3, <1>4, <1>5

-----------------------------------------------------------------------------
(* Copying, into any tree.                                                 *)

(* Copies of M and of what is below it in the tree from come into the tree *)
(* k: at says where the copies of M go.                                    *)
LEMMA CopyTree ==
    ASSUME NEW k, Tree(k), NEW from, Forest(from), KindsFit(from), Apart(from),
           NEW M \in SUBSET Nodes, NEW B, B = Below(from, M),
           \A h \in HostsOf(B) : Range(from[h]) \cap M = {},
           NEW f, Renames(f, B, k),
           NEW at \in [M -> HostsIn(k)],
           \A m \in M : /\ at[m] \in WidgetHosts => m \in Widgets
                        /\ at[m] \in PageHosts => m \in PageNodes,
           NEW j, Forest(j),
           \A h \in HostsOf(Range(f)) : j[h] = Renamed(f, from[Copied(f, h)]),
           \A h \in Hosts \ HostsOf(Range(f)) :
               Distinct(j[h]) /\ Range(j[h]) = Range(k[h]) \cup {f[m] : m \in {x \in M : at[x] = h}}
    PROVE  Tree(j) /\ Reached(k) \subseteq Reached(j) /\ {f[m] : m \in M} \subseteq Reached(j)
  <1> DEFINE R == Reached(j)
             New == HostsOf(Range(f))
  <1>1. Forest(k) /\ KindsFit(k) /\ Apart(k) /\ Grounded(k)
    BY DEF Tree
  <1>2. /\ M \subseteq B /\ B \in SUBSET Nodes
        /\ \A h \in HostsOf(B) : Range(from[h]) \subseteq B
        /\ R \subseteq Nodes /\ Reached(k) \subseteq Nodes /\ HostsIn(k) \subseteq Hosts
    BY <1>1, BelowFacts, BelowClosed, ReachedFacts
  <1>3. /\ f \in [B -> Nodes] /\ DOMAIN f = B /\ Range(f) \in SUBSET Nodes
        /\ Range(f) \cap Reached(k) = {}
        /\ \A m, n \in B : f[m] = f[n] => m = n
        /\ \A n \in B : n \in Widgets <=> f[n] \in Widgets
        /\ \A n \in B : n \in PageNodes <=> f[n] \in PageNodes
    <2>1. B \in SUBSET Nodes /\ Renames(f, B, k)
      BY <1>2
    <2>2. f \in [B -> Nodes \ Reached(k)]
      BY DEF Renames, Injection
    <2>3. \A m, n \in B : f[m] = f[n] => m = n
      BY <2>2 DEF Renames, Injection, IsInjective
    <2>4. \A n \in B : n \in Widgets <=> f[n] \in Widgets
      BY <2>1, RenamesFacts, SMTT(30)
    <2>5. \A n \in B : n \in PageNodes <=> f[n] \in PageNodes
      BY <2>1, RenamesFacts, SMTT(30)
    <2> QED BY <2>2, <2>3, <2>4, <2>5 DEF Range
  <1>4. \A n \in B : f[n] \in Range(f)
    BY <1>3 DEF Range
  <1>5. New \subseteq Hosts /\ New \cap TopHosts = {}
    BY <1>3, TopsNotOwned
  <1>6. New \cap HostsIn(k) = {}
    <2>1. ASSUME NEW h \in New, h \in HostsIn(k) PROVE FALSE
      <3>1. PICK n \in Range(f) : h \in InnerHosts(n)
        BY <2>1, OwnerOf
      <3>2. h \in HostsOf(Reached(k))
        BY <2>1, <1>5, HostsInAre
      <3> QED BY <1>2, <1>3, <3>1, <3>2, Owned
    <2> QED BY <2>1
  <1>7. \A h \in New : Range(k[h]) = {}
    BY <1>1, <1>5, <1>6 DEF Grounded
  <1>8. ASSUME NEW h \in New
        PROVE  \E n \in B : /\ h \in InnerHosts(f[n])
                            /\ Copied(f, h) \in InnerHosts(n)
                            /\ Copied(f, h) \in HostsOf(B) /\ Copied(f, h) \in Hosts
                            /\ (h \in WidgetHosts <=> Copied(f, h) \in WidgetHosts)
    <2>1. PICK x \in Range(f) : h \in InnerHosts(x)
      BY <1>8, OwnerOf
    <2>2. PICK n \in B : f[n] = x
      BY <1>3 DEF Range
    <2>3. Copied(f, h) \in InnerHosts(n) /\ (h \in WidgetHosts <=> Copied(f, h) \in WidgetHosts)
      BY <1>2, <2>1, <2>2, CopiedFacts
    <2>4. Copied(f, h) \in HostsOf(B)
      BY <2>3 DEF HostsOf
    <2> QED BY <1>2, <2>1, <2>2, <2>3, <2>4, HostsKnown
  <1>9. ASSUME NEW h \in New
        PROVE  /\ Range(j[h]) = {f[x] : x \in Range(from[Copied(f, h)])}
               /\ Range(from[Copied(f, h)]) \subseteq B
               /\ Distinct(j[h])
    <2> DEFINE c == Copied(f, h)
    <2>1. c \in HostsOf(B) /\ c \in Hosts
      BY <1>8
    <2>2. from[c] \in Seq(Nodes) /\ Range(from[c]) \subseteq B /\ Distinct(from[c])
      BY <1>2, <2>1 DEF Forest, Apart
    <2>3. j[h] = Renamed(f, from[c])
      OBVIOUS
    <2> HIDE DEF c
    <2>4. /\ Range(Renamed(f, from[c])) = {f[n] : n \in Range(from[c])}
          /\ Distinct(Renamed(f, from[c]))
      BY <1>2, <1>3, <2>2, RenamedFacts
    <2> QED BY <2>2, <2>3, <2>4 DEF c
  <1>10. ASSUME NEW g \in New, NEW h \in New, Copied(f, g) = Copied(f, h) PROVE g = h
    <2>1. PICK m \in B : g \in InnerHosts(f[m]) /\ Copied(f, g) \in InnerHosts(m)
      BY <1>8
    <2>2. PICK n \in B : h \in InnerHosts(f[n]) /\ Copied(f, h) \in InnerHosts(n)
      BY <1>8
    <2>3. m = n
      BY <1>2, <1>10, <2>1, <2>2, OneOwner
    <2> QED BY <1>2, <1>10, <2>1, <2>2, <2>3, CopiedFacts
  <1>11. ASSUME NEW h \in Hosts \ New
         PROVE  Range(j[h]) = Range(k[h]) \cup {f[m] : m \in {x \in M : at[x] = h}}
    OBVIOUS
  <1>12. KindsFit(j)
    <2>1. ASSUME NEW h \in WidgetHosts, NEW x \in Range(j[h]) PROVE x \in Widgets
      <3>1. h \in Hosts
        BY DEF Hosts
      <3>2. CASE h \in New
        <4>1. PICK n \in Range(from[Copied(f, h)]) : x = f[n]
          BY <1>9, <2>1, <3>2
        <4>2. Copied(f, h) \in WidgetHosts
          BY <1>8, <2>1, <3>2
        <4>3. n \in Widgets /\ n \in B
          BY <1>9, <3>2, <4>1, <4>2 DEF KindsFit
        <4> QED BY <1>2, <4>1, <4>3, <1>3
      <3>3. CASE h \notin New
        <4>1. CASE x \in Range(k[h])
          BY <1>1, <2>1, <4>1 DEF KindsFit
        <4>2. CASE x \notin Range(k[h])
          <5>1. PICK m \in M : at[m] = h /\ x = f[m]
            BY <1>11, <2>1, <3>1, <3>3, <4>2
          <5> QED BY <1>2, <2>1, <5>1, <1>3
        <4> QED BY <4>1, <4>2
      <3> QED BY <3>2, <3>3
    <2>2. ASSUME NEW h \in PageHosts, NEW x \in Range(j[h]) PROVE x \in PageNodes
      <3>1. h \in Hosts /\ h \notin WidgetHosts
        BY Kinds
      <3>2. CASE h \in New
        <4>1. PICK n \in Range(from[Copied(f, h)]) : x = f[n]
          BY <1>9, <2>2, <3>2
        <4>2. Copied(f, h) \in PageHosts
          BY <1>8, <3>1, <3>2, Kinds
        <4>3. n \in PageNodes /\ n \in B
          BY <1>9, <3>2, <4>1, <4>2 DEF KindsFit
        <4> QED BY <1>2, <4>1, <4>3, <1>3
      <3>3. CASE h \notin New
        <4>1. CASE x \in Range(k[h])
          BY <1>1, <2>2, <4>1 DEF KindsFit
        <4>2. CASE x \notin Range(k[h])
          <5>1. PICK m \in M : at[m] = h /\ x = f[m]
            BY <1>11, <2>2, <3>1, <3>3, <4>2
          <5> QED BY <1>2, <2>2, <5>1, <1>3
        <4> QED BY <4>1, <4>2
      <3> QED BY <3>2, <3>3
    <2> QED BY <2>1, <2>2 DEF KindsFit
  <1>13. \A h \in Hosts : Range(k[h]) \subseteq Reached(k)
    BY <1>1, ReachedIsPlaced DEF Placed
  <1>14. ASSUME NEW a \in Hosts, NEW b \in Hosts, a # b, NEW x \in Range(j[a]), x \in Range(j[b])
         PROVE  FALSE
    <2>1. CASE a \in New /\ b \in New
      <3>1. PICK m \in Range(from[Copied(f, a)]) : x = f[m]
        BY <1>9, <1>14, <2>1
      <3>2. PICK n \in Range(from[Copied(f, b)]) : x = f[n]
        BY <1>9, <1>14, <2>1
      <3>3. m \in B /\ n \in B
        BY <1>9, <2>1
      <3>4. m = n
        BY <1>3, <3>1, <3>2, <3>3
      <3>5. Copied(f, a) # Copied(f, b) /\ Copied(f, a) \in Hosts /\ Copied(f, b) \in Hosts
        BY <1>8, <1>10, <1>14, <2>1
      <3> QED BY <3>4, <3>5 DEF Apart
    <2>2. ASSUME NEW g \in New, NEW h \in Hosts \ New, x \in Range(j[g]), x \in Range(j[h])
          PROVE  FALSE
      <3>1. PICK n \in Range(from[Copied(f, g)]) : x = f[n]
        BY <1>9, <2>2
      <3>2. n \in B /\ n \notin M
        BY <1>8, <1>9, <2>2
      <3>3. x \notin Range(k[h])
        BY <1>3, <1>4, <1>13, <3>1, <3>2
      <3>4. PICK m \in M : x = f[m]
        BY <1>11, <2>2, <3>3
      <3> QED BY <1>2, <1>3, <3>1, <3>2, <3>4
    <2>3. CASE a \notin New /\ b \notin New
      <3>1. CASE x \in Range(k[a])
        <4>1. x \notin Range(k[b])
          BY <1>1, <1>14, <3>1 DEF Apart
        <4>2. PICK m \in M : x = f[m]
          BY <1>11, <1>14, <2>3, <4>1
        <4> QED BY <1>2, <1>3, <1>4, <1>13, <3>1, <4>2
      <3>2. CASE x \in Range(k[b])
        <4>1. x \notin Range(k[a])
          BY <1>1, <1>14, <3>2 DEF Apart
        <4>2. PICK m \in M : x = f[m]
          BY <1>11, <1>14, <2>3, <4>1
        <4> QED BY <1>2, <1>3, <1>4, <1>13, <3>2, <4>2
      <3>3. CASE x \notin Range(k[a]) /\ x \notin Range(k[b])
        <4>1. PICK m \in M : at[m] = a /\ x = f[m]
          BY <1>11, <1>14, <2>3, <3>3
        <4>2. PICK n \in M : at[n] = b /\ x = f[n]
          BY <1>11, <1>14, <2>3, <3>3
        <4> QED BY <1>2, <1>3, <1>14, <4>1, <4>2
      <3> QED BY <3>1, <3>2, <3>3
    <2> QED BY <1>14, <2>1, <2>2, <2>3
  <1>15. Apart(j)
    <2>1. \A h \in Hosts : Distinct(j[h])
      BY <1>9
    <2>2. \A a, b \in Hosts : a # b => Range(j[a]) \cap Range(j[b]) = {}
      BY <1>14
    <2> QED BY <2>1, <2>2 DEF Apart
  <1>16. \A h \in HostsIn(j) : Range(j[h]) \subseteq R
    BY ReachedFacts
  <1>17. \A h \in Hosts : Range(k[h]) \subseteq Range(j[h])
    BY <1>7, <1>11
  <1>18. Reached(k) \subseteq R
    <2>1. ASSUME NEW h \in TopHosts PROVE Range(k[h]) \subseteq R
      BY <1>16, <1>17, HostsInAre, TopsAre
    <2>2. ASSUME NEW h \in HostsOf(R) PROVE Range(k[h]) \subseteq R
      BY <1>2, <1>16, <1>17, HostsInAre, HostsKnown
    <2> QED BY <1>1, <1>2, <2>1, <2>2, ReachedIn
  <1>19. HostsIn(k) \subseteq HostsIn(j)
    BY <1>18, HostsInAre, HostsOfGrows
  <1>20. \A m \in M : f[m] \in R
    <2> TAKE m \in M
    <2>1. at[m] \in Hosts \ New /\ at[m] \in HostsIn(j)
      BY <1>2, <1>6, <1>19
    <2>2. f[m] \in Range(j[at[m]])
      BY <1>11, <2>1
    <2> QED BY <1>16, <2>1, <2>2
  <1>21. \A n \in B : f[n] \in R
    <2> DEFINE T == {n \in B : f[n] \in R}
    <2>1. T \in SUBSET Nodes /\ M \subseteq T
      BY <1>2, <1>20
    <2>2. ASSUME NEW c \in HostsOf(T), NEW y \in Range(from[c]) PROVE y \in T
      <3>1. PICK n \in T : c \in InnerHosts(n)
        BY OwnerOf
      <3>2. PICK h \in InnerHosts(f[n]) : Copied(f, h) = c
        BY <1>2, <3>1, CopiedFacts
      <3>3. h \in New /\ h \in HostsOf(R)
        BY <1>4, <3>1, <3>2 DEF HostsOf
      <3>4. y \in B /\ f[y] \in Range(j[h])
        BY <1>9, <2>2, <3>2, <3>3
      <3> QED BY <1>16, <3>3, <3>4, HostsInAre
    <2>3. B \subseteq T
      <3>1. \A c \in HostsOf(T) : Range(from[c]) \subseteq T
        BY <2>2
      <3> HIDE DEF T
      <3> QED BY <2>1, <3>1, BelowIn
    <2> QED BY <2>3
  <1>22. ASSUME NEW h \in Hosts, Range(j[h]) # {} PROVE h \in HostsIn(j)
    <2>1. CASE h \in New
      <3>1. PICK n \in B : h \in InnerHosts(f[n])
        BY <1>8, <2>1
      <3> QED BY <1>21, <3>1, HostsInAre DEF HostsOf
    <2>2. CASE h \notin New
      <3>1. CASE Range(k[h]) # {}
        BY <1>1, <1>19, <3>1 DEF Grounded
      <3>2. CASE Range(k[h]) = {}
        <4>1. PICK m \in M : at[m] = h
          BY <1>11, <1>22, <2>2, <3>2
        <4> QED BY <1>19, <4>1
      <3> QED BY <3>1, <3>2
    <2> QED BY <2>1, <2>2
  <1>23. Grounded(j)
    BY <1>22 DEF Grounded
  <1> QED BY <1>12, <1>15, <1>18, <1>20, <1>23 DEF Tree

-----------------------------------------------------------------------------
(* Taking out and putting in.                                              *)

LEMMA WithoutFacts ==
    ASSUME NEW k, Forest(k), NEW S
    PROVE  /\ Forest(Without(k, S))
           /\ \A h \in Hosts : /\ Range(Without(k, S)[h]) = Range(k[h]) \ S
                               /\ Distinct(k[h]) => Distinct(Without(k, S)[h])
  <1>1. \A h \in Hosts : k[h] \in Seq(Nodes) /\ Without(k, S)[h] = Spread(k[h], Spared(S))
    BY DEF Forest, Without
  <1>2. \A h \in Hosts : Spread(k[h], Spared(S)) \in Seq(Nodes)
    BY <1>1, WithoutList
  <1>3. Forest(Without(k, S))
    BY <1>2 DEF Forest, Without
  <1>4. ASSUME NEW h \in Hosts
        PROVE  /\ Range(Without(k, S)[h]) = Range(k[h]) \ S
               /\ Distinct(k[h]) => Distinct(Without(k, S)[h])
    <2> DEFINE list == k[h]
    <2>1. list \in Seq(Nodes) /\ Without(k, S)[h] = Spread(list, Spared(S))
      BY <1>1
    <2> HIDE DEF list
    <2>2. /\ Range(Spread(list, Spared(S))) = Range(list) \ S
          /\ Distinct(list) => Distinct(Spread(list, Spared(S)))
      BY <2>1, WithoutList
    <2> QED BY <2>1, <2>2 DEF list
  <1> QED BY <1>3, <1>4

LEMMA WithoutSame ==
    ASSUME NEW list \in Seq(Nodes), NEW S, Range(list) \cap S = {}
    PROVE  Spread(list, Spared(S)) = list
  <1> DEFINE kept == Spread(list, Spared(S))
             n == Len(list)
  <1>1. PICK u : Stages(u, n, list, Spared(S)) /\ kept = u[n]
    BY SpreadStages, SparedType
  <1>2. n \in Nat /\ n \in 0..n
    OBVIOUS
  <1>3. \A i \in 0..n : Left(list, S, i) = {}
    BY RangeType DEF Left
  <1>4. Left(list, S, n) = {} /\ Len(u[n]) = n - Cardinality(Left(list, S, n))
    BY <1>1, <1>2, <1>3, StageLength
  <1>5. Len(kept) = n
    BY <1>1, <1>2, <1>4, FS_EmptySet
  <1>6. ASSUME NEW i \in 1..n PROVE kept[i] = list[i]
    <2>1. list[i] \notin S
      BY RangeType
    <2>2. i \in 0..n /\ i - 0 = i
      OBVIOUS
    <2>3. i - Cardinality(Left(list, S, i)) = i
      BY <1>3, <2>2, FS_EmptySet
    <2>4. kept[i - Cardinality(Left(list, S, i))] = list[i]
      BY <2>1, StaysAt
    <2> QED BY <2>3, <2>4
  <1>7. kept \in Seq(Nodes)
    BY WithoutList
  <1> HIDE DEF kept
  <1>8. kept = [i \in 1..n |-> kept[i]] /\ list = [i \in 1..n |-> list[i]]
    BY <1>5, <1>7
  <1>9. [i \in 1..n |-> kept[i]] = [i \in 1..n |-> list[i]]
    BY <1>6
  <1>10. kept = list
    BY <1>8, <1>9, Zenon
  <1> QED BY <1>10 DEF kept

LEMMA SpliceFacts ==
    ASSUME NEW list \in Seq(Nodes), NEW nodes \in Seq(Nodes), NEW at \in Nat
    PROVE  /\ Splice(list, at, nodes) \in Seq(Nodes)
           /\ Range(Splice(list, at, nodes)) = Range(list) \cup Range(nodes)
           /\ Distinct(list) /\ Distinct(nodes) /\ Range(list) \cap Range(nodes) = {}
                 => Distinct(Splice(list, at, nodes))
           /\ at <= Len(list) =>
                 /\ Len(Splice(list, at, nodes)) = Len(list) + Len(nodes)
                 /\ \A i \in 1..at : Splice(list, at, nodes)[i] = list[i]
                 /\ \A i \in 1..Len(nodes) : Splice(list, at, nodes)[at + i] = nodes[i]
                 /\ \A i \in (at + 1)..Len(list) :
                       Splice(list, at, nodes)[i + Len(nodes)] = list[i]
  <1> DEFINE cut == IF at < Len(list) THEN at ELSE Len(list)
             s == SubSeq(list, 1, cut)
             t == SubSeq(list, cut + 1, Len(list))
             st == s \o nodes
             all == Splice(list, at, nodes)
  <1>1. cut \in 0..Len(list) /\ Len(list) \in Nat /\ cut \in Nat
    OBVIOUS
  <1>2. all = st \o t
    BY DEF Splice
  <1> HIDE DEF cut
  <1>3. /\ s \in Seq(Nodes) /\ Len(s) = cut /\ \A i \in 1..cut : s[i] = list[i]
    <2>1. \A i \in 1..cut : list[i] \in Nodes
      BY <1>1
    <2> QED BY <1>1, <2>1
  <1>4. /\ t \in Seq(Nodes) /\ Len(t) = Len(list) - cut
        /\ \A i \in 1..(Len(list) - cut) : t[i] = list[cut + i]
    <2>1. \A i \in (cut + 1)..Len(list) : list[i] \in Nodes
      BY <1>1
    <2> QED BY <1>1, <2>1
  <1> HIDE DEF s, t, st, all
  <1>5. /\ \A x \in Range(s) : \E i \in 1..cut : x = list[i]
        /\ \A i \in 1..cut : list[i] \in Range(s)
    <2>1. \A x \in Range(s) : \E i \in 1..Len(s) : s[i] = x
      BY <1>3, RangeType
    <2>2. \A i \in 1..Len(s) : s[i] \in Range(s)
      BY <1>3, RangeType
    <2> QED BY <1>3, <2>1, <2>2
  <1>6. /\ \A x \in Range(t) : \E i \in 1..Len(list) : i > cut /\ x = list[i]
        /\ \A i \in 1..Len(list) : i > cut => list[i] \in Range(t)
    <2>1. ASSUME NEW x \in Range(t) PROVE \E i \in 1..Len(list) : i > cut /\ x = list[i]
      <3>1. PICK i \in 1..(Len(list) - cut) : t[i] = x
        BY <1>4, RangeType
      <3>2. cut + i \in 1..Len(list) /\ cut + i > cut
        BY <1>1
      <3> QED BY <1>4, <3>1, <3>2
    <2>2. ASSUME NEW i \in 1..Len(list), i > cut PROVE list[i] \in Range(t)
      <3>1. PICK a \in 1..(Len(list) - cut) : a = i - cut /\ cut + a = i
        BY <1>1, <2>2
      <3> QED BY <1>4, <3>1, RangeType
    <2> QED BY <2>1, <2>2
  <1>7. Range(s) \cup Range(t) = Range(list)
    <2>1. Range(s) \cup Range(t) \subseteq Range(list)
      <3>1. \A i \in 1..cut : i \in 1..Len(list)
        BY <1>1
      <3>2. Range(s) \subseteq Range(list)
        BY <1>5, <3>1, RangeType
      <3>3. Range(t) \subseteq Range(list)
        BY <1>6, RangeType
      <3> QED BY <3>2, <3>3
    <2>2. ASSUME NEW x \in Range(list) PROVE x \in Range(s) \cup Range(t)
      <3>1. PICK i \in 1..Len(list) : list[i] = x
        BY RangeType
      <3>2. CASE i > cut
        BY <1>6, <3>1, <3>2
      <3>3. CASE ~(i > cut)
        BY <1>1, <1>5, <3>1, <3>3
      <3> QED BY <3>2, <3>3
    <2> QED BY <2>1, <2>2
  <1>8. st \in Seq(Nodes) /\ Range(st) = Range(s) \cup Range(nodes)
    BY <1>3, Concatenation DEF st
  <1>9. all \in Seq(Nodes) /\ Range(all) = Range(s) \cup Range(nodes) \cup Range(t)
    BY <1>2, <1>4, <1>8, Concatenation
  <1>10. ASSUME Distinct(list), Distinct(nodes), Range(list) \cap Range(nodes) = {}
         PROVE  Distinct(all)
    <2>1. Distinct(s)
      BY <1>1, <1>3, <1>10 DEF Distinct
    <2>2. Distinct(t)
      <3>1. ASSUME NEW i \in 1..Len(t), NEW l \in 1..Len(t), t[i] = t[l] PROVE i = l
        <4>1. cut + i \in 1..Len(list) /\ cut + l \in 1..Len(list)
          BY <1>1, <1>4
        <4>2. list[cut + i] = list[cut + l]
          BY <1>4, <3>1
        <4>3. cut + i = cut + l
          BY <1>10, <4>1, <4>2 DEF Distinct
        <4> QED BY <1>1, <4>3
      <3> QED BY <3>1 DEF Distinct
    <2>3. Range(s) \cap Range(t) = {}
      <3>1. ASSUME NEW x \in Range(s), x \in Range(t) PROVE FALSE
        <4>1. PICK i \in 1..cut : x = list[i]
          BY <1>5
        <4>2. PICK l \in 1..Len(list) : l > cut /\ x = list[l]
          BY <1>6, <3>1
        <4>3. i \in 1..Len(list) /\ i # l
          BY <1>1, <4>2
        <4> QED BY <1>10, <4>1, <4>2, <4>3 DEF Distinct
      <3> QED BY <3>1
    <2>4. Distinct(st)
      <3>1. Range(s) \cap Range(nodes) = {}
        BY <1>7, <1>10
      <3> QED BY <1>3, <1>10, <2>1, <3>1, Concatenation DEF st
    <2>5. Range(st) \cap Range(t) = {}
      BY <1>7, <1>8, <1>10, <2>3
    <2> QED BY <1>2, <1>4, <1>8, <2>2, <2>4, <2>5, Concatenation
  <1>11. ASSUME at <= Len(list)
         PROVE  /\ Len(all) = Len(list) + Len(nodes)
                /\ \A i \in 1..at : all[i] = list[i]
                /\ \A i \in 1..Len(nodes) : all[at + i] = nodes[i]
                /\ \A i \in (at + 1)..Len(list) : all[i + Len(nodes)] = list[i]
    <2>1. cut = at
      BY <1>1, <1>11 DEF cut
    <2>0. /\ Len(st \o t) = Len(st) + Len(t)
          /\ \A b \in 1..Len(st) : (st \o t)[b] = st[b]
          /\ \A b \in 1..Len(t) : (st \o t)[Len(st) + b] = t[b]
      <3>1. st \in Seq(Nodes) /\ t \in Seq(Nodes)
        BY <1>4, <1>8
      <3> QED BY <3>1
    <2>2. Len(st) = at + Len(nodes) /\ Len(nodes) \in Nat
      BY <1>1, <1>3, <2>1 DEF st
    <2>3. Len(all) = Len(list) + Len(nodes)
      <3>1. Len(all) = Len(st) + Len(t)
        BY <1>2, <2>0
      <3> QED BY <1>1, <1>4, <2>1, <2>2, <3>1
    <2>4. ASSUME NEW i \in 1..at PROVE all[i] = list[i]
      <3>1. st[i] = s[i] /\ i \in 1..Len(st)
        BY <1>1, <1>3, <2>1, <2>2 DEF st
      <3>2. all[i] = st[i]
        BY <1>2, <2>0, <3>1
      <3> QED BY <1>3, <2>1, <3>1, <3>2
    <2>5. ASSUME NEW i \in 1..Len(nodes) PROVE all[at + i] = nodes[i]
      <3>1. st[at + i] = nodes[i] /\ at + i \in 1..Len(st)
        BY <1>1, <1>3, <2>1, <2>2 DEF st
      <3>2. all[at + i] = st[at + i]
        BY <1>2, <2>0, <3>1
      <3> QED BY <3>1, <3>2
    <2>6. ASSUME NEW i \in (at + 1)..Len(list) PROVE all[i + Len(nodes)] = list[i]
      <3>1. PICK a \in 1..(Len(list) - cut) : a = i - at /\ cut + a = i
        BY <1>1, <2>1
      <3>2. i + Len(nodes) = Len(st) + a /\ a \in 1..Len(t)
        BY <1>1, <1>4, <2>1, <2>2, <3>1
      <3>3. all[Len(st) + a] = t[a]
        BY <1>2, <2>0, <3>2
      <3> QED BY <1>4, <3>1, <3>2, <3>3
    <2> QED BY <2>3, <2>4, <2>5, <2>6
  <1>12. Range(all) = Range(list) \cup Range(nodes)
    BY <1>7, <1>9
  <1> QED BY <1>9, <1>10, <1>11, <1>12 DEF all

-----------------------------------------------------------------------------
(* Places.                                                                 *)

LEMMA InsertedFacts ==
    ASSUME NEW k, Forest(k), NEW host \in Hosts, NEW at \in Nat, NEW nodes \in Seq(Nodes)
    PROVE  /\ Forest(Inserted(k, host, at, nodes))
           /\ Inserted(k, host, at, nodes)[host] = Splice(k[host], at, nodes)
           /\ \A h \in Hosts \ {host} : Inserted(k, host, at, nodes)[h] = k[h]
  <1>1. k \in [Hosts -> Seq(Nodes)] /\ k[host] \in Seq(Nodes)
    BY DEF Forest
  <1>2. Splice(k[host], at, nodes) \in Seq(Nodes)
    BY <1>1, SpliceFacts
  <1> QED BY <1>1, <1>2 DEF Inserted, Forest

(* Some node of a set in a tree is held by a host outside of the set.      *)
LEMMA Rooted ==
    ASSUME NEW k, Forest(k), Grounded(k), NEW B \in SUBSET Placed(k), B # {}
    PROVE  \E x \in B : \E h \in Hosts : x \in Range(k[h]) /\ h \notin HostsOf(B)
  <1> SUFFICES ASSUME \A x \in B, h \in Hosts : x \in Range(k[h]) => h \in HostsOf(B)
               PROVE  FALSE
    OBVIOUS
  <1> DEFINE T == Reached(k) \ B
  <1>1. T \in SUBSET Nodes /\ B \subseteq Reached(k) /\ B \in SUBSET Nodes
    BY ReachedFacts, ReachedIsPlaced
  <1>2. ASSUME NEW a \in TopHosts PROVE Range(k[a]) \subseteq T
    <2>1. a \in HostsIn(k) /\ a \in Hosts /\ a \notin HostsOf(B)
      BY <1>1, HostsInAre, TopsAre, TopsNotOwned
    <2> QED BY <2>1, ReachedFacts
  <1>3. ASSUME NEW a \in HostsOf(T) PROVE Range(k[a]) \subseteq T
    <2>1. a \in HostsIn(k) /\ a \in Hosts
      BY <1>1, HostsInAre, HostsKnown DEF HostsOf
    <2>2. PICK m \in T : a \in InnerHosts(m)
      BY OwnerOf
    <2>3. a \notin HostsOf(B)
      BY <1>1, <2>2, Owned
    <2> QED BY <2>1, <2>3, ReachedFacts
  <1>4. Reached(k) \subseteq T
    BY <1>1, <1>2, <1>3, ReachedIn
  <1> QED BY <1>1, <1>4

(* Where a node of the tree is.                                            *)
LEMMA PlaceOf ==
    ASSUME NEW k, Tree(k), NEW n \in Reached(k)
    PROVE  /\ HostOf(k, n) \in HostsIn(k) /\ HostOf(k, n) \in Hosts
           /\ n \in Range(k[HostOf(k, n)])
           /\ \A h \in Hosts : n \in Range(k[h]) => h = HostOf(k, n)
           /\ Position(k, n) \in 1..Len(k[HostOf(k, n)])
           /\ k[HostOf(k, n)][Position(k, n)] = n
           /\ \A i \in 1..Len(k[HostOf(k, n)]) : k[HostOf(k, n)][i] = n => i = Position(k, n)
  <1>1. Forest(k) /\ Apart(k) /\ Grounded(k)
    BY DEF Tree
  <1>2. \E h \in HostsIn(k) : n \in Range(k[h])
    <2>1. PICK h \in Hosts : n \in Range(k[h])
      BY <1>1, ReachedIsPlaced DEF Placed
    <2> QED BY <1>1, <2>1 DEF Grounded
  <1>3. HostOf(k, n) \in HostsIn(k) /\ n \in Range(k[HostOf(k, n)])
    BY <1>2 DEF HostOf
  <1>4. HostOf(k, n) \in Hosts
    BY <1>1, <1>3, ReachedFacts
  <1>5. \A h \in Hosts : n \in Range(k[h]) => h = HostOf(k, n)
    BY <1>1, <1>3, <1>4 DEF Apart
  <1>6. k[HostOf(k, n)] \in Seq(Nodes) /\ Distinct(k[HostOf(k, n)])
    BY <1>1, <1>4 DEF Forest, Apart
  <1>7. \E i \in 1..Len(k[HostOf(k, n)]) : k[HostOf(k, n)][i] = n
    BY <1>3, <1>6, RangeType
  <1>8. Position(k, n) \in 1..Len(k[HostOf(k, n)]) /\ k[HostOf(k, n)][Position(k, n)] = n
    BY <1>7 DEF Position
  <1>9. \A i \in 1..Len(k[HostOf(k, n)]) : k[HostOf(k, n)][i] = n => i = Position(k, n)
    BY <1>6, <1>8 DEF Distinct
  <1> QED BY <1>3, <1>4, <1>5, <1>8, <1>9

(* A batch is taken out and put in at one place.                           *)
LEMMA MoveLists ==
    ASSUME NEW k, Tree(k), NEW batch \in Seq(Nodes), Distinct(batch),
           Range(batch) \subseteq Reached(k), NEW host \in HostsIn(k),
           host \notin HostsOf(Below(k, Range(batch))),
           host \in WidgetHosts => Range(batch) \subseteq Widgets,
           host \in PageHosts => Range(batch) \subseteq PageNodes,
           NEW at \in Nat, NEW j, j = Inserted(Without(k, Range(batch)), host, at, batch)
    PROVE  /\ Tree(j) /\ Reached(j) = Reached(k)
           /\ \A h \in Hosts \ {host} : Range(k[h]) \cap Range(batch) = {} => j[h] = k[h]
  <1> DEFINE M == Range(batch)
             less == Without(k, M)
  <1>1. Forest(k) /\ KindsFit(k) /\ Apart(k) /\ Grounded(k)
    BY DEF Tree
  <1>2. host \in Hosts /\ M \in SUBSET Nodes
    BY <1>1, ReachedFacts, RangeType
  <1>3. /\ Forest(less)
        /\ \A h \in Hosts : Range(less[h]) = Range(k[h]) \ M /\ Distinct(less[h])
    BY <1>1, WithoutFacts DEF Apart
  <1>4. /\ Forest(j) /\ j[host] = Splice(less[host], at, batch)
        /\ \A h \in Hosts \ {host} : j[h] = less[h]
    BY <1>2, <1>3, InsertedFacts
  <1>5. less[host] \in Seq(Nodes) /\ Range(less[host]) \cap M = {} /\ Distinct(less[host])
    BY <1>2, <1>3 DEF Forest
  <1>6. Range(j[host]) = (Range(k[host]) \ M) \cup M /\ Distinct(j[host])
    <2> DEFINE list == less[host]
    <2>1. list \in Seq(Nodes) /\ Range(list) \cap M = {} /\ Distinct(list)
      BY <1>5
    <2>2. Range(list) = Range(k[host]) \ M /\ j[host] = Splice(list, at, batch)
      BY <1>2, <1>3, <1>4
    <2> HIDE DEF list
    <2>3. /\ Range(Splice(list, at, batch)) = Range(list) \cup Range(batch)
          /\ Distinct(Splice(list, at, batch))
      BY <2>1, SpliceFacts
    <2> QED BY <2>2, <2>3
  <1>7. \A h \in Hosts \ {host} : Range(j[h]) = Range(k[h]) \ M
    BY <1>3, <1>4
  <1>8. \A h \in Hosts : Distinct(j[h])
    BY <1>3, <1>4, <1>6
  <1>9. Tree(j) /\ Reached(j) = Reached(k)
    BY <1>4, <1>6, <1>7, <1>8, MoveTree
  <1>10. ASSUME NEW h \in Hosts \ {host}, Range(k[h]) \cap M = {} PROVE j[h] = k[h]
    <2>1. less[h] = Spread(k[h], Spared(M)) /\ k[h] \in Seq(Nodes)
      BY <1>1 DEF Without, Forest
    <2>2. Spread(k[h], Spared(M)) = k[h]
      BY <1>10, <2>1, WithoutSame
    <2> QED BY <1>4, <2>1, <2>2
  <1> QED BY <1>9, <1>10

-----------------------------------------------------------------------------
(* Pages whose lists stay as they are.                                     *)
LEMMA PageSame ==
    ASSUME NEW k, Forest(k), NEW j, Forest(j), NEW p \in Nodes,
           \A h \in HostsOf(Subtree(k, p)) : j[h] = k[h]
    PROVE  Under(j, p) = Under(k, p)
  <1>1. {p} \in SUBSET Nodes
    OBVIOUS
  <1>2. Below(j, {p}) = Below(k, {p})
    BY <1>1, BelowAgrees DEF Subtree
  <1> QED BY <1>2 DEF Under, Subtree

LEMMA PageHostsKnown ==
    ASSUME NEW k, Forest(k), NEW p \in Nodes
    PROVE  Subtree(k, p) \in SUBSET Nodes /\ HostsOf(Subtree(k, p)) \subseteq Hosts
           /\ p \in Subtree(k, p)
  <1>1. {p} \in SUBSET Nodes
    OBVIOUS
  <1>2. Subtree(k, p) \in SUBSET Nodes /\ p \in Subtree(k, p)
    BY <1>1, BelowFacts DEF Subtree
  <1> QED BY <1>2, HostsKnown

(* A page that owns no place a batch came from holds nothing of it.        *)
LEMMA NotASource ==
    ASSUME Tree(kids), NEW M, M \subseteq Reached(kids), NEW p \in Pages \cap Reached(kids),
           p \notin SourcePages(M), NEW h \in HostsOf(Subtree(kids, p))
    PROVE  Range(kids[h]) \cap M = {}
  <1> SUFFICES ASSUME NEW n \in M, n \in Range(kids[h]) PROVE FALSE
    OBVIOUS
  <1>1. p \in Nodes /\ h \in Hosts
    BY PageHostsKnown DEF Tree, Nodes, PageNodes
  <1>2. h = HostOf(kids, n)
    BY <1>1, PlaceOf
  <1>3. p \in OwningPages(kids, h)
    BY DEF OwningPages
  <1> QED BY <1>2, <1>3 DEF SourcePages

-----------------------------------------------------------------------------
(* The inductive invariant, and what an edit owes to the books.            *)

(* The clipboard holds nodes that are apart, with the lists below them.    *)
ClipInv ==
    /\ Distinct(clip.nodes)
    /\ Range(clip.nodes) \subseteq Widgets \/ Range(clip.nodes) \subseteq PageNodes
    /\ KindsFit(clip.tree) /\ Apart(clip.tree)
    /\ \A h \in HostsOf(Clipped) : Range(clip.tree[h]) \cap Range(clip.nodes) = {}

IInv == TypeOK /\ ClipInv

(* What an edit of the tree owes to the books.                             *)
Booked ==
    /\ dirty' \subseteq Pages \cap Reached(kids')
    /\ \A p \in Pages \cap Reached(kids) \cap Reached(kids') :
           p \in dirty \/ Under(kids, p) # Under(kids', p) => p \in dirty'

LEMMA OwningReached ==
    ASSUME NEW k, NEW host
    PROVE  OwningPages(k, host) \subseteq Pages \cap Reached(k)
  BY DEF OwningPages

LEMMA SourceReached ==
    ASSUME NEW M
    PROVE  SourcePages(M) \subseteq Pages \cap Reached(kids)
  BY OwningReached DEF SourcePages

LEMMA TypeFacts ==
    ASSUME TypeOK
    PROVE  /\ Tree(kids) /\ Forest(kids) /\ KindsFit(kids) /\ Apart(kids) /\ Grounded(kids)
           /\ dirty \subseteq Pages \cap Reached(kids)
           /\ Reached(kids) \subseteq Nodes
  <1>1. Forest(kids) /\ KindsFit(kids) /\ Apart(kids) /\ Grounded(kids)
    BY TreeIs DEF TypeOK
  <1> QED BY <1>1, ReachedFacts DEF Tree, TypeOK

(* The top level of a selection.                                           *)
LEMMA TopLevelFacts ==
    ASSUME Tree(kids), NEW S \in Selections
    PROVE  /\ TopLevel(S) \subseteq Widgets \cap Reached(kids)
           /\ TopLevel(S) # {}
           /\ IsFiniteSet(TopLevel(S))
           /\ \A h \in HostsOf(Below(kids, TopLevel(S))) : Range(kids[h]) \cap TopLevel(S) = {}
  <1>1. S \subseteq Widgets \cap Reached(kids) /\ S # {}
    BY DEF Selections
  <1>2. Forest(kids) /\ Apart(kids) /\ Grounded(kids)
    BY DEF Tree
  <1>3. S \in SUBSET Nodes /\ TopLevel(S) \subseteq S /\ TopLevel(S) \in SUBSET Nodes
    BY <1>1 DEF TopLevel, Nodes
  <1>4. IsFiniteSet(TopLevel(S))
    BY <1>3, TreeAssumption, FS_Subset
  <1>5. TopLevel(S) # {}
    <2> DEFINE B == Below(kids, S)
    <2> SUFFICES ASSUME TopLevel(S) = {} PROVE FALSE
      OBVIOUS
    <2>1. \A n \in S : \E m \in S : m # n /\ n \in Subtree(kids, m)
      BY DEF TopLevel
    <2>2. \A x \in B : \E h \in HostsOf(B) : x \in Range(kids[h])
      <3> TAKE x \in B
      <3>1. CASE x \notin S
        BY <1>2, <1>3, <3>1, BelowSplit
      <3>2. CASE x \in S
        <4>1. PICK m \in S : m # x /\ x \in Subtree(kids, m)
          BY <2>1, <3>2
        <4>2. {m} \in SUBSET Nodes /\ {m} \subseteq B
          BY <1>2, <1>3, BelowFacts
        <4>3. Subtree(kids, m) \subseteq B
          BY <1>2, <1>3, <4>2, BelowGrows DEF Subtree
        <4>4. PICK h \in HostsOf(Subtree(kids, m)) : x \in Range(kids[h])
          BY <1>2, <4>1, <4>2, BelowSplit DEF Subtree
        <4> QED BY <4>3, <4>4, HostsOfGrows
      <3> QED BY <3>1, <3>2
    <2>3. B \in SUBSET Nodes /\ S \subseteq B
      BY <1>2, <1>3, BelowFacts
    <2>4. HostsOf(B) \subseteq Hosts
      BY <2>3, HostsKnown
    <2>5. B \in SUBSET Placed(kids) /\ B # {}
      BY <1>1, <2>2, <2>3, <2>4 DEF Placed
    <2>6. PICK x \in B : \E h \in Hosts : x \in Range(kids[h]) /\ h \notin HostsOf(B)
      BY <1>2, <2>5, Rooted
    <2> QED BY <1>2, <2>2, <2>4, <2>6 DEF Apart
  <1>6. ASSUME NEW h \in HostsOf(Below(kids, TopLevel(S))), NEW n \in TopLevel(S), n \in Range(kids[h])
        PROVE  FALSE
    <2>1. PICK y \in Below(kids, TopLevel(S)) : h \in InnerHosts(y)
      BY <1>6, OwnerOf
    <2>2. PICK m \in TopLevel(S) : y \in Subtree(kids, m)
      BY <1>2, <1>3, <2>1, BelowOne
    <2>3. h \in HostsOf(Subtree(kids, m)) /\ {m} \in SUBSET Nodes
      BY <1>3, <2>1, <2>2 DEF HostsOf
    <2>4. n \in Subtree(kids, m)
      BY <1>2, <1>6, <2>3, BelowClosed DEF Subtree
    <2>5. n # m => FALSE
      BY <1>3, <2>2, <2>4 DEF TopLevel
    <2>6. h \in Hosts
      BY <1>2, <1>3, <1>6, BelowFacts, HostsKnown
    <2> QED BY <1>2, <1>3, <1>6, <2>3, <2>5, <2>6, NotBelowItself
  <1> QED BY <1>1, <1>3, <1>4, <1>5, <1>6

LEMMA BatchFacts ==
    ASSUME Tree(kids), NEW S \in Selections, NEW batch \in Batches(S)
    PROVE  /\ batch \in Seq(Nodes) /\ Distinct(batch) /\ batch # <<>>
           /\ Range(batch) = TopLevel(S)
  <1> DEFINE T == TopLevel(S)
             n == Cardinality(T)
  <1>1. T \subseteq Widgets \cap Reached(kids) /\ T # {} /\ IsFiniteSet(T)
    BY TopLevelFacts
  <1>2. n \in Nat
    BY <1>1, FS_CardinalityType
  <1>3. batch \in Bijection(1..n, T)
    BY DEF Batches
  <1>4. /\ batch \in [1..n -> T]
        /\ \A i, j \in 1..n : batch[i] = batch[j] => i = j
        /\ \A x \in T : \E i \in 1..n : batch[i] = x
    BY <1>3 DEF Bijection, Injection, Surjection, IsInjective
  <1> HIDE DEF n
  <1>5. T \subseteq Nodes
    BY <1>1 DEF Nodes
  <1>6. batch \in Seq(Nodes) /\ Len(batch) = n
    BY <1>2, <1>4, <1>5
  <1>7. Distinct(batch)
    BY <1>4, <1>6 DEF Distinct
  <1>8. Range(batch) = T
    BY <1>4 DEF Range
  <1>9. batch # <<>>
    BY <1>1, <1>6, <1>8, RangeEmpty
  <1> QED BY <1>6, <1>7, <1>8, <1>9

-----------------------------------------------------------------------------
(* Dragging widgets.                                                       *)

(* A host of widgets that is not below widgets is not one of theirs.       *)
LEMMA NotBelowWidgets ==
    ASSUME Tree(kids), NEW batch \in Seq(Nodes), Range(batch) \subseteq Widgets, NEW host,
           host \notin Range(batch) \cup Descendants(batch)
    PROVE  host \notin HostsOf(Below(kids, Range(batch)))
  <1> DEFINE M == Range(batch)
  <1> SUFFICES ASSUME host \in HostsOf(Below(kids, M)) PROVE FALSE
    OBVIOUS
  <1>1. Forest(kids) /\ KindsFit(kids) /\ M \in SUBSET Nodes /\ M \in SUBSET Widgets
    BY DEF Tree, Nodes
  <1>2. PICK n \in Below(kids, M) : host \in InnerHosts(n)
    BY OwnerOf
  <1>3. n \in Widgets
    BY <1>1, BelowWidgets
  <1>4. host = n
    BY <1>2, <1>3, Kinds
  <1>5. PICK m \in M : n \in Subtree(kids, m)
    BY <1>1, BelowOne
  <1> QED BY <1>4, <1>5 DEF Descendants

LEMMA IndexType ==
    ASSUME NEW list \in Seq(Nodes), NEW S, NEW i \in 0..Len(list)
    PROVE  IndexAfterRemoval(list, S, i) \in Nat
  <1>1. PICK u : Stages(u, Len(list), list, Spared(S))
    BY SpreadStages, SparedType
  <1>2. Len(u[i]) = i - Cardinality(Left(list, S, i)) /\ u[i] \in Seq(Nodes)
    BY <1>1, StageLength DEF Stages
  <1>3. Len(u[i]) \in Nat
    BY <1>2
  <1> QED BY <1>2, <1>3 DEF IndexAfterRemoval, Left

LEMMA WidgetsMove ==
    ASSUME TypeOK, NEW batch \in Seq(Nodes), Distinct(batch),
           Range(batch) \subseteq Widgets \cap Reached(kids),
           NEW host \in HostsIn(kids), host \in WidgetHosts,
           host \notin HostsOf(Below(kids, Range(batch))),
           NEW at \in Nat, kids' = Inserted(Without(kids, Range(batch)), host, at, batch),
           dirty \cup SourcePages(Range(batch)) \cup OwningPages(kids, host) \subseteq dirty',
           dirty' \subseteq Pages \cap Reached(kids)
    PROVE  Tree(kids') /\ Reached(kids') = Reached(kids) /\ Booked
  <1> DEFINE M == Range(batch)
  <1>1. Tree(kids) /\ Forest(kids) /\ Reached(kids) \subseteq Nodes
    BY TypeFacts
  <1>2. host \notin PageHosts
    BY Kinds
  <1>3. /\ Tree(kids') /\ Reached(kids') = Reached(kids)
        /\ \A h \in Hosts \ {host} : Range(kids[h]) \cap M = {} => kids'[h] = kids[h]
    BY <1>1, <1>2, MoveLists
  <1>4. ASSUME NEW p \in Pages \cap Reached(kids), p \notin dirty'
        PROVE  Under(kids', p) = Under(kids, p)
    <2>1. p \notin SourcePages(M) /\ p \notin OwningPages(kids, host) /\ p \in Nodes
      BY <1>1, <1>4
    <2>2. ASSUME NEW h \in HostsOf(Subtree(kids, p)) PROVE kids'[h] = kids[h]
      <3>1. h \in Hosts
        BY <1>1, <2>1, PageHostsKnown
      <3>2. h # host
        BY <1>4, <2>1 DEF OwningPages
      <3>3. Range(kids[h]) \cap M = {}
        BY <1>1, <1>4, <2>1, NotASource
      <3> QED BY <1>3, <3>1, <3>2, <3>3
    <2>3. Forest(kids')
      BY <1>3 DEF Tree
    <2> QED BY <1>1, <2>1, <2>2, <2>3, PageSame
  <1>5. Booked
    BY <1>3, <1>4 DEF Booked
  <1> QED BY <1>3, <1>5

LEMMA DragMoves ==
    ASSUME TypeOK, NEW S \in Selections, NEW batch \in Batches(S),
           NEW host \in HostsIn(kids), host \in WidgetHosts, NEW at \in Nat, NEW what,
           MoveWidgetsTo(batch, host, at, what)
    PROVE  Tree(kids') /\ Reached(kids') = Reached(kids) /\ Booked
  <1>1. Tree(kids) /\ dirty \subseteq Pages \cap Reached(kids)
    BY TypeFacts
  <1>2. batch \in Seq(Nodes) /\ Distinct(batch) /\ Range(batch) \subseteq Widgets \cap Reached(kids)
    BY <1>1, BatchFacts, TopLevelFacts
  <1>3. host \notin HostsOf(Below(kids, Range(batch)))
    BY <1>1, <1>2, NotBelowWidgets DEF MoveWidgetsTo
  <1>4. kids' = Inserted(Without(kids, Range(batch)), host, at, batch)
        /\ dirty' = dirty \cup SourcePages(Range(batch)) \cup OwningPages(kids, host)
    BY DEF MoveWidgetsTo, MovedDirty
  <1>5. dirty' \subseteq Pages \cap Reached(kids)
    BY <1>1, <1>4, OwningReached, SourceReached
  <1> QED BY <1>2, <1>3, <1>4, <1>5, WidgetsMove

LEMMA BesideTarget ==
    ASSUME TypeOK, NEW over \in Reached(kids), NEW S, NEW after \in BOOLEAN
    PROVE  /\ HostOf(kids, over) \in HostsIn(kids)
           /\ IndexAfterRemoval(kids[HostOf(kids, over)], S,
                                Position(kids, over) - (IF after THEN 0 ELSE 1)) \in Nat
           /\ over \in Widgets => HostOf(kids, over) \in WidgetHosts
           /\ over \in PageNodes => HostOf(kids, over) \in PageHosts
  <1> DEFINE host == HostOf(kids, over)
             at == Position(kids, over) - (IF after THEN 0 ELSE 1)
  <1>1. Tree(kids) /\ Forest(kids) /\ KindsFit(kids)
    BY TypeFacts
  <1>2. /\ host \in HostsIn(kids) /\ host \in Hosts /\ over \in Range(kids[host])
        /\ Position(kids, over) \in 1..Len(kids[host])
    BY <1>1, PlaceOf
  <1>3. kids[host] \in Seq(Nodes)
    BY <1>1, <1>2 DEF Forest
  <1>4. at \in 0..Len(kids[host])
    BY <1>2, <1>3
  <1> HIDE DEF at
  <1>5. IndexAfterRemoval(kids[host], S, at) \in Nat
    BY <1>3, <1>4, IndexType
  <1>6. over \in Nodes
    BY <1>2, <1>3, RangeType
  <1>7. (over \in Widgets => host \in WidgetHosts) /\ (over \in PageNodes => host \in PageHosts)
    BY <1>1, <1>2, <1>6, Kinds DEF KindsFit
  <1> QED BY <1>2, <1>5, <1>7 DEF at

LEMMA DragWidgetsKeeps ==
    ASSUME TypeOK, DragWidgets
    PROVE  Tree(kids') /\ Reached(kids') = Reached(kids) /\ Booked /\ UNCHANGED clip
  <1>0. PICK S \in Selections : \E batch \in Batches(S) :
            \/ \E active \in S, over \in Widgets \cap Reached(kids), after \in BOOLEAN :
                   DropBeside(S, batch, active, over, after)
            \/ \E host \in WidgetHosts : DropInto(batch, host)
    BY DEF DragWidgets
  <1>1. PICK batch \in Batches(S) :
            \/ \E active \in S, over \in Widgets \cap Reached(kids), after \in BOOLEAN :
                   DropBeside(S, batch, active, over, after)
            \/ \E host \in WidgetHosts : DropInto(batch, host)
    BY <1>0
  <1>2. CASE \E active \in S, over \in Widgets \cap Reached(kids), after \in BOOLEAN :
                 DropBeside(S, batch, active, over, after)
    <2>1. PICK active \in S, over \in Widgets \cap Reached(kids), after \in BOOLEAN :
              DropBeside(S, batch, active, over, after)
      BY <1>2
    <2> DEFINE host == HostOf(kids, over)
               at == IndexAfterRemoval(kids[host], Range(batch),
                                       Position(kids, over) - (IF after THEN 0 ELSE 1))
               what == [kind |-> "move", batch |-> batch, over |-> over, after |-> after]
    <2>2. MoveWidgetsTo(batch, host, at, what)
      BY <2>1 DEF DropBeside
    <2>3. host \in HostsIn(kids) /\ host \in WidgetHosts /\ at \in Nat
      BY BesideTarget
    <2> HIDE DEF host, at, what
    <2>4. Tree(kids') /\ Reached(kids') = Reached(kids) /\ Booked
      BY <2>2, <2>3, DragMoves
    <2> QED BY <2>2, <2>4 DEF MoveWidgetsTo
  <1>3. CASE \E host \in WidgetHosts : DropInto(batch, host)
    <2>1. PICK host \in WidgetHosts : DropInto(batch, host)
      BY <1>3
    <2> DEFINE at == Len(Without(kids, Range(batch))[host])
               what == [kind |-> "move", batch |-> batch, over |-> host, after |-> TRUE]
    <2>2. MoveWidgetsTo(batch, host, at, what) /\ host \in HostsIn(kids)
      BY <2>1 DEF DropInto
    <2>3. at \in Nat
      <3>1. Without(kids, Range(batch))[host] \in Seq(Nodes)
        <4>1. Forest(Without(kids, Range(batch))) /\ host \in Hosts
          BY TypeFacts, WithoutFacts DEF Hosts
        <4> QED BY <4>1 DEF Forest
      <3> QED BY <3>1
    <2> HIDE DEF at, what
    <2>4. Tree(kids') /\ Reached(kids') = Reached(kids) /\ Booked
      BY <2>2, <2>3, DragMoves
    <2> QED BY <2>2, <2>4 DEF MoveWidgetsTo
  <1> QED BY <1>1, <1>2, <1>3

-----------------------------------------------------------------------------
(* Dragging pages and groups.                                              *)

(* The lists of a page hold widgets.                                       *)
LEMMA PageLists ==
    ASSUME NEW k, Tree(k), NEW p \in Pages, NEW h \in HostsOf(Subtree(k, p))
    PROVE  h \in Hosts /\ h \in WidgetHosts /\ h \notin PageHosts /\ Range(k[h]) \subseteq Widgets
  <1>1. Forest(k) /\ KindsFit(k) /\ p \in Nodes
    BY DEF Tree, Nodes, PageNodes
  <1>2. PICK m \in Subtree(k, p) : h \in InnerHosts(m)
    BY OwnerOf
  <1>3. m = p \/ m \in Widgets
    BY <1>1, <1>2, BelowPage
  <1>4. h \in WidgetHosts
    BY <1>2, <1>3, Kinds DEF WidgetHosts
  <1> QED BY <1>1, <1>4, Kinds DEF KindsFit

(* Page nodes move: the lists of the pages hold widgets and stay.          *)
LEMMA PagesMove ==
    ASSUME TypeOK, NEW batch \in Seq(Nodes), Distinct(batch),
           Range(batch) \subseteq PageNodes \cap Reached(kids),
           NEW host \in HostsIn(kids), host \in PageHosts,
           host \notin HostsOf(Below(kids, Range(batch))),
           NEW at \in Nat, kids' = Inserted(Without(kids, Range(batch)), host, at, batch),
           dirty \subseteq dirty', dirty' \subseteq Pages \cap Reached(kids)
    PROVE  Tree(kids') /\ Reached(kids') = Reached(kids) /\ Booked
  <1> DEFINE M == Range(batch)
  <1>1. Tree(kids) /\ Forest(kids) /\ KindsFit(kids) /\ Reached(kids) \subseteq Nodes
    BY TypeFacts
  <1>2. host \notin WidgetHosts
    BY Kinds
  <1>3. /\ Tree(kids') /\ Reached(kids') = Reached(kids)
        /\ \A h \in Hosts \ {host} : Range(kids[h]) \cap M = {} => kids'[h] = kids[h]
    BY <1>1, <1>2, MoveLists
  <1>4. ASSUME NEW p \in Pages PROVE Under(kids', p) = Under(kids, p)
    <2>1. p \in Nodes /\ Forest(kids')
      BY <1>3 DEF Nodes, PageNodes, Tree
    <2>2. ASSUME NEW h \in HostsOf(Subtree(kids, p)) PROVE kids'[h] = kids[h]
      <3>1. h \in Hosts /\ h \in WidgetHosts /\ Range(kids[h]) \subseteq Widgets
        BY <1>1, PageLists
      <3>2. M \cap Widgets = {}
        BY <1>1, Kinds
      <3> QED BY <1>2, <1>3, <3>1, <3>2
    <2> QED BY <1>1, <2>1, <2>2, PageSame
  <1> QED BY <1>3, <1>4 DEF Booked

LEMMA PageMoves ==
    ASSUME TypeOK, NEW n, NEW host, NEW at \in Nat, NEW what, MovePageTo(n, host, at, what)
    PROVE  Tree(kids') /\ Reached(kids') = Reached(kids) /\ Booked
  <1> DEFINE batch == <<n>>
  <1>1. Forest(kids) /\ Reached(kids) \subseteq Nodes /\ dirty \subseteq Pages \cap Reached(kids)
    BY TypeFacts
  <1>2. n \in PageNodes \cap Reached(kids) /\ host \in PageHosts \cap HostsIn(kids)
        /\ host \notin Subtree(kids, n)
        /\ kids' = Inserted(Without(kids, {n}), host, at, batch) /\ dirty' = dirty
    BY DEF MovePageTo
  <1>3. batch \in Seq(Nodes) /\ Range(batch) = {n} /\ Distinct(batch)
    BY <1>1, <1>2 DEF Range, Distinct
  <1>4. host \notin HostsOf(Subtree(kids, n))
    <2> SUFFICES ASSUME host \in HostsOf(Subtree(kids, n)) PROVE FALSE
      OBVIOUS
    <2>1. PICK m \in Subtree(kids, n) : host \in InnerHosts(m)
      BY OwnerOf
    <2>2. m \in Nodes
      BY <1>1, <1>2, <2>1, PageHostsKnown
    <2>3. host = m
      BY <1>2, <2>1, <2>2, Kinds DEF PageHosts, WidgetHosts
    <2> QED BY <1>2, <2>1, <2>3
  <1> HIDE DEF batch
  <1>5. /\ host \in HostsIn(kids) /\ host \notin HostsOf(Below(kids, Range(batch)))
        /\ Range(batch) \subseteq PageNodes \cap Reached(kids)
        /\ kids' = Inserted(Without(kids, Range(batch)), host, at, batch)
    BY <1>2, <1>3, <1>4 DEF Subtree
  <1>6. dirty \subseteq dirty' /\ dirty' \subseteq Pages \cap Reached(kids)
        /\ batch \in Seq(Nodes) /\ Distinct(batch) /\ host \in PageHosts
    BY <1>1, <1>2, <1>3
  <1> QED BY <1>5, <1>6, PagesMove

LEMMA DragPageKeeps ==
    ASSUME TypeOK, DragPage
    PROVE  Tree(kids') /\ Reached(kids') = Reached(kids) /\ Booked /\ UNCHANGED clip
  <1>1. PICK n \in PageNodes \cap Reached(kids) :
        \/ \E over \in (PageNodes \cap Reached(kids)) \ Subtree(kids, n), after \in BOOLEAN :
               MovePageTo(n, HostOf(kids, over),
                          IndexAfterRemoval(kids[HostOf(kids, over)], {n},
                                Position(kids, over) - (IF after THEN 0 ELSE 1)),
                          [kind |-> "move", batch |-> <<n>>, over |-> over, after |-> after])
        \/ \E host \in PageHosts \cap HostsIn(kids) :
               MovePageTo(n, host, Len(Without(kids, {n})[host]),
                          [kind |-> "move", batch |-> <<n>>, over |-> host, after |-> TRUE])
    BY DEF DragPage
  <1>2. CASE \E over \in (PageNodes \cap Reached(kids)) \ Subtree(kids, n), after \in BOOLEAN :
               MovePageTo(n, HostOf(kids, over),
                          IndexAfterRemoval(kids[HostOf(kids, over)], {n},
                                Position(kids, over) - (IF after THEN 0 ELSE 1)),
                          [kind |-> "move", batch |-> <<n>>, over |-> over, after |-> after])
    <2>1. PICK over \in (PageNodes \cap Reached(kids)) \ Subtree(kids, n), after \in BOOLEAN :
               MovePageTo(n, HostOf(kids, over),
                          IndexAfterRemoval(kids[HostOf(kids, over)], {n},
                                Position(kids, over) - (IF after THEN 0 ELSE 1)),
                          [kind |-> "move", batch |-> <<n>>, over |-> over, after |-> after])
      BY <1>2
    <2> DEFINE at == IndexAfterRemoval(kids[HostOf(kids, over)], {n},
                                Position(kids, over) - (IF after THEN 0 ELSE 1))
               what == [kind |-> "move", batch |-> <<n>>, over |-> over, after |-> after]
    <2>2. at \in Nat
      BY BesideTarget
    <2>3. MovePageTo(n, HostOf(kids, over), at, what)
      BY <2>1
    <2> HIDE DEF at, what
    <2> QED BY <2>2, <2>3, PageMoves DEF MovePageTo
  <1>3. CASE \E host \in PageHosts \cap HostsIn(kids) :
               MovePageTo(n, host, Len(Without(kids, {n})[host]),
                          [kind |-> "move", batch |-> <<n>>, over |-> host, after |-> TRUE])
    <2>1. PICK host \in PageHosts \cap HostsIn(kids) :
               MovePageTo(n, host, Len(Without(kids, {n})[host]),
                          [kind |-> "move", batch |-> <<n>>, over |-> host, after |-> TRUE])
      BY <1>3
    <2> DEFINE at == Len(Without(kids, {n})[host])
               what == [kind |-> "move", batch |-> <<n>>, over |-> host, after |-> TRUE]
    <2>2. at \in Nat
      <3>1. Without(kids, {n})[host] \in Seq(Nodes)
        <4>1. Forest(Without(kids, {n})) /\ host \in Hosts
          BY TypeFacts, WithoutFacts DEF Hosts
        <4> QED BY <4>1 DEF Forest
      <3> QED BY <3>1
    <2>3. MovePageTo(n, host, at, what)
      BY <2>1
    <2> HIDE DEF at, what
    <2> QED BY <2>2, <2>3, PageMoves DEF MovePageTo
  <1> QED BY <1>1, <1>2, <1>3

-----------------------------------------------------------------------------
(* Adding and deleting.                                                    *)

LEMMA AddKeeps ==
    ASSUME TypeOK, NEW w \in Nodes, w \notin Reached(kids), NEW host \in HostsIn(kids),
           host \in WidgetHosts => w \in Widgets, host \in PageHosts => w \in PageNodes,
           kids' = Appended(kids, host, <<w>>)
    PROVE  /\ Tree(kids') /\ Reached(kids') = Reached(kids) \cup {w}
           /\ \A h \in Hosts \ {host} : kids'[h] = kids[h]
  <1> DEFINE list == kids[host]
             one == <<w>>
             at == Len(list)
  <1>1. Tree(kids) /\ Forest(kids) /\ Apart(kids)
    BY TypeFacts
  <1>2. host \in Hosts /\ Range(list) \subseteq Reached(kids)
    BY <1>1, ReachedFacts
  <1>3. list \in Seq(Nodes) /\ Distinct(list)
    BY <1>1, <1>2 DEF Forest, Apart
  <1>4. one \in Seq(Nodes) /\ Range(one) = {w} /\ Distinct(one)
    BY DEF Range, Distinct
  <1>5. at \in Nat
    BY <1>3
  <1>6. kids' = Inserted(kids, host, at, one)
    BY DEF Appended
  <1> HIDE DEF one, at, list
  <1>7. /\ Forest(kids') /\ kids'[host] = Splice(list, at, one)
        /\ \A h \in Hosts \ {host} : kids'[h] = kids[h]
    <2>1. host \in Hosts /\ at \in Nat /\ one \in Seq(Nodes) /\ Forest(kids)
      BY <1>1, <1>2, <1>4, <1>5
    <2>2. /\ Forest(Inserted(kids, host, at, one))
          /\ Inserted(kids, host, at, one)[host] = Splice(kids[host], at, one)
          /\ \A h \in Hosts \ {host} : Inserted(kids, host, at, one)[h] = kids[h]
      BY <2>1, InsertedFacts
    <2> QED BY <1>6, <2>2 DEF list
  <1>8. Range(list) \cap Range(one) = {}
    BY <1>2, <1>4
  <1>9. Range(kids'[host]) = Range(list) \cup {w} /\ Distinct(kids'[host])
    <2>1. /\ Range(Splice(list, at, one)) = Range(list) \cup Range(one)
          /\ Distinct(Splice(list, at, one))
      BY <1>3, <1>4, <1>5, <1>8, SpliceFacts
    <2> QED BY <1>4, <1>7, <2>1
  <1>10. \A h \in Hosts : Distinct(kids'[h])
    BY <1>1, <1>7, <1>9 DEF Apart
  <1>11. \A h \in Hosts \ {host} : Range(kids'[h]) = Range(kids[h])
    BY <1>7
  <1> USE DEF list
  <1>12. Tree(kids') /\ Reached(kids') = Reached(kids) \cup {w}
    BY <1>1, <1>7, <1>9, <1>10, <1>11, AddTree
  <1> QED BY <1>7, <1>12

LEMMA AddWidgetKeeps ==
    ASSUME TypeOK, AddWidget
    PROVE  Tree(kids') /\ Booked /\ UNCHANGED clip
  <1>1. PICK w \in Unused(Widgets), host \in WidgetHosts \cap HostsIn(kids) :
            /\ kids' = Appended(kids, host, <<w>>)
            /\ dirty' = dirty \cup OwningPages(kids, host)
            /\ UNCHANGED clip
    BY DEF AddWidget
  <1>2. Tree(kids) /\ Forest(kids) /\ Reached(kids) \subseteq Nodes
        /\ dirty \subseteq Pages \cap Reached(kids)
    BY TypeFacts
  <1>3. w \in Nodes /\ w \notin Reached(kids) /\ w \in Widgets
    BY DEF Unused, Nodes
  <1>4. host \notin PageHosts
    BY Kinds
  <1>5. /\ Tree(kids') /\ Reached(kids') = Reached(kids) \cup {w}
        /\ \A h \in Hosts \ {host} : kids'[h] = kids[h]
    BY <1>1, <1>3, <1>4, AddKeeps
  <1>6. dirty' \subseteq Pages \cap Reached(kids')
    BY <1>1, <1>2, <1>5, OwningReached
  <1>7. ASSUME NEW p \in Pages \cap Reached(kids), p \notin dirty'
        PROVE  Under(kids', p) = Under(kids, p)
    <2>1. host \notin HostsOf(Subtree(kids, p))
      BY <1>1, <1>7 DEF OwningPages
    <2>2. \A h \in HostsOf(Subtree(kids, p)) : kids'[h] = kids[h]
      BY <1>2, <1>5, <2>1, PageLists
    <2> QED BY <1>2, <1>5, <2>2, PageSame DEF Tree
  <1> QED BY <1>1, <1>5, <1>6, <1>7 DEF Booked

LEMMA AddPageNodeKeeps ==
    ASSUME TypeOK, AddPageNode
    PROVE  Tree(kids') /\ Booked /\ UNCHANGED clip
  <1>1. PICK n \in Unused(PageNodes), host \in PageHosts \cap HostsIn(kids) :
            /\ kids' = Appended(kids, host, <<n>>)
            /\ dirty' = dirty \cup ({n} \cap Pages)
            /\ UNCHANGED clip
    BY DEF AddPageNode
  <1>2. Tree(kids) /\ Forest(kids) /\ Reached(kids) \subseteq Nodes
        /\ dirty \subseteq Pages \cap Reached(kids)
    BY TypeFacts
  <1>3. n \in Nodes /\ n \notin Reached(kids) /\ n \in PageNodes
    BY DEF Unused, Nodes
  <1>4. host \notin WidgetHosts
    BY Kinds
  <1>5. /\ Tree(kids') /\ Reached(kids') = Reached(kids) \cup {n}
        /\ \A h \in Hosts \ {host} : kids'[h] = kids[h]
    BY <1>1, <1>3, <1>4, AddKeeps
  <1>6. dirty' \subseteq Pages \cap Reached(kids')
    BY <1>1, <1>2, <1>5
  <1>7. ASSUME NEW p \in Pages \cap Reached(kids)
        PROVE  Under(kids', p) = Under(kids, p)
    <2>1. \A h \in HostsOf(Subtree(kids, p)) : kids'[h] = kids[h]
      BY <1>2, <1>4, <1>5, PageLists
    <2> QED BY <1>2, <1>5, <2>1, PageSame DEF Tree
  <1> QED BY <1>1, <1>2, <1>5, <1>6, <1>7 DEF Booked

(* Two parts of a tree that do not meet.                                   *)
LEMMA ApartBelow ==
    ASSUME NEW k, Tree(k), NEW M \in SUBSET Nodes, M \subseteq Reached(k),
           NEW p \in Nodes, p \in Reached(k), p \notin Below(k, M),
           \A h \in HostsOf(Subtree(k, p)) : Range(k[h]) \cap M = {}
    PROVE  HostsOf(Subtree(k, p)) \cap HostsOf(Below(k, M)) = {}
  <1> DEFINE D == Below(k, M)
             U == Subtree(k, p)
             B == U \cap D
  <1>1. Forest(k) /\ Apart(k) /\ Grounded(k)
    BY DEF Tree
  <1>2. D \in SUBSET Nodes /\ U \in SUBSET Nodes /\ {p} \in SUBSET Nodes
    BY <1>1, BelowFacts DEF Subtree
  <1>3. U \subseteq Reached(k)
    <2>1. Tops(k) \in SUBSET Nodes
      BY <1>1, TopsAre
    <2> QED BY <1>1, <1>2, <2>1, BelowGrows DEF Reached, Subtree
  <1>4. HostsOf(U) \subseteq Hosts /\ HostsOf(D) \subseteq Hosts
    BY <1>2, HostsKnown
  <1>5. B = {}
    <2> SUFFICES ASSUME B # {} PROVE FALSE
      OBVIOUS
    <2>1. B \in SUBSET Placed(k)
      BY <1>1, <1>3, ReachedFacts
    <2>2. PICK x \in B : \E h \in Hosts : x \in Range(k[h]) /\ h \notin HostsOf(B)
      BY <1>1, <2>1, Rooted
    <2>3. PICK h \in Hosts : x \in Range(k[h]) /\ h \notin HostsOf(B)
      BY <2>2
    <2>4. x # p
      OBVIOUS
    <2>5. \E c \in HostsOf(U) : x \in Range(k[c])
      BY <1>1, <1>2, <2>2, <2>4, BelowSplit DEF Subtree
    <2>6. h \in HostsOf(U)
      BY <1>1, <1>4, <2>3, <2>5 DEF Apart
    <2>7. x \notin M
      BY <2>3, <2>6
    <2>8. \E c \in HostsOf(D) : x \in Range(k[c])
      BY <1>1, <1>2, <2>2, <2>7, BelowSplit
    <2>9. h \in HostsOf(D)
      BY <1>1, <1>4, <2>3, <2>8 DEF Apart
    <2>10. PICK n \in U : h \in InnerHosts(n)
      BY <2>6, OwnerOf
    <2>11. n \in D
      BY <1>2, <2>9, <2>10, Owned
    <2> QED BY <2>3, <2>10, <2>11 DEF HostsOf
  <1>6. ASSUME NEW h \in HostsOf(U), h \in HostsOf(D) PROVE FALSE
    <2>1. PICK n \in U : h \in InnerHosts(n)
      BY <1>6, OwnerOf
    <2>2. n \in D
      BY <1>2, <1>6, <2>1, Owned
    <2> QED BY <1>5, <2>1, <2>2
  <1> QED BY <1>6

LEMMA DeleteKeeps ==
    ASSUME TypeOK, NEW M \in SUBSET Nodes, M \subseteq Reached(kids),
           kids' = Cleared(Without(kids, M), Below(kids, M))
    PROVE  /\ Tree(kids') /\ Reached(kids') = Reached(kids) \ Below(kids, M)
           /\ \A p \in Pages \cap Reached(kids') :
                 (\A h \in HostsOf(Subtree(kids, p)) : Range(kids[h]) \cap M = {})
                     => Under(kids', p) = Under(kids, p)
  <1> DEFINE D == Below(kids, M)
             less == Without(kids, M)
  <1>1. Tree(kids) /\ Forest(kids) /\ Apart(kids) /\ Reached(kids) \subseteq Nodes
    BY TypeFacts
  <1>2. /\ Forest(less)
        /\ \A h \in Hosts : Range(less[h]) = Range(kids[h]) \ M /\ Distinct(less[h])
    BY <1>1, WithoutFacts DEF Apart
  <1>3. Range(<<>>) = {} /\ Distinct(<<>>)
    BY DEF Range, Distinct
  <1>4. kids' = [h \in Hosts |-> IF h \in HostsOf(D) THEN <<>> ELSE less[h]]
    BY DEF Cleared
  <1> HIDE DEF less
  <1>5. Forest(kids')
    BY <1>2, <1>4 DEF Forest
  <1>6. \A h \in Hosts : Distinct(kids'[h])
    BY <1>2, <1>3, <1>4
  <1>7. D \in SUBSET Nodes /\ HostsOf(D) \subseteq Hosts
    BY <1>1, BelowFacts, HostsKnown
  <1>8. \A h \in HostsOf(D) : Range(kids'[h]) = {}
    BY <1>3, <1>4, <1>7
  <1>9. \A h \in Hosts \ HostsOf(D) : Range(kids'[h]) = Range(kids[h]) \ M
    BY <1>2, <1>4
  <1>10. Tree(kids') /\ Reached(kids') = Reached(kids) \ D
    BY <1>1, <1>5, <1>6, <1>8, <1>9, DeleteTree
  <1>11. ASSUME NEW p \in Pages \cap Reached(kids'),
                \A h \in HostsOf(Subtree(kids, p)) : Range(kids[h]) \cap M = {}
         PROVE  Under(kids', p) = Under(kids, p)
    <2>1. p \in Nodes /\ p \in Reached(kids) /\ p \notin D
      BY <1>1, <1>10
    <2>2. HostsOf(Subtree(kids, p)) \cap HostsOf(D) = {}
      BY <1>1, <1>11, <2>1, ApartBelow
    <2>3. ASSUME NEW h \in HostsOf(Subtree(kids, p)) PROVE kids'[h] = kids[h]
      <3>1. h \in Hosts /\ h \notin HostsOf(D)
        BY <1>1, <2>1, <2>2, PageHostsKnown
      <3>2. kids[h] \in Seq(Nodes) /\ Range(kids[h]) \cap M = {}
        BY <1>1, <1>11, <3>1 DEF Forest
      <3>3. less[h] = kids[h]
        BY <3>1, <3>2, WithoutSame DEF less, Without
      <3> QED BY <1>4, <3>1, <3>3
    <2> QED BY <1>1, <1>5, <2>1, <2>3, PageSame
  <1> QED BY <1>10, <1>11

LEMMA DeleteWidgetsKeeps ==
    ASSUME TypeOK, DeleteWidgets
    PROVE  Tree(kids') /\ Booked /\ UNCHANGED clip
  <1>1. PICK S \in Selections :
            /\ kids' = Cleared(Without(kids, TopLevel(S)), Below(kids, TopLevel(S)))
            /\ dirty' = dirty \cup SourcePages(TopLevel(S))
            /\ UNCHANGED clip
    BY DEF DeleteWidgets
  <1> DEFINE M == TopLevel(S)
  <1>2. Tree(kids) /\ Forest(kids) /\ KindsFit(kids) /\ Reached(kids) \subseteq Nodes
        /\ dirty \subseteq Pages \cap Reached(kids)
    BY TypeFacts
  <1>3. M \in SUBSET Nodes /\ M \subseteq Reached(kids) /\ M \in SUBSET Widgets
    BY <1>2, TopLevelFacts
  <1> HIDE DEF M
  <1>4. /\ Tree(kids') /\ Reached(kids') = Reached(kids) \ Below(kids, M)
        /\ \A p \in Pages \cap Reached(kids') :
              (\A h \in HostsOf(Subtree(kids, p)) : Range(kids[h]) \cap M = {})
                  => Under(kids', p) = Under(kids, p)
    BY <1>1, <1>3, DeleteKeeps DEF M
  <1>5. Below(kids, M) \cap Pages = {}
    <2>1. Below(kids, M) \subseteq Widgets
      BY <1>2, <1>3, BelowWidgets
    <2> QED BY <2>1, TreeAssumption DEF PageNodes
  <1>6. dirty' \subseteq Pages \cap Reached(kids')
    BY <1>1, <1>2, <1>4, <1>5, SourceReached
  <1>7. ASSUME NEW p \in Pages \cap Reached(kids) \cap Reached(kids'), p \notin dirty'
        PROVE  Under(kids', p) = Under(kids, p)
    <2>1. p \notin SourcePages(M)
      BY <1>1, <1>7 DEF M
    <2>2. \A h \in HostsOf(Subtree(kids, p)) : Range(kids[h]) \cap M = {}
      BY <1>2, <1>3, <2>1, NotASource
    <2> QED BY <1>4, <2>2
  <1> QED BY <1>1, <1>4, <1>6, <1>7 DEF Booked

LEMMA DeletePageNodeKeeps ==
    ASSUME TypeOK, DeletePageNode
    PROVE  Tree(kids') /\ Booked /\ UNCHANGED clip
  <1>1. PICK n \in PageNodes \cap Reached(kids) :
            /\ kids' = Cleared(Without(kids, {n}), Subtree(kids, n))
            /\ dirty' = dirty \ PagesUnder(kids, n)
            /\ UNCHANGED clip
    BY DEF DeletePageNode
  <1>2. Tree(kids) /\ Reached(kids) \subseteq Nodes /\ dirty \subseteq Pages \cap Reached(kids)
    BY TypeFacts
  <1>3. {n} \in SUBSET Nodes /\ {n} \subseteq Reached(kids) /\ n \notin Widgets
    BY <1>2, Kinds
  <1>4. /\ Tree(kids') /\ Reached(kids') = Reached(kids) \ Subtree(kids, n)
        /\ \A p \in Pages \cap Reached(kids') :
              (\A h \in HostsOf(Subtree(kids, p)) : Range(kids[h]) \cap {n} = {})
                  => Under(kids', p) = Under(kids, p)
    <2>1. kids' = Cleared(Without(kids, {n}), Below(kids, {n}))
      BY <1>1 DEF Subtree
    <2> QED BY <1>3, <2>1, DeleteKeeps DEF Subtree
  <1>5. dirty' \subseteq Pages \cap Reached(kids')
    BY <1>1, <1>2, <1>4 DEF PagesUnder
  <1>6. ASSUME NEW p \in Pages \cap Reached(kids) \cap Reached(kids')
        PROVE  Under(kids', p) = Under(kids, p) /\ (p \in dirty => p \in dirty')
    <2>1. \A h \in HostsOf(Subtree(kids, p)) : Range(kids[h]) \cap {n} = {}
      BY <1>2, <1>3, PageLists
    <2> QED BY <1>1, <1>4, <2>1 DEF PagesUnder
  <1> QED BY <1>1, <1>4, <1>5, <1>6 DEF Booked

-----------------------------------------------------------------------------
(* Lists with copies.                                                      *)

(* Nodes that are replaced by themselves stay where they are.              *)
LEMMA SpreadSame ==
    ASSUME NEW list \in Seq(Nodes), NEW g \in [Nodes -> Seq(Nodes)],
           \A n \in Range(list) : g[n] = <<n>>
    PROVE  Spread(list, g) = list
  <1> DEFINE n == Len(list)
  <1>1. PICK u : Stages(u, n, list, g) /\ Spread(list, g) = u[n]
    BY SpreadStages
  <1>2. n \in Nat /\ list = [i \in 1..n |-> list[i]]
    OBVIOUS
  <1>3. \A i \in 1..n : list[i] \in Nodes /\ g[list[i]] = <<list[i]>>
    BY RangeType
  <1> HIDE DEF n
  <1> DEFINE Y == {i \in 0..n : Len(u[i]) = i /\ \A c \in 1..i : u[i][c] = list[c]}
  <1>4. 0 \in Y
    BY <1>1, <1>2 DEF Stages
  <1>5. ASSUME NEW i \in 0..(n - 1), i \in Y PROVE i + 1 \in Y
    <2>1. i \in Nat /\ i + 1 \in 1..n /\ i \in 0..n /\ i + 1 - 1 = i
      BY <1>2
    <2>2. u[i] \in Seq(Nodes) /\ list[i + 1] \in Nodes /\ g[list[i + 1]] = <<list[i + 1]>>
      BY <1>1, <1>3, <2>1 DEF Stages
    <2>3. u[i + 1] = u[i] \o <<list[i + 1]>>
      <3> DEFINE j == i + 1
      <3>1. j \in 1..n /\ j - 1 = i /\ g[list[j]] = <<list[j]>>
        BY <2>1, <2>2
      <3> HIDE DEF j
      <3>2. u[j] = u[j - 1] \o g[list[j]]
        BY <1>1, <3>1 DEF Stages
      <3>3. u[j] = u[i] \o <<list[j]>>
        BY <3>1, <3>2
      <3> QED BY <3>3 DEF j
    <2>4. Len(u[i]) = i /\ \A c \in 1..i : u[i][c] = list[c]
      BY <1>5
    <2>5. Len(u[i + 1]) = i + 1
      BY <2>1, <2>2, <2>3, <2>4
    <2>6. ASSUME NEW c \in 1..(i + 1) PROVE u[i + 1][c] = list[c]
      <3>1. CASE c = i + 1
        <4>1. \A s \in Seq(Nodes), x \in Nodes : (s \o <<x>>)[Len(s) + 1] = x
          OBVIOUS
        <4>2. (u[i] \o <<list[i + 1]>>)[Len(u[i]) + 1] = list[i + 1]
          BY <2>2, <4>1
        <4>3. (u[i] \o <<list[i + 1]>>)[i + 1] = list[i + 1]
          BY <2>4, <4>2
        <4> QED BY <2>3, <3>1, <4>3
      <3>2. CASE c \in 1..i
        BY <2>1, <2>2, <2>3, <2>4, <3>2
      <3> QED BY <2>1, <3>1, <3>2
    <2> QED BY <2>1, <2>5, <2>6
  <1> HIDE DEF Y
  <1>6. n \in Y
    <2>1. \A i \in 0..n : i \in Y
      BY <1>2, <1>4, <1>5, UpTo
    <2> QED BY <1>2, <2>1
  <1>7. u[n] \in Seq(Nodes) /\ Len(u[n]) = n /\ \A c \in 1..n : u[n][c] = list[c]
    BY <1>1, <1>2, <1>6 DEF Stages, Y
  <1>8. u[n] = [i \in 1..n |-> u[n][i]]
    BY <1>7
  <1>9. [i \in 1..n |-> u[n][i]] = [i \in 1..n |-> list[i]]
    BY <1>7
  <1> QED BY <1>1, <1>2, <1>8, <1>9, Zenon

Images(f, S) == {f[n] : n \in S}

(* A list with copies next to their originals.                             *)
LEMMA DoubledList ==
    ASSUME NEW list \in Seq(Nodes), NEW B \in SUBSET Nodes, NEW T \in SUBSET B,
           NEW f \in [B -> Nodes], \A m, n \in B : f[m] = f[n] => m = n,
           \A n \in B : f[n] \notin Range(list), Range(list) \cap T \subseteq B, Distinct(list),
           \A n \in T : f[n] # n
    PROVE  /\ Spread(list, Doubled(T, f)) \in Seq(Nodes)
           /\ Range(Spread(list, Doubled(T, f))) =
                 Range(list) \cup Images(f, Range(list) \cap T)
           /\ Distinct(Spread(list, Doubled(T, f)))
  <1> DEFINE g == Doubled(T, f)
  <1>1. \A n \in T : f[n] \in Nodes /\ n \in Nodes
    OBVIOUS
  <1>2. \A n \in Nodes : n \in T => g[n] = <<n, f[n]>>
    BY DEF Doubled
  <1>3. \A n \in Nodes \ T : g[n] = <<n>>
    BY DEF Doubled
  <1>4. g \in [Nodes -> Seq(Nodes)]
    <2>1. ASSUME NEW n \in Nodes PROVE (IF n \in T THEN <<n, f[n]>> ELSE <<n>>) \in Seq(Nodes)
      BY <1>1
    <2> QED BY <2>1 DEF Doubled
  <1> HIDE DEF g
  <1>5. ASSUME NEW n \in T PROVE Range(g[n]) = {n, f[n]} /\ Distinct(g[n])
    <2>1. g[n] = <<n, f[n]>> /\ f[n] # n
      BY <1>2, <1>1
    <2> QED BY <2>1 DEF Range, Distinct
  <1>6. ASSUME NEW n \in Nodes \ T PROVE Range(g[n]) = {n} /\ Distinct(g[n])
    BY <1>3 DEF Range, Distinct
  <1>7. Range(list) \subseteq Nodes
    BY RangeType
  <1>8. ASSUME NEW n \in Range(list), NEW m \in Range(list), m # n
        PROVE  Distinct(g[n]) /\ Range(g[m]) \cap Range(g[n]) = {}
    <2>1. /\ m \in T => Range(g[m]) = {m, f[m]}
          /\ m \notin T => Range(g[m]) = {m}
          /\ n \in T => Range(g[n]) = {n, f[n]}
          /\ n \notin T => Range(g[n]) = {n}
      BY <1>5, <1>6, <1>7
    <2>2. m \in T /\ n \in T => f[m] # f[n]
      BY <1>8
    <2>3. (m \in T => f[m] # n) /\ (n \in T => f[n] # m)
      BY <1>8
    <2>4. Range(g[m]) \cap Range(g[n]) = {}
      BY <1>8, <2>1, <2>2, <2>3
    <2> QED BY <1>5, <1>6, <1>7, <2>4
  <1>9. Gathered(g, Range(list)) = Range(list) \cup {f[n] : n \in Range(list) \cap T}
    <2>1. \A n \in Range(list) : n \in T => Range(g[n]) = {n, f[n]}
      BY <1>5
    <2>2. \A n \in Range(list) : n \notin T => Range(g[n]) = {n}
      BY <1>6, <1>7
    <2>3. \A x \in Gathered(g, Range(list)) :
              x \in Range(list) \cup {f[n] : n \in Range(list) \cap T}
      <3> TAKE x \in Gathered(g, Range(list))
      <3>1. PICK n \in Range(list) : x \in Range(g[n])
        BY DEF Gathered
      <3>2. CASE n \in T
        BY <2>1, <3>1, <3>2
      <3>3. CASE n \notin T
        BY <2>2, <3>1, <3>3
      <3> QED BY <3>2, <3>3
    <2>4. \A x \in Range(list) : x \in Gathered(g, Range(list))
      BY <2>1, <2>2 DEF Gathered
    <2>5. \A n \in Range(list) \cap T : f[n] \in Gathered(g, Range(list))
      BY <2>1 DEF Gathered
    <2> QED BY <2>3, <2>4, <2>5
  <1>10. \A n \in Range(list) : Distinct(g[n])
    BY <1>5, <1>6, <1>7
  <1>11. Distinct(Spread(list, g))
    BY <1>4, <1>8, <1>10, SpreadDistinct
  <1>13. Spread(list, g) \in Seq(Nodes) /\ Range(Spread(list, g)) = Gathered(g, Range(list))
    BY <1>4, SpreadRange
  <1> QED BY <1>9, <1>11, <1>13 DEF g, Images

LEMMA DoubledSame ==
    ASSUME NEW list \in Seq(Nodes), NEW B \in SUBSET Nodes, NEW T \in SUBSET B,
           NEW f \in [B -> Nodes], Range(list) \cap T = {}
    PROVE  Spread(list, Doubled(T, f)) = list
  <1> DEFINE g == Doubled(T, f)
  <1>1. \A n \in T : f[n] \in Nodes /\ n \in Nodes
    OBVIOUS
  <1>2. ASSUME NEW n \in Nodes PROVE (IF n \in T THEN <<n, f[n]>> ELSE <<n>>) \in Seq(Nodes)
    BY <1>1
  <1>3. g \in [Nodes -> Seq(Nodes)]
    BY <1>2 DEF Doubled
  <1>4. \A n \in Range(list) : n \in Nodes /\ g[n] = <<n>>
    BY RangeType DEF Doubled
  <1> HIDE DEF g
  <1>5. Spread(list, g) = list
    BY <1>3, <1>4, SpreadSame
  <1> QED BY <1>5 DEF g

LEMMA BelowReached ==
    ASSUME NEW k, Forest(k), NEW M, M \subseteq Reached(k)
    PROVE  Below(k, M) \subseteq Reached(k)
  <1>1. Tops(k) \in SUBSET Nodes /\ M \in SUBSET Nodes
    BY TopsAre, ReachedFacts
  <1> QED BY <1>1, BelowGrows DEF Reached

LEMMA FreshAre ==
    ASSUME NEW B \in SUBSET Nodes, NEW f \in FreshIds(B)
    PROVE  Renames(f, B, kids)
  BY DEF FreshIds, Renames, Unused

(* The lists of copies are lists of copies.                                *)
LEMMA CopiesForest ==
    ASSUME NEW k, Forest(k), NEW from, Forest(from), NEW M \in SUBSET Nodes, NEW B,
           B = Below(from, M), NEW f, Renames(f, B, kids)
    PROVE  /\ Forest(WithCopies(k, from, f))
           /\ \A h \in HostsOf(Range(f)) :
                 h \in Hosts /\ WithCopies(k, from, f)[h] = Renamed(f, from[Copied(f, h)])
           /\ \A h \in Hosts \ HostsOf(Range(f)) : WithCopies(k, from, f)[h] = k[h]
  <1> DEFINE j == WithCopies(k, from, f)
  <1>1. B \in SUBSET Nodes
    BY BelowFacts
  <1>2. f \in [B -> Nodes] /\ DOMAIN f = B /\ Range(f) \in SUBSET Nodes
        /\ \A m, n \in B : f[m] = f[n] => m = n
    <2>1. f \in [B -> Nodes \ Reached(kids)]
      BY DEF Renames, Injection
    <2>2. \A m, n \in B : f[m] = f[n] => m = n
      BY <2>1 DEF Renames, Injection, IsInjective
    <2> QED BY <2>1, <2>2 DEF Range
  <1>3. ASSUME NEW h \in HostsOf(Range(f)) PROVE Renamed(f, from[Copied(f, h)]) \in Seq(Nodes)
    <2>1. PICK x \in Range(f) : h \in InnerHosts(x)
      BY OwnerOf
    <2>2. PICK n \in B : x = f[n]
      BY <1>2 DEF Range
    <2>3. Copied(f, h) \in InnerHosts(n)
      BY <1>1, <2>1, <2>2, CopiedFacts
    <2>4. Copied(f, h) \in HostsOf(B)
      BY <2>2, <2>3 DEF HostsOf
    <2>5. Range(from[Copied(f, h)]) \subseteq B
      BY <2>4, BelowClosed
    <2>6. from[Copied(f, h)] \in Seq(Nodes)
      BY <1>1, <2>4, HostsKnown DEF Forest
    <2> QED BY <1>1, <1>2, <2>5, <2>6, RenamedFacts
  <1>4. HostsOf(Range(f)) \subseteq Hosts
    BY <1>2, HostsKnown
  <1>5. j = [h \in Hosts |-> IF h \in HostsOf(Range(f)) THEN Renamed(f, from[Copied(f, h)]) ELSE k[h]]
    BY DEF WithCopies
  <1> HIDE DEF j
  <1>6. Forest(j)
    BY <1>3, <1>5 DEF Forest
  <1> QED BY <1>4, <1>5, <1>6 DEF j

-----------------------------------------------------------------------------
(* Duplicating.                                                            *)

(* The hosts of copies are none of those of the tree.                      *)
LEMMA CopiesElsewhere ==
    ASSUME Forest(kids), NEW B \in SUBSET Nodes, NEW f, Renames(f, B, kids),
           NEW p \in Nodes, p \in Reached(kids)
    PROVE  HostsOf(Subtree(kids, p)) \cap HostsOf(Range(f)) = {}
  <1>1. f \in [B -> Nodes \ Reached(kids)]
    BY DEF Renames, Injection
  <1>2. Range(f) \in SUBSET Nodes /\ Range(f) \cap Reached(kids) = {}
    BY <1>1 DEF Range
  <1>3. {p} \subseteq Reached(kids) /\ {p} \in SUBSET Nodes
    OBVIOUS
  <1>4. Subtree(kids, p) \subseteq Reached(kids)
    BY <1>3, BelowReached DEF Subtree
  <1>5. ASSUME NEW h \in HostsOf(Subtree(kids, p)), h \in HostsOf(Range(f)) PROVE FALSE
    <2>1. PICK n \in Subtree(kids, p) : h \in InnerHosts(n)
      BY <1>5, OwnerOf
    <2>2. n \in Nodes
      BY <1>4, <2>1, ReachedFacts
    <2>3. n \in Range(f)
      BY <1>2, <1>5, <2>1, <2>2, Owned
    <2> QED BY <1>2, <1>4, <2>1, <2>3
  <1> QED BY <1>5

LEMMA DuplicateKeeps ==
    ASSUME TypeOK, DuplicateWidgets
    PROVE  Tree(kids') /\ Booked /\ UNCHANGED clip
  <1>1. PICK S \in Selections :
        LET copied == Below(kids, TopLevel(S))
            f == CHOOSE g \in FreshIds(copied) : TRUE
            doubled == [h \in Hosts |-> Spread(kids[h], Doubled(TopLevel(S), f))]
        IN /\ CanCopy(copied)
           /\ kids' = WithCopies(doubled, kids, f)
           /\ dirty' = dirty \cup SourcePages(TopLevel(S))
           /\ UNCHANGED clip
    BY DEF DuplicateWidgets
  <1> DEFINE T == TopLevel(S)
             B == Below(kids, T)
             f == CHOOSE g \in FreshIds(B) : TRUE
             doubled == [h \in Hosts |-> Spread(kids[h], Doubled(T, f))]
  <1>2. FreshIds(B) # {} /\ kids' = WithCopies(doubled, kids, f)
        /\ dirty' = dirty \cup SourcePages(T) /\ UNCHANGED clip
    BY <1>1 DEF CanCopy
  <1>3. Tree(kids) /\ Forest(kids) /\ KindsFit(kids) /\ Apart(kids) /\ Reached(kids) \subseteq Nodes
        /\ dirty \subseteq Pages \cap Reached(kids)
    BY TypeFacts
  <1>4. /\ T \subseteq Widgets \cap Reached(kids) /\ T \in SUBSET Nodes
        /\ \A h \in HostsOf(Below(kids, T)) : Range(kids[h]) \cap T = {}
    BY <1>3, TopLevelFacts
  <1> HIDE DEF T
  <1>5. B \in SUBSET Nodes /\ T \subseteq B
    BY <1>3, <1>4, BelowFacts
  <1>6. f \in FreshIds(B)
    BY <1>2
  <1> HIDE DEF f
  <1>7. Renames(f, B, kids)
    BY <1>5, <1>6, FreshAre
  <1>8. f \in [B -> Nodes \ Reached(kids)] /\ f \in [B -> Nodes]
    BY <1>7 DEF Renames, Injection
  <1>9. \A m, n \in B : f[m] = f[n] => m = n
    BY <1>7, <1>8 DEF Renames, Injection, IsInjective
  <1>10. ASSUME NEW h \in Hosts
         PROVE  /\ doubled[h] \in Seq(Nodes)
                /\ Range(doubled[h]) = Range(kids[h]) \cup {f[n] : n \in Range(kids[h]) \cap T}
                /\ Distinct(doubled[h])
                /\ Range(kids[h]) \cap T = {} => doubled[h] = kids[h]
    <2>1. kids[h] \in Seq(Nodes) /\ Distinct(kids[h])
      BY <1>3 DEF Forest, Apart
    <2>2. Range(kids[h]) \subseteq Reached(kids)
      BY <1>3, ReachedIsPlaced DEF Tree, Placed
    <2>3. (\A n \in B : f[n] \notin Range(kids[h])) /\ Range(kids[h]) \cap T \subseteq B
      BY <1>5, <1>8, <2>2
    <2>4. \A n \in T : f[n] # n
      BY <1>4, <1>5, <1>8
    <2>5. T \in SUBSET B
      BY <1>5
    <2>6. /\ Spread(kids[h], Doubled(T, f)) \in Seq(Nodes)
          /\ Range(Spread(kids[h], Doubled(T, f))) =
                Range(kids[h]) \cup {f[n] : n \in Range(kids[h]) \cap T}
          /\ Distinct(Spread(kids[h], Doubled(T, f)))
          /\ Range(kids[h]) \cap T = {} => Spread(kids[h], Doubled(T, f)) = kids[h]
      <3> DEFINE list == kids[h]
      <3>1. list \in Seq(Nodes) /\ Distinct(list) /\ B \in SUBSET Nodes /\ T \in SUBSET B
            /\ f \in [B -> Nodes] /\ (\A m, n \in B : f[m] = f[n] => m = n)
            /\ (\A n \in B : f[n] \notin Range(list)) /\ Range(list) \cap T \subseteq B
            /\ \A n \in T : f[n] # n
        BY <1>5, <1>8, <1>9, <2>1, <2>3, <2>4, <2>5
      <3> HIDE DEF list, B
      <3>2. /\ Spread(list, Doubled(T, f)) \in Seq(Nodes)
            /\ Range(Spread(list, Doubled(T, f))) =
                  Range(list) \cup Images(f, Range(list) \cap T)
            /\ Distinct(Spread(list, Doubled(T, f)))
            /\ Range(list) \cap T = {} => Spread(list, Doubled(T, f)) = list
        <4>1. /\ Spread(list, Doubled(T, f)) \in Seq(Nodes)
              /\ Range(Spread(list, Doubled(T, f))) =
                    Range(list) \cup Images(f, Range(list) \cap T)
              /\ Distinct(Spread(list, Doubled(T, f)))
          BY <3>1, DoubledList
        <4>2. ASSUME Range(list) \cap T = {} PROVE Spread(list, Doubled(T, f)) = list
          BY <3>1, <4>2, DoubledSame
        <4> QED BY <4>1, <4>2
      <3> QED BY <3>2 DEF list, Images
    <2> QED BY <2>6
  <1>11. Forest(doubled)
    BY <1>10 DEF Forest
  <1> HIDE DEF doubled
  <1>12. /\ Forest(kids')
         /\ \A h \in HostsOf(Range(f)) : h \in Hosts /\ kids'[h] = Renamed(f, kids[Copied(f, h)])
         /\ \A h \in Hosts \ HostsOf(Range(f)) : kids'[h] = doubled[h]
    BY <1>2, <1>3, <1>4, <1>7, <1>11, CopiesForest
  <1> DEFINE at == [m \in T |-> HostOf(kids, m)]
  <1>13. ASSUME NEW m \in T
         PROVE  /\ HostOf(kids, m) \in HostsIn(kids) /\ m \in Widgets
                /\ HostOf(kids, m) \notin PageHosts
    <2>1. /\ HostOf(kids, m) \in HostsIn(kids) /\ HostOf(kids, m) \in Hosts
          /\ m \in Range(kids[HostOf(kids, m)])
      BY <1>3, <1>4, PlaceOf
    <2>2. m \in Widgets /\ m \notin PageNodes
      BY <1>4, Kinds
    <2> QED BY <1>3, <2>1, <2>2 DEF KindsFit
  <1>14. at \in [T -> HostsIn(kids)]
    BY <1>13
  <1>15. ASSUME NEW h \in Hosts PROVE {m \in T : at[m] = h} = Range(kids[h]) \cap T
    BY <1>3, <1>4, PlaceOf
  <1>16. \A h \in Hosts \ HostsOf(Range(f)) :
             /\ Distinct(kids'[h])
             /\ Range(kids'[h]) = Range(kids[h]) \cup {f[m] : m \in {x \in T : at[x] = h}}
    BY <1>10, <1>12, <1>15
  <1>17. \A m \in T : /\ at[m] \in WidgetHosts => m \in Widgets
                      /\ at[m] \in PageHosts => m \in PageNodes
    BY <1>13
  <1> HIDE DEF at
  <1>18. Tree(kids') /\ Reached(kids) \subseteq Reached(kids')
    <2>1. \A h \in HostsOf(Range(f)) : kids'[h] = Renamed(f, kids[Copied(f, h)])
      BY <1>12
    <2>2. Forest(kids')
      BY <1>12
    <2> QED BY <1>3, <1>4, <1>7, <1>14, <1>16, <1>17, <2>1, <2>2, CopyTree
  <1>19. dirty' \subseteq Pages \cap Reached(kids')
    BY <1>2, <1>3, <1>18, SourceReached
  <1>20. ASSUME NEW p \in Pages \cap Reached(kids), p \notin dirty'
         PROVE  Under(kids', p) = Under(kids, p)
    <2>1. p \notin SourcePages(T) /\ p \in Nodes
      BY <1>2, <1>3, <1>20
    <2>2. ASSUME NEW h \in HostsOf(Subtree(kids, p)) PROVE kids'[h] = kids[h]
      <3>1. Range(kids[h]) \cap T = {}
        BY <1>3, <1>4, <2>1, NotASource
      <3>2. h \in Hosts
        BY <1>3, <2>1, PageHostsKnown
      <3>3. h \notin HostsOf(Range(f))
        BY <1>3, <1>5, <1>7, <2>1, CopiesElsewhere
      <3> QED BY <1>10, <1>12, <3>1, <3>2, <3>3
    <2> QED BY <1>3, <1>12, <2>1, <2>2, PageSame
  <1> QED BY <1>2, <1>18, <1>19, <1>20 DEF Booked

-----------------------------------------------------------------------------
(* The clipboard.                                                          *)

ClipTyped ==
    /\ clip \in [nodes : Seq(Nodes), tree : [Hosts -> Seq(Nodes)],
                 cut : BOOLEAN, count : 0..MaxClips]
    /\ clip.cut => clip.nodes # <<>>

(* A snapshot holds what lies below the batch, and nothing else.           *)
LEMMA SnapshotFacts ==
    ASSUME Tree(kids), NEW batch \in Seq(Nodes)
    PROVE  LET s == Snapshot(batch)
               B == Below(kids, Range(batch))
           IN /\ Forest(s) /\ KindsFit(s) /\ Apart(s)
              /\ Below(s, Range(batch)) = B
              /\ \A h \in HostsOf(B) : h \in Hosts /\ s[h] = kids[h]
  <1> DEFINE s == Snapshot(batch)
             B == Below(kids, Range(batch))
  <1>1. Forest(kids) /\ KindsFit(kids) /\ Apart(kids)
    BY DEF Tree
  <1>2. Range(batch) \in SUBSET Nodes
    BY RangeType
  <1>3. B \in SUBSET Nodes /\ HostsOf(B) \subseteq Hosts
    BY <1>1, <1>2, BelowFacts, HostsKnown
  <1>4. s = [h \in Hosts |-> IF h \in HostsOf(B) THEN kids[h] ELSE <<>>]
    BY DEF Snapshot
  <1>5. Range(<<>>) = {} /\ Distinct(<<>>)
    BY DEF Range, Distinct
  <1> HIDE DEF s
  <1>6. \A h \in HostsOf(B) : h \in Hosts /\ s[h] = kids[h]
    BY <1>3, <1>4
  <1>7. \A h \in Hosts \ HostsOf(B) : s[h] = <<>>
    BY <1>4
  <1>8. Forest(s)
    BY <1>1, <1>4 DEF Forest
  <1>9. \A h \in Hosts : Range(s[h]) \subseteq Range(kids[h]) /\ Distinct(s[h])
    BY <1>1, <1>5, <1>6, <1>7 DEF Apart
  <1>10. KindsFit(s) /\ Apart(s)
    BY <1>1, <1>9, Kinds DEF KindsFit, Apart
  <1>11. Below(s, Range(batch)) = B
    BY <1>1, <1>2, <1>6, <1>8, BelowAgrees
  <1> QED BY <1>6, <1>8, <1>10, <1>11 DEF s

LEMMA CopyOrCutKeeps ==
    ASSUME IInv, CopyOrCut
    PROVE  ClipTyped' /\ ClipInv' /\ UNCHANGED <<kids, dirty, steps>>
  <1>1. PICK batch \in (UNION {Batches(S) : S \in Selections}) \cup
                 {<<n>> : n \in PageNodes \cap Reached(kids)} : \E cut \in BOOLEAN :
            /\ clip.count < MaxClips
            /\ clip' = [nodes |-> batch, tree |-> Snapshot(batch), cut |-> cut,
                        count |-> clip.count + 1]
            /\ UNCHANGED <<kids, dirty, steps>>
    BY DEF CopyOrCut
  <1>2. PICK cut \in BOOLEAN :
            /\ clip.count < MaxClips
            /\ clip' = [nodes |-> batch, tree |-> Snapshot(batch), cut |-> cut,
                        count |-> clip.count + 1]
            /\ UNCHANGED <<kids, dirty, steps>>
    BY <1>1
  <1>3. Tree(kids) /\ Forest(kids) /\ Apart(kids) /\ Grounded(kids) /\ Reached(kids) \subseteq Nodes
    BY TypeFacts DEF IInv
  <1>4. /\ batch \in Seq(Nodes) /\ Distinct(batch) /\ batch # <<>>
        /\ Range(batch) \subseteq Widgets \/ Range(batch) \subseteq PageNodes
        /\ \A h \in HostsOf(Below(kids, Range(batch))) : Range(kids[h]) \cap Range(batch) = {}
    <2>1. CASE \E S \in Selections : batch \in Batches(S)
      <3>1. PICK S \in Selections : batch \in Batches(S)
        BY <2>1
      <3>2. /\ batch \in Seq(Nodes) /\ Distinct(batch) /\ batch # <<>>
            /\ Range(batch) = TopLevel(S)
        BY <1>3, <3>1, BatchFacts
      <3>3. /\ TopLevel(S) \subseteq Widgets
            /\ \A h \in HostsOf(Below(kids, TopLevel(S))) : Range(kids[h]) \cap TopLevel(S) = {}
        BY <1>3, TopLevelFacts
      <3> QED BY <3>2, <3>3
    <2>2. CASE \E n \in PageNodes \cap Reached(kids) : batch = <<n>>
      <3>1. PICK n \in PageNodes \cap Reached(kids) : batch = <<n>>
        BY <2>2
      <3>2. n \in Nodes
        BY <1>3
      <3>3. batch \in Seq(Nodes) /\ Distinct(batch) /\ batch # <<>> /\ Range(batch) = {n}
        BY <3>1, <3>2 DEF Range, Distinct
      <3>4. ASSUME NEW h \in HostsOf(Subtree(kids, n)) PROVE n \notin Range(kids[h])
        <4>1. h \in Hosts
          BY <1>3, <3>2, PageHostsKnown
        <4> QED BY <1>3, <3>2, <3>4, <4>1, NotBelowItself
      <3> QED BY <3>1, <3>3, <3>4 DEF Subtree
    <2>3. (\E S \in Selections : batch \in Batches(S))
          \/ \E n \in PageNodes \cap Reached(kids) : batch = <<n>>
      BY <1>1
    <2> QED BY <2>1, <2>2, <2>3
  <1>5. /\ Forest(Snapshot(batch)) /\ KindsFit(Snapshot(batch)) /\ Apart(Snapshot(batch))
        /\ Below(Snapshot(batch), Range(batch)) = Below(kids, Range(batch))
        /\ \A h \in HostsOf(Below(kids, Range(batch))) : Snapshot(batch)[h] = kids[h]
    BY <1>3, <1>4, SnapshotFacts
  <1>6. clip'.nodes = batch /\ clip'.tree = Snapshot(batch)
    BY <1>2
  <1>7. ClipInv'
    BY <1>4, <1>5, <1>6 DEF ClipInv, Clipped
  <1>8. ClipTyped'
    <2>1. clip.count + 1 \in 0..MaxClips
      BY <1>2, BoundsAssumption DEF IInv, TypeOK
    <2>2. Snapshot(batch) \in [Hosts -> Seq(Nodes)]
      BY <1>5 DEF Forest
    <2> QED BY <1>2, <1>4, <2>1, <2>2 DEF ClipTyped
  <1> QED BY <1>2, <1>7, <1>8

LEMMA ClearCutKeeps ==
    ASSUME IInv, clip' = [clip EXCEPT !.cut = FALSE]
    PROVE  ClipTyped' /\ ClipInv'
  <1>1. clip \in [nodes : Seq(Nodes), tree : [Hosts -> Seq(Nodes)],
                 cut : BOOLEAN, count : 0..MaxClips]
    BY DEF IInv, TypeOK
  <1>2. /\ clip' \in [nodes : Seq(Nodes), tree : [Hosts -> Seq(Nodes)],
                      cut : BOOLEAN, count : 0..MaxClips]
        /\ clip'.cut = FALSE /\ clip'.nodes = clip.nodes /\ clip'.tree = clip.tree
    BY <1>1
  <1> QED BY <1>2 DEF IInv, ClipInv, Clipped, ClipTyped

-----------------------------------------------------------------------------
(* Where a paste goes.                                                     *)

Moved == Range(clip.nodes)

LEMMA ClipFacts ==
    ASSUME IInv
    PROVE  /\ clip.nodes \in Seq(Nodes) /\ Distinct(clip.nodes) /\ Moved \in SUBSET Nodes
           /\ Moved \subseteq Widgets \/ Moved \subseteq PageNodes
           /\ Forest(clip.tree) /\ KindsFit(clip.tree) /\ Apart(clip.tree)
           /\ Clipped = Below(clip.tree, Moved) /\ Moved \subseteq Clipped /\ Clipped \in SUBSET Nodes
           /\ \A h \in HostsOf(Clipped) : Range(clip.tree[h]) \cap Moved = {}
  <1>1. clip.nodes \in Seq(Nodes) /\ clip.tree \in [Hosts -> Seq(Nodes)]
    BY DEF IInv, TypeOK
  <1>2. Moved \in SUBSET Nodes
    BY <1>1, RangeType DEF Moved
  <1>3. Forest(clip.tree)
    BY <1>1 DEF Forest
  <1>4. Clipped = Below(clip.tree, Moved)
    BY DEF Clipped, Moved
  <1>5. Moved \subseteq Clipped /\ Clipped \in SUBSET Nodes
    BY <1>2, <1>3, <1>4, BelowFacts
  <1> QED BY <1>1, <1>2, <1>3, <1>4, <1>5 DEF IInv, ClipInv, Moved

(* Where a paste may go.                                                   *)
Target(target) ==
    /\ target.host \in HostsIn(kids)
    /\ target.host \in WidgetHosts => Moved \subseteq Widgets
    /\ target.host \in PageHosts => Moved \subseteq PageNodes
    /\ target.behind => /\ target.row \in Reached(kids) /\ target.host = HostOf(kids, target.row)
                        /\ target.row \in Range(kids[target.host])
    /\ ~target.behind => target.host = target.row
    /\ target.behind \in BOOLEAN

LEMMA TargetFacts ==
    ASSUME IInv, NEW target \in AcceptedTargets
    PROVE  Target(target)
  <1>1. TypeOK /\ Tree(kids) /\ Forest(kids) /\ Reached(kids) \subseteq Nodes
    BY TypeFacts DEF IInv
  <1>2. Moved \subseteq Widgets \/ Moved \subseteq PageNodes
    BY ClipFacts
  <1>3. ASSUME NEW h \in WidgetHosts \cap HostsIn(kids), target = Into(h), Moved \subseteq Widgets
        PROVE  Target(target)
    BY <1>3, Kinds DEF Into, Target
  <1>4. ASSUME NEW h \in PageHosts \cap HostsIn(kids), target = Into(h), Moved \subseteq PageNodes
        PROVE  Target(target)
    BY <1>4, Kinds DEF Into, Target
  <1>5. ASSUME NEW n \in Reached(kids), target = Behind(n),
               \/ n \in Widgets /\ Moved \subseteq Widgets
               \/ n \in PageNodes /\ Moved \subseteq PageNodes
        PROVE  Target(target)
    <2>1. target.host = HostOf(kids, n) /\ target.row = n /\ target.behind = TRUE
      BY <1>5 DEF Behind
    <2>2. /\ HostOf(kids, n) \in HostsIn(kids)
          /\ n \in Widgets => HostOf(kids, n) \in WidgetHosts
          /\ n \in PageNodes => HostOf(kids, n) \in PageHosts
      BY <1>1, BesideTarget
    <2>3. n \in Range(kids[HostOf(kids, n)])
      BY <1>1, PlaceOf
    <2>4. HostOf(kids, n) \in WidgetHosts => Moved \subseteq Widgets
      BY <1>5, <2>2, Kinds
    <2>5. HostOf(kids, n) \in PageHosts => Moved \subseteq PageNodes
      BY <1>5, <2>2, Kinds
    <2> QED BY <2>1, <2>2, <2>3, <2>4, <2>5 DEF Target
  <1>6. CASE Moved \subseteq Widgets
    <2>1. \/ \E h \in WidgetHosts \cap HostsIn(kids) : target = Into(h)
          \/ \E w \in (Widgets \ Containers) \cap Reached(kids) : target = Behind(w)
      BY <1>6 DEF AcceptedTargets, Moved
    <2>2. CASE \E h \in WidgetHosts \cap HostsIn(kids) : target = Into(h)
      BY <1>3, <1>6, <2>2
    <2>3. CASE \E w \in (Widgets \ Containers) \cap Reached(kids) : target = Behind(w)
      <3>1. PICK w \in (Widgets \ Containers) \cap Reached(kids) : target = Behind(w)
        BY <2>3
      <3>2. /\ w \in Reached(kids)
            /\ \/ w \in Widgets /\ Moved \subseteq Widgets
               \/ w \in PageNodes /\ Moved \subseteq PageNodes
        BY <1>6
      <3> QED BY <1>5, <3>1, <3>2
    <2> QED BY <2>1, <2>2, <2>3
  <1>7. CASE ~(Moved \subseteq Widgets)
    <2>1. \/ \E h \in PageHosts \cap HostsIn(kids) : target = Into(h)
          \/ \E p \in Pages \cap Reached(kids) : target = Behind(p)
      BY <1>7 DEF AcceptedTargets, Moved
    <2>2. Moved \subseteq PageNodes
      BY <1>2, <1>7
    <2> QED BY <1>4, <1>5, <2>1, <2>2 DEF PageNodes
  <1> QED BY <1>6, <1>7

(* The place after a row, or the end.                                      *)
PlaceIn(list, target) ==
    IF target.behind THEN CHOOSE i \in 1..Len(list) : list[i] = target.row ELSE Len(list)

LEMMA PlaceFacts ==
    ASSUME NEW list \in Seq(Nodes), NEW target, target.behind => target.row \in Range(list)
    PROVE  /\ PlaceIn(list, target) \in 0..Len(list)
           /\ target.behind => /\ PlaceIn(list, target) \in 1..Len(list)
                               /\ list[PlaceIn(list, target)] = target.row
  <1>1. target.behind => \E i \in 1..Len(list) : list[i] = target.row
    BY RangeType
  <1> QED BY <1>1 DEF PlaceIn

(* What was cut is still what is in the tree: taking it out and putting it *)
(* back elsewhere is a move.                                               *)
LEMMA PasteIsMove ==
    ASSUME StaleCuts = FALSE, IInv, NEW target \in AcceptedTargets, Moved \subseteq Reached(kids),
           target.row \notin Clipped,
           Stale => StaleCuts /\ target.row \notin Below(kids, Clipped)
    PROVE  LET removed == Cleared(Without(kids, Moved), Below(kids, Moved))
               back == [h \in Hosts |->
                           IF h \in HostsOf(Clipped) THEN clip.tree[h] ELSE removed[h]]
           IN /\ back = Without(kids, Moved)
              /\ target.host \notin HostsOf(Below(kids, Moved))
              /\ target.behind => target.row \in Range(Without(kids, Moved)[target.host])
              /\ Landed(back, target, clip.nodes) =
                     Inserted(Without(kids, Moved), target.host,
                              PlaceIn(Without(kids, Moved)[target.host], target), clip.nodes)
  <1> DEFINE D == Below(kids, Moved)
             less == Without(kids, Moved)
             removed == Cleared(less, D)
             back == [h \in Hosts |-> IF h \in HostsOf(Clipped) THEN clip.tree[h] ELSE removed[h]]
  <1>1. Tree(kids) /\ Forest(kids) /\ KindsFit(kids) /\ Reached(kids) \subseteq Nodes
    BY TypeFacts DEF IInv
  <1>2. /\ clip.nodes \in Seq(Nodes) /\ Moved \in SUBSET Nodes
        /\ Moved \subseteq Widgets \/ Moved \subseteq PageNodes
        /\ Clipped = Below(clip.tree, Moved) /\ Moved \subseteq Clipped
        /\ \A h \in HostsOf(Clipped) : Range(clip.tree[h]) \cap Moved = {}
    BY ClipFacts
  <1>3. Snapshot(clip.nodes) = clip.tree
    BY DEF Stale
  <1>4. /\ Clipped = D
        /\ \A h \in HostsOf(D) : h \in Hosts /\ clip.tree[h] = kids[h]
    <2>1. /\ Below(Snapshot(clip.nodes), Range(clip.nodes)) = Below(kids, Range(clip.nodes))
          /\ \A h \in HostsOf(Below(kids, Range(clip.nodes))) :
                h \in Hosts /\ Snapshot(clip.nodes)[h] = kids[h]
      BY <1>1, <1>2, SnapshotFacts
    <2> QED BY <1>2, <1>3, <2>1 DEF Moved
  <1>5. ASSUME NEW h \in HostsOf(D) PROVE less[h] = kids[h]
    <2>1. h \in Hosts /\ kids[h] \in Seq(Nodes) /\ Range(kids[h]) \cap Moved = {}
      BY <1>1, <1>2, <1>4, <1>5 DEF Forest
    <2> QED BY <2>1, WithoutSame DEF Without
  <1>6. less = [h \in Hosts |-> less[h]] /\ Forest(less)
    BY <1>1, WithoutFacts DEF Without
  <1>7. removed = [h \in Hosts |-> IF h \in HostsOf(D) THEN <<>> ELSE less[h]]
    BY DEF Cleared
  <1> HIDE DEF less, removed, D
  <1>8. back = less
    <2>1. \A h \in Hosts : back[h] = less[h]
      BY <1>4, <1>5, <1>7
    <2>2. back = [h \in Hosts |-> back[h]]
      OBVIOUS
    <2> HIDE DEF back
    <2>3. [h \in Hosts |-> back[h]] = [h \in Hosts |-> less[h]]
      BY <2>1
    <2> QED BY <1>6, <2>2, <2>3, Zenon
  <1>9. Target(target)
    BY TargetFacts
  <1>10. target.row \notin D
    BY <1>4
  <1>11. ASSUME target.host \in HostsOf(D) PROVE FALSE
    <2>1. D \in SUBSET Nodes
      BY <1>1, <1>2, BelowFacts DEF D
    <2>2. PICK n \in D : target.host \in InnerHosts(n)
      BY <1>11, OwnerOf
    <2>3. CASE target.behind
      <3>1. Range(kids[target.host]) \subseteq D
        BY <1>1, <1>2, <1>11, BelowClosed DEF D
      <3> QED BY <1>9, <1>10, <2>3, <3>1 DEF Target
    <2>4. CASE ~target.behind
      <3>1. target.host = target.row
        BY <1>9, <2>4 DEF Target
      <3>2. target.host # n
        BY <1>10, <2>2, <3>1
      <3>3. n \in Groups /\ target.host = Chrome[n] /\ target.host \in ChromeAreas
        BY <2>1, <2>2, <3>2, Kinds DEF PageNodes, Nodes
      <3>4. target.host \in WidgetHosts
        BY <3>3 DEF WidgetHosts
      <3>5. D \subseteq Widgets
        <4>1. Moved \in SUBSET Widgets
          BY <1>9, <3>4 DEF Target
        <4> QED BY <1>1, <4>1, BelowWidgets DEF D
      <3> QED BY <2>2, <3>3, <3>5, Kinds DEF PageNodes, Nodes
    <2> QED BY <1>9, <2>3, <2>4 DEF Target
  <1>12. target.behind => target.row \in Range(less[target.host])
    <2>1. target.host \in Hosts
      BY <1>1, <1>9, ReachedFacts DEF Target
    <2>2. Range(less[target.host]) = Range(kids[target.host]) \ Moved
      BY <1>1, <2>1, WithoutFacts DEF less
    <2>3. target.row \notin Moved
      BY <1>2
    <2> QED BY <1>9, <2>2, <2>3 DEF Target
  <1>13. Landed(back, target, clip.nodes) =
             Inserted(less, target.host, PlaceIn(less[target.host], target), clip.nodes)
    <2>1. Landed(less, target, clip.nodes) =
              Inserted(less, target.host, PlaceIn(less[target.host], target), clip.nodes)
      BY DEF Landed, PlaceIn
    <2> HIDE DEF back
    <2> QED BY <1>8, <2>1
  <1> QED BY <1>8, <1>11, <1>12, <1>13 DEF D, less, removed

-----------------------------------------------------------------------------
(* Pasting.                                                                *)

LEMMA PasteMoveKeeps ==
    ASSUME StaleCuts = FALSE, IInv, PasteMove
    PROVE  /\ Tree(kids') /\ Reached(kids') = Reached(kids) /\ Booked
           /\ ClipTyped' /\ ClipInv'
           /\ clip.nodes \in Seq(Nodes) /\ Distinct(clip.nodes) /\ Moved \subseteq Reached(kids)
           /\ \E target \in AcceptedTargets :
                 /\ last' = [kind |-> "move", batch |-> clip.nodes, over |-> target.row,
                             after |-> TRUE]
                 /\ target.host \in HostsIn(kids) /\ target.host \in Hosts
                 /\ target.host \notin HostsOf(Below(kids, Moved))
                 /\ target.behind => target.row \in Range(Without(kids, Moved)[target.host])
                 /\ kids' = Inserted(Without(kids, Moved), target.host,
                                PlaceIn(Without(kids, Moved)[target.host], target), clip.nodes)
  <1>1. PICK target \in AcceptedTargets :
        LET removed == Cleared(Without(kids, Moved), Below(kids, Moved))
            back == [h \in Hosts |->
                        IF h \in HostsOf(Clipped) THEN clip.tree[h] ELSE removed[h]]
            after == Landed(back, target, clip.nodes)
            owners == IF Moved \subseteq Widgets THEN SourcePages(Moved) ELSE {}
        IN /\ target.row \notin Clipped
           /\ Stale => StaleCuts /\ target.row \notin Below(kids, Clipped)
           /\ Step([kind |-> "move", batch |-> clip.nodes, over |-> target.row,
                    after |-> TRUE])
           /\ kids' = after
           /\ dirty' = (dirty \ UNION {PagesUnder(kids, n) : n \in Moved})
                       \cup owners \cup InsertMarks(clip.nodes, kids, target)
                       \cup KeptPages(after)
           /\ clip' = [clip EXCEPT !.cut = FALSE]
    BY DEF PasteMove, Moved
  <1> DEFINE removed == Cleared(Without(kids, Moved), Below(kids, Moved))
             back == [h \in Hosts |->
                        IF h \in HostsOf(Clipped) THEN clip.tree[h] ELSE removed[h]]
             less == Without(kids, Moved)
             host == target.host
             at == PlaceIn(less[host], target)
             owners == IF Moved \subseteq Widgets THEN SourcePages(Moved) ELSE {}
             marks == InsertMarks(clip.nodes, kids, target)
  <1>2. Moved \subseteq Reached(kids)
    BY DEF PasteMove, IsCutMove, Moved
  <1>3. /\ back = less
        /\ host \notin HostsOf(Below(kids, Moved))
        /\ target.behind => target.row \in Range(less[host])
        /\ Landed(back, target, clip.nodes) = Inserted(less, host, at, clip.nodes)
    BY <1>1, <1>2, PasteIsMove
  <1>4. /\ kids' = Inserted(less, host, at, clip.nodes)
        /\ dirty' = (dirty \ UNION {PagesUnder(kids, n) : n \in Moved})
                     \cup owners \cup marks \cup KeptPages(kids')
    BY <1>1, <1>3
  <1>5. /\ clip' = [clip EXCEPT !.cut = FALSE]
        /\ last' = [kind |-> "move", batch |-> clip.nodes, over |-> target.row, after |-> TRUE]
    BY <1>1 DEF Step
  <1>6. /\ TypeOK /\ Tree(kids) /\ Forest(kids) /\ Reached(kids) \subseteq Nodes
        /\ dirty \subseteq Pages \cap Reached(kids)
    BY TypeFacts DEF IInv
  <1>7. /\ clip.nodes \in Seq(Nodes) /\ Distinct(clip.nodes)
        /\ Moved \subseteq Widgets \/ Moved \subseteq PageNodes
    BY ClipFacts
  <1>8. Target(target)
    BY TargetFacts
  <1>9. host \in HostsIn(kids) /\ host \in Hosts
    BY <1>6, <1>8, ReachedFacts DEF Target
  <1>10. less[host] \in Seq(Nodes)
    <2>1. Forest(less)
      BY <1>6, WithoutFacts
    <2> QED BY <1>9, <2>1 DEF Forest
  <1> HIDE DEF removed, back, less, owners, marks
  <1>11. at \in Nat
    BY <1>3, <1>10, PlaceFacts
  <1> HIDE DEF at
  <1>12. /\ (host \in WidgetHosts => Moved \subseteq Widgets)
         /\ (host \in PageHosts => Moved \subseteq PageNodes)
         /\ (host \in WidgetHosts \/ host \in PageHosts)
    BY <1>8, <1>9, Kinds DEF Target
  <1>13. Range(clip.nodes) = Moved
    BY DEF Moved
  <1>14. Tree(kids') /\ Reached(kids') = Reached(kids)
    <2>1. kids' = Inserted(Without(kids, Range(clip.nodes)), host, at, clip.nodes)
          /\ host \notin HostsOf(Below(kids, Range(clip.nodes)))
      BY <1>3, <1>4, <1>13 DEF less
    <2> QED BY <1>2, <1>6, <1>7, <1>9, <1>11, <1>12, <1>13, <2>1, MoveLists
  <1>15. dirty \subseteq dirty' /\ owners \subseteq dirty' /\ marks \subseteq dirty'
    BY <1>4, <1>6, <1>14 DEF KeptPages
  <1>16. owners \subseteq Pages \cap Reached(kids)
    BY SourceReached DEF owners
  <1>17. marks \subseteq Pages \cap Reached(kids)
    BY <1>2, <1>13, OwningReached DEF marks, InsertMarks
  <1>18. dirty' \subseteq Pages \cap Reached(kids)
    BY <1>4, <1>6, <1>16, <1>17 DEF KeptPages
  <1>19. Booked
    <2>1. kids' = Inserted(Without(kids, Range(clip.nodes)), host, at, clip.nodes)
          /\ host \notin HostsOf(Below(kids, Range(clip.nodes)))
      BY <1>3, <1>4, <1>13 DEF less
    <2>2. CASE host \in WidgetHosts
      <3>1. Moved \subseteq Widgets
        BY <1>12, <2>2
      <3>2. owners = SourcePages(Range(clip.nodes)) /\ OwningPages(kids, host) \subseteq marks
        BY <1>13, <3>1 DEF owners, marks, InsertMarks
      <3>3. dirty \cup SourcePages(Range(clip.nodes)) \cup OwningPages(kids, host) \subseteq dirty'
        BY <1>15, <3>2
      <3>4. Range(clip.nodes) \subseteq Widgets \cap Reached(kids)
        BY <1>2, <1>13, <3>1
      <3> QED BY <1>6, <1>7, <1>9, <1>11, <1>18, <2>1, <2>2, <3>3, <3>4, WidgetsMove
    <2>3. CASE host \in PageHosts
      <3>1. Range(clip.nodes) \subseteq PageNodes \cap Reached(kids)
        BY <1>2, <1>12, <1>13, <2>3
      <3> QED BY <1>6, <1>7, <1>9, <1>11, <1>15, <1>18, <2>1, <2>3, <3>1, PagesMove
    <2> QED BY <1>12, <2>2, <2>3
  <1>20. ClipTyped' /\ ClipInv'
    BY <1>5, ClearCutKeeps
  <1> QED BY <1>2, <1>3, <1>4, <1>5, <1>7, <1>9, <1>14, <1>19, <1>20 DEF less, at

LEMMA PasteCopyKeeps ==
    ASSUME IInv, PasteCopy
    PROVE  Tree(kids') /\ Booked /\ UNCHANGED clip
  <1>1. PICK target \in AcceptedTargets :
        LET f == CHOOSE g \in FreshIds(Clipped) : TRUE
            nodes == Renamed(f, clip.nodes)
        IN /\ CanCopy(Clipped)
           /\ kids' = Landed(WithCopies(kids, clip.tree, f), target, nodes)
           /\ dirty' = dirty \cup InsertMarks(nodes, kids, target)
           /\ UNCHANGED clip
    BY DEF PasteCopy
  <1> DEFINE f == CHOOSE g \in FreshIds(Clipped) : TRUE
             nodes == Renamed(f, clip.nodes)
             with == WithCopies(kids, clip.tree, f)
             host == target.host
             at == PlaceIn(with[host], target)
             B == Clipped
             M == Moved
  <1>2. /\ FreshIds(B) # {} /\ kids' = Landed(with, target, nodes)
        /\ dirty' = dirty \cup InsertMarks(nodes, kids, target) /\ UNCHANGED clip
    BY <1>1 DEF CanCopy
  <1>3. f \in FreshIds(B)
    BY <1>2
  <1> HIDE DEF f
  <1>4. /\ TypeOK /\ Tree(kids) /\ Forest(kids) /\ Apart(kids) /\ Reached(kids) \subseteq Nodes
        /\ dirty \subseteq Pages \cap Reached(kids)
    BY TypeFacts DEF IInv
  <1>5. /\ clip.nodes \in Seq(Nodes) /\ Distinct(clip.nodes) /\ M \in SUBSET Nodes
        /\ M \subseteq Widgets \/ M \subseteq PageNodes
        /\ Forest(clip.tree) /\ KindsFit(clip.tree) /\ Apart(clip.tree)
        /\ B = Below(clip.tree, M) /\ M \subseteq B /\ B \in SUBSET Nodes
        /\ \A h \in HostsOf(B) : Range(clip.tree[h]) \cap M = {}
    BY ClipFacts
  <1>6. Range(clip.nodes) = M
    BY DEF Moved
  <1> HIDE DEF B, M
  <1>7. Renames(f, B, kids)
    BY <1>3, <1>5, FreshAre
  <1>8. f \in [B -> Nodes \ Reached(kids)] /\ f \in [B -> Nodes]
    BY <1>7 DEF Renames, Injection
  <1>9. \A m, n \in B : f[m] = f[n] => m = n
    BY <1>7, <1>8 DEF Renames, Injection, IsInjective
  <1>10. nodes \in Seq(Nodes) /\ Range(nodes) = {f[m] : m \in M} /\ Distinct(nodes)
    BY <1>5, <1>6, <1>8, <1>9, RenamedFacts
  <1>11. /\ Forest(with)
         /\ \A h \in HostsOf(Range(f)) : h \in Hosts /\ with[h] = Renamed(f, clip.tree[Copied(f, h)])
         /\ \A h \in Hosts \ HostsOf(Range(f)) : with[h] = kids[h]
    BY <1>4, <1>5, <1>7, CopiesForest
  <1> HIDE DEF with, nodes
  <1>12. Target(target)
    BY TargetFacts
  <1>13. host \in HostsIn(kids) /\ host \in Hosts
    BY <1>4, <1>12, ReachedFacts DEF Target
  <1>14. host \notin HostsOf(Range(f))
    <2> SUFFICES ASSUME host \in HostsOf(Range(f)) PROVE FALSE
      OBVIOUS
    <2>1. Range(f) \in SUBSET Nodes /\ Range(f) \cap Reached(kids) = {}
      BY <1>8 DEF Range
    <2>2. host \in HostsOf(Reached(kids))
      BY <1>13, <2>1, HostsInAre, TopsNotOwned
    <2>3. PICK n \in Reached(kids) : host \in InnerHosts(n)
      BY <2>2, OwnerOf
    <2>4. n \in Range(f)
      BY <1>4, <2>1, <2>3, Owned
    <2> QED BY <2>1, <2>4
  <1>15. with[host] = kids[host] /\ with[host] \in Seq(Nodes)
    BY <1>11, <1>13, <1>14 DEF Forest
  <1>16. at \in Nat
    <2>1. target.behind => target.row \in Range(with[host])
      BY <1>12, <1>15 DEF Target
    <2> QED BY <1>15, <2>1, PlaceFacts
  <1>17. kids' = Inserted(with, host, at, nodes)
    BY <1>2 DEF Landed, PlaceIn
  <1> HIDE DEF at
  <1>18. /\ Forest(kids') /\ kids'[host] = Splice(with[host], at, nodes)
         /\ \A h \in Hosts \ {host} : kids'[h] = with[h]
    BY <1>10, <1>11, <1>13, <1>16, <1>17, InsertedFacts
  <1>19. Range(kids[host]) \subseteq Reached(kids) /\ Distinct(kids[host])
    BY <1>4, <1>13, ReachedFacts DEF Apart
  <1>20. Range(kids[host]) \cap Range(nodes) = {}
    BY <1>5, <1>8, <1>10, <1>19
  <1>21. Range(kids'[host]) = Range(kids[host]) \cup Range(nodes) /\ Distinct(kids'[host])
    <2>1. /\ Range(Splice(kids[host], at, nodes)) = Range(kids[host]) \cup Range(nodes)
          /\ Distinct(Splice(kids[host], at, nodes))
      BY <1>10, <1>15, <1>16, <1>19, <1>20, SpliceFacts
    <2> QED BY <1>15, <1>18, <2>1
  <1> DEFINE put == [m \in M |-> host]
  <1>22. /\ put \in [M -> HostsIn(kids)]
         /\ \A m \in M : /\ put[m] \in WidgetHosts => m \in Widgets
                         /\ put[m] \in PageHosts => m \in PageNodes
    BY <1>12, <1>13 DEF Target, M
  <1>23. \A h \in HostsOf(Range(f)) : kids'[h] = Renamed(f, clip.tree[Copied(f, h)])
    BY <1>11, <1>14, <1>18
  <1>24. ASSUME NEW h \in Hosts \ HostsOf(Range(f))
         PROVE  /\ Distinct(kids'[h])
                /\ Range(kids'[h]) = Range(kids[h]) \cup {f[m] : m \in {x \in M : put[x] = h}}
    <2>1. CASE h = host
      <3>1. {x \in M : put[x] = h} = M
        BY <2>1
      <3> QED BY <1>10, <1>21, <2>1, <3>1
    <2>2. CASE h # host
      <3>1. {x \in M : put[x] = h} = {}
        BY <2>2
      <3>2. kids'[h] = kids[h]
        BY <1>11, <1>18, <2>2
      <3> QED BY <1>4, <3>1, <3>2 DEF Apart
    <2> QED BY <2>1, <2>2
  <1> HIDE DEF put
  <1>25. Tree(kids') /\ Reached(kids) \subseteq Reached(kids') /\ {f[m] : m \in M} \subseteq Reached(kids')
    <2>1. /\ Tree(kids) /\ Forest(clip.tree) /\ KindsFit(clip.tree) /\ Apart(clip.tree)
          /\ M \in SUBSET Nodes /\ B = Below(clip.tree, M) /\ Renames(f, B, kids) /\ Forest(kids')
          /\ \A h \in HostsOf(B) : Range(clip.tree[h]) \cap M = {}
      BY <1>4, <1>5, <1>7, <1>18
    <2>2. \A h \in Hosts \ HostsOf(Range(f)) :
              /\ Distinct(kids'[h])
              /\ Range(kids'[h]) = Range(kids[h]) \cup {f[m] : m \in {x \in M : put[x] = h}}
      BY <1>24
    <2> DEFINE from == clip.tree
    <2>3. /\ Forest(from) /\ KindsFit(from) /\ Apart(from) /\ B = Below(from, M)
          /\ \A h \in HostsOf(B) : Range(from[h]) \cap M = {}
          /\ \A h \in HostsOf(Range(f)) : kids'[h] = Renamed(f, from[Copied(f, h)])
      BY <1>23, <2>1
    <2> HIDE DEF from
    <2> QED BY <1>22, <2>1, <2>2, <2>3, CopyTree
  <1>26. dirty' \subseteq Pages \cap Reached(kids')
    <2>1. InsertMarks(nodes, kids, target) \subseteq Pages \cap Reached(kids')
      BY <1>10, <1>25, OwningReached DEF InsertMarks
    <2> QED BY <1>2, <1>4, <1>25, <2>1
  <1>27. ASSUME NEW p \in Pages \cap Reached(kids), p \notin dirty'
         PROVE  Under(kids', p) = Under(kids, p)
    <2>1. p \notin InsertMarks(nodes, kids, target) /\ p \in Nodes
      BY <1>2, <1>4, <1>27
    <2>2. host \notin HostsOf(Subtree(kids, p))
      <3>1. CASE Range(nodes) \subseteq Widgets
        BY <1>27, <2>1, <3>1 DEF InsertMarks, OwningPages
      <3>2. CASE ~(Range(nodes) \subseteq Widgets)
        <4>1. PICK m \in M : f[m] \notin Widgets
          BY <1>10, <3>2
        <4>2. m \notin Widgets
          <5>1. \A n \in B : n \in Widgets <=> f[n] \in Widgets
            <6>1. B \in SUBSET Nodes /\ Renames(f, B, kids)
              BY <1>5, <1>7
            <6> QED BY <6>1, RenamesFacts, SMTT(30)
          <5> QED BY <1>5, <4>1, <5>1
        <4>3. host \notin WidgetHosts
          BY <1>12, <4>2 DEF Target, M
        <4> QED BY <1>4, <4>3, PageLists
      <3> QED BY <3>1, <3>2
    <2>3. HostsOf(Subtree(kids, p)) \cap HostsOf(Range(f)) = {}
      BY <1>4, <1>5, <1>7, <1>27, <2>1, CopiesElsewhere
    <2>4. ASSUME NEW h \in HostsOf(Subtree(kids, p)) PROVE kids'[h] = kids[h]
      <3>1. h \in Hosts /\ h # host /\ h \notin HostsOf(Range(f))
        BY <1>4, <2>1, <2>2, <2>3, PageHostsKnown
      <3> QED BY <1>11, <1>18, <3>1
    <2> QED BY <1>4, <1>18, <2>1, <2>4, PageSame
  <1> QED BY <1>2, <1>25, <1>26, <1>27 DEF Booked

-----------------------------------------------------------------------------
(* Every step, and the theorems.                                           *)

(* What every step of Next does.                                           *)
Kept ==
    /\ Tree(kids') /\ Booked
    /\ ClipTyped' /\ ClipInv'
    /\ steps' \in 0..MaxSteps
    /\ last'.kind = "move" => Reached(kids') = Reached(kids)

LEMMA ClipSame ==
    ASSUME IInv, UNCHANGED clip
    PROVE  ClipTyped' /\ ClipInv'
  BY DEF IInv, TypeOK, ClipTyped, ClipInv, Clipped

LEMMA Counted ==
    ASSUME IInv, steps < MaxSteps, NEW what, Step(what)
    PROVE  steps' \in 0..MaxSteps /\ last' = what
  BY BoundsAssumption DEF IInv, TypeOK, Step

LEMMA SameBooks ==
    ASSUME TypeOK, UNCHANGED <<kids, dirty>>
    PROVE  Tree(kids') /\ Booked
  BY TypeFacts DEF Booked

LEMMA MovesStep ==
    ASSUME DragWidgets \/ DragPage
    PROVE  \E what : Step(what)
  BY DEF DragWidgets, DragPage, DropBeside, DropInto, MoveWidgetsTo, MovePageTo

LEMMA NextKeeps ==
    ASSUME StaleCuts = FALSE, IInv, Next
    PROVE  Kept
  <1>1. TypeOK /\ steps < MaxSteps
    BY DEF IInv, Next
  <1>2. CASE DragWidgets
    <2>1. Tree(kids') /\ Reached(kids') = Reached(kids) /\ Booked /\ UNCHANGED clip
      BY <1>1, <1>2, DragWidgetsKeeps
    <2>2. steps' \in 0..MaxSteps
      BY <1>1, <1>2, MovesStep, Counted
    <2> QED BY <2>1, <2>2, ClipSame DEF Kept
  <1>3. CASE DragPage
    <2>1. Tree(kids') /\ Reached(kids') = Reached(kids) /\ Booked /\ UNCHANGED clip
      BY <1>1, <1>3, DragPageKeeps
    <2>2. steps' \in 0..MaxSteps
      BY <1>1, <1>3, MovesStep, Counted
    <2> QED BY <2>1, <2>2, ClipSame DEF Kept
  <1>4. CASE AddWidget
    <2>1. Tree(kids') /\ Booked /\ UNCHANGED clip
      BY <1>1, <1>4, AddWidgetKeeps
    <2>2. Step([kind |-> "add"])
      BY <1>4 DEF AddWidget
    <2>3. steps' \in 0..MaxSteps /\ last'.kind # "move"
      BY <1>1, <2>2, Counted
    <2> QED BY <2>1, <2>3, ClipSame DEF Kept
  <1>5. CASE AddPageNode
    <2>1. Tree(kids') /\ Booked /\ UNCHANGED clip
      BY <1>1, <1>5, AddPageNodeKeeps
    <2>2. Step([kind |-> "add"])
      BY <1>5 DEF AddPageNode
    <2>3. steps' \in 0..MaxSteps /\ last'.kind # "move"
      BY <1>1, <2>2, Counted
    <2> QED BY <2>1, <2>3, ClipSame DEF Kept
  <1>6. CASE DeleteWidgets
    <2>1. Tree(kids') /\ Booked /\ UNCHANGED clip
      BY <1>1, <1>6, DeleteWidgetsKeeps
    <2>2. Step([kind |-> "delete"])
      BY <1>6 DEF DeleteWidgets
    <2>3. steps' \in 0..MaxSteps /\ last'.kind # "move"
      BY <1>1, <2>2, Counted
    <2> QED BY <2>1, <2>3, ClipSame DEF Kept
  <1>7. CASE DeletePageNode
    <2>1. Tree(kids') /\ Booked /\ UNCHANGED clip
      BY <1>1, <1>7, DeletePageNodeKeeps
    <2>2. Step([kind |-> "delete"])
      BY <1>7 DEF DeletePageNode
    <2>3. steps' \in 0..MaxSteps /\ last'.kind # "move"
      BY <1>1, <2>2, Counted
    <2> QED BY <2>1, <2>3, ClipSame DEF Kept
  <1>8. CASE DuplicateWidgets
    <2>1. Tree(kids') /\ Booked /\ UNCHANGED clip
      BY <1>1, <1>8, DuplicateKeeps
    <2>2. Step([kind |-> "copy"])
      BY <1>8 DEF DuplicateWidgets
    <2>3. steps' \in 0..MaxSteps /\ last'.kind # "move"
      BY <1>1, <2>2, Counted
    <2> QED BY <2>1, <2>3, ClipSame DEF Kept
  <1>9. CASE CopyOrCut
    <2>1. ClipTyped' /\ ClipInv' /\ UNCHANGED <<kids, dirty, steps>>
      BY <1>9, CopyOrCutKeeps
    <2>2. Tree(kids') /\ Booked /\ steps' \in 0..MaxSteps
      BY <1>1, <2>1, SameBooks DEF TypeOK
    <2>3. last'.kind # "move"
      BY <1>9 DEF CopyOrCut, Nothing
    <2> QED BY <2>1, <2>2, <2>3 DEF Kept
  <1>10. CASE ClearCut
    <2>1. UNCHANGED <<kids, dirty, steps>> /\ clip' = [clip EXCEPT !.cut = FALSE] /\ last' = Nothing
      BY <1>10 DEF ClearCut
    <2>2. ClipTyped' /\ ClipInv'
      BY <2>1, ClearCutKeeps
    <2>3. Tree(kids') /\ Booked /\ steps' \in 0..MaxSteps
      BY <1>1, <2>1, SameBooks DEF TypeOK
    <2> QED BY <2>1, <2>2, <2>3 DEF Kept, Nothing
  <1>11. CASE PasteMove
    <2>1. Tree(kids') /\ Reached(kids') = Reached(kids) /\ Booked /\ ClipTyped' /\ ClipInv'
      BY <1>11, PasteMoveKeeps
    <2>2. \E what : Step(what)
      BY <1>11 DEF PasteMove
    <2>3. steps' \in 0..MaxSteps
      BY <1>1, <2>2, Counted
    <2> QED BY <2>1, <2>3 DEF Kept
  <1>12. CASE PasteCopy
    <2>1. Tree(kids') /\ Booked /\ UNCHANGED clip
      BY <1>12, PasteCopyKeeps
    <2>2. Step([kind |-> "copy"])
      BY <1>12 DEF PasteCopy
    <2>3. steps' \in 0..MaxSteps /\ last'.kind # "move"
      BY <1>1, <2>2, Counted
    <2> QED BY <2>1, <2>3, ClipSame DEF Kept
  <1> QED
    BY <1>2, <1>3, <1>4, <1>5, <1>6, <1>7, <1>8, <1>9, <1>10, <1>11, <1>12 DEF Next

LEMMA InitKeeps ==
    ASSUME Init
    PROVE  IInv
  <1>1. kids = Start /\ dirty = StartDirty /\ clip = EmptyClip /\ steps = 0
    BY DEF Init
  <1>2. Range(<<>>) = {} /\ Distinct(<<>>)
    BY DEF Range, Distinct
  <1>3. EmptyClip \in [nodes : Seq(Nodes), tree : [Hosts -> Seq(Nodes)],
                       cut : BOOLEAN, count : 0..MaxClips]
    BY BoundsAssumption DEF EmptyClip
  <1>4. TypeOK
    BY <1>1, <1>3, StartAssumption, BoundsAssumption DEF TypeOK, EmptyClip
  <1>5. clip.nodes = <<>> /\ \A h \in Hosts : clip.tree[h] = <<>>
    BY <1>1 DEF EmptyClip
  <1>6. KindsFit(clip.tree) /\ Apart(clip.tree)
    BY <1>2, <1>5, Kinds DEF KindsFit, Apart
  <1> QED BY <1>2, <1>4, <1>5, <1>6 DEF IInv, ClipInv

LEMMA StepKeeps ==
    ASSUME StaleCuts = FALSE, IInv, [Next]_vars
    PROVE  IInv'
  <1>1. CASE Next
    <2>1. Kept
      BY <1>1, NextKeeps
    <2>2. IsTree(kids')
      BY <2>1, TreeIs DEF Kept, Tree
    <2> QED BY <2>1, <2>2 DEF Kept, Booked, ClipTyped, IInv, TypeOK
  <1>2. CASE UNCHANGED vars
    BY <1>2 DEF vars, IInv, TypeOK, ClipInv, Clipped
  <1> QED BY <1>1, <1>2

LEMMA Invariance ==
    ASSUME StaleCuts = FALSE
    PROVE  Spec => []IInv
  <1>1. Init => IInv
    BY InitKeeps
  <1>2. IInv /\ [Next]_vars => IInv'
    BY StepKeeps
  <1> QED BY <1>1, <1>2, PTL DEF Spec

(* Whatever is dragged, added, deleted, duplicated, cut, copied and        *)
(* pasted, no node is in two places, every host holds nodes of its kind,   *)
(* nothing is held where no walk comes, and what is dirty is a page of     *)
(* the tree (configStore's edits over findParentInfo and its walks).       *)
THEOREM TreeStaysATree ==
    ASSUME StaleCuts = FALSE
    PROVE  Spec => []TypeOK
  <1>1. IInv => TypeOK
    BY DEF IInv
  <1> QED BY <1>1, Invariance, PTL

(* A move, of widgets, of a page or a group, or of what was cut, leaves    *)
(* the tree with the nodes it had (moveWidgetsTo, movePageTo,              *)
(* pasteClipboard).                                                        *)
THEOREM NoMoveLosesANode ==
    ASSUME StaleCuts = FALSE
    PROVE  Spec => MovesLoseNothing
  <1>1. IInv /\ [Next]_vars => [last'.kind = "move" => Reached(kids') = Reached(kids)]_vars
    BY NextKeeps DEF Kept
  <1> QED BY <1>1, Invariance, PTL DEF Spec, MovesLoseNothing

(* A page that remains and whose lists an edit changes is marked dirty,    *)
(* and no edit takes the mark from a page that remains (the dirtyPageIds   *)
(* of every edit).                                                         *)
THEOREM WhatChangesIsDirty ==
    ASSUME StaleCuts = FALSE
    PROVE  Spec => ChangedPagesAreDirty
  <1>1. IInv /\ [Next]_vars =>
            [\A p \in Pages \cap Reached(kids) \cap Reached(kids') :
                 p \in dirty \/ Under(kids, p) # Under(kids', p) => p \in dirty']_vars
    BY NextKeeps DEF Kept, Booked
  <1> QED BY <1>1, Invariance, PTL DEF Spec, ChangedPagesAreDirty

-----------------------------------------------------------------------------
(* Where a batch lands.                                                    *)

(* The batch lies in one piece at the edge of the row.                     *)
Lands(k, batch, over, after) ==
    LET list == k[HostOf(k, over)]
        at == Position(k, over)
        first == IF after THEN at + 1 ELSE at - Len(batch)
    IN \A i \in 1..Len(batch) :
           first + i - 1 \in 1..Len(list) /\ list[first + i - 1] = batch[i]

LEMMA LandsBeside ==
    ASSUME NEW k, Tree(k), NEW j, Tree(j), NEW batch \in Seq(Nodes),
           NEW host \in Hosts, NEW at \in Nat, NEW M, j = Inserted(Without(k, M), host, at, batch),
           NEW over, NEW after \in BOOLEAN, NEW c \in 1..Len(Without(k, M)[host]),
           Without(k, M)[host][c] = over, at = (IF after THEN c ELSE c - 1)
    PROVE  Lands(j, batch, over, after)
  <1> DEFINE kept == Without(k, M)[host]
             list == j[host]
             p == IF after THEN c ELSE c + Len(batch)
  <1>1. Forest(k) /\ Forest(j) /\ Grounded(j)
    BY DEF Tree
  <1>2. Forest(Without(k, M))
    BY <1>1, WithoutFacts
  <1>3. kept \in Seq(Nodes) /\ list \in Seq(Nodes)
    BY <1>1, <1>2 DEF Forest
  <1>4. list = Splice(kept, at, batch)
    BY <1>2, InsertedFacts
  <1>5. Len(kept) \in Nat /\ Len(batch) \in Nat /\ c \in 1..Len(kept) /\ kept[c] = over
    BY <1>3
  <1> HIDE DEF kept, list
  <1>6. at <= Len(kept)
    BY <1>5
  <1>7. /\ Len(list) = Len(kept) + Len(batch)
        /\ \A i \in 1..at : list[i] = kept[i]
        /\ \A i \in 1..Len(batch) : list[at + i] = batch[i]
        /\ \A i \in (at + 1)..Len(kept) : list[i + Len(batch)] = kept[i]
    <2> DEFINE made == Splice(kept, at, batch)
    <2>1. /\ Len(made) = Len(kept) + Len(batch)
          /\ \A i \in 1..at : made[i] = kept[i]
          /\ \A i \in 1..Len(batch) : made[at + i] = batch[i]
          /\ \A i \in (at + 1)..Len(kept) : made[i + Len(batch)] = kept[i]
      BY <1>3, <1>6, SpliceFacts
    <2> HIDE DEF made
    <2>2. list = made
      BY <1>4 DEF made
    <2> QED BY <2>1, <2>2
  <1>8. p \in 1..Len(list) /\ list[p] = over
    <2>1. CASE after
      BY <1>5, <1>7, <2>1
    <2>2. CASE ~after
      <3>1. c \in (at + 1)..Len(kept) /\ p = c + Len(batch)
        BY <1>5, <2>2
      <3> QED BY <1>5, <1>7, <3>1
    <2> QED BY <2>1, <2>2
  <1>9. over \in Range(j[host])
    BY <1>3, <1>8, RangeType DEF list
  <1>10. over \in Reached(j)
    BY <1>1, <1>9, ReachedIsPlaced DEF Placed
  <1>11. host = HostOf(j, over)
    BY <1>9, <1>10, PlaceOf
  <1>12. p = Position(j, over)
    BY <1>8, <1>10, <1>11, PlaceOf DEF list
  <1>13. ASSUME NEW i \in 1..Len(batch)
         PROVE  LET first == IF after THEN p + 1 ELSE p - Len(batch)
                IN first + i - 1 \in 1..Len(list) /\ list[first + i - 1] = batch[i]
    <2>1. (IF after THEN p + 1 ELSE p - Len(batch)) + i - 1 = at + i
      BY <1>5
    <2>2. at + i \in 1..Len(list)
      BY <1>5, <1>6, <1>7
    <2> QED BY <1>7, <2>1, <2>2
  <1> QED BY <1>11, <1>12, <1>13 DEF Lands, list

(* What goes into a host is not beside it.                                 *)
LEMMA LandsInto ==
    ASSUME NEW k, Tree(k), NEW j, Tree(j), Reached(j) = Reached(k),
           NEW host \in HostsIn(k), host \in Nodes, NEW n \in Nodes, n \in Range(j[host])
    PROVE  HostOf(j, n) # HostOf(j, host)
  <1>1. Forest(k) /\ Forest(j) /\ Apart(j) /\ Grounded(j)
    BY DEF Tree
  <1>2. host \in Hosts /\ Reached(k) \subseteq Nodes
    BY <1>1, ReachedFacts
  <1>3. host \in Reached(k)
    <2>1. host \in HostsOf(Reached(k))
      BY HostsInAre, Kinds
    <2>2. PICK m \in Reached(k) : host \in InnerHosts(m)
      BY <2>1, OwnerOf
    <2>3. m = host
      BY <1>2, <2>2, Kinds DEF InnerHosts
    <2> QED BY <2>2, <2>3
  <1>4. HostOf(j, host) \in Hosts /\ host \in Range(j[HostOf(j, host)])
    BY <1>3, PlaceOf
  <1>5. HostOf(j, host) \notin HostsOf(Subtree(j, host))
    BY <1>1, <1>4, NotBelowItself
  <1>6. host \in HostsOf(Subtree(j, host))
    <2>1. host \in InnerHosts(host) /\ host \in Subtree(j, host)
      BY <1>1, <1>2, PageHostsKnown DEF InnerHosts
    <2> QED BY <2>1 DEF HostsOf
  <1>7. n \in Reached(j)
    BY <1>1, <1>2, ReachedIsPlaced DEF Placed
  <1>8. HostOf(j, n) = host
    BY <1>2, <1>7, PlaceOf
  <1> QED BY <1>5, <1>6, <1>8

(* The index after removal, on either edge of a row that stays.            *)
LEMMA EdgeOf ==
    ASSUME NEW k, Tree(k), NEW over \in Reached(k), NEW M, over \notin M, NEW after \in BOOLEAN
    PROVE  LET host == HostOf(k, over)
               kept == Without(k, M)[host]
               at == IndexAfterRemoval(k[host], M, Position(k, over) - (IF after THEN 0 ELSE 1))
           IN \E c \in 1..Len(kept) : kept[c] = over /\ at = (IF after THEN c ELSE c - 1)
  <1> DEFINE host == HostOf(k, over)
             list == k[host]
             i == Position(k, over)
             c == i - Cardinality(Left(list, M, i))
             kept == Spread(list, Spared(M))
  <1>1. host \in Hosts /\ i \in 1..Len(list) /\ list[i] = over
    BY PlaceOf
  <1>2. list \in Seq(Nodes)
    BY <1>1 DEF Tree, Forest
  <1>3. Without(k, M)[host] = kept
    BY <1>1 DEF Without
  <1> HIDE DEF host, list, i
  <1>4. /\ c \in 1..Len(kept) /\ kept[c] = over
        /\ (i - 1) - Cardinality(Left(list, M, i - 1)) = c - 1
    BY <1>1, <1>2, StaysAt
  <1>5. IndexAfterRemoval(list, M, i) = c
    BY DEF IndexAfterRemoval, Left
  <1>6. IndexAfterRemoval(list, M, i - 1) = c - 1
    BY <1>4 DEF IndexAfterRemoval, Left
  <1>7. i - 0 = i
    BY <1>1, <1>2
  <1> HIDE DEF c, kept
  <1>8. IndexAfterRemoval(list, M, i - (IF after THEN 0 ELSE 1)) = (IF after THEN c ELSE c - 1)
    BY <1>5, <1>6, <1>7
  <1> QED BY <1>3, <1>4, <1>8 DEF host, list, i

-----------------------------------------------------------------------------
(* Where every move lands.                                                 *)

(* A batch goes out and in: beside a row that stays, or into a host.       *)
Beside(k, j, batch, over, after) ==
    \E at \in Nat : \E c \in 1..Len(Without(k, Range(batch))[HostOf(k, over)]) :
        /\ j = Inserted(Without(k, Range(batch)), HostOf(k, over), at, batch)
        /\ Without(k, Range(batch))[HostOf(k, over)][c] = over
        /\ at = (IF after THEN c ELSE c - 1)

Inside(k, j, batch, host) ==
    \E at \in Nat : host \in HostsIn(k) /\ j = Inserted(Without(k, Range(batch)), host, at, batch)

(* What LandsWhereShown says of a step.                                    *)
Shown(what) ==
    what.kind = "move" /\ what.over \in Nodes \ Range(what.batch)
      /\ HostOf(kids', what.batch[1]) = HostOf(kids', what.over) =>
        Lands(kids', what.batch, what.over, what.after)

LEMMA BesideShown ==
    ASSUME Tree(kids), Tree(kids'), NEW batch \in Seq(Nodes),
           NEW over \in Reached(kids), NEW after \in BOOLEAN,
           Beside(kids, kids', batch, over, after),
           NEW what, what = [kind |-> "move", batch |-> batch, over |-> over, after |-> after]
    PROVE  Shown(what)
  <1>1. PICK at \in Nat : \E c \in 1..Len(Without(kids, Range(batch))[HostOf(kids, over)]) :
            /\ kids' = Inserted(Without(kids, Range(batch)), HostOf(kids, over), at, batch)
            /\ Without(kids, Range(batch))[HostOf(kids, over)][c] = over
            /\ at = (IF after THEN c ELSE c - 1)
    BY DEF Beside
  <1>2. PICK c \in 1..Len(Without(kids, Range(batch))[HostOf(kids, over)]) :
            /\ kids' = Inserted(Without(kids, Range(batch)), HostOf(kids, over), at, batch)
            /\ Without(kids, Range(batch))[HostOf(kids, over)][c] = over
            /\ at = (IF after THEN c ELSE c - 1)
    BY <1>1
  <1>3. HostOf(kids, over) \in Hosts
    BY PlaceOf
  <1>4. Lands(kids', batch, over, after)
    BY <1>2, <1>3, LandsBeside
  <1> QED BY <1>4 DEF Shown

LEMMA IntoShown ==
    ASSUME Tree(kids), Tree(kids'), Reached(kids') = Reached(kids),
           NEW batch \in Seq(Nodes), batch # <<>>, NEW host, NEW after,
           Inside(kids, kids', batch, host),
           NEW what, what = [kind |-> "move", batch |-> batch, over |-> host, after |-> after]
    PROVE  Shown(what)
  <1>1. PICK at \in Nat : /\ host \in HostsIn(kids)
                          /\ kids' = Inserted(Without(kids, Range(batch)), host, at, batch)
    BY DEF Inside
  <1>2. Forest(kids) /\ host \in Hosts /\ Forest(Without(kids, Range(batch)))
    BY <1>1, ReachedFacts, WithoutFacts DEF Tree
  <1>3. kids'[host] = Splice(Without(kids, Range(batch))[host], at, batch)
    BY <1>1, <1>2, InsertedFacts
  <1>4. Without(kids, Range(batch))[host] \in Seq(Nodes)
    BY <1>2 DEF Forest
  <1>5. Range(batch) \subseteq Range(kids'[host])
    <2> DEFINE less == Without(kids, Range(batch))[host]
    <2>1. \A i \in Nat : Range(Splice(less, i, batch)) = Range(less) \cup Range(batch)
      <3> HIDE DEF less
      <3>1. less \in Seq(Nodes)
        BY <1>4 DEF less
      <3> QED BY <3>1, SpliceFacts
    <2> QED BY <1>3, <2>1
  <1>6. batch[1] \in Nodes /\ batch[1] \in Range(batch)
    BY RangeType
  <1>7. host \in Nodes => HostOf(kids', batch[1]) # HostOf(kids', host)
    BY <1>1, <1>5, <1>6, LandsInto
  <1> QED BY <1>7 DEF Shown

LEMMA DragWidgetsShown ==
    ASSUME TypeOK, DragWidgets
    PROVE  Shown(last')
  <1>1. PICK S \in Selections : \E batch \in Batches(S) :
            \/ \E active \in S, over \in Widgets \cap Reached(kids), after \in BOOLEAN :
                   DropBeside(S, batch, active, over, after)
            \/ \E host \in WidgetHosts : DropInto(batch, host)
    BY DEF DragWidgets
  <1>2. PICK batch \in Batches(S) :
            \/ \E active \in S, over \in Widgets \cap Reached(kids), after \in BOOLEAN :
                   DropBeside(S, batch, active, over, after)
            \/ \E host \in WidgetHosts : DropInto(batch, host)
    BY <1>1
  <1>3. Tree(kids) /\ Tree(kids') /\ Reached(kids') = Reached(kids)
    BY TypeFacts, DragWidgetsKeeps
  <1>4. batch \in Seq(Nodes) /\ batch # <<>>
    BY <1>3, BatchFacts
  <1>5. CASE \E active \in S, over \in Widgets \cap Reached(kids), after \in BOOLEAN :
                 DropBeside(S, batch, active, over, after)
    <2>1. PICK active \in S, over \in Widgets \cap Reached(kids), after \in BOOLEAN :
              DropBeside(S, batch, active, over, after)
      BY <1>5
    <2> DEFINE at == IndexAfterRemoval(kids[HostOf(kids, over)], Range(batch),
                                       Position(kids, over) - (IF after THEN 0 ELSE 1))
               what == [kind |-> "move", batch |-> batch, over |-> over, after |-> after]
    <2>2. /\ kids' = Inserted(Without(kids, Range(batch)), HostOf(kids, over), at, batch)
          /\ last' = what
      BY <2>1 DEF DropBeside, MoveWidgetsTo, Step
    <2>3. at \in Nat
      BY BesideTarget
    <2>4. CASE over \in Range(batch)
      BY <2>2, <2>4 DEF Shown
    <2>5. CASE over \notin Range(batch)
      <3>1. \E c \in 1..Len(Without(kids, Range(batch))[HostOf(kids, over)]) :
                /\ Without(kids, Range(batch))[HostOf(kids, over)][c] = over
                /\ at = (IF after THEN c ELSE c - 1)
        BY <1>3, <2>5, EdgeOf
      <3> HIDE DEF at
      <3>2. Beside(kids, kids', batch, over, after)
        BY <2>2, <2>3, <3>1 DEF Beside
      <3> HIDE DEF what
      <3>3. what = [kind |-> "move", batch |-> batch, over |-> over, after |-> after]
        BY DEF what
      <3> QED BY <1>3, <1>4, <2>2, <3>2, <3>3, BesideShown
    <2> QED BY <2>4, <2>5
  <1>6. CASE \E host \in WidgetHosts : DropInto(batch, host)
    <2>1. PICK host \in WidgetHosts : DropInto(batch, host)
      BY <1>6
    <2> DEFINE at == Len(Without(kids, Range(batch))[host])
               what == [kind |-> "move", batch |-> batch, over |-> host, after |-> TRUE]
    <2>2. /\ kids' = Inserted(Without(kids, Range(batch)), host, at, batch)
          /\ last' = what /\ host \in HostsIn(kids)
      BY <2>1 DEF DropInto, MoveWidgetsTo, Step
    <2>3. at \in Nat
      <3>1. Without(kids, Range(batch))[host] \in Seq(Nodes)
        <4>1. Forest(Without(kids, Range(batch))) /\ host \in Hosts
          BY TypeFacts, WithoutFacts DEF Hosts
        <4> QED BY <4>1 DEF Forest
      <3> QED BY <3>1
    <2> HIDE DEF at
    <2>4. Inside(kids, kids', batch, host)
      BY <2>2, <2>3 DEF Inside
    <2> HIDE DEF what
    <2>5. what = [kind |-> "move", batch |-> batch, over |-> host, after |-> TRUE]
      BY DEF what
    <2> QED BY <1>3, <1>4, <2>2, <2>4, <2>5, IntoShown
  <1> QED BY <1>2, <1>5, <1>6

LEMMA DragPageShown ==
    ASSUME TypeOK, DragPage
    PROVE  Shown(last')
  <1>1. PICK n \in PageNodes \cap Reached(kids) :
        \/ \E over \in (PageNodes \cap Reached(kids)) \ Subtree(kids, n), after \in BOOLEAN :
               MovePageTo(n, HostOf(kids, over),
                          IndexAfterRemoval(kids[HostOf(kids, over)], {n},
                                Position(kids, over) - (IF after THEN 0 ELSE 1)),
                          [kind |-> "move", batch |-> <<n>>, over |-> over, after |-> after])
        \/ \E host \in PageHosts \cap HostsIn(kids) :
               MovePageTo(n, host, Len(Without(kids, {n})[host]),
                          [kind |-> "move", batch |-> <<n>>, over |-> host, after |-> TRUE])
    BY DEF DragPage
  <1> DEFINE batch == <<n>>
  <1>2. Tree(kids) /\ Tree(kids') /\ Reached(kids') = Reached(kids) /\ Forest(kids)
        /\ Reached(kids) \subseteq Nodes
    BY TypeFacts, DragPageKeeps
  <1>3. batch \in Seq(Nodes) /\ batch # <<>> /\ Range(batch) = {n} /\ n \in Nodes
    BY <1>2 DEF Range
  <1> HIDE DEF batch
  <1>4. CASE \E over \in (PageNodes \cap Reached(kids)) \ Subtree(kids, n), after \in BOOLEAN :
               MovePageTo(n, HostOf(kids, over),
                          IndexAfterRemoval(kids[HostOf(kids, over)], {n},
                                Position(kids, over) - (IF after THEN 0 ELSE 1)),
                          [kind |-> "move", batch |-> <<n>>, over |-> over, after |-> after])
    <2>1. PICK over \in (PageNodes \cap Reached(kids)) \ Subtree(kids, n), after \in BOOLEAN :
               MovePageTo(n, HostOf(kids, over),
                          IndexAfterRemoval(kids[HostOf(kids, over)], {n},
                                Position(kids, over) - (IF after THEN 0 ELSE 1)),
                          [kind |-> "move", batch |-> <<n>>, over |-> over, after |-> after])
      BY <1>4
    <2> DEFINE at == IndexAfterRemoval(kids[HostOf(kids, over)], Range(batch),
                                       Position(kids, over) - (IF after THEN 0 ELSE 1))
               what == [kind |-> "move", batch |-> batch, over |-> over, after |-> after]
    <2>2. /\ kids' = Inserted(Without(kids, Range(batch)), HostOf(kids, over), at, batch)
          /\ last' = what
      <3>1. /\ kids' = Inserted(Without(kids, {n}), HostOf(kids, over),
                           IndexAfterRemoval(kids[HostOf(kids, over)], {n},
                                       Position(kids, over) - (IF after THEN 0 ELSE 1)), batch)
            /\ last' = what
        BY <2>1 DEF MovePageTo, Step, batch
      <3> QED BY <1>3, <3>1
    <2>3. at \in Nat
      BY BesideTarget
    <2>4. over \notin Range(batch)
      BY <1>2, <1>3, PageHostsKnown
    <2>5. \E c \in 1..Len(Without(kids, Range(batch))[HostOf(kids, over)]) :
              /\ Without(kids, Range(batch))[HostOf(kids, over)][c] = over
              /\ at = (IF after THEN c ELSE c - 1)
      BY <1>2, <2>4, EdgeOf
    <2> HIDE DEF at
    <2>6. Beside(kids, kids', batch, over, after)
      BY <1>3, <2>2, <2>3, <2>5 DEF Beside
    <2> HIDE DEF what
    <2>7. what = [kind |-> "move", batch |-> batch, over |-> over, after |-> after]
      BY DEF what
    <2> QED BY <1>2, <1>3, <2>2, <2>6, <2>7, BesideShown
  <1>5. CASE \E host \in PageHosts \cap HostsIn(kids) :
               MovePageTo(n, host, Len(Without(kids, {n})[host]),
                          [kind |-> "move", batch |-> <<n>>, over |-> host, after |-> TRUE])
    <2>1. PICK host \in PageHosts \cap HostsIn(kids) :
               MovePageTo(n, host, Len(Without(kids, {n})[host]),
                          [kind |-> "move", batch |-> <<n>>, over |-> host, after |-> TRUE])
      BY <1>5
    <2> DEFINE at == Len(Without(kids, {n})[host])
               what == [kind |-> "move", batch |-> batch, over |-> host, after |-> TRUE]
    <2>2. /\ kids' = Inserted(Without(kids, {n}), host, at, batch) /\ last' = what
      BY <2>1 DEF MovePageTo, Step, batch
    <2>3. at \in Nat
      <3>1. Without(kids, {n})[host] \in Seq(Nodes)
        <4>1. Forest(Without(kids, {n})) /\ host \in Hosts
          BY <1>2, WithoutFacts DEF Hosts
        <4> QED BY <4>1 DEF Forest
      <3> QED BY <3>1
    <2> HIDE DEF at
    <2>4. Inside(kids, kids', batch, host)
      BY <1>3, <2>2, <2>3 DEF Inside
    <2> HIDE DEF what
    <2>5. what = [kind |-> "move", batch |-> batch, over |-> host, after |-> TRUE]
      BY DEF what
    <2> QED BY <1>2, <1>3, <2>2, <2>4, <2>5, IntoShown
  <1> QED BY <1>1, <1>4, <1>5

LEMMA PasteMoveShown ==
    ASSUME StaleCuts = FALSE, IInv, PasteMove
    PROVE  Shown(last')
  <1>1. PICK target \in AcceptedTargets :
           /\ last' = [kind |-> "move", batch |-> clip.nodes, over |-> target.row, after |-> TRUE]
           /\ target.host \in HostsIn(kids) /\ target.host \in Hosts
           /\ target.host \notin HostsOf(Below(kids, Moved))
           /\ target.behind => target.row \in Range(Without(kids, Moved)[target.host])
           /\ kids' = Inserted(Without(kids, Moved), target.host,
                          PlaceIn(Without(kids, Moved)[target.host], target), clip.nodes)
    BY PasteMoveKeeps
  <1> DEFINE batch == clip.nodes
             host == target.host
             over == target.row
             kept == Without(kids, Moved)[host]
             at == PlaceIn(kept, target)
  <1>2. Tree(kids') /\ Reached(kids') = Reached(kids) /\ batch \in Seq(Nodes)
    BY PasteMoveKeeps
  <1>3. Tree(kids) /\ Forest(kids)
    BY TypeFacts DEF IInv
  <1>4. batch # <<>> /\ Range(batch) = Moved
    BY DEF PasteMove, IsCutMove, IInv, TypeOK, Moved
  <1>5. Target(target)
    BY TargetFacts
  <1>6. kept \in Seq(Nodes)
    <2>1. Forest(Without(kids, Moved))
      BY <1>3, WithoutFacts
    <2> QED BY <1>1, <2>1 DEF Forest
  <1>7. /\ at \in Nat
        /\ target.behind => at \in 1..Len(kept) /\ kept[at] = over
    <2>1. target.behind => target.row \in Range(kept)
      BY <1>1
    <2> HIDE DEF kept
    <2> QED BY <1>6, <2>1, PlaceFacts
  <1>8. kids' = Inserted(Without(kids, Range(batch)), host, at, batch)
    BY <1>1, <1>4
  <1> DEFINE what == [kind |-> "move", batch |-> batch, over |-> over, after |-> TRUE]
  <1>9. last' = what
    BY <1>1
  <1>10. CASE target.behind
    <2>1. over \in Reached(kids) /\ host = HostOf(kids, over)
      BY <1>5, <1>10 DEF Target
    <2>2. at \in 1..Len(kept) /\ kept[at] = over /\ kept = Without(kids, Range(batch))[host]
      BY <1>4, <1>7, <1>10
    <2> HIDE DEF at, kept, batch, host, over
    <2>3. Beside(kids, kids', batch, over, TRUE)
      BY <1>7, <1>8, <2>1, <2>2 DEF Beside
    <2> HIDE DEF what
    <2>4. what = [kind |-> "move", batch |-> batch, over |-> over, after |-> TRUE]
      BY DEF what
    <2> QED BY <1>2, <1>3, <1>9, <2>1, <2>3, <2>4, BesideShown
  <1>11. CASE ~target.behind
    <2>1. host = over
      BY <1>5, <1>11 DEF Target
    <2> HIDE DEF at
    <2>2. Inside(kids, kids', batch, host)
      BY <1>1, <1>7, <1>8 DEF Inside
    <2>3. what = [kind |-> "move", batch |-> batch, over |-> host, after |-> TRUE]
      BY <2>1
    <2> HIDE DEF batch, host, over, what
    <2> QED BY <1>2, <1>3, <1>4, <1>9, <2>2, <2>3, IntoShown
  <1> QED BY <1>10, <1>11

LEMMA NextShown ==
    ASSUME StaleCuts = FALSE, IInv, Next
    PROVE  Shown(last')
  <1>1. TypeOK
    BY DEF IInv
  <1>2. CASE DragWidgets
    BY <1>1, <1>2, DragWidgetsShown
  <1>3. CASE DragPage
    BY <1>1, <1>3, DragPageShown
  <1>4. CASE PasteMove
    BY <1>4, PasteMoveShown
  <1>5. CASE AddWidget \/ AddPageNode \/ DeleteWidgets \/ DeletePageNode \/ DuplicateWidgets \/ PasteCopy
    <2>1. last'.kind \in {"add", "delete", "copy"}
      <3>1. AddWidget => last' = [kind |-> "add"]
        BY DEF AddWidget, Step
      <3>2. AddPageNode => last' = [kind |-> "add"]
        BY DEF AddPageNode, Step
      <3>3. DeleteWidgets => last' = [kind |-> "delete"]
        BY DEF DeleteWidgets, Step
      <3>4. DeletePageNode => last' = [kind |-> "delete"]
        BY DEF DeletePageNode, Step
      <3>5. DuplicateWidgets => last' = [kind |-> "copy"]
        BY DEF DuplicateWidgets, Step
      <3>6. PasteCopy => last' = [kind |-> "copy"]
        BY DEF PasteCopy, Step
      <3> QED BY <1>5, <3>1, <3>2, <3>3, <3>4, <3>5, <3>6
    <2> QED BY <2>1 DEF Shown
  <1>6. CASE CopyOrCut \/ ClearCut
    <2>1. last'.kind = "nothing"
      BY <1>6 DEF CopyOrCut, ClearCut, Nothing
    <2> QED BY <2>1 DEF Shown
  <1> QED BY <1>2, <1>3, <1>4, <1>5, <1>6 DEF Next

(* A batch that moves lies in one piece, in document order, at the edge    *)
(* of the row it was dropped on, wherever its nodes were before: the       *)
(* index that counts without them is right (resolveDropTarget,             *)
(* targetAccepts).                                                         *)
THEOREM MovesLandWhereShown ==
    ASSUME StaleCuts = FALSE
    PROVE  Spec => LandsWhereShown
  <1>1. IInv /\ [Next]_vars =>
          [last'.kind = "move" /\ last'.over \in Nodes \ Range(last'.batch)
             /\ HostOf(kids', last'.batch[1]) = HostOf(kids', last'.over) =>
               LET list == kids'[HostOf(kids', last'.over)]
                   at == Position(kids', last'.over)
                   first == IF last'.after THEN at + 1 ELSE at - Len(last'.batch)
               IN \A i \in 1..Len(last'.batch) :
                      first + i - 1 \in 1..Len(list) /\ list[first + i - 1] = last'.batch[i]]_vars
    BY NextShown DEF Shown, Lands
  <1> QED BY <1>1, Invariance, PTL DEF Spec, LandsWhereShown
=============================================================================
