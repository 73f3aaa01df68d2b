------------------------------ MODULE CycleProofs ------------------------------
(***************************************************************************)
(* The require cycles that the gate finds are the cycles there are, in     *)
(* every graph.  The strongly connected components come from Tarjan's      *)
(* algorithm, whose nested visits share one stack and one map of low       *)
(* links; the invariant of its steps relates the three, and a count of     *)
(* what a step settles shows that the search has ended.                    *)
(*                                                                         *)
(* Nothing here depends on which modules LibraryOrder lists.               *)
(***************************************************************************)
EXTENDS GraphGates, FiniteSetTheorems, WellFoundedInduction, TLAPS

IsGraph(graph) ==
    /\ DOMAIN graph \subseteq ToSet(LibraryOrder)
    /\ graph \in [DOMAIN graph -> SUBSET DOMAIN graph]

(* What is reachable, without paths: a module reaches another when every   *)
(* set that has the one and all that its members require has the other.    *)
ClosedIn(graph, S) == \A x \in S : graph[x] \subseteq S

Reaches(graph, x, y) ==
    \A S \in SUBSET DOMAIN graph : x \in S /\ ClosedIn(graph, S) => y \in S

IsComponent(graph, C) ==
    /\ C # {}
    /\ \A x \in C : C = {y \in DOMAIN graph : Reaches(graph, x, y) /\ Reaches(graph, y, x)}

-----------------------------------------------------------------------------
(* The invariant of the search.                                            *)

OnStack(s) == ToSet(s.stack)
Settled(s) == UNION s.components
Node(s, i) == s.calls[i].node

(* The innermost open visit that began before the module was found.        *)
Innermost(s, i, x) ==
    /\ i \in DOMAIN s.calls
    /\ s.indexes[Node(s, i)] <= s.indexes[x]
    /\ \A j \in DOMAIN s.calls : j > i => s.indexes[x] < s.indexes[Node(s, j)]

(* The require of y by x has been looked at.                               *)
Scanned(s, x, y) ==
    \A i \in DOMAIN s.calls : Node(s, i) = x => y \notin ToSet(s.calls[i].todo)

SearchType(s, graph) ==
    /\ s = [index |-> s.index, indexes |-> s.indexes, lowlinks |-> s.lowlinks, stack |-> s.stack,
            calls |-> s.calls, components |-> s.components]
    /\ s.index \in Nat
    /\ s.indexes \in [DOMAIN graph -> Int]
    /\ s.lowlinks \in [DOMAIN graph -> Int]
    /\ s.stack \in Seq(DOMAIN graph)
    /\ s.calls \in Seq([node : DOMAIN graph, todo : Seq(DOMAIN graph)])
    /\ s.components \subseteq SUBSET DOMAIN graph

(* Modules are numbered in the order in which they were found, and a       *)
(* module that was found is on the stack or in a component.                *)
Numbered(s, graph) ==
    /\ \A x \in DOMAIN graph : s.indexes[x] \in -1..(s.index - 1)
    /\ \A i, j \in DOMAIN s.stack : i < j => s.indexes[s.stack[i]] < s.indexes[s.stack[j]]
    /\ \A x \in DOMAIN graph : s.indexes[x] # -1 <=> x \in OnStack(s) \cup Settled(s)
    /\ OnStack(s) \cap Settled(s) = {}

(* The open visits: each is nested in the one before, and every module on  *)
(* the stack was found in one.                                             *)
Nested(s, graph) ==
    /\ \A i \in DOMAIN s.calls : Node(s, i) \in OnStack(s)
    /\ \A i, j \in DOMAIN s.calls : i < j => s.indexes[Node(s, i)] < s.indexes[Node(s, j)]
    /\ \A x \in OnStack(s) : \E i \in DOMAIN s.calls : Innermost(s, i, x)
    /\ \A i \in DOMAIN s.calls :
        /\ ToSet(s.calls[i].todo) \subseteq graph[Node(s, i)]
        /\ \A k, l \in DOMAIN s.calls[i].todo : s.calls[i].todo[k] = s.calls[i].todo[l] => k = l

(* What was looked at was found.                                           *)
ScannedFound(s, graph) ==
    \A x \in OnStack(s) : \A y \in graph[x] : Scanned(s, x, y) => s.indexes[y] # -1

(* An open visit reaches what was found since, and what was found since    *)
(* reaches back to it.                                                     *)
Connected(s, graph) ==
    /\ \A i \in DOMAIN s.calls : \A y \in OnStack(s) :
            s.indexes[Node(s, i)] <= s.indexes[y] => Reaches(graph, Node(s, i), y)
    /\ \A x \in OnStack(s) : \A i \in DOMAIN s.calls :
            Innermost(s, i, x) => Reaches(graph, x, Node(s, i))

(* The low link of an open visit is the number of a module it reaches, and *)
(* no require below it leads to a lower number on the stack.               *)
LowLinks(s, graph) ==
    /\ \A i \in DOMAIN s.calls : \E w \in OnStack(s) :
            /\ s.lowlinks[Node(s, i)] = s.indexes[w]
            /\ s.indexes[w] <= s.indexes[Node(s, i)]
            /\ Reaches(graph, Node(s, i), w)
    /\ \A x, y \in OnStack(s) : \A i \in DOMAIN s.calls :
            y \in graph[x] /\ Scanned(s, x, y) /\ Innermost(s, i, x) => s.lowlinks[Node(s, i)] <= s.indexes[y]

Components(s, graph) ==
    /\ ClosedIn(graph, Settled(s))
    /\ \A C \in s.components : IsComponent(graph, C)

SearchInv(s, graph) ==
    /\ SearchType(s, graph) /\ Numbered(s, graph) /\ Nested(s, graph) /\ ScannedFound(s, graph)
    /\ Connected(s, graph) /\ LowLinks(s, graph) /\ Components(s, graph)

Ended(s, graph) == s.calls = <<>> /\ \A x \in DOMAIN graph : s.indexes[x] # -1

(* What the steps so far have settled: modules found, requires looked at   *)
(* and visits ended.                                                       *)
Found(s, graph) == {x \in DOMAIN graph : s.indexes[x] # -1}
LookedAt(s, graph) ==
    {e \in (DOMAIN graph) \X (DOMAIN graph) : s.indexes[e[1]] # -1 /\ Scanned(s, e[1], e[2])}
Left(s, graph) == {x \in DOMAIN graph : s.indexes[x] # -1 /\ \A i \in DOMAIN s.calls : Node(s, i) # x}

Progress(s, graph) ==
    Cardinality(Found(s, graph)) + Cardinality(LookedAt(s, graph)) + Cardinality(Left(s, graph))

-----------------------------------------------------------------------------
(* Numbers, order and reachability.                                        *)

(* A set of naturals that is not empty has a least element.                *)
LEMMA LeastNat ==
    ASSUME NEW S \in SUBSET Nat, S # {}
    PROVE  \E m \in S : \A x \in S : m <= x
<1> DEFINE R == OpToRel(<, Nat)
<1>1. IsWellFoundedOn(R, Nat)
    BY NatLessThanWellFounded
<1>2. PICK m \in S : \A x \in S : ~(<<x, m>> \in R)
  <2> HIDE DEF R
  <2> QED BY <1>1, WFMin
<1>3. ASSUME NEW x \in S PROVE m <= x
  <2>1. ~(<<x, m>> \in R)
      BY <1>2
  <2>2. ~(x < m)
      BY <2>1 DEF OpToRel
  <2> QED BY <2>2
<1> QED BY <1>3

LEMMA ModulesAreFinite ==
    /\ LibraryOrder \in Seq(ToSet(LibraryOrder))
    /\ IsFiniteSet(ToSet(LibraryOrder))
    /\ \A S \in SUBSET ToSet(LibraryOrder) : IsFiniteSet(S) /\ Cardinality(S) \in Nat
<1>1. LibraryOrder \in Seq(ToSet(LibraryOrder))
    BY DEF LibraryOrder, ToSet
<1> DEFINE k == Len(LibraryOrder)
<1>2. k \in Nat /\ LibraryOrder \in [1..k -> ToSet(LibraryOrder)]
    BY <1>1
<1>3. LibraryOrder \in Surjection(1..k, ToSet(LibraryOrder))
    BY <1>2 DEF Surjection, ToSet
<1>4. IsFiniteSet(ToSet(LibraryOrder))
    BY <1>2, <1>3, FS_Surjection, FS_Interval
<1>5. \A S \in SUBSET ToSet(LibraryOrder) : IsFiniteSet(S) /\ Cardinality(S) \in Nat
    BY <1>4, FS_Subset, FS_CardinalityType
<1> QED BY <1>1, <1>4, <1>5

LEMMA RankIs ==
    /\ Len(LibraryOrder) \in Nat
    /\ \A m \in ToSet(LibraryOrder) : Rank(m) \in 1..Len(LibraryOrder) /\ LibraryOrder[Rank(m)] = m
<1>1. Len(LibraryOrder) \in Nat /\ DOMAIN LibraryOrder = 1..Len(LibraryOrder)
    BY ModulesAreFinite
<1>2. ASSUME NEW m \in ToSet(LibraryOrder)
      PROVE  Rank(m) \in DOMAIN LibraryOrder /\ LibraryOrder[Rank(m)] = m
    BY DEF Rank, ToSet
<1> QED BY <1>1, <1>2

LEMMA RankInjective ==
    ASSUME NEW x \in ToSet(LibraryOrder), NEW y \in ToSet(LibraryOrder)
    PROVE  /\ Rank(x) \in Nat
           /\ Rank(x) = Rank(y) => x = y
           /\ x # y => Rank(x) < Rank(y) \/ Rank(y) < Rank(x)
BY RankIs

(* Of some modules, one comes first and one last in the order.             *)
LEMMA FirstAndLast ==
    ASSUME NEW S \in SUBSET ToSet(LibraryOrder), S # {}
    PROVE  /\ \E x \in S : \A y \in S : Rank(x) <= Rank(y)
           /\ \E x \in S : \A y \in S : Rank(y) <= Rank(x)
<1> DEFINE k == Len(LibraryOrder)
           Low == {Rank(y) : y \in S}
           High == {k - Rank(y) : y \in S}
<1>1. k \in Nat /\ \A y \in S : Rank(y) \in 1..k
    BY RankIs
<1>2. PICK a \in Low : \A x \in Low : a <= x
  <2>1. Low \in SUBSET Nat /\ Low # {}
      BY <1>1
  <2> HIDE DEF Low
  <2> QED BY <2>1, LeastNat
<1>3. PICK b \in High : \A x \in High : b <= x
  <2>1. High \in SUBSET Nat /\ High # {}
      BY <1>1
  <2> HIDE DEF High
  <2> QED BY <2>1, LeastNat
<1>4. PICK x \in S : a = Rank(x)
    OBVIOUS
<1>5. PICK z \in S : b = k - Rank(z)
    OBVIOUS
<1>6. \A y \in S : Rank(x) <= Rank(y)
    BY <1>2, <1>4
<1>7. \A y \in S : k - Rank(z) <= k - Rank(y)
    BY <1>3, <1>5
<1>8. \A y \in S : Rank(y) <= Rank(z)
    BY <1>1, <1>7
<1> QED BY <1>6, <1>8

Increasing(s) == \A i, j \in DOMAIN s : i < j => Rank(s[i]) < Rank(s[j])
CanSort(S) == \E s \in [1..Cardinality(S) -> S] : Increasing(s)

LEMMA AllCanBeSorted ==
    ASSUME NEW S \in SUBSET ToSet(LibraryOrder)
    PROVE  CanSort(S)
<1> DEFINE Modules == ToSet(LibraryOrder)
           Bad == {n \in Nat : \E T \in SUBSET Modules : Cardinality(T) = n /\ ~CanSort(T)}
<1> SUFFICES ASSUME ~CanSort(S) PROVE FALSE
    OBVIOUS
<1>1. PICK n \in Bad : \A m \in Bad : n <= m
  <2>1. Cardinality(S) \in Bad
      BY ModulesAreFinite
  <2>2. Bad \in SUBSET Nat /\ Bad # {}
      BY <2>1
  <2> HIDE DEF Bad
  <2> QED BY <2>2, LeastNat
<1>2. PICK T \in SUBSET Modules : Cardinality(T) = n /\ ~CanSort(T)
    OBVIOUS
<1>3. IsFiniteSet(T) /\ n \in Nat
    BY <1>2, ModulesAreFinite
<1>4. T # {}
  <2> SUFFICES ASSUME T = {} PROVE FALSE
      OBVIOUS
  <2>1. Cardinality(T) = 0
      BY FS_EmptySet
  <2>2. <<>> \in [1..0 -> T] /\ Increasing(<<>>)
      BY DEF Increasing
  <2> QED BY <1>2, <2>1, <2>2 DEF CanSort
<1>5. PICK x \in T : \A y \in T : Rank(y) <= Rank(x)
    BY <1>4, FirstAndLast
<1> DEFINE U == T \ {x}
<1>6. Cardinality(U) = n - 1 /\ n - 1 \in Nat
  <2>1. Cardinality(U) = n - 1
      BY <1>2, <1>3, <1>5, FS_RemoveElement
  <2>2. U \in SUBSET Modules
      BY <1>2
  <2>3. Cardinality(U) \in Nat
      BY <2>2, ModulesAreFinite
  <2> QED BY <2>1, <2>3
<1>7. CanSort(U)
  <2>1. n - 1 \notin Bad
      BY <1>1, <1>3
  <2> QED BY <2>1, <1>6
<1>8. PICK s \in [1..(n - 1) -> U] : Increasing(s)
    BY <1>6, <1>7 DEF CanSort
<1> DEFINE r == [i \in 1..n |-> IF i = n THEN x ELSE s[i]]
<1>9. r \in [1..n -> T]
    BY <1>3, <1>6
<1>10. ASSUME NEW i \in 1..n, NEW j \in 1..n, i < j
       PROVE  Rank(r[i]) < Rank(r[j])
  <2>1. i \in 1..(n - 1) /\ r[i] = s[i] /\ s[i] \in U
      BY <1>3, <1>6, <1>10
  <2>2. CASE j = n
    <3>1. s[i] # x /\ Rank(s[i]) <= Rank(x)
        BY <2>1, <1>5
    <3>2. Rank(s[i]) \in Nat /\ Rank(x) \in Nat /\ Rank(s[i]) # Rank(x)
        BY <2>1, <3>1, RankInjective
    <3> QED BY <2>1, <2>2, <3>1, <3>2
  <2>3. CASE j # n
    <3>1. j \in 1..(n - 1) /\ r[j] = s[j]
        BY <2>3, <1>3, <1>6
    <3> QED BY <2>1, <3>1, <1>8, <1>10 DEF Increasing
  <2> QED BY <2>2, <2>3
<1>11. Increasing(r)
    BY <1>10 DEF Increasing
<1> QED BY <1>2, <1>9, <1>11 DEF CanSort

(* What sorted returns: every member once, and a single member alone.      *)
LEMMA SortedIs ==
    ASSUME NEW S \in SUBSET ToSet(LibraryOrder)
    PROVE  /\ Sorted(S) \in Seq(S)
           /\ ToSet(Sorted(S)) = S
           /\ \A i, j \in DOMAIN Sorted(S) : Sorted(S)[i] = Sorted(S)[j] => i = j
           /\ \A m : S = {m} => Sorted(S) = <<m>>
<1> DEFINE n == Cardinality(S)
           s == Sorted(S)
<1>1. IsFiniteSet(S) /\ n \in Nat
    BY ModulesAreFinite
<1>2. s \in [1..n -> S] /\ Increasing(s)
  <2>1. \E q \in [1..n -> S] : \A i, j \in DOMAIN q : i < j => Rank(q[i]) < Rank(q[j])
      BY AllCanBeSorted DEF CanSort, Increasing
  <2> QED BY <2>1 DEF Sorted, Increasing
<1> HIDE DEF s
<1>3. s \in Seq(S) /\ DOMAIN s = 1..n /\ Len(s) = n
    BY <1>1, <1>2
<1>4. ASSUME NEW i \in 1..n, NEW j \in 1..n, s[i] = s[j]
      PROVE  i = j
  <2>1. Rank(s[i]) \in Nat
      BY <1>2, RankInjective
  <2>2. ~(i < j) /\ ~(j < i)
      BY <1>2, <1>3, <1>4, <2>1 DEF Increasing
  <2> QED BY <1>1, <2>2
<1>5. s \in Injection(1..n, S)
    BY <1>2, <1>3, <1>4 DEF Injection, IsInjective
<1>6. s \in Surjection(1..n, S)
  <2>1. IsFiniteSet(1..n) /\ Cardinality(1..n) = n
      BY <1>1, FS_Interval
  <2> QED BY <1>1, <1>5, <2>1, FS_Injection
<1>7. ToSet(s) = S
    BY <1>3, <1>2, <1>6 DEF ToSet, Surjection
<1>8. ASSUME NEW m, S = {m} PROVE s = <<m>>
  <2>1. n = 1
      BY <1>8, FS_Singleton
  <2> QED BY <2>1, <1>2, <1>3, <1>8
<1>9. \A i, j \in DOMAIN s : s[i] = s[j] => i = j
    BY <1>3, <1>4
<1> QED BY <1>3, <1>7, <1>8, <1>9 DEF s

LEMMA ReachesSelf == \A graph, x : Reaches(graph, x, x)
BY DEF Reaches

LEMMA ReachesStep ==
    ASSUME NEW graph, NEW x, NEW y, NEW z, Reaches(graph, x, y), z \in graph[y]
    PROVE  Reaches(graph, x, z)
BY DEF Reaches, ClosedIn

LEMMA ReachesOn ==
    ASSUME NEW graph, NEW x, NEW y, NEW z, Reaches(graph, x, y), Reaches(graph, y, z)
    PROVE  Reaches(graph, x, z)
BY DEF Reaches

-----------------------------------------------------------------------------
(* The steps of the search, field by field.                                *)

IsSearch(s) ==
    s = [index |-> s.index, indexes |-> s.indexes, lowlinks |-> s.lowlinks, stack |-> s.stack,
         calls |-> s.calls, components |-> s.components]

(* s and t differ in one field at most.                                    *)
AllBut(s, t, fields) ==
    /\ IsSearch(t)
    /\ "index" \in fields \/ t.index = s.index
    /\ "indexes" \in fields \/ t.indexes = s.indexes
    /\ "lowlinks" \in fields \/ t.lowlinks = s.lowlinks
    /\ "stack" \in fields \/ t.stack = s.stack
    /\ "calls" \in fields \/ t.calls = s.calls
    /\ "components" \in fields \/ t.components = s.components

LEMMA Set_index ==
    ASSUME NEW s, IsSearch(s), NEW v
    PROVE  LET t == [s EXCEPT !.index = v] IN AllBut(s, t, {"index"}) /\ t.index = v
BY DEF IsSearch, AllBut

LEMMA Set_indexes ==
    ASSUME NEW s, IsSearch(s), NEW v
    PROVE  LET t == [s EXCEPT !.indexes = v] IN AllBut(s, t, {"indexes"}) /\ t.indexes = v
BY DEF IsSearch, AllBut

LEMMA Set_lowlinks ==
    ASSUME NEW s, IsSearch(s), NEW v
    PROVE  LET t == [s EXCEPT !.lowlinks = v] IN AllBut(s, t, {"lowlinks"}) /\ t.lowlinks = v
BY DEF IsSearch, AllBut

LEMMA Set_stack ==
    ASSUME NEW s, IsSearch(s), NEW v
    PROVE  LET t == [s EXCEPT !.stack = v] IN AllBut(s, t, {"stack"}) /\ t.stack = v
BY DEF IsSearch, AllBut

LEMMA Set_calls ==
    ASSUME NEW s, IsSearch(s), NEW v
    PROVE  LET t == [s EXCEPT !.calls = v] IN AllBut(s, t, {"calls"}) /\ t.calls = v
BY DEF IsSearch, AllBut

LEMMA Set_components ==
    ASSUME NEW s, IsSearch(s), NEW v
    PROVE  LET t == [s EXCEPT !.components = v] IN AllBut(s, t, {"components"}) /\ t.components = v
BY DEF IsSearch, AllBut

LEMMA VisitIs ==
    ASSUME NEW graph, NEW s, IsSearch(s), NEW node
    PROVE  LET t == TarjanVisit(s, node, graph)
           IN  /\ IsSearch(t)
               /\ t.index = s.index + 1
               /\ t.indexes = [s.indexes EXCEPT ![node] = s.index]
               /\ t.lowlinks = [s.lowlinks EXCEPT ![node] = s.index]
               /\ t.stack = Append(s.stack, node)
               /\ t.calls = Append(s.calls, [node |-> node, todo |-> Sorted(graph[node])])
               /\ t.components = s.components
<1> DEFINE a == [s EXCEPT !.indexes = [s.indexes EXCEPT ![node] = s.index]]
           b == [a EXCEPT !.lowlinks = [s.lowlinks EXCEPT ![node] = s.index]]
           c == [b EXCEPT !.index = s.index + 1]
           d == [c EXCEPT !.stack = Append(s.stack, node)]
           e == [d EXCEPT !.calls = Append(s.calls, [node |-> node, todo |-> Sorted(graph[node])])]
<1>1. AllBut(s, a, {"indexes"}) /\ a.indexes = [s.indexes EXCEPT ![node] = s.index]
    BY Set_indexes
<1>2. TarjanVisit(s, node, graph) = e
    BY <1>1 DEF TarjanVisit, AllBut
<1> HIDE DEF a
<1>3. AllBut(a, b, {"lowlinks"}) /\ b.lowlinks = [s.lowlinks EXCEPT ![node] = s.index]
  <2> DEFINE v == [s.lowlinks EXCEPT ![node] = s.index]
  <2>1. IsSearch(a)
      BY <1>1 DEF AllBut
  <2> HIDE DEF v
  <2> QED BY <2>1, Set_lowlinks
<1> HIDE DEF b
<1>4. AllBut(b, c, {"index"}) /\ c.index = s.index + 1
  <2> DEFINE v == s.index + 1
  <2>1. IsSearch(b)
      BY <1>3 DEF AllBut
  <2> HIDE DEF v
  <2> QED BY <2>1, Set_index
<1> HIDE DEF c
<1>5. AllBut(c, d, {"stack"}) /\ d.stack = Append(s.stack, node)
  <2> DEFINE v == Append(s.stack, node)
  <2>1. IsSearch(c)
      BY <1>4 DEF AllBut
  <2> HIDE DEF v
  <2> QED BY <2>1, Set_stack
<1> HIDE DEF d
<1>6. AllBut(d, e, {"calls"}) /\ e.calls = Append(s.calls, [node |-> node, todo |-> Sorted(graph[node])])
  <2> DEFINE v == Append(s.calls, [node |-> node, todo |-> Sorted(graph[node])])
  <2>1. IsSearch(d)
      BY <1>5 DEF AllBut
  <2> HIDE DEF v
  <2> QED BY <2>1, Set_calls
<1> HIDE DEF e
<1> QED BY <1>1, <1>2, <1>3, <1>4, <1>5, <1>6 DEF AllBut

(* The innermost visit drops the target it looks at.                       *)
DropHead(calls) ==
    [calls EXCEPT ![Len(calls)] = [node |-> calls[Len(calls)].node, todo |-> Tail(calls[Len(calls)].todo)]]

LEMMA SetTodo ==
    ASSUME NEW a, NEW z, NEW v
    PROVE  [[node |-> a, todo |-> z] EXCEPT !.todo = v] = [node |-> a, todo |-> v]
OBVIOUS

LEMMA RestIs ==
    ASSUME NEW graph, NEW s, SearchType(s, graph), s.calls # <<>>
    PROVE  LET t == [s EXCEPT !.calls[Len(s.calls)].todo = Tail(@)]
           IN AllBut(s, t, {"calls"}) /\ t.calls = DropHead(s.calls)
<1> DEFINE n == Len(s.calls)
           calls == [s.calls EXCEPT ![n].todo = Tail(@)]
<1>1. IsSearch(s) /\ n \in Nat /\ n \in DOMAIN s.calls
    BY DEF SearchType, IsSearch
<1>2. s.calls[n] \in [node : DOMAIN graph, todo : Seq(DOMAIN graph)]
  <2> DEFINE X == [node : DOMAIN graph, todo : Seq(DOMAIN graph)]
  <2>1. s.calls \in Seq(X)
      BY DEF SearchType
  <2> HIDE DEF X
  <2>2. s.calls[n] \in X
      BY <1>1, <2>1
  <2> QED BY <2>2 DEF X
<1>3. [s.calls[n] EXCEPT !.todo = Tail(@)] = [node |-> s.calls[n].node, todo |-> Tail(s.calls[n].todo)]
  <2>1. PICK a, z : s.calls[n] = [node |-> a, todo |-> z]
      BY <1>2
  <2> DEFINE v == Tail(s.calls[n].todo)
  <2>2. s.calls[n].node = a
      BY <2>1
  <2> HIDE DEF v
  <2>3. [s.calls[n] EXCEPT !.todo = v] = [node |-> s.calls[n].node, todo |-> v]
      BY <2>1, <2>2, SetTodo
  <2> QED BY <2>3 DEF v
<1>4. calls = DropHead(s.calls)
    BY <1>3 DEF DropHead
<1>5. [s EXCEPT !.calls[n].todo = Tail(@)] = [s EXCEPT !.calls = calls]
    OBVIOUS
<1> HIDE DEF calls
<1> QED BY <1>1, <1>4, <1>5, Set_calls

StackAt(s, node) == CHOOSE i \in DOMAIN s.stack : s.stack[i] = node

IsRoot(s, node) == s.lowlinks[node] = s.indexes[node]

StackAfter(s, node) == IF IsRoot(s, node) THEN SubSeq(s.stack, 1, StackAt(s, node) - 1) ELSE s.stack

ComponentsAfter(s, node) ==
    IF IsRoot(s, node) THEN s.components \cup {ToSet(SubSeq(s.stack, StackAt(s, node), Len(s.stack)))}
    ELSE s.components

LEMMA ReturnIs ==
    ASSUME NEW s, IsSearch(s), NEW node
    PROVE  LET t == TarjanReturn(s, node)
               callers == Front(s.calls)
           IN  /\ AllBut(s, t, {"calls", "lowlinks", "stack", "components"})
               /\ t.calls = callers
               /\ t.lowlinks = IF callers = <<>> THEN s.lowlinks
                    ELSE [s.lowlinks EXCEPT ![Last(callers).node] = Min({s.lowlinks[Last(callers).node], s.lowlinks[node]})]
               /\ t.stack = StackAfter(s, node)
               /\ t.components = ComponentsAfter(s, node)
<1> DEFINE callers == Front(s.calls)
           low == IF callers = <<>> THEN s.lowlinks
                    ELSE [s.lowlinks EXCEPT ![Last(callers).node] = Min({s.lowlinks[Last(callers).node], s.lowlinks[node]})]
           stack == StackAfter(s, node)
           comps == ComponentsAfter(s, node)
           a == [s EXCEPT !.calls = callers]
           b == [a EXCEPT !.lowlinks = low]
           c == [b EXCEPT !.stack = stack]
           d == [c EXCEPT !.components = comps]
<1>1. TarjanReturn(s, node) = d
    BY DEF TarjanReturn, StackAt, IsRoot, StackAfter, ComponentsAfter
<1> HIDE DEF callers, low, stack, comps
<1>2. AllBut(s, a, {"calls"}) /\ a.calls = callers
    BY Set_calls
<1> HIDE DEF a
<1>3. AllBut(a, b, {"lowlinks"}) /\ b.lowlinks = low
    BY <1>2, Set_lowlinks DEF AllBut
<1> HIDE DEF b
<1>4. AllBut(b, c, {"stack"}) /\ c.stack = stack
    BY <1>3, Set_stack DEF AllBut
<1> HIDE DEF c
<1>5. AllBut(c, d, {"components"}) /\ d.components = comps
    BY <1>4, Set_components DEF AllBut
<1> HIDE DEF d
<1>6. /\ AllBut(s, d, {"calls", "lowlinks", "stack", "components"})
      /\ d.calls = callers /\ d.lowlinks = low /\ d.stack = stack /\ d.components = comps
    BY <1>2, <1>3, <1>4, <1>5 DEF AllBut
<1> QED BY <1>1, <1>6 DEF callers, low, stack, comps

LEMMA SearchFacts ==
    ASSUME NEW graph, NEW s, SearchType(s, graph)
    PROVE  /\ IsSearch(s)
           /\ Len(s.calls) \in Nat /\ DOMAIN s.calls = 1..Len(s.calls)
           /\ Len(s.stack) \in Nat /\ DOMAIN s.stack = 1..Len(s.stack)
           /\ OnStack(s) \subseteq DOMAIN graph
           /\ Settled(s) \subseteq DOMAIN graph
           /\ \A i \in DOMAIN s.calls :
                /\ Node(s, i) \in DOMAIN graph
                /\ s.calls[i].todo \in Seq(DOMAIN graph)
                /\ s.calls[i] = [node |-> Node(s, i), todo |-> s.calls[i].todo]
<1>1. IsSearch(s)
    BY DEF SearchType, IsSearch
<1> DEFINE X == [node : DOMAIN graph, todo : Seq(DOMAIN graph)]
<1>2. s.calls \in Seq(X) /\ s.stack \in Seq(DOMAIN graph) /\ s.components \subseteq SUBSET DOMAIN graph
    BY DEF SearchType
<1>3. \A c \in X : /\ c.node \in DOMAIN graph /\ c.todo \in Seq(DOMAIN graph)
                   /\ c = [node |-> c.node, todo |-> c.todo]
    OBVIOUS
<1> HIDE DEF X
<1>4. /\ Len(s.calls) \in Nat /\ DOMAIN s.calls = 1..Len(s.calls)
      /\ \A i \in DOMAIN s.calls : s.calls[i] \in X
    BY <1>2
<1>5. Len(s.stack) \in Nat /\ DOMAIN s.stack = 1..Len(s.stack) /\ OnStack(s) \subseteq DOMAIN graph
    BY <1>2 DEF OnStack, ToSet
<1>6. Settled(s) \subseteq DOMAIN graph
    BY <1>2 DEF Settled
<1>7. \A i \in DOMAIN s.calls :
        /\ s.calls[i].node \in DOMAIN graph
        /\ s.calls[i].todo \in Seq(DOMAIN graph)
        /\ s.calls[i] = [node |-> s.calls[i].node, todo |-> s.calls[i].todo]
    BY <1>3, <1>4
<1> QED BY <1>1, <1>4, <1>5, <1>6, <1>7 DEF Node

Once(q) == \A k, l \in DOMAIN q : q[k] = q[l] => k = l

LEMMA TailOnce ==
    ASSUME NEW S, NEW q \in Seq(S), q # <<>>, Once(q)
    PROVE  /\ Head(q) \in S /\ Head(q) \in ToSet(q)
           /\ Tail(q) \in Seq(S) /\ Once(Tail(q))
           /\ ToSet(Tail(q)) = ToSet(q) \ {Head(q)}
<1>1. /\ Len(q) \in Nat /\ Len(q) >= 1 /\ DOMAIN q = 1..Len(q)
      /\ Head(q) = q[1] /\ q[1] \in S
      /\ Tail(q) \in Seq(S) /\ Len(Tail(q)) = Len(q) - 1
      /\ DOMAIN Tail(q) = 1..(Len(q) - 1)
      /\ \A i \in 1..(Len(q) - 1) : Tail(q)[i] = q[i + 1]
    OBVIOUS
<1>2. Once(Tail(q))
  <2> SUFFICES ASSUME NEW k \in 1..(Len(q) - 1), NEW l \in 1..(Len(q) - 1), q[k + 1] = q[l + 1]
               PROVE  k = l
      BY <1>1 DEF Once
  <2>1. k + 1 \in DOMAIN q /\ l + 1 \in DOMAIN q
      BY <1>1
  <2>2. k + 1 = l + 1
      BY <2>1 DEF Once
  <2> QED BY <2>2
<1>3. ASSUME NEW x \in ToSet(Tail(q)) PROVE x \in ToSet(q) \ {Head(q)}
  <2>1. PICK i \in 1..(Len(q) - 1) : x = q[i + 1]
      BY <1>1 DEF ToSet
  <2>2. i + 1 \in DOMAIN q /\ 1 \in DOMAIN q /\ i + 1 # 1
      BY <1>1
  <2>3. q[i + 1] # q[1]
      BY <2>2 DEF Once
  <2> QED BY <2>1, <2>2, <2>3, <1>1 DEF ToSet
<1>4. ASSUME NEW x \in ToSet(q), x # Head(q) PROVE x \in ToSet(Tail(q))
  <2>1. PICK i \in 1..Len(q) : x = q[i]
      BY <1>1 DEF ToSet
  <2>2. i # 1
      BY <2>1, <1>1, <1>4
  <2>3. i - 1 \in 1..(Len(q) - 1) /\ (i - 1) + 1 = i
      BY <2>2, <1>1
  <2> QED BY <2>1, <2>3, <1>1 DEF ToSet
<1>5. Head(q) \in ToSet(q)
    BY <1>1 DEF ToSet
<1> QED BY <1>1, <1>2, <1>3, <1>4, <1>5

(* The state after the target is dropped: only the innermost visit's todo  *)
(* has changed, and one more require was looked at.                        *)
Dropped(s, r) ==
    LET n == Len(s.calls)
    IN /\ AllBut(s, r, {"calls"})
       /\ DOMAIN r.calls = DOMAIN s.calls /\ Len(r.calls) = n
       /\ \A i \in DOMAIN s.calls : Node(r, i) = Node(s, i)
       /\ \A i \in DOMAIN s.calls : i # n => r.calls[i].todo = s.calls[i].todo
       /\ r.calls[n].todo = Tail(s.calls[n].todo)

LEMMA DropIs ==
    ASSUME NEW graph, NEW s, SearchType(s, graph), s.calls # <<>>,
           s.calls[Len(s.calls)].todo # <<>>,
           NEW r, AllBut(s, r, {"calls"}), r.calls = DropHead(s.calls)
    PROVE  Dropped(s, r) /\ SearchType(r, graph)
<1> DEFINE n == Len(s.calls)
           X == [node : DOMAIN graph, todo : Seq(DOMAIN graph)]
           c == [node |-> s.calls[n].node, todo |-> Tail(s.calls[n].todo)]
<1>1. n \in Nat /\ n \in DOMAIN s.calls /\ DOMAIN s.calls = 1..n
    BY SearchFacts DEF SearchType
<1>2. s.calls[n].node \in DOMAIN graph /\ s.calls[n].todo \in Seq(DOMAIN graph)
    BY <1>1, SearchFacts DEF Node
<1>3. c \in X
  <2> DEFINE q == s.calls[n].todo
             D == DOMAIN graph
  <2>1. q \in Seq(D) /\ q # <<>>
      BY <1>2
  <2> HIDE DEF q, D
  <2>2. Tail(q) \in Seq(D)
      BY <2>1
  <2> USE DEF q, D
  <2> QED BY <1>2, <2>2
<1>4. r.calls = [s.calls EXCEPT ![n] = c]
    BY DEF DropHead
<1>5. s.calls \in Seq(X)
    BY DEF SearchType
<1>6. c.node = s.calls[n].node /\ c.todo = Tail(s.calls[n].todo)
    OBVIOUS
<1> HIDE DEF X, c
<1>7. r.calls \in Seq(X) /\ DOMAIN r.calls = DOMAIN s.calls /\ Len(r.calls) = n
    BY <1>1, <1>3, <1>4, <1>5
<1>8. \A i \in DOMAIN s.calls : r.calls[i] = IF i = n THEN c ELSE s.calls[i]
    BY <1>1, <1>4
<1>9. Dropped(s, r)
    BY <1>1, <1>6, <1>7, <1>8 DEF Dropped, Node
<1>10. SearchType(r, graph)
    BY <1>7 DEF SearchType, AllBut, IsSearch, X
<1> QED BY <1>9, <1>10

LEMMA DropScans ==
    ASSUME NEW graph, NEW s, SearchType(s, graph), Nested(s, graph), s.calls # <<>>,
           s.calls[Len(s.calls)].todo # <<>>, NEW r, Dropped(s, r)
    PROVE  LET n == Len(s.calls)
           IN /\ n \in DOMAIN s.calls
              /\ Head(s.calls[n].todo) \in graph[Node(s, n)]
              /\ \A x, y : Scanned(r, x, y) <=>
                    Scanned(s, x, y) \/ (x = Node(s, n) /\ y = Head(s.calls[n].todo))
              /\ ~Scanned(s, Node(s, n), Head(s.calls[n].todo))
              /\ ToSet(r.calls[n].todo) \subseteq ToSet(s.calls[n].todo)
              /\ Once(r.calls[n].todo)
<1> DEFINE n == Len(s.calls)
           q == s.calls[n].todo
<1>1. n \in Nat /\ n \in DOMAIN s.calls /\ DOMAIN s.calls = 1..n
    BY SearchFacts DEF SearchType
<1>2. q \in Seq(DOMAIN graph) /\ q # <<>> /\ ToSet(q) \subseteq graph[Node(s, n)]
    BY <1>1, SearchFacts DEF Nested
<1>3. Once(q)
    BY <1>1 DEF Nested, Once
<1>4. r.calls[n].todo = Tail(q)
    BY DEF Dropped
<1> HIDE DEF q
<1>5. Head(q) \in ToSet(q) /\ Once(Tail(q)) /\ ToSet(Tail(q)) = ToSet(q) \ {Head(q)}
    BY <1>2, <1>3, TailOnce
<1>6. \A i \in DOMAIN s.calls : i # n => Node(s, i) # Node(s, n)
  <2> SUFFICES ASSUME NEW i \in DOMAIN s.calls, i # n, Node(s, i) = Node(s, n) PROVE FALSE
      OBVIOUS
  <2>1. i < n
      BY <1>1
  <2>2. s.indexes[Node(s, i)] < s.indexes[Node(s, n)]
      BY <1>1, <2>1 DEF Nested
  <2>3. s.indexes[Node(s, n)] \in Int
      BY <1>1, SearchFacts DEF SearchType
  <2> QED BY <2>2, <2>3
<1>7. ASSUME NEW x, NEW y
      PROVE  Scanned(r, x, y) <=> Scanned(s, x, y) \/ (x = Node(s, n) /\ y = Head(q))
  <2>1. Scanned(r, x, y) <=> \A i \in DOMAIN s.calls : Node(s, i) = x => y \notin ToSet(r.calls[i].todo)
      BY DEF Scanned, Dropped
  <2>2. CASE x = Node(s, n)
    <3>1. Scanned(r, x, y) <=> y \notin ToSet(Tail(q))
        BY <2>1, <2>2, <1>1, <1>4, <1>6
    <3>2. Scanned(s, x, y) <=> y \notin ToSet(q)
        BY <2>2, <1>1, <1>6 DEF Scanned, q
    <3> QED BY <2>2, <3>1, <3>2, <1>5
  <2>3. CASE x # Node(s, n)
    <3>1. Scanned(r, x, y) <=> Scanned(s, x, y)
        BY <2>1, <2>3, <1>1 DEF Dropped, Scanned
    <3> QED BY <2>3, <3>1
  <2> QED BY <2>2, <2>3
<1>8. ~Scanned(s, Node(s, n), Head(q))
    BY <1>1, <1>5 DEF Scanned, q
<1> QED BY <1>1, <1>2, <1>4, <1>5, <1>7, <1>8 DEF q

(* Dropping a target leaves the parts of the invariant that do not speak   *)
(* of what was looked at.                                                  *)
LEMMA DropKeeps ==
    ASSUME NEW graph, NEW s, SearchInv(s, graph), s.calls # <<>>,
           s.calls[Len(s.calls)].todo # <<>>, NEW r, Dropped(s, r), SearchType(r, graph)
    PROVE  /\ OnStack(r) = OnStack(s) /\ Settled(r) = Settled(s)
           /\ \A i, x : Innermost(r, i, x) <=> Innermost(s, i, x)
           /\ Numbered(r, graph) /\ Nested(r, graph) /\ Connected(r, graph) /\ Components(r, graph)
<1>1. OnStack(r) = OnStack(s) /\ Settled(r) = Settled(s)
    BY DEF Dropped, AllBut, OnStack, Settled
<1>2. \A i, x : Innermost(r, i, x) <=> Innermost(s, i, x)
    BY DEF Dropped, AllBut, Innermost
<1>3. Numbered(r, graph)
    BY <1>1 DEF SearchInv, Dropped, AllBut, Numbered
<1>4. Connected(r, graph)
    BY <1>1, <1>2 DEF SearchInv, Dropped, AllBut, Connected
<1>5. Components(r, graph)
    BY <1>1 DEF SearchInv, Dropped, AllBut, Components
<1> DEFINE n == Len(s.calls)
<1>6. Nested(s, graph)
    BY DEF SearchInv
<1>7. /\ n \in DOMAIN s.calls
      /\ ToSet(r.calls[n].todo) \subseteq ToSet(s.calls[n].todo)
      /\ Once(r.calls[n].todo)
    BY <1>6, DropScans DEF SearchInv
<1>8. ASSUME NEW i \in DOMAIN r.calls
      PROVE  /\ ToSet(r.calls[i].todo) \subseteq graph[Node(r, i)]
             /\ Once(r.calls[i].todo)
  <2>1. i \in DOMAIN s.calls /\ Node(r, i) = Node(s, i)
      BY DEF Dropped
  <2>2. ToSet(s.calls[i].todo) \subseteq graph[Node(s, i)] /\ Once(s.calls[i].todo)
      BY <1>6, <2>1 DEF Nested, Once
  <2>3. CASE i = n
      BY <2>1, <2>2, <2>3, <1>7
  <2>4. CASE i # n
      BY <2>1, <2>2, <2>4 DEF Dropped
  <2> QED BY <2>3, <2>4
<1>9. Nested(r, graph)
  <2>1. \A i \in DOMAIN r.calls : Node(r, i) \in OnStack(r)
      BY <1>1, <1>6 DEF Nested, Dropped
  <2>2. \A i, j \in DOMAIN r.calls : i < j => r.indexes[Node(r, i)] < r.indexes[Node(r, j)]
      BY <1>6 DEF Nested, Dropped, AllBut
  <2>3. \A x \in OnStack(r) : \E i \in DOMAIN r.calls : Innermost(r, i, x)
      BY <1>1, <1>2, <1>6 DEF Nested, Dropped
  <2> QED BY <2>1, <2>2, <2>3, <1>8 DEF Nested, Once
<1> QED BY <1>1, <1>2, <1>3, <1>4, <1>5, <1>9

(* A visit begins: the module is new, the innermost visit, if there is     *)
(* one, reaches it, and nothing else that was looked at is missing.        *)
MayVisit(r, graph, x) ==
    /\ SearchType(r, graph) /\ Numbered(r, graph) /\ Nested(r, graph)
    /\ Connected(r, graph) /\ LowLinks(r, graph) /\ Components(r, graph)
    /\ x \in DOMAIN graph /\ r.indexes[x] = -1
    /\ \A u \in OnStack(r) : \A y \in graph[u] : Scanned(r, u, y) => r.indexes[y] # -1 \/ y = x
    /\ r.calls # <<>> => Reaches(graph, Node(r, Len(r.calls)), x)

VisitStep(r, t, x, graph) ==
    LET n == Len(r.calls)
    IN /\ SearchType(t, graph)
       /\ n \in Nat /\ DOMAIN r.calls = 1..n /\ DOMAIN t.calls = 1..(n + 1)
       /\ \A i \in 1..n : Node(t, i) = Node(r, i) /\ t.calls[i].todo = r.calls[i].todo
       /\ Node(t, n + 1) = x
       /\ ToSet(t.calls[n + 1].todo) = graph[x] /\ Once(t.calls[n + 1].todo)
       /\ OnStack(t) = OnStack(r) \cup {x} /\ x \notin OnStack(r)
       /\ Settled(t) = Settled(r) /\ t.components = r.components
       /\ t.index = r.index + 1 /\ r.index \in Nat
       /\ t.indexes[x] = r.index /\ t.lowlinks[x] = r.index
       /\ \A y \in (DOMAIN graph) \ {x} : t.indexes[y] = r.indexes[y] /\ t.lowlinks[y] = r.lowlinks[y]
       /\ Len(t.stack) = Len(r.stack) + 1 /\ t.stack[Len(r.stack) + 1] = x
       /\ \A i \in 1..Len(r.stack) : t.stack[i] = r.stack[i]

LEMMA VisitShape ==
    ASSUME NEW graph, IsGraph(graph), NEW r, NEW x, MayVisit(r, graph, x),
           NEW t, t = TarjanVisit(r, x, graph)
    PROVE  VisitStep(r, t, x, graph)
<1> DEFINE n == Len(r.calls)
           X == [node : DOMAIN graph, todo : Seq(DOMAIN graph)]
           c == [node |-> x, todo |-> Sorted(graph[x])]
<1>1. SearchType(r, graph) /\ x \in DOMAIN graph
    BY DEF MayVisit
<1>2. graph[x] \subseteq DOMAIN graph /\ graph[x] \in SUBSET ToSet(LibraryOrder)
    BY <1>1 DEF IsGraph
<1>3. Sorted(graph[x]) \in Seq(graph[x]) /\ ToSet(Sorted(graph[x])) = graph[x] /\ Once(Sorted(graph[x]))
    BY <1>2, SortedIs DEF Once
<1>4. Sorted(graph[x]) \in Seq(DOMAIN graph)
    BY <1>2, <1>3
<1>5. c \in X /\ c.node = x /\ c.todo = Sorted(graph[x])
    BY <1>1, <1>4
<1>6. /\ r.calls \in Seq(X) /\ r.stack \in Seq(DOMAIN graph) /\ r.index \in Nat
      /\ r.indexes \in [DOMAIN graph -> Int] /\ r.lowlinks \in [DOMAIN graph -> Int]
      /\ r.components \subseteq SUBSET DOMAIN graph
    BY <1>1 DEF SearchType
<1>7. /\ IsSearch(t) /\ t.index = r.index + 1 /\ t.components = r.components
      /\ t.indexes = [r.indexes EXCEPT ![x] = r.index]
      /\ t.lowlinks = [r.lowlinks EXCEPT ![x] = r.index]
      /\ t.stack = Append(r.stack, x)
      /\ t.calls = Append(r.calls, c)
  <2>1. IsSearch(r)
      BY <1>1, SearchFacts
  <2> QED BY <2>1, VisitIs
<1> HIDE DEF X, c
<1>8. /\ t.calls \in Seq(X) /\ n \in Nat /\ DOMAIN r.calls = 1..n /\ DOMAIN t.calls = 1..(n + 1)
      /\ \A i \in 1..n : t.calls[i] = r.calls[i]
      /\ t.calls[n + 1] = c
    BY <1>5, <1>6, <1>7
<1>9. /\ t.stack \in Seq(DOMAIN graph) /\ Len(t.stack) = Len(r.stack) + 1 /\ Len(r.stack) \in Nat
      /\ t.stack[Len(r.stack) + 1] = x
      /\ \A i \in 1..Len(r.stack) : t.stack[i] = r.stack[i]
    BY <1>1, <1>6, <1>7
<1>10. OnStack(t) = OnStack(r) \cup {x}
  <2>1. OnStack(t) = {t.stack[i] : i \in 1..(Len(r.stack) + 1)}
      BY <1>9 DEF OnStack, ToSet
  <2>2. OnStack(r) = {r.stack[i] : i \in 1..Len(r.stack)}
      BY <1>6 DEF OnStack, ToSet
  <2>3. ASSUME NEW y \in OnStack(t) PROVE y \in OnStack(r) \cup {x}
    <3>1. PICK i \in 1..(Len(r.stack) + 1) : y = t.stack[i]
        BY <2>1
    <3>2. CASE i = Len(r.stack) + 1
        BY <3>1, <3>2, <1>9
    <3>3. CASE i # Len(r.stack) + 1
        BY <3>1, <3>3, <1>9, <2>2
    <3> QED BY <3>2, <3>3
  <2>4. ASSUME NEW y \in OnStack(r) PROVE y \in OnStack(t)
      BY <2>1, <2>2, <1>9
  <2>5. x \in OnStack(t)
      BY <2>1, <1>9
  <2> QED BY <2>3, <2>4, <2>5
<1>11. x \notin OnStack(r)
    BY DEF MayVisit, Numbered
<1>12. SearchType(t, graph)
    BY <1>6, <1>7, <1>8, <1>9, <1>1 DEF SearchType, IsSearch, X
<1>13. /\ t.indexes[x] = r.index /\ t.lowlinks[x] = r.index
       /\ \A y \in (DOMAIN graph) \ {x} : t.indexes[y] = r.indexes[y] /\ t.lowlinks[y] = r.lowlinks[y]
    BY <1>1, <1>6, <1>7
<1>14. Settled(t) = Settled(r)
    BY <1>7 DEF Settled
<1>15. /\ \A i \in 1..n : Node(t, i) = Node(r, i) /\ t.calls[i].todo = r.calls[i].todo
       /\ Node(t, n + 1) = x
       /\ ToSet(t.calls[n + 1].todo) = graph[x] /\ Once(t.calls[n + 1].todo)
    BY <1>3, <1>5, <1>8 DEF Node
<1> QED BY <1>6, <1>7, <1>8, <1>9, <1>10, <1>11, <1>12, <1>13, <1>14, <1>15, Zenon DEF VisitStep

LEMMA VisitKeeps ==
    ASSUME NEW graph, IsGraph(graph), NEW r, NEW x, MayVisit(r, graph, x),
           NEW t, t = TarjanVisit(r, x, graph)
    PROVE  SearchInv(t, graph)
<1> DEFINE n == Len(r.calls)
<1>1. VisitStep(r, t, x, graph)
    BY VisitShape
<1>c. /\ n \in Nat /\ DOMAIN r.calls = 1..n /\ DOMAIN t.calls = 1..(n + 1)
      /\ \A i \in 1..n : Node(t, i) = Node(r, i)
      /\ Node(t, n + 1) = x
    BY <1>1 DEF VisitStep
<1>t. /\ \A i \in 1..n : t.calls[i].todo = r.calls[i].todo
      /\ ToSet(t.calls[n + 1].todo) = graph[x] /\ Once(t.calls[n + 1].todo)
    BY <1>1 DEF VisitStep
<1>s. /\ OnStack(t) = OnStack(r) \cup {x} /\ x \notin OnStack(r)
      /\ Settled(t) = Settled(r) /\ t.components = r.components
    BY <1>1 DEF VisitStep
<1>i. /\ t.index = r.index + 1 /\ r.index \in Nat
      /\ t.indexes[x] = r.index /\ t.lowlinks[x] = r.index
      /\ \A y \in (DOMAIN graph) \ {x} : t.indexes[y] = r.indexes[y] /\ t.lowlinks[y] = r.lowlinks[y]
    BY <1>1 DEF VisitStep
<1>k. /\ Len(t.stack) = Len(r.stack) + 1 /\ t.stack[Len(r.stack) + 1] = x
      /\ \A i \in 1..Len(r.stack) : t.stack[i] = r.stack[i]
      /\ SearchType(t, graph)
    BY <1>1 DEF VisitStep
<1>2. /\ SearchType(r, graph) /\ Numbered(r, graph) /\ Nested(r, graph) /\ Connected(r, graph)
      /\ LowLinks(r, graph) /\ Components(r, graph) /\ x \in DOMAIN graph /\ r.indexes[x] = -1
    BY DEF MayVisit
<1>3. ASSUME NEW y \in OnStack(r)
      PROVE  /\ y \in DOMAIN graph /\ y # x /\ t.indexes[y] = r.indexes[y]
             /\ r.indexes[y] \in 0..(r.index - 1)
  <2>1. y \in DOMAIN graph /\ y # x
      BY <1>c, <1>s, <1>i, <1>2, SearchFacts
  <2>2. r.indexes[y] \in -1..(r.index - 1) /\ r.indexes[y] # -1
      BY <1>2, <2>1 DEF Numbered
  <2> QED BY <1>c, <1>s, <1>i, <2>1, <2>2
<1>4. \A i \in 1..n : Node(r, i) \in OnStack(r)
    BY <1>c, <1>s, <1>i, <1>2 DEF Nested
<1>5. ASSUME NEW y \in OnStack(r), NEW i
      PROVE  Innermost(t, i, y) <=> Innermost(r, i, y)
  <2>1. \A j \in 1..n : t.indexes[Node(t, j)] = r.indexes[Node(r, j)]
      BY <1>c, <1>s, <1>i, <1>3, <1>4
  <2>2. t.indexes[y] = r.indexes[y] /\ t.indexes[y] < t.indexes[Node(t, n + 1)]
      BY <1>c, <1>s, <1>i, <1>3
  <2>3. ~Innermost(t, n + 1, y)
      BY <1>c, <1>s, <1>i, <1>3, <2>2 DEF Innermost
  <2>4. CASE i \in 1..n
    <3>1. Innermost(t, i, y) <=> /\ r.indexes[Node(r, i)] <= r.indexes[y]
                                 /\ \A j \in 1..(n + 1) : j > i => t.indexes[y] < t.indexes[Node(t, j)]
        BY <2>1, <2>2, <2>4, <1>c DEF Innermost
    <3>2. Innermost(r, i, y) <=> /\ r.indexes[Node(r, i)] <= r.indexes[y]
                                 /\ \A j \in 1..n : j > i => t.indexes[y] < t.indexes[Node(t, j)]
        BY <2>1, <2>2, <2>4, <1>c DEF Innermost
    <3> QED BY <3>1, <3>2, <2>2, <1>c
  <2>5. CASE i \notin 1..n
      BY <2>3, <2>5, <1>c DEF Innermost
  <2> QED BY <2>4, <2>5
<1>6. ASSUME NEW i \in 1..n PROVE t.indexes[Node(t, i)] < t.indexes[x]
    BY <1>c, <1>s, <1>i, <1>3, <1>4
<1>7. \A i : Innermost(t, i, x) <=> i = n + 1
    BY <1>c, <1>s, <1>i, <1>6 DEF Innermost
<1>8. Numbered(t, graph)
  <2>1. \A y \in DOMAIN graph : t.indexes[y] \in -1..(t.index - 1)
      BY <1>c, <1>s, <1>i, <1>2 DEF Numbered
  <2>2. ASSUME NEW i \in DOMAIN t.stack, NEW j \in DOMAIN t.stack, i < j
        PROVE  t.indexes[t.stack[i]] < t.indexes[t.stack[j]]
    <3>1. Len(r.stack) \in Nat /\ DOMAIN r.stack = 1..Len(r.stack) /\ DOMAIN t.stack = 1..(Len(r.stack) + 1)
        BY <1>k, <1>2, SearchFacts
    <3>2. \A k \in 1..Len(r.stack) : r.stack[k] \in OnStack(r)
        BY <3>1 DEF OnStack, ToSet
    <3>3. i \in 1..Len(r.stack) /\ t.stack[i] = r.stack[i]
        BY <1>k, <2>2, <3>1
    <3>4. CASE j = Len(r.stack) + 1
      <4>1. r.stack[i] \in OnStack(r)
          BY <3>2, <3>3
      <4>2. t.indexes[r.stack[i]] < r.index
          BY <4>1, <1>3, <1>i
      <4> QED BY <4>2, <3>3, <3>4, <1>k, <1>i
    <3>5. CASE j # Len(r.stack) + 1
      <4>1. j \in 1..Len(r.stack) /\ t.stack[j] = r.stack[j]
          BY <1>k, <3>1, <3>5
      <4>2. r.indexes[r.stack[i]] < r.indexes[r.stack[j]]
          BY <1>2, <2>2, <3>1, <3>3, <4>1 DEF Numbered
      <4> QED BY <1>3, <3>2, <3>3, <4>1, <4>2
    <3> QED BY <3>4, <3>5
  <2>3. \A y \in DOMAIN graph : t.indexes[y] # -1 <=> y \in OnStack(t) \cup Settled(t)
      BY <1>c, <1>s, <1>i, <1>2 DEF Numbered
  <2>4. x \notin Settled(r)
      BY <1>2 DEF Numbered
  <2>5. OnStack(t) \cap Settled(t) = {}
      BY <1>c, <1>s, <1>i, <1>2, <2>4 DEF Numbered
  <2> QED BY <2>1, <2>2, <2>3, <2>5 DEF Numbered
<1>9. Nested(t, graph)
  <2>1. \A i \in DOMAIN t.calls : Node(t, i) \in OnStack(t)
    <3> SUFFICES ASSUME NEW i \in DOMAIN t.calls PROVE Node(t, i) \in OnStack(t)
        OBVIOUS
    <3>1. CASE i = n + 1
        BY <1>c, <1>s, <1>i, <3>1
    <3>2. CASE i # n + 1
        BY <1>c, <1>s, <1>i, <1>4, <3>2
    <3> QED BY <3>1, <3>2
  <2>2. ASSUME NEW i \in DOMAIN t.calls, NEW j \in DOMAIN t.calls, i < j
        PROVE  t.indexes[Node(t, i)] < t.indexes[Node(t, j)]
    <3>1. i \in 1..n
        BY <1>c, <1>s, <1>i, <2>2
    <3>2. CASE j = n + 1
        BY <1>c, <1>s, <1>i, <1>6, <3>1, <3>2
    <3>3. CASE j # n + 1
      <4>1. j \in 1..n
          BY <1>c, <1>s, <1>i, <3>3
      <4>2. r.indexes[Node(r, i)] < r.indexes[Node(r, j)]
          BY <1>c, <1>s, <1>i, <1>2, <2>2, <3>1, <4>1 DEF Nested
      <4> QED BY <1>c, <1>s, <1>i, <1>3, <1>4, <3>1, <4>1, <4>2
    <3> QED BY <3>2, <3>3
  <2>3. \A y \in OnStack(t) : \E i \in DOMAIN t.calls : Innermost(t, i, y)
    <3> SUFFICES ASSUME NEW y \in OnStack(t) PROVE \E i \in DOMAIN t.calls : Innermost(t, i, y)
        OBVIOUS
    <3>1. CASE y = x
      <4>1. n + 1 \in DOMAIN t.calls
          BY <1>c
      <4> QED BY <4>1, <1>7, <3>1
    <3>2. CASE y \in OnStack(r)
      <4>1. PICK i \in DOMAIN r.calls : Innermost(r, i, y)
          BY <1>2, <3>2 DEF Nested
      <4> QED BY <1>c, <1>s, <1>i, <1>5, <3>2, <4>1
    <3> QED BY <1>c, <1>s, <1>i, <3>1, <3>2
  <2>4. ASSUME NEW i \in DOMAIN t.calls
        PROVE  ToSet(t.calls[i].todo) \subseteq graph[Node(t, i)] /\ Once(t.calls[i].todo)
    <3>1. CASE i = n + 1
        BY <1>c, <1>t, <3>1
    <3>2. CASE i # n + 1
      <4>1. i \in 1..n /\ i \in DOMAIN r.calls
          BY <1>c, <1>s, <1>i, <3>2
      <4>2. ToSet(r.calls[i].todo) \subseteq graph[Node(r, i)] /\ Once(r.calls[i].todo)
          BY <1>2, <4>1 DEF Nested, Once
      <4> QED BY <1>c, <1>t, <4>1, <4>2
    <3> QED BY <3>1, <3>2
  <2> QED BY <2>1, <2>2, <2>3, <2>4 DEF Nested, Once
<1>10. ASSUME NEW u \in OnStack(r), NEW y PROVE Scanned(t, u, y) <=> Scanned(r, u, y)
  <2>1. u # x
      BY <1>3
  <2>2. \A i \in DOMAIN t.calls : Node(t, i) = u => i \in 1..n
      BY <1>c, <2>1
  <2>3. 1..n \subseteq DOMAIN t.calls
      BY <1>c
  <2> QED BY <1>c, <1>t, <2>2, <2>3 DEF Scanned
<1>11. ASSUME NEW y \in graph[x] PROVE ~Scanned(t, x, y)
    BY <1>c, <1>t DEF Scanned
<1>12. ScannedFound(t, graph)
  <2> SUFFICES ASSUME NEW u \in OnStack(t), NEW y \in graph[u], Scanned(t, u, y)
               PROVE  t.indexes[y] # -1
      BY DEF ScannedFound
  <2>1. u \in OnStack(r)
      BY <1>c, <1>s, <1>i, <1>11
  <2>2. r.indexes[y] # -1 \/ y = x
      BY <1>10, <2>1 DEF MayVisit
  <2>3. y \in DOMAIN graph
      BY <1>3, <2>1 DEF IsGraph
  <2> QED BY <1>c, <1>s, <1>i, <2>2, <2>3
<1>13. Connected(t, graph)
  <2>1. ASSUME NEW i \in DOMAIN t.calls, NEW y \in OnStack(t), t.indexes[Node(t, i)] <= t.indexes[y]
        PROVE  Reaches(graph, Node(t, i), y)
    <3>1. CASE i = n + 1
      <4>1. y = x
        <5> SUFFICES ASSUME y \in OnStack(r) PROVE FALSE
            BY <1>s
        <5> QED BY <1>c, <1>s, <1>i, <1>3, <2>1, <3>1
      <4> QED BY <1>c, <1>s, <1>i, <3>1, <4>1, ReachesSelf
    <3>2. CASE i # n + 1
      <4>1. i \in 1..n /\ n \in 1..n /\ r.calls # <<>>
          BY <1>c, <1>s, <1>i, <3>2
      <4>2. CASE y \in OnStack(r)
          BY <1>c, <1>s, <1>i, <1>2, <1>3, <1>4, <2>1, <4>1, <4>2 DEF Connected
      <4>3. CASE y = x
        <5>1. Reaches(graph, Node(r, n), x)
            BY <4>1 DEF MayVisit
        <5>2. Reaches(graph, Node(r, i), Node(r, n))
          <6>1. r.indexes[Node(r, i)] <= r.indexes[Node(r, n)]
            <7>1. i = n \/ r.indexes[Node(r, i)] < r.indexes[Node(r, n)]
              <8>1. \A k, j \in 1..n : k < j => r.indexes[Node(r, k)] < r.indexes[Node(r, j)]
                  BY <1>c, <1>2 DEF Nested
              <8>2. i = n \/ i < n
                  BY <1>c, <4>1
              <8> QED BY <4>1, <8>1, <8>2
            <7> QED BY <7>1, <1>3, <1>4, <4>1
          <6> QED BY <6>1, <1>c, <1>s, <1>i, <1>2, <1>4, <4>1 DEF Connected
        <5> QED BY <1>c, <1>s, <1>i, <4>1, <4>3, <5>1, <5>2, ReachesOn
      <4> QED BY <1>c, <1>s, <1>i, <4>2, <4>3
    <3> QED BY <3>1, <3>2
  <2>2. ASSUME NEW y \in OnStack(t), NEW i \in DOMAIN t.calls, Innermost(t, i, y)
        PROVE  Reaches(graph, y, Node(t, i))
    <3>1. CASE y = x
        BY <1>c, <1>s, <1>i, <1>7, <2>2, <3>1, ReachesSelf
    <3>2. CASE y \in OnStack(r)
      <4>1. Innermost(r, i, y) /\ i \in 1..n
          BY <1>c, <1>s, <1>i, <1>5, <2>2, <3>2 DEF Innermost
      <4> QED BY <1>c, <1>s, <1>i, <1>2, <3>2, <4>1 DEF Connected
    <3> QED BY <1>c, <1>s, <1>i, <3>1, <3>2
  <2> QED BY <2>1, <2>2 DEF Connected
<1>14. LowLinks(t, graph)
  <2>1. ASSUME NEW i \in DOMAIN t.calls
        PROVE  \E w \in OnStack(t) : /\ t.lowlinks[Node(t, i)] = t.indexes[w]
                                     /\ t.indexes[w] <= t.indexes[Node(t, i)]
                                     /\ Reaches(graph, Node(t, i), w)
    <3>1. CASE i = n + 1
        BY <1>c, <1>s, <1>i, <3>1, ReachesSelf
    <3>2. CASE i # n + 1
      <4>1. i \in 1..n
          BY <1>c, <1>s, <1>i, <3>2
      <4>2. PICK w \in OnStack(r) : /\ r.lowlinks[Node(r, i)] = r.indexes[w]
                                    /\ r.indexes[w] <= r.indexes[Node(r, i)]
                                    /\ Reaches(graph, Node(r, i), w)
          BY <1>c, <1>s, <1>i, <1>2, <4>1 DEF LowLinks
      <4>3. t.lowlinks[Node(t, i)] = r.lowlinks[Node(r, i)] /\ t.indexes[Node(t, i)] = r.indexes[Node(r, i)]
          BY <1>c, <1>s, <1>i, <1>3, <1>4, <4>1
      <4> QED BY <1>c, <1>s, <1>i, <1>3, <4>1, <4>2, <4>3
    <3> QED BY <3>1, <3>2
  <2>2. ASSUME NEW u \in OnStack(t), NEW y \in OnStack(t), NEW i \in DOMAIN t.calls,
               y \in graph[u], Scanned(t, u, y), Innermost(t, i, u)
        PROVE  t.lowlinks[Node(t, i)] <= t.indexes[y]
    <3>1. u \in OnStack(r)
        BY <1>c, <1>s, <1>i, <1>11, <2>2
    <3>2. Innermost(r, i, u) /\ i \in 1..n /\ Scanned(r, u, y)
        BY <1>c, <1>s, <1>i, <1>5, <1>10, <2>2, <3>1 DEF Innermost
    <3>3. t.lowlinks[Node(t, i)] = r.lowlinks[Node(r, i)]
        BY <1>c, <1>s, <1>i, <1>3, <1>4, <3>2
    <3>4. CASE y \in OnStack(r)
        BY <1>c, <1>s, <1>i, <1>2, <1>3, <2>2, <3>1, <3>2, <3>3, <3>4 DEF LowLinks
    <3>5. CASE y = x
      <4>1. PICK w \in OnStack(r) : r.lowlinks[Node(r, i)] = r.indexes[w]
          BY <1>c, <1>s, <1>i, <1>2, <3>2 DEF LowLinks
      <4>2. r.indexes[w] <= r.index
          BY <1>c, <1>s, <1>i, <1>3
      <4> QED BY <1>c, <1>s, <1>i, <3>3, <3>5, <4>1, <4>2
    <3> QED BY <1>c, <1>s, <1>i, <3>4, <3>5
  <2> QED BY <2>1, <2>2 DEF LowLinks
<1>15. Components(t, graph)
    BY <1>c, <1>s, <1>i, <1>2 DEF Components
<1> QED BY <1>k, <1>8, <1>9, <1>12, <1>13, <1>14, <1>15 DEF SearchInv

-----------------------------------------------------------------------------
(* The steps keep the invariant.                                           *)

LEMMA MinOfTwo ==
    ASSUME NEW a \in Int, NEW b \in Int
    PROVE  Min({a, b}) \in {a, b} /\ Min({a, b}) <= a /\ Min({a, b}) <= b
<1>1. \E x \in {a, b} : \A y \in {a, b} : x <= y
    BY a <= b \/ b <= a
<1> QED BY <1>1 DEF Min

(* The target is not on the stack: the low links may stay.                 *)
LEMMA DropLow ==
    ASSUME NEW graph, NEW s, SearchInv(s, graph), s.calls # <<>>,
           s.calls[Len(s.calls)].todo # <<>>, NEW r, Dropped(s, r), SearchType(r, graph),
           Head(s.calls[Len(s.calls)].todo) \notin OnStack(s)
    PROVE  LowLinks(r, graph)
<1> DEFINE n == Len(s.calls)
           node == Node(s, n)
           target == Head(s.calls[n].todo)
<1>1. SearchType(s, graph) /\ Nested(s, graph) /\ LowLinks(s, graph)
    BY DEF SearchInv
<1>2. \A x, y : Scanned(r, x, y) <=> Scanned(s, x, y) \/ (x = node /\ y = target)
    BY <1>1, DropScans
<1>3. OnStack(r) = OnStack(s) /\ \A i, x : Innermost(r, i, x) <=> Innermost(s, i, x)
    BY DropKeeps
<1>4. /\ r.indexes = s.indexes /\ r.lowlinks = s.lowlinks
      /\ DOMAIN r.calls = DOMAIN s.calls
      /\ \A i \in DOMAIN s.calls : Node(r, i) = Node(s, i)
    BY DEF Dropped, AllBut
<1> HIDE DEF node, target
<1>5. \A i \in DOMAIN r.calls : \E w \in OnStack(r) :
        /\ r.lowlinks[Node(r, i)] = r.indexes[w]
        /\ r.indexes[w] <= r.indexes[Node(r, i)]
        /\ Reaches(graph, Node(r, i), w)
    BY <1>1, <1>3, <1>4 DEF LowLinks
<1>6. ASSUME NEW x \in OnStack(r), NEW y \in OnStack(r), NEW i \in DOMAIN r.calls,
             y \in graph[x], Scanned(r, x, y), Innermost(r, i, x)
      PROVE  r.lowlinks[Node(r, i)] <= r.indexes[y]
  <2>1. y # target
      BY <1>3, <1>6 DEF target
  <2>2. Scanned(s, x, y) /\ Innermost(s, i, x) /\ x \in OnStack(s) /\ y \in OnStack(s) /\ i \in DOMAIN s.calls
      BY <1>2, <1>3, <1>4, <1>6, <2>1
  <2>3. s.lowlinks[Node(s, i)] <= s.indexes[y]
      BY <1>1, <1>6, <2>2 DEF LowLinks
  <2> QED BY <1>4, <2>2, <2>3
<1> QED BY <1>5, <1>6 DEF LowLinks

LEMMA DropMayVisit ==
    ASSUME NEW graph, IsGraph(graph), NEW s, SearchInv(s, graph), s.calls # <<>>,
           s.calls[Len(s.calls)].todo # <<>>, NEW r, Dropped(s, r), SearchType(r, graph),
           s.indexes[Head(s.calls[Len(s.calls)].todo)] = -1
    PROVE  MayVisit(r, graph, Head(s.calls[Len(s.calls)].todo))
<1> DEFINE n == Len(s.calls)
           node == Node(s, n)
           target == Head(s.calls[n].todo)
<1>1. SearchType(s, graph) /\ Nested(s, graph)
    BY DEF SearchInv
<1>2. /\ n \in DOMAIN s.calls /\ target \in graph[node]
      /\ \A x, y : Scanned(r, x, y) <=> Scanned(s, x, y) \/ (x = node /\ y = target)
    BY <1>1, DropScans
<1>3. /\ OnStack(r) = OnStack(s)
      /\ Numbered(r, graph) /\ Nested(r, graph) /\ Connected(r, graph) /\ Components(r, graph)
    BY DropKeeps
<1>4. r.indexes = s.indexes /\ Len(r.calls) = n /\ \A i \in DOMAIN s.calls : Node(r, i) = Node(s, i)
    BY DEF Dropped, AllBut
<1>5. target \in DOMAIN graph
  <2>1. node \in DOMAIN graph
      BY <1>1, <1>2, SearchFacts
  <2> QED BY <1>2, <2>1 DEF IsGraph
<1>6. target \notin OnStack(s)
    BY <1>5 DEF SearchInv, Numbered
<1>7. LowLinks(r, graph)
    BY <1>6, DropLow
<1>8. Reaches(graph, Node(r, Len(r.calls)), target)
  <2>1. Node(r, Len(r.calls)) = node
      BY <1>2, <1>4
  <2> QED BY <1>2, <2>1, ReachesSelf, ReachesStep
<1>9. \A u \in OnStack(r) : \A y \in graph[u] : Scanned(r, u, y) => r.indexes[y] # -1 \/ y = target
    BY <1>2, <1>3, <1>4 DEF SearchInv, ScannedFound
<1> HIDE DEF target, node, n
<1>10. r.indexes[target] = -1
    BY <1>4 DEF target, n
<1>11. MayVisit(r, graph, target)
    BY <1>3, <1>5, <1>7, <1>8, <1>9, <1>10 DEF MayVisit
<1> QED BY <1>11 DEF target, n

LEMMA TargetKeeps ==
    ASSUME NEW graph, IsGraph(graph), NEW s, SearchInv(s, graph), s.calls # <<>>,
           s.calls[Len(s.calls)].todo # <<>>
    PROVE  LET n == Len(s.calls)
           IN  SearchInv(TarjanTarget(s, Node(s, n), Head(s.calls[n].todo), graph), graph)
<1> DEFINE n == Len(s.calls)
           node == Node(s, n)
           target == Head(s.calls[n].todo)
           r == [s EXCEPT !.calls[Len(s.calls)].todo = Tail(@)]
           t == TarjanTarget(s, node, target, graph)
<1>1. SearchType(s, graph) /\ Nested(s, graph)
    BY DEF SearchInv
<1>2. Dropped(s, r) /\ SearchType(r, graph)
  <2>1. AllBut(s, r, {"calls"}) /\ r.calls = DropHead(s.calls)
      BY <1>1, RestIs
  <2> HIDE DEF r
  <2> QED BY <1>1, <2>1, DropIs
<1>3. t = IF s.indexes[target] = -1 THEN TarjanVisit(r, target, graph)
          ELSE IF target \in OnStack(s)
          THEN [r EXCEPT !.lowlinks = [s.lowlinks EXCEPT ![node] = Min({s.lowlinks[node], s.indexes[target]})]]
          ELSE r
    BY DEF TarjanTarget, OnStack
<1> HIDE DEF r, t, node, target
<1>4. /\ n \in DOMAIN s.calls
      /\ target \in graph[node]
      /\ \A x, y : Scanned(r, x, y) <=> Scanned(s, x, y) \/ (x = node /\ y = target)
    BY <1>1, <1>2, DropScans DEF node, target
<1>5. /\ OnStack(r) = OnStack(s) /\ Settled(r) = Settled(s)
      /\ \A i, x : Innermost(r, i, x) <=> Innermost(s, i, x)
      /\ Numbered(r, graph) /\ Nested(r, graph) /\ Connected(r, graph) /\ Components(r, graph)
    BY <1>2, DropKeeps
<1>6. /\ r.indexes = s.indexes /\ r.lowlinks = s.lowlinks /\ r.stack = s.stack /\ IsSearch(r)
      /\ DOMAIN r.calls = DOMAIN s.calls /\ Len(r.calls) = n
      /\ \A i \in DOMAIN s.calls : Node(r, i) = Node(s, i)
    BY <1>2 DEF Dropped, AllBut
<1>7. node \in OnStack(s) /\ node \in DOMAIN graph /\ target \in DOMAIN graph
  <2>1. node \in OnStack(s)
      BY <1>1, <1>4 DEF Nested, node
  <2>2. node \in DOMAIN graph
      BY <1>1, <2>1, SearchFacts
  <2> QED BY <1>4, <2>1, <2>2 DEF IsGraph
<1>8. \A u \in OnStack(r) : \A y \in graph[u] : Scanned(r, u, y) => r.indexes[y] # -1 \/ y = target
    BY <1>4, <1>5, <1>6 DEF SearchInv, ScannedFound
<1>9. ASSUME target \notin OnStack(s) PROVE LowLinks(r, graph)
    BY <1>2, <1>9, DropLow DEF target
<1>10. CASE s.indexes[target] = -1
  <2>1. MayVisit(r, graph, target)
      BY <1>2, <1>10, DropMayVisit DEF target
  <2> QED BY <1>3, <1>10, <2>1, VisitKeeps DEF t, node, target
<1>11. CASE s.indexes[target] # -1 /\ target \notin OnStack(s)
  <2>1. t = r
      BY <1>3, <1>11
  <2>2. ScannedFound(r, graph)
      BY <1>6, <1>8, <1>11 DEF ScannedFound
  <2>3. SearchInv(r, graph)
      BY <1>2, <1>5, <1>9, <1>11, <2>2 DEF SearchInv
  <2> QED BY <2>1, <2>3 DEF t, node, target
<1>12. CASE s.indexes[target] # -1 /\ target \in OnStack(s)
  <2> DEFINE m == Min({s.lowlinks[node], s.indexes[target]})
             low == [s.lowlinks EXCEPT ![node] = m]
  <2>1. t = [r EXCEPT !.lowlinks = low]
      BY <1>3, <1>12
  <2>2. s.lowlinks[node] \in Int /\ s.indexes[target] \in Int /\ s.lowlinks \in [DOMAIN graph -> Int]
      BY <1>1, <1>7 DEF SearchType
  <2>3. m \in {s.lowlinks[node], s.indexes[target]} /\ m <= s.lowlinks[node] /\ m <= s.indexes[target] /\ m \in Int
      BY <2>2, MinOfTwo
  <2> HIDE DEF m
  <2>4. /\ low \in [DOMAIN graph -> Int] /\ low[node] = m
        /\ \A x \in (DOMAIN graph) \ {node} : low[x] = s.lowlinks[x]
      BY <1>7, <2>2, <2>3
  <2> HIDE DEF low
  <2>5. AllBut(r, t, {"lowlinks"}) /\ t.lowlinks = low
      BY <1>6, <2>1, Set_lowlinks
  <2>6. /\ t.index = r.index /\ t.indexes = s.indexes /\ t.stack = r.stack /\ t.calls = r.calls
        /\ t.components = r.components /\ IsSearch(t)
      BY <1>6, <2>5 DEF AllBut
  <2>7. SearchType(t, graph)
      BY <1>2, <1>6, <2>4, <2>5, <2>6 DEF SearchType, IsSearch
  <2>8. /\ OnStack(t) = OnStack(s) /\ Settled(t) = Settled(r)
        /\ DOMAIN t.calls = DOMAIN s.calls
        /\ \A i \in DOMAIN s.calls : Node(t, i) = Node(s, i)
        /\ \A i, x : Innermost(t, i, x) <=> Innermost(s, i, x)
        /\ \A x, y : Scanned(t, x, y) <=> Scanned(r, x, y)
    <3>1. OnStack(t) = OnStack(r) /\ Settled(t) = Settled(r)
        BY <2>6 DEF OnStack, Settled
    <3>2. \A i : Node(t, i) = Node(r, i)
        BY <2>6 DEF Node
    <3>3. \A i, x : Innermost(t, i, x) <=> Innermost(r, i, x)
        BY <2>6, <3>2, <1>6 DEF Innermost
    <3>4. \A x, y : Scanned(t, x, y) <=> Scanned(r, x, y)
        BY <2>6, <3>2 DEF Scanned
    <3> QED BY <1>5, <1>6, <2>6, <3>1, <3>2, <3>3, <3>4
  <2>9. Numbered(t, graph)
      BY <1>5, <1>6, <2>6, <2>8 DEF Numbered
  <2>10. Nested(t, graph)
      BY <1>5, <1>6, <2>6, <2>8 DEF Nested
  <2>11. ScannedFound(t, graph)
      BY <1>5, <1>6, <1>8, <1>12, <2>6, <2>8 DEF ScannedFound
  <2>12. Connected(t, graph)
      BY <1>5, <1>6, <2>6, <2>8 DEF Connected
  <2>13. Components(t, graph)
      BY <1>5, <2>6, <2>8 DEF Components
  <2>14. ASSUME NEW i \in DOMAIN s.calls
         PROVE  /\ Node(s, i) \in DOMAIN graph
                /\ i # n => Node(s, i) # node
                /\ t.lowlinks[Node(s, i)] <= s.lowlinks[Node(s, i)]
                /\ i # n => t.lowlinks[Node(s, i)] = s.lowlinks[Node(s, i)]
    <3>1. Node(s, i) \in DOMAIN graph /\ n \in Nat /\ DOMAIN s.calls = 1..n
        BY <1>1, SearchFacts
    <3>2. i # n => Node(s, i) # node
      <4> SUFFICES ASSUME i # n, Node(s, i) = node PROVE FALSE
          OBVIOUS
      <4>1. i < n
          BY <3>1
      <4>2. s.indexes[Node(s, i)] < s.indexes[Node(s, n)]
          BY <1>1, <1>4, <4>1 DEF Nested
      <4>3. s.indexes[node] \in Int
          BY <1>1, <1>7 DEF SearchType
      <4> QED BY <4>2, <4>3 DEF node
    <3>3. Node(s, n) = node /\ s.lowlinks[Node(s, i)] \in Int
        BY <2>2, <3>1 DEF node
    <3> QED BY <2>3, <2>4, <2>5, <3>1, <3>2, <3>3
  <2>15. LowLinks(s, graph)
      BY DEF SearchInv
  <2>16. ASSUME NEW i \in DOMAIN t.calls
         PROVE  \E w \in OnStack(t) : /\ t.lowlinks[Node(t, i)] = t.indexes[w]
                                      /\ t.indexes[w] <= t.indexes[Node(t, i)]
                                      /\ Reaches(graph, Node(t, i), w)
    <3>1. i \in DOMAIN s.calls /\ Node(t, i) = Node(s, i)
        BY <2>8
    <3>2. PICK w \in OnStack(s) : /\ s.lowlinks[Node(s, i)] = s.indexes[w]
                                  /\ s.indexes[w] <= s.indexes[Node(s, i)]
                                  /\ Reaches(graph, Node(s, i), w)
        BY <2>15, <3>1 DEF LowLinks
    <3>3. CASE i # n \/ m = s.lowlinks[node]
      <4>1. t.lowlinks[Node(s, i)] = s.lowlinks[Node(s, i)]
          BY <2>4, <2>5, <2>14, <3>1, <3>3 DEF node
      <4> QED BY <2>6, <2>8, <3>1, <3>2, <4>1
    <3>4. CASE i = n /\ m = s.indexes[target]
      <4>1. t.lowlinks[node] = s.indexes[target] /\ Node(s, i) = node
          BY <2>4, <2>5, <3>4 DEF node
      <4>2. Reaches(graph, node, target)
          BY <1>4, ReachesSelf, ReachesStep
      <4>3. s.indexes[target] <= s.indexes[node]
        <5>1. s.indexes[node] \in Int /\ s.lowlinks[node] <= s.indexes[node]
            BY <1>1, <1>7, <3>2, <4>1 DEF SearchType
        <5> QED BY <2>2, <2>3, <3>4, <5>1
      <4> QED BY <1>12, <2>6, <2>8, <3>1, <4>1, <4>2, <4>3
    <3> QED BY <2>3, <3>3, <3>4
  <2>17. ASSUME NEW x \in OnStack(t), NEW y \in OnStack(t), NEW i \in DOMAIN t.calls,
                y \in graph[x], Scanned(t, x, y), Innermost(t, i, x)
         PROVE  t.lowlinks[Node(t, i)] <= t.indexes[y]
    <3>1. /\ i \in DOMAIN s.calls /\ Node(t, i) = Node(s, i) /\ x \in OnStack(s) /\ y \in OnStack(s)
          /\ Innermost(s, i, x)
        BY <2>8, <2>17
    <3>2. CASE Scanned(s, x, y)
      <4>1. s.lowlinks[Node(s, i)] <= s.indexes[y]
          BY <2>15, <2>17, <3>1, <3>2 DEF LowLinks
      <4>2. s.lowlinks[Node(s, i)] \in Int /\ t.lowlinks[Node(s, i)] \in Int /\ s.indexes[y] \in Int
        <5>1. y \in DOMAIN graph
            BY <3>1, <1>1, SearchFacts
        <5> QED BY <1>1, <2>2, <2>4, <2>5, <2>14, <3>1, <5>1 DEF SearchType
      <4> QED BY <2>6, <2>14, <3>1, <4>1, <4>2
    <3>3. CASE x = node /\ y = target
      <4>1. i = n
        <5>1. i \in 1..n /\ n \in Nat
            BY <1>1, <3>1, SearchFacts
        <5>2. ~(n > i)
          <6> SUFFICES ASSUME n > i PROVE FALSE
              OBVIOUS
          <6>1. s.indexes[node] < s.indexes[node]
              BY <1>4, <3>1, <3>3 DEF Innermost, node
          <6>2. s.indexes[node] \in Int
              BY <1>1, <1>7 DEF SearchType
          <6> QED BY <6>1, <6>2
        <5> QED BY <5>1, <5>2
      <4>2. t.lowlinks[Node(t, i)] = m
          BY <2>4, <2>5, <3>1, <4>1 DEF node
      <4> QED BY <2>3, <2>6, <3>3, <4>2
    <3> QED BY <1>4, <2>8, <2>17, <3>2, <3>3
  <2>18. LowLinks(t, graph)
      BY <2>16, <2>17 DEF LowLinks
  <2>19. SearchInv(t, graph)
      BY <2>7, <2>9, <2>10, <2>11, <2>12, <2>13, <2>18 DEF SearchInv
  <2> QED BY <2>19 DEF t, node, target
<1> QED BY <1>10, <1>11, <1>12 DEF node, target

(* The visit at the end of the calls has nothing left to look at.  What is *)
(* on the stack from its node on was found in it, and all that these       *)
(* modules require has been found.                                         *)
ReturnFacts(s, graph, n, node) ==
    /\ n = Len(s.calls) /\ n \in Nat /\ n \in DOMAIN s.calls /\ DOMAIN s.calls = 1..n
    /\ node = Node(s, n) /\ node \in OnStack(s) /\ node \in DOMAIN graph
    /\ \A x \in OnStack(s) : s.indexes[x] \in Nat /\ x \in DOMAIN graph
    /\ \A x \in OnStack(s) : Innermost(s, n, x) <=> s.indexes[node] <= s.indexes[x]
    /\ \A x \in OnStack(s) : s.indexes[node] <= s.indexes[x] =>
            /\ Reaches(graph, node, x) /\ Reaches(graph, x, node)
            /\ \A y : Scanned(s, x, y)
    /\ \A i \in 1..(n - 1) : Node(s, i) \in OnStack(s) /\ s.indexes[Node(s, i)] < s.indexes[node]

LEMMA ReturnHas ==
    ASSUME NEW graph, NEW s, SearchInv(s, graph), s.calls # <<>>,
           s.calls[Len(s.calls)].todo = <<>>
    PROVE  ReturnFacts(s, graph, Len(s.calls), Node(s, Len(s.calls)))
<1> DEFINE n == Len(s.calls)
           node == Node(s, n)
<1>1. SearchType(s, graph) /\ Numbered(s, graph) /\ Nested(s, graph) /\ Connected(s, graph)
    BY DEF SearchInv
<1>2. n \in Nat /\ n \in DOMAIN s.calls /\ DOMAIN s.calls = 1..n
    BY <1>1, SearchFacts DEF SearchType
<1>3. \A x \in OnStack(s) : s.indexes[x] \in Nat /\ x \in DOMAIN graph
  <2> SUFFICES ASSUME NEW x \in OnStack(s) PROVE s.indexes[x] \in Nat /\ x \in DOMAIN graph
      OBVIOUS
  <2>1. x \in DOMAIN graph
      BY <1>1, SearchFacts
  <2>2. s.indexes[x] \in -1..(s.index - 1) /\ s.indexes[x] # -1 /\ s.index \in Nat
      BY <1>1, <2>1 DEF Numbered, SearchType
  <2> QED BY <2>1, <2>2
<1>4. node \in OnStack(s) /\ node \in DOMAIN graph
    BY <1>1, <1>2, <1>3 DEF Nested
<1>5. ASSUME NEW i \in 1..(n - 1)
      PROVE  Node(s, i) \in OnStack(s) /\ s.indexes[Node(s, i)] < s.indexes[node]
  <2>1. i \in DOMAIN s.calls /\ i < n
      BY <1>2
  <2> QED BY <1>1, <1>2, <2>1 DEF Nested
<1>6. ASSUME NEW x \in OnStack(s) PROVE Innermost(s, n, x) <=> s.indexes[node] <= s.indexes[x]
    BY <1>2 DEF Innermost
<1>7. ASSUME NEW x \in OnStack(s), s.indexes[node] <= s.indexes[x], NEW y
      PROVE  Scanned(s, x, y)
  <2> SUFFICES ASSUME NEW i \in DOMAIN s.calls, Node(s, i) = x PROVE y \notin ToSet(s.calls[i].todo)
      BY DEF Scanned
  <2>1. i = n
    <3> SUFFICES ASSUME i # n PROVE FALSE
        OBVIOUS
    <3>1. i \in 1..(n - 1)
        BY <1>2
    <3>2. s.indexes[x] < s.indexes[node]
        BY <1>5, <3>1
    <3> QED BY <1>3, <1>4, <1>7, <3>2
  <2> QED BY <2>1 DEF ToSet
<1>8. ASSUME NEW x \in OnStack(s), s.indexes[node] <= s.indexes[x]
      PROVE  Reaches(graph, node, x) /\ Reaches(graph, x, node)
    BY <1>1, <1>2, <1>6, <1>8 DEF Connected
<1> HIDE DEF n, node
<1>9. ReturnFacts(s, graph, n, node)
    BY <1>2, <1>3, <1>4, <1>5, <1>6, <1>7, <1>8 DEF ReturnFacts, n, node
<1> QED BY <1>9 DEF n, node

LEMMA FrontIs ==
    ASSUME NEW S, NEW q \in Seq(S), q # <<>>
    PROVE  /\ Front(q) \in Seq(S) /\ Len(Front(q)) = Len(q) - 1
           /\ DOMAIN Front(q) = 1..(Len(q) - 1)
           /\ \A i \in 1..(Len(q) - 1) : Front(q)[i] = q[i]
BY DEF Front

(* What ending a visit does to the calls and the low links.                *)
ReturnCalls(s, t, graph, n, node) ==
    /\ AllBut(s, t, {"calls", "lowlinks", "stack", "components"})
    /\ t.calls \in Seq([node : DOMAIN graph, todo : Seq(DOMAIN graph)])
    /\ t.lowlinks \in [DOMAIN graph -> Int]
    /\ DOMAIN t.calls = 1..(n - 1)
    /\ \A i \in 1..(n - 1) : t.calls[i] = s.calls[i] /\ Node(t, i) = Node(s, i)
    /\ n = 1 => t.lowlinks = s.lowlinks
    /\ n # 1 => LET caller == Node(s, n - 1)
                IN /\ t.lowlinks[caller] \in {s.lowlinks[caller], s.lowlinks[node]}
                   /\ t.lowlinks[caller] <= s.lowlinks[caller]
                   /\ t.lowlinks[caller] <= s.lowlinks[node]
                   /\ \A x \in (DOMAIN graph) \ {caller} : t.lowlinks[x] = s.lowlinks[x]

LEMMA BelowIs ==
    ASSUME NEW n \in Nat, n >= 1, n # 1
    PROVE  n - 1 \in 1..(n - 1) /\ n - 1 # 0
OBVIOUS

LEMMA ReturnCallsIs ==
    ASSUME NEW graph, NEW s, SearchType(s, graph), NEW n, NEW node, ReturnFacts(s, graph, n, node)
    PROVE  ReturnCalls(s, TarjanReturn(s, node), graph, n, node)
<1> DEFINE t == TarjanReturn(s, node)
           X == [node : DOMAIN graph, todo : Seq(DOMAIN graph)]
           callers == Front(s.calls)
           caller == Last(callers).node
           m == Min({s.lowlinks[caller], s.lowlinks[node]})
<1>1. IsSearch(s) /\ s.calls \in Seq(X) /\ s.lowlinks \in [DOMAIN graph -> Int]
    BY SearchFacts DEF SearchType
<1>2. /\ AllBut(s, t, {"calls", "lowlinks", "stack", "components"})
      /\ t.calls = callers
      /\ t.lowlinks = IF callers = <<>> THEN s.lowlinks ELSE [s.lowlinks EXCEPT ![caller] = m]
    BY <1>1, ReturnIs
<1> HIDE DEF t, X, m
<1>3. n \in Nat /\ n >= 1 /\ n = Len(s.calls) /\ s.calls # <<>> /\ node \in DOMAIN graph
  <2>1. n \in Nat /\ n \in 1..n /\ n = Len(s.calls) /\ node \in DOMAIN graph
      BY DEF ReturnFacts
  <2> QED BY <2>1
<1>4. /\ callers \in Seq(X) /\ Len(callers) = n - 1 /\ DOMAIN callers = 1..(n - 1)
      /\ \A i \in 1..(n - 1) : callers[i] = s.calls[i]
    BY <1>1, <1>3, FrontIs
<1>5. \A i \in 1..(n - 1) : t.calls[i] = s.calls[i] /\ Node(t, i) = Node(s, i)
    BY <1>2, <1>4 DEF Node
<1>6. CASE n = 1
  <2>1. callers = <<>>
      BY <1>4, <1>6
  <2> QED BY <1>1, <1>2, <1>4, <1>5, <1>6, <2>1 DEF ReturnCalls, X, t
<1>7. CASE n # 1
  <2>1. callers # <<>> /\ n - 1 \in 1..(n - 1)
    <3>1. n - 1 \in 1..(n - 1) /\ n - 1 # 0
        BY <1>3, <1>7, BelowIs
    <3>2. Len(callers) # 0
        BY <1>4, <3>1
    <3> QED BY <3>1, <3>2
  <2>2. caller = Node(s, n - 1)
      BY <1>4, <2>1 DEF Last, Node
  <2>3. caller \in DOMAIN graph
      BY <2>1, <2>2 DEF ReturnFacts
  <2>4. s.lowlinks[caller] \in Int /\ s.lowlinks[node] \in Int
      BY <1>1, <1>3, <2>3
  <2>5. m \in {s.lowlinks[caller], s.lowlinks[node]} /\ m <= s.lowlinks[caller] /\ m <= s.lowlinks[node] /\ m \in Int
      BY <2>4, MinOfTwo DEF m
  <2>6. t.lowlinks = [s.lowlinks EXCEPT ![caller] = m]
      BY <1>2, <2>1
  <2>7. t.lowlinks \in [DOMAIN graph -> Int] /\ t.lowlinks[caller] = m
        /\ \A x \in (DOMAIN graph) \ {caller} : t.lowlinks[x] = s.lowlinks[x]
      BY <1>1, <2>3, <2>5, <2>6
  <2> QED BY <1>2, <1>4, <1>5, <1>7, <2>2, <2>5, <2>7 DEF ReturnCalls, X, t
<1> QED BY <1>6, <1>7

(* The open visits and what was looked at, after a visit has ended.        *)
LEMMA ReturnScans ==
    ASSUME NEW graph, NEW s, NEW n, NEW node, ReturnFacts(s, graph, n, node),
           NEW t, ReturnCalls(s, t, graph, n, node)
    PROVE  /\ \A x, y : Scanned(t, x, y) <=> Scanned(s, x, y)
           /\ \A x \in OnStack(s) : \A i :
                /\ Innermost(s, i, x) /\ i # n => Innermost(t, i, x)
                /\ Innermost(s, n, x) /\ n # 1 => Innermost(t, n - 1, x)
                /\ Innermost(t, i, x) => Innermost(s, i, x) \/ (i = n - 1 /\ n # 1 /\ Innermost(s, n, x))
<1>1. /\ n \in Nat /\ n \in 1..n /\ DOMAIN s.calls = 1..n /\ DOMAIN t.calls = 1..(n - 1)
      /\ \A i \in 1..(n - 1) : t.calls[i] = s.calls[i] /\ Node(t, i) = Node(s, i)
      /\ Node(s, n) = node /\ t.indexes = s.indexes
    BY DEF ReturnFacts, ReturnCalls, AllBut
<1>2. ASSUME NEW x, NEW y PROVE Scanned(t, x, y) <=> Scanned(s, x, y)
  <2>1. Scanned(t, x, y) <=> \A i \in 1..(n - 1) : Node(s, i) = x => y \notin ToSet(s.calls[i].todo)
      BY <1>1 DEF Scanned
  <2>2. Scanned(s, node, y)
    <3>1. node \in OnStack(s) /\ s.indexes[node] <= s.indexes[node]
        BY DEF ReturnFacts
    <3> QED BY <3>1 DEF ReturnFacts
  <2>3. node = x => y \notin ToSet(s.calls[n].todo)
      BY <1>1, <2>2 DEF Scanned
  <2>4. Scanned(s, x, y) <=> \A i \in 1..n : Node(s, i) = x => y \notin ToSet(s.calls[i].todo)
      BY <1>1 DEF Scanned
  <2>5. \A i \in 1..n : i = n \/ i \in 1..(n - 1)
      BY <1>1
  <2>6. \A i \in 1..(n - 1) : i \in 1..n
      BY <1>1
  <2> QED BY <1>1, <2>1, <2>3, <2>4, <2>5, <2>6
<1>3. ASSUME NEW x \in OnStack(s), NEW i
      PROVE  /\ Innermost(s, i, x) /\ i # n => Innermost(t, i, x)
             /\ Innermost(s, n, x) /\ n # 1 => Innermost(t, n - 1, x)
             /\ Innermost(t, i, x) => Innermost(s, i, x) \/ (i = n - 1 /\ n # 1 /\ Innermost(s, n, x))
  <2>1. \A j \in 1..n : s.indexes[Node(s, j)] \in Nat
      BY <1>1 DEF ReturnFacts
  <2>2. s.indexes[x] \in Nat /\ (Innermost(s, n, x) <=> s.indexes[node] <= s.indexes[x])
      BY DEF ReturnFacts
  <2>3. \A j \in 1..(n - 1) : s.indexes[Node(s, j)] < s.indexes[node]
      BY DEF ReturnFacts
  <2>4. \A k : Innermost(t, k, x) <=>
            /\ k \in 1..(n - 1)
            /\ s.indexes[Node(s, k)] <= s.indexes[x]
            /\ \A j \in 1..(n - 1) : j > k => s.indexes[x] < s.indexes[Node(s, j)]
      BY <1>1 DEF Innermost
  <2>5. \A k : Innermost(s, k, x) <=>
            /\ k \in 1..n
            /\ s.indexes[Node(s, k)] <= s.indexes[x]
            /\ \A j \in 1..n : j > k => s.indexes[x] < s.indexes[Node(s, j)]
      BY <1>1 DEF Innermost
  <2>6. Innermost(s, i, x) /\ i # n => Innermost(t, i, x)
      BY <1>1, <2>4, <2>5
  <2>7. ASSUME Innermost(s, n, x), n # 1 PROVE Innermost(t, n - 1, x)
    <3>1. n - 1 \in 1..(n - 1) /\ \A j \in 1..(n - 1) : ~(j > n - 1)
        BY <1>1, <2>7
    <3>2. s.indexes[Node(s, n - 1)] <= s.indexes[x]
        BY <1>1, <2>1, <2>2, <2>3, <2>7, <3>1
    <3> QED BY <2>4, <3>1, <3>2
  <2>8. ASSUME Innermost(t, i, x)
        PROVE  Innermost(s, i, x) \/ (i = n - 1 /\ n # 1 /\ Innermost(s, n, x))
    <3>1. i \in 1..(n - 1) /\ s.indexes[Node(s, i)] <= s.indexes[x]
        BY <2>4, <2>8
    <3>2. CASE s.indexes[x] < s.indexes[node]
      <4>1. ASSUME NEW j \in 1..n, j > i PROVE s.indexes[x] < s.indexes[Node(s, j)]
        <5>1. CASE j = n
            BY <1>1, <3>2, <5>1
        <5>2. CASE j # n
            BY <1>1, <2>4, <2>8, <4>1, <5>2
        <5> QED BY <5>1, <5>2
      <4> QED BY <1>1, <2>5, <3>1, <4>1
    <3>3. CASE ~(s.indexes[x] < s.indexes[node])
      <4>1. Innermost(s, n, x)
          BY <1>1, <2>1, <2>2, <3>3
      <4>2. i = n - 1 /\ n # 1
        <5>1. n - 1 \in 1..(n - 1)
            BY <1>1, <3>1
        <5>2. s.indexes[Node(s, n - 1)] < s.indexes[node]
            BY <2>3, <5>1
        <5>3. ~(s.indexes[x] < s.indexes[Node(s, n - 1)])
            BY <1>1, <2>1, <2>2, <3>3, <5>1, <5>2
        <5>4. ~(n - 1 > i)
            BY <2>4, <2>8, <5>1, <5>3
        <5> QED BY <1>1, <3>1, <5>4
      <4> QED BY <4>1, <4>2
    <3> QED BY <3>2, <3>3
  <2> QED BY <2>6, <2>7, <2>8
<1> QED BY <1>2, <1>3

LEMMA InnerReturnKeeps ==
    ASSUME NEW graph, NEW s, SearchInv(s, graph), NEW n, NEW node, ReturnFacts(s, graph, n, node),
           s.lowlinks[node] # s.indexes[node]
    PROVE  SearchInv(TarjanReturn(s, node), graph)
<1> DEFINE t == TarjanReturn(s, node)
           caller == Node(s, n - 1)
<1>1. SearchType(s, graph) /\ Numbered(s, graph) /\ Nested(s, graph) /\ Connected(s, graph) /\ LowLinks(s, graph)
    BY DEF SearchInv
<1>2. ReturnCalls(s, t, graph, n, node)
    BY <1>1, ReturnCallsIs
<1>3. t.stack = s.stack /\ t.components = s.components /\ t.indexes = s.indexes /\ t.index = s.index /\ IsSearch(t)
  <2>1. IsSearch(s)
      BY <1>1, SearchFacts
  <2>2. t.stack = s.stack /\ t.components = s.components
      BY <2>1, ReturnIs DEF IsRoot, StackAfter, ComponentsAfter
  <2> HIDE DEF t
  <2> QED BY <1>2, <2>2 DEF ReturnCalls, AllBut
<1> HIDE DEF t
<1>4. /\ n \in Nat /\ n \in 1..n /\ DOMAIN s.calls = 1..n /\ Node(s, n) = node
      /\ node \in OnStack(s) /\ node \in DOMAIN graph
      /\ \A x \in OnStack(s) : s.indexes[x] \in Nat /\ x \in DOMAIN graph
      /\ \A i \in 1..(n - 1) : Node(s, i) \in OnStack(s) /\ s.indexes[Node(s, i)] < s.indexes[node]
    BY DEF ReturnFacts
<1>5. /\ DOMAIN t.calls = 1..(n - 1)
      /\ \A i \in 1..(n - 1) : t.calls[i] = s.calls[i] /\ Node(t, i) = Node(s, i)
    BY <1>2 DEF ReturnCalls
<1>6. \A x, y : Scanned(t, x, y) <=> Scanned(s, x, y)
    BY <1>2, ReturnScans
<1>7. \A x \in OnStack(s) : \A i :
        /\ Innermost(s, i, x) /\ i # n => Innermost(t, i, x)
        /\ Innermost(s, n, x) /\ n # 1 => Innermost(t, n - 1, x)
        /\ Innermost(t, i, x) => Innermost(s, i, x) \/ (i = n - 1 /\ n # 1 /\ Innermost(s, n, x))
    BY <1>2, ReturnScans
<1>8. OnStack(t) = OnStack(s) /\ Settled(t) = Settled(s)
    BY <1>3 DEF OnStack, Settled
<1>9. PICK w \in OnStack(s) : /\ s.lowlinks[node] = s.indexes[w]
                              /\ s.indexes[w] <= s.indexes[node]
                              /\ Reaches(graph, node, w)
    BY <1>1, <1>4 DEF LowLinks
<1>10. s.indexes[w] < s.indexes[node]
    BY <1>4, <1>9
<1>11. PICK k \in 1..n : Innermost(s, k, w)
    BY <1>1, <1>4 DEF Nested
<1>12. k # n /\ k \in 1..(n - 1) /\ n # 1 /\ n - 1 \in 1..(n - 1) /\ n - 1 \in 1..n
  <2>1. k # n
    <3> SUFFICES ASSUME k = n PROVE FALSE
        OBVIOUS
    <3>1. s.indexes[node] <= s.indexes[w]
        BY <1>4, <1>11 DEF Innermost
    <3> QED BY <1>4, <1>10, <3>1
  <2> QED BY <1>4, <1>11, <2>1
<1>13. caller \in OnStack(s) /\ s.indexes[caller] < s.indexes[node] /\ caller \in DOMAIN graph
    BY <1>4, <1>12
<1>14. Reaches(graph, w, caller)
  <2>1. Reaches(graph, w, Node(s, k))
      BY <1>1, <1>4, <1>11 DEF Connected
  <2>2. s.indexes[Node(s, k)] <= s.indexes[caller]
    <3>1. k = n - 1 \/ k < n - 1
        BY <1>4, <1>12
    <3>2. \A i, j \in 1..n : i < j => s.indexes[Node(s, i)] < s.indexes[Node(s, j)]
        BY <1>1, <1>4 DEF Nested
    <3>3. s.indexes[Node(s, k)] \in Nat /\ s.indexes[caller] \in Nat
        BY <1>4, <1>12
    <3> QED BY <1>11, <1>12, <3>1, <3>2, <3>3
  <2>3. Reaches(graph, Node(s, k), caller)
      BY <1>1, <1>4, <1>11, <1>13, <2>2 DEF Connected
  <2> QED BY <2>1, <2>3, ReachesOn
<1>15. Reaches(graph, node, caller) /\ Reaches(graph, caller, node)
  <2>1. s.indexes[caller] <= s.indexes[node]
      BY <1>4, <1>13
  <2>2. Reaches(graph, caller, node)
      BY <1>1, <1>4, <1>12, <2>1 DEF Connected
  <2> QED BY <1>9, <1>14, <2>2, ReachesOn
<1>16. SearchType(t, graph)
    BY <1>1, <1>2, <1>3 DEF SearchType, ReturnCalls, IsSearch
<1>17. Numbered(t, graph)
    BY <1>1, <1>3, <1>8 DEF Numbered
<1>18. Nested(t, graph)
  <2>1. \A i \in DOMAIN t.calls : Node(t, i) \in OnStack(t)
      BY <1>4, <1>5, <1>8
  <2>2. ASSUME NEW i \in DOMAIN t.calls, NEW j \in DOMAIN t.calls, i < j
        PROVE  t.indexes[Node(t, i)] < t.indexes[Node(t, j)]
    <3>1. i \in 1..n /\ j \in 1..n
        BY <1>4, <1>5
    <3> QED BY <1>1, <1>3, <1>4, <1>5, <2>2, <3>1 DEF Nested
  <2>3. \A x \in OnStack(t) : \E i \in DOMAIN t.calls : Innermost(t, i, x)
    <3> SUFFICES ASSUME NEW x \in OnStack(s) PROVE \E i \in DOMAIN t.calls : Innermost(t, i, x)
        BY <1>8
    <3>1. PICK i \in 1..n : Innermost(s, i, x)
        BY <1>1, <1>4 DEF Nested
    <3>2. \E j : Innermost(t, j, x)
        BY <1>7, <1>12, <3>1
    <3> QED BY <3>2 DEF Innermost
  <2>4. ASSUME NEW i \in DOMAIN t.calls
        PROVE  ToSet(t.calls[i].todo) \subseteq graph[Node(t, i)] /\ Once(t.calls[i].todo)
    <3>1. i \in DOMAIN s.calls /\ t.calls[i] = s.calls[i] /\ Node(t, i) = Node(s, i)
        BY <1>4, <1>5
    <3>2. ToSet(s.calls[i].todo) \subseteq graph[Node(s, i)] /\ Once(s.calls[i].todo)
        BY <1>1, <3>1 DEF Nested, Once
    <3> QED BY <3>1, <3>2
  <2> QED BY <2>1, <2>2, <2>3, <2>4 DEF Nested, Once
<1>19. ScannedFound(t, graph)
    BY <1>3, <1>6, <1>8 DEF SearchInv, ScannedFound
<1>20. Connected(t, graph)
  <2>1. ASSUME NEW i \in DOMAIN t.calls, NEW y \in OnStack(t), t.indexes[Node(t, i)] <= t.indexes[y]
        PROVE  Reaches(graph, Node(t, i), y)
    <3>1. i \in DOMAIN s.calls
        BY <1>4, <1>5
    <3> QED BY <1>1, <1>3, <1>5, <1>8, <2>1, <3>1 DEF Connected
  <2>2. ASSUME NEW x \in OnStack(t), NEW i \in DOMAIN t.calls, Innermost(t, i, x)
        PROVE  Reaches(graph, x, Node(t, i))
    <3>1. i \in DOMAIN s.calls /\ Node(t, i) = Node(s, i) /\ x \in OnStack(s)
        BY <1>4, <1>5, <1>8
    <3>2. CASE Innermost(s, i, x)
        BY <1>1, <3>1, <3>2 DEF Connected
    <3>3. CASE i = n - 1 /\ Innermost(s, n, x)
      <4>1. Reaches(graph, x, node)
          BY <1>1, <1>4, <3>1, <3>3 DEF Connected
      <4> QED BY <1>15, <3>1, <3>3, <4>1, ReachesOn
    <3> QED BY <1>7, <2>2, <3>1, <3>2, <3>3
  <2> QED BY <2>1, <2>2 DEF Connected
<1>21. /\ t.lowlinks[caller] \in {s.lowlinks[caller], s.lowlinks[node]}
       /\ t.lowlinks[caller] <= s.lowlinks[caller]
       /\ t.lowlinks[caller] <= s.lowlinks[node]
       /\ \A x \in (DOMAIN graph) \ {caller} : t.lowlinks[x] = s.lowlinks[x]
       /\ t.lowlinks \in [DOMAIN graph -> Int] /\ s.lowlinks \in [DOMAIN graph -> Int]
    BY <1>1, <1>2, <1>12 DEF ReturnCalls, SearchType
<1>22. ASSUME NEW i \in 1..(n - 1)
       PROVE  /\ i # n - 1 => t.lowlinks[Node(s, i)] = s.lowlinks[Node(s, i)]
              /\ t.lowlinks[Node(s, i)] <= s.lowlinks[Node(s, i)]
  <2>1. Node(s, i) \in DOMAIN graph
      BY <1>4
  <2>2. s.lowlinks[Node(s, i)] \in Int
      BY <1>21, <2>1
  <2>3. CASE i = n - 1
      BY <1>21, <2>3
  <2>4. CASE i # n - 1
    <3>1. i < n - 1 /\ i \in 1..n
        BY <1>4, <2>4
    <3>2. s.indexes[Node(s, i)] < s.indexes[caller]
        BY <1>1, <1>4, <1>12, <3>1 DEF Nested
    <3>3. Node(s, i) # caller
        BY <1>4, <1>13, <3>2
    <3> QED BY <1>21, <2>1, <2>2, <3>3
  <2> QED BY <2>3, <2>4
<1>23. LowLinks(t, graph)
  <2>1. ASSUME NEW i \in DOMAIN t.calls
        PROVE  \E v \in OnStack(t) : /\ t.lowlinks[Node(t, i)] = t.indexes[v]
                                     /\ t.indexes[v] <= t.indexes[Node(t, i)]
                                     /\ Reaches(graph, Node(t, i), v)
    <3>1. i \in 1..(n - 1) /\ i \in DOMAIN s.calls /\ Node(t, i) = Node(s, i)
        BY <1>4, <1>5
    <3>2. PICK v \in OnStack(s) : /\ s.lowlinks[Node(s, i)] = s.indexes[v]
                                  /\ s.indexes[v] <= s.indexes[Node(s, i)]
                                  /\ Reaches(graph, Node(s, i), v)
        BY <1>1, <3>1 DEF LowLinks
    <3>3. CASE t.lowlinks[Node(s, i)] = s.lowlinks[Node(s, i)]
        BY <1>3, <1>8, <3>1, <3>2, <3>3
    <3>4. CASE i = n - 1 /\ t.lowlinks[caller] = s.lowlinks[node]
      <4>1. s.indexes[w] <= s.indexes[v]
          BY <1>9, <1>21, <3>2, <3>4
      <4>2. s.indexes[w] <= s.indexes[caller]
          BY <1>4, <1>13, <3>2, <3>4, <4>1
      <4>3. Reaches(graph, caller, w)
          BY <1>9, <1>15, ReachesOn
      <4> QED BY <1>3, <1>8, <1>9, <3>1, <3>4, <4>2, <4>3
    <3> QED BY <1>21, <1>22, <3>1, <3>3, <3>4
  <2>2. ASSUME NEW x \in OnStack(t), NEW y \in OnStack(t), NEW i \in DOMAIN t.calls,
               y \in graph[x], Scanned(t, x, y), Innermost(t, i, x)
        PROVE  t.lowlinks[Node(t, i)] <= t.indexes[y]
    <3>1. /\ i \in 1..(n - 1) /\ i \in DOMAIN s.calls /\ Node(t, i) = Node(s, i)
          /\ x \in OnStack(s) /\ y \in OnStack(s) /\ Scanned(s, x, y)
        BY <1>4, <1>5, <1>6, <1>8, <2>2
    <3>2. /\ t.lowlinks[Node(s, i)] \in Int /\ s.lowlinks[Node(s, i)] \in Int /\ s.lowlinks[node] \in Int
          /\ s.indexes[y] \in Int
      <4>1. Node(s, i) \in DOMAIN graph /\ s.indexes[y] \in Int
          BY <1>4, <3>1
      <4>2. t.lowlinks[Node(s, i)] \in Int /\ s.lowlinks[Node(s, i)] \in Int
          BY <1>21, <4>1
      <4> QED BY <1>4, <1>21, <4>1, <4>2
    <3>3. CASE Innermost(s, i, x)
      <4>1. s.lowlinks[Node(s, i)] <= s.indexes[y]
          BY <1>1, <2>2, <3>1, <3>3 DEF LowLinks
      <4> QED BY <1>3, <1>22, <3>1, <3>2, <4>1
    <3>4. CASE i = n - 1 /\ Innermost(s, n, x)
      <4>1. s.lowlinks[node] <= s.indexes[y]
          BY <1>1, <1>4, <2>2, <3>1, <3>4 DEF LowLinks
      <4> QED BY <1>3, <1>21, <3>1, <3>2, <3>4, <4>1
    <3> QED BY <1>7, <2>2, <3>1, <3>3, <3>4
  <2> QED BY <2>1, <2>2 DEF LowLinks
<1>24. Components(t, graph)
    BY <1>3, <1>8 DEF SearchInv, Components
<1>25. SearchInv(t, graph)
    BY <1>16, <1>17, <1>18, <1>19, <1>20, <1>23, <1>24 DEF SearchInv
<1> QED BY <1>25 DEF t

(* What is on the stack from the node on.                                  *)
Above(s, node) == {x \in OnStack(s) : s.indexes[node] <= s.indexes[x]}

LEMMA RootReturnIs ==
    ASSUME NEW graph, NEW s, SearchType(s, graph), Numbered(s, graph),
           NEW node \in OnStack(s), s.lowlinks[node] = s.indexes[node],
           NEW t, t = TarjanReturn(s, node)
    PROVE  /\ t.stack \in Seq(DOMAIN graph) /\ Len(t.stack) <= Len(s.stack)
           /\ \A i \in 1..Len(t.stack) : t.stack[i] = s.stack[i]
           /\ OnStack(t) = OnStack(s) \ Above(s, node)
           /\ t.components = s.components \cup {Above(s, node)}
<1> DEFINE at == StackAt(s, node)
           k == Len(s.stack)
           D == DOMAIN graph
           low == SubSeq(s.stack, 1, at - 1)
           high == SubSeq(s.stack, at, k)
<1>1. /\ t.stack = low
      /\ t.components = s.components \cup {ToSet(high)}
  <2>1. IsSearch(s)
      BY SearchFacts
  <2>2. t.stack = StackAfter(s, node) /\ t.components = ComponentsAfter(s, node)
      BY <2>1, ReturnIs
  <2> QED BY <2>2 DEF IsRoot, StackAfter, ComponentsAfter
<1>2. at \in DOMAIN s.stack /\ s.stack[at] = node
  <2>1. \E i \in DOMAIN s.stack : s.stack[i] = node
      BY DEF OnStack, ToSet
  <2> QED BY <2>1 DEF StackAt
<1> HIDE DEF at
<1>3. s.stack \in Seq(D) /\ k \in Nat /\ DOMAIN s.stack = 1..k /\ at \in 1..k
    BY <1>2, SearchFacts DEF SearchType
<1>4. \A i \in 1..k : s.indexes[s.stack[i]] \in Int /\ s.stack[i] \in OnStack(s)
  <2>1. \A i \in 1..k : s.stack[i] \in D /\ s.stack[i] \in OnStack(s)
      BY <1>3 DEF OnStack, ToSet
  <2> QED BY <2>1 DEF SearchType
<1>5. \A i \in 1..k : s.stack[i] \in Above(s, node) <=> at <= i
  <2> SUFFICES ASSUME NEW i \in 1..k PROVE s.stack[i] \in Above(s, node) <=> at <= i
      OBVIOUS
  <2>1. s.stack[i] \in Above(s, node) <=> s.indexes[s.stack[at]] <= s.indexes[s.stack[i]]
      BY <1>2, <1>4 DEF Above
  <2>2. \A a, b \in 1..k : a < b => s.indexes[s.stack[a]] < s.indexes[s.stack[b]]
      BY <1>3 DEF Numbered
  <2>3. CASE i < at
    <3>1. s.indexes[s.stack[i]] < s.indexes[s.stack[at]]
        BY <1>3, <2>2, <2>3
    <3> QED BY <1>3, <1>4, <2>1, <2>3, <3>1
  <2>4. CASE i = at
    <3>1. s.indexes[s.stack[i]] \in Int
        BY <1>4
    <3> QED BY <1>3, <2>1, <2>4, <3>1
  <2>5. CASE at < i
    <3>1. s.indexes[s.stack[at]] < s.indexes[s.stack[i]]
        BY <1>3, <2>2, <2>5
    <3> QED BY <1>3, <1>4, <2>1, <2>5, <3>1
  <2> QED BY <1>3, <2>3, <2>4, <2>5
<1>6. /\ low \in Seq(D) /\ Len(low) = at - 1 /\ DOMAIN low = 1..(at - 1)
      /\ \A i \in 1..(at - 1) : low[i] = s.stack[i]
    BY <1>3
<1>7. /\ Len(high) = k - at + 1 /\ DOMAIN high = 1..(k - at + 1)
      /\ \A i \in 1..(k - at + 1) : high[i] = s.stack[at + i - 1]
    BY <1>3
<1> HIDE DEF low, high
<1>8. OnStack(s) = {s.stack[i] : i \in 1..k}
    BY <1>3 DEF OnStack, ToSet
<1>9. OnStack(t) = OnStack(s) \ Above(s, node)
  <2>1. OnStack(t) = {s.stack[i] : i \in 1..(at - 1)}
      BY <1>1, <1>6 DEF OnStack, ToSet
  <2>2. ASSUME NEW i \in 1..(at - 1) PROVE s.stack[i] \in OnStack(s) \ Above(s, node)
    <3>1. i \in 1..k /\ ~(at <= i)
        BY <1>3
    <3> QED BY <1>4, <1>5, <3>1
  <2>3. ASSUME NEW x \in OnStack(s) \ Above(s, node) PROVE x \in OnStack(t)
    <3>1. PICK i \in 1..k : x = s.stack[i]
        BY <1>8
    <3>2. ~(at <= i)
        BY <1>5, <3>1
    <3>3. i \in 1..(at - 1)
        BY <1>3, <3>2
    <3> QED BY <2>1, <3>1, <3>3
  <2> QED BY <2>1, <2>2, <2>3
<1>10. ToSet(high) = Above(s, node)
  <2>1. ToSet(high) = {s.stack[at + i - 1] : i \in 1..(k - at + 1)}
      BY <1>7 DEF ToSet
  <2>2. ASSUME NEW i \in 1..(k - at + 1) PROVE s.stack[at + i - 1] \in Above(s, node)
    <3>1. at + i - 1 \in 1..k /\ at <= at + i - 1
        BY <1>3
    <3> QED BY <1>5, <3>1
  <2>3. ASSUME NEW x \in Above(s, node) PROVE x \in ToSet(high)
    <3>1. PICK i \in 1..k : x = s.stack[i]
        BY <1>8 DEF Above
    <3>2. at <= i
        BY <1>5, <3>1
    <3>3. i - at + 1 \in 1..(k - at + 1) /\ at + (i - at + 1) - 1 = i
        BY <1>3, <3>2
    <3> QED BY <2>1, <3>1, <3>3
  <2> QED BY <2>1, <2>2, <2>3
<1> QED BY <1>1, <1>3, <1>6, <1>9, <1>10

LEMMA RootReturnKeeps ==
    ASSUME NEW graph, IsGraph(graph), NEW s, SearchInv(s, graph), NEW n, NEW node,
           ReturnFacts(s, graph, n, node), s.lowlinks[node] = s.indexes[node]
    PROVE  SearchInv(TarjanReturn(s, node), graph)
<1> DEFINE t == TarjanReturn(s, node)
           C == Above(s, node)
<1>1. /\ SearchType(s, graph) /\ Numbered(s, graph) /\ Nested(s, graph) /\ Connected(s, graph) /\ LowLinks(s, graph)
      /\ ScannedFound(s, graph) /\ Components(s, graph)
    BY DEF SearchInv
<1>2. ReturnCalls(s, t, graph, n, node)
    BY <1>1, ReturnCallsIs
<1>4. /\ n \in Nat /\ n \in 1..n /\ DOMAIN s.calls = 1..n /\ Node(s, n) = node
      /\ node \in OnStack(s) /\ node \in DOMAIN graph
      /\ \A x \in OnStack(s) : s.indexes[x] \in Nat /\ x \in DOMAIN graph
      /\ \A i \in 1..(n - 1) : Node(s, i) \in OnStack(s) /\ s.indexes[Node(s, i)] < s.indexes[node]
    BY DEF ReturnFacts
<1>3. /\ t.stack \in Seq(DOMAIN graph) /\ Len(t.stack) <= Len(s.stack)
      /\ \A i \in 1..Len(t.stack) : t.stack[i] = s.stack[i]
      /\ OnStack(t) = OnStack(s) \ C
      /\ t.components = s.components \cup {C}
    BY <1>1, <1>4, RootReturnIs
<1> HIDE DEF t, C
<1>5. /\ DOMAIN t.calls = 1..(n - 1)
      /\ \A i \in 1..(n - 1) : t.calls[i] = s.calls[i] /\ Node(t, i) = Node(s, i)
      /\ t.indexes = s.indexes /\ t.index = s.index /\ IsSearch(t)
    BY <1>2 DEF ReturnCalls, AllBut
<1>6. \A x, y : Scanned(t, x, y) <=> Scanned(s, x, y)
    BY <1>2, ReturnScans
<1>7. Settled(t) = Settled(s) \cup C
    BY <1>3 DEF Settled
<1>8. \A x \in C : x \in OnStack(s) /\ x \in DOMAIN graph /\ s.indexes[node] <= s.indexes[x]
    BY <1>4 DEF C, Above
<1>9. \A x \in OnStack(t) : x \in OnStack(s) /\ x \in DOMAIN graph /\ s.indexes[x] < s.indexes[node]
  <2> SUFFICES ASSUME NEW x \in OnStack(t)
               PROVE  x \in OnStack(s) /\ x \in DOMAIN graph /\ s.indexes[x] < s.indexes[node]
      OBVIOUS
  <2>1. x \in OnStack(s) /\ ~(s.indexes[node] <= s.indexes[x])
      BY <1>3 DEF C, Above
  <2>2. s.indexes[x] \in Nat /\ s.indexes[node] \in Nat /\ x \in DOMAIN graph
      BY <1>4, <2>1
  <2> QED BY <2>1, <2>2
<1>10. \A x \in OnStack(t) : \A i : Innermost(t, i, x) <=> Innermost(s, i, x)
  <2> SUFFICES ASSUME NEW x \in OnStack(t), NEW i PROVE Innermost(t, i, x) <=> Innermost(s, i, x)
      OBVIOUS
  <2>1. /\ Innermost(s, i, x) /\ i # n => Innermost(t, i, x)
        /\ Innermost(t, i, x) => Innermost(s, i, x) \/ (i = n - 1 /\ n # 1 /\ Innermost(s, n, x))
      BY <1>2, <1>9, ReturnScans
  <2>2. ~Innermost(s, n, x)
    <3>1. s.indexes[x] \in Nat /\ s.indexes[node] \in Nat /\ s.indexes[x] < s.indexes[node]
        BY <1>4, <1>9
    <3> QED BY <1>4, <3>1 DEF Innermost
  <2> QED BY <2>1, <2>2
<1>11. \A i \in 1..(n - 1) : Node(s, i) \in OnStack(t) /\ i \in 1..n
  <2> SUFFICES ASSUME NEW i \in 1..(n - 1) PROVE Node(s, i) \in OnStack(t) /\ i \in 1..n
      OBVIOUS
  <2>1. Node(s, i) \in OnStack(s) /\ s.indexes[Node(s, i)] < s.indexes[node]
      BY <1>4
  <2>2. s.indexes[Node(s, i)] \in Nat /\ s.indexes[node] \in Nat
      BY <1>4, <2>1
  <2>3. Node(s, i) \notin C
      BY <1>8, <2>1, <2>2
  <2> QED BY <1>3, <1>4, <2>1, <2>3
<1>12. \A i \in 1..(n - 1) : t.lowlinks[Node(s, i)] = s.lowlinks[Node(s, i)]
  <2> SUFFICES ASSUME NEW i \in 1..(n - 1) PROVE t.lowlinks[Node(s, i)] = s.lowlinks[Node(s, i)]
      OBVIOUS
  <2> DEFINE caller == Node(s, n - 1)
  <2>1. n # 1 /\ n - 1 \in 1..(n - 1)
      BY <1>4
  <2>2. /\ t.lowlinks[caller] \in {s.lowlinks[caller], s.lowlinks[node]}
        /\ t.lowlinks[caller] <= s.lowlinks[caller]
        /\ \A x \in (DOMAIN graph) \ {caller} : t.lowlinks[x] = s.lowlinks[x]
      BY <1>2, <2>1 DEF ReturnCalls
  <2>3. PICK v \in OnStack(s) : s.lowlinks[caller] = s.indexes[v] /\ s.indexes[v] <= s.indexes[caller]
      BY <1>1, <1>4, <1>11, <2>1 DEF LowLinks
  <2>4. caller \in OnStack(s) /\ s.indexes[caller] < s.indexes[node]
      BY <1>4, <2>1
  <2>5. s.indexes[v] \in Nat /\ s.indexes[caller] \in Nat /\ s.indexes[node] \in Nat
      BY <1>4, <2>3, <2>4
  <2>6. ~(s.lowlinks[node] <= s.lowlinks[caller])
      BY <2>3, <2>4, <2>5
  <2>7. t.lowlinks[caller] = s.lowlinks[caller]
      BY <2>2, <2>6
  <2>8. Node(s, i) \in DOMAIN graph
      BY <1>4
  <2> QED BY <2>2, <2>7, <2>8
<1>13. SearchType(t, graph)
  <2>1. C \subseteq DOMAIN graph
      BY <1>8
  <2>2. t.components \subseteq SUBSET DOMAIN graph
      BY <1>1, <1>3, <2>1 DEF SearchType
  <2> QED BY <1>1, <1>2, <1>3, <1>5, <2>2 DEF SearchType, ReturnCalls, IsSearch
<1>14. Numbered(t, graph)
  <2>1. \A x \in DOMAIN graph : t.indexes[x] \in -1..(t.index - 1)
      BY <1>1, <1>5 DEF Numbered
  <2>2. ASSUME NEW i \in DOMAIN t.stack, NEW j \in DOMAIN t.stack, i < j
        PROVE  t.indexes[t.stack[i]] < t.indexes[t.stack[j]]
    <3>1. /\ DOMAIN t.stack = 1..Len(t.stack) /\ DOMAIN s.stack = 1..Len(s.stack)
          /\ Len(t.stack) \in Nat /\ Len(s.stack) \in Nat
        BY <1>1, <1>13, SearchFacts
    <3>2. i \in DOMAIN s.stack /\ j \in DOMAIN s.stack /\ t.stack[i] = s.stack[i] /\ t.stack[j] = s.stack[j]
        BY <1>3, <3>1
    <3> QED BY <1>1, <1>5, <2>2, <3>2 DEF Numbered
  <2>3. \A x \in DOMAIN graph : t.indexes[x] # -1 <=> x \in OnStack(t) \cup Settled(t)
      BY <1>1, <1>3, <1>5, <1>7, <1>8 DEF Numbered
  <2>4. OnStack(t) \cap Settled(t) = {}
      BY <1>1, <1>3, <1>7 DEF Numbered
  <2> QED BY <2>1, <2>2, <2>3, <2>4 DEF Numbered
<1>15. Nested(t, graph)
  <2>1. \A i \in DOMAIN t.calls : Node(t, i) \in OnStack(t)
      BY <1>5, <1>11
  <2>2. ASSUME NEW i \in DOMAIN t.calls, NEW j \in DOMAIN t.calls, i < j
        PROVE  t.indexes[Node(t, i)] < t.indexes[Node(t, j)]
      BY <1>1, <1>4, <1>5, <1>11, <2>2 DEF Nested
  <2>3. \A x \in OnStack(t) : \E i \in DOMAIN t.calls : Innermost(t, i, x)
    <3> SUFFICES ASSUME NEW x \in OnStack(t) PROVE \E i \in DOMAIN t.calls : Innermost(t, i, x)
        OBVIOUS
    <3>1. PICK i \in 1..n : Innermost(s, i, x)
        BY <1>1, <1>4, <1>9 DEF Nested
    <3>2. Innermost(t, i, x)
        BY <1>10, <3>1
    <3> QED BY <3>2 DEF Innermost
  <2>4. ASSUME NEW i \in DOMAIN t.calls
        PROVE  ToSet(t.calls[i].todo) \subseteq graph[Node(t, i)] /\ Once(t.calls[i].todo)
    <3>1. i \in DOMAIN s.calls /\ t.calls[i] = s.calls[i] /\ Node(t, i) = Node(s, i)
        BY <1>4, <1>5, <1>11
    <3>2. ToSet(s.calls[i].todo) \subseteq graph[Node(s, i)] /\ Once(s.calls[i].todo)
        BY <1>1, <3>1 DEF Nested, Once
    <3> QED BY <3>1, <3>2
  <2> QED BY <2>1, <2>2, <2>3, <2>4 DEF Nested, Once
<1>16. ScannedFound(t, graph)
    BY <1>1, <1>5, <1>6, <1>9 DEF ScannedFound
<1>17. Connected(t, graph)
  <2>1. ASSUME NEW i \in DOMAIN t.calls, NEW y \in OnStack(t), t.indexes[Node(t, i)] <= t.indexes[y]
        PROVE  Reaches(graph, Node(t, i), y)
      BY <1>1, <1>4, <1>5, <1>9, <1>11, <2>1 DEF Connected
  <2>2. ASSUME NEW x \in OnStack(t), NEW i \in DOMAIN t.calls, Innermost(t, i, x)
        PROVE  Reaches(graph, x, Node(t, i))
    <3>1. Innermost(s, i, x) /\ i \in DOMAIN s.calls /\ Node(t, i) = Node(s, i) /\ x \in OnStack(s)
        BY <1>4, <1>5, <1>9, <1>10, <1>11, <2>2
    <3> QED BY <1>1, <3>1 DEF Connected
  <2> QED BY <2>1, <2>2 DEF Connected
<1>18. LowLinks(t, graph)
  <2>1. ASSUME NEW i \in DOMAIN t.calls
        PROVE  \E v \in OnStack(t) : /\ t.lowlinks[Node(t, i)] = t.indexes[v]
                                     /\ t.indexes[v] <= t.indexes[Node(t, i)]
                                     /\ Reaches(graph, Node(t, i), v)
    <3>1. i \in 1..(n - 1) /\ i \in DOMAIN s.calls /\ Node(t, i) = Node(s, i)
        BY <1>4, <1>5, <1>11
    <3>2. PICK v \in OnStack(s) : /\ s.lowlinks[Node(s, i)] = s.indexes[v]
                                  /\ s.indexes[v] <= s.indexes[Node(s, i)]
                                  /\ Reaches(graph, Node(s, i), v)
        BY <1>1, <3>1 DEF LowLinks
    <3>3. v \notin C
      <4>1. Node(s, i) \in OnStack(s) /\ s.indexes[Node(s, i)] < s.indexes[node]
          BY <1>4, <3>1
      <4>2. s.indexes[v] \in Nat /\ s.indexes[Node(s, i)] \in Nat /\ s.indexes[node] \in Nat
          BY <1>4, <3>2, <4>1
      <4> QED BY <1>8, <3>2, <4>1, <4>2
    <3>4. v \in OnStack(t) /\ t.lowlinks[Node(s, i)] = s.lowlinks[Node(s, i)]
        BY <1>3, <1>12, <3>1, <3>2, <3>3
    <3> QED BY <1>5, <3>1, <3>2, <3>4
  <2>2. ASSUME NEW x \in OnStack(t), NEW y \in OnStack(t), NEW i \in DOMAIN t.calls,
               y \in graph[x], Scanned(t, x, y), Innermost(t, i, x)
        PROVE  t.lowlinks[Node(t, i)] <= t.indexes[y]
    <3>1. /\ i \in 1..(n - 1) /\ i \in DOMAIN s.calls /\ Node(t, i) = Node(s, i)
          /\ x \in OnStack(s) /\ y \in OnStack(s) /\ Scanned(s, x, y) /\ Innermost(s, i, x)
        BY <1>4, <1>5, <1>6, <1>9, <1>10, <1>11, <2>2
    <3>2. s.lowlinks[Node(s, i)] <= s.indexes[y]
        BY <1>1, <2>2, <3>1 DEF LowLinks
    <3> QED BY <1>5, <1>12, <3>1, <3>2
  <2> QED BY <2>1, <2>2 DEF LowLinks
<1>19. ASSUME NEW x \in C
       PROVE  /\ Reaches(graph, node, x) /\ Reaches(graph, x, node)
              /\ \A y : Scanned(s, x, y)
              /\ Innermost(s, n, x)
    BY <1>8 DEF ReturnFacts
<1>20. ClosedIn(graph, Settled(t))
  <2> SUFFICES ASSUME NEW x \in Settled(s) \cup C, NEW y \in graph[x] PROVE y \in Settled(s) \cup C
      BY <1>7 DEF ClosedIn
  <2>1. CASE x \in Settled(s)
      BY <1>1, <2>1 DEF Components, ClosedIn
  <2>2. CASE x \in C
    <3>1. s.indexes[y] # -1 /\ y \in DOMAIN graph
        BY <1>1, <1>8, <1>19, <2>2 DEF ScannedFound, IsGraph
    <3>2. y \in OnStack(s) \cup Settled(s)
        BY <1>1, <3>1 DEF Numbered
    <3>3. ASSUME y \in OnStack(s) PROVE y \in C
      <4>1. x \in OnStack(s) /\ Scanned(s, x, y) /\ Innermost(s, n, x)
          BY <1>8, <1>19, <2>2
      <4>2. s.lowlinks[node] <= s.indexes[y]
          BY <1>1, <1>4, <3>3, <4>1 DEF LowLinks
      <4> QED BY <3>3, <4>2 DEF C, Above
    <3> QED BY <3>2, <3>3
  <2> QED BY <2>1, <2>2
<1>21. IsComponent(graph, C)
  <2>1. node \in C
    <3>1. s.indexes[node] <= s.indexes[node]
        BY <1>4
    <3> QED BY <1>4, <3>1 DEF C, Above
  <2>2. ASSUME NEW x \in C, NEW y \in C
        PROVE  y \in DOMAIN graph /\ Reaches(graph, x, y) /\ Reaches(graph, y, x)
    <3>1. Reaches(graph, x, node) /\ Reaches(graph, node, y) /\ Reaches(graph, y, node) /\ Reaches(graph, node, x)
        BY <1>19
    <3> QED BY <1>8, <3>1, ReachesOn
  <2>3. ASSUME NEW x \in C, NEW y \in DOMAIN graph, Reaches(graph, x, y), Reaches(graph, y, x)
        PROVE  y \in C
    <3>1. Settled(t) \in SUBSET DOMAIN graph /\ Settled(s) \in SUBSET DOMAIN graph
        BY <1>1, <1>13, SearchFacts
    <3>2. y \in Settled(t)
        BY <1>7, <1>20, <2>3, <3>1 DEF Reaches
    <3>3. y \notin Settled(s)
      <4> SUFFICES ASSUME y \in Settled(s) PROVE FALSE
          OBVIOUS
      <4>1. ClosedIn(graph, Settled(s))
          BY <1>1 DEF Components
      <4>2. x \in Settled(s)
          BY <2>3, <3>1, <4>1 DEF Reaches
      <4> QED BY <1>1, <1>8, <4>2 DEF Numbered
    <3> QED BY <1>7, <3>2, <3>3
  <2> QED BY <2>1, <2>2, <2>3 DEF IsComponent
<1>22. Components(t, graph)
    BY <1>1, <1>3, <1>20, <1>21 DEF Components
<1>23. SearchInv(t, graph)
    BY <1>13, <1>14, <1>15, <1>16, <1>17, <1>18, <1>22 DEF SearchInv
<1> QED BY <1>23 DEF t

LEMMA EmptyCalls ==
    ASSUME NEW graph, NEW s, SearchInv(s, graph), s.calls = <<>>
    PROVE  OnStack(s) = {} /\ DOMAIN s.calls = {}
<1>1. DOMAIN s.calls = {}
    OBVIOUS
<1> QED BY <1>1 DEF SearchInv, Nested

(* No visit is open: the first module not found yet may be visited.        *)
LEMMA FirstMayBeVisited ==
    ASSUME NEW graph, IsGraph(graph), NEW s, SearchInv(s, graph), s.calls = <<>>,
           Sorted({m \in DOMAIN graph : s.indexes[m] = -1}) # <<>>
    PROVE  MayVisit(s, graph, Head(Sorted({m \in DOMAIN graph : s.indexes[m] = -1})))
<1> DEFINE U == {m \in DOMAIN graph : s.indexes[m] = -1}
           q == Sorted(U)
<1>1. U \in SUBSET ToSet(LibraryOrder)
    BY DEF IsGraph
<1>2. q \in Seq(U) /\ q # <<>>
    BY <1>1, SortedIs
<1> HIDE DEF q, U
<1>3. Head(q) \in U
    BY <1>2
<1>4. Head(q) \in DOMAIN graph /\ s.indexes[Head(q)] = -1
    BY <1>3 DEF U
<1>5. OnStack(s) = {}
    BY EmptyCalls
<1>6. MayVisit(s, graph, Head(q))
    BY <1>4, <1>5 DEF MayVisit, SearchInv
<1> QED BY <1>6 DEF q, U

LEMMA NothingLeft ==
    ASSUME NEW graph, IsGraph(graph), NEW s,
           Sorted({m \in DOMAIN graph : s.indexes[m] = -1}) = <<>>
    PROVE  \A x \in DOMAIN graph : s.indexes[x] # -1
<1> DEFINE U == {m \in DOMAIN graph : s.indexes[m] = -1}
<1>1. U \in SUBSET ToSet(LibraryOrder)
    BY DEF IsGraph
<1>2. ToSet(Sorted(U)) = U
    BY <1>1, SortedIs
<1>3. ToSet(<<>>) = {}
    BY DEF ToSet
<1> QED BY <1>2, <1>3

LEMMA StepIs ==
    ASSUME NEW graph, NEW s, SearchType(s, graph)
    PROVE  LET n == Len(s.calls)
               U == {m \in DOMAIN graph : s.indexes[m] = -1}
           IN /\ s.calls # <<>> /\ s.calls[n].todo # <<>> =>
                    TarjanStep(s, graph) = TarjanTarget(s, Node(s, n), Head(s.calls[n].todo), graph)
              /\ s.calls # <<>> /\ s.calls[n].todo = <<>> => TarjanStep(s, graph) = TarjanReturn(s, Node(s, n))
              /\ s.calls = <<>> /\ Sorted(U) # <<>> => TarjanStep(s, graph) = TarjanVisit(s, Head(Sorted(U)), graph)
              /\ s.calls = <<>> /\ Sorted(U) = <<>> => TarjanStep(s, graph) = s
BY DEF TarjanStep, Last, Node

LEMMA StepKeeps ==
    ASSUME NEW graph, IsGraph(graph), NEW s, SearchInv(s, graph)
    PROVE  SearchInv(TarjanStep(s, graph), graph)
<1> DEFINE n == Len(s.calls)
           U == {m \in DOMAIN graph : s.indexes[m] = -1}
<1>1. SearchType(s, graph)
    BY DEF SearchInv
<1>2. CASE s.calls # <<>> /\ s.calls[n].todo # <<>>
  <2>1. TarjanStep(s, graph) = TarjanTarget(s, Node(s, n), Head(s.calls[n].todo), graph)
      BY <1>1, <1>2, StepIs
  <2> QED BY <1>2, <2>1, TargetKeeps
<1>3. CASE s.calls # <<>> /\ s.calls[n].todo = <<>>
  <2>1. TarjanStep(s, graph) = TarjanReturn(s, Node(s, n))
      BY <1>1, <1>3, StepIs
  <2>2. ReturnFacts(s, graph, n, Node(s, n))
      BY <1>3, ReturnHas
  <2> QED BY <2>1, <2>2, InnerReturnKeeps, RootReturnKeeps
<1>4. CASE s.calls = <<>> /\ Sorted(U) # <<>>
  <2>1. TarjanStep(s, graph) = TarjanVisit(s, Head(Sorted(U)), graph)
      BY <1>1, <1>4, StepIs
  <2>2. MayVisit(s, graph, Head(Sorted(U)))
      BY <1>4, FirstMayBeVisited
  <2> HIDE DEF U
  <2> QED BY <2>1, <2>2, VisitKeeps
<1>5. CASE s.calls = <<>> /\ Sorted(U) = <<>>
    BY <1>1, <1>5, StepIs
<1> QED BY <1>2, <1>3, <1>4, <1>5

LEMMA StartInv ==
    ASSUME NEW graph, IsGraph(graph)
    PROVE  SearchInv(TarjanStart(graph), graph)
<1> DEFINE s == TarjanStart(graph)
           X == [node : DOMAIN graph, todo : Seq(DOMAIN graph)]
<1>1. /\ IsSearch(s) /\ s.index = 0 /\ s.indexes = [m \in DOMAIN graph |-> -1]
      /\ s.lowlinks = [m \in DOMAIN graph |-> -1] /\ s.stack = <<>> /\ s.calls = <<>> /\ s.components = {}
    BY DEF TarjanStart, IsSearch
<1> HIDE DEF s
<1>2. DOMAIN s.calls = {} /\ DOMAIN s.stack = {} /\ OnStack(s) = {} /\ Settled(s) = {}
    BY <1>1 DEF OnStack, ToSet, Settled
<1>3. s.calls \in Seq(X)
  <2> HIDE DEF X
  <2> QED BY <1>1
<1>4. SearchType(s, graph)
    BY <1>1, <1>3 DEF SearchType, IsSearch
<1>5. Numbered(s, graph)
    BY <1>1, <1>2 DEF Numbered
<1>6. Nested(s, graph) /\ ScannedFound(s, graph) /\ Connected(s, graph) /\ LowLinks(s, graph)
    BY <1>2 DEF Nested, ScannedFound, Connected, LowLinks
<1>7. Components(s, graph)
    BY <1>1, <1>2 DEF Components, ClosedIn
<1>8. SearchInv(s, graph)
    BY <1>4, <1>5, <1>6, <1>7 DEF SearchInv
<1> QED BY <1>8 DEF s

-----------------------------------------------------------------------------
(* The search ends.                                                        *)

NothingLost(s, t, graph) ==
    /\ Found(s, graph) \subseteq Found(t, graph)
    /\ LookedAt(s, graph) \subseteq LookedAt(t, graph)
    /\ Left(s, graph) \subseteq Left(t, graph)

Grows(s, t, graph) ==
    /\ NothingLost(s, t, graph)
    /\ \/ Found(s, graph) # Found(t, graph)
       \/ LookedAt(s, graph) # LookedAt(t, graph)
       \/ Left(s, graph) # Left(t, graph)

LEMMA FiniteCounts ==
    ASSUME NEW graph, IsGraph(graph), NEW s
    PROVE  LET n == Cardinality(DOMAIN graph)
           IN /\ n \in Nat /\ n * n \in Nat
              /\ IsFiniteSet(Found(s, graph)) /\ Cardinality(Found(s, graph)) \in 0..n
              /\ IsFiniteSet(LookedAt(s, graph)) /\ Cardinality(LookedAt(s, graph)) \in 0..(n * n)
              /\ IsFiniteSet(Left(s, graph)) /\ Cardinality(Left(s, graph)) \in 0..n
<1> DEFINE D == DOMAIN graph
           n == Cardinality(D)
<1>1. IsFiniteSet(D) /\ n \in Nat
    BY ModulesAreFinite DEF IsGraph
<1>2. IsFiniteSet(D \X D) /\ Cardinality(D \X D) = n * n
    BY <1>1, FS_Product
<1>3. n * n \in Nat
    BY <1>2, FS_CardinalityType
<1>4. Found(s, graph) \in SUBSET D /\ Left(s, graph) \in SUBSET D /\ LookedAt(s, graph) \in SUBSET (D \X D)
    BY DEF Found, Left, LookedAt
<1> HIDE DEF D, n
<1>5. ASSUME NEW T, IsFiniteSet(T), NEW S \in SUBSET T
      PROVE  IsFiniteSet(S) /\ Cardinality(S) \in 0..Cardinality(T)
  <2>1. IsFiniteSet(S) /\ Cardinality(S) <= Cardinality(T)
      BY <1>5, FS_Subset
  <2>2. Cardinality(S) \in Nat /\ Cardinality(T) \in Nat
      BY <1>5, <2>1, FS_CardinalityType
  <2> QED BY <2>1, <2>2
<1>6. IsFiniteSet(Found(s, graph)) /\ Cardinality(Found(s, graph)) \in 0..n
    BY <1>1, <1>4, <1>5 DEF n
<1>7. IsFiniteSet(Left(s, graph)) /\ Cardinality(Left(s, graph)) \in 0..n
    BY <1>1, <1>4, <1>5 DEF n
<1>8. IsFiniteSet(LookedAt(s, graph)) /\ Cardinality(LookedAt(s, graph)) \in 0..(n * n)
    BY <1>2, <1>4, <1>5
<1> QED BY <1>1, <1>3, <1>6, <1>7, <1>8 DEF D, n

LEMMA GrowthCounts ==
    ASSUME NEW graph, IsGraph(graph), NEW s, NEW t, Grows(s, t, graph)
    PROVE  Progress(s, graph) \in Nat /\ Progress(t, graph) \in Nat /\ Progress(s, graph) < Progress(t, graph)
<1> DEFINE a == Cardinality(Found(s, graph))
           b == Cardinality(LookedAt(s, graph))
           c == Cardinality(Left(s, graph))
           d == Cardinality(Found(t, graph))
           e == Cardinality(LookedAt(t, graph))
           f == Cardinality(Left(t, graph))
<1>1. a \in Nat /\ b \in Nat /\ c \in Nat /\ d \in Nat /\ e \in Nat /\ f \in Nat
    BY FiniteCounts
<1>2. a <= d /\ (a = d => Found(s, graph) = Found(t, graph))
    BY FiniteCounts, FS_Subset DEF Grows, NothingLost
<1>3. b <= e /\ (b = e => LookedAt(s, graph) = LookedAt(t, graph))
    BY FiniteCounts, FS_Subset DEF Grows, NothingLost
<1>4. c <= f /\ (c = f => Left(s, graph) = Left(t, graph))
    BY FiniteCounts, FS_Subset DEF Grows, NothingLost
<1>5. ~(a = d /\ b = e /\ c = f)
    BY <1>2, <1>3, <1>4 DEF Grows
<1>6. Progress(s, graph) = a + b + c /\ Progress(t, graph) = d + e + f
    BY DEF Progress
<1> HIDE DEF a, b, c, d, e, f
<1> QED BY <1>1, <1>2, <1>3, <1>4, <1>5, <1>6

LEMMA VisitGrows ==
    ASSUME NEW graph, IsGraph(graph), NEW r, NEW x, MayVisit(r, graph, x),
           NEW t, t = TarjanVisit(r, x, graph)
    PROVE  Grows(r, t, graph)
<1> DEFINE n == Len(r.calls)
<1>1. VisitStep(r, t, x, graph)
    BY VisitShape
<1>2. /\ n \in Nat /\ DOMAIN r.calls = 1..n /\ DOMAIN t.calls = 1..(n + 1)
      /\ \A i \in 1..n : Node(t, i) = Node(r, i) /\ t.calls[i].todo = r.calls[i].todo
      /\ Node(t, n + 1) = x
    BY <1>1 DEF VisitStep
<1>3. /\ t.indexes[x] = r.index /\ r.index \in Nat
      /\ \A y \in (DOMAIN graph) \ {x} : t.indexes[y] = r.indexes[y]
    BY <1>1 DEF VisitStep
<1>4. x \in DOMAIN graph /\ r.indexes[x] = -1
    BY DEF MayVisit
<1>5. x \in Found(t, graph) /\ x \notin Found(r, graph) /\ Found(r, graph) \subseteq Found(t, graph)
    BY <1>3, <1>4 DEF Found
<1>6. ASSUME NEW u, u # x, NEW y, Scanned(r, u, y) PROVE Scanned(t, u, y)
  <2> SUFFICES ASSUME NEW i \in DOMAIN t.calls, Node(t, i) = u PROVE y \notin ToSet(t.calls[i].todo)
      BY DEF Scanned
  <2>1. i \in 1..n
      BY <1>2, <1>6
  <2> QED BY <1>2, <1>6, <2>1 DEF Scanned
<1>7. LookedAt(r, graph) \subseteq LookedAt(t, graph)
  <2> SUFFICES ASSUME NEW e \in (DOMAIN graph) \X (DOMAIN graph), r.indexes[e[1]] # -1, Scanned(r, e[1], e[2])
               PROVE  t.indexes[e[1]] # -1 /\ Scanned(t, e[1], e[2])
      BY DEF LookedAt
  <2>1. e[1] \in (DOMAIN graph) \ {x}
      BY <1>4
  <2> QED BY <1>3, <1>6, <2>1
<1>8. Left(r, graph) \subseteq Left(t, graph)
  <2> SUFFICES ASSUME NEW y \in DOMAIN graph, r.indexes[y] # -1, \A i \in DOMAIN r.calls : Node(r, i) # y,
                      NEW i \in DOMAIN t.calls
               PROVE  t.indexes[y] # -1 /\ Node(t, i) # y
      BY <1>2, <1>3, <1>4 DEF Left
  <2>1. y # x
      BY <1>4
  <2> QED BY <1>2, <1>3, <2>1
<1> QED BY <1>5, <1>7, <1>8 DEF Grows, NothingLost

LEMMA StepGrows ==
    ASSUME NEW graph, IsGraph(graph), NEW s, SearchInv(s, graph), ~Ended(s, graph)
    PROVE  Grows(s, TarjanStep(s, graph), graph)
<1> DEFINE n == Len(s.calls)
           node == Node(s, n)
           target == Head(s.calls[n].todo)
           U == {m \in DOMAIN graph : s.indexes[m] = -1}
<1>1. SearchType(s, graph) /\ Nested(s, graph)
    BY DEF SearchInv
<1>2. CASE s.calls # <<>> /\ s.calls[n].todo # <<>>
  <2> DEFINE r == [s EXCEPT !.calls[Len(s.calls)].todo = Tail(@)]
             t == TarjanTarget(s, node, target, graph)
  <2>1. TarjanStep(s, graph) = t
      BY <1>1, <1>2, StepIs
  <2>2. Dropped(s, r) /\ SearchType(r, graph)
    <3>1. AllBut(s, r, {"calls"}) /\ r.calls = DropHead(s.calls)
        BY <1>1, <1>2, RestIs
    <3> HIDE DEF r
    <3> QED BY <1>1, <1>2, <3>1, DropIs
  <2>3. t = IF s.indexes[target] = -1 THEN TarjanVisit(r, target, graph)
            ELSE IF target \in OnStack(s)
            THEN [r EXCEPT !.lowlinks = [s.lowlinks EXCEPT ![node] = Min({s.lowlinks[node], s.indexes[target]})]]
            ELSE r
      BY DEF TarjanTarget, OnStack
  <2> HIDE DEF r, t, node, target
  <2>4. /\ n \in DOMAIN s.calls
        /\ target \in graph[node]
        /\ \A x, y : Scanned(r, x, y) <=> Scanned(s, x, y) \/ (x = node /\ y = target)
        /\ ~Scanned(s, node, target)
      BY <1>1, <1>2, <2>2, DropScans DEF node, target
  <2>5. /\ r.indexes = s.indexes /\ IsSearch(r) /\ DOMAIN r.calls = DOMAIN s.calls
        /\ \A i \in DOMAIN s.calls : Node(r, i) = Node(s, i)
      BY <2>2 DEF Dropped, AllBut
  <2>6. node \in OnStack(s) /\ node \in DOMAIN graph /\ target \in DOMAIN graph /\ s.indexes[node] # -1
    <3>1. node \in OnStack(s)
        BY <1>1, <2>4 DEF Nested, node
    <3>2. node \in DOMAIN graph
        BY <1>1, <3>1, SearchFacts
    <3> QED BY <2>4, <3>1, <3>2 DEF IsGraph, SearchInv, Numbered
  <2>7. <<node, target>> \in LookedAt(r, graph) /\ <<node, target>> \notin LookedAt(s, graph)
      BY <2>4, <2>5, <2>6 DEF LookedAt
  <2>8. NothingLost(s, r, graph)
      BY <2>4, <2>5 DEF NothingLost, Found, LookedAt, Left
  <2>9. NothingLost(r, t, graph)
    <3>1. CASE s.indexes[target] = -1
      <4>1. MayVisit(r, graph, target)
          BY <1>2, <2>2, <3>1, DropMayVisit DEF target
      <4> QED BY <2>3, <3>1, <4>1, VisitGrows DEF Grows
    <3>2. CASE s.indexes[target] # -1 /\ target \notin OnStack(s)
        BY <2>3, <3>2 DEF NothingLost
    <3>3. CASE s.indexes[target] # -1 /\ target \in OnStack(s)
      <4>1. AllBut(r, t, {"lowlinks"})
          BY <2>3, <2>5, <3>3, Set_lowlinks
      <4>2. t.indexes = r.indexes /\ t.calls = r.calls
          BY <4>1 DEF AllBut
      <4> QED BY <4>2 DEF NothingLost, Found, LookedAt, Left, Scanned, Node
    <3> QED BY <3>1, <3>2, <3>3
  <2> QED BY <2>1, <2>7, <2>8, <2>9 DEF Grows, NothingLost
<1>3. CASE s.calls # <<>> /\ s.calls[n].todo = <<>>
  <2> DEFINE t == TarjanReturn(s, node)
  <2>1. TarjanStep(s, graph) = t
      BY <1>1, <1>3, StepIs
  <2>2. ReturnFacts(s, graph, n, node)
      BY <1>3, ReturnHas
  <2>3. ReturnCalls(s, t, graph, n, node)
      BY <1>1, <2>2, ReturnCallsIs
  <2> HIDE DEF t
  <2>4. /\ t.indexes = s.indexes /\ DOMAIN t.calls = 1..(n - 1) /\ \A i \in 1..(n - 1) : Node(t, i) = Node(s, i)
      BY <2>3 DEF ReturnCalls, AllBut
  <2>5. \A x, y : Scanned(t, x, y) <=> Scanned(s, x, y)
      BY <2>2, <2>3, ReturnScans
  <2>6. /\ n \in Nat /\ n \in 1..n /\ DOMAIN s.calls = 1..n /\ node \in DOMAIN graph /\ node \in OnStack(s)
        /\ s.indexes[node] \in Nat
        /\ \A i \in 1..(n - 1) : s.indexes[Node(s, i)] < s.indexes[node] /\ i \in 1..n
      BY <2>2 DEF ReturnFacts
  <2>7. Found(t, graph) = Found(s, graph) /\ LookedAt(t, graph) = LookedAt(s, graph)
      BY <2>4, <2>5 DEF Found, LookedAt
  <2>8. Left(s, graph) \subseteq Left(t, graph)
      BY <2>4, <2>6 DEF Left
  <2>9. node \in Left(t, graph)
    <3>1. t.indexes[node] # -1
        BY <2>4, <2>6
    <3>2. \A i \in 1..(n - 1) : Node(t, i) # node
        BY <2>4, <2>6
    <3> QED BY <2>4, <2>6, <3>1, <3>2 DEF Left
  <2>10. node \notin Left(s, graph)
      BY <2>6 DEF Left
  <2> QED BY <2>1, <2>7, <2>8, <2>9, <2>10 DEF Grows, NothingLost
<1>4. CASE s.calls = <<>> /\ Sorted(U) # <<>>
  <2>1. TarjanStep(s, graph) = TarjanVisit(s, Head(Sorted(U)), graph)
      BY <1>1, <1>4, StepIs
  <2>2. MayVisit(s, graph, Head(Sorted(U)))
      BY <1>4, FirstMayBeVisited
  <2> HIDE DEF U
  <2> QED BY <2>1, <2>2, VisitGrows
<1>5. CASE s.calls = <<>> /\ Sorted(U) = <<>>
    BY <1>5, NothingLeft DEF Ended
<1> QED BY <1>2, <1>3, <1>4, <1>5

IsRun(run, k, graph) ==
    run = [i \in 0..k |-> IF i = 0 THEN TarjanStart(graph) ELSE TarjanStep(run[i - 1], graph)]

(* The recursive definition of the run has a solution, of every length.    *)
LEMMA RunExists ==
    ASSUME NEW graph, NEW k \in Nat
    PROVE  \E run : IsRun(run, k, graph)
<1> DEFINE Bad == {j \in Nat : ~\E run : IsRun(run, j, graph)}
<1> SUFFICES ASSUME Bad # {} PROVE FALSE
    OBVIOUS
<1>1. PICK j \in Bad : \A i \in Bad : j <= i
  <2>1. Bad \in SUBSET Nat
      OBVIOUS
  <2> HIDE DEF Bad
  <2> QED BY <2>1, LeastNat
<1>2. j # 0
  <2> SUFFICES ASSUME j = 0 PROVE FALSE
      OBVIOUS
  <2> DEFINE run == [i \in 0..0 |-> TarjanStart(graph)]
  <2>1. run = [i \in 0..0 |-> IF i = 0 THEN TarjanStart(graph) ELSE TarjanStep(run[i - 1], graph)]
      OBVIOUS
  <2> HIDE DEF run
  <2> QED BY <1>1, <2>1 DEF IsRun
<1>3. j - 1 \in Nat /\ j - 1 \notin Bad
    BY <1>1, <1>2
<1>4. PICK run : IsRun(run, j - 1, graph)
    BY <1>3
<1> DEFINE longer == [i \in 0..j |-> IF i = j THEN TarjanStep(run[j - 1], graph) ELSE run[i]]
<1>5. ASSUME NEW i \in 0..j
      PROVE  longer[i] = IF i = 0 THEN TarjanStart(graph) ELSE TarjanStep(longer[i - 1], graph)
  <2>1. CASE i = j
    <3>1. i # 0 /\ i - 1 \in 0..j /\ i - 1 # j
        BY <1>2, <2>1
    <3>2. longer[i - 1] = run[j - 1]
        BY <2>1, <3>1
    <3> QED BY <2>1, <3>1, <3>2
  <2>2. CASE i # j
    <3>1. i \in 0..(j - 1) /\ longer[i] = run[i]
        BY <1>2, <2>2
    <3>2. run[i] = IF i = 0 THEN TarjanStart(graph) ELSE TarjanStep(run[i - 1], graph)
        BY <1>4, <3>1 DEF IsRun
    <3>3. i # 0 => longer[i - 1] = run[i - 1]
        BY <2>2
    <3> QED BY <3>1, <3>2, <3>3
  <2> QED BY <2>1, <2>2
<1>6. longer = [i \in 0..j |-> longer[i]]
    OBVIOUS
<1> HIDE DEF longer
<1>7. IsRun(longer, j, graph)
    BY <1>5, <1>6 DEF IsRun
<1> QED BY <1>1, <1>7

LEMMA StepCount ==
    ASSUME NEW graph, IsGraph(graph)
    PROVE  LET n == Cardinality(DOMAIN graph)
           IN /\ n \in Nat /\ n * n \in Nat
              /\ TarjanSteps(graph) = n + n * n + n
              /\ TarjanSteps(graph) \in Nat
<1> DEFINE n == Cardinality(DOMAIN graph)
<1>1. n \in Nat /\ n * n \in Nat
    BY FiniteCounts
<1>2. TarjanSteps(graph) = n * (n + 2)
    BY DEF TarjanSteps
<1> HIDE DEF n
<1>3. n * (n + 2) = n * n + n * 2
    BY <1>1
<1>4. n * 2 = n + n
    BY <1>1
<1>5. n * (n + 2) = n + n * n + n
    BY <1>1, <1>3, <1>4
<1> QED BY <1>1, <1>2, <1>5 DEF n

LEMMA RunIs ==
    ASSUME NEW graph, IsGraph(graph)
    PROVE  /\ TarjanRun(graph)[0] = TarjanStart(graph)
           /\ \A i \in 1..TarjanSteps(graph) : TarjanRun(graph)[i] = TarjanStep(TarjanRun(graph)[i - 1], graph)
<1> DEFINE k == TarjanSteps(graph)
           P(run) == run = [i \in 0..k |-> IF i = 0 THEN TarjanStart(graph) ELSE TarjanStep(run[i - 1], graph)]
<1>1. k \in Nat
    BY StepCount
<1>2. \E run : P(run)
    BY <1>1, RunExists DEF IsRun
<1>3. TarjanRun(graph) = CHOOSE run : P(run)
    BY DEF TarjanRun
<1> HIDE DEF P
<1>4. P(TarjanRun(graph))
    BY <1>2, <1>3
<1> DEFINE r == TarjanRun(graph)
<1>5. \A i \in 0..k : r[i] = IF i = 0 THEN TarjanStart(graph) ELSE TarjanStep(r[i - 1], graph)
    BY <1>4 DEF P
<1> HIDE DEF r, k
<1>6. \A i \in 1..k : i \in 0..k /\ i # 0
    BY <1>1
<1>7. 0 \in 0..k
    BY <1>1
<1> QED BY <1>5, <1>6, <1>7 DEF r, k

LEMMA EndedStays ==
    ASSUME NEW graph, IsGraph(graph), NEW s, SearchInv(s, graph), Ended(s, graph)
    PROVE  TarjanStep(s, graph) = s
<1> DEFINE U == {m \in DOMAIN graph : s.indexes[m] = -1}
<1>1. U = {}
    BY DEF Ended
<1>2. Sorted(U) = <<>>
  <2>1. Sorted({}) \in Seq({})
      BY SortedIs
  <2>2. Sorted({}) = <<>>
      BY <2>1
  <2> QED BY <1>1, <2>2
<1> HIDE DEF U
<1>3. s.calls = <<>> /\ SearchType(s, graph)
    BY DEF Ended, SearchInv
<1> QED BY <1>2, <1>3, StepIs DEF U

(* When the steps are done, every module has been found and every visit    *)
(* has ended.                                                              *)
LEMMA SearchEnds ==
    ASSUME NEW graph, IsGraph(graph)
    PROVE  LET s == TarjanRun(graph)[TarjanSteps(graph)] IN SearchInv(s, graph) /\ Ended(s, graph)
<1> DEFINE N == TarjanSteps(graph)
           run == TarjanRun(graph)
           Good(i) == /\ SearchInv(run[i], graph)
                      /\ Ended(run[i], graph) \/ Progress(run[i], graph) >= i
           Bad == {i \in 0..N : ~Good(i)}
<1>1. N \in Nat
    BY StepCount
<1>2. run[0] = TarjanStart(graph) /\ \A i \in 1..N : run[i] = TarjanStep(run[i - 1], graph)
    BY RunIs
<1>3. \A s : Progress(s, graph) \in 0..N
  <2> SUFFICES ASSUME NEW s PROVE Progress(s, graph) \in 0..N
      OBVIOUS
  <2> DEFINE n == Cardinality(DOMAIN graph)
             a == Cardinality(Found(s, graph))
             b == Cardinality(LookedAt(s, graph))
             c == Cardinality(Left(s, graph))
  <2>1. n \in Nat /\ n * n \in Nat /\ a \in 0..n /\ b \in 0..(n * n) /\ c \in 0..n
      BY FiniteCounts
  <2>2. N = n + n * n + n /\ Progress(s, graph) = a + b + c
      BY StepCount DEF Progress
  <2> HIDE DEF n, a, b, c, N
  <2> DEFINE m == n * n
  <2> HIDE DEF m
  <2>3. n \in Nat /\ m \in Nat /\ a \in 0..n /\ b \in 0..m /\ c \in 0..n /\ N = n + m + n
      BY <2>1, <2>2 DEF m
  <2>4. a + b + c \in 0..(n + m + n)
      BY <2>3
  <2> QED BY <2>2, <2>3, <2>4
<1> HIDE DEF N, run
<1>4. \A i \in 0..N : Good(i)
  <2> SUFFICES ASSUME Bad # {} PROVE FALSE
      OBVIOUS
  <2>1. PICK i \in Bad : \A j \in Bad : i <= j
    <3>1. Bad \in SUBSET Nat
        BY <1>1
    <3> HIDE DEF Bad
    <3> QED BY <3>1, LeastNat
  <2>2. i # 0
    <3>1. SearchInv(run[0], graph)
        BY <1>2, StartInv
    <3>2. Progress(run[0], graph) >= 0
        BY <1>1, <1>3
    <3> QED BY <2>1, <3>1, <3>2
  <2>3. i \in 1..N /\ i - 1 \in 0..N /\ i - 1 \notin Bad
      BY <1>1, <2>1, <2>2
  <2>4. Good(i - 1)
      BY <2>3
  <2>5. run[i] = TarjanStep(run[i - 1], graph)
      BY <1>2, <2>3
  <2>6. SearchInv(run[i], graph)
      BY <2>4, <2>5, StepKeeps
  <2>7. CASE Ended(run[i - 1], graph)
    <3>1. run[i] = run[i - 1]
        BY <2>4, <2>5, <2>7, EndedStays
    <3> QED BY <2>1, <2>6, <2>7, <3>1
  <2>8. CASE ~Ended(run[i - 1], graph)
    <3>1. Grows(run[i - 1], run[i], graph)
        BY <2>4, <2>5, <2>8, StepGrows
    <3>2. Progress(run[i - 1], graph) < Progress(run[i], graph)
        BY <3>1, GrowthCounts
    <3>3. Progress(run[i - 1], graph) >= i - 1
        BY <2>4, <2>8
    <3>4. Progress(run[i - 1], graph) \in Int /\ Progress(run[i], graph) \in Int /\ i \in Int
        BY <1>1, <1>3, <2>3
    <3>5. Progress(run[i], graph) >= i
        BY <3>2, <3>3, <3>4
    <3> QED BY <2>1, <2>6, <3>5
  <2> QED BY <2>7, <2>8
<1>5. Good(N)
    BY <1>1, <1>4
<1>6. ASSUME ~Ended(run[N], graph) PROVE FALSE
  <2> DEFINE t == TarjanStep(run[N], graph)
  <2>1. Progress(run[N], graph) < Progress(t, graph)
      BY <1>5, <1>6, StepGrows, GrowthCounts
  <2>2. Progress(run[N], graph) >= N
      BY <1>5, <1>6
  <2>3. Progress(run[N], graph) \in 0..N /\ Progress(t, graph) \in 0..N
      BY <1>3
  <2> HIDE DEF t
  <2> QED BY <1>1, <2>1, <2>2, <2>3
<1> QED BY <1>5, <1>6 DEF N, run

(* Tarjan's algorithm finds the strongly connected components.             *)
LEMMA ComponentsAre ==
    ASSUME NEW graph, IsGraph(graph)
    PROVE  /\ \A C \in strongly_connected_components(graph) : C \subseteq DOMAIN graph /\ IsComponent(graph, C)
           /\ \A x \in DOMAIN graph : \E C \in strongly_connected_components(graph) : x \in C
<1> DEFINE s == TarjanRun(graph)[TarjanSteps(graph)]
<1>1. SearchInv(s, graph) /\ Ended(s, graph)
    BY SearchEnds
<1>2. strongly_connected_components(graph) = s.components
    BY DEF strongly_connected_components
<1> HIDE DEF s
<1>3. OnStack(s) = {}
    BY <1>1, EmptyCalls DEF Ended
<1>4. \A x \in DOMAIN graph : x \in Settled(s)
    BY <1>1, <1>3 DEF SearchInv, Numbered, Ended
<1>5. \A C \in s.components : C \subseteq DOMAIN graph /\ IsComponent(graph, C)
    BY <1>1 DEF SearchInv, SearchType, Components
<1> QED BY <1>2, <1>4, <1>5 DEF Settled

-----------------------------------------------------------------------------
(* The paths that simple_cycles_in_component follows.                      *)

IsPath(p, start, graph, C) ==
    /\ p \in Seq(C) /\ Len(p) >= 1 /\ p[1] = start
    /\ Once(p)
    /\ \A i \in 1..(Len(p) - 1) : p[i + 1] \in graph[p[i]]
    /\ \A i \in 2..Len(p) : Rank(p[i]) > Rank(start)

Onward(p, start, graph, C) ==
    {x \in (graph[Last(p)] \cap C) \ ToSet(p) : Rank(x) > Rank(start)}

Longer(P, start, graph, C) == UNION {{Append(p, t) : t \in Onward(p, start, graph, C)} : p \in P}

IsPaths(f, k, start, graph, C) ==
    f = [i \in 1..k |-> IF i = 1 THEN {<<start>>} ELSE Longer(f[i - 1], start, graph, C)]

LEMMA PathsExist ==
    ASSUME NEW start, NEW graph, NEW C, NEW k \in Nat
    PROVE  \E f : IsPaths(f, k, start, graph, C)
<1> DEFINE Next1(P) == Longer(P, start, graph, C)
           Bad == {j \in Nat : ~\E f : IsPaths(f, j, start, graph, C)}
<1> SUFFICES ASSUME Bad # {} PROVE FALSE
    OBVIOUS
<1>1. PICK j \in Bad : \A i \in Bad : j <= i
  <2>1. Bad \in SUBSET Nat
      OBVIOUS
  <2> HIDE DEF Bad
  <2> QED BY <2>1, LeastNat
<1>2. j # 0
  <2> SUFFICES ASSUME j = 0 PROVE FALSE
      OBVIOUS
  <2> DEFINE f == [i \in 1..0 |-> {<<start>>}]
  <2>1. f = [i \in 1..0 |-> IF i = 1 THEN {<<start>>} ELSE Longer(f[i - 1], start, graph, C)]
      OBVIOUS
  <2> HIDE DEF f
  <2> QED BY <1>1, <2>1 DEF IsPaths
<1>3. j - 1 \in Nat /\ j - 1 \notin Bad
    BY <1>1, <1>2
<1>4. PICK f : IsPaths(f, j - 1, start, graph, C)
    BY <1>3
<1> HIDE DEF Next1
<1>5. \A i \in 1..(j - 1) : f[i] = IF i = 1 THEN {<<start>>} ELSE Next1(f[i - 1])
    BY <1>4 DEF IsPaths, Next1
<1> DEFINE g == [i \in 1..j |-> IF i = j THEN (IF i = 1 THEN {<<start>>} ELSE Next1(f[j - 1])) ELSE f[i]]
<1>6. ASSUME NEW i \in 1..j
      PROVE  g[i] = IF i = 1 THEN {<<start>>} ELSE Next1(g[i - 1])
  <2>1. CASE i = 1
      BY <1>2, <1>5, <2>1
  <2>2. CASE i # 1
    <3>1. i - 1 \in 1..j /\ i - 1 # j
        BY <2>2
    <3>2. g[i - 1] = f[i - 1]
        BY <3>1
    <3>3. CASE i = j
        BY <2>2, <3>2, <3>3
    <3>4. CASE i # j
      <4>1. i \in 1..(j - 1) /\ g[i] = f[i]
          BY <3>4
      <4> QED BY <1>5, <2>2, <3>2, <4>1
    <3> QED BY <3>3, <3>4
  <2> QED BY <2>1, <2>2
<1>7. g = [i \in 1..j |-> g[i]]
    OBVIOUS
<1> HIDE DEF g
<1>8. IsPaths(g, j, start, graph, C)
    BY <1>6, <1>7 DEF IsPaths, Next1
<1> QED BY <1>1, <1>8

LEMMA PathsIs ==
    ASSUME NEW start, NEW graph, NEW C, Cardinality(C) \in Nat, Cardinality(C) >= 1
    PROVE  /\ Paths(start, graph, C)[1] = {<<start>>}
           /\ \A k \in 2..Cardinality(C) :
                Paths(start, graph, C)[k] = Longer(Paths(start, graph, C)[k - 1], start, graph, C)
<1> DEFINE K == Cardinality(C)
           f == Paths(start, graph, C)
           P(h) == h = [i \in 1..K |-> IF i = 1 THEN {<<start>>} ELSE Longer(h[i - 1], start, graph, C)]
<1>1. \E h : P(h)
  <2>1. PICK h : IsPaths(h, K, start, graph, C)
      BY PathsExist
  <2> QED BY <2>1 DEF IsPaths
<1>2. f = CHOOSE h : P(h)
    BY DEF Paths, Longer, Onward
<1> HIDE DEF P
<1>3. P(f)
    BY <1>1, <1>2
<1>4. \A i \in 1..K : f[i] = IF i = 1 THEN {<<start>>} ELSE Longer(f[i - 1], start, graph, C)
    BY <1>3 DEF P
<1> HIDE DEF f
<1>5. 1 \in 1..K /\ \A k \in 2..K : k \in 1..K /\ k # 1
    OBVIOUS
<1> QED BY <1>4, <1>5 DEF f

LEMMA PathExtends ==
    ASSUME NEW start, NEW graph, NEW C, NEW q, IsPath(q, start, graph, C),
           NEW t \in Onward(q, start, graph, C)
    PROVE  IsPath(Append(q, t), start, graph, C) /\ Len(Append(q, t)) = Len(q) + 1
<1> DEFINE n == Len(q)
           p == Append(q, t)
<1>1. /\ q \in Seq(C) /\ n \in Nat /\ n >= 1 /\ q[1] = start /\ DOMAIN q = 1..n
      /\ \A i, j \in 1..n : q[i] = q[j] => i = j
      /\ \A i \in 1..(n - 1) : q[i + 1] \in graph[q[i]]
      /\ \A i \in 2..n : Rank(q[i]) > Rank(start)
  <2>1. q \in Seq(C) /\ n \in Nat /\ DOMAIN q = 1..n
      BY DEF IsPath
  <2> QED BY <2>1 DEF IsPath, Once
<1>2. t \in C /\ t \in graph[q[n]] /\ t \notin ToSet(q) /\ Rank(t) > Rank(start)
    BY DEF Onward, Last
<1>3. /\ p \in Seq(C) /\ Len(p) = n + 1 /\ DOMAIN p = 1..(n + 1) /\ p[n + 1] = t
      /\ \A i \in 1..n : p[i] = q[i]
    BY <1>1, <1>2
<1>4. \A i \in 1..n : q[i] # t
    BY <1>1, <1>2 DEF ToSet
<1> HIDE DEF p, n
<1>5. Once(p)
  <2> SUFFICES ASSUME NEW i \in 1..(n + 1), NEW j \in 1..(n + 1), p[i] = p[j] PROVE i = j
      BY <1>3 DEF Once
  <2>1. \A a \in 1..(n + 1) : a = n + 1 \/ a \in 1..n
      BY <1>1
  <2> QED BY <1>1, <1>3, <1>4, <2>1
<1>6. \A i \in 1..n : p[i + 1] \in graph[p[i]]
  <2> SUFFICES ASSUME NEW i \in 1..n PROVE p[i + 1] \in graph[p[i]]
      OBVIOUS
  <2>1. CASE i = n
      BY <1>1, <1>2, <1>3, <2>1
  <2>2. CASE i # n
    <3>1. i \in 1..(n - 1) /\ i + 1 \in 1..n
        BY <1>1, <2>2
    <3> QED BY <1>1, <1>3, <3>1
  <2> QED BY <2>1, <2>2
<1>7. \A i \in 2..(n + 1) : Rank(p[i]) > Rank(start)
  <2> SUFFICES ASSUME NEW i \in 2..(n + 1) PROVE Rank(p[i]) > Rank(start)
      OBVIOUS
  <2>1. CASE i = n + 1
      BY <1>2, <1>3, <2>1
  <2>2. CASE i # n + 1
    <3>1. i \in 2..n /\ i \in 1..n
        BY <1>1, <2>2
    <3> QED BY <1>1, <1>3, <3>1
  <2> QED BY <2>1, <2>2
<1>8. p[1] = start /\ Len(p) >= 1 /\ Len(p) - 1 = n
    BY <1>1, <1>3
<1>9. IsPath(p, start, graph, C)
    BY <1>3, <1>5, <1>6, <1>7, <1>8 DEF IsPath
<1> QED BY <1>3, <1>9 DEF p, n

LEMMA PathShortens ==
    ASSUME NEW start, NEW graph, NEW C, NEW p, IsPath(p, start, graph, C), Len(p) >= 2
    PROVE  \E q : /\ IsPath(q, start, graph, C) /\ Len(q) = Len(p) - 1
                  /\ \E t \in Onward(q, start, graph, C) : p = Append(q, t)
<1> DEFINE n == Len(p)
           q == SubSeq(p, 1, n - 1)
           t == p[n]
<1>1. /\ p \in Seq(C) /\ n \in Nat /\ n >= 2 /\ p[1] = start /\ DOMAIN p = 1..n
      /\ \A i, j \in 1..n : p[i] = p[j] => i = j
      /\ \A i \in 1..(n - 1) : p[i + 1] \in graph[p[i]]
      /\ \A i \in 2..n : Rank(p[i]) > Rank(start)
  <2>1. p \in Seq(C) /\ n \in Nat /\ DOMAIN p = 1..n
      BY DEF IsPath
  <2> QED BY <2>1 DEF IsPath, Once
<1>2. /\ q \in Seq(C) /\ Len(q) = n - 1 /\ DOMAIN q = 1..(n - 1)
      /\ \A i \in 1..(n - 1) : q[i] = p[i]
    BY <1>1
<1>3. t \in C /\ p = Append(q, t)
    BY <1>1
<1> HIDE DEF q
<1>4. n - 1 \in 1..(n - 1) /\ n - 1 >= 1 /\ (n - 1) + 1 = n /\ n \in 2..n /\ n \in 1..n
    BY <1>1
<1>5. t \in graph[Last(q)]
  <2>1. Last(q) = p[n - 1]
      BY <1>2, <1>4 DEF Last
  <2>2. p[(n - 1) + 1] \in graph[p[n - 1]]
      BY <1>1, <1>4
  <2> QED BY <1>4, <2>1, <2>2
<1>6. t \notin ToSet(q)
  <2>1. \A i \in 1..(n - 1) : i \in 1..n /\ i # n
    <3>1. n \in Nat
        BY <1>1
    <3> HIDE DEF n
    <3> QED BY <3>1
  <2>2. \A i \in 1..(n - 1) : q[i] # t
      BY <1>1, <1>2, <1>4, <2>1
  <2> QED BY <1>2, <2>2 DEF ToSet
<1>7. t \in Onward(q, start, graph, C)
  <2>1. Rank(t) > Rank(start)
      BY <1>1, <1>4
  <2> QED BY <1>3, <1>5, <1>6, <2>1 DEF Onward
<1>8. IsPath(q, start, graph, C)
  <2>1. \A i \in 1..(n - 1) : i \in 1..n
      BY <1>1
  <2>2. Once(q)
      BY <1>1, <1>2, <2>1 DEF Once
  <2>3. \A i \in 1..(Len(q) - 1) : q[i + 1] \in graph[q[i]]
    <3> SUFFICES ASSUME NEW i \in 1..((n - 1) - 1) PROVE q[i + 1] \in graph[q[i]]
        BY <1>2
    <3>1. i \in 1..(n - 1) /\ i + 1 \in 1..(n - 1)
        BY <1>1
    <3> QED BY <1>1, <1>2, <3>1
  <2>4. \A i \in 2..Len(q) : Rank(q[i]) > Rank(start)
    <3> SUFFICES ASSUME NEW i \in 2..(n - 1) PROVE Rank(q[i]) > Rank(start)
        BY <1>2
    <3>1. i \in 1..(n - 1) /\ i \in 2..n
        BY <1>1
    <3> QED BY <1>1, <1>2, <3>1
  <2>5. q[1] = start /\ Len(q) >= 1
    <3>1. 1 \in 1..(n - 1)
        BY <1>1
    <3> QED BY <1>1, <1>2, <1>4, <3>1
  <2> QED BY <1>2, <2>2, <2>3, <2>4, <2>5 DEF IsPath
<1> QED BY <1>2, <1>3, <1>7, <1>8

(* The paths of k modules are the ones that start at the least of them.    *)
LEMMA PathsAre ==
    ASSUME NEW start, NEW graph, NEW C, Cardinality(C) \in Nat, Cardinality(C) >= 1, start \in C,
           NEW k \in 1..Cardinality(C)
    PROVE  \A p : p \in Paths(start, graph, C)[k] <=> IsPath(p, start, graph, C) /\ Len(p) = k
<1> DEFINE K == Cardinality(C)
           f == Paths(start, graph, C)
           Good(j) == \A p : p \in f[j] <=> IsPath(p, start, graph, C) /\ Len(p) = j
           Bad == {j \in 1..K : ~Good(j)}
<1>1. f[1] = {<<start>>} /\ \A j \in 2..K : f[j] = Longer(f[j - 1], start, graph, C)
    BY PathsIs
<1> HIDE DEF f
<1> SUFFICES ASSUME Bad # {} PROVE FALSE
    BY DEF f
<1>2. PICK j \in Bad : \A i \in Bad : j <= i
  <2>1. Bad \in SUBSET Nat
      OBVIOUS
  <2> HIDE DEF Bad
  <2> QED BY <2>1, LeastNat
<1>3. j # 1
  <2> SUFFICES ASSUME NEW p PROVE p \in f[1] <=> IsPath(p, start, graph, C) /\ Len(p) = 1
      BY <1>2
  <2>1. ASSUME p = <<start>> PROVE IsPath(p, start, graph, C) /\ Len(p) = 1
    <3>1. p \in Seq(C) /\ Len(p) = 1 /\ p[1] = start /\ DOMAIN p = 1..1
        BY <2>1
    <3>2. Once(p)
        BY <3>1 DEF Once
    <3> QED BY <3>1, <3>2 DEF IsPath
  <2>2. ASSUME IsPath(p, start, graph, C), Len(p) = 1 PROVE p = <<start>>
      BY <2>2 DEF IsPath
  <2> QED BY <1>1, <2>1, <2>2
<1>4. j \in 2..K /\ j - 1 \in 1..K /\ j - 1 \notin Bad
    BY <1>2, <1>3
<1>5. Good(j - 1)
    BY <1>4
<1>6. ASSUME NEW p \in f[j] PROVE IsPath(p, start, graph, C) /\ Len(p) = j
  <2>1. PICK q \in f[j - 1] : p \in {Append(q, t) : t \in Onward(q, start, graph, C)}
      BY <1>1, <1>4, <1>6 DEF Longer
  <2>2. PICK t \in Onward(q, start, graph, C) : p = Append(q, t)
      BY <2>1
  <2>3. IsPath(q, start, graph, C) /\ Len(q) = j - 1
      BY <1>5, <2>1
  <2>4. IsPath(Append(q, t), start, graph, C) /\ Len(Append(q, t)) = Len(q) + 1
      BY <2>2, <2>3, PathExtends
  <2> QED BY <1>4, <2>2, <2>3, <2>4
<1>7. ASSUME NEW p, IsPath(p, start, graph, C), Len(p) = j PROVE p \in f[j]
  <2>1. Len(p) >= 2
      BY <1>4, <1>7
  <2>2. PICK q : /\ IsPath(q, start, graph, C) /\ Len(q) = Len(p) - 1
                 /\ \E t \in Onward(q, start, graph, C) : p = Append(q, t)
      BY <1>7, <2>1, PathShortens
  <2>3. q \in f[j - 1]
      BY <1>5, <1>7, <2>2
  <2>4. PICK t \in Onward(q, start, graph, C) : p = Append(q, t)
      BY <2>2
  <2>5. p \in Longer(f[j - 1], start, graph, C)
    <3> DEFINE P == f[j - 1]
    <3>1. q \in P
        BY <2>3
    <3> HIDE DEF P
    <3>2. p \in Longer(P, start, graph, C)
        BY <2>4, <3>1 DEF Longer
    <3> QED BY <3>2 DEF P
  <2> QED BY <1>1, <1>4, <2>5
<1> QED BY <1>2, <1>6, <1>7

-----------------------------------------------------------------------------
(* Rings of requires.                                                      *)

IsRing(r, graph, S) ==
    LET n == Cardinality(S)
    IN /\ r \in [1..n -> S]
       /\ \A x \in S : \E i \in 1..n : r[i] = x
       /\ \A i \in 1..(n - 1) : r[i + 1] \in graph[r[i]]
       /\ r[1] \in graph[r[n]]

HasRing(graph, S) == \E r : IsRing(r, graph, S)

LEMMA Around ==
    ASSUME NEW n \in Nat, NEW i \in 1..n
    PROVE  (i % n) + 1 = IF i = n THEN 1 ELSE i + 1
OBVIOUS

(* The same, as the remainder states it.                                   *)
LEMMA RingsAre ==
    ASSUME NEW graph, NEW S, Cardinality(S) \in Nat, Cardinality(S) >= 1
    PROVE  HasRing(graph, S) <=>
             {r \in [1..Cardinality(S) -> S] :
                /\ \A x \in S : \E i \in DOMAIN r : r[i] = x
                /\ \A i \in DOMAIN r : r[(i % Cardinality(S)) + 1] \in graph[r[i]]} # {}
<1> DEFINE n == Cardinality(S)
<1>1. n \in Nat /\ n >= 1
    OBVIOUS
<1> HIDE DEF n
<1>2. ASSUME NEW r \in [1..n -> S]
      PROVE  IsRing(r, graph, S) <=>
                /\ \A x \in S : \E i \in DOMAIN r : r[i] = x
                /\ \A i \in DOMAIN r : r[(i % n) + 1] \in graph[r[i]]
  <2>1. (\A i \in 1..n : r[(i % n) + 1] \in graph[r[i]]) <=>
            (\A i \in 1..n : r[IF i = n THEN 1 ELSE i + 1] \in graph[r[i]])
      BY <1>1, Around
  <2>2. (\A i \in 1..n : r[IF i = n THEN 1 ELSE i + 1] \in graph[r[i]]) <=>
            (\A i \in 1..(n - 1) : r[i + 1] \in graph[r[i]]) /\ r[1] \in graph[r[n]]
    <3>1. n \in 1..n /\ (\A i \in 1..(n - 1) : i \in 1..n /\ i # n) /\ \A i \in 1..n : i # n => i \in 1..(n - 1)
        BY <1>1
    <3> QED BY <3>1
  <2>3. DOMAIN r = 1..n
      OBVIOUS
  <2> QED BY <2>1, <2>2, <2>3 DEF IsRing, n
<1>3. ASSUME NEW r, IsRing(r, graph, S) PROVE r \in [1..n -> S]
    BY <1>3 DEF IsRing, n
<1>4. HasRing(graph, S) <=> \E r \in [1..n -> S] : IsRing(r, graph, S)
    BY <1>3 DEF HasRing
<1>5. HasRing(graph, S) <=> \E r \in [1..n -> S] : /\ \A x \in S : \E i \in DOMAIN r : r[i] = x
                                                  /\ \A i \in DOMAIN r : r[(i % n) + 1] \in graph[r[i]]
    BY <1>2, <1>4
<1> QED BY <1>5 DEF n

(* A closed set with one module of a ring has them all.                    *)
LEMMA RingForward ==
    ASSUME NEW graph, NEW S, NEW r, IsRing(r, graph, S), Cardinality(S) \in Nat,
           NEW T, ClosedIn(graph, T), NEW i \in 1..Cardinality(S), r[i] \in T,
           NEW j \in 1..Cardinality(S), i <= j
    PROVE  r[j] \in T
<1> DEFINE n == Cardinality(S)
           Bad == {k \in i..n : r[k] \notin T}
<1>1. n \in Nat /\ i \in 1..n
    OBVIOUS
<1>2. \A k \in 1..(n - 1) : r[k + 1] \in graph[r[k]]
    BY DEF IsRing
<1> HIDE DEF n
<1> SUFFICES ASSUME Bad # {} PROVE FALSE
  <2>1. j \in i..n
      BY <1>1 DEF n
  <2> QED BY <2>1
<1>3. PICK k \in Bad : \A l \in Bad : k <= l
  <2>1. Bad \in SUBSET Nat
      BY <1>1
  <2> HIDE DEF Bad
  <2> QED BY <2>1, LeastNat
<1>4. k # i
    BY <1>3
<1>5. k - 1 \in i..n /\ k - 1 \in 1..(n - 1) /\ k - 1 \notin Bad /\ (k - 1) + 1 = k
    BY <1>1, <1>3, <1>4
<1>6. r[k - 1] \in T
    BY <1>5
<1>7. r[(k - 1) + 1] \in graph[r[k - 1]]
    BY <1>2, <1>5
<1> QED BY <1>3, <1>5, <1>6, <1>7 DEF ClosedIn

LEMMA RingReaches ==
    ASSUME NEW graph, NEW S, NEW r, IsRing(r, graph, S), Cardinality(S) \in Nat,
           NEW x \in S, NEW y \in S
    PROVE  Reaches(graph, x, y)
<1> DEFINE n == Cardinality(S)
<1>1. PICK i \in 1..n : r[i] = x
    BY DEF IsRing
<1>2. PICK j \in 1..n : r[j] = y
    BY DEF IsRing
<1> SUFFICES ASSUME NEW T \in SUBSET DOMAIN graph, x \in T, ClosedIn(graph, T) PROVE y \in T
    BY DEF Reaches
<1>3. n \in 1..n /\ 1 \in 1..n /\ i <= n /\ 1 <= j
    BY <1>1, <1>2
<1>4. r[n] \in T
    BY <1>1, <1>3, RingForward
<1>5. r[1] \in T
    BY <1>4 DEF IsRing, ClosedIn
<1>6. r[j] \in T
    BY <1>2, <1>3, <1>5, RingForward
<1> QED BY <1>2, <1>6

LEMMA RingOnce ==
    ASSUME NEW graph, NEW S, NEW r, IsRing(r, graph, S), Cardinality(S) \in Nat, IsFiniteSet(S)
    PROVE  \A i, j \in 1..Cardinality(S) : r[i] = r[j] => i = j
<1> DEFINE n == Cardinality(S)
<1>1. r \in Surjection(1..n, S)
    BY DEF IsRing, Surjection
<1>2. IsFiniteSet(1..n) /\ Cardinality(1..n) = n
    BY FS_Interval
<1>3. r \in Injection(1..n, S)
    BY <1>1, <1>2, FS_Surjection
<1> QED BY <1>3 DEF Injection, IsInjective

Turned(r, k, n) == [i \in 1..n |-> IF i + k - 1 <= n THEN r[i + k - 1] ELSE r[i + k - 1 - n]]

(* A ring read from its k-th module on.                                    *)
LEMMA RingTurns ==
    ASSUME NEW graph, NEW S, NEW r, IsRing(r, graph, S), Cardinality(S) \in Nat,
           NEW k \in 1..Cardinality(S)
    PROVE  IsRing(Turned(r, k, Cardinality(S)), graph, S) /\ Turned(r, k, Cardinality(S))[1] = r[k]
<1> DEFINE n == Cardinality(S)
           p == Turned(r, k, n)
<1>1. /\ n \in Nat /\ k \in 1..n /\ r \in [1..n -> S]
      /\ \A x \in S : \E i \in 1..n : r[i] = x
      /\ \A i \in 1..(n - 1) : r[i + 1] \in graph[r[i]]
      /\ r[1] \in graph[r[n]]
    BY DEF IsRing
<1> HIDE DEF n
<1>2. \A i \in 1..n : p[i] = IF i + k - 1 <= n THEN r[i + k - 1] ELSE r[i + k - 1 - n]
    BY DEF Turned
<1>3. \A i \in 1..n : (i + k - 1 <= n => i + k - 1 \in 1..n) /\ (~(i + k - 1 <= n) => i + k - 1 - n \in 1..n)
    BY <1>1
<1>4. p \in [1..n -> S]
  <2>1. p = [i \in 1..n |-> p[i]]
      BY DEF Turned
  <2>2. \A i \in 1..n : p[i] \in S
      BY <1>1, <1>2, <1>3
  <2> HIDE DEF p
  <2> QED BY <2>1, <2>2
<1> HIDE DEF p
<1>5. ASSUME NEW x \in S PROVE \E i \in 1..n : p[i] = x
  <2>1. PICK j \in 1..n : r[j] = x
      BY <1>1
  <2>2. CASE k <= j
    <3>1. j - k + 1 \in 1..n /\ (j - k + 1) + k - 1 = j /\ j <= n
        BY <1>1, <2>2
    <3>2. p[j - k + 1] = r[j]
        BY <1>2, <3>1
    <3> QED BY <2>1, <3>1, <3>2
  <2>3. CASE ~(k <= j)
    <3>1. j - k + 1 + n \in 1..n /\ ~((j - k + 1 + n) + k - 1 <= n) /\ (j - k + 1 + n) + k - 1 - n = j
        BY <1>1, <2>3
    <3>2. p[j - k + 1 + n] = r[j]
        BY <1>2, <3>1
    <3> QED BY <2>1, <3>1, <3>2
  <2> QED BY <2>2, <2>3
<1>6. ASSUME NEW i \in 1..(n - 1) PROVE p[i + 1] \in graph[p[i]]
  <2>1. i \in 1..n /\ i + 1 \in 1..n
      BY <1>1
  <2>2. CASE i + k <= n
    <3>1. (i + 1) + k - 1 = i + k /\ i + k - 1 <= n /\ i + k - 1 \in 1..(n - 1) /\ (i + k - 1) + 1 = i + k
        BY <1>1, <2>2
    <3>2. p[i + 1] = r[i + k] /\ p[i] = r[i + k - 1]
        BY <1>2, <2>1, <2>2, <3>1
    <3>3. r[(i + k - 1) + 1] \in graph[r[i + k - 1]]
        BY <1>1, <3>1
    <3> QED BY <3>1, <3>2, <3>3
  <2>3. CASE i + k = n + 1
    <3>1. (i + 1) + k - 1 = n + 1 /\ ~(n + 1 <= n) /\ n + 1 - n = 1 /\ i + k - 1 = n /\ n <= n
        BY <1>1, <2>3
    <3>2. p[i + 1] = r[1] /\ p[i] = r[n]
        BY <1>2, <2>1, <3>1
    <3> QED BY <1>1, <3>2
  <2>4. CASE i + k > n + 1
    <3>1. /\ (i + 1) + k - 1 = i + k /\ ~(i + k <= n) /\ ~(i + k - 1 <= n)
          /\ i + k - 1 - n \in 1..(n - 1) /\ (i + k - 1 - n) + 1 = i + k - n
        BY <1>1, <2>4
    <3>2. p[i + 1] = r[i + k - n] /\ p[i] = r[i + k - 1 - n]
      <4>1. p[i] = r[i + k - 1 - n]
          BY <1>2, <2>1, <3>1
      <4>2. p[i + 1] = IF (i + 1) + k - 1 <= n THEN r[(i + 1) + k - 1] ELSE r[(i + 1) + k - 1 - n]
          BY <1>2, <2>1
      <4>3. ~((i + 1) + k - 1 <= n) /\ (i + 1) + k - 1 - n = i + k - n
          BY <1>1, <3>1
      <4> QED BY <4>1, <4>2, <4>3
    <3>3. r[(i + k - 1 - n) + 1] \in graph[r[i + k - 1 - n]]
        BY <1>1, <3>1
    <3> QED BY <3>1, <3>2, <3>3
  <2> QED BY <1>1, <2>2, <2>3, <2>4
<1>7. p[1] = r[k]
  <2>1. 1 \in 1..n /\ 1 + k - 1 = k /\ k <= n
      BY <1>1
  <2> QED BY <1>2, <2>1
<1>8. p[1] \in graph[p[n]]
  <2>1. n \in 1..n
      BY <1>1
  <2>2. CASE k = 1
    <3>1. n + k - 1 = n /\ n <= n
        BY <1>1, <2>2
    <3>2. p[n] = r[n]
        BY <1>2, <2>1, <3>1
    <3> QED BY <1>1, <1>7, <2>2, <3>2
  <2>3. CASE k # 1
    <3>1. ~(n + k - 1 <= n) /\ n + k - 1 - n = k - 1 /\ k - 1 \in 1..(n - 1) /\ (k - 1) + 1 = k
        BY <1>1, <2>3
    <3>2. p[n] = r[k - 1]
        BY <1>2, <2>1, <3>1
    <3>3. r[(k - 1) + 1] \in graph[r[k - 1]]
        BY <1>1, <3>1
    <3> QED BY <1>7, <3>1, <3>2, <3>3
  <2> QED BY <2>2, <2>3
<1>9. IsRing(p, graph, S)
    BY <1>4, <1>5, <1>6, <1>8 DEF IsRing, n
<1> QED BY <1>7, <1>9 DEF p, n

(* A path that closes is a ring of its modules.                            *)
LEMMA PathIsRing ==
    ASSUME NEW graph, NEW C, NEW start, NEW p, IsPath(p, start, graph, C), p[1] \in graph[Last(p)]
    PROVE  HasRing(graph, ToSet(p)) /\ ToSet(p) \subseteq C /\ ToSet(p) # {}
<1> DEFINE n == Len(p)
           S == ToSet(p)
<1>1. /\ p \in Seq(C) /\ n \in Nat /\ n >= 1 /\ DOMAIN p = 1..n
      /\ \A i, j \in 1..n : p[i] = p[j] => i = j
      /\ \A i \in 1..(n - 1) : p[i + 1] \in graph[p[i]]
      /\ p = [i \in 1..n |-> p[i]]
  <2>1. p \in Seq(C) /\ n \in Nat /\ DOMAIN p = 1..n
      BY DEF IsPath
  <2> QED BY <2>1 DEF IsPath, Once
<1>2. S = {p[i] : i \in 1..n}
    BY <1>1 DEF ToSet
<1>3. p[1] \in graph[p[n]]
    BY <1>1 DEF Last
<1>4. S \subseteq C /\ S # {}
  <2>1. 1 \in 1..n
      BY <1>1
  <2> QED BY <1>1, <1>2, <2>1
<1> HIDE DEF n, S
<1>5. p \in [1..n -> S]
    BY <1>1, <1>2
<1>6. Cardinality(S) = n
  <2>1. p \in Surjection(1..n, S)
      BY <1>2, <1>5 DEF Surjection
  <2>2. p \in Injection(1..n, S)
      BY <1>1, <1>5 DEF Injection, IsInjective
  <2>3. IsFiniteSet(1..n) /\ Cardinality(1..n) = n
      BY <1>1, FS_Interval
  <2> QED BY <2>1, <2>2, <2>3, FS_Surjection
<1>7. IsRing(p, graph, S)
    BY <1>1, <1>2, <1>3, <1>5, <1>6 DEF IsRing
<1> QED BY <1>4, <1>7 DEF HasRing, S

(* A ring, read from its least module on, is a path.                       *)
LEMMA RingIsPath ==
    ASSUME NEW graph, IsGraph(graph), NEW C \in SUBSET DOMAIN graph, NEW S \in SUBSET C, S # {}, HasRing(graph, S)
    PROVE  \E m \in C : \E p : /\ IsPath(p, m, graph, C) /\ Len(p) = Cardinality(S)
                               /\ ToSet(p) = S /\ p[1] \in graph[Last(p)]
<1> DEFINE n == Cardinality(S)
<1>1. S \in SUBSET ToSet(LibraryOrder)
    BY DEF IsGraph
<1>2. IsFiniteSet(S) /\ n \in Nat
    BY <1>1, ModulesAreFinite
<1>3. PICK m \in S : \A y \in S : Rank(m) <= Rank(y)
    BY <1>1, FirstAndLast
<1>4. PICK r : IsRing(r, graph, S)
    BY DEF HasRing
<1>5. PICK k \in 1..n : r[k] = m
    BY <1>3, <1>4 DEF IsRing
<1>6. PICK p : IsRing(p, graph, S) /\ p[1] = m
    BY <1>2, <1>4, <1>5, RingTurns
<1>7. \A i, j \in 1..n : p[i] = p[j] => i = j
    BY <1>2, <1>6, RingOnce
<1>8. /\ p \in [1..n -> S] /\ n >= 1 /\ n \in 1..n
      /\ \A x \in S : \E i \in 1..n : p[i] = x
      /\ \A i \in 1..(n - 1) : p[i + 1] \in graph[p[i]]
      /\ p[1] \in graph[p[n]]
    BY <1>2, <1>5, <1>6 DEF IsRing
<1> HIDE DEF n
<1>9. p \in Seq(C) /\ Len(p) = n /\ DOMAIN p = 1..n /\ p[n] = Last(p)
    BY <1>2, <1>8 DEF Last
<1>10. ToSet(p) = S
    BY <1>8, <1>9 DEF ToSet
<1>11. ASSUME NEW i \in 2..n PROVE Rank(p[i]) > Rank(m)
  <2>1. i \in 1..n /\ i # 1 /\ 1 \in 1..n
      BY <1>2
  <2>2. p[i] \in S /\ p[i] # m
      BY <1>6, <1>7, <1>8, <2>1
  <2>3. p[i] \in ToSet(LibraryOrder) /\ m \in ToSet(LibraryOrder)
      BY <1>1, <1>3, <2>2
  <2>4. Rank(m) <= Rank(p[i])
      BY <1>3, <2>2
  <2>5. Rank(m) \in Nat /\ Rank(p[i]) \in Nat /\ Rank(m) # Rank(p[i])
      BY <2>2, <2>3, RankInjective
  <2> QED BY <2>4, <2>5
<1>12. IsPath(p, m, graph, C)
    BY <1>6, <1>7, <1>8, <1>9, <1>11 DEF IsPath, Once
<1> QED BY <1>3, <1>8, <1>9, <1>10, <1>12 DEF n

(* The gate's cycles are the sets of modules that form a ring.             *)
LEMMA CyclesAre ==
    ASSUME NEW graph, IsGraph(graph)
    PROVE  cycles_from_graph(graph) =
             {Sorted(S) : S \in {x \in (SUBSET DOMAIN graph) \ {{}} : HasRing(graph, x)}}
<1> DEFINE comps == strongly_connected_components(graph)
           Rings == {x \in (SUBSET DOMAIN graph) \ {{}} : HasRing(graph, x)}
           Selves == {x \in DOMAIN graph : {x} \in comps /\ x \in graph[x]}
           Large == {x \in comps : Cardinality(x) > 1}
<1>1. /\ \A C \in comps : C \subseteq DOMAIN graph /\ IsComponent(graph, C)
      /\ \A x \in DOMAIN graph : \E C \in comps : x \in C
    BY ComponentsAre
<1>2. cycles_from_graph(graph) =
        (UNION {simple_cycles_in_component(graph, C) : C \in Large}) \cup {<<m>> : m \in Selves}
    BY DEF cycles_from_graph
<1>3. \A C \in comps : IsFiniteSet(C) /\ Cardinality(C) \in Nat /\ Cardinality(C) >= 1
  <2> SUFFICES ASSUME NEW C \in comps PROVE IsFiniteSet(C) /\ Cardinality(C) \in Nat /\ Cardinality(C) >= 1
      OBVIOUS
  <2>1. C \in SUBSET ToSet(LibraryOrder) /\ C # {}
      BY <1>1 DEF IsGraph, IsComponent
  <2>2. IsFiniteSet(C) /\ Cardinality(C) \in Nat
      BY <2>1, ModulesAreFinite
  <2>3. Cardinality(C) # 0
      BY <2>1, <2>2, FS_EmptySet
  <2> QED BY <2>2, <2>3
<1>4. \A C, m, p : C \in comps /\ m \in C =>
        (p \in PathsFrom(m, graph, C) <=> IsPath(p, m, graph, C) /\ Len(p) \in 1..Cardinality(C))
  <2> SUFFICES ASSUME NEW C \in comps, NEW m \in C, NEW p
               PROVE  p \in PathsFrom(m, graph, C) <=> IsPath(p, m, graph, C) /\ Len(p) \in 1..Cardinality(C)
      OBVIOUS
  <2>1. \A k \in 1..Cardinality(C) : p \in Paths(m, graph, C)[k] <=> IsPath(p, m, graph, C) /\ Len(p) = k
      BY <1>3, PathsAre
  <2>2. p \in PathsFrom(m, graph, C) <=> \E k \in 1..Cardinality(C) : p \in Paths(m, graph, C)[k]
      BY DEF PathsFrom
  <2> QED BY <2>1, <2>2
<1>5. \A C : simple_cycles_in_component(graph, C) =
        {Sorted(ToSet(p)) : p \in {q \in UNION {PathsFrom(m, graph, C) : m \in C} : q[1] \in graph[Last(q)]}}
    BY DEF simple_cycles_in_component
<1> HIDE DEF comps, Rings, Selves, Large
<1>6. ASSUME NEW c \in cycles_from_graph(graph) PROVE c \in {Sorted(S) : S \in Rings}
  <2>1. CASE c \in {<<m>> : m \in Selves}
    <3>1. PICK m \in Selves : c = <<m>>
        BY <2>1
    <3>2. m \in DOMAIN graph /\ m \in graph[m]
        BY <3>1 DEF Selves
    <3>3. Sorted({m}) = <<m>>
      <4>1. {m} \in SUBSET ToSet(LibraryOrder)
          BY <3>2 DEF IsGraph
      <4> QED BY <4>1, SortedIs
    <3>4. Cardinality({m}) = 1
        BY FS_Singleton
    <3>5. IsRing([i \in 1..1 |-> m], graph, {m})
      <4> DEFINE r == [i \in 1..1 |-> m]
      <4>1. r \in [1..1 -> {m}] /\ r[1] = m /\ 1 \in 1..1
          OBVIOUS
      <4> HIDE DEF r
      <4>2. \A i \in 1..(1 - 1) : FALSE
          OBVIOUS
      <4>3. IsRing(r, graph, {m})
          BY <3>2, <3>4, <4>1, <4>2 DEF IsRing
      <4> QED BY <4>3 DEF r
    <3>6. {m} \in Rings
        BY <3>2, <3>5 DEF Rings, HasRing
    <3> QED BY <3>1, <3>3, <3>6
  <2>2. CASE c \in UNION {simple_cycles_in_component(graph, C) : C \in Large}
    <3>1. PICK C \in Large : c \in simple_cycles_in_component(graph, C)
        BY <2>2
    <3>2. C \in comps
        BY DEF Large
    <3>3. PICK p \in {q \in UNION {PathsFrom(m, graph, C) : m \in C} : q[1] \in graph[Last(q)]} :
                c = Sorted(ToSet(p))
        BY <1>5, <3>1
    <3>4. p[1] \in graph[Last(p)]
        BY <3>3
    <3>5. PICK m \in C : p \in PathsFrom(m, graph, C)
        BY <3>3
    <3>6. IsPath(p, m, graph, C)
        BY <1>4, <3>2, <3>5
    <3>7. HasRing(graph, ToSet(p)) /\ ToSet(p) \subseteq C /\ ToSet(p) # {}
        BY <3>4, <3>6, PathIsRing
    <3>8. ToSet(p) \in Rings
        BY <1>1, <3>2, <3>7 DEF Rings
    <3> QED BY <3>3, <3>8
  <2> QED BY <1>2, <1>6, <2>1, <2>2
<1>7. ASSUME NEW S \in Rings PROVE Sorted(S) \in cycles_from_graph(graph)
  <2>1. S \in SUBSET DOMAIN graph /\ S # {} /\ HasRing(graph, S)
      BY DEF Rings
  <2>2. PICK r : IsRing(r, graph, S)
      BY <2>1 DEF HasRing
  <2>3. IsFiniteSet(S) /\ Cardinality(S) \in Nat /\ Cardinality(S) >= 1
    <3>1. S \in SUBSET ToSet(LibraryOrder)
        BY <2>1 DEF IsGraph
    <3>2. IsFiniteSet(S) /\ Cardinality(S) \in Nat
        BY <3>1, ModulesAreFinite
    <3>3. Cardinality(S) # 0
        BY <2>1, <3>2, FS_EmptySet
    <3> QED BY <3>2, <3>3
  <2>4. PICK x \in S : TRUE
      BY <2>1
  <2>5. PICK C \in comps : x \in C
      BY <1>1, <2>1
  <2>6. S \subseteq C
    <3> SUFFICES ASSUME NEW y \in S PROVE y \in C
        OBVIOUS
    <3>1. Reaches(graph, x, y) /\ Reaches(graph, y, x)
        BY <2>2, <2>3, RingReaches
    <3>2. y \in DOMAIN graph
        BY <2>1
    <3> QED BY <1>1, <2>5, <3>1, <3>2 DEF IsComponent
  <2>7. C \in SUBSET DOMAIN graph /\ S \in SUBSET C
      BY <1>1, <2>6
  <2>8. CASE Cardinality(C) > 1
    <3>1. PICK m \in C : \E p : /\ IsPath(p, m, graph, C) /\ Len(p) = Cardinality(S)
                                /\ ToSet(p) = S /\ p[1] \in graph[Last(p)]
        BY <2>1, <2>7, RingIsPath
    <3>2. PICK p : IsPath(p, m, graph, C) /\ Len(p) = Cardinality(S) /\ ToSet(p) = S /\ p[1] \in graph[Last(p)]
        BY <3>1
    <3>3. Cardinality(S) <= Cardinality(C)
        BY <1>3, <2>7, FS_Subset
    <3>4. Len(p) \in 1..Cardinality(C)
        BY <1>3, <2>3, <3>2, <3>3
    <3>5. p \in PathsFrom(m, graph, C)
        BY <1>4, <3>1, <3>2, <3>4
    <3>6. Sorted(S) \in simple_cycles_in_component(graph, C)
        BY <1>5, <3>2, <3>5
    <3>7. C \in Large
        BY <2>8 DEF Large
    <3> QED BY <1>2, <3>6, <3>7
  <2>9. CASE ~(Cardinality(C) > 1)
    <3>1. Cardinality(C) = 1
        BY <1>3, <2>9
    <3>2. PICK m : C = {m}
        BY <1>3, <3>1, FS_Singleton
    <3>3. S = {m} /\ m \in DOMAIN graph
        BY <2>1, <2>6, <3>2
    <3>4. Cardinality(S) = 1
        BY <3>3, FS_Singleton
    <3>5. m \in graph[m]
      <4>1. r \in [1..1 -> S] /\ r[1] \in graph[r[1]]
          BY <2>2, <3>4 DEF IsRing
      <4>2. r[1] = m
          BY <3>3, <4>1
      <4> QED BY <4>1, <4>2
    <3>6. m \in Selves
        BY <3>2, <3>3, <3>5 DEF Selves
    <3>7. Sorted(S) = <<m>>
      <4>1. S \in SUBSET ToSet(LibraryOrder)
          BY <2>1 DEF IsGraph
      <4> QED BY <3>3, <4>1, SortedIs
    <3> QED BY <1>2, <3>6, <3>7
  <2> QED BY <2>8, <2>9
<1>8. cycles_from_graph(graph) = {Sorted(S) : S \in Rings}
    BY <1>6, <1>7
<1> QED BY <1>8 DEF Rings
=============================================================================
