---------------------------- MODULE ScopeProofs ----------------------------
(***************************************************************************)
(* Two things the gates know of Lua source.  What the scope tracker of the *)
(* login gate knows of a name at a line is what Lua's scopes say of it,    *)
(* for every source whose blocks are nested: the tracker keeps a stack of  *)
(* scopes; Lua's rule is by position.  And a line that opens, closes and   *)
(* reads nothing may be put in anywhere: the function blocks, and what the *)
(* gates find in them, move with the lines.                                *)
(***************************************************************************)
EXTENDS SourceGates, CycleProofs

IsSource(src) == \E S : src \in Seq(S)

BindingStates == {"none", "raw", "unknown", "canonical"}

(* A declaration at i is not out of scope because of line k.               *)
Stays(src, i, k) ==
    /\ BlockDepth(src, k) >= BlockDepth(src, i)
    /\ src[k].ev = "else" => BlockDepth(src, k) > BlockDepth(src, i)

InForce(src, i, j) == \A k \in (i + 1)..(j - 1) : Stays(src, i, k)

(* The declarations of a name in the d-th open scope, and the last one.    *)
DeclaredIn(src, d, name, j) ==
    {i \in 1..(j - 1) : Declares(src, i, name) /\ BlockDepth(src, i) = d - 1 /\ InForce(src, i, j)}

LastDeclared(src, d, name, j) == Max({0} \cup DeclaredIn(src, d, name, j))

(* Line i binds the variable that was declared at m, or the global one.    *)
Binds(src, name, m, i) ==
    /\ src[i].name = name
    /\ \/ src[i].ev = "assign" /\ Declaration(src, name, i) = m
       \/ Declares(src, i, name) /\ i = m

Bindings(src, name, m, j) == {i \in 1..(j - 1) : Binds(src, name, m, i)}
BoundLast(src, name, m, j) == Max({0} \cup Bindings(src, name, m, j))

(* A state the tracker has for the variable declared at m.                 *)
Fits(state, src, name, m, j) ==
    /\ state = "none" <=> BoundLast(src, name, m, j) = 0
    /\ state = "canonical" <=> GivesCanonical(src)[BoundLast(src, name, m, j)]

(* The invariant of the tracker, before the event of line j.               *)
SlotFits(scopes, src, d, name, j) ==
    IF d > 1 /\ LastDeclared(src, d, name, j) = 0 THEN scopes[d][name] = "none"
    ELSE Fits(scopes[d][name], src, name, LastDeclared(src, d, name, j), j)

ScopesInv(scopes, src, j) ==
    /\ scopes \in Seq([LoginNames -> BindingStates])
    /\ Len(scopes) = BlockDepth(src, j - 1) + 1
    /\ \A d \in 1..Len(scopes), name \in LoginNames : SlotFits(scopes, src, d, name, j)

-----------------------------------------------------------------------------
LEMMA GreatestOf ==
    ASSUME NEW n \in Nat, NEW S \in SUBSET (1..n)
    PROVE  /\ Max({0} \cup S) \in 0..n
           /\ Max({0} \cup S) \in {0} \cup S
           /\ \A x \in S : x <= Max({0} \cup S)
<1> DEFINE T == {0} \cup S
           Down == {n - x : x \in T}
<1>1. PICK m \in Down : \A x \in Down : m <= x
  <2>1. Down \in SUBSET Nat /\ Down # {}
      OBVIOUS
  <2> HIDE DEF Down
  <2> QED BY <2>1, LeastNat
<1>2. PICK g \in T : m = n - g
    OBVIOUS
<1>3. ASSUME NEW x \in T PROVE g >= x
  <2>1. n - g <= n - x
      BY <1>1, <1>2
  <2>2. x \in Int /\ g \in Int
      OBVIOUS
  <2> QED BY <2>1, <2>2
<1>4. Max(T) \in T /\ \A x \in T : Max(T) >= x
    BY <1>3 DEF Max
<1> DEFINE top == Max(T)
<1>5. top \in T /\ \A x \in T : top >= x
    BY <1>4
<1> HIDE DEF top
<1>6. top \in 0..n /\ \A x \in S : x \in Int /\ x <= top
  <2>1. T \subseteq 0..n /\ S \subseteq T
      OBVIOUS
  <2> HIDE DEF T
  <2>2. top \in 0..n
      BY <1>5, <2>1
  <2>3. ASSUME NEW x \in S PROVE x \in Int /\ x <= top
      BY <1>5, <2>1, <2>2
  <2> QED BY <2>2, <2>3
<1> QED BY <1>5, <1>6 DEF top

LEMMA SourceIs ==
    ASSUME NEW src, IsSource(src)
    PROVE  Len(src) \in Nat /\ DOMAIN src = 1..Len(src)
BY DEF IsSource

(* The depth of blocks, line by line.                                      *)
LEMMA DepthStep ==
    ASSUME NEW src
    PROVE  /\ BlockDepth(src, 0) = 0
           /\ \A i \in Nat : BlockDepth(src, i) \in Int
           /\ \A i \in Nat \ {0} : BlockDepth(src, i) = BlockDepth(src, i - 1)
                + (IF src[i].ev \in {"then", "for", "function"} THEN 1 ELSE IF src[i].ev = "end" THEN -1 ELSE 0)
<1> DEFINE Opens(i) == {k \in 1..i : src[k].ev \in {"then", "for", "function"}}
           Ends(i) == {k \in 1..i : src[k].ev = "end"}
<1>1. \A i : BlockDepth(src, i) = Cardinality(Opens(i)) - Cardinality(Ends(i))
    BY DEF BlockDepth
<1>2. ASSUME NEW i \in Nat
      PROVE  IsFiniteSet(Opens(i)) /\ IsFiniteSet(Ends(i))
  <2>1. IsFiniteSet(1..i)
      BY FS_Interval
  <2> QED BY <2>1, FS_Subset
<1>3. \A i \in Nat : Cardinality(Opens(i)) \in Nat /\ Cardinality(Ends(i)) \in Nat
    BY <1>2, FS_CardinalityType
<1>4. Opens(0) = {} /\ Ends(0) = {}
    OBVIOUS
<1>5. ASSUME NEW i \in Nat \ {0}
      PROVE  /\ Opens(i) = IF src[i].ev \in {"then", "for", "function"} THEN Opens(i - 1) \cup {i} ELSE Opens(i - 1)
             /\ Ends(i) = IF src[i].ev = "end" THEN Ends(i - 1) \cup {i} ELSE Ends(i - 1)
             /\ i \notin Opens(i - 1) /\ i \notin Ends(i - 1) /\ i - 1 \in Nat
    OBVIOUS
<1> HIDE DEF Opens, Ends
<1>6. ASSUME NEW i \in Nat \ {0}
      PROVE  /\ Cardinality(Opens(i)) = Cardinality(Opens(i - 1))
                    + (IF src[i].ev \in {"then", "for", "function"} THEN 1 ELSE 0)
             /\ Cardinality(Ends(i)) = Cardinality(Ends(i - 1)) + (IF src[i].ev = "end" THEN 1 ELSE 0)
  <2>1. IsFiniteSet(Opens(i - 1)) /\ IsFiniteSet(Ends(i - 1))
      BY <1>2, <1>5
  <2>2. /\ Cardinality(Opens(i - 1) \cup {i}) = Cardinality(Opens(i - 1)) + 1
        /\ Cardinality(Ends(i - 1) \cup {i}) = Cardinality(Ends(i - 1)) + 1
      BY <1>5, <2>1, FS_AddElement
  <2>3. i - 1 \in Nat /\ Cardinality(Opens(i - 1)) \in Nat /\ Cardinality(Ends(i - 1)) \in Nat
      BY <1>3, <1>5
  <2>4. src[i].ev \in {"then", "for", "function"} => Cardinality(Opens(i)) = Cardinality(Opens(i - 1)) + 1
      BY <1>5, <2>2
  <2>5. src[i].ev \notin {"then", "for", "function"} => Cardinality(Opens(i)) = Cardinality(Opens(i - 1)) + 0
      BY <1>5, <2>3
  <2>6. src[i].ev = "end" => Cardinality(Ends(i)) = Cardinality(Ends(i - 1)) + 1
      BY <1>5, <2>2
  <2>7. src[i].ev # "end" => Cardinality(Ends(i)) = Cardinality(Ends(i - 1)) + 0
      BY <1>5, <2>3
  <2> QED BY <2>4, <2>5, <2>6, <2>7
<1>7. BlockDepth(src, 0) = 0
    BY <1>1, <1>4, FS_EmptySet
<1>8. \A i \in Nat : BlockDepth(src, i) \in Int
    BY <1>1, <1>3
<1>9. ASSUME NEW i \in Nat \ {0}
      PROVE  BlockDepth(src, i) = BlockDepth(src, i - 1)
                + (IF src[i].ev \in {"then", "for", "function"} THEN 1 ELSE IF src[i].ev = "end" THEN -1 ELSE 0)
  <2>1. i - 1 \in Nat
      OBVIOUS
  <2>2. /\ Cardinality(Opens(i)) \in Nat /\ Cardinality(Ends(i)) \in Nat
        /\ Cardinality(Opens(i - 1)) \in Nat /\ Cardinality(Ends(i - 1)) \in Nat
      BY <1>3, <2>1
  <2>3. ~(src[i].ev \in {"then", "for", "function"} /\ src[i].ev = "end")
      OBVIOUS
  <2> QED BY <1>1, <1>6, <2>2, <2>3
<1> QED BY <1>7, <1>8, <1>9

-----------------------------------------------------------------------------
(* Declarations and bindings.                                              *)

LEMMA DepthIsInt ==
    ASSUME NEW src, NEW i \in Nat
    PROVE  BlockDepth(src, i) \in Int
<1>1. \A k \in Nat : BlockDepth(src, k) \in Int
    BY DepthStep
<1> QED BY <1>1

LEMMA MaximaAre ==
    ASSUME NEW src, NEW name, NEW j \in Nat \ {0}
    PROVE  /\ Declaration(src, name, j) \in 0..(j - 1)
           /\ \A d : LastDeclared(src, d, name, j) \in 0..(j - 1)
           /\ \A m : BoundLast(src, name, m, j) \in 0..(j - 1)
           /\ LastBinding(src, name, j) \in 0..(j - 1)
<1> DEFINE n == j - 1
<1>1. n \in Nat
    OBVIOUS
<1>2. ASSUME NEW S \in SUBSET (1..n) PROVE Max({0} \cup S) \in 0..n
    BY <1>1, GreatestOf
<1>3. \A d : DeclaredIn(src, d, name, j) \in SUBSET (1..n)
    BY DEF DeclaredIn
<1>4. \A m : Bindings(src, name, m, j) \in SUBSET (1..n)
    BY DEF Bindings
<1>5. Declaration(src, name, j) \in 0..n
    BY <1>2 DEF Declaration
<1>6. LastBinding(src, name, j) \in 0..n
    BY <1>2 DEF LastBinding
<1>7. \A d : LastDeclared(src, d, name, j) \in 0..n
    BY <1>2, <1>3 DEF LastDeclared
<1>8. \A m : BoundLast(src, name, m, j) \in 0..n
    BY <1>2, <1>4 DEF BoundLast
<1> QED BY <1>5, <1>6, <1>7, <1>8

(* A declaration in force is in an open scope.                             *)
LEMMA InForceDepth ==
    ASSUME NEW src, NEW j \in Nat \ {0}, NEW i \in 1..(j - 1), InForce(src, i, j)
    PROVE  BlockDepth(src, i) <= BlockDepth(src, j - 1)
<1>1. CASE i = j - 1
  <2>1. BlockDepth(src, i) \in Int
      BY DepthIsInt
  <2> QED BY <1>1, <2>1
<1>2. CASE i # j - 1
  <2>1. j - 1 \in (i + 1)..(j - 1)
      BY <1>2
  <2>2. Stays(src, i, j - 1)
      BY <2>1 DEF InForce
  <2>3. BlockDepth(src, i) \in Int /\ BlockDepth(src, j - 1) \in Int
      BY DepthIsInt
  <2> QED BY <2>2, <2>3 DEF Stays
<1> QED BY <1>1, <1>2

(* The declaration of a name: the last one in force.                       *)
LEMMA DeclarationIs ==
    ASSUME NEW src, NEW name, NEW j \in Nat \ {0}
    PROVE  LET m == Declaration(src, name, j)
           IN /\ m # 0 => m \in DeclaredIn(src, BlockDepth(src, m) + 1, name, j)
              /\ \A d : \A i \in DeclaredIn(src, d, name, j) : i <= m
<1> DEFINE all == {i \in 1..(j - 1) : Declares(src, i, name) /\ InForce(src, i, j)}
           m == Declaration(src, name, j)
<1>1. m = Max({0} \cup all)
    BY DEF Declaration, InForce, Stays
<1>2. j - 1 \in Nat /\ all \in SUBSET (1..(j - 1))
    OBVIOUS
<1>3. m \in {0} \cup all /\ \A x \in all : x <= m
  <2> HIDE DEF all, m
  <2> QED BY <1>1, <1>2, GreatestOf
<1> HIDE DEF m
<1>4. ASSUME m # 0 PROVE m \in DeclaredIn(src, BlockDepth(src, m) + 1, name, j)
  <2>1. m \in 1..(j - 1) /\ Declares(src, m, name) /\ InForce(src, m, j)
      BY <1>3, <1>4
  <2>2. BlockDepth(src, m) \in Int
      BY <2>1, DepthIsInt
  <2> DEFINE d == BlockDepth(src, m) + 1
  <2>3. BlockDepth(src, m) = d - 1
      BY <2>2
  <2> HIDE DEF d
  <2>4. m \in DeclaredIn(src, d, name, j)
      BY <2>1, <2>3 DEF DeclaredIn
  <2> QED BY <2>4 DEF d
<1>5. ASSUME NEW d, NEW i \in DeclaredIn(src, d, name, j) PROVE i <= m
  <2>1. i \in all
      BY DEF DeclaredIn
  <2> QED BY <1>3, <2>1
<1> QED BY <1>4, <1>5 DEF m

LEMMA LastDeclaredIs ==
    ASSUME NEW src, NEW name, NEW j \in Nat \ {0}, NEW d
    PROVE  /\ LastDeclared(src, d, name, j) # 0
                => LastDeclared(src, d, name, j) \in DeclaredIn(src, d, name, j)
           /\ \A i \in DeclaredIn(src, d, name, j) : i <= LastDeclared(src, d, name, j)
           /\ DeclaredIn(src, d, name, j) = {} <=> LastDeclared(src, d, name, j) = 0
<1> DEFINE S == DeclaredIn(src, d, name, j)
           m == LastDeclared(src, d, name, j)
<1>1. j - 1 \in Nat /\ S \in SUBSET (1..(j - 1)) /\ m = Max({0} \cup S)
    BY DEF DeclaredIn, LastDeclared
<1>2. 0 \notin S
    BY <1>1
<1> HIDE DEF S, m
<1>3. m \in {0} \cup S /\ \A x \in S : x <= m
    BY <1>1, GreatestOf
<1>4. S # {} => m # 0
  <2> SUFFICES ASSUME S # {}, m = 0 PROVE FALSE
      OBVIOUS
  <2>1. PICK x \in S : x <= 0 /\ x \in 1..(j - 1)
      BY <1>1, <1>3
  <2> QED BY <2>1
<1> QED BY <1>3, <1>4 DEF S, m

LEMMA BoundLastIs ==
    ASSUME NEW src, NEW name, NEW j \in Nat \ {0}, NEW m
    PROVE  /\ BoundLast(src, name, m, j) # 0 => Binds(src, name, m, BoundLast(src, name, m, j))
           /\ \A i \in 1..(j - 1) : Binds(src, name, m, i) => i <= BoundLast(src, name, m, j)
           /\ BoundLast(src, name, m, j) \in 0..(j - 1)
<1> DEFINE S == Bindings(src, name, m, j)
           w == BoundLast(src, name, m, j)
<1>1. j - 1 \in Nat /\ S \in SUBSET (1..(j - 1)) /\ w = Max({0} \cup S)
    BY DEF Bindings, BoundLast
<1>2. \A i \in 1..(j - 1) : i \in S <=> Binds(src, name, m, i)
    BY DEF Bindings
<1> HIDE DEF S, w
<1>3. w \in {0} \cup S /\ w \in 0..(j - 1) /\ \A x \in S : x <= w
    BY <1>1, GreatestOf
<1> QED BY <1>1, <1>2, <1>3 DEF w

(* The last binding of a name is that of the variable in force.            *)
LEMMA LastBindingIs ==
    ASSUME NEW src, NEW name, NEW j
    PROVE  LastBinding(src, name, j) = BoundLast(src, name, Declaration(src, name, j), j)
<1> DEFINE m == Declaration(src, name, j)
           A == {i \in 1..(j - 1) :
                    /\ src[i].name = name
                    /\ IF src[i].ev = "assign" THEN Declaration(src, name, i) = Declaration(src, name, j)
                       ELSE Declares(src, i, name) /\ Declaration(src, name, j) = i}
<1>1. \A i \in 1..(j - 1) : i \in A <=> Binds(src, name, m, i)
    BY DEF Binds, Declares
<1>2. A = Bindings(src, name, m, j)
    BY <1>1 DEF Bindings
<1> QED BY <1>2 DEF LastBinding, BoundLast

(* In the scopes above that of the declaration, the name is not declared.  *)
LEMMA NoneAbove ==
    ASSUME NEW src, NEW name, NEW j \in Nat \ {0}, NEW d \in Int, Declaration(src, name, j) # 0
    PROVE  LET m == Declaration(src, name, j)
           IN /\ d = BlockDepth(src, m) + 1 => LastDeclared(src, d, name, j) = m
              /\ d > BlockDepth(src, m) + 1 => LastDeclared(src, d, name, j) = 0
              /\ LastDeclared(src, d, name, j) = m => d = BlockDepth(src, m) + 1
<1> DEFINE m == Declaration(src, name, j)
           l == LastDeclared(src, d, name, j)
<1>1. /\ m \in DeclaredIn(src, BlockDepth(src, m) + 1, name, j)
      /\ \A e : \A i \in DeclaredIn(src, e, name, j) : i <= m
    BY DeclarationIs
<1>2. m \in 1..(j - 1) /\ l \in 0..(j - 1)
    BY MaximaAre
<1>3. \A i \in Nat : BlockDepth(src, i) \in Int
    BY DepthIsInt
<1>4. l # 0 => l \in DeclaredIn(src, d, name, j)
    BY LastDeclaredIs
<1> HIDE DEF m
<1>5. d = BlockDepth(src, m) + 1 => l = m
  <2>1. d = BlockDepth(src, m) + 1 => m <= l
      BY <1>1, LastDeclaredIs
  <2>2. l <= m
      BY <1>1, <1>2, <1>4
  <2> QED BY <1>2, <2>1, <2>2
<1>6. ASSUME d > BlockDepth(src, m) + 1, l # 0 PROVE FALSE
  <2>1. BlockDepth(src, l) = d - 1 /\ InForce(src, l, j) /\ l \in 1..(j - 1)
      BY <1>2, <1>4, <1>6 DEF DeclaredIn
  <2>2. l <= m /\ l # m
    <3>1. l <= m
        BY <1>1, <1>4, <1>6
    <3>2. BlockDepth(src, m) \in Int /\ BlockDepth(src, m) # d - 1
        BY <1>2, <1>3, <1>6
    <3> QED BY <2>1, <3>1, <3>2
  <2>3. m \in (l + 1)..(j - 1)
      BY <1>2, <2>1, <2>2
  <2>4. BlockDepth(src, m) >= BlockDepth(src, l)
      BY <2>1, <2>3 DEF InForce, Stays
  <2>5. BlockDepth(src, m) \in Int
      BY <1>2, <1>3
  <2> QED BY <1>6, <2>1, <2>4, <2>5
<1>7. ASSUME l = m PROVE d = BlockDepth(src, m) + 1
  <2>1. BlockDepth(src, m) = d - 1
      BY <1>2, <1>4, <1>7 DEF DeclaredIn
  <2> QED BY <2>1
<1> QED BY <1>5, <1>6, <1>7 DEF m

-----------------------------------------------------------------------------
(* The two recursive definitions have the value their equations give.      *)

Gives(f, src, i) ==
    /\ i # 0
    /\ src[i].ev \in {"local", "assign"}
    /\ \/ src[i].value = "canonical_login()"
       \/ src[i].value \in LoginNames /\ f[LastBinding(src, src[i].value, i)]

IsGives(f, k, src) ==
    f = [i \in 0..k |-> /\ i # 0
                        /\ src[i].ev \in {"local", "assign"}
                        /\ \/ src[i].value = "canonical_login()"
                           \/ /\ src[i].value \in LoginNames
                              /\ f[LastBinding(src, src[i].value, i)]]

LEMMA GivesAt ==
    ASSUME NEW f, NEW k \in Nat, NEW src
    PROVE  IsGives(f, k, src) <=> f = [i \in 0..k |-> Gives(f, src, i)]
BY DEF IsGives, Gives

(* What a line gives depends on the lines before it only.                  *)
LEMMA GivesEarlier ==
    ASSUME NEW f, NEW g, NEW src, NEW i \in Nat,
           \A x \in 0..(i - 1) : f[x] = g[x]
    PROVE  Gives(f, src, i) = Gives(g, src, i)
<1>1. CASE i = 0
    BY <1>1 DEF Gives
<1>2. CASE i # 0
  <2>1. LastBinding(src, src[i].value, i) \in 0..(i - 1)
      BY <1>2, MaximaAre
  <2>2. f[LastBinding(src, src[i].value, i)] = g[LastBinding(src, src[i].value, i)]
      BY <2>1
  <2> QED BY <2>2 DEF Gives
<1> QED BY <1>1, <1>2

LEMMA GivesExists ==
    ASSUME NEW src, NEW k \in Nat
    PROVE  \E f : IsGives(f, k, src)
<1> DEFINE Bad == {j \in Nat : ~\E f : IsGives(f, j, src)}
<1> SUFFICES ASSUME Bad # {} PROVE FALSE
    OBVIOUS
<1>1. PICK j \in Bad : \A i \in Bad : j <= i
  <2>1. Bad \in SUBSET Nat
      OBVIOUS
  <2> HIDE DEF Bad
  <2> QED BY <2>1, LeastNat
<1>2. j # 0
  <2> SUFFICES ASSUME j = 0 PROVE FALSE
      OBVIOUS
  <2> DEFINE f == [i \in 0..0 |-> FALSE]
  <2>1. \A i \in 0..0 : Gives(f, src, i) = FALSE
      BY DEF Gives
  <2>2. f = [i \in 0..0 |-> Gives(f, src, i)]
      BY <2>1
  <2> HIDE DEF f
  <2>3. IsGives(f, 0, src)
      BY <2>2, GivesAt
  <2> QED BY <1>1, <2>3
<1>3. j - 1 \in Nat /\ j - 1 \notin Bad
    BY <1>1, <1>2
<1>4. PICK f : IsGives(f, j - 1, src)
    BY <1>3
<1>5. f = [i \in 0..(j - 1) |-> Gives(f, src, i)]
    BY <1>3, <1>4, GivesAt
<1> DEFINE g == [i \in 0..j |-> Gives(f, src, i)]
<1>6. \A i \in 0..(j - 1) : g[i] = f[i]
  <2>1. \A i \in 0..(j - 1) : f[i] = Gives(f, src, i)
      BY <1>5
  <2> QED BY <2>1
<1>7. ASSUME NEW i \in 0..j PROVE Gives(f, src, i) = Gives(g, src, i)
  <2>1. \A x \in 0..(i - 1) : f[x] = g[x]
      BY <1>6
  <2> HIDE DEF g
  <2> QED BY <2>1, GivesEarlier
<1>8. g = [i \in 0..j |-> Gives(g, src, i)]
    BY <1>7
<1> HIDE DEF g
<1>9. IsGives(g, j, src)
    BY <1>8, GivesAt
<1> QED BY <1>1, <1>9

LEMMA GivesIs ==
    ASSUME NEW src, Len(src) \in Nat
    PROVE  \A i \in 0..Len(src) : GivesCanonical(src)[i] <=> Gives(GivesCanonical(src), src, i)
<1> DEFINE P(f) == IsGives(f, Len(src), src)
           G == GivesCanonical(src)
<1>1. \E f : P(f)
    BY GivesExists
<1>2. G = CHOOSE f : P(f)
    BY DEF GivesCanonical, IsGives
<1> HIDE DEF P, G
<1>3. P(G)
    BY <1>1, <1>2
<1>4. G = [i \in 0..Len(src) |-> Gives(G, src, i)]
    BY <1>3, GivesAt DEF P
<1>5. \A i \in 0..Len(src) : G[i] = Gives(G, src, i)
    BY <1>4
<1> QED BY <1>5 DEF G

IsScopes(f, k, src) ==
    f = [i \in 1..k |-> IF i = 1 THEN <<NoBindings>> ELSE scope_event(f[i - 1], src[i - 1])]

LEMMA ScopesExist ==
    ASSUME NEW src, NEW k \in Nat
    PROVE  \E f : IsScopes(f, k, src)
<1> DEFINE Bad == {j \in Nat : ~\E f : IsScopes(f, j, src)}
<1> SUFFICES ASSUME Bad # {} PROVE FALSE
    OBVIOUS
<1>1. PICK j \in Bad : \A i \in Bad : j <= i
  <2>1. Bad \in SUBSET Nat
      OBVIOUS
  <2> HIDE DEF Bad
  <2> QED BY <2>1, LeastNat
<1>2. j # 0
  <2> SUFFICES ASSUME j = 0 PROVE FALSE
      OBVIOUS
  <2> DEFINE f == [i \in 1..0 |-> <<NoBindings>>]
  <2>1. f = [i \in 1..0 |-> IF i = 1 THEN <<NoBindings>> ELSE scope_event(f[i - 1], src[i - 1])]
      OBVIOUS
  <2> HIDE DEF f
  <2> QED BY <1>1, <2>1 DEF IsScopes
<1>3. j - 1 \in Nat /\ j - 1 \notin Bad
    BY <1>1, <1>2
<1>4. PICK f : IsScopes(f, j - 1, src)
    BY <1>3
<1> DEFINE g == [i \in 1..j |-> IF i # j THEN f[i]
                                ELSE IF i = 1 THEN <<NoBindings>> ELSE scope_event(f[i - 1], src[i - 1])]
<1>5. ASSUME NEW i \in 1..j
      PROVE  g[i] = IF i = 1 THEN <<NoBindings>> ELSE scope_event(g[i - 1], src[i - 1])
  <2>1. i # 1 => g[i - 1] = f[i - 1]
      OBVIOUS
  <2>2. CASE i = j
      BY <2>1, <2>2
  <2>3. CASE i # j
    <3>1. i \in 1..(j - 1) /\ g[i] = f[i]
        BY <1>2, <2>3
    <3>2. f[i] = IF i = 1 THEN <<NoBindings>> ELSE scope_event(f[i - 1], src[i - 1])
        BY <1>4, <3>1 DEF IsScopes
    <3> HIDE DEF g
    <3> QED BY <2>1, <3>1, <3>2
  <2> QED BY <2>2, <2>3
<1>6. g = [i \in 1..j |-> g[i]]
    OBVIOUS
<1> HIDE DEF g
<1>7. IsScopes(g, j, src)
    BY <1>5, <1>6 DEF IsScopes
<1> QED BY <1>1, <1>7

LEMMA ScopesAre ==
    ASSUME NEW src, Len(src) \in Nat
    PROVE  \A i \in 1..Len(src) :
               Scopes(src)[i] = IF i = 1 THEN <<NoBindings>> ELSE scope_event(Scopes(src)[i - 1], src[i - 1])
<1> DEFINE P(f) == IsScopes(f, Len(src), src)
           S == Scopes(src)
<1>1. \E f : P(f)
    BY ScopesExist
<1>2. S = CHOOSE f : P(f)
    BY DEF Scopes, IsScopes
<1> HIDE DEF P, S
<1>3. P(S)
    BY <1>1, <1>2
<1>4. \A i \in 1..Len(src) : S[i] = IF i = 1 THEN <<NoBindings>> ELSE scope_event(S[i - 1], src[i - 1])
    BY <1>3 DEF P, IsScopes
<1> QED BY <1>4 DEF S

-----------------------------------------------------------------------------
(* What the tracker sees is what Lua's scopes say.                         *)

LEMMA ScopeOfIs ==
    ASSUME NEW scopes, Len(scopes) \in Nat, DOMAIN scopes = 1..Len(scopes), NEW name
    PROVE  /\ ScopeOf(scopes, name) \in 0..Len(scopes)
           /\ ScopeOf(scopes, name) # 0 => scopes[ScopeOf(scopes, name)][name] # "none"
           /\ \A d \in 1..Len(scopes) : scopes[d][name] # "none" => d <= ScopeOf(scopes, name)
<1> DEFINE S == {d \in DOMAIN scopes : scopes[d][name] # "none"}
           at == ScopeOf(scopes, name)
<1>1. S \in SUBSET (1..Len(scopes)) /\ at = Max({0} \cup S)
    BY DEF ScopeOf
<1>2. \A d \in 1..Len(scopes) : d \in S <=> scopes[d][name] # "none"
    OBVIOUS
<1> HIDE DEF S, at
<1>3. at \in 0..Len(scopes) /\ at \in {0} \cup S /\ \A x \in S : x <= at
    BY <1>1, GreatestOf
<1>4. at # 0 => at \in S /\ at \in 1..Len(scopes)
    BY <1>3
<1> QED BY <1>2, <1>3, <1>4 DEF at

LEMMA StackShape ==
    ASSUME NEW src, NEW j, NEW scopes, ScopesInv(scopes, src, j)
    PROVE  /\ Len(scopes) \in Nat /\ DOMAIN scopes = 1..Len(scopes)
           /\ \A d \in 1..Len(scopes) : scopes[d] \in [LoginNames -> BindingStates]
BY DEF ScopesInv

(* A variable that is declared at m has been bound since.                  *)
LEMMA DeclaredIsBound ==
    ASSUME NEW src, NEW name, NEW j \in Nat \ {0}, NEW d, NEW m \in DeclaredIn(src, d, name, j)
    PROVE  BoundLast(src, name, m, j) # 0
<1>1. m \in 1..(j - 1) /\ Binds(src, name, m, m)
    BY DEF DeclaredIn, Binds, Declares
<1>2. m <= BoundLast(src, name, m, j)
    BY <1>1, BoundLastIs
<1>3. BoundLast(src, name, m, j) \in 0..(j - 1)
    BY MaximaAre
<1> QED BY <1>1, <1>2, <1>3

(* The scope the tracker finds is that of the declaration in force; the    *)
(* first one keeps the global variables.                                   *)
LEMMA ScopeIs ==
    ASSUME NEW src, NEW j \in Nat \ {0}, NEW scopes, ScopesInv(scopes, src, j),
           BlockDepth(src, j - 1) >= 0, NEW name \in LoginNames,
           \A i \in 1..(j - 1) : BlockDepth(src, i) >= 0
    PROVE  LET m == Declaration(src, name, j)
           IN /\ m # 0 => /\ ScopeOf(scopes, name) = BlockDepth(src, m) + 1
                          /\ ScopeOf(scopes, name) \in 1..Len(scopes)
              /\ m = 0 => ScopeOf(scopes, name) \in {0, 1}
              /\ \A d \in 1..Len(scopes) :
                    d = (IF ScopeOf(scopes, name) = 0 THEN 1 ELSE ScopeOf(scopes, name))
                        => Fits(scopes[d][name], src, name, m, j)
              /\ \A d \in 1..Len(scopes) : m = 0 => LastDeclared(src, d, name, j) = 0
<1> DEFINE m == Declaration(src, name, j)
           at == ScopeOf(scopes, name)
           depth == BlockDepth(src, m) + 1
<1>0. Len(scopes) \in Nat /\ DOMAIN scopes = 1..Len(scopes)
    BY StackShape
<1>1. \A d \in 1..Len(scopes) : SlotFits(scopes, src, d, name, j)
    BY DEF ScopesInv
<1>2. /\ at \in 0..Len(scopes)
      /\ at # 0 => scopes[at][name] # "none"
      /\ \A d \in 1..Len(scopes) : scopes[d][name] # "none" => d <= at
    BY <1>0, ScopeOfIs
<1>3. CASE m # 0
  <2>1. m \in DeclaredIn(src, depth, name, j)
      BY <1>3, DeclarationIs
  <2>2. m \in 1..(j - 1) /\ InForce(src, m, j)
      BY <2>1 DEF DeclaredIn
  <2>3. BlockDepth(src, m) \in Int /\ BlockDepth(src, j - 1) \in Int
      BY <2>2, DepthIsInt
  <2>4. BlockDepth(src, m) <= BlockDepth(src, j - 1) /\ BlockDepth(src, m) >= 0
      BY <2>2, InForceDepth
  <2>5. depth \in 1..Len(scopes)
      BY <2>3, <2>4, <1>0 DEF ScopesInv
  <2>6. \A d \in Int : /\ d = depth => LastDeclared(src, d, name, j) = m
                       /\ d > depth => LastDeclared(src, d, name, j) = 0
      BY <1>3, NoneAbove
  <2>7. BoundLast(src, name, m, j) # 0
      BY <2>1, DeclaredIsBound
  <2> HIDE DEF m, at, depth
  <2>8. Fits(scopes[depth][name], src, name, m, j)
    <3>1. LastDeclared(src, depth, name, j) = m
        BY <2>5, <2>6
    <3> QED BY <1>1, <1>3, <2>5, <3>1 DEF SlotFits
  <2>9. scopes[depth][name] # "none"
      BY <2>7, <2>8 DEF Fits
  <2>10. depth <= at
      BY <1>2, <2>5, <2>9
  <2>11. ASSUME at > depth PROVE FALSE
    <3>1. at \in 1..Len(scopes) /\ at > 1 /\ at \in Int
        BY <1>0, <1>2, <2>5, <2>11
    <3>2. LastDeclared(src, at, name, j) = 0
        BY <2>6, <2>11, <3>1
    <3>3. scopes[at][name] = "none"
        BY <1>1, <3>1, <3>2 DEF SlotFits
    <3> QED BY <1>2, <3>1, <3>3
  <2>12. at = depth
      BY <1>2, <2>5, <2>10, <2>11
  <2>13. at # 0
      BY <2>5, <2>12
  <2> QED BY <1>3, <2>5, <2>8, <2>12, <2>13 DEF m, at, depth
<1>4. CASE m = 0
  <2>1. \A d : DeclaredIn(src, d, name, j) = {}
    <3> SUFFICES ASSUME NEW d, NEW i \in DeclaredIn(src, d, name, j) PROVE FALSE
        OBVIOUS
    <3>1. i <= 0
        BY <1>4, DeclarationIs
    <3>2. i \in 1..(j - 1)
        BY DEF DeclaredIn
    <3> QED BY <3>1, <3>2
  <2>2. \A d : LastDeclared(src, d, name, j) = 0
      BY <2>1, LastDeclaredIs
  <2>3. 1 \in 1..Len(scopes)
    <3>1. BlockDepth(src, j - 1) \in Int
        BY DepthIsInt
    <3> QED BY <1>0, <3>1 DEF ScopesInv
  <2> HIDE DEF m, at
  <2>4. Fits(scopes[1][name], src, name, m, j)
      BY <1>1, <1>4, <2>2, <2>3 DEF SlotFits
  <2>5. ASSUME at > 1 PROVE FALSE
    <3>1. at \in 1..Len(scopes) /\ at # 0
        BY <1>0, <1>2, <2>5
    <3>2. scopes[at][name] = "none"
        BY <1>1, <2>2, <2>5, <3>1 DEF SlotFits
    <3> QED BY <1>2, <3>1, <3>2
  <2>6. at \in {0, 1}
      BY <1>0, <1>2, <2>5
  <2> QED BY <1>4, <2>2, <2>4, <2>6 DEF m, at
<1> QED BY <1>3, <1>4

(* A name is seen as canonical exactly when its last binding made it so.   *)
LEMMA VisibleIs ==
    ASSUME NEW src, NEW j \in 1..Len(src), Len(src) \in Nat, NEW scopes, ScopesInv(scopes, src, j),
           NEW name \in LoginNames,
           \A i \in 0..(j - 1) : BlockDepth(src, i) >= 0
    PROVE  /\ visible_binding(scopes, name) = "canonical" <=> GivesCanonical(src)[LastBinding(src, name, j)]
           /\ visible_binding(scopes, name) \in BindingStates
<1> DEFINE m == Declaration(src, name, j)
           at == ScopeOf(scopes, name)
           d == IF at = 0 THEN 1 ELSE at
           G == GivesCanonical(src)
<1>1. /\ m = 0 => at \in {0, 1}
      /\ \A e \in 1..Len(scopes) : e = d => Fits(scopes[e][name], src, name, m, j)
    BY ScopeIs
<1>2. Len(scopes) \in Nat /\ DOMAIN scopes = 1..Len(scopes) /\ \A e \in 1..Len(scopes) : scopes[e] \in [LoginNames -> BindingStates]
    BY StackShape
<1>3. at \in 0..Len(scopes) /\ (at # 0 => scopes[at][name] # "none")
      /\ \A e \in 1..Len(scopes) : scopes[e][name] # "none" => e <= at
    BY <1>2, ScopeOfIs
<1>4. d \in 1..Len(scopes)
  <2>1. BlockDepth(src, j - 1) \in Int /\ BlockDepth(src, j - 1) >= 0
      BY DepthIsInt
  <2> QED BY <1>2, <1>3, <2>1 DEF ScopesInv
<1>5. LastBinding(src, name, j) = BoundLast(src, name, m, j)
    BY LastBindingIs
<1>6. visible_binding(scopes, name) = IF at = 0 THEN "none" ELSE scopes[at][name]
    BY DEF visible_binding
<1>7. ~G[0]
  <2>1. 0 \in 0..Len(src)
      OBVIOUS
  <2> QED BY <2>1, GivesIs DEF Gives
<1> HIDE DEF m, at, G
<1>8. Fits(scopes[d][name], src, name, m, j)
    BY <1>1, <1>4
<1>9. scopes[d][name] \in BindingStates
    BY <1>2, <1>4
<1>10. CASE at # 0
    BY <1>5, <1>6, <1>8, <1>9, <1>10 DEF Fits, G
<1>11. CASE at = 0
  <2>1. scopes[1][name] = "none"
      BY <1>3, <1>4, <1>11
  <2>2. BoundLast(src, name, m, j) = 0
      BY <1>8, <1>11, <2>1 DEF Fits
  <2> QED BY <1>5, <1>6, <1>7, <1>11, <2>2 DEF G, BindingStates
<1> QED BY <1>10, <1>11

(* The state of a bound value is canonical exactly when its line gives the *)
(* canonical login.                                                        *)
LEMMA OperandIs ==
    ASSUME NEW src, NEW j \in 1..Len(src), Len(src) \in Nat, NEW scopes, ScopesInv(scopes, src, j),
           src[j].ev \in {"local", "assign"},
           \A i \in 0..(j - 1) : BlockDepth(src, i) >= 0
    PROVE  LET state == operand_binding_state(src[j].value, scopes)
           IN /\ state \in BindingStates \ {"none"}
              /\ state = "canonical" <=> GivesCanonical(src)[j]
<1> DEFINE v == src[j].value
           state == operand_binding_state(v, scopes)
<1>1. GivesCanonical(src)[j] <=> \/ v = "canonical_login()"
                                 \/ v \in LoginNames /\ GivesCanonical(src)[LastBinding(src, v, j)]
  <2>1. j \in 0..Len(src) /\ j # 0
      OBVIOUS
  <2> QED BY <2>1, GivesIs DEF Gives
<1>2. "canonical_login()" \notin LoginNames
    BY DEF LoginNames
<1> HIDE DEF v
<1>3. name_binding_state(v) \in {"raw", "unknown"}
    BY DEF name_binding_state
<1>4. CASE v = "canonical_login()"
    BY <1>1, <1>4 DEF operand_binding_state, BindingStates, v
<1>5. CASE v # "canonical_login()" /\ v \notin LoginNames
    BY <1>1, <1>5 DEF operand_binding_state, BindingStates, v
<1>6. CASE v # "canonical_login()" /\ v \in LoginNames
  <2>1. /\ visible_binding(scopes, v) = "canonical" <=> GivesCanonical(src)[LastBinding(src, v, j)]
        /\ visible_binding(scopes, v) \in BindingStates
      BY <1>6, VisibleIs
  <2> QED BY <1>1, <1>3, <1>6, <2>1 DEF operand_binding_state, BindingStates, v
<1> QED BY <1>4, <1>5, <1>6

-----------------------------------------------------------------------------
(* What one line changes.                                                  *)

LEMMA DeclaredNext ==
    ASSUME NEW src, NEW j \in Nat \ {0}, NEW d, NEW name, NEW i
    PROVE  i \in DeclaredIn(src, d, name, j + 1) <=>
              \/ i \in DeclaredIn(src, d, name, j) /\ Stays(src, i, j)
              \/ i = j /\ Declares(src, j, name) /\ BlockDepth(src, j) = d - 1
<1>1. CASE i \in 1..(j - 1)
  <2>1. /\ i \in 1..(j + 1 - 1) /\ i # j
        /\ \A k : k \in (i + 1)..(j + 1 - 1) <=> k \in (i + 1)..(j - 1) \/ k = j
      BY <1>1
  <2>2. InForce(src, i, j + 1) <=> InForce(src, i, j) /\ Stays(src, i, j)
      BY <2>1 DEF InForce
  <2> QED BY <1>1, <2>1, <2>2 DEF DeclaredIn
<1>2. CASE i = j
  <2>1. i \in 1..(j + 1 - 1) /\ i \notin 1..(j - 1) /\ (i + 1)..(j + 1 - 1) = {}
      BY <1>2
  <2>2. InForce(src, i, j + 1)
      BY <2>1 DEF InForce
  <2> QED BY <1>2, <2>1, <2>2 DEF DeclaredIn
<1>3. CASE i \notin 1..(j - 1) /\ i # j
  <2>1. i \notin 1..(j + 1 - 1)
      BY <1>3
  <2> QED BY <1>3, <2>1 DEF DeclaredIn
<1> QED BY <1>1, <1>2, <1>3

(* A scope that stays open and gets no declaration of the name.            *)
LEMMA SameScope ==
    ASSUME NEW src, NEW j \in Nat \ {0}, NEW d \in Int, NEW name,
           d - 1 <= BlockDepth(src, j),
           src[j].ev = "else" => d - 1 < BlockDepth(src, j),
           ~(Declares(src, j, name) /\ BlockDepth(src, j) = d - 1)
    PROVE  LastDeclared(src, d, name, j + 1) = LastDeclared(src, d, name, j)
<1>1. \A i \in DeclaredIn(src, d, name, j) : Stays(src, i, j)
    BY DEF DeclaredIn, Stays
<1>2. \A i : i \in DeclaredIn(src, d, name, j + 1) <=> i \in DeclaredIn(src, d, name, j)
    BY <1>1, DeclaredNext
<1>3. DeclaredIn(src, d, name, j + 1) = DeclaredIn(src, d, name, j)
    BY <1>2
<1> QED BY <1>3 DEF LastDeclared

LEMMA NewlyDeclared ==
    ASSUME NEW src, NEW j \in Nat \ {0}, NEW d, NEW name,
           Declares(src, j, name), BlockDepth(src, j) = d - 1
    PROVE  LastDeclared(src, d, name, j + 1) = j
<1>1. j \in DeclaredIn(src, d, name, j + 1)
    BY DeclaredNext
<1>2. j + 1 \in Nat \ {0}
    OBVIOUS
<1>3. j <= LastDeclared(src, d, name, j + 1)
    BY <1>1, <1>2, LastDeclaredIs
<1>4. LastDeclared(src, d, name, j + 1) \in 0..(j + 1 - 1)
    BY <1>2, MaximaAre
<1> QED BY <1>3, <1>4

(* A scope that the line opens.                                            *)
LEMMA OpenedScope ==
    ASSUME NEW src, NEW j \in Nat \ {0}, NEW d \in Int, NEW name,
           \/ BlockDepth(src, j - 1) < d - 1
           \/ src[j].ev = "else" /\ BlockDepth(src, j) = d - 1,
           ~(Declares(src, j, name) /\ BlockDepth(src, j) = d - 1)
    PROVE  LastDeclared(src, d, name, j + 1) = 0
<1>1. ASSUME NEW i \in DeclaredIn(src, d, name, j), Stays(src, i, j) PROVE FALSE
  <2>1. i \in 1..(j - 1) /\ InForce(src, i, j) /\ BlockDepth(src, i) = d - 1
      BY DEF DeclaredIn
  <2>2. BlockDepth(src, i) <= BlockDepth(src, j - 1)
      BY <2>1, InForceDepth
  <2>3. BlockDepth(src, j - 1) \in Int /\ BlockDepth(src, j) \in Int
      BY DepthIsInt
  <2>4. src[j].ev = "else" => BlockDepth(src, j) > d - 1
      BY <1>1, <2>1 DEF Stays
  <2> QED BY <2>1, <2>2, <2>3, <2>4
<1>2. \A i : i \notin DeclaredIn(src, d, name, j + 1)
    BY <1>1, DeclaredNext
<1>3. j + 1 \in Nat \ {0}
    OBVIOUS
<1> QED BY <1>2, <1>3, LastDeclaredIs

LEMMA BoundNext ==
    ASSUME NEW src, NEW j \in Nat \ {0}, NEW name, NEW m
    PROVE  /\ Binds(src, name, m, j) => BoundLast(src, name, m, j + 1) = j
           /\ ~Binds(src, name, m, j) => BoundLast(src, name, m, j + 1) = BoundLast(src, name, m, j)
<1>1. j + 1 \in Nat \ {0} /\ \A i : i \in 1..(j + 1 - 1) <=> i \in 1..(j - 1) \/ i = j
    OBVIOUS
<1>2. ASSUME Binds(src, name, m, j) PROVE BoundLast(src, name, m, j + 1) = j
  <2>1. j <= BoundLast(src, name, m, j + 1)
      BY <1>1, <1>2, BoundLastIs
  <2>2. j + 1 \in Nat \ {0}
      OBVIOUS
  <2>3. BoundLast(src, name, m, j + 1) \in 0..(j + 1 - 1)
      BY <2>2, BoundLastIs
  <2> QED BY <2>1, <2>3
<1>3. ASSUME ~Binds(src, name, m, j)
      PROVE  BoundLast(src, name, m, j + 1) = BoundLast(src, name, m, j)
  <2>1. \A i : i \in Bindings(src, name, m, j + 1) <=> i \in Bindings(src, name, m, j)
      BY <1>1, <1>3 DEF Bindings
  <2>2. Bindings(src, name, m, j + 1) = Bindings(src, name, m, j)
      BY <2>1
  <2> QED BY <2>2 DEF BoundLast
<1> QED BY <1>2, <1>3

(* What the tracker has of a name in a scope still fits after a line that  *)
(* leaves both alone.                                                      *)
LEMMA SlotKept ==
    ASSUME NEW src, NEW j \in Nat \ {0}, NEW d \in Nat \ {0}, NEW name,
           NEW scopes, NEW next, SlotFits(scopes, src, d, name, j), next[d][name] = scopes[d][name],
           d - 1 <= BlockDepth(src, j),
           src[j].ev = "else" => d - 1 < BlockDepth(src, j),
           ~(Declares(src, j, name) /\ BlockDepth(src, j) = d - 1),
           d = 1 \/ LastDeclared(src, d, name, j) # 0
               => ~(src[j].ev = "assign" /\ src[j].name = name
                    /\ Declaration(src, name, j) = LastDeclared(src, d, name, j))
    PROVE  SlotFits(next, src, d, name, j + 1)
<1> DEFINE m == LastDeclared(src, d, name, j)
<1>1. LastDeclared(src, d, name, j + 1) = m
    BY SameScope
<1>2. m \in 0..(j - 1)
    BY MaximaAre
<1> HIDE DEF m
<1>3. CASE d > 1 /\ m = 0
    BY <1>1, <1>3 DEF SlotFits, m
<1>4. CASE ~(d > 1 /\ m = 0)
  <2>1. d = 1 \/ m # 0
      BY <1>4
  <2>2. ~(src[j].ev = "assign" /\ src[j].name = name /\ Declaration(src, name, j) = m)
      BY <2>1 DEF m
  <2>3. ~Binds(src, name, m, j)
      BY <1>2, <2>2 DEF Binds
  <2>4. BoundLast(src, name, m, j + 1) = BoundLast(src, name, m, j)
      BY <2>3, BoundNext
  <2> QED BY <1>1, <1>4, <2>4 DEF SlotFits, Fits, m
<1> QED BY <1>3, <1>4

-----------------------------------------------------------------------------
(* The invariant of the tracker is kept by every event.                    *)

ScopeSet == [LoginNames -> BindingStates]

LEMMA NoBindingsIs ==
    NoBindings \in ScopeSet /\ \A name \in LoginNames : NoBindings[name] = "none"
BY DEF NoBindings, ScopeSet, BindingStates

LEMMA PutIs ==
    ASSUME NEW scopes \in Seq(ScopeSet), NEW at \in 1..Len(scopes),
           NEW name \in LoginNames, NEW state \in BindingStates
    PROVE  LET next == [scopes EXCEPT ![at][name] = state]
           IN /\ next \in Seq(ScopeSet) /\ Len(next) = Len(scopes)
              /\ next[at][name] = state
              /\ \A d \in 1..Len(scopes), n \in LoginNames : d # at \/ n # name => next[d][n] = scopes[d][n]
<1> DEFINE scope == [scopes[at] EXCEPT ![name] = state]
           next == [scopes EXCEPT ![at] = scope]
<1>1. scopes[at] \in ScopeSet
    OBVIOUS
<1>2. /\ scope \in ScopeSet /\ scope[name] = state
      /\ \A n \in LoginNames : n # name => scope[n] = scopes[at][n]
    BY <1>1 DEF ScopeSet
<1> HIDE DEF scope
<1>3. /\ next \in Seq(ScopeSet) /\ Len(next) = Len(scopes)
      /\ next[at] = scope
      /\ \A d \in 1..Len(scopes) : d # at => next[d] = scopes[d]
    BY <1>2
<1>4. next = [scopes EXCEPT ![at][name] = state]
    BY DEF scope
<1> HIDE DEF next
<1>5. \A d \in 1..Len(scopes), n \in LoginNames : d # at \/ n # name => next[d][n] = scopes[d][n]
    BY <1>2, <1>3
<1> QED BY <1>2, <1>3, <1>4, <1>5

LEMMA PushIs ==
    ASSUME NEW scopes \in Seq(ScopeSet), NEW scope \in ScopeSet
    PROVE  /\ Append(scopes, scope) \in Seq(ScopeSet)
           /\ Len(Append(scopes, scope)) = Len(scopes) + 1
           /\ Append(scopes, scope)[Len(scopes) + 1] = scope
           /\ \A d \in 1..Len(scopes) : Append(scopes, scope)[d] = scopes[d]
OBVIOUS

LEMMA PopIs ==
    ASSUME NEW scopes \in Seq(ScopeSet), Len(scopes) > 1
    PROVE  /\ PopScope(scopes) \in Seq(ScopeSet)
           /\ Len(PopScope(scopes)) = Len(scopes) - 1
           /\ \A d \in 1..(Len(scopes) - 1) : PopScope(scopes)[d] = scopes[d]
BY DEF PopScope, Front

(* The tracker before the event of line j, in a file whose blocks nest.    *)
Before(src, j, scopes) ==
    /\ Len(src) \in Nat /\ DOMAIN src = 1..Len(src) /\ WellNested(src)
    /\ j \in 1..Len(src) /\ ScopesInv(scopes, src, j)
    /\ src[j].ev = "for" => src[j].name \notin LoginNames

LEMMA BeforeIs ==
    ASSUME NEW src, NEW j, NEW scopes, Before(src, j, scopes)
    PROVE  /\ j \in Nat \ {0}
           /\ \A i \in 0..Len(src) : BlockDepth(src, i) \in Nat
           /\ scopes \in Seq(ScopeSet) /\ Len(scopes) \in Nat
           /\ Len(scopes) = BlockDepth(src, j - 1) + 1
           /\ \A d \in 1..Len(scopes), name \in LoginNames : SlotFits(scopes, src, d, name, j)
           /\ BlockDepth(src, j) = BlockDepth(src, j - 1)
                + (IF src[j].ev \in {"then", "for", "function"} THEN 1 ELSE IF src[j].ev = "end" THEN -1 ELSE 0)
           /\ src[j].ev = "else" => BlockDepth(src, j) > 0
           /\ src[j].ev \in {"local", "assign", "function"} => src[j].name \in LoginNames
<1>1. j \in Nat \ {0}
    BY DEF Before
<1>2. ASSUME NEW i \in 0..Len(src) PROVE BlockDepth(src, i) \in Nat
  <2>1. BlockDepth(src, i) \in Int
      BY DepthIsInt
  <2>2. CASE i = 0
      BY <2>2, DepthStep
  <2>3. CASE i # 0
      BY <2>1, <2>3 DEF Before, WellNested
  <2> QED BY <2>2, <2>3
<1>3. /\ scopes \in Seq(ScopeSet) /\ Len(scopes) = BlockDepth(src, j - 1) + 1
      /\ \A d \in 1..Len(scopes), name \in LoginNames : SlotFits(scopes, src, d, name, j)
    BY DEF Before, ScopesInv, ScopeSet
<1>4. BlockDepth(src, j) = BlockDepth(src, j - 1)
                + (IF src[j].ev \in {"then", "for", "function"} THEN 1 ELSE IF src[j].ev = "end" THEN -1 ELSE 0)
    BY <1>1, DepthStep
<1>5. /\ src[j].ev = "else" => BlockDepth(src, j) > 0
      /\ src[j].ev \in {"local", "assign", "function"} => src[j].name \in LoginNames
    BY DEF Before, WellNested
<1> QED BY <1>1, <1>2, <1>3, <1>4, <1>5

LEMMA AfterIs ==
    ASSUME NEW src, NEW j \in Nat \ {0}, NEW next,
           next \in Seq(ScopeSet), Len(next) = BlockDepth(src, j) + 1,
           \A d \in 1..Len(next), name \in LoginNames : SlotFits(next, src, d, name, j + 1)
    PROVE  ScopesInv(next, src, j + 1)
<1>1. j + 1 - 1 = j
    OBVIOUS
<1> QED BY <1>1 DEF ScopesInv, ScopeSet

(* A slot of the next stack whose scope was not declared in before.        *)
LEMMA FreshSlot ==
    ASSUME NEW src, NEW j \in Nat \ {0}, NEW d \in Nat, d > 1, NEW name, NEW next, next[d][name] = "none",
           LastDeclared(src, d, name, j + 1) = 0
    PROVE  SlotFits(next, src, d, name, j + 1)
BY DEF SlotFits

(* A slot that the line binds.                                             *)
LEMMA BoundSlot ==
    ASSUME NEW src, NEW j \in Nat \ {0}, NEW d \in Nat, NEW name, NEW next,
           Binds(src, name, LastDeclared(src, d, name, j + 1), j),
           d = 1 \/ LastDeclared(src, d, name, j + 1) # 0,
           next[d][name] # "none",
           next[d][name] = "canonical" <=> GivesCanonical(src)[j]
    PROVE  SlotFits(next, src, d, name, j + 1)
<1> DEFINE m == LastDeclared(src, d, name, j + 1)
<1>1. BoundLast(src, name, m, j + 1) = j
    BY BoundNext
<1>2. ~(d > 1 /\ m = 0)
    OBVIOUS
<1> HIDE DEF m
<1>3. Fits(next[d][name], src, name, m, j + 1)
    BY <1>1 DEF Fits
<1> QED BY <1>2, <1>3 DEF SlotFits, m

LEMMA OpenKeeps ==
    ASSUME NEW src, NEW j, NEW scopes, Before(src, j, scopes), src[j].ev \in {"then", "for"}
    PROVE  ScopesInv(scope_event(scopes, src[j]), src, j + 1)
<1> DEFINE next == Append(scopes, NoBindings)
<1>0. scope_event(scopes, src[j]) = next
    BY DEF scope_event
<1>1. /\ j \in Nat \ {0} /\ scopes \in Seq(ScopeSet) /\ Len(scopes) \in Nat
      /\ \A d \in 1..Len(scopes), name \in LoginNames : SlotFits(scopes, src, d, name, j)
      /\ BlockDepth(src, j) = Len(scopes) /\ BlockDepth(src, j - 1) = Len(scopes) - 1
  <2>1. BlockDepth(src, j - 1) \in Int /\ j \in Nat \ {0}
      BY BeforeIs, DepthIsInt
  <2> QED BY <2>1, BeforeIs
<1>2. /\ next \in Seq(ScopeSet) /\ Len(next) = Len(scopes) + 1
      /\ next[Len(scopes) + 1] = NoBindings
      /\ \A d \in 1..Len(scopes) : next[d] = scopes[d]
    BY <1>1, NoBindingsIs, PushIs
<1> HIDE DEF next
<1>3. \A name \in LoginNames : ~Declares(src, j, name)
    BY DEF Declares, Before
<1>4. ASSUME NEW d \in 1..Len(next), NEW name \in LoginNames PROVE SlotFits(next, src, d, name, j + 1)
  <2>1. CASE d \in 1..Len(scopes)
    <3>1. d - 1 <= BlockDepth(src, j) /\ d \in Nat \ {0}
        BY <1>1, <2>1
    <3>2. next[d][name] = scopes[d][name] /\ SlotFits(scopes, src, d, name, j)
        BY <1>1, <1>2, <2>1
    <3> QED BY <1>1, <1>3, <3>1, <3>2, SlotKept
  <2>2. CASE d \notin 1..Len(scopes)
    <3>1. d = Len(scopes) + 1 /\ BlockDepth(src, j - 1) < d - 1 /\ d > 1 /\ d \in Nat /\ d \in Int
      <4>1. Len(scopes) > 0
          BY <1>1, BeforeIs DEF Before
      <4> QED BY <1>1, <1>2, <2>2, <4>1
    <3>2. LastDeclared(src, d, name, j + 1) = 0
      <4>1. j \in Nat \ {0} /\ ~Declares(src, j, name)
          BY <1>1, <1>3
      <4> QED BY <3>1, <4>1, OpenedScope
    <3>3. next[d][name] = "none"
        BY <1>2, <3>1, NoBindingsIs
    <3> QED BY <1>1, <3>1, <3>2, <3>3, FreshSlot
  <2> QED BY <2>1, <2>2
<1> QED BY <1>0, <1>1, <1>2, <1>4, AfterIs

LEMMA FunctionKeeps ==
    ASSUME NEW src, NEW j, NEW scopes, Before(src, j, scopes), src[j].ev = "function"
    PROVE  ScopesInv(scope_event(scopes, src[j]), src, j + 1)
<1> DEFINE n0 == src[j].name
           state == name_binding_state(n0)
           scope == [NoBindings EXCEPT ![n0] = state]
           next == Append(scopes, scope)
<1>0. scope_event(scopes, src[j]) = next
    BY DEF scope_event
<1>1. /\ j \in Nat \ {0} /\ scopes \in Seq(ScopeSet) /\ Len(scopes) \in Nat
      /\ \A d \in 1..Len(scopes), name \in LoginNames : SlotFits(scopes, src, d, name, j)
      /\ BlockDepth(src, j) = Len(scopes) /\ BlockDepth(src, j - 1) = Len(scopes) - 1
      /\ n0 \in LoginNames
  <2>1. BlockDepth(src, j - 1) \in Int /\ j \in Nat \ {0}
      BY BeforeIs, DepthIsInt
  <2> QED BY <2>1, BeforeIs
<1>2. \A name : Declares(src, j, name) <=> name = n0
    BY DEF Declares
<1>3. state \in {"raw", "unknown"}
    BY DEF name_binding_state
<1>4. ~GivesCanonical(src)[j]
  <2>1. Len(src) \in Nat /\ j \in 0..Len(src)
      BY DEF Before
  <2> QED BY <2>1, GivesIs DEF Gives
<1> HIDE DEF n0, state
<1>5. /\ scope \in ScopeSet /\ scope[n0] = state
      /\ \A name \in LoginNames : name # n0 => scope[name] = "none"
    BY <1>1, <1>3, NoBindingsIs DEF ScopeSet, BindingStates
<1> HIDE DEF scope
<1>6. /\ next \in Seq(ScopeSet) /\ Len(next) = Len(scopes) + 1
      /\ next[Len(scopes) + 1] = scope
      /\ \A d \in 1..Len(scopes) : next[d] = scopes[d]
    BY <1>1, <1>5, PushIs
<1> HIDE DEF next
<1>7. ASSUME NEW d \in 1..Len(next), NEW name \in LoginNames PROVE SlotFits(next, src, d, name, j + 1)
  <2>1. CASE d \in 1..Len(scopes)
    <3>1. d - 1 <= BlockDepth(src, j) /\ d \in Nat \ {0} /\ BlockDepth(src, j) # d - 1
        BY <1>1, <2>1
    <3>2. next[d][name] = scopes[d][name] /\ SlotFits(scopes, src, d, name, j)
        BY <1>1, <1>6, <2>1
    <3>3. j \in Nat \ {0}
        BY <1>1
    <3> QED BY <3>1, <3>2, <3>3, SlotKept
  <2>2. CASE d \notin 1..Len(scopes)
    <3>1. d = Len(scopes) + 1 /\ BlockDepth(src, j - 1) < d - 1 /\ d > 1 /\ d \in Nat /\ d \in Int
      <4>1. Len(scopes) > 0
          BY <1>1, BeforeIs DEF Before
      <4> QED BY <1>1, <1>6, <2>2, <4>1
    <3>2. j \in Nat \ {0} /\ BlockDepth(src, j) = d - 1
        BY <1>1, <3>1
    <3>3. CASE name # n0
      <4>1. LastDeclared(src, d, name, j + 1) = 0
        <5>1. ~Declares(src, j, name)
            BY <1>2, <3>3
        <5> QED BY <3>1, <3>2, <5>1, OpenedScope
      <4>2. next[d][name] = "none"
          BY <1>5, <1>6, <3>1, <3>3
      <4> QED BY <3>1, <3>2, <4>1, <4>2, FreshSlot
    <3>4. CASE name = n0
      <4>1. LastDeclared(src, d, name, j + 1) = j
        <5>1. Declares(src, j, name)
            BY <1>2, <3>4
        <5> QED BY <3>2, <5>1, NewlyDeclared
      <4>2. Binds(src, name, j, j)
          BY <1>2, <3>4 DEF Binds, n0
      <4>3. next[d][name] = state
          BY <1>5, <1>6, <3>1, <3>4
      <4>4. next[d][name] # "none" /\ next[d][name] # "canonical"
          BY <1>3, <4>3
      <4> QED BY <1>4, <3>1, <3>2, <4>1, <4>2, <4>4, BoundSlot
    <3> QED BY <3>3, <3>4
  <2> QED BY <2>1, <2>2
<1> QED BY <1>0, <1>1, <1>6, <1>7, AfterIs

LEMMA ElseKeeps ==
    ASSUME NEW src, NEW j, NEW scopes, Before(src, j, scopes), src[j].ev = "else"
    PROVE  ScopesInv(scope_event(scopes, src[j]), src, j + 1)
<1> DEFINE rest == PopScope(scopes)
           next == Append(rest, NoBindings)
<1>0. scope_event(scopes, src[j]) = next
    BY DEF scope_event
<1>1. /\ j \in Nat \ {0} /\ scopes \in Seq(ScopeSet) /\ Len(scopes) \in Nat
      /\ \A d \in 1..Len(scopes), name \in LoginNames : SlotFits(scopes, src, d, name, j)
      /\ BlockDepth(src, j) = Len(scopes) - 1 /\ Len(scopes) > 1
  <2>1. BlockDepth(src, j - 1) \in Int /\ j \in Nat \ {0}
      BY BeforeIs, DepthIsInt
  <2> QED BY <2>1, BeforeIs
<1>2. /\ rest \in Seq(ScopeSet) /\ Len(rest) = Len(scopes) - 1
      /\ \A d \in 1..(Len(scopes) - 1) : rest[d] = scopes[d]
    BY <1>1, PopIs
<1> HIDE DEF rest
<1>3. /\ next \in Seq(ScopeSet) /\ Len(next) = Len(rest) + 1
      /\ next[Len(rest) + 1] = NoBindings
      /\ \A d \in 1..Len(rest) : next[d] = rest[d]
    BY <1>2, NoBindingsIs, PushIs
<1> HIDE DEF next
<1>4. \A name : ~Declares(src, j, name)
    BY DEF Declares
<1>5. ASSUME NEW d \in 1..Len(next), NEW name \in LoginNames PROVE SlotFits(next, src, d, name, j + 1)
  <2>0. j \in Nat \ {0} /\ ~Declares(src, j, name)
      BY <1>1, <1>4
  <2>1. CASE d < Len(scopes)
    <3>1. d - 1 < BlockDepth(src, j) /\ d - 1 <= BlockDepth(src, j) /\ d \in Nat \ {0}
        BY <1>1, <2>1
    <3>2. next[d][name] = scopes[d][name] /\ SlotFits(scopes, src, d, name, j)
        BY <1>1, <1>2, <1>3, <2>1
    <3> QED BY <2>0, <3>1, <3>2, SlotKept
  <2>2. CASE ~(d < Len(scopes))
    <3>1. d = Len(scopes) /\ BlockDepth(src, j) = d - 1 /\ d > 1 /\ d \in Nat /\ d \in Int
        BY <1>1, <1>2, <1>3, <2>2
    <3>2. LastDeclared(src, d, name, j + 1) = 0
        BY <2>0, <3>1, OpenedScope
    <3>3. next[d][name] = "none"
        BY <1>1, <1>2, <1>3, <3>1, NoBindingsIs
    <3> QED BY <2>0, <3>1, <3>2, <3>3, FreshSlot
  <2> QED BY <2>1, <2>2
<1>6. Len(next) = BlockDepth(src, j) + 1
    BY <1>1, <1>2, <1>3
<1> QED BY <1>0, <1>1, <1>3, <1>5, <1>6, AfterIs

LEMMA EndKeeps ==
    ASSUME NEW src, NEW j, NEW scopes, Before(src, j, scopes), src[j].ev = "end"
    PROVE  ScopesInv(scope_event(scopes, src[j]), src, j + 1)
<1> DEFINE next == PopScope(scopes)
<1>0. scope_event(scopes, src[j]) = next
    BY DEF scope_event
<1>1. /\ j \in Nat \ {0} /\ scopes \in Seq(ScopeSet) /\ Len(scopes) \in Nat
      /\ \A d \in 1..Len(scopes), name \in LoginNames : SlotFits(scopes, src, d, name, j)
      /\ BlockDepth(src, j) = Len(scopes) - 2 /\ Len(scopes) > 1
  <2>1. BlockDepth(src, j - 1) \in Int /\ j \in Nat \ {0} /\ j \in 0..Len(src)
      BY BeforeIs, DepthIsInt DEF Before
  <2>2. BlockDepth(src, j) \in Nat
      BY <2>1, BeforeIs
  <2>3. BlockDepth(src, j) = BlockDepth(src, j - 1) - 1
      BY <2>1, BeforeIs
  <2> QED BY <2>1, <2>2, <2>3, BeforeIs
<1>2. /\ next \in Seq(ScopeSet) /\ Len(next) = Len(scopes) - 1
      /\ \A d \in 1..(Len(scopes) - 1) : next[d] = scopes[d]
    BY <1>1, PopIs
<1> HIDE DEF next
<1>3. \A name : ~Declares(src, j, name)
    BY DEF Declares
<1>4. ASSUME NEW d \in 1..Len(next), NEW name \in LoginNames PROVE SlotFits(next, src, d, name, j + 1)
  <2>1. j \in Nat \ {0} /\ ~Declares(src, j, name)
      BY <1>1, <1>3
  <2>2. d - 1 <= BlockDepth(src, j) /\ d \in Nat \ {0}
      BY <1>1, <1>2
  <2>3. next[d][name] = scopes[d][name] /\ SlotFits(scopes, src, d, name, j)
      BY <1>1, <1>2
  <2> QED BY <2>1, <2>2, <2>3, SlotKept
<1>5. Len(next) = BlockDepth(src, j) + 1
    BY <1>1, <1>2
<1> QED BY <1>0, <1>1, <1>2, <1>4, <1>5, AfterIs

LEMMA QuietKeeps ==
    ASSUME NEW src, NEW j, NEW scopes, Before(src, j, scopes),
           src[j].ev \notin {"then", "for", "function", "else", "end", "local", "assign"}
    PROVE  ScopesInv(scope_event(scopes, src[j]), src, j + 1)
<1>0. scope_event(scopes, src[j]) = scopes
    BY DEF scope_event
<1>1. /\ j \in Nat \ {0} /\ scopes \in Seq(ScopeSet) /\ Len(scopes) \in Nat
      /\ \A d \in 1..Len(scopes), name \in LoginNames : SlotFits(scopes, src, d, name, j)
      /\ BlockDepth(src, j) = Len(scopes) - 1
  <2>1. BlockDepth(src, j - 1) \in Int /\ j \in Nat \ {0}
      BY BeforeIs, DepthIsInt
  <2> QED BY <2>1, BeforeIs
<1>2. \A name : ~Declares(src, j, name)
    BY DEF Declares
<1>3. ASSUME NEW d \in 1..Len(scopes), NEW name \in LoginNames PROVE SlotFits(scopes, src, d, name, j + 1)
  <2>1. j \in Nat \ {0} /\ ~Declares(src, j, name)
      BY <1>1, <1>2
  <2>2. d - 1 <= BlockDepth(src, j) /\ d \in Nat \ {0}
      BY <1>1
  <2>3. SlotFits(scopes, src, d, name, j)
      BY <1>1
  <2> QED BY <2>1, <2>2, <2>3, SlotKept
<1>4. Len(scopes) = BlockDepth(src, j) + 1
    BY <1>1
<1> QED BY <1>0, <1>1, <1>3, <1>4, AfterIs

LEMMA LocalKeeps ==
    ASSUME NEW src, NEW j, NEW scopes, Before(src, j, scopes), src[j].ev = "local"
    PROVE  ScopesInv(scope_event(scopes, src[j]), src, j + 1)
<1> DEFINE n0 == src[j].name
           state == operand_binding_state(src[j].value, scopes)
           top == Len(scopes)
           next == [scopes EXCEPT ![top][n0] = state]
<1>0. scope_event(scopes, src[j]) = next
    BY DEF scope_event, assign_binding
<1>1. /\ j \in Nat \ {0} /\ scopes \in Seq(ScopeSet) /\ top \in Nat
      /\ \A d \in 1..top, name \in LoginNames : SlotFits(scopes, src, d, name, j)
      /\ BlockDepth(src, j) = top - 1 /\ top \in 1..Len(scopes)
      /\ n0 \in LoginNames
  <2>1. BlockDepth(src, j - 1) \in Int /\ j \in Nat \ {0} /\ j - 1 \in 0..Len(src)
      BY BeforeIs, DepthIsInt DEF Before
  <2>2. BlockDepth(src, j - 1) \in Nat
      BY <2>1, BeforeIs
  <2> QED BY <2>1, <2>2, BeforeIs
<1>2. \A name : Declares(src, j, name) <=> name = n0
    BY DEF Declares
<1>3. state \in BindingStates \ {"none"} /\ (state = "canonical" <=> GivesCanonical(src)[j])
  <2>1. Len(src) \in Nat /\ j \in 1..Len(src) /\ ScopesInv(scopes, src, j)
      BY DEF Before
  <2>2. \A i \in 0..Len(src) : BlockDepth(src, i) \in Nat
      BY BeforeIs
  <2>3. \A i \in 0..(j - 1) : BlockDepth(src, i) >= 0
      BY <2>1, <2>2
  <2> QED BY <2>1, <2>3, OperandIs
<1> HIDE DEF n0, state, top
<1>4. /\ next \in Seq(ScopeSet) /\ Len(next) = Len(scopes)
      /\ next[top][n0] = state
      /\ \A d \in 1..Len(scopes), n \in LoginNames : d # top \/ n # n0 => next[d][n] = scopes[d][n]
    BY <1>1, <1>3, PutIs
<1> HIDE DEF next
<1>5. ASSUME NEW d \in 1..Len(next), NEW name \in LoginNames PROVE SlotFits(next, src, d, name, j + 1)
  <2>0. j \in Nat \ {0} /\ d \in Nat \ {0} /\ d - 1 <= BlockDepth(src, j)
      BY <1>1, <1>4 DEF top
  <2>1. CASE d # top \/ name # n0
    <3>1. ~(Declares(src, j, name) /\ BlockDepth(src, j) = d - 1)
        BY <1>1, <1>2, <2>0, <2>1
    <3>2. next[d][name] = scopes[d][name] /\ SlotFits(scopes, src, d, name, j)
        BY <1>1, <1>4, <2>1 DEF top
    <3> QED BY <2>0, <3>1, <3>2, SlotKept
  <2>2. CASE d = top /\ name = n0
    <3>1. LastDeclared(src, d, name, j + 1) = j
      <4>1. Declares(src, j, name) /\ BlockDepth(src, j) = d - 1
          BY <1>1, <1>2, <2>2
      <4> QED BY <2>0, <4>1, NewlyDeclared
    <3>2. Binds(src, name, j, j)
        BY <1>2, <2>2 DEF Binds, n0
    <3>3. next[d][name] # "none" /\ (next[d][name] = "canonical" <=> GivesCanonical(src)[j])
        BY <1>3, <1>4, <2>2
    <3> QED BY <2>0, <3>1, <3>2, <3>3, BoundSlot
  <2> QED BY <2>1, <2>2
<1>6. Len(next) = BlockDepth(src, j) + 1
    BY <1>1, <1>4 DEF top
<1> QED BY <1>0, <1>1, <1>4, <1>5, <1>6, AfterIs

LEMMA AssignKeeps ==
    ASSUME NEW src, NEW j, NEW scopes, Before(src, j, scopes), src[j].ev = "assign"
    PROVE  ScopesInv(scope_event(scopes, src[j]), src, j + 1)
<1> DEFINE n0 == src[j].name
           m0 == Declaration(src, n0, j)
           state == operand_binding_state(src[j].value, scopes)
           at == IF ScopeOf(scopes, n0) = 0 THEN 1 ELSE ScopeOf(scopes, n0)
           next == [scopes EXCEPT ![at][n0] = state]
<1>0. scope_event(scopes, src[j]) = next
    BY DEF scope_event, assign_binding
<1>1. /\ j \in Nat \ {0} /\ scopes \in Seq(ScopeSet) /\ Len(scopes) \in Nat
      /\ \A d \in 1..Len(scopes), name \in LoginNames : SlotFits(scopes, src, d, name, j)
      /\ BlockDepth(src, j) = Len(scopes) - 1 /\ Len(scopes) >= 1
      /\ n0 \in LoginNames
  <2>1. BlockDepth(src, j - 1) \in Int /\ j \in Nat \ {0} /\ j - 1 \in 0..Len(src)
      BY BeforeIs, DepthIsInt DEF Before
  <2>2. BlockDepth(src, j - 1) \in Nat
      BY <2>1, BeforeIs
  <2> QED BY <2>1, <2>2, BeforeIs
<1>2. \A name : ~Declares(src, j, name)
    BY DEF Declares
<1>3. /\ ScopesInv(scopes, src, j) /\ Len(src) \in Nat /\ j \in 1..Len(src)
      /\ \A i \in 0..(j - 1) : BlockDepth(src, i) >= 0
  <2>1. Len(src) \in Nat /\ j \in 1..Len(src) /\ ScopesInv(scopes, src, j)
      BY DEF Before
  <2>2. \A i \in 0..Len(src) : BlockDepth(src, i) \in Nat
      BY BeforeIs
  <2>3. \A i \in 0..(j - 1) : BlockDepth(src, i) >= 0
      BY <2>1, <2>2
  <2> QED BY <2>1, <2>3
<1>4. state \in BindingStates \ {"none"} /\ (state = "canonical" <=> GivesCanonical(src)[j])
    BY <1>3, OperandIs
<1>5. /\ m0 # 0 => ScopeOf(scopes, n0) = BlockDepth(src, m0) + 1 /\ ScopeOf(scopes, n0) \in 1..Len(scopes)
      /\ m0 = 0 => ScopeOf(scopes, n0) \in {0, 1}
      /\ \A d \in 1..Len(scopes) : m0 = 0 => LastDeclared(src, d, n0, j) = 0
  <2>1. BlockDepth(src, j - 1) >= 0 /\ \A i \in 1..(j - 1) : BlockDepth(src, i) >= 0
      BY <1>1, <1>3
  <2> QED BY <1>1, <1>3, <2>1, ScopeIs
<1>6. /\ at \in 1..Len(scopes)
      /\ m0 = 0 => at = 1
      /\ m0 # 0 => at = BlockDepth(src, m0) + 1
  <2>1. CASE m0 = 0
      BY <1>1, <1>5, <2>1
  <2>2. CASE m0 # 0
    <3> DEFINE s == ScopeOf(scopes, n0)
    <3>1. s \in 1..Len(scopes) /\ s = BlockDepth(src, m0) + 1
        BY <1>5, <2>2
    <3> HIDE DEF s
    <3>2. s # 0
        BY <1>1, <3>1
    <3> QED BY <2>2, <3>1, <3>2 DEF s
  <2> QED BY <2>1, <2>2
<1>7. src[j].name = n0 /\ Declaration(src, n0, j) = m0
    OBVIOUS
<1> HIDE DEF n0, m0, state, at
<1>8. ASSUME NEW d \in 1..Len(scopes)
      PROVE  /\ LastDeclared(src, d, n0, j) = m0 /\ (d = 1 \/ m0 # 0) => d = at
             /\ d = at => LastDeclared(src, d, n0, j) = m0
  <2>1. CASE m0 = 0
      BY <1>5, <1>6, <2>1
  <2>2. CASE m0 # 0
    <3>1. d \in Int /\ j \in Nat \ {0} /\ Declaration(src, n0, j) # 0
        BY <1>1, <1>7, <2>2
    <3>2. /\ d = BlockDepth(src, m0) + 1 => LastDeclared(src, d, n0, j) = m0
          /\ LastDeclared(src, d, n0, j) = m0 => d = BlockDepth(src, m0) + 1
        BY <1>7, <3>1, NoneAbove
    <3> QED BY <1>6, <2>2, <3>2
  <2> QED BY <2>1, <2>2
<1>9. /\ next \in Seq(ScopeSet) /\ Len(next) = Len(scopes)
      /\ next[at][n0] = state
      /\ \A d \in 1..Len(scopes), n \in LoginNames : d # at \/ n # n0 => next[d][n] = scopes[d][n]
    BY <1>1, <1>4, <1>6, PutIs
<1> HIDE DEF next
<1>10. ASSUME NEW d \in 1..Len(next), NEW name \in LoginNames PROVE SlotFits(next, src, d, name, j + 1)
  <2>0. /\ j \in Nat \ {0} /\ d \in Nat \ {0} /\ d \in Int /\ d - 1 <= BlockDepth(src, j)
        /\ ~Declares(src, j, name) /\ d \in 1..Len(scopes)
      BY <1>1, <1>2, <1>9
  <2>1. CASE d # at \/ name # n0
    <3>1. d = 1 \/ LastDeclared(src, d, name, j) # 0
            => ~(src[j].ev = "assign" /\ src[j].name = name
                 /\ Declaration(src, name, j) = LastDeclared(src, d, name, j))
        BY <1>7, <1>8, <2>0, <2>1
    <3>2. next[d][name] = scopes[d][name] /\ SlotFits(scopes, src, d, name, j)
        BY <1>1, <1>9, <2>0, <2>1
    <3>3. src[j].ev # "else"
        OBVIOUS
    <3> QED BY <2>0, <3>1, <3>2, <3>3, SlotKept
  <2>2. CASE d = at /\ name = n0
    <3>1. LastDeclared(src, d, name, j + 1) = m0
      <4>1. src[j].ev # "else"
          OBVIOUS
      <4>2. LastDeclared(src, d, name, j + 1) = LastDeclared(src, d, name, j)
          BY <2>0, <4>1, SameScope
      <4> QED BY <1>8, <2>0, <2>2, <4>2
    <3>2. Binds(src, name, m0, j)
        BY <1>7, <2>2 DEF Binds
    <3>3. d = 1 \/ m0 # 0
        BY <1>6, <2>2
    <3>4. next[d][name] # "none" /\ (next[d][name] = "canonical" <=> GivesCanonical(src)[j])
        BY <1>4, <1>9, <2>2
    <3> QED BY <2>0, <3>1, <3>2, <3>3, <3>4, BoundSlot
  <2> QED BY <2>1, <2>2
<1>11. Len(next) = BlockDepth(src, j) + 1
    BY <1>1, <1>9
<1> QED BY <1>0, <1>1, <1>9, <1>10, <1>11, AfterIs

LEMMA EventKeeps ==
    ASSUME NEW src, NEW j, NEW scopes, Before(src, j, scopes)
    PROVE  ScopesInv(scope_event(scopes, src[j]), src, j + 1)
<1>1. CASE src[j].ev \in {"then", "for"}
    BY <1>1, OpenKeeps
<1>2. CASE src[j].ev = "function"
    BY <1>2, FunctionKeeps
<1>3. CASE src[j].ev = "else"
    BY <1>3, ElseKeeps
<1>4. CASE src[j].ev = "end"
    BY <1>4, EndKeeps
<1>5. CASE src[j].ev = "local"
    BY <1>5, LocalKeeps
<1>6. CASE src[j].ev = "assign"
    BY <1>6, AssignKeeps
<1>7. CASE src[j].ev \notin {"then", "for", "function", "else", "end", "local", "assign"}
    BY <1>7, QuietKeeps
<1> QED BY <1>1, <1>2, <1>3, <1>4, <1>5, <1>6, <1>7

LEMMA FirstScope ==
    ASSUME NEW src, Len(src) \in Nat
    PROVE  ScopesInv(<<NoBindings>>, src, 1)
<1> DEFINE scopes == <<NoBindings>>
<1>1. /\ scopes \in Seq(ScopeSet) /\ Len(scopes) = 1 /\ scopes[1] = NoBindings
    BY NoBindingsIs
<1> HIDE DEF scopes
<1>2. ASSUME NEW name \in LoginNames PROVE SlotFits(scopes, src, 1, name, 1)
  <2> DEFINE j == 1
             m == LastDeclared(src, 1, name, j)
  <2>1. j \in Nat \ {0} /\ j - 1 = 0
      OBVIOUS
  <2> HIDE DEF j
  <2>2. BoundLast(src, name, m, j) \in 0..(j - 1)
      BY <2>1, BoundLastIs
  <2>3. BoundLast(src, name, LastDeclared(src, 1, name, 1), 1) = 0
      BY <2>1, <2>2 DEF j
  <2>4. scopes[1][name] = "none"
      BY <1>1, NoBindingsIs
  <2>5. ~GivesCanonical(src)[0]
      BY GivesIs DEF Gives
  <2> QED BY <2>3, <2>4, <2>5 DEF SlotFits, Fits
<1>3. BlockDepth(src, 0) = 0 /\ 1 - 1 = 0
    BY DepthStep
<1>4. \A d \in 1..Len(scopes), name \in LoginNames : SlotFits(scopes, src, d, name, 1)
    BY <1>1, <1>2
<1>5. Len(scopes) = BlockDepth(src, 1 - 1) + 1
    BY <1>1, <1>3
<1>6. ScopesInv(scopes, src, 1)
    BY <1>1, <1>4, <1>5 DEF ScopesInv, ScopeSet
<1> QED BY <1>6 DEF scopes

-----------------------------------------------------------------------------
(* Before every line of a file whose blocks nest, the tracker has what     *)
(* Lua's scopes say, up to the first loop that declares a name it follows. *)
LEMMA TrackerIsRight ==
    ASSUME NEW src, IsSource(src), WellNested(src)
    PROVE  \A j \in DOMAIN src :
               NoLoopVariable(src, j) => ScopesInv(binding_states_before(src, j), src, j)
<1>0. Len(src) \in Nat /\ DOMAIN src = 1..Len(src)
    BY SourceIs
<1> DEFINE S == Scopes(src)
           Bad == {j \in 1..Len(src) : NoLoopVariable(src, j) /\ ~ScopesInv(S[j], src, j)}
<1>1. \A i \in 1..Len(src) : S[i] = IF i = 1 THEN <<NoBindings>> ELSE scope_event(S[i - 1], src[i - 1])
    BY <1>0, ScopesAre
<1> HIDE DEF S
<1>2. ASSUME Bad # {} PROVE FALSE
  <2>1. PICK j \in Bad : \A i \in Bad : j <= i
    <3>1. Bad \in SUBSET Nat
        BY <1>0
    <3> HIDE DEF Bad
    <3> QED BY <1>2, <3>1, LeastNat
  <2>2. j \in 1..Len(src) /\ ~ScopesInv(S[j], src, j) /\ NoLoopVariable(src, j)
      OBVIOUS
  <2>3. j # 1
      BY <1>0, <1>1, <2>2, FirstScope
  <2>4. j - 1 \in 1..Len(src) /\ j - 1 \notin Bad
      BY <1>0, <2>1, <2>2, <2>3
  <2>5. /\ ScopesInv(S[j - 1], src, j - 1)
        /\ src[j - 1].ev = "for" => src[j - 1].name \notin LoginNames
    <3>1. NoLoopVariable(src, j - 1) /\ (src[j - 1].ev = "for" => src[j - 1].name \notin LoginNames)
        BY <1>0, <2>2, <2>4 DEF NoLoopVariable
    <3> QED BY <2>4, <3>1
  <2>6. Before(src, j - 1, S[j - 1])
      BY <1>0, <2>4, <2>5 DEF Before
  <2>7. ScopesInv(scope_event(S[j - 1], src[j - 1]), src, j - 1 + 1)
      BY <2>6, EventKeeps
  <2>8. S[j] = scope_event(S[j - 1], src[j - 1]) /\ j - 1 + 1 = j
      BY <1>1, <2>2, <2>3
  <2> QED BY <2>2, <2>7, <2>8
<1>3. \A j \in 1..Len(src) : NoLoopVariable(src, j) => ScopesInv(S[j], src, j)
    BY <1>2
<1> QED BY <1>0, <1>3 DEF binding_states_before, S

(* What the login gate lets pass has the canonical login by Lua's scopes.  *)
LEMMA PassedIsCanonical ==
    ASSUME NEW src, IsSource(src), WellNested(src), NEW j \in DOMAIN src,
           PassesAsCanonical(src, j), NoLoopVariable(src, j)
    PROVE  CanonicalAt(src, j)
<1> DEFINE scopes == binding_states_before(src, j)
           n0 == src[j].name
<1>1. Len(src) \in Nat /\ j \in 1..Len(src) /\ DOMAIN src = 1..Len(src)
    BY SourceIs
<1>2. ScopesInv(scopes, src, j)
    BY TrackerIsRight
<1>3. n0 \in LoginNames
    BY DEF WellNested, PassesAsCanonical
<1>4. \A i \in 0..(j - 1) : BlockDepth(src, i) >= 0
  <2>1. Before(src, j, scopes)
    <3>1. src[j].ev # "for"
        BY DEF PassesAsCanonical
    <3> QED BY <1>1, <1>2, <3>1 DEF Before
  <2>2. \A i \in 0..Len(src) : BlockDepth(src, i) \in Nat
      BY <2>1, BeforeIs
  <2> QED BY <1>1, <2>2
<1>5. visible_binding(scopes, n0) = "canonical"
    BY DEF raw_comparison, raw_membership, PassesAsCanonical
<1>6. visible_binding(scopes, n0) = "canonical" <=> GivesCanonical(src)[LastBinding(src, n0, j)]
  <2> HIDE DEF scopes, n0
  <2> QED BY <1>1, <1>2, <1>3, <1>4, VisibleIs
<1> QED BY <1>5, <1>6 DEF CanonicalAt

-----------------------------------------------------------------------------
(* The depth of blocks from a line on.                                     *)

IsCode(src) == IsSource(src) /\ \A i \in DOMAIN src : src[i].delta \in Int

IsDepths(f, i, k, src) ==
    f = [e \in i..k |-> IF e = i THEN src[i].delta ELSE f[e - 1] + src[e].delta]

LEMMA DepthsExist ==
    ASSUME NEW src, NEW i \in Nat, NEW k \in Nat
    PROVE  \E f : IsDepths(f, i, k, src)
<1> DEFINE Bad == {j \in Nat : ~\E f : IsDepths(f, i, j, src)}
<1> SUFFICES ASSUME Bad # {} PROVE FALSE
    OBVIOUS
<1>1. PICK j \in Bad : \A a \in Bad : j <= a
  <2>1. Bad \in SUBSET Nat
      OBVIOUS
  <2> HIDE DEF Bad
  <2> QED BY <2>1, LeastNat
<1>2. \E f : IsDepths(f, i, j - 1, src)
  <2>1. CASE j = 0
    <3> DEFINE f == [e \in i..(j - 1) |-> 0]
    <3>1. i..(j - 1) = {}
        BY <2>1
    <3>2. f = [e \in i..(j - 1) |-> IF e = i THEN src[i].delta ELSE f[e - 1] + src[e].delta]
        BY <3>1
    <3> HIDE DEF f
    <3> QED BY <3>2 DEF IsDepths
  <2>2. CASE j # 0
    <3>1. j - 1 \in Nat /\ j - 1 \notin Bad
        BY <1>1, <2>2
    <3> QED BY <3>1
  <2> QED BY <2>1, <2>2
<1>3. PICK f : IsDepths(f, i, j - 1, src)
    BY <1>2
<1> DEFINE g == [e \in i..j |-> IF e # j THEN f[e] ELSE IF e = i THEN src[i].delta ELSE f[e - 1] + src[e].delta]
<1>4. ASSUME NEW e \in i..j
      PROVE  g[e] = IF e = i THEN src[i].delta ELSE g[e - 1] + src[e].delta
  <2>1. e # i => g[e - 1] = f[e - 1]
      OBVIOUS
  <2>2. CASE e = j
      BY <2>1, <2>2
  <2>3. CASE e # j
    <3>1. e \in i..(j - 1) /\ g[e] = f[e]
        BY <2>3
    <3>2. f[e] = IF e = i THEN src[i].delta ELSE f[e - 1] + src[e].delta
        BY <1>3, <3>1 DEF IsDepths
    <3> HIDE DEF g
    <3> QED BY <2>1, <3>1, <3>2
  <2> QED BY <2>2, <2>3
<1>5. g = [e \in i..j |-> g[e]]
    OBVIOUS
<1> HIDE DEF g
<1>6. IsDepths(g, i, j, src)
    BY <1>4, <1>5 DEF IsDepths
<1> QED BY <1>1, <1>6

LEMMA DepthsAre ==
    ASSUME NEW src, IsCode(src), NEW i \in 1..Len(src)
    PROVE  \A e \in i..Len(src) :
               /\ Depths(src, i)[e] = IF e = i THEN src[i].delta ELSE Depths(src, i)[e - 1] + src[e].delta
               /\ Depths(src, i)[e] \in Int
<1> DEFINE P(f) == IsDepths(f, i, Len(src), src)
           D == Depths(src, i)
           Bad == {e \in i..Len(src) : D[e] \notin Int}
<1>0. Len(src) \in Nat /\ DOMAIN src = 1..Len(src)
    BY SourceIs DEF IsCode
<1>1. \E f : P(f)
  <2>1. i \in Nat
      BY <1>0
  <2> QED BY <1>0, <2>1, DepthsExist
<1>2. D = CHOOSE f : P(f)
    BY DEF Depths, IsDepths
<1> HIDE DEF P, D
<1>3. P(D)
    BY <1>1, <1>2
<1>4. \A e \in i..Len(src) : D[e] = IF e = i THEN src[i].delta ELSE D[e - 1] + src[e].delta
    BY <1>3 DEF P, IsDepths
<1>5. ASSUME Bad # {} PROVE FALSE
  <2>1. PICK e \in Bad : \A a \in Bad : e <= a
    <3>1. Bad \in SUBSET Nat
        BY <1>0
    <3> HIDE DEF Bad
    <3> QED BY <1>5, <3>1, LeastNat
  <2>2. e \in i..Len(src) /\ D[e] \notin Int /\ src[e].delta \in Int /\ src[i].delta \in Int
      BY <1>0 DEF IsCode
  <2>3. e # i
      BY <1>4, <2>2
  <2>4. e - 1 \in i..Len(src) /\ e - 1 \notin Bad
      BY <1>0, <2>1, <2>2, <2>3
  <2>5. D[e - 1] \in Int
      BY <2>4
  <2> QED BY <1>4, <2>2, <2>3, <2>5
<1>6. \A e \in i..Len(src) : D[e] \in Int
    BY <1>5
<1> QED BY <1>4, <1>6 DEF D

-----------------------------------------------------------------------------
(* A line that says nothing.                                               *)

(* dst is src with such a line put in as line p; where the lines of src    *)
(* are then.                                                               *)
Past(i, p) == IF i < p THEN i ELSE i + 1

Inserted(src, dst, p) ==
    /\ Len(dst) = Len(src) + 1
    /\ p \in 1..Len(dst)
    /\ dst[p].fn = <<>> /\ dst[p].delta = 0 /\ dst[p].tok = {}
    /\ \A i \in 1..Len(src) : dst[Past(i, p)] = src[i]

LEMMA PastIs ==
    ASSUME NEW n \in Nat, NEW p \in 1..(n + 1)
    PROVE  /\ \A i \in 1..n : Past(i, p) \in 1..(n + 1) /\ Past(i, p) # p
           /\ \A i, j \in 1..n : (Past(i, p) <= Past(j, p) <=> i <= j) /\ (Past(i, p) = Past(j, p) <=> i = j)
           /\ \A k \in 1..(n + 1) : k = p \/ \E i \in 1..n : k = Past(i, p)
<1>1. ASSUME NEW k \in 1..(n + 1), k # p
      PROVE  \E i \in 1..n : k = Past(i, p)
  <2>1. CASE k < p
      BY <2>1 DEF Past
  <2>2. CASE k > p
    <3>1. k - 1 \in 1..n /\ k = Past(k - 1, p)
        BY <2>2 DEF Past
    <3> QED BY <3>1
  <2> QED BY <1>1, <2>1, <2>2
<1> QED BY <1>1 DEF Past

LEMMA DepthPast ==
    ASSUME NEW src, IsCode(src), NEW dst, IsCode(dst), NEW p, Inserted(src, dst, p),
           NEW i \in 1..Len(src)
    PROVE  /\ \A e \in i..Len(src) : Depths(dst, Past(i, p))[Past(e, p)] = Depths(src, i)[e]
           /\ i < p => Depths(dst, i)[p] = Depths(src, i)[p - 1]
<1> DEFINE n == Len(src)
           h == Past(i, p)
           A == Depths(src, i)
           B == Depths(dst, h)
           Bad == {e \in i..n : B[Past(e, p)] # A[e]}
<1>0. n \in Nat /\ DOMAIN src = 1..n /\ Len(dst) = n + 1 /\ DOMAIN dst = 1..(n + 1) /\ p \in 1..(n + 1)
    BY SourceIs DEF IsCode, Inserted
<1>1. h \in 1..(n + 1)
    BY <1>0 DEF Past
<1>2. \A e \in i..n : A[e] = (IF e = i THEN src[i].delta ELSE A[e - 1] + src[e].delta) /\ A[e] \in Int
    BY DepthsAre
<1>3. \A e \in h..(n + 1) : B[e] = (IF e = h THEN dst[h].delta ELSE B[e - 1] + dst[e].delta) /\ B[e] \in Int
    BY <1>0, <1>1, DepthsAre
<1>4. dst[p].delta = 0 /\ \A e \in 1..n : dst[Past(e, p)] = src[e]
    BY DEF Inserted
<1> HIDE DEF A, B
<1>5. ASSUME Bad # {} PROVE FALSE
  <2>1. PICK e \in Bad : \A a \in Bad : e <= a
    <3>1. Bad \in SUBSET Nat
        BY <1>0
    <3> HIDE DEF Bad
    <3> QED BY <1>5, <3>1, LeastNat
  <2>2. e \in i..n /\ B[Past(e, p)] # A[e]
      OBVIOUS
  <2>3. e # i
    <3>1. B[h] = dst[h].delta
        BY <1>0, <1>1, <1>3
    <3> QED BY <1>2, <1>4, <2>2, <3>1
  <2>4. e - 1 \in i..n /\ e - 1 \notin Bad
      BY <1>0, <2>1, <2>2, <2>3
  <2>5. B[Past(e - 1, p)] = A[e - 1]
      BY <2>4
  <2>6. A[e] = A[e - 1] + src[e].delta /\ A[e - 1] \in Int
      BY <1>2, <2>2, <2>3, <2>4
  <2>7. e \in 1..n
      BY <1>0, <2>2
  <2>8. CASE e # p
    <3>1. Past(e, p) - 1 = Past(e - 1, p) /\ Past(e, p) \in h..(n + 1) /\ Past(e, p) # h
        BY <1>0, <2>2, <2>3, <2>8 DEF Past
    <3>2. B[Past(e, p)] = B[Past(e - 1, p)] + dst[Past(e, p)].delta
        BY <1>3, <3>1
    <3> QED BY <1>4, <2>2, <2>5, <2>6, <2>7, <3>2
  <2>9. CASE e = p
    <3>1. Past(e, p) = p + 1 /\ Past(e - 1, p) = p - 1 /\ h = i
        BY <1>0, <2>2, <2>3, <2>9 DEF Past
    <3>2. p \in h..(n + 1) /\ p + 1 \in h..(n + 1) /\ p # h /\ p + 1 # h /\ (p + 1) - 1 = p
        BY <1>0, <2>2, <2>3, <2>9, <3>1
    <3>3. B[p] = B[p - 1] + dst[p].delta
        BY <1>3, <3>2
    <3>4. B[p + 1] = B[p] + dst[p + 1].delta
        BY <1>3, <3>2
    <3>5. B[p - 1] = A[e - 1] /\ dst[p + 1] = src[e]
        BY <1>4, <2>5, <2>7, <3>1
    <3>6. B[p] = A[e - 1]
        BY <1>4, <2>6, <3>3, <3>5
    <3> QED BY <2>2, <2>6, <3>1, <3>4, <3>5, <3>6
  <2> QED BY <2>8, <2>9
<1>6. \A e \in i..n : B[Past(e, p)] = A[e]
    BY <1>5
<1>7. ASSUME i < p PROVE B[p] = A[p - 1] /\ h = i
  <2>1. h = i /\ p \in h..(n + 1) /\ p # h /\ p - 1 \in i..n /\ Past(p - 1, p) = p - 1
      BY <1>0, <1>7 DEF Past
  <2>2. B[p] = B[p - 1] + dst[p].delta
      BY <1>3, <2>1
  <2>3. B[p - 1] = A[p - 1] /\ A[p - 1] \in Int
      BY <1>2, <1>6, <2>1
  <2> QED BY <1>4, <2>1, <2>2, <2>3
<1> QED BY <1>6, <1>7 DEF A, B

(* Where a block ends.                                                     *)
LEMMA EndIs ==
    ASSUME NEW src, IsCode(src), NEW i \in 1..Len(src)
    PROVE  /\ block_end(src, i) \in i..Len(src)
           /\ \A j \in i..Len(src) :
                  j <= block_end(src, i) <=> \A e \in i..(j - 1) : Depths(src, i)[e] > 0
<1> DEFINE n == Len(src)
           A == Depths(src, i)
           closed == {e \in i..n : A[e] <= 0}
<1>0. n \in Nat
    BY SourceIs DEF IsCode
<1>1. \A e \in i..n : A[e] \in Int
    BY DepthsAre
<1>2. block_end(src, i) = IF closed = {} THEN n ELSE Min(closed)
    BY DEF block_end
<1> HIDE DEF A
<1>3. CASE closed = {}
  <2>1. \A e \in i..n : A[e] > 0
      BY <1>1, <1>3
  <2> QED BY <1>0, <1>2, <1>3, <2>1 DEF A
<1>4. CASE closed # {}
  <2>1. PICK m \in closed : \A a \in closed : m <= a
    <3>1. closed \in SUBSET Nat
        BY <1>0
    <3> HIDE DEF closed
    <3> QED BY <1>4, <3>1, LeastNat
  <2>2. Min(closed) = m
    <3>1. closed \subseteq Int
        BY <1>0
    <3> HIDE DEF closed
    <3>2. \A x \in closed : (\A y \in closed : x <= y) <=> x = m
        BY <2>1, <3>1
    <3> QED BY <3>2 DEF Min
  <2>3. m \in i..n /\ A[m] <= 0 /\ \A e \in i..n : A[e] <= 0 => m <= e
      BY <2>1
  <2>4. block_end(src, i) = m
      BY <1>2, <1>4, <2>2
  <2> HIDE DEF closed
  <2>5. ASSUME NEW j \in i..n
        PROVE  j <= m <=> \A e \in i..(j - 1) : A[e] > 0
    <3>1. ASSUME j <= m, NEW e \in i..(j - 1) PROVE A[e] > 0
      <4>1. e \in i..n /\ e < m
          BY <1>0, <2>3, <3>1
      <4> QED BY <1>0, <1>1, <2>3, <4>1
    <3>2. ASSUME ~(j <= m) PROVE m \in i..(j - 1) /\ ~(A[m] > 0)
        BY <1>0, <1>1, <2>3, <3>2
    <3> QED BY <3>1, <3>2
  <2> QED BY <2>3, <2>4, <2>5 DEF A
<1> QED BY <1>3, <1>4

LEMMA EndPast ==
    ASSUME NEW src, IsCode(src), NEW dst, IsCode(dst), NEW p, Inserted(src, dst, p),
           NEW i \in 1..Len(src), NEW j \in 1..Len(src)
    PROVE  Past(j, p) <= block_end(dst, Past(i, p)) <=> j <= block_end(src, i)
<1> DEFINE n == Len(src)
           h == Past(i, p)
           A == Depths(src, i)
           B == Depths(dst, h)
<1>0. n \in Nat /\ Len(dst) = n + 1 /\ p \in 1..(n + 1)
    BY SourceIs DEF IsCode, Inserted
<1>1. h \in 1..(n + 1)
    BY <1>0 DEF Past
<1>2. /\ \A e \in i..n : B[Past(e, p)] = A[e]
      /\ i < p => h = i /\ B[p] = A[p - 1]
    BY <1>0, DepthPast DEF Past
<1>3. block_end(src, i) \in i..n /\ \A k \in i..n : k <= block_end(src, i) <=> \A e \in i..(k - 1) : A[e] > 0
    BY EndIs
<1>4. block_end(dst, h) \in h..(n + 1)
      /\ \A k \in h..(n + 1) : k <= block_end(dst, h) <=> \A e \in h..(k - 1) : B[e] > 0
    BY <1>0, <1>1, EndIs
<1> HIDE DEF A, B
<1>5. CASE j < i
  <2>1. ~(j <= block_end(src, i)) => FALSE
      BY <1>0, <1>3, <1>5
  <2>2. Past(j, p) < h
      BY <1>0, <1>5 DEF Past
  <2>3. Past(j, p) <= block_end(dst, h)
      BY <1>0, <1>1, <1>4, <2>2 DEF Past
  <2> QED BY <2>1, <2>3
<1>6. CASE i <= j
  <2>1. j \in i..n /\ Past(j, p) \in h..(n + 1)
      BY <1>0, <1>6 DEF Past
  <2>2. ASSUME \A e \in i..(j - 1) : A[e] > 0, NEW e \in h..(Past(j, p) - 1)
        PROVE  B[e] > 0
    <3>1. CASE e = p
      <4>1. i < p /\ p - 1 \in i..(j - 1)
          BY <1>0, <1>6, <2>2, <3>1 DEF Past
      <4> QED BY <1>2, <2>2, <3>1, <4>1
    <3>2. CASE e # p
      <4>1. PICK k \in i..(j - 1) : e = Past(k, p)
        <5>1. CASE e < p
          <6>1. e \in i..(j - 1) /\ e = Past(e, p)
              BY <1>0, <1>6, <2>2, <5>1 DEF Past
          <6> QED BY <6>1
        <5>2. CASE e > p
          <6>1. e - 1 \in i..(j - 1) /\ e = Past(e - 1, p)
              BY <1>0, <1>6, <2>2, <5>2 DEF Past
          <6> QED BY <6>1
        <5> QED BY <1>0, <1>1, <3>2, <5>1, <5>2
      <4>2. k \in i..n
          BY <1>0, <2>1
      <4> QED BY <1>2, <2>2, <4>1, <4>2
    <3> QED BY <3>1, <3>2
  <2>3. ASSUME \A e \in h..(Past(j, p) - 1) : B[e] > 0, NEW e \in i..(j - 1)
        PROVE  A[e] > 0
    <3>1. e \in i..n /\ Past(e, p) \in h..(Past(j, p) - 1)
        BY <1>0, <2>1, <2>3 DEF Past
    <3> QED BY <1>2, <2>3, <3>1
  <2> QED BY <1>3, <1>4, <2>1, <2>2, <2>3
<1> QED BY <1>0, <1>5, <1>6 DEF A

-----------------------------------------------------------------------------
(* Functions by the lines they start at.                                   *)

Heads(src) == {i \in 1..Len(src) : src[i].fn # <<>>}
BlockAt(src, i) == [name |-> src[i].fn, start |-> i, end |-> block_end(src, i)]
FunctionsAround(src, j) == {i \in Heads(src) : i <= j /\ j <= block_end(src, i)}

LEMMA BlocksAre ==
    ASSUME NEW src, IsSource(src)
    PROVE  function_blocks(src) = {BlockAt(src, i) : i \in Heads(src)}
BY SourceIs DEF function_blocks, Heads, BlockAt

LEMMA SurfaceIs ==
    ASSUME NEW src, IsSource(src), NEW j
    PROVE  /\ FunctionsAround(src, j) = {} => surface_for_line(src, j) = TopLevel
           /\ \A m \in FunctionsAround(src, j) :
                  (\A x \in FunctionsAround(src, j) : x <= m) => surface_for_line(src, j) = src[m].fn
<1> DEFINE around == {b \in function_blocks(src) : b.start <= j /\ j <= b.end}
<1>1. around = {BlockAt(src, i) : i \in FunctionsAround(src, j)}
    BY BlocksAre DEF FunctionsAround, BlockAt
<1>2. surface_for_line(src, j) =
          IF around = {} THEN TopLevel
          ELSE (CHOOSE b \in around : \A x \in around : x.start <= b.start).name
    BY DEF surface_for_line
<1> HIDE DEF around
<1>3. ASSUME FunctionsAround(src, j) = {} PROVE surface_for_line(src, j) = TopLevel
    BY <1>1, <1>2, <1>3
<1>4. ASSUME NEW m \in FunctionsAround(src, j), \A x \in FunctionsAround(src, j) : x <= m
      PROVE  surface_for_line(src, j) = src[m].fn
  <2>1. FunctionsAround(src, j) \subseteq 1..Len(src)
      BY DEF FunctionsAround, Heads
  <2>2. BlockAt(src, m) \in around
      BY <1>1
  <2>3. \A b \in around : (\A x \in around : x.start <= b.start) <=> b = BlockAt(src, m)
    <3>1. ASSUME NEW i \in FunctionsAround(src, j), \A x \in around : x.start <= BlockAt(src, i).start
          PROVE  i = m
      <4>1. BlockAt(src, m).start = m /\ BlockAt(src, i).start = i
          BY DEF BlockAt
      <4>2. m <= i /\ i <= m
          BY <1>4, <2>2, <3>1, <4>1
      <4> QED BY <2>1, <4>2
    <3>2. \A x \in around : x.start <= BlockAt(src, m).start
        BY <1>1, <1>4 DEF BlockAt
    <3> QED BY <1>1, <3>1, <3>2
  <2>4. (CHOOSE b \in around : \A x \in around : x.start <= b.start) = BlockAt(src, m)
      BY <2>2, <2>3
  <2>5. surface_for_line(src, j) = BlockAt(src, m).name
      BY <1>2, <2>2, <2>4
  <2> QED BY <2>5 DEF BlockAt
<1> QED BY <1>3, <1>4

LEMMA HeadsPast ==
    ASSUME NEW src, IsCode(src), NEW dst, IsCode(dst), NEW p, Inserted(src, dst, p)
    PROVE  /\ Heads(dst) = {Past(i, p) : i \in Heads(src)}
           /\ \A i \in Heads(src) : dst[Past(i, p)].fn = src[i].fn
           /\ \A i \in Heads(src), j \in 1..Len(src) :
                  (Past(i, p) <= Past(j, p) /\ Past(j, p) <= block_end(dst, Past(i, p)))
                      <=> (i <= j /\ j <= block_end(src, i))
<1>0. Len(src) \in Nat /\ Len(dst) = Len(src) + 1 /\ p \in 1..(Len(src) + 1)
    BY SourceIs DEF IsCode, Inserted
<1>1. Heads(src) \subseteq 1..Len(src)
    BY DEF Heads
<1>2. \A i \in 1..Len(src) : Past(i, p) \in 1..Len(dst) /\ dst[Past(i, p)] = src[i]
    BY <1>0, PastIs DEF Inserted
<1>3. \A k \in 1..Len(dst) : k = p \/ \E i \in 1..Len(src) : k = Past(i, p)
    BY <1>0, PastIs
<1>4. dst[p].fn = <<>>
    BY DEF Inserted
<1>5. Heads(dst) = {Past(i, p) : i \in Heads(src)}
    BY <1>2, <1>3, <1>4 DEF Heads
<1>6. ASSUME NEW i \in Heads(src), NEW j \in 1..Len(src)
      PROVE  (Past(i, p) <= Past(j, p) /\ Past(j, p) <= block_end(dst, Past(i, p)))
                 <=> (i <= j /\ j <= block_end(src, i))
  <2>1. i \in 1..Len(src)
      BY <1>1
  <2>2. Past(i, p) <= Past(j, p) <=> i <= j
      BY <1>0, <2>1, PastIs
  <2>3. Past(j, p) <= block_end(dst, Past(i, p)) <=> j <= block_end(src, i)
      BY <2>1, EndPast
  <2> QED BY <2>2, <2>3
<1> QED BY <1>1, <1>2, <1>5, <1>6

(* The functions around a line stay around it.                             *)
LEMMA SurfacePast ==
    ASSUME NEW src, IsCode(src), NEW dst, IsCode(dst), NEW p, Inserted(src, dst, p),
           NEW j \in 1..Len(src)
    PROVE  surface_for_line(dst, Past(j, p)) = surface_for_line(src, j)
<1> DEFINE S == FunctionsAround(src, j)
           T == FunctionsAround(dst, Past(j, p))
<1>0. Len(src) \in Nat /\ p \in 1..(Len(src) + 1) /\ IsSource(src) /\ IsSource(dst)
    BY SourceIs DEF IsCode, Inserted
<1>1. S \subseteq 1..Len(src) /\ S \subseteq Heads(src)
    BY DEF FunctionsAround, Heads
<1>2. T = {Past(i, p) : i \in S}
    BY HeadsPast DEF FunctionsAround
<1>3. CASE S = {}
    BY <1>0, <1>2, <1>3, SurfaceIs
<1>4. CASE S # {}
  <2>1. PICK m \in S : \A x \in S : x <= m
    <3> HIDE DEF S
    <3>1. PICK s \in S : TRUE
        BY <1>4
    <3> DEFINE m == Max({0} \cup S)
    <3>2. m \in 0..Len(src) /\ m \in {0} \cup S /\ \A x \in S : x <= m
        BY <1>0, <1>1, GreatestOf
    <3> HIDE DEF m
    <3>3. s <= m /\ s \in 1..Len(src)
        BY <1>1, <3>1, <3>2
    <3>4. m \in S
        BY <3>2, <3>3
    <3> QED BY <3>2, <3>4
  <2>2. Past(m, p) \in T /\ \A x \in T : x <= Past(m, p)
    <3> HIDE DEF S, T
    <3>1. \A i \in S : Past(i, p) <= Past(m, p)
      <4>1. \A i, k \in 1..Len(src) : Past(i, p) <= Past(k, p) <=> i <= k
          BY <1>0, PastIs
      <4> QED BY <1>1, <2>1, <4>1
    <3> QED BY <1>2, <2>1, <3>1
  <2>3. surface_for_line(src, j) = src[m].fn
      BY <1>0, <2>1, SurfaceIs
  <2>4. surface_for_line(dst, Past(j, p)) = dst[Past(m, p)].fn
      BY <1>0, <2>2, SurfaceIs
  <2> QED BY <1>1, <2>1, <2>3, <2>4, HeadsPast
<1> QED BY <1>3, <1>4

(* What is said from a line to the end of a function stays the same.       *)
TokensFrom(src, i, j) == UNION {src[k].tok : k \in j..block_end(src, i)}

LEMMA TokensPast ==
    ASSUME NEW src, IsCode(src), NEW dst, IsCode(dst), NEW p, Inserted(src, dst, p),
           NEW i \in 1..Len(src), NEW j \in 1..Len(src)
    PROVE  TokensFrom(dst, Past(i, p), Past(j, p)) = TokensFrom(src, i, j)
<1> DEFINE n == Len(src)
           h == Past(i, p)
<1>0. n \in Nat /\ Len(dst) = n + 1 /\ p \in 1..(n + 1) /\ h \in 1..(n + 1) /\ Past(j, p) \in 1..(n + 1)
    BY SourceIs DEF IsCode, Inserted, Past
<1>1. block_end(src, i) \in i..n /\ block_end(dst, h) \in h..(n + 1)
    BY <1>0, EndIs
<1>2. ASSUME NEW k \in 1..n
      PROVE  /\ k \in j..block_end(src, i) <=> Past(k, p) \in Past(j, p)..block_end(dst, h)
             /\ dst[Past(k, p)] = src[k]
  <2>1. Past(j, p) <= Past(k, p) <=> j <= k
      BY <1>0, PastIs
  <2>2. Past(k, p) <= block_end(dst, h) <=> k <= block_end(src, i)
      BY EndPast
  <2>3. Past(k, p) \in 1..(n + 1)
      BY <1>0, PastIs
  <2>4. dst[Past(k, p)] = src[k]
      BY DEF Inserted
  <2> QED BY <1>0, <1>1, <2>1, <2>2, <2>3, <2>4
<1>3. ASSUME NEW k \in Past(j, p)..block_end(dst, h)
      PROVE  k = p \/ \E m \in 1..n : k = Past(m, p)
  <2>1. k \in 1..(n + 1)
      BY <1>0, <1>1
  <2> QED BY <1>0, <2>1, PastIs
<1>4. j..block_end(src, i) \subseteq 1..n
    BY <1>0, <1>1
<1>5. dst[p].tok = {}
    BY DEF Inserted
<1> HIDE DEF h, n
<1>6. ASSUME NEW t, NEW k \in j..block_end(src, i), t \in src[k].tok
      PROVE  \E m \in Past(j, p)..block_end(dst, h) : t \in dst[m].tok
  <2>1. k \in 1..n
      BY <1>4
  <2>2. Past(k, p) \in Past(j, p)..block_end(dst, h) /\ dst[Past(k, p)] = src[k]
      BY <1>2, <2>1
  <2> QED BY <1>6, <2>2
<1>7. ASSUME NEW t, NEW m \in Past(j, p)..block_end(dst, h), t \in dst[m].tok
      PROVE  \E k \in j..block_end(src, i) : t \in src[k].tok
  <2>1. m # p
      BY <1>5, <1>7
  <2>2. PICK k \in 1..n : m = Past(k, p)
      BY <1>3, <2>1
  <2>3. k \in j..block_end(src, i) /\ dst[m] = src[k]
      BY <1>2, <2>2
  <2> QED BY <1>7, <2>3
<1> DEFINE L == UNION {dst[k].tok : k \in Past(j, p)..block_end(dst, h)}
           R == UNION {src[k].tok : k \in j..block_end(src, i)}
<1>8. \A t : t \in L <=> t \in R
    BY <1>6, <1>7
<1>9. L = R
  <2> HIDE DEF L, R
  <2> QED BY <1>8
<1> QED BY <1>9 DEF TokensFrom, h

(* What the gate says of a declared milestone.                             *)
Named(src, name) == {i \in Heads(src) : Last(src[i].fn) = Last(name)}

Declared(src, m, i) ==
    (IF m[3] \in TokensFrom(src, i, i) THEN {} ELSE {"unbound accessor"})
    \cup {"cursor inside milestone" : t \in TokensFrom(src, i, i) \cap CursorTokens}

LEMMA MilestoneIs ==
    ASSUME NEW tree, NEW m, m[1] \in Files(tree), NEW src, src = Source(tree, m[1]), IsSource(src)
    PROVE  /\ Named(src, m[2]) = {} => milestone_messages(tree, m) = {"stale function"}
           /\ \A i \in Named(src, m[2]) :
                  (\A x \in Named(src, m[2]) : i <= x) => milestone_messages(tree, m) = Declared(src, m, i)
<1> DEFINE blocks == blocks_for_function(src, m[2])
           block == CHOOSE b \in blocks : \A x \in blocks : b.start <= x.start
<1>1. blocks = {BlockAt(src, i) : i \in Named(src, m[2])}
    BY BlocksAre DEF blocks_for_function, Named, BlockAt
<1>2. milestone_messages(tree, m) =
          IF blocks = {} THEN {"stale function"}
          ELSE (IF m[3] \in BlockTokens(src, block) THEN {} ELSE {"unbound accessor"})
               \cup {"cursor inside milestone" : t \in BlockTokens(src, block) \cap CursorTokens}
    BY DEF milestone_messages
<1> HIDE DEF blocks
<1>3. ASSUME NEW i \in Named(src, m[2]), \A x \in Named(src, m[2]) : i <= x
      PROVE  milestone_messages(tree, m) = Declared(src, m, i)
  <2>1. BlockAt(src, i) \in blocks
      BY <1>1
  <2>2. \A b \in blocks : (\A x \in blocks : b.start <= x.start) <=> b = BlockAt(src, i)
    <3>1. ASSUME NEW k \in Named(src, m[2]), \A x \in blocks : BlockAt(src, k).start <= x.start
          PROVE  k = i
      <4>1. BlockAt(src, i).start = i /\ BlockAt(src, k).start = k
          BY DEF BlockAt
      <4>2. k <= i /\ i <= k
          BY <1>3, <2>1, <3>1, <4>1
      <4>3. i \in 1..Len(src) /\ k \in 1..Len(src)
          BY DEF Named, Heads
      <4> QED BY <4>2, <4>3
    <3>2. \A x \in blocks : BlockAt(src, i).start <= x.start
        BY <1>1, <1>3 DEF BlockAt
    <3> QED BY <1>1, <3>1, <3>2
  <2>3. block = BlockAt(src, i)
      BY <2>1, <2>2
  <2>4. BlockTokens(src, BlockAt(src, i)) = TokensFrom(src, i, i)
      BY DEF BlockTokens, TokensFrom, BlockAt
  <2> HIDE DEF block
  <2> QED BY <1>2, <2>1, <2>3, <2>4 DEF Declared
<1> QED BY <1>1, <1>2, <1>3

LEMMA MilestonePast ==
    ASSUME NEW old, NEW new, NEW m, m[1] \in Files(old), m[1] \in Files(new),
           NEW src, src = Source(old, m[1]), IsCode(src), NEW dst, dst = Source(new, m[1]), IsCode(dst),
           NEW p, Inserted(src, dst, p)
    PROVE  milestone_messages(new, m) = milestone_messages(old, m)
<1> DEFINE S == Named(src, m[2])
           T == Named(dst, m[2])
<1>0. Len(src) \in Nat /\ p \in 1..(Len(src) + 1) /\ IsSource(src) /\ IsSource(dst)
    BY SourceIs DEF IsCode, Inserted
<1>1. S \subseteq 1..Len(src) /\ S \subseteq Heads(src)
    BY DEF Named, Heads
<1>2. T = {Past(i, p) : i \in S}
    BY HeadsPast DEF Named
<1>3. CASE S = {}
    BY <1>0, <1>2, <1>3, MilestoneIs
<1>4. CASE S # {}
  <2>1. PICK i \in S : \A x \in S : i <= x
    <3>1. S \in SUBSET Nat
        BY <1>1
    <3> HIDE DEF S
    <3> QED BY <1>4, <3>1, LeastNat
  <2>2. Past(i, p) \in T /\ \A x \in T : Past(i, p) <= x
    <3> HIDE DEF S, T
    <3>1. \A j, k \in 1..Len(src) : Past(j, p) <= Past(k, p) <=> j <= k
        BY <1>0, PastIs
    <3> QED BY <1>1, <1>2, <2>1, <3>1
  <2>3. TokensFrom(dst, Past(i, p), Past(i, p)) = TokensFrom(src, i, i)
      BY <1>1, <2>1, TokensPast
  <2>4. Declared(dst, m, Past(i, p)) = Declared(src, m, i)
      BY <2>3 DEF Declared
  <2>5. milestone_messages(old, m) = Declared(src, m, i)
      BY <1>0, <2>1, MilestoneIs
  <2>6. milestone_messages(new, m) = Declared(dst, m, Past(i, p))
      BY <1>0, <2>2, MilestoneIs
  <2> QED BY <2>4, <2>5, <2>6
<1> QED BY <1>3, <1>4

(* Cuts and what they can reach.                                           *)
Outer(src) == {i \in Heads(src) : ~\E x \in Heads(src) : x < i /\ i <= block_end(src, x)}

CutTo(src, i, j, s) ==
    /\ i <= j /\ j <= block_end(src, i)
    /\ src[j].tok \cap CapTokens # {}
    /\ \/ s \in TokensFrom(src, i, j)
       \/ \E k \in Outer(src) :
              /\ src[k].fn # src[i].fn
              /\ Last(src[i].fn) \in TokensFrom(src, k, k)
              /\ s \in TokensFrom(src, k, k)

LEMMA TruncationIs ==
    ASSUME NEW tree, NEW src, src = Source(tree, TruncationFile), IsSource(src), NEW y
    PROVE  y \in truncation_sites(tree) <=>
               \E i \in Outer(src), j \in 1..Len(src), s \in SinkTokens :
                   CutTo(src, i, j, s) /\ y = <<Last(src[i].fn), s>>
<1> DEFINE blocks == outer_blocks(src)
           cuts == {x \in blocks \X DOMAIN src :
                       x[2] \in x[1].start..x[1].end /\ src[x[2]].tok \cap CapTokens # {}}
           others(b) == {c \in blocks : c.name # b.name /\ Calls(src, c, b.name)}
           sinks(b, j) == sink_for_block(src, b, j) \cup UNION {sink_for_block(src, c, c.start) : c \in others(b)}
<1>0. Len(src) \in Nat /\ DOMAIN src = 1..Len(src)
    BY SourceIs
<1>1. blocks = {BlockAt(src, i) : i \in Outer(src)}
  <2> DEFINE all == function_blocks(src)
  <2>1. all = {BlockAt(src, i) : i \in Heads(src)}
      BY BlocksAre
  <2>2. \A i \in Heads(src) : BlockAt(src, i).start = i /\ BlockAt(src, i).end = block_end(src, i)
      BY DEF BlockAt
  <2>3. blocks = {b \in all : ~\E x \in all : x.start < b.start /\ b.start <= x.end}
      BY DEF outer_blocks
  <2> HIDE DEF all, blocks
  <2>4. \A i \in Heads(src) : BlockAt(src, i) \in blocks <=> i \in Outer(src)
      BY <2>1, <2>2, <2>3 DEF Outer
  <2>5. blocks \subseteq all /\ Outer(src) \subseteq Heads(src)
      BY <2>3 DEF Outer
  <2> QED BY <2>1, <2>4, <2>5
<1>2. truncation_sites(tree) = UNION {{<<Last(x[1].name), s>> : s \in sinks(x[1], x[2])} : x \in cuts}
    BY DEF truncation_sites
<1>3. ASSUME NEW i \in Outer(src), NEW j \in 1..Len(src), NEW s
      PROVE  /\ BlockAt(src, i).name = src[i].fn
             /\ s \in sinks(BlockAt(src, i), j) <=>
                    /\ s \in SinkTokens
                    /\ \/ s \in TokensFrom(src, i, j)
                       \/ \E k \in Outer(src) :
                              /\ src[k].fn # src[i].fn
                              /\ Last(src[i].fn) \in TokensFrom(src, k, k)
                              /\ s \in TokensFrom(src, k, k)
  <2>1. s \in sink_for_block(src, BlockAt(src, i), j) <=> s \in SinkTokens /\ s \in TokensFrom(src, i, j)
      BY DEF sink_for_block, TokensFrom, BlockAt
  <2>2. others(BlockAt(src, i)) = {BlockAt(src, k) : k \in {x \in Outer(src) :
            src[x].fn # src[i].fn /\ Last(src[i].fn) \in TokensFrom(src, x, x)}}
      BY <1>1 DEF Calls, BlockTokens, TokensFrom, BlockAt
  <2>3. \A k \in Outer(src) : s \in sink_for_block(src, BlockAt(src, k), BlockAt(src, k).start)
            <=> s \in SinkTokens /\ s \in TokensFrom(src, k, k)
      BY DEF sink_for_block, TokensFrom, BlockAt
  <2>4. BlockAt(src, i).name = src[i].fn
      BY DEF BlockAt
  <2> HIDE DEF blocks
  <2>5. s \in UNION {sink_for_block(src, c, c.start) : c \in others(BlockAt(src, i))} <=>
            s \in SinkTokens /\ \E k \in Outer(src) :
                /\ src[k].fn # src[i].fn
                /\ Last(src[i].fn) \in TokensFrom(src, k, k)
                /\ s \in TokensFrom(src, k, k)
      BY <2>2, <2>3
  <2> QED BY <2>1, <2>4, <2>5
<1> HIDE DEF sinks
<1>4. ASSUME NEW i \in Outer(src), NEW j \in 1..Len(src)
      PROVE  <<BlockAt(src, i), j>> \in cuts <=>
                 i <= j /\ j <= block_end(src, i) /\ src[j].tok \cap CapTokens # {}
  <2>1. i \in 1..Len(src)
      BY DEF Outer, Heads
  <2>2. BlockAt(src, i) \in blocks /\ BlockAt(src, i).start = i /\ BlockAt(src, i).end = block_end(src, i)
      BY <1>1 DEF BlockAt
  <2>3. block_end(src, i) \in Int => (j \in i..block_end(src, i) <=> i <= j /\ j <= block_end(src, i))
      BY <1>0, <2>1
  <2>4. j \in i..block_end(src, i) <=> i <= j /\ j <= block_end(src, i)
      BY <1>0, <2>1
  <2> HIDE DEF blocks
  <2> QED BY <1>0, <2>2, <2>4
<1>5. \A x \in cuts : \E i \in Outer(src), j \in 1..Len(src) : x = <<BlockAt(src, i), j>>
    BY <1>0, <1>1
<1> HIDE DEF cuts
<1>6. ASSUME NEW i \in Outer(src), NEW j \in 1..Len(src), NEW s \in SinkTokens
      PROVE  CutTo(src, i, j, s) <=> <<BlockAt(src, i), j>> \in cuts /\ s \in sinks(BlockAt(src, i), j)
    BY <1>3, <1>4 DEF CutTo
<1>7. ASSUME y \in truncation_sites(tree)
      PROVE  \E i \in Outer(src), j \in 1..Len(src), s \in SinkTokens :
                 CutTo(src, i, j, s) /\ y = <<Last(src[i].fn), s>>
  <2>1. PICK x \in cuts : y \in {<<Last(x[1].name), s>> : s \in sinks(x[1], x[2])}
      BY <1>2, <1>7
  <2>2. PICK i \in Outer(src), j \in 1..Len(src) : x = <<BlockAt(src, i), j>>
      BY <1>5
  <2>3. PICK s \in sinks(BlockAt(src, i), j) : y = <<Last(BlockAt(src, i).name), s>>
      BY <2>1, <2>2
  <2> QED BY <1>3, <1>6, <2>2, <2>3
<1>8. ASSUME NEW i \in Outer(src), NEW j \in 1..Len(src), NEW s \in SinkTokens,
             CutTo(src, i, j, s), y = <<Last(src[i].fn), s>>
      PROVE  y \in truncation_sites(tree)
  <2> DEFINE x == <<BlockAt(src, i), j>>
  <2>1. x \in cuts /\ s \in sinks(x[1], x[2]) /\ y = <<Last(x[1].name), s>>
      BY <1>3, <1>6, <1>8
  <2> HIDE DEF x
  <2> QED BY <1>2, <2>1
<1> QED BY <1>7, <1>8

LEMMA TruncationPast ==
    ASSUME NEW old, NEW new,
           NEW src, src = Source(old, TruncationFile), IsCode(src),
           NEW dst, dst = Source(new, TruncationFile), IsCode(dst), NEW p, Inserted(src, dst, p)
    PROVE  truncation_sites(new) = truncation_sites(old)
<1>0. Len(src) \in Nat /\ Len(dst) = Len(src) + 1 /\ p \in 1..(Len(src) + 1) /\ IsSource(src) /\ IsSource(dst)
    BY SourceIs DEF IsCode, Inserted
<1>1. Heads(src) \subseteq 1..Len(src) /\ Outer(src) \subseteq Heads(src)
    BY DEF Heads, Outer
<1>2. /\ \A i \in 1..Len(src) : Past(i, p) \in 1..Len(dst) /\ dst[Past(i, p)] = src[i]
      /\ \A i, j \in 1..Len(src) : Past(i, p) <= Past(j, p) <=> i <= j
      /\ \A i, j \in 1..Len(src) : Past(i, p) = Past(j, p) <=> i = j
      /\ \A k \in 1..Len(dst) : k = p \/ \E i \in 1..Len(src) : k = Past(i, p)
  <2>1. \A i \in 1..Len(src) : Past(i, p) \in 1..Len(dst)
      BY <1>0, PastIs
  <2>2. \A i, j \in 1..Len(src) : (Past(i, p) <= Past(j, p) <=> i <= j) /\ (Past(i, p) = Past(j, p) <=> i = j)
      BY <1>0, PastIs
  <2>3. \A k \in 1..Len(dst) : k = p \/ \E i \in 1..Len(src) : k = Past(i, p)
      BY <1>0, PastIs
  <2>4. \A i \in 1..Len(src) : dst[Past(i, p)] = src[i]
      BY DEF Inserted
  <2> QED BY <2>1, <2>2, <2>3, <2>4
<1>3. /\ Heads(dst) = {Past(i, p) : i \in Heads(src)}
      /\ \A i \in Heads(src), j \in 1..Len(src) :
             (Past(i, p) <= Past(j, p) /\ Past(j, p) <= block_end(dst, Past(i, p)))
                 <=> (i <= j /\ j <= block_end(src, i))
    BY HeadsPast
<1>4. \A i, j \in 1..Len(src) : TokensFrom(dst, Past(i, p), Past(j, p)) = TokensFrom(src, i, j)
    BY TokensPast
<1>5. Outer(dst) = {Past(i, p) : i \in Outer(src)}
  <2>1. ASSUME NEW i \in Heads(src), NEW x \in Heads(src)
        PROVE  (Past(x, p) < Past(i, p) /\ Past(i, p) <= block_end(dst, Past(x, p)))
                   <=> (x < i /\ i <= block_end(src, x))
    <3>1. i \in 1..Len(src) /\ x \in 1..Len(src)
        BY <1>1
    <3>2. Past(x, p) \in Nat /\ Past(i, p) \in Nat
        BY <1>0, <1>2, <3>1
    <3>3. Past(x, p) < Past(i, p) <=> x < i
        BY <1>2, <3>1, <3>2
    <3>4. x < i => x <= i
        BY <3>1
    <3>5. Past(x, p) < Past(i, p) => Past(x, p) <= Past(i, p)
        BY <3>2
    <3> QED BY <1>3, <3>1, <3>3, <3>4, <3>5
  <2>2. \A i \in Heads(src) : Past(i, p) \in Outer(dst) <=> i \in Outer(src)
      BY <1>3, <2>1 DEF Outer
  <2> QED BY <1>1, <1>3, <2>2 DEF Outer
<1>6. ASSUME NEW i \in Outer(src), NEW j \in 1..Len(src), NEW s
      PROVE  CutTo(dst, Past(i, p), Past(j, p), s) <=> CutTo(src, i, j, s)
  <2>1. i \in Heads(src) /\ i \in 1..Len(src)
      BY <1>1
  <2>2. dst[Past(i, p)] = src[i] /\ dst[Past(j, p)] = src[j]
      BY <1>2, <2>1
  <2>3. (Past(i, p) <= Past(j, p) /\ Past(j, p) <= block_end(dst, Past(i, p)))
            <=> (i <= j /\ j <= block_end(src, i))
      BY <1>3, <2>1
  <2>4. TokensFrom(dst, Past(i, p), Past(j, p)) = TokensFrom(src, i, j)
      BY <1>4, <2>1
  <2>5. \A k \in Outer(src) : /\ dst[Past(k, p)] = src[k]
                              /\ TokensFrom(dst, Past(k, p), Past(k, p)) = TokensFrom(src, k, k)
      BY <1>1, <1>2, <1>4
  <2>6. (\E k \in Outer(dst) :
            /\ dst[k].fn # dst[Past(i, p)].fn
            /\ Last(dst[Past(i, p)].fn) \in TokensFrom(dst, k, k)
            /\ s \in TokensFrom(dst, k, k))
        <=> (\E k \in Outer(src) :
            /\ src[k].fn # src[i].fn
            /\ Last(src[i].fn) \in TokensFrom(src, k, k)
            /\ s \in TokensFrom(src, k, k))
      BY <1>5, <2>2, <2>5
  <2> QED BY <2>2, <2>3, <2>4, <2>6 DEF CutTo
<1>7. \A k \in 1..Len(dst) : dst[k].tok \cap CapTokens # {} => \E j \in 1..Len(src) : k = Past(j, p)
  <2>1. dst[p].tok = {}
      BY DEF Inserted
  <2> QED BY <1>2, <2>1
<1>8. ASSUME NEW y
      PROVE  y \in truncation_sites(new) <=> y \in truncation_sites(old)
  <2>1. ASSUME NEW i \in Outer(src), NEW j \in 1..Len(src), NEW s \in SinkTokens,
               CutTo(src, i, j, s), y = <<Last(src[i].fn), s>>
        PROVE  y \in truncation_sites(new)
    <3> DEFINE i2 == Past(i, p)
               j2 == Past(j, p)
    <3>1. i2 \in Outer(dst) /\ j2 \in 1..Len(dst) /\ CutTo(dst, i2, j2, s)
        BY <1>2, <1>5, <1>6, <2>1
    <3>2. y = <<Last(dst[i2].fn), s>>
        BY <1>1, <1>2, <2>1
    <3> HIDE DEF i2, j2
    <3> QED BY <1>0, <3>1, <3>2, TruncationIs
  <2>2. ASSUME NEW i2 \in Outer(dst), NEW j2 \in 1..Len(dst), NEW s \in SinkTokens,
               CutTo(dst, i2, j2, s), y = <<Last(dst[i2].fn), s>>
        PROVE  y \in truncation_sites(old)
    <3>1. PICK i \in Outer(src) : i2 = Past(i, p)
        BY <1>5
    <3>2. PICK j \in 1..Len(src) : j2 = Past(j, p)
        BY <1>7, <2>2 DEF CutTo
    <3>3. CutTo(src, i, j, s)
        BY <1>6, <2>2, <3>1, <3>2
    <3>4. y = <<Last(src[i].fn), s>>
        BY <1>1, <1>2, <2>2, <3>1
    <3> QED BY <1>0, <3>3, <3>4, TruncationIs
  <2>3. y \in truncation_sites(new) =>
            \E i \in Outer(dst), j \in 1..Len(dst), s \in SinkTokens :
                CutTo(dst, i, j, s) /\ y = <<Last(dst[i].fn), s>>
      BY <1>0, TruncationIs
  <2>4. y \in truncation_sites(old) =>
            \E i \in Outer(src), j \in 1..Len(src), s \in SinkTokens :
                CutTo(src, i, j, s) /\ y = <<Last(src[i].fn), s>>
      BY <1>0, TruncationIs
  <2> QED BY <2>1, <2>2, <2>3, <2>4
<1> QED BY <1>8

-----------------------------------------------------------------------------
(* The lines of a file in order.                                           *)

Ordered(L) ==
    /\ IsFiniteSet(L)
    /\ \A l \in L : l[1] \in Nat
    /\ \A l, m \in L : l[1] = m[1] => l = m

LEMMA NumbersAre ==
    ASSUME NEW tree, NEW file, Ordered(Lines(tree, file))
    PROVE  /\ Len(Source(tree, file)) \in Nat
           /\ IsSource(Source(tree, file))
           /\ \A l \in Lines(tree, file) :
                  /\ LineNumber(tree, file, l) \in 1..Len(Source(tree, file))
                  /\ Source(tree, file)[LineNumber(tree, file, l)] = l[2]
           /\ \A l, m \in Lines(tree, file) :
                  l[1] < m[1] <=> LineNumber(tree, file, l) < LineNumber(tree, file, m)
           /\ \A i \in 1..Len(Source(tree, file)) :
                  \E l \in Lines(tree, file) : LineNumber(tree, file, l) = i
<1> DEFINE L == Lines(tree, file)
           n == Cardinality(L)
           N(l) == LineNumber(tree, file, l)
           Upto(l) == {m \in L : m[1] <= l[1]}
           text(i) == (CHOOSE l \in L : N(l) = i)[2]
           src == Source(tree, file)
<1>1. IsFiniteSet(L) /\ n \in Nat /\ \A l \in L : l[1] \in Nat
    BY FS_CardinalityType DEF Ordered
<1>2. \A l, m \in L : l[1] = m[1] => l = m
    BY DEF Ordered
<1>3. \A l : N(l) = Cardinality(Upto(l))
    BY DEF LineNumber
<1>4. src = [i \in 1..n |-> text(i)]
    BY DEF Source
<1> HIDE DEF L, N
<1>5. ASSUME NEW l \in L
      PROVE  /\ IsFiniteSet(Upto(l)) /\ Cardinality(Upto(l)) \in 1..n
             /\ l \in Upto(l)
  <2>1. Upto(l) \in SUBSET L /\ l \in Upto(l)
      BY <1>1
  <2>2. IsFiniteSet(Upto(l)) /\ Cardinality(Upto(l)) <= n
      BY <1>1, <2>1, FS_Subset
  <2>3. Cardinality(Upto(l)) \in Nat /\ Cardinality(Upto(l)) # 0
      BY <2>1, <2>2, FS_CardinalityType, FS_EmptySet
  <2> QED BY <1>1, <2>1, <2>2, <2>3
<1>6. ASSUME NEW l \in L, NEW m \in L, l[1] < m[1]
      PROVE  N(l) < N(m)
  <2>1. Upto(l) \in SUBSET Upto(m) /\ m \notin Upto(l) /\ m \in Upto(m)
      BY <1>1, <1>6
  <2>2. Cardinality(Upto(l)) <= Cardinality(Upto(m)) /\ Cardinality(Upto(l)) # Cardinality(Upto(m))
    <3> HIDE DEF Upto
    <3> QED BY <1>5, <2>1, FS_Subset
  <2> HIDE DEF Upto
  <2> QED BY <1>3, <1>5, <2>2
<1>7. \A l \in L : N(l) \in 1..n
    BY <1>3, <1>5
<1>8. \A l, m \in L : N(l) = N(m) => l = m
  <2> SUFFICES ASSUME NEW l \in L, NEW m \in L, N(l) = N(m) PROVE l = m
      OBVIOUS
  <2>1. ~(l[1] < m[1]) /\ ~(m[1] < l[1])
      BY <1>6, <1>7
  <2> QED BY <1>1, <1>2, <2>1
<1>9. \A l, m \in L : l[1] < m[1] <=> N(l) < N(m)
  <2> SUFFICES ASSUME NEW l \in L, NEW m \in L, N(l) < N(m), ~(l[1] < m[1]) PROVE FALSE
      BY <1>6
  <2>1. l = m \/ m[1] < l[1]
      BY <1>1, <1>2
  <2> QED BY <1>6, <1>7, <2>1
<1>10. \A i \in 1..n : \E l \in L : N(l) = i
  <2> DEFINE f == [l \in L |-> N(l)]
  <2>1. f \in Injection(L, 1..n)
      BY <1>7, <1>8 DEF Injection, IsInjective
  <2>2. IsFiniteSet(1..n) /\ Cardinality(1..n) = n
      BY <1>1, FS_Interval
  <2>3. f \in Surjection(L, 1..n)
    <3> HIDE DEF f
    <3> QED BY <2>1, <2>2, FS_Injection
  <2> QED BY <2>3 DEF Surjection
<1>11. \A l \in L : text(N(l)) = l[2]
  <2> SUFFICES ASSUME NEW l \in L PROVE text(N(l)) = l[2]
      OBVIOUS
  <2>1. \A m \in L : N(m) = N(l) <=> m = l
      BY <1>8
  <2>2. (CHOOSE m \in L : N(m) = N(l)) = l
      BY <2>1
  <2> QED BY <2>2
<1>12. src \in Seq({text(i) : i \in 1..n}) /\ Len(src) = n
  <2> HIDE DEF text, n
  <2>1. src \in Seq({text(i) : i \in 1..n})
      BY <1>1, <1>4
  <2>2. Len(src) = n
      BY <1>1, <1>4, <2>1
  <2> QED BY <2>1, <2>2
<1>13. \A l \in L : src[N(l)] = l[2]
  <2> HIDE DEF text, n, src
  <2> QED BY <1>4, <1>7, <1>11
<1>14. IsSource(src) /\ Len(src) \in Nat
  <2> HIDE DEF text, n, src
  <2> QED BY <1>1, <1>12 DEF IsSource
<1> QED BY <1>7, <1>9, <1>10, <1>12, <1>13, <1>14 DEF N, L

Neutral(line) == line[2].fn = <<>> /\ line[2].delta = 0 /\ line[2].tok = {}

LEMMA SourceInserted ==
    ASSUME NEW old, NEW new, NEW file, NEW x, Ordered(Lines(new, file)), Neutral(x),
           x \notin Lines(old, file), Lines(new, file) = Lines(old, file) \cup {x}
    PROVE  LET p == LineNumber(new, file, x)
           IN /\ Inserted(Source(old, file), Source(new, file), p)
              /\ \A l \in Lines(old, file) : LineNumber(new, file, l) = Past(LineNumber(old, file, l), p)
<1> DEFINE K == Lines(old, file)
           L == Lines(new, file)
           src == Source(old, file)
           dst == Source(new, file)
           p == LineNumber(new, file, x)
           M(l) == LineNumber(old, file, l)
           N(l) == LineNumber(new, file, l)
<1>1. Ordered(K) /\ K \subseteq L
    BY FS_Subset DEF Ordered
<1>2. x \in L /\ \A l \in K : l[1] # x[1] /\ l[1] \in Nat /\ x[1] \in Nat
    BY DEF Ordered
<1>3. /\ Len(src) \in Nat
      /\ \A l \in K : M(l) \in 1..Len(src) /\ src[M(l)] = l[2]
      /\ \A i \in 1..Len(src) : \E l \in K : M(l) = i
    BY <1>1, NumbersAre
<1>4. /\ Len(dst) \in Nat
      /\ \A l \in L : N(l) \in 1..Len(dst) /\ dst[N(l)] = l[2]
      /\ \A l, m \in L : l[1] < m[1] <=> N(l) < N(m)
    BY NumbersAre
<1>5. Len(dst) = Len(src) + 1
  <2>1. Len(dst) = Cardinality(L) /\ Len(src) = Cardinality(K)
    <3>1. IsFiniteSet(L) /\ IsFiniteSet(K)
        BY <1>1 DEF Ordered
    <3>2. Cardinality(L) \in Nat /\ Cardinality(K) \in Nat
        BY <3>1, FS_CardinalityType
    <3>3. DOMAIN dst = 1..Cardinality(L) /\ DOMAIN src = 1..Cardinality(K)
        BY DEF Source
    <3>4. DOMAIN dst = 1..Len(dst) /\ DOMAIN src = 1..Len(src)
        BY <1>1, NumbersAre, SourceIs
    <3> HIDE DEF L, K, src, dst
    <3> QED BY <1>3, <1>4, <3>2, <3>3, <3>4
  <2>2. IsFiniteSet(K)
      BY <1>1 DEF Ordered
  <2> QED BY <2>1, <2>2, FS_AddElement
<1>6. ASSUME NEW l \in K
      PROVE  N(l) = M(l) + (IF x[1] < l[1] THEN 1 ELSE 0)
  <2> DEFINE Old == {m \in K : m[1] <= l[1]}
             New == {m \in L : m[1] <= l[1]}
  <2>1. M(l) = Cardinality(Old) /\ N(l) = Cardinality(New)
      BY DEF LineNumber
  <2>2. IsFiniteSet(Old) /\ x \notin Old
      BY <1>1, FS_Subset DEF Ordered
  <2>3. New = IF x[1] < l[1] THEN Old \cup {x} ELSE Old
      BY <1>2
  <2>4. Cardinality(Old) \in Nat
      BY <2>2, FS_CardinalityType
  <2> HIDE DEF Old, New
  <2>5. x[1] < l[1] => Cardinality(New) = Cardinality(Old) + 1
      BY <2>2, <2>3, FS_AddElement
  <2>6. ~(x[1] < l[1]) => Cardinality(New) = Cardinality(Old) + 0
      BY <2>3, <2>4
  <2> QED BY <2>1, <2>5, <2>6
<1> HIDE DEF K, L, src, dst, M, N
<1>7. p = N(x)
    BY DEF N
<1> HIDE DEF p
<1>8. ASSUME NEW l \in K
      PROVE  N(l) = Past(M(l), p)
  <2>1. l[1] # x[1] /\ l[1] \in Nat /\ x[1] \in Nat /\ l \in L /\ x \in L
      BY <1>1, <1>2
  <2>2. M(l) \in Nat /\ N(l) \in Nat /\ p \in Nat
      BY <1>3, <1>4, <1>7, <2>1
  <2>3. CASE x[1] < l[1]
    <3>1. p < N(l) /\ N(l) = M(l) + 1
        BY <1>4, <1>6, <1>7, <2>1, <2>3
    <3> QED BY <2>2, <3>1 DEF Past
  <2>4. CASE l[1] < x[1]
    <3>1. N(l) < p /\ ~(x[1] < l[1])
        BY <1>4, <1>7, <2>1, <2>4
    <3>2. N(l) = M(l) + 0
        BY <1>6, <3>1
    <3> QED BY <2>2, <3>1, <3>2 DEF Past
  <2> QED BY <2>1, <2>3, <2>4
<1>9. \A i \in 1..Len(src) : dst[Past(i, p)] = src[i]
  <2> SUFFICES ASSUME NEW i \in 1..Len(src) PROVE dst[Past(i, p)] = src[i]
      OBVIOUS
  <2>1. PICK l \in K : M(l) = i
      BY <1>3
  <2>2. l \in L /\ N(l) = Past(i, p)
      BY <1>1, <1>8, <2>1
  <2> QED BY <1>3, <1>4, <2>1, <2>2
<1>10. p \in 1..Len(dst) /\ dst[p] = x[2]
    BY <1>2, <1>4, <1>7
<1>11. Inserted(src, dst, p)
    BY <1>5, <1>9, <1>10 DEF Inserted, Neutral
<1> QED BY <1>8, <1>11 DEF p, N, M, K, src, dst

LEMMA CodeIs ==
    ASSUME NEW tree, NEW file, Ordered(Lines(tree, file)), \A l \in Lines(tree, file) : l[2].delta \in Int
    PROVE  IsCode(Source(tree, file))
<1>1. IsSource(Source(tree, file)) /\ DOMAIN Source(tree, file) = 1..Len(Source(tree, file))
    BY NumbersAre, SourceIs
<1>2. ASSUME NEW i \in 1..Len(Source(tree, file))
      PROVE  Source(tree, file)[i].delta \in Int
  <2>1. PICK l \in Lines(tree, file) : LineNumber(tree, file, l) = i
      BY NumbersAre
  <2>2. Source(tree, file)[i] = l[2]
      BY <2>1, NumbersAre
  <2> QED BY <2>2
<1> QED BY <1>1, <1>2 DEF IsCode

(* The sites of a file move with the lines they are on.                    *)
Moved(v, p) == <<v[1], v[2], v[3], Past(v[4], p)>>

LEMMA SitesAre ==
    ASSUME NEW tree, NEW file, NEW tokens, NEW v
    PROVE  v \in Sites(tree, file, tokens) <=>
               \E i \in DOMAIN Source(tree, file) : \E t \in Source(tree, file)[i].tok \cap tokens :
                   v = <<file, surface_for_line(Source(tree, file), i), t, i>>
BY DEF Sites

LEMMA SitesPast ==
    ASSUME NEW old, NEW new, NEW file, NEW tokens,
           NEW src, src = Source(old, file), IsCode(src), NEW dst, dst = Source(new, file), IsCode(dst),
           NEW p, Inserted(src, dst, p)
    PROVE  /\ Sites(new, file, tokens) = {Moved(v, p) : v \in Sites(old, file, tokens)}
           /\ \A v, w \in Sites(old, file, tokens) : Moved(v, p) = Moved(w, p) => v = w
           /\ \A v \in Sites(old, file, tokens) : v[1] = file
<1>0. Len(src) \in Nat /\ Len(dst) = Len(src) + 1 /\ p \in 1..(Len(src) + 1)
      /\ DOMAIN src = 1..Len(src) /\ DOMAIN dst = 1..Len(dst)
    BY SourceIs DEF IsCode, Inserted
<1>1. \A i \in 1..Len(src) : Past(i, p) \in 1..Len(dst)
    BY <1>0, PastIs
<1>2. \A i, j \in 1..Len(src) : Past(i, p) = Past(j, p) <=> i = j
    BY <1>0, PastIs
<1>3. \A k \in 1..Len(dst) : k = p \/ \E i \in 1..Len(src) : k = Past(i, p)
    BY <1>0, PastIs
<1>4. \A i \in 1..Len(src) : dst[Past(i, p)] = src[i] /\ surface_for_line(dst, Past(i, p)) = surface_for_line(src, i)
    BY SurfacePast DEF Inserted
<1>5. dst[p].tok = {}
    BY DEF Inserted
<1> DEFINE S == Sites(old, file, tokens)
           T == Sites(new, file, tokens)
<1>6. \A v : v \in S <=> \E i \in 1..Len(src) : \E t \in src[i].tok \cap tokens :
          v = <<file, surface_for_line(src, i), t, i>>
    BY <1>0, SitesAre
<1>7. \A v : v \in T <=> \E i \in 1..Len(dst) : \E t \in dst[i].tok \cap tokens :
          v = <<file, surface_for_line(dst, i), t, i>>
    BY <1>0, SitesAre
<1> HIDE DEF S, T
<1>8. ASSUME NEW v \in S PROVE Moved(v, p) \in T
  <2>0. PICK i \in 1..Len(src) : \E t \in src[i].tok \cap tokens : v = <<file, surface_for_line(src, i), t, i>>
      BY <1>6
  <2>1. PICK t \in src[i].tok \cap tokens : v = <<file, surface_for_line(src, i), t, i>>
      BY <2>0
  <2>2. Moved(v, p) = <<file, surface_for_line(src, i), t, Past(i, p)>>
      BY <2>1 DEF Moved
  <2>3. Past(i, p) \in 1..Len(dst) /\ dst[Past(i, p)] = src[i]
        /\ surface_for_line(dst, Past(i, p)) = surface_for_line(src, i)
      BY <1>1, <1>4
  <2>4. t \in dst[Past(i, p)].tok \cap tokens
      BY <2>3
  <2> QED BY <1>7, <2>2, <2>3, <2>4
<1>9. ASSUME NEW w \in T PROVE \E v \in S : w = Moved(v, p)
  <2>0. PICK k \in 1..Len(dst) : \E t \in dst[k].tok \cap tokens : w = <<file, surface_for_line(dst, k), t, k>>
      BY <1>7
  <2>1. PICK t \in dst[k].tok \cap tokens : w = <<file, surface_for_line(dst, k), t, k>>
      BY <2>0
  <2>2. PICK i \in 1..Len(src) : k = Past(i, p)
      BY <1>3, <1>5, <2>1
  <2>3. t \in src[i].tok \cap tokens /\ surface_for_line(dst, k) = surface_for_line(src, i)
      BY <1>4, <2>1, <2>2
  <2> DEFINE v == <<file, surface_for_line(src, i), t, i>>
  <2>4. v \in S
      BY <1>6, <2>3
  <2>5. Moved(v, p) = w
      BY <2>1, <2>2, <2>3 DEF Moved
  <2> QED BY <2>4, <2>5
<1>10. \A v \in S : v = <<file, v[2], v[3], v[4]>> /\ v[1] = file /\ v[4] \in 1..Len(src)
    BY <1>6
<1>11. ASSUME NEW v \in S, NEW w \in S, Moved(v, p) = Moved(w, p) PROVE v = w
  <2>1. v[2] = w[2] /\ v[3] = w[3] /\ Past(v[4], p) = Past(w[4], p)
      BY <1>11 DEF Moved
  <2>2. v[4] = w[4]
      BY <1>2, <1>10, <2>1
  <2> QED BY <1>10, <2>1, <2>2
<1>12. T = {Moved(v, p) : v \in S}
    BY <1>8, <1>9
<1> QED BY <1>10, <1>11, <1>12 DEF S, T

LEMMA SameCount ==
    ASSUME NEW S, NEW T, IsFiniteSet(S), NEW f \in [S -> T],
           \A x, y \in S : f[x] = f[y] => x = y, \A y \in T : \E x \in S : f[x] = y
    PROVE  IsFiniteSet(T) /\ Cardinality(T) = Cardinality(S)
<1>1. f \in Bijection(S, T)
    BY DEF Bijection, Injection, Surjection, IsInjective
<1>2. ExistsBijection(S, T)
    BY <1>1 DEF ExistsBijection
<1> QED BY <1>2, FS_Bijection

(* A file with the same lines has the same source.                         *)
OfLines(L) ==
    [i \in 1..Cardinality(L) |-> (CHOOSE l \in L : Cardinality({x \in L : x[1] <= l[1]}) = i)[2]]

LEMMA SameSource ==
    ASSUME NEW old, NEW new, NEW file, Lines(new, file) = Lines(old, file)
    PROVE  Source(new, file) = Source(old, file)
<1>1. Source(new, file) = OfLines(Lines(new, file)) /\ Source(old, file) = OfLines(Lines(old, file))
    BY DEF Source, LineNumber, OfLines
<1> QED BY <1>1

(* What the monotone gate counts does not change when a line that says     *)
(* nothing is put in.                                                      *)
LEMMA ViolationsPast ==
    ASSUME NEW old, NEW new, NEW file \in MonotoneFiles, IsFiniteSet(source_violations(old)),
           \A f \in MonotoneFiles \ {file} : Lines(new, f) = Lines(old, f),
           NEW src, src = Source(old, file), IsCode(src), NEW dst, dst = Source(new, file), IsCode(dst),
           NEW p, Inserted(src, dst, p)
    PROVE  /\ \A key : InBucket(source_violations(new), key) = InBucket(source_violations(old), key)
           /\ {canonical_key(v) : v \in source_violations(new)} = {canonical_key(v) : v \in source_violations(old)}
<1> DEFINE V == source_violations(old)
           W == source_violations(new)
           to(v) == IF v[1] = file THEN Moved(v, p) ELSE v
<1>1. ASSUME NEW f \in MonotoneFiles \ {file}
      PROVE  Sites(new, f, CursorTokens) = Sites(old, f, CursorTokens)
  <2>1. Source(new, f) = Source(old, f)
      BY SameSource
  <2> QED BY <2>1 DEF Sites
<1>2. /\ Sites(new, file, CursorTokens) = {Moved(v, p) : v \in Sites(old, file, CursorTokens)}
      /\ \A v, w \in Sites(old, file, CursorTokens) : Moved(v, p) = Moved(w, p) => v = w
  <2>1. \A tokens : /\ Sites(new, file, tokens) = {Moved(v, p) : v \in Sites(old, file, tokens)}
                     /\ \A v, w \in Sites(old, file, tokens) : Moved(v, p) = Moved(w, p) => v = w
    <3> TAKE tokens
    <3>1. /\ Sites(new, file, tokens) = {Moved(v, p) : v \in Sites(old, file, tokens)}
          /\ \A v, w \in Sites(old, file, tokens) : Moved(v, p) = Moved(w, p) => v = w
          /\ \A v \in Sites(old, file, tokens) : v[1] = file
        BY SitesPast
    <3> QED BY <3>1
  <2> QED BY <2>1
<1>3. ASSUME NEW tree, NEW f, NEW v \in Sites(tree, f, CursorTokens)
      PROVE  v[1] = f
    BY SitesAre
<1>4. \A v : v \in V <=> \E f \in MonotoneFiles : v \in Sites(old, f, CursorTokens)
    BY DEF source_violations
<1>5. \A v : v \in W <=> \E f \in MonotoneFiles : v \in Sites(new, f, CursorTokens)
    BY DEF source_violations
<1>6. \A v : Moved(v, p)[1] = v[1]
    BY DEF Moved
<1>7. \A v : canonical_key(Moved(v, p)) = canonical_key(v)
    BY DEF Moved, canonical_key
<1> HIDE DEF V, W
<1>8. \A v \in V : to(v) \in W /\ canonical_key(to(v)) = canonical_key(v)
  <2> SUFFICES ASSUME NEW v \in V PROVE to(v) \in W /\ canonical_key(to(v)) = canonical_key(v)
      OBVIOUS
  <2>1. PICK f \in MonotoneFiles : v \in Sites(old, f, CursorTokens)
      BY <1>4
  <2>2. v[1] = f
      BY <1>3, <2>1
  <2>3. CASE f = file
    <3>1. Moved(v, p) \in Sites(new, file, CursorTokens)
        BY <1>2, <2>1, <2>3
    <3>2. Moved(v, p) \in W
        BY <1>5, <3>1
    <3> QED BY <1>7, <2>2, <2>3, <3>2
  <2>4. CASE f # file
    <3>1. v \in Sites(new, f, CursorTokens)
        BY <1>1, <2>1, <2>4
    <3>2. v \in W
        BY <1>5, <3>1
    <3> QED BY <2>2, <2>4, <3>2
  <2> QED BY <2>3, <2>4
<1>9. \A w \in W : \E v \in V : to(v) = w
  <2> SUFFICES ASSUME NEW w \in W PROVE \E v \in V : to(v) = w
      OBVIOUS
  <2>1. PICK f \in MonotoneFiles : w \in Sites(new, f, CursorTokens)
      BY <1>5
  <2>2. CASE f = file
    <3>1. PICK v \in Sites(old, file, CursorTokens) : w = Moved(v, p)
        BY <1>2, <2>1, <2>2
    <3>2. v \in V /\ v[1] = file
        BY <1>3, <1>4, <3>1
    <3> QED BY <3>1, <3>2
  <2>3. CASE f # file
    <3>1. w \in Sites(old, f, CursorTokens)
        BY <1>1, <2>1, <2>3
    <3>2. w \in V /\ w[1] = f
        BY <1>3, <1>4, <3>1
    <3> QED BY <2>3, <3>2
  <2> QED BY <2>2, <2>3
<1>10. \A v, w \in V : to(v) = to(w) => v = w
  <2> SUFFICES ASSUME NEW v \in V, NEW w \in V, to(v) = to(w) PROVE v = w
      OBVIOUS
  <2>1. v[1] = w[1]
      BY <1>6
  <2>2. CASE v[1] = file
    <3>1. v \in Sites(old, file, CursorTokens) /\ w \in Sites(old, file, CursorTokens)
        BY <1>3, <1>4, <2>1, <2>2
    <3>2. Moved(v, p) = Moved(w, p)
        BY <2>1, <2>2
    <3> QED BY <1>2, <3>1, <3>2
  <2>3. CASE v[1] # file
      BY <2>1, <2>3
  <2> QED BY <2>2, <2>3
<1> HIDE DEF to
<1>11. ASSUME NEW key
       PROVE  InBucket(W, key) = InBucket(V, key)
  <2> DEFINE S == {v \in V : canonical_key(v) = key}
             T == {v \in W : canonical_key(v) = key}
             g == [v \in S |-> to(v)]
  <2>1. IsFiniteSet(S)
    <3>1. IsFiniteSet(V) /\ S \in SUBSET V
        BY DEF V
    <3> QED BY <3>1, FS_Subset
  <2>2. \A v \in S : to(v) \in T
      BY <1>8
  <2>3. \A w \in T : \E v \in S : to(v) = w
      BY <1>8, <1>9
  <2>4. \A v, w \in S : to(v) = to(w) => v = w
      BY <1>10
  <2> HIDE DEF S, T
  <2>5. g \in [S -> T] /\ (\A x, y \in S : g[x] = g[y] => x = y) /\ (\A y \in T : \E x \in S : g[x] = y)
      BY <2>2, <2>3, <2>4
  <2> HIDE DEF g
  <2>6. Cardinality(T) = Cardinality(S)
      BY <2>1, <2>5, SameCount
  <2> QED BY <2>6 DEF InBucket, S, T
<1>12. {canonical_key(v) : v \in W} = {canonical_key(v) : v \in V}
    BY <1>8, <1>9
<1> QED BY <1>11, <1>12 DEF V, W

-----------------------------------------------------------------------------
(* What the gates find in two trees one of which has such a line more.     *)

LEMMA FilesAre ==
    ASSUME NEW tree, NEW file
    PROVE  file \in Files(tree) <=> Lines(tree, file) # {}
BY DEF Files, Lines

PutIn(old, new, file, x) ==
    /\ x \notin Lines(old, file)
    /\ Lines(new, file) = Lines(old, file) \cup {x}
    /\ \A f : f # file => Lines(new, f) = Lines(old, f)

(* Lines of Lua, each at a position of its own.                            *)
IsLua(L) == Ordered(L) /\ \A l \in L : l[2].delta \in Int

LEMMA SourcesApart ==
    ASSUME NEW old, NEW new, NEW file, NEW x, PutIn(old, new, file, x), Neutral(x), IsLua(Lines(new, file))
    PROVE  /\ IsCode(Source(old, file)) /\ IsCode(Source(new, file))
           /\ Inserted(Source(old, file), Source(new, file), LineNumber(new, file, x))
<1>1. Lines(old, file) \subseteq Lines(new, file)
    BY DEF PutIn
<1>2. IsLua(Lines(old, file))
  <2>1. IsFiniteSet(Lines(old, file))
      BY <1>1, FS_Subset DEF IsLua, Ordered
  <2> QED BY <1>1, <2>1 DEF IsLua, Ordered
<1>3. IsCode(Source(old, file)) /\ IsCode(Source(new, file))
    BY <1>2, CodeIs DEF IsLua
<1>4. Inserted(Source(old, file), Source(new, file), LineNumber(new, file, x))
    BY SourceInserted DEF IsLua, PutIn
<1> QED BY <1>3, <1>4

LEMMA TruncationSame ==
    ASSUME NEW old, NEW new, NEW x, PutIn(old, new, TruncationFile, x), Neutral(x),
           IsLua(Lines(new, TruncationFile))
    PROVE  truncation_sites(new) = truncation_sites(old)
BY SourcesApart, TruncationPast

LEMMA MonotoneSame ==
    ASSUME NEW old, NEW new, NEW file \in MonotoneFiles, NEW x, PutIn(old, new, file, x), Neutral(x),
           IsLua(Lines(new, file)), IsFiniteSet(source_violations(old))
    PROVE  /\ \A key : InBucket(source_violations(new), key) = InBucket(source_violations(old), key)
           /\ {canonical_key(v) : v \in source_violations(new)} = {canonical_key(v) : v \in source_violations(old)}
<1> DEFINE src == Source(old, file)
           dst == Source(new, file)
           p == LineNumber(new, file, x)
<1>1. IsCode(src) /\ IsCode(dst) /\ Inserted(src, dst, p)
    BY SourcesApart
<1>2. \A f \in MonotoneFiles \ {file} : Lines(new, f) = Lines(old, f)
    BY DEF PutIn
<1> QED BY <1>1, <1>2, ViolationsPast

LEMMA MilestoneSame ==
    ASSUME NEW old, NEW new, NEW file, NEW x, PutIn(old, new, file, x), Neutral(x),
           IsLua(Lines(new, file)), NEW m
    PROVE  milestone_messages(old, m) = {} <=> milestone_messages(new, m) = {}
<1>1. CASE m[1] # file
  <2>1. Lines(new, m[1]) = Lines(old, m[1])
      BY <1>1 DEF PutIn
  <2>2. m[1] \in Files(new) <=> m[1] \in Files(old)
      BY <2>1, FilesAre
  <2>3. Source(new, m[1]) = Source(old, m[1])
      BY <2>1, SameSource
  <2> QED BY <2>2, <2>3 DEF milestone_messages
<1>2. CASE m[1] = file
  <2> DEFINE src == Source(old, file)
             dst == Source(new, file)
             p == LineNumber(new, file, x)
  <2>1. IsCode(src) /\ IsCode(dst) /\ Inserted(src, dst, p)
      BY SourcesApart
  <2>2. file \in Files(new)
      BY FilesAre DEF PutIn
  <2>3. ASSUME file \in Files(old)
        PROVE  milestone_messages(new, m) = milestone_messages(old, m)
      BY <1>2, <2>1, <2>2, <2>3, MilestonePast
  <2>4. ASSUME file \notin Files(old)
        PROVE  milestone_messages(old, m) # {} /\ milestone_messages(new, m) # {}
    <3>1. milestone_messages(old, m) # {}
        BY <1>2, <2>4 DEF milestone_messages
    <3>2. Lines(old, file) = {}
        BY <2>4, FilesAre
    <3>3. Len(src) = 0
        BY <3>2, FS_EmptySet DEF Source
    <3> HIDE DEF src, dst, p
    <3>4. Heads(dst) = {}
      <4>1. Heads(src) = {}
          BY <3>3 DEF Heads
      <4>2. Heads(dst) = {Past(i, p) : i \in Heads(src)}
          BY <2>1, HeadsPast
      <4> QED BY <4>1, <4>2
    <3>5. Named(dst, m[2]) = {}
        BY <3>4 DEF Named
    <3>6. milestone_messages(new, m) = {"stale function"}
        BY <1>2, <2>1, <2>2, <3>5, MilestoneIs DEF IsCode, dst
    <3> QED BY <3>1, <3>6
  <2> QED BY <2>3, <2>4
<1> QED BY <1>1, <1>2

(* The lines of the only function of a source, up to its end.              *)
LEMMA OneFunction ==
    ASSUME NEW src, IsCode(src), NEW i \in 1..Len(src), src[i].fn # <<>>, src[i].delta = 1,
           \A k \in (1..Len(src)) \ {i} : src[k].fn = <<>>,
           NEW j \in i..Len(src), \A k \in (i + 1)..(j - 1) : src[k].delta = 0
    PROVE  j <= block_end(src, i) /\ surface_for_line(src, j) = src[i].fn
<1> DEFINE A == Depths(src, i)
           Bad == {e \in i..(j - 1) : A[e] # 1}
<1>0. Len(src) \in Nat /\ i \in Nat /\ j \in Nat /\ j <= Len(src)
    BY SourceIs DEF IsCode
<1>1. \A e \in i..Len(src) : A[e] = IF e = i THEN src[i].delta ELSE A[e - 1] + src[e].delta
    BY DepthsAre
<1> HIDE DEF A
<1>2. ASSUME Bad # {} PROVE FALSE
  <2>1. PICK e \in Bad : \A a \in Bad : e <= a
    <3>1. Bad \in SUBSET Nat
        BY <1>0
    <3> HIDE DEF Bad
    <3> QED BY <1>2, <3>1, LeastNat
  <2>2. e # i /\ e \in i..(j - 1) /\ A[e] # 1 /\ e \in i..Len(src)
      BY <1>0, <1>1, <2>1
  <2>3. e - 1 \in i..(j - 1) /\ e - 1 \notin Bad
      BY <1>0, <2>1, <2>2
  <2>4. A[e - 1] = 1 /\ src[e].delta = 0
      BY <1>0, <2>2, <2>3
  <2> QED BY <1>1, <2>2, <2>4
<1>3. \A e \in i..(j - 1) : A[e] > 0
    BY <1>2
<1>4. j <= block_end(src, i)
    BY <1>3, EndIs DEF A
<1>5. Heads(src) = {i}
    BY DEF Heads
<1>6. i \in FunctionsAround(src, j)
    BY <1>0, <1>4, <1>5 DEF FunctionsAround
<1>7. FunctionsAround(src, j) \subseteq {i}
    BY <1>5 DEF FunctionsAround
<1>8. surface_for_line(src, j) = src[i].fn
    BY <1>0, <1>6, <1>7, SurfaceIs DEF IsCode
<1> QED BY <1>4, <1>8

=============================================================================
