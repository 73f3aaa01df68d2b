------------------------------ MODULE RepoProofs ------------------------------
(***************************************************************************)
(* What the gates promise of the history of dev, for any number of         *)
(* branches, edits and landings.  A gate judges a branch against its merge *)
(* base and never against the commit that is merged; the theorems say what *)
(* a landing that was judged this way does to dev.                         *)
(***************************************************************************)
EXTENDS RepoHistory, ScopeProofs

IsBranch(x) == x = [open |-> x.open, base |-> x.base, head |-> x.head, att |-> x.att]

(* Dev has a commit, and every branch has one of dev's as its base.        *)
HistoryInv ==
    /\ \E S : log \in Seq(S)
    /\ Len(log) # 0
    /\ branch = [b \in Branches |-> branch[b]]
    /\ \A b \in Branches : IsBranch(branch[b]) /\ branch[b].base \in 1..Len(log)

(* A landing of the branch b, whose base is commit i, with the case c that *)
(* CI put to the gate: the gate was silent, and the merge is the new tip.  *)
Landed(b, i, c) ==
    /\ b \in Branches /\ branch[b].open
    /\ i \in 1..Len(log) /\ i = branch[b].base
    /\ c.base = log[i].tree /\ c.baseId = i /\ c.target = Dev /\ c.head = branch[b].head
    /\ c.log = SubSeq(log, 1, i)
    /\ Messages(gate, c) = {}
    /\ Dev' = Merge(c.base, c.head, Dev)
    /\ Len(log') = Len(log) + 1
    /\ \A k \in 1..Len(log) : log'[k] = log[k]
    /\ log'[Len(log')].raced <=> i # Len(log)
    /\ (gate = "coverage" /\ c.artifact = "none") \/ (gate = "trace" /\ ~c.rooted)
           => log'[Len(log')].deferred
    /\ c.rooted => gate = "trace"
    /\ log'[Len(log')].added \subseteq Files(Dev')
    /\ gate' = gate

(* What a step can make of the tree of a branch.                           *)
NewHead(b, old, new) ==
    \/ \E facts \in Edits(gate) : new = Toggle(old, facts)
    \/ /\ gate \in {"replay", "anomaly"}
       /\ \E file \in Manifests :
            \/ \E m : new = {f \in old : f[1] # file} \cup {<<Allowlist, file>>} \cup {<<file, m>>}
            \/ new = {f \in old : f[1] # file} \ {<<Allowlist, file>>}
    \/ gate = "lifecycle" /\ new = normalize_artifact_sha256(old)
    \/ gate = "coverage" /\ new = write_current_uncovered(old)
    \/ new = Merge(log[branch[b].base].tree, Dev, old)

-----------------------------------------------------------------------------
(* The machine.                                                            *)

LEMMA LogShape ==
    ASSUME NEW l, \E S : l \in Seq(S), NEW x
    PROVE  /\ Len(l) \in Nat
           /\ \E S : Append(l, x) \in Seq(S)
           /\ Len(Append(l, x)) = Len(l) + 1
           /\ Append(l, x)[Len(l) + 1] = x
           /\ \A i \in 1..Len(l) : Append(l, x)[i] = l[i]
<1>1. PICK S : l \in Seq(S)
    OBVIOUS
<1> DEFINE T == S \cup {x}
<1>2. l \in Seq(T) /\ x \in T
    BY <1>1
<1> HIDE DEF T
<1>3. Append(l, x) \in Seq(T)
    BY <1>2
<1> QED BY <1>2, <1>3

(* A gate that is not silent, or git failing, is not exit code 0.          *)
LEMMA ExitZero ==
    ASSUME NEW messages, NEW git, exit_code(messages, git) = 0
    PROVE  messages = {}
BY DEF exit_code

LEMMA OthersKeepLog ==
    ASSUME NEW b \in Branches,
           \/ Open(b) \/ Edit(b) \/ SignManifest(b) \/ DropManifest(b) \/ FixArtifactHash(b)
           \/ Attest(b) \/ WriteBaseline(b) \/ Update(b)
    PROVE  UNCHANGED <<gate, log>>
<1>1. CASE \E tree : Rewrite(b, tree)
    BY <1>1 DEF Rewrite
<1>2. Edit(b) \/ SignManifest(b) \/ DropManifest(b) \/ WriteBaseline(b) => \E tree : Rewrite(b, tree)
    BY DEF Edit, SignManifest, DropManifest, WriteBaseline
<1> QED BY <1>1, <1>2 DEF Open, FixArtifactHash, Attest, Update

LEMMA LandingIs ==
    ASSUME HistoryInv, [Next]_vars, Landing
    PROVE  \E b, i, c : Landed(b, i, c)
<1>1. PICK S : log \in Seq(S)
    BY DEF HistoryInv
<1>2. Len(log) \in Nat /\ Len(log) # 0
    BY <1>1 DEF HistoryInv
<1>3. log' # log
    BY <1>2 DEF Landing
<1>4. PICK b \in Branches : Land(b)
    BY <1>3, OthersKeepLog DEF Next, vars
<1> DEFINE i == branch[b].base
<1>5. i \in 1..Len(log)
    BY DEF HistoryInv
<1>6. PICK env \in Checkouts, git \in {"ok", "toolchain", "infrastructure"},
              artifact \in IF gate = "coverage" THEN {"none", "missing", "written"} ELSE {"none"},
              rooted \in IF gate = "trace" THEN BOOLEAN ELSE {FALSE},
              numbered \in IF gate = "replay" THEN BOOLEAN ELSE {TRUE} :
          /\ exit_code(Messages(gate, Case(b, Resolved(gate, env), artifact, rooted)), git) = 0
          /\ LET tree == Merge(log[branch[b].base].tree, branch[b].head, Dev)
             IN log' = Append(log,
                  [pr |-> PrOf(b), numbered |-> numbered, added |-> Files(tree) \ Files(Dev),
                   raced |-> branch[b].base # Len(log),
                   deferred |-> (gate = "coverage" /\ artifact = "none") \/ (gate = "trace" /\ ~rooted),
                   tree |-> tree])
    BY <1>4, Zenon DEF Land
<1> DEFINE c == Case(b, Resolved(gate, env), artifact, rooted)
           tree == Merge(log[i].tree, branch[b].head, Dev)
           e == [pr |-> PrOf(b), numbered |-> numbered, added |-> Files(tree) \ Files(Dev),
                 raced |-> i # Len(log),
                 deferred |-> (gate = "coverage" /\ artifact = "none") \/ (gate = "trace" /\ ~rooted),
                 tree |-> tree]
<1>7. Messages(gate, c) = {}
    BY <1>6, ExitZero
<1>8. /\ c.base = log[i].tree /\ c.baseId = i /\ c.target = Dev /\ c.head = branch[b].head
      /\ c.log = SubSeq(log, 1, i) /\ c.artifact = artifact /\ c.rooted = rooted
    BY DEF Case
<1>9. log' = Append(log, e)
    BY <1>6
<1>10. e.tree = tree /\ (e.raced <=> i # Len(log))
       /\ (e.deferred <=> (gate = "coverage" /\ artifact = "none") \/ (gate = "trace" /\ ~rooted))
    OBVIOUS
<1> HIDE DEF e, c, tree, i
<1>11. /\ Len(log') = Len(log) + 1
       /\ log'[Len(log')] = e
       /\ \A k \in 1..Len(log) : log'[k] = log[k]
    BY <1>1, <1>9, LogShape
<1>12. Dev' = Merge(c.base, c.head, Dev)
    BY <1>8, <1>10, <1>11 DEF Dev, tree
<1>13. gate' = gate
    BY <1>4 DEF Land
<1>14. c.rooted => gate = "trace"
    BY <1>8
<1>15. branch[b].open /\ i = branch[b].base
    BY <1>4 DEF Land, i
<1>16. e.added \subseteq Files(tree)
    BY DEF e
<1>17. log'[Len(log')].added \subseteq Files(Dev')
    BY <1>10, <1>11, <1>16 DEF Dev
<1>18. Landed(b, i, c)
    BY <1>15, <1>17, <1>5, <1>7, <1>8, <1>10, <1>11, <1>12, <1>13, <1>14 DEF Landed
<1> QED BY <1>18

(* Any other step leaves dev and the gate alone.                           *)
LEMMA OtherSteps ==
    ASSUME HistoryInv, [Next]_vars, ~Landing
    PROVE  UNCHANGED <<gate, log>>
<1>1. PICK S : log \in Seq(S)
    BY DEF HistoryInv
<1>2. ASSUME NEW b \in Branches, Land(b)
      PROVE  FALSE
    <2>1. PICK e : log' = Append(log, e)
        BY <1>2, Zenon DEF Land
    <2>2. Len(log') = Len(log) + 1 /\ Len(log) \in Nat
        BY <1>1, <2>1, LogShape
    <2> QED BY <2>2 DEF Landing
<1>3. CASE UNCHANGED vars
    BY <1>3 DEF vars
<1>4. CASE Next
    BY <1>2, <1>4, OthersKeepLog DEF Next
<1> QED BY <1>3, <1>4

(* A branch with a new tree, new attestations, or a new base and tree.     *)
LEMMA BranchWith ==
    ASSUME NEW r, IsBranch(r), NEW y, NEW i, NEW x,
           \/ y = [r EXCEPT !.head = x]
           \/ y = [r EXCEPT !.att = x]
           \/ y = [r EXCEPT !.base = i, !.head = x]
    PROVE  IsBranch(y) /\ y.base \in {i, r.base}
<1>1. CASE y = [r EXCEPT !.head = x]
    BY <1>1 DEF IsBranch
<1>2. CASE y = [r EXCEPT !.att = x]
    BY <1>2 DEF IsBranch
<1>3. CASE y = [r EXCEPT !.base = i, !.head = x]
    BY <1>3 DEF IsBranch
<1> QED BY <1>1, <1>2, <1>3

(* An action on b gives it a record with a base on dev's new log.          *)
LEMMA BranchStep ==
    ASSUME HistoryInv, NEW b \in Branches,
           \E x : /\ branch' = [branch EXCEPT ![b] = x]
                  /\ IsBranch(x) /\ x.base \in 1..Len(log),
           \/ log' = log
           \/ \E e : log' = Append(log, e)
    PROVE  HistoryInv'
<1>1. PICK S : log \in Seq(S)
    BY DEF HistoryInv
<1>2. Len(log) \in Nat /\ Len(log) # 0
    BY <1>1 DEF HistoryInv
<1>3. (\E T : log' \in Seq(T)) /\ Len(log') \in Nat /\ Len(log') >= Len(log)
    <2>1. CASE log' = log
        BY <1>1, <1>2, <2>1
    <2>2. ASSUME NEW e, log' = Append(log, e)
          PROVE  (\E T : log' \in Seq(T)) /\ Len(log') = Len(log) + 1
        BY <1>1, <2>2, LogShape
    <2> QED BY <1>2, <2>1, <2>2
<1>4. PICK x : /\ branch' = [branch EXCEPT ![b] = x]
               /\ IsBranch(x) /\ x.base \in 1..Len(log)
    OBVIOUS
<1>5. /\ branch' = [a \in Branches |-> branch'[a]]
      /\ branch'[b] = x
      /\ \A a \in Branches : a # b => branch'[a] = branch[a]
    BY <1>4 DEF HistoryInv
<1>6. \A a \in Branches : IsBranch(branch'[a]) /\ branch'[a].base \in 1..Len(log)
    BY <1>4, <1>5 DEF HistoryInv
<1>7. \A a \in Branches : branch'[a].base \in 1..Len(log')
    BY <1>2, <1>3, <1>6
<1> QED BY <1>2, <1>3, <1>5, <1>6, <1>7 DEF HistoryInv

LEMMA HistoryInit ==
    Init => HistoryInv
<1> SUFFICES ASSUME Init
             PROVE  HistoryInv
    OBVIOUS
<1>1. PICK e : log = <<e>>
    BY DEF Init
<1>2. log \in Seq({e}) /\ Len(log) = 1
    BY <1>1
<1>3. branch = [b \in Branches |-> Closed] /\ IsBranch(Closed) /\ Closed.base = 1
    BY DEF Init, Closed, IsBranch
<1> QED BY <1>2, <1>3 DEF HistoryInv

LEMMA HistoryStep ==
    HistoryInv /\ [Next]_vars => HistoryInv'
<1> SUFFICES ASSUME HistoryInv, [Next]_vars
             PROVE  HistoryInv'
    OBVIOUS
<1>1. PICK S : log \in Seq(S)
    BY DEF HistoryInv
<1>2. Len(log) \in Nat /\ Len(log) # 0 /\ Len(log) \in 1..Len(log) /\ 1 \in 1..Len(log)
    BY <1>1 DEF HistoryInv
<1>3. CASE UNCHANGED vars
    BY <1>3 DEF vars, HistoryInv
<1>4. ASSUME NEW b \in Branches
      PROVE  IsBranch(branch[b]) /\ branch[b].base \in 1..Len(log)
    BY DEF HistoryInv
<1>5. ASSUME NEW b \in Branches, Open(b)
      PROVE  HistoryInv'
    <2> DEFINE x == [open |-> TRUE, base |-> Len(log), head |-> Dev, att |-> {}]
    <2>1. branch' = [branch EXCEPT ![b] = x] /\ log' = log
        BY <1>5 DEF Open
    <2>2. IsBranch(x) /\ x.base = Len(log)
        BY DEF IsBranch
    <2> HIDE DEF x
    <2> QED BY <1>2, <2>1, <2>2, BranchStep
<1>6. ASSUME NEW b \in Branches, NEW tree, Rewrite(b, tree)
      PROVE  HistoryInv'
    <2>1. branch' = [branch EXCEPT ![b] = [branch[b] EXCEPT !.head = tree]] /\ log' = log
        BY <1>6 DEF Rewrite
    <2> DEFINE x == [branch[b] EXCEPT !.head = tree]
    <2>2. IsBranch(x) /\ x.base = branch[b].base
        BY <1>4, BranchWith
    <2>3. branch' = [branch EXCEPT ![b] = x]
        BY <2>1
    <2> HIDE DEF x
    <2> QED BY <1>4, <2>1, <2>2, <2>3, BranchStep
<1>7. ASSUME NEW b \in Branches, FixArtifactHash(b)
      PROVE  HistoryInv'
    <2>1. PICK h : branch' = [branch EXCEPT ![b].head = h] /\ log' = log
        BY <1>7, Zenon DEF FixArtifactHash
    <2> DEFINE x == [branch[b] EXCEPT !.head = h]
    <2>2. branch' = [branch EXCEPT ![b] = x]
        BY <2>1
    <2>3. IsBranch(x) /\ x.base = branch[b].base
        BY <1>4, BranchWith
    <2> HIDE DEF x
    <2> QED BY <1>4, <2>1, <2>2, <2>3, BranchStep
<1>8. ASSUME NEW b \in Branches, Attest(b)
      PROVE  HistoryInv'
    <2>1. PICK a : branch' = [branch EXCEPT ![b].att = a] /\ log' = log
        BY <1>8, Zenon DEF Attest
    <2> DEFINE x == [branch[b] EXCEPT !.att = a]
    <2>2. branch' = [branch EXCEPT ![b] = x]
        BY <2>1
    <2>3. IsBranch(x) /\ x.base = branch[b].base
        BY <1>4, BranchWith
    <2> HIDE DEF x
    <2> QED BY <1>4, <2>1, <2>2, <2>3, BranchStep
<1>9. ASSUME NEW b \in Branches, Update(b)
      PROVE  HistoryInv'
    <2> DEFINE x == [branch[b] EXCEPT !.base = Len(log),
                                      !.head = Merge(log[branch[b].base].tree, Dev, branch[b].head)]
    <2>1. branch' = [branch EXCEPT ![b] = x] /\ log' = log
        BY <1>9 DEF Update
    <2>2. IsBranch(x) /\ x.base \in {Len(log), branch[b].base}
        BY <1>4, BranchWith
    <2> HIDE DEF x
    <2> QED BY <1>2, <1>4, <2>1, <2>2, BranchStep
<1>10. ASSUME NEW b \in Branches, Land(b)
       PROVE  HistoryInv'
    <2>1. branch' = [branch EXCEPT ![b] = Closed] /\ \E e : log' = Append(log, e)
        BY <1>10, Zenon DEF Land
    <2>2. IsBranch(Closed) /\ Closed.base = 1
        BY DEF IsBranch, Closed
    <2> QED BY <1>2, <2>1, <2>2, BranchStep
<1>11. ASSUME NEW b \in Branches, Edit(b) \/ SignManifest(b) \/ DropManifest(b) \/ WriteBaseline(b)
       PROVE  \E tree : Rewrite(b, tree)
    BY <1>11 DEF Edit, SignManifest, DropManifest, WriteBaseline
<1> QED BY <1>3, <1>5, <1>6, <1>7, <1>8, <1>9, <1>10, <1>11 DEF Next

(* A branch is left as it is, opened at the tip of dev, closed, or has its *)
(* tree rewritten.                                                         *)
LEMMA HeadStep ==
    ASSUME HistoryInv, [Next]_vars, NEW b \in Branches
    PROVE  \/ branch'[b] = branch[b]
           \/ branch'[b].head = Dev
           \/ branch'[b].head = {} /\ ~branch'[b].open
           \/ /\ branch[b].open
              /\ \/ branch'[b].head = branch[b].head
                 \/ NewHead(b, branch[b].head, branch'[b].head)
<1> DEFINE old == branch[b].head
           new == branch'[b].head
<1>1. CASE UNCHANGED vars
    BY <1>1 DEF vars
<1>2. branch = [a \in Branches |-> branch[a]]
    BY DEF HistoryInv
<1>3. IsBranch(branch[b])
    BY DEF HistoryInv
<1>4. ASSUME NEW a \in Branches, NEW x, branch' = [branch EXCEPT ![a] = x]
      PROVE  branch'[a] = x /\ (a # b => branch'[b] = branch[b])
    BY <1>2, <1>4
<1>5. ASSUME NEW a \in Branches, NEW x, a = b, branch' = [branch EXCEPT ![a].head = x]
      PROVE  new = x
    <2>1. branch' = [branch EXCEPT ![b] = [branch[b] EXCEPT !.head = x]]
        BY <1>5
    <2> DEFINE y == [branch[b] EXCEPT !.head = x]
    <2>2. branch'[b] = y
        BY <1>2, <2>1
    <2>3. y.head = x
        BY <1>3 DEF IsBranch
    <2> QED BY <2>2, <2>3
<1>6. ASSUME NEW a \in Branches, NEW x, a # b, branch' = [branch EXCEPT ![a].head = x] \/ branch' = [branch EXCEPT ![a].att = x]
      PROVE  branch'[b] = branch[b]
    BY <1>2, <1>6
<1>7. ASSUME NEW a \in Branches, Open(a)
      PROVE  branch'[b] = branch[b] \/ new = Dev
    <2> DEFINE x == [open |-> TRUE, base |-> Len(log), head |-> Dev, att |-> {}]
    <2>1. branch' = [branch EXCEPT ![a] = x]
        BY <1>7 DEF Open
    <2>2. x.head = Dev
        OBVIOUS
    <2> HIDE DEF x
    <2> QED BY <1>4, <2>1, <2>2
<1>8. ASSUME NEW a \in Branches, NEW tree, Rewrite(a, tree)
      PROVE  branch'[b] = branch[b] \/ (a = b /\ branch[b].open /\ new = tree)
    BY <1>5, <1>6, <1>8 DEF Rewrite
<1>9. ASSUME NEW a \in Branches, Edit(a)
      PROVE  branch'[b] = branch[b] \/ (branch[b].open /\ NewHead(b, old, new))
    BY <1>8, <1>9 DEF Edit, NewHead
<1>10. ASSUME NEW a \in Branches, SignManifest(a)
       PROVE  branch'[b] = branch[b] \/ (branch[b].open /\ NewHead(b, old, new))
    <2> DEFINE file == ManifestOf(PrOf(a))
               tree == {f \in branch[a].head : f[1] # file} \cup {<<Allowlist, file>>}
    <2>1. PICK m : Rewrite(a, tree \cup {<<file, m>>})
        BY <1>10 DEF SignManifest
    <2>2. gate \in {"replay", "anomaly"}
        BY <1>10 DEF SignManifest
    <2>3. file \in Manifests
        BY DEF ManifestOf, Manifests
    <2> QED BY <1>8, <2>1, <2>2, <2>3 DEF NewHead
<1>11. ASSUME NEW a \in Branches, DropManifest(a)
       PROVE  branch'[b] = branch[b] \/ (branch[b].open /\ NewHead(b, old, new))
    BY <1>8, <1>11 DEF DropManifest, NewHead
<1>12. ASSUME NEW a \in Branches, WriteBaseline(a)
       PROVE  branch'[b] = branch[b] \/ (branch[b].open /\ NewHead(b, old, new))
    BY <1>8, <1>12 DEF WriteBaseline, NewHead
<1>13. ASSUME NEW a \in Branches, FixArtifactHash(a)
       PROVE  branch'[b] = branch[b] \/ (branch[b].open /\ NewHead(b, old, new))
    BY <1>5, <1>6, <1>13 DEF FixArtifactHash, NewHead
<1>14. ASSUME NEW a \in Branches, Attest(a)
       PROVE  branch'[b] = branch[b] \/ (branch[b].open /\ new = old)
    <2>1. PICK x : branch' = [branch EXCEPT ![a].att = x] /\ branch[a].open
        BY <1>14, Zenon DEF Attest
    <2> DEFINE y == [branch[a] EXCEPT !.att = x]
    <2>2. branch' = [branch EXCEPT ![a] = y]
        BY <2>1
    <2>3. a = b => y.head = old
        BY <1>3 DEF IsBranch
    <2> HIDE DEF y
    <2> QED BY <1>4, <2>1, <2>2, <2>3
<1>15. ASSUME NEW a \in Branches, Update(a)
       PROVE  branch'[b] = branch[b] \/ (branch[b].open /\ NewHead(b, old, new))
    <2> DEFINE h == Merge(log[branch[a].base].tree, Dev, branch[a].head)
               y == [branch[a] EXCEPT !.base = Len(log), !.head = h]
    <2>1. branch' = [branch EXCEPT ![a] = y] /\ branch[a].open
        BY <1>15 DEF Update
    <2> HIDE DEF h
    <2>2. a = b => y.head = h
        BY <1>3 DEF IsBranch
    <2> HIDE DEF y
    <2>3. CASE a = b
        <3>1. new = h
            BY <1>4, <2>1, <2>2, <2>3
        <3> QED BY <2>1, <2>3, <3>1 DEF NewHead, h
    <2> QED BY <1>4, <2>1, <2>3
<1>16. ASSUME NEW a \in Branches, Land(a)
       PROVE  branch'[b] = branch[b] \/ (new = {} /\ ~branch'[b].open)
    <2>1. branch' = [branch EXCEPT ![a] = Closed]
        BY <1>16 DEF Land
    <2>2. Closed.head = {} /\ ~Closed.open
        BY DEF Closed
    <2> QED BY <1>4, <2>1, <2>2
<1>17. CASE Next
    BY <1>7, <1>9, <1>10, <1>11, <1>12, <1>13, <1>14, <1>15, <1>16, <1>17 DEF Next
<1> QED BY <1>1, <1>17

-----------------------------------------------------------------------------
(* Trees are finite sets of lines.                                         *)

TreesInv ==
    /\ gate \in AllGates
    /\ \A i \in 1..Len(log) : IsTree(log[i].tree)
    /\ \A b \in Branches : IsTree(branch[b].head)

LEMMA TreeParts ==
    ASSUME NEW A, NEW B, IsTree(A)
    PROVE  /\ B \subseteq A => IsTree(B)
           /\ IsTree(B) => IsTree(A \cup B)
<1>1. B \subseteq A => IsFiniteSet(B)
    BY FS_Subset DEF IsTree
<1>2. IsFiniteSet(B) => IsFiniteSet(A \cup B)
    BY FS_Union DEF IsTree
<1> QED BY <1>1, <1>2 DEF IsTree

LEMMA LineTree ==
    ASSUME NEW file, NEW line
    PROVE  IsTree({<<file, line>>})
<1>1. IsFiniteSet({<<file, line>>})
    BY FS_Singleton
<1>2. \A fact \in {<<file, line>>} : fact = <<fact[1], fact[2]>>
    OBVIOUS
<1> QED BY <1>1, <1>2 DEF IsTree

LEMMA MergeTree ==
    ASSUME NEW base, NEW ours, NEW theirs, IsTree(ours), IsTree(theirs)
    PROVE  IsTree(Merge(base, ours, theirs))
<1>1. IsTree(theirs \ (base \ ours)) /\ IsTree(ours \ base)
    BY TreeParts
<1> QED BY <1>1, TreeParts DEF Merge

LEMMA LinesFinite ==
    ASSUME NEW tree, NEW file, IsTree(tree)
    PROVE  IsFiniteSet(Lines(tree, file))
<1> DEFINE facts == {f \in tree : f[1] = file}
           second == [f \in facts |-> f[2]]
<1>1. IsFiniteSet(facts)
    BY FS_Subset DEF IsTree
<1>2. second \in Surjection(facts, {second[f] : f \in facts})
    BY DEF Surjection
<1>3. IsFiniteSet({second[f] : f \in facts})
    BY <1>1, <1>2, FS_Surjection
<1>4. {second[f] : f \in facts} = Lines(tree, file)
    BY DEF Lines
<1> QED BY <1>3, <1>4

LEMMA UncoveredFinite ==
    ASSUME NEW tree, IsTree(tree)
    PROVE  IsFiniteSet(uncovered_from_artifact(canonical_coverage_artifact(tree)))
<1> DEFINE lines == candidate_lines(tree)
           Entry(l) == [line |-> LineNumber(tree, CoverageSource, l), hash |-> l[2],
                        covered |-> l \in merge_covered_sets(tree)]
           entry == [l \in lines |-> Entry(l)]
           artifact == {Entry(l) : l \in lines}
           missed == {x \in artifact : ~x.covered}
           key == [e \in missed |-> <<e.line, e.hash>>]
<1>1. IsFiniteSet(lines)
    BY LinesFinite, FS_Subset DEF candidate_lines
<1>2. entry \in Surjection(lines, artifact)
    <2> HIDE DEF Entry, lines
    <2> QED BY DEF Surjection
<1>3. IsFiniteSet(missed)
    <2>1. IsFiniteSet(artifact)
        BY <1>1, <1>2, FS_Surjection
    <2> QED BY <2>1, FS_Subset
<1>4. key \in Surjection(missed, {key[e] : e \in missed})
    <2> HIDE DEF missed
    <2> QED BY DEF Surjection
<1>5. IsFiniteSet({key[e] : e \in missed})
    BY <1>3, <1>4, FS_Surjection
<1>6. artifact = canonical_coverage_artifact(tree)
    BY DEF canonical_coverage_artifact
<1>7. uncovered_from_artifact(artifact) = {key[e] : e \in missed}
    <2> HIDE DEF artifact
    <2> QED BY DEF uncovered_from_artifact
<1> QED BY <1>5, <1>6, <1>7

LEMMA TreesInit ==
    Init => TreesInv
<1> SUFFICES ASSUME Init
             PROVE  TreesInv
    OBVIOUS
<1>1. gate \in AllGates
    BY GatesAssumption DEF Init
<1>2. IsTree(StartTree(gate))
    BY <1>1, ScenarioAssumption
<1>3. IsTree({})
    BY FS_EmptySet DEF IsTree
<1>4. \A b \in Branches : branch[b].head = {}
    BY DEF Init, Closed
<1>5. Len(log) = 1 /\ log[1].tree = StartTree(gate)
    BY DEF Init
<1>6. \A i \in 1..Len(log) : IsTree(log[i].tree)
    <2>1. \A i \in 1..Len(log) : i = 1
        BY <1>5
    <2> QED BY <1>2, <1>5, <2>1
<1> QED BY <1>1, <1>3, <1>4, <1>6 DEF TreesInv

LEMMA NewHeadTree ==
    ASSUME NEW b, NEW old, NEW new, gate \in AllGates, IsTree(old), IsTree(Dev), NewHead(b, old, new)
    PROVE  IsTree(new)
<1>1. ASSUME NEW facts \in Edits(gate), new = Toggle(old, facts)
      PROVE  IsTree(new)
    <2>1. IsTree(facts)
        BY ScenarioAssumption
    <2>2. IsTree(old \ facts) /\ IsTree(facts \ old)
        BY <2>1, TreeParts
    <2> QED BY <1>1, <2>2, TreeParts DEF Toggle
<1>2. ASSUME NEW file, NEW m,
             \/ new = {f \in old : f[1] # file} \cup {<<Allowlist, file>>} \cup {<<file, m>>}
             \/ new = {f \in old : f[1] # file} \ {<<Allowlist, file>>}
      PROVE  IsTree(new)
    <2> DEFINE rest == {f \in old : f[1] # file}
    <2>1. IsTree(rest) /\ IsTree(rest \ {<<Allowlist, file>>})
        BY TreeParts
    <2>2. IsTree(rest \cup {<<Allowlist, file>>})
        BY <2>1, LineTree, TreeParts
    <2>3. IsTree(rest \cup {<<Allowlist, file>>} \cup {<<file, m>>})
        BY <2>2, LineTree, TreeParts
    <2> QED BY <1>2, <2>1, <2>3
<1>3. ASSUME new = normalize_artifact_sha256(old)
      PROVE  IsTree(new)
    <2>1. IsTree({f \in old : f[1] # "sha"})
        BY TreeParts
    <2> QED BY <1>3, <2>1, LineTree, TreeParts DEF normalize_artifact_sha256
<1>4. ASSUME new = write_current_uncovered(old)
      PROVE  IsTree(new)
    <2> DEFINE uncovered == uncovered_from_artifact(canonical_coverage_artifact(old))
               line == [u \in uncovered |-> <<CoverageAllowlist, u>>]
               written == {<<CoverageAllowlist, u>> : u \in uncovered}
    <2>1. IsFiniteSet(uncovered)
        BY UncoveredFinite
    <2>2. line \in Surjection(uncovered, written)
        <3> HIDE DEF uncovered
        <3> QED BY DEF Surjection
    <2>3. IsFiniteSet(written)
        BY <2>1, <2>2, FS_Surjection
    <2>4. IsTree(written)
        BY <2>3 DEF IsTree
    <2> DEFINE rest == {f \in old : f[1] # CoverageAllowlist}
    <2>5. IsTree(rest)
        BY TreeParts
    <2>6. IsTree(rest \cup {<<CoverageAllowlist, Header>>})
        BY <2>5, LineTree, TreeParts
    <2>7. IsTree(rest \cup {<<CoverageAllowlist, Header>>} \cup written)
        BY <2>4, <2>6, TreeParts
    <2> QED BY <1>4, <2>7 DEF write_current_uncovered
<1>5. ASSUME NEW base, new = Merge(base, Dev, old)
      PROVE  IsTree(new)
    BY <1>5, MergeTree
<1> QED BY <1>1, <1>2, <1>3, <1>4, <1>5 DEF NewHead

LEMMA TreesStep ==
    HistoryInv /\ TreesInv /\ [Next]_vars => TreesInv'
<1> SUFFICES ASSUME HistoryInv, TreesInv, [Next]_vars
             PROVE  TreesInv'
    OBVIOUS
<1>1. PICK S : log \in Seq(S)
    BY DEF HistoryInv
<1>2. Len(log) \in Nat /\ Len(log) \in 1..Len(log)
    BY <1>1 DEF HistoryInv
<1>3. IsTree(Dev)
    BY <1>2 DEF Dev, TreesInv
<1>4. ASSUME NEW b \in Branches
      PROVE  IsTree(branch'[b].head)
    <2>1. IsTree(branch[b].head) /\ IsTree({})
        BY FS_EmptySet DEF TreesInv, IsTree
    <2>2. gate \in AllGates
        BY DEF TreesInv
    <2> QED BY <1>3, <2>1, <2>2, HeadStep, NewHeadTree
<1>5. CASE Landing
    <2>1. PICK b, i, c : Landed(b, i, c)
        BY <1>5, LandingIs
    <2>2. IsTree(c.head)
        BY <2>1 DEF Landed, TreesInv
    <2>3. IsTree(Dev')
        BY <1>3, <2>1, <2>2, MergeTree DEF Landed
    <2>4. \A k \in 1..Len(log') : k \in 1..Len(log) \/ k = Len(log')
        BY <1>2, <2>1 DEF Landed
    <2>5. \A k \in 1..Len(log') : IsTree(log'[k].tree)
        BY <2>1, <2>3, <2>4 DEF Landed, Dev, TreesInv
    <2> QED BY <1>4, <2>1, <2>5 DEF Landed, TreesInv
<1>6. CASE ~Landing
    BY <1>4, <1>6, OtherSteps DEF TreesInv
<1> QED BY <1>5, <1>6

-----------------------------------------------------------------------------
(* What passes against its base passes as the base.                        *)

(* The case d of a tree against itself, for a tree that passed as the      *)
(* branch of the case c.                                                   *)
Again(c, d) ==
    /\ d.head = c.head /\ d.base = c.head /\ d.target = c.head
    /\ d.resolved /\ d.att = {} /\ d.artifact = "written"
    /\ d.rooted <=> c.rooted

LEMMA SilentList ==
    ASSUME NEW c, NEW d, NEW file, Again(c, d)
    PROVE  base_messages(d, file) = {} /\ grown(d, file) = {}
<1>1. base_status(d, file) # "unresolved"
    BY DEF base_status, Again
<1> QED BY <1>1 DEF base_messages, grown, Again

LEMMA ShrinkAgain ==
    ASSUME NEW current, NEW c, NEW d, NEW file, Again(c, d), shrink_only(current, c, file) = {}
    PROVE  shrink_only(current, d, file) = {}
<1>1. base_messages(d, file) = {} /\ grown(d, file) = {}
    BY SilentList
<1> QED BY <1>1 DEF shrink_only, ratchet_messages, Again

LEMMA PreflightAgain ==
    ASSUME NEW c, NEW d, Again(c, d), preflight_messages(c) = {}
    PROVE  preflight_messages(d) = {}
<1>1. changed_paths(d.base, d.head) = {} /\ d.resolved
    BY DEF changed_paths, Again
<1>2. inventory_contract(c).messages = {} /\ tracked_attestation_messages(c) = {}
    BY DEF preflight_messages
<1>3. inventory_contract(d) = inventory_contract(c)
    BY DEF inventory_contract, Again
<1>4. tracked_attestation_messages(d) = {}
    BY <1>2 DEF tracked_attestation_messages, Again
<1>5. \A w : exposure_messages(d, w) = {}
    BY <1>1 DEF exposure_messages
<1>6. \A w, x : unlisted_caller_messages(d, w, x) = {}
    BY <1>1 DEF unlisted_caller_messages
<1>7. anomaly_activation_messages(d) = {}
    BY <1>1 DEF anomaly_activation_messages
<1> QED BY <1>1, <1>2, <1>3, <1>4, <1>5, <1>6, <1>7 DEF preflight_messages

LEMMA ReplayAgain ==
    ASSUME NEW c, NEW d, Again(c, d), replay_messages(c) = {}
    PROVE  replay_messages(d) = {}
<1> DEFINE Malformed(h) == UNION {manifest_messages(ManifestIn(h, f), f) : f \in Manifests \cap Files(h)}
           Unlisted(h) == {"unlisted manifest" : f \in (Manifests \cap Files(h)) \ Lines(h, Allowlist)}
           Reused(h) == {"reused identity" : f \in {x \in ValidManifests(h) : \E y \in ValidManifests(h) \ {x} :
                one_use_identity(ManifestIn(h, x)) = one_use_identity(ManifestIn(h, y))}}
           Growth(x) == IF x.resolved THEN Lines(x.head, Allowlist) \ Lines(x.base, Allowlist) ELSE {}
           Unbound(x) == UNION {growth_messages(f, x) : f \in Growth(x)}
           Attested(x) == UNION {attestation_messages(a, x) : a \in x.att}
           Parts(x) == admission_trace_messages(x) \cup (IF x.resolved THEN {} ELSE {ConfigurationFailure})
                        \cup Malformed(x.head) \cup Unlisted(x.head) \cup Reused(x.head)
                        \cup Unbound(x) \cup Attested(x)
<1>1. replay_messages(c) = Parts(c) /\ replay_messages(d) = Parts(d)
    BY Zenon DEF replay_messages
<1>2. admission_trace_messages(d) = admission_trace_messages(c)
    BY DEF admission_trace_messages, Again
<1>3. Growth(d) = {} /\ d.att = {} /\ d.resolved
    BY DEF Again
<1>4. Unbound(d) = {} /\ Attested(d) = {}
    <2> HIDE DEF Growth
    <2> QED BY <1>3
<1>5. d.head = c.head
    BY DEF Again
<1> HIDE DEF Malformed, Unlisted, Reused, Unbound, Attested
<1> QED BY <1>1, <1>2, <1>3, <1>4, <1>5

LEMMA DedupAgain ==
    ASSUME NEW c, NEW d, Again(c, d), dedup_messages(c) = {}
    PROVE  dedup_messages(d) = {}
<1> DEFINE list == load_allowlist(c.head, DedupAllowlist)
           current == duplicate_groups(c.head)
<1>1. base_messages(d, DedupAllowlist) = {}
    BY SilentList
<1>2. ratchet_messages(current, list, {}) = {}
    BY DEF dedup_messages, ratchet_messages
<1>3. \A e \in list : covered_by_base(e, list)
    BY DEF covered_by_base
<1>4. {e \in list : ~covered_by_base(e, load_allowlist(d.base, DedupAllowlist))} = {}
    BY <1>3 DEF Again
<1> QED BY <1>1, <1>2, <1>4 DEF dedup_messages, Again

(* Counts of listed entries are numbers.                                   *)
LEMMA CountIsNat ==
    ASSUME NEW tree, NEW file, IsTree(tree), NEW k
    PROVE  /\ InBucket(load_allowlist(tree, file), k) \in Nat
           /\ ContentCount(load_allowlist(tree, file), k) \in Nat
<1>1. IsFiniteSet(load_allowlist(tree, file))
    BY LinesFinite, FS_Subset DEF load_allowlist
<1>2. ASSUME NEW B, B \subseteq load_allowlist(tree, file)
      PROVE  Cardinality(B) \in Nat
    BY <1>1, <1>2, FS_Subset, FS_CardinalityType
<1> QED BY <1>2 DEF InBucket, ContentCount

LEMMA MonotoneAgain ==
    ASSUME NEW c, NEW d, Again(c, d), IsTree(c.head), monotone_messages(c) = {}
    PROVE  monotone_messages(d) = {}
<1> DEFINE list == load_allowlist(c.head, MonotoneAllowlist)
           current == source_violations(c.head)
           keys == {canonical_key(v) : v \in current \cup list}
<1>1. base_messages(d, MonotoneAllowlist) = {}
    BY SilentList
<1>2. PICK hasBase, base : monotone_ratchet(current, list, hasBase, base) = {}
    BY DEF monotone_messages
<1>3. \A k \in keys : ~(InBucket(current, k) > InBucket(list, k)) /\ ~(InBucket(list, k) > InBucket(current, k))
    BY <1>2 DEF monotone_ratchet
<1>4. \A k \in keys : ~(InBucket(list, k) > InBucket(list, k))
    BY CountIsNat
<1>5. \A h : monotone_ratchet(current, list, h, list) = {}
    BY <1>3, <1>4 DEF monotone_ratchet
<1>6. monotone_manifest_messages(c.head) = {} /\ responsibility_binding_messages(c.head) = {}
    BY DEF monotone_messages
<1> QED BY <1>1, <1>5, <1>6 DEF monotone_messages, Again

LEMMA CoverageAgain ==
    ASSUME NEW c, NEW d, Again(c, d), IsTree(c.head), coverage_messages(c) = {}, c.artifact # "none"
    PROVE  coverage_messages(d) = {}
<1>1. CASE RequiredFlag \notin Files(c.head)
    BY <1>1 DEF coverage_messages, Again
<1>2. CASE RequiredFlag \in Files(c.head)
    <2> DEFINE list == load_allowlist(c.head, CoverageAllowlist)
               uncovered == uncovered_from_artifact(canonical_coverage_artifact(c.head))
    <2>1. coverage_ratchet(uncovered, c) = {}
        BY <1>2 DEF coverage_messages
    <2>2. Exceeds(uncovered, list) = {}
        BY <2>1 DEF coverage_ratchet
    <2>3. Exceeds(list, list) = {}
        BY CountIsNat DEF Exceeds
    <2>4. coverage_ratchet(uncovered, d) = {}
        BY <2>2, <2>3 DEF coverage_ratchet, Again
    <2>5. coverage_base_status(d) # "unresolved"
        BY DEF coverage_base_status, base_status, Again
    <2> QED BY <2>4, <2>5 DEF coverage_messages, Again
<1> QED BY <1>1, <1>2

LEMMA PassesAsBase ==
    ASSUME NEW g \in AllGates, g # "lifecycle", NEW c, NEW d, Again(c, d), IsTree(c.head),
           g = "coverage" => c.artifact # "none",
           Messages(g, c) = {}
    PROVE  Messages(g, d) = {}
<1> USE DEF Messages
<1>1. d.head = c.head /\ d.base = c.head /\ d.target = c.head /\ d.resolved
    BY DEF Again
<1>2. CASE g \in {"cochange", "exposure"}
    BY <1>2, PreflightAgain
<1>3. CASE g = "anomaly"
    <2>1. preflight_messages(c) = {} /\ replay_messages(c) = {}
        BY <1>3
    <2> QED BY <1>3, <2>1, PreflightAgain, ReplayAgain
<1>4. CASE g \in {"replay", "trace"}
    BY <1>4, ReplayAgain
<1>5. CASE g = "cycle"
    BY <1>1, <1>5, ShrinkAgain DEF cycle_messages
<1>6. CASE g = "layering"
    BY <1>1, <1>6, ShrinkAgain DEF layering_messages, cross_package_messages
<1>7. CASE g = "forge"
    <2>1. forge_import_messages(c) = {} /\ Messages(g, d) = forge_import_messages(d)
        BY <1>7
    <2> QED BY <1>1, <2>1 DEF forge_import_messages, forge_imports_at_base
<1>8. CASE g = "integration"
    <2>1. integration_messages(c) = {} /\ Messages(g, d) = integration_messages(d)
        BY <1>8
    <2> HIDE DEF Messages
    <2> QED BY <1>1, <2>1 DEF integration_messages
<1>9. CASE g = "liveness"
    <2>1. producer_liveness_messages(c) = {} /\ Messages(g, d) = producer_liveness_messages(d)
        BY <1>9
    <2>2. \A k : contract_messages(k, d) = contract_messages(k, c)
        BY <1>1, Zenon DEF contract_messages
    <2>3. shrink_only(producer_debt(c.head), c, LivenessAllowlist) = {}
        BY <2>1 DEF producer_liveness_messages
    <2>4. shrink_only(producer_debt(d.head), d, LivenessAllowlist) = {}
        BY <1>1, <2>3, ShrinkAgain
    <2> HIDE DEF Messages
    <2> QED BY <1>1, <2>1, <2>2, <2>4 DEF producer_liveness_messages
<1>10. CASE g = "intake"
    <2>1. intake_messages(c) = {} /\ Messages(g, d) = intake_messages(d)
        BY <1>10
    <2> HIDE DEF Messages
    <2> QED BY <1>1, <2>1 DEF intake_messages
<1>11. CASE g = "dialogue"
    BY <1>1, <1>11, ShrinkAgain DEF dialogue_messages
<1>12. CASE g = "monotone"
    BY <1>12, MonotoneAgain
<1>13. CASE g = "truncation"
    BY <1>1, <1>13, ShrinkAgain DEF truncation_messages
<1>14. CASE g = "egress"
    <2>1. egress_messages(c) = {} /\ Messages(g, d) = egress_messages(d)
        BY <1>14
    <2> HIDE DEF Messages
    <2> QED BY <1>1, <2>1 DEF egress_messages
<1>15. CASE g = "handle"
    <2>1. handle_messages(c) = {} /\ Messages(g, d) = handle_messages(d)
        BY <1>15
    <2>2. base_messages(d, HandleInventory) = {} /\ grown(d, HandleInventory) = {}
        BY SilentList
    <2> HIDE DEF Messages
    <2> QED BY <1>1, <2>1, <2>2 DEF handle_messages, ratchet_messages
<1>16. CASE g = "lock"
    <2>1. lock_messages(c) = {} /\ Messages(g, d) = lock_messages(d)
        BY <1>16
    <2> HIDE DEF Messages
    <2> QED BY <1>1, <2>1 DEF lock_messages
<1>17. CASE g = "dedup"
    BY <1>17, DedupAgain
<1>18. CASE g = "login"
    BY <1>1, <1>18, ShrinkAgain DEF login_messages
<1>19. CASE g = "coverage"
    BY <1>19, CoverageAgain
<1>20. CASE g = "error"
    <2>1. error_class_messages(c) = {} /\ Messages(g, d) = error_class_messages(d)
        BY <1>20
    <2>2. base_messages(d, ErrorAllowlist) = {} /\ grown(d, ErrorAllowlist) = {}
        BY SilentList
    <2> QED BY <1>1, <2>1, <2>2 DEF error_class_messages, ratchet_messages
<1>21. CASE g = "liberror"
    BY <1>1, <1>21 DEF library_error_messages, target_library_sites
<1>22. CASE g = "suffix"
    BY <1>1, <1>22, ShrinkAgain DEF version_suffix_messages
<1>23. CASE g = "surface"
    BY <1>1, <1>23, ShrinkAgain DEF surface_messages
<1>24. CASE g = "saga"
    <2>1. saga_handler_messages(c) = {} /\ Messages(g, d) = saga_handler_messages(d)
        BY <1>24
    <2>2. base_messages(d, SagaAllowlist) = {} /\ grown(d, SagaAllowlist) = {}
        BY SilentList
    <2> DEFINE Saga(h) == {<<x>> : x \in {y \in DepartmentsOf(h) : is_saga_handler_source(h, y)}}
               All(h) == {<<x>> : x \in DepartmentsOf(h)}
               Listed(h) == load_allowlist(h, SagaAllowlist)
               Rest(h) ==
                   {"saga still listed" : x \in Saga(h) \cap Listed(h)}
                   \cup {"saga with own pipeline" : x \in {y \in Saga(h) : "pipeline" \in Lines(h, y[1])}}
                   \cup {"free-form not listed" : x \in (All(h) \ Saga(h)) \ Listed(h)}
                   \cup {"listed and missing" : x \in Listed(h) \ All(h)}
               Parts(k) == base_messages(k, SagaAllowlist) \cup Rest(k.head)
                           \cup {"allowlist grows" : x \in grown(k, SagaAllowlist)}
    <2> HIDE DEF Messages
    <2>3. \A x : x \in saga_handler_messages(c) <=> x \in Parts(c)
        BY Zenon DEF saga_handler_messages
    <2>4. \A x : x \in saga_handler_messages(d) <=> x \in Parts(d)
        BY Zenon DEF saga_handler_messages
    <2> HIDE DEF Rest
    <2> QED BY <1>1, <2>1, <2>2, <2>3, <2>4
<1>25. CASE g = "hidden"
    <2>1. hidden_state_messages(c) = {} /\ Messages(g, d) = hidden_state_messages(d)
        BY <1>25
    <2>2. base_messages(d, HiddenAllowlist) = {} /\ grown(d, HiddenAllowlist) = {}
        BY SilentList
    <2> QED BY <1>1, <2>1, <2>2 DEF hidden_state_messages
<1>26. CASE g = "split"
    BY <1>1, <1>26, ShrinkAgain DEF saga_split_messages
<1>27. CASE g = "tests"
    BY <1>1, <1>27 DEF test_messages
<1> QED BY <1>2, <1>3, <1>4, <1>5, <1>6, <1>7, <1>8, <1>9, <1>10, <1>11, <1>12, <1>13, <1>14, <1>15,
           <1>16, <1>17, <1>18, <1>19, <1>20, <1>21, <1>22, <1>23, <1>24, <1>25, <1>26, <1>27 DEF AllGates

(* A branch that lands up to date becomes dev as it was judged.            *)
LEMMA UpToDate ==
    ASSUME HistoryInv, NEW b, NEW i, NEW c, Landed(b, i, c), ~Raced'
    PROVE  ~Raced /\ i = Len(log) /\ c.base = Dev /\ Dev' = c.head
<1>1. PICK S : log \in Seq(S)
    BY DEF HistoryInv
<1>2. Len(log) \in Nat /\ Len(log') \in 1..Len(log') /\ \A k \in 1..Len(log) : k \in 1..Len(log')
    BY <1>1 DEF Landed
<1>3. ~log'[Len(log')].raced
    BY <1>2 DEF Raced
<1>4. i = Len(log) /\ c.base = Dev
    BY <1>3 DEF Landed, Dev
<1>5. ~Raced
    BY <1>2 DEF Raced, Landed
<1>6. Dev' = Merge(Dev, c.head, Dev)
    BY <1>4 DEF Landed
<1> HIDE DEF Dev
<1>7. Dev' = c.head
    BY <1>6 DEF Merge
<1> QED BY <1>4, <1>5, <1>7

LEMMA GreenStep ==
    HistoryInv /\ TreesInv /\ DevStaysGreen /\ [Next]_vars => DevStaysGreen'
<1> SUFFICES ASSUME HistoryInv, TreesInv, DevStaysGreen, [Next]_vars
             PROVE  DevStaysGreen'
    OBVIOUS
<1>1. CASE ~Landing
    <2>1. gate' = gate /\ log' = log
        BY <1>1, OtherSteps
    <2> QED BY <2>1 DEF DevStaysGreen, Raced, Deferred, DevCase, Dev
<1>2. CASE Landing
    <2>1. PICK b, i, c : Landed(b, i, c)
        BY <1>2, LandingIs
    <2>2. SUFFICES ASSUME ~Raced', ~Deferred', gate' # "lifecycle"
                   PROVE  Messages(gate', DevCase') = {}
        BY DEF DevStaysGreen
    <2>3. Dev' = c.head
        BY <2>1, <2>2, UpToDate
    <2>4. PICK S : log \in Seq(S)
        BY DEF HistoryInv
    <2>5. ~log'[Len(log')].deferred
        <3>1. Len(log') \in 1..Len(log')
            BY <2>1, <2>4 DEF Landed
        <3> QED BY <2>2, <3>1 DEF Deferred
    <2>6. gate' = gate /\ (gate = "coverage" => c.artifact # "none") /\ (gate = "trace" <=> c.rooted)
        BY <2>1, <2>5 DEF Landed
    <2>7. Again(c, DevCase')
        BY <2>3, <2>6 DEF Again, DevCase
    <2>8. IsTree(c.head) /\ gate \in AllGates /\ Messages(gate, c) = {}
        BY <2>1 DEF Landed, TreesInv
    <2> QED BY <2>2, <2>6, <2>7, <2>8, PassesAsBase
<1> QED BY <1>1, <1>2

(* DevStaysGreen, for any number of branches and landings: what a gate     *)
(* passes against the merge base it passes as the merge base, so that dev  *)
(* never fails its own gates while branches land up to date and nothing    *)
(* was put off (check_repo_runner.py and the gates it runs).               *)
THEOREM GatesStayGreen ==
    Spec => []DevStaysGreen
<1>1. Init => HistoryInv /\ TreesInv /\ DevStaysGreen
    <2>1. Init => Len(log) = 1
        BY DEF Init
    <2> QED BY <2>1, HistoryInit, TreesInit DEF DevStaysGreen
<1>2. HistoryInv /\ TreesInv /\ DevStaysGreen /\ [Next]_vars => (HistoryInv /\ TreesInv /\ DevStaysGreen)'
    BY HistoryStep, TreesStep, GreenStep
<1> QED BY <1>1, <1>2, PTL DEF Spec

-----------------------------------------------------------------------------
(* What a landing does to the lines of dev, raced or not.                  *)

(* A line that is new on dev is new on the branch, against its base.       *)
LEMMA NewLines ==
    ASSUME NEW base, NEW head, NEW dev, IsTree(base), IsTree(head), NEW file
    PROVE  Lines(Merge(base, head, dev), file) \ Lines(dev, file)
               \subseteq Lines(head, file) \ Lines(base, file)
<1> SUFFICES ASSUME NEW x \in Lines(Merge(base, head, dev), file) \ Lines(dev, file)
             PROVE  x \in Lines(head, file) \ Lines(base, file)
    OBVIOUS
<1>1. PICK f \in Merge(base, head, dev) : f[1] = file /\ f[2] = x
    BY DEF Lines
<1>2. f \notin dev
    BY <1>1 DEF Lines
<1>3. f \in head /\ f \notin base
    BY <1>2 DEF Merge
<1>4. f = <<file, x>>
    BY <1>1, <1>3 DEF IsTree
<1>5. ASSUME NEW y \in base, y[1] = file, y[2] = x
      PROVE  FALSE
    <2>1. y = <<file, x>>
        BY <1>5 DEF IsTree
    <2> QED BY <1>3, <1>4, <2>1
<1> QED BY <1>1, <1>3, <1>5 DEF Lines

(* The preflight refuses new lines of authority in code that the branch's  *)
(* own inventory does not watch.                                           *)
LEMMA NoNewAuthority ==
    ASSUME NEW c, preflight_messages(c) = {}, NEW file \in SemanticFiles,
           file \notin WatchedFiles(c.head)
    PROVE  (Lines(c.head, file) \ Lines(c.base, file)) \cap AuthorityTokens(c.head, file) = {}
<1> DEFINE inventory == inventory_contract(c)
           writers == WriterTokens(c.head)
<1>1. CASE Lines(c.base, file) = Lines(c.head, file)
    BY <1>1
<1>2. CASE Lines(c.base, file) # Lines(c.head, file)
    <2>1. inventory.messages = {}
        BY DEF preflight_messages
    <2>2. inventory.watched = WatchedFiles(c.head) /\ inventory.writers = writers /\ writers # {}
        BY <2>1 DEF inventory_contract
    <2>3. file \in Files(c.base) \cup Files(c.head)
        BY <1>2 DEF Lines, Files
    <2>4. file \in changed_paths(c.base, c.head) \ inventory.watched
        BY <1>2, <2>2, <2>3 DEF changed_paths
    <2> HIDE DEF inventory, writers
    <2>5. /\ exposure_messages(c, inventory.watched) = {}
          /\ unlisted_caller_messages(c, inventory.watched, inventory.writers) = {}
        BY <2>2 DEF preflight_messages, inventory
    <2>6. new_matches(AuthorityCall, c, file) = {} /\ new_matches(writers, c, file) = {}
        BY <2>2, <2>4, <2>5 DEF unlisted_caller_messages, production_semantic
    <2>7. file \in ExposedFiles => new_matches(GrantFactory, c, file) = {} /\ new_matches(OwnerSeal, c, file) = {}
        BY <2>4, <2>5 DEF exposure_messages
    <2> QED BY <2>6, <2>7 DEF new_matches, AuthorityTokens, writers
<1> QED BY <1>1, <1>2

(* The k-th commit of a history brought the line, as the inventory allows. *)
Brought(history, k, file, line) ==
    /\ line \in Lines(history[k].tree, file) \ Lines(history[k - 1].tree, file)
    /\ \/ file \in WatchedFiles(history[k].tree)
       \/ line \notin AuthorityTokens(history[k].tree, file)

LEMMA AuthorityStep ==
    HistoryInv /\ AuthorityArrivesWatched /\ [Next]_vars => AuthorityArrivesWatched'
<1> SUFFICES ASSUME HistoryInv, AuthorityArrivesWatched, [Next]_vars
             PROVE  AuthorityArrivesWatched'
    OBVIOUS
<1>1. CASE ~Landing
    BY <1>1, OtherSteps DEF AuthorityArrivesWatched, Dev, Raced
<1>2. CASE Landing
    <2>1. PICK b, i, c : Landed(b, i, c)
        BY <1>2, LandingIs
    <2>2. SUFFICES ASSUME gate = "exposure", ~Raced',
                          NEW j \in 1..Len(log'), NEW file \in SemanticFiles,
                          NEW line \in Lines(Dev', file) \ Lines(log'[j].tree, file)
                   PROVE  \E k \in (j + 1)..Len(log') : Brought(log', k, file, line)
        BY <2>1 DEF AuthorityArrivesWatched, Brought, Landed
    <2>3. ~Raced /\ c.base = Dev /\ Dev' = c.head
        BY <2>1, <2>2, UpToDate
    <2>4. PICK S : log \in Seq(S)
        BY DEF HistoryInv
    <2>5. /\ Len(log) \in Nat /\ Len(log) # 0 /\ Len(log') = Len(log) + 1
          /\ \A k \in 1..Len(log) : log'[k] = log[k]
        BY <2>1, <2>4 DEF Landed, HistoryInv
    <2>6. Dev = log'[Len(log)].tree /\ Dev' = log'[Len(log')].tree
        BY <2>5 DEF Dev
    <2>7. j \in 1..Len(log)
        BY <2>2, <2>5, <2>6
    <2>8. CASE line \in Lines(Dev, file)
        <3>1. line \in Lines(Dev, file) \ Lines(log[j].tree, file)
            BY <2>2, <2>5, <2>7, <2>8
        <3>2. PICK k \in (j + 1)..Len(log) : Brought(log, k, file, line)
            BY <2>2, <2>3, <2>7, <3>1 DEF AuthorityArrivesWatched, Brought
        <3>3. k \in (j + 1)..Len(log') /\ log'[k] = log[k] /\ log'[k - 1] = log[k - 1]
            BY <2>5, <2>7, <3>2
        <3>4. Brought(log', k, file, line)
            BY <3>2, <3>3 DEF Brought
        <3> QED BY <3>3, <3>4
    <2>9. CASE line \notin Lines(Dev, file)
        <3> DEFINE k == Len(log')
        <3>1. k \in (j + 1)..Len(log') /\ log'[k].tree = c.head /\ log'[k - 1].tree = c.base
            BY <2>3, <2>5, <2>6, <2>7
        <3>2. preflight_messages(c) = {}
            BY <2>1, <2>2 DEF Landed, Messages
        <3>3. line \in Lines(c.head, file) \ Lines(c.base, file)
            BY <2>2, <2>3, <2>9
        <3> HIDE DEF k
        <3>4. Brought(log', k, file, line)
            BY <3>1, <3>2, <3>3, NoNewAuthority DEF Brought
        <3> QED BY <3>1, <3>4
    <2> QED BY <2>8, <2>9
<1> QED BY <1>1, <1>2

(* AuthorityArrivesWatched: a line of authority that dev has and one of    *)
(* its earlier commits lacks came with a commit whose own inventory        *)
(* watched the file or did not count the line, while branches land up to   *)
(* date (check_repo_restart_preflight.py).                                 *)
THEOREM AuthorityArrives ==
    Spec => []AuthorityArrivesWatched
<1>1. Init => AuthorityArrivesWatched
    <2>1. Init => Len(log) = 1
        BY DEF Init
    <2>2. Len(log) = 1 => \A i \in 1..Len(log) : log[i].tree = Dev
        BY DEF Dev
    <2> QED BY <2>1, <2>2 DEF AuthorityArrivesWatched
<1>2. Init => HistoryInv /\ AuthorityArrivesWatched
    BY <1>1, HistoryInit
<1>3. HistoryInv /\ AuthorityArrivesWatched /\ [Next]_vars => (HistoryInv /\ AuthorityArrivesWatched)'
    BY HistoryStep, AuthorityStep
<1> QED BY <1>2, <1>3, PTL DEF Spec

LEMMA HistoryAlways ==
    Spec => [](HistoryInv /\ TreesInv)
<1>1. Init => HistoryInv /\ TreesInv
    BY HistoryInit, TreesInit
<1>2. HistoryInv /\ TreesInv /\ [Next]_vars => (HistoryInv /\ TreesInv)'
    BY HistoryStep, TreesStep
<1> QED BY <1>1, <1>2, PTL DEF Spec

-----------------------------------------------------------------------------
(* Co-change and the anomaly transport.                                    *)

(* GrantedCochange: a landing that changes a checker and what it checks    *)
(* matches, blob by blob, a sealed grant dev had before                    *)
(* (check_repo_restart_preflight.py, cochange_promotion_admitted).         *)
THEOREM CochangeIsGranted ==
    Spec => GrantedCochange
<1> DEFINE Delta == {cochange_delta_entry(Dev, Dev', p) :
                        p \in {x \in changed_paths(Dev, Dev') : checker_control(x) \/ production_semantic(x)}}
           Granted == (Landing /\ gate = "cochange" /\ ~Raced') =>
               ((/\ \E p \in changed_paths(Dev, Dev') : checker_control(p)
                 /\ \E p \in changed_paths(Dev, Dev') : production_semantic(p))
                => \E g \in Lines(Dev, "grant.json") : g.sealed /\ g.entries = Delta)
<1>1. ASSUME HistoryInv, TreesInv, [Next]_vars
      PROVE  Granted
    <2> SUFFICES ASSUME Landing, gate = "cochange", ~Raced',
                        NEW p \in changed_paths(Dev, Dev'), checker_control(p),
                        NEW q \in changed_paths(Dev, Dev'), production_semantic(q)
                 PROVE  \E g \in Lines(Dev, "grant.json") : g.sealed /\ g.entries = Delta
        OBVIOUS
    <2>1. PICK b, i, c : Landed(b, i, c)
        BY <1>1, LandingIs
    <2>2. c.base = Dev /\ Dev' = c.head
        BY <1>1, <2>1, UpToDate
    <2>3. preflight_messages(c) = {}
        BY <2>1 DEF Landed, Messages
    <2> DEFINE changed == changed_paths(c.base, c.head)
               checkers == {x \in changed : checker_control(x)}
               semantics == {x \in changed : production_semantic(x)}
    <2>4. p \in checkers /\ q \in semantics
        BY <2>2
    <2>5. cochange_promotion_admitted(c.base, c.head, checkers \cup semantics)
        BY <2>3, <2>4 DEF preflight_messages
    <2>6. PICK document \in Lines(c.base, "grant.json") :
              /\ document.sealed
              /\ document.entries = {cochange_delta_entry(c.base, c.head, x) : x \in checkers \cup semantics}
        BY <2>5 DEF cochange_promotion_admitted, GrantFiles
    <2>7. checkers \cup semantics = {x \in changed_paths(Dev, Dev') : checker_control(x) \/ production_semantic(x)}
        BY <2>2
    <2>8. document.entries = Delta
        BY <2>2, <2>6, <2>7
    <2> QED BY <2>2, <2>6, <2>8
<1>2. HistoryInv /\ TreesInv /\ [Next]_vars => [Granted]_vars
    BY <1>1
<1>3. Spec => [][Granted]_vars
    BY <1>2, HistoryAlways, PTL DEF Spec
<1> QED BY <1>3 DEF GrantedCochange

(* TransportWhole: the anomaly transport comes to dev with all its parts,  *)
(* even when another branch landed in between; as long as branches land up *)
(* to date, at once and where the old authority is gone                    *)
(* (check_repo_restart_preflight.py, r7_anomaly_admitted).                 *)
THEOREM TransportIsWhole ==
    Spec => TransportWhole
<1> DEFINE Whole == (Landing /\ gate = "anomaly" /\ {"raise"} \subseteq Lines(Dev', "observe.lua") \ Lines(Dev, "observe.lua")) =>
               /\ TransportAtoms \subseteq Dev'
               /\ ~Raced' => TransportAtoms \cap Dev = {} /\ OldAuthority \cap Dev' = {}
<1>1. ASSUME HistoryInv, TreesInv, [Next]_vars
      PROVE  Whole
    <2> SUFFICES ASSUME Landing, gate = "anomaly",
                        "raise" \in Lines(Dev', "observe.lua") \ Lines(Dev, "observe.lua")
                 PROVE  /\ TransportAtoms \subseteq Dev'
                        /\ ~Raced' => TransportAtoms \cap Dev = {} /\ OldAuthority \cap Dev' = {}
        OBVIOUS
    <2>1. PICK b, i, c : Landed(b, i, c)
        BY <1>1, LandingIs
    <2>2. IsTree(c.base) /\ IsTree(c.head)
        BY <1>1, <2>1 DEF Landed, TreesInv
    <2>3. Dev' = Merge(c.base, c.head, Dev)
        BY <2>1 DEF Landed
    <2>4. "raise" \in Lines(c.head, "observe.lua") \ Lines(c.base, "observe.lua")
        BY <2>2, <2>3, NewLines
    <2>5. "observe.lua" \in changed_paths(c.base, c.head)
        BY <2>4 DEF changed_paths, Files, Lines
    <2>6. new_matches(AnomalyTokens, c, "observe.lua") # {}
        BY <2>4 DEF new_matches, AnomalyTokens
    <2>7. preflight_messages(c) = {}
        BY <2>1 DEF Landed, Messages
    <2>8. anomaly_activation_messages(c) = {}
        BY <2>7 DEF preflight_messages
    <2>9. r7_anomaly_admitted(c)
        BY <2>5, <2>6, <2>8 DEF anomaly_activation_messages, production_semantic, SemanticFiles, ShadowFiles
    <2>10. step8_complete(c.base, c.head) /\ TransportAtoms \subseteq c.head \ c.base
        BY <2>9 DEF r7_anomaly_admitted
    <2>11. TransportAtoms \subseteq Dev'
        BY <2>3, <2>10 DEF Merge
    <2>12. ASSUME ~Raced'
           PROVE  TransportAtoms \cap Dev = {} /\ OldAuthority \cap Dev' = {}
        <3>1. c.base = Dev /\ Dev' = c.head
            BY <1>1, <2>1, <2>12, UpToDate
        <3> HIDE DEF Dev
        <3> QED BY <2>10, <3>1 DEF step8_complete
    <2> QED BY <2>11, <2>12
<1>2. HistoryInv /\ TreesInv /\ [Next]_vars => [Whole]_vars
    BY <1>1
<1>3. Spec => [][Whole]_vars
    BY <1>2, HistoryAlways, PTL DEF Spec
<1> QED BY <1>3 DEF TransportWhole

-----------------------------------------------------------------------------
(* Intent-diff manifests.                                                  *)

(* As long as branches land up to date, a commit lists the manifests it    *)
(* has, and has the files it is said to have added.                        *)
ManifestInv ==
    (gate \in {"replay", "anomaly"} /\ ~Raced) =>
        \A k \in 1..Len(log) :
            /\ log[k].added \subseteq Files(log[k].tree)
            /\ Manifests \cap Files(log[k].tree) \subseteq Lines(log[k].tree, Allowlist)

LEMMA StartHasNoManifest ==
    \A g \in {"replay", "anomaly"} : Manifests \cap Files(StartTree(g)) = {}
<1>1. \A x \in Corpus : x[1] \notin Manifests
    BY DEF Manifests, Corpus, OldCorpus
<1>2. \A file, lines : \A x \in In(file, lines) : x[1] = file
    BY DEF In
<1>3. \A x \in Inventory : x[1] = "inventory"
    BY DEF Inventory, Watch, Writer
<1>4. \A x \in StartTree("replay") : x[1] \notin Manifests
    <2>1. StartTree("replay") = Corpus \cup In("authority.lua", {"a0"}) \cup In("seal.lua", {"body"})
        BY DEF StartTree
    <2> QED BY <1>1, <1>2, <2>1 DEF Manifests
<1>5. \A x \in StartTree("anomaly") : x[1] \notin Manifests
    <2>1. StartTree("anomaly") = Inventory \cup In("observe.lua", {"o0"}) \cup In("ops.lua", {"p0"})
                                    \cup In("seal.lua", {"body"}) \cup Corpus
        BY DEF StartTree
    <2> QED BY <1>1, <1>2, <1>3, <2>1 DEF Manifests
<1> QED BY <1>4, <1>5 DEF Files

LEMMA ManifestInit ==
    Init => ManifestInv
<1> SUFFICES ASSUME Init, gate \in {"replay", "anomaly"}
             PROVE  ManifestInv
    BY DEF ManifestInv
<1>1. Len(log) = 1 /\ log[1].tree = StartTree(gate) /\ log[1].added = {}
    BY DEF Init
<1>2. \A k \in 1..Len(log) : k = 1
    BY <1>1
<1> QED BY <1>1, <1>2, StartHasNoManifest DEF ManifestInv

LEMMA ReplayPassed ==
    ASSUME NEW b, NEW i, NEW c, Landed(b, i, c), gate \in {"replay", "anomaly"}
    PROVE  replay_messages(c) = {}
BY DEF Landed, Messages

LEMMA ManifestStep ==
    HistoryInv /\ ManifestInv /\ [Next]_vars => ManifestInv'
<1> SUFFICES ASSUME HistoryInv, ManifestInv, [Next]_vars
             PROVE  ManifestInv'
    OBVIOUS
<1>1. CASE ~Landing
    BY <1>1, OtherSteps DEF ManifestInv, Raced
<1>2. CASE Landing
    <2>1. PICK b, i, c : Landed(b, i, c)
        BY <1>2, LandingIs
    <2>2. SUFFICES ASSUME gate' \in {"replay", "anomaly"}, ~Raced', NEW k \in 1..Len(log')
                   PROVE  /\ log'[k].added \subseteq Files(log'[k].tree)
                          /\ Manifests \cap Files(log'[k].tree) \subseteq Lines(log'[k].tree, Allowlist)
        BY DEF ManifestInv
    <2>3. gate' = gate
        BY <2>1 DEF Landed
    <2>4. ~Raced /\ Dev' = c.head
        BY <2>1, <2>2, UpToDate
    <2>5. CASE k \in 1..Len(log)
        BY <2>1, <2>2, <2>3, <2>4, <2>5 DEF ManifestInv, Landed
    <2>6. CASE k = Len(log')
        <3>1. replay_messages(c) = {}
            BY <2>1, <2>2, <2>3, ReplayPassed
        <3>2. {"unlisted manifest" : f \in (Manifests \cap Files(c.head)) \ Lines(c.head, Allowlist)} = {}
            BY <3>1 DEF replay_messages
        <3> QED BY <2>1, <2>4, <2>6, <3>2 DEF Landed, Dev
    <2>7. PICK S : log \in Seq(S)
        BY DEF HistoryInv
    <2> QED BY <2>1, <2>2, <2>5, <2>6, <2>7 DEF Landed
<1> QED BY <1>1, <1>2

(* A new entry of the list has a manifest bound to the branch, or one that *)
(* a commit of the base's history added.                                   *)
LEMMA NewEntryIsBound ==
    ASSUME NEW c, replay_messages(c) = {},
           NEW f \in Lines(c.head, Allowlist) \ Lines(c.base, Allowlist)
    PROVE  /\ f \in Manifests
           /\ \/ \E k \in 1..Len(c.log) : f \in c.log[k].added
              \/ /\ bound_manifest_messages(ManifestIn(c.head, f), f, c) = {}
                 /\ step8_complete(c.base, c.head)
<1>1. c.resolved
    BY DEF replay_messages
<1>2. growth_messages(f, c) = {}
    BY <1>1 DEF replay_messages
<1> DEFINE m == ManifestIn(c.head, f)
           bound == IF f \notin ValidManifests(c.head) THEN {"no valid manifest"}
                    ELSE IF ~c.resolved THEN {ConfigurationFailure}
                    ELSE bound_manifest_messages(m, f, c)
<1>3. \/ f \in ValidManifests(c.head) /\ manifest_is_spent(m, f, c)
      \/ bound = {} /\ step8_complete(c.base, c.head)
    BY <1>2 DEF growth_messages
<1>4. f \in ValidManifests(c.head)
    BY <1>3
<1>5. f \in Manifests
    BY <1>4 DEF ValidManifests
<1>6. CASE manifest_is_spent(m, f, c)
    BY <1>5, <1>6 DEF manifest_is_spent
<1>7. CASE bound = {} /\ step8_complete(c.base, c.head)
    BY <1>1, <1>4, <1>5, <1>7
<1> QED BY <1>3, <1>6, <1>7

(* ManifestsDescribe: the first landing that lists a manifest is the very  *)
(* change the manifest describes, after the old authority was gone: no     *)
(* spent, borrowed or outdated manifest opens the list                     *)
(* (check_repo_intent_bounded_replay.py).                                  *)
THEOREM ManifestsAreTrue ==
    Spec => ManifestsDescribe
<1> DEFINE Describes(f) == LET m == ManifestIn(Dev', f)
                           IN /\ m.base = Len(log)
                              /\ m.tree = {x \in Dev' : x[1] \notin Manifests}
                              /\ m.diff = semantic_diff_sha256(Dev, Dev')
                              /\ step8_complete(Dev, Dev')
           Known == UNION {Lines(log[i].tree, Allowlist) : i \in 1..Len(log)}
           Described == (Landing /\ gate \in {"replay", "anomaly"} /\ ~Raced') =>
                            \A f \in Lines(Dev', Allowlist) \ Known : Describes(f)
<1>1. ASSUME HistoryInv, ManifestInv, [Next]_vars
      PROVE  Described
    <2> SUFFICES ASSUME Landing, gate \in {"replay", "anomaly"}, ~Raced',
                        NEW f \in Lines(Dev', Allowlist) \ Known
                 PROVE  Describes(f)
        OBVIOUS
    <2>1. PICK b, i, c : Landed(b, i, c)
        BY <1>1, LandingIs
    <2>2. ~Raced /\ i = Len(log) /\ c.base = Dev /\ Dev' = c.head
        BY <1>1, <2>1, UpToDate
    <2>3. replay_messages(c) = {}
        BY <2>1, ReplayPassed
    <2>4. \A k \in 1..Len(log) : f \notin Lines(log[k].tree, Allowlist)
        OBVIOUS
    <2>5. f \in Lines(c.head, Allowlist) \ Lines(c.base, Allowlist)
        BY <2>1, <2>2, <2>4 DEF Landed
    <2>6. PICK S : log \in Seq(S)
        BY <1>1 DEF HistoryInv
    <2>7. c.log = log
        BY <2>1, <2>2, <2>6 DEF Landed
    <2>8. f \in Manifests
        BY <2>3, <2>5, NewEntryIsBound
    <2>9. \A k \in 1..Len(c.log) : f \notin c.log[k].added
        BY <1>1, <2>2, <2>4, <2>7, <2>8 DEF ManifestInv
    <2> DEFINE m == ManifestIn(c.head, f)
    <2>10. bound_manifest_messages(m, f, c) = {} /\ step8_complete(c.base, c.head)
        BY <2>3, <2>5, <2>9, NewEntryIsBound
    <2>11. /\ m.base = c.baseId
           /\ m.tree = semantic_tree_sha256(c.head)
           /\ m.diff = semantic_diff_sha256(c.base, c.head)
        BY <2>10 DEF bound_manifest_messages
    <2>12. c.baseId = Len(log)
        BY <2>1, <2>2 DEF Landed
    <2> QED BY <2>2, <2>10, <2>11, <2>12 DEF semantic_tree_sha256
<1>2. HistoryInv /\ ManifestInv /\ [Next]_vars => [Described]_vars
    BY <1>1
<1>3. Init => HistoryInv /\ ManifestInv
    BY HistoryInit, ManifestInit
<1>4. HistoryInv /\ ManifestInv /\ [Next]_vars => (HistoryInv /\ ManifestInv)'
    BY HistoryStep, ManifestStep
<1> QED BY <1>2, <1>3, <1>4, PTL DEF Spec, ManifestsDescribe

-----------------------------------------------------------------------------
(* The lifecycle inventory.                                                *)

(* A line that no edit of the gate touches stays on dev and on every open  *)
(* branch.                                                                 *)
Kept(line) ==
    /\ \A k \in 1..Len(log) : line \in log[k].tree
    /\ \A b \in Branches : branch[b].open => line \in branch[b].head

LEMMA KeptStep ==
    ASSUME HistoryInv, [Next]_vars, NEW file, NEW x, Kept(<<file, x>>),
           gate \notin {"replay", "anomaly"}, file # "sha", file # CoverageAllowlist,
           \A facts \in Edits(gate) : <<file, x>> \notin facts
    PROVE  Kept(<<file, x>>)'
<1> DEFINE line == <<file, x>>
<1>1. PICK S : log \in Seq(S)
    BY DEF HistoryInv
<1>2. Len(log) \in Nat /\ Len(log) \in 1..Len(log)
    BY <1>1 DEF HistoryInv
<1>3. line \in Dev
    BY <1>2 DEF Dev, Kept
<1>4. line[1] = file
    OBVIOUS
<1>5. ASSUME NEW b \in Branches, branch'[b].open
      PROVE  line \in branch'[b].head
    <2>1. ASSUME branch[b].open, NewHead(b, branch[b].head, branch'[b].head)
          PROVE  line \in branch'[b].head
        <3>1. line \in branch[b].head
            BY <2>1 DEF Kept
        <3> DEFINE new == branch'[b].head
                   old == branch[b].head
        <3> HIDE DEF new, old, line
        <3>2. line \in old
            BY <3>1 DEF old, line
        <3>3. \/ \E facts \in Edits(gate) : new = Toggle(old, facts)
              \/ new = normalize_artifact_sha256(old)
              \/ new = write_current_uncovered(old)
              \/ \E base : new = Merge(base, Dev, old)
            BY <2>1 DEF NewHead, new, old
        <3>4. \A facts \in Edits(gate) : line \notin facts
            BY DEF line
        <3>5. line \in new
            BY <1>3, <1>4, <3>2, <3>3, <3>4
               DEF Toggle, normalize_artifact_sha256, write_current_uncovered, Merge
        <3> QED BY <3>5 DEF new
    <2> QED BY <1>3, <1>5, <2>1, HeadStep DEF Kept
<1>6. CASE ~Landing
    BY <1>5, <1>6, OtherSteps DEF Kept
<1>7. CASE Landing
    <2>1. PICK b, i, c : Landed(b, i, c)
        BY <1>7, LandingIs
    <2>2. line \in c.base /\ line \in c.head
        BY <2>1 DEF Landed, Kept
    <2>3. line \in Dev'
        BY <1>3, <2>1, <2>2 DEF Landed, Merge
    <2>4. \A k \in 1..Len(log') : k \in 1..Len(log) \/ k = Len(log')
        BY <1>2, <2>1 DEF Landed
    <2>5. \A k \in 1..Len(log') : line \in log'[k].tree
        BY <2>1, <2>3, <2>4 DEF Landed, Dev, Kept
    <2> QED BY <1>5, <2>5 DEF Kept
<1> QED BY <1>6, <1>7

(* The row that is never edited.                                           *)
LastRow == Row("enumerated", "s2")

InventoryInv == gate = "lifecycle" => Kept(<<"inventory", LastRow>>)

LEMMA InventoryInit ==
    Init => InventoryInv
<1> SUFFICES ASSUME Init, gate = "lifecycle"
             PROVE  Kept(<<"inventory", LastRow>>)
    BY DEF InventoryInv
<1>1. Len(log) = 1 /\ log[1].tree = StartTree("lifecycle")
    BY DEF Init
<1>2. StartTree("lifecycle") = LifecycleStart
    BY DEF StartTree
<1>3. <<"inventory", LastRow>> \in LifecycleStart
    <2>1. LastRow \in {Row(k, s) : k \in {"enumerated", "unobserved"}, s \in LifecycleSites}
        BY DEF LastRow, LifecycleSites
    <2>2. <<"inventory", LastRow>>[1] # "sha"
        OBVIOUS
    <2> QED BY <2>1, <2>2 DEF LifecycleStart, normalize_artifact_sha256, In
<1>4. \A b \in Branches : ~branch[b].open
    BY DEF Init, Closed
<1>5. \A k \in 1..Len(log) : k = 1
    BY <1>1
<1> QED BY <1>1, <1>2, <1>3, <1>4, <1>5 DEF Kept

LEMMA InventoryStep ==
    HistoryInv /\ InventoryInv /\ [Next]_vars => InventoryInv'
<1> SUFFICES ASSUME HistoryInv, InventoryInv, [Next]_vars, gate' = "lifecycle"
             PROVE  Kept(<<"inventory", LastRow>>)'
    BY DEF InventoryInv
<1>1. gate = "lifecycle"
    BY LandingIs, OtherSteps DEF Landed
<1>2. ASSUME NEW facts \in Edits("lifecycle")
      PROVE  <<"inventory", LastRow>> \notin facts
    <2>1. LastRow.kind = "enumerated" /\ LastRow.site = "s2"
        BY DEF LastRow, Row
    <2>2. \A k, s : Row(k, s).kind = k /\ Row(k, s).site = s
        BY DEF Row
    <2>3. \A bad : Observation("s1", bad).site = "s1"
        BY DEF Observation, Row
    <2>4. \/ facts \in {{<<LifecycleAllowlist, "s1">>, <<"inventory", Row("unobserved", "s1")>>},
                        {<<LifecycleAllowlist, "s3">>, <<"inventory", Row("unobserved", "s3")>>, <<Producer, "s3">>}}
          \/ facts \in Each({<<"inventory", Observation("s1", {})>>, <<"inventory", Observation("s1", {"site"})>>,
                       <<Producer, "s1">>, <<"inventory", Row("enumerated", "s1")>>})
        BY <1>2 DEF Edits
    <2> QED BY <2>1, <2>2, <2>3, <2>4 DEF Each, LifecycleAllowlist, Producer
<1> QED BY <1>1, <1>2, KeptStep DEF InventoryInv, CoverageAllowlist

(* EvidenceOnLeaving: a site leaves the list of the unobserved by being    *)
(* enumerated and observed, with an observation that passes whole          *)
(* (check_repo_restart_lifecycle.py, shrink_only_messages).                *)
THEOREM LeavingNeedsEvidence ==
    Spec => EvidenceOnLeaving
<1> DEFINE Evident == (Landing /\ gate = "lifecycle" /\ ~Raced') =>
               \A s \in Lines(Dev, LifecycleAllowlist) \ Lines(Dev', LifecycleAllowlist) :
                   /\ s \in SitesOf(Dev', "enumerated")
                   /\ \E o \in Rows(Dev', "observed") : o.site = s /\ o.bad = {}
<1>1. ASSUME HistoryInv, InventoryInv, [Next]_vars
      PROVE  Evident
    <2> SUFFICES ASSUME Landing, gate = "lifecycle", ~Raced',
                        NEW s \in Lines(Dev, LifecycleAllowlist) \ Lines(Dev', LifecycleAllowlist)
                 PROVE  /\ s \in SitesOf(Dev', "enumerated")
                        /\ \E o \in Rows(Dev', "observed") : o.site = s /\ o.bad = {}
        OBVIOUS
    <2>1. PICK b, i, c : Landed(b, i, c)
        BY <1>1, LandingIs
    <2>2. c.base = Dev /\ Dev' = c.head
        BY <1>1, <2>1, UpToDate
    <2>3. lifecycle_messages(c) = {}
        BY <2>1 DEF Landed, Messages
    <2>4. "inventory" \in Files(c.head)
        <3>1. <<"inventory", LastRow>> \in c.head
            BY <1>1, <2>1 DEF InventoryInv, Kept, Landed
        <3> QED BY <3>1 DEF Files
    <2>5. shrink_only_messages(c) = {} /\ \A r \in Rows(c.head, "observed") : validate_observation(r) = {}
        BY <2>3, <2>4 DEF lifecycle_messages
    <2>6. LifecycleAllowlist \in Files(c.base)
        BY <2>2 DEF Lines, Files
    <2>7. s \in SitesOf(c.head, "enumerated") /\ s \in SitesOf(c.head, "observed")
        BY <2>2, <2>5, <2>6 DEF shrink_only_messages
    <2>8. PICK o \in Rows(c.head, "observed") : o.site = s
        BY <2>7 DEF SitesOf
    <2>9. o.bad = {}
        BY <2>5, <2>8 DEF validate_observation
    <2> QED BY <2>2, <2>7, <2>8, <2>9
<1>2. HistoryInv /\ InventoryInv /\ [Next]_vars => [Evident]_vars
    BY <1>1
<1>3. Init => HistoryInv /\ InventoryInv
    BY HistoryInit, InventoryInit
<1>4. HistoryInv /\ InventoryInv /\ [Next]_vars => (HistoryInv /\ InventoryInv)'
    BY HistoryStep, InventoryStep
<1> QED BY <1>2, <1>3, <1>4, PTL DEF Spec, EvidenceOnLeaving

-----------------------------------------------------------------------------
(* The intake slot.                                                        *)

IntakeInv ==
    (gate = "intake" /\ ~Raced) =>
        /\ IntakeSlot \in SlotNames(Dev)
        /\ candidate_consumers(Dev) \subseteq SlotPackages(Dev, IntakeSlot)

LEMMA IntakeInit ==
    Init => IntakeInv
<1> SUFFICES ASSUME Init, gate = "intake"
             PROVE  /\ IntakeSlot \in SlotNames(Dev)
                    /\ candidate_consumers(Dev) \subseteq SlotPackages(Dev, IntakeSlot)
    BY DEF IntakeInv
<1> DEFINE slots == {<<IntakeSlot, "intake", "t1">>, <<IntakeSlot, "manual", "t2">>}
           departments == {<<"intake", "consumes", "candidate">>, <<"manual", "consumes", "candidate">>}
<1>1. Dev = StartTree("intake")
    BY DEF Init, Dev
<1>2. Dev = In("policy_slots.json", slots) \cup In("departments.lua", departments)
    BY <1>1 DEF StartTree
<1> HIDE DEF Dev
<1>3. /\ \A l \in slots : <<"policy_slots.json", l>> \in Dev
      /\ \A x \in Dev : x[1] = "departments.lua" => x[2] \in departments
    <2> HIDE DEF slots, departments
    <2> QED BY <1>2 DEF In
<1>4. slots \subseteq Lines(Dev, "policy_slots.json") /\ Lines(Dev, "departments.lua") \subseteq departments
    <2> HIDE DEF slots, departments
    <2>1. ASSUME NEW l \in slots
          PROVE  l \in Lines(Dev, "policy_slots.json")
        <3> DEFINE f == <<"policy_slots.json", l>>
        <3>1. f \in Dev /\ f[1] = "policy_slots.json" /\ f[2] = l
            BY <1>3
        <3> HIDE DEF f
        <3> QED BY <3>1 DEF Lines
    <2>2. ASSUME NEW l \in Lines(Dev, "departments.lua")
          PROVE  l \in departments
        BY <1>3 DEF Lines
    <2> QED BY <2>1, <2>2
<1>5. candidate_consumers(Dev) \subseteq {"intake", "manual"}
    BY <1>4 DEF candidate_consumers
<1>6. slots \subseteq Implementations(Dev, IntakeSlot)
    BY <1>4 DEF Implementations
<1>7. {"intake", "manual"} \subseteq SlotPackages(Dev, IntakeSlot)
    BY <1>6 DEF SlotPackages
<1>8. IntakeSlot \in SlotNames(Dev)
    BY <1>4 DEF SlotNames
<1> QED BY <1>5, <1>7, <1>8

LEMMA IntakeStep ==
    HistoryInv /\ IntakeInv /\ [Next]_vars => IntakeInv'
<1> SUFFICES ASSUME HistoryInv, IntakeInv, [Next]_vars
             PROVE  IntakeInv'
    OBVIOUS
<1>1. CASE ~Landing
    BY <1>1, OtherSteps DEF IntakeInv, Raced, Dev
<1>2. CASE Landing
    <2>1. PICK b, i, c : Landed(b, i, c)
        BY <1>2, LandingIs
    <2>2. SUFFICES ASSUME gate' = "intake", ~Raced'
                   PROVE  /\ IntakeSlot \in SlotNames(Dev')
                          /\ candidate_consumers(Dev') \subseteq SlotPackages(Dev', IntakeSlot)
        BY DEF IntakeInv
    <2>3. Dev' = c.head
        BY <2>1, <2>2, UpToDate
    <2>4. gate = "intake" /\ Messages(gate, c) = {}
        BY <2>1, <2>2 DEF Landed
    <2>5. intake_messages(c) = {}
        BY <2>4 DEF Messages
    <2>6. policy_slot_messages(c.head) = {} /\ candidate_consumer_messages(c.head) = {}
        BY <2>5 DEF intake_messages
    <2> QED BY <2>3, <2>6 DEF policy_slot_messages, candidate_consumer_messages
<1> QED BY <1>1, <1>2

LEMMA AtMostOne ==
    ASSUME NEW S, NEW x, S \subseteq {x}
    PROVE  Cardinality(S) <= 1
<1>1. CASE S = {}
    <2>1. Cardinality(S) = 0
        BY <1>1, FS_EmptySet
    <2> QED BY <2>1
<1>2. CASE S = {x}
    <2>1. Cardinality({x}) = 1
        BY FS_Singleton
    <2> QED BY <1>2, <2>1
<1> QED BY <1>1, <1>2

(* OneCandidateReader: when every consumer of candidates implements the    *)
(* intake slot, no topology the manifest allows and no set of packages the *)
(* exclusivity assertion accepts has two of them                           *)
(* (check_repo_intake_routing.py).                                         *)
THEOREM OneReader ==
    Spec => []OneCandidateReader
<1>1. ASSUME HistoryInv, TreesInv, IntakeInv
      PROVE  OneCandidateReader
    <2> SUFFICES ASSUME gate = "intake", ~Raced
                 PROVE  LET readers == candidate_consumers(Dev)
                        IN /\ \A excluded \in legal_topologies(Dev) : Cardinality(readers \ excluded) <= 1
                           /\ \A loaded \in SUBSET (readers \cup {l[2] : l \in Lines(Dev, "policy_slots.json")}) :
                                topology_exclusivity_messages(Dev, loaded) = {} => Cardinality(readers \cap loaded) <= 1
        BY DEF OneCandidateReader
    <2> DEFINE readers == candidate_consumers(Dev)
               packages == SlotPackages(Dev, IntakeSlot)
    <2>1. IntakeSlot \in SlotNames(Dev) /\ readers \subseteq packages
        BY <1>1 DEF IntakeInv
    <2>2. IsTree(Dev)
        <3>1. PICK S : log \in Seq(S)
            BY <1>1 DEF HistoryInv
        <3> QED BY <1>1, <3>1 DEF Dev, TreesInv, HistoryInv
    <2>3. ASSUME NEW excluded \in legal_topologies(Dev)
          PROVE  Cardinality(readers \ excluded) <= 1
        <3>1. PICK f : excluded = UNION {SlotPackages(Dev, slot) \ {f[slot][2]} : slot \in SlotNames(Dev)}
            BY DEF legal_topologies
        <3>2. packages \ {f[IntakeSlot][2]} \subseteq excluded
            <4> HIDE DEF packages
            <4> QED BY <2>1, <3>1 DEF packages
        <3>3. readers \ excluded \subseteq {f[IntakeSlot][2]}
            <4> HIDE DEF packages, readers
            <4> QED BY <2>1, <3>2
        <3> QED BY <3>3, AtMostOne
    <2>4. ASSUME NEW loaded, topology_exclusivity_messages(Dev, loaded) = {}
          PROVE  Cardinality(readers \cap loaded) <= 1
        <3>1. Cardinality(packages \cap loaded) = 1
            BY <2>1, <2>4 DEF topology_exclusivity_messages
        <3>2. IsFiniteSet(packages)
            <4> DEFINE impl == Implementations(Dev, IntakeSlot)
                       package == [l \in impl |-> l[2]]
            <4>1. IsFiniteSet(impl)
                BY <2>2, LinesFinite, FS_Subset DEF Implementations
            <4>2. package \in Surjection(impl, packages)
                <5> HIDE DEF impl
                <5>1. packages = {l[2] : l \in impl}
                    BY DEF SlotPackages, impl
                <5> QED BY <5>1 DEF Surjection
            <4> QED BY <4>1, <4>2, FS_Surjection
        <3>3. IsFiniteSet(packages \cap loaded)
            BY <3>2, FS_Subset
        <3>4. PICK x : packages \cap loaded = {x}
            BY <3>1, <3>3, FS_Singleton
        <3>5. readers \cap loaded \subseteq {x}
            <4> HIDE DEF packages, readers
            <4> QED BY <2>1, <3>4
        <3> QED BY <3>5, AtMostOne
    <2> QED BY <2>3, <2>4
<1>2. Init => HistoryInv /\ TreesInv /\ IntakeInv
    BY HistoryInit, TreesInit, IntakeInit
<1>3. HistoryInv /\ TreesInv /\ IntakeInv /\ [Next]_vars => (HistoryInv /\ TreesInv /\ IntakeInv)'
    BY HistoryStep, TreesStep, IntakeStep
<1> QED BY <1>1, <1>2, <1>3, PTL DEF Spec

-----------------------------------------------------------------------------
(* The lists of known debt.                                                *)

(* No edit takes the header out of the inventory of handles.               *)
HeaderInv == gate = "handle" => Kept(<<HandleInventory, Header>>)

LEMMA HeaderInit ==
    Init => HeaderInv
<1> SUFFICES ASSUME Init, gate = "handle"
             PROVE  Kept(<<HandleInventory, Header>>)
    BY DEF HeaderInv
<1>1. /\ Len(log) = 1 /\ log[1].tree = StartTree("handle")
      /\ \A b \in Branches : ~branch[b].open
    BY DEF Init, Closed
<1>2. \A x : <<HandleInventory, Header>> \in List(HandleInventory, x)
    BY DEF List, In
<1>3. <<HandleInventory, Header>> \in StartTree("handle")
    BY <1>2 DEF StartTree
<1> QED BY <1>1, <1>3 DEF Kept

LEMMA HeaderStep ==
    HistoryInv /\ HeaderInv /\ [Next]_vars => HeaderInv'
<1> SUFFICES ASSUME HistoryInv, HeaderInv, [Next]_vars, gate' = "handle"
             PROVE  Kept(<<HandleInventory, Header>>)'
    BY DEF HeaderInv
<1>1. gate = "handle"
    <2>1. CASE Landing
        BY <2>1, LandingIs DEF Landed
    <2>2. CASE ~Landing
        BY <2>2, OtherSteps
    <2> QED BY <2>1, <2>2
<1>2. \A facts \in Edits("handle") : <<HandleInventory, Header>> \notin facts
    BY DEF Edits, Each, HandleInventory, HandleFile, Header
<1>3. HandleInventory # "sha" /\ HandleInventory # CoverageAllowlist
    BY DEF HandleInventory, CoverageAllowlist
<1> QED BY <1>1, <1>2, <1>3, KeptStep DEF HeaderInv

(* A gate that read the base's list and found no growth.                   *)
LEMMA NoGrowth ==
    ASSUME NEW c, NEW file, file \in Files(c.base), base_messages(c, file) = {}, grown(c, file) = {}
    PROVE  load_allowlist(c.head, file) \subseteq load_allowlist(c.base, file)
<1>1. base_status(c, file) = "present"
    BY DEF base_messages, base_status
<1> QED BY <1>1 DEF grown

LEMMA ShrinkOnly ==
    ASSUME NEW current, NEW c, NEW file, shrink_only(current, c, file) = {}
    PROVE  base_messages(c, file) = {} /\ grown(c, file) = {}
BY DEF shrink_only, ratchet_messages

(* The gates whose entries are compared one by one.                        *)
EntryGates == DOMAIN ListOf \ {"coverage", "dedup", "monotone"}

LEMMA PassedList ==
    ASSUME NEW g \in EntryGates, NEW c, Messages(g, c) = {}, ListOf[g] \in Files(c.base),
           g = "handle" => Header \in Lines(c.base, HandleInventory)
    PROVE  load_allowlist(c.head, ListOf[g]) \subseteq load_allowlist(c.base, ListOf[g])
<1> DEFINE file == ListOf[g]
<1> SUFFICES base_messages(c, file) = {} /\ grown(c, file) = {}
    BY NoGrowth
<1> USE DEF Messages
<1>1. CASE g = "cycle"
    BY <1>1, ShrinkOnly DEF ListOf, cycle_messages
<1>2. CASE g = "layering"
    BY <1>2, ShrinkOnly DEF ListOf, layering_messages
<1>3. CASE g = "liveness"
    <2>1. file = LivenessAllowlist
        BY <1>3 DEF ListOf
    <2>2. shrink_only(producer_debt(c.head), c, LivenessAllowlist) = {}
        BY <1>3 DEF producer_liveness_messages
    <2> QED BY <2>1, <2>2, ShrinkOnly
<1>4. CASE g = "dialogue"
    BY <1>4, ShrinkOnly DEF ListOf, dialogue_messages
<1>5. CASE g = "truncation"
    BY <1>5, ShrinkOnly DEF ListOf, truncation_messages
<1>6. CASE g = "handle"
    <2>1. file = HandleInventory
        BY <1>6 DEF ListOf
    <2>2. handle_messages(c) = {}
        BY <1>6
    <2> QED BY <1>6, <2>1, <2>2 DEF handle_messages, ratchet_messages
<1>7. CASE g = "login"
    BY <1>7, ShrinkOnly DEF ListOf, login_messages
<1>8. CASE g = "error"
    <2>1. file = ErrorAllowlist
        BY <1>8 DEF ListOf
    <2>2. error_class_messages(c) = {}
        BY <1>8
    <2> HIDE DEF Messages
    <2> DEFINE found == ratchet_messages(current_sites(c.head), load_allowlist(c.head, ErrorAllowlist),
                                         grown(c, ErrorAllowlist))
    <2>3. \A x \in grown(c, ErrorAllowlist) : "allowlist grows" \in found
        BY DEF ratchet_messages
    <2>4. base_messages(c, ErrorAllowlist) \cup (found \ {"stale entry"}) = {}
        BY <2>2 DEF error_class_messages
    <2> HIDE DEF found
    <2>5. base_messages(c, ErrorAllowlist) = {}
        BY <2>4
    <2>6. "allowlist grows" \notin found
        <3>1. found \subseteq {"stale entry"}
            BY <2>4
        <3>2. "allowlist grows" # "stale entry"
            OBVIOUS
        <3> QED BY <3>1, <3>2, Zenon
    <2>7. grown(c, ErrorAllowlist) = {}
        BY <2>3, <2>6
    <2> QED BY <2>1, <2>5, <2>7
<1>9. CASE g = "suffix"
    BY <1>9, ShrinkOnly DEF ListOf, version_suffix_messages
<1>10. CASE g = "surface"
    BY <1>10, ShrinkOnly DEF ListOf, surface_messages
<1>11. CASE g = "saga"
    <2>1. file = SagaAllowlist
        BY <1>11 DEF ListOf
    <2>2. saga_handler_messages(c) = {}
        BY <1>11
    <2>3. base_messages(c, SagaAllowlist) = {} /\ {"allowlist grows" : x \in grown(c, SagaAllowlist)} = {}
        BY <2>2, Zenon DEF saga_handler_messages
    <2> QED BY <2>1, <2>3
<1>12. CASE g = "hidden"
    <2>1. file = HiddenAllowlist
        BY <1>12 DEF ListOf
    <2>2. hidden_state_messages(c) = {}
        BY <1>12
    <2> QED BY <2>1, <2>2 DEF hidden_state_messages
<1>13. CASE g = "split"
    BY <1>13, ShrinkOnly DEF ListOf, saga_split_messages
<1> QED BY <1>1, <1>2, <1>3, <1>4, <1>5, <1>6, <1>7, <1>8, <1>9, <1>10, <1>11, <1>12, <1>13
        DEF EntryGates, ListOf

(* With the base's list a count is never exceeded.                         *)
LEMMA PassedDedup ==
    ASSUME NEW c, dedup_messages(c) = {}, DedupAllowlist \in Files(c.base)
    PROVE  \A e \in load_allowlist(c.head, DedupAllowlist) :
               covered_by_base(e, load_allowlist(c.base, DedupAllowlist))
<1>1. base_messages(c, DedupAllowlist) = {}
    BY DEF dedup_messages
<1>2. base_status(c, DedupAllowlist) = "present"
    BY <1>1 DEF base_messages, base_status
<1> DEFINE list == load_allowlist(c.head, DedupAllowlist)
           growth == {e \in list : ~covered_by_base(e, load_allowlist(c.base, DedupAllowlist))}
<1>3. ratchet_messages(duplicate_groups(c.head), list, growth) = {}
    BY <1>2 DEF dedup_messages
<1> QED BY <1>3 DEF ratchet_messages

LEMMA PassedMonotone ==
    ASSUME NEW c, monotone_messages(c) = {}, MonotoneAllowlist \in Files(c.base),
           IsTree(c.base), IsTree(c.head)
    PROVE  \A v \in load_allowlist(c.head, MonotoneAllowlist) :
               InBucket(load_allowlist(c.head, MonotoneAllowlist), canonical_key(v))
                   <= InBucket(load_allowlist(c.base, MonotoneAllowlist), canonical_key(v))
<1> DEFINE list == load_allowlist(c.head, MonotoneAllowlist)
           before == load_allowlist(c.base, MonotoneAllowlist)
           current == source_violations(c.head)
<1>1. base_messages(c, MonotoneAllowlist) = {}
    BY DEF monotone_messages
<1>2. base_status(c, MonotoneAllowlist) = "present"
    BY <1>1 DEF base_messages, base_status
<1>3. monotone_ratchet(current, list, TRUE, before) = {}
    BY <1>2 DEF monotone_messages
<1>4. \A k \in {canonical_key(v) : v \in current \cup list} : ~(InBucket(list, k) > InBucket(before, k))
    BY <1>3 DEF monotone_ratchet
<1>5. \A k : InBucket(list, k) \in Nat /\ InBucket(before, k) \in Nat
    BY CountIsNat
<1> HIDE DEF list, before, current
<1>6. ASSUME NEW v \in list
      PROVE  InBucket(list, canonical_key(v)) <= InBucket(before, canonical_key(v))
    BY <1>4, <1>5
<1> QED BY <1>6 DEF list, before

LEMMA PassedCoverage ==
    ASSUME NEW c, coverage_messages(c) = {}, c.artifact # "none", IsTree(c.base), IsTree(c.head),
           RequiredFlag \in Files(c.head), RequiredFlag \in Files(c.base), CoverageAllowlist \in Files(c.base)
    PROVE  \A e \in load_allowlist(c.head, CoverageAllowlist) :
               ContentCount(load_allowlist(c.head, CoverageAllowlist), e[2])
                   <= ContentCount(load_allowlist(c.base, CoverageAllowlist), e[2])
<1> DEFINE list == load_allowlist(c.head, CoverageAllowlist)
           before == load_allowlist(c.base, CoverageAllowlist)
           uncovered == uncovered_from_artifact(canonical_coverage_artifact(c.head))
<1>1. coverage_base_status(c) # "unresolved" /\ coverage_ratchet(uncovered, c) = {}
    BY DEF coverage_messages
<1>2. coverage_base_status(c) = "present"
    BY <1>1 DEF coverage_base_status, base_status
<1>3. Exceeds(list, before) = {}
    BY <1>1, <1>2 DEF coverage_ratchet
<1>4. \A k : ContentCount(list, k) \in Nat /\ ContentCount(before, k) \in Nat
    BY CountIsNat
<1> HIDE DEF list, before, uncovered
<1>5. ASSUME NEW e \in list
      PROVE  ContentCount(list, e[2]) <= ContentCount(before, e[2])
    BY <1>3, <1>4 DEF Exceeds, content_key
<1> QED BY <1>5 DEF list, before

ListInv == HistoryInv /\ TreesInv /\ HeaderInv

LEMMA ListsStep ==
    ASSUME ListInv, [Next]_vars, Landing, gate \in DOMAIN ListOf, GateKept, GateKept', ~Deferred',
           Raced' => gate \notin {"coverage", "dedup", "monotone"}
    PROVE  NoMore(gate, load_allowlist(Dev', ListOf[gate]), load_allowlist(Dev, ListOf[gate]))
<1> USE DEF ListInv
<1>1. PICK b, i, c : Landed(b, i, c)
    BY LandingIs
<1>2. /\ b \in Branches /\ branch[b].open /\ i \in 1..Len(log)
      /\ c.base = log[i].tree /\ c.head = branch[b].head /\ Messages(gate, c) = {}
      /\ Dev' = Merge(c.base, c.head, Dev) /\ gate' = gate
    BY <1>1 DEF Landed
<1>3. IsTree(c.base) /\ IsTree(c.head)
    BY <1>2 DEF TreesInv
<1>4. ListOf[gate] \in Files(c.base) /\ (gate = "coverage" => RequiredFlag \in Files(c.base))
    BY <1>2 DEF GateKept
<1>5. CASE gate \in EntryGates
    <2>1. gate = "handle" => Header \in Lines(c.base, HandleInventory)
        <3>1. ASSUME gate = "handle"
              PROVE  Header \in Lines(c.base, HandleInventory)
            <4> DEFINE f == <<HandleInventory, Header>>
            <4>1. f \in c.base /\ f[1] = HandleInventory /\ f[2] = Header
                BY <1>2, <3>1 DEF HeaderInv, Kept
            <4> HIDE DEF f
            <4> QED BY <4>1 DEF Lines
        <3> QED BY <3>1
    <2>2. load_allowlist(c.head, ListOf[gate]) \subseteq load_allowlist(c.base, ListOf[gate])
        BY <1>2, <1>4, <1>5, <2>1, PassedList
    <2>3. Lines(Dev', ListOf[gate]) \ Lines(Dev, ListOf[gate])
              \subseteq Lines(c.head, ListOf[gate]) \ Lines(c.base, ListOf[gate])
        BY <1>2, <1>3, NewLines
    <2>4. load_allowlist(Dev', ListOf[gate]) \subseteq load_allowlist(Dev, ListOf[gate])
        BY <2>2, <2>3 DEF load_allowlist
    <2> QED BY <1>5, <2>4 DEF NoMore, EntryGates
<1>6. CASE gate \in {"coverage", "dedup", "monotone"}
    <2>1. c.base = Dev /\ Dev' = c.head
        BY <1>1, <1>6, UpToDate
    <2>2. CASE gate = "dedup"
        <3>1. ListOf[gate] = DedupAllowlist /\ dedup_messages(c) = {}
            BY <1>2, <2>2 DEF ListOf, Messages
        <3>2. \A e \in load_allowlist(Dev', DedupAllowlist) : covered_by_base(e, load_allowlist(Dev, DedupAllowlist))
            BY <1>4, <2>1, <3>1, PassedDedup
        <3> QED BY <2>2, <3>1, <3>2 DEF NoMore
    <2>3. CASE gate = "monotone"
        <3>1. ListOf[gate] = MonotoneAllowlist /\ monotone_messages(c) = {}
            BY <1>2, <2>3 DEF ListOf, Messages
        <3>2. \A v \in load_allowlist(Dev', MonotoneAllowlist) :
                  InBucket(load_allowlist(Dev', MonotoneAllowlist), canonical_key(v))
                      <= InBucket(load_allowlist(Dev, MonotoneAllowlist), canonical_key(v))
            BY <1>3, <1>4, <2>1, <3>1, PassedMonotone
        <3> QED BY <2>3, <3>1, <3>2 DEF NoMore
    <2>4. CASE gate = "coverage"
        <3>1. ListOf[gate] = CoverageAllowlist /\ coverage_messages(c) = {}
            BY <1>2, <2>4 DEF ListOf, Messages
        <3>2. PICK S : log \in Seq(S)
            BY DEF HistoryInv
        <3>3. Len(log') \in 1..Len(log')
            BY <1>1, <3>2 DEF Landed
        <3>4. c.artifact # "none"
            BY <1>1, <2>4, <3>3 DEF Deferred, Landed
        <3>5. RequiredFlag \in Files(c.head)
            BY <1>2, <2>1, <2>4, <3>3 DEF GateKept, Dev
        <3>6. \A e \in load_allowlist(Dev', CoverageAllowlist) :
                  ContentCount(load_allowlist(Dev', CoverageAllowlist), e[2])
                      <= ContentCount(load_allowlist(Dev, CoverageAllowlist), e[2])
            BY <1>3, <1>4, <2>1, <2>4, <3>1, <3>4, <3>5, PassedCoverage DEF ListOf
        <3>7. \A entries, k : ContentCount(entries, k) = Cardinality({x \in entries : x[2] = k})
            BY DEF ContentCount, content_key
        <3> QED BY <2>4, <3>1, <3>6, <3>7 DEF NoMore
    <2> QED BY <1>6, <2>2, <2>3, <2>4
<1> QED BY <1>5, <1>6 DEF EntryGates

(* AllowlistsShrink: a gate compares its list with the merge base's, yet   *)
(* no landing adds to the list of dev as it is by then, however many       *)
(* branches landed in between; the lists whose entries count or stand for  *)
(* sets of files need the branch to be up to date (ratchet_base.py and the *)
(* gates over allowlists).                                                 *)
THEOREM ListsShrink ==
    Spec => AllowlistsShrink
<1> DEFINE Shrinks == (/\ Landing /\ gate \in DOMAIN ListOf /\ GateKept /\ GateKept' /\ ~Deferred'
                       /\ Raced' => gate \notin {"coverage", "dedup", "monotone"})
                      => NoMore(gate, load_allowlist(Dev', ListOf[gate]), load_allowlist(Dev, ListOf[gate]))
<1>1. ListInv /\ [Next]_vars => [Shrinks]_vars
    BY ListsStep
<1>2. Init => ListInv
    BY HistoryInit, TreesInit, HeaderInit DEF ListInv
<1>3. ListInv /\ [Next]_vars => ListInv'
    BY HistoryStep, TreesStep, HeaderStep DEF ListInv
<1> QED BY <1>1, <1>2, <1>3, PTL DEF Spec, AllowlistsShrink

-----------------------------------------------------------------------------
(* Imports of forge.                                                       *)

(* What the gate reads as dev's inventory is what dev imports.             *)
ForgeInv ==
    (gate = "forge" /\ ~Raced) =>
        /\ {ForgeInventory, LegacyInventory} \cap Files(Dev) # {}
        /\ CountedImports(forge_imports_at_base([base |-> Dev])) = CountedImports(devloop_forge_imports(Dev))

LEMMA AtBase ==
    ASSUME NEW c
    PROVE  forge_imports_at_base(c) = forge_imports_at_base([base |-> c.base])
BY DEF forge_imports_at_base

(* What a branch that passes says of its imports and of its inventory.     *)
LEMMA ForgePassed ==
    ASSUME NEW c, forge_import_messages(c) = {}
    PROVE  /\ ForgeInventory \in Files(c.head)
           /\ CountedImports(load_inventory(c.head, ForgeInventory)) = CountedImports(devloop_forge_imports(c.head))
           /\ {ForgeInventory, LegacyInventory} \cap Files(c.base) # {} =>
                \A x \in load_inventory(c.head, ForgeInventory) \ forge_imports_at_base(c) :
                    is_replacing_import(x, load_inventory(c.head, ForgeInventory), forge_imports_at_base(c))
<1> DEFINE imports == devloop_forge_imports(c.head)
           inventory == load_inventory(c.head, ForgeInventory)
           before == forge_imports_at_base(c)
           unlisted == (imports \ inventory) \ SanctionedImports
           stale == inventory \ imports
           grows == {x \in inventory \ before : ~is_replacing_import(x, inventory, before)}
<1>1. /\ ForgeInventory \in Files(c.head)
      /\ {"unlisted import" : i \in unlisted} = {} /\ {"stale import" : i \in stale} = {}
      /\ c.resolved
      /\ {ForgeInventory, LegacyInventory} \cap Files(c.base) # {} => {"inventory grows" : i \in grows} = {}
    <2> HIDE DEF unlisted, stale, grows
    <2> QED BY DEF forge_import_messages, unlisted, stale, grows, imports, inventory, before
<1>2. /\ unlisted = {} /\ stale = {}
      /\ {ForgeInventory, LegacyInventory} \cap Files(c.base) # {} => grows = {}
    <2> HIDE DEF unlisted, stale, grows
    <2> QED BY <1>1
<1> HIDE DEF imports, inventory, before
<1>3. CountedImports(inventory) = CountedImports(imports)
    BY <1>2 DEF CountedImports
<1> QED BY <1>1, <1>2, <1>3 DEF imports, inventory, before

LEMMA LinesIn ==
    ASSUME NEW file, NEW lines, NEW f
    PROVE  Lines(In(file, lines), f) = IF f = file THEN lines ELSE {}
<1> DEFINE tree == In(file, lines)
<1>1. \A x \in tree : x[1] = file /\ x[2] \in lines
    BY DEF In
<1>2. \A l \in lines : \E x \in tree : x[1] = file /\ x[2] = l
    <2>1. \A l \in lines : <<file, l>> \in tree /\ <<file, l>>[1] = file /\ <<file, l>>[2] = l
        BY DEF In
    <2> HIDE DEF tree
    <2> QED BY <2>1
<1> HIDE DEF tree
<1>3. Lines(tree, f) = IF f = file THEN lines ELSE {}
    BY <1>1, <1>2 DEF Lines
<1> QED BY <1>3 DEF tree

LEMMA LinesOfBoth ==
    ASSUME NEW one, NEW other, NEW f
    PROVE  Lines(one \cup other, f) = Lines(one, f) \cup Lines(other, f)
BY DEF Lines

LEMMA ForgeInit ==
    Init => ForgeInv
<1> SUFFICES ASSUME Init, gate = "forge"
             PROVE  /\ {ForgeInventory, LegacyInventory} \cap Files(Dev) # {}
                    /\ CountedImports(forge_imports_at_base([base |-> Dev]))
                         = CountedImports(devloop_forge_imports(Dev))
    BY DEF ForgeInv
<1> DEFINE start == StartTree("forge")
           listed == {<<"devloop/base.lua", "std.gitref">>, <<"devloop/misc.lua", "std.gitref">>}
           importing == {<<"devloop/base.lua", "forge.gitref">>, <<"devloop/misc.lua", "forge.gitref">>}
<1>1. Dev = start
    BY DEF Init, Dev
<1>2. start = ((In("devloop/base.lua", {"body", "forge.gitref"}) \cup In("devloop/misc.lua", {"body", "forge.gitref"}))
                 \cup In(Facade, {"body"})) \cup In(LegacyInventory, listed \cup {Header})
    BY DEF StartTree, List
<1> HIDE DEF start
<1> USE DEF LegacyInventory, ForgeInventory, Facade
<1>3. LegacyInventory \in Files(start) /\ ForgeInventory \notin Files(start)
    <2>1. \A f \in In(LegacyInventory, listed \cup {Header}) : f[1] = LegacyInventory
        BY DEF In
    <2>2. <<LegacyInventory, Header>> \in start
        BY <1>2 DEF In
    <2>3. \A f \in start : f[1] \in {LegacyInventory, Facade, "devloop/base.lua", "devloop/misc.lua"}
        BY <1>2 DEF In
    <2> QED BY <2>2, <2>3 DEF Files
<1>4. /\ Lines(start, LegacyInventory) = listed \cup {Header}
      /\ Lines(start, "devloop/base.lua") = {"body", "forge.gitref"}
      /\ Lines(start, "devloop/misc.lua") = {"body", "forge.gitref"}
      /\ Lines(start, "devloop/facade.lua") = {"body"}
    <2> DEFINE A == In("devloop/base.lua", {"body", "forge.gitref"})
               B == In("devloop/misc.lua", {"body", "forge.gitref"})
               C == In(Facade, {"body"})
               D == In(LegacyInventory, listed \cup {Header})
    <2> HIDE DEF listed
    <2>1. /\ \A f : Lines(A, f) = IF f = "devloop/base.lua" THEN {"body", "forge.gitref"} ELSE {}
          /\ \A f : Lines(B, f) = IF f = "devloop/misc.lua" THEN {"body", "forge.gitref"} ELSE {}
          /\ \A f : Lines(C, f) = IF f = Facade THEN {"body"} ELSE {}
          /\ \A f : Lines(D, f) = IF f = LegacyInventory THEN listed \cup {Header} ELSE {}
        BY LinesIn
    <2>2. start = ((A \cup B) \cup C) \cup D
        BY <1>2
    <2> HIDE DEF A, B, C, D
    <2>3. \A f : Lines(start, f) = ((Lines(A, f) \cup Lines(B, f)) \cup Lines(C, f)) \cup Lines(D, f)
        <3> TAKE f
        <3>1. Lines(A \cup B, f) = Lines(A, f) \cup Lines(B, f)
            BY LinesOfBoth
        <3>2. Lines((A \cup B) \cup C, f) = Lines(A \cup B, f) \cup Lines(C, f)
            BY LinesOfBoth
        <3>3. Lines(((A \cup B) \cup C) \cup D, f) = Lines((A \cup B) \cup C, f) \cup Lines(D, f)
            BY LinesOfBoth
        <3> QED BY <2>2, <3>1, <3>2, <3>3
    <2> QED BY <2>1, <2>3
<1>5. load_allowlist(start, LegacyInventory) = listed
    BY <1>4 DEF load_allowlist, Header
<1>6. load_inventory(start, LegacyInventory) = importing
    <2> DEFINE Read(e) == <<e[1], canonical_forge_module(e[2])>>
    <2>1. load_inventory(start, LegacyInventory) = {Read(e) : e \in listed}
        BY <1>5 DEF load_inventory
    <2>2. /\ Read(<<"devloop/base.lua", "std.gitref">>) = <<"devloop/base.lua", "forge.gitref">>
          /\ Read(<<"devloop/misc.lua", "std.gitref">>) = <<"devloop/misc.lua", "forge.gitref">>
        BY DEF canonical_forge_module
    <2> HIDE DEF Read
    <2> QED BY <2>1, <2>2
<1>7. forge_imports_at_base([base |-> start]) = importing \cup SplitImports
    BY <1>3, <1>6 DEF forge_imports_at_base
<1>8. devloop_forge_imports(start) = importing
    BY <1>4 DEF devloop_forge_imports, DevloopFiles
<1> QED BY <1>1, <1>3, <1>7, <1>8 DEF CountedImports

LEMMA ForgeStep ==
    HistoryInv /\ ForgeInv /\ [Next]_vars => ForgeInv'
<1> SUFFICES ASSUME HistoryInv, ForgeInv, [Next]_vars
             PROVE  ForgeInv'
    OBVIOUS
<1>1. CASE ~Landing
    BY <1>1, OtherSteps DEF ForgeInv, Raced, Dev
<1>2. CASE Landing
    <2>1. PICK b, i, c : Landed(b, i, c)
        BY <1>2, LandingIs
    <2>2. SUFFICES ASSUME gate' = "forge", ~Raced'
                   PROVE  /\ {ForgeInventory, LegacyInventory} \cap Files(Dev') # {}
                          /\ CountedImports(forge_imports_at_base([base |-> Dev']))
                               = CountedImports(devloop_forge_imports(Dev'))
        BY DEF ForgeInv
    <2>3. Dev' = c.head
        BY <2>1, <2>2, UpToDate
    <2>4. gate = "forge" /\ Messages(gate, c) = {}
        BY <2>1, <2>2 DEF Landed
    <2>5. forge_import_messages(c) = {}
        BY <2>4 DEF Messages
    <2>6. /\ ForgeInventory \in Files(Dev')
          /\ CountedImports(load_inventory(Dev', ForgeInventory)) = CountedImports(devloop_forge_imports(Dev'))
        BY <2>3, <2>5, ForgePassed
    <2>7. forge_imports_at_base([base |-> Dev']) = load_inventory(Dev', ForgeInventory) \cup SplitImports
        BY <2>6 DEF forge_imports_at_base
    <2> QED BY <2>6, <2>7 DEF CountedImports
<1> QED BY <1>1, <1>2

(* ForgeImportsShrink: but for the imports the script exempts by name, a    *)
(* file of devloop comes to import a module of forge only when more files  *)
(* give that module up, whichever module it is: the facade takes it over   *)
(* (check_repo_std_dependency_model.py).                                   *)
THEOREM ForgeImportsRetreat ==
    Spec => ForgeImportsShrink
<1> DEFINE now == CountedImports(devloop_forge_imports(Dev'))
           was == CountedImports(devloop_forge_imports(Dev))
           Retreat == (Landing /\ gate = "forge" /\ ~Raced') =>
                        \A i \in now \ was : ImportCount(now, i[2]) < ImportCount(was, i[2])
<1>1. ASSUME HistoryInv, ForgeInv, [Next]_vars
      PROVE  Retreat
    <2> SUFFICES ASSUME Landing, gate = "forge", ~Raced', NEW x \in now \ was
                 PROVE  ImportCount(now, x[2]) < ImportCount(was, x[2])
        OBVIOUS
    <2>1. PICK b, i, c : Landed(b, i, c)
        BY <1>1, LandingIs
    <2>2. ~Raced /\ c.base = Dev /\ Dev' = c.head
        BY <1>1, <2>1, UpToDate
    <2>3. forge_import_messages(c) = {}
        BY <2>1 DEF Landed, Messages
    <2> DEFINE inventory == load_inventory(c.head, ForgeInventory)
               before == forge_imports_at_base(c)
    <2>4. {ForgeInventory, LegacyInventory} \cap Files(c.base) # {} /\ CountedImports(before) = was
        BY <1>1, <2>2, AtBase DEF ForgeInv
    <2>5. CountedImports(inventory) = now
        BY <2>2, <2>3, ForgePassed
    <2>6. \A y \in inventory \ before : is_replacing_import(y, inventory, before)
        BY <2>3, <2>4, ForgePassed
    <2> HIDE DEF inventory, before, now, was
    <2>7. x \in inventory \ before
        BY <2>4, <2>5 DEF CountedImports
    <2>8. x[2] \in ValidatorModules /\ ImportCount(inventory, x[2]) < ImportCount(before, x[2])
        BY <2>6, <2>7 DEF is_replacing_import
    <2>9. \A e \in SplitImports \cup SanctionedImports : e[2] \notin ValidatorModules
        BY DEF SplitImports, SanctionedImports, ValidatorModules
    <2>10. /\ {e \in inventory : e[2] = x[2]} = {e \in now : e[2] = x[2]}
           /\ {e \in before : e[2] = x[2]} = {e \in was : e[2] = x[2]}
        BY <2>4, <2>5, <2>8, <2>9 DEF CountedImports
    <2> QED BY <2>8, <2>10 DEF ImportCount
<1>2. HistoryInv /\ ForgeInv /\ [Next]_vars => [Retreat]_vars
    BY <1>1
<1>3. Init => HistoryInv /\ ForgeInv
    BY HistoryInit, ForgeInit
<1>4. HistoryInv /\ ForgeInv /\ [Next]_vars => (HistoryInv /\ ForgeInv)'
    BY HistoryStep, ForgeStep
<1> QED BY <1>2, <1>3, <1>4, PTL DEF Spec, ForgeImportsShrink

-----------------------------------------------------------------------------
(* The debt itself.                                                        *)

LEMMA SitesFinite ==
    ASSUME NEW tree, NEW file, IsTree(tree), NEW tokens, IsFiniteSet(tokens)
    PROVE  IsFiniteSet(Sites(tree, file, tokens))
<1> DEFINE src == Source(tree, file)
           At(i) == {<<file, surface_for_line(src, i), t, i>> : t \in src[i].tok \cap tokens}
           at == [i \in DOMAIN src |-> At(i)]
           all == {At(i) : i \in DOMAIN src}
<1>1. IsFiniteSet(DOMAIN src)
    <2>1. Cardinality(Lines(tree, file)) \in Nat
        BY LinesFinite, FS_CardinalityType
    <2>2. DOMAIN src = 1..Cardinality(Lines(tree, file))
        BY DEF Source
    <2> QED BY <2>1, <2>2, FS_Interval
<1> HIDE DEF src
<1>2. ASSUME NEW i \in DOMAIN src
      PROVE  IsFiniteSet(At(i))
    <2> DEFINE ts == src[i].tok \cap tokens
               site == [t \in ts |-> <<file, surface_for_line(src, i), t, i>>]
    <2>1. IsFiniteSet(ts)
        BY FS_Subset
    <2>2. site \in Surjection(ts, At(i))
        BY DEF Surjection
    <2> QED BY <2>1, <2>2, FS_Surjection
<1>3. IsFiniteSet(all)
    <2>1. at \in Surjection(DOMAIN src, all)
        <3> HIDE DEF At
        <3> QED BY DEF Surjection
    <2> QED BY <1>1, <2>1, FS_Surjection
<1>4. IsFiniteSet(UNION all)
    <2>1. \A S \in all : IsFiniteSet(S)
        BY <1>2
    <2> HIDE DEF all
    <2> QED BY <1>3, <2>1, FS_UNION
<1>5. Sites(tree, file, tokens) = UNION all
    BY Zenon DEF Sites, src
<1> QED BY <1>4, <1>5

(* The debts that are counted are finite.                                  *)
LEMMA DebtFinite ==
    ASSUME NEW g \in {"monotone", "coverage"}, NEW tree, IsTree(tree)
    PROVE  IsFiniteSet(Debt(g, tree))
<1>1. CASE g = "coverage"
    BY <1>1, UncoveredFinite DEF Debt
<1>2. CASE g = "monotone"
    <2>1. IsFiniteSet(CursorTokens)
        <3>1. IsFiniteSet({"current_state("} \cup {".state == "})
            BY FS_Singleton, FS_AddElement
        <3>2. CursorTokens = {"current_state("} \cup {".state == "}
            BY DEF CursorTokens
        <3> QED BY <3>1, <3>2
    <2> DEFINE one == Sites(tree, "devloop/replayer.lua", CursorTokens)
               other == Sites(tree, "devloop/required_facts.lua", CursorTokens)
    <2>2. IsFiniteSet(one) /\ IsFiniteSet(other)
        BY <2>1, SitesFinite
    <2>3. IsFiniteSet(one \cup other)
        BY <2>2, FS_Union
    <2>4. source_violations(tree) = one \cup other
        BY DEF source_violations, MonotoneFiles
    <2> QED BY <1>2, <2>3, <2>4 DEF Debt
<1> QED BY <1>1, <1>2

Countable(g, debt) == g \in {"monotone", "coverage"} => IsFiniteSet(debt)

LEMMA BucketIsNat ==
    ASSUME NEW debt, IsFiniteSet(debt), NEW k
    PROVE  /\ InBucket(debt, k) \in Nat /\ ContentCount(debt, k) \in Nat
           /\ InBucket(debt, k) = 0 <=> {v \in debt : canonical_key(v) = k} = {}
           /\ ContentCount(debt, k) = 0 <=> {v \in debt : v[2] = k} = {}
<1>1. ASSUME NEW B, B \subseteq debt
      PROVE  Cardinality(B) \in Nat /\ (Cardinality(B) = 0 <=> B = {})
    BY <1>1, FS_Subset, FS_CardinalityType, FS_EmptySet
<1> QED BY <1>1 DEF InBucket, ContentCount, content_key

LEMMA CountedNoMore ==
    ASSUME NEW new, NEW old
    PROVE  /\ NoMore("monotone", new, old)
                <=> \A v \in new : InBucket(new, canonical_key(v)) <= InBucket(old, canonical_key(v))
           /\ NoMore("coverage", new, old)
                <=> \A v \in new : ContentCount(new, v[2]) <= ContentCount(old, v[2])
           /\ NoMore("dedup", new, old) <=> \A e \in new : covered_by_base(e, old)
           /\ \A g : g \notin {"monotone", "coverage", "dedup"} => (NoMore(g, new, old) <=> new \subseteq old)
<1>1. \A entries, k : ContentCount(entries, k) = Cardinality({x \in entries : x[2] = k})
    BY DEF ContentCount, content_key
<1>2. NoMore("coverage", new, old) <=> \A v \in new : ContentCount(new, v[2]) <= ContentCount(old, v[2])
    BY <1>1 DEF NoMore
<1>3. NoMore("monotone", new, old)
         <=> \A v \in new : InBucket(new, canonical_key(v)) <= InBucket(old, canonical_key(v))
    BY DEF NoMore
<1>4. NoMore("dedup", new, old) <=> \A e \in new : covered_by_base(e, old)
    BY DEF NoMore
<1>5. \A g : g \notin {"monotone", "coverage", "dedup"} => (NoMore(g, new, old) <=> new \subseteq old)
    BY DEF NoMore
<1> QED BY <1>2, <1>3, <1>4, <1>5

LEMMA NoMoreThanItself ==
    ASSUME NEW g, NEW debt, Countable(g, debt)
    PROVE  NoMore(g, debt, debt)
<1>1. CASE g \in {"monotone", "coverage"}
    <2>1. IsFiniteSet(debt)
        BY <1>1 DEF Countable
    <2>2. \A k : InBucket(debt, k) <= InBucket(debt, k) /\ ContentCount(debt, k) <= ContentCount(debt, k)
        BY <2>1, BucketIsNat
    <2> QED BY <1>1, <2>2, CountedNoMore
<1>2. CASE g = "dedup"
    BY <1>2, CountedNoMore DEF covered_by_base
<1>3. CASE g \notin {"monotone", "coverage", "dedup"}
    BY <1>3, CountedNoMore
<1> QED BY <1>1, <1>2, <1>3

LEMMA NoMoreThanLess ==
    ASSUME NEW g, NEW a, NEW b, NEW c, Countable(g, a), Countable(g, b), Countable(g, c),
           NoMore(g, a, b), NoMore(g, b, c)
    PROVE  NoMore(g, a, c)
<1>1. CASE g = "monotone"
    <2>1. \A S \in {a, b, c} : \A k :
            InBucket(S, k) \in Nat /\ (InBucket(S, k) = 0 <=> {v \in S : canonical_key(v) = k} = {})
        BY <1>1, BucketIsNat DEF Countable
    <2>2. ASSUME NEW v \in a
          PROVE  InBucket(a, canonical_key(v)) <= InBucket(c, canonical_key(v))
        <3> DEFINE k == canonical_key(v)
        <3>1. InBucket(a, k) # 0 /\ InBucket(a, k) <= InBucket(b, k)
            BY <1>1, <2>1, CountedNoMore
        <3>2. InBucket(b, k) # 0
            BY <2>1, <3>1
        <3>3. PICK w \in b : canonical_key(w) = k
            BY <2>1, <3>2
        <3>4. InBucket(b, k) <= InBucket(c, k)
            BY <1>1, <3>3, CountedNoMore
        <3> HIDE DEF k
        <3>5. InBucket(a, k) <= InBucket(c, k)
            BY <2>1, <3>1, <3>4
        <3> QED BY <3>5 DEF k
    <2> QED BY <1>1, <2>2, CountedNoMore
<1>2. CASE g = "coverage"
    <2>1. \A S \in {a, b, c} : \A k :
            ContentCount(S, k) \in Nat /\ (ContentCount(S, k) = 0 <=> {v \in S : v[2] = k} = {})
        BY <1>2, BucketIsNat DEF Countable
    <2>2. ASSUME NEW v \in a
          PROVE  ContentCount(a, v[2]) <= ContentCount(c, v[2])
        <3> DEFINE k == v[2]
        <3>1. ContentCount(a, k) # 0 /\ ContentCount(a, k) <= ContentCount(b, k)
            BY <1>2, <2>1, CountedNoMore
        <3>2. ContentCount(b, k) # 0
            BY <2>1, <3>1
        <3>3. PICK w \in b : w[2] = k
            BY <2>1, <3>2
        <3>4. ContentCount(b, k) <= ContentCount(c, k)
            BY <1>2, <3>3, CountedNoMore
        <3> HIDE DEF k
        <3>5. ContentCount(a, k) <= ContentCount(c, k)
            BY <2>1, <3>1, <3>4
        <3> QED BY <3>5 DEF k
    <2> QED BY <1>2, <2>2, CountedNoMore
<1>3. CASE g = "dedup"
    BY <1>3, CountedNoMore DEF covered_by_base
<1>4. CASE g \notin {"monotone", "coverage", "dedup"}
    BY <1>4, CountedNoMore
<1> QED BY <1>1, <1>2, <1>3, <1>4

LEMMA AllListed ==
    ASSUME NEW current, NEW c, NEW file, shrink_only(current, c, file) = {}
    PROVE  current \subseteq load_allowlist(c.head, file)
BY DEF shrink_only, ratchet_messages

(* What a gate that is silent finds is listed on the branch.               *)
LEMMA PassedDebt ==
    ASSUME NEW g \in (DOMAIN ListOf) \ {"hidden"}, NEW c, IsTree(c.head), Messages(g, c) = {},
           g = "coverage" => c.artifact # "none" /\ RequiredFlag \in Files(c.head)
    PROVE  NoMore(g, Debt(g, c.head), load_allowlist(c.head, ListOf[g]))
<1> DEFINE file == ListOf[g]
           listed == load_allowlist(c.head, file)
           entries == g \notin {"monotone", "coverage", "dedup"}
<1>0. entries /\ Debt(g, c.head) \subseteq listed => NoMore(g, Debt(g, c.head), listed)
    <2> HIDE DEF listed
    <2>1. \A new, old : entries => (NoMore(g, new, old) <=> new \subseteq old)
        BY CountedNoMore
    <2> QED BY <2>1
<1>1. CASE g = "cycle"
    <2>1. Debt(g, c.head) \subseteq listed
        BY <1>1, AllListed DEF ListOf, cycle_messages, Messages, Debt
    <2> QED BY <1>0, <1>1, <2>1
<1>2. CASE g = "layering"
    <2>1. shrink_only(layering_sites(c.head), c, LayeringAllowlist) = {}
        BY <1>2 DEF Messages, layering_messages
    <2>2. Debt(g, c.head) \subseteq listed
        BY <1>2, <2>1, AllListed DEF ListOf, Debt
    <2> QED BY <1>0, <1>2, <2>2
<1>3. CASE g = "liveness"
    <2>1. shrink_only(producer_debt(c.head), c, LivenessAllowlist) = {}
        BY <1>3 DEF Messages, producer_liveness_messages
    <2>2. Debt(g, c.head) \subseteq listed
        BY <1>3, <2>1, AllListed DEF ListOf, Debt
    <2> QED BY <1>0, <1>3, <2>2
<1>4. CASE g = "dialogue"
    <2>1. shrink_only(source_surfaces(c.head) \cup manifest_surfaces(c.head), c, DialogueAllowlist) = {}
        BY <1>4 DEF Messages, dialogue_messages
    <2>2. Debt(g, c.head) \subseteq listed
        BY <1>4, <2>1, AllListed DEF ListOf, Debt
    <2> QED BY <1>0, <1>4, <2>2
<1>5. CASE g = "truncation"
    <2>1. Debt(g, c.head) \subseteq listed
        BY <1>5, AllListed DEF ListOf, truncation_messages, Messages, Debt
    <2> QED BY <1>0, <1>5, <2>1
<1>6. CASE g = "handle"
    <2>1. handle_messages(c) = {} /\ file = HandleInventory /\ Debt(g, c.head) = handle_debt(c.head)
        BY <1>6 DEF Messages, ListOf, Debt
    <2>2. handle_debt(c.head) \subseteq load_allowlist(c.head, HandleInventory)
        BY <2>1 DEF handle_messages, ratchet_messages
    <2> QED BY <1>0, <1>6, <2>1, <2>2
<1>7. CASE g = "login"
    <2>1. Debt(g, c.head) \subseteq listed
        BY <1>7, AllListed DEF ListOf, login_messages, Messages, Debt
    <2> QED BY <1>0, <1>7, <2>1
<1>8. CASE g = "error"
    <2>1. error_class_messages(c) = {} /\ file = ErrorAllowlist /\ Debt(g, c.head) = current_sites(c.head)
        BY <1>8 DEF Messages, ListOf, Debt
    <2> DEFINE found == ratchet_messages(current_sites(c.head), load_allowlist(c.head, ErrorAllowlist),
                                         grown(c, ErrorAllowlist))
    <2>2. found \ {"stale entry"} = {}
        BY <2>1 DEF error_class_messages
    <2>3. \A x \in current_sites(c.head) \ load_allowlist(c.head, ErrorAllowlist) : "new debt" \in found
        BY DEF ratchet_messages
    <2> HIDE DEF found
    <2>4. "new debt" \notin found
        <3>1. "new debt" # "stale entry"
            OBVIOUS
        <3> QED BY <2>2, <3>1, Zenon
    <2>5. current_sites(c.head) \subseteq load_allowlist(c.head, ErrorAllowlist)
        BY <2>3, <2>4
    <2> QED BY <1>0, <1>8, <2>1, <2>5
<1>9. CASE g = "suffix"
    <2>1. Debt(g, c.head) \subseteq listed
        BY <1>9, AllListed DEF ListOf, version_suffix_messages, Messages, Debt
    <2> QED BY <1>0, <1>9, <2>1
<1>10. CASE g = "surface"
    <2>1. Debt(g, c.head) \subseteq listed
        BY <1>10, AllListed DEF ListOf, surface_messages, Messages, Debt
    <2> QED BY <1>0, <1>10, <2>1
<1>11. CASE g = "saga"
    <2> DEFINE saga == {<<d>> : d \in {x \in DepartmentsOf(c.head) : is_saga_handler_source(c.head, x)}}
               all == {<<d>> : d \in DepartmentsOf(c.head)}
               free == {<<d>> : d \in {x \in DepartmentsOf(c.head) : ~is_saga_handler_source(c.head, x)}}
               unlisted == (all \ saga) \ load_allowlist(c.head, SagaAllowlist)
    <2>1. file = SagaAllowlist /\ Debt(g, c.head) = free /\ saga_handler_messages(c) = {}
        BY <1>11 DEF Messages, ListOf, Debt
    <2>2. {"free-form not listed" : d \in unlisted} = {}
        BY <2>1, Zenon DEF saga_handler_messages
    <2>3. free \subseteq all \ saga
        OBVIOUS
    <2>4. unlisted = {}
        <3> HIDE DEF unlisted
        <3> QED BY <2>2
    <2>5. free \subseteq load_allowlist(c.head, SagaAllowlist)
        <3> HIDE DEF free, all, saga
        <3> QED BY <2>3, <2>4 DEF unlisted
    <2> QED BY <1>0, <1>11, <2>1, <2>5
<1>12. CASE g = "split"
    <2>1. Debt(g, c.head) \subseteq listed
        BY <1>12, AllListed DEF ListOf, saga_split_messages, Messages, Debt
    <2> QED BY <1>0, <1>12, <2>1
<1>13. CASE g = "dedup"
    <2>1. dedup_messages(c) = {} /\ file = DedupAllowlist /\ Debt(g, c.head) = duplicate_groups(c.head)
        BY <1>13 DEF Messages, ListOf, Debt
    <2>2. duplicate_groups(c.head) \subseteq load_allowlist(c.head, DedupAllowlist)
        BY <2>1 DEF dedup_messages, ratchet_messages
    <2>3. \A e \in duplicate_groups(c.head) : covered_by_base(e, load_allowlist(c.head, DedupAllowlist))
        BY <2>2 DEF covered_by_base
    <2> QED BY <1>13, <2>1, <2>3, CountedNoMore
<1>14. CASE g = "monotone"
    <2> DEFINE list == load_allowlist(c.head, MonotoneAllowlist)
               current == source_violations(c.head)
    <2>1. monotone_messages(c) = {} /\ file = MonotoneAllowlist /\ Debt(g, c.head) = current
        BY <1>14 DEF Messages, ListOf, Debt
    <2>2. PICK hasBase, base : monotone_ratchet(current, list, hasBase, base) = {}
        BY <2>1 DEF monotone_messages
    <2>3. \A k \in {canonical_key(v) : v \in current \cup list} : ~(InBucket(current, k) > InBucket(list, k))
        BY <2>2 DEF monotone_ratchet
    <2>4. \A k : InBucket(list, k) \in Nat /\ InBucket(current, k) \in Nat
        <3>1. IsFiniteSet(current)
            BY <1>14, <2>1, DebtFinite
        <3> QED BY <3>1, BucketIsNat, CountIsNat
    <2> HIDE DEF list, current
    <2>5. \A v \in current : InBucket(current, canonical_key(v)) <= InBucket(list, canonical_key(v))
        BY <2>3, <2>4
    <2>6. NoMore("monotone", current, list)
        BY <2>5, CountedNoMore
    <2> QED BY <1>14, <2>1, <2>6 DEF list
<1>15. CASE g = "coverage"
    <2> DEFINE list == load_allowlist(c.head, CoverageAllowlist)
               uncovered == uncovered_from_artifact(canonical_coverage_artifact(c.head))
    <2>1. coverage_messages(c) = {} /\ file = CoverageAllowlist /\ Debt(g, c.head) = uncovered
        BY <1>15 DEF Messages, ListOf, Debt
    <2>2. coverage_ratchet(uncovered, c) = {}
        BY <1>15, <2>1 DEF coverage_messages
    <2>3. Exceeds(uncovered, list) = {}
        BY <2>2 DEF coverage_ratchet
    <2>4. \A k : ContentCount(list, k) \in Nat /\ ContentCount(uncovered, k) \in Nat
        <3>1. IsFiniteSet(uncovered)
            BY UncoveredFinite
        <3> QED BY <3>1, BucketIsNat, CountIsNat
    <2> HIDE DEF list, uncovered
    <2>5. \A v \in uncovered : ContentCount(uncovered, v[2]) <= ContentCount(list, v[2])
        BY <2>3, <2>4 DEF Exceeds, content_key
    <2>6. NoMore("coverage", uncovered, list)
        BY <2>5, CountedNoMore
    <2> QED BY <1>15, <2>1, <2>6 DEF list
<1> QED BY <1>1, <1>2, <1>3, <1>4, <1>5, <1>6, <1>7, <1>8, <1>9, <1>10, <1>11, <1>12, <1>13, <1>14, <1>15
        DEF ListOf

LEMMA LibraryDebtShrinks ==
    ASSUME NEW c, library_error_messages(c) = {}
    PROVE  library_sites_for_source(c.head) \subseteq library_sites_for_source(c.target)
<1>1. c.resolved /\ library_sites_for_source(c.head) \subseteq target_library_sites(c)
    BY DEF library_error_messages
<1>2. Lines(c.head, LibraryErrorFile) = Lines(c.target, LibraryErrorFile)
          => library_sites_for_source(c.head) = library_sites_for_source(c.target)
    BY Zenon DEF library_sites_for_source, unclassified_error_calls
<1> QED BY <1>1, <1>2 DEF target_library_sites

(* What dev lists is no more than what the gate found at the start, and    *)
(* the first commit stays the first.                                       *)
DebtInv ==
    /\ 1 \in 1..Len(log)
    /\ (gate \in (DOMAIN ListOf) \ {"hidden"} /\ GateKept /\ ~Raced /\ ~Deferred) =>
            NoMore(gate, load_allowlist(Dev, ListOf[gate]), Debt(gate, log[1].tree))

LEMMA DebtInit ==
    Init => DebtInv /\ DebtNeverGrows
<1> SUFFICES ASSUME Init
             PROVE  DebtInv /\ DebtNeverGrows
    OBVIOUS
<1>1. Len(log) = 1 /\ Dev = StartTree(gate) /\ log[1].tree = StartTree(gate) /\ gate \in AllGates
    BY GatesAssumption DEF Init, Dev
<1>2. DebtInv
    BY <1>1, StartAssumption DEF DebtInv
<1>3. Countable(gate, Debt(gate, StartTree(gate)))
    BY <1>1, ScenarioAssumption, DebtFinite DEF Countable
<1>4. NoMore(gate, Debt(gate, Dev), Debt(gate, log[1].tree))
    BY <1>1, <1>3, NoMoreThanItself
<1> QED BY <1>2, <1>4 DEF DebtNeverGrows

LEMMA DebtStep ==
    ListInv /\ DebtInv /\ DebtNeverGrows /\ [Next]_vars => (DebtInv /\ DebtNeverGrows)'
<1> SUFFICES ASSUME ListInv, DebtInv, DebtNeverGrows, [Next]_vars
             PROVE  (DebtInv /\ DebtNeverGrows)'
    OBVIOUS
<1> USE DEF ListInv
<1>1. CASE ~Landing
    <2>1. gate' = gate /\ log' = log
        BY <1>1, OtherSteps
    <2>2. Dev' = Dev /\ (Raced' <=> Raced) /\ (Deferred' <=> Deferred) /\ (GateKept' <=> GateKept)
        BY <2>1 DEF Dev, Raced, Deferred, GateKept
    <2> QED BY <2>1, <2>2 DEF DebtInv, DebtNeverGrows
<1>2. CASE Landing
    <2>1. PICK b, i, c : Landed(b, i, c)
        BY <1>2, LandingIs
    <2>2. PICK S : log \in Seq(S)
        BY DEF HistoryInv
    <2>3. /\ gate' = gate /\ Messages(gate, c) = {} /\ c.target = Dev /\ b \in Branches /\ branch[b].open
          /\ c.head = branch[b].head
          /\ Len(log) \in Nat /\ Len(log') = Len(log) + 1 /\ \A k \in 1..Len(log) : log'[k] = log[k]
        BY <2>1, <2>2 DEF Landed
    <2>4. 1 \in 1..Len(log) /\ 1 \in 1..Len(log') /\ log'[1] = log[1]
        BY <2>3 DEF DebtInv
    <2>5. /\ Len(log) \in 1..Len(log) /\ Len(log') \in 1..Len(log')
          /\ \A k \in 1..Len(log) : k \in 1..Len(log') /\ log'[k] = log[k]
        BY <2>3 DEF HistoryInv
    <2>6. SUFFICES ASSUME GateKept', ~Raced', ~Deferred', gate \in (DOMAIN ListOf) \cup {"liberror"}
                   PROVE  /\ gate \in (DOMAIN ListOf) \ {"hidden"} =>
                               NoMore(gate, load_allowlist(Dev', ListOf[gate]), Debt(gate, log[1].tree))
                          /\ NoMore(gate, Debt(gate, Dev'), Debt(gate, log[1].tree))
        BY <2>3, <2>4 DEF DebtInv, DebtNeverGrows
    <2>7. GateKept /\ ~Raced /\ ~Deferred
        BY <2>3, <2>5, <2>6 DEF GateKept, Raced, Deferred
    <2>8. Dev' = c.head
        BY <2>1, <2>6, UpToDate
    <2>9. IsTree(Dev) /\ IsTree(c.head) /\ IsTree(log[1].tree)
        BY <2>3, <2>4, <2>5 DEF TreesInv, Dev
    <2>10. CASE gate \in (DOMAIN ListOf) \ {"hidden"}
        <3> DEFINE new == Debt(gate, Dev')
                   first == Debt(gate, log[1].tree)
                   list == load_allowlist(Dev', ListOf[gate])
                   before == load_allowlist(Dev, ListOf[gate])
        <3>1. NoMore(gate, list, before)
            BY <1>2, <2>6, <2>7, <2>10, ListsStep
        <3>2. NoMore(gate, before, first)
            BY <2>7, <2>10 DEF DebtInv
        <3>3. NoMore(gate, new, list)
            <4>1. gate = "coverage" => c.artifact # "none" /\ RequiredFlag \in Files(c.head)
                <5>1. ASSUME gate = "coverage"
                      PROVE  c.artifact # "none" /\ RequiredFlag \in Files(c.head)
                    <6>1. c.artifact # "none"
                        BY <2>1, <2>5, <2>6, <5>1 DEF Deferred, Landed
                    <6>2. RequiredFlag \in Files(Dev')
                        BY <2>3, <2>5, <2>6, <5>1 DEF GateKept, Dev
                    <6> QED BY <2>8, <6>1, <6>2
                <5> QED BY <5>1
            <4> QED BY <2>3, <2>8, <2>9, <2>10, <4>1, PassedDebt
        <3>4. Countable(gate, new) /\ Countable(gate, first)
            BY <2>8, <2>9, DebtFinite DEF Countable
        <3>5. Countable(gate, list) /\ Countable(gate, before)
            BY <2>8, <2>9, LinesFinite, FS_Subset DEF Countable, load_allowlist
        <3> HIDE DEF new, first, list, before
        <3>6. NoMore(gate, list, first)
            BY <3>1, <3>2, <3>4, <3>5, NoMoreThanLess
        <3>7. NoMore(gate, new, first)
            BY <3>3, <3>4, <3>5, <3>6, NoMoreThanLess
        <3> QED BY <3>6, <3>7 DEF new, first, list
    <2>11. CASE gate = "hidden"
        <3>1. \A tree : Debt("hidden", tree) = {}
            BY DEF Debt
        <3>2. NoMore("hidden", {}, {})
            BY DEF NoMore
        <3> QED BY <2>11, <3>1, <3>2
    <2>12. CASE gate = "liberror"
        <3>1. \A tree : Debt(gate, tree) = library_sites_for_source(tree)
            BY <2>12 DEF Debt
        <3>2. library_error_messages(c) = {}
            BY <2>3, <2>12 DEF Messages
        <3>3. Debt(gate, Dev') \subseteq Debt(gate, Dev)
            BY <2>3, <2>8, <3>1, <3>2, LibraryDebtShrinks
        <3>4. NoMore(gate, Debt(gate, Dev), Debt(gate, log[1].tree))
            BY <2>7, <2>12 DEF DebtNeverGrows
        <3>5. Debt(gate, Dev) \subseteq Debt(gate, log[1].tree)
            BY <2>12, <3>4 DEF NoMore
        <3>6. Debt(gate, Dev') \subseteq Debt(gate, log[1].tree)
            BY <3>3, <3>5
        <3>7. NoMore(gate, Debt(gate, Dev'), Debt(gate, log[1].tree))
            BY <2>12, <3>6 DEF NoMore
        <3>8. gate \notin DOMAIN ListOf
            BY <2>12 DEF ListOf
        <3> QED BY <3>7, <3>8
    <2> QED BY <2>6, <2>10, <2>11, <2>12
<1> QED BY <1>1, <1>2

(* DebtNeverGrows, for any number of landings: a gate that compares found  *)
(* debt with its list and its list with the base's keeps what it finds on  *)
(* dev within what it found at the start (ratchet_base.py and the gates    *)
(* over allowlists).                                                       *)
THEOREM DebtOnlyShrinks ==
    Spec => []DebtNeverGrows
<1>1. Init => ListInv /\ DebtInv /\ DebtNeverGrows
    BY HistoryInit, TreesInit, HeaderInit, DebtInit DEF ListInv
<1>2. ListInv /\ DebtInv /\ DebtNeverGrows /\ [Next]_vars => (ListInv /\ DebtInv /\ DebtNeverGrows)'
    BY HistoryStep, TreesStep, HeaderStep, DebtStep DEF ListInv
<1> QED BY <1>1, <1>2, PTL DEF Spec

-----------------------------------------------------------------------------
(* Require cycles.                                                         *)

LEMMA RequiresAreAGraph == \A tree : IsGraph(dependency_graph(tree))
BY DEF IsGraph, dependency_graph

(* CyclesAreCycles, for any trees: what the gate lists are the sets of     *)
(* modules that can be put in a ring of requires, all of them, each once   *)
(* (strongly_connected_components, simple_cycles_in_component and          *)
(* cycles_from_graph of check_repo_dependency_cycle.py).                   *)
THEOREM CyclesAreFound ==
    Spec => []CyclesAreCycles
<1>1. CyclesAreCycles
  <2> SUFFICES ASSUME NEW tree
               PROVE  LET graph == dependency_graph(tree)
                          Rings(S) == {r \in [1..Cardinality(S) -> S] :
                              /\ \A x \in S : \E i \in DOMAIN r : r[i] = x
                              /\ \A i \in DOMAIN r : r[(i % Cardinality(S)) + 1] \in graph[r[i]]}
                      IN cycles_from_graph(graph) =
                             {Sorted(S) : S \in {x \in (SUBSET DOMAIN graph) \ {{}} : Rings(x) # {}}}
      BY DEF CyclesAreCycles
  <2> DEFINE graph == dependency_graph(tree)
             Rings(S) == {r \in [1..Cardinality(S) -> S] :
                /\ \A x \in S : \E i \in DOMAIN r : r[i] = x
                /\ \A i \in DOMAIN r : r[(i % Cardinality(S)) + 1] \in graph[r[i]]}
  <2>1. IsGraph(graph)
      BY RequiresAreAGraph
  <2> HIDE DEF graph
  <2>2. ASSUME NEW S \in (SUBSET DOMAIN graph) \ {{}}
        PROVE  HasRing(graph, S) <=> Rings(S) # {}
    <3>1. S \in SUBSET ToSet(LibraryOrder)
        BY <2>1 DEF IsGraph
    <3>2. IsFiniteSet(S) /\ Cardinality(S) \in Nat
        BY <3>1, ModulesAreFinite
    <3>3. Cardinality(S) # 0
        BY <3>2, FS_EmptySet
    <3>4. Cardinality(S) >= 1
        BY <3>2, <3>3
    <3> QED BY <3>2, <3>4, RingsAre
  <2> HIDE DEF Rings
  <2>3. cycles_from_graph(graph) =
            {Sorted(S) : S \in {x \in (SUBSET DOMAIN graph) \ {{}} : HasRing(graph, x)}}
      BY <2>1, CyclesAre
  <2>4. {x \in (SUBSET DOMAIN graph) \ {{}} : HasRing(graph, x)} =
            {x \in (SUBSET DOMAIN graph) \ {{}} : Rings(x) # {}}
      BY <2>2
  <2>5. cycles_from_graph(graph) =
            {Sorted(S) : S \in {x \in (SUBSET DOMAIN graph) \ {{}} : Rings(x) # {}}}
      BY <2>3, <2>4
  <2> QED BY <2>5 DEF graph, Rings
<1> QED BY <1>1, PTL

-----------------------------------------------------------------------------
(* The trees of a scenario.                                                *)

(* Every tree of the history is one of these.                              *)
Among(Good) ==
    /\ \A i \in 1..Len(log) : log[i].tree \in Good
    /\ \A b \in Branches : branch[b].head \in Good \/ (branch[b].head = {} /\ ~branch[b].open)

(* The steps of a branch under the gate g do not lead out of them.         *)
Steady(g, Good) ==
    /\ g \notin {"replay", "anomaly", "lifecycle"}
    /\ \A s \in Good : /\ \A e \in Edits(g) : Toggle(s, e) \in Good
                       /\ g = "coverage" => write_current_uncovered(s) \in Good
    /\ \A s, t, u \in Good : Merge(s, t, u) \in Good

LEMMA GateStays ==
    HistoryInv /\ [Next]_vars => gate' = gate
<1> SUFFICES ASSUME HistoryInv, [Next]_vars PROVE gate' = gate
    OBVIOUS
<1>1. CASE Landing
  <2>1. PICK b, i, c : Landed(b, i, c)
      BY <1>1, LandingIs
  <2> QED BY <2>1 DEF Landed
<1>2. CASE ~Landing
    BY <1>2, OtherSteps
<1> QED BY <1>1, <1>2

LEMMA AmongInit ==
    ASSUME Init, NEW Good, StartTree(gate) \in Good
    PROVE  Among(Good)
<1>1. \A b \in Branches : branch[b].head = {} /\ ~branch[b].open
    BY DEF Init, Closed
<1>2. Len(log) = 1 /\ log[1].tree = StartTree(gate)
    BY DEF Init
<1>3. \A i \in 1..Len(log) : i = 1
    BY <1>2
<1> QED BY <1>1, <1>2, <1>3 DEF Among

LEMMA AmongStep ==
    ASSUME HistoryInv, [Next]_vars, NEW Good, Among(Good), Steady(gate, Good)
    PROVE  Among(Good)'
<1>1. PICK S : log \in Seq(S)
    BY DEF HistoryInv
<1>2. Len(log) \in Nat /\ Len(log) \in 1..Len(log)
    BY <1>1 DEF HistoryInv
<1>3. \A i \in 1..Len(log) : log[i].tree \in Good
    BY DEF Among
<1>4. Dev \in Good
    BY <1>2, <1>3 DEF Dev
<1>5. \A b \in Branches : branch[b].open => branch[b].head \in Good
    BY DEF Among
<1>6. ASSUME NEW b \in Branches
      PROVE  branch'[b].head \in Good \/ (branch'[b].head = {} /\ ~branch'[b].open)
  <2>1. CASE branch'[b] = branch[b]
      BY <2>1 DEF Among
  <2>2. ASSUME branch[b].open, NewHead(b, branch[b].head, branch'[b].head)
        PROVE  branch'[b].head \in Good
    <3> DEFINE old == branch[b].head
               new == branch'[b].head
               base == log[branch[b].base].tree
    <3>1. old \in Good /\ base \in Good
        BY <1>3, <1>5, <2>2 DEF HistoryInv
    <3>2. gate \notin {"replay", "anomaly", "lifecycle"}
        BY DEF Steady
    <3>3. \/ \E facts \in Edits(gate) : new = Toggle(old, facts)
          \/ gate = "coverage" /\ new = write_current_uncovered(old)
          \/ new = Merge(base, Dev, old)
        BY <2>2, <3>2 DEF NewHead
    <3> HIDE DEF old, new, base
    <3>4. new \in Good
        BY <1>4, <3>1, <3>3 DEF Steady
    <3> QED BY <3>4 DEF new
  <2> QED BY <1>4, <1>5, <2>1, <2>2, HeadStep
<1>7. \A i \in 1..Len(log') : log'[i].tree \in Good
  <2>1. CASE Landing
    <3>1. PICK b, i, c : Landed(b, i, c)
        BY <2>1, LandingIs
    <3>2. c.base \in Good /\ c.head \in Good
        BY <1>3, <1>5, <3>1 DEF Landed
    <3>3. Merge(c.base, c.head, Dev) \in Good
        BY <1>4, <3>2 DEF Steady
    <3>4. Dev' \in Good
        BY <3>1, <3>3 DEF Landed
    <3>5. \A k \in 1..Len(log') : k \in 1..Len(log) \/ k = Len(log')
        BY <1>2, <3>1 DEF Landed
    <3> QED BY <1>3, <3>1, <3>4, <3>5 DEF Landed, Dev
  <2>2. CASE ~Landing
      BY <1>3, <2>2, OtherSteps
  <2> QED BY <2>1, <2>2
<1> QED BY <1>6, <1>7 DEF Among

(* What a scenario's trees are made of.                                    *)
Facts(g) == StartTree(g) \cup UNION Edits(g)

LEMMA SubsetsSteady ==
    ASSUME NEW g, g \notin {"replay", "anomaly", "lifecycle", "coverage"}
    PROVE  Steady(g, SUBSET Facts(g)) /\ StartTree(g) \in SUBSET Facts(g)
BY DEF Steady, Facts, Toggle, Merge

-----------------------------------------------------------------------------
(* Logins.                                                                 *)

(* A tree and some of the edits; edits that are apart.                     *)
Whole(A, E, tree) == \E S \in SUBSET E : tree = A \cup UNION S
Apart(A, E) == \A e \in E : e \cap A = {} /\ \A f \in E : e = f \/ e \cap f = {}

(* The trees of the scenario: the first one with some of the edits.        *)
LoginTrees == {StartTree("login") \cup UNION S : S \in SUBSET Edits("login")}

LoginInv == gate = "login" => Among(LoginTrees)

LEMMA OneEdit ==
    ASSUME NEW A, NEW E, Apart(A, E), NEW X \in SUBSET E, NEW f \in E, NEW x \in f
    PROVE  /\ x \in A \cup UNION X <=> f \in X
           /\ \A e \in E : x \in e <=> e = f
<1>1. x \notin A
    BY DEF Apart
<1>2. \A g \in E : x \in g => g = f
    BY DEF Apart
<1> QED BY <1>1, <1>2

(* Edits that are apart stay whole when they are made or taken back ...    *)
LEMMA WholeToggle ==
    ASSUME NEW A, NEW E, Apart(A, E), NEW s, Whole(A, E, s), NEW e \in E
    PROVE  Whole(A, E, Toggle(s, e))
<1>1. PICK S \in SUBSET E : s = A \cup UNION S
    BY DEF Whole
<1> DEFINE X == (S \ {e}) \cup ({e} \ S)
           left == Toggle(s, e)
<1>2. X \in SUBSET E
    OBVIOUS
<1>3. ASSUME NEW x PROVE x \in left <=> x \in A \cup UNION X
  <2>1. CASE x \in A
    <3>1. x \in s /\ x \notin e
        BY <1>1, <2>1 DEF Apart
    <3> QED BY <2>1, <3>1 DEF Toggle
  <2>2. ASSUME NEW f \in E, x \in f PROVE x \in left <=> x \in A \cup UNION X
    <3>1. x \in A \cup UNION X <=> f \in X
      <4> HIDE DEF X
      <4> QED BY <1>2, <2>2, OneEdit
    <3>2. x \in A \cup UNION S <=> f \in S
        BY <2>2, OneEdit
    <3>3. x \in e <=> e = f
        BY <2>2, OneEdit
    <3>4. x \in left <=> (f \in S /\ f # e) \/ (f = e /\ f \notin S)
        BY <1>1, <3>2, <3>3 DEF Toggle
    <3> QED BY <3>1, <3>4
  <2>3. ASSUME x \notin A, \A f \in E : x \notin f PROVE x \in left <=> x \in A \cup UNION X
    <3>1. x \notin s /\ x \notin e /\ x \notin UNION X
        BY <1>1, <2>3
    <3> QED BY <2>3, <3>1 DEF Toggle
  <2> QED BY <2>1, <2>2, <2>3
<1>4. left = A \cup UNION X
  <2> HIDE DEF left, X
  <2> QED BY <1>3
<1> QED BY <1>2, <1>4 DEF Whole

(* ... and when two branches are merged.                                   *)
LEMMA WholeMerge ==
    ASSUME NEW A, NEW E, Apart(A, E),
           NEW s, Whole(A, E, s), NEW t, Whole(A, E, t), NEW u, Whole(A, E, u)
    PROVE  Whole(A, E, Merge(s, t, u))
<1>1. PICK S \in SUBSET E : s = A \cup UNION S
    BY DEF Whole
<1>2. PICK T \in SUBSET E : t = A \cup UNION T
    BY DEF Whole
<1>3. PICK U \in SUBSET E : u = A \cup UNION U
    BY DEF Whole
<1> DEFINE X == (U \ (S \ T)) \cup (T \ S)
           left == Merge(s, t, u)
<1>4. X \in SUBSET E
    OBVIOUS
<1>5. ASSUME NEW x PROVE x \in left <=> x \in A \cup UNION X
  <2>1. CASE x \in A
    <3>1. x \in s /\ x \in t /\ x \in u
        BY <1>1, <1>2, <1>3, <2>1
    <3> QED BY <2>1, <3>1 DEF Merge
  <2>2. ASSUME NEW f \in E, x \in f PROVE x \in left <=> x \in A \cup UNION X
    <3>1. x \in A \cup UNION X <=> f \in X
      <4> HIDE DEF X
      <4> QED BY <1>4, <2>2, OneEdit
    <3>2. x \in A \cup UNION S <=> f \in S
        BY <2>2, OneEdit
    <3>3. x \in A \cup UNION T <=> f \in T
        BY <2>2, OneEdit
    <3>4. x \in A \cup UNION U <=> f \in U
        BY <2>2, OneEdit
    <3>5. x \in left <=> (f \in U /\ ~(f \in S /\ f \notin T)) \/ (f \in T /\ f \notin S)
        BY <1>1, <1>2, <1>3, <3>2, <3>3, <3>4 DEF Merge
    <3> QED BY <3>1, <3>5
  <2>3. ASSUME x \notin A, \A f \in E : x \notin f PROVE x \in left <=> x \in A \cup UNION X
    <3>1. x \notin t /\ x \notin u /\ x \notin UNION X
        BY <1>2, <1>3, <2>3
    <3> QED BY <2>3, <3>1 DEF Merge
  <2> QED BY <2>1, <2>2, <2>3
<1>6. left = A \cup UNION X
  <2> HIDE DEF left, X
  <2> QED BY <1>5
<1> QED BY <1>4, <1>6 DEF Whole

LEMMA LoginSteady ==
    /\ Steady("login", LoginTrees) /\ StartTree("login") \in LoginTrees
    /\ \A s \in LoginTrees : WellNested(Source(s, LoginFile))
<1> DEFINE A == StartTree("login")
           E == Edits("login")
<1>1. Apart(A, E)
    BY LoginAssumption DEF Apart
<1>2. \A S \in SUBSET E : WellNested(Source(A \cup UNION S, LoginFile))
    BY LoginAssumption
<1>3. \A x : x \in LoginTrees <=> Whole(A, E, x)
    BY DEF LoginTrees, Whole
<1> HIDE DEF A, E
<1>4. \A s \in LoginTrees, e \in E : Toggle(s, e) \in LoginTrees
    BY <1>1, <1>3, WholeToggle
<1>5. \A s, t, u \in LoginTrees : Merge(s, t, u) \in LoginTrees
    BY <1>1, <1>3, WholeMerge
<1>6. \A s \in LoginTrees : WellNested(Source(s, LoginFile))
    BY <1>2, <1>3 DEF Whole
<1>7. A \in LoginTrees
  <2>1. {} \in SUBSET E /\ A = A \cup UNION {}
      OBVIOUS
  <2> QED BY <1>3, <2>1 DEF Whole
<1> QED BY <1>4, <1>5, <1>6, <1>7 DEF Steady, A, E

LEMMA LoginInit ==
    Init => LoginInv
BY LoginSteady, AmongInit DEF LoginInv

LEMMA LoginStep ==
    HistoryInv /\ LoginInv /\ [Next]_vars => LoginInv'
<1> SUFFICES ASSUME HistoryInv, LoginInv, [Next]_vars, gate' = "login" PROVE Among(LoginTrees)'
    BY DEF LoginInv
<1>1. gate = "login" /\ Among(LoginTrees)
    BY GateStays DEF LoginInv
<1>2. Steady(gate, LoginTrees)
    BY <1>1, LoginSteady
<1> QED BY <1>1, <1>2, AmongStep

LEMMA SourceIsSource ==
    ASSUME NEW tree, NEW file, IsTree(tree)
    PROVE  IsSource(Source(tree, file))
<1> DEFINE n == Cardinality(Lines(tree, file))
           text(i) == (CHOOSE l \in Lines(tree, file) : LineNumber(tree, file, l) = i)[2]
           T == {text(i) : i \in 1..n}
<1>1. n \in Nat
    BY LinesFinite, FS_CardinalityType
<1>2. Source(tree, file) = [i \in 1..n |-> text(i)]
    BY DEF Source
<1>3. \A i \in 1..n : text(i) \in T
    OBVIOUS
<1> HIDE DEF n, text, T
<1>4. [i \in 1..n |-> text(i)] \in Seq(T)
    BY <1>1, <1>3
<1> QED BY <1>2, <1>4 DEF IsSource

(* CanonicalIsCanonical: on every branch a comparison, or a look-up under  *)
(* a login's name, that the login gate passes uses a name whose value by   *)
(* Lua's scopes is the canonical login, if no loop earlier in the file     *)
(* declares one of the names: the gate's own stack of scopes takes the     *)
(* binding of another variable of that name behind a loop variable only    *)
(* (check_repo_bot_login_mediation.py, _binding_states_before and          *)
(* _visible_bindings).                                                     *)
THEOREM CanonicalIs ==
    Spec => []CanonicalIsCanonical
<1>1. HistoryInv /\ TreesInv /\ LoginInv => CanonicalIsCanonical
  <2> SUFFICES ASSUME TreesInv, LoginInv, gate = "login", NEW b \in Branches
               PROVE  LET src == Source(branch[b].head, LoginFile)
                      IN \A j \in DOMAIN src :
                             PassesAsCanonical(src, j) /\ NoLoopVariable(src, j) => CanonicalAt(src, j)
      BY DEF CanonicalIsCanonical
  <2> DEFINE src == Source(branch[b].head, LoginFile)
  <2>1. IsSource(src)
      BY SourceIsSource DEF TreesInv
  <2>2. CASE branch[b].head \in LoginTrees
    <3>1. WellNested(src)
        BY <2>2, LoginSteady
    <3> HIDE DEF src
    <3>2. \A j \in DOMAIN src : PassesAsCanonical(src, j) /\ NoLoopVariable(src, j) => CanonicalAt(src, j)
        BY <2>1, <3>1, PassedIsCanonical
    <3> QED BY <3>2 DEF src
  <2>3. CASE branch[b].head = {}
    <3>1. Lines({}, LoginFile) = {}
        BY DEF Lines
    <3>2. DOMAIN src = {}
        BY <2>3, <3>1, FS_EmptySet DEF Source
    <3> QED BY <3>2
  <2> QED BY <2>2, <2>3 DEF LoginInv, Among
<1>2. Init => HistoryInv /\ TreesInv /\ LoginInv
    BY HistoryInit, TreesInit, LoginInit
<1>3. HistoryInv /\ TreesInv /\ LoginInv /\ [Next]_vars => (HistoryInv /\ TreesInv /\ LoginInv)'
    BY HistoryStep, TreesStep, LoginStep
<1> QED BY <1>1, <1>2, <1>3, PTL DEF Spec

-----------------------------------------------------------------------------
(* A line toggled.                                                         *)

LEMMA ToggleOne ==
    ASSUME NEW tree, IsTree(tree), NEW file, NEW x
    PROVE  LET head == Toggle(tree, {<<file, x>>})
           IN PutIn(tree, head, file, x) \/ PutIn(head, tree, file, x)
<1> DEFINE fact == <<file, x>>
           head == Toggle(tree, {fact})
<1>1. \A f : f \in head <=> (f \in tree /\ f # fact) \/ (f = fact /\ fact \notin tree)
    BY DEF Toggle
<1>2. fact[1] = file /\ fact[2] = x
    OBVIOUS
<1>3. \A f \in tree : f[1] = file /\ f[2] = x => f = fact
    BY DEF IsTree
<1> HIDE DEF head, fact
<1>4. \A f : f # file => Lines(head, f) = Lines(tree, f)
    BY <1>1, <1>2 DEF Lines
<1>5. CASE fact \in tree
  <2>1. \A f : f \in head <=> f \in tree /\ f # fact
      BY <1>1, <1>5
  <2>2. x \notin Lines(head, file)
      BY <1>3, <2>1 DEF Lines
  <2>3. Lines(tree, file) = Lines(head, file) \cup {x}
      BY <1>2, <1>5, <2>1 DEF Lines
  <2> QED BY <1>4, <2>2, <2>3 DEF PutIn, head, fact
<1>6. CASE fact \notin tree
  <2>1. \A f : f \in head <=> f \in tree \/ f = fact
      BY <1>1, <1>6
  <2>2. x \notin Lines(tree, file)
      BY <1>3, <1>6 DEF Lines
  <2>3. Lines(head, file) = Lines(tree, file) \cup {x}
      BY <1>2, <2>1 DEF Lines
  <2> QED BY <1>4, <2>2, <2>3 DEF PutIn, head, fact
<1> QED BY <1>5, <1>6

-----------------------------------------------------------------------------
(* Uncovered lines.                                                        *)

Missed(tree) == candidate_lines(tree) \ merge_covered_sets(tree)
Uncovered(tree) == uncovered_from_artifact(canonical_coverage_artifact(tree))

LEMMA UncoveredAre ==
    ASSUME NEW tree
    PROVE  Uncovered(tree) = {<<LineNumber(tree, CoverageSource, l), l[2]>> : l \in Missed(tree)}
<1> DEFINE Entry(l) == [line |-> LineNumber(tree, CoverageSource, l), hash |-> l[2],
                        covered |-> l \in merge_covered_sets(tree)]
           artifact == {Entry(l) : l \in candidate_lines(tree)}
           missed == {x \in artifact : ~x.covered}
<1>1. Uncovered(tree) = {<<e.line, e.hash>> : e \in missed}
    BY DEF Uncovered, uncovered_from_artifact, canonical_coverage_artifact
<1>2. missed = {Entry(l) : l \in Missed(tree)}
  <2>1. \A l : Entry(l).covered <=> l \in merge_covered_sets(tree)
      OBVIOUS
  <2> HIDE DEF Entry
  <2> QED BY <2>1 DEF Missed
<1>3. \A l : <<Entry(l).line, Entry(l).hash>> = <<LineNumber(tree, CoverageSource, l), l[2]>>
    OBVIOUS
<1> HIDE DEF Entry, missed
<1> QED BY <1>1, <1>2, <1>3

(* A content is uncovered as often as there are lines with it.             *)
LEMMA ContentCountIs ==
    ASSUME NEW tree, Ordered(Lines(tree, CoverageSource)), NEW key
    PROVE  ContentCount(Uncovered(tree), key) = Cardinality({l \in Missed(tree) : l[2] = key})
<1> DEFINE N(l) == LineNumber(tree, CoverageSource, l)
           S == {l \in Missed(tree) : l[2] = key}
           T == {e \in Uncovered(tree) : content_key(e) = key}
           g == [l \in S |-> <<N(l), l[2]>>]
<1>1. Missed(tree) \subseteq Lines(tree, CoverageSource)
    BY DEF Missed, candidate_lines
<1>2. IsFiniteSet(S)
  <2>1. S \in SUBSET Lines(tree, CoverageSource)
      BY <1>1
  <2> QED BY <2>1, FS_Subset DEF Ordered
<1>3. \A l, m \in S : N(l) = N(m) => l = m
  <2> SUFFICES ASSUME NEW l \in S, NEW m \in S, N(l) = N(m) PROVE l = m
      OBVIOUS
  <2>1. l \in Lines(tree, CoverageSource) /\ m \in Lines(tree, CoverageSource)
      BY <1>1
  <2>2. N(l) \in Nat
      BY <2>1, NumbersAre
  <2>3. ~(l[1] < m[1]) /\ ~(m[1] < l[1])
      BY <2>1, <2>2, NumbersAre
  <2> QED BY <2>1, <2>3 DEF Ordered
<1>4. \A e : e \in T <=> \E l \in S : e = <<N(l), l[2]>>
  <2>1. Uncovered(tree) = {<<N(l), l[2]>> : l \in Missed(tree)}
      BY UncoveredAre
  <2> HIDE DEF N
  <2> QED BY <2>1 DEF content_key
<1>5. ContentCount(Uncovered(tree), key) = Cardinality(T)
    BY DEF ContentCount
<1> HIDE DEF S, T, N
<1>6. /\ g \in [S -> T]
      /\ \A x, y \in S : g[x] = g[y] => x = y
      /\ \A y \in T : \E x \in S : g[x] = y
    BY <1>3, <1>4
<1> HIDE DEF g
<1>7. Cardinality(T) = Cardinality(S)
    BY <1>2, <1>6, SameCount
<1> QED BY <1>5, <1>7 DEF S

LEMMA KeysAre ==
    ASSUME NEW tree
    PROVE  {content_key(e) : e \in Uncovered(tree)} = {l[2] : l \in Missed(tree)}
<1> DEFINE N(l) == LineNumber(tree, CoverageSource, l)
<1>1. Uncovered(tree) = {<<N(l), l[2]>> : l \in Missed(tree)}
    BY UncoveredAre
<1> HIDE DEF N
<1>2. \A e \in Uncovered(tree) : \E l \in Missed(tree) : content_key(e) = l[2]
    BY <1>1 DEF content_key
<1>3. \A l \in Missed(tree) : \E e \in Uncovered(tree) : content_key(e) = l[2]
  <2> SUFFICES ASSUME NEW l \in Missed(tree) PROVE \E e \in Uncovered(tree) : content_key(e) = l[2]
      OBVIOUS
  <2>1. <<N(l), l[2]>> \in Uncovered(tree)
      BY <1>1
  <2>2. content_key(<<N(l), l[2]>>) = l[2]
      BY DEF content_key
  <2> QED BY <2>1, <2>2
<1> QED BY <1>2, <1>3

(* A line that is not executable changes no count.                         *)
LEMMA CoverageSame ==
    ASSUME NEW old, NEW new, NEW x, PutIn(old, new, CoverageSource, x), x[2] \in NotExecutable,
           Ordered(Lines(new, CoverageSource))
    PROVE  \A list : Exceeds(Uncovered(new), list) = Exceeds(Uncovered(old), list)
<1>1. \A t \in CoverageTests : Lines(new, t) = Lines(old, t)
    BY DEF PutIn, CoverageTests, CoverageSource
<1>2. Missed(new) = Missed(old)
  <2>1. UNION {Lines(new, t) : t \in CoverageTests} = UNION {Lines(old, t) : t \in CoverageTests}
      BY <1>1
  <2> QED BY <2>1 DEF Missed, candidate_lines, merge_covered_sets, PutIn
<1>3. Ordered(Lines(old, CoverageSource))
  <2>1. Lines(old, CoverageSource) \subseteq Lines(new, CoverageSource)
      BY DEF PutIn
  <2>2. IsFiniteSet(Lines(old, CoverageSource))
      BY <2>1, FS_Subset DEF Ordered
  <2> QED BY <2>1, <2>2 DEF Ordered
<1>4. \A k : ContentCount(Uncovered(new), k) = ContentCount(Uncovered(old), k)
    BY <1>2, <1>3, ContentCountIs
<1>5. {content_key(e) : e \in Uncovered(new)} = {content_key(e) : e \in Uncovered(old)}
    BY <1>2, KeysAre
<1> QED BY <1>4, <1>5 DEF Exceeds

LEMMA InIs ==
    ASSUME NEW file, NEW lines, NEW f \in In(file, lines)
    PROVE  f[1] = file /\ f[2] \in lines
BY DEF In

(* Eight things are finitely many.                                         *)
LEMMA EightFinite ==
    ASSUME NEW a, NEW b, NEW c, NEW d, NEW e, NEW f, NEW g, NEW h
    PROVE  IsFiniteSet({a, b, c, d, e, f, g, h})
<1>1. IsFiniteSet({})
    BY FS_EmptySet
<1>2. \A S, x : IsFiniteSet(S) => IsFiniteSet(S \cup {x})
    BY FS_AddElement
<1>3. IsFiniteSet((((({} \cup {a}) \cup {b}) \cup {c}) \cup {d}))
    BY <1>1, <1>2
<1>4. IsFiniteSet((((((((({} \cup {a}) \cup {b}) \cup {c}) \cup {d}) \cup {e}) \cup {f}) \cup {g}) \cup {h}))
  <2> DEFINE S == ((({} \cup {a}) \cup {b}) \cup {c}) \cup {d}
  <2> HIDE DEF S
  <2>1. IsFiniteSet(((S \cup {e}) \cup {f}) \cup {g} \cup {h})
      BY <1>2, <1>3 DEF S
  <2> QED BY <2>1 DEF S
<1>5. (((((((({} \cup {a}) \cup {b}) \cup {c}) \cup {d}) \cup {e}) \cup {f}) \cup {g}) \cup {h})
          = {a, b, c, d, e, f, g, h}
    OBVIOUS
<1> QED BY <1>4, <1>5

LEMMA PairIs ==
    ASSUME NEW a, NEW b
    PROVE  <<a, b>>[1] = a /\ <<a, b>>[2] = b
OBVIOUS

LEMMA OrderedPart ==
    ASSUME NEW L, Ordered(L), NEW K \in SUBSET L
    PROVE  Ordered(K)
<1>1. IsFiniteSet(K)
    BY FS_Subset DEF Ordered
<1> QED BY <1>1 DEF Ordered

(* Lines at eight positions.                                               *)
LEMMA OrderedEight ==
    ASSUME NEW a, NEW b, NEW c, NEW d, NEW e, NEW f, NEW g, NEW h
    PROVE  Ordered({<<1, a>>, <<2, b>>, <<3, c>>, <<4, d>>, <<5, e>>, <<6, f>>, <<7, g>>, <<8, h>>})
<1> DEFINE L == {<<1, a>>, <<2, b>>, <<3, c>>, <<4, d>>, <<5, e>>, <<6, f>>, <<7, g>>, <<8, h>>}
<1>1. IsFiniteSet(L)
    BY EightFinite
<1>2. \A x \in L : x[1] \in Nat
    OBVIOUS
<1>3. \A x, y \in L : x[1] = y[1] => x = y
    OBVIOUS
<1> QED BY <1>1, <1>2, <1>3 DEF Ordered

CoverageLines ==
    {<<1, "function f()">>, <<2, "-- note">>, <<3, "x = 1">>, <<4, "y()">>, <<5, "y()">>, <<6, "y()">>, <<7, "end">>}

LEMMA CoverageOrdered ==
    ASSUME NEW L, L \subseteq CoverageLines
    PROVE  Ordered(L)
<1>1. \A a, b, c, d, e, f, g, h :
          Ordered({<<1, a>>, <<2, b>>, <<3, c>>, <<4, d>>, <<5, e>>, <<6, f>>, <<7, g>>, <<8, h>>})
    BY OrderedEight
<1>2. L \subseteq {<<1, "function f()">>, <<2, "-- note">>, <<3, "x = 1">>, <<4, "y()">>, <<5, "y()">>, <<6, "y()">>,
                   <<7, "end">>, <<8, "">>}
    BY DEF CoverageLines
<1> QED BY <1>1, <1>2, OrderedPart

LEMMA CoverageFacts ==
    ASSUME NEW f \in Facts("coverage"), f[1] = CoverageSource
    PROVE  f[2] \in CoverageLines
<1> DEFINE start == {<<1, "function f()">>, <<3, "x = 1">>, <<5, "y()">>, <<6, "y()">>, <<7, "end">>}
           note == <<2, "-- note">>
           four == <<4, "y()">>
           five == <<5, "y()">>
<1>1. start \subseteq CoverageLines /\ {note, four, five} \subseteq CoverageLines
    BY DEF CoverageLines
<1>2. /\ CoverageSource # CoverageAllowlist /\ CoverageSource # RequiredFlag
      /\ CoverageSource # "packages/core_test.lua" /\ CoverageSource # "packages/peer_test.lua"
    BY DEF CoverageSource, CoverageAllowlist, RequiredFlag
<1>3. CASE f \in StartTree("coverage")
  <2> DEFINE A == In(CoverageSource, start)
             B == In("packages/core_test.lua", {3})
             D == In(CoverageAllowlist, {<<3, "y()">>, <<4, "y()">>} \cup {Header})
  <2>1. StartTree("coverage") = A \cup B \cup {<<RequiredFlag, "">>} \cup D
      BY DEF StartTree, List
  <2>2. f \notin B /\ f \notin D
      BY <1>2, InIs
  <2>3. f # <<RequiredFlag, "">>
    <3> DEFINE empty == ""
    <3>1. <<RequiredFlag, empty>>[1] = RequiredFlag
      <4> HIDE DEF empty
      <4> QED BY PairIs
    <3> QED BY <1>2, <3>1
  <2>4. f \in A => f[2] \in start
      BY InIs
  <2> HIDE DEF A, B, D, start
  <2> QED BY <1>1, <1>3, <2>1, <2>2, <2>3, <2>4
<1>4. CASE f \in UNION Edits("coverage")
  <2> DEFINE facts == {<<CoverageSource, note>>, <<CoverageSource, four>>, <<CoverageSource, five>>,
                       <<"packages/peer_test.lua", 5>>, <<CoverageAllowlist, five>>, <<RequiredFlag, "">>}
  <2>1. Edits("coverage") = Each(facts)
      BY DEF Edits
  <2>2. f \in facts
    <3> HIDE DEF facts
    <3> QED BY <1>4, <2>1 DEF Each
  <2> HIDE DEF note, four, five
  <2>3. f = <<CoverageSource, note>> \/ f = <<CoverageSource, four>> \/ f = <<CoverageSource, five>>
    <3> DEFINE five2 == 5
               empty == ""
    <3>1. f \in {<<CoverageSource, note>>, <<CoverageSource, four>>, <<CoverageSource, five>>,
                 <<"packages/peer_test.lua", five2>>, <<CoverageAllowlist, five>>, <<RequiredFlag, empty>>}
        BY <2>2
    <3> HIDE DEF five2, empty
    <3> QED BY <1>2, <3>1, PairIs
  <2>4. f[2] \in {note, four, five}
      BY <2>3
  <2> QED BY <1>1, <2>4
<1> QED BY <1>3, <1>4 DEF Facts

(* The list of the uncovered lines is written by the gate.                 *)
CoverageTrees ==
    SUBSET (Facts("coverage") \cup {<<CoverageAllowlist, Header>>}
                \cup {<<CoverageAllowlist, <<n, l[2]>>>> : n \in Nat, l \in CoverageLines})

LEMMA CoverageTreesAre ==
    ASSUME NEW tree \in CoverageTrees
    PROVE  Ordered(Lines(tree, CoverageSource))
<1>1. Lines(tree, CoverageSource) \subseteq CoverageLines
  <2> SUFFICES ASSUME NEW f \in tree, f[1] = CoverageSource PROVE f[2] \in CoverageLines
      BY DEF Lines
  <2>1. f \in Facts("coverage")
      BY DEF CoverageTrees, CoverageAllowlist, CoverageSource
  <2> QED BY <2>1, CoverageFacts
<1> QED BY <1>1, CoverageOrdered

LEMMA CoverageSteady ==
    Steady("coverage", CoverageTrees) /\ StartTree("coverage") \in CoverageTrees
<1>1. ASSUME NEW s \in CoverageTrees
      PROVE  write_current_uncovered(s) \in CoverageTrees
  <2>1. ASSUME NEW u \in Uncovered(s)
        PROVE  \E n \in Nat, l \in CoverageLines : u = <<n, l[2]>>
    <3>1. PICK l \in Missed(s) : u = <<LineNumber(s, CoverageSource, l), l[2]>>
        BY UncoveredAre
    <3>2. l \in Lines(s, CoverageSource)
        BY DEF Missed, candidate_lines
    <3>3. LineNumber(s, CoverageSource, l) \in Nat
        BY <3>2, CoverageTreesAre, NumbersAre
    <3>4. l \in CoverageLines
      <4>1. PICK f \in s : f[1] = CoverageSource /\ l = f[2]
          BY <3>2 DEF Lines
      <4>2. f \in Facts("coverage")
          BY <4>1 DEF CoverageTrees, CoverageAllowlist, CoverageSource
      <4> QED BY <4>1, <4>2, CoverageFacts
    <3> QED BY <3>1, <3>3, <3>4
  <2>2. write_current_uncovered(s) =
            {f \in s : f[1] # CoverageAllowlist} \cup {<<CoverageAllowlist, Header>>}
                \cup {<<CoverageAllowlist, u>> : u \in Uncovered(s)}
      BY DEF write_current_uncovered, Uncovered
  <2>3. \A u \in Uncovered(s) :
            <<CoverageAllowlist, u>> \in {<<CoverageAllowlist, <<n, l[2]>>>> : n \in Nat, l \in CoverageLines}
      BY <2>1
  <2> QED BY <2>2, <2>3 DEF CoverageTrees
<1>2. \A s \in CoverageTrees, e \in Edits("coverage") : Toggle(s, e) \in CoverageTrees
    BY DEF CoverageTrees, Toggle, Facts
<1>3. \A s, t, u \in CoverageTrees : Merge(s, t, u) \in CoverageTrees
    BY DEF CoverageTrees, Merge
<1>4. StartTree("coverage") \in CoverageTrees
    BY DEF CoverageTrees, Facts
<1> QED BY <1>1, <1>2, <1>3, <1>4 DEF Steady

(* The case d of the base as its own branch, and a case c against the base. *)
Beside(c, d) ==
    /\ d.head = d.base /\ d.target = d.base /\ c.base = d.base /\ c.target = d.base
    /\ c.resolved /\ d.resolved /\ c.artifact = "written" /\ d.artifact = "written"

LEMMA PutInEither ==
    ASSUME NEW s, NEW t, NEW file, NEW x, PutIn(s, t, file, x) \/ PutIn(t, s, file, x)
    PROVE  \A f : f # file => /\ Lines(t, f) = Lines(s, f)
                              /\ load_allowlist(t, f) = load_allowlist(s, f)
                              /\ f \in Files(t) <=> f \in Files(s)
<1> TAKE f
<1> SUFFICES ASSUME f # file
             PROVE  /\ Lines(t, f) = Lines(s, f)
                    /\ load_allowlist(t, f) = load_allowlist(s, f)
                    /\ f \in Files(t) <=> f \in Files(s)
    OBVIOUS
<1>1. Lines(t, f) = Lines(s, f)
    BY DEF PutIn
<1> QED BY <1>1, FilesAre DEF load_allowlist

Note == <<2, "-- note">>

LEMMA NoteIsAnEdit ==
    {<<CoverageSource, Note>>} \in Edits("coverage")
<1>1. Edits("coverage") =
          Each({<<CoverageSource, <<2, "-- note">>>>, <<CoverageSource, <<4, "y()">>>>, <<CoverageSource, <<5, "y()">>>>,
                <<"packages/peer_test.lua", 5>>, <<CoverageAllowlist, <<5, "y()">>>>, <<RequiredFlag, "">>})
    BY DEF Edits
<1> QED BY <1>1 DEF Each, Note

LEMMA CoverageMoves ==
    ASSUME NEW c, NEW d, Beside(c, d), IsTree(d.base), d.base \in CoverageTrees, coverage_messages(d) = {},
           c.head = Toggle(d.base, {<<CoverageSource, Note>>})
    PROVE  coverage_messages(c) = {}
<1> DEFINE s == d.base
           t == c.head
           list == load_allowlist(s, CoverageAllowlist)
<1>1. PutIn(s, t, CoverageSource, Note) \/ PutIn(t, s, CoverageSource, Note)
    BY ToggleOne
<1>2. t \in CoverageTrees
  <2>1. {<<CoverageSource, Note>>} \in Edits("coverage")
      BY NoteIsAnEdit
  <2> QED BY <2>1, CoverageSteady DEF Steady
<1>3. Note[2] \in NotExecutable
    BY DEF Note, NotExecutable
<1>4. Ordered(Lines(s, CoverageSource)) /\ Ordered(Lines(t, CoverageSource))
    BY <1>2, CoverageTreesAre
<1>5. Exceeds(Uncovered(t), list) = Exceeds(Uncovered(s), list)
  <2> HIDE DEF s, t, list
  <2> QED BY <1>1, <1>3, <1>4, CoverageSame
<1>6. CoverageSource # CoverageAllowlist /\ CoverageSource # RequiredFlag
    BY DEF CoverageSource, CoverageAllowlist, RequiredFlag
<1>7. load_allowlist(t, CoverageAllowlist) = list /\ (RequiredFlag \in Files(t) <=> RequiredFlag \in Files(s))
    BY <1>1, <1>6, PutInEither
<1>8. coverage_base_status(c) = coverage_base_status(d) /\ coverage_base_status(c) # "unresolved"
    BY DEF coverage_base_status, base_status, Beside
<1>9. CASE RequiredFlag \notin Files(s)
    BY <1>7, <1>9 DEF coverage_messages
<1>10. CASE RequiredFlag \in Files(s)
  <2>1. coverage_ratchet(Uncovered(s), d) = {}
      BY <1>10 DEF coverage_messages, Beside, Uncovered
  <2>2. Exceeds(Uncovered(s), list) = {}
      BY <2>1 DEF coverage_ratchet, Beside
  <2>3. Exceeds(list, list) = {}
      BY CountIsNat DEF Exceeds
  <2>4. load_allowlist(c.base, CoverageAllowlist) = list
      BY DEF Beside
  <2> HIDE DEF list
  <2>5. coverage_ratchet(Uncovered(t), c) = {}
      BY <1>5, <1>7, <2>2, <2>3, <2>4 DEF coverage_ratchet
  <2> QED BY <1>8, <2>5 DEF coverage_messages, Beside, Uncovered
<1> QED BY <1>9, <1>10

-----------------------------------------------------------------------------
(* Cut content.                                                            *)

LEMMA DeltasAre ==
    /\ \A name, tok : Fn(name, tok).delta = 1 /\ Fn(name, tok).fn = name /\ Fn(name, tok).tok = tok
    /\ \A tok : Code(tok).delta = 0 /\ Code(tok).fn = <<>> /\ Code(tok).tok = tok
    /\ End.delta = -1 /\ End.fn = <<>> /\ End.tok = {}
BY DEF Fn, Code, End, Line

LEMMA LuaPart ==
    ASSUME NEW L, IsLua(L), NEW K \in SUBSET L
    PROVE  IsLua(K)
BY OrderedPart DEF IsLua

TruncationLines ==
    {<<1, Fn(<<"shorten">>, {})>>, <<2, Code({"cut(MAX_BODY)"})>>, <<3, End>>, <<4, Code({})>>,
     <<5, Fn(<<"ask">>, {})>>, <<6, Code({"shorten"})>>, <<7, Code({"codex-prompt"})>>, <<8, End>>}

LEMMA TruncationLua == IsLua(TruncationLines)
<1> DEFINE a == Fn(<<"shorten">>, {})
           b == Code({"cut(MAX_BODY)"})
           d == Code({})
           e == Fn(<<"ask">>, {})
           f == Code({"shorten"})
           g == Code({"codex-prompt"})
<1>1. a.delta \in Int /\ b.delta \in Int /\ End.delta \in Int /\ d.delta \in Int
      /\ e.delta \in Int /\ f.delta \in Int /\ g.delta \in Int
    BY DeltasAre
<1>2. TruncationLines =
          {<<1, a>>, <<2, b>>, <<3, End>>, <<4, d>>, <<5, e>>, <<6, f>>, <<7, g>>, <<8, End>>}
    BY DEF TruncationLines
<1> HIDE DEF a, b, d, e, f, g
<1>3. Ordered(TruncationLines)
    BY <1>2, OrderedEight
<1>4. \A l \in TruncationLines : l[2] \in {a, b, End, d, e, f, g}
    BY <1>2
<1> QED BY <1>1, <1>3, <1>4 DEF IsLua

LEMMA TruncationFacts ==
    ASSUME NEW x \in Facts("truncation"), x[1] = TruncationFile
    PROVE  x[2] \in TruncationLines
<1> DEFINE a == <<1, Fn(<<"shorten">>, {})>>
           b == <<2, Code({"cut(MAX_BODY)"})>>
           c == <<3, End>>
           d == <<4, Code({})>>
           e == <<5, Fn(<<"ask">>, {})>>
           f == <<6, Code({"shorten"})>>
           g == <<7, Code({"codex-prompt"})>>
           h == <<8, End>>
           entry == <<"shorten", "codex-prompt">>
<1>1. TruncationLines = {a, b, c, d, e, f, g, h}
    BY DEF TruncationLines
<1>2. TruncationFile # TruncationAllowlist
    BY DEF TruncationFile, TruncationAllowlist
<1>3. CASE x \in StartTree("truncation")
  <2>1. StartTree("truncation") = In(TruncationFile, {a, b, c, e, g, h}) \cup In(TruncationAllowlist, {} \cup {Header})
      BY DEF StartTree, List
  <2> HIDE DEF a, b, c, e, g, h
  <2>2. x \in In(TruncationFile, {a, b, c, e, g, h})
      BY <1>2, <1>3, <2>1, InIs
  <2> QED BY <1>1, <2>2, InIs
<1>4. CASE x \in UNION Edits("truncation")
  <2>1. Edits("truncation") =
            Each({<<TruncationFile, f>>, <<TruncationFile, d>>, <<TruncationFile, b>>,
                  <<TruncationAllowlist, entry>>, <<TruncationAllowlist, Header>>})
      BY DEF Edits
  <2> HIDE DEF b, d, f, entry
  <2>2. x \in {<<TruncationFile, f>>, <<TruncationFile, d>>, <<TruncationFile, b>>,
               <<TruncationAllowlist, entry>>, <<TruncationAllowlist, Header>>}
      BY <1>4, <2>1 DEF Each
  <2>3. x[2] \in {f, d, b}
      BY <1>2, <2>2, PairIs
  <2> QED BY <1>1, <2>3
<1> QED BY <1>3, <1>4 DEF Facts

LEMMA TruncationTreesAre ==
    ASSUME NEW tree \in SUBSET Facts("truncation")
    PROVE  IsLua(Lines(tree, TruncationFile))
<1>1. Lines(tree, TruncationFile) \in SUBSET TruncationLines
    BY TruncationFacts DEF Lines
<1> QED BY <1>1, TruncationLua, LuaPart

Blank(n) == <<n, Code({})>>

LEMMA BlankIsNeutral ==
    ASSUME NEW n
    PROVE  Neutral(Blank(n))
BY DeltasAre DEF Neutral, Blank

LEMMA TruncationMoves ==
    ASSUME NEW c, NEW d, Beside(c, d), IsTree(d.base), d.base \in SUBSET Facts("truncation"),
           truncation_messages(d) = {}, c.head = Toggle(d.base, {<<TruncationFile, Blank(4)>>})
    PROVE  truncation_messages(c) = {}
<1> DEFINE s == d.base
           t == c.head
           x == Blank(4)
<1>1. PutIn(s, t, TruncationFile, x) \/ PutIn(t, s, TruncationFile, x)
    BY ToggleOne
<1>2. t \in SUBSET Facts("truncation")
  <2>1. {<<TruncationFile, x>>} \in Edits("truncation")
      BY DEF Edits, Each, Blank
  <2>2. \A e \in Edits("truncation") : Toggle(s, e) \in SUBSET Facts("truncation")
      BY SubsetsSteady DEF Steady
  <2> QED BY <2>1, <2>2
<1>3. IsLua(Lines(s, TruncationFile)) /\ IsLua(Lines(t, TruncationFile))
    BY <1>2, TruncationTreesAre
<1>4. Neutral(x)
    BY BlankIsNeutral
<1>5. truncation_sites(t) = truncation_sites(s)
  <2> HIDE DEF s, t, x
  <2> QED BY <1>1, <1>3, <1>4, TruncationSame
<1>6. TruncationFile # TruncationAllowlist
    BY DEF TruncationFile, TruncationAllowlist
<1>7. load_allowlist(t, TruncationAllowlist) = load_allowlist(s, TruncationAllowlist)
    BY <1>1, <1>6, PutInEither
<1>8. base_messages(c, TruncationAllowlist) = {} /\ grown(c, TruncationAllowlist) = {}
    BY <1>7 DEF base_messages, base_status, grown, Beside
<1>9. ratchet_messages(truncation_sites(s), load_allowlist(s, TruncationAllowlist), {}) = {}
    BY DEF truncation_messages, shrink_only, ratchet_messages, Beside
<1> QED BY <1>5, <1>7, <1>8, <1>9 DEF truncation_messages, shrink_only

-----------------------------------------------------------------------------
(* Library errors.                                                         *)

CodeLine == <<1, "code">>

LEMMA LibraryMoves ==
    ASSUME NEW c, NEW d, Beside(c, d), IsTree(d.base),
           c.head = Toggle(d.base, {<<LibraryErrorFile, CodeLine>>})
    PROVE  library_error_messages(c) = {}
<1> DEFINE s == d.base
           t == c.head
<1>1. PutIn(s, t, LibraryErrorFile, CodeLine) \/ PutIn(t, s, LibraryErrorFile, CodeLine)
    BY ToggleOne
<1>2. CodeLine[2] \notin Unclassified
    BY DEF CodeLine, Unclassified
<1>3. unclassified_error_calls(t, LibraryErrorFile) = unclassified_error_calls(s, LibraryErrorFile)
  <2> HIDE DEF s, t
  <2> QED BY <1>1, <1>2 DEF unclassified_error_calls, PutIn
<1>4. library_sites_for_source(t) = library_sites_for_source(s)
    BY <1>3 DEF library_sites_for_source
<1>5. target_library_sites(c) = library_sites_for_source(t)
    BY <1>4 DEF target_library_sites, Beside
<1>6. c.resolved
    BY DEF Beside
<1> QED BY <1>5, <1>6 DEF library_error_messages

-----------------------------------------------------------------------------
(* Reads of the transient state: a line that says nothing.                 *)

LEMMA RatchetSilent ==
    ASSUME NEW V, NEW L, NEW h \in BOOLEAN, NEW B
    PROVE  monotone_ratchet(V, L, h, B) = {} <=>
               \A k \in {canonical_key(v) : v \in V \cup L} :
                   /\ ~(InBucket(V, k) > InBucket(L, k))
                   /\ ~(InBucket(L, k) > InBucket(V, k))
                   /\ h => ~(InBucket(L, k) > InBucket(B, k)) /\ ~(InBucket(V, k) > InBucket(B, k))
<1> DEFINE keys == {canonical_key(v) : v \in V \cup L}
           Over(few, many) == {k \in keys : InBucket(many, k) > InBucket(few, k)}
<1>1. monotone_ratchet(V, L, h, B) =
          {"unclassified read" : k \in Over(L, V)} \cup {"stale entry" : k \in Over(V, L)}
              \cup IF ~h THEN {}
                   ELSE {"allowlist grows" : k \in Over(B, L)} \cup {"debt grows" : k \in Over(B, V)}
    BY DEF monotone_ratchet
<1> HIDE DEF Over
<1>2. monotone_ratchet(V, L, h, B) = {} <=>
          Over(L, V) = {} /\ Over(V, L) = {} /\ (h => Over(B, L) = {} /\ Over(B, V) = {})
    BY <1>1
<1> HIDE DEF keys
<1>3. \A few, many : Over(few, many) = {} <=> \A k \in keys : ~(InBucket(many, k) > InBucket(few, k))
    BY DEF Over
<1>4. monotone_ratchet(V, L, h, B) = {} <=>
          \A k \in keys :
                   /\ ~(InBucket(V, k) > InBucket(L, k))
                   /\ ~(InBucket(L, k) > InBucket(V, k))
                   /\ h => ~(InBucket(L, k) > InBucket(B, k)) /\ ~(InBucket(V, k) > InBucket(B, k))
    BY <1>2, <1>3
<1> QED BY <1>4 DEF keys

(* The declared surfaces, in the manifest and by the responsibilities.     *)
LEMMA DeclaredSilent ==
    ASSUME NEW tree
    PROVE  /\ monotone_manifest_messages(tree) = {} <=>
                  /\ MonotoneManifest \in Files(tree)
                  /\ Accessors(load_allowlist(tree, MonotoneManifest)) = {}
                  /\ \A m \in load_allowlist(tree, MonotoneManifest) : milestone_messages(tree, m) = {}
           /\ responsibility_binding_messages(tree) = {} <=>
                  /\ Accessors(Lines(tree, Responsibilities)) = {}
                  /\ \A m \in Lines(tree, Responsibilities) : milestone_messages(tree, m) = {}
<1> DEFINE Of(rows) == UNION {milestone_messages(tree, m) : m \in rows}
<1>1. \A rows : Of(rows) = {} <=> \A m \in rows : milestone_messages(tree, m) = {}
    OBVIOUS
<1>2. monotone_manifest_messages(tree) =
          (IF MonotoneManifest \in Files(tree) THEN {} ELSE {"manifest missing"})
              \cup Accessors(load_allowlist(tree, MonotoneManifest))
              \cup Of(load_allowlist(tree, MonotoneManifest))
    BY DEF monotone_manifest_messages
<1>3. responsibility_binding_messages(tree) =
          Accessors(Lines(tree, Responsibilities)) \cup Of(Lines(tree, Responsibilities))
    BY DEF responsibility_binding_messages
<1> HIDE DEF Of
<1>4. monotone_manifest_messages(tree) = {} <=>
          /\ MonotoneManifest \in Files(tree)
          /\ Accessors(load_allowlist(tree, MonotoneManifest)) = {}
          /\ Of(load_allowlist(tree, MonotoneManifest)) = {}
    BY <1>2
<1>5. responsibility_binding_messages(tree) = {} <=>
          Accessors(Lines(tree, Responsibilities)) = {} /\ Of(Lines(tree, Responsibilities)) = {}
    BY <1>3
<1> QED BY <1>1, <1>4, <1>5

LEMMA MonotoneBlank ==
    ASSUME NEW c, NEW d, Beside(c, d), IsTree(d.base), monotone_messages(d) = {},
           NEW x, Neutral(x), c.head = Toggle(d.base, {<<OldFacts, x>>}), IsTree(c.head),
           IsLua(Lines(d.base, OldFacts)), IsLua(Lines(c.head, OldFacts))
    PROVE  monotone_messages(c) = {}
<1> DEFINE s == d.base
           t == c.head
<1>1. PutIn(s, t, OldFacts, x) \/ PutIn(t, s, OldFacts, x)
    BY ToggleOne
<1>2. /\ OldFacts \in MonotoneFiles
      /\ OldFacts # MonotoneAllowlist /\ OldFacts # MonotoneManifest /\ OldFacts # Responsibilities
    BY DEF OldFacts, MonotoneFiles, MonotoneAllowlist, MonotoneManifest, Responsibilities
<1>3. IsFiniteSet(source_violations(s)) /\ IsFiniteSet(source_violations(t))
    BY DebtFinite DEF Debt
<1>4. /\ \A k : InBucket(source_violations(t), k) = InBucket(source_violations(s), k)
      /\ {canonical_key(v) : v \in source_violations(t)} = {canonical_key(v) : v \in source_violations(s)}
  <2> HIDE DEF s, t
  <2>1. CASE PutIn(s, t, OldFacts, x)
      BY <1>2, <1>3, <2>1, MonotoneSame DEF s, t
  <2>2. CASE PutIn(t, s, OldFacts, x)
      BY <1>2, <1>3, <2>2, MonotoneSame DEF s, t
  <2> QED BY <1>1, <2>1, <2>2
<1>5. \A m : milestone_messages(t, m) = {} <=> milestone_messages(s, m) = {}
    BY <1>1, MilestoneSame
<1>6. /\ load_allowlist(t, MonotoneAllowlist) = load_allowlist(s, MonotoneAllowlist)
      /\ load_allowlist(t, MonotoneManifest) = load_allowlist(s, MonotoneManifest)
      /\ MonotoneManifest \in Files(t) <=> MonotoneManifest \in Files(s)
      /\ Lines(t, Responsibilities) = Lines(s, Responsibilities)
    BY <1>1, <1>2, PutInEither
<1>7. monotone_manifest_messages(s) = {} /\ responsibility_binding_messages(s) = {}
    BY DEF monotone_messages, Beside
<1> HIDE DEF s, t
<1>8. monotone_manifest_messages(t) = {}
    BY <1>5, <1>6, <1>7, DeclaredSilent
<1>9. responsibility_binding_messages(t) = {}
    BY <1>5, <1>6, <1>7, DeclaredSilent
<1>10. base_messages(c, MonotoneAllowlist) = {}
    BY DEF base_messages, base_status, Beside
<1> DEFINE list == load_allowlist(s, MonotoneAllowlist)
           there == MonotoneAllowlist \in Files(s)
<1>11. /\ monotone_ratchet(source_violations(s), list, there, list) = {}
       /\ base_status(c, MonotoneAllowlist) = "present" <=> there
       /\ load_allowlist(c.base, MonotoneAllowlist) = list
  <2>1. base_status(d, MonotoneAllowlist) = "present" <=> there
      BY DEF base_status, Beside, s
  <2>2. monotone_ratchet(source_violations(d.head), load_allowlist(d.head, MonotoneAllowlist),
                         base_status(d, MonotoneAllowlist) = "present",
                         load_allowlist(d.base, MonotoneAllowlist)) = {}
      BY DEF monotone_messages
  <2>3. monotone_ratchet(source_violations(s), list, base_status(d, MonotoneAllowlist) = "present", list) = {}
      BY <2>2 DEF Beside, s
  <2> HIDE DEF there, list
  <2>4. monotone_ratchet(source_violations(s), list, there, list) = {}
      BY <2>1, <2>3 DEF monotone_ratchet
  <2> QED BY <2>4 DEF base_status, Beside, s, there, list
<1>12. monotone_ratchet(source_violations(t), list, there, list) = {}
  <2> DEFINE V == source_violations(s)
             W == source_violations(t)
  <2>1. {canonical_key(v) : v \in W \cup list} = {canonical_key(v) : v \in V \cup list}
    <3> HIDE DEF V, W, list
    <3>1. {canonical_key(v) : v \in W \cup list} = {canonical_key(v) : v \in W} \cup {canonical_key(v) : v \in list}
        OBVIOUS
    <3>2. {canonical_key(v) : v \in V \cup list} = {canonical_key(v) : v \in V} \cup {canonical_key(v) : v \in list}
        OBVIOUS
    <3> QED BY <1>4, <3>1, <3>2 DEF V, W
  <2> HIDE DEF V, W, list, there
  <2>2. \A k : InBucket(W, k) = InBucket(V, k)
      BY <1>4 DEF V, W
  <2>3. monotone_ratchet(V, list, there, list) = {}
      BY <1>11 DEF V
  <2>4. there \in BOOLEAN
      BY DEF there
  <2>5. \A k \in {canonical_key(v) : v \in V \cup list} :
            /\ ~(InBucket(V, k) > InBucket(list, k))
            /\ ~(InBucket(list, k) > InBucket(V, k))
            /\ there => ~(InBucket(list, k) > InBucket(list, k)) /\ ~(InBucket(V, k) > InBucket(list, k))
      BY <2>3, <2>4, RatchetSilent
  <2>6. \A k \in {canonical_key(v) : v \in W \cup list} :
            /\ ~(InBucket(W, k) > InBucket(list, k))
            /\ ~(InBucket(list, k) > InBucket(W, k))
            /\ there => ~(InBucket(list, k) > InBucket(list, k)) /\ ~(InBucket(W, k) > InBucket(list, k))
      BY <2>1, <2>2, <2>5
  <2>7. monotone_ratchet(W, list, there, list) = {}
      BY <2>4, <2>6, RatchetSilent
  <2> QED BY <2>7 DEF W
<1> HIDE DEF list, there
<1>13. monotone_ratchet(source_violations(t), load_allowlist(t, MonotoneAllowlist),
                        base_status(c, MonotoneAllowlist) = "present",
                        load_allowlist(c.base, MonotoneAllowlist)) = {}
  <2>1. load_allowlist(t, MonotoneAllowlist) = list
      BY <1>6 DEF list
  <2>2. base_status(c, MonotoneAllowlist) = "present" <=> there
      BY <1>11
  <2> QED BY <1>11, <1>12, <2>1, <2>2 DEF monotone_ratchet
<1> QED BY <1>8, <1>9, <1>10, <1>13 DEF monotone_messages, t

-----------------------------------------------------------------------------
(* Reads of the transient state: the function that moves.                  *)

Name == <<"require_marker_fact">>
FnLine == <<20, Fn(Name, {})>>
ReadLine == <<30, Code({"current_state("})>>
CallLine == <<35, Code({"reached("})>>
LateLine == <<40, Code({"current_state("})>>
EndLine == <<50, End>>

RequireLines == {FnLine, ReadLine, EndLine}
OldLines == {Blank(10), FnLine, ReadLine, CallLine, LateLine, EndLine}

(* Its reads in the list, and the rows that declare it.                    *)
Listed(n) == <<OldFacts, Name, "current_state(", n>>
DeclaredOld == <<OldFacts, Name, "reached(">>
DeclaredNew == <<NewFacts, <<"M", "require_marker_fact">>, "reached(">>

LEMMA LinesDiffer ==
    /\ FnLine[1] = 20 /\ ReadLine[1] = 30 /\ CallLine[1] = 35 /\ LateLine[1] = 40 /\ EndLine[1] = 50
    /\ \A n : Blank(n)[1] = n
    /\ FnLine[2].fn = Name /\ FnLine[2].delta = 1 /\ FnLine[2].tok = {}
    /\ ReadLine[2].fn = <<>> /\ ReadLine[2].delta = 0 /\ ReadLine[2].tok = {"current_state("}
    /\ CallLine[2].fn = <<>> /\ CallLine[2].delta = 0 /\ CallLine[2].tok = {"reached("}
    /\ LateLine[2].fn = <<>> /\ LateLine[2].delta = 0 /\ LateLine[2].tok = {"current_state("}
    /\ EndLine[2].fn = <<>> /\ EndLine[2].delta = -1 /\ EndLine[2].tok = {}
    /\ \A n : Blank(n)[2].fn = <<>> /\ Blank(n)[2].delta = 0 /\ Blank(n)[2].tok = {}
    /\ Name # <<>>
<1>1. /\ FnLine[1] = 20 /\ ReadLine[1] = 30 /\ CallLine[1] = 35 /\ LateLine[1] = 40 /\ EndLine[1] = 50
      /\ FnLine[2] = Fn(Name, {}) /\ ReadLine[2] = Code({"current_state("}) /\ CallLine[2] = Code({"reached("})
      /\ LateLine[2] = Code({"current_state("}) /\ EndLine[2] = End
    BY DEF FnLine, ReadLine, CallLine, LateLine, EndLine
<1>2. \A n : Blank(n)[1] = n /\ Blank(n)[2] = Code({})
    BY DEF Blank
<1>3. Name # <<>>
    BY DEF Name
<1> QED BY <1>1, <1>2, <1>3, DeltasAre

LEMMA OldLua == IsLua(OldLines)
<1>1. IsFiniteSet(OldLines)
  <2>1. IsFiniteSet({Blank(10), FnLine, ReadLine, CallLine, LateLine, EndLine, EndLine, EndLine})
      BY EightFinite
  <2> QED BY <2>1 DEF OldLines
<1>2. \A l \in OldLines : l[1] \in Nat /\ l[2].delta \in Int
    BY LinesDiffer DEF OldLines
<1>3. \A l, m \in OldLines : l[1] = m[1] => l = m
    BY LinesDiffer DEF OldLines
<1> QED BY <1>1, <1>2, <1>3 DEF IsLua, Ordered

(* A file that has the function and no other.                              *)
LEMMA Headed ==
    ASSUME NEW tree, NEW file, Lines(tree, file) \subseteq OldLines, RequireLines \subseteq Lines(tree, file),
           NEW src, src = Source(tree, file), NEW h, h = LineNumber(tree, file, FnLine)
    PROVE  /\ IsCode(src) /\ Ordered(Lines(tree, file))
           /\ Heads(src) = {h} /\ src[h].fn = Name
           /\ \A l \in {ReadLine, LateLine} \cap Lines(tree, file) :
                  /\ LineNumber(tree, file, l) \in h..block_end(src, h)
                  /\ surface_for_line(src, LineNumber(tree, file, l)) = Name
<1> DEFINE L == Lines(tree, file)
           N(l) == LineNumber(tree, file, l)
<1>1. IsLua(L)
    BY OldLua, LuaPart
<1>2. IsCode(src) /\ Ordered(L)
    BY <1>1, CodeIs DEF IsLua
<1>3. /\ Len(src) \in Nat
      /\ \A l \in L : N(l) \in 1..Len(src) /\ src[N(l)] = l[2]
      /\ \A l, m \in L : l[1] < m[1] <=> N(l) < N(m)
      /\ \A k \in 1..Len(src) : \E l \in L : N(l) = k
    BY <1>2, NumbersAre
<1> HIDE DEF L, N
<1>4. FnLine \in L /\ h = N(FnLine) /\ L \subseteq OldLines
    BY DEF RequireLines, L, N
<1>5. h \in 1..Len(src) /\ src[h].fn = Name /\ src[h].delta = 1
    BY <1>3, <1>4, LinesDiffer
<1>6. \A k \in (1..Len(src)) \ {h} : src[k].fn = <<>>
  <2> SUFFICES ASSUME NEW k \in 1..Len(src), k # h PROVE src[k].fn = <<>>
      OBVIOUS
  <2>1. PICK l \in L : N(l) = k
      BY <1>3
  <2>2. l \in OldLines \ {FnLine} /\ src[k] = l[2]
      BY <1>3, <1>4, <2>1
  <2> QED BY <2>2, LinesDiffer DEF OldLines
<1>7. Heads(src) = {h}
    BY <1>5, <1>6, LinesDiffer DEF Heads
<1>8. ASSUME NEW l \in {ReadLine, LateLine} \cap L
      PROVE  N(l) \in h..block_end(src, h) /\ surface_for_line(src, N(l)) = Name
  <2>1. l[1] \in {30, 40}
      BY LinesDiffer
  <2>2. h < N(l) /\ N(l) \in h..Len(src)
    <3>1. FnLine[1] < l[1]
        BY <2>1, LinesDiffer
    <3>2. h < N(l) /\ N(l) \in 1..Len(src)
        BY <1>3, <1>4, <3>1
    <3> QED BY <1>3, <1>5, <3>2
  <2>3. ASSUME NEW k \in (h + 1)..(N(l) - 1)
        PROVE  src[k].delta = 0
    <3>1. k \in 1..Len(src) /\ h < k /\ k < N(l)
        BY <1>3, <1>5, <2>2
    <3>2. PICK m \in L : N(m) = k
        BY <1>3, <3>1
    <3>3. FnLine[1] < m[1] /\ m[1] < l[1] /\ src[k] = m[2] /\ m \in OldLines
        BY <1>3, <1>4, <3>1, <3>2
    <3>4. m # FnLine /\ m # EndLine
        BY <2>1, <3>3, LinesDiffer
    <3> QED BY <3>3, <3>4, LinesDiffer DEF OldLines
  <2>4. N(l) <= block_end(src, h) /\ surface_for_line(src, N(l)) = src[h].fn
    <3> DEFINE j == N(l)
    <3>1. src[h].fn # <<>>
        BY <1>5, LinesDiffer
    <3>2. j \in h..Len(src) /\ \A k \in (h + 1)..(j - 1) : src[k].delta = 0
        BY <2>2, <2>3
    <3> HIDE DEF j
    <3>3. j <= block_end(src, h) /\ surface_for_line(src, j) = src[h].fn
        BY <1>2, <1>5, <1>6, <3>1, <3>2, OneFunction
    <3> QED BY <3>3 DEF j
  <2>5. block_end(src, h) \in h..Len(src)
      BY <1>2, <1>5, EndIs
  <2> QED BY <1>3, <1>5, <2>2, <2>4, <2>5
<1> QED BY <1>2, <1>5, <1>7, <1>8 DEF L, N

(* The facts of the scenario, by the edits that toggle them.               *)
OneMove == In(OldFacts, RequireLines) \cup In(NewFacts, RequireLines)
Single ==
    {<<OldFacts, Blank(10)>>, <<OldFacts, LateLine>>, <<MonotoneAllowlist, Listed(3)>>,
     <<MonotoneManifest, DeclaredOld>>, <<Responsibilities, DeclaredNew>>}
Retire == {<<OldFacts, ReadLine>>, <<OldFacts, CallLine>>, <<MonotoneAllowlist, Listed(2)>>}

LEMMA RequireFactIs == RequireFact({"current_state("}) = RequireLines
BY DEF RequireFact, RequireLines, FnLine, ReadLine, EndLine, Name

LEMMA MoveIs == MoveRequireFact = OneMove
<1>1. MoveRequireFact = In(OldFacts, RequireFact({"current_state("})) \cup In(NewFacts, RequireFact({"current_state("}))
    BY DEF MoveRequireFact
<1> QED BY <1>1, RequireFactIs DEF OneMove

LEMMA DebtIs == MonotoneDebt = {Listed(2)}
BY DEF MonotoneDebt, Listed, Name

LEMMA MonotoneStart ==
    StartTree("monotone") =
        In(OldFacts, RequireLines) \cup In(MonotoneAllowlist, {Listed(2)} \cup {Header})
            \cup In(MonotoneManifest, {Header})
<1>1. StartTree("monotone") =
          In(OldFacts, RequireFact({"current_state("})) \cup In(MonotoneAllowlist, MonotoneDebt \cup {Header})
              \cup In(MonotoneManifest, {} \cup {Header})
    BY DEF StartTree, List
<1> QED BY <1>1, RequireFactIs, DebtIs

LEMMA MonotoneEdits ==
    Edits("monotone") = {OneMove} \cup Each(Single) \cup {Retire}
<1>1. Edits("monotone") =
          {MoveRequireFact} \cup Each({<<OldFacts, <<10, Code({})>>>>, <<OldFacts, <<40, Code({"current_state("})>>>>,
                                       <<MonotoneAllowlist, <<OldFacts, <<"require_marker_fact">>, "current_state(", 3>>>>,
                                       <<MonotoneManifest, <<OldFacts, <<"require_marker_fact">>, "reached(">>>>,
                                       <<Responsibilities, <<NewFacts, <<"M", "require_marker_fact">>, "reached(">>>>})
              \cup {{<<OldFacts, <<30, Code({"current_state("})>>>>, <<OldFacts, <<35, Code({"reached("})>>>>}
                        \cup In(MonotoneAllowlist, MonotoneDebt)}
    BY DEF Edits
<1>2. Single = {<<OldFacts, <<10, Code({})>>>>, <<OldFacts, <<40, Code({"current_state("})>>>>,
                <<MonotoneAllowlist, <<OldFacts, <<"require_marker_fact">>, "current_state(", 3>>>>,
                <<MonotoneManifest, <<OldFacts, <<"require_marker_fact">>, "reached(">>>>,
                <<Responsibilities, <<NewFacts, <<"M", "require_marker_fact">>, "reached(">>>>}
    BY DEF Single, Blank, LateLine, Listed, DeclaredOld, DeclaredNew, Name
<1>3. {<<OldFacts, <<30, Code({"current_state("})>>>>, <<OldFacts, <<35, Code({"reached("})>>>>}
          = {<<OldFacts, ReadLine>>, <<OldFacts, CallLine>>}
    BY DEF ReadLine, CallLine
<1>4. In(MonotoneAllowlist, MonotoneDebt) = {<<MonotoneAllowlist, Listed(2)>>}
    BY DebtIs DEF In
<1> DEFINE pair == {<<OldFacts, ReadLine>>, <<OldFacts, CallLine>>}
<1>5. Retire = pair \cup {<<MonotoneAllowlist, Listed(2)>>}
    BY DEF Retire
<1>6. Edits("monotone") = {MoveRequireFact} \cup Each(Single) \cup {pair \cup In(MonotoneAllowlist, MonotoneDebt)}
    BY <1>1, <1>2, <1>3
<1> HIDE DEF pair
<1> QED BY <1>4, <1>5, <1>6, MoveIs

LEMMA MonotoneNames ==
    /\ OldFacts # NewFacts /\ OldFacts # MonotoneAllowlist /\ OldFacts # MonotoneManifest
    /\ OldFacts # Responsibilities /\ NewFacts # MonotoneAllowlist /\ NewFacts # MonotoneManifest
    /\ NewFacts # Responsibilities /\ MonotoneAllowlist # MonotoneManifest
    /\ MonotoneAllowlist # Responsibilities /\ MonotoneManifest # Responsibilities
BY DEF OldFacts, NewFacts, MonotoneAllowlist, MonotoneManifest, Responsibilities

LEMMA MonotoneFacts ==
    ASSUME NEW x \in Facts("monotone")
    PROVE  /\ x[1] = OldFacts => x[2] \in OldLines
           /\ x[1] = NewFacts => x[2] \in RequireLines
           /\ x[1] = MonotoneAllowlist => x[2] \in {Header, Listed(2), Listed(3)}
           /\ x[1] = MonotoneManifest => x[2] \in {Header, DeclaredOld}
           /\ x[1] = Responsibilities => x[2] = DeclaredNew
<1> DEFINE two == Listed(2)
           three == Listed(3)
           ten == Blank(10)
<1>1. RequireLines \subseteq OldLines /\ {ten, ReadLine, CallLine, LateLine} \subseteq OldLines
    BY DEF RequireLines, OldLines
<1>2. StartTree("monotone") =
        In(OldFacts, RequireLines) \cup In(MonotoneAllowlist, {two} \cup {Header}) \cup In(MonotoneManifest, {Header})
    BY MonotoneStart
<1>3. Single = {<<OldFacts, ten>>, <<OldFacts, LateLine>>, <<MonotoneAllowlist, three>>,
                <<MonotoneManifest, DeclaredOld>>, <<Responsibilities, DeclaredNew>>}
    BY DEF Single
<1>4. Retire = {<<OldFacts, ReadLine>>, <<OldFacts, CallLine>>, <<MonotoneAllowlist, two>>}
    BY DEF Retire
<1> HIDE DEF two, three, ten
<1>5. x \in StartTree("monotone") \/ x \in OneMove \/ x \in Single \/ x \in Retire
    BY MonotoneEdits DEF Facts, Each
<1>6. CASE x \in StartTree("monotone") \/ x \in OneMove
  <2>1. x \in In(OldFacts, RequireLines) \/ x \in In(NewFacts, RequireLines)
        \/ x \in In(MonotoneAllowlist, {two} \cup {Header}) \/ x \in In(MonotoneManifest, {Header})
      BY <1>2, <1>6 DEF OneMove
  <2> QED BY <1>1, <2>1, MonotoneNames, InIs DEF two
<1>7. CASE x \in Single
    BY <1>1, <1>3, <1>7, MonotoneNames, PairIs DEF three
<1>8. CASE x \in Retire
    BY <1>1, <1>4, <1>8, MonotoneNames, PairIs DEF two
<1> QED BY <1>5, <1>6, <1>7, <1>8

(* Only the move touches these facts, and it touches all of them; no edit  *)
(* touches the header of the list.                                         *)
Tied == {<<OldFacts, FnLine>>, <<OldFacts, EndLine>>} \cup In(NewFacts, RequireLines)

LEMMA TiedInMove == Tied \subseteq OneMove
<1>1. FnLine \in RequireLines /\ EndLine \in RequireLines
    BY DEF RequireLines
<1> QED BY <1>1 DEF Tied, OneMove, In

LEMMA RowsDiffer ==
    /\ \A n : Listed(n) # Header
    /\ Listed(2) # Listed(3)
    /\ DeclaredOld # Header
    /\ \A n : Listed(n)[1] = OldFacts /\ Listed(n)[2] = Name /\ Listed(n)[3] = "current_state("
    /\ DeclaredOld[1] = OldFacts /\ DeclaredOld[2] = Name /\ DeclaredOld[3] = "reached("
    /\ DeclaredNew[1] = NewFacts /\ DeclaredNew[2] = <<"M", "require_marker_fact">> /\ DeclaredNew[3] = "reached("
<1>1. Len(Header) = 1
    BY DEF Header
<1>2. \A n : Len(Listed(n)) = 4
    BY DEF Listed
<1>3. Len(DeclaredOld) = 3
    BY DEF DeclaredOld
<1>4. Listed(2)[4] = 2 /\ Listed(3)[4] = 3
    BY DEF Listed
<1>5. \A n : Listed(n)[1] = OldFacts /\ Listed(n)[2] = Name /\ Listed(n)[3] = "current_state("
    BY DEF Listed
<1>6. DeclaredOld[1] = OldFacts /\ DeclaredOld[2] = Name /\ DeclaredOld[3] = "reached("
    BY DEF DeclaredOld
<1>7. DeclaredNew[1] = NewFacts /\ DeclaredNew[2] = <<"M", "require_marker_fact">> /\ DeclaredNew[3] = "reached("
    BY DEF DeclaredNew
<1> QED BY <1>1, <1>2, <1>3, <1>4, <1>5, <1>6, <1>7

LEMMA Untied ==
    ASSUME NEW e \in Edits("monotone"), e # OneMove
    PROVE  e \cap Tied = {} /\ <<MonotoneAllowlist, Header>> \notin e
<1> DEFINE two == Listed(2)
           three == Listed(3)
           ten == Blank(10)
           fn == <<OldFacts, FnLine>>
           end == <<OldFacts, EndLine>>
           top == <<MonotoneAllowlist, Header>>
<1>1. e \subseteq {<<OldFacts, ten>>, <<OldFacts, LateLine>>, <<MonotoneAllowlist, three>>,
                   <<MonotoneManifest, DeclaredOld>>, <<Responsibilities, DeclaredNew>>,
                   <<OldFacts, ReadLine>>, <<OldFacts, CallLine>>, <<MonotoneAllowlist, two>>}
  <2>1. e \in Each(Single) \/ e = Retire
      BY MonotoneEdits
  <2> QED BY <2>1 DEF Each, Single, Retire
<1>2. Header \notin {two, three}
    BY RowsDiffer
<1>3. FnLine \notin {ten, LateLine, ReadLine, CallLine} /\ EndLine \notin {ten, LateLine, ReadLine, CallLine}
    BY LinesDiffer
<1> HIDE DEF two, three, ten
<1>4. fn[1] = OldFacts /\ fn[2] = FnLine /\ end[1] = OldFacts /\ end[2] = EndLine
      /\ top[1] = MonotoneAllowlist /\ top[2] = Header
    BY PairIs
<1> HIDE DEF fn, end, top
<1>5. ASSUME NEW x \in e
      PROVE  x # fn /\ x # end /\ x # top /\ x[1] # NewFacts
  <2>1. \/ x[1] = OldFacts /\ x[2] \in {ten, LateLine, ReadLine, CallLine}
        \/ x[1] = MonotoneAllowlist /\ x[2] \in {two, three}
        \/ x[1] = MonotoneManifest \/ x[1] = Responsibilities
      BY <1>1, <1>5, PairIs
  <2> QED BY <1>2, <1>3, <1>4, <2>1, MonotoneNames
<1>6. \A x \in In(NewFacts, RequireLines) : x[1] = NewFacts
    BY InIs
<1>7. Tied = {fn, end} \cup In(NewFacts, RequireLines)
    BY DEF Tied, fn, end
<1> QED BY <1>5, <1>6, <1>7 DEF top

InOnePiece(t) ==
    /\ <<OldFacts, EndLine>> \in t <=> <<OldFacts, FnLine>> \in t
    /\ \A f \in In(NewFacts, RequireLines) : f \in t <=> <<OldFacts, FnLine>> \notin t

(* The function stands in one of the files, its signature with its end.    *)
MonotoneTrees ==
    {t \in SUBSET Facts("monotone") : <<MonotoneAllowlist, Header>> \in t /\ InOnePiece(t)}

LEMMA MonotoneSteady ==
    Steady("monotone", MonotoneTrees) /\ StartTree("monotone") \in MonotoneTrees
<1> DEFINE fn == <<OldFacts, FnLine>>
           end == <<OldFacts, EndLine>>
           top == <<MonotoneAllowlist, Header>>
           New == In(NewFacts, RequireLines)
           Good(t) == /\ top \in t
                      /\ end \in t <=> fn \in t
                      /\ \A f \in New : f \in t <=> fn \notin t
<1>1. \A t : t \in MonotoneTrees <=> t \in SUBSET Facts("monotone") /\ Good(t)
    BY DEF MonotoneTrees, InOnePiece
<1>2. Tied = {fn, end} \cup New
    BY DEF Tied
<1>3. top \notin OneMove
  <2>1. top[1] = MonotoneAllowlist
      BY PairIs
  <2> HIDE DEF top
  <2> QED BY <2>1, MonotoneNames, InIs DEF OneMove
<1>4. Good(StartTree("monotone"))
  <2>1. StartTree("monotone") =
        In(OldFacts, RequireLines) \cup In(MonotoneAllowlist, {Listed(2)} \cup {Header}) \cup In(MonotoneManifest, {Header})
      BY MonotoneStart
  <2>2. top \in In(MonotoneAllowlist, {Listed(2)} \cup {Header})
      BY DEF In
  <2>3. fn \in In(OldFacts, RequireLines) /\ end \in In(OldFacts, RequireLines)
      BY DEF In, RequireLines
  <2> HIDE DEF fn, end, top
  <2>4. \A f \in New : f \notin StartTree("monotone")
      BY <2>1, MonotoneNames, InIs
  <2> QED BY <2>1, <2>2, <2>3, <2>4
<1> HIDE DEF fn, end, top, New
<1>5. ASSUME NEW s, Good(s), NEW e \in Edits("monotone")
      PROVE  Good(Toggle(s, e))
  <2>1. CASE e = OneMove
    <3>1. fn \in e /\ end \in e /\ top \notin e /\ \A f \in New : f \in e
        BY <1>2, <1>3, <2>1, TiedInMove
    <3> QED BY <1>5, <3>1 DEF Toggle
  <2>2. CASE e # OneMove
    <3>1. fn \notin e /\ end \notin e /\ top \notin e /\ \A f \in New : f \notin e
        BY <1>2, <2>2, Untied DEF top
    <3> QED BY <1>5, <3>1 DEF Toggle
  <2> QED BY <2>1, <2>2
<1>6. \A s, t, u : Good(s) /\ Good(t) /\ Good(u) => Good(Merge(s, t, u))
    BY DEF Merge
<1> HIDE DEF Good
<1>7. Steady("monotone", SUBSET Facts("monotone")) /\ StartTree("monotone") \in SUBSET Facts("monotone")
    BY SubsetsSteady
<1> QED BY <1>1, <1>4, <1>5, <1>6, <1>7 DEF Steady

(* The identity of every read of the function, wherever it stands.         *)
Key0 == <<NewFacts, Name, "current_state(">>

LEMMA ReadKey ==
    ASSUME NEW v, v[1] \in {OldFacts, NewFacts}, v[2] = Name, v[3] = "current_state("
    PROVE  canonical_key(v) = Key0
<1>1. Name = <<"require_marker_fact">> /\ OldFacts = "devloop/replayer.lua" /\ NewFacts = "devloop/required_facts.lua"
    BY DEF Name, OldFacts, NewFacts
<1>2. canonical_surface(Name) = Name
  <2>1. Len(Name) = 1
      BY DEF Name
  <2> QED BY <2>1 DEF canonical_surface
<1>3. (IF v[1] = "devloop/replayer.lua" /\ v[2] = <<"require_marker_fact">>
       THEN "devloop/required_facts.lua" ELSE v[1]) = NewFacts
    BY <1>1
<1> QED BY <1>2, <1>3 DEF canonical_key, Key0

LEMMA BucketIs ==
    ASSUME NEW S, \A v \in S : canonical_key(v) = Key0
    PROVE  InBucket(S, Key0) = Cardinality(S) /\ \A k : k # Key0 => InBucket(S, k) = 0
<1>1. {v \in S : canonical_key(v) = Key0} = S
    OBVIOUS
<1>2. \A k : k # Key0 => {v \in S : canonical_key(v) = k} = {}
    OBVIOUS
<1>3. Cardinality({}) = 0
    BY FS_EmptySet
<1> QED BY <1>1, <1>2, <1>3 DEF InBucket

LEMMA FewAre ==
    /\ IsFiniteSet({}) /\ Cardinality({}) = 0
    /\ \A x : IsFiniteSet({x}) /\ Cardinality({x}) = 1
    /\ \A x, y : IsFiniteSet({x, y}) /\ (x # y => Cardinality({x, y}) = 2)
<1>1. IsFiniteSet({}) /\ Cardinality({}) = 0
    BY FS_EmptySet
<1>2. \A x : IsFiniteSet({x}) /\ Cardinality({x}) = 1
    BY FS_Singleton
<1>3. ASSUME NEW x, NEW y
      PROVE  IsFiniteSet({x, y}) /\ (x # y => Cardinality({x, y}) = 2)
  <2>1. {x, y} = {x} \cup {y}
      OBVIOUS
  <2>2. IsFiniteSet({x} \cup {y})
      BY <1>2, FS_AddElement
  <2>3. x # y => Cardinality({x} \cup {y}) = Cardinality({x}) + 1
      BY <1>2, FS_AddElement
  <2> QED BY <1>2, <2>1, <2>2, <2>3
<1> QED BY <1>1, <1>2, <1>3

(* The list of a tree is none, one or both of the two rows.                *)
ReadRows(t) == load_allowlist(t, MonotoneAllowlist)
OneRow(t) == ~({Listed(2), Listed(3)} \subseteq ReadRows(t))

LEMMA RowsAre ==
    ASSUME NEW t \in MonotoneTrees
    PROVE  /\ ReadRows(t) \subseteq {Listed(2), Listed(3)}
           /\ \A r \in ReadRows(t) : canonical_key(r) = Key0
           /\ InBucket(ReadRows(t), Key0) = Cardinality(ReadRows(t))
           /\ MonotoneAllowlist \in Files(t)
<1> DEFINE two == Listed(2)
           three == Listed(3)
           top == <<MonotoneAllowlist, Header>>
<1>1. ReadRows(t) \subseteq {two, three}
  <2> SUFFICES ASSUME NEW f \in t, f[1] = MonotoneAllowlist, f[2] # Header PROVE f[2] \in {two, three}
      BY DEF ReadRows, load_allowlist, Lines
  <2>1. f \in Facts("monotone")
      BY DEF MonotoneTrees
  <2> QED BY <2>1, MonotoneFacts
<1>2. canonical_key(two) = Key0 /\ canonical_key(three) = Key0
    BY RowsDiffer, ReadKey
<1>3. MonotoneAllowlist \in Files(t)
  <2>1. top \in t /\ top[1] = MonotoneAllowlist
      BY PairIs DEF MonotoneTrees
  <2> QED BY <2>1 DEF Files
<1> HIDE DEF two, three
<1>4. \A r \in ReadRows(t) : canonical_key(r) = Key0
    BY <1>1, <1>2
<1>5. InBucket(ReadRows(t), Key0) = Cardinality(ReadRows(t))
    BY <1>4, BucketIs
<1> QED BY <1>1, <1>3, <1>4, <1>5 DEF two, three

LEMMA RowCount ==
    ASSUME NEW t \in MonotoneTrees
    PROVE  /\ OneRow(t) => Cardinality(ReadRows(t)) \in {0, 1}
           /\ ~OneRow(t) => Cardinality(ReadRows(t)) = 2
           /\ Cardinality(ReadRows(t)) = 0 <=> ReadRows(t) = {}
<1> DEFINE two == Listed(2)
           three == Listed(3)
           R == ReadRows(t)
<1>1. R \subseteq {two, three} /\ two # three
    BY RowsAre, RowsDiffer
<1>2. OneRow(t) <=> ~({two, three} \subseteq R)
    BY DEF OneRow
<1> HIDE DEF two, three, R
<1>3. R = {} \/ R = {two} \/ R = {three} \/ R = {two, three}
    BY <1>1
<1>4. Cardinality(R) = IF R = {} THEN 0 ELSE IF R = {two, three} THEN 2 ELSE 1
  <2>1. Cardinality({}) = 0 /\ Cardinality({two}) = 1 /\ Cardinality({three}) = 1 /\ Cardinality({two, three}) = 2
      BY <1>1, FewAre
  <2>2. {two} # {} /\ {three} # {} /\ {two} # {two, three} /\ {three} # {two, three}
      BY <1>1
  <2> QED BY <1>3, <2>1, <2>2
<1> QED BY <1>1, <1>2, <1>3, <1>4 DEF R

(* What a branch that the gate passes was measured against.                *)
LEMMA SilentIs ==
    ASSUME NEW c, monotone_messages(c) = {}, c.base \in MonotoneTrees
    PROVE  \A k \in {canonical_key(v) : v \in source_violations(c.head) \cup ReadRows(c.head)} :
               /\ ~(InBucket(source_violations(c.head), k) > InBucket(ReadRows(c.head), k))
               /\ ~(InBucket(ReadRows(c.head), k) > InBucket(source_violations(c.head), k))
               /\ ~(InBucket(ReadRows(c.head), k) > InBucket(ReadRows(c.base), k))
<1>1. /\ base_messages(c, MonotoneAllowlist) = {}
      /\ monotone_ratchet(source_violations(c.head), ReadRows(c.head),
                          base_status(c, MonotoneAllowlist) = "present", ReadRows(c.base)) = {}
    BY DEF monotone_messages, ReadRows
<1>2. base_status(c, MonotoneAllowlist) = "present"
  <2>1. base_status(c, MonotoneAllowlist) # "unresolved"
      BY <1>1 DEF base_messages
  <2>2. MonotoneAllowlist \in Files(c.base)
      BY RowsAre
  <2> QED BY <2>1, <2>2 DEF base_status
<1> DEFINE h == base_status(c, MonotoneAllowlist) = "present"
<1>3. h \in BOOLEAN
    OBVIOUS
<1> HIDE DEF h
<1>4. monotone_ratchet(source_violations(c.head), ReadRows(c.head), h, ReadRows(c.base)) = {}
    BY <1>1 DEF h
<1>5. \A k \in {canonical_key(v) : v \in source_violations(c.head) \cup ReadRows(c.head)} :
           /\ ~(InBucket(source_violations(c.head), k) > InBucket(ReadRows(c.head), k))
           /\ ~(InBucket(ReadRows(c.head), k) > InBucket(source_violations(c.head), k))
           /\ h => ~(InBucket(ReadRows(c.head), k) > InBucket(ReadRows(c.base), k))
    BY <1>3, <1>4, RatchetSilent
<1> QED BY <1>2, <1>5 DEF h

LEMMA RowsShrink ==
    ASSUME NEW c, monotone_messages(c) = {}, c.base \in MonotoneTrees, c.head \in MonotoneTrees
    PROVE  Cardinality(ReadRows(c.head)) <= Cardinality(ReadRows(c.base))
<1>1. CASE ReadRows(c.head) = {}
  <2>1. Cardinality(ReadRows(c.head)) = 0
      BY <1>1, RowCount
  <2>2. Cardinality(ReadRows(c.base)) \in {0, 1, 2}
      BY RowCount
  <2> QED BY <2>1, <2>2
<1>2. CASE ReadRows(c.head) # {}
  <2>1. Key0 \in {canonical_key(v) : v \in source_violations(c.head) \cup ReadRows(c.head)}
      BY <1>2, RowsAre
  <2>2. ~(Cardinality(ReadRows(c.head)) > Cardinality(ReadRows(c.base)))
      BY <2>1, SilentIs, RowsAre
  <2>3. Cardinality(ReadRows(c.head)) \in {0, 1, 2} /\ Cardinality(ReadRows(c.base)) \in {0, 1, 2}
      BY RowCount
  <2> QED BY <2>2, <2>3
<1> QED BY <1>1, <1>2

LEMMA LineIn ==
    ASSUME NEW t \in SUBSET Facts("monotone"), NEW file, NEW l
    PROVE  l \in Lines(t, file) <=> <<file, l>> \in t
<1>1. \A f \in Facts("monotone") : f = <<f[1], f[2]>>
  <2>1. "monotone" \in AllGates
      BY DEF AllGates
  <2> QED BY <2>1, ScenarioAssumption DEF Facts, IsTree
<1>2. ASSUME <<file, l>> \in t PROVE l \in Lines(t, file)
  <2>1. <<file, l>>[1] = file /\ <<file, l>>[2] = l
      BY PairIs
  <2> QED BY <1>2, <2>1 DEF Lines
<1>3. ASSUME l \in Lines(t, file) PROVE <<file, l>> \in t
  <2>1. PICK f \in t : f[1] = file /\ f[2] = l
      BY <1>3 DEF Lines
  <2>2. f = <<f[1], f[2]>>
      BY <1>1
  <2> QED BY <2>1, <2>2
<1> QED BY <1>2, <1>3

LEMMA RowsMerge ==
    ASSUME NEW s \in MonotoneTrees, NEW t \in MonotoneTrees, NEW u \in MonotoneTrees, OneRow(s), OneRow(u),
           Cardinality(ReadRows(t)) <= Cardinality(ReadRows(s))
    PROVE  OneRow(Merge(s, t, u))
<1> DEFINE two == Listed(2)
           three == Listed(3)
           p == <<MonotoneAllowlist, two>>
           q == <<MonotoneAllowlist, three>>
           m == Merge(s, t, u)
<1>1. m \in MonotoneTrees
    BY MonotoneSteady DEF Steady
<1>2. two # Header /\ three # Header
    BY RowsDiffer
<1>3. \A x \in MonotoneTrees : /\ two \in ReadRows(x) <=> p \in x
                               /\ three \in ReadRows(x) <=> q \in x
  <2> HIDE DEF two, three
  <2>1. \A x \in MonotoneTrees : x \in SUBSET Facts("monotone")
      BY DEF MonotoneTrees
  <2>2. \A x \in MonotoneTrees : two \in Lines(x, MonotoneAllowlist) <=> p \in x
      BY <2>1, LineIn
  <2>3. \A x \in MonotoneTrees : three \in Lines(x, MonotoneAllowlist) <=> q \in x
      BY <2>1, LineIn
  <2> QED BY <1>2, <2>2, <2>3 DEF ReadRows, load_allowlist
<1>4. \A x \in MonotoneTrees : OneRow(x) <=> ~(p \in x /\ q \in x)
  <2>1. \A x \in MonotoneTrees : OneRow(x) <=> ~(two \in ReadRows(x) /\ three \in ReadRows(x))
      BY DEF OneRow
  <2> HIDE DEF p, q, two, three
  <2> QED BY <1>3, <2>1
<1>5. \A f : f \in m <=> (f \in u /\ ~(f \in s /\ f \notin t)) \/ (f \in t /\ f \notin s)
    BY DEF Merge
<1>6. OneRow(t)
  <2>1. Cardinality(ReadRows(s)) \in {0, 1}
      BY RowCount
  <2>2. ~OneRow(t) => Cardinality(ReadRows(t)) = 2
      BY RowCount
  <2> QED BY <2>1, <2>2
<1> HIDE DEF p, q, m
<1>7. CASE ReadRows(s) = {}
  <2>1. ReadRows(t) = {}
    <3>1. Cardinality(ReadRows(s)) = 0
        BY <1>7, RowCount
    <3>2. Cardinality(ReadRows(t)) \in {0, 1, 2} /\ (Cardinality(ReadRows(t)) = 0 => ReadRows(t) = {})
        BY RowCount
    <3> QED BY <3>1, <3>2
  <2>2. p \notin t /\ q \notin t /\ p \notin s /\ q \notin s
      BY <1>3, <1>7, <2>1
  <2>3. ~(p \in u /\ q \in u)
      BY <1>4
  <2>4. ~(p \in m /\ q \in m)
      BY <1>5, <2>2, <2>3
  <2> QED BY <1>1, <1>4, <2>4 DEF m
<1>8. CASE ReadRows(s) # {}
  <2>1. p \in s \/ q \in s
      BY <1>3, <1>8, RowsAre DEF p, q
  <2>2. ~(p \in s /\ q \in s) /\ ~(p \in t /\ q \in t) /\ ~(p \in u /\ q \in u)
      BY <1>4, <1>6
  <2>3. ~(p \in m /\ q \in m)
      BY <1>5, <2>1, <2>2
  <2> QED BY <1>1, <1>4, <2>3 DEF m
<1> QED BY <1>7, <1>8

(* The reads of the file that has the function.                            *)
Reads == {ReadLine, LateLine}

LEMMA CursorLines ==
    ASSUME NEW l \in OldLines
    PROVE  l[2].tok \cap CursorTokens = IF l \in Reads THEN {"current_state("} ELSE {}
<1> DEFINE ten == Blank(10)
<1>1. l \in {ten, FnLine, EndLine, CallLine} \/ l \in Reads
    BY DEF OldLines, Reads
<1>2. CursorTokens = {"current_state(", ".state == "} /\ "reached(" \notin CursorTokens
    BY DEF CursorTokens
<1>3. ten[2].tok = {} /\ FnLine[2].tok = {} /\ EndLine[2].tok = {} /\ CallLine[2].tok = {"reached("}
      /\ ReadLine[2].tok = {"current_state("} /\ LateLine[2].tok = {"current_state("}
    BY LinesDiffer
<1>4. ASSUME l \in {ten, FnLine, EndLine, CallLine}
      PROVE  l \notin Reads
  <2>1. ten[1] = 10 /\ FnLine[1] = 20 /\ EndLine[1] = 50 /\ CallLine[1] = 35 /\ ReadLine[1] = 30 /\ LateLine[1] = 40
      BY LinesDiffer
  <2> HIDE DEF ten
  <2> QED BY <1>4, <2>1 DEF Reads
<1> HIDE DEF ten
<1>5. CASE l \in Reads
  <2>1. l[2].tok = {"current_state("}
      BY <1>3, <1>5 DEF Reads
  <2> QED BY <1>2, <1>5, <2>1
<1>6. CASE l \in {ten, FnLine, EndLine, CallLine}
  <2>1. l[2].tok = {} \/ l[2].tok = {"reached("}
      BY <1>3, <1>6
  <2> QED BY <1>2, <1>4, <1>6, <2>1
<1> QED BY <1>1, <1>5, <1>6

LEMMA NumbersOld ==
    ASSUME NEW tree, NEW file, Lines(tree, file) \subseteq OldLines
    PROVE  /\ DOMAIN Source(tree, file) = 1..Len(Source(tree, file))
           /\ \A l \in Lines(tree, file) :
                  /\ LineNumber(tree, file, l) \in 1..Len(Source(tree, file))
                  /\ Source(tree, file)[LineNumber(tree, file, l)] = l[2]
           /\ \A l, m \in Lines(tree, file) :
                  l[1] < m[1] <=> LineNumber(tree, file, l) < LineNumber(tree, file, m)
           /\ \A i \in 1..Len(Source(tree, file)) :
                  \E l \in Lines(tree, file) : LineNumber(tree, file, l) = i
<1>1. IsLua(Lines(tree, file))
    BY OldLua, LuaPart
<1>2. Ordered(Lines(tree, file)) /\ IsCode(Source(tree, file))
    BY <1>1, CodeIs DEF IsLua
<1>3. DOMAIN Source(tree, file) = 1..Len(Source(tree, file))
    BY <1>2, SourceIs DEF IsCode
<1> QED BY <1>2, <1>3, NumbersAre

LEMMA SitesOld ==
    ASSUME NEW tree, NEW file, Lines(tree, file) \subseteq OldLines, NEW v
    PROVE  v \in Sites(tree, file, CursorTokens) <=>
               \E l \in Reads \cap Lines(tree, file) :
                   v = <<file, surface_for_line(Source(tree, file), LineNumber(tree, file, l)),
                         "current_state(", LineNumber(tree, file, l)>>
<1> DEFINE src == Source(tree, file)
           L == Lines(tree, file)
           N(l) == LineNumber(tree, file, l)
           site(i, t) == <<file, surface_for_line(src, i), t, i>>
           read == "current_state("
<1>1. /\ DOMAIN src = 1..Len(src)
      /\ \A l \in L : N(l) \in 1..Len(src) /\ src[N(l)] = l[2]
      /\ \A i \in 1..Len(src) : \E l \in L : N(l) = i
    BY NumbersOld
<1>2. v \in Sites(tree, file, CursorTokens) <=>
          \E i \in DOMAIN src : \E t \in src[i].tok \cap CursorTokens : v = site(i, t)
    BY SitesAre
<1>3. \A l \in L : l[2].tok \cap CursorTokens = IF l \in Reads THEN {read} ELSE {}
    BY CursorLines
<1> HIDE DEF src, L, N, site, read
<1>4. (\E i \in DOMAIN src : \E t \in src[i].tok \cap CursorTokens : v = site(i, t))
          => \E l \in Reads \cap L : v = site(N(l), read)
  <2> SUFFICES ASSUME NEW i \in DOMAIN src, NEW t \in src[i].tok \cap CursorTokens, v = site(i, t)
               PROVE  \E l \in Reads \cap L : v = site(N(l), read)
      OBVIOUS
  <2>1. PICK l \in L : N(l) = i
      BY <1>1
  <2>2. t \in l[2].tok \cap CursorTokens
      BY <1>1, <2>1
  <2>3. l \in Reads /\ t = read
      BY <1>3, <2>2
  <2> QED BY <2>1, <2>3
<1>5. (\E l \in Reads \cap L : v = site(N(l), read))
          => \E i \in DOMAIN src : \E t \in src[i].tok \cap CursorTokens : v = site(i, t)
  <2> SUFFICES ASSUME NEW l \in Reads \cap L, v = site(N(l), read)
               PROVE  \E i \in DOMAIN src : \E t \in src[i].tok \cap CursorTokens : v = site(i, t)
      OBVIOUS
  <2>1. N(l) \in DOMAIN src /\ read \in src[N(l)].tok \cap CursorTokens
      BY <1>1, <1>3
  <2> QED BY <2>1
<1> QED BY <1>2, <1>4, <1>5 DEF src, L, N, site, read

LEMMA NoReads ==
    ASSUME NEW tree, NEW file, Lines(tree, file) \subseteq OldLines, Reads \cap Lines(tree, file) = {}
    PROVE  Sites(tree, file, CursorTokens) = {}
BY SitesOld

(* One site per read, and all of them are of the function.                 *)
LEMMA ReadsOfFunction ==
    ASSUME NEW tree, NEW file \in MonotoneFiles, Lines(tree, file) \subseteq OldLines,
           RequireLines \subseteq Lines(tree, file)
    PROVE  LET S == Sites(tree, file, CursorTokens)
           IN /\ \A v \in S : canonical_key(v) = Key0
              /\ IsFiniteSet(S) /\ Cardinality(S) = IF LateLine \in Lines(tree, file) THEN 2 ELSE 1
<1> DEFINE src == Source(tree, file)
           L == Lines(tree, file)
           N(l) == LineNumber(tree, file, l)
           S == Sites(tree, file, CursorTokens)
           site(l) == <<file, Name, "current_state(", N(l)>>
<1>1. \A l \in Reads \cap L : surface_for_line(src, N(l)) = Name
  <2> DEFINE h == LineNumber(tree, file, FnLine)
  <2>1. \A l \in {ReadLine, LateLine} \cap L : surface_for_line(src, N(l)) = Name
    <3> HIDE DEF h
    <3>1. h = LineNumber(tree, file, FnLine)
        BY DEF h
    <3> HIDE DEF N
    <3>2. src = Source(tree, file)
        OBVIOUS
    <3> HIDE DEF src
    <3> QED BY <3>1, <3>2, Headed DEF N
  <2> QED BY <2>1 DEF Reads
<1>2. \A v : v \in S <=> \E l \in Reads \cap L : v = site(l)
  <2> TAKE v
  <2>1. v \in S <=> \E l \in Reads \cap L : v = <<file, surface_for_line(src, N(l)), "current_state(", N(l)>>
      BY SitesOld
  <2> HIDE DEF S, N, src, L
  <2> QED BY <1>1, <2>1
<1>3. file \in {OldFacts, NewFacts}
    BY DEF MonotoneFiles, OldFacts, NewFacts
<1>4. \A l : canonical_key(site(l)) = Key0
  <2> TAKE l
  <2>1. site(l)[1] = file /\ site(l)[2] = Name /\ site(l)[3] = "current_state("
      OBVIOUS
  <2> HIDE DEF site
  <2> QED BY <1>3, <2>1, ReadKey
<1>5. ReadLine \in L
    BY DEF RequireLines
<1>6. LateLine \in L => site(ReadLine) # site(LateLine)
  <2> SUFFICES ASSUME LateLine \in L PROVE site(ReadLine) # site(LateLine)
      OBVIOUS
  <2>1. ReadLine[1] < LateLine[1]
      BY LinesDiffer
  <2>2. N(ReadLine) < N(LateLine) /\ N(ReadLine) \in 1..Len(src)
      BY <1>5, <2>1, NumbersOld
  <2>3. N(ReadLine) # N(LateLine)
      BY <2>2
  <2>4. site(ReadLine)[4] = N(ReadLine) /\ site(LateLine)[4] = N(LateLine)
      OBVIOUS
  <2> HIDE DEF site
  <2> QED BY <2>3, <2>4
<1> HIDE DEF S, site, L, N, src
<1>7. S = IF LateLine \in L THEN {site(ReadLine), site(LateLine)} ELSE {site(ReadLine)}
    BY <1>2, <1>5 DEF Reads
<1>8. \A v \in S : canonical_key(v) = Key0
    BY <1>4, <1>7
<1>9. CASE LateLine \in L
  <2>1. IsFiniteSet({site(ReadLine), site(LateLine)}) /\ Cardinality({site(ReadLine), site(LateLine)}) = 2
      BY <1>6, <1>9, FewAre
  <2> QED BY <1>7, <1>8, <1>9, <2>1 DEF S, L
<1>10. CASE LateLine \notin L
  <2>1. IsFiniteSet({site(ReadLine)}) /\ Cardinality({site(ReadLine)}) = 1
      BY FewAre
  <2> QED BY <1>7, <1>8, <1>10, <2>1 DEF S, L
<1> QED BY <1>9, <1>10

LEMMA InMove ==
    ASSUME NEW file, NEW l
    PROVE  <<file, l>> \in OneMove <=> file \in {OldFacts, NewFacts} /\ l \in RequireLines
<1>1. \A f : f \in In(OldFacts, RequireLines) <=> \E r \in RequireLines : f = <<OldFacts, r>>
    BY DEF In
<1>2. \A f : f \in In(NewFacts, RequireLines) <=> \E r \in RequireLines : f = <<NewFacts, r>>
    BY DEF In
<1>3. \A f : f \in OneMove <=> f \in In(OldFacts, RequireLines) \/ f \in In(NewFacts, RequireLines)
    BY DEF OneMove
<1> QED BY <1>1, <1>2, <1>3

LEMMA ViolationsAre ==
    ASSUME NEW tree
    PROVE  source_violations(tree) = Sites(tree, OldFacts, CursorTokens) \cup Sites(tree, NewFacts, CursorTokens)
<1>1. MonotoneFiles = {OldFacts, NewFacts}
    BY DEF MonotoneFiles, OldFacts, NewFacts
<1> QED BY <1>1 DEF source_violations

LEMMA RequireInOld == RequireLines \subseteq OldLines /\ Reads \cap RequireLines = {ReadLine}
<1>1. RequireLines \subseteq OldLines /\ ReadLine \in Reads \cap RequireLines
    BY DEF RequireLines, OldLines, Reads
<1>2. LateLine \notin RequireLines
    BY LinesDiffer DEF RequireLines
<1> QED BY <1>1, <1>2 DEF Reads

(* What the move leaves of the files.                                      *)
LEMMA MovedLines ==
    ASSUME NEW s \in MonotoneTrees, In(OldFacts, RequireLines) \subseteq s,
           NEW t, t = Toggle(s, OneMove)
    PROVE  /\ t \in MonotoneTrees
           /\ Lines(s, OldFacts) \subseteq OldLines /\ RequireLines \subseteq Lines(s, OldFacts)
           /\ Lines(s, NewFacts) = {}
           /\ Lines(t, OldFacts) = Lines(s, OldFacts) \ RequireLines
           /\ Lines(t, NewFacts) = RequireLines
           /\ \A f : f \notin {OldFacts, NewFacts} => Lines(t, f) = Lines(s, f)
<1>1. t \in MonotoneTrees
  <2>1. OneMove \in Edits("monotone")
      BY MonotoneEdits
  <2> QED BY <2>1, MonotoneSteady DEF Steady
<1>2. s \in SUBSET Facts("monotone") /\ t \in SUBSET Facts("monotone")
    BY <1>1 DEF MonotoneTrees
<1>3. \A f, l : /\ l \in Lines(s, f) <=> <<f, l>> \in s
                /\ l \in Lines(t, f) <=> <<f, l>> \in t
    BY <1>2, LineIn
<1>4. \A f, l : l \in Lines(t, f) <=>
          \/ l \in Lines(s, f) /\ ~(f \in {OldFacts, NewFacts} /\ l \in RequireLines)
          \/ l \notin Lines(s, f) /\ f \in {OldFacts, NewFacts} /\ l \in RequireLines
  <2>1. \A x : x \in t <=> (x \in s /\ x \notin OneMove) \/ (x \notin s /\ x \in OneMove)
      BY DEF Toggle
  <2> QED BY <1>3, <2>1, InMove
<1>5. Lines(s, OldFacts) \subseteq OldLines
  <2> SUFFICES ASSUME NEW x \in s, x[1] = OldFacts PROVE x[2] \in OldLines
      BY DEF Lines
  <2> QED BY <1>2, MonotoneFacts
<1>6. RequireLines \subseteq Lines(s, OldFacts)
  <2>1. \A l \in RequireLines : <<OldFacts, l>> \in s
      BY DEF In
  <2> QED BY <1>3, <2>1
<1>7. Lines(s, NewFacts) = {}
  <2>1. FnLine \in RequireLines
      BY DEF RequireLines
  <2>2. <<OldFacts, FnLine>> \in s
      BY <1>3, <1>6, <2>1
  <2>3. \A f \in In(NewFacts, RequireLines) : f \notin s
      BY <2>2 DEF MonotoneTrees, InOnePiece
  <2>4. \A l \in RequireLines : l \notin Lines(s, NewFacts)
      BY <1>3, <2>3 DEF In
  <2>5. \A l \in Lines(s, NewFacts) : l \in RequireLines
    <3> SUFFICES ASSUME NEW x \in s, x[1] = NewFacts PROVE x[2] \in RequireLines
        BY DEF Lines
    <3> QED BY <1>2, MonotoneFacts
  <2> QED BY <2>4, <2>5
<1>8. \A l : l \in Lines(t, OldFacts) <=> l \in Lines(s, OldFacts) \ RequireLines
    BY <1>4, <1>6
<1>9. \A l : l \in Lines(t, NewFacts) <=> l \in RequireLines
    BY <1>4, <1>7
<1>10. \A f : f \notin {OldFacts, NewFacts} => \A l : l \in Lines(t, f) <=> l \in Lines(s, f)
    BY <1>4
<1>11. \A f : f \notin {OldFacts, NewFacts} => Lines(t, f) = Lines(s, f)
  <2> SUFFICES ASSUME NEW f, f \notin {OldFacts, NewFacts} PROVE Lines(t, f) = Lines(s, f)
      OBVIOUS
  <2>1. \A l : l \in Lines(t, f) <=> l \in Lines(s, f)
      BY <1>10
  <2> QED BY <2>1
<1> QED BY <1>1, <1>5, <1>6, <1>7, <1>8, <1>9, <1>11

(* A function that reads the cursor is not declared to be without reads.   *)
LEMMA NotDeclared ==
    ASSUME NEW s \in MonotoneTrees, In(OldFacts, RequireLines) \subseteq s,
           monotone_manifest_messages(s) = {}, responsibility_binding_messages(s) = {}
    PROVE  load_allowlist(s, MonotoneManifest) = {} /\ Lines(s, Responsibilities) = {}
<1> DEFINE src == Source(s, OldFacts)
           h == LineNumber(s, OldFacts, FnLine)
<1>1. Lines(s, OldFacts) \subseteq OldLines /\ RequireLines \subseteq Lines(s, OldFacts) /\ Lines(s, NewFacts) = {}
    BY MovedLines
<1>2. /\ \A m \in load_allowlist(s, MonotoneManifest) : milestone_messages(s, m) = {}
      /\ \A m \in Lines(s, Responsibilities) : milestone_messages(s, m) = {}
    BY DeclaredSilent
<1>3. s \in SUBSET Facts("monotone")
    BY DEF MonotoneTrees
<1>4. load_allowlist(s, MonotoneManifest) \subseteq {DeclaredOld}
  <2> SUFFICES ASSUME NEW x \in s, x[1] = MonotoneManifest, x[2] # Header PROVE x[2] = DeclaredOld
      BY DEF load_allowlist, Lines
  <2> QED BY <1>3, MonotoneFacts
<1>5. Lines(s, Responsibilities) \subseteq {DeclaredNew}
  <2> SUFFICES ASSUME NEW x \in s, x[1] = Responsibilities PROVE x[2] = DeclaredNew
      BY DEF Lines
  <2> QED BY <1>3, MonotoneFacts
<1>6. milestone_messages(s, DeclaredNew) # {}
  <2>1. DeclaredNew[1] = NewFacts
      BY RowsDiffer
  <2>2. NewFacts \notin Files(s)
      BY <1>1, FilesAre
  <2>3. milestone_messages(s, DeclaredNew) = {"stale path"}
      BY <2>1, <2>2 DEF milestone_messages
  <2> QED BY <2>3
<1>7. milestone_messages(s, DeclaredOld) # {}
  <2>1. DeclaredOld[1] = OldFacts /\ DeclaredOld[2] = Name
      BY RowsDiffer
  <2>2. ReadLine \in Lines(s, OldFacts) /\ ReadLine \in {ReadLine, LateLine} \cap Lines(s, OldFacts)
      BY <1>1 DEF RequireLines
  <2>3. OldFacts \in Files(s)
      BY <2>2, FilesAre
  <2>4. h = LineNumber(s, OldFacts, FnLine) /\ src = Source(s, OldFacts)
      OBVIOUS
  <2> DEFINE r == LineNumber(s, OldFacts, ReadLine)
  <2>5. r \in 1..Len(src) /\ src[r] = ReadLine[2]
      BY <1>1, <2>2, NumbersOld
  <2> HIDE DEF h, src, r
  <2>6. IsCode(src) /\ Heads(src) = {h} /\ src[h].fn = Name /\ r \in h..block_end(src, h)
      BY <1>1, <2>2, <2>4, Headed DEF r
  <2>7. Named(src, DeclaredOld[2]) = {h}
      BY <2>1, <2>6 DEF Named
  <2>8. h \in 1..Len(src)
      BY <2>6 DEF Heads
  <2>9. milestone_messages(s, DeclaredOld) = Declared(src, DeclaredOld, h)
    <3>1. IsSource(src)
        BY <2>6 DEF IsCode
    <3>2. \A x \in Named(src, DeclaredOld[2]) : h <= x
        BY <2>7, <2>8
    <3> DEFINE m == DeclaredOld
    <3>3. m[1] \in Files(s) /\ src = Source(s, m[1])
        BY <2>1, <2>3, <2>4
    <3>4. h \in Named(src, m[2]) /\ \A x \in Named(src, m[2]) : h <= x
        BY <2>7, <3>2
    <3> HIDE DEF m
    <3>5. milestone_messages(s, m) = Declared(src, m, h)
        BY <3>1, <3>3, <3>4, MilestoneIs
    <3> QED BY <3>5 DEF m
  <2>10. "current_state(" \in TokensFrom(src, h, h) \cap CursorTokens
    <3>1. "current_state(" \in src[r].tok
        BY <2>5, LinesDiffer
    <3>2. "current_state(" \in CursorTokens
        BY DEF CursorTokens
    <3> QED BY <2>6, <3>1, <3>2 DEF TokensFrom
  <2>11. Declared(src, DeclaredOld, h) # {}
    <3> DEFINE T == TokensFrom(src, h, h) \cap CursorTokens
    <3>1. T # {}
        BY <2>10
    <3>2. Declared(src, DeclaredOld, h) =
              (IF DeclaredOld[3] \in TokensFrom(src, h, h) THEN {} ELSE {"unbound accessor"})
              \cup {"cursor inside milestone" : t \in T}
        BY DEF Declared
    <3> HIDE DEF T
    <3> QED BY <3>1, <3>2
  <2> QED BY <2>9, <2>11
<1> QED BY <1>2, <1>4, <1>5, <1>6, <1>7

LEMMA MonotoneMoves ==
    ASSUME NEW c, NEW d, Beside(c, d), d.base \in MonotoneTrees, OneRow(d.base), monotone_messages(d) = {},
           In(OldFacts, RequireLines) \subseteq d.base, c.head = Toggle(d.base, OneMove)
    PROVE  monotone_messages(c) = {}
<1> DEFINE s == d.base
           t == c.head
           V == source_violations(s)
           W == source_violations(t)
           R == ReadRows(s)
<1>1. /\ t \in MonotoneTrees
      /\ Lines(s, OldFacts) \subseteq OldLines /\ RequireLines \subseteq Lines(s, OldFacts)
      /\ Lines(s, NewFacts) = {}
      /\ Lines(t, OldFacts) = Lines(s, OldFacts) \ RequireLines
      /\ Lines(t, NewFacts) = RequireLines
      /\ \A f : f \notin {OldFacts, NewFacts} => Lines(t, f) = Lines(s, f)
    BY MovedLines
<1>2. OldFacts \in MonotoneFiles /\ NewFacts \in MonotoneFiles
    BY DEF MonotoneFiles, OldFacts, NewFacts
<1>3. /\ \A v \in V : canonical_key(v) = Key0
      /\ Cardinality(V) = IF LateLine \in Lines(s, OldFacts) THEN 2 ELSE 1
  <2> HIDE DEF s
  <2>1. Sites(s, NewFacts, CursorTokens) = {}
      BY <1>1, NoReads
  <2>2. V = Sites(s, OldFacts, CursorTokens)
      BY <2>1, ViolationsAre
  <2> HIDE DEF V
  <2> QED BY <1>1, <1>2, <2>2, ReadsOfFunction
<1>4. \A k : InBucket(V, k) = IF k = Key0 THEN Cardinality(V) ELSE 0
    BY <1>3, BucketIs
<1>5. /\ \A k \in {canonical_key(v) : v \in V \cup R} :
             /\ ~(InBucket(V, k) > InBucket(R, k))
             /\ ~(InBucket(R, k) > InBucket(V, k))
             /\ ~(InBucket(R, k) > InBucket(R, k))
  <2>1. d.base = s /\ d.head = s
      BY DEF Beside
  <2>2. d.base \in MonotoneTrees
      OBVIOUS
  <2> QED BY <2>1, <2>2, SilentIs
<1>6. Key0 \in {canonical_key(v) : v \in V \cup R}
  <2>1. V # {}
      BY <1>3, FewAre
  <2> HIDE DEF V, R
  <2> QED BY <1>3, <2>1
<1>7. InBucket(R, Key0) = Cardinality(R) /\ Cardinality(R) \in {0, 1}
    BY RowsAre, RowCount
<1>8. LateLine \notin Lines(s, OldFacts) /\ Cardinality(V) = 1 /\ Cardinality(R) = 1
  <2> HIDE DEF V, R, s
  <2>1. ~(Cardinality(V) > Cardinality(R)) /\ ~(Cardinality(R) > Cardinality(V))
      BY <1>4, <1>5, <1>6, <1>7
  <2> QED BY <1>3, <1>7, <2>1
<1>9. /\ \A v \in W : canonical_key(v) = Key0
      /\ Cardinality(W) = 1
  <2> HIDE DEF s, t
  <2>1. RequireLines \subseteq OldLines
      BY RequireInOld
  <2>2. Lines(t, OldFacts) \subseteq OldLines /\ Reads \cap Lines(t, OldFacts) = {}
      BY <1>1, <1>8, RequireInOld DEF Reads
  <2>3. Sites(t, OldFacts, CursorTokens) = {}
      BY <2>2, NoReads
  <2>4. W = Sites(t, NewFacts, CursorTokens)
      BY <2>3, ViolationsAre
  <2>5. LateLine \notin Lines(t, NewFacts) /\ Lines(t, NewFacts) \subseteq OldLines
        /\ RequireLines \subseteq Lines(t, NewFacts)
      BY <1>1, <1>8, <2>1
  <2> HIDE DEF W
  <2> QED BY <1>2, <2>4, <2>5, ReadsOfFunction
<1>10. \A k : InBucket(W, k) = InBucket(V, k)
  <2>1. \A k : InBucket(W, k) = IF k = Key0 THEN Cardinality(W) ELSE 0
      BY <1>9, BucketIs
  <2> HIDE DEF V, W
  <2> QED BY <1>4, <1>8, <1>9, <2>1
<1>11. {canonical_key(v) : v \in W \cup R} \subseteq {canonical_key(v) : v \in V \cup R}
  <2> HIDE DEF V, W, R
  <2> QED BY <1>6, <1>9
<1>12. /\ MonotoneAllowlist \notin {OldFacts, NewFacts} /\ MonotoneManifest \notin {OldFacts, NewFacts}
       /\ Responsibilities \notin {OldFacts, NewFacts}
    BY MonotoneNames
<1>13. monotone_manifest_messages(s) = {} /\ responsibility_binding_messages(s) = {}
    BY DEF monotone_messages, Beside
<1>14. load_allowlist(s, MonotoneManifest) = {} /\ Lines(s, Responsibilities) = {} /\ MonotoneManifest \in Files(s)
    BY <1>13, NotDeclared, DeclaredSilent
<1>15. /\ load_allowlist(t, MonotoneManifest) = {} /\ Lines(t, Responsibilities) = {}
       /\ MonotoneManifest \in Files(t) /\ ReadRows(t) = R
  <2>1. Lines(t, MonotoneManifest) = Lines(s, MonotoneManifest) /\ Lines(t, Responsibilities) = Lines(s, Responsibilities)
        /\ Lines(t, MonotoneAllowlist) = Lines(s, MonotoneAllowlist)
      BY <1>1, <1>12
  <2> HIDE DEF s, t
  <2> QED BY <1>14, <2>1, FilesAre DEF load_allowlist, ReadRows
<1>16. monotone_manifest_messages(t) = {} /\ responsibility_binding_messages(t) = {}
  <2> HIDE DEF t
  <2>1. Accessors({}) = {}
      BY DEF Accessors
  <2> QED BY <1>15, <2>1, DeclaredSilent
<1>17. base_messages(c, MonotoneAllowlist) = {}
    BY DEF base_messages, base_status, Beside
<1> DEFINE h == base_status(c, MonotoneAllowlist) = "present"
<1>18. h \in BOOLEAN
    OBVIOUS
<1>19. ReadRows(c.base) = R
    BY DEF Beside
<1>20. monotone_ratchet(W, R, h, R) = {}
  <2>1. \A k : ~(InBucket(R, k) > InBucket(R, k))
    <3>1. \A r \in R : canonical_key(r) = Key0
        BY RowsAre
    <3>2. \A k : InBucket(R, k) = IF k = Key0 THEN Cardinality(R) ELSE 0
        BY <3>1, BucketIs
    <3> HIDE DEF R
    <3>3. \A k : InBucket(R, k) \in {0, 1}
        BY <1>7, <3>2
    <3> QED BY <3>3
  <2> HIDE DEF V, W, R, h
  <2>2. \A k \in {canonical_key(v) : v \in W \cup R} :
             /\ ~(InBucket(W, k) > InBucket(R, k))
             /\ ~(InBucket(R, k) > InBucket(W, k))
             /\ h => ~(InBucket(R, k) > InBucket(R, k)) /\ ~(InBucket(W, k) > InBucket(R, k))
      BY <1>5, <1>10, <1>11, <2>1
  <2> QED BY <1>18, <2>2, RatchetSilent
<1>21. monotone_ratchet(W, ReadRows(t), h, ReadRows(c.base)) = {}
  <2> HIDE DEF W, h, R, t
  <2> QED BY <1>15, <1>19, <1>20
<1>22. monotone_messages(c) =
           monotone_manifest_messages(t) \cup responsibility_binding_messages(t)
               \cup base_messages(c, MonotoneAllowlist)
               \cup monotone_ratchet(W, ReadRows(t), h, ReadRows(c.base))
    BY DEF monotone_messages, ReadRows
<1> HIDE DEF t, W, h
<1> QED BY <1>16, <1>17, <1>21, <1>22

-----------------------------------------------------------------------------
(* Debt that only moved.                                                   *)

MoveInv ==
    /\ gate = "coverage" => Among(CoverageTrees)
    /\ gate = "truncation" => Among(SUBSET Facts("truncation"))
    /\ gate = "monotone" => /\ Among(MonotoneTrees)
                            /\ \A i \in 1..Len(log) : OneRow(log[i].tree)

LEMMA OneRowStart == OneRow(StartTree("monotone"))
<1> DEFINE two == Listed(2)
           three == Listed(3)
           s == StartTree("monotone")
<1>1. s = In(OldFacts, RequireLines) \cup In(MonotoneAllowlist, {two} \cup {Header}) \cup In(MonotoneManifest, {Header})
    BY MonotoneStart
<1>2. three # two /\ three # Header
    BY RowsDiffer
<1> HIDE DEF two, three, s
<1>3. \A x \in s : x[1] = MonotoneAllowlist => x[2] # three
    BY <1>1, <1>2, MonotoneNames, InIs
<1>4. three \notin ReadRows(s)
    BY <1>3 DEF ReadRows, load_allowlist, Lines
<1> QED BY <1>4 DEF OneRow, three, s

LEMMA MoveInit == Init => MoveInv
<1> SUFFICES ASSUME Init PROVE MoveInv
    OBVIOUS
<1>1. gate = "coverage" => Among(CoverageTrees)
  <2>1. StartTree("coverage") \in CoverageTrees
      BY CoverageSteady
  <2> QED BY <2>1, AmongInit
<1>2. gate = "truncation" => Among(SUBSET Facts("truncation"))
  <2>1. StartTree("truncation") \in SUBSET Facts("truncation")
      BY SubsetsSteady
  <2> QED BY <2>1, AmongInit
<1>3. gate = "monotone" => Among(MonotoneTrees)
  <2>1. StartTree("monotone") \in MonotoneTrees
      BY MonotoneSteady
  <2> QED BY <2>1, AmongInit
<1>4. gate = "monotone" => \A i \in 1..Len(log) : OneRow(log[i].tree)
  <2>1. Len(log) = 1 /\ log[1].tree = StartTree(gate)
      BY DEF Init
  <2>2. \A i \in 1..Len(log) : i = 1
      BY <2>1
  <2> QED BY <2>1, <2>2, OneRowStart
<1> QED BY <1>1, <1>2, <1>3, <1>4 DEF MoveInv

LEMMA MonotoneMessagesIs ==
    ASSUME NEW c
    PROVE  Messages("monotone", c) = monotone_messages(c)
BY DEF Messages

LEMMA OneRowStep ==
    ASSUME HistoryInv, [Next]_vars, gate = "monotone", Among(MonotoneTrees),
           \A i \in 1..Len(log) : OneRow(log[i].tree)
    PROVE  \A i \in 1..Len(log') : OneRow(log'[i].tree)
<1>1. CASE Landing
  <2>1. PICK b, i, c : Landed(b, i, c)
      BY <1>1, LandingIs
  <2>2. Len(log) \in Nat /\ Len(log) \in 1..Len(log)
    <3>1. PICK S : log \in Seq(S)
        BY DEF HistoryInv
    <3> QED BY <3>1 DEF HistoryInv
  <2>3. c.base \in MonotoneTrees /\ c.head \in MonotoneTrees /\ Dev \in MonotoneTrees
      BY <2>1, <2>2 DEF Landed, Among, Dev
  <2>4. monotone_messages(c) = {}
      BY <2>1, MonotoneMessagesIs DEF Landed
  <2>5. OneRow(c.base) /\ OneRow(Dev)
      BY <2>1, <2>2 DEF Landed, Dev
  <2>6. Cardinality(ReadRows(c.head)) <= Cardinality(ReadRows(c.base))
      BY <2>3, <2>4, RowsShrink
  <2>7. OneRow(Merge(c.base, c.head, Dev))
      BY <2>3, <2>5, <2>6, RowsMerge
  <2>8. OneRow(log'[Len(log')].tree)
      BY <2>1, <2>7 DEF Landed, Dev
  <2>9. \A k \in 1..Len(log') : k \in 1..Len(log) \/ k = Len(log')
      BY <2>1, <2>2 DEF Landed
  <2>10. \A k \in 1..Len(log) : OneRow(log'[k].tree)
      BY <2>1 DEF Landed
  <2> QED BY <2>8, <2>9, <2>10
<1>2. CASE ~Landing
    BY <1>2, OtherSteps
<1> QED BY <1>1, <1>2

LEMMA MoveStep ==
    HistoryInv /\ MoveInv /\ [Next]_vars => MoveInv'
<1> SUFFICES ASSUME HistoryInv, MoveInv, [Next]_vars PROVE MoveInv'
    OBVIOUS
<1>1. gate' = gate
    BY GateStays
<1>2. gate = "coverage" => Among(CoverageTrees)'
  <2>1. Steady("coverage", CoverageTrees)
      BY CoverageSteady
  <2> QED BY <2>1, AmongStep DEF MoveInv
<1>3. gate = "truncation" => Among(SUBSET Facts("truncation"))'
  <2>1. Steady("truncation", SUBSET Facts("truncation"))
      BY SubsetsSteady
  <2> QED BY <2>1, AmongStep DEF MoveInv
<1>4. gate = "monotone" => Among(MonotoneTrees)'
  <2>1. Steady("monotone", MonotoneTrees)
      BY MonotoneSteady
  <2> QED BY <2>1, AmongStep DEF MoveInv
<1>5. gate = "monotone" => \A i \in 1..Len(log') : OneRow(log'[i].tree)
    BY OneRowStep DEF MoveInv
<1> QED BY <1>1, <1>2, <1>3, <1>4, <1>5 DEF MoveInv

(* What moves, gate by gate.                                               *)
LEMMA NeutralAre ==
    ASSUME NEW tree
    PROVE  /\ NeutralEdits("coverage", tree) = {{<<CoverageSource, Note>>}}
           /\ NeutralEdits("liberror", tree) = {{<<LibraryErrorFile, CodeLine>>}}
           /\ NeutralEdits("truncation", tree) = {{<<TruncationFile, Blank(4)>>}}
           /\ \A e \in NeutralEdits("monotone", tree) :
                  \/ e = {<<OldFacts, Blank(10)>>}
                  \/ e = OneMove /\ In(OldFacts, RequireLines) \subseteq tree
           /\ \A g : g \notin {"coverage", "liberror", "monotone", "truncation"} => NeutralEdits(g, tree) = {}
<1>1. NeutralEdits("coverage", tree) = {{<<CoverageSource, Note>>}}
    BY DEF NeutralEdits, Note
<1>2. NeutralEdits("liberror", tree) = {{<<LibraryErrorFile, CodeLine>>}}
    BY DEF NeutralEdits, CodeLine
<1>3. NeutralEdits("truncation", tree) = {{<<TruncationFile, Blank(4)>>}}
    BY DEF NeutralEdits, Blank
<1>4. NeutralEdits("monotone", tree) =
          {{<<OldFacts, Blank(10)>>}}
              \cup {e \in {MoveRequireFact} : e \cap In(OldFacts, Lines(e, OldFacts)) \subseteq tree}
    BY DEF NeutralEdits, Blank
<1>5. OneMove \cap In(OldFacts, Lines(OneMove, OldFacts)) = In(OldFacts, RequireLines)
  <2>1. Lines(OneMove, OldFacts) = RequireLines
    <3>1. ASSUME NEW l \in RequireLines PROVE l \in Lines(OneMove, OldFacts)
      <4>1. <<OldFacts, l>> \in OneMove /\ <<OldFacts, l>>[1] = OldFacts /\ <<OldFacts, l>>[2] = l
          BY InMove, PairIs
      <4> QED BY <4>1 DEF Lines
    <3>2. ASSUME NEW x \in OneMove, x[1] = OldFacts PROVE x[2] \in RequireLines
      <4>1. x \in In(OldFacts, RequireLines) \/ x \in In(NewFacts, RequireLines)
          BY DEF OneMove
      <4> QED BY <4>1, InIs
    <3> QED BY <3>1, <3>2 DEF Lines
  <2> QED BY <2>1 DEF OneMove
<1>6. ASSUME NEW e \in NeutralEdits("monotone", tree)
      PROVE  e = {<<OldFacts, Blank(10)>>} \/ (e = OneMove /\ In(OldFacts, RequireLines) \subseteq tree)
  <2> DEFINE blank == {<<OldFacts, Blank(10)>>}
  <2>1. \/ e = blank
        \/ e = OneMove /\ e \cap In(OldFacts, Lines(e, OldFacts)) \subseteq tree
      BY <1>4, MoveIs
  <2> HIDE DEF blank
  <2>2. e = blank \/ (e = OneMove /\ In(OldFacts, RequireLines) \subseteq tree)
      BY <1>5, <2>1
  <2> QED BY <2>2 DEF blank
<1>7. \A g : g \notin {"coverage", "liberror", "monotone", "truncation"} => NeutralEdits(g, tree) = {}
    BY DEF NeutralEdits
<1> QED BY <1>1, <1>2, <1>3, <1>6, <1>7

LEMMA MovingMessages ==
    ASSUME NEW c
    PROVE  /\ Messages("coverage", c) = coverage_messages(c)
           /\ Messages("liberror", c) = library_error_messages(c)
           /\ Messages("truncation", c) = truncation_messages(c)
           /\ Messages("monotone", c) = monotone_messages(c)
<1>1. Messages("coverage", c) = coverage_messages(c)
    BY DEF Messages
<1>2. Messages("liberror", c) = library_error_messages(c)
    BY DEF Messages
<1>3. Messages("truncation", c) = truncation_messages(c)
    BY DEF Messages
<1> QED BY <1>1, <1>2, <1>3, MonotoneMessagesIs

LEMMA MonotoneLua ==
    ASSUME NEW t \in MonotoneTrees
    PROVE  IsLua(Lines(t, OldFacts))
<1>1. Lines(t, OldFacts) \in SUBSET OldLines
  <2> SUFFICES ASSUME NEW x \in t, x[1] = OldFacts PROVE x[2] \in OldLines
      BY DEF Lines
  <2>1. x \in Facts("monotone")
      BY DEF MonotoneTrees
  <2> QED BY <2>1, MonotoneFacts
<1> QED BY <1>1, OldLua, LuaPart

(* MovesAreFree: a branch that is up to date and whose only change is a    *)
(* line no rule is about, or the function that moved to the other file     *)
(* with its read, is passed by every gate that counts its debt by content, *)
(* by occurrence or by function, if dev is: the blocks around a line and   *)
(* the sites in them move with the lines                                   *)
(* (check_repo_monotone_gate.py, monotone_gate_canonical_key;              *)
(* check_repo_content_truncation.py; check_repo_coverage.py).              *)
THEOREM MovesCostNothing ==
    Spec => []MovesAreFree
<1>1. HistoryInv /\ TreesInv /\ MoveInv => MovesAreFree
  <2> SUFFICES ASSUME HistoryInv, TreesInv, MoveInv, NEW b \in Branches,
                      branch[b].open, branch[b].base = Len(log), Messages(gate, DevCase) = {},
                      NEW e \in NeutralEdits(gate, Dev), branch[b].head = Toggle(Dev, e)
               PROVE  Messages(gate, Case(b, TRUE, "written", FALSE)) = {}
      BY DEF MovesAreFree
  <2> DEFINE c == Case(b, TRUE, "written", FALSE)
             d == DevCase
  <2>1. Beside(c, d) /\ c.head = Toggle(Dev, e) /\ d.base = Dev /\ c.head = branch[b].head
      BY DEF Beside, Case, DevCase, Dev
  <2>2. Len(log) \in 1..Len(log)
    <3>1. PICK S : log \in Seq(S)
        BY DEF HistoryInv
    <3> QED BY <3>1 DEF HistoryInv
  <2>3. IsTree(d.base) /\ IsTree(c.head)
      BY <2>1, <2>2 DEF TreesInv, Dev
  <2> HIDE DEF c, d
  <2>4. CASE gate = "coverage"
    <3>1. e = {<<CoverageSource, Note>>}
        BY <2>4, NeutralAre
    <3>2. d.base \in CoverageTrees
        BY <2>1, <2>2, <2>4 DEF MoveInv, Among, Dev
    <3>3. coverage_messages(d) = {}
        BY <2>4, MovingMessages DEF d
    <3>4. coverage_messages(c) = {}
        BY <2>1, <2>3, <3>1, <3>2, <3>3, CoverageMoves
    <3> QED BY <2>4, <3>4, MovingMessages DEF c
  <2>5. CASE gate = "liberror"
    <3>1. e = {<<LibraryErrorFile, CodeLine>>}
        BY <2>5, NeutralAre
    <3>2. library_error_messages(c) = {}
        BY <2>1, <2>3, <3>1, LibraryMoves
    <3> QED BY <2>5, <3>2, MovingMessages DEF c
  <2>6. CASE gate = "truncation"
    <3>1. e = {<<TruncationFile, Blank(4)>>}
        BY <2>6, NeutralAre
    <3>2. d.base \in SUBSET Facts("truncation")
        BY <2>1, <2>2, <2>6 DEF MoveInv, Among, Dev
    <3>3. truncation_messages(d) = {}
        BY <2>6, MovingMessages DEF d
    <3>4. truncation_messages(c) = {}
        BY <2>1, <2>3, <3>1, <3>2, <3>3, TruncationMoves
    <3> QED BY <2>6, <3>4, MovingMessages DEF c
  <2>7. CASE gate = "monotone"
    <3>1. d.base \in MonotoneTrees /\ OneRow(d.base)
        BY <2>1, <2>2, <2>7 DEF MoveInv, Among, Dev
    <3>2. c.head \in MonotoneTrees
        BY <2>1, <2>7 DEF MoveInv, Among
    <3>3. monotone_messages(d) = {}
        BY <2>7, MovingMessages DEF d
    <3>4. e = {<<OldFacts, Blank(10)>>} \/ (e = OneMove /\ In(OldFacts, RequireLines) \subseteq Dev)
        BY <2>7, NeutralAre
    <3>5. CASE e = {<<OldFacts, Blank(10)>>}
      <4> DEFINE x == Blank(10)
      <4>1. IsLua(Lines(d.base, OldFacts)) /\ IsLua(Lines(c.head, OldFacts))
          BY <3>1, <3>2, MonotoneLua
      <4>2. Neutral(x) /\ c.head = Toggle(d.base, {<<OldFacts, x>>})
          BY <2>1, <3>5, BlankIsNeutral
      <4> HIDE DEF x
      <4>3. monotone_messages(c) = {}
          BY <2>1, <2>3, <3>3, <4>1, <4>2, MonotoneBlank
      <4> QED BY <2>7, <4>3, MovingMessages DEF c
    <3>6. CASE e = OneMove /\ In(OldFacts, RequireLines) \subseteq Dev
      <4>1. In(OldFacts, RequireLines) \subseteq d.base /\ c.head = Toggle(d.base, OneMove)
          BY <2>1, <3>6
      <4>2. monotone_messages(c) = {}
          BY <2>1, <3>1, <3>3, <4>1, MonotoneMoves
      <4> QED BY <2>7, <4>2, MovingMessages DEF c
    <3> QED BY <3>4, <3>5, <3>6
  <2>8. CASE gate \notin {"coverage", "liberror", "monotone", "truncation"}
      BY <2>8, NeutralAre
  <2> QED BY <2>4, <2>5, <2>6, <2>7, <2>8
<1>2. Init => HistoryInv /\ TreesInv /\ MoveInv
    BY HistoryInit, TreesInit, MoveInit
<1>3. HistoryInv /\ TreesInv /\ MoveInv /\ [Next]_vars => (HistoryInv /\ TreesInv /\ MoveInv)'
    BY HistoryStep, TreesStep, MoveStep
<1> QED BY <1>1, <1>2, <1>3, PTL DEF Spec

=============================================================================
