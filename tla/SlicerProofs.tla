----------------------------- MODULE SlicerProofs -----------------------------
(***************************************************************************)
(* The safety of the slicer, for any number of runners, entries, ratchets  *)
(* and events.  What a run knows when it creates an issue or closes the    *)
(* parent it read several commands before; the invariant says which part   *)
(* of that is still true: an empty inventory stays empty, an intent stays  *)
(* on the ledger, and, as long as runs do not overlap and searches do not  *)
(* lag, nobody else comes to own what the run found free.                  *)
(***************************************************************************)
EXTENDS MigrationSlicer, FiniteSetTheorems, TLAPS

IsSequence(s) == \E S : s \in Seq(S)

IsRun(x) ==
    x = [pc |-> x.pc, write |-> x.write, bot |-> x.bot, slice |-> x.slice,
         todo |-> x.todo, intended |-> x.intended, since |-> x.since, held |-> x.held]

IsIssue(x) ==
    x = [key |-> x.key, entries |-> x.entries, legacy |-> x.legacy,
         trusted |-> x.trusted, open |-> x.open]

IsRecord(x) ==
    x = [kind |-> x.kind, key |-> x.key, issue |-> x.issue, recent |-> x.recent,
         trusted |-> x.trusted]

(* The shape of the state, as far as the proofs need it.                   *)
Shapes ==
    /\ allow \subseteq Entries
    /\ IsSequence(ledger) /\ \A i \in DOMAIN ledger : IsRecord(ledger[i])
    /\ IsSequence(issues) /\ \A i \in DOMAIN issues : IsIssue(issues[i])
    /\ runs = [r \in Runners |-> runs[r]]
    /\ \A r \in Runners : runs[r] = Idle \/ (IsRun(runs[r]) /\ runs[r].pc # "idle")

(* The intent of this slice is on a ledger.                                *)
IntendedOn(records, key) ==
    \E j \in DOMAIN records : records[j].kind = "intent" /\ records[j].key = key

(* Nobody owns an entry of this slice.                                     *)
Unowned(filed, slice) ==
    \A i \in DOMAIN filed :
        filed[i].open /\ filed[i].trusted =>
            filed[i].entries \cap selected_entry_keys(slice) = {}

(* What an active run knows of the allowlist, the ledger and the issues.   *)
Knows(run, listed, records, filed, doubt) ==
    /\ run.pc = "close" => run.slice = <<>>
    /\ run.slice = <<>> => listed = {}
    /\ run.intended \/ run.pc \in {"create", "record"} => IntendedOn(records, run.slice)
    /\ ~doubt /\ run.pc \in {"exact", "intent", "create"} => Unowned(filed, run.slice)

RunsKnow == \A r \in Runners : Active(r) => Knows(runs[r], allow, ledger, issues, unsure)

(* Runs that overlap are recorded as such.                                 *)
Alone == unsure \/ \A r, q \in Runners : Active(r) /\ Active(q) => r = q

(* The inductive invariant.                                                *)
SlicerInv ==
    /\ Shapes
    /\ RunsKnow
    /\ Alone
    /\ OneOwner
    /\ SliceIntended
    /\ ClosedMeansDone

-----------------------------------------------------------------------------
(* Sequences and records.                                                  *)

LEMMA AppendSequence ==
    ASSUME NEW s, IsSequence(s), NEW e
    PROVE  /\ IsSequence(Append(s, e))
           /\ Len(s) \in Nat /\ DOMAIN s = 1..Len(s)
           /\ DOMAIN Append(s, e) = 1..(Len(s) + 1)
           /\ \A i \in DOMAIN s : i \in DOMAIN Append(s, e) /\ Append(s, e)[i] = s[i]
           /\ Append(s, e)[Len(s) + 1] = e
           /\ \A i \in DOMAIN Append(s, e) : i = Len(s) + 1 \/ i \in DOMAIN s
<1>1. PICK S : s \in Seq(S)
    BY DEF IsSequence
<1> DEFINE T == S \cup {e}
<1>2. s \in Seq(T) /\ e \in T
    BY <1>1
<1> HIDE DEF T
<1>3. Append(s, e) \in Seq(T)
    BY <1>2
<1> QED BY <1>2, <1>3 DEF IsSequence

LEMMA UpdateSequence ==
    ASSUME NEW s, IsSequence(s), NEW t, DOMAIN t = DOMAIN s, t = [i \in DOMAIN t |-> t[i]]
    PROVE  IsSequence(t)
<1>1. PICK S : s \in Seq(S)
    BY DEF IsSequence
<1> DEFINE T == {t[i] : i \in DOMAIN t}
<1>2. DOMAIN t = 1..Len(s) /\ Len(s) \in Nat
    BY <1>1
<1>3. t \in [1..Len(s) -> T]
    BY <1>2
<1> HIDE DEF T
<1>4. t \in Seq(T)
    BY <1>2, <1>3
<1> QED BY <1>4 DEF IsSequence

(* An allowlist that is not empty has sites, and a slice takes one.        *)
LEMMA SliceOfDebt ==
    ASSUME allow \subseteq Entries, allow # {}, NEW size \in SliceSizes
    PROVE  selected_sites(load_inventory, size) # <<>>
<1> DEFINE S == inventory_sites
           n == Cardinality(S)
           k == Min({size, Len(load_inventory)})
<1>1. IsFiniteSet(S) /\ S # {}
  <2> DEFINE Of(e) == {site(e, p) : p \in files(e)}
             SS == {Of(e) : e \in allow}
  <2>1. \A a, b : IsFiniteSet({a}) /\ IsFiniteSet({a} \cup {b})
      BY FS_Singleton, FS_AddElement
  <2>2. \A e \in allow : Of(e) # {} /\ IsFiniteSet(Of(e))
    <3>1. ASSUME NEW e \in allow PROVE Of(e) # {} /\ IsFiniteSet(Of(e))
      <4>1. Of(e) = {site(e, e)} \/ Of(e) = {site(e, e)} \cup {site(e, e + 1)}
          BY DEF files
      <4> QED BY <2>1, <4>1
    <3> QED BY <3>1
  <2>3. IsFiniteSet(allow)
      BY SlicerAssumption, FS_Subset
  <2> HIDE DEF Of
  <2>4. IsFiniteSet(SS)
    <3> DEFINE f == [e \in allow |-> Of(e)]
    <3>1. f \in Surjection(allow, SS)
        BY DEF Surjection
    <3> HIDE DEF f, SS
    <3> QED BY <2>3, <3>1, FS_Surjection
  <2>5. \A X \in SS : IsFiniteSet(X)
      BY <2>2
  <2>6. IsFiniteSet(UNION SS) /\ UNION SS # {}
    <3>1. UNION SS # {}
        BY <2>2
    <3> HIDE DEF SS
    <3> QED BY <2>4, <2>5, <3>1, FS_UNION
  <2> QED BY <2>6 DEF inventory_sites, Of
<1>2. n \in Nat /\ n # 0
  <2> HIDE DEF S
  <2> QED BY <1>1, FS_CardinalityType, FS_EmptySet
<1>3. Len(load_inventory) = n
  <2> HIDE DEF S
  <2> QED BY <1>2 DEF load_inventory, S
<1>4. size \in Nat /\ size # 0
    BY SlicerAssumption
<1>5. k \in {size, n} /\ k \in Nat /\ k # 0
  <2>1. k = CHOOSE x \in {size, n} : \A y \in {size, n} : x <= y
      BY <1>3 DEF Min
  <2>2. \E x \in {size, n} : \A y \in {size, n} : x <= y
      BY <1>2, <1>4
  <2> HIDE DEF k, n
  <2>3. k \in {size, n}
      BY <2>1, <2>2
  <2> QED BY <1>2, <1>4, <2>3
<1>6. Len(SubSeq(load_inventory, 1, k)) = k
  <2> HIDE DEF k
  <2> QED BY <1>5
<1> HIDE DEF k
<1>7. SubSeq(load_inventory, 1, k) # <<>>
    BY <1>5, <1>6
<1> QED BY <1>7 DEF selected_sites, k

-----------------------------------------------------------------------------
(* What the steps other than the creation of an issue have in common.      *)

(* No intent is lost from the ledger.                                      *)
IntentsKept == \A key : IntendedOn(ledger, key) => IntendedOn(ledger', key)

(* No issue of the bot appears, changes its slice, or opens again.         *)
IssuesKept ==
    \A i \in DOMAIN issues' :
        issues'[i].trusted =>
            /\ i \in DOMAIN issues /\ issues[i].trusted
            /\ issues'[i].open => issues[i].open
            /\ issues'[i].entries = issues[i].entries
            /\ issues'[i].key = issues[i].key
            /\ issues'[i].legacy = issues[i].legacy

LEMMA StepKnows ==
    ASSUME SlicerInv, Shapes', Alone', allow' \subseteq allow, unsure => unsure',
           IntentsKept, IssuesKept, UNCHANGED parent \/ allow' = {},
           \A r \in Runners : Active(r)' =>
              \/ runs'[r] = runs[r]
              \/ Knows(runs'[r], allow', ledger', issues', unsure')
    PROVE  SlicerInv'
<1>1. RunsKnow'
  <2> SUFFICES ASSUME NEW r \in Runners, Active(r)', runs'[r] = runs[r]
               PROVE  Knows(runs[r], allow', ledger', issues', unsure')
      BY DEF RunsKnow
  <2>1. Knows(runs[r], allow, ledger, issues, unsure)
      BY DEF SlicerInv, RunsKnow, Active
  <2>2. Unowned(issues, runs[r].slice) => Unowned(issues', runs[r].slice)
      BY DEF Unowned, IssuesKept
  <2> QED BY <2>1, <2>2 DEF Knows, IntentsKept
<1>2. OneOwner'
    BY DEF SlicerInv, OneOwner, Owns, IssuesKept
<1>3. SliceIntended'
  <2>1. \A i \in DOMAIN issues' : issues'[i].trusted /\ ~issues'[i].legacy
            => IntendedOn(ledger, issues'[i].key)
      BY DEF SlicerInv, SliceIntended, IssuesKept, IntendedOn
  <2> QED BY <2>1 DEF SliceIntended, IntentsKept, IntendedOn
<1>4. ClosedMeansDone'
    BY DEF SlicerInv, ClosedMeansDone
<1> QED BY <1>1, <1>2, <1>3, <1>4 DEF SlicerInv

LEMMA SameIssues ==
    ASSUME UNCHANGED issues PROVE IssuesKept
BY DEF IssuesKept

LEMMA SameLedger ==
    ASSUME UNCHANGED ledger PROVE IntentsKept
BY DEF IntentsKept

(* A runner that goes on, or ends its run.                                 *)
LEMMA RunnerShapes ==
    ASSUME SlicerInv, NEW r \in Runners, Active(r), NEW x,
           runs' = [runs EXCEPT ![r] = x], x = Idle \/ (IsRun(x) /\ x.pc # "idle"),
           unsure => unsure'
    PROVE  /\ runs' = [q \in Runners |-> runs'[q]]
           /\ \A q \in Runners : runs'[q] = Idle \/ (IsRun(runs'[q]) /\ runs'[q].pc # "idle")
           /\ runs'[r] = x /\ \A q \in Runners \ {r} : runs'[q] = runs[q]
           /\ Alone'
<1>1. runs = [q \in Runners |-> runs[q]]
    BY DEF SlicerInv, Shapes
<1>2. runs' = [q \in Runners |-> IF q = r THEN x ELSE runs[q]]
    BY <1>1
<1>3. runs' = [q \in Runners |-> runs'[q]]
    BY <1>2
<1>4. runs'[r] = x /\ \A q \in Runners \ {r} : runs'[q] = runs[q]
    BY <1>2
<1>5. \A q \in Runners : runs'[q] = Idle \/ (IsRun(runs'[q]) /\ runs'[q].pc # "idle")
    BY <1>4 DEF SlicerInv, Shapes
<1>6. Alone'
    BY <1>4 DEF SlicerInv, Alone, Active
<1> QED BY <1>3, <1>4, <1>5, <1>6

(* A command that changes nothing but its run.                             *)
LEMMA RunnerStep ==
    ASSUME SlicerInv, NEW r \in Runners, Active(r), NEW x,
           runs' = [runs EXCEPT ![r] = x],
           \/ x = Idle
           \/ IsRun(x) /\ x.pc # "idle" /\ Knows(x, allow, ledger, issues, unsure'),
           unsure => unsure', UNCHANGED <<allow, ledger, issues>>,
           UNCHANGED parent \/ allow = {}
    PROVE  SlicerInv'
<1>1. /\ runs' = [q \in Runners |-> runs'[q]]
      /\ \A q \in Runners : runs'[q] = Idle \/ (IsRun(runs'[q]) /\ runs'[q].pc # "idle")
      /\ runs'[r] = x /\ \A q \in Runners \ {r} : runs'[q] = runs[q]
      /\ Alone'
    BY RunnerShapes
<1>2. Shapes'
    BY <1>1 DEF SlicerInv, Shapes
<1>3. \A q \in Runners : Active(q)' =>
          runs'[q] = runs[q] \/ Knows(runs'[q], allow', ledger', issues', unsure')
    BY <1>1 DEF Active, Idle
<1> QED BY <1>1, <1>2, <1>3, SameIssues, SameLedger, StepKnows

-----------------------------------------------------------------------------
(* The commands of a run.                                                  *)

LEMMA StartStep ==
    ASSUME SlicerInv, NEW r \in Runners, NEW write, NEW bot, NEW size \in SliceSizes,
           Start(r, write, bot, size)
    PROVE  SlicerInv'
<1> DEFINE cut == selected_sites(load_inventory, size)
           x == [pc |-> "view", write |-> write, bot |-> bot, slice |-> cut,
                 todo |-> {}, intended |-> FALSE, since |-> events, held |-> FALSE]
<1>1. runs = [q \in Runners |-> runs[q]]
    BY DEF SlicerInv, Shapes
<1>2. runs' = [runs EXCEPT ![r] = x]
    BY DEF Start
<1>3. cut = <<>> => allow = {}
    BY SliceOfDebt DEF SlicerInv, Shapes
<1> HIDE DEF cut
<1>4. IsRun(x) /\ x.pc = "view" /\ x.slice = cut /\ x.intended = FALSE
    BY DEF IsRun
<1> HIDE DEF x
<1>5. runs' = [q \in Runners |-> IF q = r THEN x ELSE runs[q]]
    BY <1>1, <1>2
<1>6. runs' = [q \in Runners |-> runs'[q]] /\ runs'[r] = x
      /\ \A q \in Runners \ {r} : runs'[q] = runs[q]
    BY <1>5
<1>7. Shapes'
  <2>1. \A q \in Runners : runs'[q] = Idle \/ (IsRun(runs'[q]) /\ runs'[q].pc # "idle")
      BY <1>4, <1>6 DEF SlicerInv, Shapes
  <2> QED BY <1>6, <2>1 DEF Shapes, SlicerInv, Start, debt
<1>8. Alone'
    BY <1>6 DEF SlicerInv, Alone, Active, Start
<1>9. Knows(x, allow, ledger, issues, unsure')
    BY <1>3, <1>4 DEF Knows
<1>10. UNCHANGED <<allow, parent, ledger, issues>> /\ (unsure => unsure')
    BY DEF Start, debt
<1>11. \A q \in Runners : Active(q)' =>
          runs'[q] = runs[q] \/ Knows(runs'[q], allow', ledger', issues', unsure')
    BY <1>6, <1>9, <1>10
<1> QED BY <1>7, <1>8, <1>10, <1>11, SameIssues, SameLedger, StepKnows

(* A run that has started, and the moves it makes.                         *)
LEMMA ActiveRun ==
    ASSUME SlicerInv, NEW r \in Runners, runs[r].pc # "idle"
    PROVE  /\ IsRun(runs[r]) /\ Active(r)
           /\ Knows(runs[r], allow, ledger, issues, unsure)
BY DEF SlicerInv, Shapes, RunsKnow, Active, Idle

(* What a run keeps until it ends.                                         *)
Carries(x, run) ==
    /\ IsRun(x)
    /\ x.write = run.write /\ x.bot = run.bot
    /\ x.slice = run.slice /\ x.since = run.since

Moved(run, pc, todo, intended, held) ==
    [run EXCEPT !.pc = pc, !.todo = todo, !.intended = intended, !.held = held]

Popped(run, pc, todo) == [run EXCEPT !.todo = todo, !.pc = pc]

LEMMA RunMoves ==
    ASSUME NEW run, IsRun(run), NEW pc, NEW todo, NEW intended, NEW held,
           NEW x, x = Moved(run, pc, todo, intended, held)
    PROVE  Carries(x, run) /\ x.pc = pc /\ x.todo = todo /\ x.intended = intended /\ x.held = held
<1>1. x = [pc |-> pc, write |-> run.write, bot |-> run.bot, slice |-> run.slice, todo |-> todo,
           intended |-> intended, since |-> run.since, held |-> held]
    BY DEF Moved, IsRun
<1> QED BY <1>1 DEF IsRun, Carries

LEMMA RunPops ==
    ASSUME NEW run, IsRun(run), NEW pc, NEW todo,
           NEW x, x = Popped(run, pc, todo)
    PROVE  /\ Carries(x, run) /\ x.pc = pc /\ x.todo = todo
           /\ x.intended = run.intended /\ x.held = run.held
<1>1. x = [pc |-> pc, write |-> run.write, bot |-> run.bot, slice |-> run.slice, todo |-> todo,
           intended |-> run.intended, since |-> run.since, held |-> run.held]
    BY DEF Popped, IsRun
<1> QED BY <1>1 DEF IsRun, Carries

LEMMA RunGoes ==
    ASSUME NEW run, IsRun(run), NEW pc,
           NEW x, x = [run EXCEPT !.pc = pc]
    PROVE  /\ Carries(x, run) /\ x.pc = pc /\ x.todo = run.todo
           /\ x.intended = run.intended /\ x.held = run.held
<1>1. x = [pc |-> pc, write |-> run.write, bot |-> run.bot, slice |-> run.slice,
           todo |-> run.todo, intended |-> run.intended, since |-> run.since, held |-> run.held]
    BY DEF IsRun
<1> QED BY <1>1 DEF IsRun, Carries

(* A command that ends its run and leaves the ledger and the issues.       *)
LEMMA DoneStep ==
    ASSUME SlicerInv, NEW r \in Runners, Active(r), Done(r),
           unsure => unsure', UNCHANGED <<allow, parent, ledger, issues>>
    PROVE  SlicerInv'
BY RunnerStep DEF Done

LEMMA ViewParentStep ==
    ASSUME SlicerInv, NEW r \in Runners, ViewParent(r)
    PROVE  SlicerInv'
<1> DEFINE run == runs[r]
<1>1. run.pc = "view" /\ UNCHANGED <<allow, parent, ledger, issues, unsure>>
    BY DEF ViewParent, debt
<1>2. IsRun(run) /\ Active(r) /\ Knows(run, allow, ledger, issues, unsure)
    BY <1>1, ActiveRun
<1>3. CASE Done(r)
    BY <1>1, <1>2, <1>3, DoneStep
<1>4. CASE run.slice = <<>> /\ Goto(r, "close")
  <2> DEFINE x == [run EXCEPT !.pc = "close"]
  <2>1. runs' = [runs EXCEPT ![r] = x]
      BY <1>4 DEF Goto
  <2>2. IsRun(x) /\ x.pc = "close" /\ x.slice = run.slice /\ x.intended = run.intended
      BY <1>2, RunGoes DEF Carries
  <2> HIDE DEF x
  <2>3. Knows(x, allow, ledger, issues, unsure')
      BY <1>1, <1>2, <1>4, <2>2 DEF Knows
  <2> QED BY <1>1, <1>2, <2>1, <2>2, <2>3, RunnerStep
<1>5. CASE run.slice # <<>>
  <2> DEFINE named == parent_issue_created_marker_issues(dedup_key(run.slice), run)
             pc == IF named = {} THEN "search" ELSE "ledger"
             seen == parent_has_intent(dedup_key(run.slice), run)
             held == AwaitsNumber(run)
             x == Moved(run, pc, named, seen, held)
  <2>1. runs' = [runs EXCEPT ![r] = x]
      BY <1>5 DEF ViewParent, Moved
  <2>2. seen => IntendedOn(ledger, run.slice)
      BY DEF parent_has_intent, IntendedOn, dedup_key
  <2>3. pc \in {"search", "ledger"}
      OBVIOUS
  <2> HIDE DEF named, pc, seen, held
  <2>4. IsRun(x) /\ x.pc = pc /\ x.slice = run.slice /\ x.intended = seen
      BY <1>2, RunMoves DEF Carries
  <2> HIDE DEF x
  <2>5. Knows(x, allow, ledger, issues, unsure')
      BY <1>2, <1>5, <2>2, <2>3, <2>4 DEF Knows
  <2> QED BY <1>1, <1>2, <2>1, <2>3, <2>4, <2>5, RunnerStep
<1> QED BY <1>3, <1>4, <1>5 DEF ViewParent

LEMMA CloseParentStep ==
    ASSUME SlicerInv, NEW r \in Runners, CloseParent(r)
    PROVE  SlicerInv'
<1>1. Active(r) /\ allow = {}
    BY ActiveRun DEF CloseParent, Knows
<1>2. runs' = [runs EXCEPT ![r] = Idle] /\ UNCHANGED <<allow, ledger, issues, unsure>>
    BY DEF CloseParent, Done, debt
<1> QED BY <1>1, <1>2, RunnerStep

LEMMA ViewLedgerIssueStep ==
    ASSUME SlicerInv, NEW r \in Runners, ViewLedgerIssue(r)
    PROVE  SlicerInv'
<1> DEFINE run == runs[r]
<1>1. run.pc = "ledger" /\ UNCHANGED <<allow, parent, ledger, issues, unsure>>
    BY DEF ViewLedgerIssue, debt
<1>2. IsRun(run) /\ Active(r) /\ Knows(run, allow, ledger, issues, unsure)
    BY <1>1, ActiveRun
<1>3. CASE Done(r)
    BY <1>1, <1>2, <1>3, DoneStep
<1>4. CASE ~Done(r)
  <2>1. PICK n \in run.todo : runs' = [runs EXCEPT ![r].todo = @ \ {n},
            ![r].pc = IF run.todo = {n} THEN "search" ELSE "ledger"]
      BY <1>4 DEF ViewLedgerIssue
  <2> DEFINE pc == IF run.todo = {n} THEN "search" ELSE "ledger"
             x == Popped(run, pc, run.todo \ {n})
  <2>2. runs' = [runs EXCEPT ![r] = x]
      BY <2>1 DEF Popped
  <2>3. pc \in {"search", "ledger"}
      OBVIOUS
  <2> HIDE DEF pc
  <2>4. IsRun(x) /\ x.pc = pc /\ x.slice = run.slice /\ x.intended = run.intended
      BY <1>2, RunPops DEF Carries
  <2> HIDE DEF x
  <2>5. Knows(x, allow, ledger, issues, unsure')
      BY <1>1, <1>2, <2>3, <2>4 DEF Knows
  <2> QED BY <1>1, <1>2, <2>2, <2>3, <2>4, <2>5, RunnerStep
<1> QED BY <1>3, <1>4

(* A search that does not lag and finds nothing shows that the slice is    *)
(* free: a run trusts whatever the bot itself filed.                       *)
LEMMA SearchSlicesStep ==
    ASSUME SlicerInv, NEW r \in Runners, SearchSlices(r)
    PROVE  SlicerInv'
<1> DEFINE run == runs[r]
<1>1. run.pc = "search" /\ UNCHANGED <<allow, parent, ledger, issues>> /\ (unsure => unsure')
    BY DEF SearchSlices, debt
<1>2. IsRun(run) /\ Active(r) /\ Knows(run, allow, ledger, issues, unsure)
    BY <1>1, ActiveRun
<1>3. CASE Done(r)
    BY <1>1, <1>2, <1>3, DoneStep
<1>4. CASE ~Done(r)
  <2> DEFINE x == [run EXCEPT !.pc = "exact"]
  <2>1. runs' = [runs EXCEPT ![r] = x]
      BY <1>4 DEF SearchSlices, Goto
  <2>2. IsRun(x) /\ x.pc = "exact" /\ x.slice = run.slice /\ x.intended = run.intended
      BY <1>2, RunGoes DEF Carries
  <2> HIDE DEF x
  <2>3. ~unsure' => Unowned(issues, run.slice)
    <3>1. ~unsure' => lagging = {}
        BY DEF SearchSlices
    <3>2. \A i \in Searchable(run) : ~slice_overlaps_entry(issues[i], run)
        BY <1>4 DEF SearchSlices
    <3> QED BY <3>1, <3>2 DEF Unowned, Searchable, slice_overlaps_entry, is_trusted_record
  <2>4. Knows(x, allow, ledger, issues, unsure')
      BY <1>1, <1>2, <2>2, <2>3 DEF Knows
  <2> QED BY <1>1, <1>2, <2>1, <2>2, <2>4, RunnerStep
<1> QED BY <1>3, <1>4

LEMMA SearchExactStep ==
    ASSUME SlicerInv, NEW r \in Runners, SearchExact(r)
    PROVE  SlicerInv'
<1> DEFINE run == runs[r]
<1>1. run.pc = "exact" /\ UNCHANGED <<allow, parent, ledger, issues>> /\ (unsure => unsure')
    BY DEF SearchExact, debt
<1>2. IsRun(run) /\ Active(r) /\ Knows(run, allow, ledger, issues, unsure)
    BY <1>1, ActiveRun
<1>3. CASE Done(r)
    BY <1>1, <1>2, <1>3, DoneStep
<1>4. CASE ~Done(r)
  <2> DEFINE pc == IF run.intended THEN "create" ELSE "intent"
             x == [run EXCEPT !.pc = pc]
  <2>1. runs' = [runs EXCEPT ![r] = x]
      BY <1>4 DEF SearchExact, Goto
  <2>2. pc \in {"create", "intent"} /\ (pc = "create" => run.intended)
      OBVIOUS
  <2> HIDE DEF pc
  <2>3. IsRun(x) /\ x.pc = pc /\ x.slice = run.slice /\ x.intended = run.intended
      BY <1>2, RunGoes DEF Carries
  <2> HIDE DEF x
  <2>4. Knows(x, allow, ledger, issues, unsure')
      BY <1>1, <1>2, <2>2, <2>3 DEF Knows
  <2> QED BY <1>1, <1>2, <2>1, <2>2, <2>3, <2>4, RunnerStep
<1> QED BY <1>3, <1>4

(* A comment on the parent.                                                *)
LEMMA CommentAdded ==
    ASSUME SlicerInv, NEW c, IsRecord(c), ledger' = Append(ledger, c)
    PROVE  /\ IntentsKept
           /\ IsSequence(ledger') /\ \A i \in DOMAIN ledger' : IsRecord(ledger'[i])
           /\ c.kind = "intent" => IntendedOn(ledger', c.key)
<1>1. IsSequence(ledger) /\ \A i \in DOMAIN ledger : IsRecord(ledger[i])
    BY DEF SlicerInv, Shapes
<1>2. /\ IsSequence(ledger')
      /\ Len(ledger) \in Nat /\ DOMAIN ledger' = 1..(Len(ledger) + 1)
      /\ \A i \in DOMAIN ledger : i \in DOMAIN ledger' /\ ledger'[i] = ledger[i]
      /\ ledger'[Len(ledger) + 1] = c
      /\ \A i \in DOMAIN ledger' : i = Len(ledger) + 1 \/ i \in DOMAIN ledger
    BY <1>1, AppendSequence
<1>3. IntentsKept
    BY <1>2 DEF IntentsKept, IntendedOn
<1>4. \A i \in DOMAIN ledger' : IsRecord(ledger'[i])
    BY <1>1, <1>2
<1>5. Len(ledger) + 1 \in DOMAIN ledger'
    BY <1>2
<1>6. c.kind = "intent" => IntendedOn(ledger', c.key)
    BY <1>2, <1>5 DEF IntendedOn
<1> QED BY <1>2, <1>3, <1>4, <1>6

(* A command that comments on the parent and goes on, or ends the run.     *)
LEMMA CommentStep ==
    ASSUME SlicerInv, NEW r \in Runners, Active(r), NEW x,
           runs' = [runs EXCEPT ![r] = x],
           \/ x = Idle
           \/ IsRun(x) /\ x.pc # "idle" /\ Knows(x, allow, ledger', issues, unsure),
           NEW c, IsRecord(c), ledger' = Append(ledger, c),
           UNCHANGED <<allow, parent, issues, unsure>>
    PROVE  SlicerInv'
<1>1. /\ runs' = [q \in Runners |-> runs'[q]]
      /\ \A q \in Runners : runs'[q] = Idle \/ (IsRun(runs'[q]) /\ runs'[q].pc # "idle")
      /\ runs'[r] = x /\ \A q \in Runners \ {r} : runs'[q] = runs[q]
      /\ Alone'
    BY RunnerShapes
<1>2. /\ IntentsKept
      /\ IsSequence(ledger') /\ \A i \in DOMAIN ledger' : IsRecord(ledger'[i])
    BY CommentAdded
<1>3. Shapes'
    BY <1>1, <1>2 DEF SlicerInv, Shapes
<1>4. \A q \in Runners : Active(q)' =>
          runs'[q] = runs[q] \/ Knows(runs'[q], allow', ledger', issues', unsure')
    BY <1>1 DEF Active, Idle
<1> QED BY <1>1, <1>2, <1>3, <1>4, SameIssues, StepKnows

LEMMA CommentIntentStep ==
    ASSUME SlicerInv, NEW r \in Runners, CommentIntent(r)
    PROVE  SlicerInv'
<1> DEFINE run == runs[r]
           c == IntentComment(run.slice)
           x == [run EXCEPT !.pc = "create"]
<1>1. run.pc = "intent" /\ UNCHANGED <<allow, parent, issues, unsure>>
    BY DEF CommentIntent, debt
<1>2. IsRun(run) /\ Active(r) /\ Knows(run, allow, ledger, issues, unsure)
    BY <1>1, ActiveRun
<1>3. runs' = [runs EXCEPT ![r] = x] /\ ledger' = Append(ledger, c)
    BY DEF CommentIntent, Goto, dedup_key
<1>4. IsRun(x) /\ x.pc = "create" /\ x.slice = run.slice /\ x.intended = run.intended
    BY <1>2, RunGoes DEF Carries
<1>5. IsRecord(c) /\ c.kind = "intent" /\ c.key = run.slice
    BY DEF IsRecord, IntentComment
<1> HIDE DEF x, c
<1>6. IntendedOn(ledger', run.slice)
    BY <1>3, <1>5, CommentAdded
<1>7. Knows(x, allow, ledger', issues, unsure)
    BY <1>1, <1>2, <1>4, <1>6 DEF Knows
<1> QED BY <1>1, <1>2, <1>3, <1>4, <1>5, <1>7, CommentStep

LEMMA CommentCreatedStep ==
    ASSUME SlicerInv, NEW r \in Runners, CommentCreated(r)
    PROVE  SlicerInv'
<1>1. runs[r].pc = "record" /\ UNCHANGED <<allow, parent, issues, unsure>>
    BY DEF CommentCreated, debt
<1>2. Active(r)
    BY <1>1, ActiveRun
<1>3. PICK n \in runs[r].todo :
          ledger' = Append(ledger, CreatedComment(dedup_key(runs[r].slice), n, TRUE))
    BY DEF CommentCreated
<1> DEFINE c == CreatedComment(dedup_key(runs[r].slice), n, TRUE)
<1>4. runs' = [runs EXCEPT ![r] = Idle] /\ ledger' = Append(ledger, c)
    BY <1>3 DEF CommentCreated, Done
<1>5. IsRecord(c)
    BY DEF IsRecord, CreatedComment
<1> HIDE DEF c
<1> QED BY <1>1, <1>2, <1>4, <1>5, CommentStep

(* The creation of an issue.  The run read the ledger and searched before, *)
(* and what it learned is still so: the intent is there, and if nothing    *)
(* overlapped or lagged no open issue of the bot has an entry of the       *)
(* slice.  No other run is active then that could count on the contrary.   *)
LEMMA CreateIssueStep ==
    ASSUME SlicerInv, NEW r \in Runners, NEW printed, NEW late, CreateIssue(r, printed, late)
    PROVE  SlicerInv'
<1> DEFINE run == runs[r]
           n == Len(issues) + 1
           new == Issue(run.slice, TRUE)
           todo == {IF printed THEN n ELSE Unknown}
           x == [run EXCEPT !.pc = "record", !.todo = todo]
<1>1. run.pc = "create" /\ UNCHANGED <<allow, parent, ledger, unsure>>
    BY DEF CreateIssue, debt
<1>2. IsRun(run) /\ Active(r) /\ Knows(run, allow, ledger, issues, unsure)
    BY <1>1, ActiveRun
<1>3. runs' = [runs EXCEPT ![r] = x] /\ issues' = Append(issues, new)
    BY DEF CreateIssue, dedup_key
<1>4. IsRun(x) /\ x.pc = "record" /\ x.slice = run.slice /\ x.intended = run.intended
  <2> HIDE DEF todo
  <2>1. x = [run EXCEPT !.pc = "record", !.todo = todo]
      OBVIOUS
  <2> HIDE DEF x
  <2>2. x = [pc |-> "record", write |-> run.write, bot |-> run.bot, slice |-> run.slice,
             todo |-> todo, intended |-> run.intended, since |-> run.since, held |-> run.held]
      BY <1>2, <2>1 DEF IsRun
  <2> QED BY <2>2 DEF IsRun
<1>5. /\ IsIssue(new) /\ new.key = run.slice /\ new.trusted /\ new.open
      /\ new.entries = selected_entry_keys(run.slice)
    BY DEF IsIssue, Issue
<1> HIDE DEF x, new
<1>6. IsSequence(issues) /\ \A i \in DOMAIN issues : IsIssue(issues[i])
    BY DEF SlicerInv, Shapes
<1>7. /\ IsSequence(issues')
      /\ Len(issues) \in Nat /\ DOMAIN issues = 1..Len(issues)
      /\ DOMAIN issues' = 1..n
      /\ \A i \in DOMAIN issues : i \in DOMAIN issues' /\ issues'[i] = issues[i]
      /\ issues'[n] = new
      /\ \A i \in DOMAIN issues' : i = n \/ i \in DOMAIN issues
    BY <1>3, <1>6, AppendSequence
<1> HIDE DEF n
<1>8. /\ runs' = [q \in Runners |-> runs'[q]]
      /\ \A q \in Runners : runs'[q] = Idle \/ (IsRun(runs'[q]) /\ runs'[q].pc # "idle")
      /\ runs'[r] = x /\ \A q \in Runners \ {r} : runs'[q] = runs[q]
      /\ Alone'
    BY <1>1, <1>2, <1>3, <1>4, RunnerShapes
<1>9. Shapes'
  <2>1. \A i \in DOMAIN issues' : IsIssue(issues'[i])
      BY <1>5, <1>6, <1>7
  <2> QED BY <1>1, <1>7, <1>8, <2>1 DEF SlicerInv, Shapes
<1>10. RunsKnow'
  <2> SUFFICES ASSUME NEW q \in Runners, Active(q)'
               PROVE  Knows(runs'[q], allow, ledger, issues', unsure)
      BY <1>1 DEF RunsKnow
  <2>1. CASE q = r
      BY <1>1, <1>2, <1>4, <1>8, <2>1 DEF Knows
  <2>2. CASE q # r
    <3>1. runs'[q] = runs[q] /\ Active(q)
        BY <1>8, <2>2 DEF Active
    <3>2. unsure
        BY <1>2, <2>2, <3>1 DEF SlicerInv, Alone
    <3> QED BY <3>1, <3>2 DEF SlicerInv, RunsKnow, Knows
  <2> QED BY <2>1, <2>2
<1>11. OneOwner'
  <2> SUFFICES ASSUME ~unsure, NEW i \in DOMAIN issues', NEW j \in DOMAIN issues', i # j,
                      issues'[i].open, issues'[i].trusted, issues'[j].open, issues'[j].trusted
               PROVE  issues'[i].entries \cap issues'[j].entries = {}
      BY <1>1 DEF OneOwner, Owns
  <2>1. Unowned(issues, run.slice)
      BY <1>1, <1>2 DEF Knows
  <2>2. \A k \in DOMAIN issues : issues[k].open /\ issues[k].trusted =>
            issues[k].entries \cap new.entries = {}
      BY <1>5, <2>1 DEF Unowned
  <2>3. CASE i = n
      BY <1>7, <2>2, <2>3
  <2>4. CASE j = n
      BY <1>7, <2>2, <2>4
  <2>5. CASE i # n /\ j # n
      BY <1>7, <2>5 DEF SlicerInv, OneOwner, Owns
  <2> QED BY <2>3, <2>4, <2>5
<1>12. SliceIntended'
  <2>1. IntendedOn(ledger, run.slice)
      BY <1>1, <1>2 DEF Knows
  <2>2. \A i \in DOMAIN issues' : issues'[i].trusted /\ ~issues'[i].legacy =>
            IntendedOn(ledger, issues'[i].key)
      BY <1>5, <1>7, <2>1 DEF SlicerInv, SliceIntended, IntendedOn
  <2> QED BY <1>1, <2>2 DEF SliceIntended, IntendedOn
<1>13. ClosedMeansDone'
    BY <1>1 DEF SlicerInv, ClosedMeansDone
<1> QED BY <1>8, <1>9, <1>10, <1>11, <1>12, <1>13 DEF SlicerInv

LEMMA CommandStep ==
    ASSUME SlicerInv, NEW r \in Runners, Command(r) \/ CommandFails(r)
    PROVE  SlicerInv'
<1>1. CASE RenderFails(r)
  <2>1. Active(r)
      BY <1>1, ActiveRun DEF RenderFails
  <2> QED BY <1>1, <2>1, DoneStep DEF RenderFails, debt
<1>2. CASE CommandFails(r)
    BY <1>2, DoneStep DEF CommandFails, debt
<1> QED
    BY <1>1, <1>2, ViewParentStep, CloseParentStep, ViewLedgerIssueStep, SearchSlicesStep,
       SearchExactStep, CommentIntentStep, CreateIssueStep, CommentCreatedStep DEF Command

-----------------------------------------------------------------------------
(* Everyone else.                                                          *)

(* A step that no run takes.                                               *)
LEMMA WorldStep ==
    ASSUME SlicerInv, UNCHANGED tool, allow' \subseteq allow, IntentsKept, IssuesKept,
           IsSequence(ledger'), \A i \in DOMAIN ledger' : IsRecord(ledger'[i]),
           IsSequence(issues'), \A i \in DOMAIN issues' : IsIssue(issues'[i])
    PROVE  SlicerInv'
<1>1. UNCHANGED <<parent, runs, unsure>>
    BY DEF tool
<1>2. Shapes'
    BY <1>1 DEF SlicerInv, Shapes
<1>3. Alone'
    BY <1>1 DEF SlicerInv, Alone, Active
<1> QED BY <1>1, <1>2, <1>3, StepKnows

LEMMA DebtStep ==
    ASSUME SlicerInv, UNCHANGED <<tool, ledger, issues>>, allow' \subseteq allow
    PROVE  SlicerInv'
BY WorldStep, SameIssues, SameLedger DEF SlicerInv, Shapes

LEMMA CloseIssueStep ==
    ASSUME SlicerInv, NEW i \in DOMAIN issues, CloseIssue(i)
    PROVE  SlicerInv'
<1>1. IsSequence(issues) /\ \A k \in DOMAIN issues : IsIssue(issues[k])
    BY DEF SlicerInv, Shapes
<1> DEFINE x == [issues[i] EXCEPT !.open = FALSE]
<1>2. issues' = [k \in DOMAIN issues |-> IF k = i THEN x ELSE issues[k]]
  <2>1. issues = [k \in DOMAIN issues |-> issues[k]]
      BY <1>1 DEF IsSequence
  <2> QED BY <2>1 DEF CloseIssue
<1>3. x = [key |-> issues[i].key, entries |-> issues[i].entries, legacy |-> issues[i].legacy,
           trusted |-> issues[i].trusted, open |-> FALSE]
  <2> DEFINE y == issues[i]
  <2>1. x = [y EXCEPT !.open = FALSE] /\ IsIssue(y)
      BY <1>1
  <2> HIDE DEF x, y
  <2>2. x = [key |-> y.key, entries |-> y.entries, legacy |-> y.legacy,
             trusted |-> y.trusted, open |-> FALSE]
      BY <2>1 DEF IsIssue
  <2> QED BY <2>2 DEF y
<1> HIDE DEF x
<1>4. /\ IsIssue(x) /\ ~x.open
      /\ x.trusted = issues[i].trusted /\ x.entries = issues[i].entries
      /\ x.key = issues[i].key /\ x.legacy = issues[i].legacy
    BY <1>3 DEF IsIssue
<1>5. DOMAIN issues' = DOMAIN issues /\ issues' = [k \in DOMAIN issues' |-> issues'[k]]
    BY <1>2
<1>6. IsSequence(issues')
    BY <1>1, <1>5, UpdateSequence
<1>7. \A k \in DOMAIN issues' : IsIssue(issues'[k])
    BY <1>1, <1>2, <1>4
<1>8. IssuesKept
    BY <1>2, <1>4 DEF IssuesKept
<1>9. UNCHANGED <<tool, allow, ledger>>
    BY DEF CloseIssue, debt
<1> QED BY <1>6, <1>7, <1>8, <1>9, SameLedger, WorldStep DEF SlicerInv, Shapes

LEMMA AgeLedgerStep ==
    ASSUME SlicerInv, AgeLedger
    PROVE  SlicerInv'
<1>1. IsSequence(ledger) /\ \A i \in DOMAIN ledger : IsRecord(ledger[i])
    BY DEF SlicerInv, Shapes
<1>2. ledger' = [i \in DOMAIN ledger |-> [ledger[i] EXCEPT !.recent = FALSE]]
    BY DEF AgeLedger
<1>3. \A i \in DOMAIN ledger :
          ledger'[i] = [kind |-> ledger[i].kind, key |-> ledger[i].key,
                        issue |-> ledger[i].issue, recent |-> FALSE,
                        trusted |-> ledger[i].trusted]
  <2> SUFFICES ASSUME NEW i \in DOMAIN ledger
               PROVE  ledger'[i] = [kind |-> ledger[i].kind, key |-> ledger[i].key,
                                    issue |-> ledger[i].issue, recent |-> FALSE,
                                    trusted |-> ledger[i].trusted]
      OBVIOUS
  <2> DEFINE c == ledger[i]
             d == ledger'[i]
  <2>1. d = [c EXCEPT !.recent = FALSE] /\ IsRecord(c)
      BY <1>1, <1>2
  <2> HIDE DEF c, d
  <2>2. d = [kind |-> c.kind, key |-> c.key, issue |-> c.issue,
             recent |-> FALSE, trusted |-> c.trusted]
      BY <2>1 DEF IsRecord
  <2> QED BY <2>2 DEF c, d
<1>4. DOMAIN ledger' = DOMAIN ledger /\ ledger' = [i \in DOMAIN ledger' |-> ledger'[i]]
    BY <1>2
<1>5. IsSequence(ledger')
    BY <1>1, <1>4, UpdateSequence
<1>6. \A i \in DOMAIN ledger' : /\ IsRecord(ledger'[i]) /\ ledger'[i].kind = ledger[i].kind
                                /\ ledger'[i].key = ledger[i].key
    BY <1>3, <1>4 DEF IsRecord
<1>7. IntentsKept
    BY <1>4, <1>6 DEF IntentsKept, IntendedOn
<1>8. UNCHANGED <<tool, allow, issues>>
    BY DEF AgeLedger, debt
<1> QED BY <1>5, <1>6, <1>7, <1>8, SameIssues, WorldStep DEF SlicerInv, Shapes

(* An issue of an outsider is not trusted, and a comment adds no intent.   *)
LEMMA OutsiderStep ==
    ASSUME SlicerInv, Outsider
    PROVE  SlicerInv'
<1>1. PICK key : /\ \/ issues' = Append(issues, Issue(key, FALSE)) /\ UNCHANGED ledger
                    \/ ledger' = Append(ledger, CreatedComment(key, Unknown, FALSE))
                       /\ UNCHANGED issues
                 /\ UNCHANGED <<tool, allow>>
    BY DEF Outsider, debt
<1>2. CASE issues' = Append(issues, Issue(key, FALSE)) /\ UNCHANGED ledger
  <2> DEFINE new == Issue(key, FALSE)
  <2>1. IsIssue(new) /\ new.trusted = FALSE
      BY DEF IsIssue, Issue
  <2> HIDE DEF new
  <2>2. IsSequence(issues) /\ \A i \in DOMAIN issues : IsIssue(issues[i])
      BY DEF SlicerInv, Shapes
  <2>3. issues' = Append(issues, new)
      BY <1>2 DEF new
  <2>4. /\ IsSequence(issues')
        /\ \A i \in DOMAIN issues : i \in DOMAIN issues' /\ issues'[i] = issues[i]
        /\ issues'[Len(issues) + 1] = new
        /\ \A i \in DOMAIN issues' : i = Len(issues) + 1 \/ i \in DOMAIN issues
      BY <2>2, <2>3, AppendSequence
  <2>5. \A i \in DOMAIN issues' : IsIssue(issues'[i])
      BY <2>1, <2>2, <2>4
  <2>6. IssuesKept
      BY <2>1, <2>4 DEF IssuesKept
  <2> QED BY <1>1, <1>2, <2>4, <2>5, <2>6, SameLedger, WorldStep DEF SlicerInv, Shapes
<1>3. CASE ledger' = Append(ledger, CreatedComment(key, Unknown, FALSE)) /\ UNCHANGED issues
  <2> DEFINE c == CreatedComment(key, Unknown, FALSE)
  <2>1. IsRecord(c)
      BY DEF IsRecord, CreatedComment
  <2> HIDE DEF c
  <2>2. ledger' = Append(ledger, c)
      BY <1>3 DEF c
  <2>3. /\ IntentsKept
        /\ IsSequence(ledger') /\ \A i \in DOMAIN ledger' : IsRecord(ledger'[i])
      BY <2>1, <2>2, CommentAdded
  <2> QED BY <1>1, <1>3, <2>3, SameIssues, WorldStep DEF SlicerInv, Shapes
<1> QED BY <1>1, <1>2, <1>3

-----------------------------------------------------------------------------
LEMMA SlicerInitially ==
    ASSUME Init
    PROVE  SlicerInv
<1>1. \A r \in Runners : runs[r] = Idle /\ ~Active(r)
    BY DEF Init, Active, Idle
<1>2. PICK x : issues \in {<<>>, <<x>>} /\ x = LegacyIssue
    BY DEF Init
<1>3. IsIssue(x) /\ x.legacy
    BY <1>2 DEF LegacyIssue, IsIssue
<1>4. IsSequence(issues) /\ DOMAIN issues \subseteq {1}
      /\ \A i \in DOMAIN issues : issues[i] = x
  <2>1. CASE issues = <<>>
    <3>1. <<>> \in Seq({})
        OBVIOUS
    <3> QED BY <2>1, <3>1 DEF IsSequence
  <2>2. CASE issues = <<x>>
    <3>1. <<x>> \in Seq({x})
        OBVIOUS
    <3>2. DOMAIN <<x>> = {1} /\ <<x>>[1] = x
        OBVIOUS
    <3>3. IsSequence(<<x>>)
        BY <3>1 DEF IsSequence
    <3> QED BY <2>2, <3>2, <3>3
  <2> QED BY <1>2, <2>1, <2>2
<1>5. IsSequence(ledger) /\ DOMAIN ledger = {}
  <2>1. <<>> \in Seq({})
      OBVIOUS
  <2> QED BY <2>1 DEF Init, IsSequence
<1>6. Shapes
  <2>1. runs = [r \in Runners |-> runs[r]]
      BY DEF Init
  <2> QED BY <1>1, <1>3, <1>4, <1>5, <2>1 DEF Init, Shapes
<1>7. RunsKnow /\ Alone
    BY <1>1 DEF RunsKnow, Alone
<1>8. OneOwner
    BY <1>4 DEF OneOwner
<1>9. SliceIntended
    BY <1>3, <1>4 DEF SliceIntended
<1>10. ClosedMeansDone
    BY DEF Init, ClosedMeansDone
<1> QED BY <1>6, <1>7, <1>8, <1>9, <1>10 DEF SlicerInv

LEMMA SlicerInductive ==
    ASSUME SlicerInv, [Next]_vars
    PROVE  SlicerInv'
<1>1. CASE UNCHANGED vars
    BY <1>1, DebtStep DEF vars, debt, tool
<1>2. CASE \E r \in Runners, write \in BOOLEAN, size \in SliceSizes : Start(r, write, write, size)
    BY <1>2, StartStep
<1>3. CASE \E r \in Runners : Command(r) \/ CommandFails(r)
    BY <1>3, CommandStep
<1>4. CASE \E e \in Entries : Migrate(e) \/ Prune(e)
  <2>1. UNCHANGED <<tool, ledger, issues>> /\ allow' \subseteq allow
      BY <1>4 DEF Migrate, Prune
  <2> QED BY <2>1, DebtStep
<1>5. CASE MoveLines
    BY <1>5, DebtStep DEF MoveLines
<1>6. CASE \E i \in DOMAIN issues : CloseIssue(i)
    BY <1>6, CloseIssueStep
<1>7. CASE \E i \in DOMAIN issues : IndexIssue(i)
    BY <1>7, DebtStep DEF IndexIssue, debt
<1> QED
    BY <1>1, <1>2, <1>3, <1>4, <1>5, <1>6, <1>7, AgeLedgerStep, OutsiderStep DEF Next

LEMMA SlicerAlways == Spec => []SlicerInv
BY SlicerInitially, SlicerInductive, PTL DEF Spec

(* No entry is owned by two open issues of the bot, for any number of      *)
(* runs one after the other, whatever fails, closes, moves or is copied    *)
(* between any two of their commands, as long as no two runs overlapped    *)
(* and no search lagged.                                                   *)
THEOREM EntriesHaveOneOwner == Spec => []OneOwner
<1>1. SlicerInv => OneOwner
    BY DEF SlicerInv
<1> QED BY <1>1, SlicerAlways, PTL

(* Every issue that the bot created was announced on the parent's ledger   *)
(* with the same key first, also when runs overlap and searches lag.       *)
THEOREM SlicesAreIntended == Spec => []SliceIntended
<1>1. SlicerInv => SliceIntended
    BY DEF SlicerInv
<1> QED BY <1>1, SlicerAlways, PTL

(* The parent issue is closed only when the allowlist is empty, although   *)
(* the run that closes it loaded the allowlist two commands before.        *)
THEOREM ParentClosesDone == Spec => []ClosedMeansDone
<1>1. SlicerInv => ClosedMeansDone
    BY DEF SlicerInv
<1> QED BY <1>1, SlicerAlways, PTL

-----------------------------------------------------------------------------
(***************************************************************************)
(* Runs settle.  A run ends for the reasons it found: an issue that the    *)
(* ledger names, one that the search returned, or the one it created.      *)
(* Each carries the entries of the slice, because a record names the issue *)
(* that was created under its key.                                         *)
(***************************************************************************)

(* An issue of the bot for the entries of this slice.                      *)
Names(filed, n, key) ==
    n \in DOMAIN filed /\ filed[n].trusted /\ filed[n].entries = selected_entry_keys(key)

Keyed ==
    \A i \in DOMAIN issues :
        issues[i].legacy \/ issues[i].entries = selected_entry_keys(issues[i].key)

Recorded ==
    \A j \in DOMAIN ledger :
        ledger[j].kind = "created" /\ ledger[j].issue # Unknown =>
            Names(issues, ledger[j].issue, ledger[j].key)

(* What an active run found is so, or something went wrong since it began. *)
Relies(run, listed, filed, now) ==
    /\ run.write => run.bot
    /\ run.since \in Nat /\ run.since <= now
    /\ run.pc \notin {"view", "close"} => run.slice # <<>>
    /\ run.pc = "ledger" =>
          \A n \in run.todo : (n = Hold /\ run.held) \/ Names(filed, n, run.slice)
    /\ run.pc = "record" =>
          /\ \A n \in run.todo : n = Unknown \/ Names(filed, n, run.slice)
          /\ \/ run.since < now
             \/ selected_entry_keys(run.slice) \cap listed = {}
             \/ \E n \in DOMAIN filed : Names(filed, n, run.slice) /\ filed[n].open

RunsRely == \A r \in Runners : Active(r) => Relies(runs[r], allow, issues, events)

(* The inductive invariant of the settling runs.                           *)
SettleInv ==
    /\ SlicerInv
    /\ events \in Nat
    /\ Keyed
    /\ Recorded
    /\ RunsRely

SettleStep ==
    \A r \in Runners :
        /\ EndsUndisturbed(r)
        /\ runs[r].slice = <<>> \/ ratchet_slice_marker_renders(runs[r].slice)
        => Settles(r)

(* An issue keeps its markers, and closing it undone is an event.          *)
IssuesStay ==
    \A i \in DOMAIN issues :
        /\ i \in DOMAIN issues'
        /\ issues'[i].trusted = issues[i].trusted /\ issues'[i].legacy = issues[i].legacy
        /\ issues'[i].key = issues[i].key /\ issues'[i].entries = issues[i].entries
        /\ issues[i].open /\ ~issues'[i].open =>
              events < events' \/ issues[i].entries \cap allow = {}

(* What every step does to the parts that a run relies on.                 *)
Drifts ==
    /\ allow' \subseteq allow
    /\ events' \in Nat /\ events <= events'
    /\ IssuesStay

LEMMA IssuesSame ==
    ASSUME UNCHANGED issues PROVE IssuesStay
BY DEF IssuesStay

LEMMA NamesStay ==
    ASSUME IssuesStay, NEW n, NEW key, Names(issues, n, key)
    PROVE  Names(issues', n, key)
BY DEF IssuesStay, Names

LEMMA ReliesStay ==
    ASSUME NEW run, Relies(run, allow, issues, events), events \in Nat, Drifts
    PROVE  Relies(run, allow', issues', events')
<1>1. \A n : Names(issues, n, run.slice) => Names(issues', n, run.slice)
    BY NamesStay DEF Drifts
<1>2. run.since \in Nat /\ run.since <= events'
    BY DEF Relies, Drifts
<1>3. CASE run.pc # "record"
    BY <1>1, <1>2, <1>3 DEF Relies
<1>4. CASE run.pc = "record"
  <2>1. CASE run.since < events
    <3>1. run.since < events'
        BY <2>1 DEF Relies, Drifts
    <3> QED BY <1>1, <1>2, <1>4, <3>1 DEF Relies
  <2>2. CASE selected_entry_keys(run.slice) \cap allow = {}
    <3>1. selected_entry_keys(run.slice) \cap allow' = {}
        BY <2>2 DEF Drifts
    <3> QED BY <1>1, <1>2, <1>4, <3>1 DEF Relies
  <2>3. ASSUME NEW n \in DOMAIN issues, Names(issues, n, run.slice), issues[n].open
        PROVE  Relies(run, allow', issues', events')
    <3>1. Names(issues', n, run.slice) /\ n \in DOMAIN issues'
        BY <1>1, <2>3 DEF Names
    <3>2. CASE issues'[n].open
        BY <1>1, <1>2, <1>4, <3>1, <3>2 DEF Relies
    <3>3. CASE events < events'
      <4>1. run.since < events'
          BY <3>3 DEF Relies, Drifts
      <4> QED BY <1>1, <1>2, <1>4, <4>1 DEF Relies
    <3>4. CASE issues[n].entries \cap allow = {}
      <4>1. selected_entry_keys(run.slice) \cap allow' = {}
          BY <2>3, <3>4 DEF Names, Drifts
      <4> QED BY <1>1, <1>2, <1>4, <4>1 DEF Relies
    <3> QED BY <2>3, <3>2, <3>3, <3>4 DEF Drifts, IssuesStay
  <2> QED BY <1>4, <2>1, <2>2, <2>3 DEF Relies
<1> QED BY <1>3, <1>4

LEMMA RecordedStays ==
    ASSUME SettleInv, UNCHANGED ledger, Drifts
    PROVE  Recorded'
<1>1. \A n, key : Names(issues, n, key) => Names(issues', n, key)
    BY NamesStay DEF Drifts
<1> QED BY <1>1 DEF SettleInv, Recorded

(* A runner that goes on.                                                  *)
LEMMA RunGoesOn ==
    ASSUME SettleInv, SlicerInv', Drifts, Keyed', Recorded',
           NEW r \in Runners, NEW x, runs' = [runs EXCEPT ![r] = x],
           x.pc # "idle", Relies(x, allow', issues', events')
    PROVE  SettleInv' /\ SettleStep
<1>1. runs = [q \in Runners |-> runs[q]]
    BY DEF SettleInv, SlicerInv, Shapes
<1>2. runs'[r] = x /\ \A q \in Runners \ {r} : runs'[q] = runs[q]
    BY <1>1
<1>3. RunsRely'
  <2> SUFFICES ASSUME NEW q \in Runners, Active(q)', q # r
               PROVE  Relies(runs'[q], allow', issues', events')
      BY <1>2 DEF RunsRely
  <2>1. runs'[q] = runs[q] /\ Active(q)
      BY <1>2 DEF Active
  <2> QED BY <2>1, ReliesStay DEF SettleInv, RunsRely
<1>4. \A q \in Runners : ~EndsUndisturbed(q)
    BY <1>2 DEF EndsUndisturbed, Active
<1> QED BY <1>3, <1>4 DEF SettleInv, SettleStep, Drifts

(* A runner whose run ends.                                                *)
LEMMA RunEnds ==
    ASSUME SettleInv, SlicerInv', Drifts, Keyed', Recorded',
           NEW r \in Runners, Active(r), Done(r),
           /\ runs[r].write /\ events' = runs[r].since
           /\ runs[r].slice = <<>> \/ ratchet_slice_marker_renders(runs[r].slice)
           => Settles(r)
    PROVE  SettleInv' /\ SettleStep
<1>1. runs = [q \in Runners |-> runs[q]]
    BY DEF SettleInv, SlicerInv, Shapes
<1>2. runs'[r] = Idle /\ \A q \in Runners \ {r} : runs'[q] = runs[q]
    BY <1>1 DEF Done
<1>3. ~Active(r)'
    BY <1>2 DEF Active, Idle
<1>4. RunsRely'
  <2> SUFFICES ASSUME NEW q \in Runners, Active(q)', q # r
               PROVE  Relies(runs'[q], allow', issues', events')
      BY <1>3 DEF RunsRely
  <2>1. runs'[q] = runs[q] /\ Active(q)
      BY <1>2 DEF Active
  <2> QED BY <2>1, ReliesStay DEF SettleInv, RunsRely
<1>5. \A q \in Runners : EndsUndisturbed(q) => q = r
    BY <1>2 DEF EndsUndisturbed, Active
<1>6. SettleStep
    BY <1>5 DEF SettleStep, EndsUndisturbed
<1> QED BY <1>4, <1>6 DEF SettleInv, Drifts

(* A step that no run takes.                                               *)
LEMMA NoRunSettles ==
    ASSUME SettleInv, SlicerInv', Drifts, Keyed', Recorded', UNCHANGED runs
    PROVE  SettleInv' /\ SettleStep
<1>1. RunsRely'
  <2> SUFFICES ASSUME NEW q \in Runners, Active(q)
               PROVE  Relies(runs[q], allow', issues', events')
      BY DEF RunsRely, Active
  <2> QED BY ReliesStay DEF SettleInv, RunsRely
<1>2. \A q \in Runners : ~EndsUndisturbed(q)
    BY DEF EndsUndisturbed, Active
<1> QED BY <1>1, <1>2 DEF SettleInv, SettleStep, Drifts

(* What an active run relies on, and what a read changes: nothing.         *)
LEMMA ActiveRelies ==
    ASSUME SettleInv, NEW r \in Runners, runs[r].pc # "idle"
    PROVE  IsRun(runs[r]) /\ Active(r) /\ Relies(runs[r], allow, issues, events)
BY ActiveRun DEF SettleInv, RunsRely

LEMMA ReadDrifts ==
    ASSUME SettleInv, UNCHANGED <<allow, ledger, issues, events>>
    PROVE  Drifts /\ Keyed' /\ Recorded'
<1>1. Drifts
    BY IssuesSame DEF Drifts, SettleInv
<1> QED BY <1>1, RecordedStays DEF SettleInv, Keyed

LEMMA StartSettles ==
    ASSUME SettleInv, SlicerInv', NEW r \in Runners, NEW write \in BOOLEAN, NEW size \in SliceSizes,
           Start(r, write, write, size)
    PROVE  SettleInv' /\ SettleStep
<1> DEFINE cut == selected_sites(load_inventory, size)
           x == [pc |-> "view", write |-> write, bot |-> write, slice |-> cut,
                 todo |-> {}, intended |-> FALSE, since |-> events, held |-> FALSE]
<1>1. runs' = [runs EXCEPT ![r] = x] /\ UNCHANGED <<allow, ledger, issues, events>>
    BY DEF Start, debt
<1> HIDE DEF cut
<1>2. x.pc = "view" /\ x.write = write /\ x.bot = write /\ x.since = events
    OBVIOUS
<1> HIDE DEF x
<1>3. Relies(x, allow', issues', events')
    BY <1>1, <1>2 DEF Relies, SettleInv
<1> QED BY <1>1, <1>2, <1>3, ReadDrifts, RunGoesOn

LEMMA ViewParentSettles ==
    ASSUME SettleInv, SlicerInv', NEW r \in Runners, ViewParent(r)
    PROVE  SettleInv' /\ SettleStep
<1> DEFINE run == runs[r]
<1>1. run.pc = "view" /\ UNCHANGED <<allow, parent, ledger, issues, events>>
    BY DEF ViewParent, debt
<1>2. IsRun(run) /\ Active(r) /\ Relies(run, allow, issues, events)
    BY <1>1, ActiveRelies
<1>3. CASE run.slice = <<>> /\ ~(parent /\ run.write)
  <2>1. Done(r)
      BY <1>3 DEF ViewParent
  <2>2. run.write => Settles(r)
      BY <1>1, <1>3 DEF Settles
  <2> QED BY <1>1, <1>2, <2>1, <2>2, ReadDrifts, RunEnds
<1>4. CASE run.slice = <<>> /\ parent /\ run.write
  <2> DEFINE x == [run EXCEPT !.pc = "close"]
  <2>1. runs' = [runs EXCEPT ![r] = x]
      BY <1>4 DEF ViewParent, Goto
  <2>2. Carries(x, run) /\ x.pc = "close"
      BY <1>2, RunGoes
  <2> HIDE DEF x
  <2>3. Relies(x, allow', issues', events')
      BY <1>1, <1>2, <2>2 DEF Relies, Carries
  <2> QED BY <1>1, <2>1, <2>2, <2>3, ReadDrifts, RunGoesOn
<1>5. CASE run.slice # <<>>
  <2> DEFINE named == parent_issue_created_marker_issues(dedup_key(run.slice), run)
             pc == IF named = {} THEN "search" ELSE "ledger"
             seen == parent_has_intent(dedup_key(run.slice), run)
             held == AwaitsNumber(run)
             x == Moved(run, pc, named, seen, held)
  <2>1. runs' = [runs EXCEPT ![r] = x]
      BY <1>5 DEF ViewParent, Moved
  <2>2. \A n \in named : (n = Hold /\ held) \/ Names(issues, n, run.slice)
    <3>1. ASSUME NEW n \in named
          PROVE  (n = Hold /\ held) \/ Names(issues, n, run.slice)
      <4>1. PICK j \in DOMAIN ledger :
                /\ ledger[j].kind = "created" /\ ledger[j].key = run.slice
                /\ ledger[j].issue = Unknown => ledger[j].recent
                /\ is_trusted_record(ledger[j], run)
                /\ n = IF ledger[j].issue = Unknown THEN Hold ELSE ledger[j].issue
          BY <3>1 DEF parent_issue_created_marker_issues, Numbers, dedup_key
      <4> QED BY <4>1 DEF SettleInv, Recorded, AwaitsNumber, dedup_key
    <3> QED BY <3>1
  <2>3. pc \in {"search", "ledger"}
      OBVIOUS
  <2> HIDE DEF named, pc, seen, held
  <2>4. Carries(x, run) /\ x.pc = pc /\ x.todo = named /\ x.held = held
      BY <1>2, RunMoves
  <2> HIDE DEF x
  <2>5. Relies(x, allow', issues', events')
      BY <1>1, <1>2, <1>5, <2>2, <2>3, <2>4 DEF Relies, Carries
  <2> QED BY <1>1, <2>1, <2>3, <2>4, <2>5, ReadDrifts, RunGoesOn
<1> QED BY <1>3, <1>4, <1>5

LEMMA CloseParentSettles ==
    ASSUME SettleInv, SlicerInv', NEW r \in Runners, CloseParent(r)
    PROVE  SettleInv' /\ SettleStep
<1>1. runs[r].pc = "close" /\ ~parent' /\ UNCHANGED <<allow, ledger, issues, events>>
    BY DEF CloseParent, debt
<1>2. Active(r) /\ Knows(runs[r], allow, ledger, issues, unsure)
    BY <1>1, ActiveRun DEF SettleInv
<1>3. Settles(r)
    BY <1>1, <1>2 DEF Settles, Knows
<1> QED BY <1>1, <1>2, <1>3, ReadDrifts, RunEnds DEF CloseParent

(* An open issue of the bot for entries of the slice settles the run.      *)
LEMMA FoundSettles ==
    ASSUME NEW r \in Runners, runs[r].slice # <<>>, UNCHANGED issues,
           NEW i \in DOMAIN issues, issues[i].open, issues[i].trusted,
           \/ issues[i].legacy
           \/ issues[i].entries = selected_entry_keys(runs[r].slice)
           \/ issues[i].entries \cap selected_entry_keys(runs[r].slice) # {}
    PROVE  Settles(r)
<1> DEFINE entries == selected_entry_keys(runs[r].slice)
<1>1. Owns(i)' /\ i \in DOMAIN issues'
    BY DEF Owns
<1>2. CASE entries = {}
    BY <1>2 DEF Settles
<1>3. CASE entries # {}
  <2>1. issues'[i].legacy \/ issues'[i].entries \cap entries # {}
    <3> HIDE DEF entries
    <3>1. issues[i].entries = entries => issues[i].entries \cap entries # {}
        BY <1>3
    <3> QED BY <3>1 DEF entries
  <2> QED BY <1>1, <2>1 DEF Settles
<1> QED BY <1>2, <1>3

LEMMA ViewLedgerIssueSettles ==
    ASSUME SettleInv, SlicerInv', NEW r \in Runners, ViewLedgerIssue(r)
    PROVE  SettleInv' /\ SettleStep
<1> DEFINE run == runs[r]
<1>1. run.pc = "ledger" /\ UNCHANGED <<allow, parent, ledger, issues, events>>
    BY DEF ViewLedgerIssue, debt
<1>2. IsRun(run) /\ Active(r) /\ Relies(run, allow, issues, events)
    BY <1>1, ActiveRelies
<1>3. PICK n \in run.todo :
          IF n = Hold \/ ~is_trusted_record(issues[n], run) \/ issues[n].open
          THEN Done(r)
          ELSE runs' = [runs EXCEPT ![r].todo = @ \ {n},
                           ![r].pc = IF run.todo = {n} THEN "search" ELSE "ledger"]
    BY DEF ViewLedgerIssue
<1>4. (n = Hold /\ run.held) \/ Names(issues, n, run.slice)
    BY <1>1, <1>2 DEF Relies
<1>5. CASE n = Hold \/ ~is_trusted_record(issues[n], run) \/ issues[n].open
  <2>1. run.slice # <<>>
      BY <1>1, <1>2 DEF Relies
  <2>2. CASE run.held
    <3>1. Settles(r)
        BY <2>1, <2>2 DEF Settles
    <3> QED BY <1>1, <1>2, <1>3, <1>5, <3>1, ReadDrifts, RunEnds
  <2>3. CASE Names(issues, n, run.slice)
    <3>1. n # Hold
      <4>1. DOMAIN issues \subseteq Nat
        <5>1. IsSequence(issues)
            BY DEF SettleInv, SlicerInv, Shapes
        <5> QED BY <5>1, AppendSequence
      <4> QED BY <2>3, <4>1 DEF Names, Hold
    <3>2. issues[n].open
        BY <1>5, <2>3, <3>1 DEF Names, is_trusted_record
    <3>3. Settles(r)
        BY <1>1, <2>1, <2>3, <3>2, FoundSettles DEF Names
    <3> QED BY <1>1, <1>2, <1>3, <1>5, <3>3, ReadDrifts, RunEnds
  <2> QED BY <1>4, <2>2, <2>3
<1>6. CASE ~(n = Hold \/ ~is_trusted_record(issues[n], run) \/ issues[n].open)
  <2> DEFINE pc == IF run.todo = {n} THEN "search" ELSE "ledger"
             x == Popped(run, pc, run.todo \ {n})
  <2>1. runs' = [runs EXCEPT ![r] = x]
      BY <1>3, <1>6 DEF Popped
  <2>2. pc \in {"search", "ledger"}
      OBVIOUS
  <2> HIDE DEF pc
  <2>3. Carries(x, run) /\ x.pc = pc /\ x.todo = run.todo \ {n} /\ x.held = run.held
      BY <1>2, RunPops
  <2> HIDE DEF x
  <2>4. Relies(x, allow', issues', events')
      BY <1>1, <1>2, <2>2, <2>3 DEF Relies, Carries
  <2> QED BY <1>1, <2>1, <2>2, <2>3, <2>4, ReadDrifts, RunGoesOn
<1> QED BY <1>5, <1>6

LEMMA SearchSlicesSettles ==
    ASSUME SettleInv, SlicerInv', NEW r \in Runners, SearchSlices(r)
    PROVE  SettleInv' /\ SettleStep
<1> DEFINE run == runs[r]
<1>1. run.pc = "search" /\ UNCHANGED <<allow, parent, ledger, issues, events>>
    BY DEF SearchSlices, debt
<1>2. IsRun(run) /\ Active(r) /\ Relies(run, allow, issues, events)
    BY <1>1, ActiveRelies
<1>3. ASSUME NEW i \in Searchable(run), slice_overlaps_entry(issues[i], run)
      PROVE  SettleInv' /\ SettleStep
  <2>1. Done(r)
      BY <1>3 DEF SearchSlices
  <2>2. run.write => Settles(r)
    <3>1. run.write => issues[i].trusted
        BY <1>2, <1>3 DEF Relies, Searchable, is_trusted_record
    <3> QED BY <1>1, <1>2, <1>3, <3>1, FoundSettles DEF Relies, Searchable, slice_overlaps_entry
  <2> QED BY <1>1, <1>2, <2>1, <2>2, ReadDrifts, RunEnds
<1>4. CASE ~ \E i \in Searchable(run) : slice_overlaps_entry(issues[i], run)
  <2> DEFINE x == [run EXCEPT !.pc = "exact"]
  <2>1. runs' = [runs EXCEPT ![r] = x]
      BY <1>4 DEF SearchSlices, Goto
  <2>2. Carries(x, run) /\ x.pc = "exact"
      BY <1>2, RunGoes
  <2> HIDE DEF x
  <2>3. Relies(x, allow', issues', events')
      BY <1>1, <1>2, <2>2 DEF Relies, Carries
  <2> QED BY <1>1, <2>1, <2>2, <2>3, ReadDrifts, RunGoesOn
<1> QED BY <1>3, <1>4

LEMMA SearchExactSettles ==
    ASSUME SettleInv, SlicerInv', NEW r \in Runners, SearchExact(r)
    PROVE  SettleInv' /\ SettleStep
<1> DEFINE run == runs[r]
<1>1. run.pc = "exact" /\ UNCHANGED <<allow, parent, ledger, issues, events>>
    BY DEF SearchExact, debt
<1>2. IsRun(run) /\ Active(r) /\ Relies(run, allow, issues, events)
    BY <1>1, ActiveRelies
<1>3. CASE ~run.write
    BY <1>1, <1>2, <1>3, ReadDrifts, RunEnds DEF SearchExact
<1>4. ASSUME NEW i \in Searchable(run), issues[i].key = dedup_key(run.slice), run.write
      PROVE  SettleInv' /\ SettleStep
  <2>1. Done(r)
      BY <1>4 DEF SearchExact
  <2>2. issues[i].open /\ issues[i].trusted /\ i \in DOMAIN issues
      BY <1>2, <1>4 DEF Relies, Searchable, is_trusted_record
  <2>3. issues[i].legacy \/ issues[i].entries = selected_entry_keys(run.slice)
      BY <1>4, <2>2 DEF SettleInv, Keyed, dedup_key
  <2>4. Settles(r)
      BY <1>1, <1>2, <2>2, <2>3, FoundSettles DEF Relies
  <2> QED BY <1>1, <1>2, <2>1, <2>4, ReadDrifts, RunEnds
<1>5. CASE ~(\/ \E i \in Searchable(run) : issues[i].key = dedup_key(run.slice)
             \/ ~run.write)
  <2> DEFINE pc == IF run.intended THEN "create" ELSE "intent"
             x == [run EXCEPT !.pc = pc]
  <2>1. runs' = [runs EXCEPT ![r] = x]
      BY <1>5 DEF SearchExact, Goto
  <2>2. pc \in {"create", "intent"}
      OBVIOUS
  <2> HIDE DEF pc
  <2>3. Carries(x, run) /\ x.pc = pc
      BY <1>2, RunGoes
  <2> HIDE DEF x
  <2>4. Relies(x, allow', issues', events')
      BY <1>1, <1>2, <2>2, <2>3 DEF Relies, Carries
  <2> QED BY <1>1, <2>1, <2>2, <2>3, <2>4, ReadDrifts, RunGoesOn
<1> QED BY <1>3, <1>4, <1>5

(* A comment that names an issue only if the issue carries its key.        *)
LEMMA RecordAdded ==
    ASSUME SettleInv, NEW c, ledger' = Append(ledger, c), UNCHANGED issues,
           c.kind = "created" /\ c.issue # Unknown => Names(issues, c.issue, c.key)
    PROVE  Recorded'
<1>1. IsSequence(ledger)
    BY DEF SettleInv, SlicerInv, Shapes
<1>2. \A j \in DOMAIN ledger' : ledger'[j] = c \/ (j \in DOMAIN ledger /\ ledger'[j] = ledger[j])
    BY <1>1, AppendSequence
<1> QED BY <1>2 DEF SettleInv, Recorded

LEMMA CommentIntentSettles ==
    ASSUME SettleInv, SlicerInv', NEW r \in Runners, CommentIntent(r)
    PROVE  SettleInv' /\ SettleStep
<1> DEFINE run == runs[r]
           c == IntentComment(dedup_key(run.slice))
           x == [run EXCEPT !.pc = "create"]
<1>1. run.pc = "intent" /\ UNCHANGED <<allow, issues, events>>
    BY DEF CommentIntent, debt
<1>2. IsRun(run) /\ Active(r) /\ Relies(run, allow, issues, events)
    BY <1>1, ActiveRelies
<1>3. runs' = [runs EXCEPT ![r] = x] /\ ledger' = Append(ledger, c)
    BY DEF CommentIntent, Goto
<1>4. c.kind = "intent"
    BY DEF IntentComment
<1>5. Carries(x, run) /\ x.pc = "create"
    BY <1>2, RunGoes
<1> HIDE DEF c, x
<1>6. Recorded'
    BY <1>1, <1>3, <1>4, RecordAdded
<1>7. Drifts /\ Keyed'
    BY <1>1, IssuesSame DEF Drifts, SettleInv, Keyed
<1>8. Relies(x, allow', issues', events')
    BY <1>1, <1>2, <1>5 DEF Relies, Carries
<1> QED BY <1>3, <1>5, <1>6, <1>7, <1>8, RunGoesOn

LEMMA CommentCreatedSettles ==
    ASSUME SettleInv, SlicerInv', NEW r \in Runners, CommentCreated(r)
    PROVE  SettleInv' /\ SettleStep
<1> DEFINE run == runs[r]
<1>1. run.pc = "record" /\ Done(r) /\ UNCHANGED <<allow, issues, events>>
    BY DEF CommentCreated, debt
<1>2. Active(r) /\ Relies(run, allow, issues, events)
    BY <1>1, ActiveRelies
<1>3. PICK n \in run.todo : ledger' = Append(ledger, CreatedComment(dedup_key(run.slice), n, TRUE))
    BY DEF CommentCreated
<1> DEFINE c == CreatedComment(dedup_key(run.slice), n, TRUE)
<1>4. c.key = run.slice /\ c.issue = n
    BY DEF CreatedComment, dedup_key
<1>5. ledger' = Append(ledger, c)
    BY <1>3
<1> HIDE DEF c
<1>6. n = Unknown \/ Names(issues, n, run.slice)
    BY <1>1, <1>2 DEF Relies
<1>7. Recorded'
    BY <1>1, <1>4, <1>5, <1>6, RecordAdded
<1>8. Drifts /\ Keyed'
    BY <1>1, IssuesSame DEF Drifts, SettleInv, Keyed
<1>9. events' = run.since => Settles(r)
  <2> SUFFICES ASSUME events' = run.since PROVE Settles(r)
      OBVIOUS
  <2>1. run.slice # <<>> /\ ~(run.since < events)
      BY <1>1, <1>2 DEF Relies
  <2>2. CASE selected_entry_keys(run.slice) \cap allow = {}
      BY <1>1, <2>1, <2>2 DEF Settles
  <2>3. ASSUME NEW i \in DOMAIN issues, Names(issues, i, run.slice), issues[i].open
        PROVE  Settles(r)
      BY <1>1, <2>1, <2>3, FoundSettles DEF Names
  <2> QED BY <1>1, <1>2, <2>1, <2>2, <2>3 DEF Relies
<1> QED BY <1>1, <1>2, <1>7, <1>8, <1>9, RunEnds

LEMMA CreateIssueSettles ==
    ASSUME SettleInv, SlicerInv', NEW r \in Runners, NEW printed \in BOOLEAN, NEW late \in BOOLEAN,
           CreateIssue(r, printed, late)
    PROVE  SettleInv' /\ SettleStep
<1> DEFINE run == runs[r]
           n == Len(issues) + 1
           new == Issue(dedup_key(run.slice), TRUE)
           todo == {IF printed THEN n ELSE Unknown}
           x == Popped(run, "record", todo)
<1>1. run.pc = "create" /\ UNCHANGED <<allow, ledger>>
    BY DEF CreateIssue, debt
<1>2. IsRun(run) /\ Active(r) /\ Relies(run, allow, issues, events)
    BY <1>1, ActiveRelies
<1>3. runs' = [runs EXCEPT ![r] = x] /\ issues' = Append(issues, new)
    BY DEF CreateIssue, Popped
<1>4. Carries(x, run) /\ x.pc = "record" /\ x.todo = todo
  <2> HIDE DEF todo
  <2> QED BY <1>2, RunPops
<1>5. \A k \in todo : k = n \/ k = Unknown
    OBVIOUS
<1>6. new.trusted /\ new.open /\ new.key = run.slice /\ new.entries = selected_entry_keys(run.slice)
    BY DEF Issue, dedup_key
<1> HIDE DEF x, new, todo
<1>7. /\ n \in DOMAIN issues' /\ issues'[n] = new
      /\ \A i \in DOMAIN issues : i \in DOMAIN issues' /\ issues'[i] = issues[i]
      /\ \A i \in DOMAIN issues' : i = n \/ i \in DOMAIN issues
  <2>1. IsSequence(issues)
      BY DEF SettleInv, SlicerInv, Shapes
  <2> QED BY <1>3, <2>1, AppendSequence
<1> HIDE DEF n
<1>8. events' \in Nat /\ events <= events'
    BY DEF CreateIssue, SettleInv
<1>9. Drifts
    BY <1>1, <1>7, <1>8 DEF Drifts, IssuesStay
<1>10. Keyed'
    BY <1>6, <1>7 DEF SettleInv, Keyed
<1>11. Recorded'
    BY <1>1, <1>9, RecordedStays
<1>12. Names(issues', n, run.slice) /\ issues'[n].open
    BY <1>6, <1>7 DEF Names
<1>13. Relies(x, allow', issues', events')
  <2>1. run.slice # <<>> /\ run.since \in Nat /\ run.since <= events'
      BY <1>1, <1>2, <1>8 DEF Relies, SettleInv
  <2> QED BY <1>2, <1>4, <1>5, <1>7, <1>12, <2>1 DEF Relies, Carries
<1> QED BY <1>3, <1>4, <1>9, <1>10, <1>11, <1>13, RunGoesOn

LEMMA CommandSettles ==
    ASSUME SettleInv, SlicerInv', NEW r \in Runners, Command(r) \/ CommandFails(r)
    PROVE  SettleInv' /\ SettleStep
<1>1. CASE RenderFails(r)
  <2>1. UNCHANGED <<allow, ledger, issues, events>> /\ Done(r) /\ runs[r].pc = "create"
      BY <1>1 DEF RenderFails, debt
  <2>2. Active(r) /\ runs[r].slice # <<>>
      BY <2>1, ActiveRelies DEF Relies
  <2> QED BY <1>1, <2>1, <2>2, ReadDrifts, RunEnds DEF RenderFails
<1>2. CASE CommandFails(r)
  <2>1. Active(r) /\ Done(r) /\ UNCHANGED <<allow, ledger, issues>> /\ events' = events + 1
      BY <1>2 DEF CommandFails, debt
  <2>2. Drifts
      BY <2>1, IssuesSame DEF Drifts, SettleInv
  <2>3. events' # runs[r].since
      BY <2>1 DEF SettleInv, RunsRely, Relies
  <2>4. Keyed' /\ Recorded'
      BY <2>1, <2>2, RecordedStays DEF SettleInv, Keyed
  <2> QED BY <2>1, <2>2, <2>3, <2>4, RunEnds
<1> QED
    BY <1>1, <1>2, ViewParentSettles, CloseParentSettles, ViewLedgerIssueSettles,
       SearchSlicesSettles, SearchExactSettles, CommentIntentSettles, CreateIssueSettles,
       CommentCreatedSettles DEF Command

(* Steps of everyone else that leave the ledger and the issues.            *)
LEMMA DebtSettles ==
    ASSUME SettleInv, SlicerInv', UNCHANGED <<runs, ledger, issues>>, allow' \subseteq allow,
           events' \in {events, events + 1}
    PROVE  SettleInv' /\ SettleStep
<1>1. Drifts
    BY IssuesSame DEF Drifts, SettleInv
<1> QED BY <1>1, RecordedStays, NoRunSettles DEF SettleInv, Keyed

LEMMA CloseIssueSettles ==
    ASSUME SettleInv, SlicerInv', NEW i \in DOMAIN issues, CloseIssue(i)
    PROVE  SettleInv' /\ SettleStep
<1>1. /\ UNCHANGED <<allow, runs, ledger>>
      /\ events' = IF issues[i].entries \cap allow = {} /\ ~issues[i].legacy
                   THEN events ELSE events + 1
      /\ issues' = [issues EXCEPT ![i].open = FALSE]
    BY DEF CloseIssue, debt, tool
<1>2. IsSequence(issues) /\ \A k \in DOMAIN issues : IsIssue(issues[k])
    BY DEF SettleInv, SlicerInv, Shapes
<1> DEFINE x == [issues[i] EXCEPT !.open = FALSE]
<1>3. issues' = [k \in DOMAIN issues |-> IF k = i THEN x ELSE issues[k]]
  <2>1. issues = [k \in DOMAIN issues |-> issues[k]]
      BY <1>2 DEF IsSequence
  <2> QED BY <1>1, <2>1
<1>4. /\ x.trusted = issues[i].trusted /\ x.legacy = issues[i].legacy
      /\ x.key = issues[i].key /\ x.entries = issues[i].entries
  <2> DEFINE y == issues[i]
  <2>1. x = [y EXCEPT !.open = FALSE] /\ IsIssue(y)
      BY <1>2
  <2> HIDE DEF x, y
  <2>2. x = [key |-> y.key, entries |-> y.entries, legacy |-> y.legacy,
             trusted |-> y.trusted, open |-> FALSE]
      BY <2>1 DEF IsIssue
  <2> QED BY <2>2 DEF y
<1> HIDE DEF x
<1>5. IssuesStay
  <2> SUFFICES ASSUME NEW k \in DOMAIN issues
               PROVE  /\ k \in DOMAIN issues'
                      /\ issues'[k].trusted = issues[k].trusted
                      /\ issues'[k].legacy = issues[k].legacy
                      /\ issues'[k].key = issues[k].key /\ issues'[k].entries = issues[k].entries
                      /\ issues[k].open /\ ~issues'[k].open =>
                            events < events' \/ issues[k].entries \cap allow = {}
      BY DEF IssuesStay
  <2>1. CASE k # i
      BY <1>3, <2>1
  <2>2. CASE k = i
    <3>1. events < events' \/ issues[i].entries \cap allow = {}
        BY <1>1 DEF SettleInv
    <3> QED BY <1>3, <1>4, <2>2, <3>1
  <2> QED BY <2>1, <2>2
<1>6. Drifts
    BY <1>1, <1>5 DEF Drifts, SettleInv
<1>7. Keyed'
    BY <1>3, <1>4 DEF SettleInv, Keyed
<1> QED BY <1>1, <1>6, <1>7, RecordedStays, NoRunSettles

LEMMA AgeLedgerSettles ==
    ASSUME SettleInv, SlicerInv', AgeLedger
    PROVE  SettleInv' /\ SettleStep
<1>1. /\ UNCHANGED <<allow, runs, issues, events>>
      /\ ledger' = [j \in DOMAIN ledger |-> [ledger[j] EXCEPT !.recent = FALSE]]
    BY DEF AgeLedger, debt, tool
<1>2. Drifts /\ Keyed'
    BY <1>1, IssuesSame DEF Drifts, SettleInv, Keyed
<1>3. \A j \in DOMAIN ledger :
          /\ ledger'[j].kind = ledger[j].kind /\ ledger'[j].key = ledger[j].key
          /\ ledger'[j].issue = ledger[j].issue
  <2> SUFFICES ASSUME NEW j \in DOMAIN ledger
               PROVE  /\ ledger'[j].kind = ledger[j].kind /\ ledger'[j].key = ledger[j].key
                      /\ ledger'[j].issue = ledger[j].issue
      OBVIOUS
  <2> DEFINE c == ledger[j]
             d == ledger'[j]
  <2>1. d = [c EXCEPT !.recent = FALSE] /\ IsRecord(c)
      BY <1>1 DEF SettleInv, SlicerInv, Shapes
  <2> HIDE DEF c, d
  <2>2. d = [kind |-> c.kind, key |-> c.key, issue |-> c.issue,
             recent |-> FALSE, trusted |-> c.trusted]
      BY <2>1 DEF IsRecord
  <2> QED BY <2>2 DEF c, d
<1>4. Recorded'
    BY <1>1, <1>3 DEF SettleInv, Recorded
<1> QED BY <1>1, <1>2, <1>4, NoRunSettles

LEMMA OutsiderSettles ==
    ASSUME SettleInv, SlicerInv', Outsider
    PROVE  SettleInv' /\ SettleStep
<1>1. PICK key : /\ \/ issues' = Append(issues, Issue(key, FALSE)) /\ UNCHANGED ledger
                    \/ ledger' = Append(ledger, CreatedComment(key, Unknown, FALSE))
                       /\ UNCHANGED issues
                 /\ UNCHANGED <<runs, allow>> /\ events' = events + 1
    BY DEF Outsider, debt, tool
<1>2. CASE issues' = Append(issues, Issue(key, FALSE)) /\ UNCHANGED ledger
  <2> DEFINE new == Issue(key, FALSE)
  <2>1. new.entries = selected_entry_keys(new.key)
      BY DEF Issue
  <2> HIDE DEF new
  <2>2. issues' = Append(issues, new)
      BY <1>2 DEF new
  <2>3. IsSequence(issues)
      BY DEF SettleInv, SlicerInv, Shapes
  <2>4. /\ \A i \in DOMAIN issues : i \in DOMAIN issues' /\ issues'[i] = issues[i]
        /\ \A i \in DOMAIN issues' : issues'[i] = new \/ i \in DOMAIN issues
      BY <2>2, <2>3, AppendSequence
  <2>5. Drifts
      BY <1>1, <2>4 DEF Drifts, IssuesStay, SettleInv
  <2>6. Keyed'
      BY <2>1, <2>4 DEF SettleInv, Keyed
  <2> QED BY <1>1, <1>2, <2>5, <2>6, RecordedStays, NoRunSettles
<1>3. CASE ledger' = Append(ledger, CreatedComment(key, Unknown, FALSE)) /\ UNCHANGED issues
  <2> DEFINE c == CreatedComment(key, Unknown, FALSE)
  <2>1. c.issue = Unknown
      BY DEF CreatedComment
  <2> HIDE DEF c
  <2>2. ledger' = Append(ledger, c)
      BY <1>3 DEF c
  <2>3. Recorded'
      BY <1>3, <2>1, <2>2, RecordAdded
  <2>4. Drifts /\ Keyed'
      BY <1>1, <1>3, IssuesSame DEF Drifts, SettleInv, Keyed
  <2> QED BY <1>1, <2>3, <2>4, NoRunSettles
<1> QED BY <1>1, <1>2, <1>3

LEMMA SettleInitially ==
    ASSUME Init
    PROVE  SettleInv
<1>1. SlicerInv
    BY SlicerInitially
<1>2. events \in Nat /\ DOMAIN ledger = {}
    BY DEF Init
<1>3. Keyed
  <2>1. CASE issues = <<>>
      BY <2>1 DEF Keyed
  <2>2. CASE issues = <<LegacyIssue>>
    <3> DEFINE x == LegacyIssue
    <3>1. x.legacy
        BY DEF LegacyIssue
    <3> HIDE DEF x
    <3>2. issues = <<x>>
        BY <2>2 DEF x
    <3> QED BY <3>1, <3>2 DEF Keyed
  <2> QED BY <2>1, <2>2 DEF Init
<1>4. \A r \in Runners : ~Active(r)
    BY DEF Init, Active, Idle
<1> QED BY <1>1, <1>2, <1>3, <1>4 DEF SettleInv, Recorded, RunsRely

LEMMA SettleInductive ==
    ASSUME SettleInv, [Next]_vars
    PROVE  SettleInv' /\ [SettleStep]_vars
<1>1. SlicerInv'
    BY SlicerInductive DEF SettleInv
<1>2. CASE UNCHANGED vars
    BY <1>1, <1>2, DebtSettles DEF vars, debt
<1>3. CASE \E r \in Runners, write \in BOOLEAN, size \in SliceSizes : Start(r, write, write, size)
    BY <1>1, <1>3, StartSettles
<1>4. CASE \E r \in Runners : Command(r) \/ CommandFails(r)
    BY <1>1, <1>4, CommandSettles
<1>5. CASE \E e \in Entries : Migrate(e) \/ Prune(e)
  <2>1. /\ UNCHANGED <<runs, ledger, issues>> /\ allow' \subseteq allow
        /\ events' \in {events, events + 1}
      BY <1>5 DEF Migrate, Prune, tool
  <2> QED BY <1>1, <2>1, DebtSettles
<1>6. CASE MoveLines
    BY <1>1, <1>6, DebtSettles DEF MoveLines, tool
<1>7. CASE \E i \in DOMAIN issues : CloseIssue(i)
    BY <1>1, <1>7, CloseIssueSettles
<1>8. CASE \E i \in DOMAIN issues : IndexIssue(i)
    BY <1>1, <1>8, DebtSettles DEF IndexIssue, debt, tool
<1>9. CASE AgeLedger \/ Outsider
    BY <1>1, <1>9, AgeLedgerSettles, OutsiderSettles
<1> QED BY <1>2, <1>3, <1>4, <1>5, <1>6, <1>7, <1>8, <1>9 DEF Next

(* A run with writes on, during which nothing went wrong and whose slice   *)
(* renders, ends with the parent closed or the debt of its slice gone or   *)
(* owned, unless it found a young record without a number; for any number  *)
(* of runners, overlapping or not, and whatever earlier runs left behind.  *)
THEOREM UndisturbedRunsSettle == Spec => RenderedRunsSettle
<1>1. Init => SettleInv
    BY SettleInitially
<1>2. SettleInv /\ [Next]_vars => SettleInv'
    BY SettleInductive
<1>3. SettleInv /\ [Next]_vars =>
          [\A r \in Runners :
              /\ EndsUndisturbed(r)
              /\ runs[r].slice = <<>> \/ ratchet_slice_marker_renders(runs[r].slice)
              => Settles(r)]_vars
    BY SettleInductive DEF SettleStep
<1> QED BY <1>1, <1>2, <1>3, PTL DEF Spec, RenderedRunsSettle

=============================================================================
