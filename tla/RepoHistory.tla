---------------------------- MODULE RepoHistory ----------------------------
(***************************************************************************)
(* Branches of the repository are opened, edited, brought up to date and   *)
(* landed on dev; CI runs the repository gates on the branch against its   *)
(* merge base, and a branch lands when they pass.  Two open branches are   *)
(* checked independently: what lands is the three-way merge of two trees   *)
(* nobody checked together.                                                *)
(*                                                                         *)
(* One gate is in focus in a behaviour; its files, edits and messages come *)
(* from the gate modules.                                                  *)
(***************************************************************************)
EXTENDS RepoScenarios

CONSTANTS
    Branches,   \* open pull requests
    Gates,      \* the gates whose focus is explored
    MaxEdits,   \* edits made on all branches together
    MaxLands    \* landings on dev

ASSUME GatesAssumption == Gates \subseteq AllGates

VARIABLES
    gate,       \* the gate in focus
    log,        \* the commits of dev, each with its tree
    branch,     \* per branch: open, base commit, tree and attestations
    edits       \* edits so far

vars == <<gate, log, branch, edits>>

Dev == log[Len(log)].tree
PrOf(b) == IF b = CHOOSE x \in Branches : TRUE THEN 7 ELSE 8

Toggle(tree, facts) == (tree \ facts) \cup (facts \ tree)

\* git's three-way merge, line by line.
Merge(base, ours, theirs) == (theirs \ (base \ ours)) \cup (ours \ base)

\* The case CI puts to the gate; target is the tip of dev at that moment.
Case(b, resolved, artifact, rooted) ==
    [base |-> log[branch[b].base].tree, head |-> branch[b].head, target |-> Dev,
     baseId |-> branch[b].base, log |-> SubSeq(log, 1, branch[b].base), att |-> branch[b].att,
     resolved |-> resolved, artifact |-> artifact, rooted |-> rooted]

\* The gate on dev itself.
DevCase ==
    [base |-> Dev, head |-> Dev, target |-> Dev, baseId |-> Len(log), log |-> log, att |-> {},
     resolved |-> TRUE, artifact |-> "written", rooted |-> gate = "trace"]

(***************************************************************************)
(* The machine.                                                            *)
(***************************************************************************)

Closed == [open |-> FALSE, base |-> 1, head |-> {}, att |-> {}]

Init ==
    /\ gate \in Gates
    /\ log = <<[pr |-> 0, numbered |-> FALSE, added |-> {}, raced |-> FALSE, deferred |-> FALSE,
              tree |-> StartTree(gate)]>>
    /\ branch = [b \in Branches |-> Closed]
    /\ edits = 0

Open(b) ==
    /\ ~branch[b].open
    /\ Len(log) <= MaxLands
    /\ branch' = [branch EXCEPT ![b] = [open |-> TRUE, base |-> Len(log), head |-> Dev, att |-> {}]]
    /\ UNCHANGED <<gate, log, edits>>

Rewrite(b, tree) ==
    /\ branch[b].open
    /\ edits < MaxEdits
    /\ tree # branch[b].head
    /\ branch' = [branch EXCEPT ![b].head = tree]
    /\ edits' = edits + 1
    /\ UNCHANGED <<gate, log>>

Edit(b) == \E facts \in Edits(gate) : Rewrite(b, Toggle(branch[b].head, facts))

\* The author lists and writes the manifest of the branch as it is.
SignManifest(b) ==
    /\ gate \in {"replay", "anomaly"}
    /\ LET file == ManifestOf(PrOf(b))
           tree == {f \in branch[b].head : f[1] # file} \cup {<<Allowlist, file>>}
           m == manifest(PrOf(b), branch[b].base, log[branch[b].base].tree, tree,
                         {a[2] : a \in TransportAtoms \cap branch[b].head})
       IN Rewrite(b, tree \cup {<<file, m>>})

\* A manifest that another pull request's branch carries along.
DropManifest(b) ==
    /\ gate \in {"replay", "anomaly"}
    /\ \E file \in Manifests \cap Files(branch[b].head) :
           Rewrite(b, {f \in branch[b].head : f[1] # file} \ {<<Allowlist, file>>})

FixArtifactHash(b) ==
    /\ gate = "lifecycle"
    /\ branch[b].open
    /\ branch' = [branch EXCEPT ![b].head = normalize_artifact_sha256(branch[b].head)]
    /\ branch' # branch
    /\ UNCHANGED <<gate, log, edits>>

Attest(b) ==
    /\ gate = "replay"
    /\ branch[b].open /\ branch[b].att = {}
    /\ ManifestOf(PrOf(b)) \in ValidManifests(branch[b].head)
    /\ LET m == ManifestIn(branch[b].head, ManifestOf(PrOf(b)))
       IN branch' = [branch EXCEPT ![b].att =
            {[pr |-> PrOf(b), approved |-> TRUE, manifest |-> m, base |-> m.base,
              head |-> branch[b].head, tree |-> semantic_tree_sha256(branch[b].head)]}]
    /\ UNCHANGED <<gate, log, edits>>

Update(b) ==
    /\ branch[b].open
    /\ branch[b].base # Len(log)
    /\ branch' = [branch EXCEPT ![b].base = Len(log),
                                ![b].head = Merge(log[branch[b].base].tree, Dev, @)]
    /\ UNCHANGED <<gate, log, edits>>

\* --write-current-uncovered.
WriteBaseline(b) ==
    /\ gate = "coverage"
    /\ Rewrite(b, write_current_uncovered(branch[b].head))

\* CI passes the branch and it is merged into dev as dev is by then.
Land(b) ==
    /\ branch[b].open
    /\ branch[b].head # log[branch[b].base].tree
    /\ Len(log) <= MaxLands
    /\ \E env \in Checkouts, git \in {"ok", "toolchain", "infrastructure"},
          artifact \in IF gate = "coverage" THEN {"none", "missing", "written"} ELSE {"none"},
          rooted \in IF gate = "trace" THEN BOOLEAN ELSE {FALSE},
          numbered \in IF gate = "replay" THEN BOOLEAN ELSE {TRUE} :
        /\ exit_code(Messages(gate, Case(b, Resolved(gate, env), artifact, rooted)), git) = 0
        /\ LET tree == Merge(log[branch[b].base].tree, branch[b].head, Dev)
           IN log' = Append(log,
                [pr |-> PrOf(b), numbered |-> numbered, added |-> Files(tree) \ Files(Dev),
                 raced |-> branch[b].base # Len(log),
                 deferred |-> (gate = "coverage" /\ artifact = "none") \/ (gate = "trace" /\ ~rooted),
                 tree |-> tree])
    /\ branch' = [branch EXCEPT ![b] = Closed]
    /\ UNCHANGED <<gate, edits>>

Next ==
    \E b \in Branches :
        \/ Open(b) \/ Edit(b) \/ SignManifest(b) \/ DropManifest(b) \/ FixArtifactHash(b)
        \/ Attest(b) \/ WriteBaseline(b) \/ Update(b) \/ Land(b)

Spec == Init /\ [][Next]_vars

(***************************************************************************)
(* Properties.                                                             *)
(***************************************************************************)

Raced == \E i \in 1..Len(log) : log[i].raced
Deferred == \E i \in 1..Len(log) : log[i].deferred
Landing == Len(log') > Len(log)

\* The list of each gate that compares it with the base's list.
ListOf ==
    [cycle |-> CycleAllowlist, layering |-> LayeringAllowlist, liveness |-> LivenessAllowlist,
     dialogue |-> DialogueAllowlist, monotone |-> MonotoneAllowlist, truncation |-> TruncationAllowlist,
     handle |-> HandleInventory, dedup |-> DedupAllowlist, login |-> LoginAllowlist,
     coverage |-> CoverageAllowlist, error |-> ErrorAllowlist, suffix |-> SuffixAllowlist,
     surface |-> SurfaceAllowlist, saga |-> SagaAllowlist, hidden |-> HiddenAllowlist, split |-> SplitAllowlist]

\* What the gate finds in a tree.
Debt(g, tree) ==
    CASE g = "cycle" -> cycles_from_graph(dependency_graph(tree))
      [] g = "layering" -> layering_sites(tree)
      [] g = "liveness" -> producer_debt(tree)
      [] g = "dialogue" -> source_surfaces(tree) \cup manifest_surfaces(tree)
      [] g = "monotone" -> source_violations(tree)
      [] g = "truncation" -> truncation_sites(tree)
      [] g = "handle" -> handle_debt(tree)
      [] g = "dedup" -> duplicate_groups(tree)
      [] g = "login" -> login_sites(tree)
      [] g = "coverage" -> uncovered_from_artifact(canonical_coverage_artifact(tree))
      [] g = "error" -> current_sites(tree)
      [] g = "liberror" -> library_sites_for_source(tree)
      [] g = "suffix" -> suffix_sites(tree)
      [] g = "surface" -> exposed_departments(tree)
      [] g = "saga" -> {<<d>> : d \in {x \in DepartmentsOf(tree) : ~is_saga_handler_source(tree, x)}}
      [] g = "hidden" -> {}
      [] g = "split" -> current_leaks(tree)

\* As debt, new is no more than old.
NoMore(g, new, old) ==
    CASE g = "monotone" -> \A v \in new : InBucket(new, canonical_key(v)) <= InBucket(old, canonical_key(v))
      [] g = "coverage" -> \A e \in new :
            Cardinality({x \in new : x[2] = e[2]}) <= Cardinality({x \in old : x[2] = e[2]})
      [] g = "dedup" -> \A e \in new : covered_by_base(e, old)
      [] OTHER -> new \subseteq old

\* The trees dev starts with list no debt that they do not have; the rows of
\* the hidden state are run by the tests and found by no gate.
ASSUME StartAssumption ==
    \A g \in (DOMAIN ListOf) \ {"hidden"} :
        NoMore(g, load_allowlist(StartTree(g), ListOf[g]), Debt(g, StartTree(g)))

\* Every commit of dev has the gate's list and, for coverage, its flag.
GateKept ==
    \A i \in 1..Len(log) :
        /\ gate \in DOMAIN ListOf => ListOf[gate] \in Files(log[i].tree)
        /\ gate = "coverage" => RequiredFlag \in Files(log[i].tree)

\* What passes against its base passes as the base: as long as every branch
\* was up to date when it landed, dev never fails its own gate.  Two
\* branches judged apart may (two halves of a cycle, two copies of a
\* function), and a lifecycle row may outlive its producer by one commit.
DevStaysGreen ==
    Raced \/ Deferred \/ Len(log) = 1 \/ gate = "lifecycle" \/ Messages(gate, DevCase) = {}

\* A landing never adds to a list that all of dev's history has, not even
\* when another branch landed in between; the lists whose entries count or
\* stand for sets of files may then grow back by what the other one took.
AllowlistsShrink ==
    [][(/\ Landing /\ gate \in DOMAIN ListOf /\ GateKept /\ GateKept' /\ ~Deferred'
        /\ Raced' => gate \notin {"coverage", "dedup", "monotone"})
       => NoMore(gate, load_allowlist(Dev', ListOf[gate]), load_allowlist(Dev, ListOf[gate]))]_vars

\* While the list stays on dev and branches land up to date, what the gate
\* finds on dev is never more than what it found at the start.
DebtNeverGrows ==
    (gate \in (DOMAIN ListOf) \cup {"liberror"} /\ GateKept /\ ~Raced /\ ~Deferred)
        => NoMore(gate, Debt(gate, Dev), Debt(gate, log[1].tree))

\* Lines put in that no rule is about, and code that moved with its debt.
NeutralEdits(g, tree) ==
    CASE g = "coverage" -> {{<<CoverageSource, <<2, "-- note">>>>}}
      [] g = "liberror" -> {{<<LibraryErrorFile, <<1, "code">>>>}}
      [] g = "monotone" -> {{<<OldFacts, <<10, Code({})>>>>}}
                \cup {e \in {MoveRequireFact} : e \cap In(OldFacts, Lines(e, OldFacts)) \subseteq tree}
      [] g = "truncation" -> {{<<TruncationFile, <<4, Code({})>>>>}}
      [] OTHER -> {}

\* Debt that only moved is the same debt: the gates that key it by content,
\* by occurrence or by function accept such a branch with its list as it
\* is.  The gates that key debt by line number do not.
MovesAreFree ==
    \A b \in Branches :
        (/\ branch[b].open /\ branch[b].base = Len(log)
         /\ Messages(gate, DevCase) = {}
         /\ \E e \in NeutralEdits(gate, Dev) : branch[b].head = Toggle(Dev, e))
        => Messages(gate, Case(b, TRUE, "written", FALSE)) = {}

\* What a document says of the library's error strings instead: a comment
\* line above a listed one makes its entry stale, so that the branch does not
\* pass with its list as it is (devloop-decouple-endpoint.md:119-122).
CommentsMoveErrors ==
    gate = "liberror" =>
        \A b \in Branches :
            (/\ branch[b].open /\ branch[b].base = Len(log)
             /\ Messages(gate, DevCase) = {} /\ unclassified_error_calls(Dev, LibraryErrorFile) # {}
             /\ branch[b].head = Toggle(Dev, {<<LibraryErrorFile, <<1, "code">>>>}))
            => Messages(gate, Case(b, TRUE, "written", FALSE)) # {}

\* A checker and what it checks change in one landing only as a grant that
\* landed before says, blob by blob.
GrantedCochange ==
    [][(Landing /\ gate = "cochange" /\ ~Raced') =>
        LET changed == changed_paths(Dev, Dev')
            delta == {cochange_delta_entry(Dev, Dev', p) :
                        p \in {x \in changed : checker_control(x) \/ production_semantic(x)}}
        IN (/\ \E p \in changed : checker_control(p)
            /\ \E p \in changed : production_semantic(p))
           => \E g \in Lines(Dev, "grant.json") : g.sealed /\ g.entries = delta]_vars

\* A manifest that is listed on dev for the first time describes the very
\* commit it landed with, after the old authority was gone.
ManifestsDescribe ==
    [][(Landing /\ gate \in {"replay", "anomaly"} /\ ~Raced') =>
        \A f \in Lines(Dev', Allowlist) \ UNION {Lines(log[i].tree, Allowlist) : i \in 1..Len(log)} :
            LET m == ManifestIn(Dev', f)
            IN /\ m.base = Len(log)
               /\ m.tree = {x \in Dev' : x[1] \notin Manifests}
               /\ m.diff = semantic_diff_sha256(Dev, Dev')
               /\ step8_complete(Dev, Dev')]_vars

\* A site leaves the list of the unobserved on dev by being observed.
EvidenceOnLeaving ==
    [][(Landing /\ gate = "lifecycle" /\ ~Raced') =>
        \A s \in Lines(Dev, LifecycleAllowlist) \ Lines(Dev', LifecycleAllowlist) :
            /\ s \in SitesOf(Dev', "enumerated")
            /\ \E o \in Rows(Dev', "observed") : o.site = s /\ o.bad = {}]_vars

\* The tokens the preflight guards in a file, by the tree's own inventory.
AuthorityTokens(tree, file) ==
    AuthorityCall \cup WriterTokens(tree)
        \cup IF file \in ExposedFiles THEN GrantFactory \cup OwnerSeal ELSE {}

\* A line of authority that dev has and an earlier commit lacks came with a
\* commit that watched the file, or for which the line was none of
\* authority yet.  A branch may watch a file, bring the line, and have the
\* file unwatched later, but not without a commit of dev that says so.
AuthorityArrivesWatched ==
    (gate = "exposure" /\ ~Raced) =>
        \A i \in 1..Len(log), file \in SemanticFiles :
            \A line \in Lines(Dev, file) \ Lines(log[i].tree, file) :
                \E k \in (i + 1)..Len(log) :
                    /\ line \in Lines(log[k].tree, file) \ Lines(log[k - 1].tree, file)
                    /\ \/ file \in WatchedFiles(log[k].tree)
                       \/ line \notin AuthorityTokens(log[k].tree, file)

\* The anomaly transport comes to dev whole, even when another branch landed
\* in between.  As long as branches land up to date it also comes in one
\* landing, to a dev that had no part of it, where the old authority is gone.
TransportWhole ==
    [][(Landing /\ gate = "anomaly" /\ {"raise"} \subseteq Lines(Dev', "observe.lua") \ Lines(Dev, "observe.lua")) =>
        /\ TransportAtoms \subseteq Dev'
        /\ ~Raced' => TransportAtoms \cap Dev = {} /\ OldAuthority \cap Dev' = {}]_vars

\* The cycles found are the cycles there are: the sets of modules that can
\* be put in a ring of requires.
CyclesAreCycles ==
    gate = "cycle" =>
        \A b \in Branches :
            LET graph == dependency_graph(branch[b].head)
                Rings(S) == {r \in [1..Cardinality(S) -> S] :
                    /\ \A x \in S : \E i \in DOMAIN r : r[i] = x
                    /\ \A i \in DOMAIN r : r[(i % Cardinality(S)) + 1] \in graph[r[i]]}
            IN cycles_from_graph(graph) =
                   {Sorted(S) : S \in {x \in (SUBSET DOMAIN graph) \ {{}} : Rings(x) # {}}}

\* Imports of forge other than those the gate exempts by name, one that was
\* split off and the sanctioned ones: these may come and go.
CountedImports(imports) == imports \ (SplitImports \cup SanctionedImports)

\* A file of devloop comes to import a module of forge, whichever it is, only
\* when more files stop importing it; the exempt imports apart.
ForgeImportsShrink ==
    [][(Landing /\ gate = "forge" /\ ~Raced') =>
        LET now == CountedImports(devloop_forge_imports(Dev'))
            was == CountedImports(devloop_forge_imports(Dev))
        IN \A i \in now \ was : ImportCount(now, i[2]) < ImportCount(was, i[2])]_vars

\* Of the packages a composition loads, at most one takes candidates from
\* the queue: in every topology the manifest allows, and in any set of
\* packages the topology assertion accepts.
OneCandidateReader ==
    (gate = "intake" /\ ~Raced) =>
        LET readers == candidate_consumers(Dev)
        IN /\ \A excluded \in legal_topologies(Dev) : Cardinality(readers \ excluded) <= 1
           /\ \A loaded \in SUBSET (readers \cup {l[2] : l \in Lines(Dev, "policy_slots.json")}) :
                topology_exclusivity_messages(Dev, loaded) = {} => Cardinality(readers \cap loaded) <= 1

\* What the login gate lets pass uses a name whose value, by Lua's scopes,
\* is the canonical login, unless a loop earlier in the file declares one of
\* the names: the tracker opens a scope for the loop and binds nothing in it.
CanonicalIsCanonical ==
    gate = "login" =>
        \A b \in Branches :
            LET src == Source(branch[b].head, LoginFile)
            IN \A j \in DOMAIN src :
                   PassesAsCanonical(src, j) /\ NoLoopVariable(src, j) => CanonicalAt(src, j)

=============================================================================
