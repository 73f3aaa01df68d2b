---------------------------- MODULE RatchetGates ----------------------------
(***************************************************************************)
(* The gates over single lines and files: uncovered lines, error strings,  *)
(* version suffixes, departments, the split of the issue and the pull      *)
(* request saga, and the shape of the tests; and the command that runs the *)
(* gates (check_repo.py, check_repo_runner.py).                            *)
(*                                                                         *)
(* Beside base and head a case has the tip of the target branch and what   *)
(* the coverage run left: no artifact, a path without a file, or the       *)
(* artifact of the branch.                                                 *)
(***************************************************************************)
EXTENDS RatchetBase

(***************************************************************************)
(* Uncovered lines (check_repo_coverage.py).  A line of the source is      *)
(* <<position, text>>; a line of the tests is a position they reach.       *)
(***************************************************************************)

CoverageAllowlist == "coverage-uncovered.allowlist"
RequiredFlag == "coverage-uncovered.required"
CoverageSource == "packages/core.lua"
CoverageTests == {"packages/core_test.lua", "packages/peer_test.lua"}
NotExecutable == {"end", "function f()", "-- note"}

\* An unsafe name is no ref; an override need not resolve to be chosen.
coverage_base_ref(env) ==
    IF env.coverage_ref # "" THEN {env.coverage_ref}
    ELSE IF env.github_base # ""
    THEN {IF "origin/" \o env.github_base \in env.resolves
          THEN "origin/" \o env.github_base ELSE env.github_base}
    ELSE FirstResolved(<<"origin/integration", "integration">>, env)

candidate_lines(tree) == {l \in Lines(tree, CoverageSource) : l[2] \notin NotExecutable}

\* What any package's tests reach is covered for all.
merge_covered_sets(tree) ==
    {l \in Lines(tree, CoverageSource) : l[1] \in UNION {Lines(tree, t) : t \in CoverageTests}}

\* One entry per executable line: its number, its text's hash, covered.
canonical_coverage_artifact(tree) ==
    {[line |-> LineNumber(tree, CoverageSource, l), hash |-> l[2],
      covered |-> l \in merge_covered_sets(tree)] : l \in candidate_lines(tree)}

uncovered_from_artifact(artifact) ==
    {<<e.line, e.hash>> : e \in {x \in artifact : ~x.covered}}

\* Mutant: the line number is part of the key.
MutantPositionKey(entry) == entry

\* The line number is written down and not compared.
content_key(entry) == entry[2]

\* Of each content, as many as its keys say.
ContentCount(entries, key) == Cardinality({e \in entries : content_key(e) = key})

\* Mutant: a content that is listed once covers any number of its lines.
MutantExceedsBySet(many, few) ==
    {content_key(e) : e \in many} \ {content_key(e) : e \in few}

Exceeds(many, few) ==
    {k \in {content_key(e) : e \in many} : ContentCount(many, k) > ContentCount(few, k)}

\* A list at the base counts only if the gate was required there.
coverage_base_status(c) ==
    IF c.resolved /\ RequiredFlag \notin Files(c.base) THEN "absent"
    ELSE base_status(c, CoverageAllowlist)

coverage_ratchet(uncovered, c) ==
    LET listed == load_allowlist(c.head, CoverageAllowlist)
    IN {"uncovered line" : k \in Exceeds(uncovered, listed)}
       \cup IF coverage_base_status(c) # "present" THEN {}
            ELSE {"allowlist grows" : k \in Exceeds(listed, load_allowlist(c.base, CoverageAllowlist))}

\* Without the flag the gate only warns; with it, and without an artifact,
\* it is put off; entries that are no longer needed are warned about.
coverage_messages(c) ==
    IF RequiredFlag \notin Files(c.head) \/ c.artifact = "none" THEN {}
    ELSE IF c.artifact = "missing" THEN {"no such artifact"}
    ELSE (IF coverage_base_status(c) = "unresolved" THEN {ConfigurationFailure} ELSE {})
         \cup coverage_ratchet(uncovered_from_artifact(canonical_coverage_artifact(c.head)), c)

\* --write-current-uncovered replaces the list by what is uncovered now.
write_current_uncovered(tree) ==
    {f \in tree : f[1] # CoverageAllowlist} \cup {<<CoverageAllowlist, Header>>}
        \cup {<<CoverageAllowlist, u>> : u \in uncovered_from_artifact(canonical_coverage_artifact(tree))}

(***************************************************************************)
(* Error strings without a class (check_repo_error_class.py).  A text is   *)
(* the message of an error call, or code.                                  *)
(***************************************************************************)

ErrorAllowlist == "error-class.allowlist"
LibraryErrorAllowlist == "library-error-class.allowlist"
PackageErrorFile == "packages/loop.lua"
LibraryErrorFile == "libraries/contract.lua"
Unclassified == {"boom", "bust"}

unclassified_error_calls(tree, file) == {l \in Lines(tree, file) : l[2] \in Unclassified}

\* Package debt is a line number: it moves when code above it moves.
current_sites(tree) ==
    {<<ToString(LineNumber(tree, PackageErrorFile, l))>> : l \in unclassified_error_calls(tree, PackageErrorFile)}

\* Entries nothing needs any more are not reported.
error_class_messages(c) ==
    base_messages(c, ErrorAllowlist)
    \cup (ratchet_messages(current_sites(c.head), load_allowlist(c.head, ErrorAllowlist),
                           grown(c, ErrorAllowlist)) \ {"stale entry"})

\* Library debt is a message and which of its occurrences it is.
library_sites_for_source(tree) ==
    LET calls == unclassified_error_calls(tree, LibraryErrorFile)
    IN {<<l[2], ToString(Cardinality({x \in calls : x[2] = l[2] /\ x[1] <= l[1]}))>> : l \in calls}

\* The tip of the target, not the merge base: files the tip and the branch
\* have in common are not read again.
target_library_sites(c) ==
    IF Lines(c.head, LibraryErrorFile) = Lines(c.target, LibraryErrorFile)
    THEN library_sites_for_source(c.head) ELSE library_sites_for_source(c.target)

\* With a target the list plays no part.
library_error_messages(c) ==
    LET current == library_sites_for_source(c.head)
    IN IF c.resolved
       THEN {"new to the target" : s \in current \ target_library_sites(c)}
       ELSE {ConfigurationFailure}
            \cup {"not listed" : s \in current \ load_allowlist(c.head, LibraryErrorAllowlist)}

(***************************************************************************)
(* Version suffixes built or parsed by hand (check_repo_version_suffix.py).*)
(***************************************************************************)

SuffixAllowlist == "version-suffix.allowlist"
SuffixFiles == {"libraries/rounds.lua", "libraries/transition_version.lua"}
SanctionedPath == "libraries/transition_version.lua"
SuffixTexts == {"base .. '/loop/' .. n", "match('/loop/(%d+)')"}

\* A line that builds and a line that parses have the same kind of key.
suffix_sites(tree) ==
    UNION {{<<f, ToString(LineNumber(tree, f, l))>> : l \in {x \in Lines(tree, f) : x[2] \in SuffixTexts}} :
              f \in SuffixFiles \ {SanctionedPath}}

version_suffix_messages(c) == shrink_only(suffix_sites(c.head), c, SuffixAllowlist)

(***************************************************************************)
(* Departments: what shows when one fails                                  *)
(* (check_repo_dept_failure_surface.py), the free-form ones                *)
(* (check_repo_saga_handler.py) and the poll conformance                   *)
(* (check_repo_hidden_state.py).  A line is a token of its source.         *)
(***************************************************************************)

SurfaceAllowlist == "dept-failure-surface.allowlist"
SagaAllowlist == "saga-handler.allowlist"
HiddenAllowlist == "hidden-state.allowlist"
DepartmentFiles == {"loop.start", "loop.stop", "loop.dead_letter"}
Conformance == "libraries/hidden_state_conformance.lua"
HiddenInstallers == {"github-devloop/core.lua"}
RequiredTokens == {"behavioral_errors"}
ForbiddenTokens == {"safe_entity_view"}
ReplayerGuard == "libraries/replayer_hidden_state.lua"

DepartmentsOf(tree) == DepartmentFiles \cap Files(tree)

is_structurally_exempt(dept) == dept = "loop.dead_letter"

has_failure_surface(tree, dept) == Lines(tree, dept) \cap {"retry", "wrap_pipeline_failure"} # {}

exposed_departments(tree) ==
    {<<d>> : d \in {x \in DepartmentsOf(tree) : ~is_structurally_exempt(x) /\ ~has_failure_surface(tree, x)}}

surface_messages(c) == shrink_only(exposed_departments(c.head), c, SurfaceAllowlist)

is_saga_handler_source(tree, dept) == "saga.department" \in Lines(tree, dept)

saga_handler_messages(c) ==
    LET saga == {<<d>> : d \in {x \in DepartmentsOf(c.head) : is_saga_handler_source(c.head, x)}}
        all == {<<d>> : d \in DepartmentsOf(c.head)}
        listed == load_allowlist(c.head, SagaAllowlist)
    IN base_messages(c, SagaAllowlist)
       \cup {"saga still listed" : d \in saga \cap listed}
       \cup {"saga with own pipeline" : d \in {x \in saga : "pipeline" \in Lines(c.head, x[1])}}
       \cup {"free-form not listed" : d \in (all \ saga) \ listed}
       \cup {"listed and missing" : d \in listed \ all}
       \cup {"allowlist grows" : d \in grown(c, SagaAllowlist)}

\* Only growth is looked at here: the rows themselves are run by the tests.
hidden_state_messages(c) ==
    (IF Conformance \notin Files(c.head) THEN {"conformance missing"}
     ELSE {"required token" : t \in RequiredTokens \ Lines(c.head, Conformance)}
          \cup {"forbidden token" : t \in ForbiddenTokens \cap Lines(c.head, Conformance)})
    \cup {"not installed" : f \in {x \in HiddenInstallers : "hidden_state_conformance" \notin Lines(c.head, x)}}
    \cup (IF ReplayerGuard \in Files(c.head) THEN {"rejected machinery"} ELSE {})
    \cup base_messages(c, HiddenAllowlist)
    \cup {"allowlist grows" : r \in grown(c, HiddenAllowlist)}

(***************************************************************************)
(* The split of the issue and the pull request saga                        *)
(* (check_repo_saga_split.py).  The manifest's lines are <<file, owner>>.  *)
(***************************************************************************)

SplitManifest == "saga-split.inventory"
SplitAllowlist == "saga-split-authority.allowlist"
SplitFiles == {"loop/merge.lua", "pr_delegation.lua"}
Owners == {"issue", "pr", "shared"}
PrPhases == {"pr-open", "reviewing"}
SeedFile == "pr_delegation.lua"

split_manifest_messages(tree) ==
    LET present == SplitFiles \cap Files(tree)
        entries == Lines(tree, SplitManifest)
    IN {"owner" : e \in {x \in entries : x[2] \notin Owners}}
       \cup {"missing entry" : f \in present \ {e[1] : e \in entries}}
       \cup {"stale entry" : f \in {e[1] : e \in entries} \ present}
       \cup {"duplicate entry" : e \in {x \in entries : \E y \in entries : y # x /\ y[1] = x[1]}}

\* Files of an owner other than the pull request package.  A file with two
\* entries has its first one's owner, and is refused anyway.
ScannedFiles(tree) ==
    {e[1] : e \in {x \in Lines(tree, SplitManifest) : x[2] # "pr"}} \cap SplitFiles

\* The one seed of a pull request's state an issue department may write.
is_allowed_seed(tree, file, state) ==
    /\ file = SeedFile
    /\ state = "pr-open"
    /\ "pr_origin_marker" \in {l[2] : l \in Lines(tree, file)}

\* A pull request's phase written, or its state read, outside its package.
source_leaks(tree, file) ==
    {<<file, l[2], ToString(LineNumber(tree, file, l))>> :
        l \in {x \in Lines(tree, file) :
            \/ x[2] \in PrPhases /\ ~is_allowed_seed(tree, file, x[2])
            \/ x[2] = "linked_entity_snapshot"}}

current_leaks(tree) ==
    UNION {source_leaks(tree, f) : f \in ScannedFiles(tree)}

\* The states the contract and the issue package name are the same.
issue_state_contract_messages(tree) ==
    IF Lines(tree, "pr_partition_contract.lua") = Lines(tree, "restart_lifecycle_states")
    THEN {} ELSE {"state contract mismatch"}

saga_split_messages(c) ==
    split_manifest_messages(c.head) \cup issue_state_contract_messages(c.head)
    \cup shrink_only(current_leaks(c.head), c, SplitAllowlist)

(***************************************************************************)
(* The shape of the tests (check_repo.py).  A line of a test file is       *)
(* <<position, what, name>>: what is test, requires or body.               *)
(***************************************************************************)

LineLimit == 3
TestFiles == {"run_test"}
HelperFiles == {"data_helpers", "queue_helpers"}

NamesIn(tree, file, what) == {l[3] : l \in {x \in Lines(tree, file) : x[2] = what}}

check_line_limit(tree) ==
    {"too long" : f \in {x \in TestFiles \cup HelperFiles : Cardinality(Lines(tree, x)) > LineLimit}}

check_test_shape(tree) ==
    {"duplicate test" : f \in {x \in TestFiles : \E l, m \in Lines(tree, x) :
        l # m /\ l[2] = "test" /\ m[2] = "test" /\ l[3] = m[3]}}
    \cup {"test in helper" : f \in {x \in HelperFiles : NamesIn(tree, x, "test") # {}}}

\* What the tests require, what that requires, and so on.
reachable(tree) ==
    LET files == (TestFiles \cup HelperFiles) \cap Files(tree)
        reach[k \in 0..Cardinality(files)] ==
            IF k = 0 THEN TestFiles \cap files
            ELSE reach[k - 1] \cup (files \cap UNION {NamesIn(tree, f, "requires") : f \in reach[k - 1]})
    IN reach[Cardinality(files)]

check_helper_reachability(tree) ==
    LET files == (TestFiles \cup HelperFiles) \cap Files(tree)
        required == UNION {NamesIn(tree, f, "requires") : f \in files}
    IN {"required file missing" : f \in required \ files}
       \cup {"test required" : f \in required \cap files \cap TestFiles}
       \cup {"unreachable helper" : f \in (HelperFiles \cap files) \ reachable(tree)}

test_messages(c) ==
    check_line_limit(c.head) \cup check_test_shape(c.head) \cup check_helper_reachability(c.head)

(***************************************************************************)
(* The command.  git: ok, or the class of its failure.                     *)
(***************************************************************************)

exit_code(messages, git) ==
    IF git = "toolchain" THEN 12
    ELSE IF git # "ok" THEN 13
    ELSE IF messages \ {ConfigurationFailure} # {} THEN 10
    ELSE IF messages # {} THEN 11 ELSE 0

=============================================================================
