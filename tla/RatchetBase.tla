---------------------------- MODULE RatchetBase ----------------------------
(***************************************************************************)
(* What the repository's gates are built on: trees, the base a branch is   *)
(* judged against (ratchet_base.py, check_repo_config.py) and the          *)
(* shrink-only comparison of found debt, listed debt and the base's list.  *)
(*                                                                         *)
(* A tree is the set of its lines, pairs <<file, line>>; the set of a      *)
(* file's lines stands for its content and for its hash.  A gate is a      *)
(* function from the case it is run on to the set of its messages; a case  *)
(* has the trees of the base and of the branch and says whether the        *)
(* checkout has the ref that names the base.                               *)
(***************************************************************************)
EXTENDS Integers, FiniteSets, Sequences, FiniteSetsExt, SequencesExt

ConfigurationFailure == "configuration failure"

Lines(tree, file) == {fact[2] : fact \in {f \in tree : f[1] = file}}

Files(tree) == {fact[1] : fact \in tree}

changed_paths(base, head) ==
    {f \in Files(base) \cup Files(head) : Lines(base, f) # Lines(head, f)}

(***************************************************************************)
(* Which ref names the base.  env has the variables the resolvers read,    *)
(* "" when unset, and the refs that resolve to a commit.                   *)
(***************************************************************************)

\* The first of the refs that resolves, as a set of at most one.
FirstResolved(refs, env) ==
    LET found == {i \in DOMAIN refs : refs[i] \in env.resolves}
    IN IF found = {} THEN {} ELSE {refs[Min(found)]}

\* An override that does not resolve falls through to dev.
resolve_dev_ref(env) ==
    FirstResolved(<<env.dev_ref, "origin/dev", "dev">>, env)

resolve_branch_ref(branch, env) ==
    FirstResolved(<<"origin/" \o branch, branch>>, env)

\* The target of the pull request: here what was asked for is the only
\* candidate, and dev stands in only when nothing was asked for.
resolve_target_ref(env) ==
    IF env.target_ref # "" THEN FirstResolved(<<env.target_ref>>, env)
    ELSE IF env.github_base # "" THEN resolve_branch_ref(env.github_base, env)
    ELSE IF env.push_before # "" THEN FirstResolved(<<env.push_before>>, env)
    ELSE IF env.integration # "" THEN resolve_branch_ref(env.integration, env)
    ELSE resolve_dev_ref(env)

(***************************************************************************)
(* Allowlists.  A present but empty list still holds its header line, so   *)
(* that it differs from a list that is not there.                          *)
(***************************************************************************)

Header == <<"#">>

load_allowlist(tree, file) == Lines(tree, file) \ {Header}

\* Mutant: a base that cannot be read counts as one without the list.
MutantUnresolvedIsAbsent(c, file) ==
    IF ~c.resolved \/ file \notin Files(c.base) THEN "absent" ELSE "present"

\* unresolved, absent or present at the merge base.
base_status(c, file) ==
    IF ~c.resolved THEN "unresolved"
    ELSE IF file \notin Files(c.base) THEN "absent" ELSE "present"

\* A base that cannot be read is a failure, never a pass.
base_messages(c, file) ==
    IF base_status(c, file) = "unresolved" THEN {ConfigurationFailure} ELSE {}

\* What the branch lists beyond the base's list, when there is one.
grown(c, file) ==
    IF base_status(c, file) = "present"
    THEN load_allowlist(c.head, file) \ load_allowlist(c.base, file) ELSE {}

ratchet_messages(current, allowlist, growth) ==
    {"new debt" : x \in current \ allowlist}
    \cup {"stale entry" : x \in allowlist \ current}
    \cup {"allowlist grows" : x \in growth}

\* Mutant: new debt is looked for in the base's list when there is one.
MutantDebtAgainstBase(current, c, file) ==
    base_messages(c, file)
    \cup {"new debt" : x \in current \ load_allowlist(
              IF base_status(c, file) = "present" THEN c.base ELSE c.head, file)}
    \cup {"allowlist grows" : x \in grown(c, file)}

\* The shrink-only gate over found keys and their list.
shrink_only(current, c, file) ==
    base_messages(c, file)
    \cup ratchet_messages(current, load_allowlist(c.head, file), grown(c, file))

(***************************************************************************)
(* Source lines in order.  A line of a scanned file is <<position, text>>; *)
(* its number in the file is the count of the lines up to it, so that a    *)
(* line put in above moves every line below.                               *)
(***************************************************************************)

LineNumber(tree, file, line) ==
    Cardinality({l \in Lines(tree, file) : l[1] <= line[1]})

Source(tree, file) ==
    [i \in 1..Cardinality(Lines(tree, file)) |->
        (CHOOSE l \in Lines(tree, file) : LineNumber(tree, file, l) = i)[2]]

=============================================================================
