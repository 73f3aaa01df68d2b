---------------------------- MODULE RepoScenarios ----------------------------
(***************************************************************************)
(* For every gate a small repository it is run on: the tree dev starts     *)
(* with, the edits a branch may make to it (an edit toggles facts: what is *)
(* there goes, what is not comes) and the gate's messages on a case.       *)
(***************************************************************************)
EXTENDS RestartGates, GraphGates, SourceGates, RatchetGates

\* Facts of one file; an allowlist with its header; a line of Lua; its end.
In(file, lines) == {<<file, l>> : l \in lines}
List(file, entries) == In(file, entries \cup {Header})
Line(fn, delta, tok) == [fn |-> fn, delta |-> delta, tok |-> tok]
Fn(name, tok) == Line(name, 1, tok)
Code(tok) == Line(<<>>, 0, tok)
End == Line(<<>>, -1, {})
Event(ev, name, value) == [ev |-> ev, name |-> name, value |-> value]

Row(kind, site) == [kind |-> kind, site |-> site, keys |-> ObservationKeys, bad |-> {}]
Observation(site, bad) == [Row("observed", site) EXCEPT !.bad = bad]
Watch(file) == <<"inventory", Row("watched", file)>>
Writer(token) == <<"inventory", Row("writer", token)>>
Inventory == {Watch("authority.lua"), Writer("transition_status"), Writer("decide_transition")}

CochangeDelta(old, new) ==
    {[path |-> "compare.py", status |-> "M", old_blob |-> {"c0"} \cup old, new_blob |-> {"c0"} \cup new],
     [path |-> "authority.lua", status |-> "M", old_blob |-> {"a0"} \cup old, new_blob |-> {"a0"} \cup new]}

Grant(sealed) == <<"grant.json", [sealed |-> sealed, entries |-> CochangeDelta({}, {"new"})]>>

\* A trace of one transition and what it wrote; the family of merges also
\* records the effects its sinks saw.
Fixture(status, writes) ==
    [id |-> 1, cas_status |-> status, writes |-> writes, granted |-> <<"comment">>, entitled |-> FALSE]
Capture(kind) == [ordinal |-> 1, sink_kind |-> kind, prefix |-> "github.merge", effect_id |-> "e1"]
Trace(fixture, captured) == [shaped |-> TRUE, sealed |-> TRUE, fixtures |-> <<fixture>>, captured |-> captured]
LoopTrace(status) == Trace(Fixture(status, IF status = "stale" THEN <<>> ELSE <<"comment">>), {})
MergeTrace(kind) == Trace(Fixture("apply", <<"comment">>), {<<Capture(kind)>>})
Corpus == {<<OldCorpus.loop, LoopTrace("apply")>>, <<OldCorpus.merge, MergeTrace("merge")>>}

LifecycleSites == {"s1", "s2"}

LifecycleStart ==
    normalize_artifact_sha256(
        In("inventory", {Row(k, s) : k \in {"enumerated", "unobserved"}, s \in LifecycleSites})
        \cup In(LifecycleAllowlist, LifecycleSites) \cup In(Producer, LifecycleSites))

OldFacts == "devloop/replayer.lua"
NewFacts == "devloop/required_facts.lua"
MonotoneDebt == {<<OldFacts, <<"require_marker_fact">>, "current_state(", 2>>}
RequireFact(tok) == {<<20, Fn(<<"require_marker_fact">>, {})>>, <<30, Code(tok)>>, <<50, End>>}

MoveRequireFact == In(OldFacts, RequireFact({"current_state("})) \cup In(NewFacts, RequireFact({"current_state("}))

Helper(x) == <<"fn" \o x, "body">>
Surfaces ==
    {<<"request-producer", "consensus.proposal">>, <<"reply-consumer", "consensus.reached">>,
     <<"origin-filter", "consensus.reached">>, <<"event-dep", "consensus">>}

StartTree(g) ==
    CASE g = "cochange" -> Inventory \cup In("compare.py", {"c0"}) \cup In("authority.lua", {"a0"})
      [] g = "exposure" -> Inventory \cup In("department.lua", {"d0", "owner_seal"})
                                \cup In("authority.lua", {"mint_grant"})
      [] g = "anomaly" -> Inventory \cup In("observe.lua", {"o0"}) \cup In("ops.lua", {"p0"})
                                \cup In("seal.lua", {"body"}) \cup Corpus
      [] g = "replay" -> Corpus \cup In("authority.lua", {"a0"}) \cup In("seal.lua", {"body"})
      [] g = "trace" -> Corpus \cup {<<NewTrace.loop, LoopTrace("apply")>>}
      [] g = "lifecycle" -> LifecycleStart
      [] g = "cycle" -> In("lib.a", {"body", "lib.b"}) \cup In("lib.b", {"body", "lib.a"})
                                \cup In("lib.c", {"body"}) \cup List(CycleAllowlist, {<<"lib.a", "lib.b">>})
      [] g = "layering" -> In(LayeredFile, {<<1, "body">>, <<3, "core">>}) \cup In("libraries", {"contract"})
                                \cup List(LayeringAllowlist, {<<"2", "core", "package-only module">>})
      [] g = "forge" -> In("devloop/base.lua", {"body", "forge.gitref"})
                                \cup In("devloop/misc.lua", {"body", "forge.gitref"})
                                \cup In(Facade, {"body"})
                                \cup List(LegacyInventory, {<<"devloop/base.lua", "std.gitref">>,
                                                            <<"devloop/misc.lua", "std.gitref">>})
      [] g = "integration" -> In("forge/poll", {<<"produces", <<"tick">>>>})
                                \cup In("loop/start", {<<"consumes", <<"forge", "tick">>>>})
                                \cup List(IntegrationAllowlist, {<<"forge", "tick", "loop/start">>})
      [] g = "liveness" -> In("raisers.lua", {<<"loop", "r1", "tick">>, <<"loop", "r2", "tock">>})
                                \cup In("raiser_test.lua", {<<"loop", {"fixture"}, "r1", TRUE>>})
                                \cup In("contracts.lua", {<<"loop", "tick", "fixture">>})
                                \cup List(LivenessAllowlist, {<<"loop", "r2">>})
      [] g = "intake" -> In("policy_slots.json", {<<IntakeSlot, "intake", "t1">>, <<IntakeSlot, "manual", "t2">>})
                                \cup In("departments.lua", {<<"intake", "consumes", "candidate">>,
                                                            <<"manual", "consumes", "candidate">>})
      [] g = "dialogue" -> In(ClientDepartment, {<<"produces", "consensus.proposal">>,
                                                 <<"consumes", "consensus.reached">>, <<"filter", "proposal_id">>})
                                \cup In("loop/fkst.toml", {"consensus"}) \cup List(DialogueAllowlist, Surfaces)
      [] g = "monotone" -> In(OldFacts, RequireFact({"current_state("})) \cup List(MonotoneAllowlist, MonotoneDebt)
                                \cup List(MonotoneManifest, {})
      [] g = "truncation" -> In(TruncationFile, {<<1, Fn(<<"shorten">>, {})>>, <<2, Code({"cut(MAX_BODY)"})>>, <<3, End>>,
                                                 <<5, Fn(<<"ask">>, {})>>, <<7, Code({"codex-prompt"})>>, <<8, End>>})
                                \cup List(TruncationAllowlist, {})
      [] g = "egress" -> In(EgressFile, {<<1, Fn(SanctionedEgress, {"exec_argv{argv}"})>>, <<3, End>>, <<5, End>>})
                                \cup List(EgressInventory, {SanctionedEgress})
      [] g = "handle" -> In(HandleFile, {<<1, Fn(<<"sweep">>, {"github.new"})>>, <<3, End>>})
                                \cup List(HandleInventory, {<<"sweep">>})
      [] g = "lock" -> In(LockFile, {<<2, Line(<<>>, 1, {"with_lock"})>>, <<4, Code({"gh"})>>, <<5, End>>})
                                \cup List(LockAllowlist, {<<"1", "gh">>})
      [] g = "dedup" -> In("a.lua", {Helper("1")}) \cup In("b.lua", {Helper("1")}) \cup In("c.lua", {Helper("1")})
                                \cup List(DedupAllowlist, {<<Helper("1"), DedupFiles>>})
      [] g = "login" -> In(LoginFile, {<<10, Event("local", "subject", "canonical_login()")>>,
                                       <<40, Event("then", "", "")>>, <<70, Event("end", "", "")>>,
                                       <<90, Event("compare", "subject", "")>>})
                                \cup List(LoginAllowlist, {})
      [] g = "coverage" -> In(CoverageSource, {<<1, "function f()">>, <<3, "x = 1">>, <<5, "y()">>, <<6, "y()">>, <<7, "end">>})
                                \cup In("packages/core_test.lua", {3}) \cup {<<RequiredFlag, "">>}
                                \cup List(CoverageAllowlist, {<<3, "y()">>, <<4, "y()">>})
      [] g = "error" -> In(PackageErrorFile, {<<2, "code">>, <<4, "boom">>}) \cup List(ErrorAllowlist, {<<"2">>})
      [] g = "liberror" -> In(LibraryErrorFile, {<<2, "code">>, <<4, "boom">>, <<6, "boom">>})
                                \cup List(LibraryErrorAllowlist, {<<"boom", "1">>, <<"boom", "2">>})
      [] g = "suffix" -> In("libraries/rounds.lua", {<<2, "code">>, <<4, "base .. '/loop/' .. n">>})
                                \cup In(SanctionedPath, {<<1, "base .. '/loop/' .. n">>})
                                \cup List(SuffixAllowlist, {<<"libraries/rounds.lua", "2">>})
      [] g = "surface" -> In("loop.start", {"body"}) \cup In("loop.dead_letter", {"body"})
                                \cup List(SurfaceAllowlist, {<<"loop.start">>})
      [] g = "saga" -> In("loop.start", {"pipeline"}) \cup In("loop.stop", {"saga.department"})
                                \cup List(SagaAllowlist, {<<"loop.start">>})
      [] g = "hidden" -> In(Conformance, RequiredTokens) \cup In("github-devloop/core.lua", {"hidden_state_conformance"})
                                \cup List(HiddenAllowlist, {<<"row1">>})
      [] g = "split" -> In("loop/merge.lua", {<<2, "code">>, <<4, "reviewing">>})
                                \cup In(SeedFile, {<<1, "pr_origin_marker">>, <<3, "pr-open">>})
                                \cup In(SplitManifest, {<<"loop/merge.lua", "issue">>, <<SeedFile, "issue">>})
                                \cup In("pr_partition_contract.lua", {"thinking"})
                                \cup In("restart_lifecycle_states", {"thinking"})
                                \cup List(SplitAllowlist, {<<"loop/merge.lua", "reviewing", "2">>})
      [] g = "tests" -> In("run_test", {<<1, "requires", "data_helpers">>, <<4, "test", "t1">>})
                                \cup In("data_helpers", {<<1, "body", "">>})

MoveToFacade ==
    {<<"devloop/base.lua", "forge.gitref">>, <<"devloop/misc.lua", "forge.gitref">>, <<Facade, "forge.gitref">>}
RenameInventory ==
    In(LegacyInventory, Lines(StartTree("forge"), LegacyInventory)) \cup List(ForgeInventory, {<<Facade, "forge.gitref">>})

\* Toggles of single facts.
Each(facts) == {{f} : f \in facts}

Edits(g) ==
    CASE g = "cochange" -> Each({<<"compare.py", "new">>, <<"authority.lua", "new">>, Grant(TRUE), Grant(FALSE),
                                 <<"semantic_tree.py", "x">>})
                           \cup {{<<"compare.py", "new">>, <<"authority.lua", "new">>}}
      [] g = "exposure" -> Each(In("department.lua", {"mint_grant", "owner_seal", "transition_status", "d1"})
                                \cup {Watch("department.lua"), Writer("transition_status"), Writer("decide_transition"),
                                       <<"authority.lua", "mint_grant">>})
      [] g = "anomaly" -> {TransportAtoms} \cup Each({<<"observe.lua", "raise">>, <<"observe.lua", "dedup_key">>,
                                <<"seal.lua", "body">>, <<"library.lua", "raise">>})
      [] g = "replay" -> Each({<<"authority.lua", "a1">>, <<"seal.lua", "body">>,
                               <<Allowlist, "7.json">>, <<Allowlist, "8.json">>})
      [] g = "trace" -> {{<<f.loop, LoopTrace("apply")>>, <<f.loop, LoopTrace(s)>>} :
                                f \in {OldCorpus, NewTrace}, s \in {"stale", "idempotent"}}
                        \cup Each({<<NewTrace.loop, LoopTrace("apply")>>, <<NewTrace.merge, MergeTrace("merge")>>,
                                   <<NewTrace.merge, MergeTrace("git")>>})
      [] g = "lifecycle" ->
            {{<<LifecycleAllowlist, "s1">>, <<"inventory", Row("unobserved", "s1")>>},
             {<<LifecycleAllowlist, "s3">>, <<"inventory", Row("unobserved", "s3")>>, <<Producer, "s3">>}}
            \cup Each({<<"inventory", Observation("s1", {})>>, <<"inventory", Observation("s1", {"site"})>>,
                       <<Producer, "s1">>, <<"inventory", Row("enumerated", "s1")>>})
      [] g = "cycle" -> Each({<<"lib.b", "lib.c">>, <<"lib.c", "lib.a">>, <<"lib.c", "lib.b">>, <<"lib.c", "lib.c">>,
                              <<CycleAllowlist, <<"lib.a", "lib.b", "lib.c">>>>})
                        \cup {{<<"lib.b", "lib.a">>, <<CycleAllowlist, <<"lib.a", "lib.b">>>>}}
      [] g = "layering" -> Each({<<LayeredFile, <<2, "body">>>>, <<LayeredFile, <<5, "proxy">>>>, <<"libraries", "proxy">>,
                                 <<LayeringAllowlist, <<"3", "proxy", "package namespace">>>>,
                                 <<PeerFile, <<1, "proxy">>>>, <<"fkst.toml", "proxy">>})
                           \cup {{<<LayeredFile, <<3, "core">>>>, <<LayeringAllowlist, <<"2", "core", "package-only module">>>>}}
      [] g = "forge" -> {MoveToFacade \cup RenameInventory, RenameInventory,
                         {<<Facade, "forge.gitref">>, <<ForgeInventory, <<Facade, "forge.gitref">>>>},
                         {<<"devloop/misc.lua", "forge.strings">>, <<ForgeInventory, <<"devloop/misc.lua", "forge.strings">>>>},
                         {<<"devloop/base.lua", "forge.issue">>, <<ForgeInventory, <<"devloop/base.lua", "forge.issue">>>>},
                         {<<"devloop/misc.lua", "forge.check_runs">>}}
      [] g = "integration" -> Each({<<"tests/run_graph.lua", <<"forge", "tick", "loop/start">>>>,
                                    <<IntegrationAllowlist, <<"forge", "tick", "loop/start">>>>,
                                    <<IntegrationExclusions, <<"forge", "tick", "ops/census">>>>,
                                    <<"ops/census", <<"consumes", <<"forge", "tick">>>>>>,
                                    <<"ops/census", <<"produces", <<"forge", "tick">>>>>>})
      [] g = "liveness" -> Each({<<"raiser_test.lua", <<"loop", {"other"}, "r2", TRUE>>>>,
                                 <<"raiser_test.lua", <<"loop", {"fixture"}, "r2", FALSE>>>>,
                                 <<"raiser_test.lua", <<"loop", {"fixture"}, "r1", TRUE>>>>,
                                 <<"raisers.lua", <<"loop", "r3", "tick">>>>,
                                 <<LivenessAllowlist, <<"loop", "r2">>>>, <<LivenessAllowlist, <<"loop", "r3">>>>})
      [] g = "intake" -> {In("policy_slots.json", {<<"board", "intake", "t3">>, <<"board", "chart", "t4">>})}
                         \cup Each({<<"policy_slots.json", <<IntakeSlot, "third", "t5">>>>,
                                    <<"departments.lua", <<"third", "consumes", "candidate">>>>,
                                    <<"departments.lua", <<"manual", "consumes", "candidate">>>>,
                                    <<"departments.lua", <<"intake", "produces", "ready">>>>,
                                    <<"intake.lua", "issue_list">>})
      [] g = "dialogue" -> {{<<ClientDepartment, <<"filter", "proposal_id">>>>,
                             <<DialogueAllowlist, <<"origin-filter", "consensus.reached">>>>}}
                           \cup Each({<<ClientDepartment, <<"consumes", "consensus.converge">>>>,
                                      <<ClientDepartment, <<"consumes", "tick">>>>, <<ClientDepartment, <<"compares", "tick">>>>,
                                      <<DialogueAllowlist, <<"reply-consumer", "consensus.converge">>>>})
      [] g = "monotone" -> {MoveRequireFact} \cup Each({<<OldFacts, <<10, Code({})>>>>, <<OldFacts, <<40, Code({"current_state("})>>>>,
                                      <<MonotoneAllowlist, <<OldFacts, <<"require_marker_fact">>, "current_state(", 3>>>>,
                                      <<MonotoneManifest, <<OldFacts, <<"require_marker_fact">>, "reached(">>>>,
                                      <<Responsibilities, <<NewFacts, <<"M", "require_marker_fact">>, "reached(">>>>})
                           \cup {{<<OldFacts, <<30, Code({"current_state("})>>>>, <<OldFacts, <<35, Code({"reached("})>>>>}
                                 \cup In(MonotoneAllowlist, MonotoneDebt)}
      [] g = "truncation" -> Each({<<TruncationFile, <<6, Code({"shorten"})>>>>, <<TruncationFile, <<4, Code({})>>>>,
                                   <<TruncationFile, <<2, Code({"cut(MAX_BODY)"})>>>>,
                                   <<TruncationAllowlist, <<"shorten", "codex-prompt">>>>, <<TruncationAllowlist, Header>>})
      [] g = "egress" -> Each({<<EgressFile, <<4, Fn(<<"M", "post">>, {"param{argv}"})>>>>, <<EgressFile, <<2, Code({"exec_argv{argv}"})>>>>,
                               <<EgressFile, <<6, Code({"exec_argv{argv}"})>>>>, <<EgressInventory, <<"M", "post">>>>})
      [] g = "handle" -> Each({<<HandleFile, <<1, Fn(<<"sweep">>, {"github.new"})>>>>, <<HandleFile, <<2, Code({"github.new", "wiring"})>>>>,
                               <<HandleFile, <<5, Fn(<<"audit">>, {"github.new"})>>>>, <<HandleInventory, <<"sweep">>>>,
                               <<HandleInventory, <<"audit">>>>})
      [] g = "lock" -> Each({<<LockFile, <<1, Code({})>>>>, <<LockFile, <<3, Code({"codex"})>>>>, <<LockFile, <<4, Code({"gh"})>>>>,
                             <<LockAllowlist, <<"1", "gh">>>>, <<LockAllowlist, <<"1", "codex">>>>})
      [] g = "dedup" -> {{<<"c.lua", Helper("1")>>, <<DedupAllowlist, <<Helper("1"), DedupFiles>>>>,
                          <<DedupAllowlist, <<Helper("1"), {"a.lua", "b.lua"}>>>>},
                         {<<"a.lua", Helper("1")>>, <<"b.lua", Helper("1")>>, <<DedupAllowlist, <<Helper("1"), DedupFiles>>>>}}
                        \cup Each({<<"a.lua", Helper("2")>>, <<"b.lua", Helper("2")>>,
                                   <<DedupAllowlist, <<Helper("2"), {"a.lua", "b.lua"}>>>>})
      [] g = "login" -> {In(LoginFile, {<<30, Event("function", "subject", "")>>, <<35, Event("assign", "subject", "raw()")>>,
                                        <<38, Event("end", "", "")>>}),
                           In(LoginFile, {<<96, Event("for", "subject", "")>>, <<97, Event("compare", "subject", "")>>,
                                          <<98, Event("end", "", "")>>})}
                        \cup Each({<<LoginFile, <<20, Event("assign", "login", "subject")>>>>,
                              <<LoginFile, <<50, Event("local", "subject", "raw()")>>>>,
                              <<LoginFile, <<55, Event("assign", "subject", "raw()")>>>>,
                              <<LoginFile, <<60, Event("else", "", "")>>>>,
                              <<LoginFile, <<80, Event("assign", "subject", "login")>>>>,
                              <<LoginFile, <<85, Event("member", "login", "")>>>>, <<LoginFile, <<95, Event("legacy", "", "")>>>>,
                              <<LoginAllowlist, <<"raw-login-comparison", "subject">>>>})
      [] g = "coverage" -> Each({<<CoverageSource, <<2, "-- note">>>>, <<CoverageSource, <<4, "y()">>>>, <<CoverageSource, <<5, "y()">>>>,
                                 <<"packages/peer_test.lua", 5>>, <<CoverageAllowlist, <<5, "y()">>>>, <<RequiredFlag, "">>})
      [] g = "error" -> Each({<<PackageErrorFile, <<1, "code">>>>, <<PackageErrorFile, <<3, "bust">>>>, <<PackageErrorFile, <<4, "boom">>>>,
                              <<ErrorAllowlist, <<"2">>>>, <<ErrorAllowlist, <<"3">>>>, <<ErrorAllowlist, Header>>})
      [] g = "liberror" -> Each({<<LibraryErrorFile, <<1, "code">>>>, <<LibraryErrorFile, <<3, "bust">>>>, <<LibraryErrorFile, <<4, "boom">>>>,
                                 <<LibraryErrorFile, <<7, "boom">>>>, <<LibraryErrorAllowlist, <<"boom", "3">>>>})
      [] g = "suffix" -> Each({<<"libraries/rounds.lua", <<1, "code">>>>, <<"libraries/rounds.lua", <<3, "match('/loop/(%d+)')">>>>,
                               <<"libraries/rounds.lua", <<4, "base .. '/loop/' .. n">>>>, <<SanctionedPath, <<2, "match('/loop/(%d+)')">>>>,
                               <<SuffixAllowlist, <<"libraries/rounds.lua", "2">>>>, <<SuffixAllowlist, <<"libraries/rounds.lua", "3">>>>})
      [] g = "surface" -> Each({<<"loop.start", "retry">>, <<"loop.stop", "body">>, <<"loop.stop", "wrap_pipeline_failure">>,
                                <<SurfaceAllowlist, <<"loop.start">>>>, <<SurfaceAllowlist, <<"loop.stop">>>>})
                          \cup {{<<SurfaceAllowlist, Header>>, <<SurfaceAllowlist, <<"loop.start">>>>, <<"loop.start", "retry">>}}
      [] g = "saga" -> Each({<<"loop.start", "pipeline">>, <<"loop.start", "saga.department">>, <<"loop.stop", "pipeline">>,
                             <<"loop.dead_letter", "pipeline">>, <<SagaAllowlist, <<"loop.start">>>>, <<SagaAllowlist, <<"loop.dead_letter">>>>})
      [] g = "hidden" -> Each({<<Conformance, "behavioral_errors">>, <<Conformance, "safe_entity_view">>, <<HiddenAllowlist, <<"row1">>>>,
                               <<HiddenAllowlist, <<"row2">>>>, <<ReplayerGuard, "body">>})
      [] g = "split" -> {{<<SplitManifest, <<"loop/merge.lua", "issue">>>>, <<SplitManifest, <<"loop/merge.lua", "pr">>>>}}
                        \cup Each({<<"loop/merge.lua", <<3, "linked_entity_snapshot">>>>, <<"loop/merge.lua", <<4, "reviewing">>>>,
                                   <<SeedFile, <<1, "pr_origin_marker">>>>, <<"pr_partition_contract.lua", "ready">>,
                                   <<SplitAllowlist, <<"loop/merge.lua", "reviewing", "2">>>>,
                                   <<SplitAllowlist, <<SeedFile, "pr-open", "1">>>>})
      [] g = "tests" -> Each({<<"run_test", <<2, "requires", "queue_helpers">>>>, <<"data_helpers", <<2, "requires", "queue_helpers">>>>,
                              <<"queue_helpers", <<1, "body", "">>>>, <<"run_test", <<3, "test", "t2">>>>,
                              <<"run_test", <<5, "test", "t2">>>>, <<"queue_helpers", <<2, "test", "t1">>>>})

\* check_repo_runner.run_generic and run_library_b_specific.
Messages(g, c) ==
    CASE g \in {"cochange", "exposure"} -> preflight_messages(c)
      [] g = "anomaly" -> preflight_messages(c) \cup replay_messages(c)
      [] g \in {"replay", "trace"} -> replay_messages(c)
      [] g = "lifecycle" -> lifecycle_messages(c)
      [] g = "cycle" -> cycle_messages(c)
      [] g = "layering" -> layering_messages(c) \cup cross_package_messages(c)
      [] g = "forge" -> forge_import_messages(c)
      [] g = "integration" -> integration_messages(c)
      [] g = "liveness" -> producer_liveness_messages(c)
      [] g = "intake" -> intake_messages(c)
      [] g = "dialogue" -> dialogue_messages(c)
      [] g = "monotone" -> monotone_messages(c)
      [] g = "truncation" -> truncation_messages(c)
      [] g = "egress" -> egress_messages(c)
      [] g = "handle" -> handle_messages(c)
      [] g = "lock" -> lock_messages(c)
      [] g = "dedup" -> dedup_messages(c)
      [] g = "login" -> login_messages(c)
      [] g = "coverage" -> coverage_messages(c)
      [] g = "error" -> error_class_messages(c)
      [] g = "liberror" -> library_error_messages(c)
      [] g = "suffix" -> version_suffix_messages(c)
      [] g = "surface" -> surface_messages(c)
      [] g = "saga" -> saga_handler_messages(c)
      [] g = "hidden" -> hidden_state_messages(c)
      [] g = "split" -> saga_split_messages(c)
      [] g = "tests" -> test_messages(c)

AllGates ==
    {"cochange", "exposure", "anomaly", "replay", "trace", "lifecycle", "cycle", "layering", "forge", "integration", "liveness",
     "intake", "dialogue", "monotone", "truncation", "egress", "handle", "lock", "dedup", "login", "coverage", "error",
     "liberror", "suffix", "surface", "saga", "hidden", "split", "tests"}

\* A finite set of lines of files.
IsTree(tree) == IsFiniteSet(tree) /\ \A fact \in tree : fact = <<fact[1], fact[2]>>

ASSUME ScenarioAssumption ==
    \A g \in AllGates : \A facts \in {StartTree(g)} \cup Edits(g) : IsTree(facts)

\* In the file that compares logins the edits are apart from each other, and
\* Lua compiles it with any of them.
ASSUME LoginAssumption ==
    /\ \A e \in Edits("login") :
          e \cap StartTree("login") = {} /\ \A f \in Edits("login") : e = f \/ e \cap f = {}
    /\ \A S \in SUBSET Edits("login") : WellNested(Source(StartTree("login") \cup UNION S, LoginFile))

(***************************************************************************)
(* Checkouts CI and people run the gates in: a pull request's, one without *)
(* the base branch, one with an override that names nothing, and one with  *)
(* nothing set.                                                            *)
(***************************************************************************)

Unset == [dev_ref |-> "", target_ref |-> "", github_base |-> "", push_before |-> "", integration |-> "",
          preflight_ref |-> "", upstream |-> "", coverage_ref |-> "", resolves |-> {"origin/dev", "dev"}]

Checkouts ==
    {[Unset EXCEPT !.github_base = "dev"],
     [Unset EXCEPT !.github_base = "dev", !.resolves = {}],
     [Unset EXCEPT !.preflight_ref = "gone", !.target_ref = "gone", !.dev_ref = "gone", !.coverage_ref = "gone"],
     Unset}

\* Whether the gate finds its base in the checkout.
Resolved(g, env) ==
    CASE g \in {"cochange", "exposure"} -> selected_base_ref(env) # {}
      [] g = "anomaly" -> selected_base_ref(env) # {} /\ protected_base_sha(env) # {}
      [] g \in {"replay", "trace"} -> protected_base_sha(env) # {}
      [] g = "coverage" -> coverage_base_ref(env) # {} /\ coverage_base_ref(env) \subseteq env.resolves
      [] g = "liberror" -> resolve_target_ref(env) # {}
      [] OTHER -> resolve_dev_ref(env) # {}

=============================================================================
