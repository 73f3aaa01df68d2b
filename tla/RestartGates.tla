---------------------------- MODULE RestartGates ----------------------------
(***************************************************************************)
(* The three gates that judge a branch of this repository against its      *)
(* protected merge base: the intent-bounded replay gate                    *)
(* (check_repo_intent_bounded_replay.py and intent_bounded_replay/), the   *)
(* restart preflight (check_repo_restart_preflight.py) and the restart     *)
(* lifecycle inventory (check_repo_restart_lifecycle.py).                  *)
(*                                                                         *)
(* Beside the two trees a case has the number of the base commit, the log  *)
(* of the protected branch up to that base, the attestations CI left       *)
(* beside the checkout and whether a root of emitted traces was given.     *)
(***************************************************************************)
EXTENDS RatchetBase

(***************************************************************************)
(* Protected base.                                                         *)
(***************************************************************************)

\* The preflight takes a ref that was asked for or none; unasked, it takes
\* the branch's own upstream before dev.
selected_base_ref(env) ==
    IF env.preflight_ref # "" THEN FirstResolved(<<env.preflight_ref>>, env)
    ELSE IF env.github_base # "" THEN resolve_branch_ref(env.github_base, env)
    ELSE FirstResolved(<<env.upstream, "origin/dev", "dev">>, env)

\* The replay gate reads the same variable, and falls back to dev when the
\* ref that was asked for has no merge base.
protected_base_sha(env) ==
    IF env.preflight_ref \in env.resolves THEN {env.preflight_ref}
    ELSE resolve_dev_ref(env)

(***************************************************************************)
(* Co-change grants.                                                       *)
(***************************************************************************)

ExclusionControl == "semantic_tree.py"
CheckerControls == {"compare.py", ExclusionControl}
GrantFiles == {"grant.json"}
SemanticFiles ==
    {"authority.lua", "department.lua", "library.lua", "observe.lua"}

checker_control(path) == path \in CheckerControls \cup GrantFiles

production_semantic(path) == path \in SemanticFiles

\* What the branch does to one path, by the blobs of the two sides.
cochange_delta_entry(base, head, path) ==
    [path |-> path,
     status |-> IF Lines(base, path) = {} THEN "A"
                ELSE IF Lines(head, path) = {} THEN "D" ELSE "M",
     old_blob |-> Lines(base, path),
     new_blob |-> Lines(head, path)]

\* Mutant: the grant is read from the branch it is to admit.
MutantGrantFromHead(base, head, paths) ==
    \E file \in GrantFiles \cap Files(head), document \in Lines(head, "grant.json") :
        /\ Lines(head, file) = {document}
        /\ document.sealed
        /\ document.entries =
               {cochange_delta_entry(base, head, p) : p \in paths \ GrantFiles}

\* A grant admits the change it names, blob by blob, and no other; it is
\* read from the base, and the branch may not touch it.
cochange_promotion_admitted(base, head, paths) ==
    \E file \in GrantFiles \cap Files(base) :
        /\ Lines(base, file) = Lines(head, file)
        /\ \E document \in Lines(base, file) :
            /\ Lines(base, file) = {document}
            /\ document.sealed
            /\ document.entries =
                   {cochange_delta_entry(base, head, p) : p \in paths}

(***************************************************************************)
(* Intent-diff manifests.                                                  *)
(***************************************************************************)

Manifests == {"7.json", "8.json"}
ManifestOf(pr) == IF pr = 7 THEN "7.json" ELSE "8.json"
Allowlist == "intent-bounded-replay.allowlist"
OldAuthority == {<<"seal.lua", "body">>, <<"library.lua", "transition_status">>}

\* The tree and the change of a branch without the numbered manifests, which
\* cannot contain their own hashes.
semantic_tree_sha256(tree) == {fact \in tree : fact[1] \notin Manifests}

semantic_diff_sha256(base, head) ==
    LET old == semantic_tree_sha256(base)
        new == semantic_tree_sha256(head)
    IN {<<"D", fact>> : fact \in old \ new} \cup {<<"A", fact>> : fact \in new \ old}

one_use_identity(m) == <<m.pr, m.base, m.tree, m.diff>>

\* The manifest an author writes for a branch as it is.
manifest(pr, baseId, base, head, transport) ==
    [pr |-> pr, base |-> baseId, tree |-> semantic_tree_sha256(head),
     diff |-> semantic_diff_sha256(base, head), shaped |-> TRUE,
     transport |-> transport, changed_ids |-> {}]

\* The checks of one manifest by itself: its fields, schema, hashes, its
\* file's number and its own hash are one verdict, shaped.
manifest_messages(m, file) ==
    {msg \in {"malformed manifest", "wrong pr number"} :
        \/ msg = "malformed manifest" /\ ~m.shaped
        \/ msg = "wrong pr number" /\ m.shaped /\ ManifestOf(m.pr) # file}

\* Mutant: a manifest signed before the last change still binds.
MutantTreeUnbound(m, file, c) ==
    IF manifest_messages(m, file) # {} THEN manifest_messages(m, file)
    ELSE IF m.base # c.baseId THEN {"wrong base"} ELSE {}

\* What binds a manifest to the branch it rides on.
bound_manifest_messages(m, file, c) ==
    IF manifest_messages(m, file) # {} THEN manifest_messages(m, file)
    ELSE {msg \in {"wrong base", "wrong tree", "wrong diff"} :
            \/ msg = "wrong base" /\ m.base # c.baseId
            \/ msg = "wrong tree" /\ m.tree # semantic_tree_sha256(c.head)
            \/ msg = "wrong diff" /\ m.diff # semantic_diff_sha256(c.base, c.head)}

\* The commit that first added the file carries the number of its own pull
\* request: the manifest has been used, and a branch may carry it again.
manifest_is_spent(m, file, c) ==
    \E i \in 1..Len(c.log) :
        /\ c.log[i].pr = m.pr
        /\ c.log[i].numbered
        /\ file \in c.log[i].added

step8_complete(base, head) == OldAuthority \cap (base \cup head) = {}

ValidManifests(tree) ==
    {file \in Manifests \cap Files(tree) :
        \A m \in Lines(tree, file) : manifest_messages(m, file) = {}}

ManifestIn(tree, file) == CHOOSE m \in Lines(tree, file) : TRUE

\* An attestation is left beside the checkout by an earlier CI step: it
\* holds for the manifest, the base and the head it was written for.
attestation_messages(a, c) ==
    LET file == ManifestOf(a.pr)
    IN IF ~a.approved THEN {"attestation not approved"}
       ELSE IF file \notin ValidManifests(c.head) THEN {"attestation without manifest"}
       ELSE LET m == ManifestIn(c.head, file)
            IN {msg \in {"attested blob", "attested head", "attested tree"} :
                  \/ msg = "attested blob" /\ (a.manifest # m \/ a.base # m.base)
                  \/ msg = "attested head" /\ a.head # c.head
                  \/ /\ msg = "attested tree"
                     /\ \/ a.tree # semantic_tree_sha256(c.head)
                        \/ m.tree # semantic_tree_sha256(c.head)}

\* One entry of the allowlist that the base does not have.
growth_messages(file, c) ==
    LET valid == file \in ValidManifests(c.head)
        m == ManifestIn(c.head, file)
        bound == IF ~valid THEN {"no valid manifest"}
                 ELSE IF ~c.resolved THEN {ConfigurationFailure}
                 ELSE bound_manifest_messages(m, file, c)
    IN IF valid /\ c.resolved /\ manifest_is_spent(m, file, c) THEN {}
       ELSE bound \cup (IF bound # {} \/ ~step8_complete(c.base, c.head)
                        THEN {"grows allowlist"} ELSE {})

(***************************************************************************)
(* Admission traces: the recorded OLD trace of a family of transitions and *)
(* the NEW one its tests emit.                                             *)
(***************************************************************************)

EffectPrefix == [codex |-> "codex.dispatch", git |-> "git.push", merge |-> "github.merge"]

captured_sink_effect_messages(captures) ==
    (IF captures = <<>> THEN {"no captured effects"} ELSE {})
    \cup {"capture order" : i \in {j \in DOMAIN captures : captures[j].ordinal # j}}
    \cup {"unknown sink" : i \in {j \in DOMAIN captures :
              captures[j].sink_kind \notin DOMAIN EffectPrefix}}
    \cup {"wrong prefix" : i \in {j \in DOMAIN captures :
              /\ captures[j].sink_kind \in DOMAIN EffectPrefix
              /\ captures[j].prefix # EffectPrefix[captures[j].sink_kind]}}
    \cup {"repeated effect" : i \in {j \in DOMAIN captures : \E k \in 1..(j - 1) :
              captures[k].effect_id = captures[j].effect_id}}

\* Only an applied transition, or an entitled idempotent one, writes; and
\* it writes exactly what it was granted, in that order.
fixture_messages(f) ==
    IF f.cas_status = "apply"
    THEN IF f.writes = f.granted THEN {} ELSE {"writes differ from grant"}
    ELSE IF f.writes = <<>> THEN {}
    ELSE IF f.cas_status = "idempotent"
    THEN (IF f.entitled THEN {} ELSE {"idempotent writes need entitlement"})
         \cup (IF f.writes = f.granted THEN {} ELSE {"writes differ from grant"})
    ELSE {"refused transition writes"}

\* A trace without fixtures is refused before its ids and hash are looked at.
admission_trace_shape_messages(t) ==
    LET ids == [i \in DOMAIN t.fixtures |-> t.fixtures[i].id]
    IN (IF t.shaped THEN {} ELSE {"malformed trace"})
       \cup (IF t.captured = {} THEN {}
             ELSE UNION {captured_sink_effect_messages(s) : s \in t.captured})
       \cup IF t.fixtures = <<>> THEN {"no fixtures"}
            ELSE (UNION {fixture_messages(t.fixtures[i]) : i \in DOMAIN t.fixtures})
                 \cup {"unsorted fixtures" : i \in {j \in DOMAIN ids :
                           j > 1 /\ ids[j - 1] >= ids[j]}}
                 \cup (IF t.sealed THEN {} ELSE {"trace hash"})

artifact_body(t) == [fixtures |-> t.fixtures, captured |-> t.captured]

\* old, new: the lines of the two files; a new trace that was not emitted is
\* not compared.
trace_pair_messages(old, new) ==
    IF Cardinality(old) # 1 THEN {"missing or unreadable corpus"}
    ELSE IF new = {} THEN UNION {admission_trace_shape_messages(o) : o \in old}
    ELSE IF Cardinality(new) # 1 THEN {"unreadable trace"}
    ELSE LET shape == UNION {admission_trace_shape_messages(t) : t \in old \cup new}
         IN IF shape # {} \/ {artifact_body(o) : o \in old} = {artifact_body(n) : n \in new}
            THEN shape ELSE {"trace diverges"}

\* The catalogue of families, with the corpus of each in the repository and
\* what the tests of the branch write under the trace root, if one is given.
OldCorpus == [loop |-> "old/loop.json", merge |-> "old/merge.json"]
NewTrace == [loop |-> "new/loop.json", merge |-> "new/merge.json"]

admission_trace_messages(c) ==
    LET emitted(f) == IF c.rooted THEN Lines(c.head, NewTrace[f]) ELSE {}
    IN (UNION {trace_pair_messages(Lines(c.head, OldCorpus[f]), emitted(f)) : f \in DOMAIN OldCorpus})
       \cup (IF c.rooted /\ \A f \in DOMAIN NewTrace : emitted(f) = {}
             THEN {"no traces under the root"} ELSE {})

(***************************************************************************)
(* The replay gate.                                                        *)
(***************************************************************************)

\* check_repo_intent_bounded_replay.repository_messages, with the base
\* enforced: the run for a host repository does not look at growth.
replay_messages(c) ==
    LET listed == Lines(c.head, Allowlist)
        growth == IF c.resolved THEN listed \ Lines(c.base, Allowlist) ELSE {}
        valid == ValidManifests(c.head)
    IN admission_trace_messages(c)
       \cup (IF c.resolved THEN {} ELSE {ConfigurationFailure})
       \cup (UNION {manifest_messages(ManifestIn(c.head, f), f) :
                      f \in Manifests \cap Files(c.head)})
       \cup {"unlisted manifest" : f \in (Manifests \cap Files(c.head)) \ listed}
       \cup {"reused identity" : f \in {x \in valid : \E y \in valid \ {x} :
                one_use_identity(ManifestIn(c.head, x))
                    = one_use_identity(ManifestIn(c.head, y))}}
       \cup (UNION {growth_messages(f, c) : f \in growth})
       \cup UNION {attestation_messages(a, c) : a \in c.att}

(***************************************************************************)
(* Restart preflight.                                                      *)
(***************************************************************************)

ShadowFiles == {"library.lua"}
ExposedFiles == {"library.lua", "department.lua", "observe.lua"}
AttestationFiles == {"attestation.json"}
GrantFactory == {"mint_grant"}
OwnerSeal == {"owner_seal"}
AuthorityCall == {"decide_transition", "mint_grant"}
DurableOrGrant == {"dedup_key", "mint_grant"}

\* The delta of the anomaly transport, file by file: the owner's department
\* and sink inventory, and the operations package's department and manifest.
TransportAtoms ==
    {<<"observe.lua", "produces">>, <<"observe.lua", "raise">>, <<"observe.lua", "sink">>,
     <<"ops.lua", "consumes">>, <<"ops.lua", "ephemeral">>, <<"ops.lua", "event_deps">>}
TransportFiles == {"observe.lua", "ops.lua"}
PackageFiles == {"department.lua", "observe.lua", "ops.lua"}
AnomalyTokens == {"produces", "raise", "sink"}

\* Mutant: a token counts as new only in a file that is new.
MutantMatchesNewFiles(tokens, c, path) ==
    IF Lines(c.base, path) = {} THEN Lines(c.head, path) \cap tokens ELSE {}

new_matches(tokens, c, path) ==
    (Lines(c.head, path) \ Lines(c.base, path)) \cap tokens

Rows(tree, kind) == {r \in Lines(tree, "inventory") : r.kind = kind}

WatchedFiles(tree) == {r.site : r \in Rows(tree, "watched")}

WriterTokens(tree) == {r.site : r \in Rows(tree, "writer")}

\* The watched files and writer primitives come from the branch's own
\* inventory, and nobody compares them with the base's; an unreadable one,
\* or one that names no writer, leaves both empty.
inventory_contract(c) ==
    IF Rows(c.head, "conflict") # {} \/ WriterTokens(c.head) = {}
    THEN [watched |-> {}, writers |-> {}, messages |-> {"inventory unreadable"}]
    ELSE [watched |-> WatchedFiles(c.head), writers |-> WriterTokens(c.head), messages |-> {}]

tracked_attestation_messages(c) ==
    {"tracked attestation" : f \in AttestationFiles \cap Files(c.head)}

exposure_messages(c, watched) ==
    LET paths == (changed_paths(c.base, c.head) \ watched) \cap ExposedFiles
    IN {"grant factory exposed" : p \in {x \in paths : new_matches(GrantFactory, c, x) # {}}}
       \cup {"owner seal exposed" : p \in {x \in paths : new_matches(OwnerSeal, c, x) # {}}}

unlisted_caller_messages(c, watched, writers) ==
    LET paths == {p \in changed_paths(c.base, c.head) \ watched : production_semantic(p)}
    IN {"unlisted authority caller" :
            p \in {x \in paths : new_matches(AuthorityCall, c, x) # {}}}
       \cup {"unlisted writer" : p \in {x \in paths : new_matches(writers, c, x) # {}}}

\* The one changed manifest, listed, bound to the branch and of an identity
\* no other manifest of the branch has.
anomaly_manifest(c) ==
    LET changed == Manifests \cap changed_paths(c.base, c.head) \cap Files(c.head)
    IN {ManifestIn(c.head, f) : f \in {x \in changed :
            LET m == ManifestIn(c.head, x)
            IN /\ Manifests \cap changed_paths(c.base, c.head) = {x}
               /\ m.transport # {}
               /\ x \in Lines(c.head, Allowlist)
               /\ bound_manifest_messages(m, x, c) = {}
               /\ \A y \in (Manifests \cap Files(c.head)) \ {x} :
                      one_use_identity(ManifestIn(c.head, y)) # one_use_identity(m)}}

\* Mutant: any part of the transport that was declared will do.
MutantTransportInParts(c) ==
    LET added == {a \in c.head \ c.base : a[1] \in TransportFiles}
    IN \E m \in anomaly_manifest(c) :
        /\ step8_complete(c.base, c.head)
        /\ m.transport = {a[2] : a \in added \cap TransportAtoms}

\* The transport may be switched on once, whole, alone, as declared, and
\* after the old authority is gone from both sides.
r7_anomaly_admitted(c) ==
    LET added == {a \in c.head \ c.base : a[1] \in TransportFiles}
        changed == changed_paths(c.base, c.head)
    IN \E m \in anomaly_manifest(c) :
        /\ step8_complete(c.base, c.head)
        /\ TransportAtoms \subseteq added
        /\ changed \cap PackageFiles = TransportFiles
        /\ m.changed_ids = {}
        /\ \A p \in TransportFiles : new_matches(DurableOrGrant, c, p) = {}
        /\ m.transport = {a[2] : a \in added \cap TransportAtoms}

anomaly_activation_messages(c) ==
    LET active == {p \in changed_paths(c.base, c.head) :
                     /\ production_semantic(p)
                     /\ p \notin ShadowFiles
                     /\ new_matches(AnomalyTokens, c, p) # {}}
    IN IF active # {} /\ ~r7_anomaly_admitted(c) THEN {"anomaly transport activated"} ELSE {}

\* check_repo_restart_preflight.repository_messages.
preflight_messages(c) ==
    IF ~c.resolved THEN {ConfigurationFailure}
    ELSE LET changed == changed_paths(c.base, c.head)
             inventory == inventory_contract(c)
             checkers == {p \in changed : checker_control(p)}
             semantics == {p \in changed : production_semantic(p)}
         IN inventory.messages
            \cup tracked_attestation_messages(c)
            \cup (IF ExclusionControl \in changed THEN {"exclusion control changed"} ELSE {})
            \cup (IF /\ checkers # {} /\ semantics # {}
                     /\ ~cochange_promotion_admitted(c.base, c.head, checkers \cup semantics)
                  THEN {"checker and checked change together"} ELSE {})
            \cup exposure_messages(c, inventory.watched)
            \cup (IF inventory.writers = {} THEN {}
                  ELSE unlisted_caller_messages(c, inventory.watched, inventory.writers))
            \cup anomaly_activation_messages(c)

(***************************************************************************)
(* Restart lifecycle inventory: enumerated sites, the unobserved ones among *)
(* them, the observations of the old behaviour, and the allowlist of the    *)
(* unobserved sites.                                                        *)
(***************************************************************************)

LifecycleAllowlist == "restart-lifecycle.allowlist"
Producer == "producer.lua"
NewModuleTokens == {"restart_edges"}
ObservationKeys ==
    {"schema", "observation_id", "owner", "site", "boundary", "typed_intent", "old_inputs",
     "old_outcome", "evidence_refs"}

SitesOf(tree, kind) == {r.site : r \in Rows(tree, kind)}

\* Keys first; the parts of an observation are judged only when the keys
\* are exactly the expected ones.
validate_observation(o) ==
    IF o.keys # ObservationKeys THEN {"observation keys"}
    ELSE {"observation part" : p \in o.bad}

\* A row's symbol is in its file, or was in it at the protected base: the
\* inventory keeps a row when the branch deletes its producer.
validate_site_provenance(site, c) ==
    IF site \in Lines(c.head, Producer) THEN {}
    ELSE IF ~c.resolved THEN {ConfigurationFailure}
    ELSE IF site \in Lines(c.base, Producer) THEN {} ELSE {"symbol not found"}

validate_enumerated_site_lists(c) ==
    UNION {validate_site_provenance(s, c) : s \in SitesOf(c.head, "enumerated")}

validate_allowlist_alignment(c) ==
    LET unobserved == SitesOf(c.head, "unobserved")
        listed == Lines(c.head, LifecycleAllowlist)
    IN (UNION {validate_site_provenance(s, c) : s \in unobserved})
       \cup {"site missing from allowlist" : s \in unobserved \ listed}
       \cup {"unknown site in allowlist" : s \in listed \ unobserved}

\* Mutant: a site may leave the list when it is still enumerated.
MutantLeavesUnobserved(c) ==
    IF ~c.resolved THEN {ConfigurationFailure}
    ELSE IF LifecycleAllowlist \notin Files(c.base) THEN {}
    ELSE LET now == Lines(c.head, LifecycleAllowlist)
             before == Lines(c.base, LifecycleAllowlist)
         IN {"new unobserved site" : s \in now \ before}
            \cup {"removed without evidence" : s \in (before \ now) \ SitesOf(c.head, "enumerated")}

\* The list only shrinks, and a site leaves it by being observed.
shrink_only_messages(c) ==
    IF ~c.resolved THEN {ConfigurationFailure}
    ELSE IF LifecycleAllowlist \notin Files(c.base) THEN {}
    ELSE LET now == Lines(c.head, LifecycleAllowlist)
             before == Lines(c.base, LifecycleAllowlist)
         IN {"new unobserved site" : s \in now \ before}
            \cup {"removed without evidence" : s \in {x \in before \ now :
                     \/ x \notin SitesOf(c.head, "enumerated")
                     \/ x \notin SitesOf(c.head, "observed")}}

artifact_sha256_for_document(tree) == Lines(tree, "inventory")

\* check_repo_restart_lifecycle.repository_messages.  A conflict marker
\* makes the file unreadable and is the only message then.
lifecycle_messages(c) ==
    IF "inventory" \notin Files(c.head) THEN {}
    ELSE IF Rows(c.head, "conflict") # {} THEN {"unreadable inventory"}
    ELSE (UNION {validate_observation(r) : r \in Rows(c.head, "observed")})
         \cup {"new module token" : r \in {x \in Lines(c.head, "inventory") : x.site \in NewModuleTokens}}
         \cup validate_enumerated_site_lists(c)
         \cup validate_allowlist_alignment(c)
         \cup shrink_only_messages(c)
         \cup (IF Lines(c.head, "sha") = {artifact_sha256_for_document(c.head)}
               THEN {} ELSE {"artifact hash"})

\* --fix-artifact-sha256 rewrites the file with the hash of what it holds.
normalize_artifact_sha256(tree) ==
    {fact \in tree : fact[1] # "sha"}
        \cup {<<"sha", artifact_sha256_for_document(tree)>>}

=============================================================================
