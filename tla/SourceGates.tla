---------------------------- MODULE SourceGates ----------------------------
(***************************************************************************)
(* The gates that read Lua source.  A line of a scanned file is            *)
(* <<position, text>>; text has the function whose signature the line is   *)
(* (a path of names, <<>> for none), the change of the block depth on the  *)
(* line, comments and strings masked, and the tokens the gates look for.   *)
(***************************************************************************)
EXTENDS RatchetBase

(***************************************************************************)
(* Function blocks.                                                        *)
(***************************************************************************)

\* How deep the blocks are after each line, counted from line i on.
Depths(src, i) ==
    LET depth[e \in i..Len(src)] ==
            IF e = i THEN src[i].delta ELSE depth[e - 1] + src[e].delta
    IN depth

\* The first line at which the block is closed; the last line if none is.
block_end(src, i) ==
    LET closed == {e \in i..Len(src) : Depths(src, i)[e] <= 0}
    IN IF closed = {} THEN Len(src) ELSE Min(closed)

function_blocks(src) ==
    {[name |-> src[i].fn, start |-> i, end |-> block_end(src, i)] :
        i \in {j \in DOMAIN src : src[j].fn # <<>>}}

TopLevel == <<"<top-level>">>

\* The innermost of the functions around a line.
surface_for_line(src, i) ==
    LET around == {b \in function_blocks(src) : b.start <= i /\ i <= b.end}
    IN IF around = {} THEN TopLevel
       ELSE (CHOOSE b \in around : \A x \in around : x.start <= b.start).name

\* Functions are asked for by the last part of their names.
blocks_for_function(src, name) == {b \in function_blocks(src) : Last(b.name) = Last(name)}

BlockTokens(src, b) == UNION {src[i].tok : i \in b.start..b.end}

Sites(tree, file, tokens) ==
    LET src == Source(tree, file)
    IN UNION {{<<file, surface_for_line(src, i), t, i>> : t \in src[i].tok \cap tokens} : i \in DOMAIN src}

(***************************************************************************)
(* Reads of the transient state (check_repo_monotone_gate.py).             *)
(***************************************************************************)

MonotoneAllowlist == "monotone-gate.allowlist"
MonotoneManifest == "monotone-gate.inventory"
Responsibilities == "devloop/responsibilities.lua"
MonotoneFiles == {"devloop/replayer.lua", "devloop/required_facts.lua"}
CursorTokens == {"current_state(", ".state == "}
ApprovedAccessors == {"reached("}

\* The function without the table it hangs on.
canonical_surface(surface) == IF Len(surface) > 1 THEN Tail(surface) ELSE surface

\* Code that moved keeps the identity of its debt: the name of its function
\* and, for the functions known to have moved, the file they moved to.
canonical_key(v) ==
    <<IF v[1] = "devloop/replayer.lua" /\ v[2] = <<"require_marker_fact">>
      THEN "devloop/required_facts.lua" ELSE v[1],
      canonical_surface(v[2]), v[3]>>

source_violations(tree) == UNION {Sites(tree, f, CursorTokens) : f \in MonotoneFiles}

\* A surface declared monotone, <<file, function, accessor>>, exists, calls
\* its accessor and reads no cursor of its own.
milestone_messages(tree, m) ==
    LET src == Source(tree, m[1])
        blocks == blocks_for_function(src, m[2])
        block == CHOOSE b \in blocks : \A x \in blocks : b.start <= x.start
    IN IF m[1] \notin Files(tree) THEN {"stale path"}
       ELSE IF blocks = {} THEN {"stale function"}
       ELSE (IF m[3] \in BlockTokens(src, block) THEN {} ELSE {"unbound accessor"})
            \cup {"cursor inside milestone" : t \in BlockTokens(src, block) \cap CursorTokens}

Accessors(rows) ==
    {"accessor not approved" : m \in {x \in rows : x[3] \notin ApprovedAccessors}}

monotone_manifest_messages(tree) ==
    LET rows == load_allowlist(tree, MonotoneManifest)
    IN (IF MonotoneManifest \in Files(tree) THEN {} ELSE {"manifest missing"})
       \cup Accessors(rows) \cup UNION {milestone_messages(tree, m) : m \in rows}

\* The same is asked of the implementation a responsibility signature names.
responsibility_binding_messages(tree) ==
    LET rows == Lines(tree, Responsibilities)
    IN Accessors(rows) \cup UNION {milestone_messages(tree, m) : m \in rows}

InBucket(violations, key) == Cardinality({v \in violations : canonical_key(v) = key})

\* Debt is counted per canonical key: which of several reads is left does
\* not matter, nor where in the function it is.
monotone_ratchet(current, allowlist, hasBase, base) ==
    LET keys == {canonical_key(v) : v \in current \cup allowlist}
        over(few, many) == {k \in keys : InBucket(many, k) > InBucket(few, k)}
    IN {"unclassified read" : k \in over(allowlist, current)}
       \cup {"stale entry" : k \in over(current, allowlist)}
       \cup IF ~hasBase THEN {}
            ELSE {"allowlist grows" : k \in over(base, allowlist)}
                 \cup {"debt grows" : k \in over(base, current)}

monotone_messages(c) ==
    monotone_manifest_messages(c.head)
    \cup responsibility_binding_messages(c.head)
    \cup base_messages(c, MonotoneAllowlist)
    \cup monotone_ratchet(source_violations(c.head), load_allowlist(c.head, MonotoneAllowlist),
                          base_status(c, MonotoneAllowlist) = "present",
                          load_allowlist(c.base, MonotoneAllowlist))

(***************************************************************************)
(* Content cut to a cap on its way into a payload or a prompt              *)
(* (check_repo_content_truncation.py).                                     *)
(***************************************************************************)

TruncationAllowlist == "content-truncation.allowlist"
TruncationFile == "prompt.lua"
CapTokens == {"cut(MAX_BODY)"}
SinkTokens == {"codex-prompt", "raise-payload"}

\* The blocks here are the outermost ones only.
outer_blocks(src) ==
    {b \in function_blocks(src) : ~\E x \in function_blocks(src) : x.start < b.start /\ b.start <= x.end}

\* The sink the cut content can reach from this line of the block on.
sink_for_block(src, b, i) == SinkTokens \cap UNION {src[k].tok : k \in i..b.end}

Calls(src, b, name) == Last(name) \in BlockTokens(src, b)

\* A cut counts when its own function goes on to a sink, or when another
\* function of the file that calls it has one.
truncation_sites(tree) ==
    LET src == Source(tree, TruncationFile)
        blocks == outer_blocks(src)
        cuts == {x \in blocks \X DOMAIN src :
                    x[2] \in x[1].start..x[1].end /\ src[x[2]].tok \cap CapTokens # {}}
    IN UNION {{<<Last(x[1].name), s>> : s \in sink_for_block(src, x[1], x[2])
                  \cup UNION {sink_for_block(src, b, b.start) :
                                 b \in {y \in blocks : y.name # x[1].name /\ Calls(src, y, x[1].name)}}}
              : x \in cuts}

truncation_messages(c) == shrink_only(truncation_sites(c.head), c, TruncationAllowlist)

(***************************************************************************)
(* The one place that runs gh (check_repo_gh_egress.py).                   *)
(***************************************************************************)

EgressInventory == "gh-egress.inventory"
EgressFile == "forge/github.lua"
SanctionedEgress == <<"M", "run">>

\* A call with an argv table is an execution when its callee is exec_argv or
\* a parameter of a function around it.
egress_sinks(tree) == {s[2] : s \in Sites(tree, EgressFile, {"exec_argv{argv}", "param{argv}"})}

egress_messages(c) ==
    LET sinks == egress_sinks(c.head)
        inventory == load_allowlist(c.head, EgressInventory)
    IN (IF EgressInventory \notin Files(c.head) \/ SanctionedEgress \notin inventory
        THEN {"inventory floor"} ELSE {})
       \cup {"unsanctioned entry" : e \in inventory \ {SanctionedEgress}}
       \cup {"extra egress" : s \in sinks \ {SanctionedEgress}}
       \cup (IF SanctionedEgress \in sinks THEN {} ELSE {"egress missing"})

(***************************************************************************)
(* Consumers that build their own GitHub handle                            *)
(* (check_repo_gh_handle_construction.py).                                 *)
(***************************************************************************)

HandleInventory == "gh-handle.inventory"
HandleFile == "ops/core.lua"

handle_candidates(tree) == Sites(tree, HandleFile, {"github.new"})

\* A package's core may wire a handle into the merge commands.
is_canonical_candidate(tree, site) == "wiring" \in Source(tree, HandleFile)[site[4]].tok

handle_debt(tree) ==
    {s[2] : s \in {x \in handle_candidates(tree) : ~is_canonical_candidate(tree, x)}}

\* Without its header the list is not a list, here or at the base.
handle_messages(c) ==
    IF Header \notin Lines(c.head, HandleInventory) THEN {"missing or unscoped inventory"}
    ELSE base_messages(c, HandleInventory)
         \cup ratchet_messages(handle_debt(c.head), load_allowlist(c.head, HandleInventory),
                IF Header \in Lines(c.base, HandleInventory) THEN grown(c, HandleInventory) ELSE {})

(***************************************************************************)
(* Input and output under a lock (check_repo_lock_scope.py).               *)
(***************************************************************************)

LockAllowlist == "lock-scope.allowlist"
LockFile == "implement.lua"
IoTokens == {"codex", "gh"}

\* The lines of the callback after the one that opens it: what stands on
\* the opening line itself is not looked at.
lock_sites(tree) ==
    LET src == Source(tree, LockFile)
    IN UNION {{<<ToString(i), k>> : k \in IoTokens \cap UNION {src[e].tok : e \in (i + 1)..block_end(src, i)}} :
                 i \in {j \in DOMAIN src : "with_lock" \in src[j].tok}}

\* The keys have line numbers, and there is no comparison with the base.
lock_messages(c) ==
    ratchet_messages(lock_sites(c.head), load_allowlist(c.head, LockAllowlist), {})

(***************************************************************************)
(* Copied functions (check_repo_dedup.py).  A line is <<name, body>>: the  *)
(* functions at module scope whose body is long enough.                    *)
(***************************************************************************)

DedupAllowlist == "code-dedup.allowlist"
DedupFiles == {"a.lua", "b.lua", "c.lua"}

\* <<function, the files that have it>>, for two files and more.
duplicate_groups(tree) ==
    {g \in {<<fn, {f \in DedupFiles : fn \in Lines(tree, f)}>> : fn \in UNION {Lines(tree, f) : f \in DedupFiles}} :
        Cardinality(g[2]) >= 2}

\* An entry may lose files and stay the same entry.
covered_by_base(entry, base) == \E b \in base : b[1] = entry[1] /\ entry[2] \subseteq b[2]

dedup_messages(c) ==
    LET allowlist == load_allowlist(c.head, DedupAllowlist)
        growth == IF base_status(c, DedupAllowlist) # "present" THEN {}
                  ELSE {e \in allowlist : ~covered_by_base(e, load_allowlist(c.base, DedupAllowlist))}
    IN base_messages(c, DedupAllowlist)
       \cup ratchet_messages(duplicate_groups(c.head), allowlist, growth)

(***************************************************************************)
(* Logins compared without the canonical form                              *)
(* (check_repo_bot_login_mediation.py).  A text is an event of the scope   *)
(* tracker: then, else, function, for (over an iterator: a counting loop   *)
(* is an assignment to it), end; an assignment, local or not, of a value   *)
(* to a name; a comparison of the name with a canonical login, a look-up   *)
(* of it in a trusted set, a call of the legacy normalizer.                *)
(***************************************************************************)

LoginAllowlist == "bot-login-mediation.allowlist"
LoginFile == "claims.lua"
LoginNames == {"login", "subject"}
StrongNames == {"login"}
NoBindings == [n \in LoginNames |-> "none"]

name_binding_state(name) == IF name \in StrongNames THEN "raw" ELSE "unknown"

\* The innermost scope that has the name.
ScopeOf(scopes, name) == Max({0} \cup {i \in DOMAIN scopes : scopes[i][name] # "none"})

visible_binding(scopes, name) ==
    IF ScopeOf(scopes, name) = 0 THEN "none" ELSE scopes[ScopeOf(scopes, name)][name]

\* A value is a call of the helper, a call of anything else, or a name.
operand_binding_state(value, scopes) ==
    IF value = "canonical_login()" THEN "canonical"
    ELSE IF value \notin LoginNames THEN "unknown"
    ELSE IF visible_binding(scopes, value) = "none" THEN name_binding_state(value)
    ELSE visible_binding(scopes, value)

\* Mutant: an assignment is forgotten with the block it stands in.
MutantAssignInnermost(scopes, name, state, local) == [scopes EXCEPT ![Len(scopes)][name] = state]

assign_binding(scopes, name, state, local) ==
    LET at == IF local THEN Len(scopes)
              ELSE IF ScopeOf(scopes, name) = 0 THEN 1 ELSE ScopeOf(scopes, name)
    IN [scopes EXCEPT ![at][name] = state]

PopScope(scopes) == IF Len(scopes) > 1 THEN Front(scopes) ELSE scopes

\* A loop opens a scope and binds nothing: the tracker misses its variable.
scope_event(scopes, e) ==
    CASE e.ev \in {"then", "for"} -> Append(scopes, NoBindings)
      [] e.ev = "function" -> Append(scopes, [NoBindings EXCEPT ![e.name] = name_binding_state(e.name)])
      [] e.ev = "else" -> Append(PopScope(scopes), NoBindings)
      [] e.ev = "end" -> PopScope(scopes)
      [] e.ev \in {"local", "assign"} ->
            assign_binding(scopes, e.name, operand_binding_state(e.value, scopes), e.ev = "local")
      [] OTHER -> scopes

\* The scopes as they are at each line, before its own event.
Scopes(src) ==
    LET before[i \in 1..Len(src)] ==
            IF i = 1 THEN <<NoBindings>> ELSE scope_event(before[i - 1], src[i - 1])
    IN before

binding_states_before(src, i) == Scopes(src)[i]

\* Both sides canonical is the only comparison that passes once a name or a
\* binding says that a login is compared.
raw_comparison(src, i) ==
    LET scopes == binding_states_before(src, i)
        name == src[i].name
    IN visible_binding(scopes, name) # "canonical"

\* A look-up in a set of trusted logins passes when the key is canonical, or
\* when nothing says that the key is a login.
raw_membership(src, i) ==
    LET scopes == binding_states_before(src, i)
        name == src[i].name
    IN /\ visible_binding(scopes, name) # "canonical"
       /\ operand_binding_state(name, scopes) # "unknown" \/ name \in StrongNames

login_sites(tree) ==
    LET src == Source(tree, LoginFile)
        at(ev) == {i \in DOMAIN src : src[i].ev = ev}
    IN {<<"raw-login-comparison", src[i].name>> : i \in {j \in at("compare") : raw_comparison(src, j)}}
       \cup {<<"raw-login-membership", src[i].name>> : i \in {j \in at("member") : raw_membership(src, j)}}
       \cup {<<"legacy-normalizer", "">> : i \in at("legacy")}

login_messages(c) == shrink_only(login_sites(c.head), c, LoginAllowlist)

(***************************************************************************)
(* Lua's own scopes, by position: a declaration, that of a loop variable   *)
(* with the others, is visible up to the end or the else of its block.     *)
(***************************************************************************)

BlockDepth(src, i) ==
    Cardinality({k \in 1..i : src[k].ev \in {"then", "for", "function"}})
        - Cardinality({k \in 1..i : src[k].ev = "end"})

Declares(src, i, name) == src[i].ev \in {"local", "function", "for"} /\ src[i].name = name

\* No loop before the line declares a name the tracker follows.
NoLoopVariable(src, j) == \A i \in 1..(j - 1) : src[i].ev = "for" => src[i].name \notin LoginNames

\* The declaration of a name in force at a line, 0 for none.
Declaration(src, name, j) ==
    Max({0} \cup {i \in 1..(j - 1) :
        /\ Declares(src, i, name)
        /\ \A k \in (i + 1)..(j - 1) :
            /\ BlockDepth(src, k) >= BlockDepth(src, i)
            /\ src[k].ev = "else" => BlockDepth(src, k) > BlockDepth(src, i)})

\* The last line that gave the name its value, 0 for none.
LastBinding(src, name, j) ==
    Max({0} \cup {i \in 1..(j - 1) :
        /\ src[i].name = name
        /\ IF src[i].ev = "assign" THEN Declaration(src, name, i) = Declaration(src, name, j)
           ELSE Declares(src, i, name) /\ Declaration(src, name, j) = i})

\* The lines that give their name the canonical login; none is line 0.
GivesCanonical(src) ==
    LET canonical[i \in 0..Len(src)] ==
            /\ i # 0
            /\ src[i].ev \in {"local", "assign"}
            /\ \/ src[i].value = "canonical_login()"
               \/ /\ src[i].value \in LoginNames
                  /\ canonical[LastBinding(src, src[i].value, i)]
    IN canonical

CanonicalAt(src, j) == GivesCanonical(src)[LastBinding(src, src[j].name, j)]

\* A comparison that passes, or a look-up under a login's name that passes.
PassesAsCanonical(src, j) ==
    \/ src[j].ev = "compare" /\ ~raw_comparison(src, j)
    \/ src[j].ev = "member" /\ src[j].name \in StrongNames /\ ~raw_membership(src, j)

\* Source that Lua compiles: every end and else has its block, and what is
\* bound or compared is a name.
WellNested(src) ==
    \A i \in DOMAIN src :
        /\ BlockDepth(src, i) >= 0
        /\ src[i].ev = "else" => BlockDepth(src, i) > 0
        /\ src[i].ev \in {"local", "assign", "function", "compare", "member"} => src[i].name \in LoginNames

=============================================================================
