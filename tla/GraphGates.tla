----------------------------- MODULE GraphGates -----------------------------
(***************************************************************************)
(* The gates over the repository's graphs: who requires whom among the     *)
(* libraries and packages, who produces and who consumes which queue, and  *)
(* which packages a composition loads.                                     *)
(***************************************************************************)
EXTENDS RatchetBase

(***************************************************************************)
(* Require cycles (check_repo_dependency_cycle.py).  A library module is a *)
(* file; its lines are the modules it requires and its body.               *)
(***************************************************************************)

CycleAllowlist == "dependency-cycle.allowlist"
LibraryOrder == <<"lib.a", "lib.b", "lib.c">>

dependency_graph(tree) ==
    LET modules == ToSet(LibraryOrder) \cap Files(tree)
    IN [m \in modules |-> Lines(tree, m) \cap modules]

Rank(m) == CHOOSE i \in DOMAIN LibraryOrder : LibraryOrder[i] = m

Sorted(modules) ==
    CHOOSE s \in [1..Cardinality(modules) -> modules] :
        \A i, j \in DOMAIN s : i < j => Rank(s[i]) < Rank(s[j])

\* Tarjan's algorithm: the nested visits are the sequence calls, each with
\* the targets it still has to look at.
TarjanVisit(s, node, graph) ==
    [s EXCEPT !.indexes[node] = s.index, !.lowlinks[node] = s.index, !.index = @ + 1,
              !.stack = Append(@, node),
              !.calls = Append(@, [node |-> node, todo |-> Sorted(graph[node])])]

TarjanTarget(s, node, target, graph) ==
    LET rest == [s EXCEPT !.calls[Len(s.calls)].todo = Tail(@)]
    IN IF s.indexes[target] = -1 THEN TarjanVisit(rest, target, graph)
       ELSE IF target \in ToSet(s.stack)
       THEN [rest EXCEPT !.lowlinks[node] = Min({@, s.indexes[target]})]
       ELSE rest

\* Mutant: the low link of a finished node is not handed to its caller.
MutantTarjanReturn(s, node) ==
    LET at == CHOOSE i \in DOMAIN s.stack : s.stack[i] = node
        root == s.lowlinks[node] = s.indexes[node]
    IN [s EXCEPT
          !.calls = Front(s.calls),
          !.stack = IF root THEN SubSeq(@, 1, at - 1) ELSE @,
          !.components = IF root THEN @ \cup {ToSet(SubSeq(s.stack, at, Len(s.stack)))} ELSE @]

TarjanReturn(s, node) ==
    LET callers == Front(s.calls)
        caller == Last(callers).node
        at == CHOOSE i \in DOMAIN s.stack : s.stack[i] = node
        root == s.lowlinks[node] = s.indexes[node]
    IN [s EXCEPT
          !.calls = callers,
          !.lowlinks = IF callers = <<>> THEN @
                       ELSE [@ EXCEPT ![caller] = Min({s.lowlinks[caller], s.lowlinks[node]})],
          !.stack = IF root THEN SubSeq(@, 1, at - 1) ELSE @,
          !.components = IF root THEN @ \cup {ToSet(SubSeq(s.stack, at, Len(s.stack)))} ELSE @]

TarjanStep(s, graph) ==
    IF s.calls # <<>>
    THEN LET call == Last(s.calls)
         IN IF call.todo # <<>> THEN TarjanTarget(s, call.node, Head(call.todo), graph)
            ELSE TarjanReturn(s, call.node)
    ELSE LET left == Sorted({m \in DOMAIN graph : s.indexes[m] = -1})
         IN IF left = <<>> THEN s ELSE TarjanVisit(s, Head(left), graph)

TarjanStart(graph) ==
    LET none == [m \in DOMAIN graph |-> -1]
    IN [index |-> 0, indexes |-> none, lowlinks |-> none, stack |-> <<>>, calls |-> <<>>, components |-> {}]

\* Every module is visited and left, and every require looked at, once.
TarjanSteps(graph) == Cardinality(DOMAIN graph) * (Cardinality(DOMAIN graph) + 2)

TarjanRun(graph) ==
    LET run[i \in 0..TarjanSteps(graph)] ==
            IF i = 0 THEN TarjanStart(graph) ELSE TarjanStep(run[i - 1], graph)
    IN run

strongly_connected_components(graph) == TarjanRun(graph)[TarjanSteps(graph)].components

\* The paths of k modules that start at the least of them.
Paths(start, graph, component) ==
    LET paths[k \in 1..Cardinality(component)] ==
            IF k = 1 THEN {<<start>>}
            ELSE UNION {{Append(p, t) : t \in {x \in (graph[Last(p)] \cap component) \ ToSet(p) :
                                                  Rank(x) > Rank(start)}} : p \in paths[k - 1]}
    IN paths

PathsFrom(start, graph, component) ==
    UNION {Paths(start, graph, component)[k] : k \in 1..Cardinality(component)}

simple_cycles_in_component(graph, component) ==
    {Sorted(ToSet(p)) : p \in {q \in UNION {PathsFrom(m, graph, component) : m \in component} :
                                 q[1] \in graph[Last(q)]}}

cycles_from_graph(graph) ==
    LET components == strongly_connected_components(graph)
    IN (UNION {simple_cycles_in_component(graph, s) : s \in {x \in components : Cardinality(x) > 1}})
       \cup {<<m>> : m \in {x \in DOMAIN graph : {x} \in components /\ x \in graph[x]}}

cycle_messages(c) == shrink_only(cycles_from_graph(dependency_graph(c.head)), c, CycleAllowlist)

(***************************************************************************)
(* Layering (check_repo_library_layering.py) and peer requires             *)
(* (check_repo_cross_package.py).  A require is <<position, module>>.      *)
(***************************************************************************)

LayeringAllowlist == "library-layering.allowlist"
LayeredFile == "libraries/contract.lua"
PeerFile == "packages/peer.lua"
PackageModules == {"core", "proxy"}

\* libraries: the workspace libraries; a package with the name of one of
\* them is not a layer above.
forbidden_reason(module, libraries) ==
    IF module \in libraries THEN ""
    ELSE IF module = "core" THEN "package-only module"
    ELSE IF module \in PackageModules THEN "package namespace" ELSE ""

layering_sites(tree) ==
    {<<ToString(LineNumber(tree, LayeredFile, l)), l[2], forbidden_reason(l[2], Lines(tree, "libraries"))>> :
        l \in {x \in Lines(tree, LayeredFile) : forbidden_reason(x[2], Lines(tree, "libraries")) # ""}}

layering_messages(c) == shrink_only(layering_sites(c.head), c, LayeringAllowlist)

declared_workspace_libraries(tree) == Lines(tree, "fkst.toml") \cap Lines(tree, "libraries")

\* A sibling package is required only under the name of a declared library.
cross_package_messages(c) ==
    {"peer require" : l \in {x \in Lines(c.head, PeerFile) :
        x[2] = "proxy" /\ x[2] \notin declared_workspace_libraries(c.head)}}

(***************************************************************************)
(* Imports of forge by devloop (check_repo_std_dependency_model.py).       *)
(***************************************************************************)

ForgeInventory == "devloop-forge-imports.inventory"
LegacyInventory == "devloop-std-imports.inventory"
DevloopFiles == {"devloop/facade.lua", "devloop/base.lua", "devloop/misc.lua"}
Facade == "devloop/facade.lua"
ValidatorModules == {"forge.gitref"}
SanctionedImports == {<<"devloop/misc.lua", "forge.check_runs">>}
SplitImports == {<<"devloop/misc.lua", "forge.strings">>}

devloop_forge_imports(tree) ==
    UNION {{<<f, m>> : m \in Lines(tree, f) \ {"body"}} : f \in DevloopFiles}

\* Entries of the list under its former name are read as if renamed.
canonical_forge_module(module) == IF module = "std.gitref" THEN "forge.gitref" ELSE module

load_inventory(tree, file) ==
    {<<e[1], canonical_forge_module(e[2])>> : e \in load_allowlist(tree, file)}

forge_imports_at_base(c) ==
    LET file == IF ForgeInventory \in Files(c.base) THEN ForgeInventory ELSE LegacyInventory
    IN load_inventory(c.base, file) \cup SplitImports

ImportCount(inventory, module) == Cardinality({e \in inventory : e[2] = module})

\* Mutant: the facade may take an import over without anyone giving it up.
MutantFacadeMayAdd(item, now, before) == item[1] = Facade

\* The one way to add an entry: the facade takes over an import, and fewer
\* files import the module than did.
is_replacing_import(item, now, before) ==
    /\ item[1] = Facade
    /\ item[2] \in ValidatorModules
    /\ ImportCount(now, item[2]) < ImportCount(before, item[2])

forge_import_messages(c) ==
    LET imports == devloop_forge_imports(c.head)
        inventory == load_inventory(c.head, ForgeInventory)
        before == forge_imports_at_base(c)
    IN (IF ForgeInventory \in Files(c.head) THEN {} ELSE {"inventory required"})
       \cup {"validator outside facade" : i \in {x \in imports :
                x[2] \in ValidatorModules /\ x[1] # Facade}}
       \cup {"unlisted import" : i \in (imports \ inventory) \ SanctionedImports}
       \cup {"stale import" : i \in inventory \ imports}
       \cup (IF ~c.resolved THEN {ConfigurationFailure}
             ELSE IF {ForgeInventory, LegacyInventory} \cap Files(c.base) = {} THEN {}
             ELSE {"inventory grows" : i \in {x \in inventory \ before :
                      ~is_replacing_import(x, inventory, before)}})

(***************************************************************************)
(* Cross-package queue edges and the tests that exercise them              *)
(* (check_repo_integration_coverage.py).  A department's file holds        *)
(* <<"consumes", queue>> and <<"produces", queue>>; a queue is <<name>> or *)
(* <<package, name>>.                                                      *)
(***************************************************************************)

IntegrationAllowlist == "integration-edge-coverage.allowlist"
IntegrationExclusions == "integration-edge-coverage.exclusions"
Departments ==
    [f \in {"forge/poll", "loop/start", "ops/census"} |->
        IF f = "forge/poll" THEN [package |-> "forge", kind |-> "platform"]
        ELSE IF f = "loop/start" THEN [package |-> "loop", kind |-> "platform"]
        ELSE [package |-> "ops", kind |-> "host"]]

normalize_queue(package, queue) == IF Len(queue) = 2 THEN queue ELSE <<package>> \o queue

DepartmentQueues(tree, file, field) ==
    {normalize_queue(Departments[file].package, l[2]) :
        l \in {x \in Lines(tree, file) : x[1] = field}}

\* A queue that one package produces and another consumes.  Run for a host,
\* edges between two platform packages are the platform's own business.
cross_package_edge_records(tree, host) ==
    {e \in [queue : UNION {DepartmentQueues(tree, f, "consumes") : f \in DOMAIN Departments},
            producer : DOMAIN Departments, consumer : DOMAIN Departments] :
        /\ e.queue \in DepartmentQueues(tree, e.producer, "produces")
        /\ e.queue \in DepartmentQueues(tree, e.consumer, "consumes")
        /\ Departments[e.producer].package # Departments[e.consumer].package
        /\ host => "host" \in {Departments[e.producer].kind, Departments[e.consumer].kind}}

\* The id of an edge does not name its producer.
edge_id(e) == <<e.queue[1], e.queue[2], e.consumer>>

observed_edges(tree) == Lines(tree, "tests/run_graph.lua")

edge_status(id, tree) ==
    IF id \in observed_edges(tree) THEN "covered"
    ELSE IF id \in load_allowlist(tree, IntegrationAllowlist) THEN "uncovered-allowlisted"
    ELSE IF id \in load_allowlist(tree, IntegrationExclusions) THEN "excluded"
    ELSE "uncovered-UNLISTED"

integration_messages(c) ==
    LET edges == {edge_id(e) : e \in cross_package_edge_records(c.head, FALSE)}
        observed == observed_edges(c.head)
        listed == load_allowlist(c.head, IntegrationAllowlist)
        excluded == load_allowlist(c.head, IntegrationExclusions)
    IN {"listed and excluded" : e \in listed \cap excluded}
       \cup {"uncovered edge" : e \in (edges \ observed) \ (listed \cup excluded)}
       \cup {"stale: covered" : e \in listed \cap observed}
       \cup {"stale: no such edge" : e \in (listed \cup excluded) \ edges}

(***************************************************************************)
(* Producers that must be seen to fire (check_repo_producer_liveness.py).  *)
(* A raiser is <<package, name, queue>>; a test <<package, words of its    *)
(* name, raiser fired, the trace is asserted>>; a contract <<package,      *)
(* trigger queue, fixture>>.                                               *)
(***************************************************************************)

LivenessAllowlist == "producer-liveness.allowlist"

declared_raisers(tree) == Lines(tree, "raisers.lua")

\* Firing a raiser counts when the test asserts on the trace it returns.
covered_raisers(tree, package, fixture) ==
    {t[3] : t \in {x \in Lines(tree, "raiser_test.lua") :
        x[1] = package /\ (fixture = "" \/ fixture \in x[2]) /\ x[4]}}

contract_messages(contract, c) ==
    LET matching == {r \in declared_raisers(c.head) : r[1] = contract[1] /\ r[3] = contract[2]}
        raiser == CHOOSE r \in matching : TRUE
    IN IF matching = {} THEN {"no matching raiser"}
       ELSE IF Cardinality(matching) > 1 THEN {"several matching raisers"}
       ELSE IF <<raiser[1], raiser[2]>> \in load_allowlist(c.head, LivenessAllowlist) THEN {}
       ELSE IF raiser[2] \in covered_raisers(c.head, contract[1], contract[3]) THEN {}
       ELSE {"fixture not covered"}

producer_debt(tree) ==
    {<<r[1], r[2]>> : r \in {x \in declared_raisers(tree) : x[2] \notin covered_raisers(tree, x[1], "")}}

producer_liveness_messages(c) ==
    shrink_only(producer_debt(c.head), c, LivenessAllowlist)
    \cup UNION {contract_messages(k, c) : k \in Lines(c.head, "contracts.lua")}

(***************************************************************************)
(* Policy slots (check_repo_intake_routing.py).  The manifest's lines are  *)
(* <<slot, package, topology>>; each slot has one consumer queue.          *)
(***************************************************************************)

IntakeSlot == "intake-policy"
IntakePackage == "intake"
LifecycleQueues == {"ready", "reviewing", "merge"}

SlotNames(tree) == {l[1] : l \in Lines(tree, "policy_slots.json")}

Implementations(tree, slot) == {l \in Lines(tree, "policy_slots.json") : l[1] = slot}

SlotPackages(tree, slot) == {l[2] : l \in Implementations(tree, slot)}

policy_slot_messages(tree) ==
    IF \/ SlotNames(tree) = {}
       \/ \E slot \in SlotNames(tree) :
            LET impl == Implementations(tree, slot)
            IN \/ Cardinality(impl) < 2
               \/ \E x, y \in impl : x # y /\ (x[2] = y[2] \/ x[3] = y[3])
    THEN {"invalid manifest"}
    ELSE IF IntakeSlot \notin SlotNames(tree) THEN {"missing intake slot"} ELSE {}

\* One implementation per slot; every other implementation is left out.
legal_topologies(tree) ==
    LET choices == {f \in [SlotNames(tree) -> Lines(tree, "policy_slots.json")] :
                      \A slot \in SlotNames(tree) : f[slot] \in Implementations(tree, slot)}
    IN {UNION {SlotPackages(tree, slot) \ {f[slot][2]} : slot \in SlotNames(tree)} : f \in choices}

topology_exclusivity_messages(tree, loaded) ==
    {"not exactly one" : slot \in {s \in SlotNames(tree) :
        Cardinality(SlotPackages(tree, s) \cap loaded) # 1}}

\* A line of the departments is <<package, "consumes" or "produces", queue>>.
candidate_consumers(tree) ==
    {l[1] : l \in {x \in Lines(tree, "departments.lua") : x[2] = "consumes" /\ x[3] = "candidate"}}

\* Mutant: somebody reads the queue, whoever it is.
MutantAnyConsumer(tree) ==
    IF candidate_consumers(tree) # {} THEN {} ELSE {"unexpected candidate consumers"}

candidate_consumer_messages(tree) ==
    IF candidate_consumers(tree) # {} /\ candidate_consumers(tree) \subseteq SlotPackages(tree, IntakeSlot)
    THEN {} ELSE {"unexpected candidate consumers"}

\* The intake package only judges: no raiser of its own, nothing that moves
\* an issue on, no list of issues, no state marker.
intake_static_messages(tree) ==
    {"lifecycle queue" : l \in {x \in Lines(tree, "departments.lua") :
        x[1] = IntakePackage /\ x[2] = "produces" /\ x[3] \in LifecycleQueues \cup {"consensus.proposal"}}}
    \cup {"intake token" : t \in Lines(tree, "intake.lua") \cap {"raiser", "issue_list", "state_marker"}}

intake_messages(c) ==
    intake_static_messages(c.head) \cup policy_slot_messages(c.head)
    \cup (IF policy_slot_messages(c.head) # {} THEN {} ELSE candidate_consumer_messages(c.head))

(***************************************************************************)
(* Queue names in departments (check_repo_namespaced_queue.py) and the     *)
(* known request-reply dialogues (check_repo_fanout_only.py).  A line of a *)
(* department is a string it holds, or the comparison of event.queue.      *)
(***************************************************************************)

DialogueAllowlist == "request-reply-message.allowlist"
ClientDepartment == "loop/decide.lua"
ReplyQueues == {"consensus.reached", "consensus.converge"}

\* The event arrives under the namespaced name: a comparison with the bare
\* name of an own queue never holds.
bare_own_queue_compare_messages(tree) ==
    {"bare queue compared" : l \in {x \in Lines(tree, ClientDepartment) :
        x[1] = "compares" /\ <<"consumes", x[2]>> \in Lines(tree, ClientDepartment) /\ x[2] = "tick"}}

has_origin_filter(tree) == <<"filter", "proposal_id">> \in Lines(tree, ClientDepartment)

source_surfaces(tree) ==
    LET strings == {l[2] : l \in Lines(tree, ClientDepartment)}
    IN {<<"request-producer", q>> : q \in strings \cap {"consensus.proposal"}}
       \cup {<<"reply-consumer", q>> : q \in strings \cap ReplyQueues}
       \cup {<<"origin-filter", q>> : q \in IF has_origin_filter(tree) THEN strings \cap ReplyQueues ELSE {}}

manifest_surfaces(tree) ==
    {<<"event-dep", d>> : d \in Lines(tree, "loop/fkst.toml") \cap {"consensus"}}

dialogue_messages(c) ==
    shrink_only(source_surfaces(c.head) \cup manifest_surfaces(c.head), c, DialogueAllowlist)
    \cup bare_own_queue_compare_messages(c.head)

=============================================================================
