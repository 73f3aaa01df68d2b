------------------------------ MODULE CasCatalog ------------------------------
(***************************************************************************)
(* The lifecycle graph of libraries/devloop/state_labels.lua, the derived  *)
(* current state of libraries/devloop/state.lua, and the compare-and-set   *)
(* decisions of libraries/devloop/restart_cas_catalog.lua.                 *)
(*                                                                         *)
(* No department stores a state.  The state of an issue is derived from    *)
(* the trusted markers in its comments each time it is needed: the newest  *)
(* version wins, then the highest stage rank, then the earlier comment.    *)
(***************************************************************************)
EXTENDS TransitionVersion

States ==
    {"unmanaged", "thinking", "dependency_wait", "ready", "implementing",
     "awaiting-pr", "pr-open", "reviewing", "merge-ready", "merging",
     "fixing", "review-meta", "impl-failed", "declined", "blocked",
     "closed-unmerged", "merged"}

stage_rank(s) ==
    CASE s = "thinking" -> 100
      [] s \in {"dependency_wait", "ready"} -> 500
      [] s = "implementing" -> 600
      [] s = "awaiting-pr" -> 625
      [] s = "pr-open" -> 650
      [] s = "reviewing" -> 675
      [] s = "merge-ready" -> 690
      [] s = "merging" -> 695
      [] s = "fixing" -> 700
      [] s = "review-meta" -> 710
      [] s = "impl-failed" -> 750
      [] s \in {"declined", "blocked"} -> 800
      [] s = "closed-unmerged" -> 825
      [] s = "merged" -> 900
      [] OTHER -> 0

state_successors(s) ==
    CASE s = "unmanaged" -> {"thinking"}
      [] s = "thinking" -> {"dependency_wait", "ready", "declined", "blocked"}
      [] s = "dependency_wait" -> {"dependency_wait", "ready", "blocked"}
      [] s = "ready" -> {"dependency_wait", "implementing", "blocked"}
      [] s = "implementing" -> {"awaiting-pr", "dependency_wait", "blocked", "impl-failed"}
      [] s = "awaiting-pr" -> {"merged", "ready", "blocked"}
      [] s = "pr-open" -> {"reviewing", "blocked"}
      [] s = "reviewing" -> {"merge-ready", "fixing", "review-meta"}
      [] s = "merge-ready" -> {"merging", "blocked"}
      [] s = "merging" -> {"merged", "reviewing", "fixing", "blocked"}
      [] s = "fixing" -> {"reviewing", "review-meta", "blocked"}
      [] s = "review-meta" -> {"fixing", "reviewing", "blocked"}
      [] s = "impl-failed" -> {"implementing"}
      [] OTHER -> {}

-----------------------------------------------------------------------------
(* The pending projection of one owner: from which states may a source     *)
(* state still become visible.                                             *)

excluded_successors(s) ==
    CASE s = "thinking" -> {"declined"}
      [] s = "fixing" -> {"blocked"}
      [] OTHER -> {}

owner_sources(owner) ==
    CASE owner = "github-devloop" ->
            {"unmanaged", "thinking", "dependency_wait", "ready",
             "implementing", "awaiting-pr", "impl-failed"}
      [] owner = "github-devloop-pr" ->
            {"pr-open", "reviewing", "merge-ready", "merging", "fixing", "review-meta"}

projection(owner) ==
    {e \in owner_sources(owner) \X States :
        e[2] \in state_successors(e[1]) \ excluded_successors(e[1])}

(* The states visited by at most n edges from s: can_reach walks the       *)
(* projection depth first and counts the start state itself.               *)
Visited(edges, s) ==
    LET visit[n \in Nat] ==
            IF n = 0 THEN {s}
            ELSE LET seen == visit[n - 1]
                 IN  seen \cup {e[2] : e \in {e \in edges : e[1] \in seen}}
    IN  visit[Cardinality(States)]

(* Reaches[s] for the owner of the issue lifecycle.                        *)
Reaches == [s \in States |-> Visited(projection("github-devloop"), s)]

can_reach(from, to) == to \in Reaches[from]

-----------------------------------------------------------------------------
(* The derived current state.  A comment is a record whose fields state    *)
(* and version are its state marker; state "none" is a comment without     *)
(* one.                                                                    *)

NoVersion == Entry(0)

Unmanaged == [state |-> "unmanaged", version |-> NoVersion]

MarkerPlaces(comments) == {i \in 1..Len(comments) : comments[i].state # "none"}

(* The state markers of the comments, with all that decides between them.  *)
StateMarkers(comments) ==
    {[state |-> comments[i].state, version |-> comments[i].version,
      key |-> version_sort_key(comments[i].version), place |-> i] : i \in MarkerPlaces(comments)}

(* b is preferred to a.                                                    *)
compare_state_marker(a, b) ==
    \/ KeyLess(a.key, b.key)
    \/ /\ a.key = b.key
       /\ \/ stage_rank(b.state) > stage_rank(a.state)
          \/ stage_rank(b.state) = stage_rank(a.state) /\ b.place < a.place

Preferred(markers) ==
    {[state |-> m.state, version |-> m.version] :
        m \in {m \in markers : \A o \in markers : ~compare_state_marker(m, o)}}

(* The set of the one state that the comments determine.                   *)
current_state(comments) ==
    IF MarkerPlaces(comments) = {} THEN {Unmanaged}
    ELSE UNION {Preferred(markers) : markers \in {StateMarkers(comments)}}

-----------------------------------------------------------------------------
(* Compare-and-set decisions.                                              *)

Statuses == {"apply", "idempotent", "pending", "stale"}

plain_status(current, sources, target) ==
    IF current.state = target THEN "idempotent"
    ELSE IF current.state \in sources THEN "apply"
    ELSE IF \E s \in sources : can_reach(current.state, s) THEN "pending"
    ELSE "stale"

MutantVersionedStatus(current, sources, target, incoming) ==
    IF current # Unmanaged /\ compare(incoming, current.version) <= 0
    THEN "stale"
    ELSE plain_status(current, sources, target)

versioned_status(current, sources, target, incoming) ==
    IF current # Unmanaged /\ compare(incoming, current.version) < 0
    THEN "stale"
    ELSE plain_status(current, sources, target)

(* resolve_implement for a first attempt: an implementing or failed issue  *)
(* is done, a recheck is satisfied by the source state whatever its        *)
(* version, and a pending decision is overridden by a verified hand-off.   *)
resolve_implement(phase, current, incoming, handoff) ==
    LET base == versioned_status(current, {"ready"}, "implementing", incoming)
    IN  IF phase = "initial" /\ current.state \in {"implementing", "impl-failed"}
        THEN "idempotent"
        ELSE IF phase = "recheck" /\ current.state = "ready" THEN "apply"
        ELSE IF base = "pending" /\ handoff THEN "apply"
        ELSE base

=============================================================================
