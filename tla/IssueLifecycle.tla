---------------------------- MODULE IssueLifecycle ----------------------------
(***************************************************************************)
(* One issue of packages/github-devloop from its first observation to the  *)
(* start of its implementation.                                            *)
(*                                                                         *)
(* The departments of the package are event handlers.  Each one reads the  *)
(* issue's comments from GitHub, derives the current state, decides a      *)
(* compare-and-set, and raises requests and events; github-proxy later     *)
(* writes the requested comments.  The handlers of one issue exclude each  *)
(* other by a lock, but a lock is released long before the comment that    *)
(* was decided under it is written, so every decision is made on state     *)
(* that other decisions may already have overtaken.                        *)
(*                                                                         *)
(* The engine delivers at least once: a handler that fails after some of   *)
(* its raises gets its event again, and a comment that was written may not *)
(* yet be returned by a read.  A behaviour has at most MaxFaults of these. *)
(***************************************************************************)
EXTENDS CasCatalog

CONSTANTS
    Outcomes,      \* the decisions that consensus may reach
    Verdicts,      \* digests of the angle verdicts of a convergence round
    Essences,      \* whether a round may report an essence stall
    Redrives,      \* whether a replay may carry its own delivery identity
    MemoVolatile,  \* whether the consensus memo may lose an entry
    MaxRound,      \* rounds at which consensus may still fail to converge
    MaxEdits,      \* edits of the issue and operator starts
    MaxFlips,      \* changes of the dependency gate
    MaxFaults      \* redeliveries, lagging writes, lost workers, lost memos

Decisions == {"approve", "reject"}

ASSUME OutcomesAssumption == Outcomes \subseteq Decisions
ASSUME VerdictsAssumption == Verdicts \subseteq Nat \ {0}
ASSUME ChoicesAssumption ==
    /\ Essences \subseteq BOOLEAN
    /\ Redrives \subseteq BOOLEAN
    /\ MemoVolatile \in BOOLEAN
ASSUME BoundsAssumption ==
    /\ MaxRound \in Nat
    /\ MaxEdits \in Nat
    /\ MaxFlips \in Nat
    /\ MaxFaults \in Nat

VARIABLES
    updated_at,    \* the issue's updated_at timestamp
    comments,      \* the trusted comments of the issue, in creation order
    visible,       \* how many of them a read of the issue returns
    queues,        \* the undelivered messages of each queue
    memo,          \* results remembered by the consensus library
    gate,          \* the dependency gate: satisfied, waiting or blocked
    wip_free,      \* whether the WIP capacity allows a start
    edits, flips, faults

vars == <<updated_at, comments, visible, queues, memo, gate, wip_free, edits, flips, faults>>

-----------------------------------------------------------------------------
(* Data.                                                                   *)

Kinds == {"thinking", "result", "divergence", "round", "reconcile", "hold",
          "release", "split", "gate-blocked", "implementing"}

(* What a comment's dedup marker is made of.  Of the two versions of a key *)
(* only "split" uses the second, and only "round" and "reconcile" use n.   *)
Keys == [kind : Kinds, v : Versions, w : Versions, n : Nat]

RoundKey(kind, v, n) == [kind |-> kind, v |-> v, w |-> NoVersion, n |-> n]

Key(kind, v) == RoundKey(kind, v, 0)

SplitKey(from, to) == [kind |-> "split", v |-> from, w |-> to, n |-> 0]

(* state and version are the state marker; for a round comment version is  *)
(* the epoch, and verdict 0 means that it carries no round marker.         *)
Comments == [key : Keys, state : States \cup {"none"}, version : Versions,
             decision : Decisions \cup {"none"}, verdict : Nat, essence : BOOLEAN]

Comment(key, state, version) ==
    [key |-> key, state |-> state, version |-> version,
     decision |-> "none", verdict |-> 0, essence |-> FALSE]

(* What github-proxy is to report once the comment is written: for ready,  *)
(* the version of the comment's state marker; for reconcile, the epoch.    *)
Handoffs == [kind : {"none", "ready", "reconcile"}, version : Versions, n : Nat]

Handoff(kind, version, n) == [kind |-> kind, version |-> version, n |-> n]

NoHandoff == Handoff("none", NoVersion, 0)

ReadyHandoff(marker_version) == Handoff("ready", marker_version, 0)

ReconcileHandoff(epoch, round) == Handoff("reconcile", epoch, round)

Queues == {"start", "request", "reached", "continue", "comment", "written",
           "ready", "plan", "reconcile"}

Proposals == [dedup : Versions, effect : BOOLEAN, round : Nat]

(* A reached decision in the hands of a worker, with the event it handles. *)
Results == [proposal : Proposals, effect : BOOLEAN, decision : Decisions]

Memos == [dedup : Versions, effect : BOOLEAN, decision : Decisions]

Readies == [dedup : Versions, marker : Versions, id : Nat, handoff : BOOLEAN]

Messages(q) ==
    CASE q = "start" -> Versions
      [] q = "request" -> Proposals
      [] q = "reached" -> Results
      [] q = "continue" -> [dedup : Versions, round : Nat, verdict : Nat, essence : BOOLEAN]
      [] q = "comment" -> [comment : Comments, handoff : Handoffs]
      [] q = "written" -> [id : Nat, handoff : Handoffs]
      [] q = "ready" -> Readies
      [] q = "plan" -> Readies
      [] q = "reconcile" -> [base_version : Versions, round : Nat]

Raise(q, m) == [queue |-> q, msg |-> m]

CommentRequest(comment, handoff) ==
    Raise("comment", [comment |-> comment, handoff |-> handoff])

-----------------------------------------------------------------------------
(* Delivery.  A handler's raises are published one by one; if it fails     *)
(* between two of them its event, still unacknowledged, is delivered       *)
(* again.                                                                  *)

Published(raises, k, q) ==
    {raises[i].msg : i \in {i \in 1..k : raises[i].queue = q}}

Publish(raises, k, q, handled) ==
    queues' = [p \in Queues |->
                 (IF p = q THEN queues[p] \ handled ELSE queues[p])
                     \cup Published(raises, k, p)]

(* The handler of event e of queue q, which raises these messages.         *)
Handle(q, e, raises) ==
    \/ Publish(raises, Len(raises), q, {e}) /\ UNCHANGED faults
    \/ /\ faults > 0
       /\ faults' = faults - 1
       /\ \E k \in 0..Len(raises) : Publish(raises, k, q, {})

(* The rest of a handler, from work w that the handler of this event holds *)
(* in memory.  If it fails, the work is lost and the event is delivered    *)
(* again.                                                                  *)
Work(q, w, raises, event) ==
    \/ Publish(raises, Len(raises), q, {w}) /\ UNCHANGED faults
    \/ /\ faults > 0
       /\ faults' = faults - 1
       /\ \E k \in 1..(Len(raises) + 1) : Publish(<<event>> \o raises, k, q, {w})

(* A handler that raises an error on every attempt: after the last one the *)
(* event goes to the dead letters.                                         *)
DeadLetter(q, e) == Publish(<<>>, 0, q, {e}) /\ UNCHANGED faults

(* What a read of the issue returns.                                       *)
seen == SubSeq(comments, 1, visible)

-----------------------------------------------------------------------------
(* Facts derived from the comments that a read returns.                    *)

HasKey(cs, key) == \E i \in 1..Len(cs) : cs[i].key = key

has_state_marker(cs, state, version) ==
    \E i \in 1..Len(cs) : cs[i].state = state /\ cs[i].version = version

(* Any marker of the issue counts, whatever its version.                   *)
reached(cs, milestone) ==
    \E i \in MarkerPlaces(cs) : stage_rank(cs[i].state) >= stage_rank(milestone)

ResultIndices(cs) == {i \in 1..Len(cs) : cs[i].key.kind = "result"}

StartIndices(cs) == {i \in 1..Len(cs) : cs[i].state = "implementing"}

(* The marker carries the consensus dedup key, not the logical identity.   *)
has_result_marker(cs, decision, dedup) ==
    \E i \in ResultIndices(cs) :
        /\ cs[i].decision = decision
        /\ DropPrefix(cs[i].key.v, "consensus") = dedup

(* The decisions of the result markers for one logical identity; the first *)
(* of them in comment order is the admitted one.                           *)
ResultPlaces(cs, version) ==
    {i \in ResultIndices(cs) : cs[i].key.v = version}

first_result_fact(cs, version) ==
    cs[CHOOSE i \in ResultPlaces(cs, version) :
          \A j \in ResultPlaces(cs, version) : i <= j].decision

(* A hold counts only for the version that is current.                     *)
dependency_hold_fact(cs, current) ==
    \E i \in 1..Len(cs) :
        /\ \/ cs[i].key.kind = "hold"
           \/ cs[i].key.kind = "split" /\ cs[i].state = "dependency_wait"
        /\ cs[i].version = current.version

ready_split_canonicalized_fact(cs, version) ==
    \E i \in 1..Len(cs) : cs[i].key.kind = "split" /\ cs[i].key.v = version

has_reconcile_marker(cs, base_version, round) ==
    HasKey(cs, RoundKey("reconcile", base_version, round))

ready_hand_off_comment_ids(cs, version) ==
    {i \in 1..Len(cs) : cs[i].state = "ready" /\ cs[i].version = version}

(* The convergence rounds recorded for an epoch.  When two comments record *)
(* the same round, the later one counts.                                   *)
RoundPlaces(cs, epoch) ==
    {i \in 1..Len(cs) :
        cs[i].key.kind = "round" /\ cs[i].verdict # 0 /\ cs[i].version = epoch}

RecordedRounds(cs, epoch) == {cs[i].key.n : i \in RoundPlaces(cs, epoch)}

converge_round_facts_for_epoch(cs, epoch) ==
    [n \in RecordedRounds(cs, epoch) |->
        cs[MaxNat({i \in RoundPlaces(cs, epoch) : cs[i].key.n = n})]]

append_converge_round_fact(facts, n, fact) ==
    [m \in (DOMAIN facts) \cup {n} |-> IF m = n THEN fact ELSE facts[m]]

MutantStallOfTwo(facts, n) ==
    /\ n >= 2
    /\ {n, n - 1} \subseteq DOMAIN facts
    /\ facts[n].verdict = facts[n - 1].verdict

MutantStallTooLate(facts, n) ==
    /\ n > 3
    /\ {n, n - 1, n - 2} \subseteq DOMAIN facts
    /\ facts[n].verdict = facts[n - 1].verdict
    /\ facts[n - 1].verdict = facts[n - 2].verdict

is_true_stall(facts, n) ==
    /\ n >= 3
    /\ {n, n - 1, n - 2} \subseteq DOMAIN facts
    /\ facts[n].verdict = facts[n - 1].verdict
    /\ facts[n - 1].verdict = facts[n - 2].verdict

terminal_cause(facts, n) ==
    \/ \E m \in DOMAIN facts : facts[m].essence
    \/ is_true_stall(facts, n)

converge_proposal_base_dedup(dedup) ==
    DropPrefix(strip_trailing_loop(dedup), "consensus")

reconcile_terminal_state_version(version, round) ==
    loop_at(version, MaxNat({max_round(version, "loop") + 1, round}))

-----------------------------------------------------------------------------
(* Entry: observe_issue finds an unmanaged issue, or an operator starts    *)
(* its execution.                                                          *)

ThinkingComment(version) == Comment(Key("thinking", version), "thinking", version)

Proposal(dedup, effect, round) == [dedup |-> dedup, effect |-> effect, round |-> round]

(* The poller delivers the issue again and again, so an observation needs  *)
(* no event; one that fails between its raises costs a fault.              *)
Observe(raises) ==
    /\ \/ Publish(raises, Len(raises), "start", {}) /\ UNCHANGED faults
       \/ /\ faults > 0
          /\ faults' = faults - 1
          /\ \E k \in 1..(Len(raises) - 1) : Publish(raises, k, "start", {})
    /\ UNCHANGED <<updated_at, comments, visible, memo, gate, wip_free, edits, flips>>

ObserveEntry(cur) ==
    LET version == Entry(updated_at)
    IN  /\ versioned_status(cur, {"unmanaged"}, "thinking", version) = "apply"
        /\ Observe(<< Raise("request", Proposal(version, FALSE, 0)),
                      CommentRequest(ThinkingComment(version), NoHandoff) >>)

(* The operator's start carries the issue's updated_at.                    *)
RequestStart ==
    /\ edits > 0
    /\ edits' = edits - 1
    /\ queues' = [queues EXCEPT !["start"] = @ \cup {Entry(updated_at)}]
    /\ UNCHANGED <<updated_at, comments, visible, memo, gate, wip_free, flips, faults>>

(* execute_start decides no compare-and-set: it enters thinking whatever   *)
(* the current state is.                                                   *)
ExecuteStart(version) ==
    /\ version \in queues["start"]
    /\ Handle("start", version,
              << CommentRequest(ThinkingComment(version), NoHandoff),
                 Raise("request", Proposal(version, TRUE, 0)) >>)
    /\ UNCHANGED <<updated_at, comments, visible, memo, gate, wip_free, edits, flips>>

-----------------------------------------------------------------------------
(* Consensus.                                                              *)

(* A run of the consensus library for a proposal ends.  A remembered       *)
(* result of the same lineage replaces the result of the run.              *)
MutantRememberedByEffect(proposal) ==
    {m \in memo : m.dedup = proposal.dedup /\ m.effect = proposal.effect}

MutantNotRemembered(proposal) == {m \in memo : m.dedup = proposal}

Remembered(proposal) == {m \in memo : m.dedup = proposal.dedup}

ReachDecision(p) ==
    /\ p \in queues["request"]
    /\ \E d \in Outcomes :
          LET new == [dedup |-> p.dedup, effect |-> p.effect, decision |-> d]
              known == Remembered(p)
          IN  \E m \in IF known = {} THEN {new} ELSE known :
                /\ memo' = memo \cup {m}
                /\ Publish(<<Raise("reached", [proposal |-> p, effect |-> m.effect,
                                             decision |-> m.decision])>>, 1, "request", {p})
    /\ UNCHANGED <<updated_at, comments, visible, gate, wip_free, edits, flips, faults>>

ReachConverge(p) ==
    /\ p \in queues["request"]
    /\ Remembered(p) = {}
    /\ p.round < MaxRound
    /\ \E verdict \in Verdicts, essence \in Essences :
          Handle("request", p,
                 <<Raise("continue", [dedup |-> AddPrefix(p.dedup, "consensus"), round |-> p.round,
                                      verdict |-> verdict, essence |-> essence])>>)
    /\ UNCHANGED <<updated_at, comments, visible, memo, gate, wip_free, edits, flips>>

(* The run is deferred: the event is acknowledged without an effect.       *)
ReachDeferred(p) ==
    /\ p \in queues["request"]
    /\ faults > 0
    /\ faults' = faults - 1
    /\ Remembered(p) = {}
    /\ Publish(<<>>, 0, "request", {p})
    /\ UNCHANGED <<updated_at, comments, visible, memo, gate, wip_free, edits, flips>>

(* The worker that holds a reached decision fails, and its event is        *)
(* delivered again.                                                        *)
WorkerLost(r) ==
    /\ r \in queues["reached"]
    /\ faults > 0
    /\ faults' = faults - 1
    /\ Publish(<<Raise("request", r.proposal)>>, 1, "reached", {r})
    /\ UNCHANGED <<updated_at, comments, visible, memo, gate, wip_free, edits, flips>>

(* The memo is a cache of the engine's runtime directory.                  *)
MemoLost(m) ==
    /\ MemoVolatile
    /\ m \in memo
    /\ faults > 0
    /\ faults' = faults - 1
    /\ memo' = memo \ {m}
    /\ UNCHANGED <<updated_at, comments, visible, queues, gate, wip_free, edits, flips>>

result_version(r) ==
    IF r.effect THEN r.proposal.dedup ELSE AddPrefix(r.proposal.dedup, "consensus")

GateSatisfied(r) == r.decision = "reject" \/ gate = "satisfied"

MutantStateIsDecision(r) == r.decision

MutantIgnoresDecision(r) == IF gate = "satisfied" THEN "ready" ELSE "dependency_wait"

ResultState(r) ==
    IF r.decision = "reject" THEN "declined"
    ELSE IF gate = "satisfied" THEN "ready" ELSE "dependency_wait"

HoldComment(version) == Comment(Key("hold", version), "none", version)

result_comment(r) ==
    LET version == result_version(r)
    IN  CommentRequest([key |-> Key("result", version), state |-> ResultState(r),
                        version |-> version, decision |-> r.decision,
                        verdict |-> 0, essence |-> FALSE],
                       IF ResultState(r) = "ready" THEN ReadyHandoff(version) ELSE NoHandoff)

(* The result comment, unless the result and its state are visible, and    *)
(* the hold comment of an approved issue whose dependencies are not done.  *)
raise_result_effects(cur, r) ==
    LET resultVisible ==
            /\ has_result_marker(seen, r.decision, r.proposal.dedup)
            /\ cur.state = ResultState(r)
        holdNeeded == ~GateSatisfied(r) /\ ~dependency_hold_fact(seen, cur)
    IN  (IF resultVisible THEN <<>> ELSE <<result_comment(r)>>)
        \o (IF holdNeeded
            THEN <<CommentRequest(HoldComment(result_version(r)), NoHandoff)>>
            ELSE <<>>)

Admitted(r) == ResultPlaces(seen, result_version(r)) # {}

Diverges(r) ==
    Admitted(r) /\ first_result_fact(seen, result_version(r)) # r.decision

(* labelled: the labels the effects ask for are on the issue.              *)
result_effects_complete(cur, r, labelled) ==
    /\ labelled
    /\ \/ /\ GateSatisfied(r)
          /\ Admitted(r)
          /\ reached(seen, IF r.decision = "reject" THEN "declined" ELSE "ready")
       \/ /\ has_state_marker(seen, "dependency_wait", result_version(r))
          /\ dependency_hold_fact(seen, cur)

decide_result_transition(cur, r) ==
    versioned_status(cur, {"thinking"}, ResultState(r), result_version(r))

ConsensusResult(cur, r) ==
    LET event == Raise("request", r.proposal)
        status == decide_result_transition(cur, r)
        incomplete == status = "idempotent" /\ cur.version = result_version(r)
    IN  /\ r \in queues["reached"]
        /\ \/ /\ Diverges(r)
              /\ Work("reached", r,
                   <<CommentRequest(Comment(Key("divergence", result_version(r)), "none", NoVersion),
                                    NoHandoff)>>, event)
           \/ /\ ~Diverges(r)
              /\ \E labelled \in BOOLEAN :
                   LET complete == result_effects_complete(cur, r, labelled)
                   IN  \/ /\ \/ Admitted(r) /\ complete
                             \/ incomplete /\ complete
                             \/ status \in {"idempotent", "stale"} /\ ~incomplete
                          /\ Work("reached", r, <<>>, event)
                       \/ /\ ~(Admitted(r) /\ complete)
                          /\ status = "apply" \/ (incomplete /\ ~complete)
                          /\ Work("reached", r, raise_result_effects(cur, r), event)
                       \/ /\ ~(Admitted(r) /\ complete)
                          /\ status = "pending"
                          /\ DeadLetter("reached", r)
        /\ UNCHANGED <<updated_at, comments, visible, memo, gate, wip_free, edits, flips>>

-----------------------------------------------------------------------------
(* Convergence: the loop department records a round that did not converge  *)
(* and asks for the next one, or hands the issue to reconcile.             *)

RoundComment(dedup, n, epoch, verdict, essence) ==
    [key |-> RoundKey("round", dedup, n), state |-> "none", version |-> epoch,
     decision |-> "none", verdict |-> verdict, essence |-> essence]

Max0(S) == MaxNat(S \cup {0})

MutantNextRound(facts, round) == round >= Cardinality(DOMAIN facts)

(* A round is recorded only as the next one of its epoch.                  *)
NextRound(facts, round) ==
    round = IF DOMAIN facts = {} THEN 0 ELSE Max0(DOMAIN facts) + 1

Loop(cur, facts, e) ==
    LET status == plain_status(cur, {"thinking"}, "blocked")
        epoch == cur.version
        latest == Max0(DOMAIN facts)
        record == RoundComment(e.dedup, e.round, epoch, e.verdict, e.essence)
        next == loop_at(converge_proposal_base_dedup(e.dedup), e.round + 1)
    IN  /\ e \in queues["continue"]
        /\ \/ /\ status \in {"idempotent", "stale"}
              /\ Handle("continue", e, <<>>)
           \/ /\ status = "pending"
              /\ DeadLetter("continue", e)
           \/ /\ status = "apply"
              /\ terminal_cause(facts, latest)
              /\ Handle("continue", e,
                   <<CommentRequest(RoundComment(facts[latest].key.v, latest, NoVersion, 0, FALSE),
                                    ReconcileHandoff(epoch, latest))>>)
           \/ /\ status = "apply"
              /\ ~terminal_cause(facts, latest)
              /\ ~NextRound(facts, e.round)
              /\ Handle("continue", e, <<>>)
           \/ /\ status = "apply"
              /\ ~terminal_cause(facts, latest)
              /\ NextRound(facts, e.round)
              /\ IF terminal_cause(append_converge_round_fact(facts, e.round, record), e.round)
                 THEN Handle("continue", e,
                        <<CommentRequest(record, ReconcileHandoff(epoch, e.round))>>)
                 ELSE Handle("continue", e,
                        << Raise("request", Proposal(next, FALSE, e.round + 1)),
                           CommentRequest(record, NoHandoff) >>)
        /\ UNCHANGED <<updated_at, comments, visible, memo, gate, wip_free, edits, flips>>

BlockedComment(epoch, round) ==
    Comment(RoundKey("reconcile", epoch, round), "blocked",
            reconcile_terminal_state_version(epoch, round))

ReconcileStatus(cur, epoch, round) ==
    versioned_status(cur, {"thinking"}, "blocked",
                     reconcile_terminal_state_version(epoch, round))

Reconcile(cur, e) ==
    LET mine == cur.state = "thinking" /\ e.base_version = cur.version
    IN  /\ e \in queues["reconcile"]
        /\ \/ /\ \/ has_reconcile_marker(seen, e.base_version, e.round)
                 \/ cur.state # "unmanaged" /\ ~mine
                 \/ mine /\ ReconcileStatus(cur, e.base_version, e.round) \in {"idempotent", "stale"}
              /\ Handle("reconcile", e, <<>>)
           \/ /\ cur.state = "unmanaged"
              /\ ~has_reconcile_marker(seen, e.base_version, e.round)
              /\ DeadLetter("reconcile", e)
           \/ /\ mine
              /\ ~has_reconcile_marker(seen, e.base_version, e.round)
              /\ ReconcileStatus(cur, e.base_version, e.round) = "apply"
              /\ Handle("reconcile", e,
                   <<CommentRequest(BlockedComment(e.base_version, e.round), NoHandoff)>>)
        /\ UNCHANGED <<updated_at, comments, visible, memo, gate, wip_free, edits, flips>>

(* An observation of a thinking issue replays the proposal it waits for,   *)
(* or drops the issue when its recorded rounds are terminal.  redrive: the *)
(* replay carries a delivery identity of its own, and with it the proposal *)
(* as its effect version.                                                  *)
replay_proposal(facts, version, redrive) ==
    LET latest == Max0(DOMAIN facts)
        base == strip_timeout_suffixes(version)
    IN  IF DOMAIN facts # {}
        THEN Proposal(loop_at(converge_proposal_base_dedup(facts[latest].key.v), latest + 1),
                      redrive, latest + 1)
        ELSE Proposal(base, redrive, max_round(base, "loop"))

ObserveThinking(cur, facts) ==
    LET epoch == cur.version
        latest == Max0(DOMAIN facts)
    IN  /\ cur.state = "thinking"
        /\ \/ /\ terminal_cause(facts, latest)
              /\ ~has_reconcile_marker(seen, epoch, latest)
              /\ ReconcileStatus(cur, epoch, latest) = "apply"
              /\ Observe(<<CommentRequest(BlockedComment(epoch, latest), NoHandoff)>>)
           \/ /\ ~terminal_cause(facts, latest)
              /\ \E redrive \in Redrives :
                   LET p == replay_proposal(facts, epoch, redrive)
                   IN  \* no live run of this effect version
                       /\ \A q \in queues["request"] : q.dedup # p.dedup
                       /\ \A r \in queues["reached"] : r.proposal.dedup # p.dedup
                       /\ Observe(<<Raise("request", p)>>)

-----------------------------------------------------------------------------
(* github-proxy writes a requested comment under the lock of its target,   *)
(* unless a comment with the same dedup marker exists.  A request with a   *)
(* hand-off reports the comment, old or new.                               *)

KeyPlaces(cs, key) == {i \in 1..Len(cs) : cs[i].key = key}

MutantReportsLatest(request, id) ==
    IF request.handoff.kind = "none" THEN <<>>
    ELSE <<Raise("written", [id |-> Len(comments), handoff |-> request.handoff])>>

WrittenReport(request, id) ==
    IF request.handoff.kind = "none" THEN <<>>
    ELSE <<Raise("written", [id |-> id, handoff |-> request.handoff])>>

ProxySkip(request) ==
    LET places == KeyPlaces(comments, request.comment.key)
    IN  /\ request \in queues["comment"]
        /\ places # {}
        /\ Handle("comment", request,
                  WrittenReport(request, CHOOSE i \in places : \A j \in places : i <= j))
        /\ UNCHANGED <<updated_at, comments, visible, memo, gate, wip_free, edits, flips>>

(* A written comment is visible at once, or not before the comments catch  *)
(* up.                                                                     *)
ProxyWrite(request) ==
    /\ request \in queues["comment"]
    /\ ~HasKey(comments, request.comment.key)
    /\ comments' = Append(comments, request.comment)
    /\ visible' = IF visible = Len(comments) THEN visible + 1 ELSE visible
    /\ Handle("comment", request, WrittenReport(request, Len(comments) + 1))
    /\ UNCHANGED <<updated_at, memo, gate, wip_free, edits, flips>>

ProxyWriteLagging(request) ==
    /\ request \in queues["comment"]
    /\ ~HasKey(comments, request.comment.key)
    /\ faults > 0
    /\ faults' = faults - 1
    /\ visible = Len(comments)
    /\ comments' = Append(comments, request.comment)
    /\ LET report == WrittenReport(request, Len(comments) + 1)
       IN  Publish(report, Len(report), "comment", {request})
    /\ UNCHANGED <<updated_at, visible, memo, gate, wip_free, edits, flips>>

CatchUp ==
    /\ visible < Len(comments)
    /\ visible' = Len(comments)
    /\ UNCHANGED <<updated_at, comments, queues, memo, gate, wip_free, edits, flips, faults>>

ReadyEvent(version, marker, id) ==
    [dedup |-> AddPrefix(version, "ready"), marker |-> marker, id |-> id, handoff |-> FALSE]

Plan(e, accepted) ==
    [dedup |-> e.dedup, marker |-> e.marker, id |-> e.id, handoff |-> accepted]

(* comment_handoff turns the report of a written comment into the event    *)
(* its hand-off asks for.  A ready event carries the version of the ready  *)
(* marker, which is the effect version of the delivery that decided.       *)
CommentHandoff(w) ==
    /\ w \in queues["written"]
    /\ Handle("written", w,
         IF w.handoff.kind = "ready"
         THEN <<Raise("ready", ReadyEvent(w.handoff.version, w.handoff.version, w.id))>>
         ELSE <<Raise("reconcile", [base_version |-> w.handoff.version, round |-> w.handoff.n])>>)
    /\ UNCHANGED <<updated_at, comments, visible, memo, gate, wip_free, edits, flips>>

-----------------------------------------------------------------------------
(* Dependencies: an approved issue waits until its dependency gate is      *)
(* satisfied.  Each change between ready and dependency_wait is written at *)
(* a new ready-split version.                                              *)

MutantSplitWithoutHandoff(from, to_state) ==
    LET to == next_ready_split(from)
    IN  CommentRequest(Comment(SplitKey(from, to), to_state, to), NoHandoff)

(* The comment's key names the two versions, not the state it enters.      *)
raise_ready_split_effects(from, to_state) ==
    LET to == next_ready_split(from)
    IN  CommentRequest(Comment(SplitKey(from, to), to_state, to),
                       IF to_state = "ready" THEN ReadyHandoff(to) ELSE NoHandoff)

ReleaseComment(version) == Comment(Key("release", version), "none", NoVersion)

raise_dependency_release(version) ==
    <<raise_ready_split_effects(version, "ready")>>
    \o (IF HasKey(seen, Key("release", version)) THEN <<>>
        ELSE <<CommentRequest(ReleaseComment(version), NoHandoff)>>)

replay_dependency_wait_state(cur, version) ==
    CASE gate = "satisfied" -> raise_dependency_release(version)
      [] gate = "blocked" ->
            <<CommentRequest(Comment(Key("gate-blocked", version), "blocked", version), NoHandoff)>>
      [] gate = "waiting" ->
            IF dependency_hold_fact(seen, cur) THEN <<>>
            ELSE <<CommentRequest(HoldComment(version), NoHandoff)>>

ObserveDependencyWait(cur) ==
    /\ cur.state = "dependency_wait"
    /\ replay_dependency_wait_state(cur, cur.version) # <<>>
    /\ Observe(replay_dependency_wait_state(cur, cur.version))

(* A ready issue that carries a dependency hold at its own version is      *)
(* first moved to a version of its own.                                    *)
canonicalize_legacy_ready_dependency_wait(cur, version) ==
    /\ ~ready_split_canonicalized_fact(seen, version)
    /\ dependency_hold_fact(seen, cur)

(* Without timeouts or operator commands every redrive is the first.       *)
replay_ready_state(version) ==
    IF gate # "satisfied"
    THEN {<<raise_ready_split_effects(version, "dependency_wait")>>}
    ELSE {<<Raise("ready", ReadyEvent(redrive_at(version, 1), version, i))>> :
             i \in {i \in ready_hand_off_comment_ids(seen, version) :
                      \A j \in ready_hand_off_comment_ids(seen, version) : i <= j}}

ObserveReady(cur) ==
    LET version == cur.version
    IN  /\ cur.state = "ready"
        /\ \/ /\ canonicalize_legacy_ready_dependency_wait(cur, version)
              /\ Observe(<<raise_ready_split_effects(version,
                      IF gate = "satisfied" THEN "ready" ELSE "dependency_wait")>>)
           \/ /\ ~canonicalize_legacy_ready_dependency_wait(cur, version)
              /\ \E raises \in replay_ready_state(version) : Observe(raises)

-----------------------------------------------------------------------------
(* Implementation start: a first locked section decides, a second one      *)
(* checks again and writes the implementing marker.                        *)

(* The hand-off names a comment by its id, and that read does not lag.     *)
verified_hand_off(e) ==
    /\ e.id \in 1..Len(comments)
    /\ comments[e.id].state = "ready"
    /\ comments[e.id].version = e.marker

GateHolds(cur) == gate # "satisfied" /\ stage_rank(cur.state) <= stage_rank("ready")

ready_payload_inner_version(version) == DropPrefix(version, "ready")

Implement(cur, e) ==
    LET status == resolve_implement("initial", cur, e.dedup, FALSE)
        accepted == status = "pending" /\ verified_hand_off(e)
    IN  /\ e \in queues["ready"]
        /\ \/ /\ GateHolds(cur)
              /\ Handle("ready", e,
                   <<raise_ready_split_effects(ready_payload_inner_version(e.dedup),
                                               "dependency_wait")>>)
           \/ /\ ~GateHolds(cur)
              /\ \/ status \in {"idempotent", "stale"}
                 \/ ~wip_free /\ (status = "apply" \/ accepted)
              /\ Handle("ready", e, <<>>)
           \/ /\ ~GateHolds(cur)
              /\ status = "pending" /\ ~accepted
              /\ DeadLetter("ready", e)
           \/ /\ ~GateHolds(cur)
              /\ wip_free
              /\ status = "apply" \/ accepted
              /\ Handle("ready", e, <<Raise("plan", Plan(e, accepted))>>)
        /\ UNCHANGED <<updated_at, comments, visible, memo, gate, wip_free, edits, flips>>

ImplementingComment(version) == Comment(Key("implementing", version), "implementing", version)

ImplementStart(cur, e) ==
    LET started == cur.state \in {"implementing", "impl-failed"} /\ cur.version = e.dedup
        status == resolve_implement("recheck", cur, e.dedup, e.handoff)
    IN  /\ e \in queues["plan"]
        /\ Work("plan", e,
             IF ~started /\ status = "apply"
             THEN <<CommentRequest(ImplementingComment(e.dedup), NoHandoff)>>
             ELSE <<>>,
             Raise("ready", Plan(e, FALSE)))
        /\ UNCHANGED <<updated_at, comments, visible, memo, gate, wip_free, edits, flips>>

-----------------------------------------------------------------------------
(* The environment.                                                        *)

EditIssue ==
    /\ edits > 0
    /\ edits' = edits - 1
    /\ updated_at' = updated_at + 1
    /\ UNCHANGED <<comments, visible, queues, memo, gate, wip_free, flips, faults>>

ChangeGate(g) ==
    /\ flips > 0
    /\ flips' = flips - 1
    /\ gate # g
    /\ gate' = g
    /\ UNCHANGED <<updated_at, comments, visible, queues, memo, wip_free, edits, faults>>

(* Other issues take and leave the WIP capacity as they like.              *)
ChangeCapacity ==
    /\ wip_free' = ~wip_free
    /\ UNCHANGED <<updated_at, comments, visible, queues, memo, gate, edits, flips, faults>>

Gates == {"satisfied", "waiting", "blocked"}

Init ==
    /\ updated_at = 1
    /\ comments = <<>>
    /\ visible = 0
    /\ queues = [q \in Queues |-> {}]
    /\ memo = {}
    /\ gate \in Gates
    /\ wip_free \in BOOLEAN
    /\ edits = MaxEdits
    /\ flips = MaxFlips
    /\ faults = MaxFaults

HandleStart == \E v \in queues["start"] : ExecuteStart(v)

ConsensusDecision == \E p \in queues["request"] : ReachDecision(p)

ConsensusConverge == \E p \in queues["request"] : ReachConverge(p)

ConsensusFault ==
    \/ \E p \in queues["request"] : ReachDeferred(p)
    \/ \E r \in queues["reached"] : WorkerLost(r)
    \/ \E m \in memo : MemoLost(m)

(* A department reads the issue, and derives the current state, for each   *)
(* event it handles.                                                       *)
HandleResult ==
    \E r \in queues["reached"] : \E cur \in current_state(seen) : ConsensusResult(cur, r)

HandleContinue ==
    \E e \in queues["continue"] : \E cur \in current_state(seen) :
        \E facts \in {converge_round_facts_for_epoch(seen, cur.version)} : Loop(cur, facts, e)

HandleReconcile ==
    \E e \in queues["reconcile"] : \E cur \in current_state(seen) : Reconcile(cur, e)

(* A ready event that a replay raised, or one that a hand-off raised.      *)
Redriven(e) == e.dedup # AddPrefix(e.marker, "ready")

HandlesReady(redriven) ==
    \E e \in {e \in queues["ready"] : Redriven(e) = redriven} :
        \E cur \in current_state(seen) : Implement(cur, e)

HandleReady == \E redriven \in BOOLEAN : HandlesReady(redriven)

HandlePlan ==
    \E e \in queues["plan"] : \E cur \in current_state(seen) : ImplementStart(cur, e)

ObserveIssue ==
    \E cur \in current_state(seen) :
        \/ ObserveEntry(cur)
        \/ \E facts \in {converge_round_facts_for_epoch(seen, cur.version)} :
              ObserveThinking(cur, facts)
        \/ ObserveDependencyWait(cur)
        \/ ObserveReady(cur)

HandleWritten == \E w \in queues["written"] : CommentHandoff(w)

(* The proxy works on a requested comment of this kind.                    *)
ProxyHandles(kind) ==
    \E r \in queues["comment"] : r.comment.key.kind = kind /\ (ProxySkip(r) \/ ProxyWrite(r))

ProxyFault == \E r \in queues["comment"] : ProxyWriteLagging(r)

Proxy == (\E kind \in Kinds : ProxyHandles(kind)) \/ ProxyFault

Environment ==
    \/ RequestStart
    \/ EditIssue
    \/ ChangeCapacity
    \/ CatchUp
    \/ \E g \in Gates : ChangeGate(g)

Next ==
    \/ HandleStart
    \/ ConsensusDecision
    \/ ConsensusConverge
    \/ ConsensusFault
    \/ HandleResult
    \/ HandleContinue
    \/ HandleReconcile
    \/ ObserveIssue
    \/ HandleWritten
    \/ HandleReady
    \/ HandlePlan
    \/ Proxy
    \/ Environment

Spec == Init /\ [][Next]_vars

(* The engine delivers every event and the poller every issue eventually,  *)
(* and GitHub's comments catch up.  New events of a queue do not starve    *)
(* old ones, which matters where they differ.  Nothing is assumed of       *)
(* edits, gates, capacity and faults, nor of what consensus decides.       *)
Fairness ==
    /\ WF_vars(HandleStart)
    /\ WF_vars(ConsensusDecision \/ ConsensusConverge)
    /\ WF_vars(HandleResult)
    /\ WF_vars(HandleContinue)
    /\ WF_vars(HandleReconcile)
    /\ WF_vars(ObserveIssue)
    /\ WF_vars(HandleWritten)
    /\ \A redriven \in BOOLEAN : WF_vars(HandlesReady(redriven))
    /\ WF_vars(HandlePlan)
    /\ \A kind \in Kinds \ {"divergence", "hold", "release", "round", "reconcile"} :
          WF_vars(ProxyHandles(kind))
    /\ WF_vars(CatchUp)

FairSpec == Spec /\ Fairness

(* Entry and decision on their own: whatever was decided, nothing is       *)
(* started.  Capacity plays no part, and a gate that waits or is blocked   *)
(* is the same to a decision.                                              *)
NextDecision ==
    \/ HandleStart
    \/ ConsensusDecision
    \/ ConsensusConverge
    \/ ConsensusFault
    \/ HandleResult
    \/ HandleContinue
    \/ \E cur \in current_state(seen) : ObserveEntry(cur)
    \/ Proxy
    \/ RequestStart
    \/ EditIssue
    \/ CatchUp

InitDecision == Init /\ gate # "blocked" /\ wip_free = TRUE

DecisionSpec == InitDecision /\ [][NextDecision]_vars

(* Convergence on its own: consensus never decides, so the gate and the    *)
(* capacity play no part.                                                  *)
NextConvergence ==
    \/ ConsensusConverge
    \/ HandleContinue
    \/ HandleReconcile
    \/ ObserveIssue
    \/ HandleWritten
    \/ Proxy
    \/ CatchUp

InitConvergence == Init /\ gate = "satisfied" /\ wip_free = TRUE

ConvergenceSpec == InitConvergence /\ [][NextConvergence]_vars

FairConvergenceSpec ==
    /\ ConvergenceSpec
    /\ WF_vars(ConsensusConverge)
    /\ WF_vars(HandleContinue)
    /\ WF_vars(HandleReconcile)
    /\ WF_vars(ObserveIssue)
    /\ WF_vars(HandleWritten)
    /\ \A kind \in {"thinking", "round", "reconcile"} : WF_vars(ProxyHandles(kind))
    /\ WF_vars(CatchUp)

(* Release on its own: an issue that was approved at once, or after a      *)
(* round that did not converge, and whose result comment is written.       *)
Approval(n) ==
    LET version == Entry(1)
    IN  [proposal |-> Proposal(IF n = 0 THEN version ELSE loop_at(version, n), FALSE, n),
         effect |-> FALSE, decision |-> "approve"]

ApprovedComments(n) ==
    LET version == Entry(1)
        Record(i) == RoundComment(AddPrefix(IF i = 0 THEN version ELSE loop_at(version, i),
                                            "consensus"), i, version, i + 1, FALSE)
    IN  <<ThinkingComment(version)>>
        \o [i \in 1..n |-> Record(i - 1)]
        \o <<result_comment(Approval(n)).msg.comment>>

InitRelease ==
    /\ updated_at = 1
    /\ gate \in Gates
    /\ wip_free \in BOOLEAN
    /\ \E n \in 0..MaxRound :
          LET r == Approval(n)
          IN  /\ comments = ApprovedComments(n)
              /\ visible = n + 2
              /\ memo = {[dedup |-> r.proposal.dedup, effect |-> FALSE, decision |-> "approve"]}
              /\ queues = [q \in Queues |->
                    Published(IF GateSatisfied(r)
                              THEN WrittenReport(result_comment(r).msg, n + 2)
                              ELSE <<CommentRequest(HoldComment(result_version(r)), NoHandoff)>>,
                              1, q)]
    /\ edits = MaxEdits
    /\ flips = MaxFlips
    /\ faults = MaxFaults

NextRelease ==
    \/ ObserveIssue
    \/ HandleWritten
    \/ HandleReady
    \/ HandlePlan
    \/ Proxy
    \/ ChangeCapacity
    \/ CatchUp
    \/ \E g \in Gates : ChangeGate(g)

FairReleaseSpec ==
    /\ InitRelease
    /\ [][NextRelease]_vars
    /\ WF_vars(ObserveIssue)
    /\ WF_vars(HandleWritten)
    /\ \A redriven \in BOOLEAN : WF_vars(HandlesReady(redriven))
    /\ WF_vars(HandlePlan)
    /\ \A kind \in {"split", "gate-blocked", "implementing"} : WF_vars(ProxyHandles(kind))
    /\ WF_vars(CatchUp)

-----------------------------------------------------------------------------
(* The state has its type.                                                 *)
TypeOK ==
    /\ updated_at \in Nat
    /\ comments \in Seq(Comments)
    /\ visible \in 0..Len(comments)
    /\ queues = [q \in Queues |-> queues[q]]
    /\ \A q \in Queues : queues[q] \subseteq Messages(q)
    /\ memo \subseteq Memos
    /\ gate \in Gates
    /\ wip_free \in BOOLEAN
    /\ edits \in 0..MaxEdits
    /\ flips \in 0..MaxFlips
    /\ faults \in 0..MaxFaults

ApprovedBy(i, generation) ==
    \E j \in 1..i :
        comments[j].decision = "approve" /\ comments[j].key.v.updated_at = generation

(* The versions under which a start of this ready marker may be raised: by *)
(* the hand-off of the marker, or by a replay.                             *)
ReadyVersions(marker) ==
    {AddPrefix(marker, "ready"), AddPrefix(redrive_at(marker, 1), "ready")}

(* Every devloop_ready event, and every start prepared from one, names a   *)
(* comment that exists, that carries the marker version the event claims,  *)
(* and whose generation consensus had approved when it was written; and    *)
(* its own version, of which holds, splits and the implementing marker are *)
(* made, is that marker's.  The proxy reports comments it skipped as       *)
(* duplicates, under redelivery too, so the comment need not be the one    *)
(* that was asked for, and a result may be delivered under two identities. *)
(* It is claimed while the consensus memo keeps its entries: a second run  *)
(* may otherwise reject, and the report of the approval then names the     *)
(* rejection.                                                              *)
ReadyEventsGrounded ==
    ~MemoVolatile =>
        \A e \in queues["ready"] \cup queues["plan"] :
            /\ e.id \in 1..Len(comments)
            /\ comments[e.id].version = e.marker
            /\ e.dedup \in ReadyVersions(e.marker)
            /\ ApprovedBy(e.id, e.marker.updated_at)

(* No implementing marker is written for a generation of the issue that    *)
(* consensus had not approved before, whatever was redelivered, replayed   *)
(* or read late between the decision and the start.  It too rests on the   *)
(* consensus memo.                                                         *)
ImplementOnlyApproved ==
    ~MemoVolatile =>
        \A i \in 1..Len(comments) :
            comments[i].state = "implementing" => ApprovedBy(i, comments[i].version.updated_at)

Lineage(comment) == DropPrefix(comment.key.v, "consensus")

(* Two result comments of one lineage of proposals carry the same          *)
(* decision, although the two identities under which a result may be       *)
(* delivered do not deduplicate each other.  It rests on the consensus     *)
(* memo, and so is claimed only while the memo keeps its entries.          *)
ResultsAgree ==
    ~MemoVolatile =>
        \A i, j \in 1..Len(comments) :
            /\ comments[i].key.kind = "result"
            /\ comments[j].key.kind = "result"
            /\ Lineage(comments[i]) = Lineage(comments[j])
            => comments[i].decision = comments[j].decision

(* A comment that records a convergence round.                             *)
IsRound(comment) == comment.key.kind = "round" /\ comment.verdict # 0

(* The recorded rounds of an epoch have no gap at any time: whoever reads  *)
(* a prefix of the comments sees the rounds 0 to n of the epoch.  The next *)
(* round is proposed before the last one is recorded, so its result may    *)
(* arrive first.                                                           *)
RoundsGapless ==
    \A i \in 1..Len(comments) :
        IsRound(comments[i]) /\ comments[i].key.n > 0 =>
            \E j \in 1..(i - 1) :
                /\ IsRound(comments[j])
                /\ comments[j].version = comments[i].version
                /\ comments[j].key.n = comments[i].key.n - 1

(* The loop drops an issue as stalled at round n of an epoch only after    *)
(* the rounds before n were recorded for that epoch, and, if no round      *)
(* reports an essence stall, not before the third round that could repeat. *)
DropFollowsRounds ==
    \A i \in 1..Len(comments) :
        comments[i].key.kind = "reconcile" =>
            LET n == comments[i].key.n
            IN  /\ \A m \in 0..(n - 1) :
                     \E j \in 1..(i - 1) :
                        /\ IsRound(comments[j])
                        /\ comments[j].version = comments[i].key.v
                        /\ comments[j].key.n = m
                /\ TRUE \in Essences \/ n >= 3

(* The decisions of the issue are a write-once register.                   *)
Register == INSTANCE DecisionRegister WITH
    decided <- {[lineage |-> Lineage(c), decision |-> c.decision] :
                   c \in {comments[i] : i \in ResultIndices(comments)}},
    started <- {comments[i].version.updated_at : i \in StartIndices(comments)}

(* The lifecycle implements the register.                                  *)
RegisterRefinement == Register!RegisterSpec

InState(S) == \E c \in current_state(comments) : c.state \in S

(* An issue that consensus works on is decided, although workers are lost, *)
(* runs are deferred and reads lag.                                        *)
ThinkingIsDecided == InState({"thinking"}) ~> ~InState({"thinking"})

(* If consensus never decides and every round repeats the verdicts of the  *)
(* one before, the issue ends up blocked.                                  *)
StallIsDropped == InState({"thinking"}) ~> InState({"blocked"})

(* A version that a ready-split moves to is newer than the version that it *)
(* moves from, as the transition tables declare with bump = true.          *)
SplitBumps ==
    \A i \in 1..Len(comments) :
        comments[i].key.kind = "split" => compare(comments[i].key.w, comments[i].key.v) > 0

(* A devloop_ready event that is raised for the current ready version is   *)
(* never refused as stale: a replay of a ready issue can start it.         *)
RedriveActionable ==
    \A e \in queues["ready"], cur \in current_state(comments) :
        cur.state = "ready" /\ cur.version = e.marker
            => resolve_implement("initial", cur, e.dedup, FALSE) # "stale"

(* A replay of this ready version is not older than the version.           *)
Replayable(version) == ~Older(redrive_at(version, 1), version)

(* A ready event that a hand-off raised is met neither by a full WIP limit *)
(* nor by a lagging read, unless the start can be replayed.                *)
HandoffsAreHeard ==
    \/ wip_free /\ visible = Len(comments)
    \/ \A e \in queues["ready"] : Redriven(e) \/ Replayable(e.marker)

(* If the dependencies are satisfied and capacity is free from some time   *)
(* on, an approved issue does not stay ready or waiting: every hand-off,   *)
(* hold and release between the two leads to a start, and so does a replay *)
(* of a ready event that was dropped at a full WIP limit.  Two ways to be  *)
(* stuck are known and excluded: a split that is not newer than what it    *)
(* leaves (SplitBumps), and a hand-off that is dropped, at a full limit or *)
(* on a read that still shows an older state, for a version whose replays  *)
(* are refused as stale (RedriveActionable).                               *)
ApprovedStarts ==
    /\ [](SplitBumps /\ HandoffsAreHeard)
    /\ <>[](gate = "satisfied" /\ wip_free)
    => (InState({"ready", "dependency_wait"}) ~> ~InState({"ready", "dependency_wait"}))

=============================================================================
