------------------------------ MODULE StartProofs ------------------------------
(***************************************************************************)
(* Only approved work is started.  Between the approving result comment    *)
(* and the implementing marker lie a hand-off, a ready event, a plan, and  *)
(* any number of holds, releases and replays, each made from a read that   *)
(* may lag and each redelivered at will.  The invariant follows the        *)
(* approval along all of them: every request, report and event of a start  *)
(* names a version whose generation an earlier comment approves.           *)
(*                                                                         *)
(* A report may be about another request's comment, when the proxy skips a *)
(* duplicate.  What it says of that comment is then known from the key     *)
(* alone, and for a result from the agreement of results.                  *)
(***************************************************************************)
EXTENDS IssueLifecycleProofs

(* One of the first i comments approves this generation.                   *)
ApprovedIn(cs, i, generation) ==
    \E j \in 1..i : cs[j].decision = "approve" /\ cs[j].key.v.updated_at = generation

StartStates == {"ready", "dependency_wait", "implementing"}

(* What the key of a comment tells of the rest of it.                      *)
Shaped(c) ==
    /\ c.decision = "approve" => c.key.kind = "result"
    /\ c.key.kind = "result" =>
          /\ c.version = c.key.v
          /\ c.state \in StartStates => c.decision = "approve"
          /\ c.state # "implementing"
    /\ c.key.kind = "split" => c.version = c.key.w /\ c.state \in {"ready", "dependency_wait"}

CommentGrounded(cs, i) ==
    /\ Shaped(cs[i])
    /\ cs[i].state \in StartStates => ApprovedIn(cs, i, cs[i].version.updated_at)

RequestGrounded(cs, m) ==
    /\ Shaped(m.comment)
    /\ m.comment.state \in StartStates /\ m.comment.key.kind # "result" =>
          ApprovedIn(cs, Len(cs), m.comment.version.updated_at)
    /\ m.handoff.kind = "ready" =>
          /\ m.comment.key.kind \in {"result", "split"}
          /\ m.comment.state = "ready"
          /\ m.handoff.version = m.comment.version

(* This comment has the marker.                                            *)
Names(cs, id, marker) ==
    /\ id \in 1..Len(cs)
    /\ cs[id].version = marker
    /\ ApprovedIn(cs, id, marker.updated_at)

(* An event names a comment that has its marker, and has its version.      *)
Claims(cs, e) == Names(cs, e.id, e.marker) /\ e.dedup \in ReadyVersions(e.marker)

MessageGrounded(cs, q, m) ==
    /\ q = "comment" => RequestGrounded(cs, m)
    /\ q = "written" /\ m.handoff.kind = "ready" =>
          Names(cs, m.id, m.handoff.version)
    /\ q \in {"ready", "plan"} => Claims(cs, m)

CommentsGrounded == \A i \in 1..Len(comments) : CommentGrounded(comments, i)

QueuesGrounded == \A q \in Queues : \A m \in queues[q] : MessageGrounded(comments, q, m)

(* The inductive invariant.                                                *)
StartInv == CommentsGrounded /\ QueuesGrounded

-----------------------------------------------------------------------------
(* Deliveries.                                                             *)

(* A step that changes no comment and adds grounded messages only.         *)
LEMMA AddsGrounded ==
    ASSUME StartInv, UNCHANGED comments, NEW S, Adds(S),
           \A r \in S : MessageGrounded(comments, r.queue, r.msg)
    PROVE  StartInv'
<1>1. CommentsGrounded'
    BY DEF StartInv, CommentsGrounded
<1>2. QueuesGrounded'
    BY DEF StartInv, QueuesGrounded, Adds
<1> QED BY <1>1, <1>2 DEF StartInv

(* Another comment takes no approval away.                                 *)
LEMMA GroundedGrows ==
    ASSUME NEW cs \in Seq(Comments), NEW c \in Comments, NEW ds, ds = Append(cs, c)
    PROVE  /\ Len(ds) = Len(cs) + 1 /\ ds[Len(cs) + 1] = c
           /\ \A i \in 1..Len(cs) : ds[i] = cs[i]
           /\ \A i \in 1..Len(cs) : \A g : ApprovedIn(cs, i, g) => ApprovedIn(ds, i, g)
           /\ \A g : ApprovedIn(cs, Len(cs), g) => ApprovedIn(ds, Len(cs) + 1, g)
           /\ \A i \in 1..Len(cs) : CommentGrounded(cs, i) => CommentGrounded(ds, i)
           /\ \A q, m : MessageGrounded(cs, q, m) => MessageGrounded(ds, q, m)
<1>1. /\ Len(cs) \in Nat /\ Len(ds) = Len(cs) + 1 /\ ds[Len(cs) + 1] = c
      /\ \A i \in 1..Len(cs) : ds[i] = cs[i]
    OBVIOUS
<1>2. ASSUME NEW i \in 1..Len(cs), NEW g, ApprovedIn(cs, i, g) PROVE ApprovedIn(ds, i, g)
  <2>1. PICK j \in 1..i : cs[j].decision = "approve" /\ cs[j].key.v.updated_at = g
      BY <1>2 DEF ApprovedIn
  <2>2. j \in 1..Len(cs)
      BY <1>1
  <2> QED BY <1>1, <2>1, <2>2 DEF ApprovedIn
<1>3. ASSUME NEW g, ApprovedIn(cs, Len(cs), g) PROVE ApprovedIn(ds, Len(cs) + 1, g)
  <2>1. PICK j \in 1..Len(cs) : cs[j].decision = "approve" /\ cs[j].key.v.updated_at = g
      BY <1>3 DEF ApprovedIn
  <2>2. j \in 1..(Len(cs) + 1)
      BY <1>1
  <2> QED BY <1>1, <2>1, <2>2 DEF ApprovedIn
<1>4. \A i \in 1..Len(cs) : CommentGrounded(cs, i) => CommentGrounded(ds, i)
    BY <1>1, <1>2 DEF CommentGrounded
<1>5. /\ \A id, marker : Names(cs, id, marker) => Names(ds, id, marker)
      /\ \A e : Claims(cs, e) => Claims(ds, e)
    BY <1>1, <1>2 DEF Names, Claims
<1>6. \A m : RequestGrounded(cs, m) => RequestGrounded(ds, m)
    BY <1>1, <1>3 DEF RequestGrounded
<1>7. \A q, m : MessageGrounded(cs, q, m) => MessageGrounded(ds, q, m)
    BY <1>5, <1>6 DEF MessageGrounded
<1> HIDE DEF ApprovedIn, CommentGrounded, MessageGrounded
<1> QED BY <1>1, <1>2, <1>3, <1>4, <1>7

LEMMA QueueGrounded ==
    ASSUME StartInv
    PROVE  /\ \A c \in queues["comment"] : RequestGrounded(comments, c)
           /\ \A w \in queues["written"] : w.handoff.kind = "ready" =>
                 Names(comments, w.id, w.handoff.version)
           /\ \A e \in queues["ready"] : Claims(comments, e)
           /\ \A e \in queues["plan"] : Claims(comments, e)
<1>1. {"comment", "written", "ready", "plan"} \subseteq Queues
    BY DEF Queues
<1> QED BY <1>1 DEF StartInv, QueuesGrounded, MessageGrounded

(* Raises about which the invariant has nothing to say.                    *)
LEMMA GroundedQueue ==
    ASSUME NEW q, NEW m, q \notin {"comment", "written", "ready", "plan"}
    PROVE  MessageGrounded(comments, Raise(q, m).queue, Raise(q, m).msg)
BY DEF MessageGrounded, Raise

LEMMA GroundedComment ==
    ASSUME NEW c, NEW h, c.key.kind \notin {"result", "split"}, c.decision # "approve",
           c.state \notin StartStates, h.kind # "ready"
    PROVE  MessageGrounded(comments, CommentRequest(c, h).queue, CommentRequest(c, h).msg)
BY DEF MessageGrounded, RequestGrounded, Shaped, CommentRequest, Raise

LEMMA NoHandoffKind == NoHandoff.kind = "none"
BY DEF NoHandoff, Handoff

(* A comment in the current state is approved.                             *)
LEMMA CurrentApproved ==
    ASSUME TypeOK, StartInv, NEW cur \in current_state(seen), cur.state \in StartStates
    PROVE  /\ cur.version \in Versions
           /\ ApprovedIn(comments, Len(comments), cur.version.updated_at)
<1>1. cur # Unmanaged
    BY DEF Unmanaged, StartStates
<1>2. PICK i \in 1..Len(seen) : cur.state = seen[i].state /\ cur.version = seen[i].version
    BY <1>1, SeenType, CurrentType
<1>3. i \in 1..Len(comments) /\ seen[i] = comments[i]
    BY SeenType
<1>4. ApprovedIn(comments, i, cur.version.updated_at)
    BY <1>2, <1>3 DEF StartInv, CommentsGrounded, CommentGrounded
<1>5. Len(comments) \in Nat /\ 1..i \subseteq 1..Len(comments)
    BY <1>3 DEF TypeOK
<1>6. cur.version \in Versions
    BY SeenType, CurrentType
<1> QED BY <1>4, <1>5, <1>6 DEF ApprovedIn

-----------------------------------------------------------------------------
(* The handlers.                                                           *)

(* A split keeps the generation of the version it moves from.              *)
LEMMA SplitGrounded ==
    ASSUME NEW v \in Versions, ApprovedIn(comments, Len(comments), v.updated_at),
           NEW to_state \in {"ready", "dependency_wait"}
    PROVE  LET r == raise_ready_split_effects(v, to_state)
           IN  MessageGrounded(comments, r.queue, r.msg)
<1> DEFINE to == next_ready_split(v)
           c == Comment(SplitKey(v, to), to_state, to)
           h == IF to_state = "ready" THEN ReadyHandoff(to) ELSE NoHandoff
           m == [comment |-> c, handoff |-> h]
<1>1. to.updated_at = v.updated_at
    BY NextReadySplitType
<1> HIDE DEF to
<1>2. /\ c.key.kind = "split" /\ c.key.w = to /\ c.version = to /\ c.state = to_state
      /\ c.decision = "none"
    BY DEF Comment, SplitKey
<1>3. h.kind = "ready" => to_state = "ready" /\ h.version = to
    BY DEF ReadyHandoff, NoHandoff, Handoff
<1> HIDE DEF c, h
<1>4. RequestGrounded(comments, m)
    BY <1>1, <1>2, <1>3 DEF RequestGrounded, Shaped, StartStates
<1>5. raise_ready_split_effects(v, to_state) = Raise("comment", m)
    BY DEF raise_ready_split_effects, CommentRequest, c, h, to
<1> HIDE DEF m
<1> QED BY <1>4, <1>5 DEF MessageGrounded, Raise

LEMMA EntryGrounded ==
    ASSUME StartInv, NEW cur, ObserveEntry(cur)
    PROVE  StartInv'
<1> DEFINE a == Raise("request", Proposal(Entry(updated_at), FALSE, 0))
           b == CommentRequest(ThinkingComment(Entry(updated_at)), NoHandoff)
<1>1. MessageGrounded(comments, a.queue, a.msg)
    BY GroundedQueue
<1>2. MessageGrounded(comments, b.queue, b.msg)
    BY GroundedComment, NoHandoffKind DEF ThinkingComment, Comment, Key, RoundKey, StartStates
<1>3. Observe(<<a, b>>) /\ UNCHANGED comments
    BY DEF ObserveEntry, Observe
<1> HIDE DEF a, b
<1>4. Adds({a, b})
    BY <1>3, DeliveryAdds
<1> QED BY <1>1, <1>2, <1>3, <1>4, AddsGrounded

LEMMA StartGrounded ==
    ASSUME StartInv, NEW v, ExecuteStart(v)
    PROVE  StartInv'
<1> DEFINE a == CommentRequest(ThinkingComment(v), NoHandoff)
           b == Raise("request", Proposal(v, TRUE, 0))
<1>1. MessageGrounded(comments, a.queue, a.msg)
    BY GroundedComment, NoHandoffKind DEF ThinkingComment, Comment, Key, RoundKey, StartStates
<1>2. MessageGrounded(comments, b.queue, b.msg)
    BY GroundedQueue
<1>3. Handle("start", v, <<a, b>>) /\ UNCHANGED comments
    BY DEF ExecuteStart
<1> HIDE DEF a, b
<1>4. Adds({a, b})
    BY <1>3, DeliveryAdds
<1> QED BY <1>1, <1>2, <1>3, <1>4, AddsGrounded

(* Consensus raises requests, results and continue events only.            *)
LEMMA ConsensusGrounded ==
    ASSUME StartInv, ConsensusDecision \/ ConsensusConverge \/ ConsensusFault
    PROVE  StartInv'
<1>1. ASSUME NEW a, a.queue \in {"request", "reached", "continue"}, UNCHANGED comments, Adds({a})
      PROVE  StartInv'
  <2>1. MessageGrounded(comments, a.queue, a.msg)
      BY <1>1 DEF MessageGrounded
  <2> QED BY <1>1, <2>1, AddsGrounded
<1>2. ASSUME NEW p \in queues["request"], ReachDecision(p) PROVE StartInv'
  <2>1. PICK m : Publish(<<Raise("reached", [proposal |-> p, effect |-> m.effect,
                                            decision |-> m.decision])>>, 1, "request", {p})
      BY <1>2 DEF ReachDecision
  <2> DEFINE a == Raise("reached", [proposal |-> p, effect |-> m.effect, decision |-> m.decision])
  <2>2. a.queue = "reached" /\ UNCHANGED comments /\ Publish(<<a>>, 1, "request", {p})
      BY <1>2, <2>1 DEF ReachDecision, Raise
  <2> HIDE DEF a
  <2>3. Adds({a})
      BY <2>2, DeliveryAdds
  <2> QED BY <1>1, <2>2, <2>3
<1>3. ASSUME NEW p \in queues["request"], ReachConverge(p) PROVE StartInv'
  <2>1. PICK verdict \in Verdicts, essence \in Essences :
          Handle("request", p,
                 <<Raise("continue", [dedup |-> AddPrefix(p.dedup, "consensus"), round |-> p.round,
                                      verdict |-> verdict, essence |-> essence])>>)
      BY <1>3 DEF ReachConverge
  <2> DEFINE a == Raise("continue", [dedup |-> AddPrefix(p.dedup, "consensus"), round |-> p.round,
                                     verdict |-> verdict, essence |-> essence])
  <2>2. a.queue = "continue" /\ UNCHANGED comments /\ Handle("request", p, <<a>>)
      BY <1>3, <2>1 DEF ReachConverge, Raise
  <2> HIDE DEF a
  <2>3. Adds({a})
      BY <2>2, DeliveryAdds
  <2> QED BY <1>1, <2>2, <2>3
<1>4. ASSUME NEW p \in queues["request"], ReachDeferred(p) PROVE StartInv'
  <2>1. Publish(<<>>, 0, "request", {p}) /\ UNCHANGED comments
      BY <1>4 DEF ReachDeferred
  <2>2. Adds({})
      BY <2>1, DeliveryAdds
  <2> QED BY <2>1, <2>2, AddsGrounded
<1>5. ASSUME NEW r \in queues["reached"], WorkerLost(r) PROVE StartInv'
  <2> DEFINE a == Raise("request", r.proposal)
  <2>1. a.queue = "request" /\ UNCHANGED comments /\ Publish(<<a>>, 1, "reached", {r})
      BY <1>5 DEF WorkerLost, Raise
  <2> HIDE DEF a
  <2>2. Adds({a})
      BY <2>1, DeliveryAdds
  <2> QED BY <1>1, <2>1, <2>2
<1>6. ASSUME NEW m \in memo, MemoLost(m) PROVE StartInv'
  <2>1. UNCHANGED <<comments, queues>>
      BY <1>6 DEF MemoLost
  <2> QED BY <2>1 DEF StartInv, CommentsGrounded, QueuesGrounded
<1> QED BY <1>2, <1>3, <1>4, <1>5, <1>6 DEF ConsensusDecision, ConsensusConverge, ConsensusFault

(* The result comment is its own approval, and a rejection hands nothing   *)
(* off.                                                                    *)
LEMMA ResultCommentGrounded ==
    ASSUME NEW r \in Results
    PROVE  MessageGrounded(comments, result_comment(r).queue, result_comment(r).msg)
<1> DEFINE v == r.proposal.dedup
           w == result_version(r)
           c == [key |-> Key("result", w), state |-> ResultState(r), version |-> w,
                 decision |-> r.decision, verdict |-> 0, essence |-> FALSE]
           h == IF ResultState(r) = "ready"
                THEN ReadyHandoff(w) ELSE NoHandoff
           m == [comment |-> c, handoff |-> h]
<1>1. v \in Versions /\ r.decision \in {"approve", "reject"}
    BY DEF Results, Proposals, Decisions
<1>3. /\ ResultState(r) \in StartStates => r.decision = "approve"
      /\ ResultState(r) # "implementing"
    BY <1>1 DEF ResultState, StartStates
<1>4. c.key.kind = "result" /\ c.key.v = w /\ c.version = w /\ c.state = ResultState(r)
      /\ c.decision = r.decision
    BY DEF Key, RoundKey
<1>5. h.kind = "ready" =>
        /\ ResultState(r) = "ready"
        /\ h.version = w
    BY DEF ReadyHandoff, NoHandoff, Handoff
<1>6. result_comment(r) = Raise("comment", m)
    BY DEF result_comment, CommentRequest
<1> HIDE DEF c, h, w
<1>7. RequestGrounded(comments, m)
    BY <1>1, <1>3, <1>4, <1>5 DEF RequestGrounded, Shaped
<1> HIDE DEF m
<1> QED BY <1>6, <1>7 DEF MessageGrounded, Raise

LEMMA ResultGrounded ==
    ASSUME TypeOK, StartInv, NEW r \in queues["reached"], NEW cur, ConsensusResult(cur, r)
    PROVE  StartInv'
<1> DEFINE a == CommentRequest(Comment(Key("divergence", result_version(r)), "none", NoVersion),
                               NoHandoff)
           b == result_comment(r)
           c == CommentRequest(HoldComment(result_version(r)), NoHandoff)
           event == Raise("request", r.proposal)
<1>1. MessageGrounded(comments, a.queue, a.msg)
    BY GroundedComment, NoHandoffKind DEF Comment, Key, RoundKey, StartStates
<1>2. MessageGrounded(comments, b.queue, b.msg)
    BY QueueElements, ResultCommentGrounded
<1>3. MessageGrounded(comments, c.queue, c.msg)
    BY GroundedComment, NoHandoffKind DEF HoldComment, Comment, Key, RoundKey, StartStates
<1>4. MessageGrounded(comments, event.queue, event.msg)
    BY GroundedQueue
<1>5. /\ \/ Work("reached", r, <<a>>, event)
         \/ Work("reached", r, <<>>, event)
         \/ Work("reached", r, raise_result_effects(cur, r), event)
         \/ DeadLetter("reached", r)
      /\ UNCHANGED comments
    BY DEF ConsensusResult
<1>6. raise_result_effects(cur, r) \in {<<>> \o <<>>, <<b>> \o <<>>, <<>> \o <<c>>, <<b>> \o <<c>>}
    BY DEF raise_result_effects
<1> HIDE DEF a, b, c, event
<1>7. raise_result_effects(cur, r) \in {<<>>, <<b>>, <<c>>, <<b, c>>}
    BY <1>6, ShortConcats
<1>8. Adds({a, b, c, event})
    BY <1>5, <1>7, DeliveryAdds
<1> QED BY <1>1, <1>2, <1>3, <1>4, <1>5, <1>8, AddsGrounded

(* Rounds and drops of an issue are no starts.                             *)
LEMMA RoundGrounded ==
    \A v, n, epoch, verdict, essence :
        LET c == RoundComment(v, n, epoch, verdict, essence)
        IN  c.key.kind = "round" /\ c.state = "none" /\ c.decision = "none"
BY DEF RoundComment, RoundKey

LEMMA BlockedGrounded ==
    \A v, n : LET r == CommentRequest(BlockedComment(v, n), NoHandoff)
              IN  MessageGrounded(comments, r.queue, r.msg)
BY GroundedComment, NoHandoffKind DEF BlockedComment, Comment, RoundKey, StartStates

LEMMA LoopGrounded ==
    ASSUME StartInv, NEW e, NEW cur, NEW facts, Loop(cur, facts, e)
    PROVE  StartInv'
<1> DEFINE latest == Max0(DOMAIN facts)
           old == CommentRequest(RoundComment(facts[latest].key.v, latest, NoVersion, 0, FALSE),
                                 ReconcileHandoff(cur.version, latest))
           record == RoundComment(e.dedup, e.round, cur.version, e.verdict, e.essence)
           next == loop_at(converge_proposal_base_dedup(e.dedup), e.round + 1)
           drop == CommentRequest(record, ReconcileHandoff(cur.version, e.round))
           ask == Raise("request", Proposal(next, FALSE, e.round + 1))
           note == CommentRequest(record, NoHandoff)
<1>1. \A v, n : ReconcileHandoff(v, n).kind = "reconcile"
    BY DEF ReconcileHandoff, Handoff
<1>2. /\ MessageGrounded(comments, old.queue, old.msg)
      /\ MessageGrounded(comments, drop.queue, drop.msg)
      /\ MessageGrounded(comments, note.queue, note.msg)
    BY <1>1, RoundGrounded, GroundedComment, NoHandoffKind DEF StartStates
<1>3. MessageGrounded(comments, ask.queue, ask.msg)
    BY GroundedQueue
<1>4. /\ \/ Handle("continue", e, <<>>)
         \/ DeadLetter("continue", e)
         \/ Handle("continue", e, <<old>>)
         \/ Handle("continue", e, <<drop>>)
         \/ Handle("continue", e, <<ask, note>>)
      /\ UNCHANGED comments
    BY DEF Loop
<1> HIDE DEF old, drop, ask, note
<1>5. Adds({old, drop, ask, note})
    BY <1>4, DeliveryAdds
<1> QED BY <1>2, <1>3, <1>4, <1>5, AddsGrounded

LEMMA ReconcileGrounded ==
    ASSUME StartInv, NEW e, NEW cur, Reconcile(cur, e)
    PROVE  StartInv'
<1> DEFINE a == CommentRequest(BlockedComment(e.base_version, e.round), NoHandoff)
<1>1. MessageGrounded(comments, a.queue, a.msg)
    BY BlockedGrounded
<1>2. /\ \/ Handle("reconcile", e, <<>>)
         \/ DeadLetter("reconcile", e)
         \/ Handle("reconcile", e, <<a>>)
      /\ UNCHANGED comments
    BY DEF Reconcile
<1> HIDE DEF a
<1>3. Adds({a})
    BY <1>2, DeliveryAdds
<1> QED BY <1>1, <1>2, <1>3, AddsGrounded

LEMMA ThinkingGrounded ==
    ASSUME StartInv, NEW cur, NEW facts, ObserveThinking(cur, facts)
    PROVE  StartInv'
<1> DEFINE latest == Max0(DOMAIN facts)
           drop == CommentRequest(BlockedComment(cur.version, latest), NoHandoff)
           Ask(redrive) == Raise("request", replay_proposal(facts, cur.version, redrive))
<1>1. PICK redrive : Observe(<<drop>>) \/ Observe(<<Ask(redrive)>>)
    BY DEF ObserveThinking
<1> DEFINE ask == Ask(redrive)
<1>2. MessageGrounded(comments, drop.queue, drop.msg)
    BY BlockedGrounded
<1>3. MessageGrounded(comments, ask.queue, ask.msg)
    BY GroundedQueue
<1>4. UNCHANGED comments
    BY <1>1 DEF Observe
<1>5. Observe(<<drop>>) \/ Observe(<<ask>>)
    BY <1>1
<1> HIDE DEF drop, ask
<1>6. Adds({drop, ask})
    BY <1>5, DeliveryAdds
<1> QED BY <1>2, <1>3, <1>4, <1>6, AddsGrounded

(* Holds, releases and replays move between versions of the generation     *)
(* that is current.                                                        *)
LEMMA DependencyWaitGrounded ==
    ASSUME TypeOK, StartInv, NEW cur \in current_state(seen), ObserveDependencyWait(cur)
    PROVE  StartInv'
<1> DEFINE v == cur.version
           split == raise_ready_split_effects(v, "ready")
           release == CommentRequest(ReleaseComment(v), NoHandoff)
           hold == CommentRequest(HoldComment(v), NoHandoff)
           block == CommentRequest(Comment(Key("gate-blocked", v), "blocked", v), NoHandoff)
<1>1. v \in Versions /\ ApprovedIn(comments, Len(comments), v.updated_at)
    BY CurrentApproved DEF ObserveDependencyWait, StartStates
<1>2. MessageGrounded(comments, split.queue, split.msg)
    BY <1>1, SplitGrounded
<1>3. /\ MessageGrounded(comments, release.queue, release.msg)
      /\ MessageGrounded(comments, hold.queue, hold.msg)
      /\ MessageGrounded(comments, block.queue, block.msg)
    BY GroundedComment, NoHandoffKind
       DEF ReleaseComment, HoldComment, Comment, Key, RoundKey, StartStates
<1>4. gate \in {"satisfied", "waiting", "blocked"}
    BY DEF TypeOK, Gates
<1>5. \/ Observe(<<split>> \o <<>>)
      \/ Observe(<<split>> \o <<release>>)
      \/ Observe(<<hold>>)
      \/ Observe(<<block>>)
      \/ Observe(<<>>)
    BY <1>4 DEF ObserveDependencyWait, replay_dependency_wait_state, raise_dependency_release
<1>6. UNCHANGED comments
    BY DEF ObserveDependencyWait, Observe
<1> HIDE DEF split, release, hold, block
<1>7. \/ Observe(<<split>>)
      \/ Observe(<<split, release>>)
      \/ Observe(<<hold>>)
      \/ Observe(<<block>>)
      \/ Observe(<<>>)
    BY <1>5, ShortConcats
<1>8. Adds({split, release, hold, block})
    BY <1>7, DeliveryAdds
<1> QED BY <1>2, <1>3, <1>6, <1>8, AddsGrounded

(* The version of an event is of its marker's generation.                  *)
LEMMA ReadyVersionsOf ==
    ASSUME NEW v \in Versions, NEW d \in ReadyVersions(v)
    PROVE  d \in Versions /\ d.updated_at = v.updated_at
<1>1. redrive_at(v, 1) \in Versions /\ redrive_at(v, 1).updated_at = v.updated_at
    BY SegmentType, Append1Type DEF redrive_at
<1> QED BY <1>1, PrefixTypes DEF ReadyVersions, Prefixes

(* A redrive names the first comment that has the current ready marker.    *)
LEMMA RedriveGrounded ==
    ASSUME TypeOK, StartInv, NEW v \in Versions, NEW i \in ready_hand_off_comment_ids(seen, v)
    PROVE  LET r == Raise("ready", ReadyEvent(redrive_at(v, 1), v, i))
           IN  MessageGrounded(comments, r.queue, r.msg)
<1> DEFINE e == ReadyEvent(redrive_at(v, 1), v, i)
<1>1. i \in 1..Len(comments) /\ comments[i].state = "ready" /\ comments[i].version = v
    BY SeenType DEF ready_hand_off_comment_ids
<1>2. ApprovedIn(comments, i, v.updated_at)
    BY <1>1 DEF StartInv, CommentsGrounded, CommentGrounded, StartStates
<1>3. e.id = i /\ e.marker = v /\ e.dedup \in ReadyVersions(v)
    BY DEF ReadyEvent, ReadyVersions
<1> HIDE DEF e
<1>4. Claims(comments, e)
    BY <1>1, <1>2, <1>3 DEF Claims, Names
<1> QED BY <1>4 DEF MessageGrounded, Raise, e

LEMMA ReadyGrounded ==
    ASSUME TypeOK, StartInv, NEW cur \in current_state(seen), ObserveReady(cur)
    PROVE  StartInv'
<1> DEFINE v == cur.version
           ready == raise_ready_split_effects(v, "ready")
           wait == raise_ready_split_effects(v, "dependency_wait")
           Redrive(i) == Raise("ready", ReadyEvent(redrive_at(v, 1), v, i))
<1>1. v \in Versions /\ ApprovedIn(comments, Len(comments), v.updated_at)
    BY CurrentApproved DEF ObserveReady, StartStates
<1>2. MessageGrounded(comments, ready.queue, ready.msg) /\ MessageGrounded(comments, wait.queue, wait.msg)
    BY <1>1, SplitGrounded
<1>3. \/ Observe(<<ready>>)
      \/ Observe(<<wait>>)
      \/ \E i \in ready_hand_off_comment_ids(seen, v) : Observe(<<Redrive(i)>>)
    BY DEF ObserveReady, replay_ready_state
<1>4. UNCHANGED comments
    BY <1>3 DEF Observe
<1>5. CASE Observe(<<ready>>) \/ Observe(<<wait>>)
  <2> HIDE DEF ready, wait
  <2>1. Adds({ready, wait})
      BY <1>5, DeliveryAdds
  <2> QED BY <1>2, <1>4, <2>1, AddsGrounded
<1>6. ASSUME NEW i \in ready_hand_off_comment_ids(seen, v), Observe(<<Redrive(i)>>)
      PROVE  StartInv'
  <2> DEFINE a == Redrive(i)
  <2>1. MessageGrounded(comments, a.queue, a.msg) /\ Observe(<<a>>)
      BY <1>1, <1>6, RedriveGrounded
  <2> HIDE DEF a
  <2>2. Adds({a})
      BY <2>1, DeliveryAdds
  <2> QED BY <1>4, <2>1, <2>2, AddsGrounded
<1> QED BY <1>3, <1>5, <1>6

(* The prepared start and the start itself are of the event's version.     *)
LEMMA NamedApproved ==
    ASSUME TypeOK, NEW e, e.marker \in Versions, Claims(comments, e)
    PROVE  /\ e.dedup \in Versions
           /\ ApprovedIn(comments, Len(comments), e.dedup.updated_at)
<1>1. Len(comments) \in Nat /\ e.id \in 1..Len(comments)
    BY DEF TypeOK, Names, Claims
<1>2. 1..(e.id) \subseteq 1..Len(comments)
    BY <1>1
<1>3. e.dedup \in Versions /\ e.dedup.updated_at = e.marker.updated_at
    BY ReadyVersionsOf DEF Claims
<1> QED BY <1>2, <1>3 DEF Claims, Names, ApprovedIn

LEMMA PlanGrounded ==
    ASSUME NEW e, Claims(comments, e), NEW accepted,
           NEW q \in {"ready", "plan"}
    PROVE  LET r == Raise(q, Plan(e, accepted)) IN MessageGrounded(comments, r.queue, r.msg)
<1> DEFINE p == Plan(e, accepted)
<1>1. p.id = e.id /\ p.dedup = e.dedup /\ p.marker = e.marker
    BY DEF Plan
<1> HIDE DEF p
<1>2. Claims(comments, p)
    BY <1>1 DEF Claims
<1> QED BY <1>2 DEF MessageGrounded, Raise, p

LEMMA ImplementGrounded ==
    ASSUME TypeOK, StartInv, NEW e \in queues["ready"], NEW cur, Implement(cur, e)
    PROVE  StartInv'
<1> DEFINE v == ready_payload_inner_version(e.dedup)
           wait == raise_ready_split_effects(v, "dependency_wait")
           accepted == /\ resolve_implement("initial", cur, e.dedup, FALSE) = "pending"
                       /\ verified_hand_off(e)
           plan == Raise("plan", Plan(e, accepted))
<1>1. e.dedup \in Versions /\ e.marker \in Versions /\ Claims(comments, e)
    BY QueueElements, QueueGrounded DEF Readies
<1>2. v \in Versions /\ v.updated_at = e.dedup.updated_at
    BY <1>1, PrefixTypes DEF ready_payload_inner_version, Prefixes
<1>3. MessageGrounded(comments, wait.queue, wait.msg)
  <2>1. ApprovedIn(comments, Len(comments), v.updated_at)
      BY <1>1, <1>2, NamedApproved
  <2> HIDE DEF v
  <2> QED BY <1>2, <2>1, SplitGrounded
<1>4. MessageGrounded(comments, plan.queue, plan.msg)
  <2> HIDE DEF accepted
  <2> QED BY <1>1, PlanGrounded
<1>5. /\ \/ Handle("ready", e, <<wait>>)
         \/ Handle("ready", e, <<>>)
         \/ DeadLetter("ready", e)
         \/ Handle("ready", e, <<plan>>)
      /\ UNCHANGED comments
    BY DEF Implement
<1> HIDE DEF wait, plan
<1>6. Adds({wait, plan})
    BY <1>5, DeliveryAdds
<1> QED BY <1>3, <1>4, <1>5, <1>6, AddsGrounded

LEMMA ImplementStartGrounded ==
    ASSUME TypeOK, StartInv, NEW e \in queues["plan"], NEW cur, ImplementStart(cur, e)
    PROVE  StartInv'
<1> DEFINE c == ImplementingComment(e.dedup)
           m == [comment |-> c, handoff |-> NoHandoff]
           a == CommentRequest(c, NoHandoff)
           event == Raise("ready", Plan(e, FALSE))
<1>1. e.marker \in Versions /\ Claims(comments, e)
    BY QueueElements, QueueGrounded DEF Readies
<1>2. ApprovedIn(comments, Len(comments), e.dedup.updated_at)
    BY <1>1, NamedApproved
<1>3. c.key.kind = "implementing" /\ c.decision = "none" /\ c.version = e.dedup
    BY DEF ImplementingComment, Comment, Key, RoundKey
<1>4. MessageGrounded(comments, a.queue, a.msg)
  <2> HIDE DEF c
  <2>1. RequestGrounded(comments, m)
      BY <1>2, <1>3, NoHandoffKind DEF RequestGrounded, Shaped
  <2>2. a.queue = "comment" /\ a.msg = m
      BY DEF CommentRequest, Raise
  <2> HIDE DEF a, m
  <2> QED BY <2>1, <2>2 DEF MessageGrounded
<1>5. /\ Work("plan", e, <<a>>, event) \/ Work("plan", e, <<>>, event)
      /\ UNCHANGED comments
    BY DEF ImplementStart
<1>6. MessageGrounded(comments, event.queue, event.msg)
    BY <1>1, PlanGrounded
<1> HIDE DEF a, event
<1>7. Adds({a, event})
    BY <1>5, DeliveryAdds
<1> QED BY <1>4, <1>5, <1>6, <1>7, AddsGrounded

LEMMA HandoffGrounded ==
    ASSUME TypeOK, StartInv, NEW w \in queues["written"], CommentHandoff(w)
    PROVE  StartInv'
<1> DEFINE h == w.handoff
           e == ReadyEvent(h.version, h.version, w.id)
           a == Raise("ready", e)
           b == Raise("reconcile", [base_version |-> h.version, round |-> h.n])
<1>1. UNCHANGED comments
    BY DEF CommentHandoff
<1>2. CASE h.kind = "ready"
  <2>1. Names(comments, w.id, h.version)
      BY <1>2, QueueGrounded
  <2>2. e.id = w.id /\ e.marker = h.version /\ e.dedup \in ReadyVersions(h.version)
      BY DEF ReadyEvent, ReadyVersions
  <2>3. Handle("written", w, <<a>>)
      BY <1>2 DEF CommentHandoff
  <2> HIDE DEF e, h
  <2>4. Claims(comments, e)
      BY <2>1, <2>2 DEF Claims
  <2>5. MessageGrounded(comments, a.queue, a.msg)
      BY <2>4 DEF MessageGrounded, Raise
  <2> HIDE DEF a
  <2>6. Adds({a})
      BY <2>3, DeliveryAdds
  <2> QED BY <1>1, <2>5, <2>6, AddsGrounded
<1>3. CASE h.kind # "ready"
  <2>1. Handle("written", w, <<b>>)
      BY <1>3 DEF CommentHandoff
  <2>2. MessageGrounded(comments, b.queue, b.msg)
      BY GroundedQueue
  <2> HIDE DEF b
  <2>3. Adds({b})
      BY <2>1, DeliveryAdds
  <2> QED BY <1>1, <2>2, <2>3, AddsGrounded
<1> QED BY <1>2, <1>3

(* A skipped request reports the comment that has its key.  For a split    *)
(* the key has the version; for an approval the comment is a result of the *)
(* same lineage, and so an approval itself.                                *)
LEMMA SameKeyGrounded ==
    ASSUME AgreeInv, StartInv, NEW c \in queues["comment"], c.handoff.kind = "ready",
           NEW i \in 1..Len(comments), comments[i].key = c.comment.key
    PROVE  Names(comments, i, c.handoff.version)
<1> DEFINE marker == c.handoff.version
           d == comments[i]
<1>1. /\ c.comment.key.kind \in {"result", "split"} /\ c.comment.state = "ready"
      /\ marker = c.comment.version
      /\ Shaped(c.comment)
    BY QueueGrounded DEF RequestGrounded
<1>2. CommentGrounded(comments, i) /\ Shaped(d)
    BY DEF StartInv, CommentsGrounded, CommentGrounded
<1>3. d.version = marker
    BY <1>1, <1>2 DEF Shaped
<1>4. ApprovedIn(comments, i, marker.updated_at)
  <2>1. CASE d.key.kind = "split"
    <3>1. d.state \in StartStates
        BY <1>2, <2>1 DEF Shaped, StartStates
    <3> QED BY <1>2, <1>3, <3>1 DEF CommentGrounded
  <2>2. CASE d.key.kind = "result"
    <3>1. c.comment.decision = "approve"
        BY <1>1, <2>2 DEF Shaped, StartStates
    <3>2. CommentAgrees(memo, c.comment) /\ CommentAgrees(memo, d)
        BY QueueAgrees DEF AgreeInv, CommentsAgree
    <3>3. Lineage(d) = Lineage(c.comment)
        BY DEF Lineage
    <3>4. PICK m \in memo : m.dedup = Lineage(d) /\ m.decision = "approve"
        BY <2>2, <3>1, <3>2, <3>3 DEF CommentAgrees, Backed
    <3>5. PICK n \in memo : n.dedup = Lineage(d) /\ n.decision = d.decision
        BY <2>2, <3>2 DEF CommentAgrees, Backed
    <3>6. d.decision = "approve"
        BY <3>4, <3>5 DEF AgreeInv, MemoFunctional
    <3>7. d.key.v.updated_at = marker.updated_at
        BY <1>2, <1>3, <2>2 DEF Shaped
    <3>8. i \in 1..i
        OBVIOUS
    <3> QED BY <3>6, <3>7, <3>8 DEF ApprovedIn
  <2> QED BY <1>1, <2>1, <2>2
<1> QED BY <1>1, <1>3, <1>4 DEF Names

LEMMA SkipGrounded ==
    ASSUME TypeOK, AgreeInv, StartInv, NEW c \in queues["comment"], ProxySkip(c)
    PROVE  StartInv'
<1> DEFINE places == KeyPlaces(comments, c.comment.key)
           i == CHOOSE i \in places : \A j \in places : i <= j
           m == [id |-> i, handoff |-> c.handoff]
           a == Raise("written", m)
<1>1. places # {} /\ Handle("comment", c, WrittenReport(c, i)) /\ UNCHANGED comments
    BY DEF ProxySkip
<1>2. i \in 1..Len(comments) /\ comments[i].key = c.comment.key
    BY <1>1, FirstPlace DEF TypeOK
<1> HIDE DEF i
<1>3. CASE c.handoff.kind = "none"
  <2>1. Handle("comment", c, <<>>)
      BY <1>1, <1>3 DEF WrittenReport
  <2>2. Adds({})
      BY <2>1, DeliveryAdds
  <2> QED BY <1>1, <2>2, AddsGrounded
<1>4. CASE c.handoff.kind # "none"
  <2>1. Handle("comment", c, <<a>>)
      BY <1>1, <1>4 DEF WrittenReport
  <2>2. c.handoff.kind = "ready" => Names(comments, i, c.handoff.version)
      BY <1>2, SameKeyGrounded
  <2>3. MessageGrounded(comments, "written", m)
      BY <2>2 DEF MessageGrounded
  <2>4. a.queue = "written" /\ a.msg = m
      BY DEF Raise
  <2> HIDE DEF m, a
  <2>5. Adds({a})
      BY <2>1, DeliveryAdds
  <2> QED BY <1>1, <2>3, <2>4, <2>5, AddsGrounded
<1> QED BY <1>3, <1>4

(* A comment that is written is approved by an earlier one, or approves    *)
(* itself.                                                                 *)
LEMMA WriteGrounded ==
    ASSUME TypeOK, StartInv, NEW c \in queues["comment"], ProxyWrite(c) \/ ProxyWriteLagging(c)
    PROVE  StartInv'
<1> DEFINE d == c.comment
           n == Len(comments) + 1
           report == WrittenReport(c, n)
           m == [id |-> n, handoff |-> c.handoff]
           a == Raise("written", m)
<1>1. comments' = Append(comments, d) /\ comments \in Seq(Comments) /\ d \in Comments
    BY QueueElements DEF ProxyWrite, ProxyWriteLagging, TypeOK
<1>2. Len(comments) \in Nat /\ Len(comments') = n /\ comments'[n] = d
    BY <1>1
<1>3. RequestGrounded(comments, c)
    BY QueueGrounded
<1>4. CommentGrounded(comments', n)
  <2>1. Shaped(d)
      BY <1>3 DEF RequestGrounded
  <2>2. ASSUME d.state \in StartStates PROVE ApprovedIn(comments', n, d.version.updated_at)
    <3>1. CASE d.key.kind = "result"
      <4>1. d.decision = "approve" /\ d.key.v.updated_at = d.version.updated_at
          BY <2>1, <2>2, <3>1 DEF Shaped
      <4>2. n \in 1..n
          BY <1>2
      <4> QED BY <1>2, <4>1, <4>2 DEF ApprovedIn
    <3>2. CASE d.key.kind # "result"
      <4>1. ApprovedIn(comments, Len(comments), d.version.updated_at)
          BY <1>3, <2>2, <3>2 DEF RequestGrounded
      <4>2. \A g : ApprovedIn(comments, Len(comments), g) => ApprovedIn(comments', n, g)
          BY <1>1, GroundedGrows
      <4> QED BY <4>1, <4>2
    <3> QED BY <3>1, <3>2
  <2> QED BY <1>2, <2>1, <2>2 DEF CommentGrounded
<1>5. CommentsGrounded'
  <2>1. ASSUME NEW i \in 1..Len(comments') PROVE CommentGrounded(comments', i)
    <3>1. i = n \/ i \in 1..Len(comments)
        BY <1>2
    <3>2. i \in 1..Len(comments) => CommentGrounded(comments', i)
        BY <1>1, GroundedGrows DEF StartInv, CommentsGrounded
    <3> QED BY <1>4, <3>1, <3>2
  <2> QED BY <2>1 DEF CommentsGrounded
<1>6. MessageGrounded(comments', "written", m)
  <2>1. ASSUME c.handoff.kind = "ready"
        PROVE  Names(comments', n, c.handoff.version)
    <3>1. d.state = "ready" /\ c.handoff.version = d.version
        BY <1>3, <2>1 DEF RequestGrounded
    <3>2. ApprovedIn(comments', n, d.version.updated_at)
        BY <1>2, <1>4, <3>1 DEF CommentGrounded, StartStates
    <3>3. n \in 1..Len(comments')
        BY <1>2
    <3> QED BY <1>2, <3>1, <3>2, <3>3 DEF Names
  <2> QED BY <2>1 DEF MessageGrounded
<1>7. Adds({a})
  <2>1. \/ Handle("comment", c, report)
        \/ Publish(report, Len(report), "comment", {c})
      BY DEF ProxyWrite, ProxyWriteLagging
  <2>2. report = <<>> \/ report = <<a>>
      BY DEF WrittenReport
  <2> HIDE DEF report, a
  <2>3. Len(<<>>) = 0 /\ Len(<<a>>) = 1
      OBVIOUS
  <2> QED BY <2>1, <2>2, <2>3, DeliveryAdds
<1>8. QueuesGrounded'
  <2>1. a.queue = "written" /\ a.msg = m
      BY DEF Raise
  <2> HIDE DEF a, m
  <2>2. ASSUME NEW q \in Queues, NEW x \in queues'[q] PROVE MessageGrounded(comments', q, x)
    <3>1. x \in queues[q] \/ (q = "written" /\ x = m)
        BY <1>7, <2>1 DEF Adds
    <3>2. x \in queues[q] => MessageGrounded(comments', q, x)
        BY <1>1, GroundedGrows DEF StartInv, QueuesGrounded
    <3> QED BY <1>6, <3>1, <3>2
  <2> QED BY <2>2 DEF QueuesGrounded
<1> QED BY <1>5, <1>8 DEF StartInv

LEMMA EnvironmentGrounded ==
    ASSUME TypeOK, StartInv, Environment
    PROVE  StartInv'
<1>1. CASE RequestStart
  <2> DEFINE a == Raise("start", Entry(updated_at))
  <2>1. UNCHANGED comments /\ Adds({a})
      BY <1>1 DEF RequestStart, TypeOK, Adds, Raise
  <2>2. MessageGrounded(comments, a.queue, a.msg)
      BY GroundedQueue
  <2> HIDE DEF a
  <2> QED BY <2>1, <2>2, AddsGrounded
<1>2. CASE UNCHANGED <<comments, queues>>
    BY <1>2 DEF StartInv, CommentsGrounded, QueuesGrounded
<1> QED BY <1>1, <1>2 DEF Environment, EditIssue, ChangeCapacity, CatchUp, ChangeGate

-----------------------------------------------------------------------------
LEMMA InitGrounded == Init => StartInv
BY DEF Init, StartInv, CommentsGrounded, QueuesGrounded

LEMMA StepGrounded ==
    ASSUME TypeOK, AgreeInv, StartInv, [Next]_vars
    PROVE  StartInv'
<1>1. CASE HandleStart
    BY <1>1, StartGrounded DEF HandleStart
<1>2. CASE ConsensusDecision \/ ConsensusConverge \/ ConsensusFault
    BY <1>2, ConsensusGrounded
<1>3. CASE HandleResult
    BY <1>3, ResultGrounded DEF HandleResult
<1>4. CASE HandleContinue
    BY <1>4, LoopGrounded DEF HandleContinue
<1>5. CASE HandleReconcile
    BY <1>5, ReconcileGrounded DEF HandleReconcile
<1>6. CASE ObserveIssue
    BY <1>6, EntryGrounded, ThinkingGrounded, DependencyWaitGrounded, ReadyGrounded DEF ObserveIssue
<1>7. CASE HandleWritten
    BY <1>7, HandoffGrounded DEF HandleWritten
<1>8. CASE HandleReady
    BY <1>8, ImplementGrounded DEF HandleReady, HandlesReady
<1>9. CASE HandlePlan
    BY <1>9, ImplementStartGrounded DEF HandlePlan
<1>10. CASE Proxy
    BY <1>10, SkipGrounded, WriteGrounded DEF Proxy, ProxyHandles, ProxyFault
<1>11. CASE Environment
    BY <1>11, EnvironmentGrounded
<1>12. CASE UNCHANGED vars
    BY <1>12 DEF vars, StartInv, CommentsGrounded, QueuesGrounded
<1> QED BY <1>1, <1>2, <1>3, <1>4, <1>5, <1>6, <1>7, <1>8, <1>9, <1>10, <1>11, <1>12 DEF Next

LEMMA StartInvImplies ==
    ASSUME StartInv
    PROVE  ReadyEventsGrounded /\ ImplementOnlyApproved
<1>1. \A i, g : ApprovedIn(comments, i, g) => ApprovedBy(i, g)
    BY DEF ApprovedIn, ApprovedBy
<1>2. \A e \in queues["ready"] \cup queues["plan"] : Claims(comments, e)
    BY QueueGrounded
<1>3. ReadyEventsGrounded
    BY <1>1, <1>2 DEF ReadyEventsGrounded, Claims, Names
<1>4. ImplementOnlyApproved
    BY <1>1 DEF ImplementOnlyApproved, StartInv, CommentsGrounded, CommentGrounded, StartStates
<1> QED BY <1>3, <1>4

LEMMA StartInductive ==
    ASSUME ~MemoVolatile
    PROVE  Spec => [](TypeOK /\ AgreeInv /\ StartInv)
<1>1. Init => TypeOK /\ AgreeInv /\ StartInv
    BY InitType, InitAgrees, InitGrounded
<1>2. TypeOK /\ AgreeInv /\ StartInv /\ [Next]_vars => (TypeOK /\ AgreeInv /\ StartInv)'
    BY StepType, StepAgrees, StepGrounded
<1> QED BY <1>1, <1>2, PTL DEF Spec

(* Every devloop_ready event and every prepared start names a comment that *)
(* exists, has the marker the event claims, and is of a generation that    *)
(* consensus had approved when it was written; and its version is that     *)
(* marker's, whatever the proxy skipped, the poller replayed and the       *)
(* engine redelivered, for any number of edits, rounds, flips and faults,  *)
(* while the consensus memo is kept.                                       *)
THEOREM ReadyGroundedAlways == Spec => []ReadyEventsGrounded
<1>1. CASE MemoVolatile
  <2>1. ReadyEventsGrounded
      BY <1>1 DEF ReadyEventsGrounded
  <2> QED BY <2>1, PTL
<1>2. CASE ~MemoVolatile
  <2>1. TypeOK /\ AgreeInv /\ StartInv => ReadyEventsGrounded
      BY StartInvImplies
  <2>2. Spec => [](TypeOK /\ AgreeInv /\ StartInv)
      BY <1>2, StartInductive
  <2> QED BY <2>1, <2>2, PTL
<1> QED BY <1>1, <1>2

(* No implementing marker is written for a generation that consensus had   *)
(* not approved before, under the same conditions.                         *)
THEOREM StartsAreApproved == Spec => []ImplementOnlyApproved
<1>1. CASE MemoVolatile
  <2>1. ImplementOnlyApproved
      BY <1>1 DEF ImplementOnlyApproved
  <2> QED BY <2>1, PTL
<1>2. CASE ~MemoVolatile
  <2>1. TypeOK /\ AgreeInv /\ StartInv => ImplementOnlyApproved
      BY StartInvImplies
  <2>2. Spec => [](TypeOK /\ AgreeInv /\ StartInv)
      BY <1>2, StartInductive
  <2> QED BY <2>1, <2>2, PTL
<1> QED BY <1>1, <1>2

-----------------------------------------------------------------------------
(* The lifecycle implements the write-once register.                       *)

Decided(c) == [lineage |-> Lineage(c), decision |-> c.decision]

DecidedOf(cs) == {Decided(c) : c \in {cs[i] : i \in ResultIndices(cs)}}

StartedOf(cs) == {cs[i].version.updated_at : i \in StartIndices(cs)}

LEMMA RegisterGrows ==
    ASSUME NEW cs \in Seq(Comments), NEW c \in Comments
    PROVE  /\ DecidedOf(Append(cs, c)) =
                 DecidedOf(cs) \cup (IF c.key.kind = "result" THEN {Decided(c)} ELSE {})
           /\ StartedOf(Append(cs, c)) =
                 StartedOf(cs) \cup
                    (IF c.state = "implementing" THEN {c.version.updated_at} ELSE {})
<1> DEFINE ds == Append(cs, c)
           n == Len(cs) + 1
<1>1. /\ Len(cs) \in Nat /\ Len(ds) = n /\ ds[n] = c
      /\ \A i \in 1..Len(cs) : ds[i] = cs[i]
      /\ 1..n = (1..Len(cs)) \cup {n}
    OBVIOUS
<1> HIDE DEF ds, n
<1>2. DecidedOf(ds) = DecidedOf(cs) \cup (IF c.key.kind = "result" THEN {Decided(c)} ELSE {})
  <2>1. \A x : x \in DecidedOf(ds) <=>
                 \E i \in 1..n : ds[i].key.kind = "result" /\ x = Decided(ds[i])
      BY <1>1 DEF DecidedOf, ResultIndices
  <2>2. \A x : x \in DecidedOf(cs) <=>
                 \E i \in 1..Len(cs) : cs[i].key.kind = "result" /\ x = Decided(cs[i])
      BY DEF DecidedOf, ResultIndices
  <2> QED BY <1>1, <2>1, <2>2
<1>3. StartedOf(ds) = StartedOf(cs) \cup
                        (IF c.state = "implementing" THEN {c.version.updated_at} ELSE {})
  <2>1. \A x : x \in StartedOf(ds) <=>
                 \E i \in 1..n : ds[i].state = "implementing" /\ x = ds[i].version.updated_at
      BY <1>1 DEF StartedOf, StartIndices
  <2>2. \A x : x \in StartedOf(cs) <=>
                 \E i \in 1..Len(cs) : cs[i].state = "implementing" /\ x = cs[i].version.updated_at
      BY DEF StartedOf, StartIndices
  <2> QED BY <1>1, <2>1, <2>2
<1> QED BY <1>2, <1>3 DEF ds

(* Comments change only by a requested comment being written.              *)
LEMMA StepWrites ==
    ASSUME [Next]_vars
    PROVE  \/ UNCHANGED comments
           \/ \E c \in queues["comment"] : comments' = Append(comments, c.comment)
<1>1. CASE Proxy
    BY <1>1 DEF Proxy, ProxyHandles, ProxyFault, ProxySkip, ProxyWrite, ProxyWriteLagging
<1>2. CASE HandleStart \/ ConsensusDecision \/ ConsensusConverge \/ ConsensusFault
    BY <1>2 DEF HandleStart, ExecuteStart, ConsensusDecision, ReachDecision, ConsensusConverge,
                ReachConverge, ConsensusFault, ReachDeferred, WorkerLost, MemoLost
<1>3. CASE HandleResult \/ HandleContinue \/ HandleReconcile
    BY <1>3 DEF HandleResult, ConsensusResult, HandleContinue, Loop, HandleReconcile, Reconcile
<1>4. CASE ObserveIssue
    BY <1>4 DEF ObserveIssue, ObserveEntry, ObserveThinking, ObserveDependencyWait,
                ObserveReady, Observe
<1>5. CASE HandleWritten \/ HandleReady \/ HandlePlan
    BY <1>5 DEF HandleWritten, CommentHandoff, HandleReady, HandlesReady, Implement,
                HandlePlan, ImplementStart
<1>6. CASE Environment
    BY <1>6 DEF Environment, RequestStart, EditIssue, ChangeCapacity, CatchUp, ChangeGate
<1>7. CASE UNCHANGED vars
    BY <1>7 DEF vars
<1> QED BY <1>1, <1>2, <1>3, <1>4, <1>5, <1>6, <1>7 DEF Next

(* A result comment decides its lineage, or repeats the decision of it.    *)
LEMMA ResultDecides ==
    ASSUME TypeOK, StartInv, AgreeInv', ~MemoVolatile, NEW c \in queues["comment"],
           comments' = Append(comments, c.comment), c.comment.key.kind = "result"
    PROVE  \/ UNCHANGED <<DecidedOf(comments), StartedOf(comments)>>
           \/ /\ \A d \in DecidedOf(comments) : d.lineage # Lineage(c.comment)
              /\ DecidedOf(comments)' = DecidedOf(comments) \cup {Decided(c.comment)}
              /\ UNCHANGED StartedOf(comments)
<1> DEFINE x == c.comment
           n == Len(comments) + 1
<1>1. comments \in Seq(Comments) /\ x \in Comments
    BY QueueElements DEF TypeOK
<1>2. Shaped(x)
    BY QueueGrounded DEF RequestGrounded
<1>3. /\ DecidedOf(comments') = DecidedOf(comments) \cup {Decided(x)}
      /\ StartedOf(comments') = StartedOf(comments)
  <2>1. x.state # "implementing"
      BY <1>2 DEF Shaped
  <2> HIDE DEF x
  <2> QED BY <1>1, <2>1, RegisterGrows DEF x
<1>4. ASSUME NEW d \in DecidedOf(comments), d.lineage = Lineage(x)
      PROVE  Decided(x) \in DecidedOf(comments)
  <2>1. PICK i \in ResultIndices(comments) : d = Decided(comments[i])
      BY DEF DecidedOf
  <2>2. i \in 1..Len(comments) /\ comments[i].key.kind = "result"
      BY <2>1 DEF ResultIndices
  <2>3. Lineage(comments[i]) = Lineage(x)
      BY <1>4, <2>1 DEF Decided
  <2>4. /\ Len(comments') = n /\ i \in 1..n /\ n \in 1..n
        /\ comments'[i] = comments[i] /\ comments'[n] = x
      BY <1>1, <2>2
  <2>5. comments[i].decision = x.decision
    <3>1. ResultsAgree'
        BY AgreeInvImplies, PTL
    <3>2. \A k, l \in 1..Len(comments') :
            /\ comments'[k].key.kind = "result"
            /\ comments'[l].key.kind = "result"
            /\ Lineage(comments'[k]) = Lineage(comments'[l])
            => comments'[k].decision = comments'[l].decision
        BY <3>1 DEF ResultsAgree
    <3> QED BY <2>2, <2>3, <2>4, <3>2
  <2>6. Decided(x) = d
      BY <2>1, <2>3, <2>5 DEF Decided
  <2> QED BY <2>6
<1> QED BY <1>3, <1>4

(* An implementing comment starts a generation that a lineage approved.    *)
LEMMA ImplementingStarts ==
    ASSUME TypeOK, StartInv, NEW c \in queues["comment"],
           comments' = Append(comments, c.comment), c.comment.key.kind # "result"
    PROVE  \/ UNCHANGED <<DecidedOf(comments), StartedOf(comments)>>
           \/ \E g : /\ \E d \in DecidedOf(comments) :
                           d.decision = "approve" /\ d.lineage.updated_at = g
                     /\ StartedOf(comments)' = StartedOf(comments) \cup {g}
                     /\ UNCHANGED DecidedOf(comments)
<1> DEFINE x == c.comment
           g == x.version.updated_at
<1>1. comments \in Seq(Comments) /\ x \in Comments
    BY QueueElements DEF TypeOK
<1>2. /\ DecidedOf(comments') = DecidedOf(comments)
      /\ StartedOf(comments') = StartedOf(comments) \cup
                                  (IF x.state = "implementing" THEN {g} ELSE {})
    BY <1>1, RegisterGrows
<1>3. ASSUME x.state = "implementing"
      PROVE  \E d \in DecidedOf(comments) : d.decision = "approve" /\ d.lineage.updated_at = g
  <2>1. ApprovedIn(comments, Len(comments), g)
      BY <1>3, QueueGrounded DEF RequestGrounded, StartStates
  <2>2. PICK j \in 1..Len(comments) :
          comments[j].decision = "approve" /\ comments[j].key.v.updated_at = g
      BY <2>1 DEF ApprovedIn
  <2>3. comments[j].key.kind = "result"
      BY <2>2 DEF StartInv, CommentsGrounded, CommentGrounded, Shaped
  <2>4. Decided(comments[j]) \in DecidedOf(comments)
      BY <2>3 DEF DecidedOf, ResultIndices
  <2>5. Decided(comments[j]).decision = "approve"
      BY <2>2 DEF Decided
  <2>6. Decided(comments[j]).lineage.updated_at = g
      BY <2>2 DEF Decided, Lineage, DropPrefix, Version
  <2> QED BY <2>4, <2>5, <2>6
<1> QED BY <1>2, <1>3

(* Every step of the lifecycle is a step of the register or leaves it.     *)
LEMMA StepRefines ==
    ASSUME TypeOK, StartInv, AgreeInv', ~MemoVolatile, [Next]_vars
    PROVE  [Register!RegisterNext]_<<DecidedOf(comments), StartedOf(comments)>>
<1>1. CASE UNCHANGED comments
    BY <1>1 DEF DecidedOf, StartedOf
<1>2. ASSUME NEW c \in queues["comment"], comments' = Append(comments, c.comment)
      PROVE  [Register!RegisterNext]_<<DecidedOf(comments), StartedOf(comments)>>
  <2>1. CASE c.comment.key.kind = "result"
    <3> DEFINE x == Decided(c.comment)
    <3>1. CASE UNCHANGED <<DecidedOf(comments), StartedOf(comments)>>
        BY <3>1
    <3>2. CASE /\ \A d \in DecidedOf(comments) : d.lineage # Lineage(c.comment)
               /\ DecidedOf(comments)' = DecidedOf(comments) \cup {x}
               /\ UNCHANGED StartedOf(comments)
      <4>1. x = [lineage |-> Lineage(c.comment), decision |-> c.comment.decision]
            /\ x.lineage = Lineage(c.comment) /\ x.decision = c.comment.decision
          BY DEF Decided
      <4>2. x \in DecidedOf(comments)'
          BY <3>2
      <4>3. Register!Decide(x.lineage, x.decision)
          BY <3>2, <4>1 DEF Register!Decide, DecidedOf, StartedOf, Decided
      <4> QED BY <4>2, <4>3 DEF Register!RegisterNext, DecidedOf, Decided
    <3> QED BY <1>2, <2>1, <3>1, <3>2, ResultDecides
  <2>2. CASE c.comment.key.kind # "result"
    <3>1. CASE UNCHANGED <<DecidedOf(comments), StartedOf(comments)>>
        BY <3>1
    <3>2. ASSUME NEW g,
                 \E d \in DecidedOf(comments) : d.decision = "approve" /\ d.lineage.updated_at = g,
                 StartedOf(comments)' = StartedOf(comments) \cup {g},
                 UNCHANGED DecidedOf(comments)
          PROVE  Register!RegisterNext
      <4>1. g \in StartedOf(comments)'
          BY <3>2
      <4>2. Register!Start(g)
          BY <3>2 DEF Register!Start, DecidedOf, StartedOf, Decided
      <4> QED BY <4>1, <4>2 DEF Register!RegisterNext, StartedOf
    <3> QED BY <1>2, <2>2, <3>1, <3>2, ImplementingStarts
  <2> QED BY <2>1, <2>2
<1> QED BY <1>1, <1>2, StepWrites

(* While the consensus memo is kept, the lifecycle implements the          *)
(* write-once register: a lineage is decided once, its decision is never   *)
(* changed, and an implementation starts only for a generation in which a  *)
(* lineage was approved, however often results, hand-offs and starts are   *)
(* asked for again.                                                        *)
THEOREM ImplementsRegister ==
    ASSUME ~MemoVolatile
    PROVE  Spec => RegisterRefinement
<1>1. Init => Register!RegisterInit
    BY DEF Init, Register!RegisterInit, ResultIndices, StartIndices
<1>2. TypeOK /\ AgreeInv /\ StartInv /\ AgreeInv' /\ [Next]_vars
        => [Register!RegisterNext]_<<DecidedOf(comments), StartedOf(comments)>>
    BY StepRefines
<1>3. Spec => [](TypeOK /\ AgreeInv /\ StartInv)
    BY StartInductive
<1> QED BY <1>1, <1>2, <1>3, PTL
        DEF Spec, RegisterRefinement, Register!RegisterSpec, DecidedOf, StartedOf, Decided

=============================================================================
