------------------------- MODULE IssueLifecycleProofs -------------------------
(***************************************************************************)
(* The type invariant of IssueLifecycle, the lemmas about deliveries and   *)
(* messages that all proofs about the lifecycle use, and, below, what the  *)
(* comments of an issue agree on.                                          *)
(***************************************************************************)
EXTENDS IssueLifecycle, VersionLemmas, SequenceTheorems

AnyRaise == UNION {[queue : {q}, msg : Messages(q)] : q \in Queues}

QueuesOK ==
    /\ queues = [q \in Queues |-> queues[q]]
    /\ \A q \in Queues : queues[q] \subseteq Messages(q)

-----------------------------------------------------------------------------
(* Messages and deliveries.                                                *)

(* The messages of each queue.                                             *)
LEMMA MessageTypes ==
    /\ Messages("start") = Versions
    /\ Messages("request") = Proposals
    /\ Messages("reached") = Results
    /\ Messages("continue") = [dedup : Versions, round : Nat, verdict : Nat, essence : BOOLEAN]
    /\ Messages("comment") = [comment : Comments, handoff : Handoffs]
    /\ Messages("written") = [id : Nat, handoff : Handoffs]
    /\ Messages("ready") = Readies
    /\ Messages("plan") = Readies
    /\ Messages("reconcile") = [base_version : Versions, round : Nat]
BY DEF Messages

(* A raise is a message of its queue.                                      *)
LEMMA RaiseType ==
    ASSUME NEW q \in Queues, NEW m \in Messages(q)
    PROVE  Raise(q, m) \in AnyRaise /\ Raise(q, m).queue = q /\ Raise(q, m).msg = m
<1>1. Raise(q, m) \in [queue : {q}, msg : Messages(q)]
    BY DEF Raise
<1>2. Raise(q, m) \in AnyRaise
    BY <1>1 DEF AnyRaise
<1> QED BY <1>2 DEF Raise

LEMMA AnyRaiseFields ==
    ASSUME NEW r \in AnyRaise
    PROVE  r.queue \in Queues /\ r.msg \in Messages(r.queue)
<1>1. PICK q \in Queues : r \in [queue : {q}, msg : Messages(q)]
    BY DEF AnyRaise
<1> QED BY <1>1

(* Sequences of raises.                                                    *)
LEMMA RaiseSequences ==
    /\ <<>> \in Seq(AnyRaise)
    /\ Len(<<>>) = 0
    /\ \A a \in AnyRaise : <<a>> \in Seq(AnyRaise) /\ Len(<<a>>) = 1 /\ <<a>>[1] = a
    /\ \A a, b \in AnyRaise :
          /\ <<a, b>> \in Seq(AnyRaise)
          /\ Len(<<a, b>>) = 2
          /\ <<a, b>>[1] = a
          /\ <<a, b>>[2] = b
    /\ \A s, t \in Seq(AnyRaise) : s \o t \in Seq(AnyRaise)
OBVIOUS

(* What a publication adds to a queue was raised for it.                   *)
LEMMA PublishedFrom ==
    ASSUME NEW raises \in Seq(AnyRaise), NEW k \in 0..Len(raises), NEW q, NEW handled,
           Publish(raises, k, q, handled), NEW p \in Queues, NEW m \in queues'[p]
    PROVE  m \in queues[p] \/ \E i \in 1..Len(raises) : raises[i].queue = p /\ raises[i].msg = m
<1>1. queues'[p] = (IF p = q THEN queues[p] \ handled ELSE queues[p]) \cup Published(raises, k, p)
    BY DEF Publish
<1>2. CASE m \in Published(raises, k, p)
  <2>1. PICK i \in 1..k : raises[i].queue = p /\ raises[i].msg = m
      BY <1>2 DEF Published
  <2>2. i \in 1..Len(raises)
      OBVIOUS
  <2> QED BY <2>1, <2>2
<1>3. CASE m \notin Published(raises, k, p)
    BY <1>1, <1>3
<1> QED BY <1>2, <1>3

(* A publication of typed raises keeps the queues typed.                   *)
LEMMA PublishType ==
    ASSUME QueuesOK, NEW raises \in Seq(AnyRaise), NEW k \in 0..Len(raises), NEW q, NEW handled,
           Publish(raises, k, q, handled)
    PROVE  QueuesOK'
<1>1. queues' = [p \in Queues |-> queues'[p]]
    BY DEF Publish
<1>2. ASSUME NEW p \in Queues, NEW m \in queues'[p] PROVE m \in Messages(p)
  <2>1. m \in queues[p] \/ \E i \in 1..Len(raises) : raises[i].queue = p /\ raises[i].msg = m
      BY <1>2, PublishedFrom
  <2>2. \A i \in 1..Len(raises) : raises[i] \in AnyRaise
      OBVIOUS
  <2> QED BY <2>1, <2>2, AnyRaiseFields DEF QueuesOK
<1> QED BY <1>1, <1>2 DEF QueuesOK

(* The handling of an event, with or without a failure between its raises. *)
LEMMA HandlePublishes ==
    ASSUME faults \in 0..MaxFaults, NEW raises \in Seq(AnyRaise), NEW q, NEW e, Handle(q, e, raises)
    PROVE  /\ faults' \in 0..MaxFaults
           /\ \E k \in 0..Len(raises), handled \in {{}, {e}} : Publish(raises, k, q, handled)
<1>1. Len(raises) \in 0..Len(raises)
    OBVIOUS
<1> QED BY <1>1, BoundsAssumption DEF Handle

LEMMA HandleType ==
    ASSUME QueuesOK, faults \in 0..MaxFaults, NEW raises \in Seq(AnyRaise), NEW q, NEW e,
           Handle(q, e, raises)
    PROVE  QueuesOK' /\ faults' \in 0..MaxFaults
BY HandlePublishes, PublishType

LEMMA WorkType ==
    ASSUME QueuesOK, faults \in 0..MaxFaults, NEW raises \in Seq(AnyRaise), NEW q, NEW w,
           NEW event \in AnyRaise, Work(q, w, raises, event)
    PROVE  QueuesOK' /\ faults' \in 0..MaxFaults
<1> DEFINE all == <<event>> \o raises
<1>1. CASE Publish(raises, Len(raises), q, {w}) /\ UNCHANGED faults
  <2>1. Len(raises) \in 0..Len(raises)
      OBVIOUS
  <2> QED BY <1>1, <2>1, PublishType
<1>2. CASE /\ faults > 0
           /\ faults' = faults - 1
           /\ \E k \in 1..(Len(raises) + 1) : Publish(all, k, q, {w})
  <2>1. all \in Seq(AnyRaise) /\ 1..(Len(raises) + 1) \subseteq 0..Len(all)
      OBVIOUS
  <2> HIDE DEF all
  <2>2. QueuesOK'
      BY <1>2, <2>1, PublishType
  <2> QED BY <1>2, <2>2, BoundsAssumption
<1> QED BY <1>1, <1>2 DEF Work

LEMMA DeadLetterType ==
    ASSUME QueuesOK, faults \in 0..MaxFaults, NEW q, NEW e, DeadLetter(q, e)
    PROVE  QueuesOK' /\ faults' \in 0..MaxFaults
<1>1. <<>> \in Seq(AnyRaise) /\ 0 \in 0..Len(<<>>)
    BY RaiseSequences
<1> QED BY <1>1, PublishType DEF DeadLetter

(* An observation of the issue.                                            *)
LEMMA ObservePublishes ==
    ASSUME faults \in 0..MaxFaults, NEW raises \in Seq(AnyRaise), Observe(raises)
    PROVE  /\ faults' \in 0..MaxFaults
           /\ \E k \in 0..Len(raises) : Publish(raises, k, "start", {})
           /\ UNCHANGED <<updated_at, comments, visible, memo, gate, wip_free, edits, flips>>
<1>1. Len(raises) \in 0..Len(raises) /\ 1..(Len(raises) - 1) \subseteq 0..Len(raises)
    OBVIOUS
<1> QED BY <1>1, BoundsAssumption DEF Observe

(* A step that changes only the queues and the fault count.                *)
LEMMA FrameType ==
    ASSUME TypeOK, QueuesOK', faults' \in 0..MaxFaults,
           UNCHANGED <<updated_at, comments, visible, memo, gate, wip_free, edits, flips>>
    PROVE  TypeOK'
BY DEF TypeOK, QueuesOK

LEMMA ObserveType ==
    ASSUME TypeOK, NEW raises \in Seq(AnyRaise), Observe(raises)
    PROVE  TypeOK'
<1>1. QueuesOK /\ faults \in 0..MaxFaults
    BY DEF TypeOK, QueuesOK
<1>2. QueuesOK' /\ faults' \in 0..MaxFaults
    BY <1>1, ObservePublishes, PublishType
<1> QED BY <1>1, <1>2, ObservePublishes, FrameType

-----------------------------------------------------------------------------
(* Constructors.                                                           *)

LEMMA NoVersionType == NoVersion \in Versions
BY EntryType DEF NoVersion

LEMMA KeyTypes ==
    ASSUME NEW kind \in Kinds, NEW v \in Versions
    PROVE  /\ \A n \in Nat : RoundKey(kind, v, n) \in Keys
           /\ Key(kind, v) \in Keys
           /\ \A w \in Versions : SplitKey(v, w) \in Keys
BY NoVersionType DEF RoundKey, Key, SplitKey, Keys, Kinds

LEMMA CommentType ==
    ASSUME NEW key \in Keys, NEW state \in States \cup {"none"}, NEW version \in Versions
    PROVE  Comment(key, state, version) \in Comments
BY DEF Comment, Comments

LEMMA HandoffTypes ==
    ASSUME NEW v \in Versions
    PROVE  /\ NoHandoff \in Handoffs
           /\ ReadyHandoff(v) \in Handoffs
           /\ \A n \in Nat : ReconcileHandoff(v, n) \in Handoffs
BY NoVersionType DEF NoHandoff, ReadyHandoff, ReconcileHandoff, Handoff, Handoffs

LEMMA CommentRequestType ==
    ASSUME NEW c \in Comments, NEW h \in Handoffs
    PROVE  CommentRequest(c, h) \in AnyRaise
<1> DEFINE m == [comment |-> c, handoff |-> h]
<1>1. m \in Messages("comment")
    BY MessageTypes
<1>2. "comment" \in Queues
    BY DEF Queues
<1> HIDE DEF m
<1>3. Raise("comment", m) \in AnyRaise
    BY <1>1, <1>2, RaiseType
<1> QED BY <1>3 DEF CommentRequest, m

LEMMA ProposalType ==
    ASSUME NEW v \in Versions, NEW effect \in BOOLEAN, NEW n \in Nat
    PROVE  /\ Proposal(v, effect, n) \in Proposals
           /\ Raise("request", Proposal(v, effect, n)) \in AnyRaise
<1>1. Proposal(v, effect, n) \in Proposals
    BY DEF Proposal, Proposals
<1>2. Raise("request", Proposal(v, effect, n)) \in AnyRaise
    BY <1>1, MessageTypes, RaiseType DEF Queues
<1> QED BY <1>1, <1>2

LEMMA LoopAtType ==
    ASSUME NEW v \in Versions, NEW n \in Nat
    PROVE  loop_at(v, n) \in Versions /\ loop_at(v, n).prefix = v.prefix
                                      /\ loop_at(v, n).updated_at = v.updated_at
<1>1. Segment("loop", n) \in Segments
    BY SegmentType DEF SuffixKinds
<1> QED BY <1>1, Append1Type DEF loop_at

LEMMA NextReadySplitType ==
    ASSUME NEW v \in Versions
    PROVE  next_ready_split(v) \in Versions /\ next_ready_split(v).updated_at = v.updated_at
<1> DEFINE n == max_round(v, "ready_split") + 1
<1>1. n \in Nat
    BY RoundTypes
<1>2. Segment("ready_split", n) \in Segments
    BY <1>1, SegmentType DEF SuffixKinds
<1>3. strip_suffixes(v) \in Versions /\ strip_suffixes(v).updated_at = v.updated_at
    BY StripWhileType DEF strip_suffixes
<1> QED BY <1>2, <1>3, Append1Type DEF next_ready_split

(* A read returns comments, and the derived state is typed.                *)
LEMMA SeenType ==
    ASSUME TypeOK
    PROVE  seen \in Seq(Comments) /\ Len(seen) = visible
              /\ \A i \in 1..Len(seen) : i \in 1..Len(comments) /\ seen[i] = comments[i]
BY DEF TypeOK, seen

LEMMA CurrentType ==
    ASSUME NEW cs \in Seq(Comments), NEW cur \in current_state(cs)
    PROVE  /\ cur.state \in States
           /\ cur.version \in Versions
           /\ \/ cur = Unmanaged
              \/ \E i \in 1..Len(cs) : cur.state = cs[i].state /\ cur.version = cs[i].version
<1>1. CASE cur = Unmanaged
    BY <1>1, NoVersionType DEF Unmanaged, States
<1>2. CASE cur # Unmanaged
  <2>1. PICK m \in StateMarkers(cs) : cur = [state |-> m.state, version |-> m.version]
      BY <1>2 DEF current_state, Preferred
  <2>2. PICK i \in MarkerPlaces(cs) : m.state = cs[i].state /\ m.version = cs[i].version
      BY DEF StateMarkers
  <2>3. i \in 1..Len(cs) /\ cs[i].state # "none"
      BY <2>2 DEF MarkerPlaces
  <2>4. cs[i] \in Comments
      BY <2>3
  <2>5. cs[i].state \in States /\ cs[i].version \in Versions
      BY <2>3, <2>4 DEF Comments
  <2> QED BY <2>1, <2>2, <2>3, <2>5
<1> QED BY <1>1, <1>2

(* The rounds recorded for an epoch are bounded; the latest is one of      *)
(* them, and each is recorded by a comment.                                *)
LEMMA FactsType ==
    ASSUME NEW cs \in Seq(Comments), NEW epoch
    PROVE  LET facts == converge_round_facts_for_epoch(cs, epoch)
           IN  /\ DOMAIN facts = RecordedRounds(cs, epoch)
               /\ DOMAIN facts \subseteq Nat
               /\ Max0(DOMAIN facts) \in Nat
               /\ \A n \in DOMAIN facts : n <= Max0(DOMAIN facts)
               /\ DOMAIN facts # {} => Max0(DOMAIN facts) \in DOMAIN facts
               /\ \A n \in DOMAIN facts :
                     /\ facts[n] \in Comments
                     /\ \E i \in RoundPlaces(cs, epoch) : facts[n] = cs[i] /\ cs[i].key.n = n
<1> DEFINE facts == converge_round_facts_for_epoch(cs, epoch)
           D == RecordedRounds(cs, epoch)
<1>1. DOMAIN facts = D
    BY DEF converge_round_facts_for_epoch
<1>2. \A i \in 1..Len(cs) : cs[i] \in Comments /\ cs[i].key.n \in Nat
  <2>1. \A i \in 1..Len(cs) : cs[i] \in Comments
      OBVIOUS
  <2>2. \A c \in Comments : c.key.n \in Nat
      BY DEF Comments, Keys
  <2> QED BY <2>1, <2>2
<1>3. Len(cs) \in Nat /\ RoundPlaces(cs, epoch) \subseteq 1..Len(cs)
    BY DEF RoundPlaces
<1>4. D \in SUBSET Nat
    BY <1>2, <1>3 DEF RecordedRounds
<1>5. PICK b \in Nat : \A i \in 1..Len(cs) : cs[i].key.n <= b
  <2> DEFINE f == [i \in 1..Len(cs) |-> cs[i].key.n]
  <2>1. f \in [1..Len(cs) -> Nat]
      BY <1>2
  <2>2. PICK b \in Nat : \A i \in 1..Len(cs) : f[i] <= b
    <3> HIDE DEF f
    <3> QED BY <1>3, <2>1, BoundedNats
  <2> QED BY <2>2
<1>6. \A x \in D \cup {0} : x <= b
    BY <1>3, <1>5 DEF RecordedRounds
<1>7. Max0(D) \in D \cup {0} /\ \A x \in D \cup {0} : x <= Max0(D)
  <2>1. D \cup {0} \in SUBSET Nat /\ D \cup {0} # {}
      BY <1>4
  <2> HIDE DEF D
  <2> QED BY <1>6, <2>1, MaxNatOfBounded DEF Max0
<1>8. ASSUME NEW n \in D
      PROVE  /\ facts[n] \in Comments
             /\ \E i \in RoundPlaces(cs, epoch) : facts[n] = cs[i] /\ cs[i].key.n = n
  <2> DEFINE P == {i \in RoundPlaces(cs, epoch) : cs[i].key.n = n}
  <2>1. P \in SUBSET Nat /\ P # {} /\ \A x \in P : x <= Len(cs)
      BY <1>3, <1>8 DEF RecordedRounds
  <2>2. facts[n] = cs[MaxNat(P)]
      BY <1>8 DEF converge_round_facts_for_epoch
  <2>3. MaxNat(P) \in P
    <3> HIDE DEF P
    <3> QED BY <1>3, <2>1, MaxNatOfBounded
  <2> QED BY <1>2, <1>3, <2>2, <2>3
<1> DEFINE m == Max0(D)
<1>9. m \in D \cup {0} /\ (\A x \in D \cup {0} : x <= m) /\ D \in SUBSET Nat
    BY <1>4, <1>7
<1>10. m \in Nat /\ (D # {} => m \in D)
  <2> HIDE DEF D, m
  <2>1. m \in Nat
      BY <1>9
  <2>2. CASE m \in D
      BY <2>1, <2>2
  <2>3. CASE m \notin D
    <3>1. m = 0
        BY <2>3, <1>9
    <3>2. \A x \in D : x = 0
        BY <3>1, <1>9
    <3> QED BY <2>1, <2>3, <3>1, <3>2
  <2> QED BY <2>2, <2>3
<1> QED BY <1>1, <1>4, <1>7, <1>8, <1>9, <1>10

LEMMA BaseDedupType ==
    ASSUME NEW v \in Versions
    PROVE  /\ converge_proposal_base_dedup(v) \in Versions
           /\ converge_proposal_base_dedup(v).updated_at = v.updated_at
           /\ "consensus" \notin converge_proposal_base_dedup(v).prefix
<1>1. strip_trailing_loop(v) \in Versions /\ strip_trailing_loop(v).updated_at = v.updated_at
    BY StripWhileType DEF strip_trailing_loop, StripOnce
<1>2. \A u \in Versions : "consensus" \notin DropPrefix(u, "consensus").prefix
    BY DEF DropPrefix, Version
<1> QED BY <1>1, <1>2, PrefixTypes DEF converge_proposal_base_dedup, Prefixes

LEMMA BlockedCommentType ==
    ASSUME NEW v \in Versions, NEW n \in Nat
    PROVE  CommentRequest(BlockedComment(v, n), NoHandoff) \in AnyRaise
<1>1. max_round(v, "loop") + 1 \in Nat
    BY RoundTypes
<1>2. reconcile_terminal_state_version(v, n) \in Versions
    BY <1>1, MaxNatOfPair, LoopAtType DEF reconcile_terminal_state_version
<1>3. BlockedComment(v, n) \in Comments
    BY <1>2, KeyTypes, CommentType DEF BlockedComment, Kinds, States
<1> QED BY <1>3, HandoffTypes, CommentRequestType, NoVersionType

LEMMA RoundCommentType ==
    ASSUME NEW v \in Versions, NEW n \in Nat, NEW epoch \in Versions, NEW verdict \in Nat,
           NEW essence \in BOOLEAN
    PROVE  RoundComment(v, n, epoch, verdict, essence) \in Comments
<1>1. RoundKey("round", v, n) \in Keys
    BY KeyTypes DEF Kinds
<1> QED BY <1>1 DEF RoundComment, Comments

-----------------------------------------------------------------------------
(* The handlers keep the type invariant.                                   *)

LEMMA HandleStepType ==
    ASSUME TypeOK, NEW raises \in Seq(AnyRaise), NEW q, NEW e, Handle(q, e, raises),
           UNCHANGED <<updated_at, comments, visible, memo, gate, wip_free, edits, flips>>
    PROVE  TypeOK'
<1>1. QueuesOK /\ faults \in 0..MaxFaults
    BY DEF TypeOK, QueuesOK
<1>2. QueuesOK' /\ faults' \in 0..MaxFaults
    BY <1>1, HandleType
<1> QED BY <1>2, FrameType

LEMMA WorkStepType ==
    ASSUME TypeOK, NEW raises \in Seq(AnyRaise), NEW q, NEW w, NEW event \in AnyRaise,
           Work(q, w, raises, event),
           UNCHANGED <<updated_at, comments, visible, memo, gate, wip_free, edits, flips>>
    PROVE  TypeOK'
<1>1. QueuesOK /\ faults \in 0..MaxFaults
    BY DEF TypeOK, QueuesOK
<1>2. QueuesOK' /\ faults' \in 0..MaxFaults
    BY <1>1, WorkType
<1> QED BY <1>2, FrameType

LEMMA DeadLetterStepType ==
    ASSUME TypeOK, NEW q, NEW e, DeadLetter(q, e),
           UNCHANGED <<updated_at, comments, visible, memo, gate, wip_free, edits, flips>>
    PROVE  TypeOK'
<1>1. QueuesOK /\ faults \in 0..MaxFaults
    BY DEF TypeOK, QueuesOK
<1>2. QueuesOK' /\ faults' \in 0..MaxFaults
    BY <1>1, DeadLetterType
<1> QED BY <1>2, FrameType

(* The messages in the queues are typed.                                   *)
LEMMA QueueElements ==
    ASSUME TypeOK
    PROVE  /\ \A v \in queues["start"] : v \in Versions
           /\ \A p \in queues["request"] : p \in Proposals
           /\ \A r \in queues["reached"] : r \in Results
           /\ \A e \in queues["continue"] :
                 /\ e.dedup \in Versions /\ e.round \in Nat
                 /\ e.verdict \in Nat /\ e.essence \in BOOLEAN
           /\ \A c \in queues["comment"] :
                 /\ c.comment \in Comments /\ c.handoff \in Handoffs
                 /\ c \in [comment : Comments, handoff : Handoffs]
           /\ \A w \in queues["written"] : w.id \in Nat /\ w.handoff \in Handoffs
           /\ \A e \in queues["ready"] : e \in Readies
           /\ \A e \in queues["plan"] : e \in Readies
           /\ \A e \in queues["reconcile"] : e.base_version \in Versions /\ e.round \in Nat
<1>1. \A q \in Queues : queues[q] \subseteq Messages(q)
    BY DEF TypeOK
<1>2. {"start", "request", "reached", "continue", "comment", "written", "ready", "plan",
       "reconcile"} \subseteq Queues
    BY DEF Queues
<1>3. \A e \in queues["continue"] :
        e \in [dedup : Versions, round : Nat, verdict : Nat, essence : BOOLEAN]
    BY <1>1, <1>2, MessageTypes
<1>4. \A c \in queues["comment"] : c \in [comment : Comments, handoff : Handoffs]
    BY <1>1, <1>2, MessageTypes
<1>5. \A w \in queues["written"] : w \in [id : Nat, handoff : Handoffs]
    BY <1>1, <1>2, MessageTypes
<1>6. \A e \in queues["reconcile"] : e \in [base_version : Versions, round : Nat]
    BY <1>1, <1>2, MessageTypes
<1>7. /\ \A v \in queues["start"] : v \in Versions
      /\ \A p \in queues["request"] : p \in Proposals
      /\ \A r \in queues["reached"] : r \in Results
      /\ \A e \in queues["ready"] : e \in Readies
      /\ \A e \in queues["plan"] : e \in Readies
    BY <1>1, <1>2, MessageTypes
<1> QED BY <1>3, <1>4, <1>5, <1>6, <1>7

LEMMA ThinkingRequestType ==
    ASSUME NEW v \in Versions
    PROVE  CommentRequest(ThinkingComment(v), NoHandoff) \in AnyRaise
<1>1. ThinkingComment(v) \in Comments
    BY KeyTypes, CommentType DEF ThinkingComment, Kinds, States
<1> QED BY <1>1, HandoffTypes, CommentRequestType

LEMMA ObserveEntryType ==
    ASSUME TypeOK, NEW cur, ObserveEntry(cur)
    PROVE  TypeOK'
<1>1. Entry(updated_at) \in Versions
    BY EntryType DEF TypeOK
<1> DEFINE a == Raise("request", Proposal(Entry(updated_at), FALSE, 0))
           b == CommentRequest(ThinkingComment(Entry(updated_at)), NoHandoff)
<1>2. a \in AnyRaise /\ b \in AnyRaise
    BY <1>1, ProposalType, ThinkingRequestType
<1>3. Observe(<<a, b>>)
    BY DEF ObserveEntry
<1> HIDE DEF a, b
<1> QED BY <1>2, <1>3, RaiseSequences, ObserveType

LEMMA ExecuteStartType ==
    ASSUME TypeOK, NEW v \in queues["start"], ExecuteStart(v)
    PROVE  TypeOK'
<1>1. v \in Versions
    BY QueueElements
<1> DEFINE a == CommentRequest(ThinkingComment(v), NoHandoff)
           b == Raise("request", Proposal(v, TRUE, 0))
<1>2. a \in AnyRaise /\ b \in AnyRaise
    BY <1>1, ProposalType, ThinkingRequestType
<1>3. /\ Handle("start", v, <<a, b>>)
      /\ UNCHANGED <<updated_at, comments, visible, memo, gate, wip_free, edits, flips>>
    BY DEF ExecuteStart
<1> HIDE DEF a, b
<1> QED BY <1>2, <1>3, RaiseSequences, HandleStepType

(* The result of a run that consensus decided.                             *)
LEMMA ReachDecisionType ==
    ASSUME TypeOK, NEW p \in queues["request"], ReachDecision(p)
    PROVE  TypeOK'
<1>1. p \in Proposals /\ p.dedup \in Versions /\ p.effect \in BOOLEAN
    BY QueueElements DEF Proposals
<1> DEFINE New(d) == [dedup |-> p.dedup, effect |-> p.effect, decision |-> d]
           Result(m) == [proposal |-> p, effect |-> m.effect, decision |-> m.decision]
<1>2. PICK m :
        /\ m \in Remembered(p) \/ \E d \in Outcomes : m = New(d)
        /\ memo' = memo \cup {m}
        /\ Publish(<<Raise("reached", Result(m))>>, 1, "request", {p})
    BY DEF ReachDecision
<1>3. m \in Memos
    BY <1>1, <1>2, OutcomesAssumption DEF Remembered, TypeOK, Memos
<1> DEFINE x == Result(m)
           a == Raise("reached", x)
<1>4. x \in Results
    BY <1>1, <1>3 DEF Results, Memos
<1> HIDE DEF x
<1>5. a \in AnyRaise
    BY <1>4, MessageTypes, RaiseType DEF Queues
<1>6. Publish(<<a>>, 1, "request", {p})
    BY <1>2 DEF x
<1> HIDE DEF a
<1>7. <<a>> \in Seq(AnyRaise) /\ 1 \in 0..Len(<<a>>)
    BY <1>5, RaiseSequences
<1>8. QueuesOK'
    BY <1>6, <1>7, PublishType DEF TypeOK, QueuesOK
<1> QED BY <1>2, <1>3, <1>8 DEF TypeOK, QueuesOK, ReachDecision

LEMMA ReachConvergeType ==
    ASSUME TypeOK, NEW p \in queues["request"], ReachConverge(p)
    PROVE  TypeOK'
<1>1. p \in Proposals /\ p.dedup \in Versions /\ p.round \in Nat
    BY QueueElements DEF Proposals
<1>2. PICK verdict \in Verdicts, essence \in Essences :
        Handle("request", p,
               <<Raise("continue", [dedup |-> AddPrefix(p.dedup, "consensus"), round |-> p.round,
                                    verdict |-> verdict, essence |-> essence])>>)
    BY DEF ReachConverge
<1> DEFINE x == [dedup |-> AddPrefix(p.dedup, "consensus"), round |-> p.round,
                 verdict |-> verdict, essence |-> essence]
           a == Raise("continue", x)
<1>3. x \in Messages("continue")
    BY <1>1, PrefixTypes, MessageTypes, VerdictsAssumption, ChoicesAssumption DEF Prefixes
<1> HIDE DEF x
<1>4. a \in AnyRaise
    BY <1>3, RaiseType DEF Queues
<1>5. Handle("request", p, <<a>>)
    BY <1>2 DEF x
<1>6. UNCHANGED <<updated_at, comments, visible, memo, gate, wip_free, edits, flips>>
    BY DEF ReachConverge
<1> HIDE DEF a
<1> QED BY <1>4, <1>5, <1>6, RaiseSequences, HandleStepType

LEMMA ConsensusFaultType ==
    ASSUME TypeOK, ConsensusFault
    PROVE  TypeOK'
<1>1. ASSUME NEW p \in queues["request"], ReachDeferred(p) PROVE TypeOK'
  <2>1. <<>> \in Seq(AnyRaise) /\ 0 \in 0..Len(<<>>)
      BY RaiseSequences
  <2>2. QueuesOK'
      BY <1>1, <2>1, PublishType DEF ReachDeferred, TypeOK, QueuesOK
  <2>3. faults' \in 0..MaxFaults
      BY <1>1, BoundsAssumption DEF ReachDeferred, TypeOK
  <2> QED BY <1>1, <2>2, <2>3, FrameType DEF ReachDeferred
<1>2. ASSUME NEW r \in queues["reached"], WorkerLost(r) PROVE TypeOK'
  <2> DEFINE a == Raise("request", r.proposal)
  <2>1. r.proposal \in Proposals
      BY QueueElements DEF Results
  <2>2. a \in AnyRaise
      BY <2>1, MessageTypes, RaiseType DEF Queues
  <2>3. Publish(<<a>>, 1, "reached", {r})
      BY <1>2 DEF WorkerLost
  <2> HIDE DEF a
  <2>4. <<a>> \in Seq(AnyRaise) /\ 1 \in 0..Len(<<a>>)
      BY <2>2, RaiseSequences
  <2>5. QueuesOK'
      BY <2>3, <2>4, PublishType DEF TypeOK, QueuesOK
  <2>6. faults' \in 0..MaxFaults
      BY <1>2, BoundsAssumption DEF WorkerLost, TypeOK
  <2> QED BY <1>2, <2>5, <2>6, FrameType DEF WorkerLost
<1>3. ASSUME NEW m \in memo, MemoLost(m) PROVE TypeOK'
    BY <1>3, BoundsAssumption DEF MemoLost, TypeOK
<1> QED BY <1>1, <1>2, <1>3 DEF ConsensusFault

(* The effects of a decided result.                                        *)
LEMMA ResultEffectsType ==
    ASSUME TypeOK, NEW r \in Results, NEW cur
    PROVE  /\ result_version(r) \in Versions
           /\ raise_result_effects(cur, r) \in Seq(AnyRaise)
<1>1. r.proposal.dedup \in Versions /\ r.decision \in Decisions
    BY DEF Results, Proposals
<1>2. AddPrefix(r.proposal.dedup, "consensus") \in Versions
    BY <1>1, PrefixTypes DEF Prefixes
<1>3. result_version(r) \in Versions
    BY <1>1, <1>2 DEF result_version
<1>4. result_comment(r) \in AnyRaise
  <2> DEFINE c == [key |-> Key("result", result_version(r)), state |-> ResultState(r),
                   version |-> result_version(r), decision |-> r.decision,
                   verdict |-> 0, essence |-> FALSE]
             h == IF ResultState(r) = "ready"
                  THEN ReadyHandoff(result_version(r))
                  ELSE NoHandoff
  <2>1. Key("result", result_version(r)) \in Keys
      BY <1>3, KeyTypes DEF Kinds
  <2>2. ResultState(r) \in States
      BY DEF ResultState, States
  <2>3. c \in Comments
      BY <1>1, <1>3, <2>1, <2>2 DEF Comments
  <2>4. h \in Handoffs
      BY <1>2, <1>3, HandoffTypes
  <2>5. result_comment(r) = CommentRequest(c, h)
      BY DEF result_comment
  <2> HIDE DEF c, h
  <2> QED BY <2>3, <2>4, <2>5, CommentRequestType
<1>5. CommentRequest(HoldComment(result_version(r)), NoHandoff) \in AnyRaise
    BY <1>3, KeyTypes, CommentType, HandoffTypes, CommentRequestType DEF HoldComment, Kinds
<1> DEFINE s == IF /\ has_result_marker(seen, r.decision, r.proposal.dedup)
                   /\ cur.state = ResultState(r)
                THEN <<>> ELSE <<result_comment(r)>>
           t == IF ~GateSatisfied(r) /\ ~dependency_hold_fact(seen, cur)
                THEN <<CommentRequest(HoldComment(result_version(r)), NoHandoff)>> ELSE <<>>
<1>6. s \in Seq(AnyRaise) /\ t \in Seq(AnyRaise)
    BY <1>4, <1>5, RaiseSequences
<1>7. raise_result_effects(cur, r) = s \o t
    BY DEF raise_result_effects
<1> HIDE DEF s, t
<1> QED BY <1>3, <1>6, <1>7, RaiseSequences

LEMMA ConsensusResultType ==
    ASSUME TypeOK, NEW r \in queues["reached"], NEW cur, ConsensusResult(cur, r)
    PROVE  TypeOK'
<1>1. r \in Results
    BY QueueElements
<1> DEFINE a == CommentRequest(Comment(Key("divergence", result_version(r)), "none", NoVersion),
                               NoHandoff)
           event == Raise("request", r.proposal)
<1>2. a \in AnyRaise
    BY <1>1, ResultEffectsType, NoVersionType, KeyTypes, CommentType, HandoffTypes,
       CommentRequestType DEF Kinds
<1>3. /\ \/ Work("reached", r, <<a>>, event)
         \/ Work("reached", r, <<>>, event)
         \/ Work("reached", r, raise_result_effects(cur, r), event)
         \/ DeadLetter("reached", r)
      /\ UNCHANGED <<updated_at, comments, visible, memo, gate, wip_free, edits, flips>>
    BY DEF ConsensusResult
<1>5. event \in AnyRaise
    BY <1>1, MessageTypes, RaiseType DEF Queues, Results
<1> HIDE DEF a, event
<1>4. <<a>> \in Seq(AnyRaise) /\ <<>> \in Seq(AnyRaise)
    BY <1>2, RaiseSequences
<1> QED BY <1>1, <1>3, <1>4, <1>5, ResultEffectsType, WorkStepType, DeadLetterStepType

(* The loop department.                                                    *)
LEMMA LoopType ==
    ASSUME TypeOK, NEW e \in queues["continue"], NEW cur \in current_state(seen),
           Loop(cur, converge_round_facts_for_epoch(seen, cur.version), e)
    PROVE  TypeOK'
<1> DEFINE facts == converge_round_facts_for_epoch(seen, cur.version)
           latest == Max0(DOMAIN facts)
           old == CommentRequest(RoundComment(facts[latest].key.v, latest, NoVersion, 0, FALSE),
                                 ReconcileHandoff(cur.version, latest))
           record == RoundComment(e.dedup, e.round, cur.version, e.verdict, e.essence)
           next == loop_at(converge_proposal_base_dedup(e.dedup), e.round + 1)
           drop == CommentRequest(record, ReconcileHandoff(cur.version, e.round))
           ask == Raise("request", Proposal(next, FALSE, e.round + 1))
           note == CommentRequest(record, NoHandoff)
<1>1. e.dedup \in Versions /\ e.round \in Nat /\ e.verdict \in Nat /\ e.essence \in BOOLEAN
    BY QueueElements
<1>2. cur.version \in Versions
    BY SeenType, CurrentType
<1>3. record \in Comments
    BY <1>1, <1>2, RoundCommentType
<1>4. drop \in AnyRaise /\ note \in AnyRaise
  <2> HIDE DEF record
  <2> QED BY <1>1, <1>2, <1>3, HandoffTypes, CommentRequestType
<1>5. ask \in AnyRaise
  <2>1. e.round + 1 \in Nat
      BY <1>1
  <2>2. converge_proposal_base_dedup(e.dedup) \in Versions
      BY <1>1, BaseDedupType
  <2>3. next \in Versions
      BY <2>1, <2>2, LoopAtType
  <2> HIDE DEF next
  <2> QED BY <2>1, <2>3, ProposalType
<1>6. terminal_cause(facts, latest) => old \in AnyRaise
  <2>1. SUFFICES ASSUME terminal_cause(facts, latest) PROVE old \in AnyRaise
      OBVIOUS
  <2>2. latest \in Nat /\ (DOMAIN facts # {} => latest \in DOMAIN facts)
          /\ \A n \in DOMAIN facts : facts[n] \in Comments
      BY SeenType, FactsType
  <2>3. DOMAIN facts # {}
    <3> HIDE DEF facts
    <3> QED BY <2>1 DEF terminal_cause, is_true_stall
  <2>4. facts[latest] \in Comments
      BY <2>2, <2>3
  <2>5. \A c \in Comments : c.key.v \in Versions
      BY DEF Comments, Keys
  <2> DEFINE v == facts[latest].key.v
  <2>6. v \in Versions
      BY <2>4, <2>5
  <2> HIDE DEF v, latest, facts
  <2>7. RoundComment(v, latest, NoVersion, 0, FALSE) \in Comments
      BY <2>2, <2>6, NoVersionType, RoundCommentType
  <2>8. ReconcileHandoff(cur.version, latest) \in Handoffs
      BY <1>2, <2>2, HandoffTypes
  <2> QED BY <2>7, <2>8, CommentRequestType DEF v
<1>7. /\ \/ Handle("continue", e, <<>>)
         \/ DeadLetter("continue", e)
         \/ terminal_cause(facts, latest) /\ Handle("continue", e, <<old>>)
         \/ Handle("continue", e, <<drop>>)
         \/ Handle("continue", e, <<ask, note>>)
      /\ UNCHANGED <<updated_at, comments, visible, memo, gate, wip_free, edits, flips>>
  <2>1. Loop(cur, facts, e)
      OBVIOUS
  <2> HIDE DEF facts
  <2> QED BY <2>1 DEF Loop
<1> HIDE DEF old, drop, ask, note, latest, facts
<1>8. /\ <<>> \in Seq(AnyRaise) /\ <<drop>> \in Seq(AnyRaise) /\ <<ask, note>> \in Seq(AnyRaise)
      /\ terminal_cause(facts, latest) => <<old>> \in Seq(AnyRaise)
    BY <1>4, <1>5, <1>6, RaiseSequences
<1> QED BY <1>7, <1>8, HandleStepType, DeadLetterStepType

LEMMA ReconcileType ==
    ASSUME TypeOK, NEW e \in queues["reconcile"], NEW cur, Reconcile(cur, e)
    PROVE  TypeOK'
<1> DEFINE a == CommentRequest(BlockedComment(e.base_version, e.round), NoHandoff)
<1>1. a \in AnyRaise
    BY QueueElements, BlockedCommentType
<1>2. /\ \/ Handle("reconcile", e, <<>>)
         \/ DeadLetter("reconcile", e)
         \/ Handle("reconcile", e, <<a>>)
      /\ UNCHANGED <<updated_at, comments, visible, memo, gate, wip_free, edits, flips>>
    BY DEF Reconcile
<1> HIDE DEF a
<1>3. <<>> \in Seq(AnyRaise) /\ <<a>> \in Seq(AnyRaise)
    BY <1>1, RaiseSequences
<1> QED BY <1>2, <1>3, HandleStepType, DeadLetterStepType


LEMMA ObserveThinkingType ==
    ASSUME TypeOK, NEW cur \in current_state(seen),
           ObserveThinking(cur, converge_round_facts_for_epoch(seen, cur.version))
    PROVE  TypeOK'
<1> DEFINE facts == converge_round_facts_for_epoch(seen, cur.version)
           latest == Max0(DOMAIN facts)
           drop == CommentRequest(BlockedComment(cur.version, latest), NoHandoff)
<1>1. cur.version \in Versions
    BY SeenType, CurrentType
<1>2. latest \in Nat /\ (DOMAIN facts # {} => latest \in DOMAIN facts)
        /\ \A n \in DOMAIN facts : facts[n] \in Comments
    BY SeenType, FactsType
<1>3. ObserveThinking(cur, facts)
    OBVIOUS
<1> HIDE DEF facts
<1>4. drop \in AnyRaise
  <2> HIDE DEF latest
  <2> QED BY <1>1, <1>2, BlockedCommentType
<1>5. \A redrive \in BOOLEAN : replay_proposal(facts, cur.version, redrive) \in Proposals
  <2>1. SUFFICES ASSUME NEW redrive \in BOOLEAN
                 PROVE  replay_proposal(facts, cur.version, redrive) \in Proposals
      OBVIOUS
  <2>2. CASE DOMAIN facts # {}
    <3> DEFINE v == facts[latest].key.v
               base == converge_proposal_base_dedup(v)
    <3>1. \A c \in Comments : c.key.v \in Versions
        BY DEF Comments, Keys
    <3>2. v \in Versions
        BY <1>2, <2>2, <3>1
    <3>3. base \in Versions
      <4> HIDE DEF v
      <4> QED BY <3>2, BaseDedupType
    <3>4. latest + 1 \in Nat
        BY <1>2
    <3>5. replay_proposal(facts, cur.version, redrive)
             = Proposal(loop_at(base, latest + 1), redrive, latest + 1)
        BY <2>2 DEF replay_proposal
    <3> HIDE DEF base, latest
    <3>6. loop_at(base, latest + 1) \in Versions
        BY <3>3, <3>4, LoopAtType
    <3> QED BY <3>4, <3>5, <3>6, ProposalType
  <2>3. CASE DOMAIN facts = {}
    <3> DEFINE base == strip_timeout_suffixes(cur.version)
    <3>1. base \in Versions
        BY <1>1, StripWhileType DEF strip_timeout_suffixes
    <3>2. replay_proposal(facts, cur.version, redrive)
             = Proposal(base, redrive, max_round(base, "loop"))
        BY <2>3 DEF replay_proposal
    <3> HIDE DEF base
    <3>3. max_round(base, "loop") \in Nat
        BY <3>1, RoundTypes
    <3> QED BY <3>1, <3>2, <3>3, ProposalType
  <2> QED BY <2>2, <2>3
<1>6. \/ Observe(<<drop>>)
      \/ \E redrive \in Redrives :
            Observe(<<Raise("request", replay_proposal(facts, cur.version, redrive))>>)
    BY <1>3 DEF ObserveThinking
<1>7. CASE Observe(<<drop>>)
  <2> HIDE DEF drop
  <2> QED BY <1>4, <1>7, RaiseSequences, ObserveType
<1>8. ASSUME NEW redrive \in Redrives,
             Observe(<<Raise("request", replay_proposal(facts, cur.version, redrive))>>)
      PROVE  TypeOK'
  <2> DEFINE p == replay_proposal(facts, cur.version, redrive)
             a == Raise("request", p)
  <2>1. p \in Proposals
      BY <1>5, ChoicesAssumption
  <2> HIDE DEF p
  <2>2. a \in AnyRaise
      BY <2>1, MessageTypes, RaiseType DEF Queues
  <2>3. Observe(<<a>>)
      BY <1>8 DEF p
  <2> HIDE DEF a
  <2> QED BY <2>2, <2>3, RaiseSequences, ObserveType
<1> QED BY <1>6, <1>7, <1>8

(* github-proxy.                                                           *)
LEMMA WrittenReportType ==
    ASSUME NEW c \in [comment : Comments, handoff : Handoffs], NEW id \in Nat
    PROVE  WrittenReport(c, id) \in Seq(AnyRaise)
<1> DEFINE x == [id |-> id, handoff |-> c.handoff]
           a == Raise("written", x)
<1>1. x \in Messages("written")
    BY MessageTypes
<1> HIDE DEF x
<1>2. a \in AnyRaise
    BY <1>1, RaiseType DEF Queues
<1>3. WrittenReport(c, id) = <<>> \/ WrittenReport(c, id) = <<a>>
    BY DEF WrittenReport, x
<1> HIDE DEF a
<1> QED BY <1>2, <1>3, RaiseSequences

(* The proxy reports the first comment with the requested key.             *)
LEMMA FirstPlace ==
    ASSUME NEW cs \in Seq(Comments), NEW key, KeyPlaces(cs, key) # {}
    PROVE  LET places == KeyPlaces(cs, key)
               i == CHOOSE i \in places : \A j \in places : i <= j
           IN  i \in 1..Len(cs) /\ i \in Nat /\ cs[i].key = key /\ \A j \in places : i <= j
<1> DEFINE places == KeyPlaces(cs, key)
<1>1. places \in SUBSET Nat /\ places \subseteq 1..Len(cs) /\ \A i \in places : cs[i].key = key
    BY DEF KeyPlaces
<1>2. \E i \in places : \A j \in places : i <= j
  <2> HIDE DEF places
  <2> QED BY <1>1, LeastNat DEF places
<1> QED BY <1>1, <1>2

LEMMA ProxySkipType ==
    ASSUME TypeOK, NEW c \in queues["comment"], ProxySkip(c)
    PROVE  TypeOK'
<1> DEFINE places == KeyPlaces(comments, c.comment.key)
           i == CHOOSE i \in places : \A j \in places : i <= j
<1>1. places # {} /\ Handle("comment", c, WrittenReport(c, i))
      /\ UNCHANGED <<updated_at, comments, visible, memo, gate, wip_free, edits, flips>>
    BY DEF ProxySkip
<1>2. i \in Nat
    BY <1>1, FirstPlace DEF TypeOK
<1> HIDE DEF i
<1>3. WrittenReport(c, i) \in Seq(AnyRaise)
    BY <1>2, QueueElements, WrittenReportType
<1> QED BY <1>1, <1>3, HandleStepType

LEMMA ProxyWriteType ==
    ASSUME TypeOK, NEW c \in queues["comment"], ProxyWrite(c) \/ ProxyWriteLagging(c)
    PROVE  TypeOK'
<1> DEFINE report == WrittenReport(c, Len(comments) + 1)
<1>1. Len(comments) + 1 \in Nat /\ Len(comments) \in Nat
    BY DEF TypeOK
<1>2. report \in Seq(AnyRaise)
    BY <1>1, QueueElements, WrittenReportType
<1>3. comments' \in Seq(Comments) /\ Len(comments') = Len(comments) + 1
  <2>1. c.comment \in Comments /\ comments \in Seq(Comments)
      BY QueueElements DEF TypeOK
  <2>2. comments' = Append(comments, c.comment)
      BY DEF ProxyWrite, ProxyWriteLagging
  <2> QED BY <2>1, <2>2
<1>4. visible' \in 0..Len(comments')
    BY <1>1, <1>3 DEF ProxyWrite, ProxyWriteLagging, TypeOK
<1>5. QueuesOK' /\ faults' \in 0..MaxFaults
  <2>1. QueuesOK /\ faults \in 0..MaxFaults
      BY DEF TypeOK, QueuesOK
  <2>2. CASE Handle("comment", c, report)
    <3> HIDE DEF report
    <3> QED BY <1>2, <2>1, <2>2, HandleType
  <2>3. CASE /\ Publish(report, Len(report), "comment", {c})
             /\ faults > 0
             /\ faults' = faults - 1
    <3> HIDE DEF report
    <3>1. Len(report) \in 0..Len(report)
        BY <1>2
    <3>2. QueuesOK'
        BY <1>2, <2>1, <2>3, <3>1, PublishType
    <3> QED BY <2>1, <2>3, <3>2, BoundsAssumption
  <2> QED BY <2>2, <2>3 DEF ProxyWrite, ProxyWriteLagging
<1>6. UNCHANGED <<updated_at, memo, gate, wip_free, edits, flips>>
    BY DEF ProxyWrite, ProxyWriteLagging
<1> QED BY <1>3, <1>4, <1>5, <1>6 DEF TypeOK, QueuesOK

LEMMA ReadyEventType ==
    ASSUME NEW v \in Versions, NEW marker \in Versions, NEW id \in Nat
    PROVE  Raise("ready", ReadyEvent(v, marker, id)) \in AnyRaise
<1>1. ReadyEvent(v, marker, id) \in Readies
    BY PrefixTypes DEF ReadyEvent, Readies, Prefixes
<1> QED BY <1>1, MessageTypes, RaiseType DEF Queues

LEMMA CommentHandoffType ==
    ASSUME TypeOK, NEW w \in queues["written"], CommentHandoff(w)
    PROVE  TypeOK'
<1>1. /\ w.id \in Nat
      /\ w.handoff.version \in Versions /\ w.handoff.n \in Nat
    BY QueueElements DEF Handoffs
<1> DEFINE x == [base_version |-> w.handoff.version, round |-> w.handoff.n]
           a == Raise("ready", ReadyEvent(w.handoff.version, w.handoff.version, w.id))
           b == Raise("reconcile", x)
<1>2. a \in AnyRaise
    BY <1>1, ReadyEventType
<1>3. x \in Messages("reconcile")
    BY <1>1, MessageTypes
<1>4. b \in AnyRaise
  <2> HIDE DEF x
  <2> QED BY <1>3, RaiseType DEF Queues
<1>5. Handle("written", w, <<a>>) \/ Handle("written", w, <<b>>)
    BY DEF CommentHandoff
<1>6. UNCHANGED <<updated_at, comments, visible, memo, gate, wip_free, edits, flips>>
    BY DEF CommentHandoff
<1> HIDE DEF a, b
<1> QED BY <1>2, <1>4, <1>5, <1>6, RaiseSequences, HandleStepType


(* The dependency gate.                                                    *)
LEMMA SplitEffectsType ==
    ASSUME NEW v \in Versions, NEW to_state \in {"ready", "dependency_wait"}
    PROVE  raise_ready_split_effects(v, to_state) \in AnyRaise
<1> DEFINE to == next_ready_split(v)
           c == Comment(SplitKey(v, to), to_state, to)
           h == IF to_state = "ready" THEN ReadyHandoff(to) ELSE NoHandoff
<1>1. to \in Versions
    BY NextReadySplitType
<1>2. raise_ready_split_effects(v, to_state) = CommentRequest(c, h)
    BY DEF raise_ready_split_effects
<1> HIDE DEF to
<1>3. SplitKey(v, to) \in Keys /\ to_state \in States
    BY <1>1, KeyTypes DEF Kinds, States
<1>4. c \in Comments
    BY <1>1, <1>3, CommentType
<1>5. h \in Handoffs
    BY <1>1, HandoffTypes
<1> HIDE DEF c, h
<1> QED BY <1>2, <1>4, <1>5, CommentRequestType

LEMMA ObserveDependencyWaitType ==
    ASSUME TypeOK, NEW cur \in current_state(seen), ObserveDependencyWait(cur)
    PROVE  TypeOK'
<1> DEFINE v == cur.version
           split == raise_ready_split_effects(v, "ready")
           release == CommentRequest(ReleaseComment(v), NoHandoff)
           hold == CommentRequest(HoldComment(v), NoHandoff)
           block == CommentRequest(Comment(Key("gate-blocked", v), "blocked", v), NoHandoff)
<1>1. v \in Versions
    BY SeenType, CurrentType
<1>2. split \in AnyRaise /\ release \in AnyRaise /\ hold \in AnyRaise /\ block \in AnyRaise
  <2>1. split \in AnyRaise
      BY <1>1, SplitEffectsType
  <2>2. NoHandoff \in Handoffs
      BY <1>1, HandoffTypes
  <2>3. ReleaseComment(v) \in Comments
      BY <1>1, NoVersionType, KeyTypes, CommentType DEF ReleaseComment, Kinds
  <2>4. HoldComment(v) \in Comments
      BY <1>1, KeyTypes, CommentType DEF HoldComment, Kinds
  <2>5. Comment(Key("gate-blocked", v), "blocked", v) \in Comments
      BY <1>1, KeyTypes, CommentType DEF Kinds, States
  <2> QED BY <2>1, <2>2, <2>3, <2>4, <2>5, CommentRequestType
<1>3. gate \in {"satisfied", "waiting", "blocked"}
    BY DEF TypeOK, Gates
<1>4. \/ Observe(<<split>> \o <<>>)
      \/ Observe(<<split>> \o <<release>>)
      \/ Observe(<<hold>>)
      \/ Observe(<<block>>)
      \/ Observe(<<>>)
    BY <1>3 DEF ObserveDependencyWait, replay_dependency_wait_state, raise_dependency_release
<1> HIDE DEF split, release, hold, block
<1>5. /\ <<split>> \in Seq(AnyRaise) /\ <<release>> \in Seq(AnyRaise) /\ <<>> \in Seq(AnyRaise)
      /\ <<hold>> \in Seq(AnyRaise) /\ <<block>> \in Seq(AnyRaise)
    BY <1>2, RaiseSequences
<1>6. <<split>> \o <<>> \in Seq(AnyRaise) /\ <<split>> \o <<release>> \in Seq(AnyRaise)
    BY <1>5, RaiseSequences
<1> QED BY <1>4, <1>5, <1>6, ObserveType

LEMMA ObserveReadyType ==
    ASSUME TypeOK, NEW cur \in current_state(seen), ObserveReady(cur)
    PROVE  TypeOK'
<1> DEFINE v == cur.version
           ready == raise_ready_split_effects(v, "ready")
           wait == raise_ready_split_effects(v, "dependency_wait")
           RedriveOf(i) == Raise("ready", ReadyEvent(redrive_at(v, 1), v, i))
<1>1. v \in Versions
    BY SeenType, CurrentType
<1>2. ready \in AnyRaise /\ wait \in AnyRaise
    BY <1>1, SplitEffectsType
<1>3. \A i \in 1..Len(seen) : RedriveOf(i) \in AnyRaise
  <2>1. redrive_at(v, 1) \in Versions
      BY <1>1, SegmentType, Append1Type DEF redrive_at
  <2>2. 1..Len(seen) \subseteq Nat
      BY SeenType
  <2> HIDE DEF v
  <2> QED BY <1>1, <2>1, <2>2, ReadyEventType DEF v
<1>4. \/ Observe(<<ready>>)
      \/ Observe(<<wait>>)
      \/ \E i \in 1..Len(seen) : Observe(<<RedriveOf(i)>>)
    BY DEF ObserveReady, replay_ready_state, ready_hand_off_comment_ids
<1>5. CASE Observe(<<ready>>) \/ Observe(<<wait>>)
  <2> HIDE DEF ready, wait
  <2> QED BY <1>2, <1>5, RaiseSequences, ObserveType
<1>6. ASSUME NEW i \in 1..Len(seen), Observe(<<RedriveOf(i)>>) PROVE TypeOK'
  <2> DEFINE a == RedriveOf(i)
  <2>1. a \in AnyRaise /\ Observe(<<a>>)
      BY <1>3, <1>6
  <2> HIDE DEF a
  <2> QED BY <2>1, RaiseSequences, ObserveType
<1> QED BY <1>4, <1>5, <1>6

(* The start of the implementation.                                        *)
LEMMA ImplementType ==
    ASSUME TypeOK, NEW e \in queues["ready"], NEW cur, Implement(cur, e)
    PROVE  TypeOK'
<1> DEFINE wait == raise_ready_split_effects(ready_payload_inner_version(e.dedup), "dependency_wait")
           Planned(b) == Raise("plan", Plan(e, b))
<1>1. e \in Readies /\ e.dedup \in Versions
    BY QueueElements DEF Readies
<1>2. ready_payload_inner_version(e.dedup) \in Versions
    BY <1>1, PrefixTypes DEF ready_payload_inner_version, Prefixes
<1>3. wait \in AnyRaise
    BY <1>2, SplitEffectsType
<1>4. \A b \in BOOLEAN : Planned(b) \in AnyRaise
  <2>1. \A b \in BOOLEAN : Plan(e, b) \in Readies
      BY <1>1 DEF Plan, Readies
  <2> QED BY <2>1, MessageTypes, RaiseType DEF Queues
<1>5. /\ \/ Handle("ready", e, <<wait>>)
         \/ Handle("ready", e, <<>>)
         \/ DeadLetter("ready", e)
         \/ \E b \in BOOLEAN : Handle("ready", e, <<Planned(b)>>)
      /\ UNCHANGED <<updated_at, comments, visible, memo, gate, wip_free, edits, flips>>
  <2> DEFINE b == resolve_implement("initial", cur, e.dedup, FALSE) = "pending" /\ verified_hand_off(e)
  <2>1. b \in BOOLEAN
      OBVIOUS
  <2> QED BY <2>1 DEF Implement
<1>6. CASE Handle("ready", e, <<wait>>) \/ Handle("ready", e, <<>>) \/ DeadLetter("ready", e)
  <2> HIDE DEF wait
  <2> QED BY <1>3, <1>5, <1>6, RaiseSequences, HandleStepType, DeadLetterStepType
<1>7. ASSUME NEW b \in BOOLEAN, Handle("ready", e, <<Planned(b)>>) PROVE TypeOK'
  <2> DEFINE a == Planned(b)
  <2>1. a \in AnyRaise /\ Handle("ready", e, <<a>>)
      BY <1>4, <1>7
  <2> HIDE DEF a
  <2> QED BY <1>5, <2>1, RaiseSequences, HandleStepType
<1> QED BY <1>5, <1>6, <1>7

LEMMA ImplementStartType ==
    ASSUME TypeOK, NEW e \in queues["plan"], NEW cur, ImplementStart(cur, e)
    PROVE  TypeOK'
<1> DEFINE a == CommentRequest(ImplementingComment(e.dedup), NoHandoff)
           event == Raise("ready", Plan(e, FALSE))
<1>1. e.dedup \in Versions
    BY QueueElements DEF Readies
<1>2. ImplementingComment(e.dedup) \in Comments
    BY <1>1, KeyTypes, CommentType DEF ImplementingComment, Kinds, States
<1>3. a \in AnyRaise
    BY <1>1, <1>2, HandoffTypes, CommentRequestType
<1>4. /\ Work("plan", e, <<a>>, event) \/ Work("plan", e, <<>>, event)
      /\ UNCHANGED <<updated_at, comments, visible, memo, gate, wip_free, edits, flips>>
    BY DEF ImplementStart
<1>5. event \in AnyRaise
  <2>1. Plan(e, FALSE) \in Readies
      BY QueueElements DEF Plan, Readies
  <2> QED BY <2>1, MessageTypes, RaiseType DEF Queues
<1> HIDE DEF a, event
<1> QED BY <1>3, <1>4, <1>5, RaiseSequences, WorkStepType

(* The environment.                                                        *)
LEMMA EnvironmentType ==
    ASSUME TypeOK, Environment
    PROVE  TypeOK'
<1>1. CASE RequestStart
  <2>1. Entry(updated_at) \in Messages("start")
      BY EntryType, MessageTypes DEF TypeOK
  <2>2. "start" \in Queues
      BY DEF Queues
  <2>3. QueuesOK'
      BY <1>1, <2>1, <2>2 DEF RequestStart, TypeOK, QueuesOK
  <2>4. edits' \in 0..MaxEdits
      BY <1>1, BoundsAssumption DEF RequestStart, TypeOK
  <2> QED BY <1>1, <2>3, <2>4 DEF RequestStart, TypeOK, QueuesOK
<1>2. CASE EditIssue
    BY <1>2, BoundsAssumption DEF EditIssue, TypeOK
<1>3. CASE ChangeCapacity
    BY <1>3, BoundsAssumption DEF ChangeCapacity, TypeOK
<1>4. CASE CatchUp
    BY <1>4 DEF CatchUp, TypeOK
<1>5. ASSUME NEW g \in Gates, ChangeGate(g) PROVE TypeOK'
    BY <1>5, BoundsAssumption DEF ChangeGate, TypeOK
<1> QED BY <1>1, <1>2, <1>3, <1>4, <1>5 DEF Environment

LEMMA InitType == Init => TypeOK
BY BoundsAssumption DEF Init, TypeOK, Gates

(* Every step of the lifecycle keeps the type invariant.                   *)
LEMMA StepType == TypeOK /\ [Next]_vars => TypeOK'
<1> SUFFICES ASSUME TypeOK, [Next]_vars PROVE TypeOK'
    OBVIOUS
<1>1. CASE HandleStart
    BY <1>1, ExecuteStartType DEF HandleStart
<1>2. CASE ConsensusDecision
    BY <1>2, ReachDecisionType DEF ConsensusDecision
<1>3. CASE ConsensusConverge
    BY <1>3, ReachConvergeType DEF ConsensusConverge
<1>4. CASE ConsensusFault
    BY <1>4, ConsensusFaultType
<1>5. CASE HandleResult
    BY <1>5, ConsensusResultType DEF HandleResult
<1>6. CASE HandleContinue
    BY <1>6, LoopType DEF HandleContinue
<1>7. CASE HandleReconcile
    BY <1>7, ReconcileType DEF HandleReconcile
<1>8. CASE ObserveIssue
    BY <1>8, ObserveEntryType, ObserveThinkingType, ObserveDependencyWaitType, ObserveReadyType
       DEF ObserveIssue
<1>9. CASE HandleWritten
    BY <1>9, CommentHandoffType DEF HandleWritten
<1>10. CASE HandleReady
    BY <1>10, ImplementType DEF HandleReady, HandlesReady
<1>11. CASE HandlePlan
    BY <1>11, ImplementStartType DEF HandlePlan
<1>12. CASE Proxy
    BY <1>12, ProxySkipType, ProxyWriteType DEF Proxy, ProxyHandles, ProxyFault
<1>13. CASE Environment
    BY <1>13, EnvironmentType
<1>14. CASE UNCHANGED vars
    BY <1>14 DEF vars, TypeOK
<1> QED BY <1>1, <1>2, <1>3, <1>4, <1>5, <1>6, <1>7, <1>8, <1>9, <1>10, <1>11, <1>12, <1>13, <1>14
        DEF Next

(* The state of the lifecycle always has its type: every handler raises    *)
(* only messages that its consumer can read, and no count leaves its       *)
(* bounds.                                                                 *)
THEOREM TypeCorrect == Spec => []TypeOK
BY InitType, StepType, PTL DEF Spec

-----------------------------------------------------------------------------
(* What a delivery adds to the queues, whatever it fails to publish: the   *)
(* messages of these raises and no others.                                 *)

Adds(S) ==
    \A p \in Queues : \A m \in queues'[p] :
        m \in queues[p] \/ \E r \in S : r.queue = p /\ r.msg = m

LEMMA AddsMore ==
    ASSUME NEW S, NEW T, S \subseteq T, Adds(S)
    PROVE  Adds(T)
BY DEF Adds

(* The shapes of raises that the handlers have.                            *)
LEMMA RaiseShapes ==
    /\ <<>> \in Seq({}) /\ Len(<<>>) = 0
    /\ \A a : <<a>> \in Seq({a}) /\ Len(<<a>>) = 1
    /\ \A a, b : <<a, b>> \in Seq({a, b}) /\ Len(<<a, b>>) = 2
OBVIOUS

LEMMA PublishAdds ==
    ASSUME NEW S, NEW raises \in Seq(S), NEW k \in 0..Len(raises), NEW q, NEW handled,
           Publish(raises, k, q, handled)
    PROVE  Adds(S)
<1> SUFFICES ASSUME NEW p \in Queues, NEW m \in queues'[p]
             PROVE  m \in queues[p] \/ \E r \in S : r.queue = p /\ r.msg = m
    BY DEF Adds
<1>1. queues'[p] = (IF p = q THEN queues[p] \ handled ELSE queues[p]) \cup Published(raises, k, p)
    BY DEF Publish
<1>2. CASE m \in Published(raises, k, p)
  <2>1. PICK i \in 1..k : raises[i].queue = p /\ raises[i].msg = m
      BY <1>2 DEF Published
  <2>2. raises[i] \in S
      OBVIOUS
  <2> QED BY <2>1, <2>2
<1> QED BY <1>1, <1>2

LEMMA HandleAdds ==
    ASSUME NEW S, NEW raises \in Seq(S), NEW q, NEW e, Handle(q, e, raises)
    PROVE  Adds(S)
<1>1. Len(raises) \in 0..Len(raises)
    OBVIOUS
<1>2. PICK k \in 0..Len(raises), handled \in {{}, {e}} : Publish(raises, k, q, handled)
    BY <1>1 DEF Handle
<1> QED BY <1>2, PublishAdds

LEMMA WorkAdds ==
    ASSUME NEW S, NEW raises \in Seq(S), NEW q, NEW w, NEW event \in S, Work(q, w, raises, event)
    PROVE  Adds(S)
<1> DEFINE all == <<event>> \o raises
<1>1. CASE Publish(raises, Len(raises), q, {w})
  <2>1. Len(raises) \in 0..Len(raises)
      OBVIOUS
  <2> QED BY <1>1, <2>1, PublishAdds
<1>2. CASE \E k \in 1..(Len(raises) + 1) : Publish(all, k, q, {w})
  <2>1. all \in Seq(S) /\ 1..(Len(raises) + 1) \subseteq 0..Len(all)
      OBVIOUS
  <2> HIDE DEF all
  <2> QED BY <1>2, <2>1, PublishAdds
<1> QED BY <1>1, <1>2 DEF Work

LEMMA ObserveAdds ==
    ASSUME NEW S, NEW raises \in Seq(S), Observe(raises)
    PROVE  Adds(S)
<1>1. Len(raises) \in 0..Len(raises) /\ 1..(Len(raises) - 1) \subseteq 0..Len(raises)
    OBVIOUS
<1>2. PICK k \in 0..Len(raises) : Publish(raises, k, "start", {})
    BY <1>1 DEF Observe
<1> QED BY <1>2, PublishAdds

(* The same for the sequences of raises that the handlers write.           *)
LEMMA SeqShapes ==
    ASSUME NEW S
    PROVE  /\ <<>> \in Seq(S)
           /\ \A a \in S : <<a>> \in Seq(S) /\ Len(<<a>>) = 1
           /\ \A a, b \in S : <<a, b>> \in Seq(S)
OBVIOUS

LEMMA DeliveryAdds ==
    ASSUME NEW S, NEW q, NEW e
    PROVE  /\ DeadLetter(q, e) => Adds(S)
           /\ Handle(q, e, <<>>) => Adds(S)
           /\ \A a \in S : Handle(q, e, <<a>>) => Adds(S)
           /\ \A a, b \in S : Handle(q, e, <<a, b>>) => Adds(S)
           /\ \A event \in S : Work(q, e, <<>>, event) => Adds(S)
           /\ \A event, a \in S : Work(q, e, <<a>>, event) => Adds(S)
           /\ \A event, a, b \in S : Work(q, e, <<a, b>>, event) => Adds(S)
           /\ \A h : Publish(<<>>, 0, q, h) => Adds(S)
           /\ \A a \in S : \A h : Publish(<<a>>, 1, q, h) => Adds(S)
           /\ Observe(<<>>) => Adds(S)
           /\ \A a \in S : Observe(<<a>>) => Adds(S)
           /\ \A a, b \in S : Observe(<<a, b>>) => Adds(S)
<1>1. ASSUME NEW raises \in Seq(S)
      PROVE  /\ Handle(q, e, raises) => Adds(S)
             /\ \A event \in S : Work(q, e, raises, event) => Adds(S)
             /\ Observe(raises) => Adds(S)
             /\ \A h : \A k \in 0..Len(raises) : Publish(raises, k, q, h) => Adds(S)
    BY HandleAdds, WorkAdds, ObserveAdds, PublishAdds
<1>2. ASSUME NEW h, Publish(<<>>, 0, q, h) PROVE Adds(S)
  <2> DEFINE raises == <<>>
             k == 0
  <2>1. raises \in Seq(S) /\ k \in 0..Len(raises) /\ Publish(raises, k, q, h)
      BY <1>2, SeqShapes, RaiseShapes
  <2> HIDE DEF raises, k
  <2> QED BY <1>1, <2>1
<1>3. ASSUME NEW a \in S, NEW h, Publish(<<a>>, 1, q, h) PROVE Adds(S)
  <2> DEFINE raises == <<a>>
             k == 1
  <2>1. raises \in Seq(S) /\ k \in 0..Len(raises) /\ Publish(raises, k, q, h)
      BY <1>3, SeqShapes
  <2> HIDE DEF raises, k
  <2> QED BY <1>1, <2>1
<1>4. DeadLetter(q, e) => Adds(S)
    BY <1>2 DEF DeadLetter
<1> QED BY <1>1, <1>2, <1>3, <1>4, SeqShapes

(* Concatenations of at most one raise each.                               *)
LEMMA ShortConcats ==
    ASSUME NEW b, NEW c
    PROVE  /\ <<>> \o <<>> = <<>>
           /\ <<b>> \o <<>> = <<b>>
           /\ <<>> \o <<c>> = <<c>>
           /\ <<b>> \o <<c>> = <<b, c>>
<1>1. <<b>> \in Seq({b, c}) /\ <<c>> \in Seq({b, c})
    OBVIOUS
<1>2. <<>> \o <<>> = <<>> /\ <<b>> \o <<>> = <<b>> /\ <<>> \o <<c>> = <<c>>
    BY <1>1, ConcatEmptySeq
<1>3. <<b>> \o <<c>> = <<b, c>>
  <2> DEFINE S == {b, c}
             s == <<b>> \o <<c>>
             t == <<b, c>>
  <2>1. t \in Seq(S) /\ Len(t) = 2 /\ t[1] = b /\ t[2] = c
      OBVIOUS
  <2>2. s \in Seq(S) /\ Len(s) = 2 /\ s[1] = b /\ s[2] = c
      OBVIOUS
  <2>3. \A i \in 1..Len(s) : s[i] = t[i]
    <3> HIDE DEF s, t
    <3>1. \A i \in 1..2 : i = 1 \/ i = 2
        OBVIOUS
    <3> QED BY <2>1, <2>2, <3>1
  <2> HIDE DEF s, t, S
  <2>4. s = t
      BY <2>1, <2>2, <2>3, SeqEqual
  <2> QED BY <2>4 DEF s, t
<1> QED BY <1>2, <1>3

-----------------------------------------------------------------------------
(***************************************************************************)
(* What the comments of an issue say agrees: the results of one lineage of *)
(* proposals with each other, and a dropped issue with the rounds that     *)
(* were recorded for it.                                                   *)
(*                                                                         *)
(* The results.  A result may be delivered under two identities that do    *)
(* not deduplicate each other, and after any number of replays and         *)
(* redeliveries; what makes the results agree is that each was reached     *)
(* through the consensus memo, and that the lineage of a result comment    *)
(* can be read off its key.  The second part needs that no proposal        *)
(* carries the consensus prefix itself, which in turn depends on where     *)
(* every proposal and every thinking marker comes from.                    *)
(*                                                                         *)
(* The rounds.  The recorded rounds of an epoch have no gap, and an issue  *)
(* is dropped only after them.  The loop decides both from a read that may *)
(* lag behind the comments, asks for the next round before the last one is *)
(* written, and hands the drop on through a report and an event.  The      *)
(* invariant says of every message on that way what it presupposes about   *)
(* the rounds written so far.                                              *)
(***************************************************************************)

Plain(v) == "consensus" \notin v.prefix

(* The memo remembers this decision of the lineage.                        *)
Backed(remembered, lineage, decision) ==
    \E m \in remembered : m.dedup = lineage /\ m.decision = decision

CommentAgrees(remembered, c) ==
    /\ c.key.kind = "result" => Backed(remembered, Lineage(c), c.decision)
    /\ c.state = "thinking" => Plain(c.version)

MessageAgrees(remembered, q, m) ==
    /\ q = "start" => Plain(m)
    /\ q = "request" => Plain(m.dedup)
    /\ q = "reached" =>
          Plain(m.proposal.dedup) /\ Backed(remembered, m.proposal.dedup, m.decision)
    /\ q = "comment" => CommentAgrees(remembered, m.comment)

MemoFunctional == \A m, n \in memo : m.dedup = n.dedup => m.decision = n.decision

QueuesAgree == \A q \in Queues : \A m \in queues[q] : MessageAgrees(memo, q, m)

CommentsAgree == \A i \in 1..Len(comments) : CommentAgrees(memo, comments[i])

(* The inductive invariant.                                                *)
AgreeInv == MemoFunctional /\ QueuesAgree /\ CommentsAgree

-----------------------------------------------------------------------------
(* Deliveries.                                                             *)

(* A growing memo keeps what it backs.                                     *)
LEMMA BackedGrows ==
    ASSUME NEW M, NEW N, M \subseteq N
    PROVE  /\ \A c : CommentAgrees(M, c) => CommentAgrees(N, c)
           /\ \A q, m : MessageAgrees(M, q, m) => MessageAgrees(N, q, m)
<1>1. \A l, d : Backed(M, l, d) => Backed(N, l, d)
    BY DEF Backed
<1>2. \A c : CommentAgrees(M, c) => CommentAgrees(N, c)
    BY <1>1 DEF CommentAgrees
<1> QED BY <1>1, <1>2 DEF MessageAgrees

(* Publishing raises that agree with the memo keeps the queues agreeing.   *)
LEMMA PublishAgrees ==
    ASSUME QueuesAgree, memo \subseteq memo', NEW S, NEW raises \in Seq(S),
           NEW k \in 0..Len(raises), NEW q, NEW handled, Publish(raises, k, q, handled),
           \A r \in S : MessageAgrees(memo', r.queue, r.msg)
    PROVE  QueuesAgree'
<1> SUFFICES ASSUME NEW p \in Queues, NEW m \in queues'[p]
             PROVE  MessageAgrees(memo', p, m)
    BY DEF QueuesAgree
<1>1. queues'[p] = (IF p = q THEN queues[p] \ handled ELSE queues[p]) \cup Published(raises, k, p)
    BY DEF Publish
<1>2. CASE m \in Published(raises, k, p)
  <2>1. PICK i \in 1..k : raises[i].queue = p /\ raises[i].msg = m
      BY <1>2 DEF Published
  <2>2. raises[i] \in S
      OBVIOUS
  <2> QED BY <2>1, <2>2
<1>3. CASE m \in queues[p]
    BY <1>3, BackedGrows DEF QueuesAgree
<1> QED BY <1>1, <1>2, <1>3

(* A step that handles an event, and changes neither memo nor comments.    *)
LEMMA HandleAgrees ==
    ASSUME AgreeInv, NEW S, NEW raises \in Seq(S), NEW q, NEW e, Handle(q, e, raises),
           \A r \in S : MessageAgrees(memo, r.queue, r.msg),
           UNCHANGED <<comments, memo>>
    PROVE  AgreeInv'
<1>1. Len(raises) \in 0..Len(raises)
    OBVIOUS
<1>2. PICK k \in 0..Len(raises), handled \in {{}, {e}} : Publish(raises, k, q, handled)
    BY <1>1 DEF Handle
<1>3. QueuesAgree'
    BY <1>2, PublishAgrees DEF AgreeInv
<1> QED BY <1>3 DEF AgreeInv, MemoFunctional, CommentsAgree

LEMMA PublishShapesAgree ==
    ASSUME QueuesAgree, memo \subseteq memo', NEW q, NEW handled
    PROVE  /\ Publish(<<>>, 0, q, handled) => QueuesAgree'
           /\ \A a : /\ Publish(<<a>>, 1, q, handled)
                     /\ MessageAgrees(memo', a.queue, a.msg)
                     => QueuesAgree'
<1>1. ASSUME Publish(<<>>, 0, q, handled) PROVE QueuesAgree'
  <2> DEFINE S == {}
             raises == <<>>
             k == 0
  <2>1. raises \in Seq(S) /\ k \in 0..Len(raises) /\ Publish(raises, k, q, handled)
      BY <1>1, RaiseShapes
  <2>2. \A r \in S : MessageAgrees(memo', r.queue, r.msg)
      OBVIOUS
  <2> HIDE DEF S, raises, k
  <2> QED BY <2>1, <2>2, PublishAgrees
<1>2. ASSUME NEW a, Publish(<<a>>, 1, q, handled), MessageAgrees(memo', a.queue, a.msg)
      PROVE  QueuesAgree'
  <2> DEFINE S == {a}
             raises == <<a>>
             k == 1
  <2>1. raises \in Seq(S) /\ k \in 0..Len(raises) /\ Publish(raises, k, q, handled)
      BY <1>2, RaiseShapes
  <2>2. \A r \in S : MessageAgrees(memo', r.queue, r.msg)
      BY <1>2
  <2> HIDE DEF S, raises, k
  <2> QED BY <2>1, <2>2, PublishAgrees
<1> QED BY <1>1, <1>2

LEMMA HandleShapesAgree ==
    ASSUME AgreeInv, NEW q, NEW e, UNCHANGED <<comments, memo>>
    PROVE  /\ DeadLetter(q, e) => AgreeInv'
           /\ Handle(q, e, <<>>) => AgreeInv'
           /\ \A a : Handle(q, e, <<a>>) /\ MessageAgrees(memo, a.queue, a.msg) => AgreeInv'
           /\ \A a, b : /\ Handle(q, e, <<a, b>>)
                        /\ MessageAgrees(memo, a.queue, a.msg)
                        /\ MessageAgrees(memo, b.queue, b.msg)
                        => AgreeInv'
<1>1. ASSUME DeadLetter(q, e) PROVE AgreeInv'
  <2>1. QueuesAgree'
      BY <1>1, PublishShapesAgree DEF DeadLetter, AgreeInv
  <2> QED BY <2>1 DEF AgreeInv, MemoFunctional, CommentsAgree
<1>2. ASSUME Handle(q, e, <<>>) PROVE AgreeInv'
  <2> DEFINE S == {}
             raises == <<>>
  <2>1. raises \in Seq(S) /\ Handle(q, e, raises)
      BY <1>2, RaiseShapes
  <2>2. \A r \in S : MessageAgrees(memo, r.queue, r.msg)
      OBVIOUS
  <2> HIDE DEF S, raises
  <2> QED BY <2>1, <2>2, HandleAgrees
<1>3. ASSUME NEW a, Handle(q, e, <<a>>), MessageAgrees(memo, a.queue, a.msg) PROVE AgreeInv'
  <2> DEFINE S == {a}
             raises == <<a>>
  <2>1. raises \in Seq(S) /\ Handle(q, e, raises)
      BY <1>3, RaiseShapes
  <2>2. \A r \in S : MessageAgrees(memo, r.queue, r.msg)
      BY <1>3
  <2> HIDE DEF S, raises
  <2> QED BY <2>1, <2>2, HandleAgrees
<1>4. ASSUME NEW a, NEW b, Handle(q, e, <<a, b>>), MessageAgrees(memo, a.queue, a.msg),
             MessageAgrees(memo, b.queue, b.msg)
      PROVE  AgreeInv'
  <2> DEFINE S == {a, b}
             raises == <<a, b>>
  <2>1. raises \in Seq(S) /\ Handle(q, e, raises)
      BY <1>4, RaiseShapes
  <2>2. \A r \in S : MessageAgrees(memo, r.queue, r.msg)
      BY <1>4
  <2> HIDE DEF S, raises
  <2> QED BY <2>1, <2>2, HandleAgrees
<1> QED BY <1>1, <1>2, <1>3, <1>4

LEMMA WorkAgrees ==
    ASSUME AgreeInv, NEW S, NEW raises \in Seq(S), NEW q, NEW w, NEW event \in S,
           Work(q, w, raises, event),
           \A r \in S : MessageAgrees(memo, r.queue, r.msg),
           UNCHANGED <<comments, memo>>
    PROVE  AgreeInv'
<1> DEFINE all == <<event>> \o raises
<1>1. CASE Publish(raises, Len(raises), q, {w})
  <2>1. Len(raises) \in 0..Len(raises)
      OBVIOUS
  <2> QED BY <1>1, <2>1, PublishAgrees DEF AgreeInv, MemoFunctional, CommentsAgree
<1>2. CASE \E k \in 1..(Len(raises) + 1) : Publish(all, k, q, {w})
  <2>1. all \in Seq(S) /\ 1..(Len(raises) + 1) \subseteq 0..Len(all)
      OBVIOUS
  <2> HIDE DEF all
  <2>2. QueuesAgree'
      BY <1>2, <2>1, PublishAgrees DEF AgreeInv
  <2> QED BY <2>2 DEF AgreeInv, MemoFunctional, CommentsAgree
<1> QED BY <1>1, <1>2 DEF Work

LEMMA WorkShapesAgree ==
    ASSUME AgreeInv, NEW q, NEW w, NEW event, MessageAgrees(memo, event.queue, event.msg),
           UNCHANGED <<comments, memo>>
    PROVE  /\ Work(q, w, <<>>, event) => AgreeInv'
           /\ \A a : Work(q, w, <<a>>, event) /\ MessageAgrees(memo, a.queue, a.msg) => AgreeInv'
           /\ \A a, b : /\ Work(q, w, <<a, b>>, event)
                        /\ MessageAgrees(memo, a.queue, a.msg)
                        /\ MessageAgrees(memo, b.queue, b.msg)
                        => AgreeInv'
<1>1. ASSUME Work(q, w, <<>>, event) PROVE AgreeInv'
  <2> DEFINE S == {event}
             raises == <<>>
  <2>1. raises \in Seq(S) /\ event \in S /\ Work(q, w, raises, event)
      BY <1>1
  <2>2. \A r \in S : MessageAgrees(memo, r.queue, r.msg)
      OBVIOUS
  <2> HIDE DEF S, raises
  <2> QED BY <2>1, <2>2, WorkAgrees
<1>2. ASSUME NEW a, Work(q, w, <<a>>, event), MessageAgrees(memo, a.queue, a.msg) PROVE AgreeInv'
  <2> DEFINE S == {event, a}
             raises == <<a>>
  <2>1. raises \in Seq(S) /\ event \in S /\ Work(q, w, raises, event)
      BY <1>2
  <2>2. \A r \in S : MessageAgrees(memo, r.queue, r.msg)
      BY <1>2
  <2> HIDE DEF S, raises
  <2> QED BY <2>1, <2>2, WorkAgrees
<1>3. ASSUME NEW a, NEW b, Work(q, w, <<a, b>>, event), MessageAgrees(memo, a.queue, a.msg),
             MessageAgrees(memo, b.queue, b.msg)
      PROVE  AgreeInv'
  <2> DEFINE S == {event, a, b}
             raises == <<a, b>>
  <2>1. raises \in Seq(S) /\ event \in S /\ Work(q, w, raises, event)
      BY <1>3
  <2>2. \A r \in S : MessageAgrees(memo, r.queue, r.msg)
      BY <1>3
  <2> HIDE DEF S, raises
  <2> QED BY <2>1, <2>2, WorkAgrees
<1> QED BY <1>1, <1>2, <1>3

LEMMA ObserveAgrees ==
    ASSUME AgreeInv, NEW S, NEW raises \in Seq(S), Observe(raises),
           \A r \in S : MessageAgrees(memo, r.queue, r.msg)
    PROVE  AgreeInv'
<1>1. Len(raises) \in 0..Len(raises) /\ 1..(Len(raises) - 1) \subseteq 0..Len(raises)
    OBVIOUS
<1>2. PICK k \in 0..Len(raises) : Publish(raises, k, "start", {})
    BY <1>1 DEF Observe
<1>3. UNCHANGED <<comments, memo>>
    BY DEF Observe
<1>4. QueuesAgree'
    BY <1>2, <1>3, PublishAgrees DEF AgreeInv
<1> QED BY <1>3, <1>4 DEF AgreeInv, MemoFunctional, CommentsAgree

LEMMA ObserveShapesAgree ==
    ASSUME AgreeInv
    PROVE  /\ Observe(<<>>) => AgreeInv'
           /\ \A a : Observe(<<a>>) /\ MessageAgrees(memo, a.queue, a.msg) => AgreeInv'
           /\ \A a, b : /\ Observe(<<a, b>>)
                        /\ MessageAgrees(memo, a.queue, a.msg)
                        /\ MessageAgrees(memo, b.queue, b.msg)
                        => AgreeInv'
<1>1. ASSUME Observe(<<>>) PROVE AgreeInv'
  <2> DEFINE S == {}
             raises == <<>>
  <2>1. raises \in Seq(S) /\ Observe(raises)
      BY <1>1, RaiseShapes
  <2>2. \A r \in S : MessageAgrees(memo, r.queue, r.msg)
      OBVIOUS
  <2> HIDE DEF S, raises
  <2> QED BY <2>1, <2>2, ObserveAgrees
<1>2. ASSUME NEW a, Observe(<<a>>), MessageAgrees(memo, a.queue, a.msg) PROVE AgreeInv'
  <2> DEFINE S == {a}
             raises == <<a>>
  <2>1. raises \in Seq(S) /\ Observe(raises)
      BY <1>2, RaiseShapes
  <2>2. \A r \in S : MessageAgrees(memo, r.queue, r.msg)
      BY <1>2
  <2> HIDE DEF S, raises
  <2> QED BY <2>1, <2>2, ObserveAgrees
<1>3. ASSUME NEW a, NEW b, Observe(<<a, b>>), MessageAgrees(memo, a.queue, a.msg),
             MessageAgrees(memo, b.queue, b.msg)
      PROVE  AgreeInv'
  <2> DEFINE S == {a, b}
             raises == <<a, b>>
  <2>1. raises \in Seq(S) /\ Observe(raises)
      BY <1>3, RaiseShapes
  <2>2. \A r \in S : MessageAgrees(memo, r.queue, r.msg)
      BY <1>3
  <2> HIDE DEF S, raises
  <2> QED BY <2>1, <2>2, ObserveAgrees
<1> QED BY <1>1, <1>2, <1>3

(* Raises about which the invariant has nothing to say.                    *)
LEMMA HarmlessComment ==
    ASSUME NEW M, NEW c, NEW h, c.key.kind # "result", c.state # "thinking"
    PROVE  /\ MessageAgrees(M, CommentRequest(c, h).queue, CommentRequest(c, h).msg)
BY DEF MessageAgrees, CommentAgrees, CommentRequest, Raise

LEMMA HarmlessQueue ==
    ASSUME NEW M, NEW q, NEW m, q \notin {"start", "request", "reached", "comment"}
    PROVE  MessageAgrees(M, Raise(q, m).queue, Raise(q, m).msg)
BY DEF MessageAgrees, Raise

LEMMA PlainRequest ==
    ASSUME NEW M, NEW v, NEW effect, NEW n, Plain(v)
    PROVE  LET r == Raise("request", Proposal(v, effect, n))
           IN  MessageAgrees(M, r.queue, r.msg)
BY DEF MessageAgrees, Raise, Proposal

LEMMA PlainThinking ==
    ASSUME NEW M, NEW v, NEW h, Plain(v)
    PROVE  LET r == CommentRequest(ThinkingComment(v), h)
           IN  MessageAgrees(M, r.queue, r.msg)
BY DEF MessageAgrees, CommentAgrees, CommentRequest, Raise, ThinkingComment, Comment, Key, RoundKey

LEMMA PlainEntry == \A n : Plain(Entry(n))
BY DEF Plain, Entry, Version

-----------------------------------------------------------------------------
(* The handlers.                                                           *)

LEMMA QueueAgrees ==
    ASSUME AgreeInv
    PROVE  /\ \A v \in queues["start"] : Plain(v)
           /\ \A p \in queues["request"] : Plain(p.dedup)
           /\ \A r \in queues["reached"] :
                 Plain(r.proposal.dedup) /\ Backed(memo, r.proposal.dedup, r.decision)
           /\ \A c \in queues["comment"] : CommentAgrees(memo, c.comment)
<1>1. {"start", "request", "reached", "comment"} \subseteq Queues
    BY DEF Queues
<1>2. \A q \in Queues : \A m \in queues[q] : MessageAgrees(memo, q, m)
    BY DEF AgreeInv, QueuesAgree
<1> QED BY <1>1, <1>2 DEF MessageAgrees

LEMMA EntryAgrees ==
    ASSUME AgreeInv, NEW cur, ObserveEntry(cur)
    PROVE  AgreeInv'
<1> DEFINE a == Raise("request", Proposal(Entry(updated_at), FALSE, 0))
           b == CommentRequest(ThinkingComment(Entry(updated_at)), NoHandoff)
<1>1. MessageAgrees(memo, a.queue, a.msg) /\ MessageAgrees(memo, b.queue, b.msg)
    BY PlainEntry, PlainRequest, PlainThinking
<1>2. Observe(<<a, b>>)
    BY DEF ObserveEntry
<1> HIDE DEF a, b
<1> QED BY <1>1, <1>2, ObserveShapesAgree

LEMMA StartAgrees ==
    ASSUME AgreeInv, NEW v \in queues["start"], ExecuteStart(v)
    PROVE  AgreeInv'
<1> DEFINE a == CommentRequest(ThinkingComment(v), NoHandoff)
           b == Raise("request", Proposal(v, TRUE, 0))
<1>1. MessageAgrees(memo, a.queue, a.msg) /\ MessageAgrees(memo, b.queue, b.msg)
    BY QueueAgrees, PlainRequest, PlainThinking
<1>2. Handle("start", v, <<a, b>>) /\ UNCHANGED <<comments, memo>>
    BY DEF ExecuteStart
<1> HIDE DEF a, b
<1> QED BY <1>1, <1>2, HandleShapesAgree

(* A decision that is reached is the remembered one of its lineage, or is  *)
(* remembered now.                                                         *)
LEMMA DecisionAgrees ==
    ASSUME AgreeInv, NEW p \in queues["request"], ReachDecision(p)
    PROVE  AgreeInv'
<1> DEFINE New(d) == [dedup |-> p.dedup, effect |-> p.effect, decision |-> d]
           Result(m) == [proposal |-> p, effect |-> m.effect, decision |-> m.decision]
<1>1. PICK m :
        /\ m \in Remembered(p) \/ (Remembered(p) = {} /\ \E d \in Outcomes : m = New(d))
        /\ memo' = memo \cup {m}
        /\ Publish(<<Raise("reached", Result(m))>>, 1, "request", {p})
  <2>1. PICK d \in Outcomes : \E m \in IF Remembered(p) = {} THEN {New(d)} ELSE Remembered(p) :
          /\ memo' = memo \cup {m}
          /\ Publish(<<Raise("reached", Result(m))>>, 1, "request", {p})
      BY DEF ReachDecision
  <2>2. CASE Remembered(p) = {}
      BY <2>1, <2>2
  <2>3. CASE Remembered(p) # {}
      BY <2>1, <2>3
  <2> QED BY <2>2, <2>3
<1>2. m.dedup = p.dedup
    BY <1>1 DEF Remembered
<1>3. \A n \in memo : n.dedup = m.dedup => n.decision = m.decision
    BY <1>1, <1>2 DEF AgreeInv, MemoFunctional, Remembered
<1>4. MemoFunctional'
  <2>1. \A x, y \in memo \cup {m} : x.dedup = y.dedup => x.decision = y.decision
      BY <1>3 DEF AgreeInv, MemoFunctional
  <2> QED BY <1>1, <2>1 DEF MemoFunctional
<1>5. memo \subseteq memo' /\ m \in memo'
    BY <1>1
<1> DEFINE a == Raise("reached", Result(m))
<1>6. MessageAgrees(memo', a.queue, a.msg)
  <2>1. Plain(p.dedup)
      BY QueueAgrees
  <2>2. Backed(memo', p.dedup, m.decision)
      BY <1>2, <1>5 DEF Backed
  <2> QED BY <2>1, <2>2 DEF MessageAgrees, Raise
<1>7. Publish(<<a>>, 1, "request", {p})
    BY <1>1
<1> HIDE DEF a
<1>8. QueuesAgree'
    BY <1>5, <1>6, <1>7, PublishShapesAgree DEF AgreeInv
<1>9. CommentsAgree'
  <2>1. UNCHANGED comments
      BY DEF ReachDecision
  <2> QED BY <1>5, <2>1, BackedGrows DEF AgreeInv, CommentsAgree
<1> QED BY <1>4, <1>8, <1>9 DEF AgreeInv

LEMMA ConvergeAgrees ==
    ASSUME AgreeInv, NEW p \in queues["request"], ReachConverge(p)
    PROVE  AgreeInv'
<1>1. PICK verdict \in Verdicts, essence \in Essences :
        Handle("request", p,
               <<Raise("continue", [dedup |-> AddPrefix(p.dedup, "consensus"), round |-> p.round,
                                    verdict |-> verdict, essence |-> essence])>>)
    BY DEF ReachConverge
<1> DEFINE a == Raise("continue", [dedup |-> AddPrefix(p.dedup, "consensus"), round |-> p.round,
                                   verdict |-> verdict, essence |-> essence])
<1>2. MessageAgrees(memo, a.queue, a.msg)
    BY HarmlessQueue
<1>3. Handle("request", p, <<a>>) /\ UNCHANGED <<comments, memo>>
    BY <1>1 DEF ReachConverge
<1> HIDE DEF a
<1> QED BY <1>2, <1>3, HandleShapesAgree

LEMMA FaultAgrees ==
    ASSUME AgreeInv, ~MemoVolatile, ConsensusFault
    PROVE  AgreeInv'
<1>1. ASSUME NEW p \in queues["request"], ReachDeferred(p) PROVE AgreeInv'
  <2>1. Publish(<<>>, 0, "request", {p}) /\ UNCHANGED <<comments, memo>>
      BY <1>1 DEF ReachDeferred
  <2>2. QueuesAgree'
      BY <2>1, PublishShapesAgree DEF AgreeInv
  <2> QED BY <2>1, <2>2 DEF AgreeInv, MemoFunctional, CommentsAgree
<1>2. ASSUME NEW r \in queues["reached"], WorkerLost(r) PROVE AgreeInv'
  <2> DEFINE a == Raise("request", r.proposal)
  <2>1. MessageAgrees(memo, a.queue, a.msg)
      BY QueueAgrees DEF MessageAgrees, Raise
  <2>2. Publish(<<a>>, 1, "reached", {r}) /\ UNCHANGED <<comments, memo>>
      BY <1>2 DEF WorkerLost
  <2> HIDE DEF a
  <2>3. QueuesAgree'
      BY <2>1, <2>2, PublishShapesAgree DEF AgreeInv
  <2> QED BY <2>2, <2>3 DEF AgreeInv, MemoFunctional, CommentsAgree
<1>3. ~ \E m \in memo : MemoLost(m)
    BY DEF MemoLost
<1> QED BY <1>1, <1>2, <1>3 DEF ConsensusFault

(* The lineage of a result comment is the dedup key of its proposal.       *)
LEMMA ResultCommentAgrees ==
    ASSUME NEW r \in Results, Plain(r.proposal.dedup), NEW M,
           Backed(M, r.proposal.dedup, r.decision)
    PROVE  MessageAgrees(M, result_comment(r).queue, result_comment(r).msg)
<1> DEFINE v == r.proposal.dedup
           c == [key |-> Key("result", result_version(r)), state |-> ResultState(r),
                 version |-> result_version(r), decision |-> r.decision,
                 verdict |-> 0, essence |-> FALSE]
<1>1. v \in Versions
    BY DEF Results, Proposals
<1>2. \A u \in Versions : Plain(u) =>
          /\ DropPrefix(u, "consensus") = u
          /\ DropPrefix(AddPrefix(u, "consensus"), "consensus") = u
  <2> SUFFICES ASSUME NEW u \in Versions, Plain(u)
               PROVE  /\ DropPrefix(u, "consensus") = u
                      /\ DropPrefix(AddPrefix(u, "consensus"), "consensus") = u
      OBVIOUS
  <2>1. u.prefix \ {"consensus"} = u.prefix
      BY DEF Plain
  <2>2. (u.prefix \cup {"consensus"}) \ {"consensus"} = u.prefix
      BY DEF Plain
  <2>3. u = [prefix |-> u.prefix, updated_at |-> u.updated_at, tail |-> u.tail]
      BY DEF Versions
  <2> QED BY <2>1, <2>2, <2>3 DEF DropPrefix, AddPrefix, Version
<1>3. Lineage(c) = v
    BY <1>1, <1>2 DEF Lineage, result_version, Key, RoundKey
<1>4. c.state # "thinking" /\ c.decision = r.decision
    BY DEF ResultState
<1>5. result_comment(r).queue = "comment" /\ result_comment(r).msg.comment = c
    BY DEF result_comment, CommentRequest, Raise
<1> HIDE DEF c
<1>6. CommentAgrees(M, c)
    BY <1>3, <1>4 DEF CommentAgrees
<1> QED BY <1>5, <1>6 DEF MessageAgrees

LEMMA ResultAgrees ==
    ASSUME TypeOK, AgreeInv, NEW r \in queues["reached"], NEW cur, ConsensusResult(cur, r)
    PROVE  AgreeInv'
<1> DEFINE a == CommentRequest(Comment(Key("divergence", result_version(r)), "none", NoVersion),
                               NoHandoff)
           b == result_comment(r)
           c == CommentRequest(HoldComment(result_version(r)), NoHandoff)
           event == Raise("request", r.proposal)
<1>1. MessageAgrees(memo, a.queue, a.msg)
    BY HarmlessComment DEF Comment, Key, RoundKey
<1>2. MessageAgrees(memo, b.queue, b.msg)
    BY QueueElements, QueueAgrees, ResultCommentAgrees
<1>3. MessageAgrees(memo, c.queue, c.msg)
    BY HarmlessComment DEF HoldComment, Comment, Key, RoundKey
<1>4. /\ \/ Work("reached", r, <<a>>, event)
         \/ Work("reached", r, <<>>, event)
         \/ Work("reached", r, raise_result_effects(cur, r), event)
         \/ DeadLetter("reached", r)
      /\ UNCHANGED <<comments, memo>>
    BY DEF ConsensusResult
<1>5. raise_result_effects(cur, r) \in {<<>> \o <<>>, <<b>> \o <<>>, <<>> \o <<c>>, <<b>> \o <<c>>}
    BY DEF raise_result_effects
<1>8. MessageAgrees(memo, event.queue, event.msg)
    BY QueueAgrees DEF MessageAgrees, Raise
<1> HIDE DEF a, b, c, event
<1>6. raise_result_effects(cur, r) \in {<<>>, <<b>>, <<c>>, <<b, c>>}
    BY <1>5, ShortConcats
<1>7. CASE Work("reached", r, raise_result_effects(cur, r), event)
    BY <1>2, <1>3, <1>4, <1>6, <1>7, <1>8, WorkShapesAgree
<1> QED BY <1>1, <1>4, <1>7, <1>8, WorkShapesAgree, HandleShapesAgree

(* The loop asks for the next round under the base key of the round that   *)
(* did not converge, which has lost its consensus prefix.                  *)
LEMMA RoundCommentHarmless ==
    \A v, n, epoch, verdict, essence :
        /\ RoundComment(v, n, epoch, verdict, essence).key.kind # "result"
        /\ RoundComment(v, n, epoch, verdict, essence).state # "thinking"
BY DEF RoundComment, RoundKey

LEMMA NextRoundPlain ==
    ASSUME NEW v \in Versions, NEW n \in Nat
    PROVE  Plain(loop_at(converge_proposal_base_dedup(v), n))
<1>1. /\ converge_proposal_base_dedup(v) \in Versions
      /\ "consensus" \notin converge_proposal_base_dedup(v).prefix
    BY BaseDedupType
<1>2. loop_at(converge_proposal_base_dedup(v), n).prefix = converge_proposal_base_dedup(v).prefix
    BY <1>1, LoopAtType
<1> QED BY <1>1, <1>2 DEF Plain

LEMMA LoopAgrees ==
    ASSUME TypeOK, AgreeInv, NEW e \in queues["continue"], NEW cur, NEW facts, Loop(cur, facts, e)
    PROVE  AgreeInv'
<1> DEFINE latest == Max0(DOMAIN facts)
           old == CommentRequest(RoundComment(facts[latest].key.v, latest, NoVersion, 0, FALSE),
                                 ReconcileHandoff(cur.version, latest))
           record == RoundComment(e.dedup, e.round, cur.version, e.verdict, e.essence)
           next == loop_at(converge_proposal_base_dedup(e.dedup), e.round + 1)
           drop == CommentRequest(record, ReconcileHandoff(cur.version, e.round))
           ask == Raise("request", Proposal(next, FALSE, e.round + 1))
           note == CommentRequest(record, NoHandoff)
<1>1. /\ MessageAgrees(memo, old.queue, old.msg)
      /\ MessageAgrees(memo, drop.queue, drop.msg)
      /\ MessageAgrees(memo, note.queue, note.msg)
    BY RoundCommentHarmless, HarmlessComment
<1>2. MessageAgrees(memo, ask.queue, ask.msg)
  <2>1. e.dedup \in Versions /\ e.round + 1 \in Nat
      BY QueueElements
  <2>2. Plain(next)
      BY <2>1, NextRoundPlain
  <2> HIDE DEF next
  <2> QED BY <2>2, PlainRequest
<1>3. /\ \/ Handle("continue", e, <<>>)
         \/ DeadLetter("continue", e)
         \/ Handle("continue", e, <<old>>)
         \/ Handle("continue", e, <<drop>>)
         \/ Handle("continue", e, <<ask, note>>)
      /\ UNCHANGED <<comments, memo>>
    BY DEF Loop
<1> HIDE DEF old, drop, ask, note
<1> QED BY <1>1, <1>2, <1>3, HandleShapesAgree

LEMMA BlockedHarmless ==
    \A v, n : /\ BlockedComment(v, n).key.kind # "result"
              /\ BlockedComment(v, n).state # "thinking"
BY DEF BlockedComment, Comment, RoundKey

LEMMA ReconcileAgrees ==
    ASSUME AgreeInv, NEW e, NEW cur, Reconcile(cur, e)
    PROVE  AgreeInv'
<1> DEFINE a == CommentRequest(BlockedComment(e.base_version, e.round), NoHandoff)
<1>1. MessageAgrees(memo, a.queue, a.msg)
    BY BlockedHarmless, HarmlessComment
<1>2. /\ \/ Handle("reconcile", e, <<>>)
         \/ DeadLetter("reconcile", e)
         \/ Handle("reconcile", e, <<a>>)
      /\ UNCHANGED <<comments, memo>>
    BY DEF Reconcile
<1> HIDE DEF a
<1> QED BY <1>1, <1>2, HandleShapesAgree

(* A replay proposes the thinking version itself, or the next round.       *)
LEMMA ThinkingAgrees ==
    ASSUME TypeOK, AgreeInv, NEW cur \in current_state(seen),
           ObserveThinking(cur, converge_round_facts_for_epoch(seen, cur.version))
    PROVE  AgreeInv'
<1> DEFINE facts == converge_round_facts_for_epoch(seen, cur.version)
           latest == Max0(DOMAIN facts)
           drop == CommentRequest(BlockedComment(cur.version, latest), NoHandoff)
<1>1. latest \in Nat /\ (DOMAIN facts # {} => latest \in DOMAIN facts)
        /\ \A n \in DOMAIN facts : facts[n] \in Comments
    BY SeenType, FactsType
<1>2. cur.state = "thinking" /\ ObserveThinking(cur, facts)
    BY DEF ObserveThinking
<1>3. cur.version \in Versions /\ Plain(cur.version)
  <2>1. cur # Unmanaged
      BY <1>2 DEF Unmanaged
  <2>2. PICK i \in 1..Len(seen) : cur.state = seen[i].state /\ cur.version = seen[i].version
      BY <2>1, SeenType, CurrentType
  <2>3. i \in 1..Len(comments) /\ seen[i] = comments[i]
      BY SeenType
  <2>4. CommentAgrees(memo, comments[i])
      BY <2>3 DEF AgreeInv, CommentsAgree
  <2>5. cur.version \in Versions
      BY SeenType, CurrentType
  <2> QED BY <1>2, <2>2, <2>3, <2>4, <2>5 DEF CommentAgrees
<1> HIDE DEF facts
<1>4. MessageAgrees(memo, drop.queue, drop.msg)
    BY BlockedHarmless, HarmlessComment
<1>5. ASSUME NEW redrive PROVE Plain(replay_proposal(facts, cur.version, redrive).dedup)
  <2>1. CASE DOMAIN facts # {}
    <3> DEFINE v == facts[latest].key.v
    <3>1. \A c \in Comments : c.key.v \in Versions
        BY DEF Comments, Keys
    <3>2. v \in Versions /\ latest + 1 \in Nat
        BY <1>1, <2>1, <3>1
    <3>3. replay_proposal(facts, cur.version, redrive).dedup
             = loop_at(converge_proposal_base_dedup(v), latest + 1)
        BY <2>1 DEF replay_proposal, Proposal
    <3> HIDE DEF v, latest
    <3> QED BY <3>2, <3>3, NextRoundPlain
  <2>2. CASE DOMAIN facts = {}
    <3>1. replay_proposal(facts, cur.version, redrive).dedup = strip_timeout_suffixes(cur.version)
        BY <2>2 DEF replay_proposal, Proposal
    <3>2. strip_timeout_suffixes(cur.version).prefix = cur.version.prefix
        BY <1>3, StripWhileType DEF strip_timeout_suffixes
    <3> QED BY <1>3, <3>1, <3>2 DEF Plain
  <2> QED BY <2>1, <2>2
<1>6. \/ Observe(<<drop>>)
      \/ \E redrive \in Redrives :
            Observe(<<Raise("request", replay_proposal(facts, cur.version, redrive))>>)
    BY <1>2 DEF ObserveThinking
<1>7. CASE Observe(<<drop>>)
  <2> HIDE DEF drop
  <2> QED BY <1>4, <1>7, ObserveShapesAgree
<1>8. ASSUME NEW redrive \in Redrives,
             Observe(<<Raise("request", replay_proposal(facts, cur.version, redrive))>>)
      PROVE  AgreeInv'
  <2> DEFINE a == Raise("request", replay_proposal(facts, cur.version, redrive))
  <2>1. MessageAgrees(memo, a.queue, a.msg)
      BY <1>5 DEF MessageAgrees, Raise
  <2>2. Observe(<<a>>)
      BY <1>8
  <2> HIDE DEF a
  <2> QED BY <2>1, <2>2, ObserveShapesAgree
<1> QED BY <1>6, <1>7, <1>8

LEMMA SplitHarmless ==
    ASSUME NEW M, NEW v, NEW to_state \in {"ready", "dependency_wait"}
    PROVE  LET r == raise_ready_split_effects(v, to_state)
           IN  MessageAgrees(M, r.queue, r.msg)
<1> DEFINE to == next_ready_split(v)
           c == Comment(SplitKey(v, to), to_state, to)
<1>1. c.key.kind # "result" /\ c.state # "thinking"
    BY DEF Comment, SplitKey
<1> HIDE DEF c
<1> QED BY <1>1, HarmlessComment DEF raise_ready_split_effects, c

LEMMA DependencyWaitAgrees ==
    ASSUME TypeOK, AgreeInv, NEW cur, ObserveDependencyWait(cur)
    PROVE  AgreeInv'
<1> DEFINE v == cur.version
           split == raise_ready_split_effects(v, "ready")
           release == CommentRequest(ReleaseComment(v), NoHandoff)
           hold == CommentRequest(HoldComment(v), NoHandoff)
           block == CommentRequest(Comment(Key("gate-blocked", v), "blocked", v), NoHandoff)
<1>1. MessageAgrees(memo, split.queue, split.msg)
    BY SplitHarmless
<1>2. /\ MessageAgrees(memo, release.queue, release.msg)
      /\ MessageAgrees(memo, hold.queue, hold.msg)
      /\ MessageAgrees(memo, block.queue, block.msg)
    BY HarmlessComment DEF ReleaseComment, HoldComment, Comment, Key, RoundKey
<1>3. gate \in {"satisfied", "waiting", "blocked"}
    BY DEF TypeOK, Gates
<1>4. \/ Observe(<<split>> \o <<>>)
      \/ Observe(<<split>> \o <<release>>)
      \/ Observe(<<hold>>)
      \/ Observe(<<block>>)
      \/ Observe(<<>>)
    BY <1>3 DEF ObserveDependencyWait, replay_dependency_wait_state, raise_dependency_release
<1> HIDE DEF split, release, hold, block
<1>5. \/ Observe(<<split>>)
      \/ Observe(<<split, release>>)
      \/ Observe(<<hold>>)
      \/ Observe(<<block>>)
      \/ Observe(<<>>)
    BY <1>4, ShortConcats
<1> QED BY <1>1, <1>2, <1>5, ObserveShapesAgree

LEMMA ReadyAgrees ==
    ASSUME AgreeInv, NEW cur, ObserveReady(cur)
    PROVE  AgreeInv'
<1> DEFINE v == cur.version
           ready == raise_ready_split_effects(v, "ready")
           wait == raise_ready_split_effects(v, "dependency_wait")
           Redrive(i) == Raise("ready", ReadyEvent(redrive_at(v, 1), v, i))
<1>1. MessageAgrees(memo, ready.queue, ready.msg) /\ MessageAgrees(memo, wait.queue, wait.msg)
    BY SplitHarmless
<1>2. \A i : MessageAgrees(memo, Redrive(i).queue, Redrive(i).msg)
    BY HarmlessQueue
<1>3. \/ Observe(<<ready>>)
      \/ Observe(<<wait>>)
      \/ \E i \in 1..Len(seen) : Observe(<<Redrive(i)>>)
    BY DEF ObserveReady, replay_ready_state, ready_hand_off_comment_ids
<1>4. CASE Observe(<<ready>>) \/ Observe(<<wait>>)
  <2> HIDE DEF ready, wait
  <2> QED BY <1>1, <1>4, ObserveShapesAgree
<1>5. ASSUME NEW i \in 1..Len(seen), Observe(<<Redrive(i)>>) PROVE AgreeInv'
  <2> DEFINE a == Redrive(i)
  <2>1. MessageAgrees(memo, a.queue, a.msg) /\ Observe(<<a>>)
      BY <1>2, <1>5
  <2> HIDE DEF a
  <2> QED BY <2>1, ObserveShapesAgree
<1> QED BY <1>3, <1>4, <1>5

LEMMA ImplementAgrees ==
    ASSUME AgreeInv, NEW e, NEW cur, Implement(cur, e)
    PROVE  AgreeInv'
<1> DEFINE wait == raise_ready_split_effects(ready_payload_inner_version(e.dedup), "dependency_wait")
           accepted == /\ resolve_implement("initial", cur, e.dedup, FALSE) = "pending"
                       /\ verified_hand_off(e)
           plan == Raise("plan", Plan(e, accepted))
<1>1. MessageAgrees(memo, wait.queue, wait.msg)
    BY SplitHarmless
<1>2. MessageAgrees(memo, plan.queue, plan.msg)
    BY HarmlessQueue
<1>3. /\ \/ Handle("ready", e, <<wait>>)
         \/ Handle("ready", e, <<>>)
         \/ DeadLetter("ready", e)
         \/ Handle("ready", e, <<plan>>)
      /\ UNCHANGED <<comments, memo>>
    BY DEF Implement
<1> HIDE DEF wait, plan
<1> QED BY <1>1, <1>2, <1>3, HandleShapesAgree

LEMMA ImplementStartAgrees ==
    ASSUME AgreeInv, NEW e, NEW cur, ImplementStart(cur, e)
    PROVE  AgreeInv'
<1> DEFINE a == CommentRequest(ImplementingComment(e.dedup), NoHandoff)
           event == Raise("ready", Plan(e, FALSE))
<1>1. MessageAgrees(memo, a.queue, a.msg)
    BY HarmlessComment DEF ImplementingComment, Comment, Key, RoundKey
<1>2. /\ Work("plan", e, <<a>>, event) \/ Work("plan", e, <<>>, event)
      /\ UNCHANGED <<comments, memo>>
    BY DEF ImplementStart
<1>3. MessageAgrees(memo, event.queue, event.msg)
    BY HarmlessQueue
<1> HIDE DEF a, event
<1> QED BY <1>1, <1>2, <1>3, WorkShapesAgree

LEMMA HandoffAgrees ==
    ASSUME AgreeInv, NEW w, CommentHandoff(w)
    PROVE  AgreeInv'
<1> DEFINE a == Raise("ready", ReadyEvent(w.handoff.version, w.handoff.version, w.id))
           b == Raise("reconcile", [base_version |-> w.handoff.version, round |-> w.handoff.n])
<1>1. MessageAgrees(memo, a.queue, a.msg) /\ MessageAgrees(memo, b.queue, b.msg)
    BY HarmlessQueue
<1>2. Handle("written", w, <<a>>) \/ Handle("written", w, <<b>>)
    BY DEF CommentHandoff
<1>3. UNCHANGED <<comments, memo>>
    BY DEF CommentHandoff
<1> HIDE DEF a, b
<1> QED BY <1>1, <1>2, <1>3, HandleShapesAgree

(* The proxy writes what was requested, and nothing else.                  *)
LEMMA SkipAgrees ==
    ASSUME AgreeInv, NEW c, ProxySkip(c)
    PROVE  AgreeInv'
<1> DEFINE places == KeyPlaces(comments, c.comment.key)
           i == CHOOSE i \in places : \A j \in places : i <= j
           a == Raise("written", [id |-> i, handoff |-> c.handoff])
<1>1. MessageAgrees(memo, a.queue, a.msg)
    BY HarmlessQueue
<1>2. /\ Handle("comment", c, <<>>) \/ Handle("comment", c, <<a>>)
      /\ UNCHANGED <<comments, memo>>
    BY DEF ProxySkip, WrittenReport
<1> HIDE DEF a
<1> QED BY <1>1, <1>2, HandleShapesAgree

LEMMA WriteAgrees ==
    ASSUME TypeOK, AgreeInv, NEW c \in queues["comment"], ProxyWrite(c) \/ ProxyWriteLagging(c)
    PROVE  AgreeInv'
<1> DEFINE report == WrittenReport(c, Len(comments) + 1)
           a == Raise("written", [id |-> Len(comments) + 1, handoff |-> c.handoff])
           S == {a}
<1>1. MessageAgrees(memo, a.queue, a.msg)
    BY HarmlessQueue
<1>2. UNCHANGED memo /\ comments' = Append(comments, c.comment)
    BY DEF ProxyWrite, ProxyWriteLagging
<1>3. report = <<>> \/ report = <<a>>
    BY DEF WrittenReport
<1>4. \/ Handle("comment", c, report)
      \/ Publish(report, Len(report), "comment", {c})
    BY DEF ProxyWrite, ProxyWriteLagging
<1> HIDE DEF report, a
<1>5. report \in Seq(S) /\ Len(report) \in 0..Len(report)
  <2>1. <<>> \in Seq(S) /\ <<a>> \in Seq(S)
      BY RaiseShapes, EmptySeq
  <2>2. report \in Seq(S)
      BY <1>3, <2>1
  <2> HIDE DEF S
  <2> QED BY <2>2, LenProperties
<1>6. \A r \in S : MessageAgrees(memo', r.queue, r.msg)
    BY <1>1, <1>2
<1> HIDE DEF S
<1>7. PICK k \in 0..Len(report), handled \in {{}, {c}} : Publish(report, k, "comment", handled)
    BY <1>4, <1>5 DEF Handle
<1>8. QueuesAgree'
    BY <1>2, <1>5, <1>6, <1>7, PublishAgrees DEF AgreeInv
<1>9. CommentsAgree'
  <2>1. CommentAgrees(memo, c.comment)
      BY QueueAgrees
  <2>2. comments \in Seq(Comments) /\ c.comment \in Comments
      BY QueueElements DEF TypeOK
  <2>3. ASSUME NEW i \in 1..Len(comments') PROVE CommentAgrees(memo, comments'[i])
    <3>1. comments'[i] = c.comment \/ (i \in 1..Len(comments) /\ comments'[i] = comments[i])
        BY <1>2, <2>2, <2>3
    <3> QED BY <2>1, <3>1 DEF AgreeInv, CommentsAgree
  <2> QED BY <1>2, <2>3 DEF CommentsAgree
<1> QED BY <1>2, <1>8, <1>9 DEF AgreeInv, MemoFunctional

LEMMA EnvironmentAgrees ==
    ASSUME TypeOK, AgreeInv, Environment
    PROVE  AgreeInv'
<1>1. CASE RequestStart
  <2>1. UNCHANGED <<comments, memo>>
      BY <1>1 DEF RequestStart
  <2>2. ASSUME NEW q \in Queues, NEW m \in queues'[q] PROVE MessageAgrees(memo, q, m)
    <3>1. m \in queues[q] \/ (q = "start" /\ m = Entry(updated_at))
        BY <1>1, <2>2 DEF RequestStart, TypeOK
    <3>2. MessageAgrees(memo, "start", Entry(updated_at))
        BY PlainEntry DEF MessageAgrees
    <3> QED BY <3>1, <3>2 DEF AgreeInv, QueuesAgree
  <2> QED BY <2>1, <2>2 DEF AgreeInv, MemoFunctional, QueuesAgree, CommentsAgree
<1>2. CASE UNCHANGED <<comments, queues, memo>>
    BY <1>2 DEF AgreeInv, MemoFunctional, QueuesAgree, CommentsAgree
<1> QED BY <1>1, <1>2 DEF Environment, EditIssue, ChangeCapacity, CatchUp, ChangeGate

-----------------------------------------------------------------------------
LEMMA InitAgrees == Init => AgreeInv
BY DEF Init, AgreeInv, MemoFunctional, QueuesAgree, CommentsAgree

LEMMA StepAgrees ==
    ASSUME ~MemoVolatile, TypeOK, AgreeInv, [Next]_vars
    PROVE  AgreeInv'
<1>1. CASE HandleStart
    BY <1>1, StartAgrees DEF HandleStart
<1>2. CASE ConsensusDecision
    BY <1>2, DecisionAgrees DEF ConsensusDecision
<1>3. CASE ConsensusConverge
    BY <1>3, ConvergeAgrees DEF ConsensusConverge
<1>4. CASE ConsensusFault
    BY <1>4, FaultAgrees
<1>5. CASE HandleResult
    BY <1>5, ResultAgrees DEF HandleResult
<1>6. CASE HandleContinue
    BY <1>6, LoopAgrees DEF HandleContinue
<1>7. CASE HandleReconcile
    BY <1>7, ReconcileAgrees DEF HandleReconcile
<1>8. CASE ObserveIssue
    BY <1>8, EntryAgrees, ThinkingAgrees, DependencyWaitAgrees, ReadyAgrees DEF ObserveIssue
<1>9. CASE HandleWritten
    BY <1>9, HandoffAgrees DEF HandleWritten
<1>10. CASE HandleReady
    BY <1>10, ImplementAgrees DEF HandleReady, HandlesReady
<1>11. CASE HandlePlan
    BY <1>11, ImplementStartAgrees DEF HandlePlan
<1>12. CASE Proxy
    BY <1>12, SkipAgrees, WriteAgrees DEF Proxy, ProxyHandles, ProxyFault
<1>13. CASE Environment
    BY <1>13, EnvironmentAgrees
<1>14. CASE UNCHANGED vars
    BY <1>14 DEF vars, AgreeInv, MemoFunctional, QueuesAgree, CommentsAgree
<1> QED BY <1>1, <1>2, <1>3, <1>4, <1>5, <1>6, <1>7, <1>8, <1>9, <1>10, <1>11, <1>12, <1>13, <1>14
        DEF Next

LEMMA AgreeInvImplies == AgreeInv => ResultsAgree
<1> SUFFICES ASSUME AgreeInv, NEW i \in 1..Len(comments), NEW j \in 1..Len(comments),
                    comments[i].key.kind = "result", comments[j].key.kind = "result",
                    Lineage(comments[i]) = Lineage(comments[j])
             PROVE  comments[i].decision = comments[j].decision
    BY DEF ResultsAgree
<1>1. PICK m \in memo : m.dedup = Lineage(comments[i]) /\ m.decision = comments[i].decision
    BY DEF AgreeInv, CommentsAgree, CommentAgrees, Backed
<1>2. PICK n \in memo : n.dedup = Lineage(comments[j]) /\ n.decision = comments[j].decision
    BY DEF AgreeInv, CommentsAgree, CommentAgrees, Backed
<1> QED BY <1>1, <1>2 DEF AgreeInv, MemoFunctional

(* Two result comments of one lineage of proposals never carry different   *)
(* decisions, for any number of rounds, edits, replays, redeliveries and   *)
(* lagging reads, as long as the consensus memo keeps its entries.         *)
THEOREM DecisionsAgree == Spec => []ResultsAgree
<1>1. CASE MemoVolatile
  <2>1. ResultsAgree
      BY <1>1 DEF ResultsAgree
  <2> QED BY <2>1, PTL
<1>2. CASE ~MemoVolatile
  <2>1. Init => TypeOK /\ AgreeInv
      BY InitType, InitAgrees
  <2>2. TypeOK /\ AgreeInv /\ [Next]_vars => TypeOK' /\ AgreeInv'
      BY <1>2, StepType, StepAgrees
  <2>3. AgreeInv => ResultsAgree
      BY AgreeInvImplies
  <2> QED BY <2>1, <2>2, <2>3, PTL DEF Spec
<1> QED BY <1>1, <1>2

-----------------------------------------------------------------------------
(* The rounds of an epoch.                                                 *)

(* One of the first i comments records this round of the epoch.            *)
RecordedIn(cs, i, epoch, n) ==
    \E j \in 1..i : IsRound(cs[j]) /\ cs[j].version = epoch /\ cs[j].key.n = n

(* The first i comments justify a drop of the epoch at this round.         *)
Droppable(cs, i, epoch, n) ==
    /\ \A m \in 0..(n - 1) : RecordedIn(cs, i, epoch, m)
    /\ TRUE \in Essences \/ n >= 3

(* What a comment, written after the first i, presupposes.                 *)
Follows(cs, i, c) ==
    /\ IsRound(c) =>
          /\ c.key.n > 0 => RecordedIn(cs, i, c.version, c.key.n - 1)
          /\ c.essence \in Essences
    /\ c.key.kind = "reconcile" => Droppable(cs, i, c.key.v, c.key.n)

MessageFollows(cs, q, m) ==
    /\ q = "continue" => m.essence \in Essences
    /\ q = "comment" =>
          /\ Follows(cs, Len(cs), m.comment)
          /\ m.handoff.kind = "reconcile" => Droppable(cs, Len(cs), m.handoff.version, m.handoff.n)
    /\ q = "written" =>
          /\ m.handoff.kind # "none"
          /\ m.handoff.kind = "reconcile" => Droppable(cs, Len(cs), m.handoff.version, m.handoff.n)
    /\ q = "reconcile" => Droppable(cs, Len(cs), m.base_version, m.round)

CommentsFollow == \A i \in 1..Len(comments) : Follows(comments, i - 1, comments[i])

QueuesFollow == \A q \in Queues : \A m \in queues[q] : MessageFollows(comments, q, m)

(* The inductive invariant.                                                *)
RoundInv == CommentsFollow /\ QueuesFollow

-----------------------------------------------------------------------------
(* Deliveries.                                                             *)

LEMMA AddsFollow ==
    ASSUME RoundInv, UNCHANGED comments, NEW S, Adds(S),
           \A r \in S : MessageFollows(comments, r.queue, r.msg)
    PROVE  RoundInv'
<1>1. CommentsFollow'
    BY DEF RoundInv, CommentsFollow
<1>2. QueuesFollow'
    BY DEF RoundInv, QueuesFollow, Adds
<1> QED BY <1>1, <1>2 DEF RoundInv

(* A longer prefix records no less.                                        *)
LEMMA RecordedMore ==
    ASSUME NEW cs, NEW i \in Int, NEW k \in Int, i <= k
    PROVE  /\ \A epoch, n : RecordedIn(cs, i, epoch, n) => RecordedIn(cs, k, epoch, n)
           /\ \A epoch, n : Droppable(cs, i, epoch, n) => Droppable(cs, k, epoch, n)
<1>1. 1..i \subseteq 1..k
    OBVIOUS
<1>2. \A epoch, n : RecordedIn(cs, i, epoch, n) => RecordedIn(cs, k, epoch, n)
    BY <1>1 DEF RecordedIn
<1> QED BY <1>2 DEF Droppable

(* Another comment takes no round away.                                    *)
LEMMA FollowsGrows ==
    ASSUME NEW cs \in Seq(Comments), NEW c \in Comments, NEW ds, ds = Append(cs, c)
    PROVE  /\ Len(cs) \in Nat /\ Len(ds) = Len(cs) + 1 /\ ds[Len(cs) + 1] = c
           /\ \A i \in 1..Len(cs) : ds[i] = cs[i]
           /\ \A i \in 0..Len(cs) : \A x : Follows(cs, i, x) => Follows(ds, i, x)
           /\ \A epoch, n : Droppable(cs, Len(cs), epoch, n) => Droppable(ds, Len(ds), epoch, n)
           /\ \A q, m : MessageFollows(cs, q, m) => MessageFollows(ds, q, m)
<1>1. /\ Len(cs) \in Nat /\ Len(ds) = Len(cs) + 1 /\ ds[Len(cs) + 1] = c
      /\ \A i \in 1..Len(cs) : ds[i] = cs[i]
    OBVIOUS
<1>2. ASSUME NEW i \in 0..Len(cs), NEW epoch, NEW n, RecordedIn(cs, i, epoch, n)
      PROVE  RecordedIn(ds, i, epoch, n)
  <2>1. PICK j \in 1..i : IsRound(cs[j]) /\ cs[j].version = epoch /\ cs[j].key.n = n
      BY <1>2 DEF RecordedIn
  <2>2. ds[j] = cs[j]
      BY <1>1
  <2> QED BY <2>1, <2>2 DEF RecordedIn
<1>3. \A i \in 0..Len(cs) : \A epoch, n : Droppable(cs, i, epoch, n) => Droppable(ds, i, epoch, n)
    BY <1>2 DEF Droppable
<1>4. \A i \in 0..Len(cs) : \A x : Follows(cs, i, x) => Follows(ds, i, x)
    BY <1>2, <1>3 DEF Follows
<1>5. /\ \A epoch, n : RecordedIn(ds, Len(cs), epoch, n) => RecordedIn(ds, Len(ds), epoch, n)
      /\ \A epoch, n : Droppable(ds, Len(cs), epoch, n) => Droppable(ds, Len(ds), epoch, n)
    BY <1>1, RecordedMore
<1>6. \A epoch, n : Droppable(cs, Len(cs), epoch, n) => Droppable(ds, Len(ds), epoch, n)
    BY <1>1, <1>3, <1>5
<1>7. \A x : Follows(cs, Len(cs), x) => Follows(ds, Len(ds), x)
    BY <1>1, <1>2, <1>5, <1>6 DEF Follows
<1>8. \A q, m : MessageFollows(cs, q, m) => MessageFollows(ds, q, m)
    BY <1>6, <1>7 DEF MessageFollows
<1> HIDE DEF Follows, Droppable, MessageFollows
<1> QED BY <1>1, <1>4, <1>6, <1>8

LEMMA QueueFollows ==
    ASSUME RoundInv
    PROVE  /\ \A e \in queues["continue"] : e.essence \in Essences
           /\ \A c \in queues["comment"] :
                 /\ Follows(comments, Len(comments), c.comment)
                 /\ c.handoff.kind = "reconcile" =>
                       Droppable(comments, Len(comments), c.handoff.version, c.handoff.n)
           /\ \A w \in queues["written"] :
                 /\ w.handoff.kind # "none"
                 /\ w.handoff.kind = "reconcile" =>
                       Droppable(comments, Len(comments), w.handoff.version, w.handoff.n)
           /\ \A e \in queues["reconcile"] :
                 Droppable(comments, Len(comments), e.base_version, e.round)
<1>1. {"continue", "comment", "written", "reconcile"} \subseteq Queues
    BY DEF Queues
<1> QED BY <1>1 DEF RoundInv, QueuesFollow, MessageFollows

(* Raises that presuppose nothing.                                         *)
LEMMA FreeQueue ==
    ASSUME NEW q, NEW m, q \notin {"continue", "comment", "written", "reconcile"}
    PROVE  MessageFollows(comments, Raise(q, m).queue, Raise(q, m).msg)
BY DEF MessageFollows, Raise

LEMMA FreeComment ==
    ASSUME NEW c, NEW h, c.key.kind \notin {"round", "reconcile"}, h.kind # "reconcile"
    PROVE  MessageFollows(comments, CommentRequest(c, h).queue, CommentRequest(c, h).msg)
BY DEF MessageFollows, Follows, IsRound, CommentRequest, Raise

LEMMA HandoffKinds ==
    /\ NoHandoff.kind = "none"
    /\ \A v : ReadyHandoff(v).kind = "ready"
    /\ \A v, n : LET h == ReconcileHandoff(v, n)
                 IN  h.kind = "reconcile" /\ h.version = v /\ h.n = n
BY DEF NoHandoff, ReadyHandoff, ReconcileHandoff, Handoff

-----------------------------------------------------------------------------
(* The rounds of an epoch.                                                 *)

(* Without a gap, the rounds before a recorded one are recorded too.       *)
LEMMA EarlierRounds ==
    ASSUME TypeOK, RoundInv, NEW epoch, NEW n \in Nat,
           RecordedIn(comments, Len(comments), epoch, n)
    PROVE  \A m \in 0..n : RecordedIn(comments, Len(comments), epoch, m)
<1> DEFINE missing == {m \in 0..n : ~RecordedIn(comments, Len(comments), epoch, m)}
<1> SUFFICES ASSUME missing # {} PROVE FALSE
    OBVIOUS
<1>1. PICK m \in missing : \A x \in missing : x <= m
  <2>1. missing \in SUBSET Nat /\ \A x \in missing : x <= n
      OBVIOUS
  <2> HIDE DEF missing
  <2> QED BY <2>1, MaxNatOfBounded
<1>2. m \in 0..n /\ m # n /\ m + 1 \in 0..n /\ m + 1 \notin missing
    BY <1>1
<1>3. RecordedIn(comments, Len(comments), epoch, m + 1)
    BY <1>2
<1>4. PICK j \in 1..Len(comments) :
        IsRound(comments[j]) /\ comments[j].version = epoch /\ comments[j].key.n = m + 1
    BY <1>3 DEF RecordedIn
<1>5. RecordedIn(comments, j - 1, epoch, m)
  <2>1. comments[j].key.n > 0 /\ comments[j].key.n - 1 = m
      BY <1>2, <1>4
  <2> QED BY <1>4, <2>1 DEF RoundInv, CommentsFollow, Follows
<1>6. Len(comments) \in Int /\ j - 1 \in Int /\ j - 1 <= Len(comments)
    BY DEF TypeOK
<1>7. RecordedIn(comments, Len(comments), epoch, m)
    BY <1>5, <1>6, RecordedMore
<1> QED BY <1>1, <1>7

(* What the facts of an epoch, derived from a read, say of the comments.   *)
LEMMA FactsRecorded ==
    ASSUME TypeOK, RoundInv, NEW epoch
    PROVE  LET facts == converge_round_facts_for_epoch(seen, epoch)
               latest == Max0(DOMAIN facts)
           IN  /\ latest \in Nat
               /\ DOMAIN facts # {} =>
                     \A m \in 0..latest : RecordedIn(comments, Len(comments), epoch, m)
               /\ DOMAIN facts = {} => latest = 0
               /\ \A n \in DOMAIN facts : facts[n].essence \in Essences
<1> DEFINE facts == converge_round_facts_for_epoch(seen, epoch)
           latest == Max0(DOMAIN facts)
<1>1. /\ latest \in Nat
      /\ DOMAIN facts # {} => latest \in DOMAIN facts
      /\ \A n \in DOMAIN facts :
            \E i \in RoundPlaces(seen, epoch) : facts[n] = seen[i] /\ seen[i].key.n = n
    BY SeenType, FactsType
<1>2. ASSUME NEW n \in DOMAIN facts
      PROVE  /\ RecordedIn(comments, Len(comments), epoch, n)
             /\ facts[n].essence \in Essences
  <2>1. PICK i \in RoundPlaces(seen, epoch) : facts[n] = seen[i] /\ seen[i].key.n = n
      BY <1>1
  <2>2. /\ i \in 1..Len(comments) /\ seen[i] = comments[i]
        /\ IsRound(comments[i]) /\ comments[i].version = epoch
      BY <2>1, SeenType DEF RoundPlaces, IsRound
  <2>3. Follows(comments, i - 1, comments[i])
      BY <2>2 DEF RoundInv, CommentsFollow
  <2> HIDE DEF facts
  <2> QED BY <2>1, <2>2, <2>3 DEF RecordedIn, Follows
<1>3. DOMAIN facts = {} => latest = 0
  <2>1. DOMAIN facts = {} => latest = MaxNat({0})
      BY DEF Max0
  <2>2. MaxNat({0}) \in {0}
      BY DEF MaxNat
  <2> QED BY <2>1, <2>2
<1>4. DOMAIN facts # {} => \A m \in 0..latest : RecordedIn(comments, Len(comments), epoch, m)
  <2> HIDE DEF latest, facts
  <2> QED BY <1>1, <1>2, EarlierRounds
<1> QED BY <1>1, <1>2, <1>3, <1>4

(* A terminal cause is an essence stall or a stall that took three rounds. *)
LEMMA TerminalCause ==
    ASSUME NEW facts, NEW n, terminal_cause(facts, n),
           \A m \in DOMAIN facts : facts[m].essence \in Essences
    PROVE  TRUE \in Essences \/ n >= 3
<1>1. CASE \E m \in DOMAIN facts : facts[m].essence
  <2>1. PICK m \in DOMAIN facts : facts[m].essence
      BY <1>1
  <2>2. facts[m].essence \in Essences
      OBVIOUS
  <2>3. facts[m].essence \in BOOLEAN
      BY <2>2, ChoicesAssumption
  <2>4. facts[m].essence = TRUE
      BY <2>1, <2>3
  <2> QED BY <2>2, <2>4
<1> QED BY <1>1 DEF terminal_cause, is_true_stall

(* Terminal facts of an epoch justify a drop at their latest round.        *)
LEMMA TerminalDroppable ==
    ASSUME TypeOK, RoundInv, NEW epoch,
           LET facts == converge_round_facts_for_epoch(seen, epoch)
           IN  terminal_cause(facts, Max0(DOMAIN facts))
    PROVE  LET facts == converge_round_facts_for_epoch(seen, epoch)
           IN  Droppable(comments, Len(comments), epoch, Max0(DOMAIN facts))
<1> DEFINE facts == converge_round_facts_for_epoch(seen, epoch)
           latest == Max0(DOMAIN facts)
<1>1. /\ latest \in Nat
      /\ DOMAIN facts # {} => \A m \in 0..latest : RecordedIn(comments, Len(comments), epoch, m)
      /\ DOMAIN facts = {} => latest = 0
      /\ \A n \in DOMAIN facts : facts[n].essence \in Essences
      /\ terminal_cause(facts, latest)
    BY FactsRecorded
<1> HIDE DEF facts, latest
<1>2. TRUE \in Essences \/ latest >= 3
    BY <1>1, TerminalCause
<1>3. \A m \in 0..(latest - 1) : RecordedIn(comments, Len(comments), epoch, m)
  <2>1. 0..(latest - 1) \subseteq 0..latest
      BY <1>1
  <2>2. latest = 0 => 0..(latest - 1) = {}
      OBVIOUS
  <2> QED BY <1>1, <2>1, <2>2
<1> QED BY <1>2, <1>3 DEF Droppable, facts, latest

LEMMA BlockedFollows ==
    ASSUME NEW epoch, NEW n, Droppable(comments, Len(comments), epoch, n)
    PROVE  LET r == CommentRequest(BlockedComment(epoch, n), NoHandoff)
           IN  MessageFollows(comments, r.queue, r.msg)
<1> DEFINE c == BlockedComment(epoch, n)
           m == [comment |-> c, handoff |-> NoHandoff]
<1>1. c.key.kind = "reconcile" /\ c.key.v = epoch /\ c.key.n = n
    BY DEF BlockedComment, Comment, RoundKey
<1> HIDE DEF c
<1>2. MessageFollows(comments, "comment", m)
    BY <1>1, HandoffKinds DEF MessageFollows, Follows, IsRound
<1> HIDE DEF m
<1> QED BY <1>2 DEF CommentRequest, Raise, m, c

(* The record of a round that follows the recorded ones.                   *)
LEMMA RoundFollows ==
    ASSUME NEW v, NEW n, NEW epoch, NEW verdict, NEW essence, NEW h,
           verdict # 0 =>
              /\ n > 0 => RecordedIn(comments, Len(comments), epoch, n - 1)
              /\ essence \in Essences,
           h.kind = "reconcile" => Droppable(comments, Len(comments), h.version, h.n)
    PROVE  LET r == CommentRequest(RoundComment(v, n, epoch, verdict, essence), h)
           IN  MessageFollows(comments, r.queue, r.msg)
<1> DEFINE c == RoundComment(v, n, epoch, verdict, essence)
           m == [comment |-> c, handoff |-> h]
<1>1. /\ c.key.kind = "round" /\ c.key.n = n /\ c.version = epoch
      /\ c.verdict = verdict /\ c.essence = essence
    BY DEF RoundComment, RoundKey
<1> HIDE DEF c
<1>2. MessageFollows(comments, "comment", m)
    BY <1>1 DEF MessageFollows, Follows, IsRound
<1> HIDE DEF m
<1> QED BY <1>2 DEF CommentRequest, Raise, m, c

LEMMA LoopFollows ==
    ASSUME TypeOK, RoundInv, NEW e \in queues["continue"], NEW cur,
           NEW facts, facts = converge_round_facts_for_epoch(seen, cur.version),
           Loop(cur, facts, e)
    PROVE  RoundInv'
<1> DEFINE epoch == cur.version
           latest == Max0(DOMAIN facts)
           record == RoundComment(e.dedup, e.round, epoch, e.verdict, e.essence)
           more == append_converge_round_fact(facts, e.round, record)
           next == loop_at(converge_proposal_base_dedup(e.dedup), e.round + 1)
           old == CommentRequest(RoundComment(facts[latest].key.v, latest, NoVersion, 0, FALSE),
                                 ReconcileHandoff(epoch, latest))
           drop == CommentRequest(record, ReconcileHandoff(epoch, e.round))
           ask == Raise("request", Proposal(next, FALSE, e.round + 1))
           note == CommentRequest(record, NoHandoff)
<1>1. e.essence \in Essences /\ e.round \in Nat
    BY QueueFollows, QueueElements
<1>2. /\ latest \in Nat
      /\ DOMAIN facts # {} => \A m \in 0..latest : RecordedIn(comments, Len(comments), epoch, m)
      /\ DOMAIN facts = {} => latest = 0
      /\ \A n \in DOMAIN facts : facts[n].essence \in Essences
    BY FactsRecorded
<1>3. UNCHANGED comments
    BY DEF Loop
<1>4. CASE terminal_cause(facts, latest) /\ Handle("continue", e, <<old>>)
  <2>1. Droppable(comments, Len(comments), epoch, latest)
      BY <1>4, TerminalDroppable
  <2>2. MessageFollows(comments, old.queue, old.msg)
    <3> DEFINE h == ReconcileHandoff(epoch, latest)
               v == facts[latest].key.v
    <3>1. h.kind = "reconcile" => Droppable(comments, Len(comments), h.version, h.n)
        BY <2>1, HandoffKinds
    <3> HIDE DEF h, v, latest
    <3>2. LET r == CommentRequest(RoundComment(v, latest, NoVersion, 0, FALSE), h)
          IN  MessageFollows(comments, r.queue, r.msg)
        BY <3>1, RoundFollows
    <3> QED BY <3>2 DEF h, v, latest
  <2> HIDE DEF old
  <2>3. Adds({old})
      BY <1>4, DeliveryAdds
  <2> QED BY <1>3, <2>2, <2>3, AddsFollow
<1>5. CASE Handle("continue", e, <<>>) \/ DeadLetter("continue", e)
  <2>1. Adds({})
      BY <1>5, DeliveryAdds
  <2> QED BY <1>3, <2>1, AddsFollow
<1>6. ASSUME NextRound(facts, e.round)
      PROVE  \A m \in 0..(e.round - 1) : RecordedIn(comments, Len(comments), epoch, m)
  <2> HIDE DEF latest
  <2>1. CASE DOMAIN facts = {}
    <3>1. e.round = 0
        BY <1>6, <2>1 DEF NextRound
    <3> QED BY <3>1
  <2>2. CASE DOMAIN facts # {}
    <3>1. e.round = latest + 1
        BY <1>6, <2>2 DEF NextRound, latest
    <3> QED BY <1>2, <2>2, <3>1
  <2> QED BY <2>1, <2>2
<1>7. CASE /\ NextRound(facts, e.round)
           /\ terminal_cause(more, e.round)
           /\ Handle("continue", e, <<drop>>)
  <2>1. \A m \in DOMAIN more : more[m].essence \in Essences
    <3>1. record.essence = e.essence
        BY DEF RoundComment
    <3> HIDE DEF record
    <3> QED BY <1>1, <1>2, <3>1 DEF append_converge_round_fact
  <2>2. TRUE \in Essences \/ e.round >= 3
    <3> HIDE DEF more
    <3> QED BY <1>7, <2>1, TerminalCause
  <2>3. Droppable(comments, Len(comments), epoch, e.round)
      BY <1>6, <1>7, <2>2 DEF Droppable
  <2>4. e.round > 0 => RecordedIn(comments, Len(comments), epoch, e.round - 1)
      BY <1>1, <1>6, <1>7
  <2>5. MessageFollows(comments, drop.queue, drop.msg)
      BY <1>1, <2>3, <2>4, RoundFollows, HandoffKinds
  <2> HIDE DEF drop
  <2>6. Adds({drop})
      BY <1>7, DeliveryAdds
  <2> QED BY <1>3, <2>5, <2>6, AddsFollow
<1>8. CASE NextRound(facts, e.round) /\ Handle("continue", e, <<ask, note>>)
  <2>1. e.round > 0 => RecordedIn(comments, Len(comments), epoch, e.round - 1)
      BY <1>1, <1>6, <1>8
  <2>2. MessageFollows(comments, note.queue, note.msg)
      BY <1>1, <2>1, RoundFollows, HandoffKinds
  <2>3. MessageFollows(comments, ask.queue, ask.msg)
      BY FreeQueue
  <2> HIDE DEF ask, note
  <2>4. Adds({ask, note})
      BY <1>8, DeliveryAdds
  <2> QED BY <1>3, <2>2, <2>3, <2>4, AddsFollow
<1> QED BY <1>4, <1>5, <1>7, <1>8 DEF Loop

LEMMA ReconcileFollows ==
    ASSUME RoundInv, NEW e \in queues["reconcile"], NEW cur, Reconcile(cur, e)
    PROVE  RoundInv'
<1> DEFINE a == CommentRequest(BlockedComment(e.base_version, e.round), NoHandoff)
<1>1. MessageFollows(comments, a.queue, a.msg)
    BY QueueFollows, BlockedFollows
<1>2. /\ \/ Handle("reconcile", e, <<>>)
         \/ DeadLetter("reconcile", e)
         \/ Handle("reconcile", e, <<a>>)
      /\ UNCHANGED comments
    BY DEF Reconcile
<1> HIDE DEF a
<1>3. Adds({a})
    BY <1>2, DeliveryAdds
<1> QED BY <1>1, <1>2, <1>3, AddsFollow

LEMMA ThinkingFollows ==
    ASSUME TypeOK, RoundInv, NEW cur,
           NEW facts, facts = converge_round_facts_for_epoch(seen, cur.version),
           ObserveThinking(cur, facts)
    PROVE  RoundInv'
<1> DEFINE latest == Max0(DOMAIN facts)
           drop == CommentRequest(BlockedComment(cur.version, latest), NoHandoff)
           Ask(redrive) == Raise("request", replay_proposal(facts, cur.version, redrive))
<1>1. PICK redrive : \/ terminal_cause(facts, latest) /\ Observe(<<drop>>)
                     \/ Observe(<<Ask(redrive)>>)
    BY DEF ObserveThinking
<1> DEFINE ask == Ask(redrive)
<1>2. UNCHANGED comments
    BY <1>1 DEF Observe
<1>3. CASE terminal_cause(facts, latest) /\ Observe(<<drop>>)
  <2>1. Droppable(comments, Len(comments), cur.version, latest)
      BY <1>3, TerminalDroppable
  <2>2. MessageFollows(comments, drop.queue, drop.msg)
    <3> HIDE DEF latest
    <3> QED BY <2>1, BlockedFollows
  <2> HIDE DEF drop
  <2>3. Adds({drop})
      BY <1>3, DeliveryAdds
  <2> QED BY <1>2, <2>2, <2>3, AddsFollow
<1>4. CASE Observe(<<ask>>)
  <2>1. MessageFollows(comments, ask.queue, ask.msg)
      BY FreeQueue
  <2> HIDE DEF ask
  <2>2. Adds({ask})
      BY <1>4, DeliveryAdds
  <2> QED BY <1>2, <2>1, <2>2, AddsFollow
<1> QED BY <1>1, <1>3, <1>4

-----------------------------------------------------------------------------
(* The other handlers record no round and drop no issue.                   *)

LEMMA EntryFollows ==
    ASSUME RoundInv, NEW cur, ObserveEntry(cur)
    PROVE  RoundInv'
<1> DEFINE a == Raise("request", Proposal(Entry(updated_at), FALSE, 0))
           b == CommentRequest(ThinkingComment(Entry(updated_at)), NoHandoff)
<1>1. MessageFollows(comments, a.queue, a.msg)
    BY FreeQueue
<1>2. MessageFollows(comments, b.queue, b.msg)
    BY FreeComment, HandoffKinds DEF ThinkingComment, Comment, Key, RoundKey
<1>3. Observe(<<a, b>>) /\ UNCHANGED comments
    BY DEF ObserveEntry, Observe
<1> HIDE DEF a, b
<1>4. Adds({a, b})
    BY <1>3, DeliveryAdds
<1> QED BY <1>1, <1>2, <1>3, <1>4, AddsFollow

LEMMA StartFollows ==
    ASSUME RoundInv, NEW v, ExecuteStart(v)
    PROVE  RoundInv'
<1> DEFINE a == CommentRequest(ThinkingComment(v), NoHandoff)
           b == Raise("request", Proposal(v, TRUE, 0))
<1>1. MessageFollows(comments, a.queue, a.msg)
    BY FreeComment, HandoffKinds DEF ThinkingComment, Comment, Key, RoundKey
<1>2. MessageFollows(comments, b.queue, b.msg)
    BY FreeQueue
<1>3. Handle("start", v, <<a, b>>) /\ UNCHANGED comments
    BY DEF ExecuteStart
<1> HIDE DEF a, b
<1>4. Adds({a, b})
    BY <1>3, DeliveryAdds
<1> QED BY <1>1, <1>2, <1>3, <1>4, AddsFollow

(* A continue event carries the essence that its run reported.             *)
LEMMA ConsensusFollows ==
    ASSUME RoundInv, ConsensusDecision \/ ConsensusConverge \/ ConsensusFault
    PROVE  RoundInv'
<1>1. ASSUME NEW a, UNCHANGED comments, Adds({a}), MessageFollows(comments, a.queue, a.msg)
      PROVE  RoundInv'
    BY <1>1, AddsFollow
<1>2. ASSUME NEW p \in queues["request"], ReachDecision(p) PROVE RoundInv'
  <2>1. PICK m : Publish(<<Raise("reached", [proposal |-> p, effect |-> m.effect,
                                            decision |-> m.decision])>>, 1, "request", {p})
      BY <1>2 DEF ReachDecision
  <2> DEFINE a == Raise("reached", [proposal |-> p, effect |-> m.effect, decision |-> m.decision])
  <2>2. UNCHANGED comments /\ Publish(<<a>>, 1, "request", {p})
      BY <1>2, <2>1 DEF ReachDecision
  <2>3. MessageFollows(comments, a.queue, a.msg)
      BY FreeQueue
  <2> HIDE DEF a
  <2>4. Adds({a})
      BY <2>2, DeliveryAdds
  <2> QED BY <1>1, <2>2, <2>3, <2>4
<1>3. ASSUME NEW p \in queues["request"], ReachConverge(p) PROVE RoundInv'
  <2>1. PICK verdict \in Verdicts, essence \in Essences :
          Handle("request", p,
                 <<Raise("continue", [dedup |-> AddPrefix(p.dedup, "consensus"), round |-> p.round,
                                      verdict |-> verdict, essence |-> essence])>>)
      BY <1>3 DEF ReachConverge
  <2> DEFINE a == Raise("continue", [dedup |-> AddPrefix(p.dedup, "consensus"), round |-> p.round,
                                     verdict |-> verdict, essence |-> essence])
  <2>2. UNCHANGED comments /\ Handle("request", p, <<a>>)
      BY <1>3, <2>1 DEF ReachConverge
  <2>3. MessageFollows(comments, a.queue, a.msg)
      BY DEF MessageFollows, Raise
  <2> HIDE DEF a
  <2>4. Adds({a})
      BY <2>2, DeliveryAdds
  <2> QED BY <1>1, <2>2, <2>3, <2>4
<1>4. ASSUME NEW p \in queues["request"], ReachDeferred(p) PROVE RoundInv'
  <2>1. Publish(<<>>, 0, "request", {p}) /\ UNCHANGED comments
      BY <1>4 DEF ReachDeferred
  <2>2. Adds({})
      BY <2>1, DeliveryAdds
  <2> QED BY <2>1, <2>2, AddsFollow
<1>5. ASSUME NEW r \in queues["reached"], WorkerLost(r) PROVE RoundInv'
  <2> DEFINE a == Raise("request", r.proposal)
  <2>1. UNCHANGED comments /\ Publish(<<a>>, 1, "reached", {r})
      BY <1>5 DEF WorkerLost
  <2>2. MessageFollows(comments, a.queue, a.msg)
      BY FreeQueue
  <2> HIDE DEF a
  <2>3. Adds({a})
      BY <2>1, DeliveryAdds
  <2> QED BY <1>1, <2>1, <2>2, <2>3
<1>6. ASSUME NEW m \in memo, MemoLost(m) PROVE RoundInv'
  <2>1. UNCHANGED <<comments, queues>>
      BY <1>6 DEF MemoLost
  <2> QED BY <2>1 DEF RoundInv, CommentsFollow, QueuesFollow
<1> QED BY <1>2, <1>3, <1>4, <1>5, <1>6 DEF ConsensusDecision, ConsensusConverge, ConsensusFault

LEMMA ResultFollows ==
    ASSUME RoundInv, NEW r, NEW cur, ConsensusResult(cur, r)
    PROVE  RoundInv'
<1> DEFINE v == result_version(r)
           x == [key |-> Key("result", v), state |-> ResultState(r), version |-> v,
                 decision |-> r.decision, verdict |-> 0, essence |-> FALSE]
           h == IF ResultState(r) = "ready"
                THEN ReadyHandoff(v) ELSE NoHandoff
           a == CommentRequest(Comment(Key("divergence", v), "none", NoVersion), NoHandoff)
           b == result_comment(r)
           c == CommentRequest(HoldComment(v), NoHandoff)
           event == Raise("request", r.proposal)
<1>1. /\ MessageFollows(comments, a.queue, a.msg)
      /\ MessageFollows(comments, c.queue, c.msg)
    BY FreeComment, HandoffKinds DEF HoldComment, Comment, Key, RoundKey
<1>2. MessageFollows(comments, b.queue, b.msg)
  <2>1. x.key.kind = "result" /\ h.kind # "reconcile"
      BY HandoffKinds DEF Key, RoundKey
  <2>2. b = CommentRequest(x, h)
      BY DEF result_comment
  <2> HIDE DEF x, h, b
  <2> QED BY <2>1, <2>2, FreeComment
<1>3. MessageFollows(comments, event.queue, event.msg)
    BY FreeQueue
<1>4. /\ \/ Work("reached", r, <<a>>, event)
         \/ Work("reached", r, <<>>, event)
         \/ Work("reached", r, raise_result_effects(cur, r), event)
         \/ DeadLetter("reached", r)
      /\ UNCHANGED comments
    BY DEF ConsensusResult
<1>5. raise_result_effects(cur, r) \in {<<>> \o <<>>, <<b>> \o <<>>, <<>> \o <<c>>, <<b>> \o <<c>>}
    BY DEF raise_result_effects
<1> HIDE DEF a, b, c, event
<1>6. raise_result_effects(cur, r) \in {<<>>, <<b>>, <<c>>, <<b, c>>}
    BY <1>5, ShortConcats
<1>7. Adds({a, b, c, event})
    BY <1>4, <1>6, DeliveryAdds
<1> QED BY <1>1, <1>2, <1>3, <1>4, <1>7, AddsFollow

LEMMA SplitFollows ==
    ASSUME NEW v, NEW to_state
    PROVE  LET r == raise_ready_split_effects(v, to_state)
           IN  MessageFollows(comments, r.queue, r.msg)
<1> DEFINE to == next_ready_split(v)
           c == Comment(SplitKey(v, to), to_state, to)
           h == IF to_state = "ready" THEN ReadyHandoff(to) ELSE NoHandoff
<1>1. c.key.kind = "split" /\ h.kind # "reconcile"
    BY HandoffKinds DEF Comment, SplitKey
<1>2. raise_ready_split_effects(v, to_state) = CommentRequest(c, h)
    BY DEF raise_ready_split_effects
<1> HIDE DEF c, h
<1> QED BY <1>1, <1>2, FreeComment

LEMMA DependencyWaitFollows ==
    ASSUME TypeOK, RoundInv, NEW cur, ObserveDependencyWait(cur)
    PROVE  RoundInv'
<1> DEFINE v == cur.version
           split == raise_ready_split_effects(v, "ready")
           release == CommentRequest(ReleaseComment(v), NoHandoff)
           hold == CommentRequest(HoldComment(v), NoHandoff)
           block == CommentRequest(Comment(Key("gate-blocked", v), "blocked", v), NoHandoff)
<1>1. MessageFollows(comments, split.queue, split.msg)
    BY SplitFollows
<1>2. /\ MessageFollows(comments, release.queue, release.msg)
      /\ MessageFollows(comments, hold.queue, hold.msg)
      /\ MessageFollows(comments, block.queue, block.msg)
    BY FreeComment, HandoffKinds DEF ReleaseComment, HoldComment, Comment, Key, RoundKey
<1>3. gate \in {"satisfied", "waiting", "blocked"}
    BY DEF TypeOK, Gates
<1>4. \/ Observe(<<split>> \o <<>>)
      \/ Observe(<<split>> \o <<release>>)
      \/ Observe(<<hold>>)
      \/ Observe(<<block>>)
      \/ Observe(<<>>)
    BY <1>3 DEF ObserveDependencyWait, replay_dependency_wait_state, raise_dependency_release
<1>5. UNCHANGED comments
    BY DEF ObserveDependencyWait, Observe
<1> HIDE DEF split, release, hold, block
<1>6. \/ Observe(<<split>>)
      \/ Observe(<<split, release>>)
      \/ Observe(<<hold>>)
      \/ Observe(<<block>>)
      \/ Observe(<<>>)
    BY <1>4, ShortConcats
<1>7. Adds({split, release, hold, block})
    BY <1>6, DeliveryAdds
<1> QED BY <1>1, <1>2, <1>5, <1>7, AddsFollow

LEMMA ReadyFollows ==
    ASSUME RoundInv, NEW cur, ObserveReady(cur)
    PROVE  RoundInv'
<1> DEFINE v == cur.version
           ready == raise_ready_split_effects(v, "ready")
           wait == raise_ready_split_effects(v, "dependency_wait")
           Redrive(i) == Raise("ready", ReadyEvent(redrive_at(v, 1), v, i))
<1>1. PICK i : Observe(<<ready>>) \/ Observe(<<wait>>) \/ Observe(<<Redrive(i)>>)
    BY DEF ObserveReady, replay_ready_state
<1> DEFINE a == Redrive(i)
<1>2. MessageFollows(comments, ready.queue, ready.msg) /\ MessageFollows(comments, wait.queue, wait.msg)
    BY SplitFollows
<1>3. MessageFollows(comments, a.queue, a.msg)
    BY FreeQueue
<1>4. Observe(<<ready>>) \/ Observe(<<wait>>) \/ Observe(<<a>>)
    BY <1>1
<1>5. UNCHANGED comments
    BY <1>4 DEF Observe
<1> HIDE DEF ready, wait, a
<1>6. Adds({ready, wait, a})
    BY <1>4, DeliveryAdds
<1> QED BY <1>2, <1>3, <1>5, <1>6, AddsFollow

LEMMA ImplementFollows ==
    ASSUME RoundInv, NEW e, NEW cur, Implement(cur, e)
    PROVE  RoundInv'
<1> DEFINE wait == raise_ready_split_effects(ready_payload_inner_version(e.dedup), "dependency_wait")
           accepted == /\ resolve_implement("initial", cur, e.dedup, FALSE) = "pending"
                       /\ verified_hand_off(e)
           plan == Raise("plan", Plan(e, accepted))
<1>1. MessageFollows(comments, wait.queue, wait.msg)
    BY SplitFollows
<1>2. MessageFollows(comments, plan.queue, plan.msg)
    BY FreeQueue
<1>3. /\ \/ Handle("ready", e, <<wait>>)
         \/ Handle("ready", e, <<>>)
         \/ DeadLetter("ready", e)
         \/ Handle("ready", e, <<plan>>)
      /\ UNCHANGED comments
    BY DEF Implement
<1> HIDE DEF wait, plan
<1>4. Adds({wait, plan})
    BY <1>3, DeliveryAdds
<1> QED BY <1>1, <1>2, <1>3, <1>4, AddsFollow

LEMMA ImplementStartFollows ==
    ASSUME RoundInv, NEW e, NEW cur, ImplementStart(cur, e)
    PROVE  RoundInv'
<1> DEFINE a == CommentRequest(ImplementingComment(e.dedup), NoHandoff)
           event == Raise("ready", Plan(e, FALSE))
<1>1. MessageFollows(comments, a.queue, a.msg)
    BY FreeComment, HandoffKinds DEF ImplementingComment, Comment, Key, RoundKey
<1>2. MessageFollows(comments, event.queue, event.msg)
    BY FreeQueue
<1>3. /\ Work("plan", e, <<a>>, event) \/ Work("plan", e, <<>>, event)
      /\ UNCHANGED comments
    BY DEF ImplementStart
<1> HIDE DEF a, event
<1>4. Adds({a, event})
    BY <1>3, DeliveryAdds
<1> QED BY <1>1, <1>2, <1>3, <1>4, AddsFollow

-----------------------------------------------------------------------------
(* The proxy and the hand-off carry the drop on.                           *)

LEMMA HandoffFollows ==
    ASSUME TypeOK, RoundInv, NEW w \in queues["written"], CommentHandoff(w)
    PROVE  RoundInv'
<1> DEFINE m == [base_version |-> w.handoff.version, round |-> w.handoff.n]
           a == Raise("ready", ReadyEvent(w.handoff.version, w.handoff.version, w.id))
           b == Raise("reconcile", m)
<1>1. UNCHANGED comments
    BY DEF CommentHandoff
<1>2. CASE w.handoff.kind = "ready"
  <2>1. Handle("written", w, <<a>>)
      BY <1>2 DEF CommentHandoff
  <2>2. MessageFollows(comments, a.queue, a.msg)
      BY FreeQueue
  <2> HIDE DEF a
  <2>3. Adds({a})
      BY <2>1, DeliveryAdds
  <2> QED BY <1>1, <2>2, <2>3, AddsFollow
<1>3. CASE w.handoff.kind # "ready"
  <2>1. Handle("written", w, <<b>>)
      BY <1>3 DEF CommentHandoff
  <2>2. w.handoff.kind = "reconcile"
      BY <1>3, QueueFollows, QueueElements DEF Handoffs
  <2>3. Droppable(comments, Len(comments), w.handoff.version, w.handoff.n)
      BY <2>2, QueueFollows
  <2>4. MessageFollows(comments, b.queue, b.msg)
      BY <2>3 DEF MessageFollows, Raise
  <2> HIDE DEF b
  <2>5. Adds({b})
      BY <2>1, DeliveryAdds
  <2> QED BY <1>1, <2>4, <2>5, AddsFollow
<1> QED BY <1>2, <1>3

LEMMA SkipFollows ==
    ASSUME RoundInv, NEW c \in queues["comment"], ProxySkip(c)
    PROVE  RoundInv'
<1> DEFINE places == KeyPlaces(comments, c.comment.key)
           i == CHOOSE i \in places : \A j \in places : i <= j
           m == [id |-> i, handoff |-> c.handoff]
           a == Raise("written", m)
<1>1. Handle("comment", c, WrittenReport(c, i)) /\ UNCHANGED comments
    BY DEF ProxySkip
<1> HIDE DEF i
<1>2. CASE c.handoff.kind = "none"
  <2>1. Handle("comment", c, <<>>)
      BY <1>1, <1>2 DEF WrittenReport
  <2>2. Adds({})
      BY <2>1, DeliveryAdds
  <2> QED BY <1>1, <2>2, AddsFollow
<1>3. CASE c.handoff.kind # "none"
  <2>1. Handle("comment", c, <<a>>)
      BY <1>1, <1>3 DEF WrittenReport
  <2>2. MessageFollows(comments, "written", m)
      BY <1>3, QueueFollows DEF MessageFollows
  <2>3. a.queue = "written" /\ a.msg = m
      BY DEF Raise
  <2> HIDE DEF m, a
  <2>4. Adds({a})
      BY <2>1, DeliveryAdds
  <2> QED BY <1>1, <2>2, <2>3, <2>4, AddsFollow
<1> QED BY <1>2, <1>3

LEMMA WriteFollows ==
    ASSUME TypeOK, RoundInv, NEW c \in queues["comment"], ProxyWrite(c) \/ ProxyWriteLagging(c)
    PROVE  RoundInv'
<1> DEFINE d == c.comment
           n == Len(comments) + 1
           report == WrittenReport(c, n)
           m == [id |-> n, handoff |-> c.handoff]
           a == Raise("written", m)
<1>1. comments' = Append(comments, d) /\ comments \in Seq(Comments) /\ d \in Comments
    BY QueueElements DEF ProxyWrite, ProxyWriteLagging, TypeOK
<1>2. /\ Len(comments) \in Nat /\ Len(comments') = n /\ comments'[n] = d
      /\ \A i \in 1..Len(comments) : comments'[i] = comments[i]
    BY <1>1
<1>3. /\ \A i \in 0..Len(comments) : \A x : Follows(comments, i, x) => Follows(comments', i, x)
      /\ \A v, k : Droppable(comments, Len(comments), v, k)
                     => Droppable(comments', Len(comments'), v, k)
      /\ \A q, x : MessageFollows(comments, q, x) => MessageFollows(comments', q, x)
    BY <1>1, FollowsGrows
<1>4. CommentsFollow'
  <2>1. ASSUME NEW i \in 1..Len(comments') PROVE Follows(comments', i - 1, comments'[i])
    <3>1. CASE i = n
      <4>1. Follows(comments, Len(comments), d)
          BY QueueFollows
      <4>2. i - 1 = Len(comments) /\ Len(comments) \in 0..Len(comments) /\ comments'[i] = d
          BY <1>2, <3>1
      <4> QED BY <1>3, <4>1, <4>2
    <3>2. CASE i # n
      <4>1. i \in 1..Len(comments) /\ i - 1 \in 0..Len(comments)
          BY <1>2, <3>2
      <4> QED BY <1>2, <1>3, <4>1 DEF RoundInv, CommentsFollow
    <3> QED BY <3>1, <3>2
  <2> QED BY <2>1 DEF CommentsFollow
<1>5. \/ c.handoff.kind = "none" /\ report = <<>>
      \/ c.handoff.kind # "none" /\ report = <<a>>
    BY DEF WrittenReport
<1>6. c.handoff.kind # "none" => MessageFollows(comments', "written", m)
    BY <1>3, QueueFollows DEF MessageFollows
<1>7. \/ Handle("comment", c, report)
      \/ Publish(report, Len(report), "comment", {c})
    BY DEF ProxyWrite, ProxyWriteLagging
<1>8. a.queue = "written" /\ a.msg = m
    BY DEF Raise
<1> HIDE DEF report, m, a
<1>9. Len(<<>>) = 0 /\ Len(<<a>>) = 1
    OBVIOUS
<1>10. Adds(IF c.handoff.kind = "none" THEN {} ELSE {a})
    BY <1>5, <1>7, <1>9, DeliveryAdds
<1>11. QueuesFollow'
  <2>1. ASSUME NEW q \in Queues, NEW x \in queues'[q] PROVE MessageFollows(comments', q, x)
    <3>1. x \in queues[q] \/ (q = "written" /\ x = m /\ c.handoff.kind # "none")
        BY <1>8, <1>10 DEF Adds
    <3>2. x \in queues[q] => MessageFollows(comments', q, x)
        BY <1>3 DEF RoundInv, QueuesFollow
    <3> QED BY <1>6, <3>1, <3>2
  <2> QED BY <2>1 DEF QueuesFollow
<1> QED BY <1>4, <1>11 DEF RoundInv

LEMMA EnvironmentFollows ==
    ASSUME TypeOK, RoundInv, Environment
    PROVE  RoundInv'
<1>1. CASE RequestStart
  <2> DEFINE a == Raise("start", Entry(updated_at))
  <2>1. UNCHANGED comments /\ Adds({a})
      BY <1>1 DEF RequestStart, TypeOK, Adds, Raise
  <2>2. MessageFollows(comments, a.queue, a.msg)
      BY FreeQueue
  <2> HIDE DEF a
  <2> QED BY <2>1, <2>2, AddsFollow
<1>2. CASE UNCHANGED <<comments, queues>>
    BY <1>2 DEF RoundInv, CommentsFollow, QueuesFollow
<1> QED BY <1>1, <1>2 DEF Environment, EditIssue, ChangeCapacity, CatchUp, ChangeGate

-----------------------------------------------------------------------------
LEMMA InitFollows == Init => RoundInv
BY DEF Init, RoundInv, CommentsFollow, QueuesFollow

LEMMA StepFollows ==
    ASSUME TypeOK, RoundInv, [Next]_vars
    PROVE  RoundInv'
<1>1. CASE HandleStart
    BY <1>1, StartFollows DEF HandleStart
<1>2. CASE ConsensusDecision \/ ConsensusConverge \/ ConsensusFault
    BY <1>2, ConsensusFollows
<1>3. CASE HandleResult
    BY <1>3, ResultFollows DEF HandleResult
<1>4. CASE HandleContinue
    BY <1>4, LoopFollows DEF HandleContinue
<1>5. CASE HandleReconcile
    BY <1>5, ReconcileFollows DEF HandleReconcile
<1>6. CASE ObserveIssue
    BY <1>6, EntryFollows, ThinkingFollows, DependencyWaitFollows, ReadyFollows DEF ObserveIssue
<1>7. CASE HandleWritten
    BY <1>7, HandoffFollows DEF HandleWritten
<1>8. CASE HandleReady
    BY <1>8, ImplementFollows DEF HandleReady, HandlesReady
<1>9. CASE HandlePlan
    BY <1>9, ImplementStartFollows DEF HandlePlan
<1>10. CASE Proxy
    BY <1>10, SkipFollows, WriteFollows DEF Proxy, ProxyHandles, ProxyFault
<1>11. CASE Environment
    BY <1>11, EnvironmentFollows
<1>12. CASE UNCHANGED vars
    BY <1>12 DEF vars, RoundInv, CommentsFollow, QueuesFollow
<1> QED BY <1>1, <1>2, <1>3, <1>4, <1>5, <1>6, <1>7, <1>8, <1>9, <1>10, <1>11, <1>12 DEF Next

LEMMA RoundInductive == Spec => [](TypeOK /\ RoundInv)
<1>1. Init => TypeOK /\ RoundInv
    BY InitType, InitFollows
<1>2. TypeOK /\ RoundInv /\ [Next]_vars => (TypeOK /\ RoundInv)'
    BY StepType, StepFollows
<1> QED BY <1>1, <1>2, PTL DEF Spec

(* Whoever reads a prefix of the comments sees the rounds 0 to n of an     *)
(* epoch without a gap, although the next round is asked for before the    *)
(* last one is written, replays ask for it again, and reads lag.           *)
THEOREM RoundsHaveNoGap == Spec => []RoundsGapless
<1>1. TypeOK /\ RoundInv => RoundsGapless
    BY DEF RoundInv, CommentsFollow, Follows, RecordedIn, RoundsGapless
<1> QED BY <1>1, RoundInductive, PTL

(* An issue is dropped at round n of an epoch only after the rounds before *)
(* n were recorded for it, and without an essence stall not before the     *)
(* third round that could repeat, whether the loop drops it through its    *)
(* hand-off and reconcile, or an observation does.                         *)
THEOREM DropsFollowRounds == Spec => []DropFollowsRounds
<1>1. TypeOK /\ RoundInv => DropFollowsRounds
    BY DEF RoundInv, CommentsFollow, Follows, Droppable, RecordedIn, DropFollowsRounds
<1> QED BY <1>1, RoundInductive, PTL

=============================================================================
