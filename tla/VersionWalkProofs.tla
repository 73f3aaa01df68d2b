--------------------------- MODULE VersionWalkProofs ---------------------------
(***************************************************************************)
(* Every constructor of TransitionVersion that counts a round yields a     *)
(* newer version, for every version and not only the short ones that are   *)
(* model-checked.                                                          *)
(***************************************************************************)
EXTENDS VersionWalk, VersionLemmas

(* The constructors that append one more round of their own kind yield a   *)
(* version that compares newer.                                            *)
LEMMA BumpNewer ==
    ASSUME version \in Versions, Bump
    PROVE  version' \in Versions /\ compare(version', version) = 1
<1>1. CASE NextLoop
  <2>1. max_round(version, "loop") \in Nat
      BY RoundTypes
  <2> QED BY <1>1, <2>1, AppendedRoundNewer DEF NextLoop, next_loop, loop_at, OrderedKinds
<1>2. CASE NextFix
  <2>1. max_round(version, "fix") \in Nat
      BY RoundTypes
  <2> QED BY <1>2, <2>1, AppendedRoundNewer DEF NextFix, next_fix, OrderedKinds
<1>3. CASE NextReimplement
  <2>1. max_round(version, "reimplement") \in Nat
      BY RoundTypes
  <2> QED BY <1>3, <2>1, AppendedRoundNewer
           DEF NextReimplement, next_reimplement, reimplement_at, OrderedKinds
<1>4. CASE NextBlocked
    BY <1>4, NextBlockedNewer DEF NextBlocked
<1>5. CASE NextReviewMetaAction
  <2>1. max_round(version, "review_meta_action") \in Nat
      BY RoundTypes
  <2> QED BY <1>5, <2>1, AppendedRoundNewer
           DEF NextReviewMetaAction, next_review_meta_action, OrderedKinds
<1>6. CASE NextReviewLoop
  <2>1. max_round(version, "review_loop") \in Nat
      BY RoundTypes
  <2> QED BY <1>6, <2>1, AppendedRoundNewer
           DEF NextReviewLoop, next_review_loop, review_loop_at, OrderedKinds
<1>7. CASE NextRereview
    BY <1>7, NextRereviewNewer DEF NextRereview
<1> QED BY <1>1, <1>2, <1>3, <1>4, <1>5, <1>6, <1>7 DEF Bump

(* The other constructors yield versions.                                  *)
LEMMA OtherConstructorsType ==
    ASSUME NEW v \in Versions
    PROVE  /\ \A state \in SegmentStates : next_timeout(v, state) \in Versions
           /\ next_ready_split(v) \in Versions
           /\ redrive_at(v, 1) \in Versions
<1>1. ASSUME NEW state \in SegmentStates PROVE next_timeout(v, state) \in Versions
  <2> DEFINE n == timeout_round(v, state) + 1
             places == {i \in Places(v, {"timeout"}) : v.tail[i].state = state}
             s == [kind |-> "timeout", state |-> state, n |-> n]
  <2>1. n \in Nat
      BY RoundTypes
  <2>2. s \in Segments
      BY <2>1 DEF Segments, SuffixKinds
  <2>3. StripWhile(v, places) \in Versions
      BY StripWhileType
  <2>4. next_timeout(v, state) = Append1(StripWhile(v, places), s)
      BY DEF next_timeout, timeout_at
  <2> HIDE DEF places, s
  <2> QED BY <2>2, <2>3, <2>4, Append1Type
<1>2. next_ready_split(v) \in Versions
  <2> DEFINE n == max_round(v, "ready_split") + 1
  <2>1. n \in Nat
      BY RoundTypes
  <2>2. Segment("ready_split", n) \in Segments
      BY <2>1, SegmentType DEF SuffixKinds
  <2>3. strip_suffixes(v) \in Versions
      BY StripWhileType DEF strip_suffixes
  <2> QED BY <2>2, <2>3, Append1Type DEF next_ready_split
<1>3. redrive_at(v, 1) \in Versions
    BY SegmentType, Append1Type DEF redrive_at
<1> QED BY <1>1, <1>2, <1>3

(* A walk visits versions only.                                            *)
THEOREM TypeCorrect == Spec => []TypeOK
<1>1. Init => TypeOK
    BY EntryType, PrefixTypes DEF Init, TypeOK, Prefixes
<1>2. TypeOK /\ [Next]_version => TypeOK'
  <2> SUFFICES ASSUME TypeOK, [Next]_version PROVE TypeOK'
      OBVIOUS
  <2>1. CASE Bump
      BY <2>1, BumpNewer DEF TypeOK
  <2>2. ASSUME NEW state \in {"thinking", "fixing"}, NextTimeout(state) PROVE TypeOK'
      BY <2>2, OtherConstructorsType DEF TypeOK, NextTimeout, SegmentStates, timeout_order_states
  <2>3. CASE NextReadySplit
      BY <2>3, OtherConstructorsType DEF TypeOK, NextReadySplit
  <2>4. CASE Redrive
      BY <2>4, OtherConstructorsType DEF TypeOK, Redrive
  <2>5. CASE UNCHANGED version
      BY <2>5 DEF TypeOK
  <2> QED BY <2>1, <2>2, <2>3, <2>4, <2>5 DEF Next
<1> QED BY <1>1, <1>2, PTL DEF Spec

(* Every next round of a walk is newer than the version it was built from: *)
(* a department that enters a state at a next version wins the comparison  *)
(* of markers against the version it read.                                 *)
THEOREM BumpsNewer == Spec => BumpsAreNewer
<1>1. TypeOK /\ [Next]_version => [Bump => compare(version', version) = 1]_version
    BY BumpNewer DEF TypeOK
<1> QED BY <1>1, TypeCorrect, PTL DEF Spec, BumpsAreNewer

(* A next timeout is newer than the version it was built from exactly when *)
(* no other state of the order has timed out more often: with more         *)
(* timeouts of another state, the marker of the new timeout is never seen. *)
THEOREM TimeoutsNewer == Spec => TimeoutsAreNewer
<1> DEFINE P == \A state \in timeout_order_states :
                    NextTimeout(state) =>
                        (compare(version', version) = 1
                            <=> timeout_round(version, state) = max_timeout_round(version))
<1>1. TypeOK => P
  <2> SUFFICES ASSUME TypeOK, NEW state \in timeout_order_states, NextTimeout(state)
               PROVE  compare(version', version) = 1
                          <=> timeout_round(version, state) = max_timeout_round(version)
      OBVIOUS
  <2>1. version \in Versions /\ version' = next_timeout(version, state)
      BY DEF TypeOK, NextTimeout
  <2> QED BY <2>1, NextTimeoutNewer
<1>2. TypeOK /\ [Next]_version => [P]_version
    BY <1>1
<1> QED BY <1>2, TypeCorrect, PTL DEF Spec, TimeoutsAreNewer

(* A ready split is newer exactly when the version has no round of another *)
(* kind, since it strips them all: the split of a version that looped or   *)
(* timed out is written and loses.                                         *)
THEOREM SplitsNewer == Spec => SplitsAreNewer
<1> DEFINE P == NextReadySplit =>
                    (compare(version', version) = 1
                        <=> \A i \in 2..(KeyLen - 1) : version_sort_key(version)[i] = 0)
<1>1. TypeOK => P
    BY NextReadySplitNewer DEF TypeOK, NextReadySplit
<1>2. TypeOK /\ [Next]_version => [P]_version
    BY <1>1
<1> QED BY <1>2, TypeCorrect, PTL DEF Spec, SplitsAreNewer

=============================================================================
