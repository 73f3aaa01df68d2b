------------------------------ MODULE VersionWalk ------------------------------
(***************************************************************************)
(* A version and every constructor of a next version that the departments  *)
(* apply to it.  A department that enters a new state at a next version    *)
(* relies on the new version being newer: the derived current state is the *)
(* newest marker, and a marker that is not newer is never seen.            *)
(***************************************************************************)
EXTENDS TransitionVersion

CONSTANTS
    MaxTail,    \* segments that a version may collect
    MaxRounds   \* rounds of one kind

ASSUME BoundsAssumption == MaxTail \in Nat /\ MaxRounds \in Nat

VARIABLE version

Init == version \in {Entry(1), AddPrefix(Entry(1), "consensus")}

Room ==
    /\ Len(version.tail) < MaxTail
    /\ \A i \in 1..Len(version.tail) : version.tail[i].n < MaxRounds

NextLoop == Room /\ version' = next_loop(version)

NextFix == Room /\ version' = next_fix(version)

NextReimplement == Room /\ version' = next_reimplement(version)

NextBlocked == Room /\ version' = next_blocked(version)

NextReviewMetaAction == Room /\ version' = next_review_meta_action(version)

NextReviewLoop == Room /\ version' = next_review_loop(version)

NextRereview == Room /\ version' = next_rereview(version)

NextTimeout(state) == Room /\ version' = next_timeout(version, state)

NextReadySplit == Room /\ version' = next_ready_split(version)

Redrive == Room /\ version' = redrive_at(version, 1)

(* The constructors that append one more round of their own kind.          *)
Bump ==
    \/ NextLoop
    \/ NextFix
    \/ NextReimplement
    \/ NextBlocked
    \/ NextReviewMetaAction
    \/ NextReviewLoop
    \/ NextRereview

Next ==
    \/ Bump
    \/ \E state \in {"thinking", "fixing"} : NextTimeout(state)
    \/ NextReadySplit
    \/ Redrive

Spec == Init /\ [][Next]_version

TypeOK == version \in Versions

(* Every next round is newer than the version it was built from, whatever  *)
(* rounds, timeouts and redrives the version has collected.                *)
BumpsAreNewer == [][Bump => compare(version', version) = 1]_version

(* A next timeout is newer exactly when no other state of the order has    *)
(* timed out more often: the order counts the most timeouts of any state.  *)
TimeoutsAreNewer ==
    [][\A state \in timeout_order_states :
          NextTimeout(state) =>
              (compare(version', version) = 1
                  <=> timeout_round(version, state) = max_timeout_round(version))]_version

(* A ready-split strips the rounds of all other kinds, so it is newer      *)
(* exactly when there are none.                                            *)
SplitsAreNewer ==
    [][NextReadySplit =>
          (compare(version', version) = 1
              <=> \A i \in 2..(KeyLen - 1) : version_sort_key(version)[i] = 0)]_version

=============================================================================
