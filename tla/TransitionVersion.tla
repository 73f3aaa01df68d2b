-------------------------- MODULE TransitionVersion --------------------------
(***************************************************************************)
(* The transition versions of libraries/contract/transition_version.lua.   *)
(*                                                                         *)
(* Every state marker, event and write request of the devloop carries a    *)
(* version text such as  consensus:<issue>@<updated_at>/loop/2  .  All     *)
(* compare-and-set decisions of the system are comparisons of such texts.  *)
(*                                                                         *)
(* The text is abstracted to its segments: the updated_at timestamp it     *)
(* contains (a natural number), the prefix in front of it, and the chain   *)
(* of slash segments behind it.  A segment "redrive" stands for            *)
(* /redrive/ready/<n>, which the parser does not know.  Two versions are   *)
(* the same text exactly when the records are equal.                       *)
(***************************************************************************)
EXTENDS Integers, Sequences, FiniteSets

(* The states whose /timeout/<state>/<n> rounds take part in the order.    *)
timeout_order_states ==
    {"thinking", "ready", "implementing", "awaiting-pr", "impl-failed",
     "pr-open", "reviewing", "review-meta", "merge-ready", "merging",
     "fixing", "blocked"}

SuffixKinds ==
    {"loop", "fix", "reimplement", "timeout", "timeout_reconcile", "blocked",
     "review_meta_action", "review_loop", "rereview", "ready_split"}

(* A timeout of a state outside the order is parsed but never counted.     *)
SegmentStates == timeout_order_states \cup {"dependency_wait", "none"}

Segments == [kind : SuffixKinds \cup {"redrive"}, state : SegmentStates, n : Nat]

(* "consensus:" and "ready/" in front of the text.                         *)
Prefixes == {"consensus", "ready"}

Versions == [prefix : SUBSET Prefixes, updated_at : Nat, tail : Seq(Segments)]

Version(prefix, updated_at, tail) ==
    [prefix |-> prefix, updated_at |-> updated_at, tail |-> tail]

Segment(kind, n) == [kind |-> kind, state |-> "none", n |-> n]

Entry(updated_at) == Version({}, updated_at, <<>>)

AddPrefix(v, p) == Version(v.prefix \cup {p}, v.updated_at, v.tail)

DropPrefix(v, p) == Version(v.prefix \ {p}, v.updated_at, v.tail)

WithTail(v, tail) == Version(v.prefix, v.updated_at, tail)

Append1(v, segment) == WithTail(v, Append(v.tail, segment))

-----------------------------------------------------------------------------
(* Parsing.  The suffix chain is the longest known tail: the parser looks  *)
(* for the first position from which every segment is a known suffix, and  *)
(* everything before it, unknown segments included, is the base.           *)

Known(v, i) == \A j \in i..Len(v.tail) : v.tail[j].kind # "redrive"

Suffixes(v) == {v.tail[i] : i \in {i \in 1..Len(v.tail) : Known(v, i)}}

MaxNat(S) == CHOOSE m \in S : \A x \in S : x <= m

RoundsOf(suffixes, kind) == {0} \cup {s.n : s \in {s \in suffixes : s.kind = kind}}

MaxRoundOf(suffixes, kind) == MaxNat(RoundsOf(suffixes, kind))

max_round(v, kind) == MaxRoundOf(Suffixes(v), kind)

TimeoutsOf(suffixes, states) == {s \in suffixes : s.kind = "timeout" /\ s.state \in states}

timeout_round(v, state) == MaxRoundOf(TimeoutsOf(Suffixes(v), {state}), "timeout")

MutantCountsAllTimeouts(v) ==
    Cardinality(TimeoutsOf(Suffixes(v), timeout_order_states))

max_timeout_round(v) ==
    MaxRoundOf(TimeoutsOf(Suffixes(v), timeout_order_states), "timeout")

-----------------------------------------------------------------------------
(* The order: first the timestamp, then the rounds of each kind, in the    *)
(* order of compare_version_keys.  Neither the prefix nor the base text    *)
(* counts once a timestamp is found in it.                                 *)

version_sort_key(v) ==
    << v.updated_at,
       max_round(v, "loop"),
       max_round(v, "fix"),
       max_round(v, "reimplement"),
       max_timeout_round(v),
       max_round(v, "blocked"),
       max_round(v, "review_meta_action"),
       max_round(v, "review_loop"),
       max_round(v, "ready_split") >>

KeyLen == 9

KeyLess(k, l) ==
    \E i \in 1..KeyLen : k[i] < l[i] /\ \A j \in 1..(i - 1) : k[j] = l[j]

Older(v, w) ==
    \E k \in {version_sort_key(v)}, l \in {version_sort_key(w)} : KeyLess(k, l)

(* Equal texts are the same version; otherwise the keys decide.            *)
compare(left, right) ==
    IF left = right THEN 0
    ELSE IF Older(right, left) THEN 1
    ELSE IF Older(left, right) THEN -1
    ELSE 0

-----------------------------------------------------------------------------
(* Stripping.  Each strip drops segments from the end while they are of    *)
(* the kinds it looks for, and so stops at the first unknown segment.      *)

Places(v, kinds) == {i \in 1..Len(v.tail) : v.tail[i].kind \in kinds}

StripWhile(v, places) ==
    WithTail(v, SubSeq(v.tail, 1, MaxNat({0} \cup ((1..Len(v.tail)) \ places))))

StripOnce(v, kind) ==
    StripWhile(v, Places(v, {kind}) \cap {Len(v.tail)})

strip_suffixes(v) == StripWhile(v, Places(v, SuffixKinds))

strip_timeout_suffixes(v) == StripWhile(v, Places(v, {"timeout", "timeout_reconcile"}))

strip_trailing_blocked_suffixes(v) == StripWhile(v, Places(v, {"blocked"}))

strip_trailing_fix(v) == StripOnce(v, "fix")

strip_trailing_loop(v) == StripOnce(v, "loop")

strip_trailing_reimplement(v) == StripOnce(v, "reimplement")

strip_before_review_loop(v) ==
    WithTail(v, SubSeq(v.tail, 1,
        MaxNat({i \in 0..Len(v.tail) :
                  \A j \in 1..i : ~(Known(v, j) /\ v.tail[j].kind = "review_loop")})))

-----------------------------------------------------------------------------
(* The constructors of new versions.                                       *)

loop_at(v, n) == Append1(v, Segment("loop", n))

MutantRepeatsLoop(v) == loop_at(v, MaxNat({1, max_round(v, "loop")}))

next_loop(v) == loop_at(v, max_round(v, "loop") + 1)

next_fix(v) == Append1(v, Segment("fix", max_round(v, "fix") + 1))

review_loop_at(v, n) == Append1(v, Segment("review_loop", n))

next_review_loop(v) == review_loop_at(v, max_round(v, "review_loop") + 1)

rereview_at(v, n) == Append1(review_loop_at(v, n), Segment("rereview", n))

next_rereview(v) == rereview_at(v, max_round(v, "review_loop") + 1)

next_review_meta_action(v) ==
    Append1(v, Segment("review_meta_action", max_round(v, "review_meta_action") + 1))

MutantSplitKeepsRounds(v) ==
    Append1(v, Segment("ready_split", max_round(v, "ready_split") + 1))

next_ready_split(v) ==
    Append1(strip_suffixes(v), Segment("ready_split", max_round(v, "ready_split") + 1))

reimplement_at(v, n) == Append1(v, Segment("reimplement", n))

next_reimplement(v) == reimplement_at(v, max_round(v, "reimplement") + 1)

blocked_at(v, n) == Append1(strip_trailing_blocked_suffixes(v), Segment("blocked", n))

MutantBlockedBackwards(v) == blocked_at(v, max_round(v, "blocked") - 1)

next_blocked(v) == blocked_at(v, max_round(v, "blocked") + 1)

timeout_at(v, state, n) ==
    LET ofState == {i \in Places(v, {"timeout"}) : v.tail[i].state = state}
    IN  Append1(StripWhile(v, ofState), [kind |-> "timeout", state |-> state, n |-> n])

next_timeout(v, state) == timeout_at(v, state, timeout_round(v, state) + 1)

(* packages/github-devloop/core/ready_split.lua appends /redrive/ready/<n>. *)
redrive_at(v, n) == Append1(v, Segment("redrive", n))

=============================================================================
