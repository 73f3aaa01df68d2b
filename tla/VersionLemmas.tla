----------------------------- MODULE VersionLemmas -----------------------------
(***************************************************************************)
(* What the operators of TransitionVersion return, for every version.      *)
(***************************************************************************)
EXTENDS TransitionVersion, WellFoundedInduction, TLAPS

(* A set of naturals that is not empty has a least element.                *)
LEMMA LeastNat ==
    ASSUME NEW S \in SUBSET Nat, S # {}
    PROVE  \E m \in S : \A x \in S : m <= x
<1> DEFINE R == OpToRel(<, Nat)
<1>1. IsWellFoundedOn(R, Nat)
    BY NatLessThanWellFounded
<1>2. PICK m \in S : \A x \in S : ~(<<x, m>> \in R)
  <2> HIDE DEF R
  <2> QED BY <1>1, WFMin
<1>3. ASSUME NEW x \in S PROVE m <= x
  <2>1. ~(<<x, m>> \in R)
      BY <1>2
  <2>2. ~(x < m)
      BY <2>1 DEF OpToRel
  <2> QED BY <2>2
<1> QED BY <1>3

(* A set of naturals with an upper bound, and not empty, has a greatest    *)
(* element, and MaxNat is that element.                                    *)
LEMMA MaxNatOfBounded ==
    ASSUME NEW S \in SUBSET Nat, S # {}, NEW b \in Nat, \A x \in S : x <= b
    PROVE  /\ MaxNat(S) \in S
           /\ \A x \in S : x <= MaxNat(S)
<1> DEFINE Bounds == {c \in Nat : \A x \in S : x <= c}
<1>1. PICK m \in Bounds : \A c \in Bounds : m <= c
  <2>1. b \in Bounds
      OBVIOUS
  <2>2. Bounds \in SUBSET Nat
      OBVIOUS
  <2> HIDE DEF Bounds
  <2> QED BY <2>1, <2>2, LeastNat
<1>2. m \in S
  <2> SUFFICES ASSUME m \notin S PROVE FALSE
      OBVIOUS
  <2>1. PICK y \in S : TRUE
      OBVIOUS
  <2>2. \A x \in S : x <= m - 1
      BY <1>1
  <2>3. m - 1 \in Bounds
      BY <2>1, <2>2, <1>1
  <2> QED BY <2>3, <1>1
<1>3. \E n \in S : \A x \in S : x <= n
    BY <1>1, <1>2
<1> QED BY <1>3 DEF MaxNat

(* The maximum of two naturals.                                            *)
LEMMA MaxNatOfPair ==
    ASSUME NEW a \in Nat, NEW b \in Nat
    PROVE  /\ MaxNat({a, b}) \in Nat
           /\ a <= MaxNat({a, b})
           /\ b <= MaxNat({a, b})
           /\ MaxNat({a, b}) \in {a, b}
<1>1. {a, b} \in SUBSET Nat /\ {a, b} # {} /\ a + b \in Nat /\ \A x \in {a, b} : x <= a + b
    OBVIOUS
<1> QED BY <1>1, MaxNatOfBounded

(* A sequence of naturals is bounded.                                      *)
LEMMA BoundedNats ==
    ASSUME NEW n \in Nat, NEW f \in [1..n -> Nat]
    PROVE  \E b \in Nat : \A i \in 1..n : f[i] <= b
<1> DEFINE Unbounded == {k \in 0..n : ~(\E b \in Nat : \A i \in 1..k : f[i] <= b)}
<1> SUFFICES n \notin Unbounded
    OBVIOUS
<1>1. SUFFICES ASSUME Unbounded # {} PROVE FALSE
    OBVIOUS
<1>2. PICK k \in Unbounded : \A l \in Unbounded : k <= l
  <2>1. Unbounded \in SUBSET Nat
      OBVIOUS
  <2> HIDE DEF Unbounded
  <2> QED BY <2>1, <1>1, LeastNat
<1>3. k # 0
  <2>1. \A i \in 1..0 : f[i] <= 0
      OBVIOUS
  <2> QED BY <2>1
<1>4. k - 1 \in 0..n /\ k - 1 \notin Unbounded
  <2>1. k \in 0..n
      OBVIOUS
  <2> HIDE DEF Unbounded
  <2> QED BY <2>1, <1>2, <1>3
<1>5. PICK b \in Nat : \A i \in 1..(k - 1) : f[i] <= b
    BY <1>4
<1>6. f[k] \in Nat
    BY <1>2, <1>3
<1>7. \A i \in 1..k : f[i] <= b + f[k]
  <2> SUFFICES ASSUME NEW i \in 1..k PROVE f[i] <= b + f[k]
      OBVIOUS
  <2>1. CASE i = k
      BY <2>1, <1>6
  <2>2. CASE i # k
    <3>1. i \in 1..(k - 1)
        BY <2>2, <1>2
    <3>2. f[i] \in Nat /\ f[i] <= b
        BY <3>1, <1>5, <1>2
    <3> QED BY <3>2, <1>6
  <2> QED BY <2>1, <2>2
<1>8. b + f[k] \in Nat
    BY <1>6
<1> QED BY <1>2, <1>7, <1>8

-----------------------------------------------------------------------------
(* Rounds.                                                                 *)

(* The fields of a segment and of a version.                               *)
LEMMA SegmentFields ==
    ASSUME NEW s \in Segments
    PROVE  s.kind \in SuffixKinds \cup {"redrive"} /\ s.state \in SegmentStates /\ s.n \in Nat
BY DEF Segments

LEMMA VersionFields ==
    ASSUME NEW v \in Versions
    PROVE  /\ v.prefix \in SUBSET Prefixes
           /\ v.updated_at \in Nat
           /\ v.tail \in Seq(Segments)
           /\ Len(v.tail) \in Nat
           /\ \A i \in 1..Len(v.tail) : v.tail[i] \in Segments
           /\ \A i \in 1..Len(v.tail) : v.tail[i].n \in Nat
<1>1. v.prefix \in SUBSET Prefixes /\ v.updated_at \in Nat /\ v.tail \in Seq(Segments)
    BY DEF Versions
<1>2. Len(v.tail) \in Nat /\ \A i \in 1..Len(v.tail) : v.tail[i] \in Segments
    BY <1>1
<1> QED BY <1>1, <1>2, SegmentFields

(* The segments of the suffix chain are segments of the version.           *)
LEMMA SuffixesType ==
    ASSUME NEW v \in Versions
    PROVE  Suffixes(v) \subseteq {v.tail[i] : i \in 1..Len(v.tail)}
BY DEF Suffixes

(* The rounds of a kind are bounded, so each has a greatest one.           *)
LEMMA RoundBound ==
    ASSUME NEW v \in Versions
    PROVE  \E b \in Nat : \A i \in 1..Len(v.tail) : v.tail[i].n <= b
<1>1. Len(v.tail) \in Nat /\ \A i \in 1..Len(v.tail) : v.tail[i].n \in Nat
    BY VersionFields
<1> DEFINE f == [i \in 1..Len(v.tail) |-> v.tail[i].n]
<1>2. f \in [1..Len(v.tail) -> Nat]
    BY <1>1
<1>3. PICK b \in Nat : \A i \in 1..Len(v.tail) : f[i] <= b
  <2> HIDE DEF f
  <2> QED BY <1>1, <1>2, BoundedNats
<1> QED BY <1>3

(* The greatest round of a set of suffixes of a version.                   *)
LEMMA MaxRoundOfSuffixes ==
    ASSUME NEW v \in Versions, NEW kind,
           NEW suffixes \in SUBSET {v.tail[i] : i \in 1..Len(v.tail)}
    PROVE  /\ MaxRoundOf(suffixes, kind) \in Nat
           /\ MaxRoundOf(suffixes, kind) \in RoundsOf(suffixes, kind)
           /\ \A x \in RoundsOf(suffixes, kind) : x <= MaxRoundOf(suffixes, kind)
<1>1. PICK b \in Nat : \A i \in 1..Len(v.tail) : v.tail[i].n <= b
    BY RoundBound
<1>2. \A i \in 1..Len(v.tail) : v.tail[i].n \in Nat
    BY VersionFields
<1> DEFINE Rounds == RoundsOf(suffixes, kind)
<1>3. Rounds \in SUBSET Nat /\ 0 \in Rounds
    BY <1>2 DEF RoundsOf
<1>4. \A x \in Rounds : x <= b
    BY <1>1 DEF RoundsOf
<1>5. MaxRoundOf(suffixes, kind) = MaxNat(Rounds)
    BY DEF MaxRoundOf
<1> HIDE DEF Rounds
<1>6. MaxNat(Rounds) \in Rounds /\ \A x \in Rounds : x <= MaxNat(Rounds)
    BY <1>3, <1>4, MaxNatOfBounded
<1> QED BY <1>3, <1>5, <1>6 DEF Rounds

(* The round getters return naturals.                                      *)
LEMMA RoundTypes ==
    ASSUME NEW v \in Versions
    PROVE  /\ \A kind : max_round(v, kind) \in Nat
           /\ max_timeout_round(v) \in Nat
           /\ \A state : timeout_round(v, state) \in Nat
<1>1. Suffixes(v) \in SUBSET {v.tail[i] : i \in 1..Len(v.tail)}
    BY SuffixesType
<1>2. \A states : TimeoutsOf(Suffixes(v), states) \in SUBSET {v.tail[i] : i \in 1..Len(v.tail)}
    BY <1>1 DEF TimeoutsOf
<1> QED BY <1>1, <1>2, MaxRoundOfSuffixes DEF max_round, max_timeout_round, timeout_round

-----------------------------------------------------------------------------
(* Constructors.                                                           *)

LEMMA EntryType ==
    ASSUME NEW n \in Nat
    PROVE  Entry(n) \in Versions /\ Entry(n).updated_at = n
<1>1. <<>> \in Seq(Segments)
    OBVIOUS
<1>2. {} \in SUBSET Prefixes
    OBVIOUS
<1> QED BY <1>1, <1>2 DEF Entry, Version, Versions

LEMMA PrefixTypes ==
    ASSUME NEW v \in Versions, NEW p \in Prefixes
    PROVE  /\ AddPrefix(v, p) \in Versions
           /\ AddPrefix(v, p).updated_at = v.updated_at
           /\ DropPrefix(v, p) \in Versions
           /\ DropPrefix(v, p).updated_at = v.updated_at
BY DEF AddPrefix, DropPrefix, Version, Versions

(* Changing the tail of a version.                                         *)
LEMMA WithTailType ==
    ASSUME NEW v \in Versions, NEW tail \in Seq(Segments)
    PROVE  /\ WithTail(v, tail) \in Versions
           /\ WithTail(v, tail).tail = tail
           /\ WithTail(v, tail).updated_at = v.updated_at
           /\ WithTail(v, tail).prefix = v.prefix
BY DEF WithTail, Version, Versions

(* Appending a segment.                                                    *)
LEMMA Append1Type ==
    ASSUME NEW v \in Versions, NEW s \in Segments
    PROVE  /\ Append1(v, s) \in Versions
           /\ Append1(v, s).updated_at = v.updated_at
           /\ Append1(v, s).prefix = v.prefix
           /\ Len(Append1(v, s).tail) = Len(v.tail) + 1
           /\ Append1(v, s).tail[Len(v.tail) + 1] = s
           /\ \A i \in 1..Len(v.tail) : Append1(v, s).tail[i] = v.tail[i]
<1>1. v.tail \in Seq(Segments)
    BY VersionFields
<1>2. Append(v.tail, s) \in Seq(Segments)
    BY <1>1
<1>3. /\ Len(Append(v.tail, s)) = Len(v.tail) + 1
      /\ Append(v.tail, s)[Len(v.tail) + 1] = s
      /\ \A i \in 1..Len(v.tail) : Append(v.tail, s)[i] = v.tail[i]
    BY <1>1
<1> DEFINE t == Append(v.tail, s)
<1>4. Append1(v, s) = WithTail(v, t)
    BY DEF Append1
<1> HIDE DEF t
<1>5. /\ WithTail(v, t) \in Versions
      /\ WithTail(v, t).tail = t
      /\ WithTail(v, t).updated_at = v.updated_at
      /\ WithTail(v, t).prefix = v.prefix
    BY <1>2, WithTailType DEF t
<1> QED BY <1>3, <1>4, <1>5 DEF t

LEMMA SegmentType ==
    ASSUME NEW kind \in SuffixKinds \cup {"redrive"}, NEW n \in Nat
    PROVE  /\ Segment(kind, n) \in Segments
           /\ Segment(kind, n).kind = kind
           /\ Segment(kind, n).n = n
BY DEF Segment, Segments, SegmentStates

(* Stripping keeps a prefix of the tail, and drops only the named places.  *)
LEMMA StripWhileType ==
    ASSUME NEW v \in Versions, NEW places
    PROVE  LET w == StripWhile(v, places)
           IN  /\ w \in Versions
               /\ w.updated_at = v.updated_at
               /\ w.prefix = v.prefix
               /\ Len(w.tail) \in 0..Len(v.tail)
               /\ \A i \in 1..Len(w.tail) : w.tail[i] = v.tail[i]
               /\ (Len(w.tail) + 1)..Len(v.tail) \subseteq places
               /\ Len(w.tail) = 0 \/ Len(w.tail) \notin places
<1> DEFINE kept == {0} \cup ((1..Len(v.tail)) \ places)
           m == MaxNat(kept)
           w == StripWhile(v, places)
<1>1. v.tail \in Seq(Segments) /\ Len(v.tail) \in Nat
    BY VersionFields
<1>2. m \in kept /\ \A x \in kept : x <= m
  <2>1. kept \in SUBSET Nat /\ kept # {} /\ \A x \in kept : x <= Len(v.tail)
      BY <1>1
  <2> HIDE DEF kept
  <2> QED BY <2>1, <1>1, MaxNatOfBounded
<1>3. m \in 0..Len(v.tail)
    BY <1>1, <1>2
<1>4. w = WithTail(v, SubSeq(v.tail, 1, m))
    BY DEF StripWhile
<1>5. (m + 1)..Len(v.tail) \subseteq places
  <2> SUFFICES ASSUME NEW i \in (m + 1)..Len(v.tail), i \notin places PROVE FALSE
      OBVIOUS
  <2>1. i \in kept
      BY <1>1, <1>3
  <2> HIDE DEF kept, m
  <2> QED BY <2>1, <1>2, <1>3, <1>1
<1>6. m = 0 \/ m \notin places
    BY <1>2
<1> HIDE DEF m
<1>7. /\ SubSeq(v.tail, 1, m) \in Seq(Segments)
      /\ Len(SubSeq(v.tail, 1, m)) = m
      /\ \A i \in 1..m : SubSeq(v.tail, 1, m)[i] = v.tail[i]
    BY <1>1, <1>3
<1> HIDE DEF w
<1>8. w \in Versions /\ w.tail = SubSeq(v.tail, 1, m) /\ w.updated_at = v.updated_at /\ w.prefix = v.prefix
    BY <1>4, <1>7, WithTailType
<1> QED BY <1>3, <1>5, <1>7, <1>8, <1>6 DEF w

-----------------------------------------------------------------------------
(* The order.                                                              *)

(* A known segment joins the suffix chain, and leaves the rest of it.      *)
LEMMA SuffixesOfAppend ==
    ASSUME NEW v \in Versions, NEW s \in Segments, s.kind # "redrive"
    PROVE  Suffixes(Append1(v, s)) = Suffixes(v) \cup {s}
<1> DEFINE w == Append1(v, s)
           n == Len(v.tail)
<1>1. /\ n \in Nat
      /\ Len(w.tail) = n + 1
      /\ w.tail[n + 1] = s
      /\ \A i \in 1..n : w.tail[i] = v.tail[i]
    BY VersionFields, Append1Type
<1> HIDE DEF w
<1>2. \A i \in 1..n : Known(w, i) <=> Known(v, i)
  <2> SUFFICES ASSUME NEW i \in 1..n PROVE Known(w, i) <=> Known(v, i)
      OBVIOUS
  <2>1. i..(n + 1) = (i..n) \cup {n + 1}
      BY <1>1
  <2>2. \A j \in i..n : w.tail[j] = v.tail[j]
      BY <1>1
  <2> QED BY <1>1, <2>1, <2>2 DEF Known
<1>3. Known(w, n + 1)
  <2>1. (n + 1)..(n + 1) = {n + 1}
      BY <1>1
  <2> QED BY <1>1, <2>1 DEF Known
<1>4. 1..(n + 1) = (1..n) \cup {n + 1}
    BY <1>1
<1>5. Suffixes(w) = {w.tail[i] : i \in {i \in 1..(n + 1) : Known(w, i)}}
    BY <1>1 DEF Suffixes
<1>6. {i \in 1..(n + 1) : Known(w, i)} = {i \in 1..n : Known(v, i)} \cup {n + 1}
    BY <1>2, <1>3, <1>4
<1>7. Suffixes(w) = {w.tail[i] : i \in {i \in 1..n : Known(v, i)}} \cup {w.tail[n + 1]}
    BY <1>5, <1>6
<1>8. {w.tail[i] : i \in {i \in 1..n : Known(v, i)}} = Suffixes(v)
    BY <1>1 DEF Suffixes
<1> QED BY <1>1, <1>7, <1>8 DEF w

(* The rounds of a version with one more known segment.                    *)
LEMMA RoundsOfAppend ==
    ASSUME NEW v \in Versions, NEW s \in Segments, s.kind # "redrive"
    PROVE  LET w == Append1(v, s)
           IN  /\ \A kind : kind # s.kind => max_round(w, kind) = max_round(v, kind)
               /\ s.n >= max_round(v, s.kind) => max_round(w, s.kind) = s.n
               /\ s.kind # "timeout" => max_timeout_round(w) = max_timeout_round(v)
<1> DEFINE w == Append1(v, s)
<1>1. w \in Versions
    BY Append1Type
<1>2. Suffixes(w) = Suffixes(v) \cup {s}
    BY SuffixesOfAppend
<1> HIDE DEF w
<1>3. ASSUME NEW kind, kind # s.kind PROVE max_round(w, kind) = max_round(v, kind)
  <2>1. RoundsOf(Suffixes(w), kind) = RoundsOf(Suffixes(v), kind)
      BY <1>2, <1>3 DEF RoundsOf
  <2> QED BY <2>1 DEF max_round, MaxRoundOf
<1>4. ASSUME s.n >= max_round(v, s.kind) PROVE max_round(w, s.kind) = s.n
  <2> DEFINE old == RoundsOf(Suffixes(v), s.kind)
             new == RoundsOf(Suffixes(w), s.kind)
  <2>1. new = old \cup {s.n}
      BY <1>2 DEF RoundsOf
  <2>2. /\ max_round(v, s.kind) \in Nat
        /\ \A x \in old : x <= max_round(v, s.kind)
      BY SuffixesType, MaxRoundOfSuffixes DEF max_round
  <2>3. /\ max_round(w, s.kind) \in Nat
        /\ max_round(w, s.kind) \in new
        /\ \A x \in new : x <= max_round(w, s.kind)
      BY <1>1, SuffixesType, MaxRoundOfSuffixes DEF max_round
  <2>4. s.n \in Nat
      BY SegmentFields
  <2> HIDE DEF old, new
  <2> QED BY <1>4, <2>1, <2>2, <2>3, <2>4
<1>5. ASSUME s.kind # "timeout" PROVE max_timeout_round(w) = max_timeout_round(v)
  <2>1. TimeoutsOf(Suffixes(w), timeout_order_states) = TimeoutsOf(Suffixes(v), timeout_order_states)
      BY <1>2, <1>5 DEF TimeoutsOf
  <2> QED BY <2>1 DEF max_timeout_round
<1> QED BY <1>3, <1>4, <1>5 DEF w

(* The kinds, other than timeout, whose rounds the order compares.         *)
OrderedKinds ==
    {"loop", "fix", "reimplement", "blocked", "review_meta_action", "review_loop", "ready_split"}

(* A version with more rounds of one kind, and as many of the others, is   *)
(* newer.                                                                  *)
LEMMA MoreRoundsNewer ==
    ASSUME NEW v \in Versions, NEW w \in Versions, NEW kind \in OrderedKinds,
           w.updated_at = v.updated_at,
           max_round(v, kind) < max_round(w, kind),
           \A other \in OrderedKinds : other # kind => max_round(w, other) = max_round(v, other),
           max_timeout_round(w) = max_timeout_round(v)
    PROVE  compare(w, v) = 1
<1>1. w # v
    BY RoundTypes
<1> DEFINE k == version_sort_key(v)
           l == version_sort_key(w)
<1>2. /\ k[1] = v.updated_at
      /\ k[2] = max_round(v, "loop")
      /\ k[3] = max_round(v, "fix")
      /\ k[4] = max_round(v, "reimplement")
      /\ k[5] = max_timeout_round(v)
      /\ k[6] = max_round(v, "blocked")
      /\ k[7] = max_round(v, "review_meta_action")
      /\ k[8] = max_round(v, "review_loop")
      /\ k[9] = max_round(v, "ready_split")
    BY DEF version_sort_key
<1>3. /\ l[1] = w.updated_at
      /\ l[2] = max_round(w, "loop")
      /\ l[3] = max_round(w, "fix")
      /\ l[4] = max_round(w, "reimplement")
      /\ l[5] = max_timeout_round(w)
      /\ l[6] = max_round(w, "blocked")
      /\ l[7] = max_round(w, "review_meta_action")
      /\ l[8] = max_round(w, "review_loop")
      /\ l[9] = max_round(w, "ready_split")
    BY DEF version_sort_key
<1> HIDE DEF k, l
<1>4. \E p \in 1..9 : k[p] < l[p] /\ \A j \in 1..9 : j # p => k[j] = l[j]
  <2>1. \A j \in 1..9 : j \in {1, 2, 3, 4, 5, 6, 7, 8, 9}
      OBVIOUS
  <2>2. CASE kind = "loop"
      BY <2>1, <2>2, <1>2, <1>3 DEF OrderedKinds
  <2>3. CASE kind = "fix"
      BY <2>1, <2>3, <1>2, <1>3 DEF OrderedKinds
  <2>4. CASE kind = "reimplement"
      BY <2>1, <2>4, <1>2, <1>3 DEF OrderedKinds
  <2>5. CASE kind = "blocked"
      BY <2>1, <2>5, <1>2, <1>3 DEF OrderedKinds
  <2>6. CASE kind = "review_meta_action"
      BY <2>1, <2>6, <1>2, <1>3 DEF OrderedKinds
  <2>7. CASE kind = "review_loop"
      BY <2>1, <2>7, <1>2, <1>3 DEF OrderedKinds
  <2>8. CASE kind = "ready_split"
      BY <2>1, <2>8, <1>2, <1>3 DEF OrderedKinds
  <2> QED BY <2>2, <2>3, <2>4, <2>5, <2>6, <2>7, <2>8 DEF OrderedKinds
<1>5. KeyLess(k, l)
    BY <1>4 DEF KeyLess, KeyLen
<1>6. Older(v, w)
    BY <1>5 DEF Older, k, l
<1> QED BY <1>1, <1>6 DEF compare

(* One more round of an ordered kind makes a version newer.                *)
LEMMA AppendedRoundNewer ==
    ASSUME NEW v \in Versions, NEW kind \in OrderedKinds, NEW n \in Nat,
           n > max_round(v, kind)
    PROVE  /\ Append1(v, Segment(kind, n)) \in Versions
           /\ compare(Append1(v, Segment(kind, n)), v) = 1
<1> DEFINE s == Segment(kind, n)
           w == Append1(v, s)
<1>1. kind \in SuffixKinds /\ kind # "redrive" /\ kind # "timeout"
    BY DEF OrderedKinds, SuffixKinds
<1>2. s \in Segments /\ s.kind = kind /\ s.n = n
    BY <1>1, SegmentType
<1>3. max_round(v, kind) \in Nat
    BY RoundTypes
<1> HIDE DEF s
<1>4. w \in Versions /\ w.updated_at = v.updated_at
    BY <1>2, Append1Type
<1>5. /\ \A other : other # kind => max_round(w, other) = max_round(v, other)
      /\ max_round(w, kind) = n
      /\ max_timeout_round(w) = max_timeout_round(v)
    BY <1>1, <1>2, <1>3, RoundsOfAppend
<1> HIDE DEF w
<1>6. compare(w, v) = 1
    BY <1>3, <1>4, <1>5, MoreRoundsNewer
<1> QED BY <1>4, <1>6 DEF w, s

(* A segment that the order does not count leaves the order key alone.     *)
LEMMA UncountedSegment ==
    ASSUME NEW v \in Versions, NEW s \in Segments,
           s.kind \notin OrderedKinds \cup {"timeout", "redrive"}
    PROVE  version_sort_key(Append1(v, s)) = version_sort_key(v)
<1> DEFINE w == Append1(v, s)
<1>1. w.updated_at = v.updated_at
    BY Append1Type
<1>2. /\ \A kind \in OrderedKinds : max_round(w, kind) = max_round(v, kind)
      /\ max_timeout_round(w) = max_timeout_round(v)
    BY RoundsOfAppend
<1> HIDE DEF w
<1>3. version_sort_key(w) = version_sort_key(v)
    BY <1>1, <1>2 DEF version_sort_key, OrderedKinds
<1> QED BY <1>3 DEF w

(* Stripping known segments leaves the others of the suffix chain.         *)
LEMMA StripSuffixes ==
    ASSUME NEW v \in Versions, NEW places,
           \A i \in places : v.tail[i].kind # "redrive"
    PROVE  LET w == StripWhile(v, places)
           IN  /\ Suffixes(w) \subseteq Suffixes(v)
               /\ \A s \in Suffixes(v) : s \in Suffixes(w) \/ \E i \in places : s = v.tail[i]
<1> DEFINE w == StripWhile(v, places)
           n == Len(v.tail)
           m == Len(w.tail)
<1>1. /\ m \in 0..n
      /\ \A i \in 1..m : w.tail[i] = v.tail[i]
      /\ (m + 1)..n \subseteq places
    BY StripWhileType
<1>2. n \in Nat
    BY VersionFields
<1> HIDE DEF w, m
<1>3. \A i \in (m + 1)..n : v.tail[i].kind # "redrive"
    BY <1>1
<1>4. \A i \in 1..m : Known(w, i) <=> Known(v, i)
  <2> SUFFICES ASSUME NEW i \in 1..m PROVE Known(w, i) <=> Known(v, i)
      OBVIOUS
  <2>1. i..n = (i..m) \cup ((m + 1)..n)
      BY <1>1, <1>2
  <2>2. \A j \in i..m : w.tail[j] = v.tail[j]
      BY <1>1, <1>2
  <2> QED BY <1>3, <2>1, <2>2 DEF Known, m
<1>5. Suffixes(w) \subseteq Suffixes(v)
    BY <1>1, <1>2, <1>4 DEF Suffixes, m
<1>6. \A s \in Suffixes(v) : s \in Suffixes(w) \/ \E i \in places : s = v.tail[i]
  <2> SUFFICES ASSUME NEW i \in 1..n, Known(v, i)
               PROVE  v.tail[i] \in Suffixes(w) \/ i \in places
      BY DEF Suffixes
  <2>1. CASE i \in 1..m
      BY <2>1, <1>1, <1>4 DEF Suffixes, m
  <2>2. CASE i \notin 1..m
      BY <2>2, <1>1, <1>2
  <2> QED BY <2>1, <2>2
<1> QED BY <1>5, <1>6 DEF w

(* Stripping segments of one kind changes no round of another kind.        *)
LEMMA StripRounds ==
    ASSUME NEW v \in Versions, NEW kind \in SuffixKinds, NEW places \in SUBSET Places(v, {kind})
    PROVE  LET w == StripWhile(v, places)
           IN  /\ w \in Versions
               /\ w.updated_at = v.updated_at
               /\ \A other : other # kind => max_round(w, other) = max_round(v, other)
               /\ max_round(w, kind) <= max_round(v, kind)
               /\ kind # "timeout" => max_timeout_round(w) = max_timeout_round(v)
<1> DEFINE w == StripWhile(v, places)
<1>1. w \in Versions /\ w.updated_at = v.updated_at
    BY StripWhileType
<1>2. \A i \in places : v.tail[i].kind = kind /\ v.tail[i].kind # "redrive"
    BY DEF Places, SuffixKinds
<1>3. /\ Suffixes(w) \subseteq Suffixes(v)
      /\ \A s \in Suffixes(v) : s \in Suffixes(w) \/ \E i \in places : s = v.tail[i]
    BY <1>2, StripSuffixes
<1> HIDE DEF w
<1>4. \A s \in Suffixes(v) : s \in Suffixes(w) \/ s.kind = kind
    BY <1>2, <1>3
<1>5. ASSUME NEW other, other # kind PROVE max_round(w, other) = max_round(v, other)
  <2>1. RoundsOf(Suffixes(w), other) = RoundsOf(Suffixes(v), other)
      BY <1>3, <1>4, <1>5 DEF RoundsOf
  <2> QED BY <2>1 DEF max_round, MaxRoundOf
<1>6. max_round(w, kind) <= max_round(v, kind)
  <2>1. RoundsOf(Suffixes(w), kind) \subseteq RoundsOf(Suffixes(v), kind)
      BY <1>3 DEF RoundsOf
  <2>2. max_round(w, kind) \in RoundsOf(Suffixes(w), kind)
      BY <1>1, SuffixesType, MaxRoundOfSuffixes DEF max_round
  <2>3. \A x \in RoundsOf(Suffixes(v), kind) : x <= max_round(v, kind)
      BY SuffixesType, MaxRoundOfSuffixes DEF max_round
  <2> QED BY <2>1, <2>2, <2>3
<1>7. ASSUME kind # "timeout" PROVE max_timeout_round(w) = max_timeout_round(v)
  <2>1. TimeoutsOf(Suffixes(w), timeout_order_states) = TimeoutsOf(Suffixes(v), timeout_order_states)
      BY <1>3, <1>4, <1>7 DEF TimeoutsOf
  <2> QED BY <2>1 DEF max_timeout_round
<1> QED BY <1>1, <1>5, <1>6, <1>7 DEF w

(* A next blocked version is newer although blocked rounds are stripped.   *)
LEMMA NextBlockedNewer ==
    ASSUME NEW v \in Versions
    PROVE  next_blocked(v) \in Versions /\ compare(next_blocked(v), v) = 1
<1> DEFINE u == strip_trailing_blocked_suffixes(v)
           n == max_round(v, "blocked") + 1
           s == Segment("blocked", n)
           w == Append1(u, s)
<1>1. /\ u \in Versions
      /\ u.updated_at = v.updated_at
      /\ \A kind : kind # "blocked" => max_round(u, kind) = max_round(v, kind)
      /\ max_round(u, "blocked") <= max_round(v, "blocked")
      /\ max_timeout_round(u) = max_timeout_round(v)
  <2>1. Places(v, {"blocked"}) \in SUBSET Places(v, {"blocked"}) /\ "blocked" \in SuffixKinds
      BY DEF SuffixKinds
  <2> QED BY <2>1, StripRounds DEF strip_trailing_blocked_suffixes
<1>2. max_round(v, "blocked") \in Nat /\ max_round(u, "blocked") \in Nat /\ n \in Nat
    BY <1>1, RoundTypes
<1>3. s \in Segments /\ s.kind = "blocked" /\ s.n = n
    BY <1>2, SegmentType DEF SuffixKinds
<1> HIDE DEF u
<1>4. next_blocked(v) = w
    BY DEF next_blocked, blocked_at, u
<1> HIDE DEF s
<1>5. w \in Versions /\ w.updated_at = v.updated_at
    BY <1>1, <1>3, Append1Type
<1>6. /\ \A kind : kind # "blocked" => max_round(w, kind) = max_round(v, kind)
      /\ max_round(w, "blocked") = n
      /\ max_timeout_round(w) = max_timeout_round(v)
    BY <1>1, <1>2, <1>3, RoundsOfAppend
<1> HIDE DEF w
<1>7. compare(w, v) = 1
    BY <1>2, <1>5, <1>6, MoreRoundsNewer DEF OrderedKinds
<1> QED BY <1>4, <1>5, <1>7

(* A next re-review is a next review loop and a segment behind it.         *)
LEMMA NextRereviewNewer ==
    ASSUME NEW v \in Versions
    PROVE  next_rereview(v) \in Versions /\ compare(next_rereview(v), v) = 1
<1> DEFINE n == max_round(v, "review_loop") + 1
           u == Append1(v, Segment("review_loop", n))
           s == Segment("rereview", n)
           w == Append1(u, s)
<1>1. max_round(v, "review_loop") \in Nat /\ n \in Nat
    BY RoundTypes
<1>2. u \in Versions /\ compare(u, v) = 1
    BY <1>1, AppendedRoundNewer DEF OrderedKinds
<1>3. s \in Segments /\ s.kind = "rereview"
    BY <1>1, SegmentType DEF SuffixKinds
<1>4. next_rereview(v) = w
    BY DEF next_rereview, rereview_at, review_loop_at
<1>5. Len(w.tail) = Len(v.tail) + 2
  <2>1. Len(u.tail) = Len(v.tail) + 1
      BY <1>1, SegmentType, Append1Type DEF SuffixKinds
  <2>2. Len(w.tail) = Len(u.tail) + 1
    <3> HIDE DEF u, s
    <3> QED BY <1>2, <1>3, Append1Type
  <2>3. Len(v.tail) \in Nat
      BY VersionFields
  <2> QED BY <2>1, <2>2, <2>3
<1> HIDE DEF u, s
<1>6. w \in Versions /\ version_sort_key(w) = version_sort_key(u)
    BY <1>2, <1>3, Append1Type, UncountedSegment DEF OrderedKinds
<1> HIDE DEF w
<1>7. w # v
    BY <1>5, VersionFields
<1>8. Older(v, u)
    BY <1>2 DEF compare
<1>9. Older(v, w)
    BY <1>6, <1>8 DEF Older
<1> QED BY <1>4, <1>6, <1>7, <1>9 DEF compare

-----------------------------------------------------------------------------
(* Order keys that decide a comparison either way.                         *)

LEMMA KeyFields ==
    ASSUME NEW v \in Versions
    PROVE  LET k == version_sort_key(v)
           IN  /\ k[1] = v.updated_at
               /\ k[2] = max_round(v, "loop")
               /\ k[3] = max_round(v, "fix")
               /\ k[4] = max_round(v, "reimplement")
               /\ k[5] = max_timeout_round(v)
               /\ k[6] = max_round(v, "blocked")
               /\ k[7] = max_round(v, "review_meta_action")
               /\ k[8] = max_round(v, "review_loop")
               /\ k[9] = max_round(v, "ready_split")
               /\ \A i \in 1..9 : k[i] \in Nat
<1> DEFINE k == version_sort_key(v)
<1>1. v.updated_at \in Nat
    BY VersionFields
<1>2. (\A kind : max_round(v, kind) \in Nat) /\ max_timeout_round(v) \in Nat
    BY RoundTypes
<1>3. /\ k[1] = v.updated_at
      /\ k[2] = max_round(v, "loop")
      /\ k[3] = max_round(v, "fix")
      /\ k[4] = max_round(v, "reimplement")
      /\ k[5] = max_timeout_round(v)
      /\ k[6] = max_round(v, "blocked")
      /\ k[7] = max_round(v, "review_meta_action")
      /\ k[8] = max_round(v, "review_loop")
      /\ k[9] = max_round(v, "ready_split")
    BY DEF version_sort_key
<1>4. \A i \in 1..9 : i \in {1, 2, 3, 4, 5, 6, 7, 8, 9}
    OBVIOUS
<1> HIDE DEF k
<1>5. \A i \in 1..9 : k[i] \in Nat
    BY <1>1, <1>2, <1>3, <1>4
<1> QED BY <1>3, <1>5 DEF k

(* A version is not newer than one with the same key, whatever the texts.  *)
LEMMA SameKeyNotNewer ==
    ASSUME NEW v \in Versions, NEW w \in Versions, version_sort_key(w) = version_sort_key(v)
    PROVE  compare(w, v) # 1
<1>1. ~Older(v, w)
  <2> DEFINE k == version_sort_key(v)
  <2>1. \A i \in 1..9 : k[i] \in Nat
      BY KeyFields
  <2> HIDE DEF k
  <2>2. ~KeyLess(k, k)
      BY <2>1 DEF KeyLess, KeyLen
  <2> QED BY <2>2 DEF Older, k
<1> QED BY <1>1 DEF compare

(* A next timeout drops the trailing timeouts of its state and no round of *)
(* any other kind or state.                                                *)
LEMMA NextTimeoutRounds ==
    ASSUME NEW v \in Versions, NEW state \in timeout_order_states
    PROVE  LET w == next_timeout(v, state)
               t == timeout_round(v, state)
           IN  /\ w \in Versions
               /\ w.updated_at = v.updated_at
               /\ \A kind \in OrderedKinds : max_round(w, kind) = max_round(v, kind)
               /\ t \in Nat /\ t <= max_timeout_round(v)
               /\ t = max_timeout_round(v) => max_timeout_round(w) = t + 1
               /\ t < max_timeout_round(v) => max_timeout_round(w) = max_timeout_round(v)
<1> DEFINE places == {i \in Places(v, {"timeout"}) : v.tail[i].state = state}
           u == StripWhile(v, places)
           t == timeout_round(v, state)
           s == [kind |-> "timeout", state |-> state, n |-> t + 1]
           w == Append1(u, s)
           Of(x) == TimeoutsOf(Suffixes(x), timeout_order_states)
<1>1. t \in Nat /\ max_timeout_round(v) \in Nat
    BY RoundTypes
<1>2. s \in Segments /\ s.kind = "timeout" /\ s.state = state /\ s.n = t + 1
    BY <1>1 DEF Segments, SuffixKinds, SegmentStates
<1>3. next_timeout(v, state) = w
    BY DEF next_timeout, timeout_at
<1>4. places \in SUBSET Places(v, {"timeout"}) /\ "timeout" \in SuffixKinds
    BY DEF SuffixKinds
<1>5. \A i \in places : v.tail[i].kind = "timeout" /\ v.tail[i].state = state
    BY DEF Places
<1> HIDE DEF places
<1>6. /\ u \in Versions /\ u.updated_at = v.updated_at
      /\ \A other : other # "timeout" => max_round(u, other) = max_round(v, other)
    BY <1>4, StripRounds
<1>7. /\ Suffixes(u) \subseteq Suffixes(v)
      /\ \A x \in Suffixes(v) : x \in Suffixes(u) \/ \E i \in places : x = v.tail[i]
    BY <1>5, StripSuffixes
<1> HIDE DEF u, s
<1>8. /\ w \in Versions /\ w.updated_at = v.updated_at
      /\ \A kind : kind # "timeout" => max_round(w, kind) = max_round(v, kind)
    BY <1>2, <1>6, Append1Type, RoundsOfAppend
<1>9. Suffixes(w) = Suffixes(u) \cup {s}
    BY <1>2, <1>6, SuffixesOfAppend
<1> HIDE DEF w
<1>10. Of(u) \subseteq Of(v) /\ Of(w) = Of(u) \cup {s}
    BY <1>2, <1>7, <1>9 DEF TimeoutsOf
<1>11. \A x \in Of(v) : x \in Of(u) \/ x \in TimeoutsOf(Suffixes(v), {state})
    BY <1>5, <1>7 DEF TimeoutsOf
<1>12. TimeoutsOf(Suffixes(v), {state}) \subseteq Of(v)
    BY DEF TimeoutsOf
<1> DEFINE R(x) == RoundsOf(x, "timeout")
<1>13. /\ max_timeout_round(v) \in R(Of(v))
       /\ \A x \in R(Of(v)) : x <= max_timeout_round(v)
  <2>1. Of(v) \in SUBSET {v.tail[i] : i \in 1..Len(v.tail)}
      BY SuffixesType DEF TimeoutsOf
  <2> QED BY <2>1, MaxRoundOfSuffixes DEF max_timeout_round
<1>14. /\ max_timeout_round(w) \in R(Of(w)) /\ max_timeout_round(w) \in Nat
       /\ \A x \in R(Of(w)) : x <= max_timeout_round(w)
  <2>1. Of(w) \in SUBSET {w.tail[i] : i \in 1..Len(w.tail)}
      BY <1>8, SuffixesType DEF TimeoutsOf
  <2> QED BY <1>8, <2>1, MaxRoundOfSuffixes DEF max_timeout_round
<1>15. /\ t \in R(TimeoutsOf(Suffixes(v), {state}))
       /\ \A x \in R(TimeoutsOf(Suffixes(v), {state})) : x <= t
  <2>1. TimeoutsOf(Suffixes(v), {state}) \in SUBSET {v.tail[i] : i \in 1..Len(v.tail)}
      BY SuffixesType DEF TimeoutsOf
  <2> QED BY <2>1, MaxRoundOfSuffixes DEF timeout_round
<1> HIDE DEF t
<1>16. /\ R(TimeoutsOf(Suffixes(v), {state})) \subseteq R(Of(v))
       /\ R(Of(w)) = R(Of(u)) \cup {t + 1}
       /\ R(Of(u)) \subseteq R(Of(v))
       /\ \A x \in R(Of(v)) : x \in R(Of(u)) \/ x \in R(TimeoutsOf(Suffixes(v), {state}))
    BY <1>2, <1>10, <1>11, <1>12 DEF RoundsOf
<1> HIDE DEF Of, R
<1>17. t <= max_timeout_round(v)
    BY <1>13, <1>15, <1>16
<1>18. R(Of(v)) \subseteq Nat
  <2>1. \A x \in Of(v) : x.n \in Nat
      BY VersionFields, SuffixesType DEF Of, TimeoutsOf
  <2> QED BY <2>1 DEF R, RoundsOf
<1>19. ASSUME t = max_timeout_round(v) PROVE max_timeout_round(w) = t + 1
    BY <1>1, <1>13, <1>14, <1>16, <1>18, <1>19
<1>20. ASSUME t < max_timeout_round(v) PROVE max_timeout_round(w) = max_timeout_round(v)
  <2> DEFINE M == max_timeout_round(v)
             N == max_timeout_round(w)
  <2>1. M \in R(Of(u))
    <3>1. M \notin R(TimeoutsOf(Suffixes(v), {state}))
        BY <1>1, <1>15, <1>20
    <3> QED BY <1>13, <1>16, <3>1
  <2>2. M <= N /\ M \in Nat /\ N \in Nat
      BY <1>1, <1>14, <1>16, <2>1
  <2>3. N = t + 1 \/ N <= M
      BY <1>13, <1>14, <1>16
  <2> HIDE DEF M, N
  <2>4. N = M
      BY <1>1, <1>20, <2>2, <2>3 DEF M
  <2> QED BY <2>4 DEF M, N
<1> QED BY <1>1, <1>3, <1>8, <1>17, <1>19, <1>20 DEF t, OrderedKinds

(* A next timeout is newer exactly when its state has timed out as often   *)
(* as any.                                                                 *)
LEMMA NextTimeoutNewer ==
    ASSUME NEW v \in Versions, NEW state \in timeout_order_states
    PROVE  compare(next_timeout(v, state), v) = 1
               <=> timeout_round(v, state) = max_timeout_round(v)
<1> DEFINE w == next_timeout(v, state)
           t == timeout_round(v, state)
           M == max_timeout_round(v)
           k == version_sort_key(v)
           l == version_sort_key(w)
<1>1. /\ w \in Versions
      /\ w.updated_at = v.updated_at
      /\ \A kind \in OrderedKinds : max_round(w, kind) = max_round(v, kind)
      /\ t \in Nat /\ t <= M
      /\ t = M => max_timeout_round(w) = t + 1
      /\ t < M => max_timeout_round(w) = M
    BY NextTimeoutRounds
<1>2. M \in Nat
    BY RoundTypes
<1> HIDE DEF w, t
<1>3. \A i \in 1..9 : i # 5 => l[i] = k[i]
  <2>1. \A i \in 1..9 : i \in {1, 2, 3, 4, 5, 6, 7, 8, 9}
      OBVIOUS
  <2> QED BY <1>1, <2>1, KeyFields DEF OrderedKinds
<1>4. k[5] = M /\ l[5] = max_timeout_round(w)
    BY <1>1, KeyFields
<1>5. CASE t = M
  <2> HIDE DEF k, l
  <2>1. k[5] < l[5]
      BY <1>1, <1>2, <1>4, <1>5
  <2>2. KeyLess(k, l)
      BY <1>3, <2>1 DEF KeyLess, KeyLen
  <2>3. w # v
      BY <1>1, <1>2, <1>5
  <2>4. compare(w, v) = 1
      BY <2>2, <2>3 DEF compare, Older, k, l
  <2> QED BY <1>5, <2>4 DEF w, t
<1>6. CASE t < M
  <2>1. version_sort_key(w) = version_sort_key(v)
      BY <1>1, <1>6 DEF version_sort_key, OrderedKinds
  <2>2. compare(w, v) # 1
      BY <1>1, <2>1, SameKeyNotNewer
  <2> QED BY <1>1, <1>2, <1>6, <2>2 DEF w, t
<1> QED BY <1>1, <1>2, <1>5, <1>6

(* Once all suffixes are stripped no round is left.                        *)
LEMMA StrippedRounds ==
    ASSUME NEW v \in Versions
    PROVE  LET u == strip_suffixes(v)
           IN  /\ u \in Versions /\ u.updated_at = v.updated_at
               /\ \A kind : max_round(u, kind) = 0
               /\ max_timeout_round(u) = 0
<1> DEFINE u == strip_suffixes(v)
           m == Len(u.tail)
<1>1. /\ u \in Versions /\ u.updated_at = v.updated_at
      /\ m \in 0..Len(v.tail)
      /\ \A i \in 1..m : u.tail[i] = v.tail[i]
      /\ m = 0 \/ m \notin Places(v, SuffixKinds)
    BY StripWhileType DEF strip_suffixes
<1>2. Len(v.tail) \in Nat /\ \A i \in 1..Len(v.tail) : v.tail[i] \in Segments
    BY VersionFields
<1> HIDE DEF u
<1>3. m = 0 \/ (m \in 1..m /\ u.tail[m].kind = "redrive")
    BY <1>1, <1>2, SegmentFields DEF Places
<1>4. \A i \in 1..m : ~Known(u, i)
    BY <1>1, <1>2, <1>3 DEF Known
<1>5. Suffixes(u) = {}
    BY <1>4 DEF Suffixes
<1>6. MaxNat({0}) = 0
    BY DEF MaxNat
<1>7. \A kind : MaxRoundOf({}, kind) = 0
  <2>1. \A kind : RoundsOf({}, kind) = {0}
      BY DEF RoundsOf
  <2> QED BY <1>6, <2>1 DEF MaxRoundOf
<1>8. TimeoutsOf({}, timeout_order_states) = {}
    BY DEF TimeoutsOf
<1> QED BY <1>1, <1>5, <1>7, <1>8 DEF max_round, max_timeout_round, u

(* A ready split is newer exactly when there was no other round to strip.  *)
LEMMA NextReadySplitNewer ==
    ASSUME NEW v \in Versions
    PROVE  compare(next_ready_split(v), v) = 1
               <=> \A i \in 2..(KeyLen - 1) : version_sort_key(v)[i] = 0
<1> DEFINE u == strip_suffixes(v)
           r == max_round(v, "ready_split")
           s == Segment("ready_split", r + 1)
           w == Append1(u, s)
           k == version_sort_key(v)
           l == version_sort_key(w)
<1>1. r \in Nat
    BY RoundTypes
<1>2. s \in Segments /\ s.kind = "ready_split" /\ s.n = r + 1
    BY <1>1, SegmentType DEF SuffixKinds
<1>3. next_ready_split(v) = w
    BY DEF next_ready_split
<1>4. /\ u \in Versions /\ u.updated_at = v.updated_at
      /\ \A kind : max_round(u, kind) = 0
      /\ max_timeout_round(u) = 0
    BY StrippedRounds
<1> HIDE DEF u, s, r
<1>5. /\ w \in Versions /\ w.updated_at = v.updated_at
      /\ \A kind : kind # "ready_split" => max_round(w, kind) = 0
      /\ max_round(w, "ready_split") = r + 1
      /\ max_timeout_round(w) = 0
    BY <1>1, <1>2, <1>4, Append1Type, RoundsOfAppend
<1> HIDE DEF w
<1>6. /\ l[1] = k[1] /\ k[9] = r /\ l[9] = r + 1
      /\ \A i \in 2..8 : l[i] = 0
  <2>1. \A i \in 2..8 : i \in {2, 3, 4, 5, 6, 7, 8}
      OBVIOUS
  <2> QED BY <1>5, <2>1, KeyFields DEF r
<1>7. \A i \in 1..9 : k[i] \in Nat
    BY KeyFields
<1>8. w # v
    BY <1>1, <1>5 DEF r
<1> HIDE DEF k, l
<1>9. KeyLess(k, l) <=> \A i \in 2..8 : k[i] = 0
  <2>1. ASSUME \A i \in 2..8 : k[i] = 0 PROVE KeyLess(k, l)
    <3>1. k[9] < l[9] /\ \A j \in 1..8 : k[j] = l[j]
        BY <1>1, <1>6, <2>1
    <3>2. 9 \in 1..KeyLen /\ 1..(9 - 1) = 1..8
        BY DEF KeyLen
    <3> QED BY <3>1, <3>2 DEF KeyLess
  <2>2. ASSUME KeyLess(k, l) PROVE \A i \in 2..8 : k[i] = 0
    <3>1. PICK p \in 1..9 : k[p] < l[p] /\ \A j \in 1..(p - 1) : k[j] = l[j]
        BY <2>2 DEF KeyLess, KeyLen
    <3>2. p = 9
        BY <1>6, <1>7, <3>1
    <3> QED BY <1>6, <3>1, <3>2
  <2> QED BY <2>1, <2>2
<1>10. compare(w, v) = 1 <=> KeyLess(k, l)
  <2>1. Older(v, w) <=> KeyLess(k, l)
      BY DEF Older, k, l
  <2> QED BY <1>8, <2>1 DEF compare
<1> QED BY <1>3, <1>9, <1>10 DEF k, KeyLen

=============================================================================
