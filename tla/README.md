# Verification of the fkst-packages development loop

`fkst-packages` is a library of Lua packages that run on the `fkst-substrate`
engine. Its core is the GitHub development loop: an issue is observed, argued
about by a consensus of language-model runs, approved or declined, held until
its dependencies are done, implemented, reviewed and merged. Around it stand
Python tools that guard the repository itself: some fifty gates that CI runs on
every pull request, and a tool that cuts the debt the gates have listed into
migration issues. This directory holds TLA+ modules that model the loop and
these tools, TLC configurations that check them on small instances, and proofs
that TLAPS checks.

Three parts are covered:

1. one issue from its first observation to the start of its implementation, and
   the version order on which every compare-and-set of the loop rests;
2. the ratchet migration slicer, which talks to GitHub one command at a time and
   must survive failures between any two of them;
3. the repository's gates, over histories of pull requests that are edited,
   brought up to date and landed while other pull requests land.

## The system

### How it works

* **Engine** (not in the repository). Delivers events of named queues to
  *departments*, at least once; a department that raises an error gets its
  event again, up to a number of attempts, then the event is dead-lettered.
  Raises are published one by one.
* **Departments** are stateless handlers. The only durable state is GitHub's:
  the comments of the issue, in which *state markers* carry a state and a
  *transition version*. Each handler takes a lock, reads the issue, derives the
  current state, decides a compare-and-set and raises requests.
* **github-proxy** writes the requested comments later, under its own lock,
  unless a trusted comment with the same dedup marker exists. A request may
  carry a *hand-off*: the proxy then reports the id of the comment, new or old,
  and `comment_handoff` turns the report into the next event.

So a lock covers a decision but not its effect. Between the two, any other
handler may decide on the same old state.

The Python tools have no lock at all:

* **`scripts/check_repo.py`** runs the gates on a checkout. Most gates are
  *ratchets*: they find debt in the sources, compare it with an allowlist under
  `migration/`, and compare the list with the same list at the merge base with
  `dev`, so that it only shrinks. The restart gates compare whole trees with the
  base: which files change together, which manifest describes the change. A
  verdict is about one branch and one base; what lands is a merge with a `dev`
  that has moved on.
* **`ratchet_migration_slicer.py --reconcile`** reads an allowlist and files an
  issue for its first entries, unless the ledger in the comments of the parent
  issue or an open issue shows that they are owned. When the list is empty it
  closes the parent. Its state is GitHub's: comments, issues and a search index
  that lags.

### Components

| Component | State | Operations | Hard behaviour | What makes it correct |
|---|---|---|---|---|
| transition versions (`libraries/contract/transition_version.lua`) | none | parse, compare, strip, next round of each kind | unknown segments, several counters in one text | a next version is newer |
| lifecycle states and CAS (`libraries/devloop/state*.lua`, `restart_cas_catalog.lua`) | markers in comments | derive state; plain, versioned, implement decisions | stale versions, markers not visible yet | no regression, no lost step |
| consensus library | result memo on local disk | reach, defer, converge | worker lost after deciding, second run | one decision per lineage |
| observe_issue, execute_start | – | entry, replay of thinking, ready and dependency_wait | replays race with events in flight | an issue never stays behind |
| consensus_result | – | divergence, result and hold comments | partial effects, two identities of a result | a decided issue gets its decision |
| loop, reconcile | round comments | record a round, next round, drop | records lag behind rounds | no gap, drop exactly on a stall |
| ready split | hold, release, split comments | hold, release, block, redrive | keys shared by hold and release | an approved issue starts |
| implement (start) | – | decide, recheck, write marker | two locked sections, WIP limit, lagging reads | only approved work starts |
| comment writer, comment_handoff | – | deduplicated write, report | redelivery, reports of older comments | events are grounded |
| migration slicer (`ratchet_migration_slicer.py`) | ledger comments, slice issues | view, search, intent, create, record, close | a crash between two commands, unknown numbers, lagging search, moved lines | one owner per entry, no leftover stops the next run |
| base and lists (`ratchet_base.py`, `check_repo_config.py`) | – | resolve the base, read a list at it, compare | unresolved refs, absent lists | no list grows |
| restart gates (`check_repo_restart_preflight.py`, `check_repo_intent_bounded_replay.py`, `check_repo_restart_lifecycle.py`) | grants, manifests, attestations, inventory | judge a branch against its base | stale manifests, grants that admit themselves, half a transport | what lands is what was declared |
| graph gates (cycles, layering, forge imports, integration, liveness, intake, dialogue) | lists | find, compare | graph search, topologies | nothing is missed, nothing grows |
| source gates (monotone, truncation, egress, handles, locks, dedup, logins) | lists | scan, compare | scopes, moved code | moved debt is the same debt |
| debt lists (coverage, error class, suffix, failure surface, saga, hidden state, saga split, tests) | lists, artifact | scan, compare, write baseline | multiplicity, deferred runs | debt only shrinks |
| implement attempts, PR lifecycle, merge queue, claims, timeouts, intake, decompose, workflow, integration, poller | see `PROJECT.json` | – | – | not modelled yet |

`PROJECT.json` lists every component with its sources and the reason when it is
left out, the hazards with their lines, and the map from definitions to code.

## Modules

| Module | Contents |
|---|---|
| `TransitionVersion` | versions as records (prefix, `updated_at`, segments); parsing, `compare`, every `strip_*`, `next_*` and `*_at` |
| `VersionWalk` | a version to which any constructor may be applied; which results are newer |
| `CasCatalog` | state graph, ranks, `current_state`, `can_reach`, `plain_status`, `versioned_status`, `resolve_implement` |
| `IssueLifecycle` | the departments, the proxy, the consensus memo, delivery and environment of one issue |
| `DecisionRegister` | the abstract promise: a write-once register of decisions, and starts only of approved generations |
| `MigrationSlicer` | the slicer, command by command, and everyone else on GitHub |
| `RatchetBase` | trees, base resolution, allowlists, the shrink-only comparison |
| `RestartGates` | preflight, intent-bounded replay with admission traces, lifecycle inventory |
| `GraphGates` | require cycles, layering, forge imports, integration edges, producer liveness, intake routing, queue dialogue |
| `SourceGates` | monotone reads, truncation, gh egress, handle construction, lock scope, duplicates, bot logins |
| `RatchetGates` | coverage, error classes, version suffixes, failure surface, saga handlers, hidden state, saga split, tests, exit codes |
| `RepoScenarios` | for each gate a small repository, the edits a branch may make, and the checkouts CI may have |
| `RepoHistory` | pull requests against `dev`: open, edit, sign, attest, update, land |
| `VersionLemmas`, `VersionWalkProofs` | lemmas about the order; type correctness of the walk, and when each constructor yields a newer version |
| `IssueLifecycleProofs` | type correctness of the lifecycle; what a delivery does to the queues; agreement of the results of one lineage; rounds without a gap, drops after the rounds |
| `StartProofs` | ready events are grounded, starts are approved, the refinement of `DecisionRegister` |
| `SlicerProofs` | the safety properties of the slicer |
| `CycleProofs` | what the search for require cycles computes, for every graph |
| `ScopeProofs` | what the gates know of Lua source: what the login gate's stack of scopes says, for every file whose blocks nest; that a line that says nothing moves blocks and sites and changes none |
| `RepoProofs` | what the gates promise of the history of `dev` |

### From code to model

* A **version** text such as `consensus:<issue>@<updated_at>/loop/2` is a record:
  the set of prefixes, the timestamp as a number, and the sequence of segments.
  Segments keep their kind, state and number. `/redrive/ready/<n>` is the one
  segment the parser does not know.
* `comments` is the sequence of trusted comments in creation order. A comment
  has the key of its dedup marker, its state marker and the decision or round it
  records. `visible` is how long a prefix a list read returns; a read of a
  comment by its id does not lag, and the proxy's own dedup read sees its writes.
* `queues` holds the undelivered events of each queue as a set.
* `Handle` is a handler's delivery. Either all raises are published and the
  event is acknowledged, or a fault occurs: some of the raises are published and
  the event stays. `DeadLetter` is a handler whose every attempt fails; waiting
  in the queue stands for the retries before.
* Where a handler releases its lock or runs consensus in between, the work it
  holds in memory is a message of an internal queue: `reached` (a decision that
  `consensus_result` is about to apply) and `plan` (a start between the two
  locked sections of `implement`). `Work` is the second half: if it fails, the
  work is gone and the original event is delivered again.
* Consensus itself is a nondeterministic choice of an outcome. `memo` is the
  result memo; with `MemoVolatile` it may lose entries.
* `gate` and `wip_free` are the answers of the dependency gate and the WIP
  count. They start arbitrarily; the gate changes at most `MaxFlips` times, capacity
  any number of times.
* A hand-off carries two versions: the one of the comment's marker, which is the
  version of the delivery's effect, and the dedup key of the consensus. The ready
  event is raised for the first (`comment_handoff/main.lua:128`); they differ when
  the delivery has an effect identity of its own.
* Labels are hints that handlers write and read; the model chooses freely
  whether the labels a handler looks for are there (`labelled`).

Left out of the modelled departments: author, claim and closed-issue checks
(assumed to pass), operator commands other than the start, slice and fork gates,
timeouts (so every redrive of a ready issue is the first), the note of a release,
and everything after the implementing marker.

For the tools:

* A **tree** is a set of facts `<<file, line>>`. The set of a file's lines stands
  for its content, its blob and its hash: equal hashes are equal contents, and
  the rest of hashing and canonical JSON is left out. A merge is git's three-way
  merge on facts.
* A **line of Lua** is the function it opens, its change of block depth and the
  tokens a gate looks for. What a regular expression accepts is left out; which
  lines it is applied to, in which block, with which context, is kept. Line
  numbers are counted, so a line put in above moves the lines below, and gates
  that key by number see that. The variables of a `for` are declarations of
  Lua's; that the login gate's own scopes do not have them is part of the gate.
* A **gate** is an operator from a case (base, head, tip of the target, log,
  attestations, artifact, whether the base resolved) to a set of messages named
  for their kind. `Land` needs the exit code of the gate's messages to be zero.
  One gate is in focus in a behaviour; the gates share no state but the tree.
* The environment variables of the resolvers and the refs that resolve are the
  checkouts of `RepoScenarios`: a pull request's, one whose base was not
  fetched, one whose override names nothing, one with nothing set.
* In `MigrationSlicer` each GitHub command is an action. A command that fails
  after it took effect is the command followed by `CommandFails`. A slice's key
  is its sites with their lines; an entry key is the entry.

## Runs

Bounds of the `issue_` runs are the constants of `IssueLifecycle`: `MaxFaults` redeliveries, lagging
writes, lost workers and lost memo entries, `MaxFlips` changes of the gate, `MaxEdits` edits and operator starts, `MaxRound` rounds that may fail
to converge. Deadlock is not checked for the lifecycle: an issue that is declined,
blocked or implementing has nothing left to do here.

| Run | Bounds | Checks | Result |
|---|---|---|---|
| `version_walk` | 4 constructors, rounds to 2 | `TypeOK`, `BumpsAreNewer`, `TimeoutsAreNewer`, `SplitsAreNewer` | a next round is always newer; a next timeout exactly when no other state timed out more often; a ready-split exactly when there are no other rounds |
| `issue_start` | 2 faults, memo kept, both kinds of replay | `TypeOK`, `ImplementOnlyApproved`, `ReadyEventsGrounded`, `RegisterRefinement` | holds |
| `issue_decision` | 1 edit or operator start, 1 fault, entry and decision only | `ResultsAgree` | holds |
| `issue_convergence` | 4 rounds, consensus never decides | `RoundsGapless`, `DropFollowsRounds`, `StallIsDropped` | holds |
| `issue_recovery` | 1 fault, memo may be lost, fair | `ThinkingIsDecided` | holds |
| `issue_release` | approved after up to 1 round, 1 change of the gate, capacity free to change, fair | `ApprovedStarts` | holds, with the two exclusions below |
| `issue_split` | 1 round, 1 flip | `SplitBumps` | violated, see below |
| `issue_redrive` | 1 round | `RedriveActionable` | violated, see below |
| `slicer` | one runner, one entry, slices of 1 and 2 sites, each ratchet, 3 events | `OneOwner`, `SliceIntended`, `ClosedMeansDone`, `RenderedRunsSettle` | holds |
| `slicer_default` | two entries, slice size 3, no events | `RunsSettle` | violated, see below |
| `repo_gates` | 2 branches, 3 edits, 2 landings, 29 focuses | the thirteen properties below | holds |
| `repo_comments` | the library error gate, 2 branches, 3 edits | `CommentsMoveErrors` | violated, see below |

Two faults are enough for the shortest harmful patterns: a redelivery of an
event whose effects are partly done, together with a lagging read or a second
redelivery. Four rounds are one more than a stall needs. One edit
or start gives a second entry, the least that produces a result under both
identities. `issue_release` starts where the result comment of an approval is
written, for an issue approved at once or after a round, with any gate and any
capacity; the gate changes once, to a hold or a release, and capacity any number
of times, so that each ready event may meet a full limit.

Two things are outside these bounds and proved for all of them instead. In
`issue_start` the issue is neither held nor decided anew between the two sections
of `implement`; `StartsAreApproved` and `ImplementsRegister` cover that. In
`issue_convergence` there is one generation, so no continue event of an older one
arrives; `RoundsHaveNoGap` and `DropsFollowRounds` cover that.

`issue_decision`, `issue_convergence` and `issue_release` use next-state relations
of their own (`NextDecision`, `NextConvergence`, `NextRelease`), which leave out the departments that come
into play only after, or instead of, what the run is about. Their initial states
(`InitDecision`, `InitConvergence`) leave out only choices these steps cannot
tell apart: the decision distinguishes a satisfied gate from any other, so
`blocked` adds nothing to `waiting`; a consensus that never decides reads no
gate; and the WIP capacity is read by `implement` alone. `ResultsAgree` is
proved for the whole `Spec`.

`ReadyEventsGrounded`, `ImplementOnlyApproved` and the refinement are claimed
with a durable memo only (`MemoVolatile = FALSE`). When the memo is lost, a
second run may reject what was approved, and a deduplicated request then reports
a declined comment. With two edits and three faults this reaches `implement`: an
issue is thinking in generation 1; it is edited and an operator starts
generation 2, which is approved, with the event redelivered; the memo is lost
and the second run rejects generation 2, while generation 1 is approved and
visible; the rejection is written and lags; the skipped request of the approval
then reports the rejection's comment, and `implement`, which sees generation 1
ready, starts generation 2, for which no approval was ever written. The memo is
a file on the worker's disk, so this needs the disk to be lost in between.

For the slicer one event is a failed command, an unprinted number, a late
index, a moved line, an entry left listed without its code, an issue closed
undone, a copied or a legacy marker; three of them make every pair, such as a lost
record together with moved lines, and one more behind it. One entry is enough for two owners of an
entry, and an entry of `code-dedup` has two sites. Deadlock is not checked:
nothing has to happen once the debt is gone. `RenderedRunsSettle` is about a run
with writes during which no event happens: whatever earlier runs left on GitHub,
it closes the parent, or ends with the debt of its slice gone or owned by an open
issue, unless a record of that slice is still without a number and young. That
the debt is retired in the end is not claimed: nothing in the repository
schedules `--reconcile`, and people migrate the entries.

In `repo_gates`, two branches and two landings give every race of two judgements
and every landing on top of one; three edits allow a change, its repair and an
unrelated edit. The last landing is the last thing that happens, so deadlock is
not checked. The properties say:

* `DevStaysGreen`, `DebtNeverGrows`: as long as branches land up to date, what
  passed against its base passes as the base, and the debt found on `dev` is
  never more than at the start.
* `AllowlistsShrink`: no landing adds to a list, also when another branch landed
  in between and also when a checkout could not resolve its base. After a race
  the lists of coverage, duplicates and monotone reads may grow back by what the
  other branch took, since their entries count or stand for sets of files.
* `MovesAreFree`: debt that only moved passes with its list unchanged, for the
  gates that key it by content, by occurrence or by function.
* `GrantedCochange`, `ManifestsDescribe`, `EvidenceOnLeaving`, `TransportWhole`,
  `AuthorityArrivesWatched`: what the restart gates protect comes to `dev` only
  under a grant that landed before, with a manifest of that very commit, with
  evidence, as a whole, or not at all. The transport is whole on `dev` even after
  a race, since a three-way merge adds all that a branch adds; that `dev` had no
  part of it before, and that no old authority is left beside it, was judged
  against the merge base and holds only for a branch that is up to date. Which
  files are watched, and which names are writers, the preflight reads in the
  branch's own inventory and compares with nothing: a branch may watch a file,
  bring a line of authority, and have the file unwatched by a later branch. What
  holds is that the line came with a commit of `dev` that watched its file, or
  did not count it as authority.
* `CyclesAreCycles`: the cycle search finds exactly the rings of requires.
* `ForgeImportsShrink`, `OneCandidateReader`: a file comes to import a module of
  forge, whichever it is, only as more files give that module up; the imports
  that the script exempts by name (`SplitImports`, `SanctionedImports`) are not
  counted and may become more. No composition the topology check accepts has two readers of candidates.
* `CanonicalIsCanonical`: a comparison the login gate lets pass uses a canonical
  login by Lua's own scopes, unless a loop earlier in the file declares one of
  the names.

What the gates do not guarantee, and the properties therefore leave open:

* Two branches judged apart may fail together (`Raced`).
* A list deleted in one landing may be refilled in the next (`GateKept`), and
  `file_at_commit` takes any failure of `git cat-file` for an absent list.
* Coverage or traces that were not produced are not judged (`Deferred`); a family
  whose trace is missing is not compared as long as another one is there; without
  an explicit path the coverage gate reads any artifact left in the checkout.
* A row of the lifecycle inventory may outlive its producer by one landing, after
  which `dev` fails that gate; the evidence of a site may be deleted once the
  site is off the list.
* The login gate opens an empty scope at each `do`
  (`check_repo_bot_login_mediation.py:254`) and binds the variables of a `for`
  nowhere, while parameters of functions are bound. Inside
  `for _, subject in ipairs(logins) do`, with `subject` a canonical login outside,
  a comparison of `subject` passes, although it is the raw element. The edits of
  the run put in such loops; `NoLoopVariable` leaves out what follows them.
* Gates that key debt by line number (version suffixes, package error classes,
  layering, lock scope, saga split) report moved code as new debt.
* Lock scope and integration edges have no base comparison, the first does not
  look at the line that opens the lock, the second's identity of an edge has no
  producer. A file whose owner is changed to `pr` is no longer scanned for leaks.
* The preflight and the replay gate may choose different bases in one checkout:
  an override that does not resolve stops the one and sends the other to `dev`.

The slicer's `OneOwner` leaves out runs that overlap and searches that lag
(`unsure`): without a lock, both do file twice. The same goes for a hold that ends
before the index has caught up.

### Fairness

`Fairness` asks for weak fairness of every department, of the poller's
observation, of the proxy on each kind of comment that a liveness property needs
and of list reads catching up. The engine delivers every event until it is
acknowledged or dead-lettered, and the poller delivers every open issue again,
which is what justifies it. Ready events raised by a hand-off and by a replay
are treated separately, as an unbroken stream of replays does not displace the
other event in the engine's queue. Nothing is assumed about gate, capacity,
edits, faults, or about what consensus decides.

`ApprovedStarts` takes the hypothesis that gate and capacity are satisfied from
some time on, and excludes two ways to be stuck, both of which the code has:

* a split is not newer than what it leaves (`SplitBumps`), so the issue cannot
  move to it;
* a ready event of a hand-off is dropped, at a full limit or on a list read that
  still shows an older state, for a version whose replays are stale
  (`HandoffsAreHeard`, `Replayable`): nothing else would start the issue.

The slicer's and the gates' specifications have no fairness: nothing in the
repository runs the one again or lands the other's branches.

### Findings

* **`SplitBumps`.** `next_ready_split` strips all known suffixes. When an issue
  was approved in a later convergence round, its ready marker is at
  `<v>/loop/1`; a blocker that reappears moves it to `<v>/ready-split/1`, which
  is older, so the derived state stays `ready`. The transition table declares
  the step as a bump (`core/restart/transitions/ready.lua:94`).
* **`RedriveActionable`.** A replay of a ready issue raises `devloop_ready` at
  `<version>/redrive/ready/<n>`. The parser does not know the segment, so the
  rounds in front of it do not count; if the ready version has any, `implement`
  refuses the event as stale. The transition table promises that the replay can
  re-raise an actionable event (`ready.lua:136`).

* **`RunsSettle` with the default slice size.** `ratchet_slice_marker` writes
  an `entry_key` that is empty unless the slice is one site, and
  `ensure_marker_value` refuses an empty value
  (`ratchet_migration_slicer.py:455`). With `DEFAULT_SLICE_SIZE = 3` and two
  sites or more, a run posts its intent comment, fails and files nothing, though
  nothing disturbed it, and so does the next. The option promises to "Reconcile
  slice issue creation" (`ratchet_migration_slicer.py:804`).
* **`CommentsMoveErrors`.** `docs/devloop-decouple-endpoint.md:119` says that
  `library-error-class.allowlist` "keys debt by `path:line`", so that a comment
  above a listed `error()` makes its entry stale. The code keys it by fingerprint
  and occurrence (`check_repo_error_class.py:146`): such a branch passes with its
  list as it is, as `MovesAreFree` says.

## Proofs

Each proof is for every value of the constants, under the assumptions named in
the modules: outcomes, verdicts and essences are of their types, the bounds are
natural numbers, the slicer's entries are a finite set of numbers in file order,
and the gates in focus are gates of `RepoScenarios`. `ScenarioAssumption` and
`StartAssumption` are closed statements about the trees of `RepoScenarios` (they
are finite sets of lines; none lists debt that it does not have), and so is
`LoginAssumption` about the file that compares logins (its edits are apart, and
its blocks nest with any of them). TLC evaluates the three in full on every run of
`RepoHistory`.

**Versions.**

* `BumpsNewer` (`BumpsAreNewer`). A constructor appends one
  segment of its own kind, one round above the maximum. The lemmas of
  `VersionLemmas` show that appending a known segment leaves the maxima of the
  other kinds alone and raises its own, hence the key grows lexicographically.
  `next_blocked` needs more: it strips trailing blocked segments first, and these
  contribute to no other component of the key.
* `TimeoutsNewer`, `SplitsNewer` (`TimeoutsAreNewer`, `SplitsAreNewer`) are
  equivalences: a next timeout raises the maximum over all states exactly when
  its own state already had that maximum, and a split, which strips every known
  suffix, is newer exactly when there was nothing to lose.

**The lifecycle.**

* `TypeCorrect` of `VersionWalkProofs` and `IssueLifecycleProofs`. `TypeOK`
  is inductive as it stands. The work is in the derived data: the current state,
  the round facts and the hand-off ids that handlers read are typed whenever the
  comments are.
* `DecisionsAgree` (`ResultsAgree`). The property is about
  comments, but what makes it true is the memo. `AgreeInv` says that the memo
  holds one decision per dedup key (`MemoFunctional`), that every result
  comment, every request for one and every reached decision is backed by the
  memo under its lineage, and that no start, proposal or thinking marker carries
  the `consensus:` prefix, without which the lineage of a result could not be
  read off its key. The last part is needed because proposals are rebuilt from
  thinking markers and from recorded rounds.
* `ReadyGroundedAlways`, `StartsAreApproved` (`ReadyEventsGrounded`,
  `ImplementOnlyApproved`). `TypeOK /\ AgreeInv /\ StartInv` is inductive.
  `StartInv` says that an earlier comment, or the comment itself, approves the
  generation of every ready, waiting and implementing comment and of every
  request for one that is not a result; that a hand-off, a ready event and a
  prepared start name a comment with the marker they claim; and what the key of
  a comment tells of its state. `AgreeInv` is needed where a request is skipped:
  the older comment that is reported instead must carry the same decision.
* `ImplementsRegister` (`RegisterRefinement`), under `~MemoVolatile`. Every step
  of the lifecycle is a decision, a start or a stutter of `DecisionRegister`
  under its refinement mapping; a second result of a lineage maps to a stutter
  because results agree.
* `RoundsHaveNoGap`, `DropsFollowRounds` (`RoundsGapless`, `DropFollowsRounds`).
  `TypeOK /\ RoundInv` is inductive. `RoundInv` says that a record of a
  round, written or asked for, has the round before it among the earlier
  comments, and that a drop, written, asked for, handed off or queued for
  `reconcile`, has all the rounds before it there, at least three of them unless
  essences may repeat.

**The slicer.** `EntriesHaveOneOwner`, `SlicesAreIntended`, `ParentClosesDone`
(`OneOwner`, `SliceIntended`, `ClosedMeansDone`) follow from one inductive
invariant, `SlicerInv`: besides the three and the shapes of the state, `RunsKnow`
ties the program counter of a run to what it knows (once it intends or creates,
its key is in the ledger; an empty slice means that the list is empty, then and
since; past the first search, and unless there is doubt, no open issue of the bot
owns its entries), and `Alone` says that runs which overlap are recorded as doubt,
so that nobody else files an issue between a run's search and its own.

`UndisturbedRunsSettle` (`RenderedRunsSettle`) strengthens it to `SettleInv`: a
record with a number names an issue of the same key (`Recorded`), an issue of the
bot owns the entries of its key (`Keyed`), and as long as no event has happened
since its start, a run relies on what it has read: the numbers it is about to view
are issues of its slice, or its slice awaits a number. Then each
way a run can end without filing is one that `Settles` allows.

**The gates.** A gate judges a branch against its merge base; a landing is the
three-way merge with a `dev` that may have moved. `RepoProofs` relates the two.
`HistoryInv` (every branch has a commit of `dev` as its base) and `TreesInv` (all
trees are finite sets of lines) hold always. Two lemmas carry most of the rest:
`UpToDate`, a branch that lands without a race becomes `dev` as it was judged,
and `NewLines`, a line that a merge brings to `dev` is new on the branch against
its base.

* `GatesStayGreen` (`DevStaysGreen`), by `PassesAsBase`, gate by gate: a tree
  that passed against some base passes against itself.
* `ListsShrink` (`AllowlistsShrink`). A silent gate that read the base's list
  found no growth (`PassedList`), so by `NewLines` none comes to `dev`, raced or
  not. The inventory of handles counts as a list only with its header, and
  `HeaderInv` says that no step removes it. The three lists that are compared by
  counts or coverage need `UpToDate`.
* `DebtOnlyShrinks` (`DebtNeverGrows`). What a silent gate finds is listed
  (`PassedDebt`), the list shrinks (above), and the first list is the first debt;
  `DebtInv` keeps the bound on the list, since the bound on the debt alone is not
  inductive. Comparison by counts is transitive only for finite debts
  (`NoMoreThanLess`, `DebtFinite`).
* `ForgeImportsRetreat` (`ForgeImportsShrink`). `ForgeInv`: what the gate reads
  as the inventory of `dev`, under the old name or the new one, is what `dev`
  imports, the exempt imports apart. A counted import that the inventory lacks
  passes only as one that replaces others (`is_replacing_import`).
* `AuthorityArrives` (`AuthorityArrivesWatched`): the last landing that brought
  the line is a commit as it was judged (`UpToDate`), and the silent gate read
  the inventory of that very commit. `TransportIsWhole` (`TransportWhole`), from
  `NewLines`.
* `CochangeIsGranted`, `ManifestsAreTrue`, `LeavingNeedsEvidence`, `OneReader`
  (`GrantedCochange`, `ManifestsDescribe`, `EvidenceOnLeaving`,
  `OneCandidateReader`), from `UpToDate` and what the silence of the gate means.
  `ManifestInv` says that a commit of `dev` lists the manifests it has, `InventoryInv`
  that the inventory never loses its last row, so that the lifecycle gate never
  takes its early return, `IntakeInv` that every reader of candidates on `dev`
  is in the intake slot.

**The cycle search.** `CyclesAreFound` (`CyclesAreCycles`) holds of every branch
because `CycleProofs` shows it of every graph whose nodes are library modules
and whose requires stay among them (`RequiresAreAGraph`: what
`dependency_graph` builds is one). No use is made of which modules there are.

* *Reachability* is stated without paths: a set is closed when it holds what
  its members require, and a module reaches another when every closed set with
  the first has the second.
* `SearchInv` is the invariant of Tarjan's algorithm. The open visits are nested
  as their modules lie on the stack; numbers and the stack agree; what is left
  to look at of a visit is the end of its sorted requires, and the rest was
  looked at; a low link is a number on the stack that its module reaches, and
  no greater than the number of any require already looked at; a module on the
  stack whose visit has ended reaches an open one below it; the settled modules
  are closed and are cut into components. One lemma per kind of step keeps it
  (`VisitKeeps`, `TargetKeeps`, `InnerReturnKeeps`, `RootReturnKeeps`). The
  mutant of the run drops the hand-over of a low link to the caller, which is
  what the bound of low links by the requires looked at needs.
* `SearchEnds`: `Progress` counts the visits begun, the visits ended and the
  requires looked at, grows with every step and cannot exceed `TarjanSteps`. So
  the search, which the code writes as a recursion, is over by then, and
  `ComponentsAre` follows: each component is a class of mutual reachability, and
  every module is in one.
* `PathsAre` says what the search inside a component goes through: the paths
  without a repetition that start at their least module. A ring of requires can
  be turned to start there (`RingTurns`), is such a path (`RingIsPath`), and such
  a path that its last module closes is a ring (`PathIsRing`); a ring lies in one
  component. This gives `CyclesAre`.

**The scopes of a file.** `CanonicalIs` (`CanonicalIsCanonical`). The gate keeps
a stack of scopes and follows it line by line; Lua's scopes are stated without
one: the variable a name means on a line is the one declared last among those
whose block is still open, and its value is what the last binding of that
variable gives. `ScopeProofs` shows that they agree in every file whose blocks
nest (`TrackerIsRight`), up to the first loop that declares a name the gate
follows: behind it the gate takes the binding of another variable, and
`NoLoopVariable` is the condition of both theorems.

* `ScopesInv`: the stack is as deep as the blocks, and the slot of a name at a
  depth is what the last binding of the variable declared last at that depth,
  in a block that is still open, gives; empty if there is none.
* One lemma per kind of line keeps it. What they have in common is when a line
  changes nothing for a name and a depth (`SlotKept`), when a variable is still
  the one declared last (`SameScope`), when it is a new one (`NewlyDeclared`),
  and that a block that has just been opened has none (`OpenedScope`). The
  mutant of the run gives the value to the innermost scope, whose variable need
  not be the one the name means.
* `LoginInv` says that every tree of the scenario is the first one with some of
  its edits, whole (`LoginSteady`): they are apart, so that a merge of such trees is one
  (`WholeToggle`, `WholeMerge`). The blocks of the file nest in all of them
  (`LoginAssumption`): Lua would not compile another file.

**Debt that moves.** `MovesCostNothing` (`MovesAreFree`). A gate that keys its
debt by content, by occurrence or by function should not notice that a line was
put in above it, or that a function was moved together with its read. What has to
be shown is that no key depends on where a line stands, although all of them are
found by line number.

* *A line that says nothing.* `Inserted` relates a source to the one with such a
  line at `p`, and `Past` is where the other lines have gone. The depth of the
  blocks after a line (`DepthPast`), the end of a block (`EndPast`) and the
  functions around a line (`SurfacePast`) go with the lines; so do the tokens of
  a block, from its start or from a line on (`TokensPast`). Hence what is said of
  a declared milestone stays (`MilestonePast`), the cuts that reach a sink stay
  (`TruncationPast`), and the reads of the transient state correspond one to one
  with the same identity (`ViolationsPast`). All this is for any source and any
  place, in `ScopeProofs`; `SourceInserted` says that a file with one more line is
  such a source. A line of coverage that is not executable changes the count of no
  content (`CoverageSame`).
* *The function that moves.* `MonotoneMoves`: with the function in the old file,
  `dev` can only be silent if it has one read and one row for it, and no
  declaration that there is none; after the move the new file has the one read,
  and its identity is the one of the row (`ReadKey`), whichever line the row
  names.
* `MoveInv` says which trees a history can reach. `Among` and `Steady` state when
  a set of trees is never left: edits and merges stay in it. For the monotone gate
  these are the trees in which the function stands in exactly one of the two files,
  signature and end together (`MonotoneTrees`); and no commit of `dev` lists both
  rows, because a silent gate lets the list grow under no identity (`RowsShrink`)
  and a merge of such trees cannot bring both (`RowsMerge`). Without the second
  part `dev` could be silent with two reads, of which the move leaves one behind.

Where these proofs need induction, they take the least number that fails
(`LeastNat`, from the well-foundedness of the naturals) instead of the induction
theorems of the library; the functions that stand for the recursions are shown
to have the one value their equations give (`RunIs`, `PathsAre`, `ScopesAre`).

Only model-checked: the liveness properties (`ThinkingIsDecided`,
`StallIsDropped`, `ApprovedStarts`), which rest on fairness. Every invariant and every action property of the passing runs is
proved.

## Not modelled

Of the tools: the tokenizers of Lua and of command lines and the gates that are
one pattern over one file (`check_repo_gh_git_adapter.py`,
`check_repo_shell_out_to_self.py`, `check_repo_lower_injected_m.py` and the like),
of which nothing is left once text is abstracted to tokens; the read-only
reports (`board.py`, `avm_scoreboard.py`, `refactor_survey.py` and the board
facts); the competence gate, a table over one diff; drivers and conversions
(`check_host_library_surfaces.py`, `bin_cache.py`, `lua_coverage_to_lcov.py`).
Of the gates: runs on host repositories, which skip the base, and warnings.
Of the loop: everything after the implementing marker, see the plan.

## Plan

In this order:

1. **Implement attempts**: the attempt after the implementing marker, retries,
   checkpoints, version mismatches, the publish recheck, failures and their
   retry lineage; composed with `IssueLifecycle` through its `ready` events.
2. **PR lifecycle** (`github-devloop-pr`): review, fix, review-meta, merge-ready,
   merging, with the cyclic compare-and-set of the catalog; an abstract
   specification of what a merged pull request has gone through, and the
   lifecycle shown to implement it.
3. **Merge queue and WIP capacity**: ordering, starvation, capacity as a count
   instead of an environment choice.
4. **Liveness timeouts**: budgets, timeout versions and timeout reconcile; uses
   `TimeoutsAreNewer`.
5. **Claims**: one claimant per issue under concurrent claims.
6. **Consensus**: angles, rebuttal, synthesis and the live-run deferral behind
   `reach`.
7. **github-proxy**: poll cursor and high-water marks, idempotent issue creation,
   label projection.
8. **Intake, decompose, workflow, integration, worktree gc, idle detector**.

Theorems to prove next: the safety invariants of these components as they are
modelled; the invariants of the present runs all have theirs.
