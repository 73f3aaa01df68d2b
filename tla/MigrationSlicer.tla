---------------------------- MODULE MigrationSlicer ----------------------------
(***************************************************************************)
(* The reconciler of ratchet debt, ratchet_migration_slicer.py.  An        *)
(* allowlist holds the debt of one ratchet; a run of the tool cuts the     *)
(* first sites of it into a slice and files an issue for the slice, unless *)
(* the parent issue's ledger or an open issue shows that the slice is      *)
(* already owned.  When the debt is gone it closes the parent issue.       *)
(*                                                                         *)
(* A run takes no lock and talks to GitHub one command at a time, so every *)
(* command is an action, and issues close, debt shrinks, lines move and    *)
(* other runs proceed between two of them.  A command may fail, which ends *)
(* the run; a command that fails after it took effect is the command       *)
(* followed by a failure of the next one.                                  *)
(***************************************************************************)
EXTENDS Integers, SequencesExt

CONSTANTS
    Runners,       \* processes that run the tool
    Ratchets,      \* the ratchets a behaviour may be about
    Entries,       \* entries of the allowlist, numbered in file order
    SliceSizes,    \* values of --slice-size, 3 by default
    MaxEvents      \* failed commands, unprinted numbers, lagging searches, moved
                   \* lines, issues closed undone, copied and legacy markers, together

ASSUME SlicerAssumption ==
    /\ Ratchets \subseteq {"gh-git-adapter", "saga-handler", "code-dedup"}
    /\ Entries \subseteq Nat /\ IsFiniteSet(Entries)
    /\ SliceSizes # {} /\ SliceSizes \subseteq 1..10
    /\ MaxEvents \in Nat

VARIABLES
    ratchet,   \* the ratchet
    allow,     \* entries of the allowlist
    code,      \* entries whose code is still in the sources
    moves,     \* how often the lines moved
    parent,    \* whether the parent issue is open
    ledger,    \* comments on the parent issue, in order
    issues,    \* slice issues, by number
    lagging,   \* numbers of issues that a search does not return yet
    runs,      \* the state of each runner
    unsure,    \* whether two runs overlapped or a search lagged
    events     \* events so far that MaxEvents bounds

debt == <<ratchet, allow, code, moves>>

vars == <<debt, parent, ledger, issues, lagging, runs, unsure, events>>

Unknown == 0   \* the number of an issue whose creation printed none

Hold == -1     \* a ledger record that may still turn out to name an issue

Idle == [pc |-> "idle"]

--------------------------------------------------------------------------------
(***************************************************************************)
(* The slice.  An entry of the dedup allowlist is a group of files, an     *)
(* entry of the other two is one file.  An entry whose code is gone is     *)
(* listed at line 1, and the gh-git loader refuses it.                     *)
(***************************************************************************)
files(e) == IF ratchet = "code-dedup" THEN {e, e + 1} ELSE {e}

site(e, p) == [path |-> p, entry |-> e, line |-> IF e \in code THEN moves + 2 ELSE 1]

inventory_sites == UNION {{site(e, p) : p \in files(e)} : e \in allow}

Before(s, t) ==
    \/ s.path < t.path
    \/ s.path = t.path /\ s.line < t.line
    \/ s.path = t.path /\ s.line = t.line /\ s.entry < t.entry

(* The sites in order: the i-th one has i - 1 of the others before it.     *)
load_inventory ==
    [i \in 1..Cardinality(inventory_sites) |->
        CHOOSE s \in inventory_sites :
            Cardinality({t \in inventory_sites : Before(t, s)}) = i - 1]

InventoryLoads == ratchet = "gh-git-adapter" => allow \subseteq code

selected_sites(inventory, size) == SubSeq(inventory, 1, Min({size, Len(inventory)}))

(* The fingerprint covers every field of every site, so the key of a slice *)
(* changes when its lines move; an entry key depends on the entry alone.   *)
dedup_key(sites) == sites

selected_entry_keys(sites) == {sites[i].entry : i \in DOMAIN sites}

(* The slice marker has an entry_key attribute, which is empty unless the  *)
(* slice is one site; ensure_marker_value refuses an empty value.          *)
ratchet_slice_marker_renders(sites) == Len(sites) = 1

--------------------------------------------------------------------------------
(* Records.  A run without a bot login trusts everyone.                    *)
is_trusted_record(record, run) == run.bot => record.trusted

Issue(key, trusted) ==
    [key |-> key, entries |-> selected_entry_keys(key), legacy |-> FALSE,
     trusted |-> trusted, open |-> TRUE]

(* An issue of the first marker format, which names no entries.            *)
LegacyIssue ==
    [key |-> <<>>, entries |-> {}, legacy |-> TRUE, trusted |-> TRUE, open |-> TRUE]

IntentComment(key) ==
    [kind |-> "intent", key |-> key, issue |-> Unknown, recent |-> FALSE, trusted |-> TRUE]

CreatedComment(key, number, trusted) ==
    [kind |-> "created", key |-> key, issue |-> number, recent |-> number = Unknown,
     trusted |-> trusted]

(* What the ledger says about a key: numbers of issues, and a hold for a   *)
(* recent record without a number.  Their order is not kept: a run goes on *)
(* only when none of them stops it.                                        *)
Numbers(records) ==
    {IF ledger[j].issue = Unknown THEN Hold ELSE ledger[j].issue : j \in records}

MutantHoldNeverEnds(key, run) ==
    Numbers({j \in DOMAIN ledger : /\ ledger[j].kind = "created" /\ ledger[j].key = key
                                   /\ is_trusted_record(ledger[j], run)})

parent_issue_created_marker_issues(key, run) ==
    Numbers({j \in DOMAIN ledger : /\ ledger[j].kind = "created" /\ ledger[j].key = key
                                   /\ ledger[j].issue = Unknown => ledger[j].recent
                                   /\ is_trusted_record(ledger[j], run)})

(* A record of the run's slice has no number and is younger than a quarter *)
(* of an hour.                                                             *)
AwaitsNumber(run) ==
    \E j \in DOMAIN ledger :
        /\ ledger[j].recent /\ ledger[j].key = dedup_key(run.slice)
        /\ is_trusted_record(ledger[j], run)

parent_has_intent(key, run) ==
    \E i \in DOMAIN ledger :
        ledger[i].kind = "intent" /\ ledger[i].key = key /\ is_trusted_record(ledger[i], run)

Searchable(run) ==
    {i \in DOMAIN issues : i \notin lagging /\ issues[i].open /\ is_trusted_record(issues[i], run)}

MutantOverlapsByKey(issue, run) == issue.legacy \/ issue.key = dedup_key(run.slice)

slice_overlaps_entry(issue, run) ==
    issue.legacy \/ issue.entries \cap selected_entry_keys(run.slice) # {}

--------------------------------------------------------------------------------
(***************************************************************************)
(* One run, command by command.                                            *)
(***************************************************************************)
Goto(r, pc) == runs' = [runs EXCEPT ![r].pc = pc]

Done(r) == runs' = [runs EXCEPT ![r] = Idle]

Active(r) == runs[r].pc # "idle"

(* The tool loads the inventory before the first command; writing takes a  *)
(* bot login, a dry run usually has none.  `since' and `held' are for the  *)
(* properties: the events before the run, and whether the ledger has a     *)
(* record of its slice that is younger than a quarter of an hour.          *)
Start(r, write, bot, size) ==
    /\ ~Active(r)
    /\ InventoryLoads
    /\ write => bot
    /\ runs' = [runs EXCEPT ![r] =
                   [pc |-> "view", write |-> write, bot |-> bot,
                    slice |-> selected_sites(load_inventory, size), todo |-> {}, intended |-> FALSE,
                    since |-> events, held |-> FALSE]]
    /\ unsure' = (unsure \/ \E q \in Runners : Active(q))
    /\ UNCHANGED <<debt, parent, ledger, issues, lagging, events>>

MutantClosesOnStaleSites(r) ==
    LET run == runs[r]
    IN  /\ run.pc = "view"
        /\ IF \A i \in DOMAIN run.slice : run.slice[i].line = 1
           THEN IF parent /\ run.write THEN Goto(r, "close") ELSE Done(r)
           ELSE runs' = [runs EXCEPT ![r].pc = "search"]
        /\ UNCHANGED <<debt, parent, ledger, issues, lagging, unsure, events>>

(* The parent issue: its state when no debt is left, its ledger otherwise. *)
ViewParent(r) ==
    LET run == runs[r]
    IN  /\ run.pc = "view"
        /\ IF run.slice = <<>>
           THEN IF parent /\ run.write THEN Goto(r, "close") ELSE Done(r)
           ELSE LET named == parent_issue_created_marker_issues(dedup_key(run.slice), run)
                IN  runs' = [runs EXCEPT ![r].pc = IF named = {} THEN "search" ELSE "ledger",
                                ![r].todo = named,
                                ![r].intended = parent_has_intent(dedup_key(run.slice), run),
                                ![r].held = AwaitsNumber(run)]
        /\ UNCHANGED <<debt, parent, ledger, issues, lagging, unsure, events>>

CloseParent(r) ==
    /\ runs[r].pc = "close"
    /\ parent' = FALSE
    /\ Done(r)
    /\ UNCHANGED <<debt, ledger, issues, lagging, unsure, events>>

(* The issues that the ledger names, one view each: all must be closed.    *)
ViewLedgerIssue(r) ==
    LET run == runs[r]
    IN  /\ run.pc = "ledger"
        /\ \E n \in run.todo :
              IF n = Hold \/ ~is_trusted_record(issues[n], run) \/ issues[n].open
              THEN Done(r)
              ELSE runs' = [runs EXCEPT ![r].todo = @ \ {n},
                               ![r].pc = IF run.todo = {n} THEN "search" ELSE "ledger"]
        /\ UNCHANGED <<debt, parent, ledger, issues, lagging, unsure, events>>

SearchSlices(r) ==
    /\ runs[r].pc = "search"
    /\ IF \E i \in Searchable(runs[r]) : slice_overlaps_entry(issues[i], runs[r])
       THEN Done(r) ELSE Goto(r, "exact")
    /\ unsure' = (unsure \/ lagging # {})
    /\ UNCHANGED <<debt, parent, ledger, issues, lagging, events>>

SearchExact(r) ==
    LET run == runs[r]
    IN  /\ run.pc = "exact"
        /\ IF \/ \E i \in Searchable(run) : issues[i].key = dedup_key(run.slice)
              \/ ~run.write
           THEN Done(r)
           ELSE Goto(r, IF run.intended THEN "create" ELSE "intent")
        /\ unsure' = (unsure \/ lagging # {})
        /\ UNCHANGED <<debt, parent, ledger, issues, lagging, events>>

MutantIntentUnposted(r) ==
    /\ runs[r].pc = "intent"
    /\ Goto(r, "create")
    /\ UNCHANGED <<debt, parent, ledger, issues, lagging, unsure, events>>

CommentIntent(r) ==
    /\ runs[r].pc = "intent"
    /\ ledger' = Append(ledger, IntentComment(dedup_key(runs[r].slice)))
    /\ Goto(r, "create")
    /\ UNCHANGED <<debt, parent, issues, lagging, unsure, events>>

(* The body is rendered before gh is called.  gh may print no number, and  *)
(* the search may return the issue only later; both count as events.       *)
CreateIssue(r, printed, late) ==
    LET run == runs[r]
        number == Len(issues) + 1
    IN  /\ run.pc = "create"
        /\ ratchet_slice_marker_renders(run.slice)
        /\ issues' = Append(issues, Issue(dedup_key(run.slice), TRUE))
        /\ events' = events + (IF printed THEN 0 ELSE 1) + (IF late THEN 1 ELSE 0)
        /\ events' <= MaxEvents
        /\ lagging' = IF late THEN lagging \cup {number} ELSE lagging
        /\ runs' = [runs EXCEPT ![r] = [run EXCEPT !.pc = "record",
                                           !.todo = {IF printed THEN number ELSE Unknown}]]
        /\ UNCHANGED <<debt, parent, ledger, unsure>>

(* A body that does not render ends the run with an error.                 *)
RenderFails(r) ==
    /\ runs[r].pc = "create"
    /\ ~ratchet_slice_marker_renders(runs[r].slice)
    /\ Done(r)
    /\ UNCHANGED <<debt, parent, ledger, issues, lagging, unsure, events>>

CommentCreated(r) ==
    LET run == runs[r]
    IN  /\ run.pc = "record"
        /\ \E n \in run.todo :
              ledger' = Append(ledger, CreatedComment(dedup_key(run.slice), n, TRUE))
        /\ Done(r)
        /\ UNCHANGED <<debt, parent, issues, lagging, unsure, events>>

CommandFails(r) ==
    /\ Active(r)
    /\ events < MaxEvents
    /\ events' = events + 1
    /\ Done(r)
    /\ UNCHANGED <<debt, parent, ledger, issues, lagging, unsure>>

--------------------------------------------------------------------------------
(***************************************************************************)
(* Everyone else.                                                          *)
(***************************************************************************)
tool == <<parent, runs, unsure>>

(* A merged change removes the code of an entry and, as the gates demand,  *)
(* the entry; a working tree may be between the two.                       *)
Migrate(e) ==
    /\ e \in code
    /\ code' = code \ {e}
    /\ \/ allow' = allow \ {e} /\ UNCHANGED events
       \/ events < MaxEvents /\ events' = events + 1 /\ UNCHANGED allow
    /\ UNCHANGED <<ratchet, moves, tool, ledger, issues, lagging>>

Prune(e) ==
    /\ e \in allow \ code
    /\ allow' = allow \ {e}
    /\ UNCHANGED <<ratchet, code, moves, tool, ledger, issues, lagging, events>>

MoveLines ==
    /\ events < MaxEvents
    /\ events' = events + 1
    /\ moves' = moves + 1
    /\ UNCHANGED <<ratchet, allow, code, tool, ledger, issues, lagging>>

CloseIssue(i) ==
    /\ issues[i].open
    /\ events' = IF issues[i].entries \cap allow = {} /\ ~issues[i].legacy
                 THEN events ELSE events + 1
    /\ events' <= MaxEvents
    /\ issues' = [issues EXCEPT ![i].open = FALSE]
    /\ UNCHANGED <<debt, tool, ledger, lagging>>

IndexIssue(i) ==
    /\ i \in lagging
    /\ lagging' = lagging \ {i}
    /\ UNCHANGED <<debt, tool, ledger, issues, events>>

(* A quarter of an hour passes.                                            *)
AgeLedger ==
    /\ \E i \in DOMAIN ledger : ledger[i].recent
    /\ ledger' = [i \in DOMAIN ledger |-> [ledger[i] EXCEPT !.recent = FALSE]]
    /\ UNCHANGED <<debt, tool, issues, lagging, events>>

(* Someone who is not the bot repeats the markers of the current slice, in *)
(* an issue or in a comment on the parent.                                 *)
Outsider ==
    LET key == dedup_key(selected_sites(load_inventory, 1))
    IN  /\ events < MaxEvents
        /\ key # <<>>
        /\ events' = events + 1
        /\ \/ issues' = Append(issues, Issue(key, FALSE)) /\ UNCHANGED ledger
           \/ ledger' = Append(ledger, CreatedComment(key, Unknown, FALSE)) /\ UNCHANGED issues
        /\ UNCHANGED <<debt, tool, lagging>>

--------------------------------------------------------------------------------
Init ==
    /\ ratchet \in Ratchets
    /\ allow = Entries
    /\ code = Entries
    /\ moves = 0
    /\ parent = TRUE
    /\ ledger = <<>>
    /\ \/ issues = <<>> /\ events = 0
       \/ issues = <<LegacyIssue>> /\ events = 1
    /\ lagging = {}
    /\ runs = [r \in Runners |-> Idle]
    /\ unsure = FALSE

Command(r) ==
    \/ ViewParent(r)
    \/ CloseParent(r)
    \/ ViewLedgerIssue(r)
    \/ SearchSlices(r)
    \/ SearchExact(r)
    \/ CommentIntent(r)
    \/ \E printed, late \in BOOLEAN : CreateIssue(r, printed, late)
    \/ RenderFails(r)
    \/ CommentCreated(r)

Next ==
    \/ \E r \in Runners :
          \/ \E write \in BOOLEAN, size \in SliceSizes : Start(r, write, write, size)
          \/ Command(r)
          \/ CommandFails(r)
    \/ \E e \in Entries : Migrate(e) \/ Prune(e)
    \/ MoveLines
    \/ \E i \in DOMAIN issues : CloseIssue(i) \/ IndexIssue(i)
    \/ AgeLedger
    \/ Outsider

Spec == Init /\ [][Next]_vars

--------------------------------------------------------------------------------
Owns(i) == issues[i].open /\ issues[i].trusted

(* No entry is owned by two open slice issues, whatever crashed, closed,   *)
(* moved or was copied in between, as long as runs do not overlap and the  *)
(* search has caught up: reconcile_ratchet's three checks together.        *)
OneOwner ==
    unsure \/ \A i, j \in DOMAIN issues :
                  i # j /\ Owns(i) /\ Owns(j) => issues[i].entries \cap issues[j].entries = {}

(* Every slice issue of the bot has its intent on the parent's ledger:     *)
(* reconcile_ratchet writes the intent before it creates, or has seen it.  *)
SliceIntended ==
    \A i \in DOMAIN issues :
        issues[i].trusted /\ ~issues[i].legacy =>
            \E j \in DOMAIN ledger : ledger[j].kind = "intent" /\ ledger[j].key = issues[i].key

(* A run with writes on ends with this step, and nothing went wrong while  *)
(* it ran: no command failed, no number was unprinted, no issue was closed *)
(* undone, no line moved, no search lagged and nobody copied a marker.     *)
EndsUndisturbed(r) ==
    Active(r) /\ ~Active(r)' /\ runs[r].write /\ events' = runs[r].since

(* The run has done its work: the parent issue is closed if no debt was    *)
(* left, and otherwise the debt of its slice is gone or partly owned, or   *)
(* the ledger had a record of the very slice, without a number, that was   *)
(* not older than a quarter of an hour.                                    *)
Settles(r) ==
    LET run == runs[r]
        entries == selected_entry_keys(run.slice)
    IN  IF run.slice = <<>>
        THEN ~parent'
        ELSE \/ entries \cap allow' = {}
             \/ \E i \in DOMAIN issues' :
                   Owns(i)' /\ (issues'[i].legacy \/ issues'[i].entries \cap entries # {})
             \/ run.held

(* Whatever earlier runs left behind (an intent without an issue, an issue *)
(* without a record, a record without a number or of a closed issue), the  *)
(* next undisturbed run whose slice renders gets past it: it does not take *)
(* for owned what nobody owns.                                             *)
RenderedRunsSettle ==
    [][\A r \in Runners :
          /\ EndsUndisturbed(r)
          /\ runs[r].slice = <<>> \/ ratchet_slice_marker_renders(runs[r].slice)
          => Settles(r)]_vars

(* The same for a slice of any size, the default of three included.        *)
RunsSettle == [][\A r \in Runners : EndsUndisturbed(r) => Settles(r)]_vars

(* The parent issue is closed only when no debt is left, also when the     *)
(* run that closed it loaded its inventory long before.                    *)
ClosedMeansDone == ~parent => allow = {}
================================================================================
