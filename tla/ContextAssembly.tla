--------------------------- MODULE ContextAssembly ---------------------------
(***************************************************************************)
(* The context of a run (context/manager.py) as the orchestrator keeps it: *)
(* every task that succeeds adds two items, build selects what fits into   *)
(* the budget and compresses the rest into a summary, save_context stores  *)
(* the selection, and a worker that starts later goes on from the latest   *)
(* row.  A worker that stalls may go on beside its successor, and a resume *)
(* that finds the repository changed marks the summaries invalid.  An item *)
(* is its category, the task or the summary it is about and its tokens;    *)
(* text is ASCII, so that a truncated summary has its estimated size.      *)
(***************************************************************************)
EXTENDS Integers, Sequences, FiniteSets, FiniteSetsExt, SequencesExt

CONSTANTS
    Worker,         \* calls of advance
    None,
    Available,      \* ContextBudget.available
    CompressionAt,  \* ContextBudget.compression_at
    Reserve,        \* summary_reserve
    Minimum,        \* the fewest tokens that a summary is made of
    StateTokens,    \* tokens of "Task ... succeeded on attempt ..."
    NoteTokens,     \* possible tokens of a context_note
    HeaderTokens,   \* tokens that a summary adds to what it quotes
    MaxTasks,       \* bound on tasks
    MaxLoads        \* bound on calls of advance

Summary == [tokens : Nat, sources : SUBSET Nat, parents : SUBSET Nat, generation : 1 .. 3]

\* A threshold of at most 0.95, and max(available // 5, 64) against 16.
ASSUME BudgetAssumption ==
    /\ {Available, CompressionAt, Reserve, Minimum, StateTokens, HeaderTokens} \subseteq Nat
    /\ NoteTokens \subseteq Nat
    /\ CompressionAt <= Available
    /\ Minimum <= Reserve
    /\ MaxTasks \in Nat /\ MaxLoads \in Nat
    /\ None \notin Nat /\ None \notin Summary

VARIABLES
    succeeded,  \* tasks that succeeded; the last one's number
    built,      \* how often a context was built: its time and the ids of what it made
    row,        \* the latest ContextORM row
    summaries,  \* SummaryORM rows
    valid,      \* the ids of the summaries whose valid flag is set
    archive,    \* the items in the payload of some row
    loads,
    worker      \* worker[w]: context_items, current_summary and what is under way

vars == <<succeeded, built, row, summaries, valid, archive, loads, worker>>

Item == [category : {"task_state", "history", "summary"}, of : Nat, tokens : Nat,
         mandatory : BOOLEAN]

\* create_item.
NewItem(category, of, tokens, mandatory) ==
    [category |-> category, of |-> of, tokens |-> tokens, mandatory |-> mandatory]

Of(items, category) == {i.of : i \in {j \in items : j.category = category}}

\* The number of tokens in a set of items.
Tokens(items) == Cardinality(UNION {{i} \X (1 .. i.tokens) : i \in items})

\* What _PRESERVED_CATEGORIES or the flag keep raw.
Mandatory(items) == {i \in items : i.mandatory \/ i.category = "task_state"}

(***************************************************************************)
(* ContextManager.build.                                                   *)
(***************************************************************************)

\* The optional items by priority, history (100) before summaries (1000); ids are random,
\* so any order of the items of one priority is possible.
Orders(optional) ==
    {first \o second :
        first \in SetToSeqs({i \in optional : i.category = "history"}),
        second \in SetToSeqs({i \in optional : i.category = "summary"})}

OptionalLimit(used) == Max({Available - Reserve, used})

\* Each item that still fits is selected, in the given order.
Greedy(mandatory, order) ==
    LET limit == OptionalLimit(Tokens(mandatory))
        selected[n \in 0 .. Len(order)] ==
            IF n = 0 THEN mandatory
            ELSE IF Tokens(selected[n - 1]) + order[n].tokens <= limit
                 THEN selected[n - 1] \cup {order[n]} ELSE selected[n - 1]
    IN  selected[Len(order)]

\* Mutant: summaries are compressed like history, without their ids.
CompressUnlinked(items, selected, generation) ==
    LET removed == items \ selected
        maximum == Available - Tokens(selected) IN
    IF removed = {} \/ maximum < Minimum THEN None
    ELSE [tokens |-> Min({Tokens(removed) + HeaderTokens, maximum}),
          sources |-> Of(removed, "history"), parents |-> {}, generation |-> generation]

\* _compress: nothing, or a summary of what was removed.
Compress(items, selected, generation) ==
    LET removed == items \ selected
        maximum == Available - Tokens(selected) IN
    IF removed = {} \/ maximum < Minimum THEN None
    ELSE [tokens |-> Min({Tokens(removed) + HeaderTokens, maximum}),
          sources |-> Of(removed, "history"),
          parents |-> Of(removed, "summary"),
          generation |-> generation]

\* _summary_references, by priority and id; the new summary is the last.
References(selected) == Of(selected, "summary")

\* _next_summary_level.
NextGeneration(current) ==
    IF current = None THEN 1
    ELSE IF summaries[current].generation >= 3 THEN 1 ELSE summaries[current].generation + 1

(***************************************************************************)
(* The orchestrator's part.                                                *)
(***************************************************************************)

\* Mutant: a run summary is as optional as the others.
NavigationOptional(items, id, summary) ==
    IF id \in Of(items, "summary") THEN items
    ELSE items \cup {NewItem("summary", id, summary.tokens, FALSE)}

\* _append_summary_navigation.
Navigation(items, id, summary) ==
    IF id \in Of(items, "summary") THEN items
    ELSE items \cup {NewItem("summary", id, summary.tokens, summary.generation >= 3)}

\* An operation that is not under way.
Idle == [pc |-> "idle", items |-> {}, current |-> None, task |-> 0, from |-> 0,
         draft |-> None, learned |-> {}]

\* The items that a worker goes on from, given a row and the summary it takes from it.
Loaded(r, last) ==
    IF last = None THEN r.selected ELSE Navigation(r.selected, last, summaries[last])

\* Mutant: the first of the ids.
LastSummaryFirst(r) ==
    IF References(r.selected) # {} THEN References(r.selected)
    ELSE IF r.summary # None THEN {r.built} ELSE {None}

\* summary_ids[-1]: the summary made for this row, else any of the ones it retains.
LastSummary(r) ==
    IF r.summary # None THEN {r.built}
    ELSE IF References(r.selected) = {} THEN {None} ELSE References(r.selected)

\* advance: latest_context, which does not look at the flag of the summary.
Load(w) ==
    /\ worker[w].pc = "idle" /\ loads < MaxLoads
    /\ loads' = loads + 1
    /\ \E last \in LastSummary(row) :
          worker' = [worker EXCEPT ![w] =
              [Idle EXCEPT !.pc = "ready", !.items = Loaded(row, last), !.current = last,
                           !.from = row.built, !.learned = row.learned]]
    /\ UNCHANGED <<succeeded, built, row, summaries, valid, archive>>

\* A task is committed; its context comes after further awaits.
CommitTask(w) ==
    /\ worker[w].pc = "ready" /\ succeeded < MaxTasks
    /\ succeeded' = succeeded + 1
    /\ worker' = [worker EXCEPT ![w].pc = "build", ![w].task = succeeded + 1]
    /\ UNCHANGED <<built, row, summaries, valid, archive, loads>>

\* The items of the task, and build: it raises if what it must keep does not fit, and
\* then advance ends without a context for the task.
Build(w) ==
    /\ worker[w].pc = "build"
    /\ \E note \in NoteTokens :
          LET v == worker[w]
              items == v.items \cup {NewItem("task_state", v.task, StateTokens, FALSE),
                                     NewItem("history", v.task, note, FALSE)}
              kept == Mandatory(items) IN
          \/ Tokens(kept) > Available /\ worker' = [worker EXCEPT ![w] = Idle]
             /\ UNCHANGED built
          \/ /\ Tokens(kept) <= Available
             /\ built' = built + 1
             /\ \E selected \in IF Tokens(items) <= CompressionAt THEN {items}
                                ELSE {Greedy(kept, order) : order \in Orders(items \ kept)} :
                   worker' = [worker EXCEPT ![w] =
                      [v EXCEPT !.pc = "save", !.items = items,
                                !.learned = @ \cup {v.task},
                                !.draft = [built |-> built + 1, selected |-> selected,
                                           summary |-> Compress(items, selected,
                                                          NextGeneration(v.current)),
                                           learned |-> v.learned \cup {v.task}]]]
    /\ UNCHANGED <<succeeded, row, summaries, valid, archive, loads>>

\* save_context, one transaction; the latest row is the one that was built last.  The
\* worker goes on with what was selected and the new summary.
SaveContext(w) ==
    LET draft == worker[w].draft
        made == IF draft.summary = None THEN {} ELSE {draft.built} IN
    /\ worker[w].pc = "save"
    /\ row' = IF draft.built > row.built THEN draft ELSE row
    /\ summaries' = [id \in DOMAIN summaries \cup made |->
                        IF id \in made THEN draft.summary ELSE summaries[id]]
    /\ valid' = valid \cup made
    /\ archive' = archive \cup worker[w].items
    /\ worker' = [worker EXCEPT
          ![w].pc = "ready", ![w].draft = None, ![w].from = draft.built,
          ![w].items = IF made = {} THEN draft.selected
                       ELSE Navigation(draft.selected, draft.built, draft.summary),
          ![w].current = IF made = {} THEN @ ELSE draft.built]
    /\ UNCHANGED <<succeeded, built, loads>>

\* The process dies, or advance returns.
Stop(w) ==
    /\ worker[w].pc # "idle"
    /\ worker' = [worker EXCEPT ![w] = Idle]
    /\ UNCHANGED <<succeeded, built, row, summaries, valid, archive, loads>>

\* _validate_repository with drift and a policy other than FAIL:
\* invalidate_summaries_for_run clears the flag of all summaries of the run.
InvalidateSummaries ==
    /\ valid # {}
    /\ valid' = {}
    /\ UNCHANGED <<succeeded, built, row, summaries, archive, loads, worker>>

Init ==
    /\ succeeded = 0 /\ built = 0 /\ loads = 0
    /\ row = [built |-> 0, selected |-> {}, summary |-> None, learned |-> {}]
    /\ summaries = <<>> /\ valid = {} /\ archive = {}
    /\ worker = [w \in Worker |-> Idle]

Next ==
    \/ \E w \in Worker : Load(w) \/ CommitTask(w) \/ Build(w) \/ SaveContext(w) \/ Stop(w)
    \/ InvalidateSummaries

Spec == Init /\ [][Next]_vars

(***************************************************************************)
(* Properties.                                                             *)
(***************************************************************************)

Draft == [built : Nat, selected : SUBSET Item, summary : Summary \cup {None},
          learned : SUBSET Nat]

Call == [pc : {"idle", "ready", "build", "save"}, items : SUBSET Item,
         current : Nat \cup {None}, task : Nat, from : Nat, draft : Draft \cup {None},
         learned : SUBSET Nat]

TypeOK ==
    /\ succeeded \in 0 .. MaxTasks /\ built \in Nat /\ loads \in 0 .. MaxLoads
    /\ summaries \in [DOMAIN summaries -> Summary] /\ DOMAIN summaries \subseteq 1 .. built
    /\ valid \subseteq DOMAIN summaries
    /\ row \in Draft /\ archive \subseteq Item
    /\ worker \in [Worker -> Call]

\* The tasks whose note the summary stands for, through the summaries it replaced.
Covers[id \in 0 .. built] ==
    IF id \notin DOMAIN summaries THEN {}
    ELSE summaries[id].sources
            \cup UNION {Covers[p] : p \in {q \in summaries[id].parents : q < id}}

\* The note of every task that a worker, or one before it whose context it took over,
\* knew of is in its context, raw or below a summary it can navigate to, across any
\* number of compressions and restarts, as long as what must be kept leaves room for a
\* summary; and what a summary replaced is stored.
HistoryReachable ==
    /\ \A w \in Worker :
          LET items == worker[w].items IN
          worker[w].pc = "ready" /\ Tokens(Mandatory(items)) <= Available - Minimum =>
              worker[w].learned \subseteq
                  Of(items, "history") \cup UNION {Covers[id] : id \in Of(items, "summary")}
    /\ \A id \in DOMAIN summaries :
          /\ summaries[id].sources \subseteq Of(archive, "history")
          /\ summaries[id].parents \subseteq DOMAIN summaries \cap Of(archive, "summary")

\* "without generation >3": a run summary is the last of its line and never compressed
\* again, not even by a worker that loaded it from its row.
RunSummaryIsFinal ==
    \A id \in DOMAIN summaries :
        /\ summaries[id].generation \in 1 .. 3
        /\ \A p \in summaries[id].parents : summaries[p].generation < 3

\* A restart goes on where the last worker was: whoever loads the latest row has the
\* items that the worker that stored it, or loaded it, has.  This includes summaries that
\* a resume has invalidated since: latest_context loads and build quotes them, where
\* docs/context-compression.md says that a resume "discards invalid navigation".
RestartContinues ==
    \A w \in Worker :
        worker[w].pc = "ready" /\ worker[w].from = row.built =>
            \A last \in LastSummary(row) : Loaded(row, last) = worker[w].items
=============================================================================
