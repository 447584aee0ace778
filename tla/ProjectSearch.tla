---------------------------- MODULE ProjectSearch ---------------------------
(***************************************************************************)
(* ProjectInventorySearch, the issues panel of InventoryView, over the     *)
(* backup points that a running backup adds to: what the user types is     *)
(* searched after a pause, filters, pages and a new project at once, and   *)
(* every answer is shown as it comes in. The AbortController of the panel  *)
(* is not handed to fetch: no request is ever withdrawn.                   *)
(*                                                                         *)
(* An action is an event of the page with the effect that follows it.      *)
(***************************************************************************)
EXTENDS Inventory, SequencesExt

CONSTANTS
  Keys,          \* projects the user may ask for
  Queries,       \* sets of words the user may type
  FilterChoices, \* combinations of filters the user may set
  PageSize,
  MaxFetches     \* bound: requests of the panel

ASSUME PanelAssumption ==
  /\ "" \notin Keys /\ {} \in Queries /\ NoFilters \in FilterChoices
  /\ PageSize \in 1..200 /\ MaxFetches \in Nat

VARIABLES
  panel,   \* the state of the component
  mounted, \* Issues is the selected type
  fetches, \* the requests under way, in the order they were sent
  sent,    \* number of requests sent
  \* history
  shown,   \* of the answer shown last: its request, its run, and whether no other
           \* request was ever under way with it
  mixed    \* since the panel was mounted, requests overlapped, or answers came from
           \* two backup points

vars == <<points, panel, mounted, fetches, sent, shown, mixed>>

\* What the fetch effect depends on: fetchParams without the limit, always PageSize.
Params == [project : Keys \cup {""}, query : Queries, filters : FilterChoices, offset : Nat]

Panel == [raw : Queries, timer : BOOLEAN, filters : FilterChoices, params : Params,
          load : {"idle", "loading", "loaded", "error"}]

TypeOK ==
  /\ PointsOK
  /\ mounted \in BOOLEAN
  /\ [raw |-> panel.raw, timer |-> panel.timer, filters |-> panel.filters,
      params |-> panel.params, load |-> panel.load] \in Panel
  /\ panel.total \in Nat
  /\ Len(panel.rows) <= PageSize
  /\ Len(fetches) <= sent /\ sent <= MaxFetches
  /\ \A k \in DOMAIN fetches : /\ fetches[k].params \in Params
                               /\ fetches[k].at \in {"sent", "served"}
                               /\ fetches[k].alone \in BOOLEAN
  /\ shown.params \in Params /\ shown.run \in 0..Len(Runs)
  /\ {shown.alone, mixed} \subseteq BOOLEAN

\* The component as it is mounted: the pause runs from the first render on.
Fresh == [raw |-> {}, timer |-> TRUE, filters |-> NoFilters,
          params |-> [project |-> "", query |-> {}, filters |-> NoFilters, offset |-> 0],
          rows |-> <<>>, total |-> 0, load |-> "idle"]

NothingShown == [params |-> Fresh.params, run |-> 0, alone |-> TRUE]

Init ==
  /\ points = <<>>
  /\ panel = Fresh
  /\ mounted = TRUE
  /\ fetches = <<>>
  /\ sent = 0
  /\ shown = NothingShown
  /\ mixed = FALSE

\* Room for one more request, and for the one the pause will end in.
Room == sent + (IF panel.timer THEN 1 ELSE 0) < MaxFetches

-----------------------------------------------------------------------------
(* What the user does                                                      *)

\* history: the requests under way when one more is sent
Overtaken == [k \in DOMAIN fetches |-> [fetches[k] EXCEPT !.alone = FALSE]]

\* setFetchParams(p) on the state s, and the effect: without a project the table is
\* cleared, with one it is loading and a request is sent.
Fetch(p, s) ==
  /\ UNCHANGED shown
  /\ \/ /\ p.project = ""
        /\ panel' = [s EXCEPT !.params = p, !.rows = <<>>, !.total = 0, !.load = "idle"]
        /\ UNCHANGED <<fetches, sent, mixed>>
     \/ /\ p.project # ""
        /\ panel' = [s EXCEPT !.params = p, !.load = "loading"]
        /\ fetches' = Append(Overtaken,
                             [params |-> p, at |-> "sent", alone |-> fetches = <<>>,
                              answer |-> Refused(0)])
        /\ sent' = sent + 1
        /\ mixed' = (mixed \/ fetches # <<>>)

\* The search box and the filters are there once a project was asked for.
Scoped == mounted /\ panel.params.project # ""

\* Every key typed starts the pause anew.
TypeQuery(q) ==
  /\ Scoped /\ q # panel.raw /\ (panel.timer \/ Room)
  /\ panel' = [panel EXCEPT !.raw = q, !.timer = TRUE]
  /\ UNCHANGED <<points, mounted, fetches, sent, shown, mixed>>

DebounceKeepsPage(s) ==  \* mutant: the new query is asked for from the old page on
  [s.params EXCEPT !.query = s.raw]

DebounceKeepsQuery(s) ==  \* mutant: the text of the render before is searched for
  [s.params EXCEPT !.offset = 0]

DebouncedParams(s) == [s.params EXCEPT !.query = s.raw, !.offset = 0]

\* 250 ms without a key.
Debounce ==
  /\ mounted /\ panel.timer
  /\ Fetch(DebouncedParams(panel), [panel EXCEPT !.timer = FALSE])
  /\ UNCHANGED <<points, mounted>>

SetFilters(f) ==
  /\ Scoped /\ f # panel.filters /\ Room
  /\ Fetch([panel.params EXCEPT !.filters = f, !.offset = 0], [panel EXCEPT !.filters = f])
  /\ UNCHANGED <<points, mounted>>

\* One field is typed, cleared or chosen, or one label added or removed; nothing
\* waits for a pause here.
OneChange(f, g) ==
  /\ Cardinality({x \in DOMAIN f : f[x] # g[x]}) = 1
  /\ Cardinality((f.labels \ g.labels) \cup (g.labels \ f.labels)) <= 1

UpdateFilter(f) == OneChange(panel.filters, f) /\ SetFilters(f)

\* "Clear all filters", under the inputs and beside the chips.
ClearAllFilters == SetFilters(NoFilters)

CommitForgetsFilters(key) ==  \* mutant: a new project is searched without the filters
  [project |-> key, query |-> panel.raw, filters |-> NoFilters, offset |-> 0]

CommittedParams(key) ==
  [project |-> key, query |-> panel.raw, filters |-> panel.filters, offset |-> 0]

\* "Go" or Enter in the field of the project, empty or not.
CommitProjectKey(key) ==
  /\ mounted /\ Room
  /\ Fetch(CommittedParams(key), panel)
  /\ UNCHANGED <<points, mounted>>

\* The two buttons are enabled by the page asked for and the total shown.
PagesShown == Scoped /\ panel.load = "loaded" /\ panel.total > 0

HasNextPage(s) == s.params.offset + PageSize < s.total

NextPage ==
  /\ PagesShown /\ HasNextPage(panel) /\ Room
  /\ Fetch([panel.params EXCEPT !.offset = @ + PageSize], panel)
  /\ UNCHANGED <<points, mounted>>

PreviousPage ==
  /\ PagesShown /\ panel.params.offset # 0 /\ Room
  /\ Fetch([panel.params EXCEPT !.offset = IF @ < PageSize THEN 0 ELSE @ - PageSize], panel)
  /\ UNCHANGED <<points, mounted>>

\* Another type is selected in the sidebar: the panel is gone with all it held, and
\* the answers on their way reach nobody.
SelectOther ==
  /\ mounted
  /\ mounted' = FALSE
  /\ panel' = [Fresh EXCEPT !.timer = FALSE]
  /\ fetches' = <<>>
  /\ shown' = NothingShown
  /\ mixed' = FALSE
  /\ UNCHANGED <<points, sent>>

SelectIssues ==
  /\ ~mounted /\ sent < MaxFetches
  /\ mounted' = TRUE
  /\ panel' = Fresh
  /\ UNCHANGED <<points, fetches, sent, shown, mixed>>

-----------------------------------------------------------------------------
(* The server and the network                                              *)

Asked(r) == [project |-> r.project, query |-> r.query, filters |-> r.filters,
             offset |-> r.offset, limit |-> PageSize]

\* The handler runs to its end on the points of now.
Serve(k) ==
  /\ k \in DOMAIN fetches /\ fetches[k].at = "sent"
  /\ fetches' = [fetches EXCEPT ![k].at = "served",
                                ![k].answer = ProjectIssues(Asked(fetches[k].params))]
  /\ UNCHANGED <<points, panel, mounted, sent, shown, mixed>>

Delivered(s, a) ==
  IF a.status = 200
  THEN [s EXCEPT !.rows = a.rows, !.total = a.total, !.load = "loaded"]
  ELSE [s EXCEPT !.load = "error"]

\* The answer to any of the requests is shown.
Deliver(k) ==
  /\ k \in DOMAIN fetches /\ fetches[k].at = "served"
  /\ LET f == fetches[k]
     IN  /\ panel' = Delivered(panel, f.answer)
         /\ shown' = [params |-> f.params, run |-> f.answer.run, alone |-> f.alone]
         /\ mixed' = (mixed \/ (shown.run # 0 /\ f.answer.run # shown.run))
  /\ fetches' = RemoveAt(fetches, k)
  /\ UNCHANGED <<points, mounted, sent>>

\* The request or its answer is lost, or the server fails.
Lose(k) ==
  /\ k \in DOMAIN fetches
  /\ panel' = [panel EXCEPT !.load = "error"]
  /\ fetches' = RemoveAt(fetches, k)
  /\ UNCHANGED <<points, mounted, sent, shown, mixed>>

Grow == Backup /\ UNCHANGED <<panel, mounted, fetches, sent, shown, mixed>>

User ==
  \/ \E q \in Queries : TypeQuery(q)
  \/ \E f \in FilterChoices : UpdateFilter(f)
  \/ ClearAllFilters
  \/ \E key \in Keys \cup {""} : CommitProjectKey(key)
  \/ NextPage \/ PreviousPage \/ SelectOther \/ SelectIssues

Next ==
  \/ User \/ Debounce
  \/ \E k \in 1..MaxFetches : Serve(k) \/ Deliver(k) \/ Lose(k)
  \/ Grow

Spec == Init /\ [][Next]_vars

-----------------------------------------------------------------------------
(* Properties.                                                             *)

\* The rows that are not in the table any more and the rows that come into it.
Position(rows, params, row) == {params.offset + i : i \in {j \in DOMAIN rows : rows[j] = row}}
SamePoint == shown.run = shown'.run /\ shown.run # 0
SameSearch == [shown.params EXCEPT !.offset = 0] = [shown'.params EXCEPT !.offset = 0]

\* Pages turned while the backup appends to the point fit together: a row stands at
\* one position of the list, so none is on two pages (getEntriesByBackupPoint,
\* ORDER BY captured_at).
PagesAgree ==
  [][SamePoint /\ SameSearch =>
       \A row \in Elements(panel.rows) \cup Elements(panel'.rows) :
         Cardinality(Position(panel.rows, shown.params, row)
                     \cup Position(panel'.rows, shown'.params, row)) = 1]_vars

\* A table without rows under a page count is shown only when answers overtook each
\* other or another point became the newest between two of them: paging alone never
\* leads past the end ("No issues match your search and filters").
EmptyPageIsExplained ==
  Scoped /\ panel.load = "loaded" /\ panel.rows = <<>> /\ panel.total > 0 => mixed

\* The entries of run n that match p, in the order of the run as far as it had written m.
Hits(p, n) == {e \in Elements(Runs[n].entries) : /\ IsIssueOf(e, p.project)
                                                 /\ SearchHit(e, p.query)
                                                 /\ FilterHit(e, p.filters)}
Upto(p, n, m) == Filter(SubSeq(Runs[n].entries, 1, m), Hits(p, n))

\* How far run n has come on the points pts.
SizeOf(pts, n) == pts[Len(pts) - n + 1].size

\* rows is the page of list behind the first skip entries: all of them, in order.
PageOf(rows, list, skip) ==
  /\ Len(rows) = IF skip + PageSize < Len(list) THEN PageSize
                 ELSE IF skip < Len(list) THEN Len(list) - skip ELSE 0
  /\ \A i \in 1..Len(rows) : /\ skip + i \in 1..Len(list)
                             /\ rows[i] = Row(list[skip + i])

\* What stands in the inputs: the project, the chips, and the text once the pause is over.
Inputs == [project |-> panel.params.project, filters |-> panel.filters,
           query |-> IF panel.timer THEN panel.params.query ELSE panel.raw]

\* When requests do not overlap, the table is the page asked for of the issues that match
\* the inputs, none missing and none too many, under their number, as the run shown had
\* them at some time up to now.
Settled == Scoped /\ panel.load = "loaded" /\ shown.alone
TrueAt(m) ==
  LET list == Upto(Inputs, shown.run, m)
  IN  panel.total = Len(list) /\ PageOf(panel.rows, list, panel.params.offset)
SettledViewIsTrue == Settled => \E m \in 0..SizeOf(points, shown.run) : TrueAt(m)

\* "Project key input: scopes all searches to a specific project"
\* (ProjectInventorySearch.tsx:5).
ScopedToProject ==
  Scoped /\ panel.load = "loaded"
    => \A row \in Elements(panel.rows) : row.project = panel.params.project

\* The user pauses, the browser then fires its timer and settles its requests; nobody
\* owes a click, nor a row of the backup.
Fairness ==
  /\ WF_vars(Debounce)
  /\ \A k \in 1..MaxFetches : WF_vars(Lose(k) \/ Serve(k) \/ Deliver(k))
FairSpec == Spec /\ Fairness

\* What stays in the search box is searched for (the effect on rawQuery).
TypedIsSearched ==
  mounted /\ panel.raw # panel.params.query ~> ~mounted \/ panel.raw = panel.params.query
=============================================================================
