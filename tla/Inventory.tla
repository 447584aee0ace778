----------------------------- MODULE Inventory ------------------------------
(***************************************************************************)
(* The backup points of one site, as the runs of the backup write them     *)
(* through BackupPointRepository, and what InventoryRouter answers from    *)
(* the newest of them. A handler of the router reads the database without  *)
(* awaiting: its answer is an operator on the table as it stands.          *)
(*                                                                         *)
(* Text is abstracted to words: a query is the set of words typed, an      *)
(* issue has the set of words its summary contains.                        *)
(***************************************************************************)
EXTENDS Selection, Integers, FiniteSets

CONSTANTS
  Runs,     \* sequence of runs; a run is [entries, nodes]: the rows it appends to
            \* manifest_entries, and the nodes its manifest lists
  KeyLike,  \* the words that look like the key of an issue
  NoDate,   \* an end of the date range that is not given
  BadDate   \* one that Date.parse does not understand

\* An entry: [type, key, project, sub, ok, words, rich]. sub: its key has ":att:";
\* words: what its key contains; rich: what the payload file of the issue says, or
\* NoRich where there is none.
\* A node: [type, key, ok, words].
NoRich == [summary |-> {}, status |-> "none", labels |-> {}, updated |-> NoDate]

Statuses == {"none", "open", "done"}
ObjectTypes == {"JiraIssue", "JiraProject", "JiraBoard", "JiraSprint"}

\* The columns that hold a key are TEXT.
ASSUME RunsAssumption ==
  /\ Len(Runs) \in Nat
  /\ \A n \in 1..Len(Runs) :
       \A list \in {Runs[n].entries, Runs[n].nodes} :
         list \in Seq(Elements(list)) /\ \A x \in Elements(list) : x.key \in STRING

\* backup_points and manifest_entries, the newest point first: how many entries of
\* which run are there, and whether its manifest is. What the reads leave out, the
\* status of the point, is left out.
VARIABLE points

\* Of a point: the run that writes it, how many entries it has, is its manifest there?
PointState == [run : 1..Len(Runs), size : Nat, listed : BOOLEAN]

PointsOK ==
  /\ points \in Seq(PointState)
  /\ Len(points) <= Len(Runs)
  /\ \A k \in DOMAIN points : /\ points[k].run = Len(points) - k + 1
                              /\ points[k].size <= Len(Runs[points[k].run].entries)

NoPoints == points = <<>>

-----------------------------------------------------------------------------
(* BackupPointRepository                                                   *)

CreatePoint ==
  /\ Len(points) < Len(Runs)
  /\ points' = <<[run |-> Len(points) + 1, size |-> 0, listed |-> FALSE]>> \o points

\* Entries are only ever added, and read in the order in which they were captured.
InsertEntry ==
  /\ points # <<>>
  /\ points[1].size < Len(Runs[points[1].run].entries)
  /\ points' = [points EXCEPT ![1].size = @ + 1]

WriteManifest ==
  /\ points # <<>> /\ ~points[1].listed /\ Runs[points[1].run].nodes # <<>>
  /\ points' = [points EXCEPT ![1].listed = TRUE]

Backup == CreatePoint \/ InsertEntry \/ WriteManifest

EntriesNewestFirst(p) ==  \* mutant: ORDER BY captured_at DESC
  LET e == Runs[p.run].entries IN [i \in 1..p.size |-> e[p.size + 1 - i]]

EntriesOf(p) == SubSeq(Runs[p.run].entries, 1, p.size)

NodesOf(p) == IF p.listed THEN Runs[p.run].nodes ELSE <<>>

-----------------------------------------------------------------------------
(* What matches                                                            *)

IsExact(q) == \E w \in KeyLike : q = {w}

\* A query that is the key of an issue finds that issue; any other finds the issues
\* whose summary contains all its words.
SearchHit(e, q) ==
  IF IsExact(q) THEN q = {e.key} ELSE q \subseteq e.rich.summary

\* Filters that are not given: no status, no labels, no dates.
NoFilters == [status |-> {}, labels |-> {}, from |-> NoDate, to |-> NoDate]

\* status stands for the four filters on one value: empty, or the set of that value.
\* Every label has to be there. An issue without a date is in every range.
FilterHit(e, f) ==
  /\ f.status \subseteq {e.rich.status}
  /\ f.labels \subseteq e.rich.labels
  /\ e.rich.updated # NoDate =>
       /\ f.from # NoDate => e.rich.updated >= f.from
       /\ f.to # NoDate => e.rich.updated <= f.to

IsIssueOf(e, project) == e.type = "JiraIssue" /\ ~e.sub /\ e.project = project

KnownProject(p, project) ==
  \/ \E e \in Elements(EntriesOf(p)) :
        IsIssueOf(e, project) \/ (e.type = "JiraProject" /\ e.key = project)
  \/ \E n \in Elements(NodesOf(p)) : n.type = "JiraProject" /\ n.key = project

-----------------------------------------------------------------------------
(* InventoryRouter                                                         *)

\* What parseInt made of the two parameters, or less than any number for NaN.
OffsetOf(raw) == IF raw < 0 THEN 0 ELSE raw
LimitOf(raw) == IF raw < 1 THEN 50 ELSE IF raw > 200 THEN 200 ELSE raw

SliceInclusive(s, offset, limit) ==  \* mutant: the row at the end is taken too
  SubSeq(s, offset + 1, IF offset + limit < Len(s) THEN offset + limit + 1 ELSE Len(s))

Slice(s, offset, limit) ==
  SubSeq(s, offset + 1, IF offset + limit < Len(s) THEN offset + limit ELSE Len(s))

Refused(status) == [status |-> status, rows |-> <<>>, total |-> 0, run |-> 0]

\* A row of the table: the issue, and whether its capture succeeded.
Row(e) == [key |-> e.key, project |-> e.project, ok |-> e.ok]

Matched(r, p) ==
  Filter(EntriesOf(p),
         {e \in Elements(EntriesOf(p)) : /\ IsIssueOf(e, r.project)
                                         /\ SearchHit(e, r.query)
                                         /\ FilterHit(e, r.filters)})

\* GET /inventory/projects/:projectKey/issues
ProjectIssues(r) ==
  IF BadDate \in {r.filters.from, r.filters.to} THEN Refused(400)
  ELSE IF points = <<>> \/ ~KnownProject(points[1], r.project) THEN Refused(404)
  ELSE LET matched == Matched(r, points[1])
           page == Slice(matched, OffsetOf(r.offset), LimitOf(r.limit))
       IN  [status |-> 200, rows |-> [i \in DOMAIN page |-> Row(page[i])],
            total |-> Len(matched), run |-> points[1].run]

\* GET /inventory/summary: every entry of a type counts, attachments and failures too.
Summary ==
  [run |-> IF NoPoints THEN 0 ELSE points[1].run,
   counts |-> [t \in ObjectTypes |->
                 IF NoPoints THEN 0
                 ELSE Cardinality({i \in DOMAIN EntriesOf(points[1]) :
                                     EntriesOf(points[1])[i].type = t})]]

Card(x) == [type |-> x.type, key |-> x.key]

Nodes(w, types) == {n \in Elements(NodesOf(points[1])) : n.ok /\ w \in n.words /\ n.type \in types}

Issues(w) ==
  {e \in Elements(EntriesOf(points[1])) : e.type = "JiraIssue" /\ ~e.sub /\ w \in e.words}

SearchAny(w) ==  \* mutant: the types the bar has no card for are found too
  IF NoPoints THEN {}
  ELSE {Card(n) : n \in Nodes(w, {m.type : m \in Elements(NodesOf(points[1]))})}
       \cup {Card(e) : e \in Issues(w)}

\* GET /search: the nodes that were captured and the issues, captured or not, whose
\* name contains what was typed.
Search(w) ==
  IF NoPoints THEN {}
  ELSE {Card(n) : n \in Nodes(w, ObjectTypes \ {"JiraIssue"})} \cup {Card(e) : e \in Issues(w)}
=============================================================================
