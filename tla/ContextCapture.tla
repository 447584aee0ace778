--------------------------- MODULE ContextCapture ----------------------------
(***************************************************************************)
(* The first half of a backup: ProjectDiscoveryService finds the projects  *)
(* in scope, ContextNodeCaptureOrchestrator captures the context nodes in  *)
(* seven stages, and BackupPointManifestWriter persists every stage.       *)
(*                                                                         *)
(* Every list of Jira is read page by page, and anybody may edit it        *)
(* between two pages.  An action is one turn of the event loop: the        *)
(* answer to one request, up to the next request that goes out.            *)
(*                                                                         *)
(* The caller that joins the three is not in the repository.  As the       *)
(* comments say, the stage hook is appendStageSection, whose integrity     *)
(* error does not stop the backup, and finalize comes after run().         *)
(***************************************************************************)
EXTENDS Pagination, Selection, Integers, FiniteSets, SequencesExt

CONSTANTS
  Content,      \* [list -> sequence of ids]: what Jira holds at first; a list
                \* is <<kind, owner>>, such as <<"board", project>>
  NewIds,       \* ids of what may be created meanwhile
  ServiceDesk,  \* ids of projects that are out of scope
  Custom,       \* ids of fields that are custom
  MaxResults,   \* page size asked for
  Caps,         \* [some kinds of list -> page size]: what a server may serve at most
  MaxEdits      \* bound: edits made at Jira

ASSUME PageAssumption ==
  MaxResults \in Nat \ {0} /\ \A c \in Caps : \A k \in DOMAIN c : c[k] \in Nat \ {0}
ASSUME EditAssumption == MaxEdits \in Nat

VARIABLES
  \* Jira
  jira,      \* [list -> sequence of ids]
  edits,     \* how often it was edited
  cap,       \* the largest pages it serves of some kinds of list
  \* the process
  pc,        \* what it awaits, or how it ended
  stage,     \* 0: discovery; 1..7: the stage being captured
  todo,      \* lists the stage has yet to read, the one being read first
  cursor,    \* of the list being read
  got,       \* entries of the stage so far
  reported,  \* total reported for the stage so far
  skipped,   \* ids the stage skipped
  projects,  \* projects in scope
  gap,       \* what the discovery reports as missing: pagination.gap of its result
  halted,    \* a stage failed
  broken,    \* integrityErrors > 0
  \* the database
  point      \* the row of backup_points with its manifest

jiraVars == <<jira, edits, cap>>
stageVars == <<stage, todo, cursor, got, reported, skipped>>
vars == <<jiraVars, pc, stageVars, projects, gap, halted, broken, point>>

\* What each stage reads: a list of the site, or one for every project or board.
Kinds == <<"issue_type", "field", "field_configuration", "workflow", "workflow_scheme",
           "board", "sprint">>
LastStage == 7
BoardStage == 6
FieldStage == 2
Site == "site"

Ids == NewIds \cup UNION {Range(Content[l]) : l \in DOMAIN Content}
Owners == Ids \cup {Site}
ASSUME ContentAssumption == Content \in [DOMAIN Content -> Seq(Ids)]

\* total is NoTotal in the section of a stage that failed.
NoTotal == -1
Section == [stage : 1..LastStage, captured : Nat, skipped : Nat, total : Nat \cup {NoTotal}]
Entry == [stage : 1..LastStage, id : Ids, owner : Owners]

PC == {"idle", "page", "discovered", "returned", "finalised", "rejected", "gone"}

TypeOK ==
  /\ DOMAIN jira = DOMAIN Content /\ \A l \in DOMAIN jira : jira[l] \in Seq(Ids)
  /\ edits \in 0..MaxEdits /\ cap \in Caps
  /\ pc \in PC
  /\ stage \in 0..LastStage
  /\ \A k \in DOMAIN todo : todo[k][2] \in Owners
  /\ cursor \in [items : Seq(Ids), total : Nat, pages : Nat]
  /\ got \in Seq(Entry)
  /\ reported \in Nat
  /\ skipped \in Seq(Ids)
  /\ projects \in Seq(Ids) /\ gap \in Int
  /\ halted \in BOOLEAN /\ broken \in BOOLEAN
  /\ point \in [status : {"none", "in_progress", "completed", "completed_with_errors", "halted"},
                sections : Seq(Section), entries : Seq(Entry)]

Init ==
  /\ jira = Content /\ edits = 0 /\ cap \in Caps
  /\ pc = "idle"
  /\ stage = 0
  /\ todo = <<>>
  /\ cursor = Start
  /\ got = <<>> /\ reported = 0 /\ skipped = <<>>
  /\ projects = <<>> /\ gap = 0
  /\ halted = FALSE /\ broken = FALSE
  /\ point = [status |-> "none", sections |-> <<>>, entries |-> <<>>]

-----------------------------------------------------------------------------
(* BackupPointManifestWriter                                               *)

ConsistentLoose(s) ==  \* mutant: a list that was cut short passes
  s.total # NoTotal => s.captured + s.skipped <= s.total

\* The integrity invariant of a section; it is not checked without a total.
Consistent(s) ==
  s.total # NoTotal => s.captured + s.skipped = s.total

\* persistSnapshot: everything so far, under a status.
Snapshot(status, sections, entries) ==
  [status |-> status, sections |-> sections, entries |-> entries]

AppendedIfAny(p, s, entries) ==  \* mutant: an empty stage is not persisted
  IF entries = <<>> THEN p
  ELSE Snapshot(IF Consistent(s) THEN "in_progress" ELSE "completed_with_errors",
                Append(p.sections, s), p.entries \o entries)

\* appendStageSection: the manifest is persisted with one more section, and the
\* point is in progress again unless the section is inconsistent.
Appended(p, s, entries) ==
  Snapshot(IF Consistent(s) THEN "in_progress" ELSE "completed_with_errors",
           Append(p.sections, s), p.entries \o entries)

StampedAlways(p) ==  \* mutant: every snapshot is stamped as finalised
  p.status # "none"

\* The manifest has a finalisedAt.
Stamped(p) == p.status \notin {"none", "in_progress"}

\* validate: what a reader checks who has the manifest and no more.
Valid(p) == Stamped(p) /\ \A n \in DOMAIN p.sections : Consistent(p.sections[n])

\* finalize: integrity errors turn completed into completed_with_errors.
FinalStatus(status) ==
  IF broken /\ status # "halted" THEN "completed_with_errors" ELSE status

-----------------------------------------------------------------------------
(* Reading                                                                 *)

Held(l) == IF l \in DOMAIN jira THEN jira[l] ELSE <<>>
Flat(l) == l[1] \in {"issue_type", "field"}

\* How much a page of a list holds: what was asked for, or what the server serves.
PageSize(l) == IF l[1] \in DOMAIN cap /\ cap[l[1]] < MaxResults THEN cap[l[1]] ELSE MaxResults

\* What Jira answers to the request that is out, and the cursor after it.
Page ==
  LET l == Head(todo)
  IN  IF Flat(l) THEN FlatPage(Held(l))
      ELSE ServedPage(Held(l), StartAt(cursor), PageSize(l))
After == Advance(cursor, Page)
Complete == Terminates(After, Page, MaxResults)

\* The loop asks for the next page.
MorePages ==
  /\ pc = "page" /\ ~Complete
  /\ cursor' = After
  /\ UNCHANGED <<jiraVars, pc, stage, todo, got, reported, skipped, projects, gap, halted, broken,
                 point>>

-----------------------------------------------------------------------------
(* ProjectDiscoveryService.discoverProjects                                *)

Discover ==
  /\ pc = "idle"
  /\ pc' = "page"
  /\ todo' = << <<"project", Site>> >>
  /\ UNCHANGED <<jiraVars, stage, cursor, got, reported, skipped, projects, gap, halted, broken,
                 point>>

InScope == Ids \ ServiceDesk

\* All projects are fetched; those that Jira reported and did not serve are the gap,
\* which nobody acts upon.
Discovered ==
  /\ pc = "page" /\ stage = 0 /\ Complete
  /\ pc' = "discovered"
  /\ projects' = Filter(After.items, InScope)
  /\ gap' = After.total - Len(After.items)
  /\ todo' = <<>> /\ cursor' = Start
  /\ UNCHANGED <<jiraVars, stage, got, reported, skipped, halted, broken, point>>

DiscoveryFails ==
  /\ pc = "page" /\ stage = 0
  /\ pc' = "rejected"
  /\ UNCHANGED <<jiraVars, stageVars, projects, gap, halted, broken, point>>

-----------------------------------------------------------------------------
(* ContextNodeCaptureOrchestrator.run                                      *)

OfStage(entries, n) == Filter(entries, [stage : {n}, id : Ids, owner : Owners])

ListsOfToday(n, entries) ==  \* mutant: boards and sprints of whatever Jira holds now
  CASE n < BoardStage -> << <<Kinds[n], Site>> >>
    [] n = BoardStage -> [i \in DOMAIN projects |-> <<"board", projects[i]>>]
    [] n > BoardStage -> LET boards == FlattenSeq([i \in DOMAIN projects |->
                                                     Held(<<"board", projects[i]>>)])
                         IN  [i \in DOMAIN boards |-> <<"sprint", boards[i]>>]

\* The lists stage n reads: boards of the projects in scope, sprints of the boards
\* that were captured.
ListsOf(n, entries) ==
  CASE n < BoardStage -> << <<Kinds[n], Site>> >>
    [] n = BoardStage -> [i \in DOMAIN projects |-> <<"board", projects[i]>>]
    [] n > BoardStage -> LET boards == OfStage(entries, BoardStage)
                         IN  [i \in DOMAIN boards |-> <<"sprint", boards[i].id>>]

NothingRead(n) == [stage |-> n, captured |-> 0, skipped |-> 0, total |-> 0]

\* The stages after n that have no list to read are complete in the same turn.
WithoutLists(p, n) ==
  IF n = LastStage THEN p
  ELSE [p EXCEPT !.status = "in_progress",
                 !.sections = @ \o [k \in 1..(LastStage - n) |-> NothingRead(n + k)]]

\* Stage n is in the manifest p: the next one begins, or run() returns.
BeginAfter(n, p) ==
  \/ /\ n < LastStage /\ ListsOf(n + 1, p.entries) # <<>>
     /\ stage' = n + 1
     /\ todo' = ListsOf(n + 1, p.entries)
     /\ cursor' = Start /\ got' = <<>> /\ reported' = 0 /\ skipped' = <<>>
     /\ point' = p
     /\ UNCHANGED pc
  \/ /\ n < LastStage => ListsOf(n + 1, p.entries) = <<>>
     /\ pc' = "returned"
     /\ todo' = <<>>
     /\ point' = WithoutLists(p, n)
     /\ UNCHANGED <<stage, cursor, got, reported, skipped>>

\* The stage has all its lists: its section is persisted by the hook, then the next
\* begins.
CloseStage(entries, total, skip) ==
  LET s == [stage |-> stage, captured |-> Len(entries), skipped |-> Len(skip), total |-> total]
  IN  /\ \E p \in {Appended(point, s, entries)} : BeginAfter(stage, p)
      /\ broken' = (broken \/ ~Consistent(s))

\* The stage has one list less to read; more are those it found in this one.
ListDone(entries, total, skip, more) ==
  LET lists == more \o Tail(todo)
  IN  IF lists = <<>>
      THEN CloseStage(entries, total, skip)
      ELSE /\ todo' = lists /\ cursor' = Start
           /\ got' = entries /\ reported' = total /\ skipped' = skip
           /\ UNCHANGED <<pc, stage, broken, point>>

\* The caller: new BackupPointManifestWriter, then run() with what was discovered.
Run ==
  /\ pc = "discovered"
  /\ pc' = "page"
  /\ stage' = 1
  /\ todo' = ListsOf(1, <<>>)
  /\ cursor' = Start
  /\ point' = [point EXCEPT !.status = "in_progress"]
  /\ UNCHANGED <<jiraVars, got, reported, skipped, projects, gap, halted, broken>>

EntriesFrom(n, l, ids) == [i \in DOMAIN ids |-> [stage |-> n, id |-> ids[i], owner |-> l[2]]]

\* A list is complete whose items are the entries.
ListRead ==
  /\ pc = "page" /\ stage > 0 /\ Complete
  /\ Head(todo)[1] \notin {"field", "context"}
  /\ ListDone(got \o EntriesFrom(stage, Head(todo), After.items), reported + After.total, skipped,
              <<>>)
  /\ UNCHANGED <<jiraVars, projects, gap, halted>>

\* The fields: system fields are skipped, for a custom one its contexts are read.
FieldsRead ==
  /\ pc = "page" /\ Complete
  /\ Head(todo)[1] = "field"
  /\ LET custom == Filter(After.items, Custom)
         system == Filter(After.items, Ids \ Custom)
     IN  ListDone(got, After.total, system, [i \in DOMAIN custom |-> <<"context", custom[i]>>])
  /\ UNCHANGED <<jiraVars, projects, gap, halted>>

\* The contexts of a custom field were read, or could not be: the field is captured
\* either way.
FieldCaptured ==
  /\ pc = "page"
  /\ Head(todo)[1] = "context"
  /\ ListDone(Append(got, [stage |-> stage, id |-> Head(todo)[2], owner |-> Site]),
              reported, skipped, <<>>)
  /\ UNCHANGED <<jiraVars, projects, gap, halted>>

StageFailsAgain ==  \* mutant: the stage is tried again, as often as it fails
  /\ pc = "page" /\ stage > 0
  /\ Head(todo)[1] # "context"
  /\ todo' = ListsOf(stage, point.entries)
  /\ cursor' = Start /\ got' = <<>> /\ reported' = 0 /\ skipped' = <<>>
  /\ UNCHANGED <<jiraVars, pc, stage, projects, gap, halted, broken, point>>

StageFailsAsStatus ==  \* mutant: the outcome of the stage becomes the status of the point
  /\ pc = "page" /\ stage > 0
  /\ Head(todo)[1] # "context"
  /\ point' = [Appended(point, [stage |-> stage, captured |-> 0, skipped |-> 0,
                                total |-> NoTotal], <<>>) EXCEPT !.status = "error"]
  /\ halted' = TRUE
  /\ pc' = "returned"
  /\ UNCHANGED <<jiraVars, stageVars, projects, gap, broken>>

\* A request is rejected: the stage is persisted as an empty section without a total,
\* and run() returns.
StageFails ==
  /\ pc = "page" /\ stage > 0
  /\ Head(todo)[1] # "context"
  /\ point' = Appended(point, [stage |-> stage, captured |-> 0, skipped |-> 0, total |-> NoTotal],
                       <<>>)
  /\ halted' = TRUE
  /\ pc' = "returned"
  /\ UNCHANGED <<jiraVars, stageVars, projects, gap, broken>>

\* The caller finalises the point.
Finalize ==
  /\ pc = "returned"
  /\ point' = [point EXCEPT !.status = FinalStatus(IF halted THEN "halted" ELSE "completed")]
  /\ pc' = "finalised"
  /\ UNCHANGED <<jiraVars, stageVars, projects, gap, halted, broken>>

-----------------------------------------------------------------------------
(* Jira and the process                                                    *)

\* Somebody adds to a list or takes from it, between two pages.
Edit(l) ==
  /\ pc = "page" /\ edits < MaxEdits
  /\ edits' = edits + 1
  /\ \/ \E i \in 1..(Len(jira[l]) + 1), x \in NewIds :
          /\ x \notin Range(jira[l])
          /\ jira' = [jira EXCEPT ![l] = InsertAt(@, i, x)]
     \/ \E i \in DOMAIN jira[l] : jira' = [jira EXCEPT ![l] = RemoveAt(@, i)]
  /\ UNCHANGED <<cap, pc, stageVars, projects, gap, halted, broken, point>>

\* The process dies; nothing takes the run up again.
Crash ==
  /\ pc \in {"page", "discovered", "returned"}
  /\ pc' = "gone"
  /\ UNCHANGED <<jiraVars, stageVars, projects, gap, halted, broken, point>>

-----------------------------------------------------------------------------
Work ==
  \/ Discover \/ Discovered \/ DiscoveryFails
  \/ Run \/ Finalize
  \/ MorePages \/ ListRead \/ FieldsRead \/ FieldCaptured \/ StageFails

Next ==
  \/ Work
  \/ \E l \in DOMAIN jira : Edit(l)
  \/ Crash

Spec == Init /\ [][Next]_vars

\* Jira answers, and the caller goes on.
FairSpec == Spec /\ WF_vars(Work)

-----------------------------------------------------------------------------
(* Properties.                                                             *)

EntriesIn(n) == OfStage(point.entries, n)
PlacesOf(n) == {k \in DOMAIN point.entries : point.entries[k].stage = n}

\* No request of a stage goes out before every stage before it is in the database,
\* in order, and what a section counts is what the manifest holds: a crash at any
\* request loses the stage in hand and no other (BackupPointRepository.ts, "Called
\* after every stage to ensure durability at each phase boundary").
PersistedInOrder ==
  /\ pc = "page" /\ stage > 0 => Len(point.sections) = stage - 1
  /\ \A n \in DOMAIN point.sections :
       point.sections[n].stage = n /\ point.sections[n].captured = Cardinality(PlacesOf(n))
  /\ \A k \in DOMAIN point.entries : point.entries[k].stage <= Len(point.sections)

\* The manifest refers to nothing it does not hold, however boards and projects come
\* and go: a sprint is of a captured board, a board of a project in scope (strict
\* order of the stages, context-capture-pipeline.md section 1).
NoDanglingReference ==
  /\ \A k \in PlacesOf(LastStage) :
       \E b \in PlacesOf(BoardStage) : point.entries[k].owner = point.entries[b].id
  /\ \A k \in PlacesOf(BoardStage) : point.entries[k].owner \in Range(projects) \ ServiceDesk

\* What a stage keeps of a list, in the order of the list: of the fields the custom ones.
Wanted(n, l) == IF n = FieldStage THEN Filter(Held(l), Custom) ELSE Held(l)

\* A point that is completed has all stages, none failed and each as long as Jira
\* said. If nobody edited Jira meanwhile, every stage holds, item by item, what Jira
\* holds of the projects that were discovered, also when the server serves smaller
\* pages of some lists than it is asked for. That these are all projects in scope no
\* status tells, only the gap that the discovery returns
\* (ProjectDiscoveryService.ts:190): where it returns none, none is missing.
CompletedIsWhole ==
  point.status = "completed" =>
    /\ Len(point.sections) = LastStage
    /\ \A s \in Range(point.sections) : s.total # NoTotal /\ Consistent(s)
    /\ edits = 0 =>
         /\ gap = 0 => projects = Filter(Held(<<"project", Site>>), InScope)
         /\ \A n \in 1..LastStage :
              LET lists == ListsOf(n, point.entries)
              IN  EntriesIn(n) = FlattenSeq([i \in DOMAIN lists |->
                                               EntriesFrom(n, lists[i], Wanted(n, lists[i]))])

\* The validator tells a backup that ended from one that did not, wherever the
\* process died: what it accepts was finalised, and has all stages or is marked as
\* halted; what precedes the stage that failed is there then, as long as Jira said. What
\* is completed it accepts ("Runnable standalone against any persisted manifest",
\* BackupPointManifestWriter.ts:286).
ValidIsFinal ==
  /\ point.status = "completed" => Valid(point)
  /\ Valid(point) =>
       /\ pc = "finalised"
       /\ point.status = IF halted THEN "halted" ELSE "completed"
       /\ ~halted => Len(point.sections) = LastStage
       /\ halted => /\ point.sections # <<>>
                    /\ \A n \in 1..(Len(point.sections) - 1) : point.sections[n].total # NoTotal

\* Reading comes to an end while the lists are edited, and the run with it: pages
\* are not asked for ever, and every end but a crash or a failed discovery finalises
\* the point.
RunEnds == (pc = "page") ~> pc \in {"finalised", "rejected", "gone"}
=============================================================================
