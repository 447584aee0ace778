# A formal model of the Jira backup and restore workload

This directory holds TLA+ specifications of the program in `src/` (the server),
`frontend/` (the React client) and `db/`, the TLC configurations that
model-check them, and proofs for TLAPS. Paths below are relative to the
repository. `PROJECT.json` maps every definition to the lines it models and
lists components, runs, mutants, hazards, findings and theorems.

- [1. The system](#1-the-system): components, state, interactions, what is hard
- [2. The modules](#2-the-modules): what models which code, and how
- [3. The runs](#3-the-runs): what each one shows, its bounds
- [4. Fairness](#4-fairness)
- [5. The proofs](#5-the-proofs)
- [6. Observations](#6-observations): where code and documents disagree
- [7. What is not modelled](#7-what-is-not-modelled)
- [8. Plan](#8-plan)

## 1. The system

One Node process serves an Express API over one SQLite database. SQLite is
synchronous (better-sqlite3): a handler or a timer callback runs to its next
`await` before anything else does. What interleaves are therefore *turns of the
event loop*: the continuation after an awaited call of Jira, a timer that is due,
a request of a client. Every model takes one turn as one action. The database
survives a crash of the process, everything else does not, and `server.ts` takes
up no unfinished work when it starts.

| Component | Code | State | Operations | Interacts with |
|---|---|---|---|---|
| Restore worker and engine | `src/restore/RestoreWorker.ts`, `RestoreEngine.ts`, `RestorePhaseHandlers.ts` | its position, two timers, its own stalled flag | run, seven phases, conflict polling, heartbeat, stall check | store, Jira, event bus |
| Restore job store | `RestoreJobStore.ts` | `restore_jobs`, `restore_conflicts`, `downloadPaths` in memory | create, phase updates, status, heartbeat, conflict rows | worker, router |
| Restore router, event bus | `RestoreJobRouter.ts`, `RestoreEventBus.ts` | SSE responses | POST a job, GET, GET events, POST a decision | store, worker, wizard |
| Trash window checker | `TrashWindowChecker.ts` | none | is a project in the trash? | Jira |
| Download assembler, metrics | `BrowserDownloadAssembler.ts`, `RestoreMetrics.ts` | files, counters | build an archive; count | worker |
| Issue capture | `src/capture/IssueCaptureOrchestrator.ts` | counts, position | search, read, download, scan, per-item failure | emitter, manifest, Jira |
| Context node capture | `src/capture/ContextNodeCaptureOrchestrator.ts` | stage results | seven stages in order, halt at the first error | pagination, manifest writer |
| Project discovery | `src/discovery/*` | none | list projects, set service desks aside | pagination |
| Pagination | `src/pagination/paginateAtlassian.ts` | cursor of a loop | read a list page by page | Jira |
| Backup point manifest | `src/manifest/*` | `backup_points`, `manifest_entries`, sections in memory | append a stage, append an entry, finalize, validate | both captures, inventory |
| Heartbeat, job store, stall detector | `src/jobs/*` | `jobs`, `job_events`, `job_errors`; timer; set of stalled ids | beat, tick, complete, check, recover | issue capture, job router |
| Job router | `src/jobs/JobRouter.ts` | SSE responses | subscribe with replay | job event bus |
| Jira HTTP client | `src/http/JiraHttpClient.ts` | `refreshInFlight` | call, refresh after a 401, one retry, rate limits | repository, authorization server |
| Credential repository | `src/db/JiraCredentialRepository.ts` | `jira_credentials` | upsert, rotate, read | client, login |
| OAuth login, manual connection | `src/auth/*`, `src/connections/*` | map of states | start, callback; verify and store | repository, authorization server |
| Inventory router | `src/inventory/InventoryRouter.ts` | none; reads points, entries, manifests and payload files | summary, search over all types, search in a project with filters and pages | backup point repository, panel, bar |
| SDI scanner, blob store, workload configuration, fault injection, backup metrics | `src/sdi`, `src/backup`, `src/workload`, `src/fault-injection`, `src/metrics` | files, one row, counters | scan, store, count | issue capture |
| Issues panel | `frontend/src/components/ProjectInventorySearch.tsx`, `InventoryView.tsx`, `api/jira.ts` | text, pause, filters, project, page, rows, total | type, filter, choose a project, turn pages | inventory router |
| Search bar, sidebar | `GlobalSearchBar.tsx`, `InventorySidebar.tsx` | text, pause, results, dropdown; counts | type, open, close, choose a card; read once | inventory router |
| Restore wizard | `frontend/src/components/RestoreWizard.tsx` | step, form, polls, stall timer, prompt | six steps, start a job, poll, decide | restore router |
| Other frontend components | `frontend/src` | fetched data | onboarding, display | connections, login |

What is hard, and what each component must get right:

- **Restore.** The worker waits on Jira, on an operator and on two timers, and
  each can be answered while the others are due. Correct is: writes in dependency
  order, no project written or left against the mode and the decisions, one
  conflict at a time, a failure that halts where it happened, an end that is final
  and leaves nothing running, a stall flag that means silence.
- **Backup.** Failures of single items are recorded in four places that must agree;
  a crash must not leave an entry that says ok without its file; the verdict of the
  job, the stall detector and the streams must agree with it.
- **Context capture.** Lists are read page by page while people edit them; each
  stage is durable when the next begins; completed must mean whole.
- **Credentials.** Refresh tokens rotate: spending one twice, or losing the answer,
  locks the connector out. Concurrent 401s, logins and crashes meet here.
- **Wizard.** Clicks, the start request and overlapping polls are answered in any
  order; what is on screen must be true of the job.

- **Inventory.** Pages of a list are read one by one while a backup appends to it or
  starts a new point; text is searched after a pause, in which pages are turned and
  filters set; no request is ever withdrawn and answers come in any order. What the
  panel shows must be what its inputs say, at least when requests do not overlap.

The hazards of `PROJECT.json` give the line where each bites, and the
properties that cover it.

## 2. The modules

| Module | Models | Kind |
|---|---|---|
| `RestoreLifecycle` | what a restore job promises its operator | abstract |
| `RestoreJob` | worker, engine, handlers, store, router and streams | detailed, implements `RestoreLifecycle` |
| `RestoreJobProofs` | | theorems about `RestoreJob` |
| `RestoreWizard` | the wizard, EXTENDS `RestoreJob` as its server | composition |
| `RestoreWizardProofs` | | theorems about `RestoreWizard`, on top of `RestoreJobProofs` |
| `BackupLedger` | what a backup run promises to readers of its point | abstract |
| `BackupJob` | issue capture, emitter, detector, polled summary, job stream, finalize | detailed, implements `BackupLedger` |
| `BackupJobProofs` | | theorems about `BackupJob`, which implements `BackupLedger` |
| `Selection` | `Array.prototype.filter`, as a function over the prefixes of a list | operators |
| `ListProofs` | | induction on lists; joining, appending, cutting, filtering, flattening |
| `Pagination` | the loop of `paginateAtlassian` as operators on its cursor | operators |
| `ContextCapture` | discovery, seven stages, manifest sections | detailed |
| `ContextCaptureProofs` | | theorems about `ContextCapture` |
| `Credentials` | login, state store, token row, refresh mutex | detailed |
| `CredentialsProofs` | | theorems about `Credentials` |
| `Inventory` | the backup points of a site and what the inventory router answers from them | state of the database, operators |
| `ProjectSearch` | the issues panel over `Inventory` | composition |
| `ProjectSearchProofs` | | theorems about `ProjectSearch` |
| `GlobalSearch` | search bar and sidebar over `Inventory` | composition |
| `GlobalSearchProofs` | | theorems about `GlobalSearch` |
| `MC*` | instances for TLC | |

Each definition keeps the name of the code where there is one. Definitions
marked `\* mutant` are faults the properties were tested against: each is a
plausible mistake in the definition after it, and the run finds it. They are part
of no specification.

### RestoreJob

An action is one turn of the worker (`TrashPasses`, `ProbeThenWrite`,
`ProbeThenSkip`, `ProbeThenAsk`, `PollOverride`, `PollSkip`, `ProjectWritten`,
`StubNextCall`, `StubNextPhase`, `Complete`, `CallFails`, ...), a timer
(`Heartbeat`, `CheckStall`, `Recover` inside them), a request (`PostJob`,
`PostDecision`, `Subscribe`, `Disconnect`), or the environment (`Tick`,
`TrashProject`, `Crash`, `Restart`). `pc[j]` says which call the worker awaits;
the guards of the code between two awaits are the case distinctions of the
actions. What the handlers write into the row in one turn (`EnterPhase`,
`SetFailed`, `SetCompleted`, `StopWorker`, `PublishComplete`) is composed from one
operator per method of the store or worker.

Phase 1 is modelled project by project, with probe, conflict, decision and write.
Phases 2 to 7 make a fixed number of calls over the mock data of the repository;
`StubCalls` gives that number. `probe`, `outcome` and `touched` are history
variables: what Jira said about a project, what was done with it, which phases
sent writes. `site` is Jira: `"absent"`, `"original"` or the job that wrote it.

`RestoreLifecycle` has neither workers, phases nor crashes: a job is accepted,
raises conflicts one at a time, takes answers, settles each project position once
in a way the answer or mode allows, and finishes or fails. The refinement mapping
`Todo` is the set of project positions a job has to settle; status, conflicts and
outcomes map to themselves.

### BackupJob

`pc` and `at` say which read, download or scan of which item the run awaits;
items are `<<project, issue, attachment>>`, with attachment 0 for the issue itself.
The orchestrator, the heartbeat emitter, the job store and the manifest keep
separate counts in the code and in the model (`total`, `emitter`, `errors`,
`entries`). `row.processed` and `row.failed` are written by heartbeats, as in the
code. `age` counts clock units since the last heartbeat and stops one above the
threshold. `Check` is one pass of the stall detector with its recovery branch.
`JobSummary` is the answer to `GET /jobs/:jobId`, `Created` and `Heard` are what a
stream was sent.

`BackupLedger` gives every item one of open, ok and error; an item is settled once,
and the verdict is given once and is computed from the settled items. The mapping
reads the ledger off `manifest_entries`.

### ContextCapture and Pagination

A list of Jira is `<<kind, owner>>`, such as the boards of a project. An action is
the answer to one request, up to the next request: `MorePages` when the loop goes
on, otherwise the end of a list, which may close a stage, persist its section and
begin the next, all in one turn, as in the code. `Edit` inserts or removes an id at
any position of any list between two pages. `cap` gives for some kinds of list a page
size the server may enforce below the one asked for; `paginateAtlassian` takes the short
page for the last one. In a stage the integrity check of `appendStageSection` finds out;
in the discovery nothing checks, and only `gap` (`pagination.gap` of its result) tells.
`Snapshot` is the manifest a reader finds at any time, and `Valid` what `validate()`
says of it.
`owner` of an entry is the project or board it was read for; in the manifest that
is part of the captured object.

The repository has no caller that joins discovery, `run()`, the stage hook and
`finalize()`. The model has the one its comments describe: the hook is
`appendStageSection`, whose `ManifestIntegrityError` does not end the backup
("the backup continues but status becomes 'completed_with_errors'"), and the point
is finalised as `halted` or `completed` after `run()`.

### Credentials

A pair of tokens is the number under which the authorization server issued it, so
freshness is a comparison. `Send` to `Resent` follow one call through
`JiraHttpClient.execute`; `Refreshed` persists the pair, releases the mutex and
resends every call that waited, in one turn. Two clients of one site are two
elements of `Clients`, as the routers create one per request. Expiry of access
tokens, lapse of states, loss of answers (`RefreshFails` after `Grant`) and crashes
are steps of the environment; `lost` remembers that an issued pair never reached
the table. The two reads of a login (accessible sites, profile) are one step.

### RestoreWizard

It EXTENDS `RestoreJob`; every server step of it is a step of `RestoreJob`. Polls
are requests in `MaxPolls` slots that are answered (`ServePoll`) and arrive
(`PollArrives`) in any order, or fail. `quiet` counts poll periods since a poll
brought a state, for the stall timer of the wizard. Clock, heartbeats and streams
of the server are left out, because the wizard reads nothing they write.
`server.ts` mounts the restore router at `/api`, the wizard calls
`/restore/jobs`: the model takes the router as mounted where the wizard calls it.
`FormsAssumption` says that `Requests` has every combination of what the steps fill, as
the form lets the operator combine them freely; `JobsAssumption` that the id `NoJob` is
none of a job.

### Inventory, ProjectSearch and GlobalSearch

`Runs` is a constant: the entries and nodes each run of the backup will write.
`points` says how far they have come, newest point first; `CreatePoint`,
`InsertEntry` and `WriteManifest` are the statements of `BackupPointRepository`. A
handler of the router reads the database without awaiting, so its answer is an
operator on `points` (`ProjectIssues`, `Search`, `Summary`) that `Serve` evaluates in
one step. Text is abstracted to the set of words it consists of, and only what looks
like the key of an issue is told apart, because the router searches it differently.
The four filters on one value behave alike and are one (`status`). Capture times order
entries; ties, which the code leaves to SQLite, are taken in order of insertion.

An action of the panel is an event of the page together with the effects that follow
it: `Fetch` is `setFetchParams` with the fetch effect. `fetches` holds the requests
under way; `Serve`, `Deliver` and `Lose` take any of them. The panel makes an
`AbortController` and does not hand it to `fetch`, so nothing is withdrawn.
`SelectOther` unmounts the panel, `SelectIssues` mounts it afresh. Lists are filtered by
`Filter` of `Selection`; `SelectSeq` of the standard modules says the same, but the provers
know nothing of it.
`shown` and `mixed` are history: which request the rows on screen answer, and whether
requests overlapped or two points answered. `App.tsx` does not mount `InventoryView`;
the model takes it as mounted, the way its own header describes.

## 3. The runs

Passing runs:

| Run | Question | Instance |
|---|---|---|
| `restore_core` | Is one job correct at every point, through conflicts, failures, timers, a subscriber and a crash, and does it implement the lifecycle? | two projects; every mode, scope and destination; a fixed number of calls per later phase, as for the mock data of one issue; one crash |
| `restore_live` | Do jobs that ask nobody end, and are accepted decisions carried out? | trash checker on, no crash |
| `backup` | Do the four records of a backup agree, is its verdict honest, does it end, is a stall seen, also after a crash? Does it implement the ledger? | three projects (two issues, none, one), three attachments, scanner, one crash |
| `wizard_core` | Is what the wizard starts and shows true? | one job, eight forms (in place or elsewhere, all or by key, skip or ask), two polls outstanding, one lost answer |
| `credentials` | Can refreshes, logins and crashes lock the connector out? | two clients of a site, three calls, two callbacks with one state, three pairs, one crash |
| `capture` | Is a completed backup point whole for the projects discovered and in order, whatever is edited, capped or rejected, and does the validator accept what is finished and nothing else? | two projects with a shared board, a service desk, pages of two, or of one for either projects and sprints or boards, two edits, one crash |
| `project_search` | Do pages, filters, text and projects fit together in the panel while backups go on? | project A with three issues, one of them failed, B with one; a second point with fewer; pages of two; three requests |
| `global_search` | Does the dropdown answer the box? | two points, words of an issue, of a board and of both, two searches |

Violation runs, each with one property that a document or a comment states and the
code does not keep (section 6): `restore_skip_race`, `backup_omission`,
`wizard_late`, `search_scope`.

What the properties say, beyond one type invariant per module:

- `restore_core`: `OneConflictAtATime` relates status, conflict rows and the
  worker's position; `HonoursMode` what Jira said, what was asked, decided and
  done; `DependencyOrder` the writes sent with the progress persisted;
  `CompletedMeansRestored` and `TerminalIsQuiet` the end; `FailureHalts` the phase that
  failed with what was written and what the row goes on to say; `StalledMeansSilent` the
  flag on the row with the worker's copy and the clock; `RefinesLifecycle` everything the
  operator sees.
- `restore_live`: `JobsEnd`, `DecisionTakesEffect`.
- `backup`: `BooksAgree` the four records of failure and the polled summary;
  `VerdictIsHonest` and `OkIsOnDisk` also for what a crash leaves; `StallAgreement`
  row, detector and clock; `EndIsTold` the terminal event in streams opened before and
  after it; `KeepsLedger` the refinement; `RunEnds` and `SilenceSurfaces` progress.
- `wizard_core`: `JobIsWhatWasReviewed` (Back stays enabled while a start is under
  way) and `ShownEndIsReal`.
- `credentials`: `MutexHeld`, `RowIsUsable`, `RetryIsFresh`.
- `capture`: `PersistedInOrder`, `NoDanglingReference`, `CompletedIsWhole` (the stages
  against what Jira holds of the projects discovered, and these against the gap),
  `ValidIsFinal` (what the validator accepts was finalised; what precedes a failed stage
  is there), `RunEnds`.
- `project_search`: `PagesAgree` (a row stands at one position, whatever is appended between
  two pages), `EmptyPageIsExplained` (paging alone never leads past the end),
  `SettledViewIsTrue` (when requests do not overlap, the table is the page asked for of what
  matches project, chips and text, with none missing and the right total), `TypedIsSearched`
  (no click during the pause makes the text forgotten).
- `global_search`: `DropdownAnswersTheBox` (neither a chosen card nor a cleared box
  leaves old results behind).

Why the bounds are enough to be interesting:

- Two projects let a conflict follow a conflict, a failure follow a write, and a
  skip precede an override; one job, because jobs share nothing but Jira, which
  `restore_skip_race` looks at with two. `StaleThreshold = 1` gives a silence that
  is within and one that is beyond. The proofs of section 5 hold for all values.
- An issue can fail at any of its reads, and each of its attachments, and the scan, on its
  own: after none, one or both of the others were handled; an empty project exercises the step
  from project to project; crashes come at every await, and a second crash finds nothing that
  runs.
- Three pairs allow a login during a refresh and a refresh of its result; with
  `MaxPairs = 4` the run passes too. One site, because `RowIsUsable` fails with two
  (section 6). Calls `c1`, `c2` of the same client are interchangeable, hence the
  symmetry; no liveness is checked in that run.
- Lists of one to three items with pages of two, or one when capped, make a full, a
  short, an empty and a last page. A cap on projects loses two of three without
  any stage noticing, and the point is completed; a cap on boards is noticed, unless edits
  shorten the lists. Two edits let one list shrink and another grow.
- Two points, of which the second is smaller, let the total shrink under an open page;
  three requests allow two that overlap and one after them. Of the three issues of A two
  share a label, two a word, and one mentions the key of another.
- `StallPeriods = 1` lets the stall timer of the wizard fire after any silent
  period; no property depends on how long it is.

Deadlock is not checked: each of these systems rests when its work is done, and
bounded environments stop.

## 4. Fairness

Weak fairness is stated only for what the code or the platform owes:

- `RestoreJob`: the worker's awaited calls are answered or fail, and its poll for a
  decision is a timer of its own (`Work`). Nobody owes an answer to a conflict: `JobsEnd`
  leaves mode ask out, and `DecisionTakesEffect` begins with the answer.
- `BackupJob`: `Start`, `Work`, `Beat`, `Check`, `Tick`, `Restart`. Nobody must
  subscribe or finalise.
- `ContextCapture`: `Work`, the answers and the caller. Edits are bounded by
  `MaxEdits`, and `RunEnds` needs the bound: a list that grows faster than it is
  read never ends.
- `RestoreWizard`: the server's work, its restart, the start request and its answer, the
  interval, the operator's press on Start and on a decision, and *strong* fairness
  of the answer to each poll: a poll may fail again and again, but not always. It is
  used in violation runs only.
- `ProjectSearch`: the user pauses, so `Debounce` happens; the browser settles each
  request, with an answer or an error. Nobody owes a click, nor a row of a backup.
- `Credentials` and `GlobalSearch` are checked for safety only.

`restore_live` has no crash: with one, `DecisionTakesEffect` fails, because no worker is
started for an unfinished job, and nothing flags it either (section 6). The stall detector of
backup jobs is a timer of the process and looks at rows, so `SilenceSurfaces` of `BackupJob`
is checked with a crash.

## 5. The proofs

Every invariant and every action property that a passing run checks is a theorem, and so are
both refinements. The proofs rest on the named assumptions about constants, which TLC
evaluates on the instances, and one of them on a hypothesis of its own (`OneEntryEach`, below).

### ListProofs

Lists are read, joined and filtered in half of the models, and what a loop over a list of any
length computes is a matter of induction. The induction theorems of the library take an
operator as a parameter, which the installed provers cannot instantiate, so the lemmas say it
with sets: `NumberInduction` (a set that contains 0 and with n also n + 1 contains all of
`Nat`), and from it `ListInduction` (a set that contains the empty list and with a list
also that list with one element more contains all of `Seq(A)`). A loop is a function over the
prefixes of its list; `KeptExists` and `JoinedExists` prove by induction that there is one, for
`Filter` and `FlattenSeq`. What they compute follows: `FilterAppend`, `FilterElements`,
`FilterJoin`, `FilterSame`, `FilterAll`, `FilterApart` and `FlattenAppend`. The other lemmas say
what joining, appending, cutting and removing do to positions.

### RestoreJobProofs

For any jobs, keys, requests, numbers
of calls, thresholds and bounds:

| Theorem | States |
|---|---|
| `TypeCorrect` | `[]TypeOK` |
| `WorkersAgree` | `[]WorkersAt`: at every await, the row, the conflicts, the projects and the timers are what the code at that point expects |
| `OneConflictProved`, `ModeProved`, `OrderProved`, `HaltProved`, `CompletionProved`, `BlockProved`, `StallProved` | the safety invariants of the runs |
| `QuietProved`, `AnnouncementProved` | nothing runs for an ended job, and open streams are told; for a worker without trash checker (`ASSUME ~TrashGuard`) |
| `FinalProved` | the action property `TerminalIsFinal` |
| `Refinement` | `Spec => RefinesLifecycle` |

They rest on the named assumptions of `RestoreJob` about its constants, which TLC
evaluates in `restore_core`.

None of the safety invariants is inductive. `HonoursMode` alone does not know that
a worker about to write was allowed to; `OneConflictAtATime` not that no later
conflict was raised; `TypeOK` not that the position of a worker is one of the
request's. `IInv == TypeOK /\ \A j \in Jobs : JobInv(j)` adds `WorkerAt(j)`, which
says for each `pc` what the code relies on there: which phase is running, that
earlier projects are settled, later ones untouched, that a pending conflict is the
one polled for, and that timers are armed exactly while there is a worker; and
`JobInv` joins to it the parts of the safety invariants that must be carried from step
to step. The proof has a lemma for each group of actions (worker, requests, timers, crash and
clock), with a step per action. Most actions change one job, so a frame
lemma says that `JobInv` of the others depends only on their own components; a lemma
on nested `EXCEPT` keeps the types. The invariants then follow from `IInv` without
steps, `TerminalIsFinal` from `IInv` and the step, and `Refinement` from a lemma that
maps every action to `Raise`, `Answer`, `Settle`, `Finish`, `Fail`, `Accept` or a stutter.

`~TrashGuard` is what `RestoreJobRouter` constructs (it passes no checker to the
worker). With a checker the two theorems are false: `setTrashWindowBlocked` leaves
the flag `stalled` of the row, and a check that is rejected fails the job without
publishing anything.

`HaltProved` is about `FailureHalts`: the phase that failed is the last that ran and stays
the current one of the row. `FinalProved` and `BlockProved` are about properties no run spends
time on: `TerminalIsFinal`, and that a job its worker refused for the trash wrote nothing.

### CredentialsProofs

For any sites, clients, calls, logins and bounds:

| Theorem | States |
|---|---|
| `CredentialTypes` | `[]TypeOK` |
| `MutexProved` | `[]MutexHeld` |
| `SingleUseProved` | `[]StateIsSingleUse`: one callback per state gets to exchange its code |
| `RetryProved` | `[]RetryIsFresh` |
| `UsableProved` | `[]RowIsUsable`, if there is one site (`ASSUME OneSite`) |

`MutexHeld` is inductive with the types: it says for each client who refreshes and who
waits. `StateIsSingleUse` needs `Consumed`: the nonce of a login beyond the callback is
no longer in the store. The other two rest on `Private`: a fresh pair `t` is in one
place only. A pair is issued to one refresh or one login and stays unused until it
reaches the row, and nobody holds the refresh token of the row but a refresh that read it
from there. Without it a step that persists a pair could make the row carry a spent one.
`OneSite` is needed: a login stores the same pair for every site.

### BackupJobProofs

For any projects, issues, attachments and thresholds:

| Theorem | States |
|---|---|
| `BackupTypes` | `[]TypeOK` |
| `EndProved` | `[]EndIsTold` |
| `StallAgreementProved` | `[]StallAgreement` |
| `BooksProved` | `[]BooksAgree` |
| `VerdictProved` | `[]VerdictIsHonest` |
| `DiskProved` | `[]OkIsOnDisk` |
| `LedgerKept` | `Spec => KeepsLedger`: every item is settled once, and the verdict is given once, when all are, from what was settled |

`BookInv` is the invariant. `Placed` says that the item the run is at lies behind the
entries and before the rest; `Life` which of row, timer and process go together;
`StreamIsDue` what an open stream has still to be sent. `Books` has a clause per phase of
an item: between items the counts of orchestrator, emitter, `job_errors` and manifest
are equal (`Between`), and in the middle of an item its entry is not there yet
(`Mid`) while its attachments may be; `Honest` joins the verdict to the books at the turn
in which `complete()` is called. The counts are cardinalities of sets of positions,
so the proof has one lemma on what appending an entry does to them. Entries of
dead processes stay, which is why `VerdictIsHonest` and `OkIsOnDisk` hold after a crash:
both are about what was recorded, and no step takes anything back.

For `LedgerKept`, `BookInv` says what is not entered yet, which keeps an item from being
settled twice. A verdict also needs that everything is settled, so `Whole` is added to it:
every issue behind the run is entered, also over projects without issues, and no attachment
of an issue that failed is. `Judgement`, the verdict of the ledger, is then what the counts
of the orchestrator say at the turn in which it calls `complete()`. Turns that only count,
wait or beat are stutters.

### RestoreWizardProofs

For any jobs, forms, polls and bounds:

| Theorem | States |
|---|---|
| `WizardTypes` | `[]WizardTypeOK` |
| `ReviewedProved` | `[]JobIsWhatWasReviewed` |
| `ShownEndProved` | `[]ShownEndIsReal` |

`WizardStepsAreJobSteps` says that a step of the wizard is a step of `RestoreJob` or
leaves it alone, so that `IInv` of `RestoreJobProofs` holds of the composition without
being proved again. On top of it `KnowsItsJob` ties `job` to the request that created it and to
the step the wizard is at, and `EndsAgree` says that an end in any answer under way, or on
screen, is the one in the row: it rests on `ServerKeepsRow`, that no step of the server takes
the end of a job back.

### ContextCaptureProofs

For any content of Jira, any edits, page sizes, fields and service desks:

| Theorem | States |
|---|---|
| `CaptureInvariant` | `[]CInv` |
| `OrderOfStages` | `[]PersistedInOrder` |
| `ValidatorProved` | `[]ValidIsFinal` |
| `WholeInvariant` | `[](CInv /\ WInv /\ Counted /\ HaltedLate)` |
| `CaptureTypes` | `[]TypeOK` |
| `ReferencesProved` | `[]NoDanglingReference` |
| `WholeProved` | `[]CompletedIsWhole` |

`CInv` has four parts: `Manifest` (sections are the stages in order, each counting its
entries), `Reached` (how `pc`, `stage` and the number of sections go together, and that a
halted run ends in a section without a total and without entries), `Verdict` (the status
against `broken` and the sections) and `Reading` (the lists under way). The ids of what is
captured do not matter to it, so the lists are `Listed`: sequences of whatever. Two lemmas
carry the proof, one on what appending a section with its entries does to a
manifest and one on the empty sections of stages that have nothing to read.

`WInv` adds what was captured. `Referred` says that an entry is owned by something its stage
read a list of; since the lists of the sprints are made from the boards in the manifest and
those of the boards from the projects in scope, `NoDanglingReference` follows. `ListsStay` is
the reason it keeps: entries of a later stage do not change what an earlier one had to read.
`CompletedIsWhole` needs to know why a point with consistent sections can lack nothing. Nobody
having edited Jira, `ReadTrue` says that a cursor holds the beginning of its list and the true
length (also when `paginateAtlassian` takes a short page for the last one), and
`Halfway` that the lists of the stage are those read and those to read, that no more was
captured than was reported, and that if it is as much, it is everything the lists read hold. A
list cut short makes the sum smaller than the reported total for good, so the section is
inconsistent, `broken` is set, and `finalize` does not say completed. The fields need an
argument of their own (`FieldsHalfway`), since their list is not what is entered: it is split into
system fields, which are skipped, and custom ones, whose lists of contexts are queued, so what
was entered and what is queued make up the custom fields of the list. The projects do not have
a section; what is proved of them is `Counted`: when the gap is 0, the discovery has all of them.
`HaltedLate` says that a section without a total is the last one, of a run that halted: with it
`ValidIsFinal` knows that the stages before a failed one are as long as Jira said.

### ProjectSearchProofs

For any runs, projects, queries, filters, page size and number of requests:

| Theorem | States |
|---|---|
| `SearchInvariant` | `[]PInv` |
| `SearchTypes` | `[]TypeOK` |
| `EmptyPageProved` | `[]EmptyPageIsExplained` |
| `SettledProved` | `[]SettledViewIsTrue` |
| `PlacesProved` | `[]RowsInPlace`: every row shown stands where its page puts it in the list of all that its run will find |
| `PagesProved` | `PagesAgree`, if a run enters an issue once (`ASSUME OneEntryEach`) |

The invariant says what every answer is, under way or on screen: a page of `Upto(p, n, m)`,
what matched among the first `m` entries of run `n` (`AnswersTrue`, `TableTrue`). As entries
are only added, `Upto(p, n, m)` is the beginning of `Upto(p, n, h)` for a later `h`
(`UptoGrows`, from `FilterJoin`), so a page keeps its place. `AloneIsCurrent` says that a
request on its own asks for what the panel shows, which makes `SettledViewIsTrue` of
`TableTrue`; `OneAtATime` and `PageInside` that without overlaps the next page begins inside
the list: that is what `EmptyPageIsExplained` needs, and what an answer of another point or a
request overtaken by another takes away (`mixed`).

`OneEntryEach` is a statement about the data, not about the panel: `manifest_entries` has no
unique key on `object_id` and `INSERT OR IGNORE` compares the generated id only
(`BackupPointRepository.ts:140`), so a search that answers with an issue twice enters it
twice, and a row that looks like another stands at two positions. `PlacesProved` needs no such
hypothesis: it speaks of places, not of what stands there.

### GlobalSearchProofs

For any runs, words and number of searches:

| Theorem | States |
|---|---|
| `DropdownProved` | `[]DropdownAnswersTheBox` |
| `BarTypes` | `[]TypeOK` |

`AloneIsCurrent` says that a search nobody overtook asked for the text in the box
unless the pause runs, `ShownIsCurrent` what that means for results shown or kept behind a closed
dropdown, which a focus would show. The types need `RoomKept`: while the pause runs there is
room for the search it ends in. That the counts of the sidebar are numbers and the cards of
the dropdown sets of nodes is a lemma on each of the router's two answers.

### What is only model-checked

Liveness, which is out of reach of the provers, as `ENABLED` is: `JobsEnd`,
`DecisionTakesEffect` of `RestoreJob`, `RunEnds` and `SilenceSurfaces` of
`BackupJob`, `RunEnds` of `ContextCapture`, `TypedIsSearched` of `ProjectSearch`. And the four
properties of the violation runs, which the code does not keep.

## 6. Observations

Each of the first four is a violation run with a counterexample.

1. `restore_skip_race`: two jobs in mode skip probe the same project before either
   writes it; the second replaces what the first wrote.
2. `backup_omission`: attachments are entered with type JiraIssue and `finalize`
   compares counts per type, so an attachment makes up for a missing issue.
3. `wizard_late`: polls overlap, any answer is shown, and the first end seen stops
   polling: an older answer that arrives after it puts the job back to running on the
   screen for good.
4. `search_scope`: a project is committed while the request for another is under way,
   and the later answer wins: rows of one project stand under the other, although the
   field "scopes all searches to a specific project" (`ProjectInventorySearch.tsx:5`).

Met while modelling, stated in the modules, without a run of their own:

Backup and restore:

- A rejected issue search leaves `captureProject` outside any `try`: `run()`, which
  "Never throws" (`IssueCaptureOrchestrator.ts:205`, `290`), rejects, `complete()` is not
  called and the heartbeat timer keeps the job fresh for ever.
- The destination `alternate` is handled as `original` is (`RestorePhaseHandlers.ts:134`).
- After a restart a decision is accepted for a job whose worker is gone, and an
  unfinished restore job is neither resumed nor flagged: its stall check is a timer of the
  worker (`RestoreWorker.ts:98`), where `docs/restore-architecture.md:396` says "A job with no
  event for >20 seconds surfaces a "stalled" alert". No property is stated of it: a live
  worker's heartbeat ends any silence, and after a crash nothing does.
- A client that subscribes after a conflict was published is not told of it: restore
  events are not replayed. Subscribing after a backup job ended replays the terminal
  event, but leaves the stream open (`JobRouter.ts:111`).
- `server.ts` starts no `StalledJobDetector`; the model has it started (`DetectorRuns`).
- A failed attachment is ticked as failed and then as processed
  (`IssueCaptureOrchestrator.ts:378`, `577`), so a job in which nothing but
  attachments failed counts more items than there are.
- The wizard restarts its stall timer at every answered poll, whether or not the job
  moved (`RestoreWizard.tsx:765`), and never resets `trashWindowBlocked` (line 547).
- The prompt of the wizard posts its decision with the conflict id `'pending'`
  (`RestoreWizard.tsx:775`), which the server answers with 404; the error is dropped.
- The answer to a start that is lost leaves a job the wizard does not know; starting
  again makes a second one.
- The trash check of a request and the write that follows it are apart
  (`RestoreJobRouter.ts:190`): a project trashed in between is written. The path of a finished
  archive is kept in memory only (`RestoreJobStore.ts:63`).

Credentials:

- The refresh mutex is a field of a client object (`refreshInFlight`), and routers make a
  client per request: two of them post the same refresh token, where `ARCHITECTURE.md:341`
  says "only one POST".
- A login stores the same pair for each site it can reach; the first refresh at one
  site spends the token of the others.
- Onboarding calls `/api/jira/oauth/start` and its siblings, the server mounts
  `/api/auth/jira`; a login with a single site skips the onboarding steps that one with
  several goes through (`JiraConnectFlow.tsx:53`, `71`).

Context capture and inventory:

- A custom field whose contexts could not be read is captured as one without contexts.
  A board shared by two projects is entered for each of them, with its sprints.
- `docs/architecture/context-capture-pipeline.md:407` has the failing entry carry
  `error.halted`, all later phases written with `PHASE_HALTED`, and `PhaseSummary.completed`
  false. The code persists the stage that failed as a section without entries and without a
  total, writes nothing for the later ones, and `completed` is always true
  (`BackupPointManifestWriter.ts:457`). `ValidIsFinal` is about the code: a point that halted
  passes `validate()` like one that completed.
- `docs/prd-coverage-report.md:14` promises "zero silent omissions" of projects, but a page
  that is shorter than asked for ends the discovery. `pagination.gap` of its result tells
  (`ProjectDiscoveryService.ts:190`), and nothing but tests reads it; its
  `ReconciliationReport` compares what was fetched with what was entered, which always agree.
  Whole projects can be missing from a completed point, which is why `CompletedIsWhole` speaks
  of the projects that were discovered.
- Results are those of the newest point, also while its backup has only begun: the
  sidebar then shows 0 or partial counts (`InventoryRouter.ts:128`), where
  `docs/architecture/inventory-ui.md:52` has a dash until counts are known. The counts
  include attachments and failures.
- `project-inventory-search.md` (lines 111, 117 and 194) has a limit of 100, a 400 without
  `backupPointId` and a 200 for a project without issues; the router takes up to 200, always
  searches the newest point, and answers 404.
- Several labels must all be there (`InventoryRouter.ts:605`); `api/jira.ts:299` and
  `docs/architecture/project-inventory-search.md:78` say any of them.
- Typing on from `PROJ-1` to `PROJ-12` leaves one exact match for another, against "A narrower
  query always produces a subset" (`project-inventory-search.md:166`). An issue without
  a payload passes every date filter.
- The search over all types finds issues, also those whose capture failed, though its
  header speaks of nodes only (`GlobalSearchBar.tsx:18`).
- A search answered after its box was emptied opens the dropdown again; a first
  search that fails is not shown as failed.
- Nothing captures a node of type JiraProject, which the router looks for.

## 7. What is not modelled

- A crash between two statements of one turn: processes die between turns.
- A throw of the database or of a callback after the payload of an issue
  (`IssueCaptureOrchestrator.ts:359` to 414) ends in the catch at line 428, and an item could be
  entered twice. Failures in `BackupJob` are those of Jira, the disk and the scanner.
- Rate limits, back-off and Basic authentication of the HTTP client: a call is
  answered, refused with 401, or fails.
- Item errors of the restore, which no built-in handler produces, and the percentages
  of its progress events.
- Heartbeats and progress events of the context capture. They stop while contexts of
  custom fields are read, which is only visible in the display.
- `GET /inventory/issues` and `IssuesTable.tsx`, its only caller, which nothing mounts.
- Onboarding (`JiraConnectFlow.tsx`, `ProjectScopeSelector.tsx`, `WorkloadCard.tsx`): a chain of
  screens with one request each and nothing shared.
- SDI routing, blob paths, workload configuration, metrics, fault injection, the
  connections router: reads, pure functions of one item, or one statement per request.
  The SDI scanner is a step of `BackupJob` that succeeds or fails.
- Text: case, partial words and HTML of summaries. What matches is a relation between
  words.
- Jira endpoints that report no total: all that the context capture pages do.

## 8. Plan

In order of importance; the first nine are done.

1. `RestoreLifecycle`, `RestoreJob`, `RestoreJobProofs`: model, runs, invariant,
   refinement proof.
2. `BackupLedger`, `BackupJob`: model, runs, refinement checked.
3. `RestoreWizard` over `RestoreJob`: the composition of client and server.
4. `Credentials`: login, rotation, refresh mutex.
5. `Pagination`, `ContextCapture`: paging, stages, manifest sections, validator.
6. `Inventory`, `ProjectSearch`, `GlobalSearch`: what was backed up, searched while it grows.
7. `CredentialsProofs`, `BackupJobProofs`, `RestoreWizardProofs`.
8. `ListProofs`: induction on lists, and what filtering and flattening compute.
9. `ContextCaptureProofs`, `ProjectSearchProofs`, `GlobalSearchProofs`.
10. Next: what the context capture promises to the readers of its point, as an abstract
    specification that it implements; the conditions under which the properties of the
    violation runs hold, as theorems.
