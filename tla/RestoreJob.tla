----------------------------- MODULE RestoreJob -----------------------------
(***************************************************************************)
(* Restore jobs of the server process: the job row and the conflict rows   *)
(* of RestoreJobStore, the RestoreWorker with its two timers, the          *)
(* RestoreEngine and its phase handlers, the endpoints of RestoreJobRouter *)
(* that change state, and the SSE streams fed by RestoreEventBus.          *)
(*                                                                         *)
(* Node runs one event-loop turn at a time, so an action is one turn: from *)
(* the answer, timer or request that starts it to the next call of Jira    *)
(* that the worker awaits. What happens between two awaited calls (phase   *)
(* results persisted, next phase entered, job completed, timers cleared,   *)
(* events published) belongs to one action, as it does in the code.        *)
(*                                                                         *)
(* Jira, the operator's client, the clock and the life of the process are  *)
(* the environment.                                                        *)
(***************************************************************************)
EXTENDS Naturals, Sequences, FiniteSets

CONSTANTS
  Jobs,            \* ids of the restore jobs that may be created
  Keys,            \* keys of Jira projects
  Requests,        \* request bodies that pass the validation of POST /
  StubCalls,       \* [2..7 -> Nat]: Jira calls a non-project phase makes
  StaleThreshold,  \* clock units without a heartbeat before a job is stalled
  TrashGuard,      \* TRUE: the worker was given a trashChecker
  MaxProjects,     \* bound: projects in one request
  MaxCrashes       \* bound: times the server process dies and is started again

\* The seven phases by number; buildDefaultHandlers fixes their order.
Phases == 1..7
ProjectPhase == 1
LastPhase == 7

Modes == {"override", "skip", "ask"}
Decisions == {"override", "skip"}
Destinations == {"original", "alternate", "export"}
Scopes == {"all", "projects", "issues"}

\* "all" restores the one project MOCK and "issues" none, so only the scope
\* "projects" has more than one key.
RequestOK(r) ==
  /\ r.dest \in Destinations /\ r.scope \in Scopes /\ r.mode \in Modes
  /\ r.keys \in Seq(Keys) /\ Len(r.keys) <= MaxProjects
  /\ r.scope = "projects" => r.keys # <<>>
  /\ r.scope = "issues" => r.keys = <<>>

ASSUME RequestsAssumption == \A r \in Requests : RequestOK(r)
ASSUME StubCallsAssumption == StubCalls \in [2..LastPhase -> Nat \ {0}]
ASSUME ThresholdAssumption == StaleThreshold \in Nat
ASSUME TrashGuardAssumption == TrashGuard \in BOOLEAN
ASSUME BoundsAssumption == MaxProjects \in Nat /\ MaxCrashes \in Nat

NoRequest == [dest |-> "original", scope |-> "issues", keys |-> <<>>, mode |-> "skip"]

VARIABLES
  \* the rows of restore_jobs and restore_conflicts: they survive a crash
  request,     \* [Jobs -> request body]
  status,      \* [Jobs -> Status]
  phase,       \* [Jobs -> 0..7]: current_phase, 0 for NULL
  progress,    \* [Jobs -> [Phases -> PhaseStatus]]: phase_progress
  diagnostic,  \* [Jobs -> Diagnostic]: failure_diagnostic
  stalled,     \* [Jobs -> BOOLEAN]: the flag stalled of the row
  blocked,     \* [Jobs -> BOOLEAN]: trash_window_blocked
  adfWarned,   \* [Jobs -> BOOLEAN]: adf_media_warning_emitted
  conflict,    \* [Jobs -> [Nat -> none | pending | override | skip]]
  age,         \* [Jobs -> Nat]: clock units since last_heartbeat_at
  \* the process: lost in a crash
  up,          \* the process runs
  crashes,     \* how often it died
  pc,          \* [Jobs -> what the worker of the job awaits]
  item,        \* [Jobs -> Nat]: its position in the list of projects
  call,        \* [Jobs -> Nat]: its position among the calls of a stub phase
  timers,      \* [Jobs -> BOOLEAN]: heartbeat and stall timers are armed
  sawStall,    \* [Jobs -> BOOLEAN]: the field stalled of the worker
  zipPath,     \* [Jobs -> BOOLEAN]: the in-memory map downloadPaths has an entry
  stream,      \* [Jobs -> closed | open | ended]: the SSE response
  \* the environment
  known,       \* [Jobs -> SUBSET Nat]: conflict ids that reached the client
  site,        \* [Keys -> "absent" | "original" | job]: the content of a project
  trashed,     \* SUBSET Keys: projects in the trash window
  \* history
  probe,       \* [Jobs -> [Nat -> none | absent | exists]]: projectExists said
  outcome,     \* [Jobs -> [Nat -> open | written | left]]
  touched      \* [Jobs -> SUBSET Phases]: phases that issued a write

rowVars     == <<request, status, phase, progress, diagnostic, stalled, blocked,
                 adfWarned, conflict>>
workerVars  == <<pc, item, call, timers, sawStall, zipPath>>
clientVars  == <<stream, known>>
jiraVars    == <<site, trashed>>
historyVars == <<probe, outcome, touched>>
processVars == <<up, crashes>>
vars == <<rowVars, age, processVars, workerVars, clientVars, jiraVars, historyVars>>

Status == {"none", "running", "awaiting_decision", "completed", "failed"}
PhaseStatus == {"none", "pending", "running", "completed", "failed"}
Diagnostic == {"none", "PROJECT_WRITE_FAILED", "UNHANDLED_PHASE_ERROR",
               "TRASH_WINDOW_BLOCK", "BROWSER_DOWNLOAD_FAILED", "Worker error"}
\* idle: no worker, or its promise is settled
PC == {"idle", "trash", "probe", "decide", "write", "stub", "zip"}

Pos == 1..MaxProjects

Terminal(j) == status[j] \in {"completed", "failed"}
KeyAt(j, i) == request[j].keys[i]

TypeOK ==
  /\ request \in [Jobs -> Requests \cup {NoRequest}]
  /\ status \in [Jobs -> Status]
  /\ phase \in [Jobs -> 0..LastPhase]
  /\ progress \in [Jobs -> [Phases -> PhaseStatus]]
  /\ diagnostic \in [Jobs -> Diagnostic]
  /\ stalled \in [Jobs -> BOOLEAN]
  /\ blocked \in [Jobs -> BOOLEAN]
  /\ adfWarned \in [Jobs -> BOOLEAN]
  /\ conflict \in [Jobs -> [Pos -> {"none", "pending"} \cup Decisions]]
  /\ age \in [Jobs -> 0..(StaleThreshold + 1)]
  /\ up \in BOOLEAN
  /\ crashes \in 0..MaxCrashes
  /\ pc \in [Jobs -> PC]
  /\ item \in [Jobs -> Nat]
  /\ call \in [Jobs -> Nat]
  /\ timers \in [Jobs -> BOOLEAN]
  /\ sawStall \in [Jobs -> BOOLEAN]
  /\ zipPath \in [Jobs -> BOOLEAN]
  /\ stream \in [Jobs -> {"closed", "open", "ended"}]
  /\ known \in [Jobs -> SUBSET Pos]
  /\ site \in [Keys -> {"absent", "original"} \cup Jobs]
  /\ trashed \in SUBSET Keys
  /\ probe \in [Jobs -> [Pos -> {"none", "absent", "exists"}]]
  /\ outcome \in [Jobs -> [Pos -> {"open", "written", "left"}]]
  /\ touched \in [Jobs -> SUBSET Phases]

Init ==
  /\ request    = [j \in Jobs |-> NoRequest]
  /\ status     = [j \in Jobs |-> "none"]
  /\ phase      = [j \in Jobs |-> 0]
  /\ progress   = [j \in Jobs |-> [p \in Phases |-> "none"]]
  /\ diagnostic = [j \in Jobs |-> "none"]
  /\ stalled    = [j \in Jobs |-> FALSE]
  /\ blocked    = [j \in Jobs |-> FALSE]
  /\ adfWarned  = [j \in Jobs |-> FALSE]
  /\ conflict   = [j \in Jobs |-> [i \in Pos |-> "none"]]
  /\ age        = [j \in Jobs |-> 0]
  /\ up         = TRUE
  /\ crashes    = 0
  /\ pc         = [j \in Jobs |-> "idle"]
  /\ item       = [j \in Jobs |-> 0]
  /\ call       = [j \in Jobs |-> 0]
  /\ timers     = [j \in Jobs |-> FALSE]
  /\ sawStall   = [j \in Jobs |-> FALSE]
  /\ zipPath    = [j \in Jobs |-> FALSE]
  /\ stream     = [j \in Jobs |-> "closed"]
  /\ known      = [j \in Jobs |-> {}]
  /\ site       \in [Keys -> {"absent", "original"}]
  /\ trashed    = {}
  /\ probe      = [j \in Jobs |-> [i \in Pos |-> "none"]]
  /\ outcome    = [j \in Jobs |-> [i \in Pos |-> "open"]]
  /\ touched    = [j \in Jobs |-> {}]

-----------------------------------------------------------------------------
(* What several turns have in common.                                      *)

\* phase_progress when phase p is being run.
ProgressAt(p) ==
  [q \in Phases |-> IF q < p THEN "completed" ELSE IF q = p THEN "running" ELSE "pending"]

\* The engine marks phase p running and the handler issues its first call, which
\* is a write in every phase but the first.
EnterPhase(j, p) ==
  /\ progress' = [progress EXCEPT ![j] = ProgressAt(p)]
  /\ phase' = [phase EXCEPT ![j] = p]
  /\ pc' = [pc EXCEPT ![j] = IF p = ProjectPhase THEN "probe" ELSE "stub"]
  /\ item' = [item EXCEPT ![j] = 1]
  /\ call' = [call EXCEPT ![j] = 1]
  /\ touched' = IF p = ProjectPhase THEN touched
                ELSE [touched EXCEPT ![j] = @ \cup {p}]

\* execute: a request without projects passes the project phase in no time.
StartEngine(j, r) ==
  EnterPhase(j, IF r.keys = <<>> THEN ProjectPhase + 1 ELSE ProjectPhase)

NextProjectOffByOne(j) ==  \* mutant: the last project is forgotten
  IF item[j] + 1 < Len(request[j].keys)
  THEN /\ item' = [item EXCEPT ![j] = @ + 1]
       /\ pc' = [pc EXCEPT ![j] = "probe"]
       /\ UNCHANGED <<progress, phase, call, touched>>
  ELSE EnterPhase(j, ProjectPhase + 1)

NextProjectStays(j) ==  \* mutant: the index is not advanced
  /\ pc' = [pc EXCEPT ![j] = "probe"]
  /\ UNCHANGED <<progress, phase, item, call, touched>>

\* The loop of ProjectPhaseHandler.run goes on to the next project.
NextProject(j) ==
  IF item[j] < Len(request[j].keys)
  THEN /\ item' = [item EXCEPT ![j] = @ + 1]
       /\ pc' = [pc EXCEPT ![j] = "probe"]
       /\ UNCHANGED <<progress, phase, call, touched>>
  ELSE EnterPhase(j, ProjectPhase + 1)

\* run() arms the heartbeat timer and the stall timer.
StartTimers(j) ==
  timers' = [timers EXCEPT ![j] = TRUE]

StopWithoutTimers(j) ==  \* mutant: stop() is forgotten
  /\ pc' = [pc EXCEPT ![j] = "idle"]
  /\ UNCHANGED timers

StopWithoutReturn(j) ==  \* mutant: the worker goes on after the end
  /\ timers' = [timers EXCEPT ![j] = FALSE]
  /\ UNCHANGED pc

\* run() clears both timers and returns.
StopWorker(j) ==
  /\ pc' = [pc EXCEPT ![j] = "idle"]
  /\ timers' = [timers EXCEPT ![j] = FALSE]

\* 'complete' on the bus ends every open stream of the job.
PublishComplete(j) ==
  stream' = [stream EXCEPT ![j] = IF @ = "open" THEN "ended" ELSE @]

\* RestoreJobStore.setFailed
SetFailed(j, d) ==
  /\ status' = [status EXCEPT ![j] = "failed"]
  /\ diagnostic' = [diagnostic EXCEPT ![j] = d]
  /\ stalled' = [stalled EXCEPT ![j] = FALSE]

\* RestoreJobStore.complete
SetCompleted(j) ==
  /\ status' = [status EXCEPT ![j] = "completed"]
  /\ stalled' = [stalled EXCEPT ![j] = FALSE]

FailPhaseForgotten(j) ==  \* mutant: the row forgets the phase, as at the end of a job
  /\ progress' = [progress EXCEPT ![j][phase[j]] = "failed"]
  /\ phase' = [phase EXCEPT ![j] = 0]

\* The engine persists the failed phase and leaves it the current one.
FailPhase(j) ==
  /\ progress' = [progress EXCEPT ![j][phase[j]] = "failed"]
  /\ UNCHANGED phase

\* The worker issues writeProject for the project in hand.
IssueProjectWrite(j) ==
  /\ pc' = [pc EXCEPT ![j] = "write"]
  /\ touched' = [touched EXCEPT ![j] = @ \cup {ProjectPhase}]
  /\ UNCHANGED <<progress, phase, item, call>>

\* The worker leaves the project in hand as it is and goes on.
LeaveProject(j) ==
  /\ outcome' = [outcome EXCEPT ![j][item[j]] = "left"]
  /\ NextProject(j)

-----------------------------------------------------------------------------
(* RestoreJobRouter: the requests that change state.                       *)

InTrash(r) ==
  /\ r.dest = "original" /\ r.scope = "projects"
  /\ \E i \in DOMAIN r.keys : r.keys[i] \in trashed

\* POST /: refused when a project of an in-place restore is in the trash;
\* otherwise the row is inserted and run() goes on to its first await in the
\* same turn, so no other turn sees the row pending.
PostJob(j, r) ==
  /\ up /\ status[j] = "none"
  /\ ~InTrash(r)
  /\ request' = [request EXCEPT ![j] = r]
  /\ status' = [status EXCEPT ![j] = "running"]
  /\ age' = [age EXCEPT ![j] = 0]
  /\ StartTimers(j)
  /\ \/ /\ TrashGuard /\ r.dest = "original" /\ r.scope = "projects"
        /\ pc' = [pc EXCEPT ![j] = "trash"]
        /\ UNCHANGED <<progress, phase, item, call, touched>>
     \/ /\ r.dest = "export"
        /\ pc' = [pc EXCEPT ![j] = "zip"]
        /\ UNCHANGED <<progress, phase, item, call, touched>>
     \/ /\ ~(TrashGuard /\ r.dest = "original" /\ r.scope = "projects")
        /\ r.dest # "export"
        /\ StartEngine(j, r)
  /\ UNCHANGED <<diagnostic, stalled, blocked, adfWarned, conflict, processVars, sawStall,
                 zipPath, clientVars, jiraVars, probe, outcome>>

\* POST /:id/decisions, for a conflict id the client was told. The answer is
\* recorded and the status set at once; the worker sees it at its next poll.
PostDecision(j, i, d) ==
  /\ up /\ status[j] = "awaiting_decision"
  /\ i \in known[j]
  /\ conflict[j][i] = "pending"
  /\ conflict' = [conflict EXCEPT ![j][i] = d]
  /\ status' = [status EXCEPT ![j] = "running"]
  /\ UNCHANGED <<request, phase, progress, diagnostic, stalled, blocked, adfWarned,
                 age, processVars, workerVars, clientVars, jiraVars, historyVars>>

\* GET /:id/events: from now on the stream gets what is published; nothing
\* that was published before is replayed.
Subscribe(j) ==
  /\ up /\ status[j] # "none"
  /\ stream[j] = "closed"
  /\ stream' = [stream EXCEPT ![j] = "open"]
  /\ UNCHANGED <<rowVars, age, processVars, workerVars, known, jiraVars, historyVars>>

\* req.on('close'): the client goes away.
Disconnect(j) ==
  /\ stream[j] = "open"
  /\ stream' = [stream EXCEPT ![j] = "closed"]
  /\ UNCHANGED <<rowVars, age, processVars, workerVars, known, jiraVars, historyVars>>

-----------------------------------------------------------------------------
(* RestoreWorker.run before the engine, and the export path.               *)

\* The mid-flight check answers: a trashed project ends the job before phase 1.
TrashBlocks(j) ==
  /\ pc[j] = "trash"
  /\ InTrash(request[j])
  /\ status' = [status EXCEPT ![j] = "failed"]
  /\ diagnostic' = [diagnostic EXCEPT ![j] = "TRASH_WINDOW_BLOCK"]
  /\ blocked' = [blocked EXCEPT ![j] = TRUE]
  /\ StopWorker(j)
  /\ PublishComplete(j)
  /\ UNCHANGED <<request, phase, progress, stalled, adfWarned, conflict, age, processVars,
                 item, call, sawStall, zipPath, known, jiraVars, historyVars>>

TrashPasses(j) ==
  /\ pc[j] = "trash"
  /\ ~InTrash(request[j])
  /\ StartEngine(j, request[j])
  /\ UNCHANGED <<request, status, diagnostic, stalled, blocked, adfWarned, conflict,
                 age, processVars, timers, sawStall, zipPath, clientVars, jiraVars, probe, outcome>>

\* checkProjects rejects: run() stops the timers and rejects, and the handler
\* that POST / put on its promise fails the job. Nothing is published.
TrashCheckFails(j) ==
  /\ pc[j] = "trash"
  /\ StopWorker(j)
  /\ SetFailed(j, "Worker error")
  /\ UNCHANGED <<request, phase, progress, blocked, adfWarned, conflict, age, processVars, item,
                 call, sawStall, zipPath, clientVars, jiraVars, historyVars>>

\* runBrowserDownload
ArchiveReady(j) ==
  /\ pc[j] = "zip"
  /\ zipPath' = [zipPath EXCEPT ![j] = TRUE]
  /\ SetCompleted(j)
  /\ StopWorker(j)
  /\ PublishComplete(j)
  /\ UNCHANGED <<request, phase, progress, diagnostic, blocked, adfWarned, conflict, age,
                 processVars, item, call, sawStall, known, jiraVars, historyVars>>

ArchiveFails(j) ==
  /\ pc[j] = "zip"
  /\ SetFailed(j, "BROWSER_DOWNLOAD_FAILED")
  /\ StopWorker(j)
  /\ PublishComplete(j)
  /\ UNCHANGED <<request, phase, progress, blocked, adfWarned, conflict, age, processVars, item,
                 call, sawStall, zipPath, known, jiraVars, historyVars>>

-----------------------------------------------------------------------------
(* ProjectPhaseHandler: the answers the project phase waits for.           *)

Exists(j) == site[KeyAt(j, item[j])] # "absent"

Probed(j) ==
  probe' = [probe EXCEPT ![j][item[j]] = IF Exists(j) THEN "exists" ELSE "absent"]

MayWriteUnasked(j) ==  \* mutant: mode ask falls through to the write
  Exists(j) => request[j].mode # "skip"

\* No such project, or mode override: write it.
MayWrite(j) ==
  Exists(j) => request[j].mode = "override"

ProbeThenWrite(j) ==
  /\ pc[j] = "probe"
  /\ MayWrite(j)
  /\ Probed(j)
  /\ IssueProjectWrite(j)
  /\ UNCHANGED <<request, status, diagnostic, stalled, blocked, adfWarned, conflict, age,
                 processVars, timers, sawStall, zipPath, clientVars, jiraVars, outcome>>

ProbeThenSkip(j) ==
  /\ pc[j] = "probe"
  /\ Exists(j) /\ request[j].mode = "skip"
  /\ Probed(j)
  /\ LeaveProject(j)
  /\ UNCHANGED <<request, status, diagnostic, stalled, blocked, adfWarned, conflict, age,
                 processVars, timers, sawStall, zipPath, clientVars, jiraVars>>

GoOnUndecided(j) ==  \* mutant: the decision is not awaited
  NextProject(j)

\* The item loop blocks on the poll for the decision.
AwaitDecision(j) ==
  /\ pc' = [pc EXCEPT ![j] = "decide"]
  /\ UNCHANGED <<progress, phase, item, call, touched>>

\* Mode ask: the conflict row, the status and the event, then the poll begins.
\* Its id reaches the client only through a stream that is open now.
ProbeThenAsk(j) ==
  /\ pc[j] = "probe"
  /\ Exists(j) /\ request[j].mode = "ask"
  /\ Probed(j)
  /\ conflict' = [conflict EXCEPT ![j][item[j]] = "pending"]
  /\ status' = [status EXCEPT ![j] = "awaiting_decision"]
  /\ known' = IF stream[j] = "open" THEN [known EXCEPT ![j] = @ \cup {item[j]}] ELSE known
  /\ AwaitDecision(j)
  /\ UNCHANGED <<request, diagnostic, stalled, blocked, adfWarned, age, processVars,
                 timers, sawStall, zipPath, stream, jiraVars, outcome>>

DecidedAtOnce(j, d) ==  \* mutant: any conflict row ends the wait
  conflict[j][item[j]] # "none"

DecidedOverride(j, d) ==  \* mutant: the poll waits for an override only
  conflict[j][item[j]] = d /\ d = "override"

\* waitForDecision: the poll finds decision d on the row.
Decided(j, d) ==
  conflict[j][item[j]] = d

\* The poll finds the decision; the worker sets running again.
PollOverride(j) ==
  /\ pc[j] = "decide"
  /\ Decided(j, "override")
  /\ status' = [status EXCEPT ![j] = "running"]
  /\ IssueProjectWrite(j)
  /\ UNCHANGED <<request, diagnostic, stalled, blocked, adfWarned, conflict, age, processVars, timers,
                 sawStall, zipPath, clientVars, jiraVars, probe, outcome>>

PollSkip(j) ==
  /\ pc[j] = "decide"
  /\ Decided(j, "skip")
  /\ status' = [status EXCEPT ![j] = "running"]
  /\ LeaveProject(j)
  /\ UNCHANGED <<request, diagnostic, stalled, blocked, adfWarned, conflict, age, processVars, timers,
                 sawStall, zipPath, clientVars, jiraVars, probe>>

\* Jira carries the write out, unless the project is in the trash; its answer
\* is another matter.
ProjectLands(j) ==
  /\ pc[j] = "write"
  /\ outcome[j][item[j]] = "open"
  /\ KeyAt(j, item[j]) \notin trashed
  /\ outcome' = [outcome EXCEPT ![j][item[j]] = "written"]
  /\ site' = [site EXCEPT ![KeyAt(j, item[j])] = j]
  /\ UNCHANGED <<rowVars, age, processVars, workerVars, clientVars, trashed, probe, touched>>

ProjectWritten(j) ==
  /\ pc[j] = "write"
  /\ outcome[j][item[j]] = "written"
  /\ NextProject(j)
  /\ UNCHANGED <<request, status, diagnostic, stalled, blocked, adfWarned, conflict, age, processVars,
                 timers, sawStall, zipPath, clientVars, jiraVars, probe, outcome>>

-----------------------------------------------------------------------------
(* The other phases, and the end of the engine.                            *)

MorePhasesOffByOne(j) ==  \* mutant: one phase too many
  phase[j] <= LastPhase

MorePhasesShort(j) ==  \* mutant: the last phase is forgotten
  phase[j] < LastPhase - 1

\* The condition of the engine's loop over the handlers.
MorePhases(j) ==
  phase[j] < LastPhase

\* The handler awaits its next write.
StubNextCall(j) ==
  /\ pc[j] = "stub" /\ call[j] < StubCalls[phase[j]]
  /\ call' = [call EXCEPT ![j] = @ + 1]
  /\ UNCHANGED <<rowVars, age, processVars, pc, item, timers, sawStall, zipPath, clientVars,
                 jiraVars, historyVars>>

StubNextPhase(j) ==
  /\ pc[j] = "stub" /\ call[j] = StubCalls[phase[j]]
  /\ MorePhases(j)
  /\ EnterPhase(j, phase[j] + 1)
  /\ UNCHANGED <<request, status, diagnostic, stalled, blocked, adfWarned, conflict, age, processVars,
                 timers, sawStall, zipPath, clientVars, jiraVars, probe, outcome>>

\* The last phase warns about the media of the issues it attached files to,
\* and the worker completes the job.
Complete(j) ==
  /\ pc[j] = "stub" /\ call[j] = StubCalls[phase[j]]
  /\ ~MorePhases(j)
  /\ progress' = [progress EXCEPT ![j][phase[j]] = "completed"]
  /\ phase' = [phase EXCEPT ![j] = 0]
  /\ adfWarned' = [adfWarned EXCEPT ![j] = TRUE]
  /\ SetCompleted(j)
  /\ StopWorker(j)
  /\ PublishComplete(j)
  /\ UNCHANGED <<request, diagnostic, blocked, conflict, age, processVars, item, call, sawStall,
                 zipPath, known, jiraVars, historyVars>>

\* A call of Jira rejects: the phase fails, and with it the job.
CallFails(j) ==
  /\ pc[j] \in {"probe", "write", "stub"}
  /\ FailPhase(j)
  /\ SetFailed(j, IF phase[j] = ProjectPhase THEN "PROJECT_WRITE_FAILED"
                                              ELSE "UNHANDLED_PHASE_ERROR")
  /\ StopWorker(j)
  /\ PublishComplete(j)
  /\ UNCHANGED <<request, blocked, adfWarned, conflict, age, processVars, item, call, sawStall,
                 zipPath, known, jiraVars, historyVars>>

-----------------------------------------------------------------------------
(* The timers of the worker.                                               *)

RecoverFieldOnly(j) ==  \* mutant: the flag of the row stays
  /\ sawStall' = [sawStall EXCEPT ![j] = FALSE]
  /\ UNCHANGED stalled

\* A heartbeat clears the flag of the row and the field of the worker.
Recover(j) ==
  /\ stalled' = [stalled EXCEPT ![j] = FALSE]
  /\ sawStall' = [sawStall EXCEPT ![j] = FALSE]

Heartbeat(j) ==
  /\ timers[j]
  /\ age' = [age EXCEPT ![j] = 0]
  /\ Recover(j)
  /\ UNCHANGED <<request, status, phase, progress, diagnostic, blocked, adfWarned, conflict,
                 processVars, pc, item, call, timers, zipPath, clientVars, jiraVars, historyVars>>

CheckStall(j) ==
  /\ timers[j]
  /\ age[j] > StaleThreshold /\ ~sawStall[j]
  /\ stalled' = [stalled EXCEPT ![j] = TRUE]
  /\ sawStall' = [sawStall EXCEPT ![j] = TRUE]
  /\ UNCHANGED <<request, status, phase, progress, diagnostic, blocked, adfWarned, conflict,
                 age, processVars, pc, item, call, timers, zipPath, clientVars, jiraVars, historyVars>>

-----------------------------------------------------------------------------
(* The environment.                                                        *)

\* The clock runs whether or not the event loop does; ages past the threshold
\* are all alike.
Tick ==
  /\ \E j \in Jobs : status[j] # "none" /\ ~Terminal(j) /\ age[j] <= StaleThreshold
  /\ age' = [j \in Jobs |-> IF status[j] # "none" /\ ~Terminal(j) /\ age[j] <= StaleThreshold
                            THEN age[j] + 1 ELSE age[j]]
  /\ UNCHANGED <<rowVars, processVars, workerVars, clientVars, jiraVars, historyVars>>

\* Somebody moves a project to the trash.
TrashProject(k) ==
  /\ k \notin trashed
  /\ trashed' = trashed \cup {k}
  /\ UNCHANGED <<rowVars, age, processVars, workerVars, clientVars, site, historyVars>>

Crash ==
  /\ up /\ crashes < MaxCrashes
  /\ up' = FALSE
  /\ crashes' = crashes + 1
  /\ pc' = [j \in Jobs |-> "idle"]
  /\ item' = [j \in Jobs |-> 0]
  /\ call' = [j \in Jobs |-> 0]
  /\ timers' = [j \in Jobs |-> FALSE]
  /\ sawStall' = [j \in Jobs |-> FALSE]
  /\ zipPath' = [j \in Jobs |-> FALSE]
  /\ stream' = [j \in Jobs |-> IF stream[j] = "open" THEN "closed" ELSE stream[j]]
  /\ UNCHANGED <<rowVars, age, known, jiraVars, historyVars>>

\* server.ts opens the database and mounts the routers; it starts no worker.
Restart ==
  /\ ~up
  /\ up' = TRUE
  /\ UNCHANGED <<crashes, rowVars, age, workerVars, clientVars, jiraVars, historyVars>>

-----------------------------------------------------------------------------
\* The turns of the worker of job j that are not timers.
Work(j) ==
  \/ TrashBlocks(j) \/ TrashPasses(j) \/ TrashCheckFails(j)
  \/ ArchiveReady(j) \/ ArchiveFails(j)
  \/ ProbeThenWrite(j) \/ ProbeThenSkip(j) \/ ProbeThenAsk(j)
  \/ PollOverride(j) \/ PollSkip(j)
  \/ ProjectLands(j) \/ ProjectWritten(j)
  \/ StubNextCall(j) \/ StubNextPhase(j) \/ Complete(j)
  \/ CallFails(j)

Next ==
  \/ \E j \in Jobs :
       \/ \E r \in Requests : PostJob(j, r)
       \/ \E i \in Pos, d \in Decisions : PostDecision(j, i, d)
       \/ Subscribe(j) \/ Disconnect(j)
       \/ Work(j)
       \/ Heartbeat(j) \/ CheckStall(j)
  \/ Tick
  \/ \E k \in Keys : TrashProject(k)
  \/ Crash \/ Restart

Spec == Init /\ [][Next]_vars

-----------------------------------------------------------------------------
(* Safety.                                                                 *)

Working(j) == pc[j] # "idle"
Positions(j) == 1..Len(request[j].keys)

\* Conflicts are raised one at a time: a job awaits a decision exactly when one
\* of its conflicts is undecided, and a worker that is alive then waits for that
\* very conflict, so no decision can be accepted that nobody waits for (ask-mode
\* protocol, ProjectPhaseHandler lines 54-88 against the decisions endpoint).
OneConflict(j) ==
  /\ status[j] = "awaiting_decision" <=> \E i \in Pos : conflict[j][i] = "pending"
  /\ \A i, h \in Pos : conflict[j][i] = "pending" /\ conflict[j][h] = "pending" => i = h
  /\ \A i \in Pos : conflict[j][i] = "pending" /\ Working(j)
                      => pc[j] = "decide" /\ item[j] = i
OneConflictAtATime == \A j \in Jobs : OneConflict(j)

\* A project is written only where Jira said there was none, or the request or
\* the operator said to override; it is left alone only where there was one and
\* the request or the operator said to skip it.
ModeHonoured(j) ==
  \A i \in Pos :
    /\ outcome[j][i] = "written" => \/ probe[j][i] = "absent"
                                    \/ request[j].mode = "override"
                                    \/ conflict[j][i] = "override"
    /\ outcome[j][i] = "left" => /\ probe[j][i] = "exists"
                                 /\ \/ request[j].mode = "skip"
                                    \/ conflict[j][i] = "skip"
HonoursMode == \A j \in Jobs : ModeHonoured(j)

\* Writes go out in dependency order: no phase has sent a write to Jira before
\* every earlier phase is completed and every project is settled (ARCHITECTURE.md
\* invariant 9; the loop of RestoreEngine.execute).
WritesInOrder(j) ==
  \A p \in touched[j] :
    /\ \A q \in Phases : q < p => progress[j][q] = "completed"
    /\ p # ProjectPhase => \A i \in Positions(j) : outcome[j][i] # "open"
DependencyOrder == \A j \in Jobs : WritesInOrder(j)

\* A failed phase halts the job where it stands: the row keeps the failed phase
\* as the current one, everything after it is pending and never touched Jira, and
\* the diagnostic tells the project phase from the others.
HaltedAtFailure(j) ==
  \A p \in Phases :
    progress[j][p] = "failed" =>
      /\ status[j] = "failed" /\ phase[j] = p
      /\ diagnostic[j] = IF p = ProjectPhase THEN "PROJECT_WRITE_FAILED"
                                             ELSE "UNHANDLED_PHASE_ERROR"
      /\ \A q \in Phases : q > p => progress[j][q] = "pending" /\ q \notin touched[j]
FailureHalts == \A j \in Jobs : HaltedAtFailure(j)

\* A job reported as completed has restored everything: all seven phases are
\* completed, every project is written or rightly left, and the warning about
\* media links is on the row; or it is an export, which writes nothing to Jira.
Restored(j) ==
  status[j] = "completed" =>
    \/ /\ request[j].dest # "export"
       /\ \A p \in Phases : progress[j][p] = "completed"
       /\ \A i \in Positions(j) : outcome[j][i] # "open"
       /\ adfWarned[j] /\ phase[j] = 0
    \/ /\ request[j].dest = "export"
       /\ touched[j] = {}
CompletedMeansRestored == \A j \in Jobs : Restored(j)

\* Nothing runs on behalf of a job that has ended: its worker awaits nothing, its
\* timers are cleared and the row is not flagged stalled, however the last turn
\* and the timers interleave.
Quiet(j) == Terminal(j) => pc[j] = "idle" /\ ~timers[j] /\ ~stalled[j]
TerminalIsQuiet == \A j \in Jobs : Quiet(j)

\* While the worker lives, the row is flagged stalled only during a silence longer
\* than the threshold, and the worker knows it flagged it.
StallKnown(j) ==
  timers[j] => /\ stalled[j] => age[j] > StaleThreshold
               /\ stalled[j] = sawStall[j]
StalledMeansSilent == \A j \in Jobs : StallKnown(j)

\* A job stopped by the mid-flight trash check has written nothing.
WroteNothing(j) ==
  blocked[j] => /\ status[j] = "failed" /\ touched[j] = {}
                /\ \A i \in Pos : outcome[j][i] = "open"
BlockedWroteNothing == \A j \in Jobs : WroteNothing(j)

\* What an ended job recorded is final: no late answer, poll, decision or worker
\* error changes it.
TerminalIsFinal ==
  [][\A j \in Jobs : Terminal(j) =>
       UNCHANGED <<status[j], diagnostic[j], progress[j], conflict[j], outcome[j]>>]_vars

(* The invariant that carries the proofs: what is true of a job at each point *)
(* where its worker can be, and what stays true when the worker is gone.      *)

\* Nothing is known of the projects after the first n.
UntouchedAfter(j, n) ==
  \A i \in Pos : i > n => /\ conflict[j][i] = "none" /\ probe[j][i] = "none"
                          /\ outcome[j][i] = "open"

\* The projects before number n are settled.
SettledBefore(j, n) ==
  \A i \in Pos : i < n => outcome[j][i] # "open" /\ conflict[j][i] # "pending"

NotStarted(j) ==
  /\ phase[j] = 0 /\ touched[j] = {}
  /\ progress[j] = [p \in Phases |-> "none"]
  /\ UntouchedAfter(j, 0)

\* The worker is at project item[j] of the project phase.
InProject(j) ==
  /\ request[j].dest # "export"
  /\ phase[j] = ProjectPhase /\ progress[j] = ProgressAt(ProjectPhase)
  /\ touched[j] \subseteq {ProjectPhase}
  /\ item[j] \in Positions(j)
  /\ SettledBefore(j, item[j]) /\ UntouchedAfter(j, item[j])

\* The worker is in phase[j] > 1: the projects are done with.
InStub(j) ==
  /\ request[j].dest # "export"
  /\ phase[j] \in Phases \ {ProjectPhase} /\ progress[j] = ProgressAt(phase[j])
  /\ touched[j] \subseteq 1..phase[j]
  /\ SettledBefore(j, Len(request[j].keys) + 1)
  /\ UntouchedAfter(j, Len(request[j].keys))

WorkerAt(j) ==
  /\ status[j] = "none" => /\ pc[j] = "idle" /\ NotStarted(j) /\ ~blocked[j]
                           /\ ~stalled[j] /\ ~sawStall[j]
  /\ pc[j] \in {"trash", "zip"} => status[j] = "running" /\ NotStarted(j) /\ ~blocked[j]
  /\ pc[j] = "trash" => request[j].dest # "export" /\ TrashGuard
  /\ pc[j] = "zip" => request[j].dest = "export"
  /\ pc[j] = "probe" =>
       /\ InProject(j) /\ status[j] = "running"
       /\ conflict[j][item[j]] = "none" /\ outcome[j][item[j]] = "open"
  /\ pc[j] = "decide" =>
       /\ InProject(j) /\ conflict[j][item[j]] # "none" /\ outcome[j][item[j]] = "open"
       /\ probe[j][item[j]] = "exists"
       /\ status[j] = IF conflict[j][item[j]] = "pending" THEN "awaiting_decision" ELSE "running"
  /\ pc[j] = "write" =>
       /\ InProject(j) /\ status[j] = "running"
       /\ conflict[j][item[j]] \in {"none", "override"} /\ outcome[j][item[j]] # "left"
       /\ \/ probe[j][item[j]] = "absent"
          \/ request[j].mode = "override"
          \/ conflict[j][item[j]] = "override"
  /\ pc[j] = "stub" => InStub(j) /\ status[j] = "running"
  /\ pc[j] # "idle" => ~blocked[j]
  /\ timers[j] = (pc[j] # "idle")

\* Where the workers are and what the rows say agree.
WorkersAt == \A j \in Jobs : WorkerAt(j)

\* Whoever listens when a job ends is told: the step that ends the job ends every
\* stream that is open on it.
EndIsAnnounced ==
  [][\A j \in Jobs : ~Terminal(j) /\ Terminal(j)' /\ stream[j] = "open"
                      => stream'[j] = "ended"]_vars

\* An in-place or alternate restore in mode skip never replaces a project that is
\* there (RestorePhaseHandlers.ts:36: "leave the existing project untouched").
SkipLeavesExisting ==
  [][\A j \in Jobs, k \in Keys :
       site[k] # "absent" /\ site'[k] # site[k] /\ site'[k] = j
         => request[j].mode # "skip"]_vars

\* The job implements its abstract lifecycle.
Todo == [j \in Jobs |-> IF status[j] # "none" /\ request[j].dest # "export"
                        THEN Positions(j) ELSE {}]
Lifecycle == INSTANCE RestoreLifecycle WITH todo <- Todo
RefinesLifecycle == Lifecycle!Spec

-----------------------------------------------------------------------------
(* Liveness.                                                               *)

\* The event loop turns: what Jira or the archiver owes arrives, or is an error, and the
\* poll for a decision fires. Nobody owes a decision, and no timer needs to fire.
Fairness == \A j \in Jobs : WF_vars(Work(j))

FairSpec == Spec /\ Fairness

\* A job that asks nobody ends.
JobsEnd ==
  \A j \in Jobs : (status[j] = "running" /\ request[j].mode # "ask") ~> Terminal(j)

\* A decision the server accepted is carried out, or the job fails trying
\* (docs/restore-architecture.md:165, "apply decision; resume processing").
DecisionTakesEffect ==
  \A j \in Jobs, i \in Pos :
    conflict[j][i] \in Decisions ~> outcome[j][i] # "open" \/ status[j] = "failed"
=============================================================================
