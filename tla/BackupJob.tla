----------------------------- MODULE BackupJob ------------------------------
(***************************************************************************)
(* An issue-capture run of the backup: IssueCaptureOrchestrator with its   *)
(* HeartbeatEmitter, the row, events and errors it keeps in JobStore, the  *)
(* entries it appends through BackupPointManifestWriter, the files it      *)
(* writes, the StalledJobDetector that watches the row and one SSE stream  *)
(* of JobRouter.                                                           *)
(*                                                                         *)
(* An action is one turn of the event loop: from the answer, timer or      *)
(* request that starts it to the next call that the run awaits.            *)
(***************************************************************************)
EXTENDS Naturals, Sequences, FiniteSets

CONSTANTS
  Content,         \* sequence of projects; a project is the sequence of its
                   \* issues, an issue the number of its attachments
  HeartbeatEvery,  \* heartbeatIntervalMs in clock units
  StaleThreshold,  \* staleThresholdMs of the detector in clock units
  Scanning,        \* TRUE: an SDI scanner is configured
  DetectorRuns,    \* TRUE: a StalledJobDetector was started
  SearchMayFail,   \* TRUE: the issue search may be rejected
  MaxCrashes       \* bound: times the process dies and is started again

ASSUME ContentAssumption == Content \in Seq(Seq(Nat))
ASSUME ClockAssumption ==
  /\ HeartbeatEvery \in Nat \ {0} /\ StaleThreshold \in Nat
  /\ HeartbeatEvery <= StaleThreshold
ASSUME SwitchAssumption == {Scanning, DetectorRuns, SearchMayFail} \subseteq BOOLEAN
ASSUME CrashAssumption == MaxCrashes \in Nat

\* Item <<p, i, 0>> is issue i of project p and <<p, i, a>> its attachment a.
Issues == UNION {{<<p, i, 0>> : i \in DOMAIN Content[p]} : p \in DOMAIN Content}
AttachmentCount(x) == Content[x[1]][x[2]]
AttachmentsOf(x) == {<<x[1], x[2], a>> : a \in 1..AttachmentCount(x)}
Items == Issues \cup UNION {AttachmentsOf(x) : x \in Issues}
IssueOf(x) == <<x[1], x[2], 0>>

VARIABLES
  \* the database and the backup directory: they survive a crash
  row,      \* the row of jobs: status, processed, failed, stalled
  age,      \* clock units since last_heartbeat_at
  logged,   \* type of the latest row of job_events
  errors,   \* job_errors: sequence of items
  entries,  \* manifest_entries: sequence of items with ok or error
  files,    \* items whose payload or blob is on disk
  point,    \* status of the backup point, or omission when finalize threw
  \* the process: lost in a crash
  up,       \* the process runs
  crashes,  \* how often it died
  pc,       \* what the run awaits
  at,       \* the item it is at
  total,    \* totalCaptured and totalErrors of the orchestrator
  emitter,  \* itemsProcessed and itemsFailed of the emitter
  armed,    \* the timer of the emitter is armed
  tracked,  \* stalledJobIds of the detector has the job
  \* the client
  stream,   \* closed | live | late | ended: an SSE response; late: opened
            \* after the job had ended
  told      \* the client of the stream received the terminal event

diskVars    == <<errors, entries, files>>
clientVars  == <<stream, told>>
processVars == <<up, crashes>>
vars == <<row, age, logged, diskVars, point, processVars, pc, at, total, emitter, armed,
          tracked, clientVars>>

Ended == {"completed", "completed_with_errors", "failed"}
Active == {"running", "stalled"}
Terminal == row.status \in Ended

\* idle: not started; returned and rejected: how the promise of run() settled;
\* gone: the process that ran it died
PC == {"idle", "search", "fetch", "download", "scan", "returned", "rejected", "gone"}
Awaiting == {"search", "fetch", "download", "scan"}

Entry == [item : Items, ok : BOOLEAN]

TypeOK ==
  /\ row \in [status : {"none"} \cup Active \cup Ended, processed : Nat, failed : Nat,
              stalled : BOOLEAN]
  /\ age \in 0..(StaleThreshold + 1)
  /\ logged \in {"none", "heartbeat", "terminal"}
  /\ errors \in Seq(Items)
  /\ entries \in Seq(Entry)
  /\ files \in SUBSET Items
  /\ point \in {"in_progress", "completed", "completed_with_errors", "omission"}
  /\ up \in BOOLEAN
  /\ crashes \in 0..MaxCrashes
  /\ pc \in PC
  /\ at \in Nat \X Nat \X Nat
  /\ total \in [captured : Nat, errors : Nat]
  /\ emitter \in [done : Nat, failed : Nat]
  /\ armed \in BOOLEAN
  /\ tracked \in BOOLEAN
  /\ stream \in {"closed", "live", "late", "ended"}
  /\ told \in BOOLEAN

Init ==
  /\ row = [status |-> "none", processed |-> 0, failed |-> 0, stalled |-> FALSE]
  /\ age = 0
  /\ logged = "none"
  /\ errors = <<>>
  /\ entries = <<>>
  /\ files = {}
  /\ point = "in_progress"
  /\ up = TRUE
  /\ crashes = 0
  /\ pc = "idle"
  /\ at = <<0, 0, 0>>
  /\ total = [captured |-> 0, errors |-> 0]
  /\ emitter = [done |-> 0, failed |-> 0]
  /\ armed = FALSE
  /\ tracked = FALSE
  /\ stream = "closed"
  /\ told = FALSE

-----------------------------------------------------------------------------
(* JobStore                                                                *)

\* createJob: INSERT OR IGNORE.
Created == IF row.status = "none" THEN [row EXCEPT !.status = "running"] ELSE row

\* updateHeartbeat: the flag is cleared, the status is left to the detector.
Heard(e) == [row EXCEPT !.processed = e.done, !.failed = e.failed, !.stalled = FALSE]

\* setStalled
Flagged(stalled) ==
  [row EXCEPT !.stalled = stalled, !.status = IF stalled THEN "stalled" ELSE "running"]

\* insertJobError
WithError(x) == Append(errors, x)

\* getJobSummary: what GET /:jobId answers.
JobSummary ==
  [status |-> row.status, processed |-> row.processed, failed |-> row.failed,
   stalled |-> row.stalled, errors |-> errors]

-----------------------------------------------------------------------------
(* HeartbeatEmitter                                                        *)

Due == age >= HeartbeatEvery

\* What the turn leaves of its last tick: a tick writes the row and an event when
\* a heartbeat is due. No turn is long enough for a second one to be.
Ticked(e) ==
  IF Due
  THEN row' = Heard(e) /\ age' = 0 /\ logged' = "heartbeat"
  ELSE UNCHANGED <<row, age, logged>>

VerdictAnyFailure(e) ==  \* mutant: any failure fails the job
  IF e.failed = 0 THEN "completed" ELSE "failed"

\* completeJob: the status from the final counts.
Verdict(e) ==
  IF e.failed = 0 THEN "completed"
  ELSE IF e.done = 0 THEN "failed" ELSE "completed_with_errors"

CompleteUnheard ==  \* mutant: the terminal event is not published
  /\ row' = [status |-> Verdict(emitter'), processed |-> emitter'.done,
             failed |-> emitter'.failed, stalled |-> FALSE]
  /\ armed' = FALSE
  /\ logged' = "terminal"
  /\ UNCHANGED <<age, clientVars>>

\* complete(): the timer is stopped, the row gets its verdict, the terminal
\* event is persisted and published, and ends the stream that gets it live.
Complete ==
  /\ row' = [status |-> Verdict(emitter'), processed |-> emitter'.done,
             failed |-> emitter'.failed, stalled |-> FALSE]
  /\ armed' = FALSE
  /\ logged' = "terminal"
  /\ told' = (told \/ stream = "live")
  /\ stream' = IF stream = "live" THEN "ended" ELSE stream
  /\ UNCHANGED age

\* The timer of the emitter fires.
Beat ==
  /\ up /\ armed
  /\ row' = Heard(emitter)
  /\ age' = 0
  /\ logged' = "heartbeat"
  /\ UNCHANGED <<diskVars, point, processVars, pc, at, total, emitter, armed, tracked, clientVars>>

-----------------------------------------------------------------------------
(* IssueCaptureOrchestrator: the loops                                     *)

\* The run awaits q at item x; ticked: the turn ticked, with counts e.
Await(q, x, e, ticked) ==
  /\ pc' = q /\ at' = x
  /\ IF ticked THEN Ticked(e) ELSE UNCHANGED <<row, age, logged>>
  /\ UNCHANGED <<armed, clientVars>>

Return == pc' = "returned" /\ UNCHANGED at /\ Complete

NextProjectLast(p, e, ticked) ==  \* mutant: the last project is not searched
  IF p + 1 < Len(Content) THEN Await("search", <<p + 1, 0, 0>>, e, ticked) ELSE Return

\* The loop of run(): the search of the next project, or the end of the run.
NextProject(p, e, ticked) ==
  IF p < Len(Content) THEN Await("search", <<p + 1, 0, 0>>, e, ticked) ELSE Return

\* The loop of captureProject: the next issue, or the next project.
NextIssue(p, i, e, ticked) ==
  IF i < Len(Content[p]) THEN Await("fetch", <<p, i + 1, 0>>, e, ticked)
  ELSE NextProject(p, e, ticked)

Okay(x) == [item |-> x, ok |-> TRUE]
Failed(x) == [item |-> x, ok |-> FALSE]

MoreAttachments(x) == x[3] < AttachmentCount(x)

AfterEarly(x, e, log, stored) ==  \* mutant: the ok entry does not wait for the attachments
  IF MoreAttachments(x)
  THEN /\ entries' = IF x[3] = 0 THEN Append(log, Okay(IssueOf(x))) ELSE log
       /\ Await("download", <<x[1], x[2], x[3] + 1>>, e, TRUE)
  ELSE /\ entries' = IF x[3] = 0 THEN Append(log, Okay(IssueOf(x))) ELSE log
       /\ NextIssue(x[1], x[2], e, TRUE)

\* What follows item x of an issue that was captured: its next attachment, the
\* scan if something was stored for it, or its ok entry and the next issue. log
\* and stored are the entries and files as the turn has left them.
After(x, e, log, stored) ==
  IF MoreAttachments(x)
  THEN entries' = log /\ Await("download", <<x[1], x[2], x[3] + 1>>, e, TRUE)
  ELSE IF Scanning /\ AttachmentsOf(x) \cap stored # {}
  THEN entries' = log /\ Await("scan", x, e, TRUE)
  ELSE entries' = Append(log, Okay(IssueOf(x))) /\ NextIssue(x[1], x[2], e, TRUE)

\* run(): the emitter creates the row (INSERT OR IGNORE) and arms its timer.
Start ==
  /\ up /\ pc = "idle"
  /\ UNCHANGED <<diskVars, point, processVars, total, emitter, tracked>>
  /\ IF Content = <<>> THEN Return
     ELSE /\ pc' = "search" /\ at' = <<1, 0, 0>>
          /\ row' = Created
          /\ age' = 0
          /\ armed' = TRUE
          /\ UNCHANGED <<logged, clientVars>>

\* paginateIssues answers with the issues of project at[1].
Found ==
  /\ pc = "search"
  /\ UNCHANGED <<diskVars, point, processVars, total, emitter, tracked>>
  /\ NextIssue(at[1], 0, emitter, FALSE)

\* paginateIssues is rejected: so is run(), and the timer stays armed.
SearchRejected ==
  /\ SearchMayFail /\ pc = "search"
  /\ pc' = "rejected"
  /\ UNCHANGED <<row, age, logged, diskVars, point, processVars, at, total, emitter, armed,
                 tracked, clientVars>>

\* The three reads of captureIssue are answered: the payload is written, the
\* issue counted and ticked.
Captured ==
  /\ pc = "fetch"
  /\ LET e == [emitter EXCEPT !.done = @ + 1]
     IN  /\ emitter' = e
         /\ files' = files \cup {at}
         /\ After(at, e, entries, files)
  /\ total' = [total EXCEPT !.captured = @ + 1]
  /\ UNCHANGED <<errors, point, processVars, tracked>>

NotCapturedUnsaid ==  \* mutant: the error is not written to job_errors
  /\ pc = "fetch"
  /\ LET e == [emitter EXCEPT !.failed = @ + 1]
     IN  /\ emitter' = e
         /\ entries' = Append(entries, Failed(at))
         /\ NextIssue(at[1], at[2], e, TRUE)
  /\ total' = [total EXCEPT !.errors = @ + 1]
  /\ UNCHANGED <<errors, files, point, processVars, tracked>>

NotCapturedThrows ==  \* mutant: the failure of an issue ends the run
  /\ pc = "fetch"
  /\ pc' = "rejected"
  /\ UNCHANGED <<row, age, logged, diskVars, point, processVars, at, total, emitter, armed,
                 tracked, clientVars>>

\* One of them is rejected, or the payload cannot be written: an error entry, a
\* row of job_errors, a failed tick, and the run goes on.
NotCaptured ==
  /\ pc = "fetch"
  /\ LET e == [emitter EXCEPT !.failed = @ + 1]
     IN  /\ emitter' = e
         /\ entries' = Append(entries, Failed(at))
         /\ errors' = WithError(at)
         /\ NextIssue(at[1], at[2], e, TRUE)
  /\ total' = [total EXCEPT !.errors = @ + 1]
  /\ UNCHANGED <<files, point, processVars, tracked>>

\* downloadAttachment: the blob is saved, then its ok entry appended.
Downloaded ==
  /\ pc = "download"
  /\ LET e == [emitter EXCEPT !.done = @ + 1]
     IN  /\ emitter' = e
         /\ files' = files \cup {at}
         /\ After(at, e, Append(entries, Okay(at)), files \cup {at})
  /\ UNCHANGED <<errors, point, processVars, total, tracked>>

\* The download is rejected or the blob not saved: the attachment is ticked as
\* failed, and the loop of captureIssue then ticks it as done.
NotDownloaded ==
  /\ pc = "download"
  /\ LET f == [emitter EXCEPT !.failed = @ + 1]
     IN  /\ emitter' = [f EXCEPT !.done = @ + 1]
         /\ After(at, f, Append(entries, Failed(at)), files)
  /\ errors' = WithError(at)
  /\ total' = [total EXCEPT !.errors = @ + 1]
  /\ UNCHANGED <<files, point, processVars, tracked>>

\* The SDI scan settles, one way or the other: insertEntry keeps nothing of it.
Scanned ==
  /\ pc = "scan"
  /\ entries' = Append(entries, Okay(IssueOf(at)))
  /\ UNCHANGED <<errors, files, point, processVars, total, emitter, tracked>>
  /\ NextIssue(at[1], at[2], emitter, FALSE)

-----------------------------------------------------------------------------
(* BackupPointManifestWriter.finalize                                      *)

OkEntries == {k \in DOMAIN entries : entries[k].ok}

\* Once run() has returned its caller finalises the point with the number of
\* issues that were discovered. Attachments are entered under the type of
\* issues, so they are counted with them; any difference is an omission.
Finalize ==
  /\ up /\ pc = "returned" /\ point = "in_progress"
  /\ point' = IF Cardinality(OkEntries) # Cardinality(Issues) THEN "omission"
              ELSE IF total.errors = 0 THEN "completed" ELSE "completed_with_errors"
  /\ UNCHANGED <<row, age, logged, diskVars, processVars, pc, at, total, emitter, armed,
                 tracked, clientVars>>

-----------------------------------------------------------------------------
(* StalledJobDetector.check, JobRouter and the environment                 *)

CheckOwnJobs ==  \* mutant: only a job that runs in this process is looked at
  /\ DetectorRuns /\ up /\ armed
  /\ IF row.status \in Active /\ age > StaleThreshold
     THEN ~tracked /\ tracked' = TRUE /\ row' = Flagged(TRUE)
     ELSE /\ tracked /\ tracked' = FALSE
          /\ row' = IF row.status \in Active
                    THEN Flagged(FALSE) ELSE row
  /\ UNCHANGED <<age, logged, diskVars, point, processVars, pc, at, total, emitter, armed,
                 clientVars>>

CheckNoRecovery ==  \* mutant: recovery is not written to the row
  /\ DetectorRuns /\ up
  /\ IF row.status \in Active /\ age > StaleThreshold
     THEN ~tracked /\ tracked' = TRUE /\ row' = Flagged(TRUE)
     ELSE tracked /\ tracked' = FALSE /\ UNCHANGED row
  /\ UNCHANGED <<age, logged, diskVars, point, processVars, pc, at, total, emitter, armed,
                 clientVars>>

\* A silent job is flagged once and becomes stalled; one that was heard of again
\* becomes running; one that has ended is forgotten.
Check ==
  /\ DetectorRuns /\ up
  /\ IF row.status \in Active /\ age > StaleThreshold
     THEN ~tracked /\ tracked' = TRUE /\ row' = Flagged(TRUE)
     ELSE /\ tracked /\ tracked' = FALSE
          /\ row' = IF row.status \in Active
                    THEN Flagged(FALSE) ELSE row
  /\ UNCHANGED <<age, logged, diskVars, point, processVars, pc, at, total, emitter, armed,
                 clientVars>>

\* GET /:jobId/events: what is in job_events is replayed, then live events follow.
Subscribe ==
  /\ up /\ row.status # "none" /\ stream = "closed"
  /\ stream' = IF Terminal THEN "late" ELSE "live"
  /\ told' = (logged = "terminal")
  /\ UNCHANGED <<row, age, logged, diskVars, point, processVars, pc, at, total, emitter, armed,
                 tracked>>

\* req.on('close'): the client goes away.
Disconnect ==
  /\ stream \in {"live", "late"}
  /\ stream' = "closed" /\ told' = FALSE
  /\ UNCHANGED <<row, age, logged, diskVars, point, processVars, pc, at, total, emitter, armed,
                 tracked>>

TickOn ==  \* mutant: the clock of the model is not capped
  /\ row.status \in Active
  /\ age' = age + 1
  /\ UNCHANGED <<row, logged, diskVars, point, processVars, pc, at, total, emitter, armed,
                 tracked, clientVars>>

\* The clock; age matters only up to the threshold and while the job is active.
Tick ==
  /\ row.status \in Active /\ age <= StaleThreshold
  /\ age' = age + 1
  /\ UNCHANGED <<row, logged, diskVars, point, processVars, pc, at, total, emitter, armed,
                 tracked, clientVars>>

Crash ==
  /\ up /\ crashes < MaxCrashes
  /\ up' = FALSE
  /\ crashes' = crashes + 1
  /\ pc' = IF pc = "idle" THEN pc ELSE "gone"
  /\ armed' = FALSE
  /\ tracked' = FALSE
  /\ stream' = IF stream = "ended" THEN stream ELSE "closed"
  /\ told' = (told /\ stream = "ended")
  /\ UNCHANGED <<row, age, logged, diskVars, point, at, total, emitter>>

\* Nothing takes up the run again.
Restart ==
  /\ ~up
  /\ up' = TRUE
  /\ UNCHANGED <<row, age, logged, diskVars, point, crashes, pc, at, total, emitter, armed,
                 tracked, clientVars>>

-----------------------------------------------------------------------------
\* What Jira and the disk owe the run.
Work ==
  \/ Found \/ SearchRejected
  \/ Captured \/ NotCaptured
  \/ Downloaded \/ NotDownloaded
  \/ Scanned

Next ==
  \/ Start \/ Work \/ Beat \/ Finalize \/ Check
  \/ Subscribe \/ Disconnect
  \/ Tick \/ Crash \/ Restart

Spec == Init /\ [][Next]_vars

-----------------------------------------------------------------------------
(* Safety.                                                                 *)

EntriesOf(x) == {k \in DOMAIN entries : entries[k].item = x}
ErrorEntries == {k \in DOMAIN entries : ~entries[k].ok}

\* The records of failure agree: error entries of the manifest, rows of job_errors,
\* the orchestrator's count and the emitter's count, and, once the job has ended, the
\* count and the list GET /:jobId answers with; no item is entered twice
\* (captureIssue and downloadAttachment keep them separately).
BooksAgree ==
  /\ Cardinality(ErrorEntries) = Len(errors)
  /\ \A x \in Items : Cardinality(EntriesOf(x)) <= 1
  /\ \A k \in DOMAIN errors : \E e \in ErrorEntries : entries[e].item = errors[k]
  /\ total.errors = Len(errors) /\ emitter.failed = Len(errors)
  /\ Terminal => JobSummary.failed = Len(JobSummary.errors)

\* The verdict of the row tells what the manifest says, and still does after a
\* restart: completed means that everything is ok, failed that nothing is.
VerdictIsHonest ==
  /\ row.status = "completed" => ErrorEntries = {}
  /\ row.status = "failed" => OkEntries = {} /\ ErrorEntries # {}
  /\ row.status = "completed_with_errors" => OkEntries # {} /\ ErrorEntries # {}
  /\ row.status = "running" /\ up => pc \in Awaiting \cup {"rejected", "gone"}

\* An ok entry is durable: its payload or blob was on disk before it, and those of
\* the attachments of an issue precede its own, whenever the process dies.
OkIsOnDisk ==
  \A k \in OkEntries :
    LET x == entries[k].item
    IN  /\ x \in files
        /\ x \in Issues => \A a \in AttachmentsOf(x) : \E h \in EntriesOf(a) : h < k

\* The row and the detector agree on what is stalled, a row that is flagged has
\* been silent, and a job the detector does not know as stalled says so only when
\* an earlier process flagged it.
StallAgreement ==
  /\ row.stalled => row.status = "stalled" /\ age > StaleThreshold
  /\ tracked => row.status # "running"
  /\ row.status = "stalled" /\ ~tracked => pc = "gone"

\* Whoever opens the stream of a job learns that it ended, live or by replay,
\* and a stream opened before the end is ended by it (JobRouter, subscription after
\* the replay; HeartbeatEmitter.complete).
EndIsTold ==
  Terminal => /\ stream # "live"
              /\ stream \in {"late", "ended"} => told

\* A finalised point omits nothing (BackupPointManifestWriter.ts:77-78, "every
\* discovered object must have a corresponding ok entry, or finalize() throws").
NoSilentOmission ==
  point \in {"completed", "completed_with_errors"} =>
    \A x \in Issues : \E k \in EntriesOf(x) : entries[k].ok

\* The run implements what a backup run promises to readers of the point.
Settled ==
  [x \in Items |-> IF EntriesOf(x) = {} THEN "open"
                   ELSE IF EntriesOf(x) \cap OkEntries # {} THEN "ok" ELSE "error"]
Ledger == INSTANCE BackupLedger WITH
  Attachments <- [x \in Issues |-> AttachmentsOf(x)],
  ledger <- Settled,
  verdict <- IF row.status \in Active THEN "running" ELSE row.status
KeepsLedger == Ledger!Spec

-----------------------------------------------------------------------------
(* Liveness.                                                               *)

\* Jira answers, the timers of a live process fire, a process that died is
\* started again. Nobody must subscribe, disconnect or finalise.
Fairness ==
  /\ WF_vars(Start) /\ WF_vars(Work)
  /\ WF_vars(Beat) /\ WF_vars(Check)
  /\ WF_vars(Tick) /\ WF_vars(Restart)

FairSpec == Spec /\ Fairness

\* A run that has begun ends, whatever reads and downloads fail, unless its process
\* dies or the search for the issues of a project, before the first of them, is
\* rejected.
RunEnds ==
  row.status \in Active ~> Terminal \/ pc = "gone" \/ (pc = "rejected" /\ at[2] = 0)

\* A job that is silent for longer than the threshold shows as stalled, also when
\* the process that ran it died (ARCHITECTURE.md:365).
SilenceSurfaces ==
  (row.status \in Active /\ age > StaleThreshold)
    ~> (row.stalled \/ Terminal \/ age <= StaleThreshold)
=============================================================================
