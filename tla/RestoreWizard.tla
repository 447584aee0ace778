--------------------------- MODULE RestoreWizard ----------------------------
(***************************************************************************)
(* The restore wizard of the frontend (RestoreWizard.tsx) as the client of *)
(* the restore jobs of the server: the form of its first five steps, the   *)
(* request that starts a job, and the execute step, which polls the job,   *)
(* keeps a stall timer of its own and asks the operator about conflicts.   *)
(*                                                                         *)
(* The server side is RestoreJob, with its router mounted where the wizard *)
(* calls it. Its clock, heartbeats and streams are left out: the wizard    *)
(* reads none of what they write.                                          *)
(***************************************************************************)
EXTENDS RestoreJob

CONSTANTS
  MaxPolls,      \* bound: polls whose answer is outstanding
  StallPeriods,  \* STALL_THRESHOLD_MS / POLL_INTERVAL_MS
  MaxLost        \* bound: answers to POST that are lost

ASSUME PollAssumption == MaxPolls \in Nat \ {0} /\ StallPeriods \in Nat \ {0}
ASSUME LostAssumption == MaxLost \in Nat

\* The steps of the form are filled one by one, in any combination.
ASSUME FormsAssumption ==
  \A f, r \in Requests :
    {[f EXCEPT !.scope = r.scope, !.keys = r.keys], [f EXCEPT !.dest = r.dest],
     [f EXCEPT !.mode = r.mode]} \subseteq Requests

VARIABLES
  step,          \* 1..6, and 7 when the wizard is closed
  form,          \* the request as the steps have filled it
  trashBlocked,  \* trashWindowBlocked of the wizard's state
  starting,      \* no | sent | refused | created: the request that starts a job
  sent,          \* the form as it was when the operator pressed Start
  lost,          \* how many answers to it were lost
  job,           \* jobId, none before the answer came
  shown,         \* the last state of the job that a poll brought, none before
  polls,         \* [1..MaxPolls -> free | asked | the state in the answer]
  polling,       \* the interval of the polls is set
  armed,         \* the stall timer is set
  quiet,         \* poll periods since a poll last brought a state
  banner,        \* the stalled banner is up
  prompt,        \* a conflict prompt was raised
  deciding       \* a decision is under way

formVars == <<step, form, trashBlocked>>
startVars == <<starting, sent, lost, job>>
pollVars == <<shown, polls, polling>>
stallVars == <<armed, quiet, banner>>
promptVars == <<prompt, deciding>>
wizardVars == <<formVars, startVars, pollVars, stallVars, promptVars>>
serverVars == vars
allVars == <<serverVars, wizardVars>>

NoJob == "none"
ASSUME JobsAssumption == NoJob \notin Jobs
NoState == [status |-> "none", phase |-> 0]
States == [status : Status, phase : 0..LastPhase]
Slots == 1..MaxPolls
Free == [status |-> "free", phase |-> 0]
Asked == [status |-> "asked", phase |-> 0]
InFlight(k) == polls[k] # Free

JobStatus == IF job = NoJob THEN "none" ELSE status[job]
JobEnded == JobStatus \in {"completed", "failed"}

\* The status the wizard takes as the end of a job.
Done(s) == s.status \in {"completed", "failed"}

WizardTypeOK ==
  /\ step \in 1..7
  /\ {form, sent} \subseteq Requests
  /\ trashBlocked \in BOOLEAN
  /\ starting \in {"no", "sent", "refused", "created"}
  /\ lost \in 0..MaxLost
  /\ job \in Jobs \cup {NoJob}
  /\ shown \in States
  /\ polls \in [Slots -> States \cup {Free, Asked}]
  /\ {polling, armed, banner, prompt, deciding} \subseteq BOOLEAN
  /\ quiet \in 0..StallPeriods

\* All of the backup point to its original location, skipping what exists.
InitialForms == {r \in Requests : r.dest = "original" /\ r.scope = "all" /\ r.mode = "skip"}

WizardInit ==
  /\ Init
  /\ step = 1
  /\ form \in InitialForms
  /\ sent = form
  /\ trashBlocked = FALSE
  /\ starting = "no"
  /\ lost = 0
  /\ job = NoJob
  /\ shown = NoState
  /\ polls = [k \in Slots |-> Free]
  /\ polling = FALSE
  /\ armed = FALSE
  /\ quiet = 0
  /\ banner = FALSE
  /\ prompt = FALSE
  /\ deciding = FALSE

-----------------------------------------------------------------------------
(* Steps 1 to 5                                                            *)

\* What the Next button of a step asks for.
ScopeValid == form.scope = "projects" => form.keys # <<>>
DestinationValid == form.dest = "original" => ~trashBlocked

Forward ==
  /\ step \in 1..4
  /\ step = 2 => ScopeValid
  /\ step = 3 => DestinationValid
  /\ step' = step + 1
  /\ UNCHANGED <<serverVars, form, trashBlocked, startVars, pollVars, stallVars, promptVars>>

\* Back is never disabled, not even while a start is under way. The review also
\* has a link to the destination, when the start was blocked.
Back ==
  /\ step \in 2..5
  /\ \/ step' = step - 1
     \/ step = 5 /\ trashBlocked /\ step' = 3
  /\ UNCHANGED <<serverVars, form, trashBlocked, startVars, pollVars, stallVars, promptVars>>

\* The operator fills the step; nothing resets trashBlocked.
Fill(r) ==
  /\ \/ step = 2 /\ form' = [form EXCEPT !.scope = r.scope, !.keys = r.keys]
     \/ /\ step = 3 /\ (r.dest = "original" => ~trashBlocked)
        /\ form' = [form EXCEPT !.dest = r.dest]
     \/ step = 4 /\ form' = [form EXCEPT !.mode = r.mode]
  /\ form' # form
  /\ UNCHANGED <<serverVars, step, trashBlocked, startVars, pollVars, stallVars, promptVars>>

\* handleStart, up to the answer of createRestoreJob.
PressStart ==
  /\ step = 5 /\ starting = "no" /\ ~trashBlocked
  /\ starting' = "sent" /\ sent' = form
  /\ UNCHANGED <<serverVars, formVars, lost, job, pollVars, stallVars, promptVars>>

ServeStartLate ==  \* mutant: the body is built from the form as it has become
  /\ up /\ starting = "sent"
  /\ \E j \in Jobs : PostJob(j, form) /\ starting' = "created" /\ job' = j
  /\ UNCHANGED <<formVars, sent, lost, pollVars, stallVars, promptVars>>

\* The server handles the request: it creates a job or answers 409.
ServeStart ==
  /\ up /\ starting = "sent"
  /\ \/ \E j \in Jobs : PostJob(j, sent) /\ starting' = "created" /\ job' = j
     \/ InTrash(sent) /\ starting' = "refused" /\ UNCHANGED <<serverVars, job>>
  /\ UNCHANGED <<formVars, sent, lost, pollVars, stallVars, promptVars>>

\* The answer arrives: the wizard goes to the execute step, from whatever step it
\* is at, which polls at once and arms its timers; or it shows the block.
StartAnswered ==
  \/ /\ starting = "created"
     /\ starting' = "no" /\ step' = 6
     /\ polls' = [polls EXCEPT ![1] = Asked]
     /\ polling' = TRUE /\ armed' = TRUE
     /\ UNCHANGED <<serverVars, form, trashBlocked, sent, lost, job, shown, quiet, banner, promptVars>>
  \/ /\ starting = "refused"
     /\ starting' = "no" /\ trashBlocked' = TRUE
     /\ UNCHANGED <<serverVars, step, form, sent, lost, job, pollVars, stallVars, promptVars>>

\* The request or its answer is lost: the wizard shows an error at the review and
\* knows of no job, whether or not one was created.
StartLost ==
  /\ starting # "no" /\ lost < MaxLost
  /\ starting' = "no" /\ job' = NoJob /\ lost' = lost + 1
  /\ UNCHANGED <<serverVars, formVars, sent, pollVars, stallVars, promptVars>>

-----------------------------------------------------------------------------
(* Step 6: StepExecute                                                     *)

PeriodOn ==  \* mutant: the periods of silence are not capped
  /\ step = 6 /\ (polling \/ armed)
  /\ quiet' = quiet + 1
  /\ UNCHANGED <<serverVars, formVars, startVars, pollVars, armed, banner, promptVars>>

\* POLL_INTERVAL_MS pass: a poll goes out, whether or not the one before it has
\* been answered; the stall timer fires when its time is up.
Period ==
  /\ step = 6 /\ (polling \/ armed)
  /\ polling => \E k \in Slots : ~InFlight(k)
  /\ IF polling
     THEN \E k \in Slots : ~InFlight(k) /\ polls' = [polls EXCEPT ![k] = Asked]
     ELSE UNCHANGED polls
  /\ quiet' = IF quiet < StallPeriods THEN quiet + 1 ELSE quiet
  /\ banner' = (banner \/ (armed /\ quiet' = StallPeriods))
  /\ UNCHANGED <<serverVars, formVars, startVars, shown, polling, armed, promptVars>>

\* GET /:id reads the row.
ServePoll(k) ==
  /\ up /\ polls[k] = Asked
  /\ polls' = [polls EXCEPT ![k] = [status |-> status[job], phase |-> phase[job]]]
  /\ UNCHANGED <<serverVars, formVars, startVars, shown, polling, stallVars, promptVars>>

\* doPoll after its answer: the stall timer starts anew, a prompt is raised when the
\* job has come to wait, the state is shown whatever was shown before it, and the
\* first end that is seen clears both timers.
PollArrives(k) ==
  /\ step = 6 /\ polls[k] \in States
  /\ polls' = [polls EXCEPT ![k] = Free]
  /\ shown' = polls[k]
  /\ quiet' = 0 /\ banner' = FALSE
  /\ polling' = (polling /\ ~Done(polls[k]))
  /\ armed' = ~(polling /\ Done(polls[k]))
  /\ prompt' = (prompt \/ (polls[k].status = "awaiting_decision"
                           /\ shown.status # "awaiting_decision"))
  /\ UNCHANGED <<serverVars, formVars, startVars, deciding>>

\* fetchRestoreJob throws: the error is shown, nothing else changes.
PollFails(k) ==
  /\ InFlight(k) /\ step = 6
  /\ polls' = [polls EXCEPT ![k] = Free]
  /\ UNCHANGED <<serverVars, formVars, startVars, shown, polling, stallVars, promptVars>>

PromptVisible == prompt /\ shown.status = "awaiting_decision"

\* handleDecision posts the decision with the id 'pending'.
Decide ==
  /\ step = 6 /\ PromptVisible /\ ~deciding
  /\ deciding' = TRUE
  /\ UNCHANGED <<serverVars, formVars, startVars, pollVars, stallVars, prompt>>

\* That id names no conflict: the answer is 404, or 409 when the job is not waiting.
\* The error is dropped and the prompt stays.
DecisionRefused ==
  /\ deciding
  /\ deciding' = FALSE
  /\ UNCHANGED <<serverVars, formVars, startVars, pollVars, stallVars, prompt>>

\* The button of the report, there when an end is shown.
Close ==
  /\ step = 6 /\ Done(shown)
  /\ step' = 7
  /\ polling' = FALSE /\ armed' = FALSE
  /\ polls' = [k \in Slots |-> Free]
  /\ UNCHANGED <<serverVars, form, trashBlocked, startVars, shown, quiet, banner, promptVars>>

-----------------------------------------------------------------------------
\* What the server does on its own.
ServerTurn ==
  /\ \/ \E j \in Jobs : Work(j)
     \/ \E k \in Keys : TrashProject(k)
     \/ Crash \/ Restart
  /\ UNCHANGED wizardVars

Operator ==
  \/ Forward \/ Back \/ \E r \in Requests : Fill(r)
  \/ PressStart
  \/ Decide
  \/ Close

WizardNext ==
  \/ ServerTurn
  \/ Operator
  \/ ServeStart \/ StartAnswered \/ StartLost
  \/ Period \/ DecisionRefused
  \/ \E k \in Slots : ServePoll(k) \/ PollArrives(k) \/ PollFails(k)

WizardSpec == WizardInit /\ [][WizardNext]_allVars

-----------------------------------------------------------------------------
(* Safety.                                                                 *)

\* The job on screen is the one the operator reviewed: what was created is the form
\* as it was when Start was pressed, whatever was clicked while it was under way.
JobIsWhatWasReviewed ==
  job # NoJob => request[job] = sent

\* An end that is shown is the end of the job: no state from before a restart or
\* from a late answer makes the wizard report an end that did not happen.
ShownEndIsReal ==
  step = 6 /\ Done(shown) => shown.status = JobStatus

-----------------------------------------------------------------------------
(* Liveness.                                                               *)

\* The server works and answers, the browser's timers fire, answers to polls are
\* not lost for ever, and an operator at the review or before a prompt presses a
\* button. Nobody must go back, trash a project or close the wizard.
WizardFairness ==
  /\ \A j \in Jobs : WF_allVars(Work(j) /\ UNCHANGED wizardVars)
  /\ WF_allVars(Restart /\ UNCHANGED wizardVars)
  /\ WF_allVars(ServeStart) /\ WF_allVars(StartAnswered)
  /\ WF_allVars(Period)
  /\ \A k \in Slots : SF_allVars(ServePoll(k)) /\ SF_allVars(PollArrives(k))
  /\ WF_allVars(PressStart) /\ WF_allVars(Decide) /\ WF_allVars(DecisionRefused)

FairWizard == WizardSpec /\ WizardFairness

\* The operator gets to see how the job ended and keeps seeing it until the wizard is
\* closed (docs/restore-architecture.md:47, "Final status: Completed / Completed with
\* N errors / Failed").
OutcomeIsShown ==
  (step = 6 /\ JobEnded) ~> (step = 7 \/ Done(shown))
=============================================================================
