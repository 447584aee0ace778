------------------------ MODULE RestoreWizardProofs -------------------------
(* Proofs about RestoreWizard, for any jobs, forms, polls and bounds. The   *)
(* server keeps its own invariant, IInv of RestoreJobProofs, because every  *)
(* step of the wizard is a step of RestoreJob or leaves it alone.           *)
EXTENDS RestoreWizard, RestoreJobProofs

\* The wizard knows a job exactly from the answer to its request until it is closed,
\* and it is the one it asked for.
KnowsItsJob ==
  /\ job # NoJob => /\ starting = "created" \/ step \in {6, 7}
                    /\ request[job] = sent /\ status[job] # "none"
  /\ starting = "created" => job # NoJob
  /\ step \in {6, 7} => starting = "no" /\ job # NoJob

\* What it was told of an end, and what it shows of it, agrees with the row.
EndsAgree ==
  /\ \A k \in Slots : /\ InFlight(k) => step = 6
                      /\ Done(polls[k]) => polls[k].status = status[job]
  /\ Done(shown) => step \in {6, 7} /\ shown.status = status[job]

WInv == WizardTypeOK /\ KnowsItsJob /\ EndsAgree

\* A step of the server leaves a job that exists what it is, and its end for good.
RowKept(k) ==
  /\ request'[k] = request[k] /\ status'[k] # "none"
  /\ status[k] \in {"completed", "failed"} => status'[k] = status[k]

-----------------------------------------------------------------------------
(* The server's side.                                                      *)

\* Every step of the wizard is a step of the server, or none.
LEMMA WizardStepsAreJobSteps ==
  ASSUME WizardTypeOK, [WizardNext]_allVars
  PROVE  [Next]_vars
<1>1. ASSUME NEW j \in Jobs, PostJob(j, sent) PROVE Next
  BY <1>1 DEF Next, WizardTypeOK
<1>2. CASE ServeStart
  BY <1>1, <1>2 DEF ServeStart, serverVars
<1>3. CASE ServerTurn
  BY <1>3 DEF ServerTurn, Next
<1>4. CASE Operator
  BY <1>4 DEF Operator, Forward, Back, Fill, PressStart, Decide, Close, serverVars
<1>5. CASE StartAnswered \/ StartLost \/ Period \/ DecisionRefused
  BY <1>5 DEF StartAnswered, StartLost, Period, DecisionRefused, serverVars
<1>6. ASSUME NEW k \in Slots, ServePoll(k) \/ PollArrives(k) \/ PollFails(k)
      PROVE  UNCHANGED vars
  BY <1>6 DEF ServePoll, PollArrives, PollFails, serverVars
<1>7. CASE UNCHANGED allVars
  BY <1>7 DEF allVars, serverVars
<1> QED BY <1>2, <1>3, <1>4, <1>5, <1>6, <1>7 DEF WizardNext

\* A turn of the worker keeps its row.
LEMMA WorkKeepsRow ==
  ASSUME IInv, NEW k \in Jobs, Work(k)
  PROVE  RowKept(k)
<1>1. ~Terminal(k)
  BY TerminalWorker
<1>2. WorkerAt(k) /\ status \in [Jobs -> Status]
  BY DEF IInv, JobInv, TypeOK
<1>3. status[k] # "none"
  BY <1>2 DEF WorkerAt, Work, TrashBlocks, TrashPasses, TrashCheckFails, ArchiveReady, ArchiveFails,
              ProbeThenWrite, ProbeThenSkip, ProbeThenAsk, PollOverride, PollSkip,
              ProjectLands, ProjectWritten, StubNextCall, StubNextPhase, Complete, CallFails
<1>4. request' = request
  BY DEF Work, TrashBlocks, TrashPasses, TrashCheckFails, ArchiveReady, ArchiveFails,
         ProbeThenWrite, ProbeThenSkip, ProbeThenAsk, PollOverride, PollSkip,
         ProjectLands, ProjectWritten, StubNextCall, StubNextPhase, Complete, CallFails, rowVars
<1>5. status'[k] # "none"
  BY <1>2, <1>3
     DEF Work, TrashBlocks, TrashPasses, TrashCheckFails, ArchiveReady, ArchiveFails,
         ProbeThenWrite, ProbeThenSkip, ProbeThenAsk, PollOverride, PollSkip,
         ProjectLands, ProjectWritten, StubNextCall, StubNextPhase, Complete, CallFails, rowVars,
         SetFailed, SetCompleted
<1> QED BY <1>1, <1>4, <1>5 DEF RowKept, Terminal

\* What the server does on its own, or for another job, keeps the row of a job.
LEMMA ServerKeepsRow ==
  ASSUME IInv, NEW k \in Jobs, status[k] # "none",
         \/ ServerTurn
         \/ \E j \in Jobs, r \in Requests : PostJob(j, r)
         \/ UNCHANGED vars
  PROVE  RowKept(k)
<1>1. ASSUME NEW j \in Jobs, j # k, (\E r \in Requests : PostJob(j, r)) \/ Work(j)
      PROVE  RowKept(k)
  <2>1. SameJob(k)
    BY <1>1, TurnFramesOthers DEF IInv
  <2> QED BY <2>1 DEF SameJob, SameWork, RowKept
<1>2. ~\E r \in Requests : PostJob(k, r)
  BY DEF PostJob
<1>3. CASE \/ \E p \in Keys : TrashProject(p)
           \/ Crash \/ Restart \/ UNCHANGED vars
  BY <1>3 DEF TrashProject, Crash, Restart, vars, rowVars, RowKept
<1> QED BY <1>1, <1>2, <1>3, WorkKeepsRow DEF ServerTurn

-----------------------------------------------------------------------------
(* The wizard's side.                                                      *)

USE DEF Slots, InFlight, Done, NoJob, Free, Asked, NoState

\* A wizard that has just been opened knows nothing and shows nothing.
LEMMA WInvInit == WizardInit => WInv
<1> SUFFICES ASSUME WizardInit PROVE WInv
  OBVIOUS
<1>1. WizardTypeOK
  <2>1. polls \in [Slots -> States \cup {Free, Asked}] /\ shown \in States
    BY DEF WizardInit, States, Status, LastPhase
  <2>2. {form, sent} \subseteq Requests /\ lost \in 0..MaxLost /\ quiet \in 0..StallPeriods
    BY LostAssumption, PollAssumption DEF WizardInit, InitialForms
  <2>3. step \in 1..7 /\ starting \in {"no", "sent", "refused", "created"}
        /\ job \in Jobs \cup {NoJob}
    BY DEF WizardInit
  <2>4. trashBlocked \in BOOLEAN /\ {polling, armed, banner, prompt, deciding} \subseteq BOOLEAN
    BY DEF WizardInit
  <2> QED BY <2>1, <2>2, <2>3, <2>4 DEF WizardTypeOK
<1>2. KnowsItsJob
  BY DEF WizardInit, KnowsItsJob
<1>3. EndsAgree
  BY DEF WizardInit, EndsAgree
<1> QED BY <1>1, <1>2, <1>3 DEF WInv

\* A step that leaves the wizard alone, or moves it in the form only, keeps what it
\* knows when the row of its job is kept.
LEMMA WizardFrame ==
  ASSUME IInv, WInv, UNCHANGED <<startVars, pollVars>>, step' = step \/ {step, step'} \subseteq 1..5,
         job # NoJob => RowKept(job)
  PROVE  KnowsItsJob' /\ EndsAgree'
<1>1. job # NoJob => job \in Jobs
  BY DEF WInv, WizardTypeOK
<1>2. job \in Jobs => RowKept(job) /\ status[job] # "none"
  BY JobsAssumption DEF WInv, KnowsItsJob
<1>3. KnowsItsJob'
  BY <1>1, <1>2 DEF WInv, KnowsItsJob, startVars, RowKept
<1>4. step \in {6, 7} => job \in Jobs
  BY <1>1 DEF WInv, KnowsItsJob
<1>5. ASSUME NEW k \in Slots PROVE /\ InFlight(k)' => step' = 6
                                   /\ Done(polls[k])' => (polls[k].status = status[job])'
  BY <1>2, <1>4 DEF WInv, EndsAgree, startVars, pollVars, RowKept
<1>6. Done(shown)' => step' \in {6, 7} /\ (shown.status = status[job])'
  BY <1>2, <1>4 DEF WInv, EndsAgree, startVars, pollVars, RowKept
<1> QED BY <1>3, <1>5, <1>6 DEF EndsAgree
-----------------------------------------------------------------------------
(* The steps of the wizard, one lemma for each group.                      *)

\* Server turns, the form, decisions and time that passes without a poll: the part of
\* the wizard that knows of the job does not move.
LEMMA QuietSteps ==
  ASSUME IInv, WInv,
         \/ ServerTurn \/ Forward \/ Back \/ \E r \in Requests : Fill(r)
         \/ Decide \/ DecisionRefused \/ UNCHANGED allVars
  PROVE  WInv'
<1>1. step' = step \/ {step, step'} \subseteq 1..5
  <2>1. CASE ServerTurn
    BY <2>1 DEF ServerTurn, wizardVars, formVars
  <2>2. CASE Forward
    BY <2>2 DEF Forward
  <2>3. CASE Back
    BY <2>3 DEF Back
  <2>4. CASE Decide \/ DecisionRefused \/ UNCHANGED allVars
    BY <2>4 DEF Decide, DecisionRefused, allVars, wizardVars, formVars
  <2>5. CASE \E r \in Requests : Fill(r)
    BY <2>5 DEF Fill
  <2> QED BY <2>1, <2>2, <2>3, <2>4, <2>5
<1>2. UNCHANGED <<startVars, pollVars, stallVars>>
  BY DEF ServerTurn, Forward, Back, Fill, Decide, DecisionRefused, allVars, wizardVars
<1>3. ServerTurn \/ UNCHANGED vars
  BY DEF Forward, Back, Fill, Decide, DecisionRefused, allVars, serverVars
<1>4. job # NoJob => RowKept(job)
  BY <1>3, ServerKeepsRow DEF WInv, KnowsItsJob, WizardTypeOK
<1>5. KnowsItsJob' /\ EndsAgree'
  BY <1>1, <1>2, <1>4, WizardFrame
<1>6. step' \in 1..7 /\ form' \in Requests
  <2>1. CASE ServerTurn \/ Decide \/ DecisionRefused \/ UNCHANGED allVars
    BY <2>1 DEF ServerTurn, Decide, DecisionRefused, allVars, wizardVars, formVars, WInv, WizardTypeOK
  <2>2. CASE Forward \/ Back
    BY <2>2 DEF Forward, Back, WInv, WizardTypeOK
  <2>3. ASSUME NEW r \in Requests, Fill(r) PROVE step' \in 1..7 /\ form' \in Requests
    <3>1. form \in Requests /\ step \in 1..7
      BY DEF WInv, WizardTypeOK
    <3>2. {[form EXCEPT !.scope = r.scope, !.keys = r.keys], [form EXCEPT !.dest = r.dest],
           [form EXCEPT !.mode = r.mode]} \subseteq Requests
      BY <3>1, FormsAssumption
    <3> QED BY <2>3, <3>1, <3>2 DEF Fill
  <2> QED BY <2>1, <2>2, <2>3
<1>7. trashBlocked' \in BOOLEAN /\ {prompt', deciding'} \subseteq BOOLEAN
  BY DEF ServerTurn, Forward, Back, Fill, Decide, DecisionRefused, allVars, wizardVars, formVars,
         promptVars, WInv, WizardTypeOK
<1>8. WizardTypeOK'
  BY <1>2, <1>6, <1>7 DEF startVars, pollVars, stallVars, WInv, WizardTypeOK
<1> QED BY <1>5, <1>8 DEF WInv

\* The request that starts a job, its answer, and the loss of either.
LEMMA StartSteps ==
  ASSUME IInv, WInv, PressStart \/ ServeStart \/ StartAnswered \/ StartLost
  PROVE  WInv'
<1> USE DEF startVars, formVars, pollVars, stallVars, promptVars, serverVars, WInv
<1>1. CASE PressStart
  <2>1. WizardTypeOK'
    BY <1>1 DEF PressStart, WizardTypeOK
  <2>2. job = NoJob
    BY <1>1 DEF PressStart, WizardTypeOK, KnowsItsJob
  <2>3. KnowsItsJob' /\ EndsAgree'
    BY <1>1, <2>2 DEF PressStart, WizardTypeOK, KnowsItsJob, EndsAgree, vars, rowVars
  <2> QED BY <2>1, <2>3
<1>2. CASE ServeStart
  <2>1. step \notin {6, 7}
    BY <1>2 DEF ServeStart, KnowsItsJob
  <2>2. ASSUME NEW j \in Jobs, PostJob(j, sent), starting' = "created", job' = j
        PROVE  WInv'
    <3>1. request'[j] = sent /\ status'[j] # "none"
      BY <2>2 DEF PostJob, IInv, TypeOK
    <3>2. WizardTypeOK'
      BY <1>2, <2>2 DEF ServeStart, WizardTypeOK
    <3>3. KnowsItsJob'
      BY <1>2, <2>1, <2>2, <3>1, JobsAssumption DEF ServeStart, KnowsItsJob
    <3>4. EndsAgree'
      BY <1>2, <2>1, <2>2 DEF ServeStart, EndsAgree, WizardTypeOK
    <3> QED BY <3>2, <3>3, <3>4
  <2>3. CASE starting' = "refused" /\ UNCHANGED <<serverVars, job>>
    <3>1. job = NoJob
      BY <1>2, <2>1 DEF ServeStart, KnowsItsJob
    <3>2. WizardTypeOK'
      BY <1>2, <2>3 DEF ServeStart, WizardTypeOK
    <3>3. KnowsItsJob' /\ EndsAgree'
      BY <1>2, <2>1, <2>3, <3>1 DEF ServeStart, KnowsItsJob, EndsAgree
    <3> QED BY <3>2, <3>3
  <2> QED BY <1>2, <2>2, <2>3 DEF ServeStart
<1>3. CASE StartAnswered
  <2>1. step \notin {6, 7}
    BY <1>3 DEF StartAnswered, KnowsItsJob
  <2>2. WizardTypeOK'
    <3>1. [polls EXCEPT ![1] = Asked] \in [Slots -> States \cup {Free, Asked}]
      BY DEF WizardTypeOK
    <3>2. polls' \in [Slots -> States \cup {Free, Asked}]
      BY <1>3, <3>1 DEF StartAnswered, WizardTypeOK
    <3>3. step' \in 1..7 /\ starting' = "no" /\ UNCHANGED <<form, sent, lost, job, shown, quiet>>
      BY <1>3 DEF StartAnswered, WizardTypeOK
    <3>4. {trashBlocked', polling', armed', banner', prompt', deciding'} \subseteq BOOLEAN
      BY <1>3 DEF StartAnswered, WizardTypeOK
    <3> QED BY <3>2, <3>3, <3>4 DEF WizardTypeOK
  <2>3. UNCHANGED vars
    BY <1>3 DEF StartAnswered
  <2>4. CASE starting = "created"
    <3>1. starting' = "no" /\ step' = 6 /\ polls' = [polls EXCEPT ![1] = Asked]
          /\ UNCHANGED <<sent, job, shown>>
      BY <1>3, <2>4 DEF StartAnswered
    <3>2. KnowsItsJob'
      BY <2>3, <2>4, <3>1 DEF KnowsItsJob, vars, rowVars
    <3>3. EndsAgree'
      BY <2>1, <3>1 DEF EndsAgree, WizardTypeOK
    <3> QED BY <2>2, <3>2, <3>3
  <2>5. CASE starting = "refused"
    <3>1. starting' = "no" /\ UNCHANGED <<step, sent, job, pollVars>>
      BY <1>3, <2>5 DEF StartAnswered
    <3>2. KnowsItsJob' /\ EndsAgree'
      BY <2>1, <2>3, <2>5, <3>1 DEF KnowsItsJob, EndsAgree, vars, rowVars
    <3> QED BY <2>2, <3>2
  <2> QED BY <1>3, <2>4, <2>5 DEF StartAnswered
<1>4. CASE StartLost
  <2>1. step \notin {6, 7}
    BY <1>4 DEF StartLost, KnowsItsJob
  <2>2. WizardTypeOK'
    BY <1>4, LostAssumption DEF StartLost, WizardTypeOK
  <2>3. KnowsItsJob' /\ EndsAgree'
    BY <1>4, <2>1 DEF StartLost, KnowsItsJob, EndsAgree
  <2> QED BY <2>2, <2>3
<1> QED BY <1>1, <1>2, <1>3, <1>4

\* The polls of the execute step, its timers, and the button that closes the wizard.
LEMMA PollSteps ==
  ASSUME IInv, WInv,
         \/ Period \/ Close
         \/ \E k \in Slots : ServePoll(k) \/ PollArrives(k) \/ PollFails(k)
  PROVE  WInv'
<1> USE DEF startVars, formVars, pollVars, stallVars, promptVars, serverVars, WInv
<1>1. UNCHANGED <<vars, form, trashBlocked, startVars, deciding>>
  BY DEF Period, Close, ServePoll, PollArrives, PollFails
<1>2. step = 6
  BY DEF Period, Close, ServePoll, PollArrives, PollFails, EndsAgree
<1>3. step' \in {6, 7}
  BY <1>2 DEF Period, Close, ServePoll, PollArrives, PollFails
<1>4. KnowsItsJob'
  BY <1>1, <1>2, <1>3 DEF KnowsItsJob, vars, rowVars
<1>5. job \in Jobs /\ UNCHANGED <<job, status, phase>>
  BY <1>1, <1>2 DEF KnowsItsJob, WizardTypeOK, vars, rowVars
<1>6. [status |-> status[job], phase |-> phase[job]] \in States
  BY <1>5 DEF IInv, TypeOK, States
<1>7. polls' \in [Slots -> States \cup {Free, Asked}] /\ shown' \in States
  BY <1>6 DEF Period, Close, ServePoll, PollArrives, PollFails, WizardTypeOK
<1>8. quiet' \in 0..StallPeriods
  BY PollAssumption DEF Period, Close, ServePoll, PollArrives, PollFails, WizardTypeOK
<1>9. {polling', armed', banner', prompt'} \subseteq BOOLEAN
  BY DEF Period, Close, ServePoll, PollArrives, PollFails, WizardTypeOK
<1>10. WizardTypeOK'
  BY <1>1, <1>3, <1>7, <1>8, <1>9 DEF WizardTypeOK
<1>11. EndsAgree'
  <2>1. CASE Close
    BY <1>5, <2>1 DEF Close, EndsAgree
  <2>2. CASE Period
    <3>1. step' = step /\ shown' = shown
      BY <2>2 DEF Period
    <3>2. \A k \in Slots : polls'[k] \in {polls[k], Asked}
      BY <2>2 DEF Period, WizardTypeOK
    <3> QED BY <1>2, <1>5, <3>1, <3>2 DEF EndsAgree
  <2>3. ASSUME NEW k \in Slots, ServePoll(k) \/ PollArrives(k) \/ PollFails(k)
        PROVE  EndsAgree'
    <3>1. step' = step
      BY <2>3 DEF ServePoll, PollArrives, PollFails
    <3>2. ASSUME NEW i \in Slots
          PROVE  \/ polls'[i] \in {polls[i], Free}
                 \/ polls'[i] = [status |-> status[job], phase |-> phase[job]]
      BY <2>3 DEF ServePoll, PollArrives, PollFails, WizardTypeOK
    <3>3. shown' \in {shown, polls[k]}
      BY <2>3 DEF ServePoll, PollArrives, PollFails
    <3> QED BY <1>2, <1>5, <3>1, <3>2, <3>3 DEF EndsAgree
  <2> QED BY <2>1, <2>2, <2>3
<1> QED BY <1>4, <1>10, <1>11

\* Every step keeps both invariants.
LEMMA WInvStep == IInv /\ WInv /\ [WizardNext]_allVars => IInv' /\ WInv'
<1> SUFFICES ASSUME IInv, WInv, [WizardNext]_allVars PROVE IInv' /\ WInv'
  OBVIOUS
<1>1. IInv'
  BY IInvStep, WizardStepsAreJobSteps DEF WInv
<1>2. WInv'
  BY QuietSteps, StartSteps, PollSteps DEF WizardNext, Operator
<1> QED BY <1>1, <1>2

-----------------------------------------------------------------------------
\* The server's invariant and the wizard's hold together.
LEMMA Both == WizardSpec => [](IInv /\ WInv)
<1>1. WizardInit => IInv /\ WInv
  BY WInvInit, IInvInit DEF WizardInit
<1> QED BY <1>1, WInvStep, PTL DEF WizardSpec

\* Every variable of the wizard stays in its type (RestoreWizard.tsx).
THEOREM WizardTypes == WizardSpec => []WizardTypeOK
<1>1. WInv => WizardTypeOK
  BY DEF WInv
<1> QED BY <1>1, Both, PTL

\* The job the wizard follows is the form as it was when Start was pressed, whatever
\* is clicked while the request is under way and whichever answers are lost.
THEOREM ReviewedProved == WizardSpec => []JobIsWhatWasReviewed
<1>1. WInv => JobIsWhatWasReviewed
  BY DEF WInv, KnowsItsJob, JobIsWhatWasReviewed
<1> QED BY <1>1, Both, PTL

\* An end that the execute step shows is the end the row records, however late and in
\* whatever order the answers to the polls arrive.
THEOREM ShownEndProved == WizardSpec => []ShownEndIsReal
<1>1. WInv => ShownEndIsReal
  BY DEF WInv, KnowsItsJob, EndsAgree, ShownEndIsReal, JobStatus
<1> QED BY <1>1, Both, PTL
=============================================================================
