-------------------------- MODULE RestoreJobProofs --------------------------
(* Proofs about RestoreJob, for any jobs, projects, requests and bounds.    *)
EXTENDS RestoreJob, TLAPS

\* A request names at most MaxProjects projects.
LEMMA RequestTypes ==
  ASSUME NEW r \in Requests \cup {NoRequest}
  PROVE  /\ r.keys \in Seq(Keys) /\ Len(r.keys) \in Nat /\ Len(r.keys) <= MaxProjects
         /\ r.mode \in Modes /\ r.dest \in Destinations
<1>1. CASE r \in Requests
  BY <1>1, RequestsAssumption DEF RequestOK
<1>2. CASE r = NoRequest
  BY <1>2, BoundsAssumption DEF NoRequest, Modes, Destinations
<1> QED BY <1>1, <1>2

USE DEF Phases, ProjectPhase, LastPhase

\* Setting one entry of a table of tables keeps its type.
LEMMA UpdateType ==
  ASSUME NEW A, NEW B, NEW S, NEW f \in [A -> [B -> S]], NEW a \in A, NEW b, NEW v \in S
  PROVE  [f EXCEPT ![a][b] = v] \in [A -> [B -> S]]
<1> DEFINE g == [f[a] EXCEPT ![b] = v]
<1>1. g \in [B -> S]
  OBVIOUS
<1>2. [f EXCEPT ![a] = g] \in [A -> [B -> S]]
  BY <1>1
<1> QED BY <1>2

\* The progress table of a running phase is well typed.
LEMMA ProgressType ==
  ASSUME NEW p \in Phases
  PROVE  ProgressAt(p) \in [Phases -> PhaseStatus]
BY DEF ProgressAt, PhaseStatus

\* The helpers that move a worker keep the variables they touch in their types.
LEMMA EnterPhaseType ==
  ASSUME TypeOK, NEW j \in Jobs, NEW p \in Phases, EnterPhase(j, p)
  PROVE  /\ progress' \in [Jobs -> [Phases -> PhaseStatus]]
         /\ phase' \in [Jobs -> 0..LastPhase]
         /\ pc' \in [Jobs -> PC]
         /\ item' \in [Jobs -> Nat] /\ call' \in [Jobs -> Nat]
         /\ touched' \in [Jobs -> SUBSET Phases]
<1>1. progress' \in [Jobs -> [Phases -> PhaseStatus]]
  BY ProgressType DEF TypeOK, EnterPhase
<1>2. touched' \in [Jobs -> SUBSET Phases]
  BY DEF TypeOK, EnterPhase
<1>3. pc' \in [Jobs -> PC]
  BY DEF TypeOK, EnterPhase, PC
<1>4. phase' \in [Jobs -> 0..LastPhase] /\ item' \in [Jobs -> Nat] /\ call' \in [Jobs -> Nat]
  BY DEF TypeOK, EnterPhase
<1> QED BY <1>1, <1>2, <1>3, <1>4

\* So is what the engine writes when it starts.
LEMMA StartEngineType ==
  ASSUME TypeOK, NEW j \in Jobs, NEW r, StartEngine(j, r)
  PROVE  /\ progress' \in [Jobs -> [Phases -> PhaseStatus]]
         /\ phase' \in [Jobs -> 0..LastPhase]
         /\ pc' \in [Jobs -> PC]
         /\ item' \in [Jobs -> Nat] /\ call' \in [Jobs -> Nat]
         /\ touched' \in [Jobs -> SUBSET Phases]
<1> DEFINE p == IF r.keys = <<>> THEN ProjectPhase + 1 ELSE ProjectPhase
<1>1. p \in Phases
  OBVIOUS
<1>2. EnterPhase(j, p)
  BY DEF StartEngine
<1> HIDE DEF p
<1> QED BY <1>1, <1>2, EnterPhaseType

\* And what the loop over the projects writes when it goes on.
LEMMA NextProjectType ==
  ASSUME TypeOK, NEW j \in Jobs, NextProject(j)
  PROVE  /\ progress' \in [Jobs -> [Phases -> PhaseStatus]]
         /\ phase' \in [Jobs -> 0..LastPhase]
         /\ pc' \in [Jobs -> PC]
         /\ item' \in [Jobs -> Nat] /\ call' \in [Jobs -> Nat]
         /\ touched' \in [Jobs -> SUBSET Phases]
<1>1. CASE item[j] < Len(request[j].keys)
  <2>1. /\ item' = [item EXCEPT ![j] = @ + 1]
        /\ pc' = [pc EXCEPT ![j] = "probe"]
        /\ UNCHANGED <<progress, phase, call, touched>>
    BY <1>1 DEF NextProject
  <2>2. item' \in [Jobs -> Nat] /\ pc' \in [Jobs -> PC]
    BY <2>1 DEF TypeOK, PC
  <2> QED BY <2>1, <2>2 DEF TypeOK
<1>2. CASE ~(item[j] < Len(request[j].keys))
  <2>1. EnterPhase(j, ProjectPhase + 1)
    BY <1>2 DEF NextProject
  <2> QED BY <2>1, EnterPhaseType
<1> QED BY <1>1, <1>2


\* What the helpers that end or start a worker write is well typed.
LEMMA HelperTypes ==
  ASSUME TypeOK, NEW j \in Jobs
  PROVE  /\ StartTimers(j) => timers' \in [Jobs -> BOOLEAN]
         /\ StopWorker(j) => pc' \in [Jobs -> PC] /\ timers' \in [Jobs -> BOOLEAN]
         /\ PublishComplete(j) => stream' \in [Jobs -> {"closed", "open", "ended"}]
         /\ SetCompleted(j) => status' \in [Jobs -> Status] /\ stalled' \in [Jobs -> BOOLEAN]
         /\ Recover(j) => stalled' \in [Jobs -> BOOLEAN] /\ sawStall' \in [Jobs -> BOOLEAN]
         /\ FailPhase(j) => /\ progress' \in [Jobs -> [Phases -> PhaseStatus]]
                            /\ phase' \in [Jobs -> 0..LastPhase]
         /\ Probed(j) => probe' \in [Jobs -> [Pos -> {"none", "absent", "exists"}]]
         /\ \A d \in Diagnostic : SetFailed(j, d) => /\ status' \in [Jobs -> Status]
                                                     /\ diagnostic' \in [Jobs -> Diagnostic]
                                                     /\ stalled' \in [Jobs -> BOOLEAN]
<1>1. StartTimers(j) => timers' \in [Jobs -> BOOLEAN]
  BY DEF TypeOK, StartTimers
<1>2. StopWorker(j) => pc' \in [Jobs -> PC] /\ timers' \in [Jobs -> BOOLEAN]
  BY DEF TypeOK, StopWorker, PC
<1>3. PublishComplete(j) => stream' \in [Jobs -> {"closed", "open", "ended"}]
  BY DEF TypeOK, PublishComplete
<1>4. SetCompleted(j) => status' \in [Jobs -> Status] /\ stalled' \in [Jobs -> BOOLEAN]
  BY DEF TypeOK, SetCompleted, Status
<1>5. Recover(j) => stalled' \in [Jobs -> BOOLEAN] /\ sawStall' \in [Jobs -> BOOLEAN]
  BY DEF TypeOK, Recover
<1>6. FailPhase(j) => /\ progress' \in [Jobs -> [Phases -> PhaseStatus]]
                      /\ phase' \in [Jobs -> 0..LastPhase]
  <2>1. progress \in [Jobs -> [Phases -> PhaseStatus]] /\ "failed" \in PhaseStatus
    BY DEF TypeOK, PhaseStatus
  <2>2. [progress EXCEPT ![j][phase[j]] = "failed"] \in [Jobs -> [Phases -> PhaseStatus]]
    BY <2>1, UpdateType
  <2> QED BY <2>2 DEF TypeOK, FailPhase
<1>7. Probed(j) => probe' \in [Jobs -> [Pos -> {"none", "absent", "exists"}]]
  <2> DEFINE v == IF Exists(j) THEN "exists" ELSE "absent"
  <2>1. probe \in [Jobs -> [Pos -> {"none", "absent", "exists"}]] /\ v \in {"none", "absent", "exists"}
    BY DEF TypeOK
  <2> HIDE DEF v
  <2>2. [probe EXCEPT ![j][item[j]] = v] \in [Jobs -> [Pos -> {"none", "absent", "exists"}]]
    BY <2>1, UpdateType
  <2> QED BY <2>2 DEF Probed, v
<1>8. \A d \in Diagnostic : SetFailed(j, d) => /\ status' \in [Jobs -> Status]
                                               /\ diagnostic' \in [Jobs -> Diagnostic]
                                               /\ stalled' \in [Jobs -> BOOLEAN]
  BY DEF TypeOK, SetFailed, Status
<1> QED BY <1>1, <1>2, <1>3, <1>4, <1>5, <1>6, <1>7, <1>8

\* A worker in the project phase has a project of its request in hand.
LEMMA PositionInHand ==
  ASSUME TypeOK, NEW j \in Jobs, WorkerAt(j), pc[j] \in {"probe", "decide", "write"}
  PROVE  item[j] \in Pos /\ item[j] \in Positions(j)
<1>1. request[j] \in Requests \cup {NoRequest}
  BY DEF TypeOK
<1>2. Len(request[j].keys) \in Nat /\ Len(request[j].keys) <= MaxProjects
  BY <1>1, RequestTypes
<1>3. item[j] \in Positions(j)
  BY DEF WorkerAt, InProject
<1> QED BY <1>2, <1>3, BoundsAssumption DEF Positions, Pos

\* Every step keeps the types. Only the conflict id a client learns needs to know
\* where the worker is.
LEMMA TypeOKStep == ASSUME TypeOK, WorkersAt, [Next]_vars PROVE TypeOK'
<1> USE DEF rowVars, processVars, workerVars, clientVars, jiraVars, historyVars
<1>1. ASSUME NEW j \in Jobs, Work(j) PROVE TypeOK'
  <2>1. CASE TrashBlocks(j)
    BY <2>1, HelperTypes DEF TypeOK, TrashBlocks, Status, Diagnostic
  <2>2. CASE TrashPasses(j)
    BY <2>2, StartEngineType DEF TypeOK, TrashPasses
  <2>3. CASE TrashCheckFails(j)
    BY <2>3, HelperTypes DEF TypeOK, TrashCheckFails, Diagnostic
  <2>4. CASE ArchiveReady(j)
    BY <2>4, HelperTypes DEF TypeOK, ArchiveReady
  <2>5. CASE ArchiveFails(j)
    BY <2>5, HelperTypes DEF TypeOK, ArchiveFails, Diagnostic
  <2>6. CASE ProbeThenWrite(j)
    BY <2>6, HelperTypes DEF TypeOK, ProbeThenWrite, IssueProjectWrite, PC
  <2>7. CASE ProbeThenSkip(j)
    BY <2>7, HelperTypes, NextProjectType DEF TypeOK, ProbeThenSkip, LeaveProject
  <2>8. CASE ProbeThenAsk(j)
    <3>1. /\ conflict \in [Jobs -> [Pos -> {"none", "pending"} \cup Decisions]]
          /\ "pending" \in {"none", "pending"} \cup Decisions
      BY DEF TypeOK
    <3>2. conflict' \in [Jobs -> [Pos -> {"none", "pending"} \cup Decisions]]
      <4>1. [conflict EXCEPT ![j][item[j]] = "pending"]
              \in [Jobs -> [Pos -> {"none", "pending"} \cup Decisions]]
        BY <3>1, UpdateType
      <4> QED BY <2>8, <4>1 DEF ProbeThenAsk
    <3>3. known' \in [Jobs -> SUBSET Pos]
      <4>1. item[j] \in Pos
        BY <2>8, PositionInHand DEF WorkersAt, ProbeThenAsk
      <4>2. known \in [Jobs -> SUBSET Pos]
        BY DEF TypeOK
      <4>3. known' = known \/ known' = [known EXCEPT ![j] = @ \cup {item[j]}]
        BY <2>8 DEF ProbeThenAsk
      <4>4. known[j] \cup {item[j]} \in SUBSET Pos
        BY <4>1, <4>2
      <4> QED BY <4>2, <4>3, <4>4
    <3> QED BY <2>8, <3>2, <3>3, HelperTypes DEF TypeOK, ProbeThenAsk, AwaitDecision, PC, Status
  <2>9. CASE PollOverride(j)
    BY <2>9 DEF TypeOK, PollOverride, IssueProjectWrite, PC, Status
  <2>10. CASE PollSkip(j)
    BY <2>10, NextProjectType DEF TypeOK, PollSkip, LeaveProject, Status
  <2>11. CASE ProjectLands(j)
    BY <2>11 DEF TypeOK, ProjectLands
  <2>12. CASE ProjectWritten(j)
    BY <2>12, NextProjectType DEF TypeOK, ProjectWritten
  <2>13. CASE StubNextCall(j)
    BY <2>13 DEF TypeOK, StubNextCall
  <2>14. CASE StubNextPhase(j)
    <3>1. phase[j] + 1 \in Phases
      <4>1. phase[j] \in 0..LastPhase
        BY DEF TypeOK
      <4> QED BY <2>14, <4>1 DEF StubNextPhase, MorePhases
    <3>2. EnterPhase(j, phase[j] + 1)
      BY <2>14 DEF StubNextPhase
    <3> QED BY <2>14, <3>1, <3>2, EnterPhaseType DEF TypeOK, StubNextPhase
  <2>15. CASE Complete(j)
    <3>1. progress \in [Jobs -> [Phases -> PhaseStatus]] /\ "completed" \in PhaseStatus
      BY DEF TypeOK, PhaseStatus
    <3>2. [progress EXCEPT ![j][phase[j]] = "completed"] \in [Jobs -> [Phases -> PhaseStatus]]
      BY <3>1, UpdateType
    <3>3. progress' \in [Jobs -> [Phases -> PhaseStatus]]
      BY <2>15, <3>2 DEF Complete
    <3> QED BY <2>15, <3>3, HelperTypes DEF TypeOK, Complete
  <2>16. CASE CallFails(j)
    BY <2>16, HelperTypes DEF TypeOK, CallFails, Diagnostic
  <2> QED BY <1>1, <2>1, <2>2, <2>3, <2>4, <2>5, <2>6, <2>7, <2>8,
             <2>9, <2>10, <2>11, <2>12, <2>13, <2>14, <2>15, <2>16 DEF Work
<1>2. ASSUME NEW j \in Jobs, NEW r \in Requests, PostJob(j, r) PROVE TypeOK'
  <2>1. request' \in [Jobs -> Requests \cup {NoRequest}] /\ status' \in [Jobs -> Status]
        /\ age' \in [Jobs -> 0..(StaleThreshold + 1)] /\ timers' \in [Jobs -> BOOLEAN]
    BY <1>2, HelperTypes, ThresholdAssumption DEF TypeOK, PostJob, Status
  <2>2. /\ progress' \in [Jobs -> [Phases -> PhaseStatus]]
        /\ phase' \in [Jobs -> 0..LastPhase]
        /\ pc' \in [Jobs -> PC]
        /\ item' \in [Jobs -> Nat] /\ call' \in [Jobs -> Nat]
        /\ touched' \in [Jobs -> SUBSET Phases]
    <3>1. CASE StartEngine(j, r)
      BY <3>1, StartEngineType
    <3>2. CASE /\ pc' = [pc EXCEPT ![j] = "trash"] \/ pc' = [pc EXCEPT ![j] = "zip"]
               /\ UNCHANGED <<progress, phase, item, call, touched>>
      BY <3>2 DEF TypeOK, PC
    <3> QED BY <1>2, <3>1, <3>2 DEF PostJob
  <2> QED BY <1>2, <2>1, <2>2 DEF TypeOK, PostJob
<1>3. ASSUME NEW j \in Jobs, NEW i \in Pos, NEW d \in Decisions, PostDecision(j, i, d)
      PROVE  TypeOK'
  BY <1>3 DEF TypeOK, PostDecision, Status
<1>4. ASSUME NEW j \in Jobs, Subscribe(j) \/ Disconnect(j) PROVE TypeOK'
  BY <1>4 DEF TypeOK, Subscribe, Disconnect
<1>5. ASSUME NEW j \in Jobs, Heartbeat(j) PROVE TypeOK'
  BY <1>5, HelperTypes, ThresholdAssumption DEF TypeOK, Heartbeat
<1>6. ASSUME NEW j \in Jobs, CheckStall(j) PROVE TypeOK'
  BY <1>6 DEF TypeOK, CheckStall
<1>7. CASE Tick
  BY <1>7, ThresholdAssumption DEF TypeOK, Tick
<1>8. ASSUME NEW k \in Keys, TrashProject(k) PROVE TypeOK'
  BY <1>8 DEF TypeOK, TrashProject
<1>9. CASE Crash
  <2>1. crashes' \in 0..MaxCrashes
    BY <1>9, BoundsAssumption DEF TypeOK, Crash
  <2>2. stream' \in [Jobs -> {"closed", "open", "ended"}]
    BY <1>9 DEF TypeOK, Crash
  <2> QED BY <1>9, <2>1, <2>2 DEF TypeOK, Crash, PC
<1>10. CASE Restart
  BY <1>10 DEF TypeOK, Restart
<1>11. CASE UNCHANGED vars
  BY <1>11 DEF TypeOK, vars
<1> QED
  BY <1>1, <1>2, <1>3, <1>4, <1>5, <1>6, <1>7, <1>8, <1>9, <1>10, <1>11 DEF Next

\* A fresh database and process are well typed.
LEMMA TypeOKInit == Init => TypeOK
BY ThresholdAssumption, BoundsAssumption
   DEF Init, TypeOK, Status, PhaseStatus, Diagnostic, PC, ProgressAt

-----------------------------------------------------------------------------
(* The inductive invariant, job by job.                                    *)

JobInv(j) ==
  /\ WorkerAt(j)
  /\ OneConflict(j)
  /\ ModeHonoured(j)
  /\ WritesInOrder(j)
  /\ HaltedAtFailure(j)
  /\ Restored(j)
  /\ WroteNothing(j)
  /\ StallKnown(j)
  /\ ~TrashGuard => Quiet(j)

IInv == TypeOK /\ \A j \in Jobs : JobInv(j)

\* The rows and the worker of job k are left alone but for its heartbeat age.
SameWork(k) ==
  /\ request'[k] = request[k] /\ status'[k] = status[k] /\ phase'[k] = phase[k]
  /\ progress'[k] = progress[k] /\ diagnostic'[k] = diagnostic[k]
  /\ blocked'[k] = blocked[k] /\ adfWarned'[k] = adfWarned[k] /\ conflict'[k] = conflict[k]
  /\ pc'[k] = pc[k] /\ item'[k] = item[k] /\ call'[k] = call[k] /\ timers'[k] = timers[k]
  /\ probe'[k] = probe[k] /\ outcome'[k] = outcome[k] /\ touched'[k] = touched[k]

SameJob(k) ==
  /\ SameWork(k)
  /\ stalled'[k] = stalled[k] /\ sawStall'[k] = sawStall[k] /\ age'[k] = age[k]

USE DEF Positions, KeyAt, Working, Terminal

\* Where a worker is depends on the work of its own job only.
LEMMA PointFrame ==
  ASSUME NEW k \in Jobs, SameWork(k)
  PROVE  /\ NotStarted(k)' = NotStarted(k)
         /\ InProject(k)' = InProject(k)
         /\ InStub(k)' = InStub(k)
<1>1. NotStarted(k)' = NotStarted(k)
  BY DEF SameWork, NotStarted, UntouchedAfter
<1>2. InProject(k)' = InProject(k)
  BY DEF SameWork, InProject, SettledBefore, UntouchedAfter
<1>3. InStub(k)' = InStub(k)
  BY DEF SameWork, InStub, SettledBefore, UntouchedAfter
<1> QED BY <1>1, <1>2, <1>3

\* So does what is promised about the row and the projects.
LEMMA WorkFrame ==
  ASSUME NEW k \in Jobs, SameWork(k), JobInv(k)
  PROVE  /\ OneConflict(k)' /\ ModeHonoured(k)' /\ WritesInOrder(k)' /\ HaltedAtFailure(k)'
         /\ Restored(k)' /\ WroteNothing(k)'
<1>1. OneConflict(k)'
  BY DEF JobInv, SameWork, OneConflict
<1>2. ModeHonoured(k)'
  BY DEF JobInv, SameWork, ModeHonoured
<1>3. WritesInOrder(k)'
  BY DEF JobInv, SameWork, WritesInOrder
<1>4. HaltedAtFailure(k)'
  BY DEF JobInv, SameWork, HaltedAtFailure
<1>5. Restored(k)'
  BY DEF JobInv, SameWork, Restored
<1>6. WroteNothing(k)'
  BY DEF JobInv, SameWork, WroteNothing
<1> QED BY <1>1, <1>2, <1>3, <1>4, <1>5, <1>6

\* A step that leaves a job alone keeps its invariant.
LEMMA JobFrame ==
  ASSUME NEW k \in Jobs, SameJob(k), JobInv(k)
  PROVE  JobInv(k)'
<1>1. SameWork(k)
  BY DEF SameJob
<1>2. WorkerAt(k)'
  BY <1>1, PointFrame DEF JobInv, SameJob, SameWork, WorkerAt
<1>3. StallKnown(k)' /\ (~TrashGuard => Quiet(k))'
  BY DEF JobInv, SameJob, SameWork, StallKnown, Quiet
<1> QED BY <1>1, <1>2, <1>3, WorkFrame DEF JobInv

\* A worker's turn touches the row, the timers and the memory of its own job only.
LEMMA WorkFramesOthers ==
  ASSUME TypeOK, NEW j \in Jobs, NEW k \in Jobs, k # j, Work(j)
  PROVE  SameJob(k)
<1> USE DEF rowVars, processVars, workerVars, clientVars, jiraVars,
            historyVars, SameJob, SameWork, TypeOK
<1>1. CASE TrashBlocks(j)
  BY <1>1 DEF TrashBlocks, StopWorker, PublishComplete
<1>2. CASE TrashPasses(j)
  BY <1>2 DEF TrashPasses, StartEngine, EnterPhase
<1>3. CASE TrashCheckFails(j)
  BY <1>3 DEF TrashCheckFails, StopWorker, SetFailed
<1>4. CASE ArchiveReady(j)
  BY <1>4 DEF ArchiveReady, StopWorker, SetCompleted, PublishComplete
<1>5. CASE ArchiveFails(j)
  BY <1>5 DEF ArchiveFails, StopWorker, SetFailed, PublishComplete
<1>6. CASE ProbeThenWrite(j)
  BY <1>6 DEF ProbeThenWrite, Probed, IssueProjectWrite
<1>7. CASE ProbeThenSkip(j)
  BY <1>7 DEF ProbeThenSkip, Probed, LeaveProject, NextProject, EnterPhase
<1>8. CASE ProbeThenAsk(j)
  BY <1>8 DEF ProbeThenAsk, Probed, AwaitDecision
<1>9. CASE PollOverride(j)
  BY <1>9 DEF PollOverride, IssueProjectWrite
<1>10. CASE PollSkip(j)
  BY <1>10 DEF PollSkip, LeaveProject, NextProject, EnterPhase
<1>11. CASE ProjectLands(j)
  BY <1>11 DEF ProjectLands
<1>12. CASE ProjectWritten(j)
  BY <1>12 DEF ProjectWritten, NextProject, EnterPhase
<1>13. CASE StubNextCall(j)
  BY <1>13 DEF StubNextCall
<1>14. CASE StubNextPhase(j)
  BY <1>14 DEF StubNextPhase, EnterPhase
<1>15. CASE Complete(j)
  BY <1>15 DEF Complete, StopWorker, SetCompleted, PublishComplete
<1>16. CASE CallFails(j)
  BY <1>16 DEF CallFails, FailPhase, SetFailed, StopWorker, PublishComplete
<1> QED BY <1>1, <1>2, <1>3, <1>4, <1>5, <1>6, <1>7, <1>8,
           <1>9, <1>10, <1>11, <1>12, <1>13, <1>14, <1>15, <1>16 DEF Work

\* The request of a job, and where its first and last project are.
LEMMA KeysOf ==
  ASSUME TypeOK, NEW j \in Jobs
  PROVE  /\ Len(request[j].keys) \in Nat /\ Len(request[j].keys) <= MaxProjects
         /\ request[j].keys = <<>> <=> Len(request[j].keys) = 0
<1>1. request[j] \in Requests \cup {NoRequest}
  BY DEF TypeOK
<1>2. request[j].keys \in Seq(Keys) /\ Len(request[j].keys) \in Nat
      /\ Len(request[j].keys) <= MaxProjects
  BY <1>1, RequestTypes
<1> QED BY <1>2

\* Going on from a settled project leads to the next one or to phase 2.
LEMMA NextProjectAt ==
  ASSUME TypeOK, NEW j \in Jobs, WorkerAt(j), InProject(j), NextProject(j),
         request' = request, status'[j] = "running", ~blocked[j]', timers'[j],
         outcome'[j][item[j]] # "open", conflict'[j][item[j]] # "pending",
         \A i \in Pos : i # item[j] => /\ outcome'[j][i] = outcome[j][i]
                                       /\ conflict'[j][i] = conflict[j][i]
                                       /\ probe'[j][i] = probe[j][i]
  PROVE  WorkerAt(j)' /\ WritesInOrder(j)'
<1>1. PICK n \in Nat, m \in Nat : /\ n = Len(request[j].keys) /\ m = item[j]
                                  /\ m \in 1..n /\ n <= MaxProjects
  BY KeysOf DEF InProject
<1>2. \A i \in Pos : i < m + 1 => outcome'[j][i] # "open" /\ conflict'[j][i] # "pending"
  <2>1. \A i \in Pos : i < m => outcome[j][i] # "open" /\ conflict[j][i] # "pending"
    BY <1>1 DEF InProject, SettledBefore
  <2>2. \A i \in Pos : (i < m + 1 => i < m \/ i = m) /\ (i < m => i # m)
    BY <1>1 DEF Pos
  <2> QED BY <1>1, <2>1, <2>2
<1>3. \A i \in Pos : i > m => /\ conflict'[j][i] = "none" /\ probe'[j][i] = "none"
                              /\ outcome'[j][i] = "open"
  <2>1. \A i \in Pos : i > m => i # m
    BY <1>1 DEF Pos
  <2> QED BY <1>1, <2>1 DEF InProject, UntouchedAfter
<1>4. request'[j].dest # "export" /\ Len(request'[j].keys) = n
  BY <1>1 DEF InProject
<1>5. CASE m < n
  <2>1. /\ item'[j] = m + 1 /\ pc'[j] = "probe"
        /\ phase'[j] = ProjectPhase /\ progress'[j] = ProgressAt(ProjectPhase)
        /\ touched'[j] \subseteq {ProjectPhase}
    BY <1>1, <1>5 DEF NextProject, InProject, TypeOK
  <2>2. m + 1 \in 1..n /\ m + 1 \in Pos /\ m + 1 > m
    BY <1>1, <1>5, BoundsAssumption DEF Pos
  <2>3. \A i \in Pos : i > m + 1 => i > m
    BY <1>1 DEF Pos
  <2>4. InProject(j)'
    BY <1>2, <1>3, <1>4, <2>1, <2>2, <2>3 DEF InProject, SettledBefore, UntouchedAfter
  <2>5. conflict'[j][item'[j]] = "none" /\ outcome'[j][item'[j]] = "open"
    BY <1>3, <2>1, <2>2
  <2>6. WorkerAt(j)'
    BY <2>1, <2>4, <2>5 DEF WorkerAt
  <2> QED BY <2>1, <2>6 DEF WritesInOrder
<1>6. CASE m = n
  <2>1. EnterPhase(j, ProjectPhase + 1)
    BY <1>1, <1>6 DEF NextProject
  <2>2. /\ pc'[j] = "stub" /\ phase'[j] = 2 /\ progress'[j] = ProgressAt(2)
        /\ touched'[j] \subseteq 1..2
    BY <2>1 DEF EnterPhase, InProject, TypeOK
  <2>3. InStub(j)'
    BY <1>2, <1>3, <1>4, <1>6, <2>2 DEF InStub, SettledBefore, UntouchedAfter
  <2>4. WorkerAt(j)'
    BY <2>2, <2>3 DEF WorkerAt
  <2>5. \A i \in 1..n : i \in Pos /\ i < n + 1
    BY <1>1, BoundsAssumption DEF Pos
  <2>6. \A i \in Positions(j)' : outcome'[j][i] # "open"
    BY <1>2, <1>4, <1>6, <2>5
  <2>7. WritesInOrder(j)'
    BY <2>2, <2>6 DEF WritesInOrder, ProgressAt
  <2> QED BY <2>4, <2>7
<1> QED BY <1>1, <1>5, <1>6

\* The engine starts in phase 1 with the first project, or in phase 2.
LEMMA EngineStartsAt ==
  ASSUME TypeOK, NEW j \in Jobs, NEW r \in Requests \cup {NoRequest},
         NotStarted(j), StartEngine(j, r),
         request'[j] = r, r.dest # "export", status'[j] = "running", ~blocked[j]', timers'[j],
         UNCHANGED <<outcome, conflict, probe>>
  PROVE  WorkerAt(j)' /\ WritesInOrder(j)'
<1>1. r.keys \in Seq(Keys) /\ Len(r.keys) \in Nat
  BY RequestTypes
<1>2. \A i \in Pos : i > 0 /\ conflict'[j][i] = "none" /\ probe'[j][i] = "none"
                           /\ outcome'[j][i] = "open"
  BY DEF NotStarted, UntouchedAfter, Pos
<1>3. CASE r.keys # <<>>
  <2>1. /\ phase'[j] = ProjectPhase /\ progress'[j] = ProgressAt(ProjectPhase)
        /\ pc'[j] = "probe" /\ item'[j] = 1 /\ touched'[j] = {}
    BY <1>3 DEF TypeOK, NotStarted, StartEngine, EnterPhase
  <2>2. 1 \in Positions(j)'
    BY <1>1, <1>3
  <2>3. InProject(j)'
    BY <1>2, <2>1, <2>2 DEF InProject, SettledBefore, UntouchedAfter, Pos
  <2>4. 1 \in Pos
    BY <1>1, <1>3, RequestTypes, BoundsAssumption DEF Pos
  <2>5. conflict'[j][item'[j]] = "none" /\ outcome'[j][item'[j]] = "open"
    BY <1>2, <2>1, <2>4
  <2> QED BY <2>1, <2>3, <2>5 DEF WorkerAt, WritesInOrder
<1>4. CASE r.keys = <<>>
  <2>1. /\ phase'[j] = 2 /\ progress'[j] = ProgressAt(2)
        /\ pc'[j] = "stub" /\ touched'[j] = {2}
    BY <1>4 DEF TypeOK, NotStarted, StartEngine, EnterPhase
  <2>2. Len(request'[j].keys) = 0
    BY <1>4
  <2>3. InStub(j)'
    BY <1>2, <2>1, <2>2 DEF InStub, SettledBefore, UntouchedAfter, Pos
  <2>4. WorkerAt(j)'
    BY <2>1, <2>3 DEF WorkerAt
  <2>5. WritesInOrder(j)'
    BY <2>1, <2>2 DEF WritesInOrder, ProgressAt
  <2> QED BY <2>4, <2>5
<1> QED BY <1>3, <1>4

\* A worker's turn keeps the invariant of its job.
LEMMA WorkSelf ==
  ASSUME TypeOK, NEW j \in Jobs, JobInv(j), Work(j)
  PROVE  JobInv(j)'
<1> USE DEF rowVars, processVars, workerVars, clientVars, jiraVars, historyVars, JobInv,
            WorkerAt, NotStarted, InProject, InStub, UntouchedAfter, SettledBefore
<1>1. CASE TrashBlocks(j)
  <2>1. /\ WorkerAt(j)' /\ OneConflict(j)'
    BY <1>1 DEF TypeOK, Pos, WorkerAt, OneConflict,
                TrashBlocks, StopWorker
  <2>2. /\ ModeHonoured(j)' /\ WritesInOrder(j)' /\ HaltedAtFailure(j)'
    BY <1>1 DEF TypeOK, Pos, ModeHonoured, WritesInOrder, HaltedAtFailure,
                TrashBlocks, StopWorker
  <2>3. /\ Restored(j)' /\ WroteNothing(j)' /\ StallKnown(j)' /\ (~TrashGuard => Quiet(j))'
    BY <1>1 DEF TypeOK, Pos, Restored, WroteNothing, StallKnown, Quiet,
                TrashBlocks, StopWorker
  <2> QED BY <2>1, <2>2, <2>3 DEF JobInv
<1>2. CASE TrashPasses(j)
  <2>1. WorkerAt(j)'
    <3> HIDE DEF WorkerAt, NotStarted, InProject, InStub
    <3>1. PICK r \in Requests \cup {NoRequest} : r = request[j]
      BY DEF TypeOK
    <3>2. /\ NotStarted(j) /\ StartEngine(j, r)
          /\ request'[j] = r /\ r.dest # "export" /\ status'[j] = "running"
          /\ ~blocked[j]' /\ timers'[j] /\ UNCHANGED <<outcome, conflict, probe>>
      BY <1>2, <3>1 DEF TrashPasses, WorkerAt
    <3> QED BY <3>1, <3>2, EngineStartsAt
  <2>2. /\ OneConflict(j)' /\ ModeHonoured(j)' /\ WritesInOrder(j)' /\ HaltedAtFailure(j)'
        /\ Restored(j)' /\ WroteNothing(j)' /\ StallKnown(j)' /\ (~TrashGuard => Quiet(j))'
    BY <1>2 DEF TypeOK, OneConflict, ModeHonoured, WritesInOrder, HaltedAtFailure,
                Restored, WroteNothing, StallKnown, Quiet,
                TrashPasses, StartEngine, EnterPhase, ProgressAt
  <2> QED BY <2>1, <2>2 DEF JobInv
<1>3. CASE TrashCheckFails(j)
  <2>1. /\ WorkerAt(j)' /\ OneConflict(j)'
    BY <1>3, ZenonT(30) DEF TypeOK, WorkerAt, OneConflict,
                TrashCheckFails, StopWorker, SetFailed
  <2>2. /\ ModeHonoured(j)' /\ WritesInOrder(j)' /\ HaltedAtFailure(j)'
    BY <1>3 DEF TypeOK, ModeHonoured, WritesInOrder, HaltedAtFailure,
                TrashCheckFails, StopWorker, SetFailed
  <2>3. /\ Restored(j)' /\ WroteNothing(j)' /\ StallKnown(j)' /\ (~TrashGuard => Quiet(j))'
    BY <1>3 DEF TypeOK, Restored, WroteNothing, StallKnown, Quiet,
                TrashCheckFails, StopWorker, SetFailed
  <2> QED BY <2>1, <2>2, <2>3 DEF JobInv
<1>4. CASE ArchiveReady(j)
  <2>1. /\ WorkerAt(j)' /\ OneConflict(j)'
    BY <1>4 DEF TypeOK, WorkerAt, OneConflict,
                ArchiveReady, StopWorker, SetCompleted
  <2>2. /\ ModeHonoured(j)' /\ WritesInOrder(j)' /\ HaltedAtFailure(j)'
    BY <1>4 DEF TypeOK, ModeHonoured, WritesInOrder, HaltedAtFailure,
                ArchiveReady, StopWorker, SetCompleted
  <2>3. /\ Restored(j)' /\ WroteNothing(j)' /\ StallKnown(j)' /\ (~TrashGuard => Quiet(j))'
    BY <1>4 DEF TypeOK, Restored, WroteNothing, StallKnown, Quiet,
                ArchiveReady, StopWorker, SetCompleted
  <2> QED BY <2>1, <2>2, <2>3 DEF JobInv
<1>5. CASE ArchiveFails(j)
  <2>1. /\ WorkerAt(j)' /\ OneConflict(j)'
    BY <1>5 DEF TypeOK, WorkerAt, OneConflict,
                ArchiveFails, StopWorker, SetFailed
  <2>2. /\ ModeHonoured(j)' /\ WritesInOrder(j)' /\ HaltedAtFailure(j)'
    BY <1>5 DEF TypeOK, ModeHonoured, WritesInOrder, HaltedAtFailure,
                ArchiveFails, StopWorker, SetFailed
  <2>3. /\ Restored(j)' /\ WroteNothing(j)' /\ StallKnown(j)' /\ (~TrashGuard => Quiet(j))'
    BY <1>5 DEF TypeOK, Restored, WroteNothing, StallKnown, Quiet,
                ArchiveFails, StopWorker, SetFailed
  <2> QED BY <2>1, <2>2, <2>3 DEF JobInv
<1>6. CASE ProbeThenWrite(j)
  <2>1. WorkerAt(j)'
    <3>1. item[j] \in Pos
      BY <1>6, PositionInHand DEF ProbeThenWrite
    <3>2. InProject(j)'
      BY <1>6, <3>1 DEF TypeOK, ProbeThenWrite, Probed, IssueProjectWrite
    <3>3. \/ probe'[j][item[j]] = "absent"
          \/ request[j].mode = "override"
      BY <1>6, <3>1 DEF TypeOK, ProbeThenWrite, Probed, MayWrite
    <3> QED BY <1>6, <3>1, <3>2, <3>3 DEF TypeOK, ProbeThenWrite, IssueProjectWrite
  <2>2. OneConflict(j)'
    BY <1>6 DEF TypeOK, OneConflict, ProbeThenWrite, Probed, IssueProjectWrite
  <2>3. ModeHonoured(j)'
    BY <1>6 DEF TypeOK, ModeHonoured,
                ProbeThenWrite, Probed, IssueProjectWrite, Exists, MayWrite
  <2>4. WritesInOrder(j)'
    BY <1>6 DEF TypeOK, WritesInOrder, ProbeThenWrite, Probed, IssueProjectWrite
  <2>5. HaltedAtFailure(j)'
    BY <1>6 DEF TypeOK, HaltedAtFailure, ProbeThenWrite, Probed, IssueProjectWrite
  <2>6. /\ Restored(j)' /\ WroteNothing(j)' /\ StallKnown(j)' /\ (~TrashGuard => Quiet(j))'
    BY <1>6 DEF TypeOK, Restored, WroteNothing, StallKnown, Quiet,
                ProbeThenWrite, Probed, IssueProjectWrite
  <2> QED BY <2>1, <2>2, <2>3, <2>4, <2>5, <2>6 DEF JobInv
<1>7. CASE ProbeThenSkip(j)
  <2>1. WorkerAt(j)'
    <3>1. item[j] \in Pos /\ InProject(j) /\ NextProject(j) /\ request' = request
          /\ status'[j] = "running" /\ ~blocked[j]' /\ timers'[j]
      BY <1>7, PositionInHand DEF TypeOK, ProbeThenSkip, LeaveProject, Probed
    <3>2. outcome'[j][item[j]] # "open" /\ conflict'[j][item[j]] # "pending"
      BY <1>7, <3>1 DEF TypeOK, ProbeThenSkip, LeaveProject, Probed
    <3>3. \A i \in Pos : i # item[j] => /\ outcome'[j][i] = outcome[j][i]
                                        /\ conflict'[j][i] = conflict[j][i]
                                        /\ probe'[j][i] = probe[j][i]
      BY <1>7 DEF TypeOK, ProbeThenSkip, LeaveProject, Probed
    <3> QED BY <3>1, <3>2, <3>3, NextProjectAt, ZenonT(30)
  <2>2. WritesInOrder(j)'
    <3>1. item[j] \in Pos /\ InProject(j) /\ NextProject(j) /\ request' = request
          /\ status'[j] = "running" /\ ~blocked[j]' /\ timers'[j]
      BY <1>7, PositionInHand DEF TypeOK, ProbeThenSkip, LeaveProject, Probed
    <3>2. outcome'[j][item[j]] # "open" /\ conflict'[j][item[j]] # "pending"
      BY <1>7, <3>1 DEF TypeOK, ProbeThenSkip, LeaveProject, Probed
    <3>3. \A i \in Pos : i # item[j] => /\ outcome'[j][i] = outcome[j][i]
                                        /\ conflict'[j][i] = conflict[j][i]
                                        /\ probe'[j][i] = probe[j][i]
      BY <1>7 DEF TypeOK, ProbeThenSkip, LeaveProject, Probed
    <3> QED BY <3>1, <3>2, <3>3, NextProjectAt
  <2>3. /\ OneConflict(j)' /\ ModeHonoured(j)' /\ HaltedAtFailure(j)' /\ Restored(j)'
        /\ WroteNothing(j)' /\ StallKnown(j)' /\ (~TrashGuard => Quiet(j))'
    BY <1>7, SMTT(30) DEF TypeOK, OneConflict, ModeHonoured, HaltedAtFailure, Restored,
                WroteNothing, StallKnown, Quiet,
                ProbeThenSkip, Probed, LeaveProject, NextProject, EnterPhase, ProgressAt, Exists
  <2> QED BY <2>1, <2>2, <2>3 DEF JobInv
<1>8. CASE ProbeThenAsk(j)
  <2>1. WorkerAt(j)'
    <3>1. item[j] \in Pos
      BY <1>8, PositionInHand DEF ProbeThenAsk
    <3>2. InProject(j)'
      BY <1>8, <3>1 DEF TypeOK, ProbeThenAsk, Probed, AwaitDecision
    <3>3. probe'[j][item[j]] = "exists" /\ conflict'[j][item[j]] = "pending"
      BY <1>8, <3>1 DEF TypeOK, ProbeThenAsk, Probed
    <3> QED BY <1>8, <3>1, <3>2, <3>3 DEF TypeOK, ProbeThenAsk, AwaitDecision
  <2>2. OneConflict(j)'
    <3>1. item[j] \in Pos
      BY <1>8, PositionInHand DEF ProbeThenAsk
    <3>2. \A i \in Pos : conflict[j][i] # "pending"
      BY <1>8 DEF ProbeThenAsk, OneConflict
    <3>3. \A i \in Pos : conflict'[j][i] = IF i = item[j] THEN "pending" ELSE conflict[j][i]
      BY <1>8 DEF TypeOK, ProbeThenAsk
    <3>4. status'[j] = "awaiting_decision" /\ pc'[j] = "decide" /\ item'[j] = item[j]
      BY <1>8 DEF TypeOK, ProbeThenAsk, AwaitDecision
    <3> QED BY <3>1, <3>2, <3>3, <3>4 DEF OneConflict
  <2>3. /\ ModeHonoured(j)' /\ WritesInOrder(j)' /\ HaltedAtFailure(j)' /\ Restored(j)'
        /\ WroteNothing(j)' /\ StallKnown(j)' /\ (~TrashGuard => Quiet(j))'
    BY <1>8 DEF TypeOK, ModeHonoured, WritesInOrder, HaltedAtFailure, Restored,
                WroteNothing, StallKnown, Quiet,
                ProbeThenAsk, Probed, AwaitDecision, Exists
  <2> QED BY <2>1, <2>2, <2>3 DEF JobInv
<1>9. CASE PollOverride(j)
  <2>1. /\ WorkerAt(j)' /\ OneConflict(j)' /\ ModeHonoured(j)' /\ WritesInOrder(j)'
        /\ HaltedAtFailure(j)' /\ Restored(j)' /\ WroteNothing(j)' /\ StallKnown(j)'
        /\ (~TrashGuard => Quiet(j))'
    BY <1>9 DEF TypeOK, WorkerAt, OneConflict, ModeHonoured, WritesInOrder,
                HaltedAtFailure, Restored, WroteNothing, StallKnown, Quiet,
                PollOverride, IssueProjectWrite, Decided
  <2> QED BY <2>1 DEF JobInv
<1>10. CASE PollSkip(j)
  <2>1. WorkerAt(j)'
    <3>1. item[j] \in Pos /\ InProject(j) /\ NextProject(j) /\ request' = request
          /\ status'[j] = "running" /\ ~blocked[j]' /\ timers'[j]
      BY <1>10, PositionInHand DEF TypeOK, PollSkip, LeaveProject, Decided
    <3>2. outcome'[j][item[j]] # "open" /\ conflict'[j][item[j]] # "pending"
      BY <1>10, <3>1 DEF TypeOK, PollSkip, LeaveProject, Decided
    <3>3. \A i \in Pos : i # item[j] => /\ outcome'[j][i] = outcome[j][i]
                                        /\ conflict'[j][i] = conflict[j][i]
                                        /\ probe'[j][i] = probe[j][i]
      BY <1>10 DEF TypeOK, PollSkip, LeaveProject, Decided
    <3> QED BY <3>1, <3>2, <3>3, NextProjectAt, ZenonT(30)
  <2>2. WritesInOrder(j)'
    <3>1. item[j] \in Pos /\ InProject(j) /\ NextProject(j) /\ request' = request
          /\ status'[j] = "running" /\ ~blocked[j]' /\ timers'[j]
      BY <1>10, PositionInHand DEF TypeOK, PollSkip, LeaveProject, Decided
    <3>2. outcome'[j][item[j]] # "open" /\ conflict'[j][item[j]] # "pending"
      BY <1>10, <3>1 DEF TypeOK, PollSkip, LeaveProject, Decided
    <3>3. \A i \in Pos : i # item[j] => /\ outcome'[j][i] = outcome[j][i]
                                        /\ conflict'[j][i] = conflict[j][i]
                                        /\ probe'[j][i] = probe[j][i]
      BY <1>10 DEF TypeOK, PollSkip, LeaveProject, Decided
    <3> QED BY <3>1, <3>2, <3>3, NextProjectAt
  <2>3. /\ OneConflict(j)' /\ ModeHonoured(j)' /\ HaltedAtFailure(j)' /\ Restored(j)'
        /\ WroteNothing(j)' /\ StallKnown(j)' /\ (~TrashGuard => Quiet(j))'
    BY <1>10 DEF TypeOK, OneConflict, ModeHonoured, HaltedAtFailure, Restored,
                WroteNothing, StallKnown, Quiet,
                PollSkip, LeaveProject, NextProject, EnterPhase, ProgressAt, Decided
  <2> QED BY <2>1, <2>2, <2>3 DEF JobInv
<1>11. CASE ProjectLands(j)
  <2>1. /\ WorkerAt(j)' /\ OneConflict(j)' /\ ModeHonoured(j)' /\ WritesInOrder(j)'
        /\ HaltedAtFailure(j)' /\ Restored(j)' /\ WroteNothing(j)' /\ StallKnown(j)'
        /\ (~TrashGuard => Quiet(j))'
    BY <1>11, SMTT(30) DEF TypeOK, WorkerAt, OneConflict, ModeHonoured, WritesInOrder,
                HaltedAtFailure, Restored, WroteNothing, StallKnown, Quiet,
                ProjectLands
  <2> QED BY <2>1 DEF JobInv
<1>12. CASE ProjectWritten(j)
  <2>1. WorkerAt(j)'
    <3>1. item[j] \in Pos /\ InProject(j) /\ NextProject(j) /\ request' = request
          /\ status'[j] = "running" /\ ~blocked[j]' /\ timers'[j]
      BY <1>12, PositionInHand DEF TypeOK, ProjectWritten
    <3>2. outcome'[j][item[j]] # "open" /\ conflict'[j][item[j]] # "pending"
      BY <1>12, <3>1 DEF TypeOK, ProjectWritten
    <3>3. \A i \in Pos : i # item[j] => /\ outcome'[j][i] = outcome[j][i]
                                        /\ conflict'[j][i] = conflict[j][i]
                                        /\ probe'[j][i] = probe[j][i]
      BY <1>12 DEF TypeOK, ProjectWritten
    <3> QED BY <3>1, <3>2, <3>3, NextProjectAt, ZenonT(30)
  <2>2. WritesInOrder(j)'
    <3>1. item[j] \in Pos /\ InProject(j) /\ NextProject(j) /\ request' = request
          /\ status'[j] = "running" /\ ~blocked[j]' /\ timers'[j]
      BY <1>12, PositionInHand DEF TypeOK, ProjectWritten
    <3>2. outcome'[j][item[j]] # "open" /\ conflict'[j][item[j]] # "pending"
      BY <1>12, <3>1 DEF TypeOK, ProjectWritten
    <3>3. \A i \in Pos : i # item[j] => /\ outcome'[j][i] = outcome[j][i]
                                        /\ conflict'[j][i] = conflict[j][i]
                                        /\ probe'[j][i] = probe[j][i]
      BY <1>12 DEF TypeOK, ProjectWritten
    <3> QED BY <3>1, <3>2, <3>3, NextProjectAt
  <2>3. /\ OneConflict(j)' /\ ModeHonoured(j)' /\ HaltedAtFailure(j)' /\ Restored(j)'
        /\ WroteNothing(j)' /\ StallKnown(j)' /\ (~TrashGuard => Quiet(j))'
    BY <1>12 DEF TypeOK, OneConflict, ModeHonoured, HaltedAtFailure, Restored,
                WroteNothing, StallKnown, Quiet,
                ProjectWritten, NextProject, EnterPhase, ProgressAt
  <2> QED BY <2>1, <2>2, <2>3 DEF JobInv
<1>13. CASE StubNextCall(j)
  <2>1. /\ WorkerAt(j)' /\ OneConflict(j)' /\ ModeHonoured(j)' /\ WritesInOrder(j)'
        /\ HaltedAtFailure(j)' /\ Restored(j)' /\ WroteNothing(j)' /\ StallKnown(j)'
        /\ (~TrashGuard => Quiet(j))'
    BY <1>13 DEF TypeOK, WorkerAt, OneConflict, ModeHonoured, WritesInOrder,
                HaltedAtFailure, Restored, WroteNothing, StallKnown, Quiet,
                StubNextCall
  <2> QED BY <2>1 DEF JobInv
<1>14. CASE StubNextPhase(j)
  <2>1. WritesInOrder(j)'
    <3>1. PICK p \in Phases : p = phase[j] /\ p # 1 /\ p < LastPhase
      BY <1>14 DEF StubNextPhase, MorePhases
    <3>2. progress'[j] = ProgressAt(p + 1) /\ touched'[j] = touched[j] \cup {p + 1}
      BY <1>14, <3>1 DEF TypeOK, StubNextPhase, EnterPhase
    <3>3. \A q \in touched'[j] : q \in Phases /\ q <= p + 1
      BY <1>14, <3>1, <3>2 DEF StubNextPhase
    <3>4. \A q \in Phases : q < p + 1 => progress'[j][q] = "completed"
      BY <3>1, <3>2 DEF ProgressAt
    <3>5. \A i \in Positions(j)' : outcome'[j][i] # "open"
      <4>1. \A i \in Positions(j) : i \in Pos /\ i < Len(request[j].keys) + 1
        BY KeysOf, BoundsAssumption DEF Pos
      <4> QED BY <1>14, <4>1 DEF StubNextPhase
    <3> QED BY <3>1, <3>3, <3>4, <3>5 DEF WritesInOrder
  <2>2. WorkerAt(j)'
    BY <1>14 DEF TypeOK, WorkerAt, StubNextPhase, EnterPhase, ProgressAt, MorePhases
  <2>3. OneConflict(j)' /\ ModeHonoured(j)'
    BY <1>14 DEF TypeOK, OneConflict, ModeHonoured,
                 StubNextPhase, EnterPhase, ProgressAt, MorePhases
  <2>4. HaltedAtFailure(j)' /\ Restored(j)'
    BY <1>14 DEF TypeOK, HaltedAtFailure, Restored,
                 StubNextPhase, EnterPhase, ProgressAt, MorePhases
  <2>5. WroteNothing(j)' /\ StallKnown(j)' /\ (~TrashGuard => Quiet(j))'
    BY <1>14 DEF TypeOK, WroteNothing, StallKnown, Quiet,
                 StubNextPhase, EnterPhase, ProgressAt, MorePhases
  <2> QED BY <2>1, <2>2, <2>3, <2>4, <2>5 DEF JobInv
<1>15. CASE Complete(j)
  <2>1. Restored(j)'
    <3>1. phase[j] = LastPhase /\ InStub(j)
      BY <1>15 DEF TypeOK, Complete, MorePhases
    <3>2. \A p \in Phases : progress'[j][p] = "completed"
      BY <1>15, <3>1 DEF TypeOK, Complete, ProgressAt
    <3>3. \A i \in Positions(j)' : outcome'[j][i] # "open"
      <4>1. \A i \in Positions(j) : i \in Pos /\ i < Len(request[j].keys) + 1
        BY KeysOf, BoundsAssumption DEF Pos
      <4> QED BY <1>15, <4>1 DEF Complete
    <3> QED BY <1>15, <3>1, <3>2, <3>3 DEF TypeOK, Restored, Complete
  <2>2. /\ WorkerAt(j)' /\ OneConflict(j)'
    BY <1>15, ZenonT(30) DEF TypeOK, WorkerAt, OneConflict,
                Complete, StopWorker, SetCompleted, MorePhases, ProgressAt
  <2>3. /\ ModeHonoured(j)' /\ WritesInOrder(j)' /\ HaltedAtFailure(j)'
    BY <1>15 DEF TypeOK, ModeHonoured, WritesInOrder, HaltedAtFailure,
                Complete, StopWorker, SetCompleted, MorePhases, ProgressAt
  <2>4. /\ WroteNothing(j)' /\ StallKnown(j)' /\ (~TrashGuard => Quiet(j))'
    BY <1>15 DEF TypeOK, WroteNothing, StallKnown, Quiet,
                Complete, StopWorker, SetCompleted, MorePhases, ProgressAt
  <2> QED BY <2>1, <2>2, <2>3, <2>4 DEF JobInv
<1>16. CASE CallFails(j)
  <2>1. /\ WorkerAt(j)' /\ OneConflict(j)'
    BY <1>16 DEF TypeOK, WorkerAt, OneConflict,
                CallFails, FailPhase, SetFailed, StopWorker, ProgressAt
  <2>2. /\ ModeHonoured(j)' /\ WritesInOrder(j)'
    BY <1>16 DEF TypeOK, ModeHonoured, WritesInOrder,
                CallFails, FailPhase, SetFailed, StopWorker, ProgressAt
  <2>3. /\ HaltedAtFailure(j)' /\ Restored(j)'
    BY <1>16, SMTT(30) DEF TypeOK, HaltedAtFailure, Restored,
                CallFails, FailPhase, SetFailed, StopWorker, ProgressAt
  <2>4. /\ WroteNothing(j)' /\ StallKnown(j)' /\ (~TrashGuard => Quiet(j))'
    BY <1>16 DEF TypeOK, WroteNothing, StallKnown, Quiet,
                CallFails, FailPhase, SetFailed, StopWorker, ProgressAt
  <2> QED BY <2>1, <2>2, <2>3, <2>4 DEF JobInv
<1> QED BY <1>1, <1>2, <1>3, <1>4, <1>5, <1>6, <1>7, <1>8,
           <1>9, <1>10, <1>11, <1>12, <1>13, <1>14, <1>15, <1>16 DEF Work

\* The turns of the timers and of the operator, and the environment.
LEMMA PostSelf ==
  ASSUME TypeOK, NEW j \in Jobs, NEW r \in Requests, JobInv(j), PostJob(j, r)
  PROVE  JobInv(j)'
<1>1. /\ status[j] = "none" /\ NotStarted(j) /\ ~blocked[j] /\ ~stalled[j] /\ ~sawStall[j]
      /\ request'[j] = r /\ status'[j] = "running" /\ timers'[j]
      /\ UNCHANGED <<diagnostic, stalled, blocked, conflict, sawStall, probe, outcome>>
  BY DEF PostJob, JobInv, WorkerAt, TypeOK, StartTimers
<1>2. WorkerAt(j)' /\ WritesInOrder(j)'
  <2>1. CASE StartEngine(j, r) /\ r.dest # "export"
    BY <1>1, <2>1, EngineStartsAt
  <2>2. CASE /\ \/ pc' = [pc EXCEPT ![j] = "trash"] /\ r.dest # "export" /\ TrashGuard
                \/ pc' = [pc EXCEPT ![j] = "zip"] /\ r.dest = "export"
             /\ UNCHANGED <<progress, phase, item, call, touched>>
    BY <1>1, <2>2, ZenonT(30) DEF TypeOK, WorkerAt, WritesInOrder, NotStarted, UntouchedAfter
  <2> QED BY <2>1, <2>2 DEF PostJob
<1>3. touched'[j] = {} \/ touched'[j] = {2}
  BY <1>1 DEF PostJob, NotStarted, StartEngine, EnterPhase, TypeOK
<1>4. HaltedAtFailure(j)'
  BY <1>1 DEF HaltedAtFailure, PostJob, NotStarted, StartEngine, EnterPhase, ProgressAt, TypeOK
<1>5. OneConflict(j)' /\ ModeHonoured(j)'
  BY <1>1 DEF OneConflict, ModeHonoured, NotStarted, UntouchedAfter, Pos
<1>6. Restored(j)' /\ WroteNothing(j)' /\ Quiet(j)'
  BY <1>1 DEF Restored, WroteNothing, Quiet
<1>7. StallKnown(j)'
  BY <1>1 DEF StallKnown, TypeOK
<1> QED BY <1>2, <1>4, <1>5, <1>6, <1>7 DEF JobInv

\* So does the operator's decision, whether or not a worker waits for it.
LEMMA DecisionSelf ==
  ASSUME TypeOK, NEW j \in Jobs, NEW i \in Pos, NEW d \in Decisions, JobInv(j),
         PostDecision(j, i, d)
  PROVE  JobInv(j)'
<1> USE DEF PostDecision, rowVars, workerVars, clientVars, jiraVars, historyVars, processVars
<1>1. /\ status[j] = "awaiting_decision" /\ status'[j] = "running"
      /\ conflict[j][i] = "pending" /\ d # "pending" /\ d # "none"
      /\ \A h \in Pos : conflict'[j][h] = IF h = i THEN d ELSE conflict[j][h]
      /\ \A h \in Pos : conflict'[j][h] # "pending"
  BY DEF JobInv, OneConflict, TypeOK, Decisions
<1>2. pc[j] = "idle" \/ (pc[j] = "decide" /\ item[j] = i)
  <2>1. OneConflict(j)
    BY DEF JobInv
  <2>2. conflict[j][i] = "pending" /\ Working(j) => pc[j] = "decide" /\ item[j] = i
    BY <2>1 DEF OneConflict
  <2> QED BY <1>1, <2>2
<1>3. OneConflict(j)' /\ ModeHonoured(j)' /\ WritesInOrder(j)' /\ HaltedAtFailure(j)'
  BY <1>1 DEF JobInv, OneConflict, ModeHonoured, WritesInOrder, HaltedAtFailure
<1>4. Restored(j)' /\ WroteNothing(j)' /\ StallKnown(j)' /\ (~TrashGuard => Quiet(j))'
  BY <1>1, <1>2 DEF JobInv, Restored, WroteNothing, StallKnown, Quiet
<1>5. WorkerAt(j)'
  <2>1. CASE pc[j] = "idle"
    BY <1>1, <2>1 DEF JobInv, WorkerAt
  <2>2. CASE pc[j] = "decide" /\ item[j] = i
    <3>1. InProject(j) /\ outcome[j][i] = "open" /\ probe[j][i] = "exists" /\ timers[j] /\ ~blocked[j]
      BY <2>2 DEF JobInv, WorkerAt
    <3>2. InProject(j)'
      BY <1>1, <2>2, <3>1 DEF InProject, SettledBefore, UntouchedAfter, Pos
    <3> QED BY <1>1, <2>2, <3>1, <3>2 DEF WorkerAt
  <2> QED BY <1>2, <2>1, <2>2
<1> QED BY <1>3, <1>4, <1>5 DEF JobInv

\* So do the heartbeat and the stall check.
LEMMA TimerSelf ==
  ASSUME TypeOK, NEW j \in Jobs, JobInv(j), Heartbeat(j) \/ CheckStall(j)
  PROVE  JobInv(j)'
<1> USE DEF Heartbeat, CheckStall, Recover, processVars, clientVars, jiraVars, historyVars
<1>1. SameWork(j)
  BY DEF SameWork
<1>2. timers[j] /\ pc[j] # "idle" /\ status[j] # "none"
  BY DEF JobInv, WorkerAt
<1>3. WorkerAt(j)'
  BY <1>1, <1>2, PointFrame DEF JobInv, SameWork, WorkerAt
<1>4. StallKnown(j)'
  <2>1. CASE Heartbeat(j)
    BY <2>1 DEF StallKnown, TypeOK
  <2>2. CASE CheckStall(j)
    BY <2>2 DEF StallKnown, TypeOK
  <2> QED BY <2>1, <2>2
<1>5. ~Terminal(j)
  BY <1>2 DEF JobInv, WorkerAt, TypeOK, PC
<1>6. Quiet(j)'
  BY <1>5 DEF Quiet
<1> QED BY <1>1, <1>3, <1>4, <1>6, WorkFrame DEF JobInv

\* A crash takes the workers and their timers and leaves the rows.
LEMMA CrashKeeps ==
  ASSUME TypeOK, Crash, NEW k \in Jobs, JobInv(k)
  PROVE  JobInv(k)'
<1> USE DEF Crash, rowVars, jiraVars, historyVars
<1>1. pc'[k] = "idle" /\ ~timers'[k] /\ ~sawStall'[k]
  OBVIOUS
<1>2. WorkerAt(k)'
  BY <1>1 DEF JobInv, WorkerAt, NotStarted, UntouchedAfter
<1>3. OneConflict(k)'
  BY <1>1 DEF JobInv, OneConflict
<1>4. ModeHonoured(k)' /\ WritesInOrder(k)' /\ HaltedAtFailure(k)'
  BY DEF JobInv, ModeHonoured, WritesInOrder, HaltedAtFailure
<1>5. Restored(k)' /\ WroteNothing(k)' /\ StallKnown(k)' /\ (~TrashGuard => Quiet(k))'
  BY <1>1 DEF JobInv, Restored, WroteNothing, StallKnown, Quiet
<1> QED BY <1>2, <1>3, <1>4, <1>5 DEF JobInv

\* The clock makes a silence longer, never shorter.
LEMMA TickKeeps ==
  ASSUME TypeOK, Tick, NEW k \in Jobs, JobInv(k)
  PROVE  JobInv(k)'
<1> USE DEF Tick, rowVars, processVars, workerVars, clientVars, jiraVars, historyVars
<1>1. SameWork(k)
  BY DEF SameWork
<1>2. WorkerAt(k)'
  BY <1>1, PointFrame DEF JobInv, SameWork, WorkerAt
<1>3. age'[k] = age[k] \/ age[k] <= StaleThreshold
  OBVIOUS
<1>4. StallKnown(k)' /\ (~TrashGuard => Quiet(k))'
  BY <1>3, ThresholdAssumption DEF JobInv, StallKnown, Quiet, TypeOK
<1> QED BY <1>1, <1>2, <1>4, WorkFrame DEF JobInv

\* A turn for one job leaves every other job alone.
LEMMA TurnFramesOthers ==
  ASSUME TypeOK, NEW j \in Jobs, NEW k \in Jobs, k # j,
         \/ \E r \in Requests : PostJob(j, r)
         \/ \E i \in Pos, d \in Decisions : PostDecision(j, i, d)
         \/ Work(j) \/ Heartbeat(j) \/ CheckStall(j)
  PROVE  SameJob(k)
<1> USE DEF rowVars, processVars, workerVars, clientVars, jiraVars,
            historyVars, SameJob, SameWork, TypeOK
<1>1. ASSUME NEW r \in Requests, PostJob(j, r) PROVE SameJob(k)
  BY <1>1 DEF PostJob, StartTimers, StartEngine, EnterPhase
<1>2. ASSUME NEW i \in Pos, NEW d \in Decisions, PostDecision(j, i, d) PROVE SameJob(k)
  BY <1>2 DEF PostDecision
<1>3. CASE Heartbeat(j) \/ CheckStall(j)
  BY <1>3 DEF Heartbeat, CheckStall, Recover
<1>4. CASE Work(j)
  BY <1>4, WorkFramesOthers
<1> QED BY <1>1, <1>2, <1>3, <1>4

\* Every step keeps the invariant of every job.
LEMMA JobInvStep ==
  ASSUME TypeOK, [Next]_vars, NEW k \in Jobs, JobInv(k)
  PROVE  JobInv(k)'
<1>1. ASSUME NEW j \in Jobs,
             \/ \E r \in Requests : PostJob(j, r)
             \/ \E i \in Pos, d \in Decisions : PostDecision(j, i, d)
             \/ Work(j) \/ Heartbeat(j) \/ CheckStall(j)
      PROVE  JobInv(k)'
  <2>1. CASE k # j
    BY <1>1, <2>1, TurnFramesOthers, JobFrame
  <2>2. CASE k = j
    BY <1>1, <2>2, PostSelf, DecisionSelf, WorkSelf, TimerSelf
  <2> QED BY <2>1, <2>2
<1>2. CASE \/ \E j \in Jobs : Subscribe(j) \/ Disconnect(j)
           \/ \E p \in Keys : TrashProject(p)
           \/ Restart
           \/ UNCHANGED vars
  <2>1. SameJob(k)
    BY <1>2 DEF Subscribe, Disconnect, TrashProject, Restart, vars, SameJob, SameWork,
                rowVars, workerVars, historyVars
  <2> QED BY <2>1, JobFrame
<1>3. CASE Tick
  BY <1>3, TickKeeps
<1>4. CASE Crash
  BY <1>4, CrashKeeps
<1> QED BY <1>1, <1>2, <1>3, <1>4 DEF Next

\* The invariant holds before any job exists.
LEMMA IInvInit == Init => IInv
<1> SUFFICES ASSUME Init PROVE IInv
  OBVIOUS
<1>1. TypeOK
  BY TypeOKInit
<1>2. ASSUME NEW j \in Jobs PROVE JobInv(j)
  <2>1. WorkerAt(j)
    BY DEF Init, WorkerAt, NotStarted, UntouchedAfter
  <2>2. OneConflict(j) /\ ModeHonoured(j) /\ WritesInOrder(j) /\ HaltedAtFailure(j)
    BY DEF Init, OneConflict, ModeHonoured, WritesInOrder, HaltedAtFailure
  <2>3. Restored(j) /\ WroteNothing(j) /\ StallKnown(j) /\ Quiet(j)
    BY DEF Init, Restored, WroteNothing, StallKnown, Quiet
  <2> QED BY <2>1, <2>2, <2>3 DEF JobInv
<1> QED BY <1>1, <1>2 DEF IInv

\* And every step keeps it.
LEMMA IInvStep == IInv /\ [Next]_vars => IInv'
<1> SUFFICES ASSUME IInv, [Next]_vars PROVE IInv'
  OBVIOUS
<1>1. TypeOK /\ WorkersAt
  BY DEF IInv, JobInv, WorkersAt
<1>2. TypeOK'
  BY <1>1, TypeOKStep
<1>3. \A k \in Jobs : JobInv(k)'
  BY <1>1, JobInvStep DEF IInv
<1> QED BY <1>2, <1>3 DEF IInv

\* What is true of a job at every point of its worker, whatever the interleaving.
THEOREM Inductive == Spec => []IInv
BY IInvInit, IInvStep, PTL DEF Spec

-----------------------------------------------------------------------------
(* What follows.                                                           *)

\* Every variable keeps its type, whatever the requests, bounds and phase sizes.
THEOREM TypeCorrect == Spec => []TypeOK
<1>1. IInv => TypeOK
  BY DEF IInv
<1> QED BY <1>1, Inductive, PTL

\* Where a worker is and what the row of its job says agree (waitForDecision and
\* the decisions endpoint, the engine's loop and phase_progress).
THEOREM WorkersAgree == Spec => []WorkersAt
<1>1. IInv => WorkersAt
  BY DEF IInv, JobInv, WorkersAt
<1> QED BY <1>1, Inductive, PTL

\* A job awaits a decision exactly while one of its conflicts is undecided, for any
\* number of jobs, projects, requests and crashes.
THEOREM OneConflictProved == Spec => []OneConflictAtATime
<1>1. IInv => OneConflictAtATime
  BY DEF IInv, JobInv, OneConflictAtATime
<1> QED BY <1>1, Inductive, PTL

\* No project is written or left against the conflict mode and the decisions.
THEOREM ModeProved == Spec => []HonoursMode
<1>1. IInv => HonoursMode
  BY DEF IInv, JobInv, HonoursMode
<1> QED BY <1>1, Inductive, PTL

\* No phase writes to Jira before the phases it depends on are completed.
THEOREM OrderProved == Spec => []DependencyOrder
<1>1. IInv => DependencyOrder
  BY DEF IInv, JobInv, DependencyOrder
<1> QED BY <1>1, Inductive, PTL

\* A failed phase is the last one that ran, and the row says which one it was.
THEOREM HaltProved == Spec => []FailureHalts
<1>1. IInv => FailureHalts
  BY DEF IInv, JobInv, FailureHalts
<1> QED BY <1>1, Inductive, PTL

\* A completed job went through all phases and settled all its projects.
THEOREM CompletionProved == Spec => []CompletedMeansRestored
<1>1. IInv => CompletedMeansRestored
  BY DEF IInv, JobInv, CompletedMeansRestored
<1> QED BY <1>1, Inductive, PTL

\* A job the mid-flight trash check stopped has written nothing to Jira.
THEOREM BlockProved == Spec => []BlockedWroteNothing
<1>1. IInv => BlockedWroteNothing
  BY DEF IInv, JobInv, BlockedWroteNothing
<1> QED BY <1>1, Inductive, PTL

\* A live worker's row is flagged stalled only while the worker is silent.
THEOREM StallProved == Spec => []StalledMeansSilent
<1>1. IInv => StalledMeansSilent
  BY DEF IInv, JobInv, StalledMeansSilent
<1> QED BY <1>1, Inductive, PTL

\* A worker started as the router starts it, without a trash checker, leaves
\* nothing behind when its job ends.
THEOREM QuietProved == ASSUME ~TrashGuard PROVE Spec => []TerminalIsQuiet
<1>1. IInv => TerminalIsQuiet
  BY DEF IInv, JobInv, TerminalIsQuiet
<1> QED BY <1>1, Inductive, PTL

\* The worker of an ended job has no turn left.
LEMMA TerminalWorker ==
  ASSUME IInv, NEW j \in Jobs, Terminal(j)
  PROVE  ~Work(j) /\ ~timers[j]
<1>1. pc[j] = "idle" /\ ~timers[j]
  <2>1. pc[j] \in PC /\ WorkerAt(j)
    BY DEF IInv, JobInv, TypeOK
  <2> QED BY <2>1 DEF WorkerAt, PC
<1> QED
  BY <1>1 DEF Work, TrashBlocks, TrashPasses, TrashCheckFails, ArchiveReady, ArchiveFails,
              ProbeThenWrite, ProbeThenSkip, ProbeThenAsk, PollOverride, PollSkip,
              ProjectLands, ProjectWritten, StubNextCall, StubNextPhase, Complete, CallFails

\* No step changes what an ended job recorded.
THEOREM FinalProved == Spec => TerminalIsFinal
<1> DEFINE Kept(k) == UNCHANGED <<status[k], diagnostic[k], progress[k], conflict[k], outcome[k]>>
<1>1. ASSUME IInv, [Next]_vars, NEW k \in Jobs, Terminal(k)
      PROVE  Kept(k)
  <2>1. ~Work(k) /\ ~timers[k] /\ status[k] # "none" /\ status[k] # "awaiting_decision"
    BY <1>1, TerminalWorker
  <2>2. ASSUME NEW j \in Jobs,
               \/ \E r \in Requests : PostJob(j, r)
               \/ \E i \in Pos, d \in Decisions : PostDecision(j, i, d)
               \/ Work(j) \/ Heartbeat(j) \/ CheckStall(j)
        PROVE  Kept(k)
    <3>1. j # k
      BY <2>1, <2>2 DEF PostJob, PostDecision, Heartbeat, CheckStall
    <3>2. SameJob(k)
      BY <1>1, <2>2, <3>1, TurnFramesOthers DEF IInv
    <3> QED BY <3>2 DEF SameJob, SameWork
  <2>3. CASE \/ \E j \in Jobs : Subscribe(j) \/ Disconnect(j)
             \/ \E p \in Keys : TrashProject(p)
             \/ Tick \/ Crash \/ Restart \/ UNCHANGED vars
    BY <2>3 DEF Subscribe, Disconnect, TrashProject, Tick, Crash, Restart, vars, rowVars, historyVars
  <2> QED BY <1>1, <2>2, <2>3 DEF Next
<1>2. IInv /\ [Next]_vars => [\A j \in Jobs : Terminal(j) =>
         UNCHANGED <<status[j], diagnostic[j], progress[j], conflict[j], outcome[j]>>]_vars
  BY <1>1
<1> QED BY <1>2, Inductive, PTL DEF Spec, TerminalIsFinal

\* Started as the router starts it, a worker that ends its job tells every listener.
THEOREM AnnouncementProved == ASSUME ~TrashGuard PROVE Spec => EndIsAnnounced
<1>1. ASSUME IInv, [Next]_vars, NEW k \in Jobs, ~Terminal(k), Terminal(k)', stream[k] = "open"
      PROVE  stream'[k] = "ended"
  <2>1. TypeOK /\ WorkerAt(k)
    BY <1>1 DEF IInv, JobInv
  <2>2. ASSUME NEW j \in Jobs, j # k,
               \/ \E r \in Requests : PostJob(j, r)
               \/ \E i \in Pos, d \in Decisions : PostDecision(j, i, d)
               \/ Work(j) \/ Heartbeat(j) \/ CheckStall(j)
        PROVE  FALSE
    <3>1. SameJob(k)
      BY <1>1, <2>1, <2>2, TurnFramesOthers
    <3> QED BY <1>1, <3>1 DEF SameJob, SameWork
  <2>3. CASE \/ \E r \in Requests : PostJob(k, r)
             \/ \E i \in Pos, d \in Decisions : PostDecision(k, i, d)
             \/ Heartbeat(k) \/ CheckStall(k)
    BY <1>1, <2>1, <2>3 DEF PostJob, PostDecision, Heartbeat, CheckStall, TypeOK
  <2>4. CASE Work(k)
    <3>1. pc[k] # "trash"
      BY <2>1 DEF WorkerAt
    <3>2. CASE \/ ProbeThenWrite(k) \/ ProbeThenSkip(k) \/ ProbeThenAsk(k)
               \/ PollOverride(k) \/ PollSkip(k) \/ ProjectLands(k) \/ ProjectWritten(k)
               \/ StubNextCall(k) \/ StubNextPhase(k)
      BY <1>1, <2>1, <3>2 DEF ProbeThenWrite, ProbeThenSkip, ProbeThenAsk, PollOverride, PollSkip,
                              ProjectLands, ProjectWritten, StubNextCall, StubNextPhase,
                              rowVars, TypeOK
    <3>3. CASE ArchiveReady(k) \/ ArchiveFails(k) \/ Complete(k) \/ CallFails(k)
      BY <1>1, <2>1, <3>3 DEF ArchiveReady, ArchiveFails, Complete, CallFails, PublishComplete, TypeOK
    <3>4. ~TrashBlocks(k) /\ ~TrashPasses(k) /\ ~TrashCheckFails(k)
      BY <3>1 DEF TrashBlocks, TrashPasses, TrashCheckFails
    <3> QED BY <2>4, <3>2, <3>3, <3>4 DEF Work
  <2>5. CASE \/ \E j \in Jobs : Subscribe(j) \/ Disconnect(j)
             \/ \E p \in Keys : TrashProject(p)
             \/ Tick \/ Crash \/ Restart \/ UNCHANGED vars
    BY <1>1, <2>5 DEF Subscribe, Disconnect, TrashProject, Tick, Crash, Restart, vars, rowVars
  <2> QED BY <1>1, <2>2, <2>3, <2>4, <2>5 DEF Next
<1>2. IInv /\ [Next]_vars => [\A j \in Jobs : ~Terminal(j) /\ Terminal(j)' /\ stream[j] = "open"
                                               => stream'[j] = "ended"]_vars
  BY <1>1
<1> QED BY <1>2, Inductive, PTL DEF Spec, EndIsAnnounced

-----------------------------------------------------------------------------
(* RestoreJob implements RestoreLifecycle.                                 *)

\* The projects to settle are fixed when the job is accepted.
LEMMA TodoSame ==
  ASSUME request' = request, \A k \in Jobs : status'[k] = "none" <=> status[k] = "none"
  PROVE  Todo' = Todo
BY DEF Todo

\* They are a function on the jobs.
LEMMA TodoType == Todo = [k \in Jobs |-> Todo[k]]
BY DEF Todo

\* Initial states map to initial states.
LEMMA RefinesInit == Init => Lifecycle!Init
<1> SUFFICES ASSUME Init PROVE Lifecycle!Init
  OBVIOUS
<1>1. Todo = [k \in Jobs |-> {}]
  BY DEF Init, Todo
<1> QED BY <1>1 DEF Init, Lifecycle!Init

\* The project in hand is the next one of the abstract job.
LEMMA InHandIsNext ==
  ASSUME IInv, NEW j \in Jobs, pc[j] \in {"probe", "decide", "write"}, outcome[j][item[j]] = "open"
  PROVE  /\ Lifecycle!IsNext(j, item[j]) /\ item[j] \in Pos
         /\ status[j] \in {"running", "awaiting_decision"}
<1>1. TypeOK /\ WorkerAt(j) /\ InProject(j)
  BY DEF IInv, JobInv, WorkerAt
<1>2. item[j] \in Pos /\ item[j] \in Positions(j)
  BY <1>1, PositionInHand
<1>3. status[j] \in {"running", "awaiting_decision"}
  BY <1>1 DEF WorkerAt
<1>4. Todo[j] = Positions(j)
  BY <1>1, <1>3 DEF Todo, InProject
<1>5. \A h \in Todo[j] : h < item[j] => outcome[j][h] # "open"
  <2>1. \A h \in Positions(j) : h \in Pos
    BY <1>1, KeysOf, BoundsAssumption DEF Pos
  <2> QED BY <1>1, <1>4, <2>1 DEF InProject, SettledBefore
<1> QED BY <1>2, <1>3, <1>4, <1>5 DEF Lifecycle!IsNext

\* A step that touches none of what the lifecycle shows.
LEMMA Stutters ==
  ASSUME UNCHANGED <<request, status, conflict, outcome>>
  PROVE  UNCHANGED Lifecycle!lifecycleVars
BY TodoSame DEF Lifecycle!lifecycleVars

\* Whatever ends a running job in failure is the abstract failure.
LEMMA Fails ==
  ASSUME TypeOK, NEW j \in Jobs, status[j] = "running",
         status' = [status EXCEPT ![j] = "failed"], UNCHANGED <<request, conflict, outcome>>
  PROVE  Lifecycle!Next
<1>1. Todo' = Todo
  BY TodoSame DEF TypeOK
<1> QED BY <1>1 DEF Lifecycle!Next, Lifecycle!Fail, Lifecycle!Move

\* A job completes abstractly only with nothing left to settle.
LEMMA Finishes ==
  ASSUME TypeOK, NEW j \in Jobs, status[j] = "running",
         status' = [status EXCEPT ![j] = "completed"], UNCHANGED <<request, conflict, outcome>>,
         \A i \in Todo[j] : outcome[j][i] # "open"
  PROVE  Lifecycle!Next
<1>1. Todo' = Todo
  BY TodoSame DEF TypeOK
<1> QED BY <1>1 DEF Lifecycle!Next, Lifecycle!Finish, Lifecycle!Move

\* Writing or leaving the project in hand settles it.
LEMMA Settles ==
  ASSUME TypeOK, NEW j \in Jobs, NEW i \in Pos, Lifecycle!IsNext(j, i), status[j] = "running",
         UNCHANGED <<request, status, conflict>>,
         \/ /\ conflict[j][i] \in {"none", "override"}
            /\ outcome' = [outcome EXCEPT ![j][i] = "written"]
         \/ /\ conflict[j][i] \in {"none", "skip"}
            /\ outcome' = [outcome EXCEPT ![j][i] = "left"]
  PROVE  Lifecycle!Next
<1>1. Todo' = Todo
  BY TodoSame
<1>2. Lifecycle!Settle(j, i)
  BY <1>1 DEF Lifecycle!Settle
<1> QED BY <1>2 DEF Lifecycle!Next

\* Every turn of a worker is a lifecycle step or none at all.
LEMMA RefinesWork ==
  ASSUME IInv, NEW j \in Jobs, Work(j)
  PROVE  Lifecycle!Next \/ UNCHANGED Lifecycle!lifecycleVars
<1> USE DEF rowVars, historyVars
<1>1. TypeOK /\ JobInv(j) /\ WorkerAt(j)
  BY DEF IInv, JobInv
<1>2. CASE TrashBlocks(j)
  <2>1. status[j] = "running"
    BY <1>1, <1>2 DEF TrashBlocks, WorkerAt
  <2> QED BY <1>1, <1>2, <2>1, Fails DEF TrashBlocks
<1>3. CASE TrashCheckFails(j)
  <2>1. status[j] = "running"
    BY <1>1, <1>3 DEF TrashCheckFails, WorkerAt
  <2> QED BY <1>1, <1>3, <2>1, Fails DEF TrashCheckFails, SetFailed
<1>4. CASE ArchiveFails(j)
  <2>1. status[j] = "running"
    BY <1>1, <1>4 DEF ArchiveFails, WorkerAt
  <2> QED BY <1>1, <1>4, <2>1, Fails DEF ArchiveFails, SetFailed
<1>5. CASE CallFails(j)
  <2>1. status[j] = "running"
    BY <1>1, <1>5 DEF CallFails, WorkerAt
  <2> QED BY <1>1, <1>5, <2>1, Fails DEF CallFails, SetFailed
<1>6. CASE ArchiveReady(j)
  <2>1. status[j] = "running" /\ Todo[j] = {}
    BY <1>1, <1>6 DEF ArchiveReady, WorkerAt, Todo
  <2> QED BY <1>1, <1>6, <2>1, Finishes DEF ArchiveReady, SetCompleted
<1>7. CASE Complete(j)
  <2>1. status[j] = "running" /\ InStub(j)
    BY <1>1, <1>7 DEF Complete, WorkerAt
  <2>2. \A i \in Positions(j) : i \in Pos /\ i < Len(request[j].keys) + 1
    BY <1>1, KeysOf, BoundsAssumption DEF Pos
  <2>3. \A i \in Todo[j] : outcome[j][i] # "open"
    BY <2>1, <2>2 DEF InStub, SettledBefore, Todo
  <2> QED BY <1>1, <1>7, <2>1, <2>3, Finishes DEF Complete, SetCompleted
<1>8. CASE ProbeThenSkip(j)
  <2>1. status[j] = "running" /\ conflict[j][item[j]] = "none" /\ outcome[j][item[j]] = "open"
    BY <1>1, <1>8 DEF ProbeThenSkip, WorkerAt
  <2>2. item[j] \in Pos /\ Lifecycle!IsNext(j, item[j])
    BY <1>8, <2>1, InHandIsNext DEF ProbeThenSkip
  <2> QED BY <1>1, <1>8, <2>1, <2>2, Settles DEF ProbeThenSkip, LeaveProject
<1>9. CASE PollSkip(j)
  <2>1. status[j] = "running" /\ conflict[j][item[j]] = "skip" /\ outcome[j][item[j]] = "open"
    BY <1>1, <1>9 DEF PollSkip, Decided, WorkerAt
  <2>2. item[j] \in Pos /\ Lifecycle!IsNext(j, item[j])
    BY <1>9, <2>1, InHandIsNext DEF PollSkip
  <2>3. status' = status
    BY <1>1, <1>9, <2>1 DEF PollSkip, TypeOK
  <2> QED BY <1>1, <1>9, <2>1, <2>2, <2>3, Settles DEF PollSkip, LeaveProject
<1>10. CASE ProjectLands(j)
  <2>1. status[j] = "running" /\ conflict[j][item[j]] \in {"none", "override"}
    BY <1>1, <1>10 DEF ProjectLands, WorkerAt
  <2>2. item[j] \in Pos /\ Lifecycle!IsNext(j, item[j])
    BY <1>10, InHandIsNext DEF ProjectLands
  <2> QED BY <1>1, <1>10, <2>1, <2>2, Settles DEF ProjectLands
<1>11. CASE ProbeThenAsk(j)
  <2>1. status[j] = "running" /\ conflict[j][item[j]] = "none" /\ outcome[j][item[j]] = "open"
    BY <1>1, <1>11 DEF ProbeThenAsk, WorkerAt
  <2>2. item[j] \in Pos /\ Lifecycle!IsNext(j, item[j])
    BY <1>11, <2>1, InHandIsNext DEF ProbeThenAsk
  <2>3. Todo' = Todo
    BY <1>1, <1>11, <2>1, TodoSame DEF ProbeThenAsk, TypeOK
  <2>4. Lifecycle!Raise(j, item[j])
    BY <1>11, <2>1, <2>2, <2>3 DEF ProbeThenAsk, Lifecycle!Raise, Lifecycle!Move
  <2> QED BY <2>2, <2>4 DEF Lifecycle!Next
<1>12. CASE PollOverride(j)
  <2>1. status[j] = "running"
    BY <1>1, <1>12 DEF PollOverride, Decided, WorkerAt
  <2>2. status' = status
    BY <1>1, <1>12, <2>1 DEF PollOverride, TypeOK
  <2> QED BY <1>12, <2>2, Stutters DEF PollOverride
<1>13. CASE \/ TrashPasses(j) \/ ProbeThenWrite(j) \/ ProjectWritten(j)
            \/ StubNextCall(j) \/ StubNextPhase(j)
  BY <1>13, Stutters DEF TrashPasses, ProbeThenWrite, ProjectWritten, StubNextCall, StubNextPhase
<1> QED
  BY <1>2, <1>3, <1>4, <1>5, <1>6, <1>7, <1>8, <1>9, <1>10, <1>11, <1>12, <1>13 DEF Work

\* An accepted request is an accepted job with its projects to settle.
LEMMA RefinesPost ==
  ASSUME IInv, NEW j \in Jobs, NEW r \in Requests, PostJob(j, r)
  PROVE  Lifecycle!Next
<1>1. PICK S \in SUBSET Pos : S = IF r.dest # "export" THEN 1..Len(r.keys) ELSE {}
  <2>1. Len(r.keys) \in Nat /\ Len(r.keys) <= MaxProjects
    BY RequestTypes
  <2>2. 1..Len(r.keys) \in SUBSET Pos
    BY <2>1, BoundsAssumption DEF Pos
  <2> QED BY <2>2
<1>2. TypeOK /\ status[j] = "none" /\ Todo[j] = {}
  BY DEF IInv, PostJob, Todo
<1>3. Todo' = [Todo EXCEPT ![j] = S]
  <2>1. Todo'[j] = S
    BY <1>1, <1>2 DEF PostJob, Todo, TypeOK
  <2>2. \A k \in Jobs : k # j => Todo'[k] = Todo[k]
    BY <1>2 DEF PostJob, Todo, TypeOK
  <2>3. Todo' = [k \in Jobs |-> Todo'[k]]
    BY DEF Todo
  <2> QED BY <2>1, <2>2, <2>3, TodoType
<1>4. Lifecycle!Accept(j)
  BY <1>2, <1>3 DEF PostJob, Lifecycle!Accept, Lifecycle!Move
<1> QED BY <1>4 DEF Lifecycle!Next

\* Every step is a lifecycle step or a stutter.
LEMMA RefinesStep == IInv /\ [Next]_vars => [Lifecycle!Next]_Lifecycle!lifecycleVars
<1> SUFFICES ASSUME IInv, [Next]_vars
             PROVE  Lifecycle!Next \/ UNCHANGED Lifecycle!lifecycleVars
  OBVIOUS
<1>1. ASSUME NEW j \in Jobs, NEW i \in Pos, NEW d \in Decisions, PostDecision(j, i, d)
      PROVE  Lifecycle!Next
  <2>1. TypeOK
    BY DEF IInv
  <2>2. Todo' = Todo
    BY <1>1, <2>1, TodoSame DEF PostDecision, TypeOK
  <2>3. Lifecycle!Answer(j, i, d)
    BY <1>1, <2>2 DEF PostDecision, historyVars, Lifecycle!Answer, Lifecycle!Move
  <2> QED BY <2>3 DEF Lifecycle!Next, Decisions, Lifecycle!Decisions
<1>2. CASE \/ \E j \in Jobs : \/ Subscribe(j) \/ Disconnect(j)
                              \/ Heartbeat(j) \/ CheckStall(j)
           \/ \E k \in Keys : TrashProject(k)
           \/ Tick \/ Crash \/ Restart \/ UNCHANGED vars
  BY <1>2, Stutters DEF Subscribe, Disconnect, Heartbeat, CheckStall, TrashProject, Tick, Crash,
                        Restart, vars, rowVars, historyVars
<1> QED BY <1>1, <1>2, RefinesWork, RefinesPost DEF Next

\* The worker, its phases, timers and crashes implement the lifecycle the operator
\* is promised: one decision at a time, projects settled in order as decided, and
\* an end that is final.
THEOREM Refinement == Spec => RefinesLifecycle
BY RefinesInit, RefinesStep, Inductive, PTL DEF Spec, RefinesLifecycle, Lifecycle!Spec

=============================================================================
