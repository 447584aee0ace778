-------------------------- MODULE RestoreLifecycle --------------------------
(***************************************************************************)
(* What a restore job promises its operator, without workers, timers,      *)
(* phases or crashes: the states of docs/restore-architecture.md section 3 *)
(* as the code realises them, and for every project position of the        *)
(* request one outcome that respects the operator's decision.              *)
(*                                                                         *)
(* RestoreJob implements this specification (run restore_core, theorem     *)
(* Refinement).                                                            *)
(***************************************************************************)
EXTENDS Naturals

CONSTANTS
  Jobs,  \* restore job identifiers
  Pos    \* project positions a request can have

VARIABLES
  status,    \* [Jobs -> Status]
  todo,      \* [Jobs -> SUBSET Pos]: the positions the job has to settle
  conflict,  \* [Jobs -> [Pos -> none | pending | override | skip]]
  outcome    \* [Jobs -> [Pos -> open | written | left]]

lifecycleVars == <<status, todo, conflict, outcome>>

\* The decision endpoint knows two answers (RestoreJobRouter, line 315).
Decisions == {"override", "skip"}

Init ==
  /\ status   = [j \in Jobs |-> "none"]
  /\ todo     = [j \in Jobs |-> {}]
  /\ conflict = [j \in Jobs |-> [i \in Pos |-> "none"]]
  /\ outcome  = [j \in Jobs |-> [i \in Pos |-> "open"]]

Move(j, from, to) ==
  /\ status[j] = from
  /\ status' = [status EXCEPT ![j] = to]

\* The job is accepted and its work is fixed.
Accept(j) ==
  /\ Move(j, "none", "running")
  /\ \E S \in SUBSET Pos : todo' = [todo EXCEPT ![j] = S]
  /\ UNCHANGED <<conflict, outcome>>

\* Position i is the one being worked on: everything before it is settled.
IsNext(j, i) ==
  /\ i \in todo[j]
  /\ outcome[j][i] = "open"
  /\ \A h \in todo[j] : h < i => outcome[j][h] # "open"

\* Ask mode: one conflict at a time, raised for the position in hand.
Raise(j, i) ==
  /\ Move(j, "running", "awaiting_decision")
  /\ IsNext(j, i)
  /\ conflict[j][i] = "none"
  /\ conflict' = [conflict EXCEPT ![j][i] = "pending"]
  /\ UNCHANGED <<todo, outcome>>

\* The operator's one answer to it.
Answer(j, i, d) ==
  /\ Move(j, "awaiting_decision", "running")
  /\ conflict[j][i] = "pending"
  /\ conflict' = [conflict EXCEPT ![j][i] = d]
  /\ UNCHANGED <<todo, outcome>>

\* The position in hand is written, or left as it is in Jira; a position with
\* a conflict goes the way its decision says.
Settle(j, i) ==
  /\ status[j] = "running"
  /\ IsNext(j, i)
  /\ \/ /\ conflict[j][i] \in {"none", "override"}
        /\ outcome' = [outcome EXCEPT ![j][i] = "written"]
     \/ /\ conflict[j][i] \in {"none", "skip"}
        /\ outcome' = [outcome EXCEPT ![j][i] = "left"]
  /\ UNCHANGED <<status, todo, conflict>>

\* Only a job with nothing left to settle completes.
Finish(j) ==
  /\ Move(j, "running", "completed")
  /\ \A i \in todo[j] : outcome[j][i] # "open"
  /\ UNCHANGED <<todo, conflict, outcome>>

\* Only a running job fails: one that waits for a decision cannot.
Fail(j) ==
  /\ Move(j, "running", "failed")
  /\ UNCHANGED <<todo, conflict, outcome>>

Next ==
  \E j \in Jobs :
    \/ Accept(j)
    \/ Finish(j)
    \/ Fail(j)
    \/ \E i \in Pos :
         \/ Raise(j, i)
         \/ Settle(j, i)
         \/ \E d \in Decisions : Answer(j, i, d)

Spec == Init /\ [][Next]_lifecycleVars
=============================================================================
