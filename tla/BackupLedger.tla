---------------------------- MODULE BackupLedger ----------------------------
(***************************************************************************)
(* What a backup run promises to whoever reads its backup point: every     *)
(* issue and every attachment of a captured issue is settled once, as ok   *)
(* or as an error, a settled item is never settled again, and the verdict  *)
(* is given once, when everything is settled, from what was settled.       *)
(***************************************************************************)
CONSTANTS
  Issues,        \* issues of the projects in the run
  Attachments    \* [Issues -> set of attachments]

VARIABLES
  ledger,   \* [item -> open | ok | error]
  verdict   \* none | running | completed | completed_with_errors | failed

vars == <<ledger, verdict>>

Items == Issues \cup UNION {Attachments[i] : i \in Issues}

Verdicts == {"completed", "completed_with_errors", "failed"}

Init ==
  /\ ledger = [x \in Items |-> "open"]
  /\ verdict = "none"

\* The attachments of an issue that could not be captured are not looked at.
AllSettled(l) ==
  \A i \in Issues :
    /\ l[i] # "open"
    /\ \A a \in Attachments[i] : l[a] = "open" <=> l[i] = "error"

Judgement(l) ==
  IF \A x \in Items : l[x] # "error" THEN "completed"
  ELSE IF \A x \in Items : l[x] # "ok" THEN "failed"
  ELSE "completed_with_errors"

Begin ==
  /\ verdict = "none"
  /\ \/ verdict' = "running"
     \/ Issues = {} /\ verdict' = "completed"
  /\ UNCHANGED ledger

\* One turn may settle an attachment and its issue and end the run.
Settle ==
  /\ verdict = "running"
  /\ ledger' \in [Items -> {"open", "ok", "error"}]
  /\ \A x \in Items : ledger[x] # "open" => ledger'[x] = ledger[x]
  /\ \/ verdict' = "running"
     \/ AllSettled(ledger') /\ verdict' = Judgement(ledger')

Next == Begin \/ Settle

Spec == Init /\ [][Next]_vars
=============================================================================
