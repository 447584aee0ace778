-------------------------- MODULE MCRestoreWizard ---------------------------
(* Small instances of RestoreWizard.                                        *)
EXTENDS RestoreWizard

CONSTANTS k1

\* What the form can hold: one project, by scope all or by its key, in place or
\* elsewhere.
MCForms ==
  [dest : {"original", "alternate"}, scope : {"all", "projects"}, keys : {<<k1>>},
   mode : {"skip", "ask"}]

\* One scope, for the instances with fairness.
MCFewForms ==
  {[dest |-> "original", scope |-> "all", keys |-> <<k1>>, mode |-> m] : m \in {"skip", "ask"}}

MCOneCall == [p \in 2..7 |-> 1]
=============================================================================
