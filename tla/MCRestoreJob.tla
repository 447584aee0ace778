---------------------------- MODULE MCRestoreJob ----------------------------
(* Small instances of RestoreJob: request bodies and phase sizes for TLC.   *)
EXTENDS RestoreJob

CONSTANTS k1, k2

Request(dest, scope, keys, mode) ==
  [dest |-> dest, scope |-> scope, keys |-> keys, mode |-> mode]

\* One of every kind: in place with two projects and each mode, all (one
\* project), issues (none) and export.
MCRequests ==
  {Request("original", "projects", <<k1, k2>>, m) : m \in Modes}
    \cup {Request("original", "issues", <<>>, "skip"),
          Request("alternate", "all", <<k1>>, "ask"),
          Request("export", "projects", <<k1>>, "skip")}

\* Mode skip, for the race of two jobs.
MCSkip == {Request("original", "projects", <<k1>>, "skip")}

\* The mock data of the handlers, for one issue and three calls per issue.
MCStubCalls == [p \in 2..7 |-> CASE p = 2 -> 3 [] p = 3 -> 2 [] p = 4 -> 1
                                 [] p = 5 -> 2 [] p = 6 -> 1 [] p = 7 -> 3]
MCOneCall == [p \in 2..7 |-> 1]
=============================================================================
