--------------------------- MODULE MCProjectSearch --------------------------
(* Small instances of ProjectSearch: what two runs of the backup write, and  *)
(* what the user may type and choose.                                        *)
EXTENDS ProjectSearch

MCSaid(summary, status, labels, updated) ==
  [summary |-> summary, status |-> status, labels |-> labels, updated |-> updated]
MCIssue(key, project, rich) ==
  [type |-> "JiraIssue", key |-> key, project |-> project, sub |-> FALSE,
   ok |-> rich # NoRich, words |-> {key, project}, rich |-> rich]

\* A has three issues, one of which could not be captured; B has one. When the second
\* run is made, A has one issue and B none.
MCRuns ==
  << [entries |-> << MCIssue("A-1", "A", MCSaid({"login"}, "open", {"x"}, 1)),
                     MCIssue("A-2", "A", MCSaid({"login", "A-1"}, "done", {"x", "y"}, 3)),
                     MCIssue("A-3", "A", NoRich),
                     MCIssue("B-1", "B", MCSaid({"login"}, "done", {"x"}, 2)) >>,
      nodes |-> <<>>],
     [entries |-> << MCIssue("A-1", "A", MCSaid({"login"}, "done", {"x"}, 4)) >>,
      nodes |-> <<>>] >>

MCQueries == {{}, {"login"}, {"A-1"}}

MCDone == [NoFilters EXCEPT !.status = {"done"}]
MCNarrow == [MCDone EXCEPT !.labels = {"x"}]
MCLabelled == [MCNarrow EXCEPT !.labels = {"x", "y"}]
MCRecent == [MCDone EXCEPT !.from = 3]
MCWrong == [MCRecent EXCEPT !.to = BadDate]
MCFilters == {NoFilters, MCDone, MCRecent}
MCMoreFilters == {NoFilters, MCDone, MCNarrow, MCLabelled, MCRecent, MCWrong}
=============================================================================
