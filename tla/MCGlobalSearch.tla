---------------------------- MODULE MCGlobalSearch --------------------------
(* A small instance of GlobalSearch: what two runs of the backup write.     *)
EXTENDS GlobalSearch

MCEntry(key, sub, ok) ==
  [type |-> "JiraIssue", key |-> key, project |-> "A", sub |-> sub, ok |-> ok,
   words |-> {"a", "1"}, rich |-> NoRich]
MCNode(type, key, ok, words) == [type |-> type, key |-> key, ok |-> ok, words |-> words]

\* An issue with an attachment, a board and a sprint, a board that could not be
\* captured and a node the bar has no card for; the second run finds less.
MCRuns ==
  << [entries |-> << MCEntry("A-1:att:7", TRUE, TRUE), MCEntry("A-1", FALSE, FALSE) >>,
      nodes |-> << MCNode("IssueType", "3", TRUE, {"alpha"}),
                   MCNode("JiraBoard", "4", FALSE, {"alpha"}),
                   MCNode("JiraBoard", "5", TRUE, {"a", "alpha"}),
                   MCNode("JiraSprint", "9", TRUE, {"1"}) >>],
     [entries |-> <<>>, nodes |-> << MCNode("JiraBoard", "5", TRUE, {"a", "alpha"}) >>] >>
=============================================================================
