-------------------------- MODULE MCContextCapture ---------------------------
(* A small site for ContextCapture.                                         *)
EXTENDS ContextCapture, TLC

\* Two projects and a service desk, of which the first project has three boards and
\* shares one with the second; a custom and a system field; no field configuration.
\* A board that is created meanwhile has a sprint.
MCContent ==
  <<"project", Site>> :> <<"P1", "D1", "P2">>
  @@ <<"issue_type", Site>> :> <<"t1">>
  @@ <<"field", Site>> :> <<"summary", "cf">>
  @@ <<"context", "cf">> :> <<"c1">>
  @@ <<"workflow", Site>> :> <<"w1", "w2">>
  @@ <<"workflow_scheme", Site>> :> <<"ws">>
  @@ <<"board", "P1">> :> <<"b1", "b2", "b3">>
  @@ <<"board", "P2">> :> <<"b2">>
  @@ <<"board", "D1">> :> <<"b4">>
  @@ <<"sprint", "b1">> :> <<"s1">>
  @@ <<"sprint", "b2">> :> <<"s3">>
  @@ <<"sprint", "new">> :> <<"s4">>

\* The server serves what it is asked for, or one item per page: of the projects, and of
\* lists of sprints, which are no longer than that; or of the boards.
MCCaps == {<<>>, "project" :> 1 @@ "sprint" :> 1, "board" :> 1}
=============================================================================
