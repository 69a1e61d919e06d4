------------------------- MODULE MCPolicyEvolution -------------------------
(***************************************************************************)
(* PolicyEvolution, with a policy that has something to lose in each of    *)
(* its parts, and a pull request for every kind of file that is looked at. *)
(***************************************************************************)
EXTENDS PolicyEvolution, TLC

Line(kind, name, major) == [kind |-> kind, name |-> name, major |-> major]
Change(path, added, removed) ==
    [path |-> path, status |-> "modified", added |-> added, removed |-> removed]

MCPolicy ==
    [requiredChecks |-> {"ci"},
     reviewers |-> [l \in Levels |-> IF l = "high" THEN 2 ELSE 1],
     steps |-> [l \in Levels |-> IF l = "high" THEN {"smoke"} ELSE {}],
     blockingSeverity |-> 3,
     rules |-> (<<"docs", "**">> :> "low" @@ <<"apps", "*">> :> "medium"),
     default |-> "low", maxChangedFiles |-> 2, maxDeletedLines |-> 2,
     migrationGlobs |-> {<<"**", "sql">>}, contractGlobs |-> {<<"contract", "**">>},
     controlPatterns |-> {<<".github", "**">>}, alwaysPolicy |-> {PolicyPath},
     policySignals |-> {"signal"}]

MCFileSets == {
    <<Change(<<"apps", "a">>, <<Line("plain", "none", 0)>>, <<>>), Change(PolicyPath, <<>>, <<>>)>>,
    <<Change(<<"contract", "a", "b">>, <<Line("export", "x", 0)>>,
             <<Line("export", "x", 0), Line("export", "y", 0)>>),
      Change(<<"apps", "package.json">>, <<Line("dependency", "d", 2)>>,
             <<Line("dependency", "d", 1)>>)>>,
    <<[Change(<<"docs", "a">>, <<Line("signal", "none", 0)>>, <<>>) EXCEPT !.status = "added"],
      [Change(<<"docs", "b">>, <<Line("plain", "none", 0)>>, <<>>) EXCEPT !.status = "renamed"]>>,
    <<Change(<<".github", "workflows", "w">>, <<Line("unsafe", "none", 0)>>, <<>>),
      Change(<<"docs", "sql">>, <<Line("destructive", "none", 0)>>, <<>>)>>,
    <<[Change(PolicyPath, <<>>, <<Line("plain", "none", 0)>>) EXCEPT !.status = "removed"]>>}
=============================================================================
