-------------------------- MODULE MCIssueSelection --------------------------
(***************************************************************************)
(* IssueSelection, with lines and bodies of every kind, and backlogs with  *)
(* a dependency of each kind, one of them on an issue that is not there.   *)
(***************************************************************************)
EXTENDS IssueSelection, TLC

L(kind, refs) == [kind |-> kind, refs |-> refs, none |-> FALSE]
None == [kind |-> "heading", refs |-> {}, none |-> TRUE]

LineKinds == {L("heading", {}), L("heading", {2}), None, L("item", {2}), L("item", {3}),
              L("item", {}), L("blank", {}), L("text", {9})}

MCBodies == {
    <<L("text", {3})>>, <<None>>, <<L("heading", {1})>>, <<L("heading", {9})>>,
    <<L("heading", {}), L("blank", {}), L("item", {2}), L("item", {3})>>}

MCFallback == 1 :> {3} @@ 3 :> {2}
MCPriorities == <<"p0", "p1">>

Fresh(bodies) == [n \in IssueNumbers |->
    [state |-> "open", labels |-> {"agent:ready"}, body |-> bodies[n]]]

\* Dependencies by the map, by a list and by a heading, one of them on an issue that is not
\* there, and one circle.
SomeBacklog ==
    LET list == <<L("heading", {}), L("blank", {}), L("item", {2}), L("item", {3})>>
        heading == <<L("heading", {1})>>
    IN  /\ SelectionInit
        /\ \E bodies \in {<<<<L("text", {3})>>, <<None>>>>, <<<<L("text", {3})>>, heading>>,
                          <<list, <<None>>>>, <<<<L("heading", {9})>>, heading>>} :
               backlog = Fresh(Append(bodies, <<L("text", {3})>>))
=============================================================================
