---------------------------- MODULE MCFlowEditor ----------------------------
(* Small instances of FlowEditor: a row with a node nested in another and an *)
(* edge between them, or none, and a row with a single node.               *)
EXTENDS FlowEditor, TLC

CONSTANTS n1, n2, n3, f1, f2

Nested == [EmptyDoc EXCEPT !.nodes = {n1, n2}, !.parent[n1] = n2,
                           !.edges = {<<n1, n2>>}]
Single == [EmptyDoc EXCEPT !.nodes = {n3}]

MCSaved     == {(f1 :> Nested @@ f2 :> Single), (f1 :> Absent @@ f2 :> Single)}
MCSanitized == [f \in Flows |-> f]
=============================================================================
