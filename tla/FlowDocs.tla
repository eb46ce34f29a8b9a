------------------------------ MODULE FlowDocs ------------------------------
(***************************************************************************)
(* Flow diagrams as the web editor handles them (FlowSpec in               *)
(* web/src/lib/flow.tsx): nodes, the node each one is nested in, edges     *)
(* between nodes.  An edge stands for all edges between its two ends in    *)
(* its direction.  Positions, sizes, labels, colours and stacking order    *)
(* are one field, look, with two values: every edit of them flips it.      *)
(***************************************************************************)
EXTENDS Naturals, FiniteSets

CONSTANTS
  Nodes,        \* node ids: the UUIDs the browser and others may draw
  NoNode        \* "no node": an absent parentId

ASSUME NoNodeAssumption == NoNode \notin Nodes

Edges == Nodes \X Nodes

Doc == [nodes  : SUBSET Nodes,
        parent : [Nodes -> Nodes \cup {NoNode}],
        locked : SUBSET Nodes,
        edges  : SUBSET Edges,
        look   : {0, 1}]

EmptyDoc == [nodes  |-> {},
             parent |-> [n \in Nodes |-> NoNode],
             locked |-> {},
             edges  |-> {},
             look   |-> 0]

Children(d, n) == {m \in d.nodes : d.parent[m] = n}

\* The queue of collectDescendants visits the least set of nodes that has the
\* children of n and the children of its members.
Closed(d, S) == \A m \in S : Children(d, m) \subseteq S
Descendants(d, n) ==
  {m \in d.nodes : \A S \in SUBSET d.nodes :
                     Closed(d, S) /\ Children(d, n) \subseteq S => m \in S}

-----------------------------------------------------------------------------
(* Edits *)

Flip(d) == [d EXCEPT !.look = 1 - @]

AddNode(d, n) == [d EXCEPT !.nodes = @ \cup {n}, !.parent[n] = NoNode]

RemoveNodes(d, X) ==
  [d EXCEPT !.nodes  = @ \ X,
            !.locked = @ \ X,
            !.parent = [n \in Nodes |->
                          IF n \in X \/ @[n] \in X THEN NoNode ELSE @[n]],
            !.edges  = {e \in @ : e[1] \notin X /\ e[2] \notin X}]

Unnest(d, X) ==
  [d EXCEPT !.parent = [n \in Nodes |-> IF n \in X THEN NoNode ELSE @[n]]]

\* Faulty: handleUp without its defensive cycle check
NestAnywhere(d, n, target) ==
  IF n \in d.nodes /\ target \in d.nodes /\ target # n
  THEN [d EXCEPT !.parent[n] = target]
  ELSE d

Nest(d, n, target) ==
  IF /\ n \in d.nodes
     /\ target \in d.nodes
     /\ target # n
     /\ target \notin Descendants(d, n)
  THEN [d EXCEPT !.parent[n] = target]
  ELSE d

\* New ids for the nodes of X: none in use, no two the same
Fresh(X, used) ==
  {id \in [X -> Nodes \ used] : \A m, n \in X : id[m] = id[n] => m = n}

OriginOf(id, n) == CHOOSE m \in DOMAIN id : id[m] = n

CopiedEdges(d, id) ==
  {<<id[e[1]], id[e[2]]>> :
     e \in {f \in d.edges : f[1] \in DOMAIN id /\ f[2] \in DOMAIN id}}

Copies(id) == {id[n] : n \in DOMAIN id}

\* The nodes whose ids are the domain of id, copied next to their originals
DuplicateNodes(d, id) ==
  LET Parent(n) == LET p == d.parent[OriginOf(id, n)]
                   IN  IF p \in DOMAIN id THEN id[p] ELSE p
  IN
  [d EXCEPT !.nodes  = @ \cup Copies(id),
            !.parent = [n \in Nodes |->
                          IF n \in Copies(id) THEN Parent(n) ELSE @[n]],
            !.locked = @ \cup {id[n] : n \in @ \cap DOMAIN id},
            !.edges  = @ \cup CopiedEdges(d, id)]

\* A diagram with the same content and no id in common
CloneFlowSpec(d, id) ==
  LET Parent(n) == LET p == d.parent[OriginOf(id, n)]
                   IN  IF p \in DOMAIN id THEN id[p] ELSE NoNode
  IN
  [nodes  |-> Copies(id),
   parent |-> [n \in Nodes |-> IF n \in Copies(id) THEN Parent(n) ELSE NoNode],
   locked |-> {id[n] : n \in d.locked \cap DOMAIN id},
   edges  |-> CopiedEdges(d, id),
   look   |-> d.look]

-----------------------------------------------------------------------------
(* What a diagram must be *)

\* Following parents from any node ends at a top-level node.
Forest(d) ==
  \A S \in SUBSET d.nodes : S # {} => \E n \in S : d.parent[n] \notin S

\* Parents and ends of edges are nodes of the diagram.
Attached(d) ==
  /\ \A n \in d.nodes : d.parent[n] \in d.nodes \cup {NoNode}
  /\ \A e \in d.edges : e[1] \in d.nodes /\ e[2] \in d.nodes

WellFormed(d) == Forest(d) /\ Attached(d)
=============================================================================
