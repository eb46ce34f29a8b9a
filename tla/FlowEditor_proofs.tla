-------------------------- MODULE FlowEditor_proofs --------------------------
(***************************************************************************)
(* The invariants of FlowEditor, for any sets of nodes and flows.  The     *)
(* inductive invariant adds to the properties what closures and answers    *)
(* hold: their diagrams are well-formed and their names are names of flows.*)
(***************************************************************************)
EXTENDS FlowEditor, TLAPS

-----------------------------------------------------------------------------
(* Diagrams: every edit takes well-formed ones to well-formed ones.  The edits that
   change parents are the ones with an argument: nesting, duplicating and cloning. *)

\* The diagram of a new draft is well-formed.
LEMMA EmptyDocWF == EmptyDoc \in Doc /\ WellFormed(EmptyDoc)
  BY NoNodeAssumption DEF EmptyDoc, Doc, Edges, WellFormed, Forest, Attached

\* Edits of looks and locks do not touch the structure.
LEMMA FlipWF ==
  ASSUME NEW d \in Doc, WellFormed(d)
  PROVE  Flip(d) \in Doc /\ WellFormed(Flip(d))
  BY DEF Flip, Doc, WellFormed, Forest, Attached

LEMMA LockedWF ==
  ASSUME NEW d \in Doc, WellFormed(d), NEW L \in SUBSET Nodes
  PROVE  /\ [d EXCEPT !.locked = L] \in Doc
         /\ WellFormed([d EXCEPT !.locked = L])
  BY DEF Doc, WellFormed, Forest, Attached

\* Edges may be replaced by any edges between nodes of the diagram.
LEMMA EdgesWF ==
  ASSUME NEW d \in Doc, WellFormed(d),
         NEW E \in SUBSET Edges, \A e \in E : e[1] \in d.nodes /\ e[2] \in d.nodes
  PROVE  /\ [d EXCEPT !.edges = E] \in Doc
         /\ WellFormed([d EXCEPT !.edges = E])
  BY DEF Doc, WellFormed, Forest, Attached

\* A new top-level node
LEMMA AddNodeWF ==
  ASSUME NEW d \in Doc, WellFormed(d), NEW n \in Nodes \ d.nodes
  PROVE  AddNode(d, n) \in Doc /\ WellFormed(AddNode(d, n))
<1> DEFINE D == AddNode(d, n)
<1>1. D \in Doc /\ D.nodes = d.nodes \cup {n} /\ D.edges = d.edges
      /\ D.parent = [d.parent EXCEPT ![n] = NoNode]
  BY DEF AddNode, Doc
<1>2. Forest(D)
  <2> SUFFICES ASSUME NEW S \in SUBSET D.nodes, S # {}
               PROVE  \E m \in S : D.parent[m] \notin S
    BY DEF Forest
  <2>1. CASE n \in S
    BY <1>1, <2>1, NoNodeAssumption DEF Doc
  <2>2. CASE n \notin S
    <3>1. S \in SUBSET d.nodes
      BY <1>1, <2>2
    <3>2. PICK m \in S : d.parent[m] \notin S
      BY <3>1 DEF WellFormed, Forest
    <3> QED
      BY <1>1, <2>2, <3>1, <3>2 DEF Doc
  <2> QED BY <2>1, <2>2
<1>3. Attached(D)
  BY <1>1 DEF WellFormed, Attached, Doc
<1> QED BY <1>1, <1>2, <1>3 DEF WellFormed

\* Removing nodes takes their edges and makes their children top-level.
LEMMA RemoveNodesWF ==
  ASSUME NEW d \in Doc, WellFormed(d), NEW X \in SUBSET Nodes
  PROVE  RemoveNodes(d, X) \in Doc /\ WellFormed(RemoveNodes(d, X))
<1> DEFINE D == RemoveNodes(d, X)
<1>1. /\ D \in Doc
      /\ D.nodes = d.nodes \ X
      /\ D.edges = {e \in d.edges : e[1] \notin X /\ e[2] \notin X}
      /\ \A m \in Nodes : D.parent[m] = IF m \in X \/ d.parent[m] \in X
                                        THEN NoNode ELSE d.parent[m]
  BY DEF RemoveNodes, Doc
<1>2. Forest(D)
  <2> SUFFICES ASSUME NEW S \in SUBSET D.nodes, S # {}
               PROVE  \E m \in S : D.parent[m] \notin S
    BY DEF Forest
  <2>1. S \in SUBSET d.nodes /\ S \subseteq Nodes
    BY <1>1 DEF Doc
  <2>2. PICK m \in S : d.parent[m] \notin S
    BY <2>1 DEF WellFormed, Forest
  <2> QED
    BY <1>1, <2>1, <2>2, NoNodeAssumption
<1>3. Attached(D)
  BY <1>1, NoNodeAssumption DEF WellFormed, Attached, Doc
<1> QED BY <1>1, <1>2, <1>3 DEF WellFormed

\* Nodes that become top-level
LEMMA UnnestWF ==
  ASSUME NEW d \in Doc, WellFormed(d), NEW X \in SUBSET Nodes
  PROVE  Unnest(d, X) \in Doc /\ WellFormed(Unnest(d, X))
<1> DEFINE D == Unnest(d, X)
<1>1. /\ D \in Doc /\ D.nodes = d.nodes /\ D.edges = d.edges
      /\ \A m \in Nodes : D.parent[m] = IF m \in X THEN NoNode ELSE d.parent[m]
  BY DEF Unnest, Doc
<1>2. Forest(D)
  <2> SUFFICES ASSUME NEW S \in SUBSET D.nodes, S # {}
               PROVE  \E m \in S : D.parent[m] \notin S
    BY DEF Forest
  <2>1. S \in SUBSET d.nodes /\ S \subseteq Nodes
    BY <1>1 DEF Doc
  <2>2. PICK m \in S : d.parent[m] \notin S
    BY <2>1 DEF WellFormed, Forest
  <2> QED
    BY <1>1, <2>1, <2>2, NoNodeAssumption
<1>3. Attached(D)
  BY <1>1 DEF WellFormed, Attached, Doc
<1> QED BY <1>1, <1>2, <1>3 DEF WellFormed

\* What collectDescendants returns has the children of the node it was called
\* for and the children of its members.
LEMMA DescendantsClosed ==
  ASSUME NEW d, NEW n
  PROVE  /\ Children(d, n) \subseteq Descendants(d, n)
         /\ Closed(d, Descendants(d, n))
  BY DEF Descendants, Closed, Children

\* Nesting a node in one that is neither the node nor one of its descendants
\* makes no cycle: a set of nodes whose parents all stay in the set would, without
\* the node and its descendants, have been such a set before.
LEMMA NestWF ==
  ASSUME NEW d \in Doc, WellFormed(d), NEW n, NEW target
  PROVE  Nest(d, n, target) \in Doc /\ WellFormed(Nest(d, n, target))
<1> DEFINE D == [d EXCEPT !.parent[n] = target]
<1> SUFFICES ASSUME n \in d.nodes, target \in d.nodes, target # n,
                    target \notin Descendants(d, n)
             PROVE  D \in Doc /\ WellFormed(D)
  BY DEF Nest
<1>1. D \in Doc /\ D.nodes = d.nodes /\ D.edges = d.edges
      /\ D.parent = [d.parent EXCEPT ![n] = target] /\ d.nodes \subseteq Nodes
  BY DEF Doc
<1>2. Forest(D)
  <2> SUFFICES ASSUME NEW S \in SUBSET d.nodes, S # {},
                      \A m \in S : D.parent[m] \in S
               PROVE  FALSE
    BY <1>1 DEF Forest
  <2>1. CASE n \notin S
    <3>1. \A m \in S : d.parent[m] \in S
      BY <1>1, <2>1 DEF Doc
    <3> QED BY <3>1 DEF WellFormed, Forest
  <2>2. CASE n \in S
    <3> DEFINE T == S \ ({n} \cup Descendants(d, n))
    <3>1. target \in T
      <4>1. D.parent[n] = target
        BY <1>1 DEF Doc
      <4> QED BY <4>1, <2>2
    <3>2. \A m \in T : d.parent[m] \in T
      <4> SUFFICES ASSUME NEW m \in T PROVE d.parent[m] \in T
        OBVIOUS
      <4>1. d.parent[m] \in S
        BY <1>1 DEF Doc
      <4>2. m \notin Children(d, n)
        BY DescendantsClosed
      <4>3. d.parent[m] # n
        BY <4>2 DEF Children
      <4>4. d.parent[m] \notin Descendants(d, n)
        <5>1. \A p \in Descendants(d, n) : Children(d, p) \subseteq Descendants(d, n)
          BY DescendantsClosed DEF Closed
        <5> QED BY <5>1 DEF Children
      <4> QED BY <4>1, <4>3, <4>4
    <3>3. T \in SUBSET d.nodes /\ T # {}
      BY <3>1
    <3> HIDE DEF T
    <3> QED BY <3>2, <3>3 DEF WellFormed, Forest
  <2> QED BY <2>1, <2>2
<1>3. Attached(D)
  BY <1>1 DEF WellFormed, Attached, Doc
<1> QED BY <1>1, <1>2, <1>3 DEF WellFormed

\* The original of a copy
LEMMA OriginIsUnique ==
  ASSUME NEW X, NEW used, NEW id \in Fresh(X, used), NEW n \in Copies(id)
  PROVE  /\ DOMAIN id = X
         /\ OriginOf(id, n) \in X
         /\ id[OriginOf(id, n)] = n
         /\ n \in Nodes \ used
         /\ \A m \in X : id[m] = n => OriginOf(id, n) = m
<1>1. PICK m \in X : id[m] = n
  BY DEF Copies, Fresh
<1>2. \E k : k \in DOMAIN id /\ id[k] = n
  BY <1>1 DEF Fresh
<1>3. OriginOf(id, n) \in DOMAIN id /\ id[OriginOf(id, n)] = n
  BY <1>2 DEF OriginOf
<1> QED BY <1>3 DEF Fresh, Copies

\* A copy of some nodes of a diagram, put next to them: a set of nodes whose
\* parents stay in the set has old members only if the diagram had such a set, and
\* if all are copies their originals are such a set.
LEMMA DuplicateWF ==
  ASSUME NEW d \in Doc, WellFormed(d), NEW X \in SUBSET d.nodes,
         NEW used, d.nodes \subseteq used, NEW id \in Fresh(X, used)
  PROVE  DuplicateNodes(d, id) \in Doc /\ WellFormed(DuplicateNodes(d, id))
<1> DEFINE D == DuplicateNodes(d, id)
           P(n) == IF d.parent[OriginOf(id, n)] \in DOMAIN id
                   THEN id[d.parent[OriginOf(id, n)]]
                   ELSE d.parent[OriginOf(id, n)]
<1>0. DOMAIN id = X /\ d.nodes \subseteq Nodes /\ Copies(id) \subseteq Nodes
      /\ Copies(id) \cap d.nodes = {} /\ \A m \in X : id[m] \in Copies(id)
  <2>1. id \in [X -> Nodes \ used]
    BY DEF Fresh
  <2> QED BY <2>1 DEF Doc, Copies
<1> DEFINE Q == [n \in Nodes |-> IF n \in Copies(id) THEN P(n) ELSE d.parent[n]]
           L == d.locked \cup {id[n] : n \in d.locked \cap DOMAIN id}
<1>a. D = [d EXCEPT !.nodes = d.nodes \cup Copies(id), !.parent = Q, !.locked = L,
                    !.edges = d.edges \cup CopiedEdges(d, id)]
  BY DEF DuplicateNodes
<1>1. /\ D.nodes = d.nodes \cup Copies(id)
      /\ D.parent = Q
      /\ D.locked = L
      /\ D.edges = d.edges \cup CopiedEdges(d, id)
      /\ D.look = d.look
  <2> HIDE DEF D, Q, L
  <2> QED BY <1>a DEF Doc
<1>2. \A n \in Copies(id) :
        /\ OriginOf(id, n) \in X
        /\ P(n) \in Copies(id) \cup d.nodes \cup {NoNode}
  BY OriginIsUnique, <1>0 DEF WellFormed, Attached
<1>3. CopiedEdges(d, id) \subseteq Copies(id) \X Copies(id)
  BY <1>0 DEF CopiedEdges
<1>4. D \in Doc
  <2>1. D.parent \in [Nodes -> Nodes \cup {NoNode}]
    BY <1>0, <1>1, <1>2 DEF Doc
  <2>2. D.locked \subseteq Nodes
    BY <1>0, <1>1 DEF Doc
  <2>3. D.edges \subseteq Edges
    BY <1>0, <1>1, <1>3 DEF Doc, Edges
  <2>4. D.nodes \subseteq Nodes /\ D.look \in {0, 1}
    BY <1>0, <1>1 DEF Doc
  <2> HIDE DEF D, Q, L
  <2> QED BY <1>a, <1>1, <2>1, <2>2, <2>3, <2>4 DEF Doc
<1>5. \A n \in Copies(id) : D.parent[n] = P(n)
  BY <1>0, <1>1
<1>6. \A n \in d.nodes : D.parent[n] = d.parent[n]
  BY <1>0, <1>1
<1>7. Forest(D)
  <2> SUFFICES ASSUME NEW S \in SUBSET (d.nodes \cup Copies(id)), S # {},
                      \A m \in S : D.parent[m] \in S
               PROVE  FALSE
    BY <1>1 DEF Forest
  <2>1. CASE S \cap d.nodes # {}
    <3>1. PICK m \in S \cap d.nodes : d.parent[m] \notin S \cap d.nodes
      BY <2>1 DEF WellFormed, Forest
    <3>2. d.parent[m] \in d.nodes
      BY <1>0, <1>6, NoNodeAssumption DEF WellFormed, Attached
    <3> QED BY <1>6, <3>1, <3>2
  <2>2. CASE S \cap d.nodes = {}
    <3> DEFINE T == {m \in X : id[m] \in S}
    <3>1. T \in SUBSET d.nodes /\ T # {}
      <4>1. PICK n \in S : n \in Copies(id)
        BY <2>2
      <4> QED BY <4>1, OriginIsUnique
    <3>2. \A m \in T : d.parent[m] \in T
      <4> SUFFICES ASSUME NEW m \in T PROVE d.parent[m] \in T
        OBVIOUS
      <4>1. id[m] \in Copies(id) /\ OriginOf(id, id[m]) = m
        BY <1>0, OriginIsUnique
      <4>2. D.parent[id[m]] \in S /\ D.parent[id[m]] = P(id[m])
        BY <1>5, <4>1
      <4>3. d.parent[m] \in d.nodes \cup {NoNode}
        BY DEF WellFormed, Attached
      <4>4. NoNode \notin S
        BY <1>0, NoNodeAssumption
      <4>5. d.parent[m] \in X /\ id[d.parent[m]] \in S
        BY <1>0, <2>2, <4>1, <4>2, <4>3, <4>4
      <4> QED BY <4>5
    <3> HIDE DEF T
    <3> QED BY <3>1, <3>2 DEF WellFormed, Forest
  <2> QED BY <2>1, <2>2
<1>8. Attached(D)
  <2>1. \A n \in D.nodes : D.parent[n] \in D.nodes \cup {NoNode}
    BY <1>1, <1>2, <1>5, <1>6 DEF WellFormed, Attached
  <2>2. \A e \in D.edges : e[1] \in D.nodes /\ e[2] \in D.nodes
    BY <1>1, <1>3 DEF WellFormed, Attached
  <2> QED BY <2>1, <2>2 DEF Attached
<1> QED BY <1>4, <1>7, <1>8 DEF WellFormed

\* A clone has only copies; the same argument.
LEMMA CloneWF ==
  ASSUME NEW d \in Doc, WellFormed(d), NEW used, d.nodes \subseteq used,
         NEW id \in Fresh(d.nodes, used)
  PROVE  CloneFlowSpec(d, id) \in Doc /\ WellFormed(CloneFlowSpec(d, id))
<1> DEFINE D == CloneFlowSpec(d, id)
           P(n) == IF d.parent[OriginOf(id, n)] \in DOMAIN id
                   THEN id[d.parent[OriginOf(id, n)]] ELSE NoNode
<1>0. DOMAIN id = d.nodes /\ Copies(id) \subseteq Nodes
      /\ \A m \in d.nodes : id[m] \in Copies(id)
  BY DEF Fresh, Doc, Copies
<1>1. /\ D.nodes = Copies(id)
      /\ D.parent = [n \in Nodes |-> IF n \in Copies(id) THEN P(n) ELSE NoNode]
      /\ D.locked = {id[n] : n \in d.locked \cap DOMAIN id}
      /\ D.edges = CopiedEdges(d, id)
      /\ D.look = d.look
      /\ D = [nodes |-> D.nodes, parent |-> D.parent, locked |-> D.locked,
              edges |-> D.edges, look |-> D.look]
  BY DEF CloneFlowSpec
<1>2. \A n \in Copies(id) : D.parent[n] = P(n) /\ P(n) \in Copies(id) \cup {NoNode}
  BY <1>0, <1>1, OriginIsUnique
<1>3. CopiedEdges(d, id) \subseteq Copies(id) \X Copies(id)
  BY <1>0 DEF CopiedEdges
<1>4. D \in Doc
  <2>1. D.parent \in [Nodes -> Nodes \cup {NoNode}]
    BY <1>0, <1>1, <1>2
  <2>2. D.locked \subseteq Nodes /\ D.edges \subseteq Edges /\ D.nodes \subseteq Nodes
    BY <1>0, <1>1, <1>3 DEF Edges
  <2>3. D.look \in {0, 1}
    BY <1>1 DEF Doc
  <2> HIDE DEF D
  <2> QED BY <1>1, <2>1, <2>2, <2>3 DEF Doc
<1>5. Forest(D)
  <2> SUFFICES ASSUME NEW S \in SUBSET Copies(id), S # {},
                      \A m \in S : D.parent[m] \in S
               PROVE  FALSE
    BY <1>1 DEF Forest
  <2> DEFINE T == {m \in d.nodes : id[m] \in S}
  <2>1. T \in SUBSET d.nodes /\ T # {}
    BY OriginIsUnique
  <2>2. \A m \in T : d.parent[m] \in T
    <3> SUFFICES ASSUME NEW m \in T PROVE d.parent[m] \in T
      OBVIOUS
    <3>1. id[m] \in Copies(id) /\ OriginOf(id, id[m]) = m
      BY <1>0, OriginIsUnique
    <3>2. P(id[m]) \in S
      BY <1>2, <3>1
    <3>3. NoNode \notin S
      BY <1>0, NoNodeAssumption
    <3> QED BY <1>0, <3>1, <3>2, <3>3
  <2> HIDE DEF T
  <2> QED BY <2>1, <2>2 DEF WellFormed, Forest
<1>6. Attached(D)
  BY <1>1, <1>2, <1>3 DEF Attached
<1> QED BY <1>4, <1>5, <1>6 DEF WellFormed

-----------------------------------------------------------------------------
(* The invariants *)

AllWellFormed(rows) == \A f \in Present(rows) : WellFormed(rows[f])

Captured ==
  /\ \A v \in 1..MaxVisits : AllWellFormed(loads[v].flows)
  /\ \A c \in dels : AllWellFormed(c.flows)
  /\ save.phase \in {"sent", "ok"} => save.name \in Flows

Deletion ==
  [phase : Phases \ {"idle"}, name : Flows, flows : Rows, nr : 1..MaxInputs]

IInv == /\ TypeOK
        /\ DiagramsAreWellFormed
        /\ SelectionIsDrawn
        /\ UnmarkedIsSaved
        /\ Captured

LEMMA InitIInv == Init => IInv
<1> SUFFICES ASSUME Init PROVE IInv
  OBVIOUS
<1> USE FlowAssumption
<1>0. NoRows \in Rows /\ Present(NoRows) = {} /\ NoFlow \in Names
      /\ NoLoad \in [phase : Phases, flows : Rows, canEdit : BOOLEAN]
      /\ [NoLoad EXCEPT !.phase = "sent"] \in [phase : Phases, flows : Rows, canEdit : BOOLEAN]
      /\ [NoLoad EXCEPT !.phase = "sent"].flows = NoRows
  BY DEF NoRows, Rows, Present, NoLoad, Phases, Names
<1>1. TypeOK
  <2>1. Idle \in [phase : Phases, old : Names, name : Names, doc : Doc]
        /\ NoDrag \in [node : Nodes \cup {NoNode}, all : SUBSET Nodes]
    BY <1>0, EmptyDocWF DEF Idle, NoDrag, Phases, Names
  <2>2. EmptyDoc \in Doc
    BY EmptyDocWF
  <2>3. stored \in Rows /\ allowed \in BOOLEAN /\ visit \in 1..MaxVisits
        /\ wanted \in [flow : Names, mode : Modes] /\ inputs \in 0..MaxInputs
    BY DEF Init, Names
  <2>4. loads \in [1..MaxVisits -> [phase : Phases, flows : Rows, canEdit : BOOLEAN]]
    BY <1>0 DEF Init
  <2>5. cached \in Rows /\ cur \in Names /\ name \in Names /\ mode \in Modes
        /\ canEdit \in BOOLEAN /\ ready \in BOOLEAN /\ dirty \in BOOLEAN
    BY <1>0 DEF Init, Modes
  <2>6. sel \in SUBSET Nodes /\ prim \in Nodes \cup {NoNode}
        /\ selEdge \in Edges \cup {Absent} /\ connect \in Nodes \cup {NoNode}
        /\ nest \in Nodes \cup {NoNode}
    BY DEF Init
  <2>7. draft = EmptyDoc /\ drag = NoDrag /\ save = Idle /\ dels = {}
    BY DEF Init
  <2> QED BY <2>1, <2>2, <2>3, <2>4, <2>5, <2>6, <2>7 DEF TypeOK
<1>2. DiagramsAreWellFormed
  BY <1>0, EmptyDocWF DEF Init, DiagramsAreWellFormed, Idle
<1>3. SelectionIsDrawn /\ UnmarkedIsSaved
  BY DEF Init, SelectionIsDrawn, UnmarkedIsSaved
<1>4. Captured
  BY <1>0 DEF Init, Captured, AllWellFormed, Idle, NoLoad
<1> QED BY <1>1, <1>2, <1>3, <1>4 DEF IInv

\* A change of the diagram keeps the invariant if the new diagram is well-formed
\* and the new selection is in it.
LEMMA EditKeeps ==
  ASSUME IInv, NEW d \in Doc, WellFormed(d), Edit(d),
         drag' = drag, nest' = nest,
         sel' \subseteq d.nodes, prim' \in d.nodes \cup {NoNode},
         connect' \in d.nodes \cup {NoNode}, selEdge' \in d.edges \cup {Absent}
  PROVE  IInv'
<1>0. d.nodes \subseteq Nodes /\ d.edges \subseteq Edges
  BY DEF Doc
<1>1. TypeOK'
  <2>1. inputs' \in 0..MaxInputs
    BY FlowAssumption DEF IInv, TypeOK, Edit, Input
  <2>2. UNCHANGED <<stored, allowed, visit, wanted, loads, ready, cached, cur, name,
                    mode, canEdit, save, dels, drag, nest>>
    BY DEF Edit, server, loading, opened
  <2>3. draft' \in Doc /\ dirty' \in BOOLEAN
    BY DEF Edit
  <2>4. sel' \in SUBSET Nodes /\ prim' \in Nodes \cup {NoNode}
        /\ connect' \in Nodes \cup {NoNode} /\ selEdge' \in Edges \cup {Absent}
    BY <1>0
  <2> QED BY <2>1, <2>2, <2>3, <2>4 DEF IInv, TypeOK
<1>2. DiagramsAreWellFormed' /\ Captured'
  BY DEF IInv, DiagramsAreWellFormed, Captured, Edit, server, loading, opened
<1>3. SelectionIsDrawn' /\ UnmarkedIsSaved'
  BY DEF SelectionIsDrawn, UnmarkedIsSaved, Edit
<1> QED BY <1>1, <1>2, <1>3 DEF IInv

\* A change of the selection only
LEMMA SelectKeeps ==
  ASSUME IInv, OnlySelection,
         sel' \subseteq draft.nodes, prim' \in draft.nodes \cup {NoNode},
         connect' \in draft.nodes \cup {NoNode}, selEdge' \in draft.edges \cup {Absent}
  PROVE  IInv'
<1>0. draft.nodes \subseteq Nodes /\ draft.edges \subseteq Edges
  BY DEF IInv, TypeOK, Doc
<1>1. TypeOK'
  <2>1. inputs' \in 0..MaxInputs
    BY FlowAssumption DEF IInv, TypeOK, OnlySelection, Input
  <2>2. UNCHANGED <<stored, allowed, visit, wanted, loads, ready, cached, cur, name,
                    draft, dirty, mode, canEdit, save, dels, drag, nest>>
    BY DEF OnlySelection, server, loading, opened
  <2>4. sel' \in SUBSET Nodes /\ prim' \in Nodes \cup {NoNode}
        /\ connect' \in Nodes \cup {NoNode} /\ selEdge' \in Edges \cup {Absent}
    BY <1>0
  <2> QED BY <2>1, <2>2, <2>4 DEF IInv, TypeOK
<1>2. DiagramsAreWellFormed' /\ Captured' /\ UnmarkedIsSaved'
  BY DEF IInv, DiagramsAreWellFormed, Captured, UnmarkedIsSaved, OnlySelection,
         server, loading, opened
<1>3. SelectionIsDrawn'
  BY DEF SelectionIsDrawn, OnlySelection
<1> QED BY <1>1, <1>2, <1>3 DEF IInv

\* What every handler that shows another diagram establishes
LEMMA ShowKeeps ==
  ASSUME IInv,
         \/ ResetDraft
         \/ \E f \in Flows : /\ cached'[f] \in Doc /\ WellFormed(cached'[f])
                             /\ LoadFlow(f, cached'[f])
  PROVE  /\ cur' \in Names /\ name' \in Names /\ draft' \in Doc /\ dirty' \in BOOLEAN
         /\ sel' \in SUBSET Nodes /\ prim' = NoNode /\ connect' = NoNode
         /\ selEdge' = Absent
         /\ WellFormed(draft')
         /\ SelectionIsDrawn'
         /\ UnmarkedIsSaved'
<1> USE FlowAssumption
<1>1. CASE ResetDraft
  BY <1>1, EmptyDocWF DEF ResetDraft, ClearSelection, SelectionIsDrawn,
     UnmarkedIsSaved, Names
<1>2. CASE \E f \in Flows : /\ cached'[f] \in Doc /\ WellFormed(cached'[f])
                            /\ LoadFlow(f, cached'[f])
  BY <1>2 DEF LoadFlow, ClearSelection, SelectionIsDrawn, UnmarkedIsSaved, Names
<1> QED BY <1>1, <1>2

-----------------------------------------------------------------------------
(* Edits of the diagram *)

\* Ids in use cover those of the diagram on the page.
LEMMA DraftIdsInUse ==
  IInv => draft \in Doc /\ WellFormed(draft) /\ draft.nodes \subseteq UsedIds
          /\ draft.nodes \subseteq Nodes /\ sel \subseteq Nodes
  BY DEF IInv, TypeOK, DiagramsAreWellFormed, UsedIds, Doc

\* Edits that leave nodes and edges, and the selection, alone
LEMMA SameNodesKeep ==
  ASSUME IInv, NEW d \in Doc, WellFormed(d), Edit(d), UNCHANGED <<drag, nest>>,
         d.nodes = draft.nodes, draft.edges \subseteq d.edges, UNCHANGED selection
  PROVE  IInv'
  BY EditKeeps DEF IInv, SelectionIsDrawn, selection

LEMMA LookEditsKeep ==
  ASSUME IInv, Edit(Flip(draft)), UNCHANGED <<drag, nest>>
  PROVE  /\ UNCHANGED selection => IInv'
         /\ \A n \in draft.nodes : Select(n) /\ UNCHANGED connect => IInv'
<1>1. Flip(draft) \in Doc /\ WellFormed(Flip(draft))
      /\ Flip(draft).nodes = draft.nodes /\ Flip(draft).edges = draft.edges
  BY DraftIdsInUse, FlipWF DEF Flip, Doc
<1>2. UNCHANGED selection => IInv'
  BY <1>1, SameNodesKeep
<1>3. ASSUME NEW n \in draft.nodes, Select(n), UNCHANGED connect
      PROVE IInv'
  BY <1>1, <1>3, EditKeeps DEF Select, IInv, SelectionIsDrawn
<1> QED BY <1>2, <1>3

LEMMA AddNodeKeeps == ASSUME IInv, NEW n \in Nodes, AddNodeHere(n) PROVE IInv'
<1> DEFINE d == AddNode(draft, n)
<1>1. d \in Doc /\ WellFormed(d)
  BY DraftIdsInUse, AddNodeWF DEF AddNodeHere
<1>2. n \in d.nodes
  BY DraftIdsInUse DEF AddNode, Doc
<1>3. Edit(d) /\ drag' = drag /\ nest' = nest
  BY DEF AddNodeHere, Press
<1>4. sel' = {n} /\ prim' = n /\ connect' = NoNode /\ selEdge' = Absent
  BY DEF AddNodeHere, Select
<1> HIDE DEF d
<1> QED BY <1>1, <1>2, <1>3, <1>4, EditKeeps

LEMMA DuplicateKeeps == ASSUME IInv, NEW id, DuplicateSelected(id) PROVE IInv'
<1> DEFINE X == (sel \cap draft.nodes) \cup UNION {Descendants(draft, n) : n \in sel}
           d == DuplicateNodes(draft, id)
<1>1. X \in SUBSET draft.nodes
  BY DEF Descendants
<1>2. id \in Fresh(X, UsedIds) /\ Edit(d) /\ drag' = drag /\ nest' = nest
      /\ sel' = Copies(id) /\ selEdge' = Absent /\ connect' = NoNode
      /\ \/ prim \in X /\ prim' = id[prim]
         \/ prim' \in Copies(id)
  BY DEF DuplicateSelected, Press
<1>3. d \in Doc /\ WellFormed(d)
  BY <1>1, <1>2, DraftIdsInUse, DuplicateWF
<1>4. d.nodes = draft.nodes \cup Copies(id)
  BY DraftIdsInUse DEF DuplicateNodes, Doc
<1>5. prim' \in Copies(id)
  BY <1>2 DEF Fresh, Copies
<1> HIDE DEF d, X
<1> QED BY <1>2, <1>3, <1>4, <1>5, EditKeeps

LEMMA RemoveNodeKeeps == ASSUME IInv, NEW n \in Nodes, RemoveNode(n) PROVE IInv'
<1> DEFINE d == RemoveNodes(draft, {n})
<1>1. d \in Doc /\ WellFormed(d)
  BY DraftIdsInUse, RemoveNodesWF
<1>2. d.nodes = draft.nodes \ {n}
  BY DraftIdsInUse DEF RemoveNodes, Doc
<1>3. Edit(d) /\ drag' = drag /\ nest' = nest
  BY DEF RemoveNode, Press
<1>4. sel' = sel \ {n} /\ prim' = NoNode /\ selEdge' = Absent
      /\ connect' = IF connect = n THEN NoNode ELSE connect
  BY DEF RemoveNode
<1>5. sel \subseteq draft.nodes /\ connect \in draft.nodes \cup {NoNode}
  BY DEF IInv, SelectionIsDrawn
<1> HIDE DEF d
<1> QED BY <1>1, <1>2, <1>3, <1>4, <1>5, EditKeeps

LEMMA RemoveSelectedKeeps == ASSUME IInv, RemoveSelected PROVE IInv'
<1> DEFINE r == RemoveNodes(draft, sel)
           d == [r EXCEPT !.edges = @ \ {selEdge}]
<1>1. r \in Doc /\ WellFormed(r)
  BY DraftIdsInUse, RemoveNodesWF
<1>2. d \in Doc /\ WellFormed(d)
  <2>1. r.edges \ {selEdge} \in SUBSET Edges
        /\ \A e \in r.edges \ {selEdge} : e[1] \in r.nodes /\ e[2] \in r.nodes
    BY <1>1 DEF WellFormed, Attached, Doc
  <2> HIDE DEF r
  <2> QED BY <1>1, <2>1, EdgesWF
<1>3. d.nodes = draft.nodes \ sel
  BY DraftIdsInUse DEF RemoveNodes, Doc
<1>4. Edit(d) /\ drag' = drag /\ nest' = nest
  BY DEF RemoveSelected
<1>5. sel' = {} /\ selEdge' = Absent
      /\ connect' = (IF connect \in sel THEN NoNode ELSE connect)
      /\ prim' = (IF sel # {} THEN NoNode ELSE prim)
  BY DEF RemoveSelected, Selected
<1>6. prim \in draft.nodes \cup {NoNode} /\ connect \in draft.nodes \cup {NoNode}
  BY DEF IInv, SelectionIsDrawn
<1> HIDE DEF d
<1> QED BY <1>2, <1>3, <1>4, <1>5, <1>6, EditKeeps

LEMMA CreateEdgeKeeps == ASSUME IInv, NEW n \in Nodes, CreateEdge(n) PROVE IInv'
<1> DEFINE e == <<connect, n>>
           E == draft.edges \cup {e}
           d == [draft EXCEPT !.edges = E]
<1>1. connect \in draft.nodes /\ n \in draft.nodes /\ sel \subseteq draft.nodes
  BY DEF CreateEdge, IInv, SelectionIsDrawn
<1>2. connect' = NoNode /\ prim' = NoNode /\ selEdge' = e /\ sel' = sel
  BY DEF CreateEdge
<1>3. CASE e \in draft.edges
  <2>1. OnlySelection
    BY <1>3 DEF CreateEdge
  <2> QED BY <1>1, <1>2, <1>3, <2>1, SelectKeeps
<1>4. CASE e \notin draft.edges
  <2>1. Edit(d) /\ drag' = drag /\ nest' = nest
    BY <1>4 DEF CreateEdge, Press
  <2>2. E \in SUBSET Edges /\ \A f \in E : f[1] \in draft.nodes /\ f[2] \in draft.nodes
    BY <1>1, DraftIdsInUse DEF WellFormed, Attached, Doc, Edges
  <2>3. d \in Doc /\ WellFormed(d)
    <3> HIDE DEF E
    <3> QED BY <2>2, DraftIdsInUse, EdgesWF
  <2>4. d.nodes = draft.nodes /\ e \in d.edges
    BY DraftIdsInUse DEF Doc
  <2> HIDE DEF d, e
  <2> QED BY <1>1, <1>2, <2>1, <2>3, <2>4, EditKeeps
<1> QED BY <1>3, <1>4

LEMMA RemoveEdgeKeeps == ASSUME IInv, RemoveEdge PROVE IInv'
<1> DEFINE E == draft.edges \ {selEdge}
           d == [draft EXCEPT !.edges = E]
<1>1. E \in SUBSET Edges /\ \A f \in E : f[1] \in draft.nodes /\ f[2] \in draft.nodes
  BY DraftIdsInUse DEF WellFormed, Attached, Doc
<1>2. d \in Doc /\ WellFormed(d) /\ d.nodes = draft.nodes
  <2> HIDE DEF E
  <2> QED BY <1>1, DraftIdsInUse, EdgesWF DEF Doc
<1>3. Edit(d) /\ drag' = drag /\ nest' = nest /\ selEdge' = Absent
      /\ UNCHANGED <<sel, prim, connect>>
  BY DEF RemoveEdge, Press
<1> HIDE DEF d
<1> QED BY <1>2, <1>3, EditKeeps DEF IInv, SelectionIsDrawn

LEMMA SeedKeeps == ASSUME IInv, NEW e, SeedEdgesFromRelationships(e) PROVE IInv'
<1> DEFINE E == draft.edges \cup {e}
           d == [draft EXCEPT !.edges = E]
<1>1. E \in SUBSET Edges /\ \A f \in E : f[1] \in draft.nodes /\ f[2] \in draft.nodes
  BY DraftIdsInUse DEF WellFormed, Attached, Doc, Edges, SeedEdgesFromRelationships
<1>2. d \in Doc /\ WellFormed(d) /\ d.nodes = draft.nodes /\ draft.edges \subseteq d.edges
  <2>1. draft.edges \subseteq E
    OBVIOUS
  <2> HIDE DEF E
  <2> QED BY <1>1, <2>1, DraftIdsInUse, EdgesWF DEF Doc
<1>3. Edit(d) /\ UNCHANGED <<drag, nest>> /\ UNCHANGED selection
  BY DEF SeedEdgesFromRelationships, Press
<1> HIDE DEF d
<1> QED BY <1>2, <1>3, SameNodesKeep

LEMMA UnnestKeeps == ASSUME IInv, UnnestSelected \/ UnnestAllChildren PROVE IInv'
<1>1. PICK X \in SUBSET Nodes : Press(Unnest(draft, X)) /\ UNCHANGED selection
  BY DraftIdsInUse DEF UnnestSelected, UnnestAllChildren, Children
<1> DEFINE d == Unnest(draft, X)
<1>2. d \in Doc /\ WellFormed(d)
  BY DraftIdsInUse, UnnestWF
<1>3. d.nodes = draft.nodes /\ draft.edges \subseteq d.edges
  BY DraftIdsInUse DEF Unnest, Doc
<1>4. Edit(d) /\ UNCHANGED <<drag, nest>>
  BY <1>1 DEF Press
<1> HIDE DEF d
<1> QED BY <1>1, <1>2, <1>3, <1>4, SameNodesKeep

LEMMA LockKeeps == ASSUME IInv, ToggleLockSelected PROVE IInv'
<1> DEFINE L == IF sel \cap draft.nodes \subseteq draft.locked
                THEN draft.locked \ sel ELSE draft.locked \cup (sel \cap draft.nodes)
           d == [draft EXCEPT !.locked = L]
<1>1. L \in SUBSET Nodes
  BY DraftIdsInUse DEF Doc
<1>2. d \in Doc /\ WellFormed(d) /\ d.nodes = draft.nodes /\ d.edges = draft.edges
  <2> HIDE DEF L
  <2> QED BY <1>1, DraftIdsInUse, LockedWF DEF Doc
<1>3. Edit(d) /\ UNCHANGED <<drag, nest>> /\ UNCHANGED selection
  BY DEF ToggleLockSelected, Press
<1> HIDE DEF d
<1> QED BY <1>2, <1>3, SameNodesKeep

LEMMA LockShownKeeps == ASSUME IInv, LockShown PROVE IInv'
<1> DEFINE L == (draft.locked \ {prim}) \cup ({prim} \ draft.locked)
           d == [draft EXCEPT !.locked = L]
<1>1. L \in SUBSET Nodes
  BY DraftIdsInUse DEF Doc, LockShown
<1>2. d \in Doc /\ WellFormed(d) /\ d.nodes = draft.nodes /\ d.edges = draft.edges
  <2> HIDE DEF L
  <2> QED BY <1>1, DraftIdsInUse, LockedWF DEF Doc
<1>3. Edit(d) /\ UNCHANGED <<drag, nest>> /\ UNCHANGED selection
  BY DEF LockShown, Press
<1> HIDE DEF d
<1> QED BY <1>2, <1>3, SameNodesKeep

\* What a step may leave alone, spelt out variable by variable
LEMMA Kept ==
  /\ UNCHANGED server    => stored' = stored /\ allowed' = allowed
  /\ UNCHANGED loading   => visit' = visit /\ wanted' = wanted /\ loads' = loads
                            /\ ready' = ready
  /\ UNCHANGED opened    => cur' = cur /\ name' = name /\ mode' = mode
                            /\ canEdit' = canEdit
  /\ UNCHANGED selection => sel' = sel /\ prim' = prim /\ selEdge' = selEdge
                            /\ connect' = connect
  BY DEF server, loading, opened, selection

LEMMA InputType == TypeOK /\ (Input \/ UNCHANGED inputs) => inputs' \in 0..MaxInputs
  BY FlowAssumption DEF TypeOK, Input

LEMMA NudgeKeeps == ASSUME IInv, NudgeSelected PROVE IInv'
<1>1. Flip(draft) \in Doc /\ WellFormed(Flip(draft))
      /\ Flip(draft).nodes = draft.nodes /\ Flip(draft).edges = draft.edges
      /\ [Flip(draft) EXCEPT !.look = 0] = [draft EXCEPT !.look = 0]
  BY DraftIdsInUse, FlipWF DEF Flip, Doc
<1>2. /\ draft' = Flip(draft) /\ dirty' \in {dirty, TRUE}
      /\ UNCHANGED <<stored, allowed, visit, wanted, loads, ready, cached, cur, name,
                     mode, canEdit, sel, prim, selEdge, connect, save, dels, drag, nest>>
      /\ Input
  BY Kept DEF NudgeSelected
<1>3. TypeOK'
  <2>1. draft' \in Doc /\ dirty' \in BOOLEAN /\ inputs' \in 0..MaxInputs
    BY <1>1, <1>2, InputType DEF IInv, TypeOK
  <2> QED BY <1>2, <2>1 DEF IInv, TypeOK
<1>4. DiagramsAreWellFormed' /\ Captured'
  BY <1>1, <1>2 DEF IInv, DiagramsAreWellFormed, Captured
<1>5. SelectionIsDrawn'
  BY <1>1, <1>2 DEF IInv, SelectionIsDrawn
<1>6. UnmarkedIsSaved'
  <2> SUFFICES ASSUME ~dirty', cur' # NoFlow
               PROVE  /\ cached'[cur'] # Absent
                      /\ [cached'[cur'] EXCEPT !.look = 0] = [draft' EXCEPT !.look = 0]
    BY DEF UnmarkedIsSaved
  <2>0. dirty' = dirty \/ dirty' = TRUE
    BY <1>2
  <2>1. ~dirty /\ cur # NoFlow /\ cached' = cached /\ cur' = cur
    <3>1. cur # NoFlow /\ cached' = cached /\ cur' = cur
      BY <1>2
    <3>2. ~dirty
      BY <2>0, Zenon
    <3> QED BY <3>1, <3>2
  <2>2. cached[cur] # Absent /\ [cached[cur] EXCEPT !.look = 0] = [draft EXCEPT !.look = 0]
    BY <2>1 DEF IInv, UnmarkedIsSaved
  <2> QED BY <1>1, <1>2, <2>1, <2>2
<1> QED BY <1>3, <1>4, <1>5, <1>6 DEF IInv

LEMMA SetNameKeeps == ASSUME IInv, NEW f \in Names, SetName(f) PROVE IInv'
<1>1. /\ dirty' = TRUE /\ name' \in Names
      /\ UNCHANGED <<stored, allowed, visit, wanted, loads, ready, cached, cur, draft,
                     mode, canEdit, sel, prim, selEdge, connect, save, dels, drag, nest>>
      /\ Input
  BY Kept, FlowAssumption DEF SetName, Names
<1>2. TypeOK'
  <2>1. inputs' \in 0..MaxInputs
    BY <1>1, InputType DEF IInv
  <2> QED BY <1>1, <2>1 DEF IInv, TypeOK
<1>3. DiagramsAreWellFormed' /\ Captured' /\ SelectionIsDrawn' /\ UnmarkedIsSaved'
  BY <1>1 DEF IInv, DiagramsAreWellFormed, Captured, SelectionIsDrawn, UnmarkedIsSaved
<1> QED BY <1>2, <1>3 DEF IInv

LEMMA ChangeKeeps == ASSUME IInv, Change PROVE IInv'
<1>1. CASE RemoveSelected
  BY <1>1, RemoveSelectedKeeps
<1>2. CASE RemoveEdge
  BY <1>2, RemoveEdgeKeeps
<1>3. CASE UnnestSelected \/ UnnestAllChildren
  BY <1>3, UnnestKeeps
<1>4. CASE ToggleLockSelected \/ LockShown
  BY <1>4, LockKeeps, LockShownKeeps
<1>5. CASE NudgeSelected
  BY <1>5, NudgeKeeps
<1>6. CASE AdjustZIndex \/ UpdateNode \/ UpdateEdge \/ AutoArrange
  BY <1>6, LookEditsKeep DEF AdjustZIndex, UpdateNode, UpdateEdge, AutoArrange, Press
<1>7. CASE \E n \in Nodes : AddNodeHere(n) \/ RemoveNode(n) \/ CreateEdge(n)
  BY <1>7, AddNodeKeeps, RemoveNodeKeeps, CreateEdgeKeeps
<1>8. CASE \E n \in Nodes : ResizeNode(n)
  BY <1>8, LookEditsKeep DEF ResizeNode, Press
<1>9. CASE \E e \in Edges : SeedEdgesFromRelationships(e)
  BY <1>9, SeedKeeps
<1>10. CASE \E f \in Names : SetName(f)
  BY <1>10, SetNameKeeps
<1>11. CASE \E X \in SUBSET draft.nodes : \E id \in Fresh(X, UsedIds) : DuplicateSelected(id)
  BY <1>11, DuplicateKeeps
<1> QED BY <1>1, <1>2, <1>3, <1>4, <1>5, <1>6, <1>7, <1>8, <1>9, <1>10, <1>11 DEF Change

LEMMA PickKeeps == ASSUME IInv, PickOnCanvas PROVE IInv'
<1>0. sel \subseteq draft.nodes /\ prim \in draft.nodes \cup {NoNode}
      /\ connect \in draft.nodes \cup {NoNode} /\ selEdge \in draft.edges \cup {Absent}
  BY DEF IInv, SelectionIsDrawn
<1>1. CASE ClickCanvas \/ PressEscape \/ ToggleConnect
  BY <1>0, <1>1, SelectKeeps DEF ClickCanvas, PressEscape, ToggleConnect, ClearSelection
<1>2. CASE \E n \in Nodes : SelectNode(n) \/ ToggleNode(n)
  BY <1>0, <1>2, SelectKeeps DEF SelectNode, ToggleNode, Select
<1>3. CASE \E e \in Edges : SelectEdge(e)
  BY <1>0, <1>3, SelectKeeps DEF SelectEdge
<1> QED BY <1>1, <1>2, <1>3 DEF PickOnCanvas

-----------------------------------------------------------------------------
(* Dragging *)

LEMMA MouseKeeps == ASSUME IInv, Mouse PROVE IInv'
<1>0. /\ UNCHANGED <<stored, allowed, visit, wanted, loads, ready, cached, cur, name,
                     mode, canEdit, sel, prim, selEdge, connect, save, dels>>
      /\ Input \/ UNCHANGED inputs
  BY Kept DEF Mouse, DragMove, MouseUp, MouseDown
<1>1. /\ draft' \in Doc /\ WellFormed(draft')
      /\ draft'.nodes = draft.nodes /\ draft'.edges = draft.edges
      /\ dirty' \in BOOLEAN
      /\ (draft' = draft /\ dirty' = dirty) \/ dirty' = TRUE
      /\ drag' \in [node : Nodes \cup {NoNode}, all : SUBSET Nodes]
      /\ nest' \in Nodes \cup {NoNode}
  <2>1. CASE DragMove
    <3>1. Flip(draft) \in Doc /\ WellFormed(Flip(draft))
          /\ Flip(draft).nodes = draft.nodes /\ Flip(draft).edges = draft.edges
      BY DraftIdsInUse, FlipWF DEF Flip, Doc
    <3>2. dirty' = TRUE /\ drag' = drag /\ draft' \in {draft, Flip(draft)}
          /\ nest' \in draft.nodes \cup {NoNode, nest}
      BY <2>1 DEF DragMove, NestTargets
    <3>3. drag \in [node : Nodes \cup {NoNode}, all : SUBSET Nodes]
          /\ nest \in Nodes \cup {NoNode}
      BY DEF IInv, TypeOK
    <3> QED BY <3>1, <3>2, <3>3, DraftIdsInUse
  <2>2. CASE MouseUp
    <3> DEFINE d == Nest(draft, drag.node, nest)
    <3>1. d \in Doc /\ WellFormed(d)
      BY DraftIdsInUse, NestWF
    <3>2. d.nodes = draft.nodes /\ d.edges = draft.edges
      BY DraftIdsInUse DEF Nest, Doc
    <3>3. nest' = NoNode /\ drag' = NoDrag
          /\ \/ draft' = draft /\ dirty' = dirty
             \/ draft' = d /\ dirty' = TRUE
      BY <2>2 DEF MouseUp
    <3>4. NoDrag \in [node : Nodes \cup {NoNode}, all : SUBSET Nodes]
      BY DEF NoDrag
    <3>5. dirty \in BOOLEAN
      BY DEF IInv, TypeOK
    <3> HIDE DEF d
    <3> QED BY <3>1, <3>2, <3>3, <3>4, <3>5, DraftIdsInUse
  <2>3. CASE \E n \in Nodes : MouseDown(n)
    <3>1. draft' = draft /\ dirty' = dirty /\ nest' = nest
          /\ drag' \in [node : Nodes \cup {NoNode}, all : SUBSET Nodes]
      BY <2>3, DraftIdsInUse DEF MouseDown
    <3>2. nest \in Nodes \cup {NoNode} /\ dirty \in BOOLEAN
      BY DEF IInv, TypeOK
    <3> QED BY <3>1, <3>2, DraftIdsInUse
  <2> QED BY <2>1, <2>2, <2>3 DEF Mouse
<1>2. TypeOK'
  <2>1. inputs' \in 0..MaxInputs
    BY <1>0, InputType DEF IInv
  <2> QED BY <1>0, <1>1, <2>1 DEF IInv, TypeOK
<1>3. DiagramsAreWellFormed' /\ Captured' /\ SelectionIsDrawn'
  BY <1>0, <1>1 DEF IInv, DiagramsAreWellFormed, Captured, SelectionIsDrawn
<1>4. UnmarkedIsSaved'
  BY <1>0, <1>1 DEF IInv, UnmarkedIsSaved
<1> QED BY <1>2, <1>3, <1>4 DEF IInv

-----------------------------------------------------------------------------
(* Loading and opening *)

\* Whatever replaces the diagram on the page and leaves rows, requests and the
\* mouse alone keeps the invariant.
LEMMA ReplaceKeeps ==
  ASSUME IInv,
         \/ ResetDraft
         \/ \E f \in Flows : /\ cached'[f] \in Doc /\ WellFormed(cached'[f])
                             /\ LoadFlow(f, cached'[f]),
         cached' \in Rows, AllWellFormed(cached'),
         mode' \in Modes, canEdit' \in BOOLEAN, ready' \in BOOLEAN,
         loads' \in [1..MaxVisits -> [phase : Phases, flows : Rows, canEdit : BOOLEAN]],
         \A v \in 1..MaxVisits : AllWellFormed(loads'[v].flows),
         save' \in {save, Idle}, dels' \subseteq dels,
         UNCHANGED <<stored, allowed, visit, wanted, drag, nest>>,
         Input \/ UNCHANGED inputs
  PROVE  IInv'
<1>1. /\ cur' \in Names /\ name' \in Names /\ draft' \in Doc /\ dirty' \in BOOLEAN
      /\ sel' \in SUBSET Nodes /\ prim' = NoNode /\ connect' = NoNode
      /\ selEdge' = Absent
      /\ WellFormed(draft') /\ SelectionIsDrawn' /\ UnmarkedIsSaved'
  BY ShowKeeps
<1>2. Idle \in [phase : Phases, old : Names, name : Names, doc : Doc]
      /\ Idle.phase = "idle" /\ Idle.doc = EmptyDoc
  BY EmptyDocWF DEF Idle, Phases, Names
<1>3. TypeOK'
  <2>1. inputs' \in 0..MaxInputs
    BY InputType DEF IInv
  <2>2. save' \in [phase : Phases, old : Names, name : Names, doc : Doc]
        /\ dels' \subseteq Deletion
    BY <1>2 DEF IInv, TypeOK, Deletion
  <2> QED BY <1>1, <2>1, <2>2 DEF IInv, TypeOK, Deletion
<1>4. DiagramsAreWellFormed'
  <2>1. WellFormed(save'.doc)
    BY <1>2, EmptyDocWF DEF IInv, DiagramsAreWellFormed
  <2> QED BY <1>1, <2>1 DEF IInv, DiagramsAreWellFormed, AllWellFormed
<1>5. Captured'
  BY <1>2 DEF IInv, Captured, AllWellFormed
<1> QED BY <1>1, <1>3, <1>4, <1>5 DEF IInv

\* Answers and requests that do not reach the page yet
LEMMA QuietKeeps ==
  ASSUME IInv,
         stored' \in Rows, AllWellFormed(stored'), allowed' \in BOOLEAN,
         visit' \in 1..MaxVisits, wanted' \in [flow : Names, mode : Modes],
         loads' \in [1..MaxVisits -> [phase : Phases, flows : Rows, canEdit : BOOLEAN]],
         \A v \in 1..MaxVisits : AllWellFormed(loads'[v].flows),
         save' \in [phase : Phases, old : Names, name : Names, doc : Doc],
         WellFormed(save'.doc), save'.phase \in {"sent", "ok"} => save'.name \in Flows,
         dels' \subseteq Deletion, \A c \in dels' : AllWellFormed(c.flows),
         UNCHANGED <<ready, cached, cur, name, mode, canEdit, draft, dirty, sel, prim,
                     selEdge, connect, drag, nest>>,
         Input \/ UNCHANGED inputs
  PROVE  IInv'
<1>1. TypeOK'
  <2>1. inputs' \in 0..MaxInputs
    BY InputType DEF IInv
  <2> QED BY <2>1 DEF IInv, TypeOK, Deletion
<1>2. DiagramsAreWellFormed'
  BY DEF IInv, DiagramsAreWellFormed, AllWellFormed
<1>3. SelectionIsDrawn' /\ UnmarkedIsSaved'
  BY DEF IInv, SelectionIsDrawn, UnmarkedIsSaved
<1>4. Captured'
  BY DEF Captured
<1> QED BY <1>1, <1>2, <1>3, <1>4 DEF IInv

\* The parts of the invariant that the two lemmas above ask for
LEMMA Parts ==
  IInv => /\ stored \in Rows /\ AllWellFormed(stored) /\ allowed \in BOOLEAN
          /\ visit \in 1..MaxVisits /\ wanted \in [flow : Names, mode : Modes]
          /\ loads \in [1..MaxVisits -> [phase : Phases, flows : Rows, canEdit : BOOLEAN]]
          /\ \A v \in 1..MaxVisits : AllWellFormed(loads[v].flows)
          /\ cached \in Rows /\ AllWellFormed(cached)
          /\ mode \in Modes /\ canEdit \in BOOLEAN /\ ready \in BOOLEAN
          /\ save \in [phase : Phases, old : Names, name : Names, doc : Doc]
          /\ WellFormed(save.doc) /\ (save.phase \in {"sent", "ok"} => save.name \in Flows)
          /\ dels \subseteq Deletion /\ \A c \in dels : AllWellFormed(c.flows)
  BY DEF IInv, TypeOK, DiagramsAreWellFormed, Captured, AllWellFormed, Deletion

\* No load and no rows at all
LEMMA NoneAtAll ==
  /\ NoRows \in Rows /\ AllWellFormed(NoRows)
  /\ NoLoad \in [phase : Phases, flows : Rows, canEdit : BOOLEAN]
  /\ NoLoad.flows = NoRows
  BY DEF NoRows, Rows, AllWellFormed, Present, NoLoad, Phases

\* A row that is present
LEMMA PresentRow ==
  ASSUME NEW rows \in Rows, NEW f \in Present(rows), AllWellFormed(rows)
  PROVE  f \in Flows /\ rows[f] \in Doc /\ WellFormed(rows[f])
  BY DEF Rows, Present, AllWellFormed

LEMMA LoadKeeps == ASSUME IInv, Load PROVE IInv'
<1> USE Parts, NoneAtAll
<1> DEFINE LoadType == [phase : Phases, flows : Rows, canEdit : BOOLEAN]
<1>1. ASSUME NEW f \in Names, NEW m \in Modes, Navigate(f, m) PROVE IInv'
  <2>1. visit' \in 1..MaxVisits /\ wanted' \in [flow : Names, mode : Modes]
    BY <1>1, FlowAssumption DEF Navigate
  <2>2. loads' = [loads EXCEPT ![visit + 1] = [NoLoad EXCEPT !.phase = "sent"]]
        /\ [NoLoad EXCEPT !.phase = "sent"] \in LoadType
        /\ [NoLoad EXCEPT !.phase = "sent"].flows = NoRows
    BY <1>1 DEF Navigate, NoLoad, Phases
  <2>3. loads' \in [1..MaxVisits -> LoadType]
        /\ \A v \in 1..MaxVisits : AllWellFormed(loads'[v].flows)
    <3> DEFINE l == [NoLoad EXCEPT !.phase = "sent"]
    <3> HIDE DEF l
    <3> QED BY <2>2
  <2>4. UNCHANGED <<stored, allowed, save, dels, ready, cached, cur, name, mode, canEdit,
                    draft, dirty, sel, prim, selEdge, connect, drag, nest>> /\ Input
    BY <1>1, Kept DEF Navigate
  <2> QED BY <2>1, <2>3, <2>4, QuietKeeps
<1>2. ASSUME NEW v \in 1..MaxVisits, AnswerLoad(v) PROVE IInv'
  <2>1. PICK answer \in [phase : {"ok"}, flows : {stored, NoRows}, canEdit : {allowed, TRUE}]
                          \cup {[NoLoad EXCEPT !.phase = "failed"]} :
          loads' = [loads EXCEPT ![v] = answer]
    BY <1>2 DEF AnswerLoad
  <2>2. answer \in LoadType /\ AllWellFormed(answer.flows)
    <3>1. CASE answer \in [phase : {"ok"}, flows : {stored, NoRows}, canEdit : {allowed, TRUE}]
      BY <3>1 DEF Phases
    <3>2. CASE answer = [NoLoad EXCEPT !.phase = "failed"]
      BY <3>2 DEF Phases, NoLoad
    <3> QED BY <3>1, <3>2
  <2>3. loads' \in [1..MaxVisits -> LoadType]
        /\ \A w \in 1..MaxVisits : AllWellFormed(loads'[w].flows)
    BY <2>1, <2>2
  <2>4. UNCHANGED <<stored, allowed, visit, wanted, save, dels, ready, cached, cur, name,
                    mode, canEdit, draft, dirty, sel, prim, selEdge, connect, drag, nest,
                    inputs>>
    BY <1>2, Kept DEF AnswerLoad
  <2> QED BY <2>3, <2>4, QuietKeeps
<1>3. ASSUME NEW v \in 1..MaxVisits, ReceiveLoad(v) PROVE IInv'
  <2>1. loads' \in [1..MaxVisits -> LoadType]
        /\ \A w \in 1..MaxVisits : AllWellFormed(loads'[w].flows)
    BY <1>3 DEF ReceiveLoad, LoadDone
  <2>2. UNCHANGED <<stored, allowed, visit, wanted, save, dels, drag, nest, inputs>>
    BY <1>3, Kept DEF ReceiveLoad
  <2>3. CASE ShowLoaded(v)
    <3>1. ready' = TRUE /\ cached' = loads[v].flows /\ canEdit' = loads[v].canEdit
          /\ mode' \in {wanted.mode, "view"}
      BY <2>3 DEF ShowLoaded
    <3>2. loads[v] \in LoadType /\ AllWellFormed(loads[v].flows)
      OBVIOUS
    <3>3. cached' \in Rows /\ AllWellFormed(cached') /\ mode' \in Modes
          /\ canEdit' \in BOOLEAN /\ ready' \in BOOLEAN
      BY <3>1, <3>2 DEF Modes
    <3>4. \/ ResetDraft
          \/ \E f \in Flows : /\ cached'[f] \in Doc /\ WellFormed(cached'[f])
                              /\ LoadFlow(f, cached'[f])
      BY <2>3, <3>1, <3>3, PresentRow DEF ShowLoaded
    <3> QED BY <2>1, <2>2, <3>3, <3>4, ReplaceKeeps
  <2>4. CASE UNCHANGED <<ready, cached, opened, draft, dirty, selection>>
    <3>1. UNCHANGED <<ready, cached, cur, name, mode, canEdit, draft, dirty, sel, prim,
                      selEdge, connect>>
      BY <2>4, Kept
    <3> QED BY <2>1, <2>2, <3>1, QuietKeeps
  <2> QED BY <1>3, <2>3, <2>4 DEF ReceiveLoad
<1> QED BY <1>1, <1>2, <1>3 DEF Load

LEMMA OpenKeeps == ASSUME IInv, Open PROVE IInv'
<1> USE Parts
<1>1. CASE StartNewFlow
  <2>1. ResetDraft /\ mode' \in Modes
        /\ UNCHANGED <<stored, allowed, visit, wanted, loads, ready, cached, canEdit,
                       drag, nest, save, dels>> /\ Input
    BY <1>1, Kept DEF StartNewFlow, Modes
  <2> QED BY <2>1, ReplaceKeeps
<1>2. CASE \E f \in Flows : SelectFlow(f)
  <2>1. PICK f \in Flows : SelectFlow(f)
    BY <1>2
  <2>2. LoadFlow(f, cached'[f]) /\ f \in Present(cached) /\ mode' \in Modes
        /\ UNCHANGED <<stored, allowed, visit, wanted, loads, ready, cached, canEdit,
                       drag, nest, save, dels>> /\ Input
    BY <2>1, Kept DEF SelectFlow, Modes
  <2>3. cached'[f] \in Doc /\ WellFormed(cached'[f])
    BY <2>2, PresentRow
  <2> QED BY <2>2, <2>3, ReplaceKeeps
<1>3. CASE OpenEditor \/ OpenOverview
  <2>1. /\ mode' \in Modes /\ connect' \in {connect, NoNode}
        /\ UNCHANGED <<stored, allowed, visit, wanted, loads, ready, cached, cur, name,
                       canEdit, draft, dirty, sel, prim, selEdge, drag, nest, save, dels>>
        /\ Input
    BY <1>3, Kept DEF OpenEditor, OpenOverview, Modes, selection
  <2>2. TypeOK'
    <3>1. inputs' \in 0..MaxInputs
      BY <2>1, InputType DEF IInv
    <3> QED BY <2>1, <3>1 DEF IInv, TypeOK
  <2>3. DiagramsAreWellFormed' /\ SelectionIsDrawn' /\ UnmarkedIsSaved' /\ Captured'
    BY <2>1 DEF IInv, DiagramsAreWellFormed, SelectionIsDrawn, UnmarkedIsSaved, Captured
  <2> QED BY <2>2, <2>3 DEF IInv
<1>4. CASE \E f \in Flows, id \in Fresh(draft.nodes, UsedIds) : DuplicateCurrentFlow(f, id)
  <2>1. PICK f \in Flows, id \in Fresh(draft.nodes, UsedIds) : DuplicateCurrentFlow(f, id)
    BY <1>4
  <2> DEFINE d == CloneFlowSpec(draft, id)
  <2>2. d \in Doc /\ WellFormed(d)
    BY DraftIdsInUse, CloneWF
  <2>3. /\ draft' = d /\ dirty' = TRUE /\ cur' = NoFlow /\ name' = f /\ mode' \in Modes
        /\ ClearSelection
        /\ UNCHANGED <<stored, allowed, visit, wanted, loads, ready, cached, canEdit,
                       drag, nest, save, dels>> /\ Input
    BY <2>1, Kept DEF DuplicateCurrentFlow, Modes
  <2> HIDE DEF d
  <2>4. TypeOK'
    <3>1. inputs' \in 0..MaxInputs
      BY <2>3, InputType DEF IInv
    <3>2. sel' = {} /\ prim' = NoNode /\ selEdge' = Absent /\ connect' = NoNode
      BY <2>3 DEF ClearSelection
    <3> QED BY <2>2, <2>3, <3>1, <3>2 DEF IInv, TypeOK, Names
  <2>5. DiagramsAreWellFormed' /\ Captured' /\ UnmarkedIsSaved'
    BY <2>2, <2>3 DEF IInv, DiagramsAreWellFormed, UnmarkedIsSaved, Captured
  <2>6. SelectionIsDrawn'
    BY <2>3 DEF SelectionIsDrawn, ClearSelection
  <2> QED BY <2>4, <2>5, <2>6 DEF IInv
<1> QED BY <1>1, <1>2, <1>3, <1>4 DEF Open

-----------------------------------------------------------------------------
(* Saving and deleting *)

LEMMA ServeSaveKeeps == ASSUME IInv, ServeSave PROVE IInv'
<1> USE Parts
<1>1. /\ UNCHANGED <<allowed, visit, wanted, loads, ready, cached, cur, name, mode,
                     canEdit, draft, dirty, sel, prim, selEdge, connect, drag, nest,
                     dels, inputs>>
      /\ save.phase = "sent"
      /\ \E phase \in {"ok", "failed"} : save' = [save EXCEPT !.phase = phase]
  BY Kept DEF ServeSave
<1>2. save' \in [phase : Phases, old : Names, name : Names, doc : Doc]
      /\ WellFormed(save'.doc) /\ save'.name = save.name /\ save.name \in Flows
  BY <1>1 DEF Phases
<1>3. \/ stored' = stored
      \/ stored' = [stored EXCEPT ![save.name] = save.doc]
      \/ stored' = [stored EXCEPT ![save.old] = Absent, ![save.name] = save.doc]
  BY DEF ServeSave, CreateFlowEntity, UpdateFlowEntity
<1>4. stored' \in Rows
  BY <1>2, <1>3 DEF Rows
<1>5. AllWellFormed(stored')
  <2>1. \A f \in Flows : stored'[f] \in {stored[f], Absent, save.doc}
    BY <1>2, <1>3 DEF Rows
  <2> QED BY <2>1 DEF AllWellFormed, Present
<1> QED BY <1>1, <1>2, <1>4, <1>5, QuietKeeps

LEMMA SaveKeeps == ASSUME IInv, Save PROVE IInv'
<1> USE Parts
<1>1. CASE StartSave
  <2>1. /\ UNCHANGED <<stored, allowed, visit, wanted, loads, ready, cached, cur, name,
                       mode, canEdit, draft, dirty, sel, prim, selEdge, connect, drag,
                       nest, dels>> /\ Input
        /\ save' = [phase |-> "sent", old |-> cur, name |-> Sanitized[name], doc |-> draft]
        /\ name # NoFlow
    BY <1>1, Kept DEF StartSave
  <2>2. name \in Flows /\ cur \in Names /\ draft \in Doc /\ WellFormed(draft)
    BY <2>1 DEF IInv, TypeOK, Names, DiagramsAreWellFormed
  <2>3. save' \in [phase : Phases, old : Names, name : Names, doc : Doc]
        /\ WellFormed(save'.doc) /\ save'.name \in Flows
    BY <2>1, <2>2, FlowAssumption DEF Phases, Names
  <2> QED BY <2>1, <2>3, QuietKeeps
<1>2. CASE ServeSave
  BY <1>2, ServeSaveKeeps
<1>3. CASE SaveSucceeds
  <2>1. /\ save.phase = "ok" /\ save' = Idle
        /\ LoadFlow(save.name, save.doc)
        /\ UNCHANGED <<stored, allowed, visit, wanted, loads, ready, mode, canEdit, drag,
                       nest, dels, inputs>>
        /\ cached' = [f \in Flows |-> CASE f = save.name -> save.doc
                                  [] f = save.old /\ f # save.name -> Absent
                                  [] OTHER -> cached[f]]
    BY <1>3, Kept DEF SaveSucceeds
  <2>2. save.name \in Flows /\ save.doc \in Doc /\ WellFormed(save.doc)
    BY <2>1
  <2>3. \A f \in Flows : cached'[f] \in {save.doc, Absent, cached[f]}
    BY <2>1
  <2>4. cached'[save.name] = save.doc
    BY <2>1, <2>2
  <2>5. cached' \in Rows
    <3>1. cached' = [f \in Flows |-> cached'[f]]
      BY <2>1
    <3> QED BY <2>2, <2>3, <3>1 DEF Rows
  <2>6. AllWellFormed(cached')
    BY <2>2, <2>3 DEF AllWellFormed, Present
  <2> QED BY <2>1, <2>2, <2>4, <2>5, <2>6, ReplaceKeeps
<1>4. CASE SaveFails
  <2>1. /\ UNCHANGED <<stored, allowed, visit, wanted, loads, ready, cached, cur, name,
                       mode, canEdit, draft, dirty, sel, prim, selEdge, connect, drag,
                       nest, dels, inputs>>
        /\ save' = Idle
    BY <1>4, Kept DEF SaveFails
  <2>2. Idle \in [phase : Phases, old : Names, name : Names, doc : Doc]
        /\ WellFormed(Idle.doc) /\ Idle.phase = "idle"
    BY EmptyDocWF DEF Idle, Phases, Names
  <2> QED BY <2>1, <2>2, QuietKeeps
<1> QED BY <1>1, <1>2, <1>3, <1>4 DEF Save

LEMMA DeleteKeeps == ASSUME IInv, Delete PROVE IInv'
<1> USE Parts, NoneAtAll
<1>1. CASE DeleteFlow
  <2>1. UNCHANGED <<stored, allowed, visit, wanted, loads, ready, cached, mode, canEdit,
                    drag, nest, save>> /\ Input
    BY <1>1, Kept DEF DeleteFlow
  <2>2. CASE cur = NoFlow
    <3>1. ResetDraft /\ dels' = dels
      BY <1>1, <2>2 DEF DeleteFlow
    <3> QED BY <2>1, <3>1, ReplaceKeeps
  <2>3. CASE cur # NoFlow
    <3>1. UNCHANGED <<cur, name, draft, dirty, sel, prim, selEdge, connect>>
      BY <1>1, <2>3, Kept DEF DeleteFlow
    <3>2. PICK nr \in 1..MaxInputs :
            dels' = dels \cup {[phase |-> "sent", name |-> cur, flows |-> cached, nr |-> nr]}
      BY <1>1, <2>3 DEF DeleteFlow
    <3>3. cur \in Flows
      BY <2>3 DEF IInv, TypeOK, Names
    <3>4. PICK d : d = [phase |-> "sent", name |-> cur, flows |-> cached, nr |-> nr]
      OBVIOUS
    <3>5. d \in Deletion /\ AllWellFormed(d.flows)
      BY <3>3, <3>4 DEF Deletion, Phases
    <3>6. dels' \subseteq Deletion /\ \A c \in dels' : AllWellFormed(c.flows)
      BY <3>2, <3>4, <3>5
    <3> QED BY <2>1, <3>1, <3>6, QuietKeeps
  <2> QED BY <2>2, <2>3
<1>2. ASSUME NEW c \in dels, ServeDelete(c) PROVE IInv'
  <2>0. c \in Deletion /\ AllWellFormed(c.flows) /\ c.name \in Flows
    BY DEF Deletion
  <2>1. /\ UNCHANGED <<allowed, visit, wanted, loads, ready, cached, cur, name, mode,
                       canEdit, draft, dirty, sel, prim, selEdge, connect, drag, nest,
                       save, inputs>>
        /\ stored' = stored \/ stored' = [stored EXCEPT ![c.name] = Absent]
    BY <1>2, Kept DEF ServeDelete
  <2>2. PICK phase \in {"ok", "failed"} :
          dels' = (dels \ {c}) \cup {[c EXCEPT !.phase = phase]}
    BY <1>2 DEF ServeDelete
  <2>3. PICK d : d = [c EXCEPT !.phase = phase]
    OBVIOUS
  <2>4. d \in Deletion /\ d.flows = c.flows
    BY <2>0, <2>3 DEF Deletion, Phases
  <2>5. dels' \subseteq Deletion /\ \A b \in dels' : AllWellFormed(b.flows)
    BY <2>0, <2>2, <2>3, <2>4
  <2>6. stored' \in Rows
    BY <2>1 DEF Rows
  <2>7. AllWellFormed(stored')
    <3>1. \A f \in Flows : stored'[f] \in {stored[f], Absent}
      BY <2>1 DEF Rows
    <3> QED BY <3>1 DEF AllWellFormed, Present
  <2> QED BY <2>1, <2>5, <2>6, <2>7, QuietKeeps
<1>3. ASSUME NEW c \in dels, DeleteSucceeds(c) PROVE IInv'
  <2> DEFINE remaining == [c.flows EXCEPT ![c.name] = Absent]
  <2>0. c.flows \in Rows /\ AllWellFormed(c.flows)
    BY DEF Deletion
  <2>1. /\ dels' = dels \ {c} /\ cached' = remaining
        /\ UNCHANGED <<stored, allowed, visit, wanted, loads, ready, mode, canEdit, drag,
                       nest, save, inputs>>
        /\ \/ ResetDraft
           \/ \E f \in Present(remaining) : LoadFlow(f, remaining[f])
    BY <1>3, Kept DEF DeleteSucceeds
  <2>2. remaining \in Rows
    BY <2>0 DEF Rows
  <2>3. AllWellFormed(remaining)
    <3>1. \A f \in Flows : remaining[f] \in {c.flows[f], Absent}
      BY <2>0 DEF Rows
    <3> QED BY <2>0, <3>1 DEF AllWellFormed, Present
  <2> HIDE DEF remaining
  <2>4. \/ ResetDraft
        \/ \E f \in Flows : /\ cached'[f] \in Doc /\ WellFormed(cached'[f])
                            /\ LoadFlow(f, cached'[f])
    BY <2>1, <2>2, <2>3, PresentRow
  <2> QED BY <2>1, <2>2, <2>3, <2>4, ReplaceKeeps
<1>4. ASSUME NEW c \in dels, DeleteFails(c) PROVE IInv'
  <2>1. /\ UNCHANGED <<stored, allowed, visit, wanted, loads, ready, cached, cur, name,
                       mode, canEdit, draft, dirty, sel, prim, selEdge, connect, drag,
                       nest, save, inputs>>
        /\ dels' \subseteq dels
    BY <1>4, Kept DEF DeleteFails
  <2> QED BY <2>1, QuietKeeps
<1> QED BY <1>1, <1>2, <1>3, <1>4 DEF Delete

LEMMA OthersKeep == ASSUME IInv, Others PROVE IInv'
<1> USE Parts
<1>1. /\ UNCHANGED <<visit, wanted, loads, ready, cached, cur, name, mode, canEdit, draft,
                     dirty, sel, prim, selEdge, connect, drag, nest, save, dels>>
      /\ Input
  BY Kept DEF Others, ChangeRole, OthersEdit, OthersDelete
<1>2. allowed' \in BOOLEAN
  BY DEF Others, ChangeRole, OthersEdit, OthersDelete
<1>3. stored' \in Rows /\ AllWellFormed(stored')
  <2>1. CASE ChangeRole
    BY <2>1 DEF ChangeRole
  <2>2. CASE \E f \in Flows : OthersEdit(f) \/ OthersDelete(f)
    <3>1. PICK f \in Flows : OthersEdit(f) \/ OthersDelete(f)
      BY <2>2
    <3>2. f \in Present(stored)
      BY <3>1 DEF OthersEdit, OthersDelete, Present
    <3>3. Flip(stored[f]) \in Doc /\ WellFormed(Flip(stored[f]))
      BY <3>2, PresentRow, FlipWF
    <3>4. \E r \in {Absent, Flip(stored[f])} : stored' = [stored EXCEPT ![f] = r]
      BY <3>1 DEF OthersEdit, OthersDelete
    <3>5. stored' \in Rows
      BY <3>3, <3>4 DEF Rows
    <3>6. \A g \in Flows : stored'[g] \in {stored[g], Absent, Flip(stored[f])}
      BY <3>4 DEF Rows
    <3> QED BY <3>3, <3>5, <3>6 DEF AllWellFormed, Present
  <2> QED BY <2>1, <2>2 DEF Others
<1> QED BY <1>1, <1>2, <1>3, QuietKeeps

LEMMA NextKeeps == IInv /\ [Next]_vars => IInv'
<1> SUFFICES ASSUME IInv, [Next]_vars PROVE IInv'
  OBVIOUS
<1>1. CASE UNCHANGED vars
  <2>1. UNCHANGED <<stored, allowed, visit, wanted, loads, ready, cached, cur, name, mode,
                    canEdit, draft, dirty, sel, prim, selEdge, connect, drag, nest, save,
                    dels, inputs>>
    BY <1>1, Kept DEF vars
  <2> QED BY <2>1, Parts, QuietKeeps
<1>2. CASE Next
  BY <1>2, LoadKeeps, OpenKeeps, PickKeeps, ChangeKeeps, MouseKeeps, SaveKeeps,
     DeleteKeeps, OthersKeep DEF Next
<1> QED BY <1>1, <1>2

\* The conjunction of the properties and of what closures hold is inductive.
THEOREM FlowInvariant == Spec => []IInv
  BY InitIInv, NextKeeps, PTL DEF Spec

-----------------------------------------------------------------------------
(* The properties *)

\* Every variable keeps its type.
THEOREM FlowTypeCorrect == Spec => []TypeOK
  BY FlowInvariant, PTL DEF IInv

\* No nesting cycle and no dangling reference in any diagram, whatever answers
\* arrive during a drag.
THEOREM DiagramsStayWellFormed == Spec => []DiagramsAreWellFormed
  BY FlowInvariant, PTL DEF IInv

\* Selection and connection stay in the diagram.
THEOREM SelectionStaysDrawn == Spec => []SelectionIsDrawn
  BY FlowInvariant, PTL DEF IInv

\* Without the mark the diagram is the one in the list.
THEOREM UnmarkedStaysSaved == Spec => []UnmarkedIsSaved
  BY FlowInvariant, PTL DEF IInv

LEMMA LoadsKept ==
  Open \/ PickOnCanvas \/ Change \/ Mouse \/ Save \/ Delete \/ Others => loads' = loads
<1>1. Open => loads' = loads
  BY Kept DEF Open, StartNewFlow, OpenEditor, OpenOverview, SelectFlow, DuplicateCurrentFlow
<1>2. PickOnCanvas => loads' = loads
  BY Kept DEF PickOnCanvas, ClickCanvas, PressEscape, ToggleConnect, SelectNode,
     ToggleNode, SelectEdge, OnlySelection
<1>3. Change => loads' = loads
  <2>1. \A d : Edit(d) => loads' = loads
    BY Kept DEF Edit
  <2> QED BY <2>1, Kept DEF Change, RemoveSelected, RemoveEdge, UnnestSelected,
       UnnestAllChildren, ToggleLockSelected, LockShown, NudgeSelected, AdjustZIndex, UpdateNode,
       UpdateEdge, AutoArrange, AddNodeHere, RemoveNode, CreateEdge, ResizeNode,
       SeedEdgesFromRelationships, SetName, DuplicateSelected, Press, OnlySelection
<1>4. Mouse => loads' = loads
  BY Kept DEF Mouse, DragMove, MouseUp, MouseDown
<1>5. Save => loads' = loads
  BY Kept DEF Save, StartSave, ServeSave, SaveSucceeds, SaveFails
<1>6. Delete => loads' = loads
  BY Kept DEF Delete, DeleteFlow, ServeDelete, DeleteSucceeds, DeleteFails
<1>7. Others => loads' = loads
  BY Kept DEF Others, ChangeRole, OthersEdit, OthersDelete
<1> QED BY <1>1, <1>2, <1>3, <1>4, <1>5, <1>6, <1>7

\* Only the load of the last change of the search parameters changes the page.
THEOREM LastVisitShows == Spec => OnlyTheLastVisitShows
<1> DEFINE Ignored(v) == loads[v].phase = "ok" /\ loads'[v] = NoLoad /\ v # visit
                           => UNCHANGED <<cached, opened, draft, dirty, ready>>
<1>1. IInv /\ [Next]_vars => [\A v \in 1..MaxVisits : Ignored(v)]_vars
  <2> SUFFICES ASSUME IInv, Next, NEW v \in 1..MaxVisits,
                      loads[v].phase = "ok", loads'[v] = NoLoad, v # visit
               PROVE  UNCHANGED <<cached, opened, draft, dirty, ready>>
    OBVIOUS
  <2>0. NoLoad.phase = "idle"
        /\ loads \in [1..MaxVisits -> [phase : Phases, flows : Rows, canEdit : BOOLEAN]]
        /\ visit \in 1..MaxVisits
    BY DEF NoLoad, IInv, TypeOK
  <2>1. CASE loads' = loads
    BY <2>0, <2>1
  <2>2. CASE \E f \in Names, m \in Modes : Navigate(f, m)
    <3>1. UNCHANGED <<cached, opened, draft, dirty, ready>>
      BY <2>2 DEF Navigate
    <3> QED BY <3>1
  <2>3. CASE \E w \in 1..MaxVisits : AnswerLoad(w)
    BY <2>3 DEF AnswerLoad
  <2>4. CASE \E w \in 1..MaxVisits : ReceiveLoad(w)
    <3>1. PICK w \in 1..MaxVisits : ReceiveLoad(w)
      BY <2>4
    <3>2. loads' = [loads EXCEPT ![w] = NoLoad]
      BY <3>1 DEF ReceiveLoad, LoadDone
    <3>3. w = v
      BY <2>0, <3>2
    <3> QED BY <3>1, <3>3 DEF ReceiveLoad
  <2> QED BY <2>1, <2>2, <2>3, <2>4, LoadsKept DEF Next, Load
<1> QED BY <1>1, FlowInvariant, PTL DEF Spec, OnlyTheLastVisitShows
=============================================================================
