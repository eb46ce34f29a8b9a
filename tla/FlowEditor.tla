----------------------------- MODULE FlowEditor -----------------------------
(***************************************************************************)
(* The Flow page (web/src/pages/Flow.tsx) in one browser tab, the flow     *)
(* entities of the server (internal/api/handlers/flow.go), and the         *)
(* requests between them.  Every answer may arrive late: after the user    *)
(* has edited, dragged, navigated or opened another diagram.  Other users  *)
(* change and delete flows, and may withdraw this user's right to edit.    *)
(***************************************************************************)
EXTENDS FlowDocs

CONSTANTS
  Flows,        \* names of flow entities
  Sanitized,    \* sanitizeFlowName, on them
  Absent,       \* "no such flow", "no edge"
  NoFlow,       \* "no name": a new diagram, an empty name field
  Saved,        \* rows the table may hold at first, all written by this editor
  MaxInputs,    \* bound: what users do, this one and others
  MaxVisits     \* bound: loads, one for each change of the search parameters

Names   == Flows \cup {NoFlow}
Modes   == {"view", "edit"}
Rows    == [Flows -> Doc \cup {Absent}]
NoRows  == [f \in Flows |-> Absent]
Present(rows) == {f \in Flows : rows[f] # Absent}

ASSUME FlowAssumption ==
  /\ Sanitized \in [Flows -> Flows]
  /\ NoFlow \notin Flows
  /\ Absent \notin Doc \cup Edges
  /\ Saved \subseteq Rows
  /\ \A rows \in Saved : \A f \in Present(rows) : WellFormed(rows[f])
  /\ MaxInputs \in Nat
  /\ MaxVisits \in Nat \ {0}

VARIABLES
  \* The server
  stored,       \* the Flow rows of the entities table
  allowed,      \* does this user have the plugin's editor role?
  \* Loading: one load per change of the search parameters
  visit,        \* how many there have been; the last one is active
  wanted,       \* requestedFlow and requestedMode
  loads,        \* where each load is
  ready,        \* has a load found the plugin enabled?
  \* The page
  cached,       \* flows
  cur,          \* currentFlowName
  name,         \* flowName
  draft,        \* flowSpec
  dirty,
  mode,
  canEdit,      \* flowSettings.canEdit
  sel,          \* selectedNodeIds
  prim,         \* selectedNodeId
  selEdge,      \* selectedEdgeId
  connect,      \* connectFromId
  drag,         \* dragging: the node under the mouse and all that move
  nest,         \* nestTargetRef
  save,         \* the save under way and what its closure captured
  dels,         \* the deletions under way and what their closures captured
  inputs        \* how often users have acted

selection == <<sel, prim, selEdge, connect>>
opened    == <<cur, name, mode, canEdit>>
server    == <<stored, allowed>>
loading   == <<visit, wanted, loads, ready>>
vars == <<server, loading, cached, opened, draft, dirty, selection, drag, nest,
          save, dels, inputs>>

Phases == {"idle", "sent", "ok", "failed"}
Idle   == [phase |-> "idle", old |-> NoFlow, name |-> NoFlow, doc |-> EmptyDoc]
NoLoad == [phase |-> "idle", flows |-> NoRows, canEdit |-> FALSE]
NoDrag == [node |-> NoNode, all |-> {}]

\* The type of every variable
TypeOK ==
  /\ stored \in Rows
  /\ allowed \in BOOLEAN
  /\ visit \in 1..MaxVisits
  /\ wanted \in [flow : Names, mode : Modes]
  /\ loads \in [1..MaxVisits -> [phase : Phases, flows : Rows, canEdit : BOOLEAN]]
  /\ ready \in BOOLEAN
  /\ cached \in Rows
  /\ cur \in Names
  /\ name \in Names
  /\ draft \in Doc
  /\ dirty \in BOOLEAN
  /\ mode \in Modes
  /\ canEdit \in BOOLEAN
  /\ sel \in SUBSET Nodes
  /\ prim \in Nodes \cup {NoNode}
  /\ selEdge \in Edges \cup {Absent}
  /\ connect \in Nodes \cup {NoNode}
  /\ drag \in [node : Nodes \cup {NoNode}, all : SUBSET Nodes]
  /\ nest \in Nodes \cup {NoNode}
  /\ save \in [phase : Phases, old : Names, name : Names, doc : Doc]
  /\ dels \subseteq [phase : Phases \ {"idle"}, name : Flows, flows : Rows, nr : 1..MaxInputs]
  /\ inputs \in 0..MaxInputs

-----------------------------------------------------------------------------
(* Steps that many handlers share *)

ClearSelection ==
  sel' = {} /\ prim' = NoNode /\ selEdge' = Absent /\ connect' = NoNode

Select(n) == sel' = {n} /\ prim' = n /\ selEdge' = Absent

ResetDraft ==
  /\ cur' = NoFlow
  /\ name' = NoFlow
  /\ draft' = EmptyDoc
  /\ dirty' = FALSE
  /\ ClearSelection

LoadFlow(f, d) ==
  /\ cur' = f
  /\ name' = Sanitized[f]
  /\ draft' = d
  /\ dirty' = FALSE
  /\ ClearSelection

\* Ids in use anywhere: a new UUID is none of them.
UsedIds ==
  UNION {d.nodes : d \in {draft, save.doc}
                     \cup ({stored[f] : f \in Flows} \ {Absent})
                     \cup ({cached[f] : f \in Flows} \ {Absent})}

\* Edit mode is shown to users who may edit only; while the mouse drags, it can
\* press nothing.
Editing   == ready /\ mode = "edit" /\ canEdit
AtRest    == drag = NoDrag
Selected  == sel # {}

Input == inputs < MaxInputs /\ inputs' = inputs + 1

\* A change of the diagram in edit mode
Edit(d) ==
  /\ Editing
  /\ Input
  /\ draft' = d
  /\ dirty' = TRUE
  /\ UNCHANGED <<server, loading, cached, opened, save, dels>>

\* ... by a press of the mouse
Press(d) == AtRest /\ Edit(d) /\ UNCHANGED <<drag, nest>>

\* Anything else than the diagram and its selection stays
OnlySelection ==
  Input /\ UNCHANGED <<server, loading, cached, opened, draft, dirty, drag, nest,
                       save, dels>>

-----------------------------------------------------------------------------
(* Loading *)

\* The effect on the search parameters starts a load; it does not ask whether
\* there are unsaved changes.  The load before it becomes inactive.
Navigate(f, m) ==
  /\ Input
  /\ visit < MaxVisits
  /\ visit' = visit + 1
  /\ wanted' = [flow |-> f, mode |-> m]
  /\ loads' = [loads EXCEPT ![visit + 1] = [NoLoad EXCEPT !.phase = "sent"]]
  /\ UNCHANGED <<server, ready, cached, opened, draft, dirty, selection, drag,
                 nest, save, dels>>

\* The server answers.  A failed listFlows counts as "no flows", a failed
\* getFlowSettings as "may edit".
AnswerLoad(v) ==
  /\ loads[v].phase = "sent"
  /\ \E answer \in [phase : {"ok"}, flows : {stored, NoRows},
                    canEdit : {allowed, TRUE}]
                     \cup {[NoLoad EXCEPT !.phase = "failed"]} :
       loads' = [loads EXCEPT ![v] = answer]
  /\ UNCHANGED <<server, visit, wanted, ready, cached, opened, draft, dirty,
                 selection, drag, nest, save, dels, inputs>>

LoadDone(v) == loads' = [loads EXCEPT ![v] = NoLoad]

\* What an active load does: show the requested flow, or the first in the list
ShowLoaded(v) ==
  /\ ready' = TRUE
  /\ cached' = loads[v].flows
  /\ canEdit' = loads[v].canEdit
  /\ mode' = IF loads[v].canEdit THEN wanted.mode ELSE "view"
  /\ \/ /\ loads[v].flows = NoRows
        /\ ResetDraft
     \/ \E f \in Present(loads[v].flows) :
          /\ wanted.flow \in Present(loads[v].flows) => f = wanted.flow
          /\ LoadFlow(f, loads[v].flows[f])

\* Faulty: the effect without its active flag
ReceiveAnyLoad(v) ==
  /\ loads[v].phase = "ok"
  /\ LoadDone(v)
  /\ ShowLoaded(v)
  /\ UNCHANGED <<server, visit, wanted, drag, nest, save, dels, inputs>>

ReceiveLoad(v) ==
  /\ loads[v].phase \in {"ok", "failed"}
  /\ LoadDone(v)
  /\ IF v = visit /\ loads[v].phase = "ok"
     THEN ShowLoaded(v)
     ELSE UNCHANGED <<ready, cached, opened, draft, dirty, selection>>
  /\ UNCHANGED <<server, visit, wanted, drag, nest, save, dels, inputs>>

-----------------------------------------------------------------------------
(* Opening diagrams.  confirmDiscard asks when there are unsaved changes; a
   user who declines takes no step. *)

StartNewFlow ==
  /\ Input
  /\ ready /\ canEdit /\ AtRest
  /\ ResetDraft
  /\ mode' = "edit"
  /\ UNCHANGED <<server, loading, cached, canEdit, drag, nest, save, dels>>

SelectFlow(f) ==
  /\ Input
  /\ ready /\ AtRest
  /\ f \in Present(cached)
  /\ LoadFlow(f, cached[f])
  /\ mode' = "view"
  /\ UNCHANGED <<server, loading, cached, canEdit, drag, nest, save, dels>>

OpenEditor ==
  /\ Input
  /\ ready /\ canEdit /\ AtRest /\ mode = "view"
  /\ mode' = "edit"
  /\ UNCHANGED <<server, loading, cached, cur, name, canEdit, draft, dirty,
                 selection, drag, nest, save, dels>>

OpenOverview ==
  /\ Input
  /\ ready /\ AtRest /\ mode = "edit"
  /\ mode' = "view"
  /\ connect' = NoNode
  /\ UNCHANGED <<server, loading, cached, cur, name, canEdit, draft, dirty, sel,
                 prim, selEdge, drag, nest, save, dels>>

\* nextDuplicateFlowName takes a name the page's list does not have.
DuplicateCurrentFlow(f, id) ==
  /\ ready /\ canEdit /\ AtRest
  /\ mode = "view" => cur # NoFlow
  /\ cur # NoFlow \/ draft.nodes # {} \/ draft.edges # {}
  /\ f \notin Present(cached) /\ Sanitized[f] = f
  /\ id \in Fresh(draft.nodes, UsedIds)
  /\ Input
  /\ cur' = NoFlow
  /\ name' = f
  /\ draft' = CloneFlowSpec(draft, id)
  /\ dirty' = TRUE
  /\ ClearSelection
  /\ mode' = "edit"
  /\ UNCHANGED <<server, loading, cached, canEdit, drag, nest, save, dels>>

-----------------------------------------------------------------------------
(* Selecting *)

\* A click on a node; with a connection begun it ends on the node (CreateEdge).
SelectNode(n) ==
  /\ ready /\ AtRest /\ n \in draft.nodes
  /\ Editing => connect \in {NoNode, n}
  /\ Select(n)
  /\ UNCHANGED connect
  /\ OnlySelection

ToggleNode(n) ==
  /\ ready /\ AtRest /\ n \in draft.nodes
  /\ mode = "edit"
  /\ canEdit => connect \in {NoNode, n}
  /\ sel' = (sel \ {n}) \cup ({n} \ sel)
  /\ prim' = n
  /\ selEdge' = Absent
  /\ UNCHANGED connect
  /\ OnlySelection

SelectEdge(e) ==
  /\ ready /\ AtRest /\ e \in draft.edges
  /\ selEdge' = e /\ prim' = NoNode /\ sel' = {}
  /\ UNCHANGED connect
  /\ OnlySelection

ClickCanvas ==
  /\ ready /\ AtRest
  /\ sel' = {} /\ prim' = NoNode /\ selEdge' = Absent
  /\ UNCHANGED connect
  /\ OnlySelection

PressEscape ==
  /\ ready /\ mode = "edit"
  /\ ClearSelection
  /\ OnlySelection

\* The inspector's button on the node it shows
ToggleConnect ==
  /\ Editing /\ AtRest /\ prim \in draft.nodes
  /\ connect' = IF connect = prim THEN NoNode ELSE prim
  /\ UNCHANGED <<sel, prim, selEdge>>
  /\ OnlySelection

-----------------------------------------------------------------------------
(* Editing the diagram *)

\* addEntityNode and addMockNode; a second node for an entity that is there
\* already is not added but selected (SelectNode).
AddNodeHere(n) ==
  /\ n \notin UsedIds
  /\ Press(AddNode(draft, n))
  /\ Select(n)
  /\ connect' = NoNode

DuplicateSelected(id) ==
  LET X == (sel \cap draft.nodes) \cup UNION {Descendants(draft, n) : n \in sel}
  IN  /\ X # {}
      /\ id \in Fresh(X, UsedIds)
      /\ Press(DuplicateNodes(draft, id))
      /\ sel' = Copies(id)
      /\ \/ prim \in X /\ prim' = id[prim]
         \/ prim \notin X /\ prim' \in Copies(id)
      /\ selEdge' = Absent
      /\ connect' = NoNode

\* Faulty: the removed node stays selected and stays the start of a connection
RemoveNodeOnly(n) ==
  /\ n = prim /\ n \in draft.nodes
  /\ Press(RemoveNodes(draft, {n}))
  /\ prim' = NoNode
  /\ selEdge' = Absent
  /\ UNCHANGED <<sel, connect>>

RemoveNode(n) ==
  /\ n = prim /\ n \in draft.nodes
  /\ Press(RemoveNodes(draft, {n}))
  /\ prim' = NoNode
  /\ sel' = sel \ {n}
  /\ selEdge' = Absent
  /\ connect' = IF connect = n THEN NoNode ELSE connect

\* The Delete key, during a drag too
RemoveSelected ==
  LET d == RemoveNodes(draft, sel)
  IN  /\ Selected \/ selEdge # Absent
      /\ Edit([d EXCEPT !.edges = @ \ {selEdge}])
      /\ prim' = IF Selected THEN NoNode ELSE prim
      /\ sel' = {}
      /\ connect' = IF connect \in sel THEN NoNode ELSE connect
      /\ selEdge' = Absent
      /\ UNCHANGED <<drag, nest>>

\* The second click of a connection
CreateEdge(n) ==
  /\ connect # NoNode /\ n \in draft.nodes \ {connect}
  /\ connect' = NoNode
  /\ prim' = NoNode
  /\ selEdge' = <<connect, n>>
  /\ UNCHANGED sel
  /\ IF <<connect, n>> \in draft.edges
     THEN Editing /\ AtRest /\ OnlySelection
     ELSE Press([draft EXCEPT !.edges = @ \cup {<<connect, n>>}])

RemoveEdge ==
  /\ selEdge \in draft.edges
  /\ Press([draft EXCEPT !.edges = @ \ {selEdge}])
  /\ selEdge' = Absent
  /\ UNCHANGED <<sel, prim, connect>>

\* One press adds an edge for every relationship; one at a time here (a bound).
SeedEdgesFromRelationships(e) ==
  /\ e \in (draft.nodes \X draft.nodes) \ draft.edges
  /\ e[1] # e[2]
  /\ Press([draft EXCEPT !.edges = @ \cup {e}])
  /\ UNCHANGED selection

\* Faulty: the diagram changes and is not marked as unsaved
UnnestQuietly ==
  /\ prim \in draft.nodes /\ draft.parent[prim] # NoNode /\ Selected
  /\ Editing /\ AtRest
  /\ Input
  /\ draft' = Unnest(draft, sel)
  /\ UNCHANGED <<server, loading, cached, opened, dirty, selection, drag, nest,
                 save, dels>>

UnnestSelected ==
  /\ prim \in draft.nodes /\ draft.parent[prim] # NoNode /\ Selected
  /\ Press(Unnest(draft, sel))
  /\ UNCHANGED selection

UnnestAllChildren ==
  /\ prim \in draft.nodes /\ Children(draft, prim) # {}
  /\ Press(Unnest(draft, Children(draft, prim)))
  /\ UNCHANGED selection

\* Locks the selected nodes, or unlocks them if all of them are locked
ToggleLockSelected ==
  /\ Selected
  /\ Press([draft EXCEPT !.locked =
              IF sel \cap draft.nodes \subseteq @ THEN @ \ sel
                                       ELSE @ \cup (sel \cap draft.nodes)])
  /\ UNCHANGED selection

\* The inspector's box "Lock position" on the node it shows
LockShown ==
  /\ prim \in draft.nodes
  /\ Press([draft EXCEPT !.locked = (@ \ {prim}) \cup ({prim} \ @)])
  /\ UNCHANGED selection

\* Edits of what a diagram looks like: the stacking order of the selection, the
\* fields the inspector shows for a node or an edge, the layout, a node's size
AdjustZIndex == Selected /\ Press(Flip(draft)) /\ UNCHANGED selection

UpdateNode ==
  prim \in draft.nodes /\ Press(Flip(draft)) /\ UNCHANGED selection

UpdateEdge ==
  selEdge \in draft.edges /\ Press(Flip(draft)) /\ UNCHANGED selection

AutoArrange == Press(Flip(draft)) /\ UNCHANGED selection

ResizeNode(n) ==
  /\ n \in draft.nodes \ draft.locked
  /\ Press(Flip(draft))
  /\ Select(n)
  /\ UNCHANGED connect

\* The arrow keys move what is selected, not locked and not in a selected node.
\* The updater sets "moved"; React may run it after the test of "moved".
NudgeSelected ==
  /\ Editing
  /\ \E n \in (sel \cap draft.nodes) \ draft.locked : draft.parent[n] \notin sel
  /\ Input
  /\ draft' = Flip(draft)
  /\ dirty' \in {dirty, TRUE}
  /\ UNCHANGED <<server, loading, cached, opened, selection, drag, nest, save,
                 dels>>

SetName(f) ==
  /\ Editing /\ AtRest
  /\ cur = NoFlow
  /\ Input
  /\ name' = IF f = NoFlow THEN NoFlow ELSE Sanitized[f]
  /\ dirty' = TRUE
  /\ UNCHANGED <<server, loading, cached, cur, mode, canEdit, draft, selection,
                 drag, nest, save, dels>>

-----------------------------------------------------------------------------
(* Dragging *)

MouseDown(n) ==
  /\ Input
  /\ Editing /\ AtRest
  /\ n \in draft.nodes \ draft.locked
  /\ \E all \in {{n}} \cup IF n \in sel THEN {sel} ELSE {} :
       drag' = [node |-> n, all |-> all]
  /\ UNCHANGED <<server, loading, cached, opened, draft, dirty, selection, nest,
                 save, dels>>

\* The mouse may be over any node that neither moves nor is inside the one it
\* drags; only a top-level node looks for a node to nest in.
NestTargets ==
  {NoNode} \cup (draft.nodes \ (drag.all \cup Descendants(draft, drag.node)))

DragMove ==
  /\ ~AtRest
  /\ dirty' = TRUE
  /\ IF drag.node \in draft.nodes
     THEN /\ draft' = Flip(draft)
          /\ IF draft.parent[drag.node] = NoNode THEN nest' \in NestTargets
                                                 ELSE UNCHANGED nest
     ELSE UNCHANGED <<draft, nest>>
  /\ UNCHANGED <<server, loading, cached, opened, selection, drag, save, dels,
                 inputs>>

MouseUp ==
  /\ ~AtRest
  /\ IF nest = NoNode THEN UNCHANGED <<draft, dirty>>
                      ELSE draft' = Nest(draft, drag.node, nest) /\ dirty' = TRUE
  /\ nest' = NoNode
  /\ drag' = NoDrag
  /\ UNCHANGED <<server, loading, cached, opened, selection, save, dels, inputs>>

-----------------------------------------------------------------------------
(* Saving and deleting *)

\* The closure of saveFlow keeps the name the flow had and the diagram.
StartSave ==
  /\ Input
  /\ Editing /\ AtRest /\ name # NoFlow
  /\ save.phase = "idle"
  /\ save' = [phase |-> "sent", old |-> cur, name |-> Sanitized[name],
              doc |-> draft]
  /\ UNCHANGED <<server, loading, cached, opened, draft, dirty, selection, drag,
                 nest, dels>>

\* CreateFlowEntity
CreateFlowEntity(f, d) == stored[f] = Absent /\ stored' = [stored EXCEPT ![f] = d]

\* UpdateFlowEntity: the name in the body may differ from that in the path.
UpdateFlowEntity(old, f, d) ==
  /\ stored[old] # Absent
  /\ f = old \/ stored[f] = Absent
  /\ stored' = [stored EXCEPT ![old] = Absent, ![f] = d]

\* The server handles the request; its answer may be lost.
ServeSave ==
  /\ save.phase = "sent"
  /\ \/ /\ allowed
        /\ IF save.old = NoFlow THEN CreateFlowEntity(save.name, save.doc)
                                ELSE UpdateFlowEntity(save.old, save.name, save.doc)
        /\ \E phase \in {"ok", "failed"} : save' = [save EXCEPT !.phase = phase]
     \/ /\ save' = [save EXCEPT !.phase = "failed"]
        /\ UNCHANGED stored
  /\ UNCHANGED <<allowed, loading, cached, opened, draft, dirty, selection, drag,
                 nest, dels, inputs>>

\* What the server stored replaces whatever the page shows by now.
SaveSucceeds ==
  /\ save.phase = "ok"
  /\ cached' = [f \in Flows |-> CASE f = save.name -> save.doc
                                  [] f = save.old /\ f # save.name -> Absent
                                  [] OTHER -> cached[f]]
  /\ LoadFlow(save.name, save.doc)
  /\ save' = Idle
  /\ UNCHANGED <<server, loading, mode, canEdit, drag, nest, dels, inputs>>

SaveFails ==
  /\ save.phase = "failed"
  /\ save' = Idle
  /\ UNCHANGED <<server, loading, cached, opened, draft, dirty, selection, drag,
                 nest, dels, inputs>>

\* The first that no deletion under way has: it tells those of one flow apart.
FreeNumber(nr) ==
  LET used == {c.nr : c \in dels} IN nr \notin used /\ 1..(nr - 1) \subseteq used

\* A diagram that was never saved is only emptied.  Nothing keeps the user from deleting
\* before an earlier deletion has been answered.
DeleteFlow ==
  /\ Input
  /\ Editing /\ AtRest
  /\ IF cur = NoFlow
     THEN /\ ResetDraft
          /\ UNCHANGED dels
     ELSE /\ \E nr \in 1..MaxInputs :
               /\ FreeNumber(nr)
               /\ dels' = dels \cup
                    {[phase |-> "sent", name |-> cur, flows |-> cached, nr |-> nr]}
          /\ UNCHANGED <<cur, name, draft, dirty, selection>>
  /\ UNCHANGED <<server, loading, cached, mode, canEdit, drag, nest, save>>

\* DeleteFlowEntity
ServeDelete(c) ==
  /\ c.phase = "sent"
  /\ \E phase \in {"ok", "failed"} : dels' = (dels \ {c}) \cup {[c EXCEPT !.phase = phase]}
  /\ \/ /\ allowed /\ stored[c.name] # Absent
        /\ stored' = [stored EXCEPT ![c.name] = Absent]
     \/ /\ [c EXCEPT !.phase = "failed"] \in dels'
        /\ UNCHANGED stored
  /\ UNCHANGED <<allowed, loading, cached, opened, draft, dirty, selection, drag,
                 nest, save, inputs>>

\* Faulty: what is shown next is looked up after the removal
DeleteShowsDeleted(c) ==
  LET remaining == [c.flows EXCEPT ![c.name] = Absent]
  IN  /\ c.phase = "ok"
      /\ dels' = dels \ {c}
      /\ cached' = remaining
      /\ LoadFlow(c.name, remaining[c.name])
      /\ UNCHANGED <<server, loading, mode, canEdit, drag, nest, save, inputs>>

\* The list is the one the closure saw when Delete was pressed.
DeleteSucceeds(c) ==
  LET remaining == [c.flows EXCEPT ![c.name] = Absent]
  IN  /\ c.phase = "ok"
      /\ dels' = dels \ {c}
      /\ cached' = remaining
      /\ IF remaining = NoRows
         THEN ResetDraft
         ELSE \E f \in Present(remaining) : LoadFlow(f, remaining[f])
      /\ UNCHANGED <<server, loading, mode, canEdit, drag, nest, save, inputs>>

DeleteFails(c) ==
  /\ c.phase = "failed"
  /\ dels' = dels \ {c}
  /\ UNCHANGED <<server, loading, cached, opened, draft, dirty, selection, drag,
                 nest, save, inputs>>

-----------------------------------------------------------------------------
(* Other users *)

OthersEdit(f) ==
  /\ Input
  /\ stored[f] # Absent
  /\ stored' = [stored EXCEPT ![f] = Flip(@)]
  /\ UNCHANGED <<allowed, loading, cached, opened, draft, dirty, selection, drag,
                 nest, save, dels>>

OthersDelete(f) ==
  /\ Input
  /\ stored[f] # Absent
  /\ stored' = [stored EXCEPT ![f] = Absent]
  /\ UNCHANGED <<allowed, loading, cached, opened, draft, dirty, selection, drag,
                 nest, save, dels>>

ChangeRole ==
  /\ Input
  /\ allowed' = ~allowed
  /\ UNCHANGED <<stored, loading, cached, opened, draft, dirty, selection, drag,
                 nest, save, dels>>

-----------------------------------------------------------------------------
Init ==
  /\ stored \in Saved
  /\ allowed \in BOOLEAN
  /\ visit = 1
  /\ wanted \in [flow : {NoFlow}, mode : Modes]   \* opened from the side bar
  /\ loads = [v \in 1..MaxVisits |->
                IF v = 1 THEN [NoLoad EXCEPT !.phase = "sent"] ELSE NoLoad]
  /\ ready = FALSE
  /\ cached = NoRows
  /\ cur = NoFlow
  /\ name = NoFlow
  /\ draft = EmptyDoc
  /\ dirty = FALSE
  /\ mode = "view"
  /\ canEdit = TRUE
  /\ sel = {} /\ prim = NoNode /\ selEdge = Absent /\ connect = NoNode
  /\ drag = NoDrag
  /\ nest = NoNode
  /\ save = Idle
  /\ dels = {}
  /\ inputs = 0

Load ==
  \/ \E f \in Names, m \in Modes : Navigate(f, m)
  \/ \E v \in 1..MaxVisits : AnswerLoad(v) \/ ReceiveLoad(v)

Open ==
  \/ StartNewFlow \/ OpenEditor \/ OpenOverview
  \/ \E f \in Flows : SelectFlow(f)
  \/ \E f \in Flows, id \in Fresh(draft.nodes, UsedIds) : DuplicateCurrentFlow(f, id)

PickOnCanvas ==
  \/ ClickCanvas \/ PressEscape \/ ToggleConnect
  \/ \E n \in Nodes : SelectNode(n) \/ ToggleNode(n)
  \/ \E e \in Edges : SelectEdge(e)

Change ==
  \/ RemoveSelected \/ RemoveEdge \/ UnnestSelected \/ UnnestAllChildren
  \/ ToggleLockSelected \/ LockShown \/ NudgeSelected
  \/ AdjustZIndex \/ UpdateNode \/ UpdateEdge \/ AutoArrange
  \/ \E n \in Nodes : AddNodeHere(n) \/ RemoveNode(n) \/ CreateEdge(n) \/ ResizeNode(n)
  \/ \E e \in Edges : SeedEdgesFromRelationships(e)
  \/ \E f \in Names : SetName(f)
  \/ \E X \in SUBSET draft.nodes : \E id \in Fresh(X, UsedIds) : DuplicateSelected(id)

Mouse == DragMove \/ MouseUp \/ \E n \in Nodes : MouseDown(n)

Save   == StartSave \/ ServeSave \/ SaveSucceeds \/ SaveFails
Delete ==
  DeleteFlow \/ \E c \in dels : ServeDelete(c) \/ DeleteSucceeds(c) \/ DeleteFails(c)
Others == ChangeRole \/ \E f \in Flows : OthersEdit(f) \/ OthersDelete(f)

Next == Load \/ Open \/ PickOnCanvas \/ Change \/ Mouse \/ Save \/ Delete \/ Others

Spec == Init /\ [][Next]_vars

-----------------------------------------------------------------------------
(* Properties *)

\* Nesting never makes a cycle, and no parent and no edge refers to a node that
\* is gone: in the rows, on the page and in a save under way.  What a drag nests
\* in was chosen in an earlier diagram if an answer has arrived since.
DiagramsAreWellFormed ==
  /\ \A f \in Present(stored) : WellFormed(stored[f])
  /\ \A f \in Present(cached) : WellFormed(cached[f])
  /\ WellFormed(draft)
  /\ WellFormed(save.doc)

\* Whatever is selected, or is the start of a connection, is in the diagram on
\* the page, through removals, answers and changes of diagram.
SelectionIsDrawn ==
  /\ sel \subseteq draft.nodes
  /\ prim \in draft.nodes \cup {NoNode}
  /\ connect \in draft.nodes \cup {NoNode}
  /\ selEdge \in draft.edges \cup {Absent}

\* Without the "unsaved changes" mark, a saved diagram on the page has the nodes,
\* nesting, locks and edges of the page's list.  (Arrow keys may move nodes
\* without the mark, so what it looks like is left out.)
UnmarkedIsSaved ==
  ~dirty /\ cur # NoFlow =>
    /\ cached[cur] # Absent
    /\ [cached[cur] EXCEPT !.look = 0] = [draft EXCEPT !.look = 0]

\* An answer to earlier search parameters changes nothing on the page, in
\* whatever order the answers arrive.
OnlyTheLastVisitShows ==
  [][\A v \in 1..MaxVisits :
       loads[v].phase = "ok" /\ loads'[v] = NoLoad /\ v # visit
         => UNCHANGED <<cached, opened, draft, dirty, ready>>]_vars
=============================================================================
