------------------------------ MODULE Dashboard ------------------------------
(***************************************************************************)
(* The dashboard page (web/src/pages/Dashboard.tsx) and the one dashboard  *)
(* configuration of the server (internal/api/handlers/dashboard.go).  An   *)
(* administrator edits a copy of the configuration; another one may save   *)
(* theirs at any time.                                                     *)
(***************************************************************************)
EXTENDS Integers, Sequences, FiniteSets, SequencesExt

CONSTANTS
  Widgets,       \* ids of DEFAULT_WIDGETS, in their order
  ServerWidgets, \* those of them in the server's default configuration
  Ids,           \* ids of links and pinned entities
  Absent,        \* no configuration
  MaxDashInputs  \* bound: what administrators do

WidgetIds == Range(Widgets)

DashboardAssumption ==
  /\ Widgets \in Seq(Range(Widgets)) /\ Widgets # <<>> /\ IsInjective(Widgets)
  /\ ServerWidgets \subseteq WidgetIds
  /\ MaxDashInputs \in Nat

VARIABLES
  dashLoad,    \* the first requests: "sent", "ok" or "failed"
  dashConfig,  \* config
  dashData,    \* widgets whose data has arrived and is not empty
  dashStatus,  \* statusMonitorLoading
  dashEdit,    \* editConfig; editMode is TRUE exactly while there is one
  dashSave,    \* the save under way, and what it carries
  dashDrag,    \* the refs of the drag: its section and the row it started on
  dashStored,  \* the server's configuration
  dashInputs

dashVars == <<dashLoad, dashConfig, dashData, dashStatus, dashEdit, dashSave,
              dashDrag, dashStored, dashInputs>>

-----------------------------------------------------------------------------
(* Configurations *)

Setting == [visible : BOOLEAN, half : BOOLEAN, order : 0..(Len(Widgets) - 1)]

\* A link, pinned entity or announcement: its required fields are filled or not.
Item == [id : Ids, filled : BOOLEAN]

Sections == {"announcements", "quickLinks", "pinnedEntities"}

DashboardConfig ==
  [widgets : UNION {[S -> Setting] : S \in SUBSET WidgetIds},
   items   : [Sections -> Seq(Item)]]

Place(w, seq) == CHOOSE i \in DOMAIN seq : seq[i] = w

ListOrder == [w \in WidgetIds |-> Place(w, Widgets)]

\* How many of ids come before w
Before(w, ids, order) == Cardinality({v \in ids : order[v] < order[w]})

\* Ids sorted by an order in which no two are at the same place
InOrder(ids, order) ==
  [i \in 1..Cardinality(ids) |-> CHOOSE w \in ids : Before(w, ids, order) = i - 1]

\* All visible, in the order of the defaults; their widths do not matter here.
Listed(ids) ==
  [w \in ids |->
     [visible |-> TRUE, half |-> FALSE, order |-> Before(w, ids, ListOrder)]]

NoItems == [s \in Sections |-> <<>>]

Defaults == [widgets |-> Listed(WidgetIds), items |-> NoItems]

ServerDefaults == [widgets |-> Listed(ServerWidgets), items |-> NoItems]

Orders(ws)  == {ws[w].order : w \in DOMAIN ws}
MaxOrder(ws) == CHOOSE o \in Orders(ws) : \A p \in Orders(ws) : p <= o

\* Faulty: the widgets that are new are numbered from the first place again
ExtendedFromFirst(ws, ids) ==
  [w \in DOMAIN ws \cup ids |->
     IF w \in DOMAIN ws THEN ws[w]
     ELSE [visible |-> TRUE, half |-> FALSE,
           order |-> Before(w, ids \ DOMAIN ws, ListOrder)]]

\* Widgets a configuration does not know yet follow the ones it has.
Extended(ws, ids) ==
  [w \in DOMAIN ws \cup ids |->
     IF w \in DOMAIN ws THEN ws[w]
     ELSE [visible |-> TRUE, half |-> FALSE,
           order |-> MaxOrder(ws) + 1 + Before(w, ids \ DOMAIN ws, ListOrder)]]

MergeWidgets(ws) ==
  IF DOMAIN ws = {} THEN Listed(WidgetIds) ELSE Extended(ws, WidgetIds)

\* What GetDashboardConfig answers for a stored configuration
Fetched(c) ==
  [c EXCEPT !.widgets = IF DOMAIN @ = {} THEN Listed(ServerWidgets)
                        ELSE Extended(@, ServerWidgets)]

\* SetDashboardConfig refuses what lacks a title, URL, name or kind.
Accepted(c) ==
  \A s \in Sections : \A i \in DOMAIN c.items[s] : c.items[s][i].filled

OrderOf(ws) == [w \in DOMAIN ws |-> ws[w].order]

Sorted(ws) == InOrder(DOMAIN ws, OrderOf(ws))

\* Faulty: the two rows change places
SwapArr(arr, from, to) == [arr EXCEPT ![from] = arr[to], ![to] = arr[from]]

ReorderArr(arr, from, to) == InsertAt(RemoveAt(arr, from), to, arr[from])

-----------------------------------------------------------------------------
(* What the page shows *)

\* Lists that say so when they are empty, and the counts by kind
AlwaysDrawn(w) ==
  w \in {"entity_stats", "recent_activity", "action_runs"}

HistoryDrawn(w) == w = "recently_browsed"

\* Lists of entities
EntitiesDrawn(w) == w \in {"my_entities", "recently_updated"} /\ w \in dashData

LinksDrawn(w) == w = "quick_links" /\ dashConfig.items["quickLinks"] # <<>>
PinnedDrawn(w) ==
  w = "pinned_entities" /\ dashConfig.items["pinnedEntities"] # <<>>

StatusDrawn(w)   == w = "status_monitor" /\ (dashStatus \/ w \in dashData)
HarborDrawn(w)   == w = "harbor_vulns" /\ w \in dashData
GitOpsDrawn(w)   == w = "gitops_status" /\ w \in dashData
TopologyDrawn(w) == w = "topology_overview" /\ w \in dashData

Drawn(w) ==
  \/ AlwaysDrawn(w)   \/ HistoryDrawn(w)   \/ EntitiesDrawn(w)
  \/ LinksDrawn(w)    \/ PinnedDrawn(w)
  \/ StatusDrawn(w)   \/ HarborDrawn(w)
  \/ GitOpsDrawn(w)   \/ TopologyDrawn(w)

\* View mode: the visible widgets that draw something, in order
Shown ==
  LET ws == MergeWidgets(dashConfig.widgets)
  IN  InOrder({w \in DOMAIN ws : ws[w].visible /\ Drawn(w)}, OrderOf(ws))

\* Plugin widgets are offered in edit mode when their data is there.
Available(w) ==
  w \in {"status_monitor", "gitops_status", "harbor_vulns"} => w \in dashData

\* Edit mode: the rows of the widget list
Rows ==
  LET ws == dashEdit.widgets
  IN  InOrder({w \in DOMAIN ws : Available(w)}, OrderOf(ws))

Viewing == dashLoad # "sent" /\ dashEdit = Absent
Editing == dashEdit # Absent
Saving  == dashSave.phase # "idle"

-----------------------------------------------------------------------------
NoSave == [phase |-> "idle", config |-> Absent]
NoDrag == [section |-> "none", from |-> 0]

Init ==
  /\ dashLoad = "sent"
  /\ dashConfig = Absent
  /\ dashData = {}
  /\ dashStatus = TRUE
  /\ dashEdit = Absent
  /\ dashSave = NoSave
  /\ dashDrag = NoDrag
  /\ dashStored \in {ServerDefaults,
                     [Defaults EXCEPT !.widgets = Listed({Head(Widgets)})]}
  /\ dashInputs = 0

Input == dashInputs < MaxDashInputs /\ dashInputs' = dashInputs + 1

\* While a row is dragged nothing can be pressed.
Press == dashDrag = NoDrag /\ Input

\* All six requests are answered; only that for the entities must succeed, and a
\* configuration that cannot be read is taken to be the default one.
AnswerLoad ==
  /\ dashLoad = "sent"
  /\ \/ /\ dashLoad' = "ok"
        /\ dashConfig' \in {Fetched(dashStored), Defaults}
        /\ \E arrived \in SUBSET {"my_entities", "recently_updated", "gitops_status"} :
             /\ "my_entities" \in arrived => "recently_updated" \in arrived
             /\ dashData' = arrived \cap WidgetIds
     \/ dashLoad' = "failed" /\ UNCHANGED <<dashConfig, dashData>>
  /\ UNCHANGED <<dashStatus, dashEdit, dashSave, dashDrag, dashStored, dashInputs>>

\* The requests that follow: service statuses, Harbor and topology, in any order
AnswerStatus ==
  /\ dashLoad # "sent" /\ dashStatus
  /\ dashStatus' = FALSE
  /\ dashData' \in {dashData, dashData \cup ({"status_monitor"} \cap WidgetIds)}
  /\ UNCHANGED <<dashLoad, dashConfig, dashEdit, dashSave, dashDrag, dashStored,
                 dashInputs>>

AnswerPlugin ==
  /\ dashLoad # "sent"
  /\ \E w \in {"harbor_vulns", "topology_overview"} \cap WidgetIds :
       dashData' = dashData \cup {w}
  /\ UNCHANGED <<dashLoad, dashConfig, dashStatus, dashEdit, dashSave, dashDrag,
                 dashStored, dashInputs>>

-----------------------------------------------------------------------------
(* Entering and leaving edit mode *)

EnterEditMode ==
  /\ Viewing /\ Press
  /\ dashConfig # Absent
  /\ dashEdit' = [dashConfig EXCEPT !.widgets = MergeWidgets(@)]
  /\ UNCHANGED <<dashLoad, dashConfig, dashData, dashStatus, dashSave, dashDrag,
                 dashStored>>

CancelEdit ==
  /\ Editing /\ Press
  /\ dashEdit' = Absent
  /\ UNCHANGED <<dashLoad, dashConfig, dashData, dashStatus, dashSave, dashDrag,
                 dashStored>>

SaveEdit ==
  /\ Editing /\ ~Saving /\ Press
  /\ dashSave' = [phase |-> "sent", config |-> dashEdit]
  /\ UNCHANGED <<dashLoad, dashConfig, dashData, dashStatus, dashEdit, dashDrag,
                 dashStored>>

\* The server: refuses or fails, or stores and then reads again what to answer
SetDashboardConfig ==
  /\ dashSave.phase = "sent"
  /\ \/ /\ Accepted(dashSave.config)
        /\ dashStored' = dashSave.config
        /\ dashSave' = [dashSave EXCEPT !.phase = "stored"]
     \/ dashSave' = [dashSave EXCEPT !.phase = "failed"] /\ UNCHANGED dashStored
  /\ UNCHANGED <<dashLoad, dashConfig, dashData, dashStatus, dashEdit, dashDrag,
                 dashInputs>>

\* Another administrator resets the configuration.
OtherSave ==
  /\ Input
  /\ dashStored' = ServerDefaults
  /\ UNCHANGED <<dashLoad, dashConfig, dashData, dashStatus, dashEdit, dashSave,
                 dashDrag>>

\* The answer closes the editor, whatever it holds by now; an error leaves it.
ReceiveSave ==
  /\ dashSave.phase \in {"stored", "failed"}
  /\ dashSave' = NoSave
  /\ \/ /\ dashSave.phase = "stored"
        /\ dashConfig' = Fetched(dashStored)
        /\ dashEdit' = Absent
     \/ UNCHANGED <<dashConfig, dashEdit>>
  /\ UNCHANGED <<dashLoad, dashData, dashStatus, dashDrag, dashStored, dashInputs>>

-----------------------------------------------------------------------------
(* Edits *)

Change(c) ==
  /\ Editing
  /\ dashEdit' = c
  /\ UNCHANGED <<dashLoad, dashConfig, dashData, dashStatus, dashSave, dashStored>>

Edit(c) == Press /\ Change(c) /\ UNCHANGED dashDrag

EditWidgets(ws) == Edit([dashEdit EXCEPT !.widgets = ws])

EditItems(s, items) == Edit([dashEdit EXCEPT !.items[s] = items])

ToggleWidgetVisible(w) ==
  EditWidgets([dashEdit.widgets EXCEPT ![w].visible = ~@])

ToggleWidgetWidth(w) ==
  EditWidgets([dashEdit.widgets EXCEPT ![w].half = ~@])

\* Swaps the widget with its neighbour in the whole list, shown or not
MoveWidget(w, by) ==
  LET ws     == dashEdit.widgets
      sorted == Sorted(ws)
      idx    == Place(w, sorted)
      other  == sorted[idx + by]
  IN  /\ idx + by \in DOMAIN sorted
      /\ EditWidgets([ws EXCEPT ![w].order = ws[other].order,
                                ![other].order = ws[w].order])

\* The buttons of the rows: up but for the first row, down but for the last one
WidgetButtons ==
  \E row \in DOMAIN Rows :
    LET w == Rows[row]
    IN  \/ ToggleWidgetVisible(w)
        \/ ToggleWidgetWidth(w)
        \/ row > 1 /\ MoveWidget(w, -1)
        \/ row < Len(Rows) /\ MoveWidget(w, 1)

Unused(items)  == Ids \ {items[i].id : i \in DOMAIN items}
FreshId(items) == CHOOSE id \in Unused(items) : TRUE

AddItem(s) ==
  LET items == dashEdit.items[s]
  IN  /\ Unused(items) # {}
      /\ EditItems(s, Append(items, [id |-> FreshId(items), filled |-> FALSE]))

FillItem(s, i, filled) ==
  EditItems(s, [dashEdit.items[s] EXCEPT ![i].filled = filled])

RemoveItem(s, i) == EditItems(s, RemoveAt(dashEdit.items[s], i))

AddAnnouncement       == AddItem("announcements")
UpdateAnnouncement(i) == \E b \in BOOLEAN : FillItem("announcements", i, b)
RemoveAnnouncement(i) == RemoveItem("announcements", i)

EditAnnouncements ==
  \/ AddAnnouncement
  \/ \E i \in DOMAIN dashEdit.items["announcements"] :
       UpdateAnnouncement(i) \/ RemoveAnnouncement(i)

AddQuickLink       == AddItem("quickLinks")
UpdateQuickLink(i) == \E b \in BOOLEAN : FillItem("quickLinks", i, b)
RemoveQuickLink(i) == RemoveItem("quickLinks", i)

EditQuickLinks ==
  \/ AddQuickLink
  \/ \E i \in DOMAIN dashEdit.items["quickLinks"] :
       UpdateQuickLink(i) \/ RemoveQuickLink(i)

\* Another kind clears the name; a name is set by choosing one of the matches, and
\* cleared with the text of the search, which otherwise changes nothing.
AddPinnedEntity       == AddItem("pinnedEntities")
UpdatePinnedEntity(i) == FillItem("pinnedEntities", i, FALSE)
EntityPicker(i)       == \E b \in BOOLEAN : FillItem("pinnedEntities", i, b)
RemovePinnedEntity(i) == RemoveItem("pinnedEntities", i)

EditPinnedEntities ==
  \/ AddPinnedEntity
  \/ \E i \in DOMAIN dashEdit.items["pinnedEntities"] :
       UpdatePinnedEntity(i) \/ EntityPicker(i) \/ RemovePinnedEntity(i)

-----------------------------------------------------------------------------
(* Dragging rows *)

Draggable(section) ==
  IF section = "widgets" THEN Rows ELSE dashEdit.items[section]

OnDragStart ==
  /\ Editing /\ Press
  /\ \E s \in {"widgets", "quickLinks", "pinnedEntities"} :
       \E row \in DOMAIN Draggable(s) : dashDrag' = [section |-> s, from |-> row]
  /\ UNCHANGED <<dashLoad, dashConfig, dashData, dashStatus, dashEdit, dashSave,
                 dashStored>>

\* Rows are numbered among those shown, and moved among all of them.
DropWidget(to) ==
  LET ws  == dashEdit.widgets
      new == ReorderArr(Sorted(ws), dashDrag.from, to)
  IN  Change([dashEdit EXCEPT !.widgets =
                [w \in DOMAIN ws |->
                   [ws[w] EXCEPT !.order = Place(w, new) - 1]]])

DropItem(s, to) ==
  Change([dashEdit EXCEPT !.items[s] = ReorderArr(@, dashDrag.from, to)])

OnDrop ==
  /\ Editing /\ dashDrag # NoDrag
  /\ \E to \in DOMAIN Draggable(dashDrag.section) \ {dashDrag.from} :
       \/ dashDrag.section = "widgets" /\ DropWidget(to)
       \/ dashDrag.section # "widgets" /\ DropItem(dashDrag.section, to)
  /\ dashDrag' = NoDrag
  /\ UNCHANGED dashInputs

OnDragEnd ==
  /\ dashDrag # NoDrag
  /\ dashDrag' = NoDrag
  /\ UNCHANGED <<dashLoad, dashConfig, dashData, dashStatus, dashEdit, dashSave,
                 dashStored, dashInputs>>

Next ==
  \/ AnswerLoad \/ AnswerStatus \/ AnswerPlugin
  \/ EnterEditMode \/ CancelEdit \/ SaveEdit
  \/ SetDashboardConfig \/ OtherSave \/ ReceiveSave
  \/ Editing /\ WidgetButtons
  \/ Editing /\ (EditAnnouncements \/ EditQuickLinks \/ EditPinnedEntities)
  \/ OnDragStart \/ OnDrop \/ OnDragEnd

Spec == Init /\ [][Next]_dashVars

-----------------------------------------------------------------------------
(* Correctness *)

\* The type of every variable
TypeOK ==
  /\ dashLoad \in {"sent", "ok", "failed"}
  /\ dashConfig \in DashboardConfig \cup {Absent}
  /\ dashData \subseteq WidgetIds
  /\ dashStatus \in BOOLEAN
  /\ dashEdit \in DashboardConfig \cup {Absent}
  /\ dashSave.phase \in {"idle", "sent", "stored", "failed"}
  /\ dashSave.config \in DashboardConfig \cup {Absent}
  /\ dashDrag \in [section : Sections \cup {"widgets", "none"}, from : Nat]
  /\ dashStored \in DashboardConfig
  /\ dashInputs \in 0..MaxDashInputs

\* In the editor every widget has a place of its own: no merge, swap or drop makes
\* two share one (the arrows swap places and would do nothing) or loses one.
EveryWidgetHasItsPlace ==
  Editing => /\ DOMAIN dashEdit.widgets = WidgetIds
             /\ \A v, w \in WidgetIds :
                  dashEdit.widgets[v].order = dashEdit.widgets[w].order => v = w

\* Dropping a row moves that row alone: when every widget is listed, the others
\* keep their order.
DropMovesOneRow ==
  (/\ dashDrag.section = "widgets" /\ dashDrag' = NoDrag
   /\ Editing /\ dashEdit' # Absent
   /\ Len(Rows) = Len(Widgets)) =>
    \A v, w \in WidgetIds \ {Rows[dashDrag.from]} :
      dashEdit.widgets[v].order < dashEdit.widgets[w].order
        <=> dashEdit'.widgets[v].order < dashEdit'.widgets[w].order
=============================================================================
