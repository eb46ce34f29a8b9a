----------------------------- MODULE PluginsPage -----------------------------
(***************************************************************************)
(* The Plugins page (web/src/pages/Plugins.tsx): the list of plugins, each *)
(* with a button that enables or disables it, and over it the detail of    *)
(* one plugin with its configuration, whose form ConfigForm models.        *)
(*                                                                         *)
(* The detail is not made anew when it turns from one plugin to another:   *)
(* its effects reset it.  An action models a handler and the effects that  *)
(* run before anything else can be pressed.                                *)
(***************************************************************************)
EXTENDS Naturals, FiniteSets

CONSTANTS
  Plugins,
  ComingSoon,    \* plugins that are listed but not there yet
  Syncable,      \* SYNCABLE_PLUGINS
  None,          \* no plugin
  MaxPlugInputs  \* bound: what the user does

PluginsAssumption ==
  /\ ComingSoon \subseteq Plugins /\ Syncable \subseteq Plugins
  /\ None \notin Plugins
  /\ MaxPlugInputs \in Nat

VARIABLES
  plugServer,   \* for each plugin: is it enabled, are its required fields set?
  plugShown,    \* plugins, once loaded: the ones shown as enabled
  plugPage,     \* is the list being loaded, shown, or replaced by an error?
  plugOnly,     \* what the tab, the search and the category leave: all, or few
  plugDetail,   \* detail: its plugin, or none
  plugStart,    \* initialTab
  plugTab,      \* the tab of the detail
  plugConfig,   \* config: the plugin whose configuration has been loaded
  plugFilled,   \* values: are the required fields set in the form?
  plugCalls,    \* requests that have not been answered
  plugCrossed,  \* history: have two requests to enable or disable met?
  plugInputs

plugVars == <<plugServer, plugShown, plugPage, plugOnly, plugDetail, plugStart, plugTab,
              plugConfig, plugFilled, plugCalls, plugCrossed, plugInputs>>

modal == <<plugDetail, plugStart, plugTab, plugConfig, plugFilled>>

Tabs == {"overview", "config"}

\* live: is the part of the page that waits for the answer still there?
\* of:   the plugin whose configuration a save sends
Call == [op : {"list", "enable", "disable", "sync", "config", "save"},
         plugin : Plugins \cup {None}, of : Plugins \cup {None}, filled : BOOLEAN,
         live : BOOLEAN, at : 0..MaxPlugInputs, phase : {"sent", "ok", "missing", "no"}]

Request(op, p) == [op |-> op, plugin |-> p, of |-> None, filled |-> FALSE, live |-> TRUE,
                   at |-> plugInputs', phase |-> "sent"]

\* The calls of the given operations, with the part that waits for them gone
Left(calls, ops) == {IF c.op \in ops THEN [c EXCEPT !.live = FALSE] ELSE c : c \in calls}

Input == plugInputs < MaxPlugInputs /\ plugInputs' = plugInputs + 1

Underway(ops) == {c \in plugCalls : c.op \in ops}

Init ==
  /\ plugServer \in [Plugins -> [enabled : BOOLEAN, ready : BOOLEAN]]
  /\ \A p \in ComingSoon : ~plugServer[p].enabled
  /\ plugShown = {}
  /\ plugPage = "loading"
  /\ plugOnly = "all"
  /\ plugDetail = None /\ plugStart = "overview" /\ plugTab = "overview"
  /\ plugConfig = None /\ plugFilled = FALSE
  /\ plugCalls = {}
  /\ plugCrossed = FALSE
  /\ plugInputs = 0

\* The list is loaded once, when the page is opened.
ListPlugins ==
  /\ plugPage = "loading"
  /\ \/ /\ plugPage' = "list"
        /\ plugShown' = {p \in Plugins : plugServer[p].enabled}
     \/ plugPage' = "error" /\ UNCHANGED plugShown
  /\ UNCHANGED <<plugServer, plugOnly, modal, plugCalls, plugCrossed, plugInputs>>

-----------------------------------------------------------------------------
(* The detail *)

\* The tab and the configuration after a change, and the effect that loads the
\* configuration: what it asked for before is no longer waited for.
ShowTab(p, tab, config, calls) ==
  /\ plugDetail' = p
  /\ plugTab' = tab
  /\ plugConfig' = config
  /\ plugFilled' = (plugFilled /\ config # None)
  /\ plugCalls' = Left(calls, {"config"}) \cup
                    IF tab = "config" /\ config = None THEN {Request("config", p)} ELSE {}

\* It opens for p, or it is open already and turns to p.
SetDetail(p, tab, calls) ==
  LET shown == IF plugDetail = None \/ tab # plugStart THEN tab ELSE plugTab
  IN  /\ plugStart' = tab
      /\ IF p = plugDetail /\ shown = plugTab
         THEN plugCalls' = calls /\ UNCHANGED <<plugDetail, plugTab, plugConfig, plugFilled>>
         ELSE ShowTab(p, shown, IF p = plugDetail THEN plugConfig ELSE None, calls)

CloseDetail ==
  /\ Input
  /\ plugDetail' = None /\ plugStart' = "overview" /\ plugTab' = "overview"
  /\ plugConfig' = None /\ plugFilled' = FALSE
  /\ plugCalls' = Left(plugCalls, {"config", "save"})
  /\ UNCHANGED <<plugServer, plugShown, plugPage, plugOnly, plugCrossed>>

SetTab(tab) ==
  /\ plugDetail # None /\ tab # plugTab
  /\ tab = "config" => plugDetail \notin ComingSoon
  /\ Input
  /\ ShowTab(plugDetail, tab, plugConfig, plugCalls)
  /\ UNCHANGED <<plugServer, plugShown, plugPage, plugOnly, plugStart, plugCrossed>>

\* The form is there once the configuration is.
FormShown == plugTab = "config" /\ plugConfig # None

EditForm ==
  /\ FormShown /\ Input
  /\ plugFilled' = ~plugFilled
  /\ UNCHANGED <<plugServer, plugShown, plugPage, plugOnly, plugDetail, plugStart, plugTab,
                 plugConfig, plugCalls, plugCrossed>>

\* A save sends the form to the plugin of the detail; one at a time.
HandleSave ==
  /\ FormShown
  /\ \A c \in Underway({"save"}) : ~c.live
  /\ Input
  /\ plugCalls' = plugCalls \cup
       {[Request("save", plugDetail) EXCEPT !.of = plugConfig, !.filled = plugFilled]}
  /\ UNCHANGED <<plugServer, plugShown, plugPage, plugOnly, modal, plugCrossed>>

-----------------------------------------------------------------------------
(* Enable, disable and sync, from the list or from the detail *)

Filtered == IF plugOnly = "all" THEN Plugins ELSE plugShown

\* The cards of the list, which the detail covers
Cards == IF plugDetail = None /\ plugPage = "list" THEN Filtered ELSE {}

SetFilter ==
  /\ plugDetail = None /\ Input
  /\ plugOnly' \in {"all", "enabled"} \ {plugOnly}
  /\ UNCHANGED <<plugServer, plugShown, plugPage, modal, plugCalls, plugCrossed>>

OpenDetail(p, tab) ==
  /\ tab = "config" => p \notin ComingSoon
  /\ Input
  /\ SetDetail(p, tab, plugCalls)
  /\ UNCHANGED <<plugServer, plugShown, plugPage, plugOnly, plugCrossed>>

\* Nothing keeps the button from being pressed again before the answer.
HandleAction(p) ==
  /\ p \notin ComingSoon /\ Input
  /\ plugCalls' = plugCalls \cup
       {Request(IF p \in plugShown THEN "disable" ELSE "enable", p)}
  /\ plugCrossed' = (plugCrossed \/ \E c \in Underway({"enable", "disable"}) : c.plugin = p)
  /\ UNCHANGED <<plugServer, plugShown, plugPage, plugOnly, modal>>

CanSync(p) == p \in plugShown \cap Syncable

HandleSync(p) ==
  /\ CanSync(p)
  /\ \A c \in Underway({"sync"}) : c.plugin # p
  /\ Input
  /\ plugCalls' = plugCalls \cup {Request("sync", p)}
  /\ UNCHANGED <<plugServer, plugShown, plugPage, plugOnly, modal, plugCrossed>>

PluginCard(p) ==
  HandleAction(p) \/ HandleSync(p) \/ \E tab \in Tabs : OpenDetail(p, tab)

DetailHeader ==
  /\ plugDetail # None
  /\ HandleAction(plugDetail) \/ HandleSync(plugDetail) \/ CloseDetail

\* There is nothing to do on the overview.
DetailBody == EditForm \/ HandleSave

-----------------------------------------------------------------------------
(* The server *)

\* A plugin is not enabled before its required fields are set.
EnablePlugin(c) ==
  IF c.op = "enable" /\ ~plugServer[c.plugin].ready
  THEN plugServer' = plugServer /\ c.phase = "missing"
  ELSE \/ plugServer' = [plugServer EXCEPT ![c.plugin].enabled = (c.op = "enable")]
          /\ c.phase = "ok"
       \/ plugServer' = plugServer /\ c.phase = "no"

UpdatePluginConfig(c) ==
  \/ plugServer' = [plugServer EXCEPT ![c.plugin].ready = c.filled] /\ c.phase = "ok"
  \/ plugServer' = plugServer /\ c.phase = "no"

Handle(c) ==
  /\ c.phase = "sent"
  /\ \E phase \in {"ok", "missing", "no"} :
       LET done == [c EXCEPT !.phase = phase,
                             !.filled = IF c.op = "config" THEN plugServer[c.plugin].ready
                                        ELSE @]
       IN  /\ plugCalls' = (plugCalls \ {c}) \cup {done}
           /\ CASE c.op \in {"enable", "disable"} -> EnablePlugin(done)
                [] c.op = "save" -> UpdatePluginConfig(done)
                [] OTHER -> phase # "missing" /\ UNCHANGED plugServer
  /\ UNCHANGED <<plugShown, plugPage, plugOnly, modal, plugCrossed, plugInputs>>

-----------------------------------------------------------------------------
(* The answers *)

Fails(c) == plugPage' = IF c.phase = "no" THEN "error" ELSE plugPage

\* Faulty: a plugin whose required fields are not set is taken to be enabled
ReceiveActionAsAsked(c) ==
  /\ plugShown' = IF c.phase = "no" THEN plugShown
                  ELSE IF c.op = "enable" THEN plugShown \cup {c.plugin}
                  ELSE plugShown \ {c.plugin}
  /\ Fails(c)
  /\ IF c.phase = "missing" THEN SetDetail(c.plugin, "config", plugCalls \ {c})
     ELSE plugCalls' = plugCalls \ {c} /\ UNCHANGED modal

\* The detail opens on the configuration when a required field is not set.
ReceiveAction(c) ==
  /\ plugShown' = IF c.phase # "ok" THEN plugShown
                  ELSE IF c.op = "enable" THEN plugShown \cup {c.plugin}
                  ELSE plugShown \ {c.plugin}
  /\ Fails(c)
  /\ IF c.phase = "missing" THEN SetDetail(c.plugin, "config", plugCalls \ {c})
     ELSE plugCalls' = plugCalls \ {c} /\ UNCHANGED modal

\* Faulty: the effect without its cancelled flag
ReceiveAnyConfig(c) ==
  /\ IF c.phase = "ok" THEN plugConfig' = c.plugin /\ plugFilled' = c.filled
     ELSE UNCHANGED <<plugConfig, plugFilled>>
  /\ plugCalls' = plugCalls \ {c}
  /\ UNCHANGED <<plugShown, plugPage, plugDetail, plugStart, plugTab>>

\* An answer that is no longer waited for is dropped.
ReceiveConfig(c) ==
  /\ IF c.live /\ c.phase = "ok"
     THEN plugConfig' = c.plugin /\ plugFilled' = c.filled
     ELSE UNCHANGED <<plugConfig, plugFilled>>
  /\ plugCalls' = plugCalls \ {c}
  /\ UNCHANGED <<plugShown, plugPage, plugDetail, plugStart, plugTab>>

ReceiveOther(c) ==
  /\ plugCalls' = plugCalls \ {c}
  /\ IF c.op = "sync" THEN Fails(c) ELSE UNCHANGED plugPage
  /\ UNCHANGED <<plugShown, modal>>

Receive(c) ==
  /\ c.phase # "sent"
  /\ UNCHANGED <<plugServer, plugOnly, plugCrossed, plugInputs>>
  /\ CASE c.op \in {"enable", "disable"} -> ReceiveAction(c)
       [] c.op = "config" -> ReceiveConfig(c)
       [] OTHER -> ReceiveOther(c)

Next ==
  \/ ListPlugins
  \/ SetFilter \/ \E p \in Cards : PluginCard(p)
  \/ DetailHeader \/ DetailBody \/ \E tab \in Tabs : SetTab(tab)
  \/ \E c \in plugCalls : Handle(c) \/ Receive(c)

Spec == Init /\ [][Next]_plugVars
-----------------------------------------------------------------------------
(* Correctness *)

\* The type of every variable
TypeOK ==
  /\ plugServer \in [Plugins -> [enabled : BOOLEAN, ready : BOOLEAN]]
  /\ plugShown \subseteq Plugins \ ComingSoon
  /\ plugPage \in {"loading", "list", "error"} /\ plugOnly \in {"all", "enabled"}
  /\ plugDetail \in Plugins \cup {None}
  /\ plugStart \in Tabs /\ plugTab \in Tabs
  /\ plugConfig \in Plugins \cup {None} /\ plugFilled \in BOOLEAN
  /\ plugCalls \subseteq Call
  /\ plugCrossed \in BOOLEAN
  /\ plugInputs \in 0..MaxPlugInputs

\* The form in the detail is the configuration of its plugin, and no configuration
\* is ever sent to another plugin, however the detail turns from one to another
\* while configurations are being loaded and saved.
SavedConfigIsOwn ==
  /\ plugConfig \in {None, plugDetail}
  /\ \A c \in Underway({"save"}) : c.of = c.plugin

\* When no plugin is being enabled or disabled the list tells the ones that are,
\* as long as nothing has been asked twice at once and no error is shown.
ListTellsEnabled ==
  plugPage = "list" /\ ~plugCrossed /\ Underway({"enable", "disable"}) = {}
    => plugShown = {p \in Plugins : plugServer[p].enabled}
=============================================================================
