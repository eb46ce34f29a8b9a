-------------------------- MODULE WebDetails_proofs --------------------------
(***************************************************************************)
(* Theorems about the pages of the client that turn from one thing to      *)
(* another while answers about the first one are on their way: the list    *)
(* and the detail of the plugins (PluginsPage) and the page of an entity   *)
(* (EntityPage), for any plugins, names, annotations and numbers of        *)
(* inputs.                                                                 *)
(***************************************************************************)
EXTENDS WebPages, TLAPS

-----------------------------------------------------------------------------
(* The detail of a plugin *)

CallFields == {"op", "plugin", "of", "filled", "live", "phase"}

\* A configuration that is still waited for is that of the plugin in the detail.
DetailAsksItsOwn ==
  \A c \in plugCalls :
    /\ CallFields \subseteq DOMAIN c
    /\ c.op \in {"list", "enable", "disable", "sync", "config", "save"}
    /\ c.op = "config" /\ c.live => c.plugin = plugDetail
    /\ c.op = "save" => c.of = c.plugin

DetailInv == DetailAsksItsOwn /\ plugConfig \in {None, plugDetail}

LEMMA PluginRequest ==
  ASSUME NEW op, NEW p
  PROVE  /\ CallFields \subseteq DOMAIN Plugin!Request(op, p)
         /\ Plugin!Request(op, p).op = op
         /\ Plugin!Request(op, p).plugin = p
         /\ Plugin!Request(op, p).phase = "sent"
  BY DEF Plugin!Request, CallFields

LEMMA DetailInit == Plugin!Init => DetailInv
<1> SUFFICES ASSUME Plugin!Init PROVE DetailInv
  OBVIOUS
<1>1. plugCalls = {} /\ plugConfig = None
  BY DEF Plugin!Init
<1> QED BY <1>1 DEF DetailInv, DetailAsksItsOwn

\* The requests that lose the part that waits for them
LEMMA LeftAsks ==
  ASSUME NEW calls, NEW ops, NEW c \in Plugin!Left(calls, ops),
         \A d \in calls : CallFields \subseteq DOMAIN d
  PROVE  \E d \in calls :
           /\ CallFields \subseteq DOMAIN c
           /\ c.op = d.op /\ c.plugin = d.plugin /\ c.of = d.of /\ c.phase = d.phase
           /\ c.op \in ops => ~c.live
           /\ c.op \notin ops => c = d
<1>1. PICK d \in calls : c = IF d.op \in ops THEN [d EXCEPT !.live = FALSE] ELSE d
  BY DEF Plugin!Left
<1>2. CASE d.op \in ops
  <2>1. ~c.live
    BY <1>1, <1>2 DEF CallFields
  <2> QED BY <1>1, <1>2, <2>1 DEF CallFields
<1>3. CASE d.op \notin ops
  BY <1>1, <1>3
<1> QED BY <1>2, <1>3

\* Whatever tab is shown, what is waited for then is of the plugin it is shown of.
LEMMA ShowTabKeeps ==
  ASSUME NEW p, NEW tab, NEW config \in {None, p}, NEW calls,
         DetailInv, calls \subseteq plugCalls, Plugin!ShowTab(p, tab, config, calls)
  PROVE  DetailInv'
<1>1. /\ plugDetail' = p /\ plugConfig' = config
      /\ plugCalls' \subseteq Plugin!Left(calls, {"config"}) \cup {Plugin!Request("config", p)}
  BY DEF Plugin!ShowTab
<1>2. DetailAsksItsOwn'
  <2> SUFFICES ASSUME NEW c \in plugCalls'
               PROVE  /\ CallFields \subseteq DOMAIN c
                      /\ c.op \in {"list", "enable", "disable", "sync", "config", "save"}
                      /\ c.op = "config" /\ c.live => c.plugin = p
                      /\ c.op = "save" => c.of = c.plugin
    BY <1>1 DEF DetailAsksItsOwn
  <2>1. CASE c = Plugin!Request("config", p)
    BY <2>1, PluginRequest
  <2>2. CASE c \in Plugin!Left(calls, {"config"})
    BY <2>2, LeftAsks DEF DetailInv, DetailAsksItsOwn
  <2> QED BY <1>1, <2>1, <2>2
<1> QED BY <1>1, <1>2 DEF DetailInv

LEMMA SetDetailKeeps ==
  ASSUME DetailInv, NEW p, NEW tab, NEW calls, calls \subseteq plugCalls,
         Plugin!SetDetail(p, tab, calls)
  PROVE  DetailInv'
<1>1. CASE plugCalls' = calls /\ UNCHANGED <<plugDetail, plugTab, plugConfig, plugFilled>>
  BY <1>1 DEF DetailInv, DetailAsksItsOwn
<1>2. ASSUME NEW shown,
             Plugin!ShowTab(p, shown, IF p = plugDetail THEN plugConfig ELSE None, calls)
      PROVE  DetailInv'
  BY <1>2, ShowTabKeeps DEF DetailInv
<1> QED BY <1>1, <1>2, Zenon DEF Plugin!SetDetail

LEMMA DetailNext == ASSUME DetailInv, Plugin!Next PROVE DetailInv'
<1>1. ASSUME UNCHANGED <<plugDetail, plugConfig>>, NEW c,
             plugCalls' \subseteq plugCalls \cup {c},
             CallFields \subseteq DOMAIN c,
             c.op \in {"list", "enable", "disable", "sync"} PROVE DetailInv'
  BY <1>1 DEF DetailInv, DetailAsksItsOwn
<1>2. CASE UNCHANGED <<plugDetail, plugConfig>> /\ plugCalls' \subseteq plugCalls
  BY <1>2 DEF DetailInv, DetailAsksItsOwn
<1>3. CASE Plugin!ListPlugins \/ Plugin!SetFilter \/ Plugin!EditForm
  BY <1>2, <1>3 DEF Plugin!ListPlugins, Plugin!SetFilter, Plugin!EditForm, Plugin!modal
<1>4. ASSUME NEW p, Plugin!HandleAction(p) \/ Plugin!HandleSync(p) PROVE DetailInv'
  <2>1. /\ UNCHANGED <<plugDetail, plugConfig>>
        /\ \E op \in {"enable", "disable", "sync"} :
             plugCalls' = plugCalls \cup {Plugin!Request(op, p)}
    BY <1>4 DEF Plugin!HandleAction, Plugin!HandleSync, Plugin!modal
  <2> QED BY <1>1, <2>1, PluginRequest
<1>5. ASSUME NEW p, NEW tab, Plugin!OpenDetail(p, tab) PROVE DetailInv'
  BY <1>5, SetDetailKeeps DEF Plugin!OpenDetail
<1>6. CASE Plugin!CloseDetail
  <2>1. /\ plugDetail' = None /\ plugConfig' = None
        /\ plugCalls' = Plugin!Left(plugCalls, {"config", "save"})
    BY <1>6 DEF Plugin!CloseDetail
  <2> QED BY <2>1, LeftAsks DEF DetailInv, DetailAsksItsOwn
<1>7. ASSUME NEW tab, Plugin!SetTab(tab) PROVE DetailInv'
  BY <1>7, ShowTabKeeps DEF Plugin!SetTab, DetailInv
<1>8. CASE Plugin!HandleSave
  <2> DEFINE r == [Plugin!Request("save", plugDetail) EXCEPT !.of = plugConfig,
                                                            !.filled = plugFilled]
  <2>1. UNCHANGED <<plugDetail, plugConfig>> /\ plugCalls' = plugCalls \cup {r}
    BY <1>8, Zenon DEF Plugin!HandleSave, Plugin!modal
  <2>2. plugConfig = plugDetail
    BY <1>8 DEF Plugin!HandleSave, Plugin!FormShown, DetailInv
  <2>3. /\ CallFields \subseteq DOMAIN r /\ r.op = "save" /\ r.of = plugConfig
        /\ r.plugin = plugDetail
    BY PluginRequest DEF CallFields
  <2> HIDE DEF r
  <2> QED BY <2>1, <2>2, <2>3 DEF DetailInv, DetailAsksItsOwn
<1>9. ASSUME NEW c \in plugCalls, Plugin!Handle(c) PROVE DetailInv'
  <2>1. PICK d : /\ plugCalls' = (plugCalls \ {c}) \cup {d}
                 /\ \E phase, filled : d = [c EXCEPT !.phase = phase, !.filled = filled]
    BY <1>9, Zenon DEF Plugin!Handle
  <2>2. UNCHANGED <<plugDetail, plugConfig>>
    BY <1>9 DEF Plugin!Handle, Plugin!modal
  <2>3. /\ DOMAIN d = DOMAIN c /\ d.op = c.op /\ d.live = c.live
        /\ d.plugin = c.plugin /\ d.of = c.of
    BY <2>1 DEF DetailInv, DetailAsksItsOwn, CallFields
  <2> QED BY <2>1, <2>2, <2>3 DEF DetailInv, DetailAsksItsOwn
<1>10. ASSUME NEW c \in plugCalls, Plugin!Receive(c) PROVE DetailInv'
  <2>1. \/ Plugin!ReceiveAction(c)
        \/ c.op = "config" /\ Plugin!ReceiveConfig(c)
        \/ Plugin!ReceiveOther(c)
    BY <1>10, Zenon DEF Plugin!Receive
  <2>2. CASE Plugin!ReceiveAction(c)
    <3>1. \/ Plugin!SetDetail(c.plugin, "config", plugCalls \ {c})
          \/ plugCalls' = plugCalls \ {c} /\ UNCHANGED <<plugDetail, plugConfig>>
      BY <2>2, Zenon DEF Plugin!ReceiveAction, Plugin!modal
    <3> QED BY <1>2, <3>1, SetDetailKeeps
  <2>3. CASE c.op = "config" /\ Plugin!ReceiveConfig(c)
    <3>1. /\ plugDetail' = plugDetail /\ plugCalls' = plugCalls \ {c}
          /\ plugConfig' \in {plugConfig, plugDetail}
      BY <2>3 DEF Plugin!ReceiveConfig, DetailInv, DetailAsksItsOwn
    <3> QED BY <3>1 DEF DetailInv, DetailAsksItsOwn
  <2>4. CASE Plugin!ReceiveOther(c)
    BY <1>2, <2>4 DEF Plugin!ReceiveOther, Plugin!modal
  <2> QED BY <2>1, <2>2, <2>3, <2>4
<1> QED
  BY <1>3, <1>4, <1>5, <1>6, <1>7, <1>8, <1>9, <1>10, Zenon
     DEF Plugin!Next, Plugin!PluginCard, Plugin!DetailHeader, Plugin!DetailBody

\* A step of the window is a step of the plugins, or none, if it is open there.
LEMMA PluginStep ==
  [Next]_vars => page' = page /\ (page = "plugins" => Plugin!Next \/ UNCHANGED plugVars)
  BY Zenon DEF Next, Alone, vars

LEMMA DetailStutter == DetailInv /\ UNCHANGED plugVars => DetailInv'
  BY DEF DetailInv, DetailAsksItsOwn, plugVars

\* The form in the detail is its plugin's, and a configuration is sent to the plugin it
\* was loaded from, however often the detail turns while answers are on their way.
THEOREM ConfigsGoToTheirPlugin == Spec => []SavedConfigIsOwn
<1> DEFINE Inv == page = "plugins" => DetailInv
<1>1. Init => Inv
  BY DetailInit DEF Init
<1>2. Inv /\ [Next]_vars => Inv'
  BY PluginStep, DetailNext, DetailStutter
<1>3. Inv => SavedConfigIsOwn
  BY DEF SavedConfigIsOwn, Plugin!SavedConfigIsOwn, Plugin!Underway, DetailInv,
         DetailAsksItsOwn
<1> QED BY <1>1, <1>2, <1>3, PTL DEF Spec

-----------------------------------------------------------------------------
(* The list of plugins *)

ActionOps == {"enable", "disable"}

\* The requests that enable or disable
Acts(calls) == {c \in calls : c.op \in ActionOps}

\* Is a plugin listed as the server has it?
Agrees(p) == p \in plugShown <=> plugServer[p].enabled

\* What a request has done about its plugin so far is what its answer says.
Underway(c) ==
  /\ c.phase = "ok" => (plugServer[c.plugin].enabled <=> c.op = "enable")
  /\ c.phase # "ok" => Agrees(c.plugin)

\* As long as nothing has been asked twice at once: every plugin is listed as the server
\* has it, or has one request on its way.
ListAgrees ==
  /\ \A c, d \in Acts(plugCalls) : c.plugin = d.plugin => c = d
  /\ \A c \in Acts(plugCalls) : Underway(c)
  /\ \A p \in Plugins : (\A c \in Acts(plugCalls) : c.plugin # p) => Agrees(p)

\* Nothing is asked for before the list is there.
ListTyped ==
  /\ DOMAIN plugServer = Plugins
  /\ \A p \in Plugins : {"enabled", "ready"} \subseteq DOMAIN plugServer[p]
  /\ plugShown \subseteq Plugins
  /\ plugDetail \in Plugins \cup {None}
  /\ \A c \in Acts(plugCalls) : c.plugin \in Plugins
  /\ plugPage = "loading" => plugDetail = None /\ plugCalls = {}

ListInv == DetailInv /\ ListTyped /\ (plugPage = "list" /\ ~plugCrossed => ListAgrees)

LEMMA ListInit == Plugin!Init => ListTyped /\ plugPage # "list"
<1> SUFFICES ASSUME Plugin!Init PROVE ListTyped /\ plugPage # "list"
  OBVIOUS
<1>1. /\ plugCalls = {} /\ plugDetail = None /\ plugShown = {} /\ plugPage = "loading"
      /\ plugServer \in [Plugins -> [enabled : BOOLEAN, ready : BOOLEAN]]
  BY DEF Plugin!Init
<1> QED BY <1>1 DEF ListTyped, Acts

\* What is neither enabled nor disabled changes nothing about the list.
LEMMA ListUndisturbed ==
  ASSUME ListInv, DetailInv', plugPage # "loading",
         DOMAIN plugServer' = Plugins,
         \A p \in Plugins : /\ {"enabled", "ready"} \subseteq DOMAIN plugServer'[p]
                            /\ plugServer'[p].enabled <=> plugServer[p].enabled,
         UNCHANGED <<plugShown, plugCrossed>>, plugPage' \in {plugPage, "error"},
         plugDetail' \in Plugins \cup {None}, Acts(plugCalls)' = Acts(plugCalls)
  PROVE  ListInv'
<1>1. ListTyped'
  BY DEF ListInv, ListTyped
<1>2. ListTyped
  BY DEF ListInv
<1>3. \A p \in Plugins : Agrees(p)' <=> Agrees(p)
  BY DEF Agrees
<1>4. \A c \in Acts(plugCalls) : Underway(c)' <=> Underway(c)
  BY <1>2, <1>3 DEF Underway, ListTyped
<1>5. ListAgrees => ListAgrees'
  BY <1>3, <1>4 DEF ListAgrees
<1>6. plugPage' = "list" => plugPage = "list"
  OBVIOUS
<1> QED BY <1>1, <1>5, <1>6 DEF ListInv

LEMMA ShowTabActs ==
  ASSUME NEW p, NEW tab, NEW config, NEW calls, \A d \in calls : CallFields \subseteq DOMAIN d,
         Plugin!ShowTab(p, tab, config, calls)
  PROVE  plugDetail' = p /\ Acts(plugCalls') = Acts(calls)
<1>1. Acts(Plugin!Left(calls, {"config"})) = Acts(calls)
  <2>1. ASSUME NEW c \in Acts(Plugin!Left(calls, {"config"})) PROVE c \in Acts(calls)
    BY <2>1, LeftAsks DEF Acts, ActionOps
  <2>2. ASSUME NEW c \in Acts(calls) PROVE c \in Acts(Plugin!Left(calls, {"config"}))
    BY <2>2 DEF Acts, ActionOps, Plugin!Left
  <2> QED BY <2>1, <2>2
<1>2. Plugin!Request("config", p).op \notin ActionOps
  BY PluginRequest DEF ActionOps
<1> QED BY <1>1, <1>2 DEF Plugin!ShowTab, Acts

LEMMA SetDetailActs ==
  ASSUME NEW p, NEW tab, NEW calls, \A d \in calls : CallFields \subseteq DOMAIN d,
         Plugin!SetDetail(p, tab, calls)
  PROVE  plugDetail' = p /\ Acts(plugCalls') = Acts(calls)
<1>1. \/ p = plugDetail /\ plugCalls' = calls /\ plugDetail' = plugDetail
      \/ \E shown, config : Plugin!ShowTab(p, shown, config, calls)
  BY Zenon DEF Plugin!SetDetail
<1> QED BY <1>1, ShowTabActs

\* What the user does but for enabling and disabling
LEMMA ListInputs ==
  ASSUME ListInv, DetailInv', plugPage # "loading",
         \/ Plugin!SetFilter \/ Plugin!EditForm \/ Plugin!HandleSave \/ Plugin!CloseDetail
         \/ \E tab : Plugin!SetTab(tab)
         \/ \E p \in Plugins : Plugin!HandleSync(p) \/ \E tab : Plugin!OpenDetail(p, tab)
  PROVE  ListInv'
<1>1. /\ ListTyped /\ \A d \in plugCalls : CallFields \subseteq DOMAIN d
  BY DEF ListInv, DetailInv, DetailAsksItsOwn
<1>2. UNCHANGED <<plugServer, plugShown, plugPage, plugCrossed>>
  BY Zenon DEF Plugin!SetFilter, Plugin!EditForm, Plugin!HandleSave, Plugin!CloseDetail,
               Plugin!SetTab, Plugin!HandleSync, Plugin!OpenDetail
<1>3. ASSUME plugDetail' \in Plugins \cup {None}, Acts(plugCalls') = Acts(plugCalls)
      PROVE  ListInv'
  <2>1. Acts(plugCalls)' = Acts(plugCalls)
    BY <1>3 DEF Acts
  <2>2. plugServer' = plugServer
    BY <1>2
  <2> QED BY <1>1, <1>2, <1>3, <2>1, <2>2, ListUndisturbed DEF ListTyped
<1>4. CASE Plugin!SetFilter \/ Plugin!EditForm
  BY <1>1, <1>3, <1>4 DEF Plugin!SetFilter, Plugin!EditForm, Plugin!modal, ListTyped
<1>5. CASE Plugin!HandleSave
  <2> DEFINE r == [Plugin!Request("save", plugDetail) EXCEPT !.of = plugConfig,
                                                            !.filled = plugFilled]
  <2>1. plugDetail' = plugDetail /\ plugCalls' = plugCalls \cup {r}
    BY <1>5, Zenon DEF Plugin!HandleSave, Plugin!modal
  <2>2. r.op \notin ActionOps
    BY PluginRequest DEF CallFields, ActionOps
  <2> HIDE DEF r
  <2> QED BY <1>1, <1>3, <2>1, <2>2 DEF Acts, ListTyped
<1>6. CASE Plugin!CloseDetail
  <2>1. plugDetail' = None /\ plugCalls' = Plugin!Left(plugCalls, {"config", "save"})
    BY <1>6 DEF Plugin!CloseDetail
  <2>2. ASSUME NEW c \in Acts(plugCalls') PROVE c \in Acts(plugCalls)
    BY <1>1, <2>1, <2>2, LeftAsks DEF Acts, ActionOps
  <2>3. ASSUME NEW c \in Acts(plugCalls) PROVE c \in Acts(plugCalls')
    BY <2>1, <2>3 DEF Acts, ActionOps, Plugin!Left
  <2> QED BY <1>3, <2>1, <2>2, <2>3
<1>7. ASSUME NEW tab, Plugin!SetTab(tab) PROVE ListInv'
  BY <1>1, <1>3, <1>7, ShowTabActs DEF Plugin!SetTab, ListTyped
<1>8. ASSUME NEW p \in Plugins, Plugin!HandleSync(p) PROVE ListInv'
  <2>1. plugDetail' = plugDetail /\ plugCalls' = plugCalls \cup {Plugin!Request("sync", p)}
    BY <1>8, Zenon DEF Plugin!HandleSync, Plugin!modal
  <2>2. Plugin!Request("sync", p).op \notin ActionOps
    BY PluginRequest DEF ActionOps
  <2> QED BY <1>1, <1>3, <2>1, <2>2 DEF Acts, ListTyped
<1>9. ASSUME NEW p \in Plugins, NEW tab, Plugin!OpenDetail(p, tab) PROVE ListInv'
  BY <1>1, <1>3, <1>9, SetDetailActs DEF Plugin!OpenDetail
<1> QED BY <1>4, <1>5, <1>6, <1>7, <1>8, <1>9

\* A plugin is asked to be enabled or disabled.
LEMMA ListActs ==
  ASSUME ListInv, DetailInv', plugPage # "loading",
         NEW p \in Plugins, Plugin!HandleAction(p)
  PROVE  ListInv'
<1>1. PICK op \in ActionOps : plugCalls' = plugCalls \cup {Plugin!Request(op, p)}
  BY Zenon DEF Plugin!HandleAction, ActionOps
<1>2. /\ UNCHANGED <<plugServer, plugShown, plugPage, plugDetail>>
      /\ ~plugCrossed' => /\ ~plugCrossed
                          /\ \A c \in Acts(plugCalls) : c.plugin # p
  BY Zenon DEF Plugin!HandleAction, Plugin!modal, Plugin!Underway, Acts, ActionOps
<1> DEFINE r == Plugin!Request(op, p)
<1>3. r.op = op /\ r.plugin = p /\ r.phase = "sent"
  BY PluginRequest
<1>4. plugCalls' = plugCalls \cup {r}
  BY <1>1
<1> HIDE DEF r
<1>5. Acts(plugCalls)' = Acts(plugCalls) \cup {r}
  BY <1>3, <1>4 DEF Acts
<1>6. ListTyped'
  BY <1>2, <1>3, <1>5 DEF ListInv, ListTyped
<1>7. ASSUME ListAgrees, \A c \in Acts(plugCalls) : c.plugin # p PROVE ListAgrees'
  <2>1. Agrees(p)
    BY <1>7 DEF ListAgrees
  <2> QED BY <1>2, <1>3, <1>5, <1>7, <2>1 DEF ListAgrees, Underway, Agrees
<1> QED BY <1>2, <1>6, <1>7 DEF ListInv

\* The server handles a request.
LEMMA ListHandled ==
  ASSUME ListInv, DetailInv', NEW c \in plugCalls, Plugin!Handle(c)
  PROVE  ListInv'
<1> DEFINE done(phase) ==
             [c EXCEPT !.phase = phase,
                       !.filled = IF c.op = "config" THEN plugServer[c.plugin].ready ELSE @]
<1>0. PICK phase \in {"ok", "missing", "no"} :
        /\ plugCalls' = (plugCalls \ {c}) \cup {done(phase)}
        /\ CASE c.op \in {"enable", "disable"} -> Plugin!EnablePlugin(done(phase))
             [] c.op = "save" -> Plugin!UpdatePluginConfig(done(phase))
             [] OTHER -> phase # "missing" /\ UNCHANGED plugServer
  BY Zenon DEF Plugin!Handle
<1>d. PICK d : d = done(phase)
  OBVIOUS
<1>1. /\ phase \in {"ok", "missing", "no"}
      /\ \E filled : d = [c EXCEPT !.phase = phase, !.filled = filled]
      /\ plugCalls' = (plugCalls \ {c}) \cup {d}
      /\ CASE c.op \in {"enable", "disable"} -> Plugin!EnablePlugin(d)
           [] c.op = "save" -> Plugin!UpdatePluginConfig(d)
           [] OTHER -> phase # "missing" /\ UNCHANGED plugServer
  BY <1>0, <1>d
<1> HIDE DEF done
<1>2. /\ UNCHANGED <<plugShown, plugPage, plugCrossed, plugDetail>> /\ c.phase = "sent"
  BY DEF Plugin!Handle, Plugin!modal
<1>3. d.op = c.op /\ d.plugin = c.plugin /\ d.phase = phase
  BY <1>1 DEF ListInv, DetailInv, DetailAsksItsOwn, CallFields
<1>4. ListTyped /\ plugPage # "loading"
  BY DEF ListInv, ListTyped
<1>5. CASE c.op \in ActionOps
  <2>1. c.plugin \in Plugins
    BY <1>4, <1>5 DEF ListTyped, Acts
  <2>2. \/ plugServer' = plugServer /\ phase # "ok"
        \/ /\ plugServer' = [plugServer EXCEPT ![c.plugin].enabled = (d.op = "enable")]
           /\ phase = "ok"
    BY <1>1, <1>3, <1>5 DEF Plugin!EnablePlugin, ActionOps
  <2>3. Acts(plugCalls)' = (Acts(plugCalls) \ {c}) \cup {d}
    BY <1>1, <1>3, <1>5 DEF Acts
  <2>4. /\ DOMAIN plugServer' = Plugins
        /\ \A p \in Plugins : {"enabled", "ready"} \subseteq DOMAIN plugServer'[p]
        /\ \A p \in Plugins \ {c.plugin} : plugServer'[p] = plugServer[p]
        /\ phase # "ok" => plugServer' = plugServer
    BY <1>4, <2>1, <2>2 DEF ListTyped
  <2>5. phase = "ok" => (plugServer'[c.plugin].enabled <=> c.op = "enable")
    <3> SUFFICES ASSUME phase = "ok" PROVE plugServer'[c.plugin].enabled <=> d.op = "enable"
      BY <1>3
    <3>1. plugServer'[c.plugin] = [plugServer[c.plugin] EXCEPT !.enabled = (d.op = "enable")]
      BY <1>4, <2>1, <2>2 DEF ListTyped
    <3>2. "enabled" \in DOMAIN plugServer[c.plugin]
      BY <1>4, <2>1 DEF ListTyped
    <3> QED BY <3>1, <3>2
  <2>6. ListTyped'
    BY <1>2, <1>3, <1>4, <2>1, <2>3, <2>4 DEF ListTyped
  <2>7. ASSUME ListAgrees PROVE ListAgrees'
    <3>1. \A e \in Acts(plugCalls) \ {c} : e.plugin \in Plugins \ {c.plugin}
      BY <1>4, <1>5, <2>7 DEF ListAgrees, ListTyped, Acts
    <3>2. Agrees(c.plugin)
      BY <1>2, <1>5, <2>7 DEF ListAgrees, Underway, Acts
    <3>3. Underway(d)'
      BY <1>2, <1>3, <2>4, <2>5, <3>2 DEF Underway, Agrees
    <3>4. \A p \in Plugins \ {c.plugin} : Agrees(p)' <=> Agrees(p)
      BY <1>2, <2>4 DEF Agrees
    <3>5. \A e \in Acts(plugCalls) \ {c} : Underway(e)'
      BY <2>4, <2>7, <3>1, <3>4 DEF ListAgrees, Underway
    <3>6. \A e, f \in Acts(plugCalls)' : e.plugin = f.plugin => e = f
      BY <1>3, <2>3, <2>7, <3>1 DEF ListAgrees
    <3>7. ASSUME NEW p \in Plugins, \A e \in Acts(plugCalls)' : e.plugin # p
          PROVE  Agrees(p)'
      <4>1. p # c.plugin /\ \A e \in Acts(plugCalls) : e.plugin # p
        BY <1>3, <2>3, <3>7
      <4> QED BY <2>7, <3>4, <4>1 DEF ListAgrees
    <3> QED BY <2>3, <3>3, <3>5, <3>6, <3>7 DEF ListAgrees
  <2> QED BY <1>2, <2>6, <2>7 DEF ListInv
<1>6. CASE c.op \notin ActionOps
  <2>1. \/ plugServer' = plugServer
        \/ plugServer' = [plugServer EXCEPT ![c.plugin].ready = d.filled]
    BY <1>1, <1>3, <1>6 DEF Plugin!UpdatePluginConfig, ActionOps
  <2>2. /\ DOMAIN plugServer' = Plugins
        /\ \A p \in Plugins : /\ {"enabled", "ready"} \subseteq DOMAIN plugServer'[p]
                              /\ plugServer'[p].enabled <=> plugServer[p].enabled
    BY <1>4, <2>1 DEF ListTyped
  <2>3. Acts(plugCalls)' = Acts(plugCalls)
    BY <1>1, <1>3, <1>6 DEF Acts
  <2> QED BY <1>2, <1>4, <2>2, <2>3, ListUndisturbed DEF ListTyped
<1> QED BY <1>5, <1>6

\* The page is told.
LEMMA ListReceives ==
  ASSUME ListInv, DetailInv', NEW c \in plugCalls, Plugin!Receive(c)
  PROVE  ListInv'
<1>1. ListTyped /\ plugPage # "loading" /\ \A d \in plugCalls : CallFields \subseteq DOMAIN d
  BY DEF ListInv, ListTyped, DetailInv, DetailAsksItsOwn
<1>2. plugServer' = plugServer /\ plugCrossed' = plugCrossed
  BY DEF Plugin!Receive
<1>3. CASE c.op \in ActionOps
  <2>1. Plugin!ReceiveAction(c)
    BY <1>3, Zenon DEF Plugin!Receive, ActionOps
  <2>2. c.plugin \in Plugins
    BY <1>1, <1>3 DEF ListTyped, Acts
  <2>3. /\ plugShown' = IF c.phase # "ok" THEN plugShown
                        ELSE IF c.op = "enable" THEN plugShown \cup {c.plugin}
                        ELSE plugShown \ {c.plugin}
        /\ plugPage' \in {plugPage, "error"}
    BY <2>1 DEF Plugin!ReceiveAction, Plugin!Fails
  <2>4. /\ plugDetail' \in {plugDetail, c.plugin}
        /\ Acts(plugCalls') = Acts(plugCalls \ {c})
    <3>1. \/ Plugin!SetDetail(c.plugin, "config", plugCalls \ {c})
          \/ plugCalls' = plugCalls \ {c} /\ plugDetail' = plugDetail
      BY <2>1, Zenon DEF Plugin!ReceiveAction, Plugin!modal
    <3> QED BY <1>1, <3>1, SetDetailActs
  <2>5. Acts(plugCalls)' = Acts(plugCalls) \ {c}
    BY <2>4 DEF Acts
  <2>6. ListTyped'
    BY <1>1, <1>2, <2>2, <2>3, <2>4, <2>5 DEF ListTyped
  <2>7. ASSUME ListAgrees PROVE ListAgrees'
    <3>1. Underway(c) /\ \A e \in Acts(plugCalls) \ {c} : e.plugin \in Plugins \ {c.plugin}
      BY <1>1, <1>3, <2>7 DEF ListAgrees, ListTyped, Acts
    <3>2. \A p \in Plugins \ {c.plugin} : Agrees(p)' <=> Agrees(p)
      BY <1>2, <2>3 DEF Agrees
    <3>3. Agrees(c.plugin)'
      BY <1>2, <1>3, <2>3, <3>1 DEF Underway, Agrees, ActionOps
    <3>4. \A e \in Acts(plugCalls) \ {c} : Underway(e)'
      BY <1>2, <2>7, <3>1, <3>2 DEF ListAgrees, Underway
    <3>5. ASSUME NEW p \in Plugins, \A e \in Acts(plugCalls) \ {c} : e.plugin # p,
                 p # c.plugin
          PROVE  Agrees(p)'
      <4>1. \A e \in Acts(plugCalls) : e.plugin # p
        BY <3>5
      <4> QED BY <2>7, <3>2, <3>5, <4>1 DEF ListAgrees
    <3> QED BY <2>5, <2>7, <3>3, <3>4, <3>5 DEF ListAgrees
  <2> QED BY <1>2, <2>3, <2>6, <2>7 DEF ListInv
<1>4. CASE c.op \notin ActionOps
  <2>1. Plugin!ReceiveConfig(c) \/ Plugin!ReceiveOther(c)
    BY <1>4, Zenon DEF Plugin!Receive, ActionOps
  <2>2. /\ plugCalls' = plugCalls \ {c} /\ UNCHANGED <<plugShown, plugDetail>>
        /\ plugPage' \in {plugPage, "error"}
    BY <2>1 DEF Plugin!ReceiveConfig, Plugin!ReceiveOther, Plugin!Fails, Plugin!modal
  <2>3. Acts(plugCalls)' = Acts(plugCalls)
    BY <1>4, <2>2 DEF Acts
  <2> QED BY <1>1, <1>2, <2>2, <2>3, ListUndisturbed DEF ListTyped
<1> QED BY <1>3, <1>4

LEMMA ListNext == ASSUME ListInv, Plugin!Next PROVE ListInv'
<1>1. DetailInv'
  BY DetailNext DEF ListInv
<1>2. CASE Plugin!ListPlugins
  <2>1. /\ UNCHANGED <<plugServer, plugDetail, plugCalls>> /\ plugCalls = {}
        /\ \/ plugPage' = "list" /\ plugShown' = {p \in Plugins : plugServer[p].enabled}
           \/ plugPage' = "error" /\ plugShown' = plugShown
    BY <1>2 DEF Plugin!ListPlugins, Plugin!modal, ListInv, ListTyped
  <2>2. ListTyped'
    BY <2>1 DEF ListInv, ListTyped, Acts
  <2>3. plugPage' = "list" => ListAgrees'
    BY <2>1 DEF ListAgrees, Acts, Agrees
  <2> QED BY <1>1, <2>2, <2>3 DEF ListInv
<1>3. CASE Plugin!SetFilter /\ plugPage = "loading"
  <2>1. UNCHANGED <<plugServer, plugShown, plugPage, plugDetail, plugCalls>>
    BY <1>3 DEF Plugin!SetFilter, Plugin!modal
  <2>2. ListTyped'
    BY <2>1 DEF ListInv, ListTyped, Acts
  <2> QED BY <1>1, <1>3, <2>1, <2>2 DEF ListInv
<1>4. ASSUME NEW p \in Plugin!Cards PROVE p \in Plugins /\ plugPage # "loading"
  BY DEF Plugin!Cards, Plugin!Filtered, ListInv, ListTyped
<1>5. plugDetail # None => plugDetail \in Plugins /\ plugPage # "loading"
  BY DEF ListInv, ListTyped
<1>6. Plugin!EditForm \/ Plugin!HandleSave => plugDetail # None
  BY DEF Plugin!EditForm, Plugin!HandleSave, Plugin!FormShown, ListInv, DetailInv
<1>7. CASE \/ Plugin!SetFilter /\ plugPage # "loading"
           \/ Plugin!DetailBody
           \/ \E tab \in Plugin!Tabs : Plugin!SetTab(tab)
  BY <1>1, <1>5, <1>6, <1>7, ListInputs, Zenon DEF Plugin!DetailBody, Plugin!SetTab
<1>8. ASSUME NEW p \in Plugin!Cards, Plugin!PluginCard(p) PROVE ListInv'
  BY <1>1, <1>4, <1>8, ListInputs, ListActs, Zenon DEF Plugin!PluginCard
<1>9. CASE Plugin!DetailHeader
  BY <1>1, <1>5, <1>9, ListInputs, ListActs, Zenon DEF Plugin!DetailHeader
<1>10. ASSUME NEW c \in plugCalls, Plugin!Handle(c) \/ Plugin!Receive(c) PROVE ListInv'
  BY <1>1, <1>10, ListHandled, ListReceives
<1> QED BY <1>2, <1>3, <1>7, <1>8, <1>9, <1>10, Zenon DEF Plugin!Next

LEMMA ListStutter == ListInv /\ UNCHANGED plugVars => ListInv'
<1> SUFFICES ASSUME ListInv, UNCHANGED plugVars PROVE ListInv'
  OBVIOUS
<1>1. DetailInv'
  BY DetailStutter DEF ListInv
<1>2. UNCHANGED <<plugServer, plugShown, plugPage, plugDetail, plugCalls, plugCrossed>>
  BY DEF plugVars
<1> QED BY <1>1, <1>2 DEF ListInv, ListTyped, ListAgrees, Acts, Underway, Agrees

\* When nothing is being enabled or disabled the list tells what is, unless something was
\* asked twice at once or an error is shown.
THEOREM TheListTells == Spec => []ListTellsEnabled
<1> DEFINE Inv == page = "plugins" => ListInv
<1>1. Init => Inv
  BY DetailInit, ListInit DEF Init, ListInv
<1>2. Inv /\ [Next]_vars => Inv'
  BY PluginStep, ListNext, ListStutter
<1>3. Inv => ListTellsEnabled
  <2> SUFFICES ASSUME page = "plugins", ListInv, plugPage = "list", ~plugCrossed,
                      Plugin!Underway({"enable", "disable"}) = {}
               PROVE  plugShown = {p \in Plugins : plugServer[p].enabled}
    BY DEF ListTellsEnabled, Plugin!ListTellsEnabled
  <2>1. Acts(plugCalls) = {}
    BY DEF Acts, ActionOps, Plugin!Underway
  <2>2. \A p \in Plugins : Agrees(p)
    BY <2>1 DEF ListInv, ListAgrees
  <2> QED BY <2>2 DEF Agrees, ListInv, ListTyped
<1> QED BY <1>1, <1>2, <1>3, PTL DEF Spec

-----------------------------------------------------------------------------
(* The page of an entity *)

EntityFields == {"op", "for", "with", "shown", "live", "phase"}

EntityAsks ==
  \A c \in entCalls :
    /\ EntityFields \subseteq DOMAIN c
    /\ c.phase \in {"sent", "ok", "no"}
    /\ c.op = "load" /\ c.phase = "ok" => c.with.name = c.for
    /\ c.op = "update" =>
         \A p \in Entity!Parents :
           c.with.annotations \cap Dependent[p] # {} => p \in c.with.annotations

\* As long as the address has not changed under a request: what is waited for is of
\* the address; while an entity is being loaded nothing else is; what is saved or
\* deleted is what was shown, and what is saved has the annotations shown that have
\* no field.
LiveAsks ==
  \A c \in entCalls : c.live =>
    /\ c.for = entAt
    /\ c.op = "load" => entLoading /\ \A d \in entCalls : d.live => d = c
    /\ c.op \in {"update", "delete"} => c.for = c.shown
    /\ c.op = "update" =>
         c.with.annotations \ Entity!Fields = entShown.annotations \ Entity!Fields

ShownIsAtAddress == Entity!Shown => entShown.name = entAt

EntityInv == EntityAsks /\ (~entCrossed => LiveAsks /\ ShownIsAtAddress)

LEMMA EntityInit == Entity!Init => EntityInv
<1> SUFFICES ASSUME Entity!Init PROVE EntityInv
  OBVIOUS
<1>1. entCalls = {} /\ entAt = None
  BY DEF Entity!Init
<1> QED BY <1>1 DEF EntityInv, EntityAsks, LiveAsks, ShownIsAtAddress, Entity!Shown

LEMMA EntityRequest ==
  ASSUME NEW op, NEW n, NEW body
  PROVE  LET r == Entity!Request(op, n, body)
         IN  /\ EntityFields \subseteq DOMAIN r
             /\ r.op = op /\ r.for = n /\ r.with = body /\ r.shown = entShown.name
             /\ r.live /\ r.phase = "sent"
  BY DEF Entity!Request, EntityFields

\* Another address is loaded: what was waited for is of the one before, so that it is
\* noted if there is any.
LEMMA LoadEntityKeeps ==
  ASSUME EntityInv, NEW n, NEW calls, calls \subseteq entCalls, Entity!LoadEntity(n, calls)
  PROVE  EntityInv'
<1> DEFINE r == Entity!Request("load", n, Entity!NoEntity)
<1>1. entAt' = n /\ entCalls' = calls \cup {r}
  BY Zenon DEF Entity!LoadEntity
<1>2. entLoading'
  BY Zenon DEF Entity!LoadEntity
<1>3. ~entCrossed' => ~entCrossed /\ \A c \in calls : ~c.live
  BY Zenon DEF Entity!LoadEntity
<1>4. /\ EntityFields \subseteq DOMAIN r /\ r.op = "load" /\ r.for = n /\ r.phase = "sent"
  BY EntityRequest
<1> HIDE DEF r
<1>5. EntityAsks'
  BY <1>1, <1>4 DEF EntityInv, EntityAsks
<1>6. ~entCrossed' => LiveAsks'
  BY <1>1, <1>2, <1>3, <1>4 DEF LiveAsks
<1>7. ShownIsAtAddress'
  BY <1>2, Zenon DEF ShownIsAtAddress, Entity!Shown
<1> QED BY <1>5, <1>6, <1>7 DEF EntityInv

LEMMA LeaveKeeps ==
  ASSUME EntityInv, NEW calls, calls \subseteq entCalls, Entity!Leave(calls)
  PROVE  EntityInv'
<1>1. entAt' = None /\ entCalls' = {[c EXCEPT !.live = FALSE] : c \in calls}
  BY Zenon DEF Entity!Leave
<1>2. \A c \in entCalls' : \E d \in entCalls :
        /\ EntityFields \subseteq DOMAIN c /\ ~c.live
        /\ c.op = d.op /\ c.phase = d.phase /\ c.with = d.with /\ c.for = d.for
  BY <1>1 DEF EntityInv, EntityAsks, EntityFields
<1>3. EntityAsks'
  BY <1>2 DEF EntityInv, EntityAsks
<1>4. LiveAsks'
  BY <1>2 DEF LiveAsks
<1>5. ShownIsAtAddress'
  BY <1>1, Zenon DEF ShownIsAtAddress, Entity!Shown
<1> QED BY <1>3, <1>4, <1>5 DEF EntityInv

\* What is merged has the annotations without a field, and none without the one it
\* belongs to.
LEMMA MergedKeepsTheRest ==
  ASSUME NEW annotations, NEW filled
  PROVE  /\ Entity!Merged(annotations, filled) \ Entity!Fields
              = annotations \ Entity!Fields
         /\ \A p \in Entity!Parents :
              Entity!Merged(annotations, filled) \cap Dependent[p] # {}
                => p \in Entity!Merged(annotations, filled)
<1>1. \A p, q \in Entity!Parents : /\ Dependent[p] \cap Entity!Parents = {}
                                   /\ p # q => Dependent[p] \cap Dependent[q] = {}
  BY PagesAssumption, Zenon DEF Entity!EntityAssumption
<1>2. \A x : x \in Entity!Merged(annotations, filled) <=>
               \/ x \in annotations /\ x \notin Entity!Fields
               \/ x \in Entity!Parents /\ x \in filled
               \/ x \in filled /\ \E p \in Entity!Parents : p \in filled /\ x \in Dependent[p]
  BY DEF Entity!Merged
<1>3. \A x : x \in Entity!Fields <=>
               x \in Entity!Parents \/ \E p \in Entity!Parents : x \in Dependent[p]
  BY DEF Entity!Fields
<1>4. Entity!Merged(annotations, filled) \ Entity!Fields = annotations \ Entity!Fields
  BY <1>2, <1>3
<1>5. ASSUME NEW p \in Entity!Parents, NEW x \in Dependent[p],
             x \in Entity!Merged(annotations, filled)
      PROVE  p \in Entity!Merged(annotations, filled)
  <2>1. x \in Entity!Fields /\ x \notin Entity!Parents
    BY <1>1, <1>3
  <2>2. PICK q \in Entity!Parents : q \in filled /\ x \in Dependent[q]
    BY <1>2, <1>5, <2>1
  <2>3. p = q
    BY <1>1, <2>2
  <2> QED BY <1>2, <2>2, <2>3
<1> QED BY <1>4, <1>5

\* What is asked for from the page is of the entity shown.
LEMMA AskKeeps ==
  ASSUME EntityInv, Entity!Shown, NEW op, op # "load", NEW body,
         Entity!Ask(Entity!Request(op, entAt, body)),
         UNCHANGED <<entAt, entShown, entLoading, entError, entCrossed>>,
         op = "update" => \E filled :
           body.annotations = Entity!Merged(entShown.annotations, filled)
  PROVE  EntityInv'
<1> DEFINE r == Entity!Request(op, entAt, body)
<1>1. entCalls' = entCalls \cup {r}
  BY DEF Entity!Ask
<1>2. /\ EntityFields \subseteq DOMAIN r /\ r.op = op /\ r.for = entAt /\ r.with = body
      /\ r.shown = entShown.name /\ r.phase = "sent"
  BY EntityRequest
<1> HIDE DEF r
<1>3. op = "update" =>
        /\ body.annotations \ Entity!Fields = entShown.annotations \ Entity!Fields
        /\ \A p \in Entity!Parents :
             body.annotations \cap Dependent[p] # {} => p \in body.annotations
  BY MergedKeepsTheRest
<1>4. EntityAsks'
  BY <1>1, <1>2, <1>3 DEF EntityInv, EntityAsks
<1>5. ~entLoading
  BY DEF Entity!Shown
<1>6. ASSUME ~entCrossed PROVE LiveAsks'
  <2>1. LiveAsks /\ entShown.name = entAt
    BY <1>6 DEF EntityInv, ShownIsAtAddress
  <2> QED BY <1>1, <1>2, <1>3, <1>5, <2>1 DEF LiveAsks
<1>7. Entity!Shown' = Entity!Shown
  BY DEF Entity!Shown
<1> QED BY <1>4, <1>6, <1>7 DEF EntityInv, ShownIsAtAddress

LEMMA EntityUndisturbed ==
  ASSUME EntityInv, UNCHANGED <<entAt, entShown, entCrossed>>,
         entLoading' <=> entLoading, ~entError' => ~entError, entCalls' \subseteq entCalls
  PROVE  EntityInv'
<1>1. Entity!Shown' => Entity!Shown
  BY DEF Entity!Shown
<1> QED BY <1>1 DEF EntityInv, EntityAsks, LiveAsks, ShownIsAtAddress

\* The handlers of the page
LEMMA EntityInputs ==
  ASSUME EntityInv,
         \/ Entity!Navigate \/ \E tab \in Entity!Tabs : Entity!OpenTab(tab)
         \/ Entity!CheckHealth \/ Entity!OpenEdit \/ Entity!EditMeta \/ Entity!HandleUpdate
         \/ Entity!AskDelete \/ Entity!HandleDelete \/ Entity!CloseDialog
  PROVE  EntityInv'
<1>1. CASE Entity!Navigate
  BY <1>1, LoadEntityKeeps, LeaveKeeps, Zenon DEF Entity!Navigate
<1>2. ASSUME NEW tab, Entity!OpenTab(tab) PROVE EntityInv'
  <2>1. /\ Entity!Shown /\ UNCHANGED <<entAt, entShown, entLoading, entError, entCrossed>>
        /\ \/ Entity!Ask(Entity!Request("graph", entAt, Entity!NoEntity))
           \/ Entity!Ask(Entity!Request("apis", entAt, Entity!NoEntity))
           \/ entCalls' = entCalls
    BY <1>2, Zenon DEF Entity!OpenTab, Entity!Page
  <2> QED BY <2>1, AskKeeps, EntityUndisturbed
<1>3. CASE Entity!CheckHealth \/ Entity!HandleDelete
  <2>1. /\ Entity!Shown /\ UNCHANGED <<entAt, entShown, entLoading, entError, entCrossed>>
        /\ \/ Entity!Ask(Entity!Request("health", entAt, Entity!NoEntity))
           \/ Entity!Ask(Entity!Request("delete", entAt, Entity!NoEntity))
    BY <1>3, Zenon DEF Entity!CheckHealth, Entity!HandleDelete
  <2> QED BY <2>1, AskKeeps
<1>4. CASE Entity!HandleUpdate
  <2> DEFINE body ==
        [name |-> IF entForm.name = None THEN entShown.name ELSE entForm.name,
         annotations |-> Entity!Merged(entShown.annotations, entForm.filled)]
  <2>1. /\ Entity!Shown /\ UNCHANGED <<entAt, entShown, entLoading, entError, entCrossed>>
        /\ Entity!Ask(Entity!Request("update", entAt, body))
    BY <1>4, Zenon DEF Entity!HandleUpdate
  <2>2. body.annotations = Entity!Merged(entShown.annotations, entForm.filled)
    OBVIOUS
  <2> HIDE DEF body
  <2> QED BY <2>1, <2>2, AskKeeps
<1>5. CASE Entity!OpenEdit \/ Entity!EditMeta \/ Entity!AskDelete \/ Entity!CloseDialog
  <2>1. UNCHANGED <<entAt, entShown, entLoading, entError, entCrossed, entCalls>>
    BY <1>5, Zenon DEF Entity!OpenEdit, Entity!EditMeta, Entity!AskDelete,
                       Entity!CloseDialog
  <2> QED BY <2>1, EntityUndisturbed
<1> QED BY <1>1, <1>2, <1>3, <1>4, <1>5

\* The server answers.
LEMMA EntityHandled ==
  ASSUME EntityInv, NEW c \in entCalls, Entity!Handle(c) PROVE EntityInv'
<1>1. UNCHANGED <<entAt, entShown, entLoading, entError, entCrossed>>
  BY Zenon DEF Entity!Handle
<1>2. PICK d : /\ entCalls' = (entCalls \ {c}) \cup {d}
               /\ \/ d = [c EXCEPT !.phase = "ok",
                                   !.with = IF c.op = "load" THEN Entity!Stored(c.for)
                                            ELSE @]
                  \/ d = [c EXCEPT !.phase = "no"]
  BY Zenon DEF Entity!Handle
<1>3. /\ EntityFields \subseteq DOMAIN d
      /\ d.op = c.op /\ d.for = c.for /\ d.live = c.live /\ d.shown = c.shown
      /\ d.phase \in {"ok", "no"}
      /\ d.op # "load" => d.with = c.with
      /\ d.op = "load" /\ d.phase = "ok" => d.with.name = d.for
  <2>1. EntityFields \subseteq DOMAIN c
    BY DEF EntityInv, EntityAsks
  <2>2. CASE d = [c EXCEPT !.phase = "no"]
    BY <2>1, <2>2 DEF EntityFields
  <2>3. CASE d = [c EXCEPT !.phase = "ok",
                           !.with = IF c.op = "load" THEN Entity!Stored(c.for) ELSE @]
    <3>1. /\ DOMAIN d = DOMAIN c
          /\ d.op = c.op /\ d.for = c.for /\ d.live = c.live /\ d.shown = c.shown
          /\ d.phase = "ok"
      BY <2>1, <2>3 DEF EntityFields
    <3>2. d.with = IF c.op = "load" THEN Entity!Stored(c.for) ELSE c.with
      BY <2>1, <2>3 DEF EntityFields
    <3>3. Entity!Stored(c.for).name = c.for
      BY DEF Entity!Stored
    <3> QED BY <2>1, <3>1, <3>2, <3>3
  <2> QED BY <1>2, <2>2, <2>3
<1>4. EntityAsks'
  BY <1>2, <1>3 DEF EntityInv, EntityAsks
<1>5. LiveAsks => LiveAsks'
  BY <1>1, <1>2, <1>3 DEF LiveAsks
<1>6. ShownIsAtAddress => ShownIsAtAddress'
  BY <1>1 DEF ShownIsAtAddress, Entity!Shown
<1> QED BY <1>1, <1>4, <1>5, <1>6 DEF EntityInv

\* What the page does with the answers
LEMMA EntityReceives ==
  ASSUME EntityInv, NEW c \in entCalls, Entity!Receive(c) PROVE EntityInv'
<1>1. c.phase \in {"ok", "no"}
  BY DEF Entity!Receive, EntityInv, EntityAsks
<1>2. CASE c.op = "load" /\ Entity!ReceiveLoad(c)
  <2>1. /\ entShown' = IF c.live /\ c.phase = "ok" THEN c.with ELSE entShown
        /\ UNCHANGED <<entAt, entCrossed>> /\ entCalls' = entCalls \ {c}
    BY <1>2, Zenon DEF Entity!ReceiveLoad
  <2>2. entLoading' => entLoading
    BY <1>2, Zenon DEF Entity!ReceiveLoad
  <2>3. ~entError' => ~entError /\ ~(c.live /\ c.phase = "no")
    BY <1>2, Zenon DEF Entity!ReceiveLoad, Entity!Failed
  <2>4. CASE c.live
    <3>1. EntityAsks'
      BY <2>1 DEF EntityInv, EntityAsks
    <3>2. ASSUME ~entCrossed PROVE LiveAsks' /\ ShownIsAtAddress'
      <4>1. c.for = entAt /\ \A d \in entCalls : d.live => d = c
        BY <1>2, <2>4, <3>2 DEF EntityInv, LiveAsks
      <4>2. LiveAsks'
        BY <2>1, <4>1 DEF LiveAsks
      <4>3. ~entError' => entShown'.name = entAt
        BY <1>1, <1>2, <2>1, <2>3, <2>4, <4>1 DEF EntityInv, EntityAsks
      <4> QED BY <2>1, <4>2, <4>3 DEF ShownIsAtAddress, Entity!Shown
    <3> QED BY <2>1, <3>1, <3>2 DEF EntityInv
  <2>5. CASE ~c.live
    <3>1. entLoading' <=> entLoading
      BY <1>2, <2>5, Zenon DEF Entity!ReceiveLoad
    <3> QED BY <2>1, <2>3, <2>5, <3>1, EntityUndisturbed
  <2> QED BY <2>4, <2>5
<1>3. CASE c.op = "update" /\ Entity!ReceiveUpdate(c)
  <2>1. \/ Entity!LoadEntity(c.with.name, entCalls \ {c})
        \/ /\ ~(c.phase = "ok" /\ c.with.name # c.for /\ c.with.name # entAt)
           /\ entCalls' = entCalls \ {c} /\ UNCHANGED <<entAt, entLoading, entCrossed>>
    BY <1>3, Zenon DEF Entity!ReceiveUpdate
  <2>2. entShown' = IF c.live /\ c.phase = "ok" THEN c.with ELSE entShown
    BY <1>3, Zenon DEF Entity!ReceiveUpdate
  <2>3. CASE Entity!LoadEntity(c.with.name, entCalls \ {c})
    BY <2>3, LoadEntityKeeps
  <2>4. CASE /\ ~(c.phase = "ok" /\ c.with.name # c.for /\ c.with.name # entAt)
             /\ entCalls' = entCalls \ {c} /\ UNCHANGED <<entAt, entLoading, entCrossed>>
    <3>1. EntityAsks'
      BY <2>4 DEF EntityInv, EntityAsks
    <3>2. ~entError' => ~entError
      BY <1>3, Zenon DEF Entity!ReceiveUpdate, Entity!Failed
    <3>3. ASSUME ~entCrossed PROVE LiveAsks' /\ ShownIsAtAddress'
      <4>1. LiveAsks /\ ShownIsAtAddress
        BY <3>3 DEF EntityInv
      <4>2. CASE c.live /\ c.phase = "ok"
        <5>1. /\ c.for = entAt /\ entShown' = c.with /\ c.with.name = entAt
              /\ entShown'.annotations \ Entity!Fields = entShown.annotations \ Entity!Fields
          BY <1>3, <2>2, <2>4, <4>1, <4>2 DEF LiveAsks
        <5> QED BY <2>4, <4>1, <5>1 DEF LiveAsks, ShownIsAtAddress
      <4>3. CASE entShown' = entShown
        <5>1. Entity!Shown' => Entity!Shown
          BY <2>4, <3>2, <4>3 DEF Entity!Shown
        <5> QED BY <2>4, <4>1, <4>3, <5>1 DEF LiveAsks, ShownIsAtAddress
      <4> QED BY <2>2, <4>2, <4>3
    <3> QED BY <2>4, <3>1, <3>3 DEF EntityInv
  <2> QED BY <2>1, <2>3, <2>4
<1>4. CASE c.op = "delete" /\ Entity!ReceiveDelete(c)
  <2>1. CASE Entity!Leave(entCalls \ {c})
    BY <2>1, LeaveKeeps
  <2>2. CASE /\ Entity!Failed(c) /\ entCalls' = entCalls \ {c}
             /\ UNCHANGED <<entAt, entShown, entLoading, entCrossed>>
    <3>1. ~entError' => ~entError
      BY <2>2, Zenon DEF Entity!Failed
    <3> QED BY <2>2, <3>1, EntityUndisturbed
  <2> QED BY <1>4, <2>1, <2>2, Zenon DEF Entity!ReceiveDelete
<1>5. CASE Entity!ReceiveAside(c)
  <2>1. /\ entCalls' = entCalls \ {c} /\ entError' = entError
        /\ UNCHANGED <<entAt, entShown, entLoading, entCrossed>>
    BY <1>5, Zenon DEF Entity!ReceiveAside
  <2> QED BY <2>1, EntityUndisturbed
<1>6. \/ c.op = "load" /\ Entity!ReceiveLoad(c)
      \/ c.op = "update" /\ Entity!ReceiveUpdate(c)
      \/ c.op = "delete" /\ Entity!ReceiveDelete(c)
      \/ Entity!ReceiveAside(c)
  BY Zenon DEF Entity!Receive
<1> QED BY <1>2, <1>3, <1>4, <1>5, <1>6

LEMMA EntityNext == ASSUME EntityInv, Entity!Next PROVE EntityInv'
  BY EntityInputs, EntityHandled, EntityReceives, Zenon DEF Entity!Next

\* A step of the window is a step of the entity's page, or none, if it is open there.
LEMMA EntityStep ==
  [Next]_vars => page' = page /\ (page = "entity" => Entity!Next \/ UNCHANGED entVars)
  BY Zenon DEF Next, Alone, vars

LEMMA EntityStutter == EntityInv /\ UNCHANGED entVars => EntityInv'
  BY EntityUndisturbed DEF entVars

LEMMA EntityInvariant == Spec => [](page = "entity" => EntityInv)
<1>1. Init => (page = "entity" => EntityInv)
  BY EntityInit DEF Init
<1>2. (page = "entity" => EntityInv) /\ [Next]_vars => (page = "entity" => EntityInv)'
  BY EntityStep, EntityNext, EntityStutter
<1> QED BY <1>1, <1>2, PTL DEF Spec

\* What is saved or deleted is what the page shows, through renames and errors, unless
\* the address changes while the page waits.
THEOREM WritesGoToTheShown == Spec => []WritesReachTheShown
<1>1. (page = "entity" => EntityInv) => WritesReachTheShown
  BY DEF WritesReachTheShown, Entity!WritesReachTheShown, Entity!Underway, EntityInv,
         LiveAsks
<1> QED BY <1>1, EntityInvariant, PTL

\* A save leaves the annotations without a field as they are, and sends none without
\* the one it belongs to.
THEOREM SavesLeaveTheRest == Spec => []SavesKeepTheRest
<1>1. (page = "entity" => EntityInv) => SavesKeepTheRest
  BY DEF SavesKeepTheRest, Entity!SavesKeepTheRest, Entity!Underway, EntityInv,
         EntityAsks, LiveAsks
<1> QED BY <1>1, EntityInvariant, PTL

-----------------------------------------------------------------------------
(* The types of the plugins *)

PluginOps == {"list", "enable", "disable", "sync", "config", "save"}

\* The requests: what is enabled or disabled is a plugin that is there, and what is
\* configured is a plugin.
PluginAsked ==
  {c \in Plugin!Call : /\ c.op \in ActionOps => c.plugin \in Plugins \ ComingSoon
                       /\ c.op = "config" => c.plugin \in Plugins}

PluginTyped ==
  /\ Plugin!TypeOK
  /\ plugCalls \subseteq PluginAsked
  /\ \A p \in ComingSoon : ~plugServer[p].enabled

LEMMA PluginConstants ==
  /\ ComingSoon \subseteq Plugins /\ None \notin Plugins /\ MaxPlugInputs \in Nat
  BY PagesAssumption DEF Plugin!PluginsAssumption

LEMMA PluginAsks ==
  ASSUME NEW op \in PluginOps, NEW p \in Plugins \cup {None}, plugInputs' \in 0..MaxPlugInputs,
         op \in ActionOps => p \in Plugins \ ComingSoon, op = "config" => p \in Plugins
  PROVE  Plugin!Request(op, p) \in PluginAsked
  BY DEF Plugin!Request, Plugin!Call, PluginOps, PluginAsked

LEMMA LeftTyped ==
  ASSUME NEW calls \in SUBSET PluginAsked, NEW ops
  PROVE  Plugin!Left(calls, ops) \subseteq PluginAsked
<1>1. ASSUME NEW c \in PluginAsked PROVE [c EXCEPT !.live = FALSE] \in PluginAsked
  <2>1. c \in Plugin!Call
    BY DEF PluginAsked
  <2>2. [c EXCEPT !.live = FALSE] \in Plugin!Call
    BY <2>1 DEF Plugin!Call
  <2>3. [c EXCEPT !.live = FALSE].op = c.op /\ [c EXCEPT !.live = FALSE].plugin = c.plugin
    BY <2>1 DEF Plugin!Call
  <2> QED BY <2>2, <2>3 DEF PluginAsked
<1> QED BY <1>1 DEF Plugin!Left

\* The variables of the detail
ModalTyped ==
  /\ plugDetail \in Plugins \cup {None}
  /\ plugTab \in Plugin!Tabs
  /\ plugConfig \in Plugins \cup {None} /\ plugFilled \in BOOLEAN
  /\ plugCalls \subseteq PluginAsked

LEMMA ShowTabTyped ==
  ASSUME NEW p \in Plugins, NEW tab \in Plugin!Tabs, NEW config \in Plugins \cup {None},
         NEW calls \in SUBSET PluginAsked, plugInputs' \in 0..MaxPlugInputs,
         plugFilled \in BOOLEAN, Plugin!ShowTab(p, tab, config, calls)
  PROVE  ModalTyped'
<1>1. /\ plugDetail' = p /\ plugTab' = tab /\ plugConfig' = config
      /\ plugCalls' \subseteq Plugin!Left(calls, {"config"}) \cup {Plugin!Request("config", p)}
  BY DEF Plugin!ShowTab
<1>2. plugFilled' \in BOOLEAN
  <2>1. plugFilled' = (plugFilled /\ config # None)
    BY DEF Plugin!ShowTab
  <2> QED BY <2>1
<1>3. Plugin!Request("config", p) \in PluginAsked
  BY PluginAsks DEF PluginOps, ActionOps
<1> QED BY <1>1, <1>2, <1>3, LeftTyped DEF ModalTyped

LEMMA SetDetailTyped ==
  ASSUME PluginTyped, NEW p \in Plugins, NEW tab \in Plugin!Tabs,
         NEW calls \in SUBSET PluginAsked, plugInputs' \in 0..MaxPlugInputs,
         Plugin!SetDetail(p, tab, calls)
  PROVE  ModalTyped' /\ plugStart' = tab
<1>1. /\ plugDetail \in Plugins \cup {None} /\ plugTab \in Plugin!Tabs
      /\ plugConfig \in Plugins \cup {None} /\ plugFilled \in BOOLEAN
  BY DEF PluginTyped, Plugin!TypeOK
<1>2. plugStart' = tab
  BY DEF Plugin!SetDetail
<1>3. PICK shown \in {tab, plugTab}, config \in {plugConfig, None} :
        \/ plugCalls' = calls /\ UNCHANGED <<plugDetail, plugTab, plugConfig, plugFilled>>
        \/ Plugin!ShowTab(p, shown, config, calls)
  BY DEF Plugin!SetDetail
<1>4. CASE plugCalls' = calls /\ UNCHANGED <<plugDetail, plugTab, plugConfig, plugFilled>>
  BY <1>1, <1>4, <1>2 DEF ModalTyped
<1>5. CASE Plugin!ShowTab(p, shown, config, calls)
  BY <1>1, <1>3, <1>5, <1>2, ShowTabTyped
<1> QED BY <1>3, <1>4, <1>5

LEMMA PluginTypedInit == Plugin!Init => PluginTyped
<1> SUFFICES ASSUME Plugin!Init PROVE PluginTyped
  OBVIOUS
<1>1. plugFilled = FALSE /\ plugCrossed = FALSE /\ plugInputs = 0
  BY DEF Plugin!Init
<1>2. {plugFilled, plugCrossed} \subseteq BOOLEAN
  BY <1>1
<1>3. Plugin!TypeOK
  BY <1>1, <1>2, PluginConstants DEF Plugin!Init, Plugin!TypeOK, Plugin!Tabs
<1> QED BY <1>3 DEF PluginTyped, Plugin!Init

\* What leaves the server and the list alone
LEMMA ModalKeeps ==
  ASSUME PluginTyped, ModalTyped', plugStart' \in Plugin!Tabs,
         UNCHANGED <<plugServer, plugShown, plugPage, plugOnly>>,
         plugCrossed' \in BOOLEAN, plugInputs' \in 0..MaxPlugInputs
  PROVE  PluginTyped'
<1>1. plugCalls' \subseteq Plugin!Call
  BY DEF ModalTyped, PluginAsked
<1> QED BY <1>1 DEF PluginTyped, Plugin!TypeOK, ModalTyped

LEMMA PluginTypedInputs ==
  ASSUME PluginTyped, DetailInv,
         \/ Plugin!SetFilter \/ \E p \in Plugin!Cards : Plugin!PluginCard(p)
         \/ Plugin!DetailHeader \/ Plugin!DetailBody
         \/ \E tab \in Plugin!Tabs : Plugin!SetTab(tab)
  PROVE  PluginTyped'
<1>1. ModalTyped /\ plugStart \in Plugin!Tabs /\ plugCrossed \in BOOLEAN
  BY DEF PluginTyped, Plugin!TypeOK, ModalTyped
<1>2. ASSUME Plugin!Input PROVE plugInputs' \in 0..MaxPlugInputs
  BY <1>2, PluginConstants DEF Plugin!Input, PluginTyped, Plugin!TypeOK
<1>3. \A p \in Plugin!Cards : p \in Plugins
  BY DEF Plugin!Cards, Plugin!Filtered, PluginTyped, Plugin!TypeOK
<1>4. CASE Plugin!SetFilter
  <2>1. ModalTyped' /\ plugInputs' \in 0..MaxPlugInputs
    BY <1>1, <1>2, <1>4 DEF Plugin!SetFilter, Plugin!modal, ModalTyped
  <2> QED BY <1>4, <2>1 DEF Plugin!SetFilter, Plugin!modal, PluginTyped, Plugin!TypeOK, ModalTyped
<1>5. CASE Plugin!EditForm
  <2>1. plugFilled' \in BOOLEAN
    BY <1>5 DEF Plugin!EditForm
  <2> QED BY <1>1, <1>2, <1>5, <2>1, ModalKeeps DEF Plugin!EditForm, ModalTyped
<1>6. CASE Plugin!HandleSave
  <2> DEFINE r == Plugin!Request("save", plugDetail)
             s == [r EXCEPT !.of = plugConfig, !.filled = plugFilled]
  <2>1. r \in PluginAsked /\ r.op = "save"
    BY <1>1, <1>2, <1>6, PluginAsks, PluginRequest DEF PluginOps, ActionOps, Plugin!HandleSave, ModalTyped
  <2>2. plugCalls' = plugCalls \cup {s}
    BY <1>6 DEF Plugin!HandleSave
  <2> HIDE DEF r
  <2>3. s \in Plugin!Call /\ s.op = "save"
    BY <1>1, <2>1 DEF PluginAsked, Plugin!Call, ModalTyped
  <2> HIDE DEF s
  <2>4. ModalTyped'
    BY <1>1, <1>6, <2>2, <2>3 DEF Plugin!HandleSave, Plugin!modal, ModalTyped, PluginAsked, ActionOps
  <2> QED BY <1>1, <1>2, <1>6, <2>4, ModalKeeps DEF Plugin!HandleSave, Plugin!modal
<1>7. CASE Plugin!CloseDetail
  <2>1. plugCalls' \subseteq PluginAsked
    BY <1>7, LeftTyped DEF Plugin!CloseDetail, PluginTyped
  <2>2. ModalTyped'
    BY <1>7, <2>1 DEF Plugin!CloseDetail, ModalTyped, Plugin!Tabs
  <2> QED BY <1>1, <1>2, <1>7, <2>2, ModalKeeps DEF Plugin!CloseDetail, Plugin!Tabs
<1>8. ASSUME NEW tab \in Plugin!Tabs, Plugin!SetTab(tab) PROVE PluginTyped'
  <2>1. ModalTyped'
    BY <1>1, <1>2, <1>8, ShowTabTyped DEF Plugin!SetTab, ModalTyped
  <2> QED BY <1>1, <1>2, <1>8, <2>1, ModalKeeps DEF Plugin!SetTab
<1>9. ASSUME NEW p \in Plugins, NEW tab \in Plugin!Tabs, Plugin!OpenDetail(p, tab)
      PROVE  PluginTyped'
  <2>1. ModalTyped' /\ plugStart' = tab
    BY <1>2, <1>9, SetDetailTyped DEF Plugin!OpenDetail, PluginTyped
  <2> QED BY <1>1, <1>2, <1>9, <2>1, ModalKeeps DEF Plugin!OpenDetail
<1>10. ASSUME NEW p \in Plugins, Plugin!HandleAction(p) \/ Plugin!HandleSync(p) PROVE PluginTyped'
  <2>1. PICK op \in {"enable", "disable", "sync"} :
          /\ plugCalls' = plugCalls \cup {Plugin!Request(op, p)}
          /\ op # "sync" => p \notin ComingSoon
    BY <1>10, Zenon DEF Plugin!HandleAction, Plugin!HandleSync
  <2>2. Plugin!Request(op, p) \in PluginAsked
    BY <1>2, <1>10, <2>1, PluginAsks
       DEF Plugin!HandleAction, Plugin!HandleSync, PluginOps, ActionOps
  <2>3. ModalTyped'
    BY <1>1, <1>10, <2>1, <2>2
       DEF Plugin!HandleAction, Plugin!HandleSync, Plugin!modal, ModalTyped
  <2>4. plugCrossed' \in BOOLEAN
    BY <1>1, <1>10 DEF Plugin!HandleAction, Plugin!HandleSync
  <2> QED BY <1>1, <1>2, <1>10, <2>3, <2>4, ModalKeeps
          DEF Plugin!HandleAction, Plugin!HandleSync, Plugin!modal
<1>11. CASE \E p \in Plugin!Cards : Plugin!PluginCard(p)
  BY <1>3, <1>9, <1>10, <1>11, Zenon DEF Plugin!PluginCard
<1>12. CASE Plugin!DetailHeader
  BY <1>1, <1>7, <1>10, <1>12 DEF Plugin!DetailHeader, ModalTyped
<1> QED BY <1>4, <1>5, <1>6, <1>8, <1>11, <1>12, Zenon DEF Plugin!DetailBody

LEMMA PluginTypedHandled ==
  ASSUME PluginTyped, NEW c \in plugCalls, Plugin!Handle(c) PROVE PluginTyped'
<1>1. c \in Plugin!Call /\ c \in PluginAsked
  BY DEF PluginTyped, Plugin!TypeOK
<1>2. PICK phase \in {"ok", "missing", "no"} :
        LET done == [c EXCEPT !.phase = phase,
                              !.filled = IF c.op = "config" THEN plugServer[c.plugin].ready
                                         ELSE @]
        IN  /\ plugCalls' = (plugCalls \ {c}) \cup {done}
            /\ CASE c.op \in {"enable", "disable"} -> Plugin!EnablePlugin(done)
                 [] c.op = "save" -> Plugin!UpdatePluginConfig(done)
                 [] OTHER -> phase # "missing" /\ UNCHANGED plugServer
  BY DEF Plugin!Handle
<1>3. UNCHANGED <<plugShown, plugPage, plugOnly, plugDetail, plugStart, plugTab, plugConfig,
                  plugFilled, plugCrossed, plugInputs>>
  BY DEF Plugin!Handle, Plugin!modal
<1>4. /\ plugServer \in [Plugins -> [enabled : BOOLEAN, ready : BOOLEAN]]
      /\ \A p \in ComingSoon : ~plugServer[p].enabled
  BY DEF PluginTyped, Plugin!TypeOK
<1> DEFINE filled == IF c.op = "config" THEN plugServer[c.plugin].ready ELSE c.filled
           done == [c EXCEPT !.phase = phase, !.filled = filled]
<1>5. filled \in BOOLEAN
  BY <1>1, <1>4 DEF PluginAsked, Plugin!Call
<1> HIDE DEF filled
<1>6. done \in Plugin!Call
  BY <1>1, <1>5 DEF Plugin!Call
<1>7. done.op = c.op /\ done.plugin = c.plugin /\ done.filled = filled /\ done.phase = phase
  BY <1>1 DEF Plugin!Call
<1>8. done \in PluginAsked
  BY <1>1, <1>6, <1>7 DEF PluginAsked
<1>9. /\ plugCalls' = (plugCalls \ {c}) \cup {done}
      /\ \/ c.op \in ActionOps /\ Plugin!EnablePlugin(done)
         \/ Plugin!UpdatePluginConfig(done)
         \/ UNCHANGED plugServer
  BY <1>2 DEF filled, ActionOps
<1> HIDE DEF done
<1>10. /\ plugServer' \in [Plugins -> [enabled : BOOLEAN, ready : BOOLEAN]]
       /\ \A p \in ComingSoon : ~plugServer'[p].enabled
  <2>1. CASE UNCHANGED plugServer
    BY <1>4, <2>1
  <2>2. CASE c.op \in ActionOps /\ plugServer' = [plugServer EXCEPT ![done.plugin].enabled = (done.op = "enable")]
    <3>1. done.plugin \in Plugins \ ComingSoon
      BY <1>1, <1>7, <2>2 DEF PluginAsked
    <3>2. (done.op = "enable") \in BOOLEAN
      OBVIOUS
    <3>3. plugServer' = [plugServer EXCEPT ![done.plugin] = [@ EXCEPT !.enabled = (done.op = "enable")]]
      BY <2>2, Zenon
    <3>4. plugServer[done.plugin] \in [enabled : BOOLEAN, ready : BOOLEAN]
      BY <1>4, <3>1
    <3>5. [plugServer[done.plugin] EXCEPT !.enabled = (done.op = "enable")]
            \in [enabled : BOOLEAN, ready : BOOLEAN]
      BY <3>2, <3>4
    <3> QED BY <1>4, <2>2, <3>1, <3>5
  <2>3. CASE plugServer' = [plugServer EXCEPT ![done.plugin].ready = done.filled]
    <3>1. CASE done.plugin \in Plugins
      <4>1. plugServer[done.plugin] \in [enabled : BOOLEAN, ready : BOOLEAN]
        BY <1>4, <3>1
      <4>2. [plugServer[done.plugin] EXCEPT !.ready = done.filled]
              \in [enabled : BOOLEAN, ready : BOOLEAN]
        BY <1>5, <1>7, <4>1
      <4>3. [plugServer[done.plugin] EXCEPT !.ready = done.filled].enabled = plugServer[done.plugin].enabled
        BY <4>1
      <4> QED BY <1>4, <2>3, <3>1, <4>2, <4>3, PluginConstants
    <3>2. CASE done.plugin \notin Plugins
      BY <1>4, <2>3, <3>2
    <3> QED BY <3>1, <3>2
  <2> QED BY <1>9, <2>1, <2>2, <2>3, Zenon DEF Plugin!EnablePlugin, Plugin!UpdatePluginConfig
<1>11. plugCalls' \subseteq PluginAsked /\ plugCalls' \subseteq Plugin!Call
  BY <1>6, <1>8, <1>9 DEF PluginTyped, Plugin!TypeOK
<1> QED BY <1>3, <1>10, <1>11 DEF PluginTyped, Plugin!TypeOK

LEMMA PluginTypedReceived ==
  ASSUME PluginTyped, NEW c \in plugCalls, Plugin!Receive(c) PROVE PluginTyped'
<1>1. c \in Plugin!Call /\ c \in PluginAsked
  BY DEF PluginTyped, Plugin!TypeOK
<1>2. UNCHANGED <<plugServer, plugOnly, plugCrossed, plugInputs>>
  BY DEF Plugin!Receive
<1>3. ModalTyped /\ plugStart \in Plugin!Tabs /\ plugInputs' \in 0..MaxPlugInputs
  BY <1>2 DEF PluginTyped, Plugin!TypeOK, ModalTyped
<1>4. plugCalls \ {c} \in SUBSET PluginAsked
  BY DEF PluginTyped
<1>5. ASSUME ModalTyped', plugStart' \in Plugin!Tabs, plugPage' \in {plugPage, "error"},
             plugShown' \subseteq Plugins \ ComingSoon
      PROVE  PluginTyped'
  <2>1. plugCalls' \subseteq Plugin!Call
    BY <1>5 DEF ModalTyped, PluginAsked
  <2> QED BY <1>2, <1>5, <2>1 DEF PluginTyped, Plugin!TypeOK, ModalTyped
<1>6. CASE c.op \in ActionOps /\ Plugin!ReceiveAction(c)
  <2>1. c.plugin \in Plugins \ ComingSoon
    BY <1>1, <1>6 DEF PluginAsked
  <2>2. plugShown' \subseteq Plugins \ ComingSoon /\ plugPage' \in {plugPage, "error"}
    BY <1>6, <2>1 DEF Plugin!ReceiveAction, Plugin!Fails, PluginTyped, Plugin!TypeOK
  <2>3. CASE Plugin!SetDetail(c.plugin, "config", plugCalls \ {c})
    BY <1>3, <1>4, <1>5, <2>1, <2>2, <2>3, SetDetailTyped DEF Plugin!Tabs
  <2>4. CASE plugCalls' = plugCalls \ {c} /\ UNCHANGED Plugin!modal
    BY <1>3, <1>5, <2>2, <2>4 DEF Plugin!modal, ModalTyped
  <2> QED BY <1>6, <2>3, <2>4, Zenon DEF Plugin!ReceiveAction
<1>7. CASE c.op = "config" /\ Plugin!ReceiveConfig(c)
  <2>1. c.plugin \in Plugins /\ c.filled \in BOOLEAN
    BY <1>1, <1>7 DEF PluginAsked, Plugin!Call
  <2>2. ModalTyped' /\ UNCHANGED <<plugShown, plugPage, plugStart>>
    BY <1>3, <1>7, <2>1 DEF Plugin!ReceiveConfig, ModalTyped
  <2> QED BY <1>3, <1>5, <2>2 DEF PluginTyped, Plugin!TypeOK
<1>8. CASE Plugin!ReceiveOther(c)
  <2>1. ModalTyped' /\ plugPage' \in {plugPage, "error"} /\ UNCHANGED <<plugShown, plugStart>>
    BY <1>3, <1>8 DEF Plugin!ReceiveOther, Plugin!Fails, Plugin!modal, ModalTyped
  <2> QED BY <1>3, <1>5, <2>1 DEF PluginTyped, Plugin!TypeOK
<1> QED BY <1>6, <1>7, <1>8, Zenon DEF Plugin!Receive, ActionOps

LEMMA PluginTypedNext == ASSUME PluginTyped, DetailInv, Plugin!Next PROVE PluginTyped'
<1>1. CASE Plugin!ListPlugins
  <2>1. plugShown' \subseteq Plugins \ ComingSoon /\ plugPage' \in {"list", "error"}
    BY <1>1 DEF Plugin!ListPlugins, PluginTyped, Plugin!TypeOK
  <2> QED BY <1>1, <2>1 DEF Plugin!ListPlugins, Plugin!modal, PluginTyped, Plugin!TypeOK
<1> QED BY <1>1, PluginTypedInputs, PluginTypedHandled, PluginTypedReceived, Zenon DEF Plugin!Next

LEMMA PluginsTypedCorrectly == Spec => [](page = "plugins" => Plugin!TypeOK)
<1> DEFINE Inv == page = "plugins" => DetailInv /\ PluginTyped
<1>1. Init => Inv
  BY DetailInit, PluginTypedInit DEF Init
<1>2. PluginTyped /\ UNCHANGED plugVars => PluginTyped'
  BY DEF PluginTyped, Plugin!TypeOK, plugVars
<1>3. Inv /\ [Next]_vars => Inv'
  BY <1>2, PluginStep, DetailNext, DetailStutter, PluginTypedNext
<1>4. Inv => (page = "plugins" => Plugin!TypeOK)
  BY DEF PluginTyped
<1> QED BY <1>1, <1>3, <1>4, PTL DEF Spec

-----------------------------------------------------------------------------
(* The types of the page of an entity *)

EntityOps == {"load", "update", "delete", "graph", "apis", "health"}

\* The requests: what is saved is an entity.
EntityAsked == {c \in Entity!Call : c.op = "update" => c.with \in Entity!Entity}

EntityTyped ==
  /\ Entity!TypeOK
  /\ entCalls \subseteq EntityAsked
  /\ {"name", "filled"} \subseteq DOMAIN entForm

LEMMA EntityConstants ==
  /\ Clean \in [EntityNames -> EntityNames] /\ None \notin EntityNames /\ MaxEntInputs \in Nat
  BY PagesAssumption DEF Entity!EntityAssumption

LEMMA EntityAsksTyped ==
  ASSUME EntityTyped, NEW op \in EntityOps, NEW n \in EntityNames,
         NEW body \in Entity!Entity \cup {Entity!NoEntity},
         op = "update" => body \in Entity!Entity
  PROVE  Entity!Request(op, n, body) \in EntityAsked
<1>1. entShown.name \in EntityNames \cup {None}
  BY DEF EntityTyped, Entity!TypeOK, Entity!Entity, Entity!NoEntity
<1> QED BY <1>1 DEF Entity!Request, Entity!Call, EntityOps, EntityAsked

\* An entity is shown when something can be done on the page.
LEMMA ShownTyped ==
  ASSUME EntityTyped, Entity!Shown
  PROVE  entAt \in EntityNames /\ entShown \in Entity!Entity
  BY DEF EntityTyped, Entity!TypeOK, Entity!Shown

LEMMA MergedTyped ==
  ASSUME NEW annotations \in SUBSET Entity!Annotations, NEW filled \in SUBSET Entity!Fields
  PROVE  Entity!Merged(annotations, filled) \subseteq Entity!Annotations
  BY DEF Entity!Merged, Entity!Annotations, Entity!Fields

LEMMA EntityTypedInit == Entity!Init => EntityTyped
<1> SUFFICES ASSUME Entity!Init PROVE EntityTyped
  OBVIOUS
<1>1. entLoading = TRUE /\ entError = FALSE /\ entEditing = FALSE /\ entAsking = FALSE
      /\ entCrossed = FALSE /\ entInputs = 0 /\ entForm = [name |-> None, filled |-> {}]
      /\ entCalls = {}
  BY DEF Entity!Init, Entity!NoForm
<1>2. {entLoading, entError, entEditing, entAsking, entCrossed} \subseteq BOOLEAN
  BY <1>1
<1>3. /\ DOMAIN entServer \subseteq EntityNames
      /\ \A n \in DOMAIN entServer : entServer[n] \subseteq Entity!Annotations
  BY DEF Entity!Init
<1>4. entInputs \in 0..MaxEntInputs
  BY <1>1, EntityConstants
<1>5. Entity!TypeOK
  BY <1>1, <1>2, <1>3, <1>4 DEF Entity!Init, Entity!TypeOK, Entity!Tabs
<1> QED BY <1>1, <1>5 DEF EntityTyped

\* The parts of the type that a new address changes
LEMMA LoadEntityTyped ==
  ASSUME EntityTyped, NEW n \in EntityNames, NEW calls \in SUBSET entCalls,
         Entity!LoadEntity(n, calls)
  PROVE  /\ entAt' = n /\ entTab' \in Entity!Tabs
         /\ entGraph' = None /\ entApis' = None /\ entLoading' \in BOOLEAN
         /\ entCalls' \subseteq EntityAsked /\ entCrossed' \in BOOLEAN
<1>1. Entity!Request("load", n, Entity!NoEntity) \in EntityAsked
  BY EntityAsksTyped DEF EntityOps
<1>2. entLoading' = TRUE
  BY DEF Entity!LoadEntity
<1>3. entCrossed' \in BOOLEAN
  BY DEF Entity!LoadEntity
<1> QED BY <1>1, <1>2, <1>3 DEF Entity!LoadEntity, Entity!Tabs, EntityTyped

LEMMA LeaveTyped ==
  ASSUME EntityTyped, NEW calls \in SUBSET entCalls, Entity!Leave(calls),
         UNCHANGED entServer, entInputs' \in 0..MaxEntInputs
  PROVE  EntityTyped'
<1>1. \A c \in EntityAsked : [c EXCEPT !.live = FALSE] \in EntityAsked
  BY DEF EntityAsked, Entity!Call
<1>2. entCalls' \subseteq EntityAsked /\ entCalls' \subseteq Entity!Call
  BY <1>1 DEF Entity!Leave, EntityTyped, EntityAsked
<1>3. entLoading' = TRUE /\ entError' = FALSE /\ entEditing' = FALSE /\ entAsking' = FALSE
      /\ entCrossed' = entCrossed
  BY DEF Entity!Leave
<1>4. {entLoading', entError', entEditing', entAsking', entCrossed'} \subseteq BOOLEAN
  BY <1>3 DEF EntityTyped, Entity!TypeOK
<1> QED BY <1>2, <1>4 DEF Entity!Leave, Entity!NoForm, Entity!NoEntity, Entity!Tabs,
                          EntityTyped, Entity!TypeOK

\* A request is sent and nothing else but the count of the inputs, the tab and the
\* dialogs changes.
LEMMA PageTyped ==
  ASSUME EntityTyped, entInputs' \in 0..MaxEntInputs,
         UNCHANGED <<entServer, entAt, entShown, entLoading, entError, entGraph, entApis,
                     entHealth, entCrossed>>,
         entTab' \in Entity!Tabs, entEditing' \in BOOLEAN, entAsking' \in BOOLEAN,
         entForm'.name \in EntityNames \cup {None}, entForm'.filled \subseteq Entity!Fields,
         {"name", "filled"} \subseteq DOMAIN entForm',
         entCalls' \subseteq EntityAsked
  PROVE  EntityTyped'
<1>1. entCalls' \subseteq Entity!Call
  BY DEF EntityAsked
<1> QED BY <1>1 DEF EntityTyped, Entity!TypeOK

LEMMA EntityTypedInputs ==
  ASSUME EntityTyped,
         \/ Entity!Navigate \/ \E tab \in Entity!Tabs : Entity!OpenTab(tab)
         \/ Entity!CheckHealth \/ Entity!OpenEdit \/ Entity!EditMeta \/ Entity!HandleUpdate
         \/ Entity!AskDelete \/ Entity!HandleDelete \/ Entity!CloseDialog
  PROVE  EntityTyped'
<1>1. ASSUME Entity!Input PROVE entInputs' \in 0..MaxEntInputs
  BY <1>1, EntityConstants DEF Entity!Input, EntityTyped, Entity!TypeOK
<1>2. /\ entTab \in Entity!Tabs /\ entEditing \in BOOLEAN /\ entAsking \in BOOLEAN
      /\ entForm.name \in EntityNames \cup {None} /\ entForm.filled \subseteq Entity!Fields
      /\ {"name", "filled"} \subseteq DOMAIN entForm
      /\ entCalls \subseteq EntityAsked
  BY DEF EntityTyped, Entity!TypeOK
<1>3. ASSUME NEW n \in EntityNames, Entity!Input, Entity!LoadEntity(n, entCalls),
             UNCHANGED <<entServer, entShown, entError, entHealth, Entity!dialogs>>
      PROVE  EntityTyped'
  <2>1. entCalls' \subseteq Entity!Call
    BY <1>3, LoadEntityTyped DEF EntityAsked
  <2> QED BY <1>1, <1>3, <2>1, LoadEntityTyped DEF Entity!dialogs, EntityTyped, Entity!TypeOK
<1>4. CASE Entity!Navigate
  BY <1>1, <1>3, <1>4, LeaveTyped DEF Entity!Navigate
<1>5. ASSUME NEW op \in EntityOps \ {"update"}, Entity!Shown,
             entCalls' = entCalls \cup {Entity!Request(op, entAt, Entity!NoEntity)}
      PROVE  entCalls' \subseteq EntityAsked
  BY <1>2, <1>5, ShownTyped, EntityAsksTyped
<1>6. ASSUME NEW tab \in Entity!Tabs, Entity!OpenTab(tab) PROVE EntityTyped'
  <2>1. entCalls' \subseteq EntityAsked
    BY <1>2, <1>5, <1>6 DEF Entity!OpenTab, Entity!Page, Entity!Ask, EntityOps
  <2> QED BY <1>1, <1>2, <1>6, <2>1, PageTyped DEF Entity!OpenTab, Entity!aside, Entity!dialogs
<1>7. CASE Entity!CheckHealth \/ Entity!HandleDelete
  <2>1. entCalls' \subseteq EntityAsked
    BY <1>5, <1>7 DEF Entity!CheckHealth, Entity!HandleDelete, Entity!Ask, EntityOps
  <2> QED BY <1>1, <1>2, <1>7, <2>1, PageTyped
          DEF Entity!CheckHealth, Entity!HandleDelete, Entity!aside, Entity!dialogs
<1>8. CASE Entity!HandleUpdate
  <2> DEFINE body == [name |-> IF entForm.name = None THEN entShown.name ELSE entForm.name,
                      annotations |-> Entity!Merged(entShown.annotations, entForm.filled)]
  <2>1. entAt \in EntityNames /\ entShown \in Entity!Entity
    BY <1>8, ShownTyped DEF Entity!HandleUpdate
  <2>2. entShown.name \in EntityNames /\ entShown.annotations \subseteq Entity!Annotations
    BY <2>1 DEF Entity!Entity
  <2>3. body \in Entity!Entity
    BY <1>2, <2>2, MergedTyped DEF Entity!Entity
  <2>4. entCalls' = entCalls \cup {Entity!Request("update", entAt, body)}
    BY <1>8 DEF Entity!HandleUpdate, Entity!Ask
  <2> HIDE DEF body
  <2>5. entCalls' \subseteq EntityAsked
    BY <1>2, <2>1, <2>3, <2>4, EntityAsksTyped DEF EntityOps
  <2> QED BY <1>1, <1>2, <1>8, <2>5, PageTyped
          DEF Entity!HandleUpdate, Entity!aside, Entity!dialogs
<1>9. CASE Entity!OpenEdit
  <2>1. entShown.name \in EntityNames
    BY <1>9, ShownTyped DEF Entity!OpenEdit, Entity!Page, Entity!Entity
  <2>2. /\ entForm'.name \in EntityNames \cup {None} /\ entForm'.filled \subseteq Entity!Fields
        /\ {"name", "filled"} \subseteq DOMAIN entForm'
    BY <1>9, <2>1, EntityConstants DEF Entity!OpenEdit
  <2>3. entEditing' = TRUE
    BY <1>9 DEF Entity!OpenEdit
  <2>4. entEditing' \in BOOLEAN
    BY <2>3
  <2> QED BY <1>1, <1>2, <1>9, <2>2, <2>4, PageTyped DEF Entity!OpenEdit, Entity!aside
<1>10. CASE Entity!EditMeta
  <2> DEFINE EditTyped ==
        /\ entForm'.name \in EntityNames \cup {None} /\ entForm'.filled \subseteq Entity!Fields
        /\ {"name", "filled"} \subseteq DOMAIN entForm'
  <2>1. EditTyped
    <3>1. ASSUME NEW n \in {Clean[m] : m \in EntityNames} \cup {None},
                 entForm' = [entForm EXCEPT !.name = n]
          PROVE  EditTyped
      BY <1>2, <3>1, EntityConstants
    <3>2. ASSUME NEW a \in Entity!Fields, NEW set, set \in {entForm.filled \ {a}, entForm.filled \cup {a}},
                 entForm' = [entForm EXCEPT !.filled = set]
          PROVE  EditTyped
      BY <1>2, <3>2
    <3> QED BY <1>10, <3>1, <3>2 DEF Entity!EditMeta
  <2> QED BY <1>1, <1>2, <1>10, <2>1, PageTyped DEF Entity!EditMeta, Entity!aside
<1>11. CASE Entity!AskDelete
  <2>1. entAsking' = TRUE
    BY <1>11 DEF Entity!AskDelete
  <2>2. entAsking' \in BOOLEAN
    BY <2>1
  <2> QED BY <1>1, <1>2, <1>11, <2>2, PageTyped DEF Entity!AskDelete, Entity!aside
<1>12. CASE Entity!CloseDialog
  <2>1. entAsking' = FALSE /\ entEditing' = FALSE
    BY <1>12 DEF Entity!CloseDialog
  <2>2. {entAsking', entEditing'} \subseteq BOOLEAN
    BY <2>1
  <2> QED BY <1>1, <1>2, <1>12, <2>2, PageTyped DEF Entity!CloseDialog, Entity!aside
<1> QED BY <1>4, <1>6, <1>7, <1>8, <1>9, <1>10, <1>11, <1>12, Zenon

LEMMA EntityTypedHandled ==
  ASSUME EntityTyped, NEW c \in entCalls, Entity!Handle(c) PROVE EntityTyped'
<1>1. /\ c \in Entity!Call
      /\ c.op = "update" => c.with \in Entity!Entity
      /\ c.for \in EntityNames /\ c.with \in Entity!Entity \cup {Entity!NoEntity}
  BY DEF EntityTyped, EntityAsked, Entity!Call
<1>2. UNCHANGED <<entAt, entShown, entLoading, entError, entTab, entGraph, entApis, entHealth,
                  entEditing, entAsking, entForm, entCrossed, entInputs>>
  BY DEF Entity!Handle, Entity!aside, Entity!dialogs
<1>3. /\ DOMAIN entServer \subseteq EntityNames
      /\ \A n \in DOMAIN entServer : entServer[n] \subseteq Entity!Annotations
  BY DEF EntityTyped, Entity!TypeOK
<1>4. \/ c.op = "update" /\ Entity!UpdateEntity(c)
      \/ Entity!DeleteEntity(c)
      \/ UNCHANGED entServer
  BY Zenon DEF Entity!Handle
<1>5. /\ DOMAIN entServer' \subseteq EntityNames
      /\ \A n \in DOMAIN entServer' : entServer'[n] \subseteq Entity!Annotations
  <2>1. CASE c.op = "update" /\ Entity!UpdateEntity(c)
    <3>1. c.with.name \in EntityNames /\ c.with.annotations \subseteq Entity!Annotations
      BY <1>1, <2>1 DEF Entity!Entity
    <3> QED BY <1>3, <2>1, <3>1 DEF Entity!UpdateEntity
  <2>2. CASE Entity!DeleteEntity(c)
    BY <1>3, <2>2 DEF Entity!DeleteEntity
  <2> QED BY <1>3, <1>4, <2>1, <2>2
<1>6. PICK d : /\ entCalls' = (entCalls \ {c}) \cup {d}
               /\ \/ /\ d = [c EXCEPT !.phase = "ok",
                                   !.with = IF c.op = "load" THEN Entity!Stored(c.for)
                                            ELSE @]
                     /\ c.op = "load" => Entity!Known(c.for)
                  \/ d = [c EXCEPT !.phase = "no"]
  BY DEF Entity!Handle
<1>7. d \in EntityAsked
  <2>1. CASE d = [c EXCEPT !.phase = "no"]
    BY <1>1, <2>1 DEF EntityAsked, Entity!Call
  <2>2. CASE /\ d = [c EXCEPT !.phase = "ok",
                              !.with = IF c.op = "load" THEN Entity!Stored(c.for) ELSE @]
             /\ c.op = "load" => Entity!Known(c.for)
    <3>1. c.op = "load" => Entity!Stored(c.for) \in Entity!Entity
      BY <1>1, <1>3, <2>2 DEF Entity!Stored, Entity!Known, Entity!Entity
    <3> DEFINE with == IF c.op = "load" THEN Entity!Stored(c.for) ELSE c.with
    <3>2. with \in Entity!Entity \cup {Entity!NoEntity} /\ (c.op = "update" => with \in Entity!Entity)
      BY <1>1, <3>1
    <3>3. d = [c EXCEPT !.phase = "ok", !.with = with]
      BY <2>2
    <3> HIDE DEF with
    <3>4. d \in Entity!Call /\ d.op = c.op /\ d.with = with
      BY <1>1, <3>2, <3>3 DEF Entity!Call
    <3> QED BY <3>2, <3>4 DEF EntityAsked
  <2> QED BY <1>6, <2>1, <2>2
<1>8. entCalls' \subseteq EntityAsked /\ entCalls' \subseteq Entity!Call
  BY <1>6, <1>7 DEF EntityTyped, EntityAsked
<1> QED BY <1>2, <1>5, <1>8 DEF EntityTyped, Entity!TypeOK

LEMMA EntityTypedReceived ==
  ASSUME EntityTyped, NEW c \in entCalls, Entity!Receive(c) PROVE EntityTyped'
<1>1. /\ c \in Entity!Call
      /\ c.op = "update" => c.with \in Entity!Entity
      /\ c.for \in EntityNames /\ c.with \in Entity!Entity \cup {Entity!NoEntity}
  BY DEF EntityTyped, EntityAsked, Entity!Call
<1>2. UNCHANGED entServer /\ UNCHANGED entInputs
  BY DEF Entity!Receive
<1>3. ASSUME Entity!Failed(c) PROVE entError' \in BOOLEAN
  BY <1>3 DEF Entity!Failed
<1>4. entCalls \ {c} \subseteq Entity!Call /\ entCalls \ {c} \subseteq EntityAsked
  BY DEF EntityTyped, EntityAsked
<1>5. CASE Entity!ReceiveLoad(c)
  <2>1. entLoading' \in BOOLEAN
    BY <1>5 DEF Entity!ReceiveLoad
  <2>2. entError' \in BOOLEAN
    BY <1>3, <1>5 DEF Entity!ReceiveLoad
  <2>3. entShown' \in Entity!Entity \cup {Entity!NoEntity}
    BY <1>1, <1>5 DEF Entity!ReceiveLoad, EntityTyped, Entity!TypeOK
  <2> QED BY <1>2, <1>4, <1>5, <2>1, <2>2, <2>3
          DEF Entity!ReceiveLoad, Entity!aside, Entity!dialogs, EntityTyped, Entity!TypeOK
<1>6. CASE c.op = "update" /\ Entity!ReceiveUpdate(c)
  <2>1. c.with.name \in EntityNames
    BY <1>1, <1>6 DEF Entity!Entity
  <2>2. entShown' \in Entity!Entity \cup {Entity!NoEntity} /\ entEditing' \in {entEditing, FALSE}
    BY <1>1, <1>6 DEF Entity!ReceiveUpdate, EntityTyped, Entity!TypeOK
  <2>3. {entEditing'} \subseteq BOOLEAN
    BY <2>2 DEF EntityTyped, Entity!TypeOK
  <2>4. entError' \in BOOLEAN
    BY <1>3, <1>6 DEF Entity!ReceiveUpdate
  <2>5. UNCHANGED <<entHealth, entAsking, entForm>>
    BY <1>6 DEF Entity!ReceiveUpdate
  <2>6. CASE Entity!LoadEntity(c.with.name, entCalls \ {c})
    <3>1. entCalls' \subseteq Entity!Call
      BY <2>1, <2>6, LoadEntityTyped DEF EntityAsked
    <3> QED BY <1>2, <2>1, <2>2, <2>3, <2>4, <2>5, <2>6, <3>1, LoadEntityTyped
            DEF EntityTyped, Entity!TypeOK
  <2>7. CASE /\ entCalls' = entCalls \ {c}
             /\ UNCHANGED <<entAt, entLoading, entTab, entGraph, entApis, entCrossed>>
    BY <1>2, <1>4, <2>2, <2>3, <2>4, <2>5, <2>7 DEF EntityTyped, Entity!TypeOK
  <2> QED BY <1>6, <2>6, <2>7, Zenon DEF Entity!ReceiveUpdate
<1>7. CASE Entity!ReceiveDelete(c)
  <2>1. CASE Entity!Leave(entCalls \ {c})
    <3>1. entInputs' \in 0..MaxEntInputs
      BY <1>2 DEF EntityTyped, Entity!TypeOK
    <3> QED BY <1>2, <2>1, <3>1, LeaveTyped
  <2>2. CASE /\ Entity!Failed(c) /\ entCalls' = entCalls \ {c}
             /\ UNCHANGED <<entAt, entShown, entLoading, entTab, Entity!aside, Entity!dialogs, entCrossed>>
    BY <1>2, <1>3, <1>4, <2>2 DEF Entity!aside, Entity!dialogs, EntityTyped, Entity!TypeOK
  <2> QED BY <1>7, <2>1, <2>2, Zenon DEF Entity!ReceiveDelete
<1>8. CASE Entity!ReceiveAside(c)
  <2>1. {entGraph', entApis', entHealth'} \subseteq EntityNames \cup {None}
    BY <1>1, <1>8 DEF Entity!ReceiveAside, EntityTyped, Entity!TypeOK
  <2> QED BY <1>2, <1>4, <1>8, <2>1 DEF Entity!ReceiveAside, Entity!dialogs, EntityTyped, Entity!TypeOK
<1> QED BY <1>5, <1>6, <1>7, <1>8, Zenon DEF Entity!Receive

LEMMA EntityTypedNext == ASSUME EntityTyped, Entity!Next PROVE EntityTyped'
  BY EntityTypedInputs, EntityTypedHandled, EntityTypedReceived, Zenon DEF Entity!Next

LEMMA EntityTypedCorrectly == Spec => [](page = "entity" => Entity!TypeOK)
<1> DEFINE Inv == page = "entity" => EntityTyped
<1>1. Init => Inv
  BY EntityTypedInit DEF Init
<1>2. EntityTyped /\ UNCHANGED entVars => EntityTyped'
  BY DEF EntityTyped, Entity!TypeOK, entVars
<1>3. Inv /\ [Next]_vars => Inv'
  BY <1>2, EntityStep, EntityTypedNext
<1>4. Inv => (page = "entity" => Entity!TypeOK)
  BY DEF EntityTyped
<1> QED BY <1>1, <1>3, <1>4, PTL DEF Spec
=============================================================================
